---------------------------- MODULE OpenMetrics -----------------------------
(***************************************************************************)
(* What the worker computes for trade.opened events: the calculators       *)
(* RevengeFlag and Overtrading of internal/metrics, run one after the      *)
(* other by process (internal/worker/worker.go), statement by statement,   *)
(* while clients go on posting and other workers handle the same events.   *)
(*                                                                         *)
(* Any statement may fail, without effect or with its reply lost.  The     *)
(* stream is reduced as in CloseMetrics.  Time is what clients write into  *)
(* their trades: no clock runs, and trades arrive in any order.            *)
(***************************************************************************)
EXTENDS Naturals, FiniteSets, SequencesExt

CONSTANTS Workers,        \* worker processes
          Users,
          Trades,         \* the trades clients may post
          Data,           \* what each of them carries
          None,           \* no exit, no job
          Gap,            \* 90 seconds
          Window,         \* 30 minutes
          Limit,          \* 10 trades
          Tick,           \* a millisecond, the precision of an event's time
          MaxDeliveries   \* deliveries of an event before it is dead-lettered

ASSUME DataAssumption ==
    /\ \A t \in Trades : /\ Data[t].user \in Users
                         /\ Data[t].entry \in Nat
                         /\ Data[t].exit \in Nat \cup {None}
                         /\ Data[t].loss \in BOOLEAN
                         /\ Data[t].upset \in BOOLEAN
    /\ None \notin Trades /\ None \notin Nat

ASSUME BoundsAssumption == /\ Gap \in Nat /\ Window \in Nat /\ Limit \in Nat \ {0}
                           /\ Tick \in Nat \ {0} /\ MaxDeliveries \in Nat

VARIABLES
    stored,      \* the rows of table trades, in the order of their insertion
    event,       \* of each trade's trade.opened: "none", "live", "done", "dead"
    deliveries,  \* how often it has been delivered
    job,         \* the trade whose event each worker handles
    at,          \* the statement a worker comes to next
    failed,      \* whether a calculator of the job has returned an error
    flags,       \* the trades whose revenge_flag is set
    revenge,     \* user_metrics.revenge_trades_count
    incidents,   \* overtrading_events: rows whose window ends with this trade
    overtrading  \* user_metrics.overtrading_events_count

jobVars == <<job, at, failed>>
tables  == <<flags, revenge, incidents, overtrading>>
vars    == <<stored, event, deliveries, jobVars, tables>>

Stages == {"idle", "revenge", "flag", "bump", "count", "dedupe", "record", "tally", "verdict"}

Open(t) == Data[t].exit = None
User(t) == Data[t].user

(* The time of the trade's event: an event carries milliseconds, the row    *)
(* of the trade microseconds.                                               *)
At(t) == Data[t].entry - (Data[t].entry % Tick)

----------------------------------------------------------------------------
(* The queries, over a set S of rows.                                       *)

LossesBefore(t, S) == {x \in S : /\ User(x) = User(t) /\ ~Open(x) /\ Data[x].loss
                                 /\ Data[x].exit <= Data[t].entry}

(* ORDER BY exit_at DESC LIMIT 1.                                           *)
LastLoss(t, S) == {x \in LossesBefore(t, S) :
                     \A y \in LossesBefore(t, S) : Data[y].exit <= Data[x].exit}

IsRevenge(t, S) == /\ Data[t].upset
                   /\ \E x \in LastLoss(t, S) : Data[t].entry <= Data[x].exit + Gap

(* Trades of the user with entry_at in the window that ends at time e.      *)
OpenedIn(t, e, S) == {x \in S : /\ User(x) = User(t)
                                /\ Data[x].entry <= e /\ e <= Data[x].entry + Window}

(* A detected window ends in the one that ends with t.                      *)
Covered(t) == \E x \in Trades : /\ incidents[x] > 0 /\ User(x) = User(t)
                                /\ At(x) <= At(t) /\ At(t) <= At(x) + Window

Rows == ToSet(stored)

----------------------------------------------------------------------------
(* The stream and the loop around process.                                  *)

(* The event of a trade posted open; trade.closed is CloseMetrics's.        *)
Store(t) ==
    /\ t \notin Rows
    /\ stored' = Append(stored, t)
    /\ event' = IF Open(t) THEN [event EXCEPT ![t] = "live"] ELSE event
    /\ UNCHANGED <<deliveries, jobVars, tables>>

(* Operators whose name ends in Bug are not part of the model: each is the  *)
(* definition after it with one plausible mistake, which some property      *)
(* listed in PROJECT.json tells from the code.                              *)

TakeBug(w, t) ==  \* the delivery limit not looked at
    /\ job[w] = None
    /\ event[t] = "live"
    /\ deliveries' = [deliveries EXCEPT ![t] = @ + 1]
    /\ job' = [job EXCEPT ![w] = t]
    /\ at' = [at EXCEPT ![w] = "revenge"]
    /\ UNCHANGED <<stored, event, failed, tables>>

Take(w, t) ==
    /\ job[w] = None
    /\ event[t] = "live" /\ deliveries[t] < MaxDeliveries
    /\ deliveries' = [deliveries EXCEPT ![t] = @ + 1]
    /\ job' = [job EXCEPT ![w] = t]
    /\ at' = [at EXCEPT ![w] = "revenge"]
    /\ UNCHANGED <<stored, event, failed, tables>>

DeadLetter(t) ==
    /\ event[t] = "live" /\ deliveries[t] = MaxDeliveries
    /\ event' = [event EXCEPT ![t] = "dead"]
    /\ UNCHANGED <<stored, deliveries, jobVars, tables>>

Release(w) == /\ job' = [job EXCEPT ![w] = None]
              /\ at' = [at EXCEPT ![w] = "idle"]
              /\ failed' = [failed EXCEPT ![w] = FALSE]

(* process has returned; an acknowledgement may fail too.                   *)
Verdict(w) ==
    /\ at[w] = "verdict"
    /\ \/ UNCHANGED event
       \/ ~failed[w] /\ event[job[w]] = "live" /\ event' = [event EXCEPT ![job[w]] = "done"]
    /\ Release(w)
    /\ UNCHANGED <<stored, deliveries, tables>>

Crash(w) ==
    /\ job[w] # None
    /\ Release(w)
    /\ UNCHANGED <<stored, event, deliveries, tables>>

(* The statement fails and its calculator returns: next is the statement    *)
(* of the one after it, or the verdict.                                     *)
Fail(w, next) == /\ failed' = [failed EXCEPT ![w] = TRUE]
                 /\ at' = [at EXCEPT ![w] = next]

Pass(w, next) == /\ at' = [at EXCEPT ![w] = next]
                 /\ UNCHANGED failed

----------------------------------------------------------------------------
(* RevengeFlag.  The row of the trade itself never changes in what is read  *)
(* of it, so loading it is part of the query after it.                      *)
RevengeQuery(w) ==
    /\ at[w] = "revenge"
    /\ \/ Pass(w, IF IsRevenge(job[w], Rows) THEN "flag" ELSE "count")
       \/ Fail(w, "count")
    /\ UNCHANGED <<stored, event, deliveries, job, tables>>

SetFlagBug(w) ==  \* the error logged, not returned
    /\ at[w] = "flag"
    /\ \/ flags' = flags \cup {job[w]}
       \/ UNCHANGED flags
    /\ Pass(w, "bump")
    /\ UNCHANGED <<stored, event, deliveries, job, revenge, incidents, overtrading>>

SetFlag(w) ==
    /\ at[w] = "flag"
    /\ LET set == flags' = flags \cup {job[w]}
       IN \/ set /\ (Pass(w, "bump") \/ Fail(w, "count"))
          \/ UNCHANGED flags /\ Fail(w, "count")
    /\ UNCHANGED <<stored, event, deliveries, job, revenge, incidents, overtrading>>

BumpRevengeBug(w) ==  \* a trade that is flagged already is not counted again
    /\ at[w] = "bump"
    /\ revenge' = [revenge EXCEPT ![User(job[w])] = IF deliveries[job[w]] = 1 THEN @ + 1 ELSE @]
    /\ Pass(w, "count")
    /\ UNCHANGED <<stored, event, deliveries, job, flags, incidents, overtrading>>

BumpRevenge(w) ==
    /\ at[w] = "bump"
    /\ LET bump == revenge' = [revenge EXCEPT ![User(job[w])] = @ + 1]
       IN \/ bump /\ (Pass(w, "count") \/ Fail(w, "count"))
          \/ UNCHANGED revenge /\ Fail(w, "count")
    /\ UNCHANGED <<stored, event, deliveries, job, flags, incidents, overtrading>>

----------------------------------------------------------------------------
(* Overtrading: two queries, an insert and an increment, no transaction.    *)
CountOpensBug(w) ==  \* count < 10
    /\ at[w] = "count"
    /\ LET n == Cardinality(OpenedIn(job[w], At(job[w]), Rows))
       IN Pass(w, IF n >= Limit THEN "dedupe" ELSE "verdict")
    /\ UNCHANGED <<stored, event, deliveries, job, tables>>

CountOpens(w) ==
    /\ at[w] = "count"
    /\ LET n == Cardinality(OpenedIn(job[w], At(job[w]), Rows))
       IN \/ Pass(w, IF n > Limit THEN "dedupe" ELSE "verdict")
          \/ Fail(w, "verdict")
    /\ UNCHANGED <<stored, event, deliveries, job, tables>>

DedupeBug(w) ==  \* any incident of the user, however long ago
    /\ at[w] = "dedupe"
    /\ LET before == \E x \in Trades : incidents[x] > 0 /\ User(x) = User(job[w])
       IN Pass(w, IF before THEN "verdict" ELSE "record")
    /\ UNCHANGED <<stored, event, deliveries, job, tables>>

Dedupe(w) ==
    /\ at[w] = "dedupe"
    /\ \/ Pass(w, IF Covered(job[w]) THEN "verdict" ELSE "record")
       \/ Fail(w, "verdict")
    /\ UNCHANGED <<stored, event, deliveries, job, tables>>

RecordIncident(w) ==
    /\ at[w] = "record"
    /\ LET add == incidents' = [incidents EXCEPT ![job[w]] = @ + 1]
       IN \/ add /\ (Pass(w, "tally") \/ Fail(w, "verdict"))
          \/ UNCHANGED incidents /\ Fail(w, "verdict")
    /\ UNCHANGED <<stored, event, deliveries, job, flags, revenge, overtrading>>

(* The overtrading.detected event that follows is best effort, and nothing  *)
(* here depends on it.                                                      *)
TallyIncidentBug(w) ==  \* retried at once when its reply is lost
    /\ at[w] = "tally"
    /\ \E n \in 1 .. 2 : overtrading' = [overtrading EXCEPT ![User(job[w])] = @ + n]
    /\ Pass(w, "verdict")
    /\ UNCHANGED <<stored, event, deliveries, job, flags, revenge, incidents>>

TallyIncident(w) ==
    /\ at[w] = "tally"
    /\ LET bump == overtrading' = [overtrading EXCEPT ![User(job[w])] = @ + 1]
       IN \/ bump /\ (Pass(w, "verdict") \/ Fail(w, "verdict"))
          \/ UNCHANGED overtrading /\ Fail(w, "verdict")
    /\ UNCHANGED <<stored, event, deliveries, job, flags, revenge, incidents>>

----------------------------------------------------------------------------

Init == /\ stored = <<>>
        /\ event = [t \in Trades |-> "none"]
        /\ deliveries = [t \in Trades |-> 0]
        /\ job = [w \in Workers |-> None]
        /\ at = [w \in Workers |-> "idle"]
        /\ failed = [w \in Workers |-> FALSE]
        /\ flags = {}
        /\ revenge = [u \in Users |-> 0]
        /\ incidents = [t \in Trades |-> 0]
        /\ overtrading = [u \in Users |-> 0]

Calculate(w) == \/ RevengeQuery(w) \/ SetFlag(w) \/ BumpRevenge(w)
                \/ CountOpens(w) \/ Dedupe(w) \/ RecordIncident(w) \/ TallyIncident(w)

Next == \/ \E t \in Trades : Store(t) \/ DeadLetter(t)
        \/ \E w \in Workers : \/ \E t \in Trades : Take(w, t)
                              \/ Calculate(w)
                              \/ Verdict(w)
                              \/ Crash(w)

Spec == Init /\ [][Next]_vars

----------------------------------------------------------------------------
(* Type correctness; no event is delivered more often than the dead-letter  *)
(* rule of handle (worker.go) allows.                                       *)
TypeOK ==
    /\ stored \in Seq(Trades)
    /\ event \in [Trades -> {"none", "live", "done", "dead"}]
    /\ deliveries \in [Trades -> 0 .. MaxDeliveries]
    /\ job \in [Workers -> Rows \cup {None}]
    /\ at \in [Workers -> Stages]
    /\ failed \in [Workers -> BOOLEAN]
    /\ flags \in SUBSET Rows
    /\ revenge \in [Users -> Nat]
    /\ incidents \in [Trades -> Nat]
    /\ overtrading \in [Users -> Nat]

(* t is a revenge trade, going by the rows S.                               *)
Rash(t, S) == /\ Data[t].upset
              /\ \E x \in S : /\ User(x) = User(t) /\ ~Open(x) /\ Data[x].loss
                              /\ Data[t].entry - Data[x].exit \in 0 .. Gap

(* The rows stored when t was inserted, t among them.                       *)
UpTo(t) == {x \in Rows : \E i, j \in DOMAIN stored : i <= j /\ stored[i] = x /\ stored[j] = t}

(* "A trade is revenge if it OPENS within 90 seconds of a losing CLOSE"     *)
(* (revenge_flag.go): only such trades are flagged, and a trade opened      *)
(* after a losing close that was stored before it is flagged when its event *)
(* has been processed, after any failures and redeliveries.                 *)
FlagExact == \A t \in Rows : /\ t \in flags => Rash(t, Rows)
                             /\ event[t] = "done" /\ Rash(t, UpTo(t)) => t \in flags

(* "Bumps the user's lifetime counter": no trade flagged as the rule above  *)
(* requires is missing from revenge_trades_count once its event has been    *)
(* processed, whichever statement failed on the way.  (A late loss may have *)
(* a trade flagged by one worker after another has settled its event; a     *)
(* crash in between leaves that one uncounted.)                             *)
RevengeCovers ==
    \A u \in Users :
        revenge[u] >= Cardinality({t \in Rows : /\ event[t] = "done" /\ User(t) = u
                                                /\ Rash(t, UpTo(t))})

(* Every recorded overtrading event is one: more than Limit trades of the   *)
(* user were opened in its window (overtrading.go).                         *)
IncidentsReal ==
    \A t \in Trades : incidents[t] > 0 => Cardinality(OpenedIn(t, At(t), Rows)) > Limit

(* The rows of overtrading_events that are of user u.                       *)
IncidentsOf(u) == UNION {{t} \X (1 .. incidents[t]) : t \in {x \in Trades : User(x) = u}}

(* The counter of user_metrics never runs ahead of the events recorded.     *)
CounterNotAhead == \A u \in Users : overtrading[u] <= Cardinality(IncidentsOf(u))

(* "If count > 10, record an overtrading_event" (overtrading.go): when too  *)
(* many trades were stored with a trade for the half hour up to the         *)
(* millisecond it was opened in, and its event has been processed, an       *)
(* incident covers it.                                                      *)
SpikesDetected ==
    \A t \in Rows :
        event[t] = "done" /\ Cardinality(OpenedIn(t, At(t), UpTo(t))) > Limit => Covered(t)
=============================================================================
