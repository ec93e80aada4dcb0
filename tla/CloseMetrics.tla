---------------------------- MODULE CloseMetrics ----------------------------
(***************************************************************************)
(* What the worker computes for trade.closed events: the calculators       *)
(* PlanAdherence, WinRateByEmotion and SessionTilt of internal/metrics,    *)
(* run one after the other by process (internal/worker/worker.go) while    *)
(* the API keeps storing closed trades and other workers run them too.     *)
(*                                                                         *)
(* One action is one SQL statement, except that the tilt statement is two: *)
(* PostgreSQL takes its snapshot before it gets to write the session's     *)
(* row.  Any statement may fail, without effect or with its reply lost.    *)
(* The stream is reduced to what StreamWorker shows of it: a live event is *)
(* delivered, to any worker and to several at once, at most MaxDeliveries  *)
(* times.                                                                  *)
(***************************************************************************)
EXTENDS Naturals, FiniteSets

CONSTANTS Workers,        \* worker processes
          Users,
          Sessions,
          Emotions,
          Trades,         \* the closed trades clients may post
          Data,           \* what each of them carries
          None,           \* no rating, no emotion, no job, no row
          MaxStored,      \* bound on the trades they do post
          Rolling,        \* LIMIT of the plan-adherence query
          MaxDeliveries,  \* deliveries of an event before it is dead-lettered
          MaxFaults       \* bound on broken result sets

(* Neither query orders rows of equal timestamps, so in this model closed   *)
(* trades of one session never have the same entry, nor those of one user   *)
(* the same exit.                                                           *)
ASSUME DataAssumption ==
    /\ \A t \in Trades : /\ Data[t].user \in Users
                         /\ Data[t].session \in Sessions
                         /\ Data[t].emotion \in Emotions \cup {None}
                         /\ Data[t].rated \in BOOLEAN
                         /\ Data[t].loss \in BOOLEAN
                         /\ Data[t].entry \in Nat /\ Data[t].exit \in Nat
    /\ \A t, x \in Trades : t # x =>
           /\ Data[t].session = Data[x].session => Data[t].entry # Data[x].entry
           /\ Data[t].user = Data[x].user => Data[t].exit # Data[x].exit
    /\ None \notin Trades /\ None \notin Emotions /\ Users \cap Sessions = {}

ASSUME BoundsAssumption == /\ Rolling \in Nat \ {0} /\ MaxStored \in Nat
                           /\ MaxDeliveries \in Nat /\ MaxFaults \in Nat

VARIABLES
    stored,      \* the rows of table trades
    event,       \* of each trade: "none", "live", "done" or "dead"
    deliveries,  \* how often it has been delivered
    job,         \* the trade whose event each worker handles
    at,          \* the statement a worker comes to next
    read,        \* the rows its last query returned
    failed,      \* whether a calculator of the job has returned an error
    faults,      \* result sets that broke off so far
    scores,      \* user_metrics: the trades each plan-adherence score averages
    tally,       \* user_emotion_metrics: losses (TRUE) and wins (FALSE)
    tilts,       \* session_metrics: total and loss-following trades
    behind,      \* history: workers whose rows are older than the last write, or
                 \* not all of those there were
    stale        \* history: users and sessions last written by such a worker, or
                 \* left unwritten by one that got no row

jobVars == <<job, at, read, failed>>
tables  == <<scores, tally, tilts>>
history == <<behind, stale>>
vars    == <<stored, event, deliveries, jobVars, faults, tables, history>>

Keys == Users \X Emotions \X BOOLEAN

Stages == {"idle", "plan", "score", "win", "snapshot", "tilt", "verdict"}

----------------------------------------------------------------------------
(* The queries, over the rows stored when they run.                         *)

Rated(u) == {t \in stored : Data[t].user = u /\ Data[t].rated}

(* The n most recently closed of them.                                      *)
Latest(u, n) == {t \in Rated(u) : Cardinality({x \in Rated(u) : Data[x].exit > Data[t].exit}) < n}

Closed(s) == {t \in stored : Data[t].session = s}

(* LAG(outcome) OVER (ORDER BY entry_at).                                   *)
AfterLoss(S) == {t \in S : \E p \in S : /\ Data[p].entry < Data[t].entry /\ Data[p].loss
                                        /\ ~\E x \in S : /\ Data[p].entry < Data[x].entry
                                                         /\ Data[x].entry < Data[t].entry}

Tilt(S) == [total |-> Cardinality(S), following |-> Cardinality(AfterLoss(S))]

KeyOf(t) == <<Data[t].user, Data[t].emotion, Data[t].loss>>

(* History.  w reads afresh, or gives up what it has read.                 *)
Forget(w) == behind' = behind \ {w} /\ UNCHANGED stale

(* w writes a row, and the other workers that have read for the same row    *)
(* and come to their write fall behind.                                     *)
Written(w, Row(_)) ==
    LET same(x) == at[x] = at[w] /\ Row(job[x]) = Row(job[w])
    IN /\ stale' = IF w \in behind THEN stale \cup {Row(job[w])} ELSE stale \ {Row(job[w])}
       /\ behind' = (behind \cup {x \in Workers : same(x)}) \ {w}

(* A worker has none of the rows and leaves the score of u as it is.        *)
Unwritten(u) == /\ stale' = stale \cup {u}
                   /\ behind' = behind \cup {x \in Workers : /\ at[x] = "score"
                                                             /\ Data[job[x]].user = u}

(* w goes on with some of the rows.                                         *)
Partial(w) == behind' = behind \cup {w} /\ UNCHANGED stale

UserOf(t)    == Data[t].user
SessionOf(t) == Data[t].session

----------------------------------------------------------------------------
(* The stream and the loop around process.                                  *)

(* A closed trade is inserted and its event published.                      *)
Store(t) ==
    /\ t \notin stored /\ Cardinality(stored) < MaxStored
    /\ stored' = stored \cup {t}
    /\ event' = [event EXCEPT ![t] = "live"]
    /\ UNCHANGED <<deliveries, jobVars, faults, tables, history>>

(* Operators whose name ends in Bug are not part of the model: each is the  *)
(* definition after it with one plausible mistake, which some property      *)
(* listed in PROJECT.json tells from the code.                              *)

TakeBug(w, t) ==  \* the delivery limit not looked at
    /\ job[w] = None
    /\ event[t] = "live"
    /\ deliveries' = [deliveries EXCEPT ![t] = @ + 1]
    /\ job' = [job EXCEPT ![w] = t]
    /\ at' = [at EXCEPT ![w] = "plan"]
    /\ UNCHANGED <<stored, event, read, failed, faults, tables, history>>

Take(w, t) ==
    /\ job[w] = None
    /\ event[t] = "live" /\ deliveries[t] < MaxDeliveries
    /\ deliveries' = [deliveries EXCEPT ![t] = @ + 1]
    /\ job' = [job EXCEPT ![w] = t]
    /\ at' = [at EXCEPT ![w] = "plan"]
    /\ UNCHANGED <<stored, event, read, failed, faults, tables, history>>

DeadLetter(t) ==
    /\ event[t] = "live" /\ deliveries[t] = MaxDeliveries
    /\ event' = [event EXCEPT ![t] = "dead"]
    /\ UNCHANGED <<stored, deliveries, jobVars, faults, tables, history>>

Release(w) == /\ job' = [job EXCEPT ![w] = None]
              /\ at' = [at EXCEPT ![w] = "idle"]
              /\ read' = [read EXCEPT ![w] = {}]
              /\ failed' = [failed EXCEPT ![w] = FALSE]
              /\ Forget(w)

(* process has returned; an acknowledgement may fail too.                   *)
Verdict(w) ==
    /\ at[w] = "verdict"
    /\ \/ UNCHANGED event
       \/ ~failed[w] /\ event[job[w]] = "live" /\ event' = [event EXCEPT ![job[w]] = "done"]
    /\ Release(w)
    /\ UNCHANGED <<stored, deliveries, faults, tables>>

Crash(w) ==
    /\ job[w] # None
    /\ Release(w)
    /\ UNCHANGED <<stored, event, deliveries, faults, tables>>

(* The calculator returns an error: the next one still runs.                *)
Fail(w, next) == /\ failed' = [failed EXCEPT ![w] = TRUE]
                 /\ at' = [at EXCEPT ![w] = next]

Pass(w, next) == /\ at' = [at EXCEPT ![w] = next]
                 /\ UNCHANGED failed

----------------------------------------------------------------------------
(* PlanAdherence.  No row: nothing to update.                               *)

Averaged(w, S) == /\ read' = [read EXCEPT ![w] = S]
                  /\ Pass(w, IF S = {} THEN "win" ELSE "score")

PlanQuery(w) ==
    /\ at[w] = "plan"
    /\ \/ Averaged(w, Latest(UserOf(job[w]), Rolling))
       \/ Fail(w, "win") /\ UNCHANGED read
    /\ Forget(w)
    /\ UNCHANGED <<stored, event, deliveries, job, faults, tables>>

(* The result set breaks off after n rows and loses others.  rows.Err is    *)
(* not consulted, so the loop takes what has arrived for all there is.      *)
PlanBroken(w) ==
    LET u == UserOf(job[w])
    IN /\ at[w] = "plan"
       /\ faults < MaxFaults /\ faults' = faults + 1
       /\ \E n \in 0 .. Rolling - 1 :
            /\ Latest(u, n) # Latest(u, Rolling)
            /\ Averaged(w, Latest(u, n))
            /\ IF Latest(u, n) = {} THEN Unwritten(u) ELSE Partial(w)
       /\ UNCHANGED <<stored, event, deliveries, job, tables>>

PlanWriteBug(w) ==  \* DO NOTHING on conflict
    /\ at[w] = "score"
    /\ scores' = [scores EXCEPT ![UserOf(job[w])] = IF @ = {} THEN read[w] ELSE @]
    /\ Written(w, UserOf)
    /\ Pass(w, "win")
    /\ UNCHANGED <<stored, event, deliveries, job, read, faults, tally, tilts>>

PlanWrite(w) ==
    /\ at[w] = "score"
    /\ \/ /\ scores' = [scores EXCEPT ![UserOf(job[w])] = read[w]]
          /\ Written(w, UserOf)
          /\ Pass(w, "win") \/ Fail(w, "win")
       \/ UNCHANGED scores /\ Forget(w) /\ Fail(w, "win")
    /\ UNCHANGED <<stored, event, deliveries, job, read, faults, tally, tilts>>

(* WinRateByEmotion: what it loads never changes, so the SELECT and the     *)
(* upsert that adds one are a single step.                                  *)
WinRateBug(w) ==  \* the error of the upsert ignored
    /\ at[w] = "win"
    /\ \/ Data[job[w]].emotion = None /\ UNCHANGED tally
       \/ Data[job[w]].emotion # None /\ tally' = [tally EXCEPT ![KeyOf(job[w])] = @ + 1]
       \/ UNCHANGED tally
    /\ Pass(w, "snapshot")
    /\ UNCHANGED <<stored, event, deliveries, job, read, faults, scores, tilts, history>>

WinRate(w) ==
    /\ at[w] = "win"
    /\ LET add == tally' = [tally EXCEPT ![KeyOf(job[w])] = @ + 1]
       IN \/ Data[job[w]].emotion = None /\ UNCHANGED tally /\ Pass(w, "snapshot")
          \/ Data[job[w]].emotion # None /\ add /\ (Pass(w, "snapshot") \/ Fail(w, "snapshot"))
          \/ UNCHANGED tally /\ Fail(w, "snapshot")
    /\ UNCHANGED <<stored, event, deliveries, job, read, faults, scores, tilts, history>>

(* SessionTilt.  A session of two users makes the upsert touch one row      *)
(* twice, which PostgreSQL refuses.                                         *)
TiltSnapshot(w) ==
    /\ at[w] = "snapshot"
    /\ read' = [read EXCEPT ![w] = Closed(SessionOf(job[w]))]
    /\ Pass(w, "tilt")
    /\ Forget(w)
    /\ UNCHANGED <<stored, event, deliveries, job, faults, tables>>

OneUser(S) == Cardinality({UserOf(t) : t \in S}) = 1

TiltWriteBug(w) ==  \* DO NOTHING on conflict
    /\ at[w] = "tilt"
    /\ OneUser(read[w])
    /\ tilts' = [tilts EXCEPT ![SessionOf(job[w])] = IF @ = None THEN Tilt(read[w]) ELSE @]
    /\ Written(w, SessionOf)
    /\ Pass(w, "verdict")
    /\ UNCHANGED <<stored, event, deliveries, job, read, faults, scores, tally>>

TiltMixedBug(w) ==  \* grouped by session alone
    /\ at[w] = "tilt"
    /\ tilts' = [tilts EXCEPT ![SessionOf(job[w])] = Tilt(read[w])]
    /\ Written(w, SessionOf)
    /\ Pass(w, "verdict")
    /\ UNCHANGED <<stored, event, deliveries, job, read, faults, scores, tally>>

TiltWrite(w) ==
    /\ at[w] = "tilt"
    /\ \/ /\ OneUser(read[w])
          /\ tilts' = [tilts EXCEPT ![SessionOf(job[w])] = Tilt(read[w])]
          /\ Written(w, SessionOf)
          /\ Pass(w, "verdict") \/ Fail(w, "verdict")
       \/ UNCHANGED tilts /\ Forget(w) /\ Fail(w, "verdict")
    /\ UNCHANGED <<stored, event, deliveries, job, read, faults, scores, tally>>

----------------------------------------------------------------------------

Init == /\ stored = {}
        /\ event = [t \in Trades |-> "none"]
        /\ deliveries = [t \in Trades |-> 0]
        /\ job = [w \in Workers |-> None]
        /\ at = [w \in Workers |-> "idle"]
        /\ read = [w \in Workers |-> {}]
        /\ failed = [w \in Workers |-> FALSE]
        /\ faults = 0
        /\ scores = [u \in Users |-> {}]
        /\ tally = [k \in Keys |-> 0]
        /\ tilts = [s \in Sessions |-> None]
        /\ behind = {}
        /\ stale = {}

Calculate(w) == \/ PlanQuery(w) \/ PlanBroken(w) \/ PlanWrite(w)
                \/ WinRate(w)
                \/ TiltSnapshot(w) \/ TiltWrite(w)

Next == \/ \E t \in Trades : Store(t) \/ DeadLetter(t)
        \/ \E w \in Workers : \/ \E t \in Trades : Take(w, t)
                              \/ Calculate(w)
                              \/ Verdict(w)
                              \/ Crash(w)

Spec == Init /\ [][Next]_vars

----------------------------------------------------------------------------
(* Type correctness; no event is delivered more often than the dead-letter  *)
(* rule allows.                                                             *)
TypeOK ==
    /\ stored \in SUBSET Trades
    /\ event \in [Trades -> {"none", "live", "done", "dead"}]
    /\ deliveries \in [Trades -> 0 .. MaxDeliveries]
    /\ job \in [Workers -> stored \cup {None}]
    /\ at \in [Workers -> Stages]
    /\ read \in [Workers -> SUBSET stored]
    /\ failed \in [Workers -> BOOLEAN]
    /\ faults \in 0 .. MaxFaults
    /\ scores \in [Users -> SUBSET stored]
    /\ tally \in [Keys -> Nat]
    /\ LET Count == 0 .. Cardinality(stored)
       IN tilts \in [Sessions -> {None} \cup [total : Count, following : Count]]
    /\ behind \in SUBSET Workers
    /\ stale \in SUBSET (Users \cup Sessions)

Settled(S) == \A t \in S : event[t] = "done"

(* "Reads the user's last 10 closed trades, averages, and stores back"      *)
(* (plan_adherence.go): once the event of every rated trade of a user has   *)
(* been processed, the stored score is that of the last Rolling ones, after *)
(* any failures, crashes and redeliveries, unless the last to handle it had *)
(* a result set that broke off, or rows read before another worker's write. *)
(* So a wrong score is put right by the next worker that has neither.       *)
PlanFresh ==
    \A u \in Users \ stale :
        Rated(u) # {} /\ Settled(Rated(u)) => scores[u] = Latest(u, Rolling)

(* "Running it on every trade.closed event keeps session_metrics current"   *)
(* (session_tilt.go): once the events of all closed trades of a session     *)
(* have been processed, its row is the tilt of those trades, unless the     *)
(* last write came from a snapshot older than another worker's write.       *)
TiltFresh ==
    \A s \in Sessions \ stale :
        Closed(s) # {} /\ Settled(Closed(s)) => tilts[s] = Tilt(Closed(s))

(* "Every trade in a given session shares the same user_id" (backfill.go):  *)
(* nothing checks it, but a session that two users share is never settled   *)
(* as if it were one user's, whichever worker saw whichever trades.         *)
MixedNeverSettled ==
    \A s \in Sessions : Closed(s) # {} /\ Settled(Closed(s)) => OneUser(Closed(s))

(* No processed trade is missing from its emotion's wins or losses, however *)
(* often its event failed on the way (UpsertEmotionStat).                   *)
WinsCover ==
    \A k \in Keys : tally[k] >= Cardinality({t \in stored : event[t] = "done" /\ KeyOf(t) = k})

(* "Running win/loss count grouped by emotionalState" (win_rate.go): it     *)
(* never counts more trades than there are.                                 *)
WinsExact ==
    \A k \in Keys : tally[k] <= Cardinality({t \in stored : KeyOf(t) = k})
=============================================================================
