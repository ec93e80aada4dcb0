------------------------------ MODULE Backfill ------------------------------
(***************************************************************************)
(* BackfillFromTrades (internal/metrics/backfill.go): all metric tables    *)
(* recomputed from table trades when the API boots and HasSnapshots finds  *)
(* no row in user_metrics.  Boot has its place in the boot sequence; this  *)
(* module has what each statement computes.                                *)
(*                                                                         *)
(* One action is one statement, the last one a transaction, preceded by    *)
(* the scan of all entry times done in Go.  Any of them may fail, without  *)
(* effect or with its reply lost: the process ends and is started again.   *)
(* The tables need not be empty at first: the seed file brings revenge     *)
(* flags of its own, and a worker that ran before may have left rows in    *)
(* every table but user_metrics.                                           *)
(***************************************************************************)
EXTENDS Naturals, FiniteSets, SequencesExt

CONSTANTS Users,
          Sessions,
          Emotions,
          Upset,      \* anxious and fearful
          Seeds,      \* the contents of table trades considered
          Leftovers,  \* the overtrading_events a worker may have left
          None,       \* no exit, outcome or emotion, no row
          Gap,        \* 90 seconds
          Window,     \* 30 minutes
          Limit,      \* 10 trades
          Rolling,    \* rn <= 10
          MaxRuns     \* bound on the starts of the process

(* LAG does not order rows of equal timestamps: which trade of a session a  *)
(* trade follows is a question only where their entries differ.             *)
ASSUME SeedsAssumption ==
    \A S \in Seeds : IsFiniteSet(S) /\ \A t \in S :
        /\ t.id \in Nat /\ t.user \in Users /\ t.session \in Sessions
        /\ t.emotion \in Emotions \cup {None}
        /\ t.entry \in Nat /\ t.exit \in Nat \cup {None}
        /\ t.outcome \in {"win", "loss", None}
        /\ t.rated \in BOOLEAN /\ t.flag \in BOOLEAN
        /\ \A x \in S \ {t} : /\ x.id # t.id
                              /\ x.session = t.session /\ x.entry = t.entry
                                   => x.exit = None \/ t.exit = None

ASSUME BoundsAssumption ==
    /\ Upset \subseteq Emotions
    /\ Gap \in Nat /\ Window \in Nat /\ Limit \in Nat \ {0} /\ Rolling \in Nat \ {0}
    /\ MaxRuns \in Nat

ASSUME NoneAssumption ==
    None \notin [revenge : Nat, score : SUBSET UNION Seeds, spikes : Nat]

VARIABLES
    trades,     \* the rows of table trades, fixed while the API boots
    flags,      \* those with revenge_flag set
    snapshots,  \* user_metrics: a row per user, or None
    tally,      \* user_emotion_metrics: wins and losses, or None
    tilts,      \* session_metrics: total and loss-following trades, or None
    incidents,  \* overtrading_events
    at,         \* the statement the process comes to next
    found,      \* the events the scan has found
    runs        \* starts of the process so far

tables == <<flags, snapshots, tally, tilts, incidents>>
vars   == <<trades, tables, at, found, runs>>

Keys == Users \X Emotions

Statements == {"reset", "flag", "revenge", "plan", "win", "tilt", "scan", "commit"}

Closed     == {t \in trades : t.exit # None}
TradesOf(u) == {t \in trades : t.user = u}

(* The process goes on with the next statement, or dies before it does.     *)
Then(next) == at' \in {next, "down"}

----------------------------------------------------------------------------
(* The gate, and a failure: a statement without effect, or a crash.         *)

HasSnapshots == \E u \in Users : snapshots[u] # None

Start ==
    /\ at = "down"
    /\ runs < MaxRuns
    /\ runs' = runs + 1
    /\ at' = IF HasSnapshots THEN "skipped" ELSE "reset"
    /\ UNCHANGED <<trades, tables, found>>

Fail ==
    /\ at \in Statements
    /\ at' = "down"
    /\ UNCHANGED <<trades, tables, found, runs>>

----------------------------------------------------------------------------
(* backfillRevengeFlag: three statements.                                   *)

(* Operators whose name ends in Bug are not part of the model: each is the  *)
(* definition after it with one plausible mistake, which some property      *)
(* listed in PROJECT.json tells from the code.                              *)

ResetFlagsBug ==  \* the flags of the seed file are kept
    /\ at = "reset"
    /\ Then("flag")
    /\ UNCHANGED <<trades, tables, found, runs>>

ResetFlags ==
    /\ at = "reset"
    /\ flags' = {}
    /\ Then("flag")
    /\ UNCHANGED <<trades, snapshots, tally, tilts, incidents, found, runs>>

(* The exits of the other losing trades the user had closed by then.        *)
LossExits(t) == {x.exit : x \in {y \in Closed : /\ y.user = t.user /\ y.outcome = "loss"
                                                /\ y.id # t.id /\ y.exit <= t.entry}}

SetFlags ==
    /\ at = "flag"
    /\ flags' = flags \cup {t \in trades : /\ LossExits(t) # {}
                                           /\ t.entry <= Max(LossExits(t)) + Gap
                                           /\ t.emotion \in Upset}
    /\ Then("revenge")
    /\ UNCHANGED <<trades, snapshots, tally, tilts, incidents, found, runs>>

(* INSERT ... ON CONFLICT DO UPDATE of a column of user_metrics.            *)
Row(u) == IF snapshots[u] = None THEN [revenge |-> 0, score |-> {}, spikes |-> 0]
                                 ELSE snapshots[u]

CountRevenge ==
    /\ at = "revenge"
    /\ snapshots' = [u \in Users |->
           IF TradesOf(u) = {} THEN snapshots[u]
           ELSE [Row(u) EXCEPT !.revenge = Cardinality(TradesOf(u) \cap flags)]]
    /\ Then("plan")
    /\ UNCHANGED <<trades, flags, tally, tilts, incidents, found, runs>>

----------------------------------------------------------------------------
(* backfillPlanAdherence.  ROW_NUMBER() OVER (ORDER BY exit_at DESC).       *)

Rated(u) == {t \in Closed : t.user = u /\ t.rated}

(* Rows of equal exits come in any order.                                   *)
Numberings(u) == {q \in SetToSeqs(Rated(u)) :
                    \A m, n \in DOMAIN q : m < n => q[m].exit >= q[n].exit}

ScoresBug(u) ==  \* ordered by exit_at, oldest first
    {{q[rn] : rn \in {n \in DOMAIN q : n > Len(q) - Rolling}} : q \in Numberings(u)}

(* The trades with rn <= 10.                                                *)
Scores(u) == {{q[rn] : rn \in {n \in DOMAIN q : n <= Rolling}} : q \in Numberings(u)}

PlanAdherence ==
    /\ at = "plan"
    /\ \E last \in [Users -> UNION {Scores(u) : u \in Users}] :
         /\ \A u \in Users : last[u] \in Scores(u)
         /\ snapshots' = [u \in Users |-> IF Rated(u) = {} THEN snapshots[u]
                                          ELSE [Row(u) EXCEPT !.score = last[u]]]
    /\ Then("win")
    /\ UNCHANGED <<trades, flags, tally, tilts, incidents, found, runs>>

(* backfillWinRateByEmotion: absolute counts, not increments.               *)
Felt(k) == {t \in Closed : <<t.user, t.emotion>> = k /\ t.outcome # None}

Ended(S, outcome) == Cardinality({t \in S : t.outcome = outcome})

WinRate ==
    /\ at = "win"
    /\ tally' = [k \in Keys |->
           IF Felt(k) = {} THEN tally[k]
           ELSE [wins |-> Ended(Felt(k), "win"), losses |-> Ended(Felt(k), "loss")]]
    /\ Then("tilt")
    /\ UNCHANGED <<trades, flags, snapshots, tilts, incidents, found, runs>>

(* backfillSessionTilt.  LAG(outcome) OVER (ORDER BY entry_at).  A session  *)
(* of two users would update one row twice, which PostgreSQL refuses.       *)
ClosedIn(s) == {t \in Closed : t.session = s}

Lagged(s) == CHOOSE q \in SetToSeqs(ClosedIn(s)) :
                \A m, n \in DOMAIN q : m < n => q[m].entry < q[n].entry

OneUser(s) == \A n \in DOMAIN Lagged(s) : Lagged(s)[n].user = Lagged(s)[1].user

SessionTilt ==
    /\ at = "tilt"
    /\ \A s \in Sessions : OneUser(s)
    /\ tilts' = [s \in Sessions |->
           IF Lagged(s) = <<>> THEN tilts[s]
           ELSE [total     |-> Len(Lagged(s)),
                 following |-> Cardinality({n \in DOMAIN Lagged(s) :
                                              n > 1 /\ Lagged(s)[n - 1].outcome = "loss"})]]
    /\ Then("scan")
    /\ UNCHANGED <<trades, flags, snapshots, tally, incidents, found, runs>>

----------------------------------------------------------------------------
(* backfillOvertrading: the walk over a user's entry times, oldest first.   *)

(* Of two rows of one time either may come first: only the times go on.     *)
Before(x, t) == x.entry < t.entry \/ (x.entry = t.entry /\ x.id < t.id)

Ordered(u) == CHOOSE q \in SetToSeqs(TradesOf(u)) :
                 \A m, n \in DOMAIN q : m < n => Before(q[m], q[n])

Entries(u) == LET rows == Ordered(u) IN [n \in DOMAIN rows |-> rows[n].entry]

(* window = window[1:] while its head lies before the cutoff.               *)
Slide(window, e) ==
    LET gone == {n \in DOMAIN window : \A m \in 1 .. n : window[m] + Window < e}
    IN SubSeq(window, Cardinality(gone) + 1, Len(window))

VisitBug(walk, e) ==  \* inSpike is never reset
    LET window == Append(Slide(walk.window, e), e)
        over   == Len(window) > Limit
    IN [window  |-> window,
        inSpike |-> walk.inSpike \/ over,
        events  |-> IF over /\ ~walk.inSpike
                      THEN Append(walk.events, [from |-> window[1], to |-> e, count |-> Len(window)])
                      ELSE walk.events]

Visit(walk, e) ==
    LET window == Append(Slide(walk.window, e), e)
        over   == Len(window) > Limit
    IN [window  |-> window,
        inSpike |-> over,
        events  |-> IF over /\ ~walk.inSpike
                      THEN Append(walk.events, [from |-> window[1], to |-> e, count |-> Len(window)])
                      ELSE walk.events]

Fresh == [window |-> <<>>, inSpike |-> FALSE, events |-> <<>>]

(* The local variables of the loop after each turn.                         *)
Walk(e) == LET walk[n \in 0 .. Len(e)] == IF n = 0 THEN Fresh ELSE Visit(walk[n - 1], e[n])
           IN walk

Spikes(u) == LET e == Entries(u) IN Walk(e)[Len(e)].events

(* rows.Err is consulted: a result set that breaks off is a failure.        *)
Scan ==
    /\ at = "scan"
    /\ found' = [u \in Users |-> Spikes(u)]
    /\ at' = "commit"
    /\ UNCHANGED <<trades, tables, runs>>

Event(u, e) == [user |-> u, from |-> e.from, to |-> e.to, count |-> e.count]

CommitBug ==  \* each statement on its own, and the process dies among them
    /\ at = "commit"
    /\ incidents' = UNION {{Event(u, e) : e \in ToSet(found[u])} : u \in Users}
    /\ \/ UNCHANGED snapshots
       \/ snapshots' = [u \in Users |-> IF snapshots[u] = None /\ found[u] = <<>> THEN None
                                        ELSE [Row(u) EXCEPT !.spikes = Len(found[u])]]
    /\ Then("done")
    /\ UNCHANGED <<trades, flags, tally, tilts, found, runs>>

(* The transaction: the log is replaced, every counter set to 0, and those  *)
(* of the users with events to their number.                                *)
Commit ==
    /\ at = "commit"
    /\ incidents' = UNION {{Event(u, e) : e \in ToSet(found[u])} : u \in Users}
    /\ snapshots' = [u \in Users |-> IF snapshots[u] = None /\ found[u] = <<>> THEN None
                                     ELSE [Row(u) EXCEPT !.spikes = Len(found[u])]]
    /\ Then("done")
    /\ UNCHANGED <<trades, flags, tally, tilts, found, runs>>

----------------------------------------------------------------------------

(* A worker that handled an event twice has counted its trade twice.        *)
Init ==
    /\ trades \in Seeds
    /\ flags = {t \in trades : t.flag}
    /\ snapshots = [u \in Users |-> None]
    /\ tally \in {[k \in Keys |-> None],
                  [k \in Keys |-> IF Felt(k) = {} THEN None
                                  ELSE [wins   |-> 2 * Ended(Felt(k), "win"),
                                        losses |-> 2 * Ended(Felt(k), "loss")]]}
    /\ tilts = [s \in Sessions |-> None]
    /\ incidents \in Leftovers
    /\ at = "down"
    /\ found = [u \in Users |-> <<>>]
    /\ runs = 0

Next == \/ Start \/ Fail
        \/ ResetFlags \/ SetFlags \/ CountRevenge
        \/ PlanAdherence \/ WinRate \/ SessionTilt
        \/ Scan \/ Commit

Spec == Init /\ [][Next]_vars

----------------------------------------------------------------------------
(* "A trade is revenge if it OPENS within 90s of a losing close for the     *)
(* same user AND its emotionalState is anxious or fearful.  We recompute    *)
(* from scratch": from the time user_metrics has a row, which shuts the     *)
(* gate, flags and counts are those of the trades, whatever the seed file   *)
(* says and however often the process died before.                          *)
RevengeExact ==
    LET rash == {t \in trades : /\ t.emotion \in Upset
                                /\ \E x \in Closed \ {t} : /\ x.user = t.user /\ x.outcome = "loss"
                                                           /\ x.exit <= t.entry
                                                           /\ t.entry <= x.exit + Gap}
    IN HasSnapshots =>
         /\ flags = rash
         /\ \A u \in Users : TradesOf(u) # {} =>
                snapshots[u].revenge = Cardinality({t \in rash : t.user = u})

(* What the live calculators keep current for closed trades, the backfill   *)
(* computes over all of them at once: when it is complete, each user's      *)
(* score averages the Rolling last exits, wins and losses count every       *)
(* closed trade once, also those a worker has counted, and a session's tilt *)
(* counts the trades whose predecessor was a loss.                          *)
SnapshotsExact ==
    at = "done" =>
        /\ \A u \in Users : Rated(u) # {} =>
               LET last == snapshots[u].score
               IN /\ last \subseteq Rated(u)
                  /\ Cardinality(last) = Min({Rolling, Cardinality(Rated(u))})
                  /\ \A t \in last, x \in Rated(u) \ last : x.exit <= t.exit
        /\ \A k \in Keys : Felt(k) # {} =>
               /\ tally[k].wins + tally[k].losses = Cardinality(Felt(k))
               /\ tally[k].losses = Ended(Felt(k), "loss")
        /\ \A s \in Sessions :
               LET S == ClosedIn(s)
                   last(t) == {p \in S : /\ p.entry < t.entry
                                         /\ \A x \in S : x.entry < t.entry => x.entry <= p.entry}
               IN S # {} => tilts[s].following
                              = Cardinality({t \in S : \E p \in last(t) : p.outcome = "loss"})

(* The reference for the walk: of a user's trades in the order of entry, t  *)
(* is one too many if more than Limit of those up to it lie in the half     *)
(* hour that ends with it, and a spike begins where the one before is not.  *)
InWindow(t)  == {x \in TradesOf(t.user) : (x = t \/ Before(x, t)) /\ t.entry <= x.entry + Window}
OneTooMany(t) == Cardinality(InWindow(t)) > Limit
Begins(t) == OneTooMany(t) /\ \A p \in TradesOf(t.user) :
                 Before(p, t) /\ OneTooMany(p) =>
                     \E x \in TradesOf(t.user) : Before(p, x) /\ Before(x, t) /\ ~OneTooMany(x)

(* "Emit one event per spike - the moment count crosses from <=10 to >10",  *)
(* with its true window and count; the log and the counters of user_metrics *)
(* change together or not at all, and nothing a worker left survives.       *)
SpikesExact ==
    at = "done" \/ incidents \notin Leftovers =>
        /\ incidents = {[user |-> t.user, from |-> Min({x.entry : x \in InWindow(t)}),
                         to |-> t.entry, count |-> Cardinality(InWindow(t))] :
                            t \in {x \in trades : Begins(x)}}
        /\ \A u \in Users : snapshots[u] # None =>
               snapshots[u].spikes = Cardinality({e \in incidents : e.user = u})
=============================================================================
