-------------------------- MODULE OpenMetricsProofs -------------------------
(***************************************************************************)
(* Proofs about the metrics of opened trades, for any number of workers,   *)
(* trades, users and deliveries and any limits.                            *)
(***************************************************************************)
EXTENDS OpenMetrics, FiniteSetTheorems, SequenceTheorems, WellFoundedInduction, TLAPS

(* The stages after each write.                                             *)
AfterFlag   == {"bump", "count", "dedupe", "record", "tally", "verdict"}
AfterBump   == {"count", "dedupe", "record", "tally", "verdict"}
AfterRecord == {"tally", "verdict"}

(* The statements before the stages A are behind t: its event has been      *)
(* processed, or a worker has got that far without an error.                *)
Passed(A, t) == \/ event[t] = "done"
                \/ \E w \in Workers : job[w] = t /\ ~failed[w] /\ at[w] \in A

JobInv == /\ IsFiniteSet(Rows)
          /\ \A w \in Workers : job[w] = None <=> at[w] = "idle"
          /\ \A t \in Trades : event[t] # "none" => t \in Rows

----------------------------------------------------------------------------
(* RevengeFlag.                                                             *)

(* A trade that must be flagged, going by what was stored before it.        *)
Due(t) == Rash(t, UpTo(t))

FlagInv == /\ \A t \in flags : Rash(t, Rows)
           /\ \A w \in Workers : at[w] \in {"flag", "bump"} => Rash(job[w], Rows)
           /\ \A t \in Rows : Passed(AfterFlag, t) /\ Due(t) => t \in flags

RevengeDue(u) == {t \in Rows : User(t) = u /\ Due(t) /\ Passed(AfterBump, t)}

RevengeInv == \A u \in Users : Cardinality(RevengeDue(u)) <= revenge[u]

----------------------------------------------------------------------------
(* Overtrading.                                                             *)

Excess(t, S) == Cardinality(OpenedIn(t, At(t), S)) > Limit

IncidentInv == /\ \A t \in Trades : incidents[t] > 0 => Excess(t, Rows)
               /\ \A w \in Workers : at[w] \in {"dedupe", "record"} => Excess(job[w], Rows)

SpikeInv == \A t \in Rows : Passed(AfterRecord, t) /\ Excess(t, UpTo(t)) => Covered(t)

(* Workers that have recorded an incident of u and not counted it yet.      *)
Tallying(u) == {w \in Workers : at[w] = "tally" /\ User(job[w]) = u}

CounterInv == \A u \in Users :
                 /\ IsFiniteSet(Tallying(u)) /\ IsFiniteSet(IncidentsOf(u))
                 /\ overtrading[u] + Cardinality(Tallying(u)) <= Cardinality(IncidentsOf(u))

Inv == TypeOK /\ JobInv /\ FlagInv /\ RevengeInv /\ IncidentInv /\ SpikeInv /\ CounterInv

----------------------------------------------------------------------------
(* Rows and what is read of them.                                           *)

LEMMA RowsAppend ==
    ASSUME NEW s \in Seq(Trades), NEW t \in Trades
    PROVE  Append(s, t) \in Seq(Trades) /\ ToSet(Append(s, t)) = ToSet(s) \cup {t}
<1>1. /\ Append(s, t) \in Seq(Trades) /\ Len(Append(s, t)) = Len(s) + 1
      /\ \A i \in 1 .. Len(s) : Append(s, t)[i] = s[i]
      /\ Append(s, t)[Len(s) + 1] = t
  BY AppendProperties
<1>2. Len(s) \in Nat /\ DOMAIN s = 1 .. Len(s) /\ DOMAIN Append(s, t) = 1 .. Len(s) + 1
  BY <1>1, LenProperties
<1>3. 1 .. Len(s) + 1 = (1 .. Len(s)) \cup {Len(s) + 1}
  BY <1>2
<1> QED BY <1>1, <1>2, <1>3 DEF ToSet

LEMMA RowsType == TypeOK => Rows \subseteq Trades /\ \A t \in Trades : UpTo(t) \subseteq Rows
<1> SUFFICES ASSUME TypeOK PROVE Rows \subseteq Trades /\ \A t \in Trades : UpTo(t) \subseteq Rows
  OBVIOUS
<1>1. \A i \in DOMAIN stored : stored[i] \in Trades
  BY DEF TypeOK
<1> QED BY <1>1 DEF Rows, ToSet, UpTo

(* What was stored before a trade does not change when another is stored.   *)
LEMMA UpToAppend ==
    ASSUME TypeOK, NEW x \in Trades, x \notin Rows, stored' = Append(stored, x),
           NEW t \in Rows
    PROVE  UpTo(t)' = UpTo(t)
<1>1. /\ Len(stored') = Len(stored) + 1 /\ stored' \in Seq(Trades)
      /\ \A i \in 1 .. Len(stored) : stored'[i] = stored[i]
      /\ stored'[Len(stored) + 1] = x
  BY AppendProperties DEF TypeOK
<1>2. /\ Len(stored) \in Nat /\ DOMAIN stored = 1 .. Len(stored)
      /\ DOMAIN stored' = 1 .. Len(stored) + 1
  BY <1>1, LenProperties DEF TypeOK
<1>3. \A i \in 1 .. Len(stored) : stored[i] # x
  BY <1>2 DEF Rows, ToSet
<1>4. t # x
  OBVIOUS
<1>5. ASSUME NEW y, NEW i \in DOMAIN stored', NEW j \in DOMAIN stored',
             i <= j, stored'[i] = y, stored'[j] = t
      PROVE  i \in DOMAIN stored /\ j \in DOMAIN stored /\ stored[i] = y /\ stored[j] = t
  BY <1>1, <1>2, <1>4, <1>5
<1>6. ASSUME NEW y, NEW i \in DOMAIN stored, NEW j \in DOMAIN stored,
             i <= j, stored[i] = y, stored[j] = t
      PROVE  i \in DOMAIN stored' /\ j \in DOMAIN stored' /\ stored'[i] = y /\ stored'[j] = t
  BY <1>1, <1>2, <1>6
<1>7. Rows' = Rows \cup {x}
  BY RowsAppend DEF Rows, TypeOK
<1>8. ASSUME NEW y \in UpTo(t)' PROVE y \in UpTo(t)
  <2>1. PICK i \in DOMAIN stored', j \in DOMAIN stored' :
           i <= j /\ stored'[i] = y /\ stored'[j] = t
    BY DEF UpTo
  <2>2. i \in DOMAIN stored /\ j \in DOMAIN stored /\ stored[i] = y /\ stored[j] = t
    BY <1>5, <2>1
  <2>3. y \in Rows
    BY <2>2 DEF Rows, ToSet
  <2> QED BY <2>1, <2>2, <2>3 DEF UpTo
<1>9. ASSUME NEW y \in UpTo(t) PROVE y \in UpTo(t)'
  <2>1. PICK i \in DOMAIN stored, j \in DOMAIN stored :
           i <= j /\ stored[i] = y /\ stored[j] = t
    BY DEF UpTo
  <2>2. i \in DOMAIN stored' /\ j \in DOMAIN stored' /\ stored'[i] = y /\ stored'[j] = t
    BY <1>6, <2>1
  <2>3. y \in Rows'
    BY <1>7 DEF UpTo
  <2> QED BY <2>1, <2>2, <2>3 DEF UpTo
<1> QED BY <1>8, <1>9

LEMMA RashMore ==
    ASSUME NEW t, NEW S, NEW T, S \subseteq T, Rash(t, S) PROVE Rash(t, T)
BY DEF Rash

LEMMA ExcessMore ==
    ASSUME NEW t, NEW T, IsFiniteSet(T), NEW S, S \subseteq T, Excess(t, S) PROVE Excess(t, T)
<1> DEFINE few  == OpenedIn(t, At(t), S)
           many == OpenedIn(t, At(t), T)
<1>1. few \subseteq many /\ many \subseteq T
  BY DEF OpenedIn
<1> HIDE DEF few, many
<1>2. IsFiniteSet(many)
  BY <1>1, FS_Subset
<1>3. IsFiniteSet(few) /\ Cardinality(few) <= Cardinality(many)
  BY <1>1, <1>2, FS_Subset
<1>4. Cardinality(few) \in Nat /\ Cardinality(many) \in Nat /\ Cardinality(few) > Limit
  BY <1>2, <1>3, FS_CardinalityType DEF Excess, few
<1>5. Cardinality(many) > Limit
  BY <1>3, <1>4, BoundsAssumption
<1> QED BY <1>5 DEF Excess, many

(* The last loss before a trade, of finitely many, exists.                  *)
LEMMA LastLossExists ==
    ASSUME NEW t \in Trades, NEW S \in SUBSET Trades, IsFiniteSet(S), LossesBefore(t, S) # {}
    PROVE  LastLoss(t, S) # {}
<1> DEFINE R == LossesBefore(t, S)
           Above(z) == {x \in R : Data[x].exit > Data[z].exit}
           Aboves == {Above(z) : z \in R}
<1>1. R \subseteq S /\ \A x \in R : Data[x].exit \in Nat
  BY DataAssumption DEF LossesBefore, Open
<1>2. IsFiniteSet(R) /\ R # {}
  BY <1>1, FS_Subset
<1> HIDE DEF R
<1>3. Aboves \subseteq FiniteSubsetsOf(R) /\ Aboves # {}
  <2>1. ASSUME NEW z \in R PROVE Above(z) \in FiniteSubsetsOf(R)
    <3>1. Above(z) \in SUBSET R
      OBVIOUS
    <3> HIDE DEF Above
    <3> QED BY <1>2, <3>1, FS_Subset DEF FiniteSubsetsOf
  <2> HIDE DEF Above
  <2> QED BY <1>2, <2>1
<1>4. IsWellFoundedOn(StrictSubsetOrdering(R), FiniteSubsetsOf(R))
  BY FS_StrictSubsetOrderingWellFounded
<1>5. PICK M \in Aboves : \A N \in Aboves : ~(<<N, M>> \in StrictSubsetOrdering(R))
  <2> HIDE DEF Aboves
  <2> QED BY <1>3, <1>4, WFMin
<1>6. PICK z \in R : M = Above(z)
  OBVIOUS
<1>7. M = {}
  <2> SUFFICES ASSUME NEW x \in M PROVE FALSE
    OBVIOUS
  <2>1. x \in R /\ Data[x].exit > Data[z].exit
    BY <1>6
  <2>2. Above(x) \subseteq M
    BY <1>1, <1>6, <2>1
  <2>3. x \notin Above(x)
    BY <1>1, <2>1
  <2>4. Above(x) \in Aboves /\ Above(x) # M
    BY <2>1, <2>3
  <2>5. <<Above(x), M>> \in StrictSubsetOrdering(R)
    <3>1. Above(x) \in SUBSET R /\ M \in SUBSET R
      BY <1>6
    <3> HIDE DEF Above
    <3> QED BY <2>2, <2>4, <3>1 DEF StrictSubsetOrdering
  <2> HIDE DEF Above, Aboves
  <2> QED BY <1>5, <2>4, <2>5
<1>8. \A y \in R : Data[y].exit <= Data[z].exit
  BY <1>1, <1>6, <1>7
<1> QED BY <1>6, <1>8 DEF LastLoss, R

(* The query for the last loss finds what any loss in reach would show.     *)
LEMMA RevengeRash ==
    ASSUME NEW t \in Trades, NEW S \in SUBSET Trades, IsFiniteSet(S)
    PROVE  IsRevenge(t, S) <=> Rash(t, S)
<1>1. Data[t].entry \in Nat /\ Gap \in Nat
  BY DataAssumption, BoundsAssumption
<1>2. \A x \in S : ~Open(x) => Data[x].exit \in Nat
  BY DataAssumption DEF Open
<1>3. ASSUME IsRevenge(t, S) PROVE Rash(t, S)
  <2>1. PICK x \in LastLoss(t, S) : Data[t].entry <= Data[x].exit + Gap
    BY <1>3 DEF IsRevenge
  <2>2. x \in S /\ User(x) = User(t) /\ ~Open(x) /\ Data[x].loss /\ Data[x].exit <= Data[t].entry
    BY DEF LastLoss, LossesBefore
  <2>3. Data[t].entry - Data[x].exit \in 0 .. Gap
    BY <1>1, <1>2, <2>1, <2>2
  <2> QED BY <1>3, <2>2, <2>3 DEF IsRevenge, Rash
<1>4. ASSUME Rash(t, S) PROVE IsRevenge(t, S)
  <2>1. PICK x \in S : /\ User(x) = User(t) /\ ~Open(x) /\ Data[x].loss
                       /\ Data[t].entry - Data[x].exit \in 0 .. Gap
    BY <1>4 DEF Rash
  <2>2. Data[x].exit \in Nat /\ Data[x].exit <= Data[t].entry /\ Data[t].entry <= Data[x].exit + Gap
    BY <1>1, <1>2, <2>1
  <2>3. x \in LossesBefore(t, S)
    BY <2>1, <2>2 DEF LossesBefore
  <2>4. PICK y \in LastLoss(t, S) : TRUE
    BY <2>3, LastLossExists
  <2>5. Data[y].exit \in Nat /\ Data[x].exit <= Data[y].exit
    BY <1>2, <2>3 DEF LastLoss, LossesBefore
  <2>6. Data[t].entry <= Data[y].exit + Gap
    BY <1>1, <2>2, <2>5
  <2> QED BY <1>4, <2>6 DEF IsRevenge, Rash
<1> QED BY <1>3, <1>4

----------------------------------------------------------------------------
(* Types, jobs and events.                                                  *)

(* A step of worker w leaves the others where they are.                     *)
Others(w) == \A x \in Workers \ {w} : job'[x] = job[x] /\ at'[x] = at[x] /\ failed'[x] = failed[x]

LEMMA InitType == Init => TypeOK /\ JobInv
<1> SUFFICES ASSUME Init PROVE TypeOK /\ JobInv
  OBVIOUS
<1>1. Rows = {} /\ stored \in Seq(Trades)
  BY DEF Init, Rows, ToSet
<1>2. JobInv
  BY <1>1, FS_EmptySet DEF Init, JobInv
<1>3. job \in [Workers -> Rows \cup {None}] /\ flags \in SUBSET Rows
  BY DEF Init
<1> QED BY <1>1, <1>2, <1>3, BoundsAssumption DEF Init, TypeOK, Stages

LEMMA StoreType ==
    ASSUME TypeOK, JobInv, NEW t \in Trades, Store(t)
    PROVE  TypeOK' /\ JobInv' /\ Rows' = Rows \cup {t}
<1>1. /\ stored' = Append(stored, t) /\ UNCHANGED <<deliveries, jobVars, tables>>
      /\ event' = event \/ event' = [event EXCEPT ![t] = "live"]
  BY DEF Store
<1>2. stored' \in Seq(Trades) /\ Rows' = Rows \cup {t}
  BY <1>1, RowsAppend DEF Rows, TypeOK
<1>3. IsFiniteSet(Rows')
  BY <1>2, FS_AddElement DEF JobInv
<1>4. /\ event' \in [Trades -> {"none", "live", "done", "dead"}]
      /\ \A x \in Trades : event'[x] # "none" => x \in Rows'
  BY <1>1, <1>2 DEF TypeOK, JobInv
<1>5. JobInv'
  BY <1>1, <1>3, <1>4 DEF JobInv, jobVars
<1>6. job' \in [Workers -> Rows' \cup {None}] /\ flags' \in SUBSET Rows'
  BY <1>1, <1>2 DEF TypeOK, jobVars, tables
<1> QED BY <1>1, <1>2, <1>4, <1>5, <1>6 DEF TypeOK, jobVars, tables

LEMMA SameRows == ASSUME UNCHANGED stored PROVE Rows' = Rows /\ \A t : UpTo(t)' = UpTo(t)
BY DEF Rows, UpTo

LEMMA TakeType ==
    ASSUME TypeOK, JobInv, NEW w \in Workers, NEW t \in Trades, Take(w, t)
    PROVE  TypeOK' /\ JobInv' /\ Others(w)
<1>1. /\ deliveries' \in [Trades -> 0 .. MaxDeliveries]
      /\ t \in Rows /\ t # None
  BY BoundsAssumption, DataAssumption DEF Take, TypeOK, JobInv
<1>2. Rows' = Rows
  BY SameRows DEF Take
<1>3. Others(w)
  BY DEF Take, TypeOK, Others
<1> QED BY <1>1, <1>2, <1>3 DEF Take, TypeOK, JobInv, Stages, tables

LEMMA DeadLetterType ==
    ASSUME TypeOK, JobInv, NEW t \in Trades, DeadLetter(t) PROVE TypeOK' /\ JobInv'
<1>1. Rows' = Rows
  BY SameRows DEF DeadLetter
<1> QED BY <1>1 DEF DeadLetter, TypeOK, JobInv, jobVars, tables

LEMMA ReleaseType ==
    ASSUME TypeOK, JobInv, NEW w \in Workers, Release(w),
           \/ UNCHANGED event
           \/ job[w] # None /\ event' = [event EXCEPT ![job[w]] = "done"],
           UNCHANGED <<stored, deliveries, tables>>
    PROVE  TypeOK' /\ JobInv' /\ Others(w)
<1>1. Rows' = Rows /\ Rows \subseteq Trades
  BY SameRows, RowsType
<1>2. /\ job' \in [Workers -> Rows \cup {None}] /\ at' \in [Workers -> Stages]
      /\ failed' \in [Workers -> BOOLEAN]
  BY DEF Release, TypeOK, Stages
<1>3. /\ event' \in [Trades -> {"none", "live", "done", "dead"}]
      /\ \A t \in Trades : event'[t] # "none" => t \in Rows
  BY <1>1 DEF TypeOK, JobInv
<1>4. JobInv'
  BY <1>1, <1>3 DEF JobInv, Release, TypeOK
<1>5. Others(w)
  BY DEF Others, Release, TypeOK
<1> QED BY <1>1, <1>2, <1>3, <1>4, <1>5 DEF TypeOK, tables

(* A step to another stage of the job.                                      *)
LEMMA StageType ==
    ASSUME TypeOK, JobInv, NEW w \in Workers, at[w] # "idle",
           NEW next \in Stages \ {"idle"}, Pass(w, next) \/ Fail(w, next),
           UNCHANGED <<stored, event, job>>
    PROVE  /\ at' \in [Workers -> Stages] /\ failed' \in [Workers -> BOOLEAN]
           /\ at'[w] = next /\ (failed[w] => failed'[w]) /\ (Fail(w, next) => failed'[w])
           /\ Others(w) /\ job'[w] = job[w]
           /\ job[w] \in Rows /\ job[w] \in Trades /\ User(job[w]) \in Users /\ JobInv'
<1>1. /\ at' = [at EXCEPT ![w] = next]
      /\ failed' = failed \/ failed' = [failed EXCEPT ![w] = TRUE]
  BY DEF Pass, Fail
<1>2. /\ at' \in [Workers -> Stages] /\ failed' \in [Workers -> BOOLEAN]
      /\ at'[w] = next /\ (failed[w] => failed'[w])
      /\ Others(w) /\ job'[w] = job[w]
  BY <1>1 DEF TypeOK, Others
<1>3. Fail(w, next) => failed'[w]
  BY DEF Fail, TypeOK
<1>4. Rows' = Rows /\ Rows \subseteq Trades
  BY SameRows, RowsType
<1>5. job[w] \in Rows /\ job[w] \in Trades /\ User(job[w]) \in Users
  BY <1>4, DataAssumption DEF TypeOK, JobInv, User
<1>6. JobInv'
  BY <1>2, <1>4 DEF JobInv, Others
<1> QED BY <1>2, <1>3, <1>5, <1>6

----------------------------------------------------------------------------
(* What a worker's step does to each part of the invariant.                 *)

(* Only the job of the worker that takes a step can come to have passed.    *)
LEMMA PassedStep ==
    ASSUME NEW A, NEW w \in Workers, Others(w),
           \/ job'[w] = job[w] /\ (failed[w] => failed'[w])
           \/ at'[w] \notin A,
           NEW t, event'[t] = "done" => Passed(A, t), Passed(A, t)'
    PROVE  \/ Passed(A, t)
           \/ t = job[w] /\ ~failed'[w] /\ at'[w] \in A /\ at[w] \notin A
<1>1. CASE event'[t] = "done"
  BY <1>1
<1>2. CASE event'[t] # "done"
  <2>1. PICK x \in Workers : job'[x] = t /\ ~failed'[x] /\ at'[x] \in A
    BY <1>2 DEF Passed
  <2>2. CASE x # w
    BY <2>1, <2>2 DEF Passed, Others
  <2>3. CASE x = w
    BY <2>1, <2>3 DEF Passed
  <2> QED BY <2>2, <2>3
<1> QED BY <1>1, <1>2

LEMMA FlagMove ==
    ASSUME FlagInv, UNCHANGED stored, NEW w \in Workers, Others(w),
           flags \subseteq flags', \A t \in flags' : Rash(t, Rows),
           at'[w] \in {"flag", "bump"} => Rash(job'[w], Rows),
           \A t \in Rows : Passed(AfterFlag, t)' =>
               Passed(AfterFlag, t) \/ (Due(t) => t \in flags')
    PROVE  FlagInv'
<1>1. Rows' = Rows /\ \A t : UpTo(t)' = UpTo(t)
  BY SameRows
<1>2. \A t : Due(t)' = Due(t)
  BY <1>1 DEF Due
<1>3. \A x \in Workers : at'[x] \in {"flag", "bump"} => Rash(job'[x], Rows)
  BY DEF FlagInv, Others
<1>4. \A t \in Rows : Passed(AfterFlag, t)' /\ Due(t) => t \in flags'
  BY DEF FlagInv
<1> QED BY <1>1, <1>2, <1>3, <1>4 DEF FlagInv

LEMMA RevengeMove ==
    ASSUME TypeOK, JobInv, RevengeInv, UNCHANGED stored, NEW t,
           \A u \in Users : revenge'[u] \in Nat /\ revenge[u] <= revenge'[u],
           \A x \in Rows : Passed(AfterBump, x)' =>
               \/ Passed(AfterBump, x)
               \/ x = t /\ (Due(t) => revenge'[User(t)] = revenge[User(t)] + 1)
    PROVE  RevengeInv'
<1>1. Rows' = Rows /\ (\A x : UpTo(x)' = UpTo(x)) /\ IsFiniteSet(Rows)
  BY SameRows DEF JobInv
<1>2. \A x : Due(x)' = Due(x)
  BY <1>1 DEF Due
<1> SUFFICES ASSUME NEW u \in Users PROVE Cardinality(RevengeDue(u)') <= revenge'[u]
  BY DEF RevengeInv
<1>3. /\ IsFiniteSet(RevengeDue(u)) /\ IsFiniteSet(RevengeDue(u)')
      /\ Cardinality(RevengeDue(u)) <= revenge[u] /\ revenge[u] \in Nat
  BY <1>1, FS_Subset DEF RevengeDue, RevengeInv, TypeOK
<1>4. Cardinality(RevengeDue(u)) \in Nat /\ Cardinality(RevengeDue(u)') \in Nat
  BY <1>3, FS_CardinalityType
<1>5. revenge'[u] \in Nat /\ revenge[u] <= revenge'[u]
  OBVIOUS
<1>6. CASE RevengeDue(u)' \subseteq RevengeDue(u)
  <2>1. Cardinality(RevengeDue(u)') <= Cardinality(RevengeDue(u))
    BY <1>3, <1>6, FS_Subset
  <2> QED BY <1>3, <1>4, <1>5, <2>1
<1>7. CASE ~(RevengeDue(u)' \subseteq RevengeDue(u))
  <2>1. /\ RevengeDue(u)' \subseteq RevengeDue(u) \cup {t}
        /\ revenge'[u] = revenge[u] + 1
    BY <1>1, <1>2, <1>7 DEF RevengeDue, User
  <2>2. /\ IsFiniteSet(RevengeDue(u) \cup {t})
        /\ \/ Cardinality(RevengeDue(u) \cup {t}) = Cardinality(RevengeDue(u))
           \/ Cardinality(RevengeDue(u) \cup {t}) = Cardinality(RevengeDue(u)) + 1
    BY <1>3, FS_AddElement
  <2>3. Cardinality(RevengeDue(u)') <= Cardinality(RevengeDue(u) \cup {t})
    BY <2>1, <2>2, FS_Subset
  <2> QED BY <1>3, <1>4, <2>1, <2>2, <2>3
<1> QED BY <1>6, <1>7

LEMMA IncidentMove ==
    ASSUME IncidentInv, UNCHANGED stored, NEW w \in Workers, Others(w),
           \A t \in Trades : incidents'[t] > 0 => incidents[t] > 0 \/ Excess(t, Rows),
           at'[w] \in {"dedupe", "record"} => Excess(job'[w], Rows)
    PROVE  IncidentInv'
<1>1. Rows' = Rows
  BY SameRows
<1>2. \A t \in Trades : incidents'[t] > 0 => Excess(t, Rows)
  BY DEF IncidentInv
<1>3. \A x \in Workers : at'[x] \in {"dedupe", "record"} => Excess(job'[x], Rows)
  BY DEF IncidentInv, Others
<1> QED BY <1>1, <1>2, <1>3 DEF IncidentInv, Excess, OpenedIn, At, User

LEMMA SpikeMove ==
    ASSUME SpikeInv, UNCHANGED stored,
           \A t \in Trades : incidents[t] > 0 => incidents'[t] > 0,
           \A t \in Rows : Passed(AfterRecord, t)' =>
               Passed(AfterRecord, t) \/ (Excess(t, UpTo(t)) => Covered(t)')
    PROVE  SpikeInv'
<1>1. Rows' = Rows /\ \A t : UpTo(t)' = UpTo(t)
  BY SameRows
<1>2. \A t : Covered(t) => Covered(t)'
  BY DEF Covered, User, At
<1>3. \A t \in Rows : Passed(AfterRecord, t)' /\ Excess(t, UpTo(t)) => Covered(t)'
  BY <1>2 DEF SpikeInv
<1>4. \A t : Excess(t, UpTo(t))' = Excess(t, UpTo(t))
  BY <1>1 DEF Excess, OpenedIn, At, User
<1> QED BY <1>1, <1>3, <1>4 DEF SpikeInv

(* No counter moves unless an incident is recorded or counted.              *)
LEMMA CounterKept ==
    ASSUME TypeOK, CounterInv, UNCHANGED <<incidents, overtrading>>,
           \A u \in Users : Tallying(u)' \subseteq Tallying(u)
    PROVE  CounterInv'
<1> SUFFICES ASSUME NEW u \in Users
             PROVE  /\ IsFiniteSet(Tallying(u)') /\ IsFiniteSet(IncidentsOf(u)')
                    /\ overtrading'[u] + Cardinality(Tallying(u)') <= Cardinality(IncidentsOf(u)')
  BY DEF CounterInv
<1>1. IncidentsOf(u)' = IncidentsOf(u)
  BY DEF IncidentsOf, User
<1>2. /\ IsFiniteSet(Tallying(u)) /\ IsFiniteSet(IncidentsOf(u))
      /\ overtrading[u] + Cardinality(Tallying(u)) <= Cardinality(IncidentsOf(u))
      /\ overtrading[u] \in Nat
  BY DEF CounterInv, TypeOK
<1>3. IsFiniteSet(Tallying(u)') /\ Cardinality(Tallying(u)') <= Cardinality(Tallying(u))
  BY <1>2, FS_Subset
<1>4. /\ Cardinality(Tallying(u)) \in Nat /\ Cardinality(Tallying(u)') \in Nat
      /\ Cardinality(IncidentsOf(u)) \in Nat
  BY <1>2, <1>3, FS_CardinalityType
<1>5. overtrading'[u] = overtrading[u]
  OBVIOUS
<1> QED BY <1>1, <1>2, <1>3, <1>4, <1>5

(* A row more in overtrading_events, of the user of trade t.                *)
LEMMA IncidentsMore ==
    ASSUME TypeOK, NEW t \in Trades, incidents' = [incidents EXCEPT ![t] = @ + 1], NEW u
    PROVE  IF User(t) = u THEN /\ IncidentsOf(u)' = IncidentsOf(u) \cup {<<t, incidents[t] + 1>>}
                               /\ <<t, incidents[t] + 1>> \notin IncidentsOf(u)
                          ELSE IncidentsOf(u)' = IncidentsOf(u)
<1>1. /\ incidents[t] \in Nat /\ incidents'[t] = incidents[t] + 1
      /\ \A x \in Trades \ {t} : incidents'[x] = incidents[x]
  BY DEF TypeOK
<1>2. /\ 1 .. incidents[t] + 1 = (1 .. incidents[t]) \cup {incidents[t] + 1}
      /\ incidents[t] + 1 \notin 1 .. incidents[t]
  BY <1>1
<1>3. \A x, i : /\ <<x, i>> \in IncidentsOf(u) <=>
                      x \in Trades /\ User(x) = u /\ i \in 1 .. incidents[x]
                /\ <<x, i>> \in IncidentsOf(u)' <=>
                      x \in Trades /\ User(x) = u /\ i \in 1 .. incidents'[x]
  BY DEF IncidentsOf, User
<1>4. /\ \A p \in IncidentsOf(u) : p = <<p[1], p[2]>>
      /\ \A p \in IncidentsOf(u)' : p = <<p[1], p[2]>>
  BY DEF IncidentsOf
<1>5. CASE User(t) = u
  <2>1. \A x, i : <<x, i>> \in IncidentsOf(u)' <=>
                    <<x, i>> \in IncidentsOf(u) \/ <<x, i>> = <<t, incidents[t] + 1>>
    BY <1>1, <1>2, <1>3, <1>5
  <2> QED BY <1>2, <1>3, <1>4, <1>5, <2>1
<1>6. CASE User(t) # u
  <2>1. \A x, i : <<x, i>> \in IncidentsOf(u)' <=> <<x, i>> \in IncidentsOf(u)
    BY <1>1, <1>3, <1>6
  <2> QED BY <1>4, <1>6, <2>1
<1> QED BY <1>5, <1>6

LEMMA CounterRecord ==
    ASSUME TypeOK, CounterInv, NEW w \in Workers, NEW t \in Trades,
           incidents' = [incidents EXCEPT ![t] = @ + 1], UNCHANGED overtrading,
           \A u \in Users : Tallying(u)' \subseteq
               IF User(t) = u THEN Tallying(u) \cup {w} ELSE Tallying(u)
    PROVE  CounterInv'
<1> SUFFICES ASSUME NEW u \in Users
             PROVE  /\ IsFiniteSet(Tallying(u)') /\ IsFiniteSet(IncidentsOf(u)')
                    /\ overtrading'[u] + Cardinality(Tallying(u)') <= Cardinality(IncidentsOf(u)')
  BY DEF CounterInv
<1>1. /\ IsFiniteSet(Tallying(u)) /\ IsFiniteSet(IncidentsOf(u))
      /\ overtrading[u] + Cardinality(Tallying(u)) <= Cardinality(IncidentsOf(u))
      /\ overtrading[u] \in Nat /\ overtrading'[u] = overtrading[u]
  BY DEF CounterInv, TypeOK
<1>2. Cardinality(Tallying(u)) \in Nat /\ Cardinality(IncidentsOf(u)) \in Nat
  BY <1>1, FS_CardinalityType
<1>3. CASE User(t) = u
  <2>1. /\ IsFiniteSet(IncidentsOf(u)')
        /\ Cardinality(IncidentsOf(u)') = Cardinality(IncidentsOf(u)) + 1
    <3>1. /\ IncidentsOf(u)' = IncidentsOf(u) \cup {<<t, incidents[t] + 1>>}
          /\ <<t, incidents[t] + 1>> \notin IncidentsOf(u)
      BY <1>3, IncidentsMore
    <3> QED BY <1>1, <3>1, FS_AddElement
  <2>2. /\ IsFiniteSet(Tallying(u) \cup {w})
        /\ \/ Cardinality(Tallying(u) \cup {w}) = Cardinality(Tallying(u))
           \/ Cardinality(Tallying(u) \cup {w}) = Cardinality(Tallying(u)) + 1
    BY <1>1, FS_AddElement
  <2>3. /\ IsFiniteSet(Tallying(u)')
        /\ Cardinality(Tallying(u)') <= Cardinality(Tallying(u) \cup {w})
    BY <1>3, <2>2, FS_Subset
  <2>4. Cardinality(Tallying(u)') \in Nat
    BY <2>3, FS_CardinalityType
  <2> QED BY <1>1, <1>2, <2>1, <2>2, <2>3, <2>4
<1>4. CASE User(t) # u
  <2>1. IncidentsOf(u)' = IncidentsOf(u)
    BY <1>4, IncidentsMore
  <2>2. IsFiniteSet(Tallying(u)') /\ Cardinality(Tallying(u)') <= Cardinality(Tallying(u))
    BY <1>1, <1>4, FS_Subset
  <2>3. Cardinality(Tallying(u)') \in Nat
    BY <2>2, FS_CardinalityType
  <2> QED BY <1>1, <1>2, <2>1, <2>2, <2>3
<1> QED BY <1>3, <1>4

LEMMA CounterBump ==
    ASSUME TypeOK, CounterInv, NEW w \in Workers, NEW t \in Trades,
           w \in Tallying(User(t)), User(t) \in Users,
           overtrading' = [overtrading EXCEPT ![User(t)] = @ + 1], UNCHANGED incidents,
           \A u \in Users : Tallying(u)' \subseteq Tallying(u) \ {w}
    PROVE  CounterInv'
<1> SUFFICES ASSUME NEW u \in Users
             PROVE  /\ IsFiniteSet(Tallying(u)') /\ IsFiniteSet(IncidentsOf(u)')
                    /\ overtrading'[u] + Cardinality(Tallying(u)') <= Cardinality(IncidentsOf(u)')
  BY DEF CounterInv
<1>1. /\ IsFiniteSet(Tallying(u)) /\ IsFiniteSet(IncidentsOf(u))
      /\ overtrading[u] + Cardinality(Tallying(u)) <= Cardinality(IncidentsOf(u))
      /\ overtrading[u] \in Nat
      /\ overtrading'[u] = IF User(t) = u THEN overtrading[u] + 1 ELSE overtrading[u]
  BY DEF CounterInv, TypeOK
<1>2. Cardinality(Tallying(u)) \in Nat /\ Cardinality(IncidentsOf(u)) \in Nat
  BY <1>1, FS_CardinalityType
<1>3. IncidentsOf(u)' = IncidentsOf(u)
  BY DEF IncidentsOf, User
<1>4. /\ IsFiniteSet(Tallying(u) \ {w})
      /\ Cardinality(Tallying(u) \ {w}) =
            IF w \in Tallying(u) THEN Cardinality(Tallying(u)) - 1 ELSE Cardinality(Tallying(u))
  BY <1>1, FS_RemoveElement
<1>5. /\ IsFiniteSet(Tallying(u)')
      /\ Cardinality(Tallying(u)') <= Cardinality(Tallying(u) \ {w})
  BY <1>4, FS_Subset
<1>6. Cardinality(Tallying(u)') \in Nat
  BY <1>5, FS_CardinalityType
<1>7. User(t) = u => w \in Tallying(u)
  OBVIOUS
<1> QED BY <1>1, <1>2, <1>3, <1>4, <1>5, <1>6, <1>7

----------------------------------------------------------------------------
(* Every action preserves the invariant.                                    *)

LEMMA TallyingStep ==
    ASSUME NEW w \in Workers, Others(w), NEW u
    PROVE  Tallying(u)' \subseteq IF at'[w] = "tally" /\ User(job'[w]) = u
                                  THEN Tallying(u) \cup {w} ELSE Tallying(u) \ {w}
BY DEF Tallying, Others, User

LEMMA Bumped ==
    ASSUME NEW S, NEW f \in [S -> Nat], NEW x \in S, NEW g, g = [f EXCEPT ![x] = @ + 1]
    PROVE  /\ g \in [S -> Nat] /\ g[x] = f[x] + 1
           /\ \A y \in S : f[y] <= g[y] /\ (y # x => g[y] = f[y])
OBVIOUS

(* A calculator's step, from one statement of the job to another.           *)
LEMMA CalculatorStep ==
    ASSUME Inv, NEW w \in Workers, at[w] # "idle",
           NEW next \in Stages \ {"idle"}, Pass(w, next) \/ Fail(w, next),
           UNCHANGED <<stored, event, deliveries, job>>,
           flags' \in SUBSET Rows, flags \subseteq flags', \A t \in flags' : Rash(t, Rows),
           revenge' \in [Users -> Nat], \A u \in Users : revenge[u] <= revenge'[u],
           incidents' \in [Trades -> Nat], overtrading' \in [Users -> Nat],
           \A t \in Trades : incidents[t] > 0 => incidents'[t] > 0,
           \A t \in Trades : incidents'[t] > 0 => incidents[t] > 0 \/ Excess(t, Rows),
           next \in {"flag", "bump"} => Rash(job[w], Rows),
           next \in {"dedupe", "record"} => Excess(job[w], Rows),
           ~Fail(w, next) /\ next \in AfterFlag /\ at[w] \notin AfterFlag =>
               (Due(job[w]) => job[w] \in flags'),
           ~Fail(w, next) /\ next \in AfterBump /\ at[w] \notin AfterBump =>
               (Due(job[w]) => revenge'[User(job[w])] = revenge[User(job[w])] + 1),
           ~Fail(w, next) /\ next \in AfterRecord /\ at[w] \notin AfterRecord =>
               (Excess(job[w], UpTo(job[w])) => Covered(job[w])'),
           CounterInv'
    PROVE  Inv'
<1> USE DEF Inv
<1>1. /\ at' \in [Workers -> Stages] /\ failed' \in [Workers -> BOOLEAN]
      /\ at'[w] = next /\ (failed[w] => failed'[w]) /\ (Fail(w, next) => failed'[w])
      /\ Others(w) /\ job'[w] = job[w]
      /\ job[w] \in Rows /\ job[w] \in Trades /\ User(job[w]) \in Users /\ JobInv'
  BY StageType
<1>2. Rows' = Rows
  BY SameRows
<1>3. ASSUME NEW A, NEW t, Passed(A, t)'
      PROVE  \/ Passed(A, t)
             \/ t = job[w] /\ ~Fail(w, next) /\ next \in A /\ at[w] \notin A
  <2>1. event'[t] = "done" => Passed(A, t)
    BY DEF Passed
  <2>2. \/ Passed(A, t)
        \/ t = job[w] /\ ~failed'[w] /\ at'[w] \in A /\ at[w] \notin A
    BY <1>1, <1>3, <2>1, PassedStep
  <2> QED BY <1>1, <2>2
<1>4. TypeOK'
  BY <1>1, <1>2 DEF TypeOK
<1>5. FlagInv'
  <2>1. \A t \in Rows : Passed(AfterFlag, t)' =>
            Passed(AfterFlag, t) \/ (Due(t) => t \in flags')
    BY <1>3
  <2> QED BY <1>1, <2>1, FlagMove
<1>6. RevengeInv'
  <2>1. \A x \in Rows : Passed(AfterBump, x)' =>
            \/ Passed(AfterBump, x)
            \/ /\ x = job[w]
               /\ Due(job[w]) => revenge'[User(job[w])] = revenge[User(job[w])] + 1
    BY <1>3
  <2>2. \A u \in Users : revenge'[u] \in Nat /\ revenge[u] <= revenge'[u]
    OBVIOUS
  <2> QED BY <2>1, <2>2, RevengeMove
<1>7. IncidentInv'
  BY <1>1, IncidentMove
<1>8. SpikeInv'
  <2>1. \A t \in Rows : Passed(AfterRecord, t)' =>
            Passed(AfterRecord, t) \/ (Excess(t, UpTo(t)) => Covered(t)')
    BY <1>3
  <2> QED BY <2>1, SpikeMove
<1> QED BY <1>1, <1>4, <1>5, <1>6, <1>7, <1>8

(* A query, or a statement that has had no effect.                          *)
LEMMA QueryStep ==
    ASSUME Inv, NEW w \in Workers, at[w] # "idle",
           NEW next \in Stages \ {"idle", "tally"}, Pass(w, next) \/ Fail(w, next),
           UNCHANGED <<stored, event, deliveries, job, tables>>,
           next \in {"flag", "bump"} => Rash(job[w], Rows),
           next \in {"dedupe", "record"} => Excess(job[w], Rows),
           ~Fail(w, next) /\ next \in AfterFlag => at[w] \in AfterFlag \/ ~Due(job[w]),
           ~Fail(w, next) /\ next \in AfterBump => at[w] \in AfterBump \/ ~Due(job[w]),
           ~Fail(w, next) /\ next \in AfterRecord /\ at[w] \notin AfterRecord =>
               (Excess(job[w], UpTo(job[w])) => Covered(job[w]))
    PROVE  Inv'
<1> USE DEF Inv
<1>1. Others(w) /\ at'[w] = next
  BY StageType
<1>2. \A u \in Users : Tallying(u)' \subseteq Tallying(u)
  BY <1>1, TallyingStep
<1>3. CounterInv'
  BY <1>2, CounterKept DEF tables
<1>4. /\ flags' = flags /\ revenge' = revenge /\ incidents' = incidents
      /\ overtrading' = overtrading /\ Rows' = Rows
  BY SameRows DEF tables
<1>5. /\ flags' \in SUBSET Rows /\ flags \subseteq flags' /\ \A t \in flags' : Rash(t, Rows)
  BY <1>4 DEF TypeOK, FlagInv
<1>6. /\ revenge' \in [Users -> Nat] /\ \A u \in Users : revenge[u] <= revenge'[u]
      /\ incidents' \in [Trades -> Nat] /\ overtrading' \in [Users -> Nat]
  BY <1>4 DEF TypeOK
<1>7. Covered(job[w]) => Covered(job[w])'
  BY <1>4 DEF Covered, User, At
<1> HIDE DEF Inv
<1> QED BY <1>3, <1>4, <1>5, <1>6, <1>7, CalculatorStep

LEMMA RevengeQueryStep ==
    ASSUME Inv, NEW w \in Workers, RevengeQuery(w) PROVE Inv'
<1>1. /\ at[w] = "revenge" /\ UNCHANGED <<stored, event, deliveries, job, tables>>
      /\ \/ Pass(w, IF IsRevenge(job[w], Rows) THEN "flag" ELSE "count")
         \/ Fail(w, "count")
  BY DEF RevengeQuery
<1>2. job[w] \in Rows /\ Rows \in SUBSET Trades /\ IsFiniteSet(Rows) /\ UpTo(job[w]) \subseteq Rows
  BY <1>1, RowsType DEF Inv, TypeOK, JobInv
<1>3. IsRevenge(job[w], Rows) <=> Rash(job[w], Rows)
  BY <1>2, RevengeRash
<1>4. Due(job[w]) => Rash(job[w], Rows)
  BY <1>2, RashMore DEF Due
<1>5. ~("flag" \in AfterFlag) /\ ~("flag" \in AfterBump) /\ ~("count" \in AfterRecord)
      /\ ~("flag" \in AfterRecord)
  BY DEF AfterFlag, AfterBump, AfterRecord
<1>6. {"flag", "count"} \subseteq Stages \ {"idle", "tally"}
  BY DEF Stages
<1>7. CASE Pass(w, "flag") /\ IsRevenge(job[w], Rows)
  BY <1>1, <1>3, <1>5, <1>6, <1>7, QueryStep
<1>8. CASE Pass(w, "count") /\ ~IsRevenge(job[w], Rows)
  BY <1>1, <1>3, <1>4, <1>5, <1>6, <1>8, QueryStep
<1>9. CASE Fail(w, "count")
  BY <1>1, <1>6, <1>9, QueryStep
<1> QED BY <1>1, <1>7, <1>8, <1>9

LEMMA SetFlagStep ==
    ASSUME Inv, NEW w \in Workers, SetFlag(w) PROVE Inv'
<1>1. /\ at[w] = "flag"
      /\ UNCHANGED <<stored, event, deliveries, job, revenge, incidents, overtrading>>
      /\ \/ flags' = flags \cup {job[w]} /\ (Pass(w, "bump") \/ Fail(w, "count"))
         \/ flags' = flags /\ Fail(w, "count")
  BY DEF SetFlag
<1>2. PICK next \in {"bump", "count"} :
         /\ Pass(w, next) \/ Fail(w, next)
         /\ next = "bump" => Pass(w, next) /\ flags' = flags \cup {job[w]}
         /\ next = "count" => Fail(w, next)
  BY <1>1
<1>3. next \in Stages \ {"idle"} /\ next # "tally" /\ next \notin AfterRecord
  BY DEF Stages, AfterRecord
<1>4. next \in AfterBump => next = "count"
  BY DEF AfterBump
<1>5. TypeOK /\ JobInv /\ FlagInv /\ CounterInv
  BY DEF Inv
<1>6. job[w] \in Rows /\ Others(w) /\ at'[w] = next
  BY <1>1, <1>2, <1>3, <1>5, StageType
<1>7. Rash(job[w], Rows)
  BY <1>1, <1>5 DEF FlagInv
<1>8. flags' \in SUBSET Rows /\ flags \subseteq flags' /\ \A t \in flags' : Rash(t, Rows)
  BY <1>1, <1>5, <1>6, <1>7 DEF TypeOK, FlagInv
<1>9. CounterInv'
  <2>1. \A u \in Users : Tallying(u)' \subseteq Tallying(u)
    BY <1>3, <1>6, TallyingStep
  <2> QED BY <1>1, <1>5, <2>1, CounterKept
<1>10. /\ revenge' = revenge /\ incidents' = incidents /\ overtrading' = overtrading
       /\ revenge' \in [Users -> Nat] /\ \A u \in Users : revenge[u] <= revenge'[u]
       /\ incidents' \in [Trades -> Nat] /\ overtrading' \in [Users -> Nat]
  BY <1>1, <1>5 DEF TypeOK
<1>11. ~Fail(w, next) => job[w] \in flags'
  BY <1>2
<1> QED BY <1>1, <1>2, <1>3, <1>4, <1>7, <1>8, <1>9, <1>10, <1>11, CalculatorStep

LEMMA BumpRevengeStep ==
    ASSUME Inv, NEW w \in Workers, BumpRevenge(w) PROVE Inv'
<1> DEFINE u == User(job[w])
<1>1. /\ at[w] = "bump"
      /\ UNCHANGED <<stored, event, deliveries, job, flags, incidents, overtrading>>
      /\ Pass(w, "count") \/ Fail(w, "count")
      /\ \/ revenge' = [revenge EXCEPT ![u] = @ + 1]
         \/ revenge' = revenge /\ Fail(w, "count")
  BY DEF BumpRevenge
<1>2. /\ "count" \in Stages \ {"idle"} /\ "count" \notin AfterRecord /\ "bump" \in AfterFlag
  BY DEF Stages, AfterRecord, AfterFlag
<1>3. TypeOK /\ JobInv /\ FlagInv /\ CounterInv
  BY DEF Inv
<1>4. job[w] \in Rows /\ Others(w) /\ at'[w] = "count" /\ u \in Users
  BY <1>1, <1>2, <1>3, StageType
<1>5. flags' \in SUBSET Rows /\ flags \subseteq flags' /\ \A t \in flags' : Rash(t, Rows)
  BY <1>1, <1>3 DEF TypeOK, FlagInv
<1>6. CounterInv'
  <2>1. \A x \in Users : Tallying(x)' \subseteq Tallying(x)
    BY <1>4, TallyingStep
  <2> QED BY <1>1, <1>3, <2>1, CounterKept
<1>7. /\ revenge' \in [Users -> Nat] /\ \A x \in Users : revenge[x] <= revenge'[x]
      /\ ~Fail(w, "count") => revenge'[u] = revenge[u] + 1
  <2>1. revenge \in [Users -> Nat]
    BY <1>3 DEF TypeOK
  <2>2. CASE revenge' = [revenge EXCEPT ![u] = @ + 1]
    BY <1>4, <2>1, <2>2, Bumped
  <2>3. CASE revenge' = revenge /\ Fail(w, "count")
    BY <2>1, <2>3
  <2> QED BY <1>1, <2>2, <2>3
<1>8. /\ incidents' = incidents
      /\ incidents' \in [Trades -> Nat] /\ overtrading' \in [Users -> Nat]
  BY <1>1, <1>3 DEF TypeOK
<1> QED BY <1>1, <1>2, <1>5, <1>6, <1>7, <1>8, CalculatorStep

LEMMA CountOpensStep ==
    ASSUME Inv, NEW w \in Workers, CountOpens(w) PROVE Inv'
<1>1. /\ at[w] = "count" /\ UNCHANGED <<stored, event, deliveries, job, tables>>
      /\ \/ Pass(w, IF Excess(job[w], Rows) THEN "dedupe" ELSE "verdict")
         \/ Fail(w, "verdict")
  BY DEF CountOpens, Excess
<1>2. job[w] \in Rows /\ Rows \in SUBSET Trades /\ IsFiniteSet(Rows) /\ UpTo(job[w]) \subseteq Rows
  BY <1>1, RowsType DEF Inv, TypeOK, JobInv
<1>3. Excess(job[w], UpTo(job[w])) => Excess(job[w], Rows)
  BY <1>2, ExcessMore
<1>4. "count" \in AfterFlag /\ "count" \in AfterBump /\ "dedupe" \notin AfterRecord
  BY DEF AfterFlag, AfterBump, AfterRecord
<1>5. {"dedupe", "verdict"} \subseteq Stages \ {"idle", "tally"}
  BY DEF Stages
<1>6. CASE Pass(w, "dedupe") /\ Excess(job[w], Rows)
  BY <1>1, <1>4, <1>5, <1>6, QueryStep
<1>7. CASE Pass(w, "verdict") /\ ~Excess(job[w], Rows)
  BY <1>1, <1>3, <1>4, <1>5, <1>7, QueryStep
<1>8. CASE Fail(w, "verdict")
  BY <1>1, <1>5, <1>8, QueryStep
<1> QED BY <1>1, <1>6, <1>7, <1>8

LEMMA DedupeStep ==
    ASSUME Inv, NEW w \in Workers, Dedupe(w) PROVE Inv'
<1>1. /\ at[w] = "dedupe" /\ UNCHANGED <<stored, event, deliveries, job, tables>>
      /\ \/ Pass(w, IF Covered(job[w]) THEN "verdict" ELSE "record")
         \/ Fail(w, "verdict")
  BY DEF Dedupe
<1>2. "dedupe" \in AfterFlag /\ "dedupe" \in AfterBump /\ "record" \notin AfterRecord
  BY DEF AfterFlag, AfterBump, AfterRecord
<1>3. {"record", "verdict"} \subseteq Stages \ {"idle", "tally"}
  BY DEF Stages
<1>4. Excess(job[w], Rows)
  BY <1>1 DEF Inv, IncidentInv
<1>5. CASE Pass(w, "verdict") /\ Covered(job[w])
  BY <1>1, <1>2, <1>3, <1>5, QueryStep
<1>6. CASE Pass(w, "record")
  BY <1>1, <1>2, <1>3, <1>4, <1>6, QueryStep
<1>7. CASE Fail(w, "verdict")
  BY <1>1, <1>3, <1>7, QueryStep
<1> QED BY <1>1, <1>5, <1>6, <1>7

LEMMA RecordIncidentStep ==
    ASSUME Inv, NEW w \in Workers, RecordIncident(w) PROVE Inv'
<1>1. /\ at[w] = "record"
      /\ UNCHANGED <<stored, event, deliveries, job, flags, revenge, overtrading>>
      /\ \/ incidents' = [incidents EXCEPT ![job[w]] = @ + 1] /\ (Pass(w, "tally") \/ Fail(w, "verdict"))
         \/ incidents' = incidents /\ Fail(w, "verdict")
  BY DEF RecordIncident
<1>2. PICK next \in {"tally", "verdict"} :
         /\ Pass(w, next) \/ Fail(w, next)
         /\ next = "tally" => Pass(w, next) /\ incidents' = [incidents EXCEPT ![job[w]] = @ + 1]
         /\ next = "verdict" => Fail(w, next)
  BY <1>1
<1>3. next \in Stages \ {"idle"} /\ "record" \in AfterFlag /\ "record" \in AfterBump
  BY DEF Stages, AfterFlag, AfterBump
<1>4. TypeOK /\ JobInv /\ FlagInv /\ IncidentInv /\ CounterInv
  BY DEF Inv
<1>5. job[w] \in Rows /\ job[w] \in Trades /\ Others(w) /\ at'[w] = next /\ job'[w] = job[w]
  BY <1>1, <1>2, <1>3, <1>4, StageType
<1>6. flags' \in SUBSET Rows /\ flags \subseteq flags' /\ \A t \in flags' : Rash(t, Rows)
  BY <1>1, <1>4 DEF TypeOK, FlagInv
<1>7. /\ revenge' \in [Users -> Nat] /\ \A u \in Users : revenge[u] <= revenge'[u]
      /\ overtrading' \in [Users -> Nat]
  BY <1>1, <1>4 DEF TypeOK
<1>8. /\ incidents' \in [Trades -> Nat] /\ \A t \in Trades : incidents[t] > 0 => incidents'[t] > 0
      /\ \A t \in Trades : incidents'[t] > 0 => incidents[t] > 0 \/ t = job[w]
      /\ next = "tally" => incidents'[job[w]] > 0
  <2>1. incidents \in [Trades -> Nat]
    BY <1>4 DEF TypeOK
  <2>2. CASE incidents' = [incidents EXCEPT ![job[w]] = @ + 1]
    BY <1>5, <2>1, <2>2, Bumped
  <2>3. CASE incidents' = incidents /\ next # "tally"
    BY <2>1, <2>3
  <2> QED BY <1>1, <1>2, <2>2, <2>3
<1>9. Excess(job[w], Rows)
  BY <1>1, <1>4 DEF IncidentInv
<1>10. next = "tally" => Covered(job[w])'
  <2> SUFFICES ASSUME incidents'[job[w]] > 0 PROVE Covered(job[w])'
    BY <1>8
  <2>1. At(job[w]) \in Int /\ Window \in Nat
    BY <1>5, DataAssumption, BoundsAssumption DEF At
  <2>2. At(job[w]) <= At(job[w]) /\ At(job[w]) <= At(job[w]) + Window
    BY <2>1
  <2> QED BY <1>1, <1>5, <2>2 DEF Covered, At, User
<1>11. CounterInv'
  <2>1. ASSUME NEW u \in Users
        PROVE  Tallying(u)' \subseteq IF next = "tally" /\ User(job[w]) = u
                                      THEN Tallying(u) \cup {w} ELSE Tallying(u)
    BY <1>5, TallyingStep
  <2>2. CASE incidents' = [incidents EXCEPT ![job[w]] = @ + 1]
    <3>1. \A u \in Users : Tallying(u)' \subseteq
              IF User(job[w]) = u THEN Tallying(u) \cup {w} ELSE Tallying(u)
      BY <2>1
    <3> QED BY <1>1, <1>4, <1>5, <2>2, <3>1, CounterRecord
  <2>3. CASE incidents' = incidents /\ next # "tally"
    <3>1. \A u \in Users : Tallying(u)' \subseteq Tallying(u)
      BY <2>1, <2>3
    <3> QED BY <1>1, <1>4, <2>3, <3>1, CounterKept
  <2> QED BY <1>1, <1>2, <2>2, <2>3
<1> QED BY <1>1, <1>2, <1>3, <1>6, <1>7, <1>8, <1>9, <1>10, <1>11, CalculatorStep

LEMMA TallyIncidentStep ==
    ASSUME Inv, NEW w \in Workers, TallyIncident(w) PROVE Inv'
<1>1. /\ at[w] = "tally"
      /\ UNCHANGED <<stored, event, deliveries, job, flags, revenge, incidents>>
      /\ Pass(w, "verdict") \/ Fail(w, "verdict")
      /\ \/ overtrading' = [overtrading EXCEPT ![User(job[w])] = @ + 1]
         \/ overtrading' = overtrading
  BY DEF TallyIncident
<1>2. /\ "verdict" \in Stages \ {"idle"} /\ "tally" \in AfterFlag /\ "tally" \in AfterBump
      /\ "tally" \in AfterRecord
  BY DEF Stages, AfterRecord, AfterFlag, AfterBump
<1>3. TypeOK /\ JobInv /\ FlagInv /\ CounterInv
  BY DEF Inv
<1>4. /\ job[w] \in Rows /\ job[w] \in Trades /\ Others(w) /\ at'[w] = "verdict"
      /\ User(job[w]) \in Users
  BY <1>1, <1>2, <1>3, StageType
<1>5. flags' \in SUBSET Rows /\ flags \subseteq flags' /\ \A t \in flags' : Rash(t, Rows)
  BY <1>1, <1>3 DEF TypeOK, FlagInv
<1>6. CounterInv'
  <2>1. \A u \in Users : Tallying(u)' \subseteq Tallying(u) \ {w}
    BY <1>4, TallyingStep
  <2>2. w \in Tallying(User(job[w]))
    BY <1>1 DEF Tallying
  <2>3. CASE overtrading' = [overtrading EXCEPT ![User(job[w])] = @ + 1]
    BY <1>1, <1>3, <1>4, <2>1, <2>2, <2>3, CounterBump
  <2>4. CASE overtrading' = overtrading
    BY <1>1, <1>3, <2>1, <2>4, CounterKept
  <2> QED BY <1>1, <2>3, <2>4
<1>7. /\ revenge' \in [Users -> Nat] /\ \A x \in Users : revenge[x] <= revenge'[x]
      /\ incidents' = incidents
      /\ incidents' \in [Trades -> Nat]
  BY <1>1, <1>3 DEF TypeOK
<1>8. overtrading' \in [Users -> Nat]
  BY <1>1, <1>3, <1>4, Bumped DEF TypeOK
<1> QED BY <1>1, <1>2, <1>5, <1>6, <1>7, <1>8, CalculatorStep

(* A step that writes no table and after which no worker is at a statement  *)
(* it was not at, and no event processed that no worker had passed.         *)
LEMMA QuietStep ==
    ASSUME Inv, TypeOK', JobInv', UNCHANGED <<stored, tables>>,
           \A w \in Workers : at'[w] \in {"flag", "bump", "dedupe", "record", "tally"} =>
               at'[w] = at[w] /\ job'[w] = job[w],
           \A t \in Rows : /\ Passed(AfterFlag, t)' => Passed(AfterFlag, t)
                           /\ Passed(AfterBump, t)' => Passed(AfterBump, t)
                           /\ Passed(AfterRecord, t)' => Passed(AfterRecord, t)
    PROVE  Inv'
<1> USE DEF Inv
<1>1. /\ Rows' = Rows /\ \A t : UpTo(t)' = UpTo(t)
      /\ flags' = flags /\ revenge' = revenge /\ incidents' = incidents
      /\ overtrading' = overtrading
  BY SameRows DEF tables
<1>2. /\ \A t : Due(t)' = Due(t)
      /\ \A t : Excess(t, UpTo(t))' = Excess(t, UpTo(t))
      /\ \A t : Covered(t)' = Covered(t)
  BY <1>1 DEF Due, Excess, OpenedIn, Covered, At, User
<1>3. FlagInv'
  <2>1. \A w \in Workers : at'[w] \in {"flag", "bump"} => Rash(job'[w], Rows)
    BY DEF FlagInv
  <2>2. \A t \in Rows : Passed(AfterFlag, t)' /\ Due(t) => t \in flags
    BY DEF FlagInv
  <2>3. \A t \in flags : Rash(t, Rows)
    BY DEF FlagInv
  <2> QED BY <1>1, <1>2, <2>1, <2>2, <2>3 DEF FlagInv
<1>4. RevengeInv'
  <2> SUFFICES ASSUME NEW u \in Users PROVE Cardinality(RevengeDue(u)') <= revenge'[u]
    BY DEF RevengeInv
  <2>1. RevengeDue(u)' \subseteq RevengeDue(u) /\ IsFiniteSet(RevengeDue(u))
    BY <1>1, <1>2, FS_Subset DEF RevengeDue, User, JobInv
  <2>2. /\ IsFiniteSet(RevengeDue(u)')
        /\ Cardinality(RevengeDue(u)') <= Cardinality(RevengeDue(u))
    BY <2>1, FS_Subset
  <2>3. Cardinality(RevengeDue(u)') \in Nat /\ Cardinality(RevengeDue(u)) \in Nat
    BY <2>1, <2>2, FS_CardinalityType
  <2>4. Cardinality(RevengeDue(u)) <= revenge[u] /\ revenge[u] \in Nat /\ revenge'[u] = revenge[u]
    BY <1>1 DEF RevengeInv, TypeOK
  <2> QED BY <2>2, <2>3, <2>4
<1>5. IncidentInv'
  <2>1. \A w \in Workers : at'[w] \in {"dedupe", "record"} => Excess(job'[w], Rows)
    BY DEF IncidentInv
  <2>2. \A t \in Trades : incidents[t] > 0 => Excess(t, Rows)
    BY DEF IncidentInv
  <2> QED BY <1>1, <2>1, <2>2 DEF IncidentInv, Excess, OpenedIn, At, User
<1>6. SpikeInv'
  BY <1>1, <1>2 DEF SpikeInv
<1>7. CounterInv'
  <2>1. \A u \in Users : Tallying(u)' \subseteq Tallying(u)
    BY DEF Tallying, User
  <2> QED BY <1>1, <2>1, CounterKept
<1> QED BY <1>3, <1>4, <1>5, <1>6, <1>7

(* A worker takes up or lets go of an event.                                *)
LEMMA TurnStep ==
    ASSUME Inv, TypeOK', JobInv', NEW w \in Workers, Others(w), UNCHANGED <<stored, tables>>,
           at'[w] \in {"idle", "revenge"},
           \A t \in Trades : event'[t] = "done" =>
               event[t] = "done" \/ (t = job[w] /\ ~failed[w] /\ at[w] = "verdict")
    PROVE  Inv'
<1>1. /\ at'[w] \notin AfterFlag /\ at'[w] \notin AfterBump /\ at'[w] \notin AfterRecord
      /\ "verdict" \in AfterFlag /\ "verdict" \in AfterBump /\ "verdict" \in AfterRecord
  BY DEF AfterFlag, AfterBump, AfterRecord
<1>2. ASSUME NEW A, at'[w] \notin A, "verdict" \in A, NEW t \in Trades, Passed(A, t)'
      PROVE  Passed(A, t)
  <2>1. event'[t] = "done" => Passed(A, t)
    BY <1>2 DEF Passed
  <2> QED BY <1>2, <2>1, PassedStep
<1>3. Rows \subseteq Trades
  BY RowsType DEF Inv
<1>4. \A t \in Rows : /\ Passed(AfterFlag, t)' => Passed(AfterFlag, t)
                      /\ Passed(AfterBump, t)' => Passed(AfterBump, t)
                      /\ Passed(AfterRecord, t)' => Passed(AfterRecord, t)
  BY <1>1, <1>2, <1>3
<1>5. \A x \in Workers : at'[x] \in {"flag", "bump", "dedupe", "record", "tally"} =>
          at'[x] = at[x] /\ job'[x] = job[x]
  BY DEF Others
<1> QED BY <1>4, <1>5, QuietStep

LEMMA TakeStep ==
    ASSUME Inv, NEW w \in Workers, NEW t \in Trades, Take(w, t) PROVE Inv'
<1>1. TypeOK' /\ JobInv' /\ Others(w)
  BY TakeType DEF Inv
<1>2. UNCHANGED <<stored, event, tables>> /\ at'[w] = "revenge"
  BY DEF Take, Inv, TypeOK
<1> QED BY <1>1, <1>2, TurnStep

LEMMA ReleaseStep ==
    ASSUME Inv, NEW w \in Workers, Verdict(w) \/ Crash(w) PROVE Inv'
<1>1. /\ Release(w) /\ UNCHANGED <<stored, deliveries, tables>>
      /\ \/ UNCHANGED event
         \/ /\ at[w] = "verdict" /\ ~failed[w]
            /\ event' = [event EXCEPT ![job[w]] = "done"]
  BY DEF Verdict, Crash
<1>2. at[w] = "verdict" => job[w] # None
  BY DEF Inv, JobInv
<1>3. TypeOK' /\ JobInv' /\ Others(w)
  BY <1>1, <1>2, ReleaseType DEF Inv
<1>4. at'[w] = "idle"
  BY <1>1 DEF Release, Inv, TypeOK
<1>5. \A t \in Trades : event'[t] = "done" =>
          event[t] = "done" \/ (t = job[w] /\ ~failed[w] /\ at[w] = "verdict")
  BY <1>1 DEF Inv, TypeOK
<1> QED BY <1>1, <1>3, <1>4, <1>5, TurnStep

LEMMA DeadLetterStep ==
    ASSUME Inv, NEW t \in Trades, DeadLetter(t) PROVE Inv'
<1>1. TypeOK' /\ JobInv'
  BY DeadLetterType DEF Inv
<1>2. /\ UNCHANGED <<stored, tables>> /\ job' = job /\ at' = at /\ failed' = failed
      /\ \A x \in Trades : event'[x] = "done" => event[x] = "done"
  BY DEF DeadLetter, jobVars, Inv, TypeOK
<1>3. Rows \subseteq Trades
  BY RowsType DEF Inv
<1>4. ASSUME NEW A, NEW x \in Rows, Passed(A, x)' PROVE Passed(A, x)
  BY <1>2, <1>3, <1>4 DEF Passed
<1> QED BY <1>1, <1>2, <1>4, QuietStep

LEMMA StutterStep == ASSUME Inv, UNCHANGED vars PROVE Inv'
<1>1. /\ UNCHANGED <<stored, tables>> /\ job' = job /\ at' = at /\ failed' = failed
      /\ event' = event /\ deliveries' = deliveries
  BY DEF vars, jobVars
<1>2. TypeOK' /\ JobInv'
  BY <1>1, SameRows DEF Inv, TypeOK, JobInv, tables
<1>3. ASSUME NEW A, NEW x \in Rows, Passed(A, x)' PROVE Passed(A, x)
  BY <1>1, <1>3 DEF Passed
<1> QED BY <1>1, <1>2, <1>3, QuietStep

(* The trade stored is new to every worker and to every table.              *)
LEMMA StoreStep ==
    ASSUME Inv, NEW t \in Trades, Store(t) PROVE Inv'
<1> USE DEF Inv
<1>1. TypeOK' /\ JobInv' /\ Rows' = Rows \cup {t}
  BY StoreType
<1>2. /\ t \notin Rows /\ stored' = Append(stored, t)
      /\ job' = job /\ at' = at /\ failed' = failed
      /\ flags' = flags /\ revenge' = revenge /\ incidents' = incidents
      /\ overtrading' = overtrading
      /\ event' = event \/ event' = [event EXCEPT ![t] = "live"]
  BY DEF Store, jobVars, tables
<1>3. Rows \subseteq Trades /\ Rows \subseteq Rows' /\ IsFiniteSet(Rows')
  BY <1>1, RowsType DEF JobInv
<1>4. \A x \in Rows : UpTo(x)' = UpTo(x)
  BY <1>2, UpToAppend
<1>5. \A A : ~Passed(A, t)'
  <2>1. event'[t] # "done"
    BY <1>2 DEF TypeOK, JobInv
  <2>2. \A w \in Workers : job[w] # t
    BY <1>2, DataAssumption DEF TypeOK
  <2> QED BY <1>2, <2>1, <2>2 DEF Passed
<1>6. \A A : \A x \in Rows : Passed(A, x)' => Passed(A, x)
  BY <1>2, <1>3 DEF Passed, TypeOK
<1>7. \A w \in Workers : at[w] # "idle" => job[w] \in Rows
  BY DEF TypeOK, JobInv
<1>8. FlagInv'
  <2>1. \A x : Rash(x, Rows) => Rash(x, Rows')
    BY <1>3, RashMore
  <2>2. \A x \in Rows : Due(x)' = Due(x)
    BY <1>4 DEF Due
  <2>3. \A x \in Rows' : Passed(AfterFlag, x)' /\ Due(x)' => x \in flags'
    BY <1>1, <1>2, <1>5, <1>6, <2>2 DEF FlagInv
  <2>4. /\ \A x \in flags' : Rash(x, Rows')
        /\ \A w \in Workers : at'[w] \in {"flag", "bump"} => Rash(job'[w], Rows')
    BY <1>2, <2>1 DEF FlagInv
  <2> QED BY <2>3, <2>4 DEF FlagInv
<1>9. RevengeInv'
  <2> SUFFICES ASSUME NEW u \in Users PROVE Cardinality(RevengeDue(u)') <= revenge'[u]
    BY DEF RevengeInv
  <2>1. \A x \in Rows : Due(x)' = Due(x)
    BY <1>4 DEF Due
  <2>2. RevengeDue(u)' \subseteq RevengeDue(u) /\ IsFiniteSet(RevengeDue(u))
    BY <1>1, <1>5, <1>6, <2>1, FS_Subset DEF RevengeDue, User, JobInv
  <2>3. /\ IsFiniteSet(RevengeDue(u)')
        /\ Cardinality(RevengeDue(u)') <= Cardinality(RevengeDue(u))
    BY <2>2, FS_Subset
  <2>4. Cardinality(RevengeDue(u)') \in Nat /\ Cardinality(RevengeDue(u)) \in Nat
    BY <2>2, <2>3, FS_CardinalityType
  <2>5. Cardinality(RevengeDue(u)) <= revenge[u] /\ revenge[u] \in Nat /\ revenge'[u] = revenge[u]
    BY <1>2 DEF RevengeInv, TypeOK
  <2> QED BY <2>3, <2>4, <2>5
<1>10. IncidentInv'
  <2>1. \A x : Excess(x, Rows) => Excess(x, Rows')
    BY <1>3, ExcessMore
  <2>2. /\ \A x \in Trades : incidents'[x] > 0 => Excess(x, Rows')
        /\ \A w \in Workers : at'[w] \in {"dedupe", "record"} => Excess(job'[w], Rows')
    BY <1>2, <2>1 DEF IncidentInv
  <2> QED BY <2>2 DEF IncidentInv, Excess, OpenedIn, At, User
<1>11. SpikeInv'
  <2>1. \A x \in Rows : Excess(x, UpTo(x))' = Excess(x, UpTo(x))
    BY <1>4 DEF Excess, OpenedIn, At, User
  <2>2. \A x : Covered(x)' = Covered(x)
    BY <1>2 DEF Covered, At, User
  <2> QED BY <1>1, <1>5, <1>6, <2>1, <2>2 DEF SpikeInv
<1>12. CounterInv'
  <2>1. \A u \in Users : Tallying(u)' \subseteq Tallying(u)
    BY <1>2 DEF Tallying, User
  <2> QED BY <1>2, <2>1, CounterKept
<1> QED BY <1>1, <1>8, <1>9, <1>10, <1>11, <1>12

LEMMA InitInv == Init => Inv
<1> SUFFICES ASSUME Init PROVE Inv
  OBVIOUS
<1>1. TypeOK /\ JobInv
  BY InitType
<1>2. Rows = {}
  BY DEF Init, Rows, ToSet
<1>3. /\ flags = {} /\ \A w \in Workers : at[w] = "idle"
      /\ \A t \in Trades : incidents[t] = 0
      /\ \A u \in Users : revenge[u] = 0 /\ overtrading[u] = 0
  BY DEF Init
<1>4. FlagInv /\ IncidentInv /\ SpikeInv
  BY <1>2, <1>3 DEF FlagInv, IncidentInv, SpikeInv
<1>5. RevengeInv
  <2> SUFFICES ASSUME NEW u \in Users PROVE Cardinality(RevengeDue(u)) <= revenge[u]
    BY DEF RevengeInv
  <2>1. RevengeDue(u) = {}
    BY <1>2 DEF RevengeDue
  <2>2. Cardinality(RevengeDue(u)) = 0
    BY <2>1, FS_EmptySet
  <2> QED BY <1>3, <2>2
<1>6. CounterInv
  <2> SUFFICES ASSUME NEW u \in Users
               PROVE  /\ IsFiniteSet(Tallying(u)) /\ IsFiniteSet(IncidentsOf(u))
                      /\ overtrading[u] + Cardinality(Tallying(u)) <= Cardinality(IncidentsOf(u))
    BY DEF CounterInv
  <2>1. Tallying(u) = {}
    BY <1>3 DEF Tallying
  <2>2. \A t \in Trades : 1 .. incidents[t] = {}
    BY <1>3
  <2>3. IncidentsOf(u) = {}
    BY <2>2 DEF IncidentsOf
  <2>4. IsFiniteSet({}) /\ Cardinality({}) = 0
    BY FS_EmptySet
  <2> QED BY <1>3, <2>1, <2>3, <2>4
<1> QED BY <1>1, <1>4, <1>5, <1>6 DEF Inv

LEMMA NextInv == Inv /\ [Next]_vars => Inv'
<1> SUFFICES ASSUME Inv, [Next]_vars PROVE Inv'
  OBVIOUS
<1>1. CASE UNCHANGED vars
  BY <1>1, StutterStep
<1>2. CASE \E t \in Trades : Store(t) \/ DeadLetter(t)
  BY <1>2, StoreStep, DeadLetterStep
<1>3. CASE \E w \in Workers : \E t \in Trades : Take(w, t)
  BY <1>3, TakeStep
<1>4. CASE \E w \in Workers : Calculate(w)
  BY <1>4, RevengeQueryStep, SetFlagStep, BumpRevengeStep, CountOpensStep, DedupeStep,
     RecordIncidentStep, TallyIncidentStep DEF Calculate
<1>5. CASE \E w \in Workers : Verdict(w) \/ Crash(w)
  BY <1>5, ReleaseStep
<1> QED BY <1>1, <1>2, <1>3, <1>4, <1>5 DEF Next

----------------------------------------------------------------------------
(* Whatever statement fails or worker crashes, and however the workers      *)
(* interleave with each other and with the clients that go on posting: what *)
(* a worker still has to write is accounted for by the statement it is at   *)
(* (RevengeFlag and Overtrading of internal/metrics).                       *)
THEOREM RowsCorrect == Spec => []Inv
BY InitInv, NextInv, PTL DEF Spec

(* Type correctness; no event is delivered more often than the dead-letter  *)
(* rule of handle (worker.go) allows.                                       *)
THEOREM TypeCorrect == Spec => []TypeOK
<1>1. Inv => TypeOK
  BY DEF Inv
<1> QED BY <1>1, RowsCorrect, PTL

(* RevengeFlag.Compute flags only revenge trades, and a trade that is one   *)
(* by what was stored before it is flagged once its event is processed.     *)
THEOREM FlagCorrect == Spec => []FlagExact
<1>1. Inv => FlagExact
  <2> SUFFICES ASSUME Inv, NEW t \in Rows
               PROVE  /\ t \in flags => Rash(t, Rows)
                      /\ event[t] = "done" /\ Rash(t, UpTo(t)) => t \in flags
    BY DEF FlagExact
  <2> QED BY DEF Inv, FlagInv, Passed, Due
<1> QED BY <1>1, RowsCorrect, PTL

(* revenge_trades_count misses no trade RevengeFlag.Compute had to flag     *)
(* once its event is processed, whichever statement failed on the way.      *)
THEOREM RevengeCorrect == Spec => []RevengeCovers
<1>1. Inv => RevengeCovers
  <2> SUFFICES ASSUME Inv, NEW u \in Users
               PROVE  revenge[u] >= Cardinality({t \in Rows : /\ event[t] = "done" /\ User(t) = u
                                                              /\ Rash(t, UpTo(t))})
    BY DEF RevengeCovers
  <2> DEFINE settled == {t \in Rows : event[t] = "done" /\ User(t) = u /\ Rash(t, UpTo(t))}
  <2>1. settled \subseteq RevengeDue(u)
    BY DEF RevengeDue, Due, Passed
  <2>2. IsFiniteSet(RevengeDue(u)) /\ Cardinality(RevengeDue(u)) <= revenge[u] /\ revenge[u] \in Nat
    BY FS_Subset DEF RevengeDue, Inv, TypeOK, JobInv, RevengeInv
  <2> HIDE DEF settled
  <2>3. IsFiniteSet(settled) /\ Cardinality(settled) <= Cardinality(RevengeDue(u))
    BY <2>1, <2>2, FS_Subset
  <2>4. Cardinality(settled) \in Nat /\ Cardinality(RevengeDue(u)) \in Nat
    BY <2>2, <2>3, FS_CardinalityType
  <2>5. revenge[u] >= Cardinality(settled)
    BY <2>2, <2>3, <2>4
  <2> QED BY <2>5 DEF settled
<1> QED BY <1>1, RowsCorrect, PTL

(* Overtrading.Compute records an incident only for a window with more      *)
(* trades than the limit.                                                   *)
THEOREM IncidentsCorrect == Spec => []IncidentsReal
<1>1. Inv => IncidentsReal
  BY DEF Inv, IncidentInv, IncidentsReal, Excess
<1> QED BY <1>1, RowsCorrect, PTL

(* overtrading_events_count is never ahead of the rows Overtrading.Compute  *)
(* has recorded: each increment has a row that no other increment counts.   *)
THEOREM CounterCorrect == Spec => []CounterNotAhead
<1>1. Inv => CounterNotAhead
  <2> SUFFICES ASSUME Inv, NEW u \in Users
               PROVE  overtrading[u] <= Cardinality(IncidentsOf(u))
    BY DEF CounterNotAhead
  <2>1. /\ IsFiniteSet(Tallying(u)) /\ IsFiniteSet(IncidentsOf(u)) /\ overtrading[u] \in Nat
        /\ overtrading[u] + Cardinality(Tallying(u)) <= Cardinality(IncidentsOf(u))
    BY DEF Inv, CounterInv, TypeOK
  <2>2. Cardinality(Tallying(u)) \in Nat /\ Cardinality(IncidentsOf(u)) \in Nat
    BY <2>1, FS_CardinalityType
  <2> QED BY <2>1, <2>2
<1> QED BY <1>1, RowsCorrect, PTL

(* A spike stored with or before the trade that completes it is covered by  *)
(* an incident once the trade's event is processed (Overtrading.Compute).   *)
THEOREM SpikesCorrect == Spec => []SpikesDetected
<1>1. Inv => SpikesDetected
  BY DEF Inv, SpikeInv, SpikesDetected, Excess, Passed
<1> QED BY <1>1, RowsCorrect, PTL
=============================================================================
