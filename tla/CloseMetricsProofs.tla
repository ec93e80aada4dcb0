------------------------- MODULE CloseMetricsProofs -------------------------
(***************************************************************************)
(* Proofs about the metrics of closed trades, for any number of workers,   *)
(* trades, users and sessions, deliveries and faults.                      *)
(***************************************************************************)
EXTENDS CloseMetrics, FiniteSetTheorems, WellFoundedInduction, TLAPS

(* The stages after each calculator.                                        *)
AfterPlan == {"win", "snapshot", "tilt", "verdict"}
AfterWin  == {"snapshot", "tilt", "verdict"}
AfterTilt == {"verdict"}

(* The calculator before the stages A has succeeded for t: its event has    *)
(* been processed, or a worker is past it without an error so far.          *)
Covered(A, t) == \/ event[t] = "done"
                 \/ \E w \in Workers : job[w] = t /\ ~failed[w] /\ at[w] \in A

JobInv == /\ IsFiniteSet(stored)
          /\ \A w \in Workers : job[w] = None <=> at[w] = "idle"
          /\ \A t \in Trades : event[t] # "none" => t \in stored

----------------------------------------------------------------------------
(* PlanAdherence.                                                           *)

LatestIn(R) == {t \in R : Cardinality({x \in R : Data[x].exit > Data[t].exit}) < Rolling}

(* score is the one of some of the rated trades, the covered among them.    *)
Scored(rated, covered, score) ==
    \E R \in SUBSET rated : score = LatestIn(R) /\ covered \subseteq R

PlanCovered(u) == {t \in Rated(u) : Covered(AfterPlan, t)}

Own(w) == {t \in {job[w]} : Data[t].rated}

(* What a worker that is not behind will write, and what was last written   *)
(* by such a worker, takes all covered trades into account.                 *)
PlanRead ==
    \A w \in Workers :
        at[w] = "score" /\ w \notin behind =>
            Scored(Rated(UserOf(job[w])), PlanCovered(UserOf(job[w])) \cup Own(w), read[w])

PlanTable ==
    \A u \in Users :
        u \notin stale /\ PlanCovered(u) # {} =>
            Scored(Rated(u), PlanCovered(u), scores[u])

----------------------------------------------------------------------------
(* SessionTilt.                                                             *)

Tilted(closed, covered, tilt) ==
    \E R \in SUBSET closed : tilt = Tilt(R) /\ covered \subseteq R

TiltCovered(s) == {t \in Closed(s) : Covered(AfterTilt, t)}

TiltRead ==
    \A w \in Workers :
        at[w] = "tilt" =>
            /\ job[w] \in read[w] /\ read[w] \subseteq Closed(SessionOf(job[w]))
            /\ w \notin behind => TiltCovered(SessionOf(job[w])) \subseteq read[w]

TiltTable ==
    \A s \in Sessions :
        s \notin stale /\ TiltCovered(s) # {} => Tilted(Closed(s), TiltCovered(s), tilts[s])

(* Of two trades with different users in a session, one has not passed the  *)
(* tilt statement, nor will it: whoever handles it has seen, or is yet to   *)
(* see, the other one.                                                      *)
Refused(t, x) == /\ ~Covered(AfterTilt, t)
                 /\ \A w \in Workers : job[w] = t /\ at[w] = "tilt" => x \in read[w]

MixedInv ==
    \A t, x \in stored :
        SessionOf(t) = SessionOf(x) /\ UserOf(t) # UserOf(x) => Refused(t, x) \/ Refused(x, t)

----------------------------------------------------------------------------
(* WinRateByEmotion.                                                        *)

WinCovered(k) == {t \in stored : KeyOf(t) = k /\ Covered(AfterWin, t)}

WinInv == \A k \in Keys : Cardinality(WinCovered(k)) <= tally[k]

Inv == TypeOK /\ JobInv /\ PlanRead /\ PlanTable /\ TiltRead /\ TiltTable /\ MixedInv /\ WinInv

----------------------------------------------------------------------------
(* Rows and sets of them.                                                   *)

LEMMA TiltType ==
    ASSUME NEW S, IsFiniteSet(S), NEW R \in SUBSET S
    PROVE  Tilt(R) \in [total : 0 .. Cardinality(S), following : 0 .. Cardinality(S)]
<1>1. AfterLoss(R) \in SUBSET S
  BY DEF AfterLoss
<1>2. IsFiniteSet(R) /\ Cardinality(R) <= Cardinality(S)
      /\ IsFiniteSet(AfterLoss(R)) /\ Cardinality(AfterLoss(R)) <= Cardinality(S)
  BY <1>1, FS_Subset
<1>3. Cardinality(S) \in Nat /\ Cardinality(R) \in Nat /\ Cardinality(AfterLoss(R)) \in Nat
  BY <1>2, FS_CardinalityType
<1> QED BY <1>2, <1>3 DEF Tilt

LEMMA KeyType ==
    ASSUME NEW t \in Trades, Data[t].emotion # None
    PROVE  KeyOf(t) \in Keys
BY DataAssumption DEF KeyOf, Keys

(* A last element exists, so that the score of some trades is never that of *)
(* none.                                                                    *)
LEMMA LatestExists ==
    ASSUME NEW R \in SUBSET Trades, IsFiniteSet(R), R # {}
    PROVE  LatestIn(R) # {}
<1> DEFINE Above(t) == {x \in R : Data[x].exit > Data[t].exit}
           Aboves == {Above(t) : t \in R}
<1>1. \A t \in R : Data[t].exit \in Nat
  BY DataAssumption
<1>2. Aboves \subseteq FiniteSubsetsOf(R) /\ Aboves # {}
  <2>1. ASSUME NEW t \in R PROVE Above(t) \in FiniteSubsetsOf(R)
    <3>1. Above(t) \in SUBSET R
      OBVIOUS
    <3> HIDE DEF Above
    <3> QED BY <3>1, FS_Subset DEF FiniteSubsetsOf
  <2> HIDE DEF Above
  <2> QED BY <2>1
<1>3. IsWellFoundedOn(StrictSubsetOrdering(R), FiniteSubsetsOf(R))
  BY FS_StrictSubsetOrderingWellFounded
<1>4. PICK M \in Aboves : \A N \in Aboves : ~(<<N, M>> \in StrictSubsetOrdering(R))
  <2> HIDE DEF Aboves
  <2> QED BY <1>2, <1>3, WFMin
<1>5. PICK t \in R : M = Above(t)
  OBVIOUS
<1>6. M = {}
  <2> SUFFICES ASSUME NEW x \in M PROVE FALSE
    OBVIOUS
  <2>1. x \in R /\ Data[x].exit > Data[t].exit
    BY <1>5
  <2>2. Above(x) \subseteq M
    BY <1>1, <1>5, <2>1
  <2>3. x \notin Above(x)
    BY <1>1, <2>1
  <2>4. Above(x) \in Aboves /\ Above(x) # M
    BY <2>1, <2>3
  <2>5. <<Above(x), M>> \in StrictSubsetOrdering(R)
    <3>1. Above(x) \in SUBSET R /\ M \in SUBSET R
      BY <1>5
    <3> HIDE DEF Above
    <3> QED BY <2>2, <2>4, <3>1 DEF StrictSubsetOrdering
  <2> HIDE DEF Above, Aboves
  <2> QED BY <1>4, <2>4, <2>5
<1>7. Cardinality(Above(t)) = 0
  BY <1>5, <1>6, FS_EmptySet
<1> QED BY <1>7, BoundsAssumption DEF LatestIn

----------------------------------------------------------------------------
(* Types, jobs and events.                                                  *)

(* A step of worker w leaves the others where they are.                     *)
Others(w) == \A x \in Workers \ {w} : /\ job'[x] = job[x] /\ at'[x] = at[x]
                                      /\ failed'[x] = failed[x] /\ read'[x] = read[x]

LEMMA InitType == Init => TypeOK /\ JobInv
<1> SUFFICES ASSUME Init PROVE TypeOK /\ JobInv
  OBVIOUS
<1>1. JobInv
  BY FS_EmptySet DEF Init, JobInv
<1> QED BY <1>1, BoundsAssumption DEF Init, TypeOK, Stages

LEMMA StoreType == ASSUME TypeOK, JobInv, NEW t \in Trades, Store(t) PROVE TypeOK' /\ JobInv'
<1>1. /\ stored' = stored \cup {t} /\ event' = [event EXCEPT ![t] = "live"]
      /\ UNCHANGED <<deliveries, jobVars, faults, tables, history>>
  BY DEF Store
<1>2. IsFiniteSet(stored') /\ Cardinality(stored) <= Cardinality(stored')
  BY <1>1, FS_AddElement, FS_Subset DEF JobInv
<1>3. Cardinality(stored) \in Nat /\ Cardinality(stored') \in Nat
  BY <1>2, FS_CardinalityType DEF JobInv
<1>4. ASSUME NEW s \in Sessions
      PROVE  tilts'[s] \in {None} \cup [total : 0 .. Cardinality(stored'),
                                         following : 0 .. Cardinality(stored')]
  <2>1. 0 .. Cardinality(stored) \subseteq 0 .. Cardinality(stored')
    BY <1>2, <1>3
  <2>2. tilts[s] \in {None} \cup [total : 0 .. Cardinality(stored),
                                  following : 0 .. Cardinality(stored)]
    BY DEF TypeOK
  <2> QED BY <1>1, <2>1, <2>2 DEF tables
<1>5. tilts' \in [Sessions -> {None} \cup [total : 0 .. Cardinality(stored'),
                                           following : 0 .. Cardinality(stored')]]
  BY <1>1, <1>4 DEF tables, TypeOK
<1>6. JobInv'
  BY <1>1, <1>2 DEF JobInv, TypeOK, jobVars
<1>7. /\ stored' \in SUBSET Trades
      /\ event' \in [Trades -> {"none", "live", "done", "dead"}]
      /\ job' \in [Workers -> stored' \cup {None}]
      /\ read' \in [Workers -> SUBSET stored']
      /\ scores' \in [Users -> SUBSET stored']
  BY <1>1 DEF TypeOK, jobVars, tables
<1> QED BY <1>1, <1>5, <1>6, <1>7 DEF TypeOK, jobVars, tables, history

LEMMA TakeType ==
    ASSUME TypeOK, JobInv, NEW w \in Workers, NEW t \in Trades, Take(w, t)
    PROVE  TypeOK' /\ JobInv' /\ Others(w)
<1>1. /\ deliveries' \in [Trades -> 0 .. MaxDeliveries]
      /\ t \in stored /\ t # None
  BY BoundsAssumption, DataAssumption DEF Take, TypeOK, JobInv
<1> QED BY <1>1 DEF Take, TypeOK, JobInv, Others, Stages, tables, history

LEMMA DeadLetterType ==
    ASSUME TypeOK, JobInv, NEW t \in Trades, DeadLetter(t) PROVE TypeOK' /\ JobInv'
BY DEF DeadLetter, TypeOK, JobInv, jobVars, tables, history

(* A worker is through with its job.                                        *)
LEMMA ReleaseType ==
    ASSUME TypeOK, JobInv, NEW w \in Workers, Release(w),
           \/ UNCHANGED event
           \/ job[w] # None /\ event' = [event EXCEPT ![job[w]] = "done"],
           UNCHANGED <<stored, deliveries, faults, tables>>
    PROVE  TypeOK' /\ JobInv' /\ Others(w)
<1>1. /\ job' \in [Workers -> stored \cup {None}] /\ at' \in [Workers -> Stages]
      /\ read' \in [Workers -> SUBSET stored] /\ failed' \in [Workers -> BOOLEAN]
      /\ behind' \in SUBSET Workers /\ stale' = stale
  BY DEF Release, Forget, TypeOK, Stages
<1>2. /\ event' \in [Trades -> {"none", "live", "done", "dead"}]
      /\ \A t \in Trades : event'[t] # "none" => t \in stored
  BY DEF TypeOK, JobInv
<1>3. JobInv'
  BY <1>2 DEF JobInv, Release, TypeOK
<1>4. Others(w)
  BY DEF Others, Release, TypeOK
<1> QED BY <1>1, <1>2, <1>3, <1>4 DEF TypeOK, tables

(* A step to another stage of the job.                                      *)
LEMMA StageType ==
    ASSUME TypeOK, JobInv, NEW w \in Workers, at[w] # "idle",
           NEW next \in Stages \ {"idle"}, Pass(w, next) \/ Fail(w, next),
           UNCHANGED <<stored, event, job>>
    PROVE  /\ at' \in [Workers -> Stages] /\ failed' \in [Workers -> BOOLEAN]
           /\ at'[w] = next /\ (failed[w] => failed'[w])
           /\ \A x \in Workers \ {w} : at'[x] = at[x] /\ failed'[x] = failed[x]
           /\ job[w] \in stored /\ job[w] \in Trades /\ JobInv'
<1>1. /\ at' = [at EXCEPT ![w] = next]
      /\ failed' = failed \/ failed' = [failed EXCEPT ![w] = TRUE]
  BY DEF Pass, Fail
<1>2. /\ at' \in [Workers -> Stages] /\ failed' \in [Workers -> BOOLEAN]
      /\ at'[w] = next /\ (failed[w] => failed'[w])
      /\ \A x \in Workers \ {w} : at'[x] = at[x] /\ failed'[x] = failed[x]
  BY <1>1 DEF TypeOK
<1>3. job[w] \in stored /\ job[w] \in Trades
  BY DEF TypeOK, JobInv
<1>4. JobInv'
  BY <1>2 DEF JobInv
<1> QED BY <1>2, <1>3, <1>4

----------------------------------------------------------------------------
(* What is covered, and what follows while nothing more is.                 *)

(* Only the job of the worker that takes a step can come to be covered.     *)
LEMMA CoveredStep ==
    ASSUME NEW A, NEW w \in Workers, Others(w),
           \/ job'[w] = job[w] /\ (failed[w] => failed'[w])
           \/ at'[w] \notin A,
           NEW t, event'[t] = "done" => Covered(A, t), Covered(A, t)'
    PROVE  \/ Covered(A, t)
           \/ t = job[w] /\ ~failed'[w] /\ at'[w] \in A /\ at[w] \notin A
<1>1. CASE event'[t] = "done"
  BY <1>1
<1>2. CASE event'[t] # "done"
  <2>1. PICK x \in Workers : job'[x] = t /\ ~failed'[x] /\ at'[x] \in A
    BY <1>2 DEF Covered
  <2>2. CASE x # w
    BY <2>1, <2>2 DEF Covered, Others
  <2>3. CASE x = w
    BY <2>1, <2>3 DEF Covered
  <2> QED BY <2>2, <2>3
<1> QED BY <1>1, <1>2

LEMMA CoveredJob ==
    ASSUME NEW A, NEW w \in Workers, Others(w), job'[w] = job[w] /\ (failed[w] => failed'[w]),
           NEW t, event'[t] = "done" => Covered(A, t), Covered(A, t)'
    PROVE  Covered(A, t) \/ (t = job[w] /\ ~failed'[w])
BY CoveredStep

(* The covered trades of each row of the tables stay the same or get fewer. *)
Quiet == /\ \A u \in Users : PlanCovered(u)' \subseteq PlanCovered(u)
         /\ \A s \in Sessions : TiltCovered(s)' \subseteq TiltCovered(s)
         /\ \A k \in Keys : WinCovered(k)' \subseteq WinCovered(k)

LEMMA QuietStep ==
    ASSUME TypeOK, UNCHANGED stored, 
           \A t \in Trades : Covered(AfterPlan, t)' => Covered(AfterPlan, t),
           \A t \in Trades : Covered(AfterWin, t)' => Covered(AfterWin, t),
           \A t \in Trades : Covered(AfterTilt, t)' => Covered(AfterTilt, t)
    PROVE  Quiet
BY DEF Quiet, PlanCovered, TiltCovered, WinCovered, Rated, Closed, TypeOK

LEMMA ScoredWeaker ==
    ASSUME NEW rated, NEW covered, NEW score, Scored(rated, covered, score),
           NEW more, rated \subseteq more, NEW less, less \subseteq covered
    PROVE  Scored(more, less, score)
BY DEF Scored

LEMMA TiltedWeaker ==
    ASSUME NEW closed, NEW covered, NEW tilt, Tilted(closed, covered, tilt),
           NEW more, closed \subseteq more, NEW less, less \subseteq covered
    PROVE  Tilted(more, less, tilt)
BY DEF Tilted

LEMMA PlanReadKept ==
    ASSUME PlanRead, stored \subseteq stored',
           NEW w \in Workers, at[w] = "score", w \notin behind, job[w] \in Trades,
           job'[w] = job[w], read'[w] = read[w],
           NEW u, u = UserOf(job[w]), PlanCovered(u)' \subseteq PlanCovered(u)
    PROVE  (at[w] = "score" /\ w \notin behind =>
               Scored(Rated(UserOf(job[w])), PlanCovered(UserOf(job[w])) \cup Own(w), read[w]))'
<1>1. UserOf(job'[w]) = u
  BY DEF UserOf
<1>2. SUFFICES Scored(Rated(u)', PlanCovered(u)' \cup Own(w)', read'[w])
  BY <1>1
<1>3. Scored(Rated(u), PlanCovered(u) \cup Own(w), read[w])
  BY DEF PlanRead
<1>4. Rated(u) \subseteq Rated(u)' /\ Own(w)' = Own(w)
  BY DEF Rated, Own
<1>5. PlanCovered(u)' \cup Own(w)' \subseteq PlanCovered(u) \cup Own(w)
  BY <1>4
<1> QED BY <1>3, <1>4, <1>5, ScoredWeaker

(* A row that is not written to.                                            *)
LEMMA PlanRowKept ==
    ASSUME PlanTable, stored \subseteq stored',
           NEW u \in Users, u \in stale => u \in stale', scores'[u] = scores[u],
           PlanCovered(u)' \subseteq PlanCovered(u)
    PROVE  (u \notin stale /\ PlanCovered(u) # {} =>
               Scored(Rated(u), PlanCovered(u), scores[u]))'
<1>1. SUFFICES ASSUME u \notin stale', PlanCovered(u)' # {}
               PROVE  Scored(Rated(u)', PlanCovered(u)', scores'[u])
  OBVIOUS
<1>2. Scored(Rated(u), PlanCovered(u), scores[u])
  BY <1>1 DEF PlanTable
<1>3. Rated(u) \subseteq Rated(u)'
  BY DEF Rated
<1> QED BY <1>2, <1>3, ScoredWeaker

LEMMA PlanKept ==
    ASSUME PlanRead, PlanTable, stored \subseteq stored',
           \A u \in Users : PlanCovered(u)' \subseteq PlanCovered(u),
           UNCHANGED scores, \A u \in Users : u \in stale => u \in stale',
           \A x \in Workers : at'[x] = "score" /\ x \notin behind' =>
               /\ at[x] = "score" /\ x \notin behind /\ job[x] \in Trades
               /\ job'[x] = job[x] /\ read'[x] = read[x]
    PROVE  PlanRead' /\ PlanTable'
<1>1. PlanRead'
  <2> SUFFICES ASSUME NEW x \in Workers, at'[x] = "score", x \notin behind'
               PROVE  (at[x] = "score" /\ x \notin behind =>
                          Scored(Rated(UserOf(job[x])), PlanCovered(UserOf(job[x])) \cup Own(x),
                                 read[x]))'
    BY DEF PlanRead
  <2>1. PICK u \in Users : u = UserOf(job[x])
    BY DataAssumption DEF UserOf
  <2> QED BY <2>1, PlanReadKept
<1>2. PlanTable'
  <2> SUFFICES ASSUME NEW u \in Users
               PROVE  (u \notin stale /\ PlanCovered(u) # {} =>
                          Scored(Rated(u), PlanCovered(u), scores[u]))'
    BY DEF PlanTable
  <2> QED BY PlanRowKept
<1> QED BY <1>1, <1>2

LEMMA TiltReaderKept ==
    ASSUME TiltRead, stored \subseteq stored',
           NEW x \in Workers, at[x] = "tilt", job[x] \in Trades,
           job'[x] = job[x], read'[x] = read[x],
           NEW s, s = SessionOf(job[x]),
           x \notin behind' => x \notin behind /\ TiltCovered(s)' \subseteq TiltCovered(s)
    PROVE  (/\ job[x] \in read[x] /\ read[x] \subseteq Closed(SessionOf(job[x]))
            /\ x \notin behind => TiltCovered(SessionOf(job[x])) \subseteq read[x])'
<1>1. SessionOf(job'[x]) = s
  BY DEF SessionOf
<1>2. /\ job[x] \in read[x] /\ read[x] \subseteq Closed(s)
      /\ x \notin behind => TiltCovered(s) \subseteq read[x]
  BY DEF TiltRead
<1>3. Closed(s) \subseteq Closed(s)'
  BY DEF Closed
<1> QED BY <1>1, <1>2, <1>3

LEMMA TiltReadKept ==
    ASSUME TiltRead, stored \subseteq stored',
           \A s \in Sessions : TiltCovered(s)' \subseteq TiltCovered(s),
           \A x \in Workers : at'[x] = "tilt" =>
               /\ at[x] = "tilt" /\ (x \in behind => x \in behind') /\ job[x] \in Trades
               /\ job'[x] = job[x] /\ read'[x] = read[x]
    PROVE  TiltRead'
<1> SUFFICES ASSUME NEW x \in Workers, at'[x] = "tilt"
             PROVE  (/\ job[x] \in read[x] /\ read[x] \subseteq Closed(SessionOf(job[x]))
                     /\ x \notin behind => TiltCovered(SessionOf(job[x])) \subseteq read[x])'
  BY DEF TiltRead
<1>1. PICK s \in Sessions : s = SessionOf(job[x])
  BY DataAssumption DEF SessionOf
<1> QED BY <1>1, TiltReaderKept

LEMMA TiltRowKept ==
    ASSUME TiltTable, stored \subseteq stored',
           NEW s \in Sessions, s \in stale => s \in stale', tilts'[s] = tilts[s],
           TiltCovered(s)' \subseteq TiltCovered(s)
    PROVE  (s \notin stale /\ TiltCovered(s) # {} =>
               Tilted(Closed(s), TiltCovered(s), tilts[s]))'
<1>1. SUFFICES ASSUME s \notin stale', TiltCovered(s)' # {}
               PROVE  Tilted(Closed(s)', TiltCovered(s)', tilts'[s])
  OBVIOUS
<1>2. Tilted(Closed(s), TiltCovered(s), tilts[s])
  BY <1>1 DEF TiltTable
<1>3. Closed(s) \subseteq Closed(s)'
  BY DEF Closed
<1> QED BY <1>2, <1>3, TiltedWeaker

LEMMA TiltTableKept ==
    ASSUME TiltTable, stored \subseteq stored', UNCHANGED tilts,
           \A s \in Sessions : s \in stale => s \in stale',
           \A s \in Sessions : TiltCovered(s)' \subseteq TiltCovered(s)
    PROVE  TiltTable'
<1> SUFFICES ASSUME NEW s \in Sessions
             PROVE  (s \notin stale /\ TiltCovered(s) # {} =>
                        Tilted(Closed(s), TiltCovered(s), tilts[s]))'
  BY DEF TiltTable
<1> QED BY TiltRowKept

LEMMA MixedKept ==
    ASSUME MixedInv, 
           \A t \in stored : Covered(AfterTilt, t)' => Covered(AfterTilt, t),
           \A t \in stored' \ stored : /\ ~Covered(AfterTilt, t)'
                                       /\ \A x \in Workers : job'[x] # t,
           \A x \in Workers : at'[x] = "tilt" =>
               \/ at[x] = "tilt" /\ job'[x] = job[x] /\ read[x] \subseteq read'[x]
               \/ Closed(SessionOf(job'[x])) \subseteq read'[x]
    PROVE  MixedInv'
<1> SUFFICES ASSUME NEW t \in stored', NEW x \in stored',
                    SessionOf(t) = SessionOf(x), UserOf(t) # UserOf(x)
             PROVE  Refused(t, x)' \/ Refused(x, t)'
  BY DEF MixedInv
<1>1. CASE t \in stored /\ x \in stored
  <2>1. ASSUME NEW y \in stored, NEW z \in stored, SessionOf(y) = SessionOf(z), Refused(y, z)
        PROVE  Refused(y, z)'
    BY <2>1 DEF Refused, Closed, SessionOf
  <2> QED BY <1>1, <2>1 DEF MixedInv
<1>2. CASE t \notin stored
  BY <1>2 DEF Refused
<1>3. CASE x \notin stored
  BY <1>3 DEF Refused
<1> QED BY <1>1, <1>2, <1>3

LEMMA WinRowKept ==
    ASSUME WinInv, JobInv, TypeOK, NEW k \in Keys, tally[k] <= tally'[k], tally'[k] \in Nat,
           WinCovered(k)' \subseteq WinCovered(k)
    PROVE  Cardinality(WinCovered(k)') <= tally'[k]
<1>1. IsFiniteSet(WinCovered(k))
  BY FS_Subset DEF WinCovered, JobInv
<1>2. IsFiniteSet(WinCovered(k)') /\ Cardinality(WinCovered(k)') <= Cardinality(WinCovered(k))
  BY <1>1, FS_Subset
<1>3. Cardinality(WinCovered(k)) \in Nat /\ Cardinality(WinCovered(k)') \in Nat
  BY <1>1, <1>2, FS_CardinalityType
<1>4. Cardinality(WinCovered(k)) <= tally[k] /\ tally[k] \in Nat
  BY DEF WinInv, TypeOK
<1> QED BY <1>2, <1>3, <1>4

LEMMA WinKept ==
    ASSUME WinInv, JobInv, TypeOK, UNCHANGED tally,
           \A k \in Keys : WinCovered(k)' \subseteq WinCovered(k)
    PROVE  WinInv'
<1> SUFFICES ASSUME NEW k \in Keys PROVE Cardinality(WinCovered(k)') <= tally'[k]
  BY DEF WinInv
<1>1. tally[k] \in Nat /\ tally'[k] = tally[k]
  BY DEF TypeOK
<1>2. tally[k] <= tally'[k] /\ tally'[k] \in Nat
  BY <1>1
<1> QED BY <1>2, WinRowKept

----------------------------------------------------------------------------
(* One step per action.                                                     *)

LEMMA StoreStep == ASSUME Inv, NEW t \in Trades, Store(t) PROVE Inv'
<1>1. /\ t \notin stored /\ stored' = stored \cup {t} /\ event' = [event EXCEPT ![t] = "live"]
      /\ UNCHANGED <<jobVars, faults, tables, history>>
  BY DEF Store
<1>2. TypeOK' /\ JobInv'
  BY StoreType DEF Inv
<1>3. \A x \in Workers : job[x] # t /\ (job[x] # None => job[x] \in Trades)
  BY <1>1, DataAssumption DEF Inv, TypeOK
<1>4. ASSUME NEW A, NEW x \in Trades, Covered(A, x)' PROVE Covered(A, x) /\ x # t
  BY <1>1, <1>3, <1>4 DEF Covered, jobVars, Inv, TypeOK
<1>5. Quiet
  BY <1>1, <1>4 DEF Quiet, PlanCovered, TiltCovered, WinCovered, Rated, Closed, Inv, TypeOK
<1>6. PlanRead' /\ PlanTable'
  BY <1>1, <1>3, <1>5, PlanKept DEF Inv, JobInv, Quiet, jobVars, tables, history
<1>7. TiltRead' /\ TiltTable'
  BY <1>1, <1>3, <1>5, TiltReadKept, TiltTableKept
     DEF Inv, JobInv, Quiet, jobVars, tables, history
<1>8. MixedInv'
  BY <1>1, <1>3, <1>4, MixedKept DEF Inv, TypeOK, jobVars
<1>9. WinInv'
  BY <1>1, <1>5, WinKept DEF Inv, Quiet, tables
<1> QED BY <1>2, <1>6, <1>7, <1>8, <1>9 DEF Inv

(* A worker begins or ends a job.                                           *)
LEMMA TurnStep ==
    ASSUME Inv, NEW w \in Workers, Others(w), TypeOK', JobInv', at'[w] \in {"plan", "idle"},
           UNCHANGED <<stored, faults, tables, stale>>,
           behind' = behind \/ behind' = behind \ {w},
           \A t \in Trades : event'[t] = "done" => event[t] = "done" \/ Covered(AfterTilt, t)
    PROVE  Inv'
<1>1. ASSUME NEW A \in {AfterPlan, AfterWin, AfterTilt}, NEW t \in Trades, Covered(A, t)'
      PROVE  Covered(A, t)
  <2>1. at'[w] \notin A /\ AfterTilt \subseteq A
    BY DEF AfterPlan, AfterWin, AfterTilt
  <2>2. event'[t] = "done" => Covered(A, t)
    BY <2>1 DEF Covered
  <2> QED BY <1>1, <2>1, <2>2, CoveredStep
<1>2. Quiet
  BY <1>1, QuietStep DEF Inv
<1>3. \A x \in Workers : at'[x] \in {"score", "tilt"} =>
          /\ x # w /\ at'[x] = at[x] /\ job'[x] = job[x] /\ read'[x] = read[x]
          /\ job[x] \in Trades
  BY DEF Others, Inv, TypeOK, JobInv
<1>4. PlanRead' /\ PlanTable'
  <2>1. \A x \in Workers : at'[x] = "score" /\ x \notin behind' =>
            /\ at[x] = "score" /\ x \notin behind /\ job[x] \in Trades
            /\ job'[x] = job[x] /\ read'[x] = read[x]
    BY <1>3
  <2> QED BY <1>2, <2>1, PlanKept DEF Inv, Quiet, tables
<1>5. TiltRead' /\ TiltTable'
  <2>1. \A x \in Workers : at'[x] = "tilt" =>
            /\ at[x] = "tilt" /\ (x \in behind => x \in behind') /\ job[x] \in Trades
            /\ job'[x] = job[x] /\ read'[x] = read[x]
    BY <1>3
  <2> QED BY <1>2, <2>1, TiltReadKept, TiltTableKept DEF Inv, Quiet, tables
<1>6. MixedInv'
  BY <1>1, <1>3, MixedKept DEF Inv, TypeOK
<1>7. WinInv'
  BY <1>2, WinKept DEF Inv, Quiet, tables
<1> QED BY <1>4, <1>5, <1>6, <1>7 DEF Inv

LEMMA TakeStep ==
    ASSUME Inv, NEW w \in Workers, NEW t \in Trades, Take(w, t) PROVE Inv'
<1>1. TypeOK' /\ JobInv' /\ Others(w)
  BY TakeType DEF Inv
<1>2. /\ at'[w] \in {"plan", "idle"} /\ UNCHANGED <<stored, faults, tables, stale>>
      /\ behind' = behind /\ event' = event
  BY DEF Take, history, Inv, TypeOK
<1> QED BY <1>1, <1>2, TurnStep

LEMMA VerdictStep == ASSUME Inv, NEW w \in Workers, Verdict(w) PROVE Inv'
<1>1. at[w] = "verdict" /\ Release(w) /\ UNCHANGED <<stored, deliveries, faults, tables>>
  BY DEF Verdict
<1>2. job[w] # None /\ job[w] \in Trades
  BY <1>1 DEF Inv, TypeOK, JobInv
<1>3. \/ UNCHANGED event
      \/ ~failed[w] /\ event' = [event EXCEPT ![job[w]] = "done"]
  BY DEF Verdict
<1>4. TypeOK' /\ JobInv' /\ Others(w)
  BY <1>1, <1>2, <1>3, ReleaseType DEF Inv
<1>5. at'[w] = "idle" /\ behind' = behind \ {w} /\ stale' = stale
  BY <1>1 DEF Release, Forget, Inv, TypeOK
<1>6. \A t \in Trades : event'[t] = "done" => event[t] = "done" \/ Covered(AfterTilt, t)
  BY <1>1, <1>2, <1>3 DEF Covered, AfterTilt, Inv, TypeOK
<1> QED BY <1>1, <1>4, <1>5, <1>6, TurnStep

LEMMA CrashStep == ASSUME Inv, NEW w \in Workers, Crash(w) PROVE Inv'
<1>1. Release(w) /\ UNCHANGED <<stored, event, deliveries, faults, tables>>
  BY DEF Crash
<1>2. TypeOK' /\ JobInv' /\ Others(w)
  BY <1>1, ReleaseType DEF Inv
<1>3. at'[w] = "idle" /\ behind' = behind \ {w} /\ stale' = stale
  BY <1>1 DEF Release, Forget, Inv, TypeOK
<1> QED BY <1>1, <1>2, <1>3, TurnStep

LEMMA DeadLetterStep == ASSUME Inv, NEW t \in Trades, DeadLetter(t) PROVE Inv'
<1>1. /\ event[t] = "live" /\ event' = [event EXCEPT ![t] = "dead"]
      /\ UNCHANGED <<stored, jobVars, faults, tables, history>>
  BY DEF DeadLetter
<1>2. TypeOK' /\ JobInv'
  BY DeadLetterType DEF Inv
<1>3. ASSUME NEW A, NEW x \in Trades, Covered(A, x)' PROVE Covered(A, x)
  BY <1>1, <1>3 DEF Covered, jobVars, Inv, TypeOK
<1>4. Quiet
  BY <1>1, <1>3, QuietStep DEF Inv
<1>5. \A x \in Workers : at[x] # "idle" => job[x] \in Trades
  BY DEF Inv, TypeOK, JobInv
<1>6. PlanRead' /\ PlanTable'
  BY <1>1, <1>4, <1>5, PlanKept DEF Inv, Quiet, jobVars, tables, history
<1>7. TiltRead' /\ TiltTable'
  BY <1>1, <1>4, <1>5, TiltReadKept, TiltTableKept DEF Inv, Quiet, jobVars, tables, history
<1>8. MixedInv'
  BY <1>1, <1>3, MixedKept DEF Inv, TypeOK, jobVars
<1>9. WinInv'
  BY <1>1, <1>4, WinKept DEF Inv, Quiet, tables
<1> QED BY <1>2, <1>6, <1>7, <1>8, <1>9 DEF Inv

(* The steps of PlanAdherence leave the rest alone.                         *)
LEMMA PlanAside ==
    ASSUME Inv, NEW w \in Workers, Others(w), UNCHANGED <<stored, event, job, tally, tilts>>,
           at[w] \in {"plan", "score"}, at'[w] \in {"score", "win"}, failed[w] => failed'[w],
           \A s \in Sessions : s \in stale => s \in stale',
           \A x \in Workers \ {w} : x \in behind => x \in behind'
    PROVE  TiltRead' /\ TiltTable' /\ MixedInv' /\ WinInv'
<1>1. ASSUME NEW A \in {AfterWin, AfterTilt}, NEW t \in Trades, Covered(A, t)'
      PROVE  Covered(A, t)
  <2>1. at'[w] \notin A
    BY DEF AfterWin, AfterTilt
  <2>2. event'[t] = "done" => Covered(A, t)
    BY DEF Covered
  <2> QED BY <1>1, <2>1, <2>2, CoveredStep
<1>2. /\ \A s \in Sessions : TiltCovered(s)' \subseteq TiltCovered(s)
      /\ \A k \in Keys : WinCovered(k)' \subseteq WinCovered(k)
  BY <1>1 DEF TiltCovered, WinCovered, Closed, Inv, TypeOK
<1>3. \A x \in Workers : at'[x] = "tilt" =>
          /\ at[x] = "tilt" /\ (x \in behind => x \in behind') /\ job[x] \in Trades
          /\ job'[x] = job[x] /\ read'[x] = read[x]
  BY DEF Others, Inv, TypeOK, JobInv
<1>4. TiltRead' /\ TiltTable'
  BY <1>2, <1>3, TiltReadKept, TiltTableKept DEF Inv
<1>5. MixedInv'
  BY <1>1, <1>3, MixedKept DEF Inv, TypeOK
<1>6. WinInv'
  BY <1>2, WinKept DEF Inv
<1> QED BY <1>4, <1>5, <1>6

(* What the query leaves, however much of its result has arrived.           *)
LEMMA AveragedType ==
    ASSUME Inv, NEW w \in Workers, at[w] = "plan", NEW S \in SUBSET stored, Averaged(w, S),
           UNCHANGED <<stored, event, deliveries, job, tables>>, faults' \in 0 .. MaxFaults,
           behind' \in SUBSET Workers, stale' \in SUBSET (Users \cup Sessions)
    PROVE  /\ TypeOK' /\ JobInv' /\ Others(w) /\ failed' = failed
           /\ read'[w] = S /\ at'[w] = (IF S = {} THEN "win" ELSE "score")
<1> DEFINE next == IF S = {} THEN "win" ELSE "score"
<1>1. /\ read' = [read EXCEPT ![w] = S] /\ Pass(w, next) /\ failed' = failed
  BY DEF Averaged, Pass
<1>2. next \in Stages \ {"idle"}
  BY DEF Stages
<1> HIDE DEF next
<1>3. /\ at' \in [Workers -> Stages] /\ failed' \in [Workers -> BOOLEAN]
      /\ at'[w] = next
      /\ \A x \in Workers \ {w} : at'[x] = at[x] /\ failed'[x] = failed[x]
      /\ JobInv'
  BY <1>1, <1>2, StageType DEF Inv
<1>4. TypeOK'
  BY <1>1, <1>3 DEF Inv, TypeOK, tables
<1>5. Others(w) /\ read'[w] = S
  BY <1>1, <1>3 DEF Others, Inv, TypeOK
<1> QED BY <1>1, <1>3, <1>4, <1>5 DEF next

LEMMA PlanQueryStep == ASSUME Inv, NEW w \in Workers, PlanQuery(w) PROVE Inv'
<1> DEFINE u == UserOf(job[w])
<1>1. /\ at[w] = "plan" /\ UNCHANGED <<stored, event, deliveries, job, faults, tables>>
      /\ behind' = behind \ {w} /\ stale' = stale
  BY DEF PlanQuery, Forget
<1>2. job[w] \in stored /\ job[w] \in Trades /\ u \in Users
  BY <1>1, DataAssumption DEF Inv, TypeOK, JobInv, UserOf
<1>3. /\ TypeOK' /\ JobInv' /\ Others(w) /\ behind' = behind \ {w} /\ stale' = stale
      /\ at'[w] \in {"score", "win"} /\ (failed[w] => failed'[w])
      /\ \/ failed'[w] /\ at'[w] = "win"
         \/ /\ read'[w] = LatestIn(Rated(u))
            /\ at'[w] = IF LatestIn(Rated(u)) = {} THEN "win" ELSE "score"
  <2>1. CASE Averaged(w, Latest(u, Rolling))
    <3>1. Latest(u, Rolling) = LatestIn(Rated(u)) /\ Latest(u, Rolling) \in SUBSET stored
      BY DEF Latest, LatestIn, Rated
    <3>2. /\ faults' \in 0 .. MaxFaults
          /\ behind' \in SUBSET Workers /\ stale' \in SUBSET (Users \cup Sessions)
      BY <1>1 DEF Inv, TypeOK
    <3> HIDE DEF u
    <3> QED BY <1>1, <2>1, <3>1, <3>2, AveragedType
  <2>2. CASE Fail(w, "win") /\ UNCHANGED read
    <3>1. "win" \in Stages \ {"idle"}
      BY DEF Stages
    <3>2. /\ at' \in [Workers -> Stages] /\ failed' \in [Workers -> BOOLEAN]
          /\ at'[w] = "win"
          /\ \A x \in Workers \ {w} : at'[x] = at[x] /\ failed'[x] = failed[x]
          /\ JobInv'
      BY <1>1, <2>2, <3>1, StageType DEF Inv
    <3>3. failed'[w]
      BY <2>2 DEF Fail, Inv, TypeOK
    <3>4. TypeOK'
      BY <1>1, <2>2, <3>2 DEF Inv, TypeOK, tables
    <3>5. Others(w)
      BY <1>1, <2>2, <3>2 DEF Others
    <3> QED BY <1>1, <2>2, <3>2, <3>3, <3>4, <3>5
  <2> QED BY <2>1, <2>2 DEF PlanQuery
<1>4. TiltRead' /\ TiltTable' /\ MixedInv' /\ WinInv'
  BY <1>1, <1>3, PlanAside DEF tables
<1>5. ASSUME NEW v \in Users PROVE PlanCovered(v)' \subseteq PlanCovered(v)
  <2> SUFFICES ASSUME NEW t \in PlanCovered(v)' PROVE t \in PlanCovered(v)
    OBVIOUS
  <2>1. t \in Rated(v) /\ t \in Trades /\ Covered(AfterPlan, t)'
    BY <1>1 DEF PlanCovered, Rated, Inv, TypeOK
  <2>2. \/ Covered(AfterPlan, t)
        \/ t = job[w] /\ ~failed'[w] /\ at'[w] \in AfterPlan
    <3>1. event'[t] = "done" => Covered(AfterPlan, t)
      BY <1>1 DEF Covered
    <3> QED BY <1>1, <1>3, <2>1, <3>1, CoveredStep
  <2>3. ~(t = job[w] /\ ~failed'[w] /\ at'[w] \in AfterPlan)
    <3> SUFFICES ASSUME t = job[w], ~failed'[w], at'[w] \in AfterPlan PROVE FALSE
      OBVIOUS
    <3>1. LatestIn(Rated(u)) = {}
      BY <1>3 DEF AfterPlan
    <3>2. t \in Rated(u)
      BY <2>1 DEF Rated, UserOf
    <3>3. Rated(u) \in SUBSET Trades /\ IsFiniteSet(Rated(u))
      BY FS_Subset DEF Rated, Inv, TypeOK, JobInv
    <3> QED BY <3>1, <3>2, <3>3, LatestExists
  <2> QED BY <2>1, <2>2, <2>3 DEF PlanCovered
<1>6. PlanTable'
  <2> SUFFICES ASSUME NEW v \in Users
               PROVE  (v \notin stale /\ PlanCovered(v) # {} =>
                          Scored(Rated(v), PlanCovered(v), scores[v]))'
    BY DEF PlanTable
  <2> QED BY <1>1, <1>3, <1>5, PlanRowKept DEF Inv, tables
<1>7. PlanRead'
  <2> SUFFICES ASSUME NEW x \in Workers, at'[x] = "score", x \notin behind'
               PROVE  (at[x] = "score" /\ x \notin behind =>
                          Scored(Rated(UserOf(job[x])), PlanCovered(UserOf(job[x])) \cup Own(x),
                                 read[x]))'
    BY DEF PlanRead
  <2>1. CASE x # w
    <3>1. at[x] = "score" /\ x \notin behind /\ job'[x] = job[x] /\ read'[x] = read[x]
      BY <1>3, <2>1 DEF Others
    <3>2. job[x] \in Trades
      BY <3>1 DEF Inv, TypeOK, JobInv
    <3>3. PICK v \in Users : v = UserOf(job[x])
      BY <3>2, DataAssumption DEF UserOf
    <3> QED BY <1>1, <1>5, <3>1, <3>2, <3>3, PlanReadKept DEF Inv
  <2>2. CASE x = w
    <3>1. read'[w] = LatestIn(Rated(u))
      BY <1>3, <2>2
    <3>2. Rated(u)' = Rated(u) /\ u' = u
      BY <1>1 DEF Rated, UserOf
    <3>3. PlanCovered(u)' \cup Own(w)' \subseteq Rated(u)
      BY <1>1, <1>2 DEF PlanCovered, Own, Rated, UserOf
    <3>4. Scored(Rated(u), PlanCovered(u)' \cup Own(w)', read'[w])
      BY <3>1, <3>3 DEF Scored
    <3> QED BY <2>2, <3>2, <3>4
  <2> QED BY <2>1, <2>2
<1> QED BY <1>3, <1>4, <1>6, <1>7 DEF Inv

(* With some of the rows the worker is behind; with none the user is stale, *)
(* and so is whatever the other workers have read for the same row.         *)
LEMMA PlanBrokenStep == ASSUME Inv, NEW w \in Workers, PlanBroken(w) PROVE Inv'
<1>1. /\ at[w] = "plan" /\ faults < MaxFaults /\ faults' = faults + 1
      /\ UNCHANGED <<stored, event, deliveries, job, tables>>
  BY DEF PlanBroken
<1>2. faults' \in 0 .. MaxFaults
  BY <1>1, BoundsAssumption DEF Inv, TypeOK
<1>3. PICK u \in Users : u = UserOf(job[w])
  BY <1>1, DataAssumption DEF Inv, TypeOK, JobInv, UserOf
<1>4. PICK n \in 0 .. Rolling - 1 :
          /\ Averaged(w, Latest(u, n))
          /\ IF Latest(u, n) = {} THEN Unwritten(u) ELSE Partial(w)
  BY <1>3 DEF PlanBroken
<1> DEFINE S == Latest(u, n)
<1>5. S \in SUBSET stored
  BY DEF Latest, Rated
<1> HIDE DEF S
<1>6. /\ behind' \in SUBSET Workers /\ stale' \in SUBSET (Users \cup Sessions)
      /\ behind \subseteq behind' /\ stale \subseteq stale'
  BY <1>4 DEF Unwritten, Partial, Inv, TypeOK
<1>7. /\ TypeOK' /\ JobInv' /\ Others(w) /\ failed' = failed
      /\ at'[w] = (IF S = {} THEN "win" ELSE "score")
  BY <1>1, <1>2, <1>4, <1>5, <1>6, AveragedType DEF S
<1>8. TiltRead' /\ TiltTable' /\ MixedInv' /\ WinInv'
  BY <1>1, <1>6, <1>7, PlanAside DEF tables
<1>9. ASSUME NEW v \in Users, v # u \/ S # {}
      PROVE  PlanCovered(v)' \subseteq PlanCovered(v)
  <2> SUFFICES ASSUME NEW t \in PlanCovered(v)' PROVE t \in PlanCovered(v)
    OBVIOUS
  <2>1. t \in Rated(v) /\ t \in Trades /\ Covered(AfterPlan, t)'
    BY <1>1 DEF PlanCovered, Rated, Inv, TypeOK
  <2>2. Covered(AfterPlan, t) \/ (t = job[w] /\ at'[w] \in AfterPlan)
    <3>1. event'[t] = "done" => Covered(AfterPlan, t)
      BY <1>1 DEF Covered
    <3>2. job'[w] = job[w] /\ (failed[w] => failed'[w])
      BY <1>1, <1>7
    <3>3. Others(w)
      BY <1>7
    <3> QED BY <2>1, <3>1, <3>2, <3>3, CoveredStep
  <2>3. ~(t = job[w] /\ at'[w] \in AfterPlan)
    BY <1>3, <1>7, <1>9, <2>1 DEF AfterPlan, Rated, UserOf
  <2> QED BY <2>1, <2>2, <2>3 DEF PlanCovered
<1>10. CASE S # {}
  <2>1. behind' = behind \cup {w} /\ stale' = stale
    BY <1>4, <1>10 DEF Partial, S
  <2>2. \A x \in Workers : at'[x] = "score" /\ x \notin behind' =>
            /\ at[x] = "score" /\ x \notin behind /\ job[x] \in Trades
            /\ job'[x] = job[x] /\ read'[x] = read[x]
    BY <1>7, <2>1 DEF Others, Inv, TypeOK, JobInv
  <2>3. PlanRead' /\ PlanTable'
    BY <1>1, <1>9, <1>10, <2>1, <2>2, PlanKept DEF Inv, tables
  <2> QED BY <1>7, <1>8, <2>3 DEF Inv
<1>11. CASE S = {}
  <2>1. /\ stale' = stale \cup {u}
        /\ behind' = behind \cup {x \in Workers : at[x] = "score" /\ UserOf(job[x]) = u}
    BY <1>4, <1>11 DEF Unwritten, UserOf, S
  <2>2. PlanTable'
    <3> SUFFICES ASSUME NEW v \in Users \ {u}
                 PROVE  (v \notin stale /\ PlanCovered(v) # {} =>
                            Scored(Rated(v), PlanCovered(v), scores[v]))'
      BY <2>1 DEF PlanTable
    <3> QED BY <1>1, <1>6, <1>9, PlanRowKept DEF Inv, tables
  <2>3. PlanRead'
    <3> SUFFICES ASSUME NEW x \in Workers, at'[x] = "score", x \notin behind'
                 PROVE  (at[x] = "score" /\ x \notin behind =>
                            Scored(Rated(UserOf(job[x])), PlanCovered(UserOf(job[x])) \cup Own(x),
                                   read[x]))'
      BY DEF PlanRead
    <3>1. /\ at[x] = "score" /\ x \notin behind /\ UserOf(job[x]) # u
          /\ job'[x] = job[x] /\ read'[x] = read[x]
      BY <1>7, <1>11, <2>1 DEF Others
    <3>2. job[x] \in Trades
      BY <3>1 DEF Inv, TypeOK, JobInv
    <3>3. PICK v \in Users : v = UserOf(job[x])
      BY <3>2, DataAssumption DEF UserOf
    <3> QED BY <1>1, <1>9, <3>1, <3>2, <3>3, PlanReadKept DEF Inv
  <2> QED BY <1>7, <1>8, <2>2, <2>3 DEF Inv
<1> QED BY <1>10, <1>11

(* What is known of a row's other readers once it has been written.         *)
LEMMA WrittenBehind ==
    ASSUME NEW w \in Workers, Written(w, UserOf)
    PROVE  /\ stale' = IF w \in behind THEN stale \cup {UserOf(job[w])}
                                       ELSE stale \ {UserOf(job[w])}
           /\ behind' = (behind \cup {x \in Workers : /\ at[x] = at[w]
                                                      /\ UserOf(job[x]) = UserOf(job[w])}) \ {w}
BY DEF Written

LEMMA WrittenBehindTilt ==
    ASSUME NEW w \in Workers, Written(w, SessionOf)
    PROVE  /\ stale' = IF w \in behind THEN stale \cup {SessionOf(job[w])}
                                       ELSE stale \ {SessionOf(job[w])}
           /\ behind' = (behind \cup {x \in Workers :
                                        /\ at[x] = at[w]
                                        /\ SessionOf(job[x]) = SessionOf(job[w])}) \ {w}
BY DEF Written

LEMMA PlanWriteStep == ASSUME Inv, NEW w \in Workers, PlanWrite(w) PROVE Inv'
<1>1. at[w] = "score" /\ UNCHANGED <<stored, event, deliveries, job, read, faults, tally, tilts>>
  BY DEF PlanWrite
<1>2. job[w] \in stored /\ job[w] \in Trades
  BY <1>1 DEF Inv, TypeOK, JobInv
<1>3. PICK u \in Users : u = UserOf(job[w])
  BY <1>2, DataAssumption DEF UserOf
<1>4. u \notin Sessions
  BY DataAssumption
<1>5. /\ at' \in [Workers -> Stages] /\ failed' \in [Workers -> BOOLEAN]
      /\ at'[w] = "win" /\ (failed[w] => failed'[w])
      /\ \A x \in Workers \ {w} : at'[x] = at[x] /\ failed'[x] = failed[x]
      /\ JobInv'
  <2>1. "win" \in Stages \ {"idle"}
    BY DEF Stages
  <2>2. Pass(w, "win") \/ Fail(w, "win")
    BY DEF PlanWrite
  <2> QED BY <1>1, <2>1, <2>2, StageType DEF Inv
<1>6. Others(w)
  BY <1>1, <1>5 DEF Others
<1>7. ASSUME NEW v \in Users
      PROVE  /\ PlanCovered(v)' \subseteq PlanCovered(v) \cup Own(w)
             /\ v # u \/ failed'[w] => PlanCovered(v)' \subseteq PlanCovered(v)
  <2> SUFFICES ASSUME NEW t \in PlanCovered(v)'
               PROVE  \/ t \in PlanCovered(v)
                      \/ t \in Own(w) /\ v = u /\ ~failed'[w]
    OBVIOUS
  <2>1. t \in Rated(v) /\ t \in Trades /\ Covered(AfterPlan, t)'
    BY <1>1 DEF PlanCovered, Rated, Inv, TypeOK
  <2>2. Covered(AfterPlan, t) \/ (t = job[w] /\ ~failed'[w])
    <3>1. event'[t] = "done" => Covered(AfterPlan, t)
      BY <1>1 DEF Covered
    <3>2. job'[w] = job[w] /\ (failed[w] => failed'[w])
      BY <1>1, <1>5
    <3> QED BY <1>6, <2>1, <3>1, <3>2, CoveredJob, Zenon
  <2> QED BY <1>3, <2>1, <2>2 DEF PlanCovered, Own, Rated, UserOf
<1>8. CASE UNCHANGED scores /\ Forget(w) /\ Fail(w, "win")
  <2>1. TypeOK' /\ failed'[w] /\ behind' = behind \ {w} /\ stale' = stale
    BY <1>1, <1>5, <1>8 DEF Forget, Fail, Inv, TypeOK
  <2>2. TiltRead' /\ TiltTable' /\ MixedInv' /\ WinInv'
    BY <1>1, <1>5, <1>6, <2>1, PlanAside
  <2>3. \A x \in Workers : at'[x] = "score" /\ x \notin behind' =>
            /\ at[x] = "score" /\ x \notin behind /\ job[x] \in Trades
            /\ job'[x] = job[x] /\ read'[x] = read[x]
    BY <1>1, <1>5, <2>1 DEF Inv, TypeOK, JobInv
  <2>4. PlanRead' /\ PlanTable'
    BY <1>1, <1>7, <1>8, <2>1, <2>3, PlanKept DEF Inv
  <2> QED BY <1>5, <2>1, <2>2, <2>4 DEF Inv
<1>9. CASE scores' = [scores EXCEPT ![UserOf(job[w])] = read[w]] /\ Written(w, UserOf)
  <2>1. /\ stale' = IF w \in behind THEN stale \cup {u} ELSE stale \ {u}
        /\ behind' = (behind \cup {x \in Workers : at[x] = "score" /\ UserOf(job[x]) = u}) \ {w}
        /\ scores'[u] = read[w] /\ (\A v \in Users \ {u} : scores'[v] = scores[v])
        /\ scores' \in [Users -> SUBSET stored]
    BY <1>1, <1>3, <1>9, WrittenBehind DEF Inv, TypeOK
  <2>2. TypeOK'
    BY <1>1, <1>5, <2>1 DEF Inv, TypeOK
  <2>3. TiltRead' /\ TiltTable' /\ MixedInv' /\ WinInv'
    BY <1>1, <1>4, <1>5, <1>6, <2>1, PlanAside
  <2>4. PlanTable'
    <3> SUFFICES ASSUME NEW v \in Users
                 PROVE  (v \notin stale /\ PlanCovered(v) # {} =>
                            Scored(Rated(v), PlanCovered(v), scores[v]))'
      BY DEF PlanTable
    <3>1. CASE v # u
      BY <1>1, <1>7, <2>1, <3>1, PlanRowKept DEF Inv
    <3>2. CASE v = u
      <4>1. SUFFICES ASSUME u \notin stale'
                     PROVE  Scored(Rated(u)', PlanCovered(u)', scores'[u])
        BY <3>2
      <4>2. w \notin behind
        BY <2>1, <4>1
      <4>3. Scored(Rated(u), PlanCovered(u) \cup Own(w), read[w])
        BY <1>1, <1>3, <4>1, <4>2 DEF Inv, PlanRead
      <4>4. Rated(u)' = Rated(u)
        BY <1>1 DEF Rated
      <4> QED BY <1>7, <2>1, <4>3, <4>4, ScoredWeaker
    <3> QED BY <3>1, <3>2
  <2>5. PlanRead'
    <3> SUFFICES ASSUME NEW x \in Workers, at'[x] = "score", x \notin behind'
                 PROVE  (at[x] = "score" /\ x \notin behind =>
                            Scored(Rated(UserOf(job[x])), PlanCovered(UserOf(job[x])) \cup Own(x),
                                   read[x]))'
      BY DEF PlanRead
    <3>1. x # w /\ at[x] = "score" /\ x \notin behind /\ UserOf(job[x]) # u
      BY <1>5, <2>1
    <3>2. job[x] \in Trades
      BY <3>1 DEF Inv, TypeOK, JobInv
    <3>3. PICK v \in Users : v = UserOf(job[x])
      BY <3>2, DataAssumption DEF UserOf
    <3> QED BY <1>1, <1>7, <3>1, <3>2, <3>3, PlanReadKept DEF Inv
  <2> QED BY <1>5, <2>2, <2>3, <2>4, <2>5 DEF Inv
<1> QED BY <1>8, <1>9 DEF PlanWrite

LEMMA WinRateStep == ASSUME Inv, NEW w \in Workers, WinRate(w) PROVE Inv'
<1>1. /\ at[w] = "win"
      /\ UNCHANGED <<stored, event, deliveries, job, read, faults, scores, tilts, history>>
  BY DEF WinRate
<1>2. job[w] \in stored /\ job[w] \in Trades
  BY <1>1 DEF Inv, TypeOK, JobInv
<1>3. /\ at' \in [Workers -> Stages] /\ failed' \in [Workers -> BOOLEAN]
      /\ at'[w] = "snapshot" /\ (failed[w] => failed'[w])
      /\ \A x \in Workers \ {w} : at'[x] = at[x] /\ failed'[x] = failed[x]
      /\ JobInv'
  <2>1. "snapshot" \in Stages \ {"idle"}
    BY DEF Stages
  <2>2. Pass(w, "snapshot") \/ Fail(w, "snapshot")
    BY DEF WinRate
  <2> QED BY <1>1, <2>1, <2>2, StageType DEF Inv
<1>4. Others(w)
  BY <1>1, <1>3 DEF Others
<1>5. \/ UNCHANGED tally /\ (failed'[w] \/ Data[job[w]].emotion = None)
      \/ Data[job[w]].emotion # None /\ tally' = [tally EXCEPT ![KeyOf(job[w])] = @ + 1]
  <2>1. Fail(w, "snapshot") => failed'[w]
    BY DEF Fail, Inv, TypeOK
  <2> QED BY <2>1 DEF WinRate
<1>6. tally' \in [Keys -> Nat]
  BY <1>2, <1>5, KeyType DEF Inv, TypeOK
<1>7. TypeOK'
  BY <1>1, <1>3, <1>6 DEF Inv, TypeOK, history
<1>8. ASSUME NEW A \in {AfterPlan, AfterTilt}, NEW t \in Trades, Covered(A, t)'
      PROVE  Covered(A, t)
  <2>1. at'[w] \in A => at[w] \in A
    BY <1>1, <1>3 DEF AfterPlan, AfterTilt
  <2>2. event'[t] = "done" => Covered(A, t)
    BY <1>1 DEF Covered
  <2>3. job'[w] = job[w] /\ (failed[w] => failed'[w])
    BY <1>1, <1>3
  <2> QED BY <1>4, <1>8, <2>1, <2>2, <2>3, CoveredStep
<1>9. /\ \A u \in Users : PlanCovered(u)' \subseteq PlanCovered(u)
      /\ \A s \in Sessions : TiltCovered(s)' \subseteq TiltCovered(s)
  BY <1>1, <1>8 DEF PlanCovered, TiltCovered, Rated, Closed, Inv, TypeOK
<1>10. \A x \in Workers : at'[x] \in {"score", "tilt"} =>
           /\ at[x] = at'[x] /\ job[x] \in Trades /\ job'[x] = job[x] /\ read'[x] = read[x]
  BY <1>1, <1>3 DEF Inv, TypeOK, JobInv
<1>11. PlanRead' /\ PlanTable'
  BY <1>1, <1>9, <1>10, PlanKept DEF Inv, history
<1>12. TiltRead' /\ TiltTable'
  BY <1>1, <1>9, <1>10, TiltReadKept, TiltTableKept DEF Inv, history
<1>13. MixedInv'
  BY <1>1, <1>8, <1>10, MixedKept DEF Inv, TypeOK
<1>14. WinInv'
  <2> SUFFICES ASSUME NEW k \in Keys PROVE Cardinality(WinCovered(k)') <= tally'[k]
    BY DEF WinInv
  <2>1. /\ WinCovered(k)' \subseteq WinCovered(k) \cup {job[w]}
        /\ k # KeyOf(job[w]) \/ failed'[w] => WinCovered(k)' \subseteq WinCovered(k)
    <3> SUFFICES ASSUME NEW t \in WinCovered(k)'
                 PROVE  t \in WinCovered(k) \/ (t = job[w] /\ ~failed'[w] /\ k = KeyOf(job[w]))
      OBVIOUS
    <3>1. t \in stored /\ t \in Trades /\ KeyOf(t) = k /\ Covered(AfterWin, t)'
      BY <1>1 DEF WinCovered, KeyOf, Inv, TypeOK
    <3>2. Covered(AfterWin, t) \/ (t = job[w] /\ ~failed'[w])
      <4>1. event'[t] = "done" => Covered(AfterWin, t)
        BY <1>1 DEF Covered
      <4>2. job'[w] = job[w] /\ (failed[w] => failed'[w])
        BY <1>1, <1>3
      <4> QED BY <1>4, <3>1, <4>1, <4>2, CoveredJob, Zenon
    <3> QED BY <3>1, <3>2 DEF WinCovered
  <2>2. tally[k] \in Nat
    BY DEF Inv, TypeOK
  <2>3. CASE tally'[k] = tally[k] /\ WinCovered(k)' \subseteq WinCovered(k)
    <3>1. tally[k] <= tally'[k] /\ tally'[k] \in Nat
      BY <2>2, <2>3
    <3> QED BY <2>3, <3>1, WinRowKept DEF Inv
  <2>4. CASE tally'[k] = tally[k] + 1
    <3>1. IsFiniteSet(WinCovered(k)) /\ Cardinality(WinCovered(k)) <= tally[k]
      BY FS_Subset DEF WinCovered, WinInv, Inv, JobInv
    <3>2. /\ IsFiniteSet(WinCovered(k) \cup {job[w]})
          /\ Cardinality(WinCovered(k) \cup {job[w]}) =
               IF job[w] \in WinCovered(k) THEN Cardinality(WinCovered(k))
                                           ELSE Cardinality(WinCovered(k)) + 1
      BY <3>1, FS_AddElement
    <3>3. /\ IsFiniteSet(WinCovered(k)')
          /\ Cardinality(WinCovered(k)') <= Cardinality(WinCovered(k) \cup {job[w]})
      BY <2>1, <3>2, FS_Subset
    <3>4. Cardinality(WinCovered(k)) \in Nat /\ Cardinality(WinCovered(k)') \in Nat
      BY <3>1, <3>3, FS_CardinalityType
    <3> HIDE DEF WinCovered
    <3> QED BY <2>2, <2>4, <3>1, <3>2, <3>3, <3>4
  <2>5. CASE UNCHANGED tally /\ failed'[w]
    BY <2>1, <2>3, <2>5
  <2>6. CASE UNCHANGED tally /\ Data[job[w]].emotion = None
    <3>1. k # KeyOf(job[w])
      BY <2>6, DataAssumption DEF Keys, KeyOf
    <3> QED BY <2>1, <2>3, <2>6, <3>1
  <2>7. CASE Data[job[w]].emotion # None /\ tally' = [tally EXCEPT ![KeyOf(job[w])] = @ + 1]
    <3>1. tally'[k] = IF k = KeyOf(job[w]) THEN tally[k] + 1 ELSE tally[k]
      BY <2>7 DEF Inv, TypeOK
    <3> QED BY <2>1, <2>3, <2>4, <3>1
  <2> QED BY <1>5, <2>5, <2>6, <2>7
<1> QED BY <1>3, <1>7, <1>11, <1>12, <1>13, <1>14 DEF Inv

(* The steps of SessionTilt leave the rest alone.                           *)
LEMMA TiltAside ==
    ASSUME Inv, NEW w \in Workers, Others(w),
           UNCHANGED <<stored, event, job, faults, scores, tally>>,
           at[w] \in {"snapshot", "tilt"}, at'[w] \in {"tilt", "verdict"}, failed[w] => failed'[w],
           \A u \in Users : u \in stale => u \in stale',
           \A x \in Workers \ {w} : x \in behind => x \in behind'
    PROVE  PlanRead' /\ PlanTable' /\ WinInv'
<1>1. ASSUME NEW A \in {AfterPlan, AfterWin}, NEW t \in Trades, Covered(A, t)'
      PROVE  Covered(A, t)
  <2>1. at[w] \in A
    BY DEF AfterPlan, AfterWin
  <2>2. event'[t] = "done" => Covered(A, t)
    BY DEF Covered
  <2> QED BY <1>1, <2>1, <2>2, CoveredStep
<1>2. /\ \A u \in Users : PlanCovered(u)' \subseteq PlanCovered(u)
      /\ \A k \in Keys : WinCovered(k)' \subseteq WinCovered(k)
  BY <1>1 DEF PlanCovered, WinCovered, Rated, Inv, TypeOK
<1>3. \A x \in Workers : at'[x] = "score" /\ x \notin behind' =>
          /\ at[x] = "score" /\ x \notin behind /\ job[x] \in Trades
          /\ job'[x] = job[x] /\ read'[x] = read[x]
  BY DEF Others, Inv, TypeOK, JobInv
<1>4. PlanRead' /\ PlanTable'
  BY <1>2, <1>3, PlanKept DEF Inv
<1>5. WinInv'
  BY <1>2, WinKept DEF Inv
<1> QED BY <1>4, <1>5

LEMMA TiltSnapshotStep == ASSUME Inv, NEW w \in Workers, TiltSnapshot(w) PROVE Inv'
<1>1. /\ at[w] = "snapshot" /\ read' = [read EXCEPT ![w] = Closed(SessionOf(job[w]))]
      /\ Pass(w, "tilt") /\ behind' = behind \ {w} /\ stale' = stale
      /\ UNCHANGED <<stored, event, deliveries, job, faults, tables>>
  BY DEF TiltSnapshot, Forget
<1>2. job[w] \in stored /\ job[w] \in Trades
  BY <1>1 DEF Inv, TypeOK, JobInv
<1>3. PICK s \in Sessions : s = SessionOf(job[w])
  BY <1>2, DataAssumption DEF SessionOf
<1>4. /\ at' \in [Workers -> Stages] /\ failed' \in [Workers -> BOOLEAN]
      /\ at'[w] = "tilt" /\ (failed[w] => failed'[w])
      /\ \A x \in Workers \ {w} : at'[x] = at[x] /\ failed'[x] = failed[x]
      /\ JobInv'
  <2>1. "tilt" \in Stages \ {"idle"}
    BY DEF Stages
  <2> QED BY <1>1, <2>1, StageType DEF Inv
<1>5. read' \in [Workers -> SUBSET stored] /\ read'[w] = Closed(s) /\ Others(w)
  BY <1>1, <1>3, <1>4 DEF Others, Closed, Inv, TypeOK
<1>6. TypeOK'
  BY <1>1, <1>4, <1>5 DEF Inv, TypeOK, tables
<1>7. PlanRead' /\ PlanTable' /\ WinInv'
  BY <1>1, <1>4, <1>5, TiltAside DEF tables
<1>8. ASSUME NEW t \in Trades, Covered(AfterTilt, t)' PROVE Covered(AfterTilt, t)
  <2>1. at'[w] \notin AfterTilt
    BY <1>4 DEF AfterTilt
  <2>2. event'[t] = "done" => Covered(AfterTilt, t)
    BY <1>1 DEF Covered
  <2> QED BY <1>5, <1>8, <2>1, <2>2, CoveredStep
<1>9. \A v \in Sessions : TiltCovered(v)' \subseteq TiltCovered(v)
  BY <1>1, <1>8 DEF TiltCovered, Closed, Inv, TypeOK
<1>10. TiltTable'
  BY <1>1, <1>9, TiltTableKept DEF Inv, tables
<1>11. TiltRead'
  <2> SUFFICES ASSUME NEW x \in Workers, at'[x] = "tilt"
               PROVE  (/\ job[x] \in read[x] /\ read[x] \subseteq Closed(SessionOf(job[x]))
                       /\ x \notin behind => TiltCovered(SessionOf(job[x])) \subseteq read[x])'
    BY DEF TiltRead
  <2>1. CASE x # w
    <3>1. /\ at[x] = "tilt" /\ job'[x] = job[x] /\ read'[x] = read[x]
          /\ x \notin behind' => x \notin behind
      BY <1>1, <1>5, <2>1 DEF Others
    <3>2. job[x] \in Trades
      BY <3>1 DEF Inv, TypeOK, JobInv
    <3>3. PICK v \in Sessions : v = SessionOf(job[x])
      BY <3>2, DataAssumption DEF SessionOf
    <3> QED BY <1>1, <1>9, <3>1, <3>2, <3>3, TiltReaderKept DEF Inv
  <2>2. CASE x = w
    <3>1. SessionOf(job'[w]) = s /\ Closed(s)' = Closed(s) /\ TiltCovered(s)' \subseteq Closed(s)'
      BY <1>1, <1>3 DEF SessionOf, Closed, TiltCovered
    <3>2. job'[w] \in Closed(s)
      BY <1>1, <1>2, <1>3 DEF Closed, SessionOf
    <3> QED BY <1>5, <2>2, <3>1, <3>2
  <2> QED BY <2>1, <2>2
<1>12. MixedInv'
  <2>1. \A x \in Workers : at'[x] = "tilt" =>
            \/ at[x] = "tilt" /\ job'[x] = job[x] /\ read[x] \subseteq read'[x]
            \/ Closed(SessionOf(job'[x])) \subseteq read'[x]
    BY <1>1, <1>3, <1>5 DEF Others
  <2> QED BY <1>1, <1>8, <2>1, MixedKept DEF Inv, TypeOK
<1> QED BY <1>4, <1>6, <1>7, <1>10, <1>11, <1>12 DEF Inv

(* Trades of one user cannot include two of different users.                *)
LEMMA OneUserSame ==
    ASSUME NEW S, IsFiniteSet(S), OneUser(S), NEW t \in S, NEW x \in S
    PROVE  UserOf(t) = UserOf(x)
<1> DEFINE us == {UserOf(y) : y \in S}
           f == [y \in S |-> UserOf(y)]
<1>1. f \in Surjection(S, us)
  BY DEF Surjection
<1>2. IsFiniteSet(us)
  <2> HIDE DEF us, f
  <2> QED BY <1>1, FS_Surjection
<1>3. Cardinality(us) = 1
  BY DEF OneUser
<1>4. UserOf(t) \in us /\ UserOf(x) \in us
  OBVIOUS
<1> HIDE DEF us
<1> QED BY <1>2, <1>3, <1>4, FS_Singleton

LEMMA TiltWriteStep == ASSUME Inv, NEW w \in Workers, TiltWrite(w) PROVE Inv'
<1>1. at[w] = "tilt" /\ UNCHANGED <<stored, event, deliveries, job, read, faults, scores, tally>>
  BY DEF TiltWrite
<1>2. job[w] \in stored /\ job[w] \in Trades
  BY <1>1 DEF Inv, TypeOK, JobInv
<1>3. PICK s \in Sessions : s = SessionOf(job[w])
  BY <1>2, DataAssumption DEF SessionOf
<1>4. s \notin Users
  BY DataAssumption
<1>5. /\ at' \in [Workers -> Stages] /\ failed' \in [Workers -> BOOLEAN]
      /\ at'[w] = "verdict" /\ (failed[w] => failed'[w])
      /\ \A x \in Workers \ {w} : at'[x] = at[x] /\ failed'[x] = failed[x]
      /\ JobInv'
  <2>1. "verdict" \in Stages \ {"idle"}
    BY DEF Stages
  <2>2. Pass(w, "verdict") \/ Fail(w, "verdict")
    BY DEF TiltWrite
  <2> QED BY <1>1, <2>1, <2>2, StageType DEF Inv
<1>6. Others(w) /\ job'[w] = job[w]
  BY <1>1, <1>5 DEF Others
<1>7. ASSUME NEW t \in Trades, Covered(AfterTilt, t)'
      PROVE  Covered(AfterTilt, t) \/ (t = job[w] /\ ~failed'[w])
  <2>1. event'[t] = "done" => Covered(AfterTilt, t)
    BY <1>1 DEF Covered
  <2> QED BY <1>5, <1>6, <1>7, <2>1, CoveredJob
<1>8. ASSUME NEW v \in Sessions
      PROVE  /\ TiltCovered(v)' \subseteq TiltCovered(v) \cup {job[w]}
             /\ v # s \/ failed'[w] => TiltCovered(v)' \subseteq TiltCovered(v)
  BY <1>1, <1>3, <1>7 DEF TiltCovered, Closed, SessionOf, Inv, TypeOK
<1>9. /\ job[w] \in read[w] /\ read[w] \subseteq Closed(s) /\ read[w] \subseteq stored
      /\ w \notin behind => TiltCovered(s) \subseteq read[w]
  BY <1>1, <1>3 DEF Inv, TiltRead, TypeOK
<1>10. \A x \in Workers : at'[x] = "tilt" =>
           /\ x # w /\ at[x] = "tilt" /\ job[x] \in Trades
           /\ job'[x] = job[x] /\ read'[x] = read[x]
  BY <1>1, <1>5 DEF Inv, TypeOK, JobInv
<1>11. CASE UNCHANGED tilts /\ Forget(w) /\ Fail(w, "verdict")
  <2>1. TypeOK' /\ failed'[w] /\ behind' = behind \ {w} /\ stale' = stale
    BY <1>1, <1>5, <1>11 DEF Forget, Fail, Inv, TypeOK
  <2>2. PlanRead' /\ PlanTable' /\ WinInv'
    BY <1>1, <1>5, <1>6, <2>1, TiltAside
  <2>3. TiltRead' /\ TiltTable'
    BY <1>1, <1>8, <1>10, <1>11, <2>1, TiltReadKept, TiltTableKept DEF Inv
  <2>4. MixedInv'
    BY <1>1, <1>7, <1>10, <2>1, MixedKept DEF Inv, TypeOK
  <2> QED BY <1>5, <2>1, <2>2, <2>3, <2>4 DEF Inv
<1>12. CASE /\ OneUser(read[w]) /\ Written(w, SessionOf)
            /\ tilts' = [tilts EXCEPT ![SessionOf(job[w])] = Tilt(read[w])]
  <2>1. /\ stale' = IF w \in behind THEN stale \cup {s} ELSE stale \ {s}
        /\ behind' = (behind \cup {x \in Workers : at[x] = "tilt" /\ SessionOf(job[x]) = s}) \ {w}
    BY <1>1, <1>3, <1>12, WrittenBehindTilt
  <2>2. /\ tilts'[s] = Tilt(read[w]) /\ (\A v \in Sessions \ {s} : tilts'[v] = tilts[v])
        /\ tilts' \in [Sessions -> {None} \cup [total : 0 .. Cardinality(stored),
                                                following : 0 .. Cardinality(stored)]]
    <3>1. Tilt(read[w]) \in [total : 0 .. Cardinality(stored), following : 0 .. Cardinality(stored)]
      BY <1>9, TiltType DEF Inv, JobInv
    <3>2. tilts \in [Sessions -> {None} \cup [total : 0 .. Cardinality(stored),
                                              following : 0 .. Cardinality(stored)]]
      BY DEF Inv, TypeOK
    <3> QED BY <1>3, <1>12, <3>1, <3>2
  <2>3. TypeOK'
    <3>1. behind' \in SUBSET Workers /\ stale' \in SUBSET (Users \cup Sessions)
      BY <2>1 DEF Inv, TypeOK
    <3> QED BY <1>1, <1>5, <2>2, <3>1 DEF Inv, TypeOK
  <2>4. PlanRead' /\ PlanTable' /\ WinInv'
    BY <1>1, <1>4, <1>5, <1>6, <2>1, TiltAside
  <2>5. TiltTable'
    <3> SUFFICES ASSUME NEW v \in Sessions
                 PROVE  (v \notin stale /\ TiltCovered(v) # {} =>
                            Tilted(Closed(v), TiltCovered(v), tilts[v]))'
      BY DEF TiltTable
    <3>1. CASE v # s
      BY <1>1, <1>8, <2>1, <2>2, <3>1, TiltRowKept DEF Inv
    <3>2. CASE v = s
      <4>1. SUFFICES ASSUME s \notin stale'
                     PROVE  Tilted(Closed(s)', TiltCovered(s)', tilts'[s])
        BY <3>2
      <4>2. w \notin behind
        BY <2>1, <4>1
      <4>3. TiltCovered(s)' \subseteq read[w] /\ read[w] \in SUBSET Closed(s)
        BY <1>8, <1>9, <4>2
      <4>4. Closed(s)' = Closed(s)
        BY <1>1 DEF Closed
      <4> QED BY <2>2, <4>3, <4>4 DEF Tilted
    <3> QED BY <3>1, <3>2
  <2>6. TiltRead'
    <3> SUFFICES ASSUME NEW x \in Workers, at'[x] = "tilt"
                 PROVE  (/\ job[x] \in read[x] /\ read[x] \subseteq Closed(SessionOf(job[x]))
                         /\ x \notin behind => TiltCovered(SessionOf(job[x])) \subseteq read[x])'
      BY DEF TiltRead
    <3>1. PICK v \in Sessions : v = SessionOf(job[x])
      BY <1>10, DataAssumption DEF SessionOf
    <3>2. x \notin behind' => x \notin behind /\ TiltCovered(v)' \subseteq TiltCovered(v)
      BY <1>8, <1>10, <2>1, <3>1
    <3> QED BY <1>1, <1>10, <3>1, <3>2, TiltReaderKept DEF Inv
  <2>7. MixedInv'
    <3>1. ASSUME NEW t \in stored, NEW x \in stored, UserOf(t) # UserOf(x), Refused(t, x)
          PROVE  Refused(t, x)'
      <4>1. ~(t = job[w])
        <5> SUFFICES ASSUME t = job[w] PROVE FALSE
          OBVIOUS
        <5>1. x \in read[w] /\ t \in read[w]
          BY <1>1, <1>9, <3>1 DEF Refused
        <5>2. IsFiniteSet(read[w])
          BY <1>9, FS_Subset DEF Inv, JobInv
        <5> QED BY <1>12, <3>1, <5>1, <5>2, OneUserSame
      <4>2. t \in Trades
        BY DEF Inv, TypeOK
      <4> QED BY <1>7, <1>10, <3>1, <4>1, <4>2 DEF Refused
    <3> QED BY <1>1, <3>1 DEF Inv, MixedInv, UserOf, SessionOf
  <2> QED BY <1>5, <2>3, <2>4, <2>5, <2>6, <2>7 DEF Inv
<1> QED BY <1>11, <1>12 DEF TiltWrite

----------------------------------------------------------------------------

LEMMA InitInv == Init => Inv
<1> SUFFICES ASSUME Init PROVE Inv
  OBVIOUS
<1>1. TypeOK /\ JobInv
  BY InitType
<1>2. PlanRead /\ PlanTable /\ TiltRead /\ TiltTable /\ MixedInv
  BY DEF Init, PlanRead, PlanTable, PlanCovered, Rated, TiltRead, TiltTable, TiltCovered, Closed,
         MixedInv
<1>3. WinInv
  <2> SUFFICES ASSUME NEW k \in Keys PROVE Cardinality(WinCovered(k)) <= tally[k]
    BY DEF WinInv
  <2>1. WinCovered(k) = {} /\ tally[k] = 0
    BY DEF Init, WinCovered
  <2>2. Cardinality(WinCovered(k)) = 0
    BY <2>1, FS_EmptySet
  <2> QED BY <2>1, <2>2
<1> QED BY <1>1, <1>2, <1>3 DEF Inv

LEMMA StutterInv == ASSUME Inv, UNCHANGED vars PROVE Inv'
BY DEF vars, jobVars, tables, history, Inv, TypeOK, JobInv, PlanRead, PlanTable, PlanCovered, Own,
       Rated, TiltRead, TiltTable, TiltCovered, Closed, MixedInv, Refused, WinInv, WinCovered,
       Covered

LEMMA NextInv == Inv /\ [Next]_vars => Inv'
<1> SUFFICES ASSUME Inv, [Next]_vars PROVE Inv'
  OBVIOUS
<1>1. ASSUME NEW w \in Workers, Calculate(w) PROVE Inv'
  BY <1>1, PlanQueryStep, PlanBrokenStep, PlanWriteStep, WinRateStep, TiltSnapshotStep,
     TiltWriteStep DEF Calculate
<1> QED BY <1>1, StoreStep, DeadLetterStep, TakeStep, VerdictStep, CrashStep, StutterInv DEF Next

(* What workers have read and written, whatever they do to one another,     *)
(* accounts for every trade whose event has been processed.                 *)
THEOREM RowsCorrect == Spec => []Inv
BY InitInv, NextInv, PTL DEF Spec

(* Type correctness, and the bound on deliveries.                           *)
THEOREM TypeCorrect == Spec => []TypeOK
<1>1. Inv => TypeOK
  BY DEF Inv
<1> QED BY <1>1, RowsCorrect, PTL

(* A settled user's score is that of the last Rolling trades, after any     *)
(* failures, crashes, redeliveries and broken result sets, unless the last  *)
(* to handle it had lost rows or read them before another worker's write.   *)
THEOREM PlanCorrect == Spec => []PlanFresh
<1>1. Inv => PlanFresh
  <2> SUFFICES ASSUME Inv, NEW u \in Users \ stale, Rated(u) # {}, Settled(Rated(u))
               PROVE  scores[u] = Latest(u, Rolling)
    BY DEF PlanFresh
  <2>1. PlanCovered(u) = Rated(u)
    BY DEF PlanCovered, Covered, Settled
  <2>2. Scored(Rated(u), Rated(u), scores[u])
    BY <2>1 DEF Inv, PlanTable
  <2>3. scores[u] = LatestIn(Rated(u))
    BY <2>2 DEF Scored
  <2> QED BY <2>3 DEF Latest, LatestIn
<1> QED BY <1>1, RowsCorrect, PTL

(* A settled session's row is the tilt of all its trades, unless the last   *)
(* write came from a snapshot older than another worker's write.            *)
THEOREM TiltCorrect == Spec => []TiltFresh
<1>1. Inv => TiltFresh
  <2> SUFFICES ASSUME Inv, NEW s \in Sessions \ stale, Closed(s) # {}, Settled(Closed(s))
               PROVE  tilts[s] = Tilt(Closed(s))
    BY DEF TiltFresh
  <2>1. TiltCovered(s) = Closed(s)
    BY DEF TiltCovered, Covered, Settled
  <2>2. Tilted(Closed(s), Closed(s), tilts[s])
    BY <2>1 DEF Inv, TiltTable
  <2>3. PICK R \in SUBSET Closed(s) : tilts[s] = Tilt(R) /\ Closed(s) \subseteq R
    BY <2>2 DEF Tilted
  <2>4. R = Closed(s)
    BY <2>3
  <2> QED BY <2>3, <2>4
<1> QED BY <1>1, RowsCorrect, PTL

(* A session that two users share is never settled, stale or not.           *)
THEOREM MixedCorrect == Spec => []MixedNeverSettled
<1>1. Inv => MixedNeverSettled
  <2> SUFFICES ASSUME Inv, NEW s \in Sessions, Closed(s) # {}, Settled(Closed(s))
               PROVE  OneUser(Closed(s))
    BY DEF MixedNeverSettled
  <2>1. PICK c \in Closed(s) : TRUE
    OBVIOUS
  <2>2. ASSUME NEW t \in Closed(s) PROVE UserOf(t) = UserOf(c)
    <3>1. Covered(AfterTilt, t) /\ Covered(AfterTilt, c)
      BY DEF Covered, Settled
    <3>2. t \in stored /\ c \in stored /\ SessionOf(t) = SessionOf(c)
      BY DEF Closed, SessionOf
    <3> QED BY <3>1, <3>2 DEF Inv, MixedInv, Refused
  <2>3. {UserOf(t) : t \in Closed(s)} = {UserOf(c)}
    BY <2>2
  <2> QED BY <2>3, FS_Singleton DEF OneUser
<1> QED BY <1>1, RowsCorrect, PTL

(* No processed trade is missing from the wins and losses.                  *)
THEOREM WinsCorrect == Spec => []WinsCover
<1>1. Inv => WinsCover
  <2> SUFFICES ASSUME Inv, NEW k \in Keys
               PROVE  tally[k] >= Cardinality({t \in stored : event[t] = "done" /\ KeyOf(t) = k})
    BY DEF WinsCover
  <2> DEFINE Done == {t \in stored : event[t] = "done" /\ KeyOf(t) = k}
  <2>1. Done \subseteq WinCovered(k)
    BY DEF WinCovered, Covered
  <2>2. IsFiniteSet(WinCovered(k)) /\ Cardinality(WinCovered(k)) <= tally[k] /\ tally[k] \in Nat
    BY FS_Subset DEF WinCovered, WinInv, Inv, JobInv, TypeOK
  <2> HIDE DEF Done
  <2>3. IsFiniteSet(Done) /\ Cardinality(Done) <= Cardinality(WinCovered(k))
    BY <2>1, <2>2, FS_Subset
  <2>4. Cardinality(Done) \in Nat /\ Cardinality(WinCovered(k)) \in Nat
    BY <2>2, <2>3, FS_CardinalityType
  <2>5. Cardinality(Done) <= tally[k]
    BY <2>2, <2>3, <2>4
  <2> QED BY <2>2, <2>4, <2>5 DEF Done
<1> QED BY <1>1, RowsCorrect, PTL
=============================================================================
