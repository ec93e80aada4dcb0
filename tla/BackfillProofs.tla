---------------------------- MODULE BackfillProofs --------------------------
(***************************************************************************)
(* Proofs about the backfill of revenge flags and counts, scores, tallies, *)
(* tilts and overtrading events, for any contents of table trades, any     *)
(* number of users and any number of starts.                               *)
(***************************************************************************)
EXTENDS Backfill, FiniteSetTheorems, FunctionTheorems, SequenceTheorems,
        WellFoundedInduction, TLAPS

(* The trades the rule calls revenge trades.                                *)
Rash == {t \in trades : /\ t.emotion \in Upset
                        /\ \E x \in Closed \ {t} : /\ x.user = t.user /\ x.outcome = "loss"
                                                   /\ x.exit <= t.entry
                                                   /\ t.entry <= x.exit + Gap}

RashOf(u) == {t \in Rash : t.user = u}

Counted == \A u \in Users : TradesOf(u) # {} => snapshots[u].revenge = Cardinality(RashOf(u))

(* Before the first statement that writes user_metrics, and after it.       *)
Early == {"reset", "flag", "revenge"}
Late  == {"plan", "win", "tilt", "scan", "commit"}

SnapshotRows == [revenge : Nat, score : SUBSET UNION Seeds, spikes : Nat]

(* Every user with trades has a row by then.                                *)
RowsInv == \A u \in Users : /\ snapshots[u] \in SnapshotRows \cup {None}
                            /\ TradesOf(u) # {} => snapshots[u] # None

(* The gate is open until flags and counts are right, and shut from then on.*)
Inv == /\ trades \in Seeds
       /\ at \in Early \cup Late \cup {"down", "skipped", "done"}
       /\ at \in Early => ~HasSnapshots
       /\ at = "flag" => flags = {}
       /\ at = "revenge" => flags = Rash
       /\ at \in Late => flags = Rash /\ Counted /\ RowsInv
       /\ HasSnapshots => flags = Rash /\ Counted

----------------------------------------------------------------------------
(* The query.                                                               *)

(* A set of exits by some time has a largest member.                        *)
LEMMA LargestExists ==
    ASSUME NEW n \in Nat, NEW E \in SUBSET (0 .. n), E # {}
    PROVE  Max(E) \in E /\ \A y \in E : y <= Max(E)
<1> DEFINE Above(z) == {x \in E : x > z}
           Aboves == {Above(z) : z \in E}
<1>1. IsFiniteSet(E) /\ \A x \in E : x \in Nat
  <2>1. IsFiniteSet(0 .. n)
    BY FS_Interval
  <2>2. IsFiniteSet(E)
    BY <2>1, FS_Subset
  <2>3. \A x \in E : x \in Nat
    OBVIOUS
  <2> QED BY <2>2, <2>3
<1>2. Aboves \subseteq FiniteSubsetsOf(E) /\ Aboves # {}
  <2>1. ASSUME NEW z \in E PROVE Above(z) \in FiniteSubsetsOf(E)
    <3>1. Above(z) \in SUBSET E
      OBVIOUS
    <3> HIDE DEF Above
    <3> QED BY <1>1, <3>1, FS_Subset DEF FiniteSubsetsOf
  <2> HIDE DEF Above
  <2> QED BY <2>1
<1>3. IsWellFoundedOn(StrictSubsetOrdering(E), FiniteSubsetsOf(E))
  BY FS_StrictSubsetOrderingWellFounded
<1>4. PICK M \in Aboves : \A N \in Aboves : ~(<<N, M>> \in StrictSubsetOrdering(E))
  <2> HIDE DEF Aboves
  <2> QED BY <1>2, <1>3, WFMin
<1>5. PICK z \in E : M = Above(z)
  OBVIOUS
<1>6. M = {}
  <2> SUFFICES ASSUME NEW x \in M PROVE FALSE
    OBVIOUS
  <2>1. x \in E /\ x > z
    BY <1>5
  <2>2. Above(x) \subseteq M
    <3> SUFFICES ASSUME NEW y \in E, y > x PROVE y > z
      BY <1>5
    <3>1. x \in Nat /\ y \in Nat /\ z \in Nat
      BY <1>1, <2>1
    <3> QED BY <2>1, <3>1
  <2>3. x \notin Above(x)
    BY <1>1, <2>1
  <2>4. Above(x) \in Aboves /\ Above(x) # M
    BY <2>1, <2>3
  <2>5. <<Above(x), M>> \in StrictSubsetOrdering(E)
    <3>1. Above(x) \in SUBSET E /\ M \in SUBSET E
      BY <1>5
    <3> HIDE DEF Above
    <3> QED BY <2>2, <2>4, <3>1 DEF StrictSubsetOrdering
  <2> HIDE DEF Above, Aboves
  <2> QED BY <1>4, <2>4, <2>5
<1>7. \A y \in E : z >= y
  BY <1>1, <1>5, <1>6
<1>8. Max(E) \in E /\ \A y \in E : Max(E) >= y
  BY <1>7 DEF Max
<1> QED BY <1>1, <1>8

(* The correlated MAX finds what any losing close in reach would show.      *)
LEMMA MaxRash ==
    ASSUME trades \in Seeds
    PROVE  {t \in trades : /\ LossExits(t) # {}
                           /\ t.entry <= Max(LossExits(t)) + Gap
                           /\ t.emotion \in Upset} = Rash
<1> SUFFICES ASSUME NEW t \in trades, t.emotion \in Upset
             PROVE  LossExits(t) # {} /\ t.entry <= Max(LossExits(t)) + Gap <=>
                      \E x \in Closed \ {t} : /\ x.user = t.user /\ x.outcome = "loss"
                                              /\ x.exit <= t.entry /\ t.entry <= x.exit + Gap
  BY DEF Rash
<1>1. t.entry \in Nat /\ Gap \in Nat
  BY SeedsAssumption, BoundsAssumption
<1>2. \A x \in Closed : x \in trades /\ x.exit \in Nat /\ (x # t <=> x.id # t.id)
  BY SeedsAssumption DEF Closed
<1>3. LossExits(t) \in SUBSET (0 .. t.entry)
  BY <1>1, <1>2 DEF LossExits
<1>4. \A e : e \in LossExits(t) <=>
        \E x \in Closed \ {t} : /\ x.user = t.user /\ x.outcome = "loss"
                                /\ x.exit <= t.entry /\ e = x.exit
  BY <1>2 DEF LossExits
<1>5. ASSUME LossExits(t) # {}, t.entry <= Max(LossExits(t)) + Gap
      PROVE  \E x \in Closed \ {t} : /\ x.user = t.user /\ x.outcome = "loss"
                                     /\ x.exit <= t.entry /\ t.entry <= x.exit + Gap
  <2>1. Max(LossExits(t)) \in LossExits(t)
    BY <1>1, <1>3, <1>5, LargestExists
  <2> QED BY <1>4, <1>5, <2>1
<1>6. ASSUME NEW x \in Closed \ {t}, x.user = t.user, x.outcome = "loss",
             x.exit <= t.entry, t.entry <= x.exit + Gap
      PROVE  LossExits(t) # {} /\ t.entry <= Max(LossExits(t)) + Gap
  <2>1. x.exit \in LossExits(t)
    BY <1>4, <1>6
  <2>2. Max(LossExits(t)) \in LossExits(t) /\ x.exit <= Max(LossExits(t))
    BY <1>1, <1>3, <2>1, LargestExists
  <2>3. x.exit \in Nat /\ Max(LossExits(t)) \in Nat
    BY <1>1, <1>2, <1>3, <2>2
  <2> QED BY <1>1, <1>6, <2>1, <2>2, <2>3
<1> QED BY <1>5, <1>6

LEMMA RashFinite ==
    ASSUME trades \in Seeds, NEW u
    PROVE  /\ IsFiniteSet(RashOf(u)) /\ Cardinality(RashOf(u)) \in Nat
           /\ TradesOf(u) \cap Rash = RashOf(u)
<1>1. IsFiniteSet(trades)
  BY SeedsAssumption
<1>2. IsFiniteSet(RashOf(u))
  BY <1>1, FS_Subset DEF RashOf, Rash
<1>3. TradesOf(u) \cap Rash = RashOf(u)
  BY DEF TradesOf, RashOf, Rash
<1> QED BY <1>2, <1>3, FS_CardinalityType

(* A step that writes neither trades, flags nor user_metrics.               *)
LEMMA GoOn ==
    ASSUME Inv, UNCHANGED <<trades, flags, snapshots>>,
           \/ at' \in {"down", "done"}
           \/ at' = "skipped"
           \/ at' = "reset" /\ ~HasSnapshots
           \/ at \in Late /\ at' \in Late
    PROVE  Inv'
<1>1. /\ Rash' = Rash /\ HasSnapshots' = HasSnapshots
      /\ \A u : RashOf(u)' = RashOf(u) /\ TradesOf(u)' = TradesOf(u)
  BY DEF Rash, RashOf, Closed, TradesOf, HasSnapshots
<1>2. Counted' = Counted /\ RowsInv' = RowsInv
  BY <1>1 DEF Counted, RowsInv, TradesOf, RashOf, Rash, Closed
<1> QED BY <1>1, <1>2 DEF Inv, Early, Late

(* A statement that writes user_metrics, and leaves its revenge counts.     *)
LEMMA Updated ==
    ASSUME Inv, at \in Late, UNCHANGED <<trades, flags>>,
           \A u \in Users : TradesOf(u) # {} => snapshots'[u].revenge = snapshots[u].revenge,
           \/ at' \in {"down", "done"}
           \/ at' \in Late /\ RowsInv'
    PROVE  Inv'
<1>1. Rash' = Rash /\ \A u : RashOf(u)' = RashOf(u) /\ TradesOf(u)' = TradesOf(u)
  BY DEF Rash, RashOf, Closed, TradesOf
<1>2. Counted /\ flags = Rash
  BY DEF Inv
<1>3. Counted'
  <2> SUFFICES ASSUME NEW u \in Users, TradesOf(u)' # {}
               PROVE  snapshots'[u].revenge = Cardinality(RashOf(u)')
    BY DEF Counted
  <2> QED BY <1>1, <1>2 DEF Counted
<1>4. at' \notin Early /\ at' \in Early \cup Late \cup {"down", "skipped", "done"}
  BY DEF Early, Late
<1>5. at' # "flag" /\ at' # "revenge"
  BY <1>4 DEF Early
<1>6. at' \in Late => RowsInv'
  BY DEF Late
<1>7. trades' \in Seeds /\ flags' = Rash'
  BY <1>1, <1>2 DEF Inv
<1> QED BY <1>3, <1>4, <1>5, <1>6, <1>7 DEF Inv

LEMMA FreshRow ==
    ASSUME NEW n \in Nat
    PROVE  LET row == [[revenge |-> 0, score |-> {}, spikes |-> 0] EXCEPT !.revenge = n]
           IN row.revenge = n /\ row \in SnapshotRows
BY DEF SnapshotRows

LEMMA ScoredRow ==
    ASSUME NEW row \in SnapshotRows, NEW S \in SUBSET UNION Seeds
    PROVE  /\ [row EXCEPT !.score = S] \in SnapshotRows
           /\ [row EXCEPT !.score = S].revenge = row.revenge
BY DEF SnapshotRows

LEMMA SpikedRow ==
    ASSUME NEW row \in SnapshotRows, NEW n
    PROVE  [row EXCEPT !.spikes = n].revenge = row.revenge
BY DEF SnapshotRows

LEMMA RowType ==
    ASSUME NEW u \in Users, snapshots[u] \in SnapshotRows \cup {None}
    PROVE  Row(u) \in SnapshotRows /\ (snapshots[u] # None => Row(u) = snapshots[u])
BY DEF Row, SnapshotRows

LEMMA InitInv == Init => Inv
<1> SUFFICES ASSUME Init PROVE Inv
  OBVIOUS
<1>1. ~HasSnapshots
  BY DEF Init, HasSnapshots
<1> QED BY <1>1 DEF Init, Inv, Early, Late

LEMMA ResetFlagsStep == ASSUME Inv, ResetFlags PROVE Inv'
<1>1. /\ at = "reset" /\ flags' = {} /\ at' \in {"flag", "down"} /\ UNCHANGED <<trades, snapshots>>
  BY DEF ResetFlags, Then
<1>2. ~HasSnapshots /\ trades \in Seeds
  BY <1>1 DEF Inv, Early
<1>3. ~HasSnapshots'
  BY <1>1, <1>2 DEF HasSnapshots
<1> QED BY <1>1, <1>2, <1>3 DEF Inv, Early, Late

LEMMA SetFlagsStep == ASSUME Inv, SetFlags PROVE Inv'
<1>1. /\ at = "flag" /\ at' \in {"revenge", "down"} /\ UNCHANGED <<trades, snapshots>>
      /\ flags' = flags \cup {t \in trades : /\ LossExits(t) # {}
                                             /\ t.entry <= Max(LossExits(t)) + Gap
                                             /\ t.emotion \in Upset}
  BY DEF SetFlags, Then
<1>2. ~HasSnapshots /\ trades \in Seeds /\ flags = {}
  BY <1>1 DEF Inv, Early
<1>3. flags' = Rash
  BY <1>1, <1>2, MaxRash
<1>4. ~HasSnapshots' /\ Rash' = Rash
  BY <1>1, <1>2 DEF HasSnapshots, Rash, Closed
<1> QED BY <1>1, <1>2, <1>3, <1>4 DEF Inv, Early, Late

LEMMA CountRevengeStep == ASSUME Inv, CountRevenge PROVE Inv'
<1>1. /\ at = "revenge" /\ at' \in {"plan", "down"} /\ UNCHANGED <<trades, flags>>
      /\ snapshots' = [u \in Users |->
             IF TradesOf(u) = {} THEN snapshots[u]
             ELSE [Row(u) EXCEPT !.revenge = Cardinality(TradesOf(u) \cap flags)]]
  BY DEF CountRevenge, Then
<1>2. ~HasSnapshots /\ trades \in Seeds /\ flags = Rash
  BY <1>1 DEF Inv, Early
<1>3. Rash' = Rash /\ \A u : RashOf(u)' = RashOf(u) /\ TradesOf(u)' = TradesOf(u)
  BY <1>1 DEF Rash, RashOf, Closed, TradesOf
<1>4. ASSUME NEW u \in Users, TradesOf(u) # {}
      PROVE  /\ snapshots'[u].revenge = Cardinality(RashOf(u))
             /\ snapshots'[u] \in SnapshotRows /\ snapshots'[u] # None
  <2>1. Row(u) = [revenge |-> 0, score |-> {}, spikes |-> 0]
    BY <1>2 DEF HasSnapshots, Row
  <2>2. PICK n \in Nat : n = Cardinality(RashOf(u)) /\ n = Cardinality(TradesOf(u) \cap flags)
    BY <1>2, RashFinite
  <2>3. snapshots'[u] = [[revenge |-> 0, score |-> {}, spikes |-> 0] EXCEPT !.revenge = n]
    BY <1>1, <1>4, <2>1, <2>2
  <2>4. snapshots'[u].revenge = n /\ snapshots'[u] \in SnapshotRows
    BY <2>3, FreshRow
  <2> QED BY <2>2, <2>4, NoneAssumption DEF SnapshotRows
<1>5. ASSUME NEW u \in Users, TradesOf(u) = {} PROVE snapshots'[u] = None
  BY <1>1, <1>2, <1>5 DEF HasSnapshots
<1>6. Counted'
  <2> SUFFICES ASSUME NEW u \in Users, TradesOf(u)' # {}
               PROVE  snapshots'[u].revenge = Cardinality(RashOf(u)')
    BY DEF Counted
  <2> QED BY <1>3, <1>4
<1>7. RowsInv'
  <2> SUFFICES ASSUME NEW u \in Users
               PROVE  /\ snapshots'[u] \in SnapshotRows \cup {None}
                      /\ TradesOf(u)' # {} => snapshots'[u] # None
    BY DEF RowsInv, SnapshotRows
  <2> QED BY <1>3, <1>4, <1>5
<1>8. trades' \in Seeds /\ flags' = Rash'
  BY <1>1, <1>2, <1>3
<1>9. at' \in Early \cup Late \cup {"down", "skipped", "done"} /\ at' \notin Early
      /\ at' # "flag" /\ at' # "revenge"
  BY <1>1 DEF Early, Late
<1> QED BY <1>6, <1>7, <1>8, <1>9 DEF Inv

LEMMA ClosedFacts ==
    ASSUME trades \in Seeds
    PROVE  /\ IsFiniteSet(Closed)
           /\ \A t \in Closed : t.exit \in Nat /\ t.entry \in Nat
           /\ \A t, x \in Closed : t.session = x.session /\ t.entry = x.entry => t = x
<1>1. IsFiniteSet(trades) /\ Closed \in SUBSET trades
  BY SeedsAssumption DEF Closed
<1>2. IsFiniteSet(Closed)
  BY <1>1, FS_Subset
<1>3. \A t \in Closed : t \in trades /\ t.exit # None /\ t.exit \in Nat /\ t.entry \in Nat
  BY SeedsAssumption DEF Closed
<1>4. \A t, x \in Closed : t.session = x.session /\ t.entry = x.entry => t = x
  BY <1>3, SeedsAssumption
<1> QED BY <1>2, <1>3, <1>4

(* The latest exits among the rated trades of u: those of exits as late as  *)
(* the earliest of them may take each other's place.                        *)
Latest(u, S) == /\ S \subseteq Rated(u)
                /\ Cardinality(S) = Min({Rolling, Cardinality(Rated(u))})
                /\ \A t \in S, x \in Rated(u) \ S : x.exit <= t.exit

LEMMA MinOfTwo ==
    ASSUME NEW a \in Nat, NEW b \in Nat
    PROVE  Min({a, b}) = IF a <= b THEN a ELSE b
<1> DEFINE m == IF a <= b THEN a ELSE b
<1>1. m \in {a, b} /\ \A y \in {a, b} : m <= y
  OBVIOUS
<1>2. \A x \in {a, b} : (\A y \in {a, b} : x <= y) => x = m
  OBVIOUS
<1> HIDE DEF m
<1>3. Min({a, b}) \in {a, b} /\ \A y \in {a, b} : Min({a, b}) <= y
  BY <1>1 DEF Min
<1>4. Min({a, b}) = m
  BY <1>2, <1>3
<1> QED BY <1>4 DEF m

(* However ROW_NUMBER breaks ties, the rows numbered up to Rolling are the  *)
(* latest.                                                                  *)
LEMMA ScoresLatest ==
    ASSUME trades \in Seeds, NEW u, NEW S \in Scores(u)
    PROVE  Latest(u, S)
<1> DEFINE R == Rated(u)
           c == Cardinality(R)
           k == IF Rolling <= c THEN Rolling ELSE c
           I == 1 .. k
<1>1. PICK q \in Numberings(u) : S = {q[rn] : rn \in {n \in DOMAIN q : n <= Rolling}}
  BY DEF Scores
<1>2. IsFiniteSet(R) /\ c \in Nat /\ \A x \in R : x.exit \in Nat
  <2>1. R \in SUBSET Closed
    BY DEF Rated
  <2> QED BY <2>1, ClosedFacts, FS_Subset, FS_CardinalityType
<1>3. /\ q \in [1 .. c -> R] /\ \A m, n \in 1 .. c : m # n => q[m] # q[n]
      /\ \A m, n \in 1 .. c : m < n => q[m].exit >= q[n].exit
  <2>1. /\ q \in SetToSeqs(R)
        /\ \A m, n \in DOMAIN q : m < n => q[m].exit >= q[n].exit
    BY DEF Numberings
  <2> QED BY <2>1 DEF SetToSeqs
<1>4. q \in Surjection(1 .. c, R)
  <2>1. q \in Injection(1 .. c, R)
    <3> HIDE DEF R, c
    <3> QED BY <1>3, Fun_IsInj
  <2>2. IsFiniteSet(1 .. c) /\ Cardinality(1 .. c) = c
    BY <1>2, FS_Interval
  <2> QED BY <1>2, <2>1, <2>2, FS_Injection
<1>5. \A t \in R : \E n \in 1 .. c : q[n] = t
  BY <1>4 DEF Surjection
<1>6. Rolling \in Nat
  BY BoundsAssumption
<1> HIDE DEF R, c
<1>7. k \in Nat /\ I \subseteq 1 .. c /\ \A n \in 1 .. c : n \in I <=> n <= Rolling
  BY <1>2, <1>6
<1>8. S = {q[n] : n \in I}
  <2>1. {n \in DOMAIN q : n <= Rolling} = I
    BY <1>3, <1>7
  <2> QED BY <1>1, <2>1
<1> HIDE DEF k
<1>9. S \subseteq R
  BY <1>3, <1>7, <1>8
<1>10. Cardinality(S) = k
  <2> DEFINE f == [n \in I |-> q[n]]
  <2>1. f \in [I -> S] /\ \A m, n \in I : f[m] = f[n] => m = n
    BY <1>3, <1>7, <1>8
  <2>2. \A t \in S : \E n \in I : f[n] = t
    BY <1>8
  <2>3. IsFiniteSet(I) /\ Cardinality(I) = k
    BY <1>7, FS_Interval
  <2> HIDE DEF f, I
  <2>4. f \in Bijection(I, S)
    BY <2>1, <2>2, Fun_IsBij
  <2>5. ExistsBijection(I, S)
    BY <2>4 DEF ExistsBijection
  <2> QED BY <2>3, <2>5, FS_Bijection
<1>11. ASSUME NEW t \in S, NEW x \in R \ S PROVE x.exit <= t.exit
  <2>1. PICK m \in I : t = q[m]
    BY <1>8
  <2>2. PICK n \in 1 .. c : x = q[n]
    BY <1>5
  <2>3. n \notin I
    BY <1>8, <2>2
  <2>4. m \in 1 .. c /\ m < n
    BY <1>2, <1>6, <1>7, <2>2, <2>3
  <2>5. t.exit >= x.exit
    BY <1>3, <2>1, <2>2, <2>4
  <2>6. t.exit \in Nat /\ x.exit \in Nat
    BY <1>2, <1>9
  <2> QED BY <2>5, <2>6
<1>12. Min({Rolling, c}) = k
  BY <1>2, <1>6, MinOfTwo DEF k
<1> QED BY <1>9, <1>10, <1>11, <1>12 DEF Latest, R, c

LEMMA PlanAdherenceStep == ASSUME Inv, PlanAdherence PROVE Inv'
<1>1. PICK last :
        /\ \A u \in Users : last[u] \in Scores(u)
        /\ snapshots' = [u \in Users |-> IF Rated(u) = {} THEN snapshots[u]
                                         ELSE [Row(u) EXCEPT !.score = last[u]]]
  BY DEF PlanAdherence
<1>2. at = "plan" /\ at' \in {"win", "down"} /\ UNCHANGED <<trades, flags>>
  BY DEF PlanAdherence, Then
<1>3. /\ RowsInv /\ trades \in Seeds /\ at \in Late /\ "win" \in Late
      /\ \A u : TradesOf(u)' = TradesOf(u)
  BY <1>2 DEF Inv, Late, TradesOf
<1>4. ASSUME NEW u \in Users
      PROVE  /\ TradesOf(u) # {} => snapshots'[u].revenge = snapshots[u].revenge
             /\ snapshots'[u] \in SnapshotRows \cup {None}
             /\ TradesOf(u) # {} => snapshots'[u] # None
  <2>1. /\ snapshots[u] \in SnapshotRows \cup {None}
        /\ TradesOf(u) # {} => snapshots[u] # None
    BY <1>3 DEF RowsInv
  <2>2. CASE Rated(u) = {}
    BY <1>1, <2>1, <2>2
  <2>3. CASE Rated(u) # {}
    <3>1. last[u] \in SUBSET UNION Seeds
      <4>1. last[u] \in SUBSET Rated(u)
        BY <1>1, <1>3, ScoresLatest DEF Latest
      <4>2. Rated(u) \in SUBSET UNION Seeds
        BY <1>3 DEF Rated, Closed
      <4> QED BY <4>1, <4>2
    <3>2. Row(u) \in SnapshotRows /\ (snapshots[u] # None => Row(u) = snapshots[u])
      BY <2>1, RowType
    <3>3. snapshots'[u] = [Row(u) EXCEPT !.score = last[u]]
      BY <1>1, <2>3
    <3>4. snapshots'[u] \in SnapshotRows /\ snapshots'[u].revenge = Row(u).revenge
      BY <3>1, <3>2, <3>3, ScoredRow
    <3>5. snapshots'[u] # None
      BY <3>4, NoneAssumption DEF SnapshotRows
    <3> QED BY <2>1, <3>2, <3>4, <3>5
  <2> QED BY <2>2, <2>3
<1>5. RowsInv'
  BY <1>3, <1>4 DEF RowsInv, SnapshotRows
<1> QED BY <1>2, <1>3, <1>4, <1>5, Updated

LEMMA CommitStep == ASSUME Inv, Commit PROVE Inv'
<1>1. /\ at = "commit" /\ at' \in {"done", "down"} /\ UNCHANGED <<trades, flags>>
      /\ snapshots' = [u \in Users |-> IF snapshots[u] = None /\ found[u] = <<>> THEN None
                                       ELSE [Row(u) EXCEPT !.spikes = Len(found[u])]]
  BY DEF Commit, Then
<1>2. RowsInv /\ at \in Late
  BY <1>1 DEF Inv, Late
<1>3. ASSUME NEW u \in Users, TradesOf(u) # {}
      PROVE  snapshots'[u].revenge = snapshots[u].revenge
  <2>1. snapshots[u] \in SnapshotRows \cup {None} /\ snapshots[u] # None
    BY <1>2, <1>3 DEF RowsInv
  <2>2. Row(u) \in SnapshotRows /\ Row(u) = snapshots[u]
    BY <2>1, RowType
  <2>3. snapshots'[u] = [Row(u) EXCEPT !.spikes = Len(found[u])]
    BY <1>1, <2>1
  <2> QED BY <2>2, <2>3, SpikedRow
<1> QED BY <1>1, <1>2, <1>3, Updated

LEMMA NextInv == Inv /\ [Next]_vars => Inv'
<1> SUFFICES ASSUME Inv, [Next]_vars PROVE Inv'
  OBVIOUS
<1>1. CASE Start
  BY <1>1, GoOn DEF Start, tables
<1>2. CASE Fail
  BY <1>2, GoOn DEF Fail, tables
<1>3. CASE WinRate \/ SessionTilt \/ Scan
  <2>1. /\ UNCHANGED <<trades, flags, snapshots>> /\ at \in Late
        /\ at' = "down" \/ at' \in Late
    BY <1>3 DEF WinRate, SessionTilt, Scan, Then, tables, Late
  <2> QED BY <2>1, GoOn
<1>4. CASE UNCHANGED vars
  BY <1>4 DEF vars, tables, Inv, RowsInv, Counted, Rash, RashOf, Closed, TradesOf, HasSnapshots
<1> QED BY <1>1, <1>2, <1>3, <1>4, ResetFlagsStep, SetFlagsStep, CountRevengeStep,
           PlanAdherenceStep, CommitStep DEF Next

----------------------------------------------------------------------------
(* However often the process dies on the way, and whatever the seed file    *)
(* says: when the gate HasSnapshots shuts, the revenge flags and the counts *)
(* of BackfillFromTrades are those of the trades, and stay so.              *)
THEOREM RevengeCorrect == Spec => []RevengeExact
<1>1. Inv => RevengeExact
  BY DEF Inv, RevengeExact, Counted, Rash, RashOf
<1> QED BY <1>1, InitInv, NextInv, PTL DEF Spec
----------------------------------------------------------------------------
(* ORDER BY: rows in the order of a key that tells them apart.              *)

(* q has the rows R in the order of their keys.                             *)
InOrder(q, R, key) ==
    /\ q \in [1 .. Cardinality(R) -> R]
    /\ \A m, n \in 1 .. Cardinality(R) : m < n => key[q[m]] < key[q[n]]

Keyed(R, key) == /\ IsFiniteSet(R) /\ key \in [R -> Int]
                 /\ \A x, y \in R : key[x] = key[y] => x = y

Below(R, key, t) == {x \in R : key[x] < key[t]}

(* Each row's place is one more than the number of rows below it.           *)
LEMMA OrderExists ==
    ASSUME NEW R, NEW key, Keyed(R, key)
    PROVE  \E q : InOrder(q, R, key)
<1> DEFINE c == Cardinality(R)
           rank == [t \in R |-> Cardinality(Below(R, key, t)) + 1]
           q == [n \in 1 .. c |-> CHOOSE t \in R : rank[t] = n]
<1>1. c \in Nat /\ IsFiniteSet(R) /\ \A t \in R : key[t] \in Int
  BY FS_CardinalityType DEF Keyed
<1>2. \A t \in R : /\ IsFiniteSet(Below(R, key, t)) /\ Cardinality(Below(R, key, t)) \in Nat
                   /\ Below(R, key, t) \in SUBSET R
  <2> SUFFICES ASSUME NEW t \in R
               PROVE  /\ IsFiniteSet(Below(R, key, t)) /\ Cardinality(Below(R, key, t)) \in Nat
                      /\ Below(R, key, t) \in SUBSET R
    OBVIOUS
  <2>1. Below(R, key, t) \in SUBSET R
    BY DEF Below
  <2> QED BY <1>1, <2>1, FS_Subset, FS_CardinalityType
<1>3. ASSUME NEW t \in R, NEW x \in R, key[t] < key[x]
      PROVE  rank[t] < rank[x]
  <2>1. /\ Below(R, key, t) \in SUBSET Below(R, key, x)
        /\ t \in Below(R, key, x) /\ t \notin Below(R, key, t)
    BY <1>1, <1>3 DEF Below
  <2>2. /\ Cardinality(Below(R, key, t)) <= Cardinality(Below(R, key, x))
        /\ Cardinality(Below(R, key, t)) # Cardinality(Below(R, key, x))
    BY <1>2, <2>1, FS_Subset
  <2> QED BY <1>2, <2>2
<1>4. rank \in [R -> 1 .. c]
  <2> SUFFICES ASSUME NEW t \in R PROVE Cardinality(Below(R, key, t)) + 1 \in 1 .. c
    OBVIOUS
  <2>1. Below(R, key, t) # R
    BY <1>1 DEF Below
  <2>2. Cardinality(Below(R, key, t)) <= c /\ Cardinality(Below(R, key, t)) # c
    BY <1>1, <1>2, <2>1, FS_Subset
  <2> QED BY <1>1, <1>2, <2>2
<1>5. rank \in Injection(R, 1 .. c)
  <2>1. ASSUME NEW t \in R, NEW x \in R, rank[t] = rank[x] PROVE t = x
    <3>1. ~(key[t] < key[x]) /\ ~(key[x] < key[t])
      <4>1. rank[t] \in Int /\ rank[x] \in Int
        BY <1>4
      <4> HIDE DEF rank
      <4> QED BY <1>3, <2>1, <4>1
    <3> QED BY <1>1, <3>1 DEF Keyed
  <2> HIDE DEF rank, c
  <2> QED BY <1>4, <2>1, Fun_IsInj
<1>6. rank \in Surjection(R, 1 .. c)
  <2>1. IsFiniteSet(1 .. c) /\ Cardinality(1 .. c) = c
    BY <1>1, FS_Interval
  <2> HIDE DEF rank
  <2> QED BY <1>5, <2>1, FS_Injection
<1>7. ASSUME NEW n \in 1 .. c PROVE q[n] \in R /\ rank[q[n]] = n
  <2>1. \E t \in R : rank[t] = n
    <3> HIDE DEF rank
    <3> QED BY <1>6 DEF Surjection
  <2> HIDE DEF rank
  <2> QED BY <2>1
<1>8. ASSUME NEW m \in 1 .. c, NEW n \in 1 .. c, m < n PROVE key[q[m]] < key[q[n]]
  <2>1. q[m] \in R /\ q[n] \in R /\ rank[q[m]] = m /\ rank[q[n]] = n
    BY <1>7
  <2> HIDE DEF q, rank
  <2>2. key[q[m]] \in Int /\ key[q[n]] \in Int
    BY <1>1, <2>1
  <2>3. ~(key[q[n]] < key[q[m]])
    BY <1>3, <1>8, <2>1
  <2>4. key[q[m]] # key[q[n]]
    BY <1>8, <2>1 DEF Keyed
  <2> QED BY <2>2, <2>3, <2>4
<1>9. q \in [1 .. c -> R]
  <2> HIDE DEF rank
  <2> QED BY <1>7
<1> HIDE DEF q
<1> QED BY <1>8, <1>9 DEF InOrder

(* And conversely, in a sequence that is in order.                          *)
LEMMA OrderRanks ==
    ASSUME NEW R, NEW key, Keyed(R, key), NEW q, InOrder(q, R, key)
    PROVE  /\ q \in Bijection(1 .. Cardinality(R), R)
           /\ \A n \in 1 .. Cardinality(R) : Cardinality(Below(R, key, q[n])) = n - 1
<1> DEFINE c == Cardinality(R)
<1>1. c \in Nat /\ IsFiniteSet(R) /\ \A t \in R : key[t] \in Int
  BY FS_CardinalityType DEF Keyed
<1>2. /\ q \in [1 .. c -> R] /\ \A n \in 1 .. c : key[q[n]] \in Int
      /\ \A m, n \in 1 .. c : m < n => key[q[m]] < key[q[n]]
  BY <1>1 DEF InOrder
<1>3. q \in Injection(1 .. c, R)
  <2>1. ASSUME NEW m \in 1 .. c, NEW n \in 1 .. c, q[m] = q[n] PROVE m = n
    <3>1. ~(m < n) /\ ~(n < m)
      BY <1>2, <2>1
    <3> QED BY <1>1, <3>1
  <2> HIDE DEF c
  <2> QED BY <1>2, <2>1, Fun_IsInj
<1>4. q \in Surjection(1 .. c, R)
  <2>1. Cardinality(1 .. c) = c
    BY <1>1, FS_Interval
  <2> QED BY <1>1, <1>3, <2>1, FS_Injection
<1>5. ASSUME NEW n \in 1 .. c PROVE Cardinality(Below(R, key, q[n])) = n - 1
  <2> DEFINE B == Below(R, key, q[n])
             I == 1 .. n - 1
             f == [m \in I |-> q[m]]
  <2>1. I \subseteq 1 .. c
    BY <1>1
  <2>2. f \in [I -> B]
    <3> SUFFICES ASSUME NEW m \in I PROVE q[m] \in B
      OBVIOUS
    <3>1. m \in 1 .. c /\ m < n
      BY <1>1
    <3> QED BY <1>2, <3>1 DEF Below
  <2>3. \A m, k \in I : f[m] = f[k] => m = k
    BY <1>3, <2>1 DEF Injection, IsInjective
  <2>4. \A t \in B : \E m \in I : f[m] = t
    <3> SUFFICES ASSUME NEW t \in B PROVE \E m \in I : f[m] = t
      OBVIOUS
    <3>1. t \in R /\ key[t] < key[q[n]]
      BY DEF Below
    <3>2. PICK m \in 1 .. c : q[m] = t
      BY <1>4, <3>1 DEF Surjection
    <3>3. m < n
      <4>1. CASE m = n
        BY <1>2, <3>1, <3>2, <4>1
      <4>2. CASE n < m
        BY <1>2, <3>1, <3>2, <4>2
      <4> QED BY <1>1, <4>1, <4>2
    <3> QED BY <1>1, <3>2, <3>3
  <2>5. f \in Bijection(I, B)
    <3> HIDE DEF f, I, B
    <3> QED BY <2>2, <2>3, <2>4, Fun_IsBij
  <2>6. IsFiniteSet(I) /\ Cardinality(I) = n - 1
    <3>1. n - 1 \in Int /\ 1 \in Int /\ n \in 1 .. c
      BY <1>1
    <3>2. /\ IsFiniteSet(1 .. n - 1)
          /\ Cardinality(1 .. n - 1) = IF 1 > n - 1 THEN 0 ELSE (n - 1) - 1 + 1
      BY <3>1, FS_Interval
    <3> QED BY <1>1, <3>2
  <2> HIDE DEF f, I, B
  <2>7. ExistsBijection(I, B)
    BY <2>5 DEF ExistsBijection
  <2> QED BY <2>6, <2>7, FS_Bijection DEF B
<1> QED BY <1>3, <1>4, <1>5 DEF Bijection

----------------------------------------------------------------------------
(* LAG.                                                                     *)

(* The trades of a session right before t.                                  *)
Preceding(s, t) == {p \in ClosedIn(s) : /\ p.entry < t.entry
                                        /\ \A x \in ClosedIn(s) :
                                               x.entry < t.entry => x.entry <= p.entry}

Following(s) == {t \in ClosedIn(s) : \E p \in Preceding(s, t) : p.outcome = "loss"}

(* The row LAG looks at is the one right before.                            *)
LEMMA LaggedFollowing ==
    ASSUME trades \in Seeds, NEW s
    PROVE  /\ Lagged(s) = <<>> => ClosedIn(s) = {}
           /\ Cardinality({n \in DOMAIN Lagged(s) : n > 1 /\ Lagged(s)[n - 1].outcome = "loss"})
                = Cardinality(Following(s))
<1> DEFINE R == ClosedIn(s)
           c == Cardinality(R)
           key == [x \in R |-> x.entry]
           q == Lagged(s)
<1>1. /\ IsFiniteSet(R) /\ \A x \in R : x.entry \in Nat
      /\ \A x, y \in R : x.entry = y.entry => x = y
  <2>1. R \in SUBSET Closed /\ \A x \in R : x.session = s
    BY DEF ClosedIn
  <2> QED BY <2>1, ClosedFacts, FS_Subset
<1>2. Keyed(R, key)
  BY <1>1 DEF Keyed
<1>3. \A p : InOrder(p, R, key) <=>
                /\ p \in SetToSeqs(R)
                /\ \A m, n \in DOMAIN p : m < n => p[m].entry < p[n].entry
  <2> SUFFICES ASSUME NEW p, p \in [1 .. c -> R]
               PROVE  InOrder(p, R, key) <=>
                        /\ \A m, n \in 1 .. c : m # n => p[m] # p[n]
                        /\ \A m, n \in 1 .. c : m < n => p[m].entry < p[n].entry
    BY DEF InOrder, SetToSeqs
  <2>1. \A m, n \in 1 .. c : key[p[m]] < key[p[n]] <=> p[m].entry < p[n].entry
    BY <1>1
  <2>2. c \in Nat
    BY <1>1, FS_CardinalityType
  <2>3. ASSUME \A m, n \in 1 .. c : m < n => p[m].entry < p[n].entry,
               NEW m \in 1 .. c, NEW n \in 1 .. c, m # n
        PROVE  p[m] # p[n]
    <3>1. p[m].entry \in Nat /\ p[n].entry \in Nat /\ (m < n \/ n < m)
      BY <1>1, <2>2, <2>3
    <3> QED BY <2>3, <3>1
  <2> HIDE DEF key
  <2> QED BY <2>1, <2>3 DEF InOrder
<1>4. InOrder(q, R, key)
  <2>1. \E p : InOrder(p, R, key)
    BY <1>2, OrderExists
  <2>2. \E p \in SetToSeqs(R) : \A m, n \in DOMAIN p : m < n => p[m].entry < p[n].entry
    BY <1>3, <2>1
  <2>3. q \in SetToSeqs(R) /\ \A m, n \in DOMAIN q : m < n => q[m].entry < q[n].entry
    BY <2>2 DEF Lagged
  <2> HIDE DEF q
  <2> QED BY <1>3, <2>3
<1>5. q \in Bijection(1 .. c, R)
  <2> HIDE DEF q, key, R
  <2> QED BY <1>2, <1>4, OrderRanks
<1>6. /\ c \in Nat /\ DOMAIN q = 1 .. c /\ \A n \in 1 .. c : q[n] \in R
      /\ \A t \in R : \E n \in 1 .. c : q[n] = t
      /\ \A m, n \in 1 .. c : q[m] = q[n] => m = n
  BY <1>1, <1>5, FS_CardinalityType DEF Bijection, Injection, Surjection, IsInjective
<1>7. \A m, n \in 1 .. c : m < n => q[m].entry < q[n].entry
  BY <1>3, <1>4, <1>6
<1>8. q = <<>> => R = {}
  <2> SUFFICES ASSUME q = <<>> PROVE R = {}
    OBVIOUS
  <2>1. DOMAIN q = {}
    OBVIOUS
  <2> QED BY <1>6, <2>1
<1> HIDE DEF q, R, c, key
<1>9. ASSUME NEW n \in 1 .. c
      PROVE  q[n] \in Following(s) <=> n > 1 /\ q[n - 1].outcome = "loss"
  <2>1. ASSUME NEW m \in 1 .. c PROVE q[m] \in Preceding(s, q[n]) <=> m = n - 1
    <3>1. \A k \in 1 .. c : /\ q[k] \in R /\ q[k].entry \in Nat
                            /\ q[k].entry < q[n].entry <=> k < n
                            /\ q[k].entry <= q[m].entry <=> k <= m
      <4> SUFFICES ASSUME NEW k \in 1 .. c
                   PROVE  /\ q[k] \in R /\ q[k].entry \in Nat
                          /\ q[k].entry < q[n].entry <=> k < n
                          /\ q[k].entry <= q[m].entry <=> k <= m
        OBVIOUS
      <4>1. /\ q[k] \in R /\ q[k].entry \in Nat /\ q[n].entry \in Nat /\ q[m].entry \in Nat
            /\ k \in Int /\ m \in Int /\ n \in Int
        BY <1>1, <1>6
      <4>2. q[k].entry < q[n].entry <=> k < n
        <5>1. n < k => q[n].entry < q[k].entry
          BY <1>7
        <5>2. k < n => q[k].entry < q[n].entry
          BY <1>7
        <5> QED BY <4>1, <5>1, <5>2
      <4>3. q[k].entry <= q[m].entry <=> k <= m
        <5>1. m < k => q[m].entry < q[k].entry
          BY <1>7
        <5>2. k < m => q[k].entry < q[m].entry
          BY <1>7
        <5> QED BY <4>1, <5>1, <5>2
      <4> QED BY <4>1, <4>2, <4>3
    <3>2. q[m] \in Preceding(s, q[n]) <=> m < n /\ \A k \in 1 .. c : k < n => k <= m
      <4>1. q[m] \in Preceding(s, q[n]) <=>
              q[m].entry < q[n].entry /\ \A x \in R : x.entry < q[n].entry => x.entry <= q[m].entry
        BY <3>1 DEF Preceding, R
      <4>2. (\A x \in R : x.entry < q[n].entry => x.entry <= q[m].entry)
              <=> \A k \in 1 .. c : q[k].entry < q[n].entry => q[k].entry <= q[m].entry
        BY <1>6
      <4> QED BY <3>1, <4>1, <4>2
    <3>3. m < n /\ (\A k \in 1 .. c : k < n => k <= m) => m = n - 1
      <4> SUFFICES ASSUME m < n, \A k \in 1 .. c : k < n => k <= m PROVE m = n - 1
        OBVIOUS
      <4>1. n - 1 \in 1 .. c /\ n - 1 < n
        BY <1>6
      <4> QED BY <4>1, <1>6
    <3>4. m = n - 1 => m < n /\ \A k \in 1 .. c : k < n => k <= m
      BY <1>6
    <3> QED BY <3>2, <3>3, <3>4
  <2>2. q[n] \in Following(s) <=> \E p \in Preceding(s, q[n]) : p.outcome = "loss"
    BY <1>6 DEF Following, R
  <2>3. \A p \in Preceding(s, q[n]) : p \in R
    BY DEF Preceding, R
  <2>4. (\E p \in Preceding(s, q[n]) : p.outcome = "loss")
          <=> \E m \in 1 .. c : m = n - 1 /\ q[m].outcome = "loss"
    BY <1>6, <2>1, <2>3
  <2>5. (\E m \in 1 .. c : m = n - 1 /\ q[m].outcome = "loss") <=> n > 1 /\ q[n - 1].outcome = "loss"
    <3>1. n - 1 \in 1 .. c <=> n > 1
      BY <1>6
    <3> QED BY <3>1
  <2> QED BY <2>2, <2>4, <2>5
<1>10. Cardinality({n \in DOMAIN q : n > 1 /\ q[n - 1].outcome = "loss"}) = Cardinality(Following(s))
  <2> DEFINE I == {n \in DOMAIN q : n > 1 /\ q[n - 1].outcome = "loss"}
             f == [n \in I |-> q[n]]
  <2>1. I \in SUBSET (1 .. c) /\ \A n \in 1 .. c : n \in I <=> q[n] \in Following(s)
    BY <1>6, <1>9
  <2>2. \A t \in Following(s) : t \in R
    BY DEF Following, R
  <2> HIDE DEF I
  <2>3. f \in [I -> Following(s)] /\ \A m, n \in I : f[m] = f[n] => m = n
    BY <1>6, <2>1
  <2>4. \A t \in Following(s) : \E n \in I : f[n] = t
    BY <1>6, <2>1, <2>2
  <2> HIDE DEF f
  <2>5. f \in Bijection(I, Following(s))
    BY <2>3, <2>4, Fun_IsBij
  <2>6. ExistsBijection(I, Following(s))
    BY <2>5 DEF ExistsBijection
  <2>7. IsFiniteSet(I)
    <3>1. IsFiniteSet(1 .. c)
      BY <1>6, FS_Interval
    <3> QED BY <2>1, <3>1, FS_Subset
  <2>8. Cardinality(I) = Cardinality(Following(s))
    BY <2>6, <2>7, FS_Bijection
  <2> QED BY <2>8 DEF I
<1> QED BY <1>8, <1>10 DEF q, R

----------------------------------------------------------------------------
(* What each statement leaves for the rest of the run.                      *)

AfterPlan == {"win", "tilt", "scan", "commit", "done"}
AfterWin  == {"tilt", "scan", "commit", "done"}
AfterTilt == {"scan", "commit", "done"}

ScoresExact == \A u \in Users : Rated(u) # {} => Latest(u, snapshots[u].score)

TalliesExact == \A k \in Keys : Felt(k) # {} =>
                   /\ tally[k].wins + tally[k].losses = Cardinality(Felt(k))
                   /\ tally[k].losses = Ended(Felt(k), "loss")

TiltsExact == \A s \in Sessions : ClosedIn(s) # {} =>
                 tilts[s].following = Cardinality(Following(s))

StageInv == /\ at \in AfterPlan => ScoresExact
            /\ at \in AfterWin  => TalliesExact
            /\ at \in AfterTilt => TiltsExact

(* The rows the statements read do not change.                              *)
LEMMA RowsKept ==
    ASSUME trades' = trades
    PROVE  /\ Closed' = Closed
           /\ \A u : Rated(u)' = Rated(u) /\ TradesOf(u)' = TradesOf(u)
           /\ \A k : Felt(k)' = Felt(k)
           /\ \A s : ClosedIn(s)' = ClosedIn(s)
<1>1. Closed' = Closed
  BY DEF Closed
<1> QED BY <1>1 DEF Rated, TradesOf, Felt, ClosedIn

LEMMA ScoresKept ==
    ASSUME trades' = trades, ScoresExact,
           \A u \in Users : Rated(u) # {} => snapshots'[u].score = snapshots[u].score
    PROVE  ScoresExact'
<1>1. \A u : Rated(u)' = Rated(u)
  BY RowsKept
<1>2. ASSUME NEW u \in Users, Rated(u) # {} PROVE Latest(u, snapshots'[u].score)
  BY <1>2 DEF ScoresExact
<1> QED BY <1>1, <1>2 DEF ScoresExact, Latest

LEMMA TalliesKept == ASSUME trades' = trades, tally' = tally, TalliesExact PROVE TalliesExact'
BY RowsKept DEF TalliesExact, Ended

LEMMA TiltsKept == ASSUME trades' = trades, tilts' = tilts, TiltsExact PROVE TiltsExact'
<1>1. \A s : ClosedIn(s)' = ClosedIn(s) /\ Following(s)' = Following(s)
  BY RowsKept DEF Following, Preceding
<1> QED BY <1>1 DEF TiltsExact

(* Every user with a rated trade has a row in user_metrics by then.         *)
LEMMA RatedRow ==
    ASSUME Inv, at \in Late, NEW u \in Users, Rated(u) # {}
    PROVE  Row(u) \in SnapshotRows /\ Row(u) = snapshots[u] /\ snapshots[u] # None
<1>1. TradesOf(u) # {}
  BY DEF Rated, Closed, TradesOf
<1>2. snapshots[u] \in SnapshotRows \cup {None} /\ snapshots[u] # None
  BY <1>1 DEF Inv, RowsInv
<1> QED BY <1>2, RowType

LEMMA PlanExact == ASSUME Inv, PlanAdherence PROVE ScoresExact'
<1>1. PICK last :
        /\ \A u \in Users : last[u] \in Scores(u)
        /\ snapshots' = [u \in Users |-> IF Rated(u) = {} THEN snapshots[u]
                                         ELSE [Row(u) EXCEPT !.score = last[u]]]
  BY DEF PlanAdherence
<1>2. at = "plan" /\ trades' = trades
  BY DEF PlanAdherence
<1>3. at \in Late /\ trades \in Seeds
  BY <1>2 DEF Inv, Late
<1>4. \A u : Rated(u)' = Rated(u)
  BY <1>2, RowsKept
<1>5. ASSUME NEW u \in Users, Rated(u) # {} PROVE Latest(u, snapshots'[u].score)
  <2>1. snapshots'[u] = [Row(u) EXCEPT !.score = last[u]]
    BY <1>1, <1>5
  <2>2. PICK row \in SnapshotRows : row = Row(u)
    BY <1>3, <1>5, RatedRow
  <2>3. [row EXCEPT !.score = last[u]].score = last[u]
    BY DEF SnapshotRows
  <2>4. Latest(u, last[u])
    BY <1>1, <1>3, ScoresLatest
  <2> QED BY <2>1, <2>2, <2>3, <2>4
<1> QED BY <1>4, <1>5 DEF ScoresExact, Latest

LEMMA WinsExact == ASSUME Inv, WinRate PROVE TalliesExact'
<1>1. /\ trades' = trades /\ trades \in Seeds
      /\ tally' = [k \in Keys |->
             IF Felt(k) = {} THEN tally[k]
             ELSE [wins |-> Ended(Felt(k), "win"), losses |-> Ended(Felt(k), "loss")]]
  BY DEF WinRate, Inv
<1> SUFFICES ASSUME NEW k \in Keys, Felt(k)' # {}
             PROVE  /\ tally'[k].wins + tally'[k].losses = Cardinality(Felt(k)')
                    /\ tally'[k].losses = Ended(Felt(k), "loss")'
  BY DEF TalliesExact
<1>2. Felt(k)' = Felt(k) /\ Ended(Felt(k), "loss")' = Ended(Felt(k), "loss")
  BY <1>1, RowsKept DEF Ended
<1>3. tally'[k].wins = Ended(Felt(k), "win") /\ tally'[k].losses = Ended(Felt(k), "loss")
  BY <1>1, <1>2
<1>4. Ended(Felt(k), "win") + Ended(Felt(k), "loss") = Cardinality(Felt(k))
  <2> DEFINE W == {t \in Felt(k) : t.outcome = "win"}
             L == {t \in Felt(k) : t.outcome = "loss"}
  <2>1. Felt(k) \in SUBSET Closed /\ IsFiniteSet(Closed)
    BY <1>1, ClosedFacts DEF Felt
  <2>2. IsFiniteSet(Felt(k)) /\ W \in SUBSET Felt(k) /\ L \in SUBSET Felt(k)
    BY <2>1, FS_Subset
  <2>3. W \cup L = Felt(k)
    <3>1. \A t \in Felt(k) : t.outcome \in {"win", "loss"}
      BY <1>1, SeedsAssumption DEF Felt, Closed
    <3> QED BY <3>1
  <2>4. W \cap L = {}
    OBVIOUS
  <2> HIDE DEF W, L
  <2>5. /\ IsFiniteSet(W) /\ IsFiniteSet(L)
        /\ Cardinality(W) \in Nat /\ Cardinality(L) \in Nat
    BY <2>2, FS_Subset, FS_CardinalityType
  <2>6. Cardinality(W \cup L) = Cardinality(W) + Cardinality(L) - Cardinality(W \cap L)
    BY <2>5, FS_Union
  <2>7. Cardinality(W \cap L) = 0
    BY <2>4, FS_EmptySet
  <2>8. Cardinality(W) + Cardinality(L) = Cardinality(Felt(k))
    <3>1. Cardinality(W \cup L) = Cardinality(W) + Cardinality(L) - 0
      BY <2>6, <2>7
    <3>2. Cardinality(W) + Cardinality(L) - 0 = Cardinality(W) + Cardinality(L)
      BY <2>5
    <3>3. Cardinality(W \cup L) = Cardinality(Felt(k))
      BY <2>3
    <3> QED BY <3>1, <3>2, <3>3
  <2> QED BY <2>8 DEF W, L, Ended
<1> QED BY <1>2, <1>3, <1>4

LEMMA TiltExact == ASSUME Inv, SessionTilt PROVE TiltsExact'
<1>1. PICK following : following = [s \in Sessions |->
          Cardinality({n \in DOMAIN Lagged(s) : n > 1 /\ Lagged(s)[n - 1].outcome = "loss"})]
  OBVIOUS
<1>2. /\ trades' = trades /\ trades \in Seeds
      /\ tilts' = [s \in Sessions |->
             IF Lagged(s) = <<>> THEN tilts[s]
             ELSE [total |-> Len(Lagged(s)), following |-> following[s]]]
  BY <1>1 DEF SessionTilt, Inv
<1> SUFFICES ASSUME NEW s \in Sessions, ClosedIn(s)' # {}
             PROVE  tilts'[s].following = Cardinality(Following(s)')
  BY DEF TiltsExact
<1>3. ClosedIn(s)' = ClosedIn(s) /\ Following(s)' = Following(s)
  BY <1>2, RowsKept DEF Following, Preceding
<1>4. Lagged(s) # <<>> /\ following[s] = Cardinality(Following(s))
  BY <1>1, <1>2, <1>3, LaggedFollowing
<1>5. tilts'[s].following = following[s]
  BY <1>2, <1>4
<1> QED BY <1>3, <1>4, <1>5

LEMMA CommitKeeps ==
    ASSUME Inv, Commit, NEW u \in Users, Rated(u) # {}
    PROVE  snapshots'[u].score = snapshots[u].score
<1>1. /\ at = "commit"
      /\ snapshots' = [v \in Users |-> IF snapshots[v] = None /\ found[v] = <<>> THEN None
                                       ELSE [Row(v) EXCEPT !.spikes = Len(found[v])]]
  BY DEF Commit
<1>2. Row(u) \in SnapshotRows /\ Row(u) = snapshots[u] /\ snapshots[u] # None
  BY <1>1, RatedRow DEF Late
<1>3. snapshots'[u] = [Row(u) EXCEPT !.spikes = Len(found[u])]
  BY <1>1, <1>2
<1>4. PICK row \in SnapshotRows : row = Row(u)
  BY <1>2
<1>5. [row EXCEPT !.spikes = Len(found[u])].score = row.score
  BY DEF SnapshotRows
<1> QED BY <1>2, <1>3, <1>4, <1>5

LEMMA StageStep == Inv /\ StageInv /\ [Next]_vars => StageInv'
<1> SUFFICES ASSUME Inv, StageInv, [Next]_vars PROVE StageInv'
  OBVIOUS
<1> USE DEF AfterPlan, AfterWin, AfterTilt
<1>1. CASE Start \/ Fail \/ ResetFlags \/ SetFlags \/ CountRevenge
  <2>1. at' \in {"down", "skipped", "reset", "flag", "revenge", "plan"}
    BY <1>1 DEF Start, Fail, ResetFlags, SetFlags, CountRevenge, Then
  <2> QED BY <2>1 DEF StageInv
<1>2. CASE PlanAdherence
  <2>1. at' \in {"win", "down"}
    BY <1>2 DEF PlanAdherence, Then
  <2> QED BY <1>2, <2>1, PlanExact DEF StageInv
<1>3. CASE WinRate
  <2>1. at = "win" /\ at' \in {"tilt", "down"} /\ UNCHANGED <<trades, snapshots>>
    BY <1>3 DEF WinRate, Then
  <2>2. ScoresExact'
    BY <2>1, ScoresKept DEF StageInv
  <2> QED BY <1>3, <2>1, <2>2, WinsExact DEF StageInv
<1>4. CASE SessionTilt
  <2>1. at = "tilt" /\ at' \in {"scan", "down"} /\ UNCHANGED <<trades, snapshots, tally>>
    BY <1>4 DEF SessionTilt, Then
  <2>2. ScoresExact' /\ TalliesExact'
    BY <2>1, ScoresKept, TalliesKept DEF StageInv
  <2> QED BY <1>4, <2>1, <2>2, TiltExact DEF StageInv
<1>5. CASE Scan
  <2>1. at = "scan" /\ at' = "commit" /\ UNCHANGED <<trades, snapshots, tally, tilts>>
    BY <1>5 DEF Scan, tables
  <2>2. ScoresExact' /\ TalliesExact' /\ TiltsExact'
    BY <2>1, ScoresKept, TalliesKept, TiltsKept DEF StageInv
  <2> QED BY <2>2 DEF StageInv
<1>6. CASE Commit
  <2>1. at = "commit" /\ UNCHANGED <<trades, tally, tilts>>
    BY <1>6 DEF Commit
  <2>2. ScoresExact'
    BY <1>6, <2>1, CommitKeeps, ScoresKept DEF StageInv
  <2>3. TalliesExact' /\ TiltsExact'
    BY <2>1, TalliesKept, TiltsKept DEF StageInv
  <2> QED BY <2>2, <2>3 DEF StageInv
<1>7. CASE UNCHANGED vars
  <2>1. at' = at /\ UNCHANGED <<trades, snapshots, tally, tilts>>
    BY <1>7 DEF vars, tables
  <2> QED BY <2>1, ScoresKept, TalliesKept, TiltsKept DEF StageInv
<1> QED BY <1>1, <1>2, <1>3, <1>4, <1>5, <1>6, <1>7 DEF Next

(* A completed BackfillFromTrades leaves the scores, tallies and tilts that *)
(* the closed trades define, whatever a worker or an interrupted run had    *)
(* written: ROW_NUMBER, whatever way it breaks ties, and LAG over the       *)
(* sorted rows agree with asking for the latest exits and for the trade     *)
(* right before, for all contents of the table.                             *)
THEOREM SnapshotsCorrect == Spec => []SnapshotsExact
<1>1. Init => StageInv
  BY DEF Init, StageInv, AfterPlan, AfterWin, AfterTilt
<1>2. StageInv => SnapshotsExact
  <2> SUFFICES ASSUME StageInv, at = "done" PROVE SnapshotsExact
    BY DEF SnapshotsExact
  <2>1. ScoresExact /\ TalliesExact /\ TiltsExact
    BY DEF StageInv, AfterPlan, AfterWin, AfterTilt
  <2> QED BY <2>1 DEF SnapshotsExact, ScoresExact, TalliesExact, TiltsExact, Latest, Following, Preceding
<1> QED BY <1>1, <1>2, InitInv, NextInv, StageStep, PTL DEF Spec

----------------------------------------------------------------------------
(* The walk of the scan is the one function its recursion describes.        *)

LEMMA SetInduction ==
    ASSUME NEW S, NEW N \in Nat, 0 \in S, \A n \in 0 .. N - 1 : n \in S => n + 1 \in S
    PROVE  \A n \in 0 .. N : n \in S
<1> DEFINE T == (0 .. N) \ S
<1> SUFFICES ASSUME T # {} PROVE FALSE
  OBVIOUS
<1>1. T \subseteq Nat
  OBVIOUS
<1>2. PICK m \in T : \A y \in T : ~(<<y, m>> \in OpToRel(<, Nat))
  <2> HIDE DEF T
  <2> QED BY <1>1, NatLessThanWellFounded, WFMin
<1>3. \A y \in T : ~(y < m)
  BY <1>1, <1>2 DEF OpToRel
<1>4. m # 0 /\ m \in 1 .. N
  OBVIOUS
<1>5. m - 1 \in 0 .. N - 1 /\ m - 1 < m
  BY <1>4
<1>6. m - 1 \in S
  BY <1>3, <1>5
<1> QED BY <1>4, <1>5, <1>6

LEMMA WalkTurns ==
    ASSUME NEW e, Len(e) \in Nat
    PROVE  /\ Walk(e)[0] = Fresh
           /\ \A n \in 1 .. Len(e) : Walk(e)[n] = Visit(Walk(e)[n - 1], e[n])
<1> DEFINE N == Len(e)
           Goes(w, k) == w[0] = Fresh /\ \A n \in 1 .. k : w[n] = Visit(w[n - 1], e[n])
           S == {k \in 0 .. N : \E w : Goes(w, k)}
           Turn(w) == [n \in 0 .. N |-> IF n = 0 THEN Fresh ELSE Visit(w[n - 1], e[n])]
<1>1. 0 \in S
  <2>1. Goes([n \in {0} |-> Fresh], 0)
    OBVIOUS
  <2> HIDE DEF Goes
  <2> QED BY <2>1
<1>2. ASSUME NEW k \in 0 .. N - 1, k \in S PROVE k + 1 \in S
  <2>1. PICK w : Goes(w, k)
    BY <1>2
  <2> DEFINE x == [n \in 0 .. N |-> IF n = k + 1 THEN Visit(w[k], e[k + 1]) ELSE w[n]]
  <2>2. x[0] = Fresh
    BY <2>1
  <2>3. ASSUME NEW n \in 1 .. k + 1 PROVE x[n] = Visit(x[n - 1], e[n])
    <3>1. CASE n = k + 1
      <4>1. n \in 0 .. N /\ n - 1 = k /\ k \in 0 .. N /\ k # k + 1
        BY <3>1
      <4>2. x[n] = Visit(w[k], e[n]) /\ x[n - 1] = w[k]
        BY <3>1, <4>1
      <4> HIDE DEF x
      <4> QED BY <4>2
    <3>2. CASE n # k + 1
      <4>1. n \in 1 .. k /\ n \in 0 .. N /\ n - 1 \in 0 .. N /\ n - 1 # k + 1
        BY <3>2
      <4>2. x[n] = w[n] /\ x[n - 1] = w[n - 1]
        BY <3>2, <4>1
      <4>3. w[n] = Visit(w[n - 1], e[n])
        BY <2>1, <4>1
      <4> HIDE DEF x, Goes
      <4> QED BY <4>2, <4>3
    <3> QED BY <3>1, <3>2
  <2>4. Goes(x, k + 1)
    <3> HIDE DEF x
    <3> QED BY <2>2, <2>3
  <2> HIDE DEF Goes, x
  <2> QED BY <2>4
<1>3. N \in S
  <2>1. N \in Nat
    OBVIOUS
  <2> HIDE DEF S, N
  <2>2. \A n \in 0 .. N : n \in S
    BY <1>1, <1>2, <2>1, SetInduction
  <2> QED BY <2>1, <2>2
<1>4. PICK w : Goes(w, N)
  BY <1>3
<1> DEFINE v == [n \in 0 .. N |-> w[n]]
<1>5. v = Turn(v)
  <2> SUFFICES ASSUME NEW n \in 0 .. N PROVE w[n] = IF n = 0 THEN Fresh ELSE Visit(v[n - 1], e[n])
    OBVIOUS
  <2>1. CASE n = 0
    BY <1>4, <2>1
  <2>2. CASE n # 0
    <3>1. n \in 1 .. N /\ n - 1 \in 0 .. N
      BY <2>2
    <3>2. v[n - 1] = w[n - 1] /\ w[n] = Visit(w[n - 1], e[n])
      BY <1>4, <3>1
    <3> HIDE DEF v, Goes
    <3> QED BY <2>2, <3>2
  <2> QED BY <2>1, <2>2
<1>6. Walk(e) = CHOOSE x : x = Turn(x)
  BY DEF Walk
<1> DEFINE W == Walk(e)
<1>7. W = Turn(W)
  <2> HIDE DEF v, Turn, W
  <2>1. \E x : x = Turn(x)
    BY <1>5
  <2> QED BY <1>6, <2>1 DEF W
<1> HIDE DEF W
<1>8. W[0] = Fresh
  BY <1>7
<1>9. ASSUME NEW n \in 1 .. N PROVE W[n] = Visit(W[n - 1], e[n])
  BY <1>7
<1> QED BY <1>8, <1>9 DEF W

----------------------------------------------------------------------------
(* One turn of the walk.                                                    *)

(* A set of positions that has, with each, all before it.                   *)
LEMMA InitialSegment ==
    ASSUME NEW c \in Nat, NEW G \in SUBSET (1 .. c), \A i \in G, j \in 1 .. c : j <= i => j \in G
    PROVE  \E g \in 0 .. c : G = 1 .. g /\ Cardinality(G) = g
<1>1. CASE G = {}
  <2>1. G = 1 .. 0 /\ Cardinality(G) = 0
    BY <1>1, FS_EmptySet
  <2> QED BY <2>1
<1>2. CASE G # {}
  <2> DEFINE g == Max(G)
  <2>1. G \in SUBSET (0 .. c)
    OBVIOUS
  <2>2. g \in G /\ \A y \in G : y <= g
    BY <1>2, <2>1, LargestExists
  <2> HIDE DEF g
  <2>3. G = 1 .. g /\ g \in 0 .. c
    <3>1. g \in 1 .. c
      BY <2>2
    <3>2. \A y \in 1 .. c : y \in G <=> y <= g
      BY <2>2
    <3>3. 1 .. g \in SUBSET (1 .. c)
      BY <3>1
    <3>4. \A y \in 1 .. c : y \in 1 .. g <=> y <= g
      BY <3>1
    <3>5. G = 1 .. g
      BY <3>2, <3>3, <3>4
    <3> QED BY <3>1, <3>5
  <2>4. Cardinality(1 .. g) = g
    BY <2>3, FS_Interval
  <2> QED BY <2>3, <2>4
<1> QED BY <1>1, <1>2

(* What Slide drops lies before the cutoff, what it keeps does not.         *)
LEMMA Slid ==
    ASSUME NEW w \in Seq(Nat), NEW t \in Nat,
           \A i, j \in 1 .. Len(w) : i <= j => w[i] <= w[j]
    PROVE  \E g \in 0 .. Len(w) :
              /\ Slide(w, t) = SubSeq(w, g + 1, Len(w))
              /\ \A i \in 1 .. Len(w) : w[i] + Window < t <=> i <= g
<1> DEFINE c == Len(w)
           G == {n \in DOMAIN w : \A m \in 1 .. n : w[m] + Window < t}
<1>1. c \in Nat /\ DOMAIN w = 1 .. c /\ \A i \in 1 .. c : w[i] \in Nat
  BY LenProperties
<1>2. Window \in Nat
  BY BoundsAssumption
<1> HIDE DEF c
<1>3. \A i \in 1 .. c : i \in G <=> w[i] + Window < t
  <2> SUFFICES ASSUME NEW i \in 1 .. c, w[i] + Window < t, NEW m \in 1 .. i
               PROVE  w[m] + Window < t
    BY <1>1
  <2>1. m \in 1 .. c /\ m <= i
    BY <1>1
  <2>2. w[m] <= w[i] /\ w[m] \in Nat /\ w[i] \in Nat
    BY <1>1, <2>1 DEF c
  <2> QED BY <1>2, <2>2
<1>4. G \in SUBSET (1 .. c)
  BY <1>1
<1>5. \A i \in G, j \in 1 .. c : j <= i => j \in G
  <2> SUFFICES ASSUME NEW i \in G, NEW j \in 1 .. c, j <= i PROVE w[j] + Window < t
    BY <1>3
  <2>1. i \in 1 .. c /\ w[i] + Window < t
    BY <1>3, <1>4
  <2>2. w[j] <= w[i] /\ w[j] \in Nat /\ w[i] \in Nat
    BY <1>1, <2>1 DEF c
  <2> QED BY <1>2, <2>1, <2>2
<1>6. Slide(w, t) = SubSeq(w, Cardinality(G) + 1, c)
  BY DEF Slide, c
<1> HIDE DEF G
<1>7. PICK g \in 0 .. c : G = 1 .. g /\ Cardinality(G) = g
  BY <1>1, <1>4, <1>5, InitialSegment
<1>8. \A i \in 1 .. c : w[i] + Window < t <=> i <= g
  BY <1>3, <1>7
<1> QED BY <1>6, <1>7, <1>8 DEF c

----------------------------------------------------------------------------
(* What the walk has found after n entries e[1], ..., e[n].                 *)

Rising(e) == \A m, n \in 1 .. Len(e) : m <= n => e[m] <= e[n]

Span(e, n)  == {m \in 1 .. n : e[n] <= e[m] + Window}
Over(e, n)  == n > 0 /\ Cardinality(Span(e, n)) > Limit
Begun(e, n) == {m \in 1 .. n : Over(e, m) /\ ~Over(e, m - 1)}

SpikeRows == [from : Nat, to : Nat, count : Nat]
Spike(e, m) == [from  |-> e[m - Cardinality(Span(e, m)) + 1], to |-> e[m],
                count |-> Cardinality(Span(e, m))]

(* The window holds the entries within reach of the last.                   *)
Holds(e, n, window) ==
    /\ window \in Seq(Nat) /\ Len(window) \in 0 .. n
    /\ \A j \in 1 .. Len(window) : window[j] = e[n - Len(window) + j]
    /\ \A m \in 1 .. n : e[n] <= e[m] + Window <=> m > n - Len(window)

Lists(e, n, events) ==
    /\ events \in Seq(SpikeRows)
    /\ ToSet(events) = {Spike(e, m) : m \in Begun(e, n)}
    /\ Len(events) = Cardinality(Begun(e, n))

LEMMA TimesType ==
    ASSUME NEW e \in Seq(Nat)
    PROVE  /\ Len(e) \in Nat /\ DOMAIN e = 1 .. Len(e) /\ Window \in Nat /\ Limit \in Nat
           /\ \A n \in 1 .. Len(e) : e[n] \in Nat
BY LenProperties, BoundsAssumption

LEMMA SpanSize ==
    ASSUME NEW e \in Seq(Nat), NEW n \in 1 .. Len(e), NEW window, Holds(e, n, window)
    PROVE  /\ Span(e, n) = n - Len(window) + 1 .. n
           /\ Cardinality(Span(e, n)) = Len(window) /\ Len(window) \in 1 .. n
<1> DEFINE c == Len(window)
<1>1. /\ c \in 0 .. n /\ n \in Nat /\ n \in 1 .. n /\ e[n] \in Nat /\ Window \in Nat
      /\ \A m \in 1 .. n : e[n] <= e[m] + Window <=> m > n - c
  BY TimesType DEF Holds
<1> HIDE DEF c
<1>2. c \in 1 .. n
  BY <1>1
<1>3. \A m \in 1 .. n : m \in Span(e, n) <=> m > n - c
  BY <1>1 DEF Span
<1>4. Span(e, n) \in SUBSET (1 .. n)
  BY DEF Span
<1>5. Span(e, n) = n - c + 1 .. n
  <2>1. \A m \in 1 .. n : m \in n - c + 1 .. n <=> m > n - c
    BY <1>1, <1>2
  <2>2. n - c + 1 .. n \in SUBSET (1 .. n)
    BY <1>1, <1>2
  <2> QED BY <1>3, <1>4, <2>1, <2>2
<1>6. n - c + 1 \in Int /\ n \in Int /\ ~(n - c + 1 > n) /\ n - (n - c + 1) + 1 = c
  BY <1>1, <1>2
<1>7. Cardinality(n - c + 1 .. n) = n - (n - c + 1) + 1
  BY <1>6, FS_Interval
<1> QED BY <1>2, <1>5, <1>6, <1>7 DEF c

LEMMA WindowMoves ==
    ASSUME NEW e \in Seq(Nat), Rising(e), NEW n \in 1 .. Len(e),
           NEW window, Holds(e, n - 1, window)
    PROVE  Holds(e, n, Append(Slide(window, e[n]), e[n]))
<1> DEFINE k == n - 1
           c == Len(window)
           t == e[n]
           slid == Slide(window, t)
           moved == Append(slid, t)
<1>1. /\ k \in Nat /\ n = k + 1 /\ Len(e) \in Nat /\ Window \in Nat /\ t \in Nat
      /\ \A m \in 1 .. n : e[m] \in Nat /\ e[m] <= t
  BY TimesType DEF Rising
<1>2. /\ window \in Seq(Nat) /\ c \in 0 .. k
      /\ \A j \in 1 .. c : window[j] = e[k - c + j]
      /\ \A m \in 1 .. k : e[k] <= e[m] + Window <=> m > k - c
  BY DEF Holds
<1>3. \A i, j \in 1 .. c : i <= j => window[i] <= window[j]
  <2> SUFFICES ASSUME NEW i \in 1 .. c, NEW j \in 1 .. c, i <= j
               PROVE  e[k - c + i] <= e[k - c + j]
    BY <1>2
  <2> HIDE DEF k, c
  <2>1. k - c + i \in 1 .. Len(e) /\ k - c + j \in 1 .. Len(e) /\ k - c + i <= k - c + j
    <3>1. /\ i \in Nat /\ 1 <= i /\ i <= c /\ j \in Nat /\ 1 <= j /\ j <= c
          /\ k \in Nat /\ c \in Nat /\ c <= k /\ k < Len(e) /\ Len(e) \in Nat
      BY <1>1, <1>2
    <3> QED BY <3>1
  <2> QED BY <2>1 DEF Rising
<1> HIDE DEF k, c, t
<1>4. PICK g \in 0 .. c : /\ slid = SubSeq(window, g + 1, c)
                          /\ \A i \in 1 .. c : window[i] + Window < t <=> i <= g
  BY <1>1, <1>2, <1>3, Slid DEF c
<1> HIDE DEF slid
<1>5. /\ slid \in Seq(Nat) /\ Len(slid) = c - g
      /\ \A i \in 1 .. c - g : slid[i] = window[g + i]
  <2>1. g + 1 \in Int /\ c \in Int /\ \A i \in g + 1 .. c : window[i] \in Nat
    <3>1. \A i \in 1 .. c : window[i] \in Nat
      BY <1>2, ElementOfSeq DEF c
    <3> QED BY <1>2, <3>1
  <2>2. /\ slid \in Seq(Nat) /\ Len(slid) = IF g + 1 <= c THEN c - (g + 1) + 1 ELSE 0
        /\ \A i \in 1 .. c - (g + 1) + 1 : slid[i] = window[g + 1 + i - 1]
    BY <1>4, <2>1, SubSeqProperties
  <2>3. c - (g + 1) + 1 = c - g /\ \A i \in 1 .. c - g : g + 1 + i - 1 = g + i
    BY <1>2
  <2>4. Len(slid) = c - g
    BY <1>2, <2>2
  <2> QED BY <2>2, <2>3, <2>4
<1>6. /\ moved \in Seq(Nat) /\ Len(moved) = c - g + 1
      /\ \A i \in 1 .. c - g : moved[i] = window[g + i]
      /\ moved[c - g + 1] = t
  BY <1>1, <1>5, AppendProperties
<1> HIDE DEF moved
<1> DEFINE d == c - g + 1
<1>7. d \in 0 .. n /\ n - d = k - c + g
  BY <1>1, <1>2
<1>8. ASSUME NEW j \in 1 .. d PROVE moved[j] = e[n - d + j]
  <2>1. CASE j = d
    <3>1. n - d + j = n
      BY <1>1, <1>2, <2>1
    <3> QED BY <1>6, <2>1, <3>1 DEF t
  <2>2. CASE j # d
    <3>1. j \in 1 .. c - g /\ g + j \in 1 .. c /\ k - c + (g + j) = n - d + j
      BY <1>1, <1>2, <2>2
    <3>2. moved[j] = window[g + j] /\ window[g + j] = e[k - c + (g + j)]
      BY <1>2, <1>6, <3>1
    <3> QED BY <3>1, <3>2
  <2> QED BY <2>1, <2>2
<1>9. ASSUME NEW m \in 1 .. n PROVE t <= e[m] + Window <=> m > n - d
  <2>1. e[m] \in Nat /\ e[m] <= t /\ m \in Int
    BY <1>1
  <2>2. CASE m = n
    BY <1>1, <1>2, <2>1, <2>2 DEF t
  <2>3. CASE m # n /\ m > k - c
    <3>1. m - (k - c) \in 1 .. c /\ k - c + (m - (k - c)) = m
      BY <1>1, <1>2, <2>3
    <3>2. window[m - (k - c)] = e[m]
      BY <1>2, <3>1
    <3>3. e[m] + Window < t <=> m - (k - c) <= g
      BY <1>4, <3>1, <3>2
    <3> QED BY <1>1, <1>2, <1>7, <2>1, <3>3
  <2>4. CASE m # n /\ ~(m > k - c)
    <3>1. m \in 1 .. k /\ k \in 1 .. n
      BY <1>1, <2>4
    <3>2. ~(e[k] <= e[m] + Window) /\ e[k] \in Nat /\ e[k] <= t
      BY <1>1, <1>2, <2>4, <3>1
    <3>3. ~(t <= e[m] + Window)
      BY <1>1, <2>1, <3>2
    <3>4. ~(m > n - d)
      BY <1>1, <1>2, <1>7, <2>4
    <3> QED BY <3>3, <3>4
  <2> QED BY <2>2, <2>3, <2>4
<1>10. Holds(e, n, moved)
  BY <1>6, <1>7, <1>8, <1>9 DEF Holds, t
<1> QED BY <1>10 DEF moved, slid, t

Follows(e, n, w) == /\ Holds(e, n, w.window)
                    /\ w.inSpike \in BOOLEAN /\ (w.inSpike <=> Over(e, n))
                    /\ Lists(e, n, w.events)

LEMMA BegunGrows ==
    ASSUME NEW e \in Seq(Nat), NEW n \in 1 .. Len(e)
    PROVE  /\ IsFiniteSet(Begun(e, n - 1)) /\ n \notin Begun(e, n - 1)
           /\ Begun(e, n) = IF Over(e, n) /\ ~Over(e, n - 1) THEN Begun(e, n - 1) \cup {n}
                                                              ELSE Begun(e, n - 1)
<1>1. n \in Nat /\ n \in 1 .. n /\ n \notin 1 .. n - 1 /\ 1 .. n = 1 .. n - 1 \cup {n}
  BY TimesType
<1>2. IsFiniteSet(1 .. n - 1)
  BY <1>1, FS_Interval
<1>3. Begun(e, n - 1) \in SUBSET (1 .. n - 1)
  BY DEF Begun
<1>4. IsFiniteSet(Begun(e, n - 1))
  BY <1>2, <1>3, FS_Subset
<1>5. \A m : m \in Begun(e, n) <=> m \in Begun(e, n - 1) \/ (m = n /\ Over(e, n) /\ ~Over(e, n - 1))
  BY <1>1 DEF Begun
<1>6. n \notin Begun(e, n - 1)
  BY <1>1, <1>3
<1>7. CASE Over(e, n) /\ ~Over(e, n - 1)
  <2>1. Begun(e, n) = Begun(e, n - 1) \cup {n}
    BY <1>5, <1>7
  <2> QED BY <1>4, <1>6, <1>7, <2>1
<1>8. CASE ~(Over(e, n) /\ ~Over(e, n - 1))
  <2>1. Begun(e, n) = Begun(e, n - 1)
    BY <1>5, <1>8
  <2> QED BY <1>4, <1>6, <1>8, <2>1
<1> QED BY <1>7, <1>8

LEMMA Listed ==
    ASSUME NEW e \in Seq(Nat), NEW n \in 1 .. Len(e), NEW events, Lists(e, n - 1, events),
           Over(e, n), ~Over(e, n - 1), NEW s, s = Spike(e, n), s \in SpikeRows
    PROVE  Lists(e, n, Append(events, s))
<1> DEFINE more == Append(events, s)
           k == Len(events)
<1>1. /\ events \in Seq(SpikeRows) /\ ToSet(events) = {Spike(e, m) : m \in Begun(e, n - 1)}
      /\ k = Cardinality(Begun(e, n - 1)) /\ k \in Nat /\ DOMAIN events = 1 .. k
  BY LenProperties DEF Lists
<1>2. /\ more \in Seq(SpikeRows) /\ Len(more) = k + 1
      /\ \A i \in 1 .. k : more[i] = events[i]
      /\ more[k + 1] = s
  BY <1>1, AppendProperties
<1>3. Begun(e, n) = Begun(e, n - 1) \cup {n} /\ Cardinality(Begun(e, n)) = k + 1
  <2>1. /\ IsFiniteSet(Begun(e, n - 1)) /\ n \notin Begun(e, n - 1)
        /\ Begun(e, n) = Begun(e, n - 1) \cup {n}
    BY BegunGrows
  <2>2. Cardinality(Begun(e, n - 1) \cup {n}) = Cardinality(Begun(e, n - 1)) + 1
    BY <2>1, FS_AddElement
  <2> QED BY <1>1, <2>1, <2>2
<1>4. ToSet(more) = ToSet(events) \cup {s}
  <2>1. DOMAIN more = 1 .. k + 1 /\ 1 .. k + 1 = 1 .. k \cup {k + 1}
    BY <1>1, <1>2, LenProperties
  <2>2. ToSet(more) = {more[i] : i \in 1 .. k} \cup {more[k + 1]}
    BY <2>1 DEF ToSet
  <2>3. ToSet(events) = {events[i] : i \in 1 .. k}
    BY <1>1 DEF ToSet
  <2> HIDE DEF more
  <2>4. {more[i] : i \in 1 .. k} = {events[i] : i \in 1 .. k}
    BY <1>2
  <2> QED BY <1>2, <2>2, <2>3, <2>4
<1>5. {Spike(e, m) : m \in Begun(e, n)} = {Spike(e, m) : m \in Begun(e, n - 1)} \cup {s}
  BY <1>3
<1> HIDE DEF more
<1>6. Lists(e, n, more)
  BY <1>1, <1>2, <1>3, <1>4, <1>5 DEF Lists
<1> QED BY <1>6 DEF more

(* The walk crosses the limit where the count of the entries within reach   *)
(* does, and reports that count and the time of the first of them.          *)
LEMMA Turned ==
    ASSUME NEW e \in Seq(Nat), Rising(e), NEW n \in 1 .. Len(e),
           NEW w, Follows(e, n - 1, w)
    PROVE  Follows(e, n, Visit(w, e[n]))
<1> DEFINE window == Append(Slide(w.window, e[n]), e[n])
           over == Len(window) > Limit
           c == Len(window)
           s == [from |-> window[1], to |-> e[n], count |-> c]
           v == Visit(w, e[n])
<1>1. Holds(e, n, window)
  BY WindowMoves DEF Follows
<1>2. Cardinality(Span(e, n)) = c /\ c \in 1 .. n
  BY <1>1, SpanSize
<1>3. n \in Nat /\ n > 0 /\ e[n] \in Nat /\ Limit \in Nat
  BY TimesType
<1>4. over <=> Over(e, n)
  BY <1>2, <1>3 DEF Over
<1>5. /\ v.window = window
      /\ v.inSpike = over
      /\ v.events = IF over /\ ~w.inSpike THEN Append(w.events, s) ELSE w.events
  BY DEF Visit
<1>6. s = Spike(e, n) /\ s \in SpikeRows
  <2>1. window[1] = e[n - c + 1] /\ window[1] \in Nat
    <3>1. window \in Seq(Nat) /\ \A j \in 1 .. c : window[j] = e[n - c + j]
      BY <1>1 DEF Holds
    <3>2. 1 \in 1 .. c
      BY <1>2, <1>3
    <3> HIDE DEF window
    <3> QED BY <3>1, <3>2, ElementOfSeq
  <2> HIDE DEF window
  <2>2. c \in Nat
    BY <1>2, <1>3
  <2> QED BY <1>2, <1>3, <2>1, <2>2 DEF Spike, SpikeRows
<1>7. /\ w.inSpike <=> Over(e, n - 1)
      /\ Lists(e, n - 1, w.events)
  BY DEF Follows
<1> HIDE DEF window, s, v
<1>8. Lists(e, n, v.events)
  <2>1. CASE Over(e, n) /\ ~Over(e, n - 1)
    <3>1. v.events = Append(w.events, s)
      BY <1>4, <1>5, <1>7, <2>1
    <3> QED BY <1>6, <1>7, <2>1, <3>1, Listed
  <2>2. CASE ~(Over(e, n) /\ ~Over(e, n - 1))
    <3>1. v.events = w.events
      BY <1>4, <1>5, <1>7, <2>2
    <3>2. Begun(e, n) = Begun(e, n - 1)
      BY <2>2, BegunGrows
    <3> QED BY <1>7, <3>1, <3>2 DEF Lists
  <2> QED BY <2>1, <2>2
<1>9. v.inSpike \in BOOLEAN /\ (v.inSpike <=> Over(e, n))
  <2>1. CASE Over(e, n)
    <3>1. v.inSpike = TRUE
      BY <1>4, <1>5, <2>1
    <3> QED BY <2>1, <3>1
  <2>2. CASE ~Over(e, n)
    <3>1. over = FALSE
      BY <1>4, <2>2
    <3>2. v.inSpike = over
      BY <1>5
    <3> HIDE DEF over
    <3>3. v.inSpike = FALSE
      BY <3>1, <3>2
    <3> QED BY <2>2, <3>3
  <2> QED BY <2>1, <2>2
<1>10. Follows(e, n, v)
  BY <1>1, <1>5, <1>8, <1>9 DEF Follows
<1> QED BY <1>10 DEF v

(* All of it, by induction on the turns.                                    *)
LEMMA WalkFollows ==
    ASSUME NEW e \in Seq(Nat), Rising(e)
    PROVE  \A n \in 0 .. Len(e) : Follows(e, n, Walk(e)[n])
<1> DEFINE N == Len(e)
           W == Walk(e)
           S == {n \in 0 .. N : Follows(e, n, W[n])}
<1>1. N \in Nat
  BY TimesType
<1>2. W[0] = Fresh /\ \A n \in 1 .. N : W[n] = Visit(W[n - 1], e[n])
  BY <1>1, WalkTurns
<1> HIDE DEF W
<1>3. Follows(e, 0, Fresh)
  <2>1. Holds(e, 0, <<>>)
    <3>1. <<>> \in Seq(Nat) /\ Len(<<>>) = 0
      BY EmptySeq
    <3> QED BY <3>1 DEF Holds
  <2>2. ~Over(e, 0)
    BY DEF Over
  <2>3. Lists(e, 0, <<>>)
    <3>1. Begun(e, 0) = {}
      BY DEF Begun
    <3>2. <<>> \in Seq(SpikeRows) /\ Len(<<>>) = 0 /\ Cardinality(Begun(e, 0)) = 0
      BY <3>1, EmptySeq, FS_EmptySet
    <3>3. ToSet(<<>>) = {}
      BY DEF ToSet
    <3> QED BY <3>1, <3>2, <3>3 DEF Lists
  <2>4. Fresh.window = <<>> /\ Fresh.inSpike = FALSE /\ Fresh.events = <<>>
    BY DEF Fresh
  <2> QED BY <2>1, <2>2, <2>3, <2>4 DEF Follows
<1>4. 0 \in S
  BY <1>1, <1>2, <1>3
<1>5. ASSUME NEW n \in 0 .. N - 1, n \in S PROVE n + 1 \in S
  <2>1. n + 1 \in 1 .. N /\ n + 1 \in 0 .. N /\ (n + 1) - 1 = n
    BY <1>1
  <2>2. Follows(e, (n + 1) - 1, W[n])
    BY <1>5, <2>1
  <2>3. Follows(e, n + 1, Visit(W[n], e[n + 1]))
    BY <2>1, <2>2, Turned
  <2> QED BY <1>2, <2>1, <2>3
<1>6. \A n \in 0 .. N : n \in S
  <2> HIDE DEF S, N
  <2> QED BY <1>1, <1>4, <1>5, SetInduction
<1> QED BY <1>6 DEF W

----------------------------------------------------------------------------
(* The rows of a user in the order the scan reads them.                     *)

LEMMA BeforeOrders ==
    ASSUME trades \in Seeds, NEW u
    PROVE  /\ IsFiniteSet(TradesOf(u)) /\ Cardinality(TradesOf(u)) \in Nat
           /\ \A t \in TradesOf(u) : t \in trades /\ t.user = u /\ t.entry \in Nat
           /\ \A t \in TradesOf(u) : ~Before(t, t)
           /\ \A x, t \in TradesOf(u) : x = t \/ Before(x, t) \/ Before(t, x)
           /\ \A x, t \in TradesOf(u) : Before(x, t) => x.entry <= t.entry /\ ~Before(t, x)
           /\ \A x, t, y \in TradesOf(u) : Before(x, t) /\ Before(t, y) => Before(x, y)
<1>1. IsFiniteSet(trades) /\ TradesOf(u) \in SUBSET trades
  BY SeedsAssumption DEF TradesOf
<1>2. IsFiniteSet(TradesOf(u)) /\ Cardinality(TradesOf(u)) \in Nat
  BY <1>1, FS_Subset, FS_CardinalityType
<1>3. \A t \in TradesOf(u) : /\ t \in trades /\ t.user = u /\ t.entry \in Nat /\ t.id \in Nat
                             /\ \A x \in TradesOf(u) : x.id = t.id => x = t
  BY SeedsAssumption DEF TradesOf
<1> HIDE DEF TradesOf
<1>4. \A x, t \in TradesOf(u) : x = t \/ Before(x, t) \/ Before(t, x)
  BY <1>3 DEF Before
<1> QED BY <1>2, <1>3, <1>4 DEF Before

LEMMA OrderedRows ==
    ASSUME trades \in Seeds, NEW u, NEW q, q = Ordered(u), NEW c, c = Cardinality(TradesOf(u))
    PROVE  /\ c \in Nat /\ q \in [1 .. c -> TradesOf(u)]
           /\ \A t \in TradesOf(u) : \E n \in 1 .. c : q[n] = t
           /\ \A m, n \in 1 .. c : Before(q[m], q[n]) <=> m < n
<1> DEFINE R == TradesOf(u)
           Up(t) == {x \in R : Before(x, t)}
           key == [t \in R |-> Cardinality(Up(t))]
<1>1. /\ IsFiniteSet(R) /\ c \in Nat
      /\ \A t \in R : ~Before(t, t)
      /\ \A x, t \in R : x = t \/ Before(x, t) \/ Before(t, x)
      /\ \A x, t \in R : Before(x, t) => ~Before(t, x)
      /\ \A x, t, y \in R : Before(x, t) /\ Before(t, y) => Before(x, y)
  BY BeforeOrders
<1> HIDE DEF R
<1>2. \A t \in R : Up(t) \in SUBSET R /\ IsFiniteSet(Up(t)) /\ Cardinality(Up(t)) \in Nat
  <2> SUFFICES ASSUME NEW t \in R
               PROVE  Up(t) \in SUBSET R /\ IsFiniteSet(Up(t)) /\ Cardinality(Up(t)) \in Nat
    OBVIOUS
  <2>1. Up(t) \in SUBSET R
    OBVIOUS
  <2> HIDE DEF Up
  <2> QED BY <1>1, <2>1, FS_Subset, FS_CardinalityType
<1>3. ASSUME NEW x \in R, NEW t \in R, Before(x, t) PROVE key[x] < key[t]
  <2>1. Up(x) \in SUBSET Up(t) /\ Up(x) # Up(t)
    <3>1. \A y \in Up(x) : y \in Up(t)
      BY <1>1, <1>3
    <3>2. x \in Up(t) /\ x \notin Up(x)
      BY <1>1, <1>3
    <3> HIDE DEF Up
    <3> QED BY <3>1, <3>2
  <2> HIDE DEF Up
  <2>2. Cardinality(Up(x)) <= Cardinality(Up(t)) /\ Cardinality(Up(x)) # Cardinality(Up(t))
    BY <1>2, <2>1, FS_Subset
  <2> QED BY <1>2, <2>2
<1>4. \A t \in R : key[t] \in Nat
  BY <1>2
<1>5. Keyed(R, key)
  <2>1. ASSUME NEW x \in R, NEW t \in R, key[x] = key[t] PROVE x = t
    <3>1. key[x] \in Nat
      BY <1>4
    <3> HIDE DEF key
    <3>2. ~Before(x, t) /\ ~Before(t, x)
      BY <1>3, <2>1, <3>1
    <3> QED BY <1>1, <3>2
  <2>2. key \in [R -> Int]
    BY <1>2
  <2> HIDE DEF key
  <2> QED BY <1>1, <2>1, <2>2 DEF Keyed
<1>6. \A x, t \in R : key[x] < key[t] <=> Before(x, t)
  <2> SUFFICES ASSUME NEW x \in R, NEW t \in R, key[x] < key[t] PROVE Before(x, t)
    BY <1>3
  <2>1. key[x] \in Nat /\ key[t] \in Nat
    BY <1>4
  <2> HIDE DEF key
  <2>2. x # t /\ ~Before(t, x)
    BY <1>3, <2>1
  <2> QED BY <1>1, <2>2
<1> HIDE DEF key
<1>7. \A p : InOrder(p, R, key) <=>
               p \in SetToSeqs(R) /\ \A m, n \in DOMAIN p : m < n => Before(p[m], p[n])
  <2> SUFFICES ASSUME NEW p, p \in [1 .. c -> R]
               PROVE  InOrder(p, R, key) <=>
                        /\ \A m, n \in 1 .. c : m # n => p[m] # p[n]
                        /\ \A m, n \in 1 .. c : m < n => Before(p[m], p[n])
    BY DEF InOrder, SetToSeqs, R
  <2>1. \A m, n \in 1 .. c : key[p[m]] < key[p[n]] <=> Before(p[m], p[n])
    BY <1>6
  <2>2. ASSUME \A m, n \in 1 .. c : m < n => Before(p[m], p[n]),
               NEW m \in 1 .. c, NEW n \in 1 .. c, m # n
        PROVE  p[m] # p[n]
    <3>1. p[m] \in R /\ p[n] \in R /\ (m < n \/ n < m)
      BY <1>1, <2>2
    <3> QED BY <1>1, <2>2, <3>1
  <2> QED BY <2>1, <2>2 DEF InOrder, R
<1>8. InOrder(q, R, key)
  <2>1. \E p : InOrder(p, R, key)
    BY <1>5, OrderExists
  <2>2. \E p \in SetToSeqs(R) : \A m, n \in DOMAIN p : m < n => Before(p[m], p[n])
    BY <1>7, <2>1
  <2>3. q \in SetToSeqs(R) /\ \A m, n \in DOMAIN q : m < n => Before(q[m], q[n])
    BY <2>2 DEF Ordered, R
  <2> QED BY <1>7, <2>3
<1>9. q \in Bijection(1 .. c, R)
  BY <1>5, <1>8, OrderRanks DEF R
<1>10. q \in [1 .. c -> R] /\ \A t \in R : \E n \in 1 .. c : q[n] = t
  BY <1>9 DEF Bijection, Injection, Surjection
<1>11. \A m, n \in 1 .. c : m < n => Before(q[m], q[n])
  BY <1>7, <1>8, <1>10
<1>12. \A m, n \in 1 .. c : Before(q[m], q[n]) => m < n
  <2> SUFFICES ASSUME NEW m \in 1 .. c, NEW n \in 1 .. c, Before(q[m], q[n]) PROVE m < n
    OBVIOUS
  <2>1. q[m] \in R /\ q[n] \in R
    BY <1>10
  <2>2. m # n /\ ~(n < m)
    BY <1>1, <1>11, <2>1
  <2> QED BY <1>1, <2>2
<1> QED BY <1>1, <1>10, <1>11, <1>12 DEF R

(* Their times, and the times and events of the walk in terms of the trades.*)
LEMMA EntriesRise ==
    ASSUME trades \in Seeds, NEW u, NEW q, q = Ordered(u), NEW c, c = Cardinality(TradesOf(u)),
           NEW e, e = Entries(u)
    PROVE  /\ e \in Seq(Nat) /\ Len(e) = c /\ Rising(e)
           /\ \A n \in 1 .. c : e[n] = q[n].entry
<1>1. /\ c \in Nat /\ q \in [1 .. c -> TradesOf(u)]
      /\ \A m, n \in 1 .. c : Before(q[m], q[n]) <=> m < n
  BY OrderedRows
<1>2. /\ \A t \in TradesOf(u) : t.entry \in Nat
      /\ \A x, t \in TradesOf(u) : Before(x, t) => x.entry <= t.entry
  BY BeforeOrders
<1>3. e = [n \in 1 .. c |-> q[n].entry]
  BY <1>1 DEF Entries
<1>4. e \in [1 .. c -> Nat]
  BY <1>1, <1>2, <1>3
<1>5. e \in Seq(Nat) /\ Len(e) = c
  BY <1>1, <1>4
<1>6. ASSUME NEW m \in 1 .. c, NEW n \in 1 .. c, m <= n PROVE e[m] <= e[n]
  <2>1. CASE m = n
    BY <1>4, <2>1
  <2>2. CASE m < n
    BY <1>1, <1>2, <1>3, <2>2
  <2> QED BY <1>1, <1>6, <2>1, <2>2
<1> QED BY <1>3, <1>5, <1>6 DEF Rising

(* The rows q of a user with the times e, as the walk goes through them.    *)
Scanned(u, q, e) ==
    /\ e \in Seq(Nat) /\ Rising(e)
    /\ q \in [1 .. Len(e) -> TradesOf(u)]
    /\ \A t \in TradesOf(u) : \E n \in 1 .. Len(e) : q[n] = t
    /\ \A m, n \in 1 .. Len(e) : Before(q[m], q[n]) <=> m < n
    /\ \A n \in 1 .. Len(e) : e[n] = q[n].entry

LEMMA ScanOrdered ==
    ASSUME trades \in Seeds, NEW u
    PROVE  Scanned(u, Ordered(u), Entries(u))
<1>1. PICK q, c, e : q = Ordered(u) /\ c = Cardinality(TradesOf(u)) /\ e = Entries(u)
  OBVIOUS
<1>2. /\ q \in [1 .. c -> TradesOf(u)]
      /\ \A t \in TradesOf(u) : \E n \in 1 .. c : q[n] = t
      /\ \A m, n \in 1 .. c : Before(q[m], q[n]) <=> m < n
  BY <1>1, OrderedRows
<1>3. e \in Seq(Nat) /\ Len(e) = c /\ Rising(e) /\ \A n \in 1 .. c : e[n] = q[n].entry
  BY <1>1, EntriesRise
<1>4. Scanned(u, q, e)
  BY <1>2, <1>3 DEF Scanned
<1> QED BY <1>1, <1>4

(* What the reference says of a trade, in terms of its place in the walk.   *)
LEMMA WindowRows ==
    ASSUME trades \in Seeds, NEW u, NEW q, NEW e, Scanned(u, q, e), NEW n \in 1 .. Len(e)
    PROVE  /\ \A m \in 1 .. Len(e) : q[m] \in InWindow(q[n]) <=> m \in Span(e, n)
           /\ \A x \in InWindow(q[n]) : \E m \in Span(e, n) : x = q[m]
           /\ Span(e, n) = n - Cardinality(Span(e, n)) + 1 .. n
           /\ Cardinality(Span(e, n)) \in 1 .. n
           /\ Span(e, n) \in SUBSET (1 .. Len(e)) /\ IsFiniteSet(Span(e, n))
<1> DEFINE R == TradesOf(u)
           c == Len(e)
           t == q[n]
           d == Cardinality(Span(e, n))
<1>1. /\ c \in Nat /\ q \in [1 .. c -> R] /\ \A x \in R : \E m \in 1 .. c : q[m] = x
      /\ \A m, k \in 1 .. c : Before(q[m], q[k]) <=> m < k
  BY TimesType DEF Scanned
<1>2. \A x \in R : x.user = u /\ ~Before(x, x)
  BY BeforeOrders
<1>3. /\ e \in Seq(Nat) /\ Len(e) = c /\ Rising(e) /\ \A m \in 1 .. c : e[m] = q[m].entry
  BY DEF Scanned
<1>4. PICK window : Holds(e, n, window)
  BY <1>1, <1>3, WalkFollows DEF Follows
<1>5. Span(e, n) = n - d + 1 .. n /\ d \in 1 .. n
  BY <1>3, <1>4, SpanSize
<1> HIDE DEF R, d
<1>6. Span(e, n) \in SUBSET (1 .. c) /\ IsFiniteSet(Span(e, n))
  <2>1. n - d + 1 \in Int /\ n \in Int /\ n - d + 1 .. n \in SUBSET (1 .. c)
    BY <1>1, <1>5
  <2> QED BY <1>5, <2>1, FS_Interval
<1>7. ASSUME NEW m \in 1 .. c PROVE q[m] \in InWindow(t) <=> m \in Span(e, n)
  <2>1. q[m] \in R /\ t \in R /\ t.user = u /\ e[m] = q[m].entry /\ e[n] = t.entry
    BY <1>1, <1>2, <1>3
  <2>2. q[m] = t \/ Before(q[m], t) <=> m <= n
    <3>1. q[m] = t => ~(m < n) /\ ~(n < m)
      BY <1>1, <1>2, <2>1
    <3> QED BY <1>1, <3>1
  <2>3. q[m] \in InWindow(t) <=> m <= n /\ e[n] <= e[m] + Window
    BY <2>1, <2>2 DEF InWindow, R
  <2>4. m \in Span(e, n) <=> m <= n /\ e[n] <= e[m] + Window
    BY <1>1 DEF Span
  <2> QED BY <2>3, <2>4
<1>8. \A x \in InWindow(t) : x \in R
  BY <1>1, <1>2 DEF InWindow, R
<1>9. \A x \in InWindow(t) : \E m \in Span(e, n) : x = q[m]
  BY <1>1, <1>7, <1>8
<1> QED BY <1>5, <1>6, <1>7, <1>9 DEF d

LEMMA WindowCount ==
    ASSUME trades \in Seeds, NEW u, NEW q, NEW e, Scanned(u, q, e), NEW n \in 1 .. Len(e)
    PROVE  Cardinality(InWindow(q[n])) = Cardinality(Span(e, n))
<1> DEFINE c == Len(e)
           f == [m \in Span(e, n) |-> q[m]]
           S == InWindow(q[n])
<1>1. /\ \A m \in 1 .. c : q[m] \in S <=> m \in Span(e, n)
      /\ \A x \in S : \E m \in Span(e, n) : x = q[m]
      /\ Span(e, n) \in SUBSET (1 .. c) /\ IsFiniteSet(Span(e, n))
  <2>1. \A m \in 1 .. c : q[m] \in S <=> m \in Span(e, n)
    BY WindowRows
  <2>2. \A x \in S : \E m \in Span(e, n) : x = q[m]
    BY WindowRows
  <2>3. Span(e, n) \in SUBSET (1 .. c) /\ IsFiniteSet(Span(e, n))
    BY WindowRows
  <2> QED BY <2>1, <2>2, <2>3
<1>2. /\ c \in Nat /\ q \in [1 .. c -> TradesOf(u)]
      /\ \A m, k \in 1 .. c : Before(q[m], q[k]) <=> m < k
  BY TimesType DEF Scanned
<1>3. \A x \in TradesOf(u) : ~Before(x, x)
  BY BeforeOrders
<1> HIDE DEF S
<1>4. f \in [Span(e, n) -> S]
  BY <1>1
<1>5. ASSUME NEW m \in Span(e, n), NEW k \in Span(e, n), f[m] = f[k] PROVE m = k
  <2>1. m \in 1 .. c /\ k \in 1 .. c /\ q[m] = q[k] /\ q[m] \in TradesOf(u)
    BY <1>1, <1>2, <1>5
  <2>2. ~(m < k) /\ ~(k < m)
    BY <1>2, <1>3, <2>1
  <2> QED BY <1>2, <2>1, <2>2
<1>6. \A x \in S : \E m \in Span(e, n) : f[m] = x
  BY <1>1
<1> HIDE DEF f
<1>7. f \in Bijection(Span(e, n), S)
  BY <1>4, <1>5, <1>6, Fun_IsBij
<1>8. ExistsBijection(Span(e, n), S)
  BY <1>7 DEF ExistsBijection
<1> QED BY <1>1, <1>8, FS_Bijection DEF S

LEMMA WindowFrom ==
    ASSUME trades \in Seeds, NEW u, NEW q, NEW e, Scanned(u, q, e), NEW n \in 1 .. Len(e)
    PROVE  Min({x.entry : x \in InWindow(q[n])}) = e[n - Cardinality(Span(e, n)) + 1]
<1> DEFINE c == Len(e)
           d == Cardinality(Span(e, n))
           first == e[n - d + 1]
           S == InWindow(q[n])
           E == {x.entry : x \in S}
<1>1. /\ \A m \in 1 .. c : q[m] \in S <=> m \in Span(e, n)
      /\ \A x \in S : \E m \in Span(e, n) : x = q[m]
      /\ Span(e, n) = n - d + 1 .. n /\ d \in 1 .. n
      /\ Span(e, n) \in SUBSET (1 .. c)
  <2>1. \A m \in 1 .. c : q[m] \in S <=> m \in Span(e, n)
    BY WindowRows
  <2>2. \A x \in S : \E m \in Span(e, n) : x = q[m]
    BY WindowRows
  <2>3. Span(e, n) = n - d + 1 .. n /\ d \in 1 .. n
    BY WindowRows
  <2>4. Span(e, n) \in SUBSET (1 .. c)
    BY WindowRows
  <2> QED BY <2>1, <2>2, <2>3, <2>4
<1>2. /\ e \in Seq(Nat) /\ Len(e) = c /\ Rising(e) /\ \A m \in 1 .. c : e[m] = q[m].entry
  BY DEF Scanned
<1> HIDE DEF d, S
<1>3. n - d + 1 \in Span(e, n) /\ \A m \in Span(e, n) : n - d + 1 <= m
  BY <1>1
<1>4. \A m \in Span(e, n) : first <= e[m] /\ e[m] \in Nat
  BY <1>1, <1>2, <1>3, TimesType DEF Rising
<1>5. \A y : y \in E <=> \E m \in Span(e, n) : y = e[m]
  <2>1. \A m \in Span(e, n) : e[m] = q[m].entry /\ q[m] \in S
    BY <1>1, <1>2
  <2> QED BY <1>1, <2>1
<1> HIDE DEF E, first
<1>6. first \in E
  BY <1>3, <1>5 DEF first
<1>7. \A y \in E : first <= y /\ y \in Nat
  BY <1>4, <1>5
<1>8. Min(E) \in E /\ \A y \in E : Min(E) <= y
  BY <1>6, <1>7 DEF Min
<1>9. Min(E) = first
  BY <1>6, <1>7, <1>8
<1> QED BY <1>9 DEF E, S, first, d

(* A spike begins with the entry at which the walk appends an event.        *)
LEMMA BeginsAt ==
    ASSUME trades \in Seeds, NEW u, NEW q, NEW e, Scanned(u, q, e), NEW n \in 1 .. Len(e)
    PROVE  Begins(q[n]) <=> n \in Begun(e, Len(e))
<1> DEFINE R == TradesOf(u)
           c == Len(e)
<1>1. /\ c \in Nat /\ q \in [1 .. c -> R] /\ \A x \in R : \E m \in 1 .. c : q[m] = x
      /\ \A m, k \in 1 .. c : Before(q[m], q[k]) <=> m < k
  BY TimesType DEF Scanned
<1>2. q[n].user = u
  BY <1>1, BeforeOrders
<1>3. \A m \in 1 .. c : OneTooMany(q[m]) <=> Over(e, m)
  <2> SUFFICES ASSUME NEW m \in 1 .. c PROVE OneTooMany(q[m]) <=> Over(e, m)
    OBVIOUS
  <2>1. Cardinality(InWindow(q[m])) = Cardinality(Span(e, m))
    BY WindowCount
  <2>2. m > 0
    BY <1>1
  <2> QED BY <2>1, <2>2 DEF OneTooMany, Over
<1>4. Begins(q[n]) <=> /\ OneTooMany(q[n])
                       /\ \A p \in R : Before(p, q[n]) /\ OneTooMany(p) =>
                            \E x \in R : Before(p, x) /\ Before(x, q[n]) /\ ~OneTooMany(x)
  BY <1>2 DEF Begins
<1> HIDE DEF R
<1>5. Begins(q[n]) <=> /\ Over(e, n)
                       /\ \A m \in 1 .. c : m < n /\ Over(e, m) =>
                            \E k \in 1 .. c : m < k /\ k < n /\ ~Over(e, k)
  <2>1. ASSUME NEW m \in 1 .. c
        PROVE  (\E x \in R : Before(q[m], x) /\ Before(x, q[n]) /\ ~OneTooMany(x))
                 <=> \E k \in 1 .. c : m < k /\ k < n /\ ~Over(e, k)
    BY <1>1, <1>3
  <2>2. (\A p \in R : Before(p, q[n]) /\ OneTooMany(p) =>
            \E x \in R : Before(p, x) /\ Before(x, q[n]) /\ ~OneTooMany(x))
          <=> \A m \in 1 .. c : Before(q[m], q[n]) /\ OneTooMany(q[m]) =>
                \E x \in R : Before(q[m], x) /\ Before(x, q[n]) /\ ~OneTooMany(x)
    BY <1>1
  <2> QED BY <1>1, <1>3, <1>4, <2>1, <2>2
<1>6. (\A m \in 1 .. c : m < n /\ Over(e, m) => \E k \in 1 .. c : m < k /\ k < n /\ ~Over(e, k))
        <=> ~Over(e, n - 1)
  <2>1. ASSUME Over(e, n - 1),
               \A m \in 1 .. c : m < n /\ Over(e, m) => \E k \in 1 .. c : m < k /\ k < n /\ ~Over(e, k)
        PROVE  FALSE
    <3>1. n - 1 \in 1 .. c /\ n - 1 < n
      BY <1>1, <2>1 DEF Over
    <3>2. \E k \in 1 .. c : n - 1 < k /\ k < n
      BY <2>1, <3>1
    <3> QED BY <1>1, <3>2
  <2>2. ASSUME ~Over(e, n - 1), NEW m \in 1 .. c, m < n, Over(e, m)
        PROVE  \E k \in 1 .. c : m < k /\ k < n /\ ~Over(e, k)
    <3>1. m # n - 1
      BY <2>2
    <3>2. n - 1 \in 1 .. c /\ m < n - 1 /\ n - 1 < n
      BY <1>1, <2>2, <3>1
    <3> QED BY <2>2, <3>2
  <2> QED BY <2>1, <2>2
<1>7. n \in Begun(e, c) <=> Over(e, n) /\ ~Over(e, n - 1)
  BY DEF Begun
<1> QED BY <1>5, <1>6, <1>7

(* Two spikes differ: of two entries of one time, the later has more within *)
(* reach.                                                                   *)
LEMMA SpikesDiffer ==
    ASSUME NEW e \in Seq(Nat), Rising(e), NEW m \in 1 .. Len(e), NEW n \in 1 .. Len(e),
           m < n, e[m] = e[n]
    PROVE  Cardinality(Span(e, m)) < Cardinality(Span(e, n))
<1>1. m \in Nat /\ n \in Nat /\ Len(e) \in Nat /\ e[n] \in Nat /\ Window \in Nat
  BY TimesType
<1>2. Span(e, m) \in SUBSET Span(e, n)
  BY <1>1 DEF Span
<1>3. n \in Span(e, n) /\ n \notin Span(e, m)
  BY <1>1 DEF Span
<1>4. IsFiniteSet(Span(e, n))
  <2>1. IsFiniteSet(1 .. n) /\ Span(e, n) \in SUBSET (1 .. n)
    BY <1>1, FS_Interval DEF Span
  <2> QED BY <2>1, FS_Subset
<1>5. /\ IsFiniteSet(Span(e, m))
      /\ Cardinality(Span(e, m)) <= Cardinality(Span(e, n))
      /\ Cardinality(Span(e, m)) # Cardinality(Span(e, n))
  BY <1>2, <1>3, <1>4, FS_Subset
<1>6. Cardinality(Span(e, m)) \in Nat /\ Cardinality(Span(e, n)) \in Nat
  BY <1>4, <1>5, FS_CardinalityType
<1> QED BY <1>5, <1>6

----------------------------------------------------------------------------
(* The log of a user and of all.                                            *)

LogRow(t) == [user |-> t.user, from |-> Min({x.entry : x \in InWindow(t)}),
              to |-> t.entry, count |-> Cardinality(InWindow(t))]

LogOf(u) == {LogRow(t) : t \in {x \in TradesOf(u) : Begins(x)}}
SpikeLog == {LogRow(t) : t \in {x \in trades : Begins(x)}}

LEMMA RowAt ==
    ASSUME trades \in Seeds, NEW u, NEW q, NEW e, Scanned(u, q, e), NEW n \in 1 .. Len(e)
    PROVE  LogRow(q[n]) = Event(u, Spike(e, n))
<1>1. q[n] \in TradesOf(u) /\ q[n].entry = e[n]
  BY DEF Scanned
<1>2. q[n].user = u
  BY <1>1, BeforeOrders
<1>3. Cardinality(InWindow(q[n])) = Cardinality(Span(e, n))
  BY WindowCount
<1>4. Min({x.entry : x \in InWindow(q[n])}) = e[n - Cardinality(Span(e, n)) + 1]
  BY WindowFrom
<1>5. LogRow(q[n]) = [user |-> u, from |-> e[n - Cardinality(Span(e, n)) + 1],
                      to |-> e[n], count |-> Cardinality(Span(e, n))]
  BY <1>1, <1>2, <1>3, <1>4 DEF LogRow
<1> QED BY <1>5 DEF Event, Spike

LEMMA SpikesOf ==
    ASSUME trades \in Seeds, NEW u
    PROVE  /\ {Event(u, s) : s \in ToSet(Spikes(u))} = LogOf(u)
           /\ Len(Spikes(u)) = Cardinality(LogOf(u)) /\ Spikes(u) \in Seq(SpikeRows)
<1>1. PICK q, e : e = Entries(u) /\ Scanned(u, q, e)
  BY ScanOrdered
<1> DEFINE c == Len(e)
           B == Begun(e, c)
           R == TradesOf(u)
<1>2. /\ e \in Seq(Nat) /\ Rising(e) /\ c \in Nat /\ c \in 0 .. c
      /\ q \in [1 .. c -> R] /\ \A t \in R : \E n \in 1 .. c : q[n] = t
  BY <1>1, TimesType DEF Scanned
<1>3. Lists(e, c, Spikes(u))
  <2>1. Spikes(u) = Walk(e)[c].events
    BY <1>1 DEF Spikes
  <2>2. Follows(e, c, Walk(e)[c])
    BY <1>2, WalkFollows
  <2> QED BY <2>1, <2>2 DEF Follows
<1>4. /\ ToSet(Spikes(u)) = {Spike(e, m) : m \in B}
      /\ Len(Spikes(u)) = Cardinality(B) /\ Spikes(u) \in Seq(SpikeRows)
  BY <1>3 DEF Lists
<1>5. B \in SUBSET (1 .. c)
  BY DEF Begun
<1>6. \A n \in 1 .. c : LogRow(q[n]) = Event(u, Spike(e, n)) /\ (Begins(q[n]) <=> n \in B)
  BY <1>1, RowAt, BeginsAt
<1> HIDE DEF B, c, R
<1>7. \A x : x \in LogOf(u) <=> \E m \in B : x = Event(u, Spike(e, m))
  <2>1. \A x : x \in LogOf(u) <=> \E t \in R : Begins(t) /\ x = LogRow(t)
    BY DEF LogOf, R
  <2>2. ASSUME NEW x, NEW t \in R, Begins(t), x = LogRow(t)
        PROVE  \E m \in B : x = Event(u, Spike(e, m))
    <3>1. PICK n \in 1 .. c : q[n] = t
      BY <1>2
    <3> QED BY <1>6, <2>2, <3>1
  <2>3. ASSUME NEW m \in B
        PROVE  q[m] \in R /\ Begins(q[m]) /\ Event(u, Spike(e, m)) = LogRow(q[m])
    <3>1. m \in 1 .. c
      BY <1>5
    <3> QED BY <1>2, <1>6, <3>1
  <2> QED BY <2>1, <2>2, <2>3
<1>8. {Event(u, s) : s \in ToSet(Spikes(u))} = LogOf(u)
  BY <1>4, <1>7
<1>9. Cardinality(B) = Cardinality(LogOf(u))
  <2> DEFINE f == [m \in B |-> Event(u, Spike(e, m))]
  <2>1. f \in [B -> LogOf(u)] /\ \A x \in LogOf(u) : \E m \in B : f[m] = x
    BY <1>7
  <2>2. ASSUME NEW m \in B, NEW k \in B, f[m] = f[k] PROVE m = k
    <3>1. m \in 1 .. c /\ k \in 1 .. c
      BY <1>5
    <3>2. e[m] = e[k] /\ Cardinality(Span(e, m)) = Cardinality(Span(e, k))
      <4>1. Event(u, Spike(e, m)) = Event(u, Spike(e, k))
        BY <2>2
      <4>2. ASSUME NEW i PROVE /\ Event(u, Spike(e, i)).to = e[i]
                               /\ Event(u, Spike(e, i)).count = Cardinality(Span(e, i))
        BY DEF Event, Spike
      <4> QED BY <4>1, <4>2
    <3>3. ASSUME NEW i \in 1 .. c, NEW j \in 1 .. c, i < j, e[i] = e[j]
          PROVE  Cardinality(Span(e, i)) # Cardinality(Span(e, j))
      <4>1. Cardinality(Span(e, i)) < Cardinality(Span(e, j))
        BY <1>2, <3>3, SpikesDiffer DEF c
      <4>2. Cardinality(Span(e, i)) \in Nat
        <5>1. IsFiniteSet(Span(e, i))
          BY <1>1, WindowRows DEF c
        <5> QED BY <5>1, FS_CardinalityType
      <4> QED BY <4>1, <4>2
    <3>4. ~(m < k) /\ ~(k < m)
      BY <3>1, <3>2, <3>3
    <3> QED BY <1>2, <3>1, <3>4
  <2> HIDE DEF f
  <2>3. f \in Bijection(B, LogOf(u))
    BY <2>1, <2>2, Fun_IsBij
  <2>4. ExistsBijection(B, LogOf(u))
    BY <2>3 DEF ExistsBijection
  <2>5. IsFiniteSet(B)
    <3>1. IsFiniteSet(1 .. c)
      BY <1>2, FS_Interval
    <3> QED BY <1>5, <3>1, FS_Subset
  <2> QED BY <2>4, <2>5, FS_Bijection
<1> QED BY <1>4, <1>8, <1>9

LEMMA LogSplits ==
    ASSUME trades \in Seeds
    PROVE  /\ SpikeLog = UNION {LogOf(u) : u \in Users}
           /\ \A u \in Users : LogOf(u) = {r \in SpikeLog : r.user = u}
<1>1. \A t \in trades : t.user \in Users
  BY SeedsAssumption
<1>2. \A t : LogRow(t).user = t.user
  BY DEF LogRow
<1>3. \A x : x \in SpikeLog <=> \E t \in trades : Begins(t) /\ x = LogRow(t)
  BY DEF SpikeLog
<1>4. \A u, x : x \in LogOf(u) <=> \E t \in trades : t.user = u /\ Begins(t) /\ x = LogRow(t)
  BY DEF LogOf, TradesOf
<1> QED BY <1>1, <1>2, <1>3, <1>4

----------------------------------------------------------------------------
(* The transaction.                                                         *)

LogExact == /\ incidents = SpikeLog
            /\ \A u \in Users : snapshots[u] # None =>
                   snapshots[u].spikes = Cardinality(LogOf(u))

(* Until the first commit the log is the one found; from then on it is      *)
(* exact, and the gate is shut for good unless there is nothing to compute. *)
LogInv == /\ at = "commit" => found = [u \in Users |-> Spikes(u)]
          /\ \/ incidents \in Leftovers /\ at # "done"
             \/ LogExact /\ HasSnapshots /\ at \in {"done", "down", "skipped"}
             \/ LogExact /\ trades = {} /\ ~HasSnapshots

(* What the log should be does not change.                                  *)
LEMMA LogKept ==
    ASSUME trades' = trades
    PROVE  /\ SpikeLog' = SpikeLog
           /\ \A u : LogOf(u)' = LogOf(u) /\ Spikes(u)' = Spikes(u) /\ TradesOf(u)' = TradesOf(u)
BY DEF SpikeLog, LogOf, LogRow, Begins, OneTooMany, InWindow, TradesOf, Spikes, Entries, Ordered

LEMMA CommitLog == ASSUME Inv, LogInv, Commit PROVE LogExact'
<1>1. /\ at = "commit" /\ trades' = trades /\ trades \in Seeds
      /\ incidents' = UNION {{Event(u, e) : e \in ToSet(found[u])} : u \in Users}
      /\ snapshots' = [u \in Users |-> IF snapshots[u] = None /\ found[u] = <<>> THEN None
                                       ELSE [Row(u) EXCEPT !.spikes = Len(found[u])]]
  BY DEF Commit, Inv
<1>2. found = [u \in Users |-> Spikes(u)] /\ RowsInv
  BY <1>1 DEF LogInv, Inv, Late
<1>3. incidents' = SpikeLog
  <2>1. \A u \in Users : {Event(u, e) : e \in ToSet(found[u])} = LogOf(u)
    <3> SUFFICES ASSUME NEW u \in Users PROVE {Event(u, e) : e \in ToSet(found[u])} = LogOf(u)
      OBVIOUS
    <3>1. found[u] = Spikes(u)
      BY <1>2
    <3> QED BY <1>1, <3>1, SpikesOf
  <2>2. incidents' = UNION {LogOf(u) : u \in Users}
    BY <1>1, <2>1
  <2> QED BY <1>1, <2>2, LogSplits
<1>4. ASSUME NEW u \in Users, snapshots'[u] # None
      PROVE  snapshots'[u].spikes = Cardinality(LogOf(u))
  <2>1. snapshots'[u] = [Row(u) EXCEPT !.spikes = Len(found[u])]
    BY <1>1, <1>4
  <2>2. Row(u) \in SnapshotRows
    <3>1. snapshots[u] \in SnapshotRows \cup {None}
      BY <1>2 DEF RowsInv
    <3> QED BY <3>1, RowType
  <2>3. snapshots'[u].spikes = Len(found[u])
    BY <2>1, <2>2 DEF SnapshotRows
  <2>4. found[u] = Spikes(u) /\ Len(Spikes(u)) = Cardinality(LogOf(u))
    BY <1>1, <1>2, SpikesOf
  <2> QED BY <2>3, <2>4
<1> QED BY <1>1, <1>3, <1>4, LogKept DEF LogExact

(* Where there is a trade, the transaction leaves a row and the gate shut.  *)
LEMMA CommitGate ==
    ASSUME Inv, LogInv, Commit
    PROVE  \/ HasSnapshots' \/ (trades' = {} /\ ~HasSnapshots')
<1>1. /\ at = "commit" /\ trades' = trades /\ trades \in Seeds
      /\ snapshots' = [u \in Users |-> IF snapshots[u] = None /\ found[u] = <<>> THEN None
                                       ELSE [Row(u) EXCEPT !.spikes = Len(found[u])]]
  BY DEF Commit, Inv
<1>2. found = [u \in Users |-> Spikes(u)] /\ RowsInv
  BY <1>1 DEF LogInv, Inv, Late
<1>3. CASE trades = {}
  BY <1>1, <1>3
<1>4. CASE trades # {}
  <2>1. PICK t \in trades : TRUE
    BY <1>4
  <2>2. PICK u \in Users : u = t.user
    BY <1>1, <2>1, SeedsAssumption
  <2>3. TradesOf(u) # {}
    BY <2>1, <2>2 DEF TradesOf
  <2>4. snapshots[u] \in SnapshotRows /\ snapshots[u] # None
    BY <1>2, <2>3 DEF RowsInv
  <2>5. snapshots'[u] = [snapshots[u] EXCEPT !.spikes = Len(Spikes(u))]
    BY <1>1, <1>2, <2>4, RowType
  <2>6. Len(Spikes(u)) \in Nat
    <3>1. Spikes(u) \in Seq(SpikeRows)
      BY <1>1, SpikesOf
    <3> QED BY <3>1, LenProperties
  <2>7. snapshots'[u] \in SnapshotRows
    BY <2>4, <2>5, <2>6 DEF SnapshotRows
  <2>8. snapshots'[u] # None
    BY <2>7, NoneAssumption DEF SnapshotRows
  <2> QED BY <2>8 DEF HasSnapshots
<1> QED BY <1>3, <1>4

(* A statement before the transaction: the log is not touched, and with no  *)
(* trade no row of user_metrics comes into being.                           *)
LEMMA LogWaits ==
    ASSUME Inv, LogInv, at \in Statements, UNCHANGED <<trades, incidents>>, at' # "done",
           trades = {} => \A u \in Users : snapshots'[u] = snapshots[u],
           at' = "commit" => found' = [u \in Users |-> Spikes(u)]'
    PROVE  LogInv'
<1>1. CASE incidents \in Leftovers /\ at # "done"
  BY <1>1 DEF LogInv
<1>2. CASE LogExact /\ trades = {} /\ ~HasSnapshots
  <2>1. \A u \in Users : snapshots'[u] = snapshots[u]
    BY <1>2
  <2>2. LogExact' /\ ~HasSnapshots'
    BY <1>2, <2>1, LogKept DEF LogExact, HasSnapshots
  <2> QED BY <1>2, <2>1, <2>2 DEF LogInv
<1> QED BY <1>1, <1>2 DEF LogInv, Statements

LEMMA LogStep == Inv /\ LogInv /\ [Next]_vars => LogInv'
<1> SUFFICES ASSUME Inv, LogInv, [Next]_vars PROVE LogInv'
  OBVIOUS
<1>1. CASE Start
  <2>1. /\ at = "down" /\ UNCHANGED <<trades, snapshots, incidents, found>>
        /\ at' = IF HasSnapshots THEN "skipped" ELSE "reset"
    BY <1>1 DEF Start, tables
  <2>2. HasSnapshots' = HasSnapshots /\ (LogExact => LogExact')
    BY <2>1, LogKept DEF LogExact, HasSnapshots
  <2> QED BY <2>1, <2>2 DEF LogInv
<1>2. CASE Fail \/ ResetFlags \/ SetFlags \/ WinRate \/ SessionTilt
  <2>1. at \in Statements /\ UNCHANGED <<trades, incidents, snapshots>> /\ at' \notin {"done", "commit"}
    BY <1>2 DEF Fail, ResetFlags, SetFlags, WinRate, SessionTilt, Then, tables, Statements
  <2> QED BY <2>1, LogWaits
<1>3. CASE CountRevenge
  <2>1. at \in Statements /\ UNCHANGED <<trades, incidents>> /\ at' \notin {"done", "commit"}
    BY <1>3 DEF CountRevenge, Then, Statements
  <2>2. trades = {} => \A u \in Users : TradesOf(u) = {}
    BY DEF TradesOf
  <2>3. trades = {} => \A u \in Users : snapshots'[u] = snapshots[u]
    BY <1>3, <2>2 DEF CountRevenge
  <2> QED BY <2>1, <2>3, LogWaits
<1>4. CASE PlanAdherence
  <2>1. at \in Statements /\ UNCHANGED <<trades, incidents>> /\ at' \notin {"done", "commit"}
    BY <1>4 DEF PlanAdherence, Then, Statements
  <2>2. trades = {} => \A u \in Users : Rated(u) = {}
    BY DEF Rated, Closed
  <2>3. trades = {} => \A u \in Users : snapshots'[u] = snapshots[u]
    BY <1>4, <2>2 DEF PlanAdherence
  <2> QED BY <2>1, <2>3, LogWaits
<1>5. CASE Scan
  <2>1. /\ at = "scan" /\ UNCHANGED <<trades, incidents, snapshots>> /\ at' = "commit"
        /\ found' = [u \in Users |-> Spikes(u)]
    BY <1>5 DEF Scan, tables
  <2>2. found' = [u \in Users |-> Spikes(u)]'
    BY <2>1, LogKept
  <2> QED BY <2>1, <2>2, LogWaits DEF Statements
<1>6. CASE Commit
  <2>1. at' \in {"done", "down"}
    BY <1>6 DEF Commit, Then
  <2> QED BY <1>6, <2>1, CommitLog, CommitGate DEF LogInv
<1>7. CASE UNCHANGED vars
  <2>1. UNCHANGED <<trades, snapshots, incidents, at, found>>
    BY <1>7 DEF vars, tables
  <2>2. HasSnapshots' = HasSnapshots /\ (LogExact => LogExact')
    BY <2>1, LogKept DEF LogExact, HasSnapshots
  <2> QED BY <2>1, <2>2, LogKept DEF LogInv
<1> QED BY <1>1, <1>2, <1>3, <1>4, <1>5, <1>6, <1>7 DEF Next

(* However often the process dies on the way and whatever a worker had      *)
(* left: from the first commit on, overtrading_events has one event for     *)
(* each time a user's count of the last half hour crosses the limit, with   *)
(* that count and the window it was taken over, and user_metrics the number *)
(* of them: the walk with its sliding window agrees with counting anew for  *)
(* each trade, for all contents of the table.                               *)
THEOREM SpikesCorrect == Spec => []SpikesExact
<1>1. Init => LogInv
  BY DEF Init, LogInv
<1>2. Inv /\ LogInv => SpikesExact
  <2> SUFFICES ASSUME Inv, LogInv, at = "done" \/ incidents \notin Leftovers PROVE SpikesExact
    BY DEF SpikesExact
  <2>1. LogExact /\ trades \in Seeds
    BY DEF LogInv, Inv
  <2>2. \A u \in Users : LogOf(u) = {e \in incidents : e.user = u}
    BY <2>1, LogSplits DEF LogExact
  <2>3. incidents = {[user |-> t.user, from |-> Min({x.entry : x \in InWindow(t)}),
                      to |-> t.entry, count |-> Cardinality(InWindow(t))] :
                         t \in {x \in trades : Begins(x)}}
    BY <2>1 DEF LogExact, SpikeLog, LogRow
  <2>4. ASSUME NEW u \in Users, snapshots[u] # None
        PROVE  snapshots[u].spikes = Cardinality({e \in incidents : e.user = u})
    BY <2>1, <2>2, <2>4 DEF LogExact
  <2> QED BY <2>3, <2>4 DEF SpikesExact
<1> QED BY <1>1, <1>2, InitInv, NextInv, LogStep, PTL DEF Spec
=============================================================================
