-------------------------- MODULE TradeRulesProofs --------------------------
(***************************************************************************)
(* Proofs about the rules of a trade, for any body and any precision and   *)
(* range of the columns.                                                   *)
(***************************************************************************)
EXTENDS TradeRules, TLAPS

----------------------------------------------------------------------------
(* Rounding.                                                                *)

LEMMA Division ==
    ASSUME NEW a \in Nat, NEW b \in Nat \ {0}
    PROVE  /\ a \div b \in Nat
           /\ b * (a \div b) <= a
           /\ a < b * (a \div b) + b
OBVIOUS

LEMMA HalfClose ==
    ASSUME NEW n \in Int, NEW d \in Nat \ {0}
    PROVE  /\ Half(n, d) \in Nat
           /\ 2 * (d * Half(n, d)) <= 2 * Abs(n) + d
           /\ 2 * Abs(n) < 2 * (d * Half(n, d)) + d
<1> DEFINE a == 2 * Abs(n) + d
           b == 2 * d
<1>1. a \in Nat /\ b \in Nat \ {0} /\ Abs(n) \in Nat
  BY DEF Abs
<1>2. Half(n, d) = a \div b
  BY DEF Half
<1> DEFINE h == a \div b
<1>3. h \in Nat /\ b * h <= a /\ a < b * h + b
  BY <1>1, Division
<1> HIDE DEF h
<1>4. b * h = 2 * (d * h)
  BY <1>3
<1>5. d * h \in Nat
  BY <1>3
<1> QED BY <1>1, <1>2, <1>3, <1>4, <1>5 DEF h

(* Rounded is the nearest multiple of d, of the sign of n or zero.          *)
LEMMA RoundedClose ==
    ASSUME NEW n \in Int, NEW d \in Nat \ {0}
    PROVE  /\ Rounded(n, d) \in Int
           /\ 2 * Abs(Rounded(n, d) * d - n) <= d
           /\ Rounded(n, d) < 0 => n < 0
           /\ n <= -d => Rounded(n, d) < 0
<1> DEFINE h == Half(n, d)
           m == d * h
<1>1. h \in Nat /\ m \in Nat /\ 2 * m <= 2 * Abs(n) + d /\ 2 * Abs(n) < 2 * m + d
  BY HalfClose
<1>2. h = 0 => m = 0
  BY <1>1
<1>3. m = h * d /\ -m = (-h) * d
  BY <1>1
<1> HIDE DEF h, m
<1>4. CASE n < 0
  <2>1. Rounded(n, d) = -h
    BY <1>4 DEF Rounded, h
  <2>2. Abs(n) = -n
    BY <1>4 DEF Abs
  <2>3. 2 * Abs((-m) - n) <= d
    BY <1>1, <1>4, <2>2 DEF Abs
  <2>4. n <= -d => h # 0
    BY <1>1, <1>2, <1>4, <2>2
  <2> QED BY <1>1, <1>3, <1>4, <2>1, <2>3, <2>4
<1>5. CASE n >= 0
  <2>1. Rounded(n, d) = h
    BY <1>5 DEF Rounded, h
  <2>2. Abs(n) = n
    BY <1>5 DEF Abs
  <2>3. 2 * Abs(m - n) <= d
    BY <1>1, <1>5, <2>2 DEF Abs
  <2> QED BY <1>1, <1>3, <1>5, <2>1, <2>3
<1> QED BY <1>4, <1>5

LEMMA StepPositive == Step \in Nat \ {0}
<1>1. Fine * Fine \in Nat \ {0}
  BY BoundsAssumption
<1> QED BY <1>1, BoundsAssumption DEF Step

----------------------------------------------------------------------------
(* validate against the table, and derive against the exact gain.           *)

(* Whatever validate accepts passes every CHECK but those on amounts.       *)
LEMMA ValidRest == ASSUME NEW in \in Inputs, Valid(in) PROVE RestOK(in)
<1>1. ASSUME in.rationale # None PROVE in.rationale.chars <= MaxRationale
  <2>1. in.rationale.chars \in Nat /\ in.rationale.bytes \in Nat
        /\ in.rationale.chars <= in.rationale.bytes /\ in.rationale.bytes <= MaxRationale
    BY <1>1, InputsAssumption DEF Valid
  <2> QED BY <2>1, BoundsAssumption
<1>2. in.status = "closed" => in.exitAt # None /\ in.exitPrice # None
  BY NoneAssumption DEF Valid, ClosedOK
<1> QED BY <1>1, <1>2 DEF Valid, RestOK

(* A valid closed trade's pnl is taken from what it gained.                 *)
LEMMA ExactGain ==
    ASSUME NEW in \in Inputs, Valid(in), in.status = "closed"
    PROVE  Exact(in) \in Int /\ Exact(in) = Gain(in)
<1>1. in.exitPrice \in Int /\ in.entryPrice \in Int /\ in.quantity \in Int
  BY InputsAssumption DEF Valid, ClosedOK
<1>2. in.direction = "long" \/ in.direction = "short"
  BY DEF Valid, Directions
<1> DEFINE x == in.exitPrice
           n == in.entryPrice
           q == in.quantity
<1>3. (x - n) * q \in Int /\ (x - n) * q = 1 * q * (x - n)
      /\ (n - x) * q \in Int /\ (n - x) * q = (-1) * q * (x - n)
  BY <1>1
<1>4. CASE in.direction = "long"
  <2>1. Exact(in) = (x - n) * q /\ Gain(in) = 1 * q * (x - n)
    BY <1>4 DEF Exact, Delta, Gain
  <2> QED BY <1>3, <2>1
<1>5. CASE in.direction = "short"
  <2>1. Exact(in) = (n - x) * q /\ Gain(in) = (-1) * q * (x - n)
    BY <1>5 DEF Exact, Delta, Gain
  <2> QED BY <1>3, <2>1
<1> QED BY <1>2, <1>4, <1>5

(* A pnl that fits its column is not what a conversion out of range leaves. *)
LEMMA FittingPnl ==
    ASSUME NEW n \in Int, NEW p \in Round8(n), Fits(p)
    PROVE  p \in Int /\ p = Rounded(n, Step)
<1> DEFINE r == Rounded(n, Step)
<1>1. r \in Int
  BY RoundedClose, StepPositive
<1> HIDE DEF r
<1>2. p \in IF r \in -MaxInt .. MaxInt THEN {r}
            ELSE {-MaxInt - 1} \cup (IF r > 0 THEN {MaxInt} ELSE {})
  BY DEF Round8, r
<1>3. p \in Int /\ (p = r \/ p = -MaxInt - 1 \/ p = MaxInt)
  BY <1>1, <1>2, BoundsAssumption
<1>4. Abs(p) <= MaxNumeric
  BY <1>3, NoneAssumption DEF Fits
<1>5. p = r
  BY <1>3, <1>4, BoundsAssumption DEF Abs
<1> QED BY <1>3, <1>5 DEF r

----------------------------------------------------------------------------
(* The verdict so far is justified, and a stored row is one that derive     *)
(* made and the table took.                                                 *)
Inv ==
    /\ input \in Inputs
    /\ verdict \in {"received", "derive", "rejected", "stored", "failed"}
    /\ verdict \in {"derive", "stored", "failed"} => Valid(input)
    /\ verdict = "stored" => \E d \in Derived(input) : row = Row(input, d) /\ AmountsOK(row)
    /\ FailedOnlyForAmounts

LEMMA InitInv == Init => Inv
BY DEF Init, Inv, FailedOnlyForAmounts

LEMMA NextInv == Inv /\ [Next]_vars => Inv'
<1> SUFFICES ASSUME Inv, [Next]_vars PROVE Inv'
  OBVIOUS
<1>1. CASE Validate
  BY <1>1 DEF Inv, Validate, FailedOnlyForAmounts
<1>2. CASE Insert
  <2>1. verdict = "derive" /\ input \in Inputs /\ Valid(input) /\ input' = input
    BY <1>2 DEF Insert, Inv
  <2>2. RestOK(input)
    BY <2>1, ValidRest
  <2>3. PICK d \in Derived(input) :
           IF AmountsOK(Row(input, d)) /\ RestOK(input)
             THEN verdict' = "stored" /\ row' = Row(input, d)
             ELSE verdict' = "failed" /\ UNCHANGED row
    BY <1>2 DEF Insert
  <2>4. CASE AmountsOK(Row(input, d))
    BY <2>1, <2>2, <2>3, <2>4 DEF Inv, FailedOnlyForAmounts
  <2>5. CASE ~AmountsOK(Row(input, d))
    BY <2>1, <2>3, <2>5 DEF Inv, FailedOnlyForAmounts
  <2> QED BY <2>4, <2>5
<1>3. CASE UNCHANGED vars
  BY <1>3 DEF vars, Inv, FailedOnlyForAmounts
<1> QED BY <1>1, <1>2, <1>3 DEF Next

(* A stored row is one of a valid body that the table accepted.             *)
THEOREM VerdictCorrect == Spec => []Inv
BY InitInv, NextInv, PTL DEF Spec

(* Of all that clients may get wrong, only the size of amounts can get past *)
(* validate and end in a 500.                                               *)
THEOREM ValidateCorrect == Spec => []FailedOnlyForAmounts
<1>1. Inv => FailedOnlyForAmounts
  BY DEF Inv
<1> QED BY <1>1, VerdictCorrect, PTL

LEMMA StoredPnl ==
    ASSUME Inv, verdict = "stored", input.status = "closed"
    PROVE  /\ row.pnl \in Int /\ row.pnl = Rounded(Gain(input), Step) /\ Gain(input) \in Int
           /\ row.outcome = IF row.pnl < 0 THEN "loss" ELSE "win"
<1>1. input \in Inputs /\ Valid(input)
  BY DEF Inv
<1>2. Exact(input) \in Int /\ Exact(input) = Gain(input) /\ input.exitPrice # None
  BY <1>1, ExactGain DEF Valid, ClosedOK
<1>3. PICK d \in Derived(input) : row = Row(input, d) /\ AmountsOK(row)
  BY DEF Inv
<1>4. PICK p \in Round8(Exact(input)) :
         d = [pnl |-> p, outcome |-> IF p < 0 THEN "loss" ELSE "win"]
  BY <1>2 DEF Derived
<1>5. row.pnl = p /\ row.outcome = (IF p < 0 THEN "loss" ELSE "win") /\ Fits(row.pnl)
  BY <1>3, <1>4 DEF Row, AmountsOK
<1>6. p \in Int /\ p = Rounded(Exact(input), Step)
  BY <1>2, <1>5, FittingPnl
<1> QED BY <1>2, <1>5, <1>6

(* The outcome that is stored is that of the trade itself.                  *)
THEOREM OutcomeCorrect == Spec => []OutcomeTrue
<1>1. Inv => OutcomeTrue
  <2> SUFFICES ASSUME Inv, verdict = "stored", input.status = "closed"
               PROVE  /\ row.outcome = "loss" => Gain(input) < 0
                      /\ Gain(input) <= -Step => row.outcome = "loss"
    BY DEF OutcomeTrue
  <2> QED BY StoredPnl, RoundedClose, StepPositive
<1> QED BY <1>1, VerdictCorrect, PTL

(* The pnl that is stored is the nearest there is to what was gained.       *)
THEOREM PnlCorrect == Spec => []PnlClose
<1>1. Inv => PnlClose
  <2> SUFFICES ASSUME Inv, verdict = "stored", input.status = "closed"
               PROVE  2 * Abs(row.pnl * Step - Gain(input)) <= Step
    BY DEF PnlClose
  <2> QED BY StoredPnl, RoundedClose, StepPositive
<1> QED BY <1>1, VerdictCorrect, PTL
=============================================================================
