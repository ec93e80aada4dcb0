----------------------------- MODULE TradeRules -----------------------------
(***************************************************************************)
(* What makes a posted trade acceptable, and what is derived from it:      *)
(* validate (internal/trades/validate.go), derive and round8               *)
(* (internal/trades/repo.go), against the constraints of table trades      *)
(* (migrations/0001_init.up.sql), which PostgreSQL checks after them.  A   *)
(* body validate refuses is answered 400, a row PostgreSQL refuses 500.    *)
(*                                                                         *)
(* Amounts are exact multiples of a grain, Fine grains to the least step   *)
(* of a NUMERIC column (10^-8 in the code) and One steps to the unit; the  *)
(* error of float64 arithmetic itself is left out.  A rationale is its     *)
(* length in bytes and in characters.                                      *)
(***************************************************************************)
EXTENDS Integers

CONSTANTS Inputs,      \* the bodies clients may post
          None,        \* an absent or null field
          Fine,        \* grains to a NUMERIC step
          One,         \* NUMERIC steps to 1.0: 10^8
          MaxNumeric,  \* the largest NUMERIC(18, 8), in steps: 10^18 - 1
          MaxInt,      \* the largest int64
          MaxPlan,     \* the best planAdherence: 5
          MaxRationale \* 500

Classes    == {"equity", "crypto", "forex"}
Directions == {"long", "short"}
Statuses   == {"open", "closed", "cancelled"}
Emotions   == {"calm", "anxious", "greedy", "fearful", "neutral"}

ASSUME BoundsAssumption ==
    /\ Fine \in Nat \ {0} /\ One \in Nat \ {0}
    /\ MaxNumeric \in Nat /\ MaxInt \in Nat /\ MaxNumeric < MaxInt
    /\ MaxPlan \in Nat /\ MaxRationale \in Nat

(* A body that decodes.  ids: no required id, nor the asset, is missing;    *)
(* exitAt: absent, the zero time, or given.  A character is at least a byte.*)
ASSUME InputsAssumption ==
    \A in \in Inputs : /\ in.ids \in BOOLEAN /\ in.entryAt \in BOOLEAN
                       /\ in.entryPrice \in Int /\ in.quantity \in Int
                       /\ in.exitPrice \in Int \cup {None}
                       /\ in.exitAt \in {None, "zero", "given"}
                       /\ in.planAdherence \in Int \cup {None}
                       /\ \/ in.rationale = None
                          \/ /\ in.rationale \in [bytes : Nat, chars : Nat]
                             /\ in.rationale.chars <= in.rationale.bytes

ASSUME NoneAssumption == None \notin Int \cup {"zero", "given"}

VARIABLES input,    \* the body
          verdict,  \* "received", "derive", "rejected" (400), "stored", "failed" (500)
          row       \* the derived and rounded columns of the stored row

vars == <<input, verdict, row>>

----------------------------------------------------------------------------
(* validate, field by field.                                                *)

(* Operators whose name ends in Bug are not part of the model: each is the  *)
(* definition after it with one plausible mistake, which some property      *)
(* listed in PROJECT.json tells from the code.                              *)

ClosedBug(in) == in.status = "closed" => in.exitPrice # None /\ in.exitPrice > 0  \* any exitAt

(* A closed trade has its exit.                                             *)
ClosedOK(in) == in.status = "closed" => /\ in.exitAt = "given"
                                        /\ in.exitPrice # None /\ in.exitPrice > 0

Valid(in) ==
    /\ in.ids
    /\ in.assetClass \in Classes /\ in.direction \in Directions
    /\ in.entryPrice > 0 /\ in.quantity > 0
    /\ in.entryAt
    /\ in.status \in Statuses
    /\ ClosedOK(in)
    /\ in.planAdherence # None => in.planAdherence \in 1 .. MaxPlan
    /\ in.emotion # None => in.emotion \in Emotions
    /\ in.rationale # None => in.rationale.bytes <= MaxRationale

----------------------------------------------------------------------------
(* derive.                                                                  *)

Abs(n) == IF n < 0 THEN -n ELSE n

(* n / d, truncated towards zero after half a unit of its own sign.         *)
Half(n, d) == (2 * Abs(n) + d) \div (2 * d)
Rounded(n, d) == IF n < 0 THEN -Half(n, d) ELSE Half(n, d)

(* (exit - entry) * quantity, in grains of grains.                          *)
DeltaBug(in) == in.exitPrice - in.entryPrice  \* a short is a long
Delta(in) == IF in.direction = "short" THEN in.entryPrice - in.exitPrice
                                       ELSE in.exitPrice - in.entryPrice

Exact(in) == Delta(in) * in.quantity

(* Grains of grains to a NUMERIC step.                                      *)
Step == Fine * Fine * One

(* round8 converts to int64.  Out of range the result is the processor's:   *)
(* the least integer on amd64, the nearest one on arm64.                    *)
RoundBug(n) == {n \div Step}  \* 0.5 forgotten
Round8(n) == LET r == Rounded(n, Step)
             IN IF r \in -MaxInt .. MaxInt THEN {r}
                ELSE {-MaxInt - 1} \cup (IF r > 0 THEN {MaxInt} ELSE {})

(* Each outcome derive may produce.                                         *)
Derived(in) ==
    IF in.status # "closed" \/ in.exitPrice = None
      THEN {[pnl |-> None, outcome |-> None]}
      ELSE {[pnl |-> p, outcome |-> IF p < 0 THEN "loss" ELSE "win"] : p \in Round8(Exact(in))}

----------------------------------------------------------------------------
(* The row as PostgreSQL stores it, and the CHECKs it must pass.            *)

Numeric(x) == IF x = None THEN None ELSE Rounded(x, Fine)

Fits(x) == x # None => Abs(x) <= MaxNumeric

Row(in, d) == [entry |-> Numeric(in.entryPrice), exit |-> Numeric(in.exitPrice),
               quantity |-> Numeric(in.quantity), pnl |-> d.pnl, outcome |-> d.outcome]

(* The amounts fit their columns and the positive ones stay positive.       *)
AmountsOK(r) == /\ Fits(r.entry) /\ Fits(r.exit) /\ Fits(r.quantity) /\ Fits(r.pnl)
                /\ r.entry > 0 /\ r.quantity > 0

(* The enum types, NOT NULL, and the CHECKs on the other columns.           *)
RestOK(in) ==
    /\ in.assetClass \in Classes /\ in.direction \in Directions /\ in.status \in Statuses
    /\ in.emotion # None => in.emotion \in Emotions
    /\ in.planAdherence # None => in.planAdherence \in 1 .. MaxPlan
    /\ in.rationale # None => in.rationale.chars <= MaxRationale
    /\ in.status = "closed" => in.exitAt # None /\ in.exitPrice # None

----------------------------------------------------------------------------

Init == /\ input \in Inputs
        /\ verdict = "received"
        /\ row = None

Validate == /\ verdict = "received"
            /\ verdict' = IF Valid(input) THEN "derive" ELSE "rejected"
            /\ UNCHANGED <<input, row>>

Insert == /\ verdict = "derive"
          /\ \E d \in Derived(input) :
               IF AmountsOK(Row(input, d)) /\ RestOK(input)
                 THEN verdict' = "stored" /\ row' = Row(input, d)
                 ELSE verdict' = "failed" /\ UNCHANGED row
          /\ UNCHANGED input

Next == Validate \/ Insert

Spec == Init /\ [][Next]_vars

----------------------------------------------------------------------------
(* "Client sent garbage" against "server has a bug" (validate.go): apart    *)
(* from the size of amounts, which it does not look at, validate refuses    *)
(* whatever the table would refuse (0001_init.up.sql), so that no other     *)
(* mistake of a client ends in a 500.                                       *)
FailedOnlyForAmounts ==
    verdict = "failed" => \E d \in Derived(input) : ~AmountsOK(Row(input, d))

(* The reference: what was gained on the way from entry to exit.            *)
Gain(in) == (IF in.direction = "long" THEN 1 ELSE -1) * in.quantity
              * (in.exitPrice - in.entryPrice)

(* The outcome in the table is that of the trade: a stored loss has lost,   *)
(* and one that lost at least a NUMERIC step is stored as a loss, long or   *)
(* short, also when the conversion in round8 overflows (derive).            *)
OutcomeTrue ==
    verdict = "stored" /\ input.status = "closed" =>
        /\ row.outcome = "loss" => Gain(input) < 0
        /\ Gain(input) <= -Step => row.outcome = "loss"

(* The stored pnl is within half a NUMERIC step of the exact one (round8).  *)
PnlClose ==
    verdict = "stored" /\ input.status = "closed" =>
        2 * Abs(row.pnl * Step - Gain(input)) <= Step
=============================================================================
