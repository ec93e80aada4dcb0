---------------------------- MODULE MCTradeRules ----------------------------
EXTENDS TradeRules

Prices     == {-1, 0, 1, 2, 4, 13, 30, 70}
Quantities == {0, 1, 2, 5, 40}

Closing == [ids |-> TRUE, assetClass |-> "forex", direction |-> "long", entryAt |-> TRUE,
            entryPrice |-> 4, exitPrice |-> 4, quantity |-> 4, exitAt |-> "given",
            status |-> "closed", planAdherence |-> None, emotion |-> None, rationale |-> None]

(* Every amount around zero, half a step, a step and the bounds, either way.*)
Amounts == {[Closing EXCEPT !.direction = d, !.status = s, !.entryPrice = n, !.exitPrice = x,
                            !.quantity = q] :
              d \in Directions, s \in {"open", "closed"},
              n \in Prices, x \in Prices \cup {None}, q \in Quantities}

(* Every other field right and wrong, for each status.                      *)
Fields == {[Closing EXCEPT !.status = s, !.exitAt = a, !.exitPrice = x, !.planAdherence = p,
                           !.emotion = e, !.rationale = l] :
              s \in Statuses \cup {"other"}, a \in {None, "zero", "given"},
              x \in {None, -1, 4}, p \in {None, 0, 1, MaxPlan, MaxPlan + 1},
              e \in {None, "calm", "other"},
              l \in {None, [bytes |-> MaxRationale, chars |-> MaxRationale],
                     [bytes |-> MaxRationale + 1, chars |-> MaxRationale],
                     [bytes |-> MaxRationale + 1, chars |-> MaxRationale + 1]}}

Shapes == {[Closing EXCEPT !.ids = i, !.assetClass = c, !.direction = d, !.entryAt = a] :
              i \in BOOLEAN, a \in BOOLEAN, c \in Classes \cup {"other"},
              d \in Directions \cup {"other"}}

AnyInputs == Amounts \cup Fields \cup Shapes
=============================================================================
