--------------------------- MODULE MCTradeIntake ---------------------------
EXTENDS TradeIntake
CONSTANTS r1, r2, u1, u2, t1

Post(t, u, tok, v, s) ==
    [op |-> "post", trade |-> t, user |-> u, token |-> tok, valid |-> v, status |-> s]
Get(t, tok) ==
    [op |-> "get", trade |-> t, user |-> u1, token |-> tok, valid |-> TRUE, status |-> "open"]

(* Competing posts of one trade, as open, as closed, by its owner and by    *)
(* another user, and reads of it.                                           *)
RivalBodies == {Post(t1, u1, u1, TRUE, "open"), Post(t1, u1, u1, TRUE, "closed"),
                Post(t1, u2, u2, TRUE, "cancelled"), Get(t1, u1)}

(* Requests the checks turn away, next to one they let through.             *)
RefusedBodies == {Post(t1, u1, u1, TRUE, "closed"), Post(t1, u1, u2, TRUE, "open"),
                  Post(t1, u1, u1, FALSE, "open"), Post(t1, u1, None, TRUE, "open"),
                  Get(t1, None), Get(t1, u2)}

AnyBodies == RivalBodies \cup RefusedBodies
=============================================================================
