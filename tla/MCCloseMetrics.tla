-------------------------- MODULE MCCloseMetrics ---------------------------
EXTENDS CloseMetrics, TLC
CONSTANTS w1, w2, c1, c2, c3, u1, u2, s1, calm

Row(u, s, n, x, emo, rated, loss) ==
    [user |-> u, session |-> s, entry |-> n, exit |-> x, emotion |-> emo,
     rated |-> rated, loss |-> loss]

(* A loss and the trade after it in one session, closed in the other order, *)
(* and a trade of another user in the same session.                         *)
Shared == (c1 :> Row(u1, s1, 1, 5, calm, TRUE, TRUE))
       @@ (c2 :> Row(u1, s1, 2, 4, calm, TRUE, FALSE))
       @@ (c3 :> Row(u2, s1, 3, 5, None, FALSE, FALSE))

Symmetry == Permutations({w1, w2})
=============================================================================
