--------------------------- MODULE MCOpenMetrics ---------------------------
EXTENDS OpenMetrics, TLC
CONSTANTS w1, w2, c1, o1, o2, u1

Row(u, n, x, loss, upset) ==
    [user |-> u, entry |-> n, exit |-> x, loss |-> loss, upset |-> upset]

(* A losing trade, then two trades opened in anger: the first within Gap    *)
(* of the loss, the second within Window of both, beyond Gap, and by a part *)
(* of a millisecond later than its event says.                              *)
Spree == (c1 :> Row(u1, 1, 3, TRUE, FALSE))
      @@ (o1 :> Row(u1, 4, None, FALSE, TRUE))
      @@ (o2 :> Row(u1, 7, None, FALSE, TRUE))
=============================================================================
