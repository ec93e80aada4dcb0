----------------------------- MODULE MCBackfill -----------------------------
EXTENDS Backfill, TLC
CONSTANTS u1, u2, s1, s2

Trade(n, u, s, e, x, emo, rated, outcome) ==
    [id |-> n, user |-> u, session |-> s, entry |-> e, exit |-> x, emotion |-> emo,
     rated |-> rated, outcome |-> outcome, flag |-> (n = 3)]

(* Five open trades of one user at any times, equal ones too, next to a     *)
(* trade of another user.                                                   *)
SpikeSeeds ==
    {{Trade(n, u1, s1, f[n], None, None, FALSE, None) : n \in 1 .. 5}
       \cup {Trade(6, u2, s2, 2, None, None, FALSE, None)} :
           f \in {g \in [1 .. 5 -> 0 .. 6] : \A n \in 1 .. 4 : g[n] <= g[n + 1]}}

(* Three trades of one session, each open or closed soon or late, as a win, *)
(* a loss or, in a seed file without outcome, neither, in anger or not; and *)
(* one of the other user, who may have used the same session.               *)
MetricSeeds ==
    LET kinds == {<<0, "anxious", None>>, <<0, "calm", None>>, <<1, "anxious", "win">>,
                  <<1, "calm", "loss">>, <<3, "calm", "win">>, <<3, "calm", "loss">>,
                  <<3, "anxious", "loss">>, <<1, "calm", None>>}
    IN {{Trade(n, u1, s1, 2 * n, IF f[n][1] = 0 THEN None ELSE 2 * n + f[n][1],
               f[n][2], TRUE, f[n][3]) : n \in 1 .. 3}
          \cup {Trade(4, u2, s, 1, 2, None, FALSE, "loss")} :
              f \in [1 .. 3 -> kinds], s \in {s1, s2}}

SomeSeeds == SpikeSeeds \cup MetricSeeds

SomeLeftovers == {{}, {[user |-> u2, from |-> 0, to |-> 2, count |-> 9]}}
=============================================================================
