---------------------------- MODULE MCApiRequest ----------------------------
EXTENDS ApiRequest, TLC
CONSTANTS u1, u2, sent

Token(u) == [alg |-> "HS256", signed |-> TRUE, exp |-> "future", sub |-> u, role |-> "trader"]

Query(from, to, granularity) == [from |-> from, to |-> to, granularity |-> granularity]

Shape(route, trace, token, path, query) ==
    [route |-> route, trace |-> trace, token |-> token, path |-> path, query |-> query]

(* Tokens and queries with one defect each; the last token names no UUID.   *)
Refused == {[Token(u1) EXCEPT !.alg = "none"], [Token(u1) EXCEPT !.signed = FALSE],
            [Token(u1) EXCEPT !.exp = "past"], [Token(u1) EXCEPT !.exp = "missing"],
            [Token(u1) EXCEPT !.role = ""], [Token(u1) EXCEPT !.sub = None]}
Wrong   == {Query(None, 1, "daily"), Query(0, None, "daily"), Query(1, 1, "daily"),
            Query(0, 1, "")}
Right   == Query(0, 1, "daily")

ASSUME RefusedAssumption == /\ \A t \in Refused : Parse(t) = None
                            /\ \A q \in Wrong : ~ValidQuery(q)

SomeShapes ==
    {Shape("health", None, None, None, Right), Shape("page", sent, None, None, Right),
     Shape("trades", sent, Token(u1), None, Right), Shape("trades", None, None, None, Right),
     Shape("metrics", None, Token(u1), u1, Query(1, 1, "daily"))}
      \cup {Shape("metrics", sent, Token(u1), p, Right) : p \in {u1, u2, None}}
=============================================================================
