----------------------------- MODULE ApiRequest -----------------------------
(***************************************************************************)
(* A request on its way through the API process: the router and middleware *)
(* chain set up in cmd/api/main.go, the middleware of internal/middleware, *)
(* tokens (internal/auth/jwt.go), GET /health and GET /users/{id}/metrics  *)
(* with the reads of internal/metrics/repo.go, over the connection pool    *)
(* that all requests share.  Of the trade handlers, which are              *)
(* TradeIntake's, it keeps that they query and answer.                     *)
(*                                                                         *)
(* A handler waits for a connection, then for PostgreSQL, which may stop   *)
(* answering for any time, fail a query, or break off a result set.  Redis *)
(* may never answer.  Any code below the recoverer may panic.  What a      *)
(* handler writes is sent: the server's timeouts on slow connections are   *)
(* left out.                                                               *)
(***************************************************************************)
EXTENDS Naturals, Sequences, FiniteSets

CONSTANTS Requests,
          Users,
          Shapes,    \* the requests clients may send
          None,      \* no header, no user, no response
          MaxConns   \* MaxConns of the pool

ASSUME ShapesAssumption ==
    \A s \in Shapes : /\ s.route \in {"health", "page", "trades", "metrics"}
                      /\ s.path \in Users \cup {None}  \* None: not a UUID
                      /\ s.token = None \/ s.token.sub \in Users \cup {None}
                      /\ \A t \in {s.query.from, s.query.to} : t \in Nat \cup {None}

ASSUME PoolAssumption == /\ MaxConns \in Nat \ {0} /\ None \notin Users \cup Nat
                         /\ IsFiniteSet(Requests)

(* What may be sent: a body is JSON or text, or an error with a trace id.   *)
Statuses  == {200, 400, 401, 403, 404, 500, 503}
Traces    == Requests \cup {s.trace : s \in Shapes}
Responses == [status : Statuses, body : Traces \cup {"json", "text"}]

ASSUME ResponsesAssumption == None \notin Responses

VARIABLES
    req,   \* the state of each request
    free,  \* connections of the pool nobody holds
    db     \* whether PostgreSQL is "up" or "hung"

vars == <<req, free, db>>

(* LoadSnapshot and LoadBuckets: one query each part, in this order.  Those *)
(* in Looped read many rows.                                                *)
Parts  == <<"user_metrics", "emotions", "tilt", "buckets">>
Looped == {"emotions", "buckets"}

OuterBug == <<"recoverer", "trace", "logger">>  \* as its comment has it

(* r.Use in run: the first is the outermost.                                *)
Outer == <<"trace", "logger", "recoverer">>

Chain(route) == Outer \o (CASE route = "trades"  -> <<"auth">>
                            [] route = "metrics" -> <<"auth", "match">>
                            [] OTHER             -> <<>>) \o <<"handler">>

(* Where its handler begins.                                                *)
Entry == [health |-> "ping", page |-> "page", trades |-> "trade", metrics |-> "parse"]

At(q) == Chain(q.shape.route)[q.depth]

Handling(q, stage) == q.mode = "call" /\ At(q) = "handler" /\ q.stage = stage

Querying(q) == /\ q.mode = "call" /\ At(q) = "handler"
               /\ q.stage \in {"ping", "trade"} \cup {Parts[n] : n \in DOMAIN Parts}

----------------------------------------------------------------------------
(* What is done with a response.                                            *)

(* WriteHeader and the body after it: the client gets the first status, the *)
(* status recorder keeps the last.                                          *)
Write(q, code, body) ==
    [q EXCEPT !.recorded = code,
              !.sent = IF @ = None THEN [status |-> code, body |-> body] ELSE @,
              !.mode = "return"]

(* WriteError puts the request's trace id into the body.                    *)
WriteError(q, code) == Write(q, code, q.trace)

WriteJSON(q, code) == Write(q, code, "json")

Update(r, q) == req' = [req EXCEPT ![r] = q]

ReleaseTwiceBug(q) == free' = free + 1  \* also one that was never there

ReleaseBug(q) == free' = IF q.busy /\ q.stage \notin Looped THEN free + 1 ELSE free

(* The connection goes back to the pool: Scan and rows.Next do it when they *)
(* are through, a deferred rows.Close on every other way out.               *)
Release(q) == free' = IF q.busy THEN free + 1 ELSE free

----------------------------------------------------------------------------
(* The way in.                                                              *)

(* Trace honours the caller's X-Trace-Id or makes one up, and puts it into  *)
(* the context and the response's header; Logger and Recoverer call on.     *)
Arrive(r, s) ==
    /\ req[r].mode = "idle"
    /\ Update(r, [req[r] EXCEPT !.mode = "call", !.shape = s, !.stage = Entry[s.route],
                                !.trace = IF s.trace = None THEN r ELSE s.trace,
                                !.depth = Len(Outer) + 1])
    /\ UNCHANGED <<free, db>>

(* Verifier.Parse: the user a token names, or None for ErrInvalidToken.     *)
Parse(token) ==
    IF token.alg = "HS256" /\ token.signed /\ token.exp = "future" /\ token.role # ""
      THEN token.sub ELSE None

(* A header of another scheme has no token, and one without a UUID for sub  *)
(* names nobody.                                                            *)
Authenticate(r) ==
    LET q == req[r]
        user == IF q.shape.token = None THEN None ELSE Parse(q.shape.token)
    IN /\ q.mode = "call" /\ At(q) = "auth"
       /\ Update(r, IF user = None THEN WriteError(q, 401)
                    ELSE [q EXCEPT !.user = user, !.depth = @ + 1])
       /\ UNCHANGED <<free, db>>

RequireUserMatch(r) ==
    LET q == req[r]
    IN /\ q.mode = "call" /\ At(q) = "match"
       /\ Update(r, CASE q.user = None         -> WriteError(q, 401)
                      [] q.shape.path = None   -> WriteError(q, 400)
                      [] q.shape.path # q.user -> WriteError(q, 403)
                      [] OTHER                 -> [q EXCEPT !.depth = @ + 1])
       /\ UNCHANGED <<free, db>>

----------------------------------------------------------------------------
(* getMetrics.                                                              *)

Granularities == {"hourly", "daily", "rolling30d"}

(* None: no timestamp, or none that parses.                                 *)
ValidQuery(query) == /\ query.from # None /\ query.to # None
                     /\ query.from < query.to
                     /\ query.granularity \in Granularities

ParseQuery(r) ==
    /\ Handling(req[r], "parse")
    /\ Update(r, IF ValidQuery(req[r].shape.query) THEN [req[r] EXCEPT !.stage = Parts[1]]
                                       ELSE WriteError(req[r], 400))
    /\ UNCHANGED <<free, db>>

(* A query, here or in another handler, gets a connection.                  *)
AcquireBug(r) ==  \* one is kept for /health
    /\ Querying(req[r]) /\ ~req[r].busy
    /\ free > IF req[r].stage = "ping" THEN 0 ELSE 1
    /\ free' = free - 1
    /\ Update(r, [req[r] EXCEPT !.busy = TRUE])
    /\ UNCHANGED db

Acquire(r) ==
    /\ Querying(req[r]) /\ ~req[r].busy
    /\ free > 0
    /\ free' = free - 1
    /\ Update(r, [req[r] EXCEPT !.busy = TRUE])
    /\ UNCHANGED db

(* After part n of the reads the next one, or the response.                 *)
Advance(q, n) == [q EXCEPT !.busy = FALSE,
                           !.stage = IF n < Len(Parts) THEN Parts[n + 1] ELSE "reply"]

(* A row, rows or no row: all of these are results.                         *)
Load(r, n) ==
    /\ Handling(req[r], Parts[n]) /\ req[r].busy /\ db = "up"
    /\ Update(r, [Advance(req[r], n) EXCEPT !.loaded = @ \cup {Parts[n]}])
    /\ Release(req[r])
    /\ UNCHANGED db

(* rows.Next ends the loop early and rows.Err is not consulted.             *)
LoadBroken(r, n) ==
    /\ Handling(req[r], Parts[n]) /\ req[r].busy /\ Parts[n] \in Looped
    /\ Update(r, [Advance(req[r], n) EXCEPT !.broken = TRUE])
    /\ Release(req[r])
    /\ UNCHANGED db

LoadFailedBug(r, n) ==  \* without buckets, but with the snapshot
    /\ Handling(req[r], Parts[n])
    /\ Update(r, IF Parts[n] = "buckets" THEN Advance(req[r], n)
                 ELSE [WriteError(req[r], 500) EXCEPT !.busy = FALSE])
    /\ Release(req[r])
    /\ UNCHANGED db

(* The query, or the wait for a connection, ends in an error.               *)
LoadFailed(r, n) ==
    /\ Handling(req[r], Parts[n])
    /\ Update(r, [WriteError(req[r], 500) EXCEPT !.busy = FALSE])
    /\ Release(req[r])
    /\ UNCHANGED db

Reply(r) ==
    /\ Handling(req[r], "reply")
    /\ Update(r, WriteJSON(req[r], 200))
    /\ UNCHANGED <<free, db>>

----------------------------------------------------------------------------
(* check of /health.                                                        *)

Ping(r) ==
    /\ Handling(req[r], "ping") /\ req[r].busy /\ db = "up"
    /\ Update(r, [req[r] EXCEPT !.busy = FALSE, !.stage = "lag", !.code = 200])
    /\ Release(req[r])
    /\ UNCHANGED db

PingTimeoutBug(r) ==  \* the deadline starts when the connection is there
    /\ Handling(req[r], "ping") /\ req[r].busy
    /\ Update(r, [req[r] EXCEPT !.busy = FALSE, !.stage = "lag", !.code = 503])
    /\ Release(req[r])
    /\ UNCHANGED db

(* 500 ms have gone by, or the ping failed.                                 *)
PingTimeout(r) ==
    /\ Handling(req[r], "ping")
    /\ Update(r, [req[r] EXCEPT !.busy = FALSE, !.stage = "lag", !.code = 503])
    /\ Release(req[r])
    /\ UNCHANGED db

(* QueueLag returns a number, or an error after 500 ms at the latest, which *)
(* is dropped; the response is written.                                     *)
QueueLag(r) ==
    /\ Handling(req[r], "lag")
    /\ Update(r, WriteJSON(req[r], req[r].code))
    /\ UNCHANGED <<free, db>>

(* A file, or http.Error where the build has none.                          *)
ServeStatic(q) == {Write(q, code, "text") : code \in {200, 404}}

(* The files and, always there, the landing page.                           *)
Page(r) ==
    /\ Handling(req[r], "page")
    /\ \E q \in ServeStatic(req[r]) \cup {Write(req[r], 200, "text")} : Update(r, q)
    /\ UNCHANGED <<free, db>>

(* create and get of the trade handlers.                                    *)
Trade(r) ==
    /\ Handling(req[r], "trade") /\ req[r].busy /\ db = "up"
    /\ \/ \E code \in {400, 403, 404} :
            Update(r, [WriteError(req[r], code) EXCEPT !.busy = FALSE])
       \/ Update(r, [WriteJSON(req[r], 200) EXCEPT !.busy = FALSE])
    /\ Release(req[r])
    /\ UNCHANGED db

TradeFailed(r) ==
    /\ Handling(req[r], "trade")
    /\ Update(r, [WriteError(req[r], 500) EXCEPT !.busy = FALSE])
    /\ Release(req[r])
    /\ UNCHANGED db

----------------------------------------------------------------------------
(* The way out.                                                             *)

(* Code below the recoverer panics.  Writing its response is the last thing *)
(* any of it does.                                                          *)
Panic(r) ==
    /\ req[r].mode = "call"
    /\ Update(r, [req[r] EXCEPT !.mode = "panic", !.busy = FALSE])
    /\ Release(req[r])
    /\ UNCHANGED db

(* A middleware's code after next.ServeHTTP.  Logger's is not deferred: a   *)
(* panic that reaches it writes no line.                                    *)
Left(q) == CASE At(q) = "recoverer" /\ q.mode = "panic" -> WriteError(q, 500)
             [] At(q) = "logger" /\ q.mode = "return" ->
                    [q EXCEPT !.lines = Append(@, [trace |-> q.trace, status |-> q.recorded])]
             [] OTHER -> q

(* One level up; past the outermost the server ends the request, with the   *)
(* connection dropped if it was a panic.                                    *)
Unwind(r) ==
    /\ req[r].mode \in {"return", "panic"}
    /\ Update(r, [Left(req[r]) EXCEPT !.depth = @ - 1,
                                      !.mode = IF req[r].depth = 1 THEN "closed" ELSE @])
    /\ UNCHANGED <<free, db>>

(* PostgreSQL stops answering, or answers again.                            *)
Toggle == /\ db' = IF db = "up" THEN "hung" ELSE "up"
          /\ UNCHANGED <<req, free>>

----------------------------------------------------------------------------

Init ==
    /\ req = [r \in Requests |->
                [mode |-> "idle", shape |-> None, depth |-> 0, stage |-> None, trace |-> None,
                 user |-> None, busy |-> FALSE, code |-> 0, recorded |-> 0, sent |-> None,
                 lines |-> <<>>, loaded |-> {}, broken |-> FALSE]]
    /\ free = MaxConns
    /\ db = "up"

(* What the server does of itself.  A deadline is among it, an error is not.*)
Serve(r) == \/ Authenticate(r) \/ RequireUserMatch(r) \/ ParseQuery(r)
            \/ Acquire(r)
            \/ \E n \in DOMAIN Parts : Load(r, n)
            \/ Reply(r)
            \/ Ping(r) \/ PingTimeout(r) \/ QueueLag(r)
            \/ Page(r) \/ Trade(r)
            \/ Unwind(r)

Mishap(r) == \/ \E n \in DOMAIN Parts : LoadBroken(r, n) \/ LoadFailed(r, n)
             \/ TradeFailed(r)
             \/ Panic(r)

Next == \/ \E r \in Requests : (\E s \in Shapes : Arrive(r, s)) \/ Serve(r) \/ Mishap(r)
        \/ Toggle

Spec == Init /\ [][Next]_vars

(* Goroutines run and deadlines pass.  PostgreSQL answers while it is up,   *)
(* and need not come up again.                                              *)
FairSpec == Spec /\ \A r \in Requests : WF_vars(Serve(r))

----------------------------------------------------------------------------
(* Type correctness; the pool never hands out more than it has.             *)
TypeOK ==
    /\ \A r \in Requests :
         LET q == req[r]
         IN /\ q.mode \in {"idle", "call", "return", "panic", "closed"}
            /\ q.shape \in Shapes \cup {None}
            /\ q.mode \in {"call", "return", "panic"} => q.depth \in DOMAIN Chain(q.shape.route)
            /\ q.user \in Users \cup {None}
            /\ q.busy \in BOOLEAN
            /\ q.recorded \in Statuses \cup {0}
            /\ q.sent \in Responses \cup {None}
    /\ free \in 0 .. MaxConns
    /\ db \in {"up", "hung"}

(* "Emits one structured JSON line per request" (log.go), "the traceId is   *)
(* pulled from the context so it matches the structured log line for the    *)
(* same request" (httpx.go): a request that has ended was answered and has  *)
(* one line, with the status the client was sent; a 500, also one after a   *)
(* panic, and every refusal of a guarded route carries the same trace id.   *)
Accounted ==
    \A r \in Requests :
        LET q == req[r]
        IN q.mode = "closed" =>
             /\ q.sent # None
             /\ q.lines = <<[trace |-> q.trace, status |-> q.sent.status]>>
             /\ \/ q.sent.status = 500
                \/ q.sent.status >= 400 /\ q.shape.route \in {"trades", "metrics"}
                => q.sent.body = q.trace

(* "The sub claim in the JWT must exactly match the userId in the data      *)
(* being accessed" (auth.go), and a 200 holds all four reads: metrics are   *)
(* sent only to their user and only whole, unless a result set broke off.   *)
MetricsWhole ==
    \A r \in Requests :
        LET q == req[r]
        IN q.mode = "closed" /\ q.shape.route = "metrics" /\ q.sent.status = 200 =>
             /\ q.user = q.shape.path
             /\ q.broken \/ q.loaded = {Parts[n] : n \in DOMAIN Parts}

(* On no way out of a handler, a panic in the middle of a result set among  *)
(* them, is a connection lost: what is not in use is in the pool.           *)
PoolConserved == free + Cardinality({r \in Requests : req[r].busy}) = MaxConns

(* "Bounded ping, never block /health past a tight budget" (health): it     *)
(* answers although PostgreSQL and Redis never do and hung queries hold     *)
(* every connection.                                                        *)
HealthAnswered ==
    \A r \in Requests :
        (req[r].mode = "call" /\ req[r].shape.route = "health") ~> (req[r].mode = "closed")

(* No request waits for ever for a connection that others keep while they   *)
(* wait too: once PostgreSQL stays up, all requests end.                    *)
AllAnswered ==
    <>[](db = "up") => \A r \in Requests : (req[r].mode = "call") ~> (req[r].mode = "closed")
=============================================================================
