-------------------------- MODULE ApiRequestProofs --------------------------
(***************************************************************************)
(* Proofs about a request's way through the API process, for any number of *)
(* requests at once, any shapes of them and any size of the pool.          *)
(***************************************************************************)
EXTENDS ApiRequest, FiniteSetTheorems, SequenceTheorems, TLAPS

Modes == {"idle", "call", "return", "panic", "closed"}

AllParts == {"user_metrics", "emotions", "tilt", "buckets"}

(* The stages of each route's handler.                                      *)
HandlerStages == [health  |-> {"ping", "lag"}, page |-> {"page"}, trades |-> {"trade"},
                  metrics |-> {"parse", "reply"} \cup AllParts]

Stages == {"ping", "lag", "page", "trade", "parse", "reply"} \cup AllParts

Lines == {<< >>} \cup {<<[trace |-> t, status |-> c]>> : t \in Traces, c \in Statuses}

Request == [mode : Modes, shape : Shapes \cup {None}, depth : Nat, stage : Stages \cup {None},
            trace : Traces \cup {None}, user : Users \cup {None}, busy : BOOLEAN,
            code : Statuses \cup {0}, recorded : Statuses \cup {0}, sent : Responses \cup {None},
            lines : Lines, loaded : SUBSET AllParts, broken : BOOLEAN]

(* What /health answers.                                                    *)
HealthCodes == {200, 503}

Length(q) == Len(Chain(q.shape.route))

(* Where a request stands.  A handler below the recoverer is called, returns*)
(* up to the server, or panics up to the recoverer.                         *)
Placed(q) ==
    /\ q.mode # "idle" => q.shape \in Shapes /\ q.trace \in Traces
    /\ q.mode = "call" => /\ q.depth \in 4 .. Length(q)
                          /\ q.stage \in HandlerStages[q.shape.route]
    /\ q.mode = "return" => q.depth \in 1 .. Length(q)
    /\ q.mode = "panic" => q.depth \in 3 .. Length(q)

(* Only a handler that has come to a query holds a connection.              *)
Holding(q) == q.busy => Querying(q)

(* Errors carry the trace id where clients are promised one.                *)
Explained(q) == \/ q.sent.status = 500
                \/ q.sent.status >= 400 /\ q.shape.route \in {"trades", "metrics"}
                => q.sent.body = q.trace

(* A response has been sent exactly when the handlers have returned, and it *)
(* is the one the recorder saw last.                                        *)
Answered(q) ==
    /\ q.mode \in {"return", "closed"} <=> q.sent # None
    /\ q.sent # None => q.recorded = q.sent.status /\ Explained(q)
    /\ q.mode = "call" /\ q.stage = "lag" => q.code \in {200, 503}

(* The logger has written its line exactly when control is outside of it.   *)
Logged(q) ==
    q.lines = IF q.mode = "closed" \/ (q.mode = "return" /\ q.depth = 1)
                THEN <<[trace |-> q.trace, status |-> q.sent.status]>> ELSE << >>

Whole(q) == q.broken \/ q.loaded = AllParts

(* What a stage of getMetrics has behind it.                                *)
Behind == [parse |-> {}, user_metrics |-> {}, emotions |-> {"user_metrics"},
           tilt |-> {"user_metrics", "emotions"},
           buckets |-> {"user_metrics", "emotions", "tilt"}, reply |-> AllParts]

Guarded(q) ==
    q.shape \in Shapes /\ q.shape.route = "metrics" =>
        /\ q.mode = "call" /\ At(q) = "handler" => q.user = q.shape.path
        /\ q.mode = "call" => q.broken \/ Behind[q.stage] \subseteq q.loaded
        /\ q.sent # None /\ q.sent.status = 200 => q.user = q.shape.path /\ Whole(q)

RequestInv(q) == q \in Request /\ Placed(q) /\ Holding(q) /\ Answered(q) /\ Logged(q) /\ Guarded(q)

Inv == /\ req \in [Requests -> Request]
       /\ \A r \in Requests : RequestInv(req[r])
       /\ db \in {"up", "hung"}
       /\ free \in Nat
       /\ PoolConserved

----------------------------------------------------------------------------
(* The chain of handlers.                                                   *)

Routes == {"health", "page", "trades", "metrics"}

Handlers == {"trace", "logger", "recoverer", "auth", "match", "handler"}

LEMMA Links ==
    ASSUME NEW inner \in Seq(Handlers), NEW c, c = Outer \o inner \o <<"handler">>
    PROVE  /\ Len(c) = Len(inner) + 4
           /\ c[1] = "trace" /\ c[2] = "logger" /\ c[3] = "recoverer"
           /\ \A i \in 1 .. Len(inner) : c[i + 3] = inner[i]
           /\ c[Len(inner) + 4] = "handler"
<1> DEFINE o == Outer \o inner
           h == <<"handler">>
<1>1. /\ Outer \in Seq(Handlers) /\ Len(Outer) = 3 /\ h \in Seq(Handlers) /\ Len(h) = 1
      /\ Outer[1] = "trace" /\ Outer[2] = "logger" /\ Outer[3] = "recoverer"
  BY DEF Outer, Handlers
<1>2. /\ o \in Seq(Handlers) /\ Len(o) = Len(inner) + 3
      /\ \A i \in 1 .. Len(inner) + 3 : o[i] = IF i <= 3 THEN Outer[i] ELSE inner[i - 3]
  <2>1. /\ o \in Seq(Handlers) /\ Len(o) = Len(Outer) + Len(inner)
        /\ \A i \in 1 .. Len(Outer) + Len(inner) :
               o[i] = IF i <= Len(Outer) THEN Outer[i] ELSE inner[i - Len(Outer)]
    BY <1>1, ConcatProperties
  <2>2. Len(Outer) + Len(inner) = Len(inner) + 3
    BY <1>1
  <2> QED BY <1>1, <2>1, <2>2
<1> HIDE DEF o
<1>3. /\ Len(o \o h) = Len(inner) + 4
      /\ \A i \in 1 .. Len(inner) + 4 :
             (o \o h)[i] = IF i <= Len(inner) + 3 THEN o[i] ELSE h[i - (Len(inner) + 3)]
  BY <1>1, <1>2, ConcatProperties
<1>4. Len(inner) \in Nat
  OBVIOUS
<1>5. (o \o h)[1] = "trace" /\ (o \o h)[2] = "logger" /\ (o \o h)[3] = "recoverer"
  BY <1>1, <1>2, <1>3, <1>4
<1>6. \A i \in 1 .. Len(inner) : (o \o h)[i + 3] = inner[i]
  BY <1>2, <1>3, <1>4
<1>7. (o \o h)[Len(inner) + 4] = "handler"
  BY <1>3, <1>4
<1> QED BY <1>3, <1>5, <1>6, <1>7 DEF o

LEMMA ChainLinks ==
    ASSUME NEW route \in Routes
    PROVE  /\ Len(Chain(route)) = CASE route = "trades"  -> 5
                                    [] route = "metrics" -> 6
                                    [] OTHER             -> 4
           /\ \A d \in 1 .. Len(Chain(route)) :
                 /\ Chain(route)[d] = "logger" <=> d = 2
                 /\ Chain(route)[d] = "recoverer" <=> d = 3
                 /\ Chain(route)[d] = "auth" <=> d = 4 /\ route \in {"trades", "metrics"}
                 /\ Chain(route)[d] = "match" <=> d = 5 /\ route = "metrics"
                 /\ Chain(route)[d] = "handler" <=> d = Len(Chain(route))
<1>1. CASE route \in {"health", "page"}
  <2> DEFINE inner == << >>
  <2>1. inner \in Seq(Handlers) /\ Len(inner) = 0
    OBVIOUS
  <2>2. Chain(route) = Outer \o inner \o <<"handler">>
    BY <1>1 DEF Chain
  <2> HIDE DEF inner
  <2>3. /\ Len(Chain(route)) = 4
        /\ Chain(route)[1] = "trace" /\ Chain(route)[2] = "logger" /\ Chain(route)[3] = "recoverer"
        /\ Chain(route)[4] = "handler"
    <3>1. /\ Len(Chain(route)) = Len(inner) + 4
          /\ Chain(route)[1] = "trace" /\ Chain(route)[2] = "logger" /\ Chain(route)[3] = "recoverer"
          /\ \A i \in 1 .. Len(inner) : Chain(route)[i + 3] = inner[i]
          /\ Chain(route)[Len(inner) + 4] = "handler"
      BY <2>1, <2>2, Links, Zenon
    <3> QED BY <2>1, <3>1
  <2>4. ASSUME NEW d \in 1 .. 4 PROVE d = 1 \/ d = 2 \/ d = 3 \/ d = 4
    OBVIOUS
  <2> QED BY <1>1, <2>3, <2>4
<1>2. CASE route = "trades"
  <2> DEFINE inner == <<"auth">>
  <2>1. inner \in Seq(Handlers) /\ Len(inner) = 1 /\ inner[1] = "auth"
    BY DEF Handlers
  <2>2. Chain(route) = Outer \o inner \o <<"handler">>
    BY <1>2 DEF Chain
  <2> HIDE DEF inner
  <2>3. /\ Len(Chain(route)) = 5
        /\ Chain(route)[1] = "trace" /\ Chain(route)[2] = "logger" /\ Chain(route)[3] = "recoverer"
        /\ \A i \in 1 .. 1 : Chain(route)[i + 3] = inner[i]
        /\ Chain(route)[5] = "handler"
    <3>1. /\ Len(Chain(route)) = Len(inner) + 4
          /\ Chain(route)[1] = "trace" /\ Chain(route)[2] = "logger" /\ Chain(route)[3] = "recoverer"
          /\ \A i \in 1 .. Len(inner) : Chain(route)[i + 3] = inner[i]
          /\ Chain(route)[Len(inner) + 4] = "handler"
      BY <2>1, <2>2, Links, Zenon
    <3> QED BY <2>1, <3>1
  <2>4. Chain(route)[4] = "auth"
    BY <2>1, <2>3
  <2>5. ASSUME NEW d \in 1 .. 5 PROVE d = 1 \/ d = 2 \/ d = 3 \/ d = 4 \/ d = 5
    OBVIOUS
  <2> QED BY <1>2, <2>3, <2>4, <2>5
<1>3. CASE route = "metrics"
  <2> DEFINE inner == <<"auth", "match">>
  <2>1. inner \in Seq(Handlers) /\ Len(inner) = 2 /\ inner[1] = "auth" /\ inner[2] = "match"
    BY DEF Handlers
  <2>2. Chain(route) = Outer \o inner \o <<"handler">>
    BY <1>3 DEF Chain
  <2> HIDE DEF inner
  <2>3. /\ Len(Chain(route)) = 6
        /\ Chain(route)[1] = "trace" /\ Chain(route)[2] = "logger" /\ Chain(route)[3] = "recoverer"
        /\ \A i \in 1 .. 2 : Chain(route)[i + 3] = inner[i]
        /\ Chain(route)[6] = "handler"
    <3>1. /\ Len(Chain(route)) = Len(inner) + 4
          /\ Chain(route)[1] = "trace" /\ Chain(route)[2] = "logger" /\ Chain(route)[3] = "recoverer"
          /\ \A i \in 1 .. Len(inner) : Chain(route)[i + 3] = inner[i]
          /\ Chain(route)[Len(inner) + 4] = "handler"
      BY <2>1, <2>2, Links, Zenon
    <3> QED BY <2>1, <3>1
  <2>4. Chain(route)[4] = "auth" /\ Chain(route)[5] = "match"
    BY <2>1, <2>3
  <2>5. ASSUME NEW d \in 1 .. 6 PROVE d = 1 \/ d = 2 \/ d = 3 \/ d = 4 \/ d = 5 \/ d = 6
    OBVIOUS
  <2> QED BY <1>3, <2>3, <2>4, <2>5
<1> QED BY <1>1, <1>2, <1>3 DEF Routes

LEMMA ChainDomain ==
    ASSUME NEW route \in Routes
    PROVE  DOMAIN Chain(route) = 1 .. Len(Chain(route))
<1> DEFINE inner == CASE route = "trades"  -> <<"auth">>
                      [] route = "metrics" -> <<"auth", "match">>
                      [] OTHER             -> <<>>
<1>1. inner \in Seq(Handlers)
  <2>1. <<"auth">> \in Seq(Handlers) /\ <<"auth", "match">> \in Seq(Handlers) /\ << >> \in Seq(Handlers)
    BY DEF Handlers
  <2> QED BY <2>1
<1>4. Outer \in Seq(Handlers) /\ <<"handler">> \in Seq(Handlers)
  BY DEF Outer, Handlers
<1>2. Chain(route) = Outer \o inner \o <<"handler">>
  BY DEF Chain
<1> HIDE DEF inner
<1>3. Chain(route) \in Seq(Handlers)
  BY <1>1, <1>2, <1>4, ConcatProperties
<1> QED BY <1>3, LenProperties

LEMMA PartsValue ==
    /\ DOMAIN Parts = 1 .. 4 /\ Len(Parts) = 4
    /\ Parts[1] = "user_metrics" /\ Parts[2] = "emotions" /\ Parts[3] = "tilt"
    /\ Parts[4] = "buckets"
    /\ {Parts[n] : n \in DOMAIN Parts} = AllParts
BY DEF Parts, AllParts

LEMMA AtLinks ==
    ASSUME NEW q, q.shape \in Shapes
    PROVE  /\ q.shape.route \in Routes
           /\ Length(q) \in 4 .. 6
           /\ q.depth \in 1 .. Length(q) =>
                 /\ At(q) = "logger" <=> q.depth = 2
                 /\ At(q) = "recoverer" <=> q.depth = 3
                 /\ At(q) = "auth" <=> q.depth = 4 /\ q.shape.route \in {"trades", "metrics"}
                 /\ At(q) = "match" <=> q.depth = 5 /\ q.shape.route = "metrics"
                 /\ At(q) = "handler" <=> q.depth = Length(q)
           /\ Length(q) = CASE q.shape.route = "trades" -> 5 [] q.shape.route = "metrics" -> 6
                            [] OTHER -> 4
<1>1. q.shape.route \in Routes
  BY ShapesAssumption DEF Routes
<1>2. Length(q) = CASE q.shape.route = "trades" -> 5 [] q.shape.route = "metrics" -> 6
                    [] OTHER -> 4
  BY <1>1, ChainLinks DEF Length
<1>3. ASSUME q.depth \in 1 .. Length(q)
      PROVE  /\ At(q) = "logger" <=> q.depth = 2
             /\ At(q) = "recoverer" <=> q.depth = 3
             /\ At(q) = "auth" <=> q.depth = 4 /\ q.shape.route \in {"trades", "metrics"}
             /\ At(q) = "match" <=> q.depth = 5 /\ q.shape.route = "metrics"
             /\ At(q) = "handler" <=> q.depth = Length(q)
  BY <1>1, <1>3, ChainLinks, Zenon DEF At, Length
<1> QED BY <1>1, <1>2, <1>3 DEF Routes

----------------------------------------------------------------------------
(* What each kind of step does to the invariant of one request.             *)

(* The types of what they leave behind.                                     *)
LEMMA DescendType ==
    ASSUME NEW q \in Request, NEW user \in Users \cup {None}, NEW depth \in Nat
    PROVE  [q EXCEPT !.user = user, !.depth = depth] \in Request
BY DEF Request

LEMMA AnswerType ==
    ASSUME NEW q \in Request, NEW code \in Statuses, NEW a \in Responses
    PROVE  [q EXCEPT !.recorded = code, !.sent = a, !.mode = "return"] \in Request
BY DEF Request, Modes

LEMMA ArriveType ==
    ASSUME NEW q \in Request, NEW s \in Shapes, NEW stage \in Stages, NEW trace \in Traces
    PROVE  [q EXCEPT !.mode = "call", !.shape = s, !.stage = stage, !.trace = trace,
                     !.depth = 4] \in Request
BY DEF Request, Modes

LEMMA PingType ==
    ASSUME NEW q \in Request, NEW code \in Statuses,
           NEW p, p = [q EXCEPT !.busy = FALSE, !.stage = "lag", !.code = code]
    PROVE  p \in Request
BY DEF Request, Stages

Bodies == Traces \cup {"json", "text"}

(* What may be answered.                                                    *)
MayAnswer(q, code, body) ==
    /\ \/ code = 500
       \/ code >= 400 /\ q.shape.route \in {"trades", "metrics"}
       => body = q.trace
    /\ code = 200 /\ q.shape.route = "metrics" => q.user = q.shape.path /\ Whole(q)

(* A handler answers and gives its connection back.                         *)
LEMMA AnswerInv ==
    ASSUME NEW q, RequestInv(q), q.mode = "call",
           NEW code \in Statuses, NEW body \in Bodies, MayAnswer(q, code, body),
           NEW p, p = [q EXCEPT !.recorded = code, !.sent = [status |-> code, body |-> body],
                                !.mode = "return", !.busy = FALSE]
    PROVE  RequestInv(p)
<1>1. q \in Request /\ q.shape \in Shapes /\ q.trace \in Traces /\ q.depth \in 4 .. Length(q)
      /\ q.lines = << >>
  BY DEF RequestInv, Placed, Logged
<1> DEFINE a == [status |-> code, body |-> body]
<1>2. a \in Responses /\ a # None /\ a.status = code /\ a.body = body
  BY ResponsesAssumption DEF Responses, Bodies
<1> HIDE DEF a
<1>3. /\ p \in Request /\ p.shape = q.shape /\ p.depth = q.depth /\ p.trace = q.trace
      /\ p.mode = "return" /\ p.sent = a /\ p.recorded = code /\ p.busy = FALSE
      /\ p.lines = q.lines /\ p.user = q.user /\ p.broken = q.broken /\ p.loaded = q.loaded
      /\ p.stage = q.stage /\ p.code = q.code
  BY <1>1, <1>2 DEF Request, Modes, a
<1>4. Length(p) = Length(q) /\ Length(q) \in 4 .. 6
  BY <1>1, <1>3, AtLinks DEF Length
<1>5. Placed(p) /\ Holding(p)
  BY <1>1, <1>3, <1>4 DEF Placed, Holding
<1>6. Answered(p)
  BY <1>2, <1>3 DEF Answered, Explained, RequestInv, MayAnswer
<1>7. Logged(p)
  BY <1>1, <1>3, <1>4 DEF Logged
<1>8. Guarded(p)
  BY <1>1, <1>2, <1>3 DEF Guarded, Whole, MayAnswer
<1> QED BY <1>3, <1>5, <1>6, <1>7, <1>8 DEF RequestInv

(* The middleware before the handler lets a request pass.                   *)
LEMMA DescendInv ==
    ASSUME NEW q, RequestInv(q), q.mode = "call", At(q) \in {"auth", "match"},
           NEW user \in Users \cup {None}, At(q) = "match" => user = q.shape.path,
           NEW p, p = [q EXCEPT !.user = user, !.depth = @ + 1]
    PROVE  RequestInv(p)
<1>1. q \in Request /\ q.shape \in Shapes /\ q.depth \in 4 .. Length(q)
  BY DEF RequestInv, Placed
<1>2. q.depth \in Nat /\ q.depth # Length(q) /\ Length(q) \in 4 .. 6
      /\ (At(q) = "match" <=> q.depth = 5 /\ q.shape.route = "metrics")
  BY <1>1, AtLinks
<1>3. /\ p \in Request /\ p.shape = q.shape /\ p.depth = q.depth + 1 /\ p.trace = q.trace
      /\ p.mode = "call" /\ p.sent = q.sent /\ p.recorded = q.recorded /\ p.busy = q.busy
      /\ p.lines = q.lines /\ p.user = user /\ p.broken = q.broken /\ p.loaded = q.loaded
      /\ p.stage = q.stage /\ p.code = q.code
  <2>1. p \in Request
    <3>1. q.depth + 1 \in Nat
      BY <1>2
    <3> QED BY <1>1, <3>1, DescendType, Zenon
  <2>2. /\ p.shape = q.shape /\ p.depth = q.depth + 1 /\ p.trace = q.trace
        /\ p.mode = "call" /\ p.sent = q.sent /\ p.recorded = q.recorded /\ p.busy = q.busy
        /\ p.lines = q.lines /\ p.user = user /\ p.broken = q.broken /\ p.loaded = q.loaded
        /\ p.stage = q.stage /\ p.code = q.code
    BY <1>1, <1>2 DEF Request
  <2> QED BY <2>1, <2>2
<1>4. Length(p) = Length(q)
  BY <1>3 DEF Length
<1>5. Placed(p)
  BY <1>1, <1>2, <1>3, <1>4 DEF Placed, RequestInv
<1>6. Holding(p)
  <2>1. ~q.busy
    BY DEF RequestInv, Holding, Querying
  <2> QED BY <1>3, <2>1 DEF Holding
<1>7. Answered(p) /\ Logged(p)
  BY <1>3 DEF RequestInv, Answered, Logged, Explained
<1>8. Guarded(p)
  <2>1. ASSUME p.shape.route = "metrics", At(p) = "handler" PROVE p.user = p.shape.path
    <3>1. p.shape \in Shapes /\ p.depth \in 1 .. Length(p)
      BY <1>1, <1>2, <1>3, <1>4
    <3>2. p.depth = 6
      BY <2>1, <3>1, AtLinks
    <3> QED BY <1>2, <1>3, <2>1, <3>2
  <2>2. q.sent = None
    BY DEF RequestInv, Answered
  <2> QED BY <1>3, <2>1, <2>2 DEF RequestInv, Guarded
<1> QED BY <1>3, <1>5, <1>6, <1>7, <1>8 DEF RequestInv

(* A handler goes on to another of its stages, and leaves the rest alone.   *)
LEMMA StageInv ==
    ASSUME NEW q, RequestInv(q), q.mode = "call", At(q) = "handler",
           NEW p \in Request,
           p.mode = "call", p.shape = q.shape, p.depth = q.depth, p.trace = q.trace,
           p.user = q.user, p.recorded = q.recorded, p.sent = q.sent, p.lines = q.lines,
           p.stage \in HandlerStages[q.shape.route],
           p.busy => p.stage \in {"ping", "trade"} \cup AllParts,
           p.stage = "lag" => p.code \in {200, 503},
           q.shape.route = "metrics" => p.broken \/ Behind[p.stage] \subseteq p.loaded
    PROVE  RequestInv(p)
<1>1. q.shape \in Shapes /\ q.depth \in 4 .. Length(q) /\ q.sent = None
  BY DEF RequestInv, Placed, Answered
<1>2. Length(p) = Length(q) /\ At(p) = "handler"
  BY DEF Length, At
<1>3. Placed(p)
  BY <1>1, <1>2 DEF Placed, RequestInv
<1>4. Holding(p)
  BY <1>2, PartsValue DEF Holding, Querying
<1>5. Answered(p) /\ Logged(p)
  BY DEF RequestInv, Answered, Logged
<1>6. Guarded(p)
  BY <1>1 DEF RequestInv, Guarded
<1> QED BY <1>3, <1>4, <1>5, <1>6 DEF RequestInv

LEMMA PanicInv ==
    ASSUME NEW q, RequestInv(q), q.mode = "call",
           NEW p, p = [q EXCEPT !.mode = "panic", !.busy = FALSE]
    PROVE  RequestInv(p)
<1>1. q \in Request /\ q.shape \in Shapes /\ q.depth \in 4 .. Length(q) /\ q.sent = None
  BY DEF RequestInv, Placed, Answered
<1>2. /\ p \in Request /\ p.shape = q.shape /\ p.depth = q.depth /\ p.trace = q.trace
      /\ p.mode = "panic" /\ p.sent = None /\ p.recorded = q.recorded /\ p.busy = FALSE
      /\ p.lines = q.lines /\ p.user = q.user /\ p.broken = q.broken /\ p.loaded = q.loaded
      /\ p.stage = q.stage /\ p.code = q.code
  BY <1>1 DEF Request, Modes
<1>3. Length(p) = Length(q) /\ Length(q) \in 4 .. 6
  BY <1>1, <1>2, AtLinks DEF Length
<1>4. Placed(p) /\ Holding(p)
  BY <1>1, <1>2, <1>3 DEF Placed, Holding, RequestInv
<1>5. Answered(p) /\ Logged(p)
  BY <1>2 DEF RequestInv, Answered, Logged
<1>6. Guarded(p)
  BY <1>2 DEF RequestInv, Guarded
<1> QED BY <1>2, <1>4, <1>5, <1>6 DEF RequestInv

LEMMA ArriveInv ==
    ASSUME NEW q, RequestInv(q), q.mode = "idle", NEW r \in Requests, NEW s \in Shapes,
           NEW p, p = [q EXCEPT !.mode = "call", !.shape = s, !.stage = Entry[s.route],
                                !.trace = IF s.trace = None THEN r ELSE s.trace,
                                !.depth = Len(Outer) + 1]
    PROVE  RequestInv(p)
<1>1. q \in Request /\ s.route \in Routes /\ Len(Outer) + 1 = 4
  BY ShapesAssumption DEF RequestInv, Routes, Outer
<1>2. Entry[s.route] \in HandlerStages[s.route] /\ Entry[s.route] \in Stages
      /\ Entry[s.route] # "lag" /\ (s.route = "metrics" => Entry[s.route] = "parse")
  BY <1>1 DEF Entry, HandlerStages, Stages, Routes
<1>3. (IF s.trace = None THEN r ELSE s.trace) \in Traces
  BY DEF Traces
<1>4. /\ p \in Request /\ p.shape = s /\ p.depth = 4 /\ p.trace \in Traces
      /\ p.mode = "call" /\ p.sent = q.sent /\ p.recorded = q.recorded /\ p.busy = q.busy
      /\ p.lines = q.lines /\ p.user = q.user /\ p.broken = q.broken /\ p.loaded = q.loaded
      /\ p.stage = Entry[s.route] /\ p.code = q.code
  <2>1. p \in Request
    BY <1>1, <1>2, <1>3, ArriveType
  <2>2. /\ p.shape = s /\ p.depth = 4 /\ p.trace \in Traces
        /\ p.mode = "call" /\ p.sent = q.sent /\ p.recorded = q.recorded /\ p.busy = q.busy
        /\ p.lines = q.lines /\ p.user = q.user /\ p.broken = q.broken /\ p.loaded = q.loaded
        /\ p.stage = Entry[s.route] /\ p.code = q.code
    BY <1>1, <1>2, <1>3 DEF Request, Modes
  <2> QED BY <2>1, <2>2
<1>5. Length(p) \in 4 .. 6 /\ (p.shape.route = "metrics" => At(p) # "handler")
  <2>0. p.shape \in Shapes
    BY <1>4
  <2>1. Length(p) \in 4 .. 6
    BY <2>0, AtLinks, Zenon
  <2>2. p.depth \in 1 .. Length(p)
    BY <1>4, <2>1
  <2>3. /\ At(p) = "handler" <=> p.depth = Length(p)
        /\ Length(p) = CASE p.shape.route = "trades" -> 5 [] p.shape.route = "metrics" -> 6
                         [] OTHER -> 4
    BY <2>0, <2>2, AtLinks, Zenon
  <2> QED BY <1>4, <2>1, <2>3
<1>6. Placed(p)
  BY <1>2, <1>4, <1>5 DEF Placed
<1>7. Holding(p)
  <2>1. ~q.busy
    BY DEF RequestInv, Holding, Querying
  <2> QED BY <1>4, <2>1 DEF Holding
<1>8. Answered(p) /\ Logged(p)
  BY <1>2, <1>4 DEF RequestInv, Answered, Logged
<1>9. Guarded(p)
  <2>1. q.sent = None
    BY DEF RequestInv, Answered
  <2> QED BY <1>2, <1>4, <1>5, <2>1 DEF Guarded, Behind
<1> QED BY <1>4, <1>6, <1>7, <1>8, <1>9 DEF RequestInv

(* The way out, level by level: the recoverer answers a panic, the logger   *)
(* writes its line, and past the outermost the server closes.               *)
LEMMA UnwindInv ==
    ASSUME NEW q, RequestInv(q), q.mode \in {"return", "panic"},
           NEW p, p = [Left(q) EXCEPT !.depth = @ - 1,
                                      !.mode = IF q.depth = 1 THEN "closed" ELSE @]
    PROVE  RequestInv(p)
<1>1. /\ q \in Request /\ q.shape \in Shapes /\ q.trace \in Traces /\ ~q.busy
      /\ q.depth \in 1 .. Length(q) /\ (q.mode = "panic" => q.depth >= 3)
      /\ Length(q) \in 4 .. 6
  <2>1. q \in Request /\ q.shape \in Shapes /\ q.trace \in Traces /\ ~q.busy
    BY DEF RequestInv, Placed, Holding, Querying
  <2>2. Length(q) \in 4 .. 6
    BY <2>1, AtLinks
  <2> QED BY <2>1, <2>2 DEF RequestInv, Placed
<1>2. (At(q) = "logger" <=> q.depth = 2) /\ (At(q) = "recoverer" <=> q.depth = 3)
  BY <1>1, AtLinks
<1> DEFINE w == Left(q)
           m == IF q.depth = 1 THEN "closed" ELSE w.mode
<1>3. ASSUME w \in Request, w.depth = q.depth, w.mode \in Modes
      PROVE  /\ p \in Request /\ p.shape = w.shape /\ p.depth = q.depth - 1 /\ p.trace = w.trace
             /\ p.mode = m /\ p.sent = w.sent /\ p.recorded = w.recorded /\ p.busy = w.busy
             /\ p.lines = w.lines /\ p.broken = w.broken /\ p.loaded = w.loaded
             /\ p.stage = w.stage /\ p.code = w.code /\ p.user = w.user
  <2>1. p = [w EXCEPT !.depth = q.depth - 1, !.mode = m]
    BY <1>3 DEF Request
  <2>2. m \in Modes /\ q.depth - 1 \in Nat
    BY <1>1, <1>3 DEF Modes
  <2> HIDE DEF m, w
  <2>3. p \in Request
    BY <1>3, <2>1, <2>2 DEF Request
  <2>4. /\ p.shape = w.shape /\ p.depth = q.depth - 1 /\ p.trace = w.trace
        /\ p.mode = m /\ p.sent = w.sent /\ p.recorded = w.recorded /\ p.busy = w.busy
        /\ p.lines = w.lines /\ p.broken = w.broken /\ p.loaded = w.loaded
        /\ p.stage = w.stage /\ p.code = w.code /\ p.user = w.user
    BY <1>3, <2>1 DEF Request
  <2> QED BY <2>3, <2>4
<1>4. CASE q.mode = "panic" /\ q.depth = 3
  <2> DEFINE a == [status |-> 500, body |-> q.trace]
  <2>1. a \in Responses /\ a # None /\ a.status = 500 /\ a.body = q.trace
    BY <1>1, ResponsesAssumption DEF Responses, Statuses
  <2>2. q.sent = None /\ q.lines = << >>
    BY <1>4 DEF RequestInv, Answered, Logged
  <2>3. w = WriteError(q, 500)
    BY <1>2, <1>4 DEF Left
  <2>4. w = [q EXCEPT !.recorded = 500, !.sent = a, !.mode = "return"]
    BY <1>1, <2>2, <2>3 DEF WriteError, Write, Request
  <2> HIDE DEF a, w
  <2>5. w \in Request
    <3>1. PICK code \in Statuses : code = 500
      BY DEF Statuses
    <3>2. w = [q EXCEPT !.recorded = code, !.sent = a, !.mode = "return"]
      BY <2>4, <3>1
    <3> QED BY <1>1, <2>1, <3>2, AnswerType
  <2>6. /\ w.shape = q.shape /\ w.depth = 3 /\ w.trace = q.trace
        /\ w.mode = "return" /\ w.sent = a /\ w.recorded = 500 /\ w.busy = q.busy
        /\ w.lines = q.lines /\ w.stage = q.stage /\ w.code = q.code
    BY <1>1, <1>4, <2>4 DEF Request
  <2>7. /\ p \in Request /\ p.shape = q.shape /\ p.depth = 2 /\ p.trace = q.trace
        /\ p.mode = "return" /\ p.sent = a /\ p.recorded = 500 /\ p.busy = q.busy
        /\ p.lines = q.lines /\ p.stage = q.stage /\ p.code = q.code
    BY <1>3, <1>4, <2>5, <2>6 DEF Modes
  <2>8. p.depth \in 1 .. Length(p) /\ p.shape \in Shapes /\ p.trace \in Traces /\ ~p.busy
    BY <1>1, <2>7 DEF Length
  <2>9. Placed(p) /\ Holding(p)
    BY <2>7, <2>8 DEF Placed, Holding
  <2>10. Answered(p)
    BY <2>1, <2>7 DEF Answered, Explained, RequestInv
  <2>11. Logged(p) /\ Guarded(p)
    BY <2>1, <2>2, <2>7 DEF Logged, Guarded
  <2> QED BY <2>7, <2>9, <2>10, <2>11 DEF RequestInv
<1>5. CASE q.mode = "return" /\ q.depth = 2
  <2> DEFINE l == <<[trace |-> q.trace, status |-> q.sent.status]>>
  <2>1. q.lines = << >> /\ q.sent # None /\ q.recorded = q.sent.status
    BY <1>5 DEF RequestInv, Answered, Logged
  <2>2. l \in Lines
    BY <1>1, <2>1 DEF Lines, Request, Responses
  <2>3. w = [q EXCEPT !.lines = Append(@, [trace |-> q.trace, status |-> q.recorded])]
    BY <1>2, <1>5 DEF Left
  <2>4. Append(q.lines, [trace |-> q.trace, status |-> q.recorded]) = l
    BY <2>1
  <2>5. w = [q EXCEPT !.lines = l]
    BY <1>1, <2>3, <2>4 DEF Request
  <2> HIDE DEF l, w
  <2>6. w \in Request
    BY <1>1, <2>2, <2>5 DEF Request
  <2>7. /\ w.shape = q.shape /\ w.depth = 2 /\ w.trace = q.trace /\ w.user = q.user
        /\ w.mode = "return" /\ w.sent = q.sent /\ w.recorded = q.recorded /\ w.busy = q.busy
        /\ w.lines = l /\ w.broken = q.broken /\ w.loaded = q.loaded
        /\ w.stage = q.stage /\ w.code = q.code
    BY <1>1, <1>5, <2>5 DEF Request
  <2>8. /\ p \in Request /\ p.shape = q.shape /\ p.depth = 1 /\ p.trace = q.trace
        /\ p.mode = "return" /\ p.sent = q.sent /\ p.recorded = q.recorded /\ p.busy = q.busy
        /\ p.lines = l /\ p.broken = q.broken /\ p.loaded = q.loaded /\ p.user = q.user
        /\ p.stage = q.stage /\ p.code = q.code
    BY <1>3, <1>5, <2>6, <2>7 DEF Modes
  <2>9. p.depth \in 1 .. Length(p) /\ p.shape \in Shapes /\ p.trace \in Traces /\ ~p.busy
    BY <1>1, <2>8 DEF Length
  <2>10. Placed(p) /\ Holding(p)
    BY <2>8, <2>9 DEF Placed, Holding
  <2>11. Answered(p)
    BY <2>1, <2>8 DEF Answered, Explained, RequestInv
  <2>12. Logged(p)
    BY <2>8 DEF Logged, l
  <2>13. Guarded(p)
    BY <1>5, <2>8 DEF Guarded, Whole, RequestInv
  <2> QED BY <2>8, <2>10, <2>11, <2>12, <2>13 DEF RequestInv
<1>6. CASE ~(q.mode = "panic" /\ q.depth = 3) /\ ~(q.mode = "return" /\ q.depth = 2)
  <2>1. w = q
    BY <1>2, <1>6 DEF Left
  <2> HIDE DEF w
  <2>2. /\ p \in Request /\ p.shape = q.shape /\ p.depth = q.depth - 1 /\ p.trace = q.trace
        /\ p.mode = m /\ p.sent = q.sent /\ p.recorded = q.recorded /\ p.busy = q.busy
        /\ p.lines = q.lines /\ p.broken = q.broken /\ p.loaded = q.loaded
        /\ p.stage = q.stage /\ p.code = q.code /\ p.user = q.user
    BY <1>1, <1>3, <2>1 DEF Modes
  <2>3. m = IF q.depth = 1 THEN "closed" ELSE q.mode
    BY <2>1
  <2> HIDE DEF m
  <2>4. q.depth = 1 => q.mode = "return"
    BY <1>1
  <2>5. /\ p.shape \in Shapes /\ p.trace \in Traces /\ ~p.busy
        /\ m = "return" => p.depth \in 1 .. Length(p)
        /\ m = "panic" => p.depth \in 3 .. Length(p)
    BY <1>1, <1>6, <2>2, <2>3 DEF Length
  <2>6. Placed(p) /\ Holding(p)
    BY <2>2, <2>3, <2>5 DEF Placed, Holding
  <2>7. Answered(p)
    BY <2>2, <2>3, <2>4 DEF Answered, Explained, RequestInv
  <2>8. Logged(p)
    BY <1>1, <1>6, <2>2, <2>3, <2>4 DEF Logged, RequestInv
  <2>9. Guarded(p)
    BY <2>2, <2>3 DEF Guarded, Whole, RequestInv
  <2> QED BY <2>2, <2>6, <2>7, <2>8, <2>9 DEF RequestInv
<1> QED BY <1>4, <1>5, <1>6

----------------------------------------------------------------------------
(* The pool.                                                                *)

Busy == {r \in Requests : req[r].busy}

Held(q) == IF q.busy THEN 1 ELSE 0

LEMMA PoolStep ==
    ASSUME req \in [Requests -> Request], free \in Nat, PoolConserved,
           NEW r \in Requests, NEW q \in Request, Update(r, q),
           NEW now, now = Held(q), NEW before, before = Held(req[r]),
           NEW left \in Nat, free' = left, left + now = free + before
    PROVE  PoolConserved'
<1>1. IsFiniteSet(Busy) /\ Cardinality(Busy) \in Nat /\ MaxConns \in Nat /\ free + Cardinality(Busy) = MaxConns
  <2>1. IsFiniteSet(Busy)
    BY PoolAssumption, FS_Subset DEF Busy
  <2> QED BY <2>1, PoolAssumption, FS_CardinalityType DEF PoolConserved, Busy
<1>2. req' = [req EXCEPT ![r] = q]
  BY DEF Update
<1>3. q.busy \in BOOLEAN /\ req[r].busy \in BOOLEAN
  BY DEF Request
<1>4. before = IF r \in Busy THEN 1 ELSE 0
  BY <1>3 DEF Held, Busy
<1> SUFFICES left + Cardinality(Busy') = MaxConns
  BY DEF PoolConserved, Busy
<1>5. CASE q.busy
  <2>1. Busy' = Busy \cup {r}
    BY <1>2, <1>5 DEF Busy
  <2>2. Cardinality(Busy') = IF r \in Busy THEN Cardinality(Busy) ELSE Cardinality(Busy) + 1
    BY <1>1, <2>1, FS_AddElement
  <2>3. now = 1
    BY <1>5 DEF Held
  <2>4. CASE r \in Busy
    BY <1>1, <1>4, <2>2, <2>3, <2>4
  <2>5. CASE r \notin Busy
    BY <1>1, <1>4, <2>2, <2>3, <2>5
  <2> QED BY <2>4, <2>5
<1>6. CASE ~q.busy
  <2>1. Busy' = Busy \ {r}
    BY <1>2, <1>6 DEF Busy
  <2>2. Cardinality(Busy') = IF r \in Busy THEN Cardinality(Busy) - 1 ELSE Cardinality(Busy)
    BY <1>1, <2>1, FS_RemoveElement
  <2>3. now = 0
    BY <1>6 DEF Held
  <2>4. CASE r \in Busy
    BY <1>1, <1>4, <2>2, <2>3, <2>4
  <2>5. CASE r \notin Busy
    BY <1>1, <1>4, <2>2, <2>3, <2>5
  <2> QED BY <2>4, <2>5
<1> QED BY <1>5, <1>6

(* A step of one request that keeps its invariant and accounts for its      *)
(* connection keeps the invariant of the process.                           *)
LEMMA StepInv ==
    ASSUME Inv, NEW r \in Requests, NEW q, RequestInv(q), Update(r, q), UNCHANGED db,
           NEW left \in Nat, free' = left, left + Held(q) = free + Held(req[r])
    PROVE  Inv'
<1>1. q \in Request
  BY DEF RequestInv
<1>2. PoolConserved'
  BY <1>1, PoolStep DEF Inv
<1>3. req' = [req EXCEPT ![r] = q] /\ req' \in [Requests -> Request]
  BY <1>1 DEF Update, Inv
<1>4. ASSUME NEW x \in Requests PROVE RequestInv(req'[x])
  <2>1. req'[x] = IF x = r THEN q ELSE req[x]
    BY <1>3 DEF Inv
  <2> QED BY <2>1 DEF Inv
<1>5. (\A x \in Requests : RequestInv(req[x]))'
  BY <1>4 DEF RequestInv, Placed, Holding, Answered, Logged, Guarded
<1> QED BY <1>2, <1>3, <1>5 DEF Inv

LEMMA StepQuiet ==
    ASSUME Inv, NEW r \in Requests, NEW q, RequestInv(q), Update(r, q), UNCHANGED <<free, db>>,
           q.busy = req[r].busy
    PROVE  Inv'
<1>1. Held(q) = Held(req[r]) /\ free \in Nat
  BY DEF Held, Inv
<1> QED BY <1>1, StepInv

LEMMA StepReleases ==
    ASSUME Inv, NEW r \in Requests, NEW q, RequestInv(q), Update(r, q), UNCHANGED db,
           Release(req[r]), q.busy = FALSE
    PROVE  Inv'
<1> DEFINE left == free + Held(req[r])
<1>1. Held(q) = 0 /\ free \in Nat /\ Held(req[r]) \in {0, 1}
  BY DEF Held, Inv
<1>2. free' = left /\ left \in Nat /\ left + Held(q) = free + Held(req[r])
  <2>1. free' = left
    BY <1>1 DEF Release, Held
  <2> QED BY <1>1, <2>1
<1> HIDE DEF left
<1> QED BY <1>2, StepInv

----------------------------------------------------------------------------
(* The operations.                                                          *)

(* A refusal or an answer by code that holds no connection.                 *)
LEMMA WriteQuiet ==
    ASSUME Inv, NEW r \in Requests, req[r].mode = "call", req[r].busy = FALSE,
           NEW code \in Statuses, NEW body \in Bodies, MayAnswer(req[r], code, body),
           Update(r, Write(req[r], code, body)), UNCHANGED <<free, db>>
    PROVE  Inv'
<1> DEFINE q == req[r]
           p == [q EXCEPT !.recorded = code, !.sent = [status |-> code, body |-> body],
                          !.mode = "return", !.busy = FALSE]
<1>1. RequestInv(q) /\ q \in Request /\ q.sent = None
  BY DEF Inv, RequestInv, Answered
<1>2. Write(q, code, body) = p
  BY <1>1 DEF Write, Request
<1>3. p.busy = q.busy
  BY <1>1 DEF Request
<1>4. RequestInv(p)
  BY <1>1, AnswerInv
<1> HIDE DEF q, p
<1> QED BY <1>2, <1>3, <1>4, StepQuiet DEF q

(* An answer that gives the connection back.                                *)
LEMMA WriteReleases ==
    ASSUME Inv, NEW r \in Requests, req[r].mode = "call",
           NEW code \in Statuses, NEW body \in Bodies, MayAnswer(req[r], code, body),
           Update(r, [Write(req[r], code, body) EXCEPT !.busy = FALSE]), Release(req[r]),
           UNCHANGED db
    PROVE  Inv'
<1> DEFINE q == req[r]
           p == [q EXCEPT !.recorded = code, !.sent = [status |-> code, body |-> body],
                          !.mode = "return", !.busy = FALSE]
<1>1. RequestInv(q) /\ q \in Request /\ q.sent = None
  BY DEF Inv, RequestInv, Answered
<1>2. [Write(q, code, body) EXCEPT !.busy = FALSE] = p
  BY <1>1 DEF Write, Request
<1>3. p.busy = FALSE
  BY <1>1 DEF Request
<1>4. RequestInv(p)
  BY <1>1, AnswerInv
<1> HIDE DEF q, p
<1> QED BY <1>2, <1>3, <1>4, StepReleases DEF q

(* What is known of a request in the middle of a call.                      *)
LEMMA CallFacts ==
    ASSUME Inv, NEW r \in Requests, req[r].mode = "call"
    PROVE  /\ RequestInv(req[r]) /\ req[r] \in Request
           /\ req[r].shape \in Shapes /\ req[r].shape.route \in Routes /\ req[r].trace \in Traces
           /\ req[r].depth \in 1 .. Length(req[r])
           /\ req[r].stage \in HandlerStages[req[r].shape.route]
           /\ req[r].busy = FALSE \/ Querying(req[r])
<1>1. RequestInv(req[r]) /\ req[r] \in Request
  BY DEF Inv, RequestInv
<1>2. /\ req[r].shape \in Shapes /\ req[r].trace \in Traces
      /\ req[r].depth \in 4 .. Length(req[r])
      /\ req[r].stage \in HandlerStages[req[r].shape.route]
  BY <1>1 DEF RequestInv, Placed
<1>3. req[r].shape.route \in Routes /\ Length(req[r]) \in 4 .. 6
  BY <1>2, AtLinks
<1>4. req[r].busy = FALSE \/ Querying(req[r])
  BY <1>1 DEF RequestInv, Holding, Request
<1>5. req[r].depth \in 1 .. Length(req[r])
  BY <1>2, <1>3
<1> QED BY <1>1, <1>2, <1>3, <1>4, <1>5

(* Errors, which carry the trace id.                                        *)
LEMMA ErrorQuiet ==
    ASSUME Inv, NEW r \in Requests, req[r].mode = "call", req[r].busy = FALSE,
           NEW code \in Statuses, code # 200, Update(r, WriteError(req[r], code)),
           UNCHANGED <<free, db>>
    PROVE  Inv'
<1> DEFINE body == req[r].trace
<1>1. body \in Bodies /\ MayAnswer(req[r], code, body)
  BY CallFacts DEF Bodies, MayAnswer
<1>2. Update(r, Write(req[r], code, body))
  BY DEF WriteError
<1> HIDE DEF body
<1> QED BY <1>1, <1>2, WriteQuiet

LEMMA ErrorReleases ==
    ASSUME Inv, NEW r \in Requests, req[r].mode = "call",
           NEW code \in Statuses, code # 200,
           Update(r, [WriteError(req[r], code) EXCEPT !.busy = FALSE]), Release(req[r]),
           UNCHANGED db
    PROVE  Inv'
<1> DEFINE body == req[r].trace
<1>1. body \in Bodies /\ MayAnswer(req[r], code, body)
  BY CallFacts DEF Bodies, MayAnswer
<1>2. Update(r, [Write(req[r], code, body) EXCEPT !.busy = FALSE])
  BY DEF WriteError
<1> HIDE DEF body
<1> QED BY <1>1, <1>2, WriteReleases

(* Only one route has a handler with a given stage.                         *)
LEMMA StageRoutes ==
    ASSUME NEW route \in Routes, NEW stage \in HandlerStages[route]
    PROVE  /\ stage \in {"ping", "lag"} => route = "health"
           /\ stage = "page" => route = "page"
           /\ stage = "trade" => route = "trades"
           /\ stage \in {"parse", "reply"} \cup AllParts => route = "metrics"
BY DEF Routes, HandlerStages, AllParts

LEMMA ArriveStep == ASSUME Inv, NEW r \in Requests, NEW s \in Shapes, Arrive(r, s) PROVE Inv'
<1> DEFINE q == req[r]
           p == [q EXCEPT !.mode = "call", !.shape = s, !.stage = Entry[s.route],
                          !.trace = IF s.trace = None THEN r ELSE s.trace,
                          !.depth = Len(Outer) + 1]
<1>1. RequestInv(q) /\ q \in Request /\ q.mode = "idle"
  BY DEF Inv, RequestInv, Arrive
<1>2. RequestInv(p)
  BY <1>1, ArriveInv
<1>3. p.busy = q.busy
  BY <1>1 DEF Request
<1>4. Update(r, p) /\ UNCHANGED <<free, db>>
  BY DEF Arrive
<1> HIDE DEF p
<1> QED BY <1>2, <1>3, <1>4, StepQuiet

LEMMA AuthenticateStep == ASSUME Inv, NEW r \in Requests, Authenticate(r) PROVE Inv'
<1> DEFINE q == req[r]
           user == IF q.shape.token = None THEN None ELSE Parse(q.shape.token)
           p == [q EXCEPT !.user = user, !.depth = @ + 1]
<1>1. q.mode = "call" /\ At(q) = "auth" /\ UNCHANGED <<free, db>>
  BY DEF Authenticate
<1>2. RequestInv(q) /\ q \in Request /\ q.shape \in Shapes /\ q.trace \in Traces
  BY <1>1, CallFacts
<1>3. q.busy = FALSE
  BY <1>1, CallFacts DEF Querying
<1>4. CASE user = None
  <2>1. PICK code \in Statuses : code # 200 /\ Update(r, WriteError(q, code))
    BY <1>4 DEF Authenticate, Statuses
  <2> HIDE DEF user, p
  <2> QED BY <1>1, <1>3, <2>1, ErrorQuiet
<1>5. CASE user # None
  <2>1. user \in Users \cup {None}
    BY <1>2, ShapesAssumption DEF Parse
  <2>2. Update(r, p)
    BY <1>5 DEF Authenticate
  <2> HIDE DEF user
  <2>3. RequestInv(p)
    BY <1>1, <1>2, <2>1, DescendInv
  <2>4. p.busy = q.busy
    BY <1>2 DEF Request
  <2> HIDE DEF p
  <2> QED BY <1>1, <2>2, <2>3, <2>4, StepQuiet
<1> QED BY <1>4, <1>5

LEMMA MatchStep == ASSUME Inv, NEW r \in Requests, RequireUserMatch(r) PROVE Inv'
<1> DEFINE q == req[r]
           p == [q EXCEPT !.depth = @ + 1]
<1>1. q.mode = "call" /\ At(q) = "match" /\ UNCHANGED <<free, db>>
  BY DEF RequireUserMatch
<1>2. RequestInv(q) /\ q \in Request /\ q.shape \in Shapes /\ q.trace \in Traces
  BY <1>1, CallFacts
<1>3. q.busy = FALSE
  BY <1>1, CallFacts DEF Querying
<1>4. CASE q.user = None \/ q.shape.path = None \/ q.shape.path # q.user
  <2>1. PICK code \in Statuses : code # 200 /\ Update(r, WriteError(q, code))
    BY <1>4 DEF RequireUserMatch, Statuses
  <2> QED BY <1>1, <1>3, <2>1, ErrorQuiet
<1>5. CASE ~(q.user = None \/ q.shape.path = None \/ q.shape.path # q.user)
  <2>1. Update(r, p) /\ q.user = q.shape.path
    BY <1>5 DEF RequireUserMatch
  <2>2. p = [q EXCEPT !.user = q.user, !.depth = @ + 1] /\ q.user \in Users \cup {None}
    BY <1>2 DEF Request
  <2>3. RequestInv(p)
    BY <1>1, <1>2, <2>1, <2>2, DescendInv
  <2>4. p.busy = q.busy
    BY <1>2 DEF Request
  <2> HIDE DEF p
  <2> QED BY <1>1, <2>1, <2>3, <2>4, StepQuiet
<1> QED BY <1>4, <1>5

LEMMA ParseStep == ASSUME Inv, NEW r \in Requests, ParseQuery(r) PROVE Inv'
<1> DEFINE q == req[r]
           p == [q EXCEPT !.stage = "user_metrics"]
<1>1. q.mode = "call" /\ At(q) = "handler" /\ q.stage = "parse" /\ UNCHANGED <<free, db>>
  BY DEF ParseQuery, Handling
<1>2. /\ RequestInv(q) /\ q \in Request /\ q.shape \in Shapes
      /\ q.shape.route = "metrics"
  BY <1>1, CallFacts, StageRoutes
<1>3. q.busy = FALSE
  BY <1>1, CallFacts, PartsValue DEF Querying, AllParts
<1>4. CASE ValidQuery(q.shape.query)
  <2>1. Update(r, p)
    BY <1>4, PartsValue DEF ParseQuery
  <2>2. p \in Request
    BY <1>2 DEF Request, Stages, AllParts
  <2>3. /\ p.shape = q.shape /\ p.depth = q.depth /\ p.trace = q.trace
        /\ p.mode = "call" /\ p.sent = q.sent /\ p.recorded = q.recorded /\ p.busy = q.busy
        /\ p.lines = q.lines /\ p.user = q.user /\ p.stage = "user_metrics"
    BY <1>1, <1>2 DEF Request
  <2>4. p.stage \in HandlerStages[q.shape.route] /\ Behind[p.stage] = {}
    BY <1>2, <2>3 DEF HandlerStages, Behind, AllParts
  <2> HIDE DEF p
  <2>5. RequestInv(p)
    BY <1>1, <1>2, <1>3, <2>2, <2>3, <2>4, StageInv
  <2> QED BY <1>1, <2>1, <2>3, <2>5, StepQuiet
<1>5. CASE ~ValidQuery(q.shape.query)
  <2>1. PICK code \in Statuses : code # 200 /\ Update(r, WriteError(q, code))
    BY <1>5 DEF ParseQuery, Statuses
  <2> QED BY <1>1, <1>3, <2>1, ErrorQuiet
<1> QED BY <1>4, <1>5

LEMMA AcquireStep == ASSUME Inv, NEW r \in Requests, Acquire(r) PROVE Inv'
<1> DEFINE q == req[r]
           p == [q EXCEPT !.busy = TRUE]
<1>1. /\ q.mode = "call" /\ At(q) = "handler" /\ UNCHANGED db /\ Update(r, p)
      /\ q.stage \in {"ping", "trade"} \cup AllParts /\ ~q.busy /\ free' = free - 1 /\ free > 0
  BY PartsValue DEF Acquire, Querying
<1>2. /\ RequestInv(q) /\ q \in Request /\ q.stage \in HandlerStages[q.shape.route]
      /\ free \in Nat
  BY <1>1, CallFacts DEF Inv
<1>3. p \in Request
  BY <1>2 DEF Request
<1>4. /\ p.shape = q.shape /\ p.depth = q.depth /\ p.trace = q.trace
      /\ p.mode = "call" /\ p.sent = q.sent /\ p.recorded = q.recorded /\ p.busy = TRUE
      /\ p.lines = q.lines /\ p.user = q.user /\ p.stage = q.stage /\ p.broken = q.broken
      /\ p.loaded = q.loaded
  BY <1>1, <1>2 DEF Request
<1>5. /\ q.stage # "lag"
      /\ q.shape.route = "metrics" => q.broken \/ Behind[q.stage] \subseteq q.loaded
  BY <1>1, <1>2, CallFacts DEF AllParts, RequestInv, Guarded
<1> HIDE DEF p
<1>6. RequestInv(p)
  BY <1>1, <1>2, <1>3, <1>4, <1>5, StageInv
<1> DEFINE left == free - 1
<1>7. Held(p) = 1 /\ Held(q) = 0
  BY <1>1, <1>4 DEF Held
<1>8. left \in Nat /\ free' = left /\ left + Held(p) = free + Held(q)
  BY <1>1, <1>2, <1>7
<1> HIDE DEF left
<1> QED BY <1>1, <1>6, <1>8, StepInv

(* One of the reads has come to an end: its connection goes back, and its   *)
(* part is loaded or the result set broken.                                 *)
LEMMA AdvanceStep ==
    ASSUME Inv, NEW r \in Requests, NEW n \in 1 .. 4, Handling(req[r], Parts[n]),
           NEW p, \/ p = [Advance(req[r], n) EXCEPT !.loaded = @ \cup {Parts[n]}]
                  \/ p = [Advance(req[r], n) EXCEPT !.broken = TRUE],
           Update(r, p), Release(req[r]), UNCHANGED db
    PROVE  Inv'
<1> DEFINE q == req[r]
           to == IF n < 4 THEN Parts[n + 1] ELSE "reply"
<1>1. q.mode = "call" /\ At(q) = "handler" /\ q.stage = Parts[n]
  BY DEF Handling
<1>2. Parts[n] \in AllParts /\ to \in {"emotions", "tilt", "buckets", "reply"}
      /\ Behind[to] = Behind[Parts[n]] \cup {Parts[n]}
  BY PartsValue DEF AllParts, Behind
<1>3. /\ RequestInv(q) /\ q \in Request /\ q.shape \in Shapes /\ q.shape.route = "metrics"
      /\ q.broken \/ Behind[Parts[n]] \subseteq q.loaded
  <2>1. RequestInv(q) /\ q \in Request /\ q.shape \in Shapes /\ q.shape.route = "metrics"
    BY <1>1, <1>2, CallFacts, StageRoutes
  <2> QED BY <1>1, <2>1 DEF RequestInv, Guarded
<1>4. Advance(q, n) = [q EXCEPT !.busy = FALSE, !.stage = to]
  BY PartsValue DEF Advance
<1>5. to \in Stages /\ to \in HandlerStages[q.shape.route]
  BY <1>2, <1>3 DEF Stages, HandlerStages, AllParts
<1> HIDE DEF to
<1>6. /\ p \in Request /\ p.shape = q.shape /\ p.depth = q.depth /\ p.trace = q.trace
      /\ p.mode = "call" /\ p.sent = q.sent /\ p.recorded = q.recorded /\ p.busy = FALSE
      /\ p.lines = q.lines /\ p.user = q.user /\ p.stage = to
      /\ p.broken \/ Behind[to] \subseteq p.loaded
  <2>1. CASE p = [Advance(req[r], n) EXCEPT !.loaded = @ \cup {Parts[n]}]
    <3>1. p = [q EXCEPT !.busy = FALSE, !.stage = to, !.loaded = q.loaded \cup {Parts[n]}]
      BY <1>3, <1>4, <2>1 DEF Request
    <3>2. q.loaded \cup {Parts[n]} \in SUBSET AllParts
      BY <1>2, <1>3 DEF Request
    <3>3. p \in Request
      BY <1>3, <1>5, <3>1, <3>2 DEF Request
    <3>4. /\ p.shape = q.shape /\ p.depth = q.depth /\ p.trace = q.trace
          /\ p.mode = "call" /\ p.sent = q.sent /\ p.recorded = q.recorded /\ p.busy = FALSE
          /\ p.lines = q.lines /\ p.user = q.user /\ p.stage = to /\ p.broken = q.broken
          /\ p.loaded = q.loaded \cup {Parts[n]}
      BY <1>1, <1>3, <3>1 DEF Request
    <3> QED BY <1>2, <1>3, <3>3, <3>4
  <2>2. CASE p = [Advance(req[r], n) EXCEPT !.broken = TRUE]
    <3>1. p = [q EXCEPT !.busy = FALSE, !.stage = to, !.broken = TRUE]
      BY <1>3, <1>4, <2>2 DEF Request
    <3>2. p \in Request
      BY <1>3, <1>5, <3>1 DEF Request
    <3>3. /\ p.shape = q.shape /\ p.depth = q.depth /\ p.trace = q.trace
          /\ p.mode = "call" /\ p.sent = q.sent /\ p.recorded = q.recorded /\ p.busy = FALSE
          /\ p.lines = q.lines /\ p.user = q.user /\ p.stage = to /\ p.broken = TRUE
      BY <1>1, <1>3, <3>1 DEF Request
    <3> QED BY <3>2, <3>3
  <2> QED BY <2>1, <2>2
<1>7. RequestInv(p)
  BY <1>1, <1>2, <1>3, <1>5, <1>6, StageInv
<1> QED BY <1>6, <1>7, StepReleases

LEMMA LoadFailedStep ==
    ASSUME Inv, NEW r \in Requests, NEW n \in 1 .. 4, LoadFailed(r, n) PROVE Inv'
<1>1. req[r].mode = "call" /\ Release(req[r]) /\ UNCHANGED db
  BY DEF LoadFailed, Handling
<1>2. PICK code \in Statuses :
         code # 200 /\ Update(r, [WriteError(req[r], code) EXCEPT !.busy = FALSE])
  BY DEF LoadFailed, Statuses
<1> QED BY <1>1, <1>2, ErrorReleases

LEMMA ReplyStep == ASSUME Inv, NEW r \in Requests, Reply(r) PROVE Inv'
<1> DEFINE q == req[r]
<1>1. q.mode = "call" /\ At(q) = "handler" /\ q.stage = "reply" /\ UNCHANGED <<free, db>>
  BY DEF Reply, Handling
<1>2. /\ RequestInv(q) /\ q \in Request /\ q.shape \in Shapes
      /\ q.shape.route = "metrics"
  BY <1>1, CallFacts, StageRoutes
<1>3. q.busy = FALSE
  BY <1>1, CallFacts, PartsValue DEF Querying, AllParts
<1>4. q.user = q.shape.path /\ Whole(q)
  <2>1. Behind["reply"] = AllParts
    BY DEF Behind
  <2>2. q.user = q.shape.path /\ (q.broken \/ AllParts \subseteq q.loaded)
    BY <1>1, <1>2, <2>1 DEF RequestInv, Guarded
  <2>3. q.loaded \subseteq AllParts
    BY <1>2 DEF Request
  <2> QED BY <2>2, <2>3 DEF Whole
<1>5. PICK code \in Statuses, body \in Bodies : /\ MayAnswer(q, code, body)
                                              /\ Update(r, Write(q, code, body))
  <2>1. 200 \in Statuses /\ "json" \in Bodies /\ MayAnswer(q, 200, "json")
    BY <1>4 DEF Statuses, Bodies, MayAnswer
  <2> QED BY <2>1 DEF Reply, WriteJSON
<1> QED BY <1>1, <1>3, <1>5, WriteQuiet

(* The ping has ended one way or the other.                                 *)
LEMMA PingStep ==
    ASSUME Inv, NEW r \in Requests, Handling(req[r], "ping"),
           NEW code \in HealthCodes,
           NEW p, p = [req[r] EXCEPT !.busy = FALSE, !.stage = "lag", !.code = code],
           Update(r, p), Release(req[r]), UNCHANGED db
    PROVE  Inv'
<1> DEFINE q == req[r]
<1>1. q.mode = "call" /\ At(q) = "handler" /\ q.stage = "ping"
  BY DEF Handling
<1>2. /\ RequestInv(q) /\ q \in Request /\ q.shape \in Shapes
      /\ q.shape.route = "health"
  <2>1. /\ RequestInv(q) /\ q \in Request /\ q.shape \in Shapes /\ q.shape.route \in Routes
        /\ q.stage \in HandlerStages[q.shape.route]
    BY <1>1, CallFacts, Zenon
  <2> QED BY <1>1, <2>1, StageRoutes
<1>3. code \in Statuses
  BY DEF HealthCodes, Statuses
<1>4. p \in Request
  BY <1>2, <1>3, PingType
<1>5. /\ p.shape = q.shape /\ p.depth = q.depth /\ p.trace = q.trace
      /\ p.mode = "call" /\ p.sent = q.sent /\ p.recorded = q.recorded /\ p.busy = FALSE
      /\ p.lines = q.lines /\ p.user = q.user /\ p.stage = "lag" /\ p.code = code
  BY <1>1, <1>2 DEF Request
<1>6. p.stage \in HandlerStages[q.shape.route]
  BY <1>2, <1>5 DEF HandlerStages
<1>7. p.stage = "lag" => p.code \in {200, 503}
  BY <1>5 DEF HealthCodes
<1>8. RequestInv(p)
  BY <1>1, <1>2, <1>4, <1>5, <1>6, <1>7, StageInv
<1> QED BY <1>5, <1>8, StepReleases

LEMMA QueueLagStep == ASSUME Inv, NEW r \in Requests, QueueLag(r) PROVE Inv'
<1> DEFINE q == req[r]
           code == q.code
<1>1. q.mode = "call" /\ At(q) = "handler" /\ q.stage = "lag" /\ UNCHANGED <<free, db>>
  BY DEF QueueLag, Handling
<1>2. /\ RequestInv(q) /\ q \in Request /\ q.shape.route = "health"
  BY <1>1, CallFacts, StageRoutes
<1>3. q.busy = FALSE
  BY <1>1, CallFacts, PartsValue DEF Querying, AllParts
<1>4. code \in Statuses /\ code \in {200, 503}
  BY <1>1, <1>2 DEF RequestInv, Answered, Statuses
<1>5. PICK body \in Bodies : MayAnswer(q, code, body) /\ Update(r, Write(q, code, body))
  <2>1. "json" \in Bodies /\ MayAnswer(q, code, "json")
    BY <1>2, <1>4 DEF Bodies, MayAnswer
  <2> QED BY <2>1 DEF QueueLag, WriteJSON
<1> HIDE DEF code
<1> QED BY <1>1, <1>3, <1>4, <1>5, WriteQuiet

LEMMA PageStep == ASSUME Inv, NEW r \in Requests, Page(r) PROVE Inv'
<1> DEFINE q == req[r]
<1>1. q.mode = "call" /\ At(q) = "handler" /\ q.stage = "page" /\ UNCHANGED <<free, db>>
  BY DEF Page, Handling
<1>2. q.shape.route = "page"
  BY <1>1, CallFacts, StageRoutes
<1>3. q.busy = FALSE
  BY <1>1, CallFacts, PartsValue DEF Querying, AllParts
<1>4. PICK code \in Statuses : code \in {200, 404} /\ Update(r, Write(q, code, "text"))
  BY DEF Page, ServeStatic, Statuses
<1>5. PICK body \in Bodies : MayAnswer(q, code, body) /\ Update(r, Write(q, code, body))
  <2>1. "text" \in Bodies /\ MayAnswer(q, code, "text")
    BY <1>2, <1>4 DEF Bodies, MayAnswer
  <2> QED BY <1>4, <2>1
<1> QED BY <1>1, <1>3, <1>5, WriteQuiet

LEMMA TradeStep == ASSUME Inv, NEW r \in Requests, Trade(r) PROVE Inv'
<1> DEFINE q == req[r]
<1>1. q.mode = "call" /\ q.stage = "trade" /\ Release(q) /\ UNCHANGED db
  BY DEF Trade, Handling
<1>2. q.shape.route = "trades"
  BY <1>1, CallFacts, StageRoutes
<1>3. CASE \E code \in {400, 403, 404} :
              Update(r, [WriteError(q, code) EXCEPT !.busy = FALSE])
  <2>1. PICK code \in {400, 403, 404} : Update(r, [WriteError(q, code) EXCEPT !.busy = FALSE])
    BY <1>3
  <2>2. code \in Statuses /\ code # 200
    BY DEF Statuses
  <2> QED BY <1>1, <2>1, <2>2, ErrorReleases
<1>4. CASE Update(r, [WriteJSON(q, 200) EXCEPT !.busy = FALSE])
  <2>1. PICK code \in Statuses, body \in Bodies :
           /\ MayAnswer(q, code, body)
           /\ Update(r, [Write(q, code, body) EXCEPT !.busy = FALSE])
    <3>1. 200 \in Statuses /\ "json" \in Bodies /\ MayAnswer(q, 200, "json")
      BY <1>2 DEF Statuses, Bodies, MayAnswer
    <3> QED BY <1>4, <3>1 DEF WriteJSON
  <2> QED BY <1>1, <2>1, WriteReleases
<1> QED BY <1>3, <1>4 DEF Trade

LEMMA TradeFailedStep == ASSUME Inv, NEW r \in Requests, TradeFailed(r) PROVE Inv'
<1>1. req[r].mode = "call" /\ Release(req[r]) /\ UNCHANGED db
  BY DEF TradeFailed, Handling
<1>2. PICK code \in Statuses :
         code # 200 /\ Update(r, [WriteError(req[r], code) EXCEPT !.busy = FALSE])
  BY DEF TradeFailed, Statuses
<1> QED BY <1>1, <1>2, ErrorReleases

LEMMA PanicStep == ASSUME Inv, NEW r \in Requests, Panic(r) PROVE Inv'
<1> DEFINE p == [req[r] EXCEPT !.mode = "panic", !.busy = FALSE]
<1>1. RequestInv(req[r]) /\ req[r] \in Request /\ req[r].mode = "call"
  BY DEF Inv, RequestInv, Panic
<1>2. RequestInv(p)
  BY <1>1, PanicInv
<1>3. p.busy = FALSE
  BY <1>1 DEF Request
<1>4. Update(r, p) /\ Release(req[r]) /\ UNCHANGED db
  BY DEF Panic
<1> HIDE DEF p
<1> QED BY <1>2, <1>3, <1>4, StepReleases

LEMMA UnwindStep == ASSUME Inv, NEW r \in Requests, Unwind(r) PROVE Inv'
<1> DEFINE q == req[r]
           p == [Left(q) EXCEPT !.depth = @ - 1, !.mode = IF q.depth = 1 THEN "closed" ELSE @]
<1>1. RequestInv(q) /\ q \in Request /\ q.mode \in {"return", "panic"}
  BY DEF Inv, RequestInv, Unwind
<1>2. Update(r, p) /\ UNCHANGED <<free, db>>
  BY DEF Unwind
<1>3. RequestInv(p)
  BY <1>1, UnwindInv
<1> HIDE DEF p
<1>4. p.busy = FALSE /\ q.busy = FALSE
  <2>1. q.busy = FALSE
    BY <1>1 DEF RequestInv, Holding, Querying, Request
  <2>2. p.busy = FALSE
    <3>1. p.mode # "call"
      BY <1>1 DEF p, Left, WriteError, Write, Request
    <3> QED BY <1>3, <3>1 DEF RequestInv, Holding, Querying, Request
  <2> QED BY <2>1, <2>2
<1> QED BY <1>2, <1>3, <1>4, StepQuiet

----------------------------------------------------------------------------

LEMMA InitInv == Init => Inv
<1> SUFFICES ASSUME Init PROVE Inv
  OBVIOUS
<1> DEFINE q == [mode |-> "idle", shape |-> None, depth |-> 0, stage |-> None, trace |-> None,
                 user |-> None, busy |-> FALSE, code |-> 0, recorded |-> 0, sent |-> None,
                 lines |-> <<>>, loaded |-> {}, broken |-> FALSE]
<1>1. req = [r \in Requests |-> q] /\ free = MaxConns /\ db = "up"
  BY DEF Init
<1>2. q \in Request
  BY DEF Request, Modes, Lines
<1>3. /\ q.mode = "idle" /\ q.sent = None /\ q.busy = FALSE /\ q.stage = None /\ q.lines = << >>
      /\ q.shape = None /\ q.code = 0
  OBVIOUS
<1> HIDE DEF q
<1>4. Placed(q) /\ Holding(q) /\ Logged(q)
  BY <1>3 DEF Placed, Holding, Logged
<1>6. Answered(q)
  BY <1>3 DEF Answered
<1>7. Guarded(q)
  BY <1>3 DEF Guarded
<1>8. RequestInv(q)
  BY <1>2, <1>4, <1>6, <1>7 DEF RequestInv
<1>9. {r \in Requests : req[r].busy} = {}
  BY <1>1, <1>3
<1>10. free \in Nat /\ PoolConserved
  <2>1. Cardinality({r \in Requests : req[r].busy}) = 0
    BY <1>9, FS_EmptySet
  <2> QED BY <1>1, <2>1, PoolAssumption DEF PoolConserved
<1> QED BY <1>1, <1>2, <1>8, <1>10 DEF Inv

LEMMA NextInv == Inv /\ [Next]_vars => Inv'
<1> SUFFICES ASSUME Inv, [Next]_vars PROVE Inv'
  OBVIOUS
<1>1. CASE UNCHANGED <<req, free>> /\ db' \in {"up", "hung"}
  BY <1>1 DEF Inv, PoolConserved, RequestInv, Placed, Holding, Querying, Answered, Explained,
              Logged, Guarded, Whole, Length, At
<1>2. ASSUME NEW r \in Requests, NEW s \in Shapes, Arrive(r, s) PROVE Inv'
  BY <1>2, ArriveStep
<1>3. ASSUME NEW r \in Requests, NEW n \in DOMAIN Parts, Load(r, n) \/ LoadBroken(r, n)
      PROVE  Inv'
  <2>1. n \in 1 .. 4
    BY PartsValue
  <2>2. Handling(req[r], Parts[n]) /\ Release(req[r]) /\ UNCHANGED db
    BY <1>3 DEF Load, LoadBroken
  <2>3. PICK p : /\ \/ p = [Advance(req[r], n) EXCEPT !.loaded = @ \cup {Parts[n]}]
                    \/ p = [Advance(req[r], n) EXCEPT !.broken = TRUE]
                 /\ Update(r, p)
    BY <1>3, Zenon DEF Load, LoadBroken
  <2> QED BY <2>1, <2>2, <2>3, AdvanceStep
<1>4. ASSUME NEW r \in Requests, NEW n \in DOMAIN Parts, LoadFailed(r, n) PROVE Inv'
  <2>1. n \in 1 .. 4
    BY PartsValue
  <2> QED BY <1>4, <2>1, LoadFailedStep
<1>5. ASSUME NEW r \in Requests, Ping(r) \/ PingTimeout(r) PROVE Inv'
  <2>1. PICK code \in HealthCodes :
          Update(r, [req[r] EXCEPT !.busy = FALSE, !.stage = "lag", !.code = code])
    BY <1>5 DEF Ping, PingTimeout, HealthCodes
  <2>2. PICK p : /\ p = [req[r] EXCEPT !.busy = FALSE, !.stage = "lag", !.code = code]
                 /\ Update(r, p)
    BY <2>1, Zenon
  <2>3. Handling(req[r], "ping") /\ Release(req[r]) /\ UNCHANGED db
    BY <1>5 DEF Ping, PingTimeout
  <2> QED BY <2>2, <2>3, PingStep
<1>6. ASSUME NEW r \in Requests, Serve(r) PROVE Inv'
  BY <1>3, <1>5, <1>6, AuthenticateStep, MatchStep, ParseStep, AcquireStep, ReplyStep,
     QueueLagStep, PageStep, TradeStep, UnwindStep DEF Serve
<1>7. ASSUME NEW r \in Requests, Mishap(r) PROVE Inv'
  BY <1>3, <1>4, <1>7, TradeFailedStep, PanicStep DEF Mishap
<1>8. CASE Toggle
  BY <1>1, <1>8 DEF Toggle
<1>9. CASE UNCHANGED vars
  BY <1>1, <1>9 DEF vars, Inv
<1> QED BY <1>2, <1>6, <1>7, <1>8, <1>9 DEF Next

(* Every request, whatever the others do, is where the chain of handlers    *)
(* can have brought it, holds a connection only inside a query, and has     *)
(* been answered, logged and guarded accordingly.                           *)
THEOREM RequestCorrect == Spec => []Inv
BY InitInv, NextInv, PTL DEF Spec

LEMMA InvType == Inv => TypeOK
<1> SUFFICES ASSUME Inv PROVE TypeOK
  OBVIOUS
<1>1. ASSUME NEW r \in Requests
      PROVE  LET q == req[r]
             IN /\ q.mode \in {"idle", "call", "return", "panic", "closed"}
                /\ q.shape \in Shapes \cup {None}
                /\ q.mode \in {"call", "return", "panic"} => q.depth \in DOMAIN Chain(q.shape.route)
                /\ q.user \in Users \cup {None}
                /\ q.busy \in BOOLEAN
                /\ q.recorded \in Statuses \cup {0}
                /\ q.sent \in Responses \cup {None}
  <2> DEFINE q == req[r]
  <2>1. RequestInv(q) /\ q \in Request
    BY DEF Inv, RequestInv
  <2>2. ASSUME q.mode \in {"call", "return", "panic"}
        PROVE  q.depth \in DOMAIN Chain(q.shape.route)
    <3>1. q.shape \in Shapes /\ q.depth \in 1 .. Length(q)
      <4>1. q.shape \in Shapes
        BY <2>1, <2>2 DEF RequestInv, Placed
      <4>2. Length(q) \in 4 .. 6
        BY <4>1, AtLinks
      <4> QED BY <2>1, <2>2, <4>1, <4>2 DEF RequestInv, Placed
    <3>2. q.shape.route \in Routes
      BY <3>1, AtLinks
    <3> QED BY <3>1, <3>2, ChainDomain DEF Length
  <2> QED BY <2>1, <2>2 DEF Request, Modes
<1>2. free \in 0 .. MaxConns
  <2>1. Cardinality(Busy) \in Nat
    BY FS_Subset, FS_CardinalityType, PoolAssumption DEF Busy
  <2>2. free \in Nat /\ free + Cardinality(Busy) = MaxConns
    BY DEF Inv, PoolConserved, Busy
  <2> QED BY <2>1, <2>2, PoolAssumption
<1> QED BY <1>1, <1>2 DEF TypeOK, Inv

(* Type correctness of the requests and the pool.                           *)
THEOREM TypeCorrect == Spec => []TypeOK
BY RequestCorrect, InvType, PTL

(* However a request ends, by an answer, a refusal or a panic at any point, *)
(* it is answered once, logged once with that status, and an error that     *)
(* promises a trace id has the one of the log line.                         *)
THEOREM AccountedCorrect == Spec => []Accounted
<1>1. Inv => Accounted
  <2> SUFFICES ASSUME Inv, NEW r \in Requests, req[r].mode = "closed"
               PROVE  /\ req[r].sent # None
                      /\ req[r].lines = <<[trace |-> req[r].trace, status |-> req[r].sent.status]>>
                      /\ Explained(req[r])
    BY DEF Accounted, Explained
  <2> QED BY DEF Inv, RequestInv, Answered, Logged
<1> QED BY <1>1, RequestCorrect, PTL

(* Metrics are sent to no one but their user, and whole unless a result set *)
(* broke off unnoticed.                                                     *)
THEOREM MetricsCorrect == Spec => []MetricsWhole
<1>1. Inv => MetricsWhole
  <2> SUFFICES ASSUME Inv, NEW r \in Requests, req[r].mode = "closed",
                      req[r].shape.route = "metrics", req[r].sent.status = 200
               PROVE  req[r].user = req[r].shape.path /\ Whole(req[r])
    BY PartsValue DEF MetricsWhole, Whole
  <2> QED BY DEF Inv, RequestInv, Placed, Answered, Guarded
<1> QED BY <1>1, RequestCorrect, PTL

(* No way out of a handler loses a connection of the pool or returns one    *)
(* twice.                                                                   *)
THEOREM PoolCorrect == Spec => []PoolConserved
<1>1. Inv => PoolConserved
  BY DEF Inv
<1> QED BY <1>1, RequestCorrect, PTL
=============================================================================
