---------------------------- MODULE TradeIntake ----------------------------
(***************************************************************************)
(* The synchronous half of the trade journal, one API process serving      *)
(* POST /trades and GET /trades/{tradeId}: internal/trades/handler.go over *)
(* repo.go, the event it hands to a goroutine (queue/producer.go), and the *)
(* life of the process (cmd/api/main.go).  PostgreSQL (external) executes  *)
(* one statement at a time; Redis (external) executes XADDs.               *)
(*                                                                         *)
(* One action is one statement of a handler to the database, or one        *)
(* publishOnce with all of go-redis's own retries.  A fault is a crash, a  *)
(* SIGTERM, a failed statement, or a reply of the database that was lost   *)
(* (also because the client went away and cancelled the request's          *)
(* context); MaxFaults bounds their number.  A slow or failing Redis is    *)
(* not a fault: publishing may fail at any time.                           *)
(***************************************************************************)
EXTENDS TradeEvents, FiniteSets

CONSTANTS Requests,       \* the HTTP requests of a behaviour
          Bodies,         \* what a request may carry
          Trades,         \* the trade ids
          None,           \* no record, no body, no token
          RedisRetries,   \* MaxRetries of the Redis client
          MaxFaults       \* bound on the faults of a behaviour

Statuses == {"open", "closed", "cancelled"}

(* A request: the operation, the trade it names, the userId in the body,    *)
(* the user of the bearer token (None: no valid token), whether it decodes  *)
(* and validates, and the status of the trade in the body.                  *)
ASSUME BodiesAssumption ==
    /\ None \notin Bodies
    /\ \A b \in Bodies : /\ b.op \in {"post", "get"}
                         /\ b.trade \in Trades
                         /\ b.user # None
                         /\ b.valid \in BOOLEAN
                         /\ b.status \in Statuses

ASSUME BoundsAssumption == RedisRetries \in Nat /\ MaxFaults \in Nat

VARIABLES
    api,        \* the process: "up", "draining" after SIGTERM, "down"
    input,      \* what each request carries
    pc,         \* how far each request's handler has come
    rows,       \* table trades: the record stored under each id
    loaded,     \* the *Trade each handler holds
    inserted,   \* whether Insert reported a new row
    code,       \* the status each request was answered with, 0 for none
    pub,        \* the goroutine that publishes a request's event
    events,     \* copies of each trade's events on the stream
    faults      \* faults spent so far

requestVars == <<input, pc, loaded, inserted, code>>
vars == <<api, requestVars, rows, pub, events, faults>>

Tries == RedisRetries + 1

Fault == faults < MaxFaults /\ faults' = faults + 1

TradeOf(r) == input[r].trade

----------------------------------------------------------------------------
(* The handlers.                                                            *)

Submit(r, b) ==
    /\ api = "up" /\ pc[r] = "unsent"
    /\ input' = [input EXCEPT ![r] = b]
    /\ pc' = [pc EXCEPT ![r] = "received"]
    /\ UNCHANGED <<api, rows, loaded, inserted, code, pub, events, faults>>

Reply(r, c) == /\ pc' = [pc EXCEPT ![r] = "answered"]
               /\ code' = [code EXCEPT ![r] = c]

(* Operators whose name ends in Bug are not part of the model: each is the  *)
(* definition after it with one plausible mistake, which some property      *)
(* listed in PROJECT.json tells from the code.                              *)

RefusalBug(b) == IF b.token = None THEN 401
                 ELSE IF ~b.valid THEN 422  \* a status the API does not document
                 ELSE IF b.op = "post" /\ b.token # b.user THEN 403
                 ELSE 0

(* The checks before the database, in the order a request meets them: the   *)
(* Authenticator, decoding and validate, the tenancy check of create.       *)
Refusal(b) == IF b.token = None THEN 401
              ELSE IF ~b.valid THEN 400
              ELSE IF b.op = "post" /\ b.token # b.user THEN 403
              ELSE 0

Check(r) ==
    /\ pc[r] = "received"
    /\ IF Refusal(input[r]) # 0
         THEN Reply(r, Refusal(input[r]))
         ELSE /\ pc' = [pc EXCEPT ![r] = IF input[r].op = "post" THEN "insert" ELSE "load"]
              /\ UNCHANGED code
    /\ UNCHANGED <<api, input, rows, loaded, inserted, pub, events, faults>>

StoreRowBug(r) == rows' = [rows EXCEPT ![TradeOf(r)] = input[r]]  \* DO UPDATE

(* INSERT ... ON CONFLICT (trade_id) DO NOTHING RETURNING.                  *)
StoreRow(r) == rows' = [rows EXCEPT ![TradeOf(r)] = IF @ = None THEN input[r] ELSE @]

Insert(r) ==
    /\ pc[r] = "insert"
    /\ StoreRow(r)
    /\ IF rows[TradeOf(r)] = None
         THEN /\ loaded' = [loaded EXCEPT ![r] = rows'[TradeOf(r)]]
              /\ inserted' = [inserted EXCEPT ![r] = TRUE]
              /\ pc' = [pc EXCEPT ![r] = "publish"]
         ELSE /\ pc' = [pc EXCEPT ![r] = "fetch"]
              /\ UNCHANGED <<loaded, inserted>>
    /\ UNCHANGED <<api, input, code, pub, events, faults>>

(* The INSERT committed, but Insert returns an error: the handler answers   *)
(* 500 and publishes nothing.                                               *)
InsertUnheard(r) ==
    /\ pc[r] = "insert"
    /\ Fault
    /\ StoreRow(r)
    /\ Reply(r, 500)
    /\ UNCHANGED <<api, input, loaded, inserted, pub, events>>

(* The SELECT of an idempotent re-submit.                                   *)
Fetch(r) ==
    /\ pc[r] = "fetch"
    /\ IF rows[TradeOf(r)] = None
         THEN Reply(r, 500) /\ UNCHANGED loaded
         ELSE /\ loaded' = [loaded EXCEPT ![r] = rows[TradeOf(r)]]
              /\ pc' = [pc EXCEPT ![r] = "publish"]
              /\ UNCHANGED code
    /\ UNCHANGED <<api, input, rows, inserted, pub, events, faults>>

(* The statement fails without effect.                                      *)
StatementFails(r) ==
    /\ pc[r] \in {"insert", "fetch", "load"}
    /\ Fault
    /\ Reply(r, 500)
    /\ UNCHANGED <<api, input, rows, loaded, inserted, pub, events>>

(* Every answered post announces its trade.                                 *)
StartPublisherAlwaysBug(r) ==
    /\ pc[r] = "publish"
    /\ pub' = [pub EXCEPT ![r] = "first"]
    /\ pc' = [pc EXCEPT ![r] = "reply"]
    /\ UNCHANGED <<api, input, rows, loaded, inserted, code, events, faults>>

(* The inserted flag read the wrong way round.                              *)
StartPublisherFlipBug(r) ==
    /\ pc[r] = "publish"
    /\ pub' = [pub EXCEPT ![r] = IF inserted[r] THEN @ ELSE "first"]
    /\ pc' = [pc EXCEPT ![r] = "reply"]
    /\ UNCHANGED <<api, input, rows, loaded, inserted, code, events, faults>>

(* Only the handler that created the row starts a publisher.                *)
StartPublisher(r) ==
    /\ pc[r] = "publish"
    /\ pub' = [pub EXCEPT ![r] = IF inserted[r] THEN "first" ELSE @]
    /\ pc' = [pc EXCEPT ![r] = "reply"]
    /\ UNCHANGED <<api, input, rows, loaded, inserted, code, events, faults>>

(* The response waits for the publisher.                                    *)
RespondBug(r) ==
    /\ pc[r] = "reply" /\ pub[r] \in {"none", "done", "dropped"}
    /\ Reply(r, 200)
    /\ UNCHANGED <<api, input, rows, loaded, inserted, pub, events, faults>>

Respond(r) ==
    /\ pc[r] = "reply"
    /\ Reply(r, 200)
    /\ UNCHANGED <<api, input, rows, loaded, inserted, pub, events, faults>>

(* get: the row is loaded first, the owner compared afterwards.             *)
Load(r) ==
    /\ pc[r] = "load"
    /\ LET row == rows[TradeOf(r)]
       IN IF row = None THEN Reply(r, 404) /\ UNCHANGED loaded
          ELSE IF row.user # input[r].token THEN Reply(r, 403) /\ UNCHANGED loaded
          ELSE Reply(r, 200) /\ loaded' = [loaded EXCEPT ![r] = row]
    /\ UNCHANGED <<api, input, rows, inserted, pub, events, faults>>

----------------------------------------------------------------------------
(* The publisher: Publish with its own context of 200 ms.                   *)

EventForBug(b) == IF b.status = "open" THEN Opened ELSE Closed  \* a cancelled trade

(* eventFor: a validated closed trade has its exitAt.                       *)
EventFor(b) == IF b.status = "closed" THEN Closed ELSE Opened

(* publishOnce: go-redis sends the XADD up to Tries times, and any of them  *)
(* may have been executed, whatever the call returns.  A transient error of *)
(* the first call is retried; the deadline is not.                          *)
PublishOnce(r) ==
    /\ pub[r] \in {"first", "second"}
    /\ \E n \in 0 .. Tries :
         /\ events' = [events EXCEPT ![<<TradeOf(r), EventFor(loaded[r])>>] = @ + n]
         /\ \/ n > 0 /\ pub' = [pub EXCEPT ![r] = "done"]
            \/ pub[r] = "first" /\ pub' = [pub EXCEPT ![r] = "backoff"]
            \/ pub' = [pub EXCEPT ![r] = "dropped"]
    /\ UNCHANGED <<api, requestVars, rows, faults>>

(* 20 ms, unless the deadline comes first.                                  *)
Backoff(r) ==
    /\ pub[r] = "backoff"
    /\ \E p \in {"second", "dropped"} : pub' = [pub EXCEPT ![r] = p]
    /\ UNCHANGED <<api, requestVars, rows, events, faults>>

----------------------------------------------------------------------------
(* The process.                                                             *)

InFlight == {"received", "insert", "fetch", "load", "publish", "reply"}
Publishing == {"first", "backoff", "second"}

(* Everything in memory is gone: connections break, publishers die.         *)
Die == /\ api' = "down"
       /\ pc' = [r \in Requests |-> IF pc[r] \in InFlight THEN "lost" ELSE pc[r]]
       /\ pub' = [r \in Requests |-> IF pub[r] \in Publishing THEN "dropped" ELSE pub[r]]
       /\ UNCHANGED <<input, rows, loaded, inserted, code, events>>

Crash == api # "down" /\ Fault /\ Die

Sigterm == /\ api = "up" /\ Fault
           /\ api' = "draining"
           /\ UNCHANGED <<requestVars, rows, pub, events>>

(* Shutdown returns once no handler runs, or after ten seconds; nothing     *)
(* waits for the publishers.                                                *)
Exit == api = "draining" /\ Die /\ UNCHANGED faults

Restart == /\ api = "down"
           /\ api' = "up"
           /\ UNCHANGED <<requestVars, rows, pub, events, faults>>

----------------------------------------------------------------------------

Init == /\ api = "up"
        /\ input = [r \in Requests |-> None]
        /\ pc = [r \in Requests |-> "unsent"]
        /\ rows = [t \in Trades |-> None]
        /\ loaded = [r \in Requests |-> None]
        /\ inserted = [r \in Requests |-> FALSE]
        /\ code = [r \in Requests |-> 0]
        /\ pub = [r \in Requests |-> "none"]
        /\ events = [e \in Trades \X {Opened, Closed} |-> 0]
        /\ faults = 0

(* The steps of a request's handler.                                        *)
Handler(r) == Check(r) \/ Insert(r) \/ Fetch(r) \/ StartPublisher(r) \/ Respond(r) \/ Load(r)

Publisher(r) == PublishOnce(r) \/ Backoff(r)

Next == \/ \E r \in Requests : \/ \E b \in Bodies : Submit(r, b)
                               \/ Handler(r)
                               \/ InsertUnheard(r) \/ StatementFails(r)
                               \/ Publisher(r)
        \/ Crash \/ Sigterm \/ Exit \/ Restart

Spec == Init /\ [][Next]_vars

(* PostgreSQL answers and handlers run; Redis owes nobody anything.         *)
HandlerFairness == \A r \in Requests : WF_vars(Handler(r))

FairSpec == Spec /\ HandlerFairness

(* Redis answers every command too, in time or late.                        *)
FairRedisSpec == FairSpec /\ \A r \in Requests : WF_vars(Publisher(r))

----------------------------------------------------------------------------
(* Type correctness.                                                        *)
TypeOK ==
    /\ api \in {"up", "draining", "down"}
    /\ input \in [Requests -> Bodies \cup {None}]
    /\ pc \in [Requests -> {"unsent", "answered", "lost"} \cup InFlight]
    /\ rows \in [Trades -> Bodies \cup {None}]
    /\ loaded \in [Requests -> Bodies \cup {None}]
    /\ inserted \in [Requests -> BOOLEAN]
    /\ code \in [Requests -> {0, 200, 400, 401, 403, 404, 500}]
    /\ pub \in [Requests -> {"none", "done", "dropped"} \cup Publishing]
    /\ events \in [Trades \X {Opened, Closed} -> Nat]
    /\ faults \in 0 .. MaxFaults

(* An event on the stream speaks of a committed row and of its status, not  *)
(* of what some later request claimed (eventFor, and the inserted guard of  *)
(* create): trade.closed exactly for a row stored as closed.                *)
EventMatchesRow ==
    \A t \in Trades, k \in {Opened, Closed} :
        events[<<t, k>>] > 0 => /\ rows[t] # None
                                /\ k = Closed <=> rows[t].status = "closed"

(* However many requests name a trade, one publisher at most announces it,  *)
(* with one retry of publishOnce and the client's own retries: 2 * Tries    *)
(* copies (create, Publish, NewClient).                                     *)
EventsBounded ==
    \A t \in Trades, k \in {Opened, Closed} : events[<<t, k>>] <= 2 * Tries

(* Racing posts, conflicts and re-submits lose no event: in a behaviour      *)
(* without faults, a stored trade that no event announces yet is still in   *)
(* the hands of the one request that created it, which is about to start    *)
(* its publisher, has it running, or has seen it give up on Redis (create,  *)
(* Insert).                                                                 *)
WriterAnnounces ==
    \A t \in Trades :
        (faults = 0 /\ rows[t] # None /\ \A k \in {Opened, Closed} : events[<<t, k>>] = 0)
          => \E r \in Requests : /\ inserted[r] /\ input[r] = rows[t]
                                /\ \/ pc[r] = "publish"
                                   \/ pub[r] \in Publishing \cup {"dropped"}

(* A received request is answered, or its connection breaks with the        *)
(* process, though Redis may never answer: the write path does not wait     *)
(* for the queue.                                                           *)
RequestAnswered ==
    \A r \in Requests : (pc[r] = "received") ~> (pc[r] \in {"answered", "lost"})

(* A slow Redis only delays the metrics of a stored trade (DECISIONS.md):   *)
(* its event reaches the stream in the end.                                 *)
EventuallyPublished ==
    \A t \in Trades : (rows[t] # None) ~> (\E k \in {Opened, Closed} : events[<<t, k>>] > 0)

(* The handlers implement the idempotent store.                             *)
Ledger == INSTANCE TradeLedger WITH
            record <- [r \in Requests |-> IF code[r] = 200 THEN loaded[r] ELSE None]
LedgerSpec == Ledger!Spec
=============================================================================
