------------------------- MODULE TradeIntakeProofs -------------------------
(***************************************************************************)
(* Proofs about the write path, for any number of requests and trades, any *)
(* request bodies, any number of Redis retries and any number of faults.   *)
(***************************************************************************)
EXTENDS TradeIntake, TLAPS

LEMMA CountUp ==
    ASSUME NEW E, NEW f \in [E -> Nat], NEW n \in Nat, NEW e
    PROVE  [f EXCEPT ![e] = @ + n] \in [E -> Nat]
<1>1. ASSUME NEW x \in E PROVE [f EXCEPT ![e] = @ + n][x] \in Nat
  <2>1. CASE x = e
    BY <2>1
  <2>2. CASE x # e
    BY <2>2
  <2> QED BY <2>1, <2>2
<1> QED BY <1>1

(* A handler runs only for a request that carries something.                *)
TypeInv == /\ TypeOK
           /\ \A r \in Requests : pc[r] # "unsent" => input[r] \in Bodies

LEMMA TypeInvariant == Spec => []TypeInv
<1>1. Init => TypeInv
  BY BoundsAssumption DEF Init, TypeInv, TypeOK, InFlight, Publishing
<1>2. TypeInv /\ [Next]_vars => TypeInv'
  <2> SUFFICES ASSUME TypeInv, [Next]_vars PROVE TypeInv'
    OBVIOUS
  <2> USE DEF InFlight, Publishing, requestVars
  <2>1. ASSUME NEW r \in Requests, NEW b \in Bodies, Submit(r, b) PROVE TypeInv'
    BY <2>1 DEF Submit, TypeInv, TypeOK
  <2>2. ASSUME NEW r \in Requests, Check(r) PROVE TypeInv'
    <3>1. Refusal(input[r]) \in {0, 401, 400, 403}
      BY DEF Refusal
    <3>2. CASE Refusal(input[r]) # 0
      BY <2>2, <3>1, <3>2 DEF Check, Reply, TypeInv, TypeOK
    <3>3. CASE Refusal(input[r]) = 0
      BY <2>2, <3>3 DEF Check, TypeInv, TypeOK
    <3> QED BY <3>2, <3>3
  <2>3. ASSUME NEW r \in Requests, Insert(r) PROVE TypeInv'
    <3>1. input[r] \in Bodies /\ TradeOf(r) \in Trades
      BY <2>3, BodiesAssumption DEF Insert, TypeInv, TradeOf
    <3>2. rows' \in [Trades -> Bodies \cup {None}]
      BY <2>3, <3>1 DEF Insert, StoreRow, TypeInv, TypeOK
    <3>3. loaded' \in [Requests -> Bodies \cup {None}]
      <4>1. \/ loaded' = [loaded EXCEPT ![r] = rows'[TradeOf(r)]]
            \/ loaded' = loaded
        BY <2>3 DEF Insert
      <4>2. rows'[TradeOf(r)] \in Bodies \cup {None}
        BY <3>1, <3>2
      <4> QED BY <4>1, <4>2 DEF TypeInv, TypeOK
    <3>4. inserted' \in [Requests -> BOOLEAN] /\ UNCHANGED <<api, input, code, pub, events, faults>>
      <4>1. inserted' = inserted \/ inserted' = [inserted EXCEPT ![r] = TRUE]
        BY <2>3 DEF Insert
      <4>2. inserted' \in [Requests -> BOOLEAN]
        <5>1. inserted \in [Requests -> BOOLEAN]
          BY DEF TypeInv, TypeOK
        <5>2. [inserted EXCEPT ![r] = TRUE] \in [Requests -> BOOLEAN]
          BY <5>1
        <5> QED BY <4>1, <5>1, <5>2
      <4> QED BY <2>3, <4>2 DEF Insert
    <3>5. pc[r] = "insert" /\ \E p \in {"publish", "fetch"} : pc' = [pc EXCEPT ![r] = p]
      BY <2>3 DEF Insert
    <3>6. pc' \in [Requests -> {"unsent", "answered", "lost"} \cup InFlight]
          /\ \A q \in Requests : pc'[q] # "unsent" => pc[q] # "unsent"
      BY <3>5 DEF TypeInv, TypeOK
    <3> QED BY <3>2, <3>3, <3>4, <3>6 DEF TypeInv, TypeOK
  <2>4. ASSUME NEW r \in Requests, InsertUnheard(r) PROVE TypeInv'
    <3>1. input[r] \in Bodies /\ TradeOf(r) \in Trades
      BY <2>4, BodiesAssumption DEF InsertUnheard, TypeInv, TradeOf
    <3>2. rows' \in [Trades -> Bodies \cup {None}]
      BY <2>4, <3>1 DEF InsertUnheard, StoreRow, TypeInv, TypeOK
    <3>3. faults' \in 0 .. MaxFaults
      BY <2>4, BoundsAssumption DEF InsertUnheard, Fault, TypeInv, TypeOK
    <3> QED BY <2>4, <3>2, <3>3 DEF InsertUnheard, Reply, TypeInv, TypeOK
  <2>5. ASSUME NEW r \in Requests, Fetch(r) PROVE TypeInv'
    <3>1. input[r] \in Bodies /\ TradeOf(r) \in Trades
      BY <2>5, BodiesAssumption DEF Fetch, TypeInv, TradeOf
    <3>2. loaded' \in [Requests -> Bodies \cup {None}]
      BY <2>5, <3>1 DEF Fetch, TypeInv, TypeOK
    <3> QED BY <2>5, <3>2 DEF Fetch, Reply, TypeInv, TypeOK
  <2>6. ASSUME NEW r \in Requests, StatementFails(r) PROVE TypeInv'
    <3>1. faults' \in 0 .. MaxFaults
      BY <2>6, BoundsAssumption DEF StatementFails, Fault, TypeInv, TypeOK
    <3> QED BY <2>6, <3>1 DEF StatementFails, Reply, TypeInv, TypeOK
  <2>7. ASSUME NEW r \in Requests, StartPublisher(r) PROVE TypeInv'
    BY <2>7 DEF StartPublisher, TypeInv, TypeOK
  <2>8. ASSUME NEW r \in Requests, Respond(r) PROVE TypeInv'
    BY <2>8 DEF Respond, Reply, TypeInv, TypeOK
  <2>9. ASSUME NEW r \in Requests, Load(r) PROVE TypeInv'
    <3>1. input[r] \in Bodies /\ TradeOf(r) \in Trades
      BY <2>9, BodiesAssumption DEF Load, TypeInv, TradeOf
    <3>2. rows[TradeOf(r)] \in Bodies \cup {None}
      BY <3>1 DEF TypeInv, TypeOK
    <3>3. \/ Reply(r, 404) /\ UNCHANGED loaded
          \/ Reply(r, 403) /\ UNCHANGED loaded
          \/ Reply(r, 200) /\ loaded' = [loaded EXCEPT ![r] = rows[TradeOf(r)]]
      BY <2>9 DEF Load
    <3>4. loaded' \in [Requests -> Bodies \cup {None}]
      BY <3>2, <3>3 DEF TypeInv, TypeOK
    <3> QED BY <2>9, <3>3, <3>4 DEF Load, Reply, TypeInv, TypeOK
  <2>10. ASSUME NEW r \in Requests, PublishOnce(r) PROVE TypeInv'
    <3> PICK n \in 0 .. Tries :
          /\ events' = [events EXCEPT ![<<TradeOf(r), EventFor(loaded[r])>>] = @ + n]
          /\ \/ n > 0 /\ pub' = [pub EXCEPT ![r] = "done"]
             \/ pub[r] = "first" /\ pub' = [pub EXCEPT ![r] = "backoff"]
             \/ pub' = [pub EXCEPT ![r] = "dropped"]
      BY <2>10 DEF PublishOnce
    <3>1. n \in Nat
      BY BoundsAssumption DEF Tries
    <3>2. events' \in [Trades \X {Opened, Closed} -> Nat]
      <4> DEFINE E == Trades \X {Opened, Closed}
      <4>1. events \in [E -> Nat]
        BY DEF TypeInv, TypeOK
      <4> HIDE DEF E
      <4>2. \A e : [events EXCEPT ![e] = @ + n] \in [E -> Nat]
        BY <3>1, <4>1, CountUp
      <4>3. events' \in [E -> Nat]
        BY <4>2
      <4> QED BY <4>3 DEF E
    <3>3. pub' \in [Requests -> {"none", "done", "dropped"} \cup Publishing]
      BY DEF TypeInv, TypeOK
    <3> QED BY <2>10, <3>2, <3>3 DEF PublishOnce, TypeInv, TypeOK
  <2>11. ASSUME NEW r \in Requests, Backoff(r) PROVE TypeInv'
    BY <2>11 DEF Backoff, TypeInv, TypeOK
  <2>12. ASSUME Die, faults' \in 0 .. MaxFaults PROVE TypeInv'
    <3>1. pc' \in [Requests -> {"unsent", "answered", "lost"} \cup InFlight]
          /\ \A q \in Requests : pc'[q] # "unsent" => pc[q] # "unsent"
      BY <2>12 DEF Die, TypeInv, TypeOK
    <3>2. pub' \in [Requests -> {"none", "done", "dropped"} \cup Publishing]
      BY <2>12 DEF Die, TypeInv, TypeOK
    <3> QED BY <2>12, <3>1, <3>2 DEF Die, TypeInv, TypeOK
  <2>13. CASE Crash
    BY <2>12, <2>13, BoundsAssumption DEF Crash, Fault, TypeInv, TypeOK
  <2>14. CASE Sigterm
    BY <2>14, BoundsAssumption DEF Sigterm, Fault, TypeInv, TypeOK
  <2>15. CASE Exit
    BY <2>12, <2>15 DEF Exit, TypeInv, TypeOK
  <2>16. CASE Restart
    BY <2>16 DEF Restart, TypeInv, TypeOK
  <2>17. CASE UNCHANGED vars
    BY <2>17 DEF vars, TypeInv, TypeOK
  <2> QED
    BY <2>1, <2>2, <2>3, <2>4, <2>5, <2>6, <2>7, <2>8, <2>9, <2>10, <2>11, <2>13, <2>14, <2>15,
       <2>16, <2>17 DEF Next, Handler, Publisher
<1> QED BY <1>1, <1>2, PTL DEF Spec

(* Type correctness, for every value of the constants (TypeOK of            *)
(* TradeIntake): every handler, publisher and process step keeps the state  *)
(* within the states the code distinguishes.                                *)
THEOREM TypeCorrect == Spec => []TypeOK
<1>1. TypeInv => TypeOK
  BY DEF TypeInv
<1> QED BY <1>1, TypeInvariant, PTL

----------------------------------------------------------------------------
(* What the handlers know about the table while they run.                   *)

ReqInv(r) ==
    /\ input[r] = None <=> pc[r] = "unsent"
    /\ code[r] = 0 <=> pc[r] # "answered"
    /\ pc[r] \in {"insert", "fetch", "publish", "reply"}
         => Refusal(input[r]) = 0 /\ input[r].op = "post"
    /\ pc[r] = "load" => Refusal(input[r]) = 0 /\ input[r].op # "post"
    /\ pc[r] \in {"fetch", "publish", "reply"} => rows[TradeOf(r)] # None
    /\ pc[r] \in {"publish", "reply"} => loaded[r] = rows[TradeOf(r)]

RowInv == \A r \in Requests : ReqInv(r)

(* A stored record never changes.                                           *)
RowsKept == \A t \in Trades : rows[t] # None => rows'[t] = rows[t]

Untouched(q) == /\ input'[q] = input[q] /\ pc'[q] = pc[q]
                /\ loaded'[q] = loaded[q] /\ code'[q] = code[q]

LEMMA ReqFrame ==
    ASSUME TypeInv, RowInv, RowsKept, NEW q \in Requests, Untouched(q)
    PROVE  ReqInv(q)'
<1>1. ReqInv(q)
  BY DEF RowInv
<1>2. pc[q] # "unsent" => TradeOf(q) \in Trades
  BY BodiesAssumption DEF TypeInv, TradeOf
<1>3. TradeOf(q)' = TradeOf(q)
  BY DEF TradeOf, Untouched
<1> QED BY <1>1, <1>2, <1>3 DEF ReqInv, Untouched, RowsKept

LEMMA StoreRowKeeps ==
    ASSUME TypeInv, NEW r \in Requests, StoreRow(r)
    PROVE  /\ RowsKept
           /\ rows[TradeOf(r)] # None => rows' = rows
BY DEF StoreRow, RowsKept, TypeInv, TypeOK

LEMMA RowInvariant == Spec => []RowInv
<1>1. Init => RowInv
  BY DEF Init, RowInv, ReqInv
<1>2. TypeInv /\ RowInv /\ [Next]_vars => RowInv'
  <2> SUFFICES ASSUME TypeInv, RowInv, [Next]_vars, NEW q \in Requests PROVE ReqInv(q)'
    BY DEF RowInv
  <2>0. ReqInv(q)
    BY DEF RowInv
  <2>1. ASSUME rows' = rows, Untouched(q) PROVE ReqInv(q)'
    BY <2>1, ReqFrame DEF RowsKept
  <2> USE DEF requestVars
  <2>2. ASSUME NEW r \in Requests, NEW b \in Bodies, Submit(r, b) PROVE ReqInv(q)'
    <3>1. CASE q = r
      <4>1. input'[q] = b /\ pc'[q] = "received" /\ pc[q] = "unsent" /\ code'[q] = code[q]
        BY <2>2, <3>1 DEF Submit, TypeInv, TypeOK
      <4> QED BY <2>0, <4>1, BodiesAssumption DEF ReqInv
    <3>2. CASE q # r
      BY <2>1, <2>2, <3>2 DEF Submit, Untouched, TypeInv, TypeOK
    <3> QED BY <3>1, <3>2
  <2>3. ASSUME NEW r \in Requests, NEW c \in {200, 400, 401, 403, 404, 500}, Reply(r, c),
               RowsKept, UNCHANGED input, pc[r] # "unsent",
               \A p \in Requests \ {r} : loaded'[p] = loaded[p]
        PROVE  ReqInv(q)'
    <3>1. CASE q = r
      <4>1. pc'[q] = "answered" /\ code'[q] = c /\ input'[q] = input[q]
        BY <2>3, <3>1 DEF Reply, TypeInv, TypeOK
      <4> QED BY <2>0, <2>3, <3>1, <4>1 DEF ReqInv
    <3>2. CASE q # r
      BY <2>3, <3>2, ReqFrame DEF Reply, Untouched, TypeInv, TypeOK
    <3> QED BY <3>1, <3>2
  <2>4. ASSUME NEW r \in Requests, Check(r) PROVE ReqInv(q)'
    <3>1. CASE Refusal(input[r]) # 0
      <4>1. Refusal(input[r]) \in {400, 401, 403}
        BY <3>1 DEF Refusal
      <4> QED BY <2>3, <2>4, <3>1, <4>1 DEF Check, RowsKept
    <3>2. CASE Refusal(input[r]) = 0 /\ q = r
      <4>1. /\ pc'[q] = IF input[q].op = "post" THEN "insert" ELSE "load"
            /\ pc[q] = "received" /\ UNCHANGED <<input, code>>
        BY <2>4, <3>2 DEF Check, TypeInv, TypeOK
      <4> QED BY <2>0, <3>2, <4>1 DEF ReqInv
    <3>3. CASE Refusal(input[r]) = 0 /\ q # r
      BY <2>1, <2>4, <3>3 DEF Check, Untouched, TypeInv, TypeOK
    <3> QED BY <3>1, <3>2, <3>3
  <2>5. ASSUME NEW r \in Requests, Insert(r) PROVE ReqInv(q)'
    <3>1. RowsKept
      BY <2>5, StoreRowKeeps DEF Insert
    <3>2. CASE q # r
      BY <2>5, <3>1, <3>2, ReqFrame DEF Insert, Untouched, TypeInv, TypeOK
    <3>3. CASE q = r
      <4>1. TradeOf(q) \in Trades /\ input[q] \in Bodies /\ pc[q] = "insert"
        BY <2>5, <3>3, BodiesAssumption DEF Insert, TypeInv, TradeOf
      <4>2. UNCHANGED <<input, code>> /\ TradeOf(q)' = TradeOf(q)
        BY <2>5 DEF Insert, TradeOf
      <4>3. rows'[TradeOf(q)] # None
        BY <2>5, <3>3, <4>1, BodiesAssumption DEF Insert, StoreRow, TypeInv, TypeOK
      <4>4. CASE rows[TradeOf(q)] = None
        <5>1. pc'[q] = "publish" /\ loaded'[q] = rows'[TradeOf(q)]
          BY <2>5, <3>3, <4>4 DEF Insert, TypeInv, TypeOK
        <5> QED BY <2>0, <4>1, <4>2, <4>3, <5>1 DEF ReqInv
      <4>5. CASE rows[TradeOf(q)] # None
        <5>1. pc'[q] = "fetch"
          BY <2>5, <3>3, <4>5 DEF Insert, TypeInv, TypeOK
        <5> QED BY <2>0, <4>1, <4>2, <4>3, <5>1 DEF ReqInv
      <4> QED BY <4>4, <4>5
    <3> QED BY <3>2, <3>3
  <2>6. ASSUME NEW r \in Requests, InsertUnheard(r) PROVE ReqInv(q)'
    BY <2>3, <2>6, StoreRowKeeps DEF InsertUnheard
  <2>7. ASSUME NEW r \in Requests, Fetch(r) PROVE ReqInv(q)'
    <3>1. rows[TradeOf(r)] # None
      BY <2>7 DEF Fetch, RowInv, ReqInv
    <3>2. CASE q # r
      BY <2>1, <2>7, <3>1, <3>2 DEF Fetch, Untouched, TypeInv, TypeOK
    <3>3. CASE q = r
      <4>1. /\ pc[q] = "fetch" /\ pc'[q] = "publish" /\ loaded'[q] = rows[TradeOf(q)]
            /\ UNCHANGED <<input, rows, code>> /\ TradeOf(q)' = TradeOf(q)
        BY <2>7, <3>1, <3>3 DEF Fetch, TypeInv, TypeOK, TradeOf
      <4> QED BY <2>0, <3>1, <3>3, <4>1 DEF ReqInv
    <3> QED BY <3>2, <3>3
  <2>8. ASSUME NEW r \in Requests, StatementFails(r) PROVE ReqInv(q)'
    BY <2>3, <2>8 DEF StatementFails, RowsKept
  <2>9. ASSUME NEW r \in Requests, StartPublisher(r) PROVE ReqInv(q)'
    <3>1. CASE q # r
      BY <2>1, <2>9, <3>1 DEF StartPublisher, Untouched, TypeInv, TypeOK
    <3>2. CASE q = r
      <4>1. /\ pc[q] = "publish" /\ pc'[q] = "reply"
            /\ UNCHANGED <<input, rows, loaded, code>> /\ TradeOf(q)' = TradeOf(q)
        BY <2>9, <3>2 DEF StartPublisher, TypeInv, TypeOK, TradeOf
      <4> QED BY <2>0, <4>1 DEF ReqInv
    <3> QED BY <3>1, <3>2
  <2>10. ASSUME NEW r \in Requests, Respond(r) PROVE ReqInv(q)'
    BY <2>3, <2>10 DEF Respond, RowsKept
  <2>11. ASSUME NEW r \in Requests, Load(r) PROVE ReqInv(q)'
    <3>1. \E c \in {200, 400, 401, 403, 404, 500} : Reply(r, c)
      BY <2>11 DEF Load
    <3>2. \A p \in Requests \ {r} : loaded'[p] = loaded[p]
      BY <2>11 DEF Load, TypeInv, TypeOK
    <3> QED BY <2>3, <2>11, <3>1, <3>2 DEF Load, RowsKept
  <2>12. ASSUME UNCHANGED <<requestVars, rows>> PROVE ReqInv(q)'
    BY <2>1, <2>12 DEF Untouched
  <2>13. ASSUME Die PROVE ReqInv(q)'
    <3>1. /\ UNCHANGED <<input, rows, loaded, code>> /\ TradeOf(q)' = TradeOf(q)
          /\ pc'[q] = IF pc[q] \in InFlight THEN "lost" ELSE pc[q]
      BY <2>13 DEF Die, TradeOf
    <3> QED BY <2>0, <3>1 DEF ReqInv, InFlight
  <2> QED
    BY <2>2, <2>4, <2>5, <2>6, <2>7, <2>8, <2>9, <2>10, <2>11, <2>12, <2>13
    DEF Next, Handler, Publisher, PublishOnce, Backoff, Crash, Exit, Sigterm, Restart, vars
<1> QED BY <1>1, <1>2, TypeInvariant, PTL DEF Spec

----------------------------------------------------------------------------
(* The refinement mapping: the record a 200 answer carries.                 *)

Record == [q \in Requests |-> IF code[q] = 200 THEN loaded[q] ELSE None]

LEMMA Admission ==
    ASSUME NEW b \in Bodies
    PROVE  /\ Refusal(b) = 0 <=> Ledger!Admissible(b)
           /\ Refusal(b) # 0 => Refusal(b) \in {400, 401, 403}
BY BodiesAssumption DEF Refusal, Ledger!Admissible

LEMMA RecordFrame ==
    ASSUME UNCHANGED code, \A q \in Requests : code[q] = 200 => loaded'[q] = loaded[q]
    PROVE  Record' = Record
BY DEF Record

LEMMA RecordReply ==
    ASSUME TypeInv, NEW r \in Requests, NEW c, code[r] = 0, Reply(r, c),
           \A q \in Requests \ {r} : loaded'[q] = loaded[q]
    PROVE  /\ code' = [code EXCEPT ![r] = c]
           /\ Record' = [Record EXCEPT ![r] = IF c = 200 THEN loaded'[r] ELSE None]
<1> DEFINE new == IF c = 200 THEN loaded'[r] ELSE None
<1>1. code' = [code EXCEPT ![r] = c]
  BY DEF Reply
<1>2. code \in [Requests -> {0, 200, 400, 401, 403, 404, 500}]
  BY DEF TypeInv, TypeOK
<1>3. \A q \in Requests : Record'[q] = IF q = r THEN new ELSE Record[q]
  BY <1>1, <1>2 DEF Record
<1>4. Record' = [q \in Requests |-> Record'[q]]
  BY DEF Record
<1>5. [Record EXCEPT ![r] = new] = [q \in Requests |-> IF q = r THEN new ELSE Record[q]]
  BY DEF Record
<1> HIDE DEF Record, new
<1>6. Record' = [Record EXCEPT ![r] = new]
  BY <1>3, <1>4, <1>5
<1> QED BY <1>1, <1>6 DEF new

LEMMA LedgerStep ==
    ASSUME TypeInv, RowInv, Next
    PROVE  Ledger!Next \/ UNCHANGED Ledger!vars
<1> SUFFICES ASSUME ~UNCHANGED Ledger!vars PROVE Ledger!Next
  OBVIOUS
<1>0. ASSUME UNCHANGED <<input, rows, code>>,
             \A q \in Requests : code[q] = 200 => loaded'[q] = loaded[q]
      PROVE FALSE
  BY <1>0, RecordFrame DEF Ledger!vars, Record
<1>1. ASSUME NEW r \in Requests, pc[r] \in InFlight
      PROVE  /\ Ledger!Pending(r)
             /\ input[r] \in Bodies /\ TradeOf(r) \in Trades /\ code[r] = 0
             /\ input[r].op = "get" \/ input[r].op = "post"
  BY <1>1, BodiesAssumption DEF InFlight, RowInv, ReqInv, TypeInv, Ledger!Pending, TradeOf
<1>2. ASSUME NEW r \in Requests, NEW b \in Bodies, Submit(r, b) PROVE Ledger!Next
  <2>1. Record' = Record
    BY <1>2, RecordFrame DEF Submit
  <2>2. Ledger!Submit(r, b)
    BY <1>2, <2>1 DEF Submit, Ledger!Submit, Record, RowInv, ReqInv
  <2> QED BY <2>2 DEF Ledger!Next
<1>3. ASSUME NEW r \in Requests, NEW c \in {400, 401, 403, 404, 500}, pc[r] \in InFlight,
             Reply(r, c), UNCHANGED <<input, rows, loaded>>,
             \/ c \in {400, 401, 403} /\ ~Ledger!Admissible(input[r])
             \/ c = 403 /\ input[r].op = "get" /\ Ledger!Admissible(input[r])
                        /\ rows[TradeOf(r)] # None /\ rows[TradeOf(r)].user # input[r].token
             \/ c = 404 /\ input[r].op = "get" /\ Ledger!Admissible(input[r])
                        /\ rows[TradeOf(r)] = None
             \/ c = 500 /\ Ledger!Admissible(input[r])
      PROVE Ledger!Next
  <2>1. Ledger!Answer(r, c, None)
    <3>1. code[r] = 0
      BY <1>1, <1>3
    <3> QED BY <1>3, <3>1, RecordReply DEF Ledger!Answer, Record
  <2>2. Ledger!Refuse(r, c)
    BY <1>1, <1>3, <2>1 DEF Ledger!Refuse, TradeOf
  <2> QED BY <2>2 DEF Ledger!Next
<1>4. ASSUME NEW r \in Requests, Check(r) PROVE Ledger!Next
  <2>1. CASE Refusal(input[r]) # 0
    <3>1. pc[r] \in InFlight
      BY <1>4 DEF Check, InFlight
    <3>2. Refusal(input[r]) \in {400, 401, 403} /\ ~Ledger!Admissible(input[r])
      BY <1>1, <2>1, <3>1, Admission
    <3>3. Reply(r, Refusal(input[r])) /\ UNCHANGED <<input, rows, loaded>>
      BY <1>4, <2>1 DEF Check
    <3> QED BY <1>3, <3>1, <3>2, <3>3
  <2>2. CASE Refusal(input[r]) = 0
    BY <1>0, <1>4, <2>2 DEF Check
  <2> QED BY <2>1, <2>2
<1>5. ASSUME NEW r \in Requests, pc[r] = "insert" PROVE
             /\ Ledger!Pending(r) /\ Ledger!Admissible(input[r]) /\ input[r].op = "post"
             /\ TradeOf(r) \in Trades /\ code[r] = 0 /\ pc[r] \in InFlight
  <2>1. pc[r] \in InFlight
    BY <1>5 DEF InFlight
  <2>2. Refusal(input[r]) = 0 /\ input[r].op = "post"
    BY <1>5 DEF RowInv, ReqInv
  <2> QED BY <1>1, <2>1, <2>2, Admission
<1>6. ASSUME NEW r \in Requests, Insert(r) PROVE Ledger!Next
  <2>1. pc[r] = "insert" /\ StoreRow(r) /\ UNCHANGED <<input, code>>
    BY <1>6 DEF Insert
  <2>2. Record' = Record
    <3>1. \A q \in Requests \ {r} : loaded'[q] = loaded[q]
      BY <1>6 DEF Insert, TypeInv, TypeOK
    <3> QED BY <1>5, <2>1, <3>1, RecordFrame
  <2>3. CASE rows[TradeOf(r)] = None
    <3>1. rows' = [rows EXCEPT ![TradeOf(r)] = input[r]]
      BY <2>1, <2>3 DEF StoreRow
    <3>2. Ledger!Store(r)
      BY <1>5, <2>1, <2>2, <2>3, <3>1 DEF Ledger!Store, TradeOf, Record
    <3> QED BY <3>2 DEF Ledger!Next
  <2>4. CASE rows[TradeOf(r)] # None
    <3>1. rows' = rows /\ loaded' = loaded
      BY <1>6, <2>1, <2>4, StoreRowKeeps DEF Insert
    <3> QED BY <1>0, <2>1, <3>1
  <2> QED BY <2>3, <2>4
<1>7. ASSUME NEW r \in Requests, InsertUnheard(r) PROVE Ledger!Next
  <2>1. pc[r] = "insert" /\ StoreRow(r) /\ Reply(r, 500) /\ UNCHANGED <<input, loaded>>
    BY <1>7 DEF InsertUnheard
  <2>2. CASE rows[TradeOf(r)] = None
    <3>1. rows' = [rows EXCEPT ![TradeOf(r)] = input[r]]
      BY <2>1, <2>2 DEF StoreRow
    <3>2. code' = [code EXCEPT ![r] = 500]
      BY <2>1 DEF Reply
    <3>3. Record' = Record
      BY <1>5, <2>1, <3>2 DEF Record, TypeInv, TypeOK
    <3>4. Ledger!StoreAndFail(r)
      BY <1>5, <2>1, <2>2, <3>1, <3>2, <3>3 DEF Ledger!StoreAndFail, TradeOf, Record
    <3> QED BY <3>4 DEF Ledger!Next
  <2>3. CASE rows[TradeOf(r)] # None
    BY <1>3, <1>5, <2>1, <2>3, StoreRowKeeps
  <2> QED BY <2>2, <2>3
<1>8. ASSUME NEW r \in Requests, Fetch(r) PROVE Ledger!Next
  <2>1. rows[TradeOf(r)] # None /\ code[r] = 0
    BY <1>8 DEF Fetch, RowInv, ReqInv
  <2>2. UNCHANGED <<input, rows, code>> /\ \A q \in Requests \ {r} : loaded'[q] = loaded[q]
    BY <1>8, <2>1 DEF Fetch, TypeInv, TypeOK
  <2> QED BY <1>0, <2>1, <2>2
<1>9. ASSUME NEW r \in Requests, StatementFails(r) PROVE Ledger!Next
  <2>1. pc[r] \in InFlight /\ Refusal(input[r]) = 0
    BY <1>9 DEF StatementFails, InFlight, RowInv, ReqInv
  <2>2. Ledger!Admissible(input[r])
    BY <1>1, <2>1, Admission
  <2> QED BY <1>3, <1>9, <2>1, <2>2 DEF StatementFails
<1>10. ASSUME NEW r \in Requests, StartPublisher(r) PROVE Ledger!Next
  BY <1>0, <1>10 DEF StartPublisher
<1>11. ASSUME NEW r \in Requests, Respond(r) PROVE Ledger!Next
  <2>1. /\ pc[r] \in InFlight /\ Refusal(input[r]) = 0 /\ input[r].op = "post"
        /\ rows[TradeOf(r)] # None /\ loaded[r] = rows[TradeOf(r)]
    BY <1>11 DEF Respond, InFlight, RowInv, ReqInv
  <2>2. Ledger!Answer(r, 200, rows[TradeOf(r)])
    <3>1. code[r] = 0 /\ Reply(r, 200) /\ UNCHANGED <<input, rows, loaded>>
      BY <1>1, <1>11, <2>1 DEF Respond
    <3>2. rows[TradeOf(r)] = loaded'[r] /\ \A q \in Requests \ {r} : loaded'[q] = loaded[q]
      BY <2>1, <3>1
    <3> QED BY <3>1, <3>2, RecordReply DEF Ledger!Answer, Record
  <2>3. Ledger!Serve(r)
    BY <1>1, <2>1, <2>2, Admission DEF Ledger!Serve, TradeOf
  <2> QED BY <2>3 DEF Ledger!Next
<1>12. ASSUME NEW r \in Requests, Load(r) PROVE Ledger!Next
  <2>1. pc[r] \in InFlight /\ Refusal(input[r]) = 0 /\ input[r].op # "post"
    BY <1>12 DEF Load, InFlight, RowInv, ReqInv
  <2>2. Ledger!Admissible(input[r]) /\ input[r].op = "get" /\ UNCHANGED <<input, rows>>
    BY <1>1, <1>12, <2>1, Admission DEF Load
  <2>3. CASE rows[TradeOf(r)] = None
    BY <1>3, <1>12, <2>1, <2>2, <2>3 DEF Load
  <2>4. CASE rows[TradeOf(r)] # None /\ rows[TradeOf(r)].user # input[r].token
    BY <1>3, <1>12, <2>1, <2>2, <2>4 DEF Load
  <2>5. CASE rows[TradeOf(r)] # None /\ rows[TradeOf(r)].user = input[r].token
    <3>1. Reply(r, 200) /\ loaded' = [loaded EXCEPT ![r] = rows[TradeOf(r)]]
      BY <1>12, <2>5 DEF Load
    <3>2. loaded'[r] = rows[TradeOf(r)] /\ \A q \in Requests \ {r} : loaded'[q] = loaded[q]
      BY <3>1 DEF TypeInv, TypeOK
    <3>3. code[r] = 0
      BY <1>1, <2>1
    <3>4. Ledger!Answer(r, 200, rows[TradeOf(r)])
      BY <2>2, <3>1, <3>2, <3>3, RecordReply DEF Ledger!Answer, Record
    <3>5. Ledger!Serve(r)
      BY <1>1, <2>1, <2>2, <2>5, <3>4 DEF Ledger!Serve, TradeOf
    <3> QED BY <3>5 DEF Ledger!Next
  <2> QED BY <2>3, <2>4, <2>5
<1>13. ASSUME NEW r \in Requests, Publisher(r) PROVE Ledger!Next
  BY <1>0, <1>13 DEF Publisher, PublishOnce, Backoff, requestVars
<1>14. CASE Crash \/ Sigterm \/ Exit \/ Restart
  BY <1>0, <1>14 DEF Crash, Sigterm, Exit, Die, Restart, requestVars
<1> QED
  BY <1>2, <1>4, <1>6, <1>7, <1>8, <1>9, <1>10, <1>11, <1>12, <1>13, <1>14 DEF Next, Handler

(* The handlers implement the idempotent store of TradeLedger (LedgerSpec   *)
(* of TradeIntake): a trade id is written once, by an admissible post, and  *)
(* every 200 answer carries the record stored under the id it names,        *)
(* whatever crashes, lost replies and racing requests do.                   *)
THEOREM LedgerRefined == Spec => LedgerSpec
<1>1. Init => Ledger!Init
  BY DEF Init, Ledger!Init
<1>2. TypeInv /\ RowInv /\ [Next]_vars => [Ledger!Next]_(Ledger!vars)
  <2>1. UNCHANGED vars => UNCHANGED Ledger!vars
    BY DEF vars, requestVars, Ledger!vars
  <2> QED BY <2>1, LedgerStep
<1> QED BY <1>1, <1>2, TypeInvariant, RowInvariant, PTL DEF Spec, LedgerSpec, Ledger!Spec

----------------------------------------------------------------------------
(* Which request created a row, and what its publisher may have appended.   *)

Origin(q) ==
    /\ pub[q] # "none" => inserted[q]
    /\ inserted[q] => /\ pc[q] \in {"publish", "reply", "answered", "lost"}
                      /\ rows[TradeOf(q)] = input[q]
                      /\ loaded[q] = input[q]
    /\ pc[q] = "publish" => pub[q] = "none"

OneWriter == \A p, q \in Requests :
                inserted[p] /\ inserted[q] /\ TradeOf(p) = TradeOf(q) => p = q

OriginInv == (\A q \in Requests : Origin(q)) /\ OneWriter

Kept(q) == Untouched(q) /\ inserted'[q] = inserted[q] /\ pub'[q] = pub[q]

LEMMA Writer ==
    ASSUME TypeInv, OriginInv, NEW q \in Requests, inserted[q]
    PROVE  /\ input[q] \in Bodies /\ TradeOf(q) \in Trades
           /\ input[q] # None /\ rows[TradeOf(q)] # None
<1>1. pc[q] # "unsent" /\ rows[TradeOf(q)] = input[q]
  BY DEF OriginInv, Origin
<1> QED BY <1>1, BodiesAssumption DEF TypeInv, TradeOf

LEMMA OriginFrame ==
    ASSUME TypeInv, OriginInv, RowsKept, NEW q \in Requests, Kept(q)
    PROVE  Origin(q)'
<1>1. Origin(q) /\ TradeOf(q)' = TradeOf(q)
  BY DEF OriginInv, Kept, Untouched, TradeOf
<1>2. inserted[q] => rows'[TradeOf(q)] = rows[TradeOf(q)]
  BY Writer DEF RowsKept
<1> QED BY <1>1, <1>2 DEF Origin, Kept, Untouched

LEMMA OneWriterFrame ==
    ASSUME OneWriter, \A q \in Requests : inserted'[q] => inserted[q] /\ input'[q] = input[q]
    PROVE  OneWriter'
BY DEF OneWriter, TradeOf

(* A step of r alone that neither creates a row nor ends a publisher.       *)
LEMMA OriginReader ==
    ASSUME TypeInv, OriginInv, RowsKept, NEW r \in Requests, ~inserted[r],
           UNCHANGED <<inserted, pub>>,
           \A q \in Requests \ {r} : Untouched(q)
    PROVE  OriginInv'
<1>1. ASSUME NEW q \in Requests PROVE Origin(q)'
  <2>1. CASE q = r
    BY <2>1 DEF OriginInv, Origin
  <2>2. CASE q # r
    BY <2>2, OriginFrame DEF Kept
  <2> QED BY <2>1, <2>2
<1>2. \A q \in Requests : inserted'[q] => inserted[q] /\ input'[q] = input[q]
  BY DEF Untouched
<1>3. OneWriter'
  BY <1>2, OneWriterFrame DEF OriginInv
<1> QED BY <1>1, <1>3 DEF OriginInv

LEMMA OriginInvariant == Spec => []OriginInv
<1>1. Init => OriginInv
  BY DEF Init, OriginInv, OneWriter, Origin
<1>2. TypeInv /\ OriginInv /\ [Next]_vars => OriginInv'
  <2> SUFFICES ASSUME TypeInv, OriginInv, [Next]_vars PROVE OriginInv'
    OBVIOUS
  <2>0. ASSUME UNCHANGED rows PROVE RowsKept
    BY <2>0 DEF RowsKept
  <2>1. \A r \in Requests : pc[r] \in {"unsent", "received", "insert", "fetch", "load"} => ~inserted[r]
    BY DEF OriginInv, Origin
  <2>2. ASSUME UNCHANGED <<input, inserted>>, \A q \in Requests : Origin(q)' PROVE OriginInv'
    BY <2>2, OneWriterFrame DEF OriginInv
  <2>3. ASSUME NEW r \in Requests, NEW b \in Bodies, Submit(r, b) PROVE OriginInv'
    <3>1. \A q \in Requests \ {r} : Untouched(q)
      BY <2>3 DEF Submit, Untouched, TypeInv, TypeOK
    <3> QED BY <2>0, <2>1, <2>3, <3>1, OriginReader DEF Submit
  <2>4. ASSUME NEW r \in Requests, Check(r) PROVE OriginInv'
    <3>1. \A q \in Requests \ {r} : Untouched(q)
      BY <2>4 DEF Check, Reply, Untouched, TypeInv, TypeOK
    <3> QED BY <2>0, <2>1, <2>4, <3>1, OriginReader DEF Check
  <2>5. ASSUME NEW r \in Requests, Insert(r) PROVE OriginInv'
    <3>1. /\ RowsKept /\ ~inserted[r] /\ UNCHANGED <<input, code, pub>>
          /\ input[r] \in Bodies /\ TradeOf(r) \in Trades /\ TradeOf(r)' = TradeOf(r)
      BY <2>1, <2>5, StoreRowKeeps, BodiesAssumption DEF Insert, TypeInv, TradeOf
    <3>2. \A q \in Requests \ {r} : Untouched(q) /\ inserted'[q] = inserted[q]
      BY <2>5 DEF Insert, Untouched, TypeInv, TypeOK
    <3>3. CASE rows[TradeOf(r)] # None
      BY <2>5, <3>1, <3>2, <3>3, OriginReader DEF Insert
    <3>4. CASE rows[TradeOf(r)] = None
      <4>1. /\ rows'[TradeOf(r)] = input[r] /\ loaded'[r] = input[r]
            /\ inserted'[r] = TRUE /\ pc'[r] = "publish"
        BY <2>5, <3>1, <3>4 DEF Insert, StoreRow, TypeInv, TypeOK
      <4>2. ASSUME NEW q \in Requests PROVE Origin(q)'
        <5>1. CASE q = r
          BY <3>1, <4>1, <5>1 DEF OriginInv, Origin
        <5>2. CASE q # r
          BY <3>1, <3>2, <5>2, OriginFrame DEF Kept
        <5> QED BY <5>1, <5>2
      <4>3. \A q \in Requests : inserted[q] => TradeOf(q) # TradeOf(r)
        BY <3>4, Writer
      <4>4. ASSUME NEW p \in Requests, NEW q \in Requests,
                   inserted'[p], inserted'[q], TradeOf(p)' = TradeOf(q)'
            PROVE p = q
        <5>1. TradeOf(p) = TradeOf(q)
          BY <3>1, <4>4 DEF TradeOf
        <5>2. CASE p # r /\ q # r
          BY <3>2, <4>4, <5>1, <5>2 DEF OriginInv, OneWriter
        <5>3. CASE p = r \/ q = r
          BY <3>2, <4>3, <4>4, <5>1, <5>3
        <5> QED BY <5>2, <5>3
      <4>5. OneWriter'
        BY <4>4 DEF OneWriter
      <4> QED BY <4>2, <4>5 DEF OriginInv
    <3> QED BY <3>3, <3>4
  <2>6. ASSUME NEW r \in Requests, InsertUnheard(r) PROVE OriginInv'
    <3>1. \A q \in Requests \ {r} : Untouched(q)
      BY <2>6 DEF InsertUnheard, Reply, Untouched, TypeInv, TypeOK
    <3> QED BY <2>1, <2>6, <3>1, StoreRowKeeps, OriginReader DEF InsertUnheard
  <2>7. ASSUME NEW r \in Requests, Fetch(r) PROVE OriginInv'
    <3>1. \A q \in Requests \ {r} : Untouched(q)
      BY <2>7 DEF Fetch, Reply, Untouched, TypeInv, TypeOK
    <3> QED BY <2>0, <2>1, <2>7, <3>1, OriginReader DEF Fetch
  <2>8. ASSUME NEW r \in Requests, StatementFails(r) PROVE OriginInv'
    <3>1. \A q \in Requests \ {r} : Untouched(q)
      BY <2>8 DEF StatementFails, Reply, Untouched, TypeInv, TypeOK
    <3> QED BY <2>0, <2>1, <2>8, <3>1, OriginReader DEF StatementFails
  <2>9. ASSUME NEW r \in Requests, Load(r) PROVE OriginInv'
    <3>1. \A q \in Requests \ {r} : Untouched(q)
      BY <2>9 DEF Load, Reply, Untouched, TypeInv, TypeOK
    <3> QED BY <2>0, <2>1, <2>9, <3>1, OriginReader DEF Load
  <2>10. ASSUME NEW r \in Requests, StartPublisher(r) PROVE OriginInv'
    <3>1. /\ UNCHANGED <<input, rows, loaded, inserted, code>>
          /\ pc[r] = "publish" /\ pc'[r] = "reply"
          /\ \A q \in Requests \ {r} : pc'[q] = pc[q] /\ pub'[q] = pub[q]
      BY <2>10 DEF StartPublisher, TypeInv, TypeOK
    <3>2. ~inserted[r] => pub'[r] = "none"
      BY <2>10 DEF StartPublisher, TypeInv, TypeOK, OriginInv, Origin
    <3>3. ASSUME NEW q \in Requests PROVE Origin(q)'
      <4>1. CASE q = r
        BY <3>1, <3>2, <4>1 DEF OriginInv, Origin, TradeOf
      <4>2. CASE q # r
        BY <2>0, <3>1, <4>2, OriginFrame DEF Kept, Untouched
      <4> QED BY <4>1, <4>2
    <3> QED BY <2>2, <3>1, <3>3
  <2>11. ASSUME NEW r \in Requests, Respond(r) PROVE OriginInv'
    <3>1. ASSUME NEW q \in Requests PROVE Origin(q)'
      <4>1. UNCHANGED <<input, rows, loaded, inserted, pub>> /\ TradeOf(q)' = TradeOf(q)
        BY <2>11 DEF Respond, TradeOf
      <4>2. pc'[q] = pc[q] \/ (pc'[q] = "answered" /\ pc[q] = "reply")
        <5>1. /\ pc[r] = "reply" /\ pc'[r] = "answered"
              /\ \A p \in Requests \ {r} : pc'[p] = pc[p]
          BY <2>11 DEF Respond, Reply, TypeInv, TypeOK
        <5> QED BY <5>1
      <4> QED BY <4>1, <4>2 DEF OriginInv, Origin
    <3> QED BY <2>2, <2>11, <3>1 DEF Respond
  <2>12. ASSUME NEW r \in Requests, UNCHANGED <<requestVars, rows>>, pub[r] # "none",
                \A q \in Requests \ {r} : pub'[q] = pub[q]
         PROVE OriginInv'
    <3>1. ASSUME NEW q \in Requests PROVE Origin(q)'
      <4>1. UNCHANGED <<input, rows, loaded, inserted, pc>> /\ TradeOf(q)' = TradeOf(q)
        BY <2>12 DEF requestVars, TradeOf
      <4> QED BY <2>12, <4>1 DEF OriginInv, Origin
    <3> QED BY <2>2, <2>12, <3>1 DEF requestVars
  <2>13. ASSUME NEW r \in Requests, PublishOnce(r) PROVE OriginInv'
    <3>1. \A q \in Requests \ {r} : pub'[q] = pub[q]
      BY <2>13 DEF PublishOnce, TypeInv, TypeOK
    <3> QED BY <2>12, <2>13, <3>1 DEF PublishOnce
  <2>14. ASSUME NEW r \in Requests, Backoff(r) PROVE OriginInv'
    <3>1. \A q \in Requests \ {r} : pub'[q] = pub[q]
      BY <2>14 DEF Backoff, TypeInv, TypeOK
    <3> QED BY <2>12, <2>14, <3>1 DEF Backoff
  <2>15. ASSUME Die PROVE OriginInv'
    <3>1. ASSUME NEW q \in Requests PROVE Origin(q)'
      <4>1. /\ UNCHANGED <<input, rows, loaded, inserted>> /\ TradeOf(q)' = TradeOf(q)
            /\ pc'[q] = IF pc[q] \in InFlight THEN "lost" ELSE pc[q]
            /\ pub'[q] = IF pub[q] \in Publishing THEN "dropped" ELSE pub[q]
        BY <2>15 DEF Die, TradeOf
      <4> QED BY <4>1 DEF OriginInv, Origin, InFlight, Publishing
    <3> QED BY <2>2, <2>15, <3>1 DEF Die
  <2>16. ASSUME UNCHANGED <<requestVars, rows, pub>> PROVE OriginInv'
    BY <2>0, <2>2, <2>16, OriginFrame DEF Kept, Untouched, requestVars
  <2> QED
    BY <2>3, <2>4, <2>5, <2>6, <2>7, <2>8, <2>9, <2>10, <2>11, <2>13, <2>14, <2>15, <2>16
    DEF Next, Handler, Publisher, Crash, Exit, Sigterm, Restart, vars
<1> QED BY <1>1, <1>2, TypeInvariant, PTL DEF Spec

----------------------------------------------------------------------------
(* What is on the stream, by how far the creator's publisher has come.      *)

Event(r) == <<TradeOf(r), EventFor(input[r])>>

Budget(p) == CASE p \in {"none", "first"}     -> 0
               [] p \in {"backoff", "second"} -> Tries
               [] OTHER                       -> 2 * Tries

EventInv ==
    /\ \A e \in Trades \X {Opened, Closed} :
          events[e] > 0 => \E r \in Requests : inserted[r] /\ Event(r) = e
    /\ \A r \in Requests :
          inserted[r] => /\ events[Event(r)] <= Budget(pub[r])
                         /\ pub[r] = "done" => events[Event(r)] > 0

LEMMA Budgets == /\ Tries \in Nat
                 /\ \A p : /\ Budget(p) \in Nat
                           /\ Budget(p) <= 2 * Tries
                           /\ p \in {"none", "first"} => Budget(p) = 0
                           /\ p \in {"backoff", "second"} => Budget(p) = Tries
                           /\ p \in {"done", "dropped"} => Budget(p) = 2 * Tries
<1>1. Tries \in Nat
  BY BoundsAssumption DEF Tries
<1> QED BY <1>1 DEF Budget

LEMMA EventType ==
    ASSUME TypeInv, OriginInv, NEW r \in Requests, inserted[r]
    PROVE  /\ Event(r) \in Trades \X {Opened, Closed}
           /\ events[Event(r)] \in Nat
BY Writer DEF Event, EventFor, TypeInv, TypeOK

LEMMA EventFrame ==
    ASSUME EventInv, UNCHANGED <<events, inserted>>,
           \A q \in Requests : inserted[q] =>
               /\ input'[q] = input[q]
               /\ pub'[q] = pub[q] \/ (pub'[q] = "first" /\ pub[q] = "none")
    PROVE  EventInv'
<1>1. \A q \in Requests : inserted[q] => Event(q)' = Event(q)
  BY DEF Event, TradeOf
<1>2. \A q \in Requests : inserted[q] => /\ Budget(pub'[q]) = Budget(pub[q])
                                         /\ pub'[q] = "done" => pub[q] = "done"
  BY Budgets
<1> QED BY <1>1, <1>2 DEF EventInv

LEMMA EventInvariant == Spec => []EventInv
<1>1. Init => EventInv
  BY DEF Init, EventInv
<1>2. TypeInv /\ OriginInv /\ EventInv /\ [Next]_vars => EventInv'
  <2> SUFFICES ASSUME TypeInv, OriginInv, EventInv, [Next]_vars PROVE EventInv'
    OBVIOUS
  <2> USE DEF requestVars
  <2>1. ASSUME UNCHANGED <<events, inserted, input, pub>> PROVE EventInv'
    BY <2>1, EventFrame
  <2>2. ASSUME NEW r \in Requests, NEW b \in Bodies, Submit(r, b) PROVE EventInv'
    <3>1. \A q \in Requests : inserted[q] => input'[q] = input[q]
      BY <2>2 DEF Submit, OriginInv, Origin, TypeInv, TypeOK
    <3> QED BY <2>2, <3>1, EventFrame DEF Submit
  <2>3. ASSUME NEW r \in Requests, Insert(r) PROVE EventInv'
    <3>1. ~inserted[r] /\ pub[r] = "none" /\ UNCHANGED <<input, pub, events>>
      BY <2>3 DEF Insert, OriginInv, Origin
    <3>2. CASE rows[TradeOf(r)] # None
      BY <2>1, <2>3, <3>1, <3>2 DEF Insert
    <3>3. CASE rows[TradeOf(r)] = None
      <4>1. inserted'[r] = TRUE /\ \A q \in Requests \ {r} : inserted'[q] = inserted[q]
        BY <2>3, <3>3 DEF Insert, TypeInv, TypeOK
      <4>2. \A q \in Requests : Event(q)' = Event(q)
        BY <3>1 DEF Event, TradeOf
      <4>3. Event(r) \in Trades \X {Opened, Closed}
        BY <2>3, BodiesAssumption DEF Insert, TypeInv, Event, EventFor, TradeOf
      <4>4. events[Event(r)] = 0
        <5>1. \A q \in Requests : inserted[q] => TradeOf(q) # TradeOf(r)
          BY <3>3, Writer
        <5>2. ~(events[Event(r)] > 0)
          BY <4>3, <5>1 DEF EventInv, Event
        <5>3. events[Event(r)] \in Nat
          BY <4>3 DEF TypeInv, TypeOK
        <5> QED BY <5>2, <5>3
      <4>5. Budget(pub[r]) = 0
        BY <3>1, Budgets
      <4> QED BY <3>1, <4>1, <4>2, <4>4, <4>5 DEF EventInv
    <3> QED BY <3>2, <3>3
  <2>4. ASSUME NEW r \in Requests, StartPublisher(r) PROVE EventInv'
    <3>1. \A q \in Requests : pub'[q] = pub[q] \/ (pub'[q] = "first" /\ pub[q] = "none")
      BY <2>4 DEF StartPublisher, OriginInv, Origin, TypeInv, TypeOK
    <3> QED BY <2>4, <3>1, EventFrame DEF StartPublisher
  <2>5. ASSUME UNCHANGED <<events, inserted, input>>,
               \A q \in Requests : pub'[q] = pub[q] \/ pub'[q] = "dropped"
                                   \/ (pub'[q] = "second" /\ pub[q] = "backoff")
        PROVE EventInv'
    <3>1. \A q \in Requests : Event(q)' = Event(q)
      BY <2>5 DEF Event, TradeOf
    <3>2. ASSUME NEW q \in Requests
          PROVE Budget(pub[q]) <= Budget(pub'[q]) /\ (pub'[q] = "done" => pub[q] = "done")
      BY <2>5, Budgets
    <3>3. \A q \in Requests : inserted[q] => events[Event(q)] <= Budget(pub'[q])
      BY <3>2, EventType, Budgets DEF EventInv
    <3> QED BY <2>5, <3>1, <3>2, <3>3 DEF EventInv
  <2>6. ASSUME NEW r \in Requests, Backoff(r) PROVE EventInv'
    BY <2>5, <2>6 DEF Backoff, TypeInv, TypeOK
  <2>7. ASSUME Die PROVE EventInv'
    BY <2>5, <2>7 DEF Die
  <2>8. ASSUME NEW r \in Requests, PublishOnce(r) PROVE EventInv'
    <3>1. inserted[r] /\ loaded[r] = input[r] /\ UNCHANGED <<input, inserted>>
      BY <2>8 DEF PublishOnce, OriginInv, Origin
    <3> PICK n \in 0 .. Tries :
          /\ events' = [events EXCEPT ![Event(r)] = @ + n]
          /\ \/ n > 0 /\ pub' = [pub EXCEPT ![r] = "done"]
             \/ pub[r] = "first" /\ pub' = [pub EXCEPT ![r] = "backoff"]
             \/ pub' = [pub EXCEPT ![r] = "dropped"]
      BY <2>8, <3>1 DEF PublishOnce, Event
    <3>2. n \in Nat /\ n <= Tries /\ Tries \in Nat
      BY Budgets
    <3>3. \A q \in Requests : Event(q)' = Event(q)
      BY <3>1 DEF Event, TradeOf
    <3>4. Event(r) \in Trades \X {Opened, Closed} /\ events[Event(r)] \in Nat
      BY <3>1, EventType
    <3>5. /\ events'[Event(r)] = events[Event(r)] + n
          /\ \A e \in Trades \X {Opened, Closed} : e # Event(r) => events'[e] = events[e]
      BY <3>4 DEF TypeInv, TypeOK
    <3>6. ASSUME NEW e \in Trades \X {Opened, Closed}, events'[e] > 0
          PROVE \E q \in Requests : inserted[q] /\ Event(q) = e
      BY <3>1, <3>5, <3>6 DEF EventInv
    <3>7. ASSUME NEW q \in Requests, inserted[q]
          PROVE /\ events'[Event(q)] <= Budget(pub'[q])
                /\ pub'[q] = "done" => events'[Event(q)] > 0
      <4>1. CASE q # r
        <5>1. Event(q) # Event(r)
          BY <3>1, <3>7, <4>1 DEF Event, OriginInv, OneWriter
        <5>2. pub'[q] = pub[q]
          BY <4>1 DEF TypeInv, TypeOK
        <5> QED BY <3>5, <3>7, <5>1, <5>2, EventType DEF EventInv
      <4>2. CASE q = r
        <5>1. events[Event(r)] <= Budget(pub[r])
          BY <3>1 DEF EventInv
        <5>2. \/ n > 0 /\ pub'[r] = "done"
              \/ pub[r] = "first" /\ pub'[r] = "backoff"
              \/ pub'[r] = "dropped"
          BY DEF TypeInv, TypeOK
        <5>3. pub[r] \in {"first", "second"}
          BY <2>8 DEF PublishOnce
        <5>4. events[Event(r)] <= Tries /\ (pub[r] = "first" => events[Event(r)] = 0)
          BY <3>2, <3>4, <5>1, <5>3, Budgets
        <5>5. events'[Event(r)] <= 2 * Tries /\ (pub[r] = "first" => events'[Event(r)] <= Tries)
          BY <3>2, <3>4, <3>5, <5>4
        <5>6. n > 0 => events'[Event(r)] > 0
          BY <3>2, <3>4, <3>5
        <5> QED BY <4>2, <5>2, <5>5, <5>6, Budgets
      <4> QED BY <4>1, <4>2
    <3> QED BY <3>1, <3>3, <3>6, <3>7 DEF EventInv
  <2> QED
    BY <2>1, <2>2, <2>3, <2>4, <2>6, <2>7, <2>8
    DEF Next, Handler, Publisher, Check, InsertUnheard, Fetch, StatementFails, Respond, Load,
        Crash, Exit, Sigterm, Restart, vars
<1> QED BY <1>1, <1>2, TypeInvariant, OriginInvariant, PTL DEF Spec

(* No event on the stream misreports its trade (EventMatchesRow of          *)
(* TradeIntake): the one publisher of a trade announces the row its request *)
(* stored, and that row never changes.                                      *)
THEOREM EventsMatch == Spec => []EventMatchesRow
<1>1. TypeInv /\ OriginInv /\ EventInv => EventMatchesRow
  <2> SUFFICES ASSUME TypeInv, OriginInv, EventInv,
                      NEW t \in Trades, NEW k \in {Opened, Closed}, events[<<t, k>>] > 0
               PROVE  /\ rows[t] # None
                      /\ k = Closed <=> rows[t].status = "closed"
    BY DEF EventMatchesRow
  <2>1. PICK r \in Requests : inserted[r] /\ Event(r) = <<t, k>>
    BY DEF EventInv
  <2>2. TradeOf(r) = t /\ EventFor(input[r]) = k
    BY <2>1 DEF Event
  <2>3. rows[t] # None /\ rows[t] = input[r]
    BY <2>1, <2>2, Writer DEF OriginInv, Origin
  <2> QED BY <2>2, <2>3 DEF EventFor, Opened, Closed
<1> QED BY <1>1, TypeInvariant, OriginInvariant, EventInvariant, PTL

(* Racing and repeated posts never announce a trade more often than one     *)
(* publisher can (EventsBounded of TradeIntake): twice the tries of the     *)
(* Redis client.                                                            *)
THEOREM EventCount == Spec => []EventsBounded
<1>1. TypeInv /\ OriginInv /\ EventInv => EventsBounded
  <2> SUFFICES ASSUME TypeInv, OriginInv, EventInv,
                      NEW t \in Trades, NEW k \in {Opened, Closed}
               PROVE  events[<<t, k>>] <= 2 * Tries
    BY DEF EventsBounded
  <2>1. events[<<t, k>>] \in Nat /\ Tries \in Nat
    BY Budgets DEF TypeInv, TypeOK
  <2>2. CASE events[<<t, k>>] > 0
    <3>1. PICK r \in Requests : inserted[r] /\ Event(r) = <<t, k>>
      BY <2>2 DEF EventInv
    <3>2. events[<<t, k>>] <= Budget(pub[r]) /\ Budget(pub[r]) <= 2 * Tries /\ Budget(pub[r]) \in Nat
      BY <3>1, Budgets DEF EventInv
    <3> QED BY <2>1, <3>2
  <2>3. CASE ~(events[<<t, k>>] > 0)
    BY <2>1, <2>3
  <2> QED BY <2>2, <2>3
<1> QED BY <1>1, TypeInvariant, OriginInvariant, EventInvariant, PTL

----------------------------------------------------------------------------
(* Behaviours without faults.                                               *)

Creator(t) == \E r \in Requests : inserted[r] /\ TradeOf(r) = t

WriterInv == faults = 0 =>
    /\ api = "up"
    /\ \A t \in Trades : rows[t] # None => Creator(t)
    /\ \A r \in Requests : inserted[r] /\ pub[r] = "none" => pc[r] = "publish"

LEMMA WriterFrame ==
    ASSUME WriterInv, UNCHANGED <<api, rows, inserted, faults>>,
           \A q \in Requests : inserted[q] =>
               /\ input'[q] = input[q]
               /\ pub'[q] = pub[q] \/ pub'[q] # "none"
               /\ pc'[q] = pc[q] \/ pub'[q] # "none"
    PROVE  WriterInv'
<1>1. \A t \in Trades : Creator(t) => Creator(t)'
  BY DEF Creator, TradeOf
<1> QED BY <1>1 DEF WriterInv

LEMMA WriterInvariant == Spec => []WriterInv
<1>1. Init => WriterInv
  BY DEF Init, WriterInv
<1>2. TypeInv /\ OriginInv /\ WriterInv /\ [Next]_vars => WriterInv'
  <2> SUFFICES ASSUME TypeInv, OriginInv, WriterInv, [Next]_vars PROVE WriterInv'
    OBVIOUS
  <2> USE DEF requestVars
  <2>1. ASSUME Fault PROVE WriterInv'
    BY <2>1 DEF Fault, WriterInv, TypeInv, TypeOK
  <2>2. ASSUME NEW r \in Requests, ~inserted[r], UNCHANGED <<api, rows, inserted, pub, faults>>,
               \A q \in Requests \ {r} : input'[q] = input[q] /\ pc'[q] = pc[q]
        PROVE WriterInv'
    BY <2>2, WriterFrame
  <2>3. \A r \in Requests : pc[r] \in {"unsent", "received", "insert", "fetch", "load"} => ~inserted[r]
    BY DEF OriginInv, Origin
  <2>4. ASSUME NEW r \in Requests, NEW b \in Bodies, Submit(r, b) PROVE WriterInv'
    BY <2>2, <2>3, <2>4 DEF Submit, TypeInv, TypeOK
  <2>5. ASSUME NEW r \in Requests, Check(r) PROVE WriterInv'
    BY <2>2, <2>3, <2>5 DEF Check, Reply, TypeInv, TypeOK
  <2>6. ASSUME NEW r \in Requests, Insert(r) PROVE WriterInv'
    <3>1. \A q \in Requests \ {r} : pc'[q] = pc[q]
      BY <2>6 DEF Insert, TypeInv, TypeOK
    <3>2. CASE rows[TradeOf(r)] # None
      BY <2>2, <2>3, <2>6, <3>1, <3>2, StoreRowKeeps DEF Insert
    <3>3. CASE rows[TradeOf(r)] = None
      <4>1. /\ inserted'[r] = TRUE /\ pc'[r] = "publish"
            /\ \A q \in Requests \ {r} : inserted'[q] = inserted[q]
            /\ UNCHANGED <<api, input, pub, faults>>
        BY <2>6, <3>3 DEF Insert, TypeInv, TypeOK
      <4>2. \A t \in Trades \ {TradeOf(r)} : rows'[t] = rows[t]
        BY <2>6 DEF Insert, StoreRow, TypeInv, TypeOK
      <4>3. \A q \in Requests : inserted[q] => inserted'[q]
        BY <4>1
      <4>4. \A t \in Trades : Creator(t) => Creator(t)'
        BY <4>1, <4>3 DEF Creator, TradeOf
      <4>5. Creator(TradeOf(r))'
        BY <4>1 DEF Creator, TradeOf
      <4>6. ASSUME NEW t \in Trades, faults = 0, rows'[t] # None PROVE Creator(t)'
        <5>1. CASE t = TradeOf(r)
          BY <4>1, <5>1 DEF Creator, TradeOf
        <5>2. CASE t # TradeOf(r)
          BY <4>2, <4>4, <4>6, <5>2 DEF WriterInv
        <5> QED BY <5>1, <5>2
      <4> QED BY <3>1, <4>1, <4>6 DEF WriterInv
    <3> QED BY <3>2, <3>3
  <2>7. ASSUME NEW r \in Requests, Fetch(r) PROVE WriterInv'
    BY <2>2, <2>3, <2>7 DEF Fetch, Reply, TypeInv, TypeOK
  <2>8. ASSUME NEW r \in Requests, Load(r) PROVE WriterInv'
    BY <2>2, <2>3, <2>8 DEF Load, Reply, TypeInv, TypeOK
  <2>9. ASSUME NEW r \in Requests, StartPublisher(r) PROVE WriterInv'
    <3>1. \A q \in Requests : inserted[q] =>
            /\ pub'[q] = pub[q] \/ pub'[q] # "none"
            /\ pc'[q] = pc[q] \/ pub'[q] # "none"
      BY <2>9 DEF StartPublisher, TypeInv, TypeOK
    <3> QED BY <2>9, <3>1, WriterFrame DEF StartPublisher
  <2>10. ASSUME NEW r \in Requests, Respond(r) PROVE WriterInv'
    <3>1. \A q \in Requests : pc'[q] = pc[q] \/ pc[q] = "reply"
      BY <2>10 DEF Respond, Reply, TypeInv, TypeOK
    <3>2. \A q \in Requests : faults = 0 /\ inserted[q] /\ pub'[q] = "none" => pc'[q] = pc[q]
      BY <2>10, <3>1 DEF Respond, WriterInv
    <3>3. \A t \in Trades : Creator(t)' <=> Creator(t)
      BY <2>10 DEF Respond, Creator, TradeOf
    <3> QED BY <2>10, <3>2, <3>3 DEF Respond, WriterInv
  <2>11. ASSUME NEW r \in Requests, Publisher(r) PROVE WriterInv'
    <3>1. \A q \in Requests : pub'[q] = pub[q] \/ pub'[q] # "none"
      BY <2>11 DEF Publisher, PublishOnce, Backoff, TypeInv, TypeOK
    <3>2. UNCHANGED <<api, input, pc, rows, inserted, faults>>
      BY <2>11 DEF Publisher, PublishOnce, Backoff
    <3> QED BY <3>1, <3>2, WriterFrame
  <2>12. CASE Exit
    BY <2>12 DEF Exit, WriterInv
  <2>13. CASE Restart
    BY <2>13 DEF Restart, WriterInv
  <2>14. CASE UNCHANGED vars
    BY <2>14, WriterFrame DEF vars
  <2> QED
    BY <2>1, <2>4, <2>5, <2>6, <2>7, <2>8, <2>9, <2>10, <2>11, <2>12, <2>13, <2>14
    DEF Next, Handler, InsertUnheard, StatementFails, Crash, Sigterm
<1> QED BY <1>1, <1>2, TypeInvariant, OriginInvariant, PTL DEF Spec

(* As long as nothing fails, a stored trade is announced or its creator is  *)
(* still about to announce it, unless its publisher gave up on Redis        *)
(* (WriterAnnounces of TradeIntake): no race between posts loses the event. *)
THEOREM WriterCorrect == Spec => []WriterAnnounces
<1>1. TypeInv /\ OriginInv /\ EventInv /\ WriterInv => WriterAnnounces
  <2> SUFFICES ASSUME TypeInv, OriginInv, EventInv, WriterInv,
                      NEW t \in Trades, faults = 0, rows[t] # None,
                      \A k \in {Opened, Closed} : events[<<t, k>>] = 0
               PROVE  \E r \in Requests : /\ inserted[r] /\ input[r] = rows[t]
                                          /\ \/ pc[r] = "publish"
                                             \/ pub[r] \in Publishing \cup {"dropped"}
    BY DEF WriterAnnounces
  <2>1. PICK r \in Requests : inserted[r] /\ TradeOf(r) = t
    BY DEF WriterInv, Creator
  <2>2. input[r] = rows[t]
    BY <2>1 DEF OriginInv, Origin
  <2>3. events[Event(r)] = 0
    BY <2>1 DEF Event, EventFor
  <2>4. pub[r] # "done"
    BY <2>1, <2>3 DEF EventInv
  <2>5. pub[r] = "none" => pc[r] = "publish"
    BY <2>1 DEF WriterInv
  <2>6. pub[r] \in {"none", "done", "dropped"} \cup Publishing
    BY DEF TypeInv, TypeOK
  <2> QED BY <2>1, <2>2, <2>4, <2>5, <2>6
<1> QED BY <1>1, TypeInvariant, OriginInvariant, EventInvariant, WriterInvariant, PTL
=============================================================================
