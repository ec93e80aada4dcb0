---------------------------- MODULE TradeLedger ----------------------------
(***************************************************************************)
(* What the trade resource promises its clients, as one idempotent store:  *)
(* the first admissible POST of a trade id decides its record for good,    *)
(* nothing else ever writes one, every 200 carries the record stored under *)
(* the id, a GET sees it only with its owner's token, and an inadmissible  *)
(* request is refused.  A 500, or no answer at all, promises nothing: the  *)
(* trade may have been stored all the same.                                *)
(***************************************************************************)
EXTENDS Naturals

CONSTANTS Requests,   \* the HTTP requests of a behaviour
          Bodies,     \* what a request may carry, see TradeIntake
          Trades,     \* the trade ids
          None        \* no record, no body, no token

VARIABLES input,      \* what each request carries
          rows,       \* the record stored under each trade id
          code,       \* the status each request was answered with, 0 for none
          record      \* the trade in a 200 answer

vars == <<input, rows, code, record>>

Admissible(b) == /\ b.valid
                 /\ b.token # None
                 /\ b.op = "post" => b.token = b.user

Init == /\ input = [r \in Requests |-> None]
        /\ rows = [t \in Trades |-> None]
        /\ code = [r \in Requests |-> 0]
        /\ record = [r \in Requests |-> None]

Submit(r, b) == /\ input[r] = None
                /\ input' = [input EXCEPT ![r] = b]
                /\ UNCHANGED <<rows, code, record>>

Pending(r) == input[r] # None /\ code[r] = 0

Store(r) == /\ Pending(r)
            /\ input[r].op = "post" /\ Admissible(input[r])
            /\ rows[input[r].trade] = None
            /\ rows' = [rows EXCEPT ![input[r].trade] = input[r]]
            /\ UNCHANGED <<input, code, record>>

(* A POST whose reply from the database was lost has stored its record and  *)
(* is answered 500 in one step.                                             *)
StoreAndFail(r) == /\ Pending(r)
                   /\ input[r].op = "post" /\ Admissible(input[r])
                   /\ rows[input[r].trade] = None
                   /\ rows' = [rows EXCEPT ![input[r].trade] = input[r]]
                   /\ code' = [code EXCEPT ![r] = 500]
                   /\ UNCHANGED <<input, record>>

Answer(r, c, b) == /\ code' = [code EXCEPT ![r] = c]
                   /\ record' = [record EXCEPT ![r] = b]
                   /\ UNCHANGED <<input, rows>>

Serve(r) == /\ Pending(r) /\ Admissible(input[r])
            /\ rows[input[r].trade] # None
            /\ input[r].op = "get" => rows[input[r].trade].user = input[r].token
            /\ Answer(r, 200, rows[input[r].trade])

Refuse(r, c) == /\ Pending(r)
                /\ \/ c \in {400, 401, 403} /\ ~Admissible(input[r])
                   \/ c = 403 /\ input[r].op = "get" /\ Admissible(input[r])
                              /\ rows[input[r].trade] # None
                              /\ rows[input[r].trade].user # input[r].token
                   \/ c = 404 /\ input[r].op = "get" /\ Admissible(input[r])
                              /\ rows[input[r].trade] = None
                   \/ c = 500 /\ Admissible(input[r])
                /\ Answer(r, c, None)

Next == \E r \in Requests : \/ \E b \in Bodies : Submit(r, b)
                            \/ Store(r)
                            \/ StoreAndFail(r)
                            \/ Serve(r)
                            \/ \E c \in {400, 401, 403, 404, 500} : Refuse(r, c)

Spec == Init /\ [][Next]_vars
=============================================================================
