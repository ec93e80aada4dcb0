--------------------------- MODULE StreamWorker ----------------------------
(***************************************************************************)
(* The asynchronous half of the trade journal: the Redis stream with its   *)
(* one consumer group (external, seen through the commands the code        *)
(* issues), internal/queue/consumer.go and the loop of                     *)
(* internal/worker/worker.go, for any number of worker processes.          *)
(*                                                                         *)
(* One action is one command to Redis together with the local code up to   *)
(* the next one, or one metric calculator.  XPENDING and XCLAIM are two    *)
(* commands, so ClaimStuck is two actions and the workers interleave       *)
(* between them.  A fault is a process crash, a command that Redis         *)
(* executed but whose reply was lost, or an acknowledgement that failed;   *)
(* MaxFaults bounds their number in a behaviour.  A calculator may fail    *)
(* any number of times: nothing bounds that but the dead-letter rule.      *)
(***************************************************************************)
EXTENDS TradeEvents, FiniteSets

CONSTANTS Workers,        \* worker processes, each a consumer of the group
          Kinds,          \* the kinds of entry producers append
          MaxEntries,     \* bound on the length of the stream
          BatchSize,      \* batchSize: COUNT of XREADGROUP and of XPENDING
          MaxDeliveries,  \* maxDeliveries: the dead-letter threshold
          MaxCopies,      \* copies one Publish with its retries may leave
          MaxFaults       \* bound on the faults of a behaviour

ASSUME BoundsAssumption ==
    /\ MaxEntries \in Nat
    /\ BatchSize \in Nat \ {0}
    /\ MaxDeliveries \in Nat \ {0, 1}  \* 1 would dead-letter a first delivery
    /\ MaxCopies \in Nat
    /\ MaxFaults \in Nat

ASSUME KindsAssumption == Kinds \subseteq EventTypes \cup Poison

ASSUME WorkersAssumption == IsFiniteSet(Workers)

VARIABLES
    stream,      \* the entries, oldest first; an entry's id is its position
    cursor,      \* last-delivered-id of the group
    pel,         \* the group's pending entries list
    deliveries,  \* Redis's delivery counter of each pending entry
    idle,        \* pending entries untouched for stuckIdleTime or longer
    phase,       \* where in Run each worker stands
    batch,       \* the ids a worker has listed, or has still to handle
    seen,        \* the DeliveryCount its Message values carry
    step,        \* the next calculator of the message in hand, 0 for none
    failed,      \* whether a calculator of the message in hand has failed
    faults,      \* faults spent so far
    applied,     \* history: calculators that have succeeded for an entry
    attempts,    \* history: how often process was entered for an entry
    fate         \* history: how an entry left the pending list

redisVars  == <<stream, cursor, pel, deliveries, idle>>
workerVars == <<phase, batch, seen, step, failed>>
history    == <<applied, attempts, fate>>
vars       == <<redisVars, workerVars, faults, history>>

Ids == 1 .. MaxEntries

Phases == {"down", "select", "read", "claim", "handle", "recover"}

Fates == {"live", "done", "dropped", "dead"}

----------------------------------------------------------------------------
(* The stream and its group, as Redis keeps them.                           *)

Copies(n) == [j \in 1 .. n |-> Detected]

(* The oldest n members of S.                                               *)
Oldest(S, n) == {i \in S : Cardinality({j \in S : j < i}) < n}

(* XREADGROUP ">": the next entries never delivered to the group.           *)
NextCursor == IF cursor + BatchSize <= Len(stream) THEN cursor + BatchSize
                                                  ELSE Len(stream)
NextBatch == (cursor + 1) .. NextCursor

Garbage(S) == {i \in S : stream[i] = Garbled}

(* Operators whose name ends in Bug are not part of the model: each is the  *)
(* definition after it with one plausible mistake, which some property      *)
(* listed in PROJECT.json tells from the code.                              *)

AckBug(S, f) == /\ pel' = pel \ S  \* a settled entry can still turn up as stuck
                /\ fate' = [i \in Ids |-> IF i \in S /\ i \in pel THEN f ELSE fate[i]]
                /\ UNCHANGED idle

(* XACK of the ids in S: the entries leave the pending list, for the reason *)
(* f the first time.  Acknowledging one that is gone already does nothing.  *)
Ack(S, f) == /\ pel' = pel \ S
             /\ idle' = idle \ S
             /\ fate' = [i \in Ids |-> IF i \in S /\ i \in pel THEN f ELSE fate[i]]

CanFault == faults < MaxFaults
Fault    == CanFault /\ faults' = faults + 1

(* A producer's XADD: the API after a new trade (a retried XADD appends     *)
(* twice), or another program that shares the stream.                       *)
Publish(k) == /\ Len(stream) < MaxEntries
              /\ stream' = Append(stream, k)
              /\ UNCHANGED <<cursor, pel, deliveries, idle, workerVars, faults, history>>

(* Thirty seconds go by without a delivery of a pending entry.              *)
GoIdle(i) == /\ i \in pel \ idle
             /\ idle' = idle \cup {i}
             /\ UNCHANGED <<stream, cursor, pel, deliveries, workerVars, faults, history>>

----------------------------------------------------------------------------
(* Run and Read.  Between two rounds a worker is in "select", where the     *)
(* ticker decides whether recoverStuck comes before Read; after             *)
(* recoverStuck it is in "read".                                            *)

(* The worker goes on with the messages S and the code after them.          *)
Handle(w, S, here, after) ==
    /\ batch' = [batch EXCEPT ![w] = S]
    /\ phase' = [phase EXCEPT ![w] = IF S = {} THEN after ELSE here]

(* Its messages S carry these delivery counts.                              *)
Note(w, S, count) ==
    seen' = [seen EXCEPT ![w] = [i \in Ids |-> IF i \in S THEN count[i] ELSE 0]]

Delivered(S) == [i \in Ids |-> IF i \in S THEN 1 ELSE deliveries[i]]

(* The undecodable entries of the batch are acknowledged inside Read, each  *)
(* on its own and with the error ignored: those in kept stay pending.       *)
Read(w) ==
    /\ phase[w] \in {"select", "read"}
    /\ \E kept \in SUBSET Garbage(NextBatch) :
         LET bad == Garbage(NextBatch) \ kept
         IN /\ IF kept = {} THEN UNCHANGED faults ELSE Fault
            /\ cursor' = NextCursor
            /\ pel' = pel \cup (NextBatch \ bad)
            /\ deliveries' = Delivered(NextBatch)
            /\ fate' = [i \in Ids |-> IF i \in bad THEN "dropped" ELSE fate[i]]
            /\ Handle(w, NextBatch \ Garbage(NextBatch), "handle", "select")
            /\ Note(w, NextBatch \ Garbage(NextBatch), [i \in Ids |-> 1])
    /\ UNCHANGED <<stream, idle, step, failed, applied, attempts>>

(* With NoAck set in XReadGroupArgs.                                        *)
ReadLostBug(w) ==
    /\ phase[w] \in {"select", "read"}
    /\ NextBatch # {}
    /\ Fault
    /\ cursor' = NextCursor
    /\ phase' = [phase EXCEPT ![w] = "select"]
    /\ UNCHANGED <<stream, pel, deliveries, idle, batch, seen, step, failed, history>>

(* XREADGROUP is executed but its reply never arrives: the entries are      *)
(* pending on a consumer that does not know of them.  Run backs off.        *)
ReadLost(w) ==
    /\ phase[w] \in {"select", "read"}
    /\ NextBatch # {}
    /\ Fault
    /\ cursor' = NextCursor
    /\ pel' = pel \cup NextBatch
    /\ deliveries' = Delivered(NextBatch)
    /\ phase' = [phase EXCEPT ![w] = "select"]
    /\ UNCHANGED <<stream, idle, batch, seen, step, failed, history>>

----------------------------------------------------------------------------
(* ClaimStuck.                                                              *)

(* Entries at the threshold are left out, as if somebody else gave them up. *)
ListPendingBug(w) ==
    LET S == {i \in idle : deliveries[i] < MaxDeliveries}
    IN /\ phase[w] = "select"
       /\ S # {}
       /\ batch' = [batch EXCEPT ![w] = Oldest(S, BatchSize)]
       /\ Note(w, Oldest(S, BatchSize), deliveries)
       /\ phase' = [phase EXCEPT ![w] = "claim"]
       /\ UNCHANGED <<redisVars, step, failed, faults, history>>

(* The ticker has fired and XPENDING lists the oldest idle entries with     *)
(* their delivery counts.  Nothing idle: recoverStuck returns at once.      *)
ListPending(w) ==
    /\ phase[w] = "select"
    /\ idle # {}
    /\ batch' = [batch EXCEPT ![w] = Oldest(idle, BatchSize)]
    /\ Note(w, Oldest(idle, BatchSize), deliveries)
    /\ phase' = [phase EXCEPT ![w] = "claim"]
    /\ UNCHANGED <<redisVars, step, failed, faults, history>>

(* XCLAIM takes the listed entries that are still pending and still idle,   *)
(* whoever has delivered or acknowledged the others in the meantime.        *)
Claimed(w) == batch[w] \cap idle

RedeliveredBug(S) == deliveries  \* XCLAIM with JUSTID

Redelivered(S) == [i \in Ids |-> deliveries[i] + (IF i \in S THEN 1 ELSE 0)]

Claim(w) ==
    /\ phase[w] = "claim"
    /\ \E kept \in SUBSET Garbage(Claimed(w)) :
         LET bad == Garbage(Claimed(w)) \ kept
         IN /\ IF kept = {} THEN UNCHANGED faults ELSE Fault
            /\ pel' = pel \ bad
            /\ idle' = idle \ Claimed(w)
            /\ fate' = [i \in Ids |-> IF i \in bad THEN "dropped" ELSE fate[i]]
            /\ deliveries' = Redelivered(Claimed(w))
            /\ Handle(w, Claimed(w) \ Garbage(Claimed(w)), "recover", "read")
            /\ Note(w, Claimed(w) \ Garbage(Claimed(w)), seen[w])
    /\ UNCHANGED <<stream, cursor, step, failed, applied, attempts>>

(* XPENDING or XCLAIM fails.  When it is the reply of an executed XCLAIM    *)
(* that is lost, the entries have been delivered once more, to nobody.      *)
ClaimLost(w) ==
    /\ phase[w] = "claim"
    /\ Fault
    /\ \/ UNCHANGED <<deliveries, idle>>
       \/ /\ deliveries' = Redelivered(Claimed(w))
          /\ idle' = idle \ Claimed(w)
    /\ Handle(w, {}, "recover", "read")
    /\ Note(w, {}, seen[w])
    /\ UNCHANGED <<stream, cursor, pel, step, failed, history>>

----------------------------------------------------------------------------
(* handle and process, one message after the other.                         *)

Handling(w) == phase[w] \in {"handle", "recover"}

(* The message in hand is the oldest of the batch.                          *)
InHand(w, i) == /\ Handling(w)
                /\ i \in batch[w]
                /\ \A j \in batch[w] : i <= j

(* On to the next message of the batch, or back to Run's loop.              *)
Proceed(w, i) ==
    /\ Handle(w, batch[w] \ {i}, phase[w], IF phase[w] = "recover" THEN "read" ELSE "select")
    /\ Note(w, batch[w] \ {i}, seen[w])

AckOrFail(S, f) == \/ Ack(S, f) /\ UNCHANGED faults
                   \/ Fault /\ UNCHANGED <<pel, idle, fate>>

(* Off by one.                                                              *)
DeadLetterEarlyBug(w, i) ==
    /\ InHand(w, i) /\ step[w] = 0
    /\ seen[w][i] >= MaxDeliveries - 1
    /\ AckOrFail({i}, "dead")
    /\ Proceed(w, i)
    /\ UNCHANGED <<stream, cursor, deliveries, step, failed, applied, attempts>>

DeadLetter(w, i) ==
    /\ InHand(w, i) /\ step[w] = 0
    /\ seen[w][i] >= MaxDeliveries
    /\ AckOrFail({i}, "dead")
    /\ Proceed(w, i)
    /\ UNCHANGED <<stream, cursor, deliveries, step, failed, applied, attempts>>

Begin(w, i) ==
    /\ InHand(w, i) /\ step[w] = 0
    /\ seen[w][i] < MaxDeliveries
    /\ step' = [step EXCEPT ![w] = 1]
    /\ attempts' = [attempts EXCEPT ![i] = @ + 1]
    /\ UNCHANGED <<redisVars, phase, batch, seen, failed, faults, applied, fate>>

(* The verdict is the last calculator's, not the count of failures.         *)
CalculateBug(w, i) ==
    /\ InHand(w, i) /\ step[w] \in 1 .. Len(Calculators(stream[i]))
    /\ step' = [step EXCEPT ![w] = @ + 1]
    /\ LET c == Calculators(stream[i])[step[w]]
       IN \/ /\ applied' = [applied EXCEPT ![i] = @ \cup {c}]
             /\ failed' = [failed EXCEPT ![w] = FALSE]
          \/ /\ failed' = [failed EXCEPT ![w] = TRUE]
             /\ UNCHANGED applied
    /\ UNCHANGED <<redisVars, phase, batch, seen, faults, attempts, fate>>

(* One calculator runs.  An error is counted and the next one still runs.   *)
(* A successful overtrading run may announce an incident on the same stream:*)
(* best effort, so no copy at all, or several after XADD's retries.         *)
Calculate(w, i) ==
    /\ InHand(w, i) /\ step[w] \in 1 .. Len(Calculators(stream[i]))
    /\ step' = [step EXCEPT ![w] = @ + 1]
    /\ LET c == Calculators(stream[i])[step[w]]
       IN \/ /\ applied' = [applied EXCEPT ![i] = @ \cup {c}]
             /\ UNCHANGED failed
             /\ \E n \in 0 .. MaxCopies :
                  /\ n > 0 => c = "overtrading"
                  /\ Len(stream) + n <= MaxEntries
                  /\ stream' = stream \o Copies(n)
          \/ /\ failed' = [failed EXCEPT ![w] = TRUE]
             /\ UNCHANGED <<applied, stream>>
    /\ UNCHANGED <<cursor, pel, deliveries, idle, phase, batch, seen, faults, attempts, fate>>

(* process has returned.  A failure leaves the entry pending; success and   *)
(* a malformed event acknowledge it.                                        *)
Verdict(i) == IF stream[i] \in Poison THEN "dropped" ELSE "done"

(* Acknowledged whether it failed or not.                                   *)
FinishBug(w, i) ==
    /\ InHand(w, i) /\ step[w] > Len(Calculators(stream[i]))
    /\ AckOrFail({i}, Verdict(i))
    /\ step' = [step EXCEPT ![w] = 0]
    /\ failed' = [failed EXCEPT ![w] = FALSE]
    /\ Proceed(w, i)
    /\ UNCHANGED <<stream, cursor, deliveries, applied, attempts>>

Finish(w, i) ==
    /\ InHand(w, i) /\ step[w] > Len(Calculators(stream[i]))
    /\ IF failed[w] THEN UNCHANGED <<pel, idle, fate, faults>>
                    ELSE AckOrFail({i}, Verdict(i))
    /\ step' = [step EXCEPT ![w] = 0]
    /\ failed' = [failed EXCEPT ![w] = FALSE]
    /\ Proceed(w, i)
    /\ UNCHANGED <<stream, cursor, deliveries, applied, attempts>>

----------------------------------------------------------------------------
(* The process.  A SIGTERM has the same effect as a crash here: it cancels  *)
(* the context of every later command, so the rest of the batch stays       *)
(* pending and Run returns.                                                 *)

Crash(w) ==
    /\ phase[w] # "down"
    /\ Fault
    /\ phase' = [phase EXCEPT ![w] = "down"]
    /\ batch' = [batch EXCEPT ![w] = {}]
    /\ step' = [step EXCEPT ![w] = 0]
    /\ failed' = [failed EXCEPT ![w] = FALSE]
    /\ Note(w, {}, seen[w])
    /\ UNCHANGED <<redisVars, history>>

Restart(w) ==
    /\ phase[w] = "down"
    /\ phase' = [phase EXCEPT ![w] = "select"]
    /\ UNCHANGED <<redisVars, batch, seen, step, failed, faults, history>>

----------------------------------------------------------------------------

Init == /\ stream = << >>
        /\ cursor = 0
        /\ pel = {}
        /\ deliveries = [i \in Ids |-> 0]
        /\ idle = {}
        /\ phase = [w \in Workers |-> "down"]
        /\ batch = [w \in Workers |-> {}]
        /\ seen = [w \in Workers |-> [i \in Ids |-> 0]]
        /\ step = [w \in Workers |-> 0]
        /\ failed = [w \in Workers |-> FALSE]
        /\ faults = 0
        /\ applied = [i \in Ids |-> {}]
        /\ attempts = [i \in Ids |-> 0]
        /\ fate = [i \in Ids |-> "live"]

(* The steps a running worker takes on its own.                             *)
Work1(w) == \/ Read(w)
            \/ Claim(w)
            \/ \E i \in Ids : DeadLetter(w, i) \/ Begin(w, i) \/ Calculate(w, i) \/ Finish(w, i)

Next == \/ \E k \in Kinds : Publish(k)
        \/ \E i \in Ids : GoIdle(i)
        \/ \E w \in Workers : \/ Work1(w)
                              \/ ListPending(w)
                              \/ ReadLost(w)
                              \/ ClaimLost(w)
                              \/ Crash(w)
                              \/ Restart(w)

Spec == Init /\ [][Next]_vars

(* A running worker takes its next step, its ticker fires time and again, a *)
(* crashed process is restarted by its supervisor (restart: unless-stopped  *)
(* in docker-compose.yml), and time passes.  Nothing makes a calculator     *)
(* succeed, an acknowledgement arrive or a producer publish.                *)
Fairness == /\ \A w \in Workers : /\ WF_vars(Work1(w))
                                  /\ WF_vars(ListPending(w))
                                  /\ WF_vars(Restart(w))
            /\ \A i \in Ids : WF_vars(GoIdle(i))

FairSpec == Spec /\ Fairness

----------------------------------------------------------------------------
(* Type correctness: the group never delivers past the end of the stream,   *)
(* idle entries are pending, a worker holds messages only while it has a    *)
(* claim to make or messages to handle, and the next calculator is at most  *)
(* one past the last of the message in hand.                                *)
TypeOK ==
    /\ stream \in Seq(EventTypes \cup Poison) /\ Len(stream) <= MaxEntries
    /\ cursor \in 0 .. Len(stream)
    /\ pel \in SUBSET (1 .. cursor)
    /\ deliveries \in [Ids -> Nat]
    /\ idle \in SUBSET pel
    /\ phase \in [Workers -> Phases]
    /\ batch \in [Workers -> SUBSET (1 .. cursor)]
    /\ seen \in [Workers -> [Ids -> Nat]]
    /\ step \in [Workers -> 0 .. 4]
    /\ failed \in [Workers -> BOOLEAN]
    /\ faults \in 0 .. MaxFaults
    /\ applied \in [Ids -> SUBSET AllCalculators]
    /\ attempts \in [Ids -> Nat]
    /\ fate \in [Ids -> Fates]

(* A delivered entry is on the pending list exactly while nobody has        *)
(* settled it: none vanishes without a verdict (Read, ClaimStuck and Ack    *)
(* in consumer.go; handle in worker.go), through crashes and lost replies.  *)
PendingUntilSettled ==
    \A i \in Ids : i \in pel <=> (i <= cursor /\ fate[i] = "live")

(* "We only XACK a message after every calculator for it succeeded"         *)
(* (worker.go, package comment): over all its deliveries, whoever handled   *)
(* them, every calculator of a done entry has succeeded.                    *)
DoneMeansApplied ==
    \A i \in Ids : fate[i] = "done" => applied[i] = Work(stream[i])

(* Only an entry that has been delivered more than maxDeliveries times is   *)
(* dead-lettered (handle, with the counts ClaimStuck hands it).             *)
DeadLetterAtLimit ==
    \A i \in Ids : fate[i] = "dead" => deliveries[i] > MaxDeliveries

(* process runs at most maxDeliveries times for an entry, and once more for *)
(* each further worker: the count ClaimStuck hands out is the one XPENDING  *)
(* listed, which another worker's XCLAIM may have outdated.                 *)
AttemptsBounded ==
    \A i \in Ids : attempts[i] <= MaxDeliveries + Cardinality(Workers) - 1

(* Every entry published is settled in the end: it cannot loop forever,     *)
(* whatever its calculators return, whichever worker dies.                  *)
EventuallySettled ==
    \A i \in Ids : (i <= Len(stream)) ~> (fate[i] # "live")

(* The loop implements at-least-once delivery with a verdict per entry.     *)
Delivery == INSTANCE EventDelivery
DeliverySpec == Delivery!Spec
=============================================================================
