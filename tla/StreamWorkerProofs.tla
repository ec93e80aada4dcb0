------------------------- MODULE StreamWorkerProofs ------------------------
(***************************************************************************)
(* Proofs about the worker loop, for any number of workers, any stream     *)
(* length, batch size, dead-letter threshold and number of faults.         *)
(***************************************************************************)
EXTENDS StreamWorker, FiniteSetTheorems, SequenceTheorems, TLAPS

AllKinds == EventTypes \cup Poison

LEMMA CalculatorsType ==
    ASSUME NEW k \in AllKinds
    PROVE  /\ Calculators(k) \in Seq(AllCalculators)
           /\ Len(Calculators(k)) \in 0 .. 3
           /\ k \in Poison => Len(Calculators(k)) = 0
<1>1. CASE k = Opened
  <2>1. Calculators(k) = <<"revenge_flag", "overtrading">>
    BY <1>1 DEF Calculators, Opened, Closed
  <2>2. k \notin Poison
    BY <1>1 DEF Poison, Opened, Malformed, Garbled
  <2>3. Calculators(k) \in Seq(AllCalculators) /\ Len(Calculators(k)) = 2
    BY <2>1 DEF AllCalculators
  <2> QED BY <2>2, <2>3
<1>2. CASE k = Closed
  <2>1. Calculators(k) = <<"plan_adherence", "win_rate", "session_tilt">>
    BY <1>2 DEF Calculators, Opened, Closed
  <2>2. k \notin Poison
    BY <1>2 DEF Poison, Closed, Malformed, Garbled
  <2>3. Calculators(k) \in Seq(AllCalculators) /\ Len(Calculators(k)) = 3
    BY <2>1 DEF AllCalculators
  <2> QED BY <2>2, <2>3
<1>3. CASE k # Opened /\ k # Closed
  <2>1. Calculators(k) = << >>
    BY <1>3 DEF Calculators
  <2> QED BY <2>1
<1> QED BY <1>1, <1>2, <1>3

LEMMA NextBatchType ==
    ASSUME TypeOK
    PROVE  /\ NextCursor \in cursor .. Len(stream)
           /\ NextBatch \subseteq Ids
           /\ NextBatch \subseteq 1 .. NextCursor
           /\ NextBatch \cap pel = {}
           /\ \A i \in NextBatch : cursor < i
BY BoundsAssumption DEF TypeOK, NextBatch, NextCursor, Ids

LEMMA CopiesType ==
    ASSUME TypeOK, NEW n \in 0 .. MaxCopies, Len(stream) + n <= MaxEntries
    PROVE  /\ stream \o Copies(n) \in Seq(AllKinds)
           /\ Len(stream \o Copies(n)) = Len(stream) + n
           /\ \A i \in 1 .. Len(stream) : (stream \o Copies(n))[i] = stream[i]
<1>1. Copies(n) \in Seq(AllKinds) /\ Len(Copies(n)) = n
  BY BoundsAssumption DEF Copies, AllKinds, EventTypes
<1>2. stream \in Seq(AllKinds)
  BY DEF TypeOK, AllKinds
<1>3. /\ stream \o Copies(n) \in Seq(AllKinds)
      /\ Len(stream \o Copies(n)) = Len(stream) + n
      /\ \A i \in 1 .. Len(stream) + n : (stream \o Copies(n))[i] =
                     IF i <= Len(stream) THEN stream[i] ELSE Copies(n)[i - Len(stream)]
  BY <1>1, <1>2, ConcatProperties
<1>4. Len(stream) \in Nat /\ n \in Nat
  BY <1>2, BoundsAssumption
<1> QED BY <1>3, <1>4

LEMMA HandleType ==
    ASSUME TypeOK, NEW w \in Workers, cursor' \in Nat, cursor <= cursor',
           NEW S \in SUBSET (1 .. cursor'), NEW here \in Phases, NEW after \in Phases,
           Handle(w, S, here, after)
    PROVE  phase' \in [Workers -> Phases] /\ batch' \in [Workers -> SUBSET (1 .. cursor')]
<1>1. phase' \in [Workers -> Phases]
  BY DEF Handle, TypeOK
<1>2. \A v \in Workers : batch[v] \subseteq 1 .. cursor'
  BY DEF TypeOK
<1> QED BY <1>1, <1>2 DEF Handle, TypeOK

LEMMA NoteType ==
    ASSUME TypeOK, NEW w \in Workers, NEW S, NEW count,
           \A i \in Ids : count[i] \in Nat, Note(w, S, count)
    PROVE  seen' \in [Workers -> [Ids -> Nat]]
BY DEF Note, TypeOK

LEMMA AckType ==
    ASSUME TypeOK, cursor' = cursor, NEW S, NEW f \in Fates, AckOrFail(S, f)
    PROVE  /\ pel' \in SUBSET (1 .. cursor') /\ idle' \in SUBSET pel'
           /\ fate' \in [Ids -> Fates] /\ faults' \in 0 .. MaxFaults
<1>1. CASE Ack(S, f) /\ UNCHANGED faults
  <2>1. pel' \in SUBSET (1 .. cursor') /\ idle' \in SUBSET pel'
    BY <1>1 DEF Ack, TypeOK
  <2>2. fate' \in [Ids -> Fates]
    BY <1>1 DEF Ack, TypeOK
  <2> QED BY <1>1, <2>1, <2>2 DEF TypeOK
<1>2. CASE Fault /\ UNCHANGED <<pel, idle, fate>>
  <2>1. faults' \in 0 .. MaxFaults
    BY <1>2, BoundsAssumption DEF Fault, CanFault, TypeOK
  <2> QED BY <1>2, <2>1 DEF TypeOK
<1> QED BY <1>1, <1>2 DEF AckOrFail

LEMMA ProceedType ==
    ASSUME TypeOK, cursor' = cursor, NEW w \in Workers, NEW i, InHand(w, i), Proceed(w, i)
    PROVE  /\ phase' \in [Workers -> Phases] /\ batch' \in [Workers -> SUBSET (1 .. cursor')]
           /\ seen' \in [Workers -> [Ids -> Nat]]
<1>1. cursor' \in Nat /\ cursor <= cursor'
  BY DEF TypeOK
<1>2. batch[w] \ {i} \in SUBSET (1 .. cursor') /\ phase[w] \in Phases
      /\ \A j \in Ids : seen[w][j] \in Nat
  BY DEF TypeOK
<1>3. (IF phase[w] = "recover" THEN "read" ELSE "select") \in Phases
  BY DEF Phases
<1> QED BY <1>1, <1>2, <1>3, HandleType, NoteType DEF Proceed

(* Type correctness, for every value of the constants (TypeOK of             *)
(* StreamWorker): in particular the group never delivers past the end of     *)
(* the stream, and what a worker handles has been delivered.                 *)
THEOREM TypeCorrect == Spec => []TypeOK
<1>1. Init => TypeOK
  BY BoundsAssumption DEF Init, TypeOK, Ids, Fates, Phases
<1>2. TypeOK /\ [Next]_vars => TypeOK'
  <2> SUFFICES ASSUME TypeOK, [Next]_vars PROVE TypeOK'
    OBVIOUS
  <2>1. ASSUME NEW k \in Kinds, Publish(k) PROVE TypeOK'
    BY <2>1, KindsAssumption, BoundsAssumption DEF Publish, TypeOK, workerVars, history
  <2>2. ASSUME NEW i \in Ids, GoIdle(i) PROVE TypeOK'
    BY <2>2 DEF GoIdle, TypeOK, workerVars, history
  <2>3. ASSUME NEW w \in Workers, Read(w) PROVE TypeOK'
    <3> PICK kept \in SUBSET Garbage(NextBatch) :
          LET bad == Garbage(NextBatch) \ kept
          IN /\ IF kept = {} THEN UNCHANGED faults ELSE Fault
             /\ cursor' = NextCursor
             /\ pel' = pel \cup (NextBatch \ bad)
             /\ deliveries' = Delivered(NextBatch)
             /\ fate' = [i \in Ids |-> IF i \in bad THEN "dropped" ELSE fate[i]]
             /\ Handle(w, NextBatch \ Garbage(NextBatch), "handle", "select")
             /\ Note(w, NextBatch \ Garbage(NextBatch), [i \in Ids |-> 1])
      BY <2>3 DEF Read
    <3>1. cursor' \in 0 .. Len(stream') /\ cursor' \in Nat /\ cursor <= cursor'
      BY <2>3, NextBatchType DEF Read, TypeOK
    <3>2. NextBatch \subseteq 1 .. cursor'
      BY NextBatchType
    <3>3. pel' \in SUBSET (1 .. cursor') /\ idle' \in SUBSET pel'
      <4>1. pel \subseteq 1 .. cursor' /\ idle \subseteq pel
        BY <3>1 DEF TypeOK
      <4>2. idle' = idle
        BY <2>3 DEF Read
      <4> QED BY <3>2, <4>1, <4>2
    <3>4. deliveries' \in [Ids -> Nat]
      BY DEF Delivered, TypeOK
    <3>5. phase' \in [Workers -> Phases] /\ batch' \in [Workers -> SUBSET (1 .. cursor')]
      BY <3>1, <3>2, HandleType DEF Phases
    <3>6. seen' \in [Workers -> [Ids -> Nat]]
      BY NoteType
    <3>7. fate' \in [Ids -> Fates]
      BY DEF TypeOK, Fates
    <3>8. faults' \in 0 .. MaxFaults
      BY BoundsAssumption DEF Fault, CanFault, TypeOK
    <3> QED
      BY <2>3, <3>1, <3>3, <3>4, <3>5, <3>6, <3>7, <3>8 DEF Read, TypeOK
  <2>4. ASSUME NEW w \in Workers, ReadLost(w) PROVE TypeOK'
    <3>1. cursor' \in 0 .. Len(stream') /\ cursor' \in Nat /\ cursor <= cursor'
      BY <2>4, NextBatchType DEF ReadLost, TypeOK
    <3>2. pel' \in SUBSET (1 .. cursor') /\ idle' \in SUBSET pel'
      <4>1. pel \subseteq 1 .. cursor' /\ idle \subseteq pel
        BY <3>1 DEF TypeOK
      <4>2. idle' = idle /\ pel' = pel \cup NextBatch /\ cursor' = NextCursor
        BY <2>4 DEF ReadLost
      <4> QED BY NextBatchType, <4>1, <4>2
    <3>3. deliveries' \in [Ids -> Nat]
      BY <2>4 DEF ReadLost, Delivered, TypeOK
    <3>4. batch' \in [Workers -> SUBSET (1 .. cursor')]
      BY <2>4, <3>1 DEF ReadLost, TypeOK
    <3>5. faults' \in 0 .. MaxFaults
      BY <2>4, BoundsAssumption DEF ReadLost, Fault, CanFault, TypeOK
    <3> QED
      BY <2>4, <3>1, <3>2, <3>3, <3>4, <3>5 DEF ReadLost, TypeOK, Phases, history
  <2>5. ASSUME NEW w \in Workers, ListPending(w) PROVE TypeOK'
    <3>1. Oldest(idle, BatchSize) \subseteq 1 .. cursor
      BY DEF Oldest, TypeOK
    <3>2. batch' \in [Workers -> SUBSET (1 .. cursor')]
      BY <2>5, <3>1 DEF ListPending, TypeOK, redisVars
    <3>3. seen' \in [Workers -> [Ids -> Nat]]
      BY <2>5, NoteType DEF ListPending, TypeOK
    <3> QED
      BY <2>5, <3>2, <3>3 DEF ListPending, TypeOK, Phases, redisVars, history
  <2>6. ASSUME NEW w \in Workers, Claim(w) PROVE TypeOK'
    <3> PICK kept \in SUBSET Garbage(Claimed(w)) :
          LET bad == Garbage(Claimed(w)) \ kept
          IN /\ IF kept = {} THEN UNCHANGED faults ELSE Fault
             /\ pel' = pel \ bad
             /\ idle' = idle \ Claimed(w)
             /\ fate' = [i \in Ids |-> IF i \in bad THEN "dropped" ELSE fate[i]]
             /\ deliveries' = Redelivered(Claimed(w))
             /\ Handle(w, Claimed(w) \ Garbage(Claimed(w)), "recover", "read")
             /\ Note(w, Claimed(w) \ Garbage(Claimed(w)), seen[w])
      BY <2>6 DEF Claim
    <3>1. UNCHANGED <<stream, cursor, step, failed, applied, attempts>>
      BY <2>6 DEF Claim
    <3>2. pel' \in SUBSET (1 .. cursor') /\ idle' \in SUBSET pel'
      BY <3>1 DEF TypeOK, Garbage
    <3>3. deliveries' \in [Ids -> Nat]
      BY DEF Redelivered, TypeOK
    <3>4. Claimed(w) \subseteq 1 .. cursor'
      BY <3>1 DEF Claimed, TypeOK
    <3>5. cursor' \in Nat /\ cursor <= cursor'
      BY <3>1 DEF TypeOK
    <3>6. phase' \in [Workers -> Phases] /\ batch' \in [Workers -> SUBSET (1 .. cursor')]
      BY <3>4, <3>5, HandleType DEF Phases
    <3>7. seen' \in [Workers -> [Ids -> Nat]]
      BY NoteType DEF TypeOK
    <3>8. fate' \in [Ids -> Fates]
      BY DEF TypeOK, Fates
    <3>9. faults' \in 0 .. MaxFaults
      BY BoundsAssumption DEF Fault, CanFault, TypeOK
    <3> QED
      BY <3>1, <3>2, <3>3, <3>6, <3>7, <3>8, <3>9 DEF TypeOK
  <2>7. ASSUME NEW w \in Workers, ClaimLost(w) PROVE TypeOK'
    <3>1. /\ UNCHANGED <<stream, cursor, pel, step, failed, history>>
          /\ Handle(w, {}, "recover", "read") /\ Note(w, {}, seen[w])
          /\ Fault
      BY <2>7 DEF ClaimLost
    <3>2. deliveries' \in [Ids -> Nat] /\ idle' \in SUBSET pel
      <4>1. Redelivered(Claimed(w)) \in [Ids -> Nat]
        BY DEF Redelivered, TypeOK
      <4> QED BY <2>7, <4>1 DEF ClaimLost, TypeOK
    <3>3. cursor' \in Nat /\ cursor <= cursor'
      BY <3>1 DEF TypeOK
    <3>4. phase' \in [Workers -> Phases] /\ batch' \in [Workers -> SUBSET (1 .. cursor')]
      BY <3>1, <3>3, HandleType DEF Phases
    <3>5. seen' \in [Workers -> [Ids -> Nat]]
      BY <3>1, NoteType DEF TypeOK
    <3>6. faults' \in 0 .. MaxFaults
      BY <3>1, BoundsAssumption DEF Fault, CanFault, TypeOK
    <3> QED
      BY <3>1, <3>2, <3>4, <3>5, <3>6 DEF TypeOK, history
  <2>8. ASSUME NEW w \in Workers, NEW i \in Ids, DeadLetter(w, i) PROVE TypeOK'
    <3>1. /\ UNCHANGED <<stream, cursor, deliveries, step, failed, applied, attempts>>
          /\ Proceed(w, i) /\ InHand(w, i) /\ AckOrFail({i}, "dead")
      BY <2>8 DEF DeadLetter
    <3>2. pel' \in SUBSET (1 .. cursor') /\ idle' \in SUBSET pel' /\ fate' \in [Ids -> Fates]
          /\ faults' \in 0 .. MaxFaults
      BY <3>1, AckType DEF Fates
    <3>3. phase' \in [Workers -> Phases] /\ batch' \in [Workers -> SUBSET (1 .. cursor')]
          /\ seen' \in [Workers -> [Ids -> Nat]]
      BY <3>1, ProceedType
    <3> QED BY <3>1, <3>2, <3>3 DEF TypeOK
  <2>9. ASSUME NEW w \in Workers, NEW i \in Ids, Begin(w, i) PROVE TypeOK'
    BY <2>9 DEF Begin, TypeOK, redisVars
  <2>10. ASSUME NEW w \in Workers, NEW i \in Ids, Calculate(w, i) PROVE TypeOK'
    <3>1. UNCHANGED <<cursor, pel, deliveries, idle, phase, batch, seen, faults, attempts, fate>>
          /\ InHand(w, i) /\ step[w] \in 1 .. Len(Calculators(stream[i]))
          /\ step' = [step EXCEPT ![w] = @ + 1]
      BY <2>10 DEF Calculate
    <3>2. i \in 1 .. Len(stream) /\ stream[i] \in AllKinds
      BY <3>1 DEF InHand, TypeOK, AllKinds
    <3>3. step' \in [Workers -> 0 .. 4]
      <4>0. Len(Calculators(stream[i])) \in 0 .. 3
        BY <3>2, CalculatorsType
      <4>1. step[w] \in 1 .. Len(Calculators(stream[i]))
        BY <3>1
      <4>2. step[w] + 1 \in 0 .. 4
        <5>1. \A L \in 0 .. 3 : \A n \in 1 .. L : n + 1 \in 0 .. 4
          OBVIOUS
        <5> QED BY <4>0, <4>1, <5>1
      <4> QED BY <3>1, <4>2 DEF TypeOK
    <3>4. Calculators(stream[i])[step[w]] \in AllCalculators
      BY <3>1, <3>2, CalculatorsType
    <3>5. applied' \in [Ids -> SUBSET AllCalculators] /\ failed' \in [Workers -> BOOLEAN]
      <4>1. applied[i] \cup {Calculators(stream[i])[step[w]]} \subseteq AllCalculators
        BY <3>4 DEF TypeOK
      <4>2. [applied EXCEPT ![i] = @ \cup {Calculators(stream[i])[step[w]]}]
              \in [Ids -> SUBSET AllCalculators]
        BY <4>1 DEF TypeOK
      <4>3. [failed EXCEPT ![w] = TRUE] \in [Workers -> BOOLEAN]
        BY DEF TypeOK
      <4> QED BY <2>10, <4>2, <4>3 DEF Calculate, TypeOK
    <3>6. stream' \in Seq(EventTypes \cup Poison) /\ Len(stream) <= Len(stream')
          /\ Len(stream') <= MaxEntries
      <4>1. CASE stream' = stream
        BY <4>1 DEF TypeOK
      <4>2. CASE \E n \in 0 .. MaxCopies : /\ Len(stream) + n <= MaxEntries
                                           /\ stream' = stream \o Copies(n)
        BY <4>2, CopiesType, BoundsAssumption DEF TypeOK, AllKinds
      <4> QED BY <2>10, <4>1, <4>2 DEF Calculate
    <3>7. cursor' \in 0 .. Len(stream')
      BY <3>1, <3>6 DEF TypeOK
    <3> QED BY <3>1, <3>3, <3>5, <3>6, <3>7 DEF TypeOK
  <2>11. ASSUME NEW w \in Workers, NEW i \in Ids, Finish(w, i) PROVE TypeOK'
    <3>1. /\ UNCHANGED <<stream, cursor, deliveries, applied, attempts>>
          /\ Proceed(w, i) /\ InHand(w, i)
          /\ step' = [step EXCEPT ![w] = 0] /\ failed' = [failed EXCEPT ![w] = FALSE]
      BY <2>11 DEF Finish
    <3>2. pel' \in SUBSET (1 .. cursor') /\ idle' \in SUBSET pel' /\ fate' \in [Ids -> Fates]
          /\ faults' \in 0 .. MaxFaults
      <4>1. CASE UNCHANGED <<pel, idle, fate, faults>>
        BY <3>1, <4>1 DEF TypeOK
      <4>2. CASE AckOrFail({i}, Verdict(i))
        <5>1. Verdict(i) \in Fates
          BY DEF Verdict, Fates
        <5> QED BY <3>1, <4>2, <5>1, AckType
      <4> QED BY <2>11, <4>1, <4>2 DEF Finish
    <3>3. phase' \in [Workers -> Phases] /\ batch' \in [Workers -> SUBSET (1 .. cursor')]
          /\ seen' \in [Workers -> [Ids -> Nat]]
      BY <3>1, ProceedType
    <3>4. step' \in [Workers -> 0 .. 4] /\ failed' \in [Workers -> BOOLEAN]
      BY <3>1 DEF TypeOK
    <3> QED BY <3>1, <3>2, <3>3, <3>4 DEF TypeOK
  <2>12. ASSUME NEW w \in Workers, Crash(w) PROVE TypeOK'
    <3>1. seen' \in [Workers -> [Ids -> Nat]]
      BY <2>12, NoteType DEF Crash, TypeOK
    <3>2. faults' \in 0 .. MaxFaults
      BY <2>12, BoundsAssumption DEF Crash, Fault, CanFault, TypeOK
    <3>3. UNCHANGED <<redisVars, history>>
      BY <2>12 DEF Crash
    <3>4. phase' \in [Workers -> Phases] /\ batch' \in [Workers -> SUBSET (1 .. cursor')]
      BY <2>12, <3>3 DEF Crash, TypeOK, Phases, redisVars
    <3>5. step' \in [Workers -> 0 .. 4] /\ failed' \in [Workers -> BOOLEAN]
      BY <2>12 DEF Crash, TypeOK
    <3> QED
      BY <3>1, <3>2, <3>3, <3>4, <3>5 DEF TypeOK, redisVars, history
  <2>13. ASSUME NEW w \in Workers, Restart(w) PROVE TypeOK'
    BY <2>13 DEF Restart, TypeOK, Phases, redisVars, history
  <2>14. CASE UNCHANGED vars
    BY <2>14 DEF vars, redisVars, workerVars, history, TypeOK
  <2> QED
    BY <2>1, <2>2, <2>3, <2>4, <2>5, <2>6, <2>7, <2>8, <2>9, <2>10, <2>11, <2>12, <2>13, <2>14
    DEF Next, Work1
<1> QED BY <1>1, <1>2, PTL DEF Spec

----------------------------------------------------------------------------
(* Every delivered entry stays pending until it gets its one verdict.       *)

PendingInv == /\ PendingUntilSettled
              /\ \A i \in Ids : fate[i] # "live" => i <= cursor

LEMMA AckPending ==
    ASSUME PendingInv, TypeOK, cursor' = cursor, NEW S, NEW f \in Fates \ {"live"},
           AckOrFail(S, f)
    PROVE  PendingInv'
BY DEF PendingInv, PendingUntilSettled, AckOrFail, Ack, TypeOK, Ids

LEMMA PendingInvariant == Spec => []PendingInv
<1>1. Init => PendingInv
  BY DEF Init, PendingInv, PendingUntilSettled, Ids
<1>2. TypeOK /\ PendingInv /\ [Next]_vars => PendingInv'
  <2> SUFFICES ASSUME TypeOK, PendingInv, [Next]_vars PROVE PendingInv'
    OBVIOUS
  <2>1. CASE UNCHANGED <<cursor, pel, fate>>
    BY <2>1 DEF PendingInv, PendingUntilSettled
  <2>2. ASSUME NEW w \in Workers, Read(w) PROVE PendingInv'
    <3> PICK kept \in SUBSET Garbage(NextBatch) :
          /\ cursor' = NextCursor
          /\ pel' = pel \cup (NextBatch \ (Garbage(NextBatch) \ kept))
          /\ fate' = [i \in Ids |-> IF i \in Garbage(NextBatch) \ kept THEN "dropped"
                                                                     ELSE fate[i]]
      BY <2>2 DEF Read
    <3> SUFFICES ASSUME NEW i \in Ids
                 PROVE  /\ i \in pel' <=> (i <= cursor' /\ fate'[i] = "live")
                        /\ fate'[i] # "live" => i <= cursor'
      BY DEF PendingInv, PendingUntilSettled
    <3>1. Garbage(NextBatch) \subseteq NextBatch
      BY DEF Garbage
    <3>2. CASE i \in NextBatch
      <4>1. fate[i] = "live" /\ i <= cursor' /\ i \notin pel
        BY <3>2, NextBatchType DEF PendingInv, TypeOK, Ids
      <4> QED BY <3>1, <3>2, <4>1
    <3>3. CASE i \notin NextBatch
      <4>1. i <= cursor' <=> i <= cursor
        BY <3>3, NextBatchType DEF NextBatch, TypeOK, Ids
      <4>2. i \in pel' <=> i \in pel
        BY <3>3
      <4>3. fate'[i] = fate[i]
        BY <3>1, <3>3
      <4> QED BY <4>1, <4>2, <4>3 DEF PendingInv, PendingUntilSettled
    <3> QED BY <3>2, <3>3
  <2>3. ASSUME NEW w \in Workers, ReadLost(w) PROVE PendingInv'
    <3>1. cursor' = NextCursor /\ pel' = pel \cup NextBatch /\ fate' = fate
      BY <2>3 DEF ReadLost, history
    <3> SUFFICES ASSUME NEW i \in Ids
                 PROVE  /\ i \in pel' <=> (i <= cursor' /\ fate'[i] = "live")
                        /\ fate'[i] # "live" => i <= cursor'
      BY DEF PendingInv, PendingUntilSettled
    <3>2. CASE i \in NextBatch
      <4>1. fate[i] = "live" /\ i <= cursor'
        BY <3>1, <3>2, NextBatchType DEF PendingInv, TypeOK, Ids
      <4> QED BY <3>1, <3>2, <4>1
    <3>3. CASE i \notin NextBatch
      <4>1. i <= cursor' <=> i <= cursor
        BY <3>1, <3>3, NextBatchType DEF NextBatch, TypeOK, Ids
      <4> QED BY <3>1, <3>3, <4>1 DEF PendingInv, PendingUntilSettled
    <3> QED BY <3>2, <3>3
  <2>4. ASSUME NEW w \in Workers, Claim(w) PROVE PendingInv'
    <3> PICK kept \in SUBSET Garbage(Claimed(w)) :
          /\ pel' = pel \ (Garbage(Claimed(w)) \ kept)
          /\ fate' = [i \in Ids |-> IF i \in Garbage(Claimed(w)) \ kept THEN "dropped"
                                                                      ELSE fate[i]]
      BY <2>4 DEF Claim
    <3>1. Garbage(Claimed(w)) \subseteq pel /\ cursor' = cursor
      BY <2>4 DEF Garbage, Claimed, TypeOK, Claim
    <3>2. \A i \in Ids : i \in pel => i <= cursor
      BY DEF PendingInv, PendingUntilSettled
    <3> QED BY <3>1, <3>2 DEF PendingInv, PendingUntilSettled
  <2>5. ASSUME NEW w \in Workers, NEW i \in Ids, DeadLetter(w, i) PROVE PendingInv'
    BY <2>5, AckPending DEF DeadLetter, Fates
  <2>6. ASSUME NEW w \in Workers, NEW i \in Ids, Finish(w, i) PROVE PendingInv'
    <3>1. Verdict(i) \in Fates \ {"live"}
      BY DEF Verdict, Fates
    <3>2. cursor' = cursor /\ (AckOrFail({i}, Verdict(i)) \/ UNCHANGED <<pel, fate>>)
      BY <2>6 DEF Finish
    <3> QED BY <2>1, <3>1, <3>2, AckPending
  <2>7. ASSUME NEW k \in Kinds, Publish(k) PROVE PendingInv'
    BY <2>7, <2>1 DEF Publish, history
  <2>8. ASSUME NEW i \in Ids, GoIdle(i) PROVE PendingInv'
    BY <2>8, <2>1 DEF GoIdle, history
  <2>9. ASSUME NEW w \in Workers, ListPending(w) PROVE PendingInv'
    BY <2>9, <2>1 DEF ListPending, redisVars, history
  <2>10. ASSUME NEW w \in Workers, ClaimLost(w) PROVE PendingInv'
    BY <2>10, <2>1 DEF ClaimLost, history
  <2>11. ASSUME NEW w \in Workers, NEW i \in Ids, Begin(w, i) PROVE PendingInv'
    BY <2>11, <2>1 DEF Begin, redisVars
  <2>12. ASSUME NEW w \in Workers, NEW i \in Ids, Calculate(w, i) PROVE PendingInv'
    BY <2>12, <2>1 DEF Calculate
  <2>13. ASSUME NEW w \in Workers, Crash(w) \/ Restart(w) PROVE PendingInv'
    BY <2>13, <2>1 DEF Crash, Restart, redisVars, history
  <2>14. CASE UNCHANGED vars
    BY <2>14, <2>1 DEF vars, redisVars, history
  <2> QED
    BY <2>2, <2>3, <2>4, <2>5, <2>6, <2>7, <2>8, <2>9, <2>10, <2>11, <2>12, <2>13, <2>14
    DEF Next, Work1
<1> QED BY <1>1, <1>2, TypeCorrect, PTL DEF Spec

(* No entry leaves the pending list without a verdict, and none with a      *)
(* verdict stays on it (Read, ClaimStuck and Ack of consumer.go, handle of  *)
(* worker.go), whatever crashes or gets lost.                               *)
THEOREM PendingCorrect == Spec => []PendingUntilSettled
<1>1. PendingInv => PendingUntilSettled
  BY DEF PendingInv
<1> QED BY <1>1, PendingInvariant, PTL

----------------------------------------------------------------------------
(* Done entries have been through all their calculators.                    *)

(* The calculators before the next one have succeeded, unless one failed.   *)
StepsApplied(w) ==
    \A i \in Ids : (InHand(w, i) /\ ~failed[w]) =>
        \A n \in 1 .. Len(Calculators(stream[i])) :
            n < step[w] => Calculators(stream[i])[n] \in applied[i]

AppliedInv ==
    /\ \A i \in Ids : IF i <= cursor THEN applied[i] \subseteq Work(stream[i])
                                    ELSE applied[i] = {}
    /\ \A w \in Workers : (step[w] > 0 => Handling(w)) /\ StepsApplied(w)

DoneInv == AppliedInv /\ DoneMeansApplied

StreamGrows == /\ Len(stream) <= Len(stream')
               /\ \A i \in 1 .. Len(stream) : stream'[i] = stream[i]

(* Every step but Calculate: nothing is applied, and each worker goes on    *)
(* as it was, or stands before the first calculator of a message.           *)
LEMMA DoneFrame ==
    ASSUME TypeOK, TypeOK', PendingInv, DoneInv, StreamGrows, applied' = applied,
           cursor <= cursor',
           \A i \in Ids : fate'[i] = "done" =>
                fate[i] = "done" \/ (i <= cursor /\ applied[i] = Work(stream[i])),
           \A w \in Workers :
                \/ step'[w] = 0
                \/ step'[w] = 1 /\ Handling(w)'
                \/ /\ step'[w] = step[w] /\ phase'[w] = phase[w]
                   /\ batch'[w] = batch[w] /\ failed'[w] = failed[w]
    PROVE  DoneInv'
<1>1. \A i \in Ids : i <= cursor => i \in 1 .. Len(stream) /\ stream'[i] = stream[i]
  BY DEF TypeOK, StreamGrows, Ids
<1>2. \A i \in Ids : i <= cursor => i <= cursor'
  BY DEF TypeOK, Ids
<1>3. ASSUME NEW i \in Ids
      PROVE  IF i <= cursor' THEN applied'[i] \subseteq Work(stream'[i]) ELSE applied'[i] = {}
  BY <1>1, <1>2 DEF DoneInv, AppliedInv
<1>4. DoneMeansApplied'
  <2> SUFFICES ASSUME NEW i \in Ids, fate'[i] = "done"
               PROVE  applied'[i] = Work(stream'[i])
    BY DEF DoneMeansApplied
  <2>1. i <= cursor /\ applied[i] = Work(stream[i])
    BY DEF DoneInv, DoneMeansApplied, PendingInv
  <2> QED BY <1>1, <2>1
<1>5. ASSUME NEW w \in Workers PROVE (step'[w] > 0 => Handling(w)') /\ StepsApplied(w)'
  <2>1. CASE step'[w] = 0
    BY <2>1 DEF StepsApplied
  <2>2. CASE step'[w] = 1 /\ Handling(w)'
    BY <2>2 DEF StepsApplied
  <2>3. CASE /\ step'[w] = step[w] /\ phase'[w] = phase[w]
             /\ batch'[w] = batch[w] /\ failed'[w] = failed[w]
    <3>1. step'[w] > 0 => Handling(w)'
      BY <2>3 DEF DoneInv, AppliedInv, Handling
    <3>2. StepsApplied(w)'
      <4> SUFFICES ASSUME NEW i \in Ids, InHand(w, i)', ~failed'[w],
                          NEW n \in 1 .. Len(Calculators(stream'[i])), n < step'[w]
                   PROVE  Calculators(stream'[i])[n] \in applied'[i]
        BY DEF StepsApplied
      <4>1. InHand(w, i) /\ i <= cursor
        BY <2>3 DEF InHand, Handling, TypeOK, Ids
      <4>2. stream'[i] = stream[i]
        BY <1>1, <4>1
      <4> QED BY <2>3, <4>1, <4>2 DEF DoneInv, AppliedInv, StepsApplied
    <3> QED BY <3>1, <3>2
  <2> QED BY <2>1, <2>2, <2>3
<1> QED BY <1>3, <1>4, <1>5 DEF DoneInv, AppliedInv

LEMMA IdleStep ==
    ASSUME DoneInv, TypeOK, NEW w \in Workers, ~Handling(w)
    PROVE  step[w] = 0
<1>1. step[w] \in 0 .. 4
  BY DEF TypeOK
<1>2. ~(step[w] > 0)
  BY DEF DoneInv, AppliedInv
<1> QED BY <1>1, <1>2

LEMMA StreamKept ==
    ASSUME TypeOK, stream' = stream
    PROVE  StreamGrows
BY DEF StreamGrows, TypeOK

(* What the calculator of a message in hand adds, when it succeeds.         *)
LEMMA CalculateDone ==
    ASSUME TypeOK, TypeOK', PendingInv, DoneInv,
           NEW w \in Workers, NEW i \in Ids, Calculate(w, i)
    PROVE  DoneInv'
<1> DEFINE c == Calculators(stream[i])[step[w]]
<1>1. /\ InHand(w, i) /\ step[w] \in 1 .. Len(Calculators(stream[i]))
      /\ step' = [step EXCEPT ![w] = @ + 1]
      /\ UNCHANGED <<cursor, phase, batch, fate>>
      /\ \/ applied' = [applied EXCEPT ![i] = @ \cup {c}] /\ UNCHANGED failed
         \/ failed' = [failed EXCEPT ![w] = TRUE] /\ UNCHANGED applied
  BY DEF Calculate
<1>2. i <= cursor /\ i \in 1 .. Len(stream) /\ c \in Work(stream[i])
  BY <1>1 DEF InHand, TypeOK, Ids, Work
<1>3. StreamGrows
  <2>1. CASE stream' = stream
    BY <2>1, StreamKept
  <2>2. CASE \E n \in 0 .. MaxCopies : /\ Len(stream) + n <= MaxEntries
                                       /\ stream' = stream \o Copies(n)
    BY <2>2, CopiesType, BoundsAssumption DEF StreamGrows, TypeOK
  <2> QED BY <2>1, <2>2 DEF Calculate
<1>4. \A j \in Ids : j <= cursor => j \in 1 .. Len(stream) /\ stream'[j] = stream[j]
  BY <1>3 DEF TypeOK, StreamGrows, Ids
<1>5. \A j \in Ids : /\ applied[j] \subseteq applied'[j]
                    /\ applied'[j] \subseteq applied[j] \cup (IF j = i THEN {c} ELSE {})
  BY <1>1 DEF TypeOK
<1>6. ASSUME NEW j \in Ids
      PROVE  IF j <= cursor' THEN applied'[j] \subseteq Work(stream'[j]) ELSE applied'[j] = {}
  <2>1. CASE j = i
    BY <1>1, <1>2, <1>4, <1>5, <2>1 DEF DoneInv, AppliedInv
  <2>2. CASE j # i
    BY <1>1, <1>4, <1>5, <2>2 DEF DoneInv, AppliedInv
  <2> QED BY <2>1, <2>2
<1>7. DoneMeansApplied'
  <2> SUFFICES ASSUME NEW j \in Ids, fate'[j] = "done"
               PROVE  applied'[j] = Work(stream'[j])
    BY DEF DoneMeansApplied
  <2>1. j <= cursor /\ applied[j] = Work(stream[j])
    BY <1>1 DEF DoneInv, DoneMeansApplied, PendingInv
  <2>2. applied'[j] \subseteq Work(stream'[j])
    BY <1>1, <1>6, <2>1
  <2> QED BY <1>4, <1>5, <2>1, <2>2
<1>8. ASSUME NEW v \in Workers PROVE (step'[v] > 0 => Handling(v)') /\ StepsApplied(v)'
  <2>1. step'[v] > 0 => Handling(v)'
    <3>1. CASE v = w
      BY <1>1, <3>1 DEF InHand, Handling
    <3>2. CASE v # w
      BY <1>1, <3>2 DEF DoneInv, AppliedInv, Handling, TypeOK
    <3> QED BY <3>1, <3>2
  <2>2. StepsApplied(v)'
    <3> SUFFICES ASSUME NEW j \in Ids, InHand(v, j)', ~failed'[v],
                        NEW n \in 1 .. Len(Calculators(stream'[j])), n < step'[v]
                 PROVE  Calculators(stream'[j])[n] \in applied'[j]
      BY DEF StepsApplied
    <3>1. InHand(v, j) /\ j <= cursor
      BY <1>1 DEF InHand, Handling, TypeOK, Ids
    <3>2. stream'[j] = stream[j] /\ applied[j] \subseteq applied'[j]
      BY <1>4, <1>5, <3>1
    <3>3. CASE v = w
      <4>1. j = i
        BY <1>1, <3>1, <3>3 DEF InHand, Ids, TypeOK
      <4>2. applied' = [applied EXCEPT ![i] = @ \cup {c}] /\ ~failed[w]
        BY <1>1, <3>3 DEF TypeOK
      <4>3. n < step[w] \/ n = step[w]
        <5>1. step'[w] = step[w] + 1 /\ step[w] \in Nat /\ n \in Nat
          BY <1>1 DEF TypeOK
        <5> QED BY <3>3, <5>1
      <4>4. CASE n < step[w]
        BY <3>1, <3>2, <3>3, <4>2, <4>4 DEF DoneInv, AppliedInv, StepsApplied
      <4>5. CASE n = step[w]
        BY <3>2, <4>1, <4>2, <4>5 DEF TypeOK
      <4> QED BY <4>3, <4>4, <4>5
    <3>4. CASE v # w
      <4>1. step'[v] = step[v] /\ ~failed[v]
        BY <1>1, <3>4 DEF TypeOK
      <4> QED BY <3>1, <3>2, <4>1 DEF DoneInv, AppliedInv, StepsApplied
    <3> QED BY <3>3, <3>4
  <2> QED BY <2>1, <2>2
<1> QED BY <1>6, <1>7, <1>8 DEF DoneInv, AppliedInv

(* A message that has passed its last calculator without a failure has had  *)
(* them all applied.                                                        *)
LEMMA FinishedWork ==
    ASSUME TypeOK, DoneInv, NEW w \in Workers, NEW i \in Ids, InHand(w, i),
           step[w] > Len(Calculators(stream[i])), ~failed[w]
    PROVE  i <= cursor /\ applied[i] = Work(stream[i])
<1>1. i <= cursor /\ i \in 1 .. Len(stream) /\ stream[i] \in AllKinds
  BY DEF InHand, TypeOK, Ids, AllKinds
<1>2. \A n \in 1 .. Len(Calculators(stream[i])) : n < step[w]
  <2>1. Len(Calculators(stream[i])) \in 0 .. 3
    BY <1>1, CalculatorsType
  <2>2. step[w] \in 0 .. 4
    BY DEF TypeOK
  <2>3. \A L \in 0 .. 3, m \in 0 .. 4 : m > L => \A n \in 1 .. L : n < m
    OBVIOUS
  <2> QED BY <2>1, <2>2, <2>3
<1>3. Work(stream[i]) \subseteq applied[i]
  BY <1>2 DEF DoneInv, AppliedInv, StepsApplied, Work
<1> QED BY <1>1, <1>3 DEF DoneInv, AppliedInv

LEMMA DoneInvariant == Spec => []DoneInv
<1>1. Init => DoneInv
  BY DEF Init, DoneInv, AppliedInv, DoneMeansApplied, StepsApplied, Ids, InHand, Handling
<1>2. TypeOK /\ TypeOK' /\ PendingInv /\ DoneInv /\ [Next]_vars => DoneInv'
  <2> SUFFICES ASSUME TypeOK, TypeOK', PendingInv, DoneInv, [Next]_vars PROVE DoneInv'
    OBVIOUS
  <2>1. ASSUME StreamGrows, UNCHANGED <<cursor, applied, fate>>,
               \A w \in Workers :
                  \/ step'[w] = 0
                  \/ step'[w] = 1 /\ Handling(w)'
                  \/ /\ step'[w] = step[w] /\ phase'[w] = phase[w]
                     /\ batch'[w] = batch[w] /\ failed'[w] = failed[w]
        PROVE  DoneInv'
    <3>1. cursor <= cursor'
      BY <2>1 DEF TypeOK
    <3> QED BY <2>1, <3>1, DoneFrame
  <2>2. ASSUME NEW k \in Kinds, Publish(k) PROVE DoneInv'
    <3>1. StreamGrows
      BY <2>2, KindsAssumption, AppendProperties DEF Publish, StreamGrows, TypeOK
    <3> QED BY <2>1, <2>2, <3>1 DEF Publish, workerVars, history
  <2>3. ASSUME NEW i \in Ids, GoIdle(i) PROVE DoneInv'
    BY <2>1, <2>3, StreamKept DEF GoIdle, workerVars, history
  <2>4. ASSUME NEW w \in Workers, Read(w) PROVE DoneInv'
    <3>1. /\ cursor' = NextCursor
          /\ \A i \in Ids : fate'[i] # fate[i] => fate'[i] = "dropped"
          /\ \A v \in Workers \ {w} : phase'[v] = phase[v] /\ batch'[v] = batch[v]
      BY <2>4 DEF Read, Handle, TypeOK
    <3>2. UNCHANGED <<stream, step, failed, applied>> /\ phase[w] \in {"select", "read"}
      BY <2>4 DEF Read
    <3>3. step'[w] = 0
      BY <3>2, IdleStep DEF Handling
    <3>4. cursor <= cursor'
      BY <3>1, NextBatchType DEF TypeOK
    <3> QED BY <3>1, <3>2, <3>3, <3>4, StreamKept, DoneFrame
  <2>5. ASSUME NEW w \in Workers, ReadLost(w) PROVE DoneInv'
    <3>1. /\ cursor' = NextCursor /\ UNCHANGED <<stream, batch, step, failed, history>>
          /\ phase[w] \in {"select", "read"}
          /\ \A v \in Workers \ {w} : phase'[v] = phase[v]
      BY <2>5 DEF ReadLost, TypeOK
    <3>2. step'[w] = 0
      BY <3>1, IdleStep DEF Handling
    <3>3. cursor <= cursor'
      BY <3>1, NextBatchType DEF TypeOK
    <3> QED BY <3>1, <3>2, <3>3, StreamKept, DoneFrame DEF history
  <2>6. ASSUME NEW w \in Workers, ListPending(w) PROVE DoneInv'
    <3>1. /\ UNCHANGED <<redisVars, step, failed, history>> /\ phase[w] = "select"
          /\ \A v \in Workers \ {w} : phase'[v] = phase[v] /\ batch'[v] = batch[v]
      BY <2>6 DEF ListPending, TypeOK
    <3>2. step'[w] = 0
      BY <3>1, IdleStep DEF Handling
    <3> QED BY <2>1, <3>1, <3>2, StreamKept DEF redisVars, history
  <2>7. ASSUME NEW w \in Workers, Claim(w) PROVE DoneInv'
    <3>1. /\ \A i \in Ids : fate'[i] # fate[i] => fate'[i] = "dropped"
          /\ \A v \in Workers \ {w} : phase'[v] = phase[v] /\ batch'[v] = batch[v]
      BY <2>7 DEF Claim, Handle, TypeOK
    <3>2. UNCHANGED <<stream, cursor, step, failed, applied>> /\ phase[w] = "claim"
      BY <2>7 DEF Claim
    <3>3. step'[w] = 0
      BY <3>2, IdleStep DEF Handling
    <3>4. cursor <= cursor'
      BY <3>2 DEF TypeOK
    <3> QED BY <3>1, <3>2, <3>3, <3>4, StreamKept, DoneFrame
  <2>8. ASSUME NEW w \in Workers, ClaimLost(w) PROVE DoneInv'
    <3>1. /\ UNCHANGED <<stream, cursor, step, failed, history>> /\ phase[w] = "claim"
          /\ \A v \in Workers \ {w} : phase'[v] = phase[v] /\ batch'[v] = batch[v]
      BY <2>8 DEF ClaimLost, Handle, TypeOK
    <3>2. step'[w] = 0
      BY <3>1, IdleStep DEF Handling
    <3> QED BY <2>1, <3>1, <3>2, StreamKept DEF history
  <2>9. ASSUME NEW w \in Workers, NEW i \in Ids, DeadLetter(w, i) PROVE DoneInv'
    <3>1. /\ UNCHANGED <<stream, cursor, step, failed, applied>> /\ step[w] = 0
          /\ \A j \in Ids : fate'[j] # fate[j] => fate'[j] = "dead"
          /\ \A v \in Workers \ {w} : phase'[v] = phase[v] /\ batch'[v] = batch[v]
      BY <2>9 DEF DeadLetter, AckOrFail, Ack, Proceed, Handle, TypeOK
    <3>2. cursor <= cursor'
      BY <3>1 DEF TypeOK
    <3> QED BY <3>1, <3>2, StreamKept, DoneFrame
  <2>10. ASSUME NEW w \in Workers, NEW i \in Ids, Begin(w, i) PROVE DoneInv'
    <3>1. /\ UNCHANGED <<redisVars, phase, batch, failed, applied, fate>> /\ Handling(w)
          /\ step'[w] = 1 /\ \A v \in Workers \ {w} : step'[v] = step[v]
      BY <2>10 DEF Begin, InHand, TypeOK
    <3> QED BY <2>1, <3>1, StreamKept DEF redisVars, Handling
  <2>11. ASSUME NEW w \in Workers, NEW i \in Ids, Calculate(w, i) PROVE DoneInv'
    BY <2>11, CalculateDone
  <2>12. ASSUME NEW w \in Workers, NEW i \in Ids, Finish(w, i) PROVE DoneInv'
    <3>1. /\ UNCHANGED <<stream, cursor, applied>> /\ InHand(w, i)
          /\ step'[w] = 0 /\ step[w] > Len(Calculators(stream[i]))
          /\ \A v \in Workers \ {w} : /\ step'[v] = step[v] /\ failed'[v] = failed[v]
                                      /\ phase'[v] = phase[v] /\ batch'[v] = batch[v]
      BY <2>12 DEF Finish, Proceed, Handle, TypeOK
    <3>3. ~failed[w] => i <= cursor /\ applied[i] = Work(stream[i])
      BY <3>1, FinishedWork
    <3>4. ASSUME NEW j \in Ids, fate'[j] = "done"
          PROVE  fate[j] = "done" \/ (j <= cursor /\ applied[j] = Work(stream[j]))
      <4>1. CASE fate'[j] = fate[j]
        BY <3>4, <4>1
      <4>2. CASE fate'[j] # fate[j]
        <5>1. ~failed[w] /\ j = i
          BY <2>12, <4>2 DEF Finish, AckOrFail, Ack, TypeOK
        <5> QED BY <3>3, <5>1
      <4> QED BY <4>1, <4>2
    <3>5. cursor <= cursor'
      BY <3>1 DEF TypeOK
    <3> QED BY <3>1, <3>4, <3>5, StreamKept, DoneFrame
  <2>13. ASSUME NEW w \in Workers, Crash(w) PROVE DoneInv'
    <3>1. /\ UNCHANGED <<redisVars, history>> /\ step'[w] = 0
          /\ \A v \in Workers \ {w} : /\ step'[v] = step[v] /\ failed'[v] = failed[v]
                                      /\ phase'[v] = phase[v] /\ batch'[v] = batch[v]
      BY <2>13 DEF Crash, TypeOK
    <3> QED BY <2>1, <3>1, StreamKept DEF redisVars, history
  <2>14. ASSUME NEW w \in Workers, Restart(w) PROVE DoneInv'
    <3>1. /\ UNCHANGED <<redisVars, batch, step, failed, history>> /\ phase[w] = "down"
          /\ \A v \in Workers \ {w} : phase'[v] = phase[v]
      BY <2>14 DEF Restart, TypeOK
    <3>2. step'[w] = 0
      BY <3>1, IdleStep DEF Handling
    <3> QED BY <2>1, <3>1, <3>2, StreamKept DEF redisVars, history
  <2>15. CASE UNCHANGED vars
    BY <2>1, <2>15, StreamKept DEF vars, redisVars, workerVars, history
  <2> QED
    BY <2>2, <2>3, <2>4, <2>5, <2>6, <2>7, <2>8, <2>9, <2>10, <2>11, <2>12, <2>13, <2>14, <2>15
    DEF Next, Work1
<1> QED BY <1>1, <1>2, TypeCorrect, PendingInvariant, PTL DEF Spec

(* "We only XACK a message after every calculator for it succeeded": an     *)
(* entry that is done has had every calculator applied, over all its        *)
(* deliveries and whoever handled them (process and handle of worker.go).   *)
THEOREM DoneCorrect == Spec => []DoneMeansApplied
<1>1. DoneInv => DoneMeansApplied
  BY DEF DoneInv
<1> QED BY <1>1, DoneInvariant, PTL

----------------------------------------------------------------------------
(* Dead-lettering.                                                          *)

(* The DeliveryCount of a message is no larger than Redis's counter, and    *)
(* lags behind it by the claim that delivered the message.                  *)
CountsOf(w) ==
    \A i \in batch[w] : /\ phase[w] = "handle" => seen[w][i] = 1
                        /\ phase[w] = "claim" => seen[w][i] <= deliveries[i]
                        /\ phase[w] = "recover" => seen[w][i] < deliveries[i]

CountInv == (\A w \in Workers : CountsOf(w)) /\ DeadLetterAtLimit

LEMMA CountFrame ==
    ASSUME TypeOK, TypeOK', PendingInv, CountInv,
           \A i \in Ids : i <= cursor => deliveries[i] <= deliveries'[i],
           \A i \in Ids : fate'[i] = "dead" => fate[i] = "dead",
           \A w \in Workers :
                \/ batch'[w] = {}
                \/ CountsOf(w)'
                \/ batch'[w] \subseteq batch[w] /\ phase'[w] = phase[w]
                   /\ \A i \in batch'[w] : seen'[w][i] = seen[w][i]
    PROVE  CountInv'
<1>1. DeadLetterAtLimit'
  <2> SUFFICES ASSUME NEW i \in Ids, fate'[i] = "dead" PROVE deliveries'[i] > MaxDeliveries
    BY DEF DeadLetterAtLimit
  <2>1. i <= cursor /\ deliveries[i] > MaxDeliveries /\ deliveries[i] <= deliveries'[i]
    BY DEF CountInv, DeadLetterAtLimit, PendingInv
  <2>2. deliveries[i] \in Nat /\ deliveries'[i] \in Nat
    BY DEF TypeOK
  <2> QED BY <2>1, <2>2, BoundsAssumption
<1>2. ASSUME NEW w \in Workers PROVE CountsOf(w)'
  <2>1. CASE batch'[w] \subseteq batch[w] /\ phase'[w] = phase[w]
             /\ \A i \in batch'[w] : seen'[w][i] = seen[w][i]
    <3> SUFFICES ASSUME NEW i \in batch'[w]
                 PROVE  /\ phase'[w] = "handle" => seen'[w][i] = 1
                        /\ phase'[w] = "claim" => seen'[w][i] <= deliveries'[i]
                        /\ phase'[w] = "recover" => seen'[w][i] < deliveries'[i]
      BY DEF CountsOf
    <3>1. i \in Ids /\ i <= cursor
      <4>1. i \in 1 .. cursor
        BY <2>1 DEF TypeOK
      <4>2. cursor \in Nat /\ cursor <= MaxEntries
        BY BoundsAssumption DEF TypeOK
      <4> QED BY <4>1, <4>2, BoundsAssumption DEF Ids
    <3>2. seen[w][i] \in Nat /\ deliveries[i] \in Nat /\ deliveries'[i] \in Nat
          /\ deliveries[i] <= deliveries'[i]
      BY <3>1 DEF TypeOK
    <3>3. /\ phase[w] = "handle" => seen[w][i] = 1
          /\ phase[w] = "claim" => seen[w][i] <= deliveries[i]
          /\ phase[w] = "recover" => seen[w][i] < deliveries[i]
      BY <2>1 DEF CountInv, CountsOf
    <3> QED BY <2>1, <3>2, <3>3
  <2>2. CASE batch'[w] = {}
    BY <2>2 DEF CountsOf
  <2> QED BY <2>1, <2>2
<1> QED BY <1>1, <1>2 DEF CountInv

(* Only an entry delivered more than maxDeliveries times is dead-lettered   *)
(* (handle of worker.go, with the counts ClaimStuck of consumer.go hands    *)
(* it).                                                                     *)
THEOREM DeadLetterCorrect == Spec => []DeadLetterAtLimit
<1>1. Init => CountInv
  BY DEF Init, CountInv, CountsOf, DeadLetterAtLimit
<1>2. TypeOK /\ TypeOK' /\ PendingInv /\ CountInv /\ [Next]_vars => CountInv'
  <2> SUFFICES ASSUME TypeOK, TypeOK', PendingInv, CountInv, [Next]_vars PROVE CountInv'
    OBVIOUS
  <2>1. ASSUME UNCHANGED <<deliveries, fate, phase, batch, seen>> PROVE CountInv'
    BY <2>1 DEF CountInv, CountsOf, DeadLetterAtLimit
  <2>2. ASSUME NEW w \in Workers, Read(w) PROVE CountInv'
    <3>1. /\ deliveries' = Delivered(NextBatch)
          /\ Handle(w, NextBatch \ Garbage(NextBatch), "handle", "select")
          /\ Note(w, NextBatch \ Garbage(NextBatch), [i \in Ids |-> 1])
          /\ \A i \in Ids : fate'[i] # fate[i] => fate'[i] = "dropped"
      BY <2>2 DEF Read, TypeOK
    <3>2. \A i \in Ids : i <= cursor => deliveries'[i] = deliveries[i]
      BY <3>1, NextBatchType DEF Delivered, TypeOK, Ids
    <3>3. batch'[w] = {} \/ (phase'[w] = "handle" /\ \A i \in batch'[w] : seen'[w][i] = 1)
      BY <3>1, NextBatchType DEF Handle, Note, TypeOK
    <3>4. \A v \in Workers \ {w} :
             phase'[v] = phase[v] /\ batch'[v] = batch[v] /\ seen'[v] = seen[v]
      BY <3>1 DEF Handle, Note, TypeOK
    <3>5. \A i \in Ids : i <= cursor => deliveries[i] <= deliveries'[i]
      BY <3>2 DEF TypeOK
    <3>6. batch'[w] = {} \/ CountsOf(w)'
      BY <3>3 DEF CountsOf
    <3> QED BY <3>1, <3>4, <3>5, <3>6, CountFrame
  <2>3. ASSUME NEW w \in Workers, ReadLost(w) PROVE CountInv'
    <3>1. /\ deliveries' = Delivered(NextBatch) /\ UNCHANGED <<batch, seen, fate>>
          /\ phase[w] \in {"select", "read"}
          /\ phase' = [phase EXCEPT ![w] = "select"]
      BY <2>3 DEF ReadLost, history
    <3>2. \A i \in Ids : i <= cursor => deliveries[i] <= deliveries'[i]
      <4>1. \A i \in Ids : i <= cursor => deliveries'[i] = deliveries[i]
        BY <3>1, NextBatchType DEF Delivered, TypeOK, Ids
      <4> QED BY <4>1 DEF TypeOK
    <3>3. CountsOf(w)'
      BY <3>1 DEF CountsOf, TypeOK
    <3>4. \A v \in Workers \ {w} : phase'[v] = phase[v]
      BY <3>1 DEF TypeOK
    <3> QED BY <3>1, <3>2, <3>3, <3>4, CountFrame
  <2>4. ASSUME NEW w \in Workers, ListPending(w) PROVE CountInv'
    <3>1. /\ UNCHANGED <<redisVars, history>>
          /\ batch' = [batch EXCEPT ![w] = Oldest(idle, BatchSize)]
          /\ phase' = [phase EXCEPT ![w] = "claim"]
          /\ Note(w, Oldest(idle, BatchSize), deliveries)
      BY <2>4 DEF ListPending
    <3>2. \A i \in batch'[w] : i \in Ids /\ seen'[w][i] = deliveries'[i]
      <4>1. batch'[w] = Oldest(idle, BatchSize) /\ batch'[w] \subseteq Ids
        BY <3>1, BoundsAssumption DEF TypeOK, Ids, redisVars
      <4> QED BY <3>1, <4>1 DEF Note, TypeOK, redisVars
    <3>3. CountsOf(w)'
      <4>1. phase'[w] = "claim" /\ \A i \in Ids : deliveries'[i] \in Nat
        BY <3>1 DEF TypeOK
      <4> QED BY <3>2, <4>1 DEF CountsOf
    <3>4. \A v \in Workers \ {w} :
             phase'[v] = phase[v] /\ batch'[v] = batch[v] /\ seen'[v] = seen[v]
      BY <3>1 DEF Note, TypeOK
    <3>5. \A i \in Ids : i <= cursor => deliveries[i] <= deliveries'[i]
      BY <3>1 DEF TypeOK, redisVars
    <3> QED BY <3>1, <3>3, <3>4, <3>5, CountFrame DEF history
  <2>5. ASSUME NEW w \in Workers, Claim(w) PROVE CountInv'
    <3>1. /\ phase[w] = "claim" /\ deliveries' = Redelivered(Claimed(w))
          /\ Handle(w, Claimed(w) \ Garbage(Claimed(w)), "recover", "read")
          /\ Note(w, Claimed(w) \ Garbage(Claimed(w)), seen[w])
          /\ \A i \in Ids : fate'[i] # fate[i] => fate'[i] = "dropped"
      BY <2>5 DEF Claim, TypeOK
    <3>2. \A i \in Ids : i <= cursor => deliveries[i] <= deliveries'[i]
      BY <3>1 DEF Redelivered, TypeOK
    <3>3. batch'[w] = {} \/ (phase'[w] = "recover" /\ batch'[w] \subseteq Claimed(w) \cap Ids)
      <4>1. Claimed(w) \subseteq Ids
        BY BoundsAssumption DEF Claimed, TypeOK, Ids
      <4> QED BY <3>1, <4>1 DEF Handle, TypeOK
    <3>4. ASSUME NEW i \in batch'[w] PROVE phase'[w] = "recover" /\ seen'[w][i] < deliveries'[i]
      <4>1. i \in Claimed(w) /\ i \in Ids /\ phase'[w] = "recover"
        BY <3>3, <3>4
      <4>2. seen[w][i] <= deliveries[i]
        BY <3>1, <4>1 DEF CountInv, CountsOf, Claimed
      <4>3. deliveries'[i] = deliveries[i] + 1
        BY <3>1, <4>1 DEF Redelivered
      <4>4. seen'[w][i] = seen[w][i]
        BY <3>1, <3>4, <4>1 DEF Note, Handle, TypeOK
      <4>5. seen[w][i] \in Nat /\ deliveries[i] \in Nat
        BY <4>1 DEF TypeOK
      <4> QED BY <4>1, <4>2, <4>3, <4>4, <4>5
    <3>5. CountsOf(w)'
      BY <3>4 DEF CountsOf
    <3>6. \A v \in Workers \ {w} :
             phase'[v] = phase[v] /\ batch'[v] = batch[v] /\ seen'[v] = seen[v]
      BY <3>1 DEF Handle, Note, TypeOK
    <3> QED BY <3>1, <3>2, <3>5, <3>6, CountFrame
  <2>6. ASSUME NEW w \in Workers, ClaimLost(w) PROVE CountInv'
    <3>1. /\ Handle(w, {}, "recover", "read") /\ Note(w, {}, seen[w]) /\ fate' = fate
          /\ deliveries' = deliveries \/ deliveries' = Redelivered(Claimed(w))
      BY <2>6 DEF ClaimLost, history
    <3>2. \A i \in Ids : deliveries[i] <= deliveries'[i]
      <4>1. CASE deliveries' = deliveries
        BY <4>1 DEF TypeOK
      <4>2. CASE deliveries' = Redelivered(Claimed(w))
        BY <4>2 DEF Redelivered, TypeOK
      <4> QED BY <3>1, <4>1, <4>2
    <3>3. /\ batch'[w] = {}
          /\ \A v \in Workers \ {w} :
               phase'[v] = phase[v] /\ batch'[v] = batch[v] /\ seen'[v] = seen[v]
      BY <3>1 DEF Handle, Note, TypeOK
    <3> QED BY <3>1, <3>2, <3>3, CountFrame
  <2>7. ASSUME NEW w \in Workers, NEW i \in Ids, Proceed(w, i), Handling(w), deliveries' = deliveries,
               \A j \in Ids : fate'[j] = "dead" => fate[j] = "dead" \/ deliveries[j] > MaxDeliveries
        PROVE  CountInv'
    <3>1. DeadLetterAtLimit'
      BY <2>7 DEF CountInv, DeadLetterAtLimit
    <3>2. \A v \in Workers \ {w} :
             phase'[v] = phase[v] /\ batch'[v] = batch[v] /\ seen'[v] = seen[v]
      BY <2>7 DEF Proceed, Handle, Note, TypeOK
    <3>3. \A v \in Workers \ {w} : CountsOf(v)'
      BY <2>7, <3>2 DEF CountInv, CountsOf
    <3>4. /\ batch'[w] = batch[w] \ {i}
          /\ batch'[w] # {} => phase'[w] = phase[w]
          /\ \A j \in batch'[w] : seen'[w][j] = seen[w][j]
      <4>1. batch[w] \subseteq Ids
        BY BoundsAssumption DEF TypeOK, Ids
      <4> QED BY <2>7, <4>1 DEF Proceed, Handle, Note, TypeOK
    <3>5. CountsOf(w)'
      BY <2>7, <3>4 DEF CountInv, CountsOf
    <3> QED BY <3>1, <3>3, <3>5 DEF CountInv
  <2>8. ASSUME NEW w \in Workers, NEW i \in Ids, DeadLetter(w, i) PROVE CountInv'
    <3>1. /\ InHand(w, i) /\ seen[w][i] >= MaxDeliveries /\ AckOrFail({i}, "dead")
          /\ Proceed(w, i) /\ deliveries' = deliveries
      BY <2>8 DEF DeadLetter
    <3>2. deliveries[i] > MaxDeliveries
      <4>1. seen[w][i] \in Nat /\ deliveries[i] \in Nat
        BY DEF TypeOK
      <4>2. seen[w][i] = 1 \/ seen[w][i] < deliveries[i]
        BY <3>1 DEF InHand, Handling, CountInv, CountsOf
      <4> QED BY <3>1, <4>1, <4>2, BoundsAssumption
    <3>3. \A j \in Ids : fate'[j] = "dead" => fate[j] = "dead" \/ j = i
      BY <3>1 DEF AckOrFail, Ack, TypeOK
    <3> QED BY <2>7, <3>1, <3>2, <3>3 DEF InHand
  <2>9. ASSUME NEW w \in Workers, NEW i \in Ids, Finish(w, i) PROVE CountInv'
    <3>1. Verdict(i) # "dead" /\ Proceed(w, i) /\ Handling(w) /\ deliveries' = deliveries
      BY <2>9 DEF Finish, Verdict, InHand
    <3>2. \A j \in Ids : fate'[j] = "dead" => fate[j] = "dead"
      BY <2>9, <3>1 DEF Finish, AckOrFail, Ack, TypeOK
    <3> QED BY <2>7, <3>1, <3>2
  <2>10. ASSUME NEW w \in Workers, Crash(w) PROVE CountInv'
    <3>1. /\ UNCHANGED <<redisVars, history>> /\ batch'[w] = {}
          /\ \A v \in Workers \ {w} :
               phase'[v] = phase[v] /\ batch'[v] = batch[v] /\ seen'[v] = seen[v]
      BY <2>10 DEF Crash, Note, TypeOK
    <3>2. \A i \in Ids : deliveries[i] <= deliveries'[i]
      BY <3>1 DEF redisVars, TypeOK
    <3> QED BY <3>1, <3>2, CountFrame DEF history
  <2>11. ASSUME NEW w \in Workers, Restart(w) PROVE CountInv'
    <3>1. /\ UNCHANGED <<redisVars, batch, seen, history>>
          /\ phase' = [phase EXCEPT ![w] = "select"]
      BY <2>11 DEF Restart
    <3>2. CountsOf(w)'
      BY <3>1 DEF CountsOf, TypeOK
    <3>3. \A v \in Workers \ {w} : phase'[v] = phase[v]
      BY <3>1 DEF TypeOK
    <3>4. \A i \in Ids : deliveries[i] <= deliveries'[i]
      BY <3>1 DEF redisVars, TypeOK
    <3> QED BY <3>1, <3>2, <3>3, <3>4, CountFrame DEF history
  <2>12. ASSUME NEW k \in Kinds, Publish(k) PROVE CountInv'
    BY <2>1, <2>12 DEF Publish, workerVars, history
  <2>13. ASSUME NEW i \in Ids, GoIdle(i) PROVE CountInv'
    BY <2>1, <2>13 DEF GoIdle, workerVars, history
  <2>14. ASSUME NEW w \in Workers, NEW i \in Ids, Begin(w, i) \/ Calculate(w, i) PROVE CountInv'
    BY <2>1, <2>14 DEF Begin, Calculate, redisVars
  <2>15. CASE UNCHANGED vars
    BY <2>1, <2>15 DEF vars, redisVars, workerVars, history
  <2> QED
    BY <2>2, <2>3, <2>4, <2>5, <2>6, <2>8, <2>9, <2>10, <2>11, <2>12, <2>13, <2>14, <2>15
    DEF Next, Work1
<1>3. CountInv => DeadLetterAtLimit
  BY DEF CountInv
<1> QED BY <1>1, <1>2, <1>3, TypeCorrect, PendingInvariant, PTL DEF Spec

----------------------------------------------------------------------------
(* The number of attempts.                                                  *)

(* The workers that hold entry i and have still to enter process for it.    *)
Unbegun(i) == {w \in Workers : /\ Handling(w) /\ i \in batch[w]
                               /\ seen[w][i] < MaxDeliveries
                               /\ step[w] = 0 \/ \E j \in batch[w] : j < i}

(* Those that have it listed with a count below the threshold.              *)
Listed(i) == {w \in Workers : /\ phase[w] = "claim" /\ i \in batch[w]
                              /\ seen[w][i] < MaxDeliveries}

(* Up to the threshold an attempt needs a delivery of its own; past it only *)
(* a worker that listed the entry earlier can claim it for one more.        *)
BoundOf(i) ==
    /\ deliveries[i] <= MaxDeliveries =>
           attempts[i] + Cardinality(Unbegun(i)) <= deliveries[i]
    /\ deliveries[i] >= MaxDeliveries =>
           attempts[i] + Cardinality(Unbegun(i)) + Cardinality(Listed(i))
             <= MaxDeliveries + Cardinality(Workers) - 1

AttemptInv == \A i \in Ids : BoundOf(i) /\ (cursor < i => deliveries[i] = 0)

LEMMA WorkerSets ==
    ASSUME NEW i
    PROVE  /\ IsFiniteSet(Unbegun(i)) /\ Cardinality(Unbegun(i)) \in Nat
           /\ IsFiniteSet(Listed(i)) /\ Cardinality(Listed(i)) \in Nat
           /\ Cardinality(Workers) \in Nat
<1>1. IsFiniteSet(Unbegun(i)) /\ IsFiniteSet(Listed(i))
  BY WorkersAssumption, FS_Subset DEF Unbegun, Listed
<1> QED BY <1>1, WorkersAssumption, FS_CardinalityType

LEMMA WorkerSetsNext ==
    ASSUME NEW i
    PROVE  /\ IsFiniteSet(Unbegun(i)') /\ Cardinality(Unbegun(i)') \in Nat
           /\ IsFiniteSet(Listed(i)') /\ Cardinality(Listed(i)') \in Nat
<1>1. IsFiniteSet(Unbegun(i)') /\ IsFiniteSet(Listed(i)')
  BY WorkersAssumption, FS_Subset DEF Unbegun, Listed
<1> QED BY <1>1, FS_CardinalityType

(* A step that neither delivers entry i nor enters process for it.          *)
LEMMA BoundKept ==
    ASSUME TypeOK, NEW i \in Ids, BoundOf(i),
           deliveries'[i] = deliveries[i], attempts'[i] = attempts[i],
           Unbegun(i)' \subseteq Unbegun(i),
           Listed(i)' \subseteq Listed(i) \/ deliveries[i] < MaxDeliveries
    PROVE  BoundOf(i)'
<1>1. Cardinality(Unbegun(i)') <= Cardinality(Unbegun(i))
  BY WorkerSets, FS_Subset
<1>2. Cardinality(Listed(i)') <= Cardinality(Listed(i)) \/ deliveries[i] < MaxDeliveries
  BY WorkerSets, FS_Subset
<1>3. /\ Cardinality(Unbegun(i)) \in Nat /\ Cardinality(Listed(i)) \in Nat
      /\ Cardinality(Unbegun(i)') \in Nat /\ Cardinality(Listed(i)') \in Nat
      /\ Cardinality(Workers) \in Nat /\ deliveries[i] \in Nat /\ attempts[i] \in Nat
      /\ MaxDeliveries \in Nat
  BY WorkerSets, WorkerSetsNext, BoundsAssumption DEF TypeOK
<1>4. deliveries'[i] <= MaxDeliveries => attempts'[i] + Cardinality(Unbegun(i)') <= deliveries'[i]
  BY <1>1, <1>3 DEF BoundOf
<1>5. deliveries'[i] >= MaxDeliveries =>
         attempts'[i] + Cardinality(Unbegun(i)') + Cardinality(Listed(i)')
           <= MaxDeliveries + Cardinality(Workers) - 1
  BY <1>1, <1>2, <1>3 DEF BoundOf
<1> QED BY <1>4, <1>5 DEF BoundOf

(* Worker w enters process for it.                                          *)
LEMMA BoundBegin ==
    ASSUME TypeOK, NEW i \in Ids, BoundOf(i), NEW w,
           deliveries'[i] = deliveries[i], attempts'[i] = attempts[i] + 1,
           w \in Unbegun(i), Unbegun(i)' \subseteq Unbegun(i) \ {w},
           Listed(i)' \subseteq Listed(i)
    PROVE  BoundOf(i)'
<1>1. /\ IsFiniteSet(Unbegun(i) \ {w})
      /\ Cardinality(Unbegun(i) \ {w}) = Cardinality(Unbegun(i)) - 1
  BY WorkerSets, FS_RemoveElement
<1>2. Cardinality(Unbegun(i)') <= Cardinality(Unbegun(i) \ {w})
  BY <1>1, FS_Subset
<1>3. Cardinality(Listed(i)') <= Cardinality(Listed(i))
  BY WorkerSets, FS_Subset
<1>4. /\ Cardinality(Unbegun(i)) \in Nat /\ Cardinality(Listed(i)) \in Nat
      /\ Cardinality(Unbegun(i)') \in Nat /\ Cardinality(Listed(i)') \in Nat
      /\ Cardinality(Workers) \in Nat /\ deliveries[i] \in Nat /\ attempts[i] \in Nat
      /\ MaxDeliveries \in Nat
  BY WorkerSets, WorkerSetsNext, BoundsAssumption DEF TypeOK
<1>5. deliveries'[i] <= MaxDeliveries => attempts'[i] + Cardinality(Unbegun(i)') <= deliveries'[i]
  BY <1>1, <1>2, <1>4 DEF BoundOf
<1>6. deliveries'[i] >= MaxDeliveries =>
         attempts'[i] + Cardinality(Unbegun(i)') + Cardinality(Listed(i)')
           <= MaxDeliveries + Cardinality(Workers) - 1
  BY <1>1, <1>2, <1>3, <1>4 DEF BoundOf
<1> QED BY <1>5, <1>6 DEF BoundOf

(* Redis delivers it to worker w.                                           *)
LEMMA BoundDeliver ==
    ASSUME TypeOK, NEW i \in Ids, BoundOf(i), NEW w \in Workers,
           deliveries'[i] = deliveries[i] + 1, attempts'[i] = attempts[i],
           Unbegun(i)' \subseteq Unbegun(i) \cup {w}, Listed(i)' \subseteq Listed(i) \ {w},
           deliveries[i] >= MaxDeliveries => Unbegun(i)' \subseteq Unbegun(i) \/ w \in Listed(i)
    PROVE  BoundOf(i)'
<1> DEFINE u == Cardinality(Unbegun(i))
           l == Cardinality(Listed(i))
           u1 == Cardinality(Unbegun(i)')
           l1 == Cardinality(Listed(i)')
           n == Cardinality(Workers)
<1>1. /\ IsFiniteSet(Unbegun(i)) /\ IsFiniteSet(Listed(i))
      /\ u \in Nat /\ l \in Nat /\ u1 \in Nat /\ l1 \in Nat /\ n \in Nat
      /\ deliveries[i] \in Nat /\ attempts[i] \in Nat /\ MaxDeliveries \in Nat
  BY WorkerSets, WorkerSetsNext, BoundsAssumption DEF TypeOK
<1>2. u1 <= u + 1
  <2>1. /\ IsFiniteSet(Unbegun(i) \cup {w})
        /\ \/ Cardinality(Unbegun(i) \cup {w}) = u
           \/ Cardinality(Unbegun(i) \cup {w}) = u + 1
    BY <1>1, FS_AddElement
  <2>2. u1 <= Cardinality(Unbegun(i) \cup {w})
    BY <2>1, FS_Subset
  <2> QED BY <1>1, <2>1, <2>2
<1>3. Unbegun(i)' \subseteq Unbegun(i) => u1 <= u
  BY <1>1, FS_Subset
<1>4. /\ IsFiniteSet(Listed(i) \ {w})
      /\ Cardinality(Listed(i) \ {w}) = IF w \in Listed(i) THEN l - 1 ELSE l
  BY <1>1, FS_RemoveElement
<1>5. l1 <= Cardinality(Listed(i) \ {w})
  BY <1>4, FS_Subset
<1>6. l1 <= n - 1
  <2>1. IsFiniteSet(Workers \ {w}) /\ Cardinality(Workers \ {w}) = n - 1
    BY WorkersAssumption, FS_RemoveElement
  <2>2. Listed(i)' \subseteq Workers \ {w}
    BY DEF Listed
  <2>3. l1 <= Cardinality(Workers \ {w})
    BY <2>1, <2>2, FS_Subset
  <2> QED BY <2>1, <2>3
<1>7. /\ deliveries[i] <= MaxDeliveries => attempts[i] + u <= deliveries[i]
      /\ deliveries[i] >= MaxDeliveries => attempts[i] + u + l <= MaxDeliveries + n - 1
  BY DEF BoundOf
<1>8. deliveries[i] >= MaxDeliveries => u1 + l1 <= u + l
  BY <1>1, <1>2, <1>3, <1>4, <1>5
<1> HIDE DEF u, l, u1, l1, n
<1>9. deliveries'[i] <= MaxDeliveries => attempts'[i] + u1 <= deliveries'[i]
  BY <1>1, <1>2, <1>7
<1>10. deliveries'[i] >= MaxDeliveries => attempts'[i] + u1 + l1 <= MaxDeliveries + n - 1
  BY <1>1, <1>2, <1>6, <1>7, <1>8
<1> QED BY <1>9, <1>10 DEF BoundOf, u1, l1, n

----------------------------------------------------------------------------
(* The same, in terms of the one worker that takes the step.                *)
Rest(w) == \A v \in Workers \ {w} : /\ phase'[v] = phase[v] /\ batch'[v] = batch[v]
                                    /\ seen'[v] = seen[v] /\ step'[v] = step[v]

LEMMA RestSets ==
    ASSUME NEW w \in Workers, Rest(w), NEW i
    PROVE  /\ Unbegun(i)' \subseteq Unbegun(i) \cup {w}
           /\ Listed(i)' \subseteq Listed(i) \cup {w}
<1>1. ASSUME NEW v \in Unbegun(i)', v # w PROVE v \in Unbegun(i)
  BY <1>1 DEF Rest, Unbegun, Handling
<1>2. ASSUME NEW v \in Listed(i)', v # w PROVE v \in Listed(i)
  BY <1>2 DEF Rest, Listed
<1> QED BY <1>1, <1>2

LEMMA AttemptsKept ==
    ASSUME TypeOK, AttemptInv, UNCHANGED <<deliveries, cursor>>, NEW w \in Workers, Rest(w),
           attempts' = attempts,
           \A i \in Ids : /\ w \in Unbegun(i)' => w \in Unbegun(i)
                          /\ w \in Listed(i)' => w \in Listed(i) \/ deliveries[i] < MaxDeliveries
    PROVE  AttemptInv'
<1> SUFFICES ASSUME NEW i \in Ids PROVE BoundOf(i)' /\ (cursor' < i => deliveries'[i] = 0)
  BY DEF AttemptInv
<1>1. BoundOf(i) /\ (cursor < i => deliveries[i] = 0)
  BY DEF AttemptInv
<1>2. /\ Unbegun(i)' \subseteq Unbegun(i)
      /\ Listed(i)' \subseteq Listed(i) \/ deliveries[i] < MaxDeliveries
  BY RestSets
<1> QED BY <1>1, <1>2, BoundKept

(* Proceed drops the message in hand and keeps the others as they are.      *)
LEMMA ProceedAttempts ==
    ASSUME TypeOK, NEW w \in Workers, NEW i \in Ids, InHand(w, i), Proceed(w, i)
    PROVE  /\ batch'[w] = batch[w] \ {i}
           /\ batch'[w] # {} => phase'[w] = phase[w]
           /\ \A j \in batch'[w] : j \in Ids /\ i < j /\ seen'[w][j] = seen[w][j]
           /\ phase'[w] # "claim"
           /\ \A v \in Workers \ {w} : /\ phase'[v] = phase[v] /\ batch'[v] = batch[v]
                                       /\ seen'[v] = seen[v]
<1>1. batch[w] \subseteq Ids /\ \A j \in Ids : j \in Nat
  BY BoundsAssumption DEF TypeOK, Ids
<1>2. /\ batch' = [batch EXCEPT ![w] = batch[w] \ {i}]
      /\ phase' = [phase EXCEPT ![w] = IF batch[w] \ {i} = {}
                                       THEN IF phase[w] = "recover" THEN "read" ELSE "select"
                                       ELSE phase[w]]
      /\ seen' = [seen EXCEPT ![w] = [j \in Ids |-> IF j \in batch[w] \ {i} THEN seen[w][j] ELSE 0]]
  BY DEF Proceed, Handle, Note
<1>3. phase[w] \in {"handle", "recover"} /\ \A j \in batch[w] : i <= j
  BY DEF InHand, Handling
<1>4. /\ batch'[w] = batch[w] \ {i}
      /\ \A j \in batch'[w] : seen'[w][j] = seen[w][j]
  BY <1>1, <1>2 DEF TypeOK
<1>5. (batch'[w] # {} => phase'[w] = phase[w]) /\ phase'[w] # "claim"
  BY <1>2, <1>3, <1>4 DEF TypeOK
<1>6. \A v \in Workers \ {w} : /\ phase'[v] = phase[v] /\ batch'[v] = batch[v]
                               /\ seen'[v] = seen[v]
  BY <1>2 DEF TypeOK
<1>7. \A j \in batch'[w] : j \in Ids /\ i < j
  BY <1>1, <1>3, <1>4
<1> QED BY <1>4, <1>5, <1>6, <1>7

(* process runs at most maxDeliveries times for an entry, and once more for *)
(* each further worker (handle of worker.go): the one worker that takes the *)
(* entry to the threshold has used up its listing.                          *)
THEOREM AttemptsCorrect == Spec => []AttemptsBounded
<1>1. Init => AttemptInv
  <2> SUFFICES ASSUME Init, NEW i \in Ids PROVE BoundOf(i) /\ deliveries[i] = 0
    BY DEF AttemptInv
  <2>1. Unbegun(i) = {} /\ deliveries[i] = 0 /\ attempts[i] = 0
    BY DEF Init, Unbegun
  <2>2. Cardinality(Unbegun(i)) = 0
    BY <2>1, FS_EmptySet
  <2> QED BY <2>1, <2>2, BoundsAssumption DEF BoundOf
<1>2. TypeOK /\ AttemptInv /\ [Next]_vars => AttemptInv'
  <2> SUFFICES ASSUME TypeOK, AttemptInv, [Next]_vars PROVE AttemptInv'
    OBVIOUS
  <2>1. ASSUME UNCHANGED <<cursor, deliveries, phase, batch, seen, step, attempts>>
        PROVE  AttemptInv'
    BY <2>1 DEF AttemptInv, BoundOf, Unbegun, Listed, Handling
  <2>2. ASSUME NEW w \in Workers, NEW NB, NB = NextBatch,
               Read(w) \/ ReadLost(w)
        PROVE  AttemptInv'
    <3>1. /\ phase[w] \in {"select", "read"} /\ cursor' = NextCursor
          /\ deliveries' = Delivered(NB) /\ attempts' = attempts /\ step' = step
      BY <2>2 DEF Read, ReadLost, history
    <3>2. /\ Rest(w) /\ phase'[w] # "claim"
          /\ Handling(w)' => batch'[w] \subseteq NB
      <4>1. CASE Read(w)
        <5>1. /\ Handle(w, NB \ Garbage(NB), "handle", "select")
              /\ Note(w, NB \ Garbage(NB), [i \in Ids |-> 1])
          BY <2>2, <4>1 DEF Read
        <5> QED BY <3>1, <5>1 DEF Handle, Note, Rest, TypeOK
      <4>2. CASE ReadLost(w)
        BY <4>2 DEF ReadLost, Rest, Handling, TypeOK
      <4> QED BY <2>2, <4>1, <4>2
    <3> SUFFICES ASSUME NEW i \in Ids PROVE BoundOf(i)' /\ (cursor' < i => deliveries'[i] = 0)
      BY DEF AttemptInv
    <3>3. BoundOf(i) /\ (cursor < i => deliveries[i] = 0)
      BY DEF AttemptInv
    <3>4. /\ Unbegun(i)' \subseteq Unbegun(i) \cup {w} /\ Listed(i)' \subseteq Listed(i) \cup {w}
      BY <3>2, RestSets
    <3>5. w \notin Listed(i)'
      BY <3>2 DEF Listed
    <3>6. CASE i \in NB
      <4>1. deliveries[i] = 0 /\ deliveries'[i] = 1 /\ i <= cursor' /\ cursor' \in Nat /\ i \in Nat
        BY <2>2, <3>1, <3>3, <3>6, NextBatchType DEF Delivered, TypeOK, Ids
      <4>2. BoundOf(i)'
        BY <3>1, <3>3, <3>4, <3>5, <4>1, BoundsAssumption, BoundDeliver
      <4> QED BY <4>1, <4>2
    <3>7. CASE i \notin NB
      <4>1. w \notin Unbegun(i)'
        BY <3>2, <3>7 DEF Unbegun
      <4>2. deliveries'[i] = deliveries[i]
        BY <3>1, <3>7 DEF Delivered
      <4>3. BoundOf(i)'
        BY <3>1, <3>3, <3>4, <3>5, <4>1, <4>2, BoundKept
      <4>4. cursor' < i => cursor < i
        BY <3>1, NextBatchType DEF TypeOK, Ids
      <4> QED BY <3>3, <4>2, <4>3, <4>4
    <3> QED BY <3>6, <3>7
  <2>3. ASSUME NEW w \in Workers, ListPending(w) PROVE AttemptInv'
    <3>1. /\ UNCHANGED <<deliveries, cursor, attempts, step>>
          /\ batch' = [batch EXCEPT ![w] = Oldest(idle, BatchSize)]
          /\ phase' = [phase EXCEPT ![w] = "claim"]
          /\ Note(w, Oldest(idle, BatchSize), deliveries)
      BY <2>3 DEF ListPending, redisVars, history
    <3>2. Rest(w) /\ phase'[w] = "claim"
      BY <3>1 DEF Rest, Note, TypeOK
    <3>3. \A i \in Ids : w \notin Unbegun(i)'
      BY <3>2 DEF Unbegun, Handling
    <3>4. \A i \in Ids : w \in Listed(i)' => deliveries[i] < MaxDeliveries
      <4> SUFFICES ASSUME NEW i \in Ids, i \in batch'[w], seen'[w][i] < MaxDeliveries
                   PROVE  deliveries[i] < MaxDeliveries
        BY DEF Listed
      <4>1. i \in Oldest(idle, BatchSize)
        BY <3>1 DEF TypeOK
      <4> QED BY <3>1, <4>1 DEF Note, TypeOK
    <3> QED BY <3>1, <3>2, <3>3, <3>4, AttemptsKept
  <2>4. ASSUME NEW w \in Workers, Claim(w) \/ ClaimLost(w) PROVE AttemptInv'
    <3>1. /\ phase[w] = "claim" /\ UNCHANGED <<cursor, attempts, step>>
          /\ deliveries' = Redelivered(Claimed(w)) \/ (deliveries' = deliveries /\ ClaimLost(w))
      BY <2>4 DEF Claim, ClaimLost, history
    <3>2. /\ Rest(w) /\ phase'[w] # "claim" /\ batch'[w] \subseteq Claimed(w)
          /\ \A i \in batch'[w] : seen'[w][i] = seen[w][i]
          /\ ClaimLost(w) => batch'[w] = {}
      <4>1. Claimed(w) \subseteq Ids
        BY BoundsAssumption DEF Claimed, TypeOK, Ids
      <4>2. CASE Claim(w) /\ ~ClaimLost(w)
        <5>1. /\ Handle(w, Claimed(w) \ Garbage(Claimed(w)), "recover", "read")
              /\ Note(w, Claimed(w) \ Garbage(Claimed(w)), seen[w])
          BY <4>2 DEF Claim
        <5> QED BY <3>1, <4>1, <4>2, <5>1 DEF Handle, Note, Rest, TypeOK
      <4>3. CASE ClaimLost(w)
        <5>1. Handle(w, {}, "recover", "read") /\ Note(w, {}, seen[w])
          BY <4>3 DEF ClaimLost
        <5> QED BY <3>1, <5>1 DEF Handle, Note, Rest, TypeOK
      <4> QED BY <2>4, <4>2, <4>3
    <3> SUFFICES ASSUME NEW i \in Ids PROVE BoundOf(i)' /\ (cursor' < i => deliveries'[i] = 0)
      BY DEF AttemptInv
    <3>3. BoundOf(i) /\ (cursor < i => deliveries[i] = 0)
      BY DEF AttemptInv
    <3>4. /\ Unbegun(i)' \subseteq Unbegun(i) \cup {w} /\ Listed(i)' \subseteq Listed(i) \ {w}
      <4>1. w \notin Listed(i)'
        BY <3>2 DEF Listed
      <4> QED BY <3>2, <4>1, RestSets
    <3>5. w \in Unbegun(i)' => i \in Claimed(w) /\ w \in Listed(i)
      BY <3>1, <3>2 DEF Unbegun, Listed, Claimed
    <3>6. CASE i \in Claimed(w) /\ deliveries' = Redelivered(Claimed(w))
      <4>1. deliveries'[i] = deliveries[i] + 1
        BY <3>6 DEF Redelivered
      <4>2. BoundOf(i)'
        BY <3>1, <3>3, <3>4, <3>5, <4>1, BoundDeliver
      <4>3. ~(cursor < i)
        BY <3>6 DEF Claimed, TypeOK, Ids
      <4> QED BY <3>1, <4>2, <4>3
    <3>7. CASE ~(i \in Claimed(w) /\ deliveries' = Redelivered(Claimed(w)))
      <4>1. deliveries'[i] = deliveries[i]
        BY <3>1, <3>7 DEF Redelivered, TypeOK
      <4>2. w \notin Unbegun(i)'
        BY <3>1, <3>2, <3>5, <3>7 DEF Unbegun
      <4>3. BoundOf(i)'
        BY <3>1, <3>3, <3>4, <4>1, <4>2, BoundKept
      <4> QED BY <3>1, <3>3, <4>1, <4>3
    <3> QED BY <3>6, <3>7
  <2>5. ASSUME NEW w \in Workers, NEW i \in Ids, Begin(w, i) PROVE AttemptInv'
    <3>1. /\ InHand(w, i) /\ step[w] = 0 /\ seen[w][i] < MaxDeliveries
          /\ UNCHANGED <<deliveries, cursor, phase, batch, seen>>
          /\ step' = [step EXCEPT ![w] = 1] /\ attempts' = [attempts EXCEPT ![i] = @ + 1]
      BY <2>5 DEF Begin, redisVars
    <3>2. Rest(w) /\ step'[w] = 1
      BY <3>1 DEF Rest, TypeOK
    <3> SUFFICES ASSUME NEW j \in Ids PROVE BoundOf(j)' /\ (cursor' < j => deliveries'[j] = 0)
      BY DEF AttemptInv
    <3>3. BoundOf(j) /\ (cursor < j => deliveries[j] = 0)
      BY DEF AttemptInv
    <3>4. Listed(j)' = Listed(j)
      BY <3>1 DEF Listed
    <3>5. w \in Unbegun(j)' => w \in Unbegun(j)
      BY <3>1, <3>2 DEF Unbegun, Handling
    <3>6. Unbegun(j)' \subseteq Unbegun(j)
      BY <3>2, <3>5, RestSets
    <3>7. CASE j = i
      <4>1. w \in Unbegun(i)
        BY <3>1 DEF Unbegun, InHand
      <4>2. w \notin Unbegun(i)'
        <5>1. \A k \in batch[w] : k \in Int /\ i <= k
          BY <3>1 DEF InHand, TypeOK
        <5>2. i \in Int
          BY DEF Ids
        <5> QED BY <3>1, <3>2, <5>1, <5>2 DEF Unbegun
      <4>3. attempts'[i] = attempts[i] + 1
        BY <3>1 DEF TypeOK
      <4> QED BY <3>1, <3>3, <3>4, <3>6, <3>7, <4>1, <4>2, <4>3, BoundBegin
    <3>8. CASE j # i
      <4>1. attempts'[j] = attempts[j]
        BY <3>1, <3>8 DEF TypeOK
      <4> QED BY <3>1, <3>3, <3>4, <3>6, <4>1, BoundKept
    <3> QED BY <3>7, <3>8
  <2>6. ASSUME NEW w \in Workers, NEW i \in Ids, Calculate(w, i) PROVE AttemptInv'
    <3>1. /\ UNCHANGED <<deliveries, cursor, phase, batch, seen, attempts>>
          /\ step[w] # 0 /\ step' = [step EXCEPT ![w] = @ + 1]
      BY <2>6 DEF Calculate
    <3>2. Rest(w) /\ step'[w] # 0
      <4>1. step \in [Workers -> 0 .. 4]
        BY DEF TypeOK
      <4>2. step[w] \in Nat /\ step'[w] = step[w] + 1
        BY <3>1, <4>1
      <4>3. Rest(w)
        BY <3>1, <4>1 DEF Rest
      <4> QED BY <4>2, <4>3
    <3>3. \A j \in Ids : /\ w \in Unbegun(j)' => w \in Unbegun(j)
                         /\ w \in Listed(j)' => w \in Listed(j)
      BY <3>1, <3>2 DEF Unbegun, Listed, Handling
    <3> QED BY <3>1, <3>2, <3>3, AttemptsKept
  <2>7. ASSUME NEW w \in Workers, NEW i \in Ids, DeadLetter(w, i) \/ Finish(w, i) PROVE AttemptInv'
    <3>1. /\ InHand(w, i) /\ Proceed(w, i) /\ UNCHANGED <<deliveries, cursor, attempts>>
          /\ \A v \in Workers \ {w} : step'[v] = step[v]
      BY <2>7 DEF DeadLetter, Finish, TypeOK
    <3>2. /\ batch'[w] = batch[w] \ {i}
          /\ batch'[w] # {} => phase'[w] = phase[w]
          /\ \A j \in batch'[w] : j \in Ids /\ i < j /\ seen'[w][j] = seen[w][j]
          /\ phase'[w] # "claim" /\ Rest(w)
      BY <3>1, ProceedAttempts DEF Rest
    <3>3. \A j \in Ids : /\ w \in Unbegun(j)' => w \in Unbegun(j)
                         /\ w \notin Listed(j)'
      <4> SUFFICES ASSUME NEW j \in Ids, w \in Unbegun(j)' PROVE w \in Unbegun(j)
        BY <3>2 DEF Listed
      <4>1. j \in batch'[w] /\ seen'[w][j] < MaxDeliveries
        BY DEF Unbegun
      <4>2. j \in batch[w] /\ i \in batch[w] /\ i < j /\ seen[w][j] < MaxDeliveries /\ Handling(w)
        BY <3>1, <3>2, <4>1 DEF InHand
      <4> QED BY <4>2 DEF Unbegun
    <3> QED BY <3>1, <3>2, <3>3, AttemptsKept
  <2>8. ASSUME NEW w \in Workers, Crash(w) \/ Restart(w) PROVE AttemptInv'
    <3>1. /\ UNCHANGED <<deliveries, cursor, attempts>> /\ Rest(w)
          /\ phase'[w] \in {"down", "select"}
      BY <2>8 DEF Crash, Restart, Note, Rest, redisVars, history, TypeOK
    <3>2. \A j \in Ids : w \notin Unbegun(j)' /\ w \notin Listed(j)'
      BY <3>1 DEF Unbegun, Listed, Handling
    <3> QED BY <3>1, <3>2, AttemptsKept
  <2>9. ASSUME NEW k \in Kinds, Publish(k) PROVE AttemptInv'
    BY <2>1, <2>9 DEF Publish, workerVars, history
  <2>10. ASSUME NEW i \in Ids, GoIdle(i) PROVE AttemptInv'
    BY <2>1, <2>10 DEF GoIdle, workerVars, history
  <2>11. CASE UNCHANGED vars
    BY <2>1, <2>11 DEF vars, redisVars, workerVars, history
  <2> QED
    BY <2>2, <2>3, <2>4, <2>5, <2>6, <2>7, <2>8, <2>9, <2>10, <2>11 DEF Next, Work1
<1>3. TypeOK /\ AttemptInv => AttemptsBounded
  <2> SUFFICES ASSUME TypeOK, AttemptInv, NEW i \in Ids
               PROVE  attempts[i] <= MaxDeliveries + Cardinality(Workers) - 1
    BY DEF AttemptsBounded
  <2>1. BoundOf(i)
    BY DEF AttemptInv
  <2>2. /\ Cardinality(Unbegun(i)) \in Nat /\ Cardinality(Listed(i)) \in Nat
        /\ Cardinality(Workers) \in Nat /\ deliveries[i] \in Nat /\ attempts[i] \in Nat
        /\ MaxDeliveries \in Nat
    BY WorkerSets, BoundsAssumption DEF TypeOK
  <2> QED BY <2>1, <2>2 DEF BoundOf
<1> QED BY <1>1, <1>2, <1>3, TypeCorrect, PTL DEF Spec

----------------------------------------------------------------------------
(* The refinement.                                                          *)

(* The abstract specification reads the events as this one does.            *)
LEMMA SameEvents ==
    /\ Delivery!Ids = Ids
    /\ Delivery!Poison = Poison
    /\ Delivery!Garbled = Garbled
    /\ Delivery!AllCalculators = AllCalculators
    /\ \A n : Delivery!Copies(n) = Copies(n)
    /\ \A k : Delivery!Work(k) = Work(k)
<1>1. \A k : Delivery!Calculators(k) = Calculators(k)
  BY DEF Delivery!Calculators, Calculators, Delivery!Opened, Opened, Delivery!Closed, Closed
<1>2. \A k : Delivery!Work(k) = Work(k)
  BY <1>1 DEF Delivery!Work, Work
<1> QED
  BY <1>2 DEF Delivery!Ids, Ids, Delivery!Poison, Poison, Delivery!Garbled, Garbled,
     Delivery!Malformed, Malformed, Delivery!AllCalculators, AllCalculators,
     Delivery!Copies, Copies, Delivery!Detected, Detected

LEMMA DropStep ==
    ASSUME TypeOK, PendingInv, UNCHANGED <<stream, applied>>,
           NEW S \in SUBSET Ids, NEW bad \in SUBSET Garbage(S),
           \A i \in S : i \in 1 .. Len(stream) /\ fate[i] = "live",
           fate' = [i \in Ids |-> IF i \in bad THEN "dropped" ELSE fate[i]]
    PROVE  Delivery!Next \/ UNCHANGED Delivery!vars
<1>1. CASE bad = {}
  <2>1. fate' = fate
    BY <1>1 DEF TypeOK
  <2> QED BY <2>1 DEF Delivery!vars
<1>2. CASE bad # {}
  <2>1. Delivery!DropGarbled(bad)
    BY <1>2, SameEvents DEF Delivery!DropGarbled, Garbage
  <2>2. bad \in SUBSET Delivery!Ids
    BY SameEvents DEF Garbage
  <2> QED BY <2>1, <2>2 DEF Delivery!Next
<1> QED BY <1>1, <1>2

LEMMA SettleStep ==
    ASSUME TypeOK, PendingInv, UNCHANGED <<stream, applied>>, NEW i \in Ids,
           NEW f \in {"done", "dropped", "dead"}, AckOrFail({i}, f), i <= cursor,
           f = "done" => applied[i] = Work(stream[i]), f = "dropped" => stream[i] \in Poison
    PROVE  Delivery!Next \/ UNCHANGED Delivery!vars
<1>1. CASE fate' = fate
  BY <1>1 DEF Delivery!vars
<1>2. CASE fate' # fate
  <2>1. i \in pel /\ fate' = [fate EXCEPT ![i] = f]
    BY <1>2 DEF AckOrFail, Ack, TypeOK
  <2>2. fate[i] = "live" /\ i \in 1 .. Len(stream)
    BY <2>1 DEF PendingInv, PendingUntilSettled, TypeOK, Ids
  <2>3. Delivery!Settle(i, f)
    BY <2>1, <2>2, SameEvents DEF Delivery!Settle
  <2> QED BY <2>3, SameEvents DEF Delivery!Next
<1> QED BY <1>1, <1>2

(* The loop implements at-least-once delivery with one verdict per entry    *)
(* (Delivery of StreamWorker): every command, calculator, crash and lost    *)
(* reply is a step of EventDelivery or changes nothing it sees.             *)
THEOREM DeliveryRefined == Spec => DeliverySpec
<1>1. Init => Delivery!Init
  BY DEF Init, Delivery!Init, Delivery!Ids, Ids
<1>2. TypeOK /\ PendingInv /\ DoneInv /\ [Next]_vars => [Delivery!Next]_(Delivery!vars)
  <2> SUFFICES ASSUME TypeOK, PendingInv, DoneInv, [Next]_vars
               PROVE  Delivery!Next \/ UNCHANGED Delivery!vars
    OBVIOUS
  <2>1. ASSUME UNCHANGED <<stream, applied, fate>>
        PROVE  Delivery!Next \/ UNCHANGED Delivery!vars
    BY <2>1 DEF Delivery!vars
  <2>2. ASSUME NEW k \in Kinds, Publish(k) PROVE Delivery!Next
    BY <2>2 DEF Publish, history, Delivery!Next, Delivery!Publish
  <2>3. ASSUME NEW w \in Workers, Read(w)
        PROVE  Delivery!Next \/ UNCHANGED Delivery!vars
    <3> PICK kept \in SUBSET Garbage(NextBatch) :
          fate' = [i \in Ids |-> IF i \in Garbage(NextBatch) \ kept THEN "dropped" ELSE fate[i]]
      BY <2>3 DEF Read
    <3>1. UNCHANGED <<stream, applied>>
      BY <2>3 DEF Read
    <3>2. \A i \in NextBatch : i \in 1 .. Len(stream) /\ fate[i] = "live"
      <4> SUFFICES ASSUME NEW i \in NextBatch
                   PROVE  i \in 1 .. Len(stream) /\ fate[i] = "live"
        OBVIOUS
      <4>1. i \in Ids /\ cursor < i /\ i \in 1 .. NextCursor /\ NextCursor \in cursor .. Len(stream)
        BY NextBatchType
      <4>2. cursor \in Nat /\ Len(stream) \in Nat
        BY DEF TypeOK
      <4>3. ~(i <= cursor) /\ i \in 1 .. Len(stream)
        BY <4>1, <4>2 DEF Ids
      <4> QED BY <4>1, <4>3 DEF PendingInv
    <3> QED BY <3>1, <3>2, NextBatchType, DropStep
  <2>4. ASSUME NEW w \in Workers, Claim(w)
        PROVE  Delivery!Next \/ UNCHANGED Delivery!vars
    <3> PICK kept \in SUBSET Garbage(Claimed(w)) :
          fate' = [i \in Ids |-> IF i \in Garbage(Claimed(w)) \ kept THEN "dropped" ELSE fate[i]]
      BY <2>4 DEF Claim
    <3>1. UNCHANGED <<stream, applied>>
      BY <2>4 DEF Claim
    <3>2. Claimed(w) \subseteq Ids /\ Claimed(w) \subseteq pel
      BY BoundsAssumption DEF Claimed, TypeOK, Ids
    <3>3. \A i \in Claimed(w) : i \in 1 .. Len(stream) /\ fate[i] = "live"
      BY <3>2 DEF PendingInv, PendingUntilSettled, TypeOK, Ids
    <3> QED BY <3>1, <3>2, <3>3, DropStep
  <2>5. ASSUME NEW w \in Workers, NEW i \in Ids, DeadLetter(w, i)
        PROVE  Delivery!Next \/ UNCHANGED Delivery!vars
    <3>1. i <= cursor
      BY <2>5 DEF DeadLetter, InHand, TypeOK, Ids
    <3> QED BY <2>5, <3>1, SettleStep DEF DeadLetter
  <2>6. ASSUME NEW w \in Workers, NEW i \in Ids, Calculate(w, i)
        PROVE  Delivery!Next \/ UNCHANGED Delivery!vars
    <3> DEFINE c == Calculators(stream[i])[step[w]]
    <3>1. i \in 1 .. Len(stream) /\ stream[i] \in AllKinds
          /\ step[w] \in 1 .. Len(Calculators(stream[i]))
      BY <2>6 DEF Calculate, InHand, TypeOK, Ids, AllKinds
    <3>2. c \in Work(stream[i]) /\ c \in AllCalculators
      <4>1. c \in Work(stream[i])
        BY <3>1 DEF Work
      <4>2. Calculators(stream[i]) \in Seq(AllCalculators)
        BY <3>1, CalculatorsType
      <4> QED BY <3>1, <4>1, <4>2
    <3>3. CASE Delivery!Apply(i, c)
      BY <3>2, <3>3, SameEvents DEF Delivery!Next
    <3>4. CASE UNCHANGED <<stream, applied, fate>>
      BY <2>1, <3>4
    <3>5. Delivery!Apply(i, c) \/ UNCHANGED <<stream, applied, fate>>
      BY <2>6, <3>1, <3>2, SameEvents DEF Calculate, Delivery!Apply
    <3> QED BY <3>3, <3>4, <3>5
  <2>7. ASSUME NEW w \in Workers, NEW i \in Ids, Finish(w, i)
        PROVE  Delivery!Next \/ UNCHANGED Delivery!vars
    <3>1. /\ UNCHANGED <<stream, applied>> /\ InHand(w, i)
          /\ step[w] > Len(Calculators(stream[i]))
          /\ fate' = fate \/ (~failed[w] /\ AckOrFail({i}, Verdict(i)))
      BY <2>7 DEF Finish
    <3>2. i <= cursor
      BY <3>1 DEF InHand, TypeOK, Ids
    <3>3. CASE fate' = fate
      BY <2>1, <3>1, <3>3
    <3>4. CASE ~failed[w] /\ AckOrFail({i}, Verdict(i))
      <4>1. /\ Verdict(i) \in {"done", "dropped", "dead"}
            /\ Verdict(i) = "dropped" => stream[i] \in Poison
        BY DEF Verdict
      <4>2. applied[i] = Work(stream[i])
        BY <3>1, <3>4, FinishedWork
      <4> QED BY <3>1, <3>2, <3>4, <4>1, <4>2, SettleStep
    <3> QED BY <3>1, <3>3, <3>4
  <2>8. ASSUME NEW i \in Ids, GoIdle(i) PROVE Delivery!Next \/ UNCHANGED Delivery!vars
    BY <2>1, <2>8 DEF GoIdle, history
  <2>9. ASSUME NEW w \in Workers, ReadLost(w) \/ ListPending(w) \/ ClaimLost(w)
                                     \/ Crash(w) \/ Restart(w)
        PROVE  Delivery!Next \/ UNCHANGED Delivery!vars
    BY <2>1, <2>9 DEF ReadLost, ListPending, ClaimLost, Crash, Restart, redisVars, history
  <2>10. ASSUME NEW w \in Workers, NEW i \in Ids, Begin(w, i)
         PROVE  Delivery!Next \/ UNCHANGED Delivery!vars
    BY <2>1, <2>10 DEF Begin, redisVars
  <2>11. CASE UNCHANGED vars
    BY <2>1, <2>11 DEF vars, redisVars, history
  <2> QED
    BY <2>2, <2>3, <2>4, <2>5, <2>6, <2>7, <2>8, <2>9, <2>10, <2>11 DEF Next, Work1
<1> QED
  BY <1>1, <1>2, TypeCorrect, PendingInvariant, DoneInvariant, PTL
  DEF Spec, DeliverySpec, Delivery!Spec
=============================================================================
