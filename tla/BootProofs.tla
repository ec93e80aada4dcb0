----------------------------- MODULE BootProofs -----------------------------
(***************************************************************************)
(* Proofs about the boot of the API process, for any number of migration   *)
(* files, posted trades and crashes, seeding switched on or off.           *)
(***************************************************************************)
EXTENDS Boot, TLAPS

(* Where next points while the process works through a list.                *)
NextInv == /\ phase = "migrate" => next \in 1 .. Migrations + 1
           /\ phase = "backfill" => next \in 1 .. Len(Statements)

(* The files passed are applied, and a boot gets past them only with all.   *)
SchemaInv == /\ phase = "migrate" => next <= version + 1
             /\ phase \notin {"down", "migrate"} => version = Migrations

(* A table that is not empty holds the seed data: clients cannot post       *)
(* before the first boot has seeded it.                                     *)
SeedInv == /\ phase \in {"seed", "gate", "backfill"} => SeedOnStart
           /\ SeedOnStart /\ posted > 0 => seeded
           /\ SeedOnStart /\ phase \in {"gate", "backfill", "group", "serving"} => seeded

(* A boot that seeds gets past the gate only with a row in user_metrics, and*)
(* a client can post only then, so a later boot finds the gate shut.        *)
GateInv == /\ SeedOnStart /\ phase \in {"group", "serving"} => snapshots
           /\ SeedOnStart /\ posted > 0 => snapshots
           /\ phase = "backfill" => posted = 0

GroupInv == phase = "serving" => group

BootInv == TypeOK /\ NextInv /\ SchemaInv /\ SeedInv /\ GateInv /\ GroupInv

LEMMA StatementsLength == Len(Statements) = 7
BY DEF Statements

LEMMA StatementsMetrics == \A n \in 1 .. 7 : Statements[n] = "reset_flags" \/ Statements[n] \in Metrics
<1>1. \A n \in 2 .. 7 : Statements[n] \in Metrics
  BY StatementsLength DEF Metrics
<1>2. Statements[1] = "reset_flags"
  BY DEF Statements
<1> QED BY <1>1, <1>2

LEMMA LastStatement == Statements[7] \in SnapshotWriters
BY DEF Statements, SnapshotWriters

LEMMA InitInv == Init => BootInv
<1> SUFFICES ASSUME Init PROVE BootInv
  OBVIOUS
<1>1. /\ phase \in Phases /\ next \in 1 .. Migrations + 1 \cup 1 .. Len(Statements)
      /\ version \in 0 .. Migrations /\ posted \in 0 .. MaxPosts /\ handled \in 0 .. posted
      /\ crashes \in 0 .. MaxCrashes
  BY BootAssumption, StatementsLength DEF Init, Phases
<1>2. /\ seeded \in BOOLEAN /\ snapshots \in BOOLEAN /\ group \in BOOLEAN
      /\ computed \in SUBSET Metrics
  BY DEF Init
<1>3. TypeOK
  BY <1>1, <1>2 DEF TypeOK
<1> QED BY <1>3 DEF Init, BootInv, NextInv, SchemaInv, SeedInv, GateInv, GroupInv

LEMMA MigrateInv == ASSUME BootInv, Migrate PROVE BootInv'
<1>1. CASE next > Migrations
  <2>1. version = Migrations
    BY <1>1, BootAssumption DEF Migrate, BootInv, TypeOK, SchemaInv
  <2>2. TypeOK'
    BY <1>1, BootAssumption, StatementsLength DEF Migrate, GoTo, BootInv, TypeOK, Phases
  <2> QED BY <1>1, <2>1, <2>2, BootAssumption
          DEF Migrate, GoTo, BootInv, TypeOK, NextInv, SchemaInv, SeedInv, GateInv, GroupInv
<1>2. CASE ~(next > Migrations)
  <2>1. next \in 1 .. Migrations /\ next <= version + 1 /\ version \in 0 .. Migrations
    BY <1>2, BootAssumption DEF Migrate, BootInv, TypeOK, NextInv, SchemaInv
  <2>2. /\ version' = IF next > version THEN next ELSE version
        /\ next' = next + 1 /\ phase' = phase /\ phase = "migrate"
        /\ UNCHANGED <<seeded, posted, handled, snapshots, computed, group, crashes>>
    BY <1>2 DEF Migrate
  <2>3. version' \in 0 .. Migrations /\ next' \in 1 .. Migrations + 1 /\ next' <= version' + 1
    BY <2>1, <2>2, BootAssumption
  <2>4. TypeOK'
    BY <2>2, <2>3 DEF BootInv, TypeOK
  <2> QED BY <2>2, <2>3, <2>4 DEF BootInv, NextInv, SchemaInv, SeedInv, GateInv, GroupInv
<1> QED BY <1>1, <1>2

LEMMA BackfillInv == ASSUME BootInv, Backfill PROVE BootInv'
<1>1. next \in 1 .. 7 /\ phase = "backfill"
  BY StatementsLength DEF Backfill, BootInv, NextInv
<1>2. computed' \in SUBSET Metrics /\ snapshots' \in BOOLEAN /\ (snapshots => snapshots')
  BY <1>1, StatementsMetrics DEF Backfill, BootInv, TypeOK
<1>3. UNCHANGED <<version, seeded, posted, handled, group, crashes>>
  BY DEF Backfill
<1>4. CASE next < 7
  <2>1. next' = next + 1 /\ phase' = phase
    BY <1>4, StatementsLength DEF Backfill
  <2>2. TypeOK'
    BY <1>1, <1>2, <1>3, <1>4, <2>1, BootAssumption, StatementsLength DEF BootInv, TypeOK
  <2> QED BY <1>1, <1>2, <1>3, <1>4, <2>1, <2>2, StatementsLength
          DEF BootInv, NextInv, SchemaInv, SeedInv, GateInv, GroupInv
<1>5. CASE next = 7
  <2>1. phase' = "group" /\ next' = 1
    BY <1>5, StatementsLength DEF Backfill, GoTo
  <2>2. snapshots'
    BY <1>5, LastStatement DEF Backfill
  <2>3. TypeOK'
    BY <1>2, <1>3, <2>1, BootAssumption, StatementsLength DEF BootInv, TypeOK, Phases
  <2> QED BY <1>1, <1>3, <2>1, <2>2, <2>3
          DEF BootInv, NextInv, SchemaInv, SeedInv, GateInv, GroupInv
<1> QED BY <1>1, <1>4, <1>5

(* The invariant of the boot: what the phases reached in this boot, and the *)
(* trades posted after an earlier one, say about the database.              *)
THEOREM BootCorrect == Spec => []BootInv
<1>1. BootInv /\ [Next]_vars => BootInv'
  <2> SUFFICES ASSUME BootInv, [Next]_vars PROVE BootInv'
    OBVIOUS
  <2> USE BootAssumption, StatementsLength
  <2>1. CASE Start
    <3>1. TypeOK'
      BY <2>1 DEF Start, GoTo, database, BootInv, TypeOK, Phases
    <3> QED BY <2>1, <3>1 DEF Start, GoTo, database, BootInv, TypeOK, NextInv, SchemaInv,
                              SeedInv, GateInv, GroupInv
  <2>2. CASE Migrate
    BY <2>2, MigrateInv
  <2>3. CASE Seed
    <3>1. TypeOK'
      BY <2>3 DEF Seed, GoTo, BootInv, TypeOK, Phases
    <3>2. /\ phase = "seed" /\ phase' = "gate" /\ posted \in Nat
          /\ UNCHANGED <<version, posted, handled, snapshots, computed, group, crashes>>
      BY <2>3 DEF Seed, GoTo, BootInv, TypeOK
    <3>3. seeded'
      <4>1. seeded \/ posted = 0
        BY <3>2 DEF BootInv, SeedInv
      <4> QED BY <2>3, <4>1 DEF Seed
    <3> QED BY <3>1, <3>2, <3>3 DEF BootInv, NextInv, SchemaInv, SeedInv, GateInv, GroupInv
  <2>4. CASE Gate
    <3>1. TypeOK'
      BY <2>4 DEF Gate, GoTo, database, BootInv, TypeOK, Phases
    <3> QED BY <2>4, <3>1 DEF Gate, GoTo, database, BootInv, TypeOK, NextInv, SchemaInv,
                              SeedInv, GateInv, GroupInv
  <2>5. CASE Backfill
    BY <2>5, BackfillInv
  <2>6. CASE EnsureGroup
    <3>1. TypeOK'
      BY <2>6 DEF EnsureGroup, GoTo, BootInv, TypeOK, Phases
    <3> QED BY <2>6, <3>1 DEF EnsureGroup, GoTo, BootInv, NextInv, SchemaInv, SeedInv,
                              GateInv, GroupInv
  <2>7. CASE Post
    <3>1. TypeOK'
      BY <2>7 DEF Post, BootInv, TypeOK
    <3> QED BY <2>7, <3>1 DEF Post, BootInv, NextInv, SchemaInv, SeedInv, GateInv, GroupInv
  <2>8. CASE Handle
    <3>1. snapshots' \in BOOLEAN /\ (snapshots => snapshots')
      <4>1. snapshots' = snapshots \/ snapshots' = TRUE
        BY <2>8 DEF Handle
      <4>2. snapshots \in BOOLEAN
        BY DEF BootInv, TypeOK
      <4>3. CASE snapshots' = snapshots
        BY <4>2, <4>3
      <4>4. CASE snapshots' = TRUE
        BY <4>4
      <4> QED BY <4>1, <4>3, <4>4
    <3>2. /\ handled' \in 0 .. posted
          /\ UNCHANGED <<phase, next, version, seeded, posted, computed, group, crashes>>
      BY <2>8 DEF Handle, BootInv, TypeOK
    <3>3. TypeOK'
      BY <3>1, <3>2 DEF BootInv, TypeOK
    <3> QED BY <3>1, <3>2, <3>3 DEF BootInv, NextInv, SchemaInv, SeedInv, GateInv, GroupInv
  <2>9. CASE Crash
    <3>1. TypeOK'
      BY <2>9 DEF Crash, database, BootInv, TypeOK, Phases
    <3> QED BY <2>9, <3>1 DEF Crash, database, BootInv, NextInv, SchemaInv, SeedInv, GateInv,
                              GroupInv
  <2>10. CASE UNCHANGED vars
    BY <2>10 DEF vars, BootInv, TypeOK, NextInv, SchemaInv, SeedInv, GateInv, GroupInv
  <2> QED BY <2>1, <2>2, <2>3, <2>4, <2>5, <2>6, <2>7, <2>8, <2>9, <2>10 DEF Next, Run
<1> QED BY <1>1, InitInv, PTL DEF Spec

(* Type correctness (TypeOK of Boot): in particular the migrations recorded *)
(* never pass the files there are, and the worker never computes metrics    *)
(* for more trades than were posted.                                        *)
THEOREM TypeCorrect == Spec => []TypeOK
<1>1. BootInv => TypeOK
  BY DEF BootInv
<1> QED BY <1>1, BootCorrect, PTL

(* However many boots it took, an API that serves has its whole schema, the *)
(* seed data and the consumer group (run in cmd/api/main.go).               *)
THEOREM ServingCorrect == Spec => []ServingReady
<1>1. BootInv => ServingReady
  BY DEF BootInv, SchemaInv, SeedInv, GroupInv, ServingReady
<1> QED BY <1>1, BootCorrect, PTL

(* The backfill never runs once a client has posted a trade, so it never    *)
(* overwrites what a worker has computed (HasSnapshots in backfill.go).     *)
THEOREM BackfillCorrect == Spec => []BackfillUndisturbed
<1>1. BootInv => BackfillUndisturbed
  BY DEF BootInv, GateInv, BackfillUndisturbed
<1> QED BY <1>1, BootCorrect, PTL
=============================================================================
