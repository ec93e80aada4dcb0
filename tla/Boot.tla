-------------------------------- MODULE Boot --------------------------------
(***************************************************************************)
(* How the API process comes up (run in cmd/api/main.go): migrations       *)
(* (internal/db/db.go), the seed file (internal/db/seed.go), the backfill  *)
(* of the metric tables (internal/metrics/backfill.go) behind its gate     *)
(* HasSnapshots, and the consumer group; then it serves.  One API process, *)
(* as docker-compose.yml runs it, with a worker beside it.                 *)
(*                                                                         *)
(* One action is one statement or transaction.  An error of any of them,   *)
(* and the 60 seconds the boot may take, end the process as a crash does,  *)
(* and the supervisor starts it again.  Of a metric the model knows        *)
(* whether the table holds its value for the seeded trades.                *)
(***************************************************************************)
EXTENDS Naturals, Sequences

CONSTANTS SeedOnStart,  \* SEED_ON_START
          Migrations,   \* the number of *.up.sql files
          MaxPosts,     \* bound on the trades clients post
          MaxCrashes    \* bound on the crashes and failed boots

ASSUME BootAssumption == /\ SeedOnStart \in BOOLEAN
                         /\ Migrations \in Nat \ {0}
                         /\ MaxPosts \in Nat /\ MaxCrashes \in Nat

VARIABLES
    phase,      \* where run is
    next,       \* the migration file, or the backfill statement, it comes to
    version,    \* schema_migrations: the files applied, in their order
    seeded,     \* the seed file's trades are in table trades
    posted,     \* trades clients have posted
    handled,    \* posted trades the worker has computed metrics for
    snapshots,  \* user_metrics has a row
    computed,   \* what the tables hold for the seeded trades
    group,      \* the consumer group exists
    crashes     \* crashes so far

vars == <<phase, next, version, seeded, posted, handled, snapshots, computed, group, crashes>>
database == <<version, seeded, posted, handled, snapshots, computed, group>>

Phases == {"down", "migrate", "seed", "gate", "backfill", "group", "serving"}

(* The statements of BackfillFromTrades; the last is a transaction.         *)
Statements == <<"reset_flags", "revenge_flag", "revenge_count", "plan_adherence",
                "win_rate", "session_tilt", "overtrading">>

Metrics == {Statements[n] : n \in 2 .. Len(Statements)}

(* Those that upsert rows of user_metrics.  The first of them does so for   *)
(* every user with a trade, so the seed data always leave the table a row.  *)
SnapshotWriters == {"revenge_count", "plan_adherence", "overtrading"}

GoTo(p) == phase' = p /\ next' = 1

----------------------------------------------------------------------------

Start == /\ phase = "down"
         /\ GoTo("migrate")
         /\ UNCHANGED <<database, crashes>>

(* Operators whose name ends in Bug are not part of the model: each is the  *)
(* definition after it with one plausible mistake, which some property      *)
(* listed in PROJECT.json tells from the code.                              *)

MigrateBug ==  \* migrated is taken to mean migrated to the end
    /\ phase = "migrate"
    /\ IF next > Migrations \/ (version > 0 /\ next = 1)
         THEN GoTo(IF SeedOnStart THEN "seed" ELSE "group") /\ UNCHANGED version
         ELSE /\ version' = IF next > version THEN next ELSE version
              /\ next' = next + 1
              /\ UNCHANGED phase
    /\ UNCHANGED <<seeded, posted, handled, snapshots, computed, group, crashes>>

(* The files in order; one that is recorded is passed over, another is      *)
(* applied and recorded in one transaction.                                 *)
Migrate ==
    /\ phase = "migrate"
    /\ IF next > Migrations
         THEN GoTo(IF SeedOnStart THEN "seed" ELSE "group") /\ UNCHANGED version
         ELSE /\ version' = IF next > version THEN next ELSE version
              /\ next' = next + 1
              /\ UNCHANGED phase
    /\ UNCHANGED <<seeded, posted, handled, snapshots, computed, group, crashes>>

SeedBug ==  \* COPY without the look at the table: its keys exist already
    /\ phase = "seed"
    /\ IF seeded THEN phase' = "down" /\ UNCHANGED next ELSE GoTo("gate")
    /\ seeded' = TRUE
    /\ UNCHANGED <<version, posted, handled, snapshots, computed, group, crashes>>

(* Nothing to do when the table has rows; otherwise one COPY of them all.   *)
Seed ==
    /\ phase = "seed"
    /\ seeded' = (seeded \/ posted = 0)
    /\ GoTo("gate")
    /\ UNCHANGED <<version, posted, handled, snapshots, computed, group, crashes>>

GateBug ==  \* backfill at every start
    /\ phase = "gate"
    /\ GoTo("backfill")
    /\ UNCHANGED <<database, crashes>>

(* HasSnapshots.                                                            *)
Gate ==
    /\ phase = "gate"
    /\ GoTo(IF snapshots THEN "group" ELSE "backfill")
    /\ UNCHANGED <<database, crashes>>

(* Each statement recomputes its metric from the rows of table trades.      *)
Backfill ==
    /\ phase = "backfill"
    /\ LET s == Statements[next]
       IN /\ computed' = IF s = "reset_flags" THEN computed \ {"revenge_flag"}
                                              ELSE computed \cup {s}
          /\ snapshots' = (snapshots \/ s \in SnapshotWriters)
    /\ IF next < Len(Statements) THEN next' = next + 1 /\ UNCHANGED phase ELSE GoTo("group")
    /\ UNCHANGED <<version, seeded, posted, handled, group, crashes>>

(* XGROUP CREATE MKSTREAM; that it exists already is no error, be it from   *)
(* an earlier boot or from the worker, which makes the same call.           *)
EnsureGroup ==
    /\ phase = "group"
    /\ group' = TRUE
    /\ GoTo("serving")
    /\ UNCHANGED <<version, seeded, posted, handled, snapshots, computed, crashes>>

(* A client posts a trade.                                                  *)
Post ==
    /\ phase = "serving"
    /\ posted < MaxPosts
    /\ posted' = posted + 1
    /\ UNCHANGED <<phase, next, version, seeded, handled, snapshots, computed, group, crashes>>

HandleBug ==  \* redelivered events are handled and counted again
    /\ posted > 0
    /\ handled < MaxPosts
    /\ handled' = handled + 1
    /\ snapshots' \in {snapshots, TRUE}
    /\ UNCHANGED <<phase, next, version, seeded, posted, computed, group, crashes>>

(* The worker computes its metrics: any of them may be the first row.       *)
Handle ==
    /\ handled < posted
    /\ handled' = handled + 1
    /\ snapshots' \in {snapshots, TRUE}
    /\ UNCHANGED <<phase, next, version, seeded, posted, computed, group, crashes>>

Crash ==
    /\ phase # "down"
    /\ crashes < MaxCrashes
    /\ phase' = "down"
    /\ crashes' = crashes + 1
    /\ UNCHANGED <<next, database>>

----------------------------------------------------------------------------

Init == /\ phase = "down"
        /\ next = 1
        /\ version = 0
        /\ seeded = FALSE
        /\ posted = 0
        /\ handled = 0
        /\ snapshots = FALSE
        /\ computed = {}
        /\ group = FALSE
        /\ crashes = 0

Run == Start \/ Migrate \/ Seed \/ Gate \/ Backfill \/ EnsureGroup

Next == Run \/ Post \/ Handle \/ Crash

Spec == Init /\ [][Next]_vars

(* The process goes on booting, and is started again when it is down        *)
(* (restart: unless-stopped in docker-compose.yml).                         *)
FairSpec == Spec /\ WF_vars(Run)

----------------------------------------------------------------------------
(* Type correctness.                                                        *)
TypeOK ==
    /\ phase \in Phases
    /\ next \in 1 .. Migrations + 1 \cup 1 .. Len(Statements)
    /\ version \in 0 .. Migrations
    /\ seeded \in BOOLEAN
    /\ posted \in 0 .. MaxPosts
    /\ handled \in 0 .. posted
    /\ snapshots \in BOOLEAN
    /\ computed \in SUBSET Metrics
    /\ group \in BOOLEAN
    /\ crashes \in 0 .. MaxCrashes

(* An API that serves has its whole schema, the seed data and the group     *)
(* its events go to, however many boots it took (run in cmd/api/main.go).   *)
ServingReady ==
    phase = "serving" => version = Migrations /\ group /\ (SeedOnStart => seeded)

(* "If metrics already exist we leave them alone instead of clobbering live *)
(* state" (backfill.go, HasSnapshots): the backfill never runs once a trade *)
(* has been posted, although the gate looks at one table only.              *)
BackfillUndisturbed == phase = "backfill" => posted = 0

(* Whatever state a crash leaves behind, the process comes up again.        *)
EventuallyServing == (phase = "down") ~> (phase = "serving")

(* "Seed data is backfilled into the metric tables on first boot so GET     *)
(* /users/:id/metrics returns real values immediately" (README.md).         *)
Backfilled == SeedOnStart /\ phase = "serving" => Metrics \subseteq computed
=============================================================================
