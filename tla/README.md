# A TLA+ model of the trade journal backend

The repository is a trading-journal backend in Go: an API process that stores
trades in PostgreSQL and announces them on a Redis stream, and a worker process
that reads the stream and computes five behavioural metrics. This directory
holds TLA+ modules for its parts, TLC configurations that check them on small
instances, and TLAPS proofs of the main results for instances of any size.
`PROJECT.json` maps every definition to the lines it models and lists the runs,
the hazards, the findings and the theorems.

## 1. Inventory

### Components

| Component | State it keeps | Operations | Modelled in |
|---|---|---|---|
| API process (`cmd/api/main.go`) | up, draining, down | boot, serve, SIGTERM drain (10 s), exit | `Boot`, `ApiRequest`, `TradeIntake` |
| Migrations and seed (`internal/db`) | `schema_migrations`, `trades` | `RunMigrations`, `SeedFromCSV` | `Boot` (without CSV parsing) |
| Backfill (`metrics/backfill.go`) | all metric tables | `HasSnapshots`, `BackfillFromTrades` | `Backfill` (what is computed), `Boot` (when) |
| Trade intake (`internal/trades`) | table `trades` | `create`, `get`; `Insert`, `Get` | `TradeIntake`, `TradeLedger` |
| Trade rules (`validate.go`, `derive`, the table's CHECKs) | - | `validate`, `derive`, `round8` | `TradeRules` |
| Producer (`queue/producer.go`) | - (a goroutine per new trade) | `Publish`, `publishOnce` | `TradeIntake`; `Publish` and `Copies` in `StreamWorker` |
| Event types (`queue/queue.go`, `process`) | - | dispatch by type | `TradeEvents` |
| Consumer and loop (`queue/consumer.go`, `worker/worker.go`, `cmd/worker`) | batch in hand; in Redis: group cursor, pending list, delivery counts | `Read`, `ClaimStuck`, `Ack`, `Run`, `handle`, `process` | `StreamWorker`, `EventDelivery` |
| Metrics of closed trades | `user_metrics`, `user_emotion_metrics`, `session_metrics` | `PlanAdherence`, `WinRateByEmotion`, `SessionTilt` | `CloseMetrics` |
| Metrics of opened trades | `trades.revenge_flag`, `user_metrics`, `overtrading_events` | `RevengeFlag`, `Overtrading` | `OpenMetrics` |
| Router and middleware (`internal/middleware`, `httpx`) | per request: trace id, user, recorded status | `Trace`, `Logger`, `Recoverer`, `Authenticator`, `RequireUserMatch`, `WriteError`, `WriteJSON` | `ApiRequest` |
| Metrics read API (`metrics/handler.go`, reads of `metrics/repo.go`) | - | `getMetrics`, `LoadSnapshot`, `LoadBuckets` | `ApiRequest` |
| Health (`internal/health`) | - | `check`, `QueueLag` | `ApiRequest` |
| Tokens (`internal/auth`) | - | `Parse` | `ApiRequest` (the claims, not the cryptography) |
| Connection pool (`db.NewPool`, pgxpool) | connections | acquire, release | `ApiRequest` |
| Configuration, logging | none | reads the environment, formats | not modelled, section 8 |

### How they interact

A POST goes through the authenticator, decoding and `validate`, then one
`INSERT ... ON CONFLICT DO NOTHING`. Only a post that created the row starts a
goroutine that appends one event to the stream, within 200 ms, while the handler
answers. Workers are consumers of one group. `XREADGROUP` moves entries to the
pending list of the consumer; `XACK` removes them; every 30 s a worker lists old
pending entries (`XPENDING`) and takes over those idle for 30 s (`XCLAIM`). An
entry delivered more than five times is acknowledged unprocessed (dead letter).
The calculators read and write the tables directly, one statement at a time and
without a transaction around them. The overtrading calculator appends events of
its own to the same stream. API and worker share only the two stores.

Every request passes `Trace`, `Logger` and `Recoverer`; trades and metrics also
the authenticator, metrics the tenancy guard. All handlers, `/health` among
them, take their connections from one pool of 25. A metrics request makes four
reads one after the other, each with a connection of its own.

### What is hard about it

- The row and its event are two writes to two systems with nothing that ties
  them together; a lost reply, a crash or a slow Redis falls between them.
- Delivery is at least once: a batch may be handled by two workers at the same
  time, a crash may come after any statement, and the dead-letter rule acts on a
  count read one command before the claim.
- The calculators are sequences of statements whose partial effects stay when a
  later statement fails, and are then run again from the start.
- Events are handled in another order than their trades were made; time is what
  clients wrote into the trades, in a finer grain than the events carry.
- The boot sequence decides from one table whether all the others are complete.
- Two workers read and write the same rows of the metric tables in separate
  statements, and the one that read first may write last.
- Queries have no deadline but the client's patience: a hung PostgreSQL keeps
  every connection, and `/health` needs one as well. A handler may fail, panic
  or lose a result set at any read, and the client, the log and the pool each
  need their own clean-up.

### What correctness means, by component

- *Intake*: a trade id is written once, every 200 carries what is stored, the
  stream never contradicts the table, every request is answered whatever Redis
  does (`LedgerSpec`, `EventMatchesRow`, `EventsBounded`, `WriterAnnounces`,
  `RequestAnswered`).
- *Worker loop*: a delivered entry is pending until it is settled once; done
  means every calculator succeeded; the dead-letter rule strikes neither early
  nor never (`PendingUntilSettled`, `DoneMeansApplied`, `DeadLetterAtLimit`,
  `AttemptsBounded`, `EventuallySettled`, `DeliverySpec`).
- *Metrics*: once the events are settled, what the tables hold is what the
  trades say (`PlanFresh`, `TiltFresh`, `WinsCover`, `FlagExact`,
  `RevengeCovers`, `IncidentsReal`, `CounterNotAhead`, `SpikesDetected`), and
  what cannot be computed is not settled (`MixedNeverSettled`).
- *Rules*: what `validate` lets through the table accepts, up to the size of
  amounts; outcome and pnl are those of the trade (`FailedOnlyForAmounts`,
  `OutcomeTrue`, `PnlClose`).
- *Boot*: whatever an interrupted boot leaves, the next one completes it, and
  never over live data (`ServingReady`, `BackfillUndisturbed`,
  `EventuallyServing`).
- *Backfill*: its SQL and its sliding window compute what the definitions of the
  metrics say, from whatever the tables held before (`RevengeExact`,
  `SnapshotsExact`, `SpikesExact`).
- *Requests*: each is answered and logged once, under one trace id; metrics go
  to their user only, and whole; no connection is lost; `/health` keeps its
  budget and no request waits for ever once PostgreSQL is back (`Accounted`,
  `MetricsWhole`, `PoolConserved`, `HealthAnswered`, `AllAnswered`).

The hazards, each at its line and with the properties that would catch it, are
listed in `PROJECT.json`.

## 2. Modules

```
TradeEvents                     event types, what is malformed, who computes what
  EventDelivery                 abstract: at-least-once with one verdict per entry
  StreamWorker                  group, consumers, loop        implements EventDelivery
    MCStreamWorker, StreamWorkerProofs
  TradeIntake                   handlers, publisher, process  implements TradeLedger
    MCTradeIntake, TradeIntakeProofs
TradeLedger                     abstract: the idempotent store of trades
CloseMetrics                    trade.closed calculators
  MCCloseMetrics, CloseMetricsProofs
OpenMetrics                     trade.opened calculators
  MCOpenMetrics, OpenMetricsProofs
TradeRules                      validate, derive, round8 and the table's CHECKs
  MCTradeRules, TradeRulesProofs
Boot                            migrations, seed, backfill, group
  BootProofs
Backfill                        what the backfill computes, statement by statement
  MCBackfill, BackfillProofs
ApiRequest                      middleware chain, reads, health, connection pool
  MCApiRequest, ApiRequestProofs
```

Operators whose names end in `Bug` are not part of the models. Each is the
definition that follows it with one plausible mistake; `PROJECT.json`
("mutants") names the property that tells it from the code.

**TradeEvents.** The kinds of stream entry: the three event types, `Malformed`
(decodes, and `process` rejects its ids) and `Garbled` (`decodeValues` fails).
`Calculators(k)` is the sequence `process` runs for a kind.

**StreamWorker.** One action is one command to Redis with the local code up to
the next one, or one calculator. Redis is external: `cursor` is the group's last
delivered id, `pel` its pending list, `deliveries` the delivery counters, `idle`
the entries that have been pending for 30 s. Of each worker the model keeps the
loop's position (`phase`), the messages it has still to handle (`batch`) with
the delivery count it was told (`seen`), the next calculator (`step`) and
whether one failed (`failed`). `Read` is `Consumer.Read`, `ListPending` and
`Claim` are the two commands of `ClaimStuck`, `ReadLost` and `ClaimLost` the
same commands executed with the reply lost, `Begin`, `DeadLetter`, `Calculate`
and `Finish` are `handle` with `process` inside. `applied`, `attempts` and
`fate` are history: what has succeeded for an entry, how often `process` ran,
and its verdict. A worker stopped by a signal abandons its batch just as a
crashed one does, so `Crash` stands for both.

**TradeIntake.** One action is one database statement of a handler or one
`publishOnce`, with go-redis's own retries inside it. `pc`, `loaded`, `inserted`
and `code` are the local state of a request's handler, `pub` that of its
publishing goroutine, `rows` the table, `events` the copies on the stream. A
statement may fail, or commit with its reply lost (`InsertUnheard`; that is also
what a client that disconnects causes). `Crash` ends everything; `Sigterm`
drains handlers and, as the code does, waits for no publisher (`Exit`). Whether
a body is valid is part of the request here; `TradeRules` says what it means.

**CloseMetrics, OpenMetrics.** One action is one SQL statement of a calculator.
The tilt statement is two: PostgreSQL takes its snapshot before it locks the
session's row. Every statement may fail without effect or after it. The stream
is reduced to what `StreamWorker` establishes about it: a live event may be
delivered to any worker, to several at once, up to `MaxDeliveries` times; it is
done only when all its calculators succeeded in one delivery. Averages are kept
as the set of trades they are taken over, which tells apart all that the
properties need. `PlanBroken` is a result set that breaks off: `PlanAdherence`
does not consult `rows.Err`. `CloseMetrics` keeps two history variables for the
race of two workers: `behind` has the workers that read their rows before
another one wrote the same row of the table, `stale` the users and sessions
whose row was last written by such a worker. `PlanFresh` and `TiltFresh` are
about the others, so they also say that a row heals with the next write of a
worker that is not behind. Both are false without the exception. A broken result
set counts the same way: the worker that has lost some of the rows is `behind`,
and one that has lost all of them, which writes nothing, leaves the user `stale`
and puts `behind` those that had read before.

**TradeRules.** One step validates a body, the next derives and inserts. Amounts
are integers, multiples of a grain finer than a step of `NUMERIC(18,8)`.
`Round8` includes the conversion to int64 and any result it may give beyond the
range. The rounding of float64 products is left out.

**Boot.** One action is one statement or transaction of `run` up to
`ListenAndServe`. `computed` is the set of metrics the tables hold for the
seeded trades. An error, and the 60 s limit of the boot, end the process as a
crash does.

**Backfill.** One action is one statement of `BackfillFromTrades`; the scan in
Go and the final transaction are one each. The SQL is translated by what it
computes: `MAX(exit_at)`, `ROW_NUMBER`, `LAG`, the upserts. `Numberings` are all
orders `ROW_NUMBER` may choose, as nothing orders rows of equal exits; `Scores`
are the sets of rows it may leave. `Visit` is the body of the loop over entry
times, `Walk` the local variables after each turn of it, `Spikes` the events at
its end. `Fail` and the
`"down"` alternative of `Then` end the process before or after a statement took
effect; `Start` asks the gate again. The properties restate each metric by a
different route (counting in sets instead of sorting and sliding), and `Init`
lets a seed file and a worker leave flags, counts and events behind.

**ApiRequest.** `req[r]` is one request: where it is in the chain (`depth`,
`mode`: going in, returning or unwinding a panic), the handler's next statement
(`stage`), whether it holds a connection (`busy`), what was written (`sent`,
`recorded`) and the log lines. `Chain` and `Outer` are the calls of `r.Use` in
`run`; `Left` is what each middleware does after the one inside it. `Load` and
its three kin are the reads of `LoadSnapshot` and `LoadBuckets`; `Ping`,
`PingTimeout` and `QueueLag` are `check`. `LoadFailed` stands for an error of
PostgreSQL and for a client that goes away, which cancels the query. `Toggle`
makes PostgreSQL hang or come back. `Panic` may strike anywhere in a handler or
guard until it writes its response, which is the last thing each of them does. Of `create` and `get` only the query and the
answer are here; `TradeIntake` has the rest.

## 3. Runs

| Run | Checks | Instance | Distinct states |
|---|---|---|---|
| `worker_pair` | safety of the loop, `DeliverySpec` | 2 workers (symmetric), 2 entries, batch 2, threshold 2, 1 fault | 1,872,170 |
| `worker_solo` | `EventuallySettled` | 1 worker, 2 entries (closed, malformed, garbled), threshold 2, 2 faults | 286,062 |
| `intake_rivals` | all of the intake, `LedgerSpec`, `RequestAnswered` | 2 requests out of 10 bodies, 1 trade id, 1 client retry, 1 fault | 31,738 |
| `intake_unpublished` | finding: `EventuallyPublished` | 1 request, no fault | violated |
| `close_pair` | `PlanFresh`, `TiltFresh`, `MixedNeverSettled`, `WinsCover` | 2 workers (symmetric), 2 of 3 closed trades of one session, rolling window 1, threshold 2, 1 broken result set | 1,059,872 |
| `close_twice` | finding: `WinsExact` | 1 worker, no broken result set | violated |
| `open_pair` | flags, counters and incidents | 2 workers, a loss and 2 opens, limit 1, window 5, events in units of 2, threshold 2 | 778,504 |
| `rules_grid` | rules, outcome, pnl | 3,647 bodies | 8,247 |
| `boot_restarts` | boot, with `EventuallyServing` | 2 migrations, 2 posts, 4 crashes | 1,269 |
| `boot_skipped` | finding: `Backfilled` | 1 crash | violated |
| `backfill_grid` | `RevengeExact`, `SnapshotsExact`, `SpikesExact` | 1,486 contents of `trades`, 2 starts | 138,648 |
| `api_requests` | all of `ApiRequest`, with `HealthAnswered`, `AllAnswered` | 2 requests of 8 kinds, 1 connection | 193,314 |

### Bounds, and why they suffice

- *Two workers* let one claim what the other holds, and act on a count the other
  has outdated. *Two entries with a batch of two* give a batch that is half
  handled when something happens, and an overtrading entry appended by the first.
- *A threshold of two deliveries* (five in the code) keeps its three cases: a
  first delivery, a redelivery below the limit, one beyond it.
- *Faults* (crashes, lost replies, failed acknowledgements; in the intake also
  SIGTERM and failed statements) are capped, the failures of calculators and
  statements in the metrics modules are not. All safety results are also proved
  (section 4), for any number of faults and any other bound.
- *Two requests on one trade id* are the smallest race; with ten bodies they
  cover re-posts under another status, another user's post, reads and each
  refusal. Trade ids are independent, so one suffices.
- *Three closed trades of one session*: two of one user, closed in the opposite
  order of their entries, and one of another user, with the exit of one of the
  first two. Any two of them are posted,
  so the session is one user's or mixed; a rolling window of one overflows. In
  it a broken result set has no row; with `Rolling = 2` in `close_pair.cfg` it has
  one of two (the run then takes about as long, and passes).
- *Three trades in `open_pair`* with limit 1: a loss, a trade within the gap
  after it, and one within the window but beyond the gap, whose event's time is
  cut off below its own.
- *The grid of amounts* has both signs, zero, amounts that round to zero, half
  a step, a step, the column's limit and the int64 limit, scaled down with the
  constants `Fine`, `One`, `MaxNumeric`, `MaxInt`.
- *Four crashes* allow one in each stage of the boot in one behaviour.
- *The contents of `trades` in `backfill_grid`*: five open trades at all
  non-decreasing times 0 to 6 with limit 2 and window 2 (a spike may end and
  begin again, times may be equal or exactly a window apart), and three trades
  of one session with every combination of eight kinds next to one of another
  user. Two starts are a first backfill and what the gate makes of its remains.
- *Two requests and one connection* are the smallest pool that can be exhausted:
  one request holds what the other waits for. The kinds cover each route, a
  refusal by each middleware, and a bad query; tokens and queries with other
  defects are checked against `Parse` and `ValidQuery` by an assumption.

Deadlock is checked in the worker runs, where a worker can always read again,
and in `api_requests`, where PostgreSQL's state can always change. In the
others clients run out of requests, trades or posts, and a state in which all
has been handled has no successor; there `CHECK_DEADLOCK` is off.

### Fairness

- `StreamWorker!FairSpec`: a running worker takes its next step, its 30 s ticker
  goes off (the `select` of `Run` polls it in every round), a crashed process is
  restarted (`restart: unless-stopped` in `docker-compose.yml`), and time
  passes. No calculator has to succeed, no acknowledgement to arrive.
- `TradeIntake!FairSpec`: handlers run and PostgreSQL answers or fails. Nothing
  is assumed about Redis, which is what `RequestAnswered` is about.
  `FairRedisSpec` adds that Redis answers, in time or late; even then
  `EventuallyPublished` fails.
- `Boot!FairSpec`: the process goes on booting and is restarted when it ended.
- `ApiRequest!FairSpec`: goroutines run, so a free connection is taken by some
  waiting request, a deadline passes, and PostgreSQL answers while it is up.
  Nothing makes PostgreSQL come back, and nothing is assumed of Redis: `QueueLag`
  ends because it has a deadline. `AllAnswered` is for behaviours in which
  PostgreSQL stays up in the end, `HealthAnswered` for all.

## 4. Proofs

Each proof module has an inductive invariant that contains the property, or
implies it, and one lemma per action that the action preserves it. What makes
the properties provable is nearly always the same idea: what a process keeps in
its local variables (a loaded row, a count, how far it has come) is tied to the
shared state that the property is about, which another process may have changed
since.

`StreamWorkerProofs`, for every set of workers and every value of the bounds:

| Theorem | Says | Argument |
|---|---|---|
| `TypeCorrect` | `[]TypeOK` | inductive as it stands |
| `PendingCorrect` | `[]PendingUntilSettled` | `PendingInv`: with it, the entries a worker is about to handle have been delivered |
| `DoneCorrect` | `[]DoneMeansApplied` | `AppliedInv`: while a worker has seen no failure, all calculators before its `step` are in `applied`. The property is not inductive without it, since the verdict is given from local variables |
| `DeadLetterCorrect` | `[]DeadLetterAtLimit` | `CountInv`: the count in a worker's hands never exceeds Redis's counter, and lags behind it by the claim that delivered the message |
| `AttemptsCorrect` | `[]AttemptsBounded` | `AttemptInv`: up to the threshold each attempt took a delivery of its own. Beyond it only a worker whose listing (`XPENDING`) is older than the last claim can begin, each worker once, and the one that reached the threshold has used its listing up. A count of the workers in either situation (`Unbegun`, `Listed`) gives the bound |
| `DeliveryRefined` | `Spec => DeliverySpec` | identity mapping of `stream`, `applied`, `fate`; each step is one of `EventDelivery` or a stutter, using the invariants above |

`TradeIntakeProofs`, for every set of requests, bodies and trades:

| Theorem | Says | Argument |
|---|---|---|
| `TypeCorrect` | `[]TypeOK` | `TypeInv`: a handler runs only for a request that carries a body |
| `LedgerRefined` | `Spec => LedgerSpec` | `RowInv`: what a handler has loaded is the row stored under its id, and only admissible posts get past the checks. A record is visible once its 200 is sent (the mapping of `record`) |
| `EventsMatch`, `EventCount` | `[]EventMatchesRow`, `[]EventsBounded` | `OriginInv`: a row has at most one creator, and a publisher belongs to it; `EventInv`: the copies on the stream are bounded by how far that publisher has come |
| `WriterCorrect` | `[]WriterAnnounces` | `WriterInv`: without faults every row has its creator among the requests |

`CloseMetricsProofs`, for every set of workers, trades, users and sessions:

| Theorem | Says | Argument |
|---|---|---|
| `TypeCorrect` | `[]TypeOK` | with `JobInv`: a worker has a job exactly when it is not idle, and jobs are stored trades |
| `PlanCorrect` | `[]PlanFresh` | `PlanRead`: what a worker that is not `behind` has read includes its own trade and all that others have covered; `PlanTable`: so does the row, unless it is `stale`. A broken result set makes its reader `behind`, or the row `stale` with every other reader `behind`, so neither needs the absence of faults. A trade is *covered* when its event is done or a worker is past the calculator without an error. The last `Rolling` of a set are determined by the set, whichever trades were added to it in which order |
| `TiltCorrect` | `[]TiltFresh` | `TiltRead`, `TiltTable`: the same for the snapshot of the tilt statement and the lock after it |
| `MixedCorrect` | `[]MixedNeverSettled` | `MixedInv`: of two trades of different users in one session, one has not passed the tilt statement and never will, since whoever handles it has seen the other or is yet to see it. Which of the two it is depends on the order of the reads, so neither can be named in advance |
| `WinsCorrect` | `[]WinsCover` | `WinInv`: the tally of an emotion is at least the number of trades past `winRate`; cardinalities of sets that grow by one |

`OpenMetricsProofs`, for every set of workers, trades and users and every limit:

| Theorem | Says | Argument |
|---|---|---|
| `TypeCorrect` | `[]TypeOK` | with `JobInv` and the bound on deliveries |
| `FlagCorrect` | `[]FlagExact` | `FlagInv`: flags are revenge trades of the present rows, and a trade that is one by the rows up to it (`Due`) has its flag once a worker is past the statement |
| `RevengeCorrect` | `[]RevengeCovers` | `RevengeInv`: the counter is at least the number of due trades past the increment |
| `IncidentsCorrect` | `[]IncidentsReal` | `IncidentInv`: a worker that has decided to record has counted more than the limit in its window, and rows never disappear |
| `CounterCorrect` | `[]CounterNotAhead` | `CounterInv`: the counter and the workers between the two statements together are at most the incidents. Without those workers the invariant is not inductive |
| `SpikesCorrect` | `[]SpikesDetected` | `SpikeInv`: past the record, a spike completed by the rows up to the trade is covered by an incident, the worker's own or the one the dedupe found |

`TradeRulesProofs`, for every body and every precision and range of the columns:

| Theorem | Says | Argument |
|---|---|---|
| `ValidateCorrect` | `[]FailedOnlyForAmounts` | `Inv`: what has got past `validate` is `Valid`, and a stored row is one `derive` made and the table took; `ValidRest`: `Valid` implies every CHECK but those on amounts |
| `OutcomeCorrect` | `[]OutcomeTrue` | `RoundedClose`: rounding keeps the sign of all but amounts under half a step; `FittingPnl`: a result beyond int64 does not fit the column either, so no stored row has one |
| `PnlCorrect` | `[]PnlClose` | `HalfClose`: a quotient rounded to the nearest integer is off by half at most, for every divisor |

`BootProofs`, for any number of migrations, posts and crashes:

| Theorem | Says | Argument |
|---|---|---|
| `TypeCorrect` | `[]TypeOK` | inductive with `NextInv` |
| `ServingCorrect` | `[]ServingReady` | `SchemaInv`, `SeedInv`, `GroupInv`: a boot gets past a stage only with its effect, whatever an earlier one left |
| `BackfillCorrect` | `[]BackfillUndisturbed` | `GateInv`: when the process seeds, a snapshot exists before the first post, so the gate is shut for good |

`BackfillProofs`, for any contents of `trades`, any remains of a worker and any
number of starts:

| Theorem | Says | Argument |
|---|---|---|
| `RevengeCorrect` | `[]RevengeExact` | `Inv`: the gate stays open until flags and counts are both right, as the statement that writes the first snapshot also writes the counts, from flags set before. The `MAX(exit_at)` of the SQL and the existence of a close within the gap are shown to agree |
| `SnapshotsCorrect` | `[]SnapshotsExact` | `StageInv`: each statement's result is exact from the next stage on, and the later ones keep it. `ScoresLatest`: in whatever way `ROW_NUMBER` breaks ties, the first `Rolling` rows are as many as asked for and none left out is later. `OrderExists`, `OrderRanks`: rows with different keys can be put in order in one way, in which a row's place is one more than the number of rows below it; hence `LAG` is the outcome of the trade right before |
| `SpikesCorrect` | `[]SpikesExact` | `LogInv`: what the scan found stays exact until the commit, which replaces log and counters at once, and until then nothing touches what a worker left. That the scan is exact rests on `Turned`: after each turn of the walk the window is the stretch of entry times from the first one not older than `Window` (`Slid`), `inSpike` says whether it is too long, and the events are those begun so far. `WindowRows`, `WindowCount`, `WindowFrom` and `BeginsAt` carry that over from places in the sequence to the trades, `SpikesDiffer` shows that no two events are equal, so that the set in the table is as large as the list in memory |

`ApiRequestProofs`, for any number of requests and any size of the pool:

| Theorem | Says | Argument |
|---|---|---|
| `TypeCorrect` | `[]TypeOK` | `Placed`: depth and stage of a request are those of its route's chain |
| `AccountedCorrect` | `[]Accounted` | `Answered`, `Logged`: a request on its way out has been answered, a panic ends at the recoverer with a 500, and the logger outside of it writes one line with the status and the trace id that were sent |
| `MetricsCorrect` | `[]MetricsWhole` | `Guarded`: inside the chain's guards the token has been accepted and is of the user asked for; at each read the ones before it have been made |
| `PoolCorrect` | `[]PoolConserved` | `Holding`: a connection is held only at a query, so each way out of one, also by panic or deadline, has one to return; cardinality of the busy requests |

The assumptions are those of the modules (`BoundsAssumption`,
`BodiesAssumption`, ...), which TLC evaluates in every run. Those worth knowing:

- `MaxDeliveries` is at least 2 in `StreamWorker`, as a threshold of 1 would
  dead-letter every entry at its first delivery; the code has 5.
- Workers, requests and the contents of `trades` are finite sets. Without that
  neither `Cardinality` nor the bounds mean anything.
- `None` is no row, no response and no emotion: it stands for the absence of one.
- Equal times are allowed wherever the code's results do not depend on the order
  of rows. Where they do, they differ: the entries of the closed trades of one
  session (`Backfill`, `CloseMetrics`: `LAG` orders by nothing else), and the
  exits of one user in `CloseMetrics`, where `LIMIT 10` would choose anew at
  each query.
- A rationale has no more characters than bytes (`TradeRules`): `validate`
  measures it with `len`, the CHECK with SQL's `length`.

The turns of the loop are a recursive function on `0 .. Len(e)`. The library's
induction theorems cannot be instantiated here, so `SetInduction` proves the one
instance that is needed (a set of naturals with 0 that is closed under successor
up to n has all of `0 .. n`), from which `WalkTurns` and `WalkFollows` obtain the
function's values and `Turned` for every turn.

Only model-checked: everything under fairness (`EventuallySettled`,
`RequestAnswered`, `EventuallyPublished`, `EventuallyServing`, `HealthAnswered`,
`AllAnswered`), which is beyond the prover.

## 5. Findings

Each is a run that TLC refutes, with a quotation in `PROJECT.json`.

1. `intake_unpublished`: a slow Redis does not delay the metrics of a trade, it
   drops them: nothing publishes again what the 200 ms goroutine gave up.
2. `close_twice`: a redelivered `trade.closed` counts twice in the win rate.
3. `boot_skipped`: a boot interrupted during the backfill is never completed.

Met while modelling, without a run of their own:

- `plan_adherence.go:31-40` does not consult `rows.Err`: a broken result set
  stores an average of some of the rows, or none, and the event is acknowledged.
  The score is wrong until the user's next closed trade (`PlanBroken`;
  `PlanFresh` shows that this one heals it).
- `worker.go:8-10` speaks of attempts; the rule at line 131 counts deliveries,
  also those that reached nobody. An entry can die without an attempt.
- `worker.go:36-38` speaks of parallel goroutines; `Run` handles a batch in
  sequence.
- `queue.go:8-12` has the revenge flag computed on `trade.closed`; the code does
  it on `trade.opened`.
- When the incident is recorded and the counter's increment fails, the retry
  finds the incident and returns: `overtrading_events_count` stays behind
  (`CounterNotAhead` holds, equality does not).
- With two workers the plan-adherence score and the tilt of a session may stay
  those of an older read although every event is settled, until the next clean
  write (`stale` in `CloseMetrics`). `docker-compose.yml` starts one worker;
  the consumer group and `CONSUMER_NAME` are there for more.
- Two users who post under one `sessionId` make the tilt statement fail for
  good. The events of that session die (`MixedNeverSettled`), and a backfill
  over such rows fails at the tilt; the boot after it is let past the gate with
  the overtrading events never computed. `backfill.go:164` calls the opposite a
  data invariant, which nothing checks.
- `overtrading.go:18-21` wants one event per incident; the dedupe at line 45
  looks for windows that end before the trade, so events handled out of order,
  or by two workers at once, record two.
- The window of `Overtrading` ends at the event's `occurredAt`, cut to the
  millisecond, not at the trade's `entry_at` (`overtrading.go:14-16`): the trade
  itself may lie outside. `SpikesDetected` is stated to the millisecond.
- The backfill finds one event per spike, the live detector one per half hour of
  a spike. A trade posted closed is never flagged live (`trade.closed` runs no
  `RevengeFlag`), while the backfill flags it.
- A loss stored after the event of the trade it precedes was handled makes no
  revenge trade of it; `FlagExact` says so by comparing with the rows that were
  stored up to the trade.
- Amounts that round to 0 or overflow in `NUMERIC(18,8)` pass `validate` and end
  as a 500 (`FailedOnlyForAmounts` allows these and nothing else).
- `docker-compose.yml` wants the worker to wait for migrations and seed, with
  the condition `service_started`, which does not wait for them.
- `metrics/repo.go:51,110`: a result set that breaks off is answered as a
  complete 200 (`LoadBroken`, excepted in `MetricsWhole`).
- `main.go:102-103` has the recoverer "last so it catches panics from anything
  earlier in the chain". Last is innermost: it catches what comes later, which
  is what `Accounted` needs; `OuterBug` is the chain as the comment describes it.
- `log.go:33` lists `userId` among the fields of the request line; `Logger` reads
  it from its own context, which the authenticator inside never changes, so the
  field is never there.
- `jwt.go:12` wants the role to be "trader"; line 85 accepts any non-empty one.
- `httpx.go:58` speaks of every 4xx/5xx; the 503 of `/health`, the 404 of
  `serveStatic` and the router's own 404 and 405 have other bodies. `Accounted`
  is stated for 500s and for the guarded routes.
- `/health` answers 200 and lag 0 when Redis does not answer, counts delivered
  entries only, and says "disconnected" when it is merely the pool that is
  exhausted.

## 6. Plan

Done, in this order: the worker loop with its specification and proofs; the
intake with its specification and proofs; the calculators; the rules; the boot;
two workers on the calculators of closed trades; what the backfill computes; the
request path with its middleware, readers, health check and pool.

The proofs followed in the order of the models. All safety properties that
passing runs check are proved.

Next, for the proofs: action properties from the invariants there are (a verdict
is final, rows of `trades` and incidents are only added, a flag once set is never
cleared live).

Next, for the model: a composition of intake, stream and metrics that shows end
to end what a stored trade leads to.

## 7. Reproducing

```
tlc -workers 2 -config worker_pair.cfg MCStreamWorker
tlc -workers 2 -config boot_restarts.cfg Boot
tlc -workers 2 -config api_requests.cfg MCApiRequest
for m in *Proofs.tla; do tlapm $m; done
```

## 8. Not modelled

- *The values in a metrics response*: which reads it is made of is modelled, the
  arithmetic of buckets and rates is not. The four reads are no transaction, and
  nothing promises that they are of one moment.
- *Signing and encoding of JWTs*: cryptography; a token is its claims and
  whether its signature is right. `IssueToken` serves tests.
- *JSON and CSV decoding*, *configuration*, *logging*: conversions without
  control of their own. A seed row that does not parse fails the boot, each time.
- *Timeouts of the HTTP server* (15 s to write a response) and the router's
  matching of paths: what a handler writes counts as sent.
- *The number `/health` reports as lag.*
- *Loss of Redis's or PostgreSQL's data*: both are assumed to keep what they
  acknowledged; a group that disappears stops the workers until a restart.
