# Verification of the NYC taxi dispatch and ETA backend

TLA+ models of the Go backend (`src/backend`) and of the two tools that drive it,
checked with TLC on small instances, and TLAPS proofs of their safety properties for
every value of the constants.

## 1. The system

A Go process serves HTTP. `POST /api/v1/trips` stores a trip in PostgreSQL and
assigns the nearest available driver. `POST /api/v1/predict` passes a rate
limiter (Redis), a prediction cache (Redis) and a bounded worker pool whose
workers call a Python model service. Both publish events to browsers through a
WebSocket hub, and count what they do in a metrics registry that scrapers read. On
SIGTERM the process drains HTTP, then the pool, then closes Redis. A simulator replays
historical trips against the first route, a load test hammers the second.

| Component (source under `src/backend` unless noted) | State | Operations | Correct when |
|---|---|---|---|
| Dispatch (`internal/dispatch/postgres_repository.go`) | rows of `drivers` and `trips`, transactions, row locks | `AssignTrip` | a driver serves one trip, driver and trip change together, the nearest driver is taken, no request waits for ever |
| Trip creation (`internal/handlers/handlers.go` `CreateTrip`) | the progress of each request | INSERT, assignment, event, reply | the reply agrees with the database |
| Fleet seeding (`SeedIfEmpty`, `cmd/server/main.go`) | `drivers`, an advisory lock | one transaction at each start | one whole fleet, never reset |
| Worker pool (`internal/workers/pool.go`) | a bounded channel, a closed flag, workers | `Submit`, worker loop, `Shutdown` | an accepted job is answered or abandoned, a drain is complete |
| Model client (`internal/mlclient/client.go`) | the attempt of each call | `Predict` with retries and backoff | all retries are made for a caller that waits, none for one that left |
| Prediction handler (`Predict`) | the progress of each request | validation, cache, submit or `predictSync`, wait | every request returns, a 200 is genuine |
| Prediction cache (`internal/cache/prediction_cache.go`) | entries with a time to live | `Key`, `Get`, `Set` | a cached answer answers the request |
| Redis client (`internal/cache/redis_client.go`) | a channel of idle connections | `do`, `Close` | a reply goes to the command that asked for it, nobody uses a closed client |
| Rate limiter (`internal/ratelimit`) | a Redis counter per window | `Allow` | exact per window, fails open, never blocks |
| Hub (`internal/wsserver`) | clients, a buffered channel and a writer for each | `Register`, `Broadcast`, read and write pumps | order per client, no client blocks another, whole frames |
| Metrics registry (`internal/metrics`, `internal/middleware/metrics.go`) | counters, vectors, histograms, their mutexes | `Inc`, `WithLabelValues`, `Observe`, `Gather` | no increment lost, a page that adds up, scrapers block no request |
| Lifecycle (`cmd/server/main.go`) | the phase of the process | startup, signal, shutdown | a clean stop cuts nobody off |
| Simulator (`simulator/cmd/simulator`) | the rows, a bounded channel, senders, two counters | load, pace, post, report | the report is true, the program ends |
| Load test (`tools/loadtest`) | users and the result of a level | run a level, record, print | the report adds up, the program ends |
| In-memory repositories, system status and read-only routes, logging and CORS middleware, configuration, geometry, model service (`src/ml-service`), frontend (`src/frontend`), deployment | | | not modelled, see section 7 |

Interactions: handlers of one process share the pool, the Redis connections, the
metrics and the hub; several processes share PostgreSQL and Redis; the tools see the
backend through HTTP with a timeout. What is hard about them is listed line by line
under "hazards" in `PROJECT.json`: concurrent claims of one driver, lost answers to
COMMIT, clients that die holding locks, locks kept on skipped rows, replicas that seed
at the same time, submit against shutdown, late replies on reused connections,
INCR and EXPIRE that are not one command, broadcasts against departing clients,
scrapes among increments, answers that come after a timeout.

## 2. Modules

| Module | Models | Uses |
|---|---|---|
| `Dispatch` | `CreateTrip` and `AssignTrip` on PostgreSQL, crashes included | implements `DispatchAbstract` |
| `DispatchAbstract` | what they promise: an indivisible assignment of the nearest driver | |
| `FleetSeed` | `SeedIfEmpty` run by several boots | implements `FleetAbstract` |
| `FleetAbstract` | what it promises: an empty table gets one whole fleet in one step, before anything is served | |
| `WorkerPool` | pool and model client, under any owner and any callers | |
| `PredictServer` | handler `Predict`, cache entries and `main`'s shutdown, composed with the pool | extends `WorkerPool`, implements `PoolAbstract` |
| `PoolAbstract` | what the pool promises: a bounded set of pending jobs, each answered once or dropped after its caller left | |
| `Hub` | hub, pumps and the two writes of a frame | |
| `RateLimit` | limiter over the Redis client, with the network and the time | implements `LimiterAbstract` |
| `LimiterAbstract` | what the limiter promises: a counter that numbers the calls of a window, each in one step | |
| `CacheKey` | cache keys against the inputs of the model | |
| `Metrics` | counters, vectors, histograms and `Gather`, as the prediction route updates them | |
| `Simulator` | loading, pacing, senders and report, in front of the backend | instance of `DispatchAbstract` |
| `LoadTest` | levels, users, recording and report | |
| `Tools` | the two programs: a behaviour is a run of one of them | extends `Simulator`, `LoadTest` |
| `Dispatch_proofs`, `FleetSeed_proofs`, `PredictServer_proofs`, `Hub_proofs`, `RateLimit_proofs`, `Metrics_proofs`, `CacheKey_proofs`, `Tools_proofs` | theorems about these modules | |
| `MCDispatch`, `MCPredictServer`, `MCCacheKey`, `MCTools` | values of the constants that are functions, sequences or sets of tuples | |

The other modules are instantiated by their `.cfg` files directly.
A definition that comments call a mutation is a deliberately wrong variant of
the definition below it: with it in place of the right one, the property it
was written for must fail. `PROJECT.json` pairs them.

### Dispatch

The handler (`pc`, `todo`, `result`) and the server side of its
transaction (`tx`, `lock`, `at`, `claim`, `assign`) are separate, because a handler
may lose its connection or die while the session still holds locks, waits for one
(`at`), or has a COMMIT on its way. `driver` and `trip` are committed rows; a transaction's
own writes stay in `claim` and `assign` until `ApplyCommit`.

* READ COMMITTED: each statement sees the rows committed when it starts. The
  conditional UPDATE first looks for the row in its snapshot (`IssueClaim`,
  or `PassOver` when it is not AVAILABLE) and then waits for the row lock. When
  it is granted, PostgreSQL looks at the newest version again: `ClaimRow` or
  `LoseRow`. In the second case the row stays locked until the transaction ends;
  that is why wait cycles have to be excluded (`NoWaitCycle`).
* `Fail` is an error return between Begin and Commit on a connection that survives;
  `LoseConn` one whose connection breaks, or which pgx closes because the context of the
  request ended. The deferred rollback then is `Rollback`, the only step that ends the
  transaction of a live connection, or `RollbackClosed`, which does nothing; `RollbackLost`
  is a rollback under which the connection breaks.
* A session that has lost its client (`Detached`) is ended by the server (`Reap`). Before
  that an UPDATE of it that waits for a row lock may still get it, and claim the row
  (`LateLock`). The server ends no session whose client is there, so a handler that
  returned without its rollback would hold its locks for ever (`LocksReleased`).
* `CommitInDoubt`, `Land`, `Reap`: the answer to COMMIT is lost and the transaction is
  applied or aborted later. A `tx.Commit` that fails leaves the connection closed, so
  this is its only error. `CreateFails` covers an INSERT that was applied although its
  answer was lost.
* `Crash` stops all handlers under way and may leave a COMMIT on its way; every session
  loses its client, those that wait for a row lock too.
* `Fault` counts failures, lost connections and crashes, so that a run can bound them;
  the clients in `Impatient` may leave a wait for a row lock besides. The theorems hold
  for every bound.
* `Init` is the table as earlier requests and processes left it (`002_create_drivers.sql`
  allows the three statuses); how a fleet gets there is `FleetSeed`.
* `FreeConn` is the pgx pool of the driver repository. The trip repository has
  its own; one bound for both is stricter.
* Distances are natural numbers in a table; equal ones are ordered by id.
* No production code calls `SetStatus`, so a driver never becomes AVAILABLE
  again; the module has no such action.

### FleetSeed

A boot is one start of a process, a restarted replica another boot. Inserts stay in
`rows` until the commit; the advisory lock belongs to the transaction. `Legacy` are
driver ids only old trips refer to. `Dispatch` makes drivers BUSY meanwhile. A boot
may die anywhere; its COMMIT may apply after its death. `FleetAbstract` has none of
this: its `SeedFleet` fills an empty table in one step. The refinement maps the
committed rows to themselves and the places of a boot to starting, serving or gone, so
it says at once that the fleet is whole, is seeded at most once, exists before anything
is served, and is never reset by a restart.

### WorkerPool and PredictServer

`CheckClosed` and `TrySend` are the two halves of `Submit`; between them other
goroutines run. `SetClosed`, `CloseChannel`, `Drained`, `DrainTimeout` are the
steps of `Shutdown`. A worker is at the receive (`idle`), at the head of the
retry loop, in an attempt, in the backoff or at the send of the result.
`WorkerPool` may be owned by anyone; `PredictServer` gives it `main` as owner:
`srv.Shutdown` returns nil when no handler is active, then `pool.Shutdown`, then
`redisClient.Close` (`CloseRedis`) and the end. With `sync`, the `SYNC_MODE` of the
configuration, the handler makes the attempts itself (`PredictSync`): nobody else sees
them, so they are one step that leaves the number of attempts and the outcome. Once
the process ended nothing moves. `from` is a history variable: whose answer of
the model service a response repeats. A connection that is accepted in the
instant in which `srv.Shutdown` finds all others idle is net/http's matter.
`QueueSize` is positive and there is at least one worker.

`PoolAbstract` knows neither channel nor workers, attempts or phases. `Place(j)` maps the
detailed state to it: a job is out, pending (queued or with a worker), answered, dropped,
or turned away. It has no place for a caller that meets a closing pool, bounds what is
pending by the queue and one job for each worker, and stops only when nothing is pending.

### Hub

`reg` is the place of `Register` and `readPump` for a client, and it says what the rest
of its state is: in the map or not, `done` and `send` closed or not. `CastBegin`,
`Offer`, `CastEnd` are a broadcast that holds the read lock; `Join` and the deletion in
`Teardown` need it free. A frame takes two steps, `WriteHeader` and `WritePayload`,
since `writeFrame` calls `Write` twice. `received` are the messages written in full;
`before` records which broadcast had returned when another began. `Slow` are clients
that may read nothing, so that writes to them may block for ever, the close frame that
`Conn.Close` writes without a deadline included. `ReaderPanics` is a frame whose announced
length `readFrame` cannot allocate: the middleware recovers the panic, and the client stays
in the map, with its writer, since the teardown of `Register` is not deferred.
A waiting writer of the RWMutex that holds back new readers is left out; it only
delays broadcasts that have not begun.

### RateLimit

One identifier, a counter per window. A command moves from the caller to `pipe`,
is executed by Redis at some time, also after its sender has closed the
connection, and its reply waits in `replies`. `Send` is `getConn` and the write,
`PutBack` and `Drop` are the two sides of `putConn`. `Refuse` is an error reply of
Redis, which leaves the connection healthy. Every reply carries the
caller it is for, which the code does not have: `RepliesAreOwn` says it is not
needed. The window number is taken once, by `Enter`.

`LimiterAbstract` knows neither connections nor commands. A call's number (`Number`) is
the one in the reply that is on its way to it, or the one it has read, so it takes its
number when Redis executes INCR and is decided later, by that number alone. A number
given to a call that has stopped waiting is lost, no window gives more numbers than it
has calls, and only a window that is over may be forgotten. EXPIRE, the pool and the
connections are not seen. The abstract counter denies nobody in a window of at most
`Limit` calls; the theorem `DenialJustifiedHolds` says so of `RateLimit` itself.

### CacheKey

A datetime is the minute it writes and the form it is written in: RFC 3339 with the
offset of some zone, without a zone (`NoZone`), or without seconds as well (`NoSeconds`).
`TimeBucket` does what `time.Truncate` followed by `Format` does: it truncates the instant
and shows local time without seconds and zone, which is the form `NoSeconds`; the other two
forms are not RFC 3339 and are used as they are, so one of them may be the very string of a
bucket. Offsets are any integers. `SameTraffic` compares written times, the only ones the
model service sees; the part about the hour is for zones of whole buckets. The module is
sequential; the cache itself is a set of entries that expire, are replaced or fail to be
stored.

### Metrics

`WithLabelValues` and `Inc` are two steps, as in the code: the child is found or made
under the vector's mutex and incremented atomically afterwards. `children` keeps every
counter ever made for a label, the last of which is in the map; `counted` is a history
of what each request incremented. `registry` is the mutex of `Gather`, `lock` those of
vectors and histograms, `at` the family in the order of registration, `page` the lines
written so far. A line is read and written in one step, since nobody looks at a value
between the two; the connection may block between any two lines. The +Inf bucket
stands for the buckets of a histogram. The `http_request_duration` vector has one child
per route, so vector and histogram share a lock here. Gauges read from the pool are
left out; `active_trips`, the last family, asks the database without a deadline.

### Simulator, LoadTest, Tools

The simulator's `main` loads the records (`Load`: a ragged record ends it, a malformed
row is skipped), sorts, cuts to the limit, hands the rows to the channel and reports;
senders post and wait for an answer or for the timeout. The backend is
`DispatchAbstract`, of which `Dispatch` is shown to be an implementation; `Answered`
reads its result, and a request that timed out goes on there. Sleeps have any length.
In `LoadTest` a user's loop, its answers and the four updates of `record` are steps;
the deadline of a level passes at any time. `Tools` only chooses the program.

## 3. Runs

| Run | Shows | Bounds |
|---|---|---|
| `dispatch_faults` | `TypeOK`, `NoDoubleDispatch`, `NearestClaimed`, `NoDriverJustified`, `ReplyBacked`, `NoWaitCycle`, and `Implements` (of `DispatchAbstract`) | 4 requests, 2 drivers ranked in conflicting orders, 3 connections, 1 fault and a client that may leave a wait; all initial statuses |
| `dispatch_liveness` | `EveryRequestAnswered`, `LocksReleased` | 3 requests, 2 drivers, 2 connections, 1 fault; every client may leave a wait |
| `fleet_seed` | `TypeOK`, `Implements` (of `FleetAbstract`), `StartupEnds` | 3 boots, 2 drivers, 1 legacy id |
| `server` | `TypeOK`, `NoJobLost`, `ErrorAfterAllRetries`, `CleanStop`, `AnswerIsGenuine`, `Implements` (of `PoolAbstract`), `EveryRequestReturns`, `ProcessEnds` | 2 requests of one key, 2 workers, queue of 1, 2 attempts, `SYNC_MODE` on and off |
| `hub` | `TypeOK`, `NoSendOnClosed`, `OrderKept`, `NoneWaitsForSlow`, `BufferedIsWritten`, `WritersEnd` | 1 slow client and 1 that reads, 2 broadcasts, buffer of 1, 1 ping, break or panic |
| `ratelimit` | `TypeOK`, `RepliesAreOwn`, `LimitRespected`, `Implements` (of `LimiterAbstract`), `AllowReturns` | 3 calls, 3 connections, pool of 1, limit 1, 2 windows |
| `cache_key` | `SameTraffic` | 4 times around an hour, 3 zones, 2 forms without one, 2 vendors, 2 entries |
| `metrics` | `TypeOK`, `ScrapeConsistent`, `NoCountLost`, `RequestsReturn` | 2 requests, 1 scraper |
| `tools` | `TypeOK`, `SimReport`, `LoadReport`, `ToolEnds` | 3 records out of order, two of one time, limit none or 2, 1 or 2 senders; levels of 1 and 2 users, 2 posts each |
| `dispatch_stays_pending`, `hub_frames`, `cachekey_features` | violations, see section 4 | 2 requests; 1 client; 2 vendors |

Why the bounds are enough. Two requests make a conflict over a driver, and a third
meets a lock kept on a row that was lost. A wait cycle would need two requests that
each lost a driver, hence two more that won them: four requests and two drivers are
the smallest instance in which `NoWaitCycle` could fail, and it does fail there when
the rows are locked by id alone (`IssueLockById`). Fewer connections than requests
make waiting for one happen. One fault puts each kind of fault in every state: a lost
connection, which takes the statement and the rollback with it, or a crash with a COMMIT
on its way, are one fault. Clients that leave a wait combine with it. Other pairs, such as
a failed statement and then a rollback that is lost, are covered by the theorems, which
hold for any number of faults. Three boots allow a seeder, one
that waits for it, and one that starts after a crash. A buffer or queue of one is
full after as many steps; with two workers, of which one may never run, a job waits
behind another or beside it. Three calls with a limit of one reach the counts below, at
and above the limit. Two windows suffice since a counter belongs to one window. Two
requests can meet a label at the same time, and one scraper sees every mixture of their
increments; a second scraper would only wait for the registry. Three rows are more than
the limit and more than a channel of one sender holds.

Bounds that are not in the code: `MaxFaults`, `MaxEvents`, `MaxWindow`, `MaxEntries`,
`MaxPosts`, `MaxSenders`, and one request per caller, job or message. No run uses
symmetry, since most check liveness.

Deadlock is checked where the system must be able to go on or to finish: the `Next` of
`Dispatch`, `PredictServer`, `Hub`, `CacheKey`, `Metrics` and `Tools` has a step for the
finished system and for no other. It is off for `RateLimit` and `FleetSeed`, where a
finite set of calls just ends.

## 4. Findings

Three runs are expected to violate a statement the repository makes about itself.

* `dispatch_stays_pending`: "trip stays pending" (`handlers.go:286`) is logged and
  PENDING replied although a COMMIT whose answer was lost assigned the driver.
  `NoDoubleDispatch` and `Implements` hold all the same.
* `hub_frames`: pongs are written by the reader goroutine, next to the
  dedicated writer of `hub.go:8-14`, and break the frame being written.
* `cachekey_features`: the key omits `vendor_id` and `store_and_fwd_flag`, which the
  model uses, against `prediction_cache.go:33-34`.

More facts that the models show or rest on, without a run of their own:

* `Submit` concurrent with `Shutdown` sends on a closed channel instead of returning
  `ErrPoolShuttingDown` (`pool.go:30`): the flag is looked at before. Under `main` this
  cannot happen (`PoolOpenForCallers`, proved, and part of `Implements`); under another owner of the pool it could.
* A rate-limit counter never gets an expiry when EXPIRE fails after INCR, or when the
  reply to INCR is lost (`limiter.go:50-53`); the window is part of its key, so it denies
  nobody of another window (`DenialJustified`, proved).
* Datetimes without a zone, the form of the repository's own examples, are not bucketed
  (`prediction_cache.go:48-58`); this costs cache hits, not correctness.
* Buckets are cut in UTC and written in local time. With an offset that is no multiple of
  ten minutes they cross the hour: 11:56+05:45 and 12:02+05:45 share the bucket 11:55, so
  the second gets an answer for the hour before. Since keys show no zone, 12:00Z and
  12:00-04:00 share an entry although they are four hours apart, against the words of
  `prediction_cache.go:5-8`; the model service takes the hour as it is written, so the
  answer is the same.
* `Register` of a client that sent a close frame and reads no more may hang in `conn.Close`:
  the close frame has no deadline and waits behind the writer's frame. The client is out of
  the map by then and holds up nobody (`NoneWaitsForSlow`); its goroutines stay until the
  connection breaks.
* A client whose reader panicked stays registered, is offered messages and is never taken
  out of the map.
* A request whose client left is counted under status 200, which the middleware's
  recorder has when nothing is written. `prediction_errors` and the latency histogram are
  not updated together: one page may show more errors than latencies, or fewer.
* A query for `active_trips` that hangs holds the registry lock, hence all later scrapes,
  but no request (`RequestsReturn`).
* In the simulator a record with the wrong number of fields ends the whole replay,
  while a row whose fields cannot be parsed is skipped.

## 5. Fairness

* Dispatch: weak fairness of the statements that succeed (`Progress`) and of the server
  ending the sessions of lost clients (`Attend`): a session that waits for a row lock only
  has to get it and is ended then, and none whose client is there is ever ended. Failures, timeouts and crashes are never
  assumed to happen, so `EveryRequestAnswered` says that waits for locks and
  connections end by themselves. A goroutine whose statement is answered runs,
  and PostgreSQL answers a statement that can be executed.
* FleetSeed: statements are answered and dead sessions end.
* Pool and server: goroutines that can run do; an attempt ends by its own
  timeout (`context.WithTimeout` in `doOnce`), so one of its two outcomes is due.
  No deadline of a shutdown is assumed, nor that clients leave. `Sigterm` is not fair.
* Hub: broadcasts and the teardown of `Register` up to `conn.Close` run. Only for clients
  outside `Slow` do writes end and readers notice a broken connection; about a slow
  client's writer and reader nothing is assumed, and its close frame is written or fails
  for sure only when the connection is broken.
* RateLimit: only the callers are fair. Redis may be silent for ever; the deadline
  set on every connection makes `ReplyFails` possible.
* Metrics: handlers and workers run, and the writes of a scrape end by the server's
  WriteTimeout. `GatherEnd`, which asks the database, is not fair.
* Tools: main, senders and users run, requests end by the client's timeout, deadlines
  pass. Nothing is assumed of the backend.

## 6. Proofs

The theorems hold for all values of the constants that satisfy the `ASSUME` of the
module: finite sets where something is counted, capacities, at least one
connection, worker or driver, and a null value outside the sets it is not in. Each
module of proofs has one inductive invariant `IInv`, the lemmas `InitInv` (`Init => IInv`)
and `StepInv` (`IInv /\ [Next]_vars => IInv'`), one step or lemma per action, and theorems
that follow from it.

| Module | Theorems |
|---|---|
| `Dispatch_proofs` | `TypeCorrect`, `NoDoubleDispatchHolds`, `NearestClaimedHolds`, `NoDriverJustifiedHolds`, `ReplyBackedHolds`, `NoWaitCycleHolds`, `ImplementsAbstract` |
| `FleetSeed_proofs` | `TypeCorrect`, `OneWholeFleetHolds`, `ImplementsAbstract` |
| `PredictServer_proofs` | `TypeCorrect`, `NoJobLostHolds`, `ErrorAfterAllRetriesHolds`, `AnswerIsGenuineHolds`, `PoolOpenForCallersHolds`, `CleanStopHolds`, `ImplementsAbstract` |
| `Hub_proofs` | `TypeCorrect`, `NoSendOnClosedHolds`, `OrderKeptHolds` |
| `RateLimit_proofs` | `TypeCorrect`, `RepliesAreOwnHolds`, `LimitRespectedHolds`, `DenialJustifiedHolds`, `ImplementsAbstract` |
| `Metrics_proofs` | `TypeCorrect`, `NoCountLostHolds`, `ScrapeConsistentHolds` |
| `CacheKey_proofs` | `SameTrafficHolds` |
| `Tools_proofs` | `TypeCorrect`, `SimReportHolds`, `LoadReportHolds` |

**Dispatch.** `IInv` adds to the properties what ties a handler to its transaction:

* `ClaimLocked`: a claim is a lock on a driver whose committed status is still
  AVAILABLE. Two claims of one driver would be two holders of one lock; nobody else
  changes that row, since a row is changed only by the commit of its claimer.
* `Stages`: what each place in `CreateTrip` says of the transaction, for example
  that only a COMMIT that has been sent can be in doubt and that it has both writes.
* `TripStages`: a trip is PENDING while a transaction works on it, so the UPDATE of
  `trips` finds it.
* `AssignedBusy`: the driver of a trip is BUSY. With `ClaimLocked`, a claimed
  driver belongs to no trip, which gives `NoDoubleDispatch` at the commit.
* `Candidates`: every AVAILABLE driver is still among the candidates left, and none is
  closer than the one waited for, also when nobody listens to the UPDATE that waits. This
  needs that no driver becomes AVAILABLE, and
  gives `NearestClaimed` and `NoDriverJustified` although the ranking is old.

`NoDoubleDispatch` alone is not inductive: a state in which a trip's driver is
AVAILABLE satisfies it and its successors need not. `NoWaitCycle` is proved next to
`IInv`, with `FreshLock`: whoever holds the lock of an AVAILABLE row has claimed it and
waits no more. A wait begins only for a row that is AVAILABLE, hence for a request that
does not wait itself, and such an edge closes no cycle. For the refinement, `driver` and
`trip` are mapped to themselves: a commit with both writes is the abstract assignment
(`CommitAssigns`), `CreateRow` and `CreateFails` create the trip, every other
action stutters or gives up.

**FleetSeed.** `Stages` and `Writes` tie a boot's place to its transaction, its lock and
its rows. The core is that the view of an empty table stays true for the boot that holds
the advisory lock: only a commit adds rows, and only the holder commits rows. Hence a
COMMIT applies a whole fleet to an empty table, or nothing, and `OneWholeFleet` is
inductive; `OneWholeFleetHolds` states it as a theorem of its own.

**PredictServer.** `OnePlace` says that a job is in one place: in the queue once, or in the
hands of one worker, or in neither; `Working`, `Handling` and `Phases` say what the
places of workers, handlers and `main` imply. Shutdown of the pool starts only when no
handler is active, and then none becomes active, so no `Submit` meets the closed flag.
A worker leaves only when the channel is closed and empty: when all have left, and there
is one at least, the queue is empty. `CacheGenuine` gives `AnswerIsGenuine`. For the
refinement, a job is in one place, so what is pending has as many members as the queue has
places taken and workers have jobs (`PendingSize`): the abstract bounds are the queue's
own. `OneMoves` reduces each action to the one job it moves, `Unseen` the others to
stutters: the first half of `Submit`, a receive, the attempts, and all of `main` but
`CloseRedis`.

**Hub.** `Visiting`: a broadcast has still to visit registered clients only, because the
client cannot leave the map while the read lock is held; this gives `NoSendOnClosed`.
`Sequenced` speaks of what was offered to a client, written, in hand and buffered, as one
sequence: what comes later in it did not return before what comes earlier began.

**RateLimit.** `Holding` and `Traffic`: a connection carries at most one command or its
reply, and both belong to the caller who holds it; a connection whose reply did not come
is never pooled. `Counting`: the counter of a window is at most the number of calls whose
INCR was executed, no call has a number larger than that (`DenialJustified`), and while
the key lives no two calls have the same number, so that those let through are mapped
one to one into 1..Limit (`LimitRespected`). For the refinement, `ExecuteIncr` gives a
number or loses one (`IncrImplements`): whose INCR is executed has none yet, since a
command is sent once, and the counter is below the number of calls, since this call's
INCR was not among those executed. A call whose connection is closed has been decided
(`Decided`), and as `open` while its INCR is still to be executed: it has no number.
`ReplyFails` in `incr_reply` is `FailOpen`, also when Redis has already counted the
call; in `expire_reply` it is the decision. `KeyExpires` forgets a window that is over.

**Metrics.** `OneChild`: a label has at most one child, and whoever is about to increment it
was given that one. `Uncounted`: what a request has not yet incremented at its place in
the handler, so that it increments each counter once at most. With both, `Exact`
follows step by step: an increment makes one value and the number of requests that
count for it larger by one (`CountUp`), and every other step leaves both (`ExactKept`).
`ScrapeConsistent` compares values read at different times. `Caused`: at any instant a
request counts a cause before its effects. `Reading` is what a page shows of a cause, or
would show if nothing were counted any more; `Effects` says that the effects written are
covered by it: the page writes effects first, of values no larger than their causes are at
that instant, and what it reads of a cause later can only be more. `Instant`: the lines of
a histogram are written while its mutex is held, so they are its present values.

**CacheKey.** The time a key names, a bucket or a datetime as written, is at most nine
minutes behind the written time of the request (`NamedTime`), whatever the offset, so two
requests of one key are less than a bucket apart (`SameKeySameTime`). An offset of whole
buckets makes truncating the instant truncate local time, and the bucket divides the hour.
`IInv` only
adds that every entry is stored under the key of the request it answers.

**Tools.** Load test: a user records one answer in latencies, total and status counts in
turn, and the invariant adds to each figure the users who have still to record it. Totals
are sizes of one set of pairs of user and post, so no sum is taken. Simulator: the rows
sent and failed are the finished ones, those sent have a trip in the backend. The
selection is a sequence without repetition that is as long as its set, hence covers it.

Only model-checked: the liveness properties of the runs, which need fairness and ENABLED
and are out of the prover's reach. The three violations of section 4 are no theorems.
Nothing proved needs recursion or induction over data.

## 7. Not modelled

* In-memory repositories and the branch of `CreateTrip` for them: `main` always builds the
  PostgreSQL ones, so no behaviour of the program reaches them.
* `FindNearestAvailable`, `SetStatus`, `UpdateStatus`, `UpdateDispatch`: no caller in
  production. Read-only routes: one query, whose error `ActiveCount` turns into 0.
* Parsing and formatting (RESP, HTTP upgrade, the bytes of client frames, JSON, CSV), the arithmetic
  of distances and percentiles, ids, logging, CORS, training and regression, containers and
  dashboards: no state of their own to get wrong.
* Configuration. The constants exclude values the program does not check: no workers (jobs
  stay queued), a queue size below 1, a window of 0 seconds (division by zero), a simulator
  with `-workers 0`.
* Hijacked WebSocket connections, of which `srv.Shutdown` does not know: they end with the
  process. The frontend: two polls of `useSystemStatus` may overlap, and an older answer
  is shown until the next.
* A crash of the process in `RateLimit`, `PredictServer`, `Hub` and `Metrics`: their state
  is in memory, apart from counters, for which a crash is a caller that stops.

## 8. Plan

1. Done: the models of section 2, the four refinements, and theorems for every safety
   property the runs check.
2. `WorkerPool` under an owner other than `main`, where `Submit` may meet `Shutdown`.
