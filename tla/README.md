# A TLA+ model of SQLConduit

SQLConduit is a C++17 library for access to several databases: connection pools,
synchronous and asynchronous statements, data-source groups with routing and failover,
a circuit breaker, caching, rate limits, auditing and observability. This directory
models its concurrent core in TLA+, checks it with TLC on small instances, and proves
the main safety properties with TLAPS for every instance.

All paths below are relative to the repository (`src/core/...` is
`src/src/core/...` in `PROJECT.json`).

## 1. The system

| part | state | operations | hard behaviour |
|---|---|---|---|
| connection pool (`core/connection_pool.cpp`) | `total`, `borrowed`, idle queue, deque of asynchronous waiters, `closed`, under one mutex with one condition variable | `borrow`, `borrowAsync`, `returnConn`, `expireWaiters`, `healthCheck`, `wakeAsyncWaiters`, `shutdown` | connects, pings and closes run outside the lock; hand-off, timers, cancellation, heartbeat and shutdown race |
| circuit breaker (`DataSource::beforeAttempt/afterAttempt`) | three atomics, no lock | gate, compare-exchange of the probe, stores of a report | reports of several callers interleave store by store; entry points that leave without a report |
| executor (`async/executor.cpp`) | task queue, delayed tasks, worker and timer threads, counters | `tryPost`, `tryPostContinuation`, `postAfter`, `shutdown` | shutdown with queued and delayed tasks; continuations of accepted work |
| operation control (`common/operation_options.cpp`) | stop reason, subscribers, deadline queue | `create`, `subscribe`, `request`, `finish` | subscription racing a stop; stop racing completion |
| asynchronous engine (`async/async_engine.cpp`) | per request: resolved, driverCompleted, timeoutDelivered, handle | native start, completion, timeout, cancellation, fallback, group failover | exactly-once completion; a connection still used by the driver |
| groups (`core/database_manager.cpp`) | last-write stamps, replica state, write buffer, shadow | read target, write dispatch, failover, retry, buffered replay | stale reads after a write; duplicates and losses of buffered writes |
| write buffer (`core/write_buffer.cpp`) | bounded queue, replay thread | `enqueue`, `run`, `start`, `stop` | retries behind later writes, drops, final pass |
| query cache (`core/query_cache.cpp`) | LRU list, index, table tags | `get`, `put`, `invalidate`, `configure` | a fill that finishes after the invalidation |
| sessions, transactions, cursors | transaction flag, savepoints, watchdog, cursor budget | `begin/commit/rollback`, `transaction`, `openCursor` | the deadline watchdog against the end of the callback |
| manager and client (`core/database_manager.cpp`, `client.cpp`) | maps of sources and groups, lifecycle state, executors | `init`, `reload`, `add/remove`, `shutdown`, `submit*Async` | partial failure of `init`; requests across reload and shutdown |
| rate limiter, auditor, interceptors, context, observability, heartbeat and statistics threads | small locked tables and threads | see `PROJECT.json` | snapshots older than the configuration |
| pure code: SQL analysis, named parameters, pagination, builder, types, configuration checks | none | functions | boundary values |
| drivers (MySQL, PostgreSQL, ODBC, Oracle) | connection and transaction flags, statement caches, asynchronous steps | `IDatabaseConnection` | errors half-way through a batch or a transaction |

A statement passes, in this order: the client's lifecycle check, the group's routing,
the cache, the circuit breaker's gate, the pool, the driver, and on the way back the
breaker's report, the retry loop and failover. An `OperationState` (a deadline or a
cancellation token) can stop it at every wait on the way.

## 2. The modules

| modules | part of the system | run | proved |
|---|---|---|---|
| `ConnectionPool`, `PoolLease` | connection pool | `pool`, `pool_dropped_waiter` | `ConnectionPoolProofs` |
| `CircuitBreaker` | circuit breaker of a source | `gates`, `breaker_lost_probe` | `GateProofs` |
| `RequestLimits` | rate limiter, cursor budget, pages | `gates` | `GateProofs` |
| `Executor`, `TaskService` | executor | `executor_and_text` | `ExecutorProofs` |
| `SqlText` | SQL scanners | `executor_and_text` | |
| `AsyncQuery` | asynchronous statements on one source, operation control | `async` | `AsyncQueryProofs` |
| `WriteBuffer`, `DataSourceGroup` | groups: routing, failover, pins, cache, shadow traffic, buffer | `group`, `group_replay_refused` | `DataSourceGroupProofs` |
| `DriverConnection`, `MySqlDriver`, `PostgresDriver`, `OdbcDriver`, `OracleDriver`, `Session` | drivers, sessions, transactions, cursors | `session`, `session_not_rolled_back` | |
| `Lifecycle` | client and manager, heartbeat, statistics, metrics collector | `lifecycle`, `lifecycle_engine_not_drained` | `LifecycleProofs` (not `RefsServed`, `NothingLeftRunning`) |

The `MC...` modules give the constants their values for TLC. `PROJECT.json` maps every
definition to the lines it translates, lists the hazards of the code with the properties
that watch them, and names for each checked property a plausible bug (an operator marked
`Mutant:`) under which TLC finds it violated.

Two conventions hold everywhere. A critical section of a mutex, or one access to an
atomic, is one action; what the code does without a lock is a place (`pc`, `at`, ...)
at which others can act. Time is nondeterministic: a deadline, a time to live or a
cool-down may pass whenever the code looks.

Where a run has parts that do not interact (`gates`, `executor_and_text`), each of its
behaviours is about one part, chosen at the start; the others stand still.

Some questions are answered by a proof only, since the theorem says more than another
run would: `BorrowedExact`, `NoGrantAfterClose`, `StatsAddUp`, `QueueBound`, `Drained`,
`WriteNotRepeated`, `InOrder`. Each was also checked by TLC before it was proved.

## 3. ConnectionPool

*Files:* `ConnectionPool.tla`, `PoolLease.tla` (abstract), `ConnectionPoolProofs.tla`,
`MCConnectionPool.tla` with its cfg files.

A borrower is a thread inside `borrow()` or a request inside `borrowAsync()`. `pc[b]` is
where it is, and the places are grouped by what the borrower owns there: a handle
(`Holding`), a slot without a connection (`Reserved`), a slot and a connection being
checked (`Checking`), a connection already out of the books (`Closing`). One action is
one critical section of `State::mtx` or the code between two of them, so everything that
happens without the lock (a ping, a connect, a close, a posted task) is a state in which
the others can act. `live` counts the physical connections and is not a variable of the
code. `asleep` is the wait set of the condition variable; `NotifyOne` removes one
arbitrary member. `ahead` is the order of the waiter deque.

Abstractions: time is `Tick` (a deadline passes) and nondeterminism (a connection is
stale, too old or dead whenever the code looks); idle connections are interchangeable;
connects and posts may fail. Left out: statistics and the leak warning, spurious wakeups
(the code re-checks in a loop), the destructor of a handle whose pool is already
destroyed. `Halt` is the shutdown of the executor behind the requests: from then on it
refuses posts and runs a delayed task at once, so a timer that is armed late expires its
waiter on the spot. A request whose callback is still arming its timer does not borrow
again (`b \notin arming`), since a request stands for one call at a time; and a stale
timer of an earlier call, which would find nothing to expire, is not kept.

Runs:

* `pool` (two threads and two requests, `max = min = 1`, fairness). A behaviour has a
  *cast*: which borrowers take part, which of them can be stopped, whether the heartbeat
  runs, whether executor and pool are shut down, and whether `pool.enabled` is on. Seven
  casts cover every pair of these and every trio of borrowers in which one holds and two
  wait, so hand-off, order, a notification that reaches the wrong sleeper, and every race
  on the last slot occur; larger pools are covered by the theorems. Slots are counted
  exactly (`SlotAccounting`), no connection is lost (`NoConnectionLeak`), waiters are
  served in order (`FirstComeFirstServed`), the pool refines `PoolLease`
  (`ImplementsLease`), every wait in the pool ends (`WaitsEnd`), and when the last
  connection is back while `shutdown()` sleeps, its notification is on the way and nobody
  else can take it (`CloserWoken`).
* `pool_dropped_waiter` (finding): a `returnConn()` that hands its connection on never
  calls the completions of the overdue waiters it has removed from the deque
  (`connection_pool.cpp:102`), while `CHANGELOG.md:251` promises that they are completed
  (`WaiterAnswered`). The model has the place `dropped` for them, and `WaitsEnd` is about
  the end of the wait, not the call of the completion; `AsyncQuery` takes the loss into
  account (`Forgotten`).

Also seen while modelling; the first was a counterexample of TLC:

* `shutdown()` without grace resets `total` while a thread connects; that thread's
  unclamped decrement takes it to -1 (`:327`), although the other decrements are
  clamped and `tests/sqlconduit_concurrency_test.cpp:136` wants the counters consistent.
* A retired connection gives its slot up before it is closed, so for a moment more than
  `max` physical connections can be open.
* A borrower that met a dead idle connection starts over with a full wait (`:549`): its
  total wait can exceed the borrow timeout. Time in the model has no length to show it.

Fairness (`Fairness`): threads inside the pool, posted tasks, timers, the clock and the
closer make progress; this is what the operating system's scheduler, the executor's
threads and the timer thread give. There is none for borrowing, returning, cancelling,
health checks, the executor's shutdown or the pool's: nothing in the code makes an
application do these.

Proved (`ConnectionPoolProofs`, for all finite sets of threads and requests and all
`MinConn <= MaxConn`): `TypeCorrect`, `SlotsAccounted`, `BorrowedCorrect`,
`NothingLeaks`, `NothingGrantedAfterClose`, `PoolImplementsLease`. The inductive
invariant `IInv` is `TypeOK` together with the three accounting equations and
`Bookkeeping`. None of the equations is inductive alone: a hand-off moves a connection
between two borrowers and is accounted for only if the deque holds exactly the parked
requests (in `TypeOK`); a heartbeat step needs to know that the connection it holds and
the slots it reserved are in `total`; the shutdown steps need `closed` to be set from
the first of them on (`ClosedFromStart`). The argument counts borrowers by place:
`Count(p, places)` is opaque, the lemmas `Worth`, `CountMove` and their kin say how one
move changes it, and each action is a sum of moves.

## 4. CircuitBreaker

*Files:* `CircuitBreaker.tla`, `GateProofs.tla` (with the proofs of section 10),
`MCGates.tla`.

A caller passes `Gate` (the load of `circuitOpenUntil_`), `Probe` (the
compare-exchange), `Run` (the attempt), and then the stores of `afterAttempt()`, one
action each, in the order of the code for its outcome: success (zero, release, close),
permanent failure (release, zero, close), failure that counts (release, count, open), or
the application's own stop (release only). `Finish` is what the entry point does next:
return, the next attempt of the retry loop, or a transaction's commit, which may report
a second time. Four kinds of entry point cover all callers of the gate: a statement with
retry, a cursor (a success leaves without a report), a transaction, and an asynchronous
statement (which leaves without a report when it is stopped while it waits for a
connection or may not fall back). `openUntil` is "none", "future" or "past"; `CoolDown`
lets the interval pass. `failures` saturates at the threshold, above which no comparison
can tell values apart. `calm` says that no attempt ends with a status that counts: these
are the statuses of an outage, but also deadlocks and timeouts, which a database in good
health produces too. `lost` is a history variable.

Left out: `failure_threshold <= 0` (the gate is then a constant), `lastError_`, the
back-off delay.

Runs:

* `gates` (two callers, one of them with statements and asynchronous queries that can be
  stopped, the other with cursors, both with transactions; threshold 2, two attempts):
  the half-open flag has an owner (`ProbeOwned`); cancellations and exhausted deadlines
  alone never open the circuit, however long they go on and however late the reports of
  older failures arrive (`BudgetsNeverOpen`); the circuit closes for good once attempts
  stop failing (`Recovers`). Two callers suffice for every pair of interleaved reports.
* `breaker_lost_probe` (finding): a cursor that opens as the half-open probe never
  clears the flag, and all later calls are refused. The asynchronous engine has the
  same way out (`Abandon`).

Fairness: calls that have begun go on, the clock advances, and the application keeps
calling (`WF` of `Call`): the breaker has no thread of its own, it recovers only by being
called. `Recovers` assumes that from some point on attempts do not fail in a way that
counts and operations are not stopped any more, `BudgetsNeverOpen` only the former.

Proved (`GateProofs`, any number of callers, any threshold and attempts): `BreakerTyped`
and `ProbeNeverStranded` (`ProbeOwned`).

## 5. Executor

*Files:* `Executor.tla`, `TaskService.tla` (abstract), `ExecutorProofs.tla`,
`MCExecutor.tla`.

A task stands for one call of `tryPost()` (`Plain`), `tryPostContinuation()` (`Follow`)
or `postAfter()` (`Timed`). `pc[w]` is where worker `w` is; a thread that runs a task is
*at* that task. One action is one critical section of `mtx_` or the run of one task.
A worker asleep on `cvWork_` is at `asleep`, and a post wakes one arbitrary sleeper; the
timer thread sleeps for `watch`, the first deadline it saw. Threads start with the first
post, as in `ensureStartedLocked()`. `Shutdown` takes the delayed tasks over,
`ShutdownInline` runs them in the closing thread, `ShutdownJoin` joins the threads;
afterwards `postAfter()` runs its task in the caller's thread (`RunInline`). `runs` is a
history variable. Left out: the counters of native, fallback and timed-out operations,
`rejected_`, the order of equal deadlines, an empty task, and `shutdown()` called from
inside a task (it would join its own thread).

Run `executor_and_text` (two submissions, a continuation, a delayed task, two workers, a
queue of one, two clock values; shut down at any moment, with fairness): every task taken
on runs (`TaskRuns`), exactly once and before the end of the shutdown
(`ImplementsService`), and `shutdown()` returns (`ShutdownReturns`). With a queue of one
and two submissions the limit is hit and exceeded by the continuation; two workers are
enough for a notification that reaches a worker whose task another one has taken.

Fairness: the workers, the timer thread, the closing thread and the clock make progress.
None for posting or for calling `shutdown()`. A task is assumed to end.

Proved (`ExecutorProofs`, any tasks, finite set of workers, limit and horizon):
`ExecutorTyped`, `ExecutorStats` (`StatsAddUp`: submitted = queued + active +
completed), `SubmissionsBounded` (`QueueBound`: continuations do not make room for
submissions), `ShutdownDrains` (`Drained`: nothing is left behind) and
`ExecutorImplements`. The inductive invariant `EInv` joins four parts that need each
other: `Once` (what is fresh or waiting has not run), `Apart` (a waiting task is at one
place only, without which running it would leave a second copy), `Ending` (a worker that
has ended saw an empty queue after `stopping_`, so the queue stays empty), and
`StatsAddUp` (without which `active_` could not be shown to stay a natural number). Each
action is shown to have one of five `Effect`s on the set of waiting tasks, from which
both `Once` and the refinement follow.

## 6. AsyncQuery

*Files:* `AsyncQuery.tla`, `AsyncQueryProofs.tla`, `MCAsyncQuery.tla`.

A request is one call of `queryAsync()` (`Read`) or `executeAsync()` (`Write`) on a leaf
source. `place[r]` follows the retry loop and the attempt: posted to the executor,
waiting for the pool, holding the connection, bound to the stop, running natively, or on
the compatibility path (`fallback`, `checked`, `session`), and `delayed` before a retry.
A native query has three more threads of control. `driver[r]` is the driver's callback,
`timer[r]` the timeout task, `late[r]` its continuation `deliverTimeout()`; they meet in
the flags of `NativeQueryControl`, whose every access is an action. The store of
`timeoutDelivered` and the load of `driverCompleted` are release and acquire, not
sequentially consistent, so the load may be done first (`TimeoutLoadEarly`,
`TimeoutStoreLate`); then both sides can miss each other, and the connection comes back
only because the last callback destroys the control block (`Drop`). `leaving` holds the
connections of attempts that call their completion before they let go of the handle.

The stop of an operation is `live`, `over` (`status()` is an error) or `told` (the signal
is sent); `calling` are the subscribers still to be called, the caller's completion and
the binding of the connection, and `cancels` a cancellation on its way to a worker.
`ReleaseStop` ends all of this for a connection. `Deliver` is the one-shot completion of
the client, in which a stop overrides the result.

Abstractions: pool and executor are seen as `ConnectionPool` and `Executor` promise; the
pool's answer (which it may drop: `Forgotten`), the cache, the gates, the interceptors and
the database are nondeterministic; a rejected post may happen at any time. `RetryWrites`
stands for the idempotency of the request together with `retry_writes`. `DriverDone` is
translated from the PostgreSQL reactor; the other drivers complete in the same way.
Merged: releasing the stop lease, looking at the stop and returning the connection are one
step in `DeliverBack`, `SessionEnd`, `LateRelease` and `TimeoutRelease`. Left out: groups
(in `DataSourceGroup`), sessions and transactions (in `Session`), nested operations, the
breaker's report (in `CircuitBreaker`), a reactor destroyed at process exit.

Run `async` (a query that can be stopped and a write, one connection, two attempts, a
query timeout, fairness):

* A request is completed once (`CompletesOnce`); a connection is not given to anybody
  else while a driver still works on it (`BorrowedWhileRunning`); a cancellation reaches
  only the connection of the operation it was asked for (`CancelsOwnConnection`).
* A connection whose statement was cancelled by a stop is reset before it is used again
  (`StoppedReuse`; `struck` are these connections), unless the request was answered by
  its timeout.
* Every submitted request is answered unless the pool drops its completion (`Answered`;
  section 3), and the connection comes back to the
  pool (`ComesBack`).

With one connection every hand-over between the two requests is one of the same
connection, which is where a late cancel or a late reset would do harm. A write that is
stopped, or retried, does not occur in this instance; an instance in which both requests
can be stopped (543,862 states) was checked once without an error, and the theorems
cover both.

Also seen; the first two were counterexamples of TLC:

* When the timeout has won, the connection goes back to the pool although a stop has
  cancelled its statement (`async_engine.cpp:440`, `:309-318`), while
  `docs/query_api.md:294-295` says that it is not reused: hence the exception in
  `StoppedReuse`.
* A stop between the check after the pool wait and `bind()` (`async_engine.cpp:757`)
  answers a write without `outcomeUnknown`, as one whose pool wait was cancelled, and the
  write is executed all the same; `docs/query_api.md:302` and `CHANGELOG.md:59-60` have
  the caller decide by that flag whether a write may be repeated.
* A retry on a leaf source runs the interceptors' completion once per attempt, and a
  statement the driver declines passes the `beforeExecution` interceptors twice, while
  `docs/guide_en.md:633` speaks of once per call.

Fairness: workers, timer thread, callbacks and deadline thread make progress, and the
pool ends every wait (`WaitsEnd` of `pool`). The database is assumed to answer the
statements that nothing else ends: writes, queries without a timeout, and everything on
the compatibility path, which has no timeout of its own (`Unlimited`). It need not answer
a native query with a timeout. None for submitting, stopping, shutting down, or for a
cancellation, which a saturated worker pool may drop.

Proved (`AsyncQueryProofs`, any requests, connections and attempts, with or without
timeout and retried writes): `AsyncTyped`, `CompletedOnce`, `BorrowedThroughout`,
`CancelsOnlyOwn`, `WritesNotRepeated`. The inductive invariant `AInv` says of each
request by itself (`Local`) who has won `resolved.exchange()` and who may therefore still
complete it (`Handshake`), from when to when it holds a connection (`Held`) and a stop
lease (`Leased`), and what is left of its attempts (`Planned`); the one statement that
relates requests is `Exclusive`. `CompletesOnce` needs `Handshake`, because a callback
that delivers must know that the request is not done yet; `BorrowedWhileRunning` needs
`driverCompleted` to be set before `deliverTimeout()` may return the connection. Each
action keeps `Local` of its own request (one lemma each); `StepFrame` shows that it
leaves the others alone, and reduces its effect on connections to four cases.

## 7. WriteBuffer and DataSourceGroup

*Files:* `WriteBuffer.tla`, `DataSourceGroup.tla` (extends it),
`DataSourceGroupProofs.tla` (about both), `MCDataSourceGroup.tla`.

`WriteBuffer` is the queue of writes that found no writable source and the thread that
replays them. The thread swaps the queue into its local `batch` (`Swap`), expires or
replays each write without the lock (`Expire`, `Replay`, `Flushed`), and puts what failed
back in front of what has arrived since, dropping the newest when there is no room
(`Requeue`). After `Stop` it makes one final pass. `fate`, `order` and `taken` are
history variables.

In `DataSourceGroup` a request runs a script of statements in one request context. A
write tries the candidates in order (`RouteWrite`, `WriteOk`, `WriteRetry`,
`WriteFails`), may be buffered (`Buffer`), and after success pins its scope to the primary
(`Mark`), opens the read-after-write window (`OpenWindow`) and invalidates the cache
(`Purge`); each of these is a step of its own, as in the code. A read picks a target
(`RouteRead`), looks into the cache (`Lookup`), reads (`FetchOk`, `FetchRetry`,
`FetchFails`) and fills the cache (`Fill`). Sessions and transactions take the primary.
`Replicate` is the database's own replication (external): until it happens a replica does
not have a write. Synchronous and asynchronous statements take the same steps; where they
differ the call is marked `async`. Circuits, pools and databases may answer anything at
any time. Left out: byte accounting and order of eviction in the cache (any entry may go
at any time), more than one query per source, waiting times.

Run `group` (two callers; primary, a standby that is replica and failover candidate, a
shadow source; a buffer of one place; two attempts; a cache for replicas; started,
stopped and flushed at any moment): a caller that writes by statement, session or
transaction and then reads, beside an asynchronous reader; two buffered writes, one of
them retried; a shadow write and read beside a write.

* `WrittenOnce`: without retries a write is executed at most once over all candidates,
  and not at all before it is buffered.
* `ShadowWritesIsolated`: a write in a shadow context reaches the shadow source only.
* `ReadYourWrites`: a synchronous caller sees its acknowledged write, when the primary
  is not cached and the caller has entered one context scope.
* `NothingLost`: an accepted write is pending until the flush thread has replayed it
  (whatever the answer was), found it expired or run out of room for it, and `stop()`
  abandons none without a last replay. It does not say that the replay reached a database:

Run `group_replay_refused` (finding, the same instance): a replay that meets an open
circuit is turned away with an answer that is neither retryable nor `connectionBroken`
(`database_manager.cpp:1235-1249`), and the write is dropped unsent
(`write_buffer.cpp:79`), while `docs/guide_en.md:497` says it is replayed "after the
primary recovers" (`KeptUntilRecovery`).

A buffer of one place is full as soon as one write waits, so both refusal and dropping
occur; two requests are enough for every race of one write with one read or replay.

Proved for all sources, candidates, replicas, calls and queue lengths:

* Of the buffer: `PendingInOrder` (`InOrder`: pending writes stay in the order of
  acceptance) and `NoWriteLost`. The invariant `BufferInv` says where a write may be
  (`Placed`: in one of three queues, once), that the queues joined are in order
  (`Lined`), that fates agree with the queues (`Accounted`), and what each phase of the
  thread implies (`Phases`); without the last, the final `Clear` could not be shown to
  throw nothing away.
* `GroupImplementsBuffer`. Every step of the group is a step of
  the buffer or leaves it alone, so the two theorems above hold inside a group.
* Of the group: `GroupTypes`, `NoDoubleWrite`, `ShadowIsolation`,
  `OwnWritesSeen`. The invariant `GroupInv` has a part per request (`RequestInv`):
  `Placement` (which places belong to which statements), `OnceSoFar` (a write that has run
  or was buffered is past its last attempt), `Isolated` (a shadow write has one target and
  never gets to the buffer) and `SeesOwn` (once acknowledged, the scope is pinned before
  the next statement, so a read is at the primary). Each action keeps the part of its own
  request, and the frame lemmas show that it leaves the others alone.

Assumptions: `ShadowAssumption` (the shadow source is neither primary nor replica, which
`resolveShadows()` enforces) and `OneWriteEach` (a request writes at most once, so that
its writes are told apart by its name).

Also seen while modelling:

* Read-your-writes (`docs/guide_en.md:875`) has exceptions, which are the conditions of
  the property: with `cache_on_replica_only` off, the default, a fill that finishes after
  the invalidation stores old rows (`query_cache.cpp:113`, `put()` carries no version);
  without an interceptor frame the pin goes to the outer one of two nested scopes; and
  after a failover reads go to the configured primary.
* A shadow read falls back to the primary, and a shadow source may itself be a failover
  candidate; sessions and transactions ignore the shadow flag. The guide (about line 861)
  says there is no fallback.
* `borrowSession()` and `borrowAsync()` report a failed connect as `connectionBroken`, so
  the failover rule takes such a write for one that may have been sent, and does not move
  it to another candidate. An asynchronous write that finds its leaf closed ends there
  (`async_engine.cpp:1124`).
* A replay marks the write on the primary leaf only, not on the group.

## 8. Drivers and Session

*Files:* `DriverConnection.tla` (what the drivers share, and the server), one module per
driver, `Session.tla` (composes them), `MCSession.tla`.

`DriverConnection` has the state `IDatabaseConnection` hides: flags (`conn`), the call the
owner is making (`call`), the thread inside `cancel()` (`killer`), the prepared-statement
cache (`prep`), the cursor (`cur`), the asynchronous reactor (`nat`), and the session at
the server with the committed writes (`sess`, `db`, external). A driver answers a call in
as many steps as it makes requests to the server, each of which may succeed, be refused or
find the connection lost, before or after the server has run the statement; `killer` may
act between any two. The four modules differ as the drivers do: how a transaction is begun
and ended, what a batch does about a failing row, how results are drained, how statements
are cached and evicted, where the operation that `cancel()` may interrupt is published and
withdrawn.

`Session` is the user of a connection: borrowed with or without validation, for a session,
`transaction()` with a deadline and savepoints, a cursor or a native statement, and
returned to the pool. Every function of `Session` is an operation of it.

Assumptions: the caller closes session cursors before ending the transaction, and does not
use the connection while a native operation runs; an error leaves the transaction open
except in PostgreSQL; closing a MySQL statement always frees it, while the other three
drivers ignore a release that failed and then leave the statement at the server; a cancel
ends before its lease does; a MySQL server does not refuse a rollback by itself. What a
server did when COMMIT or ROLLBACK was answered with an error is not known (`doubt`), and
the properties except it.

Runs:

* `session` (four drivers, all operations, two statement texts, a cache of one, two
  writing calls, batches of two rows, two operations per lease, one lease): a connection
  at rest carries nothing of its last borrower (`CleanPool`); a batch is all or nothing
  (`BatchAtomic`); `transaction()` keeps its word about commit and rollback
  (`TransactionOutcome`); the structures of the statement cache agree, every statement
  that can still be run has its native statement, and a handle never comes to mean another
  statement (`PreparedConsistent`). Two texts and a cache of one force an eviction with
  every second statement; two rows are the least with a first row that succeeds and a
  second that fails. One lease is enough since `CleanPool` says that the next one starts
  as the first did; it says so up to its exceptions.
* `session_not_rolled_back` (finding): a MySQL query in `transaction()` exceeds the row
  limit and leaves results unread; the rollback is refused as out of sync, and the
  connection goes back to the pool with its transaction open.

Also seen while modelling:

* *MySQL.* A failed commit or rollback leaves `txOpen_` set. Text `execute()` of a statement
  with rows fails while it drains. Errors of bound and prepared statements are never
  `connectionBroken`.
* *PostgreSQL.* A cursor's own transaction is aborted, not committed, after the last row.
  `executePrepared()` cannot be cancelled.
* *ODBC.* A failed `SQLEndTran` is followed by AUTOCOMMIT ON, which commits the work that
  was to be undone (`odbc_driver.cpp:1701-1705`). `prepare()` frees its statement before
  reading the diagnostics (`:2220-2222`), and commit and rollback read theirs after a
  second call. `openCursor()` frees its handle before the slot is cleared (`:1940-1943`),
  against the comment at `:1797-1798` that the lock pins it for `cancel()`; the step
  between the two is in `OdbcOpenCursor`, and no property says otherwise. The access mode
  is not restored.
* *Oracle.* A statement outside `begin()` is never committed (`oracle_driver.cpp:1904`)
  and `call()` sets `txOpen_`; `CleanPool` excepts both. `cancel()` calls `OCIBreak` after
  it has let go of the mutex (`:2576-2580`), so it may hit a later operation. A batch
  whose commit fails is not rolled back.
* *Sessions.* `Session::openCursor()`, `Session::prepare()`, the functions of `Cursor` and
  `openCursorUngated()` do not invalidate the handle on `connectionBroken`. A polling
  reactor that stops drops its incomplete steps.

## 9. Lifecycle

*Files:* `Lifecycle.tla`, `LifecycleProofs.tla`, `MCLifecycle.tla`.

`Client` and `DatabaseManager` with the threads they own. Callers run `init`, `reload`,
`addDataSource`, `removeDataSource`, `addGroup`, `removeGroup`, `shutdown` and the
destructor; `op[c]` is where a call is. `man` is what `mtx_` protects: the published
leaves and groups, the default name, the write buffers, the heartbeat manager. A leaf and
its pool are one object with a number of its own, so that a pool replaced under the same
name is told apart. `hb` are the heartbeat managers ever built, each with its thread;
`sampler` are the statistics thread and a reader of the metrics, which call the collector
under the `lease`; `req` are asynchronous statements, which take the source and the
executor and then become a task of the executor or are accepted by the engine (`engine`:
in the queue of the pool or with the driver; the engine's own steps are in `AsyncQuery`).
`spared`, a history field, are pools added with `attach_heartbeat` off. The lock `mtx` is
a variable because one section joins a thread while it holds it.

Run `lifecycle` (two interchangeable callers with three calls in all, a request, two leaf
and two group names, at most four pools; a good configuration with a shadow source, one
whose group shadows itself, one without asynchronous execution and statistics; a group to
add whose shadow is its replica and failover candidate, with a buffer):

* `RefsServed`: what a published group refers to is published, open, watched by the
  current heartbeat manager unless it was added with `attach_heartbeat` off, and marked as
  replica if some group reads from it; a running client has a default (except after a
  rollback, see below).
* `NothingLeftRunning`: when no administrative call is in progress, every open pool is
  published, no flush thread runs for a buffer nobody owns, and replaced heartbeat and
  stopped statistics threads have been joined.
* `SampledAlive`: the collector never reads a manager that has given up its lease.
* `DrainsFirst`: `shutdown()` closes no pool while a task that the executor accepted is
  queued or runs.
* `NoCircularWait`: calls, the statistics thread and readers of the metrics never wait
  for each other in a circle.

Three calls give every pair of racing calls after an `init()`, and an `init()` or reload
that fails between two of them; four pools let a reload replace two.

Run `lifecycle_engine_not_drained` (finding, one caller): a statement that only the engine
holds is no task of the executor, so `stopAsync()` does not wait for it and `shutdown()`
closes the pools under it, while `docs/guide_en.md:982` says that `shutdown()` "drains
submitted work" (`AcceptedDrained`).

Left out: calls that are refused before they change anything, the settings of the runtime
services, the rate limiters handed out by `init()`, `transactionAsync()` and the other
forms of a task, and which statement the engine declines (any).

Proved (`LifecycleProofs`, any number of callers, requests, calls, pools, configurations
and additions): `ControlKept`, `MetricsReadALiveManager` (`SampledAlive`),
`ExecutorDrainedBeforePoolsClose` (`DrainsFirst`; nothing is claimed about statements that
only the engine holds) and `NobodyWaitsInACircle` (`NoCircularWait`). The inductive
invariant `Control` is about control, not about the contents of the maps: where each call
may be and with which argument (`Placed`), who is alone (`Alone`), who holds `mtx_` and the
lease (`Locks`), that the lease is disowned before the manager goes (`Disowned`), and with
which executor an accepted task is (`Accepted`): the current one, or one whose retirement
some call is waiting for. `DrainsFirst` needs the last together with `NoExecutor`: once a
shutdown has drained, no executor is open that could accept a late post. Assumed:
`LifecycleAssumption` (types of the constants).

Also seen while modelling:

* A failed reload restores neither `defaultName_` nor the settings of the services, while
  `docs/guide_en.md:29` and `:485` call a reload atomic. `docs/guide_en.md:871` says that
  shadows are validated before anything is visible, but groups are published first.
* Sources added or removed between the publication and the rollback of a reload are lost
  or come back. A group whose addition was undone during a refused reload comes back with
  a buffer that is registered and does not run.
* The rollback of `addGroup()` erases by name and leaves replicas marked. It can be caused
  by another group's bad shadow.
* `addDataSource()` racing `shutdown()` publishes into the manager of a closed client
  (its destructor cleans up), reads the default rate limiter before it inserts, and shuts
  a duplicate's pool down under `mtx_`, while the guide (line 757) speaks of no I/O under
  that lock.
* The rollback of `init()` joins the heartbeat thread under `mtx_`; and `stop()` sets its
  flag without the mutex of the wait, so that this may take a whole interval.

## 10. SqlText and RequestLimits

*Files:* `SqlText.tla`, `RequestLimits.tla`, `GateProofs.tla`, `MCExecutor.tla` (text),
`MCGates.tla` (limits).

`SqlText` has the four scanners that decide what of a statement is literal text:
`BindNamed`, `Placeholders` (`replacePlaceholders()`), `Visible` (`maskLiteralRegions()`)
and the gate of pagination, `ValidateSelect`. They were written separately; each is
translated step by step as a recursive operator on sequences of symbols, and the
properties compare them. `RequestLimits` has three small concurrent objects: the token
buckets of `RateLimiter`, the compare-exchange loop of the cursor budget, and a page put
together from the answers of a data and a count query. Tokens are counted in parts so
that a refill is exact; the code uses floating point.

Run `executor_and_text` (statements of at most four pieces out of twenty-two):

* `NamedBindsPositional`: a rewritten statement has as many placeholders as parameters.
* `PageClauseBinds`: the placeholders of an appended page clause are seen, after those of
  the statement.
* `MaskAgrees`: what the classifier and the auditor see has the placeholders the binder
  finds.

Four pieces are enough to open a region, to put something into it, to close it and to
follow it with a placeholder; every pair of nested or overlapping regions occurs.

Run `gates` (three threads, two fingerprints of which one has a bucket, times up to 4;
budgets without limit and of 2; pages around a largest integer of 7, tables of 0, 3 and 7
rows):

* `RateBound`: in any stretch of time a bucket grants at most its burst and what flows in.
* `CursorBudget`: the counter equals the leases and stays within the limit.
* `PageDelivered`: a page is delivered once, with its window, and refused exactly at the
  limit of the integers (the other refusals of `preparePage()`, of a text that cannot be
  paged, a missing count query or an unknown dialect, happen before anything is asked and
  are left out).

Proved (`GateProofs`, any threads, limits, bursts, rates and integer width):
`CursorsWithinBudget`, `RateIsBounded`, and `RefusesExactly` (the guard of
`preparePage()`, which avoids overflow by a division, refuses exactly the pages that reach
beyond the largest integer). `BudgetInv` adds that a thread about to exchange has seen a
value below the limit; `RateInv` adds that what a bucket has granted since any earlier
grant, with the tokens it still holds, is covered by the burst and the time since
(`Covered`), without which the bound on a stretch says nothing about the next grant. The
assumption `LimitsAssumption` gives the constants their types.

Also seen while modelling:

* A named parameter with `$` in its name is bound by `bindNamed()` and then hidden from
  `replacePlaceholders()` as a dollar quote. A word ending in `q` that touches a quote
  begins a literal for `replacePlaceholders()` only. `maskLiteralRegions()` knows no
  brackets, alternative literals or nested comments. The properties except these.
* Fingerprints beyond `kFpCap` are not limited; a global token is spent even if the
  bucket of the fingerprint refuses. A group's own `max_open_cursors` is not consulted.

## 11. What is not proved

Only model-checked: liveness under fairness (`WaitsEnd`, `Recovers`, `BudgetsNeverOpen`,
`TaskRuns`, `ShutdownReturns`, `Answered`, `ComesBack`); `FirstComeFirstServed`,
`CloserWoken` and `StoppedReuse`; the functions on text, which are recursive;
`PageDelivered`; everything about `Session` and the drivers; `RefsServed` and
`NothingLeftRunning` of `Lifecycle`.

Known to be in the code and not expressed by a property: the handle that ODBC's
`openCursor()` frees early, AUTOCOMMIT after a failed `SQLEndTran`, Oracle's statements
outside `begin()`, and the negative `total` of a pool that is shut down (all are in the
models; see `hazards` in `PROJECT.json`).

## 12. Not modelled

* *SQL auditor, interceptors.* A decision on one statement under an immutable snapshot of
  rules, and calls of application code. Their answers reach the models as refusals; the
  frame an interceptor pushes on the request context is in `DataSourceGroup`.
* *SQL builder, mapping, value types.* Sequential code without shared state: string
  building, templates expanded at compile time, conversions of single values with floating
  point and calendars.
* *Configuration and YAML.* Parsing and field-by-field checks before anything runs; the
  cross-references between sources and groups are checked again by the manager, and
  modelled in `Lifecycle`.
* *Driver registry, runtime services, exporters, command-line tool.* A map behind a mutex,
  a bundle of references, formatting, printing.
* *Observability* beyond the pool metrics collector: counters under one mutex each, which
  nothing in the models reads.
