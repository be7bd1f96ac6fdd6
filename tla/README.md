# TLA+ models and proofs of mg-transport-core

`mg-transport-core` is the common part of the message transports of a CRM: an
HTTP engine, localisation, a configuration reader, database migrations,
background jobs, in-process and external queues with autoscaled workers, health
checks of connections, and middlewares.  This directory holds TLA+ models of
the parts that carry logic of their own, the TLC configurations that check them
on small instances, and TLAPS proofs of what matters most.

`tlc -config X.cfg M` checks a run (`PROJECT.json` lists which module goes with
which `.cfg`), `tlapm M.tla` checks the proofs of a module
`...Proofs`.

## 1. The system

All paths are under `src/core`.

| part | state it keeps | operations | touches |
|---|---|---|---|
| queue (`queue/memory.go`) | list under a mutex, condition variable, atomic size, context | Enqueue, Dequeue, DequeueContext, Len, LastEnqueueTime, stop | a watcher goroutine per cancelable call |
| worker (`queue/worker.go`) | none; a loop | check context, dequeue, process, recover | any queue, the application's processor |
| store (`queue/store.go`) | `sync.Map` of queues, stop functions by id, `getLock`, `stopsLock`, `scaleLock` | Get, Remove, WithScaleFunc, Length; addWorker, stopWorker | starts queues, workers, one autoscaler per queue |
| job (`job_manager.go:43-147`) | active flag and stop channel under a RWMutex | run, stop, runOnce, runOnceSync | a timer goroutine, a goroutine per stop |
| job manager (`job_manager.go:149-390`) | `sync.Map` of jobs | RegisterJob, UnregisterJob, UpdateJob, FetchJob, RunJob, StopJob, RunJobOnce, RunJobOnceSync, RunJobsOnceSequentially, Start | jobs |
| health counters (`healthcheck/`) | atomics per counter, `sync.Map` of counters | HitSuccess, HitFailure, Failed, FlushCounters; Get, Remove, Process | request handlers write, one checker reads and notifies |
| Beanstalk queue (`queue/beanstalk/`) | connection, tube sets and locks | Put, Process, Shutdown, reconnects | an external beanstalkd |
| localizer (`localizer.go`) | `sync.Map` of bundles by tag and `loadMutex`, shared; a current tag per clone | SetLocale, SetLanguage, FetchLanguage, Preload, GetLocalized* | shared by engine, templates, middlewares and the uploader |
| migrations (`db/migrate.go`) | list of migrations by version, in a package variable; rows in the database | Migrate, Rollback, MigrateTo, RollbackTo, MigrateNextTo, MigratePreviousTo | database, gormigrate, processes of other builds |
| engine (`engine.go`) | everything an application needs, prepared flag, lazily made parts | New, Prepare, ConfigureRouter, Run, SetLogger, JobManager, UseZabbix, BuildHTTPClient, InitCSRF ... | all of the above |
| CSRF (`middleware/csrf.go`) | a salt per process; the token in the session | GenerateCSRFMiddleware, VerifyCSRFMiddleware | session store, other processes |
| Sentry (`sentry.go`) | SDK options, a once | InitSentrySDK, CaptureException, SentryMiddlewares | SDK, request contexts, the shared localizer |
| uploader (`module_features_uploader.go`) | none | Upload | the shared localizer, S3 |
| validator (`validator.go`, `domains.go`) | two lists of domains, each with a RWMutex and the time of its last fetch | isDomainValid | an HTTP source, requests side by side |
| HTTP client builder (`util/httputil`) | builder fields, also read by the transport it made | Set*, Build, ReplaceDefault, RestoreDefault | `net/http`, DNS |
| logger (`logger/`) | a buffer and open namespaces per encoder; fields and a parent per logger | With, ForHandler, ForConnection, ForAccount, a line per call | zap |
| scopes (`util/utils.go`) | none | GetAPIClient, checkScopes | the API |
| small helpers | none | tokens, phone numbers, error lists, templates | |

What makes the code hard:

* **Goroutines and locks.**  A consumer of the queue checks two contexts, one of
  which is canceled without the queue's mutex, and then sleeps on a condition
  variable; a watcher goroutine per call translates the cancellation into a
  broadcast, and its `select` may take either of two ready cases.  `stop` of a
  job sends on an unbuffered channel with the job's write lock held.  Health
  counters change several atomics in a row, without a lock.
* **State read before an unlock and used after it.**  `Job.run` gives `RLock` up
  before it takes `Lock`; `Store.addWorker` loads the queue before it takes
  `stopsLock`; `Store.Get` starts workers before it lists their stop functions.
* **Failure.**  Processors, ScaleFuncs, Commands, ErrorHandlers and request
  handlers may fail or panic at any place, and what runs afterwards depends on
  where: three deferred functions of a request each report, answer or panic
  again.  `Prepare` and `Rollback` fail in the middle and are tried again.
* **Several processes.**  Builds of different age work on one migrations table;
  replicas with a salt of their own answer one browser.
* **Ordering.**  Cancellation, stop, removal and registration race with calls
  that are under way.

What makes each part correct, and what the models state:

* queue: FIFO, each item to one caller, items accepted before the stop still
  come out, nobody sleeps through a stop or a cancellation or beside an item,
  `Len` is exact and never negative.
* worker: every job taken is processed whatever happens to the context; a panic
  costs no worker; the cancel callbacks run once.
* store: one live queue per id; no worker outlives its queue; the stop function
  of every worker is kept; the bounds on the number of workers.
* job: one timer; it is active exactly while `StopJob` can reach it; calls
  return.
* job manager: a list of jobs runs in order and as far as it should; an update
  leaves the name registered.
* counters: a failure is notified once and not forgotten.
* Beanstalk: no job leaves the server before it is done, and every job is
  delivered, however connections break.
* migrations: the rows have no hole, and a call that returns nil has done what
  its name says.
* requests: each in its own language, every failure reported once and answered,
  every request ended.
* CSRF: a page is accepted where it was rendered.
* engine: what is prepared is complete, also after a Prepare that failed.
* logger: every line is one JSON object that keeps what was logged.
* HTTP client: the first tunnel that fits.  Scopes: exactly the missing ones.
* validator: no URL is judged by domains known to be too old.

## 2. The modules

### FifoQueue, MemoryQueue, MemoryQueueProofs: `queue/memory.go`

`FifoQueue` is what `Queue[T]` promises (memory.go:24-30) when every method
takes one step.  `MemoryQueue` is the code.  `mutex` is `q.mutex` with the
goroutine that holds it, `waiting` the sleepers of `q.cond`, `stopped` is
`q.ctx.Err() # nil`, `cancelled` the callers whose own context is canceled,
`pc`, `ret` and `watch` where a call is, what it returned, and where its watcher
goroutines are.  A critical section is one step except where others see its
middle: at the reads of the caller's context (it is canceled without the mutex)
and between the list and the atomic size (read by `Len` without it).  A
`select` blocked on two channels commits to the one that becomes ready first, so
a cancellation *fires* the parked watchers and `close(done)` sends them home;
one that has not reached its `select` may find both ready and take either.

`ImplementsFifoQueue` is the refinement: `Fifo == INSTANCE FifoQueue WITH ...`
maps the list, the stop, the cancellations and the answers, and forgets mutex,
condition variable, watchers and counters.

### WorkerPool: `queue/worker.go`

Extends `MemoryQueue`: every consumer runs the loop of `NewWorker`.  The
processor returns or panics; after a panic the loop goes on.  That the cancel
callbacks run exactly once is part of `WTypeOK`.

### QueueStore, QueueStoreProofs: `queue/store.go`

The queues, workers, stop functions and autoscalers of one id; ids share only
two locks.  A queue is the number of its construction; a worker is a slot that
is taken again once its context is canceled and nothing refers to it.  Sections
under `stopsLock` are one step each; `getLock` is a variable because `Get` and
`Remove` hold it across several.  `AddWorkerLoads` and `AddWorker` are the two
halves of `addWorker`, before and under `stopsLock`, likewise for `stopWorker`.
`WorkersInBounds` is `LastWorkerStays` (stopWorker's bound) and `WorkersBounded`
(addWorker's).

### JobTimer, JobProofs: `job_manager.go:91-137`

One regular job: `run`, `stop`, the goroutine of each, and calls that the job's
own Command makes.  A timer is the number of its start; the channel made for it
has the same number.  The `RLock` sections only read, so each is one step that
needs no writer inside; the write lock is a variable because the goroutine of
`stop` holds it while it sends.

### JobManager, JobProofs: `job_manager.go`, the rest

The registry, where each call takes several steps on a `sync.Map`, and the
goroutines of `RunJobsOnceSequentially` and `RunJobOnceSync`: goroutine `i`
runs `getWrappedFunc` for the i-th job of the list.  `handled` is a history of
what the ErrorHandlers were called with.  `ListsRunInOrder` is
`OneAfterTheOther` (a job starts when the Command before it is over) and
`FailureEndsChain`.

### HealthCheck, HealthCheckProofs: `healthcheck/`

Request handlers `Get` a counter from `SyncMapStorage` and hit it; one checker
ranges over the storage and runs `CounterProcessor.Process` on what it finds.
The fields of `AtomicCounter` are atomics and no lock joins them, so each load,
store and compare-and-swap is a step: `HitSuccess` is `HitSuccess`, then
`CasFails` or `CasSwaps`, `ResetProcessed`, `ClearMessage`; `Process` is the
`checker`'s walk from "range" and back.  A counter is the number of its
construction, so one that a handler kept after `Remove` or after another `Get`
stored over it stays visible.  Range visits the ids that were stored when it
started, in any order, each with the counter it then finds.  Whether
`FlushCounters` comes within `resetPeriod` of the last flush is a choice.
`notices`, `recoveries`, `alerted` and `noticed` are history.

### BeanstalkQueue, BeanstalkQueueProofs: `queue/beanstalk/`

`Put`, `Process`, `finishJob` and `Shutdown`, with `ReconnectTube` and
`ReconnectTubeSet` in their two halves, the close and the new connection.
beanstalkd and the network are external: a connection has jobs reserved until it
deletes them, their time to run is over or it ends; it may break at any time,
also between what the server does and the answer.  Of the connections of the
tube set only the one that `m.tubeSet` has now can be used; a job that another
one took along is `leaked`.  `recvLock` is what Go makes of it: a writer that
waits (`writer`) keeps new readers out and waits for those inside (`readers`);
`leaked` is a read lock that was never given back.

### Migrations, MigrationsProofs: `db/migrate.go`

One process at a time, of any of several builds, each with the versions its init
functions add.  `applied`, the rows, outlive the process; the rest of the state
does not.  A call looks at the current version and plans its transactions
(`todo`); each then commits or fails in a step of its own, and the process may
end before any of them (`Restart`).  gormigrate is external: a transaction runs
the versions it knows up to or down from its target, refuses one it does not
know, and on the way up also a row it does not know.  `pastUnknown` remembers
that an older build rolled back beneath a row of a newer one.

### Localizer, Requests, ApplicationProofs: `localizer.go`, `sentry.go`, `module_features_uploader.go`

`Localizer` has the localizer of the application and the clones of the requests,
each with a language, and the bundles all share.  Choosing a language loads its
bundle under `loadMutex` the first time; a load may panic, and the deferred
Unlock runs.  The uploader chooses languages on the shared localizer.
`Requests` extends it with the path of a request through the middlewares of
`initGin`: localization and the handler on the way in, then sentrygin,
`recoveryMiddleware` and `exceptionCaptureMiddleware` as the stack unwinds, each
of which may pass a panic on, turn it into an error, or panic itself because the
shared localizer has no bundle for its language.  `happened` and `uploading` are
history.

### Csrf, ApplicationProofs: `middleware/csrf.go`

A browser with one session, the last page it was shown, and the processes of the
application.  A token stands for the salt it is a hash of; a session written by
a process with other keys is a new session.  `Render` is
`GenerateCSRFMiddleware` and the page, `Submit` is `VerifyCSRFMiddleware` with
the token in one of the carriers of `DefaultCSRFTokenGetter`.

### Engine, ApplicationProofs: `engine.go`

The calls of an application on its engine in every order, one after the other.
`PrepareFails` leaves what the steps before the failing one have set.  `holds` is
the logger each part got when it was made.

### LogLine, LogText, DefaultLogger, UtilityProofs: `logger/`

`LogLine` writes fields into the buffers of `jsonWithContextEncoder` as JSON
tokens, with namespaces, nested encoders and values that cannot be marshaled;
`Reads` is a reader of JSON, the reference.  `LogText` is `safeAppendStringLike`
on every string of up to four bytes of five classes.  `DefaultLogger` is a chain
of `With`, `ForHandler`, `ForConnection` and `ForAccount`.

### HttpClient, Scopes, DomainStore, UtilityProofs

`HttpClient` is the builder, the configuration `Build` applies, and the proxy
function of the transport, for all hosts and lookups.  `Scopes` is `GetAPIClient`
and `checkScopes`, whose loop deletes from the array it ranges over, on lists of
up to three scopes.  `DomainStore` has validations side by side: `lastUpdate`
is read without the mutex, the fetch holds it.

### MCApplication, ApplicationProofs

The small parts share no state (an application uses each through its own
interface), so one run checks them one after the other: `part` says whose steps
a behavior consists of.  Where they do meet, they are in one module:
the localizer with the requests and the uploader, workers with their queue, the
list of jobs with the registry.  A part that is not looked at starts in one state,
and every behavior of `ApplicationSpec` is one of each part's own specification
(`PartsRun`), so what is proved of a part holds of the run.

## 3. The runs

| run | instance | shows |
|---|---|---|
| `Queue_safety` | 2 workers (one with `context.Background()`, one with a child of the queue's context), 1 producer, 3 items of 2 values, 2 watchers per call | types and the size beside the list, no sleeper forgotten by stop or cancellation, refinement of `FifoQueue`, no job lost by a worker, callbacks once |
| `Queue_liveness` | the same, 3 equal items, 1 watcher | calls return when given up, sleepers get items, workers exit |
| `Queue_lost_wakeup` | the same | *violated*: see below |
| `QueueStore_safety` | 2 clients that also set a ScaleFunc late, 2 autoscalers, 4 worker slots, 2 constructions | one live queue, workers die with it, the bounds, the stop functions |
| `QueueStore_last_worker` | 1 client, 2 autoscalers | *violated*: see below |
| `JobTimer` | 2 clients and the Command itself, 2 stoppers, 4 starts | one timer, which the stop channel reaches; calls return |
| `JobTimer_double_stop` | 1 client | *violated*: see below |
| `Application` | the parts of `MCApplication`, each with its own small values (below) | lists of jobs run in order and as far as they should, updates leave the job, rows without holes, calls that do what they return, own language, failures told once, requests that end, accepted pages, prepared engines, well-formed log lines, the first tunnel, the missing scopes, fresh domains |
| `HealthCheck` | 2 handlers, a known and an unknown connection (its counter removed at times), 2 constructions, 3 calls, 80 % of at least 2 requests | no alert storm, messages and failures go together, failures are dealt with |
| `HealthCheck_lost_failure` | 1 handler | *violated*: see below |
| `Beanstalk` | 1 caller of Put, Process, 2 processors, 1 job, 1 broken connection, a Shutdown | no job off the server before it is done, locks, Process ends once stopped, jobs are delivered |
| `Beanstalk_stop` | the same | *violated*: see below |

**Bounds.**  Two consumers are the fewest for which a signal can reach the wrong
one, and the two kinds have different ways to end; a second watcher per consumer
lets the watcher of a finished call meet the next call; three items let the
queue hold two while a third arrives.  Two constructions let an autoscaler of a
removed queue meet its successor; four slots let the list reach
`maxNumWorkers + numWorkers`.  Four timer starts let a stop meet the timer after
the next.  Three calls on the counters are enough for
a failure, a success that clears it while the checker is between notice and
mark, and the next failure; the second counter is one made by a `Get` that races
another, or the one that the next visit finds.  `MaxEnqueues`, `MaxQueues`,
`MaxRuns`, `MaxHits`, `MaxCounters`, `MaxJobs` and `MaxBreaks` bound histories
that have no other end; one job of Beanstalk is handed out any number of times,
to two processors at once, and after one broken connection the reconnections
themselves break the others; `Watchers`, `Scalers`, `Stoppers` and `Workers` bound goroutines
alive at once.

The parts of `Application`: a list of three jobs, with and without handler or
panics, run by one call of either kind, beside two registrars that work on the
middle one; three builds with one, two and three migrations of which the second
fails at times, the fewest with a first, a middle and a last version and a row
that two builds do not know; two requests for a regional tag, whose root is
another language than the default one, beside an uploader of two languages; three
processes with equal or different salts and keys; log fields of each type, two in
the logger and up to two in the entry (an object of a namespace, an array with
one); strings of four bytes, which hold a rune cut off at either end; chains of
four calls, the shortest in which an identity comes back after two others; two of
four tunnels, the second reached only past the first; three scopes, enough for
duplicates and for a left-over behind a deletion; two validations and two hosts,
one of a known domain.  Deadlock is not checked there because most parts end (all
requests are answered, an engine serves, `MaxChain` is reached), nor in
`JobTimer`, where nobody has to call.

**Fairness.**  A started goroutine is scheduled (weak fairness of its steps).
Where a step needs a mutex it is strongly fair: a Go mutex in starvation mode is
handed to the waiter, and a RWMutex lets a waiting writer in before later
readers and the readers that waited before the next writer.  The application's
processor, Commands and handlers come back, normally or with an error or a
panic.  The application runs the checker again and again, and
`ConnectionDataProvider` and `Notifier` come back.  beanstalkd answers on a
connection that works and can be reached again.  In `Application` the goroutines
of a list of jobs, the requests and the uploader are scheduled; `loadMutex` is
strongly fair, which `EveryRequestEnds` needs beside an uploader that takes it
again and again.  Nobody is obliged to call,
enqueue, stop, hit or cancel.

**Instances that restrict callers.**  `JobTimer` runs with one `RunJob` and one
`StopJob` under way at a time: without that the code starts two timers
(`run` does not look at `active` again under `Lock`) and locks up (two stops).
`JobTimer_double_stop` shows the second.

## 4. Where the code and its comments differ

Shown by runs:

* `Queue_lost_wakeup`: a caller woken for an item (`Signal`, memory.go:69) whose
  own context is canceled by then returns without waking another; the item stays
  in the queue beside sleepers until the next `Enqueue`.  `SleeperGetsItem`
  shows that nothing of the kind happens while no caller is canceled.
* `QueueStore_last_worker`: "deleteWorker can't stop last worker" (store.go:18)
  fails for a queue made under the id of a removed one whose autoscaler was
  still in `addWorker`.  `WorkersInBounds` shows it until something is removed.
* `JobTimer_double_stop`: two `StopJob` calls in a row lock the job for ever.
* `HealthCheck_lost_failure`: `Process` marks the failure as processed after the
  notification (processor.go:47).  A success and a new failure between the two
  are marked with it, and the administrators never hear of the new failure,
  although `IsFailureProcessed` speaks of "the current error".
* `Beanstalk_stop`: "Shutdown stops the queue process" (queue.go:88) fails when
  `Process` has looked at `stop` and not yet reconnected.  `StopEndsProcess`
  shows it for every other moment.

Seen while modelling, visible in the models' actions, and not stated as runs.

*Jobs and queues.*  Two concurrent `RunJob` calls start two timers
(job_manager.go:109-116); `RunJob` right after `StopJob` is undone by it (:128);
`UnregisterJob` returns an error also when it succeeds (:217) and only
`UpdateJob` ignores it; `ErrorHandler` is called with nil for a callback that
succeeded (:84); the worker does not retry a failed job (worker.go:21 says it
does); an autoscaler that is ahead of `addStoppers` counts without the initial
workers, so a queue may have `maxNumWorkers + numWorkers` (store.go:171, 212);
`WithScaleFunc` beside `Get` starts two autoscalers for one queue; `WithScaleFunc`
with an interval of 0 restarts a panicking goroutine for ever (store.go:123-130);
the jobs left in a removed queue are not processed (store.go:283); `finishJob` of
a stopped queue returns with `recvLock` held (beanstalk/queue.go:110), and one
that waits for it waits for ever; `finishJob` and `Process` may close each other's
new connections in turn (`JobIsDelivered` excludes this); an `io.EOF` is no
`net.Error`, so `Put` returns it where it would have retried.

*Counters.*  Two concurrent `Get` calls for a new connection construct two
counters and the hits on one are lost (healthcheck/storage.go:24-26); the
notification may carry an empty message when `HitSuccess` comes between the two
reads (processor.go:32, 43); the ratio may be computed from a `success` before a
flush and a `failure` after it (processor.go:51-52); with `MinRequests` 0 and no
requests the ratio is NaN and counts as bad.

*Migrations.*  `MigratePreviousTo` of the first version returns an error whenever
something is applied, since gormigrate does not know the version "0"
(migrate.go:151-152); an older build's `RollbackTo` or `Rollback` leaves a hole
beneath the row of a newer build (`NoHoles` excludes it with `pastUnknown`);
a migration added after the first call is seen only once `SetDB` is called again
(:58-68, 245-247).

*Requests.*  "It will be created if not exist" (localizer.go:287) holds from the
second call on: the first stores the bundle and returns nil, so a localized
answer panics once for a language nobody has loaded; the uploader leaves the
shared localizer in the last language it translated to, and error messages
follow it.  A panic that `exceptionCapture` raises again "will be caught by
Sentry middleware" (sentry.go:242) is caught by nobody: Sentry's middleware is
inside, and the connection is dropped.  An error and a panic of one request write
two JSON bodies.  A dead connection, to which "we can't write a status"
(sentry.go:295), is written to by `exceptionCapture` afterwards.  The tags
middleware runs before sentrygin and finds no hub.  The once of `InitSentrySDK`
is spent by a failed attempt (sentry.go:85).

*Engine and CSRF.*  The README of the repository configures the router before it
calls `Prepare().Run()` (README.md:46, 60), which panics with "prepare engine
first" (engine.go:241-243).  Parts made before `Prepare` (`JobManager`,
`UseZabbix`) keep a nil logger; before `Prepare` only the first `SetLogger`
counts, and a later one does not reach Sentry and Utils.  `InitCSRF` gives
`NewCSRF` no salt, so replicas that share session keys have different salts: a
page rendered by one over the session of another carries a token that matches
nobody's session (`PageIsAccepted` excludes shared keys with random salts).

*Logger, HTTP client, scopes, validator.*  `ForHandler` after `ForConnection`
after `ForHandler` repeats the field with no `With` between (default.go:80 speaks
of chains with `With` only).  Fields of the context lose what zap keeps beside
`Interface` and `String`: a time becomes the name of its zone, a boolean or an empty string a number, and
one value that cannot be marshaled loses the whole context
(json_with_context_encoder.go:460-491).  A configuration without
`ssl_verification` overrides `SetSSLVerification(false)`, the dialer that `Build`
makes is never used, and a `Build` that fails leaves the proxy changed
(http_client_builder.go:273-320).  `checkScopes` is right only if no
required scope is named twice (utils.go:172-181), so `Scopes` gives it lists
without duplicates.  Validations that find a store expired fetch one after the other, a
failed fetch stores no domains for the next hour, and a source that does not
answer blocks every validation, for the client has no timeout (validator.go:60-73).

## 5. The proofs

`MemoryQueueProofs` proves, for any sets of producers, consumers, watchers and
items and any bound, from the assumptions of `MemoryQueue` (which kinds of
contexts consumers may have, that producers and consumers are different
goroutines, that the marks of answers are not items):

* `Inductive`: `Spec => []IInv`;
* `TypeCorrect`, `SizeCorrect`, `LeftoversCorrect`, `StopCorrect`,
  `WatchCorrect`: the invariants that `Queue_safety` checks;
* `FifoCorrect`: `Spec => Fifo!Spec`, every step of the code is a step of the
  FIFO queue or none.

The properties are not inductive by themselves.  `IInv` adds `LockInv` (a
goroutine is inside a critical section exactly if it holds the mutex, only
callers in `cond.Wait` are sleepers, a call past the section that finds its
answer has one), `CountInv` (by how much list and counter differ at each place
in a critical section, and that nobody takes from an empty list) and `WatchInv`
(a call that can be canceled has a watcher that has not decided yet, for as long
as its context is live).  `NobodySleepsAfterStop` needs `LockInv`: `stop` holds
the mutex, so no caller is between its check and its sleep.
`CancelledSleeperIsWatched` needs `WatchInv`: the cancellation finds the watcher
parked, and fires it, or not yet parked, and then it will find the context
canceled.  Each lemma takes one conjunct of `IInv` through the actions one by
one.

`HealthCheckProofs` proves, for any sets of connections, handlers and messages,
any threshold and any bounds (`HealthAssumption`):

* `Inductive`: `Spec => []IInv`; `TypeCorrect`, `NoAlertStormCorrect`,
  `MessageCorrect`: the invariants that `HealthCheck` checks.

`IInv` adds `NoticeInv` and `AlertInv` to the type and the message invariant.
Between notice and mark the checker stands for the mark: a counter with no mark
and no checker on its way to mark it has at most `recoveries` notices, one with
either has at most one more.  Only the store in `HitSuccess` takes a mark away,
and it counts as a recovery.  `AlertInv` is the same argument for the ratio: an
alerted counter is marked, or the checker is about to mark it, and only
`ClearCountersProcessed` removes the mark, after a good ratio.

`BeanstalkQueueProofs` proves, for any numbers of callers, processors, jobs and
broken connections (`BeanstalkAssumption`), `TypeCorrect`, which says who holds
`sendLock` and `recvLock` and that readers and a writer are never inside
together, `GoneIsFinishedCorrect` and `LeakCorrect`.  `IInv` adds `JobInv`
(whoever is past `done` has a job whose processor called it) and `LeakInv`.

The second part of `MemoryQueueProofs` is about the workers: `WorkersUseQueue`
(`WSpec => Spec`, every step of the pool is a step of the queue or none of it)
carries every theorem about the queue over to the pool; `WorkerTypes` and
`JobsAreHandled` then hold for finitely many workers.  `TakenJobsAreHandled`
counts the jobs on their way out of `DequeueContext`, so its proof follows the
cardinality of that set: `Take` adds one, the return of the worker removes one.

`QueueStoreProofs` proves `StoreTypesCorrect`, `LiveQueueCorrect`,
`WorkersCanBeStoppedCorrect` and, for queues whose stop cancels their workers
(`QueueCancels`, true of the memory queue), `WorkersDieCorrect`, for any numbers
of clients, autoscalers, workers and constructions.  `StoreInv` says who holds
`getLock` and, for each phase of that holder, which queue lives and whose stop
functions the entry keeps (`PhaseInv`); that running workers serve a live queue
(`WorkersInv`); and that the stop function of each is listed, in the hands of an
autoscaler that is about to call it, or in the list of the client inside
(`KeptInv`).  An autoscaler works without `getLock`: `AddWorker` can put a worker
on a queue that is being removed, and the proof shows that this worker is canceled
from the start.

`WorkersInBoundsCorrect` follows the length of the list of stop functions: no
worker is listed twice, or by two holders at once (`OnceInv`, also why no stop
function is called for a worker that took its slot later); a list is no longer
than `maxNumWorkers`, and `numWorkers` more once the initial workers are on it
(`LengthInv`); and until a queue is stopped the listed workers run for the one
queue there is, and the list does not get empty (`FirstInv`).  It holds for a
store with a constructor, `numWorkers` > 0 and `maxNumWorkers` > 0.  The last
hypothesis excludes something the code allows: `NewStore` leaves `maxNumWorkers`
at 0 (store.go:47) unless `WithMaxNumWorkers` is given, and with that value TLC
finds more workers than `WorkersBounded` has room for.

`JobProofs` proves of the timers `TimerTypes` and `TimerIsOne` if `RunJob` calls
do not overlap (`"run" \in Serialised`), for any clients, stoppers and starts and
however `StopJob` calls overlap.  `TimerInv` adds that one caller at most is
inside `run`, and that past its check the job is not active: between `RUnlock`
and `Lock` only another `RunJob` could change that.  Of the job manager it proves
`ManagerTypes`, `ListsAreInOrder` and the action property `JobsAreLeft`, for lists
of any length, any calls and any registrars beside them.  `ListsRunInOrder` becomes
inductive with `PlaceInv`, which says where the goroutines of a call can be: nowhere
before the call is made, in the callback only with a job behind it, after the
callback's error only with an ErrorHandler.

`MigrationsProofs` proves `MigrationTypes`, `RowsHaveNoHoles` and `CallsReach` for
any builds, any failing migrations and processes that end anywhere.  `VersionsInv`
says that what a build registered and what it prepared are beginnings of all
versions, in order; `CallInv` names, for each of the seven calls, the transactions
it may have left and what it found in the rows when it planned them.  The rows have
no hole between two transactions of one call because of the first, and a call with
nothing left has reached its version because of the second.
The last two theorems have a hypothesis, `BuildsGrow`: a later build has later
versions.  Versions are generation times (migration_generator.go:63), so a
migration that was generated on a branch and merged after a younger one breaks it,
and then the rows do have a hole until the next `Migrate`.  That the versions a
build sorts are in order, and what is the least of a set of them, is shown by a
least counterexample, as no induction theorem can be used.

`ApplicationProofs` has the parts of a gin engine.

* Requests: `RequestTypes`, `RequestsAnswerInTheirLanguage` and
  `RequestFailuresAreTold` for any requests, tags and uploads.  `SharedInv` says
  that the shared localizer has a bundle as long as nobody uploads, `LanguageInv`
  that a request has a bundle once it loaded it, and that the last language it is
  still to choose, or has chosen, is its own; `Told` says for each middleware which
  failures of a request have been reported when it runs, so that those that are
  left are the ones it and the middlewares after it report.
* CSRF: `CsrfAcceptsItsPages` for any processes (positive numbers).  The session
  holds the token of the process that wrote it, and after a page was rendered it
  holds one for the process that rendered it, unless something else changed the
  session.
* Engine: `EngineIsReady`.  A gin engine exists only in a prepared engine, one that
  serves has it, and a prepared engine has done every step.
* The composition: `PartsRun` (a step of one part is a stutter of every other),
  and from it `ApplicationTypes` and `ApplicationIsSafe`, all safety properties of
  the run in one statement.

`UtilityProofs` has what the handlers call.

* `DomainsAreFresh` for any validations, hosts and domains.  Its invariant says for
  each step of a validation how the newest fetch compares with the one the
  validation found too old: from its own fetch on there is a newer one, and whoever
  fetches beside it only adds to that.
* `TunnelTakesFirstMatch`, `ScopesAreMissing`, for lists of any length.  The loops
  are folds, whose library definition is a recursive function over the subsets of
  the indices.  `FoldExists` shows that there is one, by a least counterexample, and
  `FoldStates` turns it into the sequence of the states between the iterations,
  on which the loop invariants are proved: for `checkScopes`, which required scopes
  are still in front of the gap, and that what the deletion leaves behind the end of
  the slice is what the loop would read again anyway.
* `LoggerSaysTheLatest`, for chains of any length.  `ParentInv`: the chain without its
  last call is the parent, so what `ForHandler` throws away is its own last field.
* `TextIsWhatWasWritten`, for strings of any length.  The invariant of the escaping
  loop (`Good`): what was copied so far is read back as the bytes before `i`, and
  `i` is not inside a rune.
* `LineReadsAsJson`, for any fields.  `Reading` a buffer ends at a place: the stack
  of open brackets and what may come next; what is read of two buffers in a row is
  read of the second from where the first one ends (`ReadingOn`).  `At` ties the
  encoder to it: its last byte shows a comma to be missing exactly where the reader
  wants one.  `Inside` is the invariant of all the loops: as many objects are open in
  the one a member belongs to as `openNamespaces` counts.  `AppendObject` counts
  from 0 and puts the number of its caller back, and needs both.  As a logger's
  buffer is appended to lines that have a member before it and to lines that have
  none, `Continues` is about both.

**Assumptions.**  Besides those named above, constants have the types their names
say: `LocalizerAssumption` (roots of tags are languages), `HeadersAssumption`,
`HttpAssumption` ("next" is no proxy and "error" no network), `ScopesAssumption`,
`TextsAssumption`, `LogAssumption`, and `BuildsAssumption` (a build has finitely
many positive versions).  `ApplicationAssumption` is `BuildsGrow` for the builds
of the run, which TLC evaluates.

**Only model-checked.**  Liveness under fairness and `ENABLED`, which the prover
cannot do: `GivenUpCallsReturn`, `SleeperGetsItem`, `WorkersExitAfterStop`,
`CallsReturn`, `FailureIsProcessed`, `StopEndsProcess`, `JobIsDelivered`,
`ChainRunsOn` and `EveryRequestEnds`.

## 6. Not modelled

* Durations and times (`LastEnqueueTime`, intervals), wording, formatting.
* Sentry's tags and stack traces (`tagsFromContext`, `stacktrace/`): conversions
  of data.  So are `TemplateFuncMap` and the template renderer, `phone.go`,
  `config.go`, and the adapters of the logger.
* `errorutil`: containers that one goroutine appends to and prints.
* `one_step_connection.go`: a signature check by a library per request.
* `db/orm.go`, `db/models`, `migration_generator.go`: a connection that is opened
  once or panics, records, a file written from a template.
* `fake_manager.go` and `testutil`: used by tests.
* `net/http`, gin, zap, gormigrate, go-i18n, the session store, sentry-go,
  beanstalkd: external, modelled as far as the code uses them.

`PROJECT.json` lists each part with its reason.

## 7. What is left

Every safety invariant and every action property that a run checks is a theorem.
What would add most to the models: a composition of `QueueStore` with
`WorkerPool`, so that the items of a removed queue are seen; the scope tags of
Sentry beside requests that share a hub.
