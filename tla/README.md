# TLA+ specifications of typexs-base

typexs-base is the server kernel of the typexs framework: it boots a node from a
configuration, keeps storages, workers, tasks, schedules, caches and watchers,
and lets the nodes of a cluster find each other and exchange messages over an
event bus. All of it is asynchronous TypeScript on Node.js: one thread, promise
callbacks, event emitters and timers within a node; an unordered, unacknowledged
event bus between nodes. The specifications in this directory model the parts
in which that concurrency decides whether the program is right, and the
algorithms whose result is hard to see from their code.

Paths below are relative to `src/src/`.

## 1. The system

| component | where | state | operations | talks to |
|---|---|---|---|---|
| Work queue | `libs/queue` | waiting and active jobs, `runningTasks`, `_paused`, listeners | push, await, pause, resume, shutdown; per job start/stop, done() | the processor of the owning worker |
| Locks | `libs/Semaphore.ts`, `libs/LockFactory.ts` | counter, waiting callers, list of semaphores | acquire, release, purge, await; semaphore, remove, shutdown | task store, connections, node list |
| Task runner | `libs/tasks/TaskRunner.ts`, `TaskRun.ts`, `TaskState.ts` | runs, `todoNrs`, `runningNrs`, `doneNrs`, `$finished` | next, taskRun, taskDone, enqueue, run, finish | executors of the tasks, runner registry |
| Runner registry | `libs/tasks/TaskRunnerRegistry.ts`, `extend/TasksSystemExtension.ts` | local runners, status of runners of all nodes, which node has which task | create, onUpdate, node updates | task runner, node infos, event bus |
| Task registry | `libs/tasks/Tasks.ts`, `TaskRef.ts`, `TasksHelper.ts` | tasks by name, bindings, access rules | addTask, group, dependsOn, taskMap, get, remove; exec | nodes, task runner |
| Task store | `libs/tasks/helper/TasksStorageHelper.ts`, `workers/TaskMonitorWorker.ts` | a semaphore per run, log rows | save | work queue, locks, storage |
| Task exchange | `workers/TaskQueueWorker.ts`, `libs/tasks/worker`, `libs/tasks/TaskExecutor.ts` | request, responses, future | proposed/enqueue/started/stopped/errored events, future | event bus, work queue, task runner |
| Messages | `libs/messaging`, `workers/ExchangeMessageWorker.ts` | targets, responses, timer, request cache | send, onRequest, onResults, postProcess | event bus, work queue |
| Files and logs | `adapters/exchange/filesystem`, `adapters/exchange/tasks`, `libs/filesystem` | a file that grows, a reader, open descriptors | file, logfile, stat, list; tail, less, readByByte | messages, the file system |
| Distributed storage | `libs/distributed_storage`, `workers/DistributedQueryWorker.ts` | as Messages, plus entities and results per node | find, aggregate, save, update, remove | Messages, storage |
| Nodes | `libs/system` | known nodes, own instance number, stored rows, requests for infos | initialize, register, unregister, onNodeInfo, idle, getNodeInfos | event bus, storage, locks |
| Connections | `libs/storage/framework/typeorm` | connection wrappers, use count, lock, typeorm's handle | connect, close, wrap, prepare, reload, remove, shutdown | locks, the database driver |
| Storage operations | `FindOp.ts`, `SaveOp.ts`, `UpdateOp.ts`, `DeleteOp.ts`, `AggregateOp.ts` | an error, the results | run | connections, the database |
| Queries | `TypeOrmSqlConditionsBuilder.ts`, `AggregateOp.ts` | the statement being built: joins, parameters, WHERE, HAVING | build, walk over the stages | the database |
| Storage registry | `libs/storage/Storage.ts`, `TypeOrmStorageRef.ts` | storages, which extends which, the classes each knows | prepare, initialize, registerEntityRef, addEntityType | schema registry, typeorm |
| Schema registry | `typeorm/schema/TypeOrmEntityRegistry.ts` | entities, properties, typeorm's arrays of decorators | onAdd, onMetaDataPush, getEntityRefFor | the decorators of typeorm and schema-api |
| Schedules | `libs/schedule`, `adapters/scheduler` | timer, last/next | register, reschedule, runSchedule, shutdown | tasks, events, configured functions |
| Cache | `libs/cache`, `adapters/cache` | bins, entries with time to live, Redis clients | configure, set, get, clearBin, shutdown | timers, Redis |
| Start-up | `Bootstrap.ts`, `Startup.ts`, `Activator.ts`, `libs/worker` | which parts are up, the list of workers, `running` | startup, shutdown, signals | everything |
| Watchers | `libs/watchers` | started flag | start, stop, fire | file system, event bus |
| Commands; logging and configuration; helpers | `commands`, `libs/logging`, `libs/config`, `libs/utils`, `libs/helper` | | pure I/O, look-ups, functions on strings | |

What is hard in each, and what makes it correct:

* **Work queue** - calls of the owner and promise chains of the jobs interleave
  microtask by microtask. Correct: the slot counter is the number of running
  jobs and bounded, no slot idles while a job waits, jobs start in push order,
  nobody who waits for an event waits for one that will not come.
* **Locks** - releases, timeouts and purges interleave. Correct: at most `max`
  holders, first come first served, no waiter is forgotten.
* **Task runner** - a dependency graph is worked off in parallel while runs fail
  and new ones are added. Correct: a task runs once, after what it depends on,
  at most `parallel` at a time, and the runner finishes.
* **Runner registry, task exchange, messages, nodes** - messages are delayed,
  lost, reordered; processes crash. Correct: a request ends exactly once, with
  the answers that came; a future resolves only when its runs are over; a node
  that has left is forgotten, with its tasks and runs.
* **Task store** - several monitors write the same rows, and a statement fails.
  Correct: one row per task, with the last state.
* **Connections, storage operations** - a close, a reload or a shutdown runs
  while another caller connects or asks. Correct: nobody uses a handle that is
  closed, every use that is counted is given back, every caller is told.
* **Queries** - a tree of conditions becomes joins and numbered parameters, a
  list of stages one SELECT. Correct: the rows are those the query speaks of.
* **Storage, schema and task registries** - classes, tasks and nodes come in any
  order. Correct: what is known does not depend on the order.
* **Schedules, cache** - timers race with shutdown and with newer writes, clients
  connect late. Correct: a late one harms nobody.
* **Files** - a log is read while it is written. Correct: the lines given back
  are those of one moment.
* **Start-up** - the order of phases, what a failing one leaves behind, and
  several callers of shutdown. Correct: each part is stopped once, after those
  that need it.

## 2. Plan

Modules, in the order of their weight for the system. Each component has a
module with its state, one action per call or callback, and its properties; where
its instance needs definitions, an `MC...` module; a `...Proofs` module with its
theorems; and, where it promises something that can be said without its
internals, an abstract specification it is shown to implement.

| | module | builds on | abstract specification | checked by run | proved |
|---|---|---|---|---|---|
| 1 | `AsyncQueue` | | `JobPool` | `queue` | safety, refinement |
| 2 | `TaskRunner` | | `TaskPlan` | `runner` | safety, refinement |
| 3 | `Locks` | | | `locks` | safety |
| 4 | `Requests`, `Messages` | the bus | `RequestReply` | `messages` | safety, refinement |
| 5 | `DistributedQuery` | `Requests` | `RequestReply` | `query` | safety, refinement |
| 6 | `TaskExchange` | `Requests` | `RequestReply` | `exchange` | safety, refinement |
| 7 | `SystemNodes` | the bus | | `nodes` | safety |
| 8 | `NodeTasks` | `SystemNodes` | | `catalog` | safety |
| 9 | `Connections`, `StorageOps` | a lock, typeorm | | `ops` | |
| 10 | `TaskStore` | queue, locks, a storage that fails | | `store` | safety |
| 11 | `Schedules`, `Caches`, `Lifecycle` | timers, Redis | | `process` | safety |
| 12 | `DistributedEntities` | the exchange of 5, as responses that come | the rows of the nodes | `process` | |
| 13 | `Conditions`, `Pipelines` | a small database | what a condition says; MongoDB's stages | `process` | |
| 14 | `EntityRegistry`, `StorageRefs`, `TaskRegistry` | typeorm's arrays, nodes | | `process` | |
| 15 | `Files`, `InfoRequests` | the file system, the bus | the lines of a file | `process` | safety |

`MCProcess` composes the modules 11 to 15: they are parts of one process that
share no state, so that a behaviour of all is one of each. It chooses one of them
at the beginning (`subject`) and lets that one move.

What would come next: a proof of `WellConnected` for 9, relative to the line of its
lock, and an abstract lease that `Locks` and the line of `Connections` implement.

## 3. What is modelled

Every module follows the same conventions. A call that the code runs
to its end without giving up the thread (up to the next `await`, `then` or
listener) is one atomic action, because nothing else runs meanwhile on Node.js;
what comes after the `await` is another action, between which everything else
may happen. A promise is a value: `waiting`, `resolved`, `rejected`, or `hung`
when nothing can answer it any more. Exceptions are part of the action that
throws them, with the state they leave half changed. History variables, which
the code does not have, are marked `history`.

An operator whose comment begins with `Slip:` is not part of the model. It
is the definition below it with a plausible mistake (a dropped guard, an
off-by-one, a missing reset). Putting it in the place of that definition makes
TLC find the property violated it is listed with in `PROJECT.json` under
`mutants`: so each property is known to depend on the code it is about.

### 3.1 The work queue: `AsyncQueue`, `JobPool`

Every worker that must not do everything at once owns an `AsyncWorkerQueue`.
`push()` emits an event whose listener `enqueue()` appends the job and calls
`process()`, which shifts jobs while fewer than `concurrent` run; each job has a
promise chain of its own (`Start`, `Finish`) and hands its slot on in `next()`.

| variables | code |
|---|---|
| `worker`, `active`, `runningTasks` | the arrays and the counter of the same names |
| `phase[j]`, `stopped` | how far a `QueueJob` is: `_start`, `_stop`, and the place in its promise chain |
| `call[c]`, `joined[j]` | the promises of `await()`, `pause()`, `shutdown()` and `job.done()` |
| `paused`, `listening`, `shut` | `_paused`; whether `removeAllListeners()` has run; how far `shutdown()` is |

Actions: `Push`, `Await`, `Pause`, `Resume`, `Join` (`job.done()`), `Detach` (the
`finish()` of the owning worker), `Start` and `Finish` of a job,
`ShutdownBegin`, `ShutdownPause`, `ShutdownFinish`.

Run `queue` (3 jobs, 2 slots, one caller and the owner; 140,761 states): with
more jobs than slots a job waits, jobs overtake each other when they end, and
pause, resume and shutdown fall between any two microtasks.

* `WorkConserving` - a slot never idles while a job waits.
* `ShutdownLeavesNothing` - a `shutdown()` that succeeds has run every job.
* `ImplementsPool` - the queue is a FIFO pool of `concurrent` slots; with it jobs
  reach the processor in push order although they are started from promises.
* `CallsEnd` = `JobsEnd`, `AwaitEnds`, `PauseEnds`, `ShutdownEnds`:
  a queue that is left alone ends its jobs and answers `await()`; left alone
  means that from some time on its listeners are in place, it is not paused and
  nobody shuts it down. `pause()` answers, provided nobody resumes before: if
  somebody does, its caller is never answered. `shutdown()` resolves or rejects,
  with the same proviso and as long as nobody takes the listeners away.

Fairness: microtasks run, and the promise of the processor settles (no `do()` of
a worker in the repository waits for something that may never come, apart
from its storage). Nobody is obliged to push, pause, resume or shut down.

### 3.2 The task runner: `TaskRunner`, `TaskPlan`

A `TaskRunner` works off a forest of `TaskRun`s. It drives itself by events it
emits to itself: `next()` picks a run, `taskRun()` moves it to `runningNrs` and
starts it, and both it and `taskDone()` emit `NEXT` again. Emitting is calling,
so one external call is a cascade that nothing interrupts; a task that calls
back at once makes it nest. `due` counts the `NEXT`s on the stack, and while it
is not 0 only the handlers may go on. Each handler is an action: `Run`,
`StartTask`, `StartLacking` (a required parameter is missing), `Refuse` (the
assertion of `taskRun()`), `Rest` (a `NEXT` with nothing to start), `End`,
`EndAtOnce`, `AddTask`, `Finish`.

| variables | code |
|---|---|
| `todo`, `running`, `done` | `todoNrs`, `runningNrs`, `doneNrs` |
| `created`, `parent` | `$tasks` with `subTaskNrs` and `dependencyTaskNrs` |
| `active`, `stopped` | `status.running`, `status.done` of the runs |
| `waits[r]` | the run that `r` has added and whose `asPromise()` it awaits |
| `finished`, `promise` | `$finished`, the promise of `run()` |

Run `runner` (every forest of up to 5 runs, 2 slots, tasks added with and
without a subtask, missing parameters; 17,307 states). Five runs are enough for
a chain of three beside two others, for both slots taken by parents' subtasks,
and for a task added by an added task.

* `ResolvedMeansDone` - `run()` resolves only when all runs are over.
* `NoIdleSlot` - at the end of every cascade no slot is free for a run that is
  ready.
* `ImplementsPlan` - children end before their parents begin, at most
  `parallel` at a time, each once, and the forest grows only from within.
* `RunsEnd` = `HealthyRunSettles`, `AddedRunsEnd`: `run()` settles, and an added
  task ends, as long as the run is healthy: no run is damaged (section 5), and
  fewer functions wait for tasks they have added than there are slots.

That a number is in exactly one of the lists whatever fails (`ListsApart`), and
that the exception "Tasks are stucked!" is unreachable (`NeverStuck`), is proved.

The last condition is not for the convenience of the model: a function that
awaits an added task keeps its slot, and with as many of them as slots the
runner stands still for ever. The repository says nothing about it.

Run `runner_subtasks` shows the finding of section 5.

Fairness: a cascade goes on (the thread is its own), and the functions of tasks
call back unless they wait for an added task. Nobody is obliged to add tasks.

### 3.3 Locks: `Locks`

`Semaphore` hands out `max` leases in line; `LockFactory` keeps a list of
semaphores so that a shutdown can wait for and purge them. The actions are
`Make`, `MakeAndAcquire`, `Acquire`, `ReleaseToNext`, `ReleaseFree`,
`AwaitSem`, `AwaitFactory`, `Timeout`, `ShutdownBegin`, `ShutdownPurge`,
`ShutdownFail`. Two of them stand for how the task store uses the locks: it
makes a semaphore for a run's first save and throws it away with the release
that leaves it free.

Two things are as odd in the model as they are in the code.
`LockFactory.remove()` passes the semaphore itself to lodash's `remove()`, which
takes it for a pattern: every semaphore with the same fields, which are the free
ones without listeners, is dropped along with it. And `shutdown()` removes
elements from the array it iterates over, so that it purges every other
semaphore in use. `Purged` computes which.

Run `locks` (`max` 1, 3 semaphores, 2 clients, an awaiter, a shutdown;
273,933 states): three semaphores are the fewest for which
"every other" differs from "the last", and two clients for one to wait.

* `WaitingInLine` - a client stands in the line it waits in, once, and no lease
  is free while it does.
* `DiscardsNobody` - the task store throws away no semaphore that is used.
* `CallersServed` = `WaitersServed`, `AwaitsEnd`: who waits is served or told of
  the purge; `await()` and `shutdown()` end.

That the counter is the number of leases held, less those a purge has forgotten
(`LeasesAccounted`), and that `remove()`, odd or not, never drops a store lock in
use (`EmptyMeansStored`), is proved.

Fairness: timers fire, and who has acquired releases. The code that
holds a lock releases it only if what it does meanwhile does not throw; this is
the business of `TaskStore` and `SystemNodes`.

### 3.4 Requests: `RequestReply`, `Requests`, `Messages`, `DistributedQuery`

`AbstractMessage` sends a request to a list of nodes, collects the responses,
and draws up a result when the last node has answered or when its timer fires.
`Requests` is that class; `RequestStep` is everything it can do. `Messages`
adds `Message` (which handles a request locally before it is sent) and the
exchanges that serve it; `DistributedQuery` adds the storage operations and
their worker. Both servers are processes; several may share a node id.

| variables | code |
|---|---|
| `asked`, `targets` | `request.targetIds`, `this.targetIds` |
| `responses`, `active`, `timer` | `responses`, `active`, `timer` |
| `once`, `late`, `result` | the listener of `postprocess`, the timeout error, the results |
| `answers`, `inbox` | responses and requests on the bus |
| `cached`, `handling`, `queued` | `reqCache` of an exchange, its calls of `handleRequest()`, its worker's queue |
| `carried` | what the storage of a worker has been asked to do |

The bus is `commons-eventbus`, which is not in the repository. It is assumed to
deliver an event at most once to each subscriber, at any time and in any
order; an event that is lost is one that is never delivered, and
no fairness obliges the bus. An exchange hears each request twice by its own
doing (its own subscription and its worker's), so that duplicates arise anyway.

Runs: `messages` (the sender and two processes under one other node id, one of
which may fail; 4 sets of options that among them take every branch; any set of
known nodes; 345,202 states) and `query` (three nodes, one that bars the sender
and two whose storage may fail; every set of options; 34,052 states).

* `HandledAlone` - an exchange handles a request once at a time.
* `ImplementsReply` - whatever the bus does, what the caller sees is a
  `RequestReply`: asked once, each node off the list once, one result.
* `ToldAsDone` = `DoneEverywhere`, `RejectedForAReason`: what a save reports as
  done was done by a process of every node; a rejected one failed somewhere.
* `MessageEnds` = `SendEnds`, `CacheForgets`: a request settles though the bus owes
  nothing, because the timer is started before it is posted; a cache entry is
  dropped also when the handler throws.

`EachNodeOnce` (a node counts once however many answers it sends) and
`CompleteOrLate` (a result without the timeout error has the answer of every
node that was asked) are proved of all requests.

A message shares with another one nothing but the bus, so one at a time is
enough.

Fairness: microtasks run, the timer fires, calls of handlers end.

### 3.5 The nodes: `SystemNodes`

A process posts a `SystemNodeInfo` of itself when it registers and when it
leaves; `onNodeInfo()` of the others lists, answers and stores it, one info at a
time behind a semaphore. The answer is a post to everybody, so that processes
which register at the same time answer each other's answers; `Window` bounds how
often one does so before it goes on to be idle.

| variables | code |
|---|---|
| `life` | how far `initialize()`, `register()`, `idle()`, `unregister()` are; `node.state` follows from it |
| `instNr`, `nodes` | `node.instNr`, `nodes` |
| `line` | infos on their way to a process or waiting for its semaphore |
| `storing` | the `save()` or `remove()` of the `onNodeInfo()` that holds the semaphore |
| `row` | the rows of `SystemNodeInfo` in the shared storage, by key |

Actions: `Initialize`, `Subscribe`, `Announce`, `Idle`, `Leave`, `Unregister`,
`Exit`, `Crash`; `Admit`, `Dismiss`, `Ignore` and `Store` for `onNodeInfo()`. The
bus hands posts to those that are subscribed, in the order of the posts,
like the emitter and the Redis server it is built on; a process that has left may
still have infos in its line, and answers them until it exits.

Run `nodes` (a process that leaves or crashes, the one that takes its place under
the same node id, and one of another node that comes and goes; 94,922 states).
A third node would add lists but no new kind of exchange, since a process only
ever posts to everybody and lists each of the others by itself.

* `QuietAgreement` - when all is handled, the lists agree with who is there. That
  a process answers also those it already lists is needed for this, and the
  mutant that saves this answer breaks it.
* `DroppedHaveLeft` - nobody is taken off a list who is still there.
* `ComeToKnow` - two processes that stay come to know each other.

That no entry is there twice, and nobody in its own list (`ListedOnce`), is proved.

A successor starts when its predecessor has ended (`Overlap = "none"`). Two
processes of a node at the same time (`Overlap = "started"`) get the same number
(section 5), after which none of the above holds for them.
A process that has crashed stays in the lists: nothing in the code takes it off.

Fairness: a process that has subscribed goes on to be idle, one that has begun to
leave goes on, infos that came in are handled and what they call for is stored.

### 3.6 Tasks on other nodes: `TaskExchange`

`TaskExecutor` decides from its options whether a list of tasks runs here or at
other nodes; `TaskExecutionExchange` is an `AbstractMessage` that asks them, a
`TaskQueueWorker` turns the list down or acknowledges and enqueues it, and a
`TaskFuture` waits for the end. The module extends `Requests` with the executor,
the workers and the future.

| variables | code |
|---|---|
| `wish` | the options of the call, as far as they decide anything |
| `returned` | what `run()` has come to |
| `future`, `runnerId`, `told`, `got` | the `TaskFuture`: whether it listens, its id, `targetState`, `targetResults` |
| `unreached`, `job`, `stream` | who has not got the request; the run of a worker; its events on the way to the future |
| `present` | the processes whose worker is registered at the bus |

Actions: `NoTarget`, `AskOthers`, `AskOwnWorker`, `RunHere` (the ways of `create()`
and `run()`), `PostTasks`, the steps of the request, `Answered`, `Return`;
`OnTaskEvent`, `Pushed`, `Begin`, `End`, `Leave`, `Crash` of a worker; `Notice` and
`Close` of the future. What the sender knows of nodes and tasks is any set: it
may be stale.

Run `exchange` (55,351 states): the sender, which has a worker, another worker that
may refuse, leave or crash, and a node that is listed and gone; six wishes, one
for each way through the executor: wherever it may run, on two nodes, on a given
one with and without awaiting the run, on all, and here only.

* `AwaitedRunIsOver` - when `run()` has awaited a run on one node, the run is over
  there, and every result that is handed out is one of a run that is over: the
  future is closed by no event of another state, of another node, or without data.
* `RequestsEnd` = `AcknowledgedRuns`, `ExecutorSettles`: a worker that has answered
  'enqueue' runs the tasks unless it stops, although it pushes them 10 ms later; and
  `run()` comes back when no worker stops, neither a refusal nor a node that is
  gone nor an event that comes before the answer leaving it waiting.

`ExecutorSettles` is only true if no worker stops: `await()` of a future has no
timeout by default, and no event tells of a node that has gone.

Fairness: microtasks and timers, the queue, the end of a task, and the delivery of
states of runs by the bus (a lost one leaves an awaiting caller hanging). The
requests and answers may be lost.

### 3.7 Who has which task, which runs there are: `NodeTasks`

`TasksSystemExtension` puts the tasks of a process into its infos and reads those
of others; `TaskRunnerRegistry` follows infos and events of runs. The module
extends `SystemNodes`: each of its steps is one of a node, with what it means for
the tasks. An info carries what its process knew when it was posted (`cargo`).

| variables | code |
|---|---|
| `nodeInfos[p][t]` | the node infos of the `TaskRef` of `t` in the registry of `p` |
| `cargo[p]` | the tasks within the infos in `line[p]` |
| `run`, `local`, `global` | the runner of a process, `localTaskRunner`, the list of global runners |

Run `catalog` (2,110,867 states): a process, its successor on the same node and a
process of another node, which come, go and crash, with two tasks one of which two
nodes have; the first two may have a run. A successor is needed because a node that comes anew must not be
taken for the one that went.

* `OffersKnown` - when all infos are handled, a process knows of everybody it lists
  which tasks that one has and whether it has a worker, and has not lost its own.
* `RunsOfThePresent` - when all infos are handled, it lists no run that has stopped,
  and none of a process whose place another one of its node has taken: a process that
  crashed has not said that its run is over, and its successor is the only one to
  tell.

The runs' events reach a process only while it is subscribed, and infos do not name
runs; a run that began before is learned of with its next event, which is why the
second property speaks of runs that are listed only.

### 3.8 Connections and the operations on a storage: `Connections`, `StorageOps`

`TypeOrmEntityController` shares one `TypeOrmConnectionWrapper` between the
operations under way, counting its uses; `TypeOrmStorageRef` makes wrappers,
prepares the storage with the first connect, and closes all in `shutdown()`; a
wrapper connects and closes under a lock that all wrappers share. `Connections` is
these three, a step for each stretch between two `await`s. `StorageOps` adds the
five operations: which statements each makes, whether it connects within its
`try`, what it forgives, when it closes, what it tells.

| variables | code |
|---|---|
| `manager`, `open` | the handle typeorm has under the storage's name, the handles with `isConnected` |
| `prepared`, `connections` | `_prepared`, the list of wrappers |
| `bound[w]`, `usage[w]`, `listening` | `_connection` and the count of a wrapper, whether it hears `STORAGE_REF_PREPARED` |
| `shared` | `controller.connection` |
| `line`, `dialing` | the lock with who waits for it, and the `connect()` its holder awaits |
| `pc[o]`, `at[o]` | where an operation is, and the wrapper it has been given |
| `kind`, `pending`, `error`, `told` | the operation, its statements, `this.error`, what its caller got |

Run `ops` (292,139 states): two operations that begin at any time on a storage that
is not prepared yet, which makes them prepare it together; pooled connections, a
file, the memory; 4 wrappers and 5 handles (nobody ever needs another: the
operators that take a free one would be undefined); and as disturbances a database
that refuses, a class that is added at runtime (`reload()` of all wrappers) and a
shutdown. `MCInit` leaves out combinations: a shutdown under one pair of operations
only, and the memory with a shutdown only.

* `WellConnected` - an operation fails only if the database refused, a class was
  added or the storage was shut down while it, or one it overlapped with, was under
  way: nobody is handed a handle that is not open.
* `AllClosed` - when all operations are over, no wrapper is left: each use that was
  counted was given back, by whoever failed. It is said of two operations: of three
  that come first at once two may reload the wrapper of the third, which is then
  counted twice (5).
* `StorageEnds` = `OpsEnd`, `ShutdownCloses`: an operation that has begun ends, and its
  caller is told; a `shutdown()` of an idle storage, used by two at most, leaves no
  handle open. The lock, which is taken in `reload()` and `close()` as well, is never
  waited for in a circle.

Whether the lock's line behaves as `Locks` says is not checked
again: it is used with `max` 1, `acquire` and `release` only.

Fairness: callbacks run and the database answers, if only to refuse. Nobody is
obliged to begin, add a class or shut down.

### 3.9 The rows of runs: `TaskStore`

Each process with a `TaskMonitorWorker` hears the events of all runs and saves
them; `TasksStorageHelper.save()` takes a semaphore for the run, finds its rows,
saves and removes duplicates. The semaphores are per process, the table is not.

| variables | code |
|---|---|
| `heard`, `queue`, `doing` | events that came to a monitor, its work queue, the calls of `save()` with how far they are and the rows they hold |
| `taken` | semaphores that a failing `save()` has left |
| `status` | whether `finish()` was called and has returned |
| `table`, `ids` | the rows of `TaskLog` |

Run `store` (96,504 states): two monitors, a run of three events, which with two slots
is enough for one event to wait, one to be held and one to be saved, a second run
with one event that one monitor does not hear; one statement may be refused.

* `LastStateStored` - when all monitors have saved all that they heard of a run, and one
  of them heard all of it, there is one row for each task, with the last state, although
  they have inserted and updated at the same time. A run of a single event may keep
  two rows.
* `FirstRowsStay` (proved, in `TaskStoreProofs`) - the first row of a task is never
  removed, and keeps its id.
* `MonitorsEnd` = `StoresEnd`, `FinishEnds`: an event that was heard is saved and
  `finish()` returns, unless a statement for that run was refused, whose semaphore is
  then never released, or such runs have taken all slots.

Fairness: the queue starts jobs and the storage answers.

### 3.10 The parts of a process: `MCProcess`

Eleven modules whose state nobody else touches, with the run `process` for all of
them (about 152,000 states). The constants of the instance are in `MCProcess.tla`.

**`Schedules`** - `Schedule.register()` awaits its factories, which attach an offset
or a pattern and what to do; `doReschedule()` arms a timer, `runSchedule()` executes
and reschedules. `SchedulesKeepTime`: two calls of `register()` under way do not get
one name; a schedule is executed at times of its definition only, each once, in order,
however late timers fire and however long it takes, as long as no time is beyond
what `setTimeout()` takes, nor any gap of a pattern; and until it is stopped or fails it has a timer or is
being executed. Instance: two definitions of one name with an offset, one of them
starting a minute after the start, one with a pattern; 8 units of time, timers of at
most 5, so that a delay that overflows happens.

**`Caches`** - bins and adapters of a configuration, the memory adapter with a timer
per value, the Redis adapter whose client connects with the first call.
`LateOnesHarmNobody`: a timer takes away the value it was set for only, and whoever
finds the client connected finds it, though several clients may have been
created and one becomes ready after `close()`. `ValuesExpire`, `CacheCallsEnd` (in
`CallsAnswered`): a value with a time to live goes, and a call on Redis ends whether the
server answers or not, but for one (`Stranded`). Whoever waits for a client when it is
ready has its timer cleared before anything else; if `close()` has meanwhile taken the
client away, the handler then throws, and the call, now "untimed", waits for ever
unless its client fails (5). Instance: one key, two bins, two calls, two values: one
value may be overwritten under its timer, two clients may be created.

**`Lifecycle`** - `Bootstrap` goes through storages, activators, bootstrap and ready
functions of modules; `shutdown()` undoes it and may be called by two signals and an
exception at any time. `StopsInOrder`: no part is shut down twice, modules and
workers find the storages open until the last of them is down, and a shutdown of a
complete start with no failing step leaves nothing but the timers of the schedules.
Instance: two storages, two modules, two workers, one failing step.

**`DistributedEntities`** - how a worker carries out find, aggregate, save, update
and remove on entities, and how the responses are merged. `AnswersAreTrue`: a find
that resolves returns of each node that answered the first matching rows, tagged with
the node, and nothing else; an id that a save notes for an object and a node is that of
a row with its value there, also when the save is rejected, although objects are
sent sorted by type and numbered by the sender; an update or remove tells how many
rows were changed. Instance: three nodes, of which one does not allow a type and has
two controllers for the other and one has a storage that refuses; two types; 40
requests, among them mixed new and stored objects.

**`Conditions`** - the condition of a find, update or remove becomes a WHERE with joins
and named parameters. The model builds the statement as the code does, then evaluates
it as SQL does, with three-valued logic and LEFT JOINs, on a database of cars, drivers
and wheels. `SelectsWhatIsSaid`: a statement that is carried out selects the rows of
which the condition, read on its own, is true. Instance: all conditions of two
comparisons out of eight under "and", "or", "not", and nests of four; every operator
and every kind of relation, those that fail among them.

**`Pipelines`** - `AggregateOp` walks over the stages of a pipeline and changes the one
SELECT that is carried out at the end. `PipelineAgrees`: the result of a pipeline whose
stages are in the order in which a SELECT works is what the stages make of the rows
one after the other. Instance: 12 beginnings with 8 ends.

**`EntityRegistry`** - what the decorators of typeorm and of schema-api say, in which
order ever classes are imported, decorated later and looked up. `RefsMirrorStore` (in
`EntitiesAgree`): an entity has one property for each column, relation and embedded in
typeorm's arrays. `ReferencesResolve` (in `RegistriesHold`): a property that refers
to a class with a table finds its entity, and a relation the registry made has a
join over identifiers of both sides. Instance: three classes that refer to each other
in a circle, and three of schema-api, one of which cannot be made in some orders.

**`StorageRefs`** - `Storage.prepare()` makes the storages of a configuration one after
the other and links those that extend others; classes may be added at runtime, to
each storage, in each order. `IdColumnsFit` (in `EntitiesAgree`): a class that only
storages of MongoDB use has the column `_id` once, unless it has an objectId of its own,
and one that only SQL storages use does not have it. `AddedReachesAll`: a class that is
added is known to all storages that extend the one, directly or not, and registered
where it was not. Instance: 14 configurations: three storages that extend each other
in front and behind, over all kinds; one that extends what is missing, one with an
object that is none.

**`TaskRegistry`** - tasks, groups, bindings and access rules, nodes that come and go
with tasks of their own, and what `TasksHelper.exec()` makes of names.
`TasksHaveAPlace`: what is known as a task of this process is allowed; a node that is
there is listed for its tasks, up to the first name of a group that is denied here; and
what is known as a task of others goes with the last node that is listed for it. A node
that is listed is there, unless a third node's info named it: a new remote task takes over
the nodes its sender lists, of which some may have gone. `HeardOf` says which nodes a
sender may list, whether they are there or not, and the history `told` which were taken
over in this way; a node that leaves afterwards is taken off like any other.
Instance: two other nodes, of which one may list the other. `LocalTasksStay` (in
`RegistriesHold`): whatever nodes do, tasks of this process stay as they are, with what
they group and depend on. `RunsAreComplete`: `exec()` runs tasks that are all here, with
what they group and depend on to the last, and with each value they require.

**`Files`** - the handlers of requests for files and logs, and `tail()`, `less()` and
`readByByte()`, which read character by character while the task goes on writing or
the file is deleted. `ReadsAreExact`: the lines given back are those the file had when
its size was looked at, and the file is closed. `RequestsAnswered` (in `CallsAnswered`): a
request gets an answer wherever reading fails. Instance: a file of up to 4
characters, blocks of 2, 18 requests. `less()` drops the last character of what it has
selected, newline or not; `ReadsAreExact` takes that as it is.

**`InfoRequests`** - overlapping calls of `getNodeInfos()`, whose answers do not name the
call. A call subscribes and asks in one step. `InfosOncePerNode`: a call that ends brings one info of each node that was listed
when it began, and of no other; some are missing only when its time was over. Instance:
two calls, two other nodes that may stop or answer twice.

Fairness: timers of the cache fire, a Redis command is answered or fails (that the
client becomes ready is up to the server), the callbacks of the file system come.

## 4. What is proved

TLAPS checks the theorems below for every number of jobs, runs, semaphores,
clients, processes and nodes that the constants' assumptions allow. An invariant
is proved by way of an inductive one; where the property is not itself inductive,
this is what had to be added, and why.

* `AsyncQueueProofs`. `Structure` = `TypeOK`, the layout of jobs over the
  phases, `SlotsAccounted` (the counter, `active` and the phases agree), and
  that nothing is dropped while there are listeners. The counter that admits
  jobs is only right if each job gives its slot back once, which the phases
  say. `WaitingInOrder`, `WorkConserving`, `NoStrandedAwait` and
  `StartsInPushOrder` are then proved relative to `Structure`, and
  `QueueImplementsPool` from all of them. `ShutdownLeavesNothing` needs two
  invariants more: `Counted`, that the statistics are the numbers of jobs started and
  ended, and `ClosedIsEmpty`, that nothing waits, runs or comes in a closed queue;
  every accepted job has then ended.
* `TaskRunnerProofs`. `Structure` = `TypeOK`, `Tree` (runs are numbered in
  preorder, a parent is smaller than its children), `Listed`, `ListsApart`,
  `Flags` (the flags of a run agree with its list), `Settled`, `ChildrenFirst`
  and `AwaitsOpenRun`. `NeverStuck` needs an argument rather than an invariant:
  of the runs to do take the one with the greatest number; its children are
  greater, so they are done or under way. `NoIdleSlot` and
  `RunnerImplementsPlan` are proved relative to `Structure`.
* `LocksProofs`. `Structure` = `TypeOK`, what is said of semaphores that are made
  and not yet made, `LeasesAccounted` and `WaitingInLine`. `AtMostMax` and
  `NoOvertaking` follow; `DiscardsNobody` and `EmptyMeansStored` need
  `InUseIsKept` besides.
* `RequestsProofs`. `Structure` = `RequestTypeOK`, `Stages` (what the other
  variables are in each phase), `Origins` (where a response comes from), `Once`,
  `NobodyForgotten` and `Drawn` (what the result was drawn up from). They are
  proved of `RequestSpec`, hence of every kind of request, and
  `RequestImplementsReply` with them.
* `ExchangeProofs`, on the three kinds of request. Every step of `Messages`,
  `DistributedQuery` or `TaskExchange` is a `RequestStep` or leaves the request alone
  (`MessagesAreRequests`, `QueriesAreRequests`, `TasksAreRequests`), so all that is
  proved of requests holds of them. What the servers do has invariants of its own:
  `HandledAlone` with the answers not yet heard for `Messages`; for `DistributedQuery`,
  `AllTruthful`, that an answer on the bus says what the storage has done. In
  `TaskExchange`, `AwaitedRunIsOver` says something of the worker's run from what the
  future was told; its invariant `WorkStructure` follows the way between them:
  `AskedOnce` (who has the request still to come has no run), `Streamed` (an event on
  its way says what the run has come to), `Agreed` and `Obtained` (so do `targetState`
  and `targetResults`), `ClosedForAReason` (a future that was closed had heard an end)
  and `Waits` (`run()` has not returned before). It is proved for one process per node
  (`Alone`: two under one id are told apart by nothing in an event) and finitely
  many nodes.

* `SystemNodesProofs`. `Structure` = `TypeOK`, `Unheard` (who has not subscribed
  has heard nothing), `Posts` (what stands in a line was posted by somebody else)
  and `Listed`; it gives `ListedOnce` whatever instances overlap. `DroppedHaveLeft`
  needs two invariants more, and that a process starts only when the others of
  its node are over: `Alone`, and `InOrder`, that nothing from an earlier process
  comes after what its successor has posted. Every step is first reduced to
  what it does to a line and to a list (`StepMoves`): the head goes, an info
  comes, an entry is added. `QuietAgreement` speaks of a moment at which nothing is on
  its way, and is far from inductive: `Agreement` says what has to be on its way until
  then, the unregister info of whoever is listed and has left, behind all else from it
  (`Departures`), a first info of a successor while something of its predecessor is
  (`Returns`), and of two that have registered, what makes one list the other
  (`Acquainted`). `Catalogue` is its like for `NodeTasks`, each of whose steps is one
  of a node (`TasksAreNodes`): a process says in all it posts which tasks it has
  (`OwnOffers`, `Loaded`), so that whoever lists its node knows them or is about to get
  its first info (`Learnt`), and a run is listed of a process that has been replaced
  only while the first info of the successor is on its way (`NotReplaced`). Both are
  proved for `Overlap = "none"`; with two processes of a node under one number they are
  false (5).

* `TaskStoreProofs`. `LastStateStored` speaks of the end, when nobody has anything left
  to do, and is far from inductive. Its invariant has three layers. `Queued`: of the
  events that a monitor has heard of a run, those from some one on still wait or are
  being saved, in their order, and only the first of a run has got past its semaphore.
  `Tabled`: the row of a run and key with the least id is its base, which no call
  removes or will (`JobsOK` says what each call holds and that it is true of the table,
  however old the rows are that it has found), and a run whose first event no longer
  waits has its rows. `Owed`: a base that is not in the last state has a monitor that
  still has to save a last event, and a row that is no base has a monitor that is still
  to find it, or has found it and is about to remove it (a monitor that was refused a
  statement of the run may owe for ever). At the end nobody owes anything: all rows are
  bases, in the last state. That a call finds the duplicates it has to remove is why a
  run needs two events: after a first one with two inserts only a second looks again.
  `FirstRowsStay` is the step of `Tabled`.

* `ProcessProofs`, on five parts of a process. `InfosStructure`: who was asked by a call
  has answered, or is waited for, and no response counts twice, although an answer is
  taken by every call that waits for its node; the result follows. `CachesStructure`: a
  value's timer is the one its handle names (`TimersHandled`), and only a client that
  was made is connected. `SchedulesStructure`: only the call that got a name goes on
  with it (`Named`), one whose factories are not yet attached, or which none tells when,
  has no timer (`Unattached`), and for regular definitions (`Kept`) what was executed
  was on time and in order, and what the timer or the execution under way stands for
  comes after it. `LifeStructure`: one call at a time shuts the process down and has
  taken the steps up to its own (`OneCall`); what was undone was undone once, and in the
  order of the steps (`InOrder`), also when that call has ended or rejected; nothing is
  undone before the process has run (`NotYet`); and what a shutdown of a whole start has
  undone is gone (`Gone`). It is proved for any sequences of storages, modules and
  workers, and any number of callers and failures. `FilesStructure`: a handler looks at
  the size and then reads a file that grows meanwhile, so that all is said of the
  characters there were when it looked (`LookedAt`), which the growth leaves alone.
  `tail()`, which reads backwards, holds all characters from some place to the end,
  with as many newlines as it has counted but for a last character; `less()` holds
  nothing before the line asked for, and from then on all characters of the lines
  asked for among those read. It is proved for files of any length, blocks of any size
  and all options (`FilesAssumption`).

The theorems are listed in `PROJECT.json` with the property each states.
`SlotsAccounted`, `WaitingInOrder`, `StartsInPushOrder`, `NoStrandedAwait`,
`ListsApart`, `AtMostParallel`, `ChildrenFirst`, `AwaitsOpenRun`, `NeverStuck`,
`LeasesAccounted`, `AtMostMax`, `NoOvertaking`, `EmptyMeansStored`, `EachNodeOnce`,
`NobodyForgotten`, `CompleteOrLate`, `ResultStands` and `ListedOnce` are proved and
are in no run: a theorem holds for the instance as well.

Only model-checked:

* all that needs fairness (`CallsEnd`, `RunsEnd`, `CallersServed`, `MessageEnds`,
  `RequestsEnd`, `ComeToKnow`, `StorageEnds`, `MonitorsEnd`, `CallsAnswered`), because TLAPS
  1.4.5 proves no liveness from fairness;
* everything of `StorageOps` (with `Connections`): `WellConnected` is about every order
  in which operations prepare, reload, share and close wrappers, also those left over
  from before a disturbance, and a use is at times counted too little or too much
  without harm, so that no simple account of the uses is an invariant; with `Ops` of
  three and 8 wrappers TLC's simulation found nothing either;
* `DistributedEntities`, whose answers are put together with folds and sorted, which
  takes induction over data;
* `Conditions`, `Pipelines`, `EntityRegistry`, `StorageRefs` and `TaskRegistry`, which
  walk over trees and graphs with RECURSIVE operators, out of the prover's reach.

The type invariants of the modules with proofs are theorems. Those of the others
(`TypeOK` of `StorageOps`, `TypeOKEntities`) hold when they are added
to the cfg of their run.

The assumptions are those named `...Assumption` in the modules: bounds are natural
numbers, limits are positive, options of requests for files are not negative, sets of clients
and the keys of a run are finite, and no name stands for two things: a storage, module or worker has a name of its own, and
none of those of the parts of `Bootstrap`. Each is evaluated by TLC in the run of its
module.

## 5. What the models disagree with

One run of TLC ends with a counterexample, of a property that states what the
repository says of itself:

`SelectedIsTodo` (`runner_subtasks`; `libs/tasks/TaskRunner.ts:352`). The subtasks of a
task that is added at runtime are in `$tasks` but not in `todoNrs`; `taskRun()`
throws its own assertion and keeps the slot.

Statements the code does not keep. They stand in the modules as definitions; TLC
refutes each with the configuration of the module's run, changed as given.

| statement | module and setting | what happens |
|---|---|---|
| `DoneMeansFinished` | `AsyncQueue`, as INVARIANT | `shutdown(false)` with a job that has not started: `finalize()` sets the job's `_stop` and throws on its missing start date. `shutdown()` rejects half done, and `done()`, "Wait till the job is finished" (`libs/queue/QueueJob.ts:84`, :163), answers as if it had run. |
| `RunSettles` | `TaskRunner`, as PROPERTY | a run without a required parameter is stopped before it is started; the exception of `calcDuration()` leaves it in `runningNrs`, and `run()` never settles (`libs/tasks/TaskRun.ts:129`). |
| `AwaitsRelease` | `Locks`, `Clients = {c1}`, `Callers = {a1, a2}` | the timer of one `await()` takes away the listeners of all others, which then time out though the semaphore is free (`libs/Semaphore.ts:107`; :92 "Wait till semaphore is fully released"). |
| `UnknownHostsHeard` | `MCMessages`, `Procs = {p1, p2}`, `NodeOf <- Pair`, `Offered <- AllOptions` | with `waitIfNoTarget` (`libs/messaging/IMessageOptions.ts:12`) and no known node, every response is ignored, because the list of targets it is looked up in is empty (`AbstractMessage.ts:207`). |
| `InstancesApart` | `MCSystemNodes`, `NodeOf <- Instances`, `Overlap = "started"`, `Crashing = {}`, `Leaving = {p1, p2}` | all instances of a node share one row, whose key is made before the number is known (`libs/system/System.ts:97`, `entities/SystemNodeInfo.ts:33`). Of three that start one after the other, the third takes the second's number, and the two take each other's infos for their own. |
| `SentAsText` | `MCStorageOps`, `Textual = TRUE`, `Workloads <- MCSave`, `Disturbances <- MCCalm` | in a transaction the structured values of a save are made text and back into objects before the statement is sent (`SaveOp.ts:143`). |
| `ResultsOfAll` | `MCTaskExchange` | a future of several targets is finished when those that have reported are over; `tasks_executor.spec.ts:368` expects the results of all (`TaskFuture.ts:109`). |
| `AskedAsDefined` | `MCProcess` | a schedule's options object is shared by its executions and emptied by the first; from the second on `parallel` is lost (`TaskExecuteFactory.ts:17`; `docs/scheduler.adoc:36`). |
| `ConnectsInTime` | `MCProcess`, as PROPERTY | a call waits for a client at most 5 seconds, then "timeout redis" (`RedisCacheClient.ts:27`). When its client is ready after a `close()` (of two that connect at a time the first one is), the handler clears the timer (:37) and throws on the client that is null (:38): the call never settles. |

Met on the way, without a line of the repository that says otherwise, and kept
in the models as it is:

* Task runner: as many functions that await added tasks as there are slots stop a
  runner; `$weight` has no effect on the order in which runs are started;
  `createTaskRun()` computes a filter and does not use it, so that a task reached
  on two ways runs twice and a circle recurses without end.
* Locks: `LockFactory.remove()` drops free semaphores it was not asked to drop, and a
  shutdown then does not know them when they are used again.
* Messages: `targetIds: []` keeps the own node from handling a message; a message
  that times out resolves with what has come so far, and only an event tells of it.
* Nodes: a process that has left answers what is still in its line with
  "unregister", which takes a successor with the same number off the lists if that one
  has started before the old process exits; an exception of the bus in
  `onNodeInfo()` leaves its semaphore taken for good; `getNodeInfos(nodeIds)` does
  not take the ids over, so that nobody answers and it returns nothing after 5 s.
* Task exchange: `targetId` together with `remote` is dropped; `possibleTargetIds`
  is not used when targets are picked; options `randomRemoteNodeSelection` and
  `randomWorkerSelection` are one in the mind only; a future stays registered when no
  response comes; a failing run posts no 'errored' of its own and stays in
  `localTaskRunner`, where it is counted for `executionConcurrency` for ever;
  that count is read in `create()` and used in `run()`.
* Task store: an event of one node sets the rows of all `targetIds`; a monitor that
  stopped listening may store its last state over a later one; `TaskLog` of a failing
  run keeps its last state before.
* Distributed storage: a second process under the same node id carries out a save,
  too, and its answer is ignored; a save that fails at one node, or at a later type,
  stays done elsewhere; two saves under way of the same objects number them anew;
  results are not sorted after they are put together; with `outputMode` 'map' the
  count of the first response is reported for every node, and the count is NaN when a
  node skips; `getControllerForClass` finds none among several controllers.
* Connections: a class added at runtime makes typeorm forget a handle that stays open
  (with ":memory:", and its data); of three operations that come first at once,
  two may reload the wrapper of the third, which is counted twice for one use and
  stays listed until shutdown; `FindOp.findMongo` and others connect outside
  their `try` and reject without the hook after the operation.
* Storage operations: `UpdateOp` makes text of its caller's object; `AggregateOp`
  converts results with `JsonToString`; a delete of a condition that matches nothing
  tells -2, and one of objects the number it was given.
* Queries: the builders of two "match" stages number their parameters alike, so that
  the second overwrites values of the first; a second "match" before a group takes the
  first one's place; a join names the column by the identifier of the wrong side, and
  one over a many-to-many relation a column that does not exist; "eq" with null is
  `= NULL`; an empty "or" makes an invalid statement; a "sort" of a computed
  alias is rejected; a limit counts joined rows.
* Storage registry: objects given directly as entries are dropped; a schema without
  classes makes `initialize()` pass over the entry behind it; an object without a
  schema at a path makes `prepare()` reject; a missing `extends` ends the linking half
  way; storages that extend each other make `addEntityType()` recurse without end; a
  class that a storage of MongoDB and one of SQL use has the `_id` of the one
  registered last, and once an SQL storage has removed it, a later one of MongoDB
  does not get it back, because the registry still has the property.
* Task registry: the rules of `Tasks.access()` are all patterns, the branch for exact
  names is never taken; a task that is denied is still grouped; `get()` of a missing
  name makes a group, or null, on which planning and the arrival of a node throw; a task
  known from another node first stays remote when the program adds its own, and then
  stays when all other nodes have gone; a new remote task takes over the nodes its sender
  lists, so that one that has gone is listed, and may be asked, until it comes and
  leaves again; the
  comments of `group()` and `dependsOn()` (`Tasks.ts:287-312`) say the opposite of the
  bindings; a run of a remote task within a local `exec()` hangs.
* Schedules: a delay beyond what `setTimeout()` takes, and a start that cannot be
  read, fire at once and again; an execution that rejects ends its schedule; a shutdown
  during an execution is followed by a new timer; nothing calls the scheduler's
  `shutdown()` when the process stops.
* Cache: `set()` with null on a bin that was never written throws; of two connects
  at a time the first client is forgotten open; a client that is connecting is not
  closed; `clearBin()` finds keys and deletes them in two steps.
* Start-up: a second signal exits in the middle of a shutdown; what starts after a
  shutdown has begun stays; a start that failed leaves what it has started; the event bus
  is shut down before workers have finished; modules stop in the order they
  started in; a worker that fails in `prepare()` after subscribing is never finished.
* Files: `less()` drops the last character of a file that does not end with a newline;
  `readByByte()` reads a block at 0 whatever the offset, fails for a length below the
  block's, and does not close the file; lines that come out empty have no stats.

## 6. What is not modelled

* Within the components above: the values that pass between tasks; a done
  callback that is called twice, and `addTask()` after it; a task whose function
  is not supported (it behaves as one that never calls back); `LockFactory.reset()`
  and semaphores of different `max`; the option `filter` of requests; the contexts
  of nodes, what is in runtime infos, node tables that nodes do not share;
  `_forceReload`, `reset` and `forceShutdown` of a storage, which nothing calls while
  operations run; hooks of the storage API, the cache of `find()`; dates, and the
  text of statements; MongoDB's pipelines, which are handed on as they are; JSON
  schemas, and the values they convert; hashes of cache keys and what Redis stores;
  access rules of workers; characters of several bytes.
* Commands (they start a part that is modelled and print what it says), logging and
  configuration (look-ups, and output that nothing reads again), and the helpers
  (functions on strings, paths and arrays): no state of their own.
* `libs/tasks/worker/TaskExecutionRequest.ts`, an older request nobody makes.

## 7. Running it

    tlc -workers 2 -config AsyncQueue.cfg AsyncQueue.tla
    tlapm AsyncQueueProofs.tla

`PROJECT.json` lists every run with its module and configuration, every theorem,
and for each definition the lines of the source it models. The larger runs take
about two minutes, `process` nearly four, most of it for the liveness properties.
`CHECK_DEADLOCK FALSE` is set in all of them because every one of these systems may
come to rest: a queue nobody pushes to, a run that has ended, a request that was
answered, a query that has its rows.
