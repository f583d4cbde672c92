# A TLA+ model of racedet

racedet finds races in asynchronous Rust code.  A test runs as a set of *tasks* on tokio;
each task stops at *suspension points* (`execution_point`), and a *scheduler* resumes the
stopped tasks so that, between two of its choices, what happens is determined.  To know which
of the stopped tasks can make progress, the scheduler keeps *models* of the synchronization
primitives the tasks use, fed by the *events* that the test sends.  The choices are recorded
and can be replayed.

The question of the whole project is whether that promise holds: the scheduler never sleeps
through work, never resumes a set of tasks that leaves the test stuck, never chooses while a
task is still going, records what it can replay, and its models agree with the primitives.

Paths below are relative to the repository; `src/` there is the library.

## 1. The system

| part | code | state | operations |
|---|---|---|---|
| scheduler | `src/scheduler.rs` | tasks with their `TaskState`, point and stable id; trace; replay position; error; two `Notify` objects | `register_task`, `on_sync_event`, `on_sync_init_event`, `on_reached_point`, `on_reached_point_with_event`, `on_task_finished`, and the control loop |
| choice of tasks | `src/scheduler/get_ready_tasks.rs` | none | `get_eligible_scheduler_choices`, `task_transitive_deps` |
| registry of models | `src/sync/mod.rs` | one model per type | `on_notified`, `on_init_event`, `task_progress_dependencies` (answers of all models, merged) |
| seven models | `src/sync/{mutex,rwlock,start_barrier,join,unknown_wait,watch,task_wait}.rs` | who holds, who waits | their events, each `Ok` or `Err(BadSync)` |
| task wrapper | `src/task.rs` | current task and scheduler of the thread | `task`, `sync_event`, `execution_point`, start barrier, the guard that reports the end of a task |
| replay | `src/replay_trace.rs`, `src/parsed_replay_trace.rs`, `src/string_pool.rs` | steps of a recorded run | comparison at each decision; text format |
| driver | `src/driver.rs` | none between tests | runs a test again and again with a scheduler each, reports |
| display | `src/trace.rs` | none | prints a trace |
| test examples | `example-crates/test-examples` | | the tests the library is tried on |
| server example | `example-crates/restapi` | a registry of schedulers, each with its barrier and its cancellation | requests join or create a scheduler, a retrieval takes it away |

How they interact.  A task calls the scheduler from its own thread, under the scheduler's
mutex; every call that may create work then calls `scheduler_notify.notify_waiters()`, after
the mutex is released.  The control loop, a tokio task of its own, enables a `Notified`, runs
one iteration under the mutex, and awaits.  An iteration asks the registry for the answer of
every running and ready task, and resumes what has to run or one of the choices, with
`task_notify.notify_waiters()`, which wakes all suspended tasks to look at their own state.
The models learn of primitives only through the events of the tasks.

What is hard here (PROJECT.json lists every hazard with its line):

* notifications do not queue: a `notify_waiters` that finds nobody waiting is lost;
* one iteration runs per wakeup, so it has to leave nothing that a second one would do;
* needs of tasks form cycles (the waiters of a barrier);
* a model is wrong about its primitive between the operation and the event;
* a task may panic, be dropped, or end while it is recorded as a holder or as a waiter;
* a replay has to meet the same ready tasks under the same ids, although the runtime, the
  control loop's thread and the abort of the loop are not under the scheduler's control;
* who an event is from is known by a thread-local variable, while futures are polled and
  dropped in each other and move between threads;
* a server's clients leave, come late, and retrieve the trace when they want.

## 2. The modules

| module | models | read it for |
|---|---|---|
| `TaskProgress` | `TaskProgressDependencies`, `merge` | the answers of models as records |
| `ReadyTasks` | `get_ready_tasks.rs` | `NeedToRun` and `Choices` as set expressions |
| `TransitiveDeps` | the loop of `task_transitive_deps` | one action per turn; implements `Reach` of `ReadyTasks` |
| `SchedulerContract` | what the scheduler promises | the abstract specification: states of tasks, answers, `Serve` |
| `Scheduler` | `scheduler.rs`, `get_resumed_tasks` | threads, critical sections, notifications, replay |
| `SyncModel`, `MutexModel`, `RwlockModel`, `BarrierModel`, `JoinModel`, `UnknownWaitModel`, `WatchModel`, `TaskWaitModel` | the seven models | one action per event and outcome |
| `Registry` | `SyncModelRegistry` | composes the seven models by INSTANCE |
| `System` | `task.rs`, tokio's primitives, the scheduler by its contract | composes `Registry` and `SchedulerContract` with running programs |
| `TestPrograms` | eleven example programs | the programs `System` runs |
| `ReplayText` | `parsed_replay_trace.rs`, the conversions of `replay_trace.rs`, `string_pool.rs` | operators on sequences of tokens |
| `Driver` | `run_once_async` and a second run with the printed replay | composes `System` with a recording and replaying control loop and with `ReplayText` |
| `TaskContext` | the thread-local variables and guards of `task.rs` and `scheduler.rs` | which task code runs as, and when tasks end |
| `RestApi` | `racedet_support.rs`, the handler `increment` | composes `BarrierModel` and `ReadyTasks` with a registry of schedulers |
| `MCScheduler`, `MCRegistry`, `MCSystem`, `MCDriver`, `MCTaskContext` | instances for TLC | |
| `Discipline` | how the examples announce their use of mutexes, rwlocks and barriers, as a condition on programs of `System` | the hypotheses of `DisciplineProofs` |
| `ReadyTasksProofs`, `TransitiveDepsProofs`, `SchedulerProofs`, `RegistryProofs`, `SystemProofs`, `DisciplineProofs`, `TaskContextProofs`, `RestApiProofs` | proofs about the module of that name; those of `DisciplineProofs` are about `System` | section 4 |

### Scheduler

`pc[t]` says where the thread of task `t` is: in the test's code (`user`), before the
`notify_waiters` that follows a critical section (`notify`, `suspended`, `finished`), in the
wait loop of a point (`enable`, `check`, `parked`), unwinding (`panicked`), or `gone`.
`task_waiters` and `loop_waiting` hold the enabled `Notified` that have not fired.  One action
is one critical section or one call of `Notify`; the two are atomic in the code and anything
may come between.  `deps` stands for the registry: a function from tasks to answers, taken
from the constant `Answers`, that an event replaces.  `RegisterTask`, `SyncEvent`,
`BadSyncEvent`, `ReachPoint`, `ReachPointWithEvent`, `AbandonPoint` and `TaskFinished` are the
program's steps; `EnableWait`, `CheckWait`, `Wake`, `NotifyLoop`, the library's own;
`EnableLoop`, the six `Iterate...` actions, which are the branches of
`control_loop_iteration`, and `WakeLoop` the control loop's.

The trace keeps its `ScheduleDecision` events only, since only they are read back.  Stable ids
are given as in the code, in the order of (name, id).  A replay is a sequence of steps;
`IterateReplay`, `IterateDiverged` and `IterateNoStableId` are its three outcomes, the last
being the `expect("ready task has stable id")`.  `ResumeTasks` includes the panic half way
through the set.

`AbandonPoint` is a point dropped while pending, by `select!` or a timeout.  The task stays
`Ready`; when it stops again `on_reached_point` panics unless the loop has resumed it.

### The models and the registry

The state is the code's, with a hash map that lacks a key written as an empty value.  Every
`Err` has an action (`Bad...`), because several change the model before they fail:
`ReleasedMutex` of another's mutex removes the holder, `WaitingForBarrier` of a waiting task
moves it, `LockedRwlock` on a write-locked lock has already ended the wait.  A model that has
no event yet is not in the code's registry; here it is, and answers `ReadyAlone`, the unit of
`merge`.

Ids of locks, watches and groups are given; the code takes them from user values, addresses
and a counter.  A barrier may have any capacity, 0 too (then the first who comes opens it), and may
be made at the address of an earlier one, where a task is still recorded that ended while it waited.
In `System` an address at which a task is recorded is not used again (`AtFreshAddress`): a living
one keeps the `Arc` alive, and the case of a dead one is the registry's.

### System

A program is a record: an initial value, the tasks' names, and a sequence of operations for
each task and for the test's own code (`Root`).  `SendEvent`, `SuspendAtPoint`,
`RejectedAtPoint`, `CreateStartBarrier`, `SendInitEvent`, `Poll` and `Finish` are the operations
of `task.rs`; `AcquireLock`, `ReleaseLock`, `ArriveAtBarrier`, `SpawnTasks`, `AwaitTasks`,
`SelectTask`, `UpdateWatch`, `EvaluateWatch`, `EndOfWatch` and `Panic` are tokio's side, which
is external and modelled as its documentation and the tests use it: fair locks, a barrier that
opens when full, `JoinHandle`s that return the panic, a `select!` that drops what it does not
take, a watch channel whose receivers look at a value when they begin and after each update.
`UseValue` and `CheckValue` are the variable of the test and the assertion on it.  `Resume` is
the contract's `Serve`.

A program is chosen in `Init` from the constant `Programs`, so a run covers several tests.

* `join!` polls its tasks within one tokio task, in turn; here they interleave freely.
* `select!` drops its other futures in one step.
* A panic of the root does not cancel the other tasks.
* The lock operation is one step: it queues, and the task goes on when it is granted.
* A predicate of `wait_for` sends its event in the step that looks at the value, since tokio
  holds the channel's lock meanwhile.

### Driver and ReplayText

`Driver` runs a program of `TestPrograms` twice.  The control loop keeps to the contract, and
has here what the contract hides: internal ids in the order of registration, stable ids given at
a decision in the order of (name, internal id), the trace, and a replay with its position.
`DecideAtRandom`, `Follow` and `Diverge` are the outcomes of a decision.  `TestEnds`,
`TestTimesOut` and `Report` are `run_once_async`: the control loop may still act between the end
of the test and its abort, and if it has panicked that is what is reported.  `Report` prints the
replay, `Rerun` is the same test again with the printed text in the environment variable.

A text is a sequence of tokens: separators, numbers, and strings, one token each.  `Format` and
`Parse` split and join it as the code does, so that an empty list gives one empty part.
`ToParsed` and `FromParsed` number the strings with a new pool and look them up again.  Strings
that hold a separator, which the code does not escape (it has a TODO), are not among the inputs.

* The time limit ends only tests in which nothing can happen any more: a limit that is too short
  for the test is not a behaviour of the library.
* A resumed set with a task that has ended, or that never was ready at a decision, does not
  occur in the programs given to `Driver` (`sys_failing_reader` shows one in which it does).

### TaskContext

A thread has a stack of calls: polls of `TaskFuture`s, drops, blocking functions and
`with_scheduler`.  Each call keeps what its guards replaced, `Leave` puts it back, and a panic
leaves calls as returning does.  `Poll` registers a task at its first poll with the scheduler
that `CreateTask` took, whichever is current at the poll; `EndDrop` is the guard in the future's
last field.  A future that is not being polled can be polled or dropped by any thread, in any
task.  `with_scheduler` is never put inside a task, as nowhere in the repository.

### RestApi

A request is the task that serves it: start barrier, two points, answer.  The registry is
guarded by one lock, so a look and an insertion are one step (`JoinScheduler`,
`CreateScheduler`); a replay header that does not parse panics under that lock and poisons it
(`FailToCreate`).  One that does parse makes the new loop "replaying".  What the replay holds is
left open: at each decision the loop may follow it to any choice (`Resume`) or find that the
execution has diverged (`Diverge`), which sets the error that makes every task panic that is at a
point or comes to one (`FailAtPoint`).  A choice with a task that ended before the first decision
has no stable id to look at, and the loop panics without the error (`MissStableId`).  An announced
count of 0 gives a barrier of one place, as tokio makes it (`Places`).  `Retrieve` takes the
scheduler and cancels its loop, which stops some time later.  `ClientLeaves` drops the request's future.  Each scheduler has one barrier and no other
event is sent, so one `BarrierModel` with a barrier for each scheduler stands for the models of
all of them.  Requests and schedulers are numbered as they come.

## 3. What the runs check

| run | instance | properties |
|---|---|---|
| `transitive_deps` | 3 tasks, all functions to answers | `TypeOK`, `ResultIsReach`, `Returns` |
| `sched_two` | 2 tasks of one name, all answers, 1 point each | `TypeOK`, `NoLostControlWakeup`, `NoLostTaskWakeup`, `StableIdsName`, `TraceReplayable` |
| `sched_three` | 3 tasks, a chain and a cycle of needs, 1 point each | `NoLostControlWakeup` |
| `sched_contract` | 2 tasks, one of two points and one of one, two answers, without a replay and with two recorded traces, fair | `ReplayFollowed`, `ResumedTaskRuns`, `ErrorReleasesTasks`, `ImplementsContract` |
| `registry` | 3 tasks, any events to one model at a time | `RegistryTypeOK`, `HolderNeverWaits`, `WatchUpdateUnblocks`, `BarrierStaysOpen`, `GroupWaitStaysMet` |
| `sys_tests` | `mutex_ok.rs`, `simple_ok.rs`, `rwlock.rs`, `spawn.rs`, `spawn_blocking.rs`, `futures_unordered.rs`, `join.rs`; and `mutex_unknown_err.rs`, `join.rs` with its timer, `watch.rs`, and a test that fails in many places; choices at random, fair | `NoBadSync`, `ModelExactAtPoints`, `SelectedTasksAreReady`, `ChoiceWaitsForTasks`, `Terminates` |
| `driver_replay` | nine tests and three whose replay may diverge, each with its replay, fair | `ReplayReproduces`, `ReplayTextFaithful`, `ReplayNeverStrays`, `DivergenceEndsTest` |
| `task_context` | 2 threads, 2 futures, 2 schedulers | `TypeOK`, `InnermostTaskIsCurrent`, `ReceiverIsLive`, `UnfinishedTaskHasOwner` |
| `rest_api` | 3 requests, groups announced as 0 or 2, with replays, fair | `TypeOK`, `FailuresExplained`, `NoLeakedLoop`, `LoopDiesOfLeaver`, `RequestsAreServed` |
| `sys_failing_reader` | a reader that panics and a writer | violates `SelectedTasksAreReady` |
| `sys_nested` | a reader that waits for a mutex, a writer | violates `NoStall` |
| `driver_unfinished` | a test that fails while a task is suspended | violates `ReplayReproduces` |

`ControlledTests` names the programs all of whose primitives are modelled and, in `Driver`, whose
replay is determined (below).  `NoBadSync`, `ChoiceWaitsForTasks` and `ReplayReproduces` speak of those only;
the other programs of a run are there for its other properties, which hold for all.

In words:

* `NoLostControlWakeup` — while the control loop sleeps there is nothing to resume, or
  somebody is about to notify it.  It is the reason `enable()` comes before the iteration, and
  it needs the theorems on `NothingToDo` below: one iteration is enough, and `register_task`
  may leave out its notification.
* `NoLostTaskWakeup`, `ResumedTaskRuns`, `ErrorReleasesTasks` — the same for suspended tasks.
* `StableIdsName`, `TraceReplayable` — what `get_replay` and `step_from_item` rely on.
* `ReplayFollowed` — under a replay, the decisions made so far are, as `get_trace` will show them,
  the first steps of that replay.  A step of a replay is here a set of ready tasks and a set of
  resumed ones: as printed ones do, it names no task twice.
* `ImplementsContract` — everything together: each step is a step of `SchedulerContract` and
  what is due is resumed.
* `BarrierStaysOpen`, `GroupWaitStaysMet` — a model does not take back the answer that a task
  can proceed (unless another barrier is made at the address); `WatchUpdateUnblocks` — the two maps of the watch model agree;
  `HolderNeverWaits` — locking twice is an error and not a silent stall.
* `ModelExactAtPoints` — what the lock models say a suspended task holds is what it holds.
  They may be wrong in between, and that is harmless because of `ChoiceWaitsForTasks`: the
  scheduler chooses only when no running task can go on.
* `NoBadSync`, `SelectedTasksAreReady`, `Terminates` — the events of the examples are never
  refused, the control loop never panics, every task ends.
* `ReplayReproduces` — the purpose of the library: the second run ends as the first did and
  leaves the same value, whatever the runtime does.  It holds for tests whose primitives are all
  modelled, whose tasks are never blocked on their way from saying that they wait to their point,
  and that end before another decision is due; also when two tasks have one name (`simple_err.rs`) and when the test deadlocks.  Where one of these fails the
  second run may differ: see below.  `ReplayTextFaithful` says that the text loses nothing.
* `ReplayNeverStrays`, `DivergenceEndsTest` — a replay that cannot be followed is never followed
  half: its decisions are a prefix of the recorded ones, and then the test is brought to an end.
* `InnermostTaskIsCurrent`, `ReceiverIsLive`, `UnfinishedTaskHasOwner` — events and points are
  credited to the task whose body runs; what is sent by the destructor of a dropped future goes
  to another task, but never to one that has ended; and a task that the scheduler still waits
  for has a future or a call that will report its end.
* `RequestsAreServed`, `FailuresExplained`, `NoLeakedLoop` — a request of a complete group is
  answered although clients leave, ids are used again after retrievals, and headers are bad.  It
  is excused when its trace is retrieved early, when more or fewer requests come to the barrier than
  the first announced (both are the clients' promise: the script at the top of
  `example-crates/restapi/src/main.rs` announces its number and retrieves after `wait`), and when
  the loop has died.  `LoopDiesOfLeaver` says what that takes: a client that left while its request
  was at the start barrier.  When a replay diverges all requests at points fail, which
  `FailuresExplained` allows and `RequestsAreServed` demands; only a request that was let go to
  tokio's barrier may hang, as the others do not come there any more.

### Bounds, and why they are enough

Tasks are 2 or 3 in the scheduler: a lost wakeup needs one task and the loop, a mix-up of stable
ids two tasks of one name, a chain of needs three.  `Answers` in `sched_two` is every function
to answers, in the others the ones that models produce (ready alone, blocked, needing another,
barrier cycles).  `MaxReached` bounds the points of each task: one gives a suspension, a
resumption and an end; two, which one task has in `sched_contract`, let a task come back while its
earlier stop is still being processed, and a replay reach its second step.  Nothing else in the
scheduler is unbounded: the trace and the stable ids grow with the points.  The wakeup invariants are proved without these
bounds.

The registry has three tasks, two mutexes, one rwlock, two barriers of two or three, two
watches and one group with two indexes: enough for two waiters, a holder and a second object to
move to.  No event names two objects and no model reads another one, so that a client of each
kind covers their combinations.

The programs are finite.  They have two to five tasks, as the tests have, with two readers and
two writers for the rwlock.  `watch.rs` sends `Sends` = 4 numbers and not 10: two even ones, two
odd ones, and the last is odd, so that its end is seen.  In `Driver` the rwlock test has one task
of each kind, since the runs are squared: everything that happens is followed by everything that
may happen in the replay.  `MaxNumber` bounds the numbers of a text and is above every id and
index in it.

`MaxDepth` = 3 calls on a thread and `MaxTasks` = 2 tasks of each scheduler let a task be polled
in a task, dropped in another, with a blocking call or a second scheduler around it, on two
threads between which the futures move.  `MaxRequests` = 3 gives a complete group and a late
request, or a group that is retrieved and two requests that use its id again.  All headers ask for a
replay there, since a loop with a replay may do all that one without does, and is able to go on when
that is.

`CHECK_DEADLOCK FALSE` is set in all runs, since a test ends, and the registry's clients may
run out of acceptable events.

### Fairness

tokio polls a woken task again, and a panic runs the destructors of its task.  `Scheduler`
therefore assumes weak fairness of the control loop as a whole, of the wait loop of each
task, of the pending `notify_waiters` of each actor, and of the end of a task that has
panicked.  Nothing is assumed of the program: a task may compute for ever.  `System` assumes
weak fairness of every actor, as tokio polls what can go on, and of `Resume`, which is the
fairness the contract promises and `ImplementsContract` checks.  Weak fairness suffices, since
none of these steps is disabled by others once it is enabled, except a `parked` task, which is
one process with its `enable` and `check`.

`sys_tests` needs more, `RandomSpec`: in `watch.rs` a consumer can be chosen for ever while the
producer is passed over.  The choice is made by `rand::random_range` (`src/scheduler.rs:757`), so
that a task that can be chosen time and again is chosen at some time; this is strong fairness of
the resumption of each task.  `DriverFairSpec` assumes that tokio polls what can go on and
nothing of the time limit, which is optional.  `RestApi` assumes weak fairness of each request and
of each control loop with its cancellation, which are one tokio task; a loop decides somehow and need
never diverge, and nobody has to call, to leave or to retrieve.

### What the violations show, and what else was found

* `sys_failing_reader`.  No model learns that a task has ended.  A task that panics while it
  holds a read lock stays recorded, and a waiting writer is answered Ready *with the ended
  task*.  `resume_tasks` finds it not Ready and panics with "Internal error: task ... is
  selected to run, but its state was not Ready" (`src/scheduler.rs:795`).  The other tasks
  hear nothing, and the driver reports the internal error in place of the test's failure.
* `sys_nested`.  The rwlock model answers Ready with the holders although a holder may be
  blocked.  Once the writer has been resumed with a reader that waits for a mutex, the writer
  counts as a running task that can proceed, so the scheduler never resumes the holder of the
  mutex.  Nothing runs any more, although the program itself cannot deadlock.
* `driver_unfinished`.  Whether the control loop makes one more decision between the failure of
  the test and its abort is a matter of time.  If it did not when recording and does when
  replaying, it finds "no more steps", panics, and hides the failure.

TLC shows more such behaviours when a run is given other programs.  For `NoStall`, set `Programs` and
`ControlledTests` in `MCSystem_nested.cfg` to

* `OddWatchTests`.  A consumer that looks at the value after `send` and before `WatchNotified`
  registers as a waiter, and is unblocked by the update that it has already seen.  tokio does not
  wake it, the model says it can proceed, and the producer is never resumed.
* `UnstartedTests`.  A task of a group that is dropped before its first poll stays "spawned and
  not started", which keeps whoever waits for tasks of the group Ready, for ever.

For `ReplayReproduces`, set them in `MCDriver_unfinished.cfg` to

* `UnknownTests`.  What waits for something unknown is woken by the runtime, beside the task
  that was resumed; their order is in no decision, and the replay of `mutex_unknown_err.rs` need
  not fail as the recorded run did.
* `LateWaitTests`.  `sync_event(LockingMutex)` and the point that follows are two steps.
  Between them the task is blocked and still running, the loop may decide there or after, and
  the recorded ready tasks differ.
* `EmptyTests`.  A run without decisions prints a text that does not parse.

And in `rest_api`, as `LoopDiesOfLeaver` allows: a future dropped at its start barrier does not
send `AbortedWaitingForBarrier`.  When another request takes its place the barrier is full, with
an ended task, which the control loop finds not Ready and panics.  Nobody awaits that loop.

## 4. What is proved

All theorems are for any number of tasks, of the models' objects, of points and of names, by
TLAPS.  Each is of the form `Spec => []Inv` unless said otherwise, and rests on an inductive
invariant of its module.

**`ReadyTasksProofs`** — lemmas about the operators.  `MergeCommutes`, `MergeAssociates` and
`MergeAllStep`: the order of the hash map of models does not matter.  `AutoResumeSettles`,
`DecisionSettles` (after one iteration there is nothing left to resume) and
`RegistrationSettles` (a new task makes no work).  They rest on `Reach` being the smallest closed
set that holds its task.

**`TransitiveDepsProofs`** — `TypeCorrect`, and `TransitiveDepsCorrect`: the loop of
`task_transitive_deps` returns `Reach`.  The inductive invariant says that what was visited is
reached and that all but the tasks on the stack have their needs visited.

**`SchedulerProofs`**
* `TypeCorrect`, `ControlLoopNotLost`, `TasksNotLost`.  The inductive invariant `IInv` adds to the
  three properties: nothing is known of a task that has not registered (else `RegisterTask` could
  make work), a task at a point is Ready or Running, a Ready task has a point, and the loop is
  dead once `error` is set.  The steps of the control loop use the three `...Settles` theorems.
* `KeepsTheContract`: `Spec => Contract!Safety`, the safety half of `ImplementsContract`.  One
  lemma per group of actions says which step of `SchedulerContract` it is, or that it stutters.
* `StableIdsNameTasks`, `TracesReplayable`.  `TraceInv` adds them to `IInv`.  The number a decision
  gives to a task is its rank in the order of (name, id): `RankNumbers` shows that the ranks in a
  finite set are 0, 1, ... each taken once.
* `ReplaysFollowed`.  `ReplayInv` adds that a task which is Ready or has a stable id is registered:
  the trace holds internal ids, and the names and stable ids by which it is read back must still be
  those by which it was compared.

**`RegistryProofs`** — for any clients whose events are about existing ids (`Addressed`):
`RegistryTypeCorrect`, `SelfLockIsRefused`, `WatchesUnblock`, and the action properties
`BarriersStayOpen` and `GroupWaitsStayMet`.

**`SystemProofs`** — the two compositions meet here.  `TestsAreClients`:
`Spec => RegistrySpec(...)`, a test with tokio and the scheduler is a client of the registry whose
events are about existing ids, because its operations are (`WellFormed`) and because a task that
is recorded anywhere is a task of the test.  So `ModelsKeepPromisesInTests`: what is proved of the
registry holds in every test.

**`DisciplineProofs`** — `System`, for all tests that use its primitives as the examples do.

`ModelExactAtPoints`, `SelectedTasksAreReady` and `NoBadSync` do not hold of all tests
(`sys_failing_reader`), so a hypothesis is needed.  `Disciplined` says it of the code alone: each
position of a task has a label, what the task has said and done when it comes there ("asked",
"waiting", "queued", "held", "dropped" or "free" for a mutex, "asked", "queued", "held", "released"
or "free" for a rwlock, with the mode; the barrier it waits at; its joins and group waits), and each
operation is permitted at its label.  What that asks for:

* an event comes right after the operation it is about, `ReleasedRwlock` right before it, as in
  `rwlock.rs`; a task is not suspended between the two;
* a task takes one mutex at a time and waits for nothing meanwhile; it has no rwlock while it takes
  a mutex or waits at a barrier (a reader that waits for a mutex is `sys_nested`);
* it may not fail while it has, or waits for, a rwlock, or waits at a barrier (a reader that fails is
  `sys_failing_reader`); while it holds a mutex it may;
* it uses no watch, `select!` or timer.

Joins, task groups, unknown waits, spawns, loops, assertions that fail and panics of awaited
tasks are allowed; mutexes and rwlocks may be held several at a time, and a rwlock be asked for
under a mutex.

* `LockModelsExact` (`ModelExactAtPoints`) and `ControlLoopLives` (`SelectedTasksAreReady`).
* `NoEventRefused`: `Spec => [][OnlyTestsFail]_vars`.  No model refuses an event, in any
  interleaving: an actor panics only at an assertion of the test, or where it awaits a task that has
  panicked.  This needs `BarriersPlanned` too: every barrier is made with as many places as it has
  users, each user goes there once, and the users are started after it is made.  A program that
  announces too few is refused a wait, as the test made to fail in `sys_tests` is.
* `NoPanic`: `Spec /\ []AssertionsHold => []NoBadSync`, if no assertion of the test itself may fail.
  Whether it may is a matter of what the test computes, and not of the library; that the tests of
  the repository do not let it is part of `NoBadSync` in `sys_tests`, since a panic at an
  assertion counts there.

The inductive invariant `IInv` is that of `SystemProofs` with

* `MutexesKnown`, `RwlocksKnown`, `BarriersKnown`, `OthersKnown`: the models have recorded of a task
  what its label says, also after a panic, which leaves the records of the dead task behind;
* `QueuesKnown`: the queue of a mutex has at most the task whose label says so.  For a rwlock
  `QueueOf` relates the whole queue to the labels: it holds the tasks that queue, hold or release,
  each once and in its mode, and whoever is recorded as a holder is at the head of it or among the
  readers at the head.  A task that leaves only moves others forward (`LeaveQueue` keeps the order),
  and one that joins goes to the end;
* `Exclusive`: at most one task owns a mutex, where a task that has *asked, been suspended and been
  resumed* owns it already.  This is the heart: such a task will take the mutex without asking the
  scheduler again, so two of them would queue behind each other.  The step of the scheduler keeps
  it, since a choice holds at most one such task (`ResumedTaker`; barriers and rwlocks alone make
  tasks need others, and who waits for a mutex waits for neither), and since while one is on its way
  some running task can proceed and no choice is made (`TakerIsUnblocked`);
* `Living`: tasks that ended or panicked do nothing more, so whoever the scheduler resumes is Ready.

For the rwlocks nothing like `Exclusive` is needed: tokio grants the lock in its own order, and it
does not matter to whom the scheduler meant to give it.

`Plans` adds what the barriers need: `Arrivals`, tokio's barrier has let in exactly those whose
labels say so, each a user of the barrier and each once; `Capacities`, a barrier has its capacity
before any of its users is spawned (`MadeInTime`, which speaks of every set of tasks that is closed
under spawning each other, so that users may be spawned by users); and `OpenToAll`, the model still
has the barrier while a user has not come.  The last is the point: the model forgets a barrier when
the last recorded task leaves it, and if it did so before the last user had announced itself, that
one would be refused.  It does not, since a task leaves only after tokio has let it go, which takes
as many arrivals as the barrier has users, each of them announced before.

* `OneDecisionAtATime`: `Spec => ChoiceWaitsForTasks`, for disciplined tests that are `Patient`: a
  task announces its waits for mutexes and barriers by the event of a point
  (`execution_point_with_event`), waits for no other task and for nothing unknown, and does not fail
  while it takes a mutex.  Then no running task is ever blocked (`RunningIsUnblocked`): who
  was resumed on its way to a mutex is the only one on that way (`Exclusive`), and a barrier at
  which a task was resumed stays open.  So when the scheduler chooses, nothing runs at all.  The
  invariant `Unhindered` says that, and that a task which panicked waits for nothing; the scheduler
  keeps it, since what a task needs that is at no closed barrier is at no closed barrier either
  (`ReachIsOpen`).  The hypothesis cannot be dropped: an event that is sent before the point, as
  `LockingMutex` in `mutex_ok.rs`, leaves a moment in which a task that can go on counts as blocked
  (`LateWaitTests` in section 3).  That it does no harm in `mutex_ok.rs` depends on the whole test,
  and TLC shows it.

`MCSystem` has TLC evaluate `Disciplined` and `BarriersPlanned` for ten tests of the repository (all of them in
`sys_tests`, whose five tasks are as many as they have), so that they are not empty: `mutex_ok.rs`, `mutex_err.rs`, `mutex_unknown_err.rs`, `simple_ok.rs`,
`simple_err.rs`, `rwlock.rs`, `spawn.rs`, `spawn_blocking.rs`, `futures_unordered.rs` and the
handler `increment`; and `Patient` for `simple_ok.rs`, `simple_err.rs`, `rwlock.rs` and `increment`.

**`TaskContextProofs`** — `TypeCorrect`, `InnermostTaskCurrent`, `ReceiversAreLive`,
`UnfinishedTasksOwned`.  The invariant reconstructs, for each call on a thread's stack, what was
current when it began (`CallsNest`), and says `InnermostTaskIsCurrent` at every depth, since a
return brings an inner state back; that a future is in at most one call, whose kind fits its stage;
and that no id has two owners, so that the end of one task is not taken for another's.

**`RestApiProofs`** — `TypeCorrect`, `FailuresAreExplained`, `LoopsAreNotLeaked`, `LoopsDieOfLeavers`, for
any number of requests, any announced numbers, and with or without replays.  The invariant relates a request's place in the
handler to its barrier, and counts: a barrier that has not opened holds the requests that came to it
and no others, so that it opens when, and only when, as many came as were announced.

### Assumptions

| assumption | why the code justifies it |
|---|---|
| `TaskIdsAssumption`: ids are 1..n, n finite | `register_task` numbers tasks so |
| `AnswersAssumption`, `NamesAssumption`, `MaxReachedAssumption` | types; names are ranks of strings |
| `ReplaysAssumption`: a replay is there or not, and has a length | `Option<ReplayState>`, `Vec` |
| `NoneAssumption` (three modules): None is no task, scheduler or future | `Option` |
| `SlotsAssumption`: the indexes of a group are finite | `usize` |
| `CountsAssumption`, `MaxRequestsAssumption` | `usize`; finitely many requests are served |
| `LoopKindsAssumption`: a loop has a replay or not | `Option<ReplayTrace>` |
| `ProgramsAssumption`: events and loops of a program are about what exists | ids are taken from values the test has |
| `SystemAssumption`: the root is no task, locks of different kinds differ | addresses of different objects |

`Addressed`, `Disciplined`, `BarriersPlanned` and `Patient` are hypotheses of theorems and not of the modules.

### Only model-checked

* All liveness: `Returns`, `ResumedTaskRuns`, `ErrorReleasesTasks`, `Terminates`,
  `RequestsAreServed`, `DivergenceEndsTest`, and the fairness half of `ImplementsContract`.  The
  prover has no rules for fairness and ENABLED.
* `ChoiceWaitsForTasks` for the tests that are not patient: `mutex_ok.rs`, those with waits for tasks
  of a group, and `join.rs`.  A proof has to say which tasks can still complete each wait.
* `ModelExactAtPoints`, `SelectedTasksAreReady` and `NoBadSync` for the tests that are not
  disciplined: `join.rs`, `watch.rs`, and the test made to fail.  That the assertions of the others
  hold is model-checked too, test by test.
* `ReplayReproduces` compares two runs of one program.  `ReplayTextFaithful` and
  `ReplayNeverStrays` depend on what `SelectSeq` and `FlattenSeq` compute, which needs induction
  over sequences.  What of `ReplayNeverStrays` is the scheduler's part is proved as
  `ReplaysFollowed`.

## 5. What is not modelled

* The `Display` of traces, logging, and the wording of messages.  `get_trace` is modelled as far
  as `get_replay` reads it.
* In the driver the repetition of a test, the capture of panics and the environment; it is run
  once and replayed once, which is what its report promises.
* Strings with separators in the text of a replay; the code does not escape them.
* The parse of the header `x-racedet`, the other routes of `restapi`, and the content of a replay
  given in a header: that it is followed to the letter is `ReplayFollowed` and `Driver`.
* `join_bad.rs`, in which the events of a join are left out, and `without_driver.rs` and
  `spawn_no_driver.rs`, which run a scheduler by hand and repeat modelled programs.
* Wrong events of the rwlock in Write mode: the registry's run sends them, but what should hold
  after one is not said anywhere.

## 6. What is left

Every part that keeps state is modelled, and of each the safety that is meant for any size is
proved, for the tests to which it applies.  What could still be done:

* `ChoiceWaitsForTasks` for disciplined tests that are not patient.  It needs labels for what a task
  waits for in a group or a join, and an argument about who can complete the wait.
* `ReplayReproduces` for any patient program, as a relation of two runs, which differ only in the
  order of steps that commute between two decisions.
* A property for each of the hazards that PROJECT.json lists without one, should the code come to
  say what ought to hold there: wrong events of the rwlock in Write mode, and the `expect` on stable
  ids.
