------------------------------- MODULE System -------------------------------
(***************************************************************************)
(* The whole of a test: tasks that run a program of the kind found in      *)
(* example-crates, the primitives of tokio they use, the synchronization   *)
(* models that the program's events keep up to date, and the scheduler,    *)
(* here by its contract (Scheduler is shown to implement it).              *)
(*                                                                         *)
(* What the models know is only what the events told them; whether the     *)
(* scheduler can rely on it is the question of this module.                *)
(***************************************************************************)
EXTENDS Registry, Naturals, Sequences, FiniteSets

CONSTANTS
  Locks,    \* the tokio mutexes and rwlocks; ids of models may be among them
  Programs,  \* the tests that may be run
  ControlledTests  \* those in which nothing but the scheduler is to decide what happens

VARIABLES
  program,      \* the test that runs
  state, dead,  \* of the scheduler's contract
  ip,           \* the next operation of each actor
  queue,        \* holders of and waiters for each lock, first come first
  capacity, arrived,   \* of the tokio barriers
  channel, evaluated,  \* tokio's watch channels; the version of its channel
                       \* that each task in wait_for has looked at, or 0
  value, loaded,       \* the variable of the test; what each task read of it
  spawned,      \* tasks whose future is being polled
  panicked      \* actors that have panicked

Root == 0  \* the test's code outside of any task
Actors == TaskIds \cup {Root}

queueless == <<capacity, arrived, channel, evaluated, value, loaded>>
realVars == <<queue, queueless>>
schedVars == <<state, dead>>
progVars == <<program, ip, spawned, panicked>>
vars == <<registryVars, realVars, schedVars, progVars>>

Answers == [t \in TaskIds |-> TaskProgressDependencies(t)]

Sched == INSTANCE SchedulerContract WITH deps <- Answers, replaying <- FALSE

-----------------------------------------------------------------------------
(* Operations of programs.                                                 *)
Ev(name, id, arg) == [event |-> name, id |-> id, arg |-> arg]

SyncEvent(e) == [op |-> "sync_event", event |-> e]
ExecutionPoint(p) == [op |-> "execution_point", point |-> p]
ExecutionPointWithEvent(p, e) ==
  [op |-> "execution_point_with_event", point |-> p, event |-> e]
SyncInitEvent(e) == [op |-> "sync_init_event", event |-> e]
NewStartBarrier(b, n) == [op |-> "StartBarrier::new", event |-> Ev("NewBarrier", b, n)]
BarrierWait(b) == [op |-> "barrier.wait", id |-> b]
Acquire(l, mode) == [op |-> "lock", id |-> l, mode |-> mode]
DropGuard(l) == [op |-> "drop", id |-> l]
Spawn(ts) == [op |-> "spawn", tasks |-> ts]
Await(ts) == [op |-> "await", tasks |-> ts]
Select(ts, timer) == [op |-> "select", tasks |-> ts, timer |-> timer]
Send(w, v) == [op |-> "watch.send", id |-> w, value |-> v]
DropSender(w) == [op |-> "drop(watch)", id |-> w]
WaitForEven(w) == [op |-> "wait_for", id |-> w]
LoopBack(n) == [op |-> "loop", back |-> n]
Load == [op |-> "load"]
Store == [op |-> "store"]
FetchAdd == [op |-> "fetch_add"]
AssertValue(expected) == [op |-> "assert_value", expected |-> expected]
Assert == [op |-> "assert"]

(* What task_inner and wait_for_start_barrier put around a task's body. *)
WaitForStartBarrier(b) ==
  << ExecutionPointWithEvent("barrier", Ev("WaitingForBarrier", b, 0)),
     BarrierWait(b),
     SyncEvent(Ev("CompletedBarrierWait", b, 0)) >>

WithStartBarrier(b, body) == WaitForStartBarrier(b) \o body

(* A test: the initial value of its variable or channel, the code of the   *)
(* test itself, and tasks 1, 2, ..., each with its name and body.          *)
Task(name, body) == [name |-> name, body |-> body]

TestOf(initial, root, tasks) ==
  [initial |-> initial,
   name |-> [t \in DOMAIN tasks |-> tasks[t].name],
   code |-> [a \in 0..Len(tasks) |-> IF a = Root THEN root ELSE tasks[a].body]]

WithTaskGroup(g, i, body) ==
  <<SyncEvent(Ev("TaskStarted", g, i))>> \o body \o <<SyncEvent(Ev("TaskCompleted", g, i))>>

(* What is needed of a program for its events to make sense: they are      *)
(* about what exists, it spawns tasks that it has, and its loops begin     *)
(* where it does.                                                          *)
OpWellFormed(p, i, o) ==
  /\ o.op \in {"sync_event", "execution_point_with_event"} => Addressed(o.event)
  /\ o.op \in {"sync_init_event", "StartBarrier::new"} => AddressedInit(o.event)
  /\ o.op = "wait_for" => o.id \in WatchIds
  /\ o.op \in {"spawn", "select"} => o.tasks \subseteq TaskIds \cap DOMAIN p.code
  /\ o.op = "loop" => o.back \in 1..(i - 1)

WellFormed(p) ==
  /\ Root \in DOMAIN p.code
  /\ \A a \in DOMAIN p.code :
       /\ Len(p.code[a]) \in Nat
       /\ DOMAIN p.code[a] = 1..Len(p.code[a])
       /\ \A i \in DOMAIN p.code[a] : OpWellFormed(p, i, p.code[a][i])

ASSUME ProgramsAssumption == \A p \in Programs : WellFormed(p)

ASSUME SystemAssumption ==
  /\ Root \notin TaskIds
  /\ None \notin BarrierIds
  /\ MutexIds \cup RwlockIds \subseteq Locks
  /\ MutexIds \cap RwlockIds = {}

-----------------------------------------------------------------------------
(* The primitives of tokio: locks are fair, a barrier lets its tasks       *)
(* through when as many as its capacity have arrived.                      *)
Queued(l, a) == \E i \in DOMAIN queue[l] : queue[l][i].task = a

Granted(l, a) ==
  \E i \in DOMAIN queue[l] :
    /\ queue[l][i].task = a
    /\ i = 1 \/ \A j \in 1..i : queue[l][j].mode = "Read"

(* A queue without the entries of some actors, in the same order. *)
LeaveQueue(q, leaving) ==
  LET left == {i \in DOMAIN q : q[i].task \notin leaving}
      Place(i) == Cardinality({j \in left : j <= i})
  IN [k \in 1..Cardinality(left) |-> q[CHOOSE i \in left : Place(i) = k]]

Op(a) == program.code[a][ip[a]]
End(a) == Len(program.code[a]) + 1
AtEnd(a) == ip[a] = End(a)

(* Where a suspended task is suspended. *)
PointOf(t) == program.code[t][ip[t] - 1].point

(* wait_for has looked at the value of the channel, and it is still there. *)
SeenUpToDate(t) == evaluated[t] = channel[Op(t).id].version

(* The actor waits for a tokio primitive.  *)
Waits(a) ==
  \/ \E l \in Locks : Queued(l, a) /\ ~Granted(l, a)
  \/ \E b \in BarrierIds : a \in arrived[b] /\ Cardinality(arrived[b]) < capacity[b]
  \/ /\ Op(a).op = "wait_for"
     /\ SeenUpToDate(a)
     /\ ~channel[Op(a).id].closed

(* What an actor awaits is there. *)
Awaited(a) ==
  /\ Op(a).op = "await" => \A t \in Op(a).tasks : state[t] = "Finished"
  /\ Op(a).op = "select" =>
       Op(a).timer \/ \E t \in Op(a).tasks : state[t] = "Finished"

(* The actor can execute its next operation: it has been polled, is not    *)
(* at a suspension point, and waits for nothing.                           *)
CanStep(a) ==
  /\ a \in TaskIds => state[a] = "Running"
  /\ ~AtEnd(a)
  /\ ~Waits(a)
  /\ Awaited(a)

Init ==
  /\ RegistryInit
  /\ program \in Programs
  /\ state = [t \in TaskIds |-> "none"]
  /\ dead = FALSE
  /\ ip = [a \in Actors |-> 1]
  /\ queue = [l \in Locks |-> <<>>]
  /\ capacity = [b \in BarrierIds |-> 0]
  /\ arrived = [b \in BarrierIds |-> {}]
  /\ channel = [w \in WatchIds |-> [value |-> program.initial, version |-> 1, closed |-> FALSE]]
  /\ evaluated = [t \in TaskIds |-> 0]
  /\ value = program.initial
  /\ loaded = [t \in TaskIds |-> 0]
  /\ spawned = {}
  /\ panicked = {}

Advance(a) == ip' = [ip EXCEPT ![a] = @ + 1] /\ UNCHANGED program

(* Unwinding drops the guards the task holds; nothing tells the models.    *)
Panic(a) ==
  /\ panicked' = panicked \cup {a}
  /\ ip' = [ip EXCEPT ![a] = End(a)]
  /\ queue' = [l \in Locks |-> LeaveQueue(queue[l], {a})]
  /\ UNCHANGED <<queueless, program, spawned>>

-----------------------------------------------------------------------------
(* The first poll of a TaskFuture registers its task. *)
Poll(t) ==
  /\ t \in spawned
  /\ UNCHANGED <<registryVars, realVars, progVars>>
  /\ Sched!Start(t)

SendEvent(t) ==
  /\ CanStep(t)
  /\ Op(t).op = "sync_event"
  /\ \/ /\ Accept(t, Op(t).event)
        /\ Advance(t)
        /\ UNCHANGED <<realVars, spawned, panicked>>
     \/ /\ Reject(t, Op(t).event)
        /\ Panic(t)
  /\ UNCHANGED schedVars

SuspendAtPoint(t) ==
  /\ CanStep(t)
  /\ Op(t).op \in {"execution_point", "execution_point_with_event"}
  /\ Advance(t)
  /\ IF Op(t).op = "execution_point"
     THEN UNCHANGED registryVars
     ELSE Accept(t, Op(t).event)
  /\ Sched!Suspend(t)
  /\ UNCHANGED <<realVars, spawned, panicked>>

(* The event at a point is refused before the task is suspended. *)
RejectedAtPoint(t) ==
  /\ CanStep(t)
  /\ Op(t).op = "execution_point_with_event"
  /\ Reject(t, Op(t).event)
  /\ Panic(t)
  /\ UNCHANGED schedVars

(* The barriers of a test have different addresses.  That one is freed and *)
(* used again, with a dead task recorded there, is left to the registry.   *)
AtFreshAddress(e) ==
  e.event = "NewBarrier" => \A t \in TaskIds : barrier_waiting[t] # e.id

CreateStartBarrier(a) ==
  /\ CanStep(a)
  /\ Op(a).op = "StartBarrier::new"
  /\ AtFreshAddress(Op(a).event)
  /\ AcceptInit(Op(a).event)
  /\ capacity' = [capacity EXCEPT ![Op(a).event.id] = Op(a).event.arg]
  /\ Advance(a)
  /\ UNCHANGED <<schedVars, queue, arrived, channel, evaluated, value, loaded,
                 spawned, panicked>>

SendInitEvent(a) ==
  /\ CanStep(a)
  /\ Op(a).op = "sync_init_event"
  /\ AtFreshAddress(Op(a).event)
  /\ AcceptInit(Op(a).event)
  /\ Advance(a)
  /\ UNCHANGED <<schedVars, realVars, spawned, panicked>>

ArriveAtBarrier(t) ==
  /\ CanStep(t)
  /\ Op(t).op = "barrier.wait"
  /\ arrived' = [arrived EXCEPT ![Op(t).id] = @ \cup {t}]
  /\ Advance(t)
  /\ UNCHANGED <<registryVars, schedVars, queue, capacity, channel, evaluated,
                 value, loaded, spawned, panicked>>

AcquireLock(t) ==
  /\ CanStep(t)
  /\ Op(t).op = "lock"
  /\ queue' = [queue EXCEPT ![Op(t).id] = Append(@, [task |-> t, mode |-> Op(t).mode])]
  /\ Advance(t)
  /\ UNCHANGED <<registryVars, schedVars, queueless, spawned, panicked>>

ReleaseLock(t) ==
  /\ CanStep(t)
  /\ Op(t).op = "drop"
  /\ queue' = [queue EXCEPT ![Op(t).id] = LeaveQueue(@, {t})]
  /\ Advance(t)
  /\ UNCHANGED <<registryVars, schedVars, queueless, spawned, panicked>>

SpawnTasks(a) ==
  /\ CanStep(a)
  /\ Op(a).op = "spawn"
  /\ spawned' = spawned \cup Op(a).tasks
  /\ Advance(a)
  /\ UNCHANGED <<registryVars, schedVars, realVars, panicked>>

(* await.unwrap() panics if the task awaited did. *)
AwaitTasks(a) ==
  /\ CanStep(a)
  /\ Op(a).op = "await"
  /\ IF Op(a).tasks \cap panicked = {}
     THEN Advance(a) /\ UNCHANGED <<realVars, spawned, panicked>>
     ELSE Panic(a)
  /\ UNCHANGED <<registryVars, schedVars>>

(* select! ends when one of its tasks has, or its timer has fired, and     *)
(* drops the futures of the others.  One that was polled reports its end;  *)
(* nothing tells the models.                                               *)
SelectTask(a) ==
  /\ CanStep(a)
  /\ Op(a).op = "select"
  /\ LET tasks == Op(a).tasks
         polled == {t \in tasks : state[t] # "none"}
     IN /\ state' = [t \in TaskIds |-> IF t \in polled THEN "Finished" ELSE state[t]]
        /\ spawned' = spawned \ (tasks \ polled)
        /\ ip' = [b \in Actors |-> IF b \in tasks THEN End(b)
                                   ELSE IF b = a THEN ip[a] + 1 ELSE ip[b]]
        /\ queue' = [l \in Locks |-> LeaveQueue(queue[l], tasks)]
  /\ UNCHANGED <<registryVars, dead, queueless, program, panicked>>

(* Sender::send, and the sender dropped. *)
UpdateWatch(t) ==
  /\ CanStep(t)
  /\ \/ /\ Op(t).op = "watch.send"
        /\ channel' = [channel EXCEPT ![Op(t).id].value = Op(t).value,
                                      ![Op(t).id].version = @ + 1]
     \/ /\ Op(t).op = "drop(watch)"
        /\ channel' = [channel EXCEPT ![Op(t).id].closed = TRUE]
  /\ Advance(t)
  /\ UNCHANGED <<registryVars, schedVars, queue, capacity, arrived, evaluated,
                 value, loaded, spawned, panicked>>

(* Receiver::wait_for(is even) looks at the value when it begins and after *)
(* every update.  The predicate of watch.rs sends the event, which no      *)
(* update can overtake: tokio holds its lock.  Then the task waits.        *)
EvaluateWatch(t) ==
  /\ CanStep(t)
  /\ Op(t).op = "wait_for"
  /\ ~SeenUpToDate(t)
  /\ IF channel[Op(t).id].value % 2 = 0
     THEN /\ Advance(t)
          /\ evaluated' = [evaluated EXCEPT ![t] = 0]
          /\ UNCHANGED registryVars
     ELSE /\ Accept(t, Ev("WaitingForWatchUpdate", Op(t).id, 0))
          /\ evaluated' = [evaluated EXCEPT ![t] = channel[Op(t).id].version]
          /\ UNCHANGED <<program, ip>>
  /\ UNCHANGED <<schedVars, queue, capacity, arrived, channel, value, loaded,
                 spawned, panicked>>

(* The sender is gone: wait_for returns an error and the task leaves its   *)
(* loop and ends.                                                          *)
EndOfWatch(t) ==
  /\ CanStep(t)
  /\ Op(t).op = "wait_for"
  /\ SeenUpToDate(t)
  /\ ip' = [ip EXCEPT ![t] = End(t)]
  /\ UNCHANGED <<registryVars, schedVars, realVars, program, spawned, panicked>>

RepeatLoop(t) ==
  /\ CanStep(t)
  /\ Op(t).op = "loop"
  /\ ip' = [ip EXCEPT ![t] = @ - Op(t).back]
  /\ UNCHANGED <<registryVars, schedVars, realVars, program, spawned, panicked>>

(* Accesses to the variable of the test. *)
UseValue(t) ==
  /\ CanStep(t)
  /\ \/ /\ Op(t).op = "load"
        /\ loaded' = [loaded EXCEPT ![t] = value]
        /\ UNCHANGED value
     \/ /\ Op(t).op = "store"
        /\ value' = loaded[t] + 1
        /\ UNCHANGED loaded
     \/ /\ Op(t).op = "fetch_add"
        /\ value' = value + 1
        /\ UNCHANGED loaded
  /\ Advance(t)
  /\ UNCHANGED <<registryVars, schedVars, queue, capacity, arrived, channel,
                 evaluated, spawned, panicked>>

(* An assertion on that variable. *)
CheckValue(a) ==
  /\ CanStep(a)
  /\ Op(a).op = "assert_value"
  /\ IF value \in Op(a).expected
     THEN Advance(a) /\ UNCHANGED <<realVars, spawned, panicked>>
     ELSE Panic(a)
  /\ UNCHANGED <<registryVars, schedVars>>

(* An assertion of the test, which holds or not. *)
CheckAssertion(t) ==
  /\ CanStep(t)
  /\ Op(t).op = "assert"
  /\ \/ Advance(t) /\ UNCHANGED <<realVars, spawned, panicked>>
     \/ Panic(t)
  /\ UNCHANGED <<registryVars, schedVars>>

(* TaskFinishedGuard, when the future of the task is dropped. *)
Finish(t) ==
  /\ state[t] = "Running"
  /\ AtEnd(t)
  /\ UNCHANGED <<registryVars, realVars, progVars>>
  /\ Sched!Finish(t)

(* The control loop, between any two steps of the program. *)
Resume ==
  /\ UNCHANGED <<registryVars, realVars, progVars>>
  /\ Sched!Serve

(* What an actor does but for the first poll of its future. *)
Work(a) ==
  \/ CreateStartBarrier(a)
  \/ SendInitEvent(a)
  \/ SpawnTasks(a)
  \/ AwaitTasks(a)
  \/ CheckValue(a)
  \/ /\ a \in TaskIds
     /\ \/ SendEvent(a)
        \/ SuspendAtPoint(a)
        \/ RejectedAtPoint(a)
        \/ ArriveAtBarrier(a)
        \/ AcquireLock(a)
        \/ ReleaseLock(a)
        \/ SelectTask(a)
        \/ UpdateWatch(a)
        \/ EvaluateWatch(a)
        \/ EndOfWatch(a)
        \/ RepeatLoop(a)
        \/ UseValue(a)
        \/ CheckAssertion(a)
        \/ Finish(a)

Step(a) == Work(a) \/ (a \in TaskIds /\ Poll(a))

Next == Resume \/ \E a \in Actors : Step(a)

Spec == Init /\ [][Next]_vars

(* tokio polls every task that can go on; the contract resumes what is due.*)
Fairness == WF_vars(Resume) /\ \A a \in Actors : WF_vars(Step(a))

FairSpec == Spec /\ Fairness

(* Choices are made at random: no task that can be chosen time and again   *)
(* is passed over for ever.                                                *)
ResumeTask(t) ==
  /\ UNCHANGED <<registryVars, realVars, progVars>>
  /\ \E tasks \in Sched!Due : t \in tasks /\ Sched!ServeTasks(tasks)

RandomSpec == FairSpec /\ \A t \in TaskIds : SF_vars(ResumeTask(t))
-----------------------------------------------------------------------------
Controlled == program \in ControlledTests

(* The events of the program never make a model report a bad use, however  *)
(* the scheduler interleaves the tasks.                                    *)
NoBadSync == Controlled => panicked = {}

ModelHolds(l, t) ==
  \/ l \in MutexIds /\ mutex_held_by[l] = t
  \/ l \in RwlockIds /\ t \in rwlock_held_by[l].tasks

(* Where it counts, at the suspension points, the models are exact: what   *)
(* they say a suspended task holds is what it holds of tokio's locks, and  *)
(* it is in no queue.                                                      *)
ModelExactAtPoints ==
  \A t \in TaskIds, l \in MutexIds \cup RwlockIds :
    state[t] = "Ready" =>
      /\ ModelHolds(l, t) <=> Granted(l, t)
      /\ Queued(l, t) => Granted(l, t)

(* No part of the program can run.  *)
Halted ==
  /\ \A a \in Actors : ~CanStep(a)
  /\ \A t \in TaskIds : /\ ~(state[t] = "Running" /\ AtEnd(t))
                        /\ t \in spawned => state[t] # "none"

(* The execution never halts while tasks are suspended: then the scheduler *)
(* has something to resume.                                                *)
NoStall == Halted /\ (\E t \in TaskIds : state[t] = "Ready") => Sched!Due # {}

(* Every task that the program spawns ends, whatever the scheduler chooses.*)
Terminates == <>[](\A t \in spawned : state[t] = "Finished")

(* The point of the library: one decision at a time.  The scheduler makes  *)
(* no choice while a task that runs can really go on; what happens up to   *)
(* the next choice follows from the last one.                              *)
ChoiceWaitsForTasks ==
  [][/\ Controlled
     /\ \E t \in TaskIds : state[t] = "Ready" /\ state'[t] = "Running"
     /\ ~Sched!HasReady(Answers, Sched!Running)
     => \A t \in TaskIds : state[t] = "Running" => ~CanStep(t) /\ ~AtEnd(t)]_vars

(* resume_tasks finds every task it is to resume in state Ready.  *)
SelectedTasksAreReady == ~dead
=============================================================================
