----------------------------- MODULE Scheduler -----------------------------
(***************************************************************************)
(* The scheduler of src/src/scheduler.rs: the tasks that register, send    *)
(* synchronization events, stop at suspension points and wait there to be  *)
(* resumed, and the control loop that resumes them.                        *)
(*                                                                         *)
(* One action is what its thread does between two points where another     *)
(* thread can get in: a critical section of Scheduler::inner, or one call  *)
(* of tokio's Notify.  The synchronization models are seen through the     *)
(* answers they give for every task (deps).                                *)
(***************************************************************************)
EXTENDS ReadyTasks, Naturals, Sequences, FiniteSets

CONSTANTS
  Names,      \* task names, as their ranks in string order
  Points,     \* names of suspension points
  Answers,    \* what the registry may answer for all the tasks at once
  Replays,    \* the replay traces a scheduler may be created with
  MaxReached  \* bound: suspension points each task reaches

ASSUME TaskIdsAssumption == IsFiniteSet(TaskIds) /\ TaskIds = 1..Cardinality(TaskIds)
ASSUME AnswersAssumption == Answers \subseteq [TaskIds -> Deps]
ASSUME NamesAssumption == Names \subseteq Nat
ASSUME ReplaysAssumption == \A r \in Replays : r.on \in BOOLEAN /\ Len(r.steps) \in Nat
ASSUME MaxReachedAssumption == MaxReached \in [TaskIds -> Nat]

VARIABLES
  (* Inner, protected by the mutex *)
  next_task_id, next_stable_task_id,
  name, stable_id,   \* fields of Task; stable_id is 0 for None
  state, point,      \* TaskState and the point of Ready
  trace,             \* its ScheduleDecision events, the only ones read back
  deps,              \* what sync_model answers
  replay, next_step, \* ReplayState
  error,             \* whether error is Some
  (* the two Notify objects *)
  task_waiters,      \* tasks whose Notified is enabled and not yet fired
  loop_waiting,      \* the same for the control loop's Notified
  (* where each thread is *)
  pc, loop_pc,
  reached            \* suspension points reached, for the bound MaxReached

taskVars == <<next_task_id, name>>
idVars == <<next_stable_task_id, stable_id>>
replayVars == <<replay, next_step, error>>
vars == <<taskVars, idVars, state, point, trace, deps, replayVars,
          task_waiters, loop_waiting, pc, loop_pc, reached>>

Root == 0  \* the test's code outside of any task
Actors == TaskIds \cup {Root}

NoReplay == [on |-> FALSE, steps |-> <<>>]
ReplayOf(steps) == [on |-> TRUE, steps |-> steps]

Registered == {t \in TaskIds : t < next_task_id}
Running == {t \in TaskIds : state[t] = "Running"}
Ready == {t \in TaskIds : state[t] = "Ready"}

(* No model has heard of a task that is not registered: it is not waiting  *)
(* for anything and nobody waits for it.                                   *)
OnlyRegistered(d) ==
  \A t \in TaskIds :
    IF t \in Registered THEN d[t].need \subseteq Registered ELSE d[t] = ReadyAlone

Init ==
  /\ next_task_id = 1
  /\ next_stable_task_id = 1
  /\ name = [t \in TaskIds |-> 0]
  /\ stable_id = [t \in TaskIds |-> 0]
  /\ state = [t \in TaskIds |-> "none"]
  /\ point = [t \in TaskIds |-> "none"]
  /\ trace = <<>>
  /\ deps = [t \in TaskIds |-> ReadyAlone]
  /\ replay \in Replays
  /\ next_step = 0
  /\ error = FALSE
  /\ task_waiters = {}
  /\ loop_waiting = FALSE
  /\ pc = [a \in Actors |-> IF a = Root THEN "user" ELSE "none"]
  /\ loop_pc = "enable"
  /\ reached = [t \in TaskIds |-> 0]

-----------------------------------------------------------------------------
(* The program's side.                                                     *)

(* register_task, when a TaskFuture is first polled or task_blocking is    *)
(* entered.  It does not notify the control loop.                          *)
RegisterTask(t, n) ==
  /\ t = next_task_id
  /\ next_task_id' = next_task_id + 1
  /\ name' = [name EXCEPT ![t] = n]
  /\ state' = [state EXCEPT ![t] = "Running"]
  /\ pc' = [pc EXCEPT ![t] = "user"]
  /\ UNCHANGED <<idVars, point, trace, deps, replayVars, task_waiters,
                 loop_waiting, loop_pc, reached>>

(* on_sync_event and, for the root too, on_sync_init_event: the model      *)
(* accepts the event and the lock is released; notify_waiters comes next.  *)
SyncEvent(a, d) ==
  /\ pc[a] = "user"
  /\ OnlyRegistered(d)
  /\ deps' = d
  /\ pc' = [pc EXCEPT ![a] = "notify"]
  /\ UNCHANGED <<taskVars, idVars, state, point, trace, replayVars,
                 task_waiters, loop_waiting, loop_pc, reached>>

(* The model answers Err.  It may have changed all the same, the control   *)
(* loop is not notified, and the task panics.                              *)
BadSyncEvent(t, d) ==
  /\ pc[t] = "user"
  /\ OnlyRegistered(d)
  /\ deps' = d
  /\ pc' = [pc EXCEPT ![t] = "panicked"]
  /\ UNCHANGED <<taskVars, idVars, state, point, trace, replayVars,
                 task_waiters, loop_waiting, loop_pc, reached>>

(* The critical section of on_reached_point and on_reached_point_with_event.*)
(* A task whose earlier point was abandoned is not Running and panics.     *)
Suspend(t, p) ==
  /\ pc[t] = "user"
  /\ reached[t] < MaxReached[t]
  /\ reached' = [reached EXCEPT ![t] = @ + 1]
  /\ IF state[t] = "Running"
     THEN /\ state' = [state EXCEPT ![t] = "Ready"]
          /\ point' = [point EXCEPT ![t] = p]
          /\ pc' = [pc EXCEPT ![t] = "suspended"]
     ELSE /\ pc' = [pc EXCEPT ![t] = "panicked"]
          /\ UNCHANGED <<state, point>>
  /\ UNCHANGED <<taskVars, idVars, trace, replayVars, task_waiters, loop_pc>>

ReachPoint(t, p) == Suspend(t, p) /\ UNCHANGED <<deps, loop_waiting>>

(* Here notify_waiters is called under the lock as well. *)
ReachPointWithEvent(t, p, d) ==
  /\ Suspend(t, p)
  /\ OnlyRegistered(d)
  /\ deps' = d
  /\ loop_waiting' = FALSE

(* Mutant: on_task_finished does not notify. *)
NotifyLoopUnlessFinished(a) ==
  /\ pc[a] \in {"notify", "suspended", "finished"}
  /\ loop_waiting' = (loop_waiting /\ pc[a] = "finished")
  /\ pc' = [pc EXCEPT ![a] = CASE pc[a] = "notify"    -> "user"
                               [] pc[a] = "suspended" -> "enable"
                               [] pc[a] = "finished"  -> "gone"]
  /\ UNCHANGED <<taskVars, idVars, state, point, trace, deps, replayVars,
                 task_waiters, loop_pc, reached>>

(* scheduler_notify.notify_waiters() after the lock is released. *)
NotifyLoop(a) ==
  /\ pc[a] \in {"notify", "suspended", "finished"}
  /\ loop_waiting' = FALSE
  /\ pc' = [pc EXCEPT ![a] = CASE pc[a] = "notify"    -> "user"
                               [] pc[a] = "suspended" -> "enable"
                               [] pc[a] = "finished"  -> "gone"]
  /\ UNCHANGED <<taskVars, idVars, state, point, trace, deps, replayVars,
                 task_waiters, loop_pc, reached>>

(* The wait loop of a suspension point: notified() and enable() ...        *)
EnableWait(t) ==
  /\ pc[t] = "enable"
  /\ task_waiters' = task_waiters \cup {t}
  /\ pc' = [pc EXCEPT ![t] = "check"]
  /\ UNCHANGED <<taskVars, idVars, state, point, trace, deps, replayVars,
                 loop_waiting, loop_pc, reached>>

(* ... then the look at error and state under the lock ...                 *)
CheckWait(t) ==
  /\ pc[t] = "check"
  /\ pc' = [pc EXCEPT ![t] = IF error THEN "panicked"
                             ELSE IF state[t] = "Running" THEN "user"
                             ELSE "parked"]
  /\ task_waiters' = IF pc'[t] = "parked" THEN task_waiters ELSE task_waiters \ {t}
  /\ UNCHANGED <<taskVars, idVars, state, point, trace, deps, replayVars,
                 loop_waiting, loop_pc, reached>>

(* ... then notified.await, until the Notified has fired.                  *)
Wake(t) ==
  /\ pc[t] = "parked"
  /\ t \notin task_waiters
  /\ pc' = [pc EXCEPT ![t] = "enable"]
  /\ UNCHANGED <<taskVars, idVars, state, point, trace, deps, replayVars,
                 task_waiters, loop_waiting, loop_pc, reached>>

(* The program drops the future of a suspension point that is pending (in  *)
(* a select or a timeout) and goes on in the same task.                    *)
AbandonPoint(t) ==
  /\ pc[t] = "parked"
  /\ task_waiters' = task_waiters \ {t}
  /\ pc' = [pc EXCEPT ![t] = "user"]
  /\ UNCHANGED <<taskVars, idVars, state, point, trace, deps, replayVars,
                 loop_waiting, loop_pc, reached>>

(* on_task_finished, called by TaskFinishedGuard: the task completes, its  *)
(* future is dropped where it waits, or it panics.                         *)
TaskFinished(t) ==
  /\ pc[t] \in {"user", "parked", "panicked"}
  /\ state' = [state EXCEPT ![t] = "Finished"]
  /\ task_waiters' = task_waiters \ {t}
  /\ pc' = [pc EXCEPT ![t] = "finished"]
  /\ UNCHANGED <<taskVars, idVars, point, trace, deps, replayVars,
                 loop_waiting, loop_pc, reached>>

-----------------------------------------------------------------------------
(* The control loop: run_control_loop and control_loop_iteration.          *)

EnableLoop ==
  /\ loop_pc = "enable"
  /\ loop_waiting' = TRUE
  /\ loop_pc' = "iterate"
  /\ UNCHANGED <<taskVars, idVars, state, point, trace, deps, replayVars,
                 task_waiters, pc, reached>>

WakeLoop ==
  /\ loop_pc = "await"
  /\ ~loop_waiting
  /\ loop_pc' = "enable"
  /\ UNCHANGED <<taskVars, idVars, state, point, trace, deps, replayVars,
                 task_waiters, loop_waiting, pc, reached>>

(* Mutant: the tasks are not notified. *)
ResumeTasksSilently(tasks) ==
  /\ tasks \subseteq Ready
  /\ state' = [t \in TaskIds |-> IF t \in tasks THEN "Running" ELSE state[t]]
  /\ loop_pc' = "await"
  /\ UNCHANGED task_waiters

(* resume_tasks.  The tasks are visited in any order; the first that is    *)
(* not Ready stops it with a panic ("Internal error"), its state already   *)
(* overwritten, nobody notified and error still None.                      *)
ResumeTasks(tasks) ==
  \/ /\ tasks \subseteq Ready
     /\ state' = [t \in TaskIds |-> IF t \in tasks THEN "Running" ELSE state[t]]
     /\ task_waiters' = {}
     /\ loop_pc' = "await"
  \/ \E bad \in tasks \ Ready, before \in SUBSET (tasks \cap Ready) :
       /\ state' = [t \in TaskIds |-> IF t \in before \cup {bad} THEN "Running" ELSE state[t]]
       /\ loop_pc' = "dead"
       /\ UNCHANGED task_waiters

Iterating == loop_pc = "iterate"

(* Mutant: what running tasks need is not looked at. *)
IterateIdleWhileRunning ==
  /\ Iterating
  /\ HasReady(deps, Running) \/ Choices(deps, Running, Ready) = {}
  /\ loop_pc' = "await"
  /\ UNCHANGED <<taskVars, idVars, state, point, trace, deps, replayVars,
                 task_waiters, loop_waiting, pc, reached>>

IterateIdle ==
  /\ Iterating
  /\ NothingToDo(deps, Running, Ready)
  /\ loop_pc' = "await"
  /\ UNCHANGED <<taskVars, idVars, state, point, trace, deps, replayVars,
                 task_waiters, loop_waiting, pc, reached>>

(* NoChoice(tasks): running tasks cannot proceed without these. *)
IterateAutoResume ==
  /\ Iterating
  /\ HasReady(deps, Running)
  /\ NeedToRun(deps, Running) # {}
  /\ ResumeTasks(NeedToRun(deps, Running))
  /\ UNCHANGED <<taskVars, idVars, point, trace, deps, replayVars,
                 loop_waiting, pc, reached>>

(* Mutant: only the tasks that can be chosen get an id. *)
UnnumberedUnblocked == {t \in Unblocked(deps, Ready) : stable_id[t] = 0}

(* Stable ids are given at a decision, to the ready tasks that have none,  *)
(* in the order of (name, id).                                             *)
Unnumbered == {t \in Ready : stable_id[t] = 0}

(* Mutant: tasks of the same name are not told apart. *)
NameBeforeOnly(t, u) == name[t] < name[u]

NameBefore(t, u) == name[t] < name[u] \/ (name[t] = name[u] /\ t < u)

AssignStableIds ==
  /\ stable_id' = [t \in TaskIds |->
       IF t \in Unnumbered
       THEN next_stable_task_id + Cardinality({u \in Unnumbered : NameBefore(u, t)})
       ELSE stable_id[t]]
  /\ next_stable_task_id' = next_stable_task_id + Cardinality(Unnumbered)

Deciding ==
  /\ Iterating
  /\ ~HasReady(deps, Running)
  /\ Choices(deps, Running, Ready) # {}
  /\ AssignStableIds

(* Mutant: every registered task is recorded as ready. *)
DecisionOfAll(to_run) ==
  [ready |-> {[id |-> t, position |-> point[t]] : t \in Registered}, resumed |-> to_run]

(* The decision as the trace keeps it: which tasks were ready and where,   *)
(* and which were resumed.                                                 *)
Decision(to_run) ==
  [ready |-> {[id |-> t, position |-> point[t]] : t \in Ready}, resumed |-> to_run]

Decide(to_run) ==
  /\ trace' = IF error THEN trace ELSE Append(trace, Decision(to_run))
  /\ ResumeTasks(to_run)

(* No replay: one of the choices, at random. *)
IterateRandom ==
  /\ Deciding
  /\ ~replay.on
  /\ \E to_run \in Choices(deps, Running, Ready) : Decide(to_run)
  /\ UNCHANGED <<taskVars, point, deps, replayVars, loop_waiting, pc, reached>>

(* AttachedReplayTrace::get_resumed_tasks answers Ok: the step exists and  *)
(* the same tasks are ready at the same points.                            *)
StepMatches ==
  /\ next_step < Len(replay.steps)
  /\ replay.steps[next_step + 1].ready_tasks =
       {[id |-> stable_id'[t], name |-> name[t], position |-> point[t]] : t \in Ready}

ReplayedTasks == replay.steps[next_step + 1].resumed_tasks

(* Mutant: how many tasks to resume is compared, and not which. *)
IsReplayedByCount(to_run) == Cardinality(to_run) = Cardinality(ReplayedTasks)

IsReplayed(to_run) == {stable_id'[t] : t \in to_run} = ReplayedTasks

(* Looking at this choice, expect("ready task has stable id") panics: it   *)
(* has the right size and a task that never was ready at a decision.       *)
HasNoStableId(to_run) ==
  /\ Cardinality(to_run) = Cardinality(ReplayedTasks)
  /\ \E t \in to_run : stable_id'[t] = 0

IterateReplay ==
  /\ Deciding
  /\ replay.on
  /\ StepMatches
  /\ \E to_run \in Choices(deps, Running, Ready) :
       /\ IsReplayed(to_run)
       /\ Decide(to_run)
  /\ next_step' = next_step + 1
  /\ UNCHANGED <<taskVars, point, deps, replay, error, loop_waiting, pc, reached>>

(* Mutant: the error is set but the tasks are not notified. *)
IterateDivergedSilently ==
  /\ Deciding
  /\ replay.on
  /\ StepMatches => \A to_run \in Choices(deps, Running, Ready) :
                       ~IsReplayed(to_run) /\ ~HasNoStableId(to_run)
  /\ error' = TRUE
  /\ loop_pc' = "dead"
  /\ UNCHANGED <<taskVars, state, point, trace, deps, replay, next_step,
                 task_waiters, loop_waiting, pc, reached>>

(* The execution has diverged from the trace: the error is set for the     *)
(* tasks to panic with, they are notified, and the loop panics.            *)
IterateDiverged ==
  /\ Deciding
  /\ replay.on
  /\ StepMatches => \A to_run \in Choices(deps, Running, Ready) :
                       ~IsReplayed(to_run) /\ ~HasNoStableId(to_run)
  /\ error' = TRUE
  /\ task_waiters' = {}
  /\ loop_pc' = "dead"
  /\ UNCHANGED <<taskVars, state, point, trace, deps, replay, next_step,
                 loop_waiting, pc, reached>>

(* The choices come in any order, so this can happen even when one matches.*)
IterateNoStableId ==
  /\ Deciding
  /\ replay.on
  /\ StepMatches
  /\ \E to_run \in Choices(deps, Running, Ready) : HasNoStableId(to_run)
  /\ loop_pc' = "dead"
  /\ UNCHANGED <<taskVars, state, point, trace, deps, replayVars,
                 task_waiters, loop_waiting, pc, reached>>

ControlLoopIteration ==
  \/ IterateIdle
  \/ IterateAutoResume
  \/ IterateRandom
  \/ IterateReplay
  \/ IterateDiverged
  \/ IterateNoStableId

-----------------------------------------------------------------------------
Program ==
  \/ \E t \in TaskIds, n \in Names : RegisterTask(t, n)
  \/ \E a \in Actors, d \in Answers : SyncEvent(a, d)
  \/ \E t \in TaskIds, d \in Answers : BadSyncEvent(t, d)
  \/ \E t \in TaskIds, p \in Points : ReachPoint(t, p)
  \/ \E t \in TaskIds, p \in Points, d \in Answers : ReachPointWithEvent(t, p, d)
  \/ \E t \in TaskIds : AbandonPoint(t) \/ TaskFinished(t)

Waiting ==
  \/ \E a \in Actors : NotifyLoop(a)
  \/ \E t \in TaskIds : EnableWait(t) \/ CheckWait(t) \/ Wake(t)

ControlLoop == EnableLoop \/ ControlLoopIteration \/ WakeLoop

Next == Program \/ Waiting \/ ControlLoop

Spec == Init /\ [][Next]_vars

(* tokio polls what is woken and a panic unwinds to the guard of its task, *)
(* so the library's own steps are taken.  The program owes none of its.    *)
Fairness ==
  /\ WF_vars(ControlLoop)
  /\ \A a \in Actors : WF_vars(NotifyLoop(a))
  /\ \A t \in TaskIds :
       /\ WF_vars(EnableWait(t) \/ CheckWait(t) \/ Wake(t))
       /\ WF_vars(pc[t] = "panicked" /\ TaskFinished(t))

FairSpec == Spec /\ Fairness
-----------------------------------------------------------------------------
Decisions == [ready : SUBSET [id : TaskIds, position : Points], resumed : SUBSET TaskIds]

Places == {"none", "user", "notify", "suspended", "enable", "check", "parked",
           "panicked", "finished", "gone"}

TypeOK ==
  /\ next_task_id \in 1..(Cardinality(TaskIds) + 1)
  /\ next_stable_task_id \in Nat
  /\ name \in [TaskIds -> Names \cup {0}]
  /\ stable_id \in [TaskIds -> Nat]
  /\ state \in [TaskIds -> {"none", "Running", "Ready", "Finished"}]
  /\ point \in [TaskIds -> Points \cup {"none"}]
  /\ trace \in Seq(Decisions)
  /\ deps \in [TaskIds -> Deps]
  /\ replay \in Replays
  /\ next_step \in Nat
  /\ error \in BOOLEAN
  /\ task_waiters \subseteq TaskIds
  /\ loop_waiting \in BOOLEAN
  /\ pc \in [Actors -> Places]
  /\ loop_pc \in {"enable", "iterate", "await", "dead"}
  /\ reached \in [TaskIds -> Nat]

(* The control loop panicked in resume_tasks or on a missing stable id:    *)
(* nobody was told.                                                        *)
Crashed == loop_pc = "dead" /\ ~error

(* An actor that still has to notify the loop of what it did.  *)
NotifyPending == \E a \in Actors : pc[a] \in {"notify", "suspended", "finished", "panicked"}

(* The control loop never sleeps through work: while its Notified has not  *)
(* fired there is nothing to resume, or somebody is about to fire it.  It  *)
(* needs that Notified is enabled before the tasks are looked at, that one *)
(* iteration leaves nothing to do (a second one is not run), and that the  *)
(* one change that does not notify, register_task, never makes work.       *)
NoLostControlWakeup ==
  loop_pc = "await" /\ loop_waiting =>
    NothingToDo(deps, Running, Ready) \/ NotifyPending

(* A task that sleeps in a suspension point was not resumed and has no     *)
(* error to report: the state it looked at did not change between its look *)
(* and its sleep without its Notified firing.                              *)
NoLostTaskWakeup ==
  \A t \in TaskIds :
    pc[t] = "parked" /\ t \in task_waiters /\ ~Crashed => state[t] = "Ready" /\ ~error

(* Stable ids name tasks: they are 1, 2, ... without gaps, and no two      *)
(* tasks share one.                                                        *)
StableIdsName ==
  /\ {stable_id[t] : t \in TaskIds} \ {0} = 1..(next_stable_task_id - 1)
  /\ \A t, u \in TaskIds : stable_id[t] = stable_id[u] => t = u \/ stable_id[t] = 0

(* Every decision in the trace can be turned into a step of a replay: the  *)
(* tasks that were ready have a stable id, and those resumed are among     *)
(* them, but for the decision that crashed the loop (get_replay and        *)
(* step_from_item expect all of it).                                       *)
TraceReplayable ==
  \A i \in DOMAIN trace :
    /\ \A r \in trace[i].ready : stable_id[r.id] # 0
    /\ \/ trace[i].resumed \subseteq {r.id : r \in trace[i].ready}
       \/ Crashed /\ i = Len(trace)

(* A replay is followed to the letter or not at all: as get_trace shows    *)
(* them, the decisions made so far are the first steps of the replay, with *)
(* the same tasks ready under the same ids and names at the same points.   *)
(* Ids and names are looked up when the trace is read, so they must not    *)
(* have changed since.                                                     *)
ReplayFollowed ==
  replay.on =>
    /\ Len(trace) = next_step /\ next_step <= Len(replay.steps)
    /\ \A i \in DOMAIN trace :
         /\ replay.steps[i].ready_tasks =
              {[id |-> stable_id[r.id], name |-> name[r.id], position |-> r.position] :
                 r \in trace[i].ready}
         /\ replay.steps[i].resumed_tasks = {stable_id[t] : t \in trace[i].resumed}

AtPoint == {"suspended", "enable", "check", "parked"}

(* A task that the loop has resumed leaves its suspension point.  *)
ResumedTaskRuns ==
  \A t \in TaskIds :
    (state[t] = "Running" /\ pc[t] \in AtPoint) ~> (pc[t] \notin AtPoint \/ Crashed)

(* After a divergence no task stays in its suspension point.  *)
ErrorReleasesTasks ==
  \A t \in TaskIds : (error /\ pc[t] \in AtPoint) ~> (pc[t] \notin AtPoint)

(* The threads together keep the scheduler's promise: every step is a step *)
(* of the contract, and what is due is resumed.                            *)
Contract ==
  INSTANCE SchedulerContract WITH replaying <- replay.on, dead <- (loop_pc = "dead")
ImplementsContract == Contract!Spec
=============================================================================
