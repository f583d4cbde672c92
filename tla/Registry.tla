------------------------------ MODULE Registry ------------------------------
(***************************************************************************)
(* The registry of synchronization models (SyncModelRegistry in            *)
(* src/src/sync/mod.rs): it gives each event to the model of its type, and *)
(* merges what the models answer for a task.  A model that got no event    *)
(* yet is not in the registry; here it is there and answers ReadyAlone,    *)
(* which changes no merged answer.                                         *)
(***************************************************************************)
EXTENDS SyncModel, Naturals, FiniteSets

CONSTANTS
  MutexIds, RwlockIds, BarrierIds, WatchIds, TaskGroups,  \* what events are about
  Slots  \* indexes of tasks in a group

ASSUME SlotsAssumption == IsFiniteSet(Slots)

VARIABLES
  mutex_held_by, mutex_waiting,
  rwlock_held_by, rwlock_waiting,
  barrier_waiting, barriers,
  is_in_join,
  blocked_tasks,
  watch_tasks, watch_waiters,
  task_groups, task_waits

mutexVars == <<mutex_held_by, mutex_waiting>>
rwlockVars == <<rwlock_held_by, rwlock_waiting>>
barrierVars == <<barrier_waiting, barriers>>
watchVars == <<watch_tasks, watch_waiters>>
taskWaitVars == <<task_groups, task_waits>>
registryVars == <<mutexVars, rwlockVars, barrierVars, is_in_join, blocked_tasks,
                  watchVars, taskWaitVars>>

Mutex == INSTANCE MutexModel WITH held_by <- mutex_held_by, waiting <- mutex_waiting
Rwlock == INSTANCE RwlockModel WITH held_by <- rwlock_held_by, waiting <- rwlock_waiting
Barrier == INSTANCE BarrierModel WITH task_waiting <- barrier_waiting
Join == INSTANCE JoinModel
Unknown == INSTANCE UnknownWaitModel
Watch == INSTANCE WatchModel WITH tasks <- watch_tasks, waiters <- watch_waiters
TaskWait == INSTANCE TaskWaitModel

RegistryInit ==
  /\ Mutex!Init
  /\ Rwlock!Init
  /\ Barrier!Init
  /\ Join!Init
  /\ Unknown!Init
  /\ Watch!Init
  /\ TaskWait!Init

(* on_notified answers Ok: the model of the event accepts it.  *)
Accept(t, e) ==
  /\ IF e.event \in Mutex!Events THEN Mutex!Accept(t, e) ELSE UNCHANGED mutexVars
  /\ IF e.event \in Rwlock!Events THEN Rwlock!Accept(t, e) ELSE UNCHANGED rwlockVars
  /\ IF e.event \in Barrier!Events THEN Barrier!Accept(t, e) ELSE UNCHANGED barrierVars
  /\ IF e.event \in Join!Events THEN Join!Accept(t, e) ELSE UNCHANGED is_in_join
  /\ IF e.event \in Unknown!Events THEN Unknown!Accept(t, e) ELSE UNCHANGED blocked_tasks
  /\ IF e.event \in Watch!Events THEN Watch!Accept(t, e) ELSE UNCHANGED watchVars
  /\ IF e.event \in TaskWait!Events THEN TaskWait!Accept(t, e) ELSE UNCHANGED taskWaitVars

(* on_notified answers Err(BadSync).  *)
Reject(t, e) ==
  /\ e.event \in Mutex!Events \cup Rwlock!Events \cup Barrier!Events \cup Join!Events
  /\ IF e.event \in Mutex!Events THEN Mutex!Reject(t, e) ELSE UNCHANGED mutexVars
  /\ IF e.event \in Rwlock!Events THEN Rwlock!Reject(t, e) ELSE UNCHANGED rwlockVars
  /\ IF e.event \in Barrier!Events THEN Barrier!Reject(t, e) ELSE UNCHANGED barrierVars
  /\ IF e.event \in Join!Events THEN Join!Reject(t, e) ELSE UNCHANGED is_in_join
  /\ UNCHANGED <<blocked_tasks, watchVars, taskWaitVars>>

(* on_init_event, which no model answers with an Err. *)
AcceptInit(e) ==
  /\ IF e.event = "NewBarrier"
     THEN Barrier!NewBarrier(e.id, e.arg) ELSE UNCHANGED barrierVars
  /\ IF e.event = "NewTaskGroup"
     THEN TaskWait!NewTaskGroup(e.id) ELSE UNCHANGED taskWaitVars
  /\ UNCHANGED <<mutexVars, rwlockVars, is_in_join, blocked_tasks, watchVars>>

(* task_progress_dependencies. *)
TaskProgressDependencies(t) ==
  MergeAll({Mutex!Answer(t), Rwlock!Answer(t), Barrier!Answer(t), Join!Answer(t),
            Unknown!Answer(t), Watch!Answer(t), TaskWait!Answer(t)})

(* The events of a client are about ids that exist, locks have modes,      *)
(* capacities of barriers and numbers of tasks are numbers.                *)
Addressed(e) ==
  /\ e.event \in Mutex!Events => e.id \in MutexIds
  /\ e.event \in Rwlock!Events => e.id \in RwlockIds /\ e.arg \in Rwlock!Modes
  /\ e.event \in Watch!Events => e.id \in WatchIds
  /\ e.event \in Barrier!Events => e.id \in BarrierIds
  /\ e.event \in TaskWait!Events \ {"TaskWaitCompleted"} => e.id \in TaskGroups
  /\ e.event \in {"TaskSpawned", "TaskStarted", "TaskCompleted", "TaskWaitNth"}
       => e.arg \in Slots
  /\ e.event = "TaskWaitAnyN" => e.arg \in Nat

AddressedInit(e) ==
  /\ e.event = "NewBarrier" => e.id \in BarrierIds /\ e.arg \in Nat
  /\ e.event = "NewTaskGroup" => e.id \in TaskGroups

(* The registry under the given events in any order, of clients that use it *)
(* well or badly.                                                          *)
RegistryNext(events, init_events) ==
  \/ \E t \in TaskIds, e \in events : Accept(t, e) \/ Reject(t, e)
  \/ \E e \in init_events : AcceptInit(e)

-----------------------------------------------------------------------------
RegistryTypeOK ==
  /\ Mutex!TypeOK
  /\ Rwlock!TypeOK
  /\ Barrier!TypeOK
  /\ Join!TypeOK
  /\ Unknown!TypeOK
  /\ Watch!TypeOK
  /\ TaskWait!TypeOK
  /\ \A t \in TaskIds : TaskProgressDependencies(t) \in Deps

(* See MutexModel: no task waits for a mutex that it holds.                *)
HolderNeverWaits == Mutex!HolderNeverWaits

(* See WatchModel: a task blocked on a watch is unblocked by its update.   *)
WatchUpdateUnblocks == Watch!BlockedWaiterIsListed

(* See BarrierModel: a barrier that has opened does not close on a task.   *)
BarrierStaysOpen == Barrier!StaysOpen

(* See TaskWaitModel: a wait for tasks that have completed stays met.      *)
GroupWaitStaysMet == TaskWait!StaysMet
=============================================================================
