---------------------------- MODULE TaskWaitModel ----------------------------
(***************************************************************************)
(* The model of waits for tasks of a group (src/src/sync/task_wait.rs).    *)
(* It accepts every event; one for a group it does not know is ignored.    *)
(***************************************************************************)
EXTENDS TaskProgress, Naturals, FiniteSets

CONSTANTS TaskGroups, Slots

VARIABLES
  task_groups,  \* TaskGroupState of each group; registered if in the map
  task_waits    \* TaskWaitCondition of each task, or NoWait

vars == <<task_groups, task_waits>>

EmptyGroup(registered) ==
  [registered |-> registered, completed |-> {}, spawned |-> {}, started |-> {}]

NoWait == [kind |-> "none"]
AnyN(g, n) == [kind |-> "AnyN", task_group |-> g, num_tasks |-> n]
Specific(g, s) == [kind |-> "Specific", task_group |-> g, slot |-> s]

Init ==
  /\ task_groups = [g \in TaskGroups |-> EmptyGroup(FALSE)]
  /\ task_waits = [t \in TaskIds |-> NoWait]

(* While a spawned task has not started, AnyN does not block: the task's   *)
(* first poll is about to come without the scheduler's help.               *)
MayProceed(wait) ==
  LET group == task_groups[wait.task_group] IN
  /\ group.registered
  /\ CASE wait.kind = "AnyN" -> \/ ~(group.spawned \subseteq group.started)
                                \/ Cardinality(group.completed) >= wait.num_tasks
       [] wait.kind = "Specific" -> wait.slot \in group.completed

Answer(t) ==
  IF task_waits[t] = NoWait THEN ReadyAlone
  ELSE IF MayProceed(task_waits[t]) THEN ReadyAlone
  ELSE Blocked

(* Also an init event. *)
NewTaskGroup(g) ==
  /\ task_groups' = [task_groups EXCEPT ![g] = EmptyGroup(TRUE)]
  /\ UNCHANGED task_waits

FreeTaskGroup(g) ==
  /\ task_groups' = [task_groups EXCEPT ![g] = EmptyGroup(FALSE)]
  /\ UNCHANGED task_waits

TaskSpawned(g, s) ==
  /\ task_groups' = IF task_groups[g].registered
                    THEN [task_groups EXCEPT ![g].spawned = @ \cup {s}] ELSE task_groups
  /\ UNCHANGED task_waits

TaskStarted(g, s) ==
  /\ task_groups' = IF task_groups[g].registered
                    THEN [task_groups EXCEPT ![g].started = @ \cup {s}] ELSE task_groups
  /\ UNCHANGED task_waits

(* Mutant: only the last completion is kept. *)
TaskCompletedLast(g, s) ==
  /\ task_groups' = IF task_groups[g].registered
                    THEN [task_groups EXCEPT ![g].completed = {s}] ELSE task_groups
  /\ UNCHANGED task_waits

TaskCompleted(g, s) ==
  /\ task_groups' = IF task_groups[g].registered
                    THEN [task_groups EXCEPT ![g].completed = @ \cup {s}] ELSE task_groups
  /\ UNCHANGED task_waits

WaitFor(t, wait) ==
  /\ task_waits' = [task_waits EXCEPT ![t] = wait]
  /\ UNCHANGED task_groups

TaskWaitAnyN(t, g, n) == WaitFor(t, AnyN(g, n))

TaskWaitNth(t, g, s) == WaitFor(t, Specific(g, s))

TaskWaitCompleted(t) == WaitFor(t, NoWait)

Events == {"NewTaskGroup", "FreeTaskGroup", "TaskSpawned", "TaskStarted",
           "TaskCompleted", "TaskWaitAnyN", "TaskWaitNth", "TaskWaitCompleted"}

Accept(t, e) ==
  \/ e.event = "NewTaskGroup" /\ NewTaskGroup(e.id)
  \/ e.event = "FreeTaskGroup" /\ FreeTaskGroup(e.id)
  \/ e.event = "TaskSpawned" /\ TaskSpawned(e.id, e.arg)
  \/ e.event = "TaskStarted" /\ TaskStarted(e.id, e.arg)
  \/ e.event = "TaskCompleted" /\ TaskCompleted(e.id, e.arg)
  \/ e.event = "TaskWaitAnyN" /\ TaskWaitAnyN(t, e.id, e.arg)
  \/ e.event = "TaskWaitNth" /\ TaskWaitNth(t, e.id, e.arg)
  \/ e.event = "TaskWaitCompleted" /\ TaskWaitCompleted(t)

TypeOK ==
  /\ task_groups \in [TaskGroups ->
                        [registered : BOOLEAN, completed : SUBSET Slots,
                         spawned : SUBSET Slots, started : SUBSET Slots]]
  /\ task_waits \in [TaskIds ->
                       {NoWait}
                         \cup [kind : {"AnyN"}, task_group : TaskGroups, num_tasks : Nat]
                         \cup [kind : {"Specific"}, task_group : TaskGroups, slot : Slots]]

(* What the completed tasks of the group satisfy for good. *)
Met(wait) ==
  /\ wait # NoWait
  /\ task_groups[wait.task_group].registered
  /\ LET completed == task_groups[wait.task_group].completed IN
     CASE wait.kind = "AnyN" -> Cardinality(completed) >= wait.num_tasks
       [] wait.kind = "Specific" -> wait.slot \in completed

Renewed(g) == task_groups'[g] \in {EmptyGroup(TRUE), EmptyGroup(FALSE)}

KeepsMet ==
  \A t \in TaskIds :
    Met(task_waits[t]) /\ task_waits'[t] = task_waits[t]
      => Renewed(task_waits[t].task_group) \/ ~Answer(t)'.blocked

(* A wait that is met stays met: whatever other tasks report, a task whose *)
(* condition the completed tasks satisfy is not blocked again, unless its  *)
(* group is freed or created anew.                                         *)
StaysMet == [][KeepsMet]_vars
=============================================================================
