---------------------------- MODULE BarrierModel ----------------------------
(***************************************************************************)
(* The model of start barriers (src/src/sync/start_barrier.rs).            *)
(***************************************************************************)
EXTENDS SyncModel, Naturals, FiniteSets

CONSTANT BarrierIds

VARIABLES
  task_waiting,  \* the barrier each task waits for, or None
  barriers       \* BarrierState of each barrier, or NoBarrier

vars == <<task_waiting, barriers>>

(* A barrier exists if it is in the map; its capacity may be 0.            *)
BarrierState(capacity, reached, tasks) ==
  [exists |-> TRUE, capacity |-> capacity, reached |-> reached, tasks |-> tasks]
NoBarrier == [exists |-> FALSE, capacity |-> 0, reached |-> FALSE, tasks |-> {}]
Exists(b) == barriers[b].exists

Init ==
  /\ task_waiting = [t \in TaskIds |-> None]
  /\ barriers = [b \in BarrierIds |-> NoBarrier]

Answer(t) ==
  LET b == task_waiting[t] IN
  IF b = None THEN ReadyAlone
  ELSE IF ~Exists(b) THEN ReadyAlone
  ELSE IF barriers[b].reached THEN ReadyWithOthers(barriers[b].tasks)
  ELSE Blocked

(* An init event.  The id is the address of the new barrier, where a task  *)
(* may be recorded that ended while it waited at an earlier one.           *)
NewBarrier(b, capacity) ==
  /\ barriers' = [barriers EXCEPT ![b] = BarrierState(capacity, FALSE, {})]
  /\ UNCHANGED task_waiting

(* Mutant: reached is computed anew for every task that arrives. *)
WaitingForBarrierRecount(t, b) ==
  /\ Exists(b)
  /\ task_waiting[t] = None
  /\ task_waiting' = [task_waiting EXCEPT ![t] = b]
  /\ LET tasks == barriers[b].tasks \cup {t}
         full == Cardinality(tasks) >= barriers[b].capacity
     IN barriers' = [barriers EXCEPT ![b] = BarrierState(@.capacity, full, tasks)]

WaitingForBarrier(t, b) ==
  /\ Exists(b)
  /\ task_waiting[t] = None
  /\ task_waiting' = [task_waiting EXCEPT ![t] = b]
  /\ LET tasks == barriers[b].tasks \cup {t}
         full == Cardinality(tasks) >= barriers[b].capacity
     IN barriers' = [barriers EXCEPT ![b] = BarrierState(@.capacity, @.reached \/ full, tasks)]

(* A task that waits already is moved to this barrier before it is told. *)
BadWaitingForBarrier(t, b) ==
  /\ IF Exists(b)
     THEN task_waiting[t] # None /\ task_waiting' = [task_waiting EXCEPT ![t] = b]
     ELSE UNCHANGED task_waiting
  /\ UNCHANGED barriers

(* Mutant: the barrier goes with the first of its tasks. *)
LeaveAndRemove(t, b) ==
  /\ Exists(b)
  /\ barriers' = [barriers EXCEPT ![b] = NoBarrier]
  /\ task_waiting' = [task_waiting EXCEPT ![t] = None]

(* Mutant: the task stays in the barrier. *)
LeaveAndStay(t, b) ==
  /\ Exists(b)
  /\ task_waiting' = [task_waiting EXCEPT ![t] = None]
  /\ UNCHANGED barriers

(* The barrier goes with the last of its tasks, reached or not. *)
Leave(t, b) ==
  /\ Exists(b)
  /\ LET left == barriers[b].tasks \ {t} IN
       barriers' = IF left = {} THEN [barriers EXCEPT ![b] = NoBarrier]
                   ELSE [barriers EXCEPT ![b].tasks = left]
  /\ task_waiting' = [task_waiting EXCEPT ![t] = None]

AbortedWaitingForBarrier(t, b) == Leave(t, b)

CompletedBarrierWait(t, b) == Leave(t, b)

BadLeave(b) == ~Exists(b) /\ UNCHANGED vars

Events == {"WaitingForBarrier", "AbortedWaitingForBarrier", "CompletedBarrierWait"}

Accept(t, e) ==
  \/ e.event = "WaitingForBarrier" /\ WaitingForBarrier(t, e.id)
  \/ e.event = "AbortedWaitingForBarrier" /\ AbortedWaitingForBarrier(t, e.id)
  \/ e.event = "CompletedBarrierWait" /\ CompletedBarrierWait(t, e.id)

Reject(t, e) ==
  \/ e.event = "WaitingForBarrier" /\ BadWaitingForBarrier(t, e.id)
  \/ e.event \in {"AbortedWaitingForBarrier", "CompletedBarrierWait"} /\ BadLeave(e.id)

TypeOK ==
  /\ task_waiting \in [TaskIds -> BarrierIds \cup {None}]
  /\ barriers \in [BarrierIds ->
                     [exists : BOOLEAN, capacity : Nat,
                      reached : BOOLEAN, tasks : SUBSET TaskIds]]

MadeAnew(b) == barriers'[b] = BarrierState(barriers'[b].capacity, FALSE, {})

KeepsOpen ==
  \A t \in TaskIds :
    task_waiting[t] # None /\ ~Answer(t).blocked /\ task_waiting'[t] = task_waiting[t]
      => MadeAnew(task_waiting[t]) \/ ~Answer(t)'.blocked

(* Once a barrier has let a task through, nothing the other tasks do takes *)
(* it back: the task is not blocked again before it leaves the barrier,    *)
(* unless another barrier is made at that address.                         *)
StaysOpen == [][KeepsOpen]_vars
=============================================================================
