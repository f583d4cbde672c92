----------------------------- MODULE WatchModel -----------------------------
(* The model of watch channels (src/src/sync/watch.rs).  It accepts every  *)
(* event.                                                                  *)
EXTENDS SyncModel

CONSTANT WatchIds

VARIABLES
  tasks,   \* the watch each task waits for, or None
  waiters  \* the tasks that have waited for a watch since its last update

vars == <<tasks, waiters>>

Init ==
  /\ tasks = [t \in TaskIds |-> None]
  /\ waiters = [w \in WatchIds |-> {}]

Answer(t) == IF tasks[t] # None THEN Blocked ELSE ReadyAlone

(* A task that waits for another watch stays among the waiters of that. *)
WaitingForWatchUpdate(t, w) ==
  /\ tasks' = [tasks EXCEPT ![t] = w]
  /\ waiters' = [waiters EXCEPT ![w] = @ \cup {t}]

(* Mutant: one waiter is unblocked and all are forgotten. *)
WatchNotifiedOne(w) ==
  /\ IF waiters[w] = {} THEN UNCHANGED tasks
     ELSE \E t \in waiters[w] : tasks' = [tasks EXCEPT ![t] = None]
  /\ waiters' = [waiters EXCEPT ![w] = {}]

(* Any task may send this; all the waiters are unblocked, whatever they    *)
(* wait for now.                                                           *)
WatchNotified(w) ==
  /\ tasks' = [t \in TaskIds |-> IF t \in waiters[w] THEN None ELSE tasks[t]]
  /\ waiters' = [waiters EXCEPT ![w] = {}]

Events == {"WaitingForWatchUpdate", "WatchNotified"}

Accept(t, e) ==
  \/ e.event = "WaitingForWatchUpdate" /\ WaitingForWatchUpdate(t, e.id)
  \/ e.event = "WatchNotified" /\ WatchNotified(e.id)

TypeOK ==
  /\ tasks \in [TaskIds -> WatchIds \cup {None}]
  /\ waiters \in [WatchIds -> SUBSET TaskIds]

(* The two maps agree where it matters: a task that is blocked on a watch  *)
(* is among those its next update unblocks.                                *)
BlockedWaiterIsListed == \A t \in TaskIds : tasks[t] # None => t \in waiters[tasks[t]]
=============================================================================
