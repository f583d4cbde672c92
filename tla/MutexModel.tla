----------------------------- MODULE MutexModel -----------------------------
(***************************************************************************)
(* The model of mutexes (src/src/sync/mutex.rs): who holds which mutex and *)
(* who waits for which, as far as the events of the tasks tell.            *)
(* Each event has an action for Ok and one for Err (Bad...); an Err may    *)
(* have changed the model.                                                 *)
(***************************************************************************)
EXTENDS SyncModel

CONSTANT MutexIds

VARIABLES
  held_by,  \* the holder of each mutex, or None
  waiting   \* the mutexes each task waits for

vars == <<held_by, waiting>>

Init ==
  /\ held_by = [m \in MutexIds |-> None]
  /\ waiting = [t \in TaskIds |-> {}]

(* Mutant: compares the holder with the waiter. *)
AnswerIfHolder(t) == IF \E m \in waiting[t] : held_by[m] = t THEN Blocked ELSE ReadyAlone

(* task_progress_dependencies.  Unlike the rwlock, a held mutex blocks.    *)
Answer(t) ==
  IF \E m \in waiting[t] : held_by[m] # None THEN Blocked ELSE ReadyAlone

(* Mutant: the holder is not refused. *)
LockingMutexAgain(t, m) ==
  /\ m \notin waiting[t]
  /\ waiting' = [waiting EXCEPT ![t] = @ \cup {m}]
  /\ UNCHANGED held_by

LockingMutex(t, m) ==
  /\ held_by[m] # t
  /\ m \notin waiting[t]
  /\ waiting' = [waiting EXCEPT ![t] = @ \cup {m}]
  /\ UNCHANGED held_by

BadLockingMutex(t, m) ==
  /\ held_by[m] = t \/ m \in waiting[t]
  /\ UNCHANGED vars

AbortedLockingMutex(t, m) ==
  /\ m \in waiting[t]
  /\ waiting' = [waiting EXCEPT ![t] = @ \ {m}]
  /\ UNCHANGED held_by

BadAbortedLockingMutex(t, m) ==
  /\ m \notin waiting[t]
  /\ UNCHANGED vars

(* Mutant: the new holder is not recorded. *)
LockedMutexUnrecorded(t, m) ==
  /\ m \in waiting[t]
  /\ waiting' = [waiting EXCEPT ![t] = @ \ {m}]
  /\ UNCHANGED held_by

(* Whoever held the mutex before is forgotten. *)
LockedMutex(t, m) ==
  /\ m \in waiting[t]
  /\ waiting' = [waiting EXCEPT ![t] = @ \ {m}]
  /\ held_by' = [held_by EXCEPT ![m] = t]

BadLockedMutex(t, m) ==
  /\ m \notin waiting[t]
  /\ UNCHANGED vars

Release(m) ==
  /\ held_by' = [held_by EXCEPT ![m] = None]
  /\ UNCHANGED waiting

ReleasedMutex(t, m) == held_by[m] = t /\ Release(m)

(* The holder is removed before it is compared with the sender. *)
BadReleasedMutex(t, m) == held_by[m] # t /\ Release(m)

Events == {"LockingMutex", "AbortedLockingMutex", "LockedMutex", "ReleasedMutex"}

Accept(t, e) ==
  \/ e.event = "LockingMutex" /\ LockingMutex(t, e.id)
  \/ e.event = "AbortedLockingMutex" /\ AbortedLockingMutex(t, e.id)
  \/ e.event = "LockedMutex" /\ LockedMutex(t, e.id)
  \/ e.event = "ReleasedMutex" /\ ReleasedMutex(t, e.id)

Reject(t, e) ==
  \/ e.event = "LockingMutex" /\ BadLockingMutex(t, e.id)
  \/ e.event = "AbortedLockingMutex" /\ BadAbortedLockingMutex(t, e.id)
  \/ e.event = "LockedMutex" /\ BadLockedMutex(t, e.id)
  \/ e.event = "ReleasedMutex" /\ BadReleasedMutex(t, e.id)

-----------------------------------------------------------------------------
TypeOK ==
  /\ held_by \in [MutexIds -> TaskIds \cup {None}]
  /\ waiting \in [TaskIds -> SUBSET MutexIds]

(* Whatever events tasks send, in whatever order, no task is waiting for a *)
(* mutex that it holds: locking it twice is reported as a bad event and    *)
(* never makes the task wait for itself, also after two waiters have both  *)
(* reported the mutex as theirs.                                           *)
HolderNeverWaits == \A m \in MutexIds : \A t \in TaskIds : held_by[m] = t => m \notin waiting[t]
=============================================================================
