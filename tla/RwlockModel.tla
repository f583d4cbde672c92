---------------------------- MODULE RwlockModel ----------------------------
(***************************************************************************)
(* The model of reader-writer locks (src/src/sync/rwlock.rs).  A waiter    *)
(* for a held lock is answered Ready with the holders, where the mutex     *)
(* model answers Blocked.                                                  *)
(***************************************************************************)
EXTENDS TaskProgress

CONSTANTS RwlockIds

VARIABLES
  held_by,  \* HeldRwlock of each lock, or Unheld
  waiting   \* the (lock, mode) pairs each task waits for

vars == <<held_by, waiting>>

Modes == {"Read", "Write"}
Unheld == [mode |-> "None", tasks |-> {}]
HeldAs(mode, tasks) == [mode |-> mode, tasks |-> tasks]

Init ==
  /\ held_by = [l \in RwlockIds |-> Unheld]
  /\ waiting = [t \in TaskIds |-> {}]

(* Readers do not wait for readers. *)
Holders(l, mode) ==
  IF mode = "Read" /\ held_by[l].mode = "Read" THEN {} ELSE held_by[l].tasks

Answer(t) == ReadyWithOthers(UNION {Holders(w[1], w[2]) : w \in waiting[t]})

LockingRwlock(t, l, mode) ==
  /\ waiting' = [waiting EXCEPT ![t] = @ \cup {<<l, mode>>}]
  /\ UNCHANGED held_by

NoLongerWaits(t, l, mode) ==
  /\ <<l, mode>> \in waiting[t]
  /\ waiting' = [waiting EXCEPT ![t] = @ \ {<<l, mode>>}]

DoesNotWait(t, l, mode) == <<l, mode>> \notin waiting[t] /\ UNCHANGED vars

AbortedLockingRwlock(t, l, mode) == NoLongerWaits(t, l, mode) /\ UNCHANGED held_by

LockedRead(t, l) ==
  /\ NoLongerWaits(t, l, "Read")
  /\ held_by[l].mode # "Write"
  /\ held_by' = [held_by EXCEPT ![l] = HeldAs("Read", @.tasks \cup {t})]

(* A writer replaces whatever was recorded. *)
LockedWrite(t, l) ==
  /\ NoLongerWaits(t, l, "Write")
  /\ held_by' = [held_by EXCEPT ![l] = HeldAs("Write", {t})]

(* By the time a read lock is found write-locked, t waits no more. *)
BadLockedRead(t, l) ==
  /\ NoLongerWaits(t, l, "Read")
  /\ held_by[l].mode = "Write"
  /\ UNCHANGED held_by

(* Mutant: the entry stays without a reader. *)
ReleasedReadKeepsEntry(t, l) ==
  /\ held_by[l].mode = "Read"
  /\ held_by' = [held_by EXCEPT ![l].tasks = @ \ {t}]
  /\ UNCHANGED waiting

(* A reader that is not recorded is not an error, and the last reader      *)
(* removes the entry.                                                      *)
ReleasedRead(t, l) ==
  /\ held_by[l].mode = "Read"
  /\ LET left == held_by[l].tasks \ {t} IN
       held_by' = [held_by EXCEPT ![l] = IF left = {} THEN Unheld ELSE HeldAs("Read", left)]
  /\ UNCHANGED waiting

BadReleasedRead(t, l) == held_by[l].mode # "Read" /\ UNCHANGED vars

(* Mutant: the writer stays recorded. *)
ReleasedWriteIgnored(t, l) == UNCHANGED vars

(* Not compared with the sender. *)
ReleasedWrite(t, l) ==
  /\ held_by' = [held_by EXCEPT ![l] = Unheld]
  /\ UNCHANGED waiting

Events == {"LockingRwlock", "AbortedLockingRwlock", "LockedRwlock", "ReleasedRwlock"}

Accept(t, e) ==
  \/ e.event = "LockingRwlock" /\ LockingRwlock(t, e.id, e.arg)
  \/ e.event = "AbortedLockingRwlock" /\ AbortedLockingRwlock(t, e.id, e.arg)
  \/ e.event = "LockedRwlock" /\ e.arg = "Read" /\ LockedRead(t, e.id)
  \/ e.event = "LockedRwlock" /\ e.arg = "Write" /\ LockedWrite(t, e.id)
  \/ e.event = "ReleasedRwlock" /\ e.arg = "Read" /\ ReleasedRead(t, e.id)
  \/ e.event = "ReleasedRwlock" /\ e.arg = "Write" /\ ReleasedWrite(t, e.id)

Reject(t, e) ==
  \/ e.event \in {"AbortedLockingRwlock", "LockedRwlock"} /\ DoesNotWait(t, e.id, e.arg)
  \/ e.event = "LockedRwlock" /\ e.arg = "Read" /\ BadLockedRead(t, e.id)
  \/ e.event = "ReleasedRwlock" /\ e.arg = "Read" /\ BadReleasedRead(t, e.id)

(* Types; a held lock has a holder.  *)
TypeOK ==
  /\ held_by \in [RwlockIds -> {HeldAs(m, s) : m \in Modes, s \in (SUBSET TaskIds) \ {{}}}
                              \cup {Unheld}]
  /\ waiting \in [TaskIds -> SUBSET (RwlockIds \X Modes)]
=============================================================================
