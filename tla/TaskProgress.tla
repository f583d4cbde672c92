---------------------------- MODULE TaskProgress ----------------------------
(***************************************************************************)
(* What a synchronization model answers when the scheduler asks whether a  *)
(* task can make progress (TaskProgressDependencies in src/src/sync/mod.rs)*)
(* and how the registry combines the answers of all models.  The text of a *)
(* blocked reason is only displayed and is left out.                       *)
(***************************************************************************)

CONSTANT TaskIds  \* the ids the scheduler may hand out

(* Ready { need_to_run }: the task can run if the tasks of need run too. *)
ReadyWithOthers(need) == [blocked |-> FALSE, need |-> need]

(* Ready with nothing else needed. *)
ReadyAlone == ReadyWithOthers({})

(* Blocked { reason }: the task will not reach its next point yet. *)
Blocked == [blocked |-> TRUE, need |-> {}]

Deps == {ReadyWithOthers(need) : need \in SUBSET TaskIds} \cup {Blocked}

(* TaskProgressDependencies::merge: one blocked answer blocks the task,    *)
(* ready answers add up what they need.                                    *)
Merge(a, b) ==
  IF a.blocked \/ b.blocked THEN Blocked ELSE ReadyWithOthers(a.need \cup b.need)

(* SyncModelRegistry::task_progress_dependencies: the answers of all the   *)
(* models reduced with merge.  The registry is a hash map, so the order is *)
(* arbitrary; theorem MergeAllStep (ReadyTasksProofs) is why the order      *)
(* does not matter and a set of answers is enough.                         *)
MergeAll(answers) ==
  IF \E a \in answers : a.blocked
  THEN Blocked
  ELSE ReadyWithOthers(UNION {a.need : a \in answers})
=============================================================================
