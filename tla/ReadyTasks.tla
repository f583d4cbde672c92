----------------------------- MODULE ReadyTasks -----------------------------
(***************************************************************************)
(* The pure part of the scheduler (src/src/scheduler/get_ready_tasks.rs):  *)
(* from the running tasks, the ready tasks and the registry's answers,     *)
(* which tasks are resumed at once and which choices are open.             *)
(*                                                                         *)
(* d is the function that maps every task id to the registry's answer.     *)
(***************************************************************************)
EXTENDS TaskProgress

(* The tasks that d lets t wait for; the walk does not go past a blocked one. *)
Needs(d, t) == IF d[t].blocked THEN {} ELSE d[t].need

ClosedUnder(d, S) == \A u \in S : Needs(d, u) \subseteq S

(* Mutant: only what t needs itself. *)
DirectReach(d, t) == {t} \cup Needs(d, t)

(* Every task reached from t by need_to_run: the set task_transitive_deps  *)
(* returns, defined without its loop (module TransitiveDeps has the loop,  *)
(* and its proof shows that the loop ends with this set).                  *)
Reach(d, t) ==
  {u \in TaskIds : \A S \in SUBSET TaskIds : t \in S /\ ClosedUnder(d, S) => u \in S}

Unblocked(d, tasks) == {t \in tasks : ~d[t].blocked}

(* Mutant: a running task that needs no other is overlooked. *)
HasNeedy(d, running) == \E t \in running : d[t].need # {}

(* has_ready and need_to_run, from the first loop of                       *)
(* get_eligible_scheduler_choices.                                         *)
HasReady(d, running) == Unblocked(d, running) # {}

NeedToRun(d, running) ==
  (UNION {Reach(d, t) : t \in Unblocked(d, running)}) \ running

(* The to_run sets of the choices, from its second loop.  Equal sets are   *)
(* offered once; which of their tasks is called chosen is only printed.    *)
Choices(d, running, ready) ==
  {Reach(d, t) \ running : t \in Unblocked(d, ready)}

(* The loop has nothing to resume: NoChoice of no task, or no Choices. *)
NothingToDo(d, running, ready) ==
  IF HasReady(d, running)
  THEN NeedToRun(d, running) = {}
  ELSE Choices(d, running, ready) = {}
=============================================================================
