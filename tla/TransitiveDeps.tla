--------------------------- MODULE TransitiveDeps ---------------------------
(***************************************************************************)
(* The worklist loop of task_transitive_deps in                            *)
(* src/src/scheduler/get_ready_tasks.rs, one action per turn of the loop.  *)
(* The order in which a hash set is iterated, and so the order of the      *)
(* stack, is arbitrary: the stack is a set and any of its tasks may be     *)
(* popped, which allows every order the code can take.                     *)
(***************************************************************************)
EXTENDS ReadyTasks

VARIABLES
  deps,     \* the registry's answers, fixed while the scheduler holds its lock
  task_id,  \* the argument: the task the walk starts from
  visited,  \* tasks already pushed
  stack,    \* tasks pushed and not yet popped
  result    \* NoResult until the function returns

vars == <<deps, task_id, visited, stack, result>>

NoResult == [blocked |-> FALSE, need |-> {}]  \* no answer has an empty need here

(* The first match of the function: a blocked task is answered at once.    *)
Init ==
  /\ deps \in [TaskIds -> Deps]
  /\ task_id \in TaskIds
  /\ IF deps[task_id].blocked
     THEN /\ visited = {}
          /\ stack = {}
          /\ result = Blocked
     ELSE /\ visited = {task_id}
          /\ stack = {task_id}
          /\ result = NoResult

(* Mutant: the needs of a need are not followed. *)
PushedNone(t) == {}

(* visited.insert(next_task) is true for these needs of t, so they are     *)
(* pushed.                                                                 *)
Pushed(t) == Needs(deps, t) \ visited

(* Mutant: the visited tasks are not remembered. *)
VisitAgain(t) ==
  /\ result = NoResult
  /\ t \in stack
  /\ stack' = (stack \ {t}) \cup Needs(deps, t)
  /\ UNCHANGED <<deps, task_id, visited, result>>

Visit(t) ==
  /\ result = NoResult
  /\ t \in stack
  /\ visited' = visited \cup Needs(deps, t)
  /\ stack' = (stack \ {t}) \cup Pushed(t)
  /\ UNCHANGED <<deps, task_id, result>>

(* The stack is empty: Ready { need_to_run: visited }. *)
Return ==
  /\ result = NoResult
  /\ stack = {}
  /\ result' = ReadyWithOthers(visited)
  /\ UNCHANGED <<deps, task_id, visited, stack>>

Next == Return \/ \E t \in TaskIds : Visit(t)

Spec == Init /\ [][Next]_vars /\ WF_vars(Next)

-----------------------------------------------------------------------------
TypeOK ==
  /\ deps \in [TaskIds -> Deps]
  /\ task_id \in TaskIds
  /\ visited \subseteq TaskIds
  /\ stack \subseteq visited
  /\ result \in Deps

(* What the function returns is exactly the set of tasks reached from its  *)
(* argument: no reached task is missing (a missing one would be left       *)
(* suspended while a task that needs it runs) and no other task is in it   *)
(* (it would be resumed without a decision).                               *)
ResultIsReach ==
  result # NoResult =>
    result = IF deps[task_id].blocked
             THEN Blocked
             ELSE ReadyWithOthers(Reach(deps, task_id))

(* The loop ends, also when the tasks need each other in a cycle (all the  *)
(* waiters of a barrier do).                                               *)
Returns == <>(result # NoResult)
=============================================================================
