-------------------------- MODULE SchedulerContract --------------------------
(***************************************************************************)
(* What the scheduler promises to the program, without its threads, locks  *)
(* and notifications: at every moment the program may change what its      *)
(* tasks wait for, and whenever the rules of src/src/scheduler/            *)
(* get_ready_tasks.rs say that suspended tasks have to run, they are       *)
(* resumed together, in one step, sooner or later.                         *)
(***************************************************************************)
EXTENDS ReadyTasks

VARIABLES
  state,      \* of every task
  deps,       \* what the synchronization models answer
  replaying,  \* whether the run follows a recorded trace
  dead        \* whether the control loop has panicked

vars == <<state, deps, replaying, dead>>

Running == {t \in TaskIds : state[t] = "Running"}
Ready == {t \in TaskIds : state[t] = "Ready"}

Init ==
  /\ state = [t \in TaskIds |-> "none"]
  /\ deps = [t \in TaskIds |-> ReadyAlone]
  /\ replaying \in BOOLEAN
  /\ dead = FALSE

(* Equations, since other modules put expressions for these two. *)
SameMode == replaying' = replaying
SameDeps == deps' = deps /\ SameMode

(* The program's steps: a task starts, stops at a suspension point, ends,  *)
(* and an event changes what the models answer.                            *)
Start(t) ==
  /\ state[t] = "none"
  /\ state' = [state EXCEPT ![t] = "Running"]
  /\ SameDeps
  /\ UNCHANGED dead

Suspend(t) ==
  /\ state[t] = "Running"
  /\ state' = [state EXCEPT ![t] = "Ready"]
  /\ deps' \in [TaskIds -> Deps]
  /\ SameMode
  /\ UNCHANGED dead

Finish(t) ==
  /\ state[t] # "none"
  /\ state' = [state EXCEPT ![t] = "Finished"]
  /\ SameDeps
  /\ UNCHANGED dead

ChangeDeps ==
  /\ deps' \in [TaskIds -> Deps]
  /\ SameMode
  /\ UNCHANGED <<state, dead>>

(* The sets of tasks one of which is due to be resumed as a whole.  *)
Due ==
  IF HasReady(deps, Running)
  THEN {NeedToRun(deps, Running)} \ {{}}
  ELSE Choices(deps, Running, Ready)

(* A due set is resumed.  If a task of it cannot be (it has ended), the    *)
(* control loop dies, with part of the set resumed.                        *)
ServeTasks(tasks) ==
  /\ ~dead
  /\ IF tasks \subseteq Ready
     THEN /\ state' = [t \in TaskIds |-> IF t \in tasks THEN "Running" ELSE state[t]]
          /\ UNCHANGED dead
     ELSE /\ \E some \in SUBSET tasks :
               state' = [t \in TaskIds |-> IF t \in some THEN "Running" ELSE state[t]]
          /\ dead' = TRUE
  /\ SameDeps

Serve == \E tasks \in Due : ServeTasks(tasks)

(* Only a decision can disagree with the trace.  *)
Diverge ==
  /\ ~dead
  /\ replaying
  /\ ~HasReady(deps, Running)
  /\ Due # {}
  /\ dead' = TRUE
  /\ SameDeps
  /\ UNCHANGED state

Next ==
  \/ \E t \in TaskIds : Start(t) \/ Suspend(t) \/ Finish(t)
  \/ ChangeDeps
  \/ Serve
  \/ Diverge

Safety == Init /\ [][Next]_vars

Spec == Safety /\ WF_vars(Serve \/ Diverge)
=============================================================================
