-------------------------- MODULE UnknownWaitModel --------------------------
(* The model of waits for something that has no model                      *)
(* (src/src/sync/unknown_wait.rs).  It accepts every event.                *)
EXTENDS TaskProgress

VARIABLE blocked_tasks

Init == blocked_tasks = {}

Answer(t) == IF t \in blocked_tasks THEN Blocked ELSE ReadyAlone

(* Mutant: the wait is not recorded. *)
TaskWaitForUnknownIgnored(t) == UNCHANGED blocked_tasks

TaskWaitForUnknownStarted(t) == blocked_tasks' = blocked_tasks \cup {t}

TaskWaitForUnknownCompleted(t) == blocked_tasks' = blocked_tasks \ {t}

Events == {"TaskWaitForUnknownStarted", "TaskWaitForUnknownCompleted"}

Accept(t, e) ==
  \/ e.event = "TaskWaitForUnknownStarted" /\ TaskWaitForUnknownStarted(t)
  \/ e.event = "TaskWaitForUnknownCompleted" /\ TaskWaitForUnknownCompleted(t)

TypeOK == blocked_tasks \subseteq TaskIds
=============================================================================
