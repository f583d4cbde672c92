--------------------------- MODULE SchedulerProofs ---------------------------
(***************************************************************************)
(* Safety of the scheduler for any number of tasks, any programs, any      *)
(* synchronization models and any replay trace: no wakeup is lost, each    *)
(* step is a step of the contract, and a trace can be replayed.            *)
(***************************************************************************)
EXTENDS Scheduler, ReadyTasksProofs, FiniteSetTheorems, FunctionTheorems

(* Nothing is known of a task before it registers.  *)
UnregisteredIsFresh ==
  \A t \in TaskIds \ Registered : pc[t] = "none" /\ deps[t] = ReadyAlone

(* Where a task is in its code and what the scheduler thinks of it.  *)
AtPointIsSuspendedOrResumed ==
  \A t \in TaskIds : pc[t] \in AtPoint => state[t] \in {"Ready", "Running"}

ReadyHasPoint == \A t \in TaskIds : state[t] = "Ready" => point[t] \in Points

(* The loop does not outlive the error it sets.  *)
ErrorStopsLoop == error => loop_pc = "dead"

IInv ==
  /\ TypeOK
  /\ UnregisteredIsFresh
  /\ AtPointIsSuspendedOrResumed
  /\ ReadyHasPoint
  /\ ErrorStopsLoop
  /\ NoLostControlWakeup
  /\ NoLostTaskWakeup

LEMMA TaskIdsType == IsFiniteSet(TaskIds) /\ TaskIds \subseteq Nat /\ Cardinality(TaskIds) \in Nat
                     /\ Root \notin TaskIds
BY TaskIdsAssumption, FS_CardinalityType DEF Root

LEMMA ChoiceType ==
  ASSUME NEW d, NEW R, NEW Q \in SUBSET TaskIds, NEW S \in Choices(d, R, Q)
  PROVE  S \subseteq TaskIds
BY ReachHasTask DEF Choices, Unblocked

LEMMA NeedToRunType ==
  ASSUME NEW d, NEW R \in SUBSET TaskIds
  PROVE  NeedToRun(d, R) \subseteq TaskIds
BY ReachHasTask DEF NeedToRun, Unblocked

LEMMA InitIInv == Init => IInv
<1>. SUFFICES ASSUME Init PROVE IInv
  OBVIOUS
<1>1. TypeOK
  <2>1. next_task_id \in 1..(Cardinality(TaskIds) + 1)
    BY TaskIdsType DEF Init
  <2>2. deps \in [TaskIds -> Deps]
    BY DEF Init, Deps, ReadyAlone
  <2>3. trace \in Seq(Decisions)
    BY DEF Init
  <2>4. pc \in [Actors -> Places]
    BY DEF Init, Places
  <2>5. reached \in [TaskIds -> Nat]
    BY MaxReachedAssumption DEF Init
  <2>6. QED BY <2>1, <2>2, <2>3, <2>4, <2>5 DEF Init, TypeOK
<1>2. \A t \in TaskIds : pc[t] = "none"
  BY TaskIdsType DEF Init, Actors
<1>3. QED
  BY <1>1, <1>2 DEF Init, IInv, UnregisteredIsFresh, AtPointIsSuspendedOrResumed, AtPoint,
     ReadyHasPoint, ErrorStopsLoop, NoLostControlWakeup, NoLostTaskWakeup

-----------------------------------------------------------------------------
(* The parts of IInv, so that a step can cite those it needs.  *)
LEMMA IInvParts ==
  ASSUME IInv
  PROVE  /\ Running \subseteq TaskIds /\ Ready \subseteq TaskIds
         /\ Running \cap Ready = {}
         /\ deps \in [TaskIds -> Deps]
BY DEF IInv, TypeOK, Running, Ready

(* Steps that leave what the control loop sees alone, and notifications    *)
(* pending, keep its part of the invariant.                                *)
LEMMA SameViewKeepsControlWakeup ==
  ASSUME NoLostControlWakeup,
         state' = state, deps' = deps, loop_pc' = loop_pc, loop_waiting' = loop_waiting,
         NotifyPending => NotifyPending'
  PROVE  NoLostControlWakeup'
BY DEF NoLostControlWakeup, Running, Ready

LEMMA RegisterStep ==
  ASSUME IInv, NEW t \in TaskIds, NEW n \in Names, RegisterTask(t, n)
  PROVE  IInv'
<1>0. t \notin Registered /\ pc[t] = "none" /\ deps[t] = ReadyAlone
  BY TaskIdsType DEF RegisterTask, Registered, IInv, UnregisteredIsFresh, TypeOK
<1>1. TypeOK'
  <2>1. next_task_id' \in 1..(Cardinality(TaskIds) + 1)
    BY TaskIdsAssumption, TaskIdsType DEF RegisterTask
  <2>2. t \in Actors
    BY DEF Actors
  <2>3. QED
    BY <2>1, <2>2 DEF RegisterTask, IInv, TypeOK, Places, idVars, replayVars
<1>2. UnregisteredIsFresh'
  <2>1. \A u \in TaskIds \ Registered' : u \notin Registered /\ u # t
    BY TaskIdsType DEF RegisterTask, Registered, IInv, TypeOK
  <2>2. QED BY <2>1 DEF RegisterTask, IInv, TypeOK, UnregisteredIsFresh, Actors
<1>3. AtPointIsSuspendedOrResumed'
  BY DEF RegisterTask, IInv, TypeOK, AtPointIsSuspendedOrResumed, AtPoint, Actors
<1>4. ReadyHasPoint' /\ ErrorStopsLoop'
  BY DEF RegisterTask, IInv, TypeOK, ReadyHasPoint, ErrorStopsLoop, replayVars
<1>5. NoLostControlWakeup'
  <2>. SUFFICES ASSUME loop_pc = "await", loop_waiting
                PROVE  NothingToDo(deps, Running', Ready') \/ NotifyPending'
    BY DEF RegisterTask, NoLostControlWakeup
  <2>1. CASE NothingToDo(deps, Running, Ready)
    <3>1. Running' = Running \cup {t}
      BY DEF RegisterTask, Running, IInv, TypeOK
    <3>2. QED BY <2>1, <3>1, <1>0, IInvParts, RegistrationSettles
  <2>2. CASE NotifyPending
    BY <2>2, <1>0 DEF NotifyPending, RegisterTask, IInv, TypeOK, Actors
  <2>3. QED BY <2>1, <2>2 DEF IInv, NoLostControlWakeup
<1>6. NoLostTaskWakeup'
  BY DEF RegisterTask, IInv, TypeOK, NoLostTaskWakeup, Crashed, Actors, replayVars
<1>7. QED BY <1>1, <1>2, <1>3, <1>4, <1>5, <1>6 DEF IInv

(* An event that the model accepts or refuses.  *)
LEMMA SyncEventStep ==
  ASSUME IInv, NEW a \in Actors, NEW d \in Answers,
         SyncEvent(a, d) \/ (a \in TaskIds /\ BadSyncEvent(a, d))
  PROVE  IInv'
<1> USE DEF SyncEvent, BadSyncEvent, IInv
<1>0. d \in [TaskIds -> Deps] /\ deps' = d /\ pc'[a] \in {"notify", "panicked"}
      /\ pc' = [pc EXCEPT ![a] = pc'[a]] /\ pc[a] = "user" /\ OnlyRegistered(d)
  BY AnswersAssumption DEF TypeOK
<1>1. TypeOK'
  <2>1. pc' \in [Actors -> Places]
    BY <1>0 DEF TypeOK, Places
  <2>2. /\ UNCHANGED <<taskVars, idVars, state, point, trace, replayVars, task_waiters,
                      loop_pc, reached>>
        /\ loop_waiting' \in BOOLEAN
    BY DEF TypeOK
  <2> HIDE DEF SyncEvent, BadSyncEvent
  <2>3. QED
    BY <1>0, <2>1, <2>2 DEF TypeOK, taskVars, idVars, replayVars
<1>2. UnregisteredIsFresh'
  BY <1>0 DEF TypeOK, UnregisteredIsFresh, OnlyRegistered, Registered, taskVars, Actors
<1>3. AtPointIsSuspendedOrResumed'
  BY <1>0 DEF TypeOK, AtPointIsSuspendedOrResumed, AtPoint, Actors
<1>4. ReadyHasPoint' /\ ErrorStopsLoop'
  BY DEF ReadyHasPoint, ErrorStopsLoop, replayVars
<1>5. NoLostControlWakeup'
  BY <1>0 DEF NoLostControlWakeup, NotifyPending
<1>6. NoLostTaskWakeup'
  BY <1>0 DEF TypeOK, NoLostTaskWakeup, Crashed, Actors, replayVars
<1>7. QED BY <1>1, <1>2, <1>3, <1>4, <1>5, <1>6

(* on_reached_point, with or without an event.  *)
LEMMA SuspendStep ==
  ASSUME IInv, NEW t \in TaskIds, NEW p \in Points, Suspend(t, p),
         \/ UNCHANGED <<deps, loop_waiting>>
         \/ loop_waiting' = FALSE /\ deps' \in Answers /\ OnlyRegistered(deps')
  PROVE  IInv'
<1> USE DEF Suspend, IInv
<1>0. /\ deps' \in [TaskIds -> Deps]
      /\ loop_waiting' \in BOOLEAN
      /\ t \in Actors /\ pc[t] = "user"
      /\ pc' = [pc EXCEPT ![t] = pc'[t]] /\ pc'[t] \in {"suspended", "panicked"}
  BY AnswersAssumption DEF TypeOK, Actors
<1>1. TypeOK'
  <2>1. reached' \in [TaskIds -> Nat]
    BY MaxReachedAssumption DEF TypeOK
  <2>2. /\ state' \in [TaskIds -> {"none", "Running", "Ready", "Finished"}]
        /\ point' \in [TaskIds -> Points \cup {"none"}]
    <3>1. \/ UNCHANGED <<state, point>>
          \/ /\ state' = [state EXCEPT ![t] = "Ready"]
             /\ point' = [point EXCEPT ![t] = p]
      OBVIOUS
    <3> HIDE DEF Suspend
    <3>2. QED BY <3>1 DEF TypeOK
  <2>3. UNCHANGED <<taskVars, idVars, trace, replayVars, task_waiters, loop_pc>>
    OBVIOUS
  <2>4. pc' \in [Actors -> Places]
    BY <1>0 DEF TypeOK, Places
  <2> HIDE DEF Suspend
  <2>5. QED
    BY <1>0, <2>1, <2>2, <2>3, <2>4 DEF TypeOK, taskVars, idVars, replayVars
<1>2. UnregisteredIsFresh'
  BY <1>0 DEF TypeOK, UnregisteredIsFresh, OnlyRegistered, Registered, taskVars, Actors
<1>3. AtPointIsSuspendedOrResumed'
  <2>1. ASSUME NEW u \in TaskIds \ {t}
        PROVE  pc'[u] = pc[u] /\ state'[u] = state[u]
    BY <1>0, <2>1 DEF TypeOK, Actors
  <2>2. pc'[t] = "suspended" => state'[t] = "Ready"
    BY <1>0 DEF TypeOK
  <2> HIDE DEF Suspend
  <2>3. QED
    BY <1>0, <2>1, <2>2 DEF AtPointIsSuspendedOrResumed, AtPoint
<1>4. ReadyHasPoint' /\ ErrorStopsLoop'
  BY DEF ReadyHasPoint, ErrorStopsLoop, replayVars, TypeOK
<1>5. NoLostControlWakeup'
  BY <1>0 DEF NoLostControlWakeup, NotifyPending
<1>6. NoLostTaskWakeup'
  BY <1>0 DEF TypeOK, NoLostTaskWakeup, Crashed, Actors, replayVars
<1>7. QED BY <1>1, <1>2, <1>3, <1>4, <1>5, <1>6

(* notify_waiters on the control loop's Notify.  *)
LEMMA NotifyLoopStep ==
  ASSUME IInv, NEW a \in Actors, NotifyLoop(a)
  PROVE  IInv'
<1> USE DEF NotifyLoop, IInv
<1>0. /\ pc' = [pc EXCEPT ![a] = pc'[a]] /\ pc'[a] \in {"user", "enable", "gone"}
      /\ pc[a] \in {"notify", "suspended", "finished"}
      /\ pc'[a] = "enable" => pc[a] = "suspended"
  BY DEF TypeOK
<1>1. TypeOK'
  BY <1>0 DEF TypeOK, Places, taskVars, idVars, replayVars
<1>2. UnregisteredIsFresh'
  BY <1>0 DEF TypeOK, UnregisteredIsFresh, Registered, taskVars, Actors
<1>3. AtPointIsSuspendedOrResumed'
  BY <1>0 DEF TypeOK, AtPointIsSuspendedOrResumed, AtPoint, Actors
<1>4. ReadyHasPoint' /\ ErrorStopsLoop'
  BY DEF ReadyHasPoint, ErrorStopsLoop, replayVars
<1>5. NoLostControlWakeup'
  BY DEF NoLostControlWakeup
<1>6. NoLostTaskWakeup'
  BY <1>0 DEF TypeOK, NoLostTaskWakeup, Crashed, Actors, replayVars
<1>7. QED BY <1>1, <1>2, <1>3, <1>4, <1>5, <1>6

(* The wait loop of a suspension point.  *)
LEMMA WaitStep ==
  ASSUME IInv, NEW t \in TaskIds,
         EnableWait(t) \/ CheckWait(t) \/ Wake(t) \/ AbandonPoint(t)
  PROVE  IInv'
<1> USE DEF EnableWait, CheckWait, Wake, AbandonPoint, IInv
<1>0. /\ t \in Actors
      /\ pc[t] \in {"enable", "check", "parked"}
      /\ pc' = [pc EXCEPT ![t] = pc'[t]]
      /\ pc'[t] \in {"user", "enable", "check", "parked", "panicked"}
      /\ task_waiters' \subseteq TaskIds
      /\ UNCHANGED <<taskVars, idVars, state, point, trace, deps, replayVars,
                     loop_waiting, loop_pc, reached>>
      /\ \A u \in TaskIds \ {t} : u \in task_waiters' => u \in task_waiters
      /\ pc'[t] = "parked" => state[t] # "Running" /\ ~error
  BY DEF TypeOK, Actors
<1> HIDE DEF EnableWait, CheckWait, Wake, AbandonPoint
<1>1. TypeOK'
  <2>1. pc' \in [Actors -> Places]
    BY <1>0 DEF TypeOK, Places
  <2>2. QED
    BY <1>0, <2>1 DEF TypeOK, taskVars, idVars, replayVars
<1>2. UnregisteredIsFresh'
  BY <1>0 DEF TypeOK, UnregisteredIsFresh, Registered, taskVars, Actors
<1>3. AtPointIsSuspendedOrResumed'
  BY <1>0 DEF TypeOK, AtPointIsSuspendedOrResumed, AtPoint, Actors
<1>4. ReadyHasPoint' /\ ErrorStopsLoop'
  BY <1>0 DEF ReadyHasPoint, ErrorStopsLoop, replayVars
<1>5. NoLostControlWakeup'
  <2>1. NotifyPending => NotifyPending'
    BY <1>0 DEF NotifyPending, TypeOK, Actors
  <2>2. QED BY <1>0, <2>1, SameViewKeepsControlWakeup
<1>6. NoLostTaskWakeup'
  <2>. SUFFICES ASSUME NEW u \in TaskIds, pc'[u] = "parked", u \in task_waiters', ~Crashed'
                PROVE  state[u] = "Ready" /\ ~error
    BY <1>0 DEF NoLostTaskWakeup, replayVars
  <2>1. CASE u = t
    BY <2>1, <1>0 DEF AtPointIsSuspendedOrResumed, AtPoint
  <2>2. CASE u # t
    BY <2>2, <1>0 DEF NoLostTaskWakeup, Crashed, TypeOK, Actors, replayVars
  <2>3. QED BY <2>1, <2>2
<1>7. QED BY <1>1, <1>2, <1>3, <1>4, <1>5, <1>6

LEMMA TaskFinishedStep ==
  ASSUME IInv, NEW t \in TaskIds, TaskFinished(t)
  PROVE  IInv'
<1> USE DEF TaskFinished, IInv
<1>0. t \in Actors
  BY DEF Actors
<1>1. TypeOK'
  BY <1>0 DEF TypeOK, Places, taskVars, idVars, replayVars
<1>2. UnregisteredIsFresh'
  BY <1>0 DEF TypeOK, UnregisteredIsFresh, Registered, taskVars, Actors
<1>3. AtPointIsSuspendedOrResumed'
  BY <1>0 DEF TypeOK, AtPointIsSuspendedOrResumed, AtPoint, Actors
<1>4. ReadyHasPoint' /\ ErrorStopsLoop'
  BY DEF ReadyHasPoint, ErrorStopsLoop, replayVars, TypeOK
<1>5. NoLostControlWakeup'
  BY <1>0 DEF NoLostControlWakeup, NotifyPending, TypeOK
<1>6. NoLostTaskWakeup'
  BY <1>0 DEF TypeOK, NoLostTaskWakeup, Crashed, Actors, replayVars
<1>7. QED BY <1>1, <1>2, <1>3, <1>4, <1>5, <1>6

(* The control loop goes to sleep or wakes up.  *)
LEMMA LoopWaitStep ==
  ASSUME IInv, EnableLoop \/ WakeLoop \/ IterateIdle
  PROVE  IInv'
<1> USE DEF EnableLoop, WakeLoop, IterateIdle, Iterating, IInv
<1>0. /\ loop_pc # "dead" /\ loop_pc' \in {"enable", "iterate", "await"}
      /\ loop_waiting' \in BOOLEAN
      /\ loop_pc' = "await" => NothingToDo(deps, Running, Ready)
      /\ UNCHANGED <<taskVars, idVars, state, point, trace, deps, replayVars,
                     task_waiters, pc, reached>>
  BY DEF TypeOK
<1> HIDE DEF EnableLoop, WakeLoop, IterateIdle, Iterating
<1>1. TypeOK'
  BY <1>0 DEF TypeOK, Places, taskVars, idVars, replayVars
<1>2. UnregisteredIsFresh' /\ AtPointIsSuspendedOrResumed' /\ ReadyHasPoint'
  BY <1>0 DEF UnregisteredIsFresh, Registered, taskVars, AtPointIsSuspendedOrResumed,
              ReadyHasPoint
<1>3. ErrorStopsLoop'
  BY <1>0 DEF ErrorStopsLoop, replayVars
<1>4. NoLostControlWakeup'
  BY <1>0 DEF NoLostControlWakeup, Running, Ready
<1>5. NoLostTaskWakeup'
  BY <1>0 DEF NoLostTaskWakeup, Crashed, ErrorStopsLoop, replayVars
<1>6. QED BY <1>1, <1>2, <1>3, <1>4, <1>5

-----------------------------------------------------------------------------
(* resume_tasks, of tasks after which nothing is left to do.  *)
LEMMA ResumeStep ==
  ASSUME IInv, Iterating, NEW tasks \in SUBSET TaskIds, ResumeTasks(tasks),
         tasks \subseteq Ready => NothingToDo(deps, Running \cup tasks, Ready \ tasks),
         UNCHANGED <<taskVars, point, deps, replay, error, loop_waiting, pc, reached>>,
         next_stable_task_id' \in Nat, stable_id' \in [TaskIds -> Nat],
         trace' \in Seq(Decisions), next_step' \in Nat
  PROVE  IInv'
<1> USE DEF IInv, Iterating
<1>0. ~error
  BY DEF ErrorStopsLoop
<1>1. CASE /\ tasks \subseteq Ready
           /\ state' = [t \in TaskIds |-> IF t \in tasks THEN "Running" ELSE state[t]]
           /\ task_waiters' = {}
           /\ loop_pc' = "await"
  <2>1. TypeOK'
    BY <1>1 DEF TypeOK, taskVars
  <2>2. UnregisteredIsFresh' /\ AtPointIsSuspendedOrResumed' /\ ReadyHasPoint'
    BY <1>1 DEF TypeOK, UnregisteredIsFresh, Registered, taskVars,
                AtPointIsSuspendedOrResumed, ReadyHasPoint
  <2>3. NoLostControlWakeup'
    <3>1. Running' = Running \cup tasks /\ Ready' = Ready \ tasks
      BY <1>1 DEF TypeOK, Running, Ready
    <3>2. QED BY <1>1, <3>1 DEF NoLostControlWakeup
  <2>4. NoLostTaskWakeup' /\ ErrorStopsLoop'
    BY <1>0, <1>1 DEF NoLostTaskWakeup, ErrorStopsLoop
  <2>5. QED BY <2>1, <2>2, <2>3, <2>4
<1>2. ASSUME NEW bad \in tasks \ Ready, NEW before \in SUBSET (tasks \cap Ready),
             state' = [t \in TaskIds |-> IF t \in before \cup {bad} THEN "Running" ELSE state[t]],
             loop_pc' = "dead", UNCHANGED task_waiters
      PROVE  IInv'
  <2>1. TypeOK'
    BY <1>2 DEF TypeOK, taskVars
  <2>2. UnregisteredIsFresh' /\ AtPointIsSuspendedOrResumed' /\ ReadyHasPoint'
    BY <1>2 DEF TypeOK, UnregisteredIsFresh, Registered, taskVars,
                AtPointIsSuspendedOrResumed, ReadyHasPoint
  <2>3. NoLostControlWakeup' /\ NoLostTaskWakeup' /\ ErrorStopsLoop'
    BY <1>0, <1>2 DEF NoLostControlWakeup, NoLostTaskWakeup, ErrorStopsLoop, Crashed
  <2>4. QED BY <2>1, <2>2, <2>3
<1>3. QED BY <1>1, <1>2 DEF ResumeTasks

LEMMA AutoResumeStep ==
  ASSUME IInv, IterateAutoResume
  PROVE  IInv'
<1>1. NeedToRun(deps, Running) \subseteq TaskIds
  BY NeedToRunType DEF Running
<1>2. NothingToDo(deps, Running \cup NeedToRun(deps, Running),
                  Ready \ NeedToRun(deps, Running))
  BY AutoResumeSettles, IInvParts DEF IterateAutoResume
<1>3. /\ next_stable_task_id' \in Nat /\ stable_id' \in [TaskIds -> Nat]
      /\ trace' \in Seq(Decisions) /\ next_step' \in Nat
  BY DEF IterateAutoResume, IInv, TypeOK, idVars, replayVars
<1>4. QED BY <1>1, <1>2, <1>3, ResumeStep DEF IterateAutoResume, replayVars

LEMMA StableIdsType ==
  ASSUME IInv, Deciding
  PROVE  next_stable_task_id' \in Nat /\ stable_id' \in [TaskIds -> Nat]
<1>1. ASSUME NEW S \in SUBSET TaskIds PROVE Cardinality(S) \in Nat
  BY TaskIdsType, FS_Subset, FS_CardinalityType
<1>2. Unnumbered \subseteq TaskIds
  BY DEF Unnumbered, Ready
<1>3. \A t \in TaskIds : Cardinality({u \in Unnumbered : NameBefore(u, t)}) \in Nat
  BY <1>1, <1>2
<1>4. next_stable_task_id \in Nat /\ stable_id \in [TaskIds -> Nat]
  BY DEF IInv, TypeOK
<1>5. AssignStableIds
  BY DEF Deciding
<1>6. next_stable_task_id' \in Nat
  BY <1>1, <1>2, <1>4, <1>5 DEF AssignStableIds
<1>7. ASSUME NEW t \in TaskIds
      PROVE  IF t \in Unnumbered
             THEN next_stable_task_id + Cardinality({u \in Unnumbered : NameBefore(u, t)}) \in Nat
             ELSE stable_id[t] \in Nat
  BY <1>3, <1>4
<1>8. stable_id' \in [TaskIds -> Nat]
  BY <1>5, <1>7 DEF AssignStableIds
<1>9. QED BY <1>6, <1>8

(* One of the choices is taken, at random or because the trace says so.  *)
LEMMA DecideStep ==
  ASSUME IInv, Deciding, NEW to_run \in Choices(deps, Running, Ready), Decide(to_run),
         UNCHANGED <<taskVars, point, deps, replay, error, loop_waiting, pc, reached>>,
         next_step' \in Nat
  PROVE  IInv'
<1>1. to_run \in SUBSET TaskIds
  BY ChoiceType DEF Ready
<1>2. NothingToDo(deps, Running \cup to_run, Ready \ to_run)
  BY DecisionSettles, IInvParts DEF Deciding
<1>3. trace' \in Seq(Decisions)
  <2>1. Decision(to_run) \in Decisions
    BY <1>1 DEF Decision, Decisions, Ready, IInv, ReadyHasPoint
  <2>2. trace \in Seq(Decisions)
    BY DEF IInv, TypeOK
  <2>3. QED BY <2>1, <2>2 DEF Decide
<1>4. QED BY <1>1, <1>2, <1>3, StableIdsType, ResumeStep DEF Decide, Deciding

(* The control loop panics on a replay.  *)
LEMMA LoopPanicStep ==
  ASSUME IInv, IterateDiverged \/ IterateNoStableId
  PROVE  IInv'
<1> USE DEF IterateDiverged, IterateNoStableId, IInv
<1>0. Deciding /\ loop_pc' = "dead" /\ next_stable_task_id' \in Nat
      /\ stable_id' \in [TaskIds -> Nat] /\ ~error
      /\ UNCHANGED <<taskVars, state, point, trace, deps, replay, next_step,
                     loop_waiting, pc, reached>>
      /\ \/ error' = TRUE /\ task_waiters' = {}
         \/ UNCHANGED <<error, task_waiters>>
  BY StableIdsType DEF Deciding, Iterating, ErrorStopsLoop, replayVars
<1> HIDE DEF IterateDiverged, IterateNoStableId
<1>1. TypeOK'
  BY <1>0 DEF TypeOK, taskVars
<1>2. UnregisteredIsFresh' /\ AtPointIsSuspendedOrResumed' /\ ReadyHasPoint'
  BY <1>0 DEF UnregisteredIsFresh, Registered, taskVars, AtPointIsSuspendedOrResumed,
              ReadyHasPoint
<1>3. NoLostControlWakeup' /\ NoLostTaskWakeup' /\ ErrorStopsLoop'
  BY <1>0 DEF NoLostControlWakeup, NoLostTaskWakeup, ErrorStopsLoop, Crashed
<1>4. QED BY <1>1, <1>2, <1>3

LEMMA StutterStep == IInv /\ UNCHANGED vars => IInv'
BY DEF vars, taskVars, idVars, replayVars, IInv, TypeOK, UnregisteredIsFresh, Registered,
       AtPointIsSuspendedOrResumed, ReadyHasPoint, ErrorStopsLoop, NoLostControlWakeup,
       NotifyPending, Running, Ready, NoLostTaskWakeup, Crashed

LEMMA NextIInv == IInv /\ [Next]_vars => IInv'
<1>. SUFFICES ASSUME IInv, [Next]_vars PROVE IInv'
  OBVIOUS
<1>1. CASE Program
  <2>1. CASE \E t \in TaskIds, n \in Names : RegisterTask(t, n)
    BY <2>1, RegisterStep
  <2>2. CASE \/ \E a \in Actors, d \in Answers : SyncEvent(a, d)
             \/ \E t \in TaskIds, d \in Answers : BadSyncEvent(t, d)
    BY <2>2, SyncEventStep DEF Actors
  <2>3. CASE \/ \E t \in TaskIds, p \in Points : ReachPoint(t, p)
             \/ \E t \in TaskIds, p \in Points, d \in Answers : ReachPointWithEvent(t, p, d)
    BY <2>3, SuspendStep DEF ReachPoint, ReachPointWithEvent, OnlyRegistered
  <2>4. CASE \E t \in TaskIds : AbandonPoint(t) \/ TaskFinished(t)
    BY <2>4, WaitStep, TaskFinishedStep
  <2>5. QED BY <1>1, <2>1, <2>2, <2>3, <2>4 DEF Program
<1>2. CASE Waiting
  BY <1>2, NotifyLoopStep, WaitStep DEF Waiting
<1>3. CASE ControlLoop
  <2>1. CASE IterateRandom
    BY <2>1, DecideStep DEF IterateRandom, replayVars, IInv, TypeOK
  <2>2. CASE IterateReplay
    BY <2>2, DecideStep DEF IterateReplay, IInv, TypeOK
  <2>3. QED
    BY <1>3, <2>1, <2>2, LoopWaitStep, AutoResumeStep, LoopPanicStep
    DEF ControlLoop, ControlLoopIteration
<1>4. QED BY <1>1, <1>2, <1>3, StutterStep DEF Next

-----------------------------------------------------------------------------
(* Every state of the scheduler is well formed.  *)
THEOREM TypeCorrect == Spec => []TypeOK
<1>1. IInv => TypeOK
  BY DEF IInv
<1>2. QED BY <1>1, InitIInv, NextIInv, PTL DEF Spec

(* The control loop never sleeps through work: after every interleaving of *)
(* the tasks with the loop there is nothing to resume while it sleeps, or  *)
(* the notification is on its way.                                         *)
THEOREM ControlLoopNotLost == Spec => []NoLostControlWakeup
<1>1. IInv => NoLostControlWakeup
  BY DEF IInv
<1>2. QED BY <1>1, InitIInv, NextIInv, PTL DEF Spec

(* No task sleeps in its suspension point after it was resumed or after    *)
(* the error was set, unless the control loop itself crashed.              *)
THEOREM TasksNotLost == Spec => []NoLostTaskWakeup
<1>1. IInv => NoLostTaskWakeup
  BY DEF IInv
<1>2. QED BY <1>1, InitIInv, NextIInv, PTL DEF Spec

-----------------------------------------------------------------------------
(* The scheduler implements its contract.                                  *)

RegisteredHaveState == \A t \in TaskIds : t \in Registered <=> state[t] # "none"

(* That a task starts once, and ends only after it has started, needs that *)
(* the loop never touches a task that is not registered.                   *)
ContractInv ==
  /\ IInv
  /\ OnlyRegistered(deps)
  /\ RegisteredHaveState

(* The contract reads the same rules on the same tasks.  *)
LEMMA SameRules ==
  /\ Contract!Running = Running /\ Contract!Ready = Ready
  /\ Contract!Deps = Deps /\ Contract!ReadyAlone = ReadyAlone
  /\ \A d, R : Contract!HasReady(d, R) = HasReady(d, R)
  /\ \A d, R : Contract!NeedToRun(d, R) = NeedToRun(d, R)
  /\ \A d, R, Q : Contract!Choices(d, R, Q) = Choices(d, R, Q)
<1>1. \A d, t : Contract!Needs(d, t) = Needs(d, t)
  BY DEF Contract!Needs, Needs
<1>2. \A d, S : Contract!ClosedUnder(d, S) <=> ClosedUnder(d, S)
  BY <1>1 DEF Contract!ClosedUnder, ClosedUnder
<1>3. \A d, t : Contract!Reach(d, t) = Reach(d, t)
  BY <1>2 DEF Contract!Reach, Reach
<1>4. \A d, S : Contract!Unblocked(d, S) = Unblocked(d, S)
  BY DEF Contract!Unblocked, Unblocked
<1>5. QED
  BY <1>3, <1>4 DEF Contract!Running, Running, Contract!Ready, Ready, Contract!Deps, Deps,
     Contract!Blocked, Blocked, Contract!ReadyWithOthers, ReadyWithOthers,
     Contract!ReadyAlone, ReadyAlone, Contract!HasReady, HasReady,
     Contract!NeedToRun, NeedToRun, Contract!Choices, Choices

(* What the loop resumes is registered.  *)
LEMMA ResumedAreRegistered ==
  ASSUME ContractInv
  PROVE  /\ NeedToRun(deps, Running) \subseteq Registered
         /\ \A S \in Choices(deps, Running, Ready) : S \subseteq Registered
<1>1. Running \subseteq Registered /\ Ready \subseteq Registered /\ Registered \subseteq TaskIds
  BY DEF ContractInv, RegisteredHaveState, Running, Ready, Registered
<1>2. ClosedUnder(deps, Registered)
  BY <1>1 DEF ContractInv, OnlyRegistered, ClosedUnder, Needs
<1>3. \A t \in Registered : Reach(deps, t) \subseteq Registered
  BY <1>1, <1>2, ReachIsSmallest
<1>4. QED BY <1>1, <1>3 DEF NeedToRun, Choices, Unblocked

LEMMA InitContract == Init => ContractInv /\ Contract!Init
<1>. SUFFICES ASSUME Init PROVE ContractInv /\ Contract!Init
  OBVIOUS
<1>1. Registered = {}
  BY TaskIdsType, TaskIdsAssumption DEF Init, Registered
<1>2. ContractInv
  BY <1>1, InitIInv DEF Init, ContractInv, OnlyRegistered, RegisteredHaveState
<1>3. Contract!Init
  BY SameRules, ReplaysAssumption DEF Init, Contract!Init
<1>4. QED BY <1>2, <1>3

(* Steps that the contract does not see, but for what the models answer.   *)
LEMMA KeepsContract ==
  ASSUME ContractInv, UNCHANGED <<next_task_id, state, replay>>,
         deps' = deps \/ (deps' \in Answers /\ OnlyRegistered(deps')),
         loop_pc' = loop_pc \/ "dead" \notin {loop_pc, loop_pc'}
  PROVE  OnlyRegistered(deps)' /\ RegisteredHaveState' /\ [Contract!Next]_(Contract!vars)
<1>1. OnlyRegistered(deps)' /\ RegisteredHaveState'
  BY DEF ContractInv, OnlyRegistered, RegisteredHaveState, Registered
<1>2. CASE deps' = deps
  <2>1. (loop_pc' = "dead") = (loop_pc = "dead") /\ replay'.on = replay.on
    OBVIOUS
  <2>2. UNCHANGED Contract!vars
    BY <1>2, <2>1 DEF Contract!vars
  <2>3. QED BY <1>1, <2>2
<1>3. CASE deps' \in Answers
  <2>1. Contract!ChangeDeps
    BY <1>3, AnswersAssumption, SameRules DEF Contract!ChangeDeps, Contract!SameMode
  <2>2. QED BY <1>1, <2>1 DEF Contract!Next
<1>4. QED BY <1>2, <1>3

LEMMA RegisterKeepsContract ==
  ASSUME ContractInv, NEW t \in TaskIds, NEW n \in Names, RegisterTask(t, n)
  PROVE  OnlyRegistered(deps)' /\ RegisteredHaveState' /\ [Contract!Next]_(Contract!vars)
<1>1. Registered' = Registered \cup {t} /\ t \notin Registered
  <2>1. next_task_id \in Nat /\ t = next_task_id /\ next_task_id' = next_task_id + 1
    BY TaskIdsType DEF RegisterTask, ContractInv, IInv, TypeOK
  <2>2. \A u \in TaskIds : u < next_task_id + 1 <=> u < next_task_id \/ u = t
    BY <2>1, TaskIdsType
  <2>3. Registered' = {u \in TaskIds : u < next_task_id \/ u = t}
    BY <2>1, <2>2 DEF Registered
  <2>4. QED BY <2>1, <2>3, TaskIdsType DEF Registered
<1>2. deps' = deps /\ deps[t].need = {}
  BY <1>1 DEF RegisterTask, ContractInv, IInv, UnregisteredIsFresh, ReadyAlone, ReadyWithOthers
<1>3. OnlyRegistered(deps)'
  BY <1>1, <1>2 DEF ContractInv, OnlyRegistered
<1>4. RegisteredHaveState'
  BY <1>1 DEF RegisterTask, ContractInv, RegisteredHaveState, IInv, TypeOK
<1>5. Contract!Start(t)
  BY <1>1 DEF RegisterTask, ContractInv, RegisteredHaveState, Contract!Start, Contract!SameDeps,
     Contract!SameMode, replayVars
<1>6. QED BY <1>3, <1>4, <1>5 DEF Contract!Next

LEMMA SuspendKeepsContract ==
  ASSUME ContractInv, NEW t \in TaskIds, NEW p \in Points, Suspend(t, p),
         deps' = deps \/ (deps' \in Answers /\ OnlyRegistered(deps'))
  PROVE  OnlyRegistered(deps)' /\ RegisteredHaveState' /\ [Contract!Next]_(Contract!vars)
<1>1. UNCHANGED <<taskVars, replayVars, loop_pc>>
  BY DEF Suspend
<1>2. CASE state[t] = "Running"
  <2>1. state' = [state EXCEPT ![t] = "Ready"]
    BY <1>2 DEF Suspend
  <2>2. RegisteredHaveState'
    BY <1>1, <1>2, <2>1 DEF ContractInv, RegisteredHaveState, Registered, IInv, TypeOK, taskVars
  <2>3. OnlyRegistered(deps)'
    BY <1>1 DEF ContractInv, OnlyRegistered, Registered, taskVars
  <2>4. deps' \in [TaskIds -> Deps]
    BY AnswersAssumption DEF ContractInv, IInv, TypeOK
  <2>5. Contract!Suspend(t)
    BY <1>1, <1>2, <2>1, <2>4, SameRules DEF Contract!Suspend, Contract!SameMode, replayVars
  <2>6. QED BY <2>2, <2>3, <2>5 DEF Contract!Next
<1>3. CASE state[t] # "Running"
  <2>1. UNCHANGED <<next_task_id, state, replay, loop_pc>>
    BY <1>1, <1>3 DEF Suspend, taskVars, replayVars
  <2>2. QED BY <2>1, KeepsContract
<1>4. QED BY <1>2, <1>3

LEMMA TaskFinishedKeepsContract ==
  ASSUME ContractInv, NEW t \in TaskIds, TaskFinished(t)
  PROVE  OnlyRegistered(deps)' /\ RegisteredHaveState' /\ [Contract!Next]_(Contract!vars)
<1>1. UNCHANGED <<taskVars, deps, replayVars, loop_pc>>
      /\ state' = [state EXCEPT ![t] = "Finished"] /\ pc[t] # "none"
  BY DEF TaskFinished
<1>2. t \in Registered
  BY <1>1 DEF ContractInv, IInv, UnregisteredIsFresh
<1>3. OnlyRegistered(deps)' /\ RegisteredHaveState'
  BY <1>1, <1>2 DEF ContractInv, OnlyRegistered, RegisteredHaveState, Registered, IInv, TypeOK,
     taskVars
<1>4. Contract!Finish(t)
  BY <1>1, <1>2 DEF ContractInv, RegisteredHaveState, Contract!Finish, Contract!SameDeps,
     Contract!SameMode, replayVars
<1>5. QED BY <1>3, <1>4 DEF Contract!Next

(* resume_tasks, of a set that is due.  *)
LEMMA ResumeKeepsContract ==
  ASSUME ContractInv, Iterating, NEW tasks \in SUBSET Registered, ResumeTasks(tasks),
         tasks \in Contract!Due, UNCHANGED <<next_task_id, deps, replay>>
  PROVE  OnlyRegistered(deps)' /\ RegisteredHaveState' /\ [Contract!Next]_(Contract!vars)
<1>1. PICK some \in SUBSET tasks :
         /\ state' = [t \in TaskIds |-> IF t \in some THEN "Running" ELSE state[t]]
         /\ IF tasks \subseteq Ready
            THEN some = tasks /\ loop_pc' = "await"
            ELSE loop_pc' = "dead"
  BY DEF ResumeTasks
<1>2. OnlyRegistered(deps)' /\ RegisteredHaveState'
  BY <1>1 DEF ContractInv, OnlyRegistered, RegisteredHaveState, Registered
<1>3. Contract!ServeTasks(tasks)
  BY <1>1, SameRules DEF Iterating, Contract!ServeTasks, Contract!SameDeps, Contract!SameMode
<1>4. QED BY <1>2, <1>3 DEF Contract!Serve, Contract!Next

(* What the contract says is due, in the words of the control loop.  *)
LEMMA DueTasks ==
  Contract!Due = IF HasReady(deps, Running)
                 THEN {NeedToRun(deps, Running)} \ {{}}
                 ELSE Choices(deps, Running, Ready)
BY SameRules DEF Contract!Due

LEMMA IterationKeepsContract ==
  ASSUME ContractInv, ControlLoopIteration
  PROVE  OnlyRegistered(deps)' /\ RegisteredHaveState' /\ [Contract!Next]_(Contract!vars)
<1>1. CASE IterateIdle
  BY <1>1, KeepsContract DEF IterateIdle, Iterating, taskVars, replayVars
<1>2. CASE IterateAutoResume
  <2>1. NeedToRun(deps, Running) \in Contract!Due
    BY <1>2, DueTasks DEF IterateAutoResume
  <2>2. QED
    BY <1>2, <2>1, ResumedAreRegistered, ResumeKeepsContract
    DEF IterateAutoResume, taskVars, replayVars
<1>3. CASE IterateRandom \/ IterateReplay
  <2>1. /\ Deciding /\ UNCHANGED <<next_task_id, deps, replay>>
        /\ \E to_run \in Choices(deps, Running, Ready) : ResumeTasks(to_run)
    BY <1>3 DEF IterateRandom, IterateReplay, Decide, taskVars, replayVars
  <2>2. \A to_run \in Choices(deps, Running, Ready) : to_run \in Contract!Due
    BY <2>1, DueTasks DEF Deciding
  <2>3. QED BY <2>1, <2>2, ResumedAreRegistered, ResumeKeepsContract DEF Deciding
<1>4. CASE IterateDiverged \/ IterateNoStableId
  <2>1. /\ Deciding /\ replay.on /\ UNCHANGED <<next_task_id, state, deps, replay>>
        /\ loop_pc' = "dead"
    BY <1>4 DEF IterateDiverged, IterateNoStableId, taskVars, replayVars
  <2>2. OnlyRegistered(deps)' /\ RegisteredHaveState'
    BY <2>1 DEF ContractInv, OnlyRegistered, RegisteredHaveState, Registered
  <2>3. Contract!Diverge
    BY <2>1, DueTasks, SameRules DEF Deciding, Iterating, Contract!Diverge, Contract!SameDeps,
       Contract!SameMode
  <2>4. QED BY <2>2, <2>3 DEF Contract!Next
<1>5. QED BY <1>1, <1>2, <1>3, <1>4 DEF ControlLoopIteration

LEMMA NextContract == ContractInv /\ [Next]_vars => ContractInv' /\ [Contract!Next]_(Contract!vars)
<1>. SUFFICES ASSUME ContractInv, [Next]_vars
              PROVE  OnlyRegistered(deps)' /\ RegisteredHaveState' /\ [Contract!Next]_(Contract!vars)
  BY NextIInv DEF ContractInv
<1>1. CASE Program
  <2>1. CASE \E t \in TaskIds, n \in Names : RegisterTask(t, n)
    BY <2>1, RegisterKeepsContract
  <2>2. CASE \/ \E a \in Actors, d \in Answers : SyncEvent(a, d)
             \/ \E t \in TaskIds, d \in Answers : BadSyncEvent(t, d)
    BY <2>2, KeepsContract DEF SyncEvent, BadSyncEvent, OnlyRegistered, taskVars, replayVars
  <2>3. CASE \/ \E t \in TaskIds, p \in Points : ReachPoint(t, p)
             \/ \E t \in TaskIds, p \in Points, d \in Answers : ReachPointWithEvent(t, p, d)
    BY <2>3, SuspendKeepsContract DEF ReachPoint, ReachPointWithEvent, OnlyRegistered
  <2>4. CASE \E t \in TaskIds : AbandonPoint(t)
    BY <2>4, KeepsContract DEF AbandonPoint, taskVars, replayVars
  <2>5. CASE \E t \in TaskIds : TaskFinished(t)
    BY <2>5, TaskFinishedKeepsContract
  <2>6. QED BY <1>1, <2>1, <2>2, <2>3, <2>4, <2>5 DEF Program
<1>2. CASE Waiting \/ EnableLoop \/ WakeLoop \/ UNCHANGED vars
  <2>1. UNCHANGED <<next_task_id, state, deps, replay>>
        /\ (loop_pc' = loop_pc \/ "dead" \notin {loop_pc, loop_pc'})
    BY <1>2 DEF Waiting, NotifyLoop, EnableWait, CheckWait, Wake, EnableLoop, WakeLoop, vars,
       taskVars, replayVars
  <2>2. QED BY <2>1, KeepsContract
<1>3. CASE ControlLoopIteration
  BY <1>3, IterationKeepsContract
<1>4. QED BY <1>1, <1>2, <1>3 DEF Next, ControlLoop

(* Every execution of the threads, their locks and notifications is one of *)
(* the contract: a suspended task runs only when the rules make it due,    *)
(* with all the tasks that are due with it, and only a decision that       *)
(* disagrees with the trace, or a due task that has ended, stops the loop. *)
(* That what is due is served in the end is left to the model checker.     *)
THEOREM KeepsTheContract == Spec => Contract!Safety
BY InitContract, NextContract, PTL DEF Spec, Contract!Safety

-----------------------------------------------------------------------------
(* What the scheduler writes down for a replay: the stable ids it gives to *)
(* the tasks and the decisions of its trace.                               *)

(* Numbering a set of tasks in the order of (name, id).                    *)

(* The position of a task in the sorted list of a set of tasks.  *)
Rank(U, t) == Cardinality({u \in U : NameBefore(u, t)})

LEMMA NamesType ==
  ASSUME TypeOK
  PROVE  name \in [TaskIds -> Nat]
<1>1. Names \cup {0} \subseteq Nat
  BY NamesAssumption
<1>2. name \in [TaskIds -> Names \cup {0}]
  BY DEF TypeOK
<1>3. QED BY <1>1, <1>2

(* (name, id) is a strict total order, which the sort needs.  *)
LEMMA NameBeforeIsOrder ==
  ASSUME TypeOK, NEW s \in TaskIds, NEW t \in TaskIds, NEW u \in TaskIds
  PROVE  /\ ~NameBefore(t, t)
         /\ NameBefore(s, t) /\ NameBefore(t, u) => NameBefore(s, u)
         /\ s # t => NameBefore(s, t) \/ NameBefore(t, s)
BY NamesType, TaskIdsType DEF NameBefore

LEMMA RankIsPosition ==
  ASSUME TypeOK, NEW U \in SUBSET TaskIds, NEW t \in U
  PROVE  Rank(U, t) \in 0..(Cardinality(U) - 1)
<1> DEFINE Before == {u \in U : NameBefore(u, t)}
<1>1. IsFiniteSet(U) /\ Cardinality(U) \in Nat
  BY TaskIdsType, FS_Subset, FS_CardinalityType
<1>2. Before \subseteq U \ {t}
  BY NameBeforeIsOrder
<1>3. IsFiniteSet(U \ {t}) /\ Cardinality(U \ {t}) = Cardinality(U) - 1
  BY <1>1, FS_RemoveElement
<1>4. IsFiniteSet(Before) /\ Cardinality(Before) <= Cardinality(U) - 1
  BY <1>2, <1>3, FS_Subset
<1>5. Cardinality(Before) \in Nat
  BY <1>4, FS_CardinalityType
<1>6. QED BY <1>1, <1>4, <1>5 DEF Rank

LEMMA RankGrows ==
  ASSUME TypeOK, NEW U \in SUBSET TaskIds, NEW t \in U, NEW u \in U, NameBefore(t, u)
  PROVE  Rank(U, t) < Rank(U, u)
<1> DEFINE Before(v) == {w \in U : NameBefore(w, v)}
<1>1. Before(t) \subseteq Before(u)
  BY NameBeforeIsOrder
<1>2. t \in Before(u) /\ t \notin Before(t)
  BY NameBeforeIsOrder
<1>3. IsFiniteSet(Before(u)) /\ IsFiniteSet(Before(t))
  BY TaskIdsType, FS_Subset
<1>4. Cardinality(Before(t)) <= Cardinality(Before(u))
      /\ Cardinality(Before(t)) # Cardinality(Before(u))
  BY <1>1, <1>2, <1>3, FS_Subset
<1>5. Cardinality(Before(t)) \in Nat /\ Cardinality(Before(u)) \in Nat
  BY <1>3, FS_CardinalityType
<1>6. QED BY <1>4, <1>5 DEF Rank

(* The positions are 0, 1, ... up to the number of tasks, each taken once. *)
LEMMA RankNumbers ==
  ASSUME TypeOK, NEW U \in SUBSET TaskIds
  PROVE  /\ \A t, u \in U : Rank(U, t) = Rank(U, u) => t = u
         /\ \A k \in 0..(Cardinality(U) - 1) : \E t \in U : Rank(U, t) = k
<1> DEFINE Positions == 0..(Cardinality(U) - 1)
           f == [t \in U |-> Rank(U, t)]
<1>1. Cardinality(U) \in Nat
  BY TaskIdsType, FS_Subset, FS_CardinalityType
<1>2. ASSUME NEW t \in U, NEW u \in U, Rank(U, t) = Rank(U, u)
      PROVE  t = u
  <2>1. Rank(U, t) \in Int
    <3>1. \A i \in 0..(Cardinality(U) - 1) : i \in Int
      OBVIOUS
    <3>2. QED BY <3>1, RankIsPosition
  <2>2. ~NameBefore(t, u) /\ ~NameBefore(u, t)
    BY <1>2, <2>1, RankGrows
  <2>3. QED BY <2>2, NameBeforeIsOrder
<1>3. f \in [U -> Positions]
  BY RankIsPosition
<1>4. f \in Injection(U, Positions)
  <2>1. \A t, u \in U : f[t] = f[u] => t = u
    BY <1>2
  <2> HIDE DEF f, Positions
  <2>2. QED BY <1>3, <2>1, Fun_IsInj
<1>5. IsFiniteSet(Positions) /\ Cardinality(Positions) = Cardinality(U)
  <2> DEFINE n == Cardinality(U) - 1
  <2>1. n \in Int /\ 0 \in Int
    BY <1>1
  <2> HIDE DEF n
  <2>2. IsFiniteSet(0..n) /\ Cardinality(0..n) = IF 0 > n THEN 0 ELSE n - 0 + 1
    BY <2>1, FS_Interval
  <2>3. Cardinality(0..n) = Cardinality(U)
    BY <1>1, <2>2 DEF n
  <2>4. QED BY <2>2, <2>3 DEF n
<1>6. f \in Surjection(U, Positions)
  <2> HIDE DEF f, Positions
  <2>1. QED BY <1>4, <1>5, FS_Injection
<1>7. \A k \in Positions : \E t \in U : f[t] = k
  <2> HIDE DEF f, Positions
  <2>1. QED BY <1>6, Fun_SurjectionProperties
<1>8. QED BY <1>2, <1>7

-----------------------------------------------------------------------------
(* The stable ids are numbered so far, and a decision can be replayed.     *)

(* next_stable_task_id starts at 1, since 0 stands for None here.  *)
StableIdsStart == next_stable_task_id >= 1

TraceInv ==
  /\ IInv
  /\ StableIdsStart
  /\ StableIdsName
  /\ TraceReplayable

(* A decision numbers its ready tasks from next_stable_task_id on.  *)
LEMMA AssignmentNumbers ==
  ASSUME TypeOK, StableIdsStart, StableIdsName, AssignStableIds
  PROVE  /\ StableIdsStart' /\ StableIdsName'
         /\ \A t \in TaskIds : stable_id[t] # 0 => stable_id'[t] # 0
         /\ \A t \in Ready : stable_id'[t] # 0
<1> DEFINE n == next_stable_task_id
           size == Cardinality(Unnumbered)
           rank(t) == Rank(Unnumbered, t)
<1>1. n \in Nat /\ n >= 1 /\ stable_id \in [TaskIds -> Nat] /\ Ready \subseteq TaskIds
      /\ Unnumbered \subseteq TaskIds
  BY DEF TypeOK, StableIdsStart, Unnumbered, Ready
<1>2. size \in Nat
  BY <1>1, TaskIdsType, FS_Subset, FS_CardinalityType
<1>3. /\ next_stable_task_id' = n + size
      /\ \A t \in Unnumbered : stable_id[t] = 0 /\ stable_id'[t] = n + rank(t)
      /\ \A t \in TaskIds \ Unnumbered : stable_id'[t] = stable_id[t]
  BY <1>1 DEF AssignStableIds, Rank, Unnumbered
<1>4. \A t \in Unnumbered : rank(t) \in 0..(size - 1)
  BY <1>1, RankIsPosition
<1>5. \A t, u \in Unnumbered : rank(t) = rank(u) => t = u
  BY <1>1, RankNumbers
<1>6. \A k \in 0..(size - 1) : \E t \in Unnumbered : rank(t) = k
  BY <1>1, RankNumbers
<1>7. /\ \A t \in TaskIds : stable_id[t] \in 0..(n - 1)
      /\ \A k \in 1..(n - 1) : \E t \in TaskIds : stable_id[t] = k
  <2>1. {stable_id[t] : t \in TaskIds} \ {0} = 1..(n - 1)
    BY DEF StableIdsName
  <2>2. \A t \in TaskIds : stable_id[t] = 0 \/ stable_id[t] \in 1..(n - 1)
    BY <2>1
  <2>3. 1..(n - 1) \subseteq 0..(n - 1) /\ 0 \in 0..(n - 1)
    BY <1>1
  <2>4. QED BY <2>1, <2>2, <2>3
<1> HIDE DEF n, size, rank
<1>8. \A t \in Unnumbered : stable_id'[t] \in n..(n + size - 1)
  BY <1>1, <1>2, <1>3, <1>4
<1>9. StableIdsStart'
  BY <1>1, <1>2, <1>3 DEF StableIdsStart
<1>10. ASSUME NEW t \in TaskIds, stable_id'[t] # 0
       PROVE  stable_id'[t] \in 1..(n + size - 1)
  BY <1>1, <1>2, <1>3, <1>7, <1>8, <1>10
<1>11. ASSUME NEW k \in 1..(n + size - 1)
       PROVE  \E t \in TaskIds : stable_id'[t] = k
  <2>1. CASE k \in 1..(n - 1)
    <3>1. PICK t \in TaskIds : stable_id[t] = k
      BY <2>1, <1>7
    <3>2. t \notin Unnumbered
      BY <2>1, <3>1, <1>3
    <3>3. QED BY <3>1, <3>2, <1>3
  <2>2. CASE k - n \in 0..(size - 1)
    <3>1. PICK t \in Unnumbered : rank(t) = k - n
      BY <2>2, <1>6
    <3>2. QED BY <3>1, <1>1, <1>3, <1>4
  <2>3. QED BY <2>1, <2>2, <1>1, <1>2
<1>12. ASSUME NEW t \in TaskIds, NEW u \in TaskIds, stable_id'[t] = stable_id'[u]
       PROVE  t = u \/ stable_id'[t] = 0
  <2>1. CASE t \in Unnumbered /\ u \in Unnumbered
    <3>1. rank(t) \in Int /\ rank(u) \in Int
      BY <2>1, <1>2, <1>4
    <3>2. QED BY <2>1, <3>1, <1>1, <1>3, <1>5, <1>12
  <2>2. CASE t \notin Unnumbered /\ u \notin Unnumbered
    BY <2>2, <1>3, <1>12 DEF StableIdsName
  <2>3. CASE t \in Unnumbered /\ u \notin Unnumbered
    BY <2>3, <1>1, <1>2, <1>3, <1>7, <1>8, <1>12
  <2>4. CASE t \notin Unnumbered /\ u \in Unnumbered
    BY <2>4, <1>1, <1>2, <1>3, <1>7, <1>8, <1>12
  <2>5. QED BY <2>1, <2>2, <2>3, <2>4
<1>13. StableIdsName'
  <2>1. {stable_id'[t] : t \in TaskIds} \ {0} = 1..(n + size - 1)
    BY <1>1, <1>2, <1>10, <1>11
  <2>2. next_stable_task_id' - 1 = n + size - 1
    BY <1>1, <1>2, <1>3
  <2>3. QED BY <2>1, <2>2, <1>12 DEF StableIdsName
<1>14. \A t \in TaskIds : stable_id[t] # 0 => stable_id'[t] # 0
  BY <1>3
<1>15. \A t \in Ready : stable_id'[t] # 0
  BY <1>1, <1>2, <1>3, <1>8 DEF Unnumbered
<1>16. QED BY <1>9, <1>13, <1>14, <1>15

LEMMA TraceType ==
  ASSUME TypeOK, NEW i \in DOMAIN trace, NEW r \in trace[i].ready
  PROVE  r.id \in TaskIds
<1>1. trace \in Seq(Decisions)
  BY DEF TypeOK
<1>2. trace[i] \in Decisions
  BY <1>1
<1>3. trace[i].ready \in SUBSET [id : TaskIds, position : Points]
  BY <1>2 DEF Decisions
<1>4. r \in [id : TaskIds, position : Points]
  BY <1>3
<1>5. QED BY <1>4

(* Steps that append nothing keep the trace replayable, since no task      *)
(* loses its stable id and a crashed loop stays crashed.                   *)
LEMMA SameTraceStaysReplayable ==
  ASSUME TypeOK, TraceReplayable, trace' = trace, Crashed => Crashed',
         \A t \in TaskIds : stable_id[t] # 0 => stable_id'[t] # 0
  PROVE  TraceReplayable'
<1>1. \A i \in DOMAIN trace : \A r \in trace[i].ready : r.id \in TaskIds
  BY TraceType
<1>2. QED BY <1>1 DEF TraceReplayable

(* What the steps without a decision have in common here.  *)
LEMMA NoDecisionStep ==
  ASSUME TraceInv, UNCHANGED <<trace, idVars>>, Crashed => Crashed'
  PROVE  StableIdsStart' /\ StableIdsName' /\ TraceReplayable'
<1>1. StableIdsStart' /\ StableIdsName'
  BY DEF TraceInv, StableIdsStart, StableIdsName, idVars
<1>2. TraceReplayable'
  BY SameTraceStaysReplayable DEF TraceInv, IInv, idVars
<1>3. QED BY <1>1, <1>2

(* A decision is recorded: its ready tasks have just got their ids, and a  *)
(* task to resume that is not among them crashes the loop.                 *)
LEMMA DecisionIsReplayable ==
  ASSUME TraceInv, Deciding, NEW to_run \in Choices(deps, Running, Ready), Decide(to_run),
         error' = error, TypeOK'
  PROVE  TraceReplayable'
<1>1. /\ ~error /\ ~Crashed
      /\ trace \in Seq(Decisions) /\ trace' = Append(trace, Decision(to_run))
  BY DEF TraceInv, IInv, ErrorStopsLoop, TypeOK, Deciding, Iterating, Decide, Crashed
<1>2. /\ Len(trace) \in Nat /\ Len(trace') = Len(trace) + 1
      /\ DOMAIN trace = 1..Len(trace) /\ DOMAIN trace' = 1..(Len(trace) + 1)
      /\ trace'[Len(trace) + 1] = Decision(to_run)
      /\ \A i \in 1..Len(trace) : trace'[i] = trace[i]
  BY <1>1
<1>3. /\ \A t \in TaskIds : stable_id[t] # 0 => stable_id'[t] # 0
      /\ \A t \in Ready : stable_id'[t] # 0
  BY AssignmentNumbers DEF TraceInv, IInv, Deciding
<1>4. ASSUME NEW i \in 1..Len(trace)
      PROVE  /\ \A r \in trace'[i].ready : stable_id'[r.id] # 0
             /\ trace'[i].resumed \subseteq {r.id : r \in trace'[i].ready}
  <2>1. \A r \in trace[i].ready : r.id \in TaskIds /\ stable_id[r.id] # 0
    BY <1>1, <1>2, TraceType DEF TraceInv, IInv, TraceReplayable
  <2>2. trace[i].resumed \subseteq {r.id : r \in trace[i].ready}
    BY <1>1, <1>2 DEF TraceInv, TraceReplayable
  <2>3. QED BY <2>1, <2>2, <1>2, <1>3
<1>5. /\ \A r \in Decision(to_run).ready : stable_id'[r.id] # 0
      /\ {r.id : r \in Decision(to_run).ready} = Ready
      /\ Decision(to_run).resumed = to_run
  <2> DEFINE at(t) == [id |-> t, position |-> point[t]]
  <2>1. Decision(to_run).ready = {at(t) : t \in Ready} /\ Decision(to_run).resumed = to_run
    BY DEF Decision
  <2>2. \A t \in Ready : at(t).id = t
    OBVIOUS
  <2>3. Ready \subseteq TaskIds
    BY DEF Ready
  <2> HIDE DEF at
  <2>4. QED BY <2>1, <2>2, <2>3, <1>3
<1>6. to_run \subseteq Ready \/ Crashed'
  BY <1>1 DEF Decide, ResumeTasks, Crashed
<1>7. ASSUME NEW i \in DOMAIN trace'
      PROVE  /\ \A r \in trace'[i].ready : stable_id'[r.id] # 0
             /\ \/ trace'[i].resumed \subseteq {r.id : r \in trace'[i].ready}
                \/ Crashed' /\ i = Len(trace')
  <2>1. CASE i \in 1..Len(trace)
    BY <2>1, <1>4
  <2>2. CASE i = Len(trace) + 1
    BY <2>2, <1>2, <1>5, <1>6
  <2>3. QED BY <2>1, <2>2, <1>2
<1>8. QED BY <1>7 DEF TraceReplayable

LEMMA InitTraceInv == Init => TraceInv
<1>. SUFFICES ASSUME Init PROVE TraceInv
  OBVIOUS
<1>1. {stable_id[t] : t \in TaskIds} \ {0} = 1..(next_stable_task_id - 1)
  BY DEF Init
<1>2. QED
  BY <1>1, InitIInv DEF Init, TraceInv, StableIdsStart, StableIdsName, TraceReplayable

LEMMA NextTraceInv == TraceInv /\ [Next]_vars => TraceInv'
<1>. SUFFICES ASSUME TraceInv, [Next]_vars PROVE TraceInv'
  OBVIOUS
<1>0. IInv'
  BY NextIInv DEF TraceInv
<1>1. CASE Program \/ Waiting \/ UNCHANGED vars
  <2>1. UNCHANGED <<trace, idVars, error, loop_pc>>
    BY <1>1 DEF Program, Waiting, RegisterTask, SyncEvent, BadSyncEvent, ReachPoint,
       ReachPointWithEvent, Suspend, AbandonPoint, TaskFinished, NotifyLoop, EnableWait,
       CheckWait, Wake, vars, replayVars
  <2>2. QED BY <1>0, <2>1, NoDecisionStep DEF TraceInv, Crashed
<1>2. CASE EnableLoop \/ WakeLoop \/ IterateIdle \/ IterateAutoResume
  <2>1. UNCHANGED <<trace, idVars, error>> /\ loop_pc # "dead"
    BY <1>2 DEF EnableLoop, WakeLoop, IterateIdle, IterateAutoResume, Iterating, replayVars
  <2>2. QED BY <1>0, <2>1, NoDecisionStep DEF TraceInv, Crashed
<1>3. CASE IterateRandom \/ IterateReplay
  <2>1. /\ Deciding /\ error' = error
        /\ \E to_run \in Choices(deps, Running, Ready) : Decide(to_run)
    BY <1>3 DEF IterateRandom, IterateReplay, replayVars
  <2>2. TraceReplayable'
    BY <1>0, <2>1, DecisionIsReplayable DEF IInv
  <2>3. QED BY <1>0, <2>1, <2>2, AssignmentNumbers DEF TraceInv, IInv, Deciding
<1>4. CASE IterateDiverged \/ IterateNoStableId
  <2>1. Deciding /\ trace' = trace /\ ~Crashed
    BY <1>4 DEF IterateDiverged, IterateNoStableId, Deciding, Iterating, Crashed
  <2>2. QED
    BY <1>0, <2>1, AssignmentNumbers, SameTraceStaysReplayable DEF TraceInv, IInv, Deciding
<1>5. QED BY <1>1, <1>2, <1>3, <1>4 DEF Next, ControlLoop, ControlLoopIteration

-----------------------------------------------------------------------------
(* Stable ids are 1, 2, ... without gaps and name one task each, however   *)
(* many tasks there are, whatever their names and the decisions at which   *)
(* they are numbered.                                                      *)
THEOREM StableIdsNameTasks == Spec => []StableIdsName
<1>1. TraceInv => StableIdsName
  BY DEF TraceInv
<1>2. QED BY <1>1, InitTraceInv, NextTraceInv, PTL DEF Spec

(* get_replay and step_from_item find the stable id and the ready task     *)
(* that they expect, in every trace of every execution.                    *)
THEOREM TracesReplayable == Spec => []TraceReplayable
<1>1. TraceInv => TraceReplayable
  BY DEF TraceInv
<1>2. QED BY <1>1, InitTraceInv, NextTraceInv, PTL DEF Spec


-----------------------------------------------------------------------------
(* A replay is followed as it is written.                                  *)

(* A task has its stable id, and so its place in a trace, from a decision  *)
(* at which it was Ready, when its name was already known.                 *)
NumberedAreRegistered ==
  \A t \in TaskIds : state[t] = "Ready" \/ stable_id[t] # 0 => t \in Registered

ReplayInv == TraceInv /\ NumberedAreRegistered /\ ReplayFollowed

(* A decision as get_trace and from_trace show it. *)
ShownReady(d) ==
  {[id |-> stable_id[r.id], name |-> name[r.id], position |-> r.position] : r \in d.ready}
ShownResumed(d) == {stable_id[t] : t \in d.resumed}

(* What has been decided is shown as before, since neither the names of    *)
(* tasks that are in the trace nor their stable ids change.                *)
LEMMA DecisionsStay ==
  ASSUME TraceInv, NumberedAreRegistered, NEW i \in DOMAIN trace, ~Crashed \/ UNCHANGED idVars,
         \A t \in TaskIds : stable_id[t] # 0 => stable_id'[t] = stable_id[t],
         \A t \in Registered : name'[t] = name[t]
  PROVE  /\ {[id |-> stable_id'[r.id], name |-> name'[r.id], position |-> r.position] :
               r \in trace[i].ready} = ShownReady(trace[i])
         /\ {stable_id'[t] : t \in trace[i].resumed} = ShownResumed(trace[i])
<1>1. \A r \in trace[i].ready :
        r.id \in TaskIds /\ stable_id[r.id] # 0 /\ r.id \in Registered
  BY TraceType DEF TraceInv, IInv, TraceReplayable, NumberedAreRegistered
<1>2. \A r \in trace[i].ready : stable_id'[r.id] = stable_id[r.id] /\ name'[r.id] = name[r.id]
  BY <1>1
<1>3. \A t \in trace[i].resumed : stable_id'[t] = stable_id[t]
  <2>1. CASE UNCHANGED idVars
    BY <2>1 DEF idVars
  <2>2. CASE ~Crashed
    <3>1. trace[i].resumed \subseteq {r.id : r \in trace[i].ready}
      BY <2>2 DEF TraceInv, TraceReplayable
    <3>2. QED
      BY <1>2, <3>1
  <2>3. QED
    BY <2>1, <2>2
<1>4. QED
  BY <1>2, <1>3 DEF ShownReady, ShownResumed

(* Stable ids that were given are kept, and given to Ready tasks only. *)
LEMMA AssignmentKeeps ==
  ASSUME TypeOK, AssignStableIds
  PROVE  \A t \in TaskIds :
           /\ stable_id[t] # 0 => stable_id'[t] = stable_id[t]
           /\ stable_id'[t] # 0 => stable_id[t] # 0 \/ state[t] = "Ready"
BY DEF AssignStableIds, Unnumbered, Ready, TypeOK

(* Steps of the control loop that decide nothing, or diverge. *)
LEMMA NoDecisionFollows ==
  ASSUME ReplayInv, UNCHANGED <<trace, replay, next_step>>, ~Crashed \/ UNCHANGED idVars,
         \A t \in TaskIds : stable_id[t] # 0 => stable_id'[t] = stable_id[t],
         \A t \in Registered : name'[t] = name[t]
  PROVE  ReplayFollowed'
<1>1. SUFFICES ASSUME replay.on, NEW i \in DOMAIN trace
      PROVE  /\ replay.steps[i].ready_tasks =
                  {[id |-> stable_id'[r.id], name |-> name'[r.id], position |-> r.position] :
                     r \in trace[i].ready}
             /\ replay.steps[i].resumed_tasks = {stable_id'[t] : t \in trace[i].resumed}
  BY DEF ReplayInv, ReplayFollowed
<1>2. /\ replay.steps[i].ready_tasks = ShownReady(trace[i])
      /\ replay.steps[i].resumed_tasks = ShownResumed(trace[i])
  BY <1>1 DEF ReplayInv, ReplayFollowed, ShownReady, ShownResumed
<1>3. QED
  BY <1>2, DecisionsStay DEF ReplayInv

(* A decision that follows the replay is shown as the step it follows. *)
LEMMA ReplayStepFollows ==
  ASSUME ReplayInv, IterateReplay, TypeOK'
  PROVE  ReplayFollowed'
<1>1. PICK to_run \in Choices(deps, Running, Ready) : IsReplayed(to_run) /\ Decide(to_run)
  BY DEF IterateReplay
<1>2. /\ Deciding /\ StepMatches /\ replay.on
      /\ next_step' = next_step + 1 /\ UNCHANGED <<replay, error, name, point>>
  BY DEF IterateReplay, taskVars
<1>3. /\ ~error /\ ~Crashed
      /\ trace \in Seq(Decisions) /\ trace' = Append(trace, Decision(to_run))
  BY <1>1, <1>2 DEF ReplayInv, TraceInv, IInv, ErrorStopsLoop, TypeOK, Deciding, Iterating,
                    Decide, Crashed
<1>4. /\ Len(trace) \in Nat /\ Len(trace') = Len(trace) + 1
      /\ DOMAIN trace = 1..Len(trace) /\ DOMAIN trace' = 1..(Len(trace) + 1)
      /\ trace'[Len(trace) + 1] = Decision(to_run)
      /\ \A i \in 1..Len(trace) : trace'[i] = trace[i]
  BY <1>3
<1>5. Len(trace) = next_step /\ next_step < Len(replay.steps)
  BY <1>2 DEF ReplayInv, ReplayFollowed, StepMatches
<1>6. \A t \in TaskIds : stable_id[t] # 0 => stable_id'[t] = stable_id[t]
  BY <1>2, AssignmentKeeps DEF Deciding, ReplayInv, TraceInv, IInv
<1>7. ASSUME NEW i \in 1..Len(trace)
      PROVE  /\ replay.steps[i].ready_tasks =
                  {[id |-> stable_id'[r.id], name |-> name'[r.id], position |-> r.position] :
                     r \in trace'[i].ready}
             /\ replay.steps[i].resumed_tasks = {stable_id'[t] : t \in trace'[i].resumed}
  <2>1. /\ replay.steps[i].ready_tasks = ShownReady(trace[i])
        /\ replay.steps[i].resumed_tasks = ShownResumed(trace[i])
    BY <1>2, <1>4 DEF ReplayInv, ReplayFollowed, ShownReady, ShownResumed
  <2>2. QED
    BY <1>2, <1>3, <1>4, <1>6, <2>1, DecisionsStay DEF ReplayInv
<1>8. LET d == Decision(to_run)
          step == replay.steps[next_step + 1]
      IN /\ step.ready_tasks =
              {[id |-> stable_id'[r.id], name |-> name'[r.id], position |-> r.position] :
                 r \in d.ready}
         /\ step.resumed_tasks = {stable_id'[t] : t \in d.resumed}
  <2> DEFINE at(t) == [id |-> t, position |-> point[t]]
             shown(r) == [id |-> stable_id'[r.id], name |-> name[r.id], position |-> r.position]
             ready == {at(t) : t \in Ready}
  <2>1. Decision(to_run).ready = ready /\ Decision(to_run).resumed = to_run
    BY DEF Decision
  <2>2. replay.steps[next_step + 1].ready_tasks = {shown(at(t)) : t \in Ready}
    BY <1>2 DEF StepMatches
  <2>3. {shown(at(t)) : t \in Ready} = {shown(r) : r \in ready}
    <3> HIDE DEF at, shown
    <3>1. QED
      OBVIOUS
  <2>4. replay.steps[next_step + 1].resumed_tasks = {stable_id'[t] : t \in to_run}
    BY <1>1 DEF IsReplayed, ReplayedTasks
  <2>5. name' = name
    BY <1>2
  <2>6. QED
    BY <2>1, <2>2, <2>3, <2>4, <2>5
<1>9. ASSUME NEW i \in DOMAIN trace'
      PROVE  /\ replay.steps[i].ready_tasks =
                  {[id |-> stable_id'[r.id], name |-> name'[r.id], position |-> r.position] :
                     r \in trace'[i].ready}
             /\ replay.steps[i].resumed_tasks = {stable_id'[t] : t \in trace'[i].resumed}
  <2>1. CASE i \in 1..Len(trace)
    BY <2>1, <1>7
  <2>2. CASE i = next_step + 1
    BY <2>2, <1>4, <1>5, <1>8
  <2>3. QED
    BY <2>1, <2>2, <1>4, <1>5
<1>10. Len(trace') = next_step' /\ next_step' <= Len(replay'.steps)
  <2>1. next_step \in Nat
    BY DEF ReplayInv, TraceInv, IInv, TypeOK
  <2>2. next_step + 1 <= Len(replay.steps)
    BY <1>5, <2>1
  <2>3. QED
    BY <1>2, <1>4, <1>5, <2>2
<1>11. QED
  BY <1>2, <1>9, <1>10 DEF ReplayFollowed

LEMMA InitReplayInv == Init => ReplayInv
<1> SUFFICES ASSUME Init PROVE ReplayInv
  OBVIOUS
<1>1. TraceInv
  BY InitTraceInv
<1>2. NumberedAreRegistered
  BY DEF Init, NumberedAreRegistered
<1>3. Len(replay.steps) \in Nat
  BY ReplaysAssumption DEF Init
<1>4. QED
  BY <1>1, <1>2, <1>3 DEF Init, ReplayInv, ReplayFollowed

(* Only a registered task comes to a point or to a decision.  *)
LEMMA NumberedStep ==
  ASSUME IInv, NumberedAreRegistered, [Next]_vars
  PROVE  NumberedAreRegistered'
<1>1. CASE UNCHANGED vars
  BY <1>1 DEF NumberedAreRegistered, Registered, vars, taskVars, idVars
<1>2. ASSUME NEW t \in TaskIds, NEW n \in Names, RegisterTask(t, n)
      PROVE  NumberedAreRegistered'
  <2>1. /\ next_task_id' = next_task_id + 1 /\ next_task_id \in Nat
        /\ TaskIds \subseteq Nat
        /\ stable_id' = stable_id
        /\ \A u \in TaskIds : state'[u] = "Ready" => state[u] = "Ready"
    BY <1>2, TaskIdsType DEF RegisterTask, idVars, IInv, TypeOK
  <2>2. QED
    BY <2>1 DEF NumberedAreRegistered, Registered
<1>3. ASSUME NEW t \in TaskIds, NEW p \in Points, Suspend(t, p)
      PROVE  NumberedAreRegistered'
  <2>1. t \in Registered
    BY <1>3 DEF Suspend, IInv, UnregisteredIsFresh
  <2>2. /\ next_task_id' = next_task_id /\ stable_id' = stable_id
        /\ \A u \in TaskIds \ {t} : state'[u] = state[u]
    BY <1>3 DEF Suspend, taskVars, idVars, IInv, TypeOK
  <2>3. QED
    BY <2>1, <2>2 DEF NumberedAreRegistered, Registered
<1>4. ASSUME UNCHANGED <<taskVars, idVars>>,
             \A u \in TaskIds : state'[u] = "Ready" => state[u] = "Ready"
      PROVE  NumberedAreRegistered'
  BY <1>4 DEF NumberedAreRegistered, Registered, taskVars, idVars
<1>5. CASE Program
  <2>1. ASSUME NEW t \in TaskIds, TaskFinished(t)
        PROVE  NumberedAreRegistered'
    BY <2>1, <1>4 DEF TaskFinished, IInv, TypeOK
  <2>2. CASE \/ \E a \in Actors, d \in Answers : SyncEvent(a, d)
             \/ \E t \in TaskIds, d \in Answers : BadSyncEvent(t, d)
             \/ \E t \in TaskIds : AbandonPoint(t)
    BY <2>2, <1>4 DEF SyncEvent, BadSyncEvent, AbandonPoint
  <2>3. QED
    BY <1>2, <1>3, <1>5, <2>1, <2>2 DEF Program, ReachPoint, ReachPointWithEvent
<1>6. CASE Waiting
  BY <1>4, <1>6 DEF Waiting, NotifyLoop, EnableWait, CheckWait, Wake
<1>7. ASSUME NEW tasks, ResumeTasks(tasks)
      PROVE  \A u \in TaskIds : state'[u] = "Ready" => state[u] = "Ready"
  BY <1>7 DEF ResumeTasks
<1>8. CASE EnableLoop \/ WakeLoop \/ IterateIdle \/ IterateAutoResume
  BY <1>4, <1>7, <1>8 DEF EnableLoop, WakeLoop, IterateIdle, IterateAutoResume
<1>9. ASSUME Deciding, UNCHANGED taskVars,
             \A u \in TaskIds : state'[u] = "Ready" => state[u] = "Ready"
      PROVE  NumberedAreRegistered'
  BY <1>9, AssignmentKeeps DEF Deciding, IInv, NumberedAreRegistered, Registered, taskVars
<1>10. CASE IterateRandom \/ IterateReplay \/ IterateDiverged \/ IterateNoStableId
  BY <1>7, <1>9, <1>10
  DEF IterateRandom, IterateReplay, IterateDiverged, IterateNoStableId, Decide
<1>11. QED
  BY <1>1, <1>5, <1>6, <1>8, <1>10 DEF Next, ControlLoop, ControlLoopIteration

LEMMA NextReplayInv == ReplayInv /\ [Next]_vars => ReplayInv'
<1> SUFFICES ASSUME ReplayInv, [Next]_vars PROVE ReplayInv'
  OBVIOUS
<1>1. TraceInv' /\ NumberedAreRegistered'
  BY NextTraceInv, NumberedStep DEF ReplayInv, TraceInv
<1>2. CASE Program \/ Waiting \/ EnableLoop \/ WakeLoop \/ IterateIdle \/ IterateAutoResume
           \/ UNCHANGED vars
  <2>1. UNCHANGED <<trace, idVars, replay, next_step>>
    BY <1>2 DEF Program, Waiting, RegisterTask, SyncEvent, BadSyncEvent, ReachPoint,
       ReachPointWithEvent, Suspend, AbandonPoint, TaskFinished, NotifyLoop, EnableWait,
       CheckWait, Wake, EnableLoop, WakeLoop, IterateIdle, IterateAutoResume, vars,
       replayVars
  <2>2. \A t \in Registered : name'[t] = name[t]
    <3>1. CASE \E t \in TaskIds, n \in Names : RegisterTask(t, n)
      <4>1. PICK t \in TaskIds, n \in Names : RegisterTask(t, n)
        BY <3>1
      <4>2. t \notin Registered
        BY <4>1, TaskIdsType DEF RegisterTask, Registered
      <4>3. QED
        BY <4>1, <4>2 DEF RegisterTask, Registered, ReplayInv, TraceInv, IInv, TypeOK
    <3>2. CASE name' = name
      BY <3>2
    <3>3. QED
      BY <1>2, <3>1, <3>2 DEF Program, Waiting, SyncEvent, BadSyncEvent, ReachPoint,
         ReachPointWithEvent, Suspend, AbandonPoint, TaskFinished, NotifyLoop, EnableWait,
         CheckWait, Wake, EnableLoop, WakeLoop, IterateIdle, IterateAutoResume, vars,
         taskVars
  <2>3. QED
    BY <1>1, <2>1, <2>2, NoDecisionFollows DEF idVars, ReplayInv
<1>3. CASE IterateDiverged \/ IterateNoStableId
  <2>1. /\ Deciding /\ ~Crashed
        /\ UNCHANGED <<trace, replay, next_step, name>>
    BY <1>3 DEF IterateDiverged, IterateNoStableId, Deciding, Iterating, Crashed, taskVars,
                replayVars
  <2>2. QED
    BY <1>1, <2>1, AssignmentKeeps, NoDecisionFollows
    DEF Deciding, ReplayInv, TraceInv, IInv
<1>4. CASE IterateRandom
  <2>1. ~replay'.on
    BY <1>4 DEF IterateRandom, replayVars
  <2>2. QED
    BY <1>1, <2>1 DEF ReplayInv, ReplayFollowed
<1>5. CASE IterateReplay
  BY <1>1, <1>5, ReplayStepFollows DEF ReplayInv, TraceInv, IInv
<1>6. QED
  BY <1>2, <1>3, <1>4, <1>5 DEF Next, ControlLoop, ControlLoopIteration

(* A replay is never followed half: whatever the test has become, the      *)
(* decisions made are those of the replay, of the same tasks at the same   *)
(* points, for any replay and any number of tasks of any names.            *)
THEOREM ReplaysFollowed == Spec => []ReplayFollowed
<1>1. ReplayInv => ReplayFollowed
  BY DEF ReplayInv
<1>2. QED BY <1>1, InitReplayInv, NextReplayInv, PTL DEF Spec
=============================================================================
