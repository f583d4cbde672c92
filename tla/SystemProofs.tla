---------------------------- MODULE SystemProofs ----------------------------
(***************************************************************************)
(* Safety of whole tests, for any number of tasks, locks and programs: a   *)
(* test is a client of the models like any other, so they keep in it what  *)
(* they promise.                                                           *)
(***************************************************************************)
EXTENDS System, RegistryProofs

(* The tasks of the test that runs. *)
Tasks == TaskIds \cap DOMAIN program.code

(* The place of each actor in its code.  *)
Placed ==
  /\ program \in Programs
  /\ ip \in [Actors -> Nat]
  /\ \A a \in Actors \cap DOMAIN program.code : ip[a] \in 1..End(a)
  /\ state \in [TaskIds -> {"none", "Running", "Ready", "Finished"}]
  /\ panicked \subseteq Actors
  /\ spawned \subseteq Tasks
  /\ \A t \in TaskIds : state[t] # "none" => t \in Tasks

LEMMA CodeType ==
  ASSUME NEW p \in Programs, NEW a \in DOMAIN p.code
  PROVE  /\ Len(p.code[a]) \in Nat
         /\ DOMAIN p.code[a] = 1..Len(p.code[a])
         /\ \A i \in 1..Len(p.code[a]) : OpWellFormed(p, i, p.code[a][i])
  BY ProgramsAssumption DEF WellFormed

LEMMA RootHasCode == ASSUME NEW p \in Programs PROVE Root \in DOMAIN p.code
  BY ProgramsAssumption DEF WellFormed

(* What an actor executes next is an operation of its code. *)
LEMMA StepHasOp ==
  ASSUME Placed, NEW a \in Actors, CanStep(a)
  PROVE  /\ a \in DOMAIN program.code
         /\ a \in TaskIds => state[a] = "Running"
         /\ ip[a] \in 1..Len(program.code[a])
         /\ Len(program.code[a]) \in Nat
         /\ Op(a) = program.code[a][ip[a]]
         /\ OpWellFormed(program, ip[a], Op(a))
<1>1. a \in DOMAIN program.code
  BY RootHasCode DEF Placed, CanStep, Tasks, Actors
<1>2. ip[a] \in 1..Len(program.code[a]) /\ Len(program.code[a]) \in Nat
  BY <1>1, CodeType DEF Placed, CanStep, AtEnd, End
<1>3. QED
  BY <1>1, <1>2, CodeType DEF Placed, CanStep, Op

-----------------------------------------------------------------------------
(* What a step does to the place of the actors. *)
LEMMA PlacedAdvance ==
  ASSUME Placed, NEW a \in Actors, CanStep(a), Advance(a), UNCHANGED panicked,
         UNCHANGED spawned \/ (Op(a).op = "spawn" /\ spawned' = spawned \cup Op(a).tasks),
         UNCHANGED state \/ (a \in TaskIds /\ state' = [state EXCEPT ![a] = "Ready"])
  PROVE  Placed'
<1>1. ip[a] \in 1..Len(program.code[a]) /\ Len(program.code[a]) \in Nat
      /\ OpWellFormed(program, ip[a], Op(a))
  BY StepHasOp
<1>2. program' = program /\ ip' = [ip EXCEPT ![a] = @ + 1]
  BY DEF Advance
<1>3. \A b \in Actors \cap DOMAIN program'.code : ip'[b] \in 1..End(b)'
  BY <1>1, <1>2 DEF Placed, End
<1>4. spawned' \subseteq Tasks'
  BY <1>1, <1>2 DEF Placed, OpWellFormed, Tasks
<1>5. \A t \in TaskIds : state'[t] # "none" => t \in Tasks'
  BY <1>2, StepHasOp DEF Placed, Tasks
<1>6. QED
  BY <1>2, <1>3, <1>4, <1>5 DEF Placed


LEMMA PlacedPanic ==
  ASSUME Placed, NEW a \in Actors, CanStep(a), Panic(a), UNCHANGED state
  PROVE  Placed'
<1>1. program' = program /\ ip' = [ip EXCEPT ![a] = End(a)] /\ spawned' = spawned
      /\ panicked' = panicked \cup {a}
  BY DEF Panic
<1>2. End(a) \in Nat /\ End(a) \in 1..End(a)
  BY StepHasOp DEF End
<1>3. QED
  BY <1>1, <1>2 DEF Placed, Tasks, End

(* Steps of the control loop and ends of tasks, which move states only. *)
LEMMA PlacedState ==
  ASSUME Placed, UNCHANGED <<program, ip, spawned, panicked>>, NEW S \in SUBSET Tasks,
         NEW s \in {"Running", "Ready", "Finished"},
         state' = [t \in TaskIds |-> IF t \in S THEN s ELSE state[t]]
  PROVE  Placed'
  BY DEF Placed, Tasks, End

LEMMA PlacedSelect ==
  ASSUME Placed, NEW a \in TaskIds, CanStep(a), SelectTask(a)
  PROVE  Placed'
<1> DEFINE tasks == Op(a).tasks
           polled == {t \in tasks : state[t] # "none"}
<1>1. /\ program' = program /\ panicked' = panicked
      /\ state' = [t \in TaskIds |-> IF t \in polled THEN "Finished" ELSE state[t]]
      /\ spawned' = spawned \ (tasks \ polled)
      /\ ip' = [b \in Actors |-> IF b \in tasks THEN End(b)
                                 ELSE IF b = a THEN ip[a] + 1 ELSE ip[b]]
  BY DEF SelectTask
<1>2. /\ ip[a] \in 1..Len(program.code[a]) /\ Len(program.code[a]) \in Nat
      /\ tasks \subseteq Tasks
  BY StepHasOp DEF Actors, SelectTask, OpWellFormed, Tasks
<1>3. \A b \in Actors \cap DOMAIN program.code : End(b) \in Nat /\ End(b) \in 1..End(b)
  BY CodeType DEF Placed, End
<1> HIDE DEF tasks
<1>4. ip' \in [Actors -> Nat]
  BY <1>1, <1>2, <1>3 DEF Placed, Tasks
<1>5. \A b \in Actors \cap DOMAIN program'.code : ip'[b] \in 1..End(b)'
  BY <1>1, <1>2, <1>3 DEF Placed, End
<1>6. QED
  BY <1>1, <1>2, <1>4, <1>5 DEF Placed, Tasks

-----------------------------------------------------------------------------
(* The events that the tests send.                                         *)
EventsOfTests ==
  {e \in {p.code[a][i].event : p \in Programs, a \in Actors, i \in Nat} : Addressed(e)}
    \cup {Ev("WaitingForWatchUpdate", w, 0) : w \in WatchIds}

InitEventsOfTests ==
  {e \in {p.code[a][i].event : p \in Programs, a \in Actors, i \in Nat} : AddressedInit(e)}

LEMMA TestsAddressed == AllAddressed(EventsOfTests, InitEventsOfTests)
<1>1. \A w \in WatchIds : Addressed(Ev("WaitingForWatchUpdate", w, 0))
  BY DEF Addressed, Ev, Mutex!Events, Rwlock!Events, Watch!Events, Barrier!Events,
         TaskWait!Events
<1>2. QED
  BY <1>1 DEF AllAddressed, EventsOfTests, InitEventsOfTests

LEMMA SentByTest ==
  ASSUME Placed, NEW a \in Actors, CanStep(a)
  PROVE  /\ Op(a).op \in {"sync_event", "execution_point_with_event"}
              => Op(a).event \in EventsOfTests
         /\ Op(a).op \in {"sync_init_event", "StartBarrier::new"}
              => Op(a).event \in InitEventsOfTests
<1>1. Op(a) = program.code[a][ip[a]] /\ ip[a] \in Nat /\ program \in Programs
      /\ OpWellFormed(program, ip[a], Op(a))
  BY StepHasOp DEF Placed
<1>2. ASSUME Op(a).op \in {"sync_event", "execution_point_with_event"}
      PROVE  Op(a).event \in EventsOfTests
  BY <1>1, <1>2 DEF OpWellFormed, EventsOfTests
<1>3. ASSUME Op(a).op \in {"sync_init_event", "StartBarrier::new"}
      PROVE  Op(a).event \in InitEventsOfTests
  BY <1>1, <1>3 DEF OpWellFormed, InitEventsOfTests
<1>4. QED
  BY <1>2, <1>3

(* The models in a test see what some client of theirs might send. *)
LEMMA StepOfRegistry ==
  ASSUME Placed, [Next]_vars
  PROVE  [RegistryNext(EventsOfTests, InitEventsOfTests)]_registryVars
<1>1. CASE UNCHANGED vars
  BY <1>1 DEF vars
<1>2. CASE Resume
  BY <1>2 DEF Resume
<1>3. ASSUME NEW t \in TaskIds, Poll(t)
      PROVE  UNCHANGED registryVars
  BY <1>3 DEF Poll
<1>4. ASSUME NEW a \in Actors, Work(a)
      PROVE  [RegistryNext(EventsOfTests, InitEventsOfTests)]_registryVars
  <2>1. CASE CreateStartBarrier(a) \/ SendInitEvent(a)
    <3>1. CanStep(a) /\ Op(a).op \in {"sync_init_event", "StartBarrier::new"}
          /\ AcceptInit(Op(a).event)
      BY <2>1 DEF CreateStartBarrier, SendInitEvent
    <3>2. QED
      BY <3>1, SentByTest DEF RegistryNext
  <2>2. CASE SpawnTasks(a) \/ AwaitTasks(a) \/ CheckValue(a)
    BY <2>2 DEF SpawnTasks, AwaitTasks, CheckValue
  <2>3. CASE a \in TaskIds /\ (SendEvent(a) \/ RejectedAtPoint(a))
    <3>1. /\ CanStep(a) /\ Op(a).op \in {"sync_event", "execution_point_with_event"}
          /\ Accept(a, Op(a).event) \/ Reject(a, Op(a).event)
      BY <2>3 DEF SendEvent, RejectedAtPoint
    <3>2. QED
      BY <2>3, <3>1, SentByTest DEF RegistryNext
  <2>4. CASE a \in TaskIds /\ SuspendAtPoint(a)
    <3>1. CASE Op(a).op = "execution_point"
      BY <2>4, <3>1 DEF SuspendAtPoint
    <3>2. CASE Op(a).op # "execution_point"
      <4>1. CanStep(a) /\ Op(a).op = "execution_point_with_event" /\ Accept(a, Op(a).event)
        BY <2>4, <3>2 DEF SuspendAtPoint
      <4>2. QED
        BY <2>4, <4>1, SentByTest DEF RegistryNext
    <3>3. QED
      BY <3>1, <3>2
  <2>5. CASE a \in TaskIds /\ EvaluateWatch(a)
    <3>1. \/ UNCHANGED registryVars
          \/ /\ Accept(a, Ev("WaitingForWatchUpdate", Op(a).id, 0))
             /\ CanStep(a) /\ Op(a).op = "wait_for"
      BY <2>5 DEF EvaluateWatch
    <3>2. CanStep(a) /\ Op(a).op = "wait_for" => Op(a).id \in WatchIds
      BY StepHasOp DEF OpWellFormed
    <3>3. QED
      BY <2>5, <3>1, <3>2 DEF RegistryNext, EventsOfTests
  <2>6. CASE \/ ArriveAtBarrier(a) \/ AcquireLock(a) \/ ReleaseLock(a) \/ SelectTask(a)
             \/ UpdateWatch(a) \/ EndOfWatch(a) \/ RepeatLoop(a) \/ UseValue(a)
             \/ CheckAssertion(a) \/ Finish(a)
    BY <2>6 DEF ArriveAtBarrier, AcquireLock, ReleaseLock, SelectTask, UpdateWatch,
                EndOfWatch, RepeatLoop, UseValue, CheckAssertion, Finish
  <2>7. QED
    BY <1>4, <2>1, <2>2, <2>3, <2>4, <2>5, <2>6 DEF Work
<1>5. QED
  BY <1>1, <1>2, <1>3, <1>4 DEF Next, Step

-----------------------------------------------------------------------------
(* The scheduler is told of no task that the test does not have.           *)
TasksKnown ==
  /\ \A l \in RwlockIds : rwlock_held_by[l].tasks \subseteq Tasks
  /\ \A b \in BarrierIds : barriers[b].tasks \subseteq Tasks

LEMMA EventMentions ==
  ASSUME RegistryIInv, NEW t \in TaskIds, NEW e, Addressed(e), Accept(t, e) \/ Reject(t, e)
  PROVE  /\ \A l \in RwlockIds :
              rwlock_held_by'[l].tasks \subseteq rwlock_held_by[l].tasks \cup {t}
         /\ \A b \in BarrierIds : barriers'[b].tasks \subseteq barriers[b].tasks \cup {t}
<1>1. Rwlock!TypeOK /\ Barrier!TypeOK
  BY DEF RegistryIInv, OthersTypeOK
<1>2. \A l \in RwlockIds :
        rwlock_held_by'[l].tasks \subseteq rwlock_held_by[l].tasks \cup {t}
  <2>1. CASE e.event \notin Rwlock!Events
    BY <2>1 DEF Accept, Reject, rwlockVars
  <2>2. CASE e.event \in Rwlock!Events
    <3>1. Rwlock!Accept(t, e) \/ Rwlock!Reject(t, e)
      BY <2>2 DEF Accept, Reject
    <3>2. DOMAIN rwlock_held_by = RwlockIds
      BY <1>1 DEF Rwlock!TypeOK
    <3>3. \/ rwlock_held_by' = rwlock_held_by
          \/ \E h : /\ rwlock_held_by' = [rwlock_held_by EXCEPT ![e.id] = h]
                    /\ h.tasks \subseteq rwlock_held_by[e.id].tasks \cup {t}
      BY <3>1
      DEF Rwlock!Accept, Rwlock!Reject, Rwlock!LockingRwlock, Rwlock!NoLongerWaits,
          Rwlock!DoesNotWait, Rwlock!AbortedLockingRwlock, Rwlock!LockedRead,
          Rwlock!LockedWrite, Rwlock!BadLockedRead, Rwlock!ReleasedRead,
          Rwlock!BadReleasedRead, Rwlock!ReleasedWrite, Rwlock!vars, Rwlock!HeldAs,
          Rwlock!Unheld
    <3>4. QED
      BY <3>2, <3>3
  <2>3. QED
    BY <2>1, <2>2
<1>3. \A b \in BarrierIds : barriers'[b].tasks \subseteq barriers[b].tasks \cup {t}
  <2>1. CASE e.event \notin Barrier!Events
    BY <2>1 DEF Accept, Reject, barrierVars
  <2>2. CASE e.event \in Barrier!Events
    <3>1. Barrier!Accept(t, e) \/ Barrier!Reject(t, e)
      BY <2>2 DEF Accept, Reject
    <3>2. /\ DOMAIN barriers = BarrierIds
          /\ \A b \in BarrierIds : DOMAIN barriers[b] = {"exists", "capacity", "reached", "tasks"}
      BY <1>1 DEF Barrier!TypeOK
    <3>3. e.id \in BarrierIds
      BY <2>2 DEF Addressed
    <3>4. \/ barriers' = barriers
          \/ \E h : /\ barriers' = [barriers EXCEPT ![e.id] = h]
                    /\ h.tasks \subseteq barriers[e.id].tasks \cup {t}
      BY <3>1, <3>2, <3>3
      DEF Barrier!Accept, Barrier!Reject, Barrier!WaitingForBarrier,
          Barrier!BadWaitingForBarrier, Barrier!Leave, Barrier!AbortedWaitingForBarrier,
          Barrier!CompletedBarrierWait, Barrier!BadLeave, Barrier!vars,
          Barrier!BarrierState, Barrier!NoBarrier
    <3>5. QED
      BY <3>2, <3>4
  <2>3. QED
    BY <2>1, <2>2
<1>4. QED
  BY <1>2, <1>3

LEMMA InitEventMentions ==
  ASSUME RegistryIInv, NEW e, AddressedInit(e), AcceptInit(e)
  PROVE  /\ rwlock_held_by' = rwlock_held_by
         /\ \A b \in BarrierIds : barriers'[b].tasks \subseteq barriers[b].tasks
<1>1. barriers' = barriers \/ barriers' = [barriers EXCEPT ![e.id] =
                                             Barrier!BarrierState(e.arg, FALSE, {})]
  BY DEF AcceptInit, Barrier!NewBarrier, barrierVars
<1>2. Barrier!BarrierState(e.arg, FALSE, {}).tasks = {}
  BY DEF Barrier!BarrierState
<1>3. QED
  BY <1>1, <1>2 DEF AcceptInit, rwlockVars, RegistryIInv, Barrier!TypeOK


(* What a task needs is what the rwlocks and the barriers tell. *)
LEMMA AnswerOf ==
  ASSUME RegistryIInv, NEW t \in TaskIds
  PROVE  /\ Answers[t] \in Deps
         /\ Answers[t].blocked <=>
              \/ Mutex!Answer(t).blocked \/ Rwlock!Answer(t).blocked
              \/ Barrier!Answer(t).blocked \/ Join!Answer(t).blocked
              \/ Unknown!Answer(t).blocked \/ Watch!Answer(t).blocked
              \/ TaskWait!Answer(t).blocked
         /\ Answers[t].need \subseteq Rwlock!Answer(t).need \cup Barrier!Answer(t).need
<1> DEFINE answers == {Mutex!Answer(t), Rwlock!Answer(t), Barrier!Answer(t), Join!Answer(t),
                       Unknown!Answer(t), Watch!Answer(t), TaskWait!Answer(t)}
<1>1. Answers[t] = MergeAll(answers)
  BY DEF Answers, TaskProgressDependencies
<1>2. Answers[t] \in Deps
  BY AnswersAreDeps DEF Answers, RegistryIInv, OthersTypeOK
<1>3. Blocked.need = {} /\ ReadyAlone.need = {}
  BY DEF Blocked, ReadyAlone, ReadyWithOthers
<1>4. \A a \in answers : a.need \subseteq Rwlock!Answer(t).need \cup Barrier!Answer(t).need
  BY <1>3, PlainAnswers
<1>5. (\E a \in answers : a.blocked) <=>
        \/ Mutex!Answer(t).blocked \/ Rwlock!Answer(t).blocked
        \/ Barrier!Answer(t).blocked \/ Join!Answer(t).blocked
        \/ Unknown!Answer(t).blocked \/ Watch!Answer(t).blocked
        \/ TaskWait!Answer(t).blocked
  OBVIOUS
<1> HIDE DEF answers
<1>6. Answers[t].blocked <=> \E a \in answers : a.blocked
  BY <1>1 DEF MergeAll, Blocked, ReadyWithOthers
<1>7. Answers[t].need \subseteq UNION {a.need : a \in answers}
  BY <1>1 DEF MergeAll, Blocked, ReadyWithOthers
<1>8. QED
  BY <1>2, <1>4, <1>5, <1>6, <1>7

LEMMA NeedsOfTests ==
  ASSUME RegistryIInv, TasksKnown, NEW t \in TaskIds
  PROVE  Answers[t].need \subseteq Tasks
<1>1. Rwlock!Answer(t).need \subseteq Tasks
  <2>1. \A w \in rwlock_waiting[t] : Rwlock!Holders(w[1], w[2]) \subseteq Tasks
    BY DEF RegistryIInv, OthersTypeOK, Rwlock!TypeOK, Rwlock!Holders, TasksKnown
  <2>2. QED
    BY <2>1 DEF Rwlock!Answer, Rwlock!ReadyWithOthers
<1>2. Barrier!Answer(t).need \subseteq Tasks
  <2>1. barrier_waiting[t] # None => barriers[barrier_waiting[t]].tasks \subseteq Tasks
    BY DEF RegistryIInv, Barrier!TypeOK, TasksKnown
  <2>2. QED
    BY <2>1 DEF Barrier!Answer, Barrier!ReadyWithOthers, Barrier!ReadyAlone, Barrier!Blocked
<1>3. QED
  BY <1>1, <1>2, AnswerOf

(* What is due is reached from tasks that run, or from one that can. *)
LEMMA DueReached ==
  ASSUME NEW tasks \in Sched!Due
  PROVE  \/ /\ Sched!HasReady(Answers, Sched!Running)
            /\ \A u \in tasks : /\ u \notin Sched!Running
                                /\ \E t \in Sched!Running : u \in Sched!Reach(Answers, t)
         \/ /\ ~Sched!HasReady(Answers, Sched!Running)
            /\ \E t \in Sched!Ready :
                 /\ ~Answers[t].blocked
                 /\ tasks = Sched!Reach(Answers, t) \ Sched!Running
<1>1. CASE Sched!HasReady(Answers, Sched!Running)
  BY <1>1 DEF Sched!Due, Sched!NeedToRun, Sched!Unblocked
<1>2. CASE ~Sched!HasReady(Answers, Sched!Running)
  BY <1>2 DEF Sched!Due, Sched!Choices, Sched!Unblocked
<1>3. QED
  BY <1>1, <1>2

LEMMA ReachedWithin ==
  ASSUME NEW t, NEW S \in SUBSET TaskIds, t \in S,
         \A u \in S : ~Answers[u].blocked => Answers[u].need \subseteq S
  PROVE  Sched!Reach(Answers, t) \subseteq S
  BY DEF Sched!Reach, Sched!ClosedUnder, Sched!Needs

LEMMA DueOfTests ==
  ASSUME RegistryIInv, TasksKnown, Placed, NEW tasks \in Sched!Due
  PROVE  tasks \subseteq Tasks
<1>1. \A t \in Tasks : Sched!Reach(Answers, t) \subseteq Tasks
  BY NeedsOfTests, ReachedWithin DEF Tasks
<1>2. Sched!Running \subseteq Tasks /\ Sched!Ready \subseteq Tasks
  BY DEF Placed, Sched!Running, Sched!Ready
<1>3. QED
  BY <1>1, <1>2, DueReached

LEMMA TasksKnownStep ==
  ASSUME Placed, RegistryIInv, TasksKnown, [Next]_vars
  PROVE  TasksKnown'
<1>1. CASE UNCHANGED <<registryVars, program>>
  BY <1>1 DEF registryVars, rwlockVars, barrierVars, TasksKnown, Tasks
<1>2. ASSUME NEW t \in TaskIds, CanStep(t), program' = program, NEW e, Addressed(e),
             Accept(t, e) \/ Reject(t, e)
      PROVE  TasksKnown'
  <2>1. t \in Tasks
    BY <1>2, StepHasOp DEF Actors, Tasks
  <2>2. QED
    BY <1>2, <2>1, EventMentions DEF TasksKnown, Tasks
<1>3. ASSUME NEW a \in Actors, Work(a)
      PROVE  TasksKnown'
  <2>1. CASE CreateStartBarrier(a) \/ SendInitEvent(a)
    <3>1. CanStep(a) /\ Op(a).op \in {"sync_init_event", "StartBarrier::new"}
          /\ AcceptInit(Op(a).event) /\ program' = program
      BY <2>1 DEF CreateStartBarrier, SendInitEvent, Advance
    <3>2. AddressedInit(Op(a).event)
      BY <3>1, StepHasOp DEF OpWellFormed
    <3>3. QED
      BY <3>1, <3>2, InitEventMentions DEF TasksKnown, Tasks
  <2>2. CASE a \in TaskIds /\ (SendEvent(a) \/ RejectedAtPoint(a))
    <3>1. /\ CanStep(a) /\ Op(a).op \in {"sync_event", "execution_point_with_event"}
          /\ Accept(a, Op(a).event) \/ Reject(a, Op(a).event)
          /\ program' = program
      BY <2>2 DEF SendEvent, RejectedAtPoint, Advance, Panic
    <3>2. Addressed(Op(a).event)
      BY <3>1, StepHasOp DEF OpWellFormed
    <3>3. QED
      BY <2>2, <3>1, <3>2, <1>2
  <2>3. CASE a \in TaskIds /\ SuspendAtPoint(a)
    <3>1. CASE Op(a).op = "execution_point"
      BY <2>3, <3>1, <1>1 DEF SuspendAtPoint, Advance
    <3>2. CASE Op(a).op # "execution_point"
      <4>1. /\ CanStep(a) /\ Op(a).op = "execution_point_with_event"
            /\ Accept(a, Op(a).event) /\ program' = program
        BY <2>3, <3>2 DEF SuspendAtPoint, Advance
      <4>2. Addressed(Op(a).event)
        BY <4>1, StepHasOp DEF OpWellFormed
      <4>3. QED
        BY <2>3, <4>1, <4>2, <1>2
    <3>3. QED
      BY <3>1, <3>2
  <2>4. CASE a \in TaskIds /\ EvaluateWatch(a)
    <3>1. /\ CanStep(a) /\ Op(a).op = "wait_for" /\ program' = program
          /\ \/ UNCHANGED registryVars
             \/ Accept(a, Ev("WaitingForWatchUpdate", Op(a).id, 0))
      BY <2>4 DEF EvaluateWatch, Advance
    <3>2. Op(a).id \in WatchIds
      BY <3>1, StepHasOp DEF OpWellFormed
    <3>3. Addressed(Ev("WaitingForWatchUpdate", Op(a).id, 0))
      BY <3>2 DEF Addressed, Ev, Mutex!Events, Rwlock!Events, Watch!Events, Barrier!Events,
                  TaskWait!Events
    <3>4. QED
      BY <2>4, <3>1, <3>3, <1>1, <1>2
  <2>5. CASE \/ SpawnTasks(a) \/ AwaitTasks(a) \/ CheckValue(a)
             \/ ArriveAtBarrier(a) \/ AcquireLock(a) \/ ReleaseLock(a) \/ SelectTask(a)
             \/ UpdateWatch(a) \/ EndOfWatch(a) \/ RepeatLoop(a) \/ UseValue(a)
             \/ CheckAssertion(a) \/ Finish(a)
    BY <2>5, <1>1
    DEF SpawnTasks, AwaitTasks, CheckValue, ArriveAtBarrier, AcquireLock, ReleaseLock,
        SelectTask, UpdateWatch, EndOfWatch, RepeatLoop, UseValue, CheckAssertion, Finish,
        Advance, Panic, progVars
  <2>6. QED
    BY <1>3, <2>1, <2>2, <2>3, <2>4, <2>5 DEF Work
<1>4. QED
  BY <1>1, <1>3 DEF Next, Step, Resume, Poll, vars, progVars

LEMMA PlacedStep ==
  ASSUME Placed, RegistryIInv, TasksKnown, [Next]_vars
  PROVE  Placed'
<1>1. CASE UNCHANGED vars
  BY <1>1 DEF vars, progVars, schedVars, Placed, Tasks, End
<1>2. CASE Resume
  <2>1. PICK tasks \in Sched!Due : Sched!ServeTasks(tasks)
    BY <1>2 DEF Resume, Sched!Serve
  <2>2. PICK some \in SUBSET tasks :
          state' = [t \in TaskIds |-> IF t \in some THEN "Running" ELSE state[t]]
    BY <2>1 DEF Sched!ServeTasks
  <2>3. some \in SUBSET Tasks
    BY DueOfTests
  <2>4. QED
    BY <1>2, <2>2, <2>3, PlacedState DEF Resume, progVars
<1>3. ASSUME NEW t \in TaskIds, Poll(t)
      PROVE  Placed'
  <2>1. {t} \in SUBSET Tasks
    BY <1>3 DEF Poll, Placed
  <2>2. state' = [u \in TaskIds |-> IF u \in {t} THEN "Running" ELSE state[u]]
    BY <1>3 DEF Poll, Sched!Start, Placed
  <2>3. QED
    BY <1>3, <2>1, <2>2, PlacedState DEF Poll, progVars
<1>4. ASSUME NEW a \in Actors, Work(a)
      PROVE  Placed'
  <2>1. CASE a \in TaskIds /\ Finish(a)
    <3>1. {a} \in SUBSET Tasks
      BY <2>1 DEF Finish, Placed
    <3>2. state' = [u \in TaskIds |-> IF u \in {a} THEN "Finished" ELSE state[u]]
      BY <2>1 DEF Finish, Sched!Finish, Placed
    <3>3. QED
      BY <2>1, <3>1, <3>2, PlacedState DEF Finish, progVars
  <2>2. CASE a \in TaskIds /\ SelectTask(a)
    BY <2>2, PlacedSelect DEF SelectTask
  <2>3. CASE a \in TaskIds /\ SuspendAtPoint(a)
    BY <2>3, PlacedAdvance DEF SuspendAtPoint, Sched!Suspend
  <2>4. CASE a \in TaskIds /\ SendEvent(a)
    BY <2>4, PlacedAdvance, PlacedPanic DEF SendEvent, schedVars
  <2>5. CASE a \in TaskIds /\ RejectedAtPoint(a)
    BY <2>5, PlacedPanic DEF RejectedAtPoint, schedVars
  <2>6. CASE SpawnTasks(a)
    BY <2>6, PlacedAdvance DEF SpawnTasks, schedVars
  <2>7. CASE AwaitTasks(a) \/ CheckValue(a) \/ (a \in TaskIds /\ CheckAssertion(a))
    <3>1. CanStep(a) /\ state' = state
      BY <2>7 DEF AwaitTasks, CheckValue, CheckAssertion, schedVars
    <3>2. (Advance(a) /\ UNCHANGED <<spawned, panicked>>) \/ Panic(a)
      BY <2>7 DEF AwaitTasks, CheckValue, CheckAssertion
    <3>3. QED
      BY <3>1, <3>2, PlacedAdvance, PlacedPanic
  <2>8. CASE a \in TaskIds /\ EvaluateWatch(a)
    <3>1. /\ CanStep(a) /\ UNCHANGED <<state, spawned, panicked>>
          /\ Advance(a) \/ UNCHANGED <<program, ip>>
      BY <2>8 DEF EvaluateWatch, schedVars
    <3>2. CASE Advance(a)
      BY <3>1, <3>2, PlacedAdvance
    <3>3. CASE UNCHANGED <<program, ip>>
      BY <3>1, <3>3 DEF Placed, Tasks, End
    <3>4. QED
      BY <3>1, <3>2, <3>3
  <2>9. CASE a \in TaskIds /\ EndOfWatch(a)
    <3>1. /\ CanStep(a) /\ UNCHANGED <<program, state, spawned, panicked>>
          /\ ip' = [ip EXCEPT ![a] = End(a)]
      BY <2>9 DEF EndOfWatch, schedVars
    <3>2. End(a) \in Nat /\ End(a) \in 1..End(a)
      BY <3>1, StepHasOp DEF End
    <3>3. QED
      BY <3>1, <3>2 DEF Placed, Tasks, End
  <2>10. CASE a \in TaskIds /\ RepeatLoop(a)
    <3>1. /\ CanStep(a) /\ UNCHANGED <<program, state, spawned, panicked>>
          /\ Op(a).op = "loop" /\ ip' = [ip EXCEPT ![a] = @ - Op(a).back]
      BY <2>10 DEF RepeatLoop, schedVars
    <3>2. /\ ip[a] \in 1..Len(program.code[a]) /\ Len(program.code[a]) \in Nat
          /\ Op(a).back \in 1..(ip[a] - 1)
      BY <3>1, StepHasOp DEF OpWellFormed
    <3>3. ip[a] - Op(a).back \in 1..Len(program.code[a])
      BY <3>2
    <3>4. ip[a] - Op(a).back \in Nat /\ ip[a] - Op(a).back \in 1..End(a)
      BY <3>2, <3>3 DEF End
    <3>5. QED
      BY <3>1, <3>4 DEF Placed, Tasks, End
  <2>11. CASE \/ CreateStartBarrier(a) \/ SendInitEvent(a)
              \/ /\ a \in TaskIds
                 /\ \/ ArriveAtBarrier(a) \/ AcquireLock(a) \/ ReleaseLock(a)
                    \/ UpdateWatch(a) \/ UseValue(a)
    <3>1. CanStep(a) /\ Advance(a) /\ UNCHANGED <<state, spawned, panicked>>
      BY <2>11 DEF CreateStartBarrier, SendInitEvent, ArriveAtBarrier, AcquireLock,
                   ReleaseLock, UpdateWatch, UseValue, schedVars
    <3>2. QED
      BY <3>1, PlacedAdvance
  <2>12. QED
    BY <1>4, <2>1, <2>2, <2>3, <2>4, <2>5, <2>6, <2>7, <2>8, <2>9, <2>10, <2>11 DEF Work
<1>5. QED
  BY <1>1, <1>2, <1>3, <1>4 DEF Next, Step

-----------------------------------------------------------------------------
(* What holds in every test. *)
TestIInv == Placed /\ TasksKnown /\ RegistryIInv

LEMMA InitTestIInv == Init => TestIInv
<1> SUFFICES ASSUME Init PROVE TestIInv
  OBVIOUS
<1>1. Placed
  <2>1. \A a \in Actors \cap DOMAIN program.code : 1 \in 1..End(a)
    BY CodeType DEF Init, End
  <2>2. QED
    BY <2>1 DEF Init, Placed, Tasks, End
<1>2. TasksKnown
  BY DEF Init, RegistryInit, Rwlock!Init, Rwlock!Unheld, Barrier!Init, Barrier!NoBarrier,
         Barrier!BarrierState, TasksKnown
<1>3. QED
  BY <1>1, <1>2, InitRegistryIInv DEF Init, TestIInv

LEMMA TestStep == TestIInv /\ [Next]_vars => TestIInv'
  BY PlacedStep, TasksKnownStep, StepOfRegistry, TestsAddressed, RegistryStep DEF TestIInv

(* The whole program is a client of the registry: the scheduler, the       *)
(* primitives of tokio and the order in which tasks run add nothing that   *)
(* the registry is not proved for.                                         *)
THEOREM TestsAreClients == Spec => RegistrySpec(EventsOfTests, InitEventsOfTests)
<1>1. Init => RegistryInit
  BY DEF Init
<1>2. TestIInv /\ [Next]_vars
        => [RegistryNext(EventsOfTests, InitEventsOfTests)]_registryVars
  BY StepOfRegistry DEF TestIInv
<1>3. QED
  BY <1>1, <1>2, InitTestIInv, TestStep, PTL DEF Spec, RegistrySpec

(* So what is proved of the registry holds in every test. *)
THEOREM ModelsKeepPromisesInTests ==
  Spec => /\ []RegistryTypeOK
          /\ []HolderNeverWaits
          /\ []WatchUpdateUnblocks
          /\ BarrierStaysOpen
          /\ GroupWaitStaysMet
  BY TestsAreClients, TestsAddressed, RegistryTypeCorrect, SelfLockIsRefused, WatchesUnblock,
     BarriersStayOpen, GroupWaitsStayMet
=============================================================================
