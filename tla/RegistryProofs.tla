--------------------------- MODULE RegistryProofs ---------------------------
(***************************************************************************)
(* Safety of the synchronization models for any number of tasks, locks,    *)
(* watches, barriers and groups, under clients that send any events in any *)
(* order.                                                                  *)
(***************************************************************************)
EXTENDS Registry, FiniteSetTheorems, TLAPS

AllAddressed(events, init_events) ==
  /\ \A e \in events : Addressed(e)
  /\ \A e \in init_events : AddressedInit(e)

RegistrySpec(events, init_events) ==
  RegistryInit /\ [][RegistryNext(events, init_events)]_registryVars

(* The models use the Cardinality of FiniteSets.  *)
LEMMA SameCardinality ==
  ASSUME NEW S
  PROVE  Cardinality(S) = Barrier!Cardinality(S) /\ Cardinality(S) = TaskWait!Cardinality(S)
  BY DEF Cardinality, Barrier!Cardinality, TaskWait!Cardinality

(* The invariants are inductive together with the types of their maps.     *)
MutexIInv == Mutex!TypeOK /\ HolderNeverWaits

WatchIInv == Watch!TypeOK /\ WatchUpdateUnblocks

LEMMA InitMutexIInv == RegistryInit => MutexIInv
  BY NoneAssumption
  DEF RegistryInit, Mutex!Init, MutexIInv, Mutex!TypeOK, HolderNeverWaits, Mutex!HolderNeverWaits

(* What each event does to the invariant, accepted or not.  *)
LEMMA LockingStep ==
  ASSUME MutexIInv, NEW t \in TaskIds, NEW m \in MutexIds,
         Mutex!LockingMutex(t, m) \/ Mutex!BadLockingMutex(t, m)
  PROVE  MutexIInv'
  BY DEF Mutex!LockingMutex, Mutex!BadLockingMutex, Mutex!vars, MutexIInv, Mutex!TypeOK,
         HolderNeverWaits, Mutex!HolderNeverWaits

LEMMA AbortedStep ==
  ASSUME MutexIInv, NEW t \in TaskIds, NEW m \in MutexIds,
         Mutex!AbortedLockingMutex(t, m) \/ Mutex!BadAbortedLockingMutex(t, m)
  PROVE  MutexIInv'
  BY DEF Mutex!AbortedLockingMutex, Mutex!BadAbortedLockingMutex, Mutex!vars, MutexIInv,
         Mutex!TypeOK, HolderNeverWaits, Mutex!HolderNeverWaits

LEMMA LockedStep ==
  ASSUME MutexIInv, NEW t \in TaskIds, NEW m \in MutexIds,
         Mutex!LockedMutex(t, m) \/ Mutex!BadLockedMutex(t, m)
  PROVE  MutexIInv'
  BY DEF Mutex!LockedMutex, Mutex!BadLockedMutex, Mutex!vars, MutexIInv, Mutex!TypeOK,
         HolderNeverWaits, Mutex!HolderNeverWaits

LEMMA ReleasedStep ==
  ASSUME MutexIInv, NEW t \in TaskIds, NEW m \in MutexIds,
         Mutex!ReleasedMutex(t, m) \/ Mutex!BadReleasedMutex(t, m)
  PROVE  MutexIInv'
  BY NoneAssumption
  DEF Mutex!ReleasedMutex, Mutex!BadReleasedMutex, Mutex!Release, MutexIInv, Mutex!TypeOK,
      HolderNeverWaits, Mutex!HolderNeverWaits

LEMMA SameMutexes == ASSUME MutexIInv, UNCHANGED mutexVars PROVE MutexIInv'
  BY DEF mutexVars, MutexIInv, Mutex!TypeOK, HolderNeverWaits, Mutex!HolderNeverWaits

LEMMA MutexStep ==
  ASSUME NEW events, NEW init_events, AllAddressed(events, init_events), MutexIInv,
         [RegistryNext(events, init_events)]_registryVars
  PROVE  MutexIInv'
<1>1. CASE UNCHANGED registryVars
  BY <1>1, SameMutexes DEF registryVars
<1>2. CASE \E e \in init_events : AcceptInit(e)
  BY <1>2, SameMutexes DEF AcceptInit
<1>3. ASSUME NEW t \in TaskIds, NEW e \in events, Accept(t, e) \/ Reject(t, e)
      PROVE  MutexIInv'
  <2>1. CASE e.event \notin Mutex!Events
    BY <1>3, <2>1, SameMutexes DEF Accept, Reject
  <2>2. CASE e.event \in Mutex!Events
    <3>1. e.id \in MutexIds
      BY <2>2 DEF AllAddressed, Addressed, AddressedInit
    <3>2. Mutex!Accept(t, e) \/ Mutex!Reject(t, e)
      BY <1>3, <2>2 DEF Accept, Reject
    <3>3. \/ Mutex!LockingMutex(t, e.id) \/ Mutex!BadLockingMutex(t, e.id)
          \/ Mutex!AbortedLockingMutex(t, e.id) \/ Mutex!BadAbortedLockingMutex(t, e.id)
          \/ Mutex!LockedMutex(t, e.id) \/ Mutex!BadLockedMutex(t, e.id)
          \/ Mutex!ReleasedMutex(t, e.id) \/ Mutex!BadReleasedMutex(t, e.id)
      BY <3>2 DEF Mutex!Accept, Mutex!Reject
    <3>4. QED
      BY <3>1, <3>3, LockingStep, AbortedStep, LockedStep, ReleasedStep
  <2>3. QED
    BY <2>1, <2>2
<1>4. QED
  BY <1>1, <1>2, <1>3 DEF RegistryNext

(* A task that locks a mutex it holds is refused and never waits for       *)
(* itself, whatever events any number of tasks send.                       *)
THEOREM SelfLockIsRefused ==
  ASSUME NEW CONSTANT events, NEW CONSTANT init_events, AllAddressed(events, init_events)
  PROVE  RegistrySpec(events, init_events) => []HolderNeverWaits
<1>1. MutexIInv /\ [RegistryNext(events, init_events)]_registryVars => MutexIInv'
  BY MutexStep
<1>2. MutexIInv => HolderNeverWaits
  BY DEF MutexIInv
<1>3. QED
  BY <1>1, <1>2, InitMutexIInv, PTL DEF RegistrySpec

-----------------------------------------------------------------------------
LEMMA InitWatchIInv == RegistryInit => WatchIInv
  BY DEF RegistryInit, Watch!Init, WatchIInv, Watch!TypeOK, WatchUpdateUnblocks,
         Watch!BlockedWaiterIsListed

LEMMA SameWatches == ASSUME WatchIInv, UNCHANGED watchVars PROVE WatchIInv'
  BY DEF watchVars, WatchIInv, Watch!TypeOK, WatchUpdateUnblocks, Watch!BlockedWaiterIsListed

LEMMA WatchEventStep ==
  ASSUME WatchIInv, NEW t \in TaskIds, NEW w \in WatchIds,
         Watch!WaitingForWatchUpdate(t, w) \/ Watch!WatchNotified(w)
  PROVE  WatchIInv'
<1>1. CASE Watch!WaitingForWatchUpdate(t, w)
  BY <1>1 DEF Watch!WaitingForWatchUpdate, WatchIInv, Watch!TypeOK, WatchUpdateUnblocks,
              Watch!BlockedWaiterIsListed
<1>2. CASE Watch!WatchNotified(w)
  BY <1>2 DEF Watch!WatchNotified, WatchIInv, Watch!TypeOK, WatchUpdateUnblocks,
              Watch!BlockedWaiterIsListed
<1>3. QED
  BY <1>1, <1>2

LEMMA WatchStep ==
  ASSUME NEW events, NEW init_events, AllAddressed(events, init_events), WatchIInv,
         [RegistryNext(events, init_events)]_registryVars
  PROVE  WatchIInv'
<1>1. CASE UNCHANGED registryVars
  BY <1>1, SameWatches DEF registryVars
<1>2. CASE \E e \in init_events : AcceptInit(e)
  BY <1>2, SameWatches DEF AcceptInit
<1>3. ASSUME NEW t \in TaskIds, NEW e \in events, Accept(t, e) \/ Reject(t, e)
      PROVE  WatchIInv'
  <2>1. CASE e.event \notin Watch!Events \/ Reject(t, e)
    BY <1>3, <2>1, SameWatches DEF Accept, Reject
  <2>2. CASE e.event \in Watch!Events /\ Accept(t, e)
    <3>1. e.id \in WatchIds
      BY <2>2 DEF AllAddressed, Addressed, AddressedInit
    <3>2. Watch!WaitingForWatchUpdate(t, e.id) \/ Watch!WatchNotified(e.id)
      BY <2>2 DEF Accept, Watch!Accept
    <3>3. QED
      BY <3>1, <3>2, WatchEventStep
  <2>3. QED
    BY <1>3, <2>1, <2>2
<1>4. QED
  BY <1>1, <1>2, <1>3 DEF RegistryNext

(* The two maps of the watch model agree for any number of tasks and       *)
(* watches: a task blocked on a watch is among those its update unblocks.  *)
THEOREM WatchesUnblock ==
  ASSUME NEW CONSTANT events, NEW CONSTANT init_events, AllAddressed(events, init_events)
  PROVE  RegistrySpec(events, init_events) => []WatchUpdateUnblocks
<1>1. WatchIInv /\ [RegistryNext(events, init_events)]_registryVars => WatchIInv'
  BY WatchStep
<1>2. WatchIInv => WatchUpdateUnblocks
  BY DEF WatchIInv
<1>3. QED
  BY <1>1, <1>2, InitWatchIInv, PTL DEF RegistrySpec

-----------------------------------------------------------------------------
(* The types of a barrier are kept by its events.  *)
LEMMA InitBarrierTypes == RegistryInit => Barrier!TypeOK
  BY DEF RegistryInit, Barrier!Init, Barrier!TypeOK, Barrier!NoBarrier, Barrier!BarrierState

LEMMA SameBarriers ==
  ASSUME Barrier!TypeOK, UNCHANGED barrierVars PROVE Barrier!TypeOK' /\ Barrier!KeepsOpen
  BY DEF barrierVars, Barrier!TypeOK, Barrier!KeepsOpen, Barrier!Answer, Barrier!Exists

LEMMA NewBarrierStep ==
  ASSUME Barrier!TypeOK, NEW b \in BarrierIds, NEW n \in Nat, Barrier!NewBarrier(b, n)
  PROVE  Barrier!TypeOK' /\ Barrier!KeepsOpen
<1>1. Barrier!TypeOK'
  BY DEF Barrier!NewBarrier, Barrier!TypeOK, Barrier!BarrierState
<1>2. /\ barrier_waiting' = barrier_waiting
      /\ \A c \in BarrierIds \ {b} : barriers'[c] = barriers[c]
      /\ Barrier!MadeAnew(b)
  BY DEF Barrier!NewBarrier, Barrier!TypeOK, Barrier!BarrierState, Barrier!MadeAnew
<1>3. Barrier!KeepsOpen
  <2>1. ASSUME NEW t \in TaskIds, barrier_waiting[t] # None, ~Barrier!Answer(t).blocked
        PROVE  Barrier!MadeAnew(barrier_waiting[t]) \/ ~Barrier!Answer(t)'.blocked
    <3>1. CASE barrier_waiting[t] = b
      BY <1>2, <3>1
    <3>2. CASE barrier_waiting[t] # b
      <4>1. barrier_waiting[t] \in BarrierIds \ {b}
        BY <2>1, <3>2 DEF Barrier!TypeOK
      <4>2. QED
        BY <1>2, <2>1, <4>1 DEF Barrier!Answer, Barrier!Exists
    <3>3. QED
      BY <3>1, <3>2
  <2>2. QED
    BY <2>1 DEF Barrier!KeepsOpen
<1>4. QED
  BY <1>1, <1>3

(* A task that arrives opens the barrier or leaves it as it is.  *)
LEMMA WaitingStep ==
  ASSUME Barrier!TypeOK, NEW u \in TaskIds, NEW b \in BarrierIds,
         Barrier!WaitingForBarrier(u, b) \/ Barrier!BadWaitingForBarrier(u, b)
  PROVE  Barrier!TypeOK' /\ Barrier!KeepsOpen
<1>1. CASE Barrier!WaitingForBarrier(u, b)
  <2> DEFINE tasks == barriers[b].tasks \cup {u}
             open == barriers[b].reached \/ Cardinality(tasks) >= barriers[b].capacity
  <2>1. /\ barrier_waiting' = [barrier_waiting EXCEPT ![u] = b]
        /\ barriers' = [barriers EXCEPT ![b] =
                                 Barrier!BarrierState(barriers[b].capacity, open, tasks)]
        /\ Barrier!Exists(b)
    BY <1>1, SameCardinality DEF Barrier!WaitingForBarrier
  <2>2. open \in BOOLEAN /\ tasks \in SUBSET TaskIds /\ (barriers[b].reached => open)
    <3>1. barriers[b].reached \in BOOLEAN /\ tasks \in SUBSET TaskIds
      BY DEF Barrier!TypeOK
    <3>2. QED
      BY <3>1, Zenon
  <2> HIDE DEF tasks, open
  <2>3. Barrier!TypeOK'
    BY <2>1, <2>2 DEF Barrier!TypeOK, Barrier!BarrierState
  <2>4. \A c \in BarrierIds : /\ barriers'[c].exists = barriers[c].exists
                              /\ barriers[c].reached => barriers'[c].reached
    BY <2>1, <2>2 DEF Barrier!TypeOK, Barrier!BarrierState, Barrier!Exists
  <2>5. Barrier!KeepsOpen
    BY <2>1, <2>4 DEF Barrier!TypeOK, Barrier!KeepsOpen, Barrier!Answer, Barrier!Exists,
                      Barrier!ReadyAlone, Barrier!ReadyWithOthers, Barrier!Blocked
  <2>6. QED
    BY <2>3, <2>5
<1>2. CASE Barrier!BadWaitingForBarrier(u, b)
  BY <1>2 DEF Barrier!BadWaitingForBarrier, Barrier!TypeOK, Barrier!KeepsOpen, Barrier!Answer,
              Barrier!Exists
<1>3. QED
  BY <1>1, <1>2

(* A task that leaves removes the barrier or itself; both keep it open.  *)
LEMMA LeaveStep ==
  ASSUME Barrier!TypeOK, NEW u \in TaskIds, NEW b \in BarrierIds,
         Barrier!Leave(u, b) \/ Barrier!BadLeave(b)
  PROVE  Barrier!TypeOK' /\ Barrier!KeepsOpen
<1>1. CASE Barrier!Leave(u, b)
  <2>1. Barrier!TypeOK'
    BY <1>1 DEF Barrier!Leave, Barrier!TypeOK, Barrier!NoBarrier, Barrier!BarrierState
  <2>2. \A c \in BarrierIds :
          \/ ~barriers'[c].exists
          \/ /\ barriers'[c].exists = barriers[c].exists
             /\ barriers'[c].reached = barriers[c].reached
    BY <1>1 DEF Barrier!Leave, Barrier!TypeOK, Barrier!NoBarrier, Barrier!BarrierState
  <2>3. Barrier!KeepsOpen
    BY <2>1, <2>2 DEF Barrier!TypeOK, Barrier!KeepsOpen, Barrier!Answer, Barrier!Exists,
                      Barrier!ReadyAlone, Barrier!ReadyWithOthers, Barrier!Blocked
  <2>4. QED
    BY <2>1, <2>3
<1>2. CASE Barrier!BadLeave(b)
  BY <1>2, SameBarriers DEF Barrier!BadLeave, Barrier!vars, barrierVars
<1>3. QED
  BY <1>1, <1>2

LEMMA BarrierStep ==
  ASSUME NEW events, NEW init_events, AllAddressed(events, init_events), Barrier!TypeOK,
         [RegistryNext(events, init_events)]_registryVars
  PROVE  Barrier!TypeOK' /\ Barrier!KeepsOpen
<1>1. CASE UNCHANGED registryVars
  BY <1>1, SameBarriers DEF registryVars
<1>2. ASSUME NEW e \in init_events, AcceptInit(e)
      PROVE  Barrier!TypeOK' /\ Barrier!KeepsOpen
  <2>1. CASE e.event = "NewBarrier"
    BY <1>2, <2>1, NewBarrierStep DEF AcceptInit, AllAddressed, Addressed, AddressedInit
  <2>2. CASE e.event # "NewBarrier"
    BY <1>2, <2>2, SameBarriers DEF AcceptInit
  <2>3. QED
    BY <2>1, <2>2
<1>3. ASSUME NEW t \in TaskIds, NEW e \in events, Accept(t, e) \/ Reject(t, e)
      PROVE  Barrier!TypeOK' /\ Barrier!KeepsOpen
  <2>1. CASE e.event \notin Barrier!Events
    BY <1>3, <2>1, SameBarriers DEF Accept, Reject
  <2>2. CASE e.event \in Barrier!Events
    <3>1. e.id \in BarrierIds
      BY <2>2 DEF AllAddressed, Addressed, AddressedInit
    <3>2. Barrier!Accept(t, e) \/ Barrier!Reject(t, e)
      BY <1>3, <2>2 DEF Accept, Reject
    <3>3. \/ Barrier!WaitingForBarrier(t, e.id) \/ Barrier!BadWaitingForBarrier(t, e.id)
          \/ Barrier!Leave(t, e.id) \/ Barrier!BadLeave(e.id)
      BY <3>2 DEF Barrier!Accept, Barrier!Reject, Barrier!AbortedWaitingForBarrier,
                  Barrier!CompletedBarrierWait
    <3>4. QED
      BY <3>1, <3>3, WaitingStep, LeaveStep
  <2>3. QED
    BY <2>1, <2>2
<1>4. QED
  BY <1>1, <1>2, <1>3 DEF RegistryNext

(* A barrier that has let a task through never closes on it, for any       *)
(* number of tasks and barriers and whatever events are sent.              *)
THEOREM BarriersStayOpen ==
  ASSUME NEW CONSTANT events, NEW CONSTANT init_events, AllAddressed(events, init_events)
  PROVE  RegistrySpec(events, init_events) => BarrierStaysOpen
<1>1. Barrier!TypeOK /\ [RegistryNext(events, init_events)]_registryVars
        => Barrier!TypeOK' /\ [Barrier!KeepsOpen]_(Barrier!vars)
  BY BarrierStep
<1>2. QED
  BY <1>1, InitBarrierTypes, PTL DEF RegistrySpec, BarrierStaysOpen, Barrier!StaysOpen

-----------------------------------------------------------------------------
LEMMA InitTaskWaitTypes == RegistryInit => TaskWait!TypeOK
  BY DEF RegistryInit, TaskWait!Init, TaskWait!TypeOK, TaskWait!EmptyGroup, TaskWait!NoWait

LEMMA SameGroups ==
  ASSUME TaskWait!TypeOK, UNCHANGED taskWaitVars PROVE TaskWait!TypeOK' /\ TaskWait!KeepsMet
<1>1. TaskWait!TypeOK'
  BY DEF taskWaitVars, TaskWait!TypeOK
<1>2. TaskWait!KeepsMet
  BY DEF taskWaitVars, TaskWait!TypeOK, TaskWait!KeepsMet, TaskWait!Met, TaskWait!Answer,
         TaskWait!MayProceed, TaskWait!ReadyAlone, TaskWait!ReadyWithOthers
<1>3. QED
  BY <1>1, <1>2

(* What the groups may do without a wait that is met being blocked: stay   *)
(* registered and lose no completed task, or start over.                   *)
GroupsGrow ==
  \A g \in TaskGroups :
    \/ TaskWait!Renewed(g)
    \/ /\ task_groups'[g].registered = task_groups[g].registered
       /\ task_groups[g].completed \subseteq task_groups'[g].completed

LEMMA GrowingKeepsMet ==
  ASSUME TaskWait!TypeOK, TaskWait!TypeOK', GroupsGrow
  PROVE  TaskWait!KeepsMet
<1> SUFFICES ASSUME NEW t \in TaskIds, TaskWait!Met(task_waits[t]),
                    task_waits'[t] = task_waits[t],
                    ~TaskWait!Renewed(task_waits[t].task_group)
             PROVE  ~TaskWait!Answer(t)'.blocked
  BY DEF TaskWait!KeepsMet
<1> DEFINE wait == task_waits[t]
           before == task_groups[wait.task_group]
           after == task_groups'[wait.task_group]
<1>1. /\ wait # TaskWait!NoWait
      /\ before.registered
      /\ wait.task_group \in TaskGroups
      /\ \/ wait.kind = "AnyN" /\ wait.num_tasks \in Nat
              /\ Cardinality(before.completed) >= wait.num_tasks
         \/ wait.kind = "Specific" /\ wait.slot \in before.completed
  <2>1. wait # TaskWait!NoWait /\ before.registered
    BY DEF TaskWait!Met
  <2>2. \/ wait \in [kind : {"AnyN"}, task_group : TaskGroups, num_tasks : Nat]
        \/ wait \in [kind : {"Specific"}, task_group : TaskGroups, slot : Slots]
    BY <2>1 DEF TaskWait!TypeOK
  <2>3. wait.kind = "AnyN" => Cardinality(before.completed) >= wait.num_tasks
    BY SameCardinality DEF TaskWait!Met
  <2>4. wait.kind = "Specific" => wait.slot \in before.completed
    BY DEF TaskWait!Met
  <2>5. QED
    BY <2>1, <2>2, <2>3, <2>4
<1>2. after.registered /\ before.completed \subseteq after.completed
  BY <1>1 DEF GroupsGrow, TaskWait!TypeOK
<1>3. wait.kind = "AnyN" => Cardinality(after.completed) >= wait.num_tasks
  <2>1. after.completed \subseteq Slots /\ before.completed \subseteq Slots
    BY <1>1 DEF TaskWait!TypeOK
  <2>2. IsFiniteSet(after.completed) /\ IsFiniteSet(before.completed)
    BY <2>1, SlotsAssumption, FS_Subset
  <2>3. /\ Cardinality(before.completed) \in Nat
        /\ Cardinality(after.completed) \in Nat
        /\ Cardinality(before.completed) <= Cardinality(after.completed)
    BY <1>2, <2>2, FS_Subset, FS_CardinalityType
  <2>4. QED
    BY <1>1, <2>3
<1>4. TaskWait!MayProceed(wait)'
  <2>1. task_waits'[t] = wait
    OBVIOUS
  <2>2. CASE wait.kind = "AnyN"
    BY <1>2, <1>3, <2>1, <2>2, SameCardinality DEF TaskWait!MayProceed
  <2>3. CASE wait.kind = "Specific"
    <3>1. wait.slot \in after.completed
      BY <1>1, <1>2, <2>3
    <3>2. QED
      BY <1>2, <2>1, <2>3, <3>1 DEF TaskWait!MayProceed
  <2>4. QED
    BY <1>1, <2>2, <2>3
<1>5. QED
  BY <1>4 DEF TaskWait!Answer, TaskWait!ReadyAlone, TaskWait!ReadyWithOthers

LEMMA GroupEventStep ==
  ASSUME TaskWait!TypeOK, NEW g \in TaskGroups,
         \/ TaskWait!NewTaskGroup(g)
         \/ TaskWait!FreeTaskGroup(g)
         \/ \E s \in Slots : \/ TaskWait!TaskSpawned(g, s)
                            \/ TaskWait!TaskStarted(g, s)
                            \/ TaskWait!TaskCompleted(g, s)
  PROVE  TaskWait!TypeOK' /\ TaskWait!KeepsMet
<1>1. CASE TaskWait!NewTaskGroup(g) \/ TaskWait!FreeTaskGroup(g)
  <2>1. TaskWait!TypeOK'
    <3>1. \A r \in BOOLEAN :
            TaskWait!EmptyGroup(r) \in [registered : BOOLEAN, completed : SUBSET Slots,
                                       spawned : SUBSET Slots, started : SUBSET Slots]
      BY DEF TaskWait!EmptyGroup
    <3>2. task_waits' = task_waits
      BY <1>1 DEF TaskWait!NewTaskGroup, TaskWait!FreeTaskGroup
    <3>3. PICK r \in BOOLEAN :
            task_groups' = [task_groups EXCEPT ![g] = TaskWait!EmptyGroup(r)]
      BY <1>1 DEF TaskWait!NewTaskGroup, TaskWait!FreeTaskGroup
    <3>4. QED
      BY <3>1, <3>2, <3>3 DEF TaskWait!TypeOK
  <2>2. GroupsGrow
    BY <1>1 DEF TaskWait!NewTaskGroup, TaskWait!FreeTaskGroup, TaskWait!TypeOK, GroupsGrow,
                TaskWait!Renewed
  <2>3. QED
    BY <2>1, <2>2, GrowingKeepsMet
<1>2. ASSUME NEW s \in Slots,
             \/ TaskWait!TaskSpawned(g, s)
             \/ TaskWait!TaskStarted(g, s)
             \/ TaskWait!TaskCompleted(g, s)
      PROVE  TaskWait!TypeOK' /\ TaskWait!KeepsMet
  <2>1. TaskWait!TypeOK'
    BY <1>2 DEF TaskWait!TaskSpawned, TaskWait!TaskStarted, TaskWait!TaskCompleted,
                TaskWait!TypeOK
  <2>2. GroupsGrow
    BY <1>2 DEF TaskWait!TaskSpawned, TaskWait!TaskStarted, TaskWait!TaskCompleted,
                TaskWait!TypeOK, GroupsGrow
  <2>3. QED
    BY <2>1, <2>2, GrowingKeepsMet
<1>3. QED
  BY <1>1, <1>2

LEMMA WaitForStep ==
  ASSUME TaskWait!TypeOK, NEW t \in TaskIds, NEW wait,
         \/ wait = TaskWait!NoWait
         \/ \E g \in TaskGroups, n \in Nat : wait = TaskWait!AnyN(g, n)
         \/ \E g \in TaskGroups, s \in Slots : wait = TaskWait!Specific(g, s),
         TaskWait!WaitFor(t, wait)
  PROVE  TaskWait!TypeOK' /\ TaskWait!KeepsMet
<1>1. TaskWait!TypeOK'
  BY DEF TaskWait!WaitFor, TaskWait!TypeOK, TaskWait!AnyN, TaskWait!Specific
<1>2. GroupsGrow
  BY DEF TaskWait!WaitFor, TaskWait!TypeOK, GroupsGrow
<1>3. QED
  BY <1>1, <1>2, GrowingKeepsMet

LEMMA TaskWaitStep ==
  ASSUME NEW events, NEW init_events, AllAddressed(events, init_events), TaskWait!TypeOK,
         [RegistryNext(events, init_events)]_registryVars
  PROVE  TaskWait!TypeOK' /\ TaskWait!KeepsMet
<1>1. CASE UNCHANGED registryVars
  BY <1>1, SameGroups DEF registryVars
<1>2. ASSUME NEW e \in init_events, AcceptInit(e)
      PROVE  TaskWait!TypeOK' /\ TaskWait!KeepsMet
  <2>1. CASE e.event = "NewTaskGroup"
    BY <1>2, <2>1, GroupEventStep DEF AcceptInit, AllAddressed, Addressed, AddressedInit
  <2>2. CASE e.event # "NewTaskGroup"
    BY <1>2, <2>2, SameGroups DEF AcceptInit
  <2>3. QED
    BY <2>1, <2>2
<1>3. ASSUME NEW t \in TaskIds, NEW e \in events, Accept(t, e) \/ Reject(t, e)
      PROVE  TaskWait!TypeOK' /\ TaskWait!KeepsMet
  <2>1. CASE e.event \notin TaskWait!Events \/ Reject(t, e)
    BY <1>3, <2>1, SameGroups DEF Accept, Reject
  <2>2. CASE e.event \in TaskWait!Events /\ Accept(t, e)
    <3>1. /\ e.event # "TaskWaitCompleted" => e.id \in TaskGroups
          /\ e.event \in {"TaskSpawned", "TaskStarted", "TaskCompleted", "TaskWaitNth"}
               => e.arg \in Slots
          /\ e.event = "TaskWaitAnyN" => e.arg \in Nat
      BY <2>2 DEF AllAddressed, Addressed, AddressedInit
    <3>2. TaskWait!Accept(t, e)
      BY <2>2 DEF Accept
    <3>3. CASE e.event \in {"NewTaskGroup", "FreeTaskGroup", "TaskSpawned", "TaskStarted",
                            "TaskCompleted"}
      BY <3>1, <3>2, <3>3, GroupEventStep DEF TaskWait!Accept
    <3>4. CASE e.event = "TaskWaitAnyN"
      BY <3>1, <3>2, <3>4, WaitForStep DEF TaskWait!Accept, TaskWait!TaskWaitAnyN
    <3>5. CASE e.event = "TaskWaitNth"
      BY <3>1, <3>2, <3>5, WaitForStep DEF TaskWait!Accept, TaskWait!TaskWaitNth
    <3>6. CASE e.event = "TaskWaitCompleted"
      BY <3>1, <3>2, <3>6, WaitForStep DEF TaskWait!Accept, TaskWait!TaskWaitCompleted
    <3>7. QED
      BY <2>2, <3>3, <3>4, <3>5, <3>6 DEF TaskWait!Events
  <2>3. QED
    BY <1>3, <2>1, <2>2
<1>4. QED
  BY <1>1, <1>2, <1>3 DEF RegistryNext

(* A wait for tasks of a group that have completed stays met, for any      *)
(* number of tasks and groups, until the group is freed or made anew.      *)
THEOREM GroupWaitsStayMet ==
  ASSUME NEW CONSTANT events, NEW CONSTANT init_events, AllAddressed(events, init_events)
  PROVE  RegistrySpec(events, init_events) => GroupWaitStaysMet
<1>1. TaskWait!TypeOK /\ [RegistryNext(events, init_events)]_registryVars
        => TaskWait!TypeOK' /\ [TaskWait!KeepsMet]_(TaskWait!vars)
  BY TaskWaitStep
<1>2. QED
  BY <1>1, InitTaskWaitTypes, PTL DEF RegistrySpec, GroupWaitStaysMet, TaskWait!StaysMet

-----------------------------------------------------------------------------
(* The types of the other three models.                                    *)
OthersTypeOK == Rwlock!TypeOK /\ Join!TypeOK /\ Unknown!TypeOK

LEMMA InitOthers == RegistryInit => OthersTypeOK
  BY DEF RegistryInit, OthersTypeOK, Rwlock!Init, Rwlock!TypeOK, Join!Init, Join!TypeOK,
         Unknown!Init, Unknown!TypeOK

LEMMA SameRwlocks == ASSUME Rwlock!TypeOK, UNCHANGED rwlockVars PROVE Rwlock!TypeOK'
  BY DEF rwlockVars, Rwlock!TypeOK

(* A lock that is held has a holder: an entry goes with its last reader.   *)
LEMMA RwlockEventStep ==
  ASSUME Rwlock!TypeOK, NEW t \in TaskIds, NEW e, e.id \in RwlockIds, e.arg \in Rwlock!Modes,
         Rwlock!Accept(t, e) \/ Rwlock!Reject(t, e)
  PROVE  Rwlock!TypeOK'
<1> DEFINE l == e.id
           Held == {Rwlock!HeldAs(m, s) : m \in Rwlock!Modes, s \in (SUBSET TaskIds) \ {{}}}
                     \cup {Rwlock!Unheld}
<1>1. /\ rwlock_held_by \in [RwlockIds -> Held]
      /\ rwlock_waiting \in [TaskIds -> SUBSET (RwlockIds \X Rwlock!Modes)]
      /\ <<l, e.arg>> \in RwlockIds \X Rwlock!Modes
  BY DEF Rwlock!TypeOK
<1>2. \/ rwlock_waiting' = rwlock_waiting
      \/ rwlock_waiting' = [rwlock_waiting EXCEPT ![t] = @ \cup {<<l, e.arg>>}]
      \/ rwlock_waiting' = [rwlock_waiting EXCEPT ![t] = @ \ {<<l, e.arg>>}]
  BY DEF Rwlock!Accept, Rwlock!Reject, Rwlock!LockingRwlock, Rwlock!NoLongerWaits,
         Rwlock!DoesNotWait, Rwlock!AbortedLockingRwlock, Rwlock!LockedRead,
         Rwlock!LockedWrite, Rwlock!BadLockedRead, Rwlock!ReleasedRead,
         Rwlock!BadReleasedRead, Rwlock!ReleasedWrite, Rwlock!vars
<1>3. rwlock_waiting' \in [TaskIds -> SUBSET (RwlockIds \X Rwlock!Modes)]
  BY <1>1, <1>2
<1>4. ASSUME NEW m \in Rwlock!Modes, NEW s \in SUBSET TaskIds, s # {}
      PROVE  Rwlock!HeldAs(m, s) \in Held
  <2>1. s \in (SUBSET TaskIds) \ {{}}
    BY <1>4
  <2>2. QED
    BY <2>1
<1>5. rwlock_held_by[l].tasks \in SUBSET TaskIds
  BY <1>1 DEF Rwlock!HeldAs, Rwlock!Unheld
<1>6. "Read" \in Rwlock!Modes /\ "Write" \in Rwlock!Modes /\ Rwlock!Unheld \in Held
  BY DEF Rwlock!Modes
<1> HIDE DEF Held
<1>7. \/ rwlock_held_by' = rwlock_held_by
      \/ \E h \in Held : rwlock_held_by' = [rwlock_held_by EXCEPT ![l] = h]
  <2>1. CASE Rwlock!LockedRead(t, l)
    <3>1. rwlock_held_by' = [rwlock_held_by EXCEPT ![l] =
                               Rwlock!HeldAs("Read", rwlock_held_by[l].tasks \cup {t})]
      BY <2>1 DEF Rwlock!LockedRead
    <3>2. Rwlock!HeldAs("Read", rwlock_held_by[l].tasks \cup {t}) \in Held
      <4>1. rwlock_held_by[l].tasks \cup {t} \in SUBSET TaskIds
        BY <1>5
      <4>2. QED
        BY <4>1, <1>4, <1>6
    <3>3. QED
      BY <3>1, <3>2
  <2>2. CASE Rwlock!LockedWrite(t, l)
    <3>1. rwlock_held_by' = [rwlock_held_by EXCEPT ![l] = Rwlock!HeldAs("Write", {t})]
      BY <2>2 DEF Rwlock!LockedWrite
    <3>2. Rwlock!HeldAs("Write", {t}) \in Held
      BY <1>4, <1>6
    <3>3. QED
      BY <3>1, <3>2
  <2>3. CASE Rwlock!ReleasedRead(t, l)
    <3> DEFINE left == rwlock_held_by[l].tasks \ {t}
    <3>1. rwlock_held_by' = [rwlock_held_by EXCEPT ![l] =
            IF left = {} THEN Rwlock!Unheld ELSE Rwlock!HeldAs("Read", left)]
      BY <2>3 DEF Rwlock!ReleasedRead
    <3>2. left \in SUBSET TaskIds
      BY <1>5
    <3> HIDE DEF left
    <3>3. (IF left = {} THEN Rwlock!Unheld ELSE Rwlock!HeldAs("Read", left)) \in Held
      BY <3>2, <1>4, <1>6
    <3>4. QED
      BY <3>1, <3>3
  <2>4. CASE Rwlock!ReleasedWrite(t, l)
    BY <2>4, <1>6 DEF Rwlock!ReleasedWrite
  <2>5. CASE rwlock_held_by' = rwlock_held_by
    BY <2>5
  <2>6. QED
    BY <2>1, <2>2, <2>3, <2>4, <2>5
    DEF Rwlock!Accept, Rwlock!Reject, Rwlock!LockingRwlock, Rwlock!DoesNotWait,
        Rwlock!AbortedLockingRwlock, Rwlock!BadLockedRead, Rwlock!BadReleasedRead, Rwlock!vars
<1>8. rwlock_held_by' \in [RwlockIds -> Held]
  BY <1>1, <1>7
<1>9. QED
  BY <1>3, <1>8 DEF Rwlock!TypeOK, Held

LEMMA OthersStep ==
  ASSUME NEW events, NEW init_events, AllAddressed(events, init_events), OthersTypeOK,
         [RegistryNext(events, init_events)]_registryVars
  PROVE  OthersTypeOK'
<1>1. CASE UNCHANGED registryVars
  BY <1>1, SameRwlocks DEF registryVars, OthersTypeOK, Join!TypeOK, Unknown!TypeOK
<1>2. CASE \E e \in init_events : AcceptInit(e)
  BY <1>2, SameRwlocks DEF AcceptInit, OthersTypeOK, Join!TypeOK, Unknown!TypeOK
<1>3. ASSUME NEW t \in TaskIds, NEW e \in events, Accept(t, e) \/ Reject(t, e)
      PROVE  OthersTypeOK'
  <2>1. Rwlock!TypeOK'
    <3>1. CASE e.event \in Rwlock!Events
      <4>1. e.id \in RwlockIds /\ e.arg \in Rwlock!Modes
        BY <3>1 DEF AllAddressed, Addressed, AddressedInit
      <4>2. Rwlock!Accept(t, e) \/ Rwlock!Reject(t, e)
        BY <1>3, <3>1 DEF Accept, Reject
      <4>3. QED
        BY <4>1, <4>2, RwlockEventStep DEF OthersTypeOK
    <3>2. CASE e.event \notin Rwlock!Events
      BY <1>3, <3>2, SameRwlocks DEF Accept, Reject, OthersTypeOK
    <3>3. QED
      BY <3>1, <3>2
  <2>2. Join!TypeOK'
    BY <1>3 DEF Accept, Reject, OthersTypeOK, Join!TypeOK, Join!Accept, Join!Reject,
                Join!StartingJoin, Join!BadStartingJoin, Join!CompletedJoin,
                Join!BadCompletedJoin
  <2>3. Unknown!TypeOK'
    BY <1>3 DEF Accept, Reject, OthersTypeOK, Unknown!TypeOK, Unknown!Accept,
                Unknown!TaskWaitForUnknownStarted, Unknown!TaskWaitForUnknownCompleted
  <2>4. QED
    BY <2>1, <2>2, <2>3 DEF OthersTypeOK
<1>4. QED
  BY <1>1, <1>2, <1>3 DEF RegistryNext

(* The models other than those of rwlocks and barriers need no other task. *)
LEMMA PlainAnswers ==
  ASSUME NEW t
  PROVE  /\ Mutex!Answer(t) \in {Blocked, ReadyAlone}
         /\ Join!Answer(t) \in {Blocked, ReadyAlone}
         /\ Unknown!Answer(t) \in {Blocked, ReadyAlone}
         /\ Watch!Answer(t) \in {Blocked, ReadyAlone}
         /\ TaskWait!Answer(t) \in {Blocked, ReadyAlone}
<1>1. Mutex!Answer(t) \in {Blocked, ReadyAlone}
  BY DEF Mutex!Answer, Mutex!Blocked, Mutex!ReadyAlone, Mutex!ReadyWithOthers, Blocked,
         ReadyAlone, ReadyWithOthers
<1>2. Join!Answer(t) \in {Blocked, ReadyAlone}
  BY DEF Join!Answer, Join!Blocked, Join!ReadyAlone, Join!ReadyWithOthers, Blocked,
         ReadyAlone, ReadyWithOthers
<1>3. Unknown!Answer(t) \in {Blocked, ReadyAlone}
  BY DEF Unknown!Answer, Unknown!Blocked, Unknown!ReadyAlone, Unknown!ReadyWithOthers,
         Blocked, ReadyAlone, ReadyWithOthers
<1>4. Watch!Answer(t) \in {Blocked, ReadyAlone}
  BY DEF Watch!Answer, Watch!Blocked, Watch!ReadyAlone, Watch!ReadyWithOthers, Blocked,
         ReadyAlone, ReadyWithOthers
<1>5. TaskWait!Answer(t) \in {Blocked, ReadyAlone}
  BY DEF TaskWait!Answer, TaskWait!Blocked, TaskWait!ReadyAlone, TaskWait!ReadyWithOthers,
         Blocked, ReadyAlone, ReadyWithOthers
<1>6. QED
  BY <1>1, <1>2, <1>3, <1>4, <1>5

(* Every model answers, and the merged answer is one the scheduler knows.  *)
LEMMA AnswersAreDeps ==
  ASSUME Rwlock!TypeOK, Barrier!TypeOK, NEW t \in TaskIds
  PROVE  TaskProgressDependencies(t) \in Deps
<1> DEFINE answers == {Mutex!Answer(t), Rwlock!Answer(t), Barrier!Answer(t), Join!Answer(t),
                       Unknown!Answer(t), Watch!Answer(t), TaskWait!Answer(t)}
<1>1. \A need \in SUBSET TaskIds : ReadyWithOthers(need) \in Deps
  BY DEF Deps
<1>2. Blocked \in Deps /\ ReadyAlone \in Deps
  BY <1>1 DEF Deps, ReadyAlone
<1>3. /\ Mutex!Answer(t) \in {Blocked, ReadyAlone}
      /\ Join!Answer(t) \in {Blocked, ReadyAlone}
      /\ Unknown!Answer(t) \in {Blocked, ReadyAlone}
      /\ Watch!Answer(t) \in {Blocked, ReadyAlone}
      /\ TaskWait!Answer(t) \in {Blocked, ReadyAlone}
  BY PlainAnswers
<1>4. Rwlock!Answer(t) \in Deps
  <2>1. \A w \in rwlock_waiting[t] : Rwlock!Holders(w[1], w[2]) \subseteq TaskIds
    BY DEF Rwlock!TypeOK, Rwlock!Holders, Rwlock!HeldAs, Rwlock!Unheld
  <2>2. UNION {Rwlock!Holders(w[1], w[2]) : w \in rwlock_waiting[t]} \in SUBSET TaskIds
    BY <2>1
  <2>3. QED
    BY <2>2, <1>1 DEF Rwlock!Answer, Rwlock!ReadyWithOthers, ReadyWithOthers
<1>5. Barrier!Answer(t) \in Deps
  <2>1. barrier_waiting[t] # None => barriers[barrier_waiting[t]].tasks \in SUBSET TaskIds
    BY DEF Barrier!TypeOK
  <2>2. \/ Barrier!Answer(t) \in {Blocked, ReadyAlone}
        \/ /\ barrier_waiting[t] # None
           /\ Barrier!Answer(t) = ReadyWithOthers(barriers[barrier_waiting[t]].tasks)
    BY DEF Barrier!Answer, Barrier!Blocked, Barrier!ReadyAlone, Barrier!ReadyWithOthers,
           Blocked, ReadyAlone, ReadyWithOthers
  <2>3. QED
    BY <2>1, <2>2, <1>1, <1>2
<1>6. answers \in SUBSET Deps
  BY <1>2, <1>3, <1>4, <1>5
<1> HIDE DEF answers
<1>7. UNION {a.need : a \in answers} \in SUBSET TaskIds
  BY <1>6 DEF Deps, Blocked, ReadyWithOthers
<1>8. MergeAll(answers) \in Deps
  BY <1>1, <1>2, <1>7 DEF MergeAll
<1>9. QED
  BY <1>8 DEF TaskProgressDependencies, answers

(* The types of all the models, which are inductive. *)
RegistryIInv == MutexIInv /\ WatchIInv /\ Barrier!TypeOK /\ TaskWait!TypeOK /\ OthersTypeOK

LEMMA InitRegistryIInv == RegistryInit => RegistryIInv
  BY InitMutexIInv, InitWatchIInv, InitBarrierTypes, InitTaskWaitTypes, InitOthers
  DEF RegistryIInv

LEMMA RegistryStep ==
  ASSUME NEW events, NEW init_events, AllAddressed(events, init_events), RegistryIInv,
         [RegistryNext(events, init_events)]_registryVars
  PROVE  RegistryIInv'
  BY MutexStep, WatchStep, BarrierStep, TaskWaitStep, OthersStep DEF RegistryIInv

LEMMA RegistryIInvTypes == RegistryIInv => RegistryTypeOK
  BY AnswersAreDeps DEF RegistryIInv, MutexIInv, WatchIInv, OthersTypeOK, RegistryTypeOK

(* Whatever events any number of tasks send, accepted or refused, the maps *)
(* of all the models keep their types, a lock that is held has a holder,   *)
(* and what the models answer together is an answer the scheduler knows,   *)
(* about tasks that exist.                                                 *)
THEOREM RegistryTypeCorrect ==
  ASSUME NEW CONSTANT events, NEW CONSTANT init_events, AllAddressed(events, init_events)
  PROVE  RegistrySpec(events, init_events) => []RegistryTypeOK
<1>1. RegistryIInv /\ [RegistryNext(events, init_events)]_registryVars => RegistryIInv'
  BY RegistryStep
<1>2. QED
  BY <1>1, InitRegistryIInv, RegistryIInvTypes, PTL DEF RegistrySpec
=============================================================================
