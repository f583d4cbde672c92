--------------------------- MODULE RestApiProofs ---------------------------
(***************************************************************************)
(* Safety of the restapi example for any number of requests, scheduler ids *)
(* and announced counts: which requests fail, which loops die, and that    *)
(* none is leaked.                                                         *)
(***************************************************************************)
EXTENDS RestApi, FiniteSetTheorems, TLAPS

Arrived(s) == {r \in Requests : scheduler[r] = s /\ ip[r] > 2}

Created(s) == loop[s] # "none"

(* Requests and schedulers are numbered without gaps, and there are no     *)
(* more schedulers than requests: the number of a new one is free.         *)
NumberedInOrder ==
  \E n \in 0..MaxRequests, k \in 0..MaxRequests :
    /\ k <= n
    /\ \A r \in Requests : client[r] # "none" <=> r <= n
    /\ \A s \in Schedulers : Created(s) <=> s <= k

(* Only schedulers that exist are registered or serve requests, and their  *)
(* barriers have places.                                                   *)
UsedAreCreated ==
  /\ \A id \in SchedulerIds : schedulers[id] # None => Created(schedulers[id])
  /\ \A r \in Requests : scheduler[r] # None => Created(scheduler[r])
  /\ \A s \in Schedulers : Created(s) => capacity[s] \in Nat /\ capacity[s] > 0

(* What the client of a request knows against the progress of its task.    *)
ClientsAndTasks ==
  \A r \in Requests :
    /\ client[r] = "none" => scheduler[r] = None /\ state[r] = "none"
    /\ client[r] = "waiting" => scheduler[r] # None /\ state[r] # "Finished"
    /\ client[r] = "failed" =>
         ip[r] = 1 \/ (scheduler[r] # None /\ loop[scheduler[r]] = "diverged")
    /\ client[r] = "answered" => ip[r] = 6
    /\ scheduler[r] = None => ip[r] = 1
    /\ state[r] = "none" => ip[r] = 1

(* A barrier holds the requests that have come and not left, whether their *)
(* clients are there or not, and exists as long as it holds any.           *)
BarriersHold ==
  /\ \A s \in Schedulers :
       /\ barriers[s].tasks = {r \in Requests : scheduler[r] = s /\ ip[r] \in {2, 3}}
       /\ barriers[s].tasks # {} => Barrier!Exists(s)
  /\ \A r \in Requests : barrier_waiting[r] # None => barrier_waiting[r] = scheduler[r]

(* A request has arrived at tokio's barrier when it is counted there.      *)
ArrivalsCounted ==
  /\ \A s \in Schedulers : arrivals[s] <= Cardinality(Arrived(s))
  /\ \A r \in Requests : ip[r] > 2 => arrival[r] > 0

(* A barrier is gone only when as many have come as were announced.        *)
GoneWhenAllCame ==
  \A s \in Schedulers :
    Created(s) /\ ~Barrier!Exists(s) => Cardinality(Came(s)) >= capacity[s]

IInv ==
  /\ TypeOK
  /\ NumberedInOrder
  /\ UsedAreCreated
  /\ ClientsAndTasks
  /\ BarriersHold
  /\ ArrivalsCounted
  /\ GoneWhenAllCame
  /\ FailuresExplained
  /\ NoLeakedLoop
  /\ LoopDiesOfLeaver

LEMMA InitIInv == Init => IInv
<1> SUFFICES ASSUME Init PROVE IInv
  OBVIOUS
<1> USE MaxRequestsAssumption, NoneAssumption DEF Requests, Schedulers
<1>1. TypeOK
  <2>1. Barrier!TypeOK
    BY DEF Init, Barrier!Init, Barrier!TypeOK, Barrier!NoBarrier, Barrier!BarrierState
  <2>2. /\ client \in [Requests -> {"none", "waiting", "answered", "failed", "gone"}]
        /\ scheduler \in [Requests -> Schedulers \cup {None}]
        /\ state \in [Requests -> {"none", "Running", "Ready", "Finished"}]
        /\ ip \in [Requests -> 1..6]
        /\ arrival \in [Requests -> Nat]
    BY DEF Init
  <2>3. /\ schedulers \in [SchedulerIds -> Schedulers \cup {None}]
        /\ poisoned \in BOOLEAN
        /\ loop \in [Schedulers -> {"none", "running", "replaying", "stopped", "dead", "diverged"}]
        /\ cancelled \subseteq Schedulers
        /\ capacity \in [Schedulers -> Nat]
        /\ arrivals \in [Schedulers -> Nat]
    BY DEF Init
  <2>4. QED
    BY <2>1, <2>2, <2>3 DEF TypeOK
<1>2. NumberedInOrder
  <2>1. /\ 0 \in 0..MaxRequests /\ 0 <= 0
        /\ \A r \in Requests : client[r] # "none" <=> r <= 0
        /\ \A s \in Schedulers : Created(s) <=> s <= 0
    BY DEF Init, Created
  <2>2. QED
    BY <2>1 DEF NumberedInOrder
<1>3. UsedAreCreated /\ ClientsAndTasks
  BY DEF Init, UsedAreCreated, Created, ClientsAndTasks
<1>4. BarriersHold
  BY DEF Init, BarriersHold, Barrier!Init, Barrier!NoBarrier, Barrier!BarrierState
<1>5. ArrivalsCounted
  <2>1. \A s \in Schedulers : Arrived(s) = {} /\ arrivals[s] = 0
    BY DEF Init, Arrived
  <2>2. QED
    <3>1. Cardinality({}) = 0
      BY FS_EmptySet
    <3>2. \A s \in Schedulers : arrivals[s] <= Cardinality(Arrived(s))
      BY <2>1, <3>1
    <3>3. \A r \in Requests : ip[r] = 1
      BY DEF Init
    <3>4. QED
      BY <3>2, <3>3 DEF ArrivalsCounted
<1>6. GoneWhenAllCame /\ FailuresExplained /\ NoLeakedLoop /\ LoopDiesOfLeaver
  BY DEF Init, GoneWhenAllCame, Created, FailuresExplained, NoLeakedLoop, Runs, LoopDiesOfLeaver
<1>7. QED
  BY <1>1, <1>2, <1>3, <1>4, <1>5, <1>6 DEF IInv

-----------------------------------------------------------------------------
LEMMA CountRequests ==
  ASSUME NEW T \in SUBSET Requests, NEW S \in SUBSET T
  PROVE  /\ IsFiniteSet(S) /\ Cardinality(S) \in Nat /\ Cardinality(T) \in Nat
         /\ Cardinality(S) <= Cardinality(T)
<1>1. IsFiniteSet(Requests)
  BY MaxRequestsAssumption, FS_Interval DEF Requests
<1>2. IsFiniteSet(T)
  BY <1>1, FS_Subset
<1>3. QED
  BY <1>2, FS_Subset, FS_CardinalityType

LEMMA CapacityOfCreated ==
  ASSUME IInv, NEW s \in Schedulers, Created(s)
  PROVE  capacity[s] \in Nat /\ capacity[s] > 0
  BY DEF IInv, UsedAreCreated

(* Whoever has come stays among those that came.                           *)
OnlyMoreCome ==
  \A r \in Requests : scheduler[r] # None => scheduler'[r] = scheduler[r] /\ ip'[r] >= ip[r]

LEMMA MoreCame ==
  ASSUME IInv, TypeOK', OnlyMoreCome, NEW s \in Schedulers
  PROVE  /\ Came(s) \subseteq Came(s)' /\ Arrived(s) \subseteq Arrived(s)'
         /\ Cardinality(Came(s)) \in Nat /\ Cardinality(Came(s)') \in Nat
         /\ Cardinality(Came(s)) <= Cardinality(Came(s)')
         /\ Cardinality(Arrived(s)) \in Nat /\ Cardinality(Arrived(s)') \in Nat
         /\ Cardinality(Arrived(s)) <= Cardinality(Arrived(s)')
<1>1. s # None
  BY NoneAssumption DEF Schedulers
<1>2. \A r \in Requests : ip[r] \in Nat /\ ip'[r] \in Nat
  BY DEF IInv, TypeOK
<1>3. Came(s) \subseteq Came(s)' /\ Came(s)' \subseteq Requests
  BY <1>1, <1>2 DEF OnlyMoreCome, Came
<1>4. Arrived(s) \subseteq Arrived(s)' /\ Arrived(s)' \subseteq Requests
  BY <1>1, <1>2 DEF OnlyMoreCome, Arrived
<1>5. QED
  BY <1>3, <1>4, CountRequests

(* What has diverged stays so.                                             *)
StaysDiverged == \A s \in Schedulers : loop[s] = "diverged" => loop'[s] = "diverged"

(* Three of the invariants hold on when nothing goes backwards.            *)
LEMMA KeepsGone ==
  ASSUME IInv, TypeOK', OnlyMoreCome, capacity' = capacity,
         \A s \in Schedulers : Created(s)' => Created(s),
         \A s \in Schedulers : Barrier!Exists(s) => Barrier!Exists(s)'
  PROVE  GoneWhenAllCame'
<1> SUFFICES ASSUME NEW s \in Schedulers, Created(s), ~Barrier!Exists(s)
             PROVE  Cardinality(Came(s)') >= capacity[s]
  BY DEF GoneWhenAllCame
<1>1. Cardinality(Came(s)) >= capacity[s]
  BY DEF IInv, GoneWhenAllCame
<1>2. QED
  BY <1>1, MoreCame, CapacityOfCreated

LEMMA KeepsFailed ==
  ASSUME IInv, TypeOK', OnlyMoreCome, StaysDiverged, poisoned => poisoned',
         \A s \in Schedulers : Created(s) => capacity'[s] = capacity[s],
         \A r \in Requests : client'[r] = "failed" =>
           client[r] = "failed" /\ scheduler'[r] = scheduler[r] /\ ip'[r] = ip[r]
  PROVE  FailuresExplained'
<1>1. ASSUME NEW r \in Requests, client'[r] = "failed",
             NEW s \in Schedulers, scheduler'[r] = s
      PROVE  \/ loop'[s] = "diverged"
             \/ r \notin Came(s)' /\ Cardinality(Came(s)') >= capacity'[s]
  <2>1. client[r] = "failed" /\ scheduler[r] = s /\ s # None
    BY <1>1, NoneAssumption DEF Schedulers
  <2>2. CASE loop[s] = "diverged"
    BY <2>2 DEF StaysDiverged
  <2>3. CASE loop[s] # "diverged"
    <3>1. Created(s)
      BY <2>1 DEF IInv, UsedAreCreated
    <3>2. Cardinality(Came(s)) >= capacity[s] /\ ip'[r] = 1
      BY <1>1, <2>1, <2>3 DEF IInv, FailuresExplained, ClientsAndTasks
    <3>3. r \notin Came(s)'
      BY <3>2 DEF Came
    <3>4. QED
      BY <3>1, <3>2, <3>3, MoreCame, CapacityOfCreated
  <2>4. QED
    BY <2>2, <2>3
<1>2. \A r \in Requests : client'[r] = "failed" /\ scheduler'[r] = None => poisoned'
  BY DEF IInv, FailuresExplained
<1>3. \A r \in Requests : scheduler'[r] # None => scheduler'[r] \in Schedulers
  BY DEF TypeOK
<1>4. QED
  BY <1>1, <1>2, <1>3 DEF FailuresExplained

LEMMA KeepsArrivals ==
  ASSUME IInv, TypeOK', OnlyMoreCome, UNCHANGED <<arrivals, arrival>>,
         \A r \in Requests : ip'[r] > 2 => ip[r] > 2
  PROVE  ArrivalsCounted'
<1>1. ASSUME NEW s \in Schedulers
      PROVE  arrivals'[s] <= Cardinality(Arrived(s)')
  <2>1. arrivals[s] <= Cardinality(Arrived(s)) /\ arrivals[s] \in Nat
    BY DEF IInv, ArrivalsCounted, TypeOK
  <2>2. QED
    BY <2>1, MoreCame
<1>2. \A r \in Requests : ip'[r] > 2 => arrival'[r] > 0
  BY DEF IInv, ArrivalsCounted
<1>3. QED
  BY <1>1, <1>2 DEF ArrivalsCounted

LEMMA KeepsBarriers ==
  ASSUME IInv, UNCHANGED barrierVars,
         \A r \in Requests : scheduler[r] # None => scheduler'[r] = scheduler[r],
         \A r \in Requests : (ip'[r] \in {2, 3}) <=> (ip[r] \in {2, 3})
  PROVE  BarriersHold'
<1>1. \A r \in Requests : ip[r] \in {2, 3} => scheduler[r] # None
  BY DEF IInv, ClientsAndTasks
<1>2. ASSUME NEW s \in Schedulers
      PROVE  /\ barriers'[s].tasks
                  = {r \in Requests : scheduler'[r] = s /\ ip'[r] \in {2, 3}}
             /\ barriers'[s].tasks # {} => Barrier!Exists(s)'
  <2>1. {r \in Requests : scheduler'[r] = s /\ ip'[r] \in {2, 3}}
          = {r \in Requests : scheduler[r] = s /\ ip[r] \in {2, 3}}
    BY <1>1
  <2>2. QED
    BY <2>1 DEF IInv, BarriersHold, barrierVars, Barrier!Exists
<1>3. ASSUME NEW r \in Requests, barrier_waiting'[r] # None
      PROVE  barrier_waiting'[r] = scheduler'[r]
  BY <1>3 DEF IInv, BarriersHold, barrierVars
<1>4. QED
  BY <1>2, <1>3 DEF BarriersHold

(* What all steps of a request leave alone: no scheduler comes or goes.    *)
RequestFrame ==
  /\ UNCHANGED <<registryVars, loopVars, capacity, scheduler>>
  /\ \A r \in Requests : client'[r] # "none" <=> client[r] # "none"
  /\ \A r \in Requests : client[r] = "gone" => client'[r] = "gone" /\ ip'[r] = ip[r]
  /\ \A r \in Requests : ip'[r] >= ip[r]

LEMMA KeepsFrame ==
  ASSUME IInv, RequestFrame
  PROVE  NumberedInOrder' /\ UsedAreCreated' /\ NoLeakedLoop' /\ OnlyMoreCome
<1>1. NumberedInOrder'
  <2>1. PICK n \in 0..MaxRequests, k \in 0..MaxRequests :
          /\ k <= n
          /\ \A r \in Requests : client[r] # "none" <=> r <= n
          /\ \A s \in Schedulers : Created(s) <=> s <= k
    BY DEF IInv, NumberedInOrder
  <2>2. /\ \A r \in Requests : client'[r] # "none" <=> r <= n
        /\ \A s \in Schedulers : Created(s)' <=> s <= k
    BY <2>1 DEF RequestFrame, loopVars, Created
  <2>3. QED
    BY <2>1, <2>2 DEF NumberedInOrder
<1>2. UsedAreCreated'
  BY DEF IInv, UsedAreCreated, RequestFrame, registryVars, loopVars, Created
<1>3. NoLeakedLoop'
  BY DEF IInv, NoLeakedLoop, Runs, RequestFrame, registryVars, loopVars
<1>4. OnlyMoreCome
  BY DEF OnlyMoreCome, RequestFrame
<1>5. QED
  BY <1>1, <1>2, <1>3, <1>4

LEMMA KeepsDead ==
  ASSUME IInv, BarriersHold', RequestFrame PROVE LoopDiesOfLeaver'
<1> SUFFICES ASSUME NEW s \in Schedulers, loop[s] = "dead"
             PROVE  \E r \in Requests : client'[r] = "gone" /\ r \in barriers'[s].tasks
  BY DEF LoopDiesOfLeaver, RequestFrame, loopVars
<1>1. PICK r \in Requests : client[r] = "gone" /\ r \in barriers[s].tasks
  BY DEF IInv, LoopDiesOfLeaver
<1>2. scheduler[r] = s /\ ip[r] \in {2, 3}
  BY <1>1 DEF IInv, BarriersHold
<1>3. client'[r] = "gone" /\ scheduler'[r] = s /\ ip'[r] \in {2, 3}
  BY <1>1, <1>2 DEF RequestFrame
<1>4. QED
  BY <1>3 DEF BarriersHold

-----------------------------------------------------------------------------
(* The steps of a request.                                                 *)

(* What a step of a request has to show of its own.                        *)
LEMMA RequestKeeps ==
  ASSUME IInv, RequestFrame, TypeOK', ClientsAndTasks', BarriersHold', ArrivalsCounted',
         \/ \A s \in Schedulers : Barrier!Exists(s) => Barrier!Exists(s)'
         \/ GoneWhenAllCame',
         \/ FailuresExplained'
         \/ \A r \in Requests : client'[r] = "failed" =>
              client[r] = "failed" /\ ip'[r] = ip[r]
  PROVE  IInv'
<1>1. NumberedInOrder' /\ UsedAreCreated' /\ NoLeakedLoop' /\ OnlyMoreCome
  BY KeepsFrame
<1>2. LoopDiesOfLeaver'
  BY KeepsDead
<1>3. capacity' = capacity /\ loop' = loop /\ scheduler' = scheduler /\ poisoned' = poisoned
  BY DEF RequestFrame, loopVars, registryVars
<1>4. GoneWhenAllCame'
  <2>1. CASE \A s \in Schedulers : Barrier!Exists(s) => Barrier!Exists(s)'
    BY <1>1, <1>3, <2>1, KeepsGone DEF Created
  <2>2. QED
    BY <2>1
<1>5. FailuresExplained'
  <2>1. CASE \A r \in Requests : client'[r] = "failed" =>
              client[r] = "failed" /\ ip'[r] = ip[r]
    BY <1>1, <1>3, <2>1, KeepsFailed DEF StaysDiverged
  <2>2. QED
    BY <2>1
<1>6. QED
  BY <1>1, <1>2, <1>4, <1>5 DEF IInv

LEMMA SameBarriersExist ==
  ASSUME UNCHANGED barrierVars
  PROVE  \A s \in Schedulers : Barrier!Exists(s) => Barrier!Exists(s)'
  BY DEF barrierVars, Barrier!Exists

LEMMA StartTaskStep ==
  ASSUME IInv, NEW r \in Requests, StartTask(r) PROVE IInv'
<1>1. TypeOK'
  BY DEF IInv, TypeOK, Barrier!TypeOK, StartTask, registryVars, loopVars, tokioVars, barrierVars
<1>2. RequestFrame
  BY DEF IInv, TypeOK, StartTask, RequestFrame, tokioVars
<1>3. ClientsAndTasks'
  BY DEF IInv, TypeOK, StartTask, ClientsAndTasks, loopVars
<1>4. BarriersHold'
  BY KeepsBarriers DEF StartTask
<1>5. ArrivalsCounted'
  BY <1>1, <1>2, KeepsFrame, KeepsArrivals DEF StartTask, tokioVars
<1>6. \A q \in Requests : client'[q] = "failed" => client[q] = "failed" /\ ip'[q] = ip[q]
  BY DEF StartTask
<1>7. QED
  BY <1>1, <1>2, <1>3, <1>4, <1>5, <1>6, RequestKeeps, SameBarriersExist DEF StartTask

LEMMA SuspendInHandlerStep ==
  ASSUME IInv, NEW r \in Requests, SuspendInHandler(r) PROVE IInv'
<1>1. /\ client[r] = "waiting" /\ state[r] = "Running" /\ ip[r] \in {4, 5}
      /\ state' = [state EXCEPT ![r] = "Ready"]
      /\ ip' = [ip EXCEPT ![r] = ip[r] + 1]
      /\ UNCHANGED <<registryVars, loopVars, tokioVars, barrierVars, client, scheduler>>
  BY DEF SuspendInHandler, IsAt, GoOn
<1>2. ip[r] + 1 \in {5, 6} /\ ip \in [Requests -> 1..6]
  BY <1>1 DEF IInv, TypeOK
<1>3. TypeOK'
  BY <1>1, <1>2
  DEF IInv, TypeOK, Barrier!TypeOK, registryVars, loopVars, tokioVars, barrierVars
<1>4. RequestFrame
  BY <1>1, <1>2 DEF RequestFrame, tokioVars
<1>5. ClientsAndTasks'
  BY <1>1, <1>2 DEF IInv, TypeOK, ClientsAndTasks, loopVars
<1>6. BarriersHold'
  BY <1>1, <1>2, KeepsBarriers
<1>7. ArrivalsCounted'
  BY <1>1, <1>2, <1>3, <1>4, KeepsFrame, KeepsArrivals DEF tokioVars
<1>8. \A q \in Requests : client'[q] = "failed" => client[q] = "failed" /\ ip'[q] = ip[q]
  BY <1>1
<1>9. QED
  BY <1>1, <1>3, <1>4, <1>5, <1>6, <1>7, <1>8, RequestKeeps, SameBarriersExist

LEMMA AnswerStep ==
  ASSUME IInv, NEW r \in Requests, Answer(r) PROVE IInv'
<1>1. /\ client[r] = "waiting" /\ state[r] = "Running" /\ ip[r] = 6
      /\ client' = [client EXCEPT ![r] = "answered"]
      /\ state' = [state EXCEPT ![r] = "Finished"]
      /\ UNCHANGED <<registryVars, loopVars, tokioVars, barrierVars, scheduler, ip>>
  BY DEF Answer, IsAt, EndTask
<1>2. TypeOK'
  BY <1>1 DEF IInv, TypeOK, Barrier!TypeOK, registryVars, loopVars, tokioVars, barrierVars
<1>3. RequestFrame
  BY <1>1 DEF IInv, TypeOK, RequestFrame, tokioVars
<1>4. ClientsAndTasks'
  BY <1>1 DEF IInv, TypeOK, ClientsAndTasks, loopVars
<1>5. BarriersHold'
  BY <1>1, KeepsBarriers
<1>6. ArrivalsCounted'
  BY <1>1, <1>2, <1>3, KeepsFrame, KeepsArrivals DEF tokioVars
<1>7. \A q \in Requests : client'[q] = "failed" => client[q] = "failed" /\ ip'[q] = ip[q]
  BY <1>1 DEF IInv, TypeOK
<1>8. QED
  BY <1>1, <1>2, <1>3, <1>4, <1>5, <1>6, <1>7, RequestKeeps, SameBarriersExist

LEMMA ClientLeavesStep ==
  ASSUME IInv, NEW r \in Requests, ClientLeaves(r) PROVE IInv'
<1>1. /\ client[r] = "waiting"
      /\ client' = [client EXCEPT ![r] = "gone"]
      /\ state' = [state EXCEPT ![r] = IF state[r] = "none" THEN state[r] ELSE "Finished"]
      /\ UNCHANGED <<registryVars, loopVars, tokioVars, barrierVars, scheduler, ip>>
  BY DEF ClientLeaves
<1>2. TypeOK'
  BY <1>1 DEF IInv, TypeOK, Barrier!TypeOK, registryVars, loopVars, tokioVars, barrierVars
<1>3. RequestFrame
  BY <1>1 DEF IInv, TypeOK, RequestFrame, tokioVars
<1>4. ClientsAndTasks'
  BY <1>1 DEF IInv, TypeOK, ClientsAndTasks, loopVars
<1>5. BarriersHold'
  BY <1>1, KeepsBarriers
<1>6. ArrivalsCounted'
  BY <1>1, <1>2, <1>3, KeepsFrame, KeepsArrivals DEF tokioVars
<1>7. \A q \in Requests : client'[q] = "failed" => client[q] = "failed" /\ ip'[q] = ip[q]
  BY <1>1 DEF IInv, TypeOK
<1>8. QED
  BY <1>1, <1>2, <1>3, <1>4, <1>5, <1>6, <1>7, RequestKeeps, SameBarriersExist

(* A request comes to its barrier, which exists.                           *)
LEMMA ComesStep ==
  ASSUME IInv, NEW r \in Requests, SuspendAtBarrier(r), Barrier!Exists(scheduler[r])
  PROVE  IInv'
<1>1. PICK b \in Schedulers : b = scheduler[r]
  BY DEF SuspendAtBarrier, IsAt, IInv, ClientsAndTasks, TypeOK
<1> DEFINE tasks == barriers[b].tasks \cup {r}
           open == barriers[b].reached \/ Barrier!Cardinality(tasks) >= barriers[b].capacity
<1>2. /\ client[r] = "waiting" /\ state[r] = "Running" /\ ip[r] = 1
      /\ state' = [state EXCEPT ![r] = "Ready"]
      /\ ip' = [ip EXCEPT ![r] = ip[r] + 1]
      /\ UNCHANGED <<registryVars, loopVars, tokioVars, client, scheduler>>
      /\ barrier_waiting' = [barrier_waiting EXCEPT ![r] = b]
      /\ barriers' = [barriers EXCEPT ![b] =
                               Barrier!BarrierState(barriers[b].capacity, open, tasks)]
      /\ Barrier!Exists(b)
  BY <1>1 DEF SuspendAtBarrier, IsAt, GoOn, Barrier!WaitingForBarrier
<1>3. open \in BOOLEAN /\ tasks \in SUBSET Requests /\ barriers[b].capacity \in Nat
  <2>1. /\ barriers[b].reached \in BOOLEAN /\ tasks \in SUBSET Requests
        /\ barriers[b].capacity \in Nat
    BY DEF IInv, TypeOK, Barrier!TypeOK
  <2>2. QED
    BY <2>1, Zenon
<1>4. tasks = barriers[b].tasks \cup {r}
  OBVIOUS
<1> HIDE DEF tasks, open
<1>5. ip[r] + 1 = 2 /\ ip \in [Requests -> 1..6]
  BY <1>2 DEF IInv, TypeOK
<1>6. TypeOK'
  <2>1. Barrier!TypeOK'
    BY <1>2, <1>3 DEF IInv, TypeOK, Barrier!TypeOK, Barrier!BarrierState
  <2>2. state' \in [Requests -> {"none", "Running", "Ready", "Finished"}]
        /\ ip' \in [Requests -> 1..6]
    BY <1>2, <1>5 DEF IInv, TypeOK
  <2>3. QED
    BY <1>2, <2>1, <2>2 DEF IInv, TypeOK, registryVars, loopVars, tokioVars
<1>7. RequestFrame
  BY <1>2, <1>5 DEF RequestFrame, tokioVars
<1>8. ClientsAndTasks'
  BY <1>2, <1>5 DEF IInv, TypeOK, ClientsAndTasks, loopVars
<1>9. \A s \in Schedulers :
        /\ barriers'[s].exists <=> barriers[s].exists
        /\ barriers'[s].tasks = IF s = b THEN tasks ELSE barriers[s].tasks
  BY <1>2 DEF IInv, TypeOK, Barrier!TypeOK, Barrier!BarrierState, Barrier!Exists
<1>10. \A s \in Schedulers : Barrier!Exists(s)' <=> Barrier!Exists(s)
  BY <1>9 DEF Barrier!Exists
<1>11. BarriersHold'
  <2>1. ASSUME NEW s \in Schedulers
        PROVE  /\ barriers'[s].tasks
                    = {q \in Requests : scheduler'[q] = s /\ ip'[q] \in {2, 3}}
               /\ barriers'[s].tasks # {} => Barrier!Exists(s)'
    <3>1. /\ barriers[s].tasks = {q \in Requests : scheduler[q] = s /\ ip[q] \in {2, 3}}
          /\ barriers[s].tasks # {} => Barrier!Exists(s)
      BY DEF IInv, BarriersHold
    <3>2. CASE s = b
      <4>1. {q \in Requests : scheduler'[q] = s /\ ip'[q] \in {2, 3}}
              = {q \in Requests : scheduler[q] = s /\ ip[q] \in {2, 3}} \cup {r}
        BY <1>1, <1>2, <1>5, <3>2
      <4>2. QED
        BY <1>2, <1>4, <1>9, <1>10, <3>1, <3>2, <4>1
    <3>3. CASE s # b
      <4>1. {q \in Requests : scheduler'[q] = s /\ ip'[q] \in {2, 3}}
              = {q \in Requests : scheduler[q] = s /\ ip[q] \in {2, 3}}
        BY <1>1, <1>2, <1>5, <3>3
      <4>2. QED
        BY <1>9, <1>10, <3>1, <3>3, <4>1
    <3>4. QED
      BY <3>2, <3>3
  <2>2. \A q \in Requests : barrier_waiting'[q] # None => barrier_waiting'[q] = scheduler'[q]
    BY <1>1, <1>2 DEF IInv, BarriersHold, TypeOK, Barrier!TypeOK
  <2>3. QED
    BY <2>1, <2>2 DEF BarriersHold
<1>12. ArrivalsCounted'
  BY <1>2, <1>5, <1>6, <1>7, KeepsFrame, KeepsArrivals DEF tokioVars
<1>13. \A q \in Requests : client'[q] = "failed" => client[q] = "failed" /\ ip'[q] = ip[q]
  BY <1>2
<1>14. QED
  BY <1>6, <1>7, <1>8, <1>10, <1>11, <1>12, <1>13, RequestKeeps

(* A request comes to its barrier and does not find it.                    *)
LEMMA FailsStep ==
  ASSUME IInv, NEW r \in Requests, SuspendAtBarrier(r), ~Barrier!Exists(scheduler[r])
  PROVE  IInv'
<1>1. PICK b \in Schedulers : b = scheduler[r]
  BY DEF SuspendAtBarrier, IsAt, IInv, ClientsAndTasks, TypeOK
<1>2. /\ client[r] = "waiting" /\ state[r] = "Running" /\ ip[r] = 1
      /\ client' = [client EXCEPT ![r] = "failed"]
      /\ state' = [state EXCEPT ![r] = "Finished"]
      /\ UNCHANGED <<registryVars, loopVars, tokioVars, barrierVars, scheduler, ip>>
  BY <1>1 DEF SuspendAtBarrier, IsAt, EndTask, FailOf, Barrier!BadWaitingForBarrier, barrierVars
<1>3. TypeOK'
  BY <1>2 DEF IInv, TypeOK, Barrier!TypeOK, registryVars, loopVars, tokioVars, barrierVars
<1>4. RequestFrame
  BY <1>2 DEF IInv, TypeOK, RequestFrame, tokioVars
<1>5. ClientsAndTasks'
  BY <1>2 DEF IInv, TypeOK, ClientsAndTasks, loopVars
<1>6. BarriersHold'
  BY <1>2, KeepsBarriers
<1>7. ArrivalsCounted'
  BY <1>2, <1>3, <1>4, KeepsFrame, KeepsArrivals DEF tokioVars
<1>8. FailuresExplained'
  <2>1. b # None /\ Created(b)
    BY <1>1, NoneAssumption DEF IInv, UsedAreCreated, Schedulers
  <2>2. r \notin Came(b) /\ Cardinality(Came(b)) >= capacity[b]
    BY <1>1, <1>2, <2>1 DEF IInv, GoneWhenAllCame, Came
  <2>3. \A q : Came(q)' = Came(q)
    BY <1>2 DEF Came
  <2>4. \A q \in Requests \ {r} : client'[q] = client[q]
    BY <1>2 DEF IInv, TypeOK
  <2>5. UNCHANGED <<capacity, scheduler, poisoned, loop>>
    BY <1>2 DEF tokioVars, registryVars, loopVars
  <2>6. QED
    BY <1>1, <2>1, <2>2, <2>3, <2>4, <2>5 DEF IInv, FailuresExplained
<1>9. QED
  BY <1>2, <1>3, <1>4, <1>5, <1>6, <1>7, <1>8, RequestKeeps, SameBarriersExist

LEMMA SuspendAtBarrierStep ==
  ASSUME IInv, NEW r \in Requests, SuspendAtBarrier(r) PROVE IInv'
  BY ComesStep, FailsStep

LEMMA ArriveAtBarrierStep ==
  ASSUME IInv, NEW r \in Requests, ArriveAtBarrier(r) PROVE IInv'
<1>1. PICK b \in Schedulers : b = scheduler[r]
  BY DEF ArriveAtBarrier, IsAt, IInv, ClientsAndTasks, TypeOK
<1>2. /\ client[r] = "waiting" /\ state[r] = "Running" /\ ip[r] = 2
      /\ arrivals' = [arrivals EXCEPT ![b] = arrivals[b] + 1]
      /\ arrival' = [arrival EXCEPT ![r] = arrivals[b] + 1]
      /\ ip' = [ip EXCEPT ![r] = ip[r] + 1]
      /\ UNCHANGED <<registryVars, loopVars, barrierVars, capacity, client, scheduler, state>>
  BY <1>1 DEF ArriveAtBarrier, IsAt, GoOn
<1>3. ip[r] + 1 = 3 /\ ip \in [Requests -> 1..6] /\ arrivals[b] \in Nat
  BY <1>2 DEF IInv, TypeOK
<1>4. TypeOK'
  BY <1>2, <1>3 DEF IInv, TypeOK, Barrier!TypeOK, registryVars, loopVars, barrierVars
<1>5. RequestFrame
  BY <1>2, <1>3 DEF RequestFrame
<1>6. ClientsAndTasks'
  BY <1>2, <1>3 DEF IInv, TypeOK, ClientsAndTasks, loopVars
<1>7. BarriersHold'
  BY <1>2, <1>3, KeepsBarriers
<1>8. ArrivalsCounted'
  <2>1. ASSUME NEW s \in Schedulers, s # b
        PROVE  arrivals'[s] <= Cardinality(Arrived(s)')
    <3>1. arrivals'[s] = arrivals[s] /\ arrivals[s] \in Nat
      BY <1>2, <2>1 DEF IInv, TypeOK
    <3>2. arrivals[s] <= Cardinality(Arrived(s))
      BY DEF IInv, ArrivalsCounted
    <3>3. QED
      BY <1>4, <1>5, <3>1, <3>2, KeepsFrame, MoreCame
  <2>2. arrivals'[b] <= Cardinality(Arrived(b)')
    <3>1. Arrived(b)' = Arrived(b) \cup {r} /\ r \notin Arrived(b)
      BY <1>1, <1>2, <1>3 DEF Arrived
    <3>2. Arrived(b) \in SUBSET Requests
      BY DEF Arrived
    <3>3. IsFiniteSet(Arrived(b)) /\ Cardinality(Arrived(b)) \in Nat
      BY <3>2, CountRequests
    <3>4. Cardinality(Arrived(b)') = Cardinality(Arrived(b)) + 1
      BY <3>1, <3>3, FS_AddElement
    <3>5. arrivals'[b] = arrivals[b] + 1 /\ arrivals[b] <= Cardinality(Arrived(b))
      BY <1>2 DEF IInv, TypeOK, ArrivalsCounted
    <3>6. QED
      BY <1>3, <3>3, <3>4, <3>5
  <2>3. \A q \in Requests : ip'[q] > 2 => arrival'[q] > 0
    BY <1>2, <1>3 DEF IInv, TypeOK, ArrivalsCounted
  <2>4. QED
    BY <2>1, <2>2, <2>3 DEF ArrivalsCounted
<1>9. \A q \in Requests : client'[q] = "failed" => client[q] = "failed" /\ ip'[q] = ip[q]
  BY <1>2
<1>10. QED
  BY <1>2, <1>4, <1>5, <1>6, <1>7, <1>8, <1>9, RequestKeeps, SameBarriersExist

(* tokio's barrier lets nobody through before its capacity is there.       *)
LEMMA NoneThroughBefore ==
  ASSUME NEW a \in Nat, NEW c \in Nat, NEW i \in Nat, c > 0, i > 0, i <= c * (a \div c)
  PROVE  c <= a
<1>1. PICK q \in Int : q = a \div c /\ c * q <= a
  OBVIOUS
<1>2. q >= 1
  <2>1. CASE q = 0
    BY <1>1, <2>1
  <2>2. CASE q < 0
    <3>1. c * q <= 0
      BY <2>2
    <3>2. QED
      BY <1>1, <3>1
  <2>3. QED
    BY <2>1, <2>2
<1>3. c <= c * q
  BY <1>2
<1>4. QED
  BY <1>1, <1>3

LEMMA ThroughMeansAllCame ==
  ASSUME IInv, NEW r \in Requests, NEW b \in Schedulers, b = scheduler[r], ip[r] = 3,
         LetThrough(r)
  PROVE  capacity[b] <= Cardinality(Came(b))
<1>1. Created(b)
  BY NoneAssumption DEF IInv, UsedAreCreated, Schedulers
<1>2. /\ arrivals[b] \in Nat /\ arrival[r] \in Nat /\ arrival[r] > 0
      /\ arrivals[b] <= Cardinality(Arrived(b))
  BY DEF IInv, TypeOK, ArrivalsCounted
<1>3. capacity[b] <= arrivals[b]
  <2>1. arrival[r] <= capacity[b] * (arrivals[b] \div capacity[b])
    BY DEF LetThrough
  <2>2. QED
    BY <1>1, <1>2, <2>1, CapacityOfCreated, NoneThroughBefore
<1>4. Arrived(b) \in SUBSET Came(b) /\ Came(b) \in SUBSET Requests
  BY DEF Arrived, Came, IInv, TypeOK
<1>5. QED
  BY <1>1, <1>2, <1>3, <1>4, CountRequests, CapacityOfCreated

(* A request leaves its barrier, which still exists.                       *)
LEMMA LeaveBarrierStep ==
  ASSUME IInv, NEW r \in Requests, LeaveBarrier(r) PROVE IInv'
<1>1. PICK b \in Schedulers : b = scheduler[r]
  BY DEF LeaveBarrier, IsAt, IInv, ClientsAndTasks, TypeOK
<1>2. r \in barriers[b].tasks /\ Barrier!Exists(b)
  BY <1>1 DEF LeaveBarrier, IsAt, IInv, BarriersHold
<1> DEFINE left == barriers[b].tasks \ {r}
<1>3. /\ client[r] = "waiting" /\ state[r] = "Running" /\ ip[r] = 3
      /\ LetThrough(r)
      /\ ip' = [ip EXCEPT ![r] = ip[r] + 1]
      /\ UNCHANGED <<registryVars, loopVars, tokioVars, client, state, scheduler>>
      /\ barrier_waiting' = [barrier_waiting EXCEPT ![r] = None]
      /\ barriers' = IF left = {} THEN [barriers EXCEPT ![b] = Barrier!NoBarrier]
                     ELSE [barriers EXCEPT ![b].tasks = left]
  BY <1>1, <1>2 DEF LeaveBarrier, IsAt, GoOn, Barrier!CompletedBarrierWait, Barrier!Leave
<1>4. ip[r] + 1 = 4 /\ ip \in [Requests -> 1..6]
  BY <1>3 DEF IInv, TypeOK
<1>5. Barrier!TypeOK'
  <2> DEFINE State == [exists : BOOLEAN, capacity : Nat,
                     reached : BOOLEAN, tasks : SUBSET Requests]
  <2>1. /\ barrier_waiting \in [Requests -> Schedulers \cup {None}]
        /\ barriers \in [Schedulers -> State]
    BY DEF IInv, TypeOK, Barrier!TypeOK
  <2>2. Barrier!NoBarrier \in State /\ [barriers[b] EXCEPT !.tasks = left] \in State
    BY <2>1 DEF Barrier!NoBarrier, Barrier!BarrierState
  <2> HIDE DEF State, left
  <2>3. barriers' \in [Schedulers -> State]
    BY <1>3, <2>1, <2>2
  <2>4. barrier_waiting' \in [Requests -> Schedulers \cup {None}]
    BY <1>3, <2>1
  <2>5. QED BY <2>3, <2>4 DEF Barrier!TypeOK, State
<1>6. TypeOK'
  <2>1. ip' \in [Requests -> 1..6]
    BY <1>3, <1>4
  <2>2. QED
    BY <1>3, <1>5, <2>1 DEF IInv, TypeOK, registryVars, loopVars, tokioVars
<1>7. RequestFrame
  BY <1>3, <1>4 DEF RequestFrame, tokioVars
<1>8. ClientsAndTasks'
  BY <1>3, <1>4 DEF IInv, TypeOK, ClientsAndTasks, loopVars
<1>9. /\ barriers'[b].tasks = left
      /\ left # {} => barriers'[b].exists
      /\ \A s \in Schedulers \ {b} : barriers'[s] = barriers[s]
  <2>1. barriers \in [Schedulers -> [exists : BOOLEAN, capacity : Nat,
                                    reached : BOOLEAN, tasks : SUBSET Requests]]
    BY DEF IInv, TypeOK, Barrier!TypeOK
  <2>2. barriers[b].exists
    BY <1>2 DEF Barrier!Exists
  <2>3. CASE left = {}
    BY <1>3, <2>1, <2>3 DEF Barrier!NoBarrier
  <2>4. CASE left # {}
    BY <1>3, <2>1, <2>2, <2>4
  <2>5. QED
    BY <2>3, <2>4
<1>10. BarriersHold'
  <2>1. ASSUME NEW s \in Schedulers, s # b
        PROVE  /\ barriers'[s].tasks
                    = {q \in Requests : scheduler'[q] = s /\ ip'[q] \in {2, 3}}
               /\ barriers'[s].tasks # {} => Barrier!Exists(s)'
    <3>1. /\ barriers[s].tasks = {q \in Requests : scheduler[q] = s /\ ip[q] \in {2, 3}}
          /\ barriers[s].tasks # {} => Barrier!Exists(s)
      BY DEF IInv, BarriersHold
    <3>2. {q \in Requests : scheduler'[q] = s /\ ip'[q] \in {2, 3}}
            = {q \in Requests : scheduler[q] = s /\ ip[q] \in {2, 3}}
      BY <1>1, <1>3, <1>4, <2>1
    <3>3. QED
      BY <1>9, <2>1, <3>1, <3>2 DEF Barrier!Exists
  <2>2. /\ barriers'[b].tasks
             = {q \in Requests : scheduler'[q] = b /\ ip'[q] \in {2, 3}}
        /\ barriers'[b].tasks # {} => Barrier!Exists(b)'
    <3>1. barriers[b].tasks = {q \in Requests : scheduler[q] = b /\ ip[q] \in {2, 3}}
      BY DEF IInv, BarriersHold
    <3>2. {q \in Requests : scheduler'[q] = b /\ ip'[q] \in {2, 3}}
            = {q \in Requests : scheduler[q] = b /\ ip[q] \in {2, 3}} \ {r}
      BY <1>1, <1>3, <1>4
    <3>3. QED
      BY <1>2, <1>9, <3>1, <3>2 DEF Barrier!Exists
  <2>3. \A q \in Requests : barrier_waiting'[q] # None => barrier_waiting'[q] = scheduler'[q]
    BY <1>3 DEF IInv, BarriersHold, TypeOK, Barrier!TypeOK
  <2>4. QED
    BY <2>1, <2>2, <2>3 DEF BarriersHold
<1>11. ArrivalsCounted'
  BY <1>3, <1>4, <1>6, <1>7, KeepsFrame, KeepsArrivals DEF tokioVars
<1>12. GoneWhenAllCame'
  <2>1. ASSUME NEW s \in Schedulers, Created(s), ~Barrier!Exists(s)'
        PROVE  Cardinality(Came(s)) >= capacity[s]
    <3>1. CASE s = b
      BY <1>1, <1>3, <3>1, ThroughMeansAllCame, <2>1
    <3>2. CASE s # b
      BY <1>9, <2>1, <3>2 DEF IInv, GoneWhenAllCame, Barrier!Exists
    <3>3. QED
      BY <3>1, <3>2
  <2>2. ASSUME NEW s \in Schedulers, Created(s)', ~Barrier!Exists(s)'
        PROVE  Cardinality(Came(s)') >= capacity'[s]
    <3>1. Created(s) /\ capacity'[s] = capacity[s]
      BY <1>3, <2>2 DEF Created, loopVars, tokioVars
    <3>2. QED
      BY <1>6, <1>7, <2>1, <2>2, <3>1, KeepsFrame, MoreCame, CapacityOfCreated
  <2>3. QED
    BY <2>2 DEF GoneWhenAllCame
<1>13. \A q \in Requests : client'[q] = "failed" => client[q] = "failed" /\ ip'[q] = ip[q]
  BY <1>3
<1>14. QED
  BY <1>6, <1>7, <1>8, <1>10, <1>11, <1>12, <1>13, RequestKeeps

(* A request fails at a point, wherever it is, since its replay diverged.  *)
LEMMA FailAtPointStep ==
  ASSUME IInv, NEW r \in Requests, FailAtPoint(r) PROVE IInv'
<1>1. /\ client[r] = "waiting" /\ state[r] \in {"Ready", "Running"}
      /\ loop[scheduler[r]] = "diverged"
      /\ client' = [client EXCEPT ![r] = "failed"]
      /\ state' = [state EXCEPT ![r] = "Finished"]
      /\ UNCHANGED <<registryVars, loopVars, tokioVars, barrierVars, scheduler, ip>>
  BY DEF FailAtPoint, FailOf, EndTask
<1>2. TypeOK'
  BY <1>1 DEF IInv, TypeOK, Barrier!TypeOK, registryVars, loopVars, tokioVars, barrierVars
<1>3. RequestFrame
  BY <1>1 DEF IInv, TypeOK, RequestFrame, tokioVars
<1>4. scheduler[r] # None
  BY <1>1 DEF IInv, ClientsAndTasks
<1>5. ClientsAndTasks'
  BY <1>1, <1>4 DEF IInv, TypeOK, ClientsAndTasks, loopVars
<1>6. BarriersHold'
  BY <1>1, KeepsBarriers
<1>7. ArrivalsCounted'
  BY <1>1, <1>2, <1>3, KeepsFrame, KeepsArrivals DEF tokioVars
<1>8. FailuresExplained'
  <2>1. \A q : Came(q)' = Came(q)
    BY <1>1 DEF Came
  <2>2. \A q \in Requests \ {r} : client'[q] = client[q]
    BY <1>1 DEF IInv, TypeOK
  <2>3. UNCHANGED <<capacity, scheduler, poisoned, loop>>
    BY <1>1 DEF tokioVars, registryVars, loopVars
  <2>4. QED
    BY <1>1, <1>4, <2>1, <2>2, <2>3 DEF IInv, FailuresExplained
<1>9. QED
  BY <1>1, <1>2, <1>3, <1>5, <1>6, <1>7, <1>8, RequestKeeps, SameBarriersExist

-----------------------------------------------------------------------------
(* The loops.                                                              *)

(* What depends on the requests holds on, when they only change state.     *)
LEMMA SameRequestsKeep ==
  ASSUME IInv, TypeOK', UNCHANGED <<tokioVars, barrierVars, client, scheduler, ip>>,
         UNCHANGED poisoned, StaysDiverged, \A s \in Schedulers : Created(s)' <=> Created(s)
  PROVE  /\ NumberedInOrder' /\ BarriersHold' /\ ArrivalsCounted'
         /\ GoneWhenAllCame' /\ FailuresExplained'
<1>1. OnlyMoreCome
  BY DEF OnlyMoreCome, IInv, TypeOK
<1>2. NumberedInOrder'
  <2>1. PICK n \in 0..MaxRequests, k \in 0..MaxRequests :
          /\ k <= n
          /\ \A r \in Requests : client[r] # "none" <=> r <= n
          /\ \A s \in Schedulers : Created(s) <=> s <= k
    BY DEF IInv, NumberedInOrder
  <2>2. /\ \A r \in Requests : client'[r] # "none" <=> r <= n
        /\ \A s \in Schedulers : Created(s)' <=> s <= k
    BY <2>1
  <2>3. QED
    BY <2>1, <2>2 DEF NumberedInOrder
<1>3. BarriersHold'
  BY KeepsBarriers
<1>4. ArrivalsCounted'
  BY <1>1, KeepsArrivals DEF tokioVars
<1>5. GoneWhenAllCame'
  BY <1>1, KeepsGone, SameBarriersExist DEF tokioVars
<1>6. FailuresExplained'
  BY <1>1, KeepsFailed DEF tokioVars
<1>7. QED
  BY <1>2, <1>3, <1>4, <1>5, <1>6

(* A loop that ends does so alone.                                         *)
LEMMA LoopEnds ==
  ASSUME IInv, NEW s \in Schedulers, Runs(s), NEW end \in {"stopped", "dead", "diverged"},
         loop' = [loop EXCEPT ![s] = end],
         end = "dead" => \E r \in Requests : client[r] = "gone" /\ r \in barriers[s].tasks,
         UNCHANGED <<registryVars, cancelled, tokioVars, barrierVars, requestVars>>
  PROVE  IInv'
<1>1. TypeOK'
  BY DEF IInv, TypeOK, Barrier!TypeOK, registryVars, tokioVars, barrierVars, requestVars
<1>2. StaysDiverged /\ \A u \in Schedulers : Created(u)' <=> Created(u)
  BY DEF IInv, TypeOK, Created, StaysDiverged, Runs
<1>3. /\ NumberedInOrder' /\ BarriersHold' /\ ArrivalsCounted'
      /\ GoneWhenAllCame' /\ FailuresExplained'
  BY <1>1, <1>2, SameRequestsKeep DEF requestVars, registryVars
<1>4. UsedAreCreated'
  BY <1>2 DEF IInv, TypeOK, UsedAreCreated, registryVars, tokioVars, requestVars
<1>5. ClientsAndTasks'
  BY <1>2 DEF IInv, TypeOK, ClientsAndTasks, requestVars, StaysDiverged
<1>6. NoLeakedLoop'
  BY DEF IInv, TypeOK, NoLeakedLoop, Runs, registryVars
<1>7. LoopDiesOfLeaver'
  BY DEF IInv, TypeOK, LoopDiesOfLeaver, requestVars, barrierVars
<1>8. QED
  BY <1>1, <1>3, <1>4, <1>5, <1>6, <1>7 DEF IInv

LEMMA StopLoopStep ==
  ASSUME IInv, NEW s \in Schedulers, StopLoop(s) PROVE IInv'
  BY LoopEnds DEF StopLoop

LEMMA DivergeStep ==
  ASSUME IInv, NEW s \in Schedulers, Diverge(s) PROVE IInv'
  BY LoopEnds DEF Diverge, Runs

(* Nobody needs a request but those that are at its barrier: what a loop   *)
(* resumes is ready, or has ended there without its client.                *)
LEMMA DueAreAtBarrier ==
  ASSUME IInv, NEW s \in Schedulers, NEW t \in Requests, scheduler[t] = s
  PROVE  Tasks!Reach(Answers, t) \subseteq {t} \cup barriers[s].tasks
<1> DEFINE S == {t} \cup barriers[s].tasks
<1>1. S \in SUBSET Requests /\ \A u \in S : scheduler[u] = s
  BY DEF IInv, BarriersHold
<1>2. ASSUME NEW u \in S
      PROVE  Tasks!Needs(Answers, u) \subseteq S
  <2>1. barrier_waiting[u] \in {None, s}
    BY <1>1 DEF IInv, BarriersHold
  <2>2. Answers[u] = Barrier!Answer(u)
    BY <1>1 DEF Answers
  <2>3. Barrier!Answer(u).blocked \/ Barrier!Answer(u).need \subseteq barriers[s].tasks
    BY <2>1 DEF Barrier!Answer, Barrier!ReadyAlone, Barrier!ReadyWithOthers, Barrier!Blocked
  <2>4. QED
    BY <2>2, <2>3 DEF Tasks!Needs
<1>3. Tasks!ClosedUnder(Answers, S)
  BY <1>2 DEF Tasks!ClosedUnder
<1>4. QED
  BY <1>1, <1>3 DEF Tasks!Reach

LEMMA DueAreReady ==
  ASSUME IInv, NEW s \in Schedulers, Runs(s), NEW due \in Due(s), NEW u \in due
  PROVE  /\ u \in Requests /\ scheduler[u] = s
         /\ u \notin Ready(s) => client[u] = "gone" /\ u \in barriers[s].tasks
<1>1. ASSUME NEW t \in Running(s) \cup Ready(s), u \in Tasks!Reach(Answers, t) \ Running(s)
      PROVE  /\ u \in Requests /\ scheduler[u] = s
             /\ u \notin Ready(s) => client[u] = "gone" /\ u \in barriers[s].tasks
  <2>1. t \in Requests /\ scheduler[t] = s
    BY DEF Running, Ready
  <2>2. u \in {t} \cup barriers[s].tasks
    BY <1>1, <2>1, DueAreAtBarrier
  <2>3. u \in Requests /\ scheduler[u] = s
    BY <2>1, <2>2 DEF IInv, BarriersHold
  <2>4. ASSUME u \notin Ready(s)
        PROVE  client[u] = "gone" /\ u \in barriers[s].tasks
    <3>1. u \in barriers[s].tasks
      BY <1>1, <2>2, <2>4
    <3>2. ip[u] \in {2, 3}
      BY <3>1 DEF IInv, BarriersHold
    <3>3. state[u] = "Finished"
      BY <1>1, <2>3, <2>4, <3>2 DEF Running, Ready, IInv, TypeOK, ClientsAndTasks
    <3>4. s # None
      BY NoneAssumption DEF Schedulers
    <3>5. client[u] = "gone"
      BY <2>3, <3>2, <3>3, <3>4 DEF IInv, TypeOK, ClientsAndTasks, Runs
    <3>6. QED
      BY <3>1, <3>5
  <2>5. QED
    BY <2>3, <2>4
<1>2. CASE Tasks!HasReady(Answers, Running(s))
  <2>1. u \in Tasks!NeedToRun(Answers, Running(s))
    BY <1>2 DEF Due
  <2>2. QED
    BY <1>1, <2>1 DEF Tasks!NeedToRun, Tasks!Unblocked
<1>3. CASE ~Tasks!HasReady(Answers, Running(s))
  <2>1. due \in Tasks!Choices(Answers, Running(s), Ready(s))
    BY <1>3 DEF Due
  <2>2. QED
    BY <1>1, <2>1 DEF Tasks!Choices, Tasks!Unblocked
<1>4. QED
  BY <1>2, <1>3

LEMMA MissStableIdStep ==
  ASSUME IInv, NEW s \in Schedulers, MissStableId(s) PROVE IInv'
<1>1. Runs(s)
  BY DEF MissStableId, Runs
<1>2. PICK due \in Due(s) : ~(due \subseteq Ready(s))
  BY DEF MissStableId
<1>3. \E r \in Requests : client[r] = "gone" /\ r \in barriers[s].tasks
  BY <1>1, <1>2, DueAreReady
<1>4. QED
  BY <1>1, <1>3, LoopEnds DEF MissStableId

LEMMA ResumeStep ==
  ASSUME IInv, NEW s \in Schedulers, Resume(s) PROVE IInv'
<1>1. PICK due \in Due(s), to_run \in SUBSET Requests :
        /\ Runs(s)
        /\ \A r \in to_run : scheduler[r] = s
        /\ state' = [r \in Requests |-> IF r \in to_run THEN "Running" ELSE state[r]]
        /\ \/ loop' = loop
           \/ loop' = [loop EXCEPT ![s] = "dead"] /\ ~(due \subseteq Ready(s))
        /\ UNCHANGED <<registryVars, cancelled, tokioVars, barrierVars, client, scheduler, ip>>
  <2>1. PICK due \in Due(s) :
          IF due \subseteq Ready(s)
          THEN /\ state' = [r \in Requests |-> IF r \in due THEN "Running" ELSE state[r]]
               /\ UNCHANGED loop
          ELSE /\ \E before \in SUBSET (due \cap Ready(s)), ended \in due \ Ready(s) :
                    state' = [r \in Requests |-> IF r \in before \cup {ended} THEN "Running"
                                                 ELSE state[r]]
               /\ loop' = [loop EXCEPT ![s] = "dead"]
    BY DEF Resume
  <2>2. CASE due \subseteq Ready(s)
    <3>1. due \in SUBSET Requests /\ \A r \in due : scheduler[r] = s
      BY DueAreReady DEF Resume
    <3>2. QED
      BY <2>1, <2>2, <3>1 DEF Resume
  <2>3. CASE ~(due \subseteq Ready(s))
    <3>1. PICK before \in SUBSET (due \cap Ready(s)), ended \in due \ Ready(s) :
            state' = [r \in Requests |-> IF r \in before \cup {ended} THEN "Running"
                                         ELSE state[r]]
      BY <2>1, <2>3
    <3>2. before \cup {ended} \in SUBSET Requests /\ \A r \in before \cup {ended} : scheduler[r] = s
      BY DueAreReady DEF Resume
    <3>3. QED
      BY <2>1, <2>3, <3>1, <3>2 DEF Resume
  <2>4. QED
    BY <2>2, <2>3
<1>2. /\ state' \in [Requests -> {"none", "Running", "Ready", "Finished"}]
      /\ loop' \in [Schedulers -> {"none", "running", "replaying", "stopped", "dead", "diverged"}]
  BY <1>1 DEF IInv, TypeOK
<1>3. TypeOK'
  BY <1>1, <1>2 DEF IInv, TypeOK, Barrier!TypeOK, registryVars, tokioVars, barrierVars
<1>4. StaysDiverged /\ \A u \in Schedulers : Created(u)' <=> Created(u)
  BY <1>1 DEF IInv, TypeOK, Created, StaysDiverged, Runs
<1>5. /\ NumberedInOrder' /\ BarriersHold' /\ ArrivalsCounted'
      /\ GoneWhenAllCame' /\ FailuresExplained'
  BY <1>1, <1>3, <1>4, SameRequestsKeep DEF registryVars
<1>6. UsedAreCreated'
  BY <1>1, <1>4 DEF IInv, TypeOK, UsedAreCreated, registryVars, tokioVars
<1>7. ClientsAndTasks'
  <2>1. s # None
    BY NoneAssumption DEF Schedulers
  <2>2. \A r \in Requests :
          state'[r] = state[r] \/ (state'[r] = "Running" /\ scheduler[r] # None)
    BY <1>1, <2>1
  <2>3. QED
    BY <1>1, <1>4, <2>2 DEF IInv, TypeOK, ClientsAndTasks, StaysDiverged
<1>8. NoLeakedLoop'
  BY <1>1 DEF IInv, TypeOK, NoLeakedLoop, Runs, registryVars
<1>9. LoopDiesOfLeaver'
  <2>1. ASSUME NEW u \in Schedulers, loop'[u] = "dead", loop[u] # "dead"
        PROVE  \E r \in Requests : client[r] = "gone" /\ r \in barriers[u].tasks
    <3>1. u = s /\ ~(due \subseteq Ready(s))
      BY <1>1, <2>1 DEF IInv, TypeOK
    <3>2. QED
      BY <1>1, <3>1, DueAreReady
  <2>2. ASSUME NEW u \in Schedulers, loop'[u] = "dead"
        PROVE  \E r \in Requests : client'[r] = "gone" /\ r \in barriers'[u].tasks
    BY <1>1, <2>1, <2>2 DEF IInv, LoopDiesOfLeaver, barrierVars
  <2>3. QED
    BY <2>2 DEF LoopDiesOfLeaver
<1>10. QED
  BY <1>3, <1>5, <1>6, <1>7, <1>8, <1>9 DEF IInv

-----------------------------------------------------------------------------
(* The middleware.                                                         *)

LEMMA RetrieveStep ==
  ASSUME IInv, NEW id \in SchedulerIds, Retrieve(id) PROVE IInv'
<1>1. /\ schedulers[id] # None
      /\ schedulers' = [schedulers EXCEPT ![id] = None]
      /\ cancelled' = cancelled \cup {schedulers[id]}
      /\ UNCHANGED <<poisoned, loop, tokioVars, barrierVars, requestVars>>
  BY DEF Retrieve
<1>2. TypeOK'
  BY <1>1 DEF IInv, TypeOK, Barrier!TypeOK, tokioVars, barrierVars, requestVars
<1>3. /\ NumberedInOrder' /\ BarriersHold' /\ ArrivalsCounted'
      /\ GoneWhenAllCame' /\ FailuresExplained'
  BY <1>1, <1>2, SameRequestsKeep DEF requestVars, Created, StaysDiverged
<1>4. UsedAreCreated'
  BY <1>1 DEF IInv, TypeOK, UsedAreCreated, tokioVars, requestVars, Created
<1>5. ClientsAndTasks'
  BY <1>1 DEF IInv, ClientsAndTasks, requestVars
<1>6. NoLeakedLoop'
  BY <1>1 DEF IInv, TypeOK, NoLeakedLoop, Runs
<1>7. LoopDiesOfLeaver'
  BY <1>1 DEF IInv, LoopDiesOfLeaver, requestVars, barrierVars
<1>8. QED
  BY <1>2, <1>3, <1>4, <1>5, <1>6, <1>7 DEF IInv

(* The number after those of the schedulers that exist is free.            *)
LEMMA NumberIsFree ==
  ASSUME NumberedInOrder, NEW r \in Requests, IsNext(r)
  PROVE  \E k \in 0..MaxRequests : k < r /\ \A s \in Schedulers : Created(s) <=> s <= k
<1>1. PICK n \in 0..MaxRequests, k \in 0..MaxRequests :
        /\ k <= n
        /\ \A q \in Requests : client[q] # "none" <=> q <= n
        /\ \A s \in Schedulers : Created(s) <=> s <= k
  BY DEF NumberedInOrder
<1>2. r \in 1..MaxRequests /\ \A q \in 1..MaxRequests : q < r <=> q <= n
  BY <1>1 DEF IsNext, Requests
<1>3. n < r
  BY <1>2
<1>4. QED
  BY <1>1, <1>2, <1>3

LEMMA OneMoreRequest ==
  ASSUME NEW r \in Requests, IsNext(r), client'[r] # "none",
         \A q \in Requests \ {r} : client'[q] = client[q],
         NEW k \in 0..MaxRequests, k <= r, \A s \in Schedulers : Created(s)' <=> s <= k
  PROVE  NumberedInOrder'
<1>1. \A q \in Requests : client'[q] # "none" <=> q <= r
  BY DEF IsNext, Requests
<1>2. r \in 0..MaxRequests
  BY DEF Requests
<1>3. QED
  BY <1>1, <1>2 DEF NumberedInOrder

LEMMA FailToCreateStep ==
  ASSUME IInv, NEW r \in Requests, NEW id \in SchedulerIds, FailToCreate(r, id)
  PROVE  IInv'
<1>1. /\ client[r] = "none" /\ IsNext(r)
      /\ poisoned'
      /\ poisoned' \in BOOLEAN
      /\ client' = [client EXCEPT ![r] = "failed"]
      /\ UNCHANGED <<schedulers, loopVars, tokioVars, barrierVars, scheduler, state, ip>>
  BY DEF FailToCreate, FailOf, IsNext, Requests
<1>2. TypeOK'
  BY <1>1 DEF IInv, TypeOK, Barrier!TypeOK, loopVars, tokioVars, barrierVars
<1>3. scheduler[r] = None /\ ip[r] = 1
  BY <1>1 DEF IInv, ClientsAndTasks
<1>4. OnlyMoreCome
  BY <1>1 DEF OnlyMoreCome, IInv, TypeOK
<1>5. NumberedInOrder'
  <2>1. PICK k \in 0..MaxRequests : k < r /\ \A s \in Schedulers : Created(s) <=> s <= k
    BY <1>1, NumberIsFree DEF IInv
  <2>2. k <= r /\ \A s \in Schedulers : Created(s)' <=> s <= k
    BY <1>1, <2>1 DEF loopVars, Created, Requests
  <2>3. client'[r] # "none" /\ \A q \in Requests \ {r} : client'[q] = client[q]
    BY <1>1 DEF IInv, TypeOK
  <2>4. QED
    BY <1>1, <2>2, <2>3, OneMoreRequest
<1>6. UsedAreCreated'
  BY <1>1 DEF IInv, TypeOK, UsedAreCreated, loopVars, tokioVars, Created
<1>7. ClientsAndTasks'
  BY <1>1, <1>3 DEF IInv, TypeOK, ClientsAndTasks, loopVars
<1>8. BarriersHold'
  BY <1>1, KeepsBarriers
<1>9. ArrivalsCounted'
  BY <1>1, <1>2, <1>4, KeepsArrivals DEF tokioVars
<1>10. GoneWhenAllCame'
  BY <1>1, <1>2, <1>4, KeepsGone, SameBarriersExist DEF loopVars, tokioVars, Created
<1>11. FailuresExplained'
  <2>1. \A q : Came(q)' = Came(q)
    BY <1>1 DEF Came
  <2>2. \A q \in Requests \ {r} : client'[q] = client[q]
    BY <1>1 DEF IInv, TypeOK
  <2>3. UNCHANGED <<capacity, scheduler, loop>>
    BY <1>1 DEF tokioVars, loopVars
  <2>4. QED
    BY <1>1, <1>3, <2>1, <2>2, <2>3 DEF IInv, FailuresExplained
<1>12. NoLeakedLoop'
  BY <1>1 DEF IInv, NoLeakedLoop, Runs, loopVars
<1>13. LoopDiesOfLeaver'
  BY <1>1 DEF IInv, TypeOK, LoopDiesOfLeaver, loopVars, barrierVars
<1>14. QED
  BY <1>2, <1>5, <1>6, <1>7, <1>8, <1>9, <1>10, <1>11, <1>12, <1>13 DEF IInv

(* A request that is served has its scheduler from now on, and everything  *)
(* else before it.                                                         *)
LEMMA ServeKeeps ==
  ASSUME IInv, NEW r \in Requests, NEW s \in Schedulers, Serve(r, s), StaysDiverged
  PROVE  /\ OnlyMoreCome /\ ClientsAndTasks'
         /\ client' \in [Requests -> {"none", "waiting", "answered", "failed", "gone"}]
         /\ scheduler' \in [Requests -> Schedulers \cup {None}]
         /\ client'[r] = "waiting" /\ \A q \in Requests \ {r} : client'[q] = client[q]
         /\ client[r] = "none" /\ scheduler[r] = None /\ ip[r] = 1
<1>1. /\ client[r] = "none"
      /\ client' = [client EXCEPT ![r] = "waiting"]
      /\ scheduler' = [scheduler EXCEPT ![r] = s]
      /\ UNCHANGED <<state, ip>>
  BY DEF Serve, IsNext, Requests
<1>2. scheduler[r] = None /\ ip[r] = 1 /\ s # None
  BY <1>1, NoneAssumption DEF IInv, ClientsAndTasks, Schedulers
<1>3. OnlyMoreCome
  BY <1>1, <1>2 DEF OnlyMoreCome, IInv, TypeOK
<1>4. state[r] # "Finished"
  BY <1>1 DEF IInv, ClientsAndTasks
<1>5. ClientsAndTasks'
  BY <1>1, <1>2, <1>4 DEF IInv, TypeOK, ClientsAndTasks, StaysDiverged
<1>6. QED
  BY <1>1, <1>2, <1>3, <1>5 DEF IInv, TypeOK

LEMMA JoinSchedulerStep ==
  ASSUME IInv, NEW r \in Requests, NEW id \in SchedulerIds, JoinScheduler(r, id)
  PROVE  IInv'
<1>1. PICK s \in Schedulers :
        /\ s = schedulers[id] /\ Created(s) /\ Serve(r, s)
        /\ UNCHANGED <<registryVars, loopVars, barrierVars, capacity>>
        /\ StaysDiverged
  BY DEF JoinScheduler, IInv, TypeOK, UsedAreCreated, StaysDiverged, loopVars
<1>2. /\ IsNext(r) /\ scheduler' = [scheduler EXCEPT ![r] = s]
      /\ UNCHANGED <<state, ip, arrivals, arrival>>
  BY <1>1 DEF Serve
<1>3. /\ OnlyMoreCome /\ ClientsAndTasks'
      /\ client' \in [Requests -> {"none", "waiting", "answered", "failed", "gone"}]
      /\ scheduler' \in [Requests -> Schedulers \cup {None}]
      /\ client'[r] = "waiting" /\ \A q \in Requests \ {r} : client'[q] = client[q]
      /\ client[r] = "none" /\ scheduler[r] = None /\ ip[r] = 1
  BY <1>1, ServeKeeps
<1>4. TypeOK'
  BY <1>1, <1>2, <1>3 DEF IInv, TypeOK, Barrier!TypeOK, registryVars, loopVars, barrierVars
<1>5. NumberedInOrder'
  <2>1. PICK k \in 0..MaxRequests : k < r /\ \A u \in Schedulers : Created(u) <=> u <= k
    BY <1>2, NumberIsFree DEF IInv
  <2>2. k <= r /\ \A u \in Schedulers : Created(u)' <=> u <= k
    BY <1>1, <2>1 DEF loopVars, Created, Requests
  <2>3. QED
    BY <1>2, <1>3, <2>2, OneMoreRequest
<1>6. UsedAreCreated'
  BY <1>1, <1>2 DEF IInv, TypeOK, UsedAreCreated, registryVars, loopVars, Created
<1>7. BarriersHold'
  BY <1>1, <1>2, <1>3, KeepsBarriers DEF OnlyMoreCome
<1>8. ArrivalsCounted'
  BY <1>2, <1>3, <1>4, KeepsArrivals
<1>9. GoneWhenAllCame'
  BY <1>1, <1>3, <1>4, KeepsGone, SameBarriersExist DEF loopVars, Created
<1>10. FailuresExplained'
  BY <1>1, <1>2, <1>3, <1>4, KeepsFailed DEF registryVars, IInv, TypeOK
<1>11. NoLeakedLoop'
  BY <1>1 DEF IInv, NoLeakedLoop, Runs, loopVars, registryVars
<1>12. LoopDiesOfLeaver'
  BY <1>1, <1>3 DEF IInv, TypeOK, LoopDiesOfLeaver, loopVars, barrierVars
<1>13. QED
  BY <1>3, <1>4, <1>5, <1>6, <1>7, <1>8, <1>9, <1>10, <1>11, <1>12 DEF IInv

LEMMA CreateSchedulerStep ==
  ASSUME IInv, NEW r \in Requests, NEW id \in SchedulerIds, NEW count \in Counts,
         NEW kind \in LoopKinds, CreateScheduler(r, id, count, kind)
  PROVE  IInv'
<1> DEFINE new == Cardinality({u \in Schedulers : loop[u] # "none"}) + 1
<1>1. /\ IsNext(r) /\ schedulers[id] = None /\ Serve(r, new)
      /\ schedulers' = [schedulers EXCEPT ![id] = new]
      /\ loop' = [loop EXCEPT ![new] = kind]
      /\ capacity' = [capacity EXCEPT ![new] = Places(count)]
      /\ Barrier!NewBarrier(new, count)
      /\ UNCHANGED <<poisoned, cancelled>>
  BY DEF CreateScheduler, Serve
<1>2. PICK k \in 0..MaxRequests : k < r /\ \A u \in Schedulers : Created(u) <=> u <= k
  BY <1>1, NumberIsFree DEF IInv
<1>3. new = k + 1
  <2>1. {u \in Schedulers : loop[u] # "none"} = 1..k
    BY <1>2, MaxRequestsAssumption DEF Created, Schedulers
  <2>2. Cardinality(1..k) = k
    BY FS_Interval
  <2>3. QED
    BY <2>1, <2>2
<1>4. PICK s \in Schedulers : s = new /\ s = k + 1 /\ ~Created(s)
  <2>1. k + 1 \in Schedulers /\ ~(k + 1 <= k)
    BY <1>2, MaxRequestsAssumption DEF Requests, Schedulers
  <2>2. QED
    BY <1>2, <1>3, <2>1
<1> HIDE DEF new
<1>5. /\ Serve(r, s)
      /\ scheduler' = [scheduler EXCEPT ![r] = s]
      /\ schedulers' = [schedulers EXCEPT ![id] = s]
      /\ loop' = [loop EXCEPT ![s] = kind]
      /\ capacity' = [capacity EXCEPT ![s] = Places(count)]
      /\ barriers' = [barriers EXCEPT ![s] = Barrier!BarrierState(count, FALSE, {})]
      /\ UNCHANGED <<poisoned, cancelled, state, ip, arrivals, arrival, barrier_waiting>>
  BY <1>1, <1>4 DEF Serve, Barrier!NewBarrier
<1>6. /\ StaysDiverged /\ OnlyMoreCome /\ ClientsAndTasks'
      /\ client' \in [Requests -> {"none", "waiting", "answered", "failed", "gone"}]
      /\ scheduler' \in [Requests -> Schedulers \cup {None}]
      /\ client'[r] = "waiting" /\ \A q \in Requests \ {r} : client'[q] = client[q]
      /\ client[r] = "none" /\ scheduler[r] = None /\ ip[r] = 1
  <2>1. StaysDiverged
    BY <1>4, <1>5 DEF StaysDiverged, Created
  <2>2. QED
    BY <1>5, <2>1, ServeKeeps
<1>7. /\ count \in Nat /\ Places(count) \in Nat /\ Places(count) > 0
      /\ kind \in {"running", "replaying"}
  BY CountsAssumption, LoopKindsAssumption DEF Places
<1>8. TypeOK'
  <2>1. Barrier!TypeOK'
    BY <1>5, <1>7 DEF IInv, TypeOK, Barrier!TypeOK, Barrier!BarrierState
  <2>2. QED
    BY <1>5, <1>6, <1>7, <2>1 DEF IInv, TypeOK
<1>9. \A u \in Schedulers : Created(u)' <=> u = s \/ Created(u)
  BY <1>5, <1>7 DEF IInv, TypeOK, Created
<1>10. NumberedInOrder'
  <2>1. s \in 0..MaxRequests /\ s <= r
    BY <1>2, <1>4 DEF Schedulers, Requests
  <2>2. \A u \in Schedulers : Created(u)' <=> u <= s
    BY <1>2, <1>4, <1>9 DEF Schedulers
  <2>3. QED
    BY <1>1, <1>6, <2>1, <2>2, OneMoreRequest
<1>11. UsedAreCreated'
  BY <1>5, <1>7, <1>9 DEF IInv, TypeOK, UsedAreCreated
<1>12. \A q \in Requests : scheduler[q] # s
  BY <1>4, NoneAssumption DEF IInv, UsedAreCreated, Schedulers
<1>13. /\ barriers'[s].tasks = {} /\ barriers'[s].exists
       /\ \A u \in Schedulers \ {s} : barriers'[u] = barriers[u]
  BY <1>5 DEF IInv, TypeOK, Barrier!TypeOK, Barrier!BarrierState
<1>14. BarriersHold'
  <2>1. ASSUME NEW u \in Schedulers
        PROVE  /\ barriers'[u].tasks
                    = {q \in Requests : scheduler'[q] = u /\ ip'[q] \in {2, 3}}
               /\ barriers'[u].tasks # {} => Barrier!Exists(u)'
    <3>1. {q \in Requests : scheduler'[q] = u /\ ip'[q] \in {2, 3}}
            = {q \in Requests : scheduler[q] = u /\ ip[q] \in {2, 3}}
      BY <1>5, <1>6, NoneAssumption DEF IInv, TypeOK, Schedulers
    <3>2. CASE u = s
      BY <1>12, <1>13, <3>1, <3>2
    <3>3. CASE u # s
      BY <1>13, <3>1, <3>3 DEF IInv, BarriersHold, Barrier!Exists
    <3>4. QED
      BY <3>2, <3>3
  <2>2. \A q \in Requests : barrier_waiting'[q] # None => barrier_waiting'[q] = scheduler'[q]
    BY <1>5, <1>6 DEF IInv, TypeOK, BarriersHold
  <2>3. QED
    BY <2>1, <2>2 DEF BarriersHold
<1>15. ArrivalsCounted'
  BY <1>5, <1>6, <1>8, KeepsArrivals
<1>16. GoneWhenAllCame'
  <2>1. ASSUME NEW u \in Schedulers, Created(u)', ~Barrier!Exists(u)'
        PROVE  Cardinality(Came(u)') >= capacity'[u]
    <3>1. u # s
      BY <1>13, <2>1 DEF Barrier!Exists
    <3>2. Created(u) /\ ~Barrier!Exists(u) /\ capacity'[u] = capacity[u]
      BY <1>5, <1>9, <1>13, <2>1, <3>1 DEF Barrier!Exists, IInv, TypeOK
    <3>3. Cardinality(Came(u)) >= capacity[u]
      BY <3>2 DEF IInv, GoneWhenAllCame
    <3>4. QED
      BY <1>6, <1>8, <3>2, <3>3, MoreCame, CapacityOfCreated
  <2>2. QED
    BY <2>1 DEF GoneWhenAllCame
<1>17. FailuresExplained'
  <2>1. \A u \in Schedulers : Created(u) => capacity'[u] = capacity[u]
    BY <1>4, <1>5 DEF IInv, TypeOK
  <2>2. \A q \in Requests : client'[q] = "failed" =>
          client[q] = "failed" /\ scheduler'[q] = scheduler[q] /\ ip'[q] = ip[q]
    BY <1>5, <1>6 DEF IInv, TypeOK
  <2>3. QED
    BY <1>5, <1>6, <1>8, <2>1, <2>2, KeepsFailed
<1>18. NoLeakedLoop'
  BY <1>1, <1>5, NoneAssumption DEF IInv, TypeOK, NoLeakedLoop, Runs, Schedulers
<1>19. LoopDiesOfLeaver'
  <2>1. ASSUME NEW u \in Schedulers, loop'[u] = "dead"
        PROVE  \E q \in Requests : client'[q] = "gone" /\ q \in barriers'[u].tasks
    <3>1. u # s /\ loop[u] = "dead"
      BY <1>5, <1>7, <2>1 DEF IInv, TypeOK
    <3>2. PICK q \in Requests : client[q] = "gone" /\ q \in barriers[u].tasks
      BY <3>1 DEF IInv, LoopDiesOfLeaver
    <3>3. QED
      BY <1>6, <1>13, <3>1, <3>2
  <2>2. QED
    BY <2>1 DEF LoopDiesOfLeaver
<1>20. QED
  BY <1>6, <1>8, <1>10, <1>11, <1>14, <1>15, <1>16, <1>17, <1>18, <1>19 DEF IInv

-----------------------------------------------------------------------------
LEMMA NextIInv == IInv /\ [Next]_vars => IInv'
<1> SUFFICES ASSUME IInv, [Next]_vars PROVE IInv'
  OBVIOUS
<1>1. CASE UNCHANGED vars
  <2>1. UNCHANGED <<registryVars, loopVars, tokioVars, barrierVars, requestVars>>
    BY <1>1 DEF vars
  <2>2. TypeOK'
    BY <2>1 DEF IInv, TypeOK, Barrier!TypeOK, registryVars, loopVars, tokioVars,
                barrierVars, requestVars
  <2>3. /\ NumberedInOrder' /\ BarriersHold' /\ ArrivalsCounted'
        /\ GoneWhenAllCame' /\ FailuresExplained'
    BY <2>1, <2>2, SameRequestsKeep
    DEF requestVars, registryVars, loopVars, Created, StaysDiverged
  <2>4. UsedAreCreated' /\ ClientsAndTasks' /\ NoLeakedLoop' /\ LoopDiesOfLeaver'
    BY <2>1 DEF IInv, UsedAreCreated, ClientsAndTasks, NoLeakedLoop, LoopDiesOfLeaver,
                Runs, registryVars, loopVars, tokioVars, barrierVars, requestVars, Created
  <2>5. QED
    BY <2>2, <2>3, <2>4 DEF IInv
<1>2. ASSUME NEW r \in Requests, NEW id \in SchedulerIds,
             \/ JoinScheduler(r, id)
             \/ \E count \in Counts, kind \in LoopKinds : CreateScheduler(r, id, count, kind)
             \/ FailToCreate(r, id)
      PROVE  IInv'
  BY <1>2, JoinSchedulerStep, CreateSchedulerStep, FailToCreateStep
<1>3. ASSUME NEW r \in Requests, RequestStep(r) PROVE IInv'
  BY <1>3, StartTaskStep, SuspendAtBarrierStep, ArriveAtBarrierStep, LeaveBarrierStep,
     SuspendInHandlerStep, FailAtPointStep, AnswerStep DEF RequestStep
<1>4. ASSUME NEW r \in Requests, ClientLeaves(r) PROVE IInv'
  BY <1>4, ClientLeavesStep
<1>5. ASSUME NEW id \in SchedulerIds, Retrieve(id) PROVE IInv'
  BY <1>5, RetrieveStep
<1>6. ASSUME NEW s \in Schedulers, StopLoop(s) \/ ControlLoop(s) PROVE IInv'
  BY <1>6, StopLoopStep, ResumeStep, DivergeStep, MissStableIdStep DEF ControlLoop
<1>7. QED
  BY <1>1, <1>2, <1>3, <1>4, <1>5, <1>6 DEF Next

LEMMA SpecIInv == Spec => []IInv
  BY InitIInv, NextIInv, PTL DEF Spec

(* The maps of the server and of its barrier models have their types; in   *)
(* particular a request never makes more steps than its handler has.       *)
THEOREM TypeCorrect == Spec => []TypeOK
<1>1. IInv => TypeOK
  BY DEF IInv
<1>2. QED
  BY <1>1, SpecIInv, PTL

(* However many clients come, leave and retrieve, in whatever order: a     *)
(* request fails only with a poisoned lock, because the replay its header  *)
(* asked for has diverged, or because it comes to a barrier that has gone  *)
(* when all those that were announced had come.                            *)
THEOREM FailuresAreExplained == Spec => []FailuresExplained
<1>1. IInv => FailuresExplained
  BY DEF IInv
<1>2. QED
  BY <1>1, SpecIInv, PTL

(* Every control loop that runs can still be stopped.                      *)
THEOREM LoopsAreNotLeaked == Spec => []NoLeakedLoop
<1>1. IInv => NoLeakedLoop
  BY DEF IInv
<1>2. QED
  BY <1>1, SpecIInv, PTL

(* A loop panics only because of a client that left its request at the     *)
(* barrier: whatever else a scheduler resumes is ready.                    *)
THEOREM LoopsDieOfLeavers == Spec => []LoopDiesOfLeaver
<1>1. IInv => LoopDiesOfLeaver
  BY DEF IInv
<1>2. QED
  BY <1>1, SpecIInv, PTL
=============================================================================
