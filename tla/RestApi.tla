------------------------------ MODULE RestApi ------------------------------
(***************************************************************************)
(* The server of example-crates/restapi: requests that name a scheduler    *)
(* share it and its start barrier through a registry, until the trace of   *)
(* that scheduler is retrieved.  Unlike in a test nobody waits for all of  *)
(* the tasks: clients come late, leave early, and retrieve when they want. *)
(*                                                                         *)
(* A request is the task that serves it; the schedulers keep their         *)
(* contract.  Requests without a header never meet a scheduler.            *)
(***************************************************************************)
EXTENDS Naturals, FiniteSets

CONSTANTS
  MaxRequests,      \* bound: requests that are made, numbered as they come
  SchedulerIds,     \* the ids that headers name
  Counts,           \* the concurrent_task_count that headers ask for
  LoopKinds,        \* "replaying" for headers with a replay, else "running"
  None

ASSUME MaxRequestsAssumption == MaxRequests \in Nat
ASSUME CountsAssumption == Counts \subseteq Nat
ASSUME LoopKindsAssumption == LoopKinds \subseteq {"running", "replaying"}
ASSUME NoneAssumption == None \notin 1..MaxRequests

VARIABLES
  (* SchedulerRegistry *)
  schedulers, poisoned,
  (* of each scheduler *)
  loop, cancelled, capacity, arrivals,
  (* of each request *)
  client, scheduler, state, ip, arrival,
  (* the barrier models of all schedulers *)
  barrier_waiting, barriers

registryVars == <<schedulers, poisoned>>
loopVars == <<loop, cancelled>>
tokioVars == <<capacity, arrivals, arrival>>
barrierVars == <<barrier_waiting, barriers>>
requestVars == <<client, scheduler, state, ip>>
vars == <<registryVars, loopVars, tokioVars, barrierVars, requestVars>>

Requests == 1..MaxRequests
Schedulers == 1..MaxRequests  \* numbered as they are created

Tasks == INSTANCE ReadyTasks WITH TaskIds <- Requests
Barrier == INSTANCE BarrierModel
  WITH TaskIds <- Requests, BarrierIds <- Schedulers, task_waiting <- barrier_waiting

Init ==
  /\ Barrier!Init
  /\ schedulers = [id \in SchedulerIds |-> None]
  /\ poisoned = FALSE
  /\ loop = [s \in Schedulers |-> "none"]
  /\ cancelled = {}
  /\ capacity = [s \in Schedulers |-> 0]
  /\ arrivals = [s \in Schedulers |-> 0]
  /\ client = [r \in Requests |-> "none"]
  /\ scheduler = [r \in Requests |-> None]
  /\ state = [r \in Requests |-> "none"]
  /\ ip = [r \in Requests |-> 1]
  /\ arrival = [r \in Requests |-> 0]

-----------------------------------------------------------------------------
(* The middleware: RacedetService::call and get_or_insert, which holds the *)
(* registry's lock throughout.                                             *)

IsNext(r) == \A q \in Requests : q < r <=> client[q] # "none"

Serve(r, s) ==
  /\ IsNext(r)
  /\ client' = [client EXCEPT ![r] = "waiting"]
  /\ scheduler' = [scheduler EXCEPT ![r] = s]
  /\ UNCHANGED <<state, ip, arrivals, arrival>>

FailOf(r) == client' = [client EXCEPT ![r] = "failed"]

(* Entry::Occupied: the header's count and replay are not looked at. *)
JoinScheduler(r, id) ==
  /\ ~poisoned
  /\ schedulers[id] # None
  /\ Serve(r, schedulers[id])
  /\ UNCHANGED <<registryVars, loopVars, barrierVars, capacity>>

(* tokio makes a barrier of 0 one of 1. *)
Places(count) == IF count = 0 THEN 1 ELSE count

(* Mutant: the scheduler is created without a look at the registry.  *)
CreateSchedulerAnyhow(r, id, count, kind) ==
  LET s == Cardinality({u \in Schedulers : loop[u] # "none"}) + 1
  IN /\ ~poisoned
     /\ Serve(r, s)
     /\ schedulers' = [schedulers EXCEPT ![id] = s]
     /\ loop' = [loop EXCEPT ![s] = kind]
     /\ capacity' = [capacity EXCEPT ![s] = Places(count)]
     /\ Barrier!NewBarrier(s, count)
     /\ UNCHANGED <<poisoned, cancelled>>

(* Entry::Vacant, with a header x-racedet-replay that parses, or without.  *)
CreateScheduler(r, id, count, kind) ==
  LET s == Cardinality({u \in Schedulers : loop[u] # "none"}) + 1
  IN /\ ~poisoned
     /\ schedulers[id] = None
     /\ Serve(r, s)
     /\ schedulers' = [schedulers EXCEPT ![id] = s]
     /\ loop' = [loop EXCEPT ![s] = kind]
     /\ capacity' = [capacity EXCEPT ![s] = Places(count)]
     /\ Barrier!NewBarrier(s, count)
     /\ UNCHANGED <<poisoned, cancelled>>

(* The header x-racedet-replay does not parse: unwrap panics under the     *)
(* lock, which panics for everybody from then on.                          *)
FailToCreate(r, id) ==
  /\ IsNext(r)
  /\ poisoned \/ schedulers[id] = None
  /\ poisoned' = TRUE
  /\ FailOf(r)
  /\ UNCHANGED <<schedulers, loopVars, tokioVars, barrierVars, scheduler, state, ip>>

(* retrieve_racedet_trace takes the scheduler and cancels its loop. *)
Retrieve(id) ==
  /\ ~poisoned
  /\ schedulers[id] # None
  /\ schedulers' = [schedulers EXCEPT ![id] = None]
  /\ cancelled' = cancelled \cup {schedulers[id]}
  /\ UNCHANGED <<poisoned, loop, tokioVars, barrierVars, requestVars>>

-----------------------------------------------------------------------------
(* The control loops, each in a select! with its cancellation.  Those with *)
(* a replay are "replaying": what it holds is not modelled, it may follow  *)
(* any choice or none.                                                     *)

Runs(s) == loop[s] \in {"running", "replaying"}

StopLoop(s) ==
  /\ Runs(s)
  /\ s \in cancelled
  /\ loop' = [loop EXCEPT ![s] = "stopped"]
  /\ UNCHANGED <<registryVars, cancelled, tokioVars, barrierVars, requestVars>>

Answers == [r \in Requests |-> Barrier!Answer(r)]
Running(s) == {r \in Requests : scheduler[r] = s /\ state[r] = "Running"}
Ready(s) == {r \in Requests : scheduler[r] = s /\ state[r] = "Ready"}

Due(s) ==
  IF Tasks!HasReady(Answers, Running(s))
  THEN {Tasks!NeedToRun(Answers, Running(s))} \ {{}}
  ELSE Tasks!Choices(Answers, Running(s), Ready(s))

(* The loop panics at the first task it is to resume that has ended, when  *)
(* it has made that task and those before it Running.                      *)
Resume(s) ==
  /\ Runs(s)
  /\ \E due \in Due(s) :
       IF due \subseteq Ready(s)
       THEN /\ state' = [r \in Requests |-> IF r \in due THEN "Running" ELSE state[r]]
            /\ UNCHANGED loop
       ELSE /\ \E before \in SUBSET (due \cap Ready(s)), ended \in due \ Ready(s) :
                 state' = [r \in Requests |-> IF r \in before \cup {ended} THEN "Running"
                                              ELSE state[r]]
            /\ loop' = [loop EXCEPT ![s] = "dead"]
  /\ UNCHANGED <<registryVars, cancelled, tokioVars, barrierVars, client, scheduler, ip>>

(* The execution has diverged from the replay: the loop sets the error for *)
(* the tasks to panic with, and panics.                                    *)
Diverge(s) ==
  /\ loop[s] = "replaying"
  /\ ~Tasks!HasReady(Answers, Running(s))
  /\ Due(s) # {}
  /\ loop' = [loop EXCEPT ![s] = "diverged"]
  /\ UNCHANGED <<registryVars, cancelled, tokioVars, barrierVars, requestVars>>

(* A choice holds a task that has ended; if it ended before the first      *)
(* decision, the look at its stable id panics, before anything is resumed. *)
MissStableId(s) ==
  /\ loop[s] = "replaying"
  /\ ~Tasks!HasReady(Answers, Running(s))
  /\ \E due \in Due(s) : ~(due \subseteq Ready(s))
  /\ loop' = [loop EXCEPT ![s] = "dead"]
  /\ UNCHANGED <<registryVars, cancelled, tokioVars, barrierVars, requestVars>>

ControlLoop(s) == Resume(s) \/ Diverge(s) \/ MissStableId(s)

-----------------------------------------------------------------------------
(* A request: the task around the handler increment.  *)

IsAt(r, n) == client[r] = "waiting" /\ state[r] = "Running" /\ ip[r] = n
GoOn(r) == ip' = [ip EXCEPT ![r] = @ + 1]
EndTask(r) == state' = [state EXCEPT ![r] = "Finished"]

StartTask(r) ==
  /\ client[r] = "waiting"
  /\ state[r] = "none"
  /\ state' = [state EXCEPT ![r] = "Running"]
  /\ UNCHANGED <<registryVars, loopVars, tokioVars, barrierVars, client, scheduler, ip>>

(* The barrier may be gone by now. *)
SuspendAtBarrier(r) ==
  LET b == scheduler[r] IN
  /\ IsAt(r, 1)
  /\ IF Barrier!Exists(b)
     THEN /\ Barrier!WaitingForBarrier(r, b)
          /\ state' = [state EXCEPT ![r] = "Ready"]
          /\ GoOn(r)
          /\ UNCHANGED client
     ELSE /\ Barrier!BadWaitingForBarrier(r, b)
          /\ FailOf(r)
          /\ EndTask(r)
          /\ UNCHANGED ip
  /\ UNCHANGED <<registryVars, loopVars, tokioVars, scheduler>>

ArriveAtBarrier(r) ==
  LET b == scheduler[r] IN
  /\ IsAt(r, 2)
  /\ arrivals' = [arrivals EXCEPT ![b] = @ + 1]
  /\ arrival' = [arrival EXCEPT ![r] = arrivals[b] + 1]
  /\ GoOn(r)
  /\ UNCHANGED <<registryVars, loopVars, barrierVars, capacity, client, scheduler, state>>

(* tokio's barrier lets through as many as its capacity, again and again. *)
LetThrough(r) ==
  LET b == scheduler[r] IN arrival[r] <= capacity[b] * (arrivals[b] \div capacity[b])

LeaveBarrier(r) ==
  LET b == scheduler[r] IN
  /\ IsAt(r, 3)
  /\ LetThrough(r)
  /\ IF Barrier!Exists(b)
     THEN /\ Barrier!CompletedBarrierWait(r, b)
          /\ GoOn(r)
          /\ UNCHANGED <<client, state>>
     ELSE /\ Barrier!BadLeave(b)
          /\ FailOf(r)
          /\ EndTask(r)
          /\ UNCHANGED ip
  /\ UNCHANGED <<registryVars, loopVars, tokioVars, scheduler>>

(* Mutant: one point too many. *)
SuspendAgain(r) ==
  /\ IsAt(r, 4) \/ IsAt(r, 5) \/ IsAt(r, 6)
  /\ state' = [state EXCEPT ![r] = "Ready"]
  /\ GoOn(r)
  /\ UNCHANGED <<registryVars, loopVars, tokioVars, barrierVars, client, scheduler>>

(* A task at a point looks at the error before anything else, also if it   *)
(* has been resumed since.                                                 *)
FailAtPoint(r) ==
  /\ client[r] = "waiting"
  /\ state[r] \in {"Ready", "Running"}
  /\ ip[r] \in {2, 5, 6}
  /\ loop[scheduler[r]] = "diverged"
  /\ FailOf(r)
  /\ EndTask(r)
  /\ UNCHANGED <<registryVars, loopVars, tokioVars, barrierVars, scheduler, ip>>

(* The points load and store. *)
SuspendInHandler(r) ==
  /\ IsAt(r, 4) \/ IsAt(r, 5)
  /\ state' = [state EXCEPT ![r] = "Ready"]
  /\ GoOn(r)
  /\ UNCHANGED <<registryVars, loopVars, tokioVars, barrierVars, client, scheduler>>

Answer(r) ==
  /\ IsAt(r, 6)
  /\ client' = [client EXCEPT ![r] = "answered"]
  /\ EndTask(r)
  /\ UNCHANGED <<registryVars, loopVars, tokioVars, barrierVars, scheduler, ip>>

(* Mutant: its task does not end. *)
ClientLeavesSilently(r) ==
  /\ client[r] = "waiting"
  /\ client' = [client EXCEPT ![r] = "gone"]
  /\ UNCHANGED <<registryVars, loopVars, tokioVars, barrierVars, scheduler, state, ip>>

(* The connection is closed and the server drops the future.  Its task     *)
(* reports its end, no model hears of it.                                  *)
ClientLeaves(r) ==
  /\ client[r] = "waiting"
  /\ client' = [client EXCEPT ![r] = "gone"]
  /\ state' = [state EXCEPT ![r] = IF @ = "none" THEN @ ELSE "Finished"]
  /\ UNCHANGED <<registryVars, loopVars, tokioVars, barrierVars, scheduler, ip>>

RequestStep(r) ==
  \/ StartTask(r)
  \/ SuspendAtBarrier(r)
  \/ ArriveAtBarrier(r)
  \/ LeaveBarrier(r)
  \/ SuspendInHandler(r)
  \/ FailAtPoint(r)
  \/ Answer(r)

Next ==
  \/ \E r \in Requests :
       \/ \E id \in SchedulerIds :
            \/ JoinScheduler(r, id)
            \/ \E count \in Counts, kind \in LoopKinds :
                 CreateScheduler(r, id, count, kind)
            \/ FailToCreate(r, id)
       \/ RequestStep(r)
       \/ ClientLeaves(r)
  \/ \E id \in SchedulerIds : Retrieve(id)
  \/ \E s \in Schedulers : StopLoop(s) \/ ControlLoop(s)

(* The server polls what can go on; a loop and its cancellation are one    *)
(* tokio task.  Nobody has to call or to retrieve.                         *)
Fairness ==
  /\ \A r \in Requests : WF_vars(RequestStep(r))
  /\ \A s \in Schedulers : WF_vars(StopLoop(s) \/ ControlLoop(s))

Spec == Init /\ [][Next]_vars /\ Fairness
-----------------------------------------------------------------------------
TypeOK ==
  /\ Barrier!TypeOK
  /\ schedulers \in [SchedulerIds -> Schedulers \cup {None}]
  /\ poisoned \in BOOLEAN
  /\ loop \in [Schedulers -> {"none", "running", "replaying", "stopped", "dead", "diverged"}]
  /\ cancelled \subseteq Schedulers
  /\ capacity \in [Schedulers -> Nat]
  /\ arrivals \in [Schedulers -> Nat]
  /\ client \in [Requests -> {"none", "waiting", "answered", "failed", "gone"}]
  /\ scheduler \in [Requests -> Schedulers \cup {None}]
  /\ state \in [Requests -> {"none", "Running", "Ready", "Finished"}]
  /\ ip \in [Requests -> 1..6]
  /\ arrival \in [Requests -> Nat]

(* The requests that have come to the barrier of a scheduler. *)
Came(s) == {r \in Requests : scheduler[r] = s /\ ip[r] > 1}

(* A request is left without an answer for ever only if its trace has been *)
(* retrieved before it was over, if fewer or more requests than the first  *)
(* announced have come to the barrier, or if the loop has died (see below).*)
(* That clients leave the handler, or fail, or use the id again after a    *)
(* retrieval, is no reason.  When a replay diverges, all requests that are *)
(* at a point or come to one fail: only those that have been let go to     *)
(* tokio's barrier may hang, as the others do not come there any more.     *)
Unanswerable(r) ==
  LET s == scheduler[r] IN
  \/ loop[s] \in {"stopped", "dead"}
  \/ loop[s] = "diverged" /\ ip[r] = 3
  \/ loop[s] # "diverged" /\ Cardinality(Came(s)) # capacity[s]

RequestsAreServed == <>[](\A r \in Requests : client[r] = "waiting" => Unanswerable(r))

(* A request fails only with a lock that is poisoned, because its replay   *)
(* has diverged, or because it came after all those that its scheduler was *)
(* announced: whoever belongs to the group finds the barrier, on its way   *)
(* in and out.                                                             *)
FailuresExplained ==
  \A r \in Requests : client[r] = "failed" =>
    LET s == scheduler[r] IN
    \/ s = None /\ poisoned
    \/ s # None /\ loop[s] = "diverged"
    \/ s # None /\ r \notin Came(s) /\ Cardinality(Came(s)) >= capacity[s]

(* A control loop that nobody can stop any more would live as long as the  *)
(* server: every running one is in the registry or cancelled.              *)
NoLeakedLoop ==
  \A s \in Schedulers : Runs(s) =>
    s \in cancelled \/ \E id \in SchedulerIds : schedulers[id] = s

(* A loop panics because of a task that has ended only when a client has   *)
(* left while its request was at the barrier, which then still holds it.   *)
LoopDiesOfLeaver ==
  \A s \in Schedulers : loop[s] = "dead" =>
    \E r \in Requests : client[r] = "gone" /\ r \in barriers[s].tasks
=============================================================================
