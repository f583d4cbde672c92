------------------------------- MODULE Driver -------------------------------
(***************************************************************************)
(* The driver (src/src/driver.rs) around a test, for the sake of replays:  *)
(* a first run makes its decisions at random, the driver reports its       *)
(* result and prints what it decided, and a second run of the same test is *)
(* given that text to follow.                                              *)
(*                                                                         *)
(* The control loop keeps its contract and here also its trace, its replay *)
(* and the stable ids (src/src/scheduler.rs).                              *)
(***************************************************************************)
EXTENDS System

CONSTANTS
  StringOrder,  \* the names of tasks in the order of strings
  MaxNumber     \* bound: the largest number that parses

VARIABLES
  (* Inner *)
  task_id,            \* internal ids, in the order of registration; 0 for none
  stable_id,          \* 0 for None
  trace,              \* its ScheduleDecision events
  replay, next_step,  \* ReplayState
  error,              \* whether error is Some
  (* the driver *)
  run,     \* the number of the run
  stage,   \* "running", "stopped" when the test's future is done, "reported"
  result,  \* of the test, then what the driver panics with
  text,    \* the replay the driver prints
  first    \* what there is to compare of the first run

idVars == <<task_id, stable_id>>
traceVars == <<trace, replay, next_step, error>>
driverVars == <<run, stage, result, text, first>>
allVars == <<vars, idVars, traceVars, driverVars>>

Text == INSTANCE ReplayText

NoReplay == [on |-> FALSE, steps |-> <<>>]

DriverInit ==
  /\ Init
  /\ task_id = [t \in TaskIds |-> 0]
  /\ stable_id = [t \in TaskIds |-> 0]
  /\ trace = <<>>
  /\ replay = NoReplay
  /\ next_step = 0
  /\ error = FALSE
  /\ run = 1
  /\ stage = "running"
  /\ result = "none"
  /\ text = <<>>
  /\ first = [result |-> "none", value |-> 0, steps |-> <<>>]

-----------------------------------------------------------------------------
(* The program under a scheduler that registers tasks as they come.        *)

RegisterTask(t) ==
  /\ Poll(t)
  /\ task_id' = [task_id EXCEPT ![t] = Cardinality({u \in TaskIds : task_id[u] # 0}) + 1]
  /\ UNCHANGED <<stable_id, traceVars, driverVars>>

WorkOn(a) == Work(a) /\ UNCHANGED <<idVars, traceVars, driverVars>>

(* After a divergence a task panics where it is suspended.  *)
PanicAtPoint(t) ==
  /\ error
  /\ state[t] = "Ready"
  /\ UNCHANGED <<registryVars, idVars, traceVars, driverVars>>
  /\ Panic(t)
  /\ Sched!Finish(t)

-----------------------------------------------------------------------------
(* The control loop.                                                       *)

AutoResume ==
  /\ UNCHANGED <<registryVars, realVars, progVars, idVars, traceVars, driverVars>>
  /\ Sched!HasReady(Answers, Sched!Running)
  /\ Sched!Serve

Choices == Sched!Choices(Answers, Sched!Running, Sched!Ready)

Name(t) == program.name[t]

(* Mutant: names are not looked at. *)
RegisteredBefore(t, u) == task_id[t] < task_id[u]

SortsBefore(t, u) ==
  LET rank(x) == CHOOSE i \in DOMAIN StringOrder : StringOrder[i] = Name(x)
  IN rank(t) < rank(u) \/ (Name(t) = Name(u) /\ task_id[t] < task_id[u])

Unnumbered == {t \in Sched!Ready : stable_id[t] = 0}

AssignStableIds ==
  LET numbered == Cardinality({t \in TaskIds : stable_id[t] # 0})
  IN stable_id' = [t \in TaskIds |->
       IF t \in Unnumbered
       THEN numbered + 1 + Cardinality({u \in Unnumbered : SortsBefore(u, t)})
       ELSE stable_id[t]]

Deciding ==
  /\ ~dead
  /\ ~Sched!HasReady(Answers, Sched!Running)
  /\ Choices # {}
  /\ AssignStableIds
  /\ UNCHANGED <<registryVars, realVars, progVars, task_id, driverVars>>

Decide(to_run) ==
  /\ trace' = Append(trace, [ready |-> {[id |-> t, position |-> PointOf(t)] : t \in Sched!Ready},
                             resumed |-> to_run])
  /\ Sched!ServeTasks(to_run)

DecideAtRandom ==
  /\ Deciding
  /\ ~replay.on
  /\ \E to_run \in Choices : Decide(to_run)
  /\ UNCHANGED <<replay, next_step, error>>

ReplayStep == replay.steps[next_step + 1]

(* Mutant: how many tasks are ready is not compared. *)
RecordedAreReady ==
  LET ready == {[id |-> stable_id'[t], name |-> Name(t), position |-> PointOf(t)] : t \in Sched!Ready}
      recorded == ReplayStep.ready_tasks
  IN /\ next_step < Len(replay.steps)
     /\ \A i \in DOMAIN recorded : recorded[i] \in ready

(* get_resumed_tasks answers Ok. *)
StepMatches ==
  LET ready == {[id |-> stable_id'[t], name |-> Name(t), position |-> PointOf(t)] : t \in Sched!Ready}
      recorded == ReplayStep.ready_tasks
  IN /\ next_step < Len(replay.steps)
     /\ Len(recorded) = Cardinality(ready)
     /\ \A i \in DOMAIN recorded : recorded[i] \in ready

IsReplayed(to_run) ==
  /\ Cardinality(to_run) = Len(ReplayStep.resumed_tasks)
  /\ {stable_id'[t] : t \in to_run} =
       {ReplayStep.resumed_tasks[i] : i \in DOMAIN ReplayStep.resumed_tasks}

Follow ==
  /\ Deciding
  /\ replay.on
  /\ StepMatches
  /\ \E to_run \in Choices : IsReplayed(to_run) /\ Decide(to_run)
  /\ next_step' = next_step + 1
  /\ UNCHANGED <<replay, error>>

(* Mutant: the tasks are not told. *)
DivergeSilently ==
  /\ Deciding
  /\ replay.on
  /\ StepMatches => \A to_run \in Choices : ~IsReplayed(to_run)
  /\ dead' = TRUE
  /\ UNCHANGED <<state, trace, replay, next_step, error>>

(* The error is set for the tasks to panic with, and the loop panics.  A   *)
(* choice with a task that was never ready at a decision would make it     *)
(* panic without (IterateNoStableId of Scheduler); the programs given to   *)
(* this module have none.                                                  *)
Diverge ==
  /\ Deciding
  /\ replay.on
  /\ StepMatches => \A to_run \in Choices : ~IsReplayed(to_run)
  /\ error' = TRUE
  /\ dead' = TRUE
  /\ UNCHANGED <<state, trace, replay, next_step>>

ControlLoop ==
  /\ stage # "reported"
  /\ AutoResume \/ DecideAtRandom \/ Follow \/ Diverge

-----------------------------------------------------------------------------
(* The driver: run_once_async.                                             *)

TestEnds ==
  /\ stage = "running"
  /\ AtEnd(Root)
  /\ stage' = "stopped"
  /\ result' = IF Root \in panicked THEN "test panicked" ELSE "ok"
  /\ UNCHANGED <<vars, idVars, traceVars, run, text, first>>

(* The time limit of a test is long enough: it ends only tests in which    *)
(* nothing can happen any more.                                            *)
TestTimesOut ==
  /\ stage = "running"
  /\ ~AtEnd(Root)
  /\ Halted
  /\ dead \/ Sched!Due = {}
  /\ error => Sched!Ready = {}
  /\ stage' = "stopped"
  /\ result' = "test timed out"
  /\ UNCHANGED <<vars, idVars, traceVars, run, text, first>>

(* Scheduler::get_trace: internal ids become stable ids and names.         *)
GetTrace ==
  [i \in DOMAIN trace |->
     [ready |-> {[id |-> stable_id[r.id], name |-> Name(r.id), position |-> r.position] :
                   r \in trace[i].ready},
      resumed |-> {stable_id[t] : t \in trace[i].resumed}]]

Recorded == Text!FromTrace(GetTrace)

(* The control loop is aborted, perhaps after more steps; if it has        *)
(* panicked that is what is reported, whatever the test did.               *)
Report ==
  /\ stage = "stopped"
  /\ stage' = "reported"
  /\ result' = IF dead THEN "Internal error in test scheduler" ELSE result
  /\ text' = Text!Format(Text!ToParsed(Recorded))
  /\ UNCHANGED <<vars, idVars, traceVars, run, first>>

(* The test is started again: a new scheduler with new models, and all     *)
(* that the test creates.                                                  *)
NewTest ==
  /\ mutex_held_by' = [m \in MutexIds |-> None]
  /\ mutex_waiting' = [t \in TaskIds |-> {}]
  /\ rwlock_held_by' = [l \in RwlockIds |-> Rwlock!Unheld]
  /\ rwlock_waiting' = [t \in TaskIds |-> {}]
  /\ barrier_waiting' = [t \in TaskIds |-> None]
  /\ barriers' = [b \in BarrierIds |-> Barrier!NoBarrier]
  /\ is_in_join' = {}
  /\ blocked_tasks' = {}
  /\ watch_tasks' = [t \in TaskIds |-> None]
  /\ watch_waiters' = [w \in WatchIds |-> {}]
  /\ task_groups' = [g \in TaskGroups |-> TaskWait!EmptyGroup(FALSE)]
  /\ task_waits' = [t \in TaskIds |-> TaskWait!NoWait]
  /\ state' = [t \in TaskIds |-> "none"]
  /\ dead' = FALSE
  /\ ip' = [a \in Actors |-> 1]
  /\ queue' = [l \in Locks |-> <<>>]
  /\ capacity' = [b \in BarrierIds |-> 0]
  /\ arrived' = [b \in BarrierIds |-> {}]
  /\ channel' = [w \in WatchIds |-> [value |-> program.initial, version |-> 1, closed |-> FALSE]]
  /\ evaluated' = [t \in TaskIds |-> 0]
  /\ value' = program.initial
  /\ loaded' = [t \in TaskIds |-> 0]
  /\ spawned' = {}
  /\ panicked' = {}
  /\ task_id' = [t \in TaskIds |-> 0]
  /\ stable_id' = [t \in TaskIds |-> 0]
  /\ trace' = <<>>
  /\ UNCHANGED <<program, next_step, error>>

(* with_replay_once_env_var: the printed text is parsed and followed. *)
Rerun ==
  /\ stage = "reported"
  /\ run = 1
  /\ run' = 2
  /\ first' = [result |-> result, value |-> value, steps |-> Recorded]
  /\ IF Text!Parses(text)
     THEN /\ replay' = [on |-> TRUE, steps |-> Text!FromParsed(Text!Parse(text))]
          /\ stage' = "running"
          /\ result' = "none"
     ELSE /\ result' = "unable to parse trace for replay"
          /\ UNCHANGED <<replay, stage>>
  /\ NewTest
  /\ UNCHANGED text

-----------------------------------------------------------------------------
(* What goes on in a test after its report is nobody's concern. *)
TestStep(a) ==
  /\ stage # "reported"
  /\ \/ WorkOn(a)
     \/ a \in TaskIds /\ (RegisterTask(a) \/ PanicAtPoint(a))

DriverNext ==
  \/ \E a \in Actors : TestStep(a)
  \/ ControlLoop
  \/ TestEnds
  \/ TestTimesOut
  \/ Report
  \/ Rerun

DriverSpec == DriverInit /\ [][DriverNext]_allVars

(* tokio polls every task that can go on, and the driver when its test has *)
(* ended.  Nothing is assumed of the time limit: a test need not have one. *)
DriverFairness ==
  /\ \A a \in Actors : WF_allVars(TestStep(a))
  /\ WF_allVars(TestEnds)

DriverFairSpec == DriverSpec /\ DriverFairness
-----------------------------------------------------------------------------
(* A replay shows what it was recorded to show: whatever the order in      *)
(* which the runtime polls tasks, whenever the control loop runs and is    *)
(* aborted, the second run ends like the first and leaves the same value.  *)
ReplayReproduces ==
  Controlled /\ run = 2 /\ stage = "reported" =>
    result = first.result /\ value = first.value

(* What the second scheduler follows is what the first one decided, after  *)
(* it has been interned, numbered, printed, split and parsed.              *)
ReplayTextFaithful == replay.on => replay.steps = first.steps

(* A replay that cannot go on as it was recorded never goes on otherwise:  *)
(* its decisions, with what they chose from, are the first ones recorded,  *)
(* whatever the test has become.                                           *)
ReplayNeverStrays ==
  run = 2 /\ stage = "reported" /\ replay.on =>
    /\ Len(trace) <= Len(first.steps)
    /\ Recorded = SubSeq(first.steps, 1, Len(trace))

(* When the control loop has panicked no task stays suspended: each panics *)
(* where it is, and the test comes to its end without any time limit.      *)
DivergenceEndsTest == dead ~> stage # "running"
=============================================================================
