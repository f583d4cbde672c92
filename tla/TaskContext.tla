---------------------------- MODULE TaskContext ----------------------------
(***************************************************************************)
(* Which task code runs as: the two thread-local variables, the guards     *)
(* that set them, and the lives of the tasks (src/src/task.rs, and the     *)
(* scheduler's part of it in src/src/scheduler.rs).                        *)
(*                                                                         *)
(* A thread polls a future, which polls and drops others, creates tasks    *)
(* and runs blocking ones; a future that is not being polled can go to     *)
(* another thread.  A panic leaves the calls one by one as returning does. *)
(***************************************************************************)
EXTENDS Naturals, Sequences

CONSTANTS
  Threads, Futures, Schedulers,
  None,      \* no task, scheduler or future
  MaxDepth,  \* bound: calls on a thread
  MaxTasks   \* bound: tasks of a scheduler

ASSUME NoneAssumption == None \notin Nat \cup Schedulers \cup Futures

VARIABLES
  current_task, current_scheduler,  \* of each thread
  calls,         \* of each thread: polls, drops and blocking functions
  future,        \* each TaskFuture: [stage, scheduler, task_id]
  next_task_id,  \* of each scheduler
  finished       \* the tasks reported as finished

vars == <<current_task, current_scheduler, calls, future, next_task_id, finished>>

NoFuture == [stage |-> "none", scheduler |-> None, task_id |-> None]

Init ==
  /\ current_task = [th \in Threads |-> None]
  /\ current_scheduler = [th \in Threads |-> None]
  /\ calls = [th \in Threads |-> <<>>]
  /\ future = [f \in Futures |-> NoFuture]
  /\ next_task_id = [s \in Schedulers |-> 1]
  /\ finished = {}

-----------------------------------------------------------------------------
(* Guards: a call installs a scheduler and a task, or None of them, and    *)
(* keeps what was there.                                                   *)

Enter(th, what, f, s, t) ==
  /\ Len(calls[th]) < MaxDepth
  /\ calls' = [calls EXCEPT ![th] =
       Append(@, [what |-> what, future |-> f, scheduler |-> s, task |-> t,
                  old_scheduler |-> current_scheduler[th], old_task |-> current_task[th]])]
  /\ current_scheduler' = [current_scheduler EXCEPT ![th] = IF s = None THEN @ ELSE s]
  /\ current_task' = [current_task EXCEPT ![th] = IF t = None THEN @ ELSE t]

Last(th) == calls[th][Len(calls[th])]

(* Mutant: no task is current after the call. *)
LeaveForNone(th) ==
  LET call == Last(th) IN
  /\ calls' = [calls EXCEPT ![th] = SubSeq(@, 1, Len(@) - 1)]
  /\ current_scheduler' =
       [current_scheduler EXCEPT ![th] = IF call.scheduler = None THEN @ ELSE call.old_scheduler]
  /\ current_task' = [current_task EXCEPT ![th] = IF call.task = None THEN @ ELSE None]

(* Mutant: the task stays current. *)
LeaveTask(th) ==
  LET call == Last(th) IN
  /\ calls' = [calls EXCEPT ![th] = SubSeq(@, 1, Len(@) - 1)]
  /\ current_scheduler' =
       [current_scheduler EXCEPT ![th] = IF call.scheduler = None THEN @ ELSE call.old_scheduler]
  /\ UNCHANGED current_task

(* The guards put back what they replaced. *)
Leave(th) ==
  LET call == Last(th) IN
  /\ calls' = [calls EXCEPT ![th] = SubSeq(@, 1, Len(@) - 1)]
  /\ current_scheduler' =
       [current_scheduler EXCEPT ![th] = IF call.scheduler = None THEN @ ELSE call.old_scheduler]
  /\ current_task' = [current_task EXCEPT ![th] = IF call.task = None THEN @ ELSE call.old_task]

(* Mutant: the counter of the ids wraps. *)
RegisterWrapping(s) ==
  next_task_id' = [next_task_id EXCEPT ![s] = (@ + 1) % (MaxTasks + 1)]

Register(s) ==
  /\ next_task_id[s] <= MaxTasks
  /\ next_task_id' = [next_task_id EXCEPT ![s] = @ + 1]

-----------------------------------------------------------------------------
(* Task::new takes the scheduler that is current, with_scheduler another.  *)
CreateTask(th, f) ==
  /\ future[f].stage = "none"
  /\ \E s \in Schedulers \cup {current_scheduler[th]} :
       future' = [future EXCEPT ![f] = [stage |-> "suspended", scheduler |-> s, task_id |-> None]]
  /\ UNCHANGED <<current_task, current_scheduler, calls, next_task_id, finished>>

(* The first poll registers the task.  Without a scheduler task() is the   *)
(* future that it was given.                                               *)
Poll(th, f) ==
  LET s == future[f].scheduler
      first == s # None /\ future[f].task_id = None
      id == IF first THEN next_task_id[s] ELSE future[f].task_id
  IN /\ future[f].stage = "suspended"
     /\ IF first THEN Register(s) ELSE UNCHANGED next_task_id
     /\ future' = [future EXCEPT ![f] = [stage |-> "polled", scheduler |-> s, task_id |-> id]]
     /\ Enter(th, "poll", f, s, id)
     /\ UNCHANGED finished

(* task_blocking, on a thread where a scheduler is current. *)
CallBlocking(th) ==
  LET s == current_scheduler[th]
  IN /\ s # None
     /\ Register(s)
     /\ Enter(th, "task_blocking", None, s, next_task_id[s])
     /\ UNCHANGED <<future, finished>>

(* with_scheduler and with_scheduler_blocking.  The uses there are put     *)
(* them around tasks, never in one.                                        *)
CallWithScheduler(th, s) ==
  /\ current_task[th] = None
  /\ Enter(th, "with_scheduler", None, s, None)
  /\ UNCHANGED <<future, next_task_id, finished>>

(* Whoever has a future drops it, at any time but while it is polled: when *)
(* it is ready, after a panic, in a select!, when its thread stops.  What  *)
(* its destructors call runs in this call.                                 *)
BeginDrop(th, f) ==
  /\ future[f].stage \in {"suspended", "over"}
  /\ future' = [future EXCEPT ![f].stage = "dropping"]
  /\ Enter(th, "drop", f, None, None)
  /\ UNCHANGED <<next_task_id, finished>>

(* Mutant: a task that is dropped does not finish. *)
EndDropSilent(f) ==
  /\ future' = [future EXCEPT ![f].stage = "dropped"]
  /\ UNCHANGED <<finished, next_task_id>>

(* finished_guard is the last field of a TaskFuture.  *)
EndDrop(f) ==
  /\ future' = [future EXCEPT ![f].stage = "dropped"]
  /\ finished' = finished \cup
       (IF future[f].task_id = None THEN {} ELSE {<<future[f].scheduler, future[f].task_id>>})
  /\ UNCHANGED next_task_id

Return(th) ==
  LET call == Last(th) IN
  /\ calls[th] # <<>>
  /\ Leave(th)
  /\ \/ /\ call.what = "poll"
        /\ \E stage \in {"suspended", "over"} : future' = [future EXCEPT ![call.future].stage = stage]
        /\ UNCHANGED <<next_task_id, finished>>
     \/ /\ call.what = "task_blocking"
        /\ finished' = finished \cup {<<call.scheduler, call.task>>}
        /\ UNCHANGED <<future, next_task_id>>
     \/ /\ call.what = "with_scheduler"
        /\ UNCHANGED <<future, next_task_id, finished>>
     \/ /\ call.what = "drop"
        /\ EndDrop(call.future)

Next ==
  \E th \in Threads :
    \/ \E f \in Futures : CreateTask(th, f) \/ Poll(th, f) \/ BeginDrop(th, f)
    \/ CallBlocking(th)
    \/ \E s \in Schedulers : CallWithScheduler(th, s)
    \/ Return(th)

Spec == Init /\ [][Next]_vars
-----------------------------------------------------------------------------
Calls ==
  [what : {"poll", "task_blocking", "with_scheduler", "drop"}, future : Futures \cup {None},
   scheduler : Schedulers \cup {None}, task : Nat \cup {None},
   old_scheduler : Schedulers \cup {None}, old_task : Nat \cup {None}]

TypeOK ==
  /\ current_task \in [Threads -> Nat \cup {None}]
  /\ current_scheduler \in [Threads -> Schedulers \cup {None}]
  /\ calls \in [Threads -> Seq(Calls)]
  /\ future \in [Futures -> [stage : {"none", "suspended", "polled", "over", "dropping", "dropped"},
                             scheduler : Schedulers \cup {None}, task_id : Nat \cup {None}]]
  /\ next_task_id \in [Schedulers -> Nat \ {0}]
  /\ finished \subseteq Schedulers \X Nat

(* Code runs as the innermost task whose body it is in, and as none on a   *)
(* thread that is in no task: also in a task that is polled by another, on *)
(* a thread that has polled others before, and after panics.               *)
InnermostTaskIsCurrent ==
  \A th \in Threads :
    LET c == calls[th]
        bodies == {i \in DOMAIN c : c[i].task # None}
    IN /\ bodies = {} => current_task[th] = None
       /\ \A i \in bodies : (\A j \in bodies : j <= i) =>
            /\ current_task[th] = c[i].task
            /\ current_scheduler[th] = c[i].scheduler

(* Scheduler::current() and current_task(): who gets an event, or reaches  *)
(* a point.                                                                *)
Receiver(th) == <<current_scheduler[th], current_task[th]>>

(* What a destructor sends, when its future is dropped outside of its poll,*)
(* is sent for another task.  It is at least one that is still there:      *)
(* nothing ever happens to a task that the scheduler has seen the end of.  *)
ReceiverIsLive ==
  \A th \in Threads :
    current_task[th] # None =>
      /\ current_scheduler[th] # None
      /\ current_task[th] < next_task_id[current_scheduler[th]]
      /\ Receiver(th) \notin finished

(* A task that the scheduler waits for still has something that will tell  *)
(* of its end: a future, or a blocking call.                               *)
UnfinishedTaskHasOwner ==
  \A s \in Schedulers : \A id \in 1..(next_task_id[s] - 1) :
    <<s, id>> \notin finished =>
      \/ \E f \in Futures : /\ future[f].scheduler = s
                            /\ future[f].task_id = id
                            /\ future[f].stage # "dropped"
      \/ \E th \in Threads : \E i \in DOMAIN calls[th] :
           /\ calls[th][i].what = "task_blocking"
           /\ calls[th][i].scheduler = s
           /\ calls[th][i].task = id
=============================================================================
