-------------------------- MODULE TaskContextProofs --------------------------
(***************************************************************************)
(* Which task code runs as, for any number of threads, futures, schedulers *)
(* and nested calls.                                                       *)
(***************************************************************************)
EXTENDS TaskContext, TLAPS

(* What was current when a thread was k calls deep: the next call keeps it *)
(* to be put back.                                                         *)
TaskAt(th, k) ==
  IF k = Len(calls[th]) THEN current_task[th] ELSE calls[th][k + 1].old_task
SchedulerAt(th, k) ==
  IF k = Len(calls[th]) THEN current_scheduler[th] ELSE calls[th][k + 1].old_scheduler

Depths(th) == 1..Len(calls[th])

(* Every call has replaced what it installs and nothing else.  *)
CallsNest ==
  \A th \in Threads : \A i \in Depths(th) :
    LET c == calls[th][i]
    IN /\ TaskAt(th, i) = IF c.task = None THEN TaskAt(th, i - 1) ELSE c.task
       /\ SchedulerAt(th, i) = IF c.scheduler = None THEN SchedulerAt(th, i - 1) ELSE c.scheduler

(* InnermostTaskIsCurrent at every depth, so that it holds again when the  *)
(* calls above return.                                                     *)
InnermostAt(th, k) ==
  \/ /\ TaskAt(th, k) = None
     /\ \A i \in 1..k : calls[th][i].task = None
  \/ \E i \in 1..k :
       /\ calls[th][i].task # None
       /\ \A j \in (i + 1)..k : calls[th][j].task = None
       /\ TaskAt(th, k) = calls[th][i].task
       /\ SchedulerAt(th, k) = calls[th][i].scheduler

InnermostAtAllDepths ==
  \A th \in Threads : \A k \in 0..Len(calls[th]) : InnermostAt(th, k)

(* A call and its future agree.  *)
CallsMatchFutures ==
  \A th \in Threads : \A i \in Depths(th) :
    LET c == calls[th][i]
    IN /\ c.what = "poll" =>
            /\ c.future \in Futures
            /\ future[c.future] = [stage |-> "polled", scheduler |-> c.scheduler, task_id |-> c.task]
       /\ c.what = "drop" => /\ c.future \in Futures
                             /\ future[c.future].stage = "dropping"
                             /\ c.scheduler = None /\ c.task = None
       /\ c.what = "task_blocking" => c.scheduler # None /\ c.task # None
       /\ c.what = "with_scheduler" => c.task = None

(* A future is polled, or dropped, by one call.  *)
OneCallPerFuture ==
  \A th, th2 \in Threads : \A i \in Depths(th), j \in Depths(th2) :
    /\ calls[th][i].what \in {"poll", "drop"} /\ calls[th2][j].what \in {"poll", "drop"}
    /\ calls[th][i].future = calls[th2][j].future
    => th = th2 /\ i = j

(* Nobody owns an id twice.  *)
OwnersOfFutures ==
  /\ \A f \in Futures :
       /\ future[f].stage = "none" => future[f].task_id = None
       /\ future[f].task_id # None =>
            /\ future[f].scheduler # None
            /\ future[f].task_id \in 1..(next_task_id[future[f].scheduler] - 1)
            /\ future[f].stage # "dropped" => <<future[f].scheduler, future[f].task_id>> \notin finished
  /\ \A f, g \in Futures :
       /\ future[f].task_id # None /\ future[f].task_id = future[g].task_id
       /\ future[f].scheduler = future[g].scheduler
       => f = g

OwnersOfCalls ==
  /\ \A th \in Threads : \A i \in Depths(th) :
       LET c == calls[th][i]
       IN c.what = "task_blocking" =>
            /\ c.task \in 1..(next_task_id[c.scheduler] - 1)
            /\ <<c.scheduler, c.task>> \notin finished
            /\ \A f \in Futures : future[f].task_id = c.task => future[f].scheduler # c.scheduler
  /\ \A th, th2 \in Threads : \A i \in Depths(th), j \in Depths(th2) :
       /\ calls[th][i].what = "task_blocking" /\ calls[th2][j].what = "task_blocking"
       /\ calls[th][i].scheduler = calls[th2][j].scheduler
       /\ calls[th][i].task = calls[th2][j].task
       => th = th2 /\ i = j

(* An id that is not given yet has not finished.  *)
FinishedWereGiven ==
  \A s \in Schedulers, id \in Nat : <<s, id>> \in finished => id < next_task_id[s]

IInv ==
  /\ TypeOK
  /\ CallsNest
  /\ InnermostAtAllDepths
  /\ CallsMatchFutures
  /\ OneCallPerFuture
  /\ OwnersOfFutures
  /\ OwnersOfCalls
  /\ FinishedWereGiven
  /\ UnfinishedTaskHasOwner

-----------------------------------------------------------------------------
(* The stack of calls of a thread.                                         *)

CallOf(th, what, f, s, t) ==
  [what |-> what, future |-> f, scheduler |-> s, task |-> t,
   old_scheduler |-> current_scheduler[th], old_task |-> current_task[th]]

LEMMA CallsType ==
  ASSUME TypeOK, NEW th \in Threads
  PROVE  /\ calls[th] \in Seq(Calls) /\ Len(calls[th]) \in Nat
         /\ \A i \in Depths(th) : calls[th][i] \in Calls
BY DEF TypeOK, Depths

(* A guard is set up: one more call on this thread.  *)
Entered(th, call) ==
  /\ calls' \in [Threads -> Seq(Calls)]
  /\ current_task' \in [Threads -> Nat \cup {None}]
  /\ current_scheduler' \in [Threads -> Schedulers \cup {None}]
  /\ call \in Calls
  /\ call.old_task = current_task[th]
  /\ call.old_scheduler = current_scheduler[th]
  /\ Len(calls'[th]) = Len(calls[th]) + 1
  /\ \A i \in 1..Len(calls[th]) : calls'[th][i] = calls[th][i]
  /\ calls'[th][Len(calls[th]) + 1] = call
  /\ current_task'[th] = (IF call.task = None THEN current_task[th] ELSE call.task)
  /\ current_scheduler'[th] = (IF call.scheduler = None THEN current_scheduler[th] ELSE call.scheduler)
  /\ \A th2 \in Threads \ {th} :
       /\ calls'[th2] = calls[th2]
       /\ current_task'[th2] = current_task[th2]
       /\ current_scheduler'[th2] = current_scheduler[th2]

LEMMA EnterCalls ==
  ASSUME TypeOK, NEW th \in Threads, NEW what, NEW f, NEW s, NEW t,
         what \in {"poll", "task_blocking", "with_scheduler", "drop"},
         f \in Futures \cup {None}, s \in Schedulers \cup {None}, t \in Nat \cup {None},
         Enter(th, what, f, s, t)
  PROVE  Entered(th, CallOf(th, what, f, s, t))
<1> DEFINE call == CallOf(th, what, f, s, t)
<1>1. /\ call \in Calls /\ call.scheduler = s /\ call.task = t
      /\ call.old_task = current_task[th] /\ call.old_scheduler = current_scheduler[th]
  BY DEF TypeOK, CallOf, Calls
<1>2. /\ calls[th] \in Seq(Calls)
      /\ calls' = [calls EXCEPT ![th] = Append(calls[th], call)]
  BY DEF Enter, CallOf, TypeOK
<1>3. /\ current_scheduler' = [current_scheduler EXCEPT ![th] = IF s = None THEN @ ELSE s]
      /\ current_task' = [current_task EXCEPT ![th] = IF t = None THEN @ ELSE t]
  BY DEF Enter
<1> HIDE DEF call
<1>4. Append(calls[th], call) \in Seq(Calls)
  BY <1>1, <1>2
<1>5. calls'[th] = Append(calls[th], call)
  BY <1>2 DEF TypeOK
<1>6. /\ Len(calls'[th]) = Len(calls[th]) + 1
      /\ \A i \in 1..Len(calls[th]) : calls'[th][i] = calls[th][i]
      /\ calls'[th][Len(calls[th]) + 1] = call
  BY <1>1, <1>2, <1>5
<1>7. calls' \in [Threads -> Seq(Calls)]
  BY <1>2, <1>4 DEF TypeOK
<1>8. /\ current_task' \in [Threads -> Nat \cup {None}]
      /\ current_scheduler' \in [Threads -> Schedulers \cup {None}]
  BY <1>3 DEF TypeOK
<1>9. Entered(th, call)
  BY <1>1, <1>2, <1>3, <1>6, <1>7, <1>8 DEF Entered, TypeOK
<1>10. QED BY <1>9 DEF call

(* A guard is dropped: the last call is gone.  *)
LEMMA LeaveCalls ==
  ASSUME TypeOK, NEW th \in Threads, calls[th] # <<>>, Leave(th)
  PROVE  /\ Len(calls[th]) \in Depths(th)
         /\ calls' \in [Threads -> Seq(Calls)]
         /\ current_task' \in [Threads -> Nat \cup {None}]
         /\ current_scheduler' \in [Threads -> Schedulers \cup {None}]
         /\ Len(calls'[th]) = Len(calls[th]) - 1
         /\ \A i \in 1..(Len(calls[th]) - 1) : calls'[th][i] = calls[th][i]
         /\ current_task'[th] = (IF Last(th).task = None THEN current_task[th] ELSE Last(th).old_task)
         /\ current_scheduler'[th] =
              (IF Last(th).scheduler = None THEN current_scheduler[th] ELSE Last(th).old_scheduler)
         /\ \A th2 \in Threads \ {th} :
              /\ calls'[th2] = calls[th2]
              /\ current_task'[th2] = current_task[th2]
              /\ current_scheduler'[th2] = current_scheduler[th2]
<1> DEFINE rest == SubSeq(calls[th], 1, Len(calls[th]) - 1)
<1>1. calls[th] \in Seq(Calls) /\ Len(calls[th]) \in Nat /\ Len(calls[th]) > 0
  BY DEF TypeOK
<1>2. /\ rest \in Seq(Calls) /\ Len(rest) = Len(calls[th]) - 1
      /\ \A i \in 1..(Len(calls[th]) - 1) : rest[i] = calls[th][i]
  BY <1>1
<1>3. Last(th) \in Calls
  BY <1>1 DEF Last
<1>4. Last(th).old_task \in Nat \cup {None} /\ Last(th).old_scheduler \in Schedulers \cup {None}
  BY <1>3 DEF Calls
<1>5. calls' = [calls EXCEPT ![th] = rest]
  BY DEF Leave
<1> HIDE DEF rest
<1>6. calls' \in [Threads -> Seq(Calls)] /\ calls'[th] = rest
  BY <1>2, <1>5 DEF TypeOK
<1>7. Len(calls[th]) \in Depths(th)
  BY <1>1 DEF Depths
<1>8. QED BY <1>2, <1>4, <1>5, <1>6, <1>7 DEF Leave, TypeOK

(* What was current below does not change when a call is entered ...       *)
LEMMA EnterKeepsBelow ==
  ASSUME TypeOK, NEW th \in Threads, NEW call, Entered(th, call),
         NEW n \in Nat, n = Len(calls[th])
  PROVE  /\ \A th2 \in Threads : \A k \in 0..Len(calls[th2]) :
              TaskAt(th2, k)' = TaskAt(th2, k) /\ SchedulerAt(th2, k)' = SchedulerAt(th2, k)
         /\ TaskAt(th, n + 1)' = (IF call.task = None THEN current_task[th] ELSE call.task)
         /\ SchedulerAt(th, n + 1)' =
              (IF call.scheduler = None THEN current_scheduler[th] ELSE call.scheduler)
<1>1. /\ Len(calls'[th]) = n + 1
      /\ current_task'[th] = (IF call.task = None THEN current_task[th] ELSE call.task)
      /\ current_scheduler'[th] =
           (IF call.scheduler = None THEN current_scheduler[th] ELSE call.scheduler)
  BY DEF Entered
<1>2. /\ \A i \in 1..n : calls'[th][i] = calls[th][i]
      /\ calls'[th][n + 1].old_task = current_task[th]
      /\ calls'[th][n + 1].old_scheduler = current_scheduler[th]
  BY DEF Entered
<1>3. \A th2 \in Threads \ {th} :
        /\ calls'[th2] = calls[th2]
        /\ current_task'[th2] = current_task[th2]
        /\ current_scheduler'[th2] = current_scheduler[th2]
  BY DEF Entered
<1>4. ASSUME NEW th2 \in Threads, NEW k \in 0..Len(calls[th2])
      PROVE  TaskAt(th2, k)' = TaskAt(th2, k) /\ SchedulerAt(th2, k)' = SchedulerAt(th2, k)
  <2>1. CASE th2 # th
    BY <1>3, <2>1 DEF TaskAt, SchedulerAt
  <2>2. CASE th2 = th /\ k = n
    <3>1. k # Len(calls'[th]) /\ k = Len(calls[th])
      BY <1>1, <2>2
    <3>2. QED BY <1>2, <2>2, <3>1 DEF TaskAt, SchedulerAt
  <2>3. CASE th2 = th /\ k # n
    <3>1. k + 1 \in 1..n /\ k # Len(calls'[th]) /\ k # Len(calls[th])
      BY <1>1, <2>3
    <3>2. QED BY <1>2, <2>3, <3>1 DEF TaskAt, SchedulerAt
  <2>4. QED BY <2>1, <2>2, <2>3
<1>5. QED BY <1>1, <1>4 DEF TaskAt, SchedulerAt

(* ... and is current again when the calls above it have returned.         *)
LEMMA LeaveKeepsBelow ==
  ASSUME TypeOK, CallsNest, NEW th \in Threads, calls[th] # <<>>, Leave(th)
  PROVE  \A th2 \in Threads : \A k \in 0..Len(calls'[th2]) :
           TaskAt(th2, k)' = TaskAt(th2, k) /\ SchedulerAt(th2, k)' = SchedulerAt(th2, k)
<1>0. PICK n \in Nat : n = Len(calls[th])
  BY CallsType
<1>1. n \in Depths(th) /\ n > 0
  BY <1>0, LeaveCalls DEF Depths
<1>2. /\ Len(calls'[th]) = n - 1
      /\ \A i \in 1..(n - 1) : calls'[th][i] = calls[th][i]
      /\ current_task'[th] = (IF Last(th).task = None THEN current_task[th] ELSE Last(th).old_task)
      /\ current_scheduler'[th] =
           (IF Last(th).scheduler = None THEN current_scheduler[th] ELSE Last(th).old_scheduler)
  BY <1>0, LeaveCalls
<1>3. \A th2 \in Threads \ {th} :
        /\ calls'[th2] = calls[th2]
        /\ current_task'[th2] = current_task[th2]
        /\ current_scheduler'[th2] = current_scheduler[th2]
  BY LeaveCalls
<1>. SUFFICES ASSUME NEW th2 \in Threads, NEW k \in 0..Len(calls'[th2])
              PROVE  TaskAt(th2, k)' = TaskAt(th2, k) /\ SchedulerAt(th2, k)' = SchedulerAt(th2, k)
  OBVIOUS
<1>4. CASE th2 # th
  BY <1>3, <1>4 DEF TaskAt, SchedulerAt
<1>5. CASE th2 = th /\ k = n - 1
  <2>1. n - 1 # n /\ n - 1 + 1 = n
    BY <1>1
  <2>2. /\ TaskAt(th, n) = current_task[th] /\ SchedulerAt(th, n) = current_scheduler[th]
        /\ TaskAt(th, n - 1) = Last(th).old_task /\ SchedulerAt(th, n - 1) = Last(th).old_scheduler
    BY <1>0, <2>1 DEF TaskAt, SchedulerAt, Last
  <2>3. /\ TaskAt(th, n) = IF Last(th).task = None THEN TaskAt(th, n - 1) ELSE Last(th).task
        /\ SchedulerAt(th, n) = IF Last(th).scheduler = None THEN SchedulerAt(th, n - 1)
                                ELSE Last(th).scheduler
    BY <1>0, <1>1 DEF CallsNest, Last
  <2>4. TaskAt(th, n - 1)' = current_task'[th] /\ SchedulerAt(th, n - 1)' = current_scheduler'[th]
    BY <1>2 DEF TaskAt, SchedulerAt
  <2>5. QED BY <1>2, <1>5, <2>2, <2>3, <2>4
<1>6. CASE th2 = th /\ k # n - 1
  <2>1. k + 1 \in 1..(n - 1) /\ k # Len(calls'[th]) /\ k # Len(calls[th])
    BY <1>0, <1>1, <1>2, <1>6
  <2>2. QED BY <1>2, <1>6, <2>1 DEF TaskAt, SchedulerAt
<1>7. QED BY <1>4, <1>5, <1>6

(* A call that installs a scheduler alone is made where no task is current.*)
LEMMA EnterNests ==
  ASSUME TypeOK, CallsNest, InnermostAtAllDepths,
         NEW th \in Threads, NEW call, Entered(th, call),
         call.scheduler = None => call.task = None,
         call.scheduler # None /\ call.task = None => current_task[th] = None
  PROVE  CallsNest' /\ InnermostAtAllDepths'
<1>1. PICK n \in Nat : n = Len(calls[th])
  BY CallsType
<1>2. /\ \A th2 \in Threads \ {th} : calls'[th2] = calls[th2]
      /\ Len(calls'[th]) = n + 1
      /\ \A i \in 1..n : calls'[th][i] = calls[th][i]
      /\ calls'[th][n + 1] = call
  BY <1>1 DEF Entered
<1>3. /\ \A th2 \in Threads : \A k \in 0..Len(calls[th2]) :
           TaskAt(th2, k)' = TaskAt(th2, k) /\ SchedulerAt(th2, k)' = SchedulerAt(th2, k)
      /\ TaskAt(th, n + 1)' = (IF call.task = None THEN TaskAt(th, n) ELSE call.task)
      /\ SchedulerAt(th, n + 1)' =
           (IF call.scheduler = None THEN SchedulerAt(th, n) ELSE call.scheduler)
      /\ TaskAt(th, n) = current_task[th]
  <2>1. TaskAt(th, n) = current_task[th] /\ SchedulerAt(th, n) = current_scheduler[th]
    BY <1>1 DEF TaskAt, SchedulerAt
  <2>2. QED BY <1>1, <2>1, EnterKeepsBelow
<1>4. CallsNest'
  <2>. SUFFICES ASSUME NEW th2 \in Threads, NEW i \in Depths(th2)'
                PROVE  LET c == calls'[th2][i]
                       IN /\ TaskAt(th2, i)' = IF c.task = None THEN TaskAt(th2, i - 1)' ELSE c.task
                          /\ SchedulerAt(th2, i)' = IF c.scheduler = None THEN SchedulerAt(th2, i - 1)'
                                                    ELSE c.scheduler
    BY DEF CallsNest
  <2>1. CASE i \in Depths(th2)
    <3>1. calls'[th2][i] = calls[th2][i]
      BY <1>1, <1>2, <2>1 DEF Depths
    <3>2. i \in 0..Len(calls[th2]) /\ i - 1 \in 0..Len(calls[th2])
      BY <2>1, CallsType DEF Depths
    <3>3. QED BY <1>3, <2>1, <3>1, <3>2 DEF CallsNest
  <2>2. CASE i \notin Depths(th2)
    <3>1. th2 = th /\ i = n + 1
      BY <1>1, <1>2, <2>2 DEF Depths
    <3>2. i - 1 = n /\ n \in 0..Len(calls[th])
      BY <1>1, <3>1
    <3>3. QED BY <1>2, <1>3, <3>1, <3>2
  <2>3. QED BY <2>1, <2>2
<1>5. InnermostAtAllDepths'
  <2>. SUFFICES ASSUME NEW th2 \in Threads, NEW k \in 0..Len(calls'[th2])
                PROVE  InnermostAt(th2, k)'
    BY DEF InnermostAtAllDepths
  <2>1. CASE k \in 0..Len(calls[th2])
    <3>1. InnermostAt(th2, k)
      BY <2>1 DEF InnermostAtAllDepths
    <3>2. \A i \in 1..k : calls'[th2][i] = calls[th2][i]
      BY <1>1, <1>2, <2>1, CallsType
    <3>3. \A i \in 1..k : \A j \in (i + 1)..k : j \in 1..k
      OBVIOUS
    <3>4. QED BY <1>3, <2>1, <3>1, <3>2, <3>3 DEF InnermostAt
  <2>2. CASE k \notin 0..Len(calls[th2])
    <3>1. th2 = th /\ k = n + 1
      BY <1>1, <1>2, <2>2
    <3>2. CASE call.task # None
      <4>1. k \in 1..k /\ \A j \in (k + 1)..k : FALSE
        BY <1>1, <3>1
      <4>2. TaskAt(th2, k)' = calls'[th2][k].task /\ SchedulerAt(th2, k)' = calls'[th2][k].scheduler
        BY <1>2, <1>3, <3>1, <3>2
      <4>3. QED BY <1>2, <3>1, <3>2, <4>1, <4>2 DEF InnermostAt
    <3>3. CASE call.task = None
      <4>1. InnermostAt(th, n)
        BY <1>1 DEF InnermostAtAllDepths
      <4>2. CASE TaskAt(th, n) = None /\ \A i \in 1..n : calls[th][i].task = None
        <5>1. \A i \in 1..k : calls'[th][i].task = None
          BY <1>1, <1>2, <3>1, <3>3, <4>2
        <5>2. TaskAt(th, k)' = None
          BY <1>3, <3>1, <3>3, <4>2
        <5>3. QED BY <3>1, <5>1, <5>2 DEF InnermostAt
      <4>3. ASSUME NEW i \in 1..n,
                   calls[th][i].task # None,
                   \A j \in (i + 1)..n : calls[th][j].task = None,
                   TaskAt(th, n) = calls[th][i].task,
                   SchedulerAt(th, n) = calls[th][i].scheduler
            PROVE  InnermostAt(th2, k)'
        <5>1. call.scheduler = None
          BY <1>3, <3>3, <4>3
        <5>2. i \in 1..k /\ calls'[th][i] = calls[th][i]
          BY <1>1, <1>2, <3>1
        <5>3. \A j \in (i + 1)..k : calls'[th][j].task = None
          <6>1. \A j \in (i + 1)..k : j = n + 1 \/ (j \in 1..n /\ j \in (i + 1)..n)
            BY <1>1, <3>1
          <6>2. QED BY <1>2, <3>3, <4>3, <6>1
        <5>4. TaskAt(th, k)' = calls'[th][i].task /\ SchedulerAt(th, k)' = calls'[th][i].scheduler
          BY <1>3, <3>1, <3>3, <4>3, <5>1, <5>2
        <5>5. QED BY <3>1, <4>3, <5>2, <5>3, <5>4 DEF InnermostAt
      <4>4. QED BY <4>1, <4>2, <4>3 DEF InnermostAt
    <3>4. QED BY <3>2, <3>3
  <2>3. QED BY <2>1, <2>2
<1>6. QED BY <1>4, <1>5

LEMMA LeaveNests ==
  ASSUME TypeOK, CallsNest, InnermostAtAllDepths,
         NEW th \in Threads, calls[th] # <<>>, Leave(th)
  PROVE  CallsNest' /\ InnermostAtAllDepths'
<1>1. \A th2 \in Threads : /\ Len(calls'[th2]) \in Nat /\ Len(calls'[th2]) <= Len(calls[th2])
                          /\ \A i \in 1..Len(calls'[th2]) : calls'[th2][i] = calls[th2][i]
  <2>1. \A th2 \in Threads : Len(calls[th2]) \in Nat
    BY CallsType
  <2>2. Len(calls[th]) > 0
    BY <2>1, LeaveCalls DEF Depths
  <2>3. /\ Len(calls'[th]) = Len(calls[th]) - 1
        /\ \A i \in 1..(Len(calls[th]) - 1) : calls'[th][i] = calls[th][i]
        /\ \A th2 \in Threads \ {th} : calls'[th2] = calls[th2]
    BY LeaveCalls
  <2>4. ASSUME NEW th2 \in Threads
        PROVE  /\ Len(calls'[th2]) \in Nat /\ Len(calls'[th2]) <= Len(calls[th2])
               /\ \A i \in 1..Len(calls'[th2]) : calls'[th2][i] = calls[th2][i]
    <3>1. CASE th2 = th
      BY <2>1, <2>2, <2>3, <3>1
    <3>2. CASE th2 # th
      BY <2>1, <2>3, <3>2
    <3>3. QED BY <3>1, <3>2
  <2>5. QED BY <2>4
<1>2. \A th2 \in Threads : \A k \in 0..Len(calls'[th2]) :
        TaskAt(th2, k)' = TaskAt(th2, k) /\ SchedulerAt(th2, k)' = SchedulerAt(th2, k)
  BY LeaveKeepsBelow
<1>3. ASSUME NEW th2 \in Threads
      PROVE  Len(calls[th2]) \in Nat
  BY CallsType
<1>4. CallsNest'
  <2>. SUFFICES ASSUME NEW th2 \in Threads, NEW i \in Depths(th2)'
                PROVE  LET c == calls'[th2][i]
                       IN /\ TaskAt(th2, i)' = IF c.task = None THEN TaskAt(th2, i - 1)' ELSE c.task
                          /\ SchedulerAt(th2, i)' = IF c.scheduler = None THEN SchedulerAt(th2, i - 1)'
                                                    ELSE c.scheduler
    BY DEF CallsNest
  <2>1. i \in Depths(th2) /\ i \in 0..Len(calls'[th2]) /\ i - 1 \in 0..Len(calls'[th2])
        /\ calls'[th2][i] = calls[th2][i]
    BY <1>1, <1>3 DEF Depths
  <2>2. QED BY <1>2, <2>1 DEF CallsNest
<1>5. InnermostAtAllDepths'
  <2>. SUFFICES ASSUME NEW th2 \in Threads, NEW k \in 0..Len(calls'[th2])
                PROVE  InnermostAt(th2, k)'
    BY DEF InnermostAtAllDepths
  <2>1. k \in 0..Len(calls[th2]) /\ \A i \in 1..k : calls'[th2][i] = calls[th2][i]
    BY <1>1, <1>3
  <2>2. InnermostAt(th2, k)
    BY <2>1 DEF InnermostAtAllDepths
  <2>3. \A i \in 1..k : \A j \in (i + 1)..k : j \in 1..k
    OBVIOUS
  <2>4. QED BY <1>2, <2>1, <2>2, <2>3 DEF InnermostAt
<1>6. QED BY <1>4, <1>5

-----------------------------------------------------------------------------
(* The owners of the tasks.                                                *)

Stages == {"none", "suspended", "polled", "over", "dropping", "dropped"}

LEMMA FutureType ==
  ASSUME TypeOK, NEW f \in Futures
  PROVE  /\ future[f].stage \in Stages
         /\ future[f].scheduler \in Schedulers \cup {None}
         /\ future[f].task_id \in Nat \cup {None}
         /\ future[f] = [stage |-> future[f].stage, scheduler |-> future[f].scheduler,
                         task_id |-> future[f].task_id]
BY DEF TypeOK, Stages

LEMMA NoneIsNothing == None \notin Nat /\ None \notin Schedulers /\ None \notin Futures
BY NoneAssumption

(* Where the calls of the next state come from.  *)
LEMMA EnteredPositions ==
  ASSUME TypeOK, NEW th \in Threads, NEW call, Entered(th, call), NEW n \in Nat, n = Len(calls[th])
  PROVE  /\ \A th2 \in Threads : \A i \in Depths(th2)' :
              \/ i \in Depths(th2) /\ calls'[th2][i] = calls[th2][i]
              \/ th2 = th /\ i = n + 1 /\ calls'[th2][i] = call
         /\ \A th2 \in Threads : \A i \in Depths(th2) :
              i \in Depths(th2)' /\ calls'[th2][i] = calls[th2][i]
         /\ n + 1 \in Depths(th)' /\ calls'[th][n + 1] = call /\ n + 1 \notin Depths(th)
<1>1. /\ Len(calls'[th]) = n + 1
      /\ \A i \in 1..n : calls'[th][i] = calls[th][i]
      /\ calls'[th][n + 1] = call
      /\ \A th2 \in Threads \ {th} : calls'[th2] = calls[th2]
  BY DEF Entered
<1>2. \A i \in 1..(n + 1) : i \in 1..n \/ i = n + 1
  OBVIOUS
<1>3. ASSUME NEW th2 \in Threads
      PROVE  /\ \A i \in Depths(th2)' : \/ i \in Depths(th2) /\ calls'[th2][i] = calls[th2][i]
                                        \/ th2 = th /\ i = n + 1 /\ calls'[th2][i] = call
             /\ \A i \in Depths(th2) : i \in Depths(th2)' /\ calls'[th2][i] = calls[th2][i]
  <2>1. CASE th2 = th
    BY <1>1, <1>2, <2>1 DEF Depths
  <2>2. CASE th2 # th
    BY <1>1, <2>2 DEF Depths
  <2>3. QED BY <2>1, <2>2
<1>4. n + 1 \in Depths(th)' /\ n + 1 \notin Depths(th)
  BY <1>1 DEF Depths
<1>5. QED BY <1>1, <1>3, <1>4

LEMMA LeftPositions ==
  ASSUME TypeOK, NEW th \in Threads, calls[th] # <<>>, Leave(th), NEW n \in Nat, n = Len(calls[th])
  PROVE  /\ \A th2 \in Threads : \A i \in Depths(th2)' :
              i \in Depths(th2) /\ calls'[th2][i] = calls[th2][i] /\ ~(th2 = th /\ i = n)
         /\ \A th2 \in Threads : \A i \in Depths(th2) :
              (i \in Depths(th2)' /\ calls'[th2][i] = calls[th2][i]) \/ (th2 = th /\ i = n)
         /\ n \in Depths(th) /\ calls[th][n] = Last(th) /\ Last(th) \in Calls
<1>1. /\ n \in Depths(th)
      /\ Len(calls'[th]) = n - 1
      /\ \A i \in 1..(n - 1) : calls'[th][i] = calls[th][i]
      /\ \A th2 \in Threads \ {th} : calls'[th2] = calls[th2]
  BY LeaveCalls
<1>2. \A i \in 1..n : i \in 1..(n - 1) \/ i = n
  OBVIOUS
<1>3. ASSUME NEW th2 \in Threads
      PROVE  /\ \A i \in Depths(th2)' :
                  i \in Depths(th2) /\ calls'[th2][i] = calls[th2][i] /\ ~(th2 = th /\ i = n)
             /\ \A i \in Depths(th2) :
                  (i \in Depths(th2)' /\ calls'[th2][i] = calls[th2][i]) \/ (th2 = th /\ i = n)
  <2>1. CASE th2 = th
    BY <1>1, <1>2, <2>1 DEF Depths
  <2>2. CASE th2 # th
    BY <1>1, <2>2 DEF Depths
  <2>3. QED BY <2>1, <2>2
<1>4. calls[th][n] = Last(th) /\ Last(th) \in Calls
  BY <1>1, CallsType DEF Last
<1>5. QED BY <1>1, <1>3, <1>4

LEMMA SameContext ==
  ASSUME CallsNest, InnermostAtAllDepths, UNCHANGED <<current_task, current_scheduler, calls>>
  PROVE  CallsNest' /\ InnermostAtAllDepths'
<1>1. \A th \in Threads : \A k : TaskAt(th, k)' = TaskAt(th, k) /\ SchedulerAt(th, k)' = SchedulerAt(th, k)
  BY DEF TaskAt, SchedulerAt
<1>2. \A th \in Threads : Depths(th)' = Depths(th) /\ calls'[th] = calls[th]
  BY DEF Depths
<1>3. CallsNest'
  BY <1>1, <1>2 DEF CallsNest
<1>4. InnermostAtAllDepths'
  BY <1>1, <1>2 DEF InnermostAtAllDepths, InnermostAt
<1>5. QED BY <1>3, <1>4

(* A future with a call is being polled or dropped.  *)
LEMMA FutureInCall ==
  ASSUME CallsMatchFutures, NEW th \in Threads, NEW i \in Depths(th),
         calls[th][i].what \in {"poll", "drop"}
  PROVE  /\ calls[th][i].future \in Futures
         /\ future[calls[th][i].future].stage \in {"polled", "dropping"}
<1> DEFINE c == calls[th][i]
<1>1. CASE c.what = "poll"
  <2>1. c.future \in Futures
        /\ future[c.future] = [stage |-> "polled", scheduler |-> c.scheduler, task_id |-> c.task]
    BY <1>1 DEF CallsMatchFutures
  <2>2. QED BY <2>1
<1>2. CASE c.what = "drop"
  BY <1>2 DEF CallsMatchFutures
<1>3. QED BY <1>1, <1>2

LEMMA CreateStep ==
  ASSUME IInv, NEW th \in Threads, NEW f \in Futures, CreateTask(th, f)
  PROVE  IInv'
<1>1. PICK s \in Schedulers \cup {None} :
        future' = [future EXCEPT ![f] = [stage |-> "suspended", scheduler |-> s, task_id |-> None]]
  BY DEF CreateTask, IInv, TypeOK
<1>2. /\ future[f].stage = "none" /\ future[f].task_id = None
      /\ UNCHANGED <<current_task, current_scheduler, calls, next_task_id, finished>>
  BY DEF CreateTask, IInv, OwnersOfFutures
<1>3. future \in [Futures -> [stage : Stages, scheduler : Schedulers \cup {None}, task_id : Nat \cup {None}]]
  BY DEF IInv, TypeOK, Stages
<1>4. /\ future'[f] = [stage |-> "suspended", scheduler |-> s, task_id |-> None]
      /\ \A g \in Futures \ {f} : future'[g] = future[g]
  BY <1>1, <1>3
<1>5. TypeOK'
  BY <1>1, <1>2 DEF IInv, TypeOK
<1>6. CallsNest' /\ InnermostAtAllDepths'
  BY <1>2, SameContext DEF IInv
<1>7. CallsMatchFutures' /\ OneCallPerFuture'
  <2>1. \A th2 \in Threads : \A i \in Depths(th2) :
          calls[th2][i].what \in {"poll", "drop"} => calls[th2][i].future # f
    BY <1>2, FutureInCall DEF IInv
  <2>2. \A th2 \in Threads : Depths(th2)' = Depths(th2)
    BY <1>2 DEF Depths
  <2>3. CallsMatchFutures'
    BY <1>2, <1>4, <2>1, <2>2 DEF IInv, CallsMatchFutures
  <2>4. OneCallPerFuture'
    BY <1>2, <2>2 DEF IInv, OneCallPerFuture
  <2>5. QED BY <2>3, <2>4
<1>8. OwnersOfFutures' /\ FinishedWereGiven'
  BY <1>2, <1>4 DEF IInv, OwnersOfFutures, FinishedWereGiven
<1>9. OwnersOfCalls'
  BY <1>2, <1>4, NoneIsNothing DEF IInv, OwnersOfCalls, Depths
<1>10. UnfinishedTaskHasOwner'
  BY <1>2, <1>4, NoneIsNothing DEF IInv, UnfinishedTaskHasOwner
<1>11. QED BY <1>5, <1>6, <1>7, <1>8, <1>9, <1>10 DEF IInv

(* One more call: the parts about the context, and the type of what a call *)
(* changes.                                                                *)
LEMMA EnterContext ==
  ASSUME IInv, NEW th \in Threads, NEW call, Entered(th, call),
         call.scheduler = None => call.task = None,
         call.scheduler # None /\ call.task = None => current_task[th] = None,
         future' \in [Futures -> [stage : Stages, scheduler : Schedulers \cup {None},
                                 task_id : Nat \cup {None}]],
         next_task_id' \in [Schedulers -> Nat \ {0}],
         finished' \subseteq Schedulers \X Nat
  PROVE  TypeOK' /\ CallsNest' /\ InnermostAtAllDepths'
<1>1. TypeOK'
  BY DEF TypeOK, Entered, Stages
<1>2. QED BY <1>1, EnterNests DEF IInv

(* The first poll registers the task, and its future owns the id.          *)
LEMMA PollStep ==
  ASSUME IInv, NEW th \in Threads, NEW f \in Futures, Poll(th, f)
  PROVE  IInv'
<1> DEFINE s == future[f].scheduler
           first == s # None /\ future[f].task_id = None
           id == IF first THEN next_task_id[s] ELSE future[f].task_id
           call == CallOf(th, "poll", f, s, id)
<1>0. PICK n \in Nat : n = Len(calls[th])
  BY CallsType DEF IInv
<1>1. /\ future[f].stage = "suspended" /\ s \in Schedulers \cup {None} /\ id \in Nat \cup {None}
      /\ s = None => id = None
      /\ s # None => s \in Schedulers /\ id \in Nat /\ id # None
      /\ first => id \in Nat /\ id = next_task_id[s]
      /\ ~first => id = future[f].task_id
  <2>1. /\ s \in Schedulers \cup {None} /\ future[f].task_id \in Nat \cup {None}
        /\ future[f].task_id # None => s # None
    BY FutureType DEF IInv, OwnersOfFutures
  <2>2. \A r \in Schedulers : next_task_id[r] \in Nat
    BY DEF IInv, TypeOK
  <2>3. future[f].stage = "suspended"
    BY DEF Poll
  <2>4. QED BY <2>1, <2>2, <2>3, NoneIsNothing
<1>2. /\ future' = [future EXCEPT ![f] = [stage |-> "polled", scheduler |-> s, task_id |-> id]]
      /\ Enter(th, "poll", f, s, id) /\ finished' = finished
      /\ IF first THEN next_task_id' = [next_task_id EXCEPT ![s] = @ + 1]
         ELSE next_task_id' = next_task_id
  BY DEF Poll, Register
<1>3. Entered(th, call) /\ call.what = "poll" /\ call.future = f /\ call.scheduler = s /\ call.task = id
  BY <1>1, <1>2, EnterCalls DEF CallOf, IInv
<1>4. /\ future'[f] = [stage |-> "polled", scheduler |-> s, task_id |-> id]
      /\ \A g \in Futures \ {f} : future'[g] = future[g]
      /\ future' \in [Futures -> [stage : Stages, scheduler : Schedulers \cup {None},
                                  task_id : Nat \cup {None}]]
  <2>1. [stage |-> "polled", scheduler |-> s, task_id |-> id]
          \in [stage : Stages, scheduler : Schedulers \cup {None}, task_id : Nat \cup {None}]
    BY <1>1 DEF Stages
  <2>2. future \in [Futures -> [stage : Stages, scheduler : Schedulers \cup {None},
                               task_id : Nat \cup {None}]]
    BY DEF IInv, TypeOK, Stages
  <2> HIDE DEF s, id
  <2>3. QED BY <1>2, <2>1, <2>2
<1>5. /\ next_task_id \in [Schedulers -> Nat \ {0}] /\ next_task_id' \in [Schedulers -> Nat \ {0}]
      /\ \A r \in Schedulers : next_task_id'[r] = IF first /\ r = s THEN next_task_id[r] + 1
                                                 ELSE next_task_id[r]
  <2>1. next_task_id \in [Schedulers -> Nat \ {0}]
    BY DEF IInv, TypeOK
  <2>2. first => s \in Schedulers
    BY <1>1
  <2> HIDE DEF s, first
  <2>3. QED BY <1>2, <2>1, <2>2
<1> HIDE DEF s, first, id, call
<1>6. TypeOK' /\ CallsNest' /\ InnermostAtAllDepths'
  BY <1>1, <1>2, <1>3, <1>4, <1>5, EnterContext DEF IInv, TypeOK
<1>7. /\ \A th2 \in Threads : \A i \in Depths(th2)' :
           \/ i \in Depths(th2) /\ calls'[th2][i] = calls[th2][i]
           \/ th2 = th /\ i = n + 1 /\ calls'[th2][i] = call
      /\ \A th2 \in Threads : \A i \in Depths(th2) :
           i \in Depths(th2)' /\ calls'[th2][i] = calls[th2][i]
  BY <1>0, <1>3, EnteredPositions DEF IInv
<1>8. \A th2 \in Threads : \A i \in Depths(th2) :
        calls[th2][i].what \in {"poll", "drop"} => calls[th2][i].future # f
  BY <1>1, FutureInCall DEF IInv
<1>9. CallsMatchFutures'
  BY <1>3, <1>4, <1>7, <1>8 DEF IInv, CallsMatchFutures
<1>10. OneCallPerFuture'
  BY <1>3, <1>7, <1>8 DEF IInv, OneCallPerFuture
<1>11. OwnersOfFutures'
  <2>1. ASSUME NEW g \in Futures
        PROVE  /\ future'[g].stage = "none" => future'[g].task_id = None
               /\ future'[g].task_id # None =>
                    /\ future'[g].scheduler # None
                    /\ future'[g].task_id \in 1..(next_task_id'[future'[g].scheduler] - 1)
                    /\ future'[g].stage # "dropped"
                         => <<future'[g].scheduler, future'[g].task_id>> \notin finished'
    BY <1>1, <1>2, <1>4, <1>5, FutureType, NoneIsNothing
    DEF IInv, OwnersOfFutures, FinishedWereGiven, s, first, id
  <2>2. ASSUME NEW g \in Futures, NEW h \in Futures,
               future'[g].task_id # None, future'[g].task_id = future'[h].task_id,
               future'[g].scheduler = future'[h].scheduler
        PROVE  g = h
    <3>1. ASSUME NEW k \in Futures \ {f}, future[k].task_id = id, future[k].scheduler = s,
                 id # None
          PROVE  FALSE
      <4>1. k \in Futures /\ k # f /\ future[k].task_id # None
        BY <3>1
      <4>2. CASE first
        <5>1. future[k].task_id \in 1..(next_task_id[s] - 1)
          BY <3>1, <4>1 DEF IInv, OwnersOfFutures
        <5>2. id = next_task_id[s] /\ next_task_id[s] \in Nat
          BY <1>1, <1>5, <3>1, <4>2 DEF id
        <5>3. QED BY <3>1, <5>1, <5>2
      <4>3. CASE ~first
        <5>1. future[f].task_id = id /\ future[f].scheduler = s
          BY <4>3 DEF first, id, s
        <5>2. QED BY <3>1, <4>1, <5>1 DEF IInv, OwnersOfFutures
      <4>4. QED BY <4>2, <4>3
    <3>2. CASE g = f \/ h = f
      BY <1>4, <2>2, <3>1, <3>2
    <3>3. CASE g # f /\ h # f
      BY <1>4, <2>2, <3>3 DEF IInv, OwnersOfFutures
    <3>4. QED BY <3>2, <3>3
  <2>3. QED BY <2>1, <2>2 DEF OwnersOfFutures
<1>12. OwnersOfCalls'
  <2>1. ASSUME NEW th2 \in Threads, NEW i \in Depths(th2), calls[th2][i].what = "task_blocking"
        PROVE  /\ calls[th2][i].task \in 1..(next_task_id'[calls[th2][i].scheduler] - 1)
               /\ <<calls[th2][i].scheduler, calls[th2][i].task>> \notin finished
               /\ \A g \in Futures : future'[g].task_id = calls[th2][i].task =>
                                     future'[g].scheduler # calls[th2][i].scheduler
    <3> DEFINE c == calls[th2][i]
    <3>1. /\ c.task \in 1..(next_task_id[c.scheduler] - 1)
          /\ <<c.scheduler, c.task>> \notin finished
          /\ \A g \in Futures : future[g].task_id = c.task => future[g].scheduler # c.scheduler
      BY <2>1 DEF IInv, OwnersOfCalls
    <3>2. c.scheduler \in Schedulers
      BY <2>1, CallsType DEF IInv, CallsMatchFutures, Calls
    <3> HIDE DEF c
    <3>3. c.task \in 1..(next_task_id'[c.scheduler] - 1)
      BY <1>5, <3>1, <3>2
    <3>4. ASSUME NEW g \in Futures, future'[g].task_id = c.task
          PROVE  future'[g].scheduler # c.scheduler
      <4>1. CASE g # f \/ ~first
        BY <1>1, <1>4, <3>1, <3>4, <4>1 DEF s
      <4>2. CASE g = f /\ first
        BY <1>1, <1>4, <1>5, <3>1, <3>2, <3>4, <4>2
      <4>3. QED BY <4>1, <4>2
    <3>5. QED BY <3>1, <3>3, <3>4 DEF c
  <2>2. ASSUME NEW th2 \in Threads, NEW i \in Depths(th2)', calls'[th2][i].what = "task_blocking"
        PROVE  i \in Depths(th2) /\ calls'[th2][i] = calls[th2][i]
    BY <1>3, <1>7, <2>2
  <2>3. QED BY <1>2, <2>1, <2>2 DEF IInv, OwnersOfCalls
<1>13. FinishedWereGiven'
  BY <1>2, <1>5 DEF IInv, FinishedWereGiven
<1>14. UnfinishedTaskHasOwner'
  <2>. SUFFICES ASSUME NEW r \in Schedulers, NEW i \in 1..(next_task_id'[r] - 1),
                       <<r, i>> \notin finished'
                PROVE  \/ \E g \in Futures : /\ future'[g].scheduler = r
                                             /\ future'[g].task_id = i
                                             /\ future'[g].stage # "dropped"
                       \/ \E th2 \in Threads : \E j \in DOMAIN calls'[th2] :
                            /\ calls'[th2][j].what = "task_blocking"
                            /\ calls'[th2][j].scheduler = r
                            /\ calls'[th2][j].task = i
    BY DEF UnfinishedTaskHasOwner
  <2>1. CASE first /\ r = s /\ i = next_task_id[r]
    BY <1>1, <1>4, <2>1
  <2>2. CASE i \in 1..(next_task_id[r] - 1)
    <3>1. CASE \E g \in Futures : /\ future[g].scheduler = r
                                 /\ future[g].task_id = i
                                 /\ future[g].stage # "dropped"
      BY <1>1, <1>4, <3>1, NoneIsNothing DEF first, s
    <3>2. CASE \E th2 \in Threads : \E j \in DOMAIN calls[th2] :
                 /\ calls[th2][j].what = "task_blocking"
                 /\ calls[th2][j].scheduler = r
                 /\ calls[th2][j].task = i
      <4>1. \A th2 \in Threads : DOMAIN calls[th2] = Depths(th2) /\ DOMAIN calls'[th2] = Depths(th2)'
        BY <1>6 DEF IInv, TypeOK, Depths
      <4>2. QED BY <1>7, <3>2, <4>1
    <3>3. QED BY <1>2, <2>2, <3>1, <3>2 DEF IInv, UnfinishedTaskHasOwner
  <2>3. QED BY <1>5, <2>1, <2>2
<1>15. QED BY <1>6, <1>9, <1>10, <1>11, <1>12, <1>13, <1>14 DEF IInv

(* task_blocking registers the task, and its call owns the id.             *)
LEMMA BlockingStep ==
  ASSUME IInv, NEW th \in Threads, CallBlocking(th)
  PROVE  IInv'
<1> DEFINE s == current_scheduler[th]
           id == next_task_id[s]
           call == CallOf(th, "task_blocking", None, s, id)
<1>0. PICK n \in Nat : n = Len(calls[th])
  BY CallsType DEF IInv
<1>1. s \in Schedulers /\ id \in Nat /\ id # None /\ id > 0 /\ s # None
  BY NoneIsNothing DEF CallBlocking, IInv, TypeOK
<1>2. /\ next_task_id' = [next_task_id EXCEPT ![s] = @ + 1]
      /\ Enter(th, "task_blocking", None, s, id) /\ UNCHANGED <<future, finished>>
  BY DEF CallBlocking, Register
<1>3. /\ Entered(th, call) /\ call.what = "task_blocking"
      /\ call.scheduler = s /\ call.task = id
  BY <1>1, <1>2, EnterCalls DEF CallOf, IInv
<1>4. /\ next_task_id \in [Schedulers -> Nat \ {0}] /\ next_task_id' \in [Schedulers -> Nat \ {0}]
      /\ \A r \in Schedulers : next_task_id'[r] = IF r = s THEN next_task_id[r] + 1
                                                 ELSE next_task_id[r]
  <2>1. next_task_id \in [Schedulers -> Nat \ {0}]
    BY DEF IInv, TypeOK
  <2> HIDE DEF s
  <2>2. QED BY <1>1, <1>2, <2>1
<1>5. id = next_task_id[s]
  OBVIOUS
<1> HIDE DEF s, id, call
<1>6. TypeOK' /\ CallsNest' /\ InnermostAtAllDepths'
  BY <1>1, <1>2, <1>3, <1>4, EnterContext DEF IInv, TypeOK, Stages
<1>7. /\ \A th2 \in Threads : \A i \in Depths(th2)' :
           \/ i \in Depths(th2) /\ calls'[th2][i] = calls[th2][i]
           \/ th2 = th /\ i = n + 1 /\ calls'[th2][i] = call
      /\ \A th2 \in Threads : \A i \in Depths(th2) :
           i \in Depths(th2)' /\ calls'[th2][i] = calls[th2][i]
      /\ n + 1 \in Depths(th)' /\ calls'[th][n + 1] = call
  BY <1>0, <1>3, EnteredPositions DEF IInv
<1>8. CallsMatchFutures' /\ OneCallPerFuture'
  BY <1>1, <1>2, <1>3, <1>7 DEF IInv, CallsMatchFutures, OneCallPerFuture
<1>9. OwnersOfFutures' /\ FinishedWereGiven'
  <2>1. \A f \in Futures : future[f].task_id # None => future[f].scheduler \in Schedulers
    BY FutureType DEF IInv, OwnersOfFutures
  <2>2. \A r \in Schedulers : next_task_id[r] <= next_task_id'[r]
    BY <1>4
  <2>3. ASSUME NEW f \in Futures, future[f].task_id # None
        PROVE  future[f].task_id \in 1..(next_task_id'[future[f].scheduler] - 1)
    <3>1. future[f].task_id \in 1..(next_task_id[future[f].scheduler] - 1)
      BY <2>3 DEF IInv, OwnersOfFutures
    <3>2. QED BY <1>4, <2>1, <2>3, <3>1
  <2>4. QED BY <1>2, <1>4, <2>2, <2>3 DEF IInv, OwnersOfFutures, FinishedWereGiven
<1>10. OwnersOfCalls'
  <2>1. ASSUME NEW th2 \in Threads, NEW i \in Depths(th2), calls[th2][i].what = "task_blocking"
        PROVE  /\ calls[th2][i].scheduler \in Schedulers
               /\ calls[th2][i].task \in 1..(next_task_id[calls[th2][i].scheduler] - 1)
    <3>1. calls[th2][i] \in Calls
      BY CallsType DEF IInv
    <3>2. calls[th2][i].scheduler \in Schedulers \cup {None}
      BY <3>1 DEF Calls
    <3>3. calls[th2][i].scheduler # None
      BY <2>1 DEF IInv, CallsMatchFutures
    <3>4. calls[th2][i].task \in 1..(next_task_id[calls[th2][i].scheduler] - 1)
      BY <2>1 DEF IInv, OwnersOfCalls
    <3>5. QED BY <3>2, <3>3, <3>4
  <2>2. ASSUME NEW f \in Futures, future[f].task_id = id, future[f].scheduler = s
        PROVE  FALSE
    <3>1. id \in 1..(next_task_id[s] - 1)
      BY <1>1, <2>2 DEF IInv, OwnersOfFutures
    <3>2. QED BY <1>1, <1>5, <3>1
  <2>3. <<s, id>> \notin finished
    BY <1>1, <1>5 DEF IInv, FinishedWereGiven
  <2>4. id \in 1..(next_task_id'[s] - 1)
    BY <1>1, <1>4, <1>5
  <2>5. ASSUME NEW th2 \in Threads, NEW i \in Depths(th2)', calls'[th2][i].what = "task_blocking"
        PROVE  LET c == calls'[th2][i]
               IN /\ c.task \in 1..(next_task_id'[c.scheduler] - 1)
                  /\ <<c.scheduler, c.task>> \notin finished
                  /\ \A f \in Futures : future[f].task_id = c.task => future[f].scheduler # c.scheduler
    <3>1. CASE i \in Depths(th2) /\ calls'[th2][i] = calls[th2][i]
      <4> DEFINE c == calls[th2][i]
      <4>1. /\ c.scheduler \in Schedulers /\ c.task \in 1..(next_task_id[c.scheduler] - 1)
            /\ <<c.scheduler, c.task>> \notin finished
            /\ \A f \in Futures : future[f].task_id = c.task => future[f].scheduler # c.scheduler
        BY <2>1, <2>5, <3>1 DEF IInv, OwnersOfCalls
      <4> HIDE DEF c
      <4>2. c.task \in 1..(next_task_id'[c.scheduler] - 1)
        BY <1>4, <4>1
      <4>3. QED BY <3>1, <4>1, <4>2 DEF c
    <3>2. CASE calls'[th2][i] = call
      BY <1>3, <2>2, <2>3, <2>4, <3>2
    <3>3. QED BY <1>7, <3>1, <3>2
  <2>6. ASSUME NEW th2 \in Threads, NEW i \in Depths(th2), calls[th2][i].what = "task_blocking"
        PROVE  ~(calls[th2][i].scheduler = s /\ calls[th2][i].task = id)
    BY <1>1, <1>5, <2>1, <2>6
  <2>7. ASSUME NEW th2 \in Threads, NEW i \in Depths(th2)',
               NEW th3 \in Threads, NEW j \in Depths(th3)',
               calls'[th2][i].what = "task_blocking", calls'[th3][j].what = "task_blocking",
               calls'[th2][i].scheduler = calls'[th3][j].scheduler,
               calls'[th2][i].task = calls'[th3][j].task
        PROVE  th2 = th3 /\ i = j
    <3>1. \/ i \in Depths(th2) /\ calls'[th2][i] = calls[th2][i]
          \/ th2 = th /\ i = n + 1 /\ calls'[th2][i] = call
      BY <1>7
    <3>2. \/ j \in Depths(th3) /\ calls'[th3][j] = calls[th3][j]
          \/ th3 = th /\ j = n + 1 /\ calls'[th3][j] = call
      BY <1>7
    <3>3. QED BY <1>3, <2>6, <2>7, <3>1, <3>2 DEF IInv, OwnersOfCalls
  <2>8. QED BY <1>2, <2>5, <2>7 DEF OwnersOfCalls
<1>11. UnfinishedTaskHasOwner'
  <2>0. \A th2 \in Threads : DOMAIN calls[th2] = Depths(th2) /\ DOMAIN calls'[th2] = Depths(th2)'
    BY <1>6 DEF IInv, TypeOK, Depths
  <2>. SUFFICES ASSUME NEW r \in Schedulers, NEW i \in 1..(next_task_id'[r] - 1),
                       <<r, i>> \notin finished
                PROVE  \/ \E g \in Futures : /\ future[g].scheduler = r
                                             /\ future[g].task_id = i
                                             /\ future[g].stage # "dropped"
                       \/ \E th2 \in Threads : \E j \in Depths(th2)' :
                            /\ calls'[th2][j].what = "task_blocking"
                            /\ calls'[th2][j].scheduler = r
                            /\ calls'[th2][j].task = i
    BY <1>2, <2>0 DEF UnfinishedTaskHasOwner
  <2>1. CASE r = s /\ i = id
    BY <1>3, <1>7, <2>1
  <2>2. CASE i \in 1..(next_task_id[r] - 1)
    BY <1>7, <2>0, <2>2 DEF IInv, UnfinishedTaskHasOwner
  <2>3. QED BY <1>4, <1>5, <2>1, <2>2
<1>12. QED BY <1>6, <1>8, <1>9, <1>10, <1>11 DEF IInv

LEMMA WithSchedulerStep ==
  ASSUME IInv, NEW th \in Threads, NEW s \in Schedulers, CallWithScheduler(th, s)
  PROVE  IInv'
<1> DEFINE call == CallOf(th, "with_scheduler", None, s, None)
<1>0. PICK n \in Nat : n = Len(calls[th])
  BY CallsType DEF IInv
<1>1. /\ Entered(th, call) /\ call.what = "with_scheduler" /\ call.task = None /\ call.scheduler = s
      /\ current_task[th] = None /\ UNCHANGED <<future, next_task_id, finished>>
  BY EnterCalls DEF CallWithScheduler, CallOf, IInv
<1> HIDE DEF call
<1>2. TypeOK' /\ CallsNest' /\ InnermostAtAllDepths'
  BY <1>1, EnterContext DEF IInv, TypeOK, Stages
<1>3. /\ \A th2 \in Threads : \A i \in Depths(th2)' :
           \/ i \in Depths(th2) /\ calls'[th2][i] = calls[th2][i]
           \/ th2 = th /\ i = n + 1 /\ calls'[th2][i] = call
      /\ \A th2 \in Threads : \A i \in Depths(th2) :
           i \in Depths(th2)' /\ calls'[th2][i] = calls[th2][i]
  BY <1>0, <1>1, EnteredPositions DEF IInv
<1>4. CallsMatchFutures' /\ OneCallPerFuture'
  BY <1>1, <1>3 DEF IInv, CallsMatchFutures, OneCallPerFuture
<1>5. OwnersOfFutures' /\ FinishedWereGiven'
  BY <1>1 DEF IInv, OwnersOfFutures, FinishedWereGiven
<1>6. OwnersOfCalls'
  BY <1>1, <1>3 DEF IInv, OwnersOfCalls
<1>7. UnfinishedTaskHasOwner'
  <2>1. \A th2 \in Threads : DOMAIN calls[th2] = Depths(th2) /\ DOMAIN calls'[th2] = Depths(th2)'
    BY <1>2 DEF IInv, TypeOK, Depths
  <2>2. QED BY <1>1, <1>3, <2>1 DEF IInv, UnfinishedTaskHasOwner
<1>8. QED BY <1>2, <1>4, <1>5, <1>6, <1>7 DEF IInv

LEMMA BeginDropStep ==
  ASSUME IInv, NEW th \in Threads, NEW f \in Futures, BeginDrop(th, f)
  PROVE  IInv'
<1> DEFINE call == CallOf(th, "drop", f, None, None)
<1>0. PICK n \in Nat : n = Len(calls[th])
  BY CallsType DEF IInv
<1>1. /\ Entered(th, call) /\ call.what = "drop" /\ call.future = f
      /\ call.task = None /\ call.scheduler = None
      /\ future[f].stage \in {"suspended", "over"}
      /\ future' = [future EXCEPT ![f].stage = "dropping"]
      /\ UNCHANGED <<next_task_id, finished>>
  BY EnterCalls DEF BeginDrop, CallOf, IInv
<1>2. /\ future'[f].stage = "dropping"
      /\ \A g \in Futures : future'[g].scheduler = future[g].scheduler
                           /\ future'[g].task_id = future[g].task_id
      /\ \A g \in Futures \ {f} : future'[g] = future[g]
      /\ future' \in [Futures -> [stage : Stages, scheduler : Schedulers \cup {None},
                                  task_id : Nat \cup {None}]]
  <2>1. future \in [Futures -> [stage : Stages, scheduler : Schedulers \cup {None},
                               task_id : Nat \cup {None}]]
    BY DEF IInv, TypeOK, Stages
  <2>2. QED BY <1>1, <2>1 DEF Stages
<1> HIDE DEF call
<1>3. TypeOK' /\ CallsNest' /\ InnermostAtAllDepths'
  BY <1>1, <1>2, EnterContext DEF IInv, TypeOK
<1>4. /\ \A th2 \in Threads : \A i \in Depths(th2)' :
           \/ i \in Depths(th2) /\ calls'[th2][i] = calls[th2][i]
           \/ th2 = th /\ i = n + 1 /\ calls'[th2][i] = call
      /\ \A th2 \in Threads : \A i \in Depths(th2) :
           i \in Depths(th2)' /\ calls'[th2][i] = calls[th2][i]
  BY <1>0, <1>1, EnteredPositions DEF IInv
<1>5. \A th2 \in Threads : \A i \in Depths(th2) :
        calls[th2][i].what \in {"poll", "drop"} => calls[th2][i].future # f
  BY <1>1, FutureInCall DEF IInv
<1>6. CallsMatchFutures'
  BY <1>1, <1>2, <1>4, <1>5 DEF IInv, CallsMatchFutures
<1>7. OneCallPerFuture'
  BY <1>1, <1>4, <1>5 DEF IInv, OneCallPerFuture
<1>8. OwnersOfFutures' /\ FinishedWereGiven'
  BY <1>1, <1>2 DEF IInv, OwnersOfFutures, FinishedWereGiven
<1>9. OwnersOfCalls'
  BY <1>1, <1>2, <1>4 DEF IInv, OwnersOfCalls
<1>10. UnfinishedTaskHasOwner'
  <2>1. \A th2 \in Threads : DOMAIN calls[th2] = Depths(th2) /\ DOMAIN calls'[th2] = Depths(th2)'
    BY <1>3 DEF IInv, TypeOK, Depths
  <2>2. \A g \in Futures : future[g].stage # "dropped" => future'[g].stage # "dropped"
    BY <1>2
  <2>3. QED BY <1>1, <1>2, <1>4, <2>1, <2>2 DEF IInv, UnfinishedTaskHasOwner
<1>11. QED BY <1>3, <1>6, <1>7, <1>8, <1>9, <1>10 DEF IInv

(* What a returning call leaves behind.  *)
LEMMA LeaveContext ==
  ASSUME IInv, NEW th \in Threads, calls[th] # <<>>, Leave(th),
         future' \in [Futures -> [stage : Stages, scheduler : Schedulers \cup {None},
                                 task_id : Nat \cup {None}]],
         next_task_id' = next_task_id,
         finished' \subseteq Schedulers \X Nat
  PROVE  TypeOK' /\ CallsNest' /\ InnermostAtAllDepths'
<1>1. TypeOK'
  BY LeaveCalls DEF IInv, TypeOK, Stages
<1>2. QED BY <1>1, LeaveNests DEF IInv

(* A poll returns, and its future waits or is over; or a drop does, and    *)
(* finished_guard reports the end of the task.                             *)
LEMMA ReturnWithFuture ==
  ASSUME IInv, NEW th \in Threads, calls[th] # <<>>, Leave(th),
         Last(th).what \in {"poll", "drop"},
         NEW stage \in {"suspended", "over", "dropped"},
         future' = [future EXCEPT ![Last(th).future].stage = stage],
         next_task_id' = next_task_id,
         IF stage = "dropped"
         THEN finished' = finished \cup
                (IF future[Last(th).future].task_id = None THEN {}
                 ELSE {<<future[Last(th).future].scheduler, future[Last(th).future].task_id>>})
         ELSE finished' = finished
  PROVE  IInv'
<1>0. PICK n \in Nat : n = Len(calls[th])
  BY CallsType DEF IInv
<1>1. /\ \A th2 \in Threads : \A i \in Depths(th2)' :
           i \in Depths(th2) /\ calls'[th2][i] = calls[th2][i] /\ ~(th2 = th /\ i = n)
      /\ \A th2 \in Threads : \A i \in Depths(th2) :
           (i \in Depths(th2)' /\ calls'[th2][i] = calls[th2][i]) \/ (th2 = th /\ i = n)
      /\ n \in Depths(th) /\ calls[th][n] = Last(th)
  BY <1>0, LeftPositions DEF IInv
<1>2. PICK f \in Futures : f = Last(th).future
  BY <1>1, FutureInCall DEF IInv
<1>3. /\ future'[f].stage = stage
      /\ \A g \in Futures : future'[g].scheduler = future[g].scheduler
                           /\ future'[g].task_id = future[g].task_id
      /\ \A g \in Futures \ {f} : future'[g] = future[g]
      /\ future' \in [Futures -> [stage : Stages, scheduler : Schedulers \cup {None},
                                  task_id : Nat \cup {None}]]
  <2>1. future \in [Futures -> [stage : Stages, scheduler : Schedulers \cup {None},
                               task_id : Nat \cup {None}]]
    BY DEF IInv, TypeOK, Stages
  <2>2. QED BY <1>2, <2>1 DEF Stages
<1>4. /\ future[f].stage \in {"polled", "dropping"}
      /\ \A th2 \in Threads : \A i \in Depths(th2)' :
           calls[th2][i].what \in {"poll", "drop"} => calls[th2][i].future # f
  BY <1>1, <1>2, FutureInCall DEF IInv, OneCallPerFuture
<1>5. /\ finished \subseteq finished'
      /\ \A x \in finished' \ finished :
           /\ stage = "dropped" /\ future[f].task_id # None
           /\ x = <<future[f].scheduler, future[f].task_id>>
      /\ stage = "dropped" /\ future[f].task_id # None =>
           <<future[f].scheduler, future[f].task_id>> \in finished'
  BY <1>2
<1>6. future[f].task_id # None => future[f].scheduler \in Schedulers /\ future[f].task_id \in Nat
  BY FutureType DEF IInv, OwnersOfFutures
<1>7. TypeOK' /\ CallsNest' /\ InnermostAtAllDepths'
  <2>1. finished' \subseteq Schedulers \X Nat
    BY <1>5, <1>6 DEF IInv, TypeOK
  <2>2. QED BY <1>3, <2>1, LeaveContext
<1>8. CallsMatchFutures'
  BY <1>1, <1>3, <1>4 DEF IInv, CallsMatchFutures
<1>9. OneCallPerFuture'
  BY <1>1 DEF IInv, OneCallPerFuture
<1>10. OwnersOfFutures'
  <2>1. ASSUME NEW g \in Futures, future[g].task_id # None, future'[g].stage # "dropped"
        PROVE  <<future[g].scheduler, future[g].task_id>> \notin finished'
    <3>1. future[g].stage # "dropped"
      BY <1>3, <1>4, <2>1
    <3>2. <<future[g].scheduler, future[g].task_id>> \notin finished
      BY <2>1, <3>1 DEF IInv, OwnersOfFutures
    <3>3. stage = "dropped" => g # f
      BY <1>3, <2>1
    <3>4. QED BY <1>5, <2>1, <3>2, <3>3 DEF IInv, OwnersOfFutures
  <2>2. \A g \in Futures : future'[g].stage = "none" => future[g].stage = "none"
    BY <1>3
  <2>3. QED BY <1>3, <2>1, <2>2 DEF IInv, OwnersOfFutures
<1>11. OwnersOfCalls'
  <2>1. ASSUME NEW th2 \in Threads, NEW i \in Depths(th2), calls[th2][i].what = "task_blocking"
        PROVE  <<calls[th2][i].scheduler, calls[th2][i].task>> \notin finished'
    BY <1>5, <2>1 DEF IInv, OwnersOfCalls
  <2>2. ASSUME NEW th2 \in Threads, NEW i \in Depths(th2)'
        PROVE  LET c == calls'[th2][i]
               IN c.what = "task_blocking" =>
                    /\ c.task \in 1..(next_task_id'[c.scheduler] - 1)
                    /\ <<c.scheduler, c.task>> \notin finished'
                    /\ \A g \in Futures :
                         future'[g].task_id = c.task => future'[g].scheduler # c.scheduler
    <3>1. i \in Depths(th2) /\ calls'[th2][i] = calls[th2][i]
      BY <1>1, <2>2
    <3>2. QED BY <1>3, <2>1, <3>1 DEF IInv, OwnersOfCalls
  <2>3. \A th1, th2 \in Threads : \A i \in Depths(th1)', j \in Depths(th2)' :
          /\ calls'[th1][i].what = "task_blocking" /\ calls'[th2][j].what = "task_blocking"
          /\ calls'[th1][i].scheduler = calls'[th2][j].scheduler
          /\ calls'[th1][i].task = calls'[th2][j].task
          => th1 = th2 /\ i = j
    BY <1>1 DEF IInv, OwnersOfCalls
  <2>4. QED BY <2>2, <2>3 DEF OwnersOfCalls
<1>12. FinishedWereGiven'
  <2>1. ASSUME NEW s \in Schedulers, NEW id \in Nat, <<s, id>> \in finished' \ finished
        PROVE  id < next_task_id[s]
    <3>1. s = future[f].scheduler /\ id = future[f].task_id /\ id # None
      BY <1>5, <2>1
    <3>2. future[f].task_id \in 1..(next_task_id[future[f].scheduler] - 1)
      BY <3>1 DEF IInv, OwnersOfFutures
    <3>3. next_task_id[s] \in Nat
      BY DEF IInv, TypeOK
    <3>4. QED BY <3>1, <3>2, <3>3
  <2>2. QED BY <2>1 DEF IInv, FinishedWereGiven
<1>13. UnfinishedTaskHasOwner'
  <2>0. \A th2 \in Threads : DOMAIN calls[th2] = Depths(th2) /\ DOMAIN calls'[th2] = Depths(th2)'
    BY <1>7 DEF IInv, TypeOK, Depths
  <2>. SUFFICES ASSUME NEW r \in Schedulers, NEW i \in 1..(next_task_id[r] - 1),
                       <<r, i>> \notin finished'
                PROVE  \/ \E g \in Futures : /\ future'[g].scheduler = r
                                             /\ future'[g].task_id = i
                                             /\ future'[g].stage # "dropped"
                       \/ \E th2 \in Threads : \E j \in Depths(th2)' :
                            /\ calls'[th2][j].what = "task_blocking"
                            /\ calls'[th2][j].scheduler = r
                            /\ calls'[th2][j].task = i
    BY <2>0 DEF UnfinishedTaskHasOwner
  <2>1. <<r, i>> \notin finished
    BY <1>5
  <2>2. CASE \E g \in Futures : /\ future[g].scheduler = r
                               /\ future[g].task_id = i
                               /\ future[g].stage # "dropped"
    <3>1. PICK g \in Futures : /\ future[g].scheduler = r
                               /\ future[g].task_id = i
                               /\ future[g].stage # "dropped"
      BY <2>2
    <3>2. i # None
      BY NoneIsNothing
    <3>3. future'[g].stage # "dropped"
      BY <1>3, <1>5, <3>1, <3>2
    <3>4. QED BY <1>3, <3>1, <3>3
  <2>3. CASE \E th2 \in Threads : \E j \in Depths(th2) :
               /\ calls[th2][j].what = "task_blocking"
               /\ calls[th2][j].scheduler = r
               /\ calls[th2][j].task = i
    BY <1>1, <2>3
  <2>4. QED BY <2>0, <2>1, <2>2, <2>3 DEF IInv, UnfinishedTaskHasOwner
<1>14. QED BY <1>7, <1>8, <1>9, <1>10, <1>11, <1>12, <1>13 DEF IInv

LEMMA OneBlockingCall ==
  ASSUME OwnersOfCalls, NEW th \in Threads, NEW i \in Depths(th), NEW th2 \in Threads,
         NEW j \in Depths(th2),
         calls[th][i].what = "task_blocking", calls[th2][j].what = "task_blocking",
         calls[th][i].scheduler = calls[th2][j].scheduler, calls[th][i].task = calls[th2][j].task
  PROVE  th = th2 /\ i = j
BY DEF OwnersOfCalls

LEMMA BlockingCall ==
  ASSUME IInv, NEW th \in Threads, NEW i \in Depths(th), calls[th][i].what = "task_blocking"
  PROVE  /\ calls[th][i].scheduler \in Schedulers /\ calls[th][i].task \in Nat
         /\ calls[th][i].task < next_task_id[calls[th][i].scheduler]
         /\ <<calls[th][i].scheduler, calls[th][i].task>> \notin finished
         /\ \A f \in Futures :
              future[f].task_id = calls[th][i].task => future[f].scheduler # calls[th][i].scheduler
<1> DEFINE c == calls[th][i]
<1>1. c.scheduler \in Schedulers
  <2>1. c \in Calls
    BY CallsType DEF IInv
  <2>2. c.scheduler \in Schedulers \cup {None}
    BY <2>1 DEF Calls
  <2>3. c.scheduler # None
    BY DEF IInv, CallsMatchFutures
  <2>4. QED BY <2>2, <2>3
<1>2. /\ c.task \in 1..(next_task_id[c.scheduler] - 1)
      /\ <<c.scheduler, c.task>> \notin finished
      /\ \A f \in Futures : future[f].task_id = c.task => future[f].scheduler # c.scheduler
  BY DEF IInv, OwnersOfCalls
<1>3. next_task_id[c.scheduler] \in Nat
  BY <1>1 DEF IInv, TypeOK
<1>4. QED BY <1>1, <1>2, <1>3

(* task_blocking returns and reports the end of its task, or               *)
(* with_scheduler does and reports nothing.                                *)
LEMMA ReturnWithoutFuture ==
  ASSUME IInv, NEW th \in Threads, calls[th] # <<>>, Leave(th),
         Last(th).what \in {"task_blocking", "with_scheduler"},
         finished' = finished \cup
           (IF Last(th).what = "task_blocking" THEN {<<Last(th).scheduler, Last(th).task>>} ELSE {}),
         UNCHANGED <<future, next_task_id>>
  PROVE  IInv'
<1>0. PICK n \in Nat : n = Len(calls[th])
  BY CallsType DEF IInv
<1> DEFINE s == Last(th).scheduler
           id == Last(th).task
           blocking == Last(th).what = "task_blocking"
<1>1. /\ \A th2 \in Threads : \A i \in Depths(th2)' :
           i \in Depths(th2) /\ calls'[th2][i] = calls[th2][i] /\ ~(th2 = th /\ i = n)
      /\ \A th2 \in Threads : \A i \in Depths(th2) :
           (i \in Depths(th2)' /\ calls'[th2][i] = calls[th2][i]) \/ (th2 = th /\ i = n)
      /\ n \in Depths(th) /\ calls[th][n] = Last(th) /\ Last(th) \in Calls
  BY <1>0, LeftPositions DEF IInv
<1>2. blocking => /\ s \in Schedulers /\ id \in Nat /\ id < next_task_id[s]
                  /\ \A f \in Futures : future[f].task_id = id => future[f].scheduler # s
  <2>. SUFFICES ASSUME calls[th][n].what = "task_blocking"
                PROVE  /\ s \in Schedulers /\ id \in Nat /\ id < next_task_id[s]
                       /\ \A f \in Futures : future[f].task_id = id => future[f].scheduler # s
    BY <1>1
  <2>1. n \in Depths(th) /\ s = calls[th][n].scheduler /\ id = calls[th][n].task
    BY <1>1
  <2> HIDE DEF s, id
  <2>2. QED BY <2>1, BlockingCall
<1>3. /\ finished \subseteq finished'
      /\ \A x \in finished' \ finished : blocking /\ x = <<s, id>>
      /\ blocking => <<s, id>> \in finished'
  OBVIOUS
<1> HIDE DEF s, id, blocking
<1>4. TypeOK' /\ CallsNest' /\ InnermostAtAllDepths'
  <2>1. finished' \subseteq Schedulers \X Nat
    BY <1>2, <1>3 DEF IInv, TypeOK
  <2>2. QED BY <2>1, LeaveContext DEF IInv, TypeOK, Stages
<1>5. CallsMatchFutures' /\ OneCallPerFuture'
  <2>1. CallsMatchFutures'
    BY <1>1 DEF IInv, CallsMatchFutures
  <2>2. \A th2 \in Threads : \A i \in Depths(th2)' :
          i \in Depths(th2) /\ calls'[th2][i] = calls[th2][i]
    BY <1>1
  <2>3. OneCallPerFuture'
    BY <2>2 DEF IInv, OneCallPerFuture
  <2>4. QED BY <2>1, <2>3
<1>6. OwnersOfFutures'
  BY <1>2, <1>3 DEF IInv, OwnersOfFutures
<1>7. OwnersOfCalls'
  <2>1. ASSUME NEW th2 \in Threads, NEW i \in Depths(th2)', calls[th2][i].what = "task_blocking"
        PROVE  <<calls[th2][i].scheduler, calls[th2][i].task>> \notin finished'
    <3>1. i \in Depths(th2) /\ ~(th2 = th /\ i = n)
      BY <1>1
    <3>2. <<calls[th2][i].scheduler, calls[th2][i].task>> \notin finished
      BY <2>1, <3>1 DEF IInv, OwnersOfCalls
    <3>3. CASE blocking
      <4>1. calls[th][n].what = "task_blocking" /\ calls[th][n].scheduler = s /\ calls[th][n].task = id
        BY <1>1, <3>3 DEF blocking, s, id
      <4>2. ASSUME calls[th2][i].scheduler = s, calls[th2][i].task = id
            PROVE  FALSE
        <5>1. n \in Depths(th) /\ OwnersOfCalls
          BY <1>1 DEF IInv
        <5>2. th2 = th /\ i = n
          BY <2>1, <3>1, <4>1, <4>2, <5>1, OneBlockingCall
        <5>3. QED BY <3>1, <5>2
      <4>3. QED BY <1>3, <3>2, <4>2
    <3>4. QED BY <1>3, <3>2, <3>3
  <2>2. ASSUME NEW th2 \in Threads, NEW i \in Depths(th2)', calls'[th2][i].what = "task_blocking"
        PROVE  LET c == calls'[th2][i]
               IN /\ c.task \in 1..(next_task_id'[c.scheduler] - 1)
                  /\ <<c.scheduler, c.task>> \notin finished'
                  /\ \A f \in Futures : future'[f].task_id = c.task => future'[f].scheduler # c.scheduler
    BY <1>1, <2>1, <2>2 DEF IInv, OwnersOfCalls
  <2>3. ASSUME NEW th2 \in Threads, NEW i \in Depths(th2)',
               NEW th3 \in Threads, NEW j \in Depths(th3)',
               calls'[th2][i].what = "task_blocking", calls'[th3][j].what = "task_blocking",
               calls'[th2][i].scheduler = calls'[th3][j].scheduler,
               calls'[th2][i].task = calls'[th3][j].task
        PROVE  th2 = th3 /\ i = j
    <3>1. /\ i \in Depths(th2) /\ calls'[th2][i] = calls[th2][i]
          /\ j \in Depths(th3) /\ calls'[th3][j] = calls[th3][j]
      BY <1>1
    <3>2. QED BY <2>3, <3>1, OneBlockingCall DEF IInv
  <2>4. QED BY <2>2, <2>3 DEF OwnersOfCalls
<1>8. FinishedWereGiven'
  BY <1>2, <1>3 DEF IInv, FinishedWereGiven
<1>9. UnfinishedTaskHasOwner'
  <2>0. \A th2 \in Threads : DOMAIN calls[th2] = Depths(th2) /\ DOMAIN calls'[th2] = Depths(th2)'
    BY <1>4 DEF IInv, TypeOK, Depths
  <2>. SUFFICES ASSUME NEW r \in Schedulers, NEW i \in 1..(next_task_id[r] - 1),
                       <<r, i>> \notin finished'
                PROVE  \/ \E g \in Futures : /\ future[g].scheduler = r
                                             /\ future[g].task_id = i
                                             /\ future[g].stage # "dropped"
                       \/ \E th2 \in Threads : \E j \in Depths(th2)' :
                            /\ calls'[th2][j].what = "task_blocking"
                            /\ calls'[th2][j].scheduler = r
                            /\ calls'[th2][j].task = i
    BY <2>0 DEF UnfinishedTaskHasOwner
  <2>1. <<r, i>> \notin finished
    BY <1>3
  <2>2. CASE \E th2 \in Threads : \E j \in Depths(th2) :
               /\ calls[th2][j].what = "task_blocking"
               /\ calls[th2][j].scheduler = r
               /\ calls[th2][j].task = i
    <3>0. PICK th2 \in Threads : \E j \in Depths(th2) :
            /\ calls[th2][j].what = "task_blocking"
            /\ calls[th2][j].scheduler = r
            /\ calls[th2][j].task = i
      BY <2>2
    <3>1. PICK j \in Depths(th2) :
            /\ calls[th2][j].what = "task_blocking"
            /\ calls[th2][j].scheduler = r
            /\ calls[th2][j].task = i
      BY <3>0
    <3>2. ~(th2 = th /\ j = n)
      BY <1>1, <1>3, <3>1 DEF blocking, s, id
    <3>3. QED BY <1>1, <3>1, <3>2
  <2>3. QED BY <2>0, <2>1, <2>2 DEF IInv, UnfinishedTaskHasOwner
<1>10. QED BY <1>4, <1>5, <1>6, <1>7, <1>8, <1>9 DEF IInv

LEMMA ReturnStep ==
  ASSUME IInv, NEW th \in Threads, Return(th)
  PROVE  IInv'
<1>1. calls[th] # <<>> /\ Leave(th)
  BY DEF Return
<1>2. CASE /\ Last(th).what = "poll"
           /\ \E stage \in {"suspended", "over"} :
                future' = [future EXCEPT ![Last(th).future].stage = stage]
           /\ UNCHANGED <<next_task_id, finished>>
  BY <1>1, <1>2, ReturnWithFuture
<1>3. CASE /\ Last(th).what = "task_blocking"
           /\ finished' = finished \cup {<<Last(th).scheduler, Last(th).task>>}
           /\ UNCHANGED <<future, next_task_id>>
  BY <1>1, <1>3, ReturnWithoutFuture
<1>4. CASE Last(th).what = "with_scheduler" /\ UNCHANGED <<future, next_task_id, finished>>
  BY <1>1, <1>4, ReturnWithoutFuture
<1>5. CASE Last(th).what = "drop" /\ EndDrop(Last(th).future)
  BY <1>1, <1>5, ReturnWithFuture DEF EndDrop
<1>6. QED BY <1>2, <1>3, <1>4, <1>5 DEF Return

-----------------------------------------------------------------------------
LEMMA InitIInv == Init => IInv
<1>. SUFFICES ASSUME Init PROVE IInv
  OBVIOUS
<1>1. \A th \in Threads : calls[th] = <<>> /\ Len(calls[th]) = 0 /\ Depths(th) = {}
                          /\ current_task[th] = None
  <2>1. \A th \in Threads : calls[th] = <<>> /\ current_task[th] = None
    BY DEF Init
  <2>2. Len(<<>>) = 0 /\ 1..0 = {}
    OBVIOUS
  <2>3. QED BY <2>1, <2>2 DEF Depths
<1>2. TypeOK
  BY DEF Init, TypeOK, NoFuture
<1>3. CallsNest /\ CallsMatchFutures /\ OneCallPerFuture /\ OwnersOfCalls
  BY <1>1 DEF CallsNest, CallsMatchFutures, OneCallPerFuture, OwnersOfCalls
<1>4. InnermostAtAllDepths
  BY <1>1 DEF InnermostAtAllDepths, InnermostAt, TaskAt
<1>5. OwnersOfFutures /\ FinishedWereGiven
  BY DEF Init, OwnersOfFutures, FinishedWereGiven, NoFuture
<1>6. UnfinishedTaskHasOwner
  BY DEF Init, UnfinishedTaskHasOwner
<1>7. QED BY <1>2, <1>3, <1>4, <1>5, <1>6 DEF IInv

LEMMA StutterStep == IInv /\ UNCHANGED vars => IInv'
<1>. SUFFICES ASSUME IInv, UNCHANGED vars PROVE IInv'
  OBVIOUS
<1>1. UNCHANGED <<current_task, current_scheduler, calls, future, next_task_id, finished>>
  BY DEF vars
<1>2. CallsNest' /\ InnermostAtAllDepths'
  BY <1>1, SameContext DEF IInv
<1>3. TypeOK' /\ OwnersOfFutures' /\ FinishedWereGiven' /\ UnfinishedTaskHasOwner'
  <2>1. TypeOK'
    BY <1>1 DEF IInv, TypeOK
  <2>2. OwnersOfFutures' /\ FinishedWereGiven'
    BY <1>1 DEF IInv, OwnersOfFutures, FinishedWereGiven
  <2>3. UnfinishedTaskHasOwner'
    BY <1>1 DEF IInv, UnfinishedTaskHasOwner
  <2>4. QED BY <2>1, <2>2, <2>3
<1>4. \A th \in Threads : Depths(th)' = Depths(th)
  BY <1>1 DEF Depths
<1>5. CallsMatchFutures' /\ OneCallPerFuture' /\ OwnersOfCalls'
  BY <1>1, <1>4 DEF IInv, CallsMatchFutures, OneCallPerFuture, OwnersOfCalls
<1>6. QED BY <1>2, <1>3, <1>5 DEF IInv

LEMMA NextIInv == IInv /\ [Next]_vars => IInv'
BY CreateStep, PollStep, BeginDropStep, BlockingStep, WithSchedulerStep, ReturnStep, StutterStep
DEF Next

(* The innermost body is the one found at the depth where the thread is.   *)
LEMMA InnermostFromIInv == IInv => InnermostTaskIsCurrent
<1>. SUFFICES ASSUME IInv, NEW th \in Threads
              PROVE  LET c == calls[th]
                         bodies == {i \in DOMAIN c : c[i].task # None}
                     IN /\ bodies = {} => current_task[th] = None
                        /\ \A i \in bodies : (\A j \in bodies : j <= i) =>
                             /\ current_task[th] = c[i].task
                             /\ current_scheduler[th] = c[i].scheduler
  BY DEF InnermostTaskIsCurrent
<1> DEFINE c == calls[th]
           bodies == {i \in DOMAIN c : c[i].task # None}
<1>1. PICK n \in Nat : n = Len(c) /\ DOMAIN c = 1..n
  BY CallsType DEF IInv
<1>2. InnermostAt(th, n) /\ TaskAt(th, n) = current_task[th] /\ SchedulerAt(th, n) = current_scheduler[th]
  BY <1>1 DEF IInv, InnermostAtAllDepths, TaskAt, SchedulerAt
<1>3. CASE current_task[th] = None /\ \A i \in 1..n : c[i].task = None
  BY <1>1, <1>3
<1>4. ASSUME NEW k \in 1..n, c[k].task # None, \A j \in (k + 1)..n : c[j].task = None,
             current_task[th] = c[k].task, current_scheduler[th] = c[k].scheduler
      PROVE  /\ bodies # {}
             /\ \A i \in bodies : (\A j \in bodies : j <= i) => i = k
  <2>1. k \in bodies
    BY <1>1, <1>4
  <2>2. ASSUME NEW i \in bodies, k <= i, i # k
        PROVE  FALSE
    <3>1. i \in (k + 1)..n
      BY <1>1, <2>2
    <3>2. QED BY <1>4, <2>2, <3>1
  <2>3. QED BY <2>1, <2>2
<1>5. QED BY <1>2, <1>3, <1>4 DEF InnermostAt

(* A current task has a call that runs its body, and so an owner that has  *)
(* not reported its end.                                                   *)
LEMMA ReceiverFromIInv == IInv => ReceiverIsLive
<1>. SUFFICES ASSUME IInv, NEW th \in Threads, current_task[th] # None
              PROVE  /\ current_scheduler[th] # None
                     /\ current_task[th] < next_task_id[current_scheduler[th]]
                     /\ <<current_scheduler[th], current_task[th]>> \notin finished
  BY DEF ReceiverIsLive, Receiver
<1>1. PICK i \in Depths(th) : /\ calls[th][i].task # None
                              /\ current_task[th] = calls[th][i].task
                              /\ current_scheduler[th] = calls[th][i].scheduler
  <2>1. PICK n \in Nat : n = Len(calls[th])
    BY CallsType DEF IInv
  <2>2. InnermostAt(th, n) /\ TaskAt(th, n) = current_task[th] /\ SchedulerAt(th, n) = current_scheduler[th]
    BY <2>1 DEF IInv, InnermostAtAllDepths, TaskAt, SchedulerAt
  <2>3. QED BY <2>1, <2>2 DEF InnermostAt, Depths
<1> DEFINE c == calls[th][i]
<1>2. c \in Calls /\ c.what \in {"poll", "task_blocking", "with_scheduler", "drop"}
  BY CallsType DEF IInv, Calls
<1>3. c.what \in {"poll", "task_blocking"}
  BY <1>1, <1>2 DEF IInv, CallsMatchFutures
<1>4. CASE c.what = "poll"
  <2>1. PICK f \in Futures : /\ future[f].stage = "polled" /\ future[f].scheduler = c.scheduler
                             /\ future[f].task_id = c.task
    <3>1. /\ c.future \in Futures
          /\ future[c.future] = [stage |-> "polled", scheduler |-> c.scheduler, task_id |-> c.task]
      BY <1>4 DEF IInv, CallsMatchFutures
    <3>2. QED BY <3>1
  <2>2. /\ c.scheduler # None /\ c.task \in 1..(next_task_id[c.scheduler] - 1)
        /\ <<c.scheduler, c.task>> \notin finished
    BY <1>1, <2>1 DEF IInv, OwnersOfFutures
  <2>3. next_task_id[c.scheduler] \in Nat
    BY <2>1, <2>2, FutureType DEF IInv, TypeOK
  <2>4. QED BY <1>1, <2>2, <2>3
<1>5. CASE c.what = "task_blocking"
  <2>1. /\ c.scheduler # None /\ c.task \in 1..(next_task_id[c.scheduler] - 1)
        /\ <<c.scheduler, c.task>> \notin finished
    BY <1>5 DEF IInv, CallsMatchFutures, OwnersOfCalls
  <2>2. next_task_id[c.scheduler] \in Nat
    BY <1>2, <2>1 DEF IInv, TypeOK, Calls
  <2>3. QED BY <1>1, <2>1, <2>2
<1>6. QED BY <1>3, <1>4, <1>5

-----------------------------------------------------------------------------
(* Guards, calls and futures have their types, on any number of threads.   *)
THEOREM TypeCorrect == Spec => []TypeOK
<1>1. IInv => TypeOK
  BY DEF IInv
<1>2. QED BY <1>1, InitIInv, NextIInv, PTL DEF Spec

(* Code runs as the innermost task whose body it is in, however deep polls,*)
(* drops and blocking tasks are nested on however many threads.            *)
THEOREM InnermostTaskCurrent == Spec => []InnermostTaskIsCurrent
BY InnermostFromIInv, InitIInv, NextIInv, PTL DEF Spec

(* Nothing happens to a task that the scheduler has seen the end of.       *)
THEOREM ReceiversAreLive == Spec => []ReceiverIsLive
BY ReceiverFromIInv, InitIInv, NextIInv, PTL DEF Spec

(* Somebody will still report the end of every task that has not ended.    *)
THEOREM UnfinishedTasksOwned == Spec => []UnfinishedTaskHasOwner
<1>1. IInv => UnfinishedTaskHasOwner
  BY DEF IInv
<1>2. QED BY <1>1, InitIInv, NextIInv, PTL DEF Spec
=============================================================================
