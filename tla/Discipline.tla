----------------------------- MODULE Discipline -----------------------------
(***************************************************************************)
(* How a test has to use the primitives for the models to be right about   *)
(* them.  The tests in example-crates/test-examples show the pattern.  In  *)
(* mutex_ok.rs a task says that it is locking, is suspended, locks, and    *)
(* says so; it drops the guard and says so before it is suspended again.   *)
(* In rwlock.rs it says that it releases the lock before it drops it.      *)
(* The tests that keep to this are told by their code alone: each position *)
(* of a task has a label, what the task has said and done when it comes    *)
(* there.                                                                  *)
(***************************************************************************)
EXTENDS System

(* The way of a task through one mutex, and through one rwlock. *)
Phases == {"free", "asked", "waiting", "queued", "held", "dropped"}
RwPhases == {"free", "asked", "queued", "held", "released"}

Access(phase, mode) == [phase |-> phase, mode |-> mode]
NoAccess == Access("free", "Read")

OtherWaits == {"join", "unknown"}

GroupWaits ==
  {TaskWait!NoWait}
    \cup [kind : {"AnyN"}, task_group : TaskGroups, num_tasks : Nat]
    \cup [kind : {"Specific"}, task_group : TaskGroups, slot : Slots]

(* barrier is where the task says that it waits, came whether it has come  *)
(* to tokio's barrier too.                                                 *)
IsLabel(l) ==
  /\ l = [mutex |-> l.mutex, rwlock |-> l.rwlock, barrier |-> l.barrier, came |-> l.came,
          waits |-> l.waits, group |-> l.group]
  /\ l.mutex \in [MutexIds -> Phases]
  /\ l.rwlock \in [RwlockIds -> [phase : RwPhases, mode : Rwlock!Modes]]
  /\ l.barrier \in BarrierIds \cup {None}
  /\ l.came \in BOOLEAN
  /\ l.waits \subseteq OtherWaits
  /\ l.group \in GroupWaits

Idle ==
  [mutex |-> [m \in MutexIds |-> "free"], rwlock |-> [r \in RwlockIds |-> NoAccess],
   barrier |-> None, came |-> FALSE, waits |-> {}, group |-> TaskWait!NoWait]

(* The task has asked for the mutex and has not said that it has it. *)
Taking(l, m) == l.mutex[m] \in {"asked", "waiting", "queued"}

NoRwlock(l) == \A r \in RwlockIds : l.rwlock[r] = NoAccess

(* A task takes one mutex at a time, and waits for nothing else meanwhile. *)
(* It holds no rwlock while it takes a mutex or waits at a barrier.        *)
Sound(l) ==
  /\ IsLabel(l)
  /\ \A m \in MutexIds :
       Taking(l, m) => l.barrier = None /\ l.waits = {} /\ l.group = TaskWait!NoWait
                         /\ NoRwlock(l)
  /\ \A m, n \in MutexIds : Taking(l, m) /\ Taking(l, n) => m = n
  /\ l.barrier # None => NoRwlock(l)

(* What an event of the task adds to that. *)
MutexesAfter(mutex, e) ==
  CASE e.event = "LockingMutex" -> [mutex EXCEPT ![e.id] = "asked"]
    [] e.event = "LockedMutex" -> [mutex EXCEPT ![e.id] = "held"]
    [] e.event \in {"ReleasedMutex", "AbortedLockingMutex"} -> [mutex EXCEPT ![e.id] = "free"]
    [] OTHER -> mutex

RwlocksAfter(rwlock, e) ==
  CASE e.event = "LockingRwlock" -> [rwlock EXCEPT ![e.id] = Access("asked", e.arg)]
    [] e.event = "LockedRwlock" -> [rwlock EXCEPT ![e.id] = Access("held", e.arg)]
    [] e.event = "ReleasedRwlock" -> [rwlock EXCEPT ![e.id] = Access("released", e.arg)]
    [] e.event = "AbortedLockingRwlock" -> [rwlock EXCEPT ![e.id] = NoAccess]
    [] OTHER -> rwlock

BarrierAfter(barrier, e) ==
  CASE e.event = "WaitingForBarrier" -> e.id
    [] e.event = "CompletedBarrierWait" -> None
    [] OTHER -> barrier

WaitsAfter(waits, e) ==
  CASE e.event = "StartingJoin" -> waits \cup {"join"}
    [] e.event = "CompletedJoin" -> waits \ {"join"}
    [] e.event = "TaskWaitForUnknownStarted" -> waits \cup {"unknown"}
    [] e.event = "TaskWaitForUnknownCompleted" -> waits \ {"unknown"}
    [] OTHER -> waits

GroupAfter(group, e) ==
  CASE e.event = "TaskWaitAnyN" -> TaskWait!AnyN(e.id, e.arg)
    [] e.event = "TaskWaitNth" -> TaskWait!Specific(e.id, e.arg)
    [] e.event = "TaskWaitCompleted" -> TaskWait!NoWait
    [] OTHER -> group

AfterEvent(l, e) ==
  [mutex |-> MutexesAfter(l.mutex, e), rwlock |-> RwlocksAfter(l.rwlock, e),
   barrier |-> BarrierAfter(l.barrier, e), came |-> l.came /\ e.event # "CompletedBarrierWait",
   waits |-> WaitsAfter(l.waits, e), group |-> GroupAfter(l.group, e)]

MutexPhase(l, m, phase) == [l EXCEPT !.mutex[m] = phase]
RwlockAccess(l, r, access) == [l EXCEPT !.rwlock[r] = access]

(* From here on the scheduler decides when the task gets its mutex. *)
AfterPoint(l) ==
  [l EXCEPT !.mutex = [m \in MutexIds |-> IF @[m] = "asked" THEN "waiting" ELSE @[m]]]

After(l, o) ==
  CASE o.op = "sync_event" -> AfterEvent(l, o.event)
    [] o.op = "execution_point" -> AfterPoint(l)
    [] o.op = "execution_point_with_event" -> AfterPoint(AfterEvent(l, o.event))
    [] o.op = "barrier.wait" -> [l EXCEPT !.came = TRUE]
    [] o.op = "lock" /\ o.id \in MutexIds -> MutexPhase(l, o.id, "queued")
    [] o.op = "drop" /\ o.id \in MutexIds -> MutexPhase(l, o.id, "dropped")
    [] o.op = "lock" /\ o.id \in RwlockIds -> RwlockAccess(l, o.id, Access("queued", o.mode))
    [] o.op = "drop" /\ o.id \in RwlockIds -> RwlockAccess(l, o.id, NoAccess)
    [] OTHER -> l

(* An event follows what has been done; that a rwlock is released comes    *)
(* first.  Between saying that it waits for a barrier and that it has      *)
(* waited, the task says nothing else.                                     *)
PermitsEvent(l, e) ==
  /\ e.event \notin Watch!Events \cup {"AbortedWaitingForBarrier"}
  /\ e.event = "LockingMutex" => l.mutex[e.id] = "free"
  /\ e.event = "AbortedLockingMutex" => l.mutex[e.id] \in {"asked", "waiting"}
  /\ e.event = "LockedMutex" => l.mutex[e.id] = "queued"
  /\ e.event = "ReleasedMutex" => l.mutex[e.id] = "dropped"
  /\ e.event = "LockingRwlock" => l.rwlock[e.id] = NoAccess
  /\ e.event = "AbortedLockingRwlock" => l.rwlock[e.id] = Access("asked", e.arg)
  /\ e.event = "LockedRwlock" => l.rwlock[e.id] = Access("queued", e.arg)
  /\ e.event = "ReleasedRwlock" => l.rwlock[e.id] = Access("held", e.arg)
  /\ e.event = "StartingJoin" => "join" \notin l.waits
  /\ e.event = "CompletedJoin" => "join" \in l.waits
  /\ IF e.event = "CompletedBarrierWait" THEN l.barrier = e.id /\ l.came ELSE l.barrier = None

(* A suspended task has said all it has done. *)
AtRest(l) ==
  /\ \A m \in MutexIds : l.mutex[m] \in {"free", "waiting", "held"}
  /\ \A r \in RwlockIds : l.rwlock[r].phase \in {"free", "asked", "held"}

(* Where the task may fail it must not leave others behind a barrier or a  *)
(* rwlock that is recorded as its own.                                     *)
Permits(l, o) ==
  /\ o.op \notin {"select", "wait_for"}
  /\ o.op \in {"sync_event", "execution_point_with_event"} => PermitsEvent(l, o.event)
  /\ o.op \in {"execution_point", "execution_point_with_event"} => AtRest(After(l, o))
  /\ o.op = "barrier.wait" => o.id \in BarrierIds /\ l.barrier = o.id /\ ~l.came
  /\ o.op = "lock" =>
       /\ o.id \in MutexIds => l.mutex[o.id] = "waiting" /\ o.mode = "Write"
       /\ o.id \in RwlockIds => l.rwlock[o.id] = Access("asked", o.mode)
  /\ o.op = "drop" =>
       /\ o.id \in MutexIds => l.mutex[o.id] = "held"
       /\ o.id \in RwlockIds => l.rwlock[o.id].phase = "released"
  /\ o.op \in {"assert", "assert_value", "await"} => l.barrier = None /\ NoRwlock(l)

(* The labels of a task's positions, the last one that of its end. *)
LabelsOf(p, t) ==
  LET L[i \in 1..(Len(p.code[t]) + 1)] ==
        IF i = 1 THEN Idle ELSE After(L[i - 1], p.code[t][i - 1])
  IN L

DisciplinedTask(p, t) ==
  LET L == LabelsOf(p, t)
      end == Len(p.code[t]) + 1
  IN /\ L[1] = Idle
     /\ L[end] = Idle
     /\ \A i \in 1..end : Sound(L[i])
     /\ \A i \in 1..(end - 1) :
          LET o == p.code[t][i]
          IN /\ Permits(L[i], o)
             /\ L[i + 1] = After(L[i], o)
             /\ o.op = "loop" => L[i - o.back] = L[i]

TasksOf(p) == TaskIds \cap DOMAIN p.code

Disciplined(p) == \A t \in TasksOf(p) : DisciplinedTask(p, t)

-----------------------------------------------------------------------------
(* Whatever a test creates, a barrier or a group, exists before its users  *)
(* start.                                                                  *)
Says(o, name, id) ==
  /\ o.op \in {"sync_event", "execution_point_with_event"}
  /\ o.event.event = name
  /\ o.event.id = id

(* Tasks of S are spawned by each other, or where the actor has passed a   *)
(* place of `made'.                                                        *)
StartAfter(p, S, made) ==
  /\ Root \notin S
  /\ \A a \in DOMAIN p.code : \A i \in DOMAIN p.code[a] :
       p.code[a][i].op = "spawn" /\ p.code[a][i].tasks \cap S # {}
         => a \in S \/ \E k \in 1..(i - 1) : <<a, k>> \in made

Late(p, tasks, made) ==
  \E S \in SUBSET DOMAIN p.code : tasks \subseteq S /\ StartAfter(p, S, made)

(* A place of its code that a task passes once. *)
PassedOnce(p, a, i) ==
  \A j \in DOMAIN p.code[a] : p.code[a][j].op = "loop" => i \notin (j - p.code[a][j].back)..j

Announcements(p, t, b) == {i \in DOMAIN p.code[t] : Says(p.code[t][i], "WaitingForBarrier", b)}

BarrierUsers(p, b) == {t \in TasksOf(p) : Announcements(p, t, b) # {}}

MakesBarrier(o, b) == o.op = "StartBarrier::new" /\ o.event.id = b

BarrierMade(p, b) ==
  {x \in UNION {{a} \X DOMAIN p.code[a] : a \in DOMAIN p.code} :
     MakesBarrier(p.code[x[1]][x[2]], b)}

(* The capacity of a barrier is the number of its users, each of which     *)
(* goes there once.                                                        *)
BarrierPlanned(p, b) ==
  LET users == BarrierUsers(p, b) IN
  /\ IsFiniteSet(users)
  /\ Late(p, users, BarrierMade(p, b))
  /\ \A t \in users : \E i \in DOMAIN p.code[t] :
       Announcements(p, t, b) = {i} /\ PassedOnce(p, t, i)
  /\ \A a \in DOMAIN p.code : \A i \in DOMAIN p.code[a] :
       LET o == p.code[a][i]
       IN /\ MakesBarrier(o, b) => o.event = Ev("NewBarrier", b, Cardinality(users))
          /\ o.op = "sync_init_event" => o.event.event # "NewBarrier"

BarriersPlanned(p) == \A b \in BarrierIds : BarrierPlanned(p, b)

-----------------------------------------------------------------------------
(* Whatever a task waits for, a mutex or a barrier, it announces by the    *)
(* event of the point where it stops; between two points it is never       *)
(* blocked, and does not fail while it takes a mutex.  Waits for tasks, or *)
(* for what no model knows, are without a point and left out.              *)
PatientTask(p, t) ==
  LET L == LabelsOf(p, t)
      end == Len(p.code[t]) + 1
  IN /\ \A i \in 1..end :
          /\ \A m \in MutexIds : L[i].mutex[m] # "asked"
          /\ L[i].waits = {} /\ L[i].group = TaskWait!NoWait
     /\ \A i \in 1..(end - 1) :
          LET o == p.code[t][i]
          IN /\ o.op = "sync_event" => o.event.event # "WaitingForBarrier"
             /\ o.op \in {"assert", "assert_value", "await"} =>
                  \A m \in MutexIds : ~Taking(L[i], m)

Patient(p) == \A t \in TasksOf(p) : PatientTask(p, t)
=============================================================================
