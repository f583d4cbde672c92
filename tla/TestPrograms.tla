---------------------------- MODULE TestPrograms ----------------------------
(***************************************************************************)
(* Programs for System: the tests in example-crates/test-examples and the  *)
(* handler of example-crates/restapi, operation by operation.  A point of  *)
(* the test's own code, outside of any task, does nothing and is left out. *)
(***************************************************************************)
EXTENDS System

Locking(m) == SyncEvent(Ev("LockingMutex", m, 0))
Locked(m) == SyncEvent(Ev("LockedMutex", m, 0))
Released(m) == SyncEvent(Ev("ReleasedMutex", m, 0))

(* mutex_ok.rs, do_inc: one locking, with what is done at each point, and  *)
(* the whole function.                                                     *)
UnderMutex(m, before, point, access, after) ==
  << Locking(m), ExecutionPoint(before), Acquire(m, "Write"), Locked(m),
     ExecutionPoint(point), access, ExecutionPoint(after), DropGuard(m), Released(m) >>

DoInc ==
  UnderMutex("m", "lock mutex for read", "read value", Load, "unlock mutex for read")
    \o UnderMutex("m", "lock mutex for write", "write value", Store, "unlock mutex for write")

(* The test of n tasks that wait for each other at a barrier. *)
WithBarrierOf(n, expected) ==
  <<NewStartBarrier("b", n), Spawn(1..n), Await(1..n), AssertValue(expected)>>

AtBarrier(body) == WithStartBarrier("b", body)

TwoIncs(body, expected) ==
  TestOf(1, WithBarrierOf(2, expected),
         <<Task("inc1", AtBarrier(body)), Task("inc2", AtBarrier(body))>>)

MutexProgram == TwoIncs(DoInc, {2, 3})

(* mutex_err.rs asserts that no increment is lost. *)
MutexErrProgram == TwoIncs(DoInc, {3})

(* mutex_unknown_err.rs: a mutex that no model knows. *)
UnderUnknownMutex(before, point, access, after) ==
  << ExecutionPoint(before),
     SyncEvent(Ev("TaskWaitForUnknownStarted", "none", 0)), Acquire("u", "Write"),
     SyncEvent(Ev("TaskWaitForUnknownCompleted", "none", 0)),
     ExecutionPoint(point), access, ExecutionPoint(after), DropGuard("u") >>

UnknownInc ==
  UnderUnknownMutex("lock mutex for read", "read value", Load, "unlock mutex for read")
    \o UnderUnknownMutex("lock mutex for write", "write value", Store, "unlock mutex for write")

UnknownProgram == TwoIncs(UnknownInc, {3})

(* simple_err.rs, simple_ok.rs, and the handler increment of restapi under *)
(* two requests.                                                           *)
TwoTasks(names, body, expected) ==
  TestOf(0, WithBarrierOf(2, expected),
         <<Task(names[1], AtBarrier(body)), Task(names[2], AtBarrier(body))>>)

LoadAndStore == <<ExecutionPoint("load"), Load, ExecutionPoint("store"), Store>>

SimpleErrProgram == TwoTasks(<<"bar", "bar">>, LoadAndStore, {2})

SimpleOkProgram ==
  TwoTasks(<<"bar", "bar">>,
           <<ExecutionPoint("load"), Load, ExecutionPoint("add"), FetchAdd>>, {2})

IncrementProgram == TwoTasks(<<"r1", "r2">>, LoadAndStore, {1, 2})

(* rwlock.rs, do_read and do_write: the event comes before the drop. *)
WithRwlock(mode, before, access, after) ==
  << SyncEvent(Ev("LockingRwlock", "l", mode)), ExecutionPoint(before), Acquire("l", mode),
     SyncEvent(Ev("LockedRwlock", "l", mode)) >>
    \o access
    \o << ExecutionPoint(after), SyncEvent(Ev("ReleasedRwlock", "l", mode)), DropGuard("l") >>

Reading(access) == WithRwlock("Read", "take read-lock", access, "release read-lock")

Reader == Reading(<<ExecutionPoint("read var"), Load>>)

Writer ==
  WithRwlock("Write", "take write-lock", <<ExecutionPoint("modify var"), FetchAdd>>,
             "release write-lock")

RwlockProgram ==
  TestOf(1, WithBarrierOf(4, {3}),
         << Task("r1", AtBarrier(Reader)), Task("r2", AtBarrier(Reader)),
            Task("w1", AtBarrier(Writer)), Task("w2", AtBarrier(Writer)) >>)

-----------------------------------------------------------------------------
(* The test's code when it runs one task, the first. *)
RunFirst == <<Spawn({1}), Await({1})>>

NewGroup(g) == SyncEvent(Ev("NewTaskGroup", g, 0))
Spawned(g, i) == SyncEvent(Ev("TaskSpawned", g, i))
WaitAnyN(g, n) == SyncEvent(Ev("TaskWaitAnyN", g, n))
WaitCompleted == SyncEvent(Ev("TaskWaitCompleted", "none", 0))

(* spawn.rs: a root task that spawns two children, each of which spawns a  *)
(* leaf.                                                                   *)
SpawnTwo(a, b, joined) ==
  << ExecutionPoint("before spawn"), NewStartBarrier("b", 2), NewGroup("g"),
     Spawn({a}), Spawn({b}), Spawned("g", 0), Spawned("g", 1), WaitAnyN("g", 2),
     Await({a, b}), WaitCompleted, ExecutionPoint(joined) >>

Child(g, leaf) ==
  << ExecutionPoint("a1"), NewGroup(g), Spawn({leaf}), Spawned(g, 0),
     WaitAnyN(g, 1), Await({leaf}), WaitCompleted, ExecutionPoint("a2") >>

InGroup(name, i, points) ==
  Task(name, WithTaskGroup("g", i, AtBarrier([k \in DOMAIN points |-> ExecutionPoint(points[k])])))

SpawnProgram ==
  TestOf(0, RunFirst,
         << Task("root", SpawnTwo(2, 3, "joined")),
            Task("child a", WithTaskGroup("g", 0, AtBarrier(Child("ga", 4)))),
            Task("child b", WithTaskGroup("g", 1, AtBarrier(Child("gb", 5)))),
            Task("leaf a", WithTaskGroup("ga", 0, <<ExecutionPoint("done")>>)),
            Task("leaf b", WithTaskGroup("gb", 0, <<ExecutionPoint("done")>>)) >>)

(* spawn_blocking.rs *)
SpawnBlockingProgram ==
  TestOf(0, RunFirst,
         << Task("bar", SpawnTwo(2, 3, "joined")),
            InGroup("spawn a", 0, <<"a1", "a2">>), InGroup("spawn b", 1, <<"b1", "b2">>) >>)

(* futures_unordered.rs: a task that drives three others.                  *)
Main ==
  << WaitAnyN("g", 3), Spawn(2..4), Await(2..4), WaitCompleted, ExecutionPoint("joined") >>

UnorderedProgram ==
  TestOf(0, <<SyncInitEvent(Ev("NewTaskGroup", "g", 0)), NewStartBarrier("b", 3)>> \o RunFirst,
         << Task("main", Main), InGroup("fut 0", 0, <<"a">>),
            InGroup("fut 1", 1, <<"a">>), InGroup("fut 2", 2, <<"a">>) >>)

(* join.rs: two tasks in a join!, then two in a select! with a timer, each *)
(* time with a barrier and a group of their own.                           *)
JoinThenSelect(timer) ==
  << ExecutionPoint("spawn tasks"), NewStartBarrier("b", 2), NewGroup("g"), WaitAnyN("g", 2),
     Spawn({2, 3}), Await({2, 3}), WaitCompleted, ExecutionPoint("joined"),
     ExecutionPoint("select start"), NewStartBarrier("bs", 2), NewGroup("gs"),
     WaitAnyN("gs", 1), Spawn({4, 5}), Select({4, 5}, timer), WaitCompleted,
     ExecutionPoint("selected") >>

Selected(name, i) ==
  Task(name, WithTaskGroup("gs", i, WithStartBarrier("bs", <<ExecutionPoint(name)>>)))

JoinProgram(timer) ==
  TestOf(0, RunFirst,
         << Task("bar", JoinThenSelect(timer)), InGroup("a", 0, <<"a">>),
            InGroup("b", 1, <<"b">>), Selected("c", 0), Selected("d", 1) >>)

(* watch.rs: the producer sends 0, 1, ... and the consumers wait for even  *)
(* numbers.  Sends is a bound, 10 in the code; the last number is odd.     *)
Sends == 4

Notified == SyncEvent(Ev("WatchNotified", "w", 0))

Sending(i) == <<ExecutionPoint("update"), Send("w", i), Notified>>

Producer ==
  LET All[n \in 0..Sends] == IF n = 0 THEN <<>> ELSE All[n - 1] \o Sending(n - 1)
  IN All[Sends] \o <<DropSender("w"), Notified>>

Consumer ==
  << ExecutionPoint("wait for"), WaitForEven("w"), ExecutionPoint("received update"),
     LoopBack(3) >>

WatchProgram ==
  TestOf(1, <<NewStartBarrier("b", 3), Spawn(1..3), Await(1..3)>>,
         << Task("producer", AtBarrier(Producer)), Task("consumer1", AtBarrier(Consumer)),
            Task("consumer2", AtBarrier(Consumer)) >>)
=============================================================================
