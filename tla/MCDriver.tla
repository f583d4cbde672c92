------------------------------ MODULE MCDriver ------------------------------
(* Instances of Driver for TLC. *)
EXTENDS Driver, TestPrograms

Names ==
  << "a", "b", "bar", "c", "child a", "child b", "d", "fut 0", "fut 1", "fut 2",
     "inc1", "inc2", "leaf a", "leaf b", "main", "r1", "r2", "root", "spawn a",
     "spawn b", "w1" >>

(* rwlock.rs with two tasks less. *)
SmallRwlockProgram ==
  TestOf(1, WithBarrierOf(2, {2}), <<Task("r1", AtBarrier(Reader)), Task("w1", AtBarrier(Writer))>>)

(* Two tasks that take two locks in different orders may wait for each     *)
(* other for ever.  Each says what it waits for as it is suspended.        *)
LockAt(point, e, l) ==
  << ExecutionPointWithEvent(point, Ev("Locking" \o e, l, "Write")), Acquire(l, "Write"),
     SyncEvent(Ev("Locked" \o e, l, "Write")) >>

TakeMutex == LockAt("mutex", "Mutex", "m")
TakeRwlock == LockAt("rwlock", "Rwlock", "l")
DropBoth ==
  << DropGuard("m"), Released("m"),
     SyncEvent(Ev("ReleasedRwlock", "l", "Write")), DropGuard("l") >>

DeadlockingProgram ==
  TestOf(0, WithBarrierOf(2, {0}),
         << Task("a", AtBarrier(TakeMutex \o TakeRwlock \o DropBoth)),
            Task("b", AtBarrier(TakeRwlock \o TakeMutex \o DropBoth)) >>)

(* Two tasks that increment under a mutex; one is suspended once before.   *)
(* As in mutex_ok.rs, each says that it waits and only then is suspended.  *)
LateWaitProgram ==
  LET Inc == UnderMutex("m", "lock", "increment", FetchAdd, "unlock")
  IN TestOf(0, WithBarrierOf(2, {2}),
            << Task("a", AtBarrier(Inc)), Task("b", AtBarrier(<<ExecutionPoint("start")>> \o Inc)) >>)

LateWaitTests == {LateWaitProgram}

ReplayedTests ==
  {SimpleErrProgram, MutexErrProgram, SmallRwlockProgram, IncrementProgram, SpawnProgram,
   UnorderedProgram, SpawnBlockingProgram, JoinProgram(FALSE), DeadlockingProgram}

UnknownTests == {UnknownProgram}

(* A task of two fails while the other is suspended. *)
UnfinishedProgram ==
  TestOf(0, <<NewStartBarrier("b", 2), Spawn({1, 2}), Await({1}), Await({2})>>,
         << Task("a", AtBarrier(<<ExecutionPoint("a"), AssertValue({1})>>)),
            Task("b", AtBarrier(<<ExecutionPoint("b")>>)) >>)

UnfinishedTests == {UnfinishedProgram}

(* A test that fails before it has come to any decision. *)
EmptyProgram == TestOf(0, RunFirst \o <<AssertValue({1})>>, <<Task("a", <<>>)>>)

EmptyTests == {EmptyProgram}

(* Tests whose replay may diverge, and all whose replay is checked. *)
DivergingTests == {LateWaitProgram, UnfinishedProgram, UnknownProgram}

AllReplayedTests == ReplayedTests \cup DivergingTests
=============================================================================
