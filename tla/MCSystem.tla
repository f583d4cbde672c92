------------------------------ MODULE MCSystem ------------------------------
(* Instances of System for TLC: the tests of TestPrograms, and programs    *)
(* made to reach what those do not.                                        *)
EXTENDS TestPrograms, Discipline

(* Tests whose primitives all have a model, and whose assertions hold. *)
ModelledTests ==
  {MutexProgram, SimpleOkProgram, RwlockProgram, SpawnProgram, SpawnBlockingProgram,
   UnorderedProgram, JoinProgram(FALSE)}

(* A test that fails: 1 and 2 check assertions, 2 also waits for 1, which  *)
(* may have panicked, and releases a mutex it does not hold; 3 comes late  *)
(* to a barrier of two.                                                    *)
FailingProgram ==
  TestOf(0, << SyncInitEvent(Ev("NewTaskGroup", "g", 0)), NewStartBarrier("b", 2),
               Spawn({1, 2}), Await({1}), Spawn({3}), Await({2, 3}) >>,
         << Task("a", WithTaskGroup("g", 0, AtBarrier(<<ExecutionPoint("a"), Assert>>))),
            Task("b", AtBarrier(<< ExecutionPoint("b1"), Assert,
                                   SyncEvent(Ev("TaskWaitNth", "g", 0)), Await({1}),
                                   WaitCompleted, ExecutionPoint("b2"), Released("m") >>)),
            Task("c", AtBarrier(<<ExecutionPoint("c")>>)) >>)

(* In join.rs the timer may win, and watch.rs ends with tasks side by side.*)
HardTests == {UnknownProgram, FailingProgram, JoinProgram(TRUE), WatchProgram}

AllTests == ModelledTests \cup HardTests

(* All tests of the repository but the controlled select of join.rs and    *)
(* watch.rs are disciplined, and their barriers are planned: the theorems  *)
(* of DisciplineProofs are about them.  Where there are fewer tasks than a *)
(* test has, this says nothing of it.                                      *)
DisciplinedTests ==
  {MutexProgram, MutexErrProgram, UnknownProgram, SimpleOkProgram, SimpleErrProgram,
   IncrementProgram, RwlockProgram, SpawnProgram, SpawnBlockingProgram, UnorderedProgram}

ASSUME DisciplinedTestsAssumption ==
  \A p \in DisciplinedTests : WellFormed(p) => Disciplined(p) /\ BarriersPlanned(p)

(* Of those, the tests whose tasks announce all their waits at points.     *)
PatientTests == {SimpleOkProgram, SimpleErrProgram, IncrementProgram, RwlockProgram}

ASSUME PatientTestsAssumption == \A p \in PatientTests : WellFormed(p) => Patient(p)

SpawnAll(n) == <<Spawn(1..n), Await(1..n)>>

(* A reader waits for a mutex whose holder 1 is suspended, and a writer    *)
(* waits for the reader.  The program itself cannot deadlock.              *)
NestedProgram ==
  LET Nested == UnderMutex("m", "lock", "read", Load, "unlock")
  IN TestOf(0, SpawnAll(3),
            <<Task("a", Nested), Task("b", Reading(Nested)), Task("c", Writer)>>)

NestedTests == {NestedProgram}

(* A reader whose test fails while it holds the lock, and a writer.        *)
FailingReaderProgram ==
  TestOf(0, SpawnAll(2),
         << Task("a", Reading(<<ExecutionPoint("read var"), Assert>>)), Task("b", Writer) >>)

FailingReaderTests == {FailingReaderProgram}

(* A consumer of watch.rs, and a producer that sends odd numbers in a row. *)
OddWatchProgram ==
  TestOf(1, SpawnAll(2),
         << Task("producer", Sending(1) \o Sending(3) \o Sending(2)),
            Task("consumer", <<WaitForEven("w"), ExecutionPoint("received update")>>) >>)

OddWatchTests == {OddWatchProgram}

(* A task spawns two others into its group, gives the first up (a timeout, *)
(* an abort) perhaps before it has been polled, and waits for the second.  *)
UnstartedProgram ==
  TestOf(0, RunFirst,
         << Task("main", << NewGroup("g"), Spawn({2}), Spawned("g", 0), Select({2}, TRUE),
                            Spawn({3}), Spawned("g", 1), WaitAnyN("g", 1), Await({3}),
                            WaitCompleted >>),
            Task("a", WithTaskGroup("g", 0, <<ExecutionPoint("a")>>)),
            Task("b", WithTaskGroup("g", 1, <<ExecutionPoint("b")>>)) >>)

UnstartedTests == {UnstartedProgram}
=============================================================================
