---------------------------- MODULE MCScheduler ----------------------------
(* Instances of Scheduler for TLC. *)
EXTENDS Scheduler

(* Everything the registry can answer. *)
AnyAnswers == [TaskIds -> Deps]

(* Answers for three tasks as the crate's models give them: 3 waits for a  *)
(* lock of 2 and 2 for one of 1; all three have reached a barrier.         *)
TripleAnswers ==
  { <<ReadyAlone, ReadyWithOthers({1}), ReadyWithOthers({2})>>,
    <<ReadyWithOthers(TaskIds), ReadyWithOthers(TaskIds), ReadyWithOthers(TaskIds)>> }

(* For two: 2 is in a join, or holds a lock that 1 waits for. *)
PairAnswers ==
  { <<ReadyAlone, Blocked>>,
    <<ReadyWithOthers({2}), ReadyAlone>> }

NoReplays == {NoReplay}

OnePoint == [t \in TaskIds |-> 1]
TwoPointsAndOne == <<2, 1>>

(* Two tasks of one name ready, then the first comes back; one task ready  *)
(* that needs another.  Some executions follow a trace to its end, others  *)
(* diverge from it.  And none.                                             *)
PairReplays ==
  LET At(i) == [id |-> i, name |-> 1, position |-> "p"]
      Step(ready, resumed) == [ready_tasks |-> ready, resumed_tasks |-> resumed]
  IN { NoReplay,
       ReplayOf(<<Step({At(1), At(2)}, {1}), Step({At(1), At(2)}, {1, 2})>>),
       ReplayOf(<<Step({At(1)}, {1, 2})>>) }
=============================================================================
