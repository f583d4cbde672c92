-------------------------- MODULE ReadyTasksProofs --------------------------
(***************************************************************************)
(* Facts about the choice of the tasks to resume, for any number of tasks  *)
(* and any answers of the synchronization models.                          *)
(***************************************************************************)
EXTENDS ReadyTasks, TLAPS

(* The registry may reduce the answers of its models in any order: merge   *)
(* is commutative and associative.                                         *)
THEOREM MergeCommutes ==
  ASSUME NEW a \in Deps, NEW b \in Deps
  PROVE  Merge(a, b) = Merge(b, a)
BY DEF Merge

(* ... nor which of them are reduced first. *)
THEOREM MergeAssociates ==
  ASSUME NEW a \in Deps, NEW b \in Deps, NEW c \in Deps
  PROVE  Merge(Merge(a, b), c) = Merge(a, Merge(b, c))
BY DEF Merge, Deps, Blocked, ReadyWithOthers

(* MergeAll of a set of answers is what reduce(merge) computes: one more   *)
(* answer is merged by one more call of merge.                             *)
THEOREM MergeAllStep ==
  ASSUME NEW answers \in SUBSET Deps, NEW a \in Deps
  PROVE  MergeAll(answers \cup {a}) = Merge(MergeAll(answers), a)
<1>1. CASE \E b \in answers \cup {a} : b.blocked
  BY <1>1 DEF MergeAll, Merge, Blocked, ReadyWithOthers
<1>2. CASE \A b \in answers \cup {a} : ~b.blocked
  <2>1. UNION {b.need : b \in answers \cup {a}} = (UNION {b.need : b \in answers}) \cup a.need
    OBVIOUS
  <2>2. /\ MergeAll(answers) = ReadyWithOthers(UNION {b.need : b \in answers})
        /\ MergeAll(answers \cup {a})
             = ReadyWithOthers(UNION {b.need : b \in answers \cup {a}})
    BY <1>2 DEF MergeAll
  <2>3. Merge(MergeAll(answers), a)
          = ReadyWithOthers((UNION {b.need : b \in answers}) \cup a.need)
    BY <1>2, <2>2 DEF Merge, ReadyWithOthers
  <2>4. QED BY <2>1, <2>2, <2>3
<1>3. QED BY <1>1, <1>2

-----------------------------------------------------------------------------
LEMMA NeedsType ==
  ASSUME NEW d \in [TaskIds -> Deps], NEW t \in TaskIds
  PROVE  Needs(d, t) \subseteq TaskIds
BY DEF Needs, Deps, Blocked, ReadyWithOthers

LEMMA ReachHasTask ==
  ASSUME NEW d, NEW t \in TaskIds
  PROVE  t \in Reach(d, t) /\ Reach(d, t) \subseteq TaskIds
BY DEF Reach

LEMMA ReachIsClosed ==
  ASSUME NEW d \in [TaskIds -> Deps], NEW t \in TaskIds
  PROVE  ClosedUnder(d, Reach(d, t))
<1>1. ASSUME NEW u \in Reach(d, t), NEW v \in Needs(d, u)
      PROVE  v \in Reach(d, t)
  <2>1. u \in TaskIds
    BY DEF Reach
  <2>2. v \in TaskIds
    BY <2>1, NeedsType
  <2>3. ASSUME NEW S \in SUBSET TaskIds, t \in S, ClosedUnder(d, S)
        PROVE  v \in S
    <3>1. u \in S
      BY <2>3 DEF Reach
    <3>2. QED BY <3>1, <2>3 DEF ClosedUnder
  <2>4. QED BY <2>2, <2>3 DEF Reach
<1>2. QED BY <1>1 DEF ClosedUnder

LEMMA ReachIsSmallest ==
  ASSUME NEW d, NEW t, NEW S \in SUBSET TaskIds, t \in S, ClosedUnder(d, S)
  PROVE  Reach(d, t) \subseteq S
BY DEF Reach

(* What a needed task needs is needed.  *)
LEMMA ReachIsTransitive ==
  ASSUME NEW d \in [TaskIds -> Deps], NEW t \in TaskIds, NEW u \in Reach(d, t)
  PROVE  Reach(d, u) \subseteq Reach(d, t)
BY ReachIsClosed, ReachHasTask, ReachIsSmallest

-----------------------------------------------------------------------------
(* One iteration of the control loop is enough: once the tasks that the    *)
(* running ones need are running, they need no others.                     *)
THEOREM AutoResumeSettles ==
  ASSUME NEW d \in [TaskIds -> Deps], NEW R \in SUBSET TaskIds, NEW Q, HasReady(d, R)
  PROVE  NothingToDo(d, R \cup NeedToRun(d, R), Q)
<1> DEFINE All == R \cup NeedToRun(d, R)
<1>1. HasReady(d, All)
  BY DEF HasReady, Unblocked
<1>2. ASSUME NEW t \in Unblocked(d, All)
      PROVE  Reach(d, t) \subseteq All
  <2>1. CASE t \in R
    BY <2>1 DEF Unblocked, NeedToRun
  <2>2. CASE t \notin R
    <3>1. PICK u \in Unblocked(d, R) : t \in Reach(d, u)
      BY <2>2 DEF Unblocked, NeedToRun
    <3>2. u \in TaskIds
      BY DEF Unblocked
    <3>3. Reach(d, t) \subseteq Reach(d, u)
      BY <3>1, <3>2, ReachIsTransitive
    <3>4. QED BY <3>3 DEF NeedToRun
  <2>3. QED BY <2>1, <2>2
<1>3. NeedToRun(d, All) = {}
  BY <1>2 DEF NeedToRun
<1>4. QED BY <1>1, <1>3 DEF NothingToDo

(* The same for a decision: when the tasks of one choice have been         *)
(* resumed, nothing is left to resume or to decide.                        *)
THEOREM DecisionSettles ==
  ASSUME NEW d \in [TaskIds -> Deps], NEW R \in SUBSET TaskIds,
         NEW Q \in SUBSET TaskIds, Q \cap R = {}, ~HasReady(d, R),
         NEW S \in Choices(d, R, Q), NEW Q2
  PROVE  NothingToDo(d, R \cup S, Q2)
<1>1. PICK t \in Unblocked(d, Q) : S = Reach(d, t) \ R
  BY DEF Choices
<1>2. t \in TaskIds /\ t \in Q /\ ~d[t].blocked
  BY DEF Unblocked
<1>3. t \in S
  BY <1>1, <1>2, ReachHasTask
<1>4. HasReady(d, R \cup S)
  BY <1>2, <1>3 DEF HasReady, Unblocked
<1>5. ASSUME NEW u \in Unblocked(d, R \cup S)
      PROVE  Reach(d, u) \subseteq R \cup S
  <2>1. u \in Reach(d, t)
    BY <1>1 DEF Unblocked, HasReady
  <2>2. Reach(d, u) \subseteq Reach(d, t)
    BY <2>1, <1>2, ReachIsTransitive
  <2>3. QED BY <2>2, <1>1
<1>6. NeedToRun(d, R \cup S) = {}
  BY <1>5 DEF NeedToRun
<1>7. QED BY <1>4, <1>6 DEF NothingToDo

(* register_task may leave the control loop asleep: a new running task,    *)
(* which waits for nobody, gives it nothing to do.                         *)
THEOREM RegistrationSettles ==
  ASSUME NEW d \in [TaskIds -> Deps], NEW R \in SUBSET TaskIds, NEW Q,
         NEW t \in TaskIds, d[t] = ReadyAlone, NothingToDo(d, R, Q), NEW Q2
  PROVE  NothingToDo(d, R \cup {t}, Q2)
<1>1. ~d[t].blocked /\ Needs(d, t) = {}
  BY DEF ReadyAlone, ReadyWithOthers, Needs
<1>2. HasReady(d, R \cup {t})
  BY <1>1 DEF HasReady, Unblocked
<1>3. Reach(d, t) \subseteq {t}
  <2>1. ClosedUnder(d, {t})
    BY <1>1 DEF ClosedUnder
  <2>2. QED BY <2>1, ReachIsSmallest
<1>4. ASSUME NEW u \in Unblocked(d, R)
      PROVE  Reach(d, u) \subseteq R
  BY DEF NothingToDo, NeedToRun, HasReady, Unblocked
<1>5. NeedToRun(d, R \cup {t}) = {}
  BY <1>3, <1>4 DEF NeedToRun, Unblocked
<1>6. QED BY <1>2, <1>5 DEF NothingToDo
=============================================================================
