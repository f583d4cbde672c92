------------------------ MODULE TransitiveDepsProofs ------------------------
(***************************************************************************)
(* The worklist loop of task_transitive_deps returns the set of the tasks  *)
(* reached from its argument, for any number of tasks and any answers.     *)
(***************************************************************************)
EXTENDS TransitiveDeps, ReadyTasksProofs

(* What the loop keeps: everything visited is reached, and the needs of a  *)
(* visited task are visited as soon as it is off the stack.                *)
LoopInv ==
  /\ result \in {NoResult, Blocked, ReadyWithOthers(visited)}
  /\ deps[task_id].blocked => result = Blocked
  /\ ~deps[task_id].blocked =>
       /\ result # Blocked
       /\ task_id \in visited
       /\ visited \subseteq Reach(deps, task_id)
       /\ \A t \in visited \ stack : Needs(deps, t) \subseteq visited
       /\ result # NoResult => stack = {}

IInv == TypeOK /\ LoopInv

LEMMA InitIInv == Init => IInv
<1>. SUFFICES ASSUME Init PROVE IInv
  OBVIOUS
<1>1. TypeOK
  BY DEF Init, TypeOK, Deps, NoResult, Blocked, ReadyWithOthers
<1>2. task_id \in Reach(deps, task_id)
  BY ReachHasTask DEF Init
<1>3. LoopInv
  BY <1>2 DEF Init, LoopInv, NoResult, Blocked, ReadyWithOthers
<1>4. QED BY <1>1, <1>3 DEF IInv

LEMMA NextIInv == IInv /\ [Next]_vars => IInv'
<1>. SUFFICES ASSUME IInv, [Next]_vars PROVE IInv'
  OBVIOUS
<1>1. ASSUME NEW t \in TaskIds, Visit(t) PROVE IInv'
  <2>1. Needs(deps, t) \subseteq TaskIds
    BY NeedsType DEF IInv, TypeOK
  <2>2. TypeOK'
    BY <1>1, <2>1 DEF Visit, Pushed, IInv, TypeOK
  <2>3. ~deps[task_id].blocked
    BY <1>1 DEF Visit, IInv, LoopInv, NoResult, Blocked
  <2>4. t \in visited /\ t \in Reach(deps, task_id)
    BY <1>1, <2>3 DEF Visit, IInv, TypeOK, LoopInv
  <2>5. Needs(deps, t) \subseteq Reach(deps, task_id)
    BY <2>4, ReachIsClosed DEF ClosedUnder, IInv, TypeOK
  <2>6. visited' \subseteq Reach(deps, task_id)
    BY <1>1, <2>3, <2>5 DEF Visit, IInv, LoopInv
  <2>7. ASSUME NEW u \in visited' \ stack'
        PROVE  Needs(deps, u) \subseteq visited'
    BY <1>1, <2>3, <2>7 DEF Visit, Pushed, IInv, LoopInv
  <2>8. LoopInv'
    BY <1>1, <2>3, <2>6, <2>7 DEF Visit, IInv, LoopInv, NoResult, Blocked
  <2>9. QED BY <2>2, <2>8 DEF IInv
<1>2. CASE Return
  <2>1. TypeOK'
    BY <1>2 DEF Return, IInv, TypeOK, Deps
  <2>2. LoopInv'
    BY <1>2 DEF Return, IInv, LoopInv, NoResult, Blocked, ReadyWithOthers
  <2>3. QED BY <2>1, <2>2 DEF IInv
<1>3. CASE UNCHANGED vars
  BY <1>3 DEF vars, IInv, TypeOK, LoopInv
<1>4. QED BY <1>1, <1>2, <1>3 DEF Next

LEMMA IInvImpliesResult == IInv => ResultIsReach
<1>. SUFFICES ASSUME IInv, result # NoResult, ~deps[task_id].blocked
              PROVE  result = ReadyWithOthers(Reach(deps, task_id))
  BY DEF IInv, LoopInv, ResultIsReach
<1>1. visited \subseteq TaskIds /\ ClosedUnder(deps, visited) /\ task_id \in visited
  BY DEF IInv, TypeOK, LoopInv, ClosedUnder
<1>2. Reach(deps, task_id) \subseteq visited
  BY <1>1, ReachIsSmallest DEF IInv, TypeOK
<1>3. visited = Reach(deps, task_id)
  BY <1>2 DEF IInv, LoopInv
<1>4. QED BY <1>3 DEF IInv, LoopInv

(* What is visited or pushed are tasks, and the answer is one of the       *)
(* registry's kind.                                                        *)
THEOREM TypeCorrect == Spec => []TypeOK
<1>1. IInv => TypeOK
  BY DEF IInv
<1>2. QED
  BY <1>1, InitIInv, NextIInv, PTL DEF Spec

(* What task_transitive_deps returns is exactly what is reached.  *)
THEOREM TransitiveDepsCorrect == Spec => []ResultIsReach
BY InitIInv, NextIInv, IInvImpliesResult, PTL DEF Spec
=============================================================================
