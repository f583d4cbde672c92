-------------------------- MODULE DisciplineProofs --------------------------
(***************************************************************************)
(* In a test that uses the primitives as Discipline says, for any number   *)
(* of tasks, mutexes, rwlocks and barriers, the models of the locks are    *)
(* exact wherever a task is suspended, the control loop never finds a task *)
(* that it cannot resume, and no model refuses an event.  Where the tasks  *)
(* announce all their waits at points, one decision is made at a time.     *)
(***************************************************************************)
EXTENDS Discipline, SystemProofs, FunctionTheorems, SequenceTheorems

(* What is asked of the tests; MCSystem shows it of those of the repository. *)
AllDisciplined == \A p \in Programs : Disciplined(p)

(* The tasks of the test that have not panicked, and what their code says  *)
(* of where they are.  To the rwlocks and barriers a task that panicked is *)
(* one that uses none.                                                     *)
Alive == Tasks \ panicked

Label(t) == LabelsOf(program, t)[ip[t]]
Phase(t, m) == Label(t).mutex[m]

Way(t) == IF t \in Alive THEN Label(t) ELSE Idle

(* The control loop lives; a task that is Ready is suspended and has said  *)
(* what it has done; one that ended or panicked does nothing more.         *)
Living ==
  /\ ~dead
  /\ \A t \in Tasks :
       /\ state[t] = "none" => ip[t] = 1 /\ t \in Alive
       /\ state[t] = "Finished" => AtEnd(t)
       /\ state[t] = "Ready" => t \in Alive /\ AtRest(Label(t))
       /\ t \notin Alive => AtEnd(t)

(* The mutex model knows what a task has said. *)
MutexesOf(t, l) ==
  \A m \in MutexIds :
    /\ m \in mutex_waiting[t] <=> Taking(l, m)
    /\ mutex_held_by[m] = t <=> l.mutex[m] \in {"held", "dropped"}

MutexesKnown ==
  /\ \A t \in Alive : MutexesOf(t, Label(t))
  /\ \A m \in MutexIds : mutex_held_by[m] \in Tasks \cup {None}

Entry(t) == [task |-> t, mode |-> "Write"]

InQueue(l, m) == l.mutex[m] \in {"queued", "held"}

(* A mutex of tokio has at most one task in its queue. *)
QueuesKnown ==
  /\ DOMAIN queue = Locks
  /\ \A m \in MutexIds :
       /\ \A t \in Alive : InQueue(Label(t), m) => queue[m] = <<Entry(t)>>
       /\ queue[m] # <<>> => \E t \in Alive : InQueue(Label(t), m) /\ queue[m] = <<Entry(t)>>

(* At most one task is on its way to a mutex without asking the scheduler  *)
(* again, or has it, or is recorded to have it.                            *)
Owns(t, m) ==
  IF t \in Alive
  THEN \/ Phase(t, m) \in {"queued", "held", "dropped"}
       \/ Phase(t, m) = "waiting" /\ state[t] = "Running"
  ELSE mutex_held_by[m] = t

Exclusive == \A m \in MutexIds, t, u \in Tasks : Owns(t, m) /\ Owns(u, m) => t = u

(* The way of every task through a rwlock, what the model knows of it, and *)
(* what tokio's queue does.                                                *)
Accesses(r) == [t \in TaskIds |-> Way(t).rwlock[r]]

Wants(access, mode) == access.phase \in {"asked", "queued"} /\ access.mode = mode

ModelOf(r, A) ==
  \A t \in TaskIds :
    /\ \A mode \in Rwlock!Modes : <<r, mode>> \in rwlock_waiting[t] <=> Wants(A[t], mode)
    /\ t \in rwlock_held_by[r].tasks <=> A[t].phase = "held"
    /\ A[t].phase = "held" => rwlock_held_by[r].mode = A[t].mode

Entries == [task : TaskIds, mode : Rwlock!Modes]

Line(q, i) == i = 1 \/ \A j \in 1..i : q[j].mode = "Read"

GrantedIn(q, t) == \E i \in DOMAIN q : q[i].task = t /\ Line(q, i)

QueueOf(q, A) ==
  /\ q \in Seq(Entries)
  /\ \A i \in DOMAIN q :
       LET access == A[q[i].task]
       IN access.phase \in {"queued", "held", "released"} /\ access.mode = q[i].mode
  /\ \A i, j \in DOMAIN q : q[i].task = q[j].task => i = j
  /\ \A t \in TaskIds :
       /\ A[t].phase \in {"queued", "held", "released"} => \E i \in DOMAIN q : q[i].task = t
       /\ A[t].phase \in {"held", "released"} => GrantedIn(q, t)

RwlocksKnown ==
  \A r \in RwlockIds : ModelOf(r, Accesses(r)) /\ QueueOf(queue[r], Accesses(r))

(* Whoever is recorded at a barrier waits there and will come out of it. *)
BarriersKnown ==
  /\ \A t \in TaskIds : barrier_waiting[t] = Way(t).barrier
  /\ \A b \in BarrierIds :
       /\ \A t \in TaskIds : t \in barriers[b].tasks <=> barrier_waiting[t] = b
       /\ barriers[b].tasks # {} => Barrier!Exists(b)

(* No watch is used; the other waits are those that were announced. *)
OthersOf(t, l) ==
  /\ t \in is_in_join <=> "join" \in l.waits
  /\ t \in blocked_tasks <=> "unknown" \in l.waits
  /\ task_waits[t] = l.group

OthersKnown ==
  /\ \A t \in TaskIds : watch_tasks[t] = None
  /\ \A t \in Alive : OthersOf(t, Label(t))

(* In a test that uses the primitives as the module Discipline says. *)
Disciplines ==
  /\ Living /\ MutexesKnown /\ QueuesKnown /\ Exclusive
  /\ RwlocksKnown /\ BarriersKnown /\ OthersKnown

IInv == TestIInv /\ Disciplines

(* Discipline of the code, seen by a task on its way through it. *)
LEMMA LabelsFollow ==
  ASSUME AllDisciplined, Placed, NEW t \in Tasks
  PROVE  /\ Sound(Label(t))
         /\ ip[t] = 1 \/ AtEnd(t) => Label(t) = Idle
         /\ CanStep(t) =>
              /\ Permits(Label(t), Op(t))
              /\ LabelsOf(program, t)[ip[t] + 1] = After(Label(t), Op(t))
              /\ Sound(After(Label(t), Op(t)))
              /\ Op(t).op = "loop" => LabelsOf(program, t)[ip[t] - Op(t).back] = Label(t)
<1> DEFINE L == LabelsOf(program, t)
           end == Len(program.code[t]) + 1
<1>1. /\ L[1] = Idle
      /\ L[end] = Idle
      /\ \A i \in 1..end : Sound(L[i])
      /\ \A i \in 1..(end - 1) :
           /\ Permits(L[i], program.code[t][i])
           /\ L[i + 1] = After(L[i], program.code[t][i])
           /\ program.code[t][i].op = "loop" => L[i - program.code[t][i].back] = L[i]
  BY DEF AllDisciplined, Placed, Tasks, TasksOf, Disciplined, DisciplinedTask
<1>2. ip[t] \in 1..end /\ end \in Nat
  BY CodeType DEF Placed, Tasks, Actors, End
<1> HIDE DEF L
<1>3. Label(t) = L[ip[t]]
  BY DEF Label, L
<1>4. ASSUME CanStep(t)
      PROVE  ip[t] \in 1..(end - 1) /\ Op(t) = program.code[t][ip[t]]
  BY <1>4, StepHasOp DEF Tasks, Actors
<1>5. AtEnd(t) => ip[t] = end
  BY DEF AtEnd, End
<1>6. Sound(Label(t)) /\ (ip[t] = 1 \/ AtEnd(t) => Label(t) = Idle)
  BY <1>1, <1>2, <1>3, <1>5
<1>7. ASSUME CanStep(t)
      PROVE  /\ Permits(Label(t), Op(t))
             /\ L[ip[t] + 1] = After(Label(t), Op(t))
             /\ Sound(After(Label(t), Op(t)))
             /\ Op(t).op = "loop" => L[ip[t] - Op(t).back] = Label(t)
  <2>1. ip[t] \in 1..(end - 1) /\ ip[t] + 1 \in 1..end /\ Op(t) = program.code[t][ip[t]]
    BY <1>2, <1>4, <1>7
  <2> HIDE DEF Op, end
  <2>2. Permits(L[ip[t]], Op(t)) /\ L[ip[t] + 1] = After(L[ip[t]], Op(t))
    BY <1>1, <2>1
  <2>3. Op(t).op = "loop" => L[ip[t] - Op(t).back] = L[ip[t]]
    BY <1>1, <2>1
  <2>4. Sound(L[ip[t] + 1])
    BY <1>1, <2>1
  <2>5. QED
    BY <1>3, <2>2, <2>3, <2>4
<1>8. QED
  BY <1>6, <1>7 DEF L

-----------------------------------------------------------------------------
(* What happens to the queue of a mutex, which is empty or has one task.   *)
LEMMA LeaveEmpty == ASSUME NEW S PROVE LeaveQueue(<<>>, S) = <<>>
<1> DEFINE q == <<>>
           left == {i \in DOMAIN q : q[i].task \notin S}
           Place(i) == Cardinality({j \in left : j <= i})
           At(k) == CHOOSE i \in left : Place(i) = k
<1>1. left = {}
  OBVIOUS
<1>2. LeaveQueue(q, S) = [k \in 1..Cardinality(left) |-> q[At(k)]]
  BY DEF LeaveQueue
<1> HIDE DEF left, Place, At
<1>3. 1..Cardinality(left) = {}
  <2>1. Cardinality(left) = 0
    BY <1>1, FS_EmptySet
  <2>2. QED
    BY <2>1
<1>4. [k \in {} |-> q[At(k)]] = <<>>
  OBVIOUS
<1>5. QED
  BY <1>2, <1>3, <1>4

LEMMA LeaveOne ==
  ASSUME NEW S, NEW e
  PROVE  LeaveQueue(<<e>>, S) = IF e.task \in S THEN <<>> ELSE <<e>>
<1> DEFINE q == <<e>>
           left == {i \in DOMAIN q : q[i].task \notin S}
           Place(i) == Cardinality({j \in left : j <= i})
           At(k) == CHOOSE i \in left : Place(i) = k
<1>1. DOMAIN q = {1} /\ q[1] = e
  OBVIOUS
<1>2. LeaveQueue(q, S) = [k \in 1..Cardinality(left) |-> q[At(k)]]
  BY DEF LeaveQueue
<1>3. CASE e.task \in S
  <2>1. left = {}
    BY <1>1, <1>3
  <2> HIDE DEF left, Place, At
  <2>2. 1..Cardinality(left) = {}
    <3>1. Cardinality(left) = 0
      BY <2>1, FS_EmptySet
    <3>2. QED
      BY <3>1
  <2>3. [k \in {} |-> q[At(k)]] = <<>>
    OBVIOUS
  <2>4. QED
    BY <1>2, <1>3, <2>2, <2>3
<1>4. CASE e.task \notin S
  <2>1. left = {1}
    BY <1>1, <1>4
  <2>2. Cardinality({1}) = 1
    BY FS_Singleton
  <2>3. Place(1) = 1
    <3>1. {j \in left : j <= 1} = {1}
      BY <2>1
    <3>2. QED
      BY <2>2, <3>1
  <2> HIDE DEF left, Place
  <2>4. At(1) = 1
    BY <2>1, <2>3
  <2> HIDE DEF At
  <2>5. 1..Cardinality(left) = {1}
    BY <2>1, <2>2
  <2>6. [k \in {1} |-> q[At(k)]] = <<e>>
    BY <1>1, <2>4
  <2>7. QED
    BY <1>2, <1>4, <2>5, <2>6
<1>5. QED
  BY <1>3, <1>4

-----------------------------------------------------------------------------
(* The queue of a rwlock. *)
Left(q, leaving) == {i \in DOMAIN q : q[i].task \notin leaving}

(* Where each entry of r stood in q, when the entries at `left' stay. *)
Keeps(r, q, left, from) ==
  /\ from \in [DOMAIN r -> left]
  /\ \A k \in DOMAIN r : r[k] = q[from[k]]
  /\ \A i \in left : \E k \in DOMAIN r : from[k] = i
  /\ \A j, k \in DOMAIN r : from[j] <= from[k] <=> j <= k

(* What is left of a queue stands in the order in which it stood.  *)
LEMMA LeaveQueueKeeps ==
  ASSUME NEW S, NEW q \in Seq(S), NEW leaving
  PROVE  /\ LeaveQueue(q, leaving) \in Seq(S)
         /\ \E from : Keeps(LeaveQueue(q, leaving), q, Left(q, leaving), from)
         /\ Left(q, leaving) = DOMAIN q => LeaveQueue(q, leaving) = q
<1> DEFINE left == {i \in DOMAIN q : q[i].task \notin leaving}
           Place(i) == Cardinality({j \in left : j <= i})
           n == Cardinality(left)
           from == [k \in 1..n |-> CHOOSE i \in left : Place(i) = k]
           r == LeaveQueue(q, leaving)
<1>1. DOMAIN q = 1..Len(q) /\ Len(q) \in Nat /\ \A i \in DOMAIN q : q[i] \in S
  OBVIOUS
<1>2. IsFiniteSet(left) /\ n \in Nat /\ left \subseteq 1..Len(q)
  <2>1. left \subseteq 1..Len(q)
    BY <1>1
  <2>2. IsFiniteSet(1..Len(q))
    BY <1>1, FS_Interval
  <2>3. QED
    BY <2>1, <2>2, FS_Subset, FS_CardinalityType
<1>3. r = [k \in 1..n |-> q[from[k]]]
  <2>1. r = [k \in 1..n |-> q[CHOOSE i \in left : Place(i) = k]]
    BY DEF LeaveQueue
  <2>2. QED
    BY <2>1
<1>4. ASSUME NEW i \in left
      PROVE  Place(i) \in 1..n
  <2>1. {j \in left : j <= i} \subseteq left /\ i \in {j \in left : j <= i}
    BY <1>2
  <2>2. IsFiniteSet({j \in left : j <= i}) /\ Place(i) <= n /\ Place(i) \in Nat
    <3> HIDE DEF left
    <3>1. QED
      BY <1>2, <2>1, FS_Subset, FS_CardinalityType
  <2>3. Place(i) # 0
    <3> HIDE DEF left
    <3>1. QED
      BY <2>1, <2>2, FS_EmptySet
  <2>4. QED
    BY <1>2, <2>2, <2>3
<1>5. ASSUME NEW i \in left, NEW j \in left, i < j
      PROVE  Place(i) < Place(j)
  <2> DEFINE A == {k \in left : k <= i}
             B == {k \in left : k <= j}
  <2>1. A \subseteq B /\ j \in B /\ j \notin A
    BY <1>2, <1>5
  <2>2. IsFiniteSet(B)
    <3>1. B \subseteq left
      OBVIOUS
    <3> HIDE DEF left, B
    <3>2. QED
      BY <1>2, <3>1, FS_Subset
  <2> HIDE DEF A, B
  <2>3. Cardinality(A) < Cardinality(B)
    <3>1. A # B /\ Cardinality(A) \in Nat /\ Cardinality(B) \in Nat
      BY <2>1, <2>2, FS_Subset, FS_CardinalityType
    <3>2. QED
      BY <2>1, <2>2, <3>1, FS_Subset
  <2>4. QED
    BY <2>3 DEF A, B
<1> HIDE DEF Place, from, r
<1>6. ASSUME NEW k \in 1..n
      PROVE  \E i \in left : Place(i) = k
  <2> DEFINE f == [i \in left |-> Place(i)]
  <2>1. f \in [left -> 1..n]
    BY <1>4
  <2>2. \A i, j \in left : f[i] = f[j] => i = j
    <3>1. \A i \in left : Place(i) \in Int /\ i \in Int
      BY <1>2, <1>4
    <3>2. \A i, j \in left : Place(i) = Place(j) => ~(i < j) /\ ~(j < i)
      BY <1>5, <3>1
    <3>3. QED
      BY <3>1, <3>2
  <2>3. IsFiniteSet(1..n) /\ Cardinality(1..n) = n
    BY <1>2, FS_Interval
  <2> HIDE DEF f, left
  <2>4. f \in Injection(left, 1..n)
    <3> DEFINE T == 1..n
    <3> HIDE DEF T
    <3>1. f \in [left -> T]
      BY <2>1 DEF T
    <3>2. f \in Injection(left, T)
      BY <3>1, <2>2, Fun_IsInj
    <3>3. QED
      BY <3>2 DEF T
  <2>5. f \in Surjection(left, 1..n)
    <3> DEFINE T == 1..n
    <3>1. IsFiniteSet(T) /\ Cardinality(T) = Cardinality(left) /\ f \in Injection(left, T)
      BY <2>3, <2>4 DEF n
    <3> HIDE DEF T, n
    <3>2. f \in Surjection(left, T)
      BY <1>2, <3>1, FS_Injection
    <3>3. QED
      BY <3>2 DEF T
  <2>6. \A m \in 1..n : \E i \in left : f[i] = m
    <3> DEFINE T == 1..n
    <3>1. f \in Surjection(left, T)
      BY <2>5
    <3> HIDE DEF T
    <3>2. \A m \in T : \E i \in left : f[i] = m
      BY <3>1, Fun_SurjectionProperties
    <3>3. QED
      BY <3>2 DEF T
  <2>7. QED
    BY <2>6 DEF f
<1>7. ASSUME NEW k \in 1..n
      PROVE  from[k] \in left /\ Place(from[k]) = k
  BY <1>6 DEF from
<1>8. DOMAIN r = 1..n /\ DOMAIN from = 1..n
  BY <1>3 DEF from
<1>9. from \in [DOMAIN r -> left]
  BY <1>7, <1>8 DEF from
<1>10. \A k \in DOMAIN r : r[k] = q[from[k]]
  BY <1>3, <1>8
<1>11. r \in Seq(S)
  <2>1. \A k \in 1..n : q[from[k]] \in S
    BY <1>1, <1>2, <1>7
  <2> HIDE DEF n
  <2>2. QED
    BY <1>2, <1>3, <2>1
<1>12. ASSUME NEW i \in left
       PROVE  from[Place(i)] = i
  <2>1. Place(i) \in 1..n
    BY <1>4
  <2>2. from[Place(i)] \in left /\ Place(from[Place(i)]) = Place(i)
    BY <1>7, <2>1
  <2>3. ~(from[Place(i)] < i) /\ ~(i < from[Place(i)])
    BY <1>2, <1>4, <1>5, <2>1, <2>2
  <2>4. QED
    BY <1>2, <2>2, <2>3
<1>13. \A i \in left : \E k \in DOMAIN r : from[k] = i
  BY <1>4, <1>8, <1>12
<1>14. ASSUME NEW j \in DOMAIN r, NEW k \in DOMAIN r
       PROVE  from[j] <= from[k] <=> j <= k
  <2>1. /\ from[j] \in left /\ from[k] \in left /\ Place(from[j]) = j /\ Place(from[k]) = k
        /\ j \in Int /\ k \in Int
    BY <1>2, <1>7, <1>8
  <2>2. from[j] \in Int /\ from[k] \in Int
    BY <1>2, <2>1
  <2>3. CASE from[j] < from[k]
    BY <1>5, <2>1, <2>2, <2>3
  <2>4. CASE from[k] < from[j]
    BY <1>5, <2>1, <2>2, <2>4
  <2>5. CASE from[j] = from[k]
    BY <2>1, <2>5
  <2>6. QED
    BY <2>2, <2>3, <2>4, <2>5
<1>15. ASSUME left = DOMAIN q
       PROVE  r = q
  <2>1. n = Len(q) /\ left = 1..n
    <3>1. Cardinality(1..Len(q)) = Len(q)
      BY <1>1, FS_Interval
    <3> HIDE DEF left
    <3>2. QED
      BY <1>1, <1>15, <3>1
  <2> HIDE DEF left, n
  <2>2. ASSUME NEW i \in 1..n
        PROVE  Place(i) = i
    <3>1. {j \in left : j <= i} = 1..i /\ i \in Nat
      BY <1>2, <2>1
    <3>2. Cardinality(1..i) = i
      BY <3>1, FS_Interval
    <3>3. QED
      BY <3>1, <3>2 DEF Place
  <2>3. \A i \in 1..n : from[i] = i
    BY <1>1, <1>12, <1>15, <2>1, <2>2
  <2>4. \A i \in 1..n : r[i] = q[i]
    BY <1>8, <1>10, <2>3
  <2>5. Len(r) = Len(q) /\ r \in Seq(S)
    BY <1>2, <1>8, <1>11, <2>1
  <2>6. QED
    BY <2>1, <2>4, <2>5
<1>16. left = Left(q, leaving)
  BY DEF left, Left
<1>17. Keeps(r, q, left, from)
  BY <1>9, <1>10, <1>13, <1>14 DEF Keeps
<1>18. QED
  BY <1>11, <1>15, <1>16, <1>17 DEF r

(* What stands in a queue.  *)
LEMMA QueueType ==
  ASSUME NEW q, NEW A, QueueOf(q, A)
  PROVE  /\ q \in Seq(Entries) /\ DOMAIN q = 1..Len(q) /\ Len(q) \in Nat
         /\ \A i \in DOMAIN q : q[i].task \in TaskIds /\ q[i].mode \in Rwlock!Modes
<1>1. q \in Seq(Entries)
  BY DEF QueueOf
<1>2. DOMAIN q = 1..Len(q) /\ Len(q) \in Nat /\ \A i \in DOMAIN q : q[i] \in Entries
  BY <1>1
<1>3. QED
  BY <1>1, <1>2 DEF Entries

(* Two tasks that have the lock both read.  *)
LEMMA SharedLock ==
  ASSUME NEW q, NEW A, QueueOf(q, A), NEW t \in TaskIds, NEW u \in TaskIds, t # u,
         GrantedIn(q, t), GrantedIn(q, u)
  PROVE  A[t].mode = "Read" /\ A[u].mode = "Read"
<1>1. PICK i \in DOMAIN q : q[i].task = t /\ Line(q, i)
  BY DEF GrantedIn
<1>2. PICK j \in DOMAIN q : q[j].task = u /\ Line(q, j)
  BY DEF GrantedIn
<1>3. i \in Nat /\ j \in Nat /\ i >= 1 /\ j >= 1 /\ i # j
  BY <1>1, <1>2, QueueType
<1>4. A[t].mode = q[i].mode /\ A[u].mode = q[j].mode
  BY <1>1, <1>2 DEF QueueOf
<1>5. q[i].mode = "Read" /\ q[j].mode = "Read"
  BY <1>1, <1>2, <1>3 DEF Line
<1>6. QED
  BY <1>4, <1>5

InLine(access) == access.phase \in {"queued", "held", "released"}

(* The way of one task changes, its place in the queue does not.  *)
LEMMA QueueStays ==
  ASSUME NEW q, NEW A, QueueOf(q, A), NEW t \in TaskIds, NEW B,
         \A u \in TaskIds \ {t} : B[u] = A[u],
         \/ ~InLine(A[t]) /\ ~InLine(B[t])
         \/ InLine(A[t]) /\ InLine(B[t]) /\ B[t].mode = A[t].mode /\ GrantedIn(q, t)
  PROVE  QueueOf(q, B)
<1>1. \A i \in DOMAIN q : q[i].task \in TaskIds
  BY QueueType
<1>2. \A i \in DOMAIN q : InLine(B[q[i].task]) /\ B[q[i].task].mode = q[i].mode
  BY <1>1 DEF QueueOf, InLine
<1>3. \A u \in TaskIds :
        /\ InLine(B[u]) => \E i \in DOMAIN q : q[i].task = u
        /\ B[u].phase \in {"held", "released"} => GrantedIn(q, u)
  BY DEF QueueOf, InLine
<1>4. QED
  BY <1>2, <1>3 DEF QueueOf, InLine

LEMMA QueueSame ==
  ASSUME NEW q, NEW A, QueueOf(q, A), NEW B, \A u \in TaskIds : B[u] = A[u]
  PROVE  QueueOf(q, B)
<1>1. \A i \in DOMAIN q : q[i].task \in TaskIds
  BY QueueType
<1>2. \A i \in DOMAIN q :
        B[q[i].task].phase \in {"queued", "held", "released"} /\ B[q[i].task].mode = q[i].mode
  BY <1>1 DEF QueueOf
<1>3. QED
  BY <1>2 DEF QueueOf

LEMMA QueueJoined ==
  ASSUME NEW q, NEW A, QueueOf(q, A), NEW t \in TaskIds, NEW B,
         \A u \in TaskIds \ {t} : B[u] = A[u], NEW mode \in Rwlock!Modes,
         ~InLine(A[t]), B[t] = Access("queued", mode)
  PROVE  QueueOf(Append(q, [task |-> t, mode |-> mode]), B)
<1> DEFINE e == [task |-> t, mode |-> mode]
           r == Append(q, e)
           n == Len(q)
<1>1. q \in Seq(Entries) /\ e \in Entries /\ DOMAIN q = 1..n /\ n \in Nat
  BY DEF QueueOf, Entries
<1>2. /\ r \in Seq(Entries) /\ DOMAIN r = 1..(n + 1)
      /\ r[n + 1] = e
      /\ \A i \in 1..n : r[i] = q[i]
  BY <1>1
<1> HIDE DEF r
<1>3. \A i \in 1..n : q[i].task \in TaskIds /\ q[i].task # t
  BY <1>1, QueueType DEF QueueOf, InLine
<1>4. \A i \in DOMAIN r : i \in 1..n \/ i = n + 1
  BY <1>1, <1>2
<1>5. \A i \in DOMAIN r : InLine(B[r[i].task]) /\ B[r[i].task].mode = r[i].mode
  <2>1. \A i \in 1..n : InLine(B[r[i].task]) /\ B[r[i].task].mode = r[i].mode
    BY <1>1, <1>2, <1>3 DEF QueueOf, InLine
  <2>2. InLine(B[r[n + 1].task]) /\ B[r[n + 1].task].mode = r[n + 1].mode
    BY <1>2 DEF InLine, Access
  <2>3. QED
    BY <1>4, <2>1, <2>2
<1>6. \A i, j \in DOMAIN r : r[i].task = r[j].task => i = j
  <2>1. \A i, j \in 1..n : r[i].task = r[j].task => i = j
    BY <1>1, <1>2 DEF QueueOf
  <2>2. \A i \in 1..n : r[i].task # r[n + 1].task
    BY <1>2, <1>3
  <2>3. QED
    BY <1>4, <2>1, <2>2
<1>7. ASSUME NEW u \in TaskIds, InLine(B[u])
      PROVE  \E i \in DOMAIN r : r[i].task = u
  <2>1. CASE u = t
    BY <1>1, <1>2, <2>1
  <2>2. CASE u # t
    <3>1. PICK i \in 1..n : q[i].task = u
      BY <1>1, <1>7, <2>2 DEF QueueOf, InLine
    <3>2. QED
      BY <1>1, <1>2, <3>1
  <2>3. QED
    BY <2>1, <2>2
<1>8. ASSUME NEW u \in TaskIds, B[u].phase \in {"held", "released"}
      PROVE  GrantedIn(r, u)
  <2>1. u # t
    BY <1>8 DEF Access
  <2>2. PICK i \in 1..n : q[i].task = u /\ Line(q, i)
    BY <1>1, <1>8, <2>1 DEF QueueOf, GrantedIn
  <2>3. r[i].task = u /\ i \in DOMAIN r
    BY <1>1, <1>2, <2>2
  <2>4. Line(r, i)
    <3>1. \A j \in 1..i : j \in 1..n
      BY <1>1
    <3>2. QED
      BY <1>2, <2>2, <3>1 DEF Line
  <2>5. QED
    BY <2>3, <2>4 DEF GrantedIn
<1>9. QED
  BY <1>2, <1>5, <1>6, <1>7, <1>8 DEF QueueOf, InLine, r

(* A task that is in no queue leaves none.  *)
LEMMA QueueUnused ==
  ASSUME NEW q, NEW A, QueueOf(q, A), NEW a, a \in TaskIds => ~InLine(A[a])
  PROVE  LeaveQueue(q, {a}) = q
<1>1. q \in Seq(Entries)
  BY DEF QueueOf
<1>2. \A i \in DOMAIN q : q[i].task # a
  BY QueueType DEF QueueOf, InLine
<1>3. Left(q, {a}) = DOMAIN q
  BY <1>2 DEF Left
<1>4. QED
  BY <1>1, <1>3, LeaveQueueKeeps

LEMMA QueueLeft ==
  ASSUME NEW q, NEW A, QueueOf(q, A), NEW t \in TaskIds, NEW B,
         \A u \in TaskIds \ {t} : B[u] = A[u], ~InLine(B[t])
  PROVE  QueueOf(LeaveQueue(q, {t}), B)
<1> DEFINE left == Left(q, {t})
           r == LeaveQueue(q, {t})
<1>1. q \in Seq(Entries) /\ DOMAIN q = 1..Len(q) /\ Len(q) \in Nat
  BY QueueType
<1>2. r \in Seq(Entries) /\ \E from : Keeps(r, q, left, from)
  BY <1>1, LeaveQueueKeeps
<1>3. PICK from :
        /\ from \in [DOMAIN r -> left]
        /\ \A k \in DOMAIN r : r[k] = q[from[k]]
        /\ \A i \in left : \E k \in DOMAIN r : from[k] = i
        /\ \A j, k \in DOMAIN r : from[j] <= from[k] <=> j <= k
  BY <1>2 DEF Keeps
<1>4. \A i \in left : i \in 1..Len(q) /\ q[i].task \in TaskIds \ {t}
  BY <1>1, QueueType DEF Left
<1>5. DOMAIN r = 1..Len(r) /\ Len(r) \in Nat
  BY <1>2
<1>6. \A i \in DOMAIN q : q[i].task # t => i \in left
  BY DEF Left
<1> HIDE DEF left, r
<1>7. \A k \in DOMAIN r : from[k] \in left
  BY <1>3
<1>8. \A k \in DOMAIN r : InLine(B[r[k].task]) /\ B[r[k].task].mode = r[k].mode
  BY <1>1, <1>3, <1>4, <1>7 DEF QueueOf, InLine
<1>9. ASSUME NEW j \in DOMAIN r, NEW k \in DOMAIN r, r[j].task = r[k].task
      PROVE  j = k
  <2>1. from[j] = from[k] /\ from[j] \in Int
    BY <1>1, <1>3, <1>4, <1>7, <1>9 DEF QueueOf
  <2>2. j <= k /\ k <= j /\ j \in Int /\ k \in Int
    BY <1>3, <1>5, <2>1
  <2>3. QED
    BY <2>2
<1>10. ASSUME NEW u \in TaskIds, InLine(B[u])
       PROVE  \E k \in DOMAIN r : r[k].task = u
  <2>1. PICK i \in DOMAIN q : q[i].task = u
    BY <1>10 DEF QueueOf, InLine
  <2>2. i \in left
    BY <1>6, <1>10, <2>1
  <2>3. QED
    BY <1>3, <2>1, <2>2
<1>11. ASSUME NEW u \in TaskIds, B[u].phase \in {"held", "released"}
       PROVE  GrantedIn(r, u)
  <2>1. u # t
    BY <1>11 DEF InLine
  <2>2. PICK i \in DOMAIN q : q[i].task = u /\ Line(q, i)
    BY <1>11, <2>1 DEF QueueOf, GrantedIn
  <2>3. PICK k \in DOMAIN r : from[k] = i
    BY <1>3, <1>6, <2>1, <2>2
  <2>4. r[k].task = u
    BY <1>3, <2>2, <2>3
  <2>5. \A j \in 1..k : j \in DOMAIN r /\ from[j] \in 1..i
    <3>1. \A j \in 1..k : j \in DOMAIN r /\ j <= k
      BY <1>5
    <3>2. QED
      BY <1>1, <1>3, <1>4, <1>7, <2>3, <3>1
  <2>6. CASE i = 1
    <3>1. k = 1
      <4>1. k \in 1..Len(r) /\ 1 \in 1..k
        BY <1>5
      <4>2. 1 \in DOMAIN r /\ from[1] = 1
        BY <2>5, <2>6, <4>1
      <4>3. k <= 1
        BY <1>3, <2>3, <2>6, <4>2
      <4>4. QED
        BY <1>5, <4>1, <4>3
    <3>2. QED
      BY <2>4, <3>1 DEF GrantedIn, Line
  <2>7. CASE \A j \in 1..i : q[j].mode = "Read"
    <3>1. \A j \in 1..k : r[j].mode = "Read"
      BY <1>3, <2>5, <2>7
    <3>2. QED
      BY <2>4, <3>1 DEF GrantedIn, Line
  <2>8. QED
    BY <2>2, <2>6, <2>7 DEF Line
<1>12. QED
  BY <1>2, <1>8, <1>9, <1>10, <1>11 DEF QueueOf, InLine, r

-----------------------------------------------------------------------------
(* Of the tasks and their places only those of a change. *)
Moves(a) ==
  /\ program' = program
  /\ \A u \in Tasks \ {a} :
       ip'[u] = ip[u] /\ state'[u] = state[u] /\ (u \in panicked' <=> u \in panicked)
  /\ dead' = dead

LEMMA OthersStay ==
  ASSUME NEW a, Moves(a)
  PROVE  /\ Tasks' = Tasks
         /\ \A u \in Tasks \ {a} :
              /\ Label(u)' = Label(u)
              /\ AtEnd(u)' = AtEnd(u)
              /\ u \in Alive' <=> u \in Alive
         /\ \A u \in TaskIds \ {a} : Way(u)' = Way(u)
<1>1. Tasks' = Tasks
  BY DEF Moves, Tasks
<1>2. ASSUME NEW u \in Tasks \ {a} PROVE Label(u)' = Label(u)
  BY <1>2 DEF Moves, Label
<1>3. \A u \in Tasks \ {a} : AtEnd(u)' = AtEnd(u) /\ (u \in Alive' <=> u \in Alive)
  BY <1>1 DEF Moves, Alive, AtEnd, End
<1>4. ASSUME NEW u \in TaskIds \ {a}
      PROVE  Way(u)' = Way(u)
  <2>1. CASE u \in Tasks
    BY <1>2, <1>3, <2>1 DEF Way
  <2>2. CASE u \notin Tasks
    BY <1>1, <2>2 DEF Way, Alive, Idle, NoAccess, Access, TaskWait!NoWait
  <2>3. QED
    BY <2>1, <2>2
<1>5. QED
  BY <1>1, <1>2, <1>3, <1>4

LEMMA WaysStay ==
  ASSUME NEW a \in Alive, a \in Alive', Moves(a),
         Label(a)'.barrier = Label(a).barrier, Label(a)'.rwlock = Label(a).rwlock
  PROVE  \A t \in TaskIds :
           Way(t)'.barrier = Way(t).barrier /\ \A r \in RwlockIds : Way(t)'.rwlock[r] = Way(t).rwlock[r]
<1>1. Way(a)' = Label(a)' /\ Way(a) = Label(a)
  BY DEF Way
<1>2. QED
  BY <1>1, OthersStay

(* The rwlocks are as before, and so is the way of every task through them.*)
LEMMA RwlocksStay ==
  ASSUME RwlocksKnown, UNCHANGED rwlockVars, \A r \in RwlockIds : queue'[r] = queue[r],
         \A u \in TaskIds, r \in RwlockIds : Way(u)'.rwlock[r] = Way(u).rwlock[r]
  PROVE  RwlocksKnown'
<1>1. \A r \in RwlockIds : Accesses(r)' = Accesses(r)
  BY DEF Accesses
<1>2. ASSUME NEW r \in RwlockIds
      PROVE  (ModelOf(r, Accesses(r)) /\ QueueOf(queue[r], Accesses(r)))'
  <2>1. ModelOf(r, Accesses(r)) /\ QueueOf(queue[r], Accesses(r))
    BY DEF RwlocksKnown
  <2>2. ModelOf(r, Accesses(r))'
    BY <1>1, <2>1 DEF ModelOf, rwlockVars
  <2>3. QueueOf(queue'[r], Accesses(r))
    BY <2>1
  <2>4. QueueOf(queue[r], Accesses(r))'
    BY <1>1, <2>3 DEF QueueOf, GrantedIn, Line, Entries, Rwlock!Modes
  <2>5. QED
    BY <2>2, <2>4
<1>3. QED
  BY <1>2 DEF RwlocksKnown

-----------------------------------------------------------------------------
LEMMA InitIInv == AllDisciplined /\ Init => IInv
<1> SUFFICES ASSUME AllDisciplined, Init PROVE IInv
  OBVIOUS
<1>1. TestIInv
  BY InitTestIInv
<1>2. \A t \in Tasks : /\ t \in Alive /\ state[t] = "none" /\ ip[t] = 1
                       /\ Label(t) = Idle
  BY <1>1, LabelsFollow DEF Init, Alive, Tasks, TestIInv, Actors
<1>3. Living
  BY <1>2 DEF Living, Init
<1>4. MutexesKnown
  BY <1>2, NoneAssumption
  DEF MutexesKnown, MutexesOf, Taking, Idle, Alive, Tasks, Init, RegistryInit, Mutex!Init
<1>5. QueuesKnown
  BY <1>2, SystemAssumption DEF QueuesKnown, Init, InQueue, Idle, Alive
<1>6. Exclusive
  BY <1>2 DEF Exclusive, Owns, Phase, Idle
<1>10. \A t \in TaskIds : Way(t) = Idle
  BY <1>2 DEF Way, Alive
<1>11. RwlocksKnown
  <2>1. ASSUME NEW r \in RwlockIds
        PROVE  \A t \in TaskIds : Accesses(r)[t] = NoAccess
    <3>1. Idle.rwlock[r] = NoAccess
      BY DEF Idle
    <3>2. QED
      BY <1>10, <3>1 DEF Accesses
  <2>2. ASSUME NEW r \in RwlockIds
        PROVE  ModelOf(r, Accesses(r))
    <3>1. /\ \A t \in TaskIds : rwlock_waiting[t] = {}
          /\ rwlock_held_by[r].tasks = {}
      BY DEF Init, RegistryInit, Rwlock!Init, Rwlock!Unheld
    <3>2. \A t \in TaskIds : Accesses(r)[t].phase = "free"
      BY <2>1 DEF NoAccess, Access
    <3>3. QED
      BY <3>1, <3>2 DEF ModelOf, Wants
  <2>3. ASSUME NEW r \in RwlockIds
        PROVE  QueueOf(queue[r], Accesses(r))
    <3>1. queue[r] = <<>> /\ queue[r] \in Seq(Entries)
      BY SystemAssumption DEF Init
    <3>2. QED
      BY <2>1, <3>1 DEF QueueOf, NoAccess, Access
  <2>4. QED
    BY <2>2, <2>3 DEF RwlocksKnown
<1>7. BarriersKnown
  <2>1. \A t \in TaskIds : barrier_waiting[t] = None
    BY DEF Init, RegistryInit, Barrier!Init
  <2>2. \A b \in BarrierIds : barriers[b].tasks = {}
    BY DEF Init, RegistryInit, Barrier!Init, Barrier!NoBarrier, Barrier!BarrierState
  <2>3. \A t \in TaskIds : Way(t).barrier = None
    <3>1. Idle.barrier = None
      BY DEF Idle
    <3>2. QED
      BY <1>10, <3>1
  <2>4. QED
    BY <2>1, <2>2, <2>3, SystemAssumption DEF BarriersKnown
<1>8. OthersKnown
  BY <1>2 DEF OthersKnown, OthersOf, Idle, Alive, Tasks, Init, RegistryInit, Join!Init,
              Unknown!Init, Watch!Init, TaskWait!Init
<1>9. QED
  BY <1>1, <1>3, <1>4, <1>5, <1>6, <1>7, <1>8, <1>11 DEF IInv, Disciplines

-----------------------------------------------------------------------------
(* The queues of the locks that the models know. *)
SameQueues ==
  /\ DOMAIN queue' = DOMAIN queue
  /\ \A l \in MutexIds \cup RwlockIds : queue'[l] = queue[l]

(* What changes in the registry when a barrier or a group is created.  *)
QuietRegistry ==
  /\ UNCHANGED <<mutexVars, rwlockVars, is_in_join, blocked_tasks, watchVars, task_waits,
                 barrier_waiting>>
  /\ \A b \in BarrierIds :
       \/ barriers'[b] = barriers[b]
       \/ barriers[b].tasks = {} /\ barriers'[b].tasks = {}

(* What the models are told of a label. *)
SameButCame(k, l) ==
  /\ k.mutex = l.mutex /\ k.rwlock = l.rwlock
  /\ k.barrier = l.barrier /\ k.waits = l.waits /\ k.group = l.group

(* A step of a that takes it to a place of which the models are told the   *)
(* same.                                                                   *)
LEMMA QuietStep ==
  ASSUME IInv, NEW a, Moves(a), QuietRegistry, SameQueues,
         a \in Tasks =>
           /\ SameButCame(Label(a)', Label(a))
           /\ a \in Alive' <=> a \in Alive
           /\ \/ state[a] = "Running" /\ state'[a] = "Running" /\ a \in Alive
              \/ /\ state[a] = "none" /\ state'[a] = "Running"
                 /\ a \in Alive /\ Label(a) = Idle
              \/ state'[a] = "Finished" /\ AtEnd(a) /\ AtEnd(a)'
  PROVE  Disciplines'
<1>1. /\ Tasks' = Tasks
      /\ Alive' = Alive
      /\ \A t \in Tasks : SameButCame(Label(t)', Label(t))
      /\ \A t \in Tasks \ {a} : Label(t)' = Label(t) /\ (AtEnd(t)' <=> AtEnd(t))
      /\ Alive \subseteq Tasks
  BY OthersStay DEF Alive, SameButCame
<1>9. \A t \in TaskIds : SameButCame(Way(t)', Way(t))
  <2>1. ASSUME NEW t \in TaskIds, t \in Alive
        PROVE  SameButCame(Way(t)', Way(t))
    <3>1. Way(t)' = Label(t)' /\ Way(t) = Label(t)
      BY <1>1, <2>1 DEF Way
    <3>2. QED
      BY <1>1, <2>1, <3>1
  <2>2. ASSUME NEW t \in TaskIds, t \notin Alive
        PROVE  SameButCame(Way(t)', Way(t))
    <3>1. Way(t)' = Way(t)
      BY <1>1, <2>2 DEF Way, Idle, NoAccess, Access, TaskWait!NoWait
    <3>2. QED
      BY <3>1 DEF SameButCame
  <2>3. QED
    BY <2>1, <2>2
<1>10. RwlocksKnown'
  BY <1>9, RwlocksStay DEF IInv, Disciplines, QuietRegistry, SameQueues, SameButCame
<1>2. Living'
  BY <1>1 DEF Moves, IInv, Disciplines, Living
<1>3. MutexesKnown'
  BY <1>1 DEF IInv, Disciplines, MutexesKnown, MutexesOf, Taking, QuietRegistry, mutexVars, SameButCame
<1>4. QueuesKnown'
  BY <1>1 DEF IInv, Disciplines, QueuesKnown, InQueue, SameQueues, SameButCame
<1>5. Exclusive'
  <2>1. ASSUME NEW m \in MutexIds, NEW t \in Tasks, Owns(t, m)'
        PROVE  Owns(t, m)
    BY <1>1, <2>1 DEF Moves, Owns, Phase, QuietRegistry, mutexVars, Idle, SameButCame
  <2>2. QED
    BY <1>1, <2>1 DEF IInv, Disciplines, Exclusive
<1>6. BarriersKnown'
  BY <1>9 DEF IInv, Disciplines, BarriersKnown, QuietRegistry, Barrier!Exists, SameButCame
<1>7. OthersKnown'
  BY <1>1 DEF IInv, Disciplines, OthersKnown, OthersOf, QuietRegistry, watchVars, SameButCame
<1>8. QED
  BY <1>2, <1>3, <1>4, <1>5, <1>6, <1>7, <1>10 DEF Disciplines

LEMMA SameRegistryIsQuiet == UNCHANGED registryVars => QuietRegistry
  BY DEF registryVars, barrierVars, taskWaitVars, QuietRegistry

LEMMA InitEventIsQuiet ==
  ASSUME RegistryIInv, BarriersKnown, NEW e, AddressedInit(e), AcceptInit(e), AtFreshAddress(e)
  PROVE  QuietRegistry
<1>1. UNCHANGED task_waits
  BY DEF AcceptInit, TaskWait!NewTaskGroup, taskWaitVars
<1>2. CASE e.event # "NewBarrier"
  BY <1>1, <1>2 DEF AcceptInit, QuietRegistry, barrierVars
<1>3. CASE e.event = "NewBarrier"
  <2>1. /\ \A t \in TaskIds : barrier_waiting[t] # e.id
        /\ barriers' = [barriers EXCEPT ![e.id] = Barrier!BarrierState(e.arg, FALSE, {})]
        /\ barrier_waiting' = barrier_waiting
        /\ e.id \in BarrierIds
    BY <1>3 DEF AcceptInit, Barrier!NewBarrier, AddressedInit, AtFreshAddress
  <2>2. barriers[e.id].tasks = {} /\ Barrier!TypeOK
    BY <2>1 DEF BarriersKnown, RegistryIInv, Barrier!TypeOK
  <2>3. \A b \in BarrierIds : \/ barriers'[b] = barriers[b]
                              \/ barriers[b].tasks = {} /\ barriers'[b].tasks = {}
    BY <2>1, <2>2 DEF Barrier!TypeOK, Barrier!BarrierState
  <2>4. QED
    BY <1>1, <2>1, <2>3 DEF AcceptInit, QuietRegistry
<1>4. QED
  BY <1>2, <1>3

(* A panic drops what the task holds and leaves the models as they are. *)
LEMMA PanicStep ==
  ASSUME IInv, NEW a \in Actors, CanStep(a), Panic(a), UNCHANGED <<registryVars, schedVars>>,
         a \in Tasks => Label(a).barrier = None /\ NoRwlock(Label(a))
  PROVE  Disciplines'
<1>1. Moves(a) /\ panicked' = panicked \cup {a}
  BY DEF Moves, Panic, schedVars, Tasks, Actors, IInv, Disciplines, TestIInv, Placed
<1>2. /\ Tasks' = Tasks
      /\ Alive' = Alive \ {a}
      /\ \A t \in Tasks \ {a} : Label(t)' = Label(t) /\ (AtEnd(t)' <=> AtEnd(t))
      /\ Alive \subseteq Tasks
      /\ Tasks \subseteq TaskIds
  BY <1>1, OthersStay DEF Alive, Tasks
<1>11. a \in TaskIds => a \in Tasks
  BY StepHasOp DEF IInv, TestIInv, Tasks
<1>12. \A t \in TaskIds : /\ Way(t)'.barrier = Way(t).barrier
                          /\ \A r \in RwlockIds : Way(t)'.rwlock[r] = Way(t).rwlock[r]
  <2>1. ASSUME a \in Tasks
        PROVE  /\ Way(a)'.barrier = Way(a).barrier
               /\ \A r \in RwlockIds : Way(a)'.rwlock[r] = Way(a).rwlock[r]
    <3>1. a \notin Alive'
      BY <1>2
    <3>2. Way(a)' = [mutex |-> [m \in MutexIds |-> "free"], rwlock |-> [r \in RwlockIds |-> NoAccess],
                     barrier |-> None, came |-> FALSE, waits |-> {}, group |-> TaskWait!NoWait]
      BY <3>1 DEF Way, Idle, NoAccess, Access, TaskWait!NoWait
    <3>3. Way(a) \in {Label(a), Idle}
      BY DEF Way
    <3>4. Way(a).barrier = None /\ \A r \in RwlockIds : Way(a).rwlock[r] = NoAccess
      BY <2>1, <3>3 DEF Idle, NoRwlock
    <3>5. QED
      BY <3>2, <3>4
  <2>2. QED
    BY <1>1, <1>11, <2>1, OthersStay
<1>3. a \in Tasks => AtEnd(a)' /\ state[a] = "Running" /\ a \in Alive
  <2>1. AtEnd(a)'
    BY DEF AtEnd, End, Panic, IInv, Disciplines, TestIInv, Placed
  <2>2. a \in Tasks => state[a] = "Running" /\ ~AtEnd(a)
    BY <1>2 DEF CanStep
  <2>3. QED
    BY <2>1, <2>2 DEF IInv, Disciplines, Living
<1>4. Living'
  BY <1>1, <1>2, <1>3 DEF Moves, IInv, Disciplines, Living, schedVars
<1>5. MutexesKnown'
  BY <1>2 DEF IInv, Disciplines, MutexesKnown, MutexesOf, registryVars, mutexVars
<1>6. QueuesKnown'
  <2>1. /\ DOMAIN queue' = Locks
        /\ \A l \in Locks : queue'[l] = LeaveQueue(queue[l], {a})
        /\ MutexIds \cup RwlockIds \subseteq Locks
    BY SystemAssumption DEF Panic
  <2>2. ASSUME NEW l \in MutexIds, queue[l] = <<>>
        PROVE  queue'[l] = <<>>
    BY <2>1, <2>2, LeaveEmpty
  <2>3. ASSUME NEW m \in MutexIds, NEW t \in Alive, queue[m] = <<Entry(t)>>
        PROVE  queue'[m] = IF t = a THEN <<>> ELSE <<Entry(t)>>
    <3>1. Entry(t).task = t
      BY DEF Entry
    <3>2. QED
      BY <2>1, <2>3, <3>1, LeaveOne
  <2>4. ASSUME NEW m \in MutexIds, NEW t \in Alive', InQueue(Label(t), m)'
        PROVE  queue'[m] = <<Entry(t)>>
    BY <1>2, <2>3, <2>4 DEF IInv, Disciplines, QueuesKnown, InQueue
  <2>5. ASSUME NEW m \in MutexIds, queue'[m] # <<>>
        PROVE  \E t \in Alive' : InQueue(Label(t), m)' /\ queue'[m] = <<Entry(t)>>
    <3>1. PICK t \in Alive : InQueue(Label(t), m) /\ queue[m] = <<Entry(t)>>
      BY <2>2, <2>5 DEF IInv, Disciplines, QueuesKnown
    <3>2. QED
      BY <1>2, <2>3, <2>5, <3>1 DEF InQueue
  <2>7. QED
    BY <2>1, <2>4, <2>5 DEF QueuesKnown, InQueue, Entry
<1>7. Exclusive'
  <2>1. ASSUME NEW m \in MutexIds, NEW t \in Tasks, Owns(t, m)'
        PROVE  Owns(t, m)
    <3>1. mutex_held_by' = mutex_held_by /\ state' = state
      BY DEF registryVars, mutexVars, schedVars
    <3>2. CASE t # a
      BY <1>1, <1>2, <2>1, <3>1, <3>2 DEF Owns, Phase
    <3>3. CASE t = a
      BY <1>2, <1>3, <2>1, <3>1, <3>3 DEF Owns, Phase, IInv, Disciplines, MutexesKnown, MutexesOf
    <3>4. QED
      BY <3>2, <3>3
  <2>2. QED
    BY <1>2, <2>1 DEF IInv, Disciplines, Exclusive
<1>8. BarriersKnown'
  BY <1>12 DEF IInv, Disciplines, BarriersKnown, registryVars, barrierVars, Barrier!Exists
<1>9. OthersKnown'
  BY <1>2 DEF IInv, Disciplines, OthersKnown, OthersOf, registryVars, watchVars, taskWaitVars
<1>13. RwlocksKnown'
  <2>1. ASSUME NEW r \in RwlockIds
        PROVE  queue'[r] = queue[r]
    <3>1. queue'[r] = LeaveQueue(queue[r], {a})
      BY SystemAssumption DEF Panic
    <3>2. QueueOf(queue[r], Accesses(r))
      BY DEF IInv, Disciplines, RwlocksKnown
    <3>3. a \in TaskIds => ~InLine(Accesses(r)[a])
      BY <1>3, <1>11 DEF Accesses, InLine, NoRwlock, NoAccess, Access, Way
    <3>4. QED
      BY <3>1, <3>2, <3>3, QueueUnused
  <2>2. QED
    BY <1>12, <2>1, RwlocksStay DEF IInv, Disciplines, registryVars
<1>10. QED
  BY <1>4, <1>5, <1>6, <1>7, <1>8, <1>9, <1>13 DEF Disciplines

-----------------------------------------------------------------------------
(* How an event changes a label. *)
LEMMA AfterEventLabel ==
  ASSUME NEW l, IsLabel(l), NEW e, Addressed(e)
  PROVE  IsLabel(AfterEvent(l, e))
<1> DEFINE k == AfterEvent(l, e)
<1>1. k.mutex \in [MutexIds -> Phases]
  <2>1. l.mutex \in [MutexIds -> Phases] /\ (e.event \in Mutex!Events => e.id \in MutexIds)
    BY DEF IsLabel, Addressed
  <2>2. MutexesAfter(l.mutex, e) \in [MutexIds -> Phases]
    BY <2>1 DEF MutexesAfter, Phases, Mutex!Events
  <2>3. QED
    BY <2>2 DEF AfterEvent
<1>2. k.rwlock \in [RwlockIds -> [phase : RwPhases, mode : Rwlock!Modes]]
  <2>1. /\ l.rwlock \in [RwlockIds -> [phase : RwPhases, mode : Rwlock!Modes]]
        /\ e.event \in Rwlock!Events => e.id \in RwlockIds /\ e.arg \in Rwlock!Modes
    BY DEF IsLabel, Addressed
  <2>2. NoAccess \in [phase : RwPhases, mode : Rwlock!Modes]
    BY DEF NoAccess, Access, RwPhases, Rwlock!Modes
  <2>3. \A phase \in RwPhases, mode \in Rwlock!Modes :
          Access(phase, mode) \in [phase : RwPhases, mode : Rwlock!Modes]
    BY DEF Access
  <2>4. {"asked", "held", "released"} \subseteq RwPhases
    BY DEF RwPhases
  <2>5. RwlocksAfter(l.rwlock, e) \in [RwlockIds -> [phase : RwPhases, mode : Rwlock!Modes]]
    BY <2>1, <2>2, <2>3, <2>4 DEF RwlocksAfter, Rwlock!Events
  <2>6. QED
    BY <2>5 DEF AfterEvent
<1>3. k.barrier \in BarrierIds \cup {None} /\ k.came \in BOOLEAN
  BY DEF IsLabel, Addressed, Barrier!Events, AfterEvent, BarrierAfter
<1>4. k.waits \subseteq OtherWaits
  BY DEF IsLabel, OtherWaits, AfterEvent, WaitsAfter
<1>5. k.group \in GroupWaits
  BY DEF IsLabel, Addressed, GroupWaits, TaskWait!Events, TaskWait!AnyN, TaskWait!Specific,
         AfterEvent, GroupAfter
<1>6. k = [mutex |-> k.mutex, rwlock |-> k.rwlock, barrier |-> k.barrier, came |-> k.came,
           waits |-> k.waits, group |-> k.group]
  BY DEF AfterEvent
<1>7. QED
  BY <1>1, <1>2, <1>3, <1>4, <1>5, <1>6 DEF IsLabel

LEMMA AfterPointParts ==
  ASSUME NEW l, IsLabel(l)
  PROVE  /\ \A m \in MutexIds :
              AfterPoint(l).mutex[m] = IF l.mutex[m] = "asked" THEN "waiting" ELSE l.mutex[m]
         /\ AfterPoint(l).rwlock = l.rwlock
         /\ AfterPoint(l).barrier = l.barrier
         /\ AfterPoint(l).came = l.came
         /\ AfterPoint(l).waits = l.waits
         /\ AfterPoint(l).group = l.group
         /\ IsLabel(AfterPoint(l))
<1>1. l = [mutex |-> l.mutex, rwlock |-> l.rwlock, barrier |-> l.barrier, came |-> l.came,
           waits |-> l.waits, group |-> l.group]
  BY DEF IsLabel
<1>2. AfterPoint(l) =
        [mutex |-> [m \in MutexIds |-> IF l.mutex[m] = "asked" THEN "waiting" ELSE l.mutex[m]],
         rwlock |-> l.rwlock, barrier |-> l.barrier, came |-> l.came,
         waits |-> l.waits, group |-> l.group]
  BY <1>1 DEF AfterPoint
<1>3. AfterPoint(l).mutex \in [MutexIds -> Phases]
  BY <1>2 DEF IsLabel, Phases
<1>4. QED
  BY <1>2, <1>3 DEF IsLabel

(* What the models know of the task itself follows its events. *)
LEMMA MutexesFollow ==
  ASSUME RegistryIInv, NEW t \in TaskIds, NEW l, IsLabel(l), NEW e, Addressed(e),
         MutexesOf(t, l), PermitsEvent(l, e), Accept(t, e), NEW m \in MutexIds
  PROVE  /\ m \in mutex_waiting'[t] <=> Taking(AfterEvent(l, e), m)
         /\ mutex_held_by'[m] = t <=> AfterEvent(l, e).mutex[m] \in {"held", "dropped"}
<1>1. Mutex!TypeOK
  BY DEF RegistryIInv, MutexIInv
<1>2. /\ m \in mutex_waiting[t] <=> Taking(l, m)
      /\ mutex_held_by[m] = t <=> l.mutex[m] \in {"held", "dropped"}
      /\ l.mutex \in [MutexIds -> Phases]
  BY DEF MutexesOf, IsLabel
<1>3. CASE e.event \notin Mutex!Events
  <2>1. UNCHANGED mutexVars
    BY <1>3 DEF Accept
  <2>2. AfterEvent(l, e).mutex = l.mutex
    BY <1>3 DEF AfterEvent, MutexesAfter, Mutex!Events
  <2>3. QED
    BY <1>2, <2>1, <2>2 DEF mutexVars, Taking
<1>4. CASE e.event \in Mutex!Events
  <2>1. Mutex!Accept(t, e) /\ e.id \in MutexIds
    BY <1>4 DEF Accept, Addressed
  <2>2. CASE e.event = "LockingMutex"
    <3>1. AfterEvent(l, e).mutex = [l.mutex EXCEPT ![e.id] = "asked"]
      BY <2>2 DEF AfterEvent, MutexesAfter
    <3>2. Mutex!LockingMutex(t, e.id) /\ l.mutex[e.id] = "free"
      BY <2>1, <2>2 DEF Mutex!Accept, PermitsEvent
    <3>3. QED
      BY <1>1, <1>2, <2>1, <3>1, <3>2 DEF Mutex!LockingMutex, Mutex!TypeOK, Taking
  <2>3. CASE e.event = "AbortedLockingMutex"
    <3>1. AfterEvent(l, e).mutex = [l.mutex EXCEPT ![e.id] = "free"]
      BY <2>3 DEF AfterEvent, MutexesAfter
    <3>2. Mutex!AbortedLockingMutex(t, e.id) /\ l.mutex[e.id] \in {"asked", "waiting"}
      BY <2>1, <2>3 DEF Mutex!Accept, PermitsEvent
    <3>3. QED
      BY <1>1, <1>2, <2>1, <3>1, <3>2 DEF Mutex!AbortedLockingMutex, Mutex!TypeOK, Taking
  <2>4. CASE e.event = "LockedMutex"
    <3>1. AfterEvent(l, e).mutex = [l.mutex EXCEPT ![e.id] = "held"]
      BY <2>4 DEF AfterEvent, MutexesAfter
    <3>2. Mutex!LockedMutex(t, e.id) /\ l.mutex[e.id] = "queued"
      BY <2>1, <2>4 DEF Mutex!Accept, PermitsEvent
    <3>3. QED
      BY <1>1, <1>2, <2>1, <3>1, <3>2 DEF Mutex!LockedMutex, Mutex!TypeOK, Taking
  <2>5. CASE e.event = "ReleasedMutex"
    <3>1. AfterEvent(l, e).mutex = [l.mutex EXCEPT ![e.id] = "free"]
      BY <2>5 DEF AfterEvent, MutexesAfter
    <3>2. Mutex!Release(e.id) /\ l.mutex[e.id] = "dropped"
      BY <2>1, <2>5 DEF Mutex!Accept, Mutex!ReleasedMutex, PermitsEvent
    <3>3. QED
      BY <1>1, <1>2, <2>1, <3>1, <3>2, NoneAssumption DEF Mutex!Release, Mutex!TypeOK, Taking
  <2>6. QED
    BY <1>4, <2>2, <2>3, <2>4, <2>5 DEF Mutex!Events
<1>5. QED
  BY <1>3, <1>4

(* An event is nothing to the mutexes of another task, if this one is not  *)
(* the holder of what is locked or released.                               *)
LEMMA MutexesOfOthers ==
  ASSUME RegistryIInv, NEW t \in TaskIds, NEW l, IsLabel(l), NEW e, Addressed(e),
         MutexesOf(t, l), PermitsEvent(l, e), Accept(t, e), NEW u \in TaskIds \ {t}
  PROVE  /\ mutex_waiting'[u] = mutex_waiting[u]
         /\ \A m \in MutexIds :
              /\ mutex_held_by'[m] = u => mutex_held_by[m] = u
              /\ mutex_held_by[m] = u /\ l.mutex[m] # "queued" => mutex_held_by'[m] = u
<1>1. Mutex!TypeOK
  BY DEF RegistryIInv, MutexIInv
<1>2. CASE e.event \notin Mutex!Events
  BY <1>2 DEF Accept, mutexVars
<1>3. CASE e.event \in Mutex!Events
  <2>1. Mutex!Accept(t, e) /\ e.id \in MutexIds
    BY <1>3 DEF Accept, Addressed
  <2>2. \/ Mutex!LockingMutex(t, e.id) \/ Mutex!AbortedLockingMutex(t, e.id)
        \/ Mutex!LockedMutex(t, e.id) /\ l.mutex[e.id] = "queued"
        \/ Mutex!Release(e.id) /\ l.mutex[e.id] = "dropped"
    BY <2>1 DEF Mutex!Accept, Mutex!ReleasedMutex, PermitsEvent
  <2>3. l.mutex[e.id] = "dropped" => mutex_held_by[e.id] = t
    BY <2>1 DEF MutexesOf
  <2>4. QED
    BY <1>1, <2>1, <2>2, <2>3, NoneAssumption
    DEF Mutex!LockingMutex, Mutex!AbortedLockingMutex, Mutex!LockedMutex, Mutex!Release, Mutex!TypeOK
<1>4. QED
  BY <1>2, <1>3

LEMMA HolderChanges ==
  ASSUME RegistryIInv, NEW t \in TaskIds, NEW e, Addressed(e), Accept(t, e), NEW m \in MutexIds
  PROVE  mutex_held_by'[m] \in {mutex_held_by[m], t, None}
<1>1. Mutex!TypeOK
  BY DEF RegistryIInv, MutexIInv
<1>2. CASE e.event \notin Mutex!Events
  BY <1>2 DEF Accept, mutexVars
<1>3. CASE e.event \in Mutex!Events
  <2>1. Mutex!Accept(t, e) /\ e.id \in MutexIds
    BY <1>3 DEF Accept, Addressed
  <2>2. QED
    BY <1>1, <2>1
    DEF Mutex!Accept, Mutex!LockingMutex, Mutex!AbortedLockingMutex, Mutex!LockedMutex,
        Mutex!ReleasedMutex, Mutex!Release, Mutex!TypeOK
<1>4. QED
  BY <1>2, <1>3

(* A task that says it waits for a barrier is recorded there alone. *)
LEMMA BarriersFollow ==
  ASSUME RegistryIInv, BarriersKnown, NEW t \in TaskIds, NEW l, IsLabel(l), NEW e, Addressed(e),
         barrier_waiting[t] = l.barrier, PermitsEvent(l, e), Accept(t, e)
  PROVE  /\ barrier_waiting'[t] = AfterEvent(l, e).barrier
         /\ \A u \in TaskIds \ {t} : barrier_waiting'[u] = barrier_waiting[u]
         /\ \A b \in BarrierIds :
              /\ \A u \in TaskIds : u \in barriers'[b].tasks <=> barrier_waiting'[u] = b
              /\ barriers'[b].tasks # {} => Barrier!Exists(b)'
<1>1. Barrier!TypeOK
  BY DEF RegistryIInv
<1>2. /\ \A u \in TaskIds, b \in BarrierIds : u \in barriers[b].tasks <=> barrier_waiting[u] = b
      /\ \A b \in BarrierIds : barriers[b].tasks # {} => Barrier!Exists(b)
  BY DEF BarriersKnown
<1>3. CASE e.event \notin Barrier!Events
  <2>1. UNCHANGED barrierVars
    BY <1>3 DEF Accept
  <2>2. AfterEvent(l, e).barrier = l.barrier
    BY <1>3 DEF AfterEvent, BarrierAfter, Barrier!Events
  <2>3. QED
    BY <1>2, <2>1, <2>2 DEF barrierVars, Barrier!Exists
<1>4. CASE e.event = "WaitingForBarrier"
  <2>1. Barrier!WaitingForBarrier(t, e.id) /\ e.id \in BarrierIds
    BY <1>4 DEF Accept, Addressed, Barrier!Accept, Barrier!Events
  <2>2. AfterEvent(l, e).barrier = e.id
    BY <1>4 DEF AfterEvent, BarrierAfter
  <2>3. PICK reached : barriers' = [barriers EXCEPT ![e.id] =
                 Barrier!BarrierState(barriers[e.id].capacity, reached, barriers[e.id].tasks \cup {t})]
    BY <2>1 DEF Barrier!WaitingForBarrier
  <2>4. barrier_waiting' = [barrier_waiting EXCEPT ![t] = e.id] /\ Barrier!Exists(e.id) /\ barrier_waiting[t] = None
    BY <2>1 DEF Barrier!WaitingForBarrier
  <2>5. None # e.id /\ \A b \in BarrierIds : None # b
    BY <2>1, SystemAssumption
  <2>6. QED
    BY <1>1, <1>2, <2>1, <2>2, <2>3, <2>4, <2>5 DEF Barrier!TypeOK, Barrier!BarrierState, Barrier!Exists
<1>5. CASE e.event = "CompletedBarrierWait"
  <2>1. Barrier!Leave(t, e.id) /\ e.id \in BarrierIds /\ l.barrier = e.id
    BY <1>5 DEF Accept, Addressed, Barrier!Accept, Barrier!Events, Barrier!CompletedBarrierWait, PermitsEvent
  <2>2. AfterEvent(l, e).barrier = None
    BY <1>5 DEF AfterEvent, BarrierAfter
  <2>3. \A b \in BarrierIds : None # b
    BY <2>1, SystemAssumption
  <2> DEFINE left == barriers[e.id].tasks \ {t}
  <2>4. /\ barriers' = IF left = {} THEN [barriers EXCEPT ![e.id] = Barrier!NoBarrier]
                       ELSE [barriers EXCEPT ![e.id].tasks = left]
        /\ barrier_waiting' = [barrier_waiting EXCEPT ![t] = None]
        /\ Barrier!Exists(e.id)
    BY <2>1 DEF Barrier!Leave
  <2>5. \A u \in TaskIds : u \in left <=> barrier_waiting'[u] = e.id
    BY <1>1, <1>2, <2>1, <2>3, <2>4 DEF Barrier!TypeOK
  <2> HIDE DEF left
  <2>6. ASSUME NEW b \in BarrierIds
        PROVE  /\ \A u \in TaskIds : u \in barriers'[b].tasks <=> barrier_waiting'[u] = b
               /\ barriers'[b].tasks # {} => barriers'[b].exists
    <3>1. CASE b = e.id
      BY <1>1, <2>4, <2>5, <3>1 DEF Barrier!TypeOK, Barrier!Exists, Barrier!NoBarrier, Barrier!BarrierState
    <3>2. CASE b # e.id
      BY <1>1, <1>2, <2>1, <2>3, <2>4, <3>2 DEF Barrier!TypeOK, Barrier!Exists
    <3>3. QED
      BY <3>1, <3>2
  <2>7. QED
    BY <1>1, <2>1, <2>2, <2>4, <2>6 DEF Barrier!TypeOK, Barrier!Exists
<1>6. QED
  BY <1>3, <1>4, <1>5 DEF Barrier!Events, PermitsEvent

(* What the model knows of one rwlock, after the way of one task through   *)
(* it has changed.                                                         *)
LEMMA ModelFollows ==
  ASSUME RegistryIInv, NEW r \in RwlockIds, NEW A, ModelOf(r, A), NEW t \in TaskIds, NEW B,
         \A u \in TaskIds \ {t} : B[u] = A[u],
         \/ \E mode \in Rwlock!Modes :
              /\ Rwlock!LockingRwlock(t, r, mode) /\ A[t] = NoAccess
              /\ B[t] = Access("asked", mode)
         \/ \E mode \in Rwlock!Modes :
              /\ Rwlock!AbortedLockingRwlock(t, r, mode) /\ A[t] = Access("asked", mode)
              /\ B[t] = NoAccess
         \/ /\ Rwlock!LockedRead(t, r) /\ A[t] = Access("queued", "Read")
            /\ B[t] = Access("held", "Read")
         \/ /\ Rwlock!LockedWrite(t, r) /\ A[t] = Access("queued", "Write")
            /\ B[t] = Access("held", "Write")
            /\ \A u \in TaskIds : A[u].phase # "held"
         \/ /\ Rwlock!ReleasedRead(t, r) /\ A[t] = Access("held", "Read")
            /\ B[t] = Access("released", "Read")
         \/ /\ Rwlock!ReleasedWrite(t, r) /\ A[t] = Access("held", "Write")
            /\ B[t] = Access("released", "Write")
            /\ \A u \in TaskIds : A[u].phase = "held" => u = t
  PROVE  ModelOf(r, B)'
<1>1. /\ rwlock_waiting \in [TaskIds -> SUBSET (RwlockIds \X Rwlock!Modes)]
      /\ DOMAIN rwlock_held_by = RwlockIds
      /\ rwlock_held_by[r].tasks \subseteq TaskIds
      /\ rwlock_held_by[r] = Rwlock!HeldAs(rwlock_held_by[r].mode, rwlock_held_by[r].tasks)
      /\ rwlock_held_by[r].mode = "Read" => rwlock_held_by[r].tasks # {}
      /\ rwlock_held_by[r].mode = "Write" => rwlock_held_by[r].tasks # {}
  BY DEF RegistryIInv, OthersTypeOK, Rwlock!TypeOK, Rwlock!HeldAs, Rwlock!Unheld
<1>2. /\ \A u \in TaskIds, mode \in Rwlock!Modes :
           <<r, mode>> \in rwlock_waiting[u] <=> Wants(A[u], mode)
      /\ \A u \in TaskIds : u \in rwlock_held_by[r].tasks <=> A[u].phase = "held"
      /\ \A u \in TaskIds : A[u].phase = "held" => rwlock_held_by[r].mode = A[u].mode
  BY DEF ModelOf
<1>3. SUFFICES /\ \A u \in TaskIds, mode \in Rwlock!Modes :
                    <<r, mode>> \in rwlock_waiting'[u] <=> Wants(B[u], mode)
               /\ \A u \in TaskIds : u \in rwlock_held_by'[r].tasks <=> B[u].phase = "held"
               /\ \A u \in TaskIds : B[u].phase = "held" => rwlock_held_by'[r].mode = B[u].mode
  BY DEF ModelOf, Wants, Rwlock!Modes
<1>4. ASSUME NEW mode \in Rwlock!Modes, Rwlock!LockingRwlock(t, r, mode), A[t] = NoAccess,
             B[t] = Access("asked", mode)
      PROVE  /\ \A u \in TaskIds, n \in Rwlock!Modes :
                  <<r, n>> \in rwlock_waiting'[u] <=> Wants(B[u], n)
             /\ \A u \in TaskIds : u \in rwlock_held_by'[r].tasks <=> B[u].phase = "held"
             /\ \A u \in TaskIds : B[u].phase = "held" => rwlock_held_by'[r].mode = B[u].mode
  BY <1>1, <1>2, <1>4 DEF Rwlock!LockingRwlock, Wants, Access, NoAccess
<1>5. ASSUME NEW mode \in Rwlock!Modes, Rwlock!AbortedLockingRwlock(t, r, mode),
             A[t] = Access("asked", mode), B[t] = NoAccess
      PROVE  /\ \A u \in TaskIds, n \in Rwlock!Modes :
                  <<r, n>> \in rwlock_waiting'[u] <=> Wants(B[u], n)
             /\ \A u \in TaskIds : u \in rwlock_held_by'[r].tasks <=> B[u].phase = "held"
             /\ \A u \in TaskIds : B[u].phase = "held" => rwlock_held_by'[r].mode = B[u].mode
  <2>1. /\ rwlock_waiting' = [rwlock_waiting EXCEPT ![t] = @ \ {<<r, mode>>}]
        /\ UNCHANGED rwlock_held_by
    BY <1>5 DEF Rwlock!AbortedLockingRwlock, Rwlock!NoLongerWaits
  <2>2. ASSUME NEW u \in TaskIds, NEW n \in Rwlock!Modes
        PROVE  <<r, n>> \in rwlock_waiting'[u] <=> Wants(B[u], n)
    BY <1>1, <1>2, <1>5, <2>1, <2>2 DEF Wants, Access, NoAccess
  <2>3. /\ \A u \in TaskIds : u \in rwlock_held_by'[r].tasks <=> B[u].phase = "held"
        /\ \A u \in TaskIds : B[u].phase = "held" => rwlock_held_by'[r].mode = B[u].mode
    BY <1>1, <1>2, <1>5, <2>1 DEF Access, NoAccess
  <2>4. QED
    BY <2>2, <2>3
<1>6. ASSUME NEW mode \in Rwlock!Modes, Rwlock!NoLongerWaits(t, r, mode),
             A[t] = Access("queued", mode), B[t] = Access("held", mode)
      PROVE  \A u \in TaskIds, n \in Rwlock!Modes :
               <<r, n>> \in rwlock_waiting'[u] <=> Wants(B[u], n)
  BY <1>1, <1>2, <1>6 DEF Rwlock!NoLongerWaits, Wants, Access
<1>7. ASSUME Rwlock!LockedRead(t, r), A[t] = Access("queued", "Read"), B[t] = Access("held", "Read")
      PROVE  /\ \A u \in TaskIds : u \in rwlock_held_by'[r].tasks <=> B[u].phase = "held"
             /\ \A u \in TaskIds : B[u].phase = "held" => rwlock_held_by'[r].mode = B[u].mode
  <2>1. rwlock_held_by'[r] = Rwlock!HeldAs("Read", rwlock_held_by[r].tasks \cup {t})
    BY <1>1, <1>7 DEF Rwlock!LockedRead
  <2>2. \A u \in TaskIds \ {t} : B[u].phase = "held" => B[u].mode = "Read"
    <3>1. \A u \in TaskIds \ {t} : B[u].phase = "held" =>
            u \in rwlock_held_by[r].tasks /\ B[u].mode = rwlock_held_by[r].mode
      BY <1>2
    <3>2. rwlock_held_by[r].mode # "Write"
      BY <1>7 DEF Rwlock!LockedRead
    <3>3. rwlock_held_by[r].tasks # {} => rwlock_held_by[r].mode \in {"Read", "Write"}
      BY DEF RegistryIInv, OthersTypeOK, Rwlock!TypeOK, Rwlock!HeldAs, Rwlock!Unheld, Rwlock!Modes
    <3>4. QED
      BY <3>1, <3>2, <3>3
  <2>3. QED
    BY <1>2, <1>7, <2>1, <2>2 DEF Rwlock!HeldAs, Access
<1>8. ASSUME Rwlock!LockedWrite(t, r), B[t] = Access("held", "Write"),
             \A u \in TaskIds : A[u].phase # "held"
      PROVE  /\ \A u \in TaskIds : u \in rwlock_held_by'[r].tasks <=> B[u].phase = "held"
             /\ \A u \in TaskIds : B[u].phase = "held" => rwlock_held_by'[r].mode = B[u].mode
  <2>1. rwlock_held_by'[r] = Rwlock!HeldAs("Write", {t})
    BY <1>1, <1>8 DEF Rwlock!LockedWrite
  <2>2. QED
    BY <1>8, <2>1 DEF Rwlock!HeldAs, Access
<1>9. ASSUME NEW mode \in Rwlock!Modes, rwlock_waiting' = rwlock_waiting,
             A[t] = Access("held", mode), B[t] = Access("released", mode)
      PROVE  \A u \in TaskIds, n \in Rwlock!Modes :
               <<r, n>> \in rwlock_waiting'[u] <=> Wants(B[u], n)
  BY <1>2, <1>9 DEF Wants, Access
<1>10. ASSUME Rwlock!ReleasedRead(t, r), A[t] = Access("held", "Read"),
              B[t] = Access("released", "Read")
       PROVE  /\ \A u \in TaskIds : u \in rwlock_held_by'[r].tasks <=> B[u].phase = "held"
              /\ \A u \in TaskIds : B[u].phase = "held" => rwlock_held_by'[r].mode = B[u].mode
  <2> DEFINE left == rwlock_held_by[r].tasks \ {t}
  <2>1. /\ rwlock_held_by[r].mode = "Read"
        /\ rwlock_held_by'[r] = IF left = {} THEN Rwlock!Unheld ELSE Rwlock!HeldAs("Read", left)
    BY <1>1, <1>10 DEF Rwlock!ReleasedRead
  <2>2. \A u \in TaskIds : u \in left <=> B[u].phase = "held"
    <3>1. B[t].phase = "released"
      BY <1>10 DEF Access
    <3>2. QED
      BY <1>2, <3>1
  <2>3. \A u \in TaskIds : B[u].phase = "held" => B[u].mode = "Read"
    BY <1>2, <1>10, <2>1 DEF Access
  <2> HIDE DEF left
  <2>4. QED
    BY <2>1, <2>2, <2>3 DEF Rwlock!Unheld, Rwlock!HeldAs
<1>11. ASSUME Rwlock!ReleasedWrite(t, r), B[t] = Access("released", "Write"),
              \A u \in TaskIds : A[u].phase = "held" => u = t
       PROVE  /\ \A u \in TaskIds : u \in rwlock_held_by'[r].tasks <=> B[u].phase = "held"
              /\ \A u \in TaskIds : B[u].phase = "held" => rwlock_held_by'[r].mode = B[u].mode
  <2>1. rwlock_held_by'[r] = Rwlock!Unheld
    BY <1>1, <1>11 DEF Rwlock!ReleasedWrite
  <2>2. \A u \in TaskIds : B[u].phase # "held"
    <3>1. B[t].phase = "released"
      BY <1>11 DEF Access
    <3>2. QED
      BY <1>11, <3>1
  <2>3. QED
    BY <2>1, <2>2 DEF Rwlock!Unheld
<1>12. /\ Rwlock!LockedRead(t, r) => Rwlock!NoLongerWaits(t, r, "Read")
       /\ Rwlock!LockedWrite(t, r) => Rwlock!NoLongerWaits(t, r, "Write")
       /\ Rwlock!ReleasedRead(t, r) \/ Rwlock!ReleasedWrite(t, r)
            => rwlock_waiting' = rwlock_waiting
       /\ "Read" \in Rwlock!Modes /\ "Write" \in Rwlock!Modes
  BY DEF Rwlock!LockedRead, Rwlock!LockedWrite, Rwlock!ReleasedRead, Rwlock!ReleasedWrite,
         Rwlock!Modes
<1>13. QED
  BY <1>4, <1>5, <1>6, <1>7, <1>8, <1>9, <1>10, <1>11, <1>12

(* The model and the queue of the rwlocks, after an event. *)
LEMMA RwlocksFollow ==
  ASSUME RegistryIInv, RwlocksKnown, NEW t \in TaskIds, NEW l, IsLabel(l), Way(t).rwlock = l.rwlock,
         NEW e, Addressed(e), PermitsEvent(l, e), Accept(t, e),
         e.event = "LockedRwlock" => GrantedIn(queue[e.id], t),
         NEW r \in RwlockIds, NEW B, B[t] = AfterEvent(l, e).rwlock[r],
         \A u \in TaskIds \ {t} : B[u] = Accesses(r)[u]
  PROVE  ModelOf(r, B)' /\ QueueOf(queue[r], B)
<1> DEFINE A == Accesses(r)
<1>1. ModelOf(r, A) /\ QueueOf(queue[r], A) /\ A[t] = l.rwlock[r]
  BY DEF RwlocksKnown, Accesses
<1> HIDE DEF A
<1>2. \A u \in TaskIds \ {t} : B[u] = A[u]
  BY DEF A
<1>3. B[t] = RwlocksAfter(l.rwlock, e)[r] /\ DOMAIN l.rwlock = RwlockIds
  BY DEF AfterEvent, IsLabel
<1>4. CASE e.event \notin Rwlock!Events
  <2>1. UNCHANGED rwlockVars
    BY <1>4 DEF Accept
  <2>2. B[t] = A[t]
    BY <1>1, <1>3, <1>4 DEF RwlocksAfter, Rwlock!Events
  <2>3. ModelOf(r, B)'
    BY <1>1, <1>2, <2>1, <2>2 DEF ModelOf, rwlockVars, Wants, Rwlock!Modes
  <2>4. QueueOf(queue[r], B)
    BY <1>1, <1>2, <2>2, QueueSame
  <2>5. QED
    BY <2>3, <2>4
<1>5. ASSUME e.event \in Rwlock!Events
      PROVE  Rwlock!Accept(t, e) /\ e.id \in RwlockIds /\ e.arg \in Rwlock!Modes
  BY <1>5 DEF Accept, Addressed
<1>6. ASSUME e.event \in Rwlock!Events, e.id # r
      PROVE  ModelOf(r, B)' /\ QueueOf(queue[r], B)
  <2>1. B[t] = A[t]
    BY <1>1, <1>3, <1>6 DEF RwlocksAfter
  <2>2. /\ rwlock_held_by'[r] = rwlock_held_by[r]
        /\ \A u \in TaskIds, mode \in Rwlock!Modes :
             <<r, mode>> \in rwlock_waiting'[u] <=> <<r, mode>> \in rwlock_waiting[u]
    <3>1. Rwlock!TypeOK
      BY DEF RegistryIInv, OthersTypeOK
    <3>2. \E mode \in Rwlock!Modes :
            \/ Rwlock!LockingRwlock(t, e.id, mode) \/ Rwlock!NoLongerWaits(t, e.id, mode)
            \/ rwlock_waiting' = rwlock_waiting
      BY <1>5, <1>6
      DEF Rwlock!Accept, Rwlock!AbortedLockingRwlock, Rwlock!LockedRead, Rwlock!LockedWrite,
          Rwlock!ReleasedRead, Rwlock!ReleasedWrite
    <3>3. \/ rwlock_held_by' = rwlock_held_by
          \/ \E x : rwlock_held_by' = [rwlock_held_by EXCEPT ![e.id] = x]
      BY <1>5, <1>6
      DEF Rwlock!Accept, Rwlock!LockingRwlock, Rwlock!AbortedLockingRwlock, Rwlock!LockedRead,
          Rwlock!LockedWrite, Rwlock!ReleasedRead, Rwlock!ReleasedWrite
    <3>4. rwlock_held_by'[r] = rwlock_held_by[r]
      BY <1>6, <3>1, <3>3 DEF Rwlock!TypeOK
    <3>5. \A u \in TaskIds, mode \in Rwlock!Modes :
            <<r, mode>> \in rwlock_waiting'[u] <=> <<r, mode>> \in rwlock_waiting[u]
      BY <1>6, <3>1, <3>2 DEF Rwlock!TypeOK, Rwlock!LockingRwlock, Rwlock!NoLongerWaits
    <3>6. QED
      BY <3>4, <3>5
  <2>3. ModelOf(r, B)'
    BY <1>1, <1>2, <2>1, <2>2 DEF ModelOf, Wants, Rwlock!Modes
  <2>4. QueueOf(queue[r], B)
    BY <1>1, <1>2, <2>1, QueueSame
  <2>5. QED
    BY <2>3, <2>4
<1>7. CASE e.event \in Rwlock!Events /\ e.id = r
  <2>1. A[t] = l.rwlock[e.id]
    BY <1>1, <1>7
  <2>2. CASE e.event = "LockingRwlock"
    <3>1. A[t] = NoAccess /\ B[t] = Access("asked", e.arg)
      BY <1>3, <1>7, <2>1, <2>2 DEF PermitsEvent, RwlocksAfter
    <3>2. Rwlock!LockingRwlock(t, r, e.arg)
      BY <1>5, <1>7, <2>2 DEF Rwlock!Accept
    <3>3. ~InLine(A[t]) /\ ~InLine(B[t])
      BY <3>1 DEF InLine, NoAccess, Access
    <3>4. QED
      BY <1>1, <1>2, <1>5, <1>7, <3>1, <3>2, <3>3, ModelFollows, QueueStays
  <2>3. CASE e.event = "AbortedLockingRwlock"
    <3>1. A[t] = Access("asked", e.arg) /\ B[t] = NoAccess
      BY <1>3, <1>7, <2>1, <2>3 DEF PermitsEvent, RwlocksAfter
    <3>2. Rwlock!AbortedLockingRwlock(t, r, e.arg)
      BY <1>5, <1>7, <2>3 DEF Rwlock!Accept
    <3>3. ~InLine(A[t]) /\ ~InLine(B[t])
      BY <3>1 DEF InLine, NoAccess, Access
    <3>4. QED
      BY <1>1, <1>2, <1>5, <1>7, <3>1, <3>2, <3>3, ModelFollows, QueueStays
  <2>4. CASE e.event = "LockedRwlock"
    <3>1. A[t] = Access("queued", e.arg) /\ B[t] = Access("held", e.arg)
      BY <1>3, <1>7, <2>1, <2>4 DEF PermitsEvent, RwlocksAfter
    <3>2. GrantedIn(queue[r], t)
      BY <1>7, <2>4
    <3>3. QueueOf(queue[r], B)
      <4>1. InLine(A[t]) /\ InLine(B[t]) /\ B[t].mode = A[t].mode
        BY <3>1 DEF InLine, Access
      <4>2. QED
        BY <1>1, <1>2, <3>2, <4>1, QueueStays
    <3>4. CASE e.arg = "Read"
      <4>1. Rwlock!LockedRead(t, r)
        BY <1>5, <1>7, <2>4, <3>4 DEF Rwlock!Accept
      <4>2. QED
        BY <1>1, <1>2, <3>1, <3>3, <3>4, <4>1, ModelFollows
    <3>5. CASE e.arg = "Write"
      <4>1. Rwlock!LockedWrite(t, r)
        BY <1>5, <1>7, <2>4, <3>5 DEF Rwlock!Accept
      <4>2. ASSUME NEW u \in TaskIds, A[u].phase = "held"
            PROVE  FALSE
        <5>1. u # t /\ A[t].mode = "Write"
          BY <3>1, <3>5, <4>2 DEF Access
        <5>2. GrantedIn(queue[r], u)
          BY <1>1, <4>2 DEF QueueOf
        <5>3. QED
          BY <1>1, <3>2, <5>1, <5>2, SharedLock
      <4>3. QED
        BY <1>1, <1>2, <3>1, <3>3, <3>5, <4>1, <4>2, ModelFollows
    <3>6. QED
      BY <1>5, <1>7, <3>4, <3>5 DEF Rwlock!Modes
  <2>5. CASE e.event = "ReleasedRwlock"
    <3>1. A[t] = Access("held", e.arg) /\ B[t] = Access("released", e.arg)
      BY <1>3, <1>7, <2>1, <2>5 DEF PermitsEvent, RwlocksAfter
    <3>2. GrantedIn(queue[r], t)
      BY <1>1, <3>1 DEF QueueOf, Access
    <3>3. QueueOf(queue[r], B)
      <4>1. InLine(A[t]) /\ InLine(B[t]) /\ B[t].mode = A[t].mode
        BY <3>1 DEF InLine, Access
      <4>2. QED
        BY <1>1, <1>2, <3>2, <4>1, QueueStays
    <3>4. CASE e.arg = "Read"
      <4>1. Rwlock!ReleasedRead(t, r)
        BY <1>5, <1>7, <2>5, <3>4 DEF Rwlock!Accept
      <4>2. QED
        BY <1>1, <1>2, <3>1, <3>3, <3>4, <4>1, ModelFollows
    <3>5. CASE e.arg = "Write"
      <4>1. Rwlock!ReleasedWrite(t, r)
        BY <1>5, <1>7, <2>5, <3>5 DEF Rwlock!Accept
      <4>2. ASSUME NEW u \in TaskIds, A[u].phase = "held"
            PROVE  u = t
        <5>1. A[t].mode = "Write"
          BY <3>1, <3>5 DEF Access
        <5>2. GrantedIn(queue[r], u)
          BY <1>1, <4>2 DEF QueueOf
        <5>3. QED
          BY <1>1, <3>2, <5>1, <5>2, SharedLock
      <4>3. QED
        BY <1>1, <1>2, <3>1, <3>3, <3>5, <4>1, <4>2, ModelFollows
    <3>6. QED
      BY <1>5, <1>7, <3>4, <3>5 DEF Rwlock!Modes
  <2>6. QED
    BY <1>7, <2>2, <2>3, <2>4, <2>5 DEF Rwlock!Events
<1>8. QED
  BY <1>4, <1>6, <1>7

LEMMA OthersFollow ==
  ASSUME RegistryIInv, OthersKnown, NEW t \in TaskIds, NEW l, IsLabel(l), NEW e, Addressed(e),
         OthersOf(t, l), PermitsEvent(l, e), Accept(t, e)
  PROVE  /\ t \in is_in_join' <=> "join" \in AfterEvent(l, e).waits
         /\ t \in blocked_tasks' <=> "unknown" \in AfterEvent(l, e).waits
         /\ task_waits'[t] = AfterEvent(l, e).group
         /\ \A u \in TaskIds \ {t} :
              /\ u \in is_in_join' <=> u \in is_in_join
              /\ u \in blocked_tasks' <=> u \in blocked_tasks
              /\ task_waits'[u] = task_waits[u]
         /\ UNCHANGED watchVars
<1>1. TaskWait!TypeOK
  BY DEF RegistryIInv, OthersTypeOK
<1>2. UNCHANGED watchVars
  BY DEF Accept, PermitsEvent
<1>3. AfterEvent(l, e).waits = WaitsAfter(l.waits, e) /\ AfterEvent(l, e).group = GroupAfter(l.group, e)
  BY DEF AfterEvent
<1>4. /\ t \in is_in_join' <=> "join" \in WaitsAfter(l.waits, e)
      /\ \A u \in TaskIds \ {t} : u \in is_in_join' <=> u \in is_in_join
  BY DEF Accept, OthersOf, Join!Events, Join!Accept, Join!StartingJoin, Join!CompletedJoin, WaitsAfter
<1>5. /\ t \in blocked_tasks' <=> "unknown" \in WaitsAfter(l.waits, e)
      /\ \A u \in TaskIds \ {t} : u \in blocked_tasks' <=> u \in blocked_tasks
  BY DEF Accept, OthersOf, Unknown!Events, Unknown!Accept, Unknown!TaskWaitForUnknownStarted,
         Unknown!TaskWaitForUnknownCompleted, WaitsAfter
<1>6. /\ task_waits'[t] = GroupAfter(l.group, e)
      /\ \A u \in TaskIds \ {t} : task_waits'[u] = task_waits[u]
  <2>1. CASE e.event \in {"TaskWaitAnyN", "TaskWaitNth", "TaskWaitCompleted"}
    BY <1>1, <2>1
    DEF Accept, TaskWait!Events, TaskWait!Accept, TaskWait!TaskWaitAnyN, TaskWait!TaskWaitNth,
        TaskWait!TaskWaitCompleted, TaskWait!WaitFor, TaskWait!TypeOK, GroupAfter
  <2>2. CASE e.event \notin {"TaskWaitAnyN", "TaskWaitNth", "TaskWaitCompleted"}
    <3>1. task_waits' = task_waits
      BY <2>2
      DEF Accept, TaskWait!Events, TaskWait!Accept, TaskWait!NewTaskGroup, TaskWait!FreeTaskGroup,
          TaskWait!TaskSpawned, TaskWait!TaskStarted, TaskWait!TaskCompleted, taskWaitVars
    <3>2. GroupAfter(l.group, e) = l.group
      BY <2>2 DEF GroupAfter
    <3>3. QED
      BY <3>1, <3>2 DEF OthersOf
  <2>3. QED
    BY <2>1, <2>2
<1>7. QED
  BY <1>2, <1>3, <1>4, <1>5, <1>6

(* What an event and a point do to the way of a task through a mutex. *)
LEMMA PhasesFollow ==
  ASSUME NEW l, IsLabel(l), NEW e, Addressed(e), PermitsEvent(l, e), NEW m \in MutexIds
  PROVE  LET k == AfterEvent(l, e).mutex[m] IN
         /\ k \in {"queued", "held"} <=> l.mutex[m] \in {"queued", "held"}
         /\ k = "dropped" => l.mutex[m] = "dropped"
         /\ k = "waiting" => l.mutex[m] = "waiting"
<1>1. CASE e.event \notin Mutex!Events
  BY <1>1 DEF AfterEvent, MutexesAfter, Mutex!Events
<1>2. CASE e.event \in Mutex!Events
  <2>1. e.id \in MutexIds /\ l.mutex \in [MutexIds -> Phases]
    BY <1>2 DEF Addressed, IsLabel
  <2>2. ASSUME NEW phase \in Phases, AfterEvent(l, e).mutex = [l.mutex EXCEPT ![e.id] = phase]
        PROVE  AfterEvent(l, e).mutex[m] = IF m = e.id THEN phase ELSE l.mutex[m]
    BY <2>1, <2>2
  <2>3. CASE e.event = "LockingMutex"
    <3>1. AfterEvent(l, e).mutex = [l.mutex EXCEPT ![e.id] = "asked"]
      BY <2>3 DEF AfterEvent, MutexesAfter
    <3>2. QED
      BY <2>2, <2>3, <3>1 DEF PermitsEvent, Phases
  <2>4. CASE e.event = "LockedMutex"
    <3>1. AfterEvent(l, e).mutex = [l.mutex EXCEPT ![e.id] = "held"]
      BY <2>4 DEF AfterEvent, MutexesAfter
    <3>2. QED
      BY <2>2, <2>4, <3>1 DEF PermitsEvent, Phases
  <2>5. CASE e.event \in {"ReleasedMutex", "AbortedLockingMutex"}
    <3>1. AfterEvent(l, e).mutex = [l.mutex EXCEPT ![e.id] = "free"]
      BY <2>5 DEF AfterEvent, MutexesAfter
    <3>2. QED
      BY <2>2, <2>5, <3>1 DEF PermitsEvent, Phases
  <2>6. QED
    BY <1>2, <2>3, <2>4, <2>5 DEF Mutex!Events
<1>3. QED
  BY <1>1, <1>2

(* An event that the registry accepts. *)
LEMMA EventStep ==
  ASSUME IInv, NEW t \in Alive, state[t] = "Running", Sound(Label(t)), NEW e, Addressed(e),
         PermitsEvent(Label(t), e), Accept(t, e), Moves(t), t \in Alive', UNCHANGED queue,
         e.event = "LockedRwlock" => GrantedIn(queue[e.id], t),
         \/ Label(t)' = AfterEvent(Label(t), e) /\ state'[t] = "Running"
         \/ /\ Label(t)' = AfterPoint(AfterEvent(Label(t), e)) /\ state'[t] = "Ready"
            /\ AtRest(AfterPoint(AfterEvent(Label(t), e)))
  PROVE  Disciplines'
<1> DEFINE l == Label(t)
           k == AfterEvent(l, e)
<1>1. /\ Tasks' = Tasks
      /\ Alive' = Alive
      /\ \A u \in Tasks \ {t} : Label(u)' = Label(u) /\ (AtEnd(u)' <=> AtEnd(u))
      /\ Alive \subseteq Tasks
      /\ Tasks \subseteq TaskIds
      /\ \A u \in Tasks \ {t} : state'[u] = state[u] /\ ip'[u] = ip[u]
      /\ t \in Tasks /\ t \in TaskIds
  BY OthersStay DEF Moves, Alive, Tasks
<1>2. RegistryIInv /\ MutexesOf(t, l) /\ barrier_waiting[t] = l.barrier /\ OthersOf(t, l)
      /\ BarriersKnown /\ OthersKnown /\ Exclusive /\ MutexesKnown /\ RwlocksKnown
  BY <1>1 DEF IInv, Disciplines, TestIInv, MutexesKnown, BarriersKnown, OthersKnown, Way
<1>3. IsLabel(l) /\ IsLabel(k)
  BY AfterEventLabel DEF Sound
<1>4. /\ \A m \in MutexIds :
           /\ Label(t)'.mutex[m] \in {"queued", "held", "dropped"} <=>
                k.mutex[m] \in {"queued", "held", "dropped"}
           /\ Label(t)'.mutex[m] \in {"queued", "held"} <=> k.mutex[m] \in {"queued", "held"}
           /\ Label(t)'.mutex[m] \in {"held", "dropped"} <=> k.mutex[m] \in {"held", "dropped"}
           /\ Label(t)'.mutex[m] \in {"asked", "waiting", "queued"} <=>
                k.mutex[m] \in {"asked", "waiting", "queued"}
           /\ Label(t)'.mutex[m] = "waiting" /\ state'[t] = "Running" => k.mutex[m] = "waiting"
      /\ Label(t)'.rwlock = k.rwlock
      /\ Label(t)'.barrier = k.barrier
      /\ Label(t)'.waits = k.waits
      /\ Label(t)'.group = k.group
  BY <1>3, AfterPointParts
<1>5. state'[t] = "Ready" => AtRest(Label(t))'
  BY DEF AtRest
<1>15. /\ Way(t) = l /\ Way(t)' = Label(t)'
       /\ \A u \in TaskIds \ {t} : Way(u)' = Way(u)
  BY OthersStay DEF Way
<1> HIDE DEF k
<1>6. Living'
  BY <1>1, <1>5 DEF Moves, IInv, Disciplines, Living
<1>7. ASSUME NEW m \in MutexIds, NEW u \in Tasks, Owns(u, m)'
      PROVE  Owns(u, m)
  <2>1. CASE u = t
    BY <1>1, <1>3, <1>4, <1>7, <2>1, PhasesFollow DEF Owns, Phase, k
  <2>2. CASE u # t
    BY <1>1, <1>2, <1>3, <1>7, <2>2, MutexesOfOthers DEF Owns, Phase
  <2>3. QED
    BY <2>1, <2>2
<1>8. Exclusive'
  BY <1>1, <1>2, <1>7 DEF Exclusive
<1>9. MutexesKnown'
  <2>1. MutexesOf(t, Label(t))'
    BY <1>1, <1>2, <1>3, <1>4, MutexesFollow DEF MutexesOf, Taking, k
  <2>2. ASSUME NEW u \in Alive, u # t
        PROVE  MutexesOf(u, Label(u))'
    <3>1. ASSUME NEW m \in MutexIds, mutex_held_by[m] = u
          PROVE  l.mutex[m] # "queued"
      BY <1>1, <1>2, <2>2, <3>1 DEF Exclusive, Owns, Phase, MutexesKnown, MutexesOf
    <3>2. /\ mutex_waiting'[u] = mutex_waiting[u]
          /\ \A m \in MutexIds : mutex_held_by'[m] = u <=> mutex_held_by[m] = u
      BY <1>1, <1>2, <1>3, <2>2, <3>1, MutexesOfOthers
    <3>3. MutexesOf(u, Label(u)) /\ Label(u)' = Label(u)
      BY <1>1, <1>2, <2>2 DEF MutexesKnown
    <3>4. QED
      BY <3>2, <3>3 DEF MutexesOf, Taking
  <2>3. \A m \in MutexIds : mutex_held_by'[m] \in Tasks \cup {None}
    <3>1. Mutex!TypeOK
      BY <1>2 DEF RegistryIInv, MutexIInv
    <3>2. \A m \in MutexIds : mutex_held_by'[m] \in {mutex_held_by[m], t, None}
      BY <1>1, <1>2, <1>3, HolderChanges
    <3>3. QED
      BY <1>1, <1>2, <3>2 DEF MutexesKnown
  <2>4. QED
    BY <1>1, <2>1, <2>2, <2>3 DEF MutexesKnown
<1>10. QueuesKnown'
  <2>1. \A u \in Alive, m \in MutexIds : InQueue(Label(u), m)' <=> InQueue(Label(u), m)
    BY <1>1, <1>3, <1>4, PhasesFollow DEF InQueue, k
  <2>2. QED
    BY <1>1, <2>1 DEF IInv, Disciplines, QueuesKnown
<1>11. BarriersKnown'
  <2>1. /\ barrier_waiting'[t] = k.barrier
        /\ \A u \in TaskIds \ {t} : barrier_waiting'[u] = barrier_waiting[u]
        /\ \A b \in BarrierIds :
             /\ \A u \in TaskIds : u \in barriers'[b].tasks <=> barrier_waiting'[u] = b
             /\ barriers'[b].tasks # {} => Barrier!Exists(b)'
    BY <1>1, <1>2, <1>3, BarriersFollow DEF k
  <2>2. \A u \in TaskIds : barrier_waiting'[u] = Way(u)'.barrier
    BY <1>1, <1>2, <1>4, <1>15, <2>1 DEF BarriersKnown
  <2>3. QED
    BY <2>1, <2>2 DEF BarriersKnown
<1>12. OthersKnown'
  <2>1. /\ t \in is_in_join' <=> "join" \in k.waits
        /\ t \in blocked_tasks' <=> "unknown" \in k.waits
        /\ task_waits'[t] = k.group
        /\ \A u \in TaskIds \ {t} :
             /\ u \in is_in_join' <=> u \in is_in_join
             /\ u \in blocked_tasks' <=> u \in blocked_tasks
             /\ task_waits'[u] = task_waits[u]
        /\ UNCHANGED watchVars
    BY <1>1, <1>2, <1>3, OthersFollow DEF k
  <2>2. \A u \in Alive : OthersOf(u, Label(u))'
    BY <1>1, <1>2, <1>4, <2>1 DEF OthersOf, OthersKnown
  <2>3. QED
    BY <1>1, <1>2, <2>1, <2>2 DEF OthersKnown, watchVars
<1>13. RwlocksKnown'
  <2>1. ASSUME NEW r \in RwlockIds
        PROVE  (ModelOf(r, Accesses(r)) /\ QueueOf(queue[r], Accesses(r)))'
    <3>1. PICK B : B = [u \in TaskIds |-> Way(u)'.rwlock[r]]
      OBVIOUS
    <3>2. B[t] = k.rwlock[r] /\ \A u \in TaskIds \ {t} : B[u] = Accesses(r)[u]
      BY <1>1, <1>4, <1>15, <3>1 DEF Accesses
    <3>3. ModelOf(r, B)' /\ QueueOf(queue[r], B)
      <4>1. Way(t).rwlock = l.rwlock
        BY <1>15
      <4>2. QED
        BY <1>1, <1>2, <1>3, <3>2, <4>1, RwlocksFollow DEF k
    <3>4. Accesses(r)' = B
      BY <3>1 DEF Accesses
    <3>5. ModelOf(r, Accesses(r))'
      BY <3>3, <3>4 DEF ModelOf
    <3>6. QueueOf(queue'[r], Accesses(r)')
      BY <3>3, <3>4
    <3>7. QueueOf(queue[r], Accesses(r))'
      BY <3>6 DEF QueueOf, GrantedIn, Line, Entries, Rwlock!Modes
    <3>8. QED
      BY <3>5, <3>7
  <2>2. QED
    BY <2>1 DEF RwlocksKnown
<1>14. QED
  BY <1>6, <1>8, <1>9, <1>10, <1>11, <1>12, <1>13 DEF Disciplines

(* A task that has said all it has done becomes Ready. *)
LEMMA SuspendStep ==
  ASSUME IInv, NEW t \in Alive, state[t] = "Running", Sound(Label(t)),
         UNCHANGED registryVars, Moves(t), t \in Alive', UNCHANGED queue,
         Label(t)' = AfterPoint(Label(t)), state'[t] = "Ready", AtRest(AfterPoint(Label(t)))
  PROVE  Disciplines'
<1>1. /\ Tasks' = Tasks
      /\ Alive' = Alive
      /\ \A u \in Tasks \ {t} : Label(u)' = Label(u) /\ (AtEnd(u)' <=> AtEnd(u))
      /\ Alive \subseteq Tasks
      /\ \A u \in Tasks \ {t} : state'[u] = state[u] /\ ip'[u] = ip[u]
  BY OthersStay DEF Moves, Alive
<1>2. /\ \A m \in MutexIds :
           /\ Label(t)'.mutex[m] = "queued" <=> Label(t).mutex[m] = "queued"
           /\ Label(t)'.mutex[m] = "held" <=> Label(t).mutex[m] = "held"
           /\ Label(t)'.mutex[m] = "dropped" <=> Label(t).mutex[m] = "dropped"
           /\ Label(t)'.mutex[m] \in {"asked", "waiting"} <=>
                 Label(t).mutex[m] \in {"asked", "waiting"}
      /\ Label(t)'.rwlock = Label(t).rwlock
      /\ Label(t)'.barrier = Label(t).barrier
      /\ Label(t)'.waits = Label(t).waits
      /\ Label(t)'.group = Label(t).group
  BY AfterPointParts DEF Sound
<1>10. \A u \in TaskIds : /\ Way(u)'.barrier = Way(u).barrier
                          /\ \A r \in RwlockIds : Way(u)'.rwlock[r] = Way(u).rwlock[r]
  BY <1>2, WaysStay
<1>3. Living'
  <2>1. AtRest(Label(t))'
    BY DEF AtRest
  <2>2. QED
    BY <1>1, <2>1 DEF Moves, IInv, Disciplines, Living
<1>4. MutexesKnown'
  BY <1>1, <1>2 DEF IInv, Disciplines, MutexesKnown, MutexesOf, Taking, registryVars, mutexVars
<1>5. QueuesKnown'
  BY <1>1, <1>2 DEF IInv, Disciplines, QueuesKnown, InQueue
<1>6. Exclusive'
  <2>1. ASSUME NEW m \in MutexIds, NEW u \in Tasks, Owns(u, m)'
        PROVE  Owns(u, m)
    BY <1>1, <1>2, <2>1 DEF Owns, Phase, registryVars, mutexVars
  <2>2. QED
    BY <1>1, <2>1 DEF IInv, Disciplines, Exclusive
<1>7. BarriersKnown'
  BY <1>10 DEF IInv, Disciplines, BarriersKnown, registryVars, barrierVars, Barrier!Exists
<1>8. OthersKnown'
  BY <1>1, <1>2 DEF IInv, Disciplines, OthersKnown, OthersOf, registryVars, watchVars, taskWaitVars
<1>11. RwlocksKnown'
  BY <1>10, RwlocksStay DEF IInv, Disciplines, registryVars
<1>9. QED
  BY <1>3, <1>4, <1>5, <1>6, <1>7, <1>8, <1>11 DEF Disciplines

(* The task that says that it has the rwlock has been granted it. *)
LEMMA LockedIsGranted ==
  ASSUME IInv, NEW t \in Alive, CanStep(t), NEW e, Addressed(e), PermitsEvent(Label(t), e),
         e.event = "LockedRwlock"
  PROVE  GrantedIn(queue[e.id], t)
<1>1. e.id \in RwlockIds /\ e.id \in Locks /\ t \in TaskIds
  BY SystemAssumption DEF Addressed, Rwlock!Events, Alive, Tasks
<1>2. Label(t).rwlock[e.id] = Access("queued", e.arg)
  BY DEF PermitsEvent
<1>3. Accesses(e.id)[t].phase = "queued"
  BY <1>1, <1>2 DEF Accesses, Way, Access
<1>4. QueueOf(queue[e.id], Accesses(e.id))
  BY <1>1 DEF IInv, Disciplines, RwlocksKnown
<1>5. Queued(e.id, t)
  BY <1>1, <1>3, <1>4 DEF QueueOf, Queued
<1>6. Granted(e.id, t)
  BY <1>1, <1>5 DEF CanStep, Waits
<1>7. QED
  BY <1>6 DEF Granted, GrantedIn, Line

(* Only that a barrier does not exist can make a model refuse an event,    *)
(* which changes nothing.                                                  *)
LEMMA RejectIsVoid ==
  ASSUME RegistryIInv, BarriersKnown, RwlocksKnown, NEW t \in TaskIds, NEW l, IsLabel(l),
         NEW e, Addressed(e), MutexesOf(t, l), OthersOf(t, l), barrier_waiting[t] = l.barrier,
         Way(t).rwlock = l.rwlock, PermitsEvent(l, e), Reject(t, e),
         e.event = "LockedRwlock" => GrantedIn(queue[e.id], t)
  PROVE  UNCHANGED registryVars /\ e.event = "WaitingForBarrier" /\ ~Barrier!Exists(e.id)
<1>1. e.event \notin Mutex!Events
  <2>1. SUFFICES ASSUME e.event \in Mutex!Events PROVE FALSE
    OBVIOUS
  <2>2. Mutex!Reject(t, e) /\ e.id \in MutexIds
    BY <2>1 DEF Reject, Addressed
  <2>3. /\ e.id \in mutex_waiting[t] <=> Taking(l, e.id)
        /\ mutex_held_by[e.id] = t <=> l.mutex[e.id] \in {"held", "dropped"}
    BY <2>2 DEF MutexesOf
  <2>4. QED
    BY <2>1, <2>2, <2>3
    DEF Mutex!Reject, Mutex!BadLockingMutex, Mutex!BadAbortedLockingMutex, Mutex!BadLockedMutex,
        Mutex!BadReleasedMutex, PermitsEvent, Taking
<1>2. e.event \notin Join!Events
  <2>1. SUFFICES ASSUME e.event \in Join!Events PROVE FALSE
    OBVIOUS
  <2>2. Join!Reject(t, e)
    BY <2>1 DEF Reject
  <2>3. QED
    BY <2>2 DEF Join!Reject, Join!BadStartingJoin, Join!BadCompletedJoin, OthersOf, PermitsEvent
<1>3. e.event \notin Rwlock!Events
  <2>1. SUFFICES ASSUME e.event \in Rwlock!Events PROVE FALSE
    OBVIOUS
  <2> DEFINE r == e.id
             A == Accesses(r)
  <2>2. Rwlock!Reject(t, e) /\ r \in RwlockIds /\ e.arg \in Rwlock!Modes
    BY <2>1 DEF Reject, Addressed
  <2>3. A[t] = l.rwlock[r] /\ ModelOf(r, A) /\ QueueOf(queue[r], A)
    BY <2>2 DEF RwlocksKnown, Accesses
  <2> HIDE DEF A
  <2>4. ASSUME e.event \in {"AbortedLockingRwlock", "LockedRwlock"}
        PROVE  <<r, e.arg>> \in rwlock_waiting[t]
    <3>1. Wants(A[t], e.arg)
      BY <2>3, <2>4 DEF PermitsEvent, Wants, Access
    <3>2. QED
      BY <2>2, <2>3, <3>1 DEF ModelOf
  <2>5. ASSUME e.event = "LockedRwlock", e.arg = "Read"
        PROVE  rwlock_held_by[r].mode # "Write"
    <3>1. SUFFICES ASSUME rwlock_held_by[r].mode = "Write" PROVE FALSE
      OBVIOUS
    <3>2. rwlock_held_by[r].tasks \subseteq TaskIds /\ rwlock_held_by[r].tasks # {}
      BY <2>2, <3>1 DEF RegistryIInv, OthersTypeOK, Rwlock!TypeOK, Rwlock!HeldAs, Rwlock!Unheld
    <3>3. PICK u \in TaskIds : u \in rwlock_held_by[r].tasks
      BY <3>2
    <3>4. A[u].phase = "held" /\ A[u].mode = "Write"
      BY <2>3, <3>1, <3>3 DEF ModelOf
    <3>5. u # t
      BY <2>3, <2>5, <3>4 DEF PermitsEvent, Access
    <3>6. GrantedIn(queue[r], u)
      BY <2>3, <3>4 DEF QueueOf
    <3>7. QED
      BY <2>3, <2>5, <3>4, <3>5, <3>6, SharedLock
  <2>6. ASSUME e.event = "ReleasedRwlock", e.arg = "Read"
        PROVE  rwlock_held_by[r].mode = "Read"
    <3>1. A[t].phase = "held" /\ A[t].mode = "Read"
      BY <2>3, <2>6 DEF PermitsEvent, Access
    <3>2. QED
      BY <2>3, <3>1 DEF ModelOf
  <2>7. QED
    BY <2>2, <2>4, <2>5, <2>6
    DEF Rwlock!Reject, Rwlock!DoesNotWait, Rwlock!BadLockedRead, Rwlock!BadReleasedRead
<1>4. e.event \in Barrier!Events /\ Barrier!Reject(t, e) /\ e.id \in BarrierIds
  BY <1>1, <1>2, <1>3 DEF Reject, Addressed
<1>5. e.event # "CompletedBarrierWait"
  <2>1. SUFFICES ASSUME e.event = "CompletedBarrierWait" PROVE FALSE
    OBVIOUS
  <2>2. barrier_waiting[t] = e.id
    BY <2>1 DEF PermitsEvent
  <2>3. Barrier!Exists(e.id)
    BY <1>4, <2>2 DEF BarriersKnown
  <2>4. QED
    BY <1>4, <2>1, <2>3 DEF Barrier!Reject, Barrier!BadLeave
<1>6. e.event = "WaitingForBarrier" /\ barrier_waiting[t] = None
  BY <1>4, <1>5 DEF Barrier!Events, PermitsEvent
<1>7. UNCHANGED barrierVars /\ ~Barrier!Exists(e.id)
  BY <1>4, <1>6 DEF Barrier!Reject, Barrier!BadWaitingForBarrier, barrierVars
<1>8. QED
  BY <1>1, <1>2, <1>3, <1>6, <1>7 DEF Reject, registryVars

-----------------------------------------------------------------------------
LEMMA MutexPhaseParts ==
  ASSUME NEW l, IsLabel(l), NEW m \in MutexIds, NEW p
  PROVE  /\ \A n \in MutexIds : MutexPhase(l, m, p).mutex[n] = IF n = m THEN p ELSE l.mutex[n]
         /\ MutexPhase(l, m, p).rwlock = l.rwlock
         /\ MutexPhase(l, m, p).barrier = l.barrier
         /\ MutexPhase(l, m, p).waits = l.waits
         /\ MutexPhase(l, m, p).group = l.group
<1>1. /\ l = [mutex |-> l.mutex, rwlock |-> l.rwlock, barrier |-> l.barrier, came |-> l.came,
              waits |-> l.waits, group |-> l.group]
      /\ l.mutex \in [MutexIds -> Phases]
  BY DEF IsLabel
<1>2. QED
  BY <1>1 DEF MutexPhase

LEMMA RwlockAccessParts ==
  ASSUME NEW l, IsLabel(l), NEW r \in RwlockIds, NEW access
  PROVE  LET k == RwlockAccess(l, r, access) IN
         /\ \A s \in RwlockIds : k.rwlock[s] = IF s = r THEN access ELSE l.rwlock[s]
         /\ k.mutex = l.mutex
         /\ k.barrier = l.barrier
         /\ k.waits = l.waits
         /\ k.group = l.group
<1>1. /\ l = [mutex |-> l.mutex, rwlock |-> l.rwlock, barrier |-> l.barrier, came |-> l.came,
              waits |-> l.waits, group |-> l.group]
      /\ l.rwlock \in [RwlockIds -> [phase : RwPhases, mode : Rwlock!Modes]]
  BY DEF IsLabel
<1>2. QED
  BY <1>1 DEF RwlockAccess

(* A task that takes or drops its mutex, which was free or its own. *)
LEMMA TakeOrDropStep ==
  ASSUME IInv, NEW t \in Alive, state[t] = "Running", state'[t] = "Running", Sound(Label(t)),
         Moves(t), t \in Alive', UNCHANGED registryVars, NEW m \in MutexIds,
         \/ /\ Phase(t, m) = "waiting" /\ Label(t)' = MutexPhase(Label(t), m, "queued")
            /\ queue' = [queue EXCEPT ![m] = Append(@, Entry(t))]
         \/ /\ Phase(t, m) = "held" /\ Label(t)' = MutexPhase(Label(t), m, "dropped")
            /\ queue' = [queue EXCEPT ![m] = LeaveQueue(@, {t})]
  PROVE  Disciplines'
<1>1. /\ Tasks' = Tasks
      /\ Alive' = Alive
      /\ \A u \in Tasks \ {t} : Label(u)' = Label(u) /\ (AtEnd(u)' <=> AtEnd(u))
      /\ Alive \subseteq Tasks
      /\ \A u \in Tasks \ {t} : state'[u] = state[u] /\ ip'[u] = ip[u]
      /\ t \in Tasks
  BY OthersStay DEF Moves, Alive
<1>2. /\ \A n \in MutexIds \ {m} : Label(t)'.mutex[n] = Label(t).mutex[n]
      /\ \/ Label(t).mutex[m] = "waiting" /\ Label(t)'.mutex[m] = "queued"
         \/ Label(t).mutex[m] = "held" /\ Label(t)'.mutex[m] = "dropped"
      /\ Label(t)'.rwlock = Label(t).rwlock
      /\ Label(t)'.barrier = Label(t).barrier
      /\ Label(t)'.waits = Label(t).waits
      /\ Label(t)'.group = Label(t).group
  BY MutexPhaseParts DEF Sound, Phase
<1>11. \A u \in TaskIds : /\ Way(u)'.barrier = Way(u).barrier
                          /\ \A r \in RwlockIds : Way(u)'.rwlock[r] = Way(u).rwlock[r]
  BY <1>2, WaysStay
<1>3. \A u \in Tasks : Owns(u, m) => u = t
  BY <1>1, <1>2 DEF IInv, Disciplines, Exclusive, Owns, Phase
<1>4. Living'
  BY <1>1 DEF Moves, IInv, Disciplines, Living
<1>5. MutexesKnown'
  BY <1>1, <1>2 DEF IInv, Disciplines, MutexesKnown, MutexesOf, Taking, registryVars, mutexVars
<1>6. Exclusive'
  <2>1. ASSUME NEW n \in MutexIds, NEW u \in Tasks, Owns(u, n)'
        PROVE  Owns(u, n)
    BY <1>1, <1>2, <2>1 DEF Owns, Phase, registryVars, mutexVars
  <2>2. QED
    BY <1>1, <2>1 DEF IInv, Disciplines, Exclusive
<1>12. /\ DOMAIN queue = Locks /\ m \in Locks
       /\ DOMAIN queue' = Locks
       /\ \A l \in Locks \ {m} : queue'[l] = queue[l]
  BY SystemAssumption DEF IInv, Disciplines, QueuesKnown
<1>7. QueuesKnown'
  <2>3. \A u \in Alive : InQueue(Label(u), m) => u = t
    BY <1>1, <1>3 DEF InQueue, Owns, Phase
  <2>4. \A u \in Alive : InQueue(Label(u), m)' => u = t
    BY <1>1, <2>3 DEF InQueue
  <2>5. InQueue(Label(t), m)' => queue'[m] = <<Entry(t)>>
    <3>1. CASE Label(t)'.mutex[m] = "queued"
      <4>1. queue[m] = <<>>
        BY <1>2, <2>3, <3>1 DEF IInv, Disciplines, QueuesKnown, InQueue
      <4>2. queue'[m] = Append(queue[m], Entry(t))
        BY <1>2, <1>12, <3>1 DEF Phase
      <4>3. QED
        BY <4>1, <4>2
    <3>2. QED
      BY <1>2, <3>1 DEF InQueue
  <2>6. ~InQueue(Label(t), m)' => queue'[m] = <<>>
    <3>1. CASE Label(t)'.mutex[m] = "dropped"
      <4>1. queue[m] = <<Entry(t)>>
        BY <1>2, <3>1 DEF IInv, Disciplines, QueuesKnown, InQueue
      <4>2. queue'[m] = LeaveQueue(queue[m], {t})
        BY <1>2, <1>12, <3>1 DEF Phase
      <4>3. QED
        BY <4>1, <4>2, LeaveOne DEF Entry
    <3>2. QED
      BY <1>2, <3>1 DEF InQueue
  <2>7. \A n \in MutexIds \ {m}, u \in Alive : InQueue(Label(u), n)' <=> InQueue(Label(u), n)
    BY <1>1, <1>2 DEF InQueue
  <2>8. ASSUME NEW n \in MutexIds
        PROVE  /\ \A u \in Alive' : InQueue(Label(u), n)' => queue'[n] = <<Entry(u)>>
               /\ queue'[n] # <<>> =>
                    \E u \in Alive' : InQueue(Label(u), n)' /\ queue'[n] = <<Entry(u)>>
    <3>1. CASE n = m
      BY <1>1, <2>4, <2>5, <2>6, <3>1
    <3>2. CASE n # m
      <4>1. queue'[n] = queue[n]
        BY <1>12, <3>2, SystemAssumption
      <4>2. QED
        BY <1>1, <2>7, <3>2, <4>1 DEF IInv, Disciplines, QueuesKnown
    <3>3. QED
      BY <3>1, <3>2
  <2>10. QED
    BY <1>12, <2>8 DEF QueuesKnown, Entry, InQueue
<1>8. BarriersKnown'
  BY <1>11 DEF IInv, Disciplines, BarriersKnown, registryVars, barrierVars, Barrier!Exists
<1>9. OthersKnown'
  BY <1>1, <1>2 DEF IInv, Disciplines, OthersKnown, OthersOf, registryVars, watchVars, taskWaitVars
<1>13. RwlocksKnown'
  BY <1>11, <1>12, RwlocksStay, SystemAssumption DEF IInv, Disciplines, registryVars
<1>10. QED
  BY <1>4, <1>5, <1>6, <1>7, <1>8, <1>9, <1>13 DEF Disciplines

(* A task that gets in line for a rwlock, or drops what it has said to     *)
(* have released.                                                          *)
LEMMA RwlockStep ==
  ASSUME IInv, NEW t \in Alive, state[t] = "Running", state'[t] = "Running", Sound(Label(t)),
         Moves(t), t \in Alive', UNCHANGED registryVars, NEW r \in RwlockIds,
         \/ \E mode \in Rwlock!Modes :
              /\ Label(t).rwlock[r] = Access("asked", mode)
              /\ Label(t)' = RwlockAccess(Label(t), r, Access("queued", mode))
              /\ queue' = [queue EXCEPT ![r] = Append(@, [task |-> t, mode |-> mode])]
         \/ /\ Label(t).rwlock[r].phase = "released"
            /\ Label(t)' = RwlockAccess(Label(t), r, NoAccess)
            /\ queue' = [queue EXCEPT ![r] = LeaveQueue(@, {t})]
  PROVE  Disciplines'
<1>1. /\ Tasks' = Tasks
      /\ Alive' = Alive
      /\ \A u \in Tasks \ {t} : Label(u)' = Label(u) /\ (AtEnd(u)' <=> AtEnd(u))
      /\ Alive \subseteq Tasks
      /\ Tasks \subseteq TaskIds
      /\ \A u \in Tasks \ {t} : state'[u] = state[u] /\ ip'[u] = ip[u]
      /\ t \in Tasks
  BY OthersStay DEF Moves, Alive, Tasks
<1>2. /\ \A s \in RwlockIds \ {r} : Label(t)'.rwlock[s] = Label(t).rwlock[s]
      /\ Label(t)'.mutex = Label(t).mutex
      /\ Label(t)'.barrier = Label(t).barrier
      /\ Label(t)'.waits = Label(t).waits
      /\ Label(t)'.group = Label(t).group
  <2>1. PICK access : Label(t)' = RwlockAccess(Label(t), r, access)
    OBVIOUS
  <2>2. IsLabel(Label(t))
    BY DEF Sound
  <2>3. QED
    BY <2>1, <2>2, RwlockAccessParts
<1>3. /\ Way(t)' = Label(t)' /\ Way(t) = Label(t)
      /\ \A u \in TaskIds \ {t} : Way(u)' = Way(u)
  BY OthersStay DEF Way
<1>4. Living'
  BY <1>1 DEF Moves, IInv, Disciplines, Living
<1>5. MutexesKnown'
  BY <1>1, <1>2 DEF IInv, Disciplines, MutexesKnown, MutexesOf, Taking, registryVars, mutexVars
<1>6. Exclusive'
  <2>1. ASSUME NEW n \in MutexIds, NEW u \in Tasks, Owns(u, n)'
        PROVE  Owns(u, n)
    BY <1>1, <1>2, <2>1 DEF Owns, Phase, registryVars, mutexVars
  <2>2. QED
    BY <1>1, <2>1 DEF IInv, Disciplines, Exclusive
<1>7. /\ DOMAIN queue = Locks /\ r \in Locks
      /\ DOMAIN queue' = Locks
      /\ \A l \in Locks \ {r} : queue'[l] = queue[l]
      /\ MutexIds \subseteq Locks \ {r}
      /\ RwlockIds \subseteq Locks
  BY SystemAssumption DEF IInv, Disciplines, QueuesKnown
<1>14. \/ \E mode \in Rwlock!Modes :
            /\ Label(t).rwlock[r] = Access("asked", mode)
            /\ Label(t)'.rwlock[r] = Access("queued", mode)
            /\ queue'[r] = Append(queue[r], [task |-> t, mode |-> mode])
       \/ /\ Label(t).rwlock[r].phase = "released"
          /\ Label(t)'.rwlock[r] = NoAccess
          /\ queue'[r] = LeaveQueue(queue[r], {t})
  <2>1. IsLabel(Label(t))
    BY DEF Sound
  <2>2. \A access : Label(t)' = RwlockAccess(Label(t), r, access) => Label(t)'.rwlock[r] = access
    BY <2>1, RwlockAccessParts
  <2>3. \A x : queue' = [queue EXCEPT ![r] = x] => queue'[r] = x
    BY <1>7
  <2>4. QED
    BY <2>2, <2>3
<1>8. QueuesKnown'
  <2>1. \A m \in MutexIds : queue'[m] = queue[m]
    BY <1>7
  <2>2. \A u \in Alive : Label(u)'.mutex = Label(u).mutex
    BY <1>1, <1>2
  <2>3. QueuesKnown /\ DOMAIN queue' = Locks
    BY <1>7 DEF IInv, Disciplines
  <2>4. ASSUME NEW m \in MutexIds
        PROVE  /\ \A u \in Alive' : InQueue(Label(u), m)' => queue'[m] = <<Entry(u)>>
               /\ queue'[m] # <<>> =>
                    \E u \in Alive' : InQueue(Label(u), m)' /\ queue'[m] = <<Entry(u)>>
    BY <1>1, <2>1, <2>2, <2>3 DEF QueuesKnown, InQueue
  <2>5. QED
    BY <2>3, <2>4 DEF QueuesKnown, Entry, InQueue
<1>9. BarriersKnown'
  BY <1>2, <1>3 DEF IInv, Disciplines, BarriersKnown, registryVars, barrierVars, Barrier!Exists
<1>10. OthersKnown'
  BY <1>1, <1>2 DEF IInv, Disciplines, OthersKnown, OthersOf, registryVars, watchVars, taskWaitVars
<1>11. ASSUME NEW s \in RwlockIds
       PROVE  (ModelOf(s, Accesses(s)) /\ QueueOf(queue[s], Accesses(s)))'
  <2>1. PICK A : A = Accesses(s)
    OBVIOUS
  <2>2. PICK B : B = [u \in TaskIds |-> Way(u)'.rwlock[s]]
    OBVIOUS
  <2>3. ModelOf(s, A) /\ QueueOf(queue[s], A)
    BY <2>1 DEF IInv, Disciplines, RwlocksKnown
  <2>4. /\ \A u \in TaskIds \ {t} : B[u] = A[u]
        /\ A[t] = Label(t).rwlock[s] /\ B[t] = Label(t)'.rwlock[s]
    BY <1>1, <1>3, <2>1, <2>2 DEF Accesses
  <2>5. \A mode \in Rwlock!Modes : Wants(A[t], mode) <=> Wants(B[t], mode)
    <3>1. CASE s # r
      BY <1>2, <2>4, <3>1
    <3>2. CASE s = r
      <4>1. CASE B[t] = NoAccess /\ A[t].phase = "released"
        BY <4>1 DEF Wants, NoAccess, Access
      <4>2. ASSUME NEW mode \in Rwlock!Modes, A[t] = Access("asked", mode),
                   B[t] = Access("queued", mode)
            PROVE  \A n \in Rwlock!Modes : Wants(A[t], n) <=> Wants(B[t], n)
        BY <4>2 DEF Wants, Access
      <4>3. QED
        BY <1>14, <2>4, <3>2, <4>1, <4>2
    <3>3. QED
      BY <3>1, <3>2
  <2>6. (A[t].phase = "held" <=> B[t].phase = "held") /\ (B[t].phase = "held" => B[t] = A[t])
    <3>1. CASE s # r
      BY <1>2, <2>4, <3>1
    <3>2. CASE s = r
      <4>1. CASE B[t] = NoAccess /\ A[t].phase = "released"
        BY <4>1 DEF NoAccess, Access
      <4>2. ASSUME NEW mode \in Rwlock!Modes, A[t] = Access("asked", mode),
                   B[t] = Access("queued", mode)
            PROVE  A[t].phase # "held" /\ B[t].phase # "held"
        BY <4>2 DEF Access
      <4>3. QED
        BY <1>14, <2>4, <3>2, <4>1, <4>2
    <3>3. QED
      BY <3>1, <3>2
  <2>7. ModelOf(s, B)'
    BY <2>3, <2>4, <2>5, <2>6 DEF ModelOf, registryVars, rwlockVars, Wants, Rwlock!Modes
  <2>8. QueueOf(queue'[s], B)
    <3>1. CASE s # r
      <4>1. queue'[s] = queue[s] /\ \A u \in TaskIds : B[u] = A[u]
        BY <1>2, <1>7, <2>4, <3>1
      <4>2. QED
        BY <2>3, <4>1, QueueSame
    <3>2. CASE s = r
      <4>1. ASSUME NEW mode \in Rwlock!Modes, Label(t).rwlock[r] = Access("asked", mode),
                   Label(t)'.rwlock[r] = Access("queued", mode),
                   queue'[r] = Append(queue[r], [task |-> t, mode |-> mode])
            PROVE  QueueOf(queue'[s], B)
        <5>1. ~InLine(A[t]) /\ B[t] = Access("queued", mode)
          BY <2>4, <3>2, <4>1 DEF InLine, Access
        <5>2. QED
          BY <1>1, <2>3, <2>4, <3>2, <4>1, <5>1, QueueJoined
      <4>2. ASSUME Label(t)'.rwlock[r] = NoAccess, queue'[r] = LeaveQueue(queue[r], {t})
            PROVE  QueueOf(queue'[s], B)
        <5>1. ~InLine(B[t])
          BY <2>4, <3>2, <4>2 DEF InLine, Access, NoAccess
        <5>2. QED
          BY <1>1, <2>3, <2>4, <3>2, <4>2, <5>1, QueueLeft
      <4>3. QED
        BY <1>14, <4>1, <4>2
    <3>3. QED
      BY <3>1, <3>2
  <2>9. Accesses(s)' = B
    BY <2>2 DEF Accesses
  <2>10. ModelOf(s, Accesses(s))'
    BY <2>7, <2>9 DEF ModelOf
  <2>11. QueueOf(queue'[s], Accesses(s)')
    BY <2>8, <2>9
  <2>12. QueueOf(queue[s], Accesses(s))'
    BY <2>11 DEF QueueOf, GrantedIn, Line, Entries, Rwlock!Modes
  <2>13. QED
    BY <2>10, <2>12
<1>12. RwlocksKnown'
  BY <1>11 DEF RwlocksKnown
<1>13. QED
  BY <1>4, <1>5, <1>6, <1>8, <1>9, <1>10, <1>12 DEF Disciplines

-----------------------------------------------------------------------------
(* What an actor that can go on is, and what its label says.  *)
LEMMA StepLabel ==
  ASSUME AllDisciplined, IInv, NEW a \in Actors, CanStep(a)
  PROVE  /\ a \in TaskIds => a \in Tasks
         /\ a \in Tasks =>
              /\ a \in Alive /\ state[a] = "Running"
              /\ Sound(Label(a)) /\ Sound(After(Label(a), Op(a)))
              /\ Permits(Label(a), Op(a))
              /\ Advance(a) => Label(a)' = After(Label(a), Op(a))
<1>1. a \in TaskIds => a \in Tasks
  BY StepHasOp DEF IInv, Disciplines, TestIInv, Tasks
<1>2. ASSUME a \in Tasks
      PROVE  /\ a \in Alive /\ state[a] = "Running"
             /\ Sound(Label(a)) /\ Sound(After(Label(a), Op(a)))
             /\ Permits(Label(a), Op(a))
             /\ LabelsOf(program, a)[ip[a] + 1] = After(Label(a), Op(a))
  BY <1>2, LabelsFollow DEF IInv, Disciplines, TestIInv, Living, CanStep, Tasks
<1>3. ASSUME a \in Tasks, Advance(a)
      PROVE  Label(a)' = After(Label(a), Op(a))
  <2>1. ip'[a] = ip[a] + 1 /\ program' = program
    BY <1>3 DEF Advance, IInv, Disciplines, TestIInv, Placed
  <2>2. Label(a)' = LabelsOf(program, a)[ip[a] + 1]
    BY <2>1 DEF Label
  <2>3. QED
    BY <1>2, <1>3, <2>2
<1>4. QED
  BY <1>1, <1>2, <1>3

(* Operations that the models are not told of.  *)
LEMMA QuietAdvance ==
  ASSUME AllDisciplined, IInv, NEW a \in Actors, CanStep(a), Advance(a), QuietRegistry,
         SameQueues, UNCHANGED <<schedVars, panicked>>,
         \/ Op(a).op \notin {"sync_event", "execution_point", "execution_point_with_event",
                             "lock", "drop"}
         \/ Op(a).op \in {"lock", "drop"} /\ Op(a).id \notin MutexIds \cup RwlockIds
  PROVE  Disciplines'
<1>1. Moves(a)
  BY DEF Moves, Advance, schedVars, Tasks, Actors, IInv, Disciplines, TestIInv, Placed
<1>2. ASSUME a \in Tasks
      PROVE  SameButCame(After(Label(a), Op(a)), Label(a))
  <2>1. After(Label(a), Op(a)) \in {Label(a), [Label(a) EXCEPT !.came = TRUE]}
    BY DEF After
  <2>2. Label(a) = [mutex |-> Label(a).mutex, rwlock |-> Label(a).rwlock,
                    barrier |-> Label(a).barrier, came |-> Label(a).came,
                    waits |-> Label(a).waits, group |-> Label(a).group]
    BY <1>2, StepLabel DEF Sound, IsLabel
  <2>3. SameButCame([Label(a) EXCEPT !.came = TRUE], Label(a))
    BY <2>2 DEF SameButCame
  <2>4. SameButCame(Label(a), Label(a))
    BY DEF SameButCame
  <2>5. QED
    BY <2>1, <2>3, <2>4
<1>3. ASSUME a \in Tasks
      PROVE  /\ SameButCame(Label(a)', Label(a)) /\ (a \in Alive' <=> a \in Alive)
             /\ state[a] = "Running" /\ state'[a] = "Running" /\ a \in Alive
  <2>1. a \in Alive /\ state[a] = "Running" /\ Label(a)' = After(Label(a), Op(a))
    BY <1>3, StepLabel
  <2>2. a \in Alive' /\ state' = state
    BY <1>1, <1>3, <2>1 DEF schedVars, Alive, Moves, Tasks
  <2>3. QED
    BY <1>2, <1>3, <2>1, <2>2
<1>4. QED
  BY <1>1, <1>3, QuietStep

(* A panic comes where the task is at no barrier and has no rwlock.  *)
LEMMA PanicAt ==
  ASSUME AllDisciplined, IInv, NEW a \in Actors, CanStep(a), Panic(a),
         UNCHANGED <<registryVars, schedVars>>, Op(a).op \in {"assert", "assert_value", "await"}
  PROVE  Disciplines'
<1>1. a \in Tasks => Label(a).barrier = None /\ NoRwlock(Label(a))
  BY StepLabel DEF Permits
<1>2. QED
  BY <1>1, PanicStep

(* The operations, one after the other. *)
LEMMA AcceptStep ==
  ASSUME AllDisciplined, IInv, NEW t \in TaskIds,
         \/ /\ CanStep(t) /\ Op(t).op = "sync_event" /\ Accept(t, Op(t).event) /\ Advance(t)
            /\ UNCHANGED <<realVars, schedVars, panicked>>
         \/ SuspendAtPoint(t)
  PROVE  Disciplines'
<1>1. /\ CanStep(t) /\ Advance(t) /\ UNCHANGED <<realVars, panicked, dead>>
      /\ \A u \in TaskIds \ {t} : state'[u] = state[u]
  BY DEF SuspendAtPoint, Sched!Suspend, schedVars, IInv, Disciplines, TestIInv, Placed
<1>2. /\ t \in Tasks /\ t \in Alive /\ state[t] = "Running" /\ t \in Actors
      /\ Sound(Label(t)) /\ Permits(Label(t), Op(t)) /\ Label(t)' = After(Label(t), Op(t))
  BY <1>1, StepLabel DEF Actors
<1>3. Moves(t) /\ t \in Alive' /\ UNCHANGED queue
  BY <1>1, <1>2 DEF Moves, Advance, Tasks, Actors, IInv, Disciplines, TestIInv, Placed, realVars, Alive
<1>4. CASE ~SuspendAtPoint(t)
  <2>1. /\ Op(t).op = "sync_event" /\ Accept(t, Op(t).event) /\ state' = state
    BY <1>4 DEF schedVars
  <2>2. Addressed(Op(t).event)
    BY <1>1, <1>2, <2>1, StepHasOp DEF OpWellFormed, IInv, Disciplines, TestIInv
  <2>3. PermitsEvent(Label(t), Op(t).event) /\ Label(t)' = AfterEvent(Label(t), Op(t).event)
    BY <1>2, <2>1 DEF Permits, After
  <2>4. Op(t).event.event = "LockedRwlock" => GrantedIn(queue[Op(t).event.id], t)
    BY <1>1, <1>2, <2>2, <2>3, LockedIsGranted
  <2>5. QED
    BY <1>2, <1>3, <2>1, <2>2, <2>3, <2>4, EventStep
<1>5. CASE SuspendAtPoint(t)
  <2>1. state'[t] = "Ready"
    BY <1>2, <1>5 DEF SuspendAtPoint, Sched!Suspend, IInv, Disciplines, TestIInv, Placed, Tasks
  <2>2. CASE Op(t).op = "execution_point"
    <3>1. UNCHANGED registryVars
      BY <1>5, <2>2 DEF SuspendAtPoint
    <3>2. Label(t)' = AfterPoint(Label(t)) /\ AtRest(AfterPoint(Label(t)))
      BY <1>2, <2>2 DEF Permits, After
    <3>3. QED
      BY <1>2, <1>3, <2>1, <3>1, <3>2, SuspendStep
  <2>3. CASE Op(t).op # "execution_point"
    <3>1. Op(t).op = "execution_point_with_event" /\ Accept(t, Op(t).event)
      BY <1>5, <2>3 DEF SuspendAtPoint
    <3>2. Addressed(Op(t).event)
      BY <1>1, <1>2, <3>1, StepHasOp DEF OpWellFormed, IInv, Disciplines, TestIInv
    <3>3. /\ PermitsEvent(Label(t), Op(t).event)
          /\ Label(t)' = AfterPoint(AfterEvent(Label(t), Op(t).event))
          /\ AtRest(AfterPoint(AfterEvent(Label(t), Op(t).event)))
      BY <1>2, <3>1 DEF Permits, After
    <3>4. Op(t).event.event = "LockedRwlock" => GrantedIn(queue[Op(t).event.id], t)
      BY <1>1, <1>2, <3>2, <3>3, LockedIsGranted
    <3>5. QED
      BY <1>2, <1>3, <2>1, <3>1, <3>2, <3>3, <3>4, EventStep
  <2>4. QED
    BY <2>2, <2>3
<1>6. QED
  BY <1>4, <1>5

(* What is refused is a wait at a barrier that does not exist. *)
LEMMA RefusedWait ==
  ASSUME AllDisciplined, IInv, NEW t \in TaskIds, CanStep(t),
         Op(t).op \in {"sync_event", "execution_point_with_event"}, Reject(t, Op(t).event)
  PROVE  /\ UNCHANGED registryVars
         /\ Label(t).barrier = None /\ NoRwlock(Label(t))
         /\ Op(t).event.event = "WaitingForBarrier" /\ Op(t).event.id \in BarrierIds
         /\ ~Barrier!Exists(Op(t).event.id)
<1> DEFINE l == Label(t)
           e == Op(t).event
<1>1. /\ t \in Tasks /\ t \in Alive /\ t \in Actors
      /\ Permits(l, Op(t)) /\ Sound(l) /\ Sound(After(l, Op(t)))
  BY StepLabel DEF Actors
<1>2. Addressed(e) /\ PermitsEvent(l, e)
  BY <1>1, StepHasOp DEF OpWellFormed, IInv, Disciplines, TestIInv, Permits
<1>3. IsLabel(l) /\ MutexesOf(t, l) /\ OthersOf(t, l) /\ barrier_waiting[t] = l.barrier
      /\ Way(t).rwlock = l.rwlock
  BY <1>1 DEF IInv, Disciplines, MutexesKnown, BarriersKnown, OthersKnown, Sound, Way
<1>4. e.event = "LockedRwlock" => GrantedIn(queue[e.id], t)
  BY <1>1, <1>2, LockedIsGranted
<1>5. RegistryIInv /\ BarriersKnown /\ RwlocksKnown
  BY DEF IInv, Disciplines, TestIInv
<1> HIDE DEF l, e
<1>6. UNCHANGED registryVars /\ e.event = "WaitingForBarrier" /\ ~Barrier!Exists(e.id)
  BY <1>2, <1>3, <1>4, <1>5, RejectIsVoid DEF e
<1>7. e.id \in BarrierIds /\ l.barrier = None
  BY <1>2, <1>6 DEF Addressed, Barrier!Events, PermitsEvent
<1>8. NoRwlock(l)
  <2>1. After(l, Op(t)) \in {AfterEvent(l, e), AfterPoint(AfterEvent(l, e))}
    BY DEF After, e
  <2>2. IsLabel(AfterEvent(l, e))
    BY <1>2, <1>3, AfterEventLabel
  <2>3. /\ After(l, Op(t)).barrier = AfterEvent(l, e).barrier
        /\ After(l, Op(t)).rwlock = AfterEvent(l, e).rwlock
    BY <2>1, <2>2, AfterPointParts
  <2>4. AfterEvent(l, e).barrier = e.id /\ AfterEvent(l, e).rwlock = l.rwlock
    BY <1>6 DEF AfterEvent, BarrierAfter, RwlocksAfter
  <2>5. NoRwlock(After(l, Op(t)))
    BY <1>1, <1>7, <2>3, <2>4, SystemAssumption DEF Sound
  <2>6. QED
    BY <2>3, <2>4, <2>5 DEF NoRwlock
<1>9. QED
  BY <1>6, <1>7, <1>8 DEF l, e

LEMMA RejectStep ==
  ASSUME AllDisciplined, IInv, NEW t \in TaskIds, CanStep(t),
         Op(t).op \in {"sync_event", "execution_point_with_event"}, Reject(t, Op(t).event),
         Panic(t), UNCHANGED schedVars
  PROVE  Disciplines'
<1>1. t \in Actors
  BY DEF Actors
<1>2. QED
  BY <1>1, RefusedWait, PanicStep

LEMMA LockStep ==
  ASSUME AllDisciplined, IInv, NEW t \in TaskIds, AcquireLock(t) \/ ReleaseLock(t)
  PROVE  Disciplines'
<1>1. /\ CanStep(t) /\ Advance(t) /\ UNCHANGED <<registryVars, schedVars, panicked>>
      /\ \/ /\ Op(t).op = "lock"
            /\ queue' = [queue EXCEPT ![Op(t).id] = Append(@, [task |-> t, mode |-> Op(t).mode])]
         \/ /\ Op(t).op = "drop"
            /\ queue' = [queue EXCEPT ![Op(t).id] = LeaveQueue(@, {t})]
  BY DEF AcquireLock, ReleaseLock
<1>2. /\ t \in Tasks /\ t \in Alive /\ state[t] = "Running" /\ t \in Actors
      /\ Sound(Label(t)) /\ Permits(Label(t), Op(t)) /\ Label(t)' = After(Label(t), Op(t))
  BY <1>1, StepLabel DEF Actors
<1>3. Moves(t) /\ t \in Alive' /\ state'[t] = "Running"
  BY <1>1, <1>2 DEF Moves, Advance, schedVars, Tasks, Actors, IInv, Disciplines, TestIInv, Placed, Alive
<1>4. CASE Op(t).id \in MutexIds
  <2>4. Op(t).id \notin RwlockIds
    BY <1>4, SystemAssumption
  <2>1. CASE Op(t).op = "lock"
    <3>1. Phase(t, Op(t).id) = "waiting" /\ Op(t).mode = "Write"
      BY <1>2, <1>4, <2>1 DEF Permits, Phase
    <3>2. Label(t)' = MutexPhase(Label(t), Op(t).id, "queued")
      BY <1>2, <1>4, <2>1, <2>4 DEF After
    <3>3. queue' = [queue EXCEPT ![Op(t).id] = Append(@, Entry(t))]
      BY <1>1, <2>1, <3>1 DEF Entry
    <3>4. QED
      BY <1>1, <1>2, <1>3, <1>4, <3>1, <3>2, <3>3, TakeOrDropStep
  <2>2. CASE Op(t).op = "drop"
    <3>1. Phase(t, Op(t).id) = "held"
      BY <1>2, <1>4, <2>2 DEF Permits, Phase
    <3>2. Label(t)' = MutexPhase(Label(t), Op(t).id, "dropped")
      BY <1>2, <1>4, <2>2, <2>4 DEF After
    <3>3. QED
      BY <1>1, <1>2, <1>3, <1>4, <2>2, <3>1, <3>2, TakeOrDropStep
  <2>3. QED
    BY <1>1, <2>1, <2>2
<1>5. CASE Op(t).id \in RwlockIds
  <2>1. Op(t).id \notin MutexIds /\ IsLabel(Label(t))
    BY <1>2, <1>5, SystemAssumption DEF Sound
  <2>2. CASE Op(t).op = "lock"
    <3>1. Label(t).rwlock[Op(t).id] = Access("asked", Op(t).mode)
      BY <1>2, <1>5, <2>2 DEF Permits
    <3>2. Label(t)' = RwlockAccess(Label(t), Op(t).id, Access("queued", Op(t).mode))
      BY <1>2, <1>5, <2>1, <2>2 DEF After
    <3>3. queue' = [queue EXCEPT ![Op(t).id] = Append(@, [task |-> t, mode |-> Op(t).mode])]
      BY <1>1, <2>2
    <3>4. Op(t).mode \in Rwlock!Modes
      BY <1>5, <2>1, <3>1 DEF IsLabel, Access
    <3>5. \E mode \in Rwlock!Modes :
            /\ Label(t).rwlock[Op(t).id] = Access("asked", mode)
            /\ Label(t)' = RwlockAccess(Label(t), Op(t).id, Access("queued", mode))
            /\ queue' = [queue EXCEPT ![Op(t).id] = Append(@, [task |-> t, mode |-> mode])]
      BY <3>1, <3>2, <3>3, <3>4
    <3>6. QED
      BY <1>1, <1>2, <1>3, <1>5, <3>5, RwlockStep
  <2>3. CASE Op(t).op = "drop"
    <3>1. Label(t).rwlock[Op(t).id].phase = "released"
      BY <1>2, <1>5, <2>3 DEF Permits
    <3>2. Label(t)' = RwlockAccess(Label(t), Op(t).id, NoAccess)
      BY <1>2, <1>5, <2>1, <2>3 DEF After
    <3>3. queue' = [queue EXCEPT ![Op(t).id] = LeaveQueue(@, {t})]
      BY <1>1, <2>3
    <3>4. QED
      BY <1>1, <1>2, <1>3, <1>5, <3>1, <3>2, <3>3, RwlockStep
  <2>4. QED
    BY <1>1, <2>2, <2>3
<1>6. CASE Op(t).id \notin MutexIds \cup RwlockIds
  <2>1. DOMAIN queue' = DOMAIN queue
    BY <1>1
  <2>2. \A l \in MutexIds \cup RwlockIds : queue'[l] = queue[l]
    BY <1>1, <1>6, SystemAssumption DEF IInv, Disciplines, QueuesKnown
  <2>3. SameQueues /\ QuietRegistry
    BY <1>1, <2>1, <2>2, SameRegistryIsQuiet DEF SameQueues
  <2>4. QED
    BY <1>1, <1>2, <1>6, <2>3, QuietAdvance
<1>7. QED
  BY <1>4, <1>5, <1>6

(* Neither select nor wait_for is used, so nothing is evaluated. *)
LEMMA WorkStep ==
  ASSUME AllDisciplined, IInv, NEW a \in Actors, Work(a)
  PROVE  Disciplines'
<1>1. CASE CreateStartBarrier(a) \/ SendInitEvent(a)
  <2>1. /\ CanStep(a) /\ Advance(a) /\ UNCHANGED <<queue, schedVars, panicked>>
        /\ Op(a).op \in {"StartBarrier::new", "sync_init_event"} /\ AcceptInit(Op(a).event)
        /\ AtFreshAddress(Op(a).event)
    BY <1>1 DEF CreateStartBarrier, SendInitEvent, realVars
  <2>2. AddressedInit(Op(a).event)
    BY <2>1, StepHasOp DEF OpWellFormed, IInv, Disciplines, TestIInv
  <2>3. QuietRegistry
    BY <2>1, <2>2, InitEventIsQuiet DEF IInv, Disciplines, TestIInv
  <2>4. QED
    BY <2>1, <2>3, QuietAdvance DEF SameQueues
<1>2. CASE SpawnTasks(a)
  BY <1>2, SameRegistryIsQuiet, QuietAdvance DEF SpawnTasks, realVars, SameQueues
<1>3. CASE AwaitTasks(a) \/ CheckValue(a) \/ (a \in TaskIds /\ CheckAssertion(a))
  <2>1. /\ CanStep(a) /\ UNCHANGED <<registryVars, schedVars>>
        /\ Op(a).op \in {"assert", "assert_value", "await"}
        /\ (Advance(a) /\ UNCHANGED <<realVars, panicked>>) \/ Panic(a)
    BY <1>3 DEF AwaitTasks, CheckValue, CheckAssertion
  <2>2. QED
    BY <2>1, PanicAt, SameRegistryIsQuiet, QuietAdvance DEF realVars, SameQueues
<1>4. CASE a \in TaskIds /\ SendEvent(a)
  BY <1>4, AcceptStep, RejectStep DEF SendEvent
<1>5. CASE a \in TaskIds /\ SuspendAtPoint(a)
  BY <1>5, AcceptStep
<1>6. CASE a \in TaskIds /\ RejectedAtPoint(a)
  BY <1>6, RejectStep DEF RejectedAtPoint
<1>7. CASE a \in TaskIds /\ (ArriveAtBarrier(a) \/ UpdateWatch(a) \/ UseValue(a))
  <2>1. /\ CanStep(a) /\ Advance(a) /\ UNCHANGED <<registryVars, schedVars, queue, panicked>>
        /\ Op(a).op \in {"barrier.wait", "watch.send", "drop(watch)", "load", "store",
                         "fetch_add"}
    BY <1>7 DEF ArriveAtBarrier, UpdateWatch, UseValue
  <2>2. QED
    BY <2>1, SameRegistryIsQuiet, QuietAdvance DEF SameQueues
<1>8. CASE a \in TaskIds /\ (AcquireLock(a) \/ ReleaseLock(a))
  BY <1>8, LockStep
<1>9. CASE a \in TaskIds /\ (SelectTask(a) \/ EvaluateWatch(a) \/ EndOfWatch(a))
  <2>1. CanStep(a) /\ Op(a).op \in {"select", "wait_for"}
    BY <1>9 DEF SelectTask, EvaluateWatch, EndOfWatch
  <2>2. QED
    BY <1>9, <2>1, StepLabel DEF Permits
<1>10. CASE a \in TaskIds /\ RepeatLoop(a)
  <2>1. /\ CanStep(a) /\ Op(a).op = "loop" /\ ip' = [ip EXCEPT ![a] = @ - Op(a).back]
        /\ UNCHANGED <<registryVars, schedVars, queue, program, panicked>>
    BY <1>10 DEF RepeatLoop, realVars
  <2>2. a \in Tasks /\ a \in Alive /\ state[a] = "Running"
    BY <1>10, <2>1, StepLabel
  <2>3. LabelsOf(program, a)[ip[a] - Op(a).back] = Label(a)
    BY <2>1, <2>2, LabelsFollow DEF IInv, Disciplines, TestIInv
  <2>4. ip'[a] = ip[a] - Op(a).back /\ program' = program
    BY <2>1 DEF IInv, Disciplines, TestIInv, Placed
  <2>5. SameButCame(Label(a)', Label(a))
    BY <2>3, <2>4 DEF Label, SameButCame
  <2>6. Moves(a) /\ a \in Alive'
    BY <2>1, <2>2 DEF Moves, schedVars, Tasks, Actors, IInv, Disciplines, TestIInv, Placed, Alive
  <2>7. state'[a] = "Running" /\ SameQueues /\ QuietRegistry
    BY <2>1, <2>2, SameRegistryIsQuiet DEF schedVars, SameQueues
  <2>8. QED
    BY <2>2, <2>5, <2>6, <2>7, QuietStep
<1>11. CASE a \in TaskIds /\ Finish(a)
  <2>1. /\ state[a] = "Running" /\ AtEnd(a) /\ dead' = dead
        /\ state' = [state EXCEPT ![a] = "Finished"]
        /\ UNCHANGED <<registryVars, queue, program, ip, panicked>>
    BY <1>11 DEF Finish, Sched!Finish, realVars, progVars
  <2>2. SameButCame(Label(a)', Label(a)) /\ AtEnd(a)' /\ (a \in Alive' <=> a \in Alive)
    BY <2>1 DEF Label, AtEnd, End, Alive, Tasks, SameButCame
  <2>3. Moves(a) /\ state'[a] = "Finished"
    BY <1>11, <2>1 DEF Moves, Tasks, IInv, Disciplines, TestIInv, Placed
  <2>4. SameQueues /\ QuietRegistry
    BY <2>1, SameRegistryIsQuiet DEF SameQueues
  <2>5. QED
    BY <2>1, <2>2, <2>3, <2>4, QuietStep
<1>12. QED
  BY <1>1, <1>2, <1>3, <1>4, <1>5, <1>6, <1>7, <1>8, <1>9, <1>10, <1>11 DEF Work

LEMMA PollStep ==
  ASSUME AllDisciplined, IInv, NEW t \in TaskIds, Poll(t)
  PROVE  Disciplines'
<1>1. /\ t \in spawned /\ state[t] = "none" /\ dead' = dead
      /\ state' = [state EXCEPT ![t] = "Running"]
      /\ UNCHANGED <<registryVars, queue, program, ip, panicked>>
  BY DEF Poll, Sched!Start, realVars, progVars
<1>2. t \in Tasks
  BY <1>1 DEF IInv, Disciplines, TestIInv, Placed
<1>3. t \in Alive /\ Label(t) = Idle
  BY <1>1, <1>2, LabelsFollow DEF IInv, Disciplines, TestIInv, Living
<1>4. SameButCame(Label(t)', Label(t)) /\ (t \in Alive' <=> t \in Alive)
  BY <1>1 DEF Label, Alive, Tasks, SameButCame
<1>5. Moves(t) /\ state'[t] = "Running"
  BY <1>1 DEF Moves, Tasks, IInv, Disciplines, TestIInv, Placed
<1>6. SameQueues /\ QuietRegistry
  BY <1>1, SameRegistryIsQuiet DEF SameQueues
<1>7. QED
  BY <1>1, <1>3, <1>4, <1>5, <1>6, QuietStep

-----------------------------------------------------------------------------
(* A task that takes a mutex waits for nothing else, and nobody needs it.  *)
Takes(t) == t \in Alive /\ \E m \in MutexIds : Taking(Label(t), m)

Live(t) == state[t] \in {"Running", "Ready"}

LEMMA LabelIsLive ==
  ASSUME AllDisciplined, IInv, NEW t \in TaskIds, Way(t) # Idle
  PROVE  t \in Alive /\ Live(t)
<1>1. t \in Alive /\ t \in Tasks /\ Label(t) # Idle
  BY DEF Way, Alive
<1>2. ip[t] # 1 /\ ~AtEnd(t)
  BY <1>1, LabelsFollow DEF IInv, Disciplines, TestIInv
<1>3. QED
  BY <1>1, <1>2 DEF IInv, Disciplines, TestIInv, Living, Placed, Live

LEMMA TakesAlone ==
  ASSUME AllDisciplined, IInv, NEW t \in TaskIds, Takes(t)
  PROVE  /\ Label(t).barrier = None /\ Label(t).waits = {} /\ Label(t).group = TaskWait!NoWait
         /\ NoRwlock(Label(t))
         /\ Way(t).barrier = None
         /\ \A r \in RwlockIds : Way(t).rwlock[r] = NoAccess
<1>1. Sound(Label(t)) /\ Way(t) = Label(t)
  BY LabelsFollow DEF IInv, Disciplines, TestIInv, Takes, Alive, Way
<1>2. QED
  BY <1>1 DEF Sound, Takes, NoRwlock

(* What a task needs are tasks that go on by themselves: those that hold a *)
(* rwlock or wait at the same barrier.                                     *)
LEMMA NeededFor ==
  ASSUME AllDisciplined, IInv, NEW t \in TaskIds
  PROVE  /\ \A u \in Rwlock!Answer(t).need :
              u \in TaskIds /\ \E r \in RwlockIds : Way(u).rwlock[r].phase = "held"
         /\ \A u \in Barrier!Answer(t).need :
              /\ u \in TaskIds /\ Way(u).barrier # None
              /\ barrier_waiting[u] = barrier_waiting[t]
         /\ \A u \in Answers[t].need : u \in Rwlock!Answer(t).need \/ u \in Barrier!Answer(t).need
<1>1. RegistryIInv /\ RwlocksKnown /\ BarriersKnown /\ Barrier!TypeOK /\ Rwlock!TypeOK
  BY DEF IInv, Disciplines, TestIInv, RegistryIInv, OthersTypeOK
<1>2. ASSUME NEW u \in Rwlock!Answer(t).need
      PROVE  u \in TaskIds /\ \E r \in RwlockIds : Way(u).rwlock[r].phase = "held"
  <2>1. rwlock_waiting[t] \subseteq RwlockIds \X Rwlock!Modes
    BY <1>1 DEF Rwlock!TypeOK
  <2>2. PICK w \in rwlock_waiting[t] : u \in Rwlock!Holders(w[1], w[2])
    BY <1>2 DEF Rwlock!Answer, Rwlock!ReadyWithOthers
  <2>3. w[1] \in RwlockIds /\ u \in rwlock_held_by[w[1]].tasks
    BY <2>1, <2>2 DEF Rwlock!Holders
  <2>4. u \in TaskIds
    BY <1>1, <2>3 DEF Rwlock!TypeOK, Rwlock!HeldAs, Rwlock!Unheld
  <2>5. Accesses(w[1])[u].phase = "held"
    BY <1>1, <2>3, <2>4 DEF RwlocksKnown, ModelOf
  <2>6. QED
    BY <2>3, <2>4, <2>5 DEF Accesses
<1>3. ASSUME NEW u \in Barrier!Answer(t).need
      PROVE  /\ u \in TaskIds /\ Way(u).barrier # None
             /\ barrier_waiting[u] = barrier_waiting[t]
  <2>1. barrier_waiting[t] \in BarrierIds /\ u \in barriers[barrier_waiting[t]].tasks
    BY <1>1, <1>3 DEF BarriersKnown, Barrier!TypeOK, Barrier!Answer, Barrier!ReadyWithOthers,
                      Barrier!ReadyAlone, Barrier!Blocked
  <2>2. u \in TaskIds
    BY <1>1, <2>1 DEF Barrier!TypeOK
  <2>3. QED
    BY <1>1, <2>1, <2>2, SystemAssumption DEF BarriersKnown
<1>4. \A u \in Answers[t].need : u \in Rwlock!Answer(t).need \/ u \in Barrier!Answer(t).need
  BY <1>1, AnswerOf
<1>5. QED
  BY <1>2, <1>3, <1>4

LEMMA NeedsOfTask ==
  ASSUME AllDisciplined, IInv, NEW t \in TaskIds
  PROVE  /\ \A u \in Answers[t].need : u \in TaskIds /\ Live(u) /\ ~Takes(u)
         /\ Takes(t) => Answers[t].need = {}
<1>1. RwlocksKnown /\ BarriersKnown /\ Rwlock!TypeOK
  BY DEF IInv, Disciplines, TestIInv, RegistryIInv, OthersTypeOK
<1>2. ASSUME NEW u \in Answers[t].need
      PROVE  u \in TaskIds /\ Live(u) /\ ~Takes(u)
  <2>1. CASE u \in Rwlock!Answer(t).need
    <3>1. PICK r \in RwlockIds : u \in TaskIds /\ Way(u).rwlock[r].phase = "held"
      BY <2>1, NeededFor
    <3>2. Way(u).rwlock[r] # NoAccess /\ Way(u) # Idle
      BY <3>1 DEF NoAccess, Access, Idle
    <3>3. QED
      BY <3>1, <3>2, LabelIsLive, TakesAlone
  <2>2. CASE u \in Barrier!Answer(t).need
    <3>1. u \in TaskIds /\ Way(u).barrier # None
      BY <2>2, NeededFor
    <3>2. Way(u) # Idle
      BY <3>1 DEF Idle
    <3>3. QED
      BY <3>1, <3>2, LabelIsLive, TakesAlone
  <2>3. QED
    BY <2>1, <2>2, NeededFor
<1>3. ASSUME Takes(t)
      PROVE  Answers[t].need = {}
  <2>1. rwlock_waiting[t] = {}
    <3>1. \A r \in RwlockIds, mode \in Rwlock!Modes : <<r, mode>> \notin rwlock_waiting[t]
      <4>1. ASSUME NEW r \in RwlockIds, NEW mode \in Rwlock!Modes
            PROVE  <<r, mode>> \notin rwlock_waiting[t]
        <5>1. Accesses(r)[t].phase = "free"
          BY <1>3, TakesAlone DEF Accesses, NoAccess, Access
        <5>2. QED
          BY <1>1, <5>1 DEF RwlocksKnown, ModelOf, Wants
      <4>2. QED
        BY <4>1
    <3>2. QED
      BY <1>1, <3>1 DEF Rwlock!TypeOK
  <2>2. Rwlock!Answer(t).need = {}
    BY <2>1 DEF Rwlock!Answer, Rwlock!ReadyWithOthers
  <2>3. barrier_waiting[t] = None
    BY <1>1, <1>3, TakesAlone DEF BarriersKnown
  <2>4. Barrier!Answer(t).need = {}
    BY <2>3 DEF Barrier!Answer, Barrier!ReadyAlone, Barrier!ReadyWithOthers, Barrier!Blocked
  <2>5. QED
    BY <2>2, <2>4, NeededFor
<1>4. QED
  BY <1>2, <1>3

(* What a task that goes on reaches goes on, and does not take a mutex     *)
(* unless it is the task itself.                                           *)
LEMMA ReachIsLive ==
  ASSUME AllDisciplined, IInv, NEW t \in TaskIds, Live(t), NEW u \in Sched!Reach(Answers, t)
  PROVE  /\ u \in TaskIds /\ Live(u)
         /\ Takes(u) => u = t
         /\ Takes(t) => u = t
<1> DEFINE S == {v \in TaskIds : Live(v) /\ (v = t \/ ~Takes(v))}
<1>1. S \in SUBSET TaskIds /\ t \in S
  OBVIOUS
<1>2. \A v \in S : Answers[v].need \subseteq S
  BY NeedsOfTask
<1>3. Sched!Reach(Answers, t) \subseteq S
  BY <1>1, <1>2, ReachedWithin
<1>4. ASSUME Takes(t)
      PROVE  Sched!Reach(Answers, t) \subseteq {t}
  <2>1. {t} \in SUBSET TaskIds /\ t \in {t} /\ \A v \in {t} : Answers[v].need \subseteq {t}
    BY <1>4, NeedsOfTask
  <2>2. QED
    BY <2>1, ReachedWithin
<1>5. QED
  BY <1>3, <1>4

(* The control loop resumes tasks that are Ready only. *)
LEMMA DueIsReady ==
  ASSUME AllDisciplined, IInv, NEW tasks \in Sched!Due
  PROVE  tasks \subseteq Sched!Ready
<1>1. ASSUME NEW t \in Sched!Running \cup Sched!Ready, NEW u \in Sched!Reach(Answers, t),
             u \notin Sched!Running
      PROVE  u \in Sched!Ready
  <2>1. t \in TaskIds /\ Live(t)
    BY <1>1 DEF Sched!Running, Sched!Ready, Live
  <2>2. u \in TaskIds /\ Live(u)
    BY <2>1, ReachIsLive
  <2>3. QED
    BY <1>1, <2>2 DEF Sched!Running, Sched!Ready, Live
<1>2. CASE Sched!HasReady(Answers, Sched!Running)
  BY <1>1, <1>2, DueReached
<1>3. CASE ~Sched!HasReady(Answers, Sched!Running)
  BY <1>1, <1>3, DueReached
<1>4. QED
  BY <1>2, <1>3

(* A task that takes a mutex, which nobody is recorded to have, can run.   *)
LEMMA TakerIsUnblocked ==
  ASSUME AllDisciplined, IInv, NEW t \in Alive, NEW m \in MutexIds, Taking(Label(t), m),
         mutex_held_by[m] = None
  PROVE  ~Answers[t].blocked
<1>1. t \in Tasks /\ t \in TaskIds /\ Takes(t)
  BY DEF Alive, Tasks, Takes
<1>2. /\ Way(t).barrier = None /\ Label(t).waits = {} /\ Label(t).group = TaskWait!NoWait
      /\ \A n \in MutexIds : Taking(Label(t), n) => n = m
  BY <1>1, LabelsFollow, TakesAlone DEF Sound, IInv, Disciplines, TestIInv
<1>3. Mutex!TypeOK /\ RegistryIInv
  BY DEF IInv, Disciplines, TestIInv, RegistryIInv, MutexIInv
<1>4. \A n \in mutex_waiting[t] : n = m
  BY <1>1, <1>2, <1>3 DEF IInv, Disciplines, MutexesKnown, MutexesOf, Mutex!TypeOK
<1>5. ~Mutex!Answer(t).blocked
  BY <1>4 DEF Mutex!Answer, Mutex!ReadyAlone, Mutex!ReadyWithOthers
<1>6. ~Rwlock!Answer(t).blocked
  BY DEF Rwlock!Answer, Rwlock!ReadyWithOthers
<1>7. ~Barrier!Answer(t).blocked
  BY <1>1, <1>2 DEF IInv, Disciplines, BarriersKnown, Barrier!Answer, Barrier!ReadyAlone, Barrier!ReadyWithOthers
<1>8. t \notin is_in_join /\ t \notin blocked_tasks /\ task_waits[t] = TaskWait!NoWait
      /\ watch_tasks[t] = None
  BY <1>1, <1>2 DEF IInv, Disciplines, OthersKnown, OthersOf
<1>9. /\ ~Join!Answer(t).blocked /\ ~Unknown!Answer(t).blocked /\ ~Watch!Answer(t).blocked
      /\ ~TaskWait!Answer(t).blocked
  BY <1>8 DEF Join!Answer, Join!ReadyAlone, Join!ReadyWithOthers, Unknown!Answer,
              Unknown!ReadyAlone, Unknown!ReadyWithOthers, Watch!Answer, Watch!ReadyAlone,
              Watch!ReadyWithOthers, TaskWait!Answer, TaskWait!ReadyAlone, TaskWait!ReadyWithOthers
<1>10. QED
  BY <1>1, <1>3, <1>5, <1>6, <1>7, <1>9, AnswerOf

(* The scheduler resumes at most one task that waits for a mutex, when no  *)
(* other task is on its way to it.                                         *)
LEMMA ResumedTaker ==
  ASSUME AllDisciplined, IInv, NEW tasks \in Sched!Due, NEW m \in MutexIds,
         NEW u \in Alive \cap tasks, Phase(u, m) = "waiting",
         NEW v \in Tasks, Owns(v, m) \/ (v \in Alive \cap tasks /\ Phase(v, m) = "waiting")
  PROVE  u = v
<1>1. u \in Tasks /\ u \in TaskIds /\ v \in TaskIds
  BY DEF Alive, Tasks
<1>2. Taking(Label(u), m) /\ Takes(u)
  BY DEF Phase, Taking, Takes
<1>3. u \notin Sched!Running
  BY DueIsReady DEF Sched!Running, Sched!Ready
<1>4. \A t \in Sched!Running \cup Sched!Ready : t \in TaskIds /\ Live(t)
  BY DEF Sched!Running, Sched!Ready, Live
<1>5. /\ ~Sched!HasReady(Answers, Sched!Running)
      /\ ~Answers[u].blocked
      /\ tasks \subseteq {u}
  <2>1. ~Sched!HasReady(Answers, Sched!Running)
    <3>1. SUFFICES ASSUME Sched!HasReady(Answers, Sched!Running) PROVE FALSE
      OBVIOUS
    <3>2. PICK t \in Sched!Running : u \in Sched!Reach(Answers, t)
      BY <3>1, DueReached
    <3>3. QED
      BY <1>2, <1>3, <1>4, <3>2, ReachIsLive
  <2>2. PICK t \in Sched!Ready : /\ ~Answers[t].blocked
                                /\ tasks = Sched!Reach(Answers, t) \ Sched!Running
    BY <2>1, DueReached
  <2>3. u = t
    BY <1>2, <1>4, <2>2, ReachIsLive
  <2>4. QED
    BY <1>2, <1>4, <2>1, <2>2, <2>3, ReachIsLive
<1>6. mutex_held_by[m] = None
  <2>1. m \in mutex_waiting[u]
    BY <1>2 DEF IInv, Disciplines, MutexesKnown, MutexesOf
  <2>2. ~Mutex!Answer(u).blocked
    BY <1>1, <1>5, AnswerOf DEF IInv, Disciplines, TestIInv
  <2>3. QED
    BY <2>1, <2>2 DEF Mutex!Answer, Mutex!Blocked
<1>7. SUFFICES ASSUME v # u PROVE FALSE
  OBVIOUS
<1>8. v \notin tasks /\ Owns(v, m)
  BY <1>5, <1>7
<1>9. v \in Alive /\ Phase(v, m) \in {"queued", "waiting"}
      /\ (Phase(v, m) = "waiting" => state[v] = "Running")
  BY <1>1, <1>6, <1>8, NoneAssumption DEF Owns, IInv, Disciplines, MutexesKnown, MutexesOf, Phase
<1>10. state[v] = "Running"
  <2>1. CASE Phase(v, m) = "queued"
    <3>1. ~AtRest(Label(v)) /\ Label(v) # Idle
      BY <2>1 DEF AtRest, Idle, Phase
    <3>2. Live(v)
      BY <1>1, <1>9, <3>1, LabelIsLive DEF Way
    <3>3. QED
      BY <1>1, <3>1, <3>2 DEF IInv, Disciplines, Living, Live
  <2>2. QED
    BY <1>9, <2>1
<1>11. ~Answers[v].blocked
  BY <1>6, <1>9, TakerIsUnblocked DEF Taking, Phase
<1>12. QED
  BY <1>1, <1>5, <1>10, <1>11 DEF Sched!HasReady, Sched!Unblocked, Sched!Running

LEMMA ResumeStep ==
  ASSUME AllDisciplined, IInv, Resume
  PROVE  Disciplines'
<1>1. PICK tasks \in Sched!Due : Sched!ServeTasks(tasks)
  BY DEF Resume, Sched!Serve
<1>2. tasks \subseteq Sched!Ready
  BY DueIsReady
<1>3. /\ state' = [t \in TaskIds |-> IF t \in tasks THEN "Running" ELSE state[t]]
      /\ dead' = dead
      /\ UNCHANGED <<registryVars, queue, program, ip, panicked>>
  BY <1>1, <1>2 DEF Sched!ServeTasks, Resume, realVars, progVars
<1>4. /\ Tasks' = Tasks /\ Alive' = Alive
      /\ \A t \in Tasks : Label(t)' = Label(t) /\ (AtEnd(t)' <=> AtEnd(t))
      /\ Alive \subseteq Tasks /\ Tasks \subseteq TaskIds
  BY <1>3 DEF Tasks, Alive, Label, AtEnd, End
<1>11. \A t \in TaskIds : Way(t)' = Way(t)
  <2>1. ASSUME NEW t \in TaskIds
        PROVE  Way(t)' = Way(t)
    <3>1. CASE t \in Alive
      BY <1>4, <3>1 DEF Way
    <3>2. CASE t \notin Alive
      BY <1>4, <3>2 DEF Way, Idle, NoAccess, Access, TaskWait!NoWait
    <3>3. QED
      BY <3>1, <3>2
  <2>2. QED
    BY <2>1
<1>5. Living'
  BY <1>2, <1>3, <1>4 DEF IInv, Disciplines, Living, Sched!Ready
<1>6. MutexesKnown'
  BY <1>3, <1>4 DEF IInv, Disciplines, MutexesKnown, MutexesOf, Taking, registryVars, mutexVars
<1>7. QueuesKnown'
  BY <1>3, <1>4 DEF IInv, Disciplines, QueuesKnown, InQueue
<1>8. Exclusive'
  <2>1. ASSUME NEW m \in MutexIds, NEW t \in Tasks, Owns(t, m)'
        PROVE  Owns(t, m) \/ (t \in Alive \cap tasks /\ Phase(t, m) = "waiting")
    BY <1>3, <1>4, <2>1 DEF Owns, Phase, registryVars, mutexVars
  <2>2. QED
    BY <1>4, <2>1, ResumedTaker DEF IInv, Disciplines, Exclusive
<1>9. BarriersKnown'
  BY <1>3, <1>11 DEF IInv, Disciplines, BarriersKnown, registryVars, barrierVars, Barrier!Exists
<1>10. OthersKnown'
  BY <1>3, <1>4 DEF IInv, Disciplines, OthersKnown, OthersOf, registryVars, watchVars, taskWaitVars
<1>12. RwlocksKnown'
  BY <1>3, <1>11, RwlocksStay DEF IInv, Disciplines, registryVars
<1>13. QED
  BY <1>5, <1>6, <1>7, <1>8, <1>9, <1>10, <1>12 DEF Disciplines

-----------------------------------------------------------------------------
LEMMA NextIInv == ASSUME AllDisciplined, IInv, [Next]_vars PROVE IInv'
<1>1. TestIInv'
  BY TestStep DEF IInv, Disciplines
<1>2. Disciplines'
  <2>1. CASE UNCHANGED vars
    <3>1. UNCHANGED <<registryVars, queue, schedVars, program, ip, panicked>>
      BY <2>1 DEF vars, realVars, progVars
    <3>2. Moves(Root) /\ SameQueues /\ QuietRegistry /\ Root \notin Tasks
      BY <3>1, SameRegistryIsQuiet, SystemAssumption DEF Moves, schedVars, SameQueues, Tasks
    <3>3. QED
      BY <3>2, QuietStep
  <2>2. QED
    BY <2>1, ResumeStep, PollStep, WorkStep DEF Next, Step
<1>3. QED
  BY <1>1, <1>2 DEF IInv, Disciplines

LEMMA IInvExact == AllDisciplined /\ IInv => ModelExactAtPoints
<1> SUFFICES ASSUME AllDisciplined, IInv, NEW t \in TaskIds, state[t] = "Ready",
                    NEW l \in MutexIds \cup RwlockIds
             PROVE  /\ ModelHolds(l, t) <=> Granted(l, t)
                    /\ Queued(l, t) => Granted(l, t)
  BY DEF ModelExactAtPoints
<1>1. t \in Tasks /\ t \in Alive /\ AtRest(Label(t))
  BY DEF IInv, Disciplines, TestIInv, Placed, Living
<1>2. CASE l \in RwlockIds
  <2> DEFINE A == Accesses(l)
  <2>1. ModelOf(l, A) /\ QueueOf(queue[l], A)
    BY <1>2 DEF IInv, Disciplines, RwlocksKnown
  <2>2. A[t].phase \in {"free", "asked", "held"}
    BY <1>1, <1>2 DEF Accesses, Way, AtRest
  <2> HIDE DEF A
  <2>3. Queued(l, t) => A[t].phase = "held"
    BY <2>1, <2>2 DEF QueueOf, Queued
  <2>4. A[t].phase = "held" => Granted(l, t)
    BY <2>1 DEF QueueOf, GrantedIn, Line, Granted
  <2>5. Granted(l, t) => Queued(l, t)
    BY DEF Granted, Queued
  <2>6. ModelHolds(l, t) <=> A[t].phase = "held"
    BY <1>2, <2>1, SystemAssumption DEF ModelHolds, ModelOf
  <2>7. QED
    BY <2>3, <2>4, <2>5, <2>6
<1>3. CASE l \in MutexIds
  <2>1. ModelHolds(l, t) <=> Phase(t, l) = "held"
    BY <1>1, <1>3, SystemAssumption
    DEF ModelHolds, AtRest, Phase, IInv, Disciplines, MutexesKnown, MutexesOf
  <2>2. Phase(t, l) = "held" <=> InQueue(Label(t), l)
    BY <1>1, <1>3 DEF AtRest, Phase, InQueue
  <2>3. \/ queue[l] = <<>> /\ ~InQueue(Label(t), l)
        \/ \E u \in Alive : queue[l] = <<Entry(u)>> /\ InQueue(Label(u), l)
    BY <1>1, <1>3 DEF IInv, Disciplines, QueuesKnown
  <2>4. CASE queue[l] = <<>> /\ ~InQueue(Label(t), l)
    BY <2>1, <2>2, <2>4 DEF Queued, Granted
  <2>5. ASSUME NEW u \in Alive, queue[l] = <<Entry(u)>>, InQueue(Label(u), l)
        PROVE  /\ Queued(l, t) <=> t = u
               /\ Granted(l, t) <=> t = u
    <3>1. DOMAIN queue[l] = {1} /\ queue[l][1].task = u
      BY <2>5 DEF Entry
    <3>2. QED
      BY <3>1 DEF Queued, Granted
  <2>6. ASSUME NEW u \in Alive, queue[l] = <<Entry(u)>>, InQueue(Label(u), l)
        PROVE  InQueue(Label(t), l) <=> t = u
    <3>1. InQueue(Label(t), l) => Owns(t, l) /\ Owns(u, l)
      BY <1>1, <2>6 DEF Owns, Phase, InQueue
    <3>2. QED
      BY <1>1, <1>3, <2>6, <3>1 DEF IInv, Disciplines, Exclusive, Alive
  <2>7. QED
    BY <2>1, <2>2, <2>3, <2>4, <2>5, <2>6
<1>4. QED
  BY <1>2, <1>3

-----------------------------------------------------------------------------
(* Wherever a task is suspended, the models of the mutexes and the rwlocks *)
(* say of it what tokio's locks do, for any number of tasks and locks:     *)
(* what it is recorded to hold is what it has, and it waits in no queue.   *)
THEOREM LockModelsExact == ASSUME AllDisciplined PROVE Spec => []ModelExactAtPoints
<1>1. AllDisciplined /\ Init => IInv
  BY InitIInv
<1>2. IInv /\ [Next]_vars => IInv'
  BY NextIInv
<1>3. IInv => ModelExactAtPoints
  BY IInvExact
<1>4. QED
  BY <1>1, <1>2, <1>3, PTL DEF Spec

(* The expect of resume_tasks never fails: no task that ended or runs is   *)
(* among those that the control loop resumes, also when tasks panic while  *)
(* they hold a mutex.                                                      *)
THEOREM ControlLoopLives == ASSUME AllDisciplined PROVE Spec => []SelectedTasksAreReady
<1>1. AllDisciplined /\ Init => IInv
  BY InitIInv
<1>2. IInv /\ [Next]_vars => IInv'
  BY NextIInv
<1>3. IInv => SelectedTasksAreReady
  BY DEF IInv, Disciplines, Living, SelectedTasksAreReady
<1>4. QED
  BY <1>1, <1>2, <1>3, PTL DEF Spec
-----------------------------------------------------------------------------
(* What is asked of the tests that make barriers.  *)
AllPlanned == \A p \in Programs : BarriersPlanned(p)

Users(b) == BarrierUsers(program, b)

(* The task has said that it waits at the barrier.  *)
Past(t, b) == \A i \in Announcements(program, t, b) : ip[t] > i

(* Only tasks that were spawned run, and what panicked is at its end.  *)
Started ==
  /\ \A t \in TaskIds : state[t] # "none" => t \in spawned
  /\ Root \in panicked => AtEnd(Root)

(* tokio's barrier has let in whoever the code says has come there; they   *)
(* do not come twice.                                                      *)
Arrivals ==
  /\ arrived \in [BarrierIds -> SUBSET TaskIds]
  /\ \A b \in BarrierIds : arrived[b] \subseteq Users(b)
  /\ \A t \in Alive :
       /\ \A b \in BarrierIds :
            t \in arrived[b] \/ Label(t).barrier = b => t \in Users(b) /\ Past(t, b)
       /\ Label(t).came => Label(t).barrier \in BarrierIds /\ t \in arrived[Label(t).barrier]

(* A barrier that is used has its capacity before any of its users starts. *)
MadeInTime(b) ==
  /\ \A x \in BarrierMade(program, b) :
       x[1] \in Actors \ panicked /\ ip[x[1]] > x[2] => capacity[b] # 0
  /\ \A S \in SUBSET DOMAIN program.code :
       /\ Users(b) \subseteq S
       /\ StartAfter(program, S, BarrierMade(program, b))
       /\ S \cap spawned # {}
       => capacity[b] # 0

Capacities ==
  /\ capacity \in [BarrierIds -> Nat]
  /\ \A b \in BarrierIds :
       /\ capacity[b] \in {0, Cardinality(Users(b))}
       /\ Users(b) # {} => MadeInTime(b)

(* The model's barrier is there for those that have not come to it yet.    *)
OpenToAll ==
  \A b \in BarrierIds :
    capacity[b] # 0 /\ (\E t \in Alive \cap Users(b) : ~Past(t, b)) => Barrier!Exists(b)

Plans == Started /\ Arrivals /\ Capacities /\ OpenToAll

(* Where an actor may fail: at an assertion of the test, and where it      *)
(* awaits a task that has.                                                 *)
AssertionMayFail(a) ==
  \/ Op(a).op = "assert"
  \/ Op(a).op = "assert_value" /\ value \notin Op(a).expected

AwaitsFailed(a) == Op(a).op = "await" /\ Op(a).tasks \cap panicked # {}

OnlyTestsFail == \A a \in panicked' \ panicked : AssertionMayFail(a) \/ AwaitsFailed(a)

(* The assertions of the tests that are to be controlled do not fail.      *)
AssertionsHold == \A a \in Actors : Controlled /\ CanStep(a) => ~AssertionMayFail(a)

(* What a step does to the places of the actors and to the barriers.  In a *)
(* disciplined test no task selects, or waits for a watch.                 *)
Stays ==
  /\ UNCHANGED <<registryVars, capacity, arrived, progVars>>
  /\ \A t \in TaskIds :
       /\ state'[t] # "none" => state[t] # "none" \/ t \in spawned
       /\ state'[t] = "Running" => state[t] \in {"none", "Running"} \/ Resume

SendsEvent(o) == o.op \in {"sync_event", "execution_point_with_event"}
SendsInitEvent(o) == o.op \in {"sync_init_event", "StartBarrier::new"}

GoesOn(a) ==
  /\ CanStep(a) /\ Advance(a) /\ UNCHANGED panicked
  /\ \A t \in TaskIds : state'[t] # "none" => state[t] # "none"
  /\ \A t \in TaskIds :
       state'[t] = "Running" =>
         state[t] = "Running" /\ (t = a => Op(a).op # "execution_point_with_event")
  /\ IF Op(a).op = "spawn" THEN spawned' = spawned \cup Op(a).tasks ELSE UNCHANGED spawned
  /\ IF Op(a).op = "StartBarrier::new"
     THEN capacity' = [capacity EXCEPT ![Op(a).event.id] = Op(a).event.arg]
     ELSE UNCHANGED capacity
  /\ IF Op(a).op = "barrier.wait"
     THEN a \in TaskIds /\ arrived' = [arrived EXCEPT ![Op(a).id] = @ \cup {a}]
     ELSE UNCHANGED arrived
  /\ SendsEvent(Op(a)) => a \in TaskIds /\ Accept(a, Op(a).event)
  /\ SendsInitEvent(Op(a)) => AtFreshAddress(Op(a).event) /\ AcceptInit(Op(a).event)
  /\ ~SendsEvent(Op(a)) /\ ~SendsInitEvent(Op(a)) => UNCHANGED registryVars

GoesBack(a) ==
  /\ CanStep(a) /\ a \in TaskIds /\ Op(a).op = "loop"
  /\ ip' = [ip EXCEPT ![a] = @ - Op(a).back]
  /\ UNCHANGED <<registryVars, state, capacity, arrived, program, spawned, panicked>>

Fails(a) ==
  /\ CanStep(a)
  /\ Panic(a)
  /\ UNCHANGED <<registryVars, state>>

Moved == Stays \/ \E a \in Actors : GoesOn(a) \/ GoesBack(a) \/ Fails(a)

LEMMA StepKinds ==
  ASSUME AllDisciplined, IInv, [Next]_vars
  PROVE  \/ Stays
         \/ \E a \in Actors : GoesOn(a) \/ GoesBack(a)
         \/ \E a \in Actors :
              /\ Fails(a)
              /\ \/ AssertionMayFail(a) \/ AwaitsFailed(a)
                 \/ a \in TaskIds /\ SendsEvent(Op(a)) /\ Reject(a, Op(a).event)
<1>1. CASE UNCHANGED vars
  BY <1>1 DEF vars, realVars, queueless, schedVars, progVars, Stays
<1>2. CASE Resume
  <2>1. PICK tasks \in Sched!Due : Sched!ServeTasks(tasks)
    BY <1>2 DEF Resume, Sched!Serve
  <2>2. state' = [t \in TaskIds |-> IF t \in tasks THEN "Running" ELSE state[t]]
    BY <2>1, DueIsReady DEF Sched!ServeTasks
  <2>3. \A t \in tasks : state[t] # "none"
    BY DueIsReady DEF Sched!Ready
  <2>4. QED
    BY <1>2, <2>2, <2>3 DEF Resume, realVars, queueless, Stays
<1>3. ASSUME NEW t \in TaskIds, Poll(t)
      PROVE  Stays
  BY <1>3 DEF Poll, Sched!Start, realVars, queueless, Stays, IInv, Disciplines, TestIInv, Placed
<1>4. ASSUME NEW a \in TaskIds, Finish(a)
      PROVE  Stays
  BY <1>4 DEF Finish, Sched!Finish, realVars, queueless, Stays, IInv, Disciplines, TestIInv, Placed
<1>5. ASSUME NEW a \in Actors,
             CreateStartBarrier(a) \/ SendInitEvent(a) \/ SpawnTasks(a)
      PROVE  GoesOn(a)
  BY <1>5 DEF CreateStartBarrier, SendInitEvent, SpawnTasks, GoesOn, schedVars, realVars,
              queueless, SendsEvent, SendsInitEvent
<1>6. ASSUME NEW a \in Actors,
             AwaitTasks(a) \/ CheckValue(a) \/ (a \in TaskIds /\ CheckAssertion(a))
      PROVE  \/ GoesOn(a)
             \/ Fails(a) /\ (AssertionMayFail(a) \/ AwaitsFailed(a))
  <2>1. /\ CanStep(a) /\ UNCHANGED <<registryVars, schedVars>>
        /\ Op(a).op \in {"assert", "assert_value", "await"}
        /\ \/ Advance(a) /\ UNCHANGED <<realVars, spawned, panicked>>
           \/ Panic(a) /\ (AssertionMayFail(a) \/ AwaitsFailed(a))
    BY <1>6 DEF AwaitTasks, CheckValue, CheckAssertion, AssertionMayFail, AwaitsFailed
  <2>2. CASE Advance(a) /\ UNCHANGED <<realVars, spawned, panicked>>
    BY <2>1, <2>2 DEF GoesOn, schedVars, realVars, queueless, SendsEvent, SendsInitEvent
  <2>3. CASE Panic(a) /\ (AssertionMayFail(a) \/ AwaitsFailed(a))
    BY <2>1, <2>3 DEF Fails, schedVars
  <2>4. QED
    BY <2>1, <2>2, <2>3
<1>7. ASSUME NEW a \in TaskIds, SendEvent(a) \/ SuspendAtPoint(a) \/ RejectedAtPoint(a)
      PROVE  GoesOn(a) \/ (Fails(a) /\ SendsEvent(Op(a)) /\ Reject(a, Op(a).event))
  <2>1. CASE SuspendAtPoint(a)
    <3>1. /\ CanStep(a)
          /\ \A t \in TaskIds : /\ state'[t] # "none" => state[t] # "none"
                                /\ state'[t] = "Running" => state[t] = "Running" /\ t # a
      BY <2>1 DEF SuspendAtPoint, Sched!Suspend, CanStep, IInv, Disciplines, TestIInv, Placed
    <3>2. QED
      BY <2>1, <3>1 DEF SuspendAtPoint, GoesOn, realVars, queueless, SendsEvent, SendsInitEvent
  <2>2. ASSUME CanStep(a), SendsEvent(Op(a)), Reject(a, Op(a).event)
        PROVE  UNCHANGED registryVars
    BY <2>2, RefusedWait DEF SendsEvent
  <2>3. CASE RejectedAtPoint(a)
    BY <2>2, <2>3 DEF RejectedAtPoint, Fails, schedVars, SendsEvent
  <2>4. CASE SendEvent(a)
    <3>1. CanStep(a) /\ Op(a).op = "sync_event" /\ UNCHANGED state
      BY <2>4 DEF SendEvent, schedVars
    <3>2. CASE Accept(a, Op(a).event) /\ Advance(a) /\ UNCHANGED <<realVars, spawned, panicked>>
      BY <3>1, <3>2 DEF GoesOn, realVars, queueless, SendsEvent, SendsInitEvent
    <3>3. CASE Reject(a, Op(a).event) /\ Panic(a)
      BY <2>2, <3>1, <3>3 DEF Fails, SendsEvent
    <3>4. QED
      BY <2>4, <3>2, <3>3 DEF SendEvent
  <2>5. QED
    BY <1>7, <2>1, <2>3, <2>4
<1>8. ASSUME NEW a \in TaskIds,
             ArriveAtBarrier(a) \/ UpdateWatch(a) \/ UseValue(a) \/ AcquireLock(a) \/ ReleaseLock(a)
      PROVE  GoesOn(a)
  BY <1>8 DEF ArriveAtBarrier, UpdateWatch, UseValue, AcquireLock, ReleaseLock, GoesOn, schedVars,
              queueless, SendsEvent, SendsInitEvent
<1>9. ASSUME NEW a \in TaskIds, SelectTask(a) \/ EvaluateWatch(a) \/ EndOfWatch(a)
      PROVE  FALSE
  <2>1. CanStep(a) /\ Op(a).op \in {"select", "wait_for"} /\ a \in Actors
    BY <1>9 DEF SelectTask, EvaluateWatch, EndOfWatch, Actors
  <2>2. QED
    BY <2>1, StepLabel DEF Permits
<1>10. ASSUME NEW a \in TaskIds, RepeatLoop(a)
       PROVE  GoesBack(a)
  BY <1>10 DEF RepeatLoop, GoesBack, schedVars, realVars, queueless
<1>11. QED
  BY <1>1, <1>2, <1>3, <1>4, <1>5, <1>6, <1>7, <1>8, <1>9, <1>10 DEF Next, Step, Work, Actors

-----------------------------------------------------------------------------
LEMMA PlanOf ==
  ASSUME AllPlanned, Placed, NEW b \in BarrierIds
  PROVE  /\ IsFiniteSet(Users(b)) /\ Users(b) \subseteq Tasks
         /\ Late(program, Users(b), BarrierMade(program, b))
         /\ \A t \in Users(b) : \E i \in DOMAIN program.code[t] :
              Announcements(program, t, b) = {i} /\ PassedOnce(program, t, i)
         /\ \A a \in DOMAIN program.code : \A i \in DOMAIN program.code[a] :
              LET o == program.code[a][i]
              IN /\ MakesBarrier(o, b) => o.event = Ev("NewBarrier", b, Cardinality(Users(b)))
                 /\ o.op = "sync_init_event" => o.event.event # "NewBarrier"
  BY DEF AllPlanned, BarriersPlanned, BarrierPlanned, Placed, Users, BarrierUsers, TasksOf, Tasks

(* A task goes once past the place where it says that it waits.  *)
LEMMA PastStays ==
  ASSUME AllPlanned, Placed, NEW b \in BarrierIds, NEW t \in Users(b), Past(t, b), Moved,
         t \notin panicked'
  PROVE  Past(t, b)'
<1>1. t \in Tasks /\ t \in Actors /\ t \in DOMAIN program.code
  BY PlanOf DEF Tasks, Actors
<1>2. PICK i \in DOMAIN program.code[t] :
             Announcements(program, t, b) = {i} /\ PassedOnce(program, t, i)
  BY PlanOf
<1>3. /\ DOMAIN program.code[t] = 1..Len(program.code[t]) /\ Len(program.code[t]) \in Nat
      /\ i \in Nat /\ ip[t] \in Nat /\ ip \in [Actors -> Nat] /\ ip[t] > i
  BY <1>1, <1>2, CodeType DEF Placed, Past
<1>4. SUFFICES program' = program /\ ip'[t] > i
  BY <1>2 DEF Past
<1>5. CASE Stays
  BY <1>3, <1>5 DEF Stays, progVars
<1>6. ASSUME NEW a \in Actors, GoesOn(a)
      PROVE  program' = program /\ ip'[t] > i
  BY <1>1, <1>3, <1>6 DEF GoesOn, Advance
<1>7. ASSUME NEW a \in Actors, GoesBack(a)
      PROVE  program' = program /\ ip'[t] > i
  <2>1. program' = program /\ ip' = [ip EXCEPT ![a] = @ - Op(a).back]
    BY <1>7 DEF GoesBack
  <2>2. CASE a = t
    <3>1. /\ Op(t) = program.code[t][ip[t]] /\ Op(t).op = "loop"
          /\ ip[t] \in 1..Len(program.code[t])
          /\ Op(t).back \in 1..(ip[t] - 1)
      BY <1>1, <1>7, <2>2, StepHasOp DEF GoesBack, OpWellFormed
    <3>2. i \notin (ip[t] - Op(t).back)..ip[t]
      BY <1>2, <1>3, <3>1 DEF PassedOnce
    <3>3. ip'[t] = ip[t] - Op(t).back
      BY <1>1, <1>3, <2>1, <2>2
    <3> HIDE DEF Op
    <3>4. QED
      BY <1>3, <2>1, <3>1, <3>2, <3>3
  <2>3. CASE a # t
    BY <1>1, <1>3, <2>1, <2>3
  <2>4. QED
    BY <2>2, <2>3
<1>8. ASSUME NEW a \in Actors, Fails(a)
      PROVE  program' = program /\ ip'[t] > i
  BY <1>1, <1>3, <1>8 DEF Fails, Panic
<1>9. QED
  BY <1>5, <1>6, <1>7, <1>8 DEF Moved

(* Whoever does not go on has the label it had.  *)
LEMMA StepKeeps ==
  ASSUME AllDisciplined, IInv, Moved
  PROVE  /\ program' = program /\ Tasks' = Tasks /\ Alive' \subseteq Alive
         /\ panicked \subseteq panicked'
         /\ \A b \in BarrierIds : Users(b)' = Users(b)
         /\ \A t \in Alive' :
              \/ Label(t)' = Label(t)
              \/ GoesOn(t) /\ Label(t)' = After(Label(t), Op(t))
         /\ \A a \in Actors \ panicked' :
              ip'[a] \in Int /\ (ip'[a] <= ip[a] \/ (GoesOn(a) /\ ip'[a] = ip[a] + 1))
<1>1. Placed /\ ip \in [Actors -> Nat]
  BY DEF IInv, Disciplines, TestIInv, Placed
<1>2. Tasks \subseteq Actors /\ Alive \subseteq Tasks /\ Tasks \subseteq TaskIds
  BY DEF Tasks, Alive, Actors
<1>3. CASE Stays
  <2>1. UNCHANGED <<program, ip, panicked>>
    BY <1>3 DEF Stays, progVars
  <2>2. QED
    BY <1>1, <2>1 DEF Tasks, Alive, Users, Label
<1>4. ASSUME NEW a \in Actors, GoesOn(a) \/ GoesBack(a) \/ Fails(a)
      PROVE  /\ program' = program /\ panicked' \in {panicked, panicked \cup {a}}
             /\ \A c \in Actors \ {a} : ip'[c] = ip[c]
             /\ a \in panicked' \/ ip'[a] \in Int
             /\ \/ a \in panicked'
                \/ ip'[a] <= ip[a] /\ (a \in Tasks => Label(a)' = Label(a))
                \/ GoesOn(a) /\ ip'[a] = ip[a] + 1
  <2>1. CASE GoesOn(a)
    BY <1>1, <1>4, <2>1 DEF GoesOn, Advance
  <2>2. CASE Fails(a)
    BY <1>1, <1>4, <2>2 DEF Fails, Panic
  <2>3. CASE GoesBack(a)
    <3>1. CanStep(a) /\ a \in TaskIds /\ Op(a).op = "loop"
          /\ ip' = [ip EXCEPT ![a] = @ - Op(a).back] /\ UNCHANGED <<program, panicked>>
      BY <2>3 DEF GoesBack
    <3>2. ip'[a] = ip[a] - Op(a).back /\ Op(a).back \in 1..(ip[a] - 1) /\ ip[a] \in Nat
      BY <1>1, <1>4, <3>1, StepHasOp DEF OpWellFormed
    <3>3. a \in Tasks /\ LabelsOf(program, a)[ip[a] - Op(a).back] = Label(a)
      BY <1>1, <1>4, <3>1, StepLabel, LabelsFollow
    <3>4. Label(a)' = Label(a)
      BY <3>1, <3>2, <3>3 DEF Label
    <3>5. QED
      BY <1>1, <1>4, <3>1, <3>2, <3>4
  <2>4. QED
    BY <1>4, <2>1, <2>2, <2>3
<1>5. ASSUME NEW a \in Actors, GoesOn(a) \/ GoesBack(a) \/ Fails(a), NEW t \in Tasks \ panicked'
      PROVE  \/ Label(t)' = Label(t)
             \/ GoesOn(t) /\ Label(t)' = After(Label(t), Op(t))
  <2>1. program' = program
    BY <1>4, <1>5
  <2>2. CASE t # a
    <3>1. ip'[t] = ip[t]
      BY <1>2, <1>4, <1>5, <2>2
    <3>2. QED
      BY <2>1, <3>1 DEF Label
  <2>3. CASE t = a
    <3>1. Label(t)' = Label(t) \/ GoesOn(a)
      BY <1>4, <1>5, <2>3
    <3>2. CASE GoesOn(a)
      BY <1>5, <2>3, <3>2, StepLabel DEF GoesOn
    <3>3. QED
      BY <3>1, <3>2
  <2>4. QED
    BY <2>2, <2>3
<1>6. ASSUME NEW a \in Actors, GoesOn(a) \/ GoesBack(a) \/ Fails(a)
      PROVE  /\ program' = program /\ Tasks' = Tasks /\ Alive' \subseteq Alive
             /\ panicked \subseteq panicked'
             /\ Alive' = Tasks \ panicked'
             /\ \A b \in BarrierIds : Users(b)' = Users(b)
             /\ \A c \in Actors \ panicked' :
                  ip'[c] \in Int /\ (ip'[c] <= ip[c] \/ (GoesOn(c) /\ ip'[c] = ip[c] + 1))
  <2>1. program' = program /\ panicked \subseteq panicked'
    BY <1>4, <1>6
  <2>2. Tasks' = Tasks /\ Alive' = Tasks \ panicked' /\ \A b \in BarrierIds : Users(b)' = Users(b)
    BY <2>1 DEF Tasks, Alive, Users
  <2>3. Alive' \subseteq Alive
    BY <2>1, <2>2 DEF Alive
  <2>4. \A c \in Actors \ panicked' :
          ip'[c] \in Int /\ (ip'[c] <= ip[c] \/ (GoesOn(c) /\ ip'[c] = ip[c] + 1))
    BY <1>1, <1>4, <1>6
  <2>5. QED
    BY <2>1, <2>2, <2>3, <2>4
<1>7. QED
  BY <1>3, <1>5, <1>6 DEF Moved

(* What an operation does to the part of the label that is about barriers. *)
LEMMA AfterAtBarrier ==
  ASSUME NEW l, IsLabel(l), NEW o, SendsEvent(o) => Addressed(o.event)
  PROVE  /\ After(l, o).barrier = IF SendsEvent(o) THEN BarrierAfter(l.barrier, o.event)
                                  ELSE l.barrier
         /\ After(l, o).came <=> \/ o.op = "barrier.wait"
                                 \/ l.came /\ ~(SendsEvent(o) /\ o.event.event = "CompletedBarrierWait")
<1>1. l = [mutex |-> l.mutex, rwlock |-> l.rwlock, barrier |-> l.barrier, came |-> l.came,
           waits |-> l.waits, group |-> l.group] /\ l.came \in BOOLEAN
  BY DEF IsLabel
<1>2. CASE o.op = "sync_event"
  BY <1>1, <1>2 DEF After, AfterEvent, SendsEvent
<1>3. CASE o.op = "execution_point"
  BY <1>3, AfterPointParts DEF After, SendsEvent
<1>4. CASE o.op = "execution_point_with_event"
  <2>1. IsLabel(AfterEvent(l, o.event))
    BY <1>4, AfterEventLabel DEF SendsEvent
  <2>2. After(l, o) = AfterPoint(AfterEvent(l, o.event))
    BY <1>4 DEF After
  <2>3. /\ After(l, o).barrier = AfterEvent(l, o.event).barrier
        /\ After(l, o).came = AfterEvent(l, o.event).came
    BY <2>1, <2>2, AfterPointParts
  <2>4. QED
    BY <1>4, <2>3 DEF AfterEvent, SendsEvent
<1>5. CASE o.op = "barrier.wait"
  <2>1. After(l, o) = [l EXCEPT !.came = TRUE]
    BY <1>5 DEF After
  <2>2. QED
    BY <1>1, <1>5, <2>1 DEF SendsEvent
<1>6. CASE o.op \in {"lock", "drop"}
  <2>1. /\ \A m, p : MutexPhase(l, m, p).barrier = l.barrier /\ MutexPhase(l, m, p).came = l.came
        /\ \A r, x : RwlockAccess(l, r, x).barrier = l.barrier /\ RwlockAccess(l, r, x).came = l.came
    BY <1>1 DEF MutexPhase, RwlockAccess
  <2>2. QED
    BY <1>6, <2>1 DEF After, SendsEvent
<1>7. CASE o.op \notin {"sync_event", "execution_point", "execution_point_with_event",
                        "barrier.wait", "lock", "drop"}
  BY <1>7 DEF After, SendsEvent
<1>8. QED
  BY <1>2, <1>3, <1>4, <1>5, <1>6, <1>7

-----------------------------------------------------------------------------
LEMMA StartedStep ==
  ASSUME IInv, Started, Moved
  PROVE  Started'
<1>1. ip \in [Actors -> Nat] /\ Root \in Actors
  BY DEF IInv, TestIInv, Placed, Actors
<1>2. CASE Stays
  BY <1>2 DEF Stays, progVars, Started, AtEnd, End
<1>3. ASSUME NEW a \in Actors, GoesOn(a)
      PROVE  Started'
  <2>1. spawned \subseteq spawned' /\ \A t \in TaskIds : state'[t] # "none" => state[t] # "none"
    BY <1>3 DEF GoesOn
  <2>2. /\ ip' = [ip EXCEPT ![a] = @ + 1] /\ UNCHANGED <<program, panicked>>
        /\ CanStep(a)
    BY <1>3 DEF GoesOn, Advance
  <2>3. Root \in panicked => a # Root
    BY <2>2 DEF Started, CanStep
  <2>4. QED
    BY <1>1, <2>1, <2>2, <2>3 DEF Started, AtEnd, End
<1>4. ASSUME NEW a \in Actors, GoesBack(a)
      PROVE  Started'
  <2>1. /\ a # Root /\ ip' = [ip EXCEPT ![a] = @ - Op(a).back]
        /\ UNCHANGED <<program, panicked, spawned, state>>
    BY <1>4, SystemAssumption DEF GoesBack
  <2>2. QED
    BY <1>1, <2>1 DEF Started, AtEnd, End
<1>5. ASSUME NEW a \in Actors, Fails(a)
      PROVE  Started'
  <2>1. /\ ip' = [ip EXCEPT ![a] = End(a)] /\ panicked' = panicked \cup {a}
        /\ UNCHANGED <<program, spawned, state>>
    BY <1>5 DEF Fails, Panic
  <2>2. QED
    BY <1>1, <2>1 DEF Started, AtEnd, End
<1>6. QED
  BY <1>2, <1>3, <1>4, <1>5 DEF Moved

(* The task at the place where it says that it waits is one of the users.  *)
LEMMA Announces ==
  ASSUME AllPlanned, Placed, NEW t \in Tasks, CanStep(t), SendsEvent(Op(t)), NEW b \in BarrierIds,
         Op(t).event.event = "WaitingForBarrier", Op(t).event.id = b
  PROVE  t \in Users(b) /\ Announcements(program, t, b) = {ip[t]}
<1>1. t \in DOMAIN program.code /\ t \in TaskIds /\ ip[t] \in DOMAIN program.code[t]
      /\ Op(t) = program.code[t][ip[t]]
  BY StepHasOp, CodeType DEF Placed, Tasks, Actors
<1>2. ip[t] \in Announcements(program, t, b)
  BY <1>1 DEF Announcements, Says, SendsEvent
<1>3. t \in Users(b)
  BY <1>1, <1>2 DEF Users, BarrierUsers, TasksOf
<1>4. QED
  BY <1>2, <1>3, PlanOf

LEMMA ArrivalsStep ==
  ASSUME AllDisciplined, AllPlanned, IInv, Arrivals, Moved
  PROVE  Arrivals'
<1>1. /\ Placed /\ ip \in [Actors -> Nat] /\ Tasks \subseteq Actors /\ Alive \subseteq Tasks
      /\ Tasks \subseteq TaskIds
  BY DEF IInv, TestIInv, Placed, Tasks, Alive, Actors
<1>2. /\ program' = program /\ Alive' \subseteq Alive
      /\ \A b \in BarrierIds : Users(b)' = Users(b)
      /\ \A t \in Alive' : \/ Label(t)' = Label(t)
                           \/ GoesOn(t) /\ Label(t)' = After(Label(t), Op(t))
  BY StepKeeps
<1>3. ASSUME NEW t \in Alive', NEW b \in BarrierIds, t \in arrived[b] \/ Label(t).barrier = b
      PROVE  t \in Users(b) /\ Past(t, b)'
  <2>1. t \in Users(b) /\ Past(t, b) /\ t \notin panicked'
    BY <1>2, <1>3 DEF Arrivals, Alive
  <2>2. QED
    BY <1>1, <2>1, PastStays
<1>4. ASSUME NEW a \in Tasks, GoesOn(a)
      PROVE  /\ a \in Alive /\ IsLabel(Label(a)) /\ Permits(Label(a), Op(a))
             /\ SendsEvent(Op(a)) => Addressed(Op(a).event) /\ PermitsEvent(Label(a), Op(a).event)
  <2>1. CanStep(a) /\ a \in Actors
    BY <1>1, <1>4 DEF GoesOn
  <2>2. a \in Alive /\ IsLabel(Label(a)) /\ Permits(Label(a), Op(a))
    BY <1>4, <2>1, StepLabel DEF Sound
  <2>3. QED
    BY <1>1, <2>1, <2>2, StepHasOp DEF OpWellFormed, Permits, SendsEvent
<1>5. \/ arrived' = arrived
      \/ \E a \in Alive : /\ Op(a).op = "barrier.wait" /\ GoesOn(a)
                          /\ Op(a).id \in BarrierIds /\ Label(a).barrier = Op(a).id
                          /\ arrived' = [arrived EXCEPT ![Op(a).id] = @ \cup {a}]
  <2>1. ASSUME NEW a \in Actors, GoesOn(a), Op(a).op = "barrier.wait"
        PROVE  /\ a \in Alive /\ Op(a).id \in BarrierIds /\ Label(a).barrier = Op(a).id
               /\ arrived' = [arrived EXCEPT ![Op(a).id] = @ \cup {a}]
    <3>1. a \in TaskIds /\ CanStep(a) /\ arrived' = [arrived EXCEPT ![Op(a).id] = @ \cup {a}]
      BY <2>1 DEF GoesOn
    <3>2. a \in Tasks
      BY <3>1, <2>1, StepLabel
    <3>3. QED
      BY <1>4, <2>1, <3>1, <3>2 DEF Permits
  <2>2. ASSUME NEW a \in Actors, GoesOn(a), Op(a).op # "barrier.wait"
        PROVE  arrived' = arrived
    BY <2>2 DEF GoesOn
  <2>3. Stays \/ (\E a \in Actors : GoesBack(a) \/ Fails(a)) => arrived' = arrived
    BY DEF Stays, GoesBack, Fails, Panic, queueless
  <2>4. QED
    BY <2>1, <2>2, <2>3 DEF Moved
<1>6. /\ arrived' \in [BarrierIds -> SUBSET TaskIds]
      /\ \A b \in BarrierIds : arrived[b] \subseteq arrived'[b] /\ arrived'[b] \subseteq Users(b)
      /\ \A b \in BarrierIds, t \in Alive :
           t \in arrived'[b] => t \in arrived[b] \/ Label(t).barrier = b
  <2>1. CASE arrived' = arrived
    BY <2>1 DEF Arrivals
  <2>2. ASSUME NEW a \in Alive, Op(a).id \in BarrierIds, Label(a).barrier = Op(a).id,
               arrived' = [arrived EXCEPT ![Op(a).id] = @ \cup {a}]
        PROVE  /\ arrived' \in [BarrierIds -> SUBSET TaskIds]
               /\ \A b \in BarrierIds : arrived[b] \subseteq arrived'[b] /\ arrived'[b] \subseteq Users(b)
               /\ \A b \in BarrierIds, t \in Alive :
                    t \in arrived'[b] => t \in arrived[b] \/ Label(t).barrier = b
    <3>1. a \in TaskIds /\ a \in Users(Op(a).id)
      BY <1>1, <2>2 DEF Arrivals
    <3>2. /\ \A b \in BarrierIds : arrived'[b] = IF b = Op(a).id THEN arrived[b] \cup {a}
                                                 ELSE arrived[b]
          /\ arrived' \in [BarrierIds -> SUBSET TaskIds]
      BY <2>2, <3>1 DEF Arrivals
    <3>3. QED
      BY <2>2, <3>1, <3>2 DEF Arrivals
  <2>3. QED
    BY <1>5, <2>1, <2>2
<1>7. ASSUME NEW t \in Alive', NEW b \in BarrierIds, Label(t)'.barrier = b
      PROVE  t \in Users(b) /\ Past(t, b)'
  <2>1. CASE Label(t).barrier = b
    BY <1>3, <2>1
  <2>2. CASE Label(t).barrier # b
    <3>1. t \in Tasks /\ GoesOn(t) /\ Label(t)' = After(Label(t), Op(t))
      BY <1>1, <1>2, <1>7, <2>2
    <3>2. SendsEvent(Op(t)) /\ b = BarrierAfter(Label(t).barrier, Op(t).event)
      BY <1>4, <1>7, <2>2, <3>1, AfterAtBarrier
    <3>3. Op(t).event.event = "WaitingForBarrier" /\ Op(t).event.id = b
      BY <2>2, <3>2, SystemAssumption DEF BarrierAfter
    <3>4. t \in Users(b) /\ Announcements(program, t, b) = {ip[t]}
      BY <1>1, <3>1, <3>2, <3>3, Announces DEF GoesOn
    <3>5. ip'[t] = ip[t] + 1 /\ ip[t] \in Nat
      BY <1>1, <3>1 DEF GoesOn, Advance
    <3>6. QED
      BY <1>2, <3>4, <3>5 DEF Past
  <2>3. QED
    BY <2>1, <2>2
<1>8. ASSUME NEW t \in Alive', Label(t)'.came
      PROVE  Label(t)'.barrier \in BarrierIds /\ t \in arrived'[Label(t)'.barrier]
  <2>1. t \in Alive
    BY <1>2
  <2>2. CASE Label(t)' = Label(t)
    BY <1>6, <1>8, <2>1, <2>2 DEF Arrivals
  <2>3. CASE GoesOn(t) /\ Label(t)' = After(Label(t), Op(t))
    <3>1. /\ IsLabel(Label(t)) /\ Permits(Label(t), Op(t))
          /\ SendsEvent(Op(t)) => Addressed(Op(t).event) /\ PermitsEvent(Label(t), Op(t).event)
      BY <1>1, <1>4, <2>1, <2>3
    <3>2. CASE Op(t).op = "barrier.wait"
      <4>1. Label(t)'.barrier = Label(t).barrier
        BY <2>3, <3>1, <3>2, AfterAtBarrier DEF SendsEvent
      <4>2. /\ Label(t).barrier = Op(t).id /\ Op(t).id \in BarrierIds
            /\ arrived' = [arrived EXCEPT ![Op(t).id] = @ \cup {t}]
        BY <2>3, <3>1, <3>2 DEF Permits, GoesOn
      <4>3. QED
        BY <4>1, <4>2 DEF Arrivals
    <3>3. CASE Op(t).op # "barrier.wait"
      <4>1. /\ Label(t).came
            /\ ~(SendsEvent(Op(t)) /\ Op(t).event.event = "CompletedBarrierWait")
        BY <1>8, <2>3, <3>1, <3>3, AfterAtBarrier
      <4>2. Label(t).barrier \in BarrierIds /\ t \in arrived[Label(t).barrier]
        BY <2>1, <4>1 DEF Arrivals
      <4>3. ~SendsEvent(Op(t))
        BY <3>1, <4>1, <4>2, SystemAssumption DEF PermitsEvent
      <4>4. Label(t)'.barrier = Label(t).barrier
        BY <2>3, <3>1, <4>3, AfterAtBarrier
      <4>5. QED
        BY <1>6, <4>2, <4>4
    <3>4. QED
      BY <3>2, <3>3
  <2>4. QED
    BY <1>2, <2>2, <2>3
<1>9. QED
  BY <1>2, <1>3, <1>6, <1>7, <1>8 DEF Arrivals

-----------------------------------------------------------------------------
(* A barrier gets its capacity where the code makes it. *)
LEMMA CapacityMoves ==
  ASSUME AllPlanned, IInv, Capacities, Moved
  PROVE  /\ capacity' \in [BarrierIds -> Nat]
         /\ \A b \in BarrierIds :
              \/ capacity'[b] = capacity[b]
              \/ capacity'[b] = Cardinality(Users(b))
         /\ \A a \in Actors, b \in BarrierIds : GoesOn(a) /\ MakesBarrier(Op(a), b) =>
              /\ Op(a).event = Ev("NewBarrier", b, Cardinality(Users(b)))
              /\ capacity'[b] = Cardinality(Users(b))
         /\ \/ capacity' = capacity
            \/ \E a \in Actors : /\ GoesOn(a) /\ Op(a).op = "StartBarrier::new"
                                 /\ \A b \in BarrierIds \ {Op(a).event.id} :
                                      capacity'[b] = capacity[b]
<1>1. Placed /\ capacity \in [BarrierIds -> Nat]
  BY DEF IInv, TestIInv, Capacities
<1>2. \A b \in BarrierIds : Cardinality(Users(b)) \in Nat
  BY <1>1, PlanOf, FS_CardinalityType
<1>3. ASSUME NEW a \in Actors, GoesOn(a), NEW b \in BarrierIds, MakesBarrier(Op(a), b)
      PROVE  Op(a).event = Ev("NewBarrier", b, Cardinality(Users(b)))
  <2>1. a \in DOMAIN program.code /\ ip[a] \in DOMAIN program.code[a]
        /\ Op(a) = program.code[a][ip[a]]
    BY <1>1, <1>3, StepHasOp, CodeType DEF GoesOn, Placed
  <2>2. QED
    BY <1>1, <1>3, <2>1, PlanOf
<1>4. CASE capacity' = capacity /\ \A a \in Actors : GoesOn(a) => Op(a).op # "StartBarrier::new"
  BY <1>1, <1>4 DEF MakesBarrier
<1>5. ASSUME NEW a \in Actors, GoesOn(a), Op(a).op = "StartBarrier::new"
      PROVE  /\ capacity' \in [BarrierIds -> Nat]
             /\ \A b \in BarrierIds :
                  \/ capacity'[b] = capacity[b]
                  \/ capacity'[b] = Cardinality(Users(b))
             /\ \A b \in BarrierIds \ {Op(a).event.id} : capacity'[b] = capacity[b]
             /\ \A b \in BarrierIds : MakesBarrier(Op(a), b) =>
                  capacity'[b] = Cardinality(Users(b))
  <2>1. capacity' = [capacity EXCEPT ![Op(a).event.id] = Op(a).event.arg]
    BY <1>5 DEF GoesOn
  <2>2. Op(a).event.id \in BarrierIds =>
          Op(a).event.arg = Cardinality(Users(Op(a).event.id))
    <3>1. SUFFICES ASSUME Op(a).event.id \in BarrierIds
                   PROVE  Op(a).event.arg = Cardinality(Users(Op(a).event.id))
      OBVIOUS
    <3>2. MakesBarrier(Op(a), Op(a).event.id)
      BY <1>5 DEF MakesBarrier
    <3>3. Op(a).event = Ev("NewBarrier", Op(a).event.id, Cardinality(Users(Op(a).event.id)))
      BY <1>3, <1>5, <3>1, <3>2
    <3>4. QED
      BY <3>3 DEF Ev
  <2>3. QED
    BY <1>1, <1>2, <2>1, <2>2 DEF MakesBarrier
<1>6. ASSUME \A a \in Actors : GoesOn(a) => Op(a).op # "StartBarrier::new"
      PROVE  capacity' = capacity
  BY <1>6 DEF Moved, Stays, GoesOn, GoesBack, Fails, Panic, queueless
<1>7. \A a \in Actors, b \in BarrierIds : GoesOn(a) /\ MakesBarrier(Op(a), b) =>
        /\ Op(a).event = Ev("NewBarrier", b, Cardinality(Users(b)))
        /\ capacity'[b] = Cardinality(Users(b))
  BY <1>3, <1>5 DEF MakesBarrier
<1>8. QED
  BY <1>4, <1>5, <1>6, <1>7

LEMMA UsersCounted ==
  ASSUME AllPlanned, Placed, NEW b \in BarrierIds
  PROVE  /\ Cardinality(Users(b)) \in Nat
         /\ Users(b) # {} => Cardinality(Users(b)) # 0
  BY PlanOf, FS_CardinalityType, FS_EmptySet

(* The users of a barrier start after it has its capacity.  *)
LEMMA MadeInTimeStep ==
  ASSUME AllDisciplined, AllPlanned, IInv, Started, Capacities, Moved,
         NEW b \in BarrierIds, Users(b) # {}
  PROVE  MadeInTime(b)'
<1> DEFINE made == BarrierMade(program, b)
<1>1. /\ Placed /\ ip \in [Actors -> Nat] /\ MadeInTime(b) /\ Root \in Actors
      /\ program' = program /\ panicked \subseteq panicked'
  BY StepKeeps DEF IInv, TestIInv, Placed, Capacities, Actors
<1>2. capacity[b] # 0 => capacity'[b] # 0
  BY <1>1, CapacityMoves, UsersCounted
<1>3. ASSUME NEW x \in made, x[1] \in Actors \ panicked', ip'[x[1]] > x[2]
      PROVE  capacity'[b] # 0
  <2> DEFINE a == x[1]
             k == x[2]
  <2>1. a \in DOMAIN program.code /\ k \in DOMAIN program.code[a]
        /\ MakesBarrier(program.code[a][k], b)
    BY DEF BarrierMade
  <2>2. k \in Nat /\ a \in Actors /\ ip[a] \in Nat
    BY <1>1, <1>3, <2>1, CodeType DEF Placed
  <2>3. a \in Actors \ panicked
    BY <1>1, <1>3
  <2>4. ip'[a] \in Int /\ (ip'[a] <= ip[a] \/ (GoesOn(a) /\ ip'[a] = ip[a] + 1))
    BY <1>3, StepKeeps
  <2>5. CASE ip[a] > k
    BY <1>1, <1>2, <2>3, <2>5 DEF MadeInTime
  <2>6. CASE ~(ip[a] > k)
    <3>1. GoesOn(a) /\ ip[a] = k
      BY <1>3, <2>2, <2>4, <2>6
    <3>2. MakesBarrier(Op(a), b)
      BY <2>1, <3>1 DEF Op
    <3>3. QED
      BY <1>1, <2>2, <3>1, <3>2, CapacityMoves, UsersCounted
  <2>7. QED
    BY <2>5, <2>6
<1>4. ASSUME NEW S \in SUBSET DOMAIN program.code, Users(b) \subseteq S,
             StartAfter(program, S, made), S \cap spawned' # {}
      PROVE  capacity'[b] # 0
  <2>1. CASE S \cap spawned # {}
    BY <1>1, <1>2, <1>4, <2>1 DEF MadeInTime
  <2>2. CASE S \cap spawned = {}
    <3>1. PICK a \in Actors : GoesOn(a) /\ Op(a).op = "spawn"
                              /\ spawned' = spawned \cup Op(a).tasks
      BY <1>4, <2>2 DEF Moved, Stays, progVars, GoesOn, GoesBack, Fails, Panic
    <3>2. /\ CanStep(a) /\ a \in DOMAIN program.code /\ ip[a] \in DOMAIN program.code[a]
          /\ Op(a) = program.code[a][ip[a]] /\ (a \in TaskIds => state[a] = "Running")
      BY <1>1, <3>1, StepHasOp, CodeType DEF GoesOn, Placed
    <3>3. Op(a).tasks \cap S # {}
      BY <1>4, <2>2, <3>1
    <3>4. a \in S \/ \E k \in 1..(ip[a] - 1) : <<a, k>> \in made
      BY <1>4, <3>1, <3>2, <3>3 DEF StartAfter
    <3>5. a \notin S
      <4>1. ASSUME a \in S PROVE FALSE
        <5>1. a \in TaskIds
          BY <1>4, <4>1 DEF StartAfter, Actors
        <5>2. a \in spawned
          BY <3>2, <5>1 DEF Started
        <5>3. QED
          BY <2>2, <4>1, <5>2
      <4>2. QED
        BY <4>1
    <3>6. PICK k \in 1..(ip[a] - 1) : <<a, k>> \in made
      BY <3>4, <3>5
    <3>7. a \notin panicked
      <4>1. CASE a = Root
        BY <3>2, <4>1 DEF Started, CanStep
      <4>2. CASE a \in TaskIds
        BY <3>2, <4>2, StepLabel DEF Alive
      <4>3. QED
        BY <4>1, <4>2 DEF Actors
    <3>8. ip[a] > k
      BY <1>1, <3>6
    <3>9. capacity[b] # 0
      BY <1>1, <3>6, <3>7, <3>8 DEF MadeInTime
    <3>10. QED
      BY <1>2, <3>9
  <2>3. QED
    BY <2>1, <2>2
<1>5. /\ DOMAIN program'.code = DOMAIN program.code /\ Users(b)' = Users(b)
      /\ BarrierMade(program', b) = made
      /\ \A S : StartAfter(program', S, made) <=> StartAfter(program, S, made)
  BY <1>1, StepKeeps
<1> HIDE DEF made
<1>6. QED
  BY <1>3, <1>4, <1>5 DEF MadeInTime

LEMMA CapacitiesStep ==
  ASSUME AllDisciplined, AllPlanned, IInv, Started, Capacities, Moved
  PROVE  Capacities'
<1>1. \A b \in BarrierIds : Users(b)' = Users(b)
  BY StepKeeps
<1>2. capacity' \in [BarrierIds -> Nat]
  BY CapacityMoves
<1>3. \A b \in BarrierIds : capacity'[b] \in {0, Cardinality(Users(b))}
  BY CapacityMoves DEF Capacities
<1>4. QED
  BY <1>1, <1>2, <1>3, MadeInTimeStep DEF Capacities

-----------------------------------------------------------------------------
(* Only the last of its users lets the barrier go.  *)
LEMMA LeavesLast ==
  ASSUME AllDisciplined, AllPlanned, IInv, Arrivals, Capacities, NEW a \in Tasks, CanStep(a),
         SendsEvent(Op(a)), NEW b \in BarrierIds, capacity[b] # 0,
         Op(a).event.event = "CompletedBarrierWait", Op(a).event.id = b,
         NEW t \in Alive \cap Users(b)
  PROVE  Past(t, b)
<1>1. Placed /\ a \in Actors
  BY DEF IInv, TestIInv, Tasks, Actors
<1>2. a \in Alive /\ Permits(Label(a), Op(a))
  BY <1>1, StepLabel
<1>3. Label(a).barrier = b /\ Label(a).came
  BY <1>2 DEF Permits, PermitsEvent, SendsEvent
<1>4. a \in arrived[b]
  BY <1>2, <1>3 DEF Arrivals
<1>5. ~(Cardinality(arrived[b]) < capacity[b])
  BY <1>4 DEF CanStep, Waits
<1>6. capacity[b] = Cardinality(Users(b)) /\ arrived[b] \subseteq Users(b)
  BY DEF Capacities, Arrivals
<1>7. IsFiniteSet(Users(b))
  BY <1>1, PlanOf
<1>8. arrived[b] = Users(b)
  <2>1. /\ Cardinality(Users(b)) \in Nat /\ Cardinality(arrived[b]) \in Nat
        /\ arrived[b] # Users(b) => Cardinality(arrived[b]) < Cardinality(Users(b))
    BY <1>6, <1>7, FS_Subset, FS_CardinalityType
  <2>2. QED
    BY <1>5, <1>6, <2>1
<1>9. QED
  BY <1>8 DEF Arrivals

LEMMA OpenStep ==
  ASSUME AllDisciplined, AllPlanned, IInv, Arrivals, Capacities, OpenToAll, Moved
  PROVE  OpenToAll'
<1>1. /\ Placed /\ Barrier!TypeOK /\ Tasks \subseteq Actors
      /\ \A b \in BarrierIds : Users(b)' = Users(b)
      /\ Alive' \subseteq Alive /\ Alive \subseteq Tasks /\ Alive' \cap panicked' = {}
  BY StepKeeps DEF IInv, TestIInv, RegistryIInv, Tasks, Actors, Alive
<1>2. SUFFICES ASSUME NEW b \in BarrierIds, capacity'[b] # 0,
                      NEW t \in Alive' \cap Users(b), ~Past(t, b)'
               PROVE  Barrier!Exists(b)'
  BY <1>1 DEF OpenToAll
<1>3. t \in Alive /\ t \notin panicked' /\ ~Past(t, b)
  BY <1>1, <1>2, PastStays
<1>4. /\ Cardinality(Users(b)) \in Nat /\ Cardinality(Users(b)) # 0
      /\ capacity[b] # 0 => barriers[b].exists
  BY <1>1, <1>2, <1>3, UsersCounted DEF OpenToAll, Barrier!Exists
<1>5. SUFFICES barriers'[b].exists
  BY DEF Barrier!Exists
<1>6. CASE UNCHANGED barrierVars /\ capacity'[b] = capacity[b]
  BY <1>2, <1>4, <1>6 DEF barrierVars
<1>7. ASSUME NEW a \in Actors, GoesOn(a), MakesBarrier(Op(a), b)
      PROVE  barriers'[b].exists
  <2>1. AcceptInit(Op(a).event) /\ Op(a).event = Ev("NewBarrier", b, Cardinality(Users(b)))
    BY <1>7, CapacityMoves DEF GoesOn, SendsInitEvent, MakesBarrier
  <2>2. Barrier!NewBarrier(b, Cardinality(Users(b)))
    BY <2>1 DEF AcceptInit, Ev
  <2>3. barriers'[b].exists
    BY <1>1, <2>2 DEF Barrier!NewBarrier, Barrier!TypeOK, Barrier!BarrierState
  <2>4. QED
    BY <1>4, <2>3
<1>8. ASSUME NEW a \in Actors, GoesOn(a), SendsInitEvent(Op(a)), ~MakesBarrier(Op(a), b)
      PROVE  barriers'[b].exists
  <2>1. AcceptInit(Op(a).event) /\ CanStep(a)
    BY <1>8 DEF GoesOn
  <2>2. capacity'[b] = capacity[b] /\ barriers[b].exists
    <3>1. CASE Op(a).op = "StartBarrier::new"
      <4>1. capacity' = [capacity EXCEPT ![Op(a).event.id] = Op(a).event.arg]
            /\ Op(a).event.id # b
        BY <1>8, <3>1 DEF GoesOn, MakesBarrier
      <4>2. QED
        BY <1>2, <1>4, <4>1 DEF Capacities
    <3>2. CASE Op(a).op # "StartBarrier::new"
      BY <1>2, <1>4, <1>8, <3>2 DEF GoesOn
    <3>3. QED
      BY <3>1, <3>2
  <2>3. Op(a).event.event = "NewBarrier" => Op(a).event.id # b
    <3>1. /\ a \in DOMAIN program.code /\ ip[a] \in DOMAIN program.code[a]
          /\ Op(a) = program.code[a][ip[a]]
      BY <1>1, <1>8, <2>1, StepHasOp, CodeType DEF Placed
    <3>2. Op(a).op = "sync_init_event" => Op(a).event.event # "NewBarrier"
      BY <1>1, <3>1, PlanOf
    <3>3. QED
      BY <1>8, <3>2 DEF SendsInitEvent, MakesBarrier
  <2>4. barriers'[b] = barriers[b]
    <3>1. CASE Op(a).event.event = "NewBarrier"
      BY <1>1, <2>1, <2>3, <3>1 DEF AcceptInit, Barrier!NewBarrier, Barrier!TypeOK
    <3>2. CASE Op(a).event.event # "NewBarrier"
      BY <2>1, <3>2 DEF AcceptInit, barrierVars
    <3>3. QED
      BY <3>1, <3>2
  <2>5. QED
    BY <2>2, <2>4
<1>9. ASSUME NEW a \in Actors, GoesOn(a), SendsEvent(Op(a))
      PROVE  barriers'[b].exists
  <2> DEFINE e == Op(a).event
  <2>1. /\ CanStep(a) /\ a \in TaskIds /\ Accept(a, e) /\ UNCHANGED capacity
    BY <1>9 DEF GoesOn, SendsEvent
  <2>2. a \in Tasks /\ PermitsEvent(Label(a), e) /\ Addressed(e)
    BY <1>1, <1>9, <2>1, StepLabel, StepHasOp DEF Permits, SendsEvent, OpWellFormed
  <2>3. capacity[b] # 0 /\ barriers[b].exists
    BY <1>2, <1>4, <2>1
  <2>4. CASE e.event \notin Barrier!Events
    BY <2>1, <2>3, <2>4 DEF Accept, barrierVars
  <2>5. CASE e.event = "WaitingForBarrier"
    <3>1. Barrier!WaitingForBarrier(a, e.id)
      BY <2>1, <2>5 DEF Accept, Barrier!Accept, Barrier!Events
    <3>2. PICK reached : barriers' = [barriers EXCEPT ![e.id] =
                 Barrier!BarrierState(barriers[e.id].capacity, reached, barriers[e.id].tasks \cup {a})]
      BY <3>1 DEF Barrier!WaitingForBarrier
    <3>3. QED
      BY <1>1, <2>3, <3>2 DEF Barrier!TypeOK, Barrier!BarrierState
  <2>6. CASE e.event = "CompletedBarrierWait"
    <3>1. Barrier!Leave(a, e.id) /\ e.id \in BarrierIds
      BY <2>1, <2>2, <2>6 DEF Accept, Addressed, Barrier!Accept, Barrier!Events,
                             Barrier!CompletedBarrierWait
    <3>2. e.id # b
      BY <1>2, <1>3, <1>9, <2>1, <2>2, <2>3, <2>6, LeavesLast
    <3>3. barriers'[b] = barriers[b]
      BY <1>1, <3>1, <3>2 DEF Barrier!Leave, Barrier!TypeOK
    <3>4. QED
      BY <2>3, <3>3
  <2>7. QED
    BY <2>2, <2>4, <2>5, <2>6 DEF Barrier!Events, PermitsEvent
<1>10. ASSUME NEW a \in Actors, GoesOn(a), ~SendsEvent(Op(a)), ~SendsInitEvent(Op(a))
       PROVE  UNCHANGED barrierVars /\ capacity'[b] = capacity[b]
  BY <1>10 DEF GoesOn, SendsInitEvent, registryVars
<1>11. Stays \/ (\E a \in Actors : GoesBack(a) \/ Fails(a))
         => UNCHANGED barrierVars /\ capacity'[b] = capacity[b]
  BY DEF Stays, GoesBack, Fails, Panic, queueless, registryVars
<1>12. QED
  BY <1>6, <1>7, <1>8, <1>9, <1>10, <1>11 DEF Moved

-----------------------------------------------------------------------------
(* A task that comes to a barrier finds it: it was made before any of its  *)
(* users started, and is there until they have all come.                   *)
LEMMA NothingRefused ==
  ASSUME AllDisciplined, AllPlanned, IInv, Plans, NEW t \in TaskIds, CanStep(t),
         SendsEvent(Op(t)), Reject(t, Op(t).event)
  PROVE  FALSE
<1> DEFINE b == Op(t).event.id
<1>1. Placed /\ t \in Actors
  BY DEF IInv, TestIInv, Actors
<1>2. Op(t).event.event = "WaitingForBarrier" /\ b \in BarrierIds /\ ~Barrier!Exists(b)
  BY RefusedWait DEF SendsEvent
<1>3. t \in Tasks /\ t \in Alive /\ state[t] = "Running"
  BY <1>1, StepLabel
<1>4. t \in Users(b) /\ Announcements(program, t, b) = {ip[t]}
  BY <1>1, <1>2, <1>3, Announces
<1>5. ~Past(t, b)
  BY <1>1, <1>4 DEF Past, Placed
<1>6. PICK S \in SUBSET DOMAIN program.code :
             Users(b) \subseteq S /\ StartAfter(program, S, BarrierMade(program, b))
  BY <1>1, <1>2, PlanOf DEF Late
<1>7. t \in S \cap spawned
  BY <1>3, <1>4, <1>6 DEF Plans, Started
<1>8. capacity[b] # 0
  BY <1>2, <1>4, <1>6, <1>7 DEF Plans, Capacities, MadeInTime
<1>9. QED
  BY <1>2, <1>3, <1>4, <1>5, <1>8 DEF Plans, OpenToAll

LEMMA InitPlans == AllDisciplined /\ AllPlanned /\ Init => Plans
<1> SUFFICES ASSUME AllDisciplined, AllPlanned, Init PROVE Plans
  OBVIOUS
<1>1. Placed
  BY InitTestIInv DEF TestIInv
<1>2. Started
  BY DEF Init, Started
<1>3. /\ arrived = [b \in BarrierIds |-> {}] /\ capacity = [b \in BarrierIds |-> 0]
      /\ spawned = {} /\ \A a \in Actors : ip[a] = 1
      /\ program \in Programs
  BY DEF Init
<1>4. \A t \in Alive : Label(t) = Idle
  BY <1>1, <1>3, LabelsFollow DEF Alive, Tasks, Actors
<1>5. Arrivals
  <2>1. \A t \in Alive : Label(t).barrier = None /\ ~Label(t).came
    BY <1>4 DEF Idle
  <2>2. QED
    BY <1>3, <2>1, SystemAssumption DEF Arrivals
<1>6. ASSUME NEW b \in BarrierIds PROVE MadeInTime(b)
  <2>1. ASSUME NEW x \in BarrierMade(program, b), x[1] \in Actors
        PROVE  ~(ip[x[1]] > x[2])
    <3>1. x[1] \in DOMAIN program.code /\ x[2] \in DOMAIN program.code[x[1]]
      BY DEF BarrierMade
    <3>2. x[2] \in Nat /\ x[2] >= 1
      BY <1>3, <3>1, CodeType
    <3>3. QED
      BY <1>3, <2>1, <3>2
  <2>2. QED
    BY <1>3, <2>1 DEF MadeInTime
<1>7. Capacities
  BY <1>3, <1>6 DEF Capacities
<1>8. OpenToAll
  BY <1>3 DEF OpenToAll
<1>9. QED
  BY <1>2, <1>5, <1>7, <1>8 DEF Plans

LEMMA NextPlans ==
  ASSUME AllDisciplined, AllPlanned, IInv, Plans, [Next]_vars
  PROVE  Plans' /\ OnlyTestsFail
<1>1. Moved
  BY StepKinds DEF Moved
<1>2. Plans'
  BY <1>1, StartedStep, ArrivalsStep, CapacitiesStep, OpenStep DEF Plans
<1>3. OnlyTestsFail
  <2>1. ASSUME NEW a \in Actors, Fails(a), AssertionMayFail(a) \/ AwaitsFailed(a)
        PROVE  OnlyTestsFail
    BY <2>1 DEF Fails, Panic, OnlyTestsFail
  <2>2. Stays \/ (\E a \in Actors : GoesOn(a) \/ GoesBack(a)) => OnlyTestsFail
    BY DEF Stays, progVars, GoesOn, GoesBack, OnlyTestsFail
  <2>3. ASSUME NEW a \in TaskIds, Fails(a), SendsEvent(Op(a)), Reject(a, Op(a).event)
        PROVE  FALSE
    BY <2>3, NothingRefused DEF Fails
  <2>4. QED
    BY <2>1, <2>2, <2>3, StepKinds
<1>4. QED
  BY <1>2, <1>3

LEMMA NextNoPanic ==
  ASSUME AllDisciplined, AllPlanned, IInv, Plans, AssertionsHold, NoBadSync, [Next]_vars
  PROVE  NoBadSync'
<1>1. Moved /\ OnlyTestsFail
  BY StepKinds, NextPlans DEF Moved
<1>2. SUFFICES ASSUME Controlled, panicked = {}, NEW a \in panicked' PROVE FALSE
  BY <1>1, StepKeeps DEF NoBadSync, Controlled
<1>3. ~AwaitsFailed(a) /\ AssertionMayFail(a)
  BY <1>1, <1>2 DEF OnlyTestsFail, AwaitsFailed
<1>4. a \in Actors /\ CanStep(a)
  BY <1>1, <1>2 DEF Moved, Stays, progVars, GoesOn, GoesBack, Fails, Panic
<1>5. QED
  BY <1>2, <1>3, <1>4 DEF AssertionsHold

-----------------------------------------------------------------------------
(* No model refuses an event of a test whose barriers are planned, however *)
(* the scheduler interleaves its tasks: an actor panics only where an      *)
(* assertion of the test may fail, or where it awaits a task that did.     *)
THEOREM NoEventRefused ==
  ASSUME AllDisciplined, AllPlanned PROVE Spec => [][OnlyTestsFail]_vars
<1>1. AllDisciplined /\ AllPlanned /\ Init => IInv /\ Plans
  BY InitIInv, InitPlans
<1>2. IInv /\ Plans /\ [Next]_vars => IInv' /\ Plans' /\ OnlyTestsFail
  BY NextIInv, NextPlans
<1>3. QED
  BY <1>1, <1>2, PTL DEF Spec

(* Nothing panics in the tests that are to be controlled, if their own     *)
(* assertions hold.                                                        *)
THEOREM NoPanic ==
  ASSUME AllDisciplined, AllPlanned PROVE Spec /\ []AssertionsHold => []NoBadSync
<1>1. AllDisciplined /\ AllPlanned /\ Init => IInv /\ Plans /\ NoBadSync
  BY InitIInv, InitPlans DEF Init, NoBadSync
<1>2. IInv /\ Plans /\ [Next]_vars => IInv' /\ Plans'
  BY NextIInv, NextPlans
<1>3. IInv /\ Plans /\ AssertionsHold /\ NoBadSync /\ [Next]_vars => NoBadSync'
  BY NextNoPanic
<1>4. QED
  BY <1>1, <1>2, <1>3, PTL DEF Spec

-----------------------------------------------------------------------------
(* What is asked of the tests in which one decision is made at a time.     *)
AllPatient == \A p \in Programs : Patient(p)

(* No task that runs waits for others.  A task that panicked waits for     *)
(* nothing, so that its end does not have to be waited for either.         *)
Unhindered ==
  /\ \A t \in Tasks \cap panicked : OthersOf(t, Idle) /\ mutex_waiting[t] = {}
  /\ \A t \in TaskIds : state[t] = "Running" => ~Barrier!Answer(t).blocked

LEMMA LabelIsPatient ==
  ASSUME AllPatient, Placed, NEW t \in Tasks
  PROVE  /\ \A m \in MutexIds : Phase(t, m) # "asked"
         /\ Label(t).waits = {} /\ Label(t).group = TaskWait!NoWait
         /\ CanStep(t) =>
              /\ Op(t).op = "sync_event" => Op(t).event.event # "WaitingForBarrier"
              /\ Op(t).op \in {"assert", "assert_value", "await"} =>
                   \A m \in MutexIds : ~Taking(Label(t), m)
<1> DEFINE L == LabelsOf(program, t)
           end == Len(program.code[t]) + 1
<1>1. /\ \A i \in 1..end :
           /\ \A m \in MutexIds : L[i].mutex[m] # "asked"
           /\ L[i].waits = {} /\ L[i].group = TaskWait!NoWait
      /\ \A i \in 1..(end - 1) :
           LET o == program.code[t][i]
           IN /\ o.op = "sync_event" => o.event.event # "WaitingForBarrier"
              /\ o.op \in {"assert", "assert_value", "await"} =>
                   \A m \in MutexIds : ~Taking(L[i], m)
  BY DEF AllPatient, Placed, Tasks, TasksOf, Patient, PatientTask
<1>2. ip[t] \in 1..end /\ end \in Nat
  BY CodeType DEF Placed, Tasks, Actors, End
<1> HIDE DEF L
<1>3. Label(t) = L[ip[t]]
  BY DEF Label, L
<1>4. ASSUME CanStep(t)
      PROVE  ip[t] \in 1..(end - 1) /\ Op(t) = program.code[t][ip[t]]
  BY <1>4, StepHasOp DEF Tasks, Actors
<1>5. QED
  BY <1>1, <1>2, <1>3, <1>4 DEF Phase

(* In a patient test a task that runs is never blocked: who takes a mutex  *)
(* is the only one to, and the barrier it is at is open.                   *)
LEMMA RunningIsUnblocked ==
  ASSUME AllDisciplined, AllPatient, IInv, Unhindered, NEW t \in TaskIds, state[t] = "Running"
  PROVE  ~Answers[t].blocked
<1>1. t \in Tasks /\ RegistryIInv /\ Mutex!TypeOK /\ Placed
  BY DEF IInv, Disciplines, TestIInv, Placed, RegistryIInv, MutexIInv
<1>2. OthersOf(t, Idle) /\ watch_tasks[t] = None
  <2>1. CASE t \in Alive
    <3>1. Label(t).waits = Idle.waits /\ Label(t).group = Idle.group
      BY <1>1, LabelIsPatient DEF Idle
    <3>2. QED
      BY <2>1, <3>1 DEF IInv, Disciplines, OthersKnown, OthersOf
  <2>2. CASE t \notin Alive
    BY <1>1, <2>2 DEF Unhindered, Alive, IInv, Disciplines, OthersKnown
  <2>3. QED
    BY <2>1, <2>2
<1>3. \A m \in mutex_waiting[t] : m \in MutexIds /\ mutex_held_by[m] = None
  <2>1. CASE t \in Alive
    <3>1. SUFFICES ASSUME NEW m \in mutex_waiting[t], m \in MutexIds, mutex_held_by[m] # None
                   PROVE  FALSE
      BY <1>1 DEF Mutex!TypeOK
    <3>2. Taking(Label(t), m) /\ MutexesOf(t, Label(t))
      BY <2>1, <3>1 DEF IInv, Disciplines, MutexesKnown, MutexesOf
    <3>3. Phase(t, m) \in {"waiting", "queued"} /\ Owns(t, m)
      BY <1>1, <2>1, <3>1, <3>2, LabelIsPatient DEF Taking, Phase, Owns
    <3>4. PICK u \in Tasks : mutex_held_by[m] = u
      BY <3>1 DEF IInv, Disciplines, MutexesKnown
    <3>5. Owns(u, m)
      <4>1. CASE u \in Alive
        BY <3>1, <3>4, <4>1 DEF IInv, Disciplines, MutexesKnown, MutexesOf, Owns, Phase
      <4>2. CASE u \notin Alive
        BY <3>4, <4>2 DEF Owns
      <4>3. QED
        BY <4>1, <4>2
    <3>6. u = t
      BY <1>1, <3>1, <3>3, <3>5 DEF IInv, Disciplines, Exclusive
    <3>7. QED
      BY <3>1, <3>2, <3>3, <3>4, <3>6 DEF MutexesOf, Phase
  <2>2. CASE t \notin Alive
    BY <1>1, <2>2 DEF Unhindered, Alive
  <2>3. QED
    BY <2>1, <2>2
<1>4. ~Mutex!Answer(t).blocked
  BY <1>3 DEF Mutex!Answer, Mutex!ReadyAlone, Mutex!ReadyWithOthers
<1>5. ~Rwlock!Answer(t).blocked
  BY DEF Rwlock!Answer, Rwlock!ReadyWithOthers
<1>6. ~Barrier!Answer(t).blocked
  BY DEF Unhindered
<1>7. t \notin is_in_join /\ t \notin blocked_tasks /\ task_waits[t] = TaskWait!NoWait
  BY <1>2 DEF OthersOf, Idle
<1>8. /\ ~Join!Answer(t).blocked /\ ~Unknown!Answer(t).blocked /\ ~Watch!Answer(t).blocked
      /\ ~TaskWait!Answer(t).blocked
  BY <1>2, <1>7 DEF Join!Answer, Join!ReadyAlone, Join!ReadyWithOthers, Unknown!Answer,
              Unknown!ReadyAlone, Unknown!ReadyWithOthers, Watch!Answer, Watch!ReadyAlone,
              Watch!ReadyWithOthers, TaskWait!Answer, TaskWait!ReadyAlone, TaskWait!ReadyWithOthers
<1>9. QED
  BY <1>1, <1>4, <1>5, <1>6, <1>8, AnswerOf

(* Whoever is at no barrier, or at one that is open, needs only such tasks.*)
LEMMA ReachIsOpen ==
  ASSUME AllDisciplined, IInv, NEW t \in TaskIds, ~Barrier!Answer(t).blocked,
         NEW u \in Sched!Reach(Answers, t)
  PROVE  u \in TaskIds /\ ~Barrier!Answer(u).blocked
<1> DEFINE S == {v \in TaskIds : ~Barrier!Answer(v).blocked}
<1>1. ASSUME NEW v \in S, NEW w \in Answers[v].need
      PROVE  w \in S
  <2>1. CASE w \in Rwlock!Answer(v).need
    <3>1. PICK r \in RwlockIds : w \in TaskIds /\ Way(w).rwlock[r].phase = "held"
      BY <2>1, NeededFor
    <3>2. Way(w).rwlock[r] # NoAccess /\ Way(w) # Idle
      BY <3>1 DEF NoAccess, Access, Idle
    <3>3. w \in Alive /\ w \in Tasks /\ Way(w) = Label(w)
      BY <3>1, <3>2, LabelIsLive DEF Alive, Way
    <3>4. Label(w).barrier = None
      BY <3>2, <3>3, LabelsFollow DEF Sound, NoRwlock, IInv, Disciplines, TestIInv
    <3>5. barrier_waiting[w] = None
      BY <3>1, <3>3, <3>4 DEF IInv, Disciplines, BarriersKnown
    <3>6. QED
      BY <3>1, <3>5 DEF Barrier!Answer, Barrier!ReadyAlone, Barrier!ReadyWithOthers
  <2>2. CASE w \in Barrier!Answer(v).need
    <3>1. w \in TaskIds /\ barrier_waiting[w] = barrier_waiting[v]
      BY <2>2, NeededFor
    <3>2. QED
      BY <3>1 DEF Barrier!Answer
  <2>3. QED
    BY <2>1, <2>2, NeededFor
<1>2. S \in SUBSET TaskIds /\ t \in S /\ \A v \in S : Answers[v].need \subseteq S
  BY <1>1
<1>3. Sched!Reach(Answers, t) \subseteq S
  BY <1>2, ReachedWithin
<1>4. QED
  BY <1>3

(* So the scheduler resumes no task at a barrier that is not open. *)
LEMMA ResumedIsOpen ==
  ASSUME AllDisciplined, AllPatient, IInv, Unhindered, Resume, NEW t \in TaskIds,
         state'[t] = "Running"
  PROVE  ~Barrier!Answer(t).blocked
<1>1. PICK tasks \in Sched!Due : Sched!ServeTasks(tasks)
  BY DEF Resume, Sched!Serve
<1>2. state' = [u \in TaskIds |-> IF u \in tasks THEN "Running" ELSE state[u]]
  BY <1>1, DueIsReady DEF Sched!ServeTasks
<1>3. CASE t \notin tasks
  BY <1>2, <1>3 DEF Unhindered
<1>4. ASSUME NEW u \in TaskIds, ~Answers[u].blocked, t \in Sched!Reach(Answers, u)
      PROVE  ~Barrier!Answer(t).blocked
  <2>1. ~Barrier!Answer(u).blocked
    BY <1>4, AnswerOf DEF IInv, Disciplines, TestIInv
  <2>2. QED
    BY <1>4, <2>1, ReachIsOpen
<1>5. CASE t \in tasks
  <2>1. CASE Sched!HasReady(Answers, Sched!Running)
    <3>1. PICK u \in Sched!Running : t \in Sched!Reach(Answers, u)
      BY <1>5, <2>1, DueReached
    <3>2. QED
      BY <1>4, <3>1, RunningIsUnblocked DEF Sched!Running
  <2>2. CASE ~Sched!HasReady(Answers, Sched!Running)
    BY <1>4, <1>5, <2>2, DueReached DEF Sched!Ready
  <2>3. QED
    BY <2>1, <2>2
<1>6. QED
  BY <1>3, <1>5

(* What a task does changes no wait of another but at barriers. *)
LEMMA WaitsOfOthers ==
  ASSUME AllDisciplined, IInv, NEW a \in Actors, GoesOn(a), NEW t \in Tasks \ {a}
  PROVE  /\ mutex_waiting'[t] = mutex_waiting[t]
         /\ OthersOf(t, Idle) => OthersOf(t, Idle)'
<1>1. t \in TaskIds /\ RegistryIInv /\ BarriersKnown /\ OthersKnown /\ Placed /\ a \in Actors
  BY DEF Tasks, IInv, Disciplines, TestIInv
<1>2. CASE SendsEvent(Op(a))
  <2>1. a \in TaskIds /\ CanStep(a) /\ Accept(a, Op(a).event)
    BY <1>2 DEF GoesOn
  <2>2. /\ a \in Tasks /\ a \in Alive /\ Sound(Label(a)) /\ Permits(Label(a), Op(a))
    BY <2>1, StepLabel
  <2>3. /\ IsLabel(Label(a)) /\ PermitsEvent(Label(a), Op(a).event) /\ Addressed(Op(a).event)
        /\ MutexesOf(a, Label(a)) /\ OthersOf(a, Label(a))
    BY <1>1, <1>2, <2>1, <2>2, StepHasOp
    DEF SendsEvent, Sound, Permits, OpWellFormed, IInv, Disciplines, MutexesKnown, OthersKnown
  <2>4. mutex_waiting'[t] = mutex_waiting[t]
    BY <1>1, <2>1, <2>3, MutexesOfOthers
  <2>5. /\ t \in is_in_join' <=> t \in is_in_join
        /\ t \in blocked_tasks' <=> t \in blocked_tasks
        /\ task_waits'[t] = task_waits[t]
    BY <1>1, <2>1, <2>3, OthersFollow
  <2>6. QED
    BY <2>4, <2>5 DEF OthersOf, Idle, TaskWait!NoWait
<1>3. CASE ~SendsEvent(Op(a))
  <2>1. QuietRegistry
    <3>1. CASE SendsInitEvent(Op(a))
      <4>1. CanStep(a) /\ AtFreshAddress(Op(a).event) /\ AcceptInit(Op(a).event)
        BY <3>1 DEF GoesOn
      <4>2. AddressedInit(Op(a).event)
        BY <1>1, <3>1, <4>1, StepHasOp DEF SendsInitEvent, OpWellFormed
      <4>3. QED
        BY <1>1, <4>1, <4>2, InitEventIsQuiet
    <3>2. CASE ~SendsInitEvent(Op(a))
      BY <1>3, <3>2, SameRegistryIsQuiet DEF GoesOn
    <3>3. QED
      BY <3>1, <3>2
  <2>2. QED
    BY <2>1 DEF QuietRegistry, mutexVars, OthersOf, Idle, TaskWait!NoWait
<1>4. QED
  BY <1>2, <1>3

(* Who fails waits for nothing. *)
LEMMA FailsAtEase ==
  ASSUME AllDisciplined, AllPatient, IInv, NEW a \in Tasks, Fails(a),
         \/ AssertionMayFail(a) \/ AwaitsFailed(a)
         \/ a \in TaskIds /\ SendsEvent(Op(a)) /\ Reject(a, Op(a).event)
  PROVE  OthersOf(a, Idle) /\ mutex_waiting[a] = {}
<1>1. a \in TaskIds /\ a \in Actors /\ CanStep(a) /\ Placed /\ Mutex!TypeOK
  BY DEF Tasks, Actors, Fails, IInv, Disciplines, TestIInv, RegistryIInv, MutexIInv
<1>2. /\ a \in Alive /\ Sound(Label(a)) /\ Sound(After(Label(a), Op(a)))
      /\ Permits(Label(a), Op(a))
  BY <1>1, StepLabel
<1>3. OthersOf(a, Idle)
  <2>1. Label(a).waits = Idle.waits /\ Label(a).group = Idle.group
    BY <1>1, LabelIsPatient DEF Idle
  <2>2. QED
    BY <1>2, <2>1 DEF IInv, Disciplines, OthersKnown, OthersOf
<1>4. \A m \in MutexIds : ~Taking(Label(a), m)
  <2>1. CASE AssertionMayFail(a) \/ AwaitsFailed(a)
    BY <1>1, <2>1, LabelIsPatient DEF AssertionMayFail, AwaitsFailed
  <2>2. CASE SendsEvent(Op(a)) /\ Reject(a, Op(a).event)
    <3> DEFINE l == Label(a)
               e == Op(a).event
               k == AfterEvent(l, e)
    <3>1. e.event = "WaitingForBarrier" /\ e.id \in BarrierIds
      BY <1>1, <2>2, RefusedWait DEF SendsEvent
    <3>2. k.mutex = l.mutex /\ k.barrier = e.id
      BY <3>1 DEF AfterEvent, MutexesAfter, BarrierAfter
    <3>3. After(l, Op(a)) \in {k, AfterPoint(k)}
      BY <2>2 DEF After, SendsEvent
    <3>4. IsLabel(k)
      <4>1. Addressed(e) /\ PermitsEvent(l, e) /\ IsLabel(l)
        BY <1>1, <1>2, <2>2, StepHasOp DEF SendsEvent, OpWellFormed, Permits, Sound
      <4> HIDE DEF l, e
      <4>2. QED
        BY <4>1, AfterEventLabel
    <3> HIDE DEF k, e
    <3>5. After(l, Op(a)).barrier # None
      BY <3>1, <3>2, <3>3, <3>4, AfterPointParts, SystemAssumption
    <3>6. \A m \in MutexIds : Taking(l, m) => Taking(After(l, Op(a)), m)
      BY <3>2, <3>3, <3>4 DEF Taking, AfterPoint, IsLabel
    <3>7. QED
      BY <1>2, <3>5, <3>6 DEF Sound
  <2>3. QED
    BY <2>1, <2>2
<1>5. mutex_waiting[a] \subseteq MutexIds
  BY <1>1 DEF Mutex!TypeOK
<1>6. mutex_waiting[a] = {}
  BY <1>2, <1>4, <1>5 DEF IInv, Disciplines, MutexesKnown, MutexesOf
<1>7. QED
  BY <1>3, <1>6

LEMMA PanickedStep ==
  ASSUME AllDisciplined, AllPatient, IInv, Unhindered, [Next]_vars,
         NEW t \in Tasks', t \in panicked'
  PROVE  OthersOf(t, Idle)' /\ mutex_waiting'[t] = {}
<1>1. Moved
  BY StepKinds DEF Moved
<1>2. t \in Tasks /\ t \in TaskIds /\ t \in Actors
  BY <1>1, StepKeeps DEF Tasks, Actors
<1>3. ASSUME UNCHANGED registryVars, OthersOf(t, Idle), mutex_waiting[t] = {}
      PROVE  OthersOf(t, Idle)' /\ mutex_waiting'[t] = {}
  BY <1>3 DEF registryVars, mutexVars, taskWaitVars, OthersOf, Idle, TaskWait!NoWait
<1>4. CASE t \in panicked
  <2>1. OthersOf(t, Idle) /\ mutex_waiting[t] = {}
    BY <1>2, <1>4 DEF Unhindered
  <2>2. ASSUME NEW a \in Actors, GoesOn(a)
        PROVE  OthersOf(t, Idle)' /\ mutex_waiting'[t] = {}
    <3>1. a # t
      BY <1>2, <1>4, <2>2 DEF GoesOn, CanStep, IInv, Disciplines, Living, Alive
    <3>2. QED
      BY <1>2, <2>1, <2>2, <3>1, WaitsOfOthers
  <2>3. CASE UNCHANGED registryVars
    BY <1>3, <2>1, <2>3
  <2>4. QED
    BY <1>1, <2>2, <2>3 DEF Moved, Stays, GoesBack, Fails
<1>5. CASE t \notin panicked
  <2>1. PICK a \in Actors : /\ Fails(a)
                            /\ \/ AssertionMayFail(a) \/ AwaitsFailed(a)
                               \/ a \in TaskIds /\ SendsEvent(Op(a)) /\ Reject(a, Op(a).event)
    <3>1. Stays \/ (\E a \in Actors : GoesOn(a) \/ GoesBack(a)) => panicked' = panicked
      BY DEF Stays, progVars, GoesOn, GoesBack
    <3>2. QED
      BY <1>5, <3>1, StepKinds
  <2>2. a = t /\ UNCHANGED registryVars
    BY <1>5, <2>1 DEF Fails, Panic
  <2>3. QED
    BY <1>2, <1>3, <2>1, <2>2, FailsAtEase
<1>6. QED
  BY <1>4, <1>5

(* An open barrier stays open (BarriersStayOpen), and who comes to another *)
(* is suspended there.                                                     *)
LEMMA RunningStaysOpen ==
  ASSUME AllDisciplined, AllPatient, IInv, Unhindered, [Next]_vars, NEW t \in TaskIds,
         state'[t] = "Running"
  PROVE  ~Barrier!Answer(t)'.blocked
<1>1. Moved /\ Barrier!TypeOK /\ Placed /\ BarriersKnown
  BY StepKinds DEF Moved, IInv, Disciplines, TestIInv, RegistryIInv, OthersTypeOK
<1>2. Barrier!KeepsOpen
  BY <1>1, StepOfRegistry, TestsAddressed, BarrierStep DEF IInv, Disciplines, TestIInv
<1>3. barrier_waiting'[t] = Way(t)'.barrier /\ Way(t).barrier = barrier_waiting[t]
  BY NextIInv DEF IInv, Disciplines, BarriersKnown
<1>4. ~Barrier!Answer(t).blocked
  <2>1. CASE state[t] = "Running"
    BY <2>1 DEF Unhindered
  <2>2. CASE Resume
    BY <2>2, ResumedIsOpen
  <2>3. CASE state[t] = "none"
    <3>1. Way(t) = Idle
      <4>1. CASE t \in Alive
        BY <1>1, <2>3, <4>1, LabelsFollow DEF IInv, Disciplines, Living, Alive, Way
      <4>2. QED
        BY <4>1 DEF Way
    <3>2. barrier_waiting[t] = None
      BY <1>3, <3>1 DEF Idle
    <3>3. QED
      BY <3>2 DEF Barrier!Answer, Barrier!ReadyAlone, Barrier!ReadyWithOthers
  <2>4. QED
    BY <1>1, <2>1, <2>2, <2>3 DEF Moved, Stays, GoesOn, GoesBack, Fails
<1>5. CASE barrier_waiting'[t] = None
  BY <1>5 DEF Barrier!Answer, Barrier!ReadyAlone, Barrier!ReadyWithOthers
<1>6. CASE barrier_waiting'[t] # None
  <2>1. t \in Alive' /\ t \in Alive /\ t \in Tasks /\ Way(t) = Label(t) /\ Way(t)' = Label(t)'
    <3>1. t \in Alive'
      BY <1>3, <1>6 DEF Way, Idle
    <3>2. QED
      BY <1>1, <3>1, StepKeeps DEF Way, Alive
  <2>2. Label(t)' = Label(t) \/ (GoesOn(t) /\ Label(t)' = After(Label(t), Op(t)))
    BY <1>1, <2>1, StepKeeps
  <2>3. Label(t)'.barrier = Label(t).barrier
    <3>1. CASE GoesOn(t) /\ Label(t)' = After(Label(t), Op(t))
      <4>1. CanStep(t) /\ t \in Actors /\ Op(t).op # "execution_point_with_event"
        BY <2>1, <3>1 DEF GoesOn, Tasks, Actors
      <4>2. Op(t).op = "sync_event" => Op(t).event.event # "WaitingForBarrier"
        BY <1>1, <2>1, <4>1, LabelIsPatient
      <4>3. \/ After(Label(t), Op(t)).barrier = Label(t).barrier
            \/ Op(t).op = "sync_event" /\ After(Label(t), Op(t)).barrier = None
        <5>1. CASE Op(t).op = "sync_event"
          <6>1. After(Label(t), Op(t)) = AfterEvent(Label(t), Op(t).event)
            BY <5>1 DEF After
          <6>2. QED
            BY <4>2, <5>1, <6>1 DEF AfterEvent, BarrierAfter
        <5>2. CASE Op(t).op # "sync_event"
          <6>1. IsLabel(Label(t))
            BY <4>1, <2>1, StepLabel DEF Sound
          <6>2. QED
            BY <4>1, <5>2, <6>1 DEF After, AfterPoint, MutexPhase, RwlockAccess, IsLabel
        <5>3. QED
          BY <5>1, <5>2
      <4>4. QED
        BY <1>3, <1>6, <2>1, <3>1, <4>3
    <3>2. QED
      BY <2>2, <3>1
  <2>4. barrier_waiting'[t] = barrier_waiting[t]
    BY <1>3, <2>1, <2>3
  <2>5. t \in barriers'[barrier_waiting[t]].tasks
    <3>1. barrier_waiting[t] \in BarrierIds
      BY <1>1, <1>6, <2>4 DEF Barrier!TypeOK
    <3>2. barrier_waiting'[t] = barrier_waiting[t] /\ BarriersKnown'
      BY <2>4, NextIInv DEF IInv, Disciplines
    <3>3. QED
      BY <3>1, <3>2 DEF BarriersKnown
  <2>6. ~Barrier!MadeAnew(barrier_waiting[t])
    BY <2>5 DEF Barrier!MadeAnew, Barrier!BarrierState
  <2>7. QED
    BY <1>2, <1>4, <1>6, <2>4, <2>6 DEF Barrier!KeepsOpen
<1>7. QED
  BY <1>5, <1>6

LEMMA NextUnhindered ==
  ASSUME AllDisciplined, AllPatient, IInv, Unhindered, [Next]_vars
  PROVE  Unhindered'
  BY PanickedStep, RunningStaysOpen DEF Unhindered

(* One decision at a time: for any number of tasks, mutexes, rwlocks and   *)
(* barriers, when the scheduler chooses, every task is suspended or has    *)
(* ended, and no task can do anything before a chosen one does.            *)
THEOREM OneDecisionAtATime ==
  ASSUME AllDisciplined, AllPatient PROVE Spec => ChoiceWaitsForTasks
<1>1. AllDisciplined /\ Init => IInv /\ Unhindered
  <2>1. Init => Unhindered
    BY DEF Init, Unhindered
  <2>2. QED
    BY <2>1, InitIInv
<1>2. IInv /\ Unhindered /\ [Next]_vars => IInv' /\ Unhindered'
  BY NextIInv, NextUnhindered
<1>3. IInv /\ Unhindered /\ ~Sched!HasReady(Answers, Sched!Running)
        => \A t \in TaskIds : state[t] # "Running"
  BY RunningIsUnblocked DEF Sched!HasReady, Sched!Unblocked, Sched!Running
<1> DEFINE Waited ==
             /\ Controlled
             /\ \E t \in TaskIds : state[t] = "Ready" /\ state'[t] = "Running"
             /\ ~Sched!HasReady(Answers, Sched!Running)
             => \A t \in TaskIds : state[t] = "Running" => ~CanStep(t) /\ ~AtEnd(t)
<1>4. IInv /\ Unhindered => Waited
  BY <1>3
<1>5. QED
  BY <1>1, <1>2, <1>4, PTL DEF Spec, ChoiceWaitsForTasks
=============================================================================
