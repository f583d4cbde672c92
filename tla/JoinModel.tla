------------------------------ MODULE JoinModel ------------------------------
(* The model of tasks in a join (src/src/sync/join.rs). *)
EXTENDS TaskProgress

VARIABLE is_in_join

Init == is_in_join = {}

Answer(t) == IF t \in is_in_join THEN Blocked ELSE ReadyAlone

StartingJoin(t) == t \notin is_in_join /\ is_in_join' = is_in_join \cup {t}

BadStartingJoin(t) == t \in is_in_join /\ UNCHANGED is_in_join

CompletedJoin(t) == t \in is_in_join /\ is_in_join' = is_in_join \ {t}

BadCompletedJoin(t) == t \notin is_in_join /\ UNCHANGED is_in_join

Events == {"StartingJoin", "CompletedJoin"}

Accept(t, e) ==
  \/ e.event = "StartingJoin" /\ StartingJoin(t)
  \/ e.event = "CompletedJoin" /\ CompletedJoin(t)

Reject(t, e) ==
  \/ e.event = "StartingJoin" /\ BadStartingJoin(t)
  \/ e.event = "CompletedJoin" /\ BadCompletedJoin(t)

TypeOK == is_in_join \subseteq TaskIds
=============================================================================
