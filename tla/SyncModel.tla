------------------------------ MODULE SyncModel ------------------------------
(* What the synchronization models have in common. *)
EXTENDS TaskProgress

CONSTANT None  \* no task, or no id: the Option of the source

ASSUME NoneAssumption == None \notin TaskIds
=============================================================================
