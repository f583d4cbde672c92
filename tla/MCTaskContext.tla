--------------------------- MODULE MCTaskContext ---------------------------
(* An instance of TaskContext for TLC.  *)
EXTENDS TaskContext, TLC

Symmetric ==
  Permutations(Threads) \cup Permutations(Futures) \cup Permutations(Schedulers)
=============================================================================
