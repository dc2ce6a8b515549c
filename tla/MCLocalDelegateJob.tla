------------------------- MODULE MCLocalDelegateJob -------------------------
(***************************************************************************)
(* Instance of LocalDelegateJob for TLC: three workers, two jobs, as many  *)
(* lock objects as can be alive with three workers, and one spare.         *)
(***************************************************************************)
EXTENDS LocalDelegateJob, TLC

Symmetry == Permutations(Threads) \cup Permutations(JobKeys)
                \cup Permutations(LockIds)
=============================================================================
