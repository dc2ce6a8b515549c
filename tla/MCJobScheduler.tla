--------------------------- MODULE MCJobScheduler ---------------------------
(***************************************************************************)
(* Instance of JobScheduler for TLC: one job name, two calling threads and *)
(* one or two workers.  The explicit group "microfox" names the same key   *)
(* as the provider's null group, so that every operation can meet the job. *)
(***************************************************************************)
EXTENDS JobScheduler, TLC

Symmetry == Permutations(Callers)
=============================================================================
