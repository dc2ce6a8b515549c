---------------------- MODULE MCDistributedDelegateJob ----------------------
(***************************************************************************)
(* Instance of DistributedDelegateJob for TLC.                             *)
(***************************************************************************)
EXTENDS DistributedDelegateJob
=============================================================================
