----------------------------- MODULE MCSseBroker -----------------------------
(***************************************************************************)
(* Instance of SseBroker for TLC.                                          *)
(***************************************************************************)
EXTENDS SseBroker, TLC

Symmetry == Permutations(Callers) \cup Permutations(Clients) \cup Permutations(Infos)
                \cup Permutations(Publishers) \cup Permutations(Events)
=============================================================================
