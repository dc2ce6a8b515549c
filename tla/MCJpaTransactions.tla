-------------------------- MODULE MCJpaTransactions -------------------------
(***************************************************************************)
(* Instance of JpaTransactions for TLC.                                    *)
(***************************************************************************)
EXTENDS JpaTransactions, TLC

Symmetry == Permutations(Ems) \cup Permutations(Writes) \cup Permutations(Identities)
=============================================================================
