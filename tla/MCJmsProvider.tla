--------------------------- MODULE MCJmsProvider ----------------------------
(* Two callers; the contexts and the controllers of a behaviour differ in name only. *)
EXTENDS JmsProvider, TLC

Symmetry == Permutations(Contexts) \cup Permutations(Controllers) \cup Permutations(Callers)
=============================================================================
