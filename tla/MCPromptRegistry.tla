-------------------------- MODULE MCPromptRegistry --------------------------
(* Small instances of the Prompt Registry for TLC. *)
EXTENDS PromptRegistry, TLC

Symmetry == Permutations(Callers) \cup Permutations(Writers) \cup Permutations(Replicas)
=============================================================================
