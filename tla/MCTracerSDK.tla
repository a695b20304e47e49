---------------------------- MODULE MCTracerSDK ----------------------------
(* Small instances of the TypeScript tracer for TLC. *)
EXTENDS TracerSDK, TLC

Symmetry == Permutations(Spans) \cup Permutations(Flushes)
=============================================================================
