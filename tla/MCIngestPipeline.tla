-------------------------- MODULE MCIngestPipeline --------------------------
(***************************************************************************)
(* Instances of IngestPipeline for TLC.                                    *)
(***************************************************************************)
EXTENDS IngestPipeline, TLC

Symmetry == Permutations(Batches) \cup Permutations(Writers)
=============================================================================
