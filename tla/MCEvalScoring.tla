---------------------------- MODULE MCEvalScoring ---------------------------
(***************************************************************************)
(* Instances of EvalScoring for TLC.                                       *)
(***************************************************************************)
EXTENDS EvalScoring, TLC
=============================================================================
