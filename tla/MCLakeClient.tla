---------------------------- MODULE MCLakeClient ----------------------------
(***************************************************************************)
(* Instances of LakeClient for TLC.                                        *)
(***************************************************************************)
EXTENDS LakeClient, TLC
=============================================================================
