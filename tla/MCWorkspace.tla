----------------------------- MODULE MCWorkspace -----------------------------
(* A small instance of Workspace. *)
EXTENDS Workspace
MCTours == {{"prompts", "rules"}, {"rules", "datasets"}}
=============================================================================
