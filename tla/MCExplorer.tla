----------------------------- MODULE MCExplorer -----------------------------
(* A small instance of Explorer. *)
EXTENDS Explorer
MCOwner == <<"p1", "p2">>
=============================================================================
