---------------------------- MODULE MCTracesPage ----------------------------
(* A small instance of TracesPage: three traces of one project, no two of  *)
(* which start together, and one of another.                               *)
EXTENDS TracesPage
MCOwner == <<"p1", "p1", "p1", "p2">>
MCStartTime == <<2, 3, 1, 4>>
MCMatches == [f \in Filters |-> IF f = NoFilter THEN Traces ELSE {3, 4}]
=============================================================================
