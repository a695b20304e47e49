---------------------------- MODULE KeyParameters ----------------------------
(***************************************************************************)
(* The parameters of ApiKeys and what is assumed of them.                  *)
(***************************************************************************)
EXTENDS Naturals

CONSTANTS
    Projects,
    Keys,
    NoProject,
    Checks,     \* bound: requests that may be validated at the same time
    TTL,        \* CacheTTL
    MaxClock    \* bound: the latest time

ASSUME TTLAssumption == TTL \in Nat \ {0}
ASSUME ClockAssumption == MaxClock \in Nat
ASSUME NoProjectAssumption == NoProject \notin Projects
=============================================================================
