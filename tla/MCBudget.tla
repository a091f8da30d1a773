------------------------------- MODULE MCBudget -------------------------------
(* Three concurrent cycles and amounts small enough for TLC. *)
EXTENDS Budget

CONSTANTS r1, r2, r3

MCRuns == {r1, r2, r3}
=============================================================================
