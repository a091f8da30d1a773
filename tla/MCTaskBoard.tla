------------------------------ MODULE MCTaskBoard ------------------------------
(* Two calls at a time on two tasks: every pair of creates, updates and       *)
(* hand-offs can overlap and their broadcasts can overtake each other.        *)
EXTENDS TaskBoard, TLC

CONSTANTS viewer, ada, hopper, stranger, c1, c2

MCHuman == {viewer}
MCAI == {ada, hopper}
MCActive == {ada}
MCNamed == {hopper, stranger}
MCShares == [a \in MCAI |-> {ada, hopper}]
MCCalls == {c1, c2}
MCSymmetry == Permutations(MCCalls)
=============================================================================
