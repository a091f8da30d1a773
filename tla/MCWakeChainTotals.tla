-------------------------- MODULE MCWakeChainTotals --------------------------
(***************************************************************************)
(* A small team for TLC: the chain budgets are smaller than a chain's tree *)
(* and there is room for a chain to be forgotten.                          *)
(***************************************************************************)
EXTENDS WakeChainTotals

CONSTANTS ada, hopper, c1, c2

MCTeam == {ada, hopper}
MCOneChain == {c1}
MCTwoChains == {c1, c2}
=============================================================================
