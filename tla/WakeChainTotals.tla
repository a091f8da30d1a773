--------------------------- MODULE WakeChainTotals ---------------------------
(***************************************************************************)
(* WakeChain with two history variables that follow one chain id over its  *)
(* whole life: the wakes authorizeWake let through and the times sweepIdle *)
(* or a restart forgot the chain's accounts.  They state what the chain    *)
(* budgets promise for the tree of one human action, beyond the entry of   *)
(* the moment.                                                             *)
(***************************************************************************)
EXTENDS WakeChain

CONSTANTS
    Watched,       \* the chain that is followed
    MaxEvictions   \* bound of the model: evictions that are counted

ASSUME WatchAssumption == Watched \in Chain /\ MaxEvictions \in Nat

VARIABLES
    authorized,   \* wakes authorized in the chain so far
    evictions     \* times its entry was forgotten

totals == <<authorized, evictions>>

TotalsTypeOK ==
    /\ TypeOK
    /\ authorized \in Nat
    /\ evictions \in 0..(MaxEvictions + 1)

TotalsInit == Init /\ authorized = 0 /\ evictions = 0

Counting(n) == n <= MaxEvictions

\* Entered by every step that calls authorizeWake, which sweeps first.  The
\* history stops once the last counted entry is forgotten.
Account ==
    LET forgotten == Expired(chains[Watched])
        before == SweepIdle(chains)[Watched].activations
    IN  /\ evictions' = IF forgotten /\ Counting(evictions)
                        THEN evictions + 1 ELSE evictions
        /\ authorized' = IF Counting(evictions')
                         THEN authorized + (chains'[Watched].activations - before)
                         ELSE authorized

\* Entered by a restart, which forgets every chain.
Forget ==
    /\ evictions' = IF chains[Watched].present /\ Counting(evictions)
                    THEN evictions + 1 ELSE evictions
    /\ UNCHANGED authorized

TotalsNext ==
    \/ \E c \in Chain, S \in (SUBSET AI) \ {{}} : HumanWake(c, S) /\ Account
    \/ \E cy \in cycles, to \in AI : HandOffWake(cy, to) /\ Account
    \/ \E cy \in cycles, to \in AI : HandOffSuppressed(cy, to) /\ UNCHANGED totals
    \/ \E cy \in cycles : FinishCycle(cy) /\ UNCHANGED totals
    \/ ClockTick /\ UNCHANGED totals
    \/ Restart /\ Forget

TotalsSpec == TotalsInit /\ [][TotalsNext]_<<vars, totals>>

TotalsFairSpec == TotalsSpec /\ Fairness

-----------------------------------------------------------------------------
\* The activation budget bounds the tree of one human action up to eviction:
\* a chain whose accounts were forgotten k times spent at most k + 1 budgets,
\* and one that was never forgotten at most one.
SpentPerIncarnation == authorized <= MaxActivations * (evictions + 1)

\* The header of wake-chain.ts: AI_WAKE_MAX_CHAIN_ACTIVATIONS is the TOTAL
\* number of authorized wakes across the whole fan-out and depth tree.
TotalIsBounded == authorized <= MaxActivations
=============================================================================
