------------------------------ MODULE WakeChain ------------------------------
(***************************************************************************)
(* Wake-chain loop prevention, lib/loop/wake-chain.ts.                     *)
(*                                                                         *)
(* Every wake of an AI colleague carries a context that traces back to the *)
(* human action that rooted it.  authorizeWake admits or refuses a wake by *)
(* three budgets of the chain (hop depth, activations, repeats of one      *)
(* ordered pair); peekWake predicts the verdict for the assign_task tool.  *)
(*                                                                         *)
(* The callers are reduced to what drives the chain state: a human action  *)
(* that wakes a set of AIs, a cycle that hands work to a teammate, a cycle *)
(* that ends, and the clock that lets a quiet chain grow old.              *)
(***************************************************************************)
EXTENDS Naturals, FiniteSets

CONSTANTS
    AI,               \* user ids of the AI colleagues
    Nobody,           \* fromAiUserId = null: a wake made by a human
    Chain,            \* the chain ids randomUUID can draw
    MaxHops,          \* AI_WAKE_MAX_HOPS
    MaxPairRepeats,   \* AI_WAKE_MAX_PAIR_REPEATS
    MaxActivations,   \* AI_WAKE_MAX_CHAIN_ACTIVATIONS
    IdleTTL           \* CHAIN_IDLE_TTL_MS, in ticks of the model's clock

ASSUME PeopleAssumption == Nobody \notin AI /\ IsFiniteSet(AI)
ASSUME BudgetAssumption ==
    /\ MaxHops \in Nat \ {0}
    /\ MaxPairRepeats \in Nat \ {0}
    /\ MaxActivations \in Nat \ {0}
    /\ IdleTTL \in Nat

VARIABLES
    chains,   \* the Map<chainId, ChainState>; present = FALSE: no entry
    issued,   \* chain ids already drawn by startHumanChain
    cycles    \* wake contexts of the runs that are in progress

vars == <<chains, issued, cycles>>

Pair == AI \X AI

\* idle is now - lastActivityAt; past the TTL its value no longer matters.
ChainState == [present : BOOLEAN, activations : Nat,
               pairCounts : [Pair -> Nat], idle : 0..(IdleTTL + 1)]

Untracked == [present |-> FALSE, activations |-> 0,
              pairCounts |-> [p \in Pair |-> 0], idle |-> 0]

Context == [chain : Chain, hop : Nat, from : AI \cup {Nobody}]

Cycle == [ai : AI, chain : Chain, hop : Nat]

TypeOK ==
    /\ chains \in [Chain -> ChainState]
    /\ issued \subseteq Chain
    /\ cycles \subseteq Cycle

-----------------------------------------------------------------------------
StartHumanChain(c) == [chain |-> c, hop |-> 0, from |-> Nobody]

\* Mutant: the child keeps the depth of its parent.
DeriveSameDepth(parent, ai) ==
    [chain |-> parent.chain, hop |-> parent.hop, from |-> ai]

DeriveChildContext(parent, ai) ==
    [chain |-> parent.chain, hop |-> parent.hop + 1, from |-> ai]

\* The runs that the AIs of A start on a wake with this context.
RunsOf(A, ctx) == {[ai |-> a, chain |-> ctx.chain, hop |-> ctx.hop] : a \in A}

Expired(entry) == entry.present /\ entry.idle > IdleTTL

SweepIdle(m) == [c \in Chain |-> IF Expired(m[c]) THEN Untracked ELSE m[c]]

\* Mutant: the depth of the wake is not looked at.
VerdictAnyDepth(m, to, ctx) ==
    IF m[ctx.chain].activations >= MaxActivations THEN "chain_activation"
    ELSE IF /\ ctx.from # Nobody
            /\ m[ctx.chain].pairCounts[<<ctx.from, to>>] >= MaxPairRepeats
         THEN "pair_repeat"
    ELSE "ok"

\* Mutant: both budgets are off by one.
VerdictOneMore(m, to, ctx) ==
    IF ctx.hop > MaxHops THEN "hop_budget"
    ELSE IF m[ctx.chain].activations > MaxActivations THEN "chain_activation"
    ELSE IF /\ ctx.from # Nobody
            /\ m[ctx.chain].pairCounts[<<ctx.from, to>>] > MaxPairRepeats
         THEN "pair_repeat"
    ELSE "ok"

\* The decision order is the code's: the first budget that fails names the
\* reason.
Verdict(m, to, ctx) ==
    IF ctx.hop > MaxHops THEN "hop_budget"
    ELSE IF m[ctx.chain].activations >= MaxActivations THEN "chain_activation"
    ELSE IF /\ ctx.from # Nobody
            /\ m[ctx.chain].pairCounts[<<ctx.from, to>>] >= MaxPairRepeats
         THEN "pair_repeat"
    ELSE "ok"

PeekWake(to, ctx) == Verdict(chains, to, ctx)

AuthorizeVerdict(to, ctx) == Verdict(SweepIdle(chains), to, ctx)

\* One authorized wake entered in the chain's accounts.
Recorded(entry, to, ctx) ==
    [present     |-> TRUE,
     activations |-> entry.activations + 1,
     pairCounts  |-> [p \in Pair |-> IF p = <<ctx.from, to>>
                                     THEN entry.pairCounts[p] + 1
                                     ELSE entry.pairCounts[p]],
     idle        |-> 0]

\* authorizeWake: sweep, then a wake within its depth has an entry for its
\* chain even when another budget refuses it.
AuthorizeWake(to, ctx) ==
    LET m == SweepIdle(chains)
        c == ctx.chain
    IN  chains' =
          CASE AuthorizeVerdict(to, ctx) = "ok" ->
                 [m EXCEPT ![c] = Recorded(m[c], to, ctx)]
            [] AuthorizeVerdict(to, ctx) = "hop_budget" -> m
            [] OTHER -> [m EXCEPT ![c].present = TRUE]

-----------------------------------------------------------------------------
Init ==
    /\ chains = [c \in Chain |-> Untracked]
    /\ issued = {}
    /\ cycles = {}

\* The accounts of a chain that n wakes of its human have just entered.
Opened(n) == [present |-> TRUE, activations |-> n,
              pairCounts |-> [p \in Pair |-> 0], idle |-> 0]

\* authorizeWake for the wakes of one human action: no pair, depth 0, only
\* the activation budget can refuse some of them.
Admits(S, admitted) ==
    \/ admitted = S /\ Cardinality(S) <= MaxActivations
    \/ Cardinality(S) > MaxActivations /\ Cardinality(admitted) = MaxActivations

\* A human @mentions the AIs of S in one message (or approves the request of
\* the one AI of S).  All the wakes carry the same fresh context and are
\* authorized one after the other without an await in between; an authorized
\* wake may still be skipped by the loop's other gates.
HumanWake(c, S) ==
    /\ c \notin issued
    /\ issued' = issued \cup {c}
    /\ \E admitted \in SUBSET S :
          /\ Admits(S, admitted)
          /\ chains' = [SweepIdle(chains) EXCEPT ![c] = Opened(Cardinality(admitted))]
          /\ \E started \in SUBSET admitted :
                cycles' = cycles \cup RunsOf(started, StartHumanChain(c))

\* The tail of assign_task for a teammate: peekWake said ok, so the wake is
\* emitted and the loop's listener calls authorizeWake within the same step.
HandOffWake(cy, to) ==
    LET ctx == DeriveChildContext(cy, cy.ai)
    IN  /\ cy \in cycles
        /\ to # cy.ai
        /\ PeekWake(to, ctx) = "ok"
        /\ AuthorizeWake(to, ctx)
        /\ \/ UNCHANGED cycles
           \/ /\ AuthorizeVerdict(to, ctx) = "ok"
              /\ cycles' = cycles \cup RunsOf({to}, ctx)
        /\ UNCHANGED issued

\* peekWake refused: the tool reports the reason and emits nothing.
HandOffSuppressed(cy, to) ==
    /\ cy \in cycles
    /\ to # cy.ai
    /\ PeekWake(to, DeriveChildContext(cy, cy.ai)) # "ok"
    /\ UNCHANGED vars

FinishCycle(cy) ==
    /\ cy \in cycles
    /\ cycles' = cycles \ {cy}
    /\ UNCHANGED <<chains, issued>>

\* Time passes: every tracked chain is one tick further from its last wake.
ClockTick ==
    /\ chains' = [c \in Chain |->
                    [chains[c] EXCEPT
                       !.idle = IF chains[c].present /\ @ <= IdleTTL
                                THEN @ + 1 ELSE @]]
    /\ UNCHANGED <<issued, cycles>>

\* The map and the cycles live in the memory of the process.  A chain id is
\* a fresh UUID: none is drawn again.
Restart ==
    /\ chains' = [c \in Chain |-> Untracked]
    /\ cycles' = {}
    /\ UNCHANGED issued

Next ==
    \/ \E c \in Chain, S \in (SUBSET AI) \ {{}} : HumanWake(c, S)
    \/ \E cy \in cycles, to \in AI : HandOffWake(cy, to)
    \/ \E cy \in cycles, to \in AI : HandOffSuppressed(cy, to)
    \/ \E cy \in cycles : FinishCycle(cy)
    \/ ClockTick
    \/ Restart

Spec == Init /\ [][Next]_vars

\* A cycle has a bounded number of rounds, each bounded by retries and
\* timeouts: every cycle that started comes to its end.  Nobody owes a human
\* action or a hand-off.
BoundedCycle == [ai : AI, chain : Chain, hop : 0..MaxHops]

Fairness == \A cy \in BoundedCycle : WF_vars(FinishCycle(cy))

FairSpec == Spec /\ Fairness

-----------------------------------------------------------------------------
(***************************************************************************)
(* Properties                                                              *)
(***************************************************************************)

\* What authorizeWake protects: no run in progress is deeper in its chain
\* than the hop budget, whatever was evicted in between.
DepthBounded == \A cy \in cycles : cy.hop <= MaxHops

\* The accounts of a tracked chain never pass the activation budget nor the
\* repeat budget of any ordered pair.
ChainBudgets ==
    \A c \in Chain :
        /\ chains[c].activations <= MaxActivations
        /\ \A p \in Pair : chains[c].pairCounts[p] <= MaxPairRepeats

\* An assign_task reply that says the teammate was woken is never
\* contradicted by the listener: a wake peekWake lets through is authorized,
\* also when authorizeWake first evicts idle chains.
PeekNeverOverpromises ==
    \A cy \in cycles, to \in AI :
        LET ctx == DeriveChildContext(cy, cy.ai)
        IN  PeekWake(to, ctx) = "ok" => AuthorizeVerdict(to, ctx) = "ok"

\* No chain keeps the team busy forever: whatever is evicted or handed back
\* and forth, the runs of one human action come to an end.
ChainDiesOut ==
    \A c \in Chain : <>[](\A cy \in cycles : cy.chain # c)
=============================================================================
