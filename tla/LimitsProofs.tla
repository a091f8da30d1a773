------------------------------- MODULE LimitsProofs -------------------------------
(***************************************************************************)
(* Theorems about the limits on what the AIs can spend: the wake-chain     *)
(* accounts (WakeChain, WakeChainTotals), the daily budget (Budget) and    *)
(* the context window (Transcript), for every team, every number of        *)
(* cycles, every history and every value of the limits.                    *)
(***************************************************************************)
EXTENDS WakeChainTotals, Budget, Transcript, FiniteSetTheorems, SequenceTheorems,
        WellFoundedInduction, TLAPS

-----------------------------------------------------------------------------
(***************************************************************************)
(* Wake chains                                                             *)
(***************************************************************************)

\* sweepIdle returns a map of the same type, each entry kept or forgotten.
LEMMA SweepIdleType ==
    ASSUME TypeOK
    PROVE  /\ SweepIdle(chains) \in [Chain -> ChainState]
           /\ \A c \in Chain : \/ SweepIdle(chains)[c] = chains[c]
                               \/ SweepIdle(chains)[c] = Untracked
<1>1. Untracked \in ChainState
  BY BudgetAssumption DEF Untracked, ChainState
<1>2. QED
  BY <1>1 DEF SweepIdle, TypeOK

\* The number of wakes a human action gets through is a number within the
\* activation budget.
LEMMA AdmittedWithinBudget ==
    ASSUME NEW S \in SUBSET AI, NEW admitted \in SUBSET S, Admits(S, admitted)
    PROVE  /\ Cardinality(admitted) \in Nat
           /\ Cardinality(admitted) <= MaxActivations
<1>1. IsFiniteSet(admitted)
  BY PeopleAssumption, FS_Subset
<1>2. Cardinality(admitted) \in Nat
  BY <1>1, FS_CardinalityType
<1>3. QED
  BY <1>2, BudgetAssumption DEF Admits

\* Recording a wake keeps the entry an entry.
LEMMA RecordedType ==
    ASSUME NEW entry \in ChainState, NEW to, NEW ctx
    PROVE  Recorded(entry, to, ctx) \in ChainState
BY BudgetAssumption DEF Recorded, ChainState

\* A child context is a context, one hop deeper in the parent's chain.
LEMMA DeriveChildContextType ==
    ASSUME NEW cy \in Cycle
    PROVE  /\ DeriveChildContext(cy, cy.ai) \in Context
           /\ DeriveChildContext(cy, cy.ai).chain = cy.chain
BY DEF DeriveChildContext, Context, Cycle

-----------------------------------------------------------------------------
\* authorizeWake leaves the accounts well typed.
LEMMA AuthorizeWakeType ==
    ASSUME TypeOK, NEW to \in AI, NEW ctx \in Context, AuthorizeWake(to, ctx)
    PROVE  chains' \in [Chain -> ChainState]
<1> DEFINE m == SweepIdle(chains)
<1>1. m \in [Chain -> ChainState] /\ ctx.chain \in Chain
  BY SweepIdleType DEF Context
<1>2. CASE AuthorizeVerdict(to, ctx) = "ok"
  <2>1. chains' = [m EXCEPT ![ctx.chain] = Recorded(m[ctx.chain], to, ctx)]
    BY <1>2 DEF AuthorizeWake
  <2>2. Recorded(m[ctx.chain], to, ctx) \in ChainState
    BY <1>1, RecordedType
  <2>3. QED
    BY <1>1, <2>1, <2>2
<1>3. CASE AuthorizeVerdict(to, ctx) = "hop_budget"
  BY <1>1, <1>3 DEF AuthorizeWake
<1>4. CASE AuthorizeVerdict(to, ctx) \notin {"ok", "hop_budget"}
  <2>1. chains' = [m EXCEPT ![ctx.chain].present = TRUE]
    BY <1>4 DEF AuthorizeWake
  <2>2. [m[ctx.chain] EXCEPT !.present = TRUE] \in ChainState
    BY <1>1 DEF ChainState
  <2>3. QED
    BY <1>1, <2>1, <2>2
<1>5. QED
  BY <1>2, <1>3, <1>4

\* Type correctness, TypeOK: the accounts are accounts, the chain ids in use
\* are chain ids, the runs are runs.
THEOREM TypeCorrect == Spec => []TypeOK
<1>1. Init => TypeOK
  BY BudgetAssumption DEF Init, TypeOK, Untracked, ChainState
<1>2. TypeOK /\ [Next]_vars => TypeOK'
  <2> SUFFICES ASSUME TypeOK, [Next]_vars
               PROVE  TypeOK'
    OBVIOUS
  <2>1. ASSUME NEW c \in Chain, NEW S \in (SUBSET AI) \ {{}}, HumanWake(c, S)
        PROVE  TypeOK'
    <3>1. SweepIdle(chains) \in [Chain -> ChainState]
      BY SweepIdleType
    <3>2. PICK admitted \in SUBSET S :
            /\ Admits(S, admitted)
            /\ chains' = [SweepIdle(chains) EXCEPT
                            ![c] = Opened(Cardinality(admitted))]
            /\ \E started \in SUBSET admitted :
                  cycles' = cycles \cup RunsOf(started, StartHumanChain(c))
      BY <2>1 DEF HumanWake
    <3>3. Cardinality(admitted) \in Nat
      BY <3>2, AdmittedWithinBudget
    <3>4. Opened(Cardinality(admitted)) \in ChainState
      BY <3>3, BudgetAssumption DEF Opened, ChainState
    <3>5. chains' \in [Chain -> ChainState]
      BY <3>1, <3>2, <3>4
    <3>6. cycles' \subseteq Cycle
      BY <3>2 DEF TypeOK, Cycle, RunsOf, StartHumanChain
    <3>7. issued' \subseteq Chain
      BY <2>1 DEF HumanWake, TypeOK
    <3>8. QED
      BY <3>5, <3>6, <3>7 DEF TypeOK
  <2>2. ASSUME NEW cy \in cycles, NEW to \in AI, HandOffWake(cy, to)
        PROVE  TypeOK'
    <3> DEFINE ctx == DeriveChildContext(cy, cy.ai)
    <3>1. cy \in Cycle /\ ctx \in Context
      BY DeriveChildContextType DEF TypeOK
    <3>2. chains' \in [Chain -> ChainState]
      BY <2>2, <3>1, AuthorizeWakeType DEF HandOffWake
    <3>3. cycles' \subseteq Cycle
      BY <2>2, <3>1 DEF HandOffWake, RunsOf, TypeOK, Context, Cycle
    <3>4. QED
      BY <2>2, <3>2, <3>3 DEF HandOffWake, TypeOK
  <2>3. ASSUME NEW cy \in cycles, NEW to \in AI, HandOffSuppressed(cy, to)
        PROVE  TypeOK'
    BY <2>3 DEF HandOffSuppressed, vars, TypeOK
  <2>4. ASSUME NEW cy \in cycles, FinishCycle(cy)
        PROVE  TypeOK'
    BY <2>4 DEF FinishCycle, TypeOK
  <2>5. CASE ClockTick
    <3>1. \A c \in Chain :
            [chains[c] EXCEPT !.idle = IF chains[c].present /\ @ <= IdleTTL
                                       THEN @ + 1 ELSE @] \in ChainState
      BY BudgetAssumption DEF TypeOK, ChainState
    <3>2. QED
      BY <2>5, <3>1 DEF ClockTick, TypeOK
  <2>6. CASE UNCHANGED vars
    BY <2>6 DEF vars, TypeOK
  <2>8. CASE Restart
    <3>1. Untracked \in ChainState
      BY BudgetAssumption DEF Untracked, ChainState
    <3>2. QED
      BY <2>8, <3>1 DEF Restart, TypeOK
  <2>7. QED
    BY <2>1, <2>2, <2>3, <2>4, <2>5, <2>6, <2>8 DEF Next
<1>3. QED
  BY <1>1, <1>2, PTL DEF Spec

-----------------------------------------------------------------------------
\* Depth: no run in progress is deeper in its chain than MaxHops.  The
\* invariant is inductive over typed states: a run starts at depth 0 or on a wake
\* that authorizeWake let through.
THEOREM DepthCorrect == Spec => []DepthBounded
<1>1. Init => DepthBounded
  BY DEF Init, DepthBounded
<1>2. TypeOK /\ DepthBounded /\ [Next]_vars => DepthBounded'
  <2> SUFFICES ASSUME TypeOK, DepthBounded, [Next]_vars
               PROVE  DepthBounded'
    OBVIOUS
  <2>1. ASSUME NEW c \in Chain, NEW S \in (SUBSET AI) \ {{}}, HumanWake(c, S)
        PROVE  DepthBounded'
    BY <2>1, BudgetAssumption
       DEF HumanWake, RunsOf, StartHumanChain, DepthBounded
  <2>2. ASSUME NEW cy \in cycles, NEW to \in AI, HandOffWake(cy, to)
        PROVE  DepthBounded'
    <3> DEFINE ctx == DeriveChildContext(cy, cy.ai)
    <3>1. CASE UNCHANGED cycles
      BY <3>1 DEF DepthBounded
    <3>2. CASE /\ AuthorizeVerdict(to, ctx) = "ok"
               /\ cycles' = cycles \cup RunsOf({to}, ctx)
      <4>1. ctx.hop \in Nat
        BY DeriveChildContextType DEF TypeOK, Context
      <4>2. ctx.hop <= MaxHops
        BY <3>2, <4>1, BudgetAssumption DEF AuthorizeVerdict, Verdict
      <4>3. QED
        BY <3>2, <4>2 DEF RunsOf, DepthBounded
    <3>3. QED
      BY <2>2, <3>1, <3>2 DEF HandOffWake
  <2>3. ASSUME NEW cy \in cycles, NEW to \in AI, HandOffSuppressed(cy, to)
        PROVE  DepthBounded'
    BY <2>3 DEF HandOffSuppressed, vars, DepthBounded
  <2>4. ASSUME NEW cy \in cycles, FinishCycle(cy)
        PROVE  DepthBounded'
    BY <2>4 DEF FinishCycle, DepthBounded
  <2>5. CASE ClockTick
    BY <2>5 DEF ClockTick, DepthBounded
  <2>6. CASE UNCHANGED vars
    BY <2>6 DEF vars, DepthBounded
  <2>8. CASE Restart
    BY <2>8 DEF Restart, DepthBounded
  <2>7. QED
    BY <2>1, <2>2, <2>3, <2>4, <2>5, <2>6, <2>8 DEF Next
<1>3. QED
  BY <1>1, <1>2, TypeCorrect, PTL DEF Spec

-----------------------------------------------------------------------------
\* A wake that Verdict lets through finds room in both budgets.
LEMMA VerdictOk ==
    ASSUME NEW m \in [Chain -> ChainState], NEW to \in AI, NEW ctx \in Context,
           Verdict(m, to, ctx) = "ok"
    PROVE  /\ m[ctx.chain].activations < MaxActivations
           /\ ctx.from # Nobody =>
                m[ctx.chain].pairCounts[<<ctx.from, to>>] < MaxPairRepeats
<1>1. m[ctx.chain] \in ChainState
  BY DEF Context
<1>2. m[ctx.chain].activations \in Nat
  BY <1>1 DEF ChainState
<1>3. ctx.from # Nobody => m[ctx.chain].pairCounts[<<ctx.from, to>>] \in Nat
  BY <1>1 DEF ChainState, Context, Pair
<1>4. QED
  BY <1>2, <1>3, BudgetAssumption DEF Verdict

\* One entry of the map keeps to its budgets.
WithinBudget(entry) ==
    /\ entry.activations <= MaxActivations
    /\ \A p \in Pair : entry.pairCounts[p] <= MaxPairRepeats

\* Forgetting a chain, opening one and recording an authorized wake keep an
\* entry within its budgets.
LEMMA EntryStepsWithinBudget ==
    /\ WithinBudget(Untracked)
    /\ \A n \in Nat : n <= MaxActivations => WithinBudget(Opened(n))
    /\ \A entry \in ChainState, to \in AI, ctx \in Context :
          /\ WithinBudget(entry)
          /\ entry.activations < MaxActivations
          /\ ctx.from # Nobody =>
                entry.pairCounts[<<ctx.from, to>>] < MaxPairRepeats
          => WithinBudget(Recorded(entry, to, ctx))
<1>1. WithinBudget(Untracked)
  BY BudgetAssumption DEF WithinBudget, Untracked
<1>2. ASSUME NEW n \in Nat, n <= MaxActivations
      PROVE  WithinBudget(Opened(n))
  BY <1>2, BudgetAssumption DEF WithinBudget, Opened
<1>3. ASSUME NEW entry \in ChainState, NEW to \in AI, NEW ctx \in Context,
             WithinBudget(entry),
             entry.activations < MaxActivations,
             ctx.from # Nobody =>
                entry.pairCounts[<<ctx.from, to>>] < MaxPairRepeats
      PROVE  WithinBudget(Recorded(entry, to, ctx))
  <2>1. Recorded(entry, to, ctx).activations <= MaxActivations
    BY <1>3, BudgetAssumption DEF Recorded, ChainState
  <2>2. ASSUME NEW p \in Pair
        PROVE  Recorded(entry, to, ctx).pairCounts[p] <= MaxPairRepeats
    <3>1. entry.pairCounts[p] \in Nat /\ entry.pairCounts[p] <= MaxPairRepeats
      BY <1>3 DEF ChainState, WithinBudget
    <3>2. CASE p = <<ctx.from, to>>
      <4>1. ctx.from # Nobody
        BY <3>2, PeopleAssumption DEF Pair
      <4>2. entry.pairCounts[p] < MaxPairRepeats
        BY <1>3, <3>2, <4>1
      <4>3. QED
        BY <3>1, <3>2, <4>2, BudgetAssumption DEF Recorded
    <3>3. CASE p # <<ctx.from, to>>
      BY <3>1, <3>3 DEF Recorded
    <3>4. QED
      BY <3>2, <3>3
  <2>3. QED
    BY <2>1, <2>2 DEF WithinBudget
<1>4. QED
  BY <1>1, <1>2, <1>3

\* ChainBudgets says of every entry that it is within its budgets.
LEMMA ChainBudgetsByEntry ==
    /\ ChainBudgets <=> \A c \in Chain : WithinBudget(chains[c])
    /\ ChainBudgets' <=> \A c \in Chain : WithinBudget(chains'[c])
BY DEF ChainBudgets, WithinBudget

\* authorizeWake keeps every chain within its budgets.
LEMMA AuthorizeWakeBudgets ==
    ASSUME TypeOK, ChainBudgets,
           NEW to \in AI, NEW ctx \in Context, AuthorizeWake(to, ctx)
    PROVE  ChainBudgets'
<1> DEFINE m == SweepIdle(chains)
<1>1. m \in [Chain -> ChainState] /\ ctx.chain \in Chain
  BY SweepIdleType DEF Context
<1>2. \A c \in Chain : WithinBudget(m[c])
  BY SweepIdleType, EntryStepsWithinBudget, ChainBudgetsByEntry
<1>3. CASE AuthorizeVerdict(to, ctx) = "ok"
  <2>1. chains' = [m EXCEPT ![ctx.chain] = Recorded(m[ctx.chain], to, ctx)]
    BY <1>3 DEF AuthorizeWake
  <2>2. WithinBudget(Recorded(m[ctx.chain], to, ctx))
    <3>1. /\ m[ctx.chain].activations < MaxActivations
          /\ ctx.from # Nobody =>
                m[ctx.chain].pairCounts[<<ctx.from, to>>] < MaxPairRepeats
      BY <1>1, <1>3, VerdictOk DEF AuthorizeVerdict
    <3>2. m[ctx.chain] \in ChainState /\ WithinBudget(m[ctx.chain])
      BY <1>1, <1>2
    <3> HIDE DEF m
    <3>3. QED
      BY <3>1, <3>2, EntryStepsWithinBudget
  <2> HIDE DEF m
  <2>3. QED
    BY <1>1, <1>2, <2>1, <2>2, ChainBudgetsByEntry
<1>4. CASE AuthorizeVerdict(to, ctx) = "hop_budget"
  <2>1. chains' = m
    BY <1>4 DEF AuthorizeWake
  <2>2. QED
    BY <1>2, <2>1, ChainBudgetsByEntry
<1>5. CASE AuthorizeVerdict(to, ctx) \notin {"ok", "hop_budget"}
  <2>1. chains' = [m EXCEPT ![ctx.chain].present = TRUE]
    BY <1>5 DEF AuthorizeWake
  <2>2. \A c \in Chain : /\ chains'[c].activations = m[c].activations
                         /\ chains'[c].pairCounts = m[c].pairCounts
    BY <1>1, <2>1 DEF ChainState
  <2>3. QED
    BY <1>2, <2>2, ChainBudgetsByEntry DEF WithinBudget
<1>6. QED
  BY <1>3, <1>4, <1>5

\* The accounts of a chain, ChainBudgets: neither the activations nor the
\* repeats of any ordered pair pass their budgets, for every interleaving of
\* human actions, hand-offs, ends of cycles and evictions.
THEOREM BudgetsCorrect == Spec => []ChainBudgets
<1>1. Init => ChainBudgets
  BY EntryStepsWithinBudget, ChainBudgetsByEntry DEF Init
<1>2. TypeOK /\ ChainBudgets /\ [Next]_vars => ChainBudgets'
  <2> SUFFICES ASSUME TypeOK, ChainBudgets, [Next]_vars
               PROVE  ChainBudgets'
    OBVIOUS
  <2>1. ASSUME NEW c \in Chain, NEW S \in (SUBSET AI) \ {{}}, HumanWake(c, S)
        PROVE  ChainBudgets'
    <3>1. PICK admitted \in SUBSET S :
            /\ Admits(S, admitted)
            /\ chains' = [SweepIdle(chains) EXCEPT
                            ![c] = Opened(Cardinality(admitted))]
      BY <2>1 DEF HumanWake
    <3>2. WithinBudget(Opened(Cardinality(admitted)))
      BY <3>1, AdmittedWithinBudget, EntryStepsWithinBudget
    <3>3. \A d \in Chain : WithinBudget(SweepIdle(chains)[d])
      BY SweepIdleType, EntryStepsWithinBudget, ChainBudgetsByEntry
    <3>4. SweepIdle(chains) \in [Chain -> ChainState]
      BY SweepIdleType
    <3>5. QED
      BY <3>1, <3>2, <3>3, <3>4, ChainBudgetsByEntry
  <2>2. ASSUME NEW cy \in cycles, NEW to \in AI, HandOffWake(cy, to)
        PROVE  ChainBudgets'
    <3>1. DeriveChildContext(cy, cy.ai) \in Context
      BY DeriveChildContextType DEF TypeOK
    <3>2. QED
      BY <2>2, <3>1, AuthorizeWakeBudgets DEF HandOffWake
  <2>3. ASSUME NEW cy \in cycles, NEW to \in AI, HandOffSuppressed(cy, to)
        PROVE  ChainBudgets'
    BY <2>3 DEF HandOffSuppressed, vars, ChainBudgets
  <2>4. ASSUME NEW cy \in cycles, FinishCycle(cy)
        PROVE  ChainBudgets'
    BY <2>4 DEF FinishCycle, ChainBudgets
  <2>5. CASE ClockTick
    <3>1. \A c \in Chain : /\ chains'[c].activations = chains[c].activations
                           /\ chains'[c].pairCounts = chains[c].pairCounts
      BY <2>5 DEF ClockTick, TypeOK, ChainState
    <3>2. QED
      BY <3>1 DEF ChainBudgets
  <2>6. CASE UNCHANGED vars
    BY <2>6 DEF vars, ChainBudgets
  <2>8. CASE Restart
    BY <2>8, BudgetAssumption DEF Restart, Untracked, ChainBudgets
  <2>7. QED
    BY <2>1, <2>2, <2>3, <2>4, <2>5, <2>6, <2>8 DEF Next
<1>3. QED
  BY <1>1, <1>2, TypeCorrect, PTL DEF Spec

-----------------------------------------------------------------------------
\* The prediction of peekWake is safe to show to the model: eviction between
\* the peek and the authorization can only empty the accounts of a chain, so
\* it never turns an ok into a refusal.
THEOREM PeekCorrect == Spec => []PeekNeverOverpromises
<1>1. TypeOK => PeekNeverOverpromises
  <2> SUFFICES ASSUME TypeOK, NEW cy \in cycles, NEW to \in AI,
                      PeekWake(to, DeriveChildContext(cy, cy.ai)) = "ok"
               PROVE  AuthorizeVerdict(to, DeriveChildContext(cy, cy.ai)) = "ok"
    BY DEF PeekNeverOverpromises
  <2> DEFINE ctx == DeriveChildContext(cy, cy.ai)
  <2>1. ctx \in Context
    BY DeriveChildContextType DEF TypeOK
  <2>2. ctx.chain \in Chain /\ (ctx.from # Nobody => <<ctx.from, to>> \in Pair)
    BY <2>1 DEF Context, Pair
  <2>3. CASE SweepIdle(chains)[ctx.chain] = chains[ctx.chain]
    BY <2>3 DEF PeekWake, AuthorizeVerdict, Verdict
  <2>4. CASE SweepIdle(chains)[ctx.chain] = Untracked
    <3>1. ~(ctx.hop > MaxHops)
      BY DEF PeekWake, Verdict
    <3>2. ~(0 >= MaxActivations) /\ ~(0 >= MaxPairRepeats)
      BY BudgetAssumption
    <3>3. AuthorizeVerdict(to, ctx) = "ok"
      <4> HIDE DEF ctx
      <4>1. /\ SweepIdle(chains)[ctx.chain].activations = 0
            /\ ctx.from # Nobody =>
                 SweepIdle(chains)[ctx.chain].pairCounts[<<ctx.from, to>>] = 0
        BY <2>2, <2>4 DEF Untracked
      <4>2. QED
        BY <3>1, <3>2, <4>1 DEF AuthorizeVerdict, Verdict
    <3>4. QED
      BY <3>3
  <2>5. QED
    BY <2>2, <2>3, <2>4, SweepIdleType
<1>2. QED
  BY <1>1, TypeCorrect, PTL

-----------------------------------------------------------------------------
(***************************************************************************)
(* The totals of an incarnation, by the counts of its entry                *)
(***************************************************************************)

\* The history variables only observe.
LEMMA TotalsRefines == TotalsSpec => Spec
<1>1. TotalsInit => Init
  BY DEF TotalsInit
<1>2. [TotalsNext]_<<vars, totals>> => [Next]_vars
  BY DEF TotalsNext, Next, vars, totals
<1>3. QED
  BY <1>1, <1>2, PTL DEF TotalsSpec, Spec

\* A chain id nobody has drawn has no accounts and no runs, and a chain
\* without an entry has nothing on it.
FreshChains ==
    /\ \A c \in Chain : ~chains[c].present => chains[c].activations = 0
    /\ \A c \in Chain : c \notin issued => chains[c] = Untracked
    /\ \A cy \in cycles : cy.chain \in issued

\* Every wake ever authorized is in the entry of the moment or was forgotten
\* with an entry that had not passed its budget.
SpentSoFar ==
    /\ authorized \in Nat
    /\ evictions \in 0..(MaxEvictions + 1)
    /\ authorized <= MaxActivations * evictions
         + (IF Counting(evictions) THEN chains[Watched].activations ELSE 0)

\* An entry that an authorizing step did not expire survives its sweep.
LEMMA SweepKeeps ==
    ASSUME NEW c \in Chain
    PROVE  SweepIdle(chains)[c] = IF Expired(chains[c]) THEN Untracked
                                                        ELSE chains[c]
BY DEF SweepIdle

\* One accounted step adds at most the wakes it authorized, and one budget
\* for the accounts it forgot.
LEMMA AccountStep ==
    ASSUME TypeOK, TypeOK', ChainBudgets, SpentSoFar, Account,
           chains'[Watched].activations >= SweepIdle(chains)[Watched].activations
    PROVE  SpentSoFar'
<1> DEFINE before == SweepIdle(chains)[Watched].activations
           held == chains[Watched].activations
           next == chains'[Watched].activations
           spent == MaxActivations * evictions
<1>1. /\ held \in Nat /\ next \in Nat /\ held <= MaxActivations
      /\ next >= before
  BY WatchAssumption DEF TypeOK, ChainState, ChainBudgets
<1>2. /\ spent \in Nat
      /\ MaxActivations * (evictions + 1) = spent + MaxActivations
  BY BudgetAssumption, WatchAssumption DEF SpentSoFar
<1>3. /\ authorized \in Nat /\ evictions \in 0..(MaxEvictions + 1)
      /\ authorized <= spent + (IF Counting(evictions) THEN held ELSE 0)
  BY DEF SpentSoFar
<1>4. /\ evictions' = IF Expired(chains[Watched]) /\ Counting(evictions)
                      THEN evictions + 1 ELSE evictions
      /\ authorized' = IF Counting(evictions')
                       THEN authorized + (next - before) ELSE authorized
  BY DEF Account
<1>5. CASE ~Counting(evictions)
  <2>1. evictions' = evictions /\ authorized' = authorized
    BY <1>4, <1>5 DEF Counting
  <2>2. QED
    BY <1>3, <1>5, <2>1 DEF SpentSoFar, Counting
<1>6. CASE Counting(evictions) /\ ~Expired(chains[Watched])
  <2>1. evictions' = evictions /\ before = held
    BY <1>4, <1>6, SweepKeeps, WatchAssumption
  <2>2. authorized' = authorized + (next - before)
    BY <1>4, <1>6, <2>1 DEF Counting
  <2>3. authorized' \in Nat /\ authorized' <= spent + next
    <3> HIDE DEF before, held, next, spent
    <3>1. QED
      BY <1>1, <1>2, <1>3, <1>6, <2>1, <2>2
  <2>4. QED
    BY <1>3, <1>6, <2>1, <2>3 DEF SpentSoFar, Counting
<1>7. CASE Counting(evictions) /\ Expired(chains[Watched])
  <2>1. evictions' = evictions + 1 /\ before = 0
    BY <1>4, <1>7, SweepKeeps, WatchAssumption DEF Untracked
  <2>2. evictions' \in 0..(MaxEvictions + 1)
    BY <1>3, <1>7, <2>1, WatchAssumption DEF Counting
  <2>3. /\ authorized' \in Nat
        /\ authorized' <= spent + MaxActivations
             + (IF Counting(evictions') THEN next ELSE 0)
    <3> HIDE DEF before, held, next, spent
    <3>1. QED
      BY <1>1, <1>2, <1>3, <1>4, <1>7, <2>1, BudgetAssumption
  <2>4. QED
    BY <1>2, <2>1, <2>2, <2>3 DEF SpentSoFar
<1>8. QED
  BY <1>5, <1>6, <1>7

\* An authorized or refused hand-off never takes activations off a chain.
LEMMA AuthorizeWakeGrows ==
    ASSUME TypeOK, NEW to \in AI, NEW ctx \in Context, AuthorizeWake(to, ctx)
    PROVE  \A c \in Chain :
             chains'[c].activations >= SweepIdle(chains)[c].activations
<1> DEFINE m == SweepIdle(chains)
<1>1. /\ m \in [Chain -> ChainState]
      /\ \A c \in Chain : m[c].activations \in Nat
      /\ ctx.chain \in Chain
  BY SweepIdleType DEF Context, ChainState
<1>2. CASE AuthorizeVerdict(to, ctx) = "ok"
  <2>1. chains' = [m EXCEPT ![ctx.chain] = Recorded(m[ctx.chain], to, ctx)]
    BY <1>2 DEF AuthorizeWake
  <2>2. Recorded(m[ctx.chain], to, ctx).activations = m[ctx.chain].activations + 1
    BY DEF Recorded
  <2> HIDE DEF m
  <2>3. \A c \in Chain : chains'[c].activations >= m[c].activations
    BY <1>1, <2>1, <2>2
  <2>4. QED
    BY <2>3 DEF m
<1>3. CASE AuthorizeVerdict(to, ctx) = "hop_budget"
  BY <1>1, <1>3 DEF AuthorizeWake
<1>4. CASE AuthorizeVerdict(to, ctx) \notin {"ok", "hop_budget"}
  <2>1. chains' = [m EXCEPT ![ctx.chain].present = TRUE]
    BY <1>4 DEF AuthorizeWake
  <2>2. \A c \in Chain : chains'[c].activations = m[c].activations
    BY <1>1, <2>1 DEF ChainState
  <2>3. QED
    BY <1>1, <2>2
<1>5. QED
  BY <1>2, <1>3, <1>4

\* A sweep leaves no counts behind without an entry.
LEMMA SweptEmpty ==
    ASSUME FreshChains, NEW c \in Chain, ~SweepIdle(chains)[c].present
    PROVE  SweepIdle(chains)[c].activations = 0
BY SweepKeeps DEF FreshChains, Untracked

\* Nor does an authorization, which enters what it counts.
LEMMA AuthorizedEmpty ==
    ASSUME TypeOK, FreshChains, NEW to \in AI, NEW ctx \in Context,
           AuthorizeWake(to, ctx), NEW c \in Chain, ~chains'[c].present
    PROVE  chains'[c].activations = 0
<1> DEFINE m == SweepIdle(chains)
<1>1. m \in [Chain -> ChainState] /\ ctx.chain \in Chain
  BY SweepIdleType DEF Context
<1>2. chains'[c] = m[c]
  <2>1. CASE AuthorizeVerdict(to, ctx) = "ok"
    <3>1. chains' = [m EXCEPT ![ctx.chain] = Recorded(m[ctx.chain], to, ctx)]
      BY <2>1 DEF AuthorizeWake
    <3>2. Recorded(m[ctx.chain], to, ctx).present
      BY DEF Recorded
    <3> HIDE DEF m
    <3>3. QED
      BY <1>1, <3>1, <3>2
  <2>2. CASE AuthorizeVerdict(to, ctx) = "hop_budget"
    BY <2>2 DEF AuthorizeWake
  <2>3. CASE AuthorizeVerdict(to, ctx) \notin {"ok", "hop_budget"}
    <3>1. chains' = [m EXCEPT ![ctx.chain].present = TRUE]
      BY <2>3 DEF AuthorizeWake
    <3>2. QED
      BY <1>1, <3>1 DEF ChainState
  <2>4. QED
    BY <2>1, <2>2, <2>3
<1>3. QED
  BY <1>2, SweptEmpty

\* SpentSoFar, which relates the life-time count to the entry of the moment,
\* is inductive with FreshChains.
LEMMA SpentSoFarCorrect == TotalsSpec => [](FreshChains /\ SpentSoFar)
<1>1. TotalsInit => FreshChains /\ SpentSoFar
  BY BudgetAssumption, WatchAssumption DEF TotalsInit, Init, FreshChains, SpentSoFar, Counting, Untracked
<1>2. TypeOK /\ TypeOK' /\ FreshChains /\ [TotalsNext]_<<vars, totals>>
        => FreshChains'
  <2> SUFFICES ASSUME TypeOK, FreshChains, [TotalsNext]_<<vars, totals>>
               PROVE  FreshChains'
    OBVIOUS
  <2>1. ASSUME NEW c \in Chain, NEW S \in (SUBSET AI) \ {{}}, HumanWake(c, S)
        PROVE  FreshChains'
    <3>1. PICK n : chains' = [SweepIdle(chains) EXCEPT ![c] = Opened(n)]
      BY <2>1 DEF HumanWake
    <3>2. issued' = issued \cup {c}
      BY <2>1 DEF HumanWake
    <3>3. \A d \in Chain : d \notin issued' => chains'[d] = Untracked
      BY <3>1, <3>2, SweepIdleType DEF FreshChains
    <3>4. \A cy \in cycles' : cy.chain \in issued'
      BY <2>1, <3>2 DEF HumanWake, RunsOf, StartHumanChain, FreshChains
    <3>5. \A d \in Chain : ~chains'[d].present => chains'[d].activations = 0
      BY <3>1, SweepIdleType, SweptEmpty DEF Opened
    <3>6. QED
      BY <3>3, <3>4, <3>5 DEF FreshChains
  <2>2. ASSUME NEW cy \in cycles, NEW to \in AI, HandOffWake(cy, to)
        PROVE  FreshChains'
    <3> DEFINE ctx == DeriveChildContext(cy, cy.ai)
    <3>1. ctx.chain = cy.chain /\ ctx.chain \in issued /\ issued' = issued
      BY <2>2 DEF DeriveChildContext, FreshChains, HandOffWake
    <3>2. \A d \in Chain : d # ctx.chain => chains'[d] = SweepIdle(chains)[d]
      BY <2>2, SweepIdleType DEF HandOffWake, AuthorizeWake
    <3>3. \A d \in Chain : d \notin issued' => chains'[d] = Untracked
      BY <3>1, <3>2, SweepIdleType DEF FreshChains
    <3>4. \A r \in cycles' : r.chain \in issued'
      BY <2>2, <3>1 DEF HandOffWake, RunsOf, FreshChains
    <3>5. \A d \in Chain : ~chains'[d].present => chains'[d].activations = 0
      BY <2>2, AuthorizedEmpty, DeriveChildContextType DEF HandOffWake, TypeOK
    <3>6. QED
      BY <3>3, <3>4, <3>5 DEF FreshChains
  <2>3. ASSUME NEW cy \in cycles, FinishCycle(cy)
        PROVE  FreshChains'
    BY <2>3 DEF FinishCycle, FreshChains
  <2>4. CASE ClockTick
    <3>1. \A c \in Chain : chains[c] = Untracked => chains'[c] = Untracked
      BY <2>4 DEF ClockTick, Untracked
    <3>2. \A c \in Chain : /\ chains'[c].present = chains[c].present
                           /\ chains'[c].activations = chains[c].activations
      BY <2>4 DEF ClockTick, TypeOK, ChainState
    <3>3. QED
      BY <2>4, <3>1, <3>2 DEF ClockTick, FreshChains
  <2>5. ASSUME NEW cy \in cycles, NEW to \in AI, HandOffSuppressed(cy, to)
        PROVE  FreshChains'
    BY <2>5 DEF HandOffSuppressed, vars, FreshChains
  <2>6. CASE Restart
    BY <2>6 DEF Restart, FreshChains, Untracked
  <2>7. CASE UNCHANGED <<vars, totals>>
    BY <2>7 DEF vars, FreshChains
  <2>8. QED
    BY <2>1, <2>2, <2>3, <2>4, <2>5, <2>6, <2>7 DEF TotalsNext
<1>3. /\ TypeOK /\ TypeOK' /\ ChainBudgets /\ FreshChains /\ SpentSoFar
      /\ [TotalsNext]_<<vars, totals>>
      => SpentSoFar'
  <2> SUFFICES ASSUME TypeOK, TypeOK', ChainBudgets, FreshChains, SpentSoFar,
                      [TotalsNext]_<<vars, totals>>
               PROVE  SpentSoFar'
    OBVIOUS
  <2>1. ASSUME NEW c \in Chain, NEW S \in (SUBSET AI) \ {{}},
               HumanWake(c, S), Account
        PROVE  SpentSoFar'
    <3>1. PICK n : chains' = [SweepIdle(chains) EXCEPT ![c] = Opened(n)]
      BY <2>1 DEF HumanWake
    <3>2. SweepIdle(chains) \in [Chain -> ChainState]
      BY SweepIdleType
    <3>3. \A d \in Chain : chains'[d].activations \in Nat
      BY DEF TypeOK, ChainState
    <3>4. SweepIdle(chains)[c].activations = 0
      BY <2>1, SweepIdleType DEF HumanWake, FreshChains, Untracked
    <3>5. \A d \in Chain :
            chains'[d].activations >= SweepIdle(chains)[d].activations
      BY <3>1, <3>2, <3>3, <3>4
    <3>6. QED
      BY <2>1, <3>5, AccountStep, WatchAssumption
  <2>2. ASSUME NEW cy \in cycles, NEW to \in AI, HandOffWake(cy, to), Account
        PROVE  SpentSoFar'
    <3>1. DeriveChildContext(cy, cy.ai) \in Context
      BY DeriveChildContextType DEF TypeOK
    <3>2. \A d \in Chain :
            chains'[d].activations >= SweepIdle(chains)[d].activations
      BY <2>2, <3>1, AuthorizeWakeGrows DEF HandOffWake
    <3>3. QED
      BY <2>2, <3>2, AccountStep, WatchAssumption
  <2>3. ASSUME NEW cy \in cycles, FinishCycle(cy), UNCHANGED totals
        PROVE  SpentSoFar'
    BY <2>3 DEF FinishCycle, totals, SpentSoFar
  <2>4. CASE ClockTick /\ UNCHANGED totals
    <3>1. \A c \in Chain : chains'[c].activations = chains[c].activations
      BY <2>4 DEF ClockTick, TypeOK, ChainState
    <3>2. QED
      BY <2>4, <3>1, WatchAssumption DEF totals, SpentSoFar
  <2>5. ASSUME NEW cy \in cycles, NEW to \in AI, HandOffSuppressed(cy, to),
               UNCHANGED totals
        PROVE  SpentSoFar'
    BY <2>5 DEF HandOffSuppressed, vars, totals, SpentSoFar
  <2>6. CASE Restart /\ Forget
    <3> DEFINE held == chains[Watched].activations
               spent == MaxActivations * evictions
    <3>1. chains'[Watched].activations = 0 /\ authorized' = authorized
      BY <2>6, WatchAssumption DEF Restart, Untracked, Forget
    <3>2. /\ authorized \in Nat /\ evictions \in 0..(MaxEvictions + 1)
          /\ authorized <= spent + (IF Counting(evictions) THEN held ELSE 0)
      BY DEF SpentSoFar
    <3>3. /\ held \in Nat /\ held <= MaxActivations
          /\ ~chains[Watched].present => held = 0
      BY WatchAssumption DEF TypeOK, ChainState, ChainBudgets, FreshChains
    <3>4. /\ spent \in Nat
          /\ MaxActivations * (evictions + 1) = spent + MaxActivations
      BY <3>2, BudgetAssumption, WatchAssumption
    <3>5. evictions' = IF chains[Watched].present /\ Counting(evictions)
                       THEN evictions + 1 ELSE evictions
      BY <2>6 DEF Forget
    <3> HIDE DEF held, spent
    <3>6. CASE chains[Watched].present /\ Counting(evictions)
      <4>1. evictions' = evictions + 1
        BY <3>5, <3>6
      <4>2. evictions' \in 0..(MaxEvictions + 1)
        BY <3>2, <3>6, <4>1, WatchAssumption DEF Counting
      <4>3. authorized' <= MaxActivations * evictions'
        BY <3>1, <3>2, <3>3, <3>4, <3>6, <4>1, BudgetAssumption
      <4>4. MaxActivations * evictions' \in Nat
        BY <3>4, <4>1, BudgetAssumption
      <4>5. QED
        BY <3>1, <3>2, <4>2, <4>3, <4>4 DEF SpentSoFar
    <3>7. CASE ~(chains[Watched].present /\ Counting(evictions))
      <4>1. evictions' = evictions
        BY <3>5, <3>7
      <4>2. authorized' <= spent
        BY <3>1, <3>2, <3>3, <3>4, <3>7
      <4>3. QED
        BY <3>1, <3>2, <3>4, <4>1, <4>2 DEF SpentSoFar, spent
    <3>8. QED
      BY <3>6, <3>7
  <2>7. CASE UNCHANGED <<vars, totals>>
    BY <2>7 DEF vars, totals, SpentSoFar
  <2>8. QED
    BY <2>1, <2>2, <2>3, <2>4, <2>5, <2>6, <2>7 DEF TotalsNext
<1>4. QED
  BY <1>1, <1>2, <1>3, TotalsRefines, TypeCorrect, BudgetsCorrect, PTL
     DEF TotalsSpec

\* Spending, SpentPerIncarnation: a chain whose accounts were forgotten k
\* times has spent at most k + 1 activation budgets.
THEOREM SpendingCorrect == TotalsSpec => []SpentPerIncarnation
<1>1. TypeOK /\ ChainBudgets /\ SpentSoFar => SpentPerIncarnation
  <2> SUFFICES ASSUME TypeOK, ChainBudgets, SpentSoFar
               PROVE  authorized <= MaxActivations * (evictions + 1)
    BY DEF SpentPerIncarnation
  <2>1. /\ chains[Watched].activations \in Nat
        /\ chains[Watched].activations <= MaxActivations
    BY WatchAssumption DEF ChainBudgets, TypeOK, ChainState
  <2>2. /\ MaxActivations * (evictions + 1)
             = MaxActivations * evictions + MaxActivations
        /\ MaxActivations * evictions \in Nat
    BY BudgetAssumption, WatchAssumption DEF SpentSoFar
  <2>3. QED
    BY <2>1, <2>2, BudgetAssumption DEF SpentSoFar
<1>2. QED
  BY <1>1, SpentSoFarCorrect, TotalsRefines, TypeCorrect, BudgetsCorrect, PTL

\* Spending's types: the accounts and the history variables keep theirs.
THEOREM TotalsTypeCorrect == TotalsSpec => []TotalsTypeOK
<1>1. TypeOK /\ SpentSoFar => TotalsTypeOK
  BY DEF SpentSoFar, TotalsTypeOK
<1>2. QED
  BY <1>1, SpentSoFarCorrect, TotalsRefines, TypeCorrect, PTL

-----------------------------------------------------------------------------
(***************************************************************************)
(* The daily budget                                                        *)
(***************************************************************************)

\* The searches the responses at hand asked for and nobody charged yet.
Unspent == {t \in Run \X (1..MaxSearches) : t[1] \in on /\ t[2] <= asked[t[1]]}

\* What k cycles with one model call each and u searches can still charge.
Credit(k, u) == MaxCost * k + SearchFee * u

Owed == Credit(Cardinality(on), Cardinality(Unspent))

\* The strengthening of OvershootBounded: past the limit, the spend together
\* with what the cycles in progress may still charge stays below the ceiling.
CreditCovered ==
    (Limit > 0 /\ todayUSD > Limit) =>
        todayUSD + Owed <= Ceiling

-----------------------------------------------------------------------------
\* What can still be charged grows with the cycles and with the searches.
LEMMA CreditGrows ==
    ASSUME NEW k1 \in Nat, NEW k2 \in Nat, NEW u1 \in Nat, NEW u2 \in Nat,
           k1 <= k2, u1 <= u2
    PROVE  /\ Credit(k1, u1) \in Nat
           /\ Credit(k1, u1) <= Credit(k2, u2)
<1>1. PICK d \in Nat : k2 = k1 + d
  BY k2 - k1 \in Nat
<1>2. PICK e \in Nat : u2 = u1 + e
  BY u2 - u1 \in Nat
<1>3. MaxCost * k2 = MaxCost * k1 + MaxCost * d /\ MaxCost * d \in Nat
  BY <1>1, AmountsAssumption
<1>4. SearchFee * u2 = SearchFee * u1 + SearchFee * e /\ SearchFee * e \in Nat
  BY <1>2, AmountsAssumption
<1>5. MaxCost * k1 \in Nat /\ SearchFee * u1 \in Nat
  BY AmountsAssumption
<1> QED BY <1>3, <1>4, <1>5 DEF Credit

\* One model call or one search less is owed.
LEMMA CreditSpent ==
    ASSUME NEW k \in Nat, NEW u \in Nat
    PROVE  /\ Credit(k + 1, u) = Credit(k, u) + MaxCost
           /\ Credit(k, u + 1) = Credit(k, u) + SearchFee
BY AmountsAssumption DEF Credit

\* The two sets behind the credit are finite and bounded by the constants.
LEMMA CreditSets ==
    ASSUME BudgetTypeOK
    PROVE  /\ IsFiniteSet(on) /\ IsFiniteSet(Unspent)
           /\ IsFiniteSet(Run \X (1..MaxSearches))
           /\ Cardinality(on) \in Nat /\ Cardinality(Unspent) \in Nat
           /\ Cardinality(Run) \in Nat
           /\ Cardinality(Run \X (1..MaxSearches)) \in Nat
           /\ Cardinality(on) <= Cardinality(Run)
           /\ Cardinality(Unspent) <= Cardinality(Run \X (1..MaxSearches))
<1>1. IsFiniteSet(Run) /\ IsFiniteSet(1..MaxSearches)
  BY CyclesAssumption, AmountsAssumption, FS_Interval
<1>2. IsFiniteSet(Run \X (1..MaxSearches))
  BY <1>1, FS_Product
<1>3. IsFiniteSet(on) /\ Cardinality(on) <= Cardinality(Run)
  BY <1>1, FS_Subset DEF BudgetTypeOK
<1>4. Unspent \subseteq Run \X (1..MaxSearches)
  BY DEF Unspent
<1>5. /\ IsFiniteSet(Unspent)
      /\ Cardinality(Unspent) <= Cardinality(Run \X (1..MaxSearches))
  BY <1>2, <1>4, FS_Subset
<1> QED BY <1>1, <1>2, <1>3, <1>5, FS_CardinalityType

\* The tally after the day's rollover is the tally or nothing.
LEMMA RolledOverType ==
    ASSUME BudgetTypeOK
    PROVE  RolledOver \in Nat /\ (RolledOver = todayUSD \/ RolledOver = 0)
BY DEF BudgetTypeOK, RolledOver

-----------------------------------------------------------------------------
\* BudgetTypeOK of Budget: the tally, the gate's cycles and their pending searches
\* keep their types, for all amounts and any number of cycles.
THEOREM BudgetTypeCorrect == BudgetSpec => []BudgetTypeOK
<1>1. BudgetInit => BudgetTypeOK
  <2> SUFFICES ASSUME BudgetInit PROVE BudgetTypeOK
    OBVIOUS
  <2>1. 0 \in 0..MaxSearches
    BY AmountsAssumption
  <2>2. asked \in [Run -> 0..MaxSearches]
    BY <2>1 DEF BudgetInit
  <2>3. todayUSD \in Nat
    BY DEF BudgetInit
  <2>4. dayOver \in BOOLEAN /\ on \subseteq Run /\ tripped \subseteq Run
    BY DEF BudgetInit
  <2> QED BY <2>2, <2>3, <2>4 DEF BudgetTypeOK
<1>2. BudgetTypeOK /\ [BudgetNext]_budgetVars => BudgetTypeOK'
  <2> SUFFICES ASSUME BudgetTypeOK, [BudgetNext]_budgetVars PROVE BudgetTypeOK'
    OBVIOUS
  <2>0. RolledOver \in Nat /\ SearchFee \in Nat /\ \A m \in Nat : RolledOver + m \in Nat
    BY RolledOverType, AmountsAssumption
  <2>1. ASSUME NEW c \in Run, Gate(c) PROVE BudgetTypeOK'
    <3>1. 0 \in 0..MaxSearches
      BY AmountsAssumption
    <3>2. asked' \in [Run -> 0..MaxSearches]
      BY <2>1, <3>1 DEF Gate, BudgetTypeOK
    <3>3. todayUSD' \in Nat /\ dayOver' \in BOOLEAN
      BY <2>0, <2>1 DEF Gate, Charge
    <3>4. on' \subseteq Run /\ tripped' \subseteq Run
      BY <2>1 DEF Gate, BudgetTypeOK
    <3> QED BY <3>2, <3>3, <3>4 DEF BudgetTypeOK
  <2>2. ASSUME NEW c \in Run, NEW usd \in 0..MaxCost,
               NEW n \in 0..MaxSearches, Track(c, usd, n)
        PROVE  BudgetTypeOK'
    <3>1. asked' \in [Run -> 0..MaxSearches]
      BY <2>2 DEF Track, BudgetTypeOK
    <3>2. todayUSD' \in Nat /\ dayOver' \in BOOLEAN
      <4>1. usd \in Nat
        BY AmountsAssumption
      <4>2. todayUSD' = RolledOver + usd /\ dayOver' = FALSE
        BY <2>2 DEF Track, Charge
      <4> QED BY <4>1, <4>2, <2>0
    <3>3. on' \subseteq Run /\ tripped' \subseteq Run
      BY <2>2 DEF Track, BudgetTypeOK
    <3> QED BY <3>1, <3>2, <3>3 DEF BudgetTypeOK
  <2>3. ASSUME NEW c \in Run, TrackSearch(c) PROVE BudgetTypeOK'
    <3>1. asked[c] - 1 \in 0..MaxSearches
      BY <2>3, AmountsAssumption DEF TrackSearch, BudgetTypeOK
    <3>2. asked' \in [Run -> 0..MaxSearches]
      BY <2>3, <3>1 DEF TrackSearch, BudgetTypeOK
    <3>3. todayUSD' \in Nat /\ dayOver' \in BOOLEAN
      BY <2>0, <2>3 DEF TrackSearch, Charge
    <3> QED BY <2>3, <3>2, <3>3 DEF TrackSearch, BudgetTypeOK
  <2>4. ASSUME NEW c \in Run, EndCycle(c) \/ NoticePosted(c) PROVE BudgetTypeOK'
    <3>1. todayUSD' \in Nat /\ dayOver' \in BOOLEAN
      BY <2>0, <2>4 DEF EndCycle, NoticePosted, Charge, BudgetTypeOK
    <3> QED BY <2>4, <3>1 DEF EndCycle, NoticePosted, BudgetTypeOK
  <2>8. ASSUME NEW c \in Run, SearchFails(c) PROVE BudgetTypeOK'
    <3>1. asked[c] - 1 \in 0..MaxSearches
      BY <2>8, AmountsAssumption DEF SearchFails, BudgetTypeOK
    <3> QED BY <2>8, <3>1 DEF SearchFails, BudgetTypeOK
  <2>9. CASE BudgetRestart
    <3>1. 0 \in 0..MaxSearches
      BY AmountsAssumption
    <3>2. asked' \in [Run -> 0..MaxSearches]
      BY <2>9, <3>1 DEF BudgetRestart
    <3>3. todayUSD' \in Nat
      BY <2>9 DEF BudgetRestart
    <3> QED BY <2>9, <3>2, <3>3 DEF BudgetRestart, BudgetTypeOK
  <2>5. CASE GetStats
    BY <2>0, <2>5 DEF GetStats, Charge, BudgetTypeOK
  <2>6. CASE Midnight
    BY <2>6 DEF Midnight, BudgetTypeOK
  <2>7. CASE UNCHANGED budgetVars
    BY <2>7 DEF budgetVars, BudgetTypeOK
  <2> QED BY <2>1, <2>2, <2>3, <2>4, <2>5, <2>6, <2>7, <2>8, <2>9 DEF BudgetNext
<1> QED BY <1>1, <1>2, PTL DEF BudgetSpec

-----------------------------------------------------------------------------
\* A step that adds nothing to the tally, to the cycles in progress and to
\* their searches keeps the spend covered.
LEMMA NothingMoreOwed ==
    ASSUME BudgetTypeOK, BudgetTypeOK', CreditCovered,
           on' \subseteq on, Unspent' \subseteq Unspent, todayUSD' <= todayUSD
    PROVE  CreditCovered'
<1> SUFFICES ASSUME Limit > 0, todayUSD' > Limit
             PROVE  todayUSD' + Owed' <= Ceiling
  BY DEF CreditCovered, Ceiling
<1>1. todayUSD \in Nat /\ todayUSD' \in Nat /\ todayUSD > Limit
  BY AmountsAssumption DEF BudgetTypeOK
<1>2. Cardinality(on') <= Cardinality(on) /\ Cardinality(on') \in Nat
  BY CreditSets, FS_Subset, FS_CardinalityType
<1>3. Cardinality(Unspent') <= Cardinality(Unspent) /\ Cardinality(Unspent') \in Nat
  BY CreditSets, FS_Subset, FS_CardinalityType
<1>4. Owed' <= Owed /\ Owed \in Nat /\ Owed' \in Nat
  BY <1>2, <1>3, CreditSets, CreditGrows DEF Owed
<1>5. todayUSD + Owed <= Ceiling
  BY <1>1 DEF CreditCovered
<1>6. Ceiling \in Int
  BY AmountsAssumption, CreditSets DEF Ceiling
<1>7. \A a, b, d, e \in Nat, m \in Int : a <= b /\ d <= e /\ b + e <= m => a + d <= m
  OBVIOUS
<1> QED BY <1>1, <1>4, <1>5, <1>6, <1>7

\* A model call past the limit ends its cycle: its credit pays for it.
LEMMA TrackCovered ==
    ASSUME BudgetTypeOK, BudgetTypeOK', CreditCovered,
           NEW c \in Run, NEW usd \in 0..MaxCost, NEW n \in 0..MaxSearches,
           Track(c, usd, n)
    PROVE  CreditCovered'
<1> SUFFICES ASSUME Limit > 0, todayUSD' > Limit
             PROVE  todayUSD' + Owed' <= Ceiling
  BY DEF CreditCovered, Ceiling
<1>1. RolledOver \in Nat /\ usd \in Nat /\ usd <= MaxCost /\ todayUSD' = RolledOver + usd
  BY RolledOverType, AmountsAssumption DEF Track, Charge
<1>2. on' = on \ {c} /\ c \in on
  BY <1>1 DEF Track, Exceeds
<1>3. Cardinality(on') + 1 = Cardinality(on) /\ Cardinality(on') \in Nat
  <2>1. IsFiniteSet(on) /\ Cardinality(on) \in Nat
    BY CreditSets
  <2>2. IsFiniteSet(on') /\ Cardinality(on') = Cardinality(on) - 1
    BY <1>2, <2>1, FS_RemoveElement
  <2> QED BY <2>1, <2>2, FS_CardinalityType
<1>4. \A d \in on' : asked'[d] = asked[d]
  BY <1>2 DEF Track, BudgetTypeOK
<1>5. Unspent' \subseteq Unspent
  BY <1>2, <1>4 DEF Unspent
<1>6. Cardinality(Unspent') <= Cardinality(Unspent) /\ Cardinality(Unspent') \in Nat
  BY <1>5, CreditSets, FS_Subset, FS_CardinalityType
<1>7. /\ Owed = Credit(Cardinality(on'), Cardinality(Unspent)) + MaxCost
      /\ Owed' <= Credit(Cardinality(on'), Cardinality(Unspent))
      /\ Owed' \in Nat /\ Owed \in Nat
      /\ Credit(Cardinality(on'), Cardinality(Unspent)) \in Nat
  <2>1. Owed = Credit(Cardinality(on') + 1, Cardinality(Unspent))
    BY <1>3 DEF Owed
  <2>2. Owed = Credit(Cardinality(on'), Cardinality(Unspent)) + MaxCost
    BY <2>1, <1>3, CreditSets, CreditSpent
  <2>3. /\ Owed' \in Nat
        /\ Owed' <= Credit(Cardinality(on'), Cardinality(Unspent))
    BY <1>3, <1>6, CreditSets, CreditGrows DEF Owed
  <2>4. Credit(Cardinality(on'), Cardinality(Unspent)) \in Nat
    BY <1>3, CreditSets, CreditGrows
  <2> QED BY <2>2, <2>3, <2>4, AmountsAssumption
<1>8. todayUSD' + Owed' <= RolledOver + Owed
  BY <1>1, <1>7, AmountsAssumption
<1>9. Owed <= Credit(Cardinality(Run), Cardinality(Run \X (1..MaxSearches)))
  BY CreditSets, CreditGrows DEF Owed
<1>10. /\ Ceiling = Limit + Credit(Cardinality(Run), Cardinality(Run \X (1..MaxSearches)))
       /\ Credit(Cardinality(Run), Cardinality(Run \X (1..MaxSearches))) \in Nat
  BY CreditSets, AmountsAssumption DEF Ceiling, Credit
<1>11. CASE RolledOver <= Limit
  BY <1>1, <1>7, <1>8, <1>9, <1>10, <1>11, AmountsAssumption
<1>12. CASE RolledOver > Limit
  <2>1. todayUSD = RolledOver
    BY <1>12, RolledOverType, AmountsAssumption
  <2>2. todayUSD + Owed <= Ceiling
    BY <1>12, <2>1 DEF CreditCovered
  <2> QED BY <1>1, <1>7, <1>8, <1>10, <2>1, <2>2, AmountsAssumption
<1> QED BY <1>1, <1>11, <1>12, AmountsAssumption

\* A web search is paid for by the search its round asked for.
LEMMA TrackSearchCovered ==
    ASSUME BudgetTypeOK, BudgetTypeOK', CreditCovered, NEW c \in Run, TrackSearch(c)
    PROVE  CreditCovered'
<1> DEFINE t == <<c, asked[c]>>
<1> SUFFICES ASSUME Limit > 0, todayUSD' > Limit
             PROVE  todayUSD' + Owed' <= Ceiling
  BY DEF CreditCovered, Ceiling
<1>1. RolledOver \in Nat /\ todayUSD' = RolledOver + SearchFee
  BY RolledOverType DEF TrackSearch, Charge
<1>2. on' = on /\ c \in on /\ asked' = [asked EXCEPT ![c] = @ - 1]
      /\ asked[c] \in 1..MaxSearches
  BY AmountsAssumption DEF TrackSearch, BudgetTypeOK
<1>3. t \in Unspent
  BY <1>2 DEF Unspent
<1>4. Unspent' = Unspent \ {t}
  <2>1. \A d \in Run : asked'[d] = IF d = c THEN asked[c] - 1 ELSE asked[d]
    BY <1>2 DEF BudgetTypeOK
  <2>2. \A d \in Run : asked[d] \in Nat
    BY AmountsAssumption DEF BudgetTypeOK
  <2>3. \A d \in Run, i \in 1..MaxSearches :
          (i <= asked'[d]) <=> (i <= asked[d] /\ <<d, i>> # t)
    BY <2>1, <2>2, AmountsAssumption
  <2> QED BY <2>3, <1>2 DEF Unspent
<1>5. Cardinality(Unspent') + 1 = Cardinality(Unspent) /\ Cardinality(Unspent') \in Nat
  <2>1. IsFiniteSet(Unspent) /\ Cardinality(Unspent) \in Nat
    BY CreditSets
  <2>2. IsFiniteSet(Unspent') /\ Cardinality(Unspent') = Cardinality(Unspent) - 1
    BY <1>3, <1>4, <2>1, FS_RemoveElement
  <2> QED BY <2>1, <2>2, FS_CardinalityType
<1>6. Owed = Owed' + SearchFee /\ Owed' \in Nat
  <2>1. Owed = Credit(Cardinality(on), Cardinality(Unspent') + 1)
    BY <1>5 DEF Owed
  <2>2. Owed' = Credit(Cardinality(on), Cardinality(Unspent'))
    BY <1>2 DEF Owed
  <2>3. Cardinality(on) \in Nat
    BY CreditSets
  <2>4. Owed = Owed' + SearchFee
    BY <2>1, <2>2, <2>3, <1>5, CreditSpent
  <2> QED BY <2>2, <2>3, <2>4, <1>5, CreditGrows
<1>7. todayUSD' + Owed' = RolledOver + Owed /\ Owed \in Nat
  <2>1. \A a, b, d \in Nat : (a + b) + d = a + (d + b) /\ d + b \in Nat
    OBVIOUS
  <2> QED BY <2>1, <1>1, <1>6, AmountsAssumption
<1>8. Owed <= Credit(Cardinality(Run), Cardinality(Run \X (1..MaxSearches)))
  BY CreditSets, CreditGrows DEF Owed
<1>9. /\ Ceiling = Limit + Credit(Cardinality(Run), Cardinality(Run \X (1..MaxSearches)))
      /\ Credit(Cardinality(Run), Cardinality(Run \X (1..MaxSearches))) \in Nat
  BY CreditSets, AmountsAssumption DEF Ceiling, Credit
<1>10. CASE RolledOver <= Limit
  BY <1>1, <1>7, <1>8, <1>9, <1>10, AmountsAssumption
<1>11. CASE RolledOver > Limit
  <2>1. todayUSD = RolledOver
    BY <1>11, RolledOverType, AmountsAssumption
  <2>2. todayUSD + Owed <= Ceiling
    BY <1>11, <2>1 DEF CreditCovered
  <2> QED BY <1>7, <2>1, <2>2
<1> QED BY <1>1, <1>10, <1>11, AmountsAssumption

\* A cycle is let in only while the tally is below 95 per cent of the limit.
LEMMA GateCovered ==
    ASSUME BudgetTypeOK, BudgetTypeOK', CreditCovered, NEW c \in Run, Gate(c)
    PROVE  CreditCovered'
<1>1. RolledOver \in Nat /\ todayUSD' = RolledOver /\ todayUSD' <= todayUSD
  BY RolledOverType DEF Gate, Charge, BudgetTypeOK
<1>2. CASE ShouldPause
  <2>1. on' = on /\ c \notin on
    BY <1>2 DEF Gate
  <2>2. \A d \in on : asked'[d] = asked[d]
    BY <2>1 DEF Gate, BudgetTypeOK
  <2>3. Unspent' \subseteq Unspent
    BY <2>1, <2>2 DEF Unspent
  <2> QED BY <1>1, <2>1, <2>3, NothingMoreOwed
<1>3. CASE ~ShouldPause
  <2>1. ~(Limit > 0 /\ todayUSD' > Limit)
    BY <1>1, <1>3, AmountsAssumption DEF ShouldPause
  <2> QED BY <2>1 DEF CreditCovered
<1> QED BY <1>2, <1>3

\* OvershootBounded of Budget: the spend of a day passes the limit by at most
\* one round of every cycle that can be in progress, for all amounts.
THEOREM OvershootCorrect == BudgetSpec => []OvershootBounded
<1>1. BudgetInit => CreditCovered
  BY AmountsAssumption DEF BudgetInit, CreditCovered
<1>2. BudgetTypeOK /\ BudgetTypeOK' /\ CreditCovered /\ [BudgetNext]_budgetVars => CreditCovered'
  <2> SUFFICES ASSUME BudgetTypeOK, BudgetTypeOK', CreditCovered, [BudgetNext]_budgetVars
               PROVE  CreditCovered'
    OBVIOUS
  <2>1. ASSUME NEW c \in Run, Gate(c) PROVE CreditCovered'
    BY <2>1, GateCovered
  <2>2. ASSUME NEW c \in Run, NEW usd \in 0..MaxCost,
               NEW n \in 0..MaxSearches, Track(c, usd, n)
        PROVE  CreditCovered'
    BY <2>2, TrackCovered
  <2>3. ASSUME NEW c \in Run, TrackSearch(c) PROVE CreditCovered'
    BY <2>3, TrackSearchCovered
  <2>4. ASSUME NEW c \in Run, EndCycle(c) \/ NoticePosted(c)
        PROVE  CreditCovered'
    <3>1. on' \subseteq on /\ asked' = asked /\ todayUSD' \in {todayUSD, RolledOver}
      BY <2>4, RolledOverType DEF EndCycle, NoticePosted, Charge
    <3>2. Unspent' \subseteq Unspent
      BY <3>1 DEF Unspent
    <3> QED BY <3>1, <3>2, RolledOverType, NothingMoreOwed DEF BudgetTypeOK
  <2>7. ASSUME NEW c \in Run, SearchFails(c) PROVE CreditCovered'
    <3>1. on' = on /\ todayUSD' = todayUSD
      BY <2>7 DEF SearchFails
    <3>2. \A d \in Run : asked[d] \in Nat /\ asked'[d] \in Nat /\ asked'[d] <= asked[d]
      BY <2>7, AmountsAssumption DEF SearchFails, BudgetTypeOK
    <3>3. \A d \in Run, i \in 1..MaxSearches : i <= asked'[d] => i <= asked[d]
      BY <3>2, AmountsAssumption
    <3>4. Unspent' \subseteq Unspent
      BY <3>1, <3>3 DEF Unspent
    <3> QED BY <3>1, <3>4, NothingMoreOwed DEF BudgetTypeOK
  <2>8. CASE BudgetRestart
    BY <2>8, AmountsAssumption DEF BudgetRestart, CreditCovered
  <2>5. CASE GetStats
    <3>1. on' = on /\ asked' = asked /\ todayUSD' = RolledOver
      BY <2>5, RolledOverType DEF GetStats, Charge
    <3>2. Unspent' \subseteq Unspent
      BY <3>1 DEF Unspent
    <3> QED BY <3>1, <3>2, RolledOverType, NothingMoreOwed DEF BudgetTypeOK
  <2>6. CASE Midnight \/ UNCHANGED budgetVars
    <3>1. on' = on /\ asked' = asked /\ todayUSD' = todayUSD
      BY <2>6 DEF Midnight, budgetVars
    <3>2. Unspent' \subseteq Unspent
      BY <3>1 DEF Unspent
    <3> QED BY <3>1, <3>2, NothingMoreOwed DEF BudgetTypeOK
  <2> QED BY <2>1, <2>2, <2>3, <2>4, <2>5, <2>6, <2>7, <2>8 DEF BudgetNext
<1>3. BudgetTypeOK /\ CreditCovered => OvershootBounded
  <2> SUFFICES ASSUME BudgetTypeOK, CreditCovered, Limit > 0 PROVE todayUSD <= Ceiling
    BY DEF OvershootBounded
  <2>1. /\ Ceiling = Limit + Credit(Cardinality(Run), Cardinality(Run \X (1..MaxSearches)))
        /\ Credit(Cardinality(Run), Cardinality(Run \X (1..MaxSearches))) \in Nat
    BY CreditSets, AmountsAssumption DEF Ceiling, Credit
  <2>2. Owed \in Nat
    BY CreditSets, CreditGrows DEF Owed
  <2> QED BY <2>1, <2>2, AmountsAssumption DEF BudgetTypeOK, CreditCovered
<1> QED BY <1>1, <1>2, <1>3, BudgetTypeCorrect, PTL DEF BudgetSpec

-----------------------------------------------------------------------------
(***************************************************************************)
(* The context window                                                      *)
(***************************************************************************)

\* Induction over the numbers up to a bound, about a set of them.
LEMMA ReachesBound ==
  ASSUME NEW N \in Nat, NEW P, 0 \in P,
         \A n \in 1..N : n - 1 \in P => n \in P
  PROVE  0..N \subseteq P
<1> DEFINE Missing == (0..N) \ P
<1>1. SUFFICES ASSUME Missing # {} PROVE FALSE
  OBVIOUS
<1>2. Missing \subseteq Nat
  OBVIOUS
<1> DEFINE Less == OpToRel(<, Nat)
<1>3. IsWellFoundedOn(Less, Nat)
  BY NatLessThanWellFounded
<1>4. PICK n \in Missing : \A m \in Missing : ~(<<m, n>> \in Less)
  <2> HIDE DEF Missing, Less
  <2> QED BY <1>1, <1>2, <1>3, WFMin
<1>5. n \in 1..N /\ n - 1 \in 0..N
  <2>1. n # 0 /\ n \in 0..N
    OBVIOUS
  <2> QED BY <2>1
<1>6. n - 1 \in Missing
  BY <1>5
<1>7. <<n - 1, n>> \in Less
  BY <1>5 DEF OpToRel
<1> QED BY <1>4, <1>6, <1>7

LEMMA StaysInside ==
  ASSUME NEW N \in Nat, NEW S, NEW f, f[0] \in S,
         \A n \in 1..N : f[n - 1] \in S => f[n] \in S
  PROVE  \A n \in 0..N : f[n] \in S
<1> DEFINE P == {n \in 0..N : f[n] \in S}
<1>1. 0 \in P /\ \A n \in 1..N : n - 1 \in P => n \in P
  OBVIOUS
<1>2. 0..N \subseteq P
  <2> HIDE DEF P
  <2> QED BY <1>1, ReachesBound
<1> QED BY <1>2

\* The states of a loop, one after each step.
States(f, S, N, base, step) ==
    /\ f \in [0..N -> S]
    /\ f[0] = base
    /\ \A n \in 1..N : f[n] = step[<<n, f[n - 1]>>]

LEMMA LoopGoesOn ==
  ASSUME NEW S, NEW N \in Nat, NEW base \in S, NEW step \in [(1..N) \X S -> S],
         NEW n \in 1..N, NEW f, States(f, S, n - 1, base, step)
  PROVE  \E g : States(g, S, n, base, step)
<1> DEFINE new == step[<<n, f[n - 1]>>]
           g == [m \in 0..n |-> IF m = n THEN new ELSE f[m]]
<1>1. /\ f \in [0..(n - 1) -> S] /\ f[0] = base
      /\ \A m \in 1..(n - 1) : f[m] = step[<<m, f[m - 1]>>]
  BY DEF States
<1>2. f[n - 1] \in S
  BY <1>1
<1>3. new \in S
  BY <1>2
<1> HIDE DEF new
<1>4. g \in [0..n -> S]
  BY <1>1, <1>3
<1>5. g[0] = base /\ g[n] = new /\ \A m \in 0..(n - 1) : g[m] = f[m]
  BY <1>1
<1> HIDE DEF g
<1>6. \A m \in 1..n : g[m] = step[<<m, g[m - 1]>>]
  <2> TAKE m \in 1..n
  <2>1. g[m - 1] = f[m - 1]
    BY <1>5
  <2>2. CASE m = n
    BY <2>1, <2>2, <1>5 DEF new
  <2>3. CASE m # n
    <3>1. m \in 1..(n - 1) /\ m \in 0..(n - 1)
      BY <2>3
    <3> QED BY <3>1, <2>1, <1>1, <1>5
  <2> QED BY <2>2, <2>3
<1> QED BY <1>4, <1>5, <1>6 DEF States

LEMMA LoopHasStates ==
  ASSUME NEW S, NEW N \in Nat, NEW base \in S, NEW step \in [(1..N) \X S -> S]
  PROVE  \E f : States(f, S, N, base, step)
<1> DEFINE P == {n \in 0..N : \E f : States(f, S, n, base, step)}
<1>1. 0 \in P
  <2>1. [n \in 0..0 |-> base] \in [0..0 -> S] /\ [n \in 0..0 |-> base][0] = base
    OBVIOUS
  <2>2. States([n \in 0..0 |-> base], S, 0, base, step)
    BY <2>1 DEF States
  <2> QED BY <2>2
<1>2. ASSUME NEW n \in 1..N, n - 1 \in P PROVE n \in P
  <2>1. PICK f : States(f, S, n - 1, base, step)
    BY <1>2
  <2>2. \E g : States(g, S, n, base, step)
    BY <2>1, LoopGoesOn
  <2> QED BY <2>2
<1>3. 0..N \subseteq P
  <2> HIDE DEF P
  <2> QED BY <1>1, <1>2, ReachesBound
<1>4. N \in P
  BY <1>3
<1> QED BY <1>4

LEMMA SumsAre ==
  ASSUME NEW s \in Seq(Nat)
  PROVE  /\ Sums(s) \in [0..Len(s) -> Nat]
         /\ Sums(s)[0] = 0
         /\ \A n \in 1..Len(s) : Sums(s)[n] = Sums(s)[n - 1] + s[n]
<1>1. PICK N \in Nat : N = Len(s)
  OBVIOUS
<1> DEFINE step == [p \in (1..N) \X Nat |-> p[2] + s[p[1]]]
           Sum2(f) == [n \in 0..N |-> IF n = 0 THEN 0 ELSE f[n - 1] + s[n]]
<1>2. \A n \in 1..N : s[n] \in Nat
  BY <1>1
<1>3. /\ step \in [(1..N) \X Nat -> Nat]
      /\ \A n \in 1..N, m \in Nat : step[<<n, m>>] = m + s[n]
  BY <1>2
<1>4. PICK f : States(f, Nat, N, 0, step)
  <2> HIDE DEF step
  <2> QED BY <1>3, LoopHasStates
<1>5. /\ f \in [0..N -> Nat] /\ f[0] = 0
      /\ \A n \in 1..N : f[n] = step[<<n, f[n - 1]>>]
  <2> HIDE DEF step
  <2> QED BY <1>4 DEF States
<1>6. \A n \in 1..N : n - 1 \in 0..N /\ f[n - 1] \in Nat /\ f[n] = f[n - 1] + s[n]
  <2> HIDE DEF step
  <2> TAKE n \in 1..N
  <2>1. n - 1 \in 0..N
    OBVIOUS
  <2>2. f[n - 1] \in Nat
    BY <2>1, <1>5
  <2>3. f[n] = step[<<n, f[n - 1]>>]
    BY <1>5
  <2> QED BY <2>1, <2>2, <2>3, <1>3
<1>7. f = Sum2(f)
  BY <1>5, <1>6
<1>8. Sums(s) = CHOOSE g : g = Sum2(g)
  BY <1>1 DEF Sums
<1>9. Sums(s) = Sum2(Sums(s))
  <2> HIDE DEF Sum2
  <2> QED BY <1>7, <1>8
<1>10. /\ Sums(s)[0] = 0
       /\ \A n \in 1..N : Sums(s)[n] = Sums(s)[n - 1] + s[n]
  BY <1>9
<1>11. \A n \in 0..N : Sums(s)[n] \in Nat
  <2>1. \A n \in 1..N : Sums(s)[n - 1] \in Nat => Sums(s)[n] \in Nat
    BY <1>2, <1>10
  <2>2. Sums(s)[0] \in Nat
    BY <1>10
  <2> QED BY <2>1, <2>2, StaysInside
<1> QED BY <1>1, <1>9, <1>10, <1>11

LEMMA SumsGrow ==
  ASSUME NEW s \in Seq(Nat), NEW m \in 0..Len(s), NEW n \in m..Len(s)
  PROVE  Sums(s)[m] <= Sums(s)[n]
<1>1. PICK N \in Nat : N = Len(s)
  OBVIOUS
<1>2. /\ \A i \in 0..N : Sums(s)[i] \in Nat
      /\ \A i \in 1..N : Sums(s)[i] = Sums(s)[i - 1] + s[i] /\ s[i] \in Nat
  <2>1. /\ Sums(s) \in [0..N -> Nat]
        /\ \A i \in 1..N : Sums(s)[i] = Sums(s)[i - 1] + s[i]
    BY <1>1, SumsAre
  <2>2. \A i \in 1..N : s[i] \in Nat
    BY <1>1
  <2> QED BY <2>1, <2>2
<1> DEFINE P == {i \in 0..N : i < m \/ Sums(s)[m] <= Sums(s)[i]}
<1>3. m \in 0..N /\ n \in 0..N /\ ~(n < m)
  BY <1>1
<1>4. 0 \in P
  BY <1>2, <1>3
<1>5. ASSUME NEW i \in 1..N, i - 1 \in P PROVE i \in P
  <2>1. Sums(s)[i] = Sums(s)[i - 1] + s[i] /\ s[i] \in Nat
    BY <1>2
  <2>2. Sums(s)[i] \in Nat /\ Sums(s)[i - 1] \in Nat /\ Sums(s)[m] \in Nat
    BY <1>2, <1>3
  <2>3. CASE i - 1 < m
    <3>1. i < m \/ i = m
      BY <2>3, <1>3
    <3> QED BY <3>1, <2>2
  <2> QED BY <2>1, <2>2, <2>3, <1>5
<1>6. 0..N \subseteq P
  <2> HIDE DEF P
  <2> QED BY <1>4, <1>5, ReachesBound
<1> QED BY <1>3, <1>6

LEMMA SumType ==
  ASSUME NEW s \in Seq(Nat)
  PROVE  Sum(s) \in Nat
BY SumsAre DEF Sum

(***************************************************************************)
(* The end of a conversation                                               *)
(***************************************************************************)

LEMMA CostsAre ==
  ASSUME NEW ms \in Seq(Message)
  PROVE  /\ Costs(ms) \in Seq(Nat) /\ Len(Costs(ms)) = Len(ms)
         /\ \A i \in 1..Len(ms) : Costs(ms)[i] = ms[i].cost /\ ms[i].cost \in Nat
<1>1. PICK N \in Nat : N = Len(ms) /\ DOMAIN ms = 1..N
  OBVIOUS
<1>2. \A i \in 1..N : ms[i].cost \in Nat
  <2> TAKE i \in 1..N
  <2>1. ms[i] \in Message
    BY <1>1
  <2> QED BY <2>1 DEF Message
<1>3. Costs(ms) \in [1..N -> Nat] /\ \A i \in 1..N : Costs(ms)[i] = ms[i].cost
  BY <1>1, <1>2 DEF Costs
<1>4. Costs(ms) \in Seq(Nat) /\ Len(Costs(ms)) = N
  BY <1>3
<1> QED BY <1>1, <1>2, <1>3, <1>4

LEMMA LastOfIs ==
  ASSUME NEW ms \in Seq(Message), NEW n \in 0..Len(ms)
  PROVE  /\ LastOf(ms, n) \in Seq(Message) /\ Len(LastOf(ms, n)) = n
         /\ \A i \in 1..n : LastOf(ms, n)[i] = ms[Len(ms) - n + i]
<1>1. PICK N \in Nat : N = Len(ms)
  OBVIOUS
<1> DEFINE first == N - n + 1
<1>2. first \in Int /\ N \in Int /\ \A i \in first..N : ms[i] \in Message
  BY <1>1
<1>3. /\ SubSeq(ms, first, N) \in Seq(Message)
      /\ Len(SubSeq(ms, first, N)) = IF first <= N THEN N - first + 1 ELSE 0
      /\ \A i \in 1..(N - first + 1) : SubSeq(ms, first, N)[i] = ms[first + i - 1]
  <2> HIDE DEF first
  <2> QED BY <1>2, SubSeqProperties
<1>4. (IF first <= N THEN N - first + 1 ELSE 0) = n /\ N - first + 1 = n
  BY <1>1
<1>5. \A i \in 1..n : first + i - 1 = N - n + i
  BY <1>1
<1> QED BY <1>1, <1>3, <1>4, <1>5 DEF LastOf

\* What the last n messages cost is what all cost less what those before cost.
LEMMA TotalOfLast ==
  ASSUME NEW ms \in Seq(Message), NEW n \in 0..Len(ms)
  PROVE  Total(LastOf(ms, n)) = Sums(Costs(ms))[Len(ms)] - Sums(Costs(ms))[Len(ms) - n]
<1>1. PICK N \in Nat : N = Len(ms)
  OBVIOUS
<1> DEFINE last == Costs(LastOf(ms, n))
           before == N - n
           P == {k \in 0..n : Sums(last)[k] = Sums(Costs(ms))[before + k]
                                              - Sums(Costs(ms))[before]}
<1>2. /\ last \in Seq(Nat) /\ Len(last) = n
      /\ \A k \in 1..n : last[k] = ms[N - n + k].cost
  <2>1. /\ LastOf(ms, n) \in Seq(Message) /\ Len(LastOf(ms, n)) = n
        /\ \A i \in 1..n : LastOf(ms, n)[i] = ms[N - n + i]
    BY <1>1, LastOfIs
  <2>2. /\ last \in Seq(Nat) /\ Len(last) = n
        /\ \A i \in 1..n : last[i] = LastOf(ms, n)[i].cost
    BY <2>1, CostsAre
  <2> QED BY <2>1, <2>2
<1>3. /\ \A k \in 0..N : Sums(Costs(ms))[k] \in Nat
      /\ \A k \in 1..N : Sums(Costs(ms))[k] = Sums(Costs(ms))[k - 1] + ms[k].cost
                         /\ ms[k].cost \in Nat
  <2>1. /\ Costs(ms) \in Seq(Nat) /\ Len(Costs(ms)) = N
        /\ \A k \in 1..N : Costs(ms)[k] = ms[k].cost /\ ms[k].cost \in Nat
    BY <1>1, CostsAre
  <2>2. /\ Sums(Costs(ms)) \in [0..N -> Nat]
        /\ \A k \in 1..N : Sums(Costs(ms))[k] = Sums(Costs(ms))[k - 1] + Costs(ms)[k]
    BY <2>1, SumsAre
  <2> QED BY <2>1, <2>2
<1>4. /\ Sums(last)[0] = 0
      /\ \A k \in 1..n : Sums(last)[k] = Sums(last)[k - 1] + last[k]
  BY <1>2, SumsAre
<1> HIDE DEF last
<1>5. n \in Nat /\ n \in 0..N /\ before \in 0..N /\ before + n = N
  BY <1>1
<1>6. 0 \in P
  BY <1>3, <1>4, <1>5
<1>7. ASSUME NEW k \in 1..n, k - 1 \in P PROVE k \in P
  <2>1. Sums(last)[k - 1] = Sums(Costs(ms))[before + k - 1] - Sums(Costs(ms))[before]
    BY <1>7, <1>5
  <2>2. before + k \in 1..N /\ before + k - 1 \in 0..N
    BY <1>5
  <2>3. Sums(Costs(ms))[before + k] = Sums(Costs(ms))[before + k - 1] + ms[before + k].cost
    BY <2>2, <1>3
  <2>4. Sums(last)[k] = Sums(last)[k - 1] + ms[before + k].cost
    BY <1>2, <1>4
  <2>5. /\ Sums(Costs(ms))[before] \in Nat /\ Sums(Costs(ms))[before + k - 1] \in Nat
        /\ ms[before + k].cost \in Nat
    BY <2>2, <1>3, <1>5
  <2>6. Sums(last)[k] = Sums(Costs(ms))[before + k] - Sums(Costs(ms))[before]
    BY <2>1, <2>3, <2>4, <2>5
  <2> QED BY <2>6
<1>8. 0..n \subseteq P
  <2>1. n \in Nat
    BY <1>5
  <2> HIDE DEF P
  <2> QED BY <2>1, <1>6, <1>7, ReachesBound
<1>9. Sums(last)[n] = Sums(Costs(ms))[before + n] - Sums(Costs(ms))[before]
  BY <1>5, <1>8
<1> QED BY <1>1, <1>2, <1>5, <1>9 DEF Total, Sum, last

Kept == [used : Nat, kept : Nat, full : BOOLEAN]

LEMMA WalkStepType ==
  ASSUME NEW k \in Kept, NEW n \in Nat, NEW cost \in Nat
  PROVE  WalkStep(k, n, cost) \in Kept
<1>1. [k EXCEPT !.full = TRUE] \in Kept
  BY DEF Kept
<1>2. k.used + cost \in Nat
  BY DEF Kept
<1>3. [k EXCEPT !.used = k.used + cost, !.kept = n] \in Kept
  BY <1>2 DEF Kept
<1> QED BY <1>1, <1>3 DEF WalkStep

LEMMA WalkIs ==
  ASSUME NEW ms \in Seq(Message)
  PROVE  /\ Walk(ms)[0] = NothingKept
         /\ \A n \in 1..Len(ms) :
               Walk(ms)[n] = WalkStep(Walk(ms)[n - 1], n, ms[Len(ms) - n + 1].cost)
<1>1. PICK N \in Nat : N = Len(ms)
  OBVIOUS
<1> DEFINE cost(n) == ms[N - n + 1].cost
           step == [p \in (1..N) \X Kept |-> WalkStep(p[2], p[1], cost(p[1]))]
           Body(f) == [n \in 0..N |-> IF n = 0 THEN NothingKept
                                      ELSE WalkStep(f[n - 1], n, cost(n))]
<1>2. \A n \in 1..N : cost(n) \in Nat
  <2> TAKE n \in 1..N
  <2>1. N - n + 1 \in 1..N
    OBVIOUS
  <2> QED BY <2>1, <1>1, CostsAre
<1> HIDE DEF cost
<1>3. /\ step \in [(1..N) \X Kept -> Kept]
      /\ \A n \in 1..N, k \in Kept : step[<<n, k>>] = WalkStep(k, n, cost(n))
  <2>1. \A n \in 1..N, k \in Kept : WalkStep(k, n, cost(n)) \in Kept
    BY <1>2, WalkStepType
  <2> QED BY <2>1
<1>4. NothingKept \in Kept
  BY DEF NothingKept, Kept
<1>5. PICK f : States(f, Kept, N, NothingKept, step)
  <2> HIDE DEF step
  <2> QED BY <1>3, <1>4, LoopHasStates
<1>6. /\ f \in [0..N -> Kept] /\ f[0] = NothingKept
      /\ \A n \in 1..N : f[n] = step[<<n, f[n - 1]>>]
  <2> HIDE DEF step
  <2> QED BY <1>5 DEF States
<1>7. \A n \in 1..N : f[n] = WalkStep(f[n - 1], n, cost(n))
  <2> HIDE DEF step
  <2> TAKE n \in 1..N
  <2>1. n - 1 \in 0..N
    OBVIOUS
  <2>2. f[n - 1] \in Kept
    BY <2>1, <1>6
  <2> QED BY <2>2, <1>3, <1>6
<1>8. f = Body(f)
  BY <1>6, <1>7
<1>9. Walk(ms) = CHOOSE g : g = Body(g)
  BY <1>1 DEF Walk, WalkStep, cost
<1>10. Walk(ms) = Body(Walk(ms))
  <2> HIDE DEF Body
  <2> QED BY <1>8, <1>9
<1>11. /\ Walk(ms)[0] = NothingKept
       /\ \A n \in 1..N : Walk(ms)[n] = WalkStep(Walk(ms)[n - 1], n, cost(n))
  BY <1>10
<1> QED BY <1>1, <1>11 DEF cost

\* The total of the last n messages, message by message.
LEMMA LastTotals ==
  ASSUME NEW ms \in Seq(Message)
  PROVE  /\ Total(LastOf(ms, 0)) = 0
         /\ \A n \in 0..Len(ms) : Total(LastOf(ms, n)) \in Nat
         /\ \A n \in 1..Len(ms) :
               Total(LastOf(ms, n)) = Total(LastOf(ms, n - 1)) + ms[Len(ms) - n + 1].cost
         /\ \A n \in 0..Len(ms) : \A m \in n..Len(ms) :
               Total(LastOf(ms, n)) <= Total(LastOf(ms, m))
<1>1. PICK N \in Nat : N = Len(ms)
  OBVIOUS
<1> DEFINE S == Sums(Costs(ms))
<1>2. /\ Costs(ms) \in Seq(Nat) /\ Len(Costs(ms)) = N
      /\ \A i \in 1..N : Costs(ms)[i] = ms[i].cost /\ ms[i].cost \in Nat
  BY <1>1, CostsAre
<1>3. /\ S \in [0..N -> Nat]
      /\ \A i \in 1..N : S[i] = S[i - 1] + Costs(ms)[i]
  BY <1>2, SumsAre
<1>4. \A m \in 0..N : \A n \in m..N : S[m] <= S[n]
  BY <1>2, SumsGrow
<1>5. \A n \in 0..N : Total(LastOf(ms, n)) = S[N] - S[N - n]
  BY <1>1, TotalOfLast
<1> HIDE DEF S
<1>6. \A n \in 0..N : N - n \in 0..N /\ S[N - n] \in Nat /\ S[N] \in Nat
                      /\ S[N - n] <= S[N]
  <2> TAKE n \in 0..N
  <2>1. N - n \in 0..N /\ N \in (N - n)..N /\ N \in 0..N
    OBVIOUS
  <2>2. S[N - n] <= S[N]
    BY <2>1, <1>4
  <2> QED BY <2>1, <2>2, <1>3
<1>7. Total(LastOf(ms, 0)) = 0
  <2>1. N - 0 = N /\ 0 \in 0..N
    OBVIOUS
  <2> QED BY <2>1, <1>5, <1>6
<1>8. \A n \in 0..N : Total(LastOf(ms, n)) \in Nat
  <2> TAKE n \in 0..N
  <2>1. S[N - n] \in Nat /\ S[N] \in Nat /\ S[N - n] <= S[N]
    BY <1>6
  <2> QED BY <2>1, <1>5
<1>9. \A n \in 1..N :
         Total(LastOf(ms, n)) = Total(LastOf(ms, n - 1)) + ms[N - n + 1].cost
  <2> TAKE n \in 1..N
  <2>1. n \in 0..N /\ n - 1 \in 0..N /\ N - n + 1 \in 1..N
        /\ N - (n - 1) = N - n + 1 /\ (N - n + 1) - 1 = N - n
    OBVIOUS
  <2>2. /\ S[N - n + 1] = S[N - n] + ms[N - n + 1].cost
        /\ ms[N - n + 1].cost \in Nat
    BY <2>1, <1>2, <1>3
  <2>3. /\ S[N] \in Nat /\ S[N - n] \in Nat
        /\ Total(LastOf(ms, n)) = S[N] - S[N - n]
        /\ Total(LastOf(ms, n - 1)) = S[N] - S[N - n + 1]
    BY <2>1, <1>5, <1>6
  <2> QED BY <2>2, <2>3
<1>10. \A n \in 0..N : \A m \in n..N : Total(LastOf(ms, n)) <= Total(LastOf(ms, m))
  <2> TAKE n \in 0..N
  <2> TAKE m \in n..N
  <2>1. m \in 0..N /\ N - m \in 0..N /\ N - n \in (N - m)..N
    OBVIOUS
  <2>2. S[N - m] <= S[N - n]
    BY <2>1, <1>4
  <2>3. /\ S[N] \in Nat /\ S[N - n] \in Nat /\ S[N - m] \in Nat
        /\ Total(LastOf(ms, n)) = S[N] - S[N - n]
        /\ Total(LastOf(ms, m)) = S[N] - S[N - m]
    BY <2>1, <1>5, <1>6
  <2> QED BY <2>2, <2>3
<1> QED BY <1>1, <1>7, <1>8, <1>9, <1>10

\* What holds of the loop after n steps.
WalkHolds(ms, k, n) ==
    /\ k \in Kept /\ k.kept \in 0..n
    /\ k.used = Total(LastOf(ms, k.kept)) /\ k.used <= TokenBudget
    /\ ~k.full => k.kept = n
    /\ k.full => k.kept < n /\ Total(LastOf(ms, k.kept + 1)) > TokenBudget

LEMMA WalkGoesOn ==
  ASSUME NEW ms \in Seq(Message), NEW n \in 1..Len(ms), NEW k, WalkHolds(ms, k, n - 1)
  PROVE  WalkHolds(ms, WalkStep(k, n, ms[Len(ms) - n + 1].cost), n)
<1> DEFINE cost == ms[Len(ms) - n + 1].cost
<1>1. PICK N \in Nat : N = Len(ms)
  OBVIOUS
<1>2. /\ k \in Kept /\ k.kept \in 0..(n - 1)
      /\ k.used = Total(LastOf(ms, k.kept)) /\ k.used <= TokenBudget
      /\ ~k.full => k.kept = n - 1
      /\ k.full => k.kept < n - 1 /\ Total(LastOf(ms, k.kept + 1)) > TokenBudget
  BY DEF WalkHolds
<1>3. k.used \in Nat /\ k.full \in BOOLEAN /\ TokenBudget \in Nat
  BY <1>2, RoundsAssumption DEF Kept
<1>4. N - n + 1 \in 1..N
  BY <1>1
<1>5. cost \in Nat
  BY <1>1, <1>4, CostsAre
<1>6. Total(LastOf(ms, n)) = Total(LastOf(ms, n - 1)) + cost
  BY LastTotals
<1> SUFFICES WalkHolds(ms, WalkStep(k, n, cost), n)
  OBVIOUS
<1> HIDE DEF cost
<1>7. CASE k.full
  <2>1. WalkStep(k, n, cost) = [k EXCEPT !.full = TRUE]
    BY <1>7 DEF WalkStep
  <2>2. [k EXCEPT !.full = TRUE] = k
    BY <1>2, <1>7 DEF Kept
  <2>3. WalkHolds(ms, k, n)
    BY <1>2, <1>7 DEF WalkHolds
  <2> QED BY <2>1, <2>2, <2>3
<1>8. CASE ~k.full /\ k.used + cost > TokenBudget
  <2>1. WalkStep(k, n, cost) = [k EXCEPT !.full = TRUE]
    BY <1>8 DEF WalkStep
  <2>2. k.kept = n - 1 /\ k.kept + 1 = n
    BY <1>2, <1>8
  <2>3. Total(LastOf(ms, n)) > TokenBudget
    BY <1>2, <1>6, <1>8, <2>2
  <2> DEFINE l == [k EXCEPT !.full = TRUE]
  <2>4. l \in Kept /\ l.kept = k.kept /\ l.used = k.used /\ l.full = TRUE
    BY <1>2 DEF Kept
  <2> HIDE DEF l
  <2>5. WalkHolds(ms, l, n)
    BY <2>2, <2>3, <2>4, <1>2 DEF WalkHolds
  <2> QED BY <2>1, <2>5 DEF l
<1>9. CASE ~k.full /\ ~(k.used + cost > TokenBudget)
  <2> DEFINE l == [k EXCEPT !.used = k.used + cost, !.kept = n]
  <2>1. WalkStep(k, n, cost) = l
    BY <1>9 DEF WalkStep
  <2>2. k.kept = n - 1
    BY <1>2, <1>9
  <2>3. k.used + cost \in Nat /\ n \in Nat
    BY <1>3, <1>5
  <2>4. l \in Kept /\ l.kept = n /\ l.used = k.used + cost /\ l.full = k.full
    BY <1>2, <2>3 DEF Kept
  <2> HIDE DEF l
  <2>5. l.used = Total(LastOf(ms, l.kept)) /\ l.used <= TokenBudget
    BY <1>2, <1>3, <1>5, <1>6, <1>9, <2>2, <2>4
  <2>6. WalkHolds(ms, l, n)
    BY <2>4, <2>5, <1>9 DEF WalkHolds
  <2> QED BY <2>1, <2>6
<1> QED BY <1>7, <1>8, <1>9

\* The loop ends at the longest end of the conversation that fits the budget.
LEMMA WalkEnds ==
  ASSUME NEW ms \in Seq(Message)
  PROVE  WalkHolds(ms, Walk(ms)[Len(ms)], Len(ms))
<1>1. PICK N \in Nat : N = Len(ms)
  OBVIOUS
<1> DEFINE P == {n \in 0..N : WalkHolds(ms, Walk(ms)[n], n)}
<1>2. 0 \in P
  <2>1. NothingKept \in Kept /\ NothingKept.kept = 0 /\ NothingKept.used = 0
        /\ NothingKept.full = FALSE
    BY DEF NothingKept, Kept
  <2>2. Total(LastOf(ms, 0)) = 0 /\ TokenBudget \in Nat
    BY LastTotals, RoundsAssumption
  <2>3. WalkHolds(ms, NothingKept, 0)
    BY <2>1, <2>2 DEF WalkHolds
  <2>4. Walk(ms)[0] = NothingKept
    BY WalkIs
  <2> QED BY <2>3, <2>4
<1>3. ASSUME NEW n \in 1..N, n - 1 \in P PROVE n \in P
  <2>1. WalkHolds(ms, Walk(ms)[n - 1], n - 1)
    BY <1>3
  <2>2. WalkHolds(ms, WalkStep(Walk(ms)[n - 1], n, ms[Len(ms) - n + 1].cost), n)
    BY <2>1, <1>1, WalkGoesOn
  <2>3. Walk(ms)[n] = WalkStep(Walk(ms)[n - 1], n, ms[Len(ms) - n + 1].cost)
    BY <1>1, WalkIs
  <2> QED BY <2>2, <2>3
<1>4. 0..N \subseteq P
  <2> HIDE DEF P
  <2> QED BY <1>2, <1>3, ReachesBound
<1> QED BY <1>1, <1>4

LEMMA TrimmedIs ==
  ASSUME NEW ms \in Seq(Message)
  PROVE  \E kept \in 0..Len(ms) :
            /\ Trimmed(ms) = LastOf(ms, kept) /\ Len(Trimmed(ms)) = kept
            /\ Total(LastOf(ms, kept)) <= TokenBudget
            /\ \A n \in (kept + 1)..Len(ms) : Total(LastOf(ms, n)) > TokenBudget
<1>1. PICK N \in Nat : N = Len(ms)
  OBVIOUS
<1>2. PICK k : k = Walk(ms)[N] /\ WalkHolds(ms, k, N)
  BY <1>1, WalkEnds
<1>3. k.kept \in 0..N /\ Trimmed(ms) = LastOf(ms, k.kept)
  BY <1>1, <1>2 DEF WalkHolds, Trimmed
<1>4. Len(Trimmed(ms)) = k.kept
  BY <1>1, <1>3, LastOfIs
<1>5. Total(LastOf(ms, k.kept)) <= TokenBudget
  BY <1>2 DEF WalkHolds
<1>6. \A n \in (k.kept + 1)..N : Total(LastOf(ms, n)) > TokenBudget
  <2> TAKE n \in (k.kept + 1)..N
  <2>1. k.kept # N /\ k.full
    BY <1>2, <1>3 DEF WalkHolds, Kept
  <2>2. Total(LastOf(ms, k.kept + 1)) > TokenBudget
    BY <2>1, <1>2 DEF WalkHolds
  <2>3. k.kept + 1 \in 0..N /\ n \in 0..N
    BY <1>3
  <2>4. /\ Total(LastOf(ms, k.kept + 1)) <= Total(LastOf(ms, n))
        /\ Total(LastOf(ms, k.kept + 1)) \in Nat /\ Total(LastOf(ms, n)) \in Nat
    BY <2>3, <1>1, LastTotals
  <2> QED BY <2>2, <2>4, RoundsAssumption
<1> QED BY <1>1, <1>3, <1>4, <1>5, <1>6

(***************************************************************************)
(* The calls of an answer                                                  *)
(***************************************************************************)

\* One step of the loop over the calls.
BlockStep(before, c, n) ==
    IF c.type = "function" THEN Append(before, Block(c, n)) ELSE before

LEMMA BlockStepType ==
  ASSUME rounds \in 1..MaxRounds, NEW before \in Seq(Use), NEW c \in Call, NEW n \in Nat
  PROVE  BlockStep(before, c, n) \in Seq(Use)
<1>1. <<rounds, n>> \in Id
  BY DEF Id
<1>2. Block(c, n) \in Use
  BY <1>1 DEF Block, Use, Call
<1>3. Append(before, Block(c, n)) \in Seq(Use)
  BY <1>2, AppendProperties
<1> QED BY <1>3 DEF BlockStep

LEMMA ToolUsesType ==
  ASSUME rounds \in 1..MaxRounds, NEW cs \in Seq(Call)
  PROVE  ToolUses(cs) \in Seq(Use)
<1>1. PICK N \in Nat : N = Len(cs)
  OBVIOUS
<1> DEFINE step == [p \in (1..N) \X Seq(Use) |-> BlockStep(p[2], cs[p[1]], p[1])]
           Body(f) == [n \in 0..N |-> IF n = 0 THEN <<>>
                                      ELSE BlockStep(f[n - 1], cs[n], n)]
<1>2. \A n \in 1..N, u \in Seq(Use) : BlockStep(u, cs[n], n) \in Seq(Use)
  <2> TAKE n \in 1..N, u \in Seq(Use)
  <2>1. cs[n] \in Call /\ n \in Nat
    BY <1>1
  <2> QED BY <2>1, BlockStepType
<1>3. /\ step \in [(1..N) \X Seq(Use) -> Seq(Use)]
      /\ \A n \in 1..N, u \in Seq(Use) : step[<<n, u>>] = BlockStep(u, cs[n], n)
  BY <1>2
<1>4. << >> \in Seq(Use)
  OBVIOUS
<1>5. PICK f : States(f, Seq(Use), N, << >>, step)
  <2> HIDE DEF step
  <2> QED BY <1>3, <1>4, LoopHasStates
<1>6. /\ f \in [0..N -> Seq(Use)] /\ f[0] = << >>
      /\ \A n \in 1..N : f[n] = step[<<n, f[n - 1]>>]
  <2> HIDE DEF step
  <2> QED BY <1>5 DEF States
<1>7. \A n \in 1..N : f[n] = BlockStep(f[n - 1], cs[n], n)
  <2> HIDE DEF step
  <2> TAKE n \in 1..N
  <2>1. n - 1 \in 0..N
    OBVIOUS
  <2>2. f[n - 1] \in Seq(Use)
    BY <2>1, <1>6
  <2> QED BY <2>2, <1>3, <1>6
<1>8. f = Body(f)
  BY <1>6, <1>7
<1>9. Blocks(cs) = CHOOSE g : g = Body(g)
  BY <1>1 DEF Blocks, BlockStep
<1>10. Blocks(cs) = Body(Blocks(cs))
  <2> HIDE DEF Body
  <2> QED BY <1>8, <1>9
<1>11. /\ Blocks(cs)[0] = << >>
       /\ \A n \in 1..N : Blocks(cs)[n] = BlockStep(Blocks(cs)[n - 1], cs[n], n)
  BY <1>10
<1>12. \A n \in 0..N : Blocks(cs)[n] \in Seq(Use)
  <2>1. \A n \in 1..N : Blocks(cs)[n - 1] \in Seq(Use) => Blocks(cs)[n] \in Seq(Use)
    BY <1>2, <1>11
  <2>2. Blocks(cs)[0] \in Seq(Use)
    BY <1>4, <1>11
  <2> QED BY <2>1, <2>2, StaysInside
<1> QED BY <1>1, <1>12 DEF ToolUses

(***************************************************************************)
(* The messages on the wire                                                *)
(***************************************************************************)

WireMessage == [role : {"system", "user", "assistant", "tool"}, ids : Seq(Id)]

System == <<[role |-> "system", ids |-> << >>]>>

LEMMA TranslatedType ==
  ASSUME NEW m \in Message
  PROVE  /\ Translated(m) \in Seq(WireMessage)
         /\ m.kind = "digest" => Translated(m) = <<[role |-> "user", ids |-> << >>]>>
         /\ m.kind = "assistant" => Translated(m) = <<[role |-> "assistant", ids |-> m.ids]>>
         /\ m.kind = "results" =>
               /\ Len(Translated(m)) = Len(m.ids)
               /\ \A i \in 1..Len(m.ids) :
                     Translated(m)[i] = [role |-> "tool", ids |-> <<m.ids[i]>>]
<1>1. m.kind \in {"digest", "assistant", "results"} /\ m.ids \in Seq(Id)
  BY DEF Message
<1>2. CASE m.kind = "digest"
  <2>1. Translated(m) = <<[role |-> "user", ids |-> << >>]>>
    BY <1>2 DEF Translated
  <2>2. [role |-> "user", ids |-> << >>] \in WireMessage
    BY DEF WireMessage
  <2>3. <<[role |-> "user", ids |-> << >>]>> \in Seq(WireMessage)
    BY <2>2
  <2> QED BY <1>2, <2>1, <2>3
<1>3. CASE m.kind = "assistant"
  <2>1. Translated(m) = <<[role |-> "assistant", ids |-> m.ids]>>
    BY <1>3 DEF Translated
  <2>2. [role |-> "assistant", ids |-> m.ids] \in WireMessage
    BY <1>1 DEF WireMessage
  <2>3. <<[role |-> "assistant", ids |-> m.ids]>> \in Seq(WireMessage)
    BY <2>2
  <2> QED BY <1>3, <2>1, <2>3
<1>4. CASE m.kind = "results"
  <2>1. PICK L \in Nat : L = Len(m.ids) /\ DOMAIN m.ids = 1..L
    BY <1>1
  <2>2. \A i \in 1..L : <<m.ids[i]>> \in Seq(Id)
    BY <1>1, <2>1
  <2>3. \A i \in 1..L : [role |-> "tool", ids |-> <<m.ids[i]>>] \in WireMessage
    BY <2>2 DEF WireMessage
  <2>4. Translated(m) = [i \in 1..L |-> [role |-> "tool", ids |-> <<m.ids[i]>>]]
    BY <1>4, <2>1 DEF Translated
  <2>5. Translated(m) \in [1..L -> WireMessage]
    BY <2>3, <2>4
  <2>6. Translated(m) \in Seq(WireMessage) /\ Len(Translated(m)) = L
    BY <2>5
  <2> QED BY <1>4, <2>1, <2>4, <2>6
<1> QED BY <1>1, <1>2, <1>3, <1>4

\* One step of the loop over the messages.
PushStep(before, m) == before \o Translated(m)

LEMMA PushedIs ==
  ASSUME NEW ms \in Seq(Message)
  PROVE  /\ Pushed(ms)[0] = System
         /\ \A n \in 1..Len(ms) : Pushed(ms)[n] = PushStep(Pushed(ms)[n - 1], ms[n])
         /\ \A n \in 0..Len(ms) : Pushed(ms)[n] \in Seq(WireMessage)
<1>1. PICK N \in Nat : N = Len(ms)
  OBVIOUS
<1> DEFINE W == Seq(WireMessage)
           step == [p \in (1..N) \X W |-> PushStep(p[2], ms[p[1]])]
           Body(f) == [n \in 0..N |-> IF n = 0 THEN System
                                      ELSE PushStep(f[n - 1], ms[n])]
<1>2. \A n \in 1..N, w \in W : PushStep(w, ms[n]) \in W
  <2> TAKE n \in 1..N, w \in W
  <2>1. ms[n] \in Message
    BY <1>1
  <2>2. Translated(ms[n]) \in W
    BY <2>1, TranslatedType
  <2> QED BY <2>2, ConcatProperties DEF PushStep
<1>3. System \in W
  <2>1. [role |-> "system", ids |-> << >>] \in WireMessage
    BY DEF WireMessage
  <2> QED BY <2>1 DEF System
<1> HIDE DEF W
<1>4. /\ step \in [(1..N) \X W -> W]
      /\ \A n \in 1..N, w \in W : step[<<n, w>>] = PushStep(w, ms[n])
  BY <1>2
<1>5. PICK f : States(f, W, N, System, step)
  <2> HIDE DEF step
  <2> QED BY <1>3, <1>4, LoopHasStates
<1>6. /\ f \in [0..N -> W] /\ f[0] = System
      /\ \A n \in 1..N : f[n] = step[<<n, f[n - 1]>>]
  <2> HIDE DEF step
  <2> QED BY <1>5 DEF States
<1>7. \A n \in 1..N : f[n] = PushStep(f[n - 1], ms[n])
  <2> HIDE DEF step
  <2> TAKE n \in 1..N
  <2>1. n - 1 \in 0..N
    OBVIOUS
  <2>2. f[n - 1] \in W
    BY <2>1, <1>6
  <2> QED BY <2>2, <1>4, <1>6
<1>8. f = Body(f)
  BY <1>6, <1>7
<1>9. Pushed(ms) = CHOOSE g : g = Body(g)
  BY <1>1 DEF Pushed, PushStep, System
<1>10. Pushed(ms) = Body(Pushed(ms))
  <2> HIDE DEF Body
  <2> QED BY <1>8, <1>9
<1>11. /\ Pushed(ms)[0] = System
       /\ \A n \in 1..N : Pushed(ms)[n] = PushStep(Pushed(ms)[n - 1], ms[n])
  BY <1>10
<1>12. \A n \in 0..N : Pushed(ms)[n] \in W
  <2>1. \A n \in 1..N : Pushed(ms)[n - 1] \in W => Pushed(ms)[n] \in W
    BY <1>2, <1>11
  <2>2. Pushed(ms)[0] \in W
    BY <1>3, <1>11
  <2> QED BY <2>1, <2>2, StaysInside
<1> QED BY <1>1, <1>11, <1>12 DEF W

\* Every answer but one cut off is followed by the results of its calls.
Paired(ms) ==
    \A k \in 1..Len(ms) :
        /\ ms[k].kind = "assistant" =>
              k < Len(ms) /\ ms[k + 1].kind = "results" /\ ms[k + 1].ids = ms[k].ids
        /\ k > 1 /\ ms[k].kind = "results" =>
              ms[k - 1].kind = "assistant" /\ ms[k - 1].ids = ms[k].ids
        /\ k > 1 => ms[k].kind # "digest"

LEMMA EndIsPaired ==
  ASSUME NEW ms \in Seq(Message), Paired(ms), NEW n \in 0..Len(ms)
  PROVE  Paired(LastOf(ms, n))
<1>1. PICK N \in Nat : N = Len(ms)
  OBVIOUS
<1> DEFINE last == LastOf(ms, n)
<1>2. Len(last) = n /\ \A i \in 1..n : last[i] = ms[N - n + i]
  BY <1>1, LastOfIs
<1> HIDE DEF last
<1>3. ASSUME NEW k \in 1..n
      PROVE  /\ last[k].kind = "assistant" =>
                   k < n /\ last[k + 1].kind = "results" /\ last[k + 1].ids = last[k].ids
             /\ k > 1 /\ last[k].kind = "results" =>
                   last[k - 1].kind = "assistant" /\ last[k - 1].ids = last[k].ids
             /\ k > 1 => last[k].kind # "digest"
  <2> DEFINE j == N - n + k
  <2>1. j \in 1..N /\ (j < N <=> k < n) /\ (k > 1 => j > 1)
    BY <1>1
  <2>2. last[k] = ms[j]
    BY <1>2
  <2>3. k < n => last[k + 1] = ms[j + 1]
    <3>1. SUFFICES ASSUME k < n PROVE last[k + 1] = ms[j + 1]
      OBVIOUS
    <3>2. k + 1 \in 1..n /\ N - n + (k + 1) = j + 1
      BY <3>1, <1>1
    <3> QED BY <3>2, <1>2
  <2>4. k > 1 => last[k - 1] = ms[j - 1]
    <3>1. SUFFICES ASSUME k > 1 PROVE last[k - 1] = ms[j - 1]
      OBVIOUS
    <3>2. k - 1 \in 1..n /\ N - n + (k - 1) = j - 1
      BY <3>1, <1>1
    <3> QED BY <3>2, <1>2
  <2> HIDE DEF j
  <2>5. /\ ms[j].kind = "assistant" =>
              j < N /\ ms[j + 1].kind = "results" /\ ms[j + 1].ids = ms[j].ids
        /\ j > 1 /\ ms[j].kind = "results" =>
              ms[j - 1].kind = "assistant" /\ ms[j - 1].ids = ms[j].ids
        /\ j > 1 => ms[j].kind # "digest"
    BY <2>1, <1>1 DEF Paired
  <2> QED BY <2>1, <2>2, <2>3, <2>4, <2>5
<1> QED BY <1>2, <1>3 DEF Paired, last

Answered(w, k) ==
    \A i \in 1..Len(w[k].ids) :
        k + i \in 1..Len(w) /\ w[k + i] = [role |-> "tool", ids |-> <<w[k].ids[i]>>]

Asked(w, k) ==
    \E a \in 1..(k - 1) :
        w[a].role = "assistant" /\ k - a \in 1..Len(w[a].ids) /\ w[a].ids[k - a] = w[k].ids[1]

\* The answer that was pushed last.
Pending(w, m) ==
    m.kind = "assistant" /\ w[Len(w)] = [role |-> "assistant", ids |-> m.ids]

\* What is on the wire after n of the messages ms.
OutHolds(w, ms, n) ==
    /\ w \in Seq(WireMessage) /\ Len(w) >= 1
    /\ n = 0 => w = System
    /\ n > 0 /\ ms[n].kind = "assistant" => Pending(w, ms[n])
    /\ \A k \in 1..Len(w) :
          /\ w[k].role = "assistant" =>
                Answered(w, k) \/ (k = Len(w) /\ n > 0 /\ Pending(w, ms[n]))
          /\ w[k].role = "tool" =>
                \/ Asked(w, k)
                \/ n > 0 /\ ms[1].kind = "results" /\ \A j \in 2..k : w[j].role = "tool"

\* What is pushed behind leaves the pairs before it as they are.
LEMMA PairsStay ==
  ASSUME NEW v \in Seq(WireMessage), NEW w \in Seq(WireMessage), Len(v) <= Len(w),
         \A k \in 1..Len(v) : w[k] = v[k]
  PROVE  /\ \A k \in 1..Len(v) : Answered(v, k) => Answered(w, k)
         /\ \A k \in 1..Len(v) : Asked(v, k) => Asked(w, k)
         /\ \A k \in 1..Len(v) : (\A j \in 2..k : v[j].role = "tool")
                                 => \A j \in 2..k : w[j].role = "tool"
<1>1. PICK M \in Nat, N \in Nat : M = Len(v) /\ N = Len(w) /\ M <= N
  OBVIOUS
<1>2. ASSUME NEW k \in 1..M, Answered(v, k) PROVE Answered(w, k)
  <2>1. w[k] = v[k]
    BY <1>1
  <2> SUFFICES ASSUME NEW i \in 1..Len(v[k].ids)
               PROVE  k + i \in 1..N /\ w[k + i] = [role |-> "tool", ids |-> <<v[k].ids[i]>>]
    BY <2>1, <1>1 DEF Answered
  <2>2. k + i \in 1..M /\ v[k + i] = [role |-> "tool", ids |-> <<v[k].ids[i]>>]
    BY <1>1, <1>2 DEF Answered
  <2>3. w[k + i] = v[k + i] /\ k + i \in 1..N
    BY <2>2, <1>1
  <2> QED BY <2>2, <2>3
<1>3. ASSUME NEW k \in 1..M, Asked(v, k) PROVE Asked(w, k)
  <2>1. PICK a \in 1..(k - 1) :
           v[a].role = "assistant" /\ k - a \in 1..Len(v[a].ids) /\ v[a].ids[k - a] = v[k].ids[1]
    BY <1>3 DEF Asked
  <2>2. a \in 1..M /\ w[a] = v[a] /\ w[k] = v[k]
    BY <1>1
  <2> QED BY <2>1, <2>2 DEF Asked
<1>4. ASSUME NEW k \in 1..M, \A j \in 2..k : v[j].role = "tool", NEW j \in 2..k
      PROVE  w[j].role = "tool"
  <2>1. j \in 1..M
    OBVIOUS
  <2> QED BY <2>1, <1>1, <1>4
<1> QED BY <1>1, <1>2, <1>3, <1>4

LEMMA OutGoesOn ==
  ASSUME NEW ms \in Seq(Message), Paired(ms), NEW n \in 1..Len(ms),
         NEW v, OutHolds(v, ms, n - 1)
  PROVE  OutHolds(PushStep(v, ms[n]), ms, n)
<1> DEFINE m == ms[n]
           add == Translated(m)
           w == PushStep(v, m)
<1>1. m \in Message /\ m.kind \in {"digest", "assistant", "results"} /\ m.ids \in Seq(Id)
  <2>1. m \in Message
    OBVIOUS
  <2> QED BY <2>1 DEF Message
<1>2. v \in Seq(WireMessage)
  BY DEF OutHolds
<1>3. PICK L \in Nat : L = Len(v) /\ L >= 1
  BY <1>2 DEF OutHolds
<1>4. /\ add \in Seq(WireMessage)
      /\ m.kind = "digest" => add = <<[role |-> "user", ids |-> << >>]>>
      /\ m.kind = "assistant" => add = <<[role |-> "assistant", ids |-> m.ids]>>
      /\ m.kind = "results" =>
            /\ Len(add) = Len(m.ids)
            /\ \A i \in 1..Len(m.ids) : add[i] = [role |-> "tool", ids |-> <<m.ids[i]>>]
  BY <1>1, TranslatedType
<1>5. PICK A \in Nat : A = Len(add)
  BY <1>4
<1>6. /\ w \in Seq(WireMessage) /\ Len(w) = L + A
      /\ \A k \in 1..(L + A) : w[k] = IF k <= L THEN v[k] ELSE add[k - L]
  <2>1. v \o add \in Seq(WireMessage) /\ Len(v \o add) = Len(v) + Len(add)
        /\ \A k \in 1..(Len(v) + Len(add)) :
              (v \o add)[k] = IF k <= Len(v) THEN v[k] ELSE add[k - Len(v)]
    <3> HIDE DEF add
    <3> QED BY <1>2, <1>4, ConcatProperties
  <2> QED BY <2>1, <1>3, <1>5 DEF PushStep
<1>7. /\ \A k \in 1..L : w[k] = v[k]
      /\ \A i \in 1..A : L + i \in 1..(L + A) /\ w[L + i] = add[i]
  <2>1. \A k \in 1..L : k \in 1..(L + A) /\ k <= L
    OBVIOUS
  <2>2. \A i \in 1..A : L + i \in 1..(L + A) /\ ~(L + i <= L) /\ (L + i) - L = i
    OBVIOUS
  <2> HIDE DEF w, add
  <2> QED BY <2>1, <2>2, <1>6
<1> HIDE DEF add, w
<1>8. /\ n > 1 /\ m.kind = "results" =>
            ms[n - 1].kind = "assistant" /\ ms[n - 1].ids = m.ids
      /\ n > 1 /\ ms[n - 1].kind = "assistant" =>
            m.kind = "results" /\ m.ids = ms[n - 1].ids
  <2>1. n > 1 => n - 1 \in 1..Len(ms) /\ (n - 1) + 1 = n
    OBVIOUS
  <2> QED BY <2>1 DEF Paired
<1>9. /\ \A k \in 1..L : Answered(v, k) => Answered(w, k)
      /\ \A k \in 1..L : Asked(v, k) => Asked(w, k)
      /\ \A k \in 1..L : (\A j \in 2..k : v[j].role = "tool")
                         => \A j \in 2..k : w[j].role = "tool"
  <2>1. Len(v) <= Len(w) /\ \A k \in 1..Len(v) : w[k] = v[k]
    <3>1. L <= L + A
      OBVIOUS
    <3> QED BY <3>1, <1>3, <1>6, <1>7
  <2> QED BY <2>1, <1>2, <1>3, <1>6, PairsStay
<1>10. m.kind = "assistant" => A = 1 /\ Pending(w, m)
  <2>1. SUFFICES ASSUME m.kind = "assistant" PROVE A = 1 /\ Pending(w, m)
    OBVIOUS
  <2>2. A = 1 /\ add[1] = [role |-> "assistant", ids |-> m.ids]
    BY <2>1, <1>4, <1>5
  <2>3. Len(w) = L + 1 /\ w[L + 1] = add[1]
    BY <2>2, <1>6, <1>7
  <2> QED BY <2>1, <2>2, <2>3 DEF Pending
\* What was pushed before.
<1>11. ASSUME NEW k \in 1..L, w[k].role = "assistant" PROVE Answered(w, k)
  <2>1. v[k].role = "assistant" /\ w[k] = v[k]
    BY <1>7, <1>11
  <2>2. Answered(v, k) \/ (k = L /\ n - 1 > 0 /\ Pending(v, ms[n - 1]))
    BY <2>1, <1>3 DEF OutHolds
  <2>3. CASE k = L /\ n - 1 > 0 /\ Pending(v, ms[n - 1])
    <3>1. ms[n - 1].kind = "assistant" /\ v[L] = [role |-> "assistant", ids |-> ms[n - 1].ids]
      BY <2>3, <1>3 DEF Pending
    <3>2. m.kind = "results" /\ w[k].ids = m.ids
      BY <2>1, <2>3, <3>1, <1>8
    <3>3. \A i \in 1..Len(m.ids) :
             L + i \in 1..(L + A) /\ w[L + i] = [role |-> "tool", ids |-> <<m.ids[i]>>]
      BY <3>2, <1>4, <1>5, <1>7
    <3> QED BY <2>3, <3>2, <3>3, <1>6 DEF Answered
  <2> QED BY <2>2, <2>3, <1>9
<1>12. ASSUME NEW k \in 1..L, w[k].role = "tool"
       PROVE  Asked(w, k) \/ (ms[1].kind = "results" /\ \A j \in 2..k : w[j].role = "tool")
  <2>1. v[k].role = "tool"
    BY <1>7, <1>12
  <2>2. \/ Asked(v, k)
        \/ ms[1].kind = "results" /\ \A j \in 2..k : v[j].role = "tool"
    BY <2>1, <1>3 DEF OutHolds
  <2> QED BY <2>2, <1>9
\* What is pushed now.
<1>13. ASSUME NEW i \in 1..A, w[L + i].role = "assistant"
       PROVE  L + i = Len(w) /\ Pending(w, m)
  <2>1. add[i].role = "assistant"
    BY <1>7, <1>13
  <2>2. CASE m.kind = "digest"
    <3>1. A = 1 /\ add[1].role = "user"
      BY <2>2, <1>4, <1>5
    <3> QED BY <2>1, <3>1
  <2>3. CASE m.kind = "results"
    <3>1. i \in 1..Len(m.ids)
      BY <2>3, <1>4, <1>5
    <3>2. add[i] = [role |-> "tool", ids |-> <<m.ids[i]>>]
      BY <2>3, <3>1, <1>4
    <3> QED BY <2>1, <3>2
  <2>4. CASE m.kind = "assistant"
    BY <2>4, <1>6, <1>10
  <2> QED BY <2>2, <2>3, <2>4, <1>1
<1>14. ASSUME NEW i \in 1..A, w[L + i].role = "tool"
       PROVE  \/ Asked(w, L + i)
              \/ ms[1].kind = "results" /\ \A j \in 2..(L + i) : w[j].role = "tool"
  <2>1. add[i].role = "tool"
    BY <1>7, <1>14
  <2>2. m.kind = "results"
    <3>1. m.kind # "digest"
      BY <2>1, <1>4, <1>5
    <3>2. m.kind # "assistant"
      BY <2>1, <1>4, <1>5
    <3> QED BY <3>1, <3>2, <1>1
  <2>3. /\ A = Len(m.ids)
        /\ \A l \in 1..A : w[L + l] = [role |-> "tool", ids |-> <<m.ids[l]>>]
    BY <2>2, <1>4, <1>5, <1>7
  <2>4. CASE n > 1
    <3>1. ms[n - 1].kind = "assistant" /\ ms[n - 1].ids = m.ids /\ n - 1 > 0
      BY <2>2, <2>4, <1>8
    <3>2. v[L] = [role |-> "assistant", ids |-> m.ids]
      BY <3>1, <1>3 DEF OutHolds, Pending
    <3>3. w[L].role = "assistant" /\ w[L].ids = m.ids
      BY <3>2, <1>3, <1>7
    <3>4. w[L + i].ids[1] = m.ids[i]
      <4>1. w[L + i] = [role |-> "tool", ids |-> <<m.ids[i]>>]
        BY <2>3
      <4> QED BY <4>1
    <3>5. L \in 1..((L + i) - 1) /\ (L + i) - L = i
      BY <1>3
    <3> QED BY <2>3, <3>3, <3>4, <3>5 DEF Asked
  <2>5. CASE n = 1
    <3>1. v = System
      BY <2>5 DEF OutHolds
    <3>2. L = 1
      BY <3>1, <1>3 DEF System
    <3>3. \A j \in 2..(L + i) : j - 1 \in 1..A /\ L + (j - 1) = j
      BY <3>2
    <3>4. \A j \in 2..(L + i) : w[j].role = "tool"
      <4> TAKE j \in 2..(L + i)
      <4>1. j - 1 \in 1..A /\ L + (j - 1) = j
        BY <3>3
      <4>2. w[L + (j - 1)] = [role |-> "tool", ids |-> <<m.ids[j - 1]>>]
        BY <4>1, <2>3
      <4>3. w[j] = [role |-> "tool", ids |-> <<m.ids[j - 1]>>]
        BY <4>1, <4>2
      <4> QED BY <4>3
    <3> QED BY <2>2, <2>5, <3>4
  <2> QED BY <2>4, <2>5
<1>15. ASSUME NEW k \in 1..Len(w)
       PROVE  /\ w[k].role = "assistant" =>
                    Answered(w, k) \/ (k = Len(w) /\ Pending(w, m))
              /\ w[k].role = "tool" =>
                    Asked(w, k) \/ (ms[1].kind = "results" /\ \A j \in 2..k : w[j].role = "tool")
  <2>1. CASE k \in 1..L
    BY <2>1, <1>11, <1>12
  <2>2. CASE k \notin 1..L
    <3>1. PICK i \in 1..A : k = L + i
      <4>1. k - L \in 1..A /\ k = L + (k - L)
        BY <2>2, <1>6
      <4> QED BY <4>1
    <3> QED BY <3>1, <1>13, <1>14
  <2> QED BY <2>1, <2>2
<1>16. Len(w) >= 1 /\ n > 0 /\ n # 0
  BY <1>3, <1>6
<1> QED BY <1>6, <1>10, <1>15, <1>16 DEF OutHolds, w

\* Of a conversation in pairs nothing is pending when all of it is pushed.
LEMMA WirePairs ==
  ASSUME NEW ms \in Seq(Message), Paired(ms)
  PROVE  /\ Wire(ms) \in Seq(WireMessage)
         /\ \A k \in 1..Len(Wire(ms)) :
               /\ Wire(ms)[k].role = "assistant" => Answered(Wire(ms), k)
               /\ Wire(ms)[k].role = "tool" =>
                     \/ Asked(Wire(ms), k)
                     \/ /\ Len(ms) > 0 /\ ms[1].kind = "results"
                        /\ \A j \in 2..k : Wire(ms)[j].role = "tool"
<1>1. PICK N \in Nat : N = Len(ms)
  OBVIOUS
<1> DEFINE P == {n \in 0..N : OutHolds(Pushed(ms)[n], ms, n)}
<1>2. 0 \in P
  <2>1. System \in Seq(WireMessage) /\ Len(System) = 1 /\ System[1].role = "system"
    <3>1. [role |-> "system", ids |-> << >>] \in WireMessage
      BY DEF WireMessage
    <3> QED BY <3>1 DEF System
  <2>2. OutHolds(System, ms, 0)
    BY <2>1 DEF OutHolds
  <2> QED BY <2>2, PushedIs
<1>3. ASSUME NEW n \in 1..N, n - 1 \in P PROVE n \in P
  <2>1. OutHolds(Pushed(ms)[n - 1], ms, n - 1)
    BY <1>3
  <2>2. OutHolds(PushStep(Pushed(ms)[n - 1], ms[n]), ms, n)
    BY <2>1, <1>1, OutGoesOn
  <2>3. Pushed(ms)[n] = PushStep(Pushed(ms)[n - 1], ms[n])
    BY <1>1, PushedIs
  <2> QED BY <2>2, <2>3
<1>4. 0..N \subseteq P
  <2> HIDE DEF P
  <2> QED BY <1>2, <1>3, ReachesBound
<1>5. PICK w : w = Wire(ms) /\ OutHolds(w, ms, N)
  BY <1>1, <1>4 DEF Wire
<1>6. ~(N > 0 /\ Pending(w, ms[N]))
  <2>1. SUFFICES ASSUME N > 0, ms[N].kind = "assistant" PROVE FALSE
    BY DEF Pending
  <2>2. N \in 1..N /\ ~(N < N)
    BY <2>1
  <2> QED BY <2>1, <2>2, <1>1 DEF Paired
<1>7. w \in Seq(WireMessage)
  BY <1>5 DEF OutHolds
<1>8. \A k \in 1..Len(w) :
         /\ w[k].role = "assistant" => Answered(w, k)
         /\ w[k].role = "tool" =>
               \/ Asked(w, k)
               \/ N > 0 /\ ms[1].kind = "results" /\ \A j \in 2..k : w[j].role = "tool"
  BY <1>5, <1>6 DEF OutHolds
<1> QED BY <1>1, <1>5, <1>7, <1>8

(***************************************************************************)
(* The rounds of a cycle                                                   *)
(***************************************************************************)

TranscriptTypes ==
    /\ stage \in Stage /\ allowed \subseteq Tool
    /\ rounds \in 0..MaxRounds /\ attempt \in 0..MaxRetries
    /\ messages \in Seq(Message)

CallsHold ==
    /\ uses \in Seq(Use) /\ results \in Seq(Nat) /\ Len(results) = Len(uses)

\* A round has begun when the model is called; the digest is the first message,
\* and every answer stands before the results of its calls.
RoundsHold ==
    /\ stage \in {"calling", "tools"} => rounds >= 1
    /\ stage = "context" => messages = << >>
    /\ stage \in {"round", "calling", "tools"} => Len(messages) >= 1
    /\ Len(messages) >= 1 => messages[1].kind = "digest"
    /\ Paired(messages)

TranscriptInv == TranscriptTypes /\ CallsHold /\ RoundsHold

LEMMA TranscriptStarts == TranscriptInit => TranscriptInv
<1> SUFFICES ASSUME TranscriptInit PROVE TranscriptInv
  OBVIOUS
<1>1. TranscriptTypes
  BY RoundsAssumption DEF TranscriptInit, TranscriptTypes, Stage
<1>2. CallsHold
  BY DEF TranscriptInit, CallsHold
<1>3. RoundsHold
  BY DEF TranscriptInit, RoundsHold, Paired
<1> QED BY <1>1, <1>2, <1>3 DEF TranscriptInv

LEMMA ContextKeepsRounds ==
  ASSUME TranscriptInv, ContextReturns
  PROVE  TranscriptInv'
<1>1. PICK cost \in DigestCost : messages' = <<[kind |-> "digest", ids |-> << >>, cost |-> cost]>>
  BY DEF ContextReturns
<1> DEFINE m == [kind |-> "digest", ids |-> << >>, cost |-> cost]
<1>2. m \in Message /\ m.kind = "digest"
  <2>1. cost \in Nat
    BY ToolAssumption
  <2> QED BY <2>1 DEF Message
<1> HIDE DEF m
<1>3. messages' \in Seq(Message) /\ Len(messages') = 1 /\ messages'[1] = m
  <2>1. messages' = <<m>>
    BY <1>1 DEF m
  <2> QED BY <2>1, <1>2
<1>4. TranscriptTypes'
  BY <1>3 DEF TranscriptInv, TranscriptTypes, ContextReturns, call, Stage
<1>5. CallsHold'
  BY DEF TranscriptInv, CallsHold, ContextReturns, tools
<1>6. RoundsHold'
  BY <1>2, <1>3 DEF RoundsHold, Paired, ContextReturns
<1> QED BY <1>4, <1>5, <1>6 DEF TranscriptInv

\* A step that leaves the conversation and the calls as they are.
LEMMA QuietKeepsRounds ==
  ASSUME TranscriptInv, UNCHANGED <<allowed, messages, tools>>,
         rounds' \in 0..MaxRounds, attempt' \in 0..MaxRetries, stage' \in Stage,
         stage' \in {"calling", "tools"} => rounds' >= 1,
         stage' # "context",
         stage' \in {"round", "calling", "tools"} => Len(messages) >= 1
  PROVE  TranscriptInv'
<1>1. TranscriptTypes'
  BY DEF TranscriptInv, TranscriptTypes
<1>2. CallsHold'
  BY DEF TranscriptInv, CallsHold, tools
<1>3. RoundsHold'
  BY DEF TranscriptInv, RoundsHold, Paired
<1> QED BY <1>1, <1>2, <1>3 DEF TranscriptInv

LEMMA CallingKeepsRounds ==
  ASSUME TranscriptInv,
         ContextFails \/ BeginRound \/ RoundCap \/ CallFails \/ BudgetExceeded
  PROVE  TranscriptInv'
<1>1. /\ rounds \in 0..MaxRounds /\ attempt \in 0..MaxRetries
      /\ MaxRounds \in Nat /\ MaxRetries \in Nat
      /\ stage \in {"calling", "tools"} => rounds >= 1
      /\ stage \in {"round", "calling", "tools"} => Len(messages) >= 1
  BY RoundsAssumption DEF TranscriptInv, TranscriptTypes, RoundsHold
<1>2. CASE ContextFails \/ RoundCap \/ BudgetExceeded
  BY <1>1, <1>2, QuietKeepsRounds DEF ContextFails, RoundCap, BudgetExceeded, call, Stage
<1>3. CASE BeginRound
  <2>1. rounds' \in 0..MaxRounds /\ rounds' >= 1 /\ attempt' \in 0..MaxRetries
    BY <1>1, <1>3 DEF BeginRound
  <2> QED BY <2>1, <1>1, <1>3, QuietKeepsRounds DEF BeginRound, Stage
<1>4. CASE CallFails
  <2>1. attempt' \in 0..MaxRetries
    BY <1>1, <1>4 DEF CallFails
  <2> QED BY <2>1, <1>1, <1>4, QuietKeepsRounds DEF CallFails, Stage
<1> QED BY <1>2, <1>3, <1>4

LEMMA AnswerKeepsRounds ==
  ASSUME TranscriptInv, NEW answer \in Answer, CallReturns(answer)
  PROVE  TranscriptInv'
<1>1. stage = "calling" /\ rounds \in 1..MaxRounds
  BY RoundsAssumption DEF CallReturns, TranscriptInv, TranscriptTypes, RoundsHold
<1>2. TranscriptTypes'
  BY DEF TranscriptInv, TranscriptTypes, CallReturns, call, Stage
<1>3. CallsHold'
  <2>1. CASE StopReason(answer.finish_reason) = "tool_use"
    <3>1. uses' = ToolUses(answer.calls) /\ results' = [i \in DOMAIN uses' |-> Running]
      BY <2>1 DEF CallReturns
    <3>2. answer.calls \in Seq(Call)
      BY AnswerAssumption
    <3>3. uses' \in Seq(Use)
      BY <1>1, <3>1, <3>2, ToolUsesType
    <3>4. PICK N \in Nat : N = Len(uses') /\ DOMAIN uses' = 1..N
      BY <3>3
    <3>5. results' \in [1..N -> Nat]
      BY <3>1, <3>4 DEF Running
    <3>6. results' \in Seq(Nat) /\ Len(results') = N
      BY <3>5
    <3> QED BY <3>3, <3>4, <3>6 DEF CallsHold
  <2>2. CASE StopReason(answer.finish_reason) # "tool_use"
    BY <2>2 DEF TranscriptInv, CallsHold, CallReturns
  <2> QED BY <2>1, <2>2
<1>4. RoundsHold'
  <2>1. Len(messages) >= 1 /\ messages' = messages /\ rounds' = rounds
        /\ stage' \in {"tools", "stop"}
    BY <1>1 DEF TranscriptInv, RoundsHold, CallReturns, call
  <2> QED BY <1>1, <2>1 DEF TranscriptInv, RoundsHold, Paired
<1> QED BY <1>2, <1>3, <1>4 DEF TranscriptInv

LEMMA ResultKeepsRounds ==
  ASSUME TranscriptInv, NEW i \in DOMAIN results,
         \/ Refuse(i) \/ RunTool(i) \/ TimesOut(i)
         \/ SearchReturns(i) \/ SearchRefused(i) \/ FileReturns(i) \/ FileFails(i)
  PROVE  TranscriptInv'
<1>1. PICK cost \in Nat : Return(i, cost)
  <2>1. /\ SearchCost \subseteq Nat /\ ToolCost \subseteq Nat /\ FileCost \subseteq Nat
        /\ MaxFileCost \in Nat /\ ErrorCost \in Nat
    BY ToolAssumption DEF ErrorCost
  <2>2. CASE FileReturns(i)
    <3>1. PICK cost \in FileCost :
             Return(i, IF cost > MaxFileCost THEN MaxFileCost ELSE cost)
      BY <2>2 DEF FileReturns
    <3>2. (IF cost > MaxFileCost THEN MaxFileCost ELSE cost) \in Nat
      BY <2>1
    <3> QED BY <3>1, <3>2
  <2>3. CASE RunTool(i)
    BY <2>1, <2>3 DEF RunTool
  <2>4. CASE SearchReturns(i)
    BY <2>1, <2>4 DEF SearchReturns
  <2>5. CASE Refuse(i) \/ TimesOut(i) \/ SearchRefused(i) \/ FileFails(i)
    BY <2>1, <2>5 DEF Refuse, TimesOut, SearchRefused, FileFails
  <2> QED BY <2>2, <2>3, <2>4, <2>5
<1>2. /\ results' = [results EXCEPT ![i] = cost]
      /\ UNCHANGED <<stage, allowed, rounds, attempt, messages, uses>>
  BY <1>1 DEF Return, call
<1>3. results \in Seq(Nat) /\ i \in 1..Len(results) /\ Len(results) = Len(uses)
      /\ uses \in Seq(Use)
  BY DEF TranscriptInv, CallsHold
<1>4. results' \in Seq(Nat) /\ Len(results') = Len(results)
  BY <1>2, <1>3, ExceptSeq
<1>5. CallsHold'
  BY <1>2, <1>3, <1>4 DEF CallsHold
<1>6. TranscriptTypes'
  BY <1>2 DEF TranscriptInv, TranscriptTypes
<1>7. RoundsHold'
  BY <1>2 DEF TranscriptInv, RoundsHold, Paired
<1> QED BY <1>5, <1>6, <1>7 DEF TranscriptInv

LEMMA ExchangeIs ==
  ASSUME uses \in Seq(Use), NEW total \in Nat
  PROVE  /\ Exchange(total) \in Seq(Message) /\ Len(Exchange(total)) = 2
         /\ Exchange(total)[1].kind = "assistant" /\ Exchange(total)[2].kind = "results"
         /\ Exchange(total)[1].ids = Exchange(total)[2].ids
<1>1. PICK N \in Nat : N = Len(uses) /\ DOMAIN uses = 1..N
  OBVIOUS
<1> DEFINE ids == [i \in DOMAIN uses |-> uses[i].id]
           asks == [kind |-> "assistant", ids |-> ids, cost |-> 1]
           answers == [kind |-> "results", ids |-> ids, cost |-> total]
<1>2. ids \in Seq(Id)
  <2>1. \A i \in 1..N : uses[i].id \in Id
    <3> TAKE i \in 1..N
    <3>1. uses[i] \in Use
      BY <1>1
    <3> QED BY <3>1 DEF Use
  <2>2. ids \in [1..N -> Id]
    BY <1>1, <2>1
  <2> QED BY <2>2
<1> HIDE DEF ids
<1>3. asks \in Message /\ answers \in Message
  BY <1>2 DEF Message
<1>4. asks.kind = "assistant" /\ answers.kind = "results" /\ asks.ids = answers.ids
  OBVIOUS
<1>5. Exchange(total) = <<asks, answers>>
  BY DEF Exchange, ids
<1> HIDE DEF asks, answers
<1> QED BY <1>3, <1>4, <1>5

LEMMA RoundEndKeepsRounds ==
  ASSUME TranscriptInv, RoundEnds
  PROVE  TranscriptInv'
<1>1. /\ uses \in Seq(Use) /\ results \in Seq(Nat) /\ messages \in Seq(Message)
      /\ stage = "tools" /\ stage' = "round" /\ rounds >= 1
      /\ Len(messages) >= 1 /\ messages[1].kind = "digest" /\ Paired(messages)
  BY DEF TranscriptInv, TranscriptTypes, CallsHold, RoundsHold, RoundEnds
<1> DEFINE add == Exchange(Sum(results))
<1>2. /\ add \in Seq(Message) /\ Len(add) = 2
      /\ add[1].kind = "assistant" /\ add[2].kind = "results" /\ add[1].ids = add[2].ids
  BY <1>1, SumType, ExchangeIs
<1>3. messages' = messages \o add
  BY DEF RoundEnds
<1> HIDE DEF add
<1>4. PICK L \in Nat : L = Len(messages) /\ L >= 1
  BY <1>1
<1>5. /\ messages' \in Seq(Message) /\ Len(messages') = L + 2
      /\ \A k \in 1..(L + 2) : messages'[k] = IF k <= L THEN messages[k] ELSE add[k - L]
  <2>1. /\ messages \o add \in Seq(Message)
        /\ Len(messages \o add) = Len(messages) + Len(add)
        /\ \A k \in 1..(Len(messages) + Len(add)) :
              (messages \o add)[k] =
                 IF k <= Len(messages) THEN messages[k] ELSE add[k - Len(messages)]
    BY <1>1, <1>2, ConcatProperties
  <2> QED BY <2>1, <1>2, <1>3, <1>4
<1>6. /\ \A k \in 1..L : messages'[k] = messages[k]
      /\ messages'[L + 1] = add[1] /\ messages'[L + 2] = add[2]
  <2>1. \A k \in 1..L : k \in 1..(L + 2) /\ k <= L
    OBVIOUS
  <2>2. /\ L + 1 \in 1..(L + 2) /\ ~(L + 1 <= L) /\ (L + 1) - L = 1
        /\ L + 2 \in 1..(L + 2) /\ ~(L + 2 <= L) /\ (L + 2) - L = 2
    OBVIOUS
  <2> QED BY <2>1, <2>2, <1>5
<1>7. \A k \in 1..L :
         /\ messages[k].kind = "assistant" =>
               k < L /\ messages[k + 1].kind = "results" /\ messages[k + 1].ids = messages[k].ids
         /\ k > 1 /\ messages[k].kind = "results" =>
               messages[k - 1].kind = "assistant" /\ messages[k - 1].ids = messages[k].ids
         /\ k > 1 => messages[k].kind # "digest"
  BY <1>1, <1>4 DEF Paired
<1>8. ASSUME NEW k \in 1..(L + 2)
      PROVE  /\ messages'[k].kind = "assistant" =>
                   /\ k < L + 2 /\ messages'[k + 1].kind = "results"
                   /\ messages'[k + 1].ids = messages'[k].ids
             /\ k > 1 /\ messages'[k].kind = "results" =>
                   messages'[k - 1].kind = "assistant" /\ messages'[k - 1].ids = messages'[k].ids
             /\ k > 1 => messages'[k].kind # "digest"
  <2>1. CASE k \in 1..L
    <3>1. messages'[k] = messages[k]
      BY <2>1, <1>6
    <3>2. k < L => messages'[k + 1] = messages[k + 1]
      BY <2>1, <1>6
    <3>3. k > 1 => messages'[k - 1] = messages[k - 1]
      BY <2>1, <1>6
    <3> QED BY <2>1, <3>1, <3>2, <3>3, <1>7
  <2>2. CASE k = L + 1
    <3>1. k + 1 = L + 2 /\ k < L + 2
      BY <2>2
    <3> QED BY <2>2, <3>1, <1>2, <1>6
  <2>3. CASE k = L + 2
    <3>1. k - 1 = L + 1
      BY <2>3
    <3> QED BY <2>3, <3>1, <1>2, <1>6
  <2> QED BY <2>1, <2>2, <2>3
<1>9. TranscriptTypes'
  BY <1>5 DEF TranscriptInv, TranscriptTypes, RoundEnds, call, Stage
<1>10. CallsHold'
  BY DEF RoundEnds, CallsHold
<1>11. Paired(messages)'
  BY <1>5, <1>8 DEF Paired
<1>12. RoundsHold'
  <2>1. Len(messages') >= 1 /\ messages'[1].kind = "digest"
    <3>1. 1 \in 1..L
      BY <1>4
    <3> QED BY <3>1, <1>1, <1>5, <1>6
  <2> QED BY <2>1, <1>1, <1>11 DEF RoundsHold
<1> QED BY <1>9, <1>10, <1>12 DEF TranscriptInv

LEMMA TranscriptStep ==
  TranscriptInv /\ [TranscriptNext]_transcriptVars => TranscriptInv'
<1> SUFFICES ASSUME TranscriptInv, [TranscriptNext]_transcriptVars PROVE TranscriptInv'
  OBVIOUS
<1>1. CASE ContextReturns
  BY <1>1, ContextKeepsRounds
<1>2. CASE ContextFails \/ BeginRound \/ RoundCap \/ CallFails \/ BudgetExceeded
  BY <1>2, CallingKeepsRounds
<1>3. CASE \E answer \in Answer : CallReturns(answer)
  BY <1>3, AnswerKeepsRounds
<1>4. CASE \E i \in DOMAIN results :
              \/ Refuse(i) \/ RunTool(i) \/ TimesOut(i)
              \/ SearchReturns(i) \/ SearchRefused(i) \/ FileReturns(i) \/ FileFails(i)
  BY <1>4, ResultKeepsRounds
<1>5. CASE RoundEnds
  BY <1>5, RoundEndKeepsRounds
<1>6. CASE UNCHANGED transcriptVars
  <2>1. UNCHANGED <<stage, allowed, rounds, attempt, messages, uses, results>>
    BY <1>6 DEF transcriptVars, call, tools
  <2> QED BY <2>1 DEF TranscriptInv, TranscriptTypes, CallsHold, RoundsHold, Paired
<1> QED BY <1>1, <1>2, <1>3, <1>4, <1>5, <1>6 DEF TranscriptNext

LEMMA TranscriptSafe == TranscriptSpec => []TranscriptInv
BY TranscriptStarts, TranscriptStep, PTL DEF TranscriptSpec

THEOREM TranscriptTypeCorrect == TranscriptSpec => []TranscriptTypeOK
<1>1. TranscriptInv => TranscriptTypeOK
  BY DEF TranscriptInv, TranscriptTypes, CallsHold, TranscriptTypeOK
<1> QED BY <1>1, TranscriptSafe, PTL

THEOREM LongestEndCorrect == TranscriptSpec => []SendsLongestEnd
<1>1. TranscriptInv => SendsLongestEnd
  <2> SUFFICES ASSUME messages \in Seq(Message) PROVE SendsLongestEnd
    BY DEF TranscriptInv, TranscriptTypes
  <2> QED BY TrimmedIs DEF SendsLongestEnd
<1> QED BY <1>1, TranscriptSafe, PTL

LEMMA SentPairs ==
  ASSUME TranscriptInv, stage = "calling"
  PROVE  /\ Sent \in Seq(WireMessage)
         /\ \A k \in 1..Len(Sent) :
               /\ Sent[k].role = "assistant" => Answered(Sent, k)
               /\ Sent[k].role = "tool" =>
                     \/ Asked(Sent, k)
                     \/ /\ Total(messages) > TokenBudget
                        /\ \A j \in 2..k : Sent[j].role = "tool"
<1>1. /\ messages \in Seq(Message) /\ Paired(messages)
      /\ Len(messages) >= 1 /\ messages[1].kind = "digest"
  BY DEF TranscriptInv, TranscriptTypes, RoundsHold
<1>2. PICK N \in Nat : N = Len(messages)
  BY <1>1
<1>3. PICK kept \in 0..N :
         /\ Trimmed(messages) = LastOf(messages, kept) /\ Len(Trimmed(messages)) = kept
         /\ \A n \in (kept + 1)..N : Total(LastOf(messages, n)) > TokenBudget
  BY <1>1, <1>2, TrimmedIs
<1> DEFINE T == Trimmed(messages)
<1>4. /\ T \in Seq(Message) /\ Paired(T)
      /\ \A i \in 1..kept : T[i] = messages[N - kept + i]
  BY <1>1, <1>2, <1>3, LastOfIs, EndIsPaired
<1>5. Len(T) > 0 /\ T[1].kind = "results" => Total(messages) > TokenBudget
  <2>1. SUFFICES ASSUME kept > 0, T[1].kind = "results" PROVE Total(messages) > TokenBudget
    BY <1>3
  <2>2. T[1] = messages[N - kept + 1]
    BY <2>1, <1>4
  <2>3. kept # N
    <3>1. SUFFICES ASSUME kept = N PROVE FALSE
      OBVIOUS
    <3>2. N - kept + 1 = 1
      BY <3>1
    <3> QED BY <2>1, <2>2, <3>2, <1>1
  <2>4. N \in (kept + 1)..N
    BY <2>3
  <2>5. LastOf(messages, N) = messages
    <3>1. N - N + 1 = 1
      OBVIOUS
    <3> QED BY <3>1, <1>1, <1>2, SubSeqFull DEF LastOf
  <2> QED BY <2>4, <2>5, <1>3
<1> HIDE DEF T
<1>6. Sent = Wire(T)
  BY DEF Sent, T
<1> QED BY <1>4, <1>5, <1>6, WirePairs

THEOREM ResultsCorrect == TranscriptSpec => []ResultsFollowCalls
<1>1. ASSUME TranscriptInv, stage = "calling", NEW w, w = Sent, NEW k \in DOMAIN w
      PROVE  /\ w[k].role = "assistant" =>
                   \A i \in DOMAIN w[k].ids :
                      /\ k + i \in DOMAIN w
                      /\ w[k + i] = [role |-> "tool", ids |-> <<w[k].ids[i]>>]
             /\ w[k].role = "tool" =>
                   \/ \E a \in 1..(k - 1) :
                        /\ w[a].role = "assistant"
                        /\ k - a \in DOMAIN w[a].ids
                        /\ w[a].ids[k - a] = w[k].ids[1]
                   \/ /\ Total(messages) > TokenBudget
                      /\ \A j \in 2..k : w[j].role = "tool"
  <2>1. w \in Seq(WireMessage)
    BY <1>1, SentPairs
  <2>2. PICK N \in Nat : N = Len(w) /\ DOMAIN w = 1..N
    BY <2>1
  <2>3. \A a \in 1..N : w[a].ids \in Seq(Id) /\ DOMAIN w[a].ids = 1..Len(w[a].ids)
    <3> TAKE a \in 1..N
    <3>1. w[a] \in WireMessage
      BY <2>1, <2>2
    <3>2. w[a].ids \in Seq(Id)
      BY <3>1 DEF WireMessage
    <3> QED BY <3>2
  <2>4. /\ w[k].role = "assistant" => Answered(w, k)
        /\ w[k].role = "tool" =>
              Asked(w, k) \/ (Total(messages) > TokenBudget /\ \A j \in 2..k : w[j].role = "tool")
    BY <1>1, <2>2, SentPairs
  <2>5. Answered(w, k) =>
           \A i \in DOMAIN w[k].ids :
              k + i \in DOMAIN w /\ w[k + i] = [role |-> "tool", ids |-> <<w[k].ids[i]>>]
    BY <1>1, <2>2, <2>3 DEF Answered
  <2>6. Asked(w, k) =>
           \E a \in 1..(k - 1) :
              w[a].role = "assistant" /\ k - a \in DOMAIN w[a].ids
              /\ w[a].ids[k - a] = w[k].ids[1]
    <3>1. SUFFICES ASSUME Asked(w, k)
                   PROVE  \E a \in 1..(k - 1) :
                             w[a].role = "assistant" /\ k - a \in DOMAIN w[a].ids
                             /\ w[a].ids[k - a] = w[k].ids[1]
      OBVIOUS
    <3>2. PICK a \in 1..(k - 1) :
             w[a].role = "assistant" /\ k - a \in 1..Len(w[a].ids)
             /\ w[a].ids[k - a] = w[k].ids[1]
      BY <3>1 DEF Asked
    <3>3. a \in 1..N
      BY <1>1, <2>2
    <3> QED BY <3>2, <3>3, <2>3
  <2> QED BY <2>4, <2>5, <2>6
<1>2. TranscriptInv => ResultsFollowCalls
  BY <1>1 DEF ResultsFollowCalls
<1> QED BY <1>2, TranscriptSafe, PTL
===================================================================================
