-------------------------- MODULE AgenticLoopProofs --------------------------
(***************************************************************************)
(* Proofs about AgenticLoop: the types of the scheduler's variables; that  *)
(* inFlight, the thinking snapshot and the wake contexts always have a run *)
(* behind them; and that the scheduler implements WakeChain and Budget.    *)
(* With them the bounds on wakes and spend hold of the scheduler itself.   *)
(* For every team, every number of concurrent runs and every set of        *)
(* approvals.                                                              *)
(***************************************************************************)
EXTENDS AgenticLoop, FiniteSetTheorems, TLAPS

\* The report slot never waits at the approval gate.
ReportsSkipGate == \A a \in AI : run[a][0].pc \notin Waiting

\* ThinkingHasCycle, without the await before ai:thinking is announced: the
\* end of a run that was not announced must leave a witness behind.
Shown == InCycle \ {"lookup"}
ThinkingIsShown == \A a \in thinking : \E k \in Slot : run[a][k].pc \in Shown

LoopInv ==
    /\ SchedulerTypeOK
    /\ ReportsSkipGate
    /\ InFlightHasCycle
    /\ ThinkingIsShown
    /\ GrantedRunsOnly

RunTable == [AI -> [Slot -> RunState]]

-----------------------------------------------------------------------------
(***************************************************************************)
(* The three ways a step changes the table of runs                         *)
(***************************************************************************)

\* One entry of the table is replaced.
LEMMA ReplaceRun ==
    ASSUME NEW r \in RunTable, NEW a \in AI, NEW k \in Slot, NEW s \in RunState
    PROVE  LET q == [r EXCEPT ![a][k] = s]
           IN  /\ q \in RunTable
               /\ q[a][k] = s
               /\ \A b \in AI, j \in Slot : (b # a \/ j # k) => q[b][j] = r[b][j]
BY DEF RunTable

\* GoesTo moves one run on and keeps its wake context.
LEMMA GoesToRuns ==
    ASSUME run \in RunTable, NEW a \in AI, NEW k \in Slot,
           NEW pc \in {"idle"} \cup Waiting \cup InCycle,
           NEW round \in 0..MaxRounds, NEW todo \in SUBSET Tool
    PROVE  LET q == GoesTo(a, k, pc, round, todo)
           IN  /\ q \in RunTable
               /\ q[a][k].pc = pc
               /\ q[a][k].chain = run[a][k].chain
               /\ \A b \in AI, j \in Slot : (b # a \/ j # k) => q[b][j] = run[b][j]
<1> DEFINE s == [pc |-> pc, chain |-> run[a][k].chain, hop |-> run[a][k].hop,
                 round |-> round, todo |-> todo, seen |-> run[a][k].seen]
<1>1. run[a][k] \in RunState
  BY DEF RunTable
<1>2. s \in RunState
  BY <1>1 DEF RunState
<1>3. GoesTo(a, k, pc, round, todo) = [run EXCEPT ![a][k] = s]
  BY DEF GoesTo, RunTable
<1>4. s.pc = pc /\ s.chain = run[a][k].chain
  OBVIOUS
<1> HIDE DEF s
<1>5. LET q == [run EXCEPT ![a][k] = s]
      IN  /\ q \in RunTable
          /\ q[a][k] = s
          /\ \A b \in AI, j \in Slot : (b # a \/ j # k) => q[b][j] = run[b][j]
  BY <1>2, ReplaceRun
<1> QED BY <1>3, <1>4, <1>5

\* The idle entry has the type of an entry.
LEMMA IdleType == Idle \in RunState
BY LoopConstants DEF Idle, RunState

\* Ended frees one run.
LEMMA EndedRuns ==
    ASSUME run \in RunTable, NEW a \in AI, NEW k \in Slot
    PROVE  LET q == Ended(a, k)
           IN  /\ q \in RunTable
               /\ q[a][k].pc = "idle"
               /\ q[a][k].chain = NoChain
               /\ \A b \in AI, j \in Slot : (b # a \/ j # k) => q[b][j] = run[b][j]
<1>1. Idle.pc = "idle" /\ Idle.chain = NoChain
  BY DEF Idle
<1> QED BY <1>1, IdleType, ReplaceRun DEF Ended

\* RunForAI puts a new run with the wake's chain into idle slots, never into
\* the report slot, and leaves every other entry of r as it is.
LEMMA RunForAIRuns ==
    ASSUME run \in RunTable, NEW r \in RunTable, NEW S \in SUBSET AI, HasRoom(S),
           NEW wake, wake.chain \in Chain \cup {NoChain}, wake.hop \in Nat
    PROVE  LET q == RunForAI(S, wake, r)
           IN  /\ q \in RunTable
               /\ \A b \in AI, j \in Slot :
                    \/ q[b][j] = r[b][j]
                    \/ /\ j # 0 /\ run[b][j].pc = "idle"
                       /\ q[b][j].pc = "query"
                       /\ q[b][j].chain = wake.chain
<1> DEFINE s(b) == [pc |-> "query", chain |-> wake.chain, hop |-> wake.hop,
                    round |-> 0, todo |-> {}, seen |-> Pending(b)]
           q == RunForAI(S, wake, r)
<1>1. \A b \in AI : s(b) \in RunState
  BY LoopConstants DEF RunState, Waiting, Pending
<1>2. \A b \in Called(S) : /\ FreeSlot(b) \in 1..MaxRuns
                           /\ run[b][FreeSlot(b)].pc = "idle"
  BY DEF HasRoom, FreeSlot, FreeSlots
<1>3. \A b \in AI : FreeSlot(b) \in 1..MaxRuns => FreeSlot(b) \in Slot /\ FreeSlot(b) # 0
  BY LoopConstants DEF Slot
<1>4. \A b \in AI : q[b] = IF b \in Called(S)
                           THEN [r[b] EXCEPT ![FreeSlot(b)] = s(b)] ELSE r[b]
  BY DEF RunForAI
<1>5. \A b \in AI : r[b] \in [Slot -> RunState]
  BY DEF RunTable
<1>6. \A b \in AI : q[b] \in [Slot -> RunState]
  BY <1>1, <1>2, <1>3, <1>4, <1>5
<1>7. q \in RunTable
  BY <1>6 DEF RunForAI, RunTable
<1>8. ASSUME NEW b \in AI, NEW j \in Slot
      PROVE  \/ q[b][j] = r[b][j]
             \/ /\ j # 0 /\ run[b][j].pc = "idle"
                /\ q[b][j].pc = "query"
                /\ q[b][j].chain = wake.chain
  <2>1. CASE b \in Called(S) /\ j = FreeSlot(b)
    <3>1. q[b][j] = s(b)
      BY <1>1, <1>2, <1>3, <1>4, <1>5, <2>1
    <3>2. s(b).pc = "query" /\ s(b).chain = wake.chain
      OBVIOUS
    <3> QED BY <1>2, <1>3, <2>1, <3>1, <3>2
  <2>2. CASE ~(b \in Called(S) /\ j = FreeSlot(b))
    BY <1>4, <1>5, <2>2
  <2> QED BY <2>1, <2>2
<1> QED BY <1>7, <1>8

-----------------------------------------------------------------------------
(***************************************************************************)
(* How a step keeps the invariant                                          *)
(***************************************************************************)

\* A grant is final: no step takes APPROVED back.
GrantsStay == \A p \in Approval : approval[p].status = "APPROVED"
                                    => approval'[p].status = "APPROVED"

\* One run moves or ends.  What it leaves in inFlight and in thinking must
\* have a run behind it: itself, or another one that was not the witness.
LEMMA OneRunMoves ==
    ASSUME LoopInv, SchedulerTypeOK', GrantsStay, NEW a \in AI, NEW k \in Slot,
           \A b \in AI, j \in Slot : (b # a \/ j # k) => run'[b][j] = run[b][j],
           run'[a][k].chain = run[a][k].chain \/ run'[a][k].chain = NoChain,
           k = 0 => run'[a][k].pc \notin Waiting,
           inFlight' \subseteq inFlight \cup {a},
           thinking' \subseteq thinking \cup {a},
           a \in inFlight' => \/ k # 0 /\ run'[a][k].pc \in InCycle
                              \/ a \in inFlight /\ k = 0
                              \/ a \in inFlight /\ run[a][k].pc \notin InCycle,
           a \in thinking' => \/ run'[a][k].pc \in Shown
                              \/ a \in thinking /\ run[a][k].pc \notin Shown
    PROVE  LoopInv'
<1>1. ReportsSkipGate'
  BY LoopConstants DEF LoopInv, ReportsSkipGate, Slot
<1>2. InFlightHasCycle'
  <2> SUFFICES ASSUME NEW b \in inFlight'
               PROVE  \E j \in 1..MaxRuns : run'[b][j].pc \in InCycle
    BY DEF InFlightHasCycle
  <2>0. b \in AI /\ 1..MaxRuns \subseteq Slot /\ (k # 0 => k \in 1..MaxRuns)
    BY LoopConstants DEF SchedulerTypeOK, Slot
  <2>1. CASE b = a /\ k # 0 /\ run'[a][k].pc \in InCycle
    BY <2>0, <2>1
  <2>2. CASE b \in inFlight /\ (b = a => k = 0 \/ run[a][k].pc \notin InCycle)
    <3>1. PICK j \in 1..MaxRuns : run[b][j].pc \in InCycle
      BY <2>2 DEF LoopInv, InFlightHasCycle
    <3>2. j # 0
      BY LoopConstants
    <3>3. b # a \/ j # k
      BY <2>2, <3>1, <3>2
    <3> QED BY <2>0, <3>1, <3>3
  <2> QED BY <2>1, <2>2
<1>3. ThinkingIsShown'
  <2> SUFFICES ASSUME NEW b \in thinking'
               PROVE  \E j \in Slot : run'[b][j].pc \in Shown
    BY DEF ThinkingIsShown
  <2>0. b \in AI
    BY DEF SchedulerTypeOK
  <2>1. CASE b = a /\ run'[a][k].pc \in Shown
    BY <2>1
  <2>2. CASE b \in thinking /\ (b = a => run[a][k].pc \notin Shown)
    <3>1. PICK j \in Slot : run[b][j].pc \in Shown
      BY <2>2 DEF LoopInv, ThinkingIsShown
    <3>2. b # a \/ j # k
      BY <2>2, <3>1
    <3> QED BY <2>0, <3>1, <3>2
  <2> QED BY <2>1, <2>2
<1>4. GrantedRunsOnly'
  <2> SUFFICES ASSUME NEW b \in AI, NEW j \in Slot, run'[b][j].chain \in Approval
               PROVE  approval'[run'[b][j].chain].status = "APPROVED"
    BY DEF GrantedRunsOnly
  <2>1. run'[b][j].chain = run[b][j].chain
    BY LoopConstants
  <2> QED BY <2>1 DEF LoopInv, GrantedRunsOnly, GrantsStay
<1> QED BY <1>1, <1>2, <1>3, <1>4 DEF LoopInv

\* A run settles a tool call and new runs are called with a chain that is no
\* approval's or a granted one's.
LEMMA RunsAreCalled ==
    ASSUME LoopInv, SchedulerTypeOK', GrantsStay,
           inFlight' = inFlight, thinking' = thinking,
           NEW chain, chain \in Approval => approval'[chain].status = "APPROVED",
           \A b \in AI, j \in Slot :
              \/ /\ run'[b][j].pc = run[b][j].pc
                 /\ run'[b][j].chain = run[b][j].chain
              \/ /\ j # 0 /\ run[b][j].pc = "idle"
                 /\ run'[b][j].pc = "query" /\ run'[b][j].chain = chain
    PROVE  LoopInv'
<1>1. ReportsSkipGate'
  BY LoopConstants DEF LoopInv, ReportsSkipGate, Slot
<1>2. \A b \in AI, j \in Slot : run[b][j].pc \in InCycle => run'[b][j].pc = run[b][j].pc
  BY DEF InCycle
<1>3. InFlightHasCycle'
  <2>1. 1..MaxRuns \subseteq Slot /\ inFlight \subseteq AI
    BY LoopConstants DEF LoopInv, SchedulerTypeOK, Slot
  <2> QED BY <1>2, <2>1 DEF LoopInv, InFlightHasCycle
<1>4. ThinkingIsShown'
  <2>1. thinking \subseteq AI /\ Shown \subseteq InCycle
    BY DEF LoopInv, SchedulerTypeOK, Shown
  <2> QED BY <1>2, <2>1 DEF LoopInv, ThinkingIsShown
<1>5. GrantedRunsOnly'
  BY DEF LoopInv, GrantedRunsOnly, GrantsStay
<1> QED BY <1>1, <1>3, <1>4, <1>5 DEF LoopInv

-----------------------------------------------------------------------------
(***************************************************************************)
(* The steps                                                               *)
(***************************************************************************)

\* A run that ends with runCycle's finally.
LEMMA FinishKeeps ==
    ASSUME LoopInv, NEW a \in AI, NEW k \in Slot, FinishCycle(a, k),
           UNCHANGED <<table, switches>>
    PROVE  LoopInv'
<1>1. run \in RunTable
  BY DEF LoopInv, SchedulerTypeOK, RunTable
<1>2. /\ run' \in RunTable
      /\ run'[a][k].pc = "idle" /\ run'[a][k].chain = NoChain
      /\ \A b \in AI, j \in Slot : (b # a \/ j # k) => run'[b][j] = run[b][j]
  BY <1>1, EndedRuns DEF FinishCycle
<1>3. SchedulerTypeOK'
  BY <1>2 DEF LoopInv, SchedulerTypeOK, RunTable, FinishCycle, MarkThinking, Released, table, switches
<1>4. a \in inFlight' => a \in inFlight /\ k = 0
  BY DEF FinishCycle, MarkThinking, Released
<1>5. a \notin thinking' /\ thinking' \subseteq thinking \cup {a}
  BY DEF FinishCycle, MarkThinking
<1>6. inFlight' \subseteq inFlight \cup {a}
  BY DEF FinishCycle, MarkThinking, Released
<1>7. GrantsStay
  BY DEF GrantsStay, table
<1>8. run'[a][k].pc \notin Waiting
  BY <1>2 DEF Waiting
<1> QED BY <1>2, <1>3, <1>4, <1>5, <1>6, <1>7, <1>8, OneRunMoves

\* A run that ends before it announced anything: at the gate, or at the read
\* of the AI's row.
LEMMA EndKeeps ==
    ASSUME LoopInv, NEW a \in AI, NEW k \in Slot,
           run[a][k].pc \in Waiting \cup {"lookup"}, run' = Ended(a, k),
           \/ run[a][k].pc \in Waiting /\ inFlight' = inFlight
           \/ inFlight' = Released(a, k),
           UNCHANGED <<thinking, table, switches>>
    PROVE  LoopInv'
<1>1. run \in RunTable
  BY DEF LoopInv, SchedulerTypeOK, RunTable
<1>2. /\ run' \in RunTable
      /\ run'[a][k].pc = "idle" /\ run'[a][k].chain = NoChain
      /\ \A b \in AI, j \in Slot : (b # a \/ j # k) => run'[b][j] = run[b][j]
  BY <1>1, EndedRuns
<1>3. inFlight' \subseteq inFlight
  BY DEF Released
<1>4. SchedulerTypeOK'
  BY <1>2, <1>3 DEF LoopInv, SchedulerTypeOK, RunTable, table, switches
<1>5. a \in inFlight' => \/ a \in inFlight /\ k = 0
                         \/ a \in inFlight /\ run[a][k].pc \notin InCycle
  BY DEF Released, Waiting, InCycle
<1>6. a \in thinking' => a \in thinking /\ run[a][k].pc \notin Shown
  BY DEF Waiting, Shown, InCycle
<1>7. GrantsStay
  BY DEF GrantsStay, table
<1>8. run'[a][k].pc \notin Waiting
  BY <1>2 DEF Waiting
<1> QED BY <1>2, <1>3, <1>4, <1>5, <1>6, <1>7, <1>8, OneRunMoves

\* A cycle goes on to another of its awaits.
LEMMA GoesOnKeeps ==
    ASSUME LoopInv, NEW a \in AI, NEW k \in Slot,
           run[a][k].pc \in InCycle, NEW pc \in Shown,
           NEW round \in 0..MaxRounds, NEW todo \in SUBSET Tool,
           run' = GoesTo(a, k, pc, round, todo),
           inFlight' = inFlight, thinking' = thinking,
           approval' \in [Approval -> ApprovalRow], GrantsStay,
           UNCHANGED <<deciding, switches>>
    PROVE  LoopInv'
<1>1. run \in RunTable
  BY DEF LoopInv, SchedulerTypeOK, RunTable
<1>2. pc \in {"idle"} \cup Waiting \cup InCycle
  BY DEF Shown
<1>3. /\ run' \in RunTable
      /\ run'[a][k].pc = pc /\ run'[a][k].chain = run[a][k].chain
      /\ \A b \in AI, j \in Slot : (b # a \/ j # k) => run'[b][j] = run[b][j]
  BY <1>1, <1>2, GoesToRuns
<1>4. SchedulerTypeOK'
  BY <1>3 DEF LoopInv, SchedulerTypeOK, RunTable, switches
<1>5. run'[a][k].pc \in Shown /\ run'[a][k].pc \in InCycle /\ run'[a][k].pc \notin Waiting
  BY <1>3 DEF Shown, InCycle, Waiting
<1> QED BY <1>3, <1>4, <1>5, OneRunMoves

\* Events and ticks call runs; the other runs only settle tool calls.
LEMMA CallsKeep ==
    ASSUME LoopInv, NEW r \in RunTable,
           \A b \in AI, j \in Slot : r[b][j].pc = run[b][j].pc /\ r[b][j].chain = run[b][j].chain,
           NEW S \in SUBSET AI, HasRoom(S),
           NEW wake, wake.chain \in Chain \cup {NoChain}, wake.hop \in Nat,
           wake.chain \in Approval => approval[wake.chain].status = "APPROVED",
           run' = RunForAI(S, wake, r),
           UNCHANGED <<scheduling, approval, loopOn>>,
           deciding' \subseteq Approval, ticking' \in BOOLEAN
    PROVE  LoopInv'
<1>1. run \in RunTable
  BY DEF LoopInv, SchedulerTypeOK, RunTable
<1>2. /\ run' \in RunTable
      /\ \A b \in AI, j \in Slot :
           \/ run'[b][j] = r[b][j]
           \/ /\ j # 0 /\ run[b][j].pc = "idle"
              /\ run'[b][j].pc = "query"
              /\ run'[b][j].chain = wake.chain
  BY <1>1, RunForAIRuns
<1>3. inFlight' = inFlight /\ thinking' = thinking /\ approval' = approval
  BY DEF scheduling
<1>4. SchedulerTypeOK'
  BY <1>2, <1>3 DEF LoopInv, SchedulerTypeOK, RunTable
<1>5. GrantsStay
  BY <1>3 DEF GrantsStay
<1>6. \A b \in AI, j \in Slot :
        \/ /\ run'[b][j].pc = run[b][j].pc
           /\ run'[b][j].chain = run[b][j].chain
        \/ /\ j # 0 /\ run[b][j].pc = "idle"
           /\ run'[b][j].pc = "query" /\ run'[b][j].chain = wake.chain
  BY <1>2
<1> QED BY <1>3, <1>4, <1>5, <1>6, RunsAreCalled

\* The table of runs and the two sets stay as they are.
LEMMA RestKeeps ==
    ASSUME LoopInv, UNCHANGED <<run, scheduling>>, GrantsStay,
           approval' \in [Approval -> ApprovalRow], deciding' \subseteq Approval,
           loopOn' \in BOOLEAN, ticking' \in BOOLEAN
    PROVE  LoopInv'
<1>1. SchedulerTypeOK'
  BY DEF LoopInv, SchedulerTypeOK, scheduling
<1>2. ReportsSkipGate' /\ InFlightHasCycle' /\ ThinkingIsShown'
  BY DEF LoopInv, ReportsSkipGate, InFlightHasCycle, ThinkingIsShown, scheduling
<1>3. GrantedRunsOnly'
  BY DEF LoopInv, GrantedRunsOnly, GrantsStay
<1> QED BY <1>1, <1>2, <1>3 DEF LoopInv

-----------------------------------------------------------------------------
\* A tool call only settles inside the tools await.
LEMMA ToolTypes ==
    ASSUME LoopInv, NEW a \in AI, NEW k \in Slot
    PROVE  /\ run[a][k] \in RunState
           /\ run[a][k].round \in 0..MaxRounds
           /\ run[a][k].todo \subseteq Tool
           /\ run[a][k].chain \in Chain \cup {NoChain}
           /\ run[a][k].hop \in Nat
BY DEF LoopInv, SchedulerTypeOK, RunState

\* The initial state has no runs and nobody in flight.
LEMMA LoopInvInit == Init => LoopInv
<1> SUFFICES ASSUME Init PROVE LoopInv
  OBVIOUS
<1>1. run \in [AI -> [Slot -> RunState]]
  BY IdleType DEF Init
<1>2. approval \in [Approval -> ApprovalRow]
  BY DEF Init, ApprovalRow
<1>3. SchedulerTypeOK
  BY <1>1, <1>2 DEF Init, SchedulerTypeOK
<1>4. \A a \in AI, k \in Slot : run[a][k].pc = "idle" /\ run[a][k].chain = NoChain
  BY DEF Init, Idle
<1>5. 0 \in Slot
  BY LoopConstants DEF Slot
<1>6. ReportsSkipGate /\ GrantedRunsOnly
  BY <1>4, <1>5, LoopConstants DEF ReportsSkipGate, GrantedRunsOnly, Waiting
<1>7. InFlightHasCycle /\ ThinkingIsShown
  BY DEF Init, InFlightHasCycle, ThinkingIsShown
<1> QED BY <1>3, <1>6, <1>7 DEF LoopInv

\* Mentions, ticks and reports.
LEMMA StartsKeep ==
    ASSUME LoopInv,
           \/ \E m \in Message, S \in (SUBSET AI) \ {{}} : Mention(m, S)
           \/ TimerFires \/ TickReturns \/ TickFails
           \/ \E a \in Reporter : StartReport(a)
    PROVE  LoopInv'
<1>0. run \in RunTable
  BY DEF LoopInv, SchedulerTypeOK, RunTable
<1>1. ASSUME NEW m \in Message, NEW S \in SUBSET AI, Mention(m, S)
      PROVE  LoopInv'
  <2>1. PICK admitted \in SUBSET S : run' = RunForAI(admitted, W!StartHumanChain(m), run)
    BY <1>1 DEF Mention
  <2>2. HasRoom(admitted)
    BY <1>1, <2>1 DEF Mention, HasRoom, Called
  <2>3. W!StartHumanChain(m).chain = m /\ W!StartHumanChain(m).hop = 0
    BY DEF W!StartHumanChain
  <2>4. m \in Chain \cup {NoChain} /\ m \notin Approval
    BY LoopConstants DEF Chain
  <2>5. /\ UNCHANGED <<scheduling, approval, loopOn>>
        /\ deciding' \subseteq Approval /\ ticking' \in BOOLEAN
    BY <1>1 DEF Mention, LoopInv, SchedulerTypeOK, table, switches
  <2> QED BY <1>0, <2>1, <2>2, <2>3, <2>4, <2>5, CallsKeep
<1>2. CASE TimerFires \/ TickFails
  <2>1. /\ UNCHANGED <<run, scheduling>>
        /\ approval' = approval /\ deciding' = deciding /\ loopOn' = loopOn
        /\ ticking' \in BOOLEAN
    BY <1>2 DEF TimerFires, TickFails, table
  <2> QED BY <2>1, RestKeeps DEF GrantsStay, LoopInv, SchedulerTypeOK
<1>3. CASE TickReturns
  <2>1. NoWake.chain = NoChain /\ NoWake.hop = 0 /\ NoChain \notin Approval
    BY LoopConstants DEF NoWake
  <2>2. /\ UNCHANGED <<scheduling, approval, loopOn>>
        /\ deciding' \subseteq Approval /\ ticking' \in BOOLEAN
        /\ HasRoom(AI) /\ run' = RunForAI(AI, NoWake, run)
    BY <1>3 DEF TickReturns, LoopInv, SchedulerTypeOK, table
  <2> QED BY <1>0, <2>1, <2>2, CallsKeep
<1>4. ASSUME NEW a \in Reporter, StartReport(a) PROVE LoopInv'
  <2>0. a \in AI /\ 0 \in Slot /\ 0 \in 0..MaxRounds
    BY LoopConstants DEF Slot
  <2>1. CASE run' = run
    BY <1>4, <2>1, RestKeeps
       DEF StartReport, GrantsStay, LoopInv, SchedulerTypeOK, table, switches
  <2>2. CASE run' = GoesTo(a, 0, "lookup", 0, {})
    <3>1. /\ run' \in RunTable
          /\ run'[a][0].pc = "lookup" /\ run'[a][0].chain = run[a][0].chain
          /\ \A b \in AI, j \in Slot : (b # a \/ j # 0) => run'[b][j] = run[b][j]
      BY <1>0, <2>0, <2>2, GoesToRuns DEF InCycle
    <3>2. inFlight' = inFlight /\ thinking' = thinking /\ approval' = approval
      BY <1>4 DEF StartReport, scheduling, table
    <3>3. SchedulerTypeOK'
      BY <1>4, <3>1, <3>2 DEF StartReport, LoopInv, SchedulerTypeOK, RunTable, table, switches
    <3>4. run[a][0].pc \notin Shown /\ run'[a][0].pc \notin Waiting
      BY <1>4, <3>1 DEF StartReport, Shown, InCycle, Waiting
    <3> QED BY <2>0, <3>1, <3>2, <3>3, <3>4, OneRunMoves DEF GrantsStay
  <2> QED BY <1>4, <2>1, <2>2 DEF StartReport
<1> QED BY <1>1, <1>2, <1>3, <1>4

\* The gate and the cycle of one run.
LEMMA RunStepKeeps ==
    ASSUME LoopInv, NEW a \in AI, NEW k \in Slot, RunStep(a, k), ~ToolStep(a, k)
    PROVE  LoopInv'
<1>0. /\ run \in RunTable
      /\ 0 \in 0..MaxRounds /\ 1 \in 0..MaxRounds /\ {} \in SUBSET Tool
      /\ run[a][k].round \in 0..MaxRounds
  BY LoopConstants, ToolTypes DEF LoopInv, SchedulerTypeOK, RunTable
<1>1. CASE (PendingRead(a, k) /\ Pending(a) # {}) \/ PendingReadFails(a, k)
  <2>1. /\ run[a][k].pc \in Waiting /\ run' = Ended(a, k) /\ inFlight' = inFlight
        /\ UNCHANGED <<thinking, table, switches>>
    BY <1>1 DEF PendingRead, PendingReadFails, Waiting, scheduling
  <2> QED BY <2>1, EndKeeps
<1>2. CASE PendingRead(a, k) /\ Pending(a) = {}
  <2>1. /\ run' \in RunTable
        /\ run'[a][k].pc = "clear" /\ run'[a][k].chain = run[a][k].chain
        /\ \A b \in AI, j \in Slot : (b # a \/ j # k) => run'[b][j] = run[b][j]
    BY <1>0, <1>2, GoesToRuns DEF PendingRead, Waiting
  <2>2. inFlight' = inFlight /\ thinking' = thinking /\ approval' = approval
    BY <1>2 DEF PendingRead, scheduling, table
  <2>3. SchedulerTypeOK'
    BY <1>2, <2>1, <2>2 DEF PendingRead, LoopInv, SchedulerTypeOK, RunTable, table, switches
  <2>4. run[a][k].pc = "query"
    BY <1>2 DEF PendingRead
  <2>5. k # 0
    BY <2>4 DEF LoopInv, ReportsSkipGate, Waiting
  <2>6. run[a][k].pc \notin InCycle /\ run[a][k].pc \notin Shown
    BY <2>4 DEF InCycle, Shown
  <2> QED BY <2>1, <2>2, <2>3, <2>5, <2>6, OneRunMoves DEF GrantsStay
<1>3. CASE PassGate(a, k) /\ run' = Ended(a, k) /\ inFlight' = inFlight
  <2>1. run[a][k].pc \in Waiting /\ UNCHANGED <<thinking, table, switches>>
    BY <1>3 DEF PassGate, Waiting
  <2> QED BY <1>3, <2>1, EndKeeps
<1>4. CASE PassGate(a, k) /\ run' = GoesTo(a, k, "lookup", 0, {})
                          /\ inFlight' = inFlight \cup {a}
  <2>0. "lookup" \in {"idle"} \cup Waiting \cup InCycle
    BY DEF InCycle
  <2> DEFINE q == GoesTo(a, k, "lookup", 0, {})
  <2>7. /\ q \in RunTable
        /\ q[a][k].pc = "lookup" /\ q[a][k].chain = run[a][k].chain
        /\ \A b \in AI, j \in Slot : (b # a \/ j # k) => q[b][j] = run[b][j]
    BY <1>0, <2>0, GoesToRuns
  <2>8. run' = q
    BY <1>4
  <2> HIDE DEF q
  <2>1. /\ run' \in RunTable
        /\ run'[a][k].pc = "lookup" /\ run'[a][k].chain = run[a][k].chain
        /\ \A b \in AI, j \in Slot : (b # a \/ j # k) => run'[b][j] = run[b][j]
    BY <2>7, <2>8
  <2>2. thinking' = thinking /\ approval' = approval
    BY <1>4 DEF PassGate, table
  <2>3. SchedulerTypeOK'
    BY <1>4, <2>1, <2>2 DEF PassGate, LoopInv, SchedulerTypeOK, RunTable, table, switches
  <2>4. run[a][k].pc = "clear"
    BY <1>4 DEF PassGate
  <2>5. k # 0
    BY <2>4 DEF LoopInv, ReportsSkipGate, Waiting
  <2>6. run[a][k].pc \notin Shown /\ run'[a][k].pc \in InCycle
    BY <2>1, <2>4 DEF InCycle, Shown
  <2> QED BY <1>4, <2>1, <2>2, <2>3, <2>5, <2>6, OneRunMoves DEF GrantsStay
<1>5. CASE LookupFails(a, k)
  <2>1. /\ run[a][k].pc \in {"lookup"} /\ run' = Ended(a, k)
        /\ inFlight' = Released(a, k) /\ UNCHANGED <<thinking, table, switches>>
    BY <1>5 DEF LookupFails
  <2> QED BY <2>1, EndKeeps
<1>6. CASE LookupReturns(a, k)
  <2>1. /\ run' \in RunTable
        /\ run'[a][k].pc = "context" /\ run'[a][k].chain = run[a][k].chain
        /\ \A b \in AI, j \in Slot : (b # a \/ j # k) => run'[b][j] = run[b][j]
    BY <1>0, <1>6, GoesToRuns DEF LookupReturns, MarkThinking, InCycle
  <2>2. /\ inFlight' = inFlight /\ approval' = approval
        /\ thinking' = thinking \cup {a}
    BY <1>6 DEF LookupReturns, MarkThinking, table
  <2>3. SchedulerTypeOK'
    BY <1>6, <2>1, <2>2 DEF LookupReturns, MarkThinking, LoopInv, SchedulerTypeOK, RunTable, table, switches
  <2>4. run'[a][k].pc \in Shown /\ run'[a][k].pc \in InCycle /\ run'[a][k].pc \notin Waiting
    BY <2>1 DEF Shown, InCycle, Waiting
  <2> QED BY <2>1, <2>2, <2>3, <2>4, OneRunMoves DEF GrantsStay
<1>7. CASE ContextReturns(a, k)
  <2>1. /\ run[a][k].pc \in InCycle /\ "model" \in Shown
        /\ run' = GoesTo(a, k, "model", 1, {})
        /\ inFlight' = inFlight /\ thinking' = thinking
        /\ approval' = approval /\ UNCHANGED <<deciding, switches>>
    BY <1>7 DEF ContextReturns, InCycle, Shown, scheduling, table
  <2> QED BY <1>0, <2>1, GoesOnKeeps DEF GrantsStay, LoopInv, SchedulerTypeOK
<1>8. CASE CycleFails(a, k) \/ NoticePosted(a, k)
  BY <1>8, FinishKeeps DEF CycleFails, NoticePosted
<1>9. ASSUME NEW usd \in 0..MaxCost, NEW calls \in SUBSET Tool,
             ModelReturns(a, k, usd, calls)
      PROVE  LoopInv'
  <2>1. /\ run[a][k].pc \in InCycle /\ "notice" \in Shown /\ "tools" \in Shown
        /\ approval' = approval /\ UNCHANGED <<deciding, switches>>
        /\ UNCHANGED <<table, switches>>
    BY <1>9 DEF ModelReturns, InCycle, Shown, table
  <2>2. CASE FinishCycle(a, k)
    BY <2>1, <2>2, FinishKeeps
  <2>3. CASE UNCHANGED scheduling /\ run' = GoesTo(a, k, "notice", run[a][k].round, {})
    BY <1>0, <2>1, <2>3, GoesOnKeeps DEF scheduling, GrantsStay, LoopInv, SchedulerTypeOK
  <2>4. CASE UNCHANGED scheduling /\ run' = GoesTo(a, k, "tools", run[a][k].round, calls)
    BY <1>0, <2>1, <2>4, GoesOnKeeps DEF scheduling, GrantsStay, LoopInv, SchedulerTypeOK
  <2> QED BY <1>9, <2>2, <2>3, <2>4 DEF ModelReturns
<1>10. CASE RoundEnds(a, k)
  <2>1. /\ run[a][k].pc \in InCycle /\ "model" \in Shown
        /\ approval' = approval /\ UNCHANGED <<deciding, switches>>
        /\ UNCHANGED <<table, switches>>
    BY <1>10 DEF RoundEnds, InCycle, Shown, table
  <2>2. CASE FinishCycle(a, k)
    BY <2>1, <2>2, FinishKeeps
  <2>3. CASE /\ UNCHANGED scheduling /\ run[a][k].round < MaxRounds
             /\ run' = GoesTo(a, k, "model", run[a][k].round + 1, {})
    <3>1. run[a][k].round + 1 \in 0..MaxRounds
      BY <1>0, <2>3, LoopConstants
    <3> QED BY <1>0, <2>1, <2>3, <3>1, GoesOnKeeps
            DEF scheduling, GrantsStay, LoopInv, SchedulerTypeOK
  <2> QED BY <1>10, <2>2, <2>3 DEF RoundEnds
<1> QED BY <1>1, <1>2, <1>3, <1>4, <1>5, <1>6, <1>7, <1>8, <1>9, <1>10
        DEF RunStep, PassGate

\* The tool calls of a round.
LEMMA ToolStepKeeps ==
    ASSUME LoopInv, NEW a \in AI, NEW k \in Slot, ToolStep(a, k)
    PROVE  LoopInv'
<1>0. /\ run \in RunTable /\ "tools" \in Shown
      /\ run[a][k].round \in 0..MaxRounds
      /\ \A tool : run[a][k].todo \ {tool} \in SUBSET Tool
      /\ \A tool : Calls(a, k, tool) => run[a][k].pc = "tools" /\ run[a][k].pc \in InCycle
  BY ToolTypes DEF LoopInv, SchedulerTypeOK, RunTable, Shown, InCycle, Calls
<1>1. ASSUME NEW tool, Calls(a, k, tool), run' = Settled(a, k, tool),
             UNCHANGED <<scheduling, deciding, switches>>,
             approval' \in [Approval -> ApprovalRow], GrantsStay
      PROVE  LoopInv'
  <2>1. run' = GoesTo(a, k, "tools", run[a][k].round, run[a][k].todo \ {tool})
    BY <1>1 DEF Settled
  <2>2. inFlight' = inFlight /\ thinking' = thinking
    BY <1>1 DEF scheduling
  <2> QED BY <1>0, <1>1, <2>1, <2>2, GoesOnKeeps
<1>2. approval' = approval => approval' \in [Approval -> ApprovalRow] /\ GrantsStay
  BY DEF LoopInv, SchedulerTypeOK, GrantsStay
<1>3. ASSUME NEW p \in Approval, RequestApproval(a, k, p) PROVE LoopInv'
  <2>1. approval' \in [Approval -> ApprovalRow]
    BY <1>3 DEF RequestApproval, LoopInv, SchedulerTypeOK, ApprovalRow
  <2>2. GrantsStay
    BY <1>3 DEF RequestApproval, LoopInv, SchedulerTypeOK, GrantsStay
  <2> QED BY <1>1, <1>3, <2>1, <2>2 DEF RequestApproval
<1>4. CASE WebSearch(a, k)
  BY <1>1, <1>2, <1>4 DEF WebSearch, table
<1>5. ASSUME NEW tool \in Tool, ToolFails(a, k, tool) PROVE LoopInv'
  BY <1>1, <1>2, <1>5 DEF ToolFails, table
<1>6. ASSUME NEW to \in AI, AssignTask(a, k, to) PROVE LoopInv'
  <2> DEFINE wake == W!DeriveChildContext(run[a][k], a)
             settled == Settled(a, k, "assign_task")
  <2>1. Calls(a, k, "assign_task") /\ UNCHANGED <<scheduling, table, switches>>
    BY <1>6 DEF AssignTask
  <2>2. CASE run' = settled
    BY <1>1, <1>2, <2>1, <2>2 DEF table
  <2>3. CASE /\ run[a][k].chain # NoChain
             /\ HasRoom({to}) /\ run' = RunForAI({to}, wake, settled)
    <3>1. /\ settled \in RunTable
          /\ settled[a][k].pc = "tools" /\ settled[a][k].chain = run[a][k].chain
          /\ \A b \in AI, j \in Slot : (b # a \/ j # k) => settled[b][j] = run[b][j]
      <4>1. "tools" \in {"idle"} \cup Waiting \cup InCycle
        BY DEF InCycle
      <4>2. run[a][k].todo \ {"assign_task"} \in SUBSET Tool
        BY <1>0
      <4> QED BY <1>0, <4>1, <4>2, GoesToRuns DEF Settled
    <3>2. \A b \in AI, j \in Slot : /\ settled[b][j].pc = run[b][j].pc
                                    /\ settled[b][j].chain = run[b][j].chain
      BY <1>0, <2>1, <3>1
    <3>3. /\ wake.chain = run[a][k].chain /\ wake.hop = run[a][k].hop + 1
          /\ wake.chain \in Chain \cup {NoChain} /\ wake.hop \in Nat
      BY ToolTypes DEF W!DeriveChildContext
    <3>4. wake.chain \in Approval => approval[wake.chain].status = "APPROVED"
      BY <3>3 DEF LoopInv, GrantedRunsOnly
    <3>5. /\ UNCHANGED <<scheduling, approval, loopOn>>
          /\ deciding' \subseteq Approval /\ ticking' \in BOOLEAN
      BY <2>1 DEF LoopInv, SchedulerTypeOK, table, switches
    <3> HIDE DEF wake, settled
    <3> QED BY <2>3, <3>1, <3>2, <3>3, <3>4, <3>5, CallsKeep
  <2> QED BY <1>6, <2>2, <2>3 DEF AssignTask
<1> QED BY <1>3, <1>4, <1>5, <1>6 DEF ToolStep

\* Decisions, the life of the process and the clock.
LEMMA OthersKeep ==
    ASSUME LoopInv,
           \/ \E p \in Approval, status \in {"APPROVED", "REJECTED"} : Decide(p, status)
           \/ \E p \in Approval : Announce(p) \/ AnswerLost(p)
           \/ Stop \/ Restart \/ ChainsAge \/ DayEnds
    PROVE  LoopInv'
<1>0. /\ run \in RunTable /\ approval \in [Approval -> ApprovalRow]
      /\ deciding \subseteq Approval /\ loopOn \in BOOLEAN /\ ticking \in BOOLEAN
  BY DEF LoopInv, SchedulerTypeOK, RunTable
<1>1. ASSUME NEW p \in Approval, NEW status \in {"APPROVED", "REJECTED"},
             Decide(p, status)
      PROVE  LoopInv'
  <2>1. approval[p] \in [status : {"PENDING", "APPROVED", "REJECTED"}, ai : AI]
    BY <1>0, <1>1 DEF Decide, ApprovalRow, NoRow
  <2>2. approval' \in [Approval -> ApprovalRow]
    BY <1>0, <1>1, <2>1 DEF Decide, ApprovalRow
  <2>3. GrantsStay
    BY <1>0, <1>1 DEF Decide, GrantsStay
  <2>4. /\ UNCHANGED <<run, scheduling>> /\ deciding' \subseteq Approval
        /\ loopOn' = loopOn /\ ticking' = ticking
    BY <1>0, <1>1 DEF Decide, switches
  <2> QED BY <1>0, <2>2, <2>3, <2>4, RestKeeps
<1>2. ASSUME NEW p \in Approval, Announce(p) PROVE LoopInv'
  <2>1. /\ UNCHANGED <<scheduling, approval>> /\ deciding' \subseteq Approval
        /\ loopOn' = loopOn /\ ticking' = ticking /\ GrantsStay
    BY <1>0, <1>2 DEF Announce, switches, GrantsStay
  <2>2. CASE approval[p].status = "APPROVED" /\ loopOn
    <3>1. {approval[p].ai} \in SUBSET AI
      BY <1>0, <2>2 DEF ApprovalRow, NoRow
    <3>2. /\ HasRoom({approval[p].ai})
          /\ run' = RunForAI({approval[p].ai}, W!StartHumanChain(p), run)
      BY <1>2, <2>2 DEF Announce
    <3>3. W!StartHumanChain(p).chain = p /\ W!StartHumanChain(p).hop = 0
      BY DEF W!StartHumanChain
    <3>4. p \in Chain \cup {NoChain}
      BY DEF Chain
    <3>5. /\ UNCHANGED <<scheduling, approval, loopOn>> /\ ticking' \in BOOLEAN
      BY <1>0, <2>1
    <3> DEFINE wake == W!StartHumanChain(p)
               called == {approval[p].ai}
    <3>6. /\ wake.chain \in Chain \cup {NoChain} /\ wake.hop \in Nat
          /\ wake.chain \in Approval => approval[wake.chain].status = "APPROVED"
      BY <2>2, <3>3, <3>4
    <3>7. called \in SUBSET AI /\ HasRoom(called) /\ run' = RunForAI(called, wake, run)
      BY <3>1, <3>2
    <3>8. deciding' \subseteq Approval
      BY <2>1
    <3> HIDE DEF wake, called
    <3> QED BY <1>0, <3>5, <3>6, <3>7, <3>8, CallsKeep
  <2>3. CASE UNCHANGED run
    BY <1>0, <2>1, <2>3, RestKeeps
  <2> QED BY <1>2, <2>2, <2>3 DEF Announce
<1>3. ASSUME NEW p \in Approval, AnswerLost(p) PROVE LoopInv'
  <2>1. /\ UNCHANGED <<run, scheduling, approval>> /\ deciding' \subseteq Approval
        /\ loopOn' = loopOn /\ ticking' = ticking /\ GrantsStay
    BY <1>0, <1>3 DEF AnswerLost, switches, GrantsStay
  <2> QED BY <1>0, <2>1, RestKeeps
<1>4. CASE Stop \/ ChainsAge \/ DayEnds
  <2>1. /\ UNCHANGED <<run, scheduling, approval, deciding>>
        /\ loopOn' \in BOOLEAN /\ ticking' = ticking /\ GrantsStay
    BY <1>0, <1>4 DEF Stop, ChainsAge, DayEnds, switches, table, GrantsStay
  <2> QED BY <1>0, <2>1, RestKeeps
<1>5. CASE Restart
  <2>1. /\ run' = [a \in AI |-> [k \in Slot |-> Idle]]
        /\ inFlight' = {} /\ thinking' = {} /\ deciding' = {}
        /\ loopOn' = TRUE /\ ticking' = FALSE /\ approval' = approval
    BY <1>5 DEF Restart
  <2>2. run' \in [AI -> [Slot -> RunState]]
    BY <2>1, IdleType
  <2>3. SchedulerTypeOK'
    BY <1>0, <2>1, <2>2 DEF SchedulerTypeOK
  <2>4. \A a \in AI, k \in Slot : run'[a][k].pc = "idle" /\ run'[a][k].chain = NoChain
    BY <2>1 DEF Idle
  <2>5. 0 \in Slot
    BY LoopConstants DEF Slot
  <2>6. ReportsSkipGate' /\ GrantedRunsOnly'
    BY <2>4, <2>5, LoopConstants DEF ReportsSkipGate, GrantedRunsOnly, Waiting
  <2>7. InFlightHasCycle' /\ ThinkingIsShown'
    BY <2>1 DEF InFlightHasCycle, ThinkingIsShown
  <2> QED BY <2>3, <2>6, <2>7 DEF LoopInv
<1> QED BY <1>1, <1>2, <1>3, <1>4, <1>5

-----------------------------------------------------------------------------
(***************************************************************************)
(* The theorems                                                            *)
(***************************************************************************)

\* The invariant behind the theorems of this module: entries of inFlight and
\* of thinking, and wake contexts of grants, always have their witness.
THEOREM LoopInvariant == Spec => []LoopInv
<1>1. LoopInv /\ [Next]_vars => LoopInv'
  <2> SUFFICES ASSUME LoopInv, [Next]_vars PROVE LoopInv'
    OBVIOUS
  <2>1. CASE UNCHANGED vars
    <3>1. /\ UNCHANGED <<run, scheduling>> /\ approval' = approval
          /\ deciding' = deciding /\ loopOn' = loopOn /\ ticking' = ticking
      BY <2>1 DEF vars, scheduling
    <3> QED BY <3>1, RestKeeps DEF GrantsStay, LoopInv, SchedulerTypeOK
  <2>2. ASSUME NEW a \in AI, NEW k \in Slot, RunStep(a, k) PROVE LoopInv'
    BY <2>2, RunStepKeeps, ToolStepKeeps
  <2> QED BY <2>1, <2>2, StartsKeep, OthersKeep DEF Next
<1> QED BY <1>1, LoopInvInit, PTL DEF Spec

\* The scheduler's variables keep their types: MaxRounds caps every cycle and
\* a request row belongs to an AI once it exists.
THEOREM SchedulerTypeCorrect == Spec => []SchedulerTypeOK
<1>1. LoopInv => SchedulerTypeOK
  BY DEF LoopInv
<1> QED BY <1>1, LoopInvariant, PTL

\* An AI in flight has a cycle, whatever failed on the way (runForAI's
\* finally).
THEOREM InFlightCorrect == Spec => []InFlightHasCycle
<1>1. LoopInv => InFlightHasCycle
  BY DEF LoopInv
<1> QED BY <1>1, LoopInvariant, PTL

\* An AI that is shown as thinking has a cycle, also when its report and a
\* cycle of the loop overlap.
THEOREM ThinkingCorrect == Spec => []ThinkingHasCycle
<1>1. LoopInv => ThinkingHasCycle
  <2> SUFFICES ASSUME LoopInv, NEW a \in thinking
               PROVE  \E k \in Slot : run[a][k].pc \in InCycle
    BY DEF ThinkingHasCycle
  <2> QED BY DEF LoopInv, ThinkingIsShown, Shown
<1> QED BY <1>1, LoopInvariant, PTL

\* Only grants wake: a run or a hand-off on the chain of a request has its
\* APPROVED row behind it.
THEOREM GrantedCorrect == Spec => []GrantedRunsOnly
<1>1. LoopInv => GrantedRunsOnly
  BY DEF LoopInv
<1> QED BY <1>1, LoopInvariant, PTL

-----------------------------------------------------------------------------
(***************************************************************************)
(* What a step leaves in the table of runs                                 *)
(***************************************************************************)

\* An entry without a run holds nothing of the run it had, and tool calls
\* wait only inside the tools await.
Clean(e) == (e.pc = "idle" => e = Idle) /\ (e.todo # {} => e.pc = "tools")
EntriesAreClean == \A b \in AI, j \in Slot : Clean(run[b][j])

\* A request whose grant was announced is decided for good, and no handler
\* is left that could announce it again.
AnnouncedOnce == \A p \in Approval \cap issued :
                    p \notin deciding /\ approval[p].status = "APPROVED"

RunInv == EntriesAreClean /\ AnnouncedOnce

\* A run goes on, a run ends, new runs are called.
Others(a, k) == \A b \in AI, j \in Slot : (b # a \/ j # k) => run'[b][j] = run[b][j]
Moved(a, k, pc, todo) ==
    /\ run'[a][k].pc = pc /\ run'[a][k].todo = todo
    /\ run'[a][k].chain = run[a][k].chain /\ run'[a][k].hop = run[a][k].hop
    /\ run'[a][k].seen = run[a][k].seen
    /\ Others(a, k)
Freed(a, k) == run'[a][k] = Idle /\ Others(a, k)
NewRun(b, wake) == [pc |-> "query", chain |-> wake.chain, hop |-> wake.hop,
                    round |-> 0, todo |-> {}, seen |-> Pending(b)]
SlotFor(b, j, S) == b \in Called(S) /\ j = FreeSlot(b)

\* GoesTo replaces one entry and keeps its wake context.
LEMMA GoesToEntry ==
    ASSUME run \in RunTable, NEW a \in AI, NEW k \in Slot,
           NEW pc, NEW round, NEW todo
    PROVE  LET q == GoesTo(a, k, pc, round, todo)
           IN  /\ q[a][k].pc = pc /\ q[a][k].todo = todo
               /\ q[a][k].chain = run[a][k].chain /\ q[a][k].hop = run[a][k].hop
               /\ q[a][k].seen = run[a][k].seen
               /\ \A b \in AI, j \in Slot : (b # a \/ j # k) => q[b][j] = run[b][j]
<1> DEFINE s == [pc |-> pc, chain |-> run[a][k].chain, hop |-> run[a][k].hop,
                 round |-> round, todo |-> todo, seen |-> run[a][k].seen]
<1>1. GoesTo(a, k, pc, round, todo) = [run EXCEPT ![a][k] = s]
  BY DEF GoesTo, RunTable
<1>2. /\ s.pc = pc /\ s.todo = todo
      /\ s.chain = run[a][k].chain /\ s.hop = run[a][k].hop
      /\ s.seen = run[a][k].seen
  OBVIOUS
<1> HIDE DEF s
<1>3. LET q == [run EXCEPT ![a][k] = s]
      IN  /\ q[a][k] = s
          /\ \A b \in AI, j \in Slot : (b # a \/ j # k) => q[b][j] = run[b][j]
  BY DEF RunTable
<1> QED BY <1>1, <1>2, <1>3

\* The step of a run that goes on, and of one that ends.
LEMMA GoesToMoves ==
    ASSUME LoopInv, NEW a \in AI, NEW k \in Slot,
           NEW pc, NEW round, NEW todo, run' = GoesTo(a, k, pc, round, todo)
    PROVE  Moved(a, k, pc, todo)
<1>1. run \in RunTable
  BY DEF LoopInv, SchedulerTypeOK, RunTable
<1>2. LET q == GoesTo(a, k, pc, round, todo)
      IN  /\ q[a][k].pc = pc /\ q[a][k].todo = todo
          /\ q[a][k].chain = run[a][k].chain /\ q[a][k].hop = run[a][k].hop
          /\ q[a][k].seen = run[a][k].seen
          /\ \A b \in AI, j \in Slot : (b # a \/ j # k) => q[b][j] = run[b][j]
  BY <1>1, GoesToEntry
<1> QED BY <1>2 DEF Moved, Others

LEMMA EndedFrees ==
    ASSUME LoopInv, NEW a \in AI, NEW k \in Slot, run' = Ended(a, k)
    PROVE  Freed(a, k)
BY DEF LoopInv, SchedulerTypeOK, Ended, Freed, Others

\* RunForAI fills the free slots of the AIs it calls, and those only.
LEMMA RunForAIEntries ==
    ASSUME run \in RunTable, NEW r \in RunTable, NEW S \in SUBSET AI, HasRoom(S),
           NEW wake
    PROVE  LET q == RunForAI(S, wake, r)
           IN  /\ \A b \in Called(S) : /\ FreeSlot(b) \in Slot
                                       /\ run[b][FreeSlot(b)].pc = "idle"
                                       /\ q[b][FreeSlot(b)] = NewRun(b, wake)
               /\ \A b \in AI, j \in Slot : ~SlotFor(b, j, S) => q[b][j] = r[b][j]
<1> DEFINE q == RunForAI(S, wake, r)
<1>1. \A b \in Called(S) : b \in AI /\ FreeSlot(b) \in 1..MaxRuns
                           /\ run[b][FreeSlot(b)].pc = "idle"
  BY DEF HasRoom, FreeSlot, FreeSlots, Called
<1>2. \A b \in AI : FreeSlot(b) \in 1..MaxRuns => FreeSlot(b) \in Slot
  BY LoopConstants DEF Slot
<1>3. \A b \in AI : q[b] = IF b \in Called(S)
                           THEN [r[b] EXCEPT ![FreeSlot(b)] = NewRun(b, wake)] ELSE r[b]
  BY DEF RunForAI, NewRun
<1>4. \A b \in AI : r[b] \in [Slot -> RunState]
  BY DEF RunTable
<1>5. \A b \in Called(S) : q[b][FreeSlot(b)] = NewRun(b, wake)
  BY <1>1, <1>2, <1>3, <1>4
<1>6. \A b \in AI, j \in Slot : ~SlotFor(b, j, S) => q[b][j] = r[b][j]
  BY <1>3, <1>4 DEF SlotFor
<1> QED BY <1>1, <1>2, <1>5, <1>6

-----------------------------------------------------------------------------
(***************************************************************************)
(* The forms a step has                                                    *)
(***************************************************************************)

\* A run ends or goes on to an await.
LEMMA CycleForms ==
    ASSUME LoopInv, NEW a \in AI, NEW k \in Slot, RunStep(a, k), ~ToolStep(a, k)
    PROVE  /\ \/ Freed(a, k)
              \/ \E pc \in Waiting \cup InCycle, todo \in SUBSET Tool :
                    Moved(a, k, pc, todo) /\ (todo = {} \/ pc = "tools")
           /\ UNCHANGED <<approval, deciding, chains, issued>>
<1>1. ASSUME NEW pc \in Waiting \cup InCycle, NEW round, run' = GoesTo(a, k, pc, round, {})
      PROVE  \E t \in SUBSET Tool : Moved(a, k, pc, t) /\ (t = {} \/ pc = "tools")
  BY <1>1, GoesToMoves
<1>2. ASSUME NEW round, NEW calls \in SUBSET Tool, run' = GoesTo(a, k, "tools", round, calls)
      PROVE  Moved(a, k, "tools", calls) /\ "tools" \in Waiting \cup InCycle
  BY <1>2, GoesToMoves DEF InCycle
<1>3. {"clear", "lookup", "context", "model", "notice"} \subseteq Waiting \cup InCycle
  BY DEF Waiting, InCycle
<1>4. CASE PendingRead(a, k) \/ PendingReadFails(a, k)
  BY <1>1, <1>3, <1>4, EndedFrees DEF PendingRead, PendingReadFails, table, wakes
<1>5. CASE PassGate(a, k)
  BY <1>1, <1>3, <1>5, EndedFrees DEF PassGate, table, wakes
<1>6. CASE LookupFails(a, k) \/ LookupReturns(a, k)
  BY <1>1, <1>3, <1>6, EndedFrees DEF LookupFails, LookupReturns, table, wakes
<1>7. CASE ContextReturns(a, k)
  BY <1>1, <1>3, <1>7 DEF ContextReturns, table, wakes
<1>8. CASE CycleFails(a, k) \/ NoticePosted(a, k)
  BY <1>8, EndedFrees DEF CycleFails, NoticePosted, FinishCycle, table, wakes
<1>9. ASSUME NEW usd \in 0..MaxCost, NEW calls \in SUBSET Tool,
             ModelReturns(a, k, usd, calls)
      PROVE  /\ \/ Freed(a, k)
                \/ \E pc \in Waiting \cup InCycle, todo \in SUBSET Tool :
                      Moved(a, k, pc, todo) /\ (todo = {} \/ pc = "tools")
             /\ UNCHANGED <<approval, deciding, chains, issued>>
  BY <1>1, <1>2, <1>3, <1>9, EndedFrees DEF ModelReturns, FinishCycle, table, wakes
<1>10. CASE RoundEnds(a, k)
  BY <1>1, <1>3, <1>10, EndedFrees DEF RoundEnds, FinishCycle, table, wakes
<1> QED BY <1>4, <1>5, <1>6, <1>7, <1>8, <1>9, <1>10 DEF RunStep

\* A tool call of a round is settled.
LEMMA SettledEntries ==
    ASSUME LoopInv, NEW a \in AI, NEW k \in Slot, NEW tool \in Tool, Calls(a, k, tool)
    PROVE  LET q == Settled(a, k, tool)
           IN  /\ q \in RunTable
               /\ q[a][k].pc = "tools" /\ q[a][k].todo = run[a][k].todo \ {tool}
               /\ q[a][k].chain = run[a][k].chain /\ q[a][k].hop = run[a][k].hop
               /\ q[a][k].seen = run[a][k].seen
               /\ \A b \in AI, j \in Slot : (b # a \/ j # k) => q[b][j] = run[b][j]
<1>1. run \in RunTable
  BY DEF LoopInv, SchedulerTypeOK, RunTable
<1>2. "tools" \in {"idle"} \cup Waiting \cup InCycle
  BY DEF InCycle
<1>3. run[a][k].round \in 0..MaxRounds /\ run[a][k].todo \ {tool} \in SUBSET Tool
  BY ToolTypes
<1>4. Settled(a, k, tool) \in RunTable
  BY <1>1, <1>2, <1>3, GoesToRuns DEF Settled
<1> QED BY <1>1, <1>4, GoesToEntry DEF Settled

\* The entries after a call of runs, from the table r the step has otherwise.
LEMMA CalledEntries ==
    ASSUME LoopInv, EntriesAreClean, NEW r \in RunTable, NEW S \in SUBSET AI, HasRoom(S),
           NEW wake, run' = RunForAI(S, wake, r)
    PROVE  /\ \A b \in AI, j \in Slot : ~SlotFor(b, j, S) => run'[b][j] = r[b][j]
           /\ \A b \in AI, j \in Slot : SlotFor(b, j, S) =>
                 run[b][j] = Idle /\ run'[b][j] = NewRun(b, wake)
           /\ \A b \in Called(S) : b \in AI /\ FreeSlot(b) \in Slot /\ SlotFor(b, FreeSlot(b), S)
<1>1. run \in RunTable
  BY DEF LoopInv, SchedulerTypeOK, RunTable
<1>2. /\ \A b \in Called(S) : /\ FreeSlot(b) \in Slot
                              /\ run[b][FreeSlot(b)].pc = "idle"
                              /\ run'[b][FreeSlot(b)] = NewRun(b, wake)
      /\ \A b \in AI, j \in Slot : ~SlotFor(b, j, S) => run'[b][j] = r[b][j]
  BY <1>1, RunForAIEntries
<1>3. \A b \in Called(S) : b \in AI
  BY DEF Called
<1> QED BY <1>2, <1>3 DEF SlotFor, EntriesAreClean, Clean

-----------------------------------------------------------------------------
(***************************************************************************)
(* How a step keeps the entries clean                                      *)
(***************************************************************************)

\* A run that goes on or ends leaves a clean entry.
LEMMA MovesClean ==
    ASSUME EntriesAreClean, NEW a \in AI, NEW k \in Slot,
           \/ Freed(a, k)
           \/ \E pc \in Waiting \cup InCycle, todo \in SUBSET Tool :
                 Moved(a, k, pc, todo) /\ (todo = {} \/ pc = "tools")
    PROVE  EntriesAreClean'
<1>1. Clean(Idle)
  BY DEF Clean, Idle
<1>2. "idle" \notin Waiting \cup InCycle
  BY DEF Waiting, InCycle
<1>3. Clean(run'[a][k])
  BY <1>1, <1>2 DEF Freed, Moved, Clean
<1>4. Others(a, k)
  BY DEF Freed, Moved
<1> QED BY <1>3, <1>4 DEF EntriesAreClean, Others, Clean

\* A new run waits for the database and has no tool call.
LEMMA CallsClean ==
    ASSUME LoopInv, EntriesAreClean, NEW r \in RunTable, NEW S \in SUBSET AI, HasRoom(S),
           NEW wake, run' = RunForAI(S, wake, r),
           \A b \in AI, j \in Slot : Clean(r[b][j])
    PROVE  EntriesAreClean'
<1>1. \A b : Clean(NewRun(b, wake))
  BY DEF Clean, NewRun
<1>2. /\ \A b \in AI, j \in Slot : ~SlotFor(b, j, S) => run'[b][j] = r[b][j]
      /\ \A b \in AI, j \in Slot : SlotFor(b, j, S) => run'[b][j] = NewRun(b, wake)
  BY CalledEntries
<1>3. \A b \in AI, j \in Slot : Clean(run'[b][j])
  BY <1>1, <1>2
<1> QED BY <1>3 DEF EntriesAreClean, Clean

\* A step that is no cycle's and no tool's.
LEMMA OthersClean ==
    ASSUME LoopInv, EntriesAreClean, [Next]_vars,
           ~(\E a \in AI, k \in Slot : RunStep(a, k))
    PROVE  EntriesAreClean'
<1>0. /\ run \in RunTable
      /\ \A b \in AI, j \in Slot : Clean(run[b][j])
  BY DEF LoopInv, SchedulerTypeOK, RunTable, EntriesAreClean
<1>1. CASE UNCHANGED run
  BY <1>1 DEF EntriesAreClean, Clean
<1>2. ASSUME NEW m \in Message, NEW S \in SUBSET AI, Mention(m, S)
      PROVE  EntriesAreClean'
  <2>1. PICK admitted \in SUBSET S : run' = RunForAI(admitted, W!StartHumanChain(m), run)
    BY <1>2 DEF Mention
  <2>2. HasRoom(admitted)
    BY <1>2, <2>1 DEF Mention, HasRoom, Called
  <2> QED BY <1>0, <2>1, <2>2, CallsClean
<1>3. CASE TickReturns
  BY <1>0, <1>3, CallsClean DEF TickReturns
<1>4. ASSUME NEW a \in Reporter, StartReport(a), run' # run PROVE EntriesAreClean'
  <2>1. a \in AI /\ 0 \in Slot /\ "lookup" \in Waiting \cup InCycle
    BY LoopConstants DEF Slot, InCycle
  <2>2. Moved(a, 0, "lookup", {})
    BY <1>4, <2>1, GoesToMoves DEF StartReport
  <2> QED BY <2>1, <2>2, MovesClean
<1>5. ASSUME NEW p \in Approval, Announce(p), run' # run PROVE EntriesAreClean'
  <2>1. /\ HasRoom({approval[p].ai}) /\ approval[p].status = "APPROVED"
        /\ run' = RunForAI({approval[p].ai}, W!StartHumanChain(p), run)
    BY <1>5 DEF Announce
  <2>2. {approval[p].ai} \in SUBSET AI
    BY <2>1 DEF LoopInv, SchedulerTypeOK, ApprovalRow, NoRow
  <2> QED BY <1>0, <2>1, <2>2, CallsClean
<1>6. CASE Restart
  <2>1. \A b \in AI, j \in Slot : run'[b][j] = Idle
    BY <1>6 DEF Restart
  <2>2. Clean(Idle)
    BY DEF Clean, Idle
  <2> QED BY <2>1, <2>2 DEF EntriesAreClean, Clean
<1>7. TimerFires \/ TickFails \/ Stop \/ ChainsAge \/ DayEnds => UNCHANGED run
  BY DEF TimerFires, TickFails, Stop, ChainsAge, DayEnds
<1>8. \A p \in Approval, status \in {"APPROVED", "REJECTED"} :
        Decide(p, status) \/ AnswerLost(p) => UNCHANGED run
  BY DEF Decide, AnswerLost
<1> QED BY <1>1, <1>2, <1>3, <1>4, <1>5, <1>6, <1>7, <1>8 DEF Next, vars

\* The tool calls of a round.
LEMMA ToolsClean ==
    ASSUME LoopInv, EntriesAreClean, NEW a \in AI, NEW k \in Slot, ToolStep(a, k)
    PROVE  EntriesAreClean'
<1>1. ASSUME NEW tool \in Tool, Calls(a, k, tool)
      PROVE  /\ Settled(a, k, tool) \in RunTable
             /\ \A b \in AI, j \in Slot : Clean(Settled(a, k, tool)[b][j])
  <2> DEFINE q == Settled(a, k, tool)
  <2>1. /\ q \in RunTable /\ q[a][k].pc = "tools"
        /\ \A b \in AI, j \in Slot : (b # a \/ j # k) => q[b][j] = run[b][j]
    BY <1>1, SettledEntries
  <2> HIDE DEF q
  <2>2. \A b \in AI, j \in Slot : Clean(q[b][j])
    BY <2>1 DEF EntriesAreClean, Clean
  <2> QED BY <2>1, <2>2 DEF q
<1>2. ASSUME NEW tool \in Tool, Calls(a, k, tool), run' = Settled(a, k, tool)
      PROVE  EntriesAreClean'
  <2>1. \A b \in AI, j \in Slot : Clean(run'[b][j])
    BY <1>1, <1>2
  <2> QED BY <2>1 DEF EntriesAreClean, Clean
<1>3. \A tool : Calls(a, k, tool) => tool \in Tool
  BY ToolTypes DEF Calls
<1>4. ASSUME NEW to \in AI, AssignTask(a, k, to) PROVE EntriesAreClean'
  <2> DEFINE wake == W!DeriveChildContext(run[a][k], a)
             settled == Settled(a, k, "assign_task")
  <2>1. Calls(a, k, "assign_task")
    BY <1>4 DEF AssignTask
  <2>2. settled \in RunTable /\ \A b \in AI, j \in Slot : Clean(settled[b][j])
    BY <1>1, <1>3, <2>1
  <2>3. CASE run' = settled
    BY <1>2, <1>3, <2>1, <2>3
  <2>4. CASE HasRoom({to}) /\ run' = RunForAI({to}, wake, settled)
    <3>1. {to} \in SUBSET AI
      OBVIOUS
    <3> HIDE DEF wake, settled
    <3> QED BY <2>2, <2>4, <3>1, CallsClean
  <2> QED BY <1>4, <2>3, <2>4 DEF AssignTask
<1> QED BY <1>2, <1>3, <1>4 DEF ToolStep, RequestApproval, WebSearch, ToolFails

\* Announced requests stay decided and their handlers are gone.
LEMMA AnnouncedKeeps ==
    ASSUME LoopInv, AnnouncedOnce, [Next]_vars
    PROVE  AnnouncedOnce'
<1>0. approval \in [Approval -> ApprovalRow]
  BY DEF LoopInv, SchedulerTypeOK
<1>1. ASSUME issued' \cap Approval = issued \cap Approval, deciding' \subseteq deciding,
             UNCHANGED approval
      PROVE  AnnouncedOnce'
  BY <1>1 DEF AnnouncedOnce
<1>2. ASSUME NEW m \in Message, NEW S \in SUBSET AI, Mention(m, S) PROVE AnnouncedOnce'
  BY <1>1, <1>2, LoopConstants DEF Mention, table
<1>3. CASE UNCHANGED vars \/ TimerFires \/ TickReturns \/ TickFails \/ Stop \/ ChainsAge \/ DayEnds
  BY <1>1, <1>3 DEF vars, TimerFires, TickReturns, TickFails, Stop, ChainsAge, DayEnds,
                    table, wakes, W!ClockTick
<1>4. ASSUME NEW a \in Reporter, StartReport(a) PROVE AnnouncedOnce'
  BY <1>1, <1>4 DEF StartReport, table, wakes
<1>5. ASSUME NEW a \in AI, NEW k \in Slot, RunStep(a, k), ~ToolStep(a, k) PROVE AnnouncedOnce'
  BY <1>1, <1>5, CycleForms
<1>6. ASSUME NEW a \in AI, NEW k \in Slot, NEW p \in Approval, RequestApproval(a, k, p)
      PROVE  AnnouncedOnce'
  BY <1>0, <1>6 DEF RequestApproval, AnnouncedOnce, wakes
<1>7. ASSUME NEW a \in AI, NEW k \in Slot, ToolStep(a, k),
             ~(\E p \in Approval : RequestApproval(a, k, p))
      PROVE  AnnouncedOnce'
  BY <1>1, <1>7 DEF ToolStep, WebSearch, AssignTask, ToolFails, table, wakes
<1>8. ASSUME NEW p \in Approval, NEW status \in {"APPROVED", "REJECTED"}, Decide(p, status)
      PROVE  AnnouncedOnce'
  BY <1>0, <1>8 DEF Decide, AnnouncedOnce, wakes
<1>9. ASSUME NEW p \in Approval, Announce(p) PROVE AnnouncedOnce'
  <2>1. CASE approval[p].status = "APPROVED" /\ loopOn
    BY <1>9, <2>1 DEF Announce, AnnouncedOnce
  <2>2. CASE ~(approval[p].status = "APPROVED" /\ loopOn)
    BY <1>9, <2>2 DEF Announce, AnnouncedOnce, wakes
  <2> QED BY <2>1, <2>2
<1>10. ASSUME NEW p \in Approval, AnswerLost(p) PROVE AnnouncedOnce'
  BY <1>1, <1>10 DEF AnswerLost, wakes
<1>11. CASE Restart
  BY <1>1, <1>11 DEF Restart
<1> QED BY <1>2, <1>3, <1>4, <1>5, <1>6, <1>7, <1>8, <1>9, <1>10, <1>11 DEF Next, RunStep

\* Entries of ended runs are clean, and no grant is announced twice.
THEOREM RunsAreClean == Spec => [](LoopInv /\ RunInv)
<1>1. Init => RunInv
  BY DEF Init, RunInv, EntriesAreClean, Clean, AnnouncedOnce, Idle, W!Init
<1>2. LoopInv /\ RunInv /\ [Next]_vars => RunInv'
  <2> SUFFICES ASSUME LoopInv, EntriesAreClean, AnnouncedOnce, [Next]_vars PROVE RunInv'
    BY DEF RunInv
  <2>1. ASSUME NEW a \in AI, NEW k \in Slot, RunStep(a, k) PROVE EntriesAreClean'
    BY <2>1, CycleForms, MovesClean, ToolsClean
  <2>2. EntriesAreClean'
    BY <2>1, OthersClean
  <2> QED BY <2>2, AnnouncedKeeps DEF RunInv
<1> QED BY <1>1, <1>2, LoopInvariant, PTL DEF Spec

-----------------------------------------------------------------------------
(***************************************************************************)
(* The scheduler drives the wake accounts as WakeChain allows              *)
(***************************************************************************)
WokenRun(b, j) == [ai |-> b, chain |-> run[b][j].chain, hop |-> run[b][j].hop]

\* The runs with a wake context, one by one.
LEMMA WokenElements ==
    \A x : x \in WokenRuns <=>
             \E b \in AI, j \in Slot : run[b][j].chain # NoChain /\ x = WokenRun(b, j)
<1>1. ASSUME NEW x \in WokenRuns
      PROVE  \E b \in AI, j \in Slot : run[b][j].chain # NoChain /\ x = WokenRun(b, j)
  BY DEF WokenRuns, WokenRun
<1>2. ASSUME NEW b \in AI, NEW j \in Slot, run[b][j].chain # NoChain
      PROVE  WokenRun(b, j) \in WokenRuns
  <2>1. /\ <<b, j>> \in {v \in AI \X Slot : run[v[1]][v[2]].chain # NoChain}
        /\ <<b, j>>[1] = b /\ <<b, j>>[2] = j
    BY <1>2
  <2> QED BY <2>1 DEF WokenRuns, WokenRun
<1> QED BY <1>1, <1>2

LEMMA WokenElementsNext ==
    \A x : x \in WokenRuns' <=>
             \E b \in AI, j \in Slot : run'[b][j].chain # NoChain /\ x = WokenRun(b, j)'
<1>1. ASSUME NEW x, x \in WokenRuns'
      PROVE  \E b \in AI, j \in Slot : run'[b][j].chain # NoChain /\ x = WokenRun(b, j)'
  BY <1>1 DEF WokenRuns, WokenRun
<1>2. ASSUME NEW b \in AI, NEW j \in Slot, run'[b][j].chain # NoChain
      PROVE  WokenRun(b, j)' \in WokenRuns'
  <2>1. /\ <<b, j>> \in {v \in AI \X Slot : run'[v[1]][v[2]].chain # NoChain}
        /\ <<b, j>>[1] = b /\ <<b, j>>[2] = j
    BY <1>2
  <2> QED BY <2>1 DEF WokenRuns, WokenRun
<1> QED BY <1>1, <1>2

\* A run that goes on or only settles a call keeps its context.
LEMMA WokenStay ==
    ASSUME \A b \in AI, j \in Slot : /\ run'[b][j].chain = run[b][j].chain
                                     /\ run'[b][j].hop = run[b][j].hop
    PROVE  WokenRuns' = WokenRuns
<1>1. \A b \in AI, j \in Slot : WokenRun(b, j)' = WokenRun(b, j)
  BY DEF WokenRun
<1>2. \A x : x \in WokenRuns' <=> x \in WokenRuns
  BY <1>1, WokenElements, WokenElementsNext
<1> QED BY <1>2

\* A run that ends takes its context with it, unless another run of the AI
\* has the same one.
LEMMA WokenEnds ==
    ASSUME NEW a \in AI, NEW k \in Slot, Freed(a, k)
    PROVE  WokenRuns' = WokenRuns \/ \E cy \in WokenRuns : WokenRuns' = WokenRuns \ {cy}
<1> DEFINE Other(b, j) == b \in AI /\ j \in Slot /\ (b # a \/ j # k) /\ run[b][j].chain # NoChain
<1>1. run'[a][k].chain = NoChain
  BY DEF Freed, Idle
<1>2. \A b \in AI, j \in Slot : (b # a \/ j # k) =>
         run'[b][j].chain = run[b][j].chain /\ WokenRun(b, j)' = WokenRun(b, j)
  BY DEF Freed, Others, WokenRun
<1>3. \A x : x \in WokenRuns' <=> \E b, j : Other(b, j) /\ x = WokenRun(b, j)
  BY <1>1, <1>2, WokenElementsNext
<1>4. \A x : x \in WokenRuns <=> \/ \E b, j : Other(b, j) /\ x = WokenRun(b, j)
                                 \/ run[a][k].chain # NoChain /\ x = WokenRun(a, k)
  BY WokenElements
<1> HIDE DEF Other
<1>5. CASE run[a][k].chain = NoChain \/ \E b, j : Other(b, j) /\ WokenRun(a, k) = WokenRun(b, j)
  <2>1. \A x : x \in WokenRuns' <=> x \in WokenRuns
    BY <1>3, <1>4, <1>5
  <2> QED BY <2>1
<1>6. CASE /\ run[a][k].chain # NoChain
           /\ ~ \E b, j : Other(b, j) /\ WokenRun(a, k) = WokenRun(b, j)
  <2>1. WokenRun(a, k) \in WokenRuns
    BY <1>4, <1>6
  <2>2. \A x : x \in WokenRuns' <=> x \in WokenRuns \ {WokenRun(a, k)}
    BY <1>3, <1>4, <1>6
  <2>3. WokenRuns' = WokenRuns \ {WokenRun(a, k)}
    BY <2>2
  <2> QED BY <2>1, <2>3
<1> QED BY <1>5, <1>6

\* A call adds the context of the wake for every AI that was not in flight.
LEMMA WokenAreCalled ==
    ASSUME LoopInv, EntriesAreClean, NEW r \in RunTable, NEW S \in SUBSET AI, HasRoom(S),
           NEW wake, run' = RunForAI(S, wake, r),
           \A b \in AI, j \in Slot : /\ r[b][j].chain = run[b][j].chain
                                     /\ r[b][j].hop = run[b][j].hop
    PROVE  WokenRuns' = WokenRuns \cup (IF wake.chain = NoChain THEN {}
                                        ELSE W!RunsOf(Called(S), wake))
<1>1. /\ \A b \in AI, j \in Slot : ~SlotFor(b, j, S) => run'[b][j] = r[b][j]
      /\ \A b \in AI, j \in Slot : SlotFor(b, j, S) =>
            run[b][j] = Idle /\ run'[b][j] = NewRun(b, wake)
      /\ \A b \in Called(S) : b \in AI /\ FreeSlot(b) \in Slot /\ SlotFor(b, FreeSlot(b), S)
  BY CalledEntries
<1>2. \A b \in AI, j \in Slot : ~SlotFor(b, j, S) =>
         run'[b][j].chain = run[b][j].chain /\ WokenRun(b, j)' = WokenRun(b, j)
  BY <1>1 DEF WokenRun
<1> DEFINE new(b) == [ai |-> b, chain |-> wake.chain, hop |-> wake.hop]
<1>3. \A b \in AI, j \in Slot : SlotFor(b, j, S) =>
         /\ run[b][j].chain = NoChain /\ run'[b][j].chain = wake.chain
         /\ WokenRun(b, j)' = new(b)
  <2>1. Idle.chain = NoChain
    BY DEF Idle
  <2>2. \A b : NewRun(b, wake).chain = wake.chain /\ NewRun(b, wake).hop = wake.hop
    BY DEF NewRun
  <2> QED BY <1>1, <2>1, <2>2 DEF WokenRun
<1>4. W!RunsOf(Called(S), wake) = {new(b) : b \in Called(S)}
  BY DEF W!RunsOf
<1> HIDE DEF new
<1>5. \A x : x \in WokenRuns' <=> \/ x \in WokenRuns
                                  \/ wake.chain # NoChain /\ \E b \in Called(S) : x = new(b)
  <2>1. ASSUME NEW x, x \in WokenRuns'
        PROVE  \/ x \in WokenRuns
               \/ wake.chain # NoChain /\ \E b \in Called(S) : x = new(b)
    <3>1. PICK b \in AI, j \in Slot : run'[b][j].chain # NoChain /\ x = WokenRun(b, j)'
      BY <2>1, WokenElementsNext
    <3>2. CASE SlotFor(b, j, S)
      BY <1>3, <3>1, <3>2 DEF SlotFor
    <3>3. CASE ~SlotFor(b, j, S)
      <4>1. run[b][j].chain # NoChain /\ x = WokenRun(b, j)
        BY <1>2, <3>1, <3>3
      <4> QED BY <4>1, WokenElements
    <3> QED BY <3>2, <3>3
  <2>2. ASSUME NEW x, x \in WokenRuns PROVE x \in WokenRuns'
    BY <1>2, <1>3, <2>2, WokenElements, WokenElementsNext
  <2>3. ASSUME NEW b \in Called(S), wake.chain # NoChain PROVE new(b) \in WokenRuns'
    BY <1>1, <1>3, <2>3, WokenElementsNext
  <2> QED BY <2>1, <2>2, <2>3
<1> QED BY <1>4, <1>5

\* WakeChain counts as this module does.
LEMMA SameCount == \A S : W!Cardinality(S) = Cardinality(S)
BY DEF W!Cardinality, Cardinality

\* Mentions: the AIs that are not in flight start on the new chain.
LEMMA MentionDrives ==
    ASSUME LoopInv, EntriesAreClean, NEW m \in Message, NEW S \in (SUBSET AI) \ {{}},
           Mention(m, S)
    PROVE  W!HumanWake(m, S)
<1>0. /\ run \in RunTable
      /\ m # NoChain
  BY LoopConstants DEF LoopInv, SchedulerTypeOK, RunTable, Chain
<1>1. PICK admitted \in SUBSET S :
         /\ W!Admits(S, admitted)
         /\ chains' = [W!SweepIdle(chains) EXCEPT ![m] = W!Opened(Cardinality(admitted))]
         /\ run' = RunForAI(admitted, W!StartHumanChain(m), run)
  BY DEF Mention
<1>2. HasRoom(admitted) /\ admitted \in SUBSET AI
  BY <1>1 DEF Mention, HasRoom, Called
<1>3. W!StartHumanChain(m).chain # NoChain
  BY <1>0 DEF W!StartHumanChain
<1>4. WokenRuns' = WokenRuns \cup W!RunsOf(Called(admitted), W!StartHumanChain(m))
  BY <1>0, <1>1, <1>2, <1>3, WokenAreCalled
<1>5. Called(admitted) \in SUBSET admitted
  BY DEF Called
<1>6. m \notin issued /\ issued' = issued \cup {m}
  BY DEF Mention
<1> QED BY <1>1, <1>4, <1>5, <1>6, SameCount DEF W!HumanWake

\* A grant: its AI starts on the chain of the approval, which is drawn once.
LEMMA AnnounceDrives ==
    ASSUME LoopInv, RunInv, NEW p \in Approval, Announce(p)
    PROVE  \/ W!HumanWake(p, {approval[p].ai}) /\ approval[p].ai \in AI
           \/ UNCHANGED W!vars
<1>1. CASE ~(approval[p].status = "APPROVED" /\ loopOn)
  <2>1. UNCHANGED <<run, chains, issued>>
    BY <1>1 DEF Announce, wakes
  <2> QED BY <2>1, WokenStay DEF W!vars
<1>2. CASE approval[p].status = "APPROVED" /\ loopOn
  <2> DEFINE S == {approval[p].ai}
             wake == W!StartHumanChain(p)
  <2>0. /\ run \in RunTable /\ p # NoChain /\ p \in deciding
    BY LoopConstants DEF LoopInv, SchedulerTypeOK, RunTable, Chain, Announce
  <2>1. S \in SUBSET AI
    BY <1>2 DEF LoopInv, SchedulerTypeOK, ApprovalRow, NoRow
  <2>2. /\ HasRoom(S) /\ run' = RunForAI(S, wake, run)
        /\ chains' = [W!SweepIdle(chains) EXCEPT ![p] = W!Opened(1)]
        /\ issued' = issued \cup {p}
    BY <1>2 DEF Announce
  <2>3. wake.chain # NoChain
    BY <2>0 DEF W!StartHumanChain
  <2>4. p \notin issued
    BY <2>0 DEF RunInv, AnnouncedOnce
  <2>5. Cardinality(S) = 1
    BY FS_Singleton
  <2>6. W!Admits(S, S) /\ S \in SUBSET S
    BY <2>5, LoopConstants, SameCount DEF W!Admits
  <2>7. Called(S) \in SUBSET S
    BY DEF Called
  <2> HIDE DEF S, wake
  <2>8. WokenRuns' = WokenRuns \cup W!RunsOf(Called(S), wake)
    BY <2>0, <2>1, <2>2, <2>3, WokenAreCalled DEF RunInv
  <2>9. W!HumanWake(p, S)
    BY <2>2, <2>4, <2>5, <2>6, <2>7, <2>8, SameCount DEF W!HumanWake, wake
  <2> QED BY <2>1, <2>9 DEF S
<1> QED BY <1>1, <1>2

\* Tool calls: a teammate is woken through peekWake and authorizeWake.
LEMMA ToolDrives ==
    ASSUME LoopInv, EntriesAreClean, NEW a \in AI, NEW k \in Slot, ToolStep(a, k)
    PROVE  \/ \E cy \in WokenRuns, to \in AI : W!HandOffWake(cy, to)
           \/ UNCHANGED W!vars
<1>1. ASSUME NEW tool \in Tool, Calls(a, k, tool), run' = Settled(a, k, tool),
             UNCHANGED <<chains, issued>>
      PROVE  UNCHANGED W!vars
  <2>1. LET q == Settled(a, k, tool)
        IN  /\ q[a][k].chain = run[a][k].chain /\ q[a][k].hop = run[a][k].hop
            /\ \A b \in AI, j \in Slot : (b # a \/ j # k) => q[b][j] = run[b][j]
    BY <1>1, SettledEntries
  <2>2. WokenRuns' = WokenRuns
    BY <1>1, <2>1, WokenStay
  <2> QED BY <1>1, <2>2 DEF W!vars
<1>2. \A tool : Calls(a, k, tool) => tool \in Tool
  BY ToolTypes DEF Calls
<1>3. ASSUME NEW to \in AI, AssignTask(a, k, to)
      PROVE  \/ \E cy \in WokenRuns : W!HandOffWake(cy, to)
             \/ UNCHANGED W!vars
  <2> DEFINE wake == W!DeriveChildContext(run[a][k], a)
             settled == Settled(a, k, "assign_task")
             cy == WokenRun(a, k)
  <2>1. Calls(a, k, "assign_task") /\ to # a /\ issued' = issued
    BY <1>3 DEF AssignTask
  <2>2. CASE run' = settled /\ UNCHANGED chains
    BY <1>1, <1>2, <2>1, <2>2
  <2>3. CASE /\ run[a][k].chain # NoChain /\ W!PeekWake(to, wake) = "ok"
             /\ W!AuthorizeWake(to, wake)
             /\ IF W!AuthorizeVerdict(to, wake) = "ok"
                THEN HasRoom({to}) /\ run' = RunForAI({to}, wake, settled)
                ELSE run' = settled
    <3>1. cy \in WokenRuns
      BY <2>3, WokenElements
    <3>2. cy.ai = a /\ W!DeriveChildContext(cy, cy.ai) = wake
      BY DEF WokenRun, W!DeriveChildContext
    <3>3. /\ settled \in RunTable
          /\ \A b \in AI, j \in Slot : /\ settled[b][j].chain = run[b][j].chain
                                       /\ settled[b][j].hop = run[b][j].hop
      BY <1>2, <2>1, SettledEntries
    <3>4. {to} \in SUBSET AI /\ wake.chain # NoChain
      BY <2>3 DEF W!DeriveChildContext
    <3> HIDE DEF settled, wake, cy
    <3>5. \/ UNCHANGED WokenRuns
          \/ /\ W!AuthorizeVerdict(to, wake) = "ok"
             /\ WokenRuns' = WokenRuns \cup W!RunsOf({to}, wake)
      <4>1. CASE W!AuthorizeVerdict(to, wake) # "ok"
        BY <2>3, <3>3, <4>1, WokenStay
      <4>2. CASE W!AuthorizeVerdict(to, wake) = "ok"
        <5>1. WokenRuns' = WokenRuns \cup W!RunsOf(Called({to}), wake)
          BY <2>3, <3>3, <3>4, <4>2, WokenAreCalled
        <5>2. CASE to \in inFlight
          <6>1. W!RunsOf(Called({to}), wake) = {}
            BY <5>2 DEF Called, W!RunsOf
          <6> QED BY <5>1, <6>1
        <5>3. CASE to \notin inFlight
          <6>1. Called({to}) = {to}
            BY <5>3 DEF Called
          <6> QED BY <4>2, <5>1, <6>1
        <5> QED BY <5>2, <5>3
      <4> QED BY <4>1, <4>2
    <3> QED BY <2>1, <2>3, <3>1, <3>2, <3>5 DEF W!HandOffWake
  <2> QED BY <1>3, <2>2, <2>3 DEF AssignTask
<1>4. \A p \in Approval : RequestApproval(a, k, p) => UNCHANGED W!vars
  BY <1>1, <1>2 DEF RequestApproval, wakes
<1>5. WebSearch(a, k) => UNCHANGED W!vars
  BY <1>1, <1>2 DEF WebSearch, wakes
<1>6. \A tool \in Tool : ToolFails(a, k, tool) => UNCHANGED W!vars
  BY <1>1 DEF ToolFails, wakes
<1> QED BY <1>3, <1>4, <1>5, <1>6 DEF ToolStep

\* A cycle goes on or ends, which WakeChain leaves to it.
LEMMA CycleDrives ==
    ASSUME LoopInv, NEW a \in AI, NEW k \in Slot, RunStep(a, k), ~ToolStep(a, k)
    PROVE  (\E cy \in WokenRuns : W!FinishCycle(cy)) \/ UNCHANGED W!vars
<1>1. UNCHANGED <<chains, issued>>
  BY CycleForms
<1>2. CASE Freed(a, k)
  BY <1>1, <1>2, WokenEnds DEF W!FinishCycle, W!vars
<1>3. CASE \E pc \in Waiting \cup InCycle, todo \in SUBSET Tool : Moved(a, k, pc, todo)
  <2>1. WokenRuns' = WokenRuns
    BY <1>3, WokenStay DEF Moved, Others
  <2> QED BY <1>1, <2>1 DEF W!vars
<1> QED BY <1>2, <1>3, CycleForms

\* The other steps: the tick and the reports carry no wake context.
LEMMA RestDrives ==
    ASSUME LoopInv, EntriesAreClean,
           \/ TimerFires \/ TickReturns \/ TickFails
           \/ \E a \in Reporter : StartReport(a)
           \/ \E p \in Approval, status \in {"APPROVED", "REJECTED"} : Decide(p, status)
           \/ \E p \in Approval : AnswerLost(p)
           \/ Stop \/ Restart \/ ChainsAge \/ DayEnds
    PROVE  W!ClockTick \/ W!Restart \/ UNCHANGED W!vars
<1>0. run \in RunTable
  BY DEF LoopInv, SchedulerTypeOK, RunTable
<1>1. CASE UNCHANGED <<run, chains, issued>>
  BY <1>1, WokenStay DEF W!vars
<1>2. TimerFires \/ TickFails \/ Stop \/ DayEnds => UNCHANGED <<run, chains, issued>>
  BY DEF TimerFires, TickFails, Stop, DayEnds, wakes
<1>3. \A p \in Approval, status \in {"APPROVED", "REJECTED"} :
         Decide(p, status) \/ AnswerLost(p) => UNCHANGED <<run, chains, issued>>
  BY DEF Decide, AnswerLost, wakes
<1>4. CASE TickReturns
  <2>1. HasRoom(AI) /\ run' = RunForAI(AI, NoWake, run) /\ UNCHANGED <<chains, issued>>
    BY <1>4 DEF TickReturns, wakes
  <2>2. NoWake.chain = NoChain
    BY DEF NoWake
  <2>3. WokenRuns' = WokenRuns
    BY <1>0, <2>1, <2>2, WokenAreCalled
  <2> QED BY <2>1, <2>3 DEF W!vars
<1>5. ASSUME NEW a \in Reporter, StartReport(a) PROVE UNCHANGED W!vars
  <2>1. a \in AI /\ 0 \in Slot /\ UNCHANGED <<chains, issued>>
    BY <1>5, LoopConstants DEF Slot, StartReport, wakes
  <2>2. run' = run \/ Moved(a, 0, "lookup", {})
    BY <1>5, <2>1, GoesToMoves DEF StartReport
  <2>3. WokenRuns' = WokenRuns
    BY <2>1, <2>2, WokenStay DEF Moved, Others
  <2> QED BY <2>1, <2>3 DEF W!vars
<1>6. CASE Restart
  <2>1. \A b \in AI, j \in Slot : run'[b][j].chain = NoChain
    BY <1>6 DEF Restart, Idle
  <2>2. WokenRuns' = {}
    BY <2>1, WokenElementsNext
  <2> QED BY <1>6, <2>2 DEF Restart, W!Restart
<1>7. ChainsAge => W!ClockTick
  BY DEF ChainsAge
<1> QED BY <1>1, <1>2, <1>3, <1>4, <1>5, <1>6, <1>7

\* Every wake of the scheduler goes through the accounts of WakeChain: its
\* mentions, grants and hand-offs are authorizeWake's, in an order WakeChain
\* allows, and its runs are WakeChain's cycles.
THEOREM WakesRefine == Spec => DrivesWakeChain
<1>1. Init => W!Init
  <2> SUFFICES ASSUME Init PROVE WokenRuns = {} /\ W!Init
    BY DEF Init
  <2>1. \A b \in AI, j \in Slot : run[b][j].chain = NoChain
    BY DEF Init, Idle
  <2>2. WokenRuns = {}
    BY <2>1, WokenElements
  <2> QED BY <2>2 DEF Init, W!Init
<1>2. LoopInv /\ RunInv /\ [Next]_vars => [W!Next]_W!vars
  <2> SUFFICES ASSUME LoopInv, RunInv, [Next]_vars PROVE [W!Next]_W!vars
    OBVIOUS
  <2>0. EntriesAreClean /\ Message \subseteq Chain /\ Approval \subseteq Chain
    BY DEF RunInv, Chain
  <2>1. CASE UNCHANGED vars
    BY <2>1, WokenStay DEF vars, W!vars
  <2>2. ASSUME NEW m \in Message, NEW S \in (SUBSET AI) \ {{}}, Mention(m, S)
        PROVE  [W!Next]_W!vars
    BY <2>0, <2>2, MentionDrives DEF W!Next
  <2>3. ASSUME NEW p \in Approval, Announce(p) PROVE [W!Next]_W!vars
    <3>1. CASE UNCHANGED W!vars
      BY <3>1
    <3>2. CASE W!HumanWake(p, {approval[p].ai}) /\ approval[p].ai \in AI
      <4>1. {approval[p].ai} \in (SUBSET AI) \ {{}}
        BY <3>2
      <4> QED BY <2>0, <3>2, <4>1 DEF W!Next
    <3> QED BY <2>3, <3>1, <3>2, AnnounceDrives
  <2>4. ASSUME NEW a \in AI, NEW k \in Slot, RunStep(a, k) PROVE [W!Next]_W!vars
    BY <2>0, <2>4, ToolDrives, CycleDrives DEF W!Next
  <2>5. CASE W!ClockTick \/ W!Restart \/ UNCHANGED W!vars
    BY <2>5 DEF W!Next
  <2> QED BY <2>0, <2>1, <2>2, <2>3, <2>4, <2>5, RestDrives DEF Next
<1> QED BY <1>1, <1>2, RunsAreClean, PTL DEF Spec, DrivesWakeChain, W!Spec

-----------------------------------------------------------------------------
(***************************************************************************)
(* The wakes of the scheduler are within the budgets of their chains.      *)
(* The arguments are those of LimitsProofs: a theorem about WakeChain is   *)
(* not one about its instance W to the provers.                            *)
(***************************************************************************)

\* sweepIdle returns a map of the same type, each entry kept or forgotten.
LEMMA SweepIdleType ==
    ASSUME W!TypeOK
    PROVE  /\ W!SweepIdle(chains) \in [Chain -> W!ChainState]
           /\ \A c \in Chain : \/ W!SweepIdle(chains)[c] = chains[c]
                               \/ W!SweepIdle(chains)[c] = W!Untracked
<1>1. W!Untracked \in W!ChainState
  BY LoopConstants, LimitsAssumption DEF W!Untracked, W!ChainState
<1>2. QED
  BY <1>1 DEF W!SweepIdle, W!TypeOK

\* The number of wakes a human action gets through is a number within the
\* activation budget.
LEMMA AdmittedWithinBudget ==
    ASSUME NEW S \in SUBSET AI, NEW admitted \in SUBSET S, W!Admits(S, admitted)
    PROVE  /\ Cardinality(admitted) \in Nat
           /\ Cardinality(admitted) <= MaxActivations
<1>1. IsFiniteSet(admitted)
  BY LoopConstants, FS_Subset
<1>2. Cardinality(admitted) \in Nat
  BY <1>1, FS_CardinalityType
<1>3. QED
  BY <1>2, SameCount, LoopConstants DEF W!Admits

\* Recording a wake keeps the entry an entry.
LEMMA RecordedType ==
    ASSUME NEW entry \in W!ChainState, NEW to, NEW ctx
    PROVE  W!Recorded(entry, to, ctx) \in W!ChainState
BY LoopConstants, LimitsAssumption DEF W!Recorded, W!ChainState

\* A child context is a context, one hop deeper in the parent's chain.
LEMMA DeriveChildContextType ==
    ASSUME NEW cy \in W!Cycle
    PROVE  /\ W!DeriveChildContext(cy, cy.ai) \in W!Context
           /\ W!DeriveChildContext(cy, cy.ai).chain = cy.chain
BY DEF W!DeriveChildContext, W!Context, W!Cycle

-----------------------------------------------------------------------------
\* authorizeWake leaves the accounts well typed.
LEMMA AuthorizeWakeType ==
    ASSUME W!TypeOK, NEW to \in AI, NEW ctx \in W!Context, W!AuthorizeWake(to, ctx)
    PROVE  chains' \in [Chain -> W!ChainState]
<1> DEFINE m == W!SweepIdle(chains)
<1>1. m \in [Chain -> W!ChainState] /\ ctx.chain \in Chain
  BY SweepIdleType DEF W!Context
<1>2. CASE W!AuthorizeVerdict(to, ctx) = "ok"
  <2>1. chains' = [m EXCEPT ![ctx.chain] = W!Recorded(m[ctx.chain], to, ctx)]
    BY <1>2 DEF W!AuthorizeWake
  <2>2. W!Recorded(m[ctx.chain], to, ctx) \in W!ChainState
    BY <1>1, RecordedType
  <2>3. QED
    BY <1>1, <2>1, <2>2
<1>3. CASE W!AuthorizeVerdict(to, ctx) = "hop_budget"
  BY <1>1, <1>3 DEF W!AuthorizeWake
<1>4. CASE W!AuthorizeVerdict(to, ctx) \notin {"ok", "hop_budget"}
  <2>1. chains' = [m EXCEPT ![ctx.chain].present = TRUE]
    BY <1>4 DEF W!AuthorizeWake
  <2>2. [m[ctx.chain] EXCEPT !.present = TRUE] \in W!ChainState
    BY <1>1 DEF W!ChainState
  <2>3. QED
    BY <1>1, <2>1, <2>2
<1>5. QED
  BY <1>2, <1>3, <1>4

\* The accounts are accounts, and the contexts of the runs are contexts.
LEMMA WakeTypes == W!Spec => []W!TypeOK
<1>1. W!Init => W!TypeOK
  BY LoopConstants, LimitsAssumption DEF W!Init, W!TypeOK, W!Untracked, W!ChainState
<1>2. W!TypeOK /\ [W!Next]_W!vars => W!TypeOK'
  <2> SUFFICES ASSUME W!TypeOK, [W!Next]_W!vars
               PROVE  W!TypeOK'
    OBVIOUS
  <2>1. ASSUME NEW c \in Chain, NEW S \in (SUBSET AI) \ {{}}, W!HumanWake(c, S)
        PROVE  W!TypeOK'
    <3>1. W!SweepIdle(chains) \in [Chain -> W!ChainState]
      BY SweepIdleType
    <3>2. PICK admitted \in SUBSET S :
            /\ W!Admits(S, admitted)
            /\ chains' = [W!SweepIdle(chains) EXCEPT
                            ![c] = W!Opened(Cardinality(admitted))]
            /\ \E started \in SUBSET admitted :
                  WokenRuns' = WokenRuns \cup W!RunsOf(started, W!StartHumanChain(c))
      BY <2>1, SameCount DEF W!HumanWake
    <3>3. Cardinality(admitted) \in Nat
      BY <3>2, AdmittedWithinBudget
    <3>4. W!Opened(Cardinality(admitted)) \in W!ChainState
      BY <3>3, LoopConstants, LimitsAssumption DEF W!Opened, W!ChainState
    <3>5. chains' \in [Chain -> W!ChainState]
      BY <3>1, <3>2, <3>4
    <3>6. WokenRuns' \subseteq W!Cycle
      BY <3>2 DEF W!TypeOK, W!Cycle, W!RunsOf, W!StartHumanChain
    <3>7. issued' \subseteq Chain
      BY <2>1, SameCount DEF W!HumanWake, W!TypeOK
    <3>8. QED
      BY <3>5, <3>6, <3>7 DEF W!TypeOK
  <2>2. ASSUME NEW cy \in WokenRuns, NEW to \in AI, W!HandOffWake(cy, to)
        PROVE  W!TypeOK'
    <3> DEFINE ctx == W!DeriveChildContext(cy, cy.ai)
    <3>1. cy \in W!Cycle /\ ctx \in W!Context
      BY DeriveChildContextType DEF W!TypeOK
    <3>2. chains' \in [Chain -> W!ChainState]
      BY <2>2, <3>1, AuthorizeWakeType DEF W!HandOffWake
    <3>3. WokenRuns' \subseteq W!Cycle
      BY <2>2, <3>1 DEF W!HandOffWake, W!RunsOf, W!TypeOK, W!Context, W!Cycle
    <3>4. QED
      BY <2>2, <3>2, <3>3 DEF W!HandOffWake, W!TypeOK
  <2>3. ASSUME NEW cy \in WokenRuns, NEW to \in AI, W!HandOffSuppressed(cy, to)
        PROVE  W!TypeOK'
    BY <2>3 DEF W!HandOffSuppressed, W!vars, W!TypeOK
  <2>4. ASSUME NEW cy \in WokenRuns, W!FinishCycle(cy)
        PROVE  W!TypeOK'
    BY <2>4 DEF W!FinishCycle, W!TypeOK
  <2>5. CASE W!ClockTick
    <3>1. \A c \in Chain :
            [chains[c] EXCEPT !.idle = IF chains[c].present /\ @ <= IdleTTL
                                       THEN @ + 1 ELSE @] \in W!ChainState
      BY LoopConstants, LimitsAssumption DEF W!TypeOK, W!ChainState
    <3>2. QED
      BY <2>5, <3>1 DEF W!ClockTick, W!TypeOK
  <2>6. CASE UNCHANGED W!vars
    BY <2>6 DEF W!vars, W!TypeOK
  <2>8. CASE W!Restart
    <3>1. W!Untracked \in W!ChainState
      BY LoopConstants, LimitsAssumption DEF W!Untracked, W!ChainState
    <3>2. QED
      BY <2>8, <3>1 DEF W!Restart, W!TypeOK
  <2>7. QED
    BY <2>1, <2>2, <2>3, <2>4, <2>5, <2>6, <2>8 DEF W!Next
<1>3. QED
  BY <1>1, <1>2, PTL DEF W!Spec

-----------------------------------------------------------------------------
\* A run starts at depth 0 or on a wake that authorizeWake let through.
LEMMA WakeDepths == W!Spec => []W!DepthBounded
<1>1. W!Init => W!DepthBounded
  BY DEF W!Init, W!DepthBounded
<1>2. W!TypeOK /\ W!DepthBounded /\ [W!Next]_W!vars => W!DepthBounded'
  <2> SUFFICES ASSUME W!TypeOK, W!DepthBounded, [W!Next]_W!vars
               PROVE  W!DepthBounded'
    OBVIOUS
  <2>1. ASSUME NEW c \in Chain, NEW S \in (SUBSET AI) \ {{}}, W!HumanWake(c, S)
        PROVE  W!DepthBounded'
    BY <2>1, LoopConstants, LimitsAssumption
       DEF W!HumanWake, W!RunsOf, W!StartHumanChain, W!DepthBounded
  <2>2. ASSUME NEW cy \in WokenRuns, NEW to \in AI, W!HandOffWake(cy, to)
        PROVE  W!DepthBounded'
    <3> DEFINE ctx == W!DeriveChildContext(cy, cy.ai)
    <3>1. CASE UNCHANGED WokenRuns
      BY <3>1 DEF W!DepthBounded
    <3>2. CASE /\ W!AuthorizeVerdict(to, ctx) = "ok"
               /\ WokenRuns' = WokenRuns \cup W!RunsOf({to}, ctx)
      <4>1. ctx.hop \in Nat
        BY DeriveChildContextType DEF W!TypeOK, W!Context
      <4>2. ctx.hop <= MaxHops
        BY <3>2, <4>1, LoopConstants, LimitsAssumption DEF W!AuthorizeVerdict, W!Verdict
      <4>3. QED
        BY <3>2, <4>2 DEF W!RunsOf, W!DepthBounded
    <3>3. QED
      BY <2>2, <3>1, <3>2 DEF W!HandOffWake
  <2>3. ASSUME NEW cy \in WokenRuns, NEW to \in AI, W!HandOffSuppressed(cy, to)
        PROVE  W!DepthBounded'
    BY <2>3 DEF W!HandOffSuppressed, W!vars, W!DepthBounded
  <2>4. ASSUME NEW cy \in WokenRuns, W!FinishCycle(cy)
        PROVE  W!DepthBounded'
    BY <2>4 DEF W!FinishCycle, W!DepthBounded
  <2>5. CASE W!ClockTick
    BY <2>5 DEF W!ClockTick, W!DepthBounded
  <2>6. CASE UNCHANGED W!vars
    BY <2>6 DEF W!vars, W!DepthBounded
  <2>8. CASE W!Restart
    BY <2>8 DEF W!Restart, W!DepthBounded
  <2>7. QED
    BY <2>1, <2>2, <2>3, <2>4, <2>5, <2>6, <2>8 DEF W!Next
<1>3. QED
  BY <1>1, <1>2, WakeTypes, PTL DEF W!Spec

-----------------------------------------------------------------------------
\* A wake that W!Verdict lets through finds room in both budgets.
LEMMA VerdictOk ==
    ASSUME NEW m \in [Chain -> W!ChainState], NEW to \in AI, NEW ctx \in W!Context,
           W!Verdict(m, to, ctx) = "ok"
    PROVE  /\ m[ctx.chain].activations < MaxActivations
           /\ ctx.from # Nobody =>
                m[ctx.chain].pairCounts[<<ctx.from, to>>] < MaxPairRepeats
<1>1. m[ctx.chain] \in W!ChainState
  BY DEF W!Context
<1>2. m[ctx.chain].activations \in Nat
  BY <1>1 DEF W!ChainState
<1>3. ctx.from # Nobody => m[ctx.chain].pairCounts[<<ctx.from, to>>] \in Nat
  BY <1>1 DEF W!ChainState, W!Context, W!Pair
<1>4. QED
  BY <1>2, <1>3, LoopConstants, LimitsAssumption DEF W!Verdict

\* One entry of the map keeps to its budgets.
WithinBudget(entry) ==
    /\ entry.activations <= MaxActivations
    /\ \A p \in W!Pair : entry.pairCounts[p] <= MaxPairRepeats

\* Forgetting a chain, opening one and recording an authorized wake keep an
\* entry within its budgets.
LEMMA EntryStepsWithinBudget ==
    /\ WithinBudget(W!Untracked)
    /\ \A n \in Nat : n <= MaxActivations => WithinBudget(W!Opened(n))
    /\ \A entry \in W!ChainState, to \in AI, ctx \in W!Context :
          /\ WithinBudget(entry)
          /\ entry.activations < MaxActivations
          /\ ctx.from # Nobody =>
                entry.pairCounts[<<ctx.from, to>>] < MaxPairRepeats
          => WithinBudget(W!Recorded(entry, to, ctx))
<1>1. WithinBudget(W!Untracked)
  BY LoopConstants, LimitsAssumption DEF WithinBudget, W!Untracked
<1>2. ASSUME NEW n \in Nat, n <= MaxActivations
      PROVE  WithinBudget(W!Opened(n))
  BY <1>2, LoopConstants, LimitsAssumption DEF WithinBudget, W!Opened
<1>3. ASSUME NEW entry \in W!ChainState, NEW to \in AI, NEW ctx \in W!Context,
             WithinBudget(entry),
             entry.activations < MaxActivations,
             ctx.from # Nobody =>
                entry.pairCounts[<<ctx.from, to>>] < MaxPairRepeats
      PROVE  WithinBudget(W!Recorded(entry, to, ctx))
  <2>1. W!Recorded(entry, to, ctx).activations <= MaxActivations
    BY <1>3, LoopConstants, LimitsAssumption DEF W!Recorded, W!ChainState
  <2>2. ASSUME NEW p \in W!Pair
        PROVE  W!Recorded(entry, to, ctx).pairCounts[p] <= MaxPairRepeats
    <3>1. entry.pairCounts[p] \in Nat /\ entry.pairCounts[p] <= MaxPairRepeats
      BY <1>3 DEF W!ChainState, WithinBudget
    <3>2. CASE p = <<ctx.from, to>>
      <4>1. ctx.from # Nobody
        BY <3>2, LoopConstants DEF W!Pair
      <4>2. entry.pairCounts[p] < MaxPairRepeats
        BY <1>3, <3>2, <4>1
      <4>3. QED
        BY <3>1, <3>2, <4>2, LoopConstants, LimitsAssumption DEF W!Recorded
    <3>3. CASE p # <<ctx.from, to>>
      BY <3>1, <3>3 DEF W!Recorded
    <3>4. QED
      BY <3>2, <3>3
  <2>3. QED
    BY <2>1, <2>2 DEF WithinBudget
<1>4. QED
  BY <1>1, <1>2, <1>3

\* W!ChainBudgets says of every entry that it is within its budgets.
LEMMA ChainBudgetsByEntry ==
    /\ W!ChainBudgets <=> \A c \in Chain : WithinBudget(chains[c])
    /\ W!ChainBudgets' <=> \A c \in Chain : WithinBudget(chains'[c])
BY DEF W!ChainBudgets, WithinBudget

\* authorizeWake keeps every chain within its budgets.
LEMMA AuthorizeWakeBudgets ==
    ASSUME W!TypeOK, W!ChainBudgets,
           NEW to \in AI, NEW ctx \in W!Context, W!AuthorizeWake(to, ctx)
    PROVE  W!ChainBudgets'
<1> DEFINE m == W!SweepIdle(chains)
<1>1. m \in [Chain -> W!ChainState] /\ ctx.chain \in Chain
  BY SweepIdleType DEF W!Context
<1>2. \A c \in Chain : WithinBudget(m[c])
  BY SweepIdleType, EntryStepsWithinBudget, ChainBudgetsByEntry
<1>3. CASE W!AuthorizeVerdict(to, ctx) = "ok"
  <2>1. chains' = [m EXCEPT ![ctx.chain] = W!Recorded(m[ctx.chain], to, ctx)]
    BY <1>3 DEF W!AuthorizeWake
  <2>2. WithinBudget(W!Recorded(m[ctx.chain], to, ctx))
    <3>1. /\ m[ctx.chain].activations < MaxActivations
          /\ ctx.from # Nobody =>
                m[ctx.chain].pairCounts[<<ctx.from, to>>] < MaxPairRepeats
      BY <1>1, <1>3, VerdictOk DEF W!AuthorizeVerdict
    <3>2. m[ctx.chain] \in W!ChainState /\ WithinBudget(m[ctx.chain])
      BY <1>1, <1>2
    <3> HIDE DEF m
    <3>3. QED
      BY <3>1, <3>2, EntryStepsWithinBudget
  <2> HIDE DEF m
  <2>3. QED
    BY <1>1, <1>2, <2>1, <2>2, ChainBudgetsByEntry
<1>4. CASE W!AuthorizeVerdict(to, ctx) = "hop_budget"
  <2>1. chains' = m
    BY <1>4 DEF W!AuthorizeWake
  <2>2. QED
    BY <1>2, <2>1, ChainBudgetsByEntry
<1>5. CASE W!AuthorizeVerdict(to, ctx) \notin {"ok", "hop_budget"}
  <2>1. chains' = [m EXCEPT ![ctx.chain].present = TRUE]
    BY <1>5 DEF W!AuthorizeWake
  <2>2. \A c \in Chain : /\ chains'[c].activations = m[c].activations
                         /\ chains'[c].pairCounts = m[c].pairCounts
    BY <1>1, <2>1 DEF W!ChainState
  <2>3. QED
    BY <1>2, <2>2, ChainBudgetsByEntry DEF WithinBudget
<1>6. QED
  BY <1>3, <1>4, <1>5

\* No step takes an entry past a budget.
LEMMA WakeBudgets == W!Spec => []W!ChainBudgets
<1>1. W!Init => W!ChainBudgets
  BY EntryStepsWithinBudget, ChainBudgetsByEntry DEF W!Init
<1>2. W!TypeOK /\ W!ChainBudgets /\ [W!Next]_W!vars => W!ChainBudgets'
  <2> SUFFICES ASSUME W!TypeOK, W!ChainBudgets, [W!Next]_W!vars
               PROVE  W!ChainBudgets'
    OBVIOUS
  <2>1. ASSUME NEW c \in Chain, NEW S \in (SUBSET AI) \ {{}}, W!HumanWake(c, S)
        PROVE  W!ChainBudgets'
    <3>1. PICK admitted \in SUBSET S :
            /\ W!Admits(S, admitted)
            /\ chains' = [W!SweepIdle(chains) EXCEPT
                            ![c] = W!Opened(Cardinality(admitted))]
      BY <2>1, SameCount DEF W!HumanWake
    <3>2. WithinBudget(W!Opened(Cardinality(admitted)))
      BY <3>1, AdmittedWithinBudget, EntryStepsWithinBudget
    <3>3. \A d \in Chain : WithinBudget(W!SweepIdle(chains)[d])
      BY SweepIdleType, EntryStepsWithinBudget, ChainBudgetsByEntry
    <3>4. W!SweepIdle(chains) \in [Chain -> W!ChainState]
      BY SweepIdleType
    <3>5. QED
      BY <3>1, <3>2, <3>3, <3>4, ChainBudgetsByEntry
  <2>2. ASSUME NEW cy \in WokenRuns, NEW to \in AI, W!HandOffWake(cy, to)
        PROVE  W!ChainBudgets'
    <3>1. W!DeriveChildContext(cy, cy.ai) \in W!Context
      BY DeriveChildContextType DEF W!TypeOK
    <3>2. QED
      BY <2>2, <3>1, AuthorizeWakeBudgets DEF W!HandOffWake
  <2>3. ASSUME NEW cy \in WokenRuns, NEW to \in AI, W!HandOffSuppressed(cy, to)
        PROVE  W!ChainBudgets'
    BY <2>3 DEF W!HandOffSuppressed, W!vars, W!ChainBudgets
  <2>4. ASSUME NEW cy \in WokenRuns, W!FinishCycle(cy)
        PROVE  W!ChainBudgets'
    BY <2>4 DEF W!FinishCycle, W!ChainBudgets
  <2>5. CASE W!ClockTick
    <3>1. \A c \in Chain : /\ chains'[c].activations = chains[c].activations
                           /\ chains'[c].pairCounts = chains[c].pairCounts
      BY <2>5 DEF W!ClockTick, W!TypeOK, W!ChainState
    <3>2. QED
      BY <3>1 DEF W!ChainBudgets
  <2>6. CASE UNCHANGED W!vars
    BY <2>6 DEF W!vars, W!ChainBudgets
  <2>8. CASE W!Restart
    BY <2>8, LoopConstants, LimitsAssumption DEF W!Restart, W!Untracked, W!ChainBudgets
  <2>7. QED
    BY <2>1, <2>2, <2>3, <2>4, <2>5, <2>6, <2>8 DEF W!Next
<1>3. QED
  BY <1>1, <1>2, WakeTypes, PTL DEF W!Spec

-----------------------------------------------------------------------------
\* Eviction between the peek and the authorization only empties accounts.
LEMMA PeeksHold == W!Spec => []W!PeekNeverOverpromises
<1>1. W!TypeOK => W!PeekNeverOverpromises
  <2> SUFFICES ASSUME W!TypeOK, NEW cy \in WokenRuns, NEW to \in AI,
                      W!PeekWake(to, W!DeriveChildContext(cy, cy.ai)) = "ok"
               PROVE  W!AuthorizeVerdict(to, W!DeriveChildContext(cy, cy.ai)) = "ok"
    BY DEF W!PeekNeverOverpromises
  <2> DEFINE ctx == W!DeriveChildContext(cy, cy.ai)
  <2>1. ctx \in W!Context
    BY DeriveChildContextType DEF W!TypeOK
  <2>2. ctx.chain \in Chain /\ (ctx.from # Nobody => <<ctx.from, to>> \in W!Pair)
    BY <2>1 DEF W!Context, W!Pair
  <2>3. CASE W!SweepIdle(chains)[ctx.chain] = chains[ctx.chain]
    BY <2>3 DEF W!PeekWake, W!AuthorizeVerdict, W!Verdict
  <2>4. CASE W!SweepIdle(chains)[ctx.chain] = W!Untracked
    <3>1. ~(ctx.hop > MaxHops)
      BY DEF W!PeekWake, W!Verdict
    <3>2. ~(0 >= MaxActivations) /\ ~(0 >= MaxPairRepeats)
      BY LoopConstants, LimitsAssumption
    <3>3. W!AuthorizeVerdict(to, ctx) = "ok"
      <4> HIDE DEF ctx
      <4>1. /\ W!SweepIdle(chains)[ctx.chain].activations = 0
            /\ ctx.from # Nobody =>
                 W!SweepIdle(chains)[ctx.chain].pairCounts[<<ctx.from, to>>] = 0
        BY <2>2, <2>4 DEF W!Untracked
      <4>2. QED
        BY <3>1, <3>2, <4>1 DEF W!AuthorizeVerdict, W!Verdict
    <3>4. QED
      BY <3>3
  <2>5. QED
    BY <2>2, <2>3, <2>4, SweepIdleType
<1>2. QED
  BY <1>1, WakeTypes, PTL

-----------------------------------------------------------------------------
\* No run of the scheduler is deeper in its chain than the hop budget, whoever
\* woke it and whatever was evicted, granted or restarted in between.
THEOREM RunsAreShallow == Spec => []W!DepthBounded
BY WakesRefine, WakeDepths, PTL DEF DrivesWakeChain

\* The mentions, grants and hand-offs of the scheduler together never pass the
\* activation budget of a chain nor the repeat budget of a pair.
THEOREM AccountsAreBounded == Spec => []W!ChainBudgets
BY WakesRefine, WakeBudgets, PTL DEF DrivesWakeChain

\* When assign_task has told the model that the teammate is woken, the
\* listener of the same step does not refuse the wake.
THEOREM RepliesAreTrue == Spec => []W!PeekNeverOverpromises
BY WakesRefine, PeeksHold, PTL DEF DrivesWakeChain

-----------------------------------------------------------------------------
(***************************************************************************)
(* The scheduler drives the daily spend as Budget allows                   *)
(***************************************************************************)
Calling == InCycle \ {"notice"}
Searches(e) == IF "web_search" \in e.todo THEN 1 ELSE 0

\* The three views of Budget, entry by entry.
LEMMA ChargingViews ==
    /\ Charging \in SUBSET (AI \X Slot) /\ Charging' \in SUBSET (AI \X Slot)
    /\ \A b \in AI, j \in Slot : <<b, j>> \in Charging <=> run[b][j].pc \in Calling
    /\ \A b \in AI, j \in Slot : <<b, j>> \in Charging' <=> run'[b][j].pc \in Calling
BY DEF Charging, Calling

LEMMA PostingViews ==
    /\ Posting \in SUBSET (AI \X Slot) /\ Posting' \in SUBSET (AI \X Slot)
    /\ \A b \in AI, j \in Slot : <<b, j>> \in Posting <=> run[b][j].pc = "notice"
    /\ \A b \in AI, j \in Slot : <<b, j>> \in Posting' <=> run'[b][j].pc = "notice"
BY DEF Posting

LEMMA SearchViews ==
    /\ SearchesLeft = [w \in AI \X Slot |-> Searches(run[w[1]][w[2]])]
    /\ SearchesLeft' = [w \in AI \X Slot |-> Searches(run'[w[1]][w[2]])]
BY DEF SearchesLeft, Searches

\* Two sets of runs with the same entries.
LEMMA SameRuns ==
    ASSUME NEW X \in SUBSET (AI \X Slot), NEW Y \in SUBSET (AI \X Slot),
           \A b \in AI, j \in Slot : <<b, j>> \in X <=> <<b, j>> \in Y
    PROVE  X = Y
OBVIOUS

\* A view that a step leaves alone at every entry is unchanged.
LEMMA ViewsStay ==
    /\ (\A b \in AI, j \in Slot : run'[b][j].pc \in Calling <=> run[b][j].pc \in Calling)
          => Charging' = Charging
    /\ (\A b \in AI, j \in Slot : run'[b][j].pc = "notice" <=> run[b][j].pc = "notice")
          => Posting' = Posting
    /\ (\A b \in AI, j \in Slot : Searches(run'[b][j]) = Searches(run[b][j]))
          => SearchesLeft' = SearchesLeft
<1>1. ASSUME \A b \in AI, j \in Slot : run'[b][j].pc \in Calling <=> run[b][j].pc \in Calling
      PROVE  Charging' = Charging
  <2>1. \A b \in AI, j \in Slot : <<b, j>> \in Charging' <=> <<b, j>> \in Charging
    BY <1>1, ChargingViews
  <2> QED BY <2>1, ChargingViews, SameRuns
<1>2. ASSUME \A b \in AI, j \in Slot : run'[b][j].pc = "notice" <=> run[b][j].pc = "notice"
      PROVE  Posting' = Posting
  <2>1. \A b \in AI, j \in Slot : <<b, j>> \in Posting' <=> <<b, j>> \in Posting
    BY <1>2, PostingViews
  <2> QED BY <2>1, PostingViews, SameRuns
<1>3. ASSUME \A b \in AI, j \in Slot : Searches(run'[b][j]) = Searches(run[b][j])
      PROVE  SearchesLeft' = SearchesLeft
  <2>1. \A w \in AI \X Slot : Searches(run'[w[1]][w[2]]) = Searches(run[w[1]][w[2]])
    BY <1>3
  <2> QED BY <2>1, SearchViews
<1> QED BY <1>1, <1>2, <1>3

\* The same for the step of one run.
LEMMA ViewsKeep ==
    ASSUME NEW a \in AI, NEW k \in Slot, Others(a, k)
    PROVE  /\ (run'[a][k].pc \in Calling <=> run[a][k].pc \in Calling) => Charging' = Charging
           /\ (run'[a][k].pc = "notice" <=> run[a][k].pc = "notice") => Posting' = Posting
           /\ Searches(run'[a][k]) = Searches(run[a][k]) => SearchesLeft' = SearchesLeft
<1>1. ASSUME run'[a][k].pc \in Calling <=> run[a][k].pc \in Calling PROVE Charging' = Charging
  <2>1. \A b \in AI, j \in Slot : run'[b][j].pc \in Calling <=> run[b][j].pc \in Calling
    BY <1>1 DEF Others
  <2> QED BY <2>1, ViewsStay
<1>2. ASSUME run'[a][k].pc = "notice" <=> run[a][k].pc = "notice" PROVE Posting' = Posting
  <2>1. \A b \in AI, j \in Slot : run'[b][j].pc = "notice" <=> run[b][j].pc = "notice"
    BY <1>2 DEF Others
  <2> QED BY <2>1, ViewsStay
<1>3. ASSUME Searches(run'[a][k]) = Searches(run[a][k]) PROVE SearchesLeft' = SearchesLeft
  <2>1. \A b \in AI, j \in Slot : Searches(run'[b][j]) = Searches(run[b][j])
    BY <1>3 DEF Others
  <2> QED BY <2>1, ViewsStay
<1> QED BY <1>1, <1>2, <1>3

\* The step of one run, as Budget sees it.
LEMMA ViewsMove ==
    ASSUME NEW a \in AI, NEW k \in Slot, Others(a, k)
    PROVE  /\ Charging' = IF run'[a][k].pc \in Calling THEN Charging \cup {<<a, k>>}
                          ELSE Charging \ {<<a, k>>}
           /\ Posting' = IF run'[a][k].pc = "notice" THEN Posting \cup {<<a, k>>}
                         ELSE Posting \ {<<a, k>>}
           /\ SearchesLeft' = [SearchesLeft EXCEPT ![<<a, k>>] = Searches(run'[a][k])]
<1>1. \A b \in AI, j \in Slot : (b # a \/ j # k) <=> <<b, j>> # <<a, k>>
  OBVIOUS
<1>2. \A b \in AI, j \in Slot : <<b, j>> # <<a, k>> => run'[b][j] = run[b][j]
  BY DEF Others
<1>3. Charging' = IF run'[a][k].pc \in Calling THEN Charging \cup {<<a, k>>}
                  ELSE Charging \ {<<a, k>>}
  <2> DEFINE Y == IF run'[a][k].pc \in Calling THEN Charging \cup {<<a, k>>}
                  ELSE Charging \ {<<a, k>>}
  <2>1. Y \in SUBSET (AI \X Slot)
    BY ChargingViews
  <2>2. ASSUME NEW b \in AI, NEW j \in Slot
        PROVE  <<b, j>> \in Charging' <=> <<b, j>> \in Y
    <3>1. <<b, j>> = <<a, k>> => b = a /\ j = k
      OBVIOUS
    <3>2. CASE <<b, j>> = <<a, k>>
      BY <3>1, <3>2, ChargingViews
    <3>3. CASE <<b, j>> # <<a, k>>
      BY <1>2, <3>3, ChargingViews
    <3> QED BY <3>2, <3>3
  <2> HIDE DEF Y
  <2>3. Charging' = Y
    BY <2>1, <2>2, ChargingViews, SameRuns
  <2> QED BY <2>3 DEF Y
<1>4. Posting' = IF run'[a][k].pc = "notice" THEN Posting \cup {<<a, k>>}
                 ELSE Posting \ {<<a, k>>}
  <2> DEFINE Y == IF run'[a][k].pc = "notice" THEN Posting \cup {<<a, k>>}
                  ELSE Posting \ {<<a, k>>}
  <2>1. Y \in SUBSET (AI \X Slot)
    BY PostingViews
  <2>2. ASSUME NEW b \in AI, NEW j \in Slot
        PROVE  <<b, j>> \in Posting' <=> <<b, j>> \in Y
    <3>1. <<b, j>> = <<a, k>> => b = a /\ j = k
      OBVIOUS
    <3>2. CASE <<b, j>> = <<a, k>>
      BY <3>1, <3>2, PostingViews
    <3>3. CASE <<b, j>> # <<a, k>>
      BY <1>2, <3>3, PostingViews
    <3> QED BY <3>2, <3>3
  <2> HIDE DEF Y
  <2>3. Posting' = Y
    BY <2>1, <2>2, PostingViews, SameRuns
  <2> QED BY <2>3 DEF Y
<1>5. SearchesLeft' = [SearchesLeft EXCEPT ![<<a, k>>] = Searches(run'[a][k])]
  <2>1. ASSUME NEW w \in AI \X Slot
        PROVE  Searches(run'[w[1]][w[2]]) = IF w = <<a, k>> THEN Searches(run'[a][k])
                                            ELSE Searches(run[w[1]][w[2]])
    <3>1. CASE w = <<a, k>>
      BY <3>1
    <3>2. CASE w # <<a, k>>
      <4>1. w[1] \in AI /\ w[2] \in Slot /\ (w[1] # a \/ w[2] # k)
        BY <3>2
      <4> QED BY <3>2, <4>1 DEF Others
    <3> QED BY <3>1, <3>2
  <2>2. SearchesLeft' = [w \in AI \X Slot |-> IF w = <<a, k>> THEN Searches(run'[a][k])
                                              ELSE Searches(run[w[1]][w[2]])]
    BY <2>1, SearchViews
  <2> QED BY <2>2, SearchViews
<1> QED BY <1>3, <1>4, <1>5

\* The entries Budget counts no search for.
LEMMA NoSearches ==
    /\ Searches(Idle) = 0
    /\ \A e : e.todo = {} => Searches(e) = 0
    /\ "idle" \notin Calling \cup {"notice"}
BY DEF Searches, Idle, Calling, InCycle

\* A step of one run that Budget does not see.
LEMMA QuietStep ==
    ASSUME NEW a \in AI, NEW k \in Slot, Others(a, k), UNCHANGED spend,
           run'[a][k].pc \in Calling <=> run[a][k].pc \in Calling,
           run'[a][k].pc = "notice" <=> run[a][k].pc = "notice",
           Searches(run'[a][k]) = Searches(run[a][k])
    PROVE  UNCHANGED B!budgetVars
<1>1. Charging' = Charging /\ SearchesLeft' = SearchesLeft /\ Posting' = Posting
  BY ViewsKeep
<1> QED BY <1>1 DEF B!budgetVars, spend

\* A run passes the gate or is turned away by it.
LEMMA GateDrives ==
    ASSUME NEW a \in AI, NEW k \in Slot, run[a][k].pc \notin Calling \cup {"notice"},
           B!Charge(0),
           \/ B!ShouldPause /\ Others(a, k) /\ Searches(run'[a][k]) = 0
              /\ run'[a][k].pc \notin Calling \cup {"notice"}
           \/ ~B!ShouldPause /\ Moved(a, k, "lookup", {})
    PROVE  B!Gate(<<a, k>>)
<1> DEFINE c == <<a, k>>
<1>1. Others(a, k) /\ Searches(run'[a][k]) = 0
  BY NoSearches DEF Moved
<1>2. c \notin Charging \cup Posting
  BY ChargingViews, PostingViews
<1>3. run'[a][k].pc # "notice" /\ (run'[a][k].pc \in Calling <=> ~B!ShouldPause)
  BY DEF Moved, Calling, InCycle
<1>4. SearchesLeft' = [SearchesLeft EXCEPT ![c] = 0]
  BY <1>1, ViewsMove
<1>5. Posting' = Posting
  BY <1>1, <1>3, ViewsKeep
<1>6. Charging' = IF B!ShouldPause THEN Charging ELSE Charging \cup {c}
  <2>1. CASE B!ShouldPause
    BY <1>1, <1>3, <2>1, ViewsKeep
  <2>2. CASE ~B!ShouldPause
    BY <1>1, <1>3, <2>2, ViewsMove
  <2> QED BY <2>1, <2>2
<1> HIDE DEF c
<1>7. B!Gate(c)
  BY <1>2, <1>4, <1>5, <1>6 DEF B!Gate
<1> QED BY <1>7 DEF c

\* A cycle ends without the breaker.
LEMMA EndDrives ==
    ASSUME NEW a \in AI, NEW k \in Slot, run[a][k].pc \in Calling,
           Searches(run[a][k]) = 0, Freed(a, k), B!Charge(0) \/ UNCHANGED spend
    PROVE  B!EndCycle(<<a, k>>)
<1>1. /\ Others(a, k) /\ Searches(run'[a][k]) = Searches(run[a][k])
      /\ run'[a][k].pc \notin Calling \cup {"notice"}
      /\ run[a][k].pc # "notice"
  <2>1. Idle.pc = "idle"
    BY DEF Idle
  <2> QED BY <2>1, NoSearches DEF Freed, Calling
<1>2. <<a, k>> \in Charging /\ <<a, k>> \notin Posting
  BY <1>1, ChargingViews, PostingViews
<1>3. Charging' = Charging \ {<<a, k>>} /\ Posting' = Posting
  BY <1>1, ViewsMove, ViewsKeep
<1>4. SearchesLeft' = SearchesLeft
  BY <1>1, ViewsKeep
<1> QED BY <1>2, <1>3, <1>4 DEF B!EndCycle, spend

\* A response of the model is charged.
LEMMA TrackDrives ==
    ASSUME NEW a \in AI, NEW k \in Slot, NEW usd \in 0..MaxCost, NEW calls \in SUBSET Tool,
           LoopInv, ModelReturns(a, k, usd, calls)
    PROVE  \E n \in 0..1 : B!Track(<<a, k>>, usd, n)
<1> DEFINE c == <<a, k>>
           n == Searches(run'[a][k])
<1>1. /\ run[a][k].pc = "model" /\ run[a][k].pc \in Calling /\ B!Charge(usd)
      /\ c \in Charging /\ c \notin Posting
  BY ChargingViews, PostingViews DEF ModelReturns, Calling, InCycle
<1>2. n \in 0..1
  BY DEF Searches
<1>3. CASE B!Exceeds(usd) /\ Moved(a, k, "notice", {})
  <2>1. Others(a, k) /\ n = 0 /\ run'[a][k].pc = "notice" /\ run'[a][k].pc \notin Calling
    BY <1>3, NoSearches DEF Moved, Calling
  <2>2. /\ Charging' = Charging \ {c} /\ Posting' = Posting \cup {c}
        /\ SearchesLeft' = [SearchesLeft EXCEPT ![c] = n]
    BY <2>1, ViewsMove
  <2> HIDE DEF c, n
  <2> QED BY <1>1, <1>2, <1>3, <2>1, <2>2 DEF B!Track, c
<1>4. CASE ~B!Exceeds(usd) /\ Freed(a, k)
  <2>1. Others(a, k) /\ n = 0 /\ run'[a][k].pc \notin Calling \cup {"notice"}
    <3>1. Idle.pc = "idle"
      BY DEF Idle
    <3> QED BY <1>4, <3>1, NoSearches DEF Freed
  <2>2. /\ Charging' = Charging \ {c} /\ Posting' = Posting
        /\ SearchesLeft' = [SearchesLeft EXCEPT ![c] = n]
    BY <1>1, <2>1, ViewsMove, ViewsKeep
  <2> HIDE DEF c, n
  <2> QED BY <1>1, <1>2, <1>4, <2>1, <2>2 DEF B!Track, c
<1>5. CASE ~B!Exceeds(usd) /\ Moved(a, k, "tools", calls)
  <2>1. Others(a, k) /\ run'[a][k].pc # "notice" /\ run'[a][k].pc \in Calling
    BY <1>5 DEF Moved, Calling, InCycle
  <2>2. /\ Charging' = Charging /\ Posting' = Posting
        /\ SearchesLeft' = [SearchesLeft EXCEPT ![c] = n]
    BY <1>1, <2>1, ViewsMove, ViewsKeep
  <2> HIDE DEF c, n
  <2> QED BY <1>1, <1>2, <1>5, <2>1, <2>2 DEF B!Track, c
<1>6. \/ B!Exceeds(usd) /\ Moved(a, k, "notice", {})
      \/ ~B!Exceeds(usd) /\ Freed(a, k)
      \/ ~B!Exceeds(usd) /\ Moved(a, k, "tools", calls)
  BY GoesToMoves, EndedFrees DEF ModelReturns, FinishCycle
<1> QED BY <1>3, <1>4, <1>5, <1>6

\* The breaker's notice is posted.
LEMMA NoticeDrives ==
    ASSUME NEW a \in AI, NEW k \in Slot, LoopInv, EntriesAreClean, NoticePosted(a, k)
    PROVE  B!NoticePosted(<<a, k>>)
<1>1. run[a][k].pc = "notice" /\ Freed(a, k) /\ B!Charge(0)
  BY EndedFrees DEF NoticePosted, FinishCycle
<1>2. /\ Others(a, k) /\ Searches(run'[a][k]) = Searches(run[a][k])
      /\ run'[a][k].pc \notin Calling \cup {"notice"}
  <2>1. Idle.pc = "idle"
    BY DEF Idle
  <2>2. run[a][k].todo = {}
    BY <1>1 DEF EntriesAreClean, Clean
  <2> QED BY <1>1, <2>1, <2>2, NoSearches DEF Freed
<1>3. <<a, k>> \notin Charging /\ <<a, k>> \in Posting
  BY <1>1, ChargingViews, PostingViews DEF Calling
<1>4. Charging' = Charging /\ Posting' = Posting \ {<<a, k>>}
  BY <1>1, <1>2, ViewsMove, ViewsKeep DEF Calling
<1>5. SearchesLeft' = SearchesLeft
  BY <1>2, ViewsKeep
<1> QED BY <1>1, <1>3, <1>4, <1>5 DEF B!NoticePosted

\* The steps of a cycle outside its tools.
LEMMA CycleSpends ==
    ASSUME LoopInv, EntriesAreClean, NEW a \in AI, NEW k \in Slot,
           RunStep(a, k), ~ToolStep(a, k)
    PROVE  [B!BudgetNext]_B!budgetVars
<1>0. /\ <<a, k>> \in AI \X Slot
      /\ Idle.pc = "idle" /\ Searches(Idle) = 0
      /\ \A pc \in {"query", "clear", "idle"} : pc \notin Calling /\ pc # "notice"
      /\ \A pc \in {"lookup", "context", "model"} : pc \in Calling /\ pc # "notice"
      /\ run[a][k].pc # "tools" => Searches(run[a][k]) = 0
  BY NoSearches DEF Idle, Calling, InCycle, EntriesAreClean, Clean
<1>1. CASE PendingRead(a, k) \/ PendingReadFails(a, k)
  <2>1. run[a][k].pc = "query" /\ UNCHANGED spend
    BY <1>1 DEF PendingRead, PendingReadFails
  <2>2. Freed(a, k) \/ Moved(a, k, "clear", {})
    BY <1>1, GoesToMoves, EndedFrees DEF PendingRead, PendingReadFails
  <2>3. /\ Others(a, k) /\ Searches(run'[a][k]) = 0
        /\ run'[a][k].pc \in {"clear", "idle"}
    BY <1>0, <2>2, NoSearches DEF Freed, Moved
  <2>4. UNCHANGED B!budgetVars
    BY <1>0, <2>1, <2>3, QuietStep
  <2> QED BY <2>4
<1>2. CASE PassGate(a, k)
  <2>1. /\ run[a][k].pc = "clear" /\ B!Charge(0)
        /\ \/ B!ShouldPause /\ Freed(a, k)
           \/ ~B!ShouldPause /\ Moved(a, k, "lookup", {})
    BY <1>2, GoesToMoves, EndedFrees DEF PassGate
  <2>2. Freed(a, k) => /\ Others(a, k) /\ Searches(run'[a][k]) = 0
                       /\ run'[a][k].pc = "idle"
    BY <1>0 DEF Freed
  <2>3. B!Gate(<<a, k>>)
    BY <1>0, <2>1, <2>2, GateDrives
  <2> QED BY <1>0, <2>3 DEF B!BudgetNext
<1>3. CASE LookupFails(a, k)
  <2>1. run[a][k].pc = "lookup" /\ UNCHANGED spend /\ Freed(a, k)
    BY <1>3, EndedFrees DEF LookupFails
  <2>2. B!EndCycle(<<a, k>>)
    BY <1>0, <2>1, EndDrives
  <2> QED BY <1>0, <2>2 DEF B!BudgetNext
<1>4. CASE LookupReturns(a, k) \/ ContextReturns(a, k)
  <2>1. run[a][k].pc \in {"lookup", "context"} /\ UNCHANGED spend
    BY <1>4 DEF LookupReturns, ContextReturns
  <2>2. Moved(a, k, "context", {}) \/ Moved(a, k, "model", {})
    BY <1>4, GoesToMoves DEF LookupReturns, ContextReturns
  <2>3. /\ Others(a, k) /\ Searches(run'[a][k]) = 0
        /\ run'[a][k].pc \in {"context", "model"}
    BY <2>2, NoSearches DEF Moved
  <2>4. UNCHANGED B!budgetVars
    BY <1>0, <2>1, <2>3, QuietStep
  <2> QED BY <2>4
<1>5. CASE CycleFails(a, k)
  <2>1. run[a][k].pc \in {"context", "model"} /\ B!Charge(0) /\ Freed(a, k)
    BY <1>5, EndedFrees DEF CycleFails, FinishCycle
  <2>2. B!EndCycle(<<a, k>>)
    BY <1>0, <2>1, EndDrives
  <2> QED BY <1>0, <2>2 DEF B!BudgetNext
<1>6. ASSUME NEW usd \in 0..MaxCost, NEW calls \in SUBSET Tool,
             ModelReturns(a, k, usd, calls)
      PROVE  [B!BudgetNext]_B!budgetVars
  BY <1>0, <1>6, TrackDrives DEF B!BudgetNext
<1>7. CASE RoundEnds(a, k)
  <2>1. /\ run[a][k].pc = "tools" /\ run[a][k].pc \in Calling /\ run[a][k].pc # "notice"
        /\ Searches(run[a][k]) = 0
    BY <1>7, NoSearches DEF RoundEnds, Calling, InCycle
  <2>2. \/ Moved(a, k, "model", {}) /\ UNCHANGED spend
        \/ Freed(a, k) /\ B!Charge(0)
    BY <1>7, GoesToMoves, EndedFrees DEF RoundEnds, FinishCycle
  <2>3. CASE Moved(a, k, "model", {}) /\ UNCHANGED spend
    <3>1. Others(a, k) /\ Searches(run'[a][k]) = 0 /\ run'[a][k].pc = "model"
      BY <2>3, NoSearches DEF Moved
    <3>2. UNCHANGED B!budgetVars
      BY <1>0, <2>1, <2>3, <3>1, QuietStep
    <3> QED BY <3>2
  <2>4. CASE Freed(a, k) /\ B!Charge(0)
    <3>1. B!EndCycle(<<a, k>>)
      BY <2>1, <2>4, EndDrives
    <3> QED BY <1>0, <3>1 DEF B!BudgetNext
  <2> QED BY <2>2, <2>3, <2>4
<1>8. CASE NoticePosted(a, k)
  BY <1>0, <1>8, NoticeDrives DEF B!BudgetNext
<1> QED BY <1>1, <1>2, <1>3, <1>4, <1>5, <1>6, <1>7, <1>8 DEF RunStep

\* A settled call, as Budget sees it: a search is paid or fails, the other
\* tools are free.
LEMMA SettledSpends ==
    ASSUME LoopInv, NEW a \in AI, NEW k \in Slot, NEW tool \in Tool, Calls(a, k, tool),
           run' = Settled(a, k, tool),
           \/ UNCHANGED spend
           \/ tool = "web_search" /\ B!Charge(SearchFee)
    PROVE  [B!BudgetNext]_B!budgetVars
<1>0. /\ Others(a, k) /\ run'[a][k].todo = run[a][k].todo \ {tool}
      /\ run[a][k].pc = "tools" /\ run'[a][k].pc = "tools"
      /\ tool \in run[a][k].todo /\ "tools" \in Calling
  BY SettledEntries DEF Others, Calls, Calling, InCycle
<1>1. CASE tool # "web_search"
  <2>1. Searches(run'[a][k]) = Searches(run[a][k])
    BY <1>0, <1>1 DEF Searches
  <2>2. UNCHANGED B!budgetVars
    BY <1>0, <1>1, <2>1, QuietStep
  <2> QED BY <2>2
<1>2. CASE tool = "web_search"
  <2> DEFINE c == <<a, k>>
  <2>1. Searches(run[a][k]) = 1 /\ Searches(run'[a][k]) = 0
    BY <1>0, <1>2 DEF Searches
  <2>2. c \in AI \X Slot /\ c \in Charging /\ SearchesLeft[c] = 1
    BY <1>0, <2>1, ChargingViews, SearchViews
  <2>3. Charging' = Charging /\ Posting' = Posting
    BY <1>0, ViewsKeep
  <2>4. SearchesLeft' = [SearchesLeft EXCEPT ![c] = 0]
    BY <1>0, <2>1, ViewsMove
  <2> HIDE DEF c
  <2>5. SearchesLeft' = [SearchesLeft EXCEPT ![c] = @ - 1] /\ SearchesLeft[c] > 0
    BY <2>2, <2>4
  <2>6. CASE B!Charge(SearchFee)
    BY <2>2, <2>3, <2>5, <2>6 DEF B!BudgetNext, B!TrackSearch
  <2>7. CASE UNCHANGED spend
    BY <2>2, <2>3, <2>5, <2>7 DEF B!BudgetNext, B!SearchFails, spend
  <2> QED BY <2>6, <2>7
<1> QED BY <1>1, <1>2

\* A call of runs is nothing Budget sees: the new runs still have to pass
\* the gate.
LEMMA CallsSpend ==
    ASSUME LoopInv, EntriesAreClean, NEW r \in RunTable, NEW S \in SUBSET AI, HasRoom(S),
           NEW wake, run' = RunForAI(S, wake, r), UNCHANGED spend,
           \A b \in AI, j \in Slot : /\ r[b][j].pc = run[b][j].pc
                                     /\ Searches(r[b][j]) = Searches(run[b][j])
    PROVE  UNCHANGED B!budgetVars
<1>1. \A b : NewRun(b, wake).pc = "query" /\ Searches(NewRun(b, wake)) = 0
  BY NoSearches DEF NewRun
<1>2. "query" \notin Calling /\ Idle.pc = "idle"
  BY DEF Calling, InCycle, Idle
<1>3. /\ \A b \in AI, j \in Slot : ~SlotFor(b, j, S) => run'[b][j] = r[b][j]
      /\ \A b \in AI, j \in Slot : SlotFor(b, j, S) =>
            run[b][j] = Idle /\ run'[b][j] = NewRun(b, wake)
  BY CalledEntries
<1>4. ASSUME NEW b \in AI, NEW j \in Slot
      PROVE  /\ run'[b][j].pc \in Calling <=> run[b][j].pc \in Calling
             /\ run'[b][j].pc = "notice" <=> run[b][j].pc = "notice"
             /\ Searches(run'[b][j]) = Searches(run[b][j])
  <2>1. CASE SlotFor(b, j, S)
    BY <1>1, <1>2, <1>3, <2>1, NoSearches
  <2>2. CASE ~SlotFor(b, j, S)
    BY <1>3, <2>2
  <2> QED BY <2>1, <2>2
<1>5. Charging' = Charging /\ SearchesLeft' = SearchesLeft /\ Posting' = Posting
  BY <1>4, ViewsStay
<1> QED BY <1>5 DEF B!budgetVars, spend

\* The tool calls of a round.
LEMMA ToolSpends ==
    ASSUME LoopInv, EntriesAreClean, NEW a \in AI, NEW k \in Slot, ToolStep(a, k)
    PROVE  [B!BudgetNext]_B!budgetVars
<1>1. \A tool : Calls(a, k, tool) => tool \in Tool
  BY ToolTypes DEF Calls
<1>2. ASSUME NEW p \in Approval, RequestApproval(a, k, p) PROVE [B!BudgetNext]_B!budgetVars
  BY <1>1, <1>2, SettledSpends DEF RequestApproval
<1>3. CASE WebSearch(a, k)
  BY <1>1, <1>3, SettledSpends DEF WebSearch
<1>4. ASSUME NEW tool \in Tool, ToolFails(a, k, tool) PROVE [B!BudgetNext]_B!budgetVars
  BY <1>4, SettledSpends DEF ToolFails
<1>5. ASSUME NEW to \in AI, AssignTask(a, k, to) PROVE [B!BudgetNext]_B!budgetVars
  <2> DEFINE wake == W!DeriveChildContext(run[a][k], a)
             settled == Settled(a, k, "assign_task")
  <2>1. Calls(a, k, "assign_task") /\ UNCHANGED spend
    BY <1>5 DEF AssignTask
  <2>2. CASE run' = settled
    BY <1>1, <2>1, <2>2, SettledSpends
  <2>3. CASE HasRoom({to}) /\ run' = RunForAI({to}, wake, settled)
    <3>1. /\ settled \in RunTable
          /\ settled[a][k].pc = "tools" /\ settled[a][k].todo = run[a][k].todo \ {"assign_task"}
          /\ \A b \in AI, j \in Slot : (b # a \/ j # k) => settled[b][j] = run[b][j]
      BY <1>1, <2>1, SettledEntries
    <3>2. run[a][k].pc = "tools"
      BY <2>1 DEF Calls
    <3> HIDE DEF settled, wake
    <3>3. Searches(settled[a][k]) = Searches(run[a][k])
      BY <3>1 DEF Searches
    <3>4. \A b \in AI, j \in Slot : /\ settled[b][j].pc = run[b][j].pc
                                    /\ Searches(settled[b][j]) = Searches(run[b][j])
      BY <3>1, <3>2, <3>3
    <3>5. {to} \in SUBSET AI
      OBVIOUS
    <3>6. UNCHANGED B!budgetVars
      BY <2>1, <2>3, <3>1, <3>4, <3>5, CallsSpend
    <3> QED BY <3>6
  <2> QED BY <1>5, <2>2, <2>3 DEF AssignTask
<1> QED BY <1>2, <1>3, <1>4, <1>5 DEF ToolStep

\* The other steps: mentions, ticks, grants, reports, a restart, midnight.
LEMMA RestSpends ==
    ASSUME LoopInv, EntriesAreClean, [Next]_vars,
           ~(\E a \in AI, k \in Slot : RunStep(a, k))
    PROVE  [B!BudgetNext]_B!budgetVars
<1>0. run \in RunTable
  BY DEF LoopInv, SchedulerTypeOK, RunTable
<1>1. CASE UNCHANGED <<run, todayUSD, dayOver>>
  BY <1>1, ViewsStay DEF B!budgetVars
<1>2. /\ TimerFires \/ TickFails \/ Stop \/ ChainsAge \/ UNCHANGED vars
            => UNCHANGED <<run, todayUSD, dayOver>>
      /\ \A p \in Approval, status \in {"APPROVED", "REJECTED"} :
            Decide(p, status) \/ AnswerLost(p) => UNCHANGED <<run, todayUSD, dayOver>>
  BY DEF TimerFires, TickFails, Stop, ChainsAge, vars, Decide, AnswerLost, spend
<1>3. ASSUME NEW m \in Message, NEW S \in SUBSET AI, Mention(m, S)
      PROVE  UNCHANGED B!budgetVars
  <2>1. PICK admitted \in SUBSET S : run' = RunForAI(admitted, W!StartHumanChain(m), run)
    BY <1>3 DEF Mention
  <2>2. HasRoom(admitted) /\ UNCHANGED spend
    BY <1>3, <2>1 DEF Mention, HasRoom, Called
  <2> QED BY <1>0, <2>1, <2>2, CallsSpend
<1>4. CASE TickReturns
  BY <1>0, <1>4, CallsSpend DEF TickReturns
<1>5. ASSUME NEW a \in Reporter, StartReport(a) PROVE [B!BudgetNext]_B!budgetVars
  <2>1. /\ a \in AI /\ 0 \in Slot /\ B!Charge(0) /\ run[a][0].pc = "idle"
        /\ <<a, 0>> \in AI \X Slot
    BY <1>5, LoopConstants DEF Slot, StartReport
  <2>2. "idle" \notin Calling \cup {"notice"}
    BY NoSearches
  <2>3. \/ B!ShouldPause /\ run' = run
        \/ ~B!ShouldPause /\ Moved(a, 0, "lookup", {})
    BY <1>5, <2>1, GoesToMoves DEF StartReport
  <2>4. run' = run => Others(a, 0) /\ Searches(run'[a][0]) = 0 /\ run'[a][0].pc = "idle"
    BY <2>1, NoSearches DEF Others, EntriesAreClean, Clean
  <2>5. B!Gate(<<a, 0>>)
    BY <2>1, <2>2, <2>3, <2>4, GateDrives
  <2> QED BY <2>1, <2>5 DEF B!BudgetNext
<1>6. ASSUME NEW p \in Approval, Announce(p), run' # run PROVE UNCHANGED B!budgetVars
  <2>1. /\ HasRoom({approval[p].ai}) /\ approval[p].status = "APPROVED"
        /\ run' = RunForAI({approval[p].ai}, W!StartHumanChain(p), run)
        /\ UNCHANGED spend
    BY <1>6 DEF Announce
  <2>2. {approval[p].ai} \in SUBSET AI
    BY <2>1 DEF LoopInv, SchedulerTypeOK, ApprovalRow, NoRow
  <2> QED BY <1>0, <2>1, <2>2, CallsSpend
<1>7. ASSUME NEW p \in Approval, Announce(p), run' = run PROVE UNCHANGED B!budgetVars
  <2>1. UNCHANGED <<run, todayUSD, dayOver>>
    BY <1>7 DEF Announce, spend
  <2> QED BY <2>1, ViewsStay DEF B!budgetVars
<1>8. CASE Restart
  <2>1. \A b \in AI, j \in Slot : run'[b][j] = Idle
    BY <1>8 DEF Restart
  <2>2. Charging' = {} /\ Posting' = {}
    BY <2>1, NoSearches DEF Charging, Posting, Calling, Idle, InCycle
  <2>3. SearchesLeft' = [c \in AI \X Slot |-> 0]
    BY <2>1, NoSearches, SearchViews
  <2> QED BY <1>8, <2>2, <2>3 DEF Restart, B!BudgetNext, B!BudgetRestart
<1>9. CASE DayEnds
  <2>1. Charging' = Charging /\ SearchesLeft' = SearchesLeft /\ Posting' = Posting
    BY <1>9, ViewsStay DEF DayEnds
  <2> QED BY <1>9, <2>1 DEF DayEnds, B!BudgetNext, B!Midnight
<1> QED BY <1>1, <1>2, <1>3, <1>4, <1>5, <1>6, <1>7, <1>8, <1>9 DEF Next

\* Every charge of the scheduler is one of budget.ts: a run passes the gate
\* once before it can call the model, every response and every search is
\* charged to a run that passed, and the breaker ends it.
THEOREM SpendRefines == Spec => DrivesBudget
<1>1. Init => B!BudgetInit
  <2> SUFFICES ASSUME Init PROVE B!BudgetInit
    OBVIOUS
  <2>1. \A b \in AI, j \in Slot : run[b][j] = Idle
    BY DEF Init
  <2>2. Charging = {} /\ Posting = {}
    BY <2>1, NoSearches DEF Charging, Posting, Calling, Idle, InCycle
  <2>3. SearchesLeft = [c \in AI \X Slot |-> 0]
    BY <2>1, NoSearches, SearchViews
  <2> QED BY <2>2, <2>3 DEF Init, B!BudgetInit
<1>2. LoopInv /\ RunInv /\ [Next]_vars => [B!BudgetNext]_B!budgetVars
  <2> SUFFICES ASSUME LoopInv, EntriesAreClean, [Next]_vars
               PROVE  [B!BudgetNext]_B!budgetVars
    BY DEF RunInv
  <2>1. ASSUME NEW a \in AI, NEW k \in Slot, RunStep(a, k)
        PROVE  [B!BudgetNext]_B!budgetVars
    BY <2>1, CycleSpends, ToolSpends
  <2> QED BY <2>1, RestSpends
<1> QED BY <1>1, <1>2, RunsAreClean, PTL DEF Spec, DrivesBudget, B!BudgetSpec

-----------------------------------------------------------------------------
(***************************************************************************)
(* The spend of the scheduler, as in LimitsProofs                          *)
(***************************************************************************)

\* Budget counts as this module does, and has finitely many runs to count.
LEMMA SameSize == \A S : B!Cardinality(S) = Cardinality(S)
BY DEF B!Cardinality, Cardinality

LEMMA RunsAreFinite == IsFiniteSet(AI \X Slot)
<1>1. IsFiniteSet(AI) /\ IsFiniteSet(Slot)
  BY LoopConstants, FS_Interval DEF Slot
<1> QED BY <1>1, FS_Product

\* The searches the responses at hand asked for and nobody charged yet.
Unspent == {t \in (AI \X Slot) \X (1..1) : t[1] \in Charging /\ t[2] <= SearchesLeft[t[1]]}

\* What k cycles with one model call each and u searches can still charge.
Credit(k, u) == MaxCost * k + SearchFee * u

Owed == Credit(Cardinality(Charging), Cardinality(Unspent))

\* What all runs together could be owed.
MostOwed == Credit(Cardinality(AI \X Slot), Cardinality((AI \X Slot) \X (1..1)))

\* Past the limit, the spend together with what the cycles in progress may
\* still charge stays below the ceiling.
CreditCovered ==
    (Limit > 0 /\ todayUSD > Limit) =>
        todayUSD + Owed <= B!Ceiling

-----------------------------------------------------------------------------
\* What can still be charged grows with the cycles and with the searches.
LEMMA CreditGrows ==
    ASSUME NEW k1 \in Nat, NEW k2 \in Nat, NEW u1 \in Nat, NEW u2 \in Nat,
           k1 <= k2, u1 <= u2
    PROVE  /\ Credit(k1, u1) \in Nat
           /\ Credit(k1, u1) <= Credit(k2, u2)
<1>1. PICK d \in Nat : k2 = k1 + d
  BY k2 - k1 \in Nat
<1>2. PICK e \in Nat : u2 = u1 + e
  BY u2 - u1 \in Nat
<1>3. MaxCost * k2 = MaxCost * k1 + MaxCost * d /\ MaxCost * d \in Nat
  BY <1>1, LimitsAssumption
<1>4. SearchFee * u2 = SearchFee * u1 + SearchFee * e /\ SearchFee * e \in Nat
  BY <1>2, LimitsAssumption
<1>5. MaxCost * k1 \in Nat /\ SearchFee * u1 \in Nat
  BY LimitsAssumption
<1> QED BY <1>3, <1>4, <1>5 DEF Credit

\* One model call or one search less is owed.
LEMMA CreditSpent ==
    ASSUME NEW k \in Nat, NEW u \in Nat
    PROVE  /\ Credit(k + 1, u) = Credit(k, u) + MaxCost
           /\ Credit(k, u + 1) = Credit(k, u) + SearchFee
BY LimitsAssumption DEF Credit

\* The two sets behind the credit are finite and bounded by the constants.
LEMMA CreditSets ==
    ASSUME B!BudgetTypeOK
    PROVE  /\ IsFiniteSet(Charging) /\ IsFiniteSet(Unspent)
           /\ IsFiniteSet((AI \X Slot) \X (1..1))
           /\ Cardinality(Charging) \in Nat /\ Cardinality(Unspent) \in Nat
           /\ Cardinality(AI \X Slot) \in Nat
           /\ Cardinality((AI \X Slot) \X (1..1)) \in Nat
           /\ Cardinality(Charging) <= Cardinality(AI \X Slot)
           /\ Cardinality(Unspent) <= Cardinality((AI \X Slot) \X (1..1))
<1>1. IsFiniteSet(AI \X Slot) /\ IsFiniteSet(1..1)
  <2>1. 1..1 = {1}
    OBVIOUS
  <2> QED BY <2>1, RunsAreFinite, FS_Singleton
<1>2. IsFiniteSet((AI \X Slot) \X (1..1))
  BY <1>1, FS_Product
<1>3. IsFiniteSet(Charging) /\ Cardinality(Charging) <= Cardinality(AI \X Slot)
  BY <1>1, FS_Subset DEF B!BudgetTypeOK
<1>4. Unspent \subseteq (AI \X Slot) \X (1..1)
  BY DEF Unspent
<1>5. /\ IsFiniteSet(Unspent)
      /\ Cardinality(Unspent) <= Cardinality((AI \X Slot) \X (1..1))
  BY <1>2, <1>4, FS_Subset
<1> QED BY <1>1, <1>2, <1>3, <1>5, FS_CardinalityType

\* The tally after the day's rollover is the tally or nothing.
LEMMA RolledOverType ==
    ASSUME B!BudgetTypeOK
    PROVE  B!RolledOver \in Nat /\ (B!RolledOver = todayUSD \/ B!RolledOver = 0)
BY DEF B!BudgetTypeOK, B!RolledOver

-----------------------------------------------------------------------------
\* The tally, the runs that charge it and their pending searches keep their types.
LEMMA SpendTypes == B!BudgetSpec => []B!BudgetTypeOK
<1>1. B!BudgetInit => B!BudgetTypeOK
  <2> SUFFICES ASSUME B!BudgetInit PROVE B!BudgetTypeOK
    OBVIOUS
  <2>1. 0 \in 0..1
    OBVIOUS
  <2>2. SearchesLeft \in [AI \X Slot -> 0..1]
    BY <2>1 DEF B!BudgetInit
  <2>3. todayUSD \in Nat
    BY DEF B!BudgetInit
  <2>4. dayOver \in BOOLEAN /\ Charging \subseteq AI \X Slot /\ Posting \subseteq AI \X Slot
    BY DEF B!BudgetInit
  <2> QED BY <2>2, <2>3, <2>4 DEF B!BudgetTypeOK
<1>2. B!BudgetTypeOK /\ [B!BudgetNext]_B!budgetVars => B!BudgetTypeOK'
  <2> SUFFICES ASSUME B!BudgetTypeOK, [B!BudgetNext]_B!budgetVars PROVE B!BudgetTypeOK'
    OBVIOUS
  <2>0. B!RolledOver \in Nat /\ SearchFee \in Nat /\ \A m \in Nat : B!RolledOver + m \in Nat
    BY RolledOverType, LimitsAssumption
  <2>1. ASSUME NEW c \in AI \X Slot, B!Gate(c) PROVE B!BudgetTypeOK'
    <3>1. 0 \in 0..1
      OBVIOUS
    <3>2. SearchesLeft' \in [AI \X Slot -> 0..1]
      BY <2>1, <3>1 DEF B!Gate, B!BudgetTypeOK
    <3>3. todayUSD' \in Nat /\ dayOver' \in BOOLEAN
      BY <2>0, <2>1 DEF B!Gate, B!Charge
    <3>4. Charging' \subseteq AI \X Slot /\ Posting' \subseteq AI \X Slot
      BY <2>1 DEF B!Gate, B!BudgetTypeOK
    <3> QED BY <3>2, <3>3, <3>4 DEF B!BudgetTypeOK
  <2>2. ASSUME NEW c \in AI \X Slot, NEW usd \in 0..MaxCost,
               NEW n \in 0..1, B!Track(c, usd, n)
        PROVE  B!BudgetTypeOK'
    <3>1. SearchesLeft' \in [AI \X Slot -> 0..1]
      BY <2>2 DEF B!Track, B!BudgetTypeOK
    <3>2. todayUSD' \in Nat /\ dayOver' \in BOOLEAN
      <4>1. usd \in Nat
        BY LimitsAssumption
      <4>2. todayUSD' = B!RolledOver + usd /\ dayOver' = FALSE
        BY <2>2 DEF B!Track, B!Charge
      <4> QED BY <4>1, <4>2, <2>0
    <3>3. Charging' \subseteq AI \X Slot /\ Posting' \subseteq AI \X Slot
      BY <2>2 DEF B!Track, B!BudgetTypeOK
    <3> QED BY <3>1, <3>2, <3>3 DEF B!BudgetTypeOK
  <2>3. ASSUME NEW c \in AI \X Slot, B!TrackSearch(c) PROVE B!BudgetTypeOK'
    <3>1. SearchesLeft[c] - 1 \in 0..1
      BY <2>3, LimitsAssumption DEF B!TrackSearch, B!BudgetTypeOK
    <3>2. SearchesLeft' \in [AI \X Slot -> 0..1]
      BY <2>3, <3>1 DEF B!TrackSearch, B!BudgetTypeOK
    <3>3. todayUSD' \in Nat /\ dayOver' \in BOOLEAN
      BY <2>0, <2>3 DEF B!TrackSearch, B!Charge
    <3> QED BY <2>3, <3>2, <3>3 DEF B!TrackSearch, B!BudgetTypeOK
  <2>4. ASSUME NEW c \in AI \X Slot, B!EndCycle(c) \/ B!NoticePosted(c)
        PROVE  B!BudgetTypeOK'
    <3>1. todayUSD' \in Nat /\ dayOver' \in BOOLEAN
      BY <2>0, <2>4 DEF B!EndCycle, B!NoticePosted, B!Charge, B!BudgetTypeOK
    <3> QED BY <2>4, <3>1 DEF B!EndCycle, B!NoticePosted, B!BudgetTypeOK
  <2>8. ASSUME NEW c \in AI \X Slot, B!SearchFails(c) PROVE B!BudgetTypeOK'
    <3>1. SearchesLeft[c] - 1 \in 0..1
      BY <2>8, LimitsAssumption DEF B!SearchFails, B!BudgetTypeOK
    <3> QED BY <2>8, <3>1 DEF B!SearchFails, B!BudgetTypeOK
  <2>9. CASE B!BudgetRestart
    <3>1. 0 \in 0..1
      OBVIOUS
    <3>2. SearchesLeft' \in [AI \X Slot -> 0..1]
      BY <2>9, <3>1 DEF B!BudgetRestart
    <3>3. todayUSD' \in Nat
      BY <2>9 DEF B!BudgetRestart
    <3> QED BY <2>9, <3>2, <3>3 DEF B!BudgetRestart, B!BudgetTypeOK
  <2>5. CASE B!GetStats
    BY <2>0, <2>5 DEF B!GetStats, B!Charge, B!BudgetTypeOK
  <2>6. CASE B!Midnight
    BY <2>6 DEF B!Midnight, B!BudgetTypeOK
  <2>7. CASE UNCHANGED B!budgetVars
    BY <2>7 DEF B!budgetVars, B!BudgetTypeOK
  <2> QED BY <2>1, <2>2, <2>3, <2>4, <2>5, <2>6, <2>7, <2>8, <2>9 DEF B!BudgetNext
<1> QED BY <1>1, <1>2, PTL DEF B!BudgetSpec

-----------------------------------------------------------------------------
\* A step that adds nothing to the tally, to the cycles in progress and to
\* their searches keeps the spend covered.
LEMMA NothingMoreOwed ==
    ASSUME B!BudgetTypeOK, B!BudgetTypeOK', CreditCovered,
           Charging' \subseteq Charging, Unspent' \subseteq Unspent, todayUSD' <= todayUSD
    PROVE  CreditCovered'
<1> SUFFICES ASSUME Limit > 0, todayUSD' > Limit
             PROVE  todayUSD' + Owed' <= B!Ceiling
  BY DEF CreditCovered, B!Ceiling
<1>1. todayUSD \in Nat /\ todayUSD' \in Nat /\ todayUSD > Limit
  BY LimitsAssumption DEF B!BudgetTypeOK
<1>2. Cardinality(Charging') <= Cardinality(Charging) /\ Cardinality(Charging') \in Nat
  BY CreditSets, FS_Subset, FS_CardinalityType
<1>3. Cardinality(Unspent') <= Cardinality(Unspent) /\ Cardinality(Unspent') \in Nat
  BY CreditSets, FS_Subset, FS_CardinalityType
<1>4. Owed' <= Owed /\ Owed \in Nat /\ Owed' \in Nat
  BY <1>2, <1>3, CreditSets, CreditGrows DEF Owed
<1>5. todayUSD + Owed <= B!Ceiling
  BY <1>1 DEF CreditCovered
<1>6. B!Ceiling \in Int
  BY LimitsAssumption, SameSize, CreditSets DEF B!Ceiling
<1>7. \A a, b, d, e \in Nat, m \in Int : a <= b /\ d <= e /\ b + e <= m => a + d <= m
  OBVIOUS
<1> QED BY <1>1, <1>4, <1>5, <1>6, <1>7

\* A model call past the limit ends its cycle: its credit pays for it.
LEMMA TrackCovered ==
    ASSUME B!BudgetTypeOK, B!BudgetTypeOK', CreditCovered,
           NEW c \in AI \X Slot, NEW usd \in 0..MaxCost, NEW n \in 0..1,
           B!Track(c, usd, n)
    PROVE  CreditCovered'
<1> SUFFICES ASSUME Limit > 0, todayUSD' > Limit
             PROVE  todayUSD' + Owed' <= B!Ceiling
  BY DEF CreditCovered, B!Ceiling
<1>1. /\ B!RolledOver \in Nat /\ usd \in Nat /\ usd <= MaxCost
      /\ todayUSD' = B!RolledOver + usd
  BY RolledOverType, LimitsAssumption DEF B!Track, B!Charge
<1>2. Charging' = Charging \ {c} /\ c \in Charging
  BY <1>1 DEF B!Track, B!Exceeds
<1>3. Cardinality(Charging') + 1 = Cardinality(Charging) /\ Cardinality(Charging') \in Nat
  <2>1. IsFiniteSet(Charging) /\ Cardinality(Charging) \in Nat
    BY CreditSets
  <2>2. IsFiniteSet(Charging') /\ Cardinality(Charging') = Cardinality(Charging) - 1
    BY <1>2, <2>1, FS_RemoveElement
  <2> QED BY <2>1, <2>2, FS_CardinalityType
<1>4. \A d \in Charging' : SearchesLeft'[d] = SearchesLeft[d]
  BY <1>2 DEF B!Track, B!BudgetTypeOK
<1>5. Unspent' \subseteq Unspent
  BY <1>2, <1>4 DEF Unspent
<1>6. Cardinality(Unspent') <= Cardinality(Unspent) /\ Cardinality(Unspent') \in Nat
  BY <1>5, CreditSets, FS_Subset, FS_CardinalityType
<1>7. /\ Owed = Credit(Cardinality(Charging'), Cardinality(Unspent)) + MaxCost
      /\ Owed' <= Credit(Cardinality(Charging'), Cardinality(Unspent))
      /\ Owed' \in Nat /\ Owed \in Nat
      /\ Credit(Cardinality(Charging'), Cardinality(Unspent)) \in Nat
  <2>1. Owed = Credit(Cardinality(Charging') + 1, Cardinality(Unspent))
    BY <1>3 DEF Owed
  <2>2. Owed = Credit(Cardinality(Charging'), Cardinality(Unspent)) + MaxCost
    BY <2>1, <1>3, CreditSets, CreditSpent
  <2>3. /\ Owed' \in Nat
        /\ Owed' <= Credit(Cardinality(Charging'), Cardinality(Unspent))
    BY <1>3, <1>6, CreditSets, CreditGrows DEF Owed
  <2>4. Credit(Cardinality(Charging'), Cardinality(Unspent)) \in Nat
    BY <1>3, CreditSets, CreditGrows
  <2> QED BY <2>2, <2>3, <2>4, LimitsAssumption
<1>8. /\ todayUSD' + Owed' <= B!RolledOver + Owed
      /\ todayUSD' + Owed' \in Nat /\ B!RolledOver + Owed \in Nat /\ Owed \in Nat
  <2>1. \A r, u, m, x, y, z \in Nat :
          u <= m /\ y = z + m /\ x <= z => /\ (r + u) + x <= r + y
                                            /\ (r + u) + x \in Nat /\ r + y \in Nat
    OBVIOUS
  <2> QED BY <2>1, <1>1, <1>7, LimitsAssumption
<1>9. Owed <= MostOwed
  BY CreditSets, CreditGrows DEF Owed, MostOwed
<1>10. /\ B!Ceiling = Limit + MostOwed
       /\ MostOwed \in Nat
  BY CreditSets, SameSize, LimitsAssumption DEF B!Ceiling, Credit, MostOwed
<1>11. CASE B!RolledOver <= Limit
  <2>1. \A x, y, z, l, m \in Nat : x <= y + z /\ y <= l /\ z <= m => x <= l + m
    OBVIOUS
  <2> QED BY <2>1, <1>1, <1>7, <1>8, <1>9, <1>10, <1>11, LimitsAssumption
<1>12. CASE B!RolledOver > Limit
  <2>1. todayUSD = B!RolledOver
    BY <1>12, RolledOverType, LimitsAssumption
  <2>2. todayUSD + Owed <= B!Ceiling
    BY <1>12, <2>1 DEF CreditCovered
  <2>3. \A x, y, l, m \in Nat : x <= y /\ y <= l + m => x <= l + m
    OBVIOUS
  <2> QED BY <2>1, <2>2, <2>3, <1>8, <1>10, LimitsAssumption
<1> QED BY <1>1, <1>11, <1>12, LimitsAssumption

\* A web search is paid for by the search its round asked for.
LEMMA TrackSearchCovered ==
    ASSUME B!BudgetTypeOK, B!BudgetTypeOK', CreditCovered,
           NEW c \in AI \X Slot, B!TrackSearch(c)
    PROVE  CreditCovered'
<1> DEFINE t == <<c, SearchesLeft[c]>>
<1> SUFFICES ASSUME Limit > 0, todayUSD' > Limit
             PROVE  todayUSD' + Owed' <= B!Ceiling
  BY DEF CreditCovered, B!Ceiling
<1>1. B!RolledOver \in Nat /\ todayUSD' = B!RolledOver + SearchFee
  BY RolledOverType DEF B!TrackSearch, B!Charge
<1>2. /\ Charging' = Charging /\ c \in Charging
      /\ SearchesLeft' = [SearchesLeft EXCEPT ![c] = @ - 1]
      /\ SearchesLeft[c] \in 1..1
  BY LimitsAssumption DEF B!TrackSearch, B!BudgetTypeOK
<1>3. t \in Unspent
  BY <1>2 DEF Unspent
<1>4. Unspent' = Unspent \ {t}
  <2>1. \A d \in AI \X Slot :
          SearchesLeft'[d] = IF d = c THEN SearchesLeft[c] - 1 ELSE SearchesLeft[d]
    BY <1>2 DEF B!BudgetTypeOK
  <2>2. \A d \in AI \X Slot : SearchesLeft[d] \in Nat
    BY LimitsAssumption DEF B!BudgetTypeOK
  <2>3. \A d \in AI \X Slot, i \in 1..1 :
          (i <= SearchesLeft'[d]) <=> (i <= SearchesLeft[d] /\ <<d, i>> # t)
    BY <2>1, <2>2, LimitsAssumption
  <2> QED BY <2>3, <1>2 DEF Unspent
<1>5. Cardinality(Unspent') + 1 = Cardinality(Unspent) /\ Cardinality(Unspent') \in Nat
  <2>1. IsFiniteSet(Unspent) /\ Cardinality(Unspent) \in Nat
    BY CreditSets
  <2>2. IsFiniteSet(Unspent') /\ Cardinality(Unspent') = Cardinality(Unspent) - 1
    BY <1>3, <1>4, <2>1, FS_RemoveElement
  <2> QED BY <2>1, <2>2, FS_CardinalityType
<1>6. Owed = Owed' + SearchFee /\ Owed' \in Nat
  <2>1. Owed = Credit(Cardinality(Charging), Cardinality(Unspent') + 1)
    BY <1>5 DEF Owed
  <2>2. Owed' = Credit(Cardinality(Charging), Cardinality(Unspent'))
    BY <1>2 DEF Owed
  <2>3. Cardinality(Charging) \in Nat
    BY CreditSets
  <2>4. Owed = Owed' + SearchFee
    BY <2>1, <2>2, <2>3, <1>5, CreditSpent
  <2> QED BY <2>2, <2>3, <2>4, <1>5, CreditGrows
<1>7. todayUSD' + Owed' = B!RolledOver + Owed /\ Owed \in Nat
  <2>1. \A a, b, d \in Nat : (a + b) + d = a + (d + b) /\ d + b \in Nat
    OBVIOUS
  <2> QED BY <2>1, <1>1, <1>6, LimitsAssumption
<1>8. Owed <= MostOwed
  BY CreditSets, CreditGrows DEF Owed, MostOwed
<1>9. /\ B!Ceiling = Limit + MostOwed
      /\ MostOwed \in Nat
  BY CreditSets, SameSize, LimitsAssumption DEF B!Ceiling, Credit, MostOwed
<1>10. CASE B!RolledOver <= Limit
  BY <1>1, <1>7, <1>8, <1>9, <1>10, LimitsAssumption
<1>11. CASE B!RolledOver > Limit
  <2>1. todayUSD = B!RolledOver
    BY <1>11, RolledOverType, LimitsAssumption
  <2>2. todayUSD + Owed <= B!Ceiling
    BY <1>11, <2>1 DEF CreditCovered
  <2> QED BY <1>7, <2>1, <2>2
<1> QED BY <1>1, <1>10, <1>11, LimitsAssumption

\* A cycle is let in only while the tally is below 95 per cent of the limit.
LEMMA GateCovered ==
    ASSUME B!BudgetTypeOK, B!BudgetTypeOK', CreditCovered, NEW c \in AI \X Slot, B!Gate(c)
    PROVE  CreditCovered'
<1>1. B!RolledOver \in Nat /\ todayUSD' = B!RolledOver /\ todayUSD' <= todayUSD
  BY RolledOverType DEF B!Gate, B!Charge, B!BudgetTypeOK
<1>2. CASE B!ShouldPause
  <2>1. Charging' = Charging /\ c \notin Charging
    BY <1>2 DEF B!Gate
  <2>2. \A d \in Charging : SearchesLeft'[d] = SearchesLeft[d]
    BY <2>1 DEF B!Gate, B!BudgetTypeOK
  <2>3. Unspent' \subseteq Unspent
    BY <2>1, <2>2 DEF Unspent
  <2> QED BY <1>1, <2>1, <2>3, NothingMoreOwed
<1>3. CASE ~B!ShouldPause
  <2>1. ~(Limit > 0 /\ todayUSD' > Limit)
    BY <1>1, <1>3, LimitsAssumption DEF B!ShouldPause
  <2> QED BY <2>1 DEF CreditCovered
<1> QED BY <1>2, <1>3

\* The spend of a day stays below the ceiling.
LEMMA SpendIsCovered == B!BudgetSpec => []B!OvershootBounded
<1>1. B!BudgetInit => CreditCovered
  BY LimitsAssumption DEF B!BudgetInit, CreditCovered
<1>2. B!BudgetTypeOK /\ B!BudgetTypeOK' /\ CreditCovered /\ [B!BudgetNext]_B!budgetVars
        => CreditCovered'
  <2> SUFFICES ASSUME B!BudgetTypeOK, B!BudgetTypeOK', CreditCovered,
                      [B!BudgetNext]_B!budgetVars
               PROVE  CreditCovered'
    OBVIOUS
  <2>1. ASSUME NEW c \in AI \X Slot, B!Gate(c) PROVE CreditCovered'
    BY <2>1, GateCovered
  <2>2. ASSUME NEW c \in AI \X Slot, NEW usd \in 0..MaxCost,
               NEW n \in 0..1, B!Track(c, usd, n)
        PROVE  CreditCovered'
    BY <2>2, TrackCovered
  <2>3. ASSUME NEW c \in AI \X Slot, B!TrackSearch(c) PROVE CreditCovered'
    BY <2>3, TrackSearchCovered
  <2>4. ASSUME NEW c \in AI \X Slot, B!EndCycle(c) \/ B!NoticePosted(c)
        PROVE  CreditCovered'
    <3>1. /\ Charging' \subseteq Charging /\ SearchesLeft' = SearchesLeft
          /\ todayUSD' \in {todayUSD, B!RolledOver}
      BY <2>4, RolledOverType DEF B!EndCycle, B!NoticePosted, B!Charge
    <3>2. Unspent' \subseteq Unspent
      BY <3>1 DEF Unspent
    <3> QED BY <3>1, <3>2, RolledOverType, NothingMoreOwed DEF B!BudgetTypeOK
  <2>7. ASSUME NEW c \in AI \X Slot, B!SearchFails(c) PROVE CreditCovered'
    <3>1. Charging' = Charging /\ todayUSD' = todayUSD
      BY <2>7 DEF B!SearchFails
    <3>2. \A d \in AI \X Slot :
            /\ SearchesLeft[d] \in Nat /\ SearchesLeft'[d] \in Nat
            /\ SearchesLeft'[d] <= SearchesLeft[d]
      BY <2>7, LimitsAssumption DEF B!SearchFails, B!BudgetTypeOK
    <3>3. \A d \in AI \X Slot, i \in 1..1 : i <= SearchesLeft'[d] => i <= SearchesLeft[d]
      BY <3>2, LimitsAssumption
    <3>4. Unspent' \subseteq Unspent
      BY <3>1, <3>3 DEF Unspent
    <3> QED BY <3>1, <3>4, NothingMoreOwed DEF B!BudgetTypeOK
  <2>8. CASE B!BudgetRestart
    BY <2>8, LimitsAssumption DEF B!BudgetRestart, CreditCovered
  <2>5. CASE B!GetStats
    <3>1. Charging' = Charging /\ SearchesLeft' = SearchesLeft /\ todayUSD' = B!RolledOver
      BY <2>5, RolledOverType DEF B!GetStats, B!Charge
    <3>2. Unspent' \subseteq Unspent
      BY <3>1 DEF Unspent
    <3> QED BY <3>1, <3>2, RolledOverType, NothingMoreOwed DEF B!BudgetTypeOK
  <2>6. CASE B!Midnight \/ UNCHANGED B!budgetVars
    <3>1. Charging' = Charging /\ SearchesLeft' = SearchesLeft /\ todayUSD' = todayUSD
      BY <2>6 DEF B!Midnight, B!budgetVars
    <3>2. Unspent' \subseteq Unspent
      BY <3>1 DEF Unspent
    <3> QED BY <3>1, <3>2, NothingMoreOwed DEF B!BudgetTypeOK
  <2> QED BY <2>1, <2>2, <2>3, <2>4, <2>5, <2>6, <2>7, <2>8 DEF B!BudgetNext
<1>3. B!BudgetTypeOK /\ CreditCovered => B!OvershootBounded
  <2> SUFFICES ASSUME B!BudgetTypeOK, CreditCovered, Limit > 0 PROVE todayUSD <= B!Ceiling
    BY DEF B!OvershootBounded
  <2>1. /\ B!Ceiling = Limit + MostOwed
        /\ MostOwed \in Nat
    BY CreditSets, SameSize, LimitsAssumption DEF B!Ceiling, Credit, MostOwed
  <2>2. Owed \in Nat
    BY CreditSets, CreditGrows DEF Owed
  <2> QED BY <2>1, <2>2, LimitsAssumption DEF B!BudgetTypeOK, CreditCovered
<1> QED BY <1>1, <1>2, <1>3, SpendTypes, PTL DEF B!BudgetSpec

-----------------------------------------------------------------------------
\* The loop's runs and the reports of all AIs together pass the daily limit by
\* at most one model call and one search of each run there can be.
THEOREM SpendIsBounded == Spec => []B!OvershootBounded
BY SpendRefines, SpendIsCovered, PTL DEF DrivesBudget

\* TypeOK of AgenticLoop: the scheduler's variables, the accounts and the
\* tally keep their types.
THEOREM LoopTypesHold == Spec => []TypeOK
<1>1. W!TypeOK /\ B!BudgetTypeOK /\ SchedulerTypeOK => TypeOK
  BY DEF W!TypeOK, B!BudgetTypeOK, TypeOK
<1> QED
  BY <1>1, SchedulerTypeCorrect, WakesRefine, WakeTypes, SpendRefines, SpendTypes, PTL
     DEF DrivesWakeChain, DrivesBudget

-----------------------------------------------------------------------------
(***************************************************************************)
(* The approval gate                                                       *)
(***************************************************************************)

\* What was pending when a run was called is the AI's own and stays decided;
\* once the database has answered that nothing is pending, none of it waits.
SeenIsSettled ==
    \A b \in AI, j \in Slot : \A p \in run[b][j].seen :
       /\ approval[p].ai = b /\ approval[p].status # "none"
       /\ run[b][j].pc = "clear" => approval[p].status # "PENDING"

\* A request row keeps its AI, and PENDING does not come back.
RowsAge ==
    \A p \in Approval : approval[p].status # "none" =>
       /\ approval'[p].ai = approval[p].ai /\ approval'[p].status # "none"
       /\ approval[p].status # "PENDING" => approval'[p].status # "PENDING"

LEMMA RowsOnlyAge ==
    ASSUME LoopInv, [Next]_vars
    PROVE  RowsAge
<1>0. approval \in [Approval -> ApprovalRow]
  BY DEF LoopInv, SchedulerTypeOK
<1>1. UNCHANGED approval => RowsAge
  BY DEF RowsAge
<1>2. ASSUME NEW a \in AI, NEW k \in Slot, NEW p \in Approval, RequestApproval(a, k, p)
      PROVE  RowsAge
  BY <1>0, <1>2 DEF RequestApproval, RowsAge
<1>3. ASSUME NEW p \in Approval, NEW status \in {"APPROVED", "REJECTED"}, Decide(p, status)
      PROVE  RowsAge
  BY <1>0, <1>3 DEF Decide, RowsAge
<1>4. ASSUME NEW a \in AI, NEW k \in Slot, RunStep(a, k),
             ~(\E p \in Approval : RequestApproval(a, k, p))
      PROVE  UNCHANGED approval
  <2>1. CASE ToolStep(a, k)
    BY <1>4, <2>1 DEF ToolStep, WebSearch, AssignTask, ToolFails, table
  <2>2. CASE ~ToolStep(a, k)
    BY <1>4, <2>2, CycleForms
  <2> QED BY <2>1, <2>2
<1>5. /\ \A m \in Message, S \in (SUBSET AI) \ {{}} : Mention(m, S) => UNCHANGED approval
      /\ \A a \in Reporter : StartReport(a) => UNCHANGED approval
      /\ \A p \in Approval : Announce(p) \/ AnswerLost(p) => UNCHANGED approval
  BY DEF Mention, StartReport, Announce, AnswerLost, table
<1>6. ASSUME \/ UNCHANGED vars \/ TimerFires \/ TickReturns \/ TickFails
             \/ Stop \/ Restart \/ ChainsAge \/ DayEnds
      PROVE  UNCHANGED approval
  BY <1>6 DEF vars, TimerFires, TickReturns, TickFails, Stop, Restart, ChainsAge, DayEnds, table
<1> QED BY <1>1, <1>2, <1>3, <1>4, <1>5, <1>6 DEF Next

\* A run goes on to its gate only when nothing is pending, and starts a cycle
\* only from there.
GateStep(a, k) ==
    \/ Freed(a, k)
    \/ \E pc, todo : /\ Moved(a, k, pc, todo)
                     /\ pc = "clear" => Pending(a) = {}
                     /\ pc = "clear" \/ run[a][k].pc \in InCycle \cup {"clear"}

LEMMA GateForms ==
    ASSUME LoopInv, NEW a \in AI, NEW k \in Slot, RunStep(a, k), ~ToolStep(a, k)
    PROVE  GateStep(a, k)
<1>1. ASSUME NEW pc, NEW round, NEW todo, run' = GoesTo(a, k, pc, round, todo),
             pc = "clear" => Pending(a) = {},
             pc = "clear" \/ run[a][k].pc \in InCycle \cup {"clear"}
      PROVE  GateStep(a, k)
  BY <1>1, GoesToMoves DEF GateStep
<1>2. run' = Ended(a, k) => GateStep(a, k)
  BY EndedFrees DEF GateStep
<1>3. CASE PendingRead(a, k) \/ PendingReadFails(a, k)
  BY <1>1, <1>2, <1>3 DEF PendingRead, PendingReadFails
<1>4. CASE PassGate(a, k)
  BY <1>1, <1>2, <1>4 DEF PassGate
<1>5. CASE LookupFails(a, k) \/ LookupReturns(a, k) \/ ContextReturns(a, k)
  BY <1>1, <1>2, <1>5 DEF LookupFails, LookupReturns, ContextReturns, InCycle
<1>6. CASE CycleFails(a, k) \/ NoticePosted(a, k)
  BY <1>2, <1>6 DEF CycleFails, NoticePosted, FinishCycle
<1>7. ASSUME NEW usd \in 0..MaxCost, NEW calls \in SUBSET Tool,
             ModelReturns(a, k, usd, calls)
      PROVE  GateStep(a, k)
  BY <1>1, <1>2, <1>7 DEF ModelReturns, FinishCycle, InCycle
<1>8. CASE RoundEnds(a, k)
  BY <1>1, <1>2, <1>8 DEF RoundEnds, FinishCycle, InCycle
<1> QED BY <1>3, <1>4, <1>5, <1>6, <1>7, <1>8 DEF RunStep

\* How one entry may change: it keeps what its run has seen, or it is idle
\* or newly called.
EntryStep(b, j) ==
    \/ /\ run'[b][j].seen = run[b][j].seen
       /\ \/ run'[b][j].pc = run[b][j].pc
          \/ run'[b][j].pc = "clear" /\ Pending(b) = {}
          \/ run'[b][j].pc # "clear"
             /\ (j = 0 \/ run[b][j].pc \in InCycle \cup {"clear"})
    \/ run'[b][j] = Idle
    \/ run'[b][j].pc = "query" /\ run'[b][j].seen = Pending(b)

LEMMA CalledSteps ==
    ASSUME LoopInv, EntriesAreClean, NEW r \in RunTable, NEW S \in SUBSET AI, HasRoom(S),
           NEW wake, run' = RunForAI(S, wake, r),
           \A b \in AI, j \in Slot : r[b][j].pc = run[b][j].pc /\ r[b][j].seen = run[b][j].seen
    PROVE  \A b \in AI, j \in Slot : EntryStep(b, j)
<1>1. \A b : NewRun(b, wake).pc = "query" /\ NewRun(b, wake).seen = Pending(b)
  BY DEF NewRun
<1>2. /\ \A b \in AI, j \in Slot : ~SlotFor(b, j, S) => run'[b][j] = r[b][j]
      /\ \A b \in AI, j \in Slot : SlotFor(b, j, S) => run'[b][j] = NewRun(b, wake)
  BY CalledEntries
<1> SUFFICES ASSUME NEW b \in AI, NEW j \in Slot PROVE EntryStep(b, j)
  OBVIOUS
<1>3. CASE SlotFor(b, j, S)
  BY <1>1, <1>2, <1>3 DEF EntryStep
<1>4. CASE ~SlotFor(b, j, S)
  BY <1>2, <1>4 DEF EntryStep
<1> QED BY <1>3, <1>4

\* Every step changes the entries this way.
LEMMA StepEntries ==
    ASSUME LoopInv, EntriesAreClean, [Next]_vars
    PROVE  \A b \in AI, j \in Slot : EntryStep(b, j)
<1>0. run \in RunTable
  BY DEF LoopInv, SchedulerTypeOK, RunTable
<1>1. CASE UNCHANGED run
  BY <1>1 DEF EntryStep
<1>2. ASSUME NEW m \in Message, NEW S \in SUBSET AI, Mention(m, S)
      PROVE  \A b \in AI, j \in Slot : EntryStep(b, j)
  <2>1. PICK admitted \in SUBSET S : run' = RunForAI(admitted, W!StartHumanChain(m), run)
    BY <1>2 DEF Mention
  <2>2. HasRoom(admitted)
    BY <1>2, <2>1 DEF Mention, HasRoom, Called
  <2> QED BY <1>0, <2>1, <2>2, CalledSteps
<1>3. CASE TickReturns
  BY <1>0, <1>3, CalledSteps DEF TickReturns
<1>4. ASSUME NEW a \in Reporter, StartReport(a), run' # run
      PROVE  \A b \in AI, j \in Slot : EntryStep(b, j)
  <2>1. a \in AI /\ 0 \in Slot
    BY LoopConstants DEF Slot
  <2>2. Moved(a, 0, "lookup", {})
    BY <1>4, <2>1, GoesToMoves DEF StartReport
  <2> QED BY <2>1, <2>2 DEF Moved, Others, EntryStep
<1>5. ASSUME NEW p \in Approval, Announce(p), run' # run
      PROVE  \A b \in AI, j \in Slot : EntryStep(b, j)
  <2>1. /\ HasRoom({approval[p].ai}) /\ approval[p].status = "APPROVED"
        /\ run' = RunForAI({approval[p].ai}, W!StartHumanChain(p), run)
    BY <1>5 DEF Announce
  <2>2. {approval[p].ai} \in SUBSET AI
    BY <2>1 DEF LoopInv, SchedulerTypeOK, ApprovalRow, NoRow
  <2> QED BY <1>0, <2>1, <2>2, CalledSteps
<1>6. CASE Restart
  BY <1>6 DEF Restart, EntryStep
<1>7. ASSUME NEW a \in AI, NEW k \in Slot, RunStep(a, k), ~ToolStep(a, k)
      PROVE  \A b \in AI, j \in Slot : EntryStep(b, j)
  <2>1. CASE Freed(a, k)
    BY <2>1 DEF Freed, Others, EntryStep
  <2>2. ASSUME NEW pc, NEW todo, Moved(a, k, pc, todo), pc = "clear" => Pending(a) = {},
               pc = "clear" \/ run[a][k].pc \in InCycle \cup {"clear"}
        PROVE  \A b \in AI, j \in Slot : EntryStep(b, j)
    BY <2>2 DEF Moved, Others, EntryStep
  <2> QED BY <1>7, <2>1, <2>2, GateForms DEF GateStep
<1>8. ASSUME NEW a \in AI, NEW k \in Slot, ToolStep(a, k)
      PROVE  \A b \in AI, j \in Slot : EntryStep(b, j)
  <2>1. \A tool : Calls(a, k, tool) => tool \in Tool
    BY ToolTypes DEF Calls
  <2>2. ASSUME NEW tool \in Tool, Calls(a, k, tool)
        PROVE  LET q == Settled(a, k, tool)
               IN  /\ q \in RunTable
                   /\ \A b \in AI, j \in Slot :
                         q[b][j].pc = run[b][j].pc /\ q[b][j].seen = run[b][j].seen
    BY <2>2, SettledEntries DEF Calls
  <2>3. ASSUME NEW tool, Calls(a, k, tool), run' = Settled(a, k, tool)
        PROVE  \A b \in AI, j \in Slot : EntryStep(b, j)
    BY <2>1, <2>2, <2>3 DEF EntryStep
  <2>4. ASSUME NEW to \in AI, AssignTask(a, k, to)
        PROVE  \A b \in AI, j \in Slot : EntryStep(b, j)
    <3> DEFINE wake == W!DeriveChildContext(run[a][k], a)
               settled == Settled(a, k, "assign_task")
    <3>1. Calls(a, k, "assign_task")
      BY <2>4 DEF AssignTask
    <3>2. CASE run' = settled
      BY <2>3, <3>1, <3>2
    <3>3. CASE HasRoom({to}) /\ run' = RunForAI({to}, wake, settled)
      <4>1. {to} \in SUBSET AI
        OBVIOUS
      <4>2. /\ settled \in RunTable
            /\ \A b \in AI, j \in Slot :
                  settled[b][j].pc = run[b][j].pc /\ settled[b][j].seen = run[b][j].seen
        BY <2>1, <2>2, <3>1
      <4> HIDE DEF wake, settled
      <4> QED BY <3>3, <4>1, <4>2, CalledSteps
    <3> QED BY <2>4, <3>2, <3>3 DEF AssignTask
  <2>5. ToolStep(a, k) => \/ \E to \in AI : AssignTask(a, k, to)
                          \/ \E tool : Calls(a, k, tool) /\ run' = Settled(a, k, tool)
    BY DEF ToolStep, RequestApproval, WebSearch, ToolFails
  <2> QED BY <1>8, <2>3, <2>4, <2>5
<1>9. TimerFires \/ TickFails \/ Stop \/ ChainsAge \/ DayEnds => UNCHANGED run
  BY DEF TimerFires, TickFails, Stop, ChainsAge, DayEnds
<1>10. \A p \in Approval, status \in {"APPROVED", "REJECTED"} :
         Decide(p, status) \/ AnswerLost(p) => UNCHANGED run
  BY DEF Decide, AnswerLost
<1> QED BY <1>1, <1>2, <1>3, <1>4, <1>5, <1>6, <1>7, <1>8, <1>9, <1>10 DEF Next, vars

\* A cycle of the loop does not start over a request that was waiting when
\* its run was called and still waits: the answer of the query is about those
\* requests too, and PENDING does not come back.
THEOREM GateHoldsBack == Spec => OldRequestBlocks
<1>1. Init => SeenIsSettled
  BY DEF Init, SeenIsSettled, Idle
<1>2. LoopInv /\ RunInv /\ SeenIsSettled /\ LoopInv' /\ [Next]_vars => SeenIsSettled'
  <2> SUFFICES ASSUME LoopInv, EntriesAreClean, SeenIsSettled, LoopInv', [Next]_vars,
                      NEW b \in AI, NEW j \in Slot, NEW p \in run'[b][j].seen
               PROVE  /\ approval'[p].ai = b /\ approval'[p].status # "none"
                      /\ run'[b][j].pc = "clear" => approval'[p].status # "PENDING"
    BY DEF RunInv, SeenIsSettled
  <2>1. p \in Approval
    BY DEF LoopInv, SchedulerTypeOK, RunState
  <2>2. RowsAge /\ EntryStep(b, j)
    BY RowsOnlyAge, StepEntries
  <2>3. CASE run'[b][j].seen = run[b][j].seen
    <3>1. /\ approval[p].ai = b /\ approval[p].status # "none"
          /\ run[b][j].pc = "clear" => approval[p].status # "PENDING"
      BY <2>3 DEF SeenIsSettled
    <3>2. approval'[p].ai = b /\ approval'[p].status # "none"
      BY <2>1, <2>2, <3>1 DEF RowsAge
    <3>3. ASSUME run'[b][j].pc = "clear", approval[p].status = "PENDING"
          PROVE  FALSE
      <4>1. p \in Pending(b)
        BY <2>1, <3>1, <3>3 DEF Pending
      <4>2. Idle.pc = "idle"
        BY DEF Idle
      <4> QED BY <2>2, <3>1, <3>3, <4>1, <4>2 DEF EntryStep
    <3> QED BY <2>1, <2>2, <3>1, <3>2, <3>3 DEF RowsAge
  <2>4. CASE run'[b][j] = Idle
    BY <2>4 DEF Idle
  <2>5. CASE run'[b][j].pc = "query" /\ run'[b][j].seen = Pending(b)
    <3>1. approval[p].ai = b /\ approval[p].status # "none"
      BY <2>5 DEF Pending
    <3> QED BY <2>1, <2>2, <2>5, <3>1 DEF RowsAge
  <2> QED BY <2>2, <2>3, <2>4, <2>5 DEF EntryStep
<1>3. LoopInv /\ RunInv /\ SeenIsSettled /\ [Next]_vars =>
         [\A a \in AI : \A k \in LoopCyclesOf(a)' \ LoopCyclesOf(a) :
             \A p \in run[a][k].seen : approval[p].status # "PENDING"]_vars
  <2> SUFFICES ASSUME LoopInv, EntriesAreClean, SeenIsSettled, [Next]_vars,
                      NEW a \in AI, NEW k \in LoopCyclesOf(a)' \ LoopCyclesOf(a),
                      NEW p \in run[a][k].seen
               PROVE  approval[p].status # "PENDING"
    BY DEF RunInv
  <2>1. /\ k \in Slot /\ k # 0
        /\ run'[a][k].pc \in InCycle /\ run[a][k].pc \notin InCycle
    BY DEF LoopCyclesOf, CyclesOf
  <2>2. EntryStep(a, k)
    BY <2>1, StepEntries
  <2>3. "clear" \notin InCycle /\ "query" \notin InCycle /\ "idle" \notin InCycle
    BY DEF InCycle
  <2>4. Idle.pc = "idle"
    BY DEF Idle
  <2>5. run[a][k].pc = "clear"
    BY <2>1, <2>2, <2>3, <2>4 DEF EntryStep
  <2> QED BY <2>1, <2>5 DEF SeenIsSettled
<1>4. Spec => []SeenIsSettled
  BY <1>1, <1>2, RunsAreClean, PTL DEF Spec
<1> QED BY <1>3, <1>4, RunsAreClean, PTL DEF Spec, OldRequestBlocks
=============================================================================
