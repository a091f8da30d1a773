----------------------------- MODULE AgenticLoop -----------------------------
(***************************************************************************)
(* The scheduler of the AI colleagues: lib/loop/agentic-loop.ts with the   *)
(* decision cycle it starts (lib/ai/runtime.ts), the tools of a cycle that *)
(* reach back into the scheduler (lib/ai/tools/index.ts), the approval     *)
(* gate (lib/services/approval.service.ts) and the daily report, which     *)
(* starts cycles of its own (lib/reports/daily.ts).                        *)
(*                                                                         *)
(* One process, one thread: an action is what runs between two awaits.     *)
(* The wake accounts are those of WakeChain and the daily spend is that of *)
(* Budget, so that this module also says how the two are driven.           *)
(***************************************************************************)
EXTENDS Naturals, FiniteSets

CONSTANTS
    AI, Nobody,          \* AI colleagues; no user
    Reporter,            \* the AIs that write a daily report
    Message,             \* messages in which a human mentions AIs
    Approval,            \* rows of the approval table
    NoChain,             \* the chain of a run without a wake context
    MaxRuns,             \* bound of the model: runForAI calls at once, per AI
    MaxRounds,           \* MAX_ROUNDS
    Tool,                \* tools a response may call, of the three modelled
    AutoTick,            \* AI_AUTO_TICK
    DbFails,             \* whether reads and commits may fail
    Restarts,            \* whether the process may be restarted
    MaxHops, MaxPairRepeats, MaxActivations, IdleTTL,    \* as in WakeChain
    Limit, MaxCost, SearchFee                            \* as in Budget

ASSUME LoopConstants ==
    /\ NoChain \notin Message \cup Approval
    /\ Message \cap Approval = {}
    /\ IsFiniteSet(AI)
    /\ Nobody \notin AI /\ Reporter \subseteq AI
    /\ MaxRuns \in Nat /\ MaxRounds \in Nat \ {0}
    /\ MaxActivations \in Nat \ {0}
    /\ Tool \subseteq {"request_approval", "assign_task", "web_search"}
    /\ AutoTick \in BOOLEAN /\ DbFails \in BOOLEAN /\ Restarts \in BOOLEAN

ASSUME LimitsAssumption ==
    /\ MaxHops \in Nat \ {0} /\ MaxPairRepeats \in Nat \ {0} /\ IdleTTL \in Nat
    /\ Limit \in Nat /\ MaxCost \in Nat /\ SearchFee \in Nat

VARIABLES
    run,         \* the runs of an AI: slot 0 is its daily report, others runForAI
    inFlight,    \* the inFlight set of agentic-loop.ts
    thinking,    \* thinkingAIs of lib/realtime/thinking.ts
    approval,    \* the approval table
    deciding,    \* PATCH handlers between the commit and the event they emit
    loopOn,      \* timer and listener installed (start) or removed (stop)
    ticking,     \* a tick that awaits the list of AIs
    chains, issued,      \* the wake accounts, as in WakeChain
    todayUSD, dayOver    \* the daily spend, as in Budget

vars == <<run, inFlight, thinking, approval, deciding, loopOn, ticking,
          chains, issued, todayUSD, dayOver>>

scheduling == <<inFlight, thinking>>
table == <<approval, deciding>>
switches == <<loopOn, ticking>>
wakes == <<chains, issued>>
spend == <<todayUSD, dayOver>>

-----------------------------------------------------------------------------
\* A human-rooted chain is named after what started it: the message, or the
\* approval, which is granted once.
Chain == Message \cup Approval

Slot == 0..MaxRuns

\* query, clear: awaiting and holding the answer of listPendingForAI; then
\* the awaits of runCycle.
Waiting == {"query", "clear"}
InCycle == {"lookup", "context", "model", "tools", "notice"}

\* chain and hop are the wake context, todo the tool calls of the round that
\* have not settled.  seen is a history field: what was PENDING for the AI
\* when the run was called.
RunState == [pc : {"idle"} \cup Waiting \cup InCycle,
             chain : Chain \cup {NoChain}, hop : Nat, round : 0..MaxRounds,
             todo : SUBSET Tool, seen : SUBSET Approval]

Idle == [pc |-> "idle", chain |-> NoChain, hop |-> 0, round |-> 0,
         todo |-> {}, seen |-> {}]

NoWake == [chain |-> NoChain, hop |-> 0]

NoRow == [status |-> "none", ai |-> Nobody]
ApprovalRow == {NoRow} \cup [status : {"PENDING", "APPROVED", "REJECTED"}, ai : AI]

\* The runs that carry a wake context, as WakeChain sees them.
WokenRuns ==
    {[ai |-> w[1], chain |-> run[w[1]][w[2]].chain, hop |-> run[w[1]][w[2]].hop] :
       w \in {v \in AI \X Slot : run[v[1]][v[2]].chain # NoChain}}

\* The cycles that can still call the model, as Budget sees them, what their
\* rounds still have to charge, and those that post the breaker's notice.
Charging == {w \in AI \X Slot : run[w[1]][w[2]].pc \in InCycle \ {"notice"}}
SearchesLeft == [w \in AI \X Slot |->
                   IF "web_search" \in run[w[1]][w[2]].todo THEN 1 ELSE 0]
Posting == {w \in AI \X Slot : run[w[1]][w[2]].pc = "notice"}

W == INSTANCE WakeChain WITH cycles <- WokenRuns
B == INSTANCE Budget WITH Run <- AI \X Slot, MaxSearches <- 1,
                          on <- Charging, asked <- SearchesLeft, tripped <- Posting

\* The types of the scheduler's own variables.
SchedulerTypeOK ==
    /\ run \in [AI -> [Slot -> RunState]]
    /\ inFlight \subseteq AI /\ thinking \subseteq AI
    /\ approval \in [Approval -> ApprovalRow]
    /\ deciding \subseteq Approval
    /\ loopOn \in BOOLEAN /\ ticking \in BOOLEAN

TypeOK ==
    /\ SchedulerTypeOK
    /\ chains \in [Chain -> W!ChainState] /\ issued \subseteq Chain
    /\ todayUSD \in Nat /\ dayOver \in BOOLEAN

Init ==
    /\ run = [a \in AI |-> [k \in Slot |-> Idle]]
    /\ inFlight = {} /\ thinking = {}
    /\ approval = [p \in Approval |-> NoRow]
    /\ deciding = {}
    /\ loopOn = TRUE /\ ticking = FALSE
    /\ W!Init /\ todayUSD = 0 /\ dayOver = FALSE

-----------------------------------------------------------------------------
Pending(a) == {p \in Approval : approval[p].status = "PENDING" /\ approval[p].ai = a}

FreeSlots(a) == {k \in 1..MaxRuns : run[a][k].pc = "idle"}
FreeSlot(a) == CHOOSE k \in 1..MaxRuns : k \in FreeSlots(a)

\* runForAI for every AI of S: an AI that is in flight is skipped, the others
\* query their pending approvals.  The other runs are as in r.
Called(S) == S \ inFlight
HasRoom(S) == \A a \in Called(S) : FreeSlots(a) # {}
RunForAI(S, wake, r) ==
    [a \in AI |->
       IF a \in Called(S)
       THEN [r[a] EXCEPT ![FreeSlot(a)] =
               [pc |-> "query", chain |-> wake.chain, hop |-> wake.hop,
                round |-> 0, todo |-> {}, seen |-> Pending(a)]]
       ELSE r[a]]

\* Run k of a goes on to its next await.
GoesTo(a, k, pc, round, todo) ==
    [run EXCEPT ![a][k] = [pc |-> pc, chain |-> @.chain, hop |-> @.hop,
                           round |-> round, todo |-> todo, seen |-> @.seen]]

\* The end of a run: runForAI's finally clears inFlight, which a report
\* neither sets nor clears.
Ended(a, k) == [run EXCEPT ![a][k] = Idle]
Released(a, k) == IF k = 0 THEN inFlight ELSE inFlight \ {a}

\* markThinking: one entry per AI, however many cycles of it run.
MarkThinking(a, state) == IF state THEN thinking \cup {a} ELSE thinking \ {a}

\* runCycle's finally and its summary log, then the end of the run.
FinishCycle(a, k) ==
    /\ run' = Ended(a, k)
    /\ thinking' = MarkThinking(a, FALSE)
    /\ inFlight' = Released(a, k)

-----------------------------------------------------------------------------
(***************************************************************************)
(* What starts runs                                                        *)
(***************************************************************************)

\* A human's message mentions the AIs of S: one wake each, in one chain,
\* through the listener's authorizeWake.
Mention(m, S) ==
    /\ loopOn
    /\ m \notin issued
    /\ HasRoom(S)
    /\ \E admitted \in SUBSET S :
          /\ W!Admits(S, admitted)
          /\ chains' = [W!SweepIdle(chains) EXCEPT
                          ![m] = W!Opened(Cardinality(admitted))]
          /\ run' = RunForAI(admitted, W!StartHumanChain(m), run)
    /\ issued' = issued \cup {m}
    /\ UNCHANGED <<scheduling, table, switches, spend>>

TimerFires ==
    /\ AutoTick /\ loopOn /\ ~ticking
    /\ ticking' = TRUE
    /\ UNCHANGED <<run, scheduling, table, loopOn, wakes, spend>>

\* The tick has its list of active AIs and calls runForAI on all of them,
\* also when the loop was stopped meanwhile.
TickReturns ==
    /\ ticking
    /\ ticking' = FALSE
    /\ HasRoom(AI)
    /\ run' = RunForAI(AI, NoWake, run)
    /\ UNCHANGED <<scheduling, table, loopOn, wakes, spend>>

TickFails ==
    /\ DbFails /\ ticking
    /\ ticking' = FALSE
    /\ UNCHANGED <<run, scheduling, table, loopOn, wakes, spend>>

\* Mutant: the report has no budget gate.
StartReportUngated(a) ==
    /\ run[a][0].pc = "idle"
    /\ run' = GoesTo(a, 0, "lookup", 0, {})
    /\ UNCHANGED <<scheduling, table, switches, wakes, spend>>

\* The daily batch or the manual trigger: the budget gate and nothing else.
StartReport(a) ==
    /\ run[a][0].pc = "idle"
    /\ B!Charge(0)
    /\ run' = IF B!ShouldPause THEN run ELSE GoesTo(a, 0, "lookup", 0, {})
    /\ UNCHANGED <<scheduling, table, switches, wakes>>

-----------------------------------------------------------------------------
(***************************************************************************)
(* The gate and the cycle of run k of AI a                                 *)
(***************************************************************************)

\* Mutant: the answer of the query is not looked at.
PendingIgnored(a, k) ==
    /\ run[a][k].pc = "query"
    /\ run' = GoesTo(a, k, "clear", 0, {})
    /\ UNCHANGED <<scheduling, table, switches, wakes, spend>>

\* Mutant: the query asks for every request that was not refused.
PendingOrGranted(a, k) ==
    /\ run[a][k].pc = "query"
    /\ run' = IF \A p \in Approval : approval[p].ai = a => approval[p].status = "REJECTED"
              THEN GoesTo(a, k, "clear", 0, {}) ELSE Ended(a, k)
    /\ UNCHANGED <<scheduling, table, switches, wakes, spend>>

\* The database answers listPendingForAI; a blocked run is over.
PendingRead(a, k) ==
    /\ run[a][k].pc = "query"
    /\ run' = IF Pending(a) = {} THEN GoesTo(a, k, "clear", 0, {}) ELSE Ended(a, k)
    /\ UNCHANGED <<scheduling, table, switches, wakes, spend>>

PendingReadFails(a, k) ==
    /\ DbFails /\ run[a][k].pc = "query"
    /\ run' = Ended(a, k)
    /\ UNCHANGED <<scheduling, table, switches, wakes, spend>>

\* The rest of runForAI up to the cycle's first await.  inFlight was tested
\* before the query and is not tested again.
PassGate(a, k) ==
    /\ run[a][k].pc = "clear"
    /\ B!Charge(0)
    /\ IF B!ShouldPause
       THEN run' = Ended(a, k) /\ UNCHANGED inFlight
       ELSE run' = GoesTo(a, k, "lookup", 0, {}) /\ inFlight' = inFlight \cup {a}
    /\ UNCHANGED <<thinking, table, switches, wakes>>

\* Mutant: the run that cannot read its AI is not taken out of flight.
LookupLeaks(a, k) ==
    /\ DbFails /\ run[a][k].pc = "lookup"
    /\ run' = Ended(a, k)
    /\ UNCHANGED <<scheduling, table, switches, wakes, spend>>

\* The AI's row is missing or cannot be read: nothing was announced yet.
LookupFails(a, k) ==
    /\ DbFails /\ run[a][k].pc = "lookup"
    /\ run' = Ended(a, k)
    /\ inFlight' = Released(a, k)
    /\ UNCHANGED <<thinking, table, switches, wakes, spend>>

LookupReturns(a, k) ==
    /\ run[a][k].pc = "lookup"
    /\ run' = GoesTo(a, k, "context", 0, {})
    /\ thinking' = MarkThinking(a, TRUE)
    /\ UNCHANGED <<inFlight, table, switches, wakes, spend>>

ContextReturns(a, k) ==
    /\ run[a][k].pc = "context"
    /\ run' = GoesTo(a, k, "model", 1, {})
    /\ UNCHANGED <<scheduling, table, switches, wakes, spend>>

\* A read of the context failed, or the model call after its retries.
CycleFails(a, k) ==
    /\ \/ DbFails /\ run[a][k].pc = "context"
       \/ run[a][k].pc = "model"
    /\ FinishCycle(a, k)
    /\ B!Charge(0)
    /\ UNCHANGED <<table, switches, wakes>>

\* The response costs usd: past the limit the breaker trips; otherwise the
\* cycle stops or dispatches the calls of the response.
ModelReturns(a, k, usd, calls) ==
    /\ run[a][k].pc = "model"
    /\ B!Charge(usd)
    /\ \/ /\ B!Exceeds(usd)
          /\ calls = {}
          /\ run' = GoesTo(a, k, "notice", run[a][k].round, {})
          /\ UNCHANGED scheduling
       \/ ~B!Exceeds(usd) /\ calls = {} /\ FinishCycle(a, k)
       \/ /\ ~B!Exceeds(usd)
          /\ run' = GoesTo(a, k, "tools", run[a][k].round, calls)
          /\ UNCHANGED scheduling
    /\ UNCHANGED <<table, switches, wakes>>

\* All tool calls settled: the next round, or the cap.
RoundEnds(a, k) ==
    /\ run[a][k].pc = "tools"
    /\ run[a][k].todo = {}
    /\ \/ /\ run[a][k].round < MaxRounds
          /\ run' = GoesTo(a, k, "model", run[a][k].round + 1, {})
          /\ UNCHANGED <<scheduling, spend>>
       \/ /\ run[a][k].round = MaxRounds
          /\ FinishCycle(a, k)
          /\ B!Charge(0)
    /\ UNCHANGED <<table, switches, wakes>>

NoticePosted(a, k) ==
    /\ run[a][k].pc = "notice"
    /\ FinishCycle(a, k)
    /\ B!Charge(0)
    /\ UNCHANGED <<table, switches, wakes>>

-----------------------------------------------------------------------------
(***************************************************************************)
(* The tool calls of a round settle in any order                           *)
(***************************************************************************)
Calls(a, k, tool) == run[a][k].pc = "tools" /\ tool \in run[a][k].todo

Settled(a, k, tool) == GoesTo(a, k, "tools", run[a][k].round, run[a][k].todo \ {tool})

RequestApproval(a, k, p) ==
    /\ Calls(a, k, "request_approval")
    /\ approval[p].status = "none"
    /\ approval' = [approval EXCEPT ![p] = [status |-> "PENDING", ai |-> a]]
    /\ run' = Settled(a, k, "request_approval")
    /\ UNCHANGED <<scheduling, deciding, switches, wakes, spend>>

WebSearch(a, k) ==
    /\ Calls(a, k, "web_search")
    /\ B!Charge(SearchFee)
    /\ run' = Settled(a, k, "web_search")
    /\ UNCHANGED <<scheduling, table, switches, wakes>>

\* Mutant: the teammate is started past the accounts of the chain.
AssignPastChokepoint(a, k, to) ==
    LET wake == W!DeriveChildContext(run[a][k], a)
    IN  /\ Calls(a, k, "assign_task")
        /\ to # a /\ run[a][k].chain # NoChain /\ HasRoom({to})
        /\ run' = RunForAI({to}, wake, Settled(a, k, "assign_task"))
        /\ UNCHANGED <<scheduling, table, switches, wakes, spend>>

\* A task is assigned to the teammate to, who is woken only within a chain,
\* within its budgets, and by a listener that is still there.
AssignTask(a, k, to) ==
    LET wake == W!DeriveChildContext(run[a][k], a)
        settled == Settled(a, k, "assign_task")
        woken == run[a][k].chain # NoChain /\ W!PeekWake(to, wake) = "ok" /\ loopOn
    IN  /\ Calls(a, k, "assign_task")
        /\ to # a
        /\ \/ ~woken /\ run' = settled /\ UNCHANGED chains
           \/ /\ woken
              /\ W!AuthorizeWake(to, wake)
              /\ IF W!AuthorizeVerdict(to, wake) = "ok"
                 THEN HasRoom({to}) /\ run' = RunForAI({to}, wake, settled)
                 ELSE run' = settled
        /\ UNCHANGED <<scheduling, table, switches, issued, spend>>

\* A call that ends as an error result or is refused.
ToolFails(a, k, tool) ==
    /\ Calls(a, k, tool)
    /\ run' = Settled(a, k, tool)
    /\ UNCHANGED <<scheduling, table, switches, wakes, spend>>

-----------------------------------------------------------------------------
(***************************************************************************)
(* Decisions, the life of the process, the clock                           *)
(***************************************************************************)

\* PATCH commits the decision; a second decision finds no PENDING row.
Decide(p, status) ==
    /\ approval[p].status = "PENDING"
    /\ approval' = [approval EXCEPT ![p].status = status]
    /\ deciding' = deciding \cup {p}
    /\ UNCHANGED <<run, scheduling, switches, wakes, spend>>

\* Mutant: every decision wakes the AI.
AnnounceAny(p) ==
    /\ p \in deciding
    /\ deciding' = deciding \ {p}
    /\ IF loopOn
       THEN /\ HasRoom({approval[p].ai})
            /\ chains' = [W!SweepIdle(chains) EXCEPT ![p] = W!Opened(1)]
            /\ run' = RunForAI({approval[p].ai}, W!StartHumanChain(p), run)
            /\ issued' = issued \cup {p}
       ELSE UNCHANGED <<run, wakes>>
    /\ UNCHANGED <<scheduling, approval, switches, spend>>

\* The handler has the committed row and emits the event: wakeup for a grant,
\* reject for a refusal, which has no listener.
Announce(p) ==
    /\ p \in deciding
    /\ deciding' = deciding \ {p}
    /\ IF approval[p].status = "APPROVED" /\ loopOn
       THEN /\ HasRoom({approval[p].ai})
            /\ chains' = [W!SweepIdle(chains) EXCEPT ![p] = W!Opened(1)]
            /\ run' = RunForAI({approval[p].ai}, W!StartHumanChain(p), run)
            /\ issued' = issued \cup {p}
       ELSE UNCHANGED <<run, wakes>>
    /\ UNCHANGED <<scheduling, approval, switches, spend>>

\* The commit's answer is lost: the handler fails with 500 and emits nothing.
AnswerLost(p) ==
    /\ DbFails
    /\ p \in deciding
    /\ deciding' = deciding \ {p}
    /\ UNCHANGED <<run, scheduling, approval, switches, wakes, spend>>

\* SIGTERM: AgenticLoop.stop.
Stop ==
    /\ loopOn
    /\ loopOn' = FALSE
    /\ UNCHANGED <<run, scheduling, table, ticking, wakes, spend>>

\* The process exits or crashes and its supervisor starts it again: only the
\* approval table survives.
Restart ==
    /\ Restarts
    /\ run' = [a \in AI |-> [k \in Slot |-> Idle]]
    /\ inFlight' = {} /\ thinking' = {}
    /\ deciding' = {}
    /\ loopOn' = TRUE /\ ticking' = FALSE
    /\ chains' = [c \in Chain |-> W!Untracked]
    /\ todayUSD' = 0 /\ dayOver' = FALSE
    /\ UNCHANGED <<approval, issued>>

ChainsAge ==
    /\ UNCHANGED <<run, scheduling, table, switches, spend>>
    /\ W!ClockTick

DayEnds ==
    /\ ~dayOver
    /\ dayOver' = TRUE
    /\ UNCHANGED <<run, scheduling, table, switches, wakes, todayUSD>>

-----------------------------------------------------------------------------
ToolStep(a, k) ==
    \/ \E p \in Approval : RequestApproval(a, k, p)
    \/ WebSearch(a, k)
    \/ \E to \in AI : AssignTask(a, k, to)
    \/ \E tool \in Tool : ToolFails(a, k, tool)

RunStep(a, k) ==
    \/ PendingRead(a, k)
    \/ PendingReadFails(a, k)
    \/ PassGate(a, k)
    \/ LookupFails(a, k)
    \/ LookupReturns(a, k)
    \/ ContextReturns(a, k)
    \/ CycleFails(a, k)
    \/ \E usd \in 0..MaxCost, calls \in SUBSET Tool : ModelReturns(a, k, usd, calls)
    \/ RoundEnds(a, k)
    \/ NoticePosted(a, k)
    \/ ToolStep(a, k)

Next ==
    \/ \E m \in Message, S \in (SUBSET AI) \ {{}} : Mention(m, S)
    \/ TimerFires \/ TickReturns \/ TickFails
    \/ \E a \in Reporter : StartReport(a)
    \/ \E a \in AI, k \in Slot : RunStep(a, k)
    \/ \E p \in Approval, status \in {"APPROVED", "REJECTED"} : Decide(p, status)
    \/ \E p \in Approval : Announce(p) \/ AnswerLost(p)
    \/ Stop \/ Restart
    \/ ChainsAge \/ DayEnds

Spec == Init /\ [][Next]_vars

\* Every await settles: the queries of the database, the model calls (their
\* retries are counted) and the tool calls (with a timeout).  The interval
\* timer keeps firing, and the database does not fail every time it is asked.
\* The process is not restarted over and over.  Nobody owes a message, a
\* report, a decision or a stop.
Fairness ==
    /\ \A a \in AI, k \in Slot : WF_vars(RunStep(a, k)) /\ SF_vars(PendingRead(a, k))
    /\ WF_vars(TimerFires) /\ SF_vars(TickReturns)
    /\ \A p \in Approval : WF_vars(Announce(p) \/ AnswerLost(p))
    /\ <>[][~Restart]_vars

FairSpec == Spec /\ Fairness

-----------------------------------------------------------------------------
(***************************************************************************)
(* Properties                                                              *)
(***************************************************************************)
CyclesOf(a) == {k \in Slot : run[a][k].pc \in InCycle}
LoopCyclesOf(a) == CyclesOf(a) \ {0}

\* An AI is never left in flight without a cycle, on any path out of a run:
\* such an entry would mute it until the next restart.
InFlightHasCycle ==
    \A a \in inFlight : \E k \in 1..MaxRuns : run[a][k].pc \in InCycle

\* The dashboard shows an AI as thinking only while a cycle of it runs, also
\* when a report and a loop cycle of the AI overlap.
ThinkingHasCycle ==
    \A a \in thinking : \E k \in Slot : run[a][k].pc \in InCycle

\* The approval gate at the strength the code gives it: a cycle of the loop
\* does not start over a request that was waiting when its run was called
\* and still waits.
OldRequestBlocks ==
    [][\A a \in AI : \A k \in LoopCyclesOf(a)' \ LoopCyclesOf(a) :
          \A p \in run[a][k].seen : approval[p].status # "PENDING"]_vars

\* A wake that a grant opens carries the grant: no run acts on the chain of a
\* request before it is committed as APPROVED, and a refused one wakes nobody.
GrantedRunsOnly ==
    \A a \in AI, k \in Slot :
        run[a][k].chain \in Approval => approval[run[a][k].chain].status = "APPROVED"

\* Every wake goes through the accounts of WakeChain, and every charge and
\* gate through those of Budget, in an order the two allow.
DrivesWakeChain == W!Spec
DrivesBudget == B!BudgetSpec

\* With the timer, a grant is followed by a cycle of the AI whatever was
\* lost in between, unless another request or the budget holds the AI back.
Granted(a, p) == approval[p] = [status |-> "APPROVED", ai |-> a]
Resumes(a) == \/ \E k \in 1..MaxRuns : run[a][k].pc = "lookup"
              \/ Pending(a) # {}
              \/ B!ShouldPause
              \/ ~loopOn
GrantResumes == \A a \in AI, p \in Approval : Granted(a, p) ~> Resumes(a)

\* agentic-loop.ts, its header: the guard "ensures at most one cycle per AI
\* runs at any moment".
AtMostOneCyclePerAI == \A a \in AI : Cardinality(LoopCyclesOf(a)) <= 1
=============================================================================
