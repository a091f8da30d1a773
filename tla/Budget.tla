-------------------------------- MODULE Budget --------------------------------
(***************************************************************************)
(* The daily AI spend and its circuit breaker, lib/ai/budget.ts, with the  *)
(* cycles that charge it: the pre-cycle gate of the agentic loop and of    *)
(* the daily report (shouldPauseCycle), the charge after every model call  *)
(* (track) and the charge of a web search inside a round (trackOther).     *)
(*                                                                         *)
(* Amounts are integers of a small currency unit.  The UTC day is one bit: *)
(* dayOver says that resetAt has passed and nobody rolled the tally yet.   *)
(***************************************************************************)
EXTENDS Integers, FiniteSets

CONSTANTS
    Run,           \* the runCycle invocations that can be in progress at once
    Limit,         \* AI_DAILY_BUDGET_USD
    MaxCost,       \* the dearest single model call
    SearchFee,     \* WEB_SEARCH_COST_USD
    MaxSearches    \* web searches one model response can ask for

ASSUME CyclesAssumption == IsFiniteSet(Run)
ASSUME AmountsAssumption ==
    /\ Limit \in Nat /\ MaxCost \in Nat
    /\ SearchFee \in Nat /\ MaxSearches \in Nat

VARIABLES
    todayUSD,   \* running tally of the UTC day
    dayOver,    \* now >= resetAt
    on,         \* cycles past the gate that can still call the model
    asked,      \* web searches of a cycle's round that are not charged yet
    tripped     \* cycles past the breaker that still post the notice

budgetVars == <<todayUSD, dayOver, on, asked, tripped>>

BudgetTypeOK ==
    /\ todayUSD \in Nat
    /\ dayOver \in BOOLEAN
    /\ on \subseteq Run
    /\ asked \in [Run -> 0..MaxSearches]
    /\ tripped \subseteq Run

-----------------------------------------------------------------------------
\* rolloverIfNeeded, called first by every method.
RolledOver == IF dayOver THEN 0 ELSE todayUSD

Charge(usd) == todayUSD' = RolledOver + usd /\ dayOver' = FALSE

Exceeds(usd) == RolledOver + usd > Limit

\* shouldPauseCycle() at its default of 95 per cent; a limit of zero never
\* pauses.
ShouldPause == Limit > 0 /\ 100 * RolledOver >= 95 * Limit

-----------------------------------------------------------------------------
BudgetInit ==
    /\ todayUSD = 0
    /\ dayOver = FALSE
    /\ on = {}
    /\ asked = [c \in Run |-> 0]
    /\ tripped = {}

\* Mutant: the gate trusts a tally of yesterday.
GateWithoutRollover(c) ==
    /\ c \notin on \cup tripped
    /\ on' = IF Limit > 0 /\ 100 * todayUSD >= 95 * Limit THEN on ELSE on \cup {c}
    /\ asked' = [asked EXCEPT ![c] = 0]
    /\ UNCHANGED <<todayUSD, dayOver, tripped>>

\* The gate before a cycle: rolls the day over, then starts the cycle or
\* skips this turn.
Gate(c) ==
    /\ c \notin on \cup tripped
    /\ Charge(0)
    /\ on' = IF ShouldPause THEN on ELSE on \cup {c}
    /\ asked' = [asked EXCEPT ![c] = 0]
    /\ UNCHANGED tripped

\* Mutant: the breaker is noticed but the cycle goes on.
TrackPastLimit(c, usd, n) ==
    /\ c \in on
    /\ Charge(usd)
    /\ asked' = [asked EXCEPT ![c] = n]
    /\ UNCHANGED <<on, tripped>>

\* A model call of c returns and is charged.  Past the limit the cycle stops
\* as budget_exceeded and posts its notice; otherwise the call is its last
\* one or asks for tools, n web searches among them.
Track(c, usd, n) ==
    /\ c \in on
    /\ Charge(usd)
    /\ \/ Exceeds(usd) /\ n = 0 /\ on' = on \ {c} /\ tripped' = tripped \cup {c}
       \/ /\ ~Exceeds(usd)
          /\ on' = on \/ (n = 0 /\ on' = on \ {c})
          /\ UNCHANGED tripped
    /\ asked' = [asked EXCEPT ![c] = n]

\* A web search of the current round succeeds; the dispatcher swallows the
\* breaker's throw, so the cycle goes on to its next model call.
TrackSearch(c) ==
    /\ c \in on
    /\ asked[c] > 0
    /\ Charge(SearchFee)
    /\ asked' = [asked EXCEPT ![c] = @ - 1]
    /\ UNCHANGED <<on, tripped>>

\* A web search fails or times out: nothing is charged.
SearchFails(c) ==
    /\ c \in on
    /\ asked[c] > 0
    /\ asked' = [asked EXCEPT ![c] = @ - 1]
    /\ UNCHANGED <<todayUSD, dayOver, on, tripped>>

\* The cycle ends by its round cap or by an error; its summary log reads the
\* tally, unless the AI's row could not be read in the first place.
EndCycle(c) ==
    /\ c \in on
    /\ on' = on \ {c}
    /\ Charge(0) \/ UNCHANGED <<todayUSD, dayOver>>
    /\ UNCHANGED <<asked, tripped>>

\* The notice of a tripped cycle is posted, or posting it failed.
NoticePosted(c) ==
    /\ c \in tripped
    /\ tripped' = tripped \ {c}
    /\ Charge(0)
    /\ UNCHANGED <<on, asked>>

\* getStats() of the admin endpoint and of the cycle logs.
GetStats ==
    /\ Charge(0)
    /\ UNCHANGED <<on, asked, tripped>>

\* UTC midnight passes.
Midnight ==
    /\ ~dayOver
    /\ dayOver' = TRUE
    /\ UNCHANGED <<todayUSD, on, asked, tripped>>

\* The tally lives in the memory of the process.
BudgetRestart ==
    /\ todayUSD' = 0 /\ dayOver' = FALSE
    /\ on' = {} /\ tripped' = {} /\ asked' = [c \in Run |-> 0]

BudgetNext ==
    \/ \E c \in Run : Gate(c)
    \/ \E c \in Run, usd \in 0..MaxCost, n \in 0..MaxSearches : Track(c, usd, n)
    \/ \E c \in Run : TrackSearch(c)
    \/ \E c \in Run : SearchFails(c)
    \/ \E c \in Run : EndCycle(c)
    \/ \E c \in Run : NoticePosted(c)
    \/ GetStats
    \/ Midnight
    \/ BudgetRestart

BudgetSpec == BudgetInit /\ [][BudgetNext]_budgetVars

\* The clock reaches midnight, the auto-tick keeps trying to start cycles, a
\* notice is posted or fails.  Nobody owes a restart or a look at the stats.
BudgetFairSpec ==
    /\ BudgetSpec /\ WF_budgetVars(Midnight)
    /\ \A c \in Run : WF_budgetVars(Gate(c)) /\ WF_budgetVars(NoticePosted(c))

-----------------------------------------------------------------------------
(***************************************************************************)
(* Properties                                                              *)
(***************************************************************************)

\* What the breaker can let through when all cycles are past the gate: one
\* model call and one round of searches each.
Ceiling == Limit + MaxCost * Cardinality(Run)
                 + SearchFee * Cardinality(Run \X (1..MaxSearches))

\* track trips only after the call is paid and trackOther's trip is
\* swallowed, so the day's spend can pass the limit; it never does so by
\* more than the cycles already in progress could each spend on one more
\* round.
OvershootBounded == Limit > 0 => todayUSD <= Ceiling

GateHolds == on = {} /\ ShouldPause

\* The deadlock the code says it closed: a gate that holds with no cycle in
\* progress is released by the next UTC midnight, although nothing calls
\* track in between.
GateReleases == GateHolds ~> (on # {})

\* shouldPauseCycle's comment: a non-positive limit is "treated as budgeting
\* disabled", so no cycle should end by the breaker.
ZeroLimitDisables == Limit = 0 => tripped = {}
=============================================================================
