------------------------------- MODULE Transcript -------------------------------
(***************************************************************************)
(* The conversation of one cycle: what the model is sent, what it answers  *)
(* and what its tool calls return.                                         *)
(*                                                                         *)
(* runCycle keeps the whole conversation and sends, each round, the end of *)
(* it that fits the token budget, translated to the messages of the        *)
(* provider.  A failed call is tried again.  The tool calls of an answer   *)
(* run in parallel; those that fetch from the network race a timer.  The   *)
(* answer and the results are appended, and the next round begins.         *)
(*                                                                         *)
(* One cycle of one colleague; AgenticLoop runs cycles, and Budget counts  *)
(* what they spend.                                                        *)
(***************************************************************************)
EXTENDS Naturals, Sequences

CONSTANTS
    MaxRounds,    \* MAX_ROUNDS
    MaxRetries,   \* MAX_RETRIES
    TokenBudget,  \* CONTEXT_TOKEN_BUDGET
    Tool,         \* the tools of TOOL_DEFINITIONS
    Search, Docs, \* those that fetch: web_search and read_project_docs
    Unknown,      \* a name that is none of them
    FileCost,     \* the estimates of the files and directories there are
    MaxFileCost,  \* MAX_FILE_BYTES
    SearchCost,   \* the estimates of up to ten rows
    ToolCost,     \* the estimates of what the other tools return
    DigestCost,   \* the estimates of the first message
    Answer        \* the answers of the provider

ASSUME RoundsAssumption ==
    MaxRounds \in Nat /\ MaxRetries \in Nat /\ TokenBudget \in Nat \ {0}
ASSUME ToolAssumption ==
    /\ {Search, Docs} \subseteq Tool /\ Unknown \notin Tool
    /\ FileCost \cup SearchCost \cup ToolCost \cup {MaxFileCost} \subseteq Nat \ {0}
    /\ DigestCost \subseteq Nat

VARIABLES
    stage,     \* where the cycle is
    allowed,   \* the tools the operator has listed, read when the cycle begins
    rounds,    \* rounds begun
    attempt,   \* failed calls of this round
    messages,  \* the conversation
    uses,      \* the tool calls of the last answer
    results    \* the estimate of each result, Running before

call == <<rounds, attempt>>
tools == <<uses, results>>
transcriptVars == <<stage, allowed, call, messages, tools>>

Stage == {"context", "round", "calling", "tools",
          "stop", "round_cap", "retry_exhausted", "budget_exceeded"}
Running == 0
ErrorCost == 1
Id == (1..MaxRounds) \X Nat
Message == [kind : {"digest", "assistant", "results"}, ids : Seq(Id), cost : Nat]

\* A call in an answer: other than a function call, or with clipped arguments.
Call == [type : {"function", "other"}, tool : Tool \cup {Unknown}, clipped : BOOLEAN]
ASSUME AnswerAssumption ==
    \A a \in Answer : a.finish_reason \in {"tool_calls", "length", "stop"} /\ a.calls \in Seq(Call)

Use == [id : Id, tool : Tool \cup {Unknown}, clipped : BOOLEAN]

\* The sums of the first n numbers.
Sums(s) == LET sum[n \in 0..Len(s)] == IF n = 0 THEN 0 ELSE sum[n - 1] + s[n] IN sum
Sum(s) == Sums(s)[Len(s)]

TranscriptTypeOK ==
    /\ stage \in Stage /\ allowed \subseteq Tool
    /\ rounds \in 0..MaxRounds /\ attempt \in 0..MaxRetries
    /\ messages \in Seq(Message)
    /\ uses \in Seq(Use)
    /\ results \in Seq(Nat) /\ Len(results) = Len(uses)

TranscriptInit ==
    /\ stage = "context" /\ allowed \in SUBSET Tool
    /\ rounds = 0 /\ attempt = 0 /\ messages = <<>>
    /\ uses = <<>> /\ results = <<>>

-----------------------------------------------------------------------------
(***************************************************************************)
(* What the model is sent                                                  *)
(***************************************************************************)

\* The last n messages.
LastOf(ms, n) == SubSeq(ms, Len(ms) - n + 1, Len(ms))

NothingKept == [used |-> 0, kept |-> 0, full |-> FALSE]

\* Mutant: a message that does not fit is passed over.
WalkStepAround(before, n, cost) ==
    IF before.used + cost > TokenBudget THEN before
    ELSE [before EXCEPT !.used = @ + cost, !.kept = n]

\* The n-th message from the end is kept, or ends the walk.
WalkStep(before, n, cost) ==
    IF before.full \/ before.used + cost > TokenBudget THEN [before EXCEPT !.full = TRUE]
    ELSE [before EXCEPT !.used = @ + cost, !.kept = n]

\* The loop of trimContextToTokenBudget, from the newest message back until one
\* does not fit: after n steps.
Walk(ms) ==
    LET walk[n \in 0..Len(ms)] ==
            IF n = 0 THEN NothingKept
            ELSE WalkStep(walk[n - 1], n, ms[Len(ms) - n + 1].cost)
    IN  walk

Trimmed(ms) == LastOf(ms, Walk(ms)[Len(ms)].kept)

\* An answer names its calls, each result is a message.
Translated(m) ==
    CASE m.kind = "digest"    -> <<[role |-> "user", ids |-> <<>>]>>
      [] m.kind = "assistant" -> <<[role |-> "assistant", ids |-> m.ids]>>
      [] m.kind = "results"   ->
            [i \in DOMAIN m.ids |-> [role |-> "tool", ids |-> <<m.ids[i]>>]]

\* The loop of toOpenAIMessages: after n messages.
Pushed(ms) ==
    LET out[n \in 0..Len(ms)] ==
            IF n = 0 THEN <<[role |-> "system", ids |-> <<>>]>>
            ELSE out[n - 1] \o Translated(ms[n])
    IN  out

Wire(ms) == Pushed(ms)[Len(ms)]

Sent == Wire(Trimmed(messages))

-----------------------------------------------------------------------------
(***************************************************************************)
(* The rounds of runCycle                                                  *)
(***************************************************************************)

ContextReturns ==
    /\ stage = "context"
    /\ stage' = "round"
    /\ \E cost \in DigestCost :
          messages' = <<[kind |-> "digest", ids |-> <<>>, cost |-> cost]>>
    /\ UNCHANGED <<allowed, call, tools>>

ContextFails ==
    /\ stage = "context"
    /\ stage' = "retry_exhausted"
    /\ UNCHANGED <<allowed, call, messages, tools>>

BeginRound ==
    /\ stage = "round" /\ rounds < MaxRounds
    /\ stage' = "calling"
    /\ rounds' = rounds + 1 /\ attempt' = 0
    /\ UNCHANGED <<allowed, messages, tools>>

RoundCap ==
    /\ stage = "round" /\ rounds = MaxRounds
    /\ stage' = "round_cap"
    /\ UNCHANGED <<allowed, call, messages, tools>>

\* Any error of the provider is tried again after a pause; the last is thrown.
CallFails ==
    /\ stage = "calling"
    /\ \/ attempt < MaxRetries /\ attempt' = attempt + 1 /\ stage' = stage
       \/ attempt = MaxRetries /\ attempt' = attempt /\ stage' = "retry_exhausted"
    /\ UNCHANGED <<allowed, rounds, messages, tools>>

\* budget.track refuses the usage of the answer; the answer is dropped.
BudgetExceeded ==
    /\ stage = "calling"
    /\ stage' = "budget_exceeded"
    /\ UNCHANGED <<allowed, call, messages, tools>>

\* mapFinishReason
StopReason(finish_reason) ==
    CASE finish_reason = "tool_calls" -> "tool_use"
      [] finish_reason = "length"     -> "max_tokens"
      [] finish_reason = "stop"       -> "end_turn"

\* The n-th call of an answer, with the id that the provider gave it.
Block(c, n) == [id |-> <<rounds, n>>, tool |-> c.tool, clipped |-> c.clipped]

\* The loop of toAnthropicLikeMessage over the calls: after n of them.
Blocks(calls) ==
    LET out[n \in 0..Len(calls)] ==
            IF n = 0 THEN <<>>
            ELSE IF calls[n].type = "function" THEN Append(out[n - 1], Block(calls[n], n))
            ELSE out[n - 1]
    IN  out

ToolUses(calls) == Blocks(calls)[Len(calls)]

\* An answer with another stop reason ends the cycle, whatever calls it has.
CallReturns(answer) ==
    /\ stage = "calling"
    /\ IF StopReason(answer.finish_reason) = "tool_use"
       THEN /\ stage' = "tools"
            /\ uses' = ToolUses(answer.calls)
            /\ results' = [i \in DOMAIN uses' |-> Running]
       ELSE /\ stage' = "stop"
            /\ UNCHANGED <<uses, results>>
    /\ UNCHANGED <<allowed, call, messages>>

\* Mutant: the answer is only kept when it says something.
ExchangeSilent(total) ==
    IF Len(uses) > 1 THEN <<[kind |-> "results", ids |-> [i \in DOMAIN uses |-> uses[i].id],
                             cost |-> total]>>
    ELSE <<[kind |-> "assistant", ids |-> [i \in DOMAIN uses |-> uses[i].id], cost |-> 1],
           [kind |-> "results", ids |-> [i \in DOMAIN uses |-> uses[i].id], cost |-> total]>>

\* The answer and the results of its calls, one for each.
Exchange(total) ==
    LET ids == [i \in DOMAIN uses |-> uses[i].id]
    IN  <<[kind |-> "assistant", ids |-> ids, cost |-> 1],
          [kind |-> "results", ids |-> ids, cost |-> total]>>

RoundEnds ==
    /\ stage = "tools"
    /\ \A i \in DOMAIN results : results[i] # Running
    /\ stage' = "round"
    /\ messages' = messages \o Exchange(Sum(results))
    /\ uses' = <<>> /\ results' = <<>>
    /\ UNCHANGED <<allowed, call>>

-----------------------------------------------------------------------------
(***************************************************************************)
(* dispatchTool                                                            *)
(***************************************************************************)

InHand(i) == stage = "tools" /\ i \in DOMAIN results /\ results[i] = Running

\* A known tool, on the list of the operator if there is one.
Enabled(tool) == tool \in Tool /\ (allowed # {} => tool \in allowed)

\* Arguments that were clipped are {}, which every schema rejects.
Valid(use) == ~use.clipped

Accepted(i) == InHand(i) /\ Enabled(uses[i].tool) /\ Valid(uses[i])

Return(i, cost) ==
    /\ results' = [results EXCEPT ![i] = cost]
    /\ UNCHANGED <<stage, allowed, call, messages, uses>>

Refuse(i) ==
    /\ InHand(i) /\ ~(Enabled(uses[i].tool) /\ Valid(uses[i]))
    /\ Return(i, ErrorCost)

Remote(i) == Accepted(i) /\ uses[i].tool \in {Search, Docs}

\* A tool of the workspace returns, or its service throws.
RunTool(i) ==
    /\ Accepted(i) /\ ~Remote(i)
    /\ \E cost \in ToolCost \cup {ErrorCost} : Return(i, cost)

SearchReturns(i) ==
    /\ Remote(i) /\ uses[i].tool = Search
    /\ \E cost \in SearchCost : Return(i, cost)

\* A file is cut at the limit.
FileReturns(i) ==
    /\ Remote(i) /\ uses[i].tool = Docs
    /\ \E cost \in FileCost : Return(i, IF cost > MaxFileCost THEN MaxFileCost ELSE cost)

\* No key, a status that is not 2xx, a body of another form.
SearchRefused(i) ==
    /\ Remote(i) /\ uses[i].tool = Search
    /\ Return(i, ErrorCost)

\* Not found, no access, a rate that is exceeded, neither a file nor a directory.
FileFails(i) ==
    /\ Remote(i) /\ uses[i].tool = Docs
    /\ Return(i, ErrorCost)

\* Mutant: the timer runs without an effect.
DeadlineNever(i) == FALSE

\* The timer of withSafeExecution aborts the fetch.
Deadline(i) == Remote(i)

TimesOut(i) ==
    /\ Deadline(i)
    /\ Return(i, ErrorCost)

-----------------------------------------------------------------------------
TranscriptNext ==
    \/ ContextReturns \/ ContextFails
    \/ BeginRound \/ RoundCap \/ CallFails \/ BudgetExceeded
    \/ \E answer \in Answer : CallReturns(answer)
    \/ \E i \in DOMAIN results :
          \/ Refuse(i) \/ RunTool(i) \/ TimesOut(i)
          \/ SearchReturns(i) \/ SearchRefused(i) \/ FileReturns(i) \/ FileFails(i)
    \/ RoundEnds

TranscriptSpec == TranscriptInit /\ [][TranscriptNext]_transcriptVars

\* Timers and queries end.  Nothing is assumed of a fetch: a server may never
\* answer.
TranscriptFairness ==
    /\ WF_transcriptVars(ContextReturns \/ ContextFails)
    /\ WF_transcriptVars(BeginRound \/ RoundCap \/ RoundEnds)
    /\ WF_transcriptVars(CallFails \/ BudgetExceeded \/ \E answer \in Answer : CallReturns(answer))
    /\ WF_transcriptVars(\E i \in DOMAIN results : Refuse(i) \/ RunTool(i) \/ TimesOut(i))

FairTranscriptSpec == TranscriptSpec /\ TranscriptFairness

-----------------------------------------------------------------------------
(***************************************************************************)
(* Properties                                                              *)
(***************************************************************************)

Costs(ms) == [i \in DOMAIN ms |-> ms[i].cost]
Total(ms) == Sum(Costs(ms))

\* What is sent is the longest end of the conversation within the budget: the
\* first message, which holds the instruction of the cycle, goes first, and
\* nothing is cut out of the middle.
SendsLongestEnd ==
    LET kept == Len(Trimmed(messages))
    IN  /\ Trimmed(messages) = LastOf(messages, kept)
        /\ Total(LastOf(messages, kept)) <= TokenBudget
        /\ \A n \in (kept + 1)..Len(messages) : Total(LastOf(messages, n)) > TokenBudget

\* Every call that is sent has its result, right after the answer and once; and
\* every result has its call, but for those at the head of a conversation that
\* was cut between them.
ResultsFollowCalls ==
    stage = "calling" =>
        LET sent == Sent
        IN  \A k \in DOMAIN sent :
            /\ sent[k].role = "assistant" =>
                  \A i \in DOMAIN sent[k].ids :
                      /\ k + i \in DOMAIN sent
                      /\ sent[k + i] = [role |-> "tool", ids |-> <<sent[k].ids[i]>>]
            /\ sent[k].role = "tool" =>
                  \/ \E a \in 1..(k - 1) :
                        /\ sent[a].role = "assistant"
                        /\ k - a \in DOMAIN sent[a].ids
                        /\ sent[a].ids[k - a] = sent[k].ids[1]
                  \/ /\ Total(messages) > TokenBudget
                     /\ \A j \in 2..k : sent[j].role = "tool"

\* A cycle ends, although a server may never answer a fetch.
CycleEnds == <>(stage \in {"stop", "round_cap", "retry_exhausted", "budget_exceeded"})
=============================================================================
