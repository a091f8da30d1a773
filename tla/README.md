# OneCrew: specifications, model checking and proofs

OneCrew is a team workspace in which humans and AI colleagues share channels, a
task board and an approval queue. Everything runs in one Node process: Next.js
route handlers, a Socket.io server and the *agentic loop* that starts the
decision cycles of the AI colleagues. This directory holds TLA+ modules of that
program, the TLC configurations that check them and the TLAPS proofs about them.

One process and one thread: between two `await`s nothing else runs, so one
action of a module is what the code does between two awaits (or one atomic
statement of the database). Interleaving happens at awaits, across requests,
across browsers, and at crashes.

## Inventory

| component | state | operations | talks to |
|---|---|---|---|
| agentic loop, `lib/loop/agentic-loop.ts` | `inFlight`, `timer`, `wakeupListener` | `start`, `stop`, `tick`, `runForAI` | approval service (query), budget (gate), runtime (call), emitter (listener) |
| wake chains, `lib/loop/wake-chain.ts` | `chains`: activations, pair counts, last activity | `startHumanChain`, `deriveChildContext`, `authorizeWake`, `peekWake`, `sweepIdle` | called by the listener and by `assign_task` |
| AI runtime, `lib/ai/runtime.ts` | locals of a cycle | `runCycle`, `postBudgetExceededNotice` | model provider, budget, tools, thinking snapshot, message service |
| tools, `lib/ai/tools/index.ts` | none | `dispatchTool` | task, message and approval services, wake chains, budget |
| daily budget, `lib/ai/budget.ts` | `todayUSD`, `resetAt` | `track`, `trackOther`, `shouldPauseCycle`, `getStats` | loop, reports, runtime, `web_search` |
| approval service, `lib/services/approval.service.ts` and its PATCH route | table `Approval` | `create`, `approve`, `reject`, `listPendingForAI` | emitter, realtime |
| daily report, `lib/reports/daily.ts` | none | `runReportForAI`, `runDailyReportOnce`, scheduler | budget (gate), runtime |
| thinking snapshot, `lib/realtime/thinking.ts` | `thinkingAIs` | `markThinking`, `getThinkingSnapshot` | runtime, dashboard |
| message service, `lib/services/message.service.ts`, and the composer | table `Message`; the text typed in a browser | `create`, `wakeMentionedAIs`; `handleSubmit` | channels, rate limiter, emitter, realtime |
| task service and board, `lib/services/task.service.ts`, `components/board` | table `Task`, `Workspace.taskCounter`; a list and a dialog per browser | `create`, `updateStatus`, `assign`; submit, `handleTaskUpdated` | tools, wake chains, realtime |
| channels and rooms, `lib/realtime/io.ts`, `components/channel` | tables `Channel`, `ChannelMember`; rooms per socket; the knowledge card | `addMember`, `removeMember`, subscribe, unsubscribe, load and save of the card | browsers |
| approval center and dialog | pending list, open dialog per browser | submit, `approval:created` | PATCH route |
| AI colleague administration, `api/ai-colleagues`, `components/ai-teammates` | `User.aiSettings`, `aiStatus`; a list and a form per browser | POST, PATCH, DELETE; load, submit, switch | loop and messages (who is active), seed |
| rate limiter, `lib/ratelimit.ts` | token buckets | `rateLimit`, sweep, `Retry-After` | all write routes, login |
| context trimming and conversation, `lib/ai/context.ts`, `runtime.ts` | the messages of a cycle | cut, call, exchange | provider bridge, tools |
| model provider bridge, `lib/ai/openai-bridge.ts` | none | translation of messages, calls and finish reasons | runtime |
| start-up, `scripts/railway-start.ts`, `prisma/seed.ts`, `server.ts` | schema and history of migrations, the variables of the service | deploy, baseline, reset, roll-back, push, seed, boot, shutdown | Prisma CLI, platform |
| backup, notifications, sessions, configuration, pages | see "Not modelled" | | |

What is hard to test here: the order of awaits of concurrent cycles of one AI
(mention, tick, grant, report), events that are dropped because nobody is there
to hear them, crashes between a commit and the event that announces it, counters
that are forgotten by eviction or restart, a spend that is only known after it
was made. `PROJECT.json` lists these hazards with their lines.

## Modules

| module | what it is | checked by | proved in |
|---|---|---|---|
| `WakeChain` | the accounts of wake chains and the wakes that drive them | `AgenticLoop_team` (as the abstract specification), and through the next module | `LimitsProofs` |
| `WakeChainTotals` | the same with counts over the whole life of one chain | `WakeChainTotals` | `LimitsProofs` |
| `Budget` | the daily tally, its gate, its breaker and the cycles that charge it | `Budget`, `AgenticLoop_team` | `LimitsProofs` |
| `AgenticLoop` | the scheduler, the decision cycle, the approval gate; composes the three above | `AgenticLoop`, `AgenticLoop_team` | `AgenticLoopProofs` |
| `Transcript` | the conversation of one cycle: what is sent, answered, returned by tools | `Transcript` | `LimitsProofs` |
| `Approvals` | the approval queue in one browser against other members, lost requests and restarts | `Approvals` | `ApprovalsProofs` |
| `TaskBoard` | the task table, its writers and hand-offs, the board and dialog of one browser | `TaskBoard` | `TaskBoardProofs` |
| `ChannelView` | one browser, its pages and its subscriptions, the rooms of its socket | `ChannelView` | `ChannelViewProofs` |
| `ChannelForms` | the composer and the knowledge card of one browser | `ChannelForms` | `ChannelFormsProofs` |
| `Teammates` | an AI colleague's row, everybody who writes it, and a message that looks it up | `Teammates` | `TeammatesProofs` |
| `RateLimit` | the token buckets under a clock that runs and is set back | `RateLimit` | `ServerProofs` |
| `Startup` | the start of a container against a database that outlives it | `Startup` | `ServerProofs` |

`MC*` modules only give names to the members of the small sets of a run.

### WakeChain and WakeChainTotals

`chains` is the `Map<chainId, ChainState>`; an entry that is absent is a record
with `present = FALSE`. A clock is not needed: `idle` counts the ticks since
`lastActivityAt` up to the TTL, past which its value no longer matters.
`StartHumanChain`, `DeriveChildContext`, `AuthorizeWake` (sweep, verdict,
recording) and `PeekWake` are the functions of `lib/loop/wake-chain.ts`.
`HumanWake`, `HandOffWake`, `HandOffSuppressed` and `FinishCycle` are its
callers: a mention or a grant wakes a set of AIs under one new chain, a cycle
calls `assign_task`, a cycle ends. `Restart` empties the map while the runs die
with the process.

`WakeChainTotals` follows one chain (`Watched`) and counts what it was
authorized over its whole life and how often its entry was evicted: two history
variables that no action reads, which saturate at the bound `MaxEvictions`.

### Budget

`todayUSD` and one bit, `dayOver`, for "`resetAt` has passed and no method has
rolled the day over yet". Every method rolls over first, as `rolloverIfNeeded`
does. `on` are the cycles past the gate, `asked` the searches of a round not yet
charged, `tripped` the cycles that still post the breaker's notice. Amounts are
natural numbers: the code adds floating-point dollars, of which the model keeps
the order and the sums, not the rounding.

### AgenticLoop

An AI has slots for runs. Slots `1..MaxRuns` are calls of `runForAI`, slot 0 is
its daily report, which passes the budget gate only. `pc` names the await a run
is at:

| `pc` | await in the code |
|---|---|
| `query`, `clear` | `listPendingForAI` asked; answered, before the budget gate and `inFlight.add` |
| `lookup` | the AI's row, in flight but not yet thinking |
| `context` | `buildInitialContext` |
| `model` | the provider's call; `track` follows |
| `tools` | the tool calls of the round, in any order |
| `notice` | the breaker's message |

`Mention`, `TimerFires`, `TickReturns`, `Announce` (the event after a committed
decision) call `runForAI`; `Decide` commits the decision and `AnswerLost` is a
commit whose answer does not come back. `Stop` and `Restart` interrupt what they
interrupt in the code: `stop` the timer and the listener only. The tools kept
are those that reach back into the scheduler: `request_approval` (inserts a
pending row), `assign_task` (hands off through the wake accounts) and
`web_search` (charges the tally). Any other tool is a tool call without effect
on these variables.

`DrivesWakeChain` and `DrivesBudget` say that this module implements `WakeChain`
and `Budget`: the cycles of those specifications are computed from `run`
(`WokenRuns`, `Charging`, `SearchesLeft`, `Posting`), the accounts are shared.
The environment that `WakeChain` and `Budget` assume is thereby the one the
scheduler produces, and as both refinements are proved, what is proved about the
two holds in the composition for every team.

### ChannelView

A page load is an action that reads the history and another that mounts the
view; between the two anything may happen. `up` and `down` are the events on the
connection, in order, lost with it; `up` also holds what the client buffers
while it is offline. `lookups` are `subscribe:channel` handlers at their
database query; `LookupReturns` joins without looking at what came meanwhile,
as the code does. `missed` records that a query failed, so that the properties
can say that this is the only way not to get into the room.

### Approvals

The rows and their decisions, and one browser: `pending` and `dialog` are the
state of `ApprovalCenter` and of the workspace store, `submitting` that of each
`ApprovalDialog`. `Settled` is the watcher effect, part of every action that
changes the list or the pointer. `handlers` are PATCH requests on the server:
each commits by a conditional update, then emits the event and answers. A
request whose answer is lost keeps running (`heard = FALSE`) while the user may
submit again. Another member decides in one step, because nothing of that
member's browser reaches this one. `unseen` records the approvals that the load
or a broadcast left out.

### TaskBoard

`table` is the table `Task` in the order of its commits, each row as the sequence
of its committed versions, so that a property can ask whether a card is some
version and whether it is the last. A call is at one of its awaits: `open` holds
the row lock of the workspace from the increment of the counter to the end of the
transaction (`Begin`, `Commit`, `Rollback`); `committed` has a broadcast to make;
`handed off` is `assign_task` between its assignment and the wake; `answering`
has an HTTP answer under way. Broadcasts happen when a call's await resumes, in
any order; `lastSent` records which version was broadcast last and `missed` the
tasks whose event found no listener since the page was read. The browser loads
`/board`, mounts `BoardView`, receives (`Merged` is `handleTaskUpdated`), loses
its socket, and submits the dialog.

### ChannelForms

The composer and `ChannelKnowledgeCard` while their user changes between
channels. `VisitKept` changes the properties of the components, `VisitFresh`
mounts new ones: an answer that belongs to an earlier `mount` finds nobody.
`sends`, `load` and `puts` are the requests under way, each before its effect in
the database, after it, or failed. The history variables name why something may
be lost: `clouded` (typed or sent again while a request was under way), `unsure`
(failed or unanswered), `astray` (why the card in view may not be known); `gone`
and `blind` record the loss.

### Teammates

One colleague: `row` in table `User`, `members` of one channel, one `request` for
each of three writers (the dialog, the buttons of the list, another operator). A
PATCH reads and writes in two queries (`Begin`, `Commit`); `Updated` is the merge
of the route and `Form` what the dialog submits, every field of the row it was
opened with. `list`, `dialog` and `loading` are the state of `TeammateManager`.
The seed is a sequence of upserts that can be killed between any two. `post` is
`MessageService.create`: checks, insert, query of the mentioned colleagues. The
other history variables are what the properties compare with: what each editor
wanted, what was overwritten by someone who did not know it, why the list may
differ.

### Transcript

`messages` is the conversation, each message an estimate of tokens and the ids of
its calls or results. `Trimmed` is `trimContextToTokenBudget`, `Wire` the
translation of `openai-bridge.ts`, `Sent` what a call carries. Each loop of the
code is a function of the number of its steps (`Walk`, `Pushed`, `Blocks`) over an
operator for its body (`WalkStep`, `Translated`, `Block`); the operator named after
the code is its last state. `CallReturns`
takes any answer of the provider (calls of tools that are enabled, disabled or
unknown, no function, clipped arguments, an answer cut short); `ToolUses` and
`StopReason` are what the bridge makes of it. Tool calls run in parallel and
return in any order, those that fetch race a deadline. Texts are costs.

### RateLimit

`buckets` is the map; a token is counted in `Window[b]` parts, so that refills
are whole numbers. A call is synchronous and one step (`Granted`, `Refused`,
`Unlimited` for a misconfigured bucket); `Stored` contains the sweep. The clock
elapses or is set back. `accepted`, `elapsed` and `restarts` count since
`CountAnew`, which may happen at any time: `GrantsBounded` therefore speaks of
every stretch of time. `promise` is when a refused caller was told to come back.

### Startup

`env` are the variables of the service, `phase` is where the container is:
`deploy`, `baseline`, `reset`, `rollback`, `retry` and `push` are the branches of
`railway-start.ts`, `seed` to `draining` the steps after it and of `server.ts`.
The Prisma CLI is external and modelled by what it does to the history (`applied`,
`failed`), to the schema (`objects`) and to `data`: a migration is recorded as
started, run, and recorded as finished, in three steps. `Crash` is possible
between any two; `Restart` is the platform's, with the same environment, a
limited number of times; `Redeploy` changes the variables or the release.
`misled` are the migrations that an operator put out of step with the history by
a wrong list or by a push. `calm` says that the last redeploy has happened and
nothing fails by itself after it: the recoveries are promised under it.

Modules share no variables except through `INSTANCE` in `AgenticLoop`. Where two
modules have the same table they see it from two sides: `approval` of
`AgenticLoop` and `status` of `Approvals` (the AI that waits, the human who
decides); `assign_task` of `AgenticLoop` and `TaskBoard` (the wake's accounts, the
row); the rounds of `AgenticLoop` and of `Transcript` (their order among runs,
their contents).

## Runs

The properties are described at their definitions.

| run | bounds | what it shows |
|---|---|---|
| `WakeChainTotals` | 2 AIs, 2 chains, 2 hops, 1 repeat of a pair, 3 activations, TTL 0 | each of the three budgets is the one that refuses in some behaviour (depth 2 < activations 3, and a repeat of a pair comes before both); an entry expires while a cycle of its chain runs; the peek and the verdict see different maps |
| `Budget` | 3 concurrent cycles, limit 3, call up to 2, fee 1, 2 searches | the limit lies between one call and the sum of all calls, so the gate can hold, be passed by several cycles and trip late, across midnights and restarts |
| `AgenticLoop` | 1 AI, 2 concurrent calls of `runForAI`, 2 rounds, 1 request, failing reads, restarts | two calls are what it takes to overlap in the query; a request made by one cycle meets the gate of the other |
| `AgenticLoop_team` | 2 AIs with a run each, one of them with a report, 1 message, 1 round, hand-offs and searches, restarts | the refinements, with both AIs charging and waking each other; a report overlaps a loop cycle of the same AI |
| `ChannelView` | 2 channels with a message each, 3 page loads, 1 lost connection | leave a channel and come back to it, with a connection lost at any point |
| `Approvals` | 2 approvals, 2 loads, 1 failure (connection, request, failed query or restart) | the first load and one more, hard or soft; a newer approval is promoted over one that is submitting |
| `TaskBoard` | 2 calls at a time, 2 tasks, 3 commits, 1 dialog, 1 shown error, 1 lost connection or answer; symmetry on the calls | two creates contend for the counter, two updates of one task broadcast in the wrong order, a submission is repeated after an error, restarts in between |
| `ChannelForms` | 2 channels, 2 texts, 2 sends, 3 saves, 2 visits, 6 acts in all | leave a channel during a request and return, answer or load in between; a save here meets one elsewhere |
| `Teammates` | 2 fields of settings, 4 requests, loads, seeds or changes of members | edits of different and of the same field overlap, a stale form, a seed beside either, an answer lost |
| `Transcript` | 3 rounds, 1 retry, budget 7, answers of up to 2 calls, results of 1 to 9 | a result pushes out the first message, the calls it answers, or everything |
| `RateLimit` | 3 buckets of capacity 2, 1 and 0 with windows 3 and 2, eviction after 3, sweep from 2 entries, time up to 5, one correction of the clock, one restart | refill across the boundary of a window, an eviction beside a bucket that is not full, a refusal and the retry at the promised time |
| `Startup` | 2 releases with a migration each, 3 restarts of the platform (as `railway.toml` sets), every environment | a first and a later migration, each failed, half applied, applied and not recorded, or pushed; a baseline that names too much or too little |

Liveness is checked in `WakeChainTotals`, `Budget`, `AgenticLoop`, `ChannelView`,
`Startup` and `Transcript`.

### What comments promise and the code does not keep

`PROJECT.json` lists under "findings" where a comment and the code part, with the
lines of both. Six of them can be reproduced with claims that stand in the modules
and that no run checks under these constants; each is violated under the
constants named, the others as in the `.cfg` of the module:

| claim, in | constants | what happens |
|---|---|---|
| `TotalIsBounded`, `WakeChainTotals` | `Chain <- MCOneChain`, `MaxHops` 3, `MaxPairRepeats` 2, `IdleTTL` 1; `TotalsSpec` | an idle entry is evicted in the middle of a chain and the next hand-off starts with full budgets |
| `ZeroLimitDisables`, `Budget` | `Limit` 0; `BudgetSpec` | a limit of 0 disables the gate; `track` trips after the first charge |
| `AtMostOneCyclePerAI`, `AgenticLoop` | `Message <- MCOneMessage`, `MaxRounds` 1, no failing reads, no restarts; `Spec` | a mention and a tick both pass `inFlight.has` before either has reached `inFlight.add` |
| `GrantResumes`, `AgenticLoop` | the same, `AutoTick` FALSE; `FairSpec` | without the timer a grant announced while the AI's own cycle is in flight is dropped for good |
| `RoomsReleased`, `ChannelView` | as they are | an unsubscribe is handled during the query of the subscribe it was to undo |
| `PromotesNext`, `Approvals` | `MaxFailures` 0; `EagerSpec`, a reviewer who answers every dialog | a decision made elsewhere is announced to nobody; the row stays, every answer gets 404, and the watcher opens its dialog again |

Others appear in the properties themselves, as the exceptions they name:
`StaleOnlyIf` (a board that was overtaken or did not hear), `EditsKept` (a form or
a read out of date), `TextKept` and `StoredOnce` (typing and sending during a
request), `CardShown`, `ResultsFollowCalls` (results whose calls were cut off).

### Bounds

- `MaxRuns` (2, resp. 1) are calls of `runForAI` of one AI at the same time. The
  code has no such bound; two are enough for every race of the in-flight test,
  and the proofs hold for any number.
- `MaxRounds` is `MAX_ROUNDS`, 5 in the code; 2 give a first and a last round.
- A response calls each of the modelled tools at most once per round.
- `IdleTTL` counts ticks of the model's clock: 0 makes an entry stale after one
  tick, 1 leaves it time to be used again.
- `MaxEvictions` only limits the history variables of `WakeChainTotals`.
- Amounts of money are small integers; `Limit`, `MaxCost` and `SearchFee` are
  chosen per run so that the gate both holds and lets through.
- `MaxPages`, `MaxDrops`, `MaxLoads`, `MaxFailures`, `MaxApprovals`, `MaxTasks`,
  `MaxCommits`, `MaxDialogs`, `MaxTexts`, `MaxSends`, `MaxSaves`, `MaxVisits`,
  `MaxActs` and `MaxWrites` count user actions and failures. The proofs hold for
  any value of those in their modules.
- `MaxNow`, `MaxSetBack`, `MaxSetBacks`, `MaxRestarts` bound the clock and the
  restarts of `RateLimit`. `Second` is 2 of its milliseconds, so that rounding up
  to whole seconds happens.
- `Releases` bounds the migrations; `MaxRetries` of `Startup` is the platform's.
- Deadlock is not checked where the system may stop: users stop acting and counts
  end (`ChannelView`, `Approvals`, `TaskBoard`, `ChannelForms`, `Teammates`,
  `RateLimit`), a cycle ends (`Transcript`), a container has used up its restarts
  (`Startup`).

### Fairness

- A run of an AI goes on: queries settle, model calls time out after counted
  retries, tools are wrapped in a timeout. Weak fairness on each run; strong
  fairness on the answer of the pending query, which competes with its failure:
  the database does not fail every time.
- The interval timer fires (weak), and the tick's list of AIs is read again and
  again (strong, for the same reason). A committed decision is announced or its
  answer is lost.
- `<>[][~Restart]_vars`: the process is not restarted for ever. Liveness across
  one restart is checked, liveness under endless restarts is not promised.
- `Budget`: the clock reaches midnight and the timer keeps trying the gate.
- `WakeChain`: every cycle ends. No wake, no tick and no human action is owed.
- `ChannelView`: socket.io-client reconnects without end, a live connection
  delivers, queries settle. `Approvals` has the same for `EagerSpec`; its run
  checks safety only.
- `Startup`: the script and the CLI go on (weak), and the platform restarts a
  container that ended, up to its limit. The two liveness properties start at a
  deployment after which nothing is killed any more (`calm`): they say that the
  recovery works, not that it survives any number of crashes.
- `Transcript`: model calls and queries end, tools that do not fetch return, and
  the deadline of a fetch fires. Nothing is assumed of the fetches themselves.
- `TaskBoard`, `Teammates`, `RateLimit`, `ChannelForms` have safety properties
  only. Users owe nothing in any module.

## Proofs

Every safety property that a run checks, invariants and action properties, is
stated by a theorem for every value of the constants. Eight modules hold them.

`LimitsProofs` has the theorems about what an AI can spend: `WakeChain` with
`WakeChainTotals`, `Budget` and `Transcript`. The operators of `Budget` and of
`Transcript` carry their module's name (`BudgetSpec`, `TranscriptSpec`) so that one
module can extend all of them.

Of wake chains (for every team, every set of chains, every budget):
`TypeCorrect`; `DepthCorrect`, from the verdict alone; `BudgetsCorrect`, by the
invariant that every tracked entry is within its budgets (`WithinBudget`), which
a sweep resets and a recording extends by one after the verdict has looked;
`PeekCorrect`, because a sweep only ever makes an entry more permissive.

Of `WakeChainTotals`: `TotalsTypeCorrect` and `SpendingCorrect`: the life of a
chain costs at most one activation budget per incarnation of its entry. The
invariant is that what was authorized is at most a full budget for each eviction
plus what the present entry has spent (`SpentSoFar`, for as long as evictions are
counted), and that a chain never drawn has no entry, no spending and no runs
(`FreshChains`). `TotalsRefines` carries every theorem about `WakeChain` over.

Of `Budget`: `BudgetTypeCorrect` and `OvershootCorrect`. The bound is not
inductive: a cycle past the gate may charge a call at any time. The invariant
`CreditCovered` adds what is still owed, one call for each cycle past the gate
and the searches not yet charged: once the tally has passed the limit, tally and
debt together stay below the ceiling. The call that passes the limit ends its own
cycle, the gate admits no new one, and so the debt only shrinks from there.

Of `Transcript`: `LongestEndCorrect`, `ResultsCorrect` and
`TranscriptTypeCorrect`. What the loops compute is proved for every conversation,
by an induction about a set instead of a formula: if 0 is in a set and each number
brings the next, all are in it (`ReachesBound`, from the well-foundedness of `<`).
`LoopHasStates` turns a recursive function into its states, one for each step, and
`SumsAre`, `WalkIs`, `PushedIs` and `ToolUsesType` are that lemma for each loop of the
model. The walk keeps `WalkHolds`: until a message did not fit, all that were looked at
are kept and `used` is their total; from then on one message more is too much.
`LastTotals` (totals of longer ends are not smaller) gives `TrimmedIs`, which is
`SendsLongestEnd`. For the calls, every answer in the conversation stands directly
before the results of its calls (`Paired`), any end of such a conversation is
one up to the results at its head (`EndIsPaired`), and the translation keeps the
pairs: `OutHolds` says after each message which calls on the wire are answered and
which still wait for the results that come next. `TranscriptInv` is `Paired`, the types
and that the first message is the digest.

`AgenticLoopProofs`: `SchedulerTypeCorrect`, `InFlightCorrect`, `ThinkingCorrect`
and `GrantedCorrect`, from one invariant, `LoopInv`: types; an AI in `inFlight`
has a loop cycle; an AI in `thinking` has a cycle past the lookup
(`ThinkingIsShown`, stronger than the property, because a cycle that ends at the
lookup does not clear the mark); a report never waits at the gate
(`ReportsSkipGate`); a chain named after an approval is only used once the
approval is committed as granted. The proof has a lemma for each shape of step
(a run moves, a run ends, runs are called).

In the same module the scheduler implements its two abstract specifications:
`WakesRefine` and `SpendRefines` map every step to one of `WakeChain` (resp.
`Budget`) or to a stutter. They need two more invariants. `EntriesAreClean`: a
run carries only what its stage needs, so that the cycles of `WakeChain` are
`WokenRuns` and a slot that is reused owes no search of its predecessor.
`AnnouncedOnce`: a grant whose wake was emitted has no handler left that could
emit it again, so that a chain is opened once. A tool call that hands off is
`HandOffWake` or `HandOffSuppressed` by the verdict of the peek; a mention is a
`HumanWake` of those it names, of which any part may be skipped; a model call that
answers is `Track` in each of its three outcomes. `GateHoldsBack` proves
`OldRequestBlocks` of each step: what a run saw when it was called is settled once
the run is past its query (`SeenIsSettled`), and no step makes a decided request
pending again (`RowsAge`).

Through the two refinements the bounds hold of the scheduler itself: no run is
deeper than the hop budget (`RunsAreShallow`), the accounts stay within theirs
(`AccountsAreBounded`), a tool that was told its teammate wakes was told the truth
(`RepliesAreTrue`), runs and reports together pass the daily limit by one call and
one search each at most (`SpendIsBounded`), and all variables keep their types
(`LoopTypesHold`). The arguments are those of `LimitsProofs` about the instances `W`
and `B`, repeated: tlapm does not see through a theorem of an instanced module. The
limits are natural numbers and the wake budgets positive (`LimitsAssumption`):
`lib/env.ts` demands a budget that is not negative and wake budgets that are
positive integers.

`ApprovalsProofs`: `OwnDecisionCorrect`, `WokenOnceCorrect` and
`DecisionTypeCorrect`, from one invariant in two parts. About the rows: they are
created in the order of their numbers; at most one handler of an approval is past
its update, the row holds its decision, and its wake is still to be emitted
(`CommittedHolds`). About the dialogs: a dialog waits for at most one handler or
answer, and that handler carries its decision (`HeardHolds`). `OwnDecision` needs
both: the answer comes from a handler that was heard and had committed. The
condition on the status in the update is what keeps either part.

`PendingIsKept` (`KeepsPending`) and `QueueTypesHold` rest on a second invariant,
`CenterInv`: rows are in the order of their numbers, which makes what the layout
prefetches exactly the pending ones; every list the browser has or is about to get
names an approval once; and a mounted browser has, expects or was not told of each
pending approval (`Accounted`). A grant takes a row off the list, and by
`OwnDecision` that row is decided. The filters of the code are `Picked`, written
with the rank of an index instead of the recursion of `SelectSeq`: that ranks count
the members of a set (`RanksCount`) is what makes a filter keep them, each once
(`PickedFacts`).

`ChannelViewProofs`: `ListIsClean` from `ListInv`: the page being read, the list in
view and the stored messages are lists of one channel without repetition, and an
event on its way is of a stored message. `ViewIsSubscribed` from `RoomComes`:
the last event about the channel in view, if one is on its way, asks for its room;
if none is, the server has taken that request and nothing has undone it since. The
property names the last event by a CHOOSE, the invariant by an index, and
`LastEventIs` joins them.

`TaskBoardProofs`: one invariant, `BoardInv`, in three layers. The table
(`TableInv`): versions carry their number, the one open transaction holds the next
task number, a call past its commit has the row it committed, a hand-off was given
before it wakes; `NumbersAreDense` and `WakesFollowHandOffs` are read off it. The
dialog (`AttemptsHold`): tasks made and pending are at most the errors shown, and
one more unless the dialog waits for its user; `AttemptsAreCounted` follows. The
screen (`ScreenHolds`, `EventsHold`, `FreshHolds`): cards and events are committed
versions, the last event of a task is its last broadcast, and a task whose last
version was broadcast and not missed is on the screen or on its way;
`CardsAreCommits` and `StaleBoardsAreExplained` follow.

`ServerProofs`, of `Startup`: `SchemaInv` joins `HistoryIsTrue` and
`ServesRelease` with what the steps inside the CLI know: a migration under way is recorded as started and,
once its script has run, is in the schema (`ApplyingHolds`); a branch of the
script is only entered under the variables that choose it (`ChoiceHolds`).
`DropsAreAskedFor` follows from it for each step: only the reset and the push
drop, the one under a failed migration, the other under another schema.

Of `RateLimit`: one invariant, `RateInv`, of which two parts are of interest.
`AccountHolds` is a balance: what a bucket has granted since the count began, plus
what it holds now, is at most a full bucket for the start and for each restart,
plus the refill of the time that passed. A grant moves one token from one side to
the other; an eviction changes nothing, because the evicted bucket is full by then
(`EvictionsAreFull`, from the assumption that no window is longer than the idle
time); a clock set back only withholds refill. `PromiseHolds` says that a stored
bucket will have a token at the promised time whatever happens to it. The numbers
are products of variables: the lemmas at the head give the provers what they need
of them.

`TeammatesProofs`: `TeamInv` relates, for each actor, what it has seen to the row.
`RequestHolds`: a request that has read the colleague carries, beside what its
author edited, what the author saw; `RowHolds`: switched off and intended settings;
`MessageHolds`, `SeedHolds`: what is true at each stage of the call and of the
seed; `ListHolds`: the list shows the row, or the answer that will make it so is
under way, or there is a reason. The properties are parts of it or follow in one
step. Two theorems state what no run checks: a seed that completes undisturbed has
restored what it writes, and a stored message had a member as its sender.

`ChannelFormsProofs`: `FormsInv` has a part for the composer (a waiting request
carries the text that is still in the box, and a text that nothing came between has
one request, before it is stored or after) and one for the card (what is shown,
what a draft is based on and what a save replaces is the stored card, as long as no
reason against it is noted).

Assumptions are the ASSUMEs of the modules: the AIs are finitely many; values
that stand for "none" are not members of the sets they stand beside; the three
wake budgets are positive as `lib/env.ts` demands; amounts, capacities and bounds
are natural numbers; no window of a rate limit is longer than the time after which
a bucket may be evicted, as all configurations in the code have it.

Checked by TLC only: the liveness properties (`ChainDiesOut`, `GateReleases`,
`BecomesLive`, `ResetRecovers`, `RecoversWithData`, `CycleEnds`, `GrantResumes`).
Liveness under fairness and ENABLED are out of this prover's reach. So are the
library's induction theorems, which take an operator as a parameter; where a loop
had to be reasoned about, the induction above is about a set and needs none.

The SMT encoding of tlapm 1.4.5 takes `Len(S) = N` from `DOMAIN S = 1..N` for
everything, sequence or not. No proof rests on it: all of them also pass with an
encoding in which `Len` says nothing of what is not a sequence.

## Not modelled

- Contents: prompts, the digest of the context, message text, task fields, layout,
  the pages and widgets. No decision of the code modelled here depends on them
  except through sizes, which are costs.
- Rounding. Dollars and tokens are floating-point numbers in the code, and whole
  numbers here. `RateLimit` says where rounding can tip a comparison; that the
  refill after `Retry-After` can fall short by one rounding is a finding.
- Notifications and the toast of a task that is done: broadcasts that nothing
  reads again. Paging of old messages. The router cache of Next.js between pages.
- Sessions, log-in and the validation of the configuration: third-party session
  handling and tests of strings; access control is left out.
- The dashboard shows a summary of what the other modules keep and changes none of
  it.
- Backup: a sequential job over `pg_dump`, files and a bucket; no other part reads
  what it keeps.
- `isStale` and the reminder it drives; the restart of the loop under hot reload
  in development; the functions that only tests call.
- Partly: of the daily report a report as a cycle is modelled, its cron schedule
  and the sequence of a batch are not; of the channels their creation is not; of
  the tools those that only insert or read are steps without effect on these
  variables.

Three hazards in `PROJECT.json` have no property: in two the code does not keep
what its comments say, and the finding is what there is to say; in the third (a
report that ends marks an AI idle whose loop cycle still runs) only the converse
holds, which is the theorem `ThinkingCorrect`.

## Plan

Done: the twelve modules above, their runs and eight modules of proofs. What
would add most to them, in this order:

1. The batch of daily reports, one AI after the other, against a second batch that
   starts before it has ended, composed with `Budget`.
2. The backup against a job that dies between dump, upload and the removal of the
   local file.
3. The dashboard: a summary read by parallel queries, and refetches, one a second
   at most, whose answers may cross and which no event asks for while the page is
   disconnected.

Bounds of later runs follow the same rule: two actors, two objects and one
failure, or the least at which each guard decides some behaviour.
