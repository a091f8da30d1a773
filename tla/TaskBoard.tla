------------------------------- MODULE TaskBoard -------------------------------
(***************************************************************************)
(* The Kanban board: the task service, the tools and the route that write  *)
(* through it, and one browser with the board page and its "New task"      *)
(* dialog.                                                                 *)
(*                                                                         *)
(* A create call is a transaction that holds the lock on the workspace row *)
(* from the increment of the counter to its end.  Every write broadcasts   *)
(* the row it committed once its await resumes, so the broadcasts of       *)
(* concurrent writes come in any order.  The board replaces a card by the  *)
(* row that arrives last; nothing is read again before the next page load. *)
(***************************************************************************)
EXTENDS Naturals, SequencesExt

CONSTANTS
    Human, AI,      \* the users with a row
    Active,         \* the AIs whose cycles call tools
    Named,          \* the assignees models and users name, some without a row
    NoUser,         \* no assignee
    Viewer,         \* the signed-in user of the browser
    SharesChannel,  \* the teammates each AI shares a channel with
    HandoffEnabled, \* AI_HANDOFF_ENABLED
    Column,         \* TASK_STATUSES
    Backlog,        \* the first of them
    Call,           \* the calls of the service that may run at a time
    MaxTasks,       \* bound of the model: tasks
    MaxCommits,     \* bound of the model: tasks and updates of tasks
    MaxDialogs,     \* bound of the model: dialogs opened
    MaxFailures,    \* bound of the model: errors shown by a dialog
    MaxDrops        \* bound of the model: lost connections and answers

User == Human \cup AI

ASSUME UserAssumption ==
    /\ Human \cap AI = {} /\ Viewer \in Human
    /\ NoUser \notin User /\ Active \subseteq AI
ASSUME ChannelAssumption == SharesChannel \in [AI -> SUBSET AI]
ASSUME ColumnAssumption == Backlog \in Column
ASSUME BoundAssumption ==
    {MaxTasks, MaxCommits, MaxDialogs, MaxFailures, MaxDrops} \subseteq Nat

VARIABLES
    taskCounter,  \* Workspace.taskCounter, as committed
    table,        \* table Task in the order of its commits: the versions of each row
    calls,        \* the calls in progress
    lastSent,     \* version of the last broadcast of each task
    woken,        \* the hand-offs for which assign_task has emitted a wakeup
    writes,       \* updates of existing tasks so far
    dialog,       \* the NewTaskDialog of the browser
    dialogs,      \* dialogs opened so far
    made, failed, \* tasks made and errors shown for each dialog
    page,         \* the load of /board in progress
    mounted,      \* BoardView is mounted
    board,        \* its list of cards
    connected,    \* socket.connected
    down,         \* task:updated events on their way to the browser
    missed,       \* tasks with an event since the page was read that was not heard
    drops         \* lost connections and answers so far

database == <<taskCounter, table, writes>>
service == <<calls, lastSent, woken>>
form == <<dialog, dialogs, made, failed>>
screen == <<page, mounted, board>>
wire == <<connected, down, missed>>
vars == <<database, service, form, screen, wire, drops>>

Row == [taskId : Nat, creator : User, assignee : User \cup {NoUser},
        status : Column, isAITask : BOOLEAN, updatedAt : Nat]
Card == [task : Nat, row : Row]

\* A call: nothing, a create in its transaction, a write that is
\* committed and not yet broadcast, a hand-off that may wake, an answer to a
\* dialog (the tools' results are not of interest here).
NoDialog == 0
Idle == [step |-> "idle"]
Open(d, u, a, n) ==
    [step |-> "open", dialog |-> d, creator |-> u, assignee |-> a, number |-> n]
Committed(d, i, row, by) ==
    [step |-> "committed", dialog |-> d, task |-> i, row |-> row, by |-> by]
HandedOff(i, u, a) == [step |-> "handed off", task |-> i, by |-> u, target |-> a]
Answering(d, ok) ==
    IF d = NoDialog THEN Idle ELSE [step |-> "answering", dialog |-> d, ok |-> ok]

NoDialogOpen == [open |-> FALSE, submitting |-> NoDialog]
NoPage == [read |-> FALSE, rows |-> <<>>]

TypeOK ==
    /\ taskCounter \in Nat /\ table \in Seq(Seq(Row)) /\ writes \in 0..MaxCommits
    /\ \A c \in Call : calls[c].step \in
          {"idle", "open", "committed", "handed off", "answering"}
    /\ lastSent \in Seq(Nat) /\ \A w \in woken : w.by \in AI /\ w.target \in AI
    /\ dialog \in [open : BOOLEAN, submitting : 0..MaxDialogs]
    /\ made \in [1..MaxDialogs -> Nat] /\ failed \in [1..MaxDialogs -> Nat]
    /\ dialogs \in 0..MaxDialogs /\ drops \in 0..MaxDrops
    /\ page \in [read : BOOLEAN, rows : Seq(Card)]
    /\ mounted \in BOOLEAN /\ board \in Seq(Card)
    /\ connected \in BOOLEAN /\ down \in Seq(Card) /\ missed \subseteq Nat

Init ==
    /\ taskCounter = 0 /\ table = <<>> /\ writes = 0
    /\ calls = [c \in Call |-> Idle] /\ lastSent = <<>> /\ woken = {}
    /\ dialog = NoDialogOpen /\ dialogs = 0
    /\ made = [d \in 1..MaxDialogs |-> 0] /\ failed = [d \in 1..MaxDialogs |-> 0]
    /\ page = NoPage /\ mounted = FALSE /\ board = <<>>
    /\ connected = FALSE /\ down = <<>> /\ missed = {} /\ drops = 0

Becomes(c, state) == calls' = [calls EXCEPT ![c] = state]
At(c, step) == calls[c].step = step

-----------------------------------------------------------------------------
(***************************************************************************)
(* create                                                                  *)
(***************************************************************************)

\* Mutant: the counter is read, and written back later, without its lock.
BeginUnlocked(c, d, u, a) ==
    /\ At(c, "idle") /\ Len(table) < MaxTasks /\ writes + Len(table) < MaxCommits
    /\ Becomes(c, Open(d, u, a, taskCounter + 1))

\* The transaction begins with the increment of the counter, which waits for
\* the lock on the workspace row and takes it.
Begin(c, d, u, a) ==
    /\ At(c, "idle") /\ Len(table) < MaxTasks /\ writes + Len(table) < MaxCommits
    /\ \A other \in Call : ~At(other, "open")
    /\ Becomes(c, Open(d, u, a, taskCounter + 1))

\* The create_task tool of an AI: the assignee is whatever the model wrote.
CreateByTool(c, u, a) ==
    /\ Begin(c, NoDialog, u, a)
    /\ UNCHANGED <<database, lastSent, woken, form, screen, wire, drops>>

\* Mutant: a submission under way does not stop a double click.
SubmitTwice(c, a) ==
    /\ dialog.open /\ failed[dialogs] < MaxFailures
    /\ dialog' = [dialog EXCEPT !.submitting = dialogs]
    /\ Begin(c, dialogs, Viewer, a)
    /\ UNCHANGED <<database, lastSent, woken, dialogs, made, failed, screen, wire, drops>>

\* POST /api/tasks from the dialog, unless a submission is under way.
Submit(c, a) ==
    /\ dialog.open /\ dialog.submitting # dialogs /\ failed[dialogs] < MaxFailures
    /\ dialog' = [dialog EXCEPT !.submitting = dialogs]
    /\ Begin(c, dialogs, Viewer, a)
    /\ UNCHANGED <<database, lastSent, woken, dialogs, made, failed, screen, wire, drops>>

\* An assignee without a row is dropped.
KnownAssignee(a) == IF a \in User THEN a ELSE NoUser

NewRow(tx) ==
    [taskId |-> tx.number, creator |-> tx.creator, assignee |-> KnownAssignee(tx.assignee),
     status |-> Backlog,
     isAITask |-> tx.creator \in AI \/ KnownAssignee(tx.assignee) \in AI,
     updatedAt |-> 1]

Made(d) == made' = IF d = NoDialog THEN made ELSE [made EXCEPT ![d] = @ + 1]

Insert(tx) ==
    /\ taskCounter' = tx.number
    /\ table' = Append(table, <<NewRow(tx)>>)
    /\ lastSent' = Append(lastSent, 0)
    /\ Made(tx.dialog)

\* The transaction commits and create resumes.
Commit(c) ==
    /\ At(c, "open")
    /\ Insert(calls[c])
    /\ Becomes(c, Committed(calls[c].dialog, Len(table) + 1, NewRow(calls[c]), NoUser))
    /\ UNCHANGED <<woken, writes, dialog, dialogs, failed, screen, wire, drops>>

\* The transaction commits and its answer is lost: the call throws.
CommitUnheard(c) ==
    /\ At(c, "open") /\ drops < MaxDrops
    /\ drops' = drops + 1
    /\ Insert(calls[c])
    /\ Becomes(c, Answering(calls[c].dialog, FALSE))
    /\ UNCHANGED <<woken, writes, dialog, dialogs, failed, screen, wire>>

\* The creator has no row, or a statement fails or waits too long: the counter
\* goes back with the rest.
Rollback(c) ==
    /\ At(c, "open")
    /\ Becomes(c, Answering(calls[c].dialog, FALSE))
    /\ UNCHANGED <<database, lastSent, woken, form, screen, wire, drops>>

-----------------------------------------------------------------------------
(***************************************************************************)
(* updateStatus, assign and their broadcasts                               *)
(***************************************************************************)

Task == 1..Len(table)
Current(i) == Last(table[i])

\* One UPDATE of some columns of an existing row.
Write(c, i, row, by) ==
    /\ writes + Len(table) < MaxCommits /\ writes' = writes + 1
    /\ At(c, "idle")
    /\ table' = [table EXCEPT ![i] = Append(@, row)]
    /\ Becomes(c, Committed(NoDialog, i, row, by))
    /\ UNCHANGED <<taskCounter, lastSent, woken, form, screen, wire, drops>>

\* update_task_status.
UpdateStatus(c, i, status) ==
    Write(c, i, [Current(i) EXCEPT !.status = status, !.updatedAt = @ + 1], NoUser)

\* Mutant: a hand-off to oneself is not refused.
ResolvedWithSelf(caller, target) == target \in SharesChannel[caller] \cup {caller}

\* resolveHandoffTarget and the refusal of a hand-off to oneself; whether the
\* teammate is active is not asked.
Resolved(caller, target) == target \in SharesChannel[caller] \ {caller}

\* assign_task: the assignment, the teammate's wake comes after its broadcast.
Assign(c, i, caller, target) ==
    /\ HandoffEnabled /\ Resolved(caller, target)
    /\ Write(c, i, [Current(i) EXCEPT !.assignee = target, !.isAITask = TRUE,
                                      !.updatedAt = @ + 1], caller)

Heard(i) == IF connected \/ ~(mounted \/ page.read) THEN missed ELSE missed \cup {i}

\* Mutant: a row is broadcast to the board before its commit is known.
BroadcastEarly(c) ==
    /\ \/ At(c, "committed")
       \/ At(c, "open")
    /\ LET row == IF At(c, "open") THEN NewRow(calls[c]) ELSE calls[c].row
           i == IF At(c, "open") THEN Len(table) + 1 ELSE calls[c].task
       IN down' = IF connected THEN Append(down, [task |-> i, row |-> row]) ELSE down
    /\ Becomes(c, IF At(c, "committed") THEN Answering(calls[c].dialog, TRUE)
                                        ELSE Answering(calls[c].dialog, FALSE))
    /\ UNCHANGED <<database, lastSent, woken, form, screen, connected, missed, drops>>

\* broadcastTaskUpdated, when the await of the write resumes.
Broadcast(c) ==
    /\ At(c, "committed")
    /\ LET i == calls[c].task
           row == calls[c].row
       IN /\ down' = IF connected THEN Append(down, [task |-> i, row |-> row]) ELSE down
          /\ missed' = Heard(i)
          /\ lastSent' = [lastSent EXCEPT ![i] = row.updatedAt]
          /\ Becomes(c, IF calls[c].by # NoUser THEN HandedOff(i, calls[c].by, row.assignee)
                                              ELSE Answering(calls[c].dialog, TRUE))
    /\ UNCHANGED <<database, woken, form, screen, connected, drops>>

\* The rest of assign_task: the wakeup is emitted, or the cycle has no chain,
\* or the wake is refused (module WakeChain decides).
Wake(c) ==
    /\ At(c, "handed off")
    /\ woken' \in {woken, woken \cup {calls[c]}}
    /\ Becomes(c, Idle)
    /\ UNCHANGED <<database, lastSent, form, screen, wire, drops>>

-----------------------------------------------------------------------------
(***************************************************************************)
(* The dialog                                                              *)
(***************************************************************************)

OpenDialog ==
    /\ mounted /\ ~dialog.open /\ dialogs < MaxDialogs
    /\ dialogs' = dialogs + 1
    /\ dialog' = [open |-> TRUE, submitting |-> NoDialog]
    /\ UNCHANGED <<database, service, made, failed, screen, wire, drops>>

\* Escape, the backdrop or a button, also while a submission is under way.
CloseDialog ==
    /\ dialog.open
    /\ dialog' = NoDialogOpen
    /\ UNCHANGED <<database, service, dialogs, made, failed, screen, wire, drops>>

\* The form of dialog d stays open with an error, if it is still there.
ShowError(d) ==
    IF dialog.open /\ dialog.submitting = d /\ d # NoDialog
    THEN /\ dialog' = [dialog EXCEPT !.submitting = NoDialog]
         /\ failed' = [failed EXCEPT ![d] = @ + 1]
    ELSE UNCHANGED <<dialog, failed>>

\* The answer of the route arrives.  A success calls onClose, which closes the
\* dialog that is open now, of whichever submission.
Answer(c) ==
    /\ At(c, "answering")
    /\ IF calls[c].ok
       THEN dialog' = NoDialogOpen /\ UNCHANGED failed
       ELSE ShowError(calls[c].dialog)
    /\ Becomes(c, Idle)
    /\ UNCHANGED <<database, lastSent, woken, dialogs, made, screen, wire, drops>>

\* The request fails in the network: the dialog shows an error although the
\* server goes on, and nobody waits for the answer.
AnswerLost(c) ==
    /\ drops < MaxDrops /\ drops' = drops + 1
    /\ At(c, "answering")
    /\ ShowError(calls[c].dialog)
    /\ Becomes(c, Idle)
    /\ UNCHANGED <<database, lastSent, woken, dialogs, made, screen, wire>>

-----------------------------------------------------------------------------
(***************************************************************************)
(* The board page and its socket                                           *)
(***************************************************************************)

\* A link to /board is followed: BoardPage reads the rows in the order of their
\* creation.
PageReads ==
    /\ ~mounted /\ ~page.read
    /\ page' = [read |-> TRUE, rows |-> [i \in Task |-> [task |-> i, row |-> Current(i)]]]
    /\ missed' = {}
    /\ UNCHANGED <<database, service, form, mounted, board, connected, down, drops>>

\* BoardView mounts with the rows and begins to listen.
PageArrives ==
    /\ page.read
    /\ mounted' = TRUE /\ board' = page.rows
    /\ page' = NoPage
    /\ UNCHANGED <<database, service, form, wire, drops>>

\* Another page: the board and its dialog are gone.
Leave ==
    /\ mounted
    /\ mounted' = FALSE /\ board' = <<>> /\ missed' = {}
    /\ dialog' = NoDialogOpen
    /\ UNCHANGED <<database, service, dialogs, made, failed, page, connected, down, drops>>

\* The server puts every socket of a session into the workspace room.
Connect ==
    /\ ~connected
    /\ connected' = TRUE
    /\ UNCHANGED <<database, service, form, screen, down, missed, drops>>

ConnectionLost ==
    /\ drops < MaxDrops /\ drops' = drops + 1
    /\ connected' = FALSE /\ down' = <<>>
    /\ missed' = IF mounted \/ page.read THEN missed \cup {e.task : e \in Range(down)}
                                         ELSE missed
    /\ UNCHANGED <<table, taskCounter, lastSent, woken, writes, dialogs, made, screen>>

Disconnect ==
    /\ connected /\ ConnectionLost
    /\ UNCHANGED <<calls, dialog, failed>>

\* The server process restarts: open transactions roll back, committed rows
\* stay unannounced, requests fail.
Restart ==
    /\ ConnectionLost
    /\ calls' = [c \in Call |-> Idle]
    /\ ShowError(dialog.submitting)

\* Mutant: a card that is on the board is not replaced.
MergedNew(cards, card) ==
    IF \E i \in 1..Len(cards) : cards[i].task = card.task THEN cards ELSE Append(cards, card)

\* handleTaskUpdated: the card is replaced, or appended when it is new.
Merged(cards, card) ==
    IF \E i \in 1..Len(cards) : cards[i].task = card.task
    THEN [i \in 1..Len(cards) |-> IF cards[i].task = card.task THEN card ELSE cards[i]]
    ELSE Append(cards, card)

Receive ==
    /\ down # <<>>
    /\ down' = Tail(down)
    /\ IF mounted
       THEN board' = Merged(board, Head(down)) /\ UNCHANGED missed
       ELSE /\ missed' = IF page.read THEN missed \cup {Head(down).task} ELSE missed
            /\ UNCHANGED board
    /\ UNCHANGED <<database, service, form, page, mounted, connected, drops>>

Next ==
    \/ \E c \in Call :
          \/ \E u \in Active, a \in Named : CreateByTool(c, u, a)
          \/ \E a \in Named : Submit(c, a)
          \/ Commit(c) \/ CommitUnheard(c) \/ Rollback(c)
          \/ \E i \in Task, s \in Column : UpdateStatus(c, i, s)
          \/ \E i \in Task, u \in Active, a \in AI : Assign(c, i, u, a)
          \/ Broadcast(c) \/ Wake(c) \/ Answer(c) \/ AnswerLost(c)
    \/ OpenDialog \/ CloseDialog
    \/ PageReads \/ PageArrives \/ Leave
    \/ Connect \/ Disconnect \/ Restart \/ Receive

Spec == Init /\ [][Next]_vars

-----------------------------------------------------------------------------
(***************************************************************************)
(* Properties                                                              *)
(***************************************************************************)

\* PROJ ids are unique and dense in the order of the commits: concurrent
\* creates, rollbacks, restarts and commits whose answer is lost neither
\* repeat a number nor leave a gap.
DenseIds ==
    /\ taskCounter = Len(table)
    /\ \A i \in Task : \A v \in 1..Len(table[i]) : table[i][v].taskId = i

\* The board shows each task at most once, and only as some commit left it:
\* no row that was rolled back, no mixture of two versions.
BoardShowsCommits ==
    /\ \A k \in 1..Len(board) :
          board[k].task \in Task /\ board[k].row \in Range(table[board[k].task])
    /\ \A j, k \in 1..Len(board) : j # k => board[j].task # board[k].task

\* The two ways in which a board at rest can be out of date are the ones the
\* code leaves open: an event of the task was not heard, or the last broadcast
\* of the task was not its last version, because it was overtaken or lost.
StaleOnlyIf ==
    mounted /\ down = <<>> =>
        \A i \in Task :
            \/ [task |-> i, row |-> Current(i)] \in Range(board)
            \/ i \in missed
            \/ lastSent[i] # Len(table[i])

\* A dialog makes at most one task for each time its user was told that the
\* last attempt failed, and one: no double submission, whatever answers are
\* lost, closed over or late.
OneTaskPerAttempt == \A d \in 1..MaxDialogs : made[d] <= 1 + failed[d]

\* A teammate is woken for a task only after a committed version of the row
\* gave the task to it, by a teammate it shares a channel with, not by itself.
WokenOwnsTask ==
    \A w \in woken :
        /\ w.task \in Task
        /\ \E v \in 2..Len(table[w.task]) : table[w.task][v].assignee = w.target
        /\ w.by # w.target /\ w.target \in SharesChannel[w.by]
=============================================================================
