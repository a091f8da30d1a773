------------------------------ MODULE Approvals -------------------------------
(***************************************************************************)
(* The approval queue as humans see it: table Approval and its PATCH       *)
(* route, the event approval:created, and in one browser ApprovalCenter    *)
(* (the list of pending approvals) with one ApprovalDialog per row, of     *)
(* which the workspace store opens at most one.  Other members decide from *)
(* browsers of their own.                                                  *)
(*                                                                         *)
(* A decision is known to the route and to the browser that made it; no    *)
(* event tells the other browsers.  Requests and their answers can be      *)
(* lost, the server goes on with a request nobody waits for any more.      *)
(* What the requesting AI does with a decision is in module AgenticLoop.   *)
(***************************************************************************)
EXTENDS Naturals, FiniteSets, SequencesExt

CONSTANTS
    MaxApprovals, \* bound of the model: approvals, numbered as they are created
    Me,           \* the member at the browser
    Other,        \* the member at another one
    NoApproval,   \* approvalDialog.approvalId = null
    Nobody,       \* decidedById = null
    MaxLoads,     \* bound of the model: page loads and refreshes
    MaxFailures   \* bound of the model: lost connections, requests, restarts

Approval == 1..MaxApprovals

ASSUME DialogAssumption == NoApproval \notin Approval /\ Cardinality({Me, Other, Nobody}) = 3
ASSUME BoundAssumption == {MaxApprovals, MaxLoads, MaxFailures} \subseteq Nat

VARIABLES
    created,      \* rows of table Approval in the order of createdAt
    status,       \* their status, "none" before they are created
    decidedBy,    \* their decidedById
    announcing,   \* create calls between the insert and the broadcast
    woken,        \* wakeup events emitted for an approval (2 stands for more)
    load,         \* the load of the workspace layout in progress
    mounted,      \* ApprovalCenter is mounted
    pending,      \* its list
    dialog,       \* approvalDialog.approvalId of the store
    submitting,   \* the decision each dialog waits for
    answer,       \* responses of the route on their way to a dialog
    inRoom,       \* the socket of the browser is in the workspace room
    down,         \* approval:created events on their way
    unseen,       \* pending approvals the load and the broadcasts left out
    handlers,     \* PATCH handlers in progress for the browser
    loads,        \* loads so far
    failures      \* failures so far

rows == <<created, status, decidedBy>>
center == <<mounted, pending, dialog>>
requests == <<submitting, answer>>
socket == <<inRoom, down>>
counts == <<loads, failures>>
vars == <<rows, announcing, woken, load, center, requests, socket, unseen,
          handlers, counts>>

Decision == {"approve", "reject"}
Handler == [approval : Approval, decision : Decision, committed : BOOLEAN, heard : BOOLEAN]
NoLoad == [active |-> FALSE, read |-> FALSE, rows |-> <<>>]
Load == [active : BOOLEAN, read : BOOLEAN, rows : Seq(Approval)]

TypeOK ==
    /\ created \in Seq(Approval) /\ announcing \subseteq Range(created)
    /\ status \in [Approval -> {"none", "PENDING", "APPROVED", "REJECTED"}]
    /\ decidedBy \in [Approval -> {Me, Other, Nobody}]
    /\ woken \in [Approval -> 0..2]
    /\ load \in Load
    /\ mounted \in BOOLEAN
    /\ pending \in Seq(Approval)
    /\ dialog \in Approval \cup {NoApproval}
    /\ submitting \in [Approval -> Decision \cup {"none"}]
    /\ answer \in [Approval -> {"none", "ok", "error"}]
    /\ inRoom \in BOOLEAN
    /\ down \in Seq(Approval)
    /\ unseen \subseteq Approval
    /\ handlers \subseteq Handler
    /\ loads \in 0..MaxLoads /\ failures \in 0..MaxFailures

Init ==
    /\ created = <<>> /\ announcing = {}
    /\ status = [a \in Approval |-> "none"]
    /\ decidedBy = [a \in Approval |-> Nobody]
    /\ woken = [a \in Approval |-> 0]
    /\ load = NoLoad
    /\ mounted = FALSE
    /\ pending = <<>>
    /\ dialog = NoApproval
    /\ submitting = [a \in Approval |-> "none"]
    /\ answer = [a \in Approval |-> "none"]
    /\ inRoom = FALSE
    /\ down = <<>>
    /\ unseen = {}
    /\ handlers = {}
    /\ loads = 0 /\ failures = 0

-----------------------------------------------------------------------------
(***************************************************************************)
(* ApprovalCenter                                                          *)
(***************************************************************************)

\* The watcher effect: the open dialog is that of a listed approval, the
\* oldest one unless another is open.
Settled(list, target) ==
    IF list = <<>> THEN NoApproval
    ELSE IF target \in Range(list) THEN target ELSE Head(list)

\* The list becomes list, the store was asked to open target.
Show(list, target) ==
    /\ pending' = list
    /\ dialog' = Settled(list, target)

\* The entries of s at the indices of I, in their order: SelectSeq, written
\* with the rank of an index in place of its recursion.
Rank(I, i) == Cardinality({j \in I : j <= i})
Picked(s, I) == [k \in 1..Cardinality(I) |-> s[CHOOSE i \in I : Rank(I, i) = k]]

\* Mutant: the oldest row is removed, whichever was decided.
WithoutHead(list, a) == IF list = <<>> THEN list ELSE Tail(list)

\* handleResolved.
Without(list, a) == Picked(list, {i \in DOMAIN list : list[i] # a})

\* A hard load: the page, its socket and its dialogs are gone; requests on
\* their way are no longer waited for.
Open ==
    /\ loads < MaxLoads
    /\ loads' = loads + 1
    /\ load' = [NoLoad EXCEPT !.active = TRUE]
    /\ mounted' = FALSE
    /\ pending' = <<>>
    /\ dialog' = NoApproval
    /\ submitting' = [a \in Approval |-> "none"]
    /\ answer' = [a \in Approval |-> "none"]
    /\ inRoom' = FALSE
    /\ down' = <<>>
    /\ handlers' = {[h EXCEPT !.heard = FALSE] : h \in handlers}
    /\ UNCHANGED <<rows, announcing, woken, unseen, failures>>

\* The layout is rendered again under a mounted center.
Refresh ==
    /\ mounted /\ loads < MaxLoads
    /\ loads' = loads + 1
    /\ load' = [NoLoad EXCEPT !.active = TRUE]
    /\ UNCHANGED <<rows, announcing, woken, center, requests, socket, unseen,
                   handlers, failures>>

Pending == Picked(created, {i \in DOMAIN created : status[created[i]] = "PENDING"})

\* WorkspaceLayout prefetches the pending approvals; a failed query is an
\* empty list.
LayoutReads ==
    /\ load.active /\ ~load.read
    /\ \/ /\ load' = [load EXCEPT !.read = TRUE, !.rows = Pending]
          /\ UNCHANGED failures
       \/ /\ failures < MaxFailures /\ failures' = failures + 1
          /\ load' = [load EXCEPT !.read = TRUE]
    /\ UNCHANGED <<rows, announcing, woken, center, requests, socket, unseen,
                   handlers, loads>>

\* ApprovalCenter is mounted with the list or re-seeded with it.
LayoutArrives ==
    /\ load.read
    /\ load' = NoLoad
    /\ mounted' = TRUE
    /\ Show(load.rows, dialog)
    /\ unseen' = Range(Pending) \ (Range(load.rows) \cup announcing \cup Range(down))
    /\ UNCHANGED <<rows, announcing, woken, requests, socket, handlers, counts>>

\* handleApprovalCreated: the newest approval is promoted.
Receive ==
    /\ mounted /\ down # <<>>
    /\ LET a == Head(down)
       IN  Show(IF a \in Range(pending) THEN pending ELSE Append(pending, a), a)
    /\ down' = Tail(down)
    /\ UNCHANGED <<rows, announcing, woken, load, mounted, requests, inRoom,
                   unseen, handlers, counts>>

-----------------------------------------------------------------------------
(***************************************************************************)
(* ApprovalDialog                                                          *)
(***************************************************************************)

\* submitDecision up to its fetch.
Submit(a, d) ==
    /\ dialog = a
    /\ submitting[a] = "none"
    /\ submitting' = [submitting EXCEPT ![a] = d]
    /\ handlers' = handlers \cup
          {[approval |-> a, decision |-> d, committed |-> FALSE, heard |-> TRUE]}
    /\ UNCHANGED <<rows, announcing, woken, load, center, answer, socket, unseen,
                   counts>>

\* Escape: refused while the open dialog is submitting; the watcher opens the
\* oldest row again.
Dismiss ==
    /\ dialog # NoApproval
    /\ submitting[dialog] = "none"
    /\ Show(pending, NoApproval)
    /\ UNCHANGED <<rows, announcing, woken, load, mounted, requests, socket,
                   unseen, handlers, counts>>

\* The request was granted: the row goes, then whatever dialog is open closes.
Granted(a) ==
    /\ answer[a] = "ok"
    /\ Show(Without(pending, a), NoApproval)
    /\ submitting' = [submitting EXCEPT ![a] = "none"]
    /\ answer' = [answer EXCEPT ![a] = "none"]
    /\ UNCHANGED <<rows, announcing, woken, load, mounted, socket, unseen,
                   handlers, counts>>

Resubmittable(a) == [submitting EXCEPT ![a] = "none"]

\* Any other response: the error is shown and the dialog stays.
Refused(a) ==
    /\ answer[a] = "error"
    /\ submitting' = Resubmittable(a)
    /\ answer' = [answer EXCEPT ![a] = "none"]
    /\ UNCHANGED <<rows, announcing, woken, load, center, socket, unseen,
                   handlers, counts>>

\* The request or its answer is lost: fetch throws, the server may not know.
NetworkError(a) ==
    /\ submitting[a] # "none" /\ failures < MaxFailures
    /\ failures' = failures + 1
    /\ submitting' = [submitting EXCEPT ![a] = "none"]
    /\ answer' = [answer EXCEPT ![a] = "none"]
    /\ LET waited == {h \in handlers : h.approval = a /\ h.heard}
       IN  \E still \in {waited, {h \in waited : h.committed}} :
              handlers' = (handlers \ waited) \cup {[h EXCEPT !.heard = FALSE] : h \in still}
    /\ UNCHANGED <<rows, announcing, woken, load, center, socket, unseen, loads>>

-----------------------------------------------------------------------------
(***************************************************************************)
(* ApprovalService and the route                                           *)
(***************************************************************************)

\* create: the row is committed.
Create(a) ==
    /\ a = Len(created) + 1
    /\ created' = Append(created, a)
    /\ status' = [status EXCEPT ![a] = "PENDING"]
    /\ announcing' = announcing \cup {a}
    /\ UNCHANGED <<decidedBy, woken, load, center, requests, socket, unseen,
                   handlers, counts>>

\* create: the broadcast to the sockets in the room at this moment.
Announce(a) ==
    /\ a \in announcing
    /\ announcing' = announcing \ {a}
    /\ down' = IF inRoom THEN Append(down, a) ELSE down
    /\ unseen' = IF inRoom THEN unseen ELSE unseen \cup {a}
    /\ UNCHANGED <<rows, woken, load, center, requests, inRoom, handlers, counts>>

Outcome(d) == IF d = "approve" THEN "APPROVED" ELSE "REJECTED"

\* Mutant: the update matches the row whatever its status.
DecidableAgain(a) == status[a] # "none"

\* The WHERE of the update.
Decidable(a) == status[a] = "PENDING"

\* The answer goes to the dialog that still waits for it.
Answer(h, result) ==
    IF h.heard THEN [answer EXCEPT ![h.approval] = result] ELSE answer

\* Mutant: a rejection wakes the AI as well.
WokenAlways(a, d) == IF woken[a] < 2 THEN [woken EXCEPT ![a] = @ + 1] ELSE woken

\* Only a grant emits wakeup.
Woken(a, d) ==
    IF d = "approve" /\ woken[a] < 2 THEN [woken EXCEPT ![a] = @ + 1] ELSE woken

\* approve and reject: the conditional update.
Commit(a, d, user) ==
    /\ Decidable(a)
    /\ status' = [status EXCEPT ![a] = Outcome(d)]
    /\ decidedBy' = [decidedBy EXCEPT ![a] = user]

Decide(h) ==
    /\ ~h.committed
    /\ Commit(h.approval, h.decision, Me)
    /\ handlers' = (handlers \ {h}) \cup {[h EXCEPT !.committed = TRUE]}
    /\ UNCHANGED <<created, announcing, woken, load, center, requests, socket,
                   unseen, counts>>

\* After the commit the event is emitted and the route answers.
Resume(h) ==
    /\ h.committed
    /\ woken' = Woken(h.approval, h.decision)
    /\ answer' = Answer(h, "ok")
    /\ handlers' = handlers \ {h}
    /\ UNCHANGED <<rows, announcing, load, center, submitting, socket, unseen, counts>>

\* The request of another member is handled.
DecideElsewhere(a, d) ==
    /\ Commit(a, d, Other)
    /\ woken' = Woken(a, d)
    /\ UNCHANGED <<created, announcing, load, center, requests, socket, unseen,
                   handlers, counts>>

Fails(h) ==
    /\ answer' = Answer(h, "error")
    /\ handlers' = handlers \ {h}
    /\ UNCHANGED <<rows, announcing, woken, load, center, submitting, socket,
                   unseen, loads>>

\* No row matches (404), or the session, the rate limit or the database
\* refuses.
Refuse(h) == ~h.committed /\ Fails(h) /\ UNCHANGED failures

\* The row is committed, the database's answer to the update is lost (500).
CommitLost(h) ==
    /\ h.committed /\ failures < MaxFailures
    /\ failures' = failures + 1
    /\ Fails(h)

-----------------------------------------------------------------------------
(***************************************************************************)
(* Connections and restarts                                                *)
(***************************************************************************)

Connect ==
    /\ mounted /\ ~inRoom
    /\ inRoom' = TRUE
    /\ UNCHANGED <<rows, announcing, woken, load, center, requests, down, unseen,
                   handlers, counts>>

\* Events on their way are lost with the connection.
Disconnect ==
    /\ inRoom /\ failures < MaxFailures
    /\ failures' = failures + 1
    /\ inRoom' = FALSE
    /\ down' = <<>>
    /\ unseen' = unseen \cup Range(down)
    /\ UNCHANGED <<rows, announcing, woken, load, center, requests, handlers, loads>>

\* The server process restarts: handlers end where they are, broadcasts and
\* connections are lost, dialogs without an answer on its way see an error.
Restart ==
    /\ failures < MaxFailures
    /\ failures' = failures + 1
    /\ handlers' = {} /\ announcing' = {}
    /\ inRoom' = FALSE
    /\ down' = <<>>
    /\ unseen' = unseen \cup Range(down) \cup announcing
    /\ submitting' = [a \in Approval |->
          IF answer[a] = "none" THEN "none" ELSE submitting[a]]
    /\ UNCHANGED <<rows, woken, load, center, answer, loads>>

Next ==
    \/ Open \/ Refresh \/ LayoutReads \/ LayoutArrives
    \/ Connect \/ Disconnect \/ Receive \/ Dismiss
    \/ \E a \in Approval, d \in Decision : Submit(a, d)
    \/ \E a \in Approval : Granted(a) \/ Refused(a) \/ NetworkError(a)
    \/ \E a \in Approval : Create(a) \/ Announce(a)
    \/ \E a \in Approval, d \in Decision : DecideElsewhere(a, d)
    \/ \E h \in handlers : Decide(h) \/ Resume(h) \/ Refuse(h) \/ CommitLost(h)
    \/ Restart

Spec == Init /\ [][Next]_vars

\* Awaits of the route settle, answers and events arrive; nothing is assumed
\* of the users.
Settle(a) == \E h \in handlers : h.approval = a /\ (Decide(h) \/ Resume(h) \/ Refuse(h))

Fairness ==
    /\ WF_vars(Connect) /\ WF_vars(Receive)
    /\ \A a \in Approval : WF_vars(Settle(a)) /\ WF_vars(Granted(a) \/ Refused(a))

FairSpec == Spec /\ Fairness

\* A reviewer who answers every dialog, again after every error.
EagerSpec == FairSpec /\ WF_vars(\E a \in Approval, d \in Decision : Submit(a, d))

-----------------------------------------------------------------------------
(***************************************************************************)
(* Properties                                                              *)
(***************************************************************************)

\* A dialog that is about to hear "ok" made the decision that the row holds:
\* of two browsers, or of a lost request and its retry, one decides and the
\* other is refused.
OwnDecision ==
    \A a \in Approval :
       answer[a] = "ok" =>
          /\ status[a] = Outcome(submitting[a])
          /\ decidedBy[a] = Me

\* The AI of an approval is woken at most once for it, and only by a grant
\* that is committed.
WokenOnce ==
    \A a \in Approval :
       woken[a] > 0 => woken[a] = 1 /\ status[a] = "APPROVED"

\* A pending approval is lost to a browser only by its page load and by
\* broadcasts that do not reach it: no order of events, decisions and errors
\* takes it off the list, or puts it there twice.
KeepsPending ==
    /\ mounted => Range(Pending) \subseteq
             Range(pending) \cup Range(down) \cup announcing \cup unseen
    /\ Cardinality(Range(pending)) = Len(pending)

\* The comment at the watcher effect: when the approval of the open dialog is
\* resolved elsewhere, the dialog moves on.
PromotesNext ==
    \A a \in Approval :
       (dialog = a /\ decidedBy[a] \notin {Me, Nobody}) ~> (dialog # a)
=============================================================================
