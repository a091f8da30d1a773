--------------------------- MODULE ApprovalsProofs ----------------------------
(***************************************************************************)
(* One decision per approval, one wake per grant, and a list that keeps    *)
(* what is pending, for any number of approvals, failures and page loads.  *)
(***************************************************************************)
EXTENDS Approvals, FiniteSetTheorems, TLAPS

Status == {"none", "PENDING", "APPROVED", "REJECTED"}

\* The types of what a decision reads and writes.
DecisionTypeOK ==
    /\ created \in Seq(Approval)
    /\ status \in [Approval -> Status]
    /\ decidedBy \in [Approval -> {Me, Other, Nobody}]
    /\ woken \in [Approval -> 0..2]
    /\ submitting \in [Approval -> Decision \cup {"none"}]
    /\ answer \in [Approval -> {"none", "ok", "error"}]
    /\ handlers \subseteq Handler

\* Rows are created in the order of their numbers.
Numbered == \A a \in Approval : status[a] # "none" => a <= Len(created)

\* A handler past its update decided the row, alone, and has yet to emit.
CommittedHolds ==
    /\ \A h \in handlers : h.committed =>
          /\ status[h.approval] = Outcome(h.decision)
          /\ decidedBy[h.approval] = Me
          /\ h.decision = "approve" => woken[h.approval] = 0
    /\ \A g, h \in handlers :
          g.committed /\ h.committed /\ g.approval = h.approval => g = h

\* A dialog waits for at most one handler or answer.
HeardHolds ==
    /\ \A h \in handlers : h.heard =>
          submitting[h.approval] = h.decision /\ answer[h.approval] = "none"
    /\ \A g, h \in handlers :
          g.heard /\ h.heard /\ g.approval = h.approval => g = h
    /\ \A a \in Approval : answer[a] # "none" => submitting[a] # "none"

\* The part about the rows, then the part about the dialogs.
RowsInv == DecisionTypeOK /\ Numbered /\ CommittedHolds /\ WokenOnce
QueueInv == RowsInv /\ HeardHolds /\ OwnDecision

-----------------------------------------------------------------------------
\* A handler after a change of one of its flags.
LEMMA HandlerType ==
    ASSUME NEW h \in Handler
    PROVE  /\ h.approval \in Approval /\ h.decision \in Decision
           /\ h.committed \in BOOLEAN /\ h.heard \in BOOLEAN
BY DEF Handler

LEMMA Unheard ==
    ASSUME NEW h \in Handler, NEW g, g = [h EXCEPT !.heard = FALSE]
    PROVE  /\ g \in Handler /\ ~g.heard
           /\ g.approval = h.approval /\ g.decision = h.decision
           /\ g.committed = h.committed
BY DEF Handler

LEMMA NowCommitted ==
    ASSUME NEW h \in Handler, NEW g, g = [h EXCEPT !.committed = TRUE]
    PROVE  /\ g \in Handler /\ g.committed
           /\ g.approval = h.approval /\ g.decision = h.decision
           /\ g.heard = h.heard
BY DEF Handler

\* A decision is not one of the statuses that can still change.
LEMMA OutcomeIsFinal ==
    ASSUME NEW d \in Decision
    PROVE  Outcome(d) \in {"APPROVED", "REJECTED"}
BY DEF Outcome, Decision

LEMMA QueueInvInit == Init => QueueInv
<1> SUFFICES ASSUME Init PROVE QueueInv
  OBVIOUS
<1>1. DecisionTypeOK
  BY DEF Init, DecisionTypeOK, Status, Handler, Decision
<1>2. Numbered /\ CommittedHolds /\ WokenOnce
  BY DEF Init, Numbered, CommittedHolds, WokenOnce
<1>3. HeardHolds /\ OwnDecision
  BY DEF Init, HeardHolds, OwnDecision
<1> QED BY <1>1, <1>2, <1>3 DEF QueueInv, RowsInv

\* The steps that leave the rows, the wakes and the requests alone.
LEMMA OthersKeep ==
    ASSUME QueueInv, UNCHANGED <<rows, woken, requests, handlers>>
    PROVE  QueueInv'
BY DEF QueueInv, RowsInv, DecisionTypeOK, Numbered, CommittedHolds, WokenOnce,
       HeardHolds, OwnDecision, rows, requests

\* Handlers that nobody listens to any more.
LEMMA UnheardKeep ==
    ASSUME QueueInv, UNCHANGED <<rows, woken>>,
           NEW waited \in SUBSET handlers, NEW still \in SUBSET waited,
           handlers' = (handlers \ waited) \cup {[h EXCEPT !.heard = FALSE] : h \in still}
    PROVE  /\ handlers' \subseteq Handler
           /\ CommittedHolds'
           /\ \A h \in handlers' : h.heard => h \in handlers \ waited
<1>1. \A h \in handlers : h \in Handler
  BY DEF QueueInv, RowsInv, DecisionTypeOK
<1>2. \A g \in handlers' : \/ g \in handlers \ waited
                           \/ \E h \in still : g = [h EXCEPT !.heard = FALSE]
  OBVIOUS
<1>3. \A g \in handlers' : g \in handlers \ waited \/ (g \in Handler /\ ~g.heard)
  BY <1>1, <1>2, Unheard
<1>4. \A g \in handlers' : \E h \in handlers :
         /\ g.approval = h.approval /\ g.decision = h.decision
         /\ g.committed = h.committed
         /\ \/ g = h /\ h \notin waited
            \/ g = [h EXCEPT !.heard = FALSE] /\ h \in still
  <2> TAKE g \in handlers'
  <2>1. CASE g \in handlers \ waited
    BY <2>1
  <2>2. CASE \E h \in still : g = [h EXCEPT !.heard = FALSE]
    <3>1. PICK h \in still : g = [h EXCEPT !.heard = FALSE]
      BY <2>2
    <3> QED BY <3>1, <1>1, Unheard
  <2> QED BY <2>1, <2>2, <1>2
<1>5. CommittedHolds'
  <2>1. ASSUME NEW g \in handlers', g.committed
        PROVE  /\ status'[g.approval] = Outcome(g.decision)
               /\ decidedBy'[g.approval] = Me
               /\ g.decision = "approve" => woken'[g.approval] = 0
    <3>1. PICK h \in handlers : /\ g.approval = h.approval
                                /\ g.decision = h.decision
                                /\ g.committed = h.committed
      BY <1>4
    <3>2. h.committed
      BY <2>1, <3>1
    <3> QED BY <3>1, <3>2 DEF QueueInv, RowsInv, CommittedHolds, rows
  <2>2. ASSUME NEW g1 \in handlers', NEW g2 \in handlers',
               g1.committed, g2.committed, g1.approval = g2.approval
        PROVE  g1 = g2
    <3>1. PICK h1 \in handlers :
             /\ g1.approval = h1.approval /\ g1.committed = h1.committed
             /\ \/ g1 = h1 /\ h1 \notin waited
                \/ g1 = [h1 EXCEPT !.heard = FALSE] /\ h1 \in still
      BY <1>4
    <3>2. PICK h2 \in handlers :
             /\ g2.approval = h2.approval /\ g2.committed = h2.committed
             /\ \/ g2 = h2 /\ h2 \notin waited
                \/ g2 = [h2 EXCEPT !.heard = FALSE] /\ h2 \in still
      BY <1>4
    <3>3. h1 = h2
      BY <2>2, <3>1, <3>2 DEF QueueInv, RowsInv, CommittedHolds
    <3> QED BY <3>1, <3>2, <3>3
  <2> QED BY <2>1, <2>2 DEF CommittedHolds, Outcome
<1> QED BY <1>1, <1>3, <1>5

\* The steps of a browser that forget what they wait for.
LEMMA BrowserForgets ==
    ASSUME QueueInv, Next, Open \/ Restart \/ \E a \in Approval : NetworkError(a)
    PROVE  QueueInv'
<1>0. /\ DecisionTypeOK /\ Numbered /\ CommittedHolds /\ WokenOnce
      /\ HeardHolds /\ OwnDecision
  BY DEF QueueInv, RowsInv
<1>1. CASE Open
  <2>1. handlers' = (handlers \ handlers) \cup {[h EXCEPT !.heard = FALSE] : h \in handlers}
    BY <1>1 DEF Open
  <2>2. UNCHANGED <<rows, woken>>
    BY <1>1 DEF Open
  <2>3. /\ handlers' \subseteq Handler /\ CommittedHolds'
        /\ \A h \in handlers' : ~h.heard
    BY <2>1, <2>2, UnheardKeep
  <2>4. /\ submitting' = [a \in Approval |-> "none"]
        /\ answer' = [a \in Approval |-> "none"]
    BY <1>1 DEF Open
  <2>5. DecisionTypeOK' /\ Numbered' /\ WokenOnce'
    BY <1>0, <2>2, <2>3, <2>4 DEF DecisionTypeOK, Numbered, WokenOnce, rows
  <2>6. HeardHolds' /\ OwnDecision'
    BY <2>3, <2>4 DEF HeardHolds, OwnDecision
  <2> QED BY <2>3, <2>5, <2>6 DEF QueueInv, RowsInv
<1>2. CASE Restart
  <2>1. /\ handlers' = {} /\ UNCHANGED <<rows, woken, answer>>
        /\ submitting' = [a \in Approval |->
              IF answer[a] = "none" THEN "none" ELSE submitting[a]]
    BY <1>2 DEF Restart
  <2>2. DecisionTypeOK' /\ Numbered' /\ WokenOnce' /\ CommittedHolds'
    BY <1>0, <2>1 DEF DecisionTypeOK, Numbered, WokenOnce, CommittedHolds, rows
  <2>3. HeardHolds'
    BY <1>0, <2>1 DEF HeardHolds, DecisionTypeOK
  <2>4. OwnDecision'
    BY <1>0, <2>1 DEF OwnDecision, DecisionTypeOK, Outcome, rows
  <2> QED BY <2>2, <2>3, <2>4 DEF QueueInv, RowsInv
<1>3. ASSUME NEW a \in Approval, NetworkError(a) PROVE QueueInv'
  <2> DEFINE waited == {h \in handlers : h.approval = a /\ h.heard}
  <2>1. /\ UNCHANGED <<rows, woken>>
        /\ submitting' = [submitting EXCEPT ![a] = "none"]
        /\ answer' = [answer EXCEPT ![a] = "none"]
    BY <1>3 DEF NetworkError
  <2>2. PICK still \in {waited, {h \in waited : h.committed}} :
           handlers' = (handlers \ waited) \cup {[h EXCEPT !.heard = FALSE] : h \in still}
    BY <1>3 DEF NetworkError
  <2>3. /\ handlers' \subseteq Handler /\ CommittedHolds'
        /\ \A h \in handlers' : h.heard => h \in handlers \ waited
    <3>1. waited \in SUBSET handlers /\ still \in SUBSET waited
      OBVIOUS
    <3> HIDE DEF waited
    <3> QED BY <2>1, <2>2, <3>1, UnheardKeep
  <2>4. \A h \in handlers' : h.heard => h \in handlers /\ h.approval # a
    BY <2>3
  <2>5. DecisionTypeOK' /\ Numbered' /\ WokenOnce'
    BY <1>0, <2>1, <2>3 DEF DecisionTypeOK, Numbered, WokenOnce, rows
  <2>6. HeardHolds'
    <3>1. \A h \in handlers : h.approval \in Approval
      BY <1>0, HandlerType DEF DecisionTypeOK
    <3>2. \A b \in Approval : b # a => submitting'[b] = submitting[b] /\ answer'[b] = answer[b]
      BY <1>0, <2>1 DEF DecisionTypeOK
    <3>3. answer'[a] = "none"
      BY <1>0, <2>1 DEF DecisionTypeOK
    <3> QED BY <1>0, <2>4, <3>1, <3>2, <3>3 DEF HeardHolds
  <2>7. OwnDecision'
    BY <1>0, <2>1 DEF OwnDecision, DecisionTypeOK, Outcome, rows
  <2> QED BY <2>3, <2>5, <2>6, <2>7 DEF QueueInv, RowsInv
<1> QED BY <1>1, <1>2, <1>3

\* The dialog asks, and hears.
LEMMA DialogSteps ==
    ASSUME QueueInv, NEW a \in Approval, NEW d \in Decision,
           Submit(a, d) \/ Granted(a) \/ Refused(a)
    PROVE  QueueInv'
<1>0. /\ DecisionTypeOK /\ Numbered /\ CommittedHolds /\ WokenOnce
      /\ HeardHolds /\ OwnDecision
  BY DEF QueueInv, RowsInv
<1>1. \A h \in handlers : h.approval \in Approval /\ h.decision \in Decision
  BY <1>0, HandlerType DEF DecisionTypeOK
<1>2. CASE Submit(a, d)
  <2> DEFINE new == [approval |-> a, decision |-> d, committed |-> FALSE, heard |-> TRUE]
  <2>1. /\ UNCHANGED <<rows, woken, answer>> /\ submitting[a] = "none"
        /\ submitting' = [submitting EXCEPT ![a] = d]
        /\ handlers' = handlers \cup {new}
    BY <1>2 DEF Submit
  <2>2. /\ new \in Handler /\ ~new.committed /\ new.heard
        /\ new.approval = a /\ new.decision = d
    BY DEF Handler
  <2> HIDE DEF new
  <2>3. DecisionTypeOK' /\ Numbered' /\ WokenOnce'
    BY <1>0, <2>1, <2>2 DEF DecisionTypeOK, Numbered, WokenOnce, rows
  <2>4. CommittedHolds'
    BY <1>0, <2>1, <2>2 DEF CommittedHolds, Outcome, rows
  <2>5. /\ \A h \in handlers : h.heard => h.approval # a
        /\ answer[a] = "none"
    BY <1>0, <1>1, <2>1 DEF HeardHolds, Decision
  <2>6. /\ submitting'[a] = d /\ d # "none"
        /\ \A b \in Approval : b # a => submitting'[b] = submitting[b]
    BY <1>0, <2>1 DEF DecisionTypeOK, Decision
  <2>7. HeardHolds'
    <3>1. \A h \in handlers' : h.heard =>
             submitting'[h.approval] = h.decision /\ answer'[h.approval] = "none"
      BY <1>0, <1>1, <2>1, <2>2, <2>5, <2>6 DEF HeardHolds
    <3>2. \A g, h \in handlers' :
             g.heard /\ h.heard /\ g.approval = h.approval => g = h
      BY <1>0, <2>1, <2>2, <2>5 DEF HeardHolds
    <3>3. \A b \in Approval : answer'[b] # "none" => submitting'[b] # "none"
      BY <1>0, <2>1, <2>6 DEF HeardHolds
    <3> QED BY <3>1, <3>2, <3>3 DEF HeardHolds
  <2>8. OwnDecision'
    BY <1>0, <2>1, <2>5, <2>6 DEF OwnDecision, Outcome, rows
  <2> QED BY <2>3, <2>4, <2>7, <2>8 DEF QueueInv, RowsInv
<1>3. CASE Granted(a) \/ Refused(a)
  <2>1. /\ UNCHANGED <<rows, woken, handlers>> /\ answer[a] # "none"
        /\ submitting' = [submitting EXCEPT ![a] = "none"]
        /\ answer' = [answer EXCEPT ![a] = "none"]
    BY <1>3 DEF Granted, Refused, Resubmittable
  <2>2. DecisionTypeOK' /\ Numbered' /\ WokenOnce' /\ CommittedHolds'
    BY <1>0, <2>1 DEF DecisionTypeOK, Numbered, WokenOnce, CommittedHolds, Outcome, rows
  <2>3. \A h \in handlers : h.heard => h.approval # a
    BY <1>0, <2>1 DEF HeardHolds
  <2>4. /\ answer'[a] = "none"
        /\ \A b \in Approval : b # a =>
              submitting'[b] = submitting[b] /\ answer'[b] = answer[b]
    BY <1>0, <2>1 DEF DecisionTypeOK
  <2>5. HeardHolds'
    BY <1>0, <1>1, <2>1, <2>3, <2>4 DEF HeardHolds
  <2>6. OwnDecision'
    BY <1>0, <2>1, <2>4 DEF OwnDecision, Outcome, rows
  <2> QED BY <2>2, <2>5, <2>6 DEF QueueInv, RowsInv
<1> QED BY <1>2, <1>3

\* A new row is not one that a handler or a dialog knows.
LEMMA CreateKeeps ==
    ASSUME QueueInv, NEW a \in Approval, Create(a)
    PROVE  QueueInv'
<1>0. /\ DecisionTypeOK /\ Numbered /\ CommittedHolds /\ WokenOnce
      /\ HeardHolds /\ OwnDecision
  BY DEF QueueInv, RowsInv
<1>1. /\ a = Len(created) + 1 /\ created' = Append(created, a)
      /\ status' = [status EXCEPT ![a] = "PENDING"]
      /\ UNCHANGED <<decidedBy, woken, submitting, answer, handlers>>
  BY DEF Create, requests
<1>2. /\ created' \in Seq(Approval) /\ Len(created') = Len(created) + 1
      /\ Len(created) \in Nat
  BY <1>0, <1>1 DEF DecisionTypeOK
<1>3. status[a] = "none"
  BY <1>0, <1>1, <1>2 DEF Numbered, Approval
<1>4. /\ status' \in [Approval -> Status] /\ status'[a] = "PENDING"
      /\ \A b \in Approval : b # a => status'[b] = status[b]
  BY <1>0, <1>1 DEF DecisionTypeOK, Status
<1>5. DecisionTypeOK'
  BY <1>0, <1>1, <1>2, <1>4 DEF DecisionTypeOK
<1>6. Numbered'
  <2> SUFFICES ASSUME NEW b \in Approval, status'[b] # "none"
               PROVE  b <= Len(created')
    BY DEF Numbered
  <2>1. CASE b = a
    BY <2>1, <1>1, <1>2
  <2>2. CASE b # a
    <3>1. b <= Len(created) /\ b \in Nat
      BY <2>2, <1>0, <1>4 DEF Numbered, Approval
    <3> QED BY <3>1, <1>2
  <2> QED BY <2>1, <2>2
<1>7. /\ \A h \in handlers : h.approval \in Approval /\ h.decision \in Decision
      /\ \A b \in Approval : submitting[b] \in Decision \cup {"none"}
  BY <1>0, HandlerType DEF DecisionTypeOK
<1>8. \A h \in handlers : h.committed => h.approval # a
  BY <1>0, <1>3, <1>7, OutcomeIsFinal DEF CommittedHolds
<1>9. CommittedHolds' /\ WokenOnce'
  BY <1>0, <1>1, <1>3, <1>4, <1>7, <1>8 DEF CommittedHolds, WokenOnce, Outcome
<1>10. HeardHolds'
  BY <1>0, <1>1 DEF HeardHolds
<1>11. OwnDecision'
  <2>1. answer[a] # "ok"
    BY <1>0, <1>3 DEF OwnDecision, Outcome
  <2> QED BY <1>0, <1>1, <1>4, <2>1 DEF OwnDecision, Outcome
<1> QED BY <1>5, <1>6, <1>9, <1>10, <1>11 DEF QueueInv, RowsInv

\* The conditional update: what was decided stays as it is.
LEMMA CommitKeeps ==
    ASSUME QueueInv, NEW a \in Approval, NEW d \in Decision, NEW user \in {Me, Other},
           Commit(a, d, user)
    PROVE  /\ status' \in [Approval -> Status]
           /\ decidedBy' \in [Approval -> {Me, Other, Nobody}]
           /\ status'[a] = Outcome(d) /\ decidedBy'[a] = user
           /\ \A b \in Approval : b # a =>
                 status'[b] = status[b] /\ decidedBy'[b] = decidedBy[b]
           /\ woken[a] = 0 /\ answer[a] # "ok"
           /\ \A h \in handlers : h.committed => h.approval # a
           /\ status[a] # "none"
<1>1. /\ status[a] = "PENDING"
      /\ status' = [status EXCEPT ![a] = Outcome(d)]
      /\ decidedBy' = [decidedBy EXCEPT ![a] = user]
  BY DEF Commit, Decidable
<1>2. DecisionTypeOK /\ CommittedHolds /\ WokenOnce /\ OwnDecision
  BY DEF QueueInv, RowsInv
<1>3. Outcome(d) \in Status
  BY DEF Outcome, Status
<1>4. woken[a] = 0
  BY <1>1, <1>2 DEF WokenOnce, DecisionTypeOK
<1>5. answer[a] # "ok"
  BY <1>1, <1>2 DEF OwnDecision, Outcome
<1>6. \A h \in handlers : h.committed => h.approval # a
  BY <1>1, <1>2 DEF CommittedHolds, Outcome
<1> QED BY <1>1, <1>2, <1>3, <1>4, <1>5, <1>6 DEF DecisionTypeOK

LEMMA DecideKeeps ==
    ASSUME QueueInv, NEW h \in handlers, Decide(h)
    PROVE  QueueInv'
<1>0. /\ DecisionTypeOK /\ Numbered /\ CommittedHolds /\ WokenOnce
      /\ HeardHolds /\ OwnDecision
  BY DEF QueueInv, RowsInv
<1> DEFINE new == [h EXCEPT !.committed = TRUE]
<1>1. /\ ~h.committed /\ Commit(h.approval, h.decision, Me)
      /\ handlers' = (handlers \ {h}) \cup {new}
      /\ UNCHANGED <<created, woken, submitting, answer>>
  BY DEF Decide, requests
<1>2. /\ \A g \in handlers : g.approval \in Approval /\ g.decision \in Decision
      /\ h.approval \in Approval /\ h.decision \in Decision
  BY <1>0, HandlerType DEF DecisionTypeOK
<1>3. /\ new \in Handler /\ new.committed
      /\ new.approval = h.approval /\ new.decision = h.decision
      /\ new.heard = h.heard
  BY <1>0, NowCommitted DEF DecisionTypeOK
<1> HIDE DEF new
<1>4. /\ status' \in [Approval -> Status]
      /\ decidedBy' \in [Approval -> {Me, Other, Nobody}]
      /\ status'[h.approval] = Outcome(h.decision) /\ decidedBy'[h.approval] = Me
      /\ \A b \in Approval : b # h.approval =>
            status'[b] = status[b] /\ decidedBy'[b] = decidedBy[b]
      /\ woken[h.approval] = 0 /\ answer[h.approval] # "ok"
      /\ \A g \in handlers : g.committed => g.approval # h.approval
      /\ status[h.approval] # "none"
  BY <1>1, <1>2, CommitKeeps
<1>5. DecisionTypeOK' /\ Numbered'
  BY <1>0, <1>1, <1>2, <1>3, <1>4 DEF DecisionTypeOK, Numbered
<1>6. CommittedHolds'
  <2>1. \A g \in handlers' : g.committed =>
           /\ status'[g.approval] = Outcome(g.decision)
           /\ decidedBy'[g.approval] = Me
           /\ g.decision = "approve" => woken'[g.approval] = 0
    <3> SUFFICES ASSUME NEW g \in handlers', g.committed
                 PROVE  /\ status'[g.approval] = Outcome(g.decision)
                        /\ decidedBy'[g.approval] = Me
                        /\ g.decision = "approve" => woken'[g.approval] = 0
      OBVIOUS
    <3>1. CASE g = new
      BY <3>1, <1>1, <1>3, <1>4
    <3>2. CASE g # new
      <4>1. g \in handlers /\ g.approval \in Approval /\ g.approval # h.approval
        BY <3>2, <1>1, <1>2, <1>4
      <4> QED BY <4>1, <1>0, <1>1, <1>4 DEF CommittedHolds
    <3> QED BY <3>1, <3>2
  <2>2. \A f, g \in handlers' :
           f.committed /\ g.committed /\ f.approval = g.approval => f = g
    BY <1>0, <1>1, <1>3, <1>4 DEF CommittedHolds
  <2> QED BY <2>1, <2>2 DEF CommittedHolds, Outcome
<1>7. WokenOnce'
  BY <1>0, <1>1, <1>4 DEF WokenOnce
<1>8. HeardHolds'
  BY <1>0, <1>1, <1>3 DEF HeardHolds
<1>9. OwnDecision'
  BY <1>0, <1>1, <1>4 DEF OwnDecision, Outcome
<1> QED BY <1>5, <1>6, <1>7, <1>8, <1>9 DEF QueueInv, RowsInv

LEMMA ElsewhereKeeps ==
    ASSUME QueueInv, NEW a \in Approval, NEW d \in Decision, DecideElsewhere(a, d)
    PROVE  QueueInv'
<1>0. /\ DecisionTypeOK /\ Numbered /\ CommittedHolds /\ WokenOnce
      /\ HeardHolds /\ OwnDecision
  BY DEF QueueInv, RowsInv
<1>1. /\ Commit(a, d, Other) /\ woken' = Woken(a, d)
      /\ UNCHANGED <<created, submitting, answer, handlers>>
  BY DEF DecideElsewhere, requests
<1>2. \A h \in handlers : h.approval \in Approval
  BY <1>0, HandlerType DEF DecisionTypeOK
<1>3. /\ status' \in [Approval -> Status]
      /\ decidedBy' \in [Approval -> {Me, Other, Nobody}]
      /\ status'[a] = Outcome(d)
      /\ \A b \in Approval : b # a =>
            status'[b] = status[b] /\ decidedBy'[b] = decidedBy[b]
      /\ woken[a] = 0 /\ answer[a] # "ok"
      /\ \A h \in handlers : h.committed => h.approval # a
      /\ status[a] # "none"
  BY <1>1, CommitKeeps
<1>4. /\ woken' \in [Approval -> 0..2]
      /\ woken'[a] = IF d = "approve" THEN 1 ELSE 0
      /\ \A b \in Approval : b # a => woken'[b] = woken[b]
  BY <1>0, <1>1, <1>3 DEF Woken, DecisionTypeOK
<1>5. DecisionTypeOK' /\ Numbered'
  BY <1>0, <1>1, <1>3, <1>4 DEF DecisionTypeOK, Numbered
<1>6. WokenOnce'
  BY <1>0, <1>3, <1>4 DEF WokenOnce, Outcome
<1>7. CommittedHolds'
  BY <1>0, <1>1, <1>2, <1>3, <1>4 DEF CommittedHolds, Outcome
<1>8. HeardHolds'
  BY <1>0, <1>1 DEF HeardHolds
<1>9. OwnDecision'
  BY <1>0, <1>1, <1>3 DEF OwnDecision, Outcome
<1> QED BY <1>5, <1>6, <1>7, <1>8, <1>9 DEF QueueInv, RowsInv

\* A handler ends and answers the dialog that waits for it.
LEMMA AnswerKeeps ==
    ASSUME QueueInv, NEW h \in handlers, NEW result \in {"ok", "error"},
           answer' = Answer(h, result), handlers' = handlers \ {h},
           UNCHANGED submitting
    PROVE  /\ answer' \in [Approval -> {"none", "ok", "error"}]
           /\ HeardHolds'
           /\ \A b \in Approval : answer'[b] = "ok" =>
                 \/ answer[b] = "ok"
                 \/ b = h.approval /\ h.heard /\ result = "ok"
<1>0. DecisionTypeOK /\ HeardHolds
  BY DEF QueueInv, RowsInv
<1>1. \A g \in handlers : g.approval \in Approval /\ g.decision \in Decision
  BY <1>0, HandlerType DEF DecisionTypeOK
<1>2. CASE h.heard
  <2>1. /\ answer' \in [Approval -> {"none", "ok", "error"}]
        /\ answer'[h.approval] = result
        /\ \A b \in Approval : b # h.approval => answer'[b] = answer[b]
    BY <1>0, <1>1, <1>2 DEF Answer, DecisionTypeOK
  <2>2. \A g \in handlers' : g.heard => g.approval # h.approval
    BY <1>0, <1>2 DEF HeardHolds
  <2>3. submitting[h.approval] # "none"
    BY <1>0, <1>1, <1>2 DEF HeardHolds, Decision
  <2>4. HeardHolds'
    BY <1>0, <1>1, <2>1, <2>2, <2>3 DEF HeardHolds
  <2> QED BY <1>2, <2>1, <2>4
<1>3. CASE ~h.heard
  BY <1>0, <1>3 DEF Answer, HeardHolds, DecisionTypeOK
<1> QED BY <1>2, <1>3

LEMMA FailsKeeps ==
    ASSUME QueueInv, NEW h \in handlers, Fails(h)
    PROVE  QueueInv'
<1>0. /\ DecisionTypeOK /\ Numbered /\ CommittedHolds /\ WokenOnce /\ OwnDecision
  BY DEF QueueInv, RowsInv
<1>1. /\ answer' = Answer(h, "error") /\ handlers' = handlers \ {h}
      /\ UNCHANGED <<rows, woken, submitting>>
  BY DEF Fails
<1>2. /\ answer' \in [Approval -> {"none", "ok", "error"}]
      /\ HeardHolds'
      /\ \A b \in Approval : answer'[b] = "ok" => answer[b] = "ok"
  BY <1>1, AnswerKeeps
<1>3. DecisionTypeOK' /\ Numbered' /\ WokenOnce' /\ CommittedHolds'
  BY <1>0, <1>1, <1>2 DEF DecisionTypeOK, Numbered, WokenOnce, CommittedHolds,
     Outcome, rows
<1>4. OwnDecision'
  BY <1>0, <1>1, <1>2 DEF OwnDecision, Outcome, rows
<1> QED BY <1>2, <1>3, <1>4 DEF QueueInv, RowsInv

\* The one handler that committed emits, and tells its dialog what the row
\* holds.
LEMMA ResumeKeeps ==
    ASSUME QueueInv, NEW h \in handlers, Resume(h)
    PROVE  QueueInv'
<1>0. /\ DecisionTypeOK /\ Numbered /\ CommittedHolds /\ WokenOnce
      /\ HeardHolds /\ OwnDecision
  BY DEF QueueInv, RowsInv
<1>1. /\ h.committed /\ woken' = Woken(h.approval, h.decision)
      /\ answer' = Answer(h, "ok") /\ handlers' = handlers \ {h}
      /\ UNCHANGED <<rows, submitting>>
  BY DEF Resume
<1>2. /\ answer' \in [Approval -> {"none", "ok", "error"}]
      /\ HeardHolds'
      /\ \A b \in Approval : answer'[b] = "ok" =>
            answer[b] = "ok" \/ (b = h.approval /\ h.heard)
  BY <1>1, AnswerKeeps
<1>3. /\ h.approval \in Approval /\ h.decision \in Decision
      /\ \A g \in handlers : g.approval \in Approval
  BY <1>0, HandlerType DEF DecisionTypeOK
<1>4. /\ status[h.approval] = Outcome(h.decision) /\ decidedBy[h.approval] = Me
      /\ h.decision = "approve" => woken[h.approval] = 0
      /\ \A g \in handlers' : g.committed => g.approval # h.approval
  BY <1>0, <1>1 DEF CommittedHolds
<1>5. /\ woken' \in [Approval -> 0..2]
      /\ \A b \in Approval : b # h.approval => woken'[b] = woken[b]
      /\ woken'[h.approval] = IF h.decision = "approve" THEN 1 ELSE woken[h.approval]
  BY <1>0, <1>1, <1>3, <1>4 DEF Woken, DecisionTypeOK
<1>6. DecisionTypeOK' /\ Numbered'
  BY <1>0, <1>1, <1>2, <1>5 DEF DecisionTypeOK, Numbered, rows
<1>7. WokenOnce'
  BY <1>0, <1>1, <1>4, <1>5 DEF WokenOnce, Outcome, rows
<1>8. CommittedHolds'
  BY <1>0, <1>1, <1>3, <1>4, <1>5 DEF CommittedHolds, Outcome, rows
<1>9. OwnDecision'
  <2>1. h.heard => submitting[h.approval] = h.decision
    BY <1>0 DEF HeardHolds
  <2> QED BY <1>0, <1>1, <1>2, <1>4, <2>1 DEF OwnDecision, Outcome, rows
<1> QED BY <1>2, <1>6, <1>7, <1>8, <1>9 DEF QueueInv, RowsInv

LEMMA QueueInvStep == QueueInv /\ [Next]_vars => QueueInv'
<1> SUFFICES ASSUME QueueInv, [Next]_vars PROVE QueueInv'
  OBVIOUS
<1>1. CASE Refresh \/ LayoutReads \/ LayoutArrives \/ Connect \/ Disconnect
           \/ Receive \/ Dismiss
  BY <1>1, OthersKeep DEF Refresh, LayoutReads, LayoutArrives, Connect,
     Disconnect, Receive, Dismiss, center, socket, counts
<1>2. ASSUME NEW a \in Approval, Announce(a) PROVE QueueInv'
  BY <1>2, OthersKeep DEF Announce
<1>3. CASE Next /\ (Open \/ Restart \/ \E a \in Approval : NetworkError(a))
  BY <1>3, BrowserForgets
<1>4. ASSUME NEW a \in Approval, NEW d \in Decision, Submit(a, d) PROVE QueueInv'
  BY <1>4, DialogSteps
<1>5. ASSUME NEW a \in Approval, Granted(a) \/ Refused(a) PROVE QueueInv'
  <2>1. "approve" \in Decision
    BY DEF Decision
  <2> QED BY <1>5, <2>1, DialogSteps
<1>6. ASSUME NEW a \in Approval, Create(a) PROVE QueueInv'
  BY <1>6, CreateKeeps
<1>7. ASSUME NEW h \in handlers, Decide(h) \/ Resume(h) \/ Refuse(h) \/ CommitLost(h)
      PROVE  QueueInv'
  BY <1>7, DecideKeeps, ResumeKeeps, FailsKeeps DEF Refuse, CommitLost
<1>8. ASSUME NEW a \in Approval, NEW d \in Decision, DecideElsewhere(a, d)
      PROVE  QueueInv'
  BY <1>8, ElsewhereKeeps
<1>9. CASE UNCHANGED vars
  BY <1>9, OthersKeep DEF vars
<1> QED BY <1>1, <1>2, <1>3, <1>4, <1>5, <1>6, <1>7, <1>8, <1>9 DEF Next

-----------------------------------------------------------------------------
THEOREM QueueInvariant == Spec => []QueueInv
BY QueueInvInit, QueueInvStep, PTL DEF Spec

\* OwnDecision: the dialog that hears "ok" made the decision the row holds,
\* for any number of members, lost requests and retries.
THEOREM OwnDecisionCorrect == Spec => []OwnDecision
<1>1. QueueInv => OwnDecision
  BY DEF QueueInv
<1> QED BY <1>1, QueueInvariant, PTL

\* WokenOnce: approve emits one wakeup for an approval, after its commit.
THEOREM WokenOnceCorrect == Spec => []WokenOnce
<1>1. QueueInv => WokenOnce
  BY DEF QueueInv, RowsInv
<1> QED BY <1>1, QueueInvariant, PTL

\* The type part of the queue's invariant.
THEOREM DecisionTypeCorrect == Spec => []DecisionTypeOK
<1>1. QueueInv => DecisionTypeOK
  BY DEF QueueInv, RowsInv
<1> QED BY <1>1, QueueInvariant, PTL

-----------------------------------------------------------------------------
(***************************************************************************)
(* Filters.                                                                *)
(***************************************************************************)

\* The ranks of the members of a set of indices are 1, 2, and so on: one each.
LEMMA RanksCount ==
    ASSUME NEW n \in Nat, NEW I \in SUBSET (1..n)
    PROVE  /\ IsFiniteSet(I) /\ Cardinality(I) \in Nat
           /\ \A i \in I : Rank(I, i) \in 1..Cardinality(I)
           /\ \A i, j \in I : Rank(I, i) = Rank(I, j) => i = j
           /\ \A k \in 1..Cardinality(I) : \E i \in I : Rank(I, i) = k
<1> DEFINE Upto(i) == {j \in I : j <= i}
<1>1. IsFiniteSet(I) /\ Cardinality(I) \in Nat
  <2>1. IsFiniteSet(1..n)
    BY FS_Interval
  <2> QED BY <2>1, FS_Subset, FS_CardinalityType
<1>2. ASSUME NEW i \in I
      PROVE  IsFiniteSet(Upto(i)) /\ Rank(I, i) \in 1..Cardinality(I)
  <2>1. IsFiniteSet(Upto(i)) /\ Cardinality(Upto(i)) <= Cardinality(I)
    BY <1>1, FS_Subset
  <2>2. i \in Upto(i)
    OBVIOUS
  <2>3. Cardinality(Upto(i)) \in Nat /\ Cardinality(Upto(i)) # 0
    BY <2>1, <2>2, FS_CardinalityType, FS_EmptySet
  <2> QED BY <1>1, <2>1, <2>3 DEF Rank
<1>3. ASSUME NEW i \in I, NEW j \in I, i < j PROVE Rank(I, i) # Rank(I, j)
  <2>1. Upto(i) \in SUBSET Upto(j)
    <3>1. i \in Nat /\ j \in Nat /\ \A k \in I : k \in Nat
      OBVIOUS
    <3>2. \A k \in I : k <= i => k <= j
      BY <1>3, <3>1
    <3> QED BY <3>2
  <2>2. j \in Upto(j) /\ j \notin Upto(i)
    BY <1>3
  <2>3. Cardinality(Upto(i)) # Cardinality(Upto(j))
    BY <1>2, <2>1, <2>2, FS_Subset
  <2> QED BY <2>3 DEF Rank
<1>4. \A i, j \in I : Rank(I, i) = Rank(I, j) => i = j
  <2> TAKE i, j \in I
  <2>1. i \in Nat /\ j \in Nat
    OBVIOUS
  <2>2. i < j \/ j < i \/ i = j
    BY <2>1
  <2> QED BY <2>2, <1>3
<1>5. \A k \in 1..Cardinality(I) : \E i \in I : Rank(I, i) = k
  <2> DEFINE f == [i \in I |-> Rank(I, i)]
  <2>1. f \in Injection(I, 1..Cardinality(I))
    BY <1>2, <1>4 DEF Injection, IsInjective
  <2>2. IsFiniteSet(1..Cardinality(I)) /\ Cardinality(1..Cardinality(I)) = Cardinality(I)
    BY <1>1, FS_Interval
  <2>3. f \in Surjection(I, 1..Cardinality(I))
    BY <2>1, <2>2, FS_Injection
  <2> QED BY <2>3 DEF Surjection
<1> QED BY <1>1, <1>2, <1>4, <1>5

\* A filter keeps what it picks, each entry once.
LEMMA PickedFacts ==
    ASSUME NEW T, NEW s \in Seq(T), NEW I \in SUBSET (DOMAIN s)
    PROVE  /\ Picked(s, I) \in Seq(T)
           /\ Range(Picked(s, I)) = {s[i] : i \in I}
           /\ IsInjective(s) => IsInjective(Picked(s, I))
<1> DEFINE at(k) == CHOOSE i \in I : Rank(I, i) = k
<1>1. Len(s) \in Nat /\ DOMAIN s = 1..Len(s) /\ \A i \in DOMAIN s : s[i] \in T
  OBVIOUS
<1>2. /\ IsFiniteSet(I) /\ Cardinality(I) \in Nat
      /\ \A i \in I : Rank(I, i) \in 1..Cardinality(I)
      /\ \A i, j \in I : Rank(I, i) = Rank(I, j) => i = j
      /\ \A k \in 1..Cardinality(I) : \E i \in I : Rank(I, i) = k
  BY <1>1, RanksCount
<1>3. \A k \in 1..Cardinality(I) : at(k) \in I /\ Rank(I, at(k)) = k
  BY <1>2
<1>4. \A i \in I : at(Rank(I, i)) = i
  BY <1>2
<1>5. Picked(s, I) = [k \in 1..Cardinality(I) |-> s[at(k)]]
  BY DEF Picked
<1> HIDE DEF at
<1>6. Picked(s, I) \in Seq(T)
  <2>1. \A k \in 1..Cardinality(I) : s[at(k)] \in T
    BY <1>1, <1>3
  <2>2. Picked(s, I) \in [1..Cardinality(I) -> T]
    BY <1>5, <2>1
  <2> QED BY <1>2, <2>2
<1>7. \A x : x \in Range(Picked(s, I)) <=> \E i \in I : x = s[i]
  <2>1. ASSUME NEW k \in 1..Cardinality(I) PROVE \E i \in I : Picked(s, I)[k] = s[i]
    BY <1>3, <1>5
  <2>2. ASSUME NEW i \in I
        PROVE  \E k \in 1..Cardinality(I) : Picked(s, I)[k] = s[i]
    <3>1. Rank(I, i) \in 1..Cardinality(I)
      BY <1>2
    <3>2. Picked(s, I)[Rank(I, i)] = s[i]
      BY <3>1, <1>4, <1>5
    <3> QED BY <3>1, <3>2
  <2>3. DOMAIN Picked(s, I) = 1..Cardinality(I)
    BY <1>5
  <2> QED BY <2>1, <2>2, <2>3 DEF Range
<1>8. ASSUME IsInjective(s) PROVE IsInjective(Picked(s, I))
  <2> SUFFICES ASSUME NEW k \in 1..Cardinality(I), NEW l \in 1..Cardinality(I),
                      Picked(s, I)[k] = Picked(s, I)[l]
               PROVE  k = l
    BY <1>5 DEF IsInjective
  <2>1. s[at(k)] = s[at(l)]
    BY <1>5
  <2>2. at(k) = at(l)
    BY <1>3, <1>8, <2>1 DEF IsInjective
  <2> QED BY <1>3, <2>2
<1> QED BY <1>6, <1>7, <1>8

\* A list that names nothing twice is as long as the set of what it names.
LEMMA InjectiveLength ==
    ASSUME NEW T, NEW s \in Seq(T), IsInjective(s)
    PROVE  Cardinality(Range(s)) = Len(s)
<1>1. Len(s) \in Nat /\ DOMAIN s = 1..Len(s)
  OBVIOUS
<1>2. s \in [1..Len(s) -> Range(s)]
  BY <1>1 DEF Range
<1>3. s \in Surjection(1..Len(s), Range(s))
  BY <1>1, <1>2 DEF Range, Surjection
<1>4. s \in Injection(1..Len(s), Range(s))
  BY <1>1, <1>2 DEF IsInjective, Injection
<1>5. IsFiniteSet(1..Len(s)) /\ Cardinality(1..Len(s)) = Len(s)
  BY <1>1, FS_Interval
<1> QED BY <1>3, <1>4, <1>5, FS_Surjection

\* List t is list s with a at its end.
Extends(t, s, a) ==
    /\ t \in Seq(Approval) /\ Len(t) = Len(s) + 1
    /\ t[Len(s) + 1] = a /\ \A i \in 1..Len(s) : t[i] = s[i]

\* Appending what is not listed names nothing twice.
LEMMA AppendOnce ==
    ASSUME NEW s \in Seq(Approval), NEW a \in Approval, NEW t, Extends(t, s, a)
    PROVE  /\ t \in Seq(Approval)
           /\ Range(t) = Range(s) \cup {a}
           /\ IsInjective(s) /\ a \notin Range(s) => IsInjective(t)
<1>1. /\ t \in Seq(Approval) /\ Len(s) \in Nat
      /\ DOMAIN t = 1..(Len(s) + 1) /\ DOMAIN s = 1..Len(s)
      /\ t[Len(s) + 1] = a /\ \A i \in 1..Len(s) : t[i] = s[i]
  BY DEF Extends
<1>2. \A i \in DOMAIN t : i \in 1..Len(s) \/ i = Len(s) + 1
  BY <1>1
<1>3. Range(t) = Range(s) \cup {a}
  BY <1>1, <1>2 DEF Range
<1>4. ASSUME IsInjective(s), a \notin Range(s) PROVE IsInjective(t)
  BY <1>1, <1>2, <1>4 DEF IsInjective, Range
<1> QED BY <1>1, <1>3, <1>4

\* The head is taken off.
LEMMA TailRange ==
    ASSUME NEW T, NEW s \in Seq(T), s # <<>>
    PROVE  /\ Tail(s) \in Seq(T) /\ Head(s) \in T
           /\ Range(s) = Range(Tail(s)) \cup {Head(s)}
<1> DEFINE t == Tail(s)
<1>1. /\ t \in Seq(T) /\ Head(s) \in T /\ Head(s) = s[1]
      /\ Len(s) \in Nat /\ Len(s) >= 1 /\ Len(t) = Len(s) - 1
      /\ DOMAIN t = 1..(Len(s) - 1) /\ DOMAIN s = 1..Len(s)
      /\ \A i \in 1..(Len(s) - 1) : t[i] = s[i + 1]
  OBVIOUS
<1> HIDE DEF t
<1>2. \A i \in DOMAIN s : i = 1 \/ (i - 1 \in DOMAIN t /\ s[i] = t[i - 1])
  BY <1>1
<1>3. \A i \in DOMAIN t : i + 1 \in DOMAIN s /\ s[i + 1] = t[i]
  BY <1>1
<1>4. \A x : x \in Range(s) <=> x \in Range(t) \/ x = Head(s)
  BY <1>1, <1>2, <1>3 DEF Range
<1> QED BY <1>1, <1>4 DEF t

-----------------------------------------------------------------------------
(***************************************************************************)
(* The list of a browser.                                                  *)
(***************************************************************************)

\* A list of approvals that names none twice.
CleanList(list) == list \in Seq(Approval) /\ IsInjective(list)

\* The n-th row is approval n.
InOrder == \A i \in 1..Len(created) : created[i] = i

\* The lists of the browser, and those a load brings, are clean.
ListsAreClean ==
    /\ load \in Load /\ CleanList(load.rows)
    /\ CleanList(pending)
    /\ down \in Seq(Approval)

\* A mounted browser has, expects or was not told of every pending approval.
Accounted ==
    mounted => \A a \in Approval :
       status[a] = "PENDING" =>
          a \in Range(pending) \cup Range(down) \cup announcing \cup unseen

CenterInv == InOrder /\ ListsAreClean /\ Accounted

\* What a step may do to the rows without a list losing a pending approval.
NoneNew == \A a \in Approval : status'[a] = "PENDING" => status[a] = "PENDING"

\* The prefetched list names the pending approvals, each once.
LEMMA PendingFacts ==
    ASSUME QueueInv, InOrder
    PROVE  /\ CleanList(Pending)
           /\ Range(Pending) = {a \in Approval : status[a] = "PENDING"}
<1> DEFINE I == {i \in DOMAIN created : status[created[i]] = "PENDING"}
<1>1. /\ created \in Seq(Approval) /\ Len(created) \in Nat
      /\ DOMAIN created = 1..Len(created)
  BY DEF QueueInv, RowsInv, DecisionTypeOK
<1>2. IsInjective(created)
  BY <1>1 DEF InOrder, IsInjective
<1>3. /\ Pending \in Seq(Approval) /\ IsInjective(Pending)
      /\ Range(Pending) = {created[i] : i \in I}
  BY <1>1, <1>2, PickedFacts DEF Pending
<1>4. ASSUME NEW a \in Approval, status[a] = "PENDING"
      PROVE  \E i \in I : a = created[i]
  <2>1. a <= Len(created)
    BY <1>4 DEF QueueInv, RowsInv, Numbered
  <2>2. a \in 1..Len(created)
    BY <1>1, <2>1 DEF Approval
  <2> QED BY <1>1, <1>4, <2>2 DEF InOrder
<1>5. \A i \in I : created[i] \in Approval /\ status[created[i]] = "PENDING"
  BY <1>1
<1> QED BY <1>3, <1>4, <1>5 DEF CleanList

LEMMA WithoutFacts ==
    ASSUME NEW list, CleanList(list), NEW a
    PROVE  CleanList(Without(list, a)) /\ Range(Without(list, a)) = Range(list) \ {a}
<1> DEFINE I == {i \in DOMAIN list : list[i] # a}
<1>1. /\ Without(list, a) \in Seq(Approval) /\ IsInjective(Without(list, a))
      /\ Range(Without(list, a)) = {list[i] : i \in I}
  BY PickedFacts DEF CleanList, Without
<1>2. {list[i] : i \in I} = Range(list) \ {a}
  BY DEF Range
<1> QED BY <1>1, <1>2 DEF CleanList

LEMMA EmptyIsClean == CleanList(<<>>) /\ Range(<<>>) = {}
BY DEF CleanList, IsInjective, Range

LEMMA CenterInvInit == Init => CenterInv
BY EmptyIsClean DEF Init, CenterInv, InOrder, ListsAreClean, Accounted, Load, NoLoad,
   CleanList

\* The steps that add no approval and leave the browser alone.
LEMMA RowStepsKeep ==
    ASSUME CenterInv, NoneNew, UNCHANGED <<created, announcing, load, center, socket, unseen>>
    PROVE  CenterInv'
BY DEF CenterInv, InOrder, ListsAreClean, Accounted, NoneNew, CleanList, Range,
   IsInjective, center, socket

\* Whatever else it does, a decision takes an approval off the pending ones.
LEMMA CommitsAddNone ==
    ASSUME QueueInv, NEW a \in Approval, NEW d \in Decision, NEW user,
           Commit(a, d, user)
    PROVE  NoneNew
BY DEF Commit, Outcome, NoneNew, QueueInv, RowsInv, DecisionTypeOK

\* The loads of a page.
LEMMA LoadsKeep ==
    ASSUME QueueInv, CenterInv, Open \/ Refresh \/ LayoutReads \/ LayoutArrives
    PROVE  CenterInv'
<1>0. InOrder /\ ListsAreClean /\ Accounted
  BY DEF CenterInv
<1>1. CASE Open \/ Refresh
  <2>1. /\ UNCHANGED <<rows, announcing, unseen>>
        /\ load' = [NoLoad EXCEPT !.active = TRUE]
        /\ \/ mounted' = FALSE /\ pending' = <<>> /\ down' = <<>>
           \/ UNCHANGED <<mounted, pending, down>>
    BY <1>1 DEF Open, Refresh, center, socket
  <2>2. load' \in Load /\ load'.rows = <<>>
    BY <2>1, EmptyIsClean DEF Load, NoLoad, CleanList
  <2>3. ListsAreClean'
    BY <1>0, <2>1, <2>2, EmptyIsClean DEF ListsAreClean, CleanList, IsInjective
  <2>4. InOrder' /\ Accounted'
    BY <1>0, <2>1 DEF InOrder, Accounted, rows, Range
  <2> QED BY <2>3, <2>4 DEF CenterInv
<1>2. CASE LayoutReads
  <2>1. /\ UNCHANGED <<rows, announcing, center, socket, unseen>>
        /\ \/ load' = [load EXCEPT !.read = TRUE, !.rows = Pending]
           \/ load' = [load EXCEPT !.read = TRUE]
    BY <1>2 DEF LayoutReads
  <2>2. CleanList(Pending)
    BY <1>0, PendingFacts
  <2>3. load' \in Load /\ (load'.rows = Pending \/ load'.rows = load.rows)
    BY <1>0, <2>1, <2>2 DEF ListsAreClean, Load, CleanList
  <2>4. ListsAreClean'
    BY <1>0, <2>1, <2>2, <2>3 DEF ListsAreClean, CleanList, IsInjective, center, socket
  <2>5. InOrder' /\ Accounted'
    BY <1>0, <2>1 DEF InOrder, Accounted, rows, center, socket, Range
  <2> QED BY <2>4, <2>5 DEF CenterInv
<1>3. CASE LayoutArrives
  <2>1. /\ UNCHANGED <<rows, announcing, down>>
        /\ load' = NoLoad /\ pending' = load.rows
        /\ unseen' = Range(Pending) \ (Range(load.rows) \cup announcing \cup Range(down))
    BY <1>3 DEF LayoutArrives, Show, socket
  <2>2. load' \in Load /\ load'.rows = <<>>
    BY <2>1 DEF Load, NoLoad
  <2>3. ListsAreClean'
    BY <1>0, <2>1, <2>2, EmptyIsClean DEF ListsAreClean, CleanList, IsInjective
  <2>4. Range(Pending) = {a \in Approval : status[a] = "PENDING"}
    BY <1>0, PendingFacts
  <2>5. Accounted'
    BY <2>1, <2>4 DEF Accounted, rows, Range
  <2>6. InOrder'
    BY <1>0, <2>1 DEF InOrder, rows
  <2> QED BY <2>3, <2>5, <2>6 DEF CenterInv
<1> QED BY <1>1, <1>2, <1>3

\* The list after an event.
LEMMA ListKeeps ==
    ASSUME QueueInv, CenterInv, Receive \/ Dismiss
    PROVE  CenterInv'
<1>0. InOrder /\ ListsAreClean /\ Accounted
  BY DEF CenterInv
<1>1. CASE Receive
  <2> DEFINE b == Head(down)
  <2>1. /\ down # <<>> /\ down' = Tail(down)
        /\ pending' = IF b \in Range(pending) THEN pending ELSE Append(pending, b)
        /\ UNCHANGED <<rows, announcing, load, mounted, unseen>>
    BY <1>1 DEF Receive, Show
  <2>2. /\ Tail(down) \in Seq(Approval) /\ b \in Approval
        /\ Range(down) = Range(Tail(down)) \cup {b}
    BY <1>0, <2>1, TailRange DEF ListsAreClean
  <2> HIDE DEF b
  <2>3. CleanList(pending') /\ Range(pending') = Range(pending) \cup {b}
    <3>1. CASE b \in Range(pending)
      BY <1>0, <2>1, <3>1 DEF ListsAreClean, CleanList
    <3>2. CASE b \notin Range(pending)
      <4>1. pending \in Seq(Approval) /\ IsInjective(pending)
        BY <1>0 DEF ListsAreClean, CleanList
      <4>2. Extends(pending', pending, b)
        <5>1. pending' = Append(pending, b)
          BY <2>1, <3>2
        <5> QED BY <2>2, <4>1, <5>1 DEF Extends
      <4>3. /\ pending' \in Seq(Approval)
            /\ Range(pending') = Range(pending) \cup {b}
            /\ IsInjective(pending')
        BY <2>2, <3>2, <4>1, <4>2, AppendOnce
      <4> QED BY <4>3 DEF CleanList
    <3> QED BY <3>1, <3>2
  <2>4. ListsAreClean'
    BY <1>0, <2>1, <2>2, <2>3 DEF ListsAreClean, CleanList, IsInjective
  <2>5. Range(pending)' = Range(pending') /\ Range(down)' = Range(down')
    BY DEF Range
  <2>6. Accounted'
    BY <1>0, <2>1, <2>2, <2>3, <2>5 DEF Accounted, rows
  <2>7. InOrder'
    BY <1>0, <2>1 DEF InOrder, rows
  <2> QED BY <2>4, <2>6, <2>7 DEF CenterInv
<1>2. CASE Dismiss
  <2>1. UNCHANGED <<rows, announcing, load, mounted, pending, down, unseen>>
    BY <1>2 DEF Dismiss, Show, socket
  <2> QED BY <1>0, <2>1 DEF CenterInv, InOrder, ListsAreClean, Accounted, CleanList,
             IsInjective, Range, rows
<1> QED BY <1>1, <1>2

\* What a grant takes off the list was decided.
LEMMA GrantedKeeps ==
    ASSUME QueueInv, CenterInv, NEW a \in Approval, Granted(a)
    PROVE  CenterInv'
<1>0. InOrder /\ ListsAreClean /\ Accounted
  BY DEF CenterInv
<1>1. /\ answer[a] = "ok" /\ pending' = Without(pending, a)
      /\ UNCHANGED <<rows, announcing, load, mounted, down, unseen>>
  BY DEF Granted, Show, socket
<1>2. status[a] # "PENDING"
  BY <1>1 DEF QueueInv, OwnDecision, Outcome
<1>3. CleanList(pending') /\ Range(pending') = Range(pending) \ {a}
  BY <1>0, <1>1, WithoutFacts DEF ListsAreClean
<1>4. ListsAreClean'
  BY <1>0, <1>1, <1>3 DEF ListsAreClean, CleanList, IsInjective
<1>5. Range(pending)' = Range(pending') /\ Range(down)' = Range(down)
  BY <1>1 DEF Range
<1>6. Accounted'
  BY <1>0, <1>1, <1>2, <1>3, <1>5 DEF Accounted, rows
<1>7. InOrder'
  BY <1>0, <1>1 DEF InOrder, rows
<1> QED BY <1>4, <1>6, <1>7 DEF CenterInv

\* A new row and its broadcast.
LEMMA EventsKeep ==
    ASSUME QueueInv, CenterInv, NEW a \in Approval, Create(a) \/ Announce(a)
    PROVE  CenterInv'
<1>0. /\ InOrder /\ ListsAreClean /\ Accounted
      /\ created \in Seq(Approval) /\ Len(created) \in Nat
      /\ status \in [Approval -> Status]
  BY DEF CenterInv, QueueInv, RowsInv, DecisionTypeOK
<1>1. CASE Create(a)
  <2>1. /\ a = Len(created) + 1 /\ created' = Append(created, a)
        /\ status' = [status EXCEPT ![a] = "PENDING"]
        /\ announcing' = announcing \cup {a}
        /\ UNCHANGED <<load, mounted, pending, down, unseen>>
    BY <1>1 DEF Create, center, socket
  <2>2. InOrder'
    <3>1. /\ Len(created') = Len(created) + 1 /\ created'[Len(created) + 1] = a
          /\ \A i \in 1..Len(created) : created'[i] = created[i]
      BY <1>0, <2>1
    <3>2. \A i \in 1..(Len(created) + 1) : i \in 1..Len(created) \/ i = Len(created) + 1
      BY <1>0
    <3> QED BY <1>0, <2>1, <3>1, <3>2 DEF InOrder
  <2>3. ListsAreClean'
    BY <1>0, <2>1 DEF ListsAreClean, CleanList, IsInjective
  <2>4. Accounted'
    BY <1>0, <2>1 DEF Accounted, Range
  <2> QED BY <2>2, <2>3, <2>4 DEF CenterInv
<1>2. CASE Announce(a)
  <2>1. /\ announcing' = announcing \ {a}
        /\ \/ down' = Append(down, a) /\ unseen' = unseen
           \/ down' = down /\ unseen' = unseen \cup {a}
        /\ UNCHANGED <<rows, load, mounted, pending>>
    BY <1>2 DEF Announce, center
  <2>2. ASSUME down' = Append(down, a)
        PROVE  down' \in Seq(Approval) /\ Range(down') = Range(down) \cup {a}
    <3>1. down \in Seq(Approval)
      BY <1>0 DEF ListsAreClean
    <3>2. Extends(down', down, a)
      BY <2>2, <3>1 DEF Extends
    <3> QED BY <3>1, <3>2, AppendOnce
  <2>3. ListsAreClean'
    BY <1>0, <2>1, <2>2 DEF ListsAreClean, CleanList, IsInjective
  <2>4. Range(pending)' = Range(pending) /\ Range(down)' = Range(down')
    BY <2>1 DEF Range
  <2>5. InOrder' /\ Accounted'
    BY <1>0, <2>1, <2>2, <2>4 DEF InOrder, Accounted, rows
  <2> QED BY <2>3, <2>5 DEF CenterInv
<1> QED BY <1>1, <1>2

\* The connection that carries the events.
LEMMA ConnectionKeeps ==
    ASSUME CenterInv, Connect \/ Disconnect \/ Restart
    PROVE  CenterInv'
<1>0. InOrder /\ ListsAreClean /\ Accounted
  BY DEF CenterInv
<1>1. CASE Connect
  <2>1. UNCHANGED <<rows, announcing, load, mounted, pending, down, unseen>>
    BY <1>1 DEF Connect, center
  <2> QED BY <1>0, <2>1 DEF CenterInv, InOrder, ListsAreClean, Accounted, CleanList,
             IsInjective, Range, rows
<1>2. CASE Disconnect \/ Restart
  <2>1. /\ down' = <<>>
        /\ unseen' \cup announcing' = unseen \cup Range(down) \cup announcing
        /\ UNCHANGED <<rows, load, mounted, pending>>
    BY <1>2 DEF Disconnect, Restart, center
  <2>2. ListsAreClean'
    BY <1>0, <2>1 DEF ListsAreClean, CleanList, IsInjective
  <2>3. Range(pending)' = Range(pending)
    BY <2>1 DEF Range
  <2>4. InOrder' /\ Accounted'
    BY <1>0, <2>1, <2>3 DEF InOrder, Accounted, rows
  <2> QED BY <2>2, <2>4 DEF CenterInv
<1> QED BY <1>1, <1>2

LEMMA CenterInvStep == QueueInv /\ CenterInv /\ [Next]_vars => CenterInv'
<1> SUFFICES ASSUME QueueInv, CenterInv, [Next]_vars PROVE CenterInv'
  OBVIOUS
<1>0. /\ \A h \in handlers : h.approval \in Approval /\ h.decision \in Decision
      /\ \A a \in Approval : status[a] \in Status
  BY HandlerType DEF QueueInv, RowsInv, DecisionTypeOK
<1>1. CASE Open \/ Refresh \/ LayoutReads \/ LayoutArrives
  BY <1>1, LoadsKeep
<1>2. CASE Receive \/ Dismiss
  BY <1>2, ListKeeps
<1>3. ASSUME NEW a \in Approval, Granted(a) PROVE CenterInv'
  BY <1>3, GrantedKeeps
<1>4. ASSUME NEW a \in Approval, Create(a) \/ Announce(a) PROVE CenterInv'
  BY <1>4, EventsKeep
<1>5. CASE Connect \/ Disconnect \/ Restart
  BY <1>5, ConnectionKeeps
<1>6. ASSUME NEW a \in Approval, NEW d \in Decision,
             Submit(a, d) \/ Refused(a) \/ NetworkError(a)
      PROVE  CenterInv'
  <2>1. NoneNew /\ UNCHANGED <<created, announcing, load, center, socket, unseen>>
    BY <1>6 DEF Submit, Refused, NetworkError, rows, NoneNew
  <2> QED BY <2>1, RowStepsKeep
<1>7. ASSUME NEW h \in handlers, Decide(h) PROVE CenterInv'
  <2>1. NoneNew
    BY <1>0, <1>7, CommitsAddNone DEF Decide
  <2>2. UNCHANGED <<created, announcing, load, center, socket, unseen>>
    BY <1>7 DEF Decide
  <2> QED BY <2>1, <2>2, RowStepsKeep
<1>8. ASSUME NEW h \in handlers, Resume(h) \/ Refuse(h) \/ CommitLost(h) PROVE CenterInv'
  <2>1. NoneNew /\ UNCHANGED <<created, announcing, load, center, socket, unseen>>
    BY <1>8 DEF Resume, Refuse, CommitLost, Fails, rows, NoneNew
  <2> QED BY <2>1, RowStepsKeep
<1>9. ASSUME NEW a \in Approval, NEW d \in Decision, DecideElsewhere(a, d)
      PROVE  CenterInv'
  <2>1. NoneNew
    BY <1>9, CommitsAddNone DEF DecideElsewhere
  <2>2. UNCHANGED <<created, announcing, load, center, socket, unseen>>
    BY <1>9 DEF DecideElsewhere
  <2> QED BY <2>1, <2>2, RowStepsKeep
<1>10. CASE UNCHANGED vars
  <2>1. NoneNew /\ UNCHANGED <<created, announcing, load, center, socket, unseen>>
    BY <1>10 DEF vars, rows, NoneNew
  <2> QED BY <2>1, RowStepsKeep
<1>11. "approve" \in Decision
  BY DEF Decision
<1> QED BY <1>1, <1>2, <1>3, <1>4, <1>5, <1>6, <1>7, <1>8, <1>9, <1>10, <1>11 DEF Next

THEOREM CenterInvariant == Spec => []CenterInv
BY CenterInvInit, CenterInvStep, QueueInvariant, PTL DEF Spec

\* KeepsPending: an approval that is still to be decided leaves the list of a
\* mounted browser in no order of events, answers and errors, and is listed
\* once, for any number of approvals, loads and failures.
THEOREM PendingIsKept == Spec => []KeepsPending
<1>1. QueueInv /\ CenterInv => KeepsPending
  BY PendingFacts, InjectiveLength
     DEF CenterInv, ListsAreClean, CleanList, Accounted, KeepsPending
<1> QED BY <1>1, QueueInvariant, CenterInvariant, PTL

-----------------------------------------------------------------------------
(***************************************************************************)
(* Types.                                                                  *)
(***************************************************************************)

\* What neither invariant types.
RestTypeOK ==
    /\ announcing \subseteq Range(created)
    /\ mounted \in BOOLEAN /\ inRoom \in BOOLEAN
    /\ dialog \in Approval \cup {NoApproval}
    /\ unseen \subseteq Approval
    /\ loads \in 0..MaxLoads /\ failures \in 0..MaxFailures

LEMMA SettledType ==
    ASSUME NEW list \in Seq(Approval), NEW target \in Approval \cup {NoApproval}
    PROVE  Settled(list, target) \in Approval \cup {NoApproval}
BY TailRange DEF Settled

LEMMA RestTypeStep ==
    ASSUME QueueInv, CenterInv, CenterInv', RestTypeOK, [Next]_vars
    PROVE  RestTypeOK'
<1>0. /\ pending \in Seq(Approval) /\ pending' \in Seq(Approval)
      /\ load.rows \in Seq(Approval) /\ down \in Seq(Approval)
      /\ created \in Seq(Approval)
  BY DEF CenterInv, ListsAreClean, CleanList, QueueInv, RowsInv, DecisionTypeOK
<1>1. /\ MaxLoads \in Nat /\ MaxFailures \in Nat
      /\ Range(down) \subseteq Approval /\ Range(created) \subseteq Approval
  BY <1>0, BoundAssumption DEF Range
<1>2. \/ UNCHANGED loads
      \/ loads < MaxLoads /\ loads' = loads + 1
  BY DEF Next, vars, counts, Open, Refresh, LayoutReads, LayoutArrives, Connect,
     Disconnect, Receive, Dismiss, Submit, Granted, Refused, NetworkError, Create,
     Announce, DecideElsewhere, Decide, Resume, Refuse, CommitLost, Fails, Restart
<1>3. \/ UNCHANGED failures
      \/ failures < MaxFailures /\ failures' = failures + 1
  BY DEF Next, vars, counts, Open, Refresh, LayoutReads, LayoutArrives, Connect,
     Disconnect, Receive, Dismiss, Submit, Granted, Refused, NetworkError, Create,
     Announce, DecideElsewhere, Decide, Resume, Refuse, CommitLost, Fails, Restart
<1>4. loads' \in 0..MaxLoads /\ failures' \in 0..MaxFailures
  BY <1>1, <1>2, <1>3 DEF RestTypeOK
<1>5. \/ UNCHANGED dialog \/ dialog' = NoApproval
      \/ dialog' = Settled(pending', NoApproval)
      \/ dialog' = Settled(pending', dialog)
      \/ down # <<>> /\ dialog' = Settled(pending', Head(down))
  BY DEF Next, vars, center, Show, Open, Refresh, LayoutReads, LayoutArrives, Connect,
     Disconnect, Receive, Dismiss, Submit, Granted, Refused, NetworkError, Create,
     Announce, DecideElsewhere, Decide, Resume, Refuse, CommitLost, Fails, Restart
<1>6. dialog' \in Approval \cup {NoApproval}
  BY <1>0, <1>5, SettledType, TailRange DEF RestTypeOK
<1>7. mounted' \in BOOLEAN /\ inRoom' \in BOOLEAN
  BY DEF RestTypeOK, Next, vars, center, socket, Open, Refresh, LayoutReads,
     LayoutArrives, Connect, Disconnect, Receive, Dismiss, Submit, Granted, Refused,
     NetworkError, Create, Announce, DecideElsewhere, Decide, Resume, Refuse,
     CommitLost, Fails, Restart
<1>8. \/ UNCHANGED created /\ announcing' \subseteq announcing
      \/ \E a \in Approval : /\ created' = Append(created, a)
                             /\ announcing' = announcing \cup {a}
  BY DEF Next, vars, rows, Open, Refresh, LayoutReads, LayoutArrives, Connect,
     Disconnect, Receive, Dismiss, Submit, Granted, Refused, NetworkError, Create,
     Announce, DecideElsewhere, Decide, Resume, Refuse, CommitLost, Fails, Restart
<1>9. announcing' \subseteq Range(created')
  <2>1. CASE UNCHANGED created /\ announcing' \subseteq announcing
    BY <2>1 DEF RestTypeOK, Range
  <2>2. CASE \E a \in Approval : /\ created' = Append(created, a)
                                 /\ announcing' = announcing \cup {a}
    <3>1. PICK a \in Approval : /\ created' = Append(created, a)
                                /\ announcing' = announcing \cup {a}
      BY <2>2
    <3>2. created \in Seq(Approval) /\ Extends(created', created, a)
      BY <1>0, <3>1 DEF Extends
    <3>3. Range(created') = Range(created) \cup {a}
      BY <3>2, AppendOnce
    <3> QED BY <3>1, <3>3 DEF RestTypeOK
  <2> QED BY <1>8, <2>1, <2>2
<1>10. unseen' \subseteq unseen \cup Range(down) \cup announcing \cup Approval \cup Range(Pending)
  BY DEF Next, vars, Open, Refresh, LayoutReads, LayoutArrives, Connect,
     Disconnect, Receive, Dismiss, Submit, Granted, Refused, NetworkError, Create,
     Announce, DecideElsewhere, Decide, Resume, Refuse, CommitLost, Fails, Restart
<1>11. unseen' \subseteq Approval
  BY <1>1, <1>10, PendingFacts DEF RestTypeOK, CenterInv
<1>12. Range(created)' = Range(created')
  BY DEF Range
<1> QED BY <1>4, <1>6, <1>7, <1>9, <1>11, <1>12 DEF RestTypeOK

\* The types of the whole module.
THEOREM QueueTypesHold == Spec => []TypeOK
<1>1. Init => RestTypeOK
  <2>1. 0 \in 0..MaxLoads /\ 0 \in 0..MaxFailures
    BY BoundAssumption
  <2> QED BY <2>1, EmptyIsClean DEF Init, RestTypeOK
<1>2. QueueInv /\ CenterInv /\ CenterInv' /\ RestTypeOK /\ [Next]_vars => RestTypeOK'
  BY RestTypeStep
<1>3. QueueInv /\ CenterInv /\ RestTypeOK => TypeOK
  BY DEF QueueInv, RowsInv, DecisionTypeOK, CenterInv, ListsAreClean, CleanList,
     RestTypeOK, TypeOK, Status
<1> QED BY <1>1, <1>2, <1>3, QueueInvariant, CenterInvariant, PTL DEF Spec
=============================================================================
