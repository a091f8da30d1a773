----------------------------- MODULE TaskBoardProofs -----------------------------
(***************************************************************************)
(* The numbers, the versions and the cards of the task board, for any      *)
(* number of calls, tasks, users and lost connections.                     *)
(***************************************************************************)
EXTENDS TaskBoard, SequenceTheorems, TLAPS

\* What a call can be.
OpenCall == [step : {"open"}, dialog : 0..MaxDialogs, creator : User, assignee : Named,
             number : Nat]
CommittedCall == [step : {"committed"}, dialog : 0..MaxDialogs, task : Nat, row : Row,
                  by : AI \cup {NoUser}]
HandedOffCall == [step : {"handed off"}, task : Nat, by : AI, target : AI]
AnsweringCall == [step : {"answering"}, dialog : 1..MaxDialogs, ok : BOOLEAN]
CallState == {Idle} \cup OpenCall \cup CommittedCall \cup HandedOffCall \cup AnsweringCall

\* A row of table t, as some commit left it.
Shows(t, card) ==
    /\ card.task \in 1..Len(t)
    /\ card.row.updatedAt \in 1..Len(t[card.task])
    /\ card.row = t[card.task][card.row.updatedAt]

\* Table t has become table u by commits.
Grown(t, u) ==
    /\ Len(t) <= Len(u)
    /\ \A i \in 1..Len(t) :
          Len(t[i]) <= Len(u[i]) /\ \A v \in 1..Len(t[i]) : u[i][v] = t[i][v]

\* The versions of a task carry its number and their own.
RowsHold ==
    \A i \in Task :
        /\ Len(table[i]) >= 1
        /\ \A v \in 1..Len(table[i]) : table[i][v].taskId = i /\ table[i][v].updatedAt = v

NumbersHold ==
    /\ taskCounter = Len(table) /\ Len(lastSent) = Len(table)
    /\ \A i \in Task : lastSent[i] <= Len(table[i])

\* One transaction holds the lock, with the number after the last one.
LockHolds ==
    \A c \in Call : At(c, "open") =>
        /\ calls[c].number = taskCounter + 1
        /\ \A other \in Call : At(other, "open") => other = c

\* A call past its commit has the row it committed.
CommitsHold == \A c \in Call : At(c, "committed") => Shows(table, calls[c])

\* The task of hand-off w was given to its target.
Given(t, w) ==
    /\ w.task \in 1..Len(t)
    /\ \E v \in 2..Len(t[w.task]) : t[w.task][v].assignee = w.target
    /\ w.by # w.target /\ w.target \in SharesChannel[w.by]

HandOffsHold ==
    /\ \A c \in Call : At(c, "handed off") => Given(table, calls[c])
    /\ \A c \in Call : At(c, "committed") /\ calls[c].by # NoUser =>
          /\ calls[c].row.assignee \in SharesChannel[calls[c].by] \ {calls[c].by}
          /\ calls[c].row.updatedAt >= 2
    /\ \A w \in woken : Given(table, w)

TableTypes ==
    /\ taskCounter \in Nat /\ table \in Seq(Seq(Row)) /\ lastSent \in Seq(Nat)
    /\ calls \in [Call -> CallState] /\ woken \subseteq HandedOffCall

TableInv ==
    TableTypes /\ RowsHold /\ NumbersHold /\ LockHolds /\ CommitsHold /\ HandOffsHold

-----------------------------------------------------------------------------
\* The events on their way are rows that were committed, and the last event of
\* a task is its last broadcast.
EventsHold ==
    /\ ~connected => down = <<>>
    /\ \A k \in 1..Len(down) :
          /\ Shows(table, down[k])
          /\ \/ \E j \in 1..Len(down) : j > k /\ down[j].task = down[k].task
             \/ down[k].row.updatedAt = lastSent[down[k].task]

\* A list of cards of table t, one for each task.
CardsOf(t, cards) ==
    /\ \A k \in 1..Len(cards) : Shows(t, cards[k])
    /\ \A j, k \in 1..Len(cards) : cards[j].task = cards[k].task => j = k

\* The cards that are on the board, or will be.
Shown == IF mounted THEN board ELSE page.rows

ScreenHolds ==
    /\ CardsOf(table, board) /\ CardsOf(table, page.rows)
    /\ ~(mounted /\ page.read)

\* What keeps a task's last version from the screen.
FreshHolds ==
    mounted \/ page.read => \A i \in Task :
        \/ i \in missed \/ lastSent[i] # Len(table[i])
        \/ \E k \in 1..Len(down) : down[k].task = i
        \/ \E k \in 1..Len(Shown) :
              Shown[k].task = i /\ Shown[k].row.updatedAt = Len(table[i])

ScreenTypes ==
    /\ page \in [read : BOOLEAN, rows : Seq(Card)] /\ mounted \in BOOLEAN
    /\ board \in Seq(Card) /\ connected \in BOOLEAN /\ down \in Seq(Card)
    /\ missed \subseteq Nat

\* A call of dialog d that has not made its task yet.
Pending(d) == \E c \in Call : At(c, "open") /\ calls[c].dialog = d

\* Dialog d is on the screen and nothing is submitted.
Ready(d) == dialog.open /\ d = dialogs /\ dialog.submitting # d

DialogTypes ==
    /\ dialog \in [open : BOOLEAN, submitting : 0..MaxDialogs] /\ dialogs \in 0..MaxDialogs
    /\ made \in [1..MaxDialogs -> Nat] /\ failed \in [1..MaxDialogs -> Nat]

\* A dialog has as many tasks, made or pending, as errors shown, and one more
\* unless it waits for its user to submit.
AttemptsHold ==
    /\ dialog.open => dialogs >= 1 /\ dialog.submitting \in {NoDialog, dialogs}
    /\ ~dialog.open => dialog.submitting = NoDialog
    /\ \A c \in Call : At(c, "open") => calls[c].dialog <= dialogs
    /\ \A d \in 1..MaxDialogs :
          /\ made[d] + (IF Pending(d) THEN 1 ELSE 0)
                <= failed[d] + (IF Ready(d) THEN 0 ELSE 1)
          /\ d > dialogs => made[d] = 0

DialogInv == TableInv /\ DialogTypes /\ AttemptsHold

BoardInv == DialogInv /\ ScreenTypes /\ EventsHold /\ ScreenHolds /\ FreshHolds

-----------------------------------------------------------------------------
\* The fields of a call, by its step.
LEMMA CallFields ==
    ASSUME NEW s \in CallState
    PROVE  /\ s.step \in {"idle", "open", "committed", "handed off", "answering"}
           /\ s.step = "open" => s \in OpenCall
           /\ s.step = "committed" => s \in CommittedCall
           /\ s.step = "handed off" => s \in HandedOffCall
           /\ s.step = "answering" => s \in AnsweringCall
<1>1. s = Idle => s.step = "idle"
  BY DEF Idle
<1>2. s \in OpenCall => s.step = "open"
  BY DEF OpenCall
<1>3. s \in CommittedCall => s.step = "committed"
  BY DEF CommittedCall
<1>4. s \in HandedOffCall => s.step = "handed off"
  BY DEF HandedOffCall
<1>5. s \in AnsweringCall => s.step = "answering"
  BY DEF AnsweringCall
<1>6. s = Idle \/ s \in OpenCall \/ s \in CommittedCall \/ s \in HandedOffCall
         \/ s \in AnsweringCall
  BY DEF CallState
<1> QED BY <1>1, <1>2, <1>3, <1>4, <1>5, <1>6

\* The constructors of calls.
LEMMA IdleType == Idle \in CallState /\ Idle.step = "idle"
BY DEF CallState, Idle

LEMMA OpenType ==
    ASSUME NEW d \in 0..MaxDialogs, NEW u \in User, NEW a \in Named, NEW n \in Nat
    PROVE  /\ Open(d, u, a, n) \in CallState
           /\ Open(d, u, a, n).step = "open" /\ Open(d, u, a, n).number = n
           /\ Open(d, u, a, n).dialog = d
BY DEF Open, OpenCall, CallState

LEMMA CommittedType ==
    ASSUME NEW d \in 0..MaxDialogs, NEW i \in Nat, NEW row \in Row, NEW by \in AI \cup {NoUser}
    PROVE  /\ Committed(d, i, row, by) \in CallState
           /\ Committed(d, i, row, by).step = "committed"
           /\ Committed(d, i, row, by).task = i /\ Committed(d, i, row, by).row = row
           /\ Committed(d, i, row, by).by = by /\ Committed(d, i, row, by).dialog = d
BY DEF Committed, CommittedCall, CallState

LEMMA HandedOffType ==
    ASSUME NEW n \in Nat, NEW u \in AI, NEW a \in AI
    PROVE  /\ HandedOff(n, u, a) \in CallState
           /\ HandedOff(n, u, a).step = "handed off"
           /\ HandedOff(n, u, a).task = n /\ HandedOff(n, u, a).by = u
           /\ HandedOff(n, u, a).target = a
BY DEF HandedOff, HandedOffCall, CallState

LEMMA AnsweringType ==
    ASSUME NEW d \in 0..MaxDialogs, NEW ok \in BOOLEAN
    PROVE  /\ Answering(d, ok) \in CallState
           /\ Answering(d, ok).step \in {"idle", "answering"}
           /\ Answering(d, ok).step = "answering" => Answering(d, ok).dialog = d
BY BoundAssumption, IdleType DEF Answering, AnsweringCall, CallState, NoDialog, Idle

\* A call that becomes something else; the others stay.
LEMMA BecomesMeans ==
    ASSUME calls \in [Call -> CallState], NEW c \in Call, NEW s \in CallState, Becomes(c, s)
    PROVE  /\ calls' \in [Call -> CallState] /\ calls'[c] = s
           /\ \A other \in Call : other # c => calls'[other] = calls[other]
BY DEF Becomes

LEMMA NewRowType ==
    ASSUME NEW tx \in OpenCall
    PROVE  /\ NewRow(tx) \in Row /\ NewRow(tx).taskId = tx.number
           /\ NewRow(tx).updatedAt = 1
<1>1. KnownAssignee(tx.assignee) \in User \cup {NoUser}
  BY DEF KnownAssignee
<1> QED BY <1>1, ColumnAssumption DEF NewRow, Row, OpenCall

-----------------------------------------------------------------------------
(***************************************************************************)
(* How the table grows                                                     *)
(***************************************************************************)

LEMMA TableShape ==
    ASSUME TableInv
    PROVE  /\ Len(table) \in Nat /\ Len(lastSent) = Len(table)
           /\ \A i \in Task :
                 /\ table[i] \in Seq(Row) /\ Len(table[i]) \in Nat /\ Len(table[i]) >= 1
                 /\ \A v \in 1..Len(table[i]) : table[i][v] \in Row
                 /\ lastSent[i] \in Nat
BY DEF TableInv, TableTypes, RowsHold, NumbersHold, Task

LEMMA ShowsMore ==
    ASSUME NEW t \in Seq(Seq(Row)), NEW u \in Seq(Seq(Row)), Grown(t, u),
           NEW card, Shows(t, card)
    PROVE  Shows(u, card)
<1> DEFINE i == card.task
           v == card.row.updatedAt
<1>1. i \in 1..Len(t) /\ v \in 1..Len(t[i]) /\ card.row = t[i][v]
  BY DEF Shows
<1> HIDE DEF i, v
<1>2. i \in 1..Len(u) /\ Len(t[i]) <= Len(u[i]) /\ u[i][v] = t[i][v]
  <2>1. Len(t) <= Len(u) /\ Len(t) \in Nat /\ Len(u) \in Nat
    BY DEF Grown
  <2>2. i \in 1..Len(u)
    BY <1>1, <2>1
  <2>3. Len(t[i]) <= Len(u[i]) /\ u[i][v] = t[i][v]
    BY <1>1 DEF Grown
  <2> QED BY <2>2, <2>3
<1>3. Len(t[i]) \in Nat /\ Len(u[i]) \in Nat
  BY <1>1, <1>2
<1>4. v \in 1..Len(u[i])
  BY <1>1, <1>2, <1>3
<1> QED BY <1>1, <1>2, <1>4 DEF Shows, i, v

LEMMA GivenMore ==
    ASSUME NEW t \in Seq(Seq(Row)), NEW u \in Seq(Seq(Row)), Grown(t, u),
           NEW w, Given(t, w)
    PROVE  Given(u, w)
<1> DEFINE i == w.task
<1>1. PICK v \in 2..Len(t[i]) : t[i][v].assignee = w.target
  BY DEF Given
<1>2. i \in 1..Len(t) /\ Len(t[i]) \in Nat
  BY DEF Given
<1>3. i \in 1..Len(u) /\ Len(t[i]) <= Len(u[i])
  BY <1>2 DEF Grown
<1>4. v \in 1..Len(t[i]) /\ Len(u[i]) \in Nat
  BY <1>1, <1>2, <1>3
<1>5. u[i][v] = t[i][v] /\ v \in 2..Len(u[i])
  BY <1>1, <1>2, <1>3, <1>4 DEF Grown
<1> QED BY <1>1, <1>3, <1>5 DEF Given

LEMMA InsertGrows ==
    ASSUME TableInv, NEW c \in Call, At(c, "open"), Insert(calls[c])
    PROVE  /\ table' \in Seq(Seq(Row)) /\ lastSent' \in Seq(Nat) /\ taskCounter' \in Nat
           /\ Grown(table, table') /\ Len(table') = Len(table) + 1
           /\ \A i \in Task : table'[i] = table[i] /\ lastSent'[i] = lastSent[i]
           /\ table'[Len(table) + 1] = <<NewRow(calls[c])>> /\ lastSent'[Len(table) + 1] = 0
           /\ RowsHold' /\ NumbersHold'
           /\ NewRow(calls[c]) \in Row /\ NewRow(calls[c]).updatedAt = 1
<1> DEFINE row == NewRow(calls[c])
<1>1. /\ calls[c] \in OpenCall /\ calls[c].number = Len(table) + 1
  BY CallFields DEF TableInv, TableTypes, LockHolds, NumbersHold, At
<1>2. row \in Row /\ row.taskId = Len(table) + 1 /\ row.updatedAt = 1
  BY <1>1, NewRowType
<1>3. /\ taskCounter' = Len(table) + 1 /\ table' = Append(table, <<row>>)
      /\ lastSent' = Append(lastSent, 0)
  BY <1>1 DEF Insert
<1> HIDE DEF row
<1>4. /\ table \in Seq(Seq(Row)) /\ lastSent \in Seq(Nat) /\ <<row>> \in Seq(Row)
      /\ Len(<<row>>) = 1 /\ <<row>>[1] = row
  BY <1>2 DEF TableInv, TableTypes
<1>5. /\ Len(table) \in Nat /\ Len(lastSent) = Len(table)
  BY TableShape
<1>6. /\ table' \in Seq(Seq(Row)) /\ lastSent' \in Seq(Nat) /\ taskCounter' \in Nat
      /\ Len(table') = Len(table) + 1 /\ Len(lastSent') = Len(table) + 1
      /\ \A i \in Task : table'[i] = table[i] /\ lastSent'[i] = lastSent[i]
      /\ table'[Len(table) + 1] = <<row>> /\ lastSent'[Len(table) + 1] = 0
  BY <1>3, <1>4, <1>5, AppendProperties DEF Task
<1>7. Grown(table, table')
  BY <1>5, <1>6, TableShape DEF Grown, Task
<1>8. RowsHold'
  <2> SUFFICES ASSUME NEW i \in 1..Len(table')
               PROVE  /\ Len(table'[i]) >= 1
                      /\ \A v \in 1..Len(table'[i]) :
                            table'[i][v].taskId = i /\ table'[i][v].updatedAt = v
    BY DEF RowsHold, Task
  <2>1. CASE i \in Task
    BY <2>1, <1>6 DEF TableInv, RowsHold
  <2>2. CASE i = Len(table) + 1
    <3>1. table'[i] = <<row>>
      BY <2>2, <1>6
    <3>2. Len(table'[i]) = 1 /\ table'[i][1] = row
      BY <3>1
    <3>3. row.taskId = i /\ row.updatedAt = 1
      BY <2>2, <1>2, <1>4
    <3> QED BY <3>2, <3>3
  <2>3. i \in Task \/ i = Len(table) + 1
    BY <1>5, <1>6 DEF Task
  <2> QED BY <2>1, <2>2, <2>3
<1>9. NumbersHold'
  <2> SUFFICES ASSUME NEW i \in 1..Len(table') PROVE lastSent'[i] <= Len(table'[i])
    BY <1>3, <1>6 DEF NumbersHold, Task
  <2>1. CASE i \in Task
    BY <2>1, <1>6 DEF TableInv, NumbersHold
  <2>2. CASE i = Len(table) + 1
    BY <2>2, <1>4, <1>6
  <2> QED BY <2>1, <2>2, <1>5, <1>6 DEF Task
<1> QED BY <1>2, <1>6, <1>7, <1>8, <1>9 DEF row

\* One more version of a row.
LEMMA WriteGrows ==
    ASSUME TableInv, NEW c \in Call, NEW i \in Task, NEW row \in Row, NEW by,
           Write(c, i, row, by), row.taskId = i, row.updatedAt = Len(table[i]) + 1
    PROVE  /\ table' \in Seq(Seq(Row))
           /\ Grown(table, table') /\ Len(table') = Len(table)
           /\ \A j \in Task : j # i => table'[j] = table[j]
           /\ Len(table'[i]) = Len(table[i]) + 1
           /\ RowsHold' /\ NumbersHold'
           /\ Shows(table', Committed(NoDialog, i, row, by))
           /\ \A card : Shows(table, card) => Shows(table', card)
<1>1. /\ table' = [table EXCEPT ![i] = Append(table[i], row)]
      /\ UNCHANGED <<taskCounter, lastSent>>
  BY DEF Write
<1>2. /\ table \in Seq(Seq(Row)) /\ table[i] \in Seq(Row) /\ Len(table) \in Nat
      /\ Len(table[i]) \in Nat /\ i \in 1..Len(table)
  BY TableShape DEF TableInv, TableTypes, Task
<1>3. /\ Append(table[i], row) \in Seq(Row) /\ Len(Append(table[i], row)) = Len(table[i]) + 1
      /\ \A v \in 1..Len(table[i]) : Append(table[i], row)[v] = table[i][v]
      /\ Append(table[i], row)[Len(table[i]) + 1] = row
  BY <1>2, AppendProperties
<1>4. /\ table' \in Seq(Seq(Row)) /\ Len(table') = Len(table)
      /\ \A j \in 1..Len(table) : table'[j] = IF j = i THEN Append(table[i], row) ELSE table[j]
  BY <1>1, <1>2, <1>3, ExceptSeq
<1>5. Grown(table, table')
  <2> SUFFICES ASSUME NEW j \in 1..Len(table)
               PROVE  /\ Len(table[j]) <= Len(table'[j])
                      /\ \A v \in 1..Len(table[j]) : table'[j][v] = table[j][v]
    BY <1>2, <1>4 DEF Grown
  <2>1. CASE j = i
    <3> DEFINE new == Append(table[i], row)
    <3>1. /\ table'[i] = new /\ Len(new) = Len(table[i]) + 1
          /\ \A v \in 1..Len(table[i]) : new[v] = table[i][v]
      BY <1>2, <1>3, <1>4
    <3> HIDE DEF new
    <3> QED BY <2>1, <3>1, <1>2
  <2>2. CASE j # i
    <3>1. Len(table[j]) \in Nat
      BY <1>2
    <3> QED BY <2>2, <3>1, <1>4
  <2> QED BY <2>1, <2>2
<1>6. RowsHold'
  <2> SUFFICES ASSUME NEW j \in 1..Len(table')
               PROVE  /\ Len(table'[j]) >= 1
                      /\ \A v \in 1..Len(table'[j]) :
                            table'[j][v].taskId = j /\ table'[j][v].updatedAt = v
    BY DEF RowsHold, Task
  <2>1. CASE j # i
    BY <2>1, <1>4 DEF TableInv, RowsHold, Task
  <2>2. CASE j = i
    <3>1. \A v \in 1..Len(table[i]) : table[i][v].taskId = i /\ table[i][v].updatedAt = v
      BY DEF TableInv, RowsHold
    <3> DEFINE new == Append(table[i], row)
    <3>2. /\ table'[j] = new /\ Len(new) = Len(table[i]) + 1
          /\ \A v \in 1..Len(table[i]) : new[v] = table[i][v]
          /\ new[Len(table[i]) + 1] = row
      BY <2>2, <1>2, <1>3, <1>4
    <3> HIDE DEF new
    <3>3. ASSUME NEW v \in 1..Len(new) PROVE new[v].taskId = i /\ new[v].updatedAt = v
      <4>1. CASE v \in 1..Len(table[i])
        BY <4>1, <3>1, <3>2
      <4>2. CASE v = Len(table[i]) + 1
        BY <4>2, <3>2
      <4> QED BY <4>1, <4>2, <3>2, <1>2
    <3> QED BY <2>2, <3>2, <3>3, <1>2
  <2> QED BY <2>1, <2>2
<1>7. NumbersHold'
  BY <1>1, <1>2, <1>3, <1>4, TableShape DEF TableInv, NumbersHold, Task
<1>8. Shows(table', Committed(NoDialog, i, row, by))
  <2> DEFINE new == Append(table[i], row)
             card == Committed(NoDialog, i, row, by)
  <2>1. card.task = i /\ card.row = row
    BY DEF Committed
  <2>2. table'[i] = new /\ Len(new) = Len(table[i]) + 1 /\ new[Len(table[i]) + 1] = row
    BY <1>2, <1>3, <1>4
  <2> HIDE DEF new, card
  <2>3. Shows(table', card)
    BY <2>1, <2>2, <1>2, <1>4 DEF Shows
  <2> QED BY <2>3 DEF card
<1>9. \A card : Shows(table, card) => Shows(table', card)
  BY <1>2, <1>4, <1>5, ShowsMore
<1> QED BY <1>2, <1>3, <1>4, <1>5, <1>6, <1>7, <1>8, <1>9 DEF Task
-----------------------------------------------------------------------------
(***************************************************************************)
(* The table                                                               *)
(***************************************************************************)

LEMMA TableInit == Init => TableInv
<1> SUFFICES ASSUME Init PROVE TableInv
  OBVIOUS
<1>1. TableTypes
  BY IdleType, EmptySeq DEF Init, TableTypes
<1>2. Len(table) = 0 /\ Len(lastSent) = 0 /\ taskCounter = 0
  BY DEF Init
<1>3. \A c \in Call : calls[c].step = "idle"
  BY IdleType DEF Init
<1>4. RowsHold /\ NumbersHold
  BY <1>2 DEF RowsHold, NumbersHold, Task
<1>5. LockHolds /\ CommitsHold /\ HandOffsHold
  BY <1>3 DEF LockHolds, CommitsHold, HandOffsHold, At, Init
<1> QED BY <1>1, <1>4, <1>5 DEF TableInv

\* What a step of one call has to show for the invariant to hold after it.
LEMMA CallStep ==
    ASSUME TableInv, NEW c \in Call, NEW s \in CallState, Becomes(c, s),
           table' \in Seq(Seq(Row)), lastSent' \in Seq(Nat), taskCounter' \in Nat,
           Grown(table, table'), RowsHold', NumbersHold',
           s.step = "open" =>
              s.number = taskCounter' + 1 /\ \A other \in Call : ~At(other, "open"),
           taskCounter' = taskCounter \/ At(c, "open"),
           s.step = "committed" => Shows(table', s),
           s.step = "committed" /\ s.by # NoUser =>
              s.row.assignee \in SharesChannel[s.by] \ {s.by} /\ s.row.updatedAt >= 2,
           s.step = "handed off" => Given(table', s),
           woken' \subseteq HandedOffCall, \A w \in woken' : Given(table', w)
    PROVE  TableInv'
<1>1. /\ calls' \in [Call -> CallState] /\ calls'[c] = s
      /\ \A other \in Call : other # c => calls'[other] = calls[other]
  BY BecomesMeans DEF TableInv, TableTypes
<1>2. TableTypes'
  BY <1>1 DEF TableTypes
<1>3. table \in Seq(Seq(Row))
  BY DEF TableInv, TableTypes
<1>4. LockHolds'
  <2> SUFFICES ASSUME NEW b \in Call, calls'[b].step = "open"
               PROVE  /\ calls'[b].number = taskCounter' + 1
                      /\ \A other \in Call : calls'[other].step = "open" => other = b
    BY DEF LockHolds, At
  <2>1. CASE b = c
    BY <2>1, <1>1 DEF At
  <2>2. CASE b # c
    <3>1. calls'[b] = calls[b] /\ At(b, "open")
      BY <2>2, <1>1 DEF At
    <3>2. /\ calls[b].number = taskCounter + 1
          /\ \A other \in Call : At(other, "open") => other = b
      BY <3>1 DEF TableInv, LockHolds
    <3>3. taskCounter' = taskCounter /\ s.step # "open"
      BY <3>1, <3>2, <2>2
    <3> QED BY <3>1, <3>2, <3>3, <1>1 DEF At
  <2> QED BY <2>1, <2>2
<1>5. CommitsHold'
  <2> SUFFICES ASSUME NEW b \in Call, calls'[b].step = "committed"
               PROVE  Shows(table', calls'[b])
    BY DEF CommitsHold, At
  <2>1. CASE b = c
    BY <2>1, <1>1
  <2>2. CASE b # c
    <3>1. Shows(table, calls[b]) /\ calls'[b] = calls[b]
      BY <2>2, <1>1 DEF At, TableInv, CommitsHold
    <3> QED BY <3>1, <1>3, ShowsMore
  <2> QED BY <2>1, <2>2
<1>6. ASSUME NEW b \in Call, calls'[b].step = "handed off" PROVE Given(table', calls'[b])
  <2>1. CASE b = c
    BY <2>1, <1>1, <1>6
  <2>2. CASE b # c
    <3>1. Given(table, calls[b]) /\ calls'[b] = calls[b]
      BY <2>2, <1>1, <1>6 DEF At, TableInv, HandOffsHold
    <3> QED BY <3>1, <1>3, GivenMore
  <2> QED BY <2>1, <2>2
<1>7. ASSUME NEW b \in Call, calls'[b].step = "committed", calls'[b].by # NoUser
      PROVE  /\ calls'[b].row.assignee \in SharesChannel[calls'[b].by] \ {calls'[b].by}
             /\ calls'[b].row.updatedAt >= 2
  <2>1. CASE b = c
    BY <2>1, <1>1, <1>7
  <2>2. CASE b # c
    BY <2>2, <1>1, <1>7 DEF At, TableInv, HandOffsHold
  <2> QED BY <2>1, <2>2
<1>8. HandOffsHold'
  BY <1>6, <1>7 DEF HandOffsHold, At
<1> QED BY <1>2, <1>4, <1>5, <1>8 DEF TableInv

LEMMA GrownRefl == \A t \in Seq(Seq(Row)) : Grown(t, t)
<1> SUFFICES ASSUME NEW t \in Seq(Seq(Row)) PROVE Grown(t, t)
  OBVIOUS
<1>1. \A i \in 1..Len(t) : Len(t[i]) \in Nat
  OBVIOUS
<1> QED BY <1>1 DEF Grown

\* A call that only ends, answers or turns to the next stage: nothing else moves.
LEMMA QuietStep ==
    ASSUME TableInv, NEW c \in Call, NEW s \in CallState, Becomes(c, s),
           UNCHANGED <<taskCounter, table, lastSent>>,
           s.step \in {"idle", "answering"},
           woken' \subseteq HandedOffCall, \A w \in woken' : Given(table, w)
    PROVE  TableInv'
<1>1. table \in Seq(Seq(Row)) /\ lastSent \in Seq(Nat) /\ taskCounter \in Nat
  BY DEF TableInv, TableTypes
<1>2. RowsHold' /\ NumbersHold'
  BY DEF TableInv, RowsHold, NumbersHold, Task
<1>3. Grown(table, table')
  BY <1>1, GrownRefl
<1> QED BY <1>1, <1>2, <1>3, CallStep

LEMMA WokenKept ==
    ASSUME TableInv, UNCHANGED woken, table' \in Seq(Seq(Row)), Grown(table, table')
    PROVE  woken' \subseteq HandedOffCall /\ \A w \in woken' : Given(table', w)
BY GivenMore DEF TableInv, TableTypes, HandOffsHold

LEMMA BeginTable ==
    ASSUME TableInv, NEW c \in Call, NEW d \in 0..MaxDialogs, NEW u \in User,
           NEW a \in Named, Begin(c, d, u, a), UNCHANGED <<database, lastSent, woken>>
    PROVE  TableInv'
<1>1. table \in Seq(Seq(Row)) /\ lastSent \in Seq(Nat) /\ taskCounter \in Nat
  BY DEF TableInv, TableTypes
<1> DEFINE s == Open(d, u, a, taskCounter + 1)
<1>2. s \in CallState /\ s.step = "open" /\ s.number = taskCounter + 1
  <2>1. taskCounter + 1 \in Nat
    BY <1>1
  <2> QED BY <2>1, OpenType
<1>3. Becomes(c, s) /\ \A other \in Call : ~At(other, "open")
  BY DEF Begin
<1>4. RowsHold' /\ NumbersHold'
  BY DEF TableInv, RowsHold, NumbersHold, Task, database
<1>5. Grown(table, table') /\ UNCHANGED <<taskCounter, table, lastSent, woken>>
  BY <1>1, GrownRefl DEF database
<1> HIDE DEF s
<1> QED BY <1>1, <1>2, <1>3, <1>4, <1>5, CallStep, WokenKept

LEMMA CommitTable ==
    ASSUME TableInv, NEW c \in Call, Commit(c) \/ CommitUnheard(c)
    PROVE  TableInv'
<1>1. At(c, "open") /\ Insert(calls[c]) /\ UNCHANGED woken
  BY DEF Commit, CommitUnheard
<1>2. /\ table' \in Seq(Seq(Row)) /\ lastSent' \in Seq(Nat) /\ taskCounter' \in Nat
      /\ Grown(table, table') /\ Len(table') = Len(table) + 1
      /\ table'[Len(table) + 1] = <<NewRow(calls[c])>>
      /\ RowsHold' /\ NumbersHold'
      /\ NewRow(calls[c]) \in Row /\ NewRow(calls[c]).updatedAt = 1
  BY <1>1, InsertGrows
<1>3. woken' \subseteq HandedOffCall /\ \A w \in woken' : Given(table', w)
  BY <1>1, <1>2, WokenKept
<1>4. calls[c].dialog \in 0..MaxDialogs /\ Len(table) \in Nat
  BY <1>1, CallFields, TableShape DEF OpenCall, TableInv, TableTypes, At
<1>5. CASE Commit(c)
  <2> DEFINE row == NewRow(calls[c])
             s == Committed(calls[c].dialog, Len(table) + 1, row, NoUser)
  <2>1. /\ s \in CallState /\ s.step = "committed" /\ s.by = NoUser
        /\ s.task = Len(table) + 1 /\ s.row = row
    <3>1. row \in Row /\ Len(table) + 1 \in Nat /\ NoUser \in AI \cup {NoUser}
      BY <1>2, <1>4
    <3> HIDE DEF row
    <3> QED BY <3>1, <1>4, CommittedType
  <2>2. Becomes(c, s)
    BY <1>5 DEF Commit
  <2>3. row.updatedAt = 1 /\ table'[Len(table) + 1] = <<row>>
    BY <1>2
  <2> HIDE DEF s, row
  <2>4. Shows(table', s)
    BY <2>1, <2>3, <1>2, <1>4 DEF Shows
  <2> QED BY <2>1, <2>2, <2>4, <1>1, <1>2, <1>3, CallStep
<1>6. CASE CommitUnheard(c)
  <2> DEFINE s == Answering(calls[c].dialog, FALSE)
  <2>1. s \in CallState /\ s.step \in {"idle", "answering"} /\ Becomes(c, s)
    BY <1>4, <1>6, AnsweringType DEF CommitUnheard
  <2> HIDE DEF s
  <2> QED BY <2>1, <1>1, <1>2, <1>3, CallStep
<1> QED BY <1>5, <1>6

LEMMA CurrentMeans ==
    ASSUME TableInv, NEW i \in Task
    PROVE  /\ Current(i) = table[i][Len(table[i])] /\ Current(i) \in Row
           /\ Current(i).taskId = i /\ Current(i).updatedAt = Len(table[i])
           /\ Len(table[i]) \in Nat /\ Len(table[i]) >= 1
<1>1. /\ table[i] \in Seq(Row) /\ Len(table[i]) \in Nat /\ Len(table[i]) >= 1
      /\ \A v \in 1..Len(table[i]) : table[i][v] \in Row
  BY TableShape
<1>2. Current(i) = table[i][Len(table[i])] /\ Len(table[i]) \in 1..Len(table[i])
  BY <1>1 DEF Current, Last
<1> QED BY <1>1, <1>2 DEF TableInv, RowsHold

\* What a write makes of a row.
LEMMA WriteTable ==
    ASSUME TableInv, NEW c \in Call, NEW i \in Task, NEW row \in Row, NEW by \in AI \cup {NoUser},
           Write(c, i, row, by), row.taskId = i, row.updatedAt = Len(table[i]) + 1,
           by # NoUser => row.assignee \in SharesChannel[by] \ {by}
    PROVE  TableInv'
<1>1. /\ table' \in Seq(Seq(Row)) /\ Grown(table, table') /\ RowsHold' /\ NumbersHold'
      /\ Shows(table', Committed(NoDialog, i, row, by))
  BY WriteGrows
<1>2. UNCHANGED <<taskCounter, lastSent, woken>> /\ ~At(c, "open")
  BY DEF Write, At
<1>3. lastSent \in Seq(Nat) /\ taskCounter \in Nat
  BY DEF TableInv, TableTypes
<1> DEFINE s == Committed(NoDialog, i, row, by)
<1>4. /\ s \in CallState /\ s.step = "committed" /\ s.row = row /\ s.by = by
  <2>1. NoDialog \in 0..MaxDialogs /\ i \in Nat
    BY BoundAssumption DEF NoDialog, Task
  <2> QED BY <2>1, CommittedType
<1>5. Becomes(c, s) /\ Shows(table', s)
  BY <1>1 DEF Write
<1>6. row.updatedAt >= 2
  BY CurrentMeans
<1> HIDE DEF s
<1> QED BY <1>1, <1>2, <1>3, <1>4, <1>5, <1>6, CallStep, WokenKept

\* The next version of a row.
LEMMA VersionType ==
    ASSUME NEW r \in Row
    PROVE  /\ r.updatedAt \in Nat
           /\ \A t \in Column :
                 LET row == [r EXCEPT !.status = t, !.updatedAt = @ + 1]
                 IN  /\ row \in Row /\ row.taskId = r.taskId
                     /\ row.updatedAt = r.updatedAt + 1
           /\ \A a \in AI :
                 LET row == [r EXCEPT !.assignee = a, !.isAITask = TRUE, !.updatedAt = @ + 1]
                 IN  /\ row \in Row /\ row.taskId = r.taskId /\ row.assignee = a
                     /\ row.updatedAt = r.updatedAt + 1
<1>1. r.updatedAt + 1 \in Nat
  BY DEF Row
<1>2. ASSUME NEW t \in Column
      PROVE  LET row == [r EXCEPT !.status = t, !.updatedAt = @ + 1]
             IN  /\ row \in Row /\ row.taskId = r.taskId
                 /\ row.updatedAt = r.updatedAt + 1
  BY <1>1 DEF Row
<1>3. ASSUME NEW a \in AI
      PROVE  LET row == [r EXCEPT !.assignee = a, !.isAITask = TRUE, !.updatedAt = @ + 1]
             IN  /\ row \in Row /\ row.taskId = r.taskId /\ row.assignee = a
                 /\ row.updatedAt = r.updatedAt + 1
  <2>1. a \in User \cup {NoUser}
    BY DEF User
  <2> QED BY <1>1, <2>1 DEF Row
<1> QED BY <1>2, <1>3 DEF Row

LEMMA UpdateStatusTable ==
    ASSUME TableInv, NEW c \in Call, NEW i \in Task, NEW status \in Column,
           UpdateStatus(c, i, status)
    PROVE  TableInv'
<1> DEFINE row == [Current(i) EXCEPT !.status = status, !.updatedAt = @ + 1]
<1>1. /\ Current(i) \in Row /\ Current(i).taskId = i
      /\ Current(i).updatedAt = Len(table[i]) /\ Len(table[i]) \in Nat
  BY CurrentMeans
<1>2. row \in Row /\ row.taskId = i /\ row.updatedAt = Len(table[i]) + 1
  BY <1>1, VersionType
<1>3. Write(c, i, row, NoUser)
  BY DEF UpdateStatus
<1> HIDE DEF row
<1> QED BY <1>2, <1>3, WriteTable

LEMMA AssignTable ==
    ASSUME TableInv, NEW c \in Call, NEW i \in Task, NEW u \in Active, NEW a \in AI,
           Assign(c, i, u, a)
    PROVE  TableInv'
<1> DEFINE row == [Current(i) EXCEPT !.assignee = a, !.isAITask = TRUE, !.updatedAt = @ + 1]
<1>1. /\ Current(i) \in Row /\ Current(i).taskId = i
      /\ Current(i).updatedAt = Len(table[i]) /\ Len(table[i]) \in Nat
  BY CurrentMeans
<1>2. /\ row \in Row /\ row.taskId = i /\ row.updatedAt = Len(table[i]) + 1
      /\ row.assignee = a
  BY <1>1, VersionType
<1>3. Write(c, i, row, u) /\ a \in SharesChannel[u] \ {u} /\ u \in AI
  BY UserAssumption DEF Assign, Resolved
<1> HIDE DEF row
<1> QED BY <1>2, <1>3, WriteTable

LEMMA BroadcastTable ==
    ASSUME TableInv, NEW c \in Call, Broadcast(c)
    PROVE  TableInv'
<1> DEFINE i == calls[c].task
           row == calls[c].row
           by == calls[c].by
<1>1. calls[c] \in CommittedCall /\ Shows(table, calls[c]) /\ At(c, "committed")
  BY CallFields DEF Broadcast, TableInv, TableTypes, CommitsHold, At
<1>2. /\ i \in Task /\ row \in Row /\ by \in AI \cup {NoUser}
      /\ calls[c].dialog \in 0..MaxDialogs
      /\ row.updatedAt \in 1..Len(table[i]) /\ row = table[i][row.updatedAt]
  BY <1>1 DEF CommittedCall, Shows, Task
<1>3. /\ lastSent' = [lastSent EXCEPT ![i] = row.updatedAt]
      /\ UNCHANGED <<taskCounter, table, woken>>
      /\ Becomes(c, IF by # NoUser THEN HandedOff(i, by, row.assignee)
                                   ELSE Answering(calls[c].dialog, TRUE))
  BY DEF Broadcast, database
<1>4. /\ table \in Seq(Seq(Row)) /\ lastSent \in Seq(Nat) /\ taskCounter \in Nat
      /\ Len(lastSent) = Len(table) /\ Len(table) \in Nat /\ Len(table[i]) \in Nat
  BY <1>2, TableShape DEF TableInv, TableTypes
<1>5. row.updatedAt \in Nat /\ row.updatedAt <= Len(table[i])
  BY <1>2, <1>4
<1>6. /\ lastSent' \in Seq(Nat) /\ Len(lastSent') = Len(lastSent)
      /\ \A j \in Task : lastSent'[j] = IF j = i THEN row.updatedAt ELSE lastSent[j]
  BY <1>2, <1>3, <1>4, <1>5, ExceptSeq DEF Task
<1>7. RowsHold'
  BY <1>3 DEF TableInv, RowsHold, Task
<1>8. NumbersHold'
  BY <1>3, <1>4, <1>5, <1>6 DEF TableInv, NumbersHold, Task
<1>9. Grown(table, table')
  BY <1>3, <1>4, GrownRefl
<1>10. woken' \subseteq HandedOffCall /\ \A w \in woken' : Given(table', w)
  BY <1>3, <1>4, <1>9, WokenKept
<1>11. CASE by # NoUser
  <2>1. row.assignee \in SharesChannel[by] \ {by} /\ row.updatedAt >= 2 /\ by \in AI
    BY <1>1, <1>2, <1>11 DEF TableInv, HandOffsHold
  <2>2. row.assignee \in AI
    BY <2>1, ChannelAssumption
  <2> DEFINE s == HandedOff(i, by, row.assignee)
  <2>3. /\ s \in CallState /\ s.step = "handed off"
        /\ s.task = i /\ s.by = by /\ s.target = row.assignee
    <3>1. i \in Nat
      BY <1>2, <1>4 DEF Task
    <3> QED BY <3>1, <2>1, <2>2, HandedOffType DEF HandedOff
  <2>4. Becomes(c, s)
    BY <1>3, <1>11
  <2> HIDE DEF s
  <2>5. row.updatedAt \in 2..Len(table[i])
    BY <2>1, <1>4, <1>5
  <2>6. Given(table, s)
    BY <2>1, <2>3, <2>5, <1>2 DEF Given, Task
  <2> QED BY <2>3, <2>4, <2>6, <1>3, <1>4, <1>6, <1>7, <1>8, <1>9, <1>10, CallStep
<1>12. CASE by = NoUser
  <2> DEFINE s == Answering(calls[c].dialog, TRUE)
  <2>1. s \in CallState /\ s.step \in {"idle", "answering"} /\ Becomes(c, s)
    BY <1>2, <1>3, <1>12, AnsweringType
  <2> HIDE DEF s
  <2> QED BY <2>1, <1>3, <1>4, <1>6, <1>7, <1>8, <1>9, <1>10, CallStep
<1> QED BY <1>11, <1>12

LEMMA EndOfCallTable ==
    ASSUME TableInv, NEW c \in Call, Rollback(c) \/ Wake(c) \/ Answer(c) \/ AnswerLost(c)
    PROVE  TableInv'
<1>1. table \in Seq(Seq(Row)) /\ woken \subseteq HandedOffCall
        /\ \A w \in woken : Given(table, w)
  BY DEF TableInv, TableTypes, HandOffsHold
<1>2. UNCHANGED <<taskCounter, table, lastSent>>
  BY DEF Rollback, Wake, Answer, AnswerLost, database
<1>3. Idle \in CallState /\ Idle.step = "idle"
  BY IdleType
<1>4. CASE Rollback(c)
  <2>1. calls[c].dialog \in 0..MaxDialogs
    BY <1>4, CallFields DEF OpenCall, TableInv, TableTypes, At, Rollback
  <2> DEFINE s == Answering(calls[c].dialog, FALSE)
  <2>2. s \in CallState /\ s.step \in {"idle", "answering"} /\ Becomes(c, s)
        /\ UNCHANGED woken
    BY <2>1, <1>4, AnsweringType DEF Rollback
  <2> HIDE DEF s
  <2> QED BY <2>2, <1>1, <1>2, QuietStep
<1>5. CASE Wake(c)
  <2>1. calls[c] \in HandedOffCall /\ Given(table, calls[c])
    BY <1>5, CallFields DEF TableInv, TableTypes, HandOffsHold, At, Wake
  <2>2. Becomes(c, Idle) /\ woken' \in {woken, woken \cup {calls[c]}}
    BY <1>5 DEF Wake
  <2>3. woken' \subseteq HandedOffCall /\ \A w \in woken' : Given(table, w)
    BY <2>1, <2>2, <1>1
  <2> QED BY <2>2, <2>3, <1>2, <1>3, QuietStep
<1>6. CASE Answer(c) \/ AnswerLost(c)
  <2>1. Becomes(c, Idle) /\ UNCHANGED woken
    BY <1>6 DEF Answer, AnswerLost
  <2> QED BY <2>1, <1>1, <1>2, <1>3, QuietStep
<1> QED BY <1>4, <1>5, <1>6

LEMMA RestartTable ==
    ASSUME TableInv, Restart
    PROVE  TableInv'
<1>1. /\ calls' = [c \in Call |-> Idle]
      /\ UNCHANGED <<table, taskCounter, lastSent, woken>>
  BY DEF Restart, ConnectionLost
<1>2. calls' \in [Call -> CallState] /\ \A c \in Call : calls'[c].step = "idle"
  BY <1>1, IdleType
<1>3. TableTypes'
  BY <1>1, <1>2 DEF TableInv, TableTypes
<1>4. RowsHold' /\ NumbersHold'
  BY <1>1 DEF TableInv, RowsHold, NumbersHold, Task
<1>5. LockHolds' /\ CommitsHold'
  BY <1>2 DEF LockHolds, CommitsHold, At
<1>6. HandOffsHold'
  BY <1>1, <1>2 DEF TableInv, HandOffsHold, At
<1> QED BY <1>3, <1>4, <1>5, <1>6 DEF TableInv

\* The steps of the browser, the network and the dialog leave the table alone.
LEMMA TableFrame ==
    ASSUME TableInv, UNCHANGED <<taskCounter, table, calls, lastSent, woken>>
    PROVE  TableInv'
<1>1. TableTypes'
  BY DEF TableInv, TableTypes
<1>2. RowsHold' /\ NumbersHold'
  BY DEF TableInv, RowsHold, NumbersHold, Task
<1>3. LockHolds' /\ CommitsHold' /\ HandOffsHold'
  BY DEF TableInv, LockHolds, CommitsHold, HandOffsHold, At
<1> QED BY <1>1, <1>2, <1>3 DEF TableInv

LEMMA TableNext == TableInv /\ DialogTypes /\ [Next]_vars => TableInv'
<1> SUFFICES ASSUME TableInv, DialogTypes, [Next]_vars PROVE TableInv'
  OBVIOUS
<1>1. ASSUME NEW c \in Call, NEW u \in Active, NEW a \in Named, CreateByTool(c, u, a)
      PROVE  TableInv'
  <2>1. NoDialog \in 0..MaxDialogs /\ u \in User
    BY UserAssumption, BoundAssumption DEF NoDialog, User
  <2> QED BY <2>1, <1>1, BeginTable DEF CreateByTool
<1>2. ASSUME NEW c \in Call, NEW a \in Named, Submit(c, a) PROVE TableInv'
  <2>1. dialogs \in 0..MaxDialogs /\ Viewer \in User
    BY UserAssumption DEF User, DialogTypes
  <2> QED BY <2>1, <1>2, BeginTable DEF Submit
<1>3. ASSUME NEW c \in Call, Commit(c) \/ CommitUnheard(c) PROVE TableInv'
  BY <1>3, CommitTable
<1>4. ASSUME NEW c \in Call, NEW i \in Task, NEW t \in Column, UpdateStatus(c, i, t)
      PROVE  TableInv'
  BY <1>4, UpdateStatusTable
<1>5. ASSUME NEW c \in Call, NEW i \in Task, NEW u \in Active, NEW a \in AI, Assign(c, i, u, a)
      PROVE  TableInv'
  BY <1>5, AssignTable
<1>6. ASSUME NEW c \in Call, Broadcast(c) PROVE TableInv'
  BY <1>6, BroadcastTable
<1>7. ASSUME NEW c \in Call, Rollback(c) \/ Wake(c) \/ Answer(c) \/ AnswerLost(c)
      PROVE  TableInv'
  BY <1>7, EndOfCallTable
<1>8. CASE Restart
  BY <1>8, RestartTable
<1>9. CASE OpenDialog \/ CloseDialog \/ PageReads \/ PageArrives \/ Leave \/ Connect
             \/ Disconnect \/ Receive \/ UNCHANGED vars
  BY <1>9, TableFrame
  DEF OpenDialog, CloseDialog, PageReads, PageArrives, Leave, Connect, Disconnect,
      ConnectionLost, Receive, vars, database, service
<1> QED BY <1>1, <1>2, <1>3, <1>4, <1>5, <1>6, <1>7, <1>8, <1>9 DEF Next
-----------------------------------------------------------------------------
(***************************************************************************)
(* The dialogs                                                             *)
(***************************************************************************)

\* No call of a dialog has opened a transaction.
NoneOpened ==
    \A c \in Call : calls'[c].step = "open" =>
        \/ calls'[c].dialog = NoDialog
        \/ calls[c].step = "open" /\ calls'[c].dialog = calls[c].dialog

LEMMA NoneOpenedMeans ==
    ASSUME NoneOpened, NEW d \in 1..MaxDialogs, Pending(d)'
    PROVE  Pending(d)
<1>1. PICK c \in Call : calls'[c].step = "open" /\ calls'[c].dialog = d
  BY DEF Pending, At
<1>2. d # NoDialog
  BY BoundAssumption DEF NoDialog
<1> QED BY <1>1, <1>2 DEF NoneOpened, Pending, At

\* A call that goes on to a stage that is not an open transaction.
LEMMA StageOpensNone ==
    ASSUME TableInv, NEW c \in Call, NEW s \in CallState, Becomes(c, s), s.step # "open"
    PROVE  NoneOpened
BY BecomesMeans DEF TableInv, TableTypes, NoneOpened

LEMMA DialogFacts ==
    ASSUME DialogInv, NEW d \in 1..MaxDialogs
    PROVE  /\ made[d] \in Nat /\ failed[d] \in Nat /\ d \in Nat /\ dialogs \in Nat
           /\ d # NoDialog
BY BoundAssumption DEF DialogInv, DialogTypes, NoDialog

\* The steps that leave the form alone.
LEMMA FormFrame ==
    ASSUME DialogInv, TableInv', NoneOpened, UNCHANGED form
    PROVE  DialogInv'
<1>1. UNCHANGED <<dialog, dialogs, made, failed>>
  BY DEF form
<1>2. DialogTypes'
  BY <1>1 DEF DialogInv, DialogTypes
<1>3. ASSUME NEW d \in 1..MaxDialogs
      PROVE  made'[d] + (IF Pending(d)' THEN 1 ELSE 0)
                <= failed'[d] + (IF Ready(d)' THEN 0 ELSE 1)
  <2>1. Pending(d)' => Pending(d)
    BY NoneOpenedMeans
  <2>2. Ready(d)' <=> Ready(d)
    BY <1>1 DEF Ready
  <2>3. made[d] + (IF Pending(d) THEN 1 ELSE 0) <= failed[d] + (IF Ready(d) THEN 0 ELSE 1)
    BY DEF DialogInv, AttemptsHold
  <2> QED BY <2>1, <2>2, <2>3, <1>1, DialogFacts
<1>4. \A c \in Call : At(c, "open")' => calls'[c].dialog <= dialogs'
  BY <1>1 DEF NoneOpened, DialogInv, AttemptsHold, DialogTypes, At, NoDialog
<1> QED BY <1>1, <1>2, <1>3, <1>4 DEF DialogInv, AttemptsHold

\* The dialog goes away.
LEMMA FormCloses ==
    ASSUME DialogInv, TableInv', NoneOpened, dialog' = NoDialogOpen,
           UNCHANGED <<dialogs, made, failed>>
    PROVE  DialogInv'
<1>1. DialogTypes' /\ dialog'.submitting = NoDialog /\ ~dialog'.open
  BY BoundAssumption DEF DialogInv, DialogTypes, NoDialogOpen, NoDialog
<1>2. ASSUME NEW d \in 1..MaxDialogs
      PROVE  made'[d] + (IF Pending(d)' THEN 1 ELSE 0)
                <= failed'[d] + (IF Ready(d)' THEN 0 ELSE 1)
  <2>1. Pending(d)' => Pending(d)
    BY NoneOpenedMeans
  <2>2. ~Ready(d)'
    BY <1>1 DEF Ready
  <2>3. made[d] + (IF Pending(d) THEN 1 ELSE 0) <= failed[d] + (IF Ready(d) THEN 0 ELSE 1)
    BY DEF DialogInv, AttemptsHold
  <2> QED BY <2>1, <2>2, <2>3, DialogFacts
<1>3. \A c \in Call : At(c, "open")' => calls'[c].dialog <= dialogs'
  BY DEF NoneOpened, DialogInv, AttemptsHold, DialogTypes, At, NoDialog
<1>4. \A d \in 1..MaxDialogs : d > dialogs' => made'[d] = 0
  BY DEF DialogInv, AttemptsHold
<1> QED BY <1>1, <1>2, <1>3, <1>4 DEF DialogInv, AttemptsHold

\* An error is shown, or there is no form to show it.
LEMMA FormErrs ==
    ASSUME DialogInv, TableInv', NoneOpened, NEW e, ShowError(e),
           UNCHANGED <<dialogs, made>>
    PROVE  DialogInv'
<1>1. CASE ~(dialog.open /\ dialog.submitting = e /\ e # NoDialog)
  BY <1>1, FormFrame DEF ShowError, form
<1>2. CASE dialog.open /\ dialog.submitting = e /\ e # NoDialog
  <2>1. e = dialogs /\ dialogs \in 1..MaxDialogs
    BY <1>2 DEF DialogInv, AttemptsHold, DialogTypes
  <2>2. /\ dialog' = [dialog EXCEPT !.submitting = NoDialog]
        /\ failed' = [failed EXCEPT ![e] = @ + 1]
    BY <1>2 DEF ShowError
  <2>3. /\ dialog'.open /\ dialog'.submitting = NoDialog
        /\ dialog' \in [open : BOOLEAN, submitting : 0..MaxDialogs]
    <3>1. dialog \in [open : BOOLEAN, submitting : 0..MaxDialogs]
      BY DEF DialogInv, DialogTypes
    <3>2. NoDialog \in 0..MaxDialogs
      BY BoundAssumption DEF NoDialog
    <3> QED BY <1>2, <2>2, <3>1, <3>2
  <2>4. failed' \in [1..MaxDialogs -> Nat]
    BY <2>1, <2>2 DEF DialogInv, DialogTypes
  <2>5. ASSUME NEW d \in 1..MaxDialogs
        PROVE  made'[d] + (IF Pending(d)' THEN 1 ELSE 0)
                  <= failed'[d] + (IF Ready(d)' THEN 0 ELSE 1)
    <3>1. Pending(d)' => Pending(d)
      BY NoneOpenedMeans
    <3>2. made[d] + (IF Pending(d) THEN 1 ELSE 0) <= failed[d] + (IF Ready(d) THEN 0 ELSE 1)
      BY DEF DialogInv, AttemptsHold
    <3>3. CASE d = dialogs
      <4>1. failed'[d] = failed[d] + 1 /\ ~Ready(d)
        BY <3>3, <1>2, <2>1, <2>2 DEF Ready, DialogInv, DialogTypes
      <4> QED BY <4>1, <3>1, <3>2, DialogFacts
    <3>4. CASE d # dialogs
      <4>1. failed'[d] = failed[d] /\ ~Ready(d) /\ ~Ready(d)'
        BY <3>4, <2>1, <2>2 DEF Ready, DialogInv, DialogTypes
      <4> QED BY <4>1, <3>1, <3>2, DialogFacts
    <3> QED BY <3>3, <3>4
  <2>6. \A c \in Call : At(c, "open")' => calls'[c].dialog <= dialogs'
    BY DEF NoneOpened, DialogInv, AttemptsHold, DialogTypes, At, NoDialog
  <2> QED BY <2>1, <2>3, <2>4, <2>5, <2>6 DEF DialogInv, AttemptsHold, DialogTypes
<1> QED BY <1>1, <1>2

LEMMA FormOpens ==
    ASSUME DialogInv, TableInv', OpenDialog
    PROVE  DialogInv'
<1>1. /\ dialog' = [open |-> TRUE, submitting |-> NoDialog] /\ dialogs' = dialogs + 1
      /\ UNCHANGED <<made, failed, calls>> /\ ~dialog.open /\ dialogs' \in 1..MaxDialogs
  BY BoundAssumption DEF OpenDialog, service, DialogInv, DialogTypes
<1>2. DialogTypes' /\ dialog'.open /\ dialog'.submitting = NoDialog
  BY <1>1, BoundAssumption DEF DialogInv, DialogTypes, NoDialog
<1>3. \A c \in Call : At(c, "open") => calls[c].dialog \in Nat /\ calls[c].dialog <= dialogs
  <2> SUFFICES ASSUME NEW c \in Call, At(c, "open")
               PROVE  calls[c].dialog \in Nat /\ calls[c].dialog <= dialogs
    OBVIOUS
  <2>1. calls[c] \in OpenCall
    BY CallFields DEF At, DialogInv, TableInv, TableTypes
  <2>2. calls[c].dialog \in 0..MaxDialogs
    BY <2>1 DEF OpenCall
  <2> QED BY <2>2 DEF DialogInv, AttemptsHold
<1>4. ASSUME NEW d \in 1..MaxDialogs
      PROVE  made'[d] + (IF Pending(d)' THEN 1 ELSE 0)
                <= failed'[d] + (IF Ready(d)' THEN 0 ELSE 1)
  <2>1. Pending(d)' <=> Pending(d)
    BY <1>1 DEF Pending, At
  <2>2. made[d] + (IF Pending(d) THEN 1 ELSE 0) <= failed[d] + (IF Ready(d) THEN 0 ELSE 1)
    BY DEF DialogInv, AttemptsHold
  <2>3. CASE d = dialogs + 1
    <3>1. made[d] = 0 /\ ~Pending(d)
      BY <2>3, <1>3, DialogFacts DEF DialogInv, AttemptsHold, Pending
    <3> QED BY <3>1, <2>1, <1>1, DialogFacts
  <2>4. CASE d # dialogs + 1
    <3>1. ~Ready(d) /\ ~Ready(d)'
      BY <2>4, <1>1 DEF Ready
    <3> QED BY <3>1, <2>1, <2>2, <1>1
  <2> QED BY <2>3, <2>4
<1>5. \A c \in Call : At(c, "open")' => calls'[c].dialog <= dialogs'
  BY <1>1, <1>3 DEF At, DialogInv, DialogTypes
<1>6. \A d \in 1..MaxDialogs : d > dialogs' => made'[d] = 0
  BY <1>1, DialogFacts DEF DialogInv, AttemptsHold
<1> QED BY <1>1, <1>2, <1>4, <1>5, <1>6 DEF DialogInv, AttemptsHold

LEMMA FormSubmits ==
    ASSUME DialogInv, TableInv', NEW c \in Call, NEW a \in Named, Submit(c, a)
    PROVE  DialogInv'
<1>1. dialogs \in 1..MaxDialogs /\ dialog.open /\ dialog.submitting # dialogs
  BY DEF Submit, DialogInv, AttemptsHold, DialogTypes
<1>2. /\ dialog' = [dialog EXCEPT !.submitting = dialogs]
      /\ UNCHANGED <<dialogs, made, failed>>
  BY DEF Submit
<1>3. DialogTypes' /\ dialog'.open /\ dialog'.submitting = dialogs
  BY <1>1, <1>2 DEF DialogInv, DialogTypes
<1> DEFINE s == Open(dialogs, Viewer, a, taskCounter + 1)
<1>4. s.step = "open" /\ s.dialog = dialogs
  BY DEF Open
<1>5. Becomes(c, s) /\ \A b \in Call : ~At(b, "open")
  BY DEF Submit, Begin
<1> HIDE DEF s
<1>6. calls'[c] = s /\ \A b \in Call : b # c => calls'[b] = calls[b]
  BY <1>5 DEF Becomes, DialogInv, TableInv, TableTypes
<1>7. \A b \in Call : At(b, "open")' => b = c
  BY <1>5, <1>6 DEF At
<1>8. ASSUME NEW d \in 1..MaxDialogs
      PROVE  made'[d] + (IF Pending(d)' THEN 1 ELSE 0)
                <= failed'[d] + (IF Ready(d)' THEN 0 ELSE 1)
  <2>1. ~Pending(d) /\ (Pending(d)' => d = dialogs)
    BY <1>4, <1>5, <1>6, <1>7 DEF Pending, At
  <2>2. made[d] + (IF Pending(d) THEN 1 ELSE 0) <= failed[d] + (IF Ready(d) THEN 0 ELSE 1)
    BY DEF DialogInv, AttemptsHold
  <2>3. (Ready(d) <=> d = dialogs) /\ ~Ready(d)'
    BY <1>1, <1>2, <1>3 DEF Ready
  <2> QED BY <2>1, <2>2, <2>3, <1>2, DialogFacts
<1>9. \A b \in Call : At(b, "open")' => calls'[b].dialog <= dialogs'
  BY <1>1, <1>2, <1>4, <1>6, <1>7
<1>10. \A d \in 1..MaxDialogs : d > dialogs' => made'[d] = 0
  BY <1>2 DEF DialogInv, AttemptsHold
<1> QED BY <1>1, <1>2, <1>3, <1>8, <1>9, <1>10 DEF DialogInv, AttemptsHold

LEMMA FormCommits ==
    ASSUME DialogInv, TableInv', NEW c \in Call, Commit(c) \/ CommitUnheard(c)
    PROVE  DialogInv'
<1>1. /\ UNCHANGED <<dialog, dialogs, failed>> /\ At(c, "open") /\ Made(calls[c].dialog)
  BY DEF Commit, CommitUnheard, Insert
<1>2. calls[c].dialog \in 0..MaxDialogs /\ calls[c].dialog <= dialogs
  BY <1>1, CallFields DEF OpenCall, At, DialogInv, AttemptsHold, TableInv, TableTypes
<1> DEFINE own == calls[c].dialog
<1>3. /\ made' \in [1..MaxDialogs -> Nat]
      /\ \A d \in 1..MaxDialogs : made'[d] = IF d = own THEN made[d] + 1 ELSE made[d]
  BY <1>1, <1>2 DEF Made, NoDialog, DialogInv, DialogTypes
<1>4. DialogTypes'
  BY <1>1, <1>3 DEF DialogInv, DialogTypes
<1>5. \A b \in Call : calls'[b].step # "open"
  <2>1. PICK s \in CallState : Becomes(c, s) /\ s.step # "open"
    <3>1. CASE Commit(c)
      <4>1. calls'[c].step = "committed" /\ calls'[c] \in CallState
        BY <3>1 DEF Commit, Becomes, Committed, DialogInv, TableInv, TableTypes
      <4>2. calls' = [calls EXCEPT ![c] = calls'[c]]
        BY <3>1 DEF Commit, Becomes, DialogInv, TableInv, TableTypes
      <4> QED BY <4>1, <4>2 DEF Becomes
    <3>2. CASE CommitUnheard(c)
      BY <3>2, <1>2, AnsweringType DEF CommitUnheard
    <3> QED BY <3>1, <3>2
  <2>2. calls'[c] = s /\ \A b \in Call : b # c => calls'[b] = calls[b]
    BY <2>1, BecomesMeans DEF DialogInv, TableInv, TableTypes
  <2> QED BY <1>1, <2>1, <2>2 DEF DialogInv, TableInv, LockHolds, At
<1>6. ASSUME NEW d \in 1..MaxDialogs
      PROVE  made'[d] + (IF Pending(d)' THEN 1 ELSE 0)
                <= failed'[d] + (IF Ready(d)' THEN 0 ELSE 1)
  <2>1. ~Pending(d)' /\ (d = own => Pending(d))
    BY <1>1, <1>5 DEF Pending, At
  <2>2. made[d] + (IF Pending(d) THEN 1 ELSE 0) <= failed[d] + (IF Ready(d) THEN 0 ELSE 1)
    BY DEF DialogInv, AttemptsHold
  <2>3. Ready(d) <=> Ready(d)'
    BY <1>1 DEF Ready
  <2> QED BY <2>1, <2>2, <2>3, <1>1, <1>3, DialogFacts
<1>7. \A d \in 1..MaxDialogs : d > dialogs' => made'[d] = 0
  BY <1>1, <1>2, <1>3, DialogFacts DEF DialogInv, AttemptsHold
<1> QED BY <1>1, <1>4, <1>5, <1>6, <1>7 DEF DialogInv, AttemptsHold, At

LEMMA DialogInit == Init => DialogInv
<1> SUFFICES ASSUME Init PROVE DialogInv
  OBVIOUS
<1>1. TableInv
  BY TableInit
<1>2. /\ dialog = NoDialogOpen /\ dialogs = 0 /\ 0 \in 0..MaxDialogs
      /\ \A d \in 1..MaxDialogs : made[d] = 0 /\ failed[d] = 0
  BY BoundAssumption DEF Init
<1>3. DialogTypes
  BY <1>2 DEF DialogTypes, Init, NoDialogOpen, NoDialog
<1>4. \A c \in Call : calls[c].step = "idle"
  BY IdleType DEF Init
<1>5. AttemptsHold
  BY <1>2, <1>4 DEF AttemptsHold, Pending, Ready, At, NoDialogOpen
<1> QED BY <1>1, <1>3, <1>5 DEF DialogInv

LEMMA DialogNext == DialogInv /\ [Next]_vars => DialogInv'
<1> SUFFICES ASSUME DialogInv, [Next]_vars PROVE DialogInv'
  OBVIOUS
<1>1. TableInv /\ TableInv'
  BY TableNext DEF DialogInv
<1>2. ASSUME NEW c \in Call, NEW u \in Active, NEW a \in Named, CreateByTool(c, u, a)
      PROVE  DialogInv'
  <2>1. Becomes(c, Open(NoDialog, u, a, taskCounter + 1)) /\ UNCHANGED form
    BY <1>2 DEF CreateByTool, Begin
  <2>2. NoneOpened
    BY <2>1, <1>1 DEF Becomes, NoneOpened, Open, TableInv, TableTypes
  <2> QED BY <2>1, <2>2, <1>1, FormFrame
<1>3. ASSUME NEW c \in Call, NEW a \in Named, Submit(c, a) PROVE DialogInv'
  BY <1>1, <1>3, FormSubmits
<1>4. ASSUME NEW c \in Call, Commit(c) \/ CommitUnheard(c) PROVE DialogInv'
  BY <1>1, <1>4, FormCommits
<1>5. ASSUME NEW c \in Call, Rollback(c) PROVE DialogInv'
  <2>1. calls[c].dialog \in 0..MaxDialogs
    BY <1>1, <1>5, CallFields DEF OpenCall, TableInv, TableTypes, At, Rollback
  <2>2. NoneOpened
    BY <2>1, <1>1, <1>5, AnsweringType, StageOpensNone DEF Rollback
  <2> QED BY <2>2, <1>1, <1>5, FormFrame DEF Rollback
<1>6. ASSUME NEW c \in Call, NEW i \in Task, NEW row, NEW by, Write(c, i, row, by)
      PROVE  DialogInv'
  <2>1. Becomes(c, Committed(NoDialog, i, row, by)) /\ UNCHANGED form
    BY <1>6 DEF Write
  <2>2. NoneOpened
    BY <2>1, <1>1 DEF Becomes, NoneOpened, Committed, TableInv, TableTypes
  <2> QED BY <2>1, <2>2, <1>1, FormFrame
<1>7. ASSUME NEW c \in Call, NEW i \in Task, NEW t \in Column, UpdateStatus(c, i, t)
      PROVE  DialogInv'
  BY <1>6, <1>7 DEF UpdateStatus
<1>8. ASSUME NEW c \in Call, NEW i \in Task, NEW u \in Active, NEW a \in AI, Assign(c, i, u, a)
      PROVE  DialogInv'
  BY <1>6, <1>8 DEF Assign
<1>9. ASSUME NEW c \in Call, Broadcast(c) PROVE DialogInv'
  <2>1. NoneOpened
    BY <1>1, <1>9
    DEF Broadcast, Becomes, NoneOpened, HandedOff, Answering, Idle, TableInv, TableTypes
  <2> QED BY <2>1, <1>1, <1>9, FormFrame DEF Broadcast
<1>10. ASSUME NEW c \in Call, Becomes(c, Idle) PROVE NoneOpened
  BY <1>1, <1>10, IdleType, StageOpensNone
<1>11. ASSUME NEW c \in Call, Wake(c) PROVE DialogInv'
  BY <1>1, <1>10, <1>11, FormFrame DEF Wake
<1>12. ASSUME NEW c \in Call, Answer(c) PROVE DialogInv'
  <2>1. NoneOpened /\ UNCHANGED <<dialogs, made>>
    BY <1>10, <1>12 DEF Answer
  <2>2. \/ dialog' = NoDialogOpen /\ UNCHANGED failed
        \/ ShowError(calls[c].dialog)
    BY <1>12 DEF Answer
  <2> QED BY <2>1, <2>2, <1>1, FormCloses, FormErrs
<1>13. ASSUME NEW c \in Call, AnswerLost(c) PROVE DialogInv'
  <2>1. NoneOpened /\ UNCHANGED <<dialogs, made>> /\ ShowError(calls[c].dialog)
    BY <1>10, <1>13 DEF AnswerLost
  <2> QED BY <2>1, <1>1, FormErrs
<1>14. ASSUME UNCHANGED calls PROVE NoneOpened
  BY <1>14 DEF NoneOpened
<1>15. CASE OpenDialog
  BY <1>1, <1>15, FormOpens
<1>16. CASE CloseDialog \/ Leave
  BY <1>1, <1>14, <1>16, FormCloses DEF CloseDialog, Leave, service
<1>17. CASE Restart
  <2>1. NoneOpened /\ UNCHANGED <<dialogs, made>> /\ ShowError(dialog.submitting)
    BY <1>17, IdleType DEF Restart, ConnectionLost, NoneOpened
  <2> QED BY <2>1, <1>1, FormErrs
<1>18. CASE PageReads \/ PageArrives \/ Connect \/ Disconnect \/ Receive \/ UNCHANGED vars
  <2>1. UNCHANGED calls /\ UNCHANGED form
    BY <1>18 DEF PageReads, PageArrives, Connect, Disconnect, ConnectionLost, Receive,
                 vars, service, form
  <2> QED BY <2>1, <1>1, <1>14, FormFrame
<1> QED BY <1>2, <1>3, <1>4, <1>5, <1>7, <1>8, <1>9, <1>11, <1>12, <1>13, <1>15, <1>16,
           <1>17, <1>18 DEF Next
-----------------------------------------------------------------------------
(***************************************************************************)
(* The board                                                               *)
(***************************************************************************)

LEMMA FunctionIsSeq ==
    ASSUME NEW S, NEW n \in Nat, NEW f \in [1..n -> S]
    PROVE  f \in Seq(S) /\ Len(f) = n
OBVIOUS

LEMMA CardsGrow ==
    ASSUME NEW t \in Seq(Seq(Row)), NEW u \in Seq(Seq(Row)), Grown(t, u),
           NEW cards, CardsOf(t, cards)
    PROVE  CardsOf(u, cards)
BY ShowsMore DEF CardsOf

LEMMA BoardInit == Init => BoardInv
<1> SUFFICES ASSUME Init PROVE BoardInv
  OBVIOUS
<1>1. DialogInv
  BY DialogInit
<1>2. /\ page = [read |-> FALSE, rows |-> <<>>] /\ mounted = FALSE /\ board = <<>>
      /\ connected = FALSE /\ down = <<>> /\ missed = {}
  BY DEF Init, NoPage
<1>3. ScreenTypes
  BY <1>2, EmptySeq DEF ScreenTypes
<1>4. EventsHold /\ ScreenHolds /\ FreshHolds
  BY <1>2 DEF EventsHold, ScreenHolds, FreshHolds, CardsOf
<1> QED BY <1>1, <1>3, <1>4 DEF BoardInv

\* The service makes versions; the browser does not know of them yet.
LEMMA BoardFrame ==
    ASSUME BoardInv, DialogInv', UNCHANGED <<screen, wire>>,
           Grown(table, table'), \A i \in Task : lastSent'[i] = lastSent[i],
           \A i \in 1..Len(table') :
              \/ i \in Task /\ table'[i] = table[i]
              \/ lastSent'[i] # Len(table'[i])
    PROVE  BoardInv'
<1>1. UNCHANGED <<page, mounted, board, connected, down, missed>>
  BY DEF screen, wire
<1>2. ScreenTypes'
  BY <1>1 DEF BoardInv, ScreenTypes
<1>3. table \in Seq(Seq(Row)) /\ table' \in Seq(Seq(Row))
  BY DEF BoardInv, DialogInv, TableInv, TableTypes
<1>4. EventsHold'
  <2>1. ~connected' => down' = <<>>
    BY <1>1 DEF BoardInv, EventsHold
  <2>2. ASSUME NEW k \in 1..Len(down)
        PROVE  /\ Shows(table', down[k])
               /\ \/ \E j \in 1..Len(down) : j > k /\ down[j].task = down[k].task
                  \/ down[k].row.updatedAt = lastSent'[down[k].task]
    <3>1. /\ Shows(table, down[k])
          /\ \/ \E j \in 1..Len(down) : j > k /\ down[j].task = down[k].task
             \/ down[k].row.updatedAt = lastSent[down[k].task]
      BY DEF BoardInv, EventsHold
    <3>2. down[k].task \in Task
      BY <3>1 DEF Shows, Task
    <3> QED BY <3>1, <3>2, <1>3, ShowsMore
  <2> QED BY <2>1, <2>2, <1>1 DEF EventsHold
<1>5. ScreenHolds'
  BY <1>1, <1>3, CardsGrow DEF BoardInv, ScreenHolds
<1>6. FreshHolds'
  <2> SUFFICES ASSUME mounted' \/ page'.read, NEW i \in 1..Len(table'),
                      lastSent'[i] = Len(table'[i])
               PROVE  \/ i \in missed'
                      \/ \E k \in 1..Len(down') : down'[k].task = i
                      \/ \E k \in 1..Len(Shown') :
                            Shown'[k].task = i /\ Shown'[k].row.updatedAt = Len(table'[i])
    BY DEF FreshHolds, Task
  <2>1. i \in Task /\ table'[i] = table[i] /\ lastSent[i] = Len(table[i])
    OBVIOUS
  <2>2. \/ i \in missed
        \/ \E k \in 1..Len(down) : down[k].task = i
        \/ \E k \in 1..Len(Shown) :
              Shown[k].task = i /\ Shown[k].row.updatedAt = Len(table[i])
    BY <2>1, <1>1 DEF BoardInv, FreshHolds
  <2>3. Shown' = Shown
    BY <1>1 DEF Shown
  <2> QED BY <2>1, <2>2, <2>3, <1>1
<1> QED BY <1>2, <1>4, <1>5, <1>6 DEF BoardInv

\* The calls and the dialog move, the table stays.
LEMMA BoardStill ==
    ASSUME BoardInv, DialogInv', UNCHANGED <<screen, wire, table, lastSent>>
    PROVE  BoardInv'
<1>1. table \in Seq(Seq(Row))
  BY DEF BoardInv, DialogInv, TableInv, TableTypes
<1>2. Grown(table, table')
  BY <1>1, GrownRefl
<1> QED BY <1>2, BoardFrame DEF Task

LEMMA BoardInserts ==
    ASSUME BoardInv, DialogInv', NEW c \in Call, Commit(c) \/ CommitUnheard(c)
    PROVE  BoardInv'
<1>1. At(c, "open") /\ Insert(calls[c]) /\ UNCHANGED <<screen, wire>>
  BY DEF Commit, CommitUnheard
<1>2. TableInv
  BY DEF BoardInv, DialogInv
<1>3. /\ Grown(table, table') /\ Len(table') = Len(table) + 1 /\ Len(table) \in Nat
      /\ \A i \in Task : table'[i] = table[i] /\ lastSent'[i] = lastSent[i]
      /\ Len(table'[Len(table) + 1]) = 1 /\ lastSent'[Len(table) + 1] = 0
  BY <1>1, <1>2, InsertGrows, TableShape
<1>4. \A i \in 1..Len(table') : i \in Task \/ i = Len(table) + 1
  BY <1>3 DEF Task
<1>5. \A i \in 1..Len(table') :
         (i \in Task /\ table'[i] = table[i]) \/ lastSent'[i] # Len(table'[i])
  <2> TAKE i \in 1..Len(table')
  <2>1. CASE i \in Task
    BY <2>1, <1>3
  <2>2. CASE i = Len(table) + 1
    <3>1. lastSent'[i] = 0 /\ Len(table'[i]) = 1
      BY <2>2, <1>3
    <3> QED BY <3>1
  <2> QED BY <2>1, <2>2, <1>4
<1> QED BY <1>1, <1>3, <1>5, BoardFrame

LEMMA BoardWrites ==
    ASSUME BoardInv, DialogInv', NEW c \in Call, NEW i \in Task, NEW row \in Row, NEW by,
           Write(c, i, row, by), row.taskId = i, row.updatedAt = Len(table[i]) + 1
    PROVE  BoardInv'
<1>1. UNCHANGED <<screen, wire, lastSent>>
  BY DEF Write
<1>2. TableInv
  BY DEF BoardInv, DialogInv
<1>3. /\ Grown(table, table') /\ Len(table') = Len(table)
      /\ \A j \in Task : j # i => table'[j] = table[j]
      /\ Len(table'[i]) = Len(table[i]) + 1
  BY <1>2, WriteGrows
<1>4. lastSent[i] \in Nat /\ Len(table[i]) \in Nat /\ lastSent[i] <= Len(table[i])
  BY <1>2, TableShape DEF TableInv, NumbersHold
<1>5. lastSent'[i] # Len(table'[i])
  BY <1>1, <1>3, <1>4
<1>6. \A j \in 1..Len(table') : j \in Task
  BY <1>3 DEF Task
<1> QED BY <1>1, <1>3, <1>5, <1>6, BoardFrame

LEMMA BoardBroadcasts ==
    ASSUME BoardInv, DialogInv', NEW c \in Call, Broadcast(c)
    PROVE  BoardInv'
<1> DEFINE t == calls[c].task
           row == calls[c].row
           e == [task |-> t, row |-> row]
<1>1. TableInv
  BY DEF BoardInv, DialogInv
<1>2. calls[c] \in CommittedCall /\ Shows(table, calls[c])
  BY <1>1, CallFields DEF Broadcast, TableInv, TableTypes, CommitsHold, At
<1>3. t \in Task /\ t \in Nat /\ row \in Row /\ Shows(table, e) /\ e.task = t /\ e.row = row
  BY <1>2 DEF CommittedCall, Shows, Task
<1>4. e \in Card
  BY <1>3 DEF Card
<1>5. /\ lastSent' = [lastSent EXCEPT ![t] = row.updatedAt]
      /\ down' = IF connected THEN Append(down, e) ELSE down
      /\ missed' = Heard(t)
      /\ UNCHANGED <<table, page, mounted, board, connected>>
  BY DEF Broadcast, database, screen
<1>6. \A j \in Task : lastSent'[j] = IF j = t THEN row.updatedAt ELSE lastSent[j]
  BY <1>1, <1>3, <1>5, TableShape DEF TableInv, TableTypes, Task
<1>7. down \in Seq(Card) /\ Len(down) \in Nat /\ missed \subseteq Nat
  BY DEF BoardInv, ScreenTypes
<1> HIDE DEF t, row, e
<1>8. /\ down' \in Seq(Card) /\ Len(down) <= Len(down') /\ Len(down') \in Nat
      /\ \A k \in 1..Len(down) : down'[k] = down[k]
      /\ \A k \in 1..Len(down') : k > Len(down) => down'[k] = e
      /\ connected => Len(down') = Len(down) + 1 /\ down'[Len(down) + 1] = e
  BY <1>4, <1>5, <1>7, AppendProperties
<1>9. ScreenTypes'
  BY <1>3, <1>5, <1>7, <1>8 DEF BoardInv, ScreenTypes, Heard
<1>10. EventsHold'
  <2>1. ~connected' => down' = <<>>
    BY <1>5 DEF BoardInv, EventsHold
  <2>2. ASSUME NEW k \in 1..Len(down')
        PROVE  /\ Shows(table', down'[k])
               /\ \/ \E j \in 1..Len(down') : j > k /\ down'[j].task = down'[k].task
                  \/ down'[k].row.updatedAt = lastSent'[down'[k].task]
    <3>1. CASE k \in 1..Len(down)
      <4>1. /\ Shows(table, down[k])
            /\ \/ \E j \in 1..Len(down) : j > k /\ down[j].task = down[k].task
               \/ down[k].row.updatedAt = lastSent[down[k].task]
        BY <3>1 DEF BoardInv, EventsHold
      <4>2. down[k].task \in Task
        BY <4>1 DEF Shows, Task
      <4>3. CASE \E j \in 1..Len(down) : j > k /\ down[j].task = down[k].task
        <5>1. \E j \in 1..Len(down') : j > k /\ down'[j].task = down'[k].task
          BY <3>1, <4>3, <1>7, <1>8
        <5> QED BY <3>1, <4>1, <5>1, <1>5, <1>8
      <4>4. CASE down[k].row.updatedAt = lastSent[down[k].task] /\ down[k].task # t
        BY <3>1, <4>1, <4>2, <4>4, <1>5, <1>6, <1>8
      <4>5. CASE down[k].task = t
        <5>1. connected
          BY <3>1 DEF BoardInv, EventsHold
        <5>2. \E j \in 1..Len(down') : j > k /\ down'[j].task = down'[k].task
          BY <3>1, <4>5, <5>1, <1>3, <1>7, <1>8
        <5> QED BY <3>1, <4>1, <5>2, <1>5, <1>8
      <4> QED BY <4>1, <4>3, <4>4, <4>5
    <3>2. CASE k \notin 1..Len(down)
      <4>1. down'[k] = e
        BY <3>2, <1>7, <1>8
      <4> QED BY <4>1, <1>3, <1>5, <1>6
    <3> QED BY <3>1, <3>2
  <2> QED BY <2>1, <2>2 DEF EventsHold
<1>11. ScreenHolds'
  BY <1>5 DEF BoardInv, ScreenHolds
<1>12. FreshHolds'
  <2> SUFFICES ASSUME mounted' \/ page'.read, NEW i \in Task,
                      lastSent'[i] = Len(table'[i])
               PROVE  \/ i \in missed'
                      \/ \E k \in 1..Len(down') : down'[k].task = i
                      \/ \E k \in 1..Len(Shown') :
                            Shown'[k].task = i /\ Shown'[k].row.updatedAt = Len(table'[i])
    BY <1>5 DEF FreshHolds, Task
  <2>1. CASE i = t
    <3>1. CASE connected
      <4>1. Len(down) + 1 \in 1..Len(down') /\ down'[Len(down) + 1].task = i
        BY <2>1, <3>1, <1>3, <1>7, <1>8
      <4> QED BY <4>1
    <3>2. CASE ~connected
      BY <2>1, <3>2, <1>5 DEF Heard
    <3> QED BY <3>1, <3>2
  <2>2. CASE i # t
    <3>1. lastSent[i] = Len(table[i])
      BY <2>2, <1>5, <1>6
    <3>2. \/ i \in missed
          \/ \E k \in 1..Len(down) : down[k].task = i
          \/ \E k \in 1..Len(Shown) :
                Shown[k].task = i /\ Shown[k].row.updatedAt = Len(table[i])
      BY <3>1, <1>5 DEF BoardInv, FreshHolds
    <3>3. Shown' = Shown /\ missed \subseteq missed'
      BY <1>5 DEF Shown, Heard
    <3>4. (\E k \in 1..Len(down) : down[k].task = i)
             => \E k \in 1..Len(down') : down'[k].task = i
      BY <1>7, <1>8
    <3> QED BY <3>2, <3>3, <3>4, <1>5
  <2> QED BY <2>1, <2>2
<1> QED BY <1>9, <1>10, <1>11, <1>12 DEF BoardInv

LEMMA PageIsRead ==
    ASSUME BoardInv, DialogInv', PageReads
    PROVE  BoardInv'
<1> DEFINE rows == [i \in Task |-> [task |-> i, row |-> Current(i)]]
<1>1. /\ page' = [read |-> TRUE, rows |-> rows] /\ missed' = {} /\ ~mounted
      /\ UNCHANGED <<table, lastSent, mounted, board, connected, down>>
  BY DEF PageReads, database, service
<1>2. TableInv
  BY DEF BoardInv, DialogInv
<1>3. ASSUME NEW i \in Task
      PROVE  /\ rows[i] \in Card /\ rows[i].task = i
             /\ rows[i].row.updatedAt = Len(table[i]) /\ Shows(table, rows[i])
  <2>1. /\ Current(i) \in Row /\ Current(i) = table[i][Len(table[i])]
        /\ Current(i).updatedAt = Len(table[i]) /\ Len(table[i]) \in 1..Len(table[i])
    BY <1>2, CurrentMeans
  <2>2. rows[i] = [task |-> i, row |-> Current(i)] /\ i \in Nat /\ i \in 1..Len(table)
    BY DEF Task
  <2> HIDE DEF rows
  <2> QED BY <2>1, <2>2 DEF Card, Shows
<1>4. rows \in Seq(Card) /\ Len(rows) = Len(table)
  <2>1. Len(table) \in Nat
    BY <1>2, TableShape
  <2>2. rows \in [1..Len(table) -> Card]
    BY <1>3 DEF Task
  <2> HIDE DEF rows
  <2> QED BY <2>1, <2>2, FunctionIsSeq
<1> HIDE DEF rows
<1>5. ScreenTypes'
  BY <1>1, <1>4 DEF BoardInv, ScreenTypes
<1>6. EventsHold'
  BY <1>1 DEF BoardInv, EventsHold
<1>7. page'.rows = rows /\ page'.read
  BY <1>1
<1>8. CardsOf(table, rows)
  BY <1>3, <1>4 DEF CardsOf, Task
<1>9. ScreenHolds'
  BY <1>1, <1>7, <1>8 DEF BoardInv, ScreenHolds
<1>10. FreshHolds'
  BY <1>1, <1>3, <1>4, <1>7 DEF FreshHolds, Shown, Task
<1> QED BY <1>5, <1>6, <1>9, <1>10 DEF BoardInv

\* The rows of the page become the cards of the board.
LEMMA PageMounts ==
    ASSUME BoardInv, DialogInv', PageArrives
    PROVE  BoardInv'
<1>1. /\ page.read /\ mounted' = TRUE /\ board' = page.rows
      /\ page' = [read |-> FALSE, rows |-> <<>>]
      /\ UNCHANGED <<table, lastSent, connected, down, missed>>
  BY DEF PageArrives, NoPage, database, service, wire
<1>2. ScreenTypes'
  BY <1>1, EmptySeq DEF BoardInv, ScreenTypes
<1>3. EventsHold'
  BY <1>1 DEF BoardInv, EventsHold
<1>4. CardsOf(table, page'.rows)
  BY <1>1 DEF CardsOf
<1>5. ScreenHolds'
  BY <1>1, <1>4 DEF BoardInv, ScreenHolds
<1>6. Shown' = Shown
  BY <1>1 DEF BoardInv, ScreenHolds, Shown
<1>7. FreshHolds'
  BY <1>1, <1>6 DEF BoardInv, FreshHolds, Task
<1> QED BY <1>2, <1>3, <1>5, <1>7 DEF BoardInv

LEMMA BoardIsLeft ==
    ASSUME BoardInv, DialogInv', Leave
    PROVE  BoardInv'
<1>1. /\ mounted /\ mounted' = FALSE /\ board' = <<>> /\ missed' = {}
      /\ UNCHANGED <<table, lastSent, page, connected, down>>
  BY DEF Leave, database, service
<1>2. ScreenTypes'
  BY <1>1, EmptySeq DEF BoardInv, ScreenTypes
<1>3. EventsHold'
  BY <1>1 DEF BoardInv, EventsHold
<1>4. ScreenHolds'
  BY <1>1 DEF BoardInv, ScreenHolds, CardsOf
<1>5. FreshHolds'
  BY <1>1 DEF BoardInv, ScreenHolds, FreshHolds
<1> QED BY <1>2, <1>3, <1>4, <1>5 DEF BoardInv

LEMMA SocketConnects ==
    ASSUME BoardInv, DialogInv', Connect
    PROVE  BoardInv'
<1>1. /\ connected' = TRUE
      /\ UNCHANGED <<table, lastSent, page, mounted, board, down, missed>>
  BY DEF Connect, database, service, screen
<1>2. ScreenTypes'
  BY <1>1 DEF BoardInv, ScreenTypes
<1>3. EventsHold'
  BY <1>1 DEF BoardInv, EventsHold
<1>4. ScreenHolds'
  BY <1>1 DEF BoardInv, ScreenHolds
<1>5. FreshHolds'
  BY <1>1 DEF BoardInv, FreshHolds, Task, Shown
<1> QED BY <1>2, <1>3, <1>4, <1>5 DEF BoardInv

\* The events that were on their way are missed.
LEMMA EventsAreLost ==
    ASSUME BoardInv, DialogInv', ConnectionLost
    PROVE  BoardInv'
<1>1. /\ connected' = FALSE /\ down' = <<>>
      /\ missed' = IF mounted \/ page.read THEN missed \cup {e.task : e \in Range(down)}
                                           ELSE missed
      /\ UNCHANGED <<table, lastSent, page, mounted, board>>
  BY DEF ConnectionLost, screen
<1>2. down \in Seq(Card) /\ Range(down) = {down[k] : k \in 1..Len(down)}
  BY DEF BoardInv, ScreenTypes, Range
<1>3. \A e \in Range(down) : e.task \in Nat
  <2>1. \A k \in 1..Len(down) : down[k] \in Card
    BY <1>2
  <2> QED BY <2>1, <1>2 DEF Card
<1>4. ScreenTypes'
  BY <1>1, <1>3, EmptySeq DEF BoardInv, ScreenTypes
<1>5. EventsHold'
  BY <1>1 DEF EventsHold
<1>6. ScreenHolds'
  BY <1>1 DEF BoardInv, ScreenHolds
<1>7. FreshHolds'
  <2> SUFFICES ASSUME mounted \/ page.read, NEW i \in Task, lastSent[i] = Len(table[i])
               PROVE  \/ i \in missed'
                      \/ \E k \in 1..Len(Shown) :
                            Shown[k].task = i /\ Shown[k].row.updatedAt = Len(table[i])
    BY <1>1 DEF FreshHolds, Task, Shown
  <2>1. \/ i \in missed
        \/ \E k \in 1..Len(down) : down[k].task = i
        \/ \E k \in 1..Len(Shown) :
              Shown[k].task = i /\ Shown[k].row.updatedAt = Len(table[i])
    BY DEF BoardInv, FreshHolds
  <2> QED BY <2>1, <1>1, <1>2
<1> QED BY <1>4, <1>5, <1>6, <1>7 DEF BoardInv

\* handleTaskUpdated keeps a list of cards, puts the new card in it and leaves the
\* cards of the other tasks.
LEMMA MergedMeans ==
    ASSUME NEW t, NEW cards \in Seq(Card), CardsOf(t, cards), NEW card \in Card, Shows(t, card)
    PROVE  /\ Merged(cards, card) \in Seq(Card) /\ CardsOf(t, Merged(cards, card))
           /\ \E k \in 1..Len(Merged(cards, card)) : Merged(cards, card)[k] = card
           /\ \A k \in 1..Len(cards) : cards[k].task # card.task =>
                 \E j \in 1..Len(Merged(cards, card)) : Merged(cards, card)[j] = cards[k]
<1> DEFINE new == Merged(cards, card)
<1>1. Len(cards) \in Nat /\ \A k \in 1..Len(cards) : cards[k] \in Card
  OBVIOUS
<1>2. CASE \E i \in 1..Len(cards) : cards[i].task = card.task
  <2>1. new = [i \in 1..Len(cards) |-> IF cards[i].task = card.task THEN card ELSE cards[i]]
    BY <1>2 DEF Merged
  <2>2. new \in [1..Len(cards) -> Card]
    BY <2>1, <1>1
  <2>3. /\ new \in Seq(Card) /\ Len(new) = Len(cards)
        /\ \A k \in 1..Len(cards) :
              new[k] = IF cards[k].task = card.task THEN card ELSE cards[k]
    BY <2>1, <2>2, <1>1, FunctionIsSeq
  <2> HIDE DEF new
  <2>4. CardsOf(t, new)
    BY <2>3 DEF CardsOf
  <2>5. \E k \in 1..Len(new) : new[k] = card
    BY <2>3, <1>2
  <2> QED BY <2>3, <2>4, <2>5 DEF new
<1>3. CASE ~\E i \in 1..Len(cards) : cards[i].task = card.task
  <2>1. new = Append(cards, card)
    BY <1>3 DEF Merged
  <2>2. /\ new \in Seq(Card) /\ Len(new) = Len(cards) + 1 /\ new[Len(cards) + 1] = card
        /\ \A k \in 1..Len(cards) : new[k] = cards[k]
    BY <2>1, AppendProperties
  <2> HIDE DEF new
  <2>3. \A k \in 1..Len(new) : k \in 1..Len(cards) \/ k = Len(cards) + 1
    BY <2>2, <1>1
  <2>4. \A k \in 1..Len(new) : Shows(t, new[k])
    BY <2>2, <2>3 DEF CardsOf
  <2>5. \A j, k \in 1..Len(new) : new[j].task = new[k].task => j = k
    BY <2>2, <2>3, <1>3 DEF CardsOf
  <2>6. \E k \in 1..Len(new) : new[k] = card
    BY <2>2, <1>1
  <2>7. \A k \in 1..Len(cards) : k \in 1..Len(new)
    BY <2>2, <1>1
  <2> QED BY <2>2, <2>4, <2>5, <2>6, <2>7 DEF new, CardsOf
<1> QED BY <1>2, <1>3

LEMMA EventArrives ==
    ASSUME BoardInv, DialogInv', Receive
    PROVE  BoardInv'
<1> DEFINE e == Head(down)
<1>1. down \in Seq(Card) /\ down # <<>> /\ down' = Tail(down)
      /\ UNCHANGED <<table, lastSent, page, mounted, connected>>
  BY DEF Receive, BoardInv, ScreenTypes, database, service
<1>2. /\ Len(down) \in Nat /\ Len(down) >= 1 /\ e = down[1] /\ e \in Card
      /\ down' \in Seq(Card) /\ Len(down') = Len(down) - 1
      /\ \A k \in 1..Len(down') : down'[k] = down[k + 1]
  BY <1>1, EmptySeq, HeadTailProperties
<1>3. /\ board' = IF mounted THEN Merged(board, e) ELSE board
      /\ missed' = IF ~mounted /\ page.read THEN missed \cup {e.task} ELSE missed
  BY DEF Receive
<1> HIDE DEF e
<1>4. Shows(table, e) /\ e.task \in Task /\ e.task \in Nat
  <2>1. Shows(table, down[1])
    BY <1>2 DEF BoardInv, EventsHold
  <2> QED BY <2>1, <1>2 DEF Shows, Task, Card
<1>5. board \in Seq(Card) /\ CardsOf(table, board)
  BY DEF BoardInv, ScreenTypes, ScreenHolds
<1>6. /\ Merged(board, e) \in Seq(Card) /\ CardsOf(table, Merged(board, e))
      /\ \E k \in 1..Len(Merged(board, e)) : Merged(board, e)[k] = e
      /\ \A k \in 1..Len(board) : board[k].task # e.task =>
            \E j \in 1..Len(Merged(board, e)) : Merged(board, e)[j] = board[k]
  <2>1. e \in Card /\ Shows(table, e)
    BY <1>2, <1>4
  <2> QED BY <2>1, <1>5, MergedMeans, Zenon
<1>7. ScreenTypes'
  BY <1>1, <1>2, <1>3, <1>4, <1>6 DEF BoardInv, ScreenTypes
<1>8. \A k \in 2..Len(down) : k - 1 \in 1..Len(down') /\ down'[k - 1] = down[k]
  BY <1>2
<1>9. EventsHold'
  <2>1. ~connected' => down' = <<>>
    BY <1>1 DEF BoardInv, EventsHold
  <2>2. ASSUME NEW k \in 1..Len(down')
        PROVE  /\ Shows(table', down'[k])
               /\ \/ \E j \in 1..Len(down') : j > k /\ down'[j].task = down'[k].task
                  \/ down'[k].row.updatedAt = lastSent'[down'[k].task]
    <3>1. k + 1 \in 2..Len(down) /\ k + 1 \in 1..Len(down) /\ down'[k] = down[k + 1]
      BY <1>2
    <3>2. /\ Shows(table, down[k + 1])
          /\ \/ \E j \in 1..Len(down) : j > k + 1 /\ down[j].task = down[k + 1].task
             \/ down[k + 1].row.updatedAt = lastSent[down[k + 1].task]
      BY <3>1 DEF BoardInv, EventsHold
    <3>3. ASSUME NEW j \in 1..Len(down), j > k + 1, down[j].task = down[k + 1].task
          PROVE  \E i \in 1..Len(down') : i > k /\ down'[i].task = down'[k].task
      <4>1. j \in 2..Len(down) /\ j - 1 > k
        BY <3>1, <3>3
      <4> QED BY <4>1, <3>1, <3>3, <1>8
    <3> QED BY <3>1, <3>2, <3>3, <1>1
  <2> QED BY <2>1, <2>2 DEF EventsHold
<1>10. ScreenHolds'
  BY <1>1, <1>3, <1>6 DEF BoardInv, ScreenHolds
<1>11. FreshHolds'
  <2> SUFFICES ASSUME mounted \/ page.read, NEW i \in Task, lastSent[i] = Len(table[i])
               PROVE  \/ i \in missed'
                      \/ \E k \in 1..Len(down') : down'[k].task = i
                      \/ \E k \in 1..Len(Shown') :
                            Shown'[k].task = i /\ Shown'[k].row.updatedAt = Len(table[i])
    BY <1>1 DEF FreshHolds, Task
  <2>1. missed \subseteq missed'
    BY <1>3
  <2>2. CASE e.task = i
    <3>1. \/ \E j \in 1..Len(down) : j > 1 /\ down[j].task = i
          \/ e.row.updatedAt = Len(table[i])
      <4>1. 1 \in 1..Len(down)
        BY <1>2
      <4>2. \/ \E j \in 1..Len(down) : j > 1 /\ down[j].task = down[1].task
            \/ down[1].row.updatedAt = lastSent[down[1].task]
        BY <4>1 DEF BoardInv, EventsHold
      <4> QED BY <4>2, <2>2, <1>2
    <3>2. CASE \E j \in 1..Len(down) : j > 1 /\ down[j].task = i
      BY <3>2, <1>2, <1>8
    <3>3. CASE e.row.updatedAt = Len(table[i]) /\ mounted
      <4>1. Shown' = Merged(board, e)
        BY <3>3, <1>1, <1>3 DEF Shown
      <4> QED BY <4>1, <3>3, <2>2, <1>6
    <3>4. CASE ~mounted
      BY <3>4, <2>2, <1>3
    <3> QED BY <3>1, <3>2, <3>3, <3>4
  <2>3. CASE e.task # i
    <3>1. \/ i \in missed
          \/ \E k \in 1..Len(down) : down[k].task = i
          \/ \E k \in 1..Len(Shown) :
                Shown[k].task = i /\ Shown[k].row.updatedAt = Len(table[i])
      BY DEF BoardInv, FreshHolds
    <3>2. ASSUME NEW k \in 1..Len(down), down[k].task = i
          PROVE  \E j \in 1..Len(down') : down'[j].task = i
      <4>1. k \in 2..Len(down)
        BY <3>2, <2>3, <1>2
      <4> QED BY <4>1, <3>2, <1>8
    <3>3. ASSUME NEW k \in 1..Len(Shown), Shown[k].task = i,
                 Shown[k].row.updatedAt = Len(table[i])
          PROVE  \E j \in 1..Len(Shown') :
                    Shown'[j].task = i /\ Shown'[j].row.updatedAt = Len(table[i])
      <4>1. CASE mounted
        <5>1. Shown = board /\ Shown' = Merged(board, e)
          BY <4>1, <1>1, <1>3 DEF Shown
        <5>2. \E j \in 1..Len(Merged(board, e)) : Merged(board, e)[j] = board[k]
          BY <5>1, <3>3, <2>3, <1>6
        <5> QED BY <5>1, <5>2, <3>3
      <4>2. CASE ~mounted
        <5>1. Shown = page.rows /\ Shown' = page.rows
          BY <4>2, <1>1 DEF Shown
        <5> QED BY <5>1, <3>3
      <4> QED BY <4>1, <4>2
    <3> QED BY <3>1, <3>2, <3>3, <2>1
  <2> QED BY <2>2, <2>3
<1> QED BY <1>7, <1>9, <1>10, <1>11 DEF BoardInv

LEMMA BoardNext == BoardInv /\ [Next]_vars => BoardInv'
<1> SUFFICES ASSUME BoardInv, [Next]_vars PROVE BoardInv'
  OBVIOUS
<1>1. TableInv /\ DialogInv'
  BY DialogNext DEF BoardInv, DialogInv
<1>2. ASSUME NEW c \in Call, NEW a \in Named,
             (\E u \in Active : CreateByTool(c, u, a)) \/ Submit(c, a)
      PROVE  BoardInv'
  BY <1>1, <1>2, BoardStill DEF CreateByTool, Submit, database
<1>3. ASSUME NEW c \in Call, Commit(c) \/ CommitUnheard(c) PROVE BoardInv'
  BY <1>1, <1>3, BoardInserts
<1>4. ASSUME NEW c \in Call, NEW i \in Task, NEW t \in Column, UpdateStatus(c, i, t)
      PROVE  BoardInv'
  <2> DEFINE row == [Current(i) EXCEPT !.status = t, !.updatedAt = @ + 1]
  <2>1. row \in Row /\ row.taskId = i /\ row.updatedAt = Len(table[i]) + 1
    <3>1. /\ Current(i) \in Row /\ Current(i).taskId = i
          /\ Current(i).updatedAt = Len(table[i])
      BY <1>1, CurrentMeans
    <3> QED BY <3>1, VersionType
  <2>2. Write(c, i, row, NoUser)
    BY <1>4 DEF UpdateStatus
  <2> HIDE DEF row
  <2> QED BY <1>1, <2>1, <2>2, BoardWrites
<1>5. ASSUME NEW c \in Call, NEW i \in Task, NEW u \in Active, NEW a \in AI, Assign(c, i, u, a)
      PROVE  BoardInv'
  <2> DEFINE row == [Current(i) EXCEPT !.assignee = a, !.isAITask = TRUE, !.updatedAt = @ + 1]
  <2>1. row \in Row /\ row.taskId = i /\ row.updatedAt = Len(table[i]) + 1
    <3>1. /\ Current(i) \in Row /\ Current(i).taskId = i
          /\ Current(i).updatedAt = Len(table[i])
      BY <1>1, CurrentMeans
    <3> QED BY <3>1, VersionType
  <2>2. Write(c, i, row, u)
    BY <1>5 DEF Assign
  <2> HIDE DEF row
  <2> QED BY <1>1, <2>1, <2>2, BoardWrites
<1>6. ASSUME NEW c \in Call, Broadcast(c) PROVE BoardInv'
  BY <1>1, <1>6, BoardBroadcasts
<1>7. ASSUME NEW c \in Call, Rollback(c) \/ Wake(c) \/ Answer(c) \/ AnswerLost(c)
      PROVE  BoardInv'
  BY <1>1, <1>7, BoardStill DEF Rollback, Wake, Answer, AnswerLost, database
<1>8. CASE OpenDialog \/ CloseDialog \/ UNCHANGED vars
  BY <1>1, <1>8, BoardStill DEF OpenDialog, CloseDialog, vars, database, service
<1>9. CASE PageReads
  BY <1>1, <1>9, PageIsRead
<1>10. CASE PageArrives
  BY <1>1, <1>10, PageMounts
<1>11. CASE Leave
  BY <1>1, <1>11, BoardIsLeft
<1>12. CASE Connect
  BY <1>1, <1>12, SocketConnects
<1>13. CASE Disconnect \/ Restart
  BY <1>1, <1>13, EventsAreLost DEF Disconnect, Restart
<1>14. CASE Receive
  BY <1>1, <1>14, EventArrives
<1> QED BY <1>2, <1>3, <1>4, <1>5, <1>6, <1>7, <1>8, <1>9, <1>10, <1>11, <1>12, <1>13, <1>14
        DEF Next

THEOREM BoardInvHolds == Spec => []BoardInv
BY BoardInit, BoardNext, PTL DEF Spec

\* The counters stay within the bounds of the model.
BoundsHold == writes \in 0..MaxCommits /\ drops \in 0..MaxDrops

LEMMA BoundsNext == BoardInv /\ BoundsHold /\ [Next]_vars => BoundsHold'
<1> SUFFICES ASSUME BoardInv, BoundsHold, [Next]_vars PROVE BoundsHold'
  OBVIOUS
<1>1. MaxCommits \in Nat /\ MaxDrops \in Nat /\ Len(table) \in Nat
  BY BoundAssumption, TableShape DEF BoardInv, DialogInv
<1>2. ASSUME NEW c \in Call, NEW i \in Task, NEW row, NEW by, Write(c, i, row, by)
      PROVE  BoundsHold'
  BY <1>1, <1>2 DEF Write, BoundsHold
<1>3. ASSUME NEW c \in Call, NEW a \in Named,
             (\E u \in Active : CreateByTool(c, u, a)) \/ Submit(c, a)
      PROVE  BoundsHold'
  BY <1>3 DEF CreateByTool, Submit, database, BoundsHold
<1>4. ASSUME NEW c \in Call,
             \/ Commit(c) \/ CommitUnheard(c) \/ Rollback(c) \/ Broadcast(c) \/ Wake(c)
             \/ Answer(c) \/ AnswerLost(c)
      PROVE  BoundsHold'
  <2>1. UNCHANGED writes
    BY <1>4 DEF Commit, CommitUnheard, Rollback, Broadcast, Wake, Answer, AnswerLost, database
  <2>2. CASE Commit(c) \/ Rollback(c) \/ Broadcast(c) \/ Wake(c) \/ Answer(c)
    <3>1. UNCHANGED drops
      BY <2>2 DEF Commit, Rollback, Broadcast, Wake, Answer
    <3> QED BY <2>1, <3>1 DEF BoundsHold
  <2>3. CASE CommitUnheard(c) \/ AnswerLost(c)
    <3>1. drops < MaxDrops /\ drops' = drops + 1
      BY <2>3 DEF CommitUnheard, AnswerLost
    <3> QED BY <1>1, <2>1, <3>1 DEF BoundsHold
  <2> QED BY <1>4, <2>2, <2>3
<1>5. ASSUME NEW c \in Call, NEW i \in Task,
             \/ \E t \in Column : UpdateStatus(c, i, t)
             \/ \E u \in Active, a \in AI : Assign(c, i, u, a)
      PROVE  BoundsHold'
  BY <1>2, <1>5 DEF UpdateStatus, Assign
<1>6. CASE OpenDialog \/ CloseDialog \/ PageReads \/ PageArrives \/ Leave \/ Connect
             \/ Receive \/ UNCHANGED vars
  BY <1>6 DEF OpenDialog, CloseDialog, PageReads, PageArrives, Leave, Connect, Receive,
              vars, database, BoundsHold
<1>7. CASE Disconnect \/ Restart
  BY <1>1, <1>7 DEF Disconnect, Restart, ConnectionLost, BoundsHold
<1> QED BY <1>3, <1>4, <1>5, <1>6, <1>7 DEF Next

-----------------------------------------------------------------------------
(***************************************************************************)
(* The properties                                                          *)
(***************************************************************************)

\* The types of TaskBoard, and the bounds of its counters.
THEOREM BoardTypesHold == Spec => []TypeOK
<1>1. Init => BoundsHold
  BY BoundAssumption DEF Init, BoundsHold
<1>2. BoardInv /\ BoundsHold => TypeOK
  <2> SUFFICES ASSUME BoardInv, BoundsHold PROVE TypeOK
    OBVIOUS
  <2>1. \A c \in Call : calls[c].step \in
           {"idle", "open", "committed", "handed off", "answering"}
    BY CallFields DEF BoardInv, DialogInv, TableInv, TableTypes
  <2>2. \A w \in woken : w.by \in AI /\ w.target \in AI
    BY DEF BoardInv, DialogInv, TableInv, TableTypes, HandedOffCall
  <2> QED BY <2>1, <2>2
      DEF BoardInv, DialogInv, TableInv, TableTypes, DialogTypes, ScreenTypes, BoundsHold, TypeOK
<1> QED BY <1>1, <1>2, BoundsNext, BoardInvHolds, PTL DEF Spec

\* DenseIds: the number a transaction writes is the one after the last committed
\* number, because the lock on the workspace row admits one open transaction.
THEOREM NumbersAreDense == Spec => []DenseIds
<1>1. BoardInv => DenseIds
  BY DEF BoardInv, DialogInv, TableInv, RowsHold, NumbersHold, DenseIds
<1> QED BY <1>1, BoardInvHolds, PTL

\* WokenOwnsTask: rows are never taken back, so the version that gave the task to the
\* teammate is there when the wake is emitted, whatever was written meanwhile.
THEOREM WakesFollowHandOffs == Spec => []WokenOwnsTask
<1>1. BoardInv => WokenOwnsTask
  BY DEF BoardInv, DialogInv, TableInv, HandOffsHold, Given, WokenOwnsTask, Task
<1> QED BY <1>1, BoardInvHolds, PTL

\* OneTaskPerAttempt: the guard on a submission under way and the answers that close
\* or fail the form keep each dialog to one task more than the errors it showed.
THEOREM AttemptsAreCounted == Spec => []OneTaskPerAttempt
<1>1. BoardInv => OneTaskPerAttempt
  <2> SUFFICES ASSUME BoardInv, NEW d \in 1..MaxDialogs PROVE made[d] <= 1 + failed[d]
    BY DEF OneTaskPerAttempt
  <2>1. made[d] + (IF Pending(d) THEN 1 ELSE 0) <= failed[d] + (IF Ready(d) THEN 0 ELSE 1)
    BY DEF BoardInv, DialogInv, AttemptsHold
  <2> QED BY <2>1, DialogFacts DEF BoardInv
<1> QED BY <1>1, BoardInvHolds, PTL

\* BoardShowsCommits: the cards of the page, the events and their merge are committed
\* versions of distinct tasks.
THEOREM CardsAreCommits == Spec => []BoardShowsCommits
<1>1. BoardInv => BoardShowsCommits
  <2> SUFFICES ASSUME BoardInv PROVE BoardShowsCommits
    OBVIOUS
  <2>1. CardsOf(table, board)
    BY DEF BoardInv, ScreenHolds
  <2>2. ASSUME NEW k \in 1..Len(board)
        PROVE  board[k].task \in Task /\ board[k].row \in Range(table[board[k].task])
    <3>1. /\ board[k].task \in 1..Len(table)
          /\ board[k].row.updatedAt \in 1..Len(table[board[k].task])
          /\ board[k].row = table[board[k].task][board[k].row.updatedAt]
      BY <2>1 DEF CardsOf, Shows
    <3>2. table[board[k].task] \in Seq(Row)
      BY <3>1, TableShape DEF BoardInv, DialogInv, Task
    <3> QED BY <3>1, <3>2 DEF Range, Task
  <2> QED BY <2>1, <2>2 DEF BoardShowsCommits, CardsOf
<1> QED BY <1>1, BoardInvHolds, PTL

\* StaleOnlyIf: for a task all of whose events were heard and whose last broadcast is
\* its last version, a board at rest shows that version.
THEOREM StaleBoardsAreExplained == Spec => []StaleOnlyIf
<1>1. BoardInv => StaleOnlyIf
  <2> SUFFICES ASSUME BoardInv, mounted, down = <<>>, NEW i \in Task,
                      i \notin missed, lastSent[i] = Len(table[i])
               PROVE  [task |-> i, row |-> Current(i)] \in Range(board)
    BY DEF StaleOnlyIf
  <2>1. PICK k \in 1..Len(board) :
           board[k].task = i /\ board[k].row.updatedAt = Len(table[i])
    BY DEF BoardInv, FreshHolds, Shown
  <2>2. board \in Seq(Card) /\ board[k] \in Card
    BY DEF BoardInv, ScreenTypes
  <2>3. board[k].row = Current(i)
    <3>1. board[k].row = table[i][Len(table[i])]
      BY <2>1 DEF BoardInv, ScreenHolds, CardsOf, Shows
    <3> QED BY <3>1, CurrentMeans DEF BoardInv, DialogInv
  <2>4. board[k] = [task |-> i, row |-> Current(i)]
    BY <2>1, <2>2, <2>3 DEF Card
  <2> QED BY <2>2, <2>4 DEF Range
<1> QED BY <1>1, BoardInvHolds, PTL
=============================================================================
