---------------------------- MODULE TeammatesProofs -----------------------------
(***************************************************************************)
(* The row of an AI colleague and those who write it and look it up, for   *)
(* any fields and any number of requests, loads, seeds and members.        *)
(***************************************************************************)
EXTENDS Teammates, TLAPS

\* A request that has read the row carries the edits of its author and, beside
\* them, what its author saw.
AskOf(ask) ==
    /\ ask \in Ask /\ ask.edited \subseteq ask.fields
    /\ \A f \in ask.fields \ ask.edited : ask.settings[f] = ask.seen[f]

RequestHolds ==
    \A w \in Writer : request[w].at = "read" => row # NoRow /\ AskOf(request[w].ask)

\* What the history says of the row.
RowHolds ==
    /\ off => row # NoRow /\ row.status = "inactive"
    /\ row = NoRow => intended = Default.settings
    /\ row # NoRow => (overwritten \/ row.settings = intended)

\* A message past the check has a sender who was a member; one that wakes found
\* the colleague, which nobody has kept out since before the insert.
MessageHolds ==
    /\ post # "none" => wasMember
    /\ woken => post = "looked up" /\ ~outside
    /\ outside => ~Reachable(row, members)

\* What the seed has done so far is still there if nobody disturbed it.
SeedHolds ==
    /\ seed.at \in {"ais", "users", "members", "complete"} => known
    /\ undisturbed /\ seed.at \in {"users", "members", "complete"} => row = Default
    /\ undisturbed /\ seed.at = "members" => {Person, Agent} \ members \subseteq seed.left
    /\ undisturbed /\ seed.at = "complete" => members = {Person, Agent}

\* What the browser has of the row, unless it has a reason to be wrong.
ListHolds ==
    /\ list = NoRow => dialog = NoForm /\ \A w \in Own : request[w].at = "free"
    /\ loading # NoLoad => list = NoRow
    /\ strays = {} =>
          /\ loading # NoLoad => loading.row = row
          /\ \A v, w \in Own : v # w => request[v].at = "free" \/ request[w].at = "free"
          /\ \A w \in Own : request[w].at = "done" => request[w].row = row
          /\ list # NoRow /\ (\A w \in Own : request[w].at # "done") => list = row

\* The parts of TypeOK that the steps change separately.
RowOK == row \in Row \cup {NoRow} /\ known \in BOOLEAN /\ members \subseteq {Person, Agent}
RequestOK == request \in [Writer -> Request]
LoadOK == loading \in {NoLoad} \cup {LoadOf(r) : r \in Row \cup {NoRow}}
BrowserOK == list \in Row \cup {NoRow} /\ dialog \in Row \cup {NoForm}
SeedOK ==
    /\ seed.at \in {"off", "humans", "ais", "users", "members", "complete"}
    /\ seed.left \subseteq {Person, Agent}
MessageOK ==
    /\ post \in {"none", "checked", "inserted", "looked up"}
    /\ woken \in BOOLEAN /\ wasMember \in BOOLEAN
IntendedOK == intended \in Settings /\ overwritten \in BOOLEAN /\ off \in BOOLEAN
HistoryOK ==
    /\ strays \subseteq {"elsewhere", "lost", "crossed"}
    /\ undisturbed \in BOOLEAN /\ outside \in BOOLEAN /\ writes \in 0..MaxWrites

TeamInv == TypeOK /\ RequestHolds /\ RowHolds /\ MessageHolds /\ SeedHolds /\ ListHolds

-----------------------------------------------------------------------------
(***************************************************************************)
(* Types                                                                   *)
(***************************************************************************)

LEMMA RowType ==
    /\ Default \in Row
    /\ Default.status = "active" /\ Default.settings \in Settings
    /\ \A r \in Row : r.status \in {"active", "inactive"} /\ r.settings \in Settings
    /\ \A r \in Row : r # NoRow /\ r # NoForm
BY NoRowAssumption DEF Default, Row, Settings, Value

LEMMA AskType ==
    ASSUME NEW ask \in Ask
    PROVE  /\ ask.fields \in SUBSET Field /\ ask.settings \in Settings
           /\ ask.status \in {"active", "inactive", Same}
           /\ ask.edited \in SUBSET Field /\ ask.seen \in Settings
BY DEF Ask

LEMMA TypeParts ==
    TypeOK <=> /\ RowOK /\ RequestOK /\ LoadOK /\ BrowserOK
               /\ SeedOK /\ MessageOK /\ IntendedOK /\ HistoryOK
BY DEF TypeOK, RowOK, RequestOK, LoadOK, BrowserOK, SeedOK, MessageOK, IntendedOK, HistoryOK

LEMMA PartsKept ==
    /\ RowOK /\ UNCHANGED <<row, known, members>> => RowOK'
    /\ RequestOK /\ UNCHANGED request => RequestOK'
    /\ LoadOK /\ UNCHANGED loading => LoadOK'
    /\ BrowserOK /\ UNCHANGED <<list, dialog>> => BrowserOK'
    /\ SeedOK /\ UNCHANGED seed => SeedOK'
    /\ MessageOK /\ UNCHANGED <<post, woken, wasMember>> => MessageOK'
    /\ IntendedOK /\ UNCHANGED <<intended, overwritten, off>> => IntendedOK'
    /\ HistoryOK /\ UNCHANGED <<strays, undisturbed, outside, writes>> => HistoryOK'
<1>1. RowOK /\ UNCHANGED <<row, known, members>> => RowOK'
  BY DEF RowOK
<1>2. RequestOK /\ UNCHANGED request => RequestOK'
  BY DEF RequestOK
<1>3. LoadOK /\ UNCHANGED loading => LoadOK'
  BY DEF LoadOK
<1>4. BrowserOK /\ UNCHANGED <<list, dialog>> => BrowserOK'
  BY DEF BrowserOK
<1>5. SeedOK /\ UNCHANGED seed => SeedOK'
  BY DEF SeedOK
<1>6. MessageOK /\ UNCHANGED <<post, woken, wasMember>> => MessageOK'
  BY DEF MessageOK
<1>7. IntendedOK /\ UNCHANGED <<intended, overwritten, off>> => IntendedOK'
  BY DEF IntendedOK
<1>8. HistoryOK /\ UNCHANGED <<strays, undisturbed, outside, writes>> => HistoryOK'
  BY DEF HistoryOK
<1> QED BY <1>1, <1>2, <1>3, <1>4, <1>5, <1>6, <1>7, <1>8

LEMMA TypePartsPrimed ==
    ASSUME RowOK', RequestOK', LoadOK', BrowserOK', SeedOK', MessageOK', IntendedOK', HistoryOK'
    PROVE  TypeOK'
<1>1. (row \in Row \cup {NoRow} /\ known \in BOOLEAN /\ members \subseteq {Person, Agent})'
  BY DEF RowOK
<1>2. (request \in [Writer -> Request])'
  BY DEF RequestOK
<1>3. (list \in Row \cup {NoRow} /\ dialog \in Row \cup {NoForm})'
  BY DEF BrowserOK
<1>4. (loading \in {NoLoad} \cup {LoadOf(r) : r \in Row \cup {NoRow}})'
  BY DEF LoadOK
<1>5. (/\ seed.at \in {"off", "humans", "ais", "users", "members", "complete"}
       /\ seed.left \subseteq {Person, Agent})'
  BY DEF SeedOK
<1>6. (/\ post \in {"none", "checked", "inserted", "looked up"}
       /\ woken \in BOOLEAN /\ wasMember \in BOOLEAN)'
  BY DEF MessageOK
<1>7. (intended \in Settings /\ overwritten \in BOOLEAN /\ off \in BOOLEAN)'
  BY DEF IntendedOK
<1>8. (/\ strays \subseteq {"elsewhere", "lost", "crossed"}
       /\ undisturbed \in BOOLEAN /\ outside \in BOOLEAN /\ writes \in 0..MaxWrites)'
  BY DEF HistoryOK
<1> QED BY <1>1, <1>2, <1>3, <1>4, <1>5, <1>6, <1>7, <1>8, Zenon DEF TypeOK

LEMMA RequestType ==
    ASSUME NEW r \in Request
    PROVE  /\ r.at \in {"free", "failed", "read", "done"}
           /\ r.at = "free" <=> r = Free
           /\ r.at = "failed" <=> r = Failed
           /\ r.at = "read" => r.ask \in Ask /\ r.row \in Row
           /\ r.at = "done" => r.row \in Row
BY DEF Request, Free, Failed, Read, Done

LEMMA RequestsMade ==
    /\ Free \in Request /\ Free.at = "free"
    /\ Failed \in Request /\ Failed.at = "failed"
    /\ \A a \in Ask, r \in Row : /\ Read(a, r) \in Request /\ Read(a, r).at = "read"
                                 /\ Read(a, r).ask = a /\ Read(a, r).row = r
    /\ \A r \in Row : Done(r) \in Request /\ Done(r).at = "done" /\ Done(r).row = r
<1>1. Free \in Request /\ Free.at = "free" /\ Failed \in Request /\ Failed.at = "failed"
  BY DEF Request, Free, Failed
<1>2. ASSUME NEW a \in Ask, NEW r \in Row
      PROVE  /\ Read(a, r) \in Request /\ Read(a, r).at = "read"
             /\ Read(a, r).ask = a /\ Read(a, r).row = r
  BY DEF Request, Read
<1>3. ASSUME NEW r \in Row
      PROVE  Done(r) \in Request /\ Done(r).at = "done" /\ Done(r).row = r
  BY DEF Request, Done
<1> QED BY <1>1, <1>2, <1>3

LEMMA LoadType ==
    /\ \A r \in Row \cup {NoRow} : LoadOf(r) # NoLoad /\ LoadOf(r).row = r
    /\ \A l \in {NoLoad} \cup {LoadOf(r) : r \in Row \cup {NoRow}} :
          l # NoLoad => l.row \in Row \cup {NoRow}
BY DEF LoadOf, NoLoad

LEMMA SeedType ==
    \A at, left : SeedAt(at, left).at = at /\ SeedAt(at, left).left = left
BY DEF SeedAt

LEMMA CountedType == ASSUME TypeOK, Counted PROVE writes' \in 0..MaxWrites
<1>1. writes \in 0..MaxWrites
  BY DEF TypeOK
<1>2. writes < MaxWrites /\ writes' = writes + 1
  BY DEF Counted
<1> QED BY <1>1, <1>2, NoValueAssumption

LEMMA TeamInvInit == Init => TeamInv
<1> SUFFICES ASSUME Init PROVE TeamInv
  OBVIOUS
<1>1. TypeOK
  <2>1. row \in Row \cup {NoRow} /\ known \in BOOLEAN /\ members \subseteq {Person, Agent}
    BY RowType DEF Init
  <2>2. request \in [Writer -> Request]
    BY RequestsMade DEF Init
  <2>3. /\ seed.at \in {"off", "humans", "ais", "users", "members", "complete"}
        /\ seed.left \subseteq {Person, Agent}
    BY SeedType DEF Init
  <2>4. intended \in Settings /\ writes \in 0..MaxWrites
    BY RowType, NoValueAssumption DEF Init
  <2> QED BY <2>1, <2>2, <2>3, <2>4 DEF Init, TypeOK
<1>2. RequestHolds
  BY RequestsMade DEF Init, RequestHolds
<1>3. RowHolds
  BY DEF Init, RowHolds
<1>4. MessageHolds
  BY DEF Init, MessageHolds
<1>5. SeedHolds
  BY SeedType DEF Init, SeedHolds
<1>6. ListHolds
  BY RequestsMade DEF Init, ListHolds, Own, Writer
<1> QED BY <1>1, <1>2, <1>3, <1>4, <1>5, <1>6 DEF TeamInv

-----------------------------------------------------------------------------
(***************************************************************************)
(* The routes                                                              *)
(***************************************************************************)

\* A request of the browser comes from a list that has the row.
LEMMA BeginKeeps ==
    ASSUME TeamInv, NEW w \in Writer, NEW ask, AskOf(ask), Begin(w, ask),
           w \in Own => list # NoRow
    PROVE  TeamInv'
<1>1. /\ request[w].at = "free" /\ ask \in Ask
      /\ UNCHANGED <<database, browser, seed, message,
                     intended, overwritten, off, undisturbed, outside>>
  BY RequestsMade DEF Begin, AskOf
<1>2. row # NoRow => row \in Row
  BY DEF TeamInv, TypeOK
<1>3. /\ request' = [request EXCEPT ![w] = IF row = NoRow THEN Failed ELSE Read(ask, row)]
      /\ writes' \in 0..MaxWrites /\ (strays' = strays \/ strays' = strays \cup {"crossed"})
      /\ w \in Own => \A other \in Own \ {w} : request[other].at = "free" \/ strays' # {}
  <2>1. request' = [request EXCEPT ![w] = IF row = NoRow THEN Failed ELSE Read(ask, row)]
    BY DEF Begin
  <2>2. writes' \in 0..MaxWrites
    BY CountedType DEF TeamInv, Begin
  <2>3. strays' = IF w \in Own /\ \E other \in Own \ {w} : request[other] # Free
                  THEN strays \cup {"crossed"} ELSE strays
    BY DEF Begin
  <2> QED BY <2>1, <2>2, <2>3, RequestsMade
<1>4. /\ request' \in [Writer -> Request]
      /\ \A v \in Writer \ {w} : request'[v] = request[v]
      /\ row = NoRow => request'[w].at = "failed"
      /\ row # NoRow => request'[w].at = "read" /\ request'[w].ask = ask
  <2> DEFINE new == IF row = NoRow THEN Failed ELSE Read(ask, row)
  <2>1. new \in Request
    BY <1>1, <1>2, RequestsMade
  <2>2. row = NoRow => new.at = "failed"
    BY RequestsMade
  <2>3. row # NoRow => new.at = "read" /\ new.ask = ask
    BY <1>1, <1>2, RequestsMade
  <2>4. request \in [Writer -> Request] /\ request' = [request EXCEPT ![w] = new]
    BY <1>3 DEF TeamInv, TypeOK
  <2> HIDE DEF new
  <2> QED BY <2>1, <2>2, <2>3, <2>4
<1>5. TypeOK'
  <2>1. strays' \subseteq {"elsewhere", "lost", "crossed"}
    BY <1>3 DEF TeamInv, TypeOK
  <2>2. /\ RowOK' /\ LoadOK' /\ BrowserOK' /\ SeedOK' /\ MessageOK' /\ IntendedOK'
    BY <1>1, TypeParts, PartsKept DEF database, browser, message, TeamInv
  <2>3. RequestOK'
    BY <1>4 DEF RequestOK
  <2>4. HistoryOK'
    BY <1>1, <1>3, <2>1, TypeParts DEF TeamInv, HistoryOK
  <2> QED BY <2>2, <2>3, <2>4, TypePartsPrimed
<1>6. RequestHolds'
  BY <1>1, <1>4 DEF TeamInv, RequestHolds, database
<1>7. RowHolds' /\ MessageHolds' /\ SeedHolds'
  BY <1>1 DEF TeamInv, RowHolds, MessageHolds, SeedHolds, Reachable, database, message
<1>8. ListHolds'
  <2>1. list' = NoRow => dialog' = NoForm /\ \A v \in Own : request'[v].at = "free"
    BY <1>1, <1>4 DEF TeamInv, ListHolds, browser, Own, Writer
  <2>2. loading' # NoLoad => list' = NoRow
    BY <1>1 DEF TeamInv, ListHolds, browser
  <2>3. ASSUME strays' = {}
        PROVE  /\ strays = {}
               /\ \A v, u \in Own : v # u => request'[v].at = "free" \/ request'[u].at = "free"
               /\ \A v \in Own : request'[v].at = "done" => request[v].at = "done"
                                                            /\ request'[v] = request[v]
               /\ \A v \in Own : request[v].at = "done" => request'[v].at = "done"
    <3>1. strays = {} /\ \A v \in Own : v \in Writer
      BY <1>3, <2>3 DEF Own, Writer
    <3>2. \A v, u \in Own : v # u => request[v].at = "free" \/ request[u].at = "free"
      BY <3>1 DEF TeamInv, ListHolds
    <3>3. \A v, u \in Own : v # u => request'[v].at = "free" \/ request'[u].at = "free"
      BY <1>3, <1>4, <2>3, <3>1, <3>2
    <3> QED BY <1>1, <1>4, <3>1, <3>3
  <2>4. strays' = {} =>
          /\ loading' # NoLoad => loading'.row = row'
          /\ \A v \in Own : request'[v].at = "done" => request'[v].row = row'
          /\ list' # NoRow /\ (\A v \in Own : request'[v].at # "done") => list' = row'
    BY <1>1, <2>3 DEF TeamInv, ListHolds, browser, database
  <2> QED BY <2>1, <2>2, <2>3, <2>4 DEF ListHolds
<1> QED BY <1>5, <1>6, <1>7, <1>8 DEF TeamInv

\* Fields of a request that its author did not edit keep the others' values when
\* neither the form nor the read was out of date.
LEMMA EditsSurvive ==
    ASSUME row \in Row, NEW ask, AskOf(ask), NEW found \in Row,
           row' = Updated(ask, found), intended' = Intends(ask),
           intended \in Settings, row.settings = intended, ~Stale(ask, found)
    PROVE  row'.settings = intended'
<1>1. /\ row.settings \in Settings /\ found.settings \in Settings /\ ask \in Ask
      /\ ask.fields \subseteq Field /\ ask.edited \subseteq ask.fields
      /\ ask.settings \in Settings
  BY RowType, AskType DEF AskOf
<1>2. row'.settings = IF ask.fields = {} THEN row.settings ELSE Merged(ask, found)
  BY DEF Updated
<1>3. intended' = [f \in Field |-> IF f \in ask.edited THEN ask.settings[f] ELSE intended[f]]
  BY DEF Intends
<1>4. CASE ask.fields = {}
  BY <1>1, <1>2, <1>3, <1>4 DEF Settings
<1>5. CASE ask.fields # {}
  <2>1. \A f \in Field \ ask.edited :
           row.settings[f] = IF f \in ask.fields THEN ask.seen[f] ELSE found.settings[f]
    BY <1>5 DEF Stale
  <2>2. \A f \in Field : Merged(ask, found)[f]
           = IF f \in ask.edited THEN ask.settings[f] ELSE intended[f]
    BY <1>1, <2>1 DEF Merged, AskOf
  <2> QED BY <1>2, <1>3, <1>5, <2>2 DEF Merged
<1> QED BY <1>4, <1>5

\* What Wrote does to the history when the row or the members have changed.
LEMMA WroteHolds ==
    ASSUME TeamInv, NEW by, Wrote(by), UNCHANGED <<post, woken>>,
           row' \in Row \cup {NoRow}, members' \subseteq {Person, Agent}
    PROVE  /\ strays' \subseteq {"elsewhere", "lost", "crossed"}
           /\ undisturbed' \in BOOLEAN /\ outside' \in BOOLEAN /\ wasMember' \in BOOLEAN
           /\ MessageHolds'
           /\ undisturbed' => undisturbed /\ by = "seed"
           /\ strays' = {} => strays = {} /\ (by \in Own \/ row' = row)
<1>1. /\ strays' = IF by \in Own \/ row' = row THEN strays ELSE strays \cup {"elsewhere"}
      /\ undisturbed' = (undisturbed /\ by = "seed")
      /\ outside' = (outside /\ ~Reachable(row', members'))
      /\ wasMember' = (wasMember \/ (post # "none" /\ Person \in members'))
  BY DEF Wrote
<1>2. strays \subseteq {"elsewhere", "lost", "crossed"}
  BY DEF TeamInv, TypeOK
<1>3. strays' \subseteq {"elsewhere", "lost", "crossed"}
  BY <1>1, <1>2
<1>4. strays' = {} => strays = {} /\ (by \in Own \/ row' = row)
  BY <1>1
<1>5. MessageHolds'
  <2>1. post' # "none" => wasMember'
    BY <1>1 DEF TeamInv, MessageHolds
  <2>2. woken' => post' = "looked up" /\ ~outside'
    BY <1>1 DEF TeamInv, MessageHolds
  <2>3. outside' => ~Reachable(row', members')
    BY <1>1
  <2> QED BY <2>1, <2>2, <2>3 DEF MessageHolds, Reachable
<1> QED BY <1>1, <1>3, <1>4, <1>5 DEF TeamInv, TypeOK

\* The parts of the invariant that a step leaves alone.
LEMMA HoldsKept ==
    /\ RequestHolds /\ UNCHANGED request /\ (row' = row \/ row' # NoRow) => RequestHolds'
    /\ RowHolds /\ UNCHANGED <<row, intended, overwritten, off>> => RowHolds'
    /\ MessageHolds /\ UNCHANGED <<row, members, post, woken, wasMember, outside>> => MessageHolds'
    /\ SeedHolds /\ UNCHANGED <<row, known, members, seed, undisturbed>> => SeedHolds'
    /\ ListHolds /\ UNCHANGED <<row, request, list, dialog, loading, strays>> => ListHolds'
<1>1. RequestHolds /\ UNCHANGED request /\ (row' = row \/ row' # NoRow) => RequestHolds'
  BY DEF RequestHolds
<1>2. RowHolds /\ UNCHANGED <<row, intended, overwritten, off>> => RowHolds'
  BY DEF RowHolds
<1>3. MessageHolds /\ UNCHANGED <<row, members, post, woken, wasMember, outside>> => MessageHolds'
  <2> SUFFICES ASSUME MessageHolds, UNCHANGED <<row, members, post, woken, wasMember, outside>>
               PROVE  MessageHolds'
    OBVIOUS
  <2>1. Reachable(row', members') <=> Reachable(row, members)
    BY DEF Reachable
  <2> QED BY <2>1 DEF MessageHolds, Reachable
<1>4. SeedHolds /\ UNCHANGED <<row, known, members, seed, undisturbed>> => SeedHolds'
  BY DEF SeedHolds
<1>5. ListHolds /\ UNCHANGED <<row, request, list, dialog, loading, strays>> => ListHolds'
  BY DEF ListHolds
<1> QED BY <1>1, <1>2, <1>3, <1>4, <1>5

LEMMA WriterType == Own \subseteq Writer /\ "seed" \notin Writer /\ "operator" \notin Own
BY DEF Own, Writer

\* What the update writes.
LEMMA UpdatedType ==
    ASSUME row \in Row, NEW ask \in Ask, NEW found \in Row, intended \in Settings
    PROVE  /\ Updated(ask, found) \in Row /\ Intends(ask) \in Settings
           /\ Updated(ask, found).status = IF ask.status = Same THEN row.status ELSE ask.status
<1>1. /\ ask.settings \in Settings /\ ask.status \in {"active", "inactive", Same}
      /\ found.settings \in Settings /\ row.settings \in Settings
      /\ row.status \in {"active", "inactive"}
  BY RowType, AskType
<1>2. Merged(ask, found) \in Settings /\ Intends(ask) \in Settings
  BY <1>1 DEF Merged, Intends, Settings
<1>3. (IF ask.fields = {} THEN row.settings ELSE Merged(ask, found)) \in Settings
  BY <1>1, <1>2
<1>4. (IF ask.status = Same THEN row.status ELSE ask.status) \in {"active", "inactive"}
  BY <1>1
<1> QED BY <1>2, <1>3, <1>4 DEF Updated, Row

LEMMA CommitKeeps == ASSUME TeamInv, NEW w \in Writer, Commit(w) PROVE TeamInv'
<1> DEFINE ask == request[w].ask
           found == request[w].row
<1>1. /\ row \in Row /\ row # NoRow /\ ask \in Ask /\ found \in Row /\ AskOf(ask)
      /\ request \in [Writer -> Request] /\ intended \in Settings /\ request[w].at = "read"
  <2>1. request \in [Writer -> Request] /\ intended \in Settings /\ row \in Row \cup {NoRow}
    BY DEF TeamInv, TypeOK
  <2>2. request[w].at = "read" /\ request[w] \in Request
    BY <2>1 DEF Commit
  <2>3. row # NoRow /\ AskOf(ask)
    BY <2>2 DEF TeamInv, RequestHolds
  <2>4. ask \in Ask /\ found \in Row
    BY <2>2, RequestType
  <2> QED BY <2>1, <2>2, <2>3, <2>4
<1>2. /\ row' = Updated(ask, found) /\ intended' = Intends(ask)
      /\ overwritten' = (row'.settings # intended' /\ (overwritten \/ Stale(ask, found)))
      /\ off' = IF ask.status = Same THEN off ELSE ask.status = "inactive"
      /\ request' = [request EXCEPT ![w] = IF w \in Own THEN Done(row') ELSE Free]
      /\ UNCHANGED <<known, members, browser, seed, post, woken, writes>>
      /\ Wrote(w)
  BY DEF Commit
<1>3. /\ row' \in Row /\ row' # NoRow /\ intended' \in Settings
      /\ row'.status = IF ask.status = Same THEN row.status ELSE ask.status
  BY <1>1, <1>2, UpdatedType, RowType
<1> HIDE DEF ask, found
<1>4. /\ \A v \in Writer \ {w} : request'[v] = request[v]
      /\ request' \in [Writer -> Request]
      /\ w \in Own => request'[w].at = "done" /\ request'[w].row = row'
      /\ w \notin Own => request'[w].at = "free"
  <2> DEFINE new == IF w \in Own THEN Done(row') ELSE Free
  <2>1. /\ new \in Request
        /\ w \in Own => new.at = "done" /\ new.row = row'
        /\ w \notin Own => new.at = "free"
    BY <1>3, RequestsMade
  <2>2. request' = [request EXCEPT ![w] = new]
    BY <1>2
  <2> HIDE DEF new
  <2> QED BY <1>1, <2>1, <2>2
<1>5. /\ strays' \subseteq {"elsewhere", "lost", "crossed"}
      /\ undisturbed' = FALSE /\ outside' \in BOOLEAN /\ wasMember' \in BOOLEAN
      /\ MessageHolds'
      /\ strays' = {} => strays = {} /\ (w \in Own \/ row' = row)
  <2>1. members' \subseteq {Person, Agent}
    BY <1>2 DEF TeamInv, TypeOK
  <2> QED BY <1>2, <1>3, <2>1, WroteHolds, WriterType
<1>6. TypeOK'
  <2>1. LoadOK' /\ BrowserOK' /\ SeedOK'
    BY <1>2, TypeParts, PartsKept DEF browser, TeamInv
  <2>2. RequestOK' /\ RowOK'
    BY <1>2, <1>3, <1>4 DEF RequestOK, RowOK, TeamInv, TypeOK
  <2>3. HistoryOK' /\ MessageOK'
    BY <1>2, <1>5, TypeParts DEF HistoryOK, MessageOK, TeamInv
  <2>4. IntendedOK'
    <3>1. off \in BOOLEAN
      BY DEF TeamInv, TypeOK
    <3> QED BY <1>2, <1>3, <3>1 DEF IntendedOK
  <2> QED BY <2>1, <2>2, <2>3, <2>4, TypePartsPrimed
<1>7. RequestHolds'
  BY <1>3, <1>4 DEF TeamInv, RequestHolds
<1>8. RowHolds'
  <2>1. off' => row'.status = "inactive"
    BY <1>2, <1>3 DEF TeamInv, RowHolds
  <2>2. overwritten' \/ row'.settings = intended'
    <3>1. CASE overwritten \/ Stale(ask, found)
      BY <1>2, <3>1
    <3>2. CASE ~overwritten /\ ~Stale(ask, found)
      <4>1. row.settings = intended
        BY <1>1, <3>2 DEF TeamInv, RowHolds
      <4> QED BY <1>1, <1>2, <3>2, <4>1, EditsSurvive
    <3> QED BY <3>1, <3>2
  <2> QED BY <1>3, <2>1, <2>2 DEF RowHolds
<1>9. SeedHolds'
  BY <1>2, <1>5 DEF TeamInv, SeedHolds
<1>10. ListHolds'
  <2>1. UNCHANGED <<list, dialog, loading>> /\ (w \in Own => list # NoRow)
    BY <1>1, <1>2 DEF browser, TeamInv, ListHolds
  <2>2. /\ list' = NoRow => dialog' = NoForm /\ \A v \in Own : request'[v].at = "free"
        /\ loading' # NoLoad => list' = NoRow
    BY <1>4, <2>1, WriterType DEF TeamInv, ListHolds
  <2>3. ASSUME strays' = {}
        PROVE  /\ loading' # NoLoad => loading'.row = row'
               /\ \A v, u \in Own : v # u => request'[v].at = "free" \/ request'[u].at = "free"
               /\ \A v \in Own : request'[v].at = "done" => request'[v].row = row'
               /\ list' # NoRow /\ (\A v \in Own : request'[v].at # "done") => list' = row'
    <3>1. strays = {} /\ (w \in Own \/ row' = row)
      BY <1>5, <2>3
    <3>2. CASE w \in Own
      <4>1. \A v \in Own \ {w} : request[v].at = "free" /\ request'[v] = request[v]
        <5>1. \A v \in Own \ {w} : request[v].at = "free" \/ request[w].at = "free"
          BY <3>1, <3>2 DEF TeamInv, ListHolds
        <5> QED BY <1>1, <1>4, <5>1, WriterType
      <4>2. loading' = NoLoad
        BY <2>1, <3>2 DEF TeamInv, ListHolds
      <4> QED BY <1>4, <3>2, <4>1, <4>2
    <3>3. CASE w \notin Own
      <4>1. row' = row /\ \A v \in Own : request'[v] = request[v]
        BY <1>4, <3>1, <3>3, WriterType
      <4> QED BY <2>1, <3>1, <4>1 DEF TeamInv, ListHolds
    <3> QED BY <3>2, <3>3
  <2> QED BY <2>2, <2>3 DEF ListHolds
<1> QED BY <1>6, <1>7, <1>8, <1>5, <1>9, <1>10 DEF TeamInv

\* A request that is over: no longer read, and its answer not taken over.
LEMMA RequestOver ==
    ASSUME TeamInv, NEW w \in Writer, NEW new \in Request, new.at \in {"free", "failed"},
           request[w].at # "free", request' = [request EXCEPT ![w] = new],
           UNCHANGED <<row, list, dialog, loading>>,
           strays' = {} => strays = {} /\ (w \in Own => request[w].at # "done")
    PROVE  RequestOK' /\ RequestHolds' /\ ListHolds'
<1>1. /\ request \in [Writer -> Request]
      /\ request'[w].at \in {"free", "failed"}
      /\ \A v \in Writer \ {w} : request'[v] = request[v]
  <2>1. request \in [Writer -> Request]
    BY DEF TeamInv, TypeOK
  <2> QED BY <2>1
<1>2. RequestOK'
  BY <1>1 DEF RequestOK
<1>3. RequestHolds'
  BY <1>1 DEF TeamInv, RequestHolds
<1>4. ListHolds'
  <2>1. /\ list' = NoRow => dialog' = NoForm /\ \A v \in Own : request'[v].at = "free"
        /\ loading' # NoLoad => list' = NoRow
    BY <1>1, WriterType DEF TeamInv, ListHolds
  <2>2. ASSUME strays' = {}
        PROVE  /\ loading' # NoLoad => loading'.row = row'
               /\ \A v, u \in Own : v # u => request'[v].at = "free" \/ request'[u].at = "free"
               /\ \A v \in Own : request'[v].at = "done" => request'[v].row = row'
               /\ list' # NoRow /\ (\A v \in Own : request'[v].at # "done") => list' = row'
    <3>1. strays = {} /\ (w \in Own => request[w].at # "done")
      BY <2>2
    <3>2. \A v, u \in Own : v # u => request[v].at = "free" \/ request[u].at = "free"
      BY <3>1 DEF TeamInv, ListHolds
    <3>3. \A v, u \in Own : v # u => request'[v].at = "free" \/ request'[u].at = "free"
      BY <1>1, <3>2, WriterType
    <3>4. \A v \in Own : request'[v].at = "done" => request'[v].row = row'
      BY <1>1, <3>1, WriterType DEF TeamInv, ListHolds
    <3>5. ASSUME \A v \in Own : request'[v].at # "done"
          PROVE  \A v \in Own : request[v].at # "done"
      BY <1>1, <3>1, <3>5, WriterType
    <3> QED BY <3>1, <3>3, <3>4, <3>5 DEF TeamInv, ListHolds
  <2> QED BY <2>1, <2>2 DEF ListHolds
<1> QED BY <1>2, <1>3, <1>4

LEMMA RequestEndsKeeps ==
    ASSUME TeamInv, NEW w \in Writer,
           \/ CommitFails(w)
           \/ AnswerLost(w)
           \/ w \in Own /\ ShowError(w)
           \/ w = "operator" /\ OperatorRefused
    PROVE  TeamInv'
<1>1. /\ UNCHANGED <<database, browser, seed, message,
                     intended, overwritten, off, undisturbed, outside, writes>>
      /\ strays' \in {strays, strays \cup {"lost"}}
      /\ request[w].at # "free"
      /\ strays' = {} => strays = {} /\ request[w].at # "done"
  BY RequestsMade DEF CommitFails, AnswerLost, ShowError, OperatorRefused, history
<1>2. \E new \in {Free, Failed} : request' = [request EXCEPT ![w] = new]
  BY DEF CommitFails, AnswerLost, ShowError, OperatorRefused
<1>3. RequestOK' /\ RequestHolds' /\ ListHolds'
  <2>1. PICK new \in {Free, Failed} : request' = [request EXCEPT ![w] = new]
    BY <1>2
  <2>2. new \in Request /\ new.at \in {"free", "failed"}
    BY RequestsMade
  <2> QED BY <1>1, <2>1, <2>2, RequestOver DEF database, browser
<1>4. RowHolds' /\ MessageHolds' /\ SeedHolds'
  BY <1>1, HoldsKept DEF TeamInv, database, message
<1>5. TypeOK'
  <2>1. RowOK' /\ LoadOK' /\ BrowserOK' /\ SeedOK' /\ MessageOK' /\ IntendedOK'
    BY <1>1, TypeParts, PartsKept DEF database, browser, message, TeamInv
  <2>2. HistoryOK'
    BY <1>1, TypeParts DEF TeamInv, HistoryOK
  <2> QED BY <1>3, <2>1, <2>2, TypePartsPrimed
<1> QED BY <1>3, <1>4, <1>5 DEF TeamInv

LEMMA OperateKeeps ==
    ASSUME TeamInv, NEW fields \in SUBSET Field, NEW status \in {"active", "inactive", Same},
           Operate(fields, status)
    PROVE  TeamInv'
<1> DEFINE ask == [fields |-> fields, settings |-> [f \in Field |-> "operator"],
                   status |-> status, edited |-> fields, seen |-> Default.settings]
<1>1. [f \in Field |-> "operator"] \in Settings /\ Default.settings \in Settings
  BY RowType DEF Settings, Value, Writer
<1>2. AskOf(ask)
  BY <1>1 DEF AskOf, Ask
<1>3. Begin("operator", ask)
  BY DEF Operate
<1> HIDE DEF ask
<1> QED BY <1>2, <1>3, BeginKeeps, WriterType DEF Writer

LEMMA CreateKeeps == ASSUME TeamInv, Create PROVE TeamInv'
<1>1. /\ row = NoRow /\ row' = Default /\ row' \in Row /\ row' # NoRow
      /\ UNCHANGED <<known, members, request, browser, seed, post, woken,
                     intended, overwritten, off, writes>>
      /\ Wrote("operator")
  BY RowType DEF Create
<1>2. /\ strays' \subseteq {"elsewhere", "lost", "crossed"}
      /\ undisturbed' = FALSE /\ outside' \in BOOLEAN /\ wasMember' \in BOOLEAN
      /\ MessageHolds'
      /\ strays' # {}
  <2>1. members' \subseteq {Person, Agent}
    BY <1>1 DEF TeamInv, TypeOK
  <2> QED BY <1>1, <2>1, WroteHolds, WriterType
<1>3. TypeOK'
  <2>1. RequestOK' /\ LoadOK' /\ BrowserOK' /\ SeedOK' /\ IntendedOK'
    BY <1>1, TypeParts, PartsKept DEF browser, TeamInv
  <2>2. RowOK' /\ HistoryOK' /\ MessageOK'
    BY <1>1, <1>2, TypeParts DEF RowOK, HistoryOK, MessageOK, TeamInv
  <2> QED BY <2>1, <2>2, TypePartsPrimed
<1>4. RequestHolds'
  BY <1>1, HoldsKept DEF TeamInv
<1>5. RowHolds'
  BY <1>1 DEF TeamInv, RowHolds
<1>6. SeedHolds'
  BY <1>1, <1>2 DEF TeamInv, SeedHolds
<1>7. ListHolds'
  BY <1>1, <1>2 DEF TeamInv, ListHolds, browser
<1> QED BY <1>2, <1>3, <1>4, <1>5, <1>6, <1>7 DEF TeamInv

-----------------------------------------------------------------------------
(***************************************************************************)
(* The browser                                                             *)
(***************************************************************************)

LEMMA MountKeeps == ASSUME TeamInv, Mount PROVE TeamInv'
<1>1. /\ \A w \in Own : request[w].at = "free"
      /\ list' = NoRow /\ dialog' = NoForm /\ loading' = LoadOf(row) /\ strays' = {}
      /\ UNCHANGED <<database, request, seed, message,
                     intended, overwritten, off, undisturbed, outside>>
  BY RequestsMade DEF Mount
<1>2. row \in Row \cup {NoRow}
  BY DEF TeamInv, TypeOK
<1>3. TypeOK'
  <2>1. RowOK' /\ RequestOK' /\ SeedOK' /\ MessageOK' /\ IntendedOK'
    BY <1>1, TypeParts, PartsKept DEF database, message, TeamInv
  <2>2. LoadOK' /\ BrowserOK'
    BY <1>1, <1>2 DEF LoadOK, BrowserOK
  <2>3. HistoryOK'
    <3>1. writes' \in 0..MaxWrites
      BY CountedType DEF Mount, TeamInv
    <3> QED BY <1>1, <3>1, TypeParts DEF TeamInv, HistoryOK
  <2> QED BY <2>1, <2>2, <2>3, TypePartsPrimed
<1>4. RequestHolds' /\ RowHolds' /\ MessageHolds' /\ SeedHolds'
  BY <1>1, HoldsKept DEF TeamInv, database, message
<1>5. ListHolds'
  <2>1. loading'.row = row'
    BY <1>1, <1>2, LoadType DEF database
  <2>2. \A w \in Own : request'[w].at = "free"
    BY <1>1
  <2> QED BY <1>1, <2>1, <2>2 DEF ListHolds
<1> QED BY <1>3, <1>4, <1>5 DEF TeamInv

LEMMA LoadArrivesKeeps == ASSUME TeamInv, LoadArrives PROVE TeamInv'
<1>1. /\ loading # NoLoad /\ loading' = NoLoad /\ list' \in {loading.row, list}
      /\ UNCHANGED <<database, request, dialog, seed, message, history, writes>>
  BY DEF LoadArrives
<1>2. /\ loading.row \in Row \cup {NoRow} /\ list = NoRow /\ dialog = NoForm
      /\ \A w \in Own : request[w].at = "free"
      /\ strays = {} => loading.row = row
  <2>1. loading \in {NoLoad} \cup {LoadOf(r) : r \in Row \cup {NoRow}}
    BY DEF TeamInv, TypeOK
  <2>2. loading.row \in Row \cup {NoRow}
    BY <1>1, <2>1, LoadType
  <2> QED BY <1>1, <2>2 DEF TeamInv, ListHolds
<1>3. TypeOK'
  <2>1. RowOK' /\ RequestOK' /\ SeedOK' /\ MessageOK' /\ IntendedOK' /\ HistoryOK'
    BY <1>1, TypeParts, PartsKept DEF database, message, history, TeamInv
  <2>2. LoadOK' /\ BrowserOK'
    BY <1>1, <1>2, TypeParts DEF LoadOK, BrowserOK, TeamInv
  <2> QED BY <2>1, <2>2, TypePartsPrimed
<1>4. RequestHolds' /\ RowHolds' /\ MessageHolds' /\ SeedHolds'
  BY <1>1, HoldsKept DEF TeamInv, database, message, history
<1>5. ListHolds'
  <2>1. \A w \in Own : request'[w].at = "free"
    BY <1>1, <1>2
  <2> QED BY <1>1, <1>2, <2>1 DEF ListHolds, database, history
<1> QED BY <1>3, <1>4, <1>5 DEF TeamInv

LEMMA DialogKeeps == ASSUME TeamInv, OpenEditDialog \/ CloseDialog PROVE TeamInv'
<1>1. /\ UNCHANGED <<database, request, list, loading, seed, message, history, writes>>
      /\ dialog' \in {list, NoForm} /\ (list = NoRow => dialog' = NoForm)
  BY DEF OpenEditDialog, CloseDialog
<1>2. TypeOK'
  <2>1. RowOK' /\ RequestOK' /\ LoadOK' /\ SeedOK' /\ MessageOK' /\ IntendedOK' /\ HistoryOK'
    BY <1>1, TypeParts, PartsKept DEF database, message, history, TeamInv
  <2>2. BrowserOK'
    BY <1>1, TypeParts DEF BrowserOK, TeamInv
  <2> QED BY <2>1, <2>2, TypePartsPrimed
<1>3. RequestHolds' /\ RowHolds' /\ MessageHolds' /\ SeedHolds'
  BY <1>1, HoldsKept DEF TeamInv, database, message, history
<1>4. ListHolds'
  BY <1>1 DEF TeamInv, ListHolds, database, history
<1> QED BY <1>2, <1>3, <1>4 DEF TeamInv

LEMMA SubmitFormKeeps ==
    ASSUME TeamInv, NEW edited \in SUBSET Field, SubmitForm(edited)
    PROVE  TeamInv'
<1> DEFINE ask == [fields |-> Field, settings |-> Form(edited), status |-> Same,
                   edited |-> edited, seen |-> dialog.settings]
<1>1. dialog \in Row /\ list # NoRow /\ Begin("dialog", ask)
  <2>1. dialog # NoForm /\ dialog \in Row \cup {NoForm} /\ Begin("dialog", ask)
    BY DEF SubmitForm, TeamInv, TypeOK
  <2> QED BY <2>1 DEF TeamInv, ListHolds
<1>2. dialog.settings \in Settings
  BY <1>1, RowType
<1>3. Form(edited) \in Settings
      /\ \A f \in Field \ edited : Form(edited)[f] = dialog.settings[f]
  BY <1>2 DEF Form, Settings, Value, Writer
<1>4. AskOf(ask)
  BY <1>2, <1>3 DEF AskOf, Ask
<1> HIDE DEF ask
<1> QED BY <1>1, <1>4, BeginKeeps DEF Writer

LEMMA SetAIStatusKeeps == ASSUME TeamInv, SetAIStatus PROVE TeamInv'
<1> DEFINE wanted == IF list.status = "active" THEN "inactive" ELSE "active"
           ask == [fields |-> {}, settings |-> Default.settings, status |-> wanted,
                   edited |-> {}, seen |-> Default.settings]
<1>1. list # NoRow /\ Begin("button", ask) /\ wanted \in {"active", "inactive"}
  BY DEF SetAIStatus
<1> HIDE DEF wanted
<1>2. AskOf(ask)
  BY <1>1, RowType DEF AskOf, Ask
<1> HIDE DEF ask
<1> QED BY <1>1, <1>2, BeginKeeps DEF Writer

LEMMA AnsweredKeeps == ASSUME TeamInv, NEW w \in Own, Answered(w) PROVE TeamInv'
<1>1. /\ request[w].at = "done" /\ list' = request[w].row
      /\ dialog' \in {dialog, NoForm}
      /\ request' = [request EXCEPT ![w] = Free]
      /\ UNCHANGED <<database, loading, seed, message, history, writes>>
  BY DEF Answered, Listed
<1>2. /\ w \in Writer /\ request \in [Writer -> Request]
      /\ request[w].row \in Row /\ list' # NoRow
  <2>1. w \in Writer /\ request \in [Writer -> Request]
    BY WriterType DEF TeamInv, TypeOK
  <2>2. request[w].row \in Row
    BY <1>1, <2>1, RequestType
  <2> QED BY <1>1, <2>1, <2>2, RowType
<1>3. /\ request'[w].at = "free" /\ request' \in [Writer -> Request]
      /\ \A v \in Writer \ {w} : request'[v] = request[v]
  BY <1>1, <1>2, RequestsMade
<1>4. TypeOK'
  <2>1. RowOK' /\ LoadOK' /\ SeedOK' /\ MessageOK' /\ IntendedOK' /\ HistoryOK'
    BY <1>1, TypeParts, PartsKept DEF database, message, history, TeamInv
  <2>2. RequestOK' /\ BrowserOK'
    BY <1>1, <1>2, <1>3, TypeParts DEF RequestOK, BrowserOK, TeamInv
  <2> QED BY <2>1, <2>2, TypePartsPrimed
<1>5. RequestHolds'
  BY <1>1, <1>3 DEF TeamInv, RequestHolds, database
<1>6. RowHolds' /\ MessageHolds' /\ SeedHolds'
  BY <1>1, HoldsKept DEF TeamInv, database, message, history
<1>7. ListHolds'
  <2>1. loading' = NoLoad
    BY <1>1, <1>2 DEF TeamInv, ListHolds
  <2>2. ASSUME strays' = {}
        PROVE  list' = row' /\ \A v \in Own : request'[v].at = "free"
    <3>1. strays = {}
      BY <1>1, <2>2 DEF history
    <3>2. request[w].row = row /\ \A v \in Own \ {w} : request[v].at = "free"
      BY <1>1, <3>1 DEF TeamInv, ListHolds
    <3> QED BY <1>1, <1>3, <3>2, WriterType DEF database
  <2> QED BY <1>2, <2>1, <2>2 DEF ListHolds
<1> QED BY <1>4, <1>5, <1>6, <1>7 DEF TeamInv

-----------------------------------------------------------------------------
(***************************************************************************)
(* Members and the seed                                                    *)
(***************************************************************************)

LEMMA MembersKeep ==
    ASSUME TeamInv, NEW u \in {Person, Agent}, AddMember(u) \/ RemoveMember(u)
    PROVE  TeamInv'
<1>1. /\ Counted /\ members' \subseteq {Person, Agent}
      /\ UNCHANGED <<row, known, request, browser, seed, post, woken,
                     intended, overwritten, off>>
      /\ Wrote("operator")
  BY DEF AddMember, RemoveMember, TeamInv, TypeOK
<1>2. /\ strays' \subseteq {"elsewhere", "lost", "crossed"}
      /\ undisturbed' = FALSE /\ outside' \in BOOLEAN /\ wasMember' \in BOOLEAN
      /\ MessageHolds'
      /\ strays' = strays
  <2>1. row' \in Row \cup {NoRow}
    BY <1>1 DEF TeamInv, TypeOK
  <2>2. strays' = strays
    BY <1>1 DEF Wrote
  <2> QED BY <1>1, <2>1, <2>2, WroteHolds
<1>3. TypeOK'
  <2>1. RequestOK' /\ LoadOK' /\ BrowserOK' /\ SeedOK' /\ IntendedOK'
    BY <1>1, TypeParts, PartsKept DEF browser, TeamInv
  <2>2. RowOK' /\ MessageOK'
    BY <1>1, <1>2, TypeParts DEF RowOK, MessageOK, TeamInv
  <2>3. HistoryOK'
    <3>1. writes' \in 0..MaxWrites
      BY <1>1, CountedType DEF TeamInv
    <3> QED BY <1>2, <3>1 DEF HistoryOK
  <2> QED BY <2>1, <2>2, <2>3, TypePartsPrimed
<1>4. RequestHolds' /\ RowHolds' /\ ListHolds'
  BY <1>1, <1>2, HoldsKept DEF TeamInv, browser
<1>5. SeedHolds'
  BY <1>1, <1>2 DEF TeamInv, SeedHolds
<1> QED BY <1>2, <1>3, <1>4, <1>5 DEF TeamInv

LEMMA SeedBeginKeeps == ASSUME TeamInv, SeedBegin PROVE TeamInv'
<1>1. /\ Counted /\ seed'.at = "humans" /\ seed'.left = {} /\ undisturbed' = TRUE
      /\ UNCHANGED <<database, request, browser, message,
                     intended, overwritten, off, strays, outside>>
  BY SeedType DEF SeedBegin
<1>2. TypeOK'
  <2>1. RowOK' /\ RequestOK' /\ LoadOK' /\ BrowserOK' /\ MessageOK' /\ IntendedOK'
    BY <1>1, TypeParts, PartsKept DEF database, browser, message, TeamInv
  <2>2. SeedOK'
    BY <1>1 DEF SeedOK
  <2>3. HistoryOK'
    <3>1. writes' \in 0..MaxWrites
      BY <1>1, CountedType DEF TeamInv
    <3> QED BY <1>1, <3>1, TypeParts DEF HistoryOK, TeamInv
  <2> QED BY <2>1, <2>2, <2>3, TypePartsPrimed
<1>3. RequestHolds' /\ RowHolds' /\ MessageHolds' /\ ListHolds'
  BY <1>1, HoldsKept DEF TeamInv, database, browser, message
<1>4. SeedHolds'
  BY <1>1 DEF SeedHolds
<1> QED BY <1>2, <1>3, <1>4 DEF TeamInv

LEMMA SeedHumansKeeps == ASSUME TeamInv, SeedHumans PROVE TeamInv'
<1>1. /\ seed'.at = "ais" /\ seed'.left = {} /\ known' = TRUE
      /\ UNCHANGED <<row, members, request, browser, message, history, writes>>
  BY SeedType DEF SeedHumans
<1>2. TypeOK'
  <2>1. RequestOK' /\ LoadOK' /\ BrowserOK' /\ MessageOK' /\ IntendedOK' /\ HistoryOK'
    BY <1>1, TypeParts, PartsKept DEF browser, message, history, TeamInv
  <2>2. SeedOK' /\ RowOK'
    BY <1>1, TypeParts DEF SeedOK, RowOK, TeamInv
  <2> QED BY <2>1, <2>2, TypePartsPrimed
<1>3. RequestHolds' /\ RowHolds' /\ MessageHolds' /\ ListHolds'
  BY <1>1, HoldsKept DEF TeamInv, browser, message, history
<1>4. SeedHolds'
  BY <1>1 DEF SeedHolds
<1> QED BY <1>2, <1>3, <1>4 DEF TeamInv

LEMMA SeedAIsKeeps == ASSUME TeamInv, SeedAIs PROVE TeamInv'
<1>1. /\ seed.at = "ais" /\ seed'.at = "users" /\ seed'.left = {}
      /\ row' = Default /\ row' \in Row /\ row' # NoRow /\ Default.settings \in Settings
      /\ intended' = Default.settings /\ overwritten' = FALSE /\ off' = FALSE
      /\ UNCHANGED <<known, members, request, browser, post, woken, writes>>
      /\ Wrote("seed")
  BY SeedType, RowType DEF SeedAIs
<1>2. /\ strays' \subseteq {"elsewhere", "lost", "crossed"}
      /\ undisturbed' \in BOOLEAN /\ outside' \in BOOLEAN /\ wasMember' \in BOOLEAN
      /\ MessageHolds'
      /\ strays' = {} => strays = {} /\ row' = row
  <2>1. members' \subseteq {Person, Agent}
    BY <1>1 DEF TeamInv, TypeOK
  <2> QED BY <1>1, <2>1, WroteHolds DEF Own
<1>3. TypeOK'
  <2>1. RequestOK' /\ LoadOK' /\ BrowserOK'
    BY <1>1, TypeParts, PartsKept DEF browser, TeamInv
  <2>2. RowOK' /\ SeedOK' /\ IntendedOK'
    BY <1>1, TypeParts DEF RowOK, SeedOK, IntendedOK, TeamInv
  <2>3. HistoryOK' /\ MessageOK'
    BY <1>1, <1>2, TypeParts DEF HistoryOK, MessageOK, TeamInv
  <2> QED BY <2>1, <2>2, <2>3, TypePartsPrimed
<1>4. RequestHolds'
  BY <1>1, HoldsKept DEF TeamInv
<1>5. RowHolds'
  BY <1>1 DEF RowHolds
<1>6. SeedHolds'
  BY <1>1 DEF TeamInv, SeedHolds
<1>7. ListHolds'
  BY <1>1, <1>2 DEF TeamInv, ListHolds, browser
<1> QED BY <1>2, <1>3, <1>4, <1>5, <1>6, <1>7 DEF TeamInv

LEMMA SeedReadsUsersKeeps == ASSUME TeamInv, SeedReadsUsers PROVE TeamInv'
<1>1. /\ seed.at = "users"
      /\ seed'.at = IF Exists = {} THEN "complete" ELSE "members"
      /\ seed'.left = Exists
      /\ UNCHANGED <<database, request, browser, message, history, writes>>
  BY SeedType DEF SeedReadsUsers, Join
<1>2. Exists \subseteq {Person, Agent}
  BY DEF Exists
<1>3. TypeOK'
  <2>1. /\ RowOK' /\ RequestOK' /\ LoadOK' /\ BrowserOK' /\ MessageOK' /\ IntendedOK' /\ HistoryOK'
    BY <1>1, TypeParts, PartsKept DEF database, browser, message, history, TeamInv
  <2>2. SeedOK'
    BY <1>1, <1>2 DEF SeedOK
  <2> QED BY <2>1, <2>2, TypePartsPrimed
<1>4. RequestHolds' /\ RowHolds' /\ MessageHolds' /\ ListHolds'
  BY <1>1, HoldsKept DEF TeamInv, database, browser, message, history
<1>5. SeedHolds'
  <2>1. known /\ UNCHANGED <<row, known, members, undisturbed>>
    BY <1>1 DEF TeamInv, SeedHolds, database, history
  <2>2. undisturbed => row = Default /\ Exists = {Person, Agent}
    <3>1. undisturbed => row = Default
      BY <1>1 DEF TeamInv, SeedHolds
    <3> QED BY <2>1, <3>1, RowType DEF Exists
  <2> QED BY <1>1, <2>1, <2>2 DEF SeedHolds
<1> QED BY <1>3, <1>4, <1>5 DEF TeamInv

LEMMA SeedMemberKeeps ==
    ASSUME TeamInv, NEW u \in {Person, Agent}, SeedMember(u) PROVE TeamInv'
<1>1. /\ seed.at = "members" /\ u \in seed.left
      /\ seed'.at = IF seed.left = {u} THEN "complete" ELSE "members"
      /\ seed'.left = seed.left \ {u}
      /\ members' = members \cup {u}
      /\ UNCHANGED <<row, known, request, browser, post, woken,
                     intended, overwritten, off, writes>>
      /\ Wrote("seed")
  BY SeedType DEF SeedMember
<1>0. members' \subseteq {Person, Agent}
  BY <1>1 DEF TeamInv, TypeOK
<1>2. /\ strays' \subseteq {"elsewhere", "lost", "crossed"}
      /\ undisturbed' \in BOOLEAN /\ outside' \in BOOLEAN /\ wasMember' \in BOOLEAN
      /\ MessageHolds'
      /\ undisturbed' => undisturbed
      /\ strays' = strays
  <2>1. row' \in Row \cup {NoRow}
    BY <1>1 DEF TeamInv, TypeOK
  <2>2. strays' = strays
    BY <1>1 DEF Wrote
  <2> QED BY <1>0, <1>1, <2>1, <2>2, WroteHolds
<1>3. TypeOK'
  <2>1. RequestOK' /\ LoadOK' /\ BrowserOK' /\ IntendedOK'
    BY <1>1, TypeParts, PartsKept DEF browser, TeamInv
  <2>2. RowOK' /\ SeedOK'
    BY <1>0, <1>1, TypeParts DEF RowOK, SeedOK, TeamInv
  <2>3. HistoryOK' /\ MessageOK'
    BY <1>1, <1>2, TypeParts DEF HistoryOK, MessageOK, TeamInv
  <2> QED BY <2>1, <2>2, <2>3, TypePartsPrimed
<1>4. RequestHolds' /\ RowHolds' /\ ListHolds'
  BY <1>1, <1>2, HoldsKept DEF TeamInv, browser
<1>5. SeedHolds'
  <2>1. known' /\ (undisturbed' => row' = Default)
    BY <1>1, <1>2 DEF TeamInv, SeedHolds
  <2>2. undisturbed' => {Person, Agent} \ members' \subseteq seed.left \ {u}
    BY <1>1, <1>2 DEF TeamInv, SeedHolds
  <2>3. seed'.at \in {"members", "complete"}
    BY <1>1
  <2>4. undisturbed' /\ seed'.at = "complete" => members' = {Person, Agent}
    BY <1>0, <1>1, <2>2
  <2> QED BY <1>1, <2>1, <2>2, <2>3, <2>4 DEF SeedHolds
<1> QED BY <1>2, <1>3, <1>4, <1>5 DEF TeamInv

LEMMA SeedEndsKeeps == ASSUME TeamInv, SeedEnds PROVE TeamInv'
<1>1. /\ seed'.at = "off" /\ seed'.left = {}
      /\ UNCHANGED <<database, request, browser, message, history, writes>>
  BY SeedType DEF SeedEnds
<1>2. TypeOK'
  <2>1. /\ RowOK' /\ RequestOK' /\ LoadOK' /\ BrowserOK' /\ MessageOK' /\ IntendedOK' /\ HistoryOK'
    BY <1>1, TypeParts, PartsKept DEF database, browser, message, history, TeamInv
  <2>2. SeedOK'
    BY <1>1 DEF SeedOK
  <2> QED BY <2>1, <2>2, TypePartsPrimed
<1>3. RequestHolds' /\ RowHolds' /\ MessageHolds' /\ ListHolds'
  BY <1>1, HoldsKept DEF TeamInv, database, browser, message, history
<1>4. SeedHolds'
  BY <1>1 DEF SeedHolds
<1> QED BY <1>2, <1>3, <1>4 DEF TeamInv

-----------------------------------------------------------------------------
(***************************************************************************)
(* The message                                                             *)
(***************************************************************************)

LEMMA MessageStepKeeps ==
    ASSUME TeamInv, CreateMessage \/ InsertMessage \/ WakeMentionedAIs \/ MessageEnds
    PROVE  TeamInv'
<1>1. UNCHANGED <<database, request, browser, seed,
                  intended, overwritten, off, strays, undisturbed, writes>>
  BY DEF CreateMessage, InsertMessage, WakeMentionedAIs, MessageEnds, history
<1>2. outside' \in BOOLEAN /\ MessageOK' /\ MessageHolds'
  <2>1. /\ post \in {"none", "checked", "inserted", "looked up"} /\ outside \in BOOLEAN
        /\ woken \in BOOLEAN /\ wasMember \in BOOLEAN /\ MessageHolds
    BY DEF TeamInv, TypeOK
  <2>2. Reachable(row', members') <=> Reachable(row, members)
    BY <1>1 DEF Reachable, database
  <2>3. CASE CreateMessage
    BY <2>1, <2>2, <2>3
       DEF CreateMessage, Allowed, history, MessageHolds, MessageOK, Reachable
  <2>4. CASE InsertMessage
    BY <2>1, <2>2, <2>4 DEF InsertMessage, MessageHolds, MessageOK, Reachable
  <2>5. CASE WakeMentionedAIs
    BY <2>1, <2>2, <2>5
       DEF WakeMentionedAIs, Found, history, MessageHolds, MessageOK, Reachable
  <2>6. CASE MessageEnds
    BY <2>1, <2>2, <2>6 DEF MessageEnds, MessageHolds, MessageOK
  <2> QED BY <2>3, <2>4, <2>5, <2>6
<1>3. TypeOK'
  <2>1. RowOK' /\ RequestOK' /\ LoadOK' /\ BrowserOK' /\ SeedOK' /\ IntendedOK'
    BY <1>1, TypeParts, PartsKept DEF database, browser, TeamInv
  <2>2. HistoryOK'
    BY <1>1, <1>2, TypeParts DEF HistoryOK, TeamInv
  <2> QED BY <1>2, <2>1, <2>2, TypePartsPrimed
<1>4. RequestHolds' /\ RowHolds' /\ SeedHolds' /\ ListHolds'
  BY <1>1, HoldsKept DEF TeamInv, database, browser
<1> QED BY <1>2, <1>3, <1>4 DEF TeamInv

LEMMA StutterKeeps == ASSUME TeamInv, UNCHANGED vars PROVE TeamInv'
<1>1. UNCHANGED <<database, request, browser, seed, message, history, writes>>
  BY DEF vars
<1>2. TypeOK'
  BY <1>1, TypeParts, PartsKept, TypePartsPrimed DEF database, browser, message, history, TeamInv
<1>3. RequestHolds' /\ RowHolds' /\ MessageHolds' /\ SeedHolds' /\ ListHolds'
  BY <1>1, HoldsKept DEF TeamInv, database, browser, message, history
<1> QED BY <1>2, <1>3 DEF TeamInv

LEMMA NextKeeps == ASSUME TeamInv, [Next]_vars PROVE TeamInv'
<1>1. ASSUME NEW w \in Writer, Commit(w) \/ CommitFails(w) PROVE TeamInv'
  BY <1>1, CommitKeeps, RequestEndsKeeps
<1>2. ASSUME NEW w \in Own, AnswerLost(w) \/ Answered(w) \/ ShowError(w) PROVE TeamInv'
  BY <1>2, AnsweredKeeps, RequestEndsKeeps, WriterType
<1>3. ASSUME NEW fields \in SUBSET Field, NEW status \in {"active", "inactive", Same},
             Operate(fields, status)
      PROVE  TeamInv'
  BY <1>3, OperateKeeps
<1>4. CASE OperatorRefused \/ Create
  <2>1. "operator" \in Writer
    BY DEF Writer
  <2> QED BY <1>4, <2>1, RequestEndsKeeps, CreateKeeps
<1>5. CASE Mount \/ LoadArrives \/ OpenEditDialog \/ CloseDialog \/ SetAIStatus
  BY <1>5, MountKeeps, LoadArrivesKeeps, DialogKeeps, SetAIStatusKeeps
<1>6. ASSUME NEW edited \in SUBSET Field, SubmitForm(edited) PROVE TeamInv'
  BY <1>6, SubmitFormKeeps
<1>7. ASSUME NEW u \in {Person, Agent}, AddMember(u) \/ RemoveMember(u) \/ SeedMember(u)
      PROVE  TeamInv'
  BY <1>7, MembersKeep, SeedMemberKeeps
<1>8. CASE SeedBegin \/ SeedHumans \/ SeedAIs \/ SeedReadsUsers \/ SeedEnds
  BY <1>8, SeedBeginKeeps, SeedHumansKeeps, SeedAIsKeeps, SeedReadsUsersKeeps, SeedEndsKeeps
<1>9. CASE CreateMessage \/ InsertMessage \/ WakeMentionedAIs \/ MessageEnds
  BY <1>9, MessageStepKeeps
<1>10. CASE UNCHANGED vars
  BY <1>10, StutterKeeps
<1> QED BY <1>1, <1>2, <1>3, <1>4, <1>5, <1>6, <1>7, <1>8, <1>9, <1>10 DEF Next

-----------------------------------------------------------------------------
(***************************************************************************)
(* What follows                                                            *)
(***************************************************************************)

\* The row, the requests on it, the browser's copy, the seed and the message
\* stay related in all interleavings of their steps.
THEOREM TeamInvHolds == Spec => []TeamInv
<1>1. TeamInv /\ [Next]_vars => TeamInv'
  BY NextKeeps
<1> QED BY <1>1, TeamInvInit, PTL DEF Spec

\* Every variable keeps its type.
THEOREM TypesHold == Spec => []TypeOK
<1>1. TeamInv => TypeOK
  BY DEF TeamInv
<1> QED BY <1>1, TeamInvHolds, PTL

\* No PATCH that read the colleague active switches it on again
\* (api/ai-colleagues/[id]).
THEOREM OffStaysOff == Spec => []StaysOff
<1>1. TeamInv => StaysOff
  BY DEF TeamInv, RowHolds, StaysOff
<1> QED BY <1>1, TeamInvHolds, PTL

\* An edit is lost only to a form or a read that was out of date.
THEOREM EditsAreKept == Spec => []EditsKept
<1>1. TeamInv => EditsKept
  BY DEF TeamInv, RowHolds, EditsKept
<1> QED BY <1>1, TeamInvHolds, PTL

\* The list of TeammateManager shows the row, unless one of three named reasons
\* applies.
THEOREM TheListShowsTheRow == Spec => []ListShowsRow
<1>1. TeamInv => ListShowsRow
  <2> SUFFICES ASSUME TeamInv, list # NoRow, \A w \in Own : request[w] = Free, strays = {}
               PROVE  list = row
    BY DEF ListShowsRow
  <2>1. \A w \in Own : request[w].at # "done"
    BY RequestsMade DEF Free
  <2> QED BY <2>1 DEF TeamInv, ListHolds
<1> QED BY <1>1, TeamInvHolds, PTL

\* A seed that completes undisturbed has restored the colleague and the
\* memberships, however many seeds were killed before it.
THEOREM TheSeedRestores == Spec => []SeedRestores
<1>1. TeamInv => SeedRestores
  BY DEF TeamInv, SeedHolds, SeedRestores
<1> QED BY <1>1, TeamInvHolds, PTL

\* A stored message had a sender who was a member since the call began.
THEOREM MembersPost == Spec => []PostedByMember
<1>1. TeamInv => PostedByMember
  BY DEF TeamInv, MessageHolds, PostedByMember
<1> QED BY <1>1, TeamInvHolds, PTL

\* A message does not wake a colleague that could not be reached from its
\* insert to the query.
THEOREM WakesAreInside == Spec => []WokenInside
<1>1. TeamInv => WokenInside
  BY DEF TeamInv, MessageHolds, WokenInside
<1> QED BY <1>1, TeamInvHolds, PTL
=============================================================================
