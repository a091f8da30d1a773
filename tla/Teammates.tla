------------------------------- MODULE Teammates -------------------------------
(***************************************************************************)
(* An AI colleague as a row of table User, everybody who writes it, and    *)
(* the message that looks it up.                                           *)
(*                                                                         *)
(* The row is edited in the dialog of TeammateManager and switched off and *)
(* on by the buttons of its list, by other operators through the same      *)
(* routes, and by the seed, which can run beside the server.  A PATCH      *)
(* reads the row, merges and writes it in two queries; the browser works   *)
(* on the rows of its last answers.  The colleague and a person are        *)
(* members of a channel or not; MessageService.create checks the sender    *)
(* before the insert and looks for mentioned colleagues after it.          *)
(*                                                                         *)
(* One colleague and one channel: the rows of others are independent.      *)
(***************************************************************************)
EXTENDS Naturals, FiniteSets

CONSTANTS
    Person,     \* the human who posts
    Agent,      \* the AI colleague
    Field,      \* the fields of aiSettings that the routes merge
    NoRow,      \* the row does not exist, or the browser does not know it
    NoForm,     \* the dialog is closed
    Same,       \* a PATCH without aiStatus
    MaxWrites   \* bound of the model: requests, loads, seeds and changes of members

ASSUME UserAssumption == Person # Agent
ASSUME NoValueAssumption == Same \notin {"active", "inactive"} /\ MaxWrites \in Nat

VARIABLES
    row,          \* the colleague in table User
    known,        \* the person exists in table User
    members,      \* the members of the channel
    request,      \* the request that each of the writers has under way
    list,         \* the colleague in the list of TeammateManager
    dialog,       \* its dialog: the row it was opened with
    loading,      \* a load of the list: what it read
    seed,         \* the seed: where it is, and whom it has still to add
    post,         \* where the message is
    woken,        \* the colleague was woken for it
    intended,     \* history: what the last editor of each field wanted in it
    overwritten,  \* history: an edit was lost to a stale or an overlapping one
    off,          \* history: switched off, and neither on again nor seeded since
    strays,       \* history: why the list may differ from the row since it was loaded
    undisturbed,  \* history: nobody else has written since the seed began
    wasMember,    \* history: the sender was a member since its call began
    outside,      \* history: inactive or no member since before the insert
    writes        \* requests, loads, seeds and changes of members so far

database == <<row, known, members>>
browser == <<list, dialog, loading>>
message == <<post, woken, wasMember>>
history == <<intended, overwritten, off, strays, undisturbed, outside>>
vars == <<database, request, browser, seed, message, history, writes>>

\* The writers: the dialog and the buttons of the browser, another operator.
Writer == {"dialog", "button", "operator"}
Own == {"dialog", "button"}

\* Who a value is from; the seed's and the creator's are the initial ones.
Value == Writer \cup {"seed"}
Settings == [Field -> Value]
Row == [status : {"active", "inactive"}, settings : Settings]
Default == [status |-> "active", settings |-> [f \in Field |-> "seed"]]

ASSUME NoRowAssumption == NoRow \notin Row /\ NoForm \notin Row

\* A request: the fields it carries, their values, the status; then the fields
\* its author has edited and the settings that were seen with them.
Ask == [fields : SUBSET Field, settings : Settings, status : {"active", "inactive", Same},
        edited : SUBSET Field, seen : Settings]

Free == [at |-> "free"]
Failed == [at |-> "failed"]
Read(ask, found) == [at |-> "read", ask |-> ask, row |-> found]
Done(saved) == [at |-> "done", row |-> saved]
Request == {Free, Failed} \cup {Read(a, r) : a \in Ask, r \in Row} \cup {Done(r) : r \in Row}

NoLoad == [at |-> "none"]
LoadOf(found) == [at |-> "read", row |-> found]
SeedAt(at, left) == [at |-> at, left |-> left]

TypeOK ==
    /\ row \in Row \cup {NoRow} /\ known \in BOOLEAN /\ members \subseteq {Person, Agent}
    /\ request \in [Writer -> Request]
    /\ list \in Row \cup {NoRow} /\ dialog \in Row \cup {NoForm}
    /\ loading \in {NoLoad} \cup {LoadOf(r) : r \in Row \cup {NoRow}}
    /\ seed.at \in {"off", "humans", "ais", "users", "members", "complete"}
    /\ seed.left \subseteq {Person, Agent}
    /\ post \in {"none", "checked", "inserted", "looked up"} /\ woken \in BOOLEAN
    /\ intended \in Settings /\ overwritten \in BOOLEAN /\ off \in BOOLEAN
    /\ strays \subseteq {"elsewhere", "lost", "crossed"}
    /\ undisturbed \in BOOLEAN /\ wasMember \in BOOLEAN /\ outside \in BOOLEAN
    /\ writes \in 0..MaxWrites

\* A workspace that was seeded without the two, and one that was seeded with them.
Init ==
    /\ \/ row = NoRow /\ known = FALSE /\ members = {}
       \/ row = Default /\ known = TRUE /\ members = {Person, Agent}
    /\ request = [w \in Writer |-> Free]
    /\ list = NoRow /\ dialog = NoForm /\ loading = NoLoad
    /\ seed = SeedAt("off", {})
    /\ post = "none" /\ woken = FALSE
    /\ intended = Default.settings /\ overwritten = FALSE /\ off = FALSE
    /\ strays = {} /\ undisturbed = FALSE /\ wasMember = FALSE /\ outside = FALSE
    /\ writes = 0

-----------------------------------------------------------------------------
(***************************************************************************)
(* The routes of ai-colleagues                                             *)
(***************************************************************************)

Counted == writes < MaxWrites /\ writes' = writes + 1

\* With the row r and the members ms, the colleague answers mentions.
Reachable(r, ms) == r # NoRow /\ r.status = "active" /\ Agent \in ms

\* What a write of the row or of the members means to the history.
Wrote(by) ==
    /\ strays' = IF by \in Own \/ row' = row THEN strays ELSE strays \cup {"elsewhere"}
    /\ undisturbed' = (undisturbed /\ by = "seed")
    /\ outside' = (outside /\ ~Reachable(row', members'))
    /\ wasMember' = (wasMember \/ (post # "none" /\ Person \in members'))

\* A request arrives and finds the row.  One that is sent before another of the
\* same browser is answered may be overtaken.
Begin(w, ask) ==
    /\ Counted
    /\ request[w] = Free
    /\ request' = [request EXCEPT ![w] = IF row = NoRow THEN Failed ELSE Read(ask, row)]
    /\ strays' = IF w \in Own /\ \E other \in Own \ {w} : request[other] # Free
                 THEN strays \cup {"crossed"} ELSE strays
    /\ UNCHANGED <<database, browser, seed, message,
                   intended, overwritten, off, undisturbed, outside>>

\* Mutant: a field that the request does not carry falls back to its default.
MergedDefault(ask, found) ==
    [f \in Field |-> IF f \in ask.fields THEN ask.settings[f] ELSE "seed"]

\* mergeAISettings: the fields of the request over those that were read.
Merged(ask, found) ==
    [f \in Field |-> IF f \in ask.fields THEN ask.settings[f] ELSE found.settings[f]]

\* Mutant: the row is written back as it was read.
UpdatedWhole(ask, found) ==
    [status |-> IF ask.status = Same THEN found.status ELSE ask.status,
     settings |-> Merged(ask, found)]

\* The update names aiSettings if the request carries a field of it, and
\* aiStatus if it carries that.
Updated(ask, found) ==
    [status |-> IF ask.status = Same THEN row.status ELSE ask.status,
     settings |-> IF ask.fields = {} THEN row.settings ELSE Merged(ask, found)]

\* A field that nobody edited is written from a form or a read that is out of
\* date.
Stale(ask, found) ==
    \E f \in Field \ ask.edited :
        ask.fields # {} /\
            row.settings[f] # IF f \in ask.fields THEN ask.seen[f] ELSE found.settings[f]

Intends(ask) == [f \in Field |-> IF f \in ask.edited THEN ask.settings[f] ELSE intended[f]]

Commit(w) ==
    /\ request[w].at = "read"
    /\ LET ask == request[w].ask
           found == request[w].row IN
       /\ row' = Updated(ask, found)
       /\ intended' = Intends(ask)
       /\ overwritten' = (row'.settings # intended' /\ (overwritten \/ Stale(ask, found)))
       /\ off' = IF ask.status = Same THEN off ELSE ask.status = "inactive"
    /\ request' = [request EXCEPT ![w] = IF w \in Own THEN Done(row') ELSE Free]
    /\ UNCHANGED <<known, members, browser, seed, post, woken, writes>>
    /\ Wrote(w)

\* The update fails; another operator's browser is not modelled.
CommitFails(w) ==
    /\ request[w].at = "read"
    /\ request' = [request EXCEPT ![w] = IF w \in Own THEN Failed ELSE Free]
    /\ UNCHANGED <<database, browser, seed, message, history, writes>>

\* The row is written and the browser does not learn of it.
AnswerLost(w) ==
    /\ request[w].at = "done"
    /\ request' = [request EXCEPT ![w] = Failed]
    /\ strays' = strays \cup {"lost"}
    /\ UNCHANGED <<database, browser, seed, message,
                   intended, overwritten, off, undisturbed, outside, writes>>

\* Another operator sends any fields or a status.
Operate(fields, status) ==
    /\ fields # {} \/ status # Same
    /\ Begin("operator", [fields |-> fields, settings |-> [f \in Field |-> "operator"],
                          status |-> status, edited |-> fields, seen |-> Default.settings])

OperatorRefused ==
    /\ request["operator"] = Failed
    /\ request' = [request EXCEPT !["operator"] = Free]
    /\ UNCHANGED <<database, browser, seed, message, history, writes>>

\* POST: a colleague with initial settings, a member of no channel.
Create ==
    /\ row = NoRow
    /\ row' = Default
    /\ UNCHANGED <<known, members, request, browser, seed, post, woken,
                   intended, overwritten, off, writes>>
    /\ Wrote("operator")

-----------------------------------------------------------------------------
(***************************************************************************)
(* TeammateManager                                                         *)
(***************************************************************************)

\* The page is loaded anew, while it has no request under way.
Mount ==
    /\ Counted
    /\ \A w \in Own : request[w] = Free
    /\ list' = NoRow /\ dialog' = NoForm
    /\ loading' = LoadOf(row)
    /\ strays' = {}
    /\ UNCHANGED <<database, request, seed, message,
                   intended, overwritten, off, undisturbed, outside>>

LoadArrives ==
    /\ loading # NoLoad
    /\ loading' = NoLoad
    /\ list' \in {loading.row, list}
    /\ UNCHANGED <<database, request, dialog, seed, message, history, writes>>

OpenEditDialog ==
    /\ list # NoRow /\ dialog = NoForm
    /\ dialog' = list
    /\ UNCHANGED <<database, request, list, loading, seed, message, history, writes>>

\* Escape and the backdrop close it while it submits, too.
CloseDialog ==
    /\ dialog # NoForm
    /\ dialog' = NoForm
    /\ UNCHANGED <<database, request, list, loading, seed, message, history, writes>>

\* Mutant: fields that the user leaves alone are sent empty.
FormBlank(edited) == [f \in Field |-> IF f \in edited THEN "dialog" ELSE "seed"]

\* The form begins as the row and is sent whole.
Form(edited) == [f \in Field |-> IF f \in edited THEN "dialog" ELSE dialog.settings[f]]

SubmitForm(edited) ==
    /\ dialog # NoForm
    /\ Begin("dialog", [fields |-> Field, settings |-> Form(edited), status |-> Same,
                        edited |-> edited, seen |-> dialog.settings])

\* The buttons of the list, which the open dialog covers.
SetAIStatus ==
    /\ list # NoRow /\ dialog = NoForm
    /\ Begin("button", [fields |-> {}, settings |-> Default.settings,
                        status |-> IF list.status = "active" THEN "inactive" ELSE "active",
                        edited |-> {}, seen |-> Default.settings])

\* Mutant: the list takes over the settings and keeps the status it shows.
ListedPartly(saved) == [saved EXCEPT !.status = list.status]

\* The list holds the row of the answer.
Listed(saved) == saved

\* The dialog closes, also one that was opened after this request was sent.
Answered(w) ==
    /\ request[w].at = "done"
    /\ list' = Listed(request[w].row)
    /\ dialog' = IF w = "dialog" THEN NoForm ELSE dialog
    /\ request' = [request EXCEPT ![w] = Free]
    /\ UNCHANGED <<database, loading, seed, message, history, writes>>

ShowError(w) ==
    /\ w \in Own /\ request[w] = Failed
    /\ request' = [request EXCEPT ![w] = Free]
    /\ UNCHANGED <<database, browser, seed, message, history, writes>>

-----------------------------------------------------------------------------
(***************************************************************************)
(* Channel members                                                         *)
(***************************************************************************)

Exists == {u \in {Person, Agent} : IF u = Person THEN known ELSE row # NoRow}

AddMember(u) ==
    /\ Counted
    /\ u \in Exists \ members
    /\ members' = members \cup {u}
    /\ UNCHANGED <<row, known, request, browser, seed, post, woken, intended, overwritten, off>>
    /\ Wrote("operator")

RemoveMember(u) ==
    /\ Counted
    /\ u \in members
    /\ members' = members \ {u}
    /\ UNCHANGED <<row, known, request, browser, seed, post, woken, intended, overwritten, off>>
    /\ Wrote("operator")

-----------------------------------------------------------------------------
(***************************************************************************)
(* The seed: upserts in no transaction                                     *)
(***************************************************************************)

SeedBegin ==
    /\ Counted
    /\ seed.at = "off"
    /\ seed' = SeedAt("humans", {})
    /\ undisturbed' = TRUE
    /\ UNCHANGED <<database, request, browser, message,
                   intended, overwritten, off, strays, outside>>

SeedHumans ==
    /\ seed.at = "humans"
    /\ seed' = SeedAt("ais", {})
    /\ known' = TRUE
    /\ UNCHANGED <<row, members, request, browser, message, history, writes>>

SeedAIs ==
    /\ seed.at = "ais"
    /\ seed' = SeedAt("users", {})
    /\ row' = Default
    /\ intended' = Default.settings /\ overwritten' = FALSE /\ off' = FALSE
    /\ UNCHANGED <<known, members, request, browser, post, woken, writes>>
    /\ Wrote("seed")

\* Everybody in the workspace joins.
Join == Exists

\* seedChannelMembers reads the users.
SeedReadsUsers ==
    /\ seed.at = "users"
    /\ seed' = SeedAt(IF Join = {} THEN "complete" ELSE "members", Join)
    /\ UNCHANGED <<database, request, browser, message, history, writes>>

SeedMember(u) ==
    /\ seed.at = "members" /\ u \in seed.left
    /\ seed' = SeedAt(IF seed.left = {u} THEN "complete" ELSE "members", seed.left \ {u})
    /\ members' = members \cup {u}
    /\ UNCHANGED <<row, known, request, browser, post, woken,
                   intended, overwritten, off, writes>>
    /\ Wrote("seed")

\* It ends, or fails or is killed at any point.
SeedEnds ==
    /\ seed.at # "off"
    /\ seed' = SeedAt("off", {})
    /\ UNCHANGED <<database, request, browser, message, history, writes>>

-----------------------------------------------------------------------------
(***************************************************************************)
(* MessageService.create                                                   *)
(***************************************************************************)

Allowed == Person \in members

CreateMessage ==
    /\ post = "none" /\ known
    /\ Allowed
    /\ post' = "checked"
    /\ wasMember' = (Person \in members)
    /\ UNCHANGED <<database, request, browser, seed, woken, history, writes>>

\* The insert and, in the same turn, the broadcast.
InsertMessage ==
    /\ post = "checked"
    /\ post' = "inserted"
    /\ outside' = ~Reachable(row, members)
    /\ UNCHANGED <<database, request, browser, seed, woken, wasMember,
                   intended, overwritten, off, strays, undisturbed, writes>>

\* Mutant: the query has no condition on aiStatus.
FoundInactive == row # NoRow /\ Agent \in members

\* The query of wakeMentionedAIs.
Found == row # NoRow /\ row.status = "active" /\ Agent \in members

WakeMentionedAIs ==
    /\ post = "inserted"
    /\ post' = "looked up"
    /\ woken' = Found
    /\ UNCHANGED <<database, request, browser, seed, wasMember, history, writes>>

\* It is over; or the insert or the query fails, the mention is over its rate, or
\* there is none.
MessageEnds ==
    /\ post # "none"
    /\ post' = "none" /\ woken' = FALSE /\ wasMember' = FALSE /\ outside' = FALSE
    /\ UNCHANGED <<database, request, browser, seed,
                   intended, overwritten, off, strays, undisturbed, writes>>

-----------------------------------------------------------------------------
Next ==
    \/ \E w \in Writer : Commit(w) \/ CommitFails(w)
    \/ \E w \in Own : AnswerLost(w) \/ Answered(w) \/ ShowError(w)
    \/ \E fields \in SUBSET Field, status \in {"active", "inactive", Same} :
          Operate(fields, status)
    \/ OperatorRefused \/ Create
    \/ Mount \/ LoadArrives \/ OpenEditDialog \/ CloseDialog \/ SetAIStatus
    \/ \E edited \in SUBSET Field : SubmitForm(edited)
    \/ \E u \in {Person, Agent} : AddMember(u) \/ RemoveMember(u) \/ SeedMember(u)
    \/ SeedBegin \/ SeedHumans \/ SeedAIs \/ SeedReadsUsers \/ SeedEnds
    \/ CreateMessage \/ InsertMessage \/ WakeMentionedAIs \/ MessageEnds

Spec == Init /\ [][Next]_vars

-----------------------------------------------------------------------------
(***************************************************************************)
(* Properties                                                              *)
(***************************************************************************)

\* A colleague that was switched off stays off until somebody switches it on
\* or the seed runs, although edits that read it active are written later.
StaysOff == off => row.status = "inactive"

\* The settings are what their editors wanted, unless a form or a read that was
\* out of date wrote a field that nobody edited: the routes keep no version.
EditsKept == row # NoRow => (overwritten \/ row.settings = intended)

\* When its requests are answered, the list shows the row as it is, unless
\* somebody else wrote it, an answer was lost, or two requests of this browser
\* were under way together.
ListShowsRow ==
    (list # NoRow /\ loading = NoLoad /\ \A w \in Own : request[w] = Free)
        => (strays # {} \/ list = row)

\* A seed that runs to its end restores the colleague and the memberships,
\* wherever earlier runs of it ended.
SeedRestores ==
    (seed.at = "complete" /\ undisturbed) =>
        (row = Default /\ known /\ members = {Person, Agent})

\* A message is stored only for a sender who was a member at some time since
\* the call began: a removal can come between the check and the insert, not
\* before.
PostedByMember == post \in {"inserted", "looked up"} => wasMember

\* A colleague that is inactive or no member when the message is stored, and
\* stays so, is not woken by it.
WokenInside == woken => ~outside
=============================================================================
