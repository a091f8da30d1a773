------------------------------ MODULE ChannelForms ------------------------------
(***************************************************************************)
(* What one writes in a channel: the composer of messages and the          *)
(* knowledge card, in one browser that changes between channels.           *)
(*                                                                         *)
(* The composer clears its text when the request for it succeeds, and the  *)
(* user may type and send on while it is under way.  The card is loaded    *)
(* when a channel comes into view, edited as a copy and saved whole; other *)
(* people save it too.  When the channel changes, the components may be    *)
(* kept or mounted anew.  Requests fail, and answers get lost.             *)
(***************************************************************************)
EXTENDS Naturals, FiniteSets

CONSTANTS
    Channel,     \* the channels
    MaxTexts,    \* bound of the model: texts typed into the composer
    MaxSends,    \* bound of the model: messages sent
    MaxSaves,    \* bound of the model: edits of cards, by anybody
    MaxVisits,   \* bound of the model: changes between channels
    MaxActs      \* bound of the model: all of these together

ASSUME BoundAssumption ==
    /\ MaxTexts \in Nat /\ MaxSends \in Nat /\ MaxSaves \in Nat /\ MaxVisits \in Nat
    /\ MaxActs \in Nat

VARIABLES
    view,      \* the channel in view
    mount,     \* the instance of the components
    visits,    \* changes between channels so far

    typed,     \* the text in the composer
    texts,     \* texts typed so far
    sends,     \* the requests of the composer under way
    sent,      \* requests so far
    stored,    \* table Message: how often each text is stored
    clouded,   \* history: texts typed or sent while a request was under way
    unsure,    \* history: texts whose request failed or got no answer
    gone,      \* history: texts the composer cleared before they were stored

    card,      \* the knowledge of each channel
    content,   \* the card as the browser knows it
    draft,     \* the edit: what it is based on, and the new text
    load,      \* the load under way
    puts,      \* the saves under way
    saves,     \* texts of cards so far
    astray,    \* history: why the browser may not know the card in view
    blind      \* history: a card was replaced by somebody who did not know it

place == <<view, mount, visits>>
composer == <<typed, texts, sends, sent, stored, clouded, unsure, gone>>
cards == <<card, content, draft, load, puts, saves, astray, blind>>
vars == <<place, composer, cards>>

Empty == 0
Text == 1..MaxTexts
Send == [id : 1..MaxSends, text : Text, mount : Nat, at : {"sent", "stored", "failed"}]
Card == 0..MaxSaves
NoDraft == [open |-> FALSE, base |-> Empty, text |-> Empty]
NoLoad == [at |-> "none"]
LoadOf(c) == [at |-> "sent", channel |-> c]
ReadOf(c, found) == [at |-> "read", channel |-> c, value |-> found]
Load == {NoLoad} \cup [at : {"sent"}, channel : Channel]
            \cup [at : {"read"}, channel : Channel, value : Card]
Put == [channel : Channel, mount : Nat, base : Card, text : Card, sure : BOOLEAN,
        at : {"sent", "done", "failed"}]
Reason == {"elsewhere", "not loaded", "lost", "earlier"}

TypeOK ==
    /\ view \in Channel /\ visits \in 0..MaxVisits /\ mount \in 0..visits
    /\ typed \in Text \cup {Empty} /\ texts \in 0..MaxTexts /\ sent \in 0..MaxSends
    /\ sends \subseteq Send /\ stored \in [Text -> Nat]
    /\ clouded \subseteq Text /\ unsure \subseteq Text /\ gone \subseteq Text
    /\ card \in [Channel -> Card] /\ content \in Card /\ saves \in Card
    /\ draft \in [open : BOOLEAN, base : Card, text : Card]
    /\ load \in Load /\ puts \subseteq Put
    /\ astray \subseteq Reason /\ blind \in BOOLEAN

Init ==
    /\ view \in Channel /\ mount = 0 /\ visits = 0
    /\ typed = Empty /\ texts = 0 /\ sends = {} /\ sent = 0
    /\ stored = [t \in Text |-> 0] /\ clouded = {} /\ unsure = {} /\ gone = {}
    /\ card = [c \in Channel |-> Empty] /\ content = Empty /\ draft = NoDraft
    /\ load = LoadOf(view) /\ puts = {} /\ saves = 0
    /\ astray = {} /\ blind = FALSE

-----------------------------------------------------------------------------
(***************************************************************************)
(* MessageComposer                                                         *)
(***************************************************************************)

\* One more text, message, edit or visit.
MayAct == texts + sent + saves + visits < MaxActs

\* The requests whose answers this composer waits for.
Waiting == {s \in sends : s.mount = mount}

Type ==
    /\ MayAct /\ texts < MaxTexts
    /\ texts' = texts + 1 /\ typed' = texts + 1
    /\ clouded' = IF Waiting = {} THEN clouded ELSE clouded \cup {texts + 1}
    /\ UNCHANGED <<place, sends, sent, stored, unsure, gone, cards>>

\* Nothing stops a second submit of the same text.
HandleSubmit ==
    /\ MayAct /\ typed # Empty /\ sent < MaxSends
    /\ sent' = sent + 1
    /\ sends' = sends \cup {[id |-> sent + 1, text |-> typed, mount |-> mount, at |-> "sent"]}
    /\ clouded' = IF Waiting = {} THEN clouded ELSE clouded \cup {typed}
    /\ UNCHANGED <<place, typed, texts, stored, unsure, gone, cards>>

Moved(s, at) == (sends \ {s}) \cup {[s EXCEPT !.at = at]}

StoreMessage(s) ==
    /\ s.at = "sent"
    /\ sends' = Moved(s, "stored")
    /\ stored' = [stored EXCEPT ![s.text] = @ + 1]
    /\ UNCHANGED <<place, typed, texts, sent, clouded, unsure, gone, cards>>

\* Over the rate, not valid, no member, an error of the database.
RefuseMessage(s) ==
    /\ s.at = "sent"
    /\ sends' = Moved(s, "failed")
    /\ UNCHANGED <<place, typed, texts, sent, stored, clouded, unsure, gone, cards>>

MessageAnswerLost(s) ==
    /\ s.at = "stored"
    /\ sends' = Moved(s, "failed")
    /\ UNCHANGED <<place, typed, texts, sent, stored, clouded, unsure, gone, cards>>

\* Mutant: the text stays where it is.
AfterSendKept == typed

\* setContent('')
AfterSend == Empty

\* Mutant: the text is cleared in a finally block.
AfterErrorCleared == Empty

\* The request throws before the text is cleared.
AfterError == typed

Cleared(text) ==
    /\ typed' = text
    /\ gone' = IF text = Empty /\ typed # Empty /\ stored[typed] = 0
               THEN gone \cup {typed} ELSE gone

SendSucceeds(s) ==
    /\ s.at = "stored"
    /\ sends' = sends \ {s}
    /\ IF s.mount = mount THEN Cleared(AfterSend) ELSE UNCHANGED <<typed, gone>>
    /\ UNCHANGED <<place, texts, sent, stored, clouded, unsure, cards>>

SendFails(s) ==
    /\ s.at = "failed"
    /\ sends' = sends \ {s}
    /\ unsure' = unsure \cup {s.text}
    /\ IF s.mount = mount THEN Cleared(AfterError) ELSE UNCHANGED <<typed, gone>>
    /\ UNCHANGED <<place, texts, sent, stored, clouded, cards>>

-----------------------------------------------------------------------------
(***************************************************************************)
(* ChannelKnowledgeCard                                                    *)
(***************************************************************************)

\* The load reads the card; the effect drops it when the channel has changed.
ReadCard ==
    /\ load.at = "sent"
    /\ load' = ReadOf(load.channel, card[load.channel])
    /\ UNCHANGED <<place, composer, card, content, draft, puts, saves, astray, blind>>

LoadArrives ==
    /\ load.at = "read"
    /\ content' = load.value
    /\ load' = NoLoad
    /\ UNCHANGED <<place, composer, card, draft, puts, saves, astray, blind>>

\* The card in view keeps the text it has, and can be edited.
LoadFails ==
    /\ load.at # "none"
    /\ load' = NoLoad
    /\ astray' = astray \cup {"not loaded"}
    /\ UNCHANGED <<place, composer, card, content, draft, puts, saves, blind>>

\* The body of the card is there when it is not loading.
Editable == load.at = "none"

StartEdit ==
    /\ MayAct /\ Editable /\ ~draft.open /\ saves < MaxSaves
    /\ saves' = saves + 1
    /\ draft' = [open |-> TRUE, base |-> content, text |-> saves + 1]
    /\ UNCHANGED <<place, composer, card, content, load, puts, astray, blind>>

\* The saves whose answers this card waits for.
Saving == {s \in puts : s.mount = mount}

CancelEdit ==
    /\ draft.open /\ Saving = {}
    /\ draft' = NoDraft
    /\ UNCHANGED <<place, composer, card, content, load, puts, saves, astray, blind>>

Save ==
    /\ draft.open /\ Saving = {} /\ Editable
    /\ puts' = puts \cup {[channel |-> view, mount |-> mount, base |-> draft.base,
                           text |-> draft.text, sure |-> (astray = {}), at |-> "sent"]}
    /\ UNCHANGED <<place, composer, card, content, draft, load, saves, astray, blind>>

\* The saves of a card that are to come no longer know what it holds.
Overtaken(c, remaining) ==
    {IF s.channel = c /\ s.at = "sent" THEN [s EXCEPT !.sure = FALSE] ELSE s : s \in remaining}

\* PUT knowledge: the whole card, whatever it holds by now.
SetKnowledge(s) ==
    /\ s.at = "sent"
    /\ card' = [card EXCEPT ![s.channel] = s.text]
    /\ puts' = Overtaken(s.channel, puts \ {s}) \cup {[s EXCEPT !.at = "done"]}
    /\ blind' = (blind \/ (s.sure /\ s.base # card[s.channel]))
    /\ UNCHANGED <<place, composer, content, draft, load, saves, astray>>

\* Over the rate, too long, an error of the database; or the answer is lost.
SaveRefused(s) ==
    /\ s.at \in {"sent", "done"}
    /\ puts' = (puts \ {s}) \cup {[s EXCEPT !.at = "failed"]}
    /\ astray' = IF s.at = "done" THEN astray \cup {"lost"} ELSE astray
    /\ UNCHANGED <<place, composer, card, content, draft, load, saves, blind>>

\* Mutant: the browser goes on with the card it had.
SavedOld(answer) == content

\* setContent: the card of the answer.
Saved(answer) == answer.text

\* An answer that comes to a kept component is shown in the channel in view.
SaveSucceeds(s) ==
    /\ s.at = "done"
    /\ puts' = puts \ {s}
    /\ IF s.mount = mount
       THEN content' = Saved(s) /\ draft' = NoDraft
       ELSE UNCHANGED <<content, draft>>
    /\ UNCHANGED <<place, composer, card, load, saves, astray, blind>>

\* The error is shown; the edit goes on.
SaveFails(s) ==
    /\ s.at = "failed"
    /\ puts' = puts \ {s}
    /\ UNCHANGED <<place, composer, card, content, draft, load, saves, astray, blind>>

SaveElsewhere(c) ==
    /\ MayAct /\ saves < MaxSaves
    /\ saves' = saves + 1
    /\ card' = [card EXCEPT ![c] = saves + 1]
    /\ puts' = Overtaken(c, puts)
    /\ astray' = IF c = view THEN astray \cup {"elsewhere"} ELSE astray
    /\ UNCHANGED <<place, composer, content, draft, load, blind>>

-----------------------------------------------------------------------------
(***************************************************************************)
(* Another channel comes into view                                         *)
(***************************************************************************)

\* The effect of the card: a new load, and no edit.
Entered(c, earlier) ==
    /\ MayAct /\ visits < MaxVisits /\ c # view
    /\ visits' = visits + 1
    /\ view' = c
    /\ load' = LoadOf(c) /\ draft' = NoDraft
    /\ astray' = IF earlier = {} THEN {} ELSE {"earlier"}

\* The components are kept: the text of the composer, the card of the channel
\* that was in view, and the wait for a save stay.
VisitKept(c) ==
    /\ Entered(c, {s \in puts : s.channel = c \/ s.mount = mount})
    /\ mount' = mount
    /\ UNCHANGED <<composer, card, content, puts, saves, blind>>

\* They are mounted anew: answers to the old ones change nothing in view.
VisitFresh(c) ==
    /\ Entered(c, {s \in puts : s.channel = c})
    /\ mount' = mount + 1
    /\ typed' = Empty /\ content' = Empty
    /\ UNCHANGED <<texts, sends, sent, stored, clouded, unsure, gone>>
    /\ UNCHANGED <<card, puts, saves, blind>>

-----------------------------------------------------------------------------
Next ==
    \/ Type \/ HandleSubmit
    \/ \E s \in sends :
          \/ StoreMessage(s) \/ RefuseMessage(s) \/ MessageAnswerLost(s)
          \/ SendSucceeds(s) \/ SendFails(s)
    \/ ReadCard \/ LoadArrives \/ LoadFails
    \/ StartEdit \/ CancelEdit \/ Save
    \/ \E s \in puts :
          SetKnowledge(s) \/ SaveRefused(s) \/ SaveSucceeds(s) \/ SaveFails(s)
    \/ \E c \in Channel : SaveElsewhere(c) \/ VisitKept(c) \/ VisitFresh(c)

Spec == Init /\ [][Next]_vars

-----------------------------------------------------------------------------
(***************************************************************************)
(* Properties                                                              *)
(***************************************************************************)

\* A text is cleared only when it is stored, unless it was typed or sent again
\* while a request was under way: the answer clears whatever is there.
TextKept == gone \subseteq clouded

\* A text is stored once, unless it was sent again before it was answered, or
\* after a request for it failed although it had been stored.
StoredOnce == \A t \in Text : stored[t] > 1 => t \in clouded \cup unsure

\* A card is replaced only by somebody who was shown what it held, unless
\* someone else saved it since, a load failed, an answer was lost, or a save
\* was under way when its channel came into view.
CardKnown == ~blind

\* When its requests are answered, the browser shows the card of the channel
\* in view, unless one of these reasons holds.
CardShown ==
    (load = NoLoad /\ puts = {}) => (astray # {} \/ content = card[view])
=============================================================================
