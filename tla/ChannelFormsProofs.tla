-------------------------- MODULE ChannelFormsProofs ----------------------------
(***************************************************************************)
(* What one writes in a channel is not lost, not stored twice and not      *)
(* written over something unseen, up to the exceptions that the properties *)
(* of ChannelForms name: for any number of texts, edits and visits.        *)
(***************************************************************************)
EXTENDS ChannelForms, TLAPS

(***************************************************************************)
(* The composer                                                            *)
(***************************************************************************)

\* Texts are numbered in the order in which they are typed.
Numbered ==
    /\ typed <= texts
    /\ \A s \in sends : s.text <= texts /\ s.mount <= mount
    /\ \A t \in Text : stored[t] > 0 => t <= texts

\* The text that an answer is going to clear is the one it is about, or was
\* typed or sent while a request was under way.
WaitingHolds ==
    \A s \in Waiting : typed = Empty \/ typed \in clouded \/ typed = s.text

StoredHolds == \A s \in sends : s.at = "stored" => stored[s.text] > 0

\* Of a text that nothing has come between, there is one request, before the
\* text is stored or after it; while it stays in the composer, the composer
\* waits for that request.
OnceFor(t) ==
    /\ stored[t] <= 1
    /\ \A s \in sends : s.text = t /\ s.at = "sent" => stored[t] = 0
    /\ \A r, s \in sends : r.text = t /\ s.text = t => r = s
    /\ typed = t /\ (stored[t] > 0 \/ \E s \in sends : s.text = t)
          => \E s \in Waiting : s.text = t

OnceHolds == \A t \in Text \ (clouded \cup unsure) : OnceFor(t)

ComposerInv == Numbered /\ WaitingHolds /\ StoredHolds /\ TextKept /\ OnceHolds

(***************************************************************************)
(* The card                                                                *)
(***************************************************************************)

\* Nothing is known against the card in view.
Sure == astray = {}

\* Of the saves under way, those of the card in view are then this card's own,
\* of which there is one.
OwnHolds ==
    /\ \A s \in puts : s.mount <= mount
    /\ \A r, s \in Saving : r = s
    /\ Sure => \A s \in puts : s.channel = view <=> s.mount = mount
    /\ Sure /\ load # NoLoad => Saving = {}

LoadHolds ==
    /\ load # NoLoad => load.channel = view
    /\ load.at = "read" /\ Sure => load.value = card[view]

\* A save that is done and has yet to be answered.
Answering == {s \in Saving : s.at = "done"}

ShownHolds ==
    /\ Sure => \A s \in Answering : s.text = card[view]
    /\ Sure /\ load = NoLoad /\ Answering = {} => content = card[view]

DraftHolds ==
    /\ draft.open => load = NoLoad
    /\ draft.open /\ Sure /\ Answering = {} => draft.base = card[view]

\* A save that is to come knows what it replaces.
PutHolds ==
    \A s \in puts : s.at = "sent" /\ s.sure => s.base = card[s.channel]

CardInv == OwnHolds /\ LoadHolds /\ ShownHolds /\ DraftHolds /\ PutHolds /\ CardKnown

FormsInv == TypeOK /\ ComposerInv /\ CardInv

-----------------------------------------------------------------------------
(***************************************************************************)
(* Requests and saves after a change                                       *)
(***************************************************************************)

LEMMA SendType ==
    ASSUME NEW s \in Send
    PROVE  /\ s.id \in 1..MaxSends /\ s.text \in Text /\ s.mount \in Nat
           /\ s.at \in {"sent", "stored", "failed"}
BY DEF Send

LEMMA PutType ==
    ASSUME NEW s \in Put
    PROVE  /\ s.channel \in Channel /\ s.mount \in Nat /\ s.base \in Card
           /\ s.text \in Card /\ s.sure \in BOOLEAN /\ s.at \in {"sent", "done", "failed"}
BY DEF Put

LEMMA MovedSend ==
    ASSUME NEW s \in Send, NEW at \in {"sent", "stored", "failed"}, NEW r,
           r = [s EXCEPT !.at = at]
    PROVE  /\ r \in Send /\ r.text = s.text /\ r.mount = s.mount /\ r.at = at
BY DEF Send

LEMMA MovedPut ==
    ASSUME NEW s \in Put, NEW at \in {"sent", "done", "failed"}, NEW r,
           r = [s EXCEPT !.at = at]
    PROVE  /\ r \in Put /\ r.channel = s.channel /\ r.mount = s.mount /\ r.base = s.base
           /\ r.text = s.text /\ r.sure = s.sure /\ r.at = at
BY DEF Put

LEMMA UnsurePut ==
    ASSUME NEW s \in Put, NEW r, r = [s EXCEPT !.sure = FALSE]
    PROVE  /\ r \in Put /\ r.channel = s.channel /\ r.mount = s.mount /\ r.base = s.base
           /\ r.text = s.text /\ ~r.sure /\ r.at = s.at
BY DEF Put

\* The saves that a write has overtaken are the same ones, less sure.
LEMMA OvertakenPuts ==
    ASSUME NEW S, S \subseteq Put, NEW c, NEW r \in Overtaken(c, S)
    PROVE  /\ r \in Put
           /\ r.at = "sent" /\ r.sure => r \in S /\ r.channel # c
           /\ \E s \in S : /\ r.channel = s.channel /\ r.mount = s.mount /\ r.base = s.base
                           /\ r.text = s.text /\ r.at = s.at
                           /\ r = IF s.channel = c /\ s.at = "sent"
                                  THEN [s EXCEPT !.sure = FALSE] ELSE s
<1>1. PICK s \in S : r = IF s.channel = c /\ s.at = "sent"
                         THEN [s EXCEPT !.sure = FALSE] ELSE s
  BY DEF Overtaken
<1>2. CASE s.channel = c /\ s.at = "sent"
  BY <1>1, <1>2, UnsurePut
<1>3. CASE ~(s.channel = c /\ s.at = "sent")
  BY <1>1, <1>3
<1> QED BY <1>1, <1>2, <1>3

LEMMA FormsInvInit == Init => FormsInv
<1> SUFFICES ASSUME Init PROVE FormsInv
  OBVIOUS
<1>1. TypeOK
  <2>1. load \in Load
    BY DEF Init, Load, LoadOf
  <2>2. draft \in [open : BOOLEAN, base : Card, text : Card]
    BY BoundAssumption DEF Init, NoDraft, Card, Empty
  <2>3. card \in [Channel -> Card] /\ content \in Card /\ saves \in Card
    BY BoundAssumption DEF Init, Card, Empty
  <2>4. stored \in [Text -> Nat]
    BY DEF Init
  <2>5. visits \in 0..MaxVisits /\ mount \in 0..visits /\ texts \in 0..MaxTexts
        /\ sent \in 0..MaxSends
    BY BoundAssumption DEF Init
  <2>6. view \in Channel /\ typed = Empty /\ sends = {} /\ clouded = {} /\ unsure = {}
        /\ gone = {} /\ puts = {} /\ astray = {} /\ blind = FALSE
    BY DEF Init
  <2> QED BY <2>1, <2>2, <2>3, <2>4, <2>5, <2>6 DEF TypeOK
<1>2. ComposerInv
  BY DEF Init, ComposerInv, Numbered, WaitingHolds, StoredHolds, TextKept, OnceHolds,
         OnceFor, Waiting, Text, Empty
<1>3. load # NoLoad /\ load.channel = view /\ load.at # "read"
  BY DEF Init, LoadOf, NoLoad
<1>4. CardInv
  BY <1>3 DEF Init, CardInv, OwnHolds, LoadHolds, ShownHolds, DraftHolds, PutHolds,
       CardKnown, Saving, Answering, NoDraft, Empty
<1> QED BY <1>1, <1>2, <1>4 DEF FormsInv

-----------------------------------------------------------------------------
(***************************************************************************)
(* The steps of the composer                                               *)
(***************************************************************************)

\* The steps on messages leave the channel and the card alone, and the steps on
\* the card the channel and the messages.
ComposerStep ==
    \/ Type \/ HandleSubmit
    \/ \E s \in sends :
          \/ StoreMessage(s) \/ RefuseMessage(s) \/ MessageAnswerLost(s)
          \/ SendSucceeds(s) \/ SendFails(s)

CardStep ==
    \/ ReadCard \/ LoadArrives \/ LoadFails
    \/ StartEdit \/ CancelEdit \/ Save
    \/ \E s \in puts :
          SetKnowledge(s) \/ SaveRefused(s) \/ SaveSucceeds(s) \/ SaveFails(s)
    \/ \E c \in Channel : SaveElsewhere(c)

\* TypeOK and the invariant of the composer, for what the composer changes.
ComposerTypeOK ==
    /\ typed \in Text \cup {Empty} /\ texts \in 0..MaxTexts /\ sent \in 0..MaxSends
    /\ sends \subseteq Send /\ stored \in [Text -> Nat]
    /\ clouded \subseteq Text /\ unsure \subseteq Text /\ gone \subseteq Text

LEMMA TypeTypes ==
    ASSUME FormsInv, Type
    PROVE  ComposerTypeOK' /\ ComposerInv'
<1>1. texts \in Nat /\ texts + 1 \in Text /\ texts + 1 # Empty
  BY BoundAssumption DEF FormsInv, TypeOK, Type, Text, Empty
<1>2. ComposerTypeOK'
  BY <1>1, BoundAssumption DEF FormsInv, TypeOK, ComposerTypeOK, Type, Text
<1>3. \A s \in sends : s.text \in Nat /\ s.text <= texts
  BY SendType DEF FormsInv, TypeOK, ComposerInv, Numbered, Text
<1>4. Numbered'
  <2>1. \A t \in Text : t \in Nat /\ (stored[t] > 0 => t <= texts)
    BY DEF FormsInv, ComposerInv, Numbered, Text
  <2> QED BY <1>1, <1>3, <2>1 DEF FormsInv, ComposerInv, Numbered, Type, place
<1>5. WaitingHolds'
  BY DEF WaitingHolds, Waiting, Type, place
<1>6. StoredHolds' /\ TextKept'
  BY DEF FormsInv, ComposerInv, StoredHolds, TextKept, Type
<1>7. OnceHolds'
  <2> SUFFICES ASSUME NEW t \in Text \ (clouded' \cup unsure') PROVE OnceFor(t)'
    BY DEF OnceHolds
  <2>1. t \in Text \ (clouded \cup unsure) /\ OnceFor(t)
    BY DEF Type, FormsInv, ComposerInv, OnceHolds
  <2>2. typed' = t => ~(stored[t] > 0) /\ \A s \in sends : s.text # t
    <3>1. ASSUME t = texts + 1 PROVE ~(t <= texts)
      BY <1>1, <3>1
    <3> QED BY <1>3, <3>1 DEF Type, FormsInv, ComposerInv, Numbered
  <2> QED BY <2>1, <2>2 DEF OnceFor, Type, Waiting, place
<1> QED BY <1>2, <1>4, <1>5, <1>6, <1>7 DEF ComposerInv

LEMMA SubmitTypes ==
    ASSUME FormsInv, HandleSubmit
    PROVE  ComposerTypeOK' /\ ComposerInv'
<1> DEFINE new == [id |-> sent + 1, text |-> typed, mount |-> mount, at |-> "sent"]
<1>1. typed \in Text /\ typed \in Nat /\ mount \in Nat /\ texts \in Nat
  BY BoundAssumption DEF FormsInv, TypeOK, HandleSubmit, Text
<1>2. /\ new \in Send /\ new.text = typed /\ new.mount = mount /\ new.at = "sent"
      /\ sends' = sends \cup {new}
  BY <1>1, BoundAssumption DEF FormsInv, TypeOK, HandleSubmit, Send
<1> HIDE DEF new
<1>3. ComposerTypeOK'
  BY <1>1, <1>2, BoundAssumption DEF FormsInv, TypeOK, ComposerTypeOK, HandleSubmit
<1>4. Numbered'
  BY <1>1, <1>2 DEF FormsInv, ComposerInv, Numbered, HandleSubmit, place
<1>5. WaitingHolds'
  BY <1>2 DEF FormsInv, ComposerInv, WaitingHolds, Waiting, HandleSubmit, place
<1>6. StoredHolds' /\ TextKept'
  BY <1>2 DEF FormsInv, ComposerInv, StoredHolds, TextKept, HandleSubmit
<1>7. OnceHolds'
  <2> SUFFICES ASSUME NEW t \in Text \ (clouded' \cup unsure') PROVE OnceFor(t)'
    BY DEF OnceHolds
  <2>1. t \in Text \ (clouded \cup unsure) /\ OnceFor(t)
    BY DEF HandleSubmit, FormsInv, ComposerInv, OnceHolds
  <2>2. Waiting \subseteq Waiting'
    BY <1>2 DEF Waiting, HandleSubmit, place
  <2>3. CASE typed = t
    <3>1. Waiting = {}
      BY <2>3 DEF HandleSubmit
    <3>2. ~(stored[t] > 0) /\ ~\E s \in sends : s.text = t
      BY <2>1, <2>3, <3>1 DEF OnceFor
    <3>3. new \in Waiting'
      BY <1>2 DEF Waiting, HandleSubmit, place
    <3>4. stored[t] = 0
      BY <3>2 DEF FormsInv, TypeOK
    <3> QED BY <1>2, <2>3, <3>2, <3>3, <3>4 DEF OnceFor, HandleSubmit
  <2>4. CASE typed # t
    BY <1>2, <2>1, <2>2, <2>4 DEF OnceFor, HandleSubmit
  <2> QED BY <2>3, <2>4
<1> QED BY <1>3, <1>4, <1>5, <1>6, <1>7 DEF ComposerInv

\* A request that moves on keeps its text and its composer.
LEMMA MovedHolds ==
    ASSUME FormsInv, NEW s \in sends, NEW at \in {"sent", "stored", "failed"},
           sends' = Moved(s, at), at # "sent",
           UNCHANGED <<place, typed, texts, sent, clouded, unsure, gone>>,
           \/ at = "failed" /\ stored' = stored
           \/ s.at = "sent" /\ at = "stored" /\ stored' = [stored EXCEPT ![s.text] = @ + 1]
    PROVE  ComposerTypeOK' /\ ComposerInv'
<1> DEFINE moved == [s EXCEPT !.at = at]
<1>1. /\ moved \in Send /\ moved.text = s.text /\ moved.mount = s.mount /\ moved.at = at
      /\ sends' = (sends \ {s}) \cup {moved}
  BY MovedSend DEF FormsInv, TypeOK, Moved
<1> HIDE DEF moved
<1>2. s.text \in Text /\ stored \in [Text -> Nat]
  BY SendType DEF FormsInv, TypeOK
<1>3. stored' \in [Text -> Nat] /\ \A t \in Text : stored'[t] >= stored[t]
  BY <1>2
<1>4. ComposerTypeOK'
  BY <1>1, <1>3 DEF FormsInv, TypeOK, ComposerTypeOK
<1>5. Numbered'
  <2>1. \A t \in Text : stored'[t] > 0 => t = s.text \/ stored[t] > 0
    BY <1>2
  <2> QED BY <1>1, <2>1 DEF FormsInv, ComposerInv, Numbered, place
<1>6. WaitingHolds'
  BY <1>1 DEF FormsInv, ComposerInv, WaitingHolds, Waiting, place
<1>7. StoredHolds'
  <2>1. at = "stored" => stored'[s.text] > 0
    BY <1>2
  <2>2. \A r \in sends : r.text \in Text /\ (r.at = "stored" => stored[r.text] > 0)
    BY SendType DEF FormsInv, TypeOK, ComposerInv, StoredHolds
  <2>3. \A r \in sends : r.at = "stored" => stored'[r.text] > 0
    <3> TAKE r \in sends
    <3> HAVE r.at = "stored"
    <3>1. r.text \in Text /\ stored[r.text] > 0 /\ stored'[r.text] >= stored[r.text]
      BY <1>3, <2>2
    <3>2. stored[r.text] \in Nat /\ stored'[r.text] \in Nat
      BY <1>2, <1>3, <3>1
    <3> QED BY <3>1, <3>2
  <2> QED BY <1>1, <2>1, <2>3 DEF StoredHolds
<1>8. TextKept'
  BY DEF FormsInv, ComposerInv, TextKept
<1>9. OnceHolds'
  <2> SUFFICES ASSUME NEW t \in Text \ (clouded \cup unsure) PROVE OnceFor(t)'
    BY DEF OnceHolds
  <2>1. OnceFor(t)
    BY DEF FormsInv, ComposerInv, OnceHolds
  <2>2. \A r \in Waiting : \E q \in Waiting' : q.text = r.text
    BY <1>1 DEF Waiting, place
  <2>3. \A r \in sends' : \E q \in sends : q.text = r.text
    BY <1>1
  <2>4. \A q, r \in sends' : q.text = t /\ r.text = t => q = r
    BY <1>1, <2>1 DEF OnceFor
  <2>5. stored'[t] <= 1
    BY <1>2, <2>1 DEF OnceFor
  <2>6. \A r \in sends' : r.text = t /\ r.at = "sent" => stored'[t] = 0
    <3> SUFFICES ASSUME NEW r \in sends', r.text = t, r.at = "sent" PROVE stored'[t] = 0
      OBVIOUS
    <3>1. r \in sends /\ r # s
      BY <1>1
    <3>2. s.text # t /\ stored[t] = 0
      BY <2>1, <3>1 DEF OnceFor
    <3> QED BY <1>2, <3>2
  <2>7. stored'[t] > 0 => stored[t] > 0 \/ \E r \in sends : r.text = t
    BY <1>2
  <2>8. typed' = t /\ (stored'[t] > 0 \/ \E r \in sends' : r.text = t)
           => \E r \in Waiting' : r.text = t
    BY <2>1, <2>2, <2>3, <2>7 DEF OnceFor
  <2> QED BY <2>4, <2>5, <2>6, <2>8 DEF OnceFor
<1> QED BY <1>4, <1>5, <1>6, <1>7, <1>8, <1>9 DEF ComposerInv

\* An answer clears the text it is about, or one that is clouded.
LEMMA SendSucceedsTypes ==
    ASSUME FormsInv, NEW s \in sends, SendSucceeds(s)
    PROVE  ComposerTypeOK' /\ ComposerInv'
<1>1. s.at = "stored" /\ stored[s.text] > 0 /\ s.text \in Text /\ stored \in [Text -> Nat]
  BY SendType DEF FormsInv, TypeOK, SendSucceeds, ComposerInv, StoredHolds
<1>2. s.mount = mount => typed' = Empty
  BY DEF SendSucceeds, Cleared, AfterSend
<1>3. s.mount # mount => typed' = typed /\ gone' = gone
  BY DEF SendSucceeds
<1>4. s.mount = mount => \A t \in gone' \ gone : t = typed /\ t # Empty /\ stored[t] = 0
  BY DEF SendSucceeds, Cleared
<1>5. s.mount = mount => typed = Empty \/ typed \in clouded \/ typed = s.text
  BY DEF FormsInv, ComposerInv, WaitingHolds, Waiting
<1>6. gone' \subseteq clouded /\ clouded' = clouded
  BY <1>1, <1>3, <1>4, <1>5 DEF FormsInv, ComposerInv, TextKept, SendSucceeds
<1>7. ComposerTypeOK'
  BY <1>2, <1>3, <1>6 DEF FormsInv, TypeOK, ComposerTypeOK, SendSucceeds
<1>8. Numbered'
  BY <1>2, <1>3 DEF FormsInv, TypeOK, ComposerInv, Numbered, SendSucceeds, place, Empty
<1>9. WaitingHolds' /\ StoredHolds' /\ TextKept'
  BY <1>2, <1>3, <1>6 DEF FormsInv, ComposerInv, WaitingHolds, StoredHolds, TextKept,
     Waiting, SendSucceeds, place
<1>10. OnceHolds'
  <2> SUFFICES ASSUME NEW t \in Text \ (clouded \cup unsure) PROVE OnceFor(t)'
    BY DEF OnceHolds, SendSucceeds
  <2>1. OnceFor(t) /\ t # Empty
    BY DEF FormsInv, ComposerInv, OnceHolds, Text, Empty
  <2>2. sends' \subseteq sends /\ sends' = sends \ {s} /\ stored' = stored /\ mount' = mount
    BY DEF SendSucceeds, place
  <2>3. CASE s.mount = mount
    BY <1>2, <2>1, <2>2, <2>3 DEF OnceFor
  <2>4. CASE s.mount # mount
    BY <1>3, <2>1, <2>2, <2>4 DEF OnceFor, Waiting
  <2> QED BY <2>3, <2>4
<1> QED BY <1>7, <1>8, <1>9, <1>10 DEF ComposerInv

LEMMA SendFailsTypes ==
    ASSUME FormsInv, NEW s \in sends, SendFails(s)
    PROVE  ComposerTypeOK' /\ ComposerInv'
<1>1. s.text \in Text
  BY SendType DEF FormsInv, TypeOK
<1>2. typed' = typed /\ gone' = gone
  BY DEF SendFails, Cleared, AfterError
<1>3. ComposerTypeOK'
  BY <1>1, <1>2 DEF FormsInv, TypeOK, ComposerTypeOK, SendFails
<1>4. Numbered' /\ WaitingHolds' /\ StoredHolds' /\ TextKept'
  BY <1>2 DEF FormsInv, ComposerInv, Numbered, WaitingHolds, StoredHolds, TextKept,
     Waiting, SendFails, place
<1>5. OnceHolds'
  <2> SUFFICES ASSUME NEW t \in Text \ (clouded \cup unsure'), t # s.text PROVE OnceFor(t)'
    BY DEF OnceHolds, SendFails
  <2>1. OnceFor(t)
    BY DEF FormsInv, ComposerInv, OnceHolds, SendFails
  <2>2. sends' = sends \ {s} /\ stored' = stored /\ mount' = mount
    BY DEF SendFails, place
  <2> QED BY <1>2, <2>1, <2>2 DEF OnceFor, Waiting
<1> QED BY <1>3, <1>4, <1>5 DEF ComposerInv

LEMMA ComposerStepKeeps ==
    ASSUME FormsInv, ComposerStep
    PROVE  ComposerTypeOK' /\ ComposerInv' /\ UNCHANGED <<place, cards>>
<1>1. CASE Type
  BY <1>1, TypeTypes DEF Type
<1>2. CASE HandleSubmit
  BY <1>2, SubmitTypes DEF HandleSubmit
<1>3. ASSUME NEW s \in sends, StoreMessage(s)
      PROVE  ComposerTypeOK' /\ ComposerInv' /\ UNCHANGED <<place, cards>>
  BY <1>3, MovedHolds DEF StoreMessage
<1>4. ASSUME NEW s \in sends, RefuseMessage(s) \/ MessageAnswerLost(s)
      PROVE  ComposerTypeOK' /\ ComposerInv' /\ UNCHANGED <<place, cards>>
  BY <1>4, MovedHolds DEF RefuseMessage, MessageAnswerLost
<1>5. ASSUME NEW s \in sends, SendSucceeds(s)
      PROVE  ComposerTypeOK' /\ ComposerInv' /\ UNCHANGED <<place, cards>>
  BY <1>5, SendSucceedsTypes DEF SendSucceeds
<1>6. ASSUME NEW s \in sends, SendFails(s)
      PROVE  ComposerTypeOK' /\ ComposerInv' /\ UNCHANGED <<place, cards>>
  BY <1>6, SendFailsTypes DEF SendFails
<1> QED BY <1>1, <1>2, <1>3, <1>4, <1>5, <1>6 DEF ComposerStep

-----------------------------------------------------------------------------
(***************************************************************************)
(* The steps of the card                                                   *)
(***************************************************************************)

CardTypeOK ==
    /\ card \in [Channel -> Card] /\ content \in Card /\ saves \in Card
    /\ draft \in [open : BOOLEAN, base : Card, text : Card]
    /\ load \in Load /\ puts \subseteq Put
    /\ astray \subseteq Reason /\ blind \in BOOLEAN

LEMMA LoadType ==
    ASSUME NEW l \in Load
    PROVE  /\ NoLoad.at = "none"
           /\ l = NoLoad \/ (l.at \in {"sent", "read"} /\ l.channel \in Channel)
           /\ l.at = "read" => l.value \in Card
           /\ \A c \in Channel : LoadOf(c) \in Load /\ LoadOf(c).at = "sent"
                                /\ LoadOf(c).channel = c /\ LoadOf(c) # NoLoad
           /\ \A c \in Channel, k \in Card :
                  ReadOf(c, k) \in Load /\ ReadOf(c, k).at = "read" /\ ReadOf(c, k) # NoLoad
                  /\ ReadOf(c, k).channel = c /\ ReadOf(c, k).value = k
BY DEF Load, NoLoad, LoadOf, ReadOf

LEMMA NoDraftType ==
    NoDraft \in [open : BOOLEAN, base : Card, text : Card] /\ NoDraft.open = FALSE
BY BoundAssumption DEF NoDraft, Card, Empty

\* Without a change of the card in view and of the saves, the rest is about the
\* load, the draft and the text.
LEMMA PutsKept ==
    ASSUME FormsInv, UNCHANGED <<place, card, puts, blind>>, astray \subseteq astray',
           astray' = {} => (load' # NoLoad => load # NoLoad)
    PROVE  OwnHolds' /\ PutHolds' /\ CardKnown'
BY DEF FormsInv, CardInv, OwnHolds, PutHolds, CardKnown, Saving, Sure, place

LEMMA ReadCardHolds ==
    ASSUME FormsInv, ReadCard PROVE CardTypeOK' /\ CardInv'
<1>1. load # NoLoad /\ load.channel \in Channel /\ card[load.channel] \in Card
  BY LoadType DEF FormsInv, TypeOK, ReadCard
<1>2. /\ load' \in Load /\ load' # NoLoad /\ load'.channel = load.channel
      /\ load'.value = card[load.channel]
  BY <1>1, LoadType DEF FormsInv, TypeOK, ReadCard
<1>3. CardTypeOK'
  BY <1>2 DEF FormsInv, TypeOK, CardTypeOK, ReadCard
<1>4. OwnHolds' /\ PutHolds' /\ CardKnown'
  BY <1>1, PutsKept DEF ReadCard
<1>5. LoadHolds' /\ ShownHolds' /\ DraftHolds'
  BY <1>1, <1>2 DEF FormsInv, CardInv, LoadHolds, ShownHolds, DraftHolds, ReadCard, Sure,
     Answering, Saving, place
<1> QED BY <1>3, <1>4, <1>5 DEF CardInv

LEMMA LoadArrivesHolds ==
    ASSUME FormsInv, LoadArrives PROVE CardTypeOK' /\ CardInv'
<1>1. load # NoLoad /\ load.value \in Card /\ load' = NoLoad /\ NoLoad \in Load
  BY LoadType DEF FormsInv, TypeOK, LoadArrives, Load
<1>2. CardTypeOK'
  BY <1>1 DEF FormsInv, TypeOK, CardTypeOK, LoadArrives
<1>3. OwnHolds' /\ PutHolds' /\ CardKnown'
  BY <1>1, PutsKept DEF LoadArrives
<1>4. LoadHolds' /\ ShownHolds' /\ DraftHolds'
  BY <1>1, LoadType DEF FormsInv, TypeOK, CardInv, OwnHolds, LoadHolds, ShownHolds,
     DraftHolds, LoadArrives, Sure, Answering, Saving, place
<1> QED BY <1>2, <1>3, <1>4 DEF CardInv

LEMMA LoadFailsHolds ==
    ASSUME FormsInv, LoadFails PROVE CardTypeOK' /\ CardInv'
<1>1. load # NoLoad /\ load' = NoLoad /\ NoLoad \in Load /\ NoLoad.at = "none"
  BY LoadType DEF FormsInv, TypeOK, LoadFails, Load
<1>2. CardTypeOK'
  BY <1>1 DEF FormsInv, TypeOK, CardTypeOK, LoadFails, Reason
<1>3. OwnHolds' /\ PutHolds' /\ CardKnown'
  BY <1>1, PutsKept DEF LoadFails
<1>4. ~Sure'
  BY DEF LoadFails, Sure
<1>5. LoadHolds' /\ ShownHolds' /\ DraftHolds'
  BY <1>1, <1>4 DEF FormsInv, CardInv, LoadHolds, ShownHolds, DraftHolds
<1> QED BY <1>2, <1>3, <1>5 DEF CardInv

LEMMA StartEditHolds ==
    ASSUME FormsInv, StartEdit PROVE CardTypeOK' /\ CardInv'
<1>1. load = NoLoad
  BY LoadType DEF FormsInv, TypeOK, StartEdit, Editable
<1>2. saves' \in Card
  BY BoundAssumption DEF FormsInv, TypeOK, StartEdit, Card
<1>3. /\ draft' \in [open : BOOLEAN, base : Card, text : Card]
      /\ draft'.base = content
  BY <1>2 DEF FormsInv, TypeOK, StartEdit
<1>4. CardTypeOK'
  BY <1>2, <1>3 DEF FormsInv, TypeOK, CardTypeOK, StartEdit
<1>5. OwnHolds' /\ PutHolds' /\ CardKnown'
  BY <1>1, PutsKept DEF StartEdit
<1>6. LoadHolds' /\ ShownHolds' /\ DraftHolds'
  BY <1>1, <1>3 DEF FormsInv, CardInv, LoadHolds, ShownHolds, DraftHolds, StartEdit, Sure,
     Answering, Saving, place
<1> QED BY <1>4, <1>5, <1>6 DEF CardInv

LEMMA CancelEditHolds ==
    ASSUME FormsInv, CancelEdit PROVE CardTypeOK' /\ CardInv'
<1>1. CardTypeOK'
  BY NoDraftType DEF FormsInv, TypeOK, CardTypeOK, CancelEdit
<1>2. OwnHolds' /\ PutHolds' /\ CardKnown'
  BY PutsKept DEF CancelEdit
<1>3. LoadHolds' /\ ShownHolds' /\ DraftHolds'
  BY NoDraftType DEF FormsInv, CardInv, LoadHolds, ShownHolds, DraftHolds, CancelEdit, Sure,
     Answering, Saving, place
<1> QED BY <1>1, <1>2, <1>3 DEF CardInv

LEMMA SaveHolds ==
    ASSUME FormsInv, Save PROVE CardTypeOK' /\ CardInv'
<1> DEFINE new == [channel |-> view, mount |-> mount, base |-> draft.base,
                   text |-> draft.text, sure |-> (astray = {}), at |-> "sent"]
<1>0. mount \in Nat
  BY BoundAssumption DEF FormsInv, TypeOK
<1>1. /\ new \in Put /\ puts' = puts \cup {new} /\ new.channel = view /\ new.mount = mount
      /\ new.base = draft.base /\ (new.sure <=> Sure) /\ new.at = "sent"
  BY <1>0 DEF FormsInv, TypeOK, Save, Put, Sure
<1> HIDE DEF new
<1>2. load = NoLoad /\ Saving = {} /\ draft.open
  BY LoadType DEF FormsInv, TypeOK, Save, Editable
<1>3. CardTypeOK'
  BY <1>1 DEF FormsInv, TypeOK, CardTypeOK, Save
<1>4. Saving' = {new} /\ Answering' = {} /\ Answering = {}
  BY <1>1, <1>2 DEF Saving, Answering, Save, place
<1>5. OwnHolds'
  BY <1>0, <1>1, <1>2, <1>4 DEF FormsInv, CardInv, OwnHolds, Save, Sure, place
<1>6. Sure => draft.base = card[view]
  BY <1>2, <1>4 DEF FormsInv, CardInv, DraftHolds
<1>7. PutHolds' /\ CardKnown'
  BY <1>1, <1>6 DEF FormsInv, CardInv, PutHolds, CardKnown, Save
<1>8. LoadHolds' /\ ShownHolds' /\ DraftHolds'
  BY <1>4 DEF FormsInv, CardInv, LoadHolds, ShownHolds, DraftHolds, Save, Sure, place
<1> QED BY <1>3, <1>5, <1>7, <1>8 DEF CardInv

\* The write of a save: it knew what it replaced, and the others of the channel
\* are no longer sure.
LEMMA SetKnowledgeHolds ==
    ASSUME FormsInv, NEW s \in puts, SetKnowledge(s) PROVE CardTypeOK' /\ CardInv'
<1> DEFINE done == [s EXCEPT !.at = "done"]
<1>1. /\ s \in Put /\ s.channel \in Channel /\ s.text \in Card /\ s.at = "sent"
      /\ card \in [Channel -> Card] /\ puts \subseteq Put
  BY PutType DEF FormsInv, TypeOK, SetKnowledge
<1>2. /\ done \in Put /\ done.channel = s.channel /\ done.mount = s.mount
      /\ done.text = s.text /\ done.at = "done"
      /\ puts' = Overtaken(s.channel, puts \ {s}) \cup {done}
  BY <1>1, MovedPut DEF SetKnowledge
<1> HIDE DEF done
<1>3. card' \in [Channel -> Card] /\ card'[s.channel] = s.text
      /\ \A c \in Channel : c # s.channel => card'[c] = card[c]
  BY <1>1 DEF SetKnowledge
<1>4. \A r \in puts' \ {done} :
         /\ r \in Put
         /\ r.at = "sent" /\ r.sure => r \in puts /\ r.channel # s.channel
         /\ \E q \in puts \ {s} :
               /\ r.channel = q.channel /\ r.mount = q.mount /\ r.base = q.base
               /\ r.text = q.text /\ r.at = q.at
               /\ r = IF q.channel = s.channel /\ q.at = "sent"
                      THEN [q EXCEPT !.sure = FALSE] ELSE q
  <2> TAKE r \in puts' \ {done}
  <2>1. r \in Overtaken(s.channel, puts \ {s}) /\ puts \ {s} \subseteq Put
    BY <1>1, <1>2
  <2> QED BY <2>1, OvertakenPuts
<1>5. ~blind'
  BY DEF FormsInv, CardInv, CardKnown, PutHolds, SetKnowledge
<1>6. CardTypeOK'
  BY <1>2, <1>3, <1>4, <1>5 DEF FormsInv, TypeOK, CardTypeOK, SetKnowledge
<1>7. PutHolds'
  <2>1. \A r \in puts' : r.at = "sent" /\ r.sure =>
           r \in puts /\ r.channel \in Channel /\ r.channel # s.channel
    <3> TAKE r \in puts'
    <3>1. CASE r = done
      BY <1>2, <3>1
    <3>2. CASE r # done
      BY <1>4, <3>2, PutType
    <3> QED BY <3>1, <3>2
  <2> QED BY <1>3, <2>1 DEF FormsInv, CardInv, PutHolds
<1>8. UNCHANGED <<view, mount, content, draft, load, astray>>
  BY DEF SetKnowledge, place
<1>9. OwnHolds'
  <2>1. s.mount = mount => \A r \in puts' : r.mount = mount => r = done
    <3> SUFFICES ASSUME s.mount = mount, NEW r \in puts', r.mount = mount, r # done
                 PROVE  FALSE
      OBVIOUS
    <3>1. PICK q \in puts \ {s} : q.mount = mount
      BY <1>4
    <3> QED BY <3>1 DEF FormsInv, CardInv, OwnHolds, Saving
  <2>2. s.mount # mount => \A q, r \in puts' : q.mount = mount /\ r.mount = mount => q = r
    <3> SUFFICES ASSUME s.mount # mount, NEW q \in puts', NEW r \in puts',
                        q.mount = mount, r.mount = mount
                 PROVE  q = r
      OBVIOUS
    <3>1. q # done /\ r # done
      BY <1>2
    <3>2. PICK p \in puts \ {s} :
             /\ p.mount = mount
             /\ q = IF p.channel = s.channel /\ p.at = "sent" THEN [p EXCEPT !.sure = FALSE]
                    ELSE p
      BY <1>4, <3>1
    <3>3. PICK o \in puts \ {s} :
             /\ o.mount = mount
             /\ r = IF o.channel = s.channel /\ o.at = "sent" THEN [o EXCEPT !.sure = FALSE]
                    ELSE o
      BY <1>4, <3>1
    <3>4. p = o
      BY <3>2, <3>3 DEF FormsInv, CardInv, OwnHolds, Saving
    <3> QED BY <3>2, <3>3, <3>4
  <2>3. \A q, r \in Saving' : q = r
    BY <1>8, <2>1, <2>2 DEF Saving
  <2>4. \A r \in puts' : \E q \in puts : r.channel = q.channel /\ r.mount = q.mount
    BY <1>2, <1>4
  <2> QED BY <1>8, <2>3, <2>4 DEF FormsInv, CardInv, OwnHolds, Saving, Sure
<1>10. LoadHolds' /\ ShownHolds' /\ DraftHolds'
  <2>1. CASE Sure /\ s.mount = mount
    <3>1. s.channel = view /\ load = NoLoad /\ card'[view] = s.text
      BY <1>3, <2>1 DEF FormsInv, CardInv, OwnHolds, Saving
    <3>2. Saving = {s}
      BY <2>1 DEF FormsInv, CardInv, OwnHolds, Saving
    <3>3. Answering' = {done}
      BY <1>2, <1>4, <1>8, <2>1, <3>2 DEF Saving, Answering
    <3> QED BY <1>2, <1>8, <2>1, <3>1, <3>3, LoadType
            DEF FormsInv, TypeOK, CardInv, LoadHolds, ShownHolds, DraftHolds
  <2>2. CASE Sure /\ s.mount # mount
    <3>1. card'[view] = card[view]
      BY <1>3, <2>2 DEF FormsInv, TypeOK, CardInv, OwnHolds
    <3>2. \A r \in Answering : r \in Answering'
      <4> TAKE r \in Answering
      <4>1. r \in puts \ {s} /\ r.at = "done" /\ r.mount = mount
        BY <2>2 DEF Answering, Saving
      <4>2. r \in Overtaken(s.channel, puts \ {s})
        BY <4>1 DEF Overtaken
      <4> QED BY <1>2, <1>8, <4>1, <4>2 DEF Answering, Saving
    <3>3. \A r \in Answering' : \E q \in Answering : r.text = q.text
      BY <1>2, <1>4, <1>8, <2>2 DEF Answering, Saving
    <3>4. Answering' = {} <=> Answering = {}
      BY <3>2, <3>3
    <3> QED BY <1>8, <3>1, <3>3, <3>4
            DEF FormsInv, CardInv, LoadHolds, ShownHolds, DraftHolds, Sure
  <2>3. CASE ~Sure
    BY <1>8, <2>3 DEF FormsInv, CardInv, LoadHolds, ShownHolds, DraftHolds, Sure
  <2> QED BY <2>1, <2>2, <2>3
<1> QED BY <1>5, <1>6, <1>7, <1>9, <1>10 DEF CardInv, CardKnown

\* The save that is refused, or whose answer is lost, is answered like a failure.
LEMMA SaveRefusedHolds ==
    ASSUME FormsInv, NEW s \in puts, SaveRefused(s) PROVE CardTypeOK' /\ CardInv'
<1> DEFINE refused == [s EXCEPT !.at = "failed"]
<1>1. /\ refused \in Put /\ refused.channel = s.channel /\ refused.mount = s.mount
      /\ refused.at = "failed" /\ puts' = (puts \ {s}) \cup {refused}
  BY MovedPut DEF FormsInv, TypeOK, SaveRefused
<1> HIDE DEF refused
<1>2. UNCHANGED <<view, mount, card, content, draft, load, saves, blind>>
  BY DEF SaveRefused, place
<1>3. astray' \subseteq Reason /\ (Sure' => Sure /\ s.at # "done")
  BY DEF FormsInv, TypeOK, SaveRefused, Sure, Reason
<1>4. CardTypeOK'
  BY <1>1, <1>2, <1>3 DEF FormsInv, TypeOK, CardTypeOK
<1>5. OwnHolds'
  BY <1>1, <1>2, <1>3 DEF FormsInv, CardInv, OwnHolds, Saving
<1>6. PutHolds' /\ CardKnown'
  BY <1>1, <1>2 DEF FormsInv, CardInv, PutHolds, CardKnown
<1>7. Sure' => Answering' = Answering
  BY <1>1, <1>2, <1>3 DEF Answering, Saving
<1>8. LoadHolds' /\ ShownHolds' /\ DraftHolds'
  BY <1>2, <1>3, <1>7 DEF FormsInv, CardInv, LoadHolds, ShownHolds, DraftHolds
<1> QED BY <1>4, <1>5, <1>6, <1>8 DEF CardInv

\* The answer of this card's own save brings what the card holds.
LEMMA SaveSucceedsHolds ==
    ASSUME FormsInv, NEW s \in puts, SaveSucceeds(s) PROVE CardTypeOK' /\ CardInv'
<1>1. /\ s.at = "done" /\ s.text \in Card /\ puts' = puts \ {s}
      /\ UNCHANGED <<view, mount, card, load, saves, astray, blind>>
  BY PutType DEF FormsInv, TypeOK, SaveSucceeds, place
<1>2. s.mount = mount => content' = s.text /\ draft' = NoDraft
  BY DEF SaveSucceeds, Saved
<1>3. s.mount # mount => content' = content /\ draft' = draft
  BY DEF SaveSucceeds
<1>4. CardTypeOK'
  BY <1>1, <1>2, <1>3, NoDraftType DEF FormsInv, TypeOK, CardTypeOK
<1>5. OwnHolds' /\ PutHolds' /\ CardKnown'
  BY <1>1 DEF FormsInv, CardInv, OwnHolds, PutHolds, CardKnown, Saving, Sure
<1>6. LoadHolds'
  BY <1>1 DEF FormsInv, CardInv, LoadHolds, Sure
<1>7. CASE s.mount = mount
  <2>1. s \in Answering
    BY <1>1, <1>7 DEF Answering, Saving
  <2>2. Sure => s.text = card[view]
    BY <2>1 DEF FormsInv, CardInv, ShownHolds
  <2>3. Answering' \subseteq Answering
    BY <1>1 DEF Answering, Saving
  <2>4. ShownHolds' /\ DraftHolds'
    BY <1>1, <1>2, <1>7, <2>2, <2>3, NoDraftType
       DEF FormsInv, CardInv, ShownHolds, DraftHolds, Sure
  <2> QED BY <1>4, <1>5, <1>6, <2>4 DEF CardInv
<1>8. CASE s.mount # mount
  <2>1. Answering' = Answering
    BY <1>1, <1>8 DEF Answering, Saving
  <2>2. ShownHolds' /\ DraftHolds'
    BY <1>1, <1>3, <1>8, <2>1 DEF FormsInv, CardInv, ShownHolds, DraftHolds, Sure
  <2> QED BY <1>4, <1>5, <1>6, <2>2 DEF CardInv
<1> QED BY <1>7, <1>8

LEMMA SaveFailsHolds ==
    ASSUME FormsInv, NEW s \in puts, SaveFails(s) PROVE CardTypeOK' /\ CardInv'
<1>1. /\ s.at = "failed" /\ puts' = puts \ {s}
      /\ UNCHANGED <<view, mount, card, content, draft, load, saves, astray, blind>>
  BY DEF SaveFails, place
<1>2. CardTypeOK'
  BY <1>1 DEF FormsInv, TypeOK, CardTypeOK
<1>3. OwnHolds' /\ PutHolds' /\ CardKnown'
  BY <1>1 DEF FormsInv, CardInv, OwnHolds, PutHolds, CardKnown, Saving, Sure
<1>4. Answering' = Answering
  BY <1>1 DEF Answering, Saving
<1>5. LoadHolds' /\ ShownHolds' /\ DraftHolds'
  BY <1>1, <1>4 DEF FormsInv, CardInv, LoadHolds, ShownHolds, DraftHolds, Sure
<1> QED BY <1>2, <1>3, <1>5 DEF CardInv

\* What somebody else writes to the card in view makes it unsure.
LEMMA SaveElsewhereHolds ==
    ASSUME FormsInv, NEW c \in Channel, SaveElsewhere(c) PROVE CardTypeOK' /\ CardInv'
<1>1. /\ UNCHANGED <<view, mount, content, draft, load, blind>>
      /\ puts' = Overtaken(c, puts) /\ puts \subseteq Put
      /\ card \in [Channel -> Card] /\ view \in Channel
  BY DEF FormsInv, TypeOK, SaveElsewhere, place
<1>2. saves' \in Card /\ saves' = saves + 1
  BY BoundAssumption DEF FormsInv, TypeOK, SaveElsewhere, Card
<1>3. /\ card' \in [Channel -> Card]
      /\ \A other \in Channel : other # c => card'[other] = card[other]
  BY <1>1, <1>2 DEF SaveElsewhere
<1>4. astray' \subseteq Reason /\ (Sure' => Sure /\ c # view)
  BY DEF FormsInv, TypeOK, SaveElsewhere, Sure, Reason
<1>5. \A r \in puts' :
         /\ r \in Put
         /\ r.at = "sent" /\ r.sure => r \in puts /\ r.channel # c
         /\ \E q \in puts :
               /\ r.channel = q.channel /\ r.mount = q.mount /\ r.base = q.base
               /\ r.text = q.text /\ r.at = q.at
               /\ r = IF q.channel = c /\ q.at = "sent" THEN [q EXCEPT !.sure = FALSE] ELSE q
  BY <1>1, OvertakenPuts
<1>6. CardTypeOK'
  BY <1>1, <1>2, <1>3, <1>4, <1>5 DEF FormsInv, TypeOK, CardTypeOK
<1>7. OwnHolds'
  <2>1. \A q, r \in Saving' : q = r
    <3> TAKE q, r \in Saving'
    <3>1. PICK p \in puts :
             /\ p.mount = mount
             /\ q = IF p.channel = c /\ p.at = "sent" THEN [p EXCEPT !.sure = FALSE] ELSE p
      BY <1>1, <1>5 DEF Saving
    <3>2. PICK o \in puts :
             /\ o.mount = mount
             /\ r = IF o.channel = c /\ o.at = "sent" THEN [o EXCEPT !.sure = FALSE] ELSE o
      BY <1>1, <1>5 DEF Saving
    <3>3. p = o
      BY <3>1, <3>2 DEF FormsInv, CardInv, OwnHolds, Saving
    <3> QED BY <3>1, <3>2, <3>3
  <2>2. \A r \in puts' : \E q \in puts : r.channel = q.channel /\ r.mount = q.mount
    BY <1>5
  <2> QED BY <1>1, <1>4, <2>1, <2>2 DEF FormsInv, CardInv, OwnHolds, Saving
<1>8. PutHolds'
  <2>1. \A r \in puts' : r.at = "sent" /\ r.sure =>
           r \in puts /\ r.channel \in Channel /\ r.channel # c
    BY <1>5, PutType
  <2> QED BY <1>3, <2>1 DEF FormsInv, CardInv, PutHolds
<1>9. \A r \in Answering' : r \in Answering
  <2> TAKE r \in Answering'
  <2>1. PICK q \in puts :
           /\ q.mount = r.mount /\ q.at = r.at
           /\ r = IF q.channel = c /\ q.at = "sent" THEN [q EXCEPT !.sure = FALSE] ELSE q
    BY <1>5 DEF Answering, Saving
  <2> QED BY <1>1, <2>1 DEF Answering, Saving
<1>10. \A r \in Answering : r \in Answering'
  <2> TAKE r \in Answering
  <2>1. r \in Overtaken(c, puts)
    BY DEF Answering, Saving, Overtaken
  <2> QED BY <1>1, <2>1 DEF Answering, Saving
<1>11. LoadHolds' /\ ShownHolds' /\ DraftHolds'
  <2>1. Answering' = Answering
    BY <1>9, <1>10
  <2> QED BY <1>1, <1>3, <1>4, <2>1
          DEF FormsInv, CardInv, LoadHolds, ShownHolds, DraftHolds
<1> QED BY <1>1, <1>6, <1>7, <1>8, <1>11 DEF FormsInv, CardInv, CardKnown

LEMMA CardStepKeeps ==
    ASSUME FormsInv, CardStep
    PROVE  CardTypeOK' /\ CardInv' /\ UNCHANGED <<place, composer>>
<1>1. CASE ReadCard \/ LoadArrives \/ LoadFails
  BY <1>1, ReadCardHolds, LoadArrivesHolds, LoadFailsHolds
     DEF ReadCard, LoadArrives, LoadFails
<1>2. CASE StartEdit \/ CancelEdit \/ Save
  BY <1>2, StartEditHolds, CancelEditHolds, SaveHolds DEF StartEdit, CancelEdit, Save
<1>3. ASSUME NEW s \in puts, SetKnowledge(s) \/ SaveRefused(s)
      PROVE  CardTypeOK' /\ CardInv' /\ UNCHANGED <<place, composer>>
  BY <1>3, SetKnowledgeHolds, SaveRefusedHolds DEF SetKnowledge, SaveRefused
<1>4. ASSUME NEW s \in puts, SaveSucceeds(s) \/ SaveFails(s)
      PROVE  CardTypeOK' /\ CardInv' /\ UNCHANGED <<place, composer>>
  BY <1>4, SaveSucceedsHolds, SaveFailsHolds DEF SaveSucceeds, SaveFails
<1>5. ASSUME NEW c \in Channel, SaveElsewhere(c)
      PROVE  CardTypeOK' /\ CardInv' /\ UNCHANGED <<place, composer>>
  BY <1>5, SaveElsewhereHolds DEF SaveElsewhere
<1> QED BY <1>1, <1>2, <1>3, <1>4, <1>5 DEF CardStep

-----------------------------------------------------------------------------
(***************************************************************************)
(* Another channel comes into view                                         *)
(***************************************************************************)

\* Where one comes without a save of the channel or of the kept card, nothing
\* is known against the card.
LEMMA EnteredHolds ==
    ASSUME FormsInv, NEW c \in Channel, NEW earlier, Entered(c, earlier),
           {s \in puts : s.channel = c \/ s.mount = mount'} \subseteq earlier,
           mount' \in Nat, mount' >= mount, UNCHANGED <<card, puts, saves, blind>>,
           content' \in Card,
           \/ mount' = mount
           \/ mount' = mount + 1
    PROVE  CardTypeOK' /\ CardInv' /\ view' = c
<1>1. /\ load' \in Load /\ load' # NoLoad /\ load'.channel = c /\ load'.at = "sent"
      /\ draft' = NoDraft /\ view' = c
  BY LoadType DEF FormsInv, TypeOK, Entered
<1>2. Sure' => \A s \in puts : s.channel # c /\ s.mount # mount'
  BY DEF Entered, Sure
<1>3. CardTypeOK'
  BY <1>1, NoDraftType DEF FormsInv, TypeOK, CardTypeOK, Entered, Reason
<1>4. \A s \in puts : s.mount \in Nat /\ s.mount <= mount /\ mount \in Nat
  BY PutType, BoundAssumption DEF FormsInv, TypeOK, CardInv, OwnHolds
<1>5. OwnHolds'
  <2>1. \A r, s \in Saving' : r = s
    <3>1. CASE mount' = mount
      BY <3>1 DEF FormsInv, CardInv, OwnHolds, Saving
    <3>2. CASE mount' = mount + 1
      <4>1. \A s \in puts : s.mount # mount'
        BY <1>4, <3>2
      <4> QED BY <4>1 DEF Saving
    <3> QED BY <3>1, <3>2
  <2>2. \A s \in puts : s.mount <= mount'
    BY <1>4
  <2>3. Sure' => Saving' = {}
    BY <1>2 DEF Saving
  <2> QED BY <1>1, <1>2, <2>1, <2>2, <2>3 DEF OwnHolds
<1>6. PutHolds' /\ CardKnown'
  BY DEF FormsInv, CardInv, PutHolds, CardKnown
<1>7. Sure' => Answering' = {}
  BY <1>2 DEF Answering, Saving
<1>8. LoadHolds' /\ ShownHolds' /\ DraftHolds'
  BY <1>1, <1>7, NoDraftType DEF LoadHolds, ShownHolds, DraftHolds
<1> QED BY <1>1, <1>3, <1>5, <1>6, <1>8 DEF CardInv

LEMMA VisitsHold ==
    ASSUME FormsInv, NEW c \in Channel, VisitKept(c) \/ VisitFresh(c)
    PROVE  FormsInv'
<1>0. /\ visits \in Nat /\ visits' = visits + 1 /\ visits' \in 0..MaxVisits
      /\ mount \in Nat /\ mount <= visits
  BY BoundAssumption DEF FormsInv, TypeOK, VisitKept, VisitFresh, Entered
<1>1. CASE VisitKept(c)
  <2>1. CardTypeOK' /\ CardInv' /\ view' = c
    <3> DEFINE earlier == {s \in puts : s.channel = c \/ s.mount = mount}
    <3>1. Entered(c, earlier) /\ UNCHANGED <<mount, card, puts, saves, blind, content>>
      BY <1>1 DEF VisitKept
    <3>2. {s \in puts : s.channel = c \/ s.mount = mount'} \subseteq earlier
      BY <3>1
    <3>3. content' \in Card
      BY <3>1 DEF FormsInv, TypeOK
    <3> HIDE DEF earlier
    <3> QED BY <1>0, <3>1, <3>2, <3>3, EnteredHolds
  <2>2. TypeOK'
    BY <1>0, <1>1, <2>1 DEF FormsInv, TypeOK, CardTypeOK, VisitKept, composer
  <2>3. ComposerInv'
    BY <1>1 DEF FormsInv, ComposerInv, Numbered, WaitingHolds, StoredHolds, TextKept,
       OnceHolds, OnceFor, Waiting, VisitKept, composer
  <2> QED BY <2>1, <2>2, <2>3 DEF FormsInv
<1>2. CASE VisitFresh(c)
  <2>0. \A s \in sends : s.mount \in Nat /\ s.mount <= mount
    BY SendType DEF FormsInv, TypeOK, ComposerInv, Numbered
  <2>00. \A s \in puts : s.mount \in Nat /\ s.mount <= mount
    BY PutType DEF FormsInv, TypeOK, CardInv, OwnHolds
  <2>1. CardTypeOK' /\ CardInv' /\ view' = c
    <3> DEFINE earlier == {s \in puts : s.channel = c}
    <3>1. Entered(c, earlier) /\ mount' = mount + 1 /\ UNCHANGED <<card, puts, saves, blind>>
      BY <1>2 DEF VisitFresh
    <3>2. {s \in puts : s.channel = c \/ s.mount = mount'} \subseteq earlier
      BY <1>0, <2>00, <3>1
    <3>3. content' \in Card
      BY <1>2, BoundAssumption DEF VisitFresh, Empty, Card
    <3> HIDE DEF earlier
    <3> QED BY <1>0, <3>1, <3>2, <3>3, EnteredHolds
  <2>2. mount' = mount + 1 /\ typed' = Empty
        /\ UNCHANGED <<texts, sends, sent, stored, clouded, unsure, gone>>
    BY <1>2 DEF VisitFresh
  <2>3. TypeOK'
    BY <1>0, <2>1, <2>2 DEF FormsInv, TypeOK, CardTypeOK
  <2>4. Waiting' = {}
    BY <1>0, <2>0, <2>2 DEF Waiting
  <2>5. Numbered'
    BY <1>0, <2>0, <2>2, BoundAssumption DEF FormsInv, TypeOK, ComposerInv, Numbered, Empty
  <2>6. WaitingHolds' /\ StoredHolds' /\ TextKept'
    BY <2>2, <2>4 DEF FormsInv, ComposerInv, WaitingHolds, StoredHolds, TextKept
  <2>7. OnceHolds'
    <3> SUFFICES ASSUME NEW t \in Text \ (clouded \cup unsure) PROVE OnceFor(t)'
      BY <2>2 DEF OnceHolds
    <3>1. OnceFor(t) /\ t # Empty
      BY DEF FormsInv, ComposerInv, OnceHolds, Text, Empty
    <3> QED BY <2>2, <3>1 DEF OnceFor
  <2> QED BY <2>1, <2>3, <2>5, <2>6, <2>7 DEF FormsInv, ComposerInv
<1> QED BY <1>1, <1>2

-----------------------------------------------------------------------------
LEMMA FormsInvStep == FormsInv /\ [Next]_vars => FormsInv'
<1> SUFFICES ASSUME FormsInv, [Next]_vars PROVE FormsInv'
  OBVIOUS
<1>1. CASE ComposerStep
  <2>1. ComposerTypeOK' /\ ComposerInv' /\ UNCHANGED <<place, cards>>
    BY <1>1, ComposerStepKeeps
  <2>2. TypeOK'
    BY <2>1 DEF FormsInv, TypeOK, ComposerTypeOK, place, cards
  <2>3. CardInv'
    BY <2>1 DEF FormsInv, CardInv, OwnHolds, LoadHolds, ShownHolds, DraftHolds, PutHolds,
       CardKnown, Sure, Answering, Saving, place, cards
  <2> QED BY <2>1, <2>2, <2>3 DEF FormsInv
<1>2. CASE CardStep
  <2>1. CardTypeOK' /\ CardInv' /\ UNCHANGED <<place, composer>>
    BY <1>2, CardStepKeeps
  <2>2. TypeOK'
    BY <2>1 DEF FormsInv, TypeOK, CardTypeOK, place, composer
  <2>3. ComposerInv'
    BY <2>1 DEF FormsInv, ComposerInv, Numbered, WaitingHolds, StoredHolds, TextKept,
       OnceHolds, OnceFor, Waiting, place, composer
  <2> QED BY <2>1, <2>2, <2>3 DEF FormsInv
<1>3. CASE \E c \in Channel : VisitKept(c) \/ VisitFresh(c)
  BY <1>3, VisitsHold
<1>4. CASE UNCHANGED vars
  BY <1>4 DEF FormsInv, TypeOK, ComposerInv, Numbered, WaitingHolds, StoredHolds, TextKept,
     OnceHolds, OnceFor, Waiting, CardInv, OwnHolds, LoadHolds, ShownHolds, DraftHolds,
     PutHolds, CardKnown, Sure, Answering, Saving, vars, place, composer, cards
<1> QED BY <1>1, <1>2, <1>3, <1>4 DEF Next, ComposerStep, CardStep

\* The composer, the card and the requests of both stay related in every
\* interleaving of typing, answers and visits (MessageComposer, ChannelKnowledgeCard).
THEOREM FormsInvHolds == Spec => []FormsInv
BY FormsInvInit, FormsInvStep, PTL DEF Spec

\* The variables of the forms keep their types.
THEOREM TypesHold == Spec => []TypeOK
BY FormsInvHolds, PTL DEF FormsInv

\* An answer clears nothing that is not stored, unless one typed or sent again
\* while it was under way.
THEOREM TextsAreKept == Spec => []TextKept
BY FormsInvHolds, PTL DEF FormsInv, ComposerInv

\* A text is stored twice only when it was sent again.
LEMMA FormsInvStoresOnce == FormsInv => StoredOnce
<1> SUFFICES ASSUME FormsInv, NEW t \in Text, stored[t] > 1 PROVE t \in clouded \cup unsure
  BY DEF StoredOnce
<1>1. stored[t] \in Nat
  BY DEF FormsInv, TypeOK
<1>2. t \notin clouded \cup unsure => stored[t] <= 1
  BY DEF FormsInv, ComposerInv, OnceHolds, OnceFor
<1> QED BY <1>1, <1>2

\* A text is stored twice only when it was sent again (MessageComposer.submit).
THEOREM TextsAreStoredOnce == Spec => []StoredOnce
BY FormsInvHolds, FormsInvStoresOnce, PTL

\* Nobody replaces a card without having been shown what it held, up to the
\* reasons that are named.
THEOREM CardsAreKnown == Spec => []CardKnown
BY FormsInvHolds, PTL DEF FormsInv, CardInv

LEMMA FormsInvShows == FormsInv => CardShown
<1> SUFFICES ASSUME FormsInv, load = NoLoad, puts = {}, Sure PROVE content = card[view]
  BY DEF CardShown, Sure
<1>1. Answering = {}
  BY DEF Answering, Saving
<1> QED BY <1>1 DEF FormsInv, CardInv, ShownHolds

\* When everything is answered, the card in view is the card that is stored.
THEOREM CardsAreShown == Spec => []CardShown
BY FormsInvHolds, FormsInvShows, PTL
=============================================================================
