------------------------------ MODULE ChannelView ------------------------------
(***************************************************************************)
(* One browser looking at channels: the page that Next.js loads, the       *)
(* component ChannelView, the socket and its rooms on the server.          *)
(*                                                                         *)
(* A page load reads the history and arrives later; the component then     *)
(* re-seeds its list and swaps its subscription.  The server answers       *)
(* subscribe:channel after a query, unsubscribe:channel at once.  Messages *)
(* are stored first and broadcast afterwards.  Events travel in order on   *)
(* one connection and are lost with it; what the browser emits while it is *)
(* offline is buffered by socket.io-client.                                *)
(***************************************************************************)
EXTENDS Naturals, FiniteSets, SequencesExt

CONSTANTS
    Channel,      \* the channels
    Message,      \* the messages that may be posted
    ChannelOf,    \* the channel each of them is posted to
    NoChannel,    \* the browser is on another page
    MaxPages,     \* bound of the model: page loads
    MaxDrops      \* bound of the model: lost connections

ASSUME MessageAssumption == ChannelOf \in [Message -> Channel]
ASSUME PageAssumption == NoChannel \notin Channel
ASSUME BoundAssumption == MaxPages \in Nat /\ MaxDrops \in Nat

VARIABLES
    stored,      \* table Message: the rows of each channel in the order of createdAt
    posting,     \* create calls between the insert and the broadcast
    view,        \* channelId of the mounted ChannelView
    shown,       \* its list of messages
    page,        \* the page load in progress
    connected,   \* socket.connected
    up,          \* events of the browser on their way (or buffered)
    down,        \* message:new events on their way to the browser
    lookups,     \* subscribe:channel handlers at their query, per channel
    rooms,       \* channel rooms of the browser's socket on the server
    missed,      \* channels whose last subscription ended without a join
    pages,       \* page loads so far
    drops        \* lost connections so far

messages == <<stored, posting>>
screen == <<view, shown>>
server == <<lookups, rooms, missed>>
counts == <<pages, drops>>
vars == <<messages, screen, page, connected, up, down, server, counts>>

Subscribe(c) == [op |-> "subscribe:channel", channel |-> c]
Unsubscribe(c) == [op |-> "unsubscribe:channel", channel |-> c]
Event == {Subscribe(c) : c \in Channel} \cup {Unsubscribe(c) : c \in Channel}

NoPage == [channel |-> NoChannel, read |-> FALSE, rows |-> <<>>]
PageLoad == [channel : Channel \cup {NoChannel}, read : BOOLEAN, rows : Seq(Message)]

TypeOK ==
    /\ stored \in [Channel -> Seq(Message)] /\ posting \subseteq Message
    /\ view \in Channel \cup {NoChannel} /\ shown \in Seq(Message)
    /\ page \in PageLoad
    /\ connected \in BOOLEAN
    /\ up \in Seq(Event) /\ down \in Seq(Message)
    /\ lookups \in [Channel -> Nat]
    /\ rooms \subseteq Channel /\ missed \subseteq Channel
    /\ pages \in 0..MaxPages /\ drops \in 0..MaxDrops

Init ==
    /\ stored = [c \in Channel |-> <<>>] /\ posting = {}
    /\ view = NoChannel /\ shown = <<>>
    /\ page = NoPage
    /\ connected = FALSE /\ up = <<>> /\ down = <<>>
    /\ lookups = [c \in Channel |-> 0] /\ rooms = {} /\ missed = {}
    /\ pages = 0 /\ drops = 0

-----------------------------------------------------------------------------
(***************************************************************************)
(* Messages                                                                *)
(***************************************************************************)

\* listByChannel.
History(c) == stored[c]

\* MessageService.create: the row is committed.
Post(m) ==
    /\ m \notin Range(stored[ChannelOf[m]])
    /\ stored' = [stored EXCEPT ![ChannelOf[m]] = Append(@, m)]
    /\ posting' = posting \cup {m}
    /\ UNCHANGED <<screen, page, connected, up, down, server, counts>>

\* Its broadcast, after the await: concurrent calls resume in any order, and
\* only the sockets in the room at this moment receive the event.
Broadcast(m) ==
    /\ m \in posting
    /\ posting' = posting \ {m}
    /\ down' = IF ChannelOf[m] \in rooms THEN Append(down, m) ELSE down
    /\ UNCHANGED <<stored, screen, page, connected, up, server, counts>>

-----------------------------------------------------------------------------
(***************************************************************************)
(* Pages                                                                   *)
(***************************************************************************)

\* A link is followed, also to the channel in view; a load in progress is
\* given up.
Navigate(c) ==
    /\ pages < MaxPages
    /\ pages' = pages + 1
    /\ page' = [channel |-> c, read |-> FALSE, rows |-> <<>>]
    /\ UNCHANGED <<messages, screen, connected, up, down, server, drops>>

\* ChannelPage reads the history.
PageReads ==
    /\ page.channel \in Channel /\ ~page.read
    /\ page' = [page EXCEPT !.read = TRUE, !.rows = History(page.channel)]
    /\ UNCHANGED <<messages, screen, connected, up, down, server, counts>>

\* The cleanup of the effect of the channel in view.
Cleanup == IF view \in Channel THEN <<Unsubscribe(view)>> ELSE <<>>

\* Mutant: the new room is joined before the old one is left.
MountSwapped(rows, c) ==
    /\ shown' = rows
    /\ view' = c
    /\ up' = up \o <<Subscribe(c)>> \o Cleanup

\* The effects of ChannelView: seed the list, leave the old room, join the
\* new one, also when both are the same.
Mount(rows, c) ==
    /\ shown' = rows
    /\ view' = c
    /\ up' = up \o Cleanup \o <<Subscribe(c)>>

PageArrives ==
    /\ page.read
    /\ Mount(page.rows, page.channel)
    /\ page' = NoPage
    /\ UNCHANGED <<messages, connected, down, server, counts>>

\* Another page of the workspace replaces the channel.
Leave ==
    /\ view \in Channel
    /\ view' = NoChannel /\ shown' = <<>>
    /\ page' = NoPage
    /\ up' = up \o Cleanup
    /\ UNCHANGED <<messages, connected, down, server, counts>>

-----------------------------------------------------------------------------
(***************************************************************************)
(* The socket                                                              *)
(***************************************************************************)

\* Mutant: the room is not joined again after a reconnect.
OnConnectNothing == up

\* What was buffered goes out, then the handler of the mounted view.
OnConnect == IF view \in Channel THEN Append(up, Subscribe(view)) ELSE up

Connect ==
    /\ ~connected
    /\ connected' = TRUE
    /\ up' = OnConnect
    /\ UNCHANGED <<messages, screen, page, down, server, counts>>

\* The connection is gone with all that was on its way and with the rooms.
ConnectionLost ==
    /\ connected /\ drops < MaxDrops
    /\ drops' = drops + 1
    /\ connected' = FALSE
    /\ up' = <<>> /\ down' = <<>>
    /\ lookups' = [c \in Channel |-> 0] /\ rooms' = {} /\ missed' = {}
    /\ UNCHANGED <<screen, pages>>

Disconnect == ConnectionLost /\ UNCHANGED <<messages, page>>

\* The server process restarts: nobody broadcasts the rows just committed,
\* and a page load in progress may fail.
Restart ==
    /\ ConnectionLost
    /\ posting' = {} /\ page' \in {page, NoPage}
    /\ UNCHANGED stored

\* The server takes the next event of the browser.
Taken(op, c) ==
    /\ connected /\ up # <<>>
    /\ Head(up) = [op |-> op, channel |-> c]
    /\ up' = Tail(up)

SubscribeTaken(c) ==
    /\ Taken("subscribe:channel", c)
    /\ lookups' = [lookups EXCEPT ![c] = @ + 1]
    /\ missed' = missed \ {c}
    /\ UNCHANGED <<messages, screen, page, connected, down, rooms, counts>>

UnsubscribeTaken(c) ==
    /\ Taken("unsubscribe:channel", c)
    /\ rooms' = rooms \ {c}
    /\ UNCHANGED <<messages, screen, page, connected, down, lookups, missed, counts>>

\* The query finds the channel: the socket joins, whatever came meanwhile.
LookupReturns(c) ==
    /\ lookups[c] > 0
    /\ lookups' = [lookups EXCEPT ![c] = @ - 1]
    /\ rooms' = rooms \cup {c}
    /\ UNCHANGED <<messages, screen, page, connected, up, down, missed, counts>>

\* The query fails or finds nothing: the handler returns.
LookupFails(c) ==
    /\ lookups[c] > 0
    /\ lookups' = [lookups EXCEPT ![c] = @ - 1]
    /\ missed' = missed \cup {c}
    /\ UNCHANGED <<messages, screen, page, connected, up, down, rooms, counts>>

-----------------------------------------------------------------------------
\* Mutant: no guard against a message already in the list.
AppendedAgain(m) == IF ChannelOf[m] = view THEN Append(shown, m) ELSE shown

Appended(m) ==
    IF ChannelOf[m] = view /\ m \notin Range(shown) THEN Append(shown, m) ELSE shown

\* handleMessageNew; without a mounted view nobody listens.
Receive ==
    /\ down # <<>>
    /\ shown' = Appended(Head(down))
    /\ down' = Tail(down)
    /\ UNCHANGED <<messages, view, page, connected, up, server, counts>>

Next ==
    \/ \E m \in Message : Post(m) \/ Broadcast(m)
    \/ \E c \in Channel : Navigate(c)
    \/ PageReads \/ PageArrives \/ Leave
    \/ Connect \/ Disconnect \/ Restart
    \/ \E c \in Channel : SubscribeTaken(c) \/ UnsubscribeTaken(c)
    \/ \E c \in Channel : LookupReturns(c) \/ LookupFails(c)
    \/ Receive

Spec == Init /\ [][Next]_vars

\* The client retries its connection without end, a live connection carries
\* its events, and queries of the database settle.
Fairness ==
    /\ WF_vars(Connect) /\ WF_vars(Receive)
    /\ \A c \in Channel :
          /\ WF_vars(SubscribeTaken(c)) /\ WF_vars(UnsubscribeTaken(c))
          /\ WF_vars(LookupReturns(c) \/ LookupFails(c))

FairSpec == Spec /\ Fairness

-----------------------------------------------------------------------------
(***************************************************************************)
(* Properties                                                              *)
(***************************************************************************)

\* The list of ChannelView holds stored messages of its own channel, each
\* once, although a message can come with the page and as an event, the socket
\* can sit in the room of another channel, and a page can arrive after events
\* that are newer than its history.
ShownOnce ==
    /\ \A i \in 1..Len(shown) :
          ChannelOf[shown[i]] = view /\ shown[i] \in Range(stored[view])
    /\ \A i, j \in 1..Len(shown) : i # j => shown[i] # shown[j]

\* The last event of the browser about channel c that is still on its way.
OnTheirWay(c) == {i \in 1..Len(up) : up[i].channel = c}
LastEvent(c) == up[CHOOSE i \in OnTheirWay(c) : \A j \in OnTheirWay(c) : j <= i]

\* The view on a live connection is in its room, or on the way to it, or its
\* query failed: no order of swaps, buffered events, delayed queries and
\* reconnects leaves it outside for another reason.
Subscribed ==
    connected /\ view \in Channel =>
        IF OnTheirWay(view) # {}
        THEN LastEvent(view) = Subscribe(view)
        ELSE lookups[view] > 0 \/ view \in rooms \/ view \in missed

\* A view that stays on a live connection gets into its room, unless the
\* query of its subscription fails.
BecomesLive ==
    \A c \in Channel :
        (connected /\ view = c) ~>
            (c \in rooms \/ c \in missed \/ ~connected \/ view # c)

\* The comment at unsubscribe:channel: long-lived sessions release the rooms
\* of the channels they have left.
RoomsReleased ==
    up = <<>> /\ (\A c \in Channel : lookups[c] = 0) => rooms \subseteq {view}
=============================================================================
