---------------------------- MODULE ChannelViewProofs ----------------------------
(***************************************************************************)
(* What a channel view shows and which room its socket is in, for any      *)
(* number of channels, messages, page loads and lost connections.          *)
(***************************************************************************)
EXTENDS ChannelView, SequenceTheorems, TLAPS

\* The types; only a load of a channel reads.
ViewTypes == TypeOK /\ (page.read => page.channel \in Channel)

\* A list of messages of channel c that are among rows, each once.
ListOf(list, c, rows) ==
    /\ \A i \in 1..Len(list) : ChannelOf[list[i]] = c /\ list[i] \in Range(rows)
    /\ \A i, j \in 1..Len(list) : i # j => list[i] # list[j]

\* The table holds each message once, under its channel.
StoredHolds == \A c \in Channel : ListOf(stored[c], c, stored[c])

\* A page load that has read has what was the history of its channel.
PageHolds == page.read => ListOf(page.rows, page.channel, stored[page.channel])

\* What is broadcast, or about to be, is stored.
IsStored(m) == m \in Range(stored[ChannelOf[m]])
EventsHold ==
    /\ \A m \in posting : IsStored(m)
    /\ \A i \in 1..Len(down) : IsStored(down[i])

\* The list in view is of its channel; without a view it is empty.
ShownHolds ==
    IF view \in Channel THEN ListOf(shown, view, stored[view]) ELSE shown = <<>>

ListInv == ViewTypes /\ StoredHolds /\ PageHolds /\ EventsHold /\ ShownHolds

-----------------------------------------------------------------------------
LEMMA ViewTypesInit == Init => ViewTypes
<1> SUFFICES ASSUME Init PROVE ViewTypes
  OBVIOUS
<1>1. page \in PageLoad /\ ~page.read
  BY DEF Init, NoPage, PageLoad
<1>2. pages \in 0..MaxPages /\ drops \in 0..MaxDrops
  BY BoundAssumption DEF Init
<1>3. /\ stored \in [Channel -> Seq(Message)] /\ shown \in Seq(Message)
      /\ up \in Seq(Event) /\ down \in Seq(Message)
  BY DEF Init
<1>4. lookups \in [Channel -> Nat]
  BY DEF Init
<1> QED BY <1>1, <1>2, <1>3, <1>4 DEF Init, ViewTypes, TypeOK

LEMMA CleanupType ==
    /\ Cleanup \in Seq(Event)
    /\ \A c \in Channel : <<Subscribe(c)>> \in Seq(Event) /\ Subscribe(c) \in Event
<1>1. \A c \in Channel : Subscribe(c) \in Event /\ Unsubscribe(c) \in Event
  BY DEF Event
<1> QED BY <1>1 DEF Cleanup

LEMMA LostTypes ==
    ASSUME TypeOK, ConnectionLost
    PROVE  /\ lookups' \in [Channel -> Nat] /\ drops' \in 0..MaxDrops
           /\ up' \in Seq(Event) /\ down' \in Seq(Message)
<1>1. lookups' \in [Channel -> Nat]
  BY DEF ConnectionLost
<1>2. drops' \in 0..MaxDrops
  BY BoundAssumption DEF ConnectionLost, TypeOK
<1> QED BY <1>1, <1>2 DEF ConnectionLost

LEMMA ViewTypesStep == ViewTypes /\ [Next]_vars => ViewTypes'
<1> SUFFICES ASSUME ViewTypes, [Next]_vars PROVE ViewTypes'
  OBVIOUS
<1> USE DEF ViewTypes, TypeOK, messages, screen, server, counts
<1>1. ASSUME NEW m \in Message, Post(m) PROVE ViewTypes'
  BY <1>1, MessageAssumption DEF Post
<1>2. ASSUME NEW m \in Message, Broadcast(m) PROVE ViewTypes'
  BY <1>2 DEF Broadcast
<1>3. ASSUME NEW c \in Channel, Navigate(c) PROVE ViewTypes'
  <2>1. page' \in PageLoad /\ ~page'.read
    BY <1>3 DEF Navigate, PageLoad
  <2>2. pages' \in 0..MaxPages
    BY <1>3, BoundAssumption DEF Navigate
  <2> QED BY <1>3, <2>1, <2>2 DEF Navigate
<1>4. CASE PageReads
  <2>1. page.channel \in Channel /\ History(page.channel) \in Seq(Message)
    BY <1>4 DEF PageReads, History
  <2>2. page' \in PageLoad /\ page'.channel = page.channel
    BY <1>4, <2>1 DEF PageReads, PageLoad
  <2> QED BY <1>4, <2>1, <2>2 DEF PageReads
<1>5. NoPage \in PageLoad /\ ~NoPage.read
  BY DEF NoPage, PageLoad
<1>6. /\ Cleanup \in Seq(Event)
      /\ \A c \in Channel : <<Subscribe(c)>> \in Seq(Event) /\ Subscribe(c) \in Event
  BY CleanupType
<1>7. CASE PageArrives
  <2>1. page.channel \in Channel /\ page.rows \in Seq(Message)
    BY <1>7 DEF PageArrives, PageLoad
  <2>2. up' \in Seq(Event)
    BY <1>7, <1>6, <2>1, ConcatProperties DEF PageArrives, Mount
  <2> QED BY <1>7, <1>5, <2>1, <2>2 DEF PageArrives, Mount
<1>8. CASE Leave
  BY <1>8, <1>5, <1>6, ConcatProperties DEF Leave
<1>9. CASE Connect
  <2>1. up' \in Seq(Event)
    BY <1>9, <1>6 DEF Connect, OnConnect
  <2> QED BY <1>9, <2>1 DEF Connect
<1>10. CASE Disconnect
  <2>1. ConnectionLost
    BY <1>10 DEF Disconnect
  <2> QED BY <1>10, <2>1, LostTypes DEF Disconnect, ConnectionLost
<1>11. CASE Restart
  <2>1. ConnectionLost
    BY <1>11 DEF Restart
  <2>2. page' \in PageLoad /\ (page'.read => page'.channel \in Channel)
    BY <1>5, <1>11 DEF Restart
  <2> QED BY <1>11, <2>1, <2>2, LostTypes DEF Restart, ConnectionLost
<1>12. ASSUME NEW c \in Channel, SubscribeTaken(c) \/ UnsubscribeTaken(c)
       PROVE  ViewTypes'
  <2>1. up # <<>> /\ up' = Tail(up)
    BY <1>12 DEF SubscribeTaken, UnsubscribeTaken, Taken
  <2>2. up' \in Seq(Event)
    BY <2>1
  <2>3. lookups' \in [Channel -> Nat]
    <3>1. CASE SubscribeTaken(c)
      <4>1. lookups' = [lookups EXCEPT ![c] = lookups[c] + 1]
        BY <3>1 DEF SubscribeTaken
      <4> QED BY <4>1
    <3>2. CASE UnsubscribeTaken(c)
      BY <3>2 DEF UnsubscribeTaken
    <3> QED BY <1>12, <3>1, <3>2
  <2> QED BY <1>12, <2>2, <2>3 DEF SubscribeTaken, UnsubscribeTaken
<1>13. ASSUME NEW c \in Channel, LookupReturns(c) \/ LookupFails(c)
       PROVE  ViewTypes'
  <2>1. lookups' \in [Channel -> Nat]
    BY <1>13 DEF LookupReturns, LookupFails
  <2> QED BY <1>13, <2>1 DEF LookupReturns, LookupFails
<1>14. CASE Receive
  BY <1>14 DEF Receive, Appended
<1>15. CASE UNCHANGED vars
  BY <1>15 DEF vars
<1> QED BY <1>1, <1>2, <1>3, <1>4, <1>7, <1>8, <1>9, <1>10, <1>11, <1>12, <1>13,
           <1>14, <1>15 DEF Next

-----------------------------------------------------------------------------
(***************************************************************************)
(* ShownOnce                                                               *)
(***************************************************************************)

\* A list among rows is one among more rows.
LEMMA ListAmongMore ==
    ASSUME NEW list, NEW c, NEW rows, NEW more,
           ListOf(list, c, rows), Range(rows) \subseteq Range(more)
    PROVE  ListOf(list, c, more)
BY DEF ListOf

\* A message at the end of a list that does not hold it.
LEMMA AppendToList ==
    ASSUME NEW c \in Channel, NEW list \in Seq(Message), NEW m \in Message, NEW rows,
           ListOf(list, c, rows), ChannelOf[m] = c, m \in Range(rows), m \notin Range(list)
    PROVE  ListOf(Append(list, m), c, rows)
<1>1. /\ Len(list) \in Nat /\ Len(Append(list, m)) = Len(list) + 1
      /\ \A i \in 1..Len(list) : Append(list, m)[i] = list[i] /\ list[i] # m
      /\ Append(list, m)[Len(list) + 1] = m
  BY DEF Range
<1> QED BY <1>1 DEF ListOf

LEMMA ListInvInit == Init => ListInv
<1> SUFFICES ASSUME Init PROVE ListInv
  OBVIOUS
<1>1. StoredHolds /\ EventsHold /\ ShownHolds
  BY PageAssumption DEF Init, StoredHolds, EventsHold, ShownHolds, ListOf
<1>2. PageHolds
  BY DEF Init, PageHolds, NoPage
<1> QED BY <1>1, <1>2, ViewTypesInit DEF ListInv

\* The table only grows.
LEMMA PostGrows ==
    ASSUME ListInv, NEW m \in Message, Post(m)
    PROVE  /\ StoredHolds' /\ IsStored(m)'
           /\ \A c \in Channel : Range(stored[c]) \subseteq Range(stored'[c])
<1> DEFINE d == ChannelOf[m]
<1>1. ViewTypes /\ StoredHolds
  BY DEF ListInv
<1>2. d \in Channel /\ stored[d] \in Seq(Message)
  BY <1>1, MessageAssumption DEF ViewTypes, TypeOK
<1>3. /\ stored' = [stored EXCEPT ![d] = Append(stored[d], m)]
      /\ m \notin Range(stored[d])
  BY DEF Post
<1>4. /\ stored'[d] = Append(stored[d], m)
      /\ \A c \in Channel : c # d => stored'[c] = stored[c]
  BY <1>1, <1>2, <1>3 DEF ViewTypes, TypeOK
<1>5. m \in Range(stored'[d]) /\ Range(stored[d]) \subseteq Range(stored'[d])
  BY <1>2, <1>4, AppendProperties DEF Range
<1>6. ListOf(stored'[d], d, stored'[d])
  <2>1. ListOf(stored[d], d, stored'[d])
    BY <1>1, <1>2, <1>5, ListAmongMore DEF StoredHolds
  <2> QED BY <2>1, <1>2, <1>3, <1>4, <1>5, AppendToList
<1>7. \A c \in Channel : ListOf(stored'[c], c, stored'[c])
  BY <1>1, <1>4, <1>6 DEF StoredHolds
<1> QED BY <1>4, <1>5, <1>7 DEF StoredHolds, IsStored

LEMMA PostKeeps ==
    ASSUME ListInv, NEW m \in Message, Post(m)
    PROVE  ListInv'
<1>1. /\ StoredHolds' /\ IsStored(m)'
      /\ \A c \in Channel : Range(stored[c]) \subseteq Range(stored'[c])
  BY PostGrows
<1>2. /\ posting' = posting \cup {m} /\ UNCHANGED <<view, shown, page, down>>
  BY DEF Post, screen
<1>3. PageHolds'
  BY <1>1, <1>2, ListAmongMore DEF ListInv, ViewTypes, PageHolds
<1>4. ShownHolds'
  BY <1>1, <1>2, ListAmongMore DEF ListInv, ShownHolds
<1>5. \A n \in Message : IsStored(n) => IsStored(n)'
  BY <1>1, MessageAssumption DEF IsStored
<1>6. EventsHold'
  <2>1. \A n \in posting : n \in Message
    BY DEF ListInv, ViewTypes, TypeOK
  <2>2. \A i \in 1..Len(down) : down[i] \in Message
    BY DEF ListInv, ViewTypes, TypeOK
  <2>3. \A n \in posting' : IsStored(n)'
    BY <1>1, <1>2, <1>5, <2>1 DEF ListInv, EventsHold
  <2>4. \A i \in 1..Len(down') : IsStored(down[i])'
    BY <1>2, <1>5, <2>2 DEF ListInv, EventsHold, IsStored
  <2> QED BY <1>2, <2>3, <2>4 DEF EventsHold, IsStored
<1>7. ViewTypes'
  BY ViewTypesStep DEF ListInv, Next
<1> QED BY <1>1, <1>3, <1>4, <1>6, <1>7 DEF ListInv

\* Steps that move no message.
LEMMA NoMessageMoves ==
    ASSUME ListInv, ViewTypes', UNCHANGED <<stored, posting, page, shown, view>>,
           down' = down \/ down' = <<>>
    PROVE  ListInv'
BY DEF ListInv, StoredHolds, PageHolds, EventsHold, ShownHolds, IsStored

LEMMA ListInvStep == ListInv /\ [Next]_vars => ListInv'
<1> SUFFICES ASSUME ListInv, [Next]_vars PROVE ListInv'
  OBVIOUS
<1>0. ViewTypes'
  BY ViewTypesStep DEF ListInv
<1> USE DEF messages, screen, server, counts
<1>1. ASSUME NEW m \in Message, Post(m) PROVE ListInv'
  BY <1>1, PostKeeps
<1>2. ASSUME NEW m \in Message, Broadcast(m) PROVE ListInv'
  <2>1. IsStored(m) /\ down \in Seq(Message)
    BY <1>2 DEF Broadcast, ListInv, EventsHold, ViewTypes, TypeOK
  <2>2. \A i \in 1..Len(down') : IsStored(down'[i])
    BY <1>2, <2>1, AppendProperties DEF Broadcast, ListInv, EventsHold
  <2> QED BY <1>0, <1>2, <2>2 DEF Broadcast, ListInv, StoredHolds, PageHolds, EventsHold,
          ShownHolds, IsStored
<1>3. ASSUME NEW c \in Channel, Navigate(c) PROVE ListInv'
  BY <1>0, <1>3 DEF Navigate, ListInv, StoredHolds, PageHolds, EventsHold, ShownHolds, IsStored
<1>4. CASE PageReads
  <2>1. page.channel \in Channel /\ page'.channel = page.channel
        /\ page'.rows = stored[page.channel]
    BY <1>4 DEF PageReads, ListInv, ViewTypes, TypeOK, PageLoad, History
  <2> QED BY <1>0, <1>4, <2>1 DEF PageReads, ListInv, StoredHolds, PageHolds, EventsHold,
          ShownHolds, IsStored
<1>5. ~NoPage.read
  BY DEF NoPage
<1>6. CASE PageArrives
  <2>1. page.channel \in Channel /\ ListOf(page.rows, page.channel, stored[page.channel])
    BY <1>6 DEF PageArrives, ListInv, ViewTypes, PageHolds
  <2>2. view' = page.channel /\ shown' = page.rows /\ page' = NoPage
        /\ UNCHANGED <<stored, posting, down>>
    BY <1>6 DEF PageArrives, Mount
  <2> QED BY <1>0, <1>5, <2>1, <2>2 DEF ListInv, StoredHolds, PageHolds, EventsHold,
          ShownHolds, IsStored
<1>7. CASE Leave
  <2>1. view' = NoChannel /\ shown' = <<>> /\ page' = NoPage
        /\ UNCHANGED <<stored, posting, down>>
    BY <1>7 DEF Leave
  <2> QED BY <1>0, <1>5, <2>1, PageAssumption DEF ListInv, StoredHolds, PageHolds, EventsHold,
          ShownHolds, IsStored
<1>8. CASE Connect \/ Disconnect
  BY <1>0, <1>8, NoMessageMoves DEF Connect, Disconnect, ConnectionLost
<1>9. CASE Restart
  <2>1. /\ posting' = {} /\ page' \in {page, NoPage} /\ down' = <<>>
        /\ UNCHANGED <<stored, view, shown>>
    BY <1>9 DEF Restart, ConnectionLost
  <2> QED BY <1>0, <1>5, <2>1 DEF ListInv, StoredHolds, PageHolds, EventsHold,
          ShownHolds, IsStored
<1>10. ASSUME NEW c \in Channel,
              SubscribeTaken(c) \/ UnsubscribeTaken(c) \/ LookupReturns(c) \/ LookupFails(c)
       PROVE  ListInv'
  BY <1>0, <1>10, NoMessageMoves
     DEF SubscribeTaken, UnsubscribeTaken, LookupReturns, LookupFails
<1>11. CASE Receive
  <2> DEFINE m == Head(down)
  <2>1. /\ down \in Seq(Message) /\ down # <<>> /\ down' = Tail(down)
        /\ shown' = Appended(m) /\ UNCHANGED <<stored, posting, page, view>>
    BY <1>11 DEF Receive, ListInv, ViewTypes, TypeOK
  <2>2. m \in Message /\ m = down[1] /\ Len(down) \in Nat /\ Len(down) >= 1
    BY <2>1
  <2>3. IsStored(m)
    BY <2>2 DEF ListInv, EventsHold
  <2>4. \A i \in 1..Len(down') : IsStored(down'[i])
    <3>1. Len(down') = Len(down) - 1 /\ \A i \in 1..Len(down') : down'[i] = down[i + 1]
      BY <2>1, HeadTailProperties
    <3> QED BY <2>2, <3>1 DEF ListInv, EventsHold
  <2>5. ShownHolds'
    <3>1. CASE ChannelOf[m] = view /\ m \notin Range(shown)
      <4>1. view \in Channel /\ shown \in Seq(Message) /\ m \in Range(stored[view])
        BY <2>2, <2>3, <3>1, MessageAssumption DEF IsStored, ListInv, ViewTypes, TypeOK
      <4>2. shown' = Append(shown, m)
        BY <2>1, <3>1 DEF Appended
      <4> QED BY <2>1, <2>2, <3>1, <4>1, <4>2, AppendToList DEF ListInv, ShownHolds
    <3>2. CASE ~(ChannelOf[m] = view /\ m \notin Range(shown))
      BY <2>1, <3>2 DEF Appended, ListInv, ShownHolds
    <3> QED BY <3>1, <3>2
  <2> HIDE DEF m
  <2> QED BY <1>0, <2>1, <2>4, <2>5 DEF ListInv, StoredHolds, PageHolds, EventsHold, IsStored
<1>12. CASE UNCHANGED vars
  BY <1>0, <1>12, NoMessageMoves DEF vars
<1> QED BY <1>1, <1>2, <1>3, <1>4, <1>6, <1>7, <1>8, <1>9, <1>10, <1>11, <1>12 DEF Next

THEOREM ListInvHolds == Spec => []ListInv
BY ListInvInit, ListInvStep, PTL DEF Spec

\* The types of ChannelView.
THEOREM ViewTypesHold == Spec => []TypeOK
<1>1. ListInv => TypeOK
  BY DEF ListInv, ViewTypes
<1> QED BY <1>1, ListInvHolds, PTL

\* ShownOnce: seeding from a page, live events and the check for a message that is
\* there already leave stored messages of the channel in view, each once.
THEOREM ListIsClean == Spec => []ShownOnce
<1>1. ListInv => ShownOnce
  <2> SUFFICES ASSUME ListInv PROVE ShownOnce
    OBVIOUS
  <2>1. CASE view \in Channel
    BY <2>1 DEF ListInv, ShownHolds, ShownOnce, ListOf
  <2>2. CASE view \notin Channel
    BY <2>2 DEF ListInv, ShownHolds, ShownOnce
  <2> QED BY <2>1, <2>2
<1> QED BY <1>1, ListInvHolds, PTL

-----------------------------------------------------------------------------
(***************************************************************************)
(* Subscribed                                                              *)
(***************************************************************************)

\* The event at i is the last about c.
IsLast(i, c) == i \in OnTheirWay(c) /\ \A j \in OnTheirWay(c) : j <= i

\* The last event about the channel in view, if there is one, asks for its room;
\* if there is none, the server has taken it and was not told otherwise since.
RoomComes ==
    connected /\ view \in Channel =>
        \/ \E i \in 1..Len(up) : IsLast(i, view) /\ up[i] = Subscribe(view)
        \/ /\ OnTheirWay(view) = {}
           /\ lookups[view] > 0 \/ view \in rooms \/ view \in missed

RoomInv == ViewTypes /\ RoomComes

LEMMA LastEventIs ==
    ASSUME NEW c, NEW i, IsLast(i, c), up \in Seq(Event)
    PROVE  LastEvent(c) = up[i]
<1>1. \A j : IsLast(j, c) => j = i
  BY DEF IsLast, OnTheirWay
<1> QED BY <1>1 DEF LastEvent, IsLast

LEMMA RoomComesMeans == RoomInv => Subscribed
<1> SUFFICES ASSUME RoomInv, connected, view \in Channel
             PROVE  IF OnTheirWay(view) # {}
                    THEN LastEvent(view) = Subscribe(view)
                    ELSE lookups[view] > 0 \/ view \in rooms \/ view \in missed
  BY DEF Subscribed
<1>1. ASSUME NEW i \in 1..Len(up), IsLast(i, view), up[i] = Subscribe(view)
      PROVE  OnTheirWay(view) # {} /\ LastEvent(view) = Subscribe(view)
  BY <1>1, LastEventIs DEF RoomInv, ViewTypes, TypeOK, IsLast
<1> QED BY <1>1 DEF RoomInv, RoomComes

\* An event at the end of the queue is the last about its channel.
LEMMA LastOfAppend ==
    ASSUME up \in Seq(Event), up' \in Seq(Event), NEW c \in Channel,
           Len(up') \in Nat \ {0}, up'[Len(up')] = Subscribe(c)
    PROVE  \E i \in 1..Len(up') : IsLast(i, c)' /\ up'[i] = Subscribe(c)
<1>1. Subscribe(c).channel = c
  BY DEF Subscribe
<1> QED BY <1>1 DEF IsLast, OnTheirWay

\* Steps that leave the queue and the view alone.
LEMMA RoomStays ==
    ASSUME RoomInv, UNCHANGED <<view, up>>, connected' => connected,
           view \in Channel /\ (lookups[view] > 0 \/ view \in rooms \/ view \in missed)
              => lookups'[view] > 0 \/ view \in rooms' \/ view \in missed'
    PROVE  RoomComes'
BY DEF RoomInv, RoomComes, IsLast, OnTheirWay

\* The first event goes; what it was about is still on its way or it was the last.
LEMMA HeadTaken ==
    ASSUME RoomInv, NEW c \in Channel, NEW op, Taken(op, c), UNCHANGED <<view, connected>>,
           view \in Channel
    PROVE  \/ RoomComes'
           \/ op = "subscribe:channel" /\ c = view /\ OnTheirWay(view)' = {}
           \/ /\ OnTheirWay(view) = {} /\ OnTheirWay(view)' = {} /\ c # view
              /\ lookups[view] > 0 \/ view \in rooms \/ view \in missed
<1>1. /\ up \in Seq(Event) /\ up # <<>> /\ up' = Tail(up) /\ connected
      /\ up[1].op = op /\ up[1].channel = c
  BY DEF RoomInv, ViewTypes, TypeOK, Taken
<1>2. /\ Len(up) \in Nat /\ Len(up) >= 1 /\ Len(up') = Len(up) - 1
      /\ \A j \in 1..Len(up') : up'[j] = up[j + 1]
  BY <1>1, HeadTailProperties, LenProperties
<1>3. \A j \in Nat : j \in OnTheirWay(view)' <=> j >= 1 /\ j + 1 \in OnTheirWay(view)
  BY <1>2 DEF OnTheirWay
<1>4. CASE OnTheirWay(view) = {}
  <2>1. c # view
    BY <1>1, <1>2, <1>4 DEF OnTheirWay
  <2>2. OnTheirWay(view)' = {}
    BY <1>2, <1>3, <1>4 DEF OnTheirWay
  <2> QED BY <1>1, <1>4, <2>1, <2>2 DEF RoomInv, RoomComes, IsLast
<1>5. ASSUME NEW i \in 1..Len(up), IsLast(i, view), up[i] = Subscribe(view)
      PROVE  \/ RoomComes'
             \/ op = "subscribe:channel" /\ c = view /\ OnTheirWay(view)' = {}
  <2>1. CASE i = 1
    <3>1. op = "subscribe:channel" /\ c = view
      BY <1>1, <1>5, <2>1 DEF Subscribe
    <3>2. OnTheirWay(view)' = {}
      BY <1>2, <1>3, <1>5, <2>1 DEF OnTheirWay, IsLast
    <3> QED BY <3>1, <3>2
  <2>2. CASE i # 1
    <3>1. i - 1 \in 1..Len(up') /\ up'[i - 1] = Subscribe(view)
      BY <1>2, <1>5, <2>2
    <3>2. IsLast(i - 1, view)'
      BY <1>2, <1>3, <1>5, <2>2, <3>1 DEF IsLast, OnTheirWay
    <3> QED BY <3>1, <3>2 DEF RoomComes
  <2> QED BY <2>1, <2>2
<1> QED BY <1>1, <1>4, <1>5 DEF RoomInv, RoomComes

LEMMA RoomInvInit == Init => RoomInv
BY ViewTypesInit, PageAssumption DEF Init, RoomInv, RoomComes

LEMMA RoomInvStep == RoomInv /\ [Next]_vars => RoomInv'
<1> SUFFICES ASSUME RoomInv, [Next]_vars PROVE RoomComes'
  BY ViewTypesStep DEF RoomInv
<1>0. ViewTypes /\ ViewTypes'
  BY ViewTypesStep DEF RoomInv
<1> USE DEF messages, screen, server, counts
<1>1. ASSUME NEW m \in Message, Post(m) \/ Broadcast(m) PROVE RoomComes'
  BY <1>1, RoomStays DEF Post, Broadcast
<1>2. ASSUME NEW c \in Channel, Navigate(c) PROVE RoomComes'
  BY <1>2, RoomStays DEF Navigate
<1>3. CASE PageReads \/ Receive
  BY <1>3, RoomStays DEF PageReads, Receive
<1>4. CASE PageArrives
  <2>1. page.channel \in Channel /\ view' = page.channel
        /\ up' = up \o Cleanup \o <<Subscribe(page.channel)>>
    BY <1>0, <1>4 DEF PageArrives, Mount, ViewTypes
  <2>2. up \in Seq(Event) /\ up' \in Seq(Event) /\ up \o Cleanup \in Seq(Event)
    <3>1. Cleanup \in Seq(Event)
      BY CleanupType
    <3> QED BY <1>0, <3>1, ConcatProperties DEF ViewTypes, TypeOK
  <2>3. Len(up') \in Nat \ {0} /\ up'[Len(up')] = Subscribe(page.channel)
    BY <2>1, <2>2
  <2> QED BY <2>1, <2>2, <2>3, LastOfAppend DEF RoomComes
<1>5. CASE Leave
  BY <1>5, PageAssumption DEF Leave, RoomComes
<1>6. CASE Connect
  <2>1. UNCHANGED view /\ up' = OnConnect /\ up \in Seq(Event) /\ up' \in Seq(Event)
    BY <1>0, <1>6 DEF Connect, ViewTypes, TypeOK
  <2>2. CASE view \in Channel
    <3>1. up' = Append(up, Subscribe(view))
      BY <2>1, <2>2 DEF OnConnect
    <3>2. Len(up') \in Nat \ {0} /\ up'[Len(up')] = Subscribe(view)
      BY <2>1, <3>1
    <3> QED BY <2>1, <2>2, <3>2, LastOfAppend DEF RoomComes
  <2> QED BY <2>1, <2>2 DEF RoomComes
<1>7. CASE Disconnect \/ Restart
  BY <1>7 DEF Disconnect, Restart, ConnectionLost, RoomComes
<1>8. ASSUME NEW c \in Channel, SubscribeTaken(c) PROVE RoomComes'
  <2>1. /\ Taken("subscribe:channel", c) /\ UNCHANGED <<view, connected, rooms>>
        /\ lookups' = [lookups EXCEPT ![c] = @ + 1] /\ missed' = missed \ {c}
    BY <1>8 DEF SubscribeTaken
  <2>2. /\ lookups'[c] > 0
        /\ \A d \in Channel : d # c => lookups'[d] = lookups[d]
    BY <1>0, <2>1 DEF ViewTypes, TypeOK
  <2>3. CASE view \in Channel
    BY <2>1, <2>2, <2>3, HeadTaken DEF RoomComes
  <2> QED BY <2>1, <2>3 DEF RoomComes
<1>9. ASSUME NEW c \in Channel, UnsubscribeTaken(c) PROVE RoomComes'
  <2>1. /\ Taken("unsubscribe:channel", c) /\ UNCHANGED <<view, connected, lookups, missed>>
        /\ rooms' = rooms \ {c}
    BY <1>9 DEF UnsubscribeTaken
  <2>2. CASE view \in Channel
    BY <2>1, <2>2, HeadTaken DEF RoomComes
  <2> QED BY <2>1, <2>2 DEF RoomComes
<1>10. ASSUME NEW c \in Channel, LookupReturns(c) \/ LookupFails(c) PROVE RoomComes'
  <2>1. /\ UNCHANGED <<view, up, connected>>
        /\ lookups' = [lookups EXCEPT ![c] = @ - 1]
        /\ rooms \subseteq rooms' /\ missed \subseteq missed'
        /\ c \in rooms' \/ c \in missed'
    BY <1>10 DEF LookupReturns, LookupFails
  <2>2. \A d \in Channel : d # c => lookups'[d] = lookups[d]
    BY <1>0, <2>1 DEF ViewTypes, TypeOK
  <2> QED BY <2>1, <2>2, RoomStays
<1>11. CASE UNCHANGED vars
  BY <1>11, RoomStays DEF vars
<1> QED BY <1>1, <1>2, <1>3, <1>4, <1>5, <1>6, <1>7, <1>8, <1>9, <1>10, <1>11 DEF Next

\* Subscribed: no order of swaps, buffered events, delayed queries and reconnects
\* leaves the view on a live connection outside its room, other than a query that
\* fails.
THEOREM ViewIsSubscribed == Spec => []Subscribed
<1>1. Spec => []RoomInv
  BY RoomInvInit, RoomInvStep, PTL DEF Spec
<1> QED BY <1>1, RoomComesMeans, PTL
=============================================================================
