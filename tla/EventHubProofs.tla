--------------------------- MODULE EventHubProofs ---------------------------
(***************************************************************************)
(* TypeOK, WrittenOnce and NoGap of EventHub, for any number of publishers *)
(* and clients, any window and any capacity of the channels.               *)
(***************************************************************************)
EXTENDS EventHub, FiltersProofs

USE EventHubAssumption

\* TypeOK, with the types of the functions.  Ids never run ahead of the events
\* published, and what a publisher with channels left to try sends is an event.
Typed ==
    /\ nextID \in Nat /\ nextID <= published
    /\ history \in Seq(Event) /\ Len(history) <= Keep
    /\ event \in [Publishers -> Event \union {NoEvent}]
    /\ to \in [Publishers -> SUBSET subs]
    /\ \A p \in Publishers : to[p] # {} => event[p] \in Event
    /\ stream \in [Clients -> {"off", "on", "ended"}]
    /\ subs = {c \in Clients : stream[c] = "on"}
    /\ replay \in [Clients -> Seq(Event)]
    /\ chan \in [Clients -> Seq(Event)]
    /\ \A c \in Clients : Len(chan[c]) <= Capacity
    /\ last \in [Clients -> 0..MaxEvents]
    /\ after \in [Clients -> 0..MaxEvents]
    /\ got \in [Clients -> SUBSET (1..MaxEvents)]
    /\ dropped \in [Clients -> SUBSET (1..MaxEvents)]
    /\ published \in 0..MaxEvents
    /\ evictions \in 0..MaxEvictions

\* Every serial number in use was given out, to one event of the history and to
\* one publisher; a stream that may start again has an empty channel.
Numbered ==
    /\ \A i \in 1..Len(history) :
          history[i].n <= published /\ history[i].id <= nextID
    /\ \A i, j \in 1..Len(history) : i # j => history[i].n # history[j].n
    /\ \A p \in Publishers : to[p] # {} => event[p].n <= published
    /\ \A p, q \in Publishers :
          p # q /\ to[p] # {} /\ to[q] # {} => event[p].n # event[q].n
    /\ \A c \in Clients :
          /\ \A i \in 1..Len(replay[c]) : replay[c][i].n <= published
          /\ \A i \in 1..Len(chan[c]) : chan[c][i].n <= published
          /\ \A n \in got[c] : n <= published
          /\ stream[c] = "off" => chan[c] = <<>>

\* WrittenOnce, part by part.
StreamApart(c) ==
    /\ \A i, j \in 1..Len(replay[c]) : i # j => replay[c][i].n # replay[c][j].n
    /\ \A i, j \in 1..Len(chan[c]) : i # j => chan[c][i].n # chan[c][j].n
    /\ \A i \in 1..Len(replay[c]), j \in 1..Len(chan[c]) :
          replay[c][i].n # chan[c][j].n
    /\ \A i \in 1..Len(replay[c]) : replay[c][i].n \notin got[c] \union InFlight(c)
    /\ \A i \in 1..Len(chan[c]) : chan[c][i].n \notin got[c] \union InFlight(c)
    /\ got[c] \intersect InFlight(c) = {}

Apart == \A c \in subs : StreamApart(c)

\* NoGap for one stream.
StreamWhole(c) ==
    \A e \in ToSet(history) : e.id > after[c] =>
        e.n \in got[c] \union Serials(replay[c] \o chan[c]) \union InFlight(c)
                   \union dropped[c]

HubInv == Typed /\ Numbered /\ Apart /\ NoGap

-----------------------------------------------------------------------------

\* The window is the end of what it is taken from.
LEMMA RetainEnd ==
    ASSUME NEW s \in Seq(Event)
    PROVE  /\ Retain(s) \in Seq(Event) /\ Len(Retain(s)) <= Keep
           /\ \E d \in Nat : \A i \in 1..Len(Retain(s)) :
                 i + d \in 1..Len(s) /\ Retain(s)[i] = s[i + d]
<1>1. CASE Len(s) > Keep
  <2> DEFINE d == Len(s) - Keep
  <2>1. d \in Nat /\ Retain(s) = SubSeq(s, d + 1, Len(s))
    BY <1>1 DEF Retain
  <2>2. /\ SubSeq(s, d + 1, Len(s)) \in Seq(Event)
        /\ Len(SubSeq(s, d + 1, Len(s))) = Keep
        /\ \A i \in 1..Keep : i + d \in 1..Len(s) /\ SubSeq(s, d + 1, Len(s))[i] = s[i + d]
    BY <1>1
  <2>3. /\ Retain(s) \in Seq(Event) /\ Len(Retain(s)) = Keep
        /\ \A i \in 1..Len(Retain(s)) : i + d \in 1..Len(s) /\ Retain(s)[i] = s[i + d]
    BY <2>1, <2>2
  <2>4. d \in Nat /\ Len(Retain(s)) <= Keep
    BY <2>1, <2>3
  <2> HIDE DEF d
  <2> QED
    BY <2>3, <2>4
<1>2. CASE ~ (Len(s) > Keep)
  <2>1. Retain(s) = s /\ \A i \in 1..Len(s) : i + 0 = i
    BY <1>2 DEF Retain
  <2> QED
    BY <1>2, <2>1
<1> QED
  BY <1>1, <1>2

\* The head and the rest of a queue that is not empty.
LEMMA HeadAndTail ==
    ASSUME NEW s \in Seq(Event), s # <<>>
    PROVE  /\ Head(s) \in Event /\ Head(s) = s[1] /\ 1 \in 1..Len(s)
           /\ Tail(s) \in Seq(Event) /\ Len(Tail(s)) = Len(s) - 1
           /\ \A i \in 1..Len(Tail(s)) : i + 1 \in 1..Len(s) /\ Tail(s)[i] = s[i + 1]
OBVIOUS

\* The serial numbers of a queue.
LEMMA SerialsOf ==
    ASSUME NEW s \in Seq(Event)
    PROVE  \A n : n \in Serials(s) <=> \E i \in 1..Len(s) : s[i].n = n
BY DEF Serials, ToSet

LEMMA SerialsConcat ==
    ASSUME NEW s \in Seq(Event), NEW t \in Seq(Event)
    PROVE  Serials(s \o t) = Serials(s) \union Serials(t)
<1>1. /\ s \o t \in Seq(Event) /\ Len(s \o t) = Len(s) + Len(t)
      /\ \A i \in 1..Len(s) : (s \o t)[i] = s[i]
      /\ \A i \in 1..Len(t) : (s \o t)[i + Len(s)] = t[i]
      /\ Len(s) \in Nat /\ Len(t) \in Nat
  BY Concat
<1> DEFINE u == s \o t
<1> HIDE DEF u
<1>2. ASSUME NEW i \in 1..Len(u) PROVE u[i].n \in Serials(s) \union Serials(t)
  <2>1. CASE i <= Len(s)
    <3>1. i \in 1..Len(s) /\ u[i] = s[i]
      BY <1>1, <2>1 DEF u
    <3> QED
      BY <3>1, SerialsOf
  <2>2. CASE ~ (i <= Len(s))
    <3>1. i - Len(s) \in 1..Len(t) /\ u[i] = t[i - Len(s)]
      BY <1>1, <2>2 DEF u
    <3> QED
      BY <3>1, SerialsOf
  <2> QED
    BY <2>1, <2>2
<1>3. ASSUME NEW i \in 1..Len(s) PROVE s[i].n \in Serials(u)
  <2>1. i \in 1..Len(u) /\ u[i] = s[i] /\ u \in Seq(Event)
    BY <1>1 DEF u
  <2> QED
    BY <2>1, SerialsOf
<1>4. ASSUME NEW i \in 1..Len(t) PROVE t[i].n \in Serials(u)
  <2>1. i + Len(s) \in 1..Len(u) /\ u[i + Len(s)] = t[i] /\ u \in Seq(Event)
    BY <1>1 DEF u
  <2> QED
    BY <2>1, SerialsOf
<1>5. u \in Seq(Event)
  BY <1>1 DEF u
<1>6. Serials(u) = Serials(s) \union Serials(t)
  <2>1. ASSUME NEW n \in Serials(u) PROVE n \in Serials(s) \union Serials(t)
    <3>1. PICK i \in 1..Len(u) : u[i].n = n
      BY <1>5, SerialsOf
    <3> QED
      BY <1>2, <3>1
  <2>2. ASSUME NEW n \in Serials(s) PROVE n \in Serials(u)
    <3>1. PICK i \in 1..Len(s) : s[i].n = n
      BY SerialsOf
    <3> QED
      BY <1>3, <3>1
  <2>3. ASSUME NEW n \in Serials(t) PROVE n \in Serials(u)
    <3>1. PICK i \in 1..Len(t) : t[i].n = n
      BY SerialsOf
    <3> QED
      BY <1>4, <3>1
  <2> QED
    BY <2>1, <2>2, <2>3
<1> QED
  BY <1>6 DEF u

LEMMA SerialsOne == ASSUME NEW e \in Event PROVE Serials(<<e>>) = {e.n}
<1>1. ToSet(<<e>>) = {e}
  BY DEF ToSet
<1> QED
  BY <1>1 DEF Serials

LEMMA SerialsAppend ==
    ASSUME NEW s \in Seq(Event), NEW e \in Event
    PROVE  Serials(Append(s, e)) = Serials(s) \union {e.n}
<1>1. <<e>> \in Seq(Event) /\ Append(s, e) = s \o <<e>>
  OBVIOUS
<1> QED
  BY <1>1, SerialsOne, SerialsConcat

LEMMA SerialsTail ==
    ASSUME NEW s \in Seq(Event), s # <<>>
    PROVE  Serials(s) = {Head(s).n} \union Serials(Tail(s))
<1>1. <<Head(s)>> \in Seq(Event) /\ Tail(s) \in Seq(Event) /\ Head(s) \in Event
  OBVIOUS
<1>2. s = <<Head(s)>> \o Tail(s)
  OBVIOUS
<1>3. Serials(s) = Serials(<<Head(s)>>) \union Serials(Tail(s))
  BY <1>1, <1>2, SerialsConcat
<1> QED
  BY <1>1, <1>3, SerialsOne

-----------------------------------------------------------------------------
(* Typed: one lemma per action.                                            *)

LEMMA PublishType ==
    ASSUME Typed, NEW p \in Publishers, Publish(p) PROVE Typed'
<1>1. PICK final \in BOOLEAN :
          LET e == [n |-> published + 1, id |-> nextID + 1, final |-> final] IN
          /\ history' = Retain(Append(history, e))
          /\ event' = [event EXCEPT ![p] = e]
  BY DEF Publish
<1> DEFINE e == [n |-> published + 1, id |-> nextID + 1, final |-> final]
<1>2. e \in Event
  BY DEF Publish, Typed, Event
<1>3. history' \in Seq(Event) /\ Len(history') <= Keep
  <2>1. Append(history, e) \in Seq(Event)
    BY <1>2 DEF Typed
  <2> QED
    BY <1>1, <2>1, RetainEnd
<1>4. event' \in [Publishers -> Event \union {NoEvent}] /\ event'[p] \in Event
      /\ \A q \in Publishers : q # p => event'[q] = event[q] /\ to'[q] = to[q]
  BY <1>1, <1>2 DEF Publish, Typed
<1>5. to' \in [Publishers -> SUBSET subs] /\ UNCHANGED <<subs, conn, dropped, evictions>>
  BY DEF Publish, Typed
<1>6. nextID' \in Nat /\ nextID' <= published' /\ published' \in 0..MaxEvents
  BY DEF Publish, Typed
<1>7. \A q \in Publishers : to'[q] # {} => event'[q] \in Event
  BY <1>4 DEF Typed
<1> QED
  BY <1>3, <1>4, <1>5, <1>6, <1>7 DEF Typed, conn

LEMMA SendType ==
    ASSUME Typed, NEW p \in Publishers, NEW c \in Clients, Send(p, c) PROVE Typed'
<1>1. c \in to[p] /\ event[p] \in Event /\ c \in subs /\ event[p].n \in 1..MaxEvents
  BY DEF Send, Typed, Event
<1>2. to' \in [Publishers -> SUBSET subs]
      /\ \A q \in Publishers : to'[q] # {} => to[q] # {}
  BY DEF Send, Typed
<1>3. chan' \in [Clients -> Seq(Event)] /\ (\A d \in Clients : Len(chan'[d]) <= Capacity)
      /\ dropped' \in [Clients -> SUBSET (1..MaxEvents)]
  <2>1. CASE Len(chan[c]) < Capacity
    <3>1. chan' = [chan EXCEPT ![c] = Append(chan[c], event[p])] /\ UNCHANGED dropped
      BY <2>1 DEF Send
    <3>2. Append(chan[c], event[p]) \in Seq(Event)
          /\ Len(Append(chan[c], event[p])) <= Capacity
      BY <1>1, <2>1 DEF Typed
    <3> HIDE DEF Event
    <3> QED
      BY <3>1, <3>2 DEF Typed
  <2>2. CASE ~ (Len(chan[c]) < Capacity)
    <3>1. dropped' = [dropped EXCEPT ![c] = dropped[c] \union {event[p].n}]
          /\ UNCHANGED chan
      BY <2>2 DEF Send
    <3> QED
      BY <1>1, <3>1 DEF Typed
  <2> QED
    BY <2>1, <2>2
<1> QED
  BY <1>2, <1>3 DEF Send, Typed, topic, bounds

LEMMA EvictType == ASSUME Typed, Evict PROVE Typed'
BY DEF Evict, Typed, send, conn

\* What is replayed are retained events that are newer.
LEMMA NewerEvents ==
    ASSUME Typed, NEW id \in 0..MaxEvents
    PROVE  /\ Newer(id) \in Seq(Event)
           /\ \E at : Places(at, Newer(id), history, {e \in ToSet(history) : e.id > id})
BY FilterPlaces DEF Newer, Typed

LEMMA ConnectType == ASSUME Typed, NEW c \in Clients, Connect(c) PROVE Typed'
<1>1. Newer(last[c]) \in Seq(Event)
  BY NewerEvents DEF Typed
<1>2. replay' \in [Clients -> Seq(Event)]
  BY <1>1 DEF Connect, Typed
<1>3. to' \in [Publishers -> SUBSET subs'] /\ UNCHANGED <<event, to>>
  BY DEF Connect, Typed, send
<1>4. stream' \in [Clients -> {"off", "on", "ended"}]
      /\ subs' = {d \in Clients : stream'[d] = "on"}
  BY DEF Connect, Typed
<1>5. after' \in [Clients -> 0..MaxEvents] /\ got' \in [Clients -> SUBSET (1..MaxEvents)]
      /\ dropped' \in [Clients -> SUBSET (1..MaxEvents)]
  BY DEF Connect, Typed
<1> QED
  BY <1>2, <1>3, <1>4, <1>5 DEF Connect, Typed, topic, bounds

\* A stream that ends is struck from the hub's list and from the publishers'.
LEMMA UnsubscribeType ==
    ASSUME Typed, NEW c \in Clients, NEW s \in {"off", "ended"}, Unsubscribe(c, s)
    PROVE  /\ event' = event
           /\ to' \in [Publishers -> SUBSET subs']
           /\ \A p \in Publishers : to'[p] = to[p] \ {c}
           /\ stream' \in [Clients -> {"off", "on", "ended"}]
           /\ subs' = {d \in Clients : stream'[d] = "on"}
           /\ subs' = subs \ {c}
BY DEF Unsubscribe, Typed

\* What a write does to the stream, whether it ends it or not.
LEMMA WriteType ==
    ASSUME Typed, NEW c \in Clients, c \in subs, NEW e \in Event, Write(c, e)
    PROVE  /\ event' = event
           /\ to' \in [Publishers -> SUBSET subs']
           /\ subs' \subseteq subs /\ \A d \in subs : d # c => d \in subs'
           /\ \A p \in Publishers : to'[p] = to[p] \intersect subs'
           /\ stream' \in [Clients -> {"off", "on", "ended"}]
           /\ subs' = {d \in Clients : stream'[d] = "on"}
           /\ \A d \in Clients : stream'[d] = "off" => stream[d] = "off"
           /\ last' \in [Clients -> 0..MaxEvents]
           /\ got' \in [Clients -> SUBSET (1..MaxEvents)]
           /\ got'[c] = got[c] \union {e.n}
           /\ \A d \in Clients : d # c => got'[d] = got[d]
<1>1. e.n \in 1..MaxEvents /\ e.id \in 0..MaxEvents /\ e.final \in BOOLEAN
  BY DEF Event
<1>2. /\ last' \in [Clients -> 0..MaxEvents]
      /\ got' \in [Clients -> SUBSET (1..MaxEvents)]
      /\ got'[c] = got[c] \union {e.n}
      /\ \A d \in Clients : d # c => got'[d] = got[d]
  BY <1>1 DEF Write, Typed
<1>3. CASE e.final
  <2>1. Unsubscribe(c, "ended")
    BY <1>3 DEF Write
  <2>2. /\ event' = event /\ subs' = subs \ {c}
        /\ to' \in [Publishers -> SUBSET subs']
        /\ stream' \in [Clients -> {"off", "on", "ended"}]
        /\ subs' = {d \in Clients : stream'[d] = "on"}
        /\ \A p \in Publishers : to'[p] = to[p] \ {c}
    BY <2>1, UnsubscribeType
  <2>3. \A p \in Publishers : to'[p] = to[p] \intersect subs'
    BY <2>2 DEF Typed
  <2>4. \A d \in Clients : stream'[d] = "off" => stream[d] = "off"
    BY <2>1 DEF Unsubscribe, Typed
  <2> QED
    BY <1>2, <2>2, <2>3, <2>4
<1>4. CASE ~ e.final
  BY <1>2, <1>4 DEF Write, Typed, send
<1> QED
  BY <1>3, <1>4

LEMMA WriteReplayType == ASSUME Typed, NEW c \in Clients, WriteReplay(c) PROVE Typed'
<1>1. c \in subs /\ replay[c] \in Seq(Event) /\ replay[c] # <<>>
  BY DEF WriteReplay, Typed
<1>2. Head(replay[c]) \in Event /\ Tail(replay[c]) \in Seq(Event)
  BY <1>1
<1>3. replay' \in [Clients -> Seq(Event)] /\ UNCHANGED <<topic, chan, after, dropped, bounds>>
  BY <1>2 DEF WriteReplay, Typed
<1>4. Write(c, Head(replay[c]))
  BY DEF WriteReplay
<1> QED
  BY <1>1, <1>2, <1>3, <1>4, WriteType, SMTT(20) DEF Typed, topic, bounds

LEMMA WriteLiveType == ASSUME Typed, NEW c \in Clients, WriteLive(c) PROVE Typed'
<1>1. c \in subs /\ chan[c] \in Seq(Event) /\ chan[c] # <<>>
  BY DEF WriteLive, Typed
<1>2. Head(chan[c]) \in Event /\ Tail(chan[c]) \in Seq(Event)
      /\ Len(Tail(chan[c])) = Len(chan[c]) - 1 /\ Len(chan[c]) \in Nat
  BY <1>1
<1>3. chan' \in [Clients -> Seq(Event)] /\ UNCHANGED <<topic, replay, after, dropped, bounds>>
      /\ \A d \in Clients : Len(chan'[d]) <= Capacity
  BY <1>2 DEF WriteLive, Typed
<1>4. Write(c, Head(chan[c]))
  BY DEF WriteLive
<1>5. /\ event' = event
      /\ to' \in [Publishers -> SUBSET subs']
      /\ \A p \in Publishers : to'[p] = to[p] \intersect subs'
      /\ stream' \in [Clients -> {"off", "on", "ended"}]
      /\ subs' = {d \in Clients : stream'[d] = "on"}
      /\ last' \in [Clients -> 0..MaxEvents]
      /\ got' \in [Clients -> SUBSET (1..MaxEvents)]
  BY <1>1, <1>2, <1>4, WriteType
<1> QED
  BY <1>3, <1>5 DEF Typed, topic, bounds

LEMMA DisconnectType == ASSUME Typed, NEW c \in Clients, Disconnect(c) PROVE Typed'
<1>1. replay' \in [Clients -> Seq(Event)] /\ chan' \in [Clients -> Seq(Event)]
      /\ \A d \in Clients : Len(chan'[d]) <= Capacity
  BY DEF Disconnect, Typed
<1>2. Unsubscribe(c, "off") /\ UNCHANGED <<topic, last, after, got, dropped, bounds>>
  BY DEF Disconnect
<1> QED
  BY <1>1, <1>2, UnsubscribeType DEF Typed, topic, bounds

LEMMA TypedStep == Typed /\ [Next]_vars => Typed'
<1> SUFFICES ASSUME Typed, [Next]_vars PROVE Typed'
  OBVIOUS
<1>1. CASE UNCHANGED vars
  BY <1>1 DEF vars, topic, send, conn, bounds, Typed
<1> QED
  BY <1>1, PublishType, SendType, EvictType, ConnectType, WriteReplayType,
     WriteLiveType, DisconnectType DEF Next

-----------------------------------------------------------------------------
(* What the actions do to the numbers.                                     *)

\* A publisher is given a fresh number; the window holds its event, if
\* anything, after what was retained.
LEMMA PublishEffect ==
    ASSUME Typed, NEW p \in Publishers, Publish(p)
    PROVE  /\ published' = published + 1 /\ nextID' = nextID + 1
           /\ event'[p].n = published + 1 /\ to[p] = {} /\ to'[p] = subs
           /\ \A q \in Publishers : q # p => event'[q] = event[q] /\ to'[q] = to[q]
           /\ event'[p].id = nextID + 1
           /\ \E d \in Nat : \A i \in 1..Len(history') :
                 /\ i + d \in 1..(Len(history) + 1)
                 /\ history'[i] = IF i + d = Len(history) + 1 THEN event'[p]
                                  ELSE history[i + d]
           /\ UNCHANGED <<subs, conn, dropped>>
<1>1. PICK final \in BOOLEAN :
          LET e == [n |-> published + 1, id |-> nextID + 1, final |-> final] IN
          /\ history' = Retain(Append(history, e))
          /\ event' = [event EXCEPT ![p] = e]
  BY DEF Publish
<1> DEFINE e == [n |-> published + 1, id |-> nextID + 1, final |-> final]
           s == Append(history, e)
<1>2. e \in Event
  BY DEF Publish, Typed, Event
<1>3. s \in Seq(Event) /\ Len(s) = Len(history) + 1 /\ s[Len(history) + 1] = e
      /\ \A i \in 1..Len(history) : s[i] = history[i]
  BY <1>2 DEF Typed
<1>4. event'[p] = e /\ \A q \in Publishers : q # p => event'[q] = event[q]
  BY <1>1 DEF Typed
<1>5. history' = Retain(s)
  BY <1>1
<1>6. e.n = published + 1 /\ e.id = nextID + 1
  OBVIOUS
<1> HIDE DEF s, e
<1>7. PICK d \in Nat : \A i \in 1..Len(history') : i + d \in 1..Len(s) /\ history'[i] = s[i + d]
  BY <1>3, <1>5, RetainEnd, ZenonT(40)
<1>8. \A i \in 1..Len(history') :
          /\ i + d \in 1..(Len(history) + 1)
          /\ history'[i] = IF i + d = Len(history) + 1 THEN event'[p] ELSE history[i + d]
  <2> SUFFICES ASSUME NEW i \in 1..Len(history')
               PROVE  /\ i + d \in 1..(Len(history) + 1)
                      /\ history'[i] = IF i + d = Len(history) + 1 THEN event'[p]
                                       ELSE history[i + d]
    OBVIOUS
  <2>1. i + d \in 1..(Len(history) + 1) /\ history'[i] = s[i + d] /\ Len(history) \in Nat
    BY <1>3, <1>7 DEF Typed
  <2> QED
    BY <1>3, <1>4, <2>1
<1> QED
  BY <1>4, <1>6, <1>8 DEF Publish, Typed

\* A send moves the event from the publisher to the channel, or drops it.
LEMMA SendEffect ==
    ASSUME Typed, NEW p \in Publishers, NEW c \in Clients, Send(p, c)
    PROVE  /\ c \in to[p] /\ c \in subs
           /\ to'[p] = to[p] \ {c}
           /\ \A q \in Publishers : q # p => to'[q] = to[q]
           /\ UNCHANGED <<topic, subs, event, stream, replay, last, after, got, bounds>>
           /\ \A d \in Clients : d # c => chan'[d] = chan[d] /\ dropped'[d] = dropped[d]
           /\ \/ /\ chan'[c] = Append(chan[c], event[p])
                 /\ Len(chan'[c]) = Len(chan[c]) + 1
                 /\ chan'[c][Len(chan[c]) + 1] = event[p]
                 /\ \A i \in 1..Len(chan[c]) : chan'[c][i] = chan[c][i]
                 /\ dropped'[c] = dropped[c]
              \/ chan'[c] = chan[c] /\ dropped'[c] = dropped[c] \union {event[p].n}
<1>1. c \in to[p] /\ c \in subs /\ event[p] \in Event
  BY DEF Send, Typed
<1>2. CASE Len(chan[c]) < Capacity
  <2>1. chan' = [chan EXCEPT ![c] = Append(chan[c], event[p])] /\ UNCHANGED dropped
    BY <1>2 DEF Send
  <2>2. chan[c] \in Seq(Event)
    BY DEF Typed
  <2> DEFINE s == Append(chan[c], event[p])
  <2>3. Len(s) = Len(chan[c]) + 1 /\ s[Len(chan[c]) + 1] = event[p]
        /\ \A i \in 1..Len(chan[c]) : s[i] = chan[c][i]
    BY <1>1, <2>2
  <2>4. chan'[c] = s /\ \A d \in Clients : d # c => chan'[d] = chan[d]
    BY <2>1 DEF Typed
  <2> HIDE DEF s
  <2>5. /\ chan'[c] = Append(chan[c], event[p])
        /\ Len(chan'[c]) = Len(chan[c]) + 1
        /\ chan'[c][Len(chan[c]) + 1] = event[p]
        /\ \A i \in 1..Len(chan[c]) : chan'[c][i] = chan[c][i]
    BY <2>3, <2>4 DEF s
  <2> QED
    BY <1>1, <2>1, <2>4, <2>5 DEF Send, Typed
<1>3. CASE ~ (Len(chan[c]) < Capacity)
  <2>1. dropped' = [dropped EXCEPT ![c] = dropped[c] \union {event[p].n}] /\ UNCHANGED chan
    BY <1>3 DEF Send
  <2> QED
    BY <1>1, <2>1 DEF Send, Typed
<1> QED
  BY <1>2, <1>3

-----------------------------------------------------------------------------
(* Numbered, Apart and NoGap: one lemma per action.                        *)

LEMMA PublishKeeps ==
    ASSUME HubInv, NEW p \in Publishers, Publish(p) PROVE Numbered' /\ Apart' /\ NoGap'
<1>1. PICK d \in Nat : \A i \in 1..Len(history') :
          /\ i + d \in 1..(Len(history) + 1)
          /\ history'[i] = IF i + d = Len(history) + 1 THEN event'[p] ELSE history[i + d]
  BY PublishEffect DEF HubInv
<1>2. /\ published' = published + 1 /\ nextID' = nextID + 1
      /\ event'[p].n = published + 1 /\ to[p] = {} /\ to'[p] = subs
      /\ event'[p].id = nextID + 1
      /\ \A q \in Publishers : q # p => event'[q] = event[q] /\ to'[q] = to[q]
      /\ UNCHANGED <<subs, conn, dropped>>
  BY PublishEffect DEF HubInv
<1>3. published \in Nat /\ nextID \in Nat /\ Len(history) \in Nat /\ Len(history') \in Nat
  <2>1. history' \in Seq(Event)
    BY TypedStep DEF HubInv, Next, Typed
  <2> QED
    BY <2>1 DEF HubInv, Typed
<1>4. Numbered'
  <2>1. ASSUME NEW i \in 1..Len(history')
        PROVE  history'[i].n <= published' /\ history'[i].id <= nextID'
    <3>1. CASE i + d = Len(history) + 1
      BY <1>1, <1>2, <1>3, <3>1
    <3>2. CASE i + d # Len(history) + 1
      <4>1. i + d \in 1..Len(history) /\ history'[i] = history[i + d]
        BY <1>1, <1>3, <3>2
      <4>2. history[i + d] \in Event
        BY <4>1 DEF HubInv, Typed
      <4> QED
        BY <1>2, <1>3, <4>1, <4>2 DEF HubInv, Numbered, Event
    <3> QED
      BY <3>1, <3>2
  <2>2. ASSUME NEW i \in 1..Len(history'), NEW j \in 1..Len(history'), i # j
        PROVE  history'[i].n # history'[j].n
    <3>1. \A k \in 1..Len(history) : history[k].n <= published
      BY DEF HubInv, Numbered
    <3>2. i + d # j + d
      BY <2>2
    <3>3. CASE i + d = Len(history) + 1
      <4>1. history'[i].n = published + 1 /\ j + d \in 1..Len(history)
            /\ history'[j] = history[j + d]
        BY <1>1, <1>2, <1>3, <3>2, <3>3
      <4> QED
        BY <1>3, <3>1, <4>1
    <3>4. CASE j + d = Len(history) + 1
      <4>1. history'[j].n = published + 1 /\ i + d \in 1..Len(history)
            /\ history'[i] = history[i + d]
        BY <1>1, <1>2, <1>3, <3>2, <3>4
      <4> QED
        BY <1>3, <3>1, <4>1
    <3>5. CASE i + d # Len(history) + 1 /\ j + d # Len(history) + 1
      <4>1. i + d \in 1..Len(history) /\ history'[i] = history[i + d]
        BY <1>1, <1>3, <3>5
      <4>2. j + d \in 1..Len(history) /\ history'[j] = history[j + d]
        BY <1>1, <1>3, <3>5
      <4> QED
        BY <3>2, <4>1, <4>2 DEF HubInv, Numbered
    <3> QED
      BY <3>3, <3>4, <3>5
  <2>3. \A q \in Publishers : to'[q] # {} => event'[q].n <= published'
    <3> SUFFICES ASSUME NEW q \in Publishers, to'[q] # {} PROVE event'[q].n <= published'
      OBVIOUS
    <3>1. CASE q = p
      BY <1>2, <1>3, <3>1
    <3>2. CASE q # p
      <4>1. to[q] # {} /\ event'[q] = event[q] /\ event[q] \in Event
        BY <1>2, <3>2 DEF HubInv, Typed
      <4> QED
        BY <1>2, <1>3, <4>1 DEF HubInv, Numbered, Event
    <3> QED
      BY <3>1, <3>2
  <2>4. ASSUME NEW q \in Publishers, NEW r \in Publishers, q # r, to'[q] # {}, to'[r] # {}
        PROVE  event'[q].n # event'[r].n
    <3>1. \A x \in Publishers : x # p /\ to'[x] # {} =>
              event'[x] = event[x] /\ event[x].n \in Nat /\ event[x].n <= published
      BY <1>2 DEF HubInv, Numbered, Typed, Event
    <3>2. CASE q = p
      BY <1>2, <1>3, <2>4, <3>1, <3>2
    <3>3. CASE r = p
      BY <1>2, <1>3, <2>4, <3>1, <3>3
    <3>4. CASE q # p /\ r # p
      BY <1>2, <2>4, <3>4 DEF HubInv, Numbered
    <3> QED
      BY <3>2, <3>3, <3>4
  <2>5. ASSUME NEW c \in Clients
        PROVE  /\ \A i \in 1..Len(replay'[c]) : replay'[c][i].n <= published'
               /\ \A i \in 1..Len(chan'[c]) : chan'[c][i].n <= published'
               /\ \A n \in got'[c] : n <= published'
               /\ stream'[c] = "off" => chan'[c] = <<>>
    <3>1. UNCHANGED <<replay, chan, got, stream>>
      BY <1>2 DEF conn
    <3>2. replay[c] \in Seq(Event) /\ chan[c] \in Seq(Event) /\ got[c] \subseteq Nat
      BY DEF HubInv, Typed
    <3>3. /\ \A i \in 1..Len(replay[c]) : replay[c][i].n \in Nat
          /\ \A i \in 1..Len(chan[c]) : chan[c][i].n \in Nat
      <4>1. /\ \A i \in 1..Len(replay[c]) : replay[c][i] \in Event
            /\ \A i \in 1..Len(chan[c]) : chan[c][i] \in Event
        BY <3>2
      <4>2. \A e \in Event : e.n \in Nat
        BY DEF Event
      <4> QED
        BY <4>1, <4>2
    <3>4. /\ \A i \in 1..Len(replay[c]) : replay[c][i].n <= published
          /\ \A i \in 1..Len(chan[c]) : chan[c][i].n <= published
          /\ \A n \in got[c] : n <= published
          /\ stream[c] = "off" => chan[c] = <<>>
      BY DEF HubInv, Numbered
    <3>5. \A n \in Nat : n <= published => n <= published'
      BY <1>2, <1>3
    <3> QED
      BY <3>1, <3>2, <3>3, <3>4, <3>5
  <2> QED
    BY <2>1, <2>2, <2>3, <2>4, <2>5 DEF Numbered
<1>5. ASSUME NEW c \in Clients
      PROVE  InFlight(c)' \subseteq InFlight(c) \union {published + 1}
  <2> SUFFICES ASSUME NEW q \in Publishers, c \in to'[q]
               PROVE  event'[q].n \in InFlight(c) \union {published + 1}
    BY DEF InFlight
  <2> QED
    BY <1>2 DEF InFlight
<1>6. Apart'
  <2> SUFFICES ASSUME NEW c \in subs' PROVE
        /\ \A i, j \in 1..Len(replay'[c]) : i # j => replay'[c][i].n # replay'[c][j].n
        /\ \A i, j \in 1..Len(chan'[c]) : i # j => chan'[c][i].n # chan'[c][j].n
        /\ \A i \in 1..Len(replay'[c]), j \in 1..Len(chan'[c]) :
              replay'[c][i].n # chan'[c][j].n
        /\ \A i \in 1..Len(replay'[c]) :
              replay'[c][i].n \notin got'[c] \union InFlight(c)'
        /\ \A i \in 1..Len(chan'[c]) :
              chan'[c][i].n \notin got'[c] \union InFlight(c)'
        /\ got'[c] \intersect InFlight(c)' = {}
    BY DEF Apart, StreamApart
  <2>1. UNCHANGED <<replay, chan, got>> /\ c \in subs /\ c \in Clients
    BY <1>2 DEF conn, HubInv, Typed
  <2>2. /\ \A i \in 1..Len(replay[c]) : replay[c][i].n # published + 1
        /\ \A i \in 1..Len(chan[c]) : chan[c][i].n # published + 1
        /\ \A n \in got[c] : n # published + 1
    BY <1>3, <2>1 DEF HubInv, Numbered
  <2>3. InFlight(c)' \subseteq InFlight(c) \union {published + 1}
    BY <1>5, <2>1
  <2> HIDE DEF InFlight
  <2> QED
    BY <2>1, <2>2, <2>3 DEF HubInv, Apart, StreamApart
<1>7. NoGap'
  <2> SUFFICES ASSUME NEW c \in subs', NEW e \in ToSet(history'), e.id > after'[c]
               PROVE  e.n \in got'[c] \union Serials(replay'[c] \o chan'[c])
                                \union InFlight(c)' \union dropped'[c]
    BY DEF NoGap
  <2>1. UNCHANGED <<replay, chan, got, after, dropped>> /\ c \in subs /\ c \in Clients
    BY <1>2 DEF conn, HubInv, Typed
  <2>2. PICK i \in 1..Len(history') : e = history'[i]
    <3>1. history' \in Seq(Event)
      BY TypedStep DEF HubInv, Next, Typed
    <3> QED
      BY <3>1 DEF ToSet
  <2>3. CASE i + d = Len(history) + 1
    BY <1>1, <1>2, <2>1, <2>2, <2>3 DEF InFlight
  <2>4. CASE i + d # Len(history) + 1
    <3>1. e \in ToSet(history)
      <4>1. i + d \in 1..Len(history) /\ e = history[i + d]
        BY <1>1, <1>3, <2>2, <2>4
      <4> QED
        BY <4>1 DEF ToSet, HubInv, Typed
    <3>2. e.n \in got[c] \union Serials(replay[c] \o chan[c]) \union InFlight(c)
                  \union dropped[c]
      BY <2>1, <3>1 DEF HubInv, NoGap
    <3>3. InFlight(c) \subseteq InFlight(c)'
      <4> SUFFICES ASSUME NEW q \in Publishers, c \in to[q] PROVE event[q].n \in InFlight(c)'
        BY DEF InFlight
      <4> QED
        BY <1>2 DEF InFlight
    <3> QED
      BY <2>1, <3>2, <3>3
  <2> QED
    BY <2>3, <2>4
<1> QED
  BY <1>4, <1>6, <1>7

LEMMA SendKeeps ==
    ASSUME HubInv, NEW p \in Publishers, NEW c \in Clients, Send(p, c)
    PROVE  Numbered' /\ Apart' /\ NoGap'
<1> DEFINE e == event[p]
<1>1. /\ c \in to[p] /\ c \in subs
      /\ to'[p] = to[p] \ {c}
      /\ \A q \in Publishers : q # p => to'[q] = to[q]
      /\ UNCHANGED <<topic, subs, event, stream, replay, last, after, got, bounds>>
      /\ \A d \in Clients : d # c => chan'[d] = chan[d] /\ dropped'[d] = dropped[d]
  BY SendEffect DEF HubInv
<1>2. \/ /\ chan'[c] = Append(chan[c], e)
         /\ Len(chan'[c]) = Len(chan[c]) + 1
         /\ chan'[c][Len(chan[c]) + 1] = e
         /\ \A i \in 1..Len(chan[c]) : chan'[c][i] = chan[c][i]
         /\ dropped'[c] = dropped[c]
      \/ chan'[c] = chan[c] /\ dropped'[c] = dropped[c] \union {e.n}
  BY SendEffect DEF HubInv
<1>3. e \in Event /\ e.n <= published /\ e.n \in InFlight(c)
  BY <1>1 DEF HubInv, Typed, Numbered, InFlight
<1> HIDE DEF e
<1>4. /\ chan \in [Clients -> Seq(Event)] /\ chan' \in [Clients -> Seq(Event)]
      /\ replay \in [Clients -> Seq(Event)]
      /\ subs \subseteq Clients /\ published \in Nat /\ DOMAIN to = Publishers
  <2>1. Typed /\ Typed'
    BY TypedStep DEF HubInv, Next
  <2> QED
    BY <2>1, SMTT(20) DEF Typed
<1>5. InFlight(c)' \subseteq InFlight(c) \ {e.n} /\ InFlight(c) \subseteq InFlight(c)' \union {e.n}
  <2>1. ASSUME NEW q \in Publishers, c \in to'[q] PROVE event'[q].n \in InFlight(c) \ {e.n}
    <3>1. q # p /\ c \in to[q] /\ event'[q] = event[q]
      BY <1>1, <2>1
    <3>2. event[q].n # event[p].n
      BY <1>1, <3>1 DEF HubInv, Numbered
    <3> QED
      BY <3>1, <3>2 DEF InFlight, e
  <2>2. ASSUME NEW q \in Publishers, c \in to[q] PROVE event[q].n \in InFlight(c)' \union {e.n}
    BY <1>1, <2>2 DEF InFlight, e
  <2> QED
    BY <2>1, <2>2 DEF InFlight
<1>6. ASSUME NEW d \in Clients, d # c PROVE InFlight(d)' = InFlight(d)
  BY <1>1, <1>6 DEF InFlight
<1>7. Numbered'
  <2>1. \A q \in Publishers : to'[q] # {} => to[q] # {}
    BY <1>1
  <2>2. UNCHANGED <<history, nextID, published, event, replay, got, stream>>
    BY <1>1 DEF topic, bounds
  <2>3. ASSUME NEW d \in Clients, NEW i \in 1..Len(chan'[d]) PROVE chan'[d][i].n <= published
    <3>1. CASE chan'[d] = chan[d]
      BY <3>1, <2>3 DEF HubInv, Numbered
    <3>2. CASE chan'[d] # chan[d]
      <4>0. d = c /\ Len(chan'[c]) = Len(chan[c]) + 1 /\ Len(chan[c]) \in Nat
        BY <1>1, <1>2, <1>4, <3>2
      <4>1. (i \in 1..Len(chan[c]) /\ chan'[c][i] = chan[c][i]) \/ chan'[c][i] = e
        BY <1>2, <2>3, <3>2, <4>0
      <4> QED
        BY <1>3, <4>0, <4>1 DEF HubInv, Numbered
    <3> QED
      BY <3>1, <3>2
  <2>4. \A d \in Clients : stream[d] = "off" => chan'[d] = <<>>
    BY <1>1, <1>2 DEF HubInv, Numbered, Typed
  <2> QED
    BY <2>1, <2>2, <2>3, <2>4 DEF HubInv, Numbered
<1>8. Apart'
  <2> SUFFICES ASSUME NEW d \in subs' PROVE
        /\ \A i, j \in 1..Len(replay'[d]) : i # j => replay'[d][i].n # replay'[d][j].n
        /\ \A i, j \in 1..Len(chan'[d]) : i # j => chan'[d][i].n # chan'[d][j].n
        /\ \A i \in 1..Len(replay'[d]), j \in 1..Len(chan'[d]) :
              replay'[d][i].n # chan'[d][j].n
        /\ \A i \in 1..Len(replay'[d]) :
              replay'[d][i].n \notin got'[d] \union InFlight(d)'
        /\ \A i \in 1..Len(chan'[d]) :
              chan'[d][i].n \notin got'[d] \union InFlight(d)'
        /\ got'[d] \intersect InFlight(d)' = {}
    BY DEF Apart, StreamApart
  <2>1. UNCHANGED <<replay, got>> /\ d \in subs /\ d \in Clients
    BY <1>1, <1>4
  <2>2. /\ \A i, j \in 1..Len(replay[d]) : i # j => replay[d][i].n # replay[d][j].n
        /\ \A i, j \in 1..Len(chan[d]) : i # j => chan[d][i].n # chan[d][j].n
        /\ \A i \in 1..Len(replay[d]), j \in 1..Len(chan[d]) : replay[d][i].n # chan[d][j].n
        /\ \A i \in 1..Len(replay[d]) : replay[d][i].n \notin got[d] \union InFlight(d)
        /\ \A i \in 1..Len(chan[d]) : chan[d][i].n \notin got[d] \union InFlight(d)
        /\ got[d] \intersect InFlight(d) = {}
    BY <2>1 DEF HubInv, Apart, StreamApart
  <2> HIDE DEF InFlight
  <2>3. CASE chan'[d] = chan[d]
    <3>1. InFlight(d)' \subseteq InFlight(d)
      BY <1>5, <1>6, <2>1
    <3> QED
      BY <2>1, <2>2, <2>3, <3>1
  <2>4. CASE chan'[d] # chan[d]
    <3>1. d = c /\ Len(chan'[c]) = Len(chan[c]) + 1 /\ chan'[c][Len(chan[c]) + 1] = e
          /\ (\A i \in 1..Len(chan[c]) : chan'[c][i] = chan[c][i]) /\ Len(chan[c]) \in Nat
      BY <1>1, <1>2, <1>4, <2>4, <2>1
    <3>2. ASSUME NEW i \in 1..Len(chan'[c])
          PROVE  \/ i \in 1..Len(chan[c]) /\ chan'[c][i] = chan[c][i]
                 \/ i = Len(chan[c]) + 1 /\ chan'[c][i] = e
      BY <3>1
    <3>3. e.n \notin InFlight(c)' /\ InFlight(c)' \subseteq InFlight(c)
      BY <1>5
    <3>4. /\ \A i \in 1..Len(replay[c]) : replay[c][i].n # e.n
          /\ \A i \in 1..Len(chan[c]) : chan[c][i].n # e.n
          /\ e.n \notin got[c]
      BY <1>3, <2>2, <3>1
    <3>5. \A i, j \in 1..Len(chan'[c]) : i # j => chan'[c][i].n # chan'[c][j].n
      <4> SUFFICES ASSUME NEW i \in 1..Len(chan'[c]), NEW j \in 1..Len(chan'[c]), i # j
                   PROVE  chan'[c][i].n # chan'[c][j].n
        OBVIOUS
      <4>1. CASE i = Len(chan[c]) + 1
        BY <3>1, <3>2, <3>4, <4>1
      <4>2. CASE j = Len(chan[c]) + 1
        BY <3>1, <3>2, <3>4, <4>2
      <4>3. CASE i \in 1..Len(chan[c]) /\ j \in 1..Len(chan[c])
        BY <2>2, <3>1, <4>3, SMTT(20)
      <4> QED
        BY <3>2, <4>1, <4>2, <4>3
    <3>6. \A i \in 1..Len(replay[c]), j \in 1..Len(chan'[c]) : replay[c][i].n # chan'[c][j].n
      <4> SUFFICES ASSUME NEW i \in 1..Len(replay[c]), NEW j \in 1..Len(chan'[c])
                   PROVE  replay[c][i].n # chan'[c][j].n
        OBVIOUS
      <4> QED
        BY <2>2, <3>1, <3>2, <3>4, SMTT(20)
    <3>7. \A i \in 1..Len(chan'[c]) : chan'[c][i].n \notin got[c] \union InFlight(c)'
      BY <2>2, <3>1, <3>2, <3>3, <3>4
    <3> QED
      BY <2>1, <2>2, <3>1, <3>3, <3>5, <3>6, <3>7, SMTT(20)
  <2> QED
    BY <2>3, <2>4
<1>9. NoGap'
  <2> SUFFICES ASSUME NEW d \in subs', NEW x \in ToSet(history'), x.id > after'[d]
               PROVE  x.n \in got'[d] \union Serials(replay'[d] \o chan'[d])
                                \union InFlight(d)' \union dropped'[d]
    BY DEF NoGap
  <2>1. UNCHANGED <<replay, got, history, after>> /\ d \in subs /\ d \in Clients
    BY <1>1, <1>4 DEF topic
  <2>2. x.n \in got[d] \union Serials(replay[d] \o chan[d]) \union InFlight(d)
                \union dropped[d]
    BY <2>1 DEF HubInv, NoGap
  <2>3. /\ Serials(replay[d] \o chan[d]) = Serials(replay[d]) \union Serials(chan[d])
        /\ Serials(replay[d] \o chan'[d]) = Serials(replay[d]) \union Serials(chan'[d])
    BY <1>4, <2>1, SerialsConcat
  <2> HIDE DEF InFlight
  <2>4. CASE d # c
    BY <1>1, <1>6, <2>1, <2>2, <2>4
  <2>5. CASE d = c /\ chan'[c] = Append(chan[c], e) /\ dropped'[c] = dropped[c]
    <3>1. Serials(chan'[c]) = Serials(chan[c]) \union {e.n}
      BY <1>3, <1>4, <2>1, <2>5, SerialsAppend
    <3> QED
      BY <1>5, <2>1, <2>2, <2>3, <2>5, <3>1
  <2>6. CASE d = c /\ chan'[c] = chan[c] /\ dropped'[c] = dropped[c] \union {e.n}
    BY <1>5, <2>1, <2>2, <2>3, <2>6
  <2> QED
    BY <1>2, <2>4, <2>5, <2>6
<1> QED
  BY <1>7, <1>8, <1>9

LEMMA WholeStreams == NoGap <=> \A c \in subs : StreamWhole(c)
BY DEF NoGap, StreamWhole

\* A stream that another client's step leaves alone.
LEMMA StreamFrame ==
    ASSUME Apart, NoGap, NEW d \in subs, UNCHANGED <<history, event>>,
           \A p \in Publishers : d \in to'[p] <=> d \in to[p],
           replay'[d] = replay[d], chan'[d] = chan[d], got'[d] = got[d],
           after'[d] = after[d], dropped'[d] = dropped[d]
    PROVE  StreamApart(d)' /\ StreamWhole(d)'
<1>1. InFlight(d)' = InFlight(d)
  BY DEF InFlight
<1>2. StreamApart(d) /\ StreamWhole(d)
  BY WholeStreams DEF Apart
<1> HIDE DEF InFlight
<1>3. StreamApart(d)'
  BY <1>1, <1>2 DEF StreamApart
<1>4. StreamWhole(d)'
  BY <1>1, <1>2 DEF StreamWhole
<1> QED
  BY <1>3, <1>4

LEMMA EvictKeeps == ASSUME HubInv, Evict PROVE Numbered' /\ Apart' /\ NoGap'
<1>1. subs' = {} /\ history' = <<>> /\ UNCHANGED <<send, conn, published>>
  BY DEF Evict
<1>2. Len(history') = 0
  BY <1>1
<1>3. Numbered'
  BY <1>1, <1>2 DEF Numbered, HubInv, send, conn
<1> QED
  BY <1>1, <1>3 DEF Apart, NoGap

LEMMA ConnectKeeps ==
    ASSUME HubInv, NEW c \in Clients, Connect(c) PROVE Numbered' /\ Apart' /\ NoGap'
<1> DEFINE newer == {e \in ToSet(history) : e.id > last[c]}
           r == Newer(last[c])
<1>1. /\ stream[c] = "off" /\ c \notin subs /\ chan[c] = <<>> /\ chan' = chan
      /\ subs' = subs \union {c}
      /\ replay'[c] = r /\ got'[c] = {} /\ after'[c] = last[c]
      /\ \A d \in Clients : d # c =>
            /\ replay'[d] = replay[d] /\ got'[d] = got[d] /\ after'[d] = after[d]
            /\ dropped'[d] = dropped[d] /\ stream'[d] = stream[d]
      /\ stream'[c] = "on"
      /\ UNCHANGED <<history, nextID, event, to, published>>
  BY DEF Connect, HubInv, Typed, Numbered, topic, send, bounds
<1>2. PICK at : Places(at, r, history, newer)
  BY NewerEvents DEF HubInv, Typed
<1>3. r \in Seq(Event) /\ history \in Seq(Event) /\ subs \subseteq Clients
  BY NewerEvents DEF HubInv, Typed
<1> HIDE DEF r
<1>4. \A i \in 1..Len(r) : at[i] \in 1..Len(history) /\ r[i] = history[at[i]]
  BY <1>2 DEF Places
<1>5. InFlight(c)' = {}
  <2>1. \A p \in Publishers : c \notin to'[p]
    BY <1>1 DEF HubInv, Typed
  <2> QED
    BY <2>1 DEF InFlight
<1>6. Numbered'
  <2>1. \A i \in 1..Len(r) : r[i].n <= published
    BY <1>4 DEF HubInv, Numbered
  <2>2. ASSUME NEW d \in Clients
        PROVE  /\ \A i \in 1..Len(replay'[d]) : replay'[d][i].n <= published'
               /\ \A i \in 1..Len(chan'[d]) : chan'[d][i].n <= published'
               /\ \A n \in got'[d] : n <= published'
               /\ stream'[d] = "off" => chan'[d] = <<>>
    <3>1. CASE d = c
      BY <1>1, <2>1, <3>1
    <3>2. CASE d # c
      BY <1>1, <3>2 DEF HubInv, Numbered
    <3> QED
      BY <3>1, <3>2
  <2> QED
    BY <1>1, <2>2 DEF HubInv, Numbered
<1>7. StreamApart(c)'
  <2>1. ASSUME NEW i \in 1..Len(r), NEW j \in 1..Len(r), i # j PROVE r[i].n # r[j].n
    <3>1. at[i] # at[j]
      <4>1. \A k, l \in 1..Len(r) : k < l => at[k] < at[l]
        BY <1>2 DEF Places
      <4>2. i < j \/ j < i
        BY <2>1
      <4> QED
        BY <1>4, <4>1, <4>2
    <3> QED
      BY <1>4, <3>1, SMTT(20) DEF HubInv, Numbered
  <2>2. replay'[c] = r /\ chan'[c] = <<>> /\ Len(chan'[c]) = 0 /\ got'[c] = {}
    BY <1>1
  <2> HIDE DEF InFlight
  <2> QED
    BY <1>5, <2>1, <2>2 DEF StreamApart
<1>8. StreamWhole(c)'
  <2> SUFFICES ASSUME NEW e \in ToSet(history), e.id > last[c]
               PROVE  e.n \in Serials(replay'[c] \o chan'[c])
    BY <1>1 DEF StreamWhole
  <2>1. PICK i \in 1..Len(history) : e = history[i]
    BY <1>3 DEF ToSet
  <2>2. PICK k \in 1..Len(r) : at[k] = i
    BY <1>2, <2>1 DEF Places
  <2>3. r[k] = e
    BY <1>4, <2>1, <2>2
  <2>4. replay'[c] \o chan'[c] = r
    BY <1>1, <1>3
  <2> QED
    BY <1>3, <2>3, <2>4, SerialsOf
<1>9. ASSUME NEW d \in subs', d # c PROVE StreamApart(d)' /\ StreamWhole(d)'
  BY <1>1, <1>3, <1>9, StreamFrame DEF HubInv
<1> QED
  BY <1>6, <1>7, <1>8, <1>9, WholeStreams DEF Apart, NoGap, StreamWhole

\* Writing moves the head of the replay, or else of the channel, to what the
\* client got.
LEMMA WriteKeeps ==
    ASSUME HubInv, NEW c \in Clients, c \in subs, NEW e \in Event, Write(c, e),
           UNCHANGED <<topic, after, dropped, bounds>>,
           \A d \in Clients : d # c => replay'[d] = replay[d] /\ chan'[d] = chan[d],
           \/ /\ replay[c] # <<>> /\ e = Head(replay[c])
              /\ replay'[c] = Tail(replay[c]) /\ chan'[c] = chan[c]
           \/ /\ replay'[c] = replay[c]
              /\ chan[c] # <<>> /\ e = Head(chan[c]) /\ chan'[c] = Tail(chan[c])
    PROVE  Numbered' /\ Apart' /\ NoGap'
<1>1. /\ event' = event
      /\ subs' \subseteq subs /\ \A d \in subs : d # c => d \in subs'
      /\ \A p \in Publishers : to'[p] = to[p] \intersect subs'
      /\ \A d \in Clients : stream'[d] = "off" => stream[d] = "off"
      /\ got'[c] = got[c] \union {e.n}
      /\ \A d \in Clients : d # c => got'[d] = got[d]
  BY WriteType DEF HubInv
<1>2. UNCHANGED <<history, nextID, published>> /\ subs \subseteq Clients
  BY DEF topic, bounds, HubInv, Typed
<1>3. replay[c] \in Seq(Event) /\ chan[c] \in Seq(Event) /\ stream[c] = "on"
  BY DEF HubInv, Typed
<1>4. \A d \in subs' : InFlight(d)' = InFlight(d)
  BY <1>1 DEF InFlight
<1> HIDE DEF InFlight
<1> DEFINE Moved(a, b) ==
        /\ \A i \in 1..Len(replay'[c]) :
              /\ i + a \in 1..Len(replay[c]) /\ replay'[c][i] = replay[c][i + a]
              /\ replay'[c][i].n # e.n
        /\ \A i \in 1..Len(chan'[c]) :
              /\ i + b \in 1..Len(chan[c]) /\ chan'[c][i] = chan[c][i + b]
              /\ chan'[c][i].n # e.n
        /\ e.n \notin InFlight(c) /\ e.n <= published
        /\ Serials(replay[c] \o chan[c]) \subseteq {e.n} \union Serials(replay'[c] \o chan'[c])
<1>5. PICK a \in {0, 1}, b \in {0, 1} : Moved(a, b)
  <2>1. CASE /\ replay[c] # <<>> /\ e = Head(replay[c])
             /\ replay'[c] = Tail(replay[c]) /\ chan'[c] = chan[c]
    <3>1. /\ e = replay[c][1] /\ 1 \in 1..Len(replay[c])
          /\ \A i \in 1..Len(replay'[c]) :
                i + 1 \in 1..Len(replay[c]) /\ replay'[c][i] = replay[c][i + 1]
      BY <1>3, <2>1, HeadAndTail
    <3>2. Serials(replay[c] \o chan[c]) \subseteq {e.n} \union Serials(replay'[c] \o chan'[c])
      <4>1. Serials(replay[c]) = {e.n} \union Serials(replay'[c]) /\ replay'[c] \in Seq(Event)
        BY <1>3, <2>1, SerialsTail
      <4> QED
        BY <1>3, <2>1, <4>1, SerialsConcat
    <3>3. e.n \notin InFlight(c) /\ \A i \in 1..Len(chan[c]) : chan[c][i].n # e.n
      BY <3>1 DEF HubInv, Apart, StreamApart
    <3>4. \A i \in 1..Len(replay'[c]) : replay'[c][i].n # e.n
      BY <3>1 DEF HubInv, Apart, StreamApart
    <3>5. e.n <= published
      BY <3>1 DEF HubInv, Numbered
    <3> QED
      BY <2>1, <3>1, <3>2, <3>3, <3>4, <3>5
  <2>2. CASE /\ replay'[c] = replay[c]
             /\ chan[c] # <<>> /\ e = Head(chan[c]) /\ chan'[c] = Tail(chan[c])
    <3>1. /\ e = chan[c][1] /\ 1 \in 1..Len(chan[c])
          /\ \A i \in 1..Len(chan'[c]) :
                i + 1 \in 1..Len(chan[c]) /\ chan'[c][i] = chan[c][i + 1]
      BY <1>3, <2>2, HeadAndTail
    <3>2. Serials(replay[c] \o chan[c]) \subseteq {e.n} \union Serials(replay'[c] \o chan'[c])
      <4>1. Serials(chan[c]) = {e.n} \union Serials(chan'[c]) /\ chan'[c] \in Seq(Event)
        BY <1>3, <2>2, SerialsTail
      <4>2. Serials(replay[c] \o chan[c]) = Serials(replay[c]) \union Serials(chan[c])
        BY <1>3, SerialsConcat
      <4>3. Serials(replay'[c] \o chan'[c]) = Serials(replay[c]) \union Serials(chan'[c])
        BY <1>3, <2>2, <4>1, SerialsConcat
      <4> QED
        BY <4>1, <4>2, <4>3
    <3>3. e.n \notin InFlight(c) /\ \A i \in 1..Len(replay[c]) : replay[c][i].n # e.n
      BY <3>1 DEF HubInv, Apart, StreamApart
    <3>4. ASSUME NEW i \in 1..Len(chan'[c]) PROVE chan'[c][i].n # e.n
      <4>1. i + 1 \in 1..Len(chan[c]) /\ i + 1 # 1 /\ chan'[c][i] = chan[c][i + 1]
        BY <3>1
      <4>2. \A k, j \in 1..Len(chan[c]) : k # j => chan[c][k].n # chan[c][j].n
        BY DEF HubInv, Apart, StreamApart
      <4> QED
        BY <3>1, <4>1, <4>2
    <3>5. e.n <= published
      BY <3>1 DEF HubInv, Numbered
    <3> QED
      BY <2>2, <3>1, <3>2, <3>3, <3>4, <3>5
  <2> QED
    BY <2>1, <2>2
<1>6. Numbered'
  <2>1. \A p \in Publishers : to'[p] # {} => to[p] # {}
    BY <1>1
  <2>2. ASSUME NEW d \in Clients
        PROVE  /\ \A i \in 1..Len(replay'[d]) : replay'[d][i].n <= published'
               /\ \A i \in 1..Len(chan'[d]) : chan'[d][i].n <= published'
               /\ \A n \in got'[d] : n <= published'
               /\ stream'[d] = "off" => chan'[d] = <<>>
    <3>1. /\ \A i \in 1..Len(replay[d]) : replay[d][i].n <= published
          /\ \A i \in 1..Len(chan[d]) : chan[d][i].n <= published
          /\ \A n \in got[d] : n <= published
          /\ stream[d] = "off" => chan[d] = <<>>
      BY DEF HubInv, Numbered
    <3>2. CASE d = c
      <4>1. \A i \in 1..Len(replay'[c]) : replay'[c][i].n <= published'
        BY <1>2, <1>5, <3>1, <3>2
      <4>2. \A i \in 1..Len(chan'[c]) : chan'[c][i].n <= published'
        BY <1>2, <1>5, <3>1, <3>2
      <4>3. \A n \in got'[c] : n <= published'
        BY <1>1, <1>2, <1>5, <3>1, <3>2
      <4>4. stream'[c] # "off"
        BY <1>1, <1>3
      <4> QED
        BY <3>2, <4>1, <4>2, <4>3, <4>4
    <3>3. CASE d # c
      BY <1>1, <1>2, <3>1, <3>3
    <3> QED
      BY <3>2, <3>3
  <2> QED
    BY <1>1, <1>2, <2>1, <2>2 DEF HubInv, Numbered
<1>7. ASSUME c \in subs' PROVE StreamApart(c)' /\ StreamWhole(c)'
  <2>1. InFlight(c)' = InFlight(c)
    BY <1>4, <1>7
  <2>2. StreamApart(c) /\ StreamWhole(c)
    BY WholeStreams DEF HubInv, Apart
  <2>a. \A i \in 1..Len(replay'[c]) :
            /\ i + a \in 1..Len(replay[c]) /\ replay'[c][i] = replay[c][i + a]
            /\ replay'[c][i].n # e.n
    BY <1>5
  <2>b. \A i \in 1..Len(chan'[c]) :
            /\ i + b \in 1..Len(chan[c]) /\ chan'[c][i] = chan[c][i + b]
            /\ chan'[c][i].n # e.n
    BY <1>5
  <2>c. /\ e.n \notin InFlight(c)
        /\ Serials(replay[c] \o chan[c]) \subseteq {e.n} \union Serials(replay'[c] \o chan'[c])
    BY <1>5
  <2>d. a \in {0, 1} /\ b \in {0, 1} /\ Len(replay'[c]) \in Nat /\ Len(chan'[c]) \in Nat
    BY <1>5 DEF HubInv
  <2> HIDE DEF Moved
  <2>3. ASSUME NEW i \in 1..Len(replay'[c]), NEW j \in 1..Len(replay'[c]), i # j
        PROVE  replay'[c][i].n # replay'[c][j].n
    <3>1. i + a \in 1..Len(replay[c]) /\ replay'[c][i] = replay[c][i + a]
      BY <2>a
    <3>2. j + a \in 1..Len(replay[c]) /\ replay'[c][j] = replay[c][j + a]
      BY <2>a
    <3>3. i + a # j + a
      BY <2>3, <2>d
    <3>4. \A x, y \in 1..Len(replay[c]) : x # y => replay[c][x].n # replay[c][y].n
      BY <2>2 DEF StreamApart
    <3> QED
      BY <3>1, <3>2, <3>3, <3>4
  <2>4. ASSUME NEW i \in 1..Len(chan'[c]), NEW j \in 1..Len(chan'[c]), i # j
        PROVE  chan'[c][i].n # chan'[c][j].n
    <3>1. i + b \in 1..Len(chan[c]) /\ chan'[c][i] = chan[c][i + b]
      BY <2>b
    <3>2. j + b \in 1..Len(chan[c]) /\ chan'[c][j] = chan[c][j + b]
      BY <2>b
    <3>3. i + b # j + b
      BY <2>4, <2>d
    <3>4. \A x, y \in 1..Len(chan[c]) : x # y => chan[c][x].n # chan[c][y].n
      BY <2>2 DEF StreamApart
    <3> QED
      BY <3>1, <3>2, <3>3, <3>4
  <2>5. \A i \in 1..Len(replay'[c]), j \in 1..Len(chan'[c]) : replay'[c][i].n # chan'[c][j].n
    <3> SUFFICES ASSUME NEW i \in 1..Len(replay'[c]), NEW j \in 1..Len(chan'[c])
                 PROVE  replay'[c][i].n # chan'[c][j].n
      OBVIOUS
    <3>1. i + a \in 1..Len(replay[c]) /\ replay'[c][i] = replay[c][i + a]
      BY <2>a
    <3>2. j + b \in 1..Len(chan[c]) /\ chan'[c][j] = chan[c][j + b]
      BY <2>b
    <3>3. \A x \in 1..Len(replay[c]), y \in 1..Len(chan[c]) : replay[c][x].n # chan[c][y].n
      BY <2>2 DEF StreamApart
    <3> QED
      BY <3>1, <3>2, <3>3
  <2>6. \A i \in 1..Len(replay'[c]) : replay'[c][i].n \notin got'[c] \union InFlight(c)'
    BY <1>1, <2>1, <2>2, <2>a DEF StreamApart
  <2>7. \A i \in 1..Len(chan'[c]) : chan'[c][i].n \notin got'[c] \union InFlight(c)'
    BY <1>1, <2>1, <2>2, <2>b, SMTT(20) DEF StreamApart
  <2>8. got'[c] \intersect InFlight(c)' = {}
    BY <1>1, <2>1, <2>2, <2>c DEF StreamApart
  <2>9. StreamWhole(c)'
    BY <1>1, <1>2, <2>1, <2>2, <2>c DEF StreamWhole
  <2> QED
    BY <2>3, <2>4, <2>5, <2>6, <2>7, <2>8, <2>9 DEF StreamApart
<1>8. ASSUME NEW d \in subs', d # c PROVE StreamApart(d)' /\ StreamWhole(d)'
  BY <1>1, <1>2, <1>8, StreamFrame DEF HubInv
<1> QED
  BY <1>6, <1>7, <1>8, WholeStreams DEF Apart, NoGap, StreamWhole

LEMMA DisconnectKeeps ==
    ASSUME HubInv, NEW c \in Clients, Disconnect(c) PROVE Numbered' /\ Apart' /\ NoGap'
<1>1. /\ Unsubscribe(c, "off") /\ UNCHANGED <<history, nextID, published, after, got, dropped>>
      /\ replay'[c] = <<>> /\ chan'[c] = <<>>
      /\ \A d \in Clients : d # c => replay'[d] = replay[d] /\ chan'[d] = chan[d]
  BY DEF Disconnect, topic, bounds, HubInv, Typed
<1>2. /\ event' = event /\ subs' = subs \ {c} /\ subs \subseteq Clients
      /\ \A p \in Publishers : to'[p] = to[p] \ {c}
      /\ \A d \in Clients : d # c => stream'[d] = stream[d]
  BY <1>1 DEF Unsubscribe, HubInv, Typed
<1>3. Numbered'
  <2>1. \A p \in Publishers : to'[p] # {} => to[p] # {}
    BY <1>2
  <2>2. ASSUME NEW d \in Clients
        PROVE  /\ \A i \in 1..Len(replay'[d]) : replay'[d][i].n <= published'
               /\ \A i \in 1..Len(chan'[d]) : chan'[d][i].n <= published'
               /\ \A n \in got'[d] : n <= published'
               /\ stream'[d] = "off" => chan'[d] = <<>>
    <3>1. CASE d = c
      <4>1. Len(replay'[d]) = 0 /\ Len(chan'[d]) = 0
        BY <1>1, <3>1
      <4> QED
        BY <1>1, <3>1, <4>1 DEF HubInv, Numbered
    <3>2. CASE d # c
      BY <1>1, <1>2, <3>2 DEF HubInv, Numbered
    <3> QED
      BY <3>1, <3>2
  <2> QED
    BY <1>1, <1>2, <2>1, <2>2 DEF HubInv, Numbered
<1>4. ASSUME NEW d \in subs' PROVE StreamApart(d)' /\ StreamWhole(d)'
  BY <1>1, <1>2, <1>4, StreamFrame DEF HubInv
<1> QED
  BY <1>3, <1>4, WholeStreams DEF Apart, NoGap, StreamWhole

-----------------------------------------------------------------------------

LEMMA HubStep == HubInv /\ [Next]_vars => HubInv'
<1> SUFFICES ASSUME HubInv, [Next]_vars PROVE HubInv'
  OBVIOUS
<1>1. Typed'
  BY TypedStep DEF HubInv
<1>2. CASE UNCHANGED vars
  BY <1>1, <1>2 DEF HubInv, Numbered, Apart, StreamApart, NoGap, InFlight, vars, topic,
                    send, conn, bounds
<1>3. ASSUME NEW c \in Clients, WriteReplay(c) PROVE Numbered' /\ Apart' /\ NoGap'
  <2>1. /\ replay[c] # <<>> /\ c \in subs /\ replay[c] \in Seq(Event)
        /\ Write(c, Head(replay[c]))
        /\ replay'[c] = Tail(replay[c])
        /\ \A d \in Clients : d # c => replay'[d] = replay[d]
        /\ UNCHANGED <<topic, chan, after, dropped, bounds>>
    BY <1>3 DEF WriteReplay, HubInv, Typed
  <2>2. Head(replay[c]) \in Event
    BY <2>1
  <2> QED
    BY <2>1, <2>2, WriteKeeps
<1>4. ASSUME NEW c \in Clients, WriteLive(c) PROVE Numbered' /\ Apart' /\ NoGap'
  <2>1. /\ chan[c] # <<>> /\ c \in subs /\ chan[c] \in Seq(Event)
        /\ Write(c, Head(chan[c]))
        /\ chan'[c] = Tail(chan[c])
        /\ \A d \in Clients : d # c => chan'[d] = chan[d]
        /\ UNCHANGED <<topic, replay, after, dropped, bounds>>
    BY <1>4 DEF WriteLive, HubInv, Typed
  <2>2. Head(chan[c]) \in Event
    BY <2>1
  <2> QED
    BY <2>1, <2>2, WriteKeeps
<1> QED
  BY <1>1, <1>2, <1>3, <1>4, PublishKeeps, SendKeeps, EvictKeeps, ConnectKeeps,
     DisconnectKeeps DEF HubInv, Next

LEMMA HubInit == Init => HubInv
<1> SUFFICES ASSUME Init PROVE HubInv
  OBVIOUS
<1>1. Len(<<>>) = 0 /\ <<>> \in Seq(Event)
  OBVIOUS
<1>2. Typed
  BY <1>1 DEF Init, Typed
<1>3. Numbered
  BY <1>1 DEF Init, Numbered
<1> QED
  BY <1>2, <1>3 DEF Init, HubInv, Apart, NoGap

\* HubInv holds from the start and through every step.
THEOREM HubInvariant == Spec => []HubInv
BY HubInit, HubStep, PTL DEF Spec

\* Every variable keeps its type and the hub's list of channels is that of the
\* streams being served, whatever is published, dropped, evicted or cut off.
THEOREM TypeCorrect == Spec => []TypeOK
<1>1. HubInv => TypeOK
  BY DEF HubInv, Typed, TypeOK
<1> QED
  BY <1>1, HubInvariant, PTL

\* No event is written twice on one stream: the replay and the channel never hold
\* the same one, although Publish sends after the unlock.
THEOREM NothingTwice == Spec => []WrittenOnce
<1>1. HubInv => WrittenOnce
  <2> SUFFICES ASSUME HubInv, NEW c \in subs
               PROVE  LET queued == replay[c] \o chan[c] IN
                      /\ \A i, j \in DOMAIN queued : queued[i].n = queued[j].n => i = j
                      /\ Serials(queued) \intersect (got[c] \union InFlight(c)) = {}
                      /\ got[c] \intersect InFlight(c) = {}
    BY DEF WrittenOnce
  <2> DEFINE q == replay[c] \o chan[c]
             k == Len(replay[c])
  <2>1. replay[c] \in Seq(Event) /\ chan[c] \in Seq(Event) /\ StreamApart(c)
    BY DEF HubInv, Typed, Apart
  <2>2. /\ k \in Nat /\ Len(chan[c]) \in Nat
        /\ DOMAIN q = 1..(k + Len(chan[c]))
        /\ \A i \in 1..k : q[i] = replay[c][i]
        /\ \A i \in (k + 1)..(k + Len(chan[c])) :
              i - k \in 1..Len(chan[c]) /\ q[i] = chan[c][i - k]
    <3>1. /\ q \in Seq(Event) /\ Len(q) = k + Len(chan[c])
          /\ k \in Nat /\ Len(chan[c]) \in Nat
          /\ \A i \in 1..k : q[i] = replay[c][i]
          /\ \A i \in 1..Len(chan[c]) : q[i + k] = chan[c][i]
      <4>1. \A r, t \in Seq(Event) :
               /\ r \o t \in Seq(Event) /\ Len(r \o t) = Len(r) + Len(t)
               /\ \A i \in 1..Len(r) : (r \o t)[i] = r[i]
               /\ \A i \in 1..Len(t) : (r \o t)[i + Len(r)] = t[i]
               /\ Len(r) \in Nat /\ Len(t) \in Nat
        BY Concat
      <4> QED
        BY <2>1, <4>1
    <3>2. DOMAIN q = 1..Len(q)
      BY <3>1
    <3> HIDE DEF q, k
    <3> QED
      BY <3>1, <3>2
  <2>3. Serials(q) = Serials(replay[c]) \union Serials(chan[c])
    BY <2>1, SerialsConcat
  <2> HIDE DEF q, k
  <2>4. ASSUME NEW i \in DOMAIN q, NEW j \in DOMAIN q, q[i].n = q[j].n PROVE i = j
    <3>1. /\ i \in 1..(k + Len(chan[c])) /\ j \in 1..(k + Len(chan[c]))
          /\ i <= k => i \in 1..k
          /\ j <= k => j \in 1..k
          /\ ~ (i <= k) => i \in (k + 1)..(k + Len(chan[c]))
          /\ ~ (j <= k) => j \in (k + 1)..(k + Len(chan[c]))
      BY <2>2, <2>4
    <3>2. /\ \A x, y \in 1..k : x # y => replay[c][x].n # replay[c][y].n
          /\ \A x, y \in 1..Len(chan[c]) : x # y => chan[c][x].n # chan[c][y].n
          /\ \A x \in 1..k, y \in 1..Len(chan[c]) : replay[c][x].n # chan[c][y].n
      BY <2>1 DEF StreamApart, k
    <3>3. CASE i <= k /\ j <= k
      BY <2>2, <2>4, <3>1, <3>2, <3>3
    <3>4. CASE i <= k /\ ~ (j <= k)
      BY <2>2, <2>4, <3>1, <3>2, <3>4
    <3>5. CASE ~ (i <= k) /\ j <= k
      BY <2>2, <2>4, <3>1, <3>2, <3>5, SMTT(20)
    <3>6. CASE ~ (i <= k) /\ ~ (j <= k)
      <4>1. i - k \in 1..Len(chan[c]) /\ j - k \in 1..Len(chan[c]) /\ i - k = j - k
        BY <2>2, <2>4, <3>1, <3>2, <3>6, SMTT(20)
      <4> QED
        BY <2>2, <3>1, <4>1
    <3> QED
      BY <3>3, <3>4, <3>5, <3>6
  <2>5. Serials(q) \intersect (got[c] \union InFlight(c)) = {}
    BY <2>1, <2>3, SerialsOf DEF StreamApart
  <2> QED
    BY <2>1, <2>4, <2>5 DEF StreamApart, q
<1> QED
  BY <1>1, HubInvariant, PTL

\* A subscription leaves no gap between the replay and the live events.
THEOREM NothingMissed == Spec => []NoGap
<1>1. HubInv => NoGap
  BY DEF HubInv
<1> QED
  BY <1>1, HubInvariant, PTL

=============================================================================
