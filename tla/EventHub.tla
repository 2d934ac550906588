------------------------------ MODULE EventHub ------------------------------
(***************************************************************************)
(* One job's topic in the event hub (internal/platform/events/hub.go): the *)
(* goroutines that publish to it (the job's handler, DELETE /jobs/{id}),   *)
(* the SSE streams that serve it (JobEvents, internal/jobs/http.go) and    *)
(* their clients, which reconnect with Last-Event-ID.  What the hub does   *)
(* under its mutex is one step; Publish sends to the channels it saw after *)
(* the unlock, one at a time.                                              *)
(* Operators named Bug_... are plausible mistakes in the operator they     *)
(* precede; no specification uses them.                                    *)
(*                                                                         *)
(* Abstracted: an event is its id, whether it ends the stream ("done",     *)
(* "error", "cancelled") and a serial number the code does not have, which *)
(* tells events apart when ids start again; SSE heartbeats and the legacy  *)
(* subscriptions of the debug handler, which have no replay, are left out. *)
(* A send to a channel whose stream has ended has no effect, so ending a   *)
(* stream also strikes it from the publishers' lists.                      *)
(***************************************************************************)
EXTENDS Integers, Sequences, SequencesExt, Filters

CONSTANTS Publishers,   \* goroutines that publish to the topic
          Clients,      \* clients of GET /jobs/{id}/events
          Keep,         \* the retained window (512)
          Capacity,     \* the buffer of a subscriber's channel (100)
          MaxEvents,    \* bound: events published in one behaviour
          MaxEvictions  \* bound: evictions of the idle topic

ASSUME EventHubAssumption ==
    /\ Keep \in Nat \ {0}
    /\ Capacity \in Nat \ {0}
    /\ MaxEvents \in Nat
    /\ MaxEvictions \in Nat

VARIABLES
    nextID,     \* the topic's last id
    history,    \* the retained events, oldest first
    subs,       \* the clients whose channels are subscribed
    event,      \* event[p]: the event p is sending
    to,         \* to[p]: the clients whose channels p has still to try
    stream,     \* stream[c]: "off", "on" or "ended" (by a final event)
    replay,     \* replay[c]: retained events c's stream has still to write
    chan,       \* chan[c]: the buffer of c's channel
    last,       \* last[c]: the last id c was sent, its Last-Event-ID
    after,      \* after[c]: the Last-Event-ID c's stream started from
    got,        \* got[c]: serials written on c's present stream
    dropped,    \* dropped[c]: serials its full channel made Publish drop
    published,  \* how many events were published: the last serial number
    evictions   \* how much of the bound is spent

topic  == <<nextID, history>>
send   == <<event, to>>
conn   == <<stream, replay, chan, last, after, got>>
bounds == <<published, evictions>>
vars   == <<topic, subs, send, conn, dropped, bounds>>

Event == [n : 1..MaxEvents, id : 1..MaxEvents, final : BOOLEAN]
NoEvent == [n |-> 0, id |-> 0, final |-> FALSE]

Serials(s) == {e.n : e \in ToSet(s)}

Init ==
    /\ nextID = 0
    /\ history = <<>>
    /\ subs = {}
    /\ event = [p \in Publishers |-> NoEvent]
    /\ to = [p \in Publishers |-> {}]
    /\ stream = [c \in Clients |-> "off"]
    /\ replay = [c \in Clients |-> <<>>]
    /\ chan = [c \in Clients |-> <<>>]
    /\ last = [c \in Clients |-> 0]
    /\ after = [c \in Clients |-> 0]
    /\ got = [c \in Clients |-> {}]
    /\ dropped = [c \in Clients |-> {}]
    /\ published = 0
    /\ evictions = 0

-----------------------------------------------------------------------------
(* Hub.Publish.                                                            *)

\* The window keeps the latest events.
Retain(s) == IF Len(s) > Keep THEN SubSeq(s, Len(s) - Keep + 1, Len(s)) ELSE s

\* The event goes to whoever is subscribed when it is sent, not when it is
\* recorded.
Bug_Publish(p) ==
    /\ to[p] = {}
    /\ published < MaxEvents
    /\ \E final \in BOOLEAN :
          LET e == [n |-> published + 1, id |-> nextID + 1, final |-> final] IN
          /\ history' = Retain(Append(history, e))
          /\ event' = [event EXCEPT ![p] = e]
    /\ nextID' = nextID + 1
    /\ to' = [to EXCEPT ![p] = Clients]
    /\ published' = published + 1
    /\ UNCHANGED <<subs, conn, dropped, evictions>>

\* Under the mutex: number the event, record it, copy the list of channels.
Publish(p) ==
    /\ to[p] = {}
    /\ published < MaxEvents
    /\ \E final \in BOOLEAN :
          LET e == [n |-> published + 1, id |-> nextID + 1, final |-> final] IN
          /\ history' = Retain(Append(history, e))
          /\ event' = [event EXCEPT ![p] = e]
    /\ nextID' = nextID + 1
    /\ to' = [to EXCEPT ![p] = subs]
    /\ published' = published + 1
    /\ UNCHANGED <<subs, conn, dropped, evictions>>

\* After the unlock, for each channel: a send that never blocks.
Send(p, c) ==
    /\ c \in to[p]
    /\ to' = [to EXCEPT ![p] = @ \ {c}]
    /\ IF Len(chan[c]) < Capacity
         THEN chan' = [chan EXCEPT ![c] = Append(@, event[p])] /\ UNCHANGED dropped
         ELSE dropped' = [dropped EXCEPT ![c] = @ \union {event[p].n}] /\ UNCHANGED chan
    /\ UNCHANGED <<topic, subs, event, stream, replay, last, after, got, bounds>>

\* A Publish to another topic finds this one without subscribers and idle for
\* a day: it is deleted, and the next event starts its ids again.
Evict ==
    /\ subs = {}
    /\ history # <<>>
    /\ evictions < MaxEvictions
    /\ nextID' = 0
    /\ history' = <<>>
    /\ evictions' = evictions + 1
    /\ UNCHANGED <<subs, send, conn, dropped, published>>

-----------------------------------------------------------------------------
(* JobEvents and its client.                                               *)

\* The replay starts one event too late.
Bug_Newer(id) == Filter(history, {e \in ToSet(history) : e.id > id + 1})

Newer(id) == Filter(history, {e \in ToSet(history) : e.id > id})

\* SubscribeFrom: subscribe and copy the retained events in one step.
Connect(c) ==
    /\ stream[c] = "off"
    /\ stream' = [stream EXCEPT ![c] = "on"]
    /\ subs' = subs \union {c}
    /\ replay' = [replay EXCEPT ![c] = Newer(last[c])]
    /\ after' = [after EXCEPT ![c] = last[c]]
    /\ got' = [got EXCEPT ![c] = {}]
    /\ dropped' = [dropped EXCEPT ![c] = {}]
    /\ UNCHANGED <<topic, send, chan, last, bounds>>

\* A stream that a final event ended stays subscribed.
Bug_Unsubscribe(c, s) ==
    /\ stream' = [stream EXCEPT ![c] = s]
    /\ subs' = IF s = "ended" THEN subs ELSE subs \ {c}
    /\ to' = [p \in Publishers |-> to[p] \ {c}]
    /\ UNCHANGED event

\* The handler returns, for whatever reason, and UnsubscribeEvent runs.
Unsubscribe(c, s) ==
    /\ stream' = [stream EXCEPT ![c] = s]
    /\ subs' = subs \ {c}
    /\ to' = [p \in Publishers |-> to[p] \ {c}]
    /\ UNCHANGED event

\* Write an event to the client; a final one ends the stream.
Write(c, e) ==
    /\ last' = [last EXCEPT ![c] = e.id]
    /\ got' = [got EXCEPT ![c] = @ \union {e.n}]
    /\ IF e.final THEN Unsubscribe(c, "ended") ELSE UNCHANGED <<stream, subs, send>>

\* The replay comes first ...
WriteReplay(c) ==
    /\ stream[c] = "on"
    /\ replay[c] # <<>>
    /\ Write(c, Head(replay[c]))
    /\ replay' = [replay EXCEPT ![c] = Tail(@)]
    /\ UNCHANGED <<topic, chan, after, dropped, bounds>>

\* ... and what the channel has collected meanwhile follows it.
WriteLive(c) ==
    /\ stream[c] = "on"
    /\ replay[c] = <<>>
    /\ chan[c] # <<>>
    /\ Write(c, Head(chan[c]))
    /\ chan' = [chan EXCEPT ![c] = Tail(@)]
    /\ UNCHANGED <<topic, replay, after, dropped, bounds>>

\* The connection breaks: what was replayed or buffered but not written is
\* lost with the channel.
Disconnect(c) ==
    /\ stream[c] = "on"
    /\ Unsubscribe(c, "off")
    /\ replay' = [replay EXCEPT ![c] = <<>>]
    /\ chan' = [chan EXCEPT ![c] = <<>>]
    /\ UNCHANGED <<topic, last, after, got, dropped, bounds>>

-----------------------------------------------------------------------------

Next ==
    \/ \E p \in Publishers : Publish(p) \/ \E c \in Clients : Send(p, c)
    \/ \E c \in Clients : Connect(c) \/ WriteReplay(c) \/ WriteLive(c) \/ Disconnect(c)
    \/ Evict

Spec == Init /\ [][Next]_vars

\* Publish's loop ends, a client whose connection broke reconnects, and a
\* stream writes what it has (a connection that breaks again and again is
\* strongly fair to the writes in between).
Fairness ==
    \A c \in Clients :
        /\ WF_vars(Connect(c))
        /\ SF_vars(WriteReplay(c)) /\ SF_vars(WriteLive(c))
        /\ \A p \in Publishers : WF_vars(Send(p, c))

FairSpec == Spec /\ Fairness

-----------------------------------------------------------------------------
(* Properties.                                                             *)

\* Every variable stays in its type, and the hub's list of channels is that of
\* the streams being served: none is leaked, none is missed.
TypeOK ==
    /\ nextID \in 0..MaxEvents
    /\ history \in Seq(Event) /\ Len(history) <= Keep
    /\ \A p \in Publishers : event[p] \in Event \union {NoEvent} /\ to[p] \subseteq subs
    /\ subs = {c \in Clients : stream[c] = "on"}
    /\ \A c \in Clients :
          /\ stream[c] \in {"off", "on", "ended"}
          /\ replay[c] \in Seq(Event)
          /\ chan[c] \in Seq(Event) /\ Len(chan[c]) <= Capacity
          /\ {last[c], after[c]} \subseteq 0..MaxEvents
          /\ got[c] \union dropped[c] \subseteq 1..MaxEvents
    /\ published \in 0..MaxEvents
    /\ evictions \in 0..MaxEvictions

InFlight(c) == {event[p].n : p \in {q \in Publishers : c \in to[q]}}

\* On one stream no event is written twice: what comes by replay does not come
\* by the channel as well, although Publish sends after the unlock.
WrittenOnce ==
    \A c \in subs :
        LET queued == replay[c] \o chan[c] IN
        /\ \A i, j \in DOMAIN queued : queued[i].n = queued[j].n => i = j
        /\ Serials(queued) \intersect (got[c] \union InFlight(c)) = {}
        /\ got[c] \intersect InFlight(c) = {}

\* The subscription leaves no gap: every retained event newer than where the
\* stream started has been written, is queued, is about to be sent, or was
\* dropped because the channel was full.
NoGap ==
    \A c \in subs : \A e \in ToSet(history) :
        e.id > after[c] =>
            e.n \in got[c] \union Serials(replay[c] \o chan[c]) \union InFlight(c)
                       \union dropped[c]

\* A client that keeps reconnecting learns of the end of the job: a final
\* event ends its stream, unless the hub has forgotten or dropped the event
\* or a newer one overtook it.
FinalReachesClient ==
    \A c \in Clients, n \in 1..MaxEvents :
        (\E e \in ToSet(history) : e.n = n /\ e.final)
            ~> \/ stream[c] = "ended"
               \/ n \in dropped[c]
               \/ \A e \in ToSet(history) : e.n = n => e.id <= last[c]

=============================================================================
