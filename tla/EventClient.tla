----------------------------- MODULE EventClient -----------------------------
(***************************************************************************)
(* The Go client's end of a connection to the hub: ConnectWebSocket and    *)
(* CloseWebSocket (pkg/client/client.go), Connect, readLoop and Close of   *)
(* WebSocketClient (pkg/client/websocket.go), composed with Hub.  Every    *)
(* connection has a WebSocketClient of its own: ConnectWebSocket makes a   *)
(* new one whenever the last is not connected.                             *)
(*                                                                         *)
(* A WebSocket message is a sequence of events, the ones WritePump put     *)
(* together; json.Unmarshal accepts a message of one event only.           *)
(***************************************************************************)
EXTENDS Hub

CONSTANT ClientCap  \* capacity of WebSocketClient.events (100)

ASSUME EventClientAssumption == ClientCap \in Nat \ {0}

VARIABLES
  wire,      \* messages on their way to the client
  conn,      \* WebSocketClient.conn: "none", "open", or "closed" by Close
  done,      \* the done channel is closed
  closer,    \* Close: "no", "signaled" (done is closed), "over"
  ws,        \* where readLoop is
  hand,      \* the event it has decoded
  events,    \* the buffer of the events channel
  closed,    \* the events channel is closed
  taken,     \* what the application has received from it
  skipped,   \* events of messages that were not decoded
  overrun    \* events dropped to make room

readerVars == <<ws, hand, events, closed, skipped, overrun>>
endVars    == <<wire, conn, done, closer, taken, readerVars>>
streamVars == <<hubVars, endVars>>

ClientTypeOK ==
  /\ wire \in [Clients -> Seq(Seq(Events) \ {<<>>})]
  /\ conn \in [Clients -> {"none", "open", "closed"}]
  /\ {done, closed} \subseteq [Clients -> BOOLEAN]
  /\ closer \in [Clients -> {"no", "signaled", "over"}]
  /\ ws \in [Clients -> {"off", "select", "read", "put", "drop", "send", "end", "done"}]
  /\ hand \in [Clients -> 0..MaxEvents]
  /\ {events, taken} \subseteq [Clients -> Seq(Events)]
  /\ {skipped, overrun} \subseteq [Clients -> SUBSET Events]

ClientInit ==
  /\ wire = [c \in Clients |-> <<>>]
  /\ conn = [c \in Clients |-> "none"]
  /\ done = [c \in Clients |-> FALSE]
  /\ closer = [c \in Clients |-> "no"]
  /\ ws = [c \in Clients |-> "off"]
  /\ hand = [c \in Clients |-> 0]
  /\ events = wire /\ taken = wire
  /\ closed = done
  /\ skipped = [c \in Clients |-> {}]
  /\ overrun = skipped

(***************************************************************************)
(* Connect dials while it holds the mutex, then replaces the done channel  *)
(* and starts readLoop.  (A dial that fails leaves nothing behind.)        *)
(***************************************************************************)
Dial(c) ==
  /\ conn[c] = "none"
  /\ Connect(c)
  /\ conn' = [conn EXCEPT ![c] = "open"]
  /\ done' = [done EXCEPT ![c] = FALSE]
  /\ ws' = [ws EXCEPT ![c] = "select"]
  /\ UNCHANGED <<wire, closer, taken, hand, events, closed, skipped, overrun>>

InClient == UNCHANGED hubVars

(***************************************************************************)
(* Close, once: the done channel first, then the connection if there is    *)
(* one.                                                                    *)
(***************************************************************************)
CloseSignal(c) ==
  /\ closer[c] = "no"
  /\ closer' = [closer EXCEPT ![c] = "signaled"]
  /\ done' = [done EXCEPT ![c] = TRUE]
  /\ UNCHANGED <<wire, conn, taken, readerVars>>
  /\ InClient

\* Variant: only the done channel is closed.
CloseNothing(c) ==
  /\ closer[c] = "signaled"
  /\ closer' = [closer EXCEPT ![c] = "over"]
  /\ UNCHANGED <<wire, conn, done, taken, readerVars>>
  /\ InClient

CloseConn(c) ==
  /\ closer[c] = "signaled"
  /\ closer' = [closer EXCEPT ![c] = "over"]
  /\ conn' = [conn EXCEPT ![c] = IF @ = "open" THEN "closed" ELSE @]
  /\ UNCHANGED <<wire, done, taken, readerVars>>
  /\ InClient

(***************************************************************************)
(* readLoop.                                                               *)
(***************************************************************************)
Reader(c, pc, next) ==
  /\ ws[c] = pc
  /\ ws' = [ws EXCEPT ![c] = next]
  /\ UNCHANGED <<conn, done, closer, taken>>
  /\ InClient

LookAtDone(c) ==
  /\ Reader(c, "select", IF done[c] THEN "end" ELSE "read")
  /\ UNCHANGED <<wire, hand, events, closed, skipped, overrun>>

NextMessage(c) == conn[c] = "open" /\ wire[c] # <<>>

TakeMessage(c) == wire' = [wire EXCEPT ![c] = Tail(@)]

ReadEvent(c) ==
  /\ Reader(c, "read", "put")
  /\ NextMessage(c)
  /\ Len(Head(wire[c])) = 1
  /\ hand' = [hand EXCEPT ![c] = Head(Head(wire[c]))]
  /\ TakeMessage(c)
  /\ UNCHANGED <<events, closed, skipped, overrun>>

InMessage(m) == {m[i] : i \in DOMAIN m}

\* "Skip malformed messages".
SkipMessage(c) ==
  /\ Reader(c, "read", "select")
  /\ NextMessage(c)
  /\ Len(Head(wire[c])) > 1
  /\ skipped' = [skipped EXCEPT ![c] = @ \union InMessage(Head(wire[c]))]
  /\ TakeMessage(c)
  /\ UNCHANGED <<hand, events, closed, overrun>>

\* Close was called, the hub has closed its end, or the network failed.
ReadError(c) ==
  /\ Reader(c, "read", "end")
  /\ UNCHANGED <<wire, hand, events, closed, skipped, overrun>>

HasSpace(c) == Len(events[c]) < ClientCap

Deliver(c) ==
  /\ events' = [events EXCEPT ![c] = Append(@, hand[c])]
  /\ hand' = [hand EXCEPT ![c] = 0]
  /\ UNCHANGED <<wire, closed, skipped, overrun>>

\* Variant: a full channel is passed over and the event with it.
PutForgets(c) ==
  /\ Reader(c, "put", "select")
  /\ hand' = [hand EXCEPT ![c] = 0]
  /\ UNCHANGED <<wire, events, closed, skipped, overrun>>

Put(c) == Reader(c, "put", "select") /\ HasSpace(c) /\ Deliver(c)

\* Variant: the loop returns past the deferred function.
ReturnAtOnce(c) ==
  /\ Reader(c, "put", "done")
  /\ done[c]
  /\ hand' = [hand EXCEPT ![c] = 0]
  /\ UNCHANGED <<wire, events, closed, skipped, overrun>>

PutStopped(c) ==
  /\ Reader(c, "put", "end")
  /\ done[c]
  /\ hand' = [hand EXCEPT ![c] = 0]
  /\ UNCHANGED <<wire, events, closed, skipped, overrun>>

PutFull(c) ==
  /\ Reader(c, "put", "drop")
  /\ ~ HasSpace(c) /\ ~ done[c]
  /\ UNCHANGED <<wire, hand, events, closed, skipped, overrun>>

\* Variant: the new event is the one that is dropped.
DropNewest(c) ==
  /\ Reader(c, "drop", "select")
  /\ hand' = [hand EXCEPT ![c] = 0]
  /\ overrun' = [overrun EXCEPT ![c] = @ \union {hand[c]}]
  /\ UNCHANGED <<wire, events, closed, skipped>>

\* "Channel full, drop oldest event": by now it may be full no longer.
DropOldest(c) ==
  /\ Reader(c, "drop", "send")
  /\ IF events[c] = <<>>
     THEN UNCHANGED <<events, overrun>>
     ELSE /\ events' = [events EXCEPT ![c] = Tail(@)]
          /\ overrun' = [overrun EXCEPT ![c] = @ \union {Head(events[c])}]
  /\ UNCHANGED <<wire, hand, closed, skipped>>

\* A send without a select.
SendAfterDrop(c) == Reader(c, "send", "select") /\ HasSpace(c) /\ Deliver(c)

\* The deferred function: connected is reset, the events channel closed.
CloseEvents(c) ==
  /\ Reader(c, "end", "done")
  /\ closed' = [closed EXCEPT ![c] = TRUE]
  /\ UNCHANGED <<wire, hand, events, skipped, overrun>>

ReadLoop(c) ==
  \/ LookAtDone(c) \/ ReadEvent(c) \/ SkipMessage(c)
  \/ Put(c) \/ PutStopped(c) \/ PutFull(c) \/ DropOldest(c) \/ SendAfterDrop(c)
  \/ CloseEvents(c)

\* The application receives from the channel.
Receive(c) ==
  /\ events[c] # <<>>
  /\ taken' = [taken EXCEPT ![c] = Append(@, Head(events[c]))]
  /\ events' = [events EXCEPT ![c] = Tail(@)]
  /\ UNCHANGED <<wire, conn, done, closer, ws, hand, closed, skipped, overrun>>
  /\ InClient

(***************************************************************************)
(* What WritePump writes at once is one message.                           *)
(***************************************************************************)
Written(c) == SubSeq(got'[c], Len(got[c]) + 1, Len(got'[c]))

OnTheWire ==
  wire' = [c \in Clients |-> IF got'[c] = got[c] THEN wire[c] ELSE Append(wire[c], Written(c))]

HubStep ==
  /\ HubNext
  /\ \A c \in Clients : reader[c] = "none" => reader'[c] = "none"
  /\ OnTheWire
  /\ UNCHANGED <<conn, done, closer, taken, readerVars>>

ClientStep(c) ==
  \/ Dial(c) \/ CloseSignal(c) \/ CloseConn(c)
  \/ ReadLoop(c) \/ ReadError(c) \/ Receive(c)

StreamNext == HubStep \/ \E c \in Clients : ClientStep(c)

StreamInit == HubInit /\ ClientInit

StreamSpec == StreamInit /\ [][StreamNext]_streamVars

(***************************************************************************)
(* The select of the hub picks at random among the ready cases, so none    *)
(* that is ready again and again is passed over for ever; the goroutines   *)
(* run; reads and writes of a closed connection fail, and a write ends at  *)
(* its deadline.  readLoop and a Close that was called run on; its read    *)
(* fails when Close has closed the connection, or the hub has and the last *)
(* message was read.  No event, client or signal need come, and the        *)
(* application owes nothing, not even to receive.                          *)
(***************************************************************************)
AtHub(A) == A /\ OnTheWire /\ UNCHANGED <<conn, done, closer, taken, readerVars>>

ReadMustFail(c) ==
  /\ conn[c] = "closed" \/ (~ open[c] /\ wire[c] = <<>>)
  /\ ReadError(c)

FairStreamSpec ==
  /\ StreamSpec
  /\ WF_streamVars(AtHub(StopReturn))
  /\ WF_streamVars(AtHub(ForwardReceive \/ ForwardSend)) /\ SF_streamVars(AtHub(ForwardStop))
  /\ SF_streamVars(AtHub(HubBroadcast)) /\ SF_streamVars(AtHub(HubStop))
  /\ \A c \in Clients :
       /\ SF_streamVars(AtHub(HubUnregister(c)))
       /\ WF_streamVars(AtHub(ReadEnd(c))) /\ WF_streamVars(~ open[c] /\ AtHub(ReadFails(c)))
       /\ WF_streamVars(AtHub(WriteTake(c) \/ Write(c) \/ WriteClosed(c)
                               \/ (~ open[c] /\ WriteFails(c))))
       /\ WF_streamVars(ReadLoop(c) \/ ReadMustFail(c))
       /\ WF_streamVars(CloseConn(c))

(***************************************************************************)
(* Properties.                                                             *)
(***************************************************************************)

\* readLoop holds an event only between the decoding and the channel, and runs
\* from the dial until the channel is closed, which happens once (Connect,
\* readLoop).
ClientInv ==
  /\ ClientTypeOK
  /\ \A c \in Clients :
       /\ hand[c] # 0 <=> ws[c] \in {"put", "drop", "send"}
       /\ Len(events[c]) <= ClientCap
       /\ ws[c] = "off" <=> conn[c] = "none"
       /\ closed[c] <=> ws[c] = "done"
       /\ reader[c] = "none" <=> conn[c] = "none"

InHand(c) == IF hand[c] = 0 THEN <<>> ELSE <<hand[c]>>

Seen(c) == taken[c] \o events[c] \o InHand(c)

\* The application sees events in the order they were published, each at most once,
\* and when its channel overflows it is the older events that go: what it will
\* receive next is newer than anything dropped (the drop-oldest branch of readLoop,
\* racing the receiver).
FreshView ==
  \A c \in Clients :
    /\ \A i, j \in DOMAIN Seen(c) : i < j => Seen(c)[i] < Seen(c)[j]
    /\ \A e \in overrun[c] : Seen(c) # <<>> /\ e < Seen(c)[Len(Seen(c))]

OnWire(c) == UNION {InMessage(wire[c][i]) : i \in DOMAIN wire[c]}

\* As long as both ends work, every event broadcast since the client was registered
\* is on its way, in one of the buffers, received, dropped by an overflow of the
\* events channel, or part of a message the client skipped: no other step loses one
\* (broadcastEvent, WritePump, readLoop).
EveryEventAccounted ==
  \A c \in clients \ missed :
    writer[c] # "done" /\ ws[c] \notin {"end", "done"} =>
      InMessage(SubSeq(sent, joined[c] + 1, Len(sent)))
        \subseteq InMessage(send[c] \o batch[c] \o Seen(c)) \union OnWire(c)
                  \union overrun[c] \union skipped[c]

(***************************************************************************)
(* The inductive invariant behind these three.                             *)
(***************************************************************************)
Before(A, B) == \A a \in A, b \in B : a < b

Increasing(s) == \A i, j \in DOMAIN s : i < j => s[i] < s[j]

Waiting == InMessage(broadcast) \union ({held} \ {0}) \union InMessage(eventCh)

\* Events pass the channels in the order of their numbers, up to the peer.
FeedOrder ==
  /\ Increasing(eventCh) /\ Increasing(broadcast)
  /\ Before(InMessage(broadcast), {held} \ {0})
  /\ Before(InMessage(broadcast) \union ({held} \ {0}), InMessage(eventCh))
  /\ \A e \in Waiting : e <= published

Handled(c) == InMessage(got[c]) \union InMessage(batch[c]) \union InMessage(send[c])

ServedOrder(c) ==
  /\ Increasing(send[c])
  /\ Before(InMessage(batch[c]), InMessage(send[c]))
  /\ Before(InMessage(got[c]), InMessage(batch[c]) \union InMessage(send[c]))
  /\ Before(Handled(c), Waiting)
  /\ \A e \in Handled(c) : e <= published

Stored(c) == taken[c] \o events[c]

\* What the client holds or has dropped came with a message before those still on
\* the wire, and the event in hand is the newest.
ClientOrder(c) ==
  LET old == InMessage(Stored(c)) \union overrun[c]
      new == {hand[c]} \ {0}
  IN  /\ Increasing(Stored(c))
      /\ Before(old, new)
      /\ ws[c] # "send" => \A e \in overrun[c] : \E x \in InMessage(Stored(c)) : e < x
      /\ Before(old \union new, OnWire(c))
      /\ \A i, j \in DOMAIN wire[c] :
           i < j => Before(InMessage(wire[c][i]), InMessage(wire[c][j]))
      /\ old \union new \union OnWire(c) \subseteq InMessage(got[c])

\* What the peer was sent is somewhere, as long as readLoop has met no error.
GotAccounted(c) ==
  ws[c] \notin {"end", "done"} =>
    InMessage(got[c]) \subseteq InMessage(Stored(c)) \union ({hand[c]} \ {0})
                               \union OnWire(c) \union overrun[c] \union skipped[c]

StreamIInv ==
  /\ HubIInv /\ ClientInv /\ FeedOrder
  /\ \A c \in Clients : ServedOrder(c) /\ ClientOrder(c) /\ GotAccounted(c)

(***************************************************************************)
(* Liveness.                                                               *)
(***************************************************************************)

\* A client the hub gave up because it was too slow is told so in the end: its events
\* channel is closed, also when its application does not receive (broadcastEvent,
\* Unregister, the !ok case of WritePump, the error of ReadMessage, close(ws.events)).
MissedIsTold == \A c \in Clients : c \in missed ~> closed[c]

\* Close on a connected client ends readLoop and closes the events channel, whether
\* or not the application receives and the hub answers (Close, readLoop).
CloseEnds ==
  \A c \in Clients : closer[c] = "signaled" /\ conn[c] = "open" ~> closed[c]

(***************************************************************************)
(* What the documentation promises and the code does not keep.             *)
(***************************************************************************)

\* An event the server writes is an event the client decodes (docs/api.md:307,
\* "Events are pushed as JSON messages").  WritePump joins what is queued with a
\* newline into one message, which json.Unmarshal rejects as a whole.
MessagesAreDecoded == \A c \in Clients : skipped[c] = {}

=============================================================================
