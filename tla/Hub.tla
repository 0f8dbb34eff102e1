--------------------------------- MODULE Hub ---------------------------------
(***************************************************************************)
(* The WebSocket hub of an API server (internal/api/websocket): the        *)
(* forwarder that takes events from the Redis subscription to the          *)
(* broadcast channel, the hub goroutine with the set of clients, and the   *)
(* two pumps of every connection.  Go channels are sequences with a        *)
(* capacity; a send on an unbuffered channel and its receive are one step. *)
(*                                                                         *)
(* Events are numbered in the order Redis hands them over.  All clients    *)
(* subscribe to all types (ServeWS), so types play no role.                *)
(***************************************************************************)
EXTENDS Integers, Sequences, FiniteSets

CONSTANTS
  Clients,       \* connections that may come
  MaxEvents,     \* bound on the events published
  EventCap,      \* capacity of the subscription's channel (100)
  BroadcastCap,  \* capacity of Hub.broadcast (256)
  SendCap        \* capacity of Client.send (256)

ASSUME HubAssumption ==
  /\ MaxEvents \in Nat
  /\ {EventCap, BroadcastCap, SendCap} \subseteq Nat \ {0}

VARIABLES
  run,        \* Hub.Run: "starting", "running", or "failed" to subscribe
  stop,       \* Hub.Stop: "no", "waiting", "returned"
  published,
  eventCh,
  fwd, held,  \* the forwarder and the event it is about to send
  broadcast,
  hub,        \* the hub goroutine
  clients,    \* Hub.clients
  sent,       \* the events broadcast so far
  send,       \* Client.send
  closes,     \* how often Client.send was closed
  leavers,    \* goroutines of broadcastEvent waiting to unregister the client
  reader,     \* ServeWS up to Register, then ReadPump
  writer,     \* WritePump
  batch,      \* what WritePump has taken off the channel
  open,       \* the connection
  got,        \* what the peer was sent
  joined,     \* Len(sent) when the client was registered
  missed      \* clients whose buffer was full

feedVars   == <<run, stop, published, eventCh, fwd, held>>
clientVars == <<reader, writer, batch, open, got>>
viewVars   == <<sent, send, joined, missed>>
hubVars    == <<feedVars, broadcast, hub, clients, closes, leavers, viewVars, clientVars>>

Events == 1..MaxEvents

HubTypeOK ==
  /\ run \in {"starting", "running", "failed"}
  /\ stop \in {"no", "waiting", "returned"}
  /\ published \in 0..MaxEvents
  /\ {eventCh, broadcast, sent} \subseteq Seq(Events)
  /\ fwd \in {"off", "select", "send", "done"}
  /\ held \in 0..MaxEvents
  /\ hub \in {"off", "select", "done"}
  /\ clients \subseteq Clients /\ missed \subseteq Clients
  /\ {send, batch, got} \subseteq [Clients -> Seq(Events)]
  /\ {closes, leavers, joined} \subseteq [Clients -> Nat]
  /\ reader \in [Clients -> {"none", "register", "read", "unregister", "close", "done"}]
  /\ writer \in [Clients -> {"off", "select", "write", "done"}]
  /\ open \in [Clients -> BOOLEAN]

HubInit ==
  /\ run = "starting" /\ stop = "no"
  /\ published = 0 /\ eventCh = <<>>
  /\ fwd = "off" /\ held = 0
  /\ broadcast = <<>>
  /\ hub = "off" /\ clients = {}
  /\ sent = <<>> /\ missed = {}
  /\ send = [c \in Clients |-> <<>>]
  /\ batch = send /\ got = send
  /\ closes = [c \in Clients |-> 0]
  /\ leavers = closes /\ joined = closes
  /\ reader = [c \in Clients |-> "none"]
  /\ writer = [c \in Clients |-> "off"]
  /\ open = [c \in Clients |-> FALSE]

(***************************************************************************)
(* Run and Stop.                                                           *)
(***************************************************************************)
Start(result, pc) ==
  /\ run = "starting"
  /\ run' = result
  /\ fwd' = pc /\ hub' = pc
  /\ UNCHANGED <<stop, published, eventCh, held, broadcast, clients, closes,
                 leavers, viewVars, clientVars>>

Subscribe == Start("running", "select")

SubscribeFails == Start("failed", "off")

Stopping == stop # "no"

CloseStop ==
  /\ stop = "no"
  /\ stop' = "waiting"
  /\ UNCHANGED <<run, published, eventCh, fwd, held, broadcast, hub, clients, closes,
                 leavers, viewVars, clientVars>>

StopReturn ==
  /\ stop = "waiting"
  /\ {fwd, hub} \subseteq {"off", "done"}
  /\ stop' = "returned"
  /\ UNCHANGED <<run, published, eventCh, fwd, held, broadcast, hub, clients, closes,
                 leavers, viewVars, clientVars>>

(***************************************************************************)
(* The way of an event: subscription, forwarder, hub.                      *)
(***************************************************************************)
Forwarding(pc) ==
  /\ fwd' = pc
  /\ UNCHANGED <<run, stop, hub, clients, closes, leavers, viewVars, clientVars>>

\* The goroutine of SubscribeAll: an event that finds the channel full is dropped.
Publish ==
  /\ run = "running"
  /\ published < MaxEvents
  /\ published' = published + 1
  /\ eventCh' = IF Len(eventCh) < EventCap THEN Append(eventCh, published + 1)
                                           ELSE eventCh
  /\ Forwarding(fwd)
  /\ UNCHANGED <<held, broadcast>>

ForwardReceive ==
  /\ fwd = "select"
  /\ eventCh # <<>>
  /\ held' = Head(eventCh)
  /\ eventCh' = Tail(eventCh)
  /\ Forwarding("send")
  /\ UNCHANGED <<published, broadcast>>

\* A send without a select: nothing but a receive lets the forwarder go on.
ForwardSend ==
  /\ fwd = "send"
  /\ Len(broadcast) < BroadcastCap
  /\ broadcast' = Append(broadcast, held)
  /\ held' = 0
  /\ Forwarding("select")
  /\ UNCHANGED <<published, eventCh>>

\* Variant: stopCh is looked at when an event has come.
ForwardStopLate ==
  /\ fwd = "select"
  /\ Stopping /\ eventCh # <<>>
  /\ Forwarding("done")
  /\ UNCHANGED <<published, eventCh, held, broadcast>>

ForwardStop ==
  /\ fwd = "select"
  /\ Stopping
  /\ Forwarding("done")
  /\ UNCHANGED <<published, eventCh, held, broadcast>>

(***************************************************************************)
(* The hub goroutine: the cases of its select.                             *)
(***************************************************************************)
\* ServeWS starts the pumps when Register returns.
HubRegister(c) ==
  /\ hub = "select"
  /\ reader[c] = "register"
  /\ clients' = clients \union {c}
  /\ joined' = [joined EXCEPT ![c] = Len(sent)]
  /\ reader' = [reader EXCEPT ![c] = "read"]
  /\ writer' = [writer EXCEPT ![c] = "select"]
  /\ UNCHANGED <<feedVars, broadcast, hub, closes, leavers, sent, send, missed,
                 batch, open, got>>

\* Variant: the client stays in the map.
CloseOnly(c) ==
  /\ closes' = [closes EXCEPT ![c] = IF c \in clients THEN @ + 1 ELSE @]
  /\ UNCHANGED clients

Remove(c) ==
  /\ closes' = [closes EXCEPT ![c] = IF c \in clients THEN @ + 1 ELSE @]
  /\ clients' = clients \ {c}

HubUnregister(c) ==
  /\ hub = "select"
  /\ \/ /\ reader[c] = "unregister"
        /\ reader' = [reader EXCEPT ![c] = "close"]
        /\ UNCHANGED leavers
     \/ /\ leavers[c] > 0
        /\ leavers' = [leavers EXCEPT ![c] = @ - 1]
        /\ UNCHANGED reader
  /\ Remove(c)
  /\ UNCHANGED <<feedVars, broadcast, hub, viewVars, writer, batch, open, got>>

HasRoom(c) == Len(send[c]) < SendCap

\* Variant: the event is dropped and that is all.
DropFor(full) == leavers' = leavers

\* One goroutine per client without room, blocked on the hub's own channel.
UnregisterLater(full) ==
  leavers' = [c \in Clients |-> IF c \in full THEN leavers[c] + 1 ELSE leavers[c]]

HubBroadcast ==
  /\ hub = "select"
  /\ broadcast # <<>>
  /\ broadcast' = Tail(broadcast)
  /\ sent' = Append(sent, Head(broadcast))
  /\ send' = [c \in Clients |->
       IF c \in clients /\ HasRoom(c) THEN Append(send[c], Head(broadcast)) ELSE send[c]]
  /\ LET full == {c \in clients : ~ HasRoom(c)}
     IN  UnregisterLater(full) /\ missed' = missed \union full
  /\ UNCHANGED <<feedVars, hub, clients, closes, joined, clientVars>>

\* closeAllClients.
HubStop ==
  /\ hub = "select"
  /\ Stopping
  /\ hub' = "done"
  /\ closes' = [c \in Clients |-> IF c \in clients THEN closes[c] + 1 ELSE closes[c]]
  /\ clients' = {}
  /\ UNCHANGED <<feedVars, broadcast, leavers, viewVars, clientVars>>

(***************************************************************************)
(* A connection.  Peers leave, fall silent or stop reading when they like; *)
(* a write that does not get through fails at its deadline.                *)
(***************************************************************************)
InHub == UNCHANGED <<feedVars, broadcast, hub, clients, closes, leavers, sent, joined, missed>>

\* Variant: ServeWS starts the writer before it registers the client.
ConnectEarly(c) ==
  /\ reader[c] = "none"
  /\ reader' = [reader EXCEPT ![c] = "register"]
  /\ writer' = [writer EXCEPT ![c] = "select"]
  /\ open' = [open EXCEPT ![c] = TRUE]
  /\ UNCHANGED <<send, batch, got>>
  /\ InHub

Connect(c) ==
  /\ reader[c] = "none"
  /\ reader' = [reader EXCEPT ![c] = "register"]
  /\ open' = [open EXCEPT ![c] = TRUE]
  /\ UNCHANGED <<send, writer, batch, got>>
  /\ InHub

ReadFails(c) ==
  /\ reader[c] = "read"
  /\ reader' = [reader EXCEPT ![c] = "unregister"]
  /\ UNCHANGED <<send, writer, batch, open, got>>
  /\ InHub

ReadEnd(c) ==
  /\ reader[c] = "close"
  /\ reader' = [reader EXCEPT ![c] = "done"]
  /\ open' = [open EXCEPT ![c] = FALSE]
  /\ UNCHANGED <<send, writer, batch, got>>
  /\ InHub

WriteTake(c) ==
  /\ writer[c] = "select"
  /\ send[c] # <<>>
  /\ batch' = [batch EXCEPT ![c] = <<Head(send[c])>>]
  /\ send' = [send EXCEPT ![c] = Tail(@)]
  /\ writer' = [writer EXCEPT ![c] = "write"]
  /\ UNCHANGED <<reader, open, got>>
  /\ InHub

\* Variant: the queued messages are written and left in the channel.
WriteKept(c) ==
  /\ writer[c] = "write"
  /\ open[c]
  /\ got' = [got EXCEPT ![c] = @ \o batch[c] \o send[c]]
  /\ batch' = [batch EXCEPT ![c] = <<>>]
  /\ writer' = [writer EXCEPT ![c] = "select"]
  /\ UNCHANGED <<reader, send, open>>
  /\ InHub

\* What is queued by then goes into the same message.
Write(c) ==
  /\ writer[c] = "write"
  /\ open[c]
  /\ got' = [got EXCEPT ![c] = @ \o batch[c] \o send[c]]
  /\ send' = [send EXCEPT ![c] = <<>>]
  /\ batch' = [batch EXCEPT ![c] = <<>>]
  /\ writer' = [writer EXCEPT ![c] = "select"]
  /\ UNCHANGED <<reader, open>>
  /\ InHub

\* Variant: the connection is left to the reader.
WriteEndOpen(c) ==
  /\ writer' = [writer EXCEPT ![c] = "done"]
  /\ UNCHANGED <<reader, batch, open, got>>
  /\ InHub

WriteEnd(c) ==
  /\ writer' = [writer EXCEPT ![c] = "done"]
  /\ open' = [open EXCEPT ![c] = FALSE]
  /\ UNCHANGED <<reader, batch, got>>
  /\ InHub

\* The ping or NextWriter, or Close after the queued messages were taken.
WriteFails(c) ==
  /\ \/ writer[c] \in {"select", "write"} /\ UNCHANGED send
     \/ writer[c] = "write" /\ send' = [send EXCEPT ![c] = <<>>]
  /\ WriteEnd(c)

WriteClosed(c) ==
  /\ writer[c] = "select"
  /\ send[c] = <<>> /\ closes[c] > 0
  /\ WriteEnd(c)
  /\ UNCHANGED send

HubNext ==
  \/ Subscribe \/ SubscribeFails \/ CloseStop \/ StopReturn
  \/ Publish \/ ForwardReceive \/ ForwardSend \/ ForwardStop
  \/ HubBroadcast \/ HubStop
  \/ \E c \in Clients :
       \/ HubRegister(c) \/ HubUnregister(c)
       \/ Connect(c) \/ ReadFails(c) \/ ReadEnd(c)
       \/ WriteTake(c) \/ Write(c) \/ WriteFails(c) \/ WriteClosed(c)

HubSpec == HubInit /\ [][HubNext]_hubVars

(***************************************************************************)
(* Properties.                                                             *)
(***************************************************************************)

\* What the places of the goroutines say about what they hold: the pumps run only
\* for clients the hub has taken on, and a channel never holds more than it can
\* (ServeWS, Run, WritePump).
HubInv ==
  /\ HubTypeOK
  /\ held # 0 <=> fwd = "send"
  /\ Len(eventCh) <= EventCap /\ Len(broadcast) <= BroadcastCap
  /\ \A c \in Clients :
       /\ writer[c] = "off" <=> reader[c] \in {"none", "register"}
       /\ writer[c] = "off" => c \notin clients
       /\ writer[c] = "select" => batch[c] = <<>>
       /\ Len(send[c]) <= SendCap

\* The send channel of a client is closed at most once, and never while the hub
\* may still send on it: either would be a panic of the whole server (the map is
\* asked before close, and the entry removed with it).
ClosedOnce ==
  \A c \in Clients : closes[c] + (IF c \in clients THEN 1 ELSE 0) <= 1

\* A client that was skipped because its buffer was full does not go on as if
\* nothing had happened: its removal is under way (broadcastEvent).
NoSilentGap == \A c \in clients \intersect missed : leavers[c] > 0

\* What a client was sent, is being sent and has in its buffer is exactly what
\* was broadcast since it registered, in order, until the hub gives it up
\* (broadcastEvent; the drain loop of WritePump).
CompleteView ==
  \A c \in clients \ missed :
    writer[c] # "done" =>
      got[c] \o batch[c] \o send[c] = SubSeq(sent, joined[c] + 1, Len(sent))

(***************************************************************************)
(* The inductive invariant behind these four.                              *)
(***************************************************************************)

\* Before Subscribe has returned no goroutine runs, and a client the hub has not
\* taken on yet has no history: a channel is registered, closed and given up once.
Unserved ==
  /\ run = "starting" => fwd = "off" /\ hub = "off"
  /\ \A c \in Clients :
       /\ joined[c] <= Len(sent)
       /\ writer[c] = "off" =>
            /\ closes[c] = 0 /\ c \notin missed
            /\ send[c] = <<>> /\ batch[c] = <<>> /\ got[c] = <<>>

HubIInv == HubInv /\ Unserved /\ ClosedOnce /\ NoSilentGap /\ CompleteView

(***************************************************************************)
(* Liveness, under the fairness of EventClient.                            *)
(***************************************************************************)

\* Both pumps of a connection that broke end, as long as the hub runs: none waits
\* for the other for ever (ReadPump's deferred Unregister, WritePump's !ok case).
PumpsEnd ==
  \A c \in Clients :
    reader[c] = "unregister" \/ writer[c] = "done" ~>
      hub = "done" \/ (reader[c] = "done" /\ writer[c] = "done")

\* Stop returns, unless the forwarder stands before a full broadcast channel that
\* the hub goroutine has left (Stop; the send at hub.go:58).
StopReturns ==
  stop = "waiting" ~>
    \/ stop = "returned"
    \/ hub = "done" /\ fwd = "send" /\ Len(broadcast) = BroadcastCap

=============================================================================
