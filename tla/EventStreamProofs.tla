-------------------------- MODULE EventStreamProofs --------------------------
(***************************************************************************)
(* Proofs about Hub, alone and composed with EventClient, for any clients  *)
(* and events and any capacities of the channels on both ends.             *)
(***************************************************************************)
EXTENDS EventClient, SequenceTheorems, TLAPS

(***************************************************************************)
(* Channels.                                                               *)
(***************************************************************************)

\* A receive takes the first element, a send adds one at the end.
LEMMA ChannelOps ==
  ASSUME NEW S, NEW s \in Seq(S)
  PROVE  /\ Len(s) \in Nat
         /\ s # <<>> => /\ Head(s) \in S
                        /\ Tail(s) \in Seq(S)
                        /\ Len(Tail(s)) = Len(s) - 1
         /\ \A e \in S : Append(s, e) \in Seq(S) /\ Len(Append(s, e)) = Len(s) + 1
  <1>1. Len(s) \in Nat
    OBVIOUS
  <1>2. s # <<>> => Head(s) \in S /\ Tail(s) \in Seq(S) /\ Len(Tail(s)) = Len(s) - 1
    BY HeadTailProperties
  <1>3. \A e \in S : Append(s, e) \in Seq(S) /\ Len(Append(s, e)) = Len(s) + 1
    BY AppendProperties
  <1> QED BY <1>1, <1>2, <1>3

(***************************************************************************)
(* Types and control.                                                      *)
(***************************************************************************)

\* The hub starts with empty channels and no client.
LEMMA HubInitInv == HubInit => HubIInv
  <1> SUFFICES ASSUME HubInit PROVE HubIInv
    OBVIOUS
  <1> USE HubAssumption DEF HubInit
  <1>1. <<>> \in Seq(Events) /\ Len(<<>>) = 0
    OBVIOUS
  <1>2. HubTypeOK
    BY <1>1 DEF HubTypeOK
  <1>3. HubInv /\ Unserved
    BY <1>1, <1>2 DEF HubInv, Unserved
  <1>4. ClosedOnce /\ NoSilentGap /\ CompleteView
    BY DEF ClosedOnce, NoSilentGap, CompleteView
  <1> QED BY <1>3, <1>4 DEF HubIInv

\* Run, Stop, the forwarder and the subscription leave the clients alone.
LEMMA FeedStep ==
  ASSUME HubInv, Unserved,
         \/ Subscribe \/ SubscribeFails \/ CloseStop \/ StopReturn
         \/ Publish \/ ForwardReceive \/ ForwardSend \/ ForwardStop
  PROVE  HubInv' /\ Unserved'
  <1> USE HubAssumption
  <1>1. UNCHANGED <<clients, closes, leavers, viewVars, clientVars>>
    BY DEF Subscribe, SubscribeFails, Start, CloseStop, StopReturn, Publish, ForwardReceive,
           ForwardSend, ForwardStop, Forwarding
  <1>2. /\ HubTypeOK
        /\ held # 0 <=> fwd = "send"
        /\ Len(eventCh) <= EventCap /\ Len(broadcast) <= BroadcastCap
        /\ run = "starting" => fwd = "off" /\ hub = "off"
    BY DEF HubInv, Unserved
  <1>3. eventCh \in Seq(Events) /\ broadcast \in Seq(Events) /\ held \in 0..MaxEvents
    BY <1>2 DEF HubTypeOK
  <1>4. /\ run' \in {"starting", "running", "failed"}
        /\ stop' \in {"no", "waiting", "returned"}
        /\ published' \in 0..MaxEvents
        /\ {eventCh', broadcast'} \subseteq Seq(Events)
        /\ fwd' \in {"off", "select", "send", "done"}
        /\ held' \in 0..MaxEvents
        /\ hub' \in {"off", "select", "done"}
        /\ held' # 0 <=> fwd' = "send"
        /\ Len(eventCh') <= EventCap /\ Len(broadcast') <= BroadcastCap
        /\ run' = "starting" => fwd' = "off" /\ hub' = "off"
    <2>1. CASE Subscribe \/ SubscribeFails
      BY <1>2, <2>1 DEF Subscribe, SubscribeFails, Start, HubTypeOK
    <2>2. CASE CloseStop \/ StopReturn
      BY <1>2, <2>2 DEF CloseStop, StopReturn, HubTypeOK
    <2>3. CASE Publish
      <3>1. published + 1 \in Events
        BY <1>2, <2>3 DEF Publish, HubTypeOK, Events
      <3>2. eventCh' \in Seq(Events) /\ Len(eventCh') <= EventCap
        BY <1>2, <1>3, <2>3, <3>1, ChannelOps DEF Publish
      <3> QED BY <1>2, <2>3, <3>1, <3>2 DEF Publish, Forwarding, HubTypeOK, Events
    <2>4. CASE ForwardReceive
      <3>1. /\ Head(eventCh) \in Events
            /\ Tail(eventCh) \in Seq(Events)
            /\ Len(Tail(eventCh)) <= EventCap
        BY <1>2, <1>3, <2>4, ChannelOps DEF ForwardReceive
      <3> QED BY <1>2, <2>4, <3>1 DEF ForwardReceive, Forwarding, HubTypeOK, Events
    <2>5. CASE ForwardSend
      <3>1. held \in Events
        BY <1>2, <1>3, <2>5 DEF ForwardSend, Events
      <3>2. broadcast' \in Seq(Events) /\ Len(broadcast') <= BroadcastCap
        BY <1>2, <1>3, <2>5, <3>1, ChannelOps DEF ForwardSend
      <3> QED BY <1>2, <2>5, <3>2 DEF ForwardSend, Forwarding, HubTypeOK
    <2>6. CASE ForwardStop
      BY <1>2, <2>6 DEF ForwardStop, Forwarding, HubTypeOK
    <2> QED BY <2>1, <2>2, <2>3, <2>4, <2>5, <2>6
  <1>5. HubTypeOK'
    BY <1>1, <1>2, <1>4 DEF HubTypeOK, viewVars, clientVars
  <1> QED BY <1>1, <1>4, <1>5 DEF HubInv, Unserved, viewVars, clientVars

\* What HubInv and Unserved say about a single client.
ServedInv(c) ==
  /\ writer[c] = "off" <=> reader[c] \in {"none", "register"}
  /\ writer[c] = "off" => c \notin clients
  /\ writer[c] = "select" => batch[c] = <<>>
  /\ Len(send[c]) <= SendCap
  /\ joined[c] <= Len(sent)
  /\ writer[c] = "off" =>
       /\ closes[c] = 0 /\ c \notin missed
       /\ send[c] = <<>> /\ batch[c] = <<>> /\ got[c] = <<>>

\* The part of HubInv and Unserved that speaks of one client is ServedInv.
LEMMA ServedSplit ==
  HubInv /\ Unserved <=>
    /\ HubTypeOK
    /\ held # 0 <=> fwd = "send"
    /\ Len(eventCh) <= EventCap /\ Len(broadcast) <= BroadcastCap
    /\ run = "starting" => fwd = "off" /\ hub = "off"
    /\ \A c \in Clients : ServedInv(c)
  BY DEF HubInv, Unserved, ServedInv

\* What a step of the hub goroutine or of a connection leaves alone.
LEMMA FeedFrame ==
  ASSUME HubInv, Unserved, UNCHANGED feedVars,
         broadcast' \in Seq(Events), Len(broadcast') <= BroadcastCap,
         hub' = hub \/ (hub = "select" /\ hub' = "done"),
         sent' \in Seq(Events), clients' \subseteq Clients, missed' \subseteq Clients,
         {send', batch', got'} \subseteq [Clients -> Seq(Events)],
         {closes', leavers', joined'} \subseteq [Clients -> Nat],
         reader' \in [Clients -> {"none", "register", "read", "unregister", "close", "done"}],
         writer' \in [Clients -> {"off", "select", "write", "done"}],
         open' \in [Clients -> BOOLEAN],
         \A c \in Clients : ServedInv(c)'
  PROVE  HubInv' /\ Unserved'
  BY DEF HubInv, Unserved, HubTypeOK, ServedInv, feedVars

\* What a step of a connection leaves alone.
LEMMA ConnectionFrame ==
  ASSUME HubInv, Unserved, InHub,
         send' \in [Clients -> Seq(Events)],
         batch' \in [Clients -> Seq(Events)],
         got' \in [Clients -> Seq(Events)],
         reader' \in [Clients -> {"none", "register", "read", "unregister", "close", "done"}],
         writer' \in [Clients -> {"off", "select", "write", "done"}],
         open' \in [Clients -> BOOLEAN],
         \A c \in Clients : ServedInv(c)'
  PROVE  HubInv' /\ Unserved'
  <1>1. HubTypeOK /\ Len(broadcast) <= BroadcastCap
    BY DEF HubInv
  <1> QED BY <1>1, FeedFrame DEF InHub, HubTypeOK

\* The hub goroutine: a registration, an unregistration, a broadcast and the end.
LEMMA HubGoroutineStep ==
  ASSUME HubInv, Unserved,
         \/ HubBroadcast \/ HubStop
         \/ \E c \in Clients : HubRegister(c) \/ HubUnregister(c)
  PROVE  HubInv' /\ Unserved'
  <1> USE HubAssumption
  <1>1. /\ broadcast \in Seq(Events) /\ sent \in Seq(Events)
        /\ clients \subseteq Clients /\ missed \subseteq Clients
        /\ {send, batch, got} \subseteq [Clients -> Seq(Events)]
        /\ {closes, leavers, joined} \subseteq [Clients -> Nat]
        /\ reader \in [Clients -> {"none", "register", "read", "unregister", "close", "done"}]
        /\ writer \in [Clients -> {"off", "select", "write", "done"}]
        /\ open \in [Clients -> BOOLEAN]
    BY DEF HubInv, HubTypeOK
  <1>2. Len(broadcast) <= BroadcastCap /\ \A c \in Clients : ServedInv(c)
    BY ServedSplit
  <1>3. ASSUME NEW d \in Clients, HubRegister(d)
        PROVE  HubInv' /\ Unserved'
    <2>1. Len(sent) \in Nat
      BY <1>1
    <2>2. joined' \in [Clients -> Nat] /\ closes' = closes /\ leavers' = leavers
      BY <1>1, <1>3, <2>1 DEF HubRegister
    <2>3. ASSUME NEW c \in Clients PROVE ServedInv(c)'
      BY <1>1, <1>2, <1>3, <2>1 DEF HubRegister, ServedInv
    <2> QED BY <1>1, <1>2, <1>3, <2>2, <2>3, FeedFrame DEF HubRegister
  <1>4. ASSUME NEW d \in Clients, HubUnregister(d)
        PROVE  HubInv' /\ Unserved'
    <2>1. leavers' \in [Clients -> Nat]
      <3>1. CASE leavers[d] > 0 /\ leavers' = [leavers EXCEPT ![d] = @ - 1]
        <4>1. leavers[d] - 1 \in Nat
          BY <1>1, <3>1
        <4> QED BY <1>1, <3>1, <4>1
      <3>2. CASE UNCHANGED leavers
        BY <1>1, <3>2
      <3> QED BY <1>4, <3>1, <3>2 DEF HubUnregister
    <2>5. closes' \in [Clients -> Nat] /\ clients' \subseteq Clients
      BY <1>1, <1>4 DEF HubUnregister, Remove
    <2>2. reader' \in [Clients -> {"none", "register", "read", "unregister", "close", "done"}]
      BY <1>1, <1>4 DEF HubUnregister
    <2>3. ASSUME NEW c \in Clients PROVE ServedInv(c)'
      BY <1>1, <1>2, <1>4 DEF HubUnregister, Remove, ServedInv, viewVars
    <2>4. UNCHANGED <<feedVars, broadcast, hub, viewVars, writer, batch, open, got>>
      BY <1>4 DEF HubUnregister
    <2> QED BY <1>1, <1>2, <2>1, <2>2, <2>3, <2>4, <2>5, FeedFrame DEF viewVars
  <1>5. CASE HubBroadcast
    <2> DEFINE e == Head(broadcast)
    <2>1. /\ e \in Events
          /\ broadcast' \in Seq(Events) /\ Len(broadcast') <= BroadcastCap
          /\ sent' \in Seq(Events) /\ Len(sent') = Len(sent) + 1 /\ Len(sent) \in Nat
      BY <1>1, <1>2, <1>5, ChannelOps DEF HubBroadcast
    <2>2. \A c \in Clients : /\ Append(send[c], e) \in Seq(Events)
                             /\ Len(Append(send[c], e)) = Len(send[c]) + 1
                             /\ Len(send[c]) \in Nat
      BY <1>1, <2>1, ChannelOps
    <2>3. send' = [c \in Clients |->
                     IF c \in clients /\ HasRoom(c) THEN Append(send[c], e) ELSE send[c]]
      BY <1>5 DEF HubBroadcast
    <2> HIDE DEF e
    <2>4. /\ send' \in [Clients -> Seq(Events)]
          /\ \A c \in Clients : Len(send'[c]) <= SendCap
      BY <1>1, <1>2, <2>2, <2>3 DEF HasRoom, ServedInv
    <2>5. leavers' \in [Clients -> Nat] /\ missed' \subseteq Clients
      BY <1>1, <1>5 DEF HubBroadcast, UnregisterLater
    <2>6. /\ UNCHANGED <<feedVars, hub, clients, closes, joined, clientVars>>
          /\ missed' \subseteq missed \union clients
      BY <1>5 DEF HubBroadcast
    <2>7. ASSUME NEW c \in Clients PROVE ServedInv(c)'
      BY <1>1, <1>2, <2>1, <2>3, <2>4, <2>6 DEF ServedInv, clientVars
    <2> QED BY <1>1, <2>1, <2>4, <2>5, <2>6, <2>7, FeedFrame DEF clientVars
  <1>6. CASE HubStop
    <2>1. closes' \in [Clients -> Nat]
      BY <1>1, <1>6 DEF HubStop
    <2>2. ASSUME NEW c \in Clients PROVE ServedInv(c)'
      BY <1>1, <1>2, <1>6 DEF HubStop, ServedInv, viewVars, clientVars
    <2> QED BY <1>1, <1>2, <1>6, <2>1, <2>2, FeedFrame DEF HubStop, viewVars, clientVars
  <1> QED BY <1>3, <1>4, <1>5, <1>6

\* A connection: ServeWS, ReadPump and WritePump.
LEMMA ConnectionStep ==
  ASSUME HubInv, Unserved, NEW d \in Clients,
         \/ Connect(d) \/ ReadFails(d) \/ ReadEnd(d)
         \/ WriteTake(d) \/ Write(d) \/ WriteFails(d) \/ WriteClosed(d)
  PROVE  HubInv' /\ Unserved'
  <1> USE HubAssumption
  <1>1. /\ broadcast \in Seq(Events) /\ sent \in Seq(Events)
        /\ clients \subseteq Clients /\ missed \subseteq Clients
        /\ {send, batch, got} \subseteq [Clients -> Seq(Events)]
        /\ {closes, leavers, joined} \subseteq [Clients -> Nat]
        /\ reader \in [Clients -> {"none", "register", "read", "unregister", "close", "done"}]
        /\ writer \in [Clients -> {"off", "select", "write", "done"}]
        /\ open \in [Clients -> BOOLEAN]
    BY DEF HubInv, HubTypeOK
  <1>2. Len(broadcast) <= BroadcastCap /\ \A c \in Clients : ServedInv(c)
    BY ServedSplit
  <1>3. <<>> \in Seq(Events) /\ Len(<<>>) = 0
    OBVIOUS
  <1>4. InHub
    BY DEF Connect, ReadFails, ReadEnd, WriteTake, Write, WriteFails, WriteClosed, WriteEnd
  <1>5. CASE Connect(d) \/ ReadFails(d) \/ ReadEnd(d)
    <2>1. ASSUME NEW c \in Clients PROVE ServedInv(c)'
      BY <1>1, <1>2, <1>5 DEF Connect, ReadFails, ReadEnd, InHub, ServedInv
    <2>2. /\ reader' \in [Clients -> {"none", "register", "read", "unregister", "close", "done"}]
          /\ open' \in [Clients -> BOOLEAN]
          /\ UNCHANGED <<send, writer, batch, got>>
      BY <1>1, <1>5 DEF Connect, ReadFails, ReadEnd
    <2> QED BY <1>1, <1>4, <2>1, <2>2, ConnectionFrame
  <1>6. CASE WriteTake(d)
    <2>1. /\ send[d] \in Seq(Events) /\ send[d] # <<>>
          /\ Head(send[d]) \in Events /\ Tail(send[d]) \in Seq(Events)
          /\ Len(Tail(send[d])) <= Len(send[d])
      BY <1>1, <1>6, ChannelOps DEF WriteTake
    <2>2. <<Head(send[d])>> \in Seq(Events)
      BY <2>1
    <2>3. Len(Tail(send[d])) <= SendCap
      BY <1>2, <2>1, HeadTailProperties DEF ServedInv
    <2>4. ASSUME NEW c \in Clients PROVE ServedInv(c)'
      BY <1>1, <1>2, <1>6, <2>3 DEF WriteTake, InHub, ServedInv
    <2>5. /\ send' \in [Clients -> Seq(Events)] /\ batch' \in [Clients -> Seq(Events)]
          /\ writer' \in [Clients -> {"off", "select", "write", "done"}]
          /\ UNCHANGED <<reader, open, got>>
      BY <1>1, <1>6, <2>1, <2>2 DEF WriteTake
    <2> QED BY <1>1, <1>2, <1>4, <2>4, <2>5, ConnectionFrame
  <1>7. CASE Write(d)
    <2>1. got[d] \o batch[d] \o send[d] \in Seq(Events)
      BY <1>1, ConcatProperties
    <2>2. ASSUME NEW c \in Clients PROVE ServedInv(c)'
      BY <1>1, <1>2, <1>3, <1>7 DEF Write, InHub, ServedInv
    <2>3. /\ send' \in [Clients -> Seq(Events)] /\ batch' \in [Clients -> Seq(Events)]
          /\ got' \in [Clients -> Seq(Events)]
          /\ writer' \in [Clients -> {"off", "select", "write", "done"}]
          /\ UNCHANGED <<reader, open>>
      BY <1>1, <1>3, <1>7, <2>1 DEF Write
    <2> QED BY <1>1, <1>4, <2>2, <2>3, ConnectionFrame
  <1>8. CASE WriteFails(d) \/ WriteClosed(d)
    <2>1. ASSUME NEW c \in Clients PROVE ServedInv(c)'
      BY <1>1, <1>2, <1>3, <1>8 DEF WriteFails, WriteClosed, WriteEnd, InHub, ServedInv
    <2>2. send' \in [Clients -> Seq(Events)]
      BY <1>1, <1>3, <1>8 DEF WriteFails, WriteClosed
    <2>3. /\ open' \in [Clients -> BOOLEAN]
          /\ writer' \in [Clients -> {"off", "select", "write", "done"}]
          /\ UNCHANGED <<reader, batch, got>>
      BY <1>1, <1>8 DEF WriteFails, WriteClosed, WriteEnd
    <2> QED BY <1>1, <1>4, <2>1, <2>2, <2>3, ConnectionFrame
  <1> QED BY <1>5, <1>6, <1>7, <1>8

\* HubInv and Unserved together are inductive.
LEMMA HubInvStep ==
  ASSUME HubInv, Unserved, [HubNext]_hubVars
  PROVE  HubInv' /\ Unserved'
  <1>1. CASE UNCHANGED hubVars
    BY <1>1 DEF HubInv, HubTypeOK, Unserved, hubVars, feedVars, viewVars, clientVars
  <1>2. CASE HubNext
    BY <1>2, FeedStep, HubGoroutineStep, ConnectionStep DEF HubNext
  <1> QED BY <1>1, <1>2

(***************************************************************************)
(* The channels are closed once, and no client is skipped in silence.      *)
(***************************************************************************)

\* What the steps of a connection and of the feed do not touch.
LEMMA HubFrame ==
  ASSUME HubNext
  PROVE  \/ UNCHANGED <<clients, closes, leavers, missed, sent, joined>>
         \/ HubBroadcast \/ HubStop
         \/ \E c \in Clients : HubRegister(c) \/ HubUnregister(c)
  <1>1. CASE \/ Subscribe \/ SubscribeFails \/ CloseStop \/ StopReturn
             \/ Publish \/ ForwardReceive \/ ForwardSend \/ ForwardStop
    BY <1>1 DEF Subscribe, SubscribeFails, Start, CloseStop, StopReturn, Publish,
                ForwardReceive, ForwardSend, ForwardStop, Forwarding, viewVars
  <1>2. ASSUME NEW c \in Clients,
               \/ Connect(c) \/ ReadFails(c) \/ ReadEnd(c)
               \/ WriteTake(c) \/ Write(c) \/ WriteFails(c) \/ WriteClosed(c)
        PROVE  UNCHANGED <<clients, closes, leavers, missed, sent, joined>>
    BY <1>2 DEF Connect, ReadFails, ReadEnd, WriteTake, Write, WriteFails, WriteClosed,
                WriteEnd, InHub
  <1> QED BY <1>1, <1>2 DEF HubNext

\* A channel is closed when its client leaves the map, and a client comes into the
\* map with a channel that was never closed.
LEMMA ClosedOnceStep ==
  ASSUME HubInv, Unserved, ClosedOnce, [HubNext]_hubVars
  PROVE  ClosedOnce'
  <1> USE DEF ClosedOnce
  <1>1. /\ closes \in [Clients -> Nat] /\ clients \subseteq Clients
        /\ \A c \in Clients : ServedInv(c)
    BY ServedSplit DEF HubInv, HubTypeOK
  <1>2. CASE UNCHANGED <<clients, closes, leavers, missed, sent, joined>>
    BY <1>2
  <1>3. CASE HubBroadcast
    BY <1>3 DEF HubBroadcast
  <1>4. CASE HubStop
    BY <1>1, <1>4 DEF HubStop
  <1>5. ASSUME NEW d \in Clients, HubRegister(d) PROVE ClosedOnce'
    BY <1>1, <1>5 DEF HubRegister, ServedInv
  <1>6. ASSUME NEW d \in Clients, HubUnregister(d) PROVE ClosedOnce'
    BY <1>1, <1>6 DEF HubUnregister, Remove
  <1>7. CASE UNCHANGED hubVars
    BY <1>2, <1>7 DEF hubVars, viewVars
  <1> QED BY <1>2, <1>3, <1>4, <1>5, <1>6, <1>7, HubFrame

\* A client without room gets its goroutine in the step that skips it, and that
\* goroutine only ends by taking the client out of the map.
LEMMA NoSilentGapStep ==
  ASSUME HubInv, Unserved, NoSilentGap, [HubNext]_hubVars
  PROVE  NoSilentGap'
  <1> USE DEF NoSilentGap
  <1>1. /\ leavers \in [Clients -> Nat] /\ clients \subseteq Clients
        /\ \A c \in Clients : ServedInv(c)
    BY ServedSplit DEF HubInv, HubTypeOK
  <1>2. CASE UNCHANGED <<clients, closes, leavers, missed, sent, joined>>
    BY <1>2
  <1>3. CASE HubBroadcast
    BY <1>1, <1>3 DEF HubBroadcast, UnregisterLater
  <1>4. CASE HubStop
    BY <1>4 DEF HubStop
  <1>5. ASSUME NEW d \in Clients, HubRegister(d) PROVE NoSilentGap'
    BY <1>1, <1>5 DEF HubRegister, ServedInv
  <1>6. ASSUME NEW d \in Clients, HubUnregister(d) PROVE NoSilentGap'
    BY <1>1, <1>6 DEF HubUnregister, Remove, viewVars
  <1>7. CASE UNCHANGED hubVars
    BY <1>2, <1>7 DEF hubVars, viewVars
  <1> QED BY <1>2, <1>3, <1>4, <1>5, <1>6, <1>7, HubFrame

(***************************************************************************)
(* The view of a client.                                                   *)
(***************************************************************************)

\* A sequence is its first element and the rest.
LEMMA HeadAndTail ==
  ASSUME NEW S, NEW s \in Seq(S), s # <<>>
  PROVE  s = <<Head(s)>> \o Tail(s)
  <1>1. Len(s) \in Nat \ {0} /\ Head(s) = s[1]
    BY EmptySeq
  <1>2. SubSeq(s, 1, Len(s)) = <<s[1]>> \o SubSeq(s, 1 + 1, Len(s))
    BY <1>1, SubSeqRecursiveFirst
  <1>3. SubSeq(s, 1, Len(s)) = s /\ SubSeq(s, 2, Len(s)) = Tail(s)
    BY SubSeqFull, TailIsSubSeq
  <1> QED BY <1>1, <1>2, <1>3

\* What a client was sent, is being sent and has in its buffer, and what was
\* broadcast since it registered: the two sides of CompleteView.
View(g, b, s) == g \o b \o s
Since(h, j) == SubSeq(h, j + 1, Len(h))

\* An event sent to a client comes at the end of its view.
LEMMA ViewAppend ==
  \A g, b, s \in Seq(Events), e \in Events :
    View(g, b, Append(s, e)) = View(g, b, s) \o <<e>>
  <1> DEFINE S == Events
  <1> HIDE DEF S
  <1> SUFFICES ASSUME NEW g \in Seq(S), NEW b \in Seq(S), NEW s \in Seq(S), NEW e \in S
               PROVE  View(g, b, Append(s, e)) = View(g, b, s) \o <<e>>
    BY DEF S
  <1>1. <<e>> \in Seq(S) /\ Append(s, e) = s \o <<e>>
    BY AppendIsConcat
  <1>2. \A v, w \in Seq(S) : (v \o s) \o w = v \o (s \o w)
    BY ConcatAssociative
  <1>3. g \o b \in Seq(S)
    BY ConcatProperties
  <1> QED BY <1>1, <1>2, <1>3 DEF View

\* An event that is broadcast comes at the end of what is to be seen.
LEMMA SinceAppend ==
  ASSUME NEW S, NEW h \in Seq(S), NEW e \in S, NEW j \in Nat, j <= Len(h)
  PROVE  Since(Append(h, e), j) = Since(h, j) \o <<e>>
  <1> DEFINE n == Len(h)
             g == Append(h, e)
  <1>1. n \in Nat
    OBVIOUS
  <1>2. g \in Seq(S) /\ Len(g) = n + 1 /\ g[n + 1] = e
    BY AppendProperties
  <1>3. g = h \o <<e>> /\ <<e>> \in Seq(S)
    BY AppendIsConcat
  <1>4. SubSeq(g, j + 1, n) = SubSeq(h, j + 1, n)
    <2>1. CASE j = n
      BY <1>1, <2>1, SubSeqEmpty
    <2>2. CASE j < n
      <3>1. j + 1 \in 1..n /\ n \in 1..n
        BY <1>1, <2>2
      <3> HIDE DEF g
      <3> QED BY <1>1, <1>3, <3>1, SubSeqOfConcat1
    <2> QED BY <1>1, <2>1, <2>2
  <1>5. SubSeq(g, j + 1, n + 1) = SubSeq(g, j + 1, n) \o <<e>>
    <2>1. j + 1 \in 1..Len(g) /\ n + 1 \in (j + 1)..Len(g) /\ (n + 1) - 1 = n
      BY <1>1, <1>2
    <2> HIDE DEF g, n
    <2>2. SubSeq(g, j + 1, n + 1) = SubSeq(g, j + 1, (n + 1) - 1) \o <<g[n + 1]>>
      BY <1>2, <2>1, SubSeqRecursiveSecond
    <2> QED BY <1>2, <2>1, <2>2
  <1> QED BY <1>2, <1>4, <1>5 DEF Since

\* A message is taken off the channel, and messages are written: the view is the same.
LEMMA ViewKept ==
  /\ \A g, b, s \in Seq(Events) :
       /\ s # <<>> => View(g, <<Head(s)>>, Tail(s)) = View(g, <<>>, s)
       /\ View(View(g, b, s), <<>>, <<>>) = View(g, b, s)
  /\ View(<<>>, <<>>, <<>>) = <<>>
  <1> DEFINE S == Events
  <1> HIDE DEF S
  <1> SUFFICES ASSUME NEW g \in Seq(S), NEW b \in Seq(S), NEW s \in Seq(S)
               PROVE  /\ s # <<>> => View(g, <<Head(s)>>, Tail(s)) = View(g, <<>>, s)
                      /\ View(View(g, b, s), <<>>, <<>>) = View(g, b, s)
                      /\ View(<<>>, <<>>, <<>>) = <<>>
    BY EmptySeq DEF S
  <1>1. ASSUME s # <<>> PROVE View(g, <<Head(s)>>, Tail(s)) = View(g, <<>>, s)
    <2>1. s = <<Head(s)>> \o Tail(s)
      BY <1>1, HeadAndTail
    <2>2. <<Head(s)>> \in Seq(S) /\ Tail(s) \in Seq(S)
      BY <1>1, HeadTailProperties
    <2>3. \A v, w \in Seq(S) : (g \o v) \o w = g \o (v \o w)
      BY ConcatAssociative
    <2>4. (g \o <<Head(s)>>) \o Tail(s) = g \o (<<Head(s)>> \o Tail(s))
      BY <2>2, <2>3
    <2>5. g \o <<>> = g
      BY ConcatEmptySeq
    <2> QED BY <2>1, <2>4, <2>5 DEF View
  <1>2. View(g, b, s) \in Seq(S)
    BY ConcatProperties DEF View
  <1>3. \A v \in Seq(S) : v \o <<>> \o <<>> = v
    BY ConcatEmptySeq
  <1>4. View(View(g, b, s), <<>>, <<>>) = View(g, b, s)
    <2> DEFINE v == View(g, b, s)
    <2> HIDE DEF v
    <2>1. View(v, <<>>, <<>>) = v
      BY <1>2, <1>3 DEF View, v
    <2> QED BY <2>1 DEF v
  <1>5. View(<<>>, <<>>, <<>>) = <<>>
    BY <1>3 DEF View
  <1> QED BY <1>1, <1>4, <1>5

\* A broadcast, a message that is taken and one that is written leave what a client
\* was sent, is being sent and has in its buffer the same as what it should see.
LEMMA CompleteViewStep ==
  ASSUME HubInv, Unserved, CompleteView, [HubNext]_hubVars
  PROVE  CompleteView'
  <1> SUFFICES ASSUME NEW c \in Clients, (c \in clients \ missed)', (writer[c] # "done")'
               PROVE  (View(got[c], batch[c], send[c]) = Since(sent, joined[c]))'
    <2>1. clients' \subseteq Clients
      BY HubInvStep DEF HubInv, HubTypeOK
    <2> QED BY <2>1 DEF CompleteView, View, Since
  <1>1. /\ broadcast \in Seq(Events) /\ sent \in Seq(Events) /\ clients \subseteq Clients
        /\ {send, batch, got} \subseteq [Clients -> Seq(Events)]
        /\ joined \in [Clients -> Nat]
        /\ reader \in [Clients -> {"none", "register", "read", "unregister", "close", "done"}]
        /\ writer \in [Clients -> {"off", "select", "write", "done"}]
    BY DEF HubInv, HubTypeOK
  <1>2. ServedInv(c)
    BY ServedSplit
  <1>3. c \in clients \ missed /\ writer[c] # "done" =>
          View(got[c], batch[c], send[c]) = Since(sent, joined[c])
    BY DEF CompleteView, View, Since
  <1>4. /\ got[c] \in Seq(Events) /\ batch[c] \in Seq(Events) /\ send[c] \in Seq(Events)
        /\ joined[c] \in 0..Len(sent) /\ Len(sent) \in Nat
    <2>1. got[c] \in Seq(Events) /\ batch[c] \in Seq(Events) /\ send[c] \in Seq(Events)
      BY <1>1
    <2> QED BY <1>1, <1>2, <2>1 DEF ServedInv
  <1>5. CASE HubBroadcast
    <2> DEFINE e == Head(broadcast)
    <2>1. e \in Events /\ sent' = Append(sent, e)
      BY <1>1, <1>5, HeadTailProperties DEF HubBroadcast
    <2>2. /\ c \in clients \ missed /\ HasRoom(c)
          /\ send'[c] = Append(send[c], e)
          /\ writer[c] # "done"
          /\ UNCHANGED <<got, batch, joined>>
      BY <1>1, <1>5 DEF HubBroadcast, clientVars
    <2> HIDE DEF e
    <2>3. View(got[c], batch[c], Append(send[c], e))
            = View(got[c], batch[c], send[c]) \o <<e>>
      BY <1>4, <2>1, ViewAppend
    <2>4. Since(Append(sent, e), joined[c]) = Since(sent, joined[c]) \o <<e>>
      BY <1>1, <1>4, <2>1, SinceAppend
    <2> QED BY <1>3, <2>1, <2>2, <2>3, <2>4
  <1>6. ASSUME NEW d \in Clients, HubRegister(d)
        PROVE  (View(got[c], batch[c], send[c]) = Since(sent, joined[c]))'
    <2>1. UNCHANGED <<sent, send, batch, got, missed>>
      BY <1>6 DEF HubRegister
    <2>2. CASE c = d
      <3>1. joined'[c] = Len(sent) /\ send[c] = <<>> /\ batch[c] = <<>> /\ got[c] = <<>>
        BY <1>1, <1>2, <1>6, <2>2 DEF HubRegister, ServedInv
      <3>2. View(<<>>, <<>>, <<>>) = <<>>
        BY <1>4, ViewKept
      <3>3. Since(sent, Len(sent)) = <<>>
        BY <1>4, SubSeqEmpty DEF Since
      <3> QED BY <2>1, <3>1, <3>2, <3>3
    <2>3. CASE c # d
      <3>1. c \in clients \ missed /\ writer[c] # "done" /\ joined'[c] = joined[c]
        BY <1>1, <1>6, <2>3 DEF HubRegister
      <3> QED BY <1>3, <2>1, <3>1
    <2> QED BY <2>2, <2>3
  <1>7. ASSUME NEW d \in Clients, HubUnregister(d)
        PROVE  (View(got[c], batch[c], send[c]) = Since(sent, joined[c]))'
    BY <1>3, <1>7 DEF HubUnregister, Remove, viewVars
  <1>8. ASSUME NEW d \in Clients, WriteTake(d)
        PROVE  (View(got[c], batch[c], send[c]) = Since(sent, joined[c]))'
    <2>1. UNCHANGED <<clients, missed, sent, joined, got>>
      BY <1>8 DEF WriteTake, InHub
    <2>2. CASE c # d
      BY <1>1, <1>3, <1>8, <2>1, <2>2 DEF WriteTake
    <2>3. CASE c = d
      <3>1. /\ writer[c] = "select" /\ send[c] # <<>> /\ batch[c] = <<>>
            /\ batch'[c] = <<Head(send[c])>> /\ send'[c] = Tail(send[c])
        BY <1>1, <1>2, <1>8, <2>3 DEF WriteTake, ServedInv
      <3>2. View(got[c], <<Head(send[c])>>, Tail(send[c])) = View(got[c], <<>>, send[c])
        BY <1>4, <3>1, ViewKept
      <3> QED BY <1>3, <2>1, <3>1, <3>2
    <2> QED BY <2>2, <2>3
  <1>9. ASSUME NEW d \in Clients, Write(d)
        PROVE  (View(got[c], batch[c], send[c]) = Since(sent, joined[c]))'
    <2>1. UNCHANGED <<clients, missed, sent, joined>>
      BY <1>9 DEF Write, InHub
    <2>2. CASE c # d
      BY <1>1, <1>3, <1>9, <2>1, <2>2 DEF Write
    <2>3. CASE c = d
      <3>1. /\ writer[c] = "write" /\ batch'[c] = <<>> /\ send'[c] = <<>>
            /\ got'[c] = View(got[c], batch[c], send[c])
        BY <1>1, <1>9, <2>3 DEF Write, View
      <3>2. View(View(got[c], batch[c], send[c]), <<>>, <<>>)
              = View(got[c], batch[c], send[c])
        BY <1>4, ViewKept
      <3> QED BY <1>3, <2>1, <3>1, <3>2
    <2> QED BY <2>2, <2>3
  <1>10. ASSUME NEW d \in Clients, WriteFails(d) \/ WriteClosed(d)
         PROVE  (View(got[c], batch[c], send[c]) = Since(sent, joined[c]))'
    <2>1. UNCHANGED <<clients, missed, sent, joined, batch, got>>
      BY <1>10 DEF WriteFails, WriteClosed, WriteEnd, InHub
    <2>2. c # d
      BY <1>1, <1>10 DEF WriteFails, WriteClosed, WriteEnd
    <2>3. send'[c] = send[c] /\ writer'[c] = writer[c]
      BY <1>1, <1>10, <2>2 DEF WriteFails, WriteClosed, WriteEnd
    <2> QED BY <1>3, <2>1, <2>3
  <1>11. CASE HubStop
    BY <1>11 DEF HubStop
  <1>12. CASE UNCHANGED <<clients, viewVars, batch, got, writer>>
    BY <1>3, <1>12 DEF viewVars
  <1>13. CASE \/ Subscribe \/ SubscribeFails \/ CloseStop \/ StopReturn
              \/ Publish \/ ForwardReceive \/ ForwardSend \/ ForwardStop
    BY <1>12, <1>13 DEF Subscribe, SubscribeFails, Start, CloseStop, StopReturn, Publish,
       ForwardReceive, ForwardSend, ForwardStop, Forwarding, clientVars
  <1>14. ASSUME NEW d \in Clients, Connect(d) \/ ReadFails(d) \/ ReadEnd(d)
         PROVE  (View(got[c], batch[c], send[c]) = Since(sent, joined[c]))'
    BY <1>12, <1>14 DEF Connect, ReadFails, ReadEnd, InHub, viewVars
  <1>15. CASE UNCHANGED hubVars
    BY <1>12, <1>15 DEF hubVars, clientVars
  <1> QED
    BY <1>5, <1>6, <1>7, <1>8, <1>9, <1>10, <1>11, <1>13, <1>14, <1>15 DEF HubNext

(***************************************************************************)
(* The theorems.                                                           *)
(***************************************************************************)

\* The inductive invariant of the hub.
LEMMA HubInvariance == HubSpec => []HubIInv
  <1>1. HubInit => HubIInv
    BY HubInitInv
  <1>2. HubIInv /\ [HubNext]_hubVars => HubIInv'
    BY HubInvStep, ClosedOnceStep, NoSilentGapStep, CompleteViewStep DEF HubIInv
  <1> QED BY <1>1, <1>2, PTL DEF HubSpec

\* The pumps run only for clients the hub has taken on, and no channel holds more
\* than its capacity (ServeWS, Run, WritePump).
THEOREM PumpsFollowTheHub == HubSpec => []HubInv
  BY HubInvariance, PTL DEF HubIInv

\* No send channel is closed twice or sent on after its close: the hub does not
\* panic, however many clients come and go (unregister, closeAllClients).
THEOREM NoPanicOnClose == HubSpec => []ClosedOnce
  BY HubInvariance, PTL DEF HubIInv

\* A client whose buffer was full does not stay: its removal is under way
\* (broadcastEvent).
THEOREM SkippedClientsLeave == HubSpec => []NoSilentGap
  BY HubInvariance, PTL DEF HubIInv

\* A client that is still served and was never skipped has every event broadcast
\* since it registered, in order (broadcastEvent, WritePump).
THEOREM ClientsSeeEverything == HubSpec => []CompleteView
  BY HubInvariance, PTL DEF HubIInv

(***************************************************************************)
(* The hub in the composition.                                             *)
(***************************************************************************)

\* To the hub a step of the client is a connection or nothing.
LEMMA StreamStepOfHub == [StreamNext]_streamVars => [HubNext]_hubVars
  <1>1. ASSUME NEW c \in Clients, ClientStep(c) PROVE [HubNext]_hubVars
    BY <1>1 DEF ClientStep, Dial, HubNext, CloseSignal, CloseConn, ReadLoop, ReadError,
       Receive, Reader, InClient, LookAtDone, ReadEvent, SkipMessage, Put, PutStopped,
       PutFull, DropOldest, SendAfterDrop, CloseEvents
  <1>2. CASE HubStep
    BY <1>2 DEF HubStep
  <1>3. CASE UNCHANGED streamVars
    BY <1>3 DEF streamVars
  <1> QED BY <1>1, <1>2, <1>3 DEF StreamNext

\* The hub with a client at the other end behaves like the hub alone: what is proved
\* of Hub holds of the composition (ConnectWebSocket, readLoop).
THEOREM StreamKeepsHub == StreamSpec => HubSpec
  BY StreamStepOfHub, PTL DEF StreamSpec, StreamInit, HubSpec

(***************************************************************************)
(* The elements of a channel, and their order.                             *)
(***************************************************************************)

\* The elements of a sequence that grows at its end or shrinks at its front.
LEMMA Elements ==
  ASSUME NEW S
  PROVE  /\ InMessage(<<>>) = {}
         /\ \A s \in Seq(S) :
              /\ InMessage(s) \subseteq S
              /\ s # <<>> => InMessage(s) = {Head(s)} \union InMessage(Tail(s))
              /\ \A e \in S : InMessage(Append(s, e)) = InMessage(s) \union {e}
  <1>1. InMessage(<<>>) = {}
    BY DEF InMessage
  <1>2. ASSUME NEW s \in Seq(S)
        PROVE  /\ InMessage(s) \subseteq S
               /\ InMessage(s) = {s[i] : i \in 1..Len(s)}
               /\ Len(s) \in Nat
    BY <1>2, LenProperties DEF InMessage
  <1>3. ASSUME NEW s \in Seq(S), s # <<>>
        PROVE  InMessage(s) = {Head(s)} \union InMessage(Tail(s))
    <2>1. /\ Head(s) = s[1] /\ Tail(s) \in Seq(S) /\ Len(Tail(s)) = Len(s) - 1
          /\ \A i \in 1..Len(Tail(s)) : Tail(s)[i] = s[i + 1]
          /\ Len(s) \in Nat \ {0}
      BY <1>3, EmptySeq, HeadTailProperties
    <2>2. InMessage(Tail(s)) = {Tail(s)[i] : i \in 1..Len(Tail(s))}
      BY <1>2, <2>1
    <2>3. InMessage(Tail(s)) = {s[i] : i \in 2..Len(s)}
      <3>1. ASSUME NEW i \in 1..Len(Tail(s))
            PROVE  i + 1 \in 2..Len(s) /\ Tail(s)[i] = s[i + 1]
        BY <2>1
      <3>2. ASSUME NEW i \in 2..Len(s)
            PROVE  i - 1 \in 1..Len(Tail(s)) /\ Tail(s)[i - 1] = s[i]
        BY <2>1
      <3> QED BY <2>2, <3>1, <3>2
    <2>4. InMessage(s) = {s[i] : i \in 1..Len(s)}
      BY <1>2
    <2>5. \A i \in 1..Len(s) : i = 1 \/ i \in 2..Len(s)
      BY <2>1
    <2>6. 1 \in 1..Len(s) /\ \A i \in 2..Len(s) : i \in 1..Len(s)
      BY <2>1
    <2> QED BY <2>1, <2>3, <2>4, <2>5, <2>6
  <1>4. ASSUME NEW s \in Seq(S), NEW e \in S
        PROVE  InMessage(Append(s, e)) = InMessage(s) \union {e}
    <2> DEFINE g == Append(s, e)
    <2>1. /\ g \in Seq(S) /\ Len(g) = Len(s) + 1 /\ Len(s) \in Nat
          /\ \A i \in 1..Len(s) : g[i] = s[i]
          /\ g[Len(s) + 1] = e
      BY AppendProperties
    <2> HIDE DEF g
    <2>2. /\ InMessage(g) = {g[i] : i \in 1..Len(g)}
          /\ InMessage(s) = {s[i] : i \in 1..Len(s)}
      BY <1>2, <2>1
    <2>3. \A i \in 1..Len(g) : i \in 1..Len(s) \/ i = Len(s) + 1
      BY <2>1
    <2>4. Len(s) + 1 \in 1..Len(g) /\ \A i \in 1..Len(s) : i \in 1..Len(g)
      BY <2>1
    <2>5. InMessage(g) = InMessage(s) \union {e}
      BY <2>1, <2>2, <2>3, <2>4
    <2> QED BY <2>5 DEF g
  <1> QED BY <1>1, <1>2, <1>3, <1>4

\* The elements of two sequences in a row.
LEMMA ConcatElements ==
  ASSUME NEW S
  PROVE  \A s, t \in Seq(S) : InMessage(s \o t) = InMessage(s) \union InMessage(t)
  <1> SUFFICES ASSUME NEW s \in Seq(S), NEW t \in Seq(S)
               PROVE  InMessage(s \o t) = InMessage(s) \union InMessage(t)
    OBVIOUS
  <1> DEFINE g == s \o t
  <1>1. /\ g \in Seq(S) /\ Len(g) = Len(s) + Len(t) /\ Len(s) \in Nat /\ Len(t) \in Nat
        /\ DOMAIN s = 1..Len(s) /\ DOMAIN t = 1..Len(t)
        /\ \A i \in 1..Len(s) + Len(t) :
             g[i] = IF i <= Len(s) THEN s[i] ELSE t[i - Len(s)]
    BY ConcatProperties, LenProperties
  <1> HIDE DEF g
  <1>2. DOMAIN g = 1..Len(g)
    BY <1>1, LenProperties
  <1>3. \A i \in 1..Len(s) : i \in 1..Len(g) /\ g[i] = s[i]
    BY <1>1
  <1>4. \A i \in 1..Len(t) : Len(s) + i \in 1..Len(g) /\ g[Len(s) + i] = t[i]
    BY <1>1
  <1>5. ASSUME NEW i \in 1..Len(g)
        PROVE  \/ i \in 1..Len(s) /\ g[i] = s[i]
               \/ i - Len(s) \in 1..Len(t) /\ g[i] = t[i - Len(s)]
    <2>1. CASE i <= Len(s)
      BY <1>1, <2>1
    <2>2. CASE i > Len(s)
      BY <1>1, <2>2
    <2> QED BY <1>1, <2>1, <2>2
  <1>6. ASSUME NEW e \in InMessage(g) PROVE e \in InMessage(s) \union InMessage(t)
    BY <1>1, <1>2, <1>5, <1>6 DEF InMessage
  <1>7. ASSUME NEW e \in InMessage(s) PROVE e \in InMessage(g)
    BY <1>1, <1>2, <1>3, <1>7 DEF InMessage
  <1>8. ASSUME NEW e \in InMessage(t) PROVE e \in InMessage(g)
    BY <1>1, <1>2, <1>4, <1>8 DEF InMessage
  <1> QED BY <1>6, <1>7, <1>8 DEF g

\* A sequence in order stays so when a greater element is added or its first taken,
\* and the first is the least.
LEMMA Orders ==
  /\ Increasing(<<>>)
  /\ \A s \in Seq(Int) :
       Increasing(s) =>
         /\ s # <<>> => /\ Increasing(Tail(s))
                        /\ Before({Head(s)}, InMessage(Tail(s)))
         /\ \A e \in Int : Before(InMessage(s), {e}) => Increasing(Append(s, e))
  <1>1. Increasing(<<>>)
    BY DEF Increasing
  <1>2. ASSUME NEW s \in Seq(Int), Increasing(s), s # <<>>
        PROVE  Increasing(Tail(s)) /\ Before({Head(s)}, InMessage(Tail(s)))
    <2> DEFINE t == Tail(s)
    <2>1. /\ Head(s) = s[1] /\ t \in Seq(Int) /\ Len(t) = Len(s) - 1
          /\ \A i \in 1..Len(t) : t[i] = s[i + 1]
          /\ Len(s) \in Nat \ {0} /\ DOMAIN s = 1..Len(s)
      BY <1>2, EmptySeq, HeadTailProperties, LenProperties
    <2> HIDE DEF t
    <2>2. DOMAIN t = 1..Len(t)
      BY <2>1, LenProperties
    <2>3. \A i \in 1..Len(t) : i + 1 \in DOMAIN s /\ t[i] = s[i + 1] /\ 1 \in DOMAIN s /\ 1 < i + 1
      BY <2>1
    <2>4. ASSUME NEW i \in 1..Len(t), NEW j \in 1..Len(t), i < j PROVE t[i] < t[j]
      <3>1. i + 1 < j + 1
        BY <2>4
      <3> QED BY <1>2, <2>3, <3>1 DEF Increasing
    <2>5. Before({Head(s)}, InMessage(t))
      BY <1>2, <2>1, <2>2, <2>3 DEF Increasing, Before, InMessage
    <2> QED BY <2>2, <2>4, <2>5 DEF Increasing, t
  <1>3. ASSUME NEW s \in Seq(Int), Increasing(s), NEW e \in Int, Before(InMessage(s), {e})
        PROVE  Increasing(Append(s, e))
    <2> DEFINE g == Append(s, e)
    <2>1. /\ g \in Seq(Int) /\ Len(g) = Len(s) + 1 /\ Len(s) \in Nat
          /\ \A i \in 1..Len(s) : g[i] = s[i]
          /\ g[Len(s) + 1] = e
          /\ DOMAIN s = 1..Len(s)
      BY AppendProperties, LenProperties
    <2> HIDE DEF g
    <2>2. DOMAIN g = 1..Len(g)
      BY <2>1, LenProperties
    <2>3. \A i \in 1..Len(s) : g[i] < e
      BY <1>3, <2>1 DEF Before, InMessage
    <2>4. ASSUME NEW i \in 1..Len(g), NEW j \in 1..Len(g), i < j PROVE g[i] < g[j]
      <3>1. i \in 1..Len(s) /\ (j \in 1..Len(s) \/ j = Len(s) + 1)
        <4>1. PICK n \in Nat : n = Len(s) /\ Len(g) = n + 1
          BY <2>1
        <4>2. i \in 1..(n + 1) /\ j \in 1..(n + 1)
          BY <4>1
        <4>3. i \in 1..n /\ (j \in 1..n \/ j = n + 1)
          BY <2>4, <4>2
        <4> QED BY <4>1, <4>3
      <3>2. CASE j \in 1..Len(s)
        BY <1>3, <2>1, <2>4, <3>1, <3>2 DEF Increasing
      <3>3. CASE j = Len(s) + 1
        BY <2>1, <2>3, <3>1, <3>3
      <3> QED BY <3>1, <3>2, <3>3
    <2> QED BY <2>2, <2>4 DEF Increasing, g
  <1> QED BY <1>1, <1>2, <1>3

\* The elements of a view.
LEMMA ViewElements ==
  \A g, b, s \in Seq(Events) :
    InMessage(View(g, b, s)) = InMessage(g) \union InMessage(b) \union InMessage(s)
  <1> SUFFICES ASSUME NEW g \in Seq(Events), NEW b \in Seq(Events), NEW s \in Seq(Events)
               PROVE  InMessage(View(g, b, s))
                        = InMessage(g) \union InMessage(b) \union InMessage(s)
    OBVIOUS
  <1>1. PICK v \in Seq(Events) : v = g \o b
    BY ConcatProperties
  <1>2. InMessage(v) = InMessage(g) \union InMessage(b)
    BY <1>1, ConcatElements
  <1>3. InMessage(v \o s) = InMessage(v) \union InMessage(s)
    BY ConcatElements
  <1> QED BY <1>1, <1>2, <1>3 DEF View

(***************************************************************************)
(* The order of the events on their way through the server.                *)
(***************************************************************************)

\* Elements and Orders for the channels of the server.
LEMMA ChannelFacts ==
  /\ InMessage(<<>>) = {} /\ Increasing(<<>>)
  /\ \A s \in Seq(Events) :
       /\ InMessage(s) \subseteq Events
       /\ s # <<>> => /\ InMessage(s) = {Head(s)} \union InMessage(Tail(s))
                      /\ Increasing(s) => /\ Increasing(Tail(s))
                                          /\ Before({Head(s)}, InMessage(Tail(s)))
       /\ \A e \in Events :
            /\ InMessage(Append(s, e)) = InMessage(s) \union {e}
            /\ Increasing(s) /\ Before(InMessage(s), {e}) => Increasing(Append(s, e))
  <1>1. Events \subseteq Int
    BY DEF Events
  <1>2. \A s \in Seq(Events) : s \in Seq(Int)
    BY <1>1, SeqMonotonic
  <1>3. /\ InMessage(<<>>) = {}
        /\ \A s \in Seq(Events) :
             /\ InMessage(s) \subseteq Events
             /\ s # <<>> => InMessage(s) = {Head(s)} \union InMessage(Tail(s))
             /\ \A e \in Events : InMessage(Append(s, e)) = InMessage(s) \union {e}
    BY Elements
  <1> QED BY <1>1, <1>2, <1>3, Orders

\* The numbers grow when an event is published, and an event that goes from one channel
\* to the next was the first of the one and is the last of the other.
LEMMA FeedOrderStep ==
  ASSUME HubInv, FeedOrder, [HubNext]_hubVars
  PROVE  /\ FeedOrder'
         /\ published <= published'
         /\ \A e \in Waiting' : e \in Waiting \/ (e \in Int /\ e > published)
  <1>1. /\ eventCh \in Seq(Events) /\ broadcast \in Seq(Events)
        /\ held \in 0..MaxEvents /\ published \in 0..MaxEvents
        /\ held \in Nat /\ published \in Nat
        /\ held # 0 <=> fwd = "send"
    BY HubAssumption DEF HubInv, HubTypeOK
  <1>2. InMessage(eventCh) \subseteq Int /\ InMessage(broadcast) \subseteq Int
    <2>1. InMessage(eventCh) \subseteq Events /\ InMessage(broadcast) \subseteq Events
      BY <1>1, ChannelFacts
    <2> QED BY <2>1 DEF Events
  <1> USE DEF FeedOrder, Waiting, Before
  <1>3. CASE UNCHANGED <<published, eventCh, held, broadcast>>
    BY <1>1, <1>2, <1>3
  <1>4. CASE Publish
    <2> DEFINE e == published + 1
    <2>1. e \in Events /\ held' = held /\ broadcast' = broadcast /\ published' = e
      BY <1>1, <1>4, HubAssumption DEF Publish, Events
    <2>2. CASE eventCh' = eventCh
      BY <1>1, <1>2, <2>1, <2>2
    <2>3. CASE eventCh' = Append(eventCh, e)
      <3>1. InMessage(eventCh') = InMessage(eventCh) \union {e}
        BY <1>1, <2>1, <2>3, ChannelFacts
      <3>2. Before(InMessage(eventCh), {e})
        BY <1>1, <1>2
      <3>3. Increasing(eventCh')
        BY <1>1, <2>1, <2>3, <3>2, ChannelFacts
      <3>4. ASSUME NEW a \in InMessage(broadcast) \union ({held} \ {0}),
                   NEW b \in InMessage(eventCh')
            PROVE  a < b
        <4>1. a \in Int /\ a <= published
          BY <1>1, <1>2
        <4>2. b \in InMessage(eventCh) \/ b = e
          BY <3>1
        <4> QED BY <1>1, <4>1, <4>2
      <3>5. ASSUME NEW x \in Waiting'
            PROVE  x <= e /\ (x \in Waiting \/ (x \in Int /\ x > published))
        <4>1. x \in Waiting \/ x = e
          BY <2>1, <3>1, <3>5
        <4>2. x \in Waiting => x \in Int /\ x <= published
          BY <1>1, <1>2
        <4> HIDE DEF Waiting
        <4> QED BY <1>1, <4>1, <4>2
      <3> QED BY <1>1, <2>1, <3>3, <3>4, <3>5
    <2> QED BY <1>4, <2>2, <2>3 DEF Publish
  <1>5. CASE ForwardReceive
    <2>1. /\ eventCh # <<>> /\ held = 0 /\ held' = Head(eventCh) /\ eventCh' = Tail(eventCh)
          /\ UNCHANGED <<published, broadcast>>
      BY <1>1, <1>5 DEF ForwardReceive
    <2>2. /\ InMessage(eventCh) = {held'} \union InMessage(eventCh')
          /\ Increasing(eventCh') /\ Before({held'}, InMessage(eventCh'))
      BY <1>1, <2>1, ChannelFacts
    <2>3. held' # 0
      BY <1>1, <2>2, ChannelFacts DEF Events
    <2> QED BY <1>1, <1>2, <2>1, <2>2, <2>3
  <1>6. CASE ForwardSend
    <2>1. /\ held \in Events /\ held # 0 /\ broadcast' = Append(broadcast, held) /\ held' = 0
          /\ UNCHANGED <<published, eventCh>>
      BY <1>1, <1>6 DEF ForwardSend, Events
    <2>2. InMessage(broadcast') = InMessage(broadcast) \union {held}
      BY <1>1, <2>1, ChannelFacts
    <2>3. Before(InMessage(broadcast), {held})
      BY <1>1, <1>2, <2>1
    <2>4. Increasing(broadcast')
      BY <1>1, <2>1, <2>3, ChannelFacts
    <2>5. Waiting' = Waiting
      BY <2>1, <2>2
    <2>6. Before(InMessage(broadcast') \union ({held'} \ {0}), InMessage(eventCh'))
      BY <1>1, <1>2, <2>1, <2>2
    <2> QED BY <1>1, <2>1, <2>4, <2>5, <2>6
  <1>7. CASE HubBroadcast
    <2>1. /\ broadcast # <<>> /\ broadcast' = Tail(broadcast)
          /\ UNCHANGED <<published, eventCh, held>>
      BY <1>7 DEF HubBroadcast, feedVars
    <2>2. /\ InMessage(broadcast) = {Head(broadcast)} \union InMessage(broadcast')
          /\ Increasing(broadcast')
      BY <1>1, <2>1, ChannelFacts
    <2>3. Waiting' \subseteq Waiting
      BY <2>1, <2>2
    <2>4. /\ Before(InMessage(broadcast'), {held} \ {0})
          /\ Before(InMessage(broadcast') \union ({held} \ {0}), InMessage(eventCh))
      BY <2>2
    <2>5. published <= published
      BY <1>1
    <2> HIDE DEF Before
    <2> QED BY <2>1, <2>2, <2>3, <2>4, <2>5
  <1>8. CASE \/ Subscribe \/ SubscribeFails \/ CloseStop \/ StopReturn \/ ForwardStop \/ HubStop
    BY <1>3, <1>8 DEF Subscribe, SubscribeFails, Start, CloseStop, StopReturn, ForwardStop,
       Forwarding, HubStop, feedVars
  <1>9. ASSUME NEW c \in Clients, HubRegister(c) \/ HubUnregister(c)
        PROVE  UNCHANGED <<published, eventCh, held, broadcast>>
    BY <1>9 DEF HubRegister, HubUnregister, feedVars
  <1>10. ASSUME NEW c \in Clients,
                \/ Connect(c) \/ ReadFails(c) \/ ReadEnd(c)
                \/ WriteTake(c) \/ Write(c) \/ WriteFails(c) \/ WriteClosed(c)
         PROVE  UNCHANGED <<published, eventCh, held, broadcast>>
    BY <1>10 DEF Connect, ReadFails, ReadEnd, WriteTake, Write, WriteFails, WriteClosed,
       WriteEnd, InHub, feedVars
  <1>11. CASE UNCHANGED hubVars
    BY <1>3, <1>11 DEF hubVars, feedVars
  <1> QED
    BY <1>3, <1>4, <1>5, <1>6, <1>7, <1>8, <1>9, <1>10, <1>11 DEF HubNext

\* The events of the channels are numbers.
LEMMA NumberedEvents ==
  ASSUME HubInv, NEW c \in Clients
  PROVE  /\ got[c] \in Seq(Events) /\ batch[c] \in Seq(Events) /\ send[c] \in Seq(Events)
         /\ InMessage(got[c]) \subseteq Events /\ InMessage(batch[c]) \subseteq Events
         /\ InMessage(send[c]) \subseteq Events
         /\ Handled(c) \subseteq Int /\ Waiting \subseteq Int
         /\ published \in Nat
  <1>1. /\ got[c] \in Seq(Events) /\ batch[c] \in Seq(Events) /\ send[c] \in Seq(Events)
        /\ eventCh \in Seq(Events) /\ broadcast \in Seq(Events)
        /\ held \in 0..MaxEvents /\ published \in 0..MaxEvents
    BY DEF HubInv, HubTypeOK
  <1>2. /\ InMessage(got[c]) \subseteq Events /\ InMessage(batch[c]) \subseteq Events
        /\ InMessage(send[c]) \subseteq Events
        /\ InMessage(eventCh) \subseteq Events /\ InMessage(broadcast) \subseteq Events
    BY <1>1, ChannelFacts
  <1>3. Events \subseteq Int
    BY DEF Events
  <1>4. held \in Int /\ published \in Nat
    BY <1>1, HubAssumption
  <1> QED BY <1>1, <1>2, <1>3, <1>4 DEF Handled, Waiting

\* An event that is broadcast follows all that the client has, what is taken or written
\* comes before what stays.
LEMMA ServedOrderStep ==
  ASSUME HubInv, HubInv', Unserved, FeedOrder, [HubNext]_hubVars,
         NEW c \in Clients, ServedOrder(c)
  PROVE  ServedOrder(c)'
  <1>1. /\ Handled(c) \subseteq Int /\ Waiting \subseteq Int
        /\ published \in Nat /\ published' \in Nat
        /\ got[c] \in Seq(Events) /\ batch[c] \in Seq(Events) /\ send[c] \in Seq(Events)
    <2>1. published' \in 0..MaxEvents
      BY DEF HubInv, HubTypeOK
    <2> QED BY <2>1, NumberedEvents, HubAssumption
  <1>2. /\ Increasing(send[c])
        /\ Before(InMessage(batch[c]), InMessage(send[c]))
        /\ Before(InMessage(got[c]), InMessage(batch[c]) \union InMessage(send[c]))
        /\ Before(Handled(c), Waiting)
        /\ \A e \in Handled(c) : e <= published
    BY DEF ServedOrder
  <1>3. published <= published' /\ \A e \in Waiting' : e \in Waiting \/ (e \in Int /\ e > published)
    BY FeedOrderStep
  <1>4. /\ {send, batch, got} \subseteq [Clients -> Seq(Events)]
        /\ writer \in [Clients -> {"off", "select", "write", "done"}]
    BY DEF HubInv, HubTypeOK
  <1>5. ASSUME Handled(c)' \subseteq Handled(c)
        PROVE  Before(Handled(c)', Waiting') /\ \A e \in Handled(c)' : e <= published'
    <2>1. ASSUME NEW x \in Handled(c)', NEW y \in Waiting' PROVE x < y
      <3>1. x \in Handled(c) /\ x \in Int /\ x <= published
        BY <1>1, <1>2, <1>5
      <3>2. CASE y \in Waiting
        BY <1>2, <3>1, <3>2 DEF Before
      <3>3. CASE y \in Int /\ y > published
        BY <1>1, <3>1, <3>3
      <3> QED BY <1>3, <3>2, <3>3
    <2>2. ASSUME NEW x \in Handled(c)' PROVE x <= published'
      BY <1>1, <1>2, <1>3, <1>5
    <2> QED BY <2>1, <2>2 DEF Before
  <1>6. CASE got'[c] = got[c] /\ batch'[c] = batch[c] /\ send'[c] \in {send[c], <<>>}
    <2>1. /\ InMessage(got'[c]) = InMessage(got[c]) /\ InMessage(batch'[c]) = InMessage(batch[c])
          /\ InMessage(send'[c]) \subseteq InMessage(send[c]) /\ Increasing(send'[c])
      BY <1>2, <1>6, ChannelFacts
    <2>2. Handled(c)' \subseteq Handled(c)
      BY <2>1 DEF Handled
    <2>3. /\ Before(InMessage(batch'[c]), InMessage(send'[c]))
          /\ Before(InMessage(got'[c]), InMessage(batch'[c]) \union InMessage(send'[c]))
      BY <1>2, <2>1 DEF Before
    <2> QED BY <1>5, <2>1, <2>2, <2>3 DEF ServedOrder
  <1>7. CASE HubBroadcast
    <2> DEFINE e == Head(broadcast)
    <2>1. /\ got' = got /\ batch' = batch /\ broadcast # <<>> /\ broadcast' = Tail(broadcast)
          /\ UNCHANGED <<held, eventCh, published>>
          /\ send'[c] = send[c] \/ send'[c] = Append(send[c], e)
      BY <1>7 DEF HubBroadcast, clientVars, feedVars
    <2>2. broadcast \in Seq(Events)
      BY DEF HubInv, HubTypeOK
    <2>3. /\ InMessage(broadcast) = {e} \union InMessage(broadcast')
          /\ Before({e}, InMessage(broadcast')) /\ e \in Events
      BY <2>1, <2>2, ChannelFacts, HeadTailProperties DEF FeedOrder
    <2> HIDE DEF e
    <2>4. Before({e}, Waiting') /\ Waiting' \subseteq Waiting /\ e \in Waiting
      BY <2>1, <2>3 DEF FeedOrder, Waiting, Before
    <2>5. CASE send'[c] = Append(send[c], e)
      <3>1. Before(Handled(c), {e})
        BY <1>2, <2>4 DEF Before
      <3>2. Before(InMessage(send[c]), {e})
        BY <3>1 DEF Before, Handled
      <3>3. InMessage(send'[c]) = InMessage(send[c]) \union {e} /\ Increasing(send'[c])
        <4>1. \A s \in Seq(Events) :
                Increasing(s) /\ Before(InMessage(s), {e}) =>
                  /\ InMessage(Append(s, e)) = InMessage(s) \union {e}
                  /\ Increasing(Append(s, e))
          BY <2>3, ChannelFacts
        <4> QED BY <1>1, <1>2, <2>5, <3>2, <4>1
      <3>4. Handled(c)' = Handled(c) \union {e}
        BY <2>1, <3>3 DEF Handled
      <3>5. Before(Handled(c)', Waiting')
        BY <1>2, <2>4, <3>4 DEF Before
      <3>6. e <= published
        BY <2>4 DEF FeedOrder
      <3>7. \A x \in Handled(c)' : x <= published'
        BY <1>2, <2>1, <3>4, <3>6
      <3>8. /\ Before(InMessage(batch[c]), InMessage(send'[c]))
            /\ Before(InMessage(got[c]), InMessage(batch[c]) \union InMessage(send'[c]))
        BY <1>2, <3>1, <3>3 DEF Before, Handled
      <3> QED BY <2>1, <3>3, <3>5, <3>7, <3>8 DEF ServedOrder
    <2> QED BY <1>6, <2>1, <2>5
  <1>8. CASE WriteTake(c)
    <2>1. /\ writer[c] = "select" /\ send[c] # <<>>
          /\ batch'[c] = <<Head(send[c])>> /\ send'[c] = Tail(send[c]) /\ got' = got
      BY <1>4, <1>8 DEF WriteTake
    <2>2. /\ InMessage(send[c]) = {Head(send[c])} \union InMessage(send'[c])
          /\ Increasing(send'[c]) /\ Before({Head(send[c])}, InMessage(send'[c]))
      BY <1>1, <1>2, <2>1, ChannelFacts
    <2>3. InMessage(batch'[c]) = {Head(send[c])}
      <3>1. \A e : InMessage(<<e>>) = {e}
        BY DEF InMessage
      <3> QED BY <2>1, <3>1
    <2>4. Handled(c)' \subseteq Handled(c)
      BY <2>1, <2>2, <2>3 DEF Handled
    <2>5. /\ Before(InMessage(batch'[c]), InMessage(send'[c]))
          /\ Before(InMessage(got'[c]), InMessage(batch'[c]) \union InMessage(send'[c]))
      BY <1>2, <2>1, <2>2, <2>3 DEF Before
    <2> QED BY <1>5, <2>2, <2>4, <2>5 DEF ServedOrder
  <1>9. CASE Write(c)
    <2>1. /\ got'[c] = View(got[c], batch[c], send[c])
          /\ batch'[c] = <<>> /\ send'[c] = <<>>
      BY <1>4, <1>9 DEF Write, View
    <2>2. InMessage(got'[c]) = Handled(c)
      BY <1>1, <2>1, ViewElements DEF Handled
    <2>3. InMessage(batch'[c]) = {} /\ InMessage(send'[c]) = {} /\ Increasing(send'[c])
      BY <2>1, ChannelFacts
    <2>4. Handled(c)' \subseteq Handled(c)
      BY <2>2, <2>3 DEF Handled
    <2>5. /\ Before(InMessage(batch'[c]), InMessage(send'[c]))
          /\ Before(InMessage(got'[c]), InMessage(batch'[c]) \union InMessage(send'[c]))
      BY <2>3 DEF Before
    <2> QED BY <1>5, <2>3, <2>4, <2>5 DEF ServedOrder
  <1>10. CASE WriteFails(c) \/ WriteClosed(c)
    <2>1. got' = got /\ batch' = batch /\ send'[c] \in {send[c], <<>>}
      BY <1>4, <1>10 DEF WriteFails, WriteClosed, WriteEnd
    <2> QED BY <1>6, <2>1
  <1>11. ASSUME NEW d \in Clients, d # c,
                WriteTake(d) \/ Write(d) \/ WriteFails(d) \/ WriteClosed(d)
         PROVE  got'[c] = got[c] /\ batch'[c] = batch[c] /\ send'[c] = send[c]
    BY <1>4, <1>11 DEF WriteTake, Write, WriteFails, WriteClosed, WriteEnd
  <1>12. ASSUME NEW d \in Clients,
                \/ HubRegister(d) \/ HubUnregister(d) \/ Connect(d) \/ ReadFails(d) \/ ReadEnd(d)
         PROVE  UNCHANGED <<got, batch, send>>
    BY <1>12 DEF HubRegister, HubUnregister, Connect, ReadFails, ReadEnd, viewVars
  <1>13. CASE \/ Subscribe \/ SubscribeFails \/ CloseStop \/ StopReturn
              \/ Publish \/ ForwardReceive \/ ForwardSend \/ ForwardStop \/ HubStop
    <2>1. UNCHANGED <<got, batch, send>>
      BY <1>13 DEF Subscribe, SubscribeFails, Start, CloseStop, StopReturn, Publish,
         ForwardReceive, ForwardSend, ForwardStop, Forwarding, HubStop, clientVars, viewVars
    <2> QED BY <1>6, <2>1
  <1>14. CASE UNCHANGED hubVars
    BY <1>6, <1>14 DEF hubVars, clientVars, viewVars
  <1> QED
    BY <1>6, <1>7, <1>8, <1>9, <1>10, <1>11, <1>12, <1>13, <1>14 DEF HubNext

(***************************************************************************)
(* The wire.                                                               *)
(***************************************************************************)
Messages == Seq(Events) \ {<<>>}

\* What was added at the end of a sequence.
LEMMA Suffix ==
  ASSUME NEW S
  PROVE  \A s, t \in Seq(S) : SubSeq(s \o t, Len(s) + 1, Len(s \o t)) = t
  <1> SUFFICES ASSUME NEW s \in Seq(S), NEW t \in Seq(S)
               PROVE  SubSeq(s \o t, Len(s) + 1, Len(s \o t)) = t
    OBVIOUS
  <1> DEFINE g == s \o t
             n == Len(s)
             r == SubSeq(g, n + 1, Len(g))
  <1>1. /\ g \in Seq(S) /\ Len(g) = n + Len(t) /\ n \in Nat /\ Len(t) \in Nat
        /\ \A i \in 1..n + Len(t) : g[i] = IF i <= n THEN s[i] ELSE t[i - n]
    BY ConcatProperties, LenProperties
  <1> HIDE DEF g, n
  <1>2. \A i \in 1..Len(t) : n + i \in 1..n + Len(t) /\ ~ (n + i <= n) /\ (n + i) - n = i
    BY <1>1
  <1>3. \A i \in 1..Len(t) : g[n + i] = t[i]
    <2> SUFFICES ASSUME NEW i \in 1..Len(t) PROVE g[n + i] = t[i]
      OBVIOUS
    <2>1. g[n + i] = t[(n + i) - n]
      BY <1>1, <1>2
    <2> QED BY <1>2, <2>1
  <1>4. \A i \in n + 1..Len(g) : g[i] \in S
    <2>1. \A i \in n + 1..Len(g) : i \in 1..Len(g)
      BY <1>1
    <2> QED BY <1>1, <2>1, ElementOfSeq
  <1>5. /\ r \in Seq(S)
        /\ Len(r) = IF n + 1 <= Len(g) THEN Len(g) - (n + 1) + 1 ELSE 0
        /\ \A i \in 1..Len(g) - (n + 1) + 1 : r[i] = g[(n + 1) + i - 1]
    BY <1>1, <1>4, SubSeqProperties
  <1> HIDE DEF r
  <1>6. Len(r) = Len(t)
    BY <1>1, <1>5
  <1>7. ASSUME NEW i \in 1..Len(t) PROVE r[i] = t[i]
    <2>1. i \in 1..Len(g) - (n + 1) + 1 /\ (n + 1) + i - 1 = n + i
      BY <1>1
    <2> QED BY <1>3, <1>5, <2>1
  <1>8. r = t
    BY <1>5, <1>6, <1>7, SeqEqual
  <1> QED BY <1>8 DEF r, g, n

\* One more message on the wire, of the events that were in the batch and the buffer,
\* or none (WritePump).
LEMMA WireStep ==
  ASSUME HubInv, HubStep, NEW c \in Clients
  PROVE  \/ got'[c] = got[c] /\ wire'[c] = wire[c]
         \/ \E m \in Messages :
              /\ wire'[c] = Append(wire[c], m)
              /\ InMessage(m) = InMessage(batch[c]) \union InMessage(send[c])
              /\ InMessage(got'[c]) = InMessage(got[c]) \union InMessage(m)
  <1>1. /\ {send, batch, got} \subseteq [Clients -> Seq(Events)]
        /\ got[c] \in Seq(Events) /\ batch[c] \in Seq(Events) /\ send[c] \in Seq(Events)
    BY DEF HubInv, HubTypeOK
  <1>2. wire'[c] = IF got'[c] = got[c] THEN wire[c] ELSE Append(wire[c], Written(c))
    BY DEF HubStep, OnTheWire
  <1>3. CASE got'[c] = got[c]
    BY <1>2, <1>3
  <1>4. CASE got'[c] # got[c] /\ Write(c)
    <2>1. got'[c] = got[c] \o batch[c] \o send[c]
      BY <1>1, <1>4 DEF Write
    <2>2. PICK m \in Seq(Events) : m = batch[c] \o send[c]
      BY <1>1, ConcatProperties
    <2>3. got'[c] = got[c] \o m
      <3>1. \A g, b, s \in Seq(Events) : (g \o b) \o s = g \o (b \o s)
        BY ConcatAssociative
      <3> QED BY <1>1, <2>1, <2>2, <3>1
    <2>4. m # <<>>
      BY <1>1, <1>4, <2>3, ConcatEmptySeq
    <2>5. Written(c) = m
      <3>1. \A s, t \in Seq(Events) : SubSeq(s \o t, Len(s) + 1, Len(s \o t)) = t
        BY Suffix
      <3>2. SubSeq(got[c] \o m, Len(got[c]) + 1, Len(got[c] \o m)) = m
        BY <1>1, <3>1
      <3> QED BY <2>3, <3>2 DEF Written
    <2>6. \A s, t \in Seq(Events) : InMessage(s \o t) = InMessage(s) \union InMessage(t)
      BY ConcatElements
    <2>7. InMessage(m) = InMessage(batch[c]) \union InMessage(send[c])
      BY <1>1, <2>2, <2>6
    <2>8. InMessage(got'[c]) = InMessage(got[c]) \union InMessage(m)
      BY <1>1, <2>3, <2>6
    <2> QED BY <1>2, <1>4, <2>2, <2>4, <2>5, <2>7, <2>8 DEF Messages
  <1>5. ASSUME got'[c] # got[c] PROVE Write(c)
    <2>1. ASSUME NEW d \in Clients,
                 \/ HubRegister(d) \/ HubUnregister(d) \/ Connect(d) \/ ReadFails(d)
                 \/ ReadEnd(d) \/ WriteTake(d) \/ WriteFails(d) \/ WriteClosed(d)
          PROVE  got' = got
      BY <2>1 DEF HubRegister, HubUnregister, Connect, ReadFails, ReadEnd, WriteTake,
         WriteFails, WriteClosed, WriteEnd
    <2>2. ASSUME NEW d \in Clients, Write(d), d # c PROVE got'[c] = got[c]
      BY <1>1, <2>2 DEF Write
    <2>3. ASSUME \/ Subscribe \/ SubscribeFails \/ CloseStop \/ StopReturn
                 \/ Publish \/ ForwardReceive \/ ForwardSend \/ ForwardStop
                 \/ HubBroadcast \/ HubStop
          PROVE  got' = got
      BY <2>3 DEF Subscribe, SubscribeFails, Start, CloseStop, StopReturn, Publish,
         ForwardReceive, ForwardSend, ForwardStop, Forwarding, HubBroadcast, HubStop, clientVars
    <2> QED BY <1>5, <2>1, <2>2, <2>3 DEF HubStep, HubNext
  <1> QED BY <1>3, <1>4, <1>5

(***************************************************************************)
(* Types and control of the client.                                        *)
(***************************************************************************)

\* What ClientInv says about a single client.
ClientAt(c) ==
  /\ hand[c] # 0 <=> ws[c] \in {"put", "drop", "send"}
  /\ Len(events[c]) <= ClientCap
  /\ ws[c] = "off" <=> conn[c] = "none"
  /\ closed[c] <=> ws[c] = "done"
  /\ reader[c] = "none" <=> conn[c] = "none"

\* No connection has been made.
LEMMA ClientInitInv == HubInit /\ ClientInit => ClientInv
  <1> SUFFICES ASSUME HubInit, ClientInit PROVE ClientInv
    OBVIOUS
  <1>1. <<>> \in Seq(Messages) /\ <<>> \in Seq(Events) /\ Len(<<>>) = 0
    OBVIOUS
  <1>2. ClientTypeOK
    BY <1>1, HubAssumption DEF ClientInit, ClientTypeOK, Messages
  <1> QED BY <1>1, <1>2, EventClientAssumption DEF HubInit, ClientInit, ClientInv

\* A step of the hub other than a connection puts at most a message on the wire.
LEMMA ClientInvHub ==
  ASSUME HubInv, HubInv', ClientInv, HubStep
  PROVE  ClientInv'
  <1>1. ClientTypeOK /\ \A c \in Clients : ClientAt(c)
    BY DEF ClientInv, ClientAt
  <1>2. ASSUME NEW c \in Clients PROVE wire'[c] \in Seq(Messages)
    <2>1. wire[c] \in Seq(Messages)
      BY <1>1 DEF ClientTypeOK, Messages
    <2> QED BY <2>1, WireStep, AppendProperties
  <1>3. wire' \in [Clients -> Seq(Messages)]
    BY <1>2 DEF HubStep, OnTheWire
  <1>4. UNCHANGED <<conn, done, closer, taken, ws, hand, events, closed, skipped, overrun>>
    BY DEF HubStep, readerVars
  <1>5. reader \in [Clients -> {"none", "register", "read", "unregister", "close", "done"}]
    BY DEF HubInv, HubTypeOK
  <1>6. ASSUME NEW c \in Clients PROVE reader'[c] = "none" <=> reader[c] = "none"
    <2>1. ASSUME NEW d \in Clients,
                 \/ HubRegister(d) \/ HubUnregister(d) \/ Connect(d)
                 \/ ReadFails(d) \/ ReadEnd(d)
          PROVE  reader[c] # "none" => reader'[c] # "none"
      BY <1>5, <2>1 DEF HubRegister, HubUnregister, Connect, ReadFails, ReadEnd
    <2>2. ASSUME NEW d \in Clients,
                 WriteTake(d) \/ Write(d) \/ WriteFails(d) \/ WriteClosed(d)
          PROVE  reader' = reader
      BY <2>2 DEF WriteTake, Write, WriteFails, WriteClosed, WriteEnd
    <2>3. ASSUME \/ Subscribe \/ SubscribeFails \/ CloseStop \/ StopReturn
                 \/ Publish \/ ForwardReceive \/ ForwardSend \/ ForwardStop
                 \/ HubBroadcast \/ HubStop
          PROVE  reader' = reader
      BY <2>3 DEF Subscribe, SubscribeFails, Start, CloseStop, StopReturn, Publish,
         ForwardReceive, ForwardSend, ForwardStop, Forwarding, HubBroadcast, HubStop, clientVars
    <2>4. reader[c] # "none" => reader'[c] # "none"
      BY <2>1, <2>2, <2>3 DEF HubStep, HubNext
    <2> QED BY <2>4 DEF HubStep
  <1>7. ClientTypeOK'
    BY <1>1, <1>3, <1>4 DEF ClientTypeOK, Messages
  <1> QED BY <1>1, <1>4, <1>6, <1>7 DEF ClientInv, ClientAt

\* A step of the application or of readLoop.
LEMMA ClientInvClient ==
  ASSUME HubInv, ClientInv, NEW d \in Clients, ClientStep(d)
  PROVE  ClientInv'
  <1>1. /\ wire \in [Clients -> Seq(Messages)]
        /\ conn \in [Clients -> {"none", "open", "closed"}]
        /\ done \in [Clients -> BOOLEAN] /\ closed \in [Clients -> BOOLEAN]
        /\ closer \in [Clients -> {"no", "signaled", "over"}]
        /\ ws \in [Clients -> {"off", "select", "read", "put", "drop", "send", "end", "done"}]
        /\ hand \in [Clients -> 0..MaxEvents]
        /\ events \in [Clients -> Seq(Events)] /\ taken \in [Clients -> Seq(Events)]
        /\ skipped \in [Clients -> SUBSET Events] /\ overrun \in [Clients -> SUBSET Events]
        /\ reader \in [Clients -> {"none", "register", "read", "unregister", "close", "done"}]
    BY DEF ClientInv, ClientTypeOK, Messages, HubInv, HubTypeOK
  <1>2. \A c \in Clients : ClientAt(c)
    BY DEF ClientInv, ClientAt
  <1>3. SUFFICES /\ wire' \in [Clients -> Seq(Messages)]
                 /\ conn' \in [Clients -> {"none", "open", "closed"}]
                 /\ done' \in [Clients -> BOOLEAN] /\ closed' \in [Clients -> BOOLEAN]
                 /\ closer' \in [Clients -> {"no", "signaled", "over"}]
                 /\ ws' \in [Clients -> {"off", "select", "read", "put", "drop", "send", "end", "done"}]
                 /\ hand' \in [Clients -> 0..MaxEvents]
                 /\ events' \in [Clients -> Seq(Events)] /\ taken' \in [Clients -> Seq(Events)]
                 /\ skipped' \in [Clients -> SUBSET Events]
                 /\ overrun' \in [Clients -> SUBSET Events]
                 /\ \A c \in Clients : ClientAt(c)'
    BY DEF ClientInv, ClientAt, ClientTypeOK, Messages
  <1>4. /\ wire[d] # <<>> => /\ Head(wire[d]) \in Messages /\ Tail(wire[d]) \in Seq(Messages)
        /\ events[d] # <<>> => /\ Head(events[d]) \in Events /\ Tail(events[d]) \in Seq(Events)
                               /\ Len(Tail(events[d])) <= ClientCap
        /\ \A e \in Events : Append(taken[d], e) \in Seq(Events)
        /\ \A e \in Events : /\ Append(events[d], e) \in Seq(Events)
                             /\ HasSpace(d) => Len(Append(events[d], e)) <= ClientCap
    BY <1>1, <1>2, ChannelOps, EventClientAssumption DEF ClientAt, HasSpace
  <1>5. 0 \in 0..MaxEvents /\ \A e \in Events : e \in 0..MaxEvents /\ e # 0
    BY HubAssumption DEF Events
  <1>6. \A m \in Messages : InMessage(m) \subseteq Events /\ Head(m) \in Events
    BY Elements, HeadTailProperties DEF Messages
  <1>7. CASE Dial(d)
    <2>1. /\ conn[d] = "none" /\ conn' = [conn EXCEPT ![d] = "open"]
          /\ done' = [done EXCEPT ![d] = FALSE]
          /\ ws' = [ws EXCEPT ![d] = "select"]
          /\ reader' = [reader EXCEPT ![d] = "register"]
          /\ UNCHANGED <<wire, closer, taken, hand, events, closed, skipped, overrun>>
      BY <1>7 DEF Dial, Connect
    <2>2. \A c \in Clients : ClientAt(c)'
      BY <1>1, <1>2, <2>1 DEF ClientAt
    <2> QED BY <1>1, <2>1, <2>2
  <1>8. CASE CloseSignal(d)
    <2>1. /\ closer' = [closer EXCEPT ![d] = "signaled"]
          /\ done' = [done EXCEPT ![d] = TRUE]
          /\ UNCHANGED <<wire, conn, taken, ws, hand, events, closed, skipped, overrun, reader>>
      BY <1>8 DEF CloseSignal, readerVars, InClient, hubVars, clientVars
    <2>2. \A c \in Clients : ClientAt(c)'
      BY <1>2, <2>1 DEF ClientAt
    <2> QED BY <1>1, <2>1, <2>2
  <1>17. CASE CloseConn(d)
    <2>1. /\ closer' = [closer EXCEPT ![d] = "over"]
          /\ conn' = [conn EXCEPT ![d] = IF @ = "open" THEN "closed" ELSE @]
          /\ UNCHANGED <<wire, done, taken, ws, hand, events, closed, skipped, overrun, reader>>
      BY <1>17 DEF CloseConn, readerVars, InClient, hubVars, clientVars
    <2>2. \A c \in Clients : ClientAt(c)'
      BY <1>1, <1>2, <2>1 DEF ClientAt
    <2> QED BY <1>1, <2>1, <2>2
  <1>9. CASE LookAtDone(d) \/ PutFull(d) \/ ReadError(d)
    <2>1. /\ \/ ws[d] \in {"select", "read"} /\ ws' \in {[ws EXCEPT ![d] = p] : p \in {"read", "end"}}
             \/ ws[d] = "put" /\ ws' = [ws EXCEPT ![d] = "drop"]
          /\ UNCHANGED <<wire, conn, done, closer, taken, hand, events, closed, skipped,
                         overrun, reader>>
      BY <1>9 DEF LookAtDone, PutFull, ReadError, Reader, InClient, hubVars, clientVars
    <2>2. \A c \in Clients : ClientAt(c)'
      BY <1>1, <1>2, <2>1 DEF ClientAt
    <2>3. ws' \in [Clients -> {"off", "select", "read", "put", "drop", "send", "end", "done"}]
      BY <1>1, <2>1
    <2> QED BY <1>1, <2>1, <2>2, <2>3
  <1>10. CASE ReadEvent(d)
    <2>1. hand'[d] \in Events /\ wire' \in [Clients -> Seq(Messages)]
      BY <1>1, <1>4, <1>6, <1>10 DEF ReadEvent, NextMessage, TakeMessage
    <2>2. hand' \in [Clients -> 0..MaxEvents]
      BY <1>1, <1>5, <1>10, <2>1 DEF ReadEvent
    <2> QED BY <1>1, <1>2, <1>5, <1>10, <2>1, <2>2 DEF ReadEvent, Reader, InClient, hubVars,
        clientVars, ClientAt
  <1>11. CASE SkipMessage(d)
    <2>1. skipped' \in [Clients -> SUBSET Events] /\ wire' \in [Clients -> Seq(Messages)]
      BY <1>1, <1>4, <1>6, <1>11 DEF SkipMessage, NextMessage, TakeMessage
    <2> QED BY <1>1, <1>2, <1>11, <2>1 DEF SkipMessage, Reader, InClient, hubVars,
        clientVars, ClientAt
  <1>12. CASE Put(d) \/ SendAfterDrop(d)
    <2>1. /\ ws[d] \in {"put", "send"} /\ HasSpace(d) /\ Deliver(d)
          /\ ws' = [ws EXCEPT ![d] = "select"]
          /\ UNCHANGED <<conn, done, closer, taken, reader>>
      BY <1>12 DEF Put, SendAfterDrop, Reader, InClient, hubVars, clientVars
    <2>2. hand[d] \in Events
      BY <1>1, <1>2, <2>1 DEF ClientAt, Events
    <2>3. events' \in [Clients -> Seq(Events)] /\ hand' \in [Clients -> 0..MaxEvents]
      BY <1>1, <1>4, <1>5, <2>1, <2>2 DEF Deliver
    <2>4. \A c \in Clients : Len(events'[c]) <= ClientCap
      BY <1>1, <1>2, <1>4, <2>1, <2>2 DEF Deliver, ClientAt
    <2> QED BY <1>1, <1>2, <2>1, <2>3, <2>4 DEF Deliver, ClientAt
  <1>13. CASE PutStopped(d)
    BY <1>1, <1>2, <1>5, <1>13 DEF PutStopped, Reader, InClient, hubVars, clientVars, ClientAt
  <1>14. CASE DropOldest(d)
    <2>1. /\ ws[d] = "drop" /\ ws' = [ws EXCEPT ![d] = "send"]
          /\ UNCHANGED <<conn, done, closer, taken, wire, hand, closed, skipped, reader>>
      BY <1>14 DEF DropOldest, Reader, InClient, hubVars, clientVars
    <2>2. CASE events[d] = <<>>
      <3>1. UNCHANGED <<events, overrun>>
        BY <1>14, <2>2 DEF DropOldest
      <3>2. \A c \in Clients : ClientAt(c)'
        BY <1>1, <1>2, <2>1, <3>1 DEF ClientAt
      <3> QED BY <1>1, <2>1, <3>1, <3>2
    <2>3. CASE events[d] # <<>>
      <3>1. /\ events' = [events EXCEPT ![d] = Tail(@)]
            /\ overrun' = [overrun EXCEPT ![d] = @ \union {Head(events[d])}]
        BY <1>14, <2>3 DEF DropOldest
      <3>2. overrun' \in [Clients -> SUBSET Events]
        BY <1>1, <1>4, <2>3, <3>1
      <3>3. /\ events' \in [Clients -> Seq(Events)]
            /\ \A c \in Clients : Len(events'[c]) <= ClientCap
        BY <1>1, <1>2, <1>4, <2>3, <3>1 DEF ClientAt
      <3>4. \A c \in Clients : ClientAt(c)'
        BY <1>1, <1>2, <2>1, <3>3 DEF ClientAt
      <3> QED BY <1>1, <2>1, <3>2, <3>3, <3>4
    <2> QED BY <2>2, <2>3
  <1>15. CASE CloseEvents(d)
    BY <1>1, <1>2, <1>15 DEF CloseEvents, Reader, InClient, hubVars, clientVars, ClientAt
  <1>16. CASE Receive(d)
    <2>1. /\ taken' \in [Clients -> Seq(Events)] /\ events' \in [Clients -> Seq(Events)]
          /\ \A c \in Clients : Len(events'[c]) <= ClientCap
      BY <1>1, <1>2, <1>4, <1>16 DEF Receive, ClientAt
    <2> QED BY <1>1, <1>2, <1>16, <2>1 DEF Receive, InClient, hubVars, clientVars, ClientAt
  <1> QED
    BY <1>7, <1>8, <1>9, <1>10, <1>11, <1>12, <1>13, <1>14, <1>15, <1>16, <1>17
    DEF ClientStep, ReadLoop

(***************************************************************************)
(* What the client has, and what is on the wire.                           *)
(***************************************************************************)

\* The events of the messages on the wire, and their order from message to message.
OfWire(w) == UNION {InMessage(w[i]) : i \in DOMAIN w}
WireOrdered(w) ==
  \A i, j \in DOMAIN w : i < j => Before(InMessage(w[i]), InMessage(w[j]))

\* Stored(c) is the Join of what was received and what is in the buffer.
Join(t, v) == t \o v

\* A message is added at the end of the wire or taken from its front.
LEMMA WireFacts ==
  \A w \in Seq(Messages) :
    /\ \A m \in Messages :
         /\ OfWire(Append(w, m)) = OfWire(w) \union InMessage(m)
         /\ WireOrdered(w) /\ Before(OfWire(w), InMessage(m)) => WireOrdered(Append(w, m))
    /\ w # <<>> =>
         /\ OfWire(w) = InMessage(Head(w)) \union OfWire(Tail(w))
         /\ WireOrdered(w) => /\ WireOrdered(Tail(w))
                              /\ Before(InMessage(Head(w)), OfWire(Tail(w)))
  <1> SUFFICES ASSUME NEW w \in Seq(Messages)
               PROVE  /\ \A m \in Messages :
                           /\ OfWire(Append(w, m)) = OfWire(w) \union InMessage(m)
                           /\ WireOrdered(w) /\ Before(OfWire(w), InMessage(m))
                                => WireOrdered(Append(w, m))
                      /\ w # <<>> =>
                           /\ OfWire(w) = InMessage(Head(w)) \union OfWire(Tail(w))
                           /\ WireOrdered(w) => /\ WireOrdered(Tail(w))
                                                /\ Before(InMessage(Head(w)), OfWire(Tail(w)))
    OBVIOUS
  <1>1. Len(w) \in Nat /\ DOMAIN w = 1..Len(w)
    BY LenProperties
  <1>2. ASSUME NEW m \in Messages
        PROVE  /\ OfWire(Append(w, m)) = OfWire(w) \union InMessage(m)
               /\ WireOrdered(w) /\ Before(OfWire(w), InMessage(m)) => WireOrdered(Append(w, m))
    <2> DEFINE g == Append(w, m)
    <2>1. /\ g \in Seq(Messages) /\ Len(g) = Len(w) + 1
          /\ \A i \in 1..Len(w) : g[i] = w[i]
          /\ g[Len(w) + 1] = m
      BY AppendProperties
    <2>2. DOMAIN g = 1..Len(g)
      BY <2>1, LenProperties
    <2> HIDE DEF g
    <2>3. \A i \in 1..Len(g) : i \in 1..Len(w) \/ i = Len(w) + 1
      BY <1>1, <2>1
    <2>4. Len(w) + 1 \in 1..Len(g) /\ \A i \in 1..Len(w) : i \in 1..Len(g)
      BY <1>1, <2>1
    <2>5. OfWire(g) = OfWire(w) \union InMessage(m)
      <3>1. ASSUME NEW e \in OfWire(g) PROVE e \in OfWire(w) \union InMessage(m)
        BY <1>1, <2>1, <2>2, <2>3, <3>1 DEF OfWire
      <3>2. ASSUME NEW e \in OfWire(w) PROVE e \in OfWire(g)
        BY <1>1, <2>1, <2>2, <2>4, <3>2 DEF OfWire
      <3>3. ASSUME NEW e \in InMessage(m) PROVE e \in OfWire(g)
        BY <2>1, <2>2, <2>4, <3>3 DEF OfWire
      <3> QED BY <3>1, <3>2, <3>3
    <2>6. ASSUME WireOrdered(w), Before(OfWire(w), InMessage(m)) PROVE WireOrdered(g)
      <3> SUFFICES ASSUME NEW i \in 1..Len(g), NEW j \in 1..Len(g), i < j
                   PROVE  Before(InMessage(g[i]), InMessage(g[j]))
        BY <2>2 DEF WireOrdered
      <3>1. i \in 1..Len(w) /\ (j \in 1..Len(w) \/ j = Len(w) + 1)
        BY <1>1, <2>1
      <3>2. CASE j \in 1..Len(w)
        BY <1>1, <2>1, <2>6, <3>1, <3>2 DEF WireOrdered
      <3>3. CASE j = Len(w) + 1
        <4>1. InMessage(w[i]) \subseteq OfWire(w)
          BY <1>1, <3>1 DEF OfWire
        <4> QED BY <2>1, <2>6, <3>1, <3>3, <4>1 DEF Before
      <3> QED BY <3>1, <3>2, <3>3
    <2> QED BY <2>5, <2>6 DEF g
  <1>3. ASSUME w # <<>>
        PROVE  /\ OfWire(w) = InMessage(Head(w)) \union OfWire(Tail(w))
               /\ WireOrdered(w) => /\ WireOrdered(Tail(w))
                                    /\ Before(InMessage(Head(w)), OfWire(Tail(w)))
    <2> DEFINE t == Tail(w)
               h == Head(w)
    <2>1. /\ t \in Seq(Messages) /\ Len(t) = Len(w) - 1 /\ h = w[1]
          /\ \A i \in 1..Len(t) : t[i] = w[i + 1]
          /\ Len(w) \in Nat \ {0}
      BY <1>3, EmptySeq, HeadTailProperties
    <2>2. DOMAIN t = 1..Len(t)
      BY <2>1, LenProperties
    <2> HIDE DEF t, h
    <2>3. \A i \in 1..Len(w) : i = 1 \/ (i - 1 \in 1..Len(t) /\ w[i] = t[i - 1])
      <3> SUFFICES ASSUME NEW i \in 1..Len(w), i # 1
                   PROVE  i - 1 \in 1..Len(t) /\ w[i] = t[i - 1]
        OBVIOUS
      <3>1. i - 1 \in 1..Len(t) /\ (i - 1) + 1 = i
        BY <2>1
      <3> QED BY <2>1, <3>1
    <2>4. 1 \in 1..Len(w) /\ \A i \in 1..Len(t) : i + 1 \in 1..Len(w) /\ 1 < i + 1
      BY <2>1
    <2>5. OfWire(w) = InMessage(h) \union OfWire(t)
      <3>1. ASSUME NEW e \in OfWire(w) PROVE e \in InMessage(h) \union OfWire(t)
        BY <1>1, <2>1, <2>2, <2>3, <3>1 DEF OfWire
      <3>2. ASSUME NEW e \in OfWire(t) PROVE e \in OfWire(w)
        BY <1>1, <2>1, <2>2, <2>4, <3>2 DEF OfWire
      <3>3. ASSUME NEW e \in InMessage(h) PROVE e \in OfWire(w)
        BY <1>1, <2>1, <2>4, <3>3 DEF OfWire
      <3> QED BY <3>1, <3>2, <3>3
    <2>6. ASSUME WireOrdered(w), NEW i \in 1..Len(t), NEW j \in 1..Len(t), i < j
          PROVE  Before(InMessage(t[i]), InMessage(t[j]))
      <3>1. i + 1 < j + 1
        BY <2>6
      <3> QED BY <1>1, <2>1, <2>4, <2>6, <3>1 DEF WireOrdered
    <2>7. ASSUME WireOrdered(w), NEW i \in 1..Len(t)
          PROVE  Before(InMessage(h), InMessage(t[i]))
      BY <1>1, <2>1, <2>4, <2>7 DEF WireOrdered
    <2>8. WireOrdered(w) => WireOrdered(t) /\ Before(InMessage(h), OfWire(t))
      BY <2>2, <2>6, <2>7 DEF WireOrdered, OfWire, Before
    <2> QED BY <2>5, <2>8 DEF t, h
  <1> QED BY <1>2, <1>3

\* Two sequences in a row are in order when both are and the one comes before the other.
LEMMA ConcatOrder ==
  \A s, t \in Seq(Int) :
    Increasing(s \o t) <=>
      Increasing(s) /\ Increasing(t) /\ Before(InMessage(s), InMessage(t))
  <1> SUFFICES ASSUME NEW s \in Seq(Int), NEW t \in Seq(Int)
               PROVE  Increasing(s \o t) <=>
                        Increasing(s) /\ Increasing(t) /\ Before(InMessage(s), InMessage(t))
    OBVIOUS
  <1> DEFINE g == s \o t
             n == Len(s)
             k == Len(t)
  <1>1. /\ g \in Seq(Int) /\ Len(g) = n + k /\ n \in Nat /\ k \in Nat
        /\ DOMAIN s = 1..n /\ DOMAIN t = 1..k
        /\ \A i \in 1..n + k : g[i] = IF i <= n THEN s[i] ELSE t[i - n]
    BY ConcatProperties, LenProperties
  <1>2. DOMAIN g = 1..n + k
    BY <1>1, LenProperties
  <1> HIDE DEF g, n, k
  <1>3. \A i \in 1..n : i \in 1..n + k /\ g[i] = s[i]
    BY <1>1
  <1>4. ASSUME NEW i \in 1..k PROVE n + i \in 1..n + k /\ g[n + i] = t[i] /\ n < n + i
    <2>1. n + i \in 1..n + k /\ ~ (n + i <= n) /\ (n + i) - n = i /\ n < n + i
      BY <1>1
    <2> QED BY <1>1, <2>1
  <1>5. ASSUME NEW i \in 1..n + k
        PROVE  \/ i \in 1..n /\ g[i] = s[i]
               \/ i > n /\ i - n \in 1..k /\ g[i] = t[i - n]
    <2>1. CASE i <= n
      BY <1>1, <2>1
    <2>2. CASE i > n
      BY <1>1, <2>2
    <2> QED BY <1>1, <2>1, <2>2
  <1>6. ASSUME Increasing(g)
        PROVE  Increasing(s) /\ Increasing(t) /\ Before(InMessage(s), InMessage(t))
    <2>1. Increasing(s)
      BY <1>1, <1>2, <1>3, <1>6 DEF Increasing
    <2>2. ASSUME NEW i \in 1..k, NEW j \in 1..k, i < j PROVE t[i] < t[j]
      <3>1. n + i < n + j
        BY <1>1, <2>2
      <3> QED BY <1>2, <1>4, <1>6, <3>1 DEF Increasing
    <2>3. ASSUME NEW i \in 1..n, NEW j \in 1..k PROVE s[i] < t[j]
      <3>1. i < n + j
        BY <1>1
      <3> QED BY <1>2, <1>3, <1>4, <1>6, <3>1 DEF Increasing
    <2> QED BY <1>1, <2>1, <2>2, <2>3 DEF Increasing, Before, InMessage
  <1>7. ASSUME Increasing(s), Increasing(t), Before(InMessage(s), InMessage(t)),
               NEW i \in 1..n + k, NEW j \in 1..n + k, i < j
        PROVE  g[i] < g[j]
    <2>1. CASE i \in 1..n /\ j \in 1..n
      BY <1>1, <1>3, <1>7, <2>1 DEF Increasing
    <2>2. CASE i \in 1..n /\ j > n
      <3>1. s[i] \in InMessage(s) /\ g[i] = s[i]
        BY <1>1, <1>3, <2>2 DEF InMessage
      <3>2. j - n \in 1..k /\ g[j] = t[j - n]
        BY <1>1, <2>2
      <3>3. t[j - n] \in InMessage(t)
        BY <1>1, <3>2 DEF InMessage
      <3> QED BY <1>7, <3>1, <3>2, <3>3 DEF Before
    <2>3. CASE i > n /\ j > n
      <3>1. i - n \in 1..k /\ j - n \in 1..k /\ i - n < j - n
        BY <1>1, <1>7, <2>3
      <3>2. g[i] = t[i - n] /\ g[j] = t[j - n]
        BY <1>1, <2>3
      <3> QED BY <1>1, <1>7, <3>1, <3>2 DEF Increasing
    <2> QED BY <1>1, <1>7, <2>1, <2>2, <2>3
  <1>8. Increasing(g) <=>
          Increasing(s) /\ Increasing(t) /\ Before(InMessage(s), InMessage(t))
    BY <1>2, <1>6, <1>7 DEF Increasing
  <1> QED BY <1>8 DEF g

\* An event is put into the buffer, received from it or dropped for a newer one.
LEMMA StoredFacts ==
  /\ Join(<<>>, <<>>) = <<>>
  /\ \A t, v \in Seq(Events) :
       /\ Join(t, v) \in Seq(Events)
       /\ \A e \in Events : Join(t, Append(v, e)) = Append(Join(t, v), e)
       /\ v # <<>> =>
            /\ Join(Append(t, Head(v)), Tail(v)) = Join(t, v)
            /\ InMessage(Join(t, v)) = InMessage(Join(t, Tail(v))) \union {Head(v)}
            /\ Increasing(Join(t, v)) => Increasing(Join(t, Tail(v)))
  <1>1. Join(<<>>, <<>>) = <<>>
    BY ConcatEmptySeq DEF Join
  <1>2. ASSUME NEW t \in Seq(Events), NEW v \in Seq(Events)
        PROVE  Join(t, v) \in Seq(Events)
    BY <1>2, ConcatProperties DEF Join
  <1>3. ASSUME NEW t \in Seq(Events), NEW v \in Seq(Events), NEW e \in Events
        PROVE  Join(t, Append(v, e)) = Append(Join(t, v), e)
    <2>1. <<e>> \in Seq(Events) /\ Append(v, e) = v \o <<e>>
      BY AppendIsConcat
    <2>2. \A w \in Seq(Events) : (t \o v) \o w = t \o (v \o w)
      BY ConcatAssociative
    <2>3. Append(Join(t, v), e) = Join(t, v) \o <<e>>
      BY <1>2, AppendIsConcat
    <2> QED BY <2>1, <2>2, <2>3 DEF Join
  <1>4. ASSUME NEW t \in Seq(Events), NEW v \in Seq(Events), v # <<>>
        PROVE  Join(Append(t, Head(v)), Tail(v)) = Join(t, v)
    <2>1. Head(v) \in Events /\ Tail(v) \in Seq(Events) /\ v = <<Head(v)>> \o Tail(v)
      BY <1>4, HeadTailProperties, HeadAndTail
    <2>5. <<Head(v)>> \in Seq(Events)
      BY <2>1
    <2>2. PICK h \in Seq(Events) : h = <<Head(v)>>
      BY <2>5
    <2>3. \A r \in Seq(Events) : (t \o h) \o r = t \o (h \o r)
      BY <2>2, ConcatAssociative
    <2>4. Append(t, Head(v)) = t \o h
      BY <2>1, <2>2, AppendIsConcat
    <2> QED BY <2>1, <2>2, <2>3, <2>4 DEF Join
  <1>5. ASSUME NEW t \in Seq(Events), NEW v \in Seq(Events), v # <<>>
        PROVE  InMessage(Join(t, v)) = InMessage(Join(t, Tail(v))) \union {Head(v)}
    <2>1. /\ Tail(v) \in Seq(Events)
          /\ InMessage(v) = {Head(v)} \union InMessage(Tail(v))
      BY <1>5, HeadTailProperties, ChannelFacts
    <2>2. \A w \in Seq(Events) : InMessage(Join(t, w)) = InMessage(t) \union InMessage(w)
      BY ConcatElements DEF Join
    <2> QED BY <2>1, <2>2
  <1>6. ASSUME NEW t \in Seq(Events), NEW v \in Seq(Events), v # <<>>, Increasing(Join(t, v))
        PROVE  Increasing(Join(t, Tail(v)))
    <2>1. \A w \in Seq(Events) : w \in Seq(Int)
      <3>1. Events \subseteq Int
        BY DEF Events
      <3> QED BY <3>1, SeqMonotonic
    <2>2. \A w \in Seq(Events) :
            Increasing(Join(t, w)) <=>
              Increasing(t) /\ Increasing(w) /\ Before(InMessage(t), InMessage(w))
      BY <2>1, ConcatOrder DEF Join
    <2>3. Tail(v) \in Seq(Events)
      BY <1>6, HeadTailProperties
    <2>4. /\ InMessage(v) = {Head(v)} \union InMessage(Tail(v))
          /\ Increasing(v) => Increasing(Tail(v))
      BY <1>6, ChannelFacts
    <2>5. Increasing(t) /\ Increasing(v) /\ Before(InMessage(t), InMessage(v))
      BY <1>6, <2>2
    <2>6. Before(InMessage(t), InMessage(Tail(v)))
      BY <2>4, <2>5 DEF Before
    <2> QED BY <2>2, <2>3, <2>4, <2>5, <2>6
  <1> QED BY <1>1, <1>2, <1>3, <1>4, <1>5, <1>6

(***************************************************************************)
(* The order in which the client has its events, and none missing.         *)
(***************************************************************************)
New(c) == {hand[c]} \ {0}
Old(c) == InMessage(Stored(c)) \union overrun[c]

\* Nothing that ClientOrder and GotAccounted speak of has changed.
LEMMA ClientFrame ==
  ASSUME NEW c \in Clients, ClientOrder(c), GotAccounted(c),
         wire'[c] = wire[c], got'[c] = got[c], hand'[c] = hand[c],
         events'[c] = events[c], taken'[c] = taken[c], overrun'[c] = overrun[c],
         skipped'[c] = skipped[c],
         ws[c] = "send" => ws'[c] = "send",
         ws[c] \in {"end", "done"} => ws'[c] \in {"end", "done"}
  PROVE  ClientOrder(c)' /\ GotAccounted(c)'
  BY DEF ClientOrder, GotAccounted, Stored, OnWire

\* The types and sets that the steps of the client need.
LEMMA ClientSets ==
  ASSUME HubInv, ClientInv, NEW c \in Clients
  PROVE  /\ wire \in [Clients -> Seq(Messages)] /\ wire[c] \in Seq(Messages)
         /\ hand \in [Clients -> 0..MaxEvents]
         /\ ws \in [Clients -> {"off", "select", "read", "put", "drop", "send", "end", "done"}]
         /\ events \in [Clients -> Seq(Events)] /\ events[c] \in Seq(Events)
         /\ taken \in [Clients -> Seq(Events)] /\ taken[c] \in Seq(Events)
         /\ skipped \in [Clients -> SUBSET Events] /\ overrun \in [Clients -> SUBSET Events]
         /\ hand[c] # 0 <=> ws[c] \in {"put", "drop", "send"}
         /\ hand[c] # 0 => hand[c] \in Events
         /\ Stored(c) = Join(taken[c], events[c]) /\ Stored(c) \in Seq(Events)
         /\ OnWire(c) = OfWire(wire[c])
  <1>1. /\ wire \in [Clients -> Seq(Messages)]
        /\ hand \in [Clients -> 0..MaxEvents]
        /\ ws \in [Clients -> {"off", "select", "read", "put", "drop", "send", "end", "done"}]
        /\ events \in [Clients -> Seq(Events)] /\ taken \in [Clients -> Seq(Events)]
        /\ skipped \in [Clients -> SUBSET Events] /\ overrun \in [Clients -> SUBSET Events]
        /\ hand[c] # 0 <=> ws[c] \in {"put", "drop", "send"}
    BY DEF ClientInv, ClientTypeOK, Messages
  <1>2. hand[c] # 0 => hand[c] \in Events
    BY <1>1, HubAssumption DEF Events
  <1>3. Stored(c) = Join(taken[c], events[c]) /\ OnWire(c) = OfWire(wire[c])
    BY DEF Stored, Join, OnWire, OfWire
  <1>4. Stored(c) \in Seq(Events)
    BY <1>1, <1>3, StoredFacts
  <1> QED BY <1>1, <1>2, <1>3, <1>4

\* A message that is written follows everything the client has.
LEMMA ClientOrderHub ==
  ASSUME HubInv, ClientInv, HubStep, NEW c \in Clients,
         ServedOrder(c), ClientOrder(c), GotAccounted(c)
  PROVE  ClientOrder(c)' /\ GotAccounted(c)'
  <1>1. UNCHANGED <<conn, done, closer, taken, ws, hand, events, closed, skipped, overrun>>
    BY DEF HubStep, readerVars
  <1>2. CASE got'[c] = got[c] /\ wire'[c] = wire[c]
    BY <1>1, <1>2, ClientFrame
  <1>3. ASSUME NEW m \in Messages,
               wire'[c] = Append(wire[c], m),
               InMessage(m) = InMessage(batch[c]) \union InMessage(send[c]),
               InMessage(got'[c]) = InMessage(got[c]) \union InMessage(m)
        PROVE  ClientOrder(c)' /\ GotAccounted(c)'
    <2>1. wire[c] \in Seq(Messages)
      BY ClientSets
    <2>2. /\ Increasing(Stored(c)) /\ Before(Old(c), New(c))
          /\ ws[c] # "send" => \A e \in overrun[c] : \E x \in InMessage(Stored(c)) : e < x
          /\ Before(Old(c) \union New(c), OfWire(wire[c]))
          /\ WireOrdered(wire[c])
          /\ Old(c) \union New(c) \union OfWire(wire[c]) \subseteq InMessage(got[c])
      BY DEF ClientOrder, Old, New, OnWire, OfWire, WireOrdered
    <2>3. Before(InMessage(got[c]), InMessage(m))
      BY <1>3 DEF ServedOrder
    <2>4. Before(OfWire(wire[c]), InMessage(m)) /\ Before(Old(c) \union New(c), InMessage(m))
      BY <2>2, <2>3 DEF Before
    <2>5. OfWire(wire'[c]) = OfWire(wire[c]) \union InMessage(m) /\ WireOrdered(wire'[c])
      BY <1>3, <2>1, <2>2, <2>4, WireFacts
    <2>6. Stored(c)' = Stored(c) /\ Old(c)' = Old(c) /\ New(c)' = New(c)
      BY <1>1 DEF Stored, Old, New
    <2>7. Before(Old(c) \union New(c), OfWire(wire'[c]))
      BY <2>2, <2>4, <2>5 DEF Before
    <2>8. Old(c) \union New(c) \union OfWire(wire'[c]) \subseteq InMessage(got'[c])
      BY <1>3, <2>2, <2>5
    <2>9. ClientOrder(c)'
      BY <1>1, <2>2, <2>5, <2>6, <2>7, <2>8 DEF ClientOrder, Old, New, OnWire, OfWire, WireOrdered
    <2>10. GotAccounted(c)'
      <3>1. ws[c] \notin {"end", "done"} =>
              InMessage(got[c]) \subseteq InMessage(Stored(c)) \union New(c)
                                         \union OfWire(wire[c]) \union overrun[c] \union skipped[c]
        BY DEF GotAccounted, New, OnWire, OfWire
      <3>2. ws'[c] \notin {"end", "done"} =>
              InMessage(got'[c]) \subseteq InMessage(Stored(c)') \union New(c)'
                                          \union OfWire(wire'[c]) \union overrun'[c]
                                          \union skipped'[c]
        BY <1>1, <1>3, <2>5, <2>6, <3>1
      <3> QED BY <3>2 DEF GotAccounted, New, OnWire, OfWire
    <2> QED BY <2>9, <2>10
  <1> QED BY <1>2, <1>3, WireStep

\* ClientOrder and GotAccounted in terms of the sets.
LEMMA ClientOrderSets ==
  ASSUME NEW c \in Clients, ClientOrder(c), GotAccounted(c)
  PROVE  /\ Increasing(Stored(c)) /\ Before(Old(c), New(c))
         /\ ws[c] # "send" => \A e \in overrun[c] : \E x \in InMessage(Stored(c)) : e < x
         /\ Before(Old(c) \union New(c), OfWire(wire[c]))
         /\ WireOrdered(wire[c])
         /\ Old(c) \union New(c) \union OfWire(wire[c]) \subseteq InMessage(got[c])
         /\ ws[c] \notin {"end", "done"} =>
              InMessage(got[c]) \subseteq InMessage(Stored(c)) \union New(c)
                                         \union OfWire(wire[c]) \union overrun[c] \union skipped[c]
  BY DEF ClientOrder, GotAccounted, Old, New, OnWire, OfWire, WireOrdered

\* The same in the next state.
LEMMA ClientOrderFromSets ==
  ASSUME NEW c \in Clients, got'[c] = got[c],
         Increasing(Stored(c)'), Before(Old(c)', New(c)'),
         ws'[c] # "send" => \A e \in overrun'[c] : \E x \in InMessage(Stored(c)') : e < x,
         Before(Old(c)' \union New(c)', OfWire(wire'[c])),
         WireOrdered(wire'[c]),
         Old(c)' \union New(c)' \union OfWire(wire'[c]) \subseteq InMessage(got[c]),
         ws'[c] \notin {"end", "done"} =>
           InMessage(got[c]) \subseteq InMessage(Stored(c)') \union New(c)'
                                      \union OfWire(wire'[c]) \union overrun'[c] \union skipped'[c]
  PROVE  ClientOrder(c)' /\ GotAccounted(c)'
  BY DEF ClientOrder, GotAccounted, Old, New, OnWire, OfWire, WireOrdered

\* readLoop takes the oldest message, puts its event at the end of the buffer or drops
\* the oldest event there; the application receives the oldest.
LEMMA ClientOrderClient ==
  ASSUME HubInv, ClientInv, NEW d \in Clients, ClientStep(d),
         NEW c \in Clients, ClientOrder(c), GotAccounted(c)
  PROVE  ClientOrder(c)' /\ GotAccounted(c)'
  <1>1. /\ wire \in [Clients -> Seq(Messages)] /\ wire[c] \in Seq(Messages)
        /\ hand \in [Clients -> 0..MaxEvents]
        /\ ws \in [Clients -> {"off", "select", "read", "put", "drop", "send", "end", "done"}]
        /\ events \in [Clients -> Seq(Events)] /\ events[c] \in Seq(Events)
        /\ taken \in [Clients -> Seq(Events)] /\ taken[c] \in Seq(Events)
        /\ skipped \in [Clients -> SUBSET Events] /\ overrun \in [Clients -> SUBSET Events]
        /\ hand[c] # 0 <=> ws[c] \in {"put", "drop", "send"}
        /\ hand[c] # 0 => hand[c] \in Events
        /\ Stored(c) = Join(taken[c], events[c]) /\ Stored(c) \in Seq(Events)
    BY ClientSets
  <1>2. /\ Increasing(Stored(c)) /\ Before(Old(c), New(c))
        /\ ws[c] # "send" => \A e \in overrun[c] : \E x \in InMessage(Stored(c)) : e < x
        /\ Before(Old(c) \union New(c), OfWire(wire[c]))
        /\ WireOrdered(wire[c])
        /\ Old(c) \union New(c) \union OfWire(wire[c]) \subseteq InMessage(got[c])
        /\ ws[c] \notin {"end", "done"} =>
             InMessage(got[c]) \subseteq InMessage(Stored(c)) \union New(c)
                                        \union OfWire(wire[c]) \union overrun[c] \union skipped[c]
    BY ClientOrderSets
  <1>3. got' = got
    BY DEF ClientStep, Dial, Connect, CloseSignal, CloseConn, ReadLoop, ReadError, Receive, Reader,
       InClient, LookAtDone, ReadEvent, SkipMessage, Put, PutStopped, PutFull, DropOldest,
       SendAfterDrop, CloseEvents, hubVars, clientVars
  <1>4. Stored(c)' = Join(taken'[c], events'[c])
    BY DEF Stored, Join
  <1>5. CASE d # c
    <2>1. /\ wire'[c] = wire[c] /\ hand'[c] = hand[c] /\ events'[c] = events[c]
          /\ taken'[c] = taken[c] /\ overrun'[c] = overrun[c] /\ skipped'[c] = skipped[c]
          /\ ws'[c] = ws[c]
      BY <1>1, <1>5 DEF ClientStep, Dial, CloseSignal, CloseConn, ReadLoop, ReadError, Receive,
         Reader, LookAtDone, ReadEvent, SkipMessage, TakeMessage, Put, PutStopped, PutFull,
         DropOldest, SendAfterDrop, Deliver, CloseEvents, readerVars
    <2> QED BY <1>3, <2>1, ClientFrame
  <1>6. CASE d = c /\ \/ Dial(d) \/ CloseSignal(d) \/ CloseConn(d) \/ LookAtDone(d)
                      \/ PutFull(d) \/ ReadError(d) \/ CloseEvents(d)
    <2>1. /\ UNCHANGED <<wire, hand, events, taken, overrun, skipped>>
          /\ ws[c] = "send" => ws'[c] = "send"
      BY <1>1, <1>6 DEF Dial, CloseSignal, CloseConn, LookAtDone, PutFull, ReadError,
         CloseEvents, Reader, readerVars, ClientInv
    <2>2. ws[c] \in {"end", "done"} => ws'[c] \in {"end", "done"}
      BY <1>1, <1>6 DEF Dial, CloseSignal, CloseConn, LookAtDone, PutFull, ReadError,
         CloseEvents, Reader, readerVars, ClientInv
    <2> QED BY <1>3, <2>1, <2>2, ClientFrame
  <1>7. CASE d = c /\ ReadEvent(d)
    <2> DEFINE m == Head(wire[c])
               r == Tail(wire[c])
    <2>1. /\ ws[c] = "read" /\ ws'[c] = "put" /\ wire[c] # <<>>
          /\ Len(m) = 1 /\ hand'[c] = Head(m) /\ wire'[c] = r
          /\ UNCHANGED <<events, taken, overrun, skipped>>
      BY <1>1, <1>7 DEF ReadEvent, Reader, NextMessage, TakeMessage
    <2>2. m \in Messages
      BY <1>1, <2>1, HeadTailProperties
    <2>3. /\ OfWire(wire[c]) = InMessage(m) \union OfWire(r)
          /\ WireOrdered(r) /\ Before(InMessage(m), OfWire(r))
      BY <1>1, <1>2, <2>1, WireFacts
    <2> HIDE DEF m, r
    <2>4. InMessage(m) = {hand'[c]} /\ hand'[c] # 0
      <3>1. m \in Seq(Events) /\ m # <<>> /\ Tail(m) \in Seq(Events) /\ Len(Tail(m)) = 0
        BY <2>1, <2>2, HeadTailProperties DEF Messages
      <3>2. Tail(m) = <<>>
        BY <3>1, EmptySeq
      <3>3. InMessage(m) = {Head(m)} \union InMessage(Tail(m)) /\ Head(m) \in Events
        BY <3>1, ChannelFacts, HeadTailProperties
      <3>4. InMessage(<<>>) = {} /\ \A e \in Events : e # 0
        BY ChannelFacts DEF Events
      <3> QED BY <2>1, <3>2, <3>3, <3>4
    <2>5. New(c)' = InMessage(m) /\ New(c) = {} /\ Stored(c)' = Stored(c) /\ Old(c)' = Old(c)
      BY <1>1, <2>1, <2>4 DEF New, Old, Stored
    <2>6. Before(Old(c), InMessage(m))
      BY <1>2, <2>3 DEF Before
    <2>7. Before(Old(c) \union InMessage(m), OfWire(r))
      BY <1>2, <2>3 DEF Before
    <2>8. Old(c) \union InMessage(m) \union OfWire(r) \subseteq InMessage(got[c])
      BY <1>2, <2>3
    <2>9. InMessage(got[c]) \subseteq InMessage(Stored(c)) \union InMessage(m)
                                     \union OfWire(r) \union overrun[c] \union skipped[c]
      BY <1>2, <2>1, <2>3, <2>5
    <2> QED BY <1>2, <1>3, <2>1, <2>3, <2>5, <2>6, <2>7, <2>8, <2>9, ClientOrderFromSets
  <1>8. CASE d = c /\ SkipMessage(d)
    <2> DEFINE m == Head(wire[c])
               r == Tail(wire[c])
    <2>1. /\ ws[c] = "read" /\ ws'[c] = "select" /\ wire[c] # <<>>
          /\ wire'[c] = r /\ skipped'[c] = skipped[c] \union InMessage(m)
          /\ UNCHANGED <<events, taken, overrun, hand>>
      BY <1>1, <1>8 DEF SkipMessage, Reader, NextMessage, TakeMessage
    <2>2. /\ OfWire(wire[c]) = InMessage(m) \union OfWire(r)
          /\ WireOrdered(r)
      BY <1>1, <1>2, <2>1, WireFacts
    <2> HIDE DEF m, r
    <2>3. New(c)' = New(c) /\ Stored(c)' = Stored(c) /\ Old(c)' = Old(c)
      BY <2>1 DEF New, Old, Stored
    <2>4. Before(Old(c) \union New(c), OfWire(r))
      BY <1>2, <2>2 DEF Before
    <2>5. Old(c) \union New(c) \union OfWire(r) \subseteq InMessage(got[c])
      BY <1>2, <2>2
    <2>6. InMessage(got[c]) \subseteq InMessage(Stored(c)) \union New(c)
                                     \union OfWire(r) \union overrun[c] \union skipped'[c]
      BY <1>2, <2>1, <2>2
    <2> QED BY <1>2, <1>3, <2>1, <2>2, <2>3, <2>4, <2>5, <2>6, ClientOrderFromSets
  <1>9. CASE d = c /\ (Put(d) \/ SendAfterDrop(d))
    <2>1. /\ ws[c] \in {"put", "send"} /\ ws'[c] = "select"
          /\ events'[c] = Append(events[c], hand[c]) /\ hand'[c] = 0
          /\ UNCHANGED <<wire, taken, overrun, skipped>>
      BY <1>1, <1>9 DEF Put, SendAfterDrop, Reader, Deliver
    <2>2. hand[c] # 0 /\ hand[c] \in Events
      BY <1>1, <2>1
    <2>3. Stored(c)' = Append(Stored(c), hand[c])
      <3>1. \A t, v \in Seq(Events), e \in Events :
              Join(t, Append(v, e)) = Append(Join(t, v), e)
        BY StoredFacts
      <3>2. Join(taken[c], Append(events[c], hand[c])) = Append(Join(taken[c], events[c]), hand[c])
        BY <1>1, <2>2, <3>1
      <3> QED BY <1>1, <1>4, <2>1, <3>2
    <2>4. New(c) = {hand[c]} /\ New(c)' = {}
      BY <2>1, <2>2 DEF New
    <2>5. Before(InMessage(Stored(c)), {hand[c]}) /\ Before(overrun[c], {hand[c]})
      BY <1>2, <2>4 DEF Before, Old
    <2>6. InMessage(Stored(c)') = InMessage(Stored(c)) \union {hand[c]} /\ Increasing(Stored(c)')
      <3>1. \A e \in Events :
              /\ InMessage(Append(Stored(c), e)) = InMessage(Stored(c)) \union {e}
              /\ Before(InMessage(Stored(c)), {e}) => Increasing(Append(Stored(c), e))
        BY <1>1, <1>2, ChannelFacts
      <3> QED BY <2>2, <2>3, <2>5, <3>1
    <2>7. Old(c)' = Old(c) \union {hand[c]}
      BY <2>1, <2>6 DEF Old
    <2>8. \A e \in overrun'[c] : \E x \in InMessage(Stored(c)') : e < x
      BY <2>1, <2>5, <2>6 DEF Before
    <2>9. Before(Old(c)', New(c)') /\ Before(Old(c)' \union New(c)', OfWire(wire[c]))
      BY <1>2, <2>4, <2>7 DEF Before
    <2>10. InMessage(got[c]) \subseteq InMessage(Stored(c)') \union New(c)'
                                      \union OfWire(wire[c]) \union overrun[c] \union skipped[c]
      BY <1>2, <2>1, <2>4, <2>6
    <2>11. Old(c)' \union New(c)' \union OfWire(wire[c]) \subseteq InMessage(got[c])
      BY <1>2, <2>4, <2>7
    <2> QED BY <1>2, <1>3, <2>1, <2>6, <2>8, <2>9, <2>10, <2>11, ClientOrderFromSets
  <1>10. CASE d = c /\ PutStopped(d)
    <2>1. /\ ws[c] = "put" /\ ws'[c] = "end" /\ hand'[c] = 0
          /\ UNCHANGED <<wire, events, taken, overrun, skipped>>
      BY <1>1, <1>10 DEF PutStopped, Reader
    <2>2. New(c)' = {} /\ Stored(c)' = Stored(c) /\ Old(c)' = Old(c)
      BY <2>1 DEF New, Old, Stored
    <2>3. Before(Old(c), {}) /\ Before(Old(c), OfWire(wire[c]))
      BY <1>2 DEF Before
    <2>4. Old(c) \union OfWire(wire[c]) \subseteq InMessage(got[c])
      BY <1>2
    <2> QED BY <1>2, <1>3, <2>1, <2>2, <2>3, <2>4, ClientOrderFromSets
  <1>11. CASE d = c /\ DropOldest(d)
    <2>1. /\ ws[c] = "drop" /\ ws'[c] = "send"
          /\ UNCHANGED <<wire, taken, hand, skipped>>
      BY <1>1, <1>11 DEF DropOldest, Reader
    <2>2. New(c)' = New(c)
      BY <2>1 DEF New
    <2>3. CASE events[c] = <<>>
      <3>1. UNCHANGED <<events, overrun>>
        BY <1>11, <2>3 DEF DropOldest
      <3>2. Stored(c)' = Stored(c) /\ Old(c)' = Old(c)
        BY <2>1, <3>1 DEF Stored, Old
      <3> QED BY <1>2, <1>3, <2>1, <2>2, <3>1, <3>2, ClientOrderFromSets
    <2>4. CASE events[c] # <<>>
      <3>1. /\ events'[c] = Tail(events[c])
            /\ overrun'[c] = overrun[c] \union {Head(events[c])}
        BY <1>1, <1>11, <2>4 DEF DropOldest
      <3>2. /\ InMessage(Stored(c)) = InMessage(Stored(c)') \union {Head(events[c])}
            /\ Increasing(Stored(c)')
        BY <1>1, <1>2, <1>4, <2>1, <2>4, <3>1, StoredFacts
      <3>3. Old(c)' = Old(c)
        BY <3>1, <3>2 DEF Old
      <3>4. InMessage(got[c]) \subseteq InMessage(Stored(c)') \union New(c)
                                       \union OfWire(wire[c]) \union overrun'[c] \union skipped[c]
        BY <1>2, <2>1, <3>1, <3>2
      <3> QED BY <1>2, <1>3, <2>1, <2>2, <3>2, <3>3, <3>4, ClientOrderFromSets
    <2> QED BY <2>3, <2>4
  <1>12. CASE d = c /\ Receive(d)
    <2>1. /\ events[c] # <<>>
          /\ taken'[c] = Append(taken[c], Head(events[c])) /\ events'[c] = Tail(events[c])
          /\ UNCHANGED <<wire, ws, hand, overrun, skipped>>
      BY <1>1, <1>12 DEF Receive
    <2>2. Stored(c)' = Stored(c)
      BY <1>1, <1>4, <2>1, StoredFacts
    <2>3. New(c)' = New(c) /\ Old(c)' = Old(c)
      BY <2>1, <2>2 DEF New, Old
    <2> QED BY <1>2, <1>3, <2>1, <2>2, <2>3, ClientOrderFromSets
  <1> QED
    BY <1>5, <1>6, <1>7, <1>8, <1>9, <1>10, <1>11, <1>12 DEF ClientStep, ReadLoop

(***************************************************************************)
(* The theorems.                                                           *)
(***************************************************************************)

\* Nothing has been published and nobody is connected.
LEMMA StreamInitInv == StreamInit => StreamIInv
  <1> SUFFICES ASSUME StreamInit PROVE StreamIInv
    OBVIOUS
  <1>1. HubIInv /\ ClientInv
    BY HubInitInv, ClientInitInv DEF StreamInit
  <1>2. InMessage(<<>>) = {} /\ Increasing(<<>>) /\ Join(<<>>, <<>>) = <<>> /\ OfWire(<<>>) = {}
    BY ChannelFacts, StoredFacts DEF OfWire
  <1>3. FeedOrder
    BY <1>2, HubAssumption DEF StreamInit, HubInit, FeedOrder, Waiting, Before
  <1>4. ASSUME NEW c \in Clients PROVE ServedOrder(c)
    BY <1>2 DEF StreamInit, HubInit, ServedOrder, Handled, Before
  <1>5. ASSUME NEW c \in Clients PROVE ClientOrder(c) /\ GotAccounted(c)
    <2>1. /\ wire[c] = <<>> /\ taken[c] = <<>> /\ events[c] = <<>> /\ got[c] = <<>>
          /\ hand[c] = 0 /\ overrun[c] = {} /\ skipped[c] = {}
      BY DEF StreamInit, HubInit, ClientInit
    <2>2. Stored(c) = <<>> /\ OnWire(c) = {}
      BY <1>2, <2>1 DEF Stored, Join, OnWire, OfWire
    <2> QED BY <1>2, <2>1, <2>2 DEF ClientOrder, GotAccounted, Before
  <1> QED BY <1>1, <1>3, <1>4, <1>5 DEF StreamIInv

\* StreamIInv is inductive.
LEMMA StreamIInvStep ==
  ASSUME StreamIInv, [StreamNext]_streamVars
  PROVE  StreamIInv'
  <1>1. /\ HubIInv /\ HubInv /\ Unserved /\ ClientInv /\ FeedOrder
        /\ \A c \in Clients : ServedOrder(c) /\ ClientOrder(c) /\ GotAccounted(c)
    BY DEF StreamIInv, HubIInv
  <1>2. [HubNext]_hubVars
    BY StreamStepOfHub
  <1>3. HubIInv' /\ HubInv'
    BY <1>1, <1>2, HubInvStep, ClosedOnceStep, NoSilentGapStep, CompleteViewStep DEF HubIInv
  <1>4. FeedOrder'
    BY <1>1, <1>2, FeedOrderStep
  <1>5. \A c \in Clients : ServedOrder(c)'
    BY <1>1, <1>2, <1>3, ServedOrderStep
  <1>6. ClientInv' /\ \A c \in Clients : ClientOrder(c)' /\ GotAccounted(c)'
    <2>1. CASE HubStep
      BY <1>1, <1>3, <2>1, ClientInvHub, ClientOrderHub
    <2>2. ASSUME NEW d \in Clients, ClientStep(d)
          PROVE  ClientInv' /\ \A c \in Clients : ClientOrder(c)' /\ GotAccounted(c)'
      BY <1>1, <2>2, ClientInvClient, ClientOrderClient
    <2>3. CASE UNCHANGED streamVars
      <3>1. UNCHANGED <<wire, conn, done, closer, taken, ws, hand, events, closed, skipped,
                        overrun, reader, got>>
        BY <2>3 DEF streamVars, endVars, readerVars, hubVars, clientVars
      <3>2. ClientInv'
        BY <1>1, <3>1 DEF ClientInv, ClientTypeOK
      <3> QED BY <1>1, <3>1, <3>2, ClientFrame
    <2> QED BY <2>1, <2>2, <2>3 DEF StreamNext
  <1> QED BY <1>3, <1>4, <1>5, <1>6 DEF StreamIInv

\* The inductive invariant of the composition.
LEMMA StreamInvariance == StreamSpec => []StreamIInv
  BY StreamInitInv, StreamIInvStep, PTL DEF StreamSpec

\* readLoop holds an event only between the decoding and the channel, and closes the
\* channel once (Connect, readLoop).
THEOREM ReaderIsSound == StreamSpec => []ClientInv
  <1>1. StreamIInv => ClientInv
    BY DEF StreamIInv
  <1> QED BY <1>1, StreamInvariance, PTL

\* The application never sees an event twice or after a newer one, and an overflow
\* costs it the oldest events (the drop-oldest branch of readLoop).
THEOREM EventsComeInOrder == StreamSpec => []FreshView
  <1>1. ASSUME StreamIInv PROVE FreshView
    <2> SUFFICES ASSUME NEW c \in Clients
                 PROVE  /\ Increasing(Seen(c))
                        /\ \A e \in overrun[c] : Seen(c) # <<>> /\ e < Seen(c)[Len(Seen(c))]
      BY DEF FreshView, Increasing
    <2>1. /\ hand[c] # 0 <=> ws[c] \in {"put", "drop", "send"}
          /\ hand[c] # 0 => hand[c] \in Events
          /\ Stored(c) \in Seq(Events) /\ overrun \in [Clients -> SUBSET Events]
      BY <1>1, ClientSets DEF StreamIInv, HubIInv
    <2>2. /\ Increasing(Stored(c)) /\ Before(Old(c), New(c))
          /\ ws[c] # "send" => \A e \in overrun[c] : \E x \in InMessage(Stored(c)) : e < x
      BY <1>1, ClientOrderSets DEF StreamIInv
    <2>3. Events \subseteq Int
      BY DEF Events
    <2>4. CASE hand[c] = 0
      <3>1. Seen(c) = Stored(c)
        <4>1. Stored(c) \o <<>> = Stored(c)
          BY <2>1, ConcatEmptySeq
        <4> QED BY <2>4, <4>1 DEF Seen, Stored, InHand
      <3> DEFINE s == Stored(c)
                 n == Len(s)
      <3>2. n \in Nat /\ DOMAIN s = 1..n /\ \A i \in 1..n : s[i] \in Events
        BY <2>1, LenProperties, ElementOfSeq
      <3>3. Increasing(s)
        BY <2>2
      <3>4. ASSUME NEW e \in overrun[c] PROVE \E x \in InMessage(s) : e < x
        BY <2>1, <2>2, <2>4
      <3> HIDE DEF s, n
      <3>5. ASSUME NEW e \in overrun[c] PROVE s # <<>> /\ e < s[n]
        <4>1. PICK i \in 1..n : e < s[i]
          BY <3>2, <3>4 DEF InMessage
        <4>2. n \in 1..n /\ (i < n \/ i = n)
          BY <3>2
        <4>3. i < n => s[i] < s[n]
          BY <3>2, <3>3, <4>2 DEF Increasing
        <4>4. e \in Int /\ s[i] \in Int /\ s[n] \in Int
          BY <2>1, <2>3, <3>2, <4>2
        <4>5. s # <<>>
          BY <3>2, <4>1 DEF n
        <4> QED BY <4>1, <4>2, <4>3, <4>4, <4>5
      <3> QED BY <3>1, <3>3, <3>5 DEF s, n
    <2>5. CASE hand[c] # 0
      <3> DEFINE s == Append(Stored(c), hand[c])
      <3>1. Seen(c) = s
        BY <2>1, <2>5, AppendIsConcat DEF Seen, Stored, InHand
      <3>2. Before(InMessage(Stored(c)), {hand[c]}) /\ Before(overrun[c], {hand[c]})
        BY <2>2, <2>5 DEF Old, New, Before
      <3>3. Increasing(s)
        <4>1. \A e \in Events :
                Before(InMessage(Stored(c)), {e}) => Increasing(Append(Stored(c), e))
          BY <2>1, <2>2, ChannelFacts
        <4> QED BY <2>1, <2>5, <3>2, <4>1
      <3>4. s # <<>> /\ s[Len(s)] = hand[c]
        <4>1. \A e \in Events : /\ Append(Stored(c), e) # <<>>
                               /\ Len(Append(Stored(c), e)) = Len(Stored(c)) + 1
                               /\ Append(Stored(c), e)[Len(Stored(c)) + 1] = e
          BY <2>1, AppendProperties
        <4> QED BY <2>1, <2>5, <4>1
      <3>5. \A e \in overrun[c] : e < hand[c]
        BY <3>2 DEF Before
      <3> HIDE DEF s
      <3> QED BY <3>1, <3>3, <3>4, <3>5
    <2> QED BY <2>4, <2>5
  <1> QED BY <1>1, StreamInvariance, PTL

\* No step between the hub's broadcast and the application's receive loses an event,
\* except the ones that say so (broadcastEvent, WritePump, readLoop).
THEOREM NoEventVanishes == StreamSpec => []EveryEventAccounted
  <1>1. ASSUME StreamIInv PROVE EveryEventAccounted
    <2> SUFFICES ASSUME NEW c \in clients \ missed, writer[c] # "done",
                        ws[c] \notin {"end", "done"}
                 PROVE  InMessage(Since(sent, joined[c]))
                          \subseteq InMessage(send[c] \o batch[c] \o Seen(c)) \union OnWire(c)
                                    \union overrun[c] \union skipped[c]
      BY DEF EveryEventAccounted, Since
    <2>1. HubInv /\ ClientInv /\ c \in Clients
      BY <1>1 DEF StreamIInv, HubIInv, HubInv, HubTypeOK
    <2>2. Since(sent, joined[c]) = View(got[c], batch[c], send[c])
      BY <1>1 DEF StreamIInv, HubIInv, CompleteView, View, Since
    <2>3. got[c] \in Seq(Events) /\ batch[c] \in Seq(Events) /\ send[c] \in Seq(Events)
      BY <2>1, NumberedEvents
    <2>4. InMessage(Since(sent, joined[c]))
            = InMessage(got[c]) \union InMessage(batch[c]) \union InMessage(send[c])
      BY <2>2, <2>3, ViewElements
    <2>5. InMessage(got[c]) \subseteq InMessage(Stored(c)) \union New(c)
                                     \union OnWire(c) \union overrun[c] \union skipped[c]
      BY <1>1, <2>1 DEF StreamIInv, GotAccounted, New
    <2>6. Stored(c) \in Seq(Events) /\ (hand[c] # 0 => hand[c] \in Events)
      BY <2>1, ClientSets
    <2>7. PICK h \in Seq(Events) : h = InHand(c) /\ InMessage(h) = New(c)
      <3>1. InHand(c) \in Seq(Events)
        BY <2>6 DEF InHand
      <3>2. \A e : InMessage(<<e>>) = {e}
        BY DEF InMessage
      <3>3. InMessage(InHand(c)) = New(c)
        BY <3>2, ChannelFacts DEF InHand, New
      <3> QED BY <3>1, <3>3
    <2>8. PICK s \in Seq(Events) : /\ s = Seen(c)
                                   /\ InMessage(s) = InMessage(Stored(c)) \union New(c)
      <3>1. /\ Stored(c) \o h \in Seq(Events)
            /\ InMessage(Stored(c) \o h) = InMessage(Stored(c)) \union InMessage(h)
        BY <2>6, ConcatProperties, ConcatElements
      <3> QED BY <2>7, <3>1 DEF Seen, Stored
    <2>9. InMessage(View(send[c], batch[c], s))
            = InMessage(send[c]) \union InMessage(batch[c]) \union InMessage(s)
      BY <2>3, ViewElements
    <2>10. View(send[c], batch[c], s) = send[c] \o batch[c] \o Seen(c)
      BY <2>8 DEF View
    <2> QED BY <2>4, <2>5, <2>8, <2>9, <2>10
  <1> QED BY <1>1, StreamInvariance, PTL

=============================================================================
