------------------------- MODULE BlitzClientProofs -------------------------
(***************************************************************************)
(* Theorems about blitzclient processes and the broker, end to end, for    *)
(* any number of processes, shards, topics and filters, any capacity of    *)
(* the outbound queues and any size of the socket buffers.                 *)
(***************************************************************************)
EXTENDS BlitzClient, BrokerProofs

-----------------------------------------------------------------------------
(* The composed system is the broker with something around it *)

LEMMA DispatchDecodes ==
    ASSUME NEW c \in Conn, NEW pkt, Dispatch(c, pkt)
    PROVE  ClientStep(c)
<1>1. Decoded(c, pkt)
  BY DEF Dispatch, ReadConnect, ReadSubscribe, ReadUnsubscribe, ReadPublish,
         ReadPing, ReadPuback, ReadHangup
<1> QED
  BY <1>1 DEF Decoded, ClientStep

\* What the steps of processes, writers and sockets do to the broker: nothing.
\* The others are steps of the broker.
LEMMA ClientNextBroker ==
    ASSUME [ClientNext]_allVars
    PROVE  \/ Next /\ Transport
           \/ UNCHANGED vars
<1>1. CASE UNCHANGED allVars
  BY <1>1 DEF allVars
<1>2. ASSUME NEW c \in Client, ProcessStep(c)
      PROVE  UNCHANGED vars
  <2>1. CASE Start(c) \/ ReadError(c)
    BY <2>1 DEF Start, ReadError
  <2>2. ASSUME NEW e, OnConnack(c, e) \/ OnPuback(c, e) \/ OnSuback(c, e) \/ OnMessage(c, e)
        PROVE  UNCHANGED vars
    <3>1. Reads(c, e)
      BY <2>2 DEF OnConnack, OnPuback, OnSuback, OnMessage
    <3> QED
      BY <3>1 DEF Reads
  <2> QED
    BY <1>2, <2>1, <2>2 DEF ProcessStep
<1>3. ASSUME NEW c \in Client, Interrupt(c) \/ Reset(c)
      PROVE  UNCHANGED vars
  BY <1>3 DEF Interrupt, Reset
<1>4. ASSUME NEW c \in Client, BrokerRead(c)
      PROVE  Next /\ Transport
  <2>1. c \in Conn
    BY ClientAssumption
  <2>2. ClientStep(c) /\ Transport
    BY <1>4, <2>1, DispatchDecodes DEF BrokerRead
  <2> QED
    BY <2>1, <2>2 DEF Next
<1>5. ASSUME NEW c \in Conn, ClientStep(c) \/ ReaderStep(c), Transport
      PROVE  Next /\ Transport
  BY <1>5 DEF Next
<1>6. ASSUME NEW s \in Shard, ShardStep(s), Transport
      PROVE  Next /\ Transport
  BY <1>6 DEF Next
<1>7. ASSUME NEW c \in Conn, WriterStep(c)
      PROVE  UNCHANGED vars
  BY <1>7 DEF WriterStep
<1> QED
  BY <1>1, <1>2, <1>3, <1>4, <1>5, <1>6, <1>7 DEF ClientNext

\* The broker does not notice what it is run with: every behaviour of the
\* processes, queues, writers and sockets is a behaviour of Broker, so that what
\* is proved of Broker holds end to end, resets and evictions included.
THEOREM ClientImplementsBroker == ClientSpec => Spec
<1>1. ClientInit => Init
  BY DEF ClientInit
<1>2. [ClientNext]_allVars => [Next]_vars
  BY ClientNextBroker
<1> QED
  BY <1>1, <1>2, PTL DEF ClientSpec, Spec

-----------------------------------------------------------------------------
(***************************************************************************)
(* The order in which a subscriber gets its messages, replays included.    *)
(***************************************************************************)

\* The publish p has been pushed to c as its k-th event, by either pass of
\* run_broker; by a replay.
PublishAt(c, k, p) == k \in Pushes(c) /\ IsPublish(c, k) /\ PacketAt(c, k) = p
ReplayAt(c, k, p) == PublishAt(c, k, p) /\ outbound[c][k].via = "replay"

\* The shard of its topic is done with the publish p: what its publisher has
\* still under way to this shard is newer.
Settled(p) ==
    /\ p.n <= nread[p.from]
    /\ HoldsPublish(p.from) => p.n < nread[p.from]
    /\ \A i \in Nat, q \in Packet :
         QueuedAt(shard_for_topic(p.topic), i, q) /\ q.from = p.from => p.n < q.n

\* A retained packet is settled, and stays with the shard of its topic.
StoredSettled ==
    \A s \in Shard : \A p \in retained[s] : shard_for_topic(p.topic) = s /\ Settled(p)

\* A replay pushes what is still retained.
ReplaySource ==
    \A s \in Shard : job[s].op = "replay" => job[s].packets \subseteq retained[s]

\* A replayed packet is settled, and older than what its shard is fanning out.
ReplaySettled ==
    \A c \in Conn, k \in Nat, p \in Packet : ReplayAt(c, k, p) =>
        /\ Settled(p)
        /\ \A q \in Packet :
             FanningAt(shard_for_topic(p.topic), q) /\ q.from = p.from => p.n < q.n

SInv == OInv /\ StoredSettled /\ ReplaySource /\ ReplaySettled

\* A send hands over at most the publish that its reader has read last.
LEMMA SendQueue ==
    ASSUME OInv, NEW c \in Conn, Send(c)
    PROVE  /\ UNCHANGED <<clients, topics, retained, job, outbound, nread>>
           /\ \A d \in Conn : HoldsPublish(d)' => HoldsPublish(d)
           /\ \A t \in Shard, i \in Nat, q \in Packet :
                QueuedAt(t, i, q)' => \/ QueuedAt(t, i, q)
                                      \/ HoldsPublish(c) /\ q.from = c /\ q.n = nread[c]
<1>0. TypeOK /\ Numbering
  BY DEF OInv, LInv
<1>1. PICK m \in Message, s \in Shard :
             /\ sending[c] # <<>> /\ m = Head(sending[c])
             /\ inbox' = [inbox EXCEPT ![s] = Append(inbox[s], m)]
             /\ IF Broadcast(m) /\ next[c] + 1 < N
                THEN sending' = sending
                ELSE sending' = [sending EXCEPT ![c] = Tail(sending[c])]
             /\ UNCHANGED <<shardVars, outbound, phase, ack, nread>>
  BY <1>0, SendStep
<1>2. UNCHANGED <<clients, topics, retained, job, outbound, nread>>
  BY <1>1 DEF shardVars
<1>3. sending[c] \in Seq(Message) /\ sending[c] # <<>> /\ Len(sending[c]) \in Nat
  BY <1>0, <1>1 DEF TypeOK
<1>4. /\ 1 \in 1..Len(sending[c]) /\ m = sending[c][1]
      /\ Len(Tail(sending[c])) = Len(sending[c]) - 1
      /\ \A i \in 1..Len(Tail(sending[c])) : Tail(sending[c])[i] = sending[c][i + 1]
  <2>1. Len(sending[c]) # 0 /\ m = sending[c][1]
    BY <1>1, <1>3
  <2>2. 1 \in 1..Len(sending[c])
    BY <1>3, <2>1
  <2> QED
    BY <1>3, <2>1, <2>2, HeadTailProperties
<1>5. ASSUME NEW d \in Conn, HoldsPublish(d)'
      PROVE  HoldsPublish(d)
  <2>1. CASE sending'[d] = sending[d]
    BY <1>5, <2>1 DEF HoldsPublish
  <2>2. CASE sending'[d] # sending[d]
    <3>1. d = c /\ sending'[c] = Tail(sending[c])
      BY <1>0, <1>1, <2>2 DEF TypeOK
    <3>2. PICK i \in 1..Len(Tail(sending[c])) : Tail(sending[c])[i].type = "Publish"
      BY <1>5, <3>1 DEF HoldsPublish
    <3>3. i + 1 \in 1..Len(sending[c]) /\ sending[c][i + 1].type = "Publish"
      BY <1>3, <1>4, <3>2
    <3> QED
      BY <3>1, <3>3 DEF HoldsPublish
  <2> QED
    BY <2>1, <2>2
<1>6. ASSUME NEW t \in Shard, NEW i \in Nat, NEW q \in Packet, QueuedAt(t, i, q)',
             ~ QueuedAt(t, i, q)
      PROVE  HoldsPublish(c) /\ q.from = c /\ q.n = nread[c]
  <2>1. /\ inbox[s] \in Seq(Message) /\ inbox'[s] = Append(inbox[s], m)
        /\ \A u \in Shard : u # s => inbox'[u] = inbox[u]
    BY <1>0, <1>1 DEF TypeOK
  <2>2. /\ Len(inbox[s]) \in Nat
        /\ Len(inbox'[s]) = Len(inbox[s]) + 1
        /\ \A k \in 1..Len(inbox[s]) : inbox'[s][k] = inbox[s][k]
        /\ inbox'[s][Len(inbox[s]) + 1] = m
    BY <2>1, AppendProperties
  <2>3. t = s
    BY <1>6, <2>1 DEF QueuedAt
  <2>4. i \in 1..Len(inbox'[s]) /\ i \notin 1..Len(inbox[s])
    BY <1>6, <2>2, <2>3 DEF QueuedAt
  <2>5. i = Len(inbox[s]) + 1
    BY <2>2, <2>4
  <2>6. m.type = "Publish" /\ m.packet = q
    BY <1>6, <2>2, <2>3, <2>5 DEF QueuedAt
  <2>7. sending[c][1].type = "Publish" /\ sending[c][1].packet = q
    BY <1>4, <2>6
  <2> QED
    BY <1>0, <1>4, <2>7 DEF Numbering, HoldsPublish
<1> QED
  BY <1>2, <1>5, <1>6

\* Once the shard is done with a publish, it stays done with it.
LEMMA SettledStays ==
    ASSUME OInv, [Next]_vars, NEW p \in Packet, Settled(p)
    PROVE  Settled(p)'
<1>0. TypeOK /\ LInv /\ Numbering
  BY DEF OInv, LInv
<1> DEFINE h == shard_for_topic(p.topic)
<1>1. p.from \in Conn /\ p.n \in Nat /\ h \in Shard /\ nread[p.from] \in Nat
  BY <1>0, PacketFields, ShardFacts, BrokerAssumption DEF TypeOK
<1> HIDE DEF h
<1>2. /\ p.n <= nread[p.from]
      /\ HoldsPublish(p.from) => p.n < nread[p.from]
      /\ \A i \in Nat, q \in Packet : QueuedAt(h, i, q) /\ q.from = p.from => p.n < q.n
  BY DEF Settled, h
<1>3. SUFFICES /\ p.n <= nread'[p.from]
               /\ HoldsPublish(p.from)' => p.n < nread'[p.from]
               /\ \A i \in Nat, q \in Packet : QueuedAt(h, i, q)' /\ q.from = p.from => p.n < q.n
  BY DEF Settled, h
<1>4. ASSUME UNCHANGED <<inbox, sending, nread>>
      PROVE  /\ p.n <= nread'[p.from]
             /\ HoldsPublish(p.from)' => p.n < nread'[p.from]
             /\ \A i \in Nat, q \in Packet : QueuedAt(h, i, q)' /\ q.from = p.from => p.n < q.n
  BY <1>2, <1>4 DEF HoldsPublish, QueuedAt
<1>5. CASE UNCHANGED vars
  BY <1>4, <1>5 DEF vars
<1>6. ASSUME NEW c \in Conn, ClientStep(c)
      PROVE  /\ p.n <= nread'[p.from]
             /\ HoldsPublish(p.from)' => p.n < nread'[p.from]
             /\ \A i \in Nat, q \in Packet : QueuedAt(h, i, q)' /\ q.from = p.from => p.n < q.n
  <2>1. PICK pkt : Dispatch(c, pkt)
    BY <1>6 DEF ClientStep
  <2>2. /\ inbox' = inbox
        /\ nread' = [nread EXCEPT ![c] = nread[c] + 1]
        /\ \A d \in Conn : d # c => sending'[d] = sending[d]
    BY <1>0, <2>1, DispatchOrderEffect
  <2>3. \A i \in Nat, q \in Packet : QueuedAt(h, i, q)' => QueuedAt(h, i, q)
    BY <2>2 DEF QueuedAt
  <2>4. CASE p.from = c
    <3>1. nread'[p.from] = nread[p.from] + 1
      BY <1>0, <1>1, <2>2, <2>4 DEF TypeOK
    <3> QED
      BY <1>1, <1>2, <2>3, <3>1
  <2>5. CASE p.from # c
    <3>1. nread'[p.from] = nread[p.from] /\ (HoldsPublish(p.from)' => HoldsPublish(p.from))
      BY <1>0, <1>1, <2>2, <2>5 DEF TypeOK, HoldsPublish
    <3> QED
      BY <1>2, <2>3, <3>1
  <2> QED
    BY <2>4, <2>5
<1>7. ASSUME NEW c \in Conn, Send(c)
      PROVE  /\ p.n <= nread'[p.from]
             /\ HoldsPublish(p.from)' => p.n < nread'[p.from]
             /\ \A i \in Nat, q \in Packet : QueuedAt(h, i, q)' /\ q.from = p.from => p.n < q.n
  <2>1. /\ nread' = nread
        /\ \A d \in Conn : HoldsPublish(d)' => HoldsPublish(d)
        /\ \A t \in Shard, i \in Nat, q \in Packet :
             QueuedAt(t, i, q)' => \/ QueuedAt(t, i, q)
                                   \/ HoldsPublish(c) /\ q.from = c /\ q.n = nread[c]
    BY <1>7, SendQueue
  <2> QED
    BY <1>1, <1>2, <2>1
<1>8. ASSUME NEW c \in Conn, Answer(c) \/ Close(c)
      PROVE  UNCHANGED <<inbox, sending, nread>>
  BY <1>8 DEF Answer, Close
<1>9. ASSUME NEW s \in Shard, NEW m, Handle(s, m)
      PROVE  /\ p.n <= nread'[p.from]
             /\ HoldsPublish(p.from)' => p.n < nread'[p.from]
             /\ \A i \in Nat, q \in Packet : QueuedAt(h, i, q)' /\ q.from = p.from => p.n < q.n
  <2>1. /\ UNCHANGED <<sending, nread>>
        /\ \A t \in Shard, i \in Nat, q \in Packet :
             t # s /\ QueuedAt(t, i, q)' => QueuedAt(t, i, q)
        /\ \A i \in Nat, q \in Packet : QueuedAt(s, i, q)' => QueuedAt(s, i + 1, q)
    BY <1>0, <1>9, HandleOrderEffect
  <2>2. \A i \in Nat, q \in Packet : QueuedAt(h, i, q)' => \E k \in Nat : QueuedAt(h, k, q)
    <3>1. \A i \in Nat : i + 1 \in Nat
      OBVIOUS
    <3> QED
      BY <1>1, <2>1, <3>1
  <2> QED
    BY <1>2, <2>1, <2>2 DEF HoldsPublish
<1>10. ASSUME NEW s \in Shard,
              \/ \E r \in job[s].packets : PushReplay(s, r)
              \/ \E c \in Conn : FanOutVisit(s, c)
              \/ \E f \in job[s].wild : FanOutFilter(s, f)
       PROVE  UNCHANGED <<inbox, sending, nread>>
  BY <1>10 DEF PushReplay, FanOutVisit, FanOutFilter, readerVars
<1> QED
  BY <1>4, <1>5, <1>6, <1>7, <1>8, <1>9, <1>10 DEF Next, ReaderStep, ShardStep

\* What a push adds to the events of the clients.
LEMMA PushPublish ==
    ASSUME TypeOK, NEW c \in Conn, NEW e \in Event, PushTo(c, e)
    PROVE  /\ Len(outbound[c]) + 1 \in Nat
           /\ \A d \in Conn, k \in Nat, p \in Packet :
                /\ PublishAt(d, k, p)' =>
                     \/ PublishAt(d, k, p)
                     \/ /\ d = c /\ k = Len(outbound[c]) + 1
                        /\ e.type = "PUBLISH" /\ p = e.packet
                /\ ReplayAt(d, k, p)' =>
                     \/ ReplayAt(d, k, p)
                     \/ /\ d = c /\ k = Len(outbound[c]) + 1
                        /\ e.type = "PUBLISH" /\ p = e.packet /\ e.via = "replay"
           /\ \A k \in Nat, p \in Packet : PublishAt(c, k, p) => k < Len(outbound[c]) + 1
<1>1. /\ \A d \in Conn : d # c => outbound'[d] = outbound[d]
      /\ Len(outbound[c]) \in Nat
      /\ Len(outbound'[c]) = Len(outbound[c]) + 1
      /\ \A k \in 1..Len(outbound[c]) : outbound'[c][k] = outbound[c][k]
      /\ outbound'[c][Len(outbound[c]) + 1] = e
  BY PushEffect
<1>2. ASSUME NEW d \in Conn, NEW k \in Nat, NEW p \in Packet, PublishAt(d, k, p)'
      PROVE  \/ PublishAt(d, k, p) /\ outbound'[d][k] = outbound[d][k]
             \/ /\ d = c /\ k = Len(outbound[c]) + 1
                /\ e.type = "PUBLISH" /\ p = e.packet /\ outbound'[d][k] = e
  <2>1. CASE d # c
    BY <1>1, <1>2, <2>1 DEF PublishAt, Pushes, IsPublish, PacketAt
  <2>2. CASE d = c /\ k = Len(outbound[c]) + 1
    BY <1>1, <1>2, <2>2 DEF PublishAt, IsPublish, PacketAt
  <2>3. CASE d = c /\ k # Len(outbound[c]) + 1
    <3>1. k \in 1..Len(outbound'[c])
      BY <1>2, <2>3 DEF PublishAt, Pushes
    <3>2. k \in 1..Len(outbound[c])
      BY <1>1, <2>3, <3>1
    <3> QED
      BY <1>1, <1>2, <2>3, <3>2 DEF PublishAt, Pushes, IsPublish, PacketAt
  <2> QED
    BY <2>1, <2>2, <2>3
<1>3. ASSUME NEW k \in Nat, NEW p \in Packet, PublishAt(c, k, p)
      PROVE  k < Len(outbound[c]) + 1
  <2>1. k \in 1..Len(outbound[c])
    BY <1>3 DEF PublishAt, Pushes
  <2> QED
    BY <1>1, <2>1
<1>4. ASSUME NEW d \in Conn, NEW k \in Nat, NEW p \in Packet, ReplayAt(d, k, p)'
      PROVE  \/ ReplayAt(d, k, p)
             \/ /\ d = c /\ k = Len(outbound[c]) + 1
                /\ e.type = "PUBLISH" /\ p = e.packet /\ e.via = "replay"
  <2>1. PublishAt(d, k, p)' /\ outbound'[d][k].via = "replay"
    BY <1>4 DEF ReplayAt
  <2> QED
    BY <1>2, <2>1 DEF ReplayAt
<1>5. Len(outbound[c]) + 1 \in Nat
  BY <1>1
<1> QED
  BY <1>2, <1>3, <1>4, <1>5

\* The readers push acknowledgements only.
LEMMA ReaderQuiet ==
    ASSUME OInv, NEW c \in Conn, ClientStep(c) \/ ReaderStep(c)
    PROVE  /\ UNCHANGED <<clients, topics, retained, job>>
           /\ \/ outbound' = outbound
              \/ \E e \in Event : PushTo(c, e) /\ e.type # "PUBLISH"
           /\ \A d \in Conn, k \in Nat, p \in Packet :
                /\ PublishAt(d, k, p)' => PublishAt(d, k, p)
                /\ ReplayAt(d, k, p)' => ReplayAt(d, k, p)
<1>0. TypeOK /\ Answers
  BY DEF OInv, LInv
<1>1. UNCHANGED <<clients, topics, retained, job>>
  <2>1. CASE ClientStep(c)
    BY <2>1 DEF ClientStep, Dispatch, ReadConnect, ReadSubscribe, ReadUnsubscribe,
                ReadPublish, ReadPing, ReadPuback, ReadHangup, Begin, shardVars
  <2>2. CASE ReaderStep(c)
    BY <2>2 DEF ReaderStep, Send, Answer, Close, shardVars
  <2> QED
    BY <2>1, <2>2
<1>2. outbound' = outbound \/ \E e \in Event : PushTo(c, e) /\ e.type # "PUBLISH"
  <2>1. ASSUME ClientStep(c), outbound' # outbound
        PROVE  \E e \in Event : PushTo(c, e) /\ e.type # "PUBLISH"
    <3>1. PICK pkt : Dispatch(c, pkt)
      BY <2>1 DEF ClientStep
    <3>2. /\ Decoded(c, pkt)
          /\ \E t \in {"PUBACK", "PINGRESP"} : PushTo(c, [type |-> t, pid |-> nread[c] + 1])
      BY <2>1, <3>1 DEF Dispatch, ReadConnect, ReadSubscribe, ReadUnsubscribe, ReadPublish,
                        ReadPing, ReadPuback, ReadHangup
    <3>3. nread[c] + 1 \in Nat
      BY <1>0, <3>2, DecodedPacket
    <3>4. PICK t \in {"PUBACK", "PINGRESP"} : PushTo(c, [type |-> t, pid |-> nread[c] + 1])
      BY <3>2
    <3>5. [type |-> t, pid |-> nread[c] + 1] \in Event
      BY <3>3 DEF Event
    <3> QED
      BY <3>4, <3>5
  <2>2. ASSUME Answer(c)
        PROVE  \E e \in Event : PushTo(c, e) /\ e.type # "PUBLISH"
    <3>1. ack[c] \in Event /\ PushTo(c, ack[c])
      BY <1>0, <2>2 DEF Answer, TypeOK
    <3>2. ack[c].type # "PUBLISH"
      BY <1>0 DEF Answers
    <3> QED
      BY <3>1, <3>2
  <2>3. Send(c) \/ Close(c) => outbound' = outbound
    BY DEF Send, Close
  <2> QED
    BY <2>1, <2>2, <2>3 DEF ReaderStep
<1>3. \A d \in Conn, k \in Nat, p \in Packet :
        /\ PublishAt(d, k, p)' => PublishAt(d, k, p)
        /\ ReplayAt(d, k, p)' => ReplayAt(d, k, p)
  <2>1. CASE outbound' = outbound
    BY <2>1 DEF PublishAt, ReplayAt, Pushes, IsPublish, PacketAt
  <2>2. CASE outbound' # outbound
    BY <1>0, <1>2, <2>2, PushPublish
  <2> QED
    BY <2>1, <2>2
<1> QED
  BY <1>1, <1>2, <1>3

\* Steps that store nothing, replay nothing and start no fan-out.
LEMMA QuietSInv ==
    ASSUME SInv, [Next]_vars, retained' = retained,
           \A s \in Shard : job'[s].op = "replay" =>
              job[s].op = "replay" /\ job'[s].packets \subseteq job[s].packets,
           \A s \in Shard, q \in Packet : FanningAt(s, q)' => FanningAt(s, q),
           \A d \in Conn, k \in Nat, p \in Packet : ReplayAt(d, k, p)' => ReplayAt(d, k, p)
    PROVE  SInv'
<1>0. TypeOK /\ OInv /\ OInv' /\ StoredSettled /\ ReplaySource /\ ReplaySettled
  BY NextOInv DEF SInv, OInv, LInv
<1>1. StoredSettled'
  <2> SUFFICES ASSUME NEW s \in Shard, NEW p \in retained[s]
               PROVE  shard_for_topic(p.topic) = s /\ Settled(p)'
    BY DEF StoredSettled
  <2>1. p \in Packet /\ shard_for_topic(p.topic) = s /\ Settled(p)
    BY <1>0 DEF StoredSettled, TypeOK
  <2> QED
    BY <1>0, <2>1, SettledStays
<1>2. ReplaySource'
  BY <1>0 DEF ReplaySource
<1>3. ReplaySettled'
  <2> SUFFICES ASSUME NEW c \in Conn, NEW k \in Nat, NEW p \in Packet, ReplayAt(c, k, p)'
               PROVE  /\ Settled(p)'
                      /\ \A q \in Packet :
                           FanningAt(shard_for_topic(p.topic), q)' /\ q.from = p.from => p.n < q.n
    BY DEF ReplaySettled
  <2>1. /\ Settled(p)
        /\ \A q \in Packet :
             FanningAt(shard_for_topic(p.topic), q) /\ q.from = p.from => p.n < q.n
    BY <1>0 DEF ReplaySettled
  <2>2. shard_for_topic(p.topic) \in Shard
    BY PacketFields, ShardFacts, BrokerAssumption
  <2> QED
    BY <1>0, <2>1, <2>2, SettledStays
<1> QED
  BY <1>0, <1>1, <1>2, <1>3 DEF SInv

LEMMA HandleSInv ==
    ASSUME SInv, [Next]_vars, NEW s \in Shard, NEW m, Handle(s, m)
    PROVE  SInv'
<1>0. /\ TypeOK /\ OInv /\ OInv' /\ StoredSettled /\ ReplaySource /\ ReplaySettled
      /\ Numbering /\ ShardOrder
  BY NextOInv DEF SInv, OInv, LInv
<1>1. /\ outbound' = outbound /\ UNCHANGED <<sending, nread>>
      /\ \A t \in Shard : t # s => job'[t] = job[t]
      /\ job'[s].op = "fanout" => QueuedAt(s, 1, job'[s].packet)
      /\ \A i \in Nat, p \in Packet : QueuedAt(s, i, p)' => QueuedAt(s, i + 1, p)
  BY <1>0, HandleOrderEffect
<1>2. \A d \in Conn, k \in Nat, p \in Packet : ReplayAt(d, k, p)' => ReplayAt(d, k, p)
  BY <1>1 DEF ReplayAt, PublishAt, Pushes, IsPublish, PacketAt
<1>3. CASE HandleRegister(s, m) \/ HandleUnsubscribe(s, m) \/ HandleDisconnect(s, m)
  <2>1. retained' = retained /\ job' = job
    BY <1>3 DEF HandleRegister, HandleUnsubscribe, HandleDisconnect
  <2> QED
    BY <1>2, <2>1, QuietSInv DEF FanningAt
<1>4. CASE HandleSubscribe(s, m) \/ HandlePublish(s, m)
  <2>0. m \in Message /\ Receive(s, m) /\ job[s] = Idle
    BY <1>0, <1>4, ReceiveType DEF HandleSubscribe, HandlePublish, Receive
  <2>1. /\ \A t \in Shard : t # s => retained'[t] = retained[t]
        /\ m.type # "Publish" => retained'[s] = retained[s]
        /\ m.type = "Publish" => retained'[s] = Stored(retained[s], m.packet)
    BY <1>0, <1>4 DEF HandleSubscribe, HandlePublish, TypeOK
  <2>2. ASSUME m.type = "Publish"
        PROVE  /\ m.packet \in Packet /\ shard_for_topic(m.packet.topic) = s
               /\ Settled(m.packet)'
    <3>1. m.packet \in Packet
      BY <2>0, <2>2, MessageFields
    <3>2. inbox[s] \in Seq(Message) /\ inbox[s] # <<>> /\ m = Head(inbox[s])
      BY <1>0, <2>0 DEF Receive, TypeOK
    <3>3. 1 \in 1..Len(inbox[s]) /\ m = inbox[s][1]
      <4>1. Len(inbox[s]) \in Nat /\ Len(inbox[s]) # 0 /\ m = inbox[s][1]
        BY <3>2
      <4> QED
        BY <4>1
    <3>4. QueuedAt(s, 1, m.packet)
      BY <2>2, <3>3 DEF QueuedAt
    <3>5. HandedOver(m.packet) /\ shard_for_topic(m.packet.topic) = s
      BY <1>0, <3>1, <3>4 DEF HandedOver, ShardOrder
    <3>6. \A i \in Nat, q \in Packet :
            QueuedAt(s, i, q)' /\ q.from = m.packet.from => m.packet.n < q.n
      <4> SUFFICES ASSUME NEW i \in Nat, NEW q \in Packet, QueuedAt(s, i, q)',
                          q.from = m.packet.from
                   PROVE  m.packet.n < q.n
        OBVIOUS
      <4>1. QueuedAt(s, i + 1, q) /\ i # 0
        BY <1>1 DEF QueuedAt
      <4>2. 1 < i + 1 /\ i + 1 \in Nat
        BY <4>1
      <4> QED
        BY <1>0, <3>1, <3>4, <4>1, <4>2 DEF ShardOrder
    <3>7. /\ m.packet.n <= nread'[m.packet.from]
          /\ HoldsPublish(m.packet.from)' => m.packet.n < nread'[m.packet.from]
      BY <1>0, <1>1, <3>1, <3>5 DEF Numbering, HoldsPublish
    <3> QED
      BY <3>1, <3>5, <3>6, <3>7 DEF Settled
  <2>3. StoredSettled'
    <3> SUFFICES ASSUME NEW t \in Shard, NEW p \in retained'[t]
                 PROVE  shard_for_topic(p.topic) = t /\ Settled(p)'
      BY DEF StoredSettled
    <3>1. CASE p \in retained[t]
      <4>1. p \in Packet /\ shard_for_topic(p.topic) = t /\ Settled(p)
        BY <1>0, <3>1 DEF StoredSettled, TypeOK
      <4> QED
        BY <1>0, <4>1, SettledStays
    <3>2. CASE p \notin retained[t]
      <4>1. t = s /\ m.type = "Publish" /\ p \in Stored(retained[s], m.packet)
        BY <2>1, <3>2
      <4>2. m.packet.retain \in BOOLEAN /\ m.packet.empty \in BOOLEAN
        BY <2>2, <4>1, PacketFields
      <4>3. p = m.packet
        BY <3>2, <4>1, <4>2 DEF Stored
      <4> QED
        BY <2>2, <4>1, <4>3
    <3> QED
      BY <3>1, <3>2
  <2>4. ReplaySource'
    <3> SUFFICES ASSUME NEW t \in Shard, job'[t].op = "replay"
                 PROVE  job'[t].packets \subseteq retained'[t]
      BY DEF ReplaySource
    <3>1. CASE t # s
      BY <1>0, <1>1, <2>1, <3>1 DEF ReplaySource
    <3>2. CASE t = s
      <4>1. HandleSubscribe(s, m)
        <5>1. HandlePublish(s, m) => job'[s].op # "replay"
          BY <1>0 DEF HandlePublish, TypeOK, FanOut, Idle
        <5> QED
          BY <1>4, <3>2, <5>1
      <4>2. /\ retained'[s] = retained[s]
            /\ job'[s] = IF m.id \in clients[s] THEN Replay(m.id, RetainedFor(s, m.topic))
                                                ELSE Idle
        BY <1>0, <2>1, <4>1 DEF HandleSubscribe, TypeOK
      <4>3. job'[s].packets = RetainedFor(s, m.topic)
        BY <3>2, <4>2 DEF Replay, Idle
      <4> QED
        BY <3>2, <4>2, <4>3 DEF RetainedFor
    <3> QED
      BY <3>1, <3>2
  <2>5. ReplaySettled'
    <3> SUFFICES ASSUME NEW c \in Conn, NEW k \in Nat, NEW p \in Packet, ReplayAt(c, k, p)'
                 PROVE  /\ Settled(p)'
                        /\ \A q \in Packet :
                             FanningAt(shard_for_topic(p.topic), q)' /\ q.from = p.from => p.n < q.n
      BY DEF ReplaySettled
    <3>1. /\ Settled(p)
          /\ \A q \in Packet :
               FanningAt(shard_for_topic(p.topic), q) /\ q.from = p.from => p.n < q.n
      BY <1>0, <1>2 DEF ReplaySettled
    <3>2. shard_for_topic(p.topic) \in Shard
      BY PacketFields, ShardFacts, BrokerAssumption
    <3>3. ASSUME NEW q \in Packet, FanningAt(shard_for_topic(p.topic), q)', q.from = p.from
          PROVE  p.n < q.n
      <4>1. CASE shard_for_topic(p.topic) # s
        <5>1. FanningAt(shard_for_topic(p.topic), q)
          BY <1>1, <3>2, <3>3, <4>1 DEF FanningAt
        <5> QED
          BY <3>1, <3>3, <5>1
      <4>2. CASE shard_for_topic(p.topic) = s
        <5>1. QueuedAt(s, 1, q)
          BY <1>1, <3>3, <4>2 DEF FanningAt
        <5> QED
          BY <3>1, <3>3, <4>2, <5>1 DEF Settled
      <4> QED
        BY <4>1, <4>2
    <3>4. Settled(p)'
      BY <1>0, <3>1, SettledStays
    <3> QED
      BY <3>3, <3>4
  <2> QED
    BY <1>0, <2>3, <2>4, <2>5 DEF SInv
<1> QED
  BY <1>3, <1>4 DEF Handle

\* What the steps inside a job push, and where it comes from.
LEMMA ReplayStep ==
    ASSUME OInv, NEW s \in Shard, NEW r, PushReplay(s, r)
    PROVE  /\ job[s] \in Job /\ job[s].op = "replay" /\ job[s].to \in Conn
           /\ r \in job[s].packets /\ job[s].packets \subseteq Packet
           /\ [r EXCEPT !.retain = TRUE] \in Packet
           /\ [type |-> "PUBLISH", via |-> "replay",
               packet |-> [r EXCEPT !.retain = TRUE]] \in Event
           /\ PushTo(job[s].to, [type |-> "PUBLISH", via |-> "replay",
                                 packet |-> [r EXCEPT !.retain = TRUE]])
           /\ job'[s] = Replay(job[s].to, job[s].packets \ {r})
           /\ \A t \in Shard : t # s => job'[t] = job[t]
           /\ UNCHANGED <<inbox, clients, topics, retained, sending, next, nread>>
<1>0. TypeOK
  BY DEF OInv, LInv
<1>1. job[s] \in Job /\ job[s].op = "replay" /\ r \in job[s].packets
  BY <1>0 DEF PushReplay, TypeOK
<1>2. job[s].to \in Conn /\ job[s].packets \subseteq Packet
  BY <1>1, JobFields
<1>3. [r EXCEPT !.retain = TRUE] \in Packet
  BY <1>1, <1>2, PacketFields
<1>4. [type |-> "PUBLISH", via |-> "replay", packet |-> [r EXCEPT !.retain = TRUE]] \in Event
  BY <1>3 DEF Event
<1>5. /\ job'[s] = Replay(job[s].to, job[s].packets \ {r})
      /\ \A t \in Shard : t # s => job'[t] = job[t]
      /\ UNCHANGED <<inbox, clients, topics, retained, sending, next, nread>>
      /\ PushTo(job[s].to, [type |-> "PUBLISH", via |-> "replay",
                            packet |-> [r EXCEPT !.retain = TRUE]])
  BY <1>0 DEF PushReplay, TypeOK, readerVars
<1> QED
  BY <1>1, <1>2, <1>3, <1>4, <1>5

LEMMA VisitStep ==
    ASSUME OInv, NEW s \in Shard, NEW c \in Conn, FanOutVisit(s, c)
    PROVE  /\ FanningAt(s, job[s].packet) /\ job[s].packet \in Packet
           /\ job[s].todo \in [Conn -> {0, 1}] /\ job[s].todo[c] > 0
           /\ \/ outbound' = outbound
              \/ /\ [type |-> "PUBLISH", packet |-> job[s].packet, via |-> "live"] \in Event
                 /\ PushTo(c, [type |-> "PUBLISH", packet |-> job[s].packet, via |-> "live"])
           /\ job'[s].op # "replay"
           /\ job'[s].op = "fanout" =>
                /\ job'[s].packet = job[s].packet
                /\ \A d \in Conn : job[s].todo[d] = 0 => job'[s].todo[d] = 0
           /\ \A t \in Shard : t # s => job'[t] = job[t]
           /\ UNCHANGED <<inbox, clients, topics, retained, sending, next, nread>>
<1>0. TypeOK
  BY DEF OInv, LInv
<1> DEFINE j == job[s]
           rest == [j.todo EXCEPT ![c] = j.todo[c] - 1]
<1>1. j \in Job /\ j.op = "fanout" /\ j.todo[c] > 0
  BY <1>0 DEF FanOutVisit, TypeOK
<1>2. j.packet \in Packet /\ j.todo \in [Conn -> {0, 1}]
  BY <1>1, JobFields
<1>3. \A d \in Conn : j.todo[d] = 0 => rest[d] = 0
  BY <1>1, <1>2
<1>4. [type |-> "PUBLISH", packet |-> j.packet, via |-> "live"] \in Event
  BY <1>2 DEF Event
<1>5. /\ \/ outbound' = outbound
         \/ PushTo(c, [type |-> "PUBLISH", packet |-> j.packet, via |-> "live"])
      /\ \E n : job'[s] = FanOut(j.packet, j.exact, rest, j.wild, n)
      /\ \A t \in Shard : t # s => job'[t] = job[t]
      /\ UNCHANGED <<inbox, clients, topics, retained, sending, next, nread>>
  BY <1>0 DEF FanOutVisit, TypeOK, readerVars
<1> HIDE DEF rest
<1>6. /\ job'[s].op # "replay"
      /\ job'[s].op = "fanout" => job'[s].packet = j.packet /\ job'[s].todo = rest
  BY <1>5 DEF FanOut, Idle
<1> QED
  BY <1>1, <1>2, <1>3, <1>4, <1>5, <1>6 DEF FanningAt

LEMMA FilterStep ==
    ASSUME OInv, NEW s \in Shard, NEW f, FanOutFilter(s, f)
    PROVE  /\ FanningAt(s, job[s].packet) /\ f \in Filter
           /\ job'[s].op # "replay"
           /\ job'[s].op = "fanout" =>
                job'[s].packet = job[s].packet /\ job'[s].todo = topics[s][f]
           /\ \A t \in Shard : t # s => job'[t] = job[t]
           /\ UNCHANGED <<inbox, clients, topics, retained, outbound, sending, next, nread>>
<1>0. TypeOK
  BY DEF OInv, LInv
<1>1. job[s] \in Job /\ job[s].op = "fanout" /\ f \in job[s].wild
  BY <1>0 DEF FanOutFilter, TypeOK
<1>2. f \in Filter
  BY <1>1, JobFields
<1>3. /\ job'[s] = FanOut(job[s].packet, FALSE, topics[s][f], job[s].wild \ {f},
                          job[s].notified)
      /\ \A t \in Shard : t # s => job'[t] = job[t]
      /\ UNCHANGED <<inbox, clients, topics, retained, outbound, sending, next, nread>>
  BY <1>0 DEF FanOutFilter, TypeOK, readerVars
<1>4. /\ job'[s].op # "replay"
      /\ job'[s].op = "fanout" =>
           job'[s].packet = job[s].packet /\ job'[s].todo = topics[s][f]
  BY <1>3 DEF FanOut, Idle
<1> QED
  BY <1>1, <1>2, <1>3, <1>4 DEF FanningAt

LEMMA ReplaySInv ==
    ASSUME SInv, [Next]_vars, NEW s \in Shard, NEW r, PushReplay(s, r)
    PROVE  SInv'
<1>0. TypeOK /\ OInv /\ OInv' /\ StoredSettled /\ ReplaySource /\ ReplaySettled
  BY NextOInv DEF SInv, OInv, LInv
<1> DEFINE e == [type |-> "PUBLISH", via |-> "replay", packet |-> [r EXCEPT !.retain = TRUE]]
<1>1. /\ job[s].op = "replay" /\ job[s].to \in Conn
      /\ r \in job[s].packets /\ job[s].packets \subseteq Packet
      /\ [r EXCEPT !.retain = TRUE] \in Packet
      /\ e \in Event /\ PushTo(job[s].to, e)
      /\ job'[s] = Replay(job[s].to, job[s].packets \ {r})
      /\ \A t \in Shard : t # s => job'[t] = job[t]
      /\ retained' = retained
  BY <1>0, ReplayStep
<1>2. /\ r \in Packet /\ shard_for_topic(r.topic) = s /\ Settled(r)
  BY <1>0, <1>1 DEF ReplaySource, StoredSettled
<1>3. /\ job'[s].op = "replay" => job'[s].packets \subseteq job[s].packets
      /\ job'[s].op # "fanout"
  BY <1>1 DEF Replay, Idle
<1>4. \A t \in Shard, q \in Packet : FanningAt(t, q)' => t # s /\ FanningAt(t, q)
  BY <1>1, <1>3 DEF FanningAt
<1>5. e.packet.from = r.from /\ e.packet.n = r.n /\ e.packet.topic = r.topic
  BY <1>2 DEF Packet
<1> HIDE DEF e
<1>6. \A c \in Conn, k \in Nat, p \in Packet : ReplayAt(c, k, p)' =>
        ReplayAt(c, k, p) \/ p = e.packet
  BY <1>0, <1>1, PushPublish
<1>7. StoredSettled'
  <2> SUFFICES ASSUME NEW t \in Shard, NEW p \in retained[t]
               PROVE  shard_for_topic(p.topic) = t /\ Settled(p)'
    BY <1>1 DEF StoredSettled
  <2>1. p \in Packet /\ shard_for_topic(p.topic) = t /\ Settled(p)
    BY <1>0 DEF StoredSettled, TypeOK
  <2> QED
    BY <1>0, <2>1, SettledStays
<1>8. ReplaySource'
  BY <1>0, <1>1, <1>3 DEF ReplaySource
<1>9. ReplaySettled'
  <2> SUFFICES ASSUME NEW c \in Conn, NEW k \in Nat, NEW p \in Packet, ReplayAt(c, k, p)'
               PROVE  /\ Settled(p)'
                      /\ \A q \in Packet :
                           FanningAt(shard_for_topic(p.topic), q)' /\ q.from = p.from => p.n < q.n
    BY DEF ReplaySettled
  <2>0. shard_for_topic(p.topic) \in Shard
    BY PacketFields, ShardFacts, BrokerAssumption
  <2>1. CASE ReplayAt(c, k, p)
    <3>1. /\ Settled(p)
          /\ \A q \in Packet :
               FanningAt(shard_for_topic(p.topic), q) /\ q.from = p.from => p.n < q.n
      BY <1>0, <2>1 DEF ReplaySettled
    <3>2. Settled(p)'
      BY <1>0, <3>1, SettledStays
    <3> QED
      BY <1>4, <2>0, <3>1, <3>2
  <2>2. CASE p = e.packet
    <3>1. Settled(p)
      BY <1>2, <1>5, <2>2 DEF Settled
    <3>2. Settled(p)' /\ shard_for_topic(p.topic) = s
      BY <1>0, <1>2, <1>5, <2>2, <3>1, SettledStays
    <3> QED
      BY <1>4, <3>2
  <2> QED
    BY <1>6, <2>1, <2>2
<1> QED
  BY <1>0, <1>7, <1>8, <1>9 DEF SInv

LEMMA NextSInv == SInv /\ [Next]_vars => SInv'
<1> SUFFICES ASSUME SInv, [Next]_vars PROVE SInv'
  OBVIOUS
<1>0. OInv /\ TypeOK
  BY DEF SInv, OInv, LInv
<1>1. CASE UNCHANGED vars
  <2>1. UNCHANGED <<retained, job, outbound>>
    BY <1>1 DEF vars
  <2> QED
    BY <2>1, QuietSInv DEF FanningAt, ReplayAt, PublishAt, Pushes, IsPublish, PacketAt
<1>2. ASSUME NEW c \in Conn, ClientStep(c) \/ ReaderStep(c) PROVE SInv'
  <2>1. /\ UNCHANGED <<retained, job>>
        /\ \A d \in Conn, k \in Nat, p \in Packet : ReplayAt(d, k, p)' => ReplayAt(d, k, p)
    BY <1>0, <1>2, ReaderQuiet
  <2> QED
    BY <2>1, QuietSInv DEF FanningAt
<1>3. ASSUME NEW s \in Shard, NEW m, Handle(s, m) PROVE SInv'
  BY <1>3, HandleSInv
<1>4. ASSUME NEW s \in Shard, NEW r, PushReplay(s, r) PROVE SInv'
  BY <1>4, ReplaySInv
<1>5. ASSUME NEW s \in Shard, NEW c \in Conn, FanOutVisit(s, c) PROVE SInv'
  <2> DEFINE e == [type |-> "PUBLISH", packet |-> job[s].packet, via |-> "live"]
  <2>1. /\ FanningAt(s, job[s].packet) /\ retained' = retained
        /\ outbound' = outbound \/ (e \in Event /\ PushTo(c, e))
        /\ job'[s].op # "replay"
        /\ job'[s].op = "fanout" => job'[s].packet = job[s].packet
        /\ \A t \in Shard : t # s => job'[t] = job[t]
    BY <1>0, <1>5, VisitStep
  <2>2. e.via # "replay"
    OBVIOUS
  <2> HIDE DEF e
  <2>3. \A d \in Conn, k \in Nat, p \in Packet : ReplayAt(d, k, p)' => ReplayAt(d, k, p)
    <3>1. CASE outbound' = outbound
      BY <3>1 DEF ReplayAt, PublishAt, Pushes, IsPublish, PacketAt
    <3>2. CASE e \in Event /\ PushTo(c, e)
      BY <1>0, <2>2, <3>2, PushPublish
    <3> QED
      BY <2>1, <3>1, <3>2
  <2>4. /\ \A t \in Shard : job'[t].op = "replay" =>
             job[t].op = "replay" /\ job'[t].packets \subseteq job[t].packets
        /\ \A t \in Shard, q \in Packet : FanningAt(t, q)' => FanningAt(t, q)
    BY <2>1 DEF FanningAt
  <2> QED
    BY <2>1, <2>3, <2>4, QuietSInv
<1>6. ASSUME NEW s \in Shard, NEW f, FanOutFilter(s, f) PROVE SInv'
  <2>1. /\ FanningAt(s, job[s].packet)
        /\ job'[s].op # "replay"
        /\ job'[s].op = "fanout" => job'[s].packet = job[s].packet
        /\ \A t \in Shard : t # s => job'[t] = job[t]
        /\ UNCHANGED <<retained, outbound>>
    BY <1>0, <1>6, FilterStep
  <2>2. /\ \A t \in Shard : job'[t].op = "replay" =>
             job[t].op = "replay" /\ job'[t].packets \subseteq job[t].packets
        /\ \A t \in Shard, q \in Packet : FanningAt(t, q)' => FanningAt(t, q)
    BY <2>1 DEF FanningAt
  <2>3. \A d \in Conn, k \in Nat, p \in Packet : ReplayAt(d, k, p)' => ReplayAt(d, k, p)
    BY <2>1 DEF ReplayAt, PublishAt, Pushes, IsPublish, PacketAt
  <2> QED
    BY <2>1, <2>2, <2>3, QuietSInv
<1> QED
  BY <1>1, <1>2, <1>3, <1>4, <1>5, <1>6 DEF Next, ShardStep

LEMMA InitSInv == Init => SInv
<1> SUFFICES ASSUME Init PROVE SInv
  OBVIOUS
<1>1. /\ \A s \in Shard : retained[s] = {} /\ job[s].op = "idle"
      /\ \A c \in Conn : outbound[c] = <<>>
  BY DEF Init, Idle
<1>2. \A i : i \notin 1..Len(<<>>)
  OBVIOUS
<1>3. \A c \in Conn, k \in Nat, p \in Packet : ~ ReplayAt(c, k, p)
  BY <1>1, <1>2 DEF ReplayAt, PublishAt, Pushes
<1> QED
  BY <1>1, <1>3, InitOInv DEF SInv, StoredSettled, ReplaySource, ReplaySettled

LEMMA SInvariant == Spec => []SInv
BY InitSInv, NextSInv, PTL DEF Spec

-----------------------------------------------------------------------------
(***************************************************************************)
(* A blitzclient subscribes once, so that its replay comes before anything *)
(* live of the same shard.                                                 *)
(***************************************************************************)

\* The reader of c has yet to send its Subscribe to shard s, if c is to send one.
Subscribing(c) == sending[c] # <<>> /\ Head(sending[c]).type = "Subscribe"
ToCome(c, s) ==
    \/ nread[c] < 2
    \/ Subscribing(c) /\ (Broadcast(Head(sending[c])) => next[c] <= s)

\* Shard s has not handled the Subscribe of c; it has done nothing for c.
Coming(c, s) == ToCome(c, s) \/ \E i \in Nat : IsMessage(s, i, c, "Subscribe")
Untouched(c, s) ==
    /\ \A f \in Filter : topics[s][f][c] = 0
    /\ job[s].op = "fanout" => job[s].todo[c] = 0
    /\ job[s].op = "replay" => job[s].to # c
    /\ \A k \in Nat, p \in Packet : PublishAt(c, k, p) => shard_for_topic(p.topic) # s

\* A shard gets one Subscribe of a blitzclient.
SubscribesOnce ==
    \A c \in Client :
        /\ Len(sending[c]) <= 1
        /\ Subscribing(c) => nread[c] >= 2
        /\ \A s \in Shard, i \in Nat : IsMessage(s, i, c, "Subscribe") =>
             /\ ~ ToCome(c, s)
             /\ \A j \in Nat : IsMessage(s, j, c, "Subscribe") => j = i

FirstContact == \A c \in Client, s \in Shard : Coming(c, s) => Untouched(c, s)

\* What a replay has yet to push is of topics its client has got nothing of.
ReplayFirst ==
    \A c \in Client, s \in Shard :
        job[s].op = "replay" /\ job[s].to = c =>
            \A q \in job[s].packets, p \in Packet, k \in Nat :
                PublishAt(c, k, p) => p.topic # q.topic

\* A blitzclient is pushed the publishes of one client to a topic in order, the
\* replayed ones included.
ClientOrder ==
    \A c \in Client, i, j \in Nat, p, q \in Packet :
        /\ PublishAt(c, i, p) /\ PublishAt(c, j, q) /\ i < j
        /\ p.from = q.from /\ p.topic = q.topic
        => p.n < q.n

PInv == SInv /\ SubscribesOnce /\ FirstContact /\ ReplayFirst /\ ClientOrder

LEMMA ClientConn == Client \subseteq Conn
BY ClientAssumption

\* What the reader of a blitzclient gets: a SUBSCRIBE only as the second packet,
\* with one filter.
LEMMA ClientReads ==
    ASSUME OInv, NEW c \in Client, ClientStep(c)
    PROVE  /\ nread[c] \in Nat /\ nread'[c] = nread[c] + 1
           /\ UNCHANGED <<inbox, next>>
           /\ Len(sending'[c]) = 1
           /\ Subscribing(c)' => nread[c] = 1
           /\ \A d \in Conn : d # c => sending'[d] = sending[d] /\ nread'[d] = nread[d]
<1>0. TypeOK /\ LInv /\ c \in Conn
  BY ClientConn DEF OInv, LInv
<1>1. PICK pkt : Dispatch(c, pkt) /\ Decoded(c, pkt)
  <2>1. PICK pkt : Dispatch(c, pkt)
    BY DEF ClientStep
  <2>2. Decoded(c, pkt)
    BY <2>1 DEF Dispatch, ReadConnect, ReadSubscribe, ReadUnsubscribe, ReadPublish,
                ReadPing, ReadPuback, ReadHangup
  <2> QED
    BY <2>1, <2>2
<1>2. /\ inbox' = inbox
      /\ nread' = [nread EXCEPT ![c] = nread[c] + 1]
      /\ \A d \in Conn : d # c => sending'[d] = sending[d]
  BY <1>0, <1>1, DispatchOrderEffect
<1>3. nread[c] \in Nat /\ nread'[c] = nread[c] + 1 /\ \A d \in Conn : d # c => nread'[d] = nread[d]
  BY <1>0, <1>2 DEF TypeOK
<1>4. next' = next
  BY <1>1 DEF Dispatch, ReadConnect, ReadSubscribe, ReadUnsubscribe, ReadPublish,
              ReadPing, ReadPuback, ReadHangup, Begin
<1> DEFINE r == Request(Intent[c])
<1>5. Script[c] = << {CONNECT, HANGUP}, {r, HANGUP}, {HANGUP} >>
  BY ClientAssumption DEF ClientScript
<1>6. \/ pkt \in {CONNECT, HANGUP}
      \/ nread[c] = 1 /\ pkt = r
  <2>1. nread[c] < 3 /\ pkt \in Script[c][nread[c] + 1]
    BY <1>1, <1>5 DEF Decoded
  <2>2. nread[c] = 0 \/ nread[c] = 1 \/ nread[c] = 2
    BY <1>3, <2>1
  <2> HIDE DEF r
  <2> QED
    BY <1>5, <2>1, <2>2
<1>7. CASE pkt \in {CONNECT, HANGUP}
  <2>1. \E t \in {"Register", "Disconnect"} : sending'[c] = << [type |-> t, id |-> c] >>
    BY <1>0, <1>1, <1>7 DEF CONNECT, HANGUP, Dispatch, ReadConnect, ReadSubscribe,
       ReadUnsubscribe, ReadPublish, ReadPing, ReadPuback, ReadHangup, Begin, TypeOK
  <2>2. PICK t \in {"Register", "Disconnect"} : sending'[c] = << [type |-> t, id |-> c] >>
    BY <2>1
  <2>3. Len(sending'[c]) = 1 /\ Head(sending'[c]).type = t
    BY <2>2
  <2> QED
    BY <1>2, <1>3, <1>4, <2>3 DEF Subscribing
<1>8. CASE nread[c] = 1 /\ pkt = r
  <2>1. Len(sending'[c]) = 1
    <3>1. CASE Intent[c].cmd = "pub"
      <4>1. pkt.type = "PUBLISH"
        BY <1>8, <3>1 DEF Request
      <4>2. sending'[c] = << [type |-> "Publish", id |-> c,
                              packet |-> Published(c, nread[c] + 1, pkt)] >>
        BY <1>0, <1>1, <4>1 DEF Dispatch, ReadConnect, ReadSubscribe,
           ReadUnsubscribe, ReadPublish, ReadPing, ReadPuback, ReadHangup, Begin, TypeOK
      <4> QED
        BY <4>2
    <3>2. CASE Intent[c].cmd # "pub"
      <4>1. pkt.type = "SUBSCRIBE" /\ Len(pkt.filters) = 1
        BY <1>8, <3>2 DEF Request
      <4>2. sending'[c] = [i \in 1..Len(pkt.filters) |->
                             [type |-> "Subscribe", id |-> c, topic |-> pkt.filters[i]]]
        BY <1>0, <1>1, <4>1 DEF Dispatch, ReadConnect, ReadSubscribe,
           ReadUnsubscribe, ReadPublish, ReadPing, ReadPuback, ReadHangup, Begin, TypeOK
      <4> QED
        BY <4>1, <4>2
    <3> QED
      BY <3>1, <3>2
  <2> QED
    BY <1>2, <1>3, <1>4, <1>8, <2>1
<1> QED
  BY <1>6, <1>7, <1>8

\* Handling a message moves the others up in the channel.
LEMMA HandleShift ==
    ASSUME TypeOK, NEW t \in Shard, NEW m, Handle(t, m), NEW c \in Conn
    PROVE  /\ UNCHANGED <<sending, next, nread>> /\ m \in Message /\ job[t] = Idle
           /\ \A s \in Shard : s # t => inbox'[s] = inbox[s]
           /\ IsMessage(t, 1, m.id, m.type)
           /\ \A i \in Nat : IsMessage(t, i, c, "Subscribe")' =>
                i # 0 /\ IsMessage(t, i + 1, c, "Subscribe")
<1>1. Receive(t, m)
  BY HandleEffect
<1>2. /\ inbox[t] # <<>> /\ inbox' = [inbox EXCEPT ![t] = Tail(inbox[t])]
      /\ UNCHANGED <<sending, next, nread>> /\ m \in Message /\ m = Head(inbox[t])
      /\ job[t] = Idle
  BY <1>1, ReceiveType DEF readerVars, Receive
<1>3. /\ inbox[t] \in Seq(Message) /\ inbox'[t] = Tail(inbox[t])
      /\ \A s \in Shard : s # t => inbox'[s] = inbox[s]
  BY <1>2 DEF TypeOK
<1>4. /\ Len(inbox[t]) \in Nat /\ Len(inbox'[t]) = Len(inbox[t]) - 1
      /\ \A i \in 1..Len(inbox'[t]) : inbox'[t][i] = inbox[t][i + 1]
  <2>1. inbox[t] \in Seq(Message) /\ inbox[t] # <<>> /\ Len(inbox[t]) \in Nat
    BY <1>2, <1>3
  <2>2. /\ Len(Tail(inbox[t])) = Len(inbox[t]) - 1
        /\ \A i \in 1..Len(Tail(inbox[t])) : Tail(inbox[t])[i] = inbox[t][i + 1]
    BY <2>1, HeadTailProperties
  <2> QED
    BY <1>3, <2>1, <2>2
<1>5. IsMessage(t, 1, m.id, m.type)
  <2>1. Len(inbox[t]) \in Nat /\ Len(inbox[t]) # 0 /\ m = inbox[t][1]
    BY <1>2, <1>3
  <2>2. 1 \in 1..Len(inbox[t])
    BY <2>1
  <2> QED
    BY <2>1, <2>2 DEF IsMessage
<1>6. ASSUME NEW i \in Nat, IsMessage(t, i, c, "Subscribe")'
      PROVE  i # 0 /\ IsMessage(t, i + 1, c, "Subscribe")
  <2>1. i \in 1..Len(inbox'[t])
    BY <1>6 DEF IsMessage
  <2>2. i # 0 /\ i + 1 \in 1..Len(inbox[t]) /\ inbox'[t][i] = inbox[t][i + 1]
    BY <1>4, <2>1
  <2> QED
    BY <1>6, <2>2 DEF IsMessage
<1> QED
  BY <1>2, <1>3, <1>5, <1>6

\* The Subscribe of c moves from its reader to the channel of a shard, and up in
\* the channel.
LEMMA SubscribeMoves ==
    ASSUME OInv, SubscribesOnce, [Next]_vars, NEW c \in Client
    PROVE  /\ Len(sending'[c]) <= 1
           /\ Subscribing(c)' => nread'[c] >= 2
           /\ \A s \in Shard :
                /\ ToCome(c, s)' => ToCome(c, s)
                /\ \/ \A i \in Nat : IsMessage(s, i, c, "Subscribe")' =>
                        IsMessage(s, i, c, "Subscribe")
                   \/ \A i \in Nat : IsMessage(s, i, c, "Subscribe")' =>
                        IsMessage(s, i + 1, c, "Subscribe")
                   \/ /\ ToCome(c, s) /\ ~ ToCome(c, s)'
                      /\ \A i \in Nat : IsMessage(s, i, c, "Subscribe")' =>
                           i = Len(inbox'[s])
<1>0. /\ TypeOK /\ LInv /\ Leaving /\ c \in Conn
      /\ Len(sending[c]) <= 1 /\ (Subscribing(c) => nread[c] >= 2)
      /\ nread[c] \in Nat
  BY ClientConn DEF OInv, LInv, SubscribesOnce, TypeOK
<1> DEFINE P == /\ Len(sending'[c]) <= 1
                /\ Subscribing(c)' => nread'[c] >= 2
                /\ \A s \in Shard :
                     /\ ToCome(c, s)' => ToCome(c, s)
                     /\ \/ \A i \in Nat : IsMessage(s, i, c, "Subscribe")' =>
                             IsMessage(s, i, c, "Subscribe")
                        \/ \A i \in Nat : IsMessage(s, i, c, "Subscribe")' =>
                             IsMessage(s, i + 1, c, "Subscribe")
                        \/ /\ ToCome(c, s) /\ ~ ToCome(c, s)'
                           /\ \A i \in Nat : IsMessage(s, i, c, "Subscribe")' =>
                                i = Len(inbox'[s])
<1>1. ASSUME sending'[c] = sending[c], next'[c] = next[c], nread'[c] = nread[c]
      PROVE  /\ Len(sending'[c]) <= 1
             /\ Subscribing(c)' => nread'[c] >= 2
             /\ \A s \in Shard : ToCome(c, s)' => ToCome(c, s)
  BY <1>0, <1>1 DEF Subscribing, ToCome
<1>2. ASSUME inbox' = inbox
      PROVE  \A s \in Shard, i \in Nat : IsMessage(s, i, c, "Subscribe")' =>
               IsMessage(s, i, c, "Subscribe")
  BY <1>2 DEF IsMessage
<1>3. ASSUME UNCHANGED <<inbox, sending, next, nread>>
      PROVE  P
  BY <1>1, <1>2, <1>3
<1>4. ASSUME UNCHANGED vars
      PROVE  P
  BY <1>3, <1>4 DEF vars
<1>5. ASSUME NEW d \in Conn, ClientStep(d)
      PROVE  P
  <2>0. PICK pkt : Dispatch(d, pkt)
    BY <1>5 DEF ClientStep
  <2>1. CASE d # c
    <3>1. /\ inbox' = inbox /\ sending'[c] = sending[c]
          /\ nread' = [nread EXCEPT ![d] = nread[d] + 1]
      BY <1>0, <2>0, <2>1, DispatchOrderEffect
    <3>2. nread'[c] = nread[c]
      BY <1>0, <2>1, <3>1 DEF TypeOK
    <3>3. next' = next
      BY <1>0, <2>0, DispatchEffect
    <3> QED
      BY <1>1, <1>2, <3>1, <3>2, <3>3
  <2>2. CASE d = c
    <3>1. /\ nread'[c] = nread[c] + 1 /\ UNCHANGED <<inbox, next>>
          /\ Len(sending'[c]) = 1
          /\ Subscribing(c)' => nread[c] = 1
      BY <1>0, <1>5, <2>2, ClientReads
    <3>2. \A s \in Shard : ToCome(c, s)' => ToCome(c, s)
      BY <1>0, <3>1 DEF ToCome
    <3> QED
      BY <1>0, <1>2, <3>1, <3>2
  <2> QED
    BY <2>1, <2>2
<1>6. ASSUME NEW d \in Conn, Send(d)
      PROVE  P
  <2>1. PICK m \in Message, h \in Shard :
             /\ sending[d] # <<>> /\ m = Head(sending[d])
             /\ h = IF Broadcast(m) THEN next[d] ELSE HomeShard(m)
             /\ inbox' = [inbox EXCEPT ![h] = Append(inbox[h], m)]
             /\ IF Broadcast(m) /\ next[d] + 1 < N
                THEN /\ next' = [next EXCEPT ![d] = next[d] + 1]
                     /\ next[d] + 1 \in Shard
                     /\ sending' = sending
                ELSE /\ next' = [next EXCEPT ![d] = 0]
                     /\ sending' = [sending EXCEPT ![d] = Tail(sending[d])]
             /\ UNCHANGED <<shardVars, outbound, phase, ack, nread>>
    BY <1>0, <1>6, SendStep
  <2>2. m.id = d
    <3>1. sending[d] \in Seq(Message) /\ sending[d] # <<>>
      BY <1>0, <2>1 DEF TypeOK
    <3>2. 1 \in 1..Len(sending[d]) /\ m = sending[d][1]
      <4>1. Len(sending[d]) \in Nat /\ Len(sending[d]) # 0 /\ m = sending[d][1]
        BY <2>1, <3>1
      <4> QED
        BY <4>1
    <3> QED
      BY <1>0, <3>2 DEF Leaving
  <2>3. /\ inbox[h] \in Seq(Message) /\ inbox'[h] = Append(inbox[h], m)
        /\ \A t \in Shard : t # h => inbox'[t] = inbox[t]
    BY <1>0, <2>1 DEF TypeOK
  <2>4. /\ Len(inbox[h]) \in Nat /\ Len(inbox'[h]) = Len(inbox[h]) + 1
        /\ \A t \in Shard, i \in Nat :
             IsMessage(t, i, c, "Subscribe")' =>
                \/ IsMessage(t, i, c, "Subscribe")
                \/ t = h /\ i = Len(inbox[h]) + 1 /\ m.id = c /\ m.type = "Subscribe"
    <3>1. inbox[h] \in Seq(Message)
      BY <2>3
    <3>2. inbox'[h] = Append(inbox[h], m)
      BY <2>3
    <3>3. \A t \in Shard : t # h => inbox'[t] = inbox[t]
      BY <2>3
    <3>4. SentTo(m, h)
      BY <3>1, <3>2, <3>3, SendChannel, Zenon
    <3>5. c \in Conn
      BY <1>0
    <3> QED
      BY <3>4, <3>5 DEF SentTo
  <2>6. nread' = nread
    BY <2>1
  <2>7. CASE d # c
    <3>1. sending'[c] = sending[c] /\ next'[c] = next[c]
      BY <1>0, <2>1, <2>7 DEF TypeOK
    <3> QED
      BY <1>1, <2>2, <2>4, <2>6, <2>7, <3>1
  <2>8. CASE d = c
    <3>1. next[c] \in Nat /\ sending[c] \in Seq(Message)
      BY <1>0 DEF TypeOK, Shard
    <3>2. \/ /\ sending'[c] = sending[c] /\ next'[c] = next[c] + 1 /\ Broadcast(m)
          \/ sending'[c] = <<>>
      <4>1. Tail(sending[c]) = <<>>
        <5>1. Len(sending[c]) = 1
          <6>1. Len(sending[c]) \in Nat /\ Len(sending[c]) # 0
            BY <2>1, <2>8, <3>1
          <6>2. Len(sending[c]) <= 1
            BY <1>0
          <6>3. PICK n \in Nat : n = Len(sending[c])
            BY <6>1
          <6>4. n # 0 /\ n <= 1
            BY <6>1, <6>2, <6>3
          <6>5. n = 1
            BY <6>4
          <6> QED
            BY <6>3, <6>5
        <5>2. Tail(sending[c]) \in Seq(Message) /\ Len(Tail(sending[c])) = 0
          BY <3>1, <5>1, <2>1, <2>8, HeadTailProperties
        <5> QED
          BY <5>2, EmptySeq
      <4> QED
        BY <1>0, <2>1, <2>8, <4>1 DEF TypeOK
    <3>3. Len(sending'[c]) <= 1
      <4>1. Len(<<>>) <= 1
        OBVIOUS
      <4> QED
        BY <1>0, <3>2, <4>1
    <3>4. Subscribing(c)' => Subscribing(c) /\ sending'[c] = sending[c]
      BY <3>2 DEF Subscribing
    <3>5. \A s \in Shard : ToCome(c, s)' => ToCome(c, s)
      <4> SUFFICES ASSUME NEW s \in Shard, ToCome(c, s)' PROVE ToCome(c, s)
        OBVIOUS
      <4>1. s \in Nat
        BY DEF Shard
      <4> QED
        BY <2>1, <2>6, <2>8, <3>1, <3>2, <3>4, <4>1 DEF ToCome
    <3>6. ASSUME m.type = "Subscribe"
          PROVE  ToCome(c, h) /\ ~ ToCome(c, h)'
      <4>1. Subscribing(c) /\ nread[c] >= 2
        BY <1>0, <2>1, <2>8, <3>6 DEF Subscribing
      <4>2. Broadcast(m) => next[c] = h
        BY <2>1, <2>8
      <4>3. ToCome(c, h)
        BY <2>1, <2>8, <3>1, <4>1, <4>2 DEF ToCome
      <4>4. ~ ToCome(c, h)'
        <5>1. ~(nread'[c] < 2)
          BY <1>0, <2>6, <4>1
        <5>2. CASE sending'[c] = <<>>
          BY <5>1, <5>2 DEF ToCome, Subscribing
        <5>3. CASE sending'[c] = sending[c] /\ next'[c] = next[c] + 1 /\ Broadcast(m)
          <6>1. Broadcast(Head(sending'[c]))
            BY <2>1, <2>8, <5>3
          <6>2. ~(next'[c] <= h)
            BY <3>1, <4>2, <5>3
          <6>3. Broadcast(Head(sending[c]))' <=> Broadcast(Head(sending'[c]))
            BY DEF Broadcast
          <6> QED
            BY <5>1, <6>1, <6>2, <6>3 DEF ToCome
        <5> QED
          BY <3>2, <5>2, <5>3
      <4> QED
        BY <4>3, <4>4
    <3>7. CASE m.type # "Subscribe"
      <4>1. \A t \in Shard, i \in Nat : IsMessage(t, i, c, "Subscribe")' =>
              IsMessage(t, i, c, "Subscribe")
        BY <2>4, <3>7
      <4> QED
        BY <1>0, <2>6, <3>3, <3>4, <3>5, <4>1
    <3>8. CASE m.type = "Subscribe"
      <4>1. \A i \in Nat : ~ IsMessage(h, i, c, "Subscribe")
        BY <3>6, <3>8 DEF SubscribesOnce
      <4>2. \A t \in Shard, i \in Nat : t # h /\ IsMessage(t, i, c, "Subscribe")' =>
              IsMessage(t, i, c, "Subscribe")
        BY <2>4
      <4>3. \A i \in Nat : IsMessage(h, i, c, "Subscribe")' => i = Len(inbox'[h])
        BY <2>4, <4>1
      <4> QED
        BY <1>0, <2>6, <3>3, <3>4, <3>5, <3>6, <3>8, <4>2, <4>3
    <3> QED
      BY <3>7, <3>8
  <2> QED
    BY <2>7, <2>8
<1>7. ASSUME NEW d \in Conn, Answer(d) \/ Close(d)
      PROVE  P
  <2>1. UNCHANGED <<inbox, sending, next, nread>>
    BY <1>7 DEF Answer, Close
  <2> QED
    BY <1>3, <2>1
<1>8. ASSUME NEW t \in Shard, NEW m, Handle(t, m)
      PROVE  P
  <2>1. /\ UNCHANGED <<sending, next, nread>>
        /\ \A s \in Shard : s # t => inbox'[s] = inbox[s]
        /\ \A i \in Nat : IsMessage(t, i, c, "Subscribe")' => IsMessage(t, i + 1, c, "Subscribe")
    BY <1>0, <1>8, HandleShift
  <2>2. \A s \in Shard, i \in Nat : s # t /\ IsMessage(s, i, c, "Subscribe")' =>
          IsMessage(s, i, c, "Subscribe")
    BY <2>1 DEF IsMessage
  <2> QED
    BY <1>1, <2>1, <2>2
<1>9. ASSUME NEW s \in Shard,
             \/ \E r \in job[s].packets : PushReplay(s, r)
             \/ \E d \in Conn : FanOutVisit(s, d)
             \/ \E f \in job[s].wild : FanOutFilter(s, f)
      PROVE  P
  <2>1. UNCHANGED <<inbox, sending, next, nread>>
    BY <1>9 DEF PushReplay, FanOutVisit, FanOutFilter, readerVars
  <2> QED
    BY <1>3, <2>1
<1> HIDE DEF P
<1>10. P
  BY <1>4, <1>5, <1>6, <1>7, <1>8, <1>9 DEF Next, ReaderStep, ShardStep
<1> QED
  BY <1>10 DEF P

LEMMA SubscribesOnceStays ==
    ASSUME OInv, SubscribesOnce, [Next]_vars
    PROVE  /\ SubscribesOnce'
           /\ \A c \in Client, s \in Shard : Coming(c, s)' => Coming(c, s)
<1>1. ASSUME NEW c \in Client
      PROVE  /\ Len(sending'[c]) <= 1
             /\ Subscribing(c)' => nread'[c] >= 2
             /\ \A s \in Shard :
                  /\ ToCome(c, s)' => ToCome(c, s)
                  /\ \/ \A i \in Nat : IsMessage(s, i, c, "Subscribe")' =>
                          IsMessage(s, i, c, "Subscribe")
                     \/ \A i \in Nat : IsMessage(s, i, c, "Subscribe")' =>
                          IsMessage(s, i + 1, c, "Subscribe")
                     \/ /\ ToCome(c, s) /\ ~ ToCome(c, s)'
                        /\ \A i \in Nat : IsMessage(s, i, c, "Subscribe")' =>
                             i = Len(inbox'[s])
  BY SubscribeMoves
<1>2. ASSUME NEW c \in Client, NEW s \in Shard, NEW i \in Nat,
             IsMessage(s, i, c, "Subscribe")'
      PROVE  ~ ToCome(c, s)' /\ \A j \in Nat : IsMessage(s, j, c, "Subscribe")' => j = i
  <2>1. \A k, l \in Nat : IsMessage(s, k, c, "Subscribe") /\ IsMessage(s, l, c, "Subscribe") =>
          k = l /\ ~ ToCome(c, s)
    BY DEF SubscribesOnce
  <2>2. CASE \A k \in Nat : IsMessage(s, k, c, "Subscribe")' => IsMessage(s, k, c, "Subscribe")
    BY <1>1, <1>2, <2>1, <2>2
  <2>3. CASE \A k \in Nat : IsMessage(s, k, c, "Subscribe")' => IsMessage(s, k + 1, c, "Subscribe")
    <3>1. i + 1 \in Nat /\ IsMessage(s, i + 1, c, "Subscribe")
      BY <1>2, <2>3
    <3>2. ~ ToCome(c, s)'
      BY <1>1, <2>1, <3>1
    <3>3. ASSUME NEW j \in Nat, IsMessage(s, j, c, "Subscribe")' PROVE j = i
      <4>1. j + 1 \in Nat /\ IsMessage(s, j + 1, c, "Subscribe")
        BY <2>3, <3>3
      <4>2. j + 1 = i + 1
        BY <2>1, <3>1, <4>1
      <4> QED
        BY <4>2
    <3> QED
      BY <3>2, <3>3
  <2>4. CASE /\ ToCome(c, s) /\ ~ ToCome(c, s)'
             /\ \A k \in Nat : IsMessage(s, k, c, "Subscribe")' => k = Len(inbox'[s])
    BY <1>2, <2>4
  <2> QED
    BY <1>1, <2>2, <2>3, <2>4
<1>3. SubscribesOnce'
  BY <1>1, <1>2 DEF SubscribesOnce
<1>4. ASSUME NEW c \in Client, NEW s \in Shard, Coming(c, s)'
      PROVE  Coming(c, s)
  <2>1. CASE ToCome(c, s)'
    BY <1>1, <2>1 DEF Coming
  <2>2. CASE \E i \in Nat : IsMessage(s, i, c, "Subscribe")'
    <3>1. PICK i \in Nat : IsMessage(s, i, c, "Subscribe")'
      BY <2>2
    <3>2. i + 1 \in Nat
      OBVIOUS
    <3>3. \/ IsMessage(s, i, c, "Subscribe")
          \/ IsMessage(s, i + 1, c, "Subscribe")
          \/ ToCome(c, s)
      BY <1>1, <3>1
    <3> QED
      BY <3>2, <3>3 DEF Coming
  <2> QED
    BY <1>4, <2>1, <2>2 DEF Coming
<1> QED
  BY <1>3, <1>4

\* Once a shard handles the Subscribe of c, no other is coming.
LEMMA LastSubscribe ==
    ASSUME OInv, SubscribesOnce, [Next]_vars, NEW s \in Shard, NEW m, Handle(s, m),
           m.type = "Subscribe", m.id \in Client
    PROVE  Coming(m.id, s) /\ ~ Coming(m.id, s)'
<1> DEFINE c == m.id
<1>0. TypeOK /\ c \in Conn /\ c \in Client
  BY ClientConn DEF OInv, LInv
<1>1. /\ IsMessage(s, 1, c, "Subscribe")
      /\ \A i \in Nat : IsMessage(s, i, c, "Subscribe")' =>
           i # 0 /\ IsMessage(s, i + 1, c, "Subscribe")
  BY <1>0, HandleShift
<1> HIDE DEF c
<1>2. /\ ~ ToCome(c, s)
      /\ \A j \in Nat : IsMessage(s, j, c, "Subscribe") => j = 1
  BY <1>0, <1>1 DEF SubscribesOnce
<1>3. ~ ToCome(c, s)'
  BY <1>0, <1>2, SubscribeMoves
<1>4. \A i \in Nat : ~ IsMessage(s, i, c, "Subscribe")'
  <2> SUFFICES ASSUME NEW i \in Nat, IsMessage(s, i, c, "Subscribe")' PROVE FALSE
    OBVIOUS
  <2>1. i # 0 /\ IsMessage(s, i + 1, c, "Subscribe") /\ i + 1 \in Nat
    BY <1>1
  <2>2. i + 1 = 1
    BY <1>2, <2>1
  <2> QED
    BY <2>1, <2>2
<1> QED
  BY <1>1, <1>3, <1>4 DEF Coming, c

\* The job that handling a message begins.
LEMMA HandleJob ==
    ASSUME SInv, NEW s \in Shard, NEW m, Handle(s, m)
    PROVE  /\ \A t \in Shard : t # s => job'[t] = job[t]
           /\ job'[s].op = "replay" =>
                /\ m.type = "Subscribe" /\ job'[s].to = m.id
                /\ job'[s].packets \subseteq retained[s]
           /\ job'[s].op = "fanout" =>
                \E f \in Filter : job'[s].todo = topics[s][f]
<1>0. TypeOK
  BY DEF SInv, OInv, LInv
<1>1. Receive(s, m) /\ \A t \in Shard : t # s => job'[t] = job[t]
  BY <1>0, HandleEffect
<1>2. m \in Message /\ job[s] = Idle
  BY <1>0, <1>1, ReceiveType DEF Receive
<1>3. CASE HandleRegister(s, m) \/ HandleUnsubscribe(s, m) \/ HandleDisconnect(s, m)
  <2>1. job'[s].op = "idle"
    BY <1>2, <1>3 DEF HandleRegister, HandleUnsubscribe, HandleDisconnect, Idle
  <2> QED
    BY <1>1, <2>1
<1>4. CASE HandleSubscribe(s, m)
  <2>1. /\ m.type = "Subscribe"
        /\ job'[s] = IF m.id \in clients[s] THEN Replay(m.id, RetainedFor(s, m.topic)) ELSE Idle
    BY <1>0, <1>4 DEF HandleSubscribe, TypeOK
  <2>2. /\ job'[s].op # "fanout"
        /\ job'[s].op = "replay" =>
             job'[s].to = m.id /\ job'[s].packets = RetainedFor(s, m.topic)
    BY <2>1 DEF Replay, Idle
  <2> QED
    BY <1>1, <2>1, <2>2 DEF RetainedFor
<1>5. CASE HandlePublish(s, m)
  <2>1. m.packet.topic \in Filter
    BY <1>2, <1>5, MessageFields, PacketFields, ShardFacts DEF HandlePublish
  <2>2. job'[s] = FanOut(m.packet, TRUE, topics[s][m.packet.topic],
                         WildcardFilters(s, m.packet.topic), {})
    BY <1>0, <1>5 DEF HandlePublish, TypeOK
  <2>3. /\ job'[s].op # "replay"
        /\ job'[s].op = "fanout" => job'[s].todo = topics[s][m.packet.topic]
    BY <2>2 DEF FanOut, Idle
  <2> QED
    BY <1>1, <2>1, <2>3
<1> QED
  BY <1>3, <1>4, <1>5 DEF Handle

\* A shard does nothing for a blitzclient before it handles its Subscribe.
LEMMA FirstContactStays ==
    ASSUME SInv, SubscribesOnce, FirstContact, [Next]_vars,
           NEW c \in Client, NEW s \in Shard, Coming(c, s)'
    PROVE  Untouched(c, s)'
<1>0. TypeOK /\ OInv /\ OInv' /\ TypeOK' /\ StoredSettled /\ ReplaySource /\ ShardOrder /\ c \in Conn
  BY NextOInv, ClientConn DEF SInv, OInv, LInv
<1>1. Coming(c, s)
  BY <1>0, SubscribesOnceStays
<1>2. /\ \A f \in Filter : topics[s][f][c] = 0
      /\ job[s].op = "fanout" => job[s].todo[c] = 0
      /\ job[s].op = "replay" => job[s].to # c
      /\ \A k \in Nat, p \in Packet : PublishAt(c, k, p) => shard_for_topic(p.topic) # s
  BY <1>1 DEF FirstContact, Untouched
<1>3. ASSUME UNCHANGED <<topics, job>>,
             \A k \in Nat, p \in Packet : PublishAt(c, k, p)' => PublishAt(c, k, p)
      PROVE  Untouched(c, s)'
  BY <1>2, <1>3 DEF Untouched
<1>4. ASSUME UNCHANGED vars PROVE Untouched(c, s)'
  BY <1>3, <1>4 DEF vars, PublishAt, Pushes, IsPublish, PacketAt
<1>5. ASSUME NEW d \in Conn, ClientStep(d) \/ ReaderStep(d) PROVE Untouched(c, s)'
  BY <1>0, <1>3, <1>5, ReaderQuiet
<1>6. ASSUME NEW t \in Shard, NEW m, Handle(t, m) PROVE Untouched(c, s)'
  <2>1. /\ outbound' = outbound
        /\ s # t => topics'[s] = topics[s]
        /\ \A f \in Filter : topics'[t][f][c] > 0 =>
             topics[t][f][c] > 0 \/ (m.type = "Subscribe" /\ m.id = c)
    BY <1>0, <1>6, HandleRegistry
  <2>2. /\ s # t => job'[s] = job[s]
        /\ job'[t].op = "replay" => m.type = "Subscribe" /\ job'[t].to = m.id
        /\ job'[t].op = "fanout" => \E f \in Filter : job'[t].todo = topics[t][f]
    BY <1>6, HandleJob
  <2>3. t = s => ~(m.type = "Subscribe" /\ m.id = c)
    BY <1>0, <1>6, LastSubscribe
  <2>4. \A k \in Nat, p \in Packet : PublishAt(c, k, p)' => PublishAt(c, k, p)
    BY <2>1 DEF PublishAt, Pushes, IsPublish, PacketAt
  <2>5. \A f \in Filter : topics'[s][f][c] = 0
    <3> SUFFICES ASSUME NEW f \in Filter PROVE topics'[s][f][c] = 0
      OBVIOUS
    <3>1. topics'[s][f][c] \in {0, 1} /\ topics[s][f][c] = 0
      BY <1>0, <1>2 DEF TypeOK
    <3>2. ~(topics'[s][f][c] > 0)
      BY <2>1, <2>3, <3>1
    <3> QED
      BY <3>1, <3>2
  <2>6. job'[s].op = "fanout" => job'[s].todo[c] = 0
    BY <1>2, <2>2
  <2>7. job'[s].op = "replay" => job'[s].to # c
    BY <1>2, <2>2, <2>3
  <2> QED
    BY <1>2, <2>4, <2>5, <2>6, <2>7 DEF Untouched
<1>7. ASSUME NEW t \in Shard, NEW r, PushReplay(t, r) PROVE Untouched(c, s)'
  <2> DEFINE e == [type |-> "PUBLISH", via |-> "replay", packet |-> [r EXCEPT !.retain = TRUE]]
  <2>1. /\ job[t].op = "replay" /\ job[t].to \in Conn
        /\ r \in job[t].packets /\ job[t].packets \subseteq Packet
        /\ e \in Event /\ PushTo(job[t].to, e)
        /\ job'[t] = Replay(job[t].to, job[t].packets \ {r})
        /\ \A u \in Shard : u # t => job'[u] = job[u]
        /\ topics' = topics
    BY <1>0, <1>7, ReplayStep
  <2>2. shard_for_topic(r.topic) = t /\ e.packet.topic = r.topic
    BY <1>0, <2>1 DEF ReplaySource, StoredSettled, Packet
  <2> HIDE DEF e
  <2>3. /\ job'[s].op = "replay" => job[s].op = "replay" /\ job'[s].to = job[s].to
        /\ job'[s].op = "fanout" => job'[s] = job[s]
    BY <2>1 DEF Replay, Idle
  <2>4. \A k \in Nat, p \in Packet : PublishAt(c, k, p)' => shard_for_topic(p.topic) # s
    <3> SUFFICES ASSUME NEW k \in Nat, NEW p \in Packet, PublishAt(c, k, p)'
                 PROVE  shard_for_topic(p.topic) # s
      OBVIOUS
    <3>1. PublishAt(c, k, p) \/ (c = job[t].to /\ p = e.packet)
      BY <1>0, <2>1, PushPublish
    <3>2. c = job[t].to => t # s
      BY <1>2, <2>1
    <3> QED
      BY <1>2, <2>2, <3>1, <3>2
  <2> QED
    BY <1>2, <2>1, <2>3, <2>4 DEF Untouched
<1>8. ASSUME NEW t \in Shard, NEW d \in Conn, FanOutVisit(t, d) PROVE Untouched(c, s)'
  <2> DEFINE e == [type |-> "PUBLISH", packet |-> job[t].packet, via |-> "live"]
  <2>1. /\ FanningAt(t, job[t].packet) /\ job[t].packet \in Packet
        /\ job[t].todo[d] > 0
        /\ outbound' = outbound \/ (e \in Event /\ PushTo(d, e))
        /\ job'[t].op # "replay"
        /\ job'[t].op = "fanout" => \A x \in Conn : job[t].todo[x] = 0 => job'[t].todo[x] = 0
        /\ \A u \in Shard : u # t => job'[u] = job[u]
        /\ topics' = topics
    BY <1>0, <1>8, VisitStep
  <2>2. shard_for_topic(job[t].packet.topic) = t /\ e.packet = job[t].packet
        /\ job[t].op = "fanout"
    BY <1>0, <2>1 DEF ShardOrder, FanningAt
  <2> HIDE DEF e
  <2>3. \A k \in Nat, p \in Packet : PublishAt(c, k, p)' => shard_for_topic(p.topic) # s
    <3> SUFFICES ASSUME NEW k \in Nat, NEW p \in Packet, PublishAt(c, k, p)'
                 PROVE  shard_for_topic(p.topic) # s
      OBVIOUS
    <3>1. CASE outbound' = outbound
      <4>1. PublishAt(c, k, p)
        BY <3>1 DEF PublishAt, Pushes, IsPublish, PacketAt
      <4> QED
        BY <1>2, <4>1
    <3>2. CASE e \in Event /\ PushTo(d, e)
      <4>1. PublishAt(c, k, p) \/ (c = d /\ p = e.packet)
        BY <1>0, <3>2, PushPublish
      <4>2. c = d => t # s
        BY <1>2, <2>1, <2>2
      <4> QED
        BY <1>2, <2>2, <4>1, <4>2
    <3> QED
      BY <2>1, <3>1, <3>2
  <2>4. /\ job'[s].op = "fanout" => job'[s].todo[c] = 0
        /\ job'[s].op = "replay" => job'[s].to # c
    BY <1>0, <1>2, <2>1, <2>2
  <2> QED
    BY <1>2, <2>1, <2>3, <2>4 DEF Untouched
<1>9. ASSUME NEW t \in Shard, NEW f, FanOutFilter(t, f) PROVE Untouched(c, s)'
  <2>1. /\ f \in Filter
        /\ job'[t].op # "replay"
        /\ job'[t].op = "fanout" => job'[t].todo = topics[t][f]
        /\ \A u \in Shard : u # t => job'[u] = job[u]
        /\ UNCHANGED <<topics, outbound>>
    BY <1>0, <1>9, FilterStep
  <2>2. \A k \in Nat, p \in Packet : PublishAt(c, k, p)' => PublishAt(c, k, p)
    BY <2>1 DEF PublishAt, Pushes, IsPublish, PacketAt
  <2>3. /\ job'[s].op = "fanout" => job'[s].todo[c] = 0
        /\ job'[s].op = "replay" => job'[s].to # c
    BY <1>2, <2>1
  <2> QED
    BY <1>2, <2>1, <2>2, <2>3 DEF Untouched
<1> QED
  BY <1>4, <1>5, <1>6, <1>7, <1>8, <1>9 DEF Next, ShardStep

\* A replay stays ahead of what else its client gets of the topics it replays.
LEMMA ReplayFirstStays ==
    ASSUME SInv, SubscribesOnce, FirstContact, ReplayFirst, [Next]_vars,
           NEW c \in Client, NEW s \in Shard, job'[s].op = "replay", job'[s].to = c,
           NEW q \in job'[s].packets, NEW p \in Packet, NEW k \in Nat, PublishAt(c, k, p)'
    PROVE  p.topic # q.topic
<1>0. TypeOK /\ OInv /\ StoredSettled /\ ReplaySource /\ ShardOrder /\ c \in Conn
  BY ClientConn DEF SInv, OInv, LInv
<1>1. ASSUME job[s].op = "replay", job[s].to = c, q \in job[s].packets,
             PublishAt(c, k, p)
      PROVE  p.topic # q.topic
  BY <1>1 DEF ReplayFirst
<1>2. ASSUME job[s].op = "replay", q \in job[s].packets
      PROVE  shard_for_topic(q.topic) = s
  BY <1>0, <1>2 DEF ReplaySource, StoredSettled
<1>4. ASSUME UNCHANGED vars PROVE p.topic # q.topic
  <2>1. UNCHANGED <<job, outbound>>
    BY <1>4 DEF vars
  <2>2. PublishAt(c, k, p)
    BY <2>1 DEF PublishAt, Pushes, IsPublish, PacketAt
  <2> QED
    BY <1>1, <2>1, <2>2
<1>5. ASSUME NEW d \in Conn, ClientStep(d) \/ ReaderStep(d) PROVE p.topic # q.topic
  <2>1. job' = job /\ PublishAt(c, k, p)
    BY <1>0, <1>5, ReaderQuiet
  <2> QED
    BY <1>1, <2>1
<1>6. ASSUME NEW t \in Shard, NEW m, Handle(t, m) PROVE p.topic # q.topic
  <2>0. outbound' = outbound
    BY <1>0, <1>6, HandleRegistry
  <2>1. PublishAt(c, k, p)
    BY <2>0 DEF PublishAt, Pushes, IsPublish, PacketAt
  <2>2. /\ s # t => job'[s] = job[s]
        /\ job'[t].op = "replay" =>
             /\ m.type = "Subscribe" /\ job'[t].to = m.id
             /\ job'[t].packets \subseteq retained[t]
    BY <1>6, HandleJob
  <2>3. CASE s # t
    BY <1>1, <2>1, <2>2, <2>3
  <2>4. CASE s = t
    <3>1. Coming(c, s)
      BY <1>0, <1>6, <2>2, <2>4, LastSubscribe
    <3>2. shard_for_topic(p.topic) # s
      BY <2>1, <3>1 DEF FirstContact, Untouched
    <3>3. shard_for_topic(q.topic) = s
      BY <1>0, <2>2, <2>4 DEF StoredSettled
    <3> QED
      BY <3>2, <3>3
  <2> QED
    BY <2>3, <2>4
<1>7. ASSUME NEW t \in Shard, NEW r, PushReplay(t, r) PROVE p.topic # q.topic
  <2> DEFINE e == [type |-> "PUBLISH", via |-> "replay", packet |-> [r EXCEPT !.retain = TRUE]]
  <2>1. /\ job[t].op = "replay" /\ job[t].to \in Conn
        /\ r \in job[t].packets /\ job[t].packets \subseteq Packet
        /\ e \in Event /\ PushTo(job[t].to, e)
        /\ job'[t] = Replay(job[t].to, job[t].packets \ {r})
        /\ \A u \in Shard : u # t => job'[u] = job[u]
    BY <1>0, <1>7, ReplayStep
  <2>2. /\ r \in retained[t] /\ shard_for_topic(r.topic) = t /\ e.packet.topic = r.topic
    BY <1>0, <2>1 DEF ReplaySource, StoredSettled, Packet
  <2> HIDE DEF e
  <2>3. /\ job[s].op = "replay" /\ job[s].to = c /\ q \in job[s].packets
        /\ s = t => q # r
    BY <2>1 DEF Replay, Idle
  <2>4. PublishAt(c, k, p) \/ p = e.packet
    BY <1>0, <2>1, PushPublish
  <2>5. CASE p = e.packet /\ s = t
    <3>1. q \in retained[s] /\ r \in retained[s] /\ q # r
      BY <1>0, <2>2, <2>3, <2>5 DEF ReplaySource
    <3>2. q.topic # r.topic
      BY <1>0, <3>1 DEF TypeOK
    <3> QED
      BY <2>2, <2>5, <3>2
  <2>6. CASE p = e.packet /\ s # t
    BY <1>2, <2>2, <2>3, <2>6
  <2> QED
    BY <1>1, <2>3, <2>4, <2>5, <2>6
<1>8. ASSUME NEW t \in Shard, NEW d \in Conn, FanOutVisit(t, d) PROVE p.topic # q.topic
  <2> DEFINE e == [type |-> "PUBLISH", packet |-> job[t].packet, via |-> "live"]
  <2>1. /\ FanningAt(t, job[t].packet) /\ job[t].packet \in Packet
        /\ outbound' = outbound \/ (e \in Event /\ PushTo(d, e))
        /\ job'[t].op # "replay"
        /\ \A u \in Shard : u # t => job'[u] = job[u]
    BY <1>0, <1>8, VisitStep
  <2>2. shard_for_topic(job[t].packet.topic) = t /\ e.packet = job[t].packet
    BY <1>0, <2>1 DEF ShardOrder
  <2> HIDE DEF e
  <2>3. s # t /\ job[s].op = "replay" /\ job[s].to = c /\ q \in job[s].packets
    BY <2>1
  <2>4. PublishAt(c, k, p) \/ p = e.packet
    <3>1. CASE outbound' = outbound
      BY <3>1 DEF PublishAt, Pushes, IsPublish, PacketAt
    <3>2. CASE e \in Event /\ PushTo(d, e)
      BY <1>0, <3>2, PushPublish
    <3> QED
      BY <2>1, <3>1, <3>2
  <2>5. CASE p = e.packet
    BY <1>2, <2>2, <2>3, <2>5
  <2> QED
    BY <1>1, <2>3, <2>4, <2>5
<1>9. ASSUME NEW t \in Shard, NEW f, FanOutFilter(t, f) PROVE p.topic # q.topic
  <2>1. /\ job'[t].op # "replay"
        /\ \A u \in Shard : u # t => job'[u] = job[u]
        /\ outbound' = outbound
    BY <1>0, <1>9, FilterStep
  <2>2. PublishAt(c, k, p)
    BY <2>1 DEF PublishAt, Pushes, IsPublish, PacketAt
  <2> QED
    BY <1>1, <2>1, <2>2
<1> QED
  BY <1>4, <1>5, <1>6, <1>7, <1>8, <1>9 DEF Next, ShardStep

\* A PUBLISH is pushed live or as a replay.
LEMMA PublishVia ==
    ASSUME TypeOK, NEW c \in Conn, NEW k \in Nat, NEW p \in Packet, PublishAt(c, k, p)
    PROVE  LiveAt(c, k, p) \/ ReplayAt(c, k, p)
<1>1. k \in 1..Len(outbound[c]) /\ outbound[c] \in Seq(Event)
  BY DEF PublishAt, Pushes, TypeOK
<1>2. outbound[c][k] \in Event /\ outbound[c][k].type = "PUBLISH"
  BY <1>1 DEF PublishAt, IsPublish
<1>3. outbound[c][k].via \in {"live", "replay"}
  BY <1>2 DEF Event
<1> QED
  BY <1>3 DEF PublishAt, ReplayAt, LiveAt, IsLive

LEMMA ClientOrderStays ==
    ASSUME PInv, [Next]_vars,
           NEW c \in Client, NEW i \in Nat, NEW j \in Nat, NEW p \in Packet, NEW q \in Packet,
           PublishAt(c, i, p)', PublishAt(c, j, q)', i < j,
           p.from = q.from, p.topic = q.topic
    PROVE  p.n < q.n
<1>0. /\ TypeOK /\ OInv /\ OInv' /\ ReplaySource /\ StoredSettled /\ ReplaySettled
      /\ ReplayFirst /\ ClientOrder /\ ShardOrder /\ Deliveries' /\ c \in Conn
  BY NextOInv, ClientConn DEF PInv, SInv, OInv, LInv
<1>1. ASSUME PublishAt(c, i, p), PublishAt(c, j, q)
      PROVE  p.n < q.n
  BY <1>0, <1>1 DEF ClientOrder
<1>2. ASSUME outbound' = outbound
      PROVE  p.n < q.n
  <2>1. PublishAt(c, i, p) /\ PublishAt(c, j, q)
    BY <1>2 DEF PublishAt, Pushes, IsPublish, PacketAt
  <2> QED
    BY <1>1, <2>1
\* the new event, if there is one, is the later of the two
<1>3. ASSUME NEW d \in Conn, NEW e \in Event, PushTo(d, e), ~ PublishAt(c, j, q)
      PROVE  /\ d = c /\ q = e.packet /\ PublishAt(c, i, p)
             /\ j = Len(outbound[c]) + 1 /\ j \in Pushes(c)'
  <2>1. /\ Len(outbound[d]) + 1 \in Nat
        /\ \A k \in Nat, r \in Packet : PublishAt(c, k, r)' =>
             \/ PublishAt(c, k, r)
             \/ c = d /\ k = Len(outbound[d]) + 1 /\ r = e.packet
    BY <1>0, <1>3, PushPublish
  <2>2. c = d /\ j = Len(outbound[d]) + 1 /\ q = e.packet
    BY <1>3, <2>1
  <2>3. PublishAt(c, i, p)
    BY <2>1, <2>2
  <2>4. j \in Pushes(c)'
    BY DEF PublishAt
  <2> QED
    BY <2>2, <2>3, <2>4
<1>4. ASSUME NEW d \in Conn, NEW e \in Event, PushTo(d, e), ~ PublishAt(c, i, p)
      PROVE  FALSE
  <2>1. /\ Len(outbound[d]) + 1 \in Nat
        /\ \A k \in Nat, r \in Packet : PublishAt(c, k, r)' =>
             \/ PublishAt(c, k, r)
             \/ c = d /\ k = Len(outbound[d]) + 1 /\ r = e.packet
        /\ \A k \in Nat, r \in Packet : PublishAt(d, k, r) => k < Len(outbound[d]) + 1
    BY <1>0, <1>4, PushPublish
  <2>2. c = d /\ i = Len(outbound[d]) + 1
    BY <1>4, <2>1
  <2>3. j <= Len(outbound[d]) + 1
    BY <2>1, <2>2
  <2> QED
    BY <2>1, <2>2, <2>3
<1>5. ASSUME UNCHANGED vars PROVE p.n < q.n
  BY <1>2, <1>5 DEF vars
<1>6. ASSUME NEW d \in Conn, ClientStep(d) \/ ReaderStep(d) PROVE p.n < q.n
  <2>1. PublishAt(c, i, p) /\ PublishAt(c, j, q)
    BY <1>0, <1>6, ReaderQuiet
  <2> QED
    BY <1>1, <2>1
<1>7. ASSUME NEW t \in Shard, NEW m, Handle(t, m) PROVE p.n < q.n
  <2>1. outbound' = outbound
    BY <1>0, <1>7, HandleRegistry
  <2> QED
    BY <1>2, <2>1
<1>8. ASSUME NEW t \in Shard, NEW r, PushReplay(t, r) PROVE p.n < q.n
  <2> DEFINE e == [type |-> "PUBLISH", via |-> "replay", packet |-> [r EXCEPT !.retain = TRUE]]
  <2>1. /\ job[t].op = "replay" /\ job[t].to \in Conn
        /\ r \in job[t].packets /\ job[t].packets \subseteq Packet
        /\ e \in Event /\ PushTo(job[t].to, e)
    BY <1>0, <1>8, ReplayStep
  <2>2. e.packet.topic = r.topic
    BY <2>1 DEF Packet
  <2> HIDE DEF e
  <2>3. CASE ~ PublishAt(c, j, q)
    <3>1. job[t].to = c /\ q = e.packet /\ PublishAt(c, i, p)
      BY <1>3, <2>1, <2>3
    <3>2. p.topic # r.topic
      BY <1>0, <2>1, <3>1 DEF ReplayFirst
    <3> QED
      BY <2>2, <3>1, <3>2
  <2>4. CASE PublishAt(c, j, q)
    BY <1>1, <1>4, <2>1, <2>4
  <2> QED
    BY <2>3, <2>4
<1>9. ASSUME NEW t \in Shard, NEW d \in Conn, FanOutVisit(t, d) PROVE p.n < q.n
  <2> DEFINE e == [type |-> "PUBLISH", packet |-> job[t].packet, via |-> "live"]
  <2>1. /\ FanningAt(t, job[t].packet) /\ job[t].packet \in Packet
        /\ outbound' = outbound \/ (e \in Event /\ PushTo(d, e))
    BY <1>0, <1>9, VisitStep
  <2>2. /\ shard_for_topic(job[t].packet.topic) = t /\ e.packet = job[t].packet
        /\ e.type = "PUBLISH" /\ e.via = "live"
    BY <1>0, <2>1 DEF ShardOrder
  <2> HIDE DEF e
  <2>3. CASE e \in Event /\ PushTo(d, e) /\ ~ PublishAt(c, j, q)
    <3>1. /\ d = c /\ q = e.packet /\ PublishAt(c, i, p)
          /\ j = Len(outbound[c]) + 1 /\ j \in Pushes(c)'
      BY <1>3, <2>3
    <3>2. /\ \A k \in 1..Len(outbound[c]) : outbound'[c][k] = outbound[c][k]
          /\ outbound'[c][Len(outbound[c]) + 1] = e
          /\ Len(outbound'[c]) = Len(outbound[c]) + 1 /\ Len(outbound[c]) \in Nat
      BY <1>0, <2>3, <3>1, PushEffect
    <3>3. CASE LiveAt(c, i, p)
      <4>1. i \in 1..Len(outbound[c]) /\ i \in 1..Len(outbound'[c])
        BY <3>2, <3>3 DEF LiveAt, Pushes
      <4>2. LiveAt(c, i, p)'
        BY <3>2, <3>3, <4>1 DEF LiveAt, Pushes, IsLive, IsPublish, PacketAt
      <4>3. LiveAt(c, j, q)'
        BY <2>2, <3>1, <3>2 DEF LiveAt, IsLive, IsPublish, PacketAt
      <4> QED
        BY <1>0, <4>2, <4>3 DEF Deliveries
    <3>4. CASE ReplayAt(c, i, p)
      BY <1>0, <2>1, <2>2, <3>1, <3>4 DEF ReplaySettled
    <3> QED
      BY <1>0, <3>1, <3>3, <3>4, PublishVia
  <2>4. CASE e \in Event /\ PushTo(d, e) /\ PublishAt(c, j, q)
    BY <1>1, <1>4, <2>4
  <2> QED
    BY <1>2, <2>1, <2>3, <2>4
<1>10. ASSUME NEW t \in Shard, NEW f, FanOutFilter(t, f) PROVE p.n < q.n
  <2>1. outbound' = outbound
    BY <1>0, <1>10, FilterStep
  <2> QED
    BY <1>2, <2>1
<1> QED
  BY <1>5, <1>6, <1>7, <1>8, <1>9, <1>10 DEF Next, ShardStep

LEMMA NextPInv == PInv /\ [Next]_vars => PInv'
<1> SUFFICES ASSUME PInv, [Next]_vars PROVE PInv'
  OBVIOUS
<1>0. SInv /\ OInv /\ SubscribesOnce /\ FirstContact /\ ReplayFirst
  BY DEF PInv, SInv
<1>1. SInv'
  BY <1>0, NextSInv
<1>2. SubscribesOnce'
  BY <1>0, SubscribesOnceStays
<1>3. FirstContact'
  BY <1>0, FirstContactStays DEF FirstContact
<1>4. ReplayFirst'
  <2> SUFFICES ASSUME NEW c \in Client, NEW s \in Shard, job'[s].op = "replay", job'[s].to = c,
                      NEW q \in job'[s].packets, NEW p \in Packet, NEW k \in Nat,
                      PublishAt(c, k, p)'
               PROVE  p.topic # q.topic
    BY DEF ReplayFirst
  <2> QED
    BY <1>0, ReplayFirstStays
<1>5. ClientOrder'
  <2> SUFFICES ASSUME NEW c \in Client, NEW i \in Nat, NEW j \in Nat, NEW p \in Packet,
                      NEW q \in Packet, PublishAt(c, i, p)', PublishAt(c, j, q)', i < j,
                      p.from = q.from, p.topic = q.topic
               PROVE  p.n < q.n
    BY DEF ClientOrder
  <2> QED
    BY ClientOrderStays
<1> QED
  BY <1>1, <1>2, <1>3, <1>4, <1>5 DEF PInv

LEMMA InitPInv == Init => PInv
<1> SUFFICES ASSUME Init PROVE PInv
  OBVIOUS
<1>1. /\ \A s \in Shard : inbox[s] = <<>> /\ job[s].op = "idle"
      /\ \A c \in Conn : outbound[c] = <<>> /\ sending[c] = <<>>
      /\ \A s \in Shard, f \in Filter, c \in Conn : topics[s][f][c] = 0
  BY DEF Init, Idle, NoSubs
<1>2. \A i : i \notin 1..Len(<<>>)
  OBVIOUS
<1>3. /\ \A c \in Conn, k \in Nat, p \in Packet : ~ PublishAt(c, k, p)
      /\ \A s \in Shard, i \in Nat : \A c, t : ~ IsMessage(s, i, c, t)
  BY <1>1, <1>2 DEF PublishAt, Pushes, IsMessage
<1>4. Len(<<>>) <= 1
  OBVIOUS
<1>5. SubscribesOnce
  BY <1>1, <1>3, <1>4, ClientConn DEF SubscribesOnce, Subscribing
<1>6. FirstContact
  BY <1>1, <1>3, ClientConn DEF FirstContact, Untouched
<1>7. ReplayFirst /\ ClientOrder
  BY <1>1, <1>3, ClientConn DEF ReplayFirst, ClientOrder
<1> QED
  BY <1>5, <1>6, <1>7, InitSInv DEF PInv

LEMMA PInvariant == Spec => []PInv
BY InitPInv, NextPInv, PTL DEF Spec

-----------------------------------------------------------------------------
(***************************************************************************)
(* From the outbound queue over the socket to what a sub prints.           *)
(***************************************************************************)

\* The k-th event pushed for c has left the queue: the writer has taken it, or
\* it was evicted.
OffQueue(c, k) == k \in Pushes(c) /\ k + held[c] <= Len(outbound[c])

TransportTypeOK ==
    /\ held \in [Conn -> Nat]
    /\ \A c \in Conn : held[c] <= Len(outbound[c])
    /\ wire \in [Conn -> Seq(Event)]
    /\ printed \in [Client -> Seq(Packet)]

\* What is on its way to a process, and what it has printed, has left the queue.
WireGone ==
    \A c \in Conn : \A a \in 1..Len(wire[c]) :
        \E k \in Nat : OffQueue(c, k) /\ wire[c][a] = outbound[c][k]
PrintedGone ==
    \A c \in Client : \A b \in 1..Len(printed[c]) :
        \E k \in Nat : OffQueue(c, k) /\ PublishAt(c, k, printed[c][b])

\* The socket keeps the order, and what is in it is newer than what is printed.
Newer(p, q) == p.from = q.from /\ p.topic = q.topic => p.n < q.n
WireOrder ==
    \A c \in Client : \A a, b \in 1..Len(wire[c]) :
        a < b /\ wire[c][a].type = "PUBLISH" /\ wire[c][b].type = "PUBLISH" =>
            Newer(wire[c][a].packet, wire[c][b].packet)
PrintedFirst ==
    \A c \in Client : \A b \in 1..Len(printed[c]), a \in 1..Len(wire[c]) :
        wire[c][a].type = "PUBLISH" => Newer(printed[c][b], wire[c][a].packet)

TInv ==
    /\ PInv /\ TransportTypeOK /\ WireGone /\ PrintedGone
    /\ WireOrder /\ PrintedFirst /\ PrintsOnceInOrder

\* A step of the broker adds at most one event to a queue and keeps the others.
LEMMA PushOne ==
    ASSUME OInv, [Next]_vars, NEW d \in Conn
    PROVE  \/ outbound'[d] = outbound[d]
           \/ /\ Len(outbound'[d]) = Len(outbound[d]) + 1
              /\ \A k \in 1..Len(outbound[d]) : outbound'[d][k] = outbound[d][k]
<1>0. TypeOK
  BY DEF OInv, LInv
<1>1. ASSUME NEW c \in Conn, NEW e \in Event, PushTo(c, e)
      PROVE  \/ outbound'[d] = outbound[d]
             \/ /\ Len(outbound'[d]) = Len(outbound[d]) + 1
                /\ \A k \in 1..Len(outbound[d]) : outbound'[d][k] = outbound[d][k]
  BY <1>0, <1>1, PushEffect
<1>2. ASSUME NEW c \in Conn, ClientStep(c) \/ ReaderStep(c)
      PROVE  outbound' = outbound \/ \E e \in Event : PushTo(c, e)
  BY <1>2, ReaderQuiet
<1>3. ASSUME NEW s \in Shard, NEW m, Handle(s, m)
      PROVE  outbound' = outbound
  BY <1>0, <1>3, HandleRegistry
<1>4. ASSUME NEW s \in Shard, NEW r, PushReplay(s, r)
      PROVE  \E c \in Conn, e \in Event : PushTo(c, e)
  BY <1>4, ReplayStep
<1>5. ASSUME NEW s \in Shard, NEW c \in Conn, FanOutVisit(s, c)
      PROVE  outbound' = outbound \/ \E e \in Event : PushTo(c, e)
  BY <1>5, VisitStep
<1>6. ASSUME NEW s \in Shard, NEW f, FanOutFilter(s, f)
      PROVE  outbound' = outbound
  BY <1>6 DEF FanOutFilter
<1>7. UNCHANGED vars => outbound' = outbound
  BY DEF vars
<1>8. outbound' = outbound \/ \E c \in Conn, e \in Event : PushTo(c, e)
  BY <1>2, <1>3, <1>4, <1>5, <1>6, <1>7 DEF Next, ShardStep
<1> QED
  BY <1>1, <1>8

\* The bound of the queue: what is off the queue stays off, and keeps its event.
LEMMA TransportQueue ==
    ASSUME TInv, Next, Transport, NEW c \in Conn
    PROVE  /\ held'[c] \in Nat /\ held'[c] <= Len(outbound'[c])
           /\ \A k \in Nat : OffQueue(c, k) =>
                OffQueue(c, k)' /\ outbound'[c][k] = outbound[c][k]
<1>0. TypeOK /\ OInv
  BY DEF TInv, PInv, SInv, OInv, LInv
<1>1. /\ held[c] \in Nat /\ held[c] <= Len(outbound[c])
      /\ outbound[c] \in Seq(Event) /\ Len(outbound[c]) \in Nat
  BY <1>0 DEF TInv, TransportTypeOK, TypeOK
<1>2. held'[c] = IF outbound'[c] = outbound[c] THEN held[c] ELSE Q!AfterPush(held[c])
  BY DEF Transport
<1>3. CASE outbound'[c] = outbound[c]
  BY <1>1, <1>2, <1>3 DEF OffQueue, Pushes
<1>4. CASE outbound'[c] # outbound[c]
  <2>1. /\ Len(outbound'[c]) = Len(outbound[c]) + 1
        /\ \A k \in 1..Len(outbound[c]) : outbound'[c][k] = outbound[c][k]
    BY <1>0, <1>4, PushOne
  <2>2. held'[c] = held[c] + 1 \/ held'[c] = held[c]
    BY <1>2, <1>4 DEF Q!AfterPush
  <2>3. PICK n \in Nat : n = Len(outbound[c])
    BY <1>1
  <2>4. held'[c] \in Nat /\ held'[c] <= n + 1
    BY <1>1, <2>2, <2>3
  <2>5. ASSUME NEW k \in Nat, OffQueue(c, k)
        PROVE  OffQueue(c, k)' /\ outbound'[c][k] = outbound[c][k]
    <3>1. k \in 1..n /\ k + held[c] <= n
      BY <2>3, <2>5 DEF OffQueue, Pushes
    <3>2. k \in 1..(n + 1) /\ k + held'[c] <= n + 1
      BY <1>1, <2>2, <3>1
    <3> QED
      BY <2>1, <2>3, <3>1, <3>2 DEF OffQueue, Pushes
  <2> QED
    BY <2>1, <2>3, <2>4, <2>5
<1> QED
  BY <1>3, <1>4

\* Steps that take nothing out of a queue: what is on the wire or printed has
\* come from the queue as before.
LEMMA GoneStays ==
    ASSUME TInv, wire' = wire, printed' = printed,
           \A c \in Conn, k \in Nat : OffQueue(c, k) =>
                OffQueue(c, k)' /\ outbound'[c][k] = outbound[c][k]
    PROVE  WireGone' /\ PrintedGone' /\ WireOrder' /\ PrintedFirst' /\ PrintsOnceInOrder'
<1>1. WireGone'
  BY DEF TInv, WireGone
<1>2. PrintedGone'
  <2> SUFFICES ASSUME NEW c \in Client, NEW b \in 1..Len(printed[c])
               PROVE  \E k \in Nat : OffQueue(c, k)' /\ PublishAt(c, k, printed[c][b])'
    BY DEF PrintedGone
  <2>1. PICK k \in Nat : OffQueue(c, k) /\ PublishAt(c, k, printed[c][b])
    BY DEF TInv, PrintedGone
  <2>2. OffQueue(c, k)' /\ outbound'[c][k] = outbound[c][k]
    BY <2>1, ClientConn
  <2>3. PublishAt(c, k, printed[c][b])'
    BY <2>1, <2>2 DEF PublishAt, OffQueue, IsPublish, PacketAt
  <2> QED
    BY <2>2, <2>3
<1>3. WireOrder'
  BY Zenon DEF TInv, WireOrder, Newer
<1>4. PrintedFirst'
  BY Zenon DEF TInv, PrintedFirst, Newer
<1>5. PrintsOnceInOrder'
  BY Zenon DEF TInv, PrintsOnceInOrder
<1> QED
  BY <1>1, <1>2, <1>3, <1>4, <1>5

LEMMA BrokerTInv ==
    ASSUME TInv, Next, Transport
    PROVE  TInv'
<1>1. PInv'
  BY NextPInv DEF TInv
<1>2. wire' = wire /\ printed' = printed
  BY DEF Transport, clientVars
<1>3. TransportTypeOK'
  <2>1. \A c \in Conn : held'[c] \in Nat /\ held'[c] <= Len(outbound'[c])
    BY TransportQueue
  <2>2. held' \in [Conn -> Nat]
    BY <2>1 DEF Transport
  <2> QED
    BY <1>2, <2>1, <2>2 DEF TInv, TransportTypeOK
<1>4. \A c \in Conn, k \in Nat : OffQueue(c, k) =>
        OffQueue(c, k)' /\ outbound'[c][k] = outbound[c][k]
  BY TransportQueue
<1>5. WireGone' /\ PrintedGone' /\ WireOrder' /\ PrintedFirst' /\ PrintsOnceInOrder'
  BY <1>2, <1>4, GoneStays
<1> QED
  BY <1>1, <1>3, <1>5 DEF TInv

\* What read_packet does to the socket.
LEMMA ReadsWire ==
    ASSUME TInv, NEW c \in Conn, NEW e, Reads(c, e)
    PROVE  /\ UNCHANGED <<vars, held>>
           /\ wire' \in [Conn -> Seq(Event)]
           /\ 1 \in 1..Len(wire[c]) /\ e = wire[c][1] /\ e \in Event
           /\ \A a \in 1..Len(wire'[c]) :
                a + 1 \in 1..Len(wire[c]) /\ wire'[c][a] = wire[c][a + 1]
           /\ \A d \in Conn : d # c => wire'[d] = wire[d]
<1>1. wire \in [Conn -> Seq(Event)] /\ wire[c] \in Seq(Event) /\ wire[c] # <<>>
  BY DEF TInv, TransportTypeOK, Reads
<1>2. /\ wire' = [wire EXCEPT ![c] = Tail(wire[c])] /\ e = Head(wire[c])
      /\ UNCHANGED <<vars, held>>
  BY DEF Reads
<1>3. /\ Head(wire[c]) \in Event /\ Tail(wire[c]) \in Seq(Event)
      /\ Len(wire[c]) \in Nat /\ Len(wire[c]) # 0 /\ e = wire[c][1]
  BY <1>1, <1>2
<1>4. /\ Len(Tail(wire[c])) = Len(wire[c]) - 1
      /\ \A a \in 1..Len(Tail(wire[c])) : Tail(wire[c])[a] = wire[c][a + 1]
  BY <1>1, HeadTailProperties
<1>5. wire'[c] = Tail(wire[c]) /\ \A d \in Conn : d # c => wire'[d] = wire[d]
  BY <1>1, <1>2
<1>6. wire' \in [Conn -> Seq(Event)]
  BY <1>1, <1>2, <1>3
<1>7. 1 \in 1..Len(wire[c])
  BY <1>3
<1>8. \A a \in 1..Len(Tail(wire[c])) : a + 1 \in 1..Len(wire[c])
  <2>1. PICK n \in Nat : n = Len(wire[c]) /\ n # 0
    BY <1>3
  <2> QED
    BY <1>4, <2>1
<1> QED
  BY <1>2, <1>3, <1>4, <1>5, <1>6, <1>7, <1>8

\* The broker, its queues and what has left them do not notice the other steps.
LEMMA QuietBroker ==
    ASSUME TInv, UNCHANGED <<vars, held>>
    PROVE  /\ PInv'
           /\ \A c \in Conn : held'[c] <= Len(outbound'[c])
           /\ \A c \in Conn, k \in Nat : OffQueue(c, k) =>
                OffQueue(c, k)' /\ outbound'[c][k] = outbound[c][k]
           /\ \A c \in Conn, k \in Nat, p \in Packet :
                PublishAt(c, k, p) => PublishAt(c, k, p)'
<1>1. outbound' = outbound /\ held' = held
  BY DEF vars
<1>2. PInv'
  BY NextPInv DEF TInv
<1> QED
  BY <1>1, <1>2 DEF TInv, TransportTypeOK, OffQueue, PublishAt, Pushes, IsPublish, PacketAt

\* The socket, whatever the process does with the event.
LEMMA ReadsWireInv ==
    ASSUME TInv, NEW c \in Client, NEW e, Reads(c, e)
    PROVE  PInv' /\ WireGone' /\ WireOrder'
<1>0. c \in Conn /\ TransportTypeOK
  BY ClientConn DEF TInv
<1>1. /\ UNCHANGED <<vars, held>>
      /\ wire' \in [Conn -> Seq(Event)]
      /\ \A a \in 1..Len(wire'[c]) :
           a + 1 \in 1..Len(wire[c]) /\ wire'[c][a] = wire[c][a + 1]
      /\ \A d \in Conn : d # c => wire'[d] = wire[d]
  BY <1>0, ReadsWire
<1>2. /\ PInv'
      /\ \A d \in Conn : held'[d] <= Len(outbound'[d])
      /\ \A d \in Conn, k \in Nat : OffQueue(d, k) =>
           OffQueue(d, k)' /\ outbound'[d][k] = outbound[d][k]
      /\ \A d \in Conn, k \in Nat, p \in Packet :
           PublishAt(d, k, p) => PublishAt(d, k, p)'
  BY <1>1, QuietBroker
<1>4. ASSUME NEW d \in Conn, NEW a \in 1..Len(wire'[d])
      PROVE  \E b \in 1..Len(wire[d]) : wire'[d][a] = wire[d][b]
  BY <1>1
<1>5. WireGone'
  <2> SUFFICES ASSUME NEW d \in Conn, NEW a \in 1..Len(wire'[d])
               PROVE  \E k \in Nat : OffQueue(d, k)' /\ wire'[d][a] = outbound'[d][k]
    BY DEF WireGone
  <2>1. PICK b \in 1..Len(wire[d]) : wire'[d][a] = wire[d][b]
    BY <1>4
  <2>2. PICK k \in Nat : OffQueue(d, k) /\ wire[d][b] = outbound[d][k]
    BY DEF TInv, WireGone
  <2> QED
    BY <1>2, <2>1, <2>2
<1>7. WireOrder'
  <2> SUFFICES ASSUME NEW d \in Client, NEW a \in 1..Len(wire'[d]), NEW b \in 1..Len(wire'[d]),
                      a < b, wire'[d][a].type = "PUBLISH", wire'[d][b].type = "PUBLISH"
               PROVE  Newer(wire'[d][a].packet, wire'[d][b].packet)
    BY DEF WireOrder, Newer
  <2>1. CASE d = c
    <3>1. a + 1 < b + 1
      OBVIOUS
    <3> QED
      BY <1>1, <2>1, <3>1 DEF TInv, WireOrder
  <2>2. CASE d # c
    BY <1>1, <2>2, ClientConn DEF TInv, WireOrder
  <2> QED
    BY <2>1, <2>2
<1> QED
  BY <1>2, <1>5, <1>7

\* An event that is not printed: CONNACK, PUBACK, SUBACK, or read while the
\* process does not listen.
LEMMA ReadsTInv ==
    ASSUME TInv, NEW c \in Client, NEW e, Reads(c, e), printed' = printed
    PROVE  TInv'
<1>0. c \in Conn /\ TransportTypeOK
  BY ClientConn DEF TInv
<1>1. /\ UNCHANGED <<vars, held>>
      /\ wire' \in [Conn -> Seq(Event)]
      /\ \A a \in 1..Len(wire'[c]) :
           a + 1 \in 1..Len(wire[c]) /\ wire'[c][a] = wire[c][a + 1]
      /\ \A d \in Conn : d # c => wire'[d] = wire[d]
  BY <1>0, ReadsWire
<1>2. /\ PInv'
      /\ \A d \in Conn : held'[d] <= Len(outbound'[d])
      /\ \A d \in Conn, k \in Nat : OffQueue(d, k) =>
           OffQueue(d, k)' /\ outbound'[d][k] = outbound[d][k]
      /\ \A d \in Conn, k \in Nat, p \in Packet :
           PublishAt(d, k, p) => PublishAt(d, k, p)'
  BY <1>1, QuietBroker
<1>3. TransportTypeOK'
  BY <1>0, <1>1, <1>2 DEF TransportTypeOK
<1>4. ASSUME NEW d \in Conn, NEW a \in 1..Len(wire'[d])
      PROVE  \E b \in 1..Len(wire[d]) : wire'[d][a] = wire[d][b]
  BY <1>1
<1>6. PrintedGone'
  <2> SUFFICES ASSUME NEW d \in Client, NEW b \in 1..Len(printed[d])
               PROVE  \E k \in Nat : OffQueue(d, k)' /\ PublishAt(d, k, printed[d][b])'
    BY DEF PrintedGone
  <2>1. PICK k \in Nat : OffQueue(d, k) /\ PublishAt(d, k, printed[d][b])
    BY DEF TInv, PrintedGone
  <2>2. printed[d][b] \in Packet /\ d \in Conn
    BY <1>0, ClientConn DEF TransportTypeOK
  <2>3. PublishAt(d, k, printed[d][b])'
    BY <1>2, <2>1, <2>2
  <2> QED
    BY <1>2, <2>1, <2>2, <2>3
<1>8. PrintedFirst'
  <2> SUFFICES ASSUME NEW d \in Client, NEW b \in 1..Len(printed[d]), NEW a \in 1..Len(wire'[d]),
                      wire'[d][a].type = "PUBLISH"
               PROVE  Newer(printed[d][b], wire'[d][a].packet)
    BY DEF PrintedFirst, Newer
  <2>1. PICK x \in 1..Len(wire[d]) : wire'[d][a] = wire[d][x]
    BY <1>4, ClientConn
  <2> QED
    BY <2>1 DEF TInv, PrintedFirst
<1>9. PrintsOnceInOrder'
  BY DEF TInv, PrintsOnceInOrder
<1> QED
  BY <1>3, <1>6, <1>8, <1>9, ReadsWireInv DEF TInv

\* run_sub prints a message: it was at the head of the wire, so that it is newer
\* than what is printed, and older than the rest of the wire.
LEMMA PrintTInv ==
    ASSUME TInv, NEW c \in Client, NEW e, Reads(c, e), e.type = "PUBLISH",
           printed' = [printed EXCEPT ![c] = Append(printed[c], e.packet)]
    PROVE  TInv'
<1>0. c \in Conn /\ TransportTypeOK
  BY ClientConn DEF TInv
<1>1. /\ UNCHANGED <<vars, held>>
      /\ wire' \in [Conn -> Seq(Event)]
      /\ 1 \in 1..Len(wire[c]) /\ e = wire[c][1] /\ e \in Event
      /\ \A a \in 1..Len(wire'[c]) :
           a + 1 \in 1..Len(wire[c]) /\ wire'[c][a] = wire[c][a + 1]
      /\ \A d \in Conn : d # c => wire'[d] = wire[d]
  BY <1>0, ReadsWire
<1>2. /\ PInv'
      /\ \A d \in Conn : held'[d] <= Len(outbound'[d])
      /\ \A d \in Conn, k \in Nat : OffQueue(d, k) =>
           OffQueue(d, k)' /\ outbound'[d][k] = outbound[d][k]
      /\ \A d \in Conn, k \in Nat, p \in Packet :
           PublishAt(d, k, p) => PublishAt(d, k, p)'
  BY <1>1, QuietBroker
<1>3. e.packet \in Packet
  BY <1>1 DEF Event
<1>4. /\ printed[c] \in Seq(Packet)
      /\ printed'[c] = Append(printed[c], e.packet)
      /\ \A d \in Client : d # c => printed'[d] = printed[d]
  BY <1>0 DEF TransportTypeOK
<1>5. PICK n \in Nat :
        /\ n = Len(printed[c]) /\ Len(printed'[c]) = n + 1
        /\ \A b \in 1..n : printed'[c][b] = printed[c][b]
        /\ printed'[c][n + 1] = e.packet
  <2>1. /\ Len(printed[c]) \in Nat
        /\ Len(Append(printed[c], e.packet)) = Len(printed[c]) + 1
        /\ \A b \in 1..Len(printed[c]) : Append(printed[c], e.packet)[b] = printed[c][b]
        /\ Append(printed[c], e.packet)[Len(printed[c]) + 1] = e.packet
    BY <1>3, <1>4, AppendProperties
  <2> QED
    BY <1>4, <2>1
<1>6. ASSUME NEW d \in Client, NEW b \in 1..Len(printed'[d])
      PROVE  \/ b \in 1..Len(printed[d]) /\ printed'[d][b] = printed[d][b]
             \/ d = c /\ b = n + 1 /\ printed'[d][b] = e.packet
  <2>1. CASE d # c
    BY <1>4, <1>6, <2>1
  <2>2. CASE d = c
    <3>1. b \in 1..(n + 1)
      BY <1>5, <2>2
    <3>2. b \in 1..n \/ b = n + 1
      BY <3>1
    <3> QED
      BY <1>5, <2>2, <3>2
  <2> QED
    BY <2>1, <2>2
<1>7. TransportTypeOK'
  <2>1. Append(printed[c], e.packet) \in Seq(Packet)
    BY <1>3, <1>4
  <2>2. printed' \in [Client -> Seq(Packet)]
    BY <1>0, <2>1 DEF TransportTypeOK
  <2> QED
    BY <1>0, <1>1, <1>2, <2>2 DEF TransportTypeOK
<1>8. PrintedGone'
  <2> SUFFICES ASSUME NEW d \in Client, NEW b \in 1..Len(printed'[d])
               PROVE  \E k \in Nat : OffQueue(d, k)' /\ PublishAt(d, k, printed[d][b])'
    BY DEF PrintedGone
  <2>1. d \in Conn
    BY ClientConn
  <2>2. CASE b \in 1..Len(printed[d]) /\ printed'[d][b] = printed[d][b]
    <3>1. PICK k \in Nat : OffQueue(d, k) /\ PublishAt(d, k, printed[d][b])
      BY <2>2 DEF TInv, PrintedGone
    <3>2. OffQueue(d, k)' /\ outbound'[d][k] = outbound[d][k]
      BY <1>2, <2>1, <3>1
    <3> QED
      BY <2>2, <3>1, <3>2 DEF PublishAt, OffQueue, Pushes, IsPublish, PacketAt
  <2>3. CASE d = c /\ b = n + 1 /\ printed'[d][b] = e.packet
    <3>1. PICK k \in Nat : OffQueue(c, k) /\ wire[c][1] = outbound[c][k]
      BY <1>0, <1>1 DEF TInv, WireGone
    <3>2. OffQueue(c, k)' /\ outbound'[c][k] = e
      BY <1>0, <1>1, <1>2, <3>1
    <3> QED
      BY <2>3, <3>2 DEF PublishAt, OffQueue, Pushes, IsPublish, PacketAt
  <2> QED
    BY <1>6, <2>2, <2>3
<1>9. PrintedFirst'
  <2> SUFFICES ASSUME NEW d \in Client, NEW b \in 1..Len(printed'[d]),
                      NEW a \in 1..Len(wire'[d]), wire'[d][a].type = "PUBLISH"
               PROVE  Newer(printed'[d][b], wire'[d][a].packet)
    BY DEF PrintedFirst, Newer
  <2>1. CASE b \in 1..Len(printed[d]) /\ printed'[d][b] = printed[d][b]
    <3>1. PICK x \in 1..Len(wire[d]) : wire'[d][a] = wire[d][x]
      BY <1>1, ClientConn
    <3> QED
      BY <2>1, <3>1 DEF TInv, PrintedFirst
  <2>2. CASE d = c /\ b = n + 1 /\ printed'[d][b] = e.packet
    <3>1. a + 1 \in 1..Len(wire[c]) /\ wire'[c][a] = wire[c][a + 1] /\ 1 < a + 1
      BY <1>1, <2>2
    <3>2. Newer(wire[c][1].packet, wire[c][a + 1].packet)
      BY <1>1, <2>2, <3>1 DEF TInv, WireOrder
    <3> QED
      BY <1>1, <2>2, <3>1, <3>2
  <2> QED
    BY <1>6, <2>1, <2>2
<1>10. PrintsOnceInOrder'
  <2> SUFFICES ASSUME NEW d \in Client, NEW i \in 1..Len(printed'[d]),
                      NEW j \in 1..Len(printed'[d]), i < j
               PROVE  Newer(printed'[d][i], printed'[d][j])
    BY DEF PrintsOnceInOrder, Newer
  <2>1. CASE j \in 1..Len(printed[d]) /\ printed'[d][j] = printed[d][j]
    <3>1. i \in 1..Len(printed[d]) /\ printed'[d][i] = printed[d][i]
      <4>1. CASE d = c
        <5>1. j \in 1..n /\ i \in 1..n
          BY <1>5, <2>1, <4>1
        <5> QED
          BY <1>5, <4>1, <5>1
      <4> QED
        BY <1>6, <4>1
    <3> QED
      BY <2>1, <3>1 DEF TInv, PrintsOnceInOrder, Newer
  <2>2. CASE d = c /\ j = n + 1 /\ printed'[d][j] = e.packet
    <3>1. i \in 1..n
      BY <1>5, <2>2
    <3>2. i \in 1..Len(printed[c]) /\ printed'[c][i] = printed[c][i]
      BY <1>5, <3>1
    <3>3. Newer(printed[c][i], wire[c][1].packet)
      BY <1>1, <3>2 DEF TInv, PrintedFirst
    <3> QED
      BY <1>1, <2>2, <3>2, <3>3
  <2> QED
    BY <1>6, <2>1, <2>2
<1> QED
  BY <1>7, <1>8, <1>9, <1>10, ReadsWireInv DEF TInv

\* The writer takes the oldest event: it was pushed after all that has left the
\* queue, so that ClientOrder is the order of the wire.
LEMMA WriteTInv ==
    ASSUME TInv, NEW c \in Conn, held[c] > 0, UNCHANGED <<vars, printed>>,
           held' = [held EXCEPT ![c] = held[c] - 1],
           \/ wire' = wire
           \/ wire' = [wire EXCEPT ![c] =
                         Append(wire[c], outbound[c][Q!OldestHeld(Len(outbound[c]), held[c])])]
    PROVE  TInv'
<1>0. TypeOK /\ TransportTypeOK /\ outbound' = outbound /\ printed' = printed
  BY DEF TInv, PInv, SInv, OInv, LInv, vars
<1>1. PInv'
  BY NextPInv DEF TInv
<1>2. PICK n \in Nat, h \in Nat : n = Len(outbound[c]) /\ h = held[c] /\ h > 0 /\ h <= n
  BY <1>0 DEF TransportTypeOK, TypeOK
<1> DEFINE x == n - h + 1
<1>3. x \in 1..n /\ x \in Nat /\ x + (h - 1) <= n /\ h - 1 \in Nat /\ h - 1 <= n
  BY <1>2
<1>4. Q!OldestHeld(Len(outbound[c]), held[c]) = x
  BY <1>2 DEF Q!OldestHeld
<1>5. \A k \in Nat : k + h <= n => k < x
  BY <1>2
<1> HIDE DEF x
<1>6. held'[c] = h - 1 /\ \A d \in Conn : d # c => held'[d] = held[d]
  BY <1>0, <1>2 DEF TransportTypeOK
<1>7. OffQueue(c, x)'
  BY <1>0, <1>2, <1>3, <1>6 DEF OffQueue, Pushes
<1>8. \A d \in Conn, k \in Nat : OffQueue(d, k) =>
        OffQueue(d, k)' /\ outbound'[d][k] = outbound[d][k]
  <2> SUFFICES ASSUME NEW d \in Conn, NEW k \in Nat, OffQueue(d, k)
               PROVE  OffQueue(d, k)'
    BY <1>0
  <2>1. CASE d = c
    <3>1. k \in 1..n /\ k + h <= n
      BY <1>2, <2>1 DEF OffQueue, Pushes
    <3>2. k + (h - 1) <= n
      BY <1>2, <3>1
    <3> QED
      BY <1>0, <1>2, <1>6, <2>1, <3>1, <3>2 DEF OffQueue, Pushes
  <2>2. CASE d # c
    BY <1>0, <1>6, <2>2 DEF OffQueue, Pushes
  <2> QED
    BY <2>1, <2>2
<1>9. held' \in [Conn -> Nat] /\ \A d \in Conn : held'[d] <= Len(outbound'[d])
  <2>1. held' \in [Conn -> Nat]
    BY <1>0, <1>2, <1>3 DEF TransportTypeOK
  <2> QED
    BY <1>0, <1>2, <1>3, <1>6, <2>1 DEF TransportTypeOK
<1>10. CASE wire' = wire
  <2>1. TransportTypeOK'
    BY <1>0, <1>9, <1>10 DEF TransportTypeOK
  <2>2. WireGone' /\ PrintedGone' /\ WireOrder' /\ PrintedFirst' /\ PrintsOnceInOrder'
    BY <1>0, <1>8, <1>10, GoneStays
  <2> QED
    BY <1>1, <2>1, <2>2 DEF TInv
<1>11. CASE wire' = [wire EXCEPT ![c] = Append(wire[c], outbound[c][x])]
  <2>1. outbound[c][x] \in Event /\ wire[c] \in Seq(Event)
    BY <1>0, <1>2, <1>3 DEF TransportTypeOK, TypeOK
  <2>2. wire' \in [Conn -> Seq(Event)]
    <3>1. Append(wire[c], outbound[c][x]) \in Seq(Event)
      BY <2>1
    <3> QED
      BY <1>0, <1>11, <3>1 DEF TransportTypeOK
  <2>3. TransportTypeOK'
    BY <1>0, <1>9, <2>2 DEF TransportTypeOK
  <2>4. wire'[c] = Append(wire[c], outbound[c][x]) /\ \A d \in Conn : d # c => wire'[d] = wire[d]
    BY <1>0, <1>11 DEF TransportTypeOK
  <2>5. PICK w \in Nat :
          /\ w = Len(wire[c]) /\ Len(wire'[c]) = w + 1
          /\ \A a \in 1..w : wire'[c][a] = wire[c][a]
          /\ wire'[c][w + 1] = outbound[c][x]
    <3>1. /\ Len(wire[c]) \in Nat
          /\ Len(Append(wire[c], outbound[c][x])) = Len(wire[c]) + 1
          /\ \A a \in 1..Len(wire[c]) : Append(wire[c], outbound[c][x])[a] = wire[c][a]
          /\ Append(wire[c], outbound[c][x])[Len(wire[c]) + 1] = outbound[c][x]
      BY <2>1, AppendProperties
    <3> QED
      BY <2>4, <3>1
  <2>6. ASSUME NEW d \in Conn, NEW a \in 1..Len(wire'[d])
        PROVE  \/ a \in 1..Len(wire[d]) /\ wire'[d][a] = wire[d][a]
               \/ d = c /\ a = w + 1 /\ wire'[d][a] = outbound[c][x]
    <3>1. CASE d # c
      BY <2>4, <2>6, <3>1
    <3>2. CASE d = c
      <4>1. a \in 1..(w + 1)
        BY <2>5, <2>6, <3>2
      <4>2. a \in 1..w \/ a = w + 1
        BY <4>1
      <4> QED
        BY <2>5, <3>2, <4>2
    <3> QED
      BY <3>1, <3>2
  <2>7. WireGone'
    <3> SUFFICES ASSUME NEW d \in Conn, NEW a \in 1..Len(wire'[d])
                 PROVE  \E k \in Nat : OffQueue(d, k)' /\ wire'[d][a] = outbound'[d][k]
      BY DEF WireGone
    <3>1. CASE a \in 1..Len(wire[d]) /\ wire'[d][a] = wire[d][a]
      <4>1. PICK k \in Nat : OffQueue(d, k) /\ wire[d][a] = outbound[d][k]
        BY <3>1 DEF TInv, WireGone
      <4> QED
        BY <1>8, <3>1, <4>1
    <3>2. CASE d = c /\ wire'[d][a] = outbound[c][x]
      BY <1>0, <1>3, <1>7, <3>2
    <3> QED
      BY <2>6, <3>1, <3>2
  <2>8. PrintedGone' /\ PrintsOnceInOrder'
    <3>1. PrintsOnceInOrder'
      BY <1>0 DEF TInv, PrintsOnceInOrder
    <3> SUFFICES ASSUME NEW d \in Client, NEW b \in 1..Len(printed[d])
                 PROVE  \E k \in Nat : OffQueue(d, k)' /\ PublishAt(d, k, printed[d][b])'
      BY <1>0, <3>1 DEF PrintedGone
    <3>2. PICK k \in Nat : OffQueue(d, k) /\ PublishAt(d, k, printed[d][b])
      BY DEF TInv, PrintedGone
    <3>3. OffQueue(d, k)'
      BY <1>8, <3>2, ClientConn
    <3>4. PublishAt(d, k, printed[d][b])'
      BY <1>0, <3>2 DEF PublishAt, Pushes, IsPublish, PacketAt
    <3> QED
      BY <3>3, <3>4
  <2>9. ASSUME c \in Client, NEW k \in Nat, NEW p \in Packet, OffQueue(c, k), PublishAt(c, k, p),
               outbound[c][x].type = "PUBLISH"
        PROVE  Newer(p, outbound[c][x].packet)
    <3>1. k < x
      BY <1>2, <1>5, <2>9 DEF OffQueue
    <3>2. outbound[c][x].packet \in Packet
      BY <2>1, <2>9 DEF Event
    <3>3. PublishAt(c, x, outbound[c][x].packet)
      BY <1>2, <1>3, <2>9 DEF PublishAt, Pushes, IsPublish, PacketAt
    <3> QED
      BY <1>3, <2>9, <3>1, <3>2, <3>3 DEF TInv, PInv, ClientOrder, Newer
  <2>10. WireOrder'
    <3> SUFFICES ASSUME NEW d \in Client, NEW a \in 1..Len(wire'[d]), NEW b \in 1..Len(wire'[d]),
                        a < b, wire'[d][a].type = "PUBLISH", wire'[d][b].type = "PUBLISH"
                 PROVE  Newer(wire'[d][a].packet, wire'[d][b].packet)
      BY DEF WireOrder, Newer
    <3>0. d \in Conn
      BY ClientConn
    <3>1. CASE b \in 1..Len(wire[d]) /\ wire'[d][b] = wire[d][b]
      <4>1. a \in 1..Len(wire[d]) /\ wire'[d][a] = wire[d][a]
        <5>1. CASE d = c
          <6>1. b \in 1..w /\ a \in 1..w
            BY <2>5, <3>1, <5>1
          <6> QED
            BY <2>5, <5>1, <6>1
        <5> QED
          BY <2>6, <3>0, <5>1
      <4> QED
        BY <3>1, <4>1 DEF TInv, WireOrder
    <3>2. CASE d = c /\ b = w + 1 /\ wire'[d][b] = outbound[c][x]
      <4>1. a \in 1..w
        BY <2>5, <3>2
      <4>2. a \in 1..Len(wire[c]) /\ wire'[c][a] = wire[c][a]
        BY <2>5, <4>1
      <4>3. PICK k \in Nat : OffQueue(c, k) /\ wire[c][a] = outbound[c][k]
        BY <4>2 DEF TInv, WireGone
      <4>4. wire[c][a] \in Event /\ wire[c][a].type = "PUBLISH"
        BY <2>1, <3>2, <4>2
      <4>5. wire[c][a].packet \in Packet
        BY <4>4 DEF Event
      <4>6. PublishAt(c, k, wire[c][a].packet)
        BY <4>3, <4>4 DEF PublishAt, OffQueue, IsPublish, PacketAt
      <4>7. Newer(wire[c][a].packet, outbound[c][x].packet)
        BY <2>9, <3>2, <4>3, <4>5, <4>6
      <4> QED
        BY <3>2, <4>2, <4>7
    <3> QED
      BY <2>6, <3>0, <3>1, <3>2
  <2>11. PrintedFirst'
    <3> SUFFICES ASSUME NEW d \in Client, NEW b \in 1..Len(printed[d]),
                        NEW a \in 1..Len(wire'[d]), wire'[d][a].type = "PUBLISH"
                 PROVE  Newer(printed[d][b], wire'[d][a].packet)
      BY <1>0 DEF PrintedFirst, Newer
    <3>1. CASE a \in 1..Len(wire[d]) /\ wire'[d][a] = wire[d][a]
      BY <3>1 DEF TInv, PrintedFirst
    <3>2. CASE d = c /\ wire'[d][a] = outbound[c][x]
      <4>1. PICK k \in Nat : OffQueue(c, k) /\ PublishAt(c, k, printed[c][b])
        BY <3>2 DEF TInv, PrintedGone
      <4>2. printed[c][b] \in Packet
        BY <1>0, <3>2 DEF TransportTypeOK
      <4> QED
        BY <2>9, <3>2, <4>1, <4>2
    <3> QED
      BY <2>6, <3>1, <3>2, ClientConn
  <2> QED
    BY <1>1, <2>3, <2>7, <2>8, <2>10, <2>11 DEF TInv
<1> QED
  BY <1>4, <1>10, <1>11

\* A reset empties the socket.
LEMMA ResetTInv ==
    ASSUME TInv, NEW c \in Conn, UNCHANGED <<vars, held, printed>>,
           wire' = [wire EXCEPT ![c] = <<>>]
    PROVE  TInv'
<1>0. TransportTypeOK /\ printed' = printed
  BY DEF TInv
<1>1. /\ PInv'
      /\ \A d \in Conn : held'[d] <= Len(outbound'[d])
      /\ \A d \in Conn, k \in Nat : OffQueue(d, k) =>
           OffQueue(d, k)' /\ outbound'[d][k] = outbound[d][k]
      /\ \A d \in Conn, k \in Nat, p \in Packet :
           PublishAt(d, k, p) => PublishAt(d, k, p)'
  BY QuietBroker
<1>2. wire'[c] = <<>> /\ \A d \in Conn : d # c => wire'[d] = wire[d]
  BY <1>0 DEF TransportTypeOK
<1>3. \A d \in Conn : \A a \in 1..Len(wire'[d]) : wire'[d] = wire[d]
  <2>1. Len(wire'[c]) = 0
    BY <1>2
  <2> QED
    BY <1>2, <2>1
<1>4. TransportTypeOK'
  <2>1. wire' \in [Conn -> Seq(Event)]
    BY <1>0 DEF TransportTypeOK
  <2> QED
    BY <1>0, <1>1, <2>1 DEF TransportTypeOK
<1>5. WireGone'
  BY <1>1, <1>3 DEF TInv, WireGone
<1>6. PrintedGone'
  <2> SUFFICES ASSUME NEW d \in Client, NEW b \in 1..Len(printed[d])
               PROVE  \E k \in Nat : OffQueue(d, k)' /\ PublishAt(d, k, printed[d][b])'
    BY <1>0 DEF PrintedGone
  <2>1. PICK k \in Nat : OffQueue(d, k) /\ PublishAt(d, k, printed[d][b])
    BY DEF TInv, PrintedGone
  <2>2. printed[d][b] \in Packet /\ d \in Conn
    BY <1>0, ClientConn DEF TransportTypeOK
  <2>3. PublishAt(d, k, printed[d][b])'
    BY <1>0, <1>1, <2>1, <2>2
  <2> QED
    BY <1>1, <2>1, <2>2, <2>3
<1>7. WireOrder' /\ PrintedFirst' /\ PrintsOnceInOrder'
  BY <1>0, <1>3, ClientConn DEF TInv, WireOrder, PrintedFirst, PrintsOnceInOrder, Newer
<1> QED
  BY <1>1, <1>4, <1>5, <1>6, <1>7 DEF TInv

LEMMA NextTInv == TInv /\ [ClientNext]_allVars => TInv'
<1> SUFFICES ASSUME TInv, [ClientNext]_allVars
             PROVE  TInv'
  OBVIOUS
<1>1. ASSUME UNCHANGED <<vars, held, wire, printed>>
      PROVE  TInv'
  <2>1. /\ PInv'
        /\ \A d \in Conn : held'[d] <= Len(outbound'[d])
        /\ \A d \in Conn, k \in Nat : OffQueue(d, k) =>
             OffQueue(d, k)' /\ outbound'[d][k] = outbound[d][k]
    BY <1>1, QuietBroker
  <2>2. WireGone' /\ PrintedGone' /\ WireOrder' /\ PrintedFirst' /\ PrintsOnceInOrder'
    BY <1>1, <2>1, GoneStays
  <2>3. TransportTypeOK'
    BY <1>1, <2>1 DEF TInv, TransportTypeOK
  <2> QED
    BY <2>1, <2>2, <2>3 DEF TInv
<1>2. CASE UNCHANGED allVars
  BY <1>1, <1>2 DEF allVars, clientVars, transportVars
<1>3. ASSUME NEW c \in Client, Start(c) \/ ReadError(c) \/ Interrupt(c)
      PROVE  TInv'
  BY <1>1, <1>3 DEF Start, ReadError, Interrupt, transportVars
<1>4. ASSUME NEW c \in Client, NEW e, OnConnack(c, e) \/ OnPuback(c, e) \/ OnSuback(c, e)
      PROVE  TInv'
  <2>1. Reads(c, e) /\ printed' = printed
    BY <1>4 DEF OnConnack, OnPuback, OnSuback
  <2> QED
    BY <2>1, ReadsTInv
<1>5. ASSUME NEW c \in Client, NEW e, OnMessage(c, e)
      PROVE  TInv'
  <2>1. CASE e.type = "PUBLISH"
    <3>1. Reads(c, e) /\ printed' = [printed EXCEPT ![c] = Append(printed[c], e.packet)]
      BY <1>5, <2>1 DEF OnMessage
    <3> QED
      BY <2>1, <3>1, PrintTInv
  <2>2. CASE e.type # "PUBLISH"
    <3>1. printed \in [Client -> Seq(Packet)]
      BY DEF TInv, TransportTypeOK
    <3>2. Reads(c, e) /\ printed' = printed
      BY <1>5, <2>2, <3>1 DEF OnMessage
    <3> QED
      BY <3>2, ReadsTInv
  <2> QED
    BY <2>1, <2>2
<1>6. ASSUME NEW c \in Client, ProcessStep(c)
      PROVE  TInv'
  BY <1>3, <1>4, <1>5, <1>6 DEF ProcessStep
<1>7. ASSUME Next, Transport
      PROVE  TInv'
  BY <1>7, BrokerTInv
<1>8. ASSUME NEW c \in Client, BrokerRead(c)
      PROVE  Next /\ Transport
  <2>1. c \in Conn
    BY ClientConn
  <2>2. ClientStep(c) /\ Transport
    BY <1>8, <2>1, DispatchDecodes DEF BrokerRead
  <2> QED
    BY <2>1, <2>2 DEF Next
<1>9. ASSUME NEW c \in Client, Reset(c)
      PROVE  TInv'
  <2>1. /\ UNCHANGED <<vars, held, printed>> /\ wire' = [wire EXCEPT ![c] = <<>>]
        /\ c \in Conn
    BY <1>9, ClientConn DEF Reset, clientVars
  <2> QED
    BY <2>1, ResetTInv
<1>10. ASSUME NEW c \in Conn, WriterStep(c)
       PROVE  TInv'
  <2>1. /\ held[c] > 0 /\ UNCHANGED <<vars, printed>>
        /\ held' = [held EXCEPT ![c] = held[c] - 1]
        /\ \/ wire' = wire
           \/ wire' = [wire EXCEPT ![c] =
                         Append(wire[c], outbound[c][Q!OldestHeld(Len(outbound[c]), held[c])])]
    BY <1>10 DEF WriterStep, clientVars
  <2> QED
    BY <2>1, WriteTInv
<1>11. ASSUME NEW c \in Conn, ClientStep(c) \/ ReaderStep(c), Transport
       PROVE  TInv'
  BY <1>7, <1>11 DEF Next
<1>12. ASSUME NEW s \in Shard, ShardStep(s), Transport
       PROVE  TInv'
  BY <1>7, <1>12 DEF Next
<1> QED
  BY <1>2, <1>3, <1>6, <1>7, <1>8, <1>9, <1>10, <1>11, <1>12 DEF ClientNext

LEMMA InitTInv == ClientInit => TInv
<1> SUFFICES ASSUME ClientInit
             PROVE  TInv
  OBVIOUS
<1>1. PInv /\ TypeOK
  BY InitPInv DEF ClientInit, PInv, SInv, OInv, LInv
<1>2. /\ \A c \in Conn : held[c] = 0 /\ wire[c] = <<>> /\ Len(wire[c]) = 0
      /\ \A c \in Client : printed[c] = <<>> /\ Len(printed[c]) = 0
  BY DEF ClientInit
<1>3. TransportTypeOK
  <2>1. held \in [Conn -> Nat] /\ wire \in [Conn -> Seq(Event)] /\ printed \in [Client -> Seq(Packet)]
    BY DEF ClientInit
  <2>2. \A c \in Conn : Len(outbound[c]) \in Nat
    BY <1>1 DEF TypeOK
  <2> QED
    BY <1>2, <2>1, <2>2 DEF TransportTypeOK
<1>4. WireGone /\ PrintedGone
  BY <1>2 DEF WireGone, PrintedGone
<1>5. WireOrder /\ PrintedFirst /\ PrintsOnceInOrder
  BY <1>2, ClientConn DEF WireOrder, PrintedFirst, PrintsOnceInOrder
<1> QED
  BY <1>1, <1>3, <1>4, <1>5 DEF TInv

\* A sub never prints a publish twice and prints what one client publishes to a
\* topic in order: the shard finishes the replay of a subscription before its
\* first live push, the queue evicts without reordering, and the writer, the
\* socket and run_sub keep the order, across resets.
THEOREM ClientPrintsOnceInOrder == ClientSpec => []PrintsOnceInOrder
<1>1. TInv => PrintsOnceInOrder
  BY DEF TInv
<1> QED
  BY <1>1, InitTInv, NextTInv, PTL DEF ClientSpec
=============================================================================
