---------------------------- MODULE BrokerProofs ----------------------------
(***************************************************************************)
(* Theorems about the sharded broker, for any number of shards,            *)
(* connections, topics and filters, whatever the matching relation and the *)
(* hash function.                                                          *)
(***************************************************************************)
EXTENDS Broker, SequenceTheorems, TLAPS

LEMMA MessageFields ==
    ASSUME NEW m \in Message
    PROVE  /\ m.id \in Conn
           /\ m.type \in {"Register", "Disconnect", "Subscribe", "Unsubscribe", "Publish"}
           /\ m.type \in {"Subscribe", "Unsubscribe"} => m.topic \in Filter
           /\ m.type = "Publish" => m.packet \in Packet
BY DEF Message

LEMMA PacketFields ==
    ASSUME NEW p \in Packet
    PROVE  /\ p.topic \in Topic /\ p.from \in Conn /\ p.n \in Nat
           /\ p.empty \in BOOLEAN /\ p.qos \in {0, 1} /\ p.retain \in BOOLEAN
           /\ [p EXCEPT !.retain = TRUE] \in Packet
BY DEF Packet

LEMMA ShardFacts == N \in Nat \ {0} /\ 0 \in Shard /\ Topic \subseteq Filter
BY BrokerAssumption DEF Shard

\* A packet that the reader decodes is one that its client may send.
LEMMA DecodedPacket ==
    ASSUME TypeOK, NEW c \in Conn, NEW pkt, Decoded(c, pkt)
    PROVE  /\ pkt \in ClientPacket
           /\ nread[c] + 1 \in Nat
           /\ nread' \in [Conn -> Nat]
<1>1. nread[c] \in Nat /\ nread[c] + 1 \in 1..Len(Script[c])
  <2>1. nread[c] \in Nat /\ nread[c] < Len(Script[c]) /\ Len(Script[c]) \in Nat
    BY BrokerAssumption DEF TypeOK, Decoded
  <2> QED
    BY <2>1
<1>2. Script[c][nread[c] + 1] \in SUBSET ClientPacket
  BY <1>1, BrokerAssumption
<1>3. nread' = [nread EXCEPT ![c] = nread[c] + 1]
  BY DEF Decoded
<1> QED
  BY <1>1, <1>2, <1>3 DEF Decoded, TypeOK

LEMMA PacketCases ==
    ASSUME NEW pkt \in ClientPacket
    PROVE  /\ pkt.type \in {"SUBSCRIBE", "UNSUBSCRIBE"} => pkt.filters \in Seq(Filter)
           /\ pkt.type = "PUBLISH" => /\ pkt.topic \in Topic /\ pkt.empty \in BOOLEAN
                                      /\ pkt.qos \in {0, 1} /\ pkt.retain \in BOOLEAN
BY DEF ClientPacket, SubscribePacket, UnsubscribePacket, PublishRequest

\* One message per filter is a sequence of messages.
LEMMA MessagesOfFilters ==
    ASSUME NEW c \in Conn, NEW fs \in Seq(Filter), NEW t \in {"Subscribe", "Unsubscribe"}
    PROVE  [i \in 1..Len(fs) |-> [type |-> t, id |-> c, topic |-> fs[i]]]
             \in Seq(Message)
<1>1. \A i \in 1..Len(fs) : [type |-> t, id |-> c, topic |-> fs[i]] \in Message
  BY DEF Message
<1>2. Len(fs) \in Nat
  OBVIOUS
<1> QED
  BY <1>1, <1>2, IsASeq

LEMMA PushType ==
    ASSUME TypeOK, NEW c \in Conn, NEW e \in Event, PushTo(c, e)
    PROVE  outbound' \in [Conn -> Seq(Event)]
<1>1. outbound' = [outbound EXCEPT ![c] = Append(outbound[c], e)]
  BY DEF PushTo
<1> QED
  BY <1>1 DEF TypeOK

-----------------------------------------------------------------------------
(* Type correctness *)

LEMMA InitType == Init => TypeOK
BY ShardFacts DEF Init, TypeOK, NoSubs, Job

LEMMA BeginType ==
    ASSUME TypeOK, NEW c \in Conn, NEW ms \in Seq(Message), NEW a \in Event \cup {NoAck},
           Begin(c, ms, a), nread' \in [Conn -> Nat],
           outbound' \in [Conn -> Seq(Event)]
    PROVE  TypeOK'
BY DEF TypeOK, Begin, shardVars

LEMMA DispatchType ==
    ASSUME TypeOK, NEW c \in Conn, NEW pkt, Dispatch(c, pkt)
    PROVE  TypeOK'
<1> DEFINE n == nread[c] + 1
<1>1. CASE ReadConnect(c, pkt)
  <2>1. /\ << [type |-> "Register", id |-> c] >> \in Seq(Message)
        /\ [type |-> "CONNACK", pid |-> n] \in Event \cup {NoAck}
        /\ nread' \in [Conn -> Nat] /\ outbound' \in [Conn -> Seq(Event)]
    BY <1>1, DecodedPacket DEF ReadConnect, Message, Event, TypeOK
  <2> QED
    BY <1>1, <2>1, BeginType DEF ReadConnect
<1>2. CASE ReadSubscribe(c, pkt)
  <2>1. pkt.filters \in Seq(Filter) /\ n \in Nat /\ nread' \in [Conn -> Nat]
    BY <1>2, DecodedPacket, PacketCases DEF ReadSubscribe
  <2>2. /\ [type |-> "SUBACK", pid |-> n] \in Event \cup {NoAck}
        /\ outbound' \in [Conn -> Seq(Event)]
    BY <1>2, <2>1 DEF ReadSubscribe, Event, TypeOK
  <2> QED
    BY <1>2, <2>1, <2>2, MessagesOfFilters, BeginType DEF ReadSubscribe
<1>3. CASE ReadUnsubscribe(c, pkt)
  <2>1. pkt.filters \in Seq(Filter) /\ n \in Nat /\ nread' \in [Conn -> Nat]
    BY <1>3, DecodedPacket, PacketCases DEF ReadUnsubscribe
  <2>2. /\ [type |-> "UNSUBACK", pid |-> n] \in Event \cup {NoAck}
        /\ outbound' \in [Conn -> Seq(Event)]
    BY <1>3, <2>1 DEF ReadUnsubscribe, Event, TypeOK
  <2> QED
    BY <1>3, <2>1, <2>2, MessagesOfFilters, BeginType DEF ReadUnsubscribe
<1>4. CASE ReadPublish(c, pkt)
  <2>1. pkt \in ClientPacket /\ n \in Nat /\ nread' \in [Conn -> Nat]
    BY <1>4, DecodedPacket DEF ReadPublish
  <2>2. Published(c, n, pkt) \in Packet
    BY <1>4, <2>1, PacketCases DEF ReadPublish, Published, Packet
  <2>3. << [type |-> "Publish", id |-> c, packet |-> Published(c, n, pkt)] >>
          \in Seq(Message)
    BY <2>2 DEF Message
  <2>4. outbound' \in [Conn -> Seq(Event)]
    <3>1. [type |-> "PUBACK", pid |-> n] \in Event
      BY <2>1 DEF Event
    <3> QED
      BY <1>4, <3>1, PushType DEF ReadPublish, TypeOK
  <2> QED
    BY <1>4, <2>1, <2>3, <2>4, BeginType DEF ReadPublish
<1>5. CASE ReadPing(c, pkt)
  <2>1. nread' \in [Conn -> Nat] /\ [type |-> "PINGRESP", pid |-> n] \in Event
    BY <1>5, DecodedPacket DEF ReadPing, Event
  <2>2. outbound' \in [Conn -> Seq(Event)]
    BY <1>5, <2>1, PushType DEF ReadPing
  <2> QED
    BY <1>5, <2>1, <2>2 DEF ReadPing, TypeOK, shardVars
<1>6. CASE ReadPuback(c, pkt)
  BY <1>6, DecodedPacket DEF ReadPuback, TypeOK, shardVars
<1>7. CASE ReadHangup(c, pkt)
  <2>1. << [type |-> "Disconnect", id |-> c] >> \in Seq(Message)
    BY DEF Message
  <2> QED
    BY <1>7, <2>1, DecodedPacket DEF ReadHangup, TypeOK, shardVars
<1> QED
  BY <1>1, <1>2, <1>3, <1>4, <1>5, <1>6, <1>7 DEF Dispatch

LEMMA HomeShardType ==
    ASSUME NEW m \in Message
    PROVE  HomeShard(m) \in Shard
<1>1. CASE m.type = "Publish"
  BY <1>1, MessageFields, PacketFields, ShardFacts, BrokerAssumption DEF HomeShard
<1>2. CASE m.type \in {"Subscribe", "Unsubscribe"}
  BY <1>2, MessageFields, BrokerAssumption DEF HomeShard
<1>3. CASE m.type \in {"Register", "Disconnect"}
  BY <1>3, ShardFacts DEF HomeShard
<1> QED
  BY <1>1, <1>2, <1>3, MessageFields

\* What one Sender::send does, spelled out.
LEMMA SendStep ==
    ASSUME TypeOK, NEW c \in Conn, Send(c)
    PROVE  \E m \in Message, s \in Shard :
             /\ sending[c] # <<>> /\ m = Head(sending[c])
             /\ s = IF Broadcast(m) THEN next[c] ELSE HomeShard(m)
             /\ inbox' = [inbox EXCEPT ![s] = Append(inbox[s], m)]
             /\ IF Broadcast(m) /\ next[c] + 1 < N
                THEN /\ next' = [next EXCEPT ![c] = next[c] + 1]
                     /\ next[c] + 1 \in Shard
                     /\ sending' = sending
                ELSE /\ next' = [next EXCEPT ![c] = 0]
                     /\ sending' = [sending EXCEPT ![c] = Tail(sending[c])]
             /\ UNCHANGED <<shardVars, outbound, phase, ack, nread>>
<1> DEFINE m == Head(sending[c])
           s == IF Broadcast(m) THEN next[c] ELSE HomeShard(m)
<1>1. sending[c] \in Seq(Message) /\ sending[c] # <<>> /\ next[c] \in Shard
  BY DEF TypeOK, Send
<1>2. m \in Message
  BY <1>1
<1>3. s \in Shard
  BY <1>1, <1>2, HomeShardType
<1>4. next[c] + 1 < N => next[c] + 1 \in Shard
  BY <1>1, ShardFacts DEF Shard
<1>5. Broadcast(m) \in BOOLEAN
  BY DEF Broadcast
<1>6. sending = [sending EXCEPT ![c] = sending[c]]
  BY DEF TypeOK
<1>7. /\ inbox' = [inbox EXCEPT ![s] = Append(inbox[s], m)]
      /\ UNCHANGED <<shardVars, outbound, phase, ack, nread>>
      /\ next' = [next EXCEPT ![c] =
                    IF Broadcast(m) /\ next[c] + 1 < N THEN next[c] + 1 ELSE 0]
      /\ sending' = [sending EXCEPT ![c] =
                       IF Broadcast(m) /\ next[c] + 1 < N THEN sending[c]
                                                          ELSE Tail(sending[c])]
  BY DEF Send
<1> HIDE DEF m, s
<1>8. IF Broadcast(m) /\ next[c] + 1 < N
      THEN /\ next' = [next EXCEPT ![c] = next[c] + 1]
           /\ next[c] + 1 \in Shard
           /\ sending' = sending
      ELSE /\ next' = [next EXCEPT ![c] = 0]
           /\ sending' = [sending EXCEPT ![c] = Tail(sending[c])]
  BY <1>4, <1>5, <1>6, <1>7
<1> QED
  BY <1>1, <1>2, <1>3, <1>7, <1>8 DEF m, s

LEMMA ReaderType ==
    ASSUME TypeOK, NEW c \in Conn, ReaderStep(c)
    PROVE  TypeOK'
<1>1. CASE Send(c)
  <2>1. PICK m \in Message, s \in Shard :
             /\ sending[c] # <<>>
             /\ inbox' = [inbox EXCEPT ![s] = Append(inbox[s], m)]
             /\ IF Broadcast(m) /\ next[c] + 1 < N
                THEN /\ next' = [next EXCEPT ![c] = next[c] + 1]
                     /\ next[c] + 1 \in Shard
                     /\ sending' = sending
                ELSE /\ next' = [next EXCEPT ![c] = 0]
                     /\ sending' = [sending EXCEPT ![c] = Tail(sending[c])]
             /\ UNCHANGED <<shardVars, outbound, phase, ack, nread>>
    BY <1>1, SendStep
  <2>2. inbox' \in [Shard -> Seq(Message)]
    BY <2>1 DEF TypeOK
  <2>3. next' \in [Conn -> Shard]
    BY <2>1, ShardFacts DEF TypeOK
  <2>4. sending' \in [Conn -> Seq(Message)]
    <3>1. Tail(sending[c]) \in Seq(Message)
      BY <2>1 DEF TypeOK
    <3> QED
      BY <2>1, <3>1 DEF TypeOK
  <2> QED
    BY <2>1, <2>2, <2>3, <2>4 DEF TypeOK, shardVars
<1>2. CASE Answer(c)
  <2>1. ack[c] \in Event
    BY <1>2 DEF Answer, TypeOK
  <2>2. outbound' \in [Conn -> Seq(Event)]
    BY <1>2, <2>1, PushType DEF Answer
  <2> QED
    BY <1>2, <2>2 DEF Answer, TypeOK, shardVars
<1>3. CASE Close(c)
  BY <1>3 DEF Close, TypeOK, shardVars
<1> QED
  BY <1>1, <1>2, <1>3 DEF ReaderStep

LEMMA ReceiveType ==
    ASSUME TypeOK, NEW s \in Shard, NEW m, Receive(s, m)
    PROVE  /\ m \in Message /\ inbox' \in [Shard -> Seq(Message)]
           /\ inbox[s] # <<>> /\ m = Head(inbox[s])
           /\ inbox' = [inbox EXCEPT ![s] = Tail(inbox[s])]
           /\ UNCHANGED readerVars
<1>1. inbox[s] \in Seq(Message) /\ inbox[s] # <<>>
  BY DEF TypeOK, Receive
<1>2. Head(inbox[s]) \in Message /\ Tail(inbox[s]) \in Seq(Message)
  BY <1>1
<1> QED
  BY <1>1, <1>2 DEF TypeOK, Receive

\* The jobs that replay and fan-out are made of.
LEMMA ReplayType ==
    ASSUME NEW c \in Conn, NEW ps \in SUBSET Packet
    PROVE  Replay(c, ps) \in Job
BY DEF Replay, Job

LEMMA FanOutType ==
    ASSUME NEW p \in Packet, NEW e \in BOOLEAN, NEW subs \in [Conn -> {0, 1}],
           NEW wild \in SUBSET Filter, NEW notified \in SUBSET Conn
    PROVE  FanOut(p, e, subs, wild, notified) \in Job
BY DEF FanOut, Job

LEMMA JobFields ==
    ASSUME NEW j \in Job
    PROVE  /\ j.op = "replay" => j.to \in Conn /\ j.packets \in SUBSET Packet
           /\ j.op = "fanout" => /\ j.packet \in Packet /\ j.exact \in BOOLEAN
                                 /\ j.todo \in [Conn -> {0, 1}]
                                 /\ j.wild \in SUBSET Filter
                                 /\ j.notified \in SUBSET Conn
BY DEF Job, Idle

LEMMA StoredType ==
    ASSUME NEW store \in SUBSET Packet, NEW p \in Packet,
           \A q, r \in store : q.topic = r.topic => q = r
    PROVE  /\ Stored(store, p) \in SUBSET Packet
           /\ \A q, r \in Stored(store, p) : q.topic = r.topic => q = r
<1>1. p.retain \in BOOLEAN /\ p.empty \in BOOLEAN
  BY PacketFields
<1>2. CASE p.retain /\ p.empty
  BY <1>1, <1>2 DEF Stored
<1>3. CASE p.retain /\ ~ p.empty
  BY <1>1, <1>3 DEF Stored
<1>4. CASE ~ p.retain
  BY <1>1, <1>4 DEF Stored
<1> QED
  BY <1>1, <1>2, <1>3, <1>4

LEMMA HandleType ==
    ASSUME TypeOK, NEW s \in Shard, NEW m, Handle(s, m)
    PROVE  TypeOK'
<1>1. CASE HandleRegister(s, m)
  <2>1. m \in Message /\ inbox' \in [Shard -> Seq(Message)] /\ UNCHANGED readerVars
    BY <1>1, ReceiveType DEF HandleRegister
  <2>2. m.id \in Conn
    BY <2>1, MessageFields
  <2> QED
    BY <1>1, <2>1, <2>2 DEF HandleRegister, TypeOK, readerVars
<1>2. CASE HandleSubscribe(s, m)
  <2>1. /\ m \in Message /\ m.id \in Conn /\ m.topic \in Filter
        /\ inbox' \in [Shard -> Seq(Message)] /\ UNCHANGED readerVars
    BY <1>2, ReceiveType, MessageFields DEF HandleSubscribe
  <2>2. topics' = [topics EXCEPT ![s] =
                     [topics[s] EXCEPT ![m.topic] = Subscribed(topics[s][m.topic], m.id)]]
    BY <1>2, <2>1 DEF HandleSubscribe, TypeOK
  <2>3. topics[s][m.topic] \in [Conn -> {0, 1}]
    BY <2>1 DEF TypeOK
  <2>4. Subscribed(topics[s][m.topic], m.id) \in [Conn -> {0, 1}]
    BY <2>1, <2>3 DEF Subscribed
  <2>5. topics' \in [Shard -> [Filter -> [Conn -> {0, 1}]]]
    BY <2>1, <2>2, <2>4 DEF TypeOK
  <2>6. RetainedFor(s, m.topic) \in SUBSET Packet
    BY DEF RetainedFor, TypeOK
  <2>7. job' \in [Shard -> Job]
    BY <1>2, <2>1, <2>6, ReplayType DEF HandleSubscribe, TypeOK, Job
  <2> QED
    BY <1>2, <2>1, <2>5, <2>7 DEF HandleSubscribe, TypeOK, readerVars
<1>3. CASE HandleUnsubscribe(s, m)
  <2>1. /\ m \in Message /\ m.id \in Conn /\ m.topic \in Filter
        /\ inbox' \in [Shard -> Seq(Message)] /\ UNCHANGED readerVars
    BY <1>3, ReceiveType, MessageFields DEF HandleUnsubscribe
  <2>2. topics' = [topics EXCEPT ![s] =
                     [topics[s] EXCEPT ![m.topic] = Removed(topics[s][m.topic], m.id)]]
    BY <1>3, <2>1 DEF HandleUnsubscribe, TypeOK
  <2>3. topics[s][m.topic] \in [Conn -> {0, 1}]
    BY <2>1 DEF TypeOK
  <2>4. Removed(topics[s][m.topic], m.id) \in [Conn -> {0, 1}]
    BY <2>1, <2>3 DEF Removed
  <2>5. topics' \in [Shard -> [Filter -> [Conn -> {0, 1}]]]
    BY <2>1, <2>2, <2>4 DEF TypeOK
  <2> QED
    BY <1>3, <2>1, <2>5 DEF HandleUnsubscribe, TypeOK, readerVars
<1>4. CASE HandlePublish(s, m)
  <2>1. /\ m \in Message /\ m.packet \in Packet /\ m.packet.topic \in Filter
        /\ inbox' \in [Shard -> Seq(Message)] /\ UNCHANGED readerVars
    BY <1>4, ReceiveType, MessageFields, PacketFields, ShardFacts DEF HandlePublish
  <2>2. retained' = [retained EXCEPT ![s] = Stored(retained[s], m.packet)]
    BY <1>4 DEF HandlePublish
  <2>3. /\ retained[s] \in SUBSET Packet
        /\ \A q, r \in retained[s] : q.topic = r.topic => q = r
    BY DEF TypeOK
  <2>4. /\ Stored(retained[s], m.packet) \in SUBSET Packet
        /\ \A q, r \in Stored(retained[s], m.packet) : q.topic = r.topic => q = r
    BY <2>1, <2>3, StoredType
  <2>5. /\ retained' \in [Shard -> SUBSET Packet]
        /\ \A t \in Shard : \A q, r \in retained'[t] : q.topic = r.topic => q = r
    BY <2>2, <2>4 DEF TypeOK
  <2>6. /\ topics[s][m.packet.topic] \in [Conn -> {0, 1}]
        /\ WildcardFilters(s, m.packet.topic) \in SUBSET Filter
    BY <2>1 DEF TypeOK, WildcardFilters
  <2>7. FanOut(m.packet, TRUE, topics[s][m.packet.topic],
               WildcardFilters(s, m.packet.topic), {}) \in Job
    BY <2>1, <2>6, FanOutType
  <2>8. job' \in [Shard -> Job]
    BY <1>4, <2>7 DEF HandlePublish, TypeOK
  <2> QED
    BY <1>4, <2>1, <2>5, <2>8 DEF HandlePublish, TypeOK, readerVars
<1>5. CASE HandleDisconnect(s, m)
  <2>1. /\ m \in Message /\ m.id \in Conn
        /\ inbox' \in [Shard -> Seq(Message)] /\ UNCHANGED readerVars
    BY <1>5, ReceiveType, MessageFields DEF HandleDisconnect
  <2>2. \A f \in Filter : Removed(topics[s][f], m.id) \in [Conn -> {0, 1}]
    BY <2>1 DEF Removed, TypeOK
  <2>3. topics' \in [Shard -> [Filter -> [Conn -> {0, 1}]]]
    BY <1>5, <2>2 DEF HandleDisconnect, TypeOK
  <2> QED
    BY <1>5, <2>1, <2>3 DEF HandleDisconnect, TypeOK, readerVars
<1> QED
  BY <1>1, <1>2, <1>3, <1>4, <1>5 DEF Handle

LEMMA PushReplayType ==
    ASSUME TypeOK, NEW s \in Shard, NEW p, PushReplay(s, p)
    PROVE  TypeOK'
<1>1. job[s] \in Job /\ job[s].op = "replay" /\ p \in job[s].packets
  BY DEF TypeOK, PushReplay
<1>2. job[s].to \in Conn /\ job[s].packets \in SUBSET Packet /\ p \in Packet
  BY <1>1, JobFields
<1>3. [type |-> "PUBLISH", packet |-> [p EXCEPT !.retain = TRUE], via |-> "replay"]
        \in Event
  BY <1>2, PacketFields DEF Event
<1>4. outbound' \in [Conn -> Seq(Event)]
  BY <1>2, <1>3, PushType DEF PushReplay
<1>5. job' \in [Shard -> Job]
  BY <1>2, ReplayType DEF PushReplay, TypeOK
<1> QED
  BY <1>4, <1>5 DEF PushReplay, TypeOK, readerVars

LEMMA VisitType ==
    ASSUME TypeOK, NEW s \in Shard, NEW c \in Conn, FanOutVisit(s, c)
    PROVE  TypeOK'
<1> DEFINE j == job[s]
           rest == [j.todo EXCEPT ![c] = j.todo[c] - 1]
<1>1. j \in Job /\ j.op = "fanout" /\ j.todo[c] > 0
  BY DEF TypeOK, FanOutVisit
<1>2. /\ j.packet \in Packet /\ j.exact \in BOOLEAN /\ j.wild \in SUBSET Filter
      /\ j.notified \in SUBSET Conn /\ j.todo \in [Conn -> {0, 1}]
  BY <1>1, JobFields
<1>3. rest \in [Conn -> {0, 1}]
  BY <1>1, <1>2
<1>4. /\ FanOut(j.packet, j.exact, rest, j.wild, j.notified) \in Job
      /\ FanOut(j.packet, j.exact, rest, j.wild, j.notified \cup {c}) \in Job
  BY <1>2, <1>3, FanOutType
<1>5. [type |-> "PUBLISH", packet |-> j.packet, via |-> "live"] \in Event
  BY <1>2 DEF Event
<1>6. job' \in [Shard -> Job] /\ outbound' \in [Conn -> Seq(Event)]
  <2>0. job \in [Shard -> Job] /\ outbound \in [Conn -> Seq(Event)]
    BY DEF TypeOK
  <2>1. CASE Skipped(s, c)
    <3>1. /\ job' = [job EXCEPT ![s] =
                       FanOut(j.packet, j.exact, rest, j.wild, j.notified)]
          /\ outbound' = outbound
      BY <2>1 DEF FanOutVisit
    <3> HIDE DEF j, rest
    <3> QED
      BY <1>4, <2>0, <3>1
  <2>2. CASE ~ Skipped(s, c)
    <3>1. /\ job' = [job EXCEPT ![s] =
                       FanOut(j.packet, j.exact, rest, j.wild, j.notified \cup {c})]
          /\ PushTo(c, [type |-> "PUBLISH", packet |-> j.packet, via |-> "live"])
      BY <2>2 DEF FanOutVisit
    <3> HIDE DEF j, rest
    <3>2. job' \in [Shard -> Job]
      BY <1>4, <2>0, <3>1
    <3>3. outbound' \in [Conn -> Seq(Event)]
      BY <1>5, <3>1, PushType
    <3> QED
      BY <3>2, <3>3
  <2> QED
    BY <2>1, <2>2
<1> QED
  BY <1>6 DEF FanOutVisit, TypeOK, readerVars

LEMMA FilterType ==
    ASSUME TypeOK, NEW s \in Shard, NEW f, FanOutFilter(s, f)
    PROVE  TypeOK'
<1>1. job[s] \in Job /\ job[s].op = "fanout" /\ f \in job[s].wild
  BY DEF TypeOK, FanOutFilter
<1>2. /\ job[s].packet \in Packet /\ job[s].wild \in SUBSET Filter
      /\ job[s].notified \in SUBSET Conn /\ f \in Filter
  BY <1>1, JobFields
<1>3. topics[s][f] \in [Conn -> {0, 1}]
  BY <1>2 DEF TypeOK
<1>4. FanOut(job[s].packet, FALSE, topics[s][f], job[s].wild \ {f}, job[s].notified)
        \in Job
  BY <1>2, <1>3, FanOutType
<1>5. job' \in [Shard -> Job]
  BY <1>4 DEF FanOutFilter, TypeOK
<1> QED
  BY <1>5 DEF FanOutFilter, TypeOK, readerVars

LEMMA NextType == TypeOK /\ [Next]_vars => TypeOK'
<1> SUFFICES ASSUME TypeOK, [Next]_vars PROVE TypeOK'
  OBVIOUS
<1>1. CASE UNCHANGED vars
  BY <1>1 DEF vars, TypeOK
<1>2. ASSUME NEW c \in Conn, ClientStep(c) PROVE TypeOK'
  BY <1>2, DispatchType DEF ClientStep
<1>3. ASSUME NEW c \in Conn, ReaderStep(c) PROVE TypeOK'
  BY <1>3, ReaderType
<1>4. ASSUME NEW s \in Shard, ShardStep(s) PROVE TypeOK'
  BY <1>4, HandleType, PushReplayType, VisitType, FilterType DEF ShardStep
<1> QED
  BY <1>1, <1>2, <1>3, <1>4 DEF Next

\* The registry, the retained store, the channels and the queues of the broker
\* are well-formed in every run of any size: no connection is ever twice in a
\* subscriber list, and no topic has two retained packets.
THEOREM BrokerTypeOK == Spec => []TypeOK
BY InitType, NextType, PTL DEF Spec

-----------------------------------------------------------------------------
(* Nothing is left of a connection that has ended *)

\* What a reader has yet to send, by its phase: nothing but the Disconnect once
\* reader_loop has ended.
Leaving ==
    \A c \in Conn :
        /\ \A i \in 1..Len(sending[c]) : sending[c][i].id = c
        /\ sending[c] = <<>> => next[c] = 0
        /\ phase[c] = "closing" =>
             sending[c] = <<>> \/ sending[c] = << [type |-> "Disconnect", id |-> c] >>
        /\ phase[c] = "closed" => sending[c] = <<>>
        /\ phase[c] # "reading" => ack[c] = NoAck

\* Once the Disconnect of c is sent to a shard, it is the last message of c in
\* the channel of the shard.
DisconnectLast ==
    \A c \in Conn, s \in Shard :
        DisconnectSent(c, s) =>
            \A i \in 1..Len(inbox[s]) :
                inbox[s][i].id = c /\ inbox[s][i].type # "Disconnect" =>
                    \E k \in 1..Len(inbox[s]) : k > i /\ inbox[s][k].id = c

\* A replay goes to a client the shard knows.
ReplayToClient ==
    \A s \in Shard : job[s].op = "replay" => job[s].to \in clients[s]

LInv == TypeOK /\ Leaving /\ DisconnectLast /\ NoResidue /\ ReplayToClient

LEMMA InitLInv == Init => LInv
<1> SUFFICES ASSUME Init PROVE LInv
  OBVIOUS
<1>1. Leaving
  <2> SUFFICES ASSUME NEW c \in Conn
               PROVE  /\ sending[c] = <<>> /\ next[c] = 0
                      /\ phase[c] = "reading" /\ ack[c] = NoAck
    <3>1. \A i \in 1..Len(<<>>) : FALSE
      OBVIOUS
    <3> QED
      BY <3>1 DEF Leaving
  <2> QED
    BY DEF Init
<1>2. \A c \in Conn, s \in Shard : ~ DisconnectSent(c, s)
  BY DEF Init, DisconnectSent
<1>3. ReplayToClient
  BY DEF Init, ReplayToClient, Idle
<1> QED
  BY <1>1, <1>2, <1>3, InitType DEF LInv, DisconnectLast, NoResidue, Gone

\* What a reader that gets a packet leaves behind: messages of its own, or the
\* Disconnect alone.
LEMMA DispatchEffect ==
    ASSUME LInv, NEW c \in Conn, NEW pkt, Dispatch(c, pkt)
    PROVE  \E ms \in Seq(Message), a \in Event \cup {NoAck} :
             /\ phase[c] = "reading" /\ next[c] = 0
             /\ UNCHANGED <<inbox, clients, topics, job, next>>
             /\ \A i \in 1..Len(ms) : ms[i].id = c
             /\ sending' = [sending EXCEPT ![c] = ms]
             /\ ack' = [ack EXCEPT ![c] = a]
             /\ \/ phase' = phase
                \/ /\ phase' = [phase EXCEPT ![c] = "closing"]
                   /\ ms = << [type |-> "Disconnect", id |-> c] >>
                   /\ a = NoAck
<1> USE DEF Begin, shardVars
<1>0. TypeOK /\ Leaving
  BY DEF LInv
<1>1. /\ phase[c] = "reading" /\ sending[c] = <<>> /\ ack[c] = NoAck
      /\ pkt \in ClientPacket /\ nread[c] + 1 \in Nat
  <2>1. Decoded(c, pkt)
    BY DEF Dispatch, ReadConnect, ReadSubscribe, ReadUnsubscribe, ReadPublish,
           ReadPing, ReadPuback, ReadHangup
  <2> QED
    BY <1>0, <2>1, DecodedPacket DEF Decoded, AtRead
<1>2. next[c] = 0
  BY <1>0, <1>1 DEF Leaving
<1>3. /\ sending = [sending EXCEPT ![c] = <<>>] /\ ack = [ack EXCEPT ![c] = NoAck]
  BY <1>0, <1>1 DEF TypeOK
<1>4. << >> \in Seq(Message) /\ \A i \in 1..Len(<< >>) : << >>[i].id = c
  OBVIOUS
<1> DEFINE Done(ms, a) ==
             /\ UNCHANGED <<inbox, clients, topics, job, next>>
             /\ \A i \in 1..Len(ms) : ms[i].id = c
             /\ sending' = [sending EXCEPT ![c] = ms]
             /\ ack' = [ack EXCEPT ![c] = a]
             /\ \/ phase' = phase
                \/ /\ phase' = [phase EXCEPT ![c] = "closing"]
                   /\ ms = << [type |-> "Disconnect", id |-> c] >>
                   /\ a = NoAck
<1>5. \E ms \in Seq(Message), a \in Event \cup {NoAck} : Done(ms, a)
  <2>1. CASE ReadConnect(c, pkt)
    <3> DEFINE ms == << [type |-> "Register", id |-> c] >>
               a == [type |-> "CONNACK", pid |-> nread[c] + 1]
    <3>1. ms \in Seq(Message) /\ a \in Event
      BY <1>1 DEF Message, Event
    <3>2. Done(ms, a)
      BY <2>1 DEF ReadConnect
    <3> QED
      BY <3>1, <3>2
  <2>2. CASE ReadSubscribe(c, pkt)
    <3> DEFINE ms == [i \in 1..Len(pkt.filters) |->
                        [type |-> "Subscribe", id |-> c, topic |-> pkt.filters[i]]]
               a == [type |-> "SUBACK", pid |-> nread[c] + 1]
    <3>0. pkt.filters \in Seq(Filter)
      BY <1>1, <2>2, PacketCases DEF ReadSubscribe
    <3>1. ms \in Seq(Message) /\ a \in Event
      BY <1>1, <3>0, MessagesOfFilters DEF Event
    <3>2. \A i \in 1..Len(ms) : ms[i].id = c
      BY <3>0
    <3>3. Done(ms, a)
      BY <2>2, <3>2 DEF ReadSubscribe
    <3> QED
      BY <3>1, <3>3
  <2>3. CASE ReadUnsubscribe(c, pkt)
    <3> DEFINE ms == [i \in 1..Len(pkt.filters) |->
                        [type |-> "Unsubscribe", id |-> c, topic |-> pkt.filters[i]]]
               a == [type |-> "UNSUBACK", pid |-> nread[c] + 1]
    <3>0. pkt.filters \in Seq(Filter)
      BY <1>1, <2>3, PacketCases DEF ReadUnsubscribe
    <3>1. ms \in Seq(Message) /\ a \in Event
      BY <1>1, <3>0, MessagesOfFilters DEF Event
    <3>2. \A i \in 1..Len(ms) : ms[i].id = c
      BY <3>0
    <3>3. Done(ms, a)
      BY <2>3, <3>2 DEF ReadUnsubscribe
    <3> QED
      BY <3>1, <3>3
  <2>4. CASE ReadPublish(c, pkt)
    <3> DEFINE ms == << [type |-> "Publish", id |-> c,
                         packet |-> Published(c, nread[c] + 1, pkt)] >>
    <3>1. Published(c, nread[c] + 1, pkt) \in Packet
      BY <1>1, <2>4, PacketCases DEF ReadPublish, Published, Packet
    <3>2. ms \in Seq(Message)
      BY <3>1 DEF Message
    <3>3. Done(ms, NoAck)
      BY <2>4 DEF ReadPublish
    <3> QED
      BY <3>2, <3>3
  <2>5. CASE ReadPing(c, pkt) \/ ReadPuback(c, pkt)
    <3>1. Done(<< >>, NoAck)
      BY <1>3, <1>4, <2>5 DEF ReadPing, ReadPuback
    <3> QED
      BY <1>4, <3>1
  <2>6. CASE ReadHangup(c, pkt)
    <3> DEFINE ms == << [type |-> "Disconnect", id |-> c] >>
    <3>1. ms \in Seq(Message)
      BY DEF Message
    <3>2. Done(ms, NoAck)
      BY <1>3, <2>6 DEF ReadHangup
    <3> QED
      BY <3>1, <3>2
  <2> QED
    BY <2>1, <2>2, <2>3, <2>4, <2>5, <2>6 DEF Dispatch
<1> QED
  BY <1>1, <1>2, <1>5

LEMMA DispatchLInv ==
    ASSUME LInv, NEW c \in Conn, NEW pkt, Dispatch(c, pkt)
    PROVE  LInv'
<1>0. TypeOK /\ Leaving /\ DisconnectLast /\ NoResidue /\ ReplayToClient
  BY DEF LInv
<1>1. PICK ms \in Seq(Message), a \in Event \cup {NoAck} :
             /\ phase[c] = "reading" /\ next[c] = 0
             /\ UNCHANGED <<inbox, clients, topics, job, next>>
             /\ \A i \in 1..Len(ms) : ms[i].id = c
             /\ sending' = [sending EXCEPT ![c] = ms]
             /\ ack' = [ack EXCEPT ![c] = a]
             /\ \/ phase' = phase
                \/ /\ phase' = [phase EXCEPT ![c] = "closing"]
                   /\ ms = << [type |-> "Disconnect", id |-> c] >>
                   /\ a = NoAck
  BY DispatchEffect
<1>2. TypeOK'
  BY <1>0, DispatchType
<1>3. Leaving'
  <2> SUFFICES ASSUME NEW d \in Conn
               PROVE  /\ \A i \in 1..Len(sending'[d]) : sending'[d][i].id = d
                      /\ sending'[d] = <<>> => next'[d] = 0
                      /\ phase'[d] = "closing" =>
                           \/ sending'[d] = <<>>
                           \/ sending'[d] = << [type |-> "Disconnect", id |-> d] >>
                      /\ phase'[d] = "closed" => sending'[d] = <<>>
                      /\ phase'[d] # "reading" => ack'[d] = NoAck
    BY DEF Leaving
  <2>1. CASE d = c
    <3>1. sending'[c] = ms /\ ack'[c] = a /\ next'[c] = 0
      BY <1>0, <1>1 DEF TypeOK
    <3>2. \/ phase'[c] = "reading"
          \/ /\ phase'[c] = "closing" /\ a = NoAck
             /\ ms = << [type |-> "Disconnect", id |-> c] >>
      BY <1>0, <1>1 DEF TypeOK
    <3> QED
      BY <1>1, <2>1, <3>1, <3>2
  <2>2. CASE d # c
    <3>1. /\ sending'[d] = sending[d] /\ ack'[d] = ack[d] /\ next'[d] = next[d]
          /\ phase'[d] = phase[d]
      BY <1>0, <1>1, <2>2 DEF TypeOK
    <3> QED
      BY <1>0, <3>1 DEF Leaving
  <2> QED
    BY <2>1, <2>2
<1>4. \A d \in Conn, s \in Shard : DisconnectSent(d, s)' => DisconnectSent(d, s)
  <2> SUFFICES ASSUME NEW d \in Conn, NEW s \in Shard, DisconnectSent(d, s)'
               PROVE  DisconnectSent(d, s)
    OBVIOUS
  <2>1. CASE d = c
    <3>1. sending'[c] = ms /\ next'[c] = 0 /\ ~(0 > s)
      BY <1>0, <1>1 DEF TypeOK, Shard
    <3>2. \/ phase'[c] = "reading"
          \/ /\ phase'[c] = "closing"
             /\ ms = << [type |-> "Disconnect", id |-> c] >>
      BY <1>0, <1>1 DEF TypeOK
    <3>3. << [type |-> "Disconnect", id |-> c] >> # <<>>
      OBVIOUS
    <3> QED
      BY <2>1, <3>1, <3>2, <3>3 DEF DisconnectSent
  <2>2. CASE d # c
    <3>1. /\ sending'[d] = sending[d] /\ next'[d] = next[d] /\ phase'[d] = phase[d]
      BY <1>0, <1>1, <2>2 DEF TypeOK
    <3> QED
      BY <3>1 DEF DisconnectSent
  <2> QED
    BY <2>1, <2>2
<1>5. DisconnectLast'
  BY <1>0, <1>1, <1>4 DEF DisconnectLast
<1>6. NoResidue' /\ ReplayToClient'
  BY <1>0, <1>1, <1>4 DEF NoResidue, Gone, InInbox, Forgotten, ReplayToClient
<1> QED
  BY <1>2, <1>3, <1>5, <1>6 DEF LInv

LEMMA SendLInv ==
    ASSUME LInv, NEW c \in Conn, Send(c)
    PROVE  LInv'
<1>0. TypeOK /\ Leaving /\ DisconnectLast /\ NoResidue /\ ReplayToClient
  BY DEF LInv
<1>1. PICK m \in Message, s \in Shard :
             /\ sending[c] # <<>> /\ m = Head(sending[c])
             /\ s = IF Broadcast(m) THEN next[c] ELSE HomeShard(m)
             /\ inbox' = [inbox EXCEPT ![s] = Append(inbox[s], m)]
             /\ IF Broadcast(m) /\ next[c] + 1 < N
                THEN /\ next' = [next EXCEPT ![c] = next[c] + 1]
                     /\ next[c] + 1 \in Shard
                     /\ sending' = sending
                ELSE /\ next' = [next EXCEPT ![c] = 0]
                     /\ sending' = [sending EXCEPT ![c] = Tail(sending[c])]
             /\ UNCHANGED <<shardVars, outbound, phase, ack, nread>>
  BY <1>0, SendStep
<1>2. TypeOK'
  BY <1>0, ReaderType DEF ReaderStep
<1>3. sending[c] \in Seq(Message) /\ next[c] \in Shard /\ Len(sending[c]) > 0
  BY <1>0, <1>1 DEF TypeOK
<1>4. m.id = c
  <2>1. 1 \in 1..Len(sending[c]) /\ Head(sending[c]) = sending[c][1]
    BY <1>1, <1>3
  <2>2. \A i \in 1..Len(sending[c]) : sending[c][i].id = c
    BY <1>0 DEF Leaving
  <2> QED
    BY <1>1, <2>1, <2>2
<1>5. \A i \in 1..Len(Tail(sending[c])) : Tail(sending[c])[i].id = c
  <2>1. \A i \in 1..Len(sending[c]) : sending[c][i].id = c
    BY <1>0 DEF Leaving
  <2>2. \A i \in 1..Len(Tail(sending[c])) :
          Tail(sending[c])[i] = sending[c][i + 1] /\ i + 1 \in 1..Len(sending[c])
    BY <1>1, <1>3, HeadTailProperties
  <2> QED
    BY <2>1, <2>2
<1>6. phase[c] = "closing" => /\ m = [type |-> "Disconnect", id |-> c]
                              /\ Tail(sending[c]) = <<>>
  <2> SUFFICES ASSUME phase[c] = "closing"
               PROVE  m = [type |-> "Disconnect", id |-> c] /\ Tail(sending[c]) = <<>>
    OBVIOUS
  <2>1. sending[c] = << [type |-> "Disconnect", id |-> c] >>
    BY <1>0, <1>1 DEF Leaving
  <2> QED
    BY <1>1, <2>1
<1>7. phase[c] # "closed"
  BY <1>0, <1>1 DEF Leaving
<1>8. \A d \in Conn : d # c => sending'[d] = sending[d] /\ next'[d] = next[d]
  BY <1>0, <1>1 DEF TypeOK
<1>9. \/ sending'[c] = sending[c] /\ next'[c] = next[c] + 1
      \/ sending'[c] = Tail(sending[c]) /\ next'[c] = 0
  BY <1>0, <1>1 DEF TypeOK
<1>10. phase' = phase /\ ack' = ack /\ UNCHANGED <<clients, topics, job>>
  BY <1>1 DEF shardVars
<1>11. Leaving'
  <2> SUFFICES ASSUME NEW d \in Conn
               PROVE  /\ \A i \in 1..Len(sending'[d]) : sending'[d][i].id = d
                      /\ sending'[d] = <<>> => next'[d] = 0
                      /\ phase'[d] = "closing" =>
                           \/ sending'[d] = <<>>
                           \/ sending'[d] = << [type |-> "Disconnect", id |-> d] >>
                      /\ phase'[d] = "closed" => sending'[d] = <<>>
                      /\ phase'[d] # "reading" => ack'[d] = NoAck
    BY DEF Leaving
  <2>1. CASE d = c
    <3>1. CASE sending'[c] = sending[c]
      BY <1>0, <1>1, <1>10, <2>1, <3>1 DEF Leaving
    <3>2. CASE sending'[c] = Tail(sending[c]) /\ next'[c] = 0
      BY <1>0, <1>5, <1>6, <1>7, <1>10, <2>1, <3>2 DEF Leaving
    <3> QED
      BY <1>9, <3>1, <3>2
  <2>2. CASE d # c
    BY <1>0, <1>8, <1>10, <2>2 DEF Leaving
  <2> QED
    BY <2>1, <2>2
\* the Disconnect of c reaches shard s, and no other
<1>12. \A d \in Conn, t \in Shard :
         DisconnectSent(d, t)' =>
           \/ DisconnectSent(d, t) /\ d # c
           \/ DisconnectSent(d, t) /\ t # s
           \/ d = c /\ t = s /\ m.type = "Disconnect"
  <2> SUFFICES ASSUME NEW d \in Conn, NEW t \in Shard, DisconnectSent(d, t)'
               PROVE  \/ DisconnectSent(d, t) /\ d # c
                      \/ DisconnectSent(d, t) /\ t # s
                      \/ d = c /\ t = s /\ m.type = "Disconnect"
    OBVIOUS
  <2>1. CASE d # c
    BY <1>8, <1>10, <2>1 DEF DisconnectSent
  <2>2. CASE d = c
    <3>1. phase[c] = "closing"
      BY <1>7, <1>10, <2>2 DEF DisconnectSent
    <3>2. m.type = "Disconnect" /\ Broadcast(m) /\ s = next[c]
      <4>1. m.type = "Disconnect"
        BY <1>6, <3>1
      <4>2. Broadcast(m)
        BY <4>1 DEF Broadcast
      <4>3. s = IF Broadcast(m) THEN next[c] ELSE HomeShard(m)
        BY <1>1
      <4> QED
        BY <4>1, <4>2, <4>3
    <3>3. t \in 0..(N - 1) /\ next[c] \in 0..(N - 1) /\ N \in Nat
      BY <1>3, ShardFacts DEF Shard
    <3>4. CASE next[c] + 1 < N
      <4>1. next'[c] = next[c] + 1 /\ sending'[c] # <<>>
        BY <1>0, <1>1, <3>2, <3>4 DEF TypeOK
      <4>2. next[c] + 1 > t
        BY <1>10, <2>2, <3>1, <4>1 DEF DisconnectSent
      <4>3. t = s \/ next[c] > t
        BY <3>2, <3>3, <4>2
      <4>4. next[c] > t => t # s
        BY <3>2, <3>3
      <4> QED
        BY <2>2, <3>1, <3>2, <4>3, <4>4 DEF DisconnectSent
    <3>5. CASE ~(next[c] + 1 < N)
      <4>1. t = s \/ next[c] > t
        BY <3>2, <3>3, <3>5
      <4>2. next[c] > t => t # s
        BY <3>2, <3>3
      <4> QED
        BY <2>2, <3>1, <3>2, <4>1, <4>2 DEF DisconnectSent
    <3> QED
      BY <3>4, <3>5
  <2> QED
    BY <2>1, <2>2
<1>13. \A t \in Shard : t # s => inbox'[t] = inbox[t]
  BY <1>0, <1>1 DEF TypeOK
<1>14. /\ inbox[s] \in Seq(Message) /\ Len(inbox[s]) \in Nat
       /\ inbox'[s] = Append(inbox[s], m)
  BY <1>0, <1>1 DEF TypeOK
<1>15. /\ Len(inbox'[s]) = Len(inbox[s]) + 1
       /\ inbox'[s][Len(inbox[s]) + 1] = m
       /\ \A i \in 1..Len(inbox[s]) : inbox'[s][i] = inbox[s][i]
  BY <1>14, AppendProperties
\* c still sends: its Disconnect has not gone to shard s
<1>16. DisconnectSent(c, s) => m.type = "Disconnect"
  BY <1>6, <1>7 DEF DisconnectSent
<1>17. DisconnectLast'
  <2> SUFFICES ASSUME NEW d \in Conn, NEW t \in Shard, DisconnectSent(d, t)',
                      NEW i \in 1..Len(inbox'[t]),
                      inbox'[t][i].id = d, inbox'[t][i].type # "Disconnect"
               PROVE  \E k \in 1..Len(inbox'[t]) : k > i /\ inbox'[t][k].id = d
    BY DEF DisconnectLast
  <2>1. CASE t # s
    BY <1>0, <1>12, <1>13, <2>1 DEF DisconnectLast
  <2>2. CASE t = s
    <3>1. CASE i = Len(inbox[s]) + 1
      BY <1>4, <1>12, <1>15, <2>2, <3>1
    <3>2. CASE i \in 1..Len(inbox[s])
      <4>1. CASE d = c
        <5>1. Len(inbox[s]) + 1 \in 1..Len(inbox'[s]) /\ Len(inbox[s]) + 1 > i
          BY <1>14, <1>15, <3>2
        <5> QED
          BY <1>4, <1>15, <2>2, <4>1, <5>1
      <4>2. CASE d # c
        <5>1. DisconnectSent(d, s)
          BY <1>12, <2>2, <4>2
        <5>2. PICK k \in 1..Len(inbox[s]) : k > i /\ inbox[s][k].id = d
          BY <1>0, <1>15, <2>2, <3>2, <5>1 DEF DisconnectLast
        <5>3. k \in 1..Len(inbox'[s]) /\ inbox'[s][k] = inbox[s][k]
          BY <1>14, <1>15, <5>2
        <5> QED
          BY <2>2, <5>2, <5>3
      <4> QED
        BY <4>1, <4>2
    <3> QED
      BY <1>14, <1>15, <2>2, <3>1, <3>2
  <2> QED
    BY <2>1, <2>2
<1>18. NoResidue'
  <2> SUFFICES ASSUME NEW d \in Conn, NEW t \in Shard, DisconnectSent(d, t)',
                      ~ InInbox(d, t)'
               PROVE  Forgotten(d, t)'
    BY DEF NoResidue, Gone
  <2>1. CASE t # s
    BY <1>0, <1>10, <1>12, <1>13, <2>1 DEF NoResidue, Gone, InInbox, Forgotten
  <2>2. CASE t = s
    <3>1. Len(inbox[s]) + 1 \in 1..Len(inbox'[s])
      BY <1>14, <1>15
    <3>2. d # c
      BY <1>4, <1>15, <2>2, <3>1 DEF InInbox
    <3>3. ~ InInbox(d, s)
      <4>1. \A i \in 1..Len(inbox[s]) : i \in 1..Len(inbox'[s])
        BY <1>14, <1>15
      <4> QED
        BY <1>15, <2>2, <4>1 DEF InInbox
    <3> QED
      BY <1>0, <1>10, <1>12, <2>2, <3>2, <3>3 DEF NoResidue, Gone, Forgotten
  <2> QED
    BY <2>1, <2>2
<1>19. ReplayToClient'
  BY <1>0, <1>10 DEF ReplayToClient
<1> QED
  BY <1>2, <1>11, <1>17, <1>18, <1>19 DEF LInv

LEMMA AnswerCloseLInv ==
    ASSUME LInv, NEW c \in Conn, Answer(c) \/ Close(c)
    PROVE  LInv'
<1>0. TypeOK /\ Leaving /\ DisconnectLast /\ NoResidue /\ ReplayToClient
  BY DEF LInv
<1>1. TypeOK'
  BY <1>0, ReaderType DEF ReaderStep
<1>2. UNCHANGED <<inbox, clients, topics, job, sending, next>>
  BY DEF Answer, Close, shardVars
<1>3. \A d \in Conn : /\ ack'[d] = ack[d] \/ ack'[d] = NoAck
                      /\ \/ phase'[d] = phase[d]
                         \/ /\ phase[d] = "closing" /\ phase'[d] = "closed"
                            /\ sending[d] = <<>>
  BY <1>0 DEF Answer, Close, TypeOK
<1>4. Leaving'
  BY <1>0, <1>2, <1>3 DEF Leaving
<1>5. \A d \in Conn, s \in Shard : DisconnectSent(d, s)' => DisconnectSent(d, s)
  BY <1>2, <1>3 DEF DisconnectSent
<1>6. DisconnectLast'
  BY <1>0, <1>2, <1>5 DEF DisconnectLast
<1>7. NoResidue' /\ ReplayToClient'
  BY <1>0, <1>2, <1>5 DEF NoResidue, Gone, InInbox, Forgotten, ReplayToClient
<1> QED
  BY <1>1, <1>4, <1>6, <1>7 DEF LInv

\* What handling a message does to the registry: only a Register or a Subscribe
\* of c makes an entry for c, and its Disconnect removes them all.
LEMMA HandleEffect ==
    ASSUME TypeOK, NEW s \in Shard, NEW m, Handle(s, m)
    PROVE  /\ Receive(s, m)
           /\ \A t \in Shard : t # s => /\ clients'[t] = clients[t]
                                        /\ topics'[t] = topics[t]
                                        /\ job'[t] = job[t]
           /\ \A c \in Conn : m.id # c /\ Forgotten(c, s) => Forgotten(c, s)'
           /\ m.type = "Disconnect" => Forgotten(m.id, s)'
           /\ job'[s].op = "replay" => job'[s].to \in clients'[s]
<1>0. Receive(s, m)
  BY DEF Handle, HandleRegister, HandleSubscribe, HandleUnsubscribe,
         HandlePublish, HandleDisconnect
<1>1. m \in Message /\ m.id \in Conn /\ job[s] = Idle
  BY <1>0, ReceiveType, MessageFields DEF Receive
<1>2. Idle.op # "replay"
  BY DEF Idle
<1>3. CASE HandleRegister(s, m)
  BY <1>0, <1>1, <1>2, <1>3 DEF HandleRegister, TypeOK, Forgotten
<1>4. CASE HandleSubscribe(s, m)
  <2>1. m.topic \in Filter /\ m.type # "Disconnect"
    BY <1>1, <1>4, MessageFields DEF HandleSubscribe
  <2>2. topics' = [topics EXCEPT ![s] =
                     [topics[s] EXCEPT ![m.topic] = Subscribed(topics[s][m.topic], m.id)]]
    BY <1>4, <2>1 DEF HandleSubscribe, TypeOK
  <2>3. \A c \in Conn, f \in Filter : m.id # c => topics'[s][f][c] = topics[s][f][c]
    BY <1>1, <2>1, <2>2 DEF Subscribed, TypeOK
  <2>4. /\ clients' = clients
        /\ job'[s] = IF m.id \in clients[s]
                     THEN Replay(m.id, RetainedFor(s, m.topic)) ELSE Idle
        /\ \A t \in Shard : t # s => job'[t] = job[t] /\ topics'[t] = topics[t]
    BY <1>4, <2>2 DEF HandleSubscribe, TypeOK
  <2>5. job'[s].op = "replay" => job'[s].to \in clients'[s]
    BY <1>2, <2>4 DEF Replay
  <2> QED
    BY <1>0, <2>1, <2>3, <2>4, <2>5 DEF Forgotten
<1>5. CASE HandleUnsubscribe(s, m)
  <2>1. m.topic \in Filter /\ m.type # "Disconnect"
    BY <1>1, <1>5, MessageFields DEF HandleUnsubscribe
  <2>2. topics' = [topics EXCEPT ![s] =
                     [topics[s] EXCEPT ![m.topic] = Removed(topics[s][m.topic], m.id)]]
    BY <1>5, <2>1 DEF HandleUnsubscribe, TypeOK
  <2>3. \A c \in Conn, f \in Filter : m.id # c => topics'[s][f][c] = topics[s][f][c]
    BY <1>1, <2>1, <2>2 DEF Removed, TypeOK
  <2>4. /\ clients' = clients /\ job' = job
        /\ \A t \in Shard : t # s => topics'[t] = topics[t]
    BY <1>5, <2>2 DEF HandleUnsubscribe, TypeOK
  <2> QED
    BY <1>0, <1>1, <1>2, <2>1, <2>3, <2>4 DEF Forgotten
<1>6. CASE HandlePublish(s, m)
  <2>1. /\ clients' = clients /\ topics' = topics /\ m.type # "Disconnect"
        /\ job'[s].op # "replay"
        /\ \A t \in Shard : t # s => job'[t] = job[t]
    BY <1>2, <1>6 DEF HandlePublish, TypeOK, FanOut
  <2> QED
    BY <1>0, <2>1 DEF Forgotten
<1>7. CASE HandleDisconnect(s, m)
  <2>1. /\ clients'[s] = clients[s] \ {m.id} /\ job' = job
        /\ topics'[s] = [f \in Filter |-> Removed(topics[s][f], m.id)]
        /\ \A t \in Shard : t # s => clients'[t] = clients[t] /\ topics'[t] = topics[t]
    BY <1>7 DEF HandleDisconnect, TypeOK
  <2>2. \A c \in Conn, f \in Filter :
          topics'[s][f][c] = IF c = m.id THEN 0 ELSE topics[s][f][c]
    BY <1>1, <2>1 DEF Removed, TypeOK
  <2> QED
    BY <1>0, <1>1, <1>2, <2>1, <2>2 DEF Forgotten
<1> QED
  BY <1>3, <1>4, <1>5, <1>6, <1>7 DEF Handle

LEMMA HandleLInv ==
    ASSUME LInv, NEW s \in Shard, NEW m, Handle(s, m)
    PROVE  LInv'
<1>0. TypeOK /\ Leaving /\ DisconnectLast /\ NoResidue /\ ReplayToClient
  BY DEF LInv
<1>1. TypeOK'
  BY <1>0, HandleType
<1>2. /\ m \in Message /\ inbox[s] \in Seq(Message) /\ inbox[s] # <<>>
      /\ m = Head(inbox[s]) /\ inbox' = [inbox EXCEPT ![s] = Tail(inbox[s])]
      /\ UNCHANGED readerVars
  BY <1>0, HandleEffect, ReceiveType DEF TypeOK
<1>3. /\ inbox'[s] = Tail(inbox[s]) /\ \A t \in Shard : t # s => inbox'[t] = inbox[t]
  BY <1>0, <1>2 DEF TypeOK
<1>4. /\ Len(inbox[s]) \in Nat /\ Len(inbox[s]) >= 1 /\ m = inbox[s][1]
      /\ Len(inbox'[s]) = Len(inbox[s]) - 1
      /\ \A i \in 1..Len(inbox'[s]) : inbox'[s][i] = inbox[s][i + 1]
  <2>1. /\ Len(inbox[s]) \in Nat /\ Len(inbox[s]) # 0 /\ m = inbox[s][1]
    BY <1>2
  <2>2. /\ Len(Tail(inbox[s])) = Len(inbox[s]) - 1
        /\ \A i \in 1..Len(Tail(inbox[s])) : Tail(inbox[s])[i] = inbox[s][i + 1]
    BY <1>2, HeadTailProperties
  <2> QED
    BY <1>3, <2>1, <2>2
<1>5. Leaving'
  BY <1>0, <1>2 DEF Leaving, readerVars
<1>6. \A d \in Conn, t \in Shard : DisconnectSent(d, t)' <=> DisconnectSent(d, t)
  BY <1>2 DEF DisconnectSent, readerVars
<1>7. DisconnectLast'
  <2> SUFFICES ASSUME NEW d \in Conn, NEW t \in Shard, DisconnectSent(d, t),
                      NEW i \in 1..Len(inbox'[t]),
                      inbox'[t][i].id = d, inbox'[t][i].type # "Disconnect"
               PROVE  \E k \in 1..Len(inbox'[t]) : k > i /\ inbox'[t][k].id = d
    BY <1>6 DEF DisconnectLast
  <2>1. CASE t # s
    BY <1>0, <1>3, <2>1 DEF DisconnectLast
  <2>2. CASE t = s
    <3>1. i + 1 \in 1..Len(inbox[s]) /\ inbox'[s][i] = inbox[s][i + 1]
      BY <1>4, <2>2
    <3>2. PICK k \in 1..Len(inbox[s]) : k > i + 1 /\ inbox[s][k].id = d
      BY <1>0, <2>2, <3>1 DEF DisconnectLast
    <3>3. k - 1 \in 1..Len(inbox'[s]) /\ k - 1 > i /\ (k - 1) + 1 = k
      <4>1. /\ i \in Nat /\ k \in Nat /\ k > i + 1 /\ k <= Len(inbox[s])
            /\ Len(inbox'[s]) = Len(inbox[s]) - 1 /\ Len(inbox[s]) \in Nat
        BY <1>4, <2>2, <3>2
      <4> QED
        BY <4>1
    <3>4. inbox'[s][k - 1] = inbox[s][k]
      BY <1>4, <3>3
    <3> QED
      BY <2>2, <3>2, <3>3, <3>4
  <2> QED
    BY <2>1, <2>2
<1>8. NoResidue'
  <2> SUFFICES ASSUME NEW d \in Conn, NEW t \in Shard, DisconnectSent(d, t),
                      ~ InInbox(d, t)'
               PROVE  Forgotten(d, t)'
    BY <1>6 DEF NoResidue, Gone
  <2>1. CASE t # s
    BY <1>0, <1>3, <2>1, HandleEffect DEF NoResidue, Gone, InInbox, Forgotten
  <2>2. CASE t = s
    <3>1. \A k \in 1..Len(inbox[s]) : k > 1 => inbox[s][k].id # d
      <4> SUFFICES ASSUME NEW k \in 1..Len(inbox[s]), k > 1, inbox[s][k].id = d
                   PROVE  FALSE
        OBVIOUS
      <4>1. k - 1 \in 1..Len(inbox'[s]) /\ (k - 1) + 1 = k
        BY <1>4
      <4>2. inbox'[s][k - 1].id = d
        BY <1>4, <4>1
      <4> QED
        BY <2>2, <4>1, <4>2 DEF InInbox
    <3>2. CASE m.id = d
      <4>1. 1 \in 1..Len(inbox[s])
        BY <1>4
      <4>2. m.type = "Disconnect"
        BY <1>0, <1>4, <2>2, <3>1, <3>2, <4>1 DEF DisconnectLast
      <4> QED
        BY <1>0, <2>2, <3>2, <4>2, HandleEffect
    <3>3. CASE m.id # d
      <4>1. ~ InInbox(d, s)
        <5>1. \A k \in 1..Len(inbox[s]) : k = 1 \/ k > 1
          BY <1>4
        <5> QED
          BY <1>4, <3>1, <3>3, <5>1 DEF InInbox
      <4>2. Forgotten(d, s)
        BY <1>0, <2>2, <4>1 DEF NoResidue, Gone
      <4> QED
        BY <1>0, <2>2, <3>3, <4>2, HandleEffect
    <3> QED
      BY <3>2, <3>3
  <2> QED
    BY <2>1, <2>2
<1>9. ReplayToClient'
  BY <1>0, HandleEffect DEF ReplayToClient
<1> QED
  BY <1>1, <1>5, <1>7, <1>8, <1>9 DEF LInv

\* The steps in the middle of a message change neither registry nor channels.
LEMMA JobLInv ==
    ASSUME LInv, NEW s \in Shard, TypeOK',
           \/ \E p \in job[s].packets : PushReplay(s, p)
           \/ \E c \in Conn : FanOutVisit(s, c)
           \/ \E f \in job[s].wild : FanOutFilter(s, f)
    PROVE  LInv'
<1>0. TypeOK /\ Leaving /\ DisconnectLast /\ NoResidue /\ ReplayToClient
  BY DEF LInv
<1>1. UNCHANGED <<inbox, clients, topics, readerVars>>
  BY DEF PushReplay, FanOutVisit, FanOutFilter
<1>2. Leaving' /\ DisconnectLast' /\ NoResidue'
  BY <1>0, <1>1 DEF readerVars, Leaving, DisconnectLast, NoResidue, Gone, InInbox,
                    Forgotten, DisconnectSent
<1>3. \A t \in Shard : t # s => job'[t] = job[t]
  BY <1>0 DEF PushReplay, FanOutVisit, FanOutFilter, TypeOK
<1>4. job'[s].op = "replay" => job'[s].to \in clients[s]
  <2>1. CASE \E p \in job[s].packets : PushReplay(s, p)
    <3>1. PICK p : PushReplay(s, p)
      BY <2>1
    <3>2. job[s].to \in clients[s]
      BY <1>0, <3>1 DEF ReplayToClient, PushReplay
    <3>3. job'[s] = Replay(job[s].to, job[s].packets \ {p})
      BY <1>0, <3>1 DEF PushReplay, TypeOK
    <3> QED
      BY <3>2, <3>3 DEF Replay, Idle
  <2>2. CASE \E c \in Conn : FanOutVisit(s, c)
    <3>1. job'[s].op # "replay"
      BY <1>0, <2>2 DEF FanOutVisit, TypeOK, FanOut, Idle
    <3> QED
      BY <3>1
  <2>3. CASE \E f \in job[s].wild : FanOutFilter(s, f)
    <3>1. job'[s].op # "replay"
      BY <1>0, <2>3 DEF FanOutFilter, TypeOK, FanOut, Idle
    <3> QED
      BY <3>1
  <2> QED
    BY <2>1, <2>2, <2>3
<1>5. ReplayToClient'
  BY <1>0, <1>1, <1>3, <1>4 DEF ReplayToClient
<1> QED
  BY <1>2, <1>5 DEF LInv

LEMMA NextLInv == LInv /\ [Next]_vars => LInv'
<1> SUFFICES ASSUME LInv, [Next]_vars PROVE LInv'
  OBVIOUS
<1>0. TypeOK'
  BY NextType DEF LInv
<1>1. CASE UNCHANGED vars
  BY <1>0, <1>1 DEF vars, LInv, Leaving, DisconnectLast, NoResidue, ReplayToClient,
                    Gone, InInbox, Forgotten, DisconnectSent
<1>2. ASSUME NEW c \in Conn, ClientStep(c) PROVE LInv'
  BY <1>2, DispatchLInv DEF ClientStep
<1>3. ASSUME NEW c \in Conn, ReaderStep(c) PROVE LInv'
  BY <1>3, SendLInv, AnswerCloseLInv DEF ReaderStep
<1>4. ASSUME NEW s \in Shard, ShardStep(s) PROVE LInv'
  BY <1>0, <1>4, HandleLInv, JobLInv DEF ShardStep
<1> QED
  BY <1>1, <1>2, <1>3, <1>4 DEF Next

LEMMA LInvariant == Spec => []LInv
<1>1. Init => LInv
  BY InitLInv
<1> QED
  BY <1>1, NextLInv, PTL DEF Spec

\* A connection that has ended leaves no entry in the clients map or in a
\* subscriber list of a shard that has handled its Disconnect, in whatever order
\* the shards and the other connections take their steps.
THEOREM BrokerNoResidue == Spec => []NoResidue
<1>1. LInv => NoResidue
  BY DEF LInv
<1> QED
  BY <1>1, LInvariant, PTL

\* Once every shard has handled the Disconnect of a connection, nothing is
\* pushed onto its closed queue any more.
THEOREM BrokerNoPushAfterCleanup == Spec => NoPushAfterCleanup
<1> DEFINE Quiet == \A c \in Conn :
                      phase[c] = "closed" /\ (\A s \in Shard : Gone(c, s)) =>
                         outbound'[c] = outbound[c]
<1>1. LInv /\ [Next]_vars => [Quiet]_vars
  <2> SUFFICES ASSUME LInv, Next, NEW c \in Conn, phase[c] = "closed",
                      \A s \in Shard : Gone(c, s)
               PROVE  outbound'[c] = outbound[c]
    OBVIOUS
  <2>0. TypeOK /\ Leaving /\ NoResidue /\ ReplayToClient
    BY DEF LInv
  <2>1. \A s \in Shard : c \notin clients[s]
    BY <2>0 DEF NoResidue, Forgotten
  <2>2. ASSUME NEW d \in Conn, ClientStep(d) PROVE outbound'[c] = outbound[c]
    <3>1. PICK pkt : Dispatch(d, pkt)
      BY <2>2 DEF ClientStep
    <3>2. d # c
      BY <3>1 DEF Dispatch, ReadConnect, ReadSubscribe, ReadUnsubscribe, ReadPublish,
                  ReadPing, ReadPuback, ReadHangup, Decoded, AtRead
    <3>3. outbound' = outbound \/ \E e : PushTo(d, e)
      BY <3>1 DEF Dispatch, ReadConnect, ReadSubscribe, ReadUnsubscribe, ReadPublish,
                  ReadPing, ReadPuback, ReadHangup
    <3> QED
      BY <2>0, <3>2, <3>3 DEF PushTo, TypeOK
  <2>3. ASSUME NEW d \in Conn, ReaderStep(d) PROVE outbound'[c] = outbound[c]
    <3>1. CASE Send(d) \/ Close(d)
      BY <3>1 DEF Send, Close
    <3>2. CASE Answer(d)
      <4>1. d # c
        BY <2>0, <3>2 DEF Answer, Leaving
      <4> QED
        BY <2>0, <3>2, <4>1 DEF Answer, PushTo, TypeOK
    <3> QED
      BY <2>3, <3>1, <3>2 DEF ReaderStep
  <2>4. ASSUME NEW s \in Shard, ShardStep(s) PROVE outbound'[c] = outbound[c]
    <3>1. CASE Handle(s, Head(inbox[s]))
      BY <3>1 DEF Handle, HandleRegister, HandleSubscribe, HandleUnsubscribe,
                  HandlePublish, HandleDisconnect
    <3>2. ASSUME NEW p, PushReplay(s, p) PROVE outbound'[c] = outbound[c]
      <4>1. job[s].to # c
        BY <2>0, <2>1, <3>2 DEF PushReplay, ReplayToClient
      <4> QED
        BY <2>0, <3>2, <4>1 DEF PushReplay, PushTo, TypeOK
    <3>3. ASSUME NEW d \in Conn, FanOutVisit(s, d) PROVE outbound'[c] = outbound[c]
      <4>1. CASE Skipped(s, d)
        BY <3>3, <4>1 DEF FanOutVisit
      <4>2. CASE ~ Skipped(s, d)
        <5>1. d # c
          BY <2>1, <4>2 DEF Skipped
        <5> QED
          BY <2>0, <3>3, <4>2, <5>1 DEF FanOutVisit, PushTo, TypeOK
      <4> QED
        BY <4>1, <4>2
    <3>4. ASSUME NEW f, FanOutFilter(s, f) PROVE outbound'[c] = outbound[c]
      BY <3>4 DEF FanOutFilter
    <3> QED
      BY <2>4, <3>1, <3>2, <3>3, <3>4 DEF ShardStep
  <2> QED
    BY <2>2, <2>3, <2>4 DEF Next
<1> QED
  BY <1>1, LInvariant, PTL DEF Spec, NoPushAfterCleanup

-----------------------------------------------------------------------------
(***************************************************************************)
(* The order and the multiplicity of deliveries: no publish reaches a      *)
(* subscriber twice, the publishes to a topic reach all its subscribers in *)
(* one order, and those of one publisher in the order it sent them.        *)
(*                                                                         *)
(* The argument follows a publish p through the places it can be in: the   *)
(* channel of a shard (QueuedAt), the fan-out of that shard (FanningAt),   *)
(* the outbound queue of a subscriber (LiveAt).                            *)
(***************************************************************************)

\* The publish p is the i-th message in the channel of shard s, is being fanned
\* out by s, has been pushed live to c as its k-th event.
QueuedAt(s, i, p) ==
    i \in 1..Len(inbox[s]) /\ inbox[s][i].type = "Publish" /\ inbox[s][i].packet = p
FanningAt(s, p) == job[s].op = "fanout" /\ job[s].packet = p
LiveAt(c, k, p) == k \in Pushes(c) /\ IsLive(c, k) /\ PacketAt(c, k) = p

\* The publish p has been handed to the channel of a shard.
HandedOver(p) ==
    \/ \E s \in Shard, i \in Nat : QueuedAt(s, i, p)
    \/ \E s \in Shard : FanningAt(s, p)
    \/ \E c \in Conn, k \in Nat : LiveAt(c, k, p)

HoldsPublish(c) == \E i \in 1..Len(sending[c]) : sending[c][i].type = "Publish"

\* A reader hands over one publish at a time, and numbers them as it reads.
Numbering ==
    /\ \A c \in Conn : \A i \in 1..Len(sending[c]) :
         sending[c][i].type = "Publish" =>
            /\ Len(sending[c]) = 1
            /\ sending[c][i].packet.from = c
            /\ sending[c][i].packet.n = nread[c]
    /\ \A p \in Packet : HandedOver(p) =>
         /\ p.n <= nread[p.from]
         /\ HoldsPublish(p.from) => p.n < nread[p.from]
    /\ \A p, q \in Packet :
         HandedOver(p) /\ HandedOver(q) /\ SamePublish(p, q) => p = q

\* The publishes to a topic stay on its shard, and those of one publisher keep
\* their order from the channel through the fan-out to the subscribers.
ShardOrder ==
    /\ \A s \in Shard, i \in Nat, p \in Packet :
         QueuedAt(s, i, p) => shard_for_topic(p.topic) = s
    /\ \A s \in Shard, p \in Packet :
         FanningAt(s, p) => shard_for_topic(p.topic) = s
    /\ \A s \in Shard, i, j \in Nat, p, q \in Packet :
         i < j /\ p.from = q.from /\ QueuedAt(s, i, p) /\ QueuedAt(s, j, q) => p.n < q.n
    /\ \A s \in Shard, i \in Nat, p, q \in Packet :
         FanningAt(s, p) /\ p.from = q.from /\ QueuedAt(s, i, q) => p.n < q.n
    /\ \A c \in Conn, s \in Shard, k, i \in Nat, p, q \in Packet :
         /\ LiveAt(c, k, p) /\ QueuedAt(s, i, q)
         /\ shard_for_topic(p.topic) = s /\ p.from = q.from
         => p.n < q.n
    /\ \A c \in Conn, s \in Shard, k \in Nat, p, q \in Packet :
         /\ LiveAt(c, k, p) /\ FanningAt(s, q)
         /\ shard_for_topic(p.topic) = s /\ p.from = q.from
         => p.n <= q.n

\* What a fan-out remembers: who has got its packet is in notified, has no
\* entry left in the exact pass, and has got nothing else from this shard since.
FanOutMemory ==
    /\ \A s \in Shard, c \in Conn, k \in Nat, p \in Packet :
         FanningAt(s, p) /\ LiveAt(c, k, p) => c \in job[s].notified
    /\ \A s \in Shard, c \in Conn :
         job[s].op = "fanout" /\ job[s].exact /\ c \in job[s].notified =>
            job[s].todo[c] = 0
    /\ \A s \in Shard, c \in Conn, i, j \in Nat, p, q \in Packet :
         FanningAt(s, p) /\ LiveAt(c, i, p) /\ LiveAt(c, j, q) /\ i < j =>
            shard_for_topic(q.topic) # s

\* What the subscribers have got.
Deliveries ==
    /\ \A c \in Conn, i, j \in Nat, p, q \in Packet :
         LiveAt(c, i, p) /\ LiveAt(c, j, q) /\ i < j =>
            /\ p # q
            /\ p.from = q.from /\ p.topic = q.topic => p.n < q.n
    /\ \A c, d \in Conn, i, j, k, l \in Nat, p, q \in Packet :
         /\ LiveAt(c, i, p) /\ LiveAt(c, j, q) /\ i < j /\ p.topic = q.topic
         /\ LiveAt(d, k, p) /\ LiveAt(d, l, q)
         => k <= l

\* No reader forwards a PUBLISH as its own answer.
Answers == \A c \in Conn : ack[c].type # "PUBLISH"

OInv == LInv /\ Answers /\ Numbering /\ ShardOrder /\ FanOutMemory /\ Deliveries

-----------------------------------------------------------------------------
(* What the steps do to the three places *)

LEMMA PushEffect ==
    ASSUME TypeOK, NEW c \in Conn, NEW e \in Event, PushTo(c, e)
    PROVE  /\ \A d \in Conn : d # c => outbound'[d] = outbound[d]
           /\ Len(outbound[c]) \in Nat
           /\ Len(outbound'[c]) = Len(outbound[c]) + 1
           /\ \A k \in 1..Len(outbound[c]) : outbound'[c][k] = outbound[c][k]
           /\ outbound'[c][Len(outbound[c]) + 1] = e
<1>1. outbound[c] \in Seq(Event)
  BY DEF TypeOK
<1>2. outbound'[c] = Append(outbound[c], e)
  BY DEF PushTo, TypeOK
<1>3. \A d \in Conn : d # c => outbound'[d] = outbound[d]
  BY DEF PushTo, TypeOK
<1> QED
  BY <1>1, <1>2, <1>3, AppendProperties

\* An acknowledgement or a replay adds no live event.
LEMMA QuietPush ==
    ASSUME TypeOK, NEW c \in Conn, NEW e \in Event, PushTo(c, e),
           ~(e.type = "PUBLISH" /\ e.via = "live")
    PROVE  \A d \in Conn, k \in Nat, p \in Packet : LiveAt(d, k, p)' => LiveAt(d, k, p)
<1> SUFFICES ASSUME NEW d \in Conn, NEW k \in Nat, NEW p \in Packet, LiveAt(d, k, p)'
             PROVE  LiveAt(d, k, p)
  OBVIOUS
<1>1. CASE d # c
  BY <1>1, PushEffect DEF LiveAt, Pushes, IsLive, IsPublish, PacketAt
<1>2. CASE d = c
  <2>1. k \in 1..Len(outbound'[c]) /\ k # Len(outbound[c]) + 1
    BY <1>2, PushEffect DEF LiveAt, Pushes, IsLive, IsPublish
  <2>2. k \in 1..Len(outbound[c])
    BY <2>1, PushEffect
  <2> QED
    BY <1>2, <2>2, PushEffect DEF LiveAt, Pushes, IsLive, IsPublish, PacketAt
<1> QED
  BY <1>1, <1>2

\* A step that adds to none of the places keeps the order.
LEMMA OrderFrame ==
    ASSUME ShardOrder, FanOutMemory, Deliveries, UNCHANGED <<inbox, job>>,
           \A d \in Conn, k \in Nat, p \in Packet : LiveAt(d, k, p)' => LiveAt(d, k, p)
    PROVE  /\ ShardOrder' /\ FanOutMemory' /\ Deliveries'
           /\ \A p \in Packet : HandedOver(p)' => HandedOver(p)
<1>1. /\ \A s \in Shard, i \in Nat, p \in Packet : QueuedAt(s, i, p)' <=> QueuedAt(s, i, p)
      /\ \A s \in Shard, p \in Packet : FanningAt(s, p)' <=> FanningAt(s, p)
  BY DEF QueuedAt, FanningAt
<1>2. ShardOrder'
  BY <1>1 DEF ShardOrder
<1>3. FanOutMemory'
  BY <1>1 DEF FanOutMemory
<1>4. Deliveries'
  <2>1. ASSUME NEW c \in Conn, NEW i \in Nat, NEW j \in Nat,
               NEW p \in Packet, NEW q \in Packet,
               LiveAt(c, i, p)', LiveAt(c, j, q)', i < j
        PROVE  p # q /\ (p.from = q.from /\ p.topic = q.topic => p.n < q.n)
    BY <2>1 DEF Deliveries
  <2>2. ASSUME NEW c \in Conn, NEW d \in Conn, NEW i \in Nat, NEW j \in Nat,
               NEW k \in Nat, NEW l \in Nat, NEW p \in Packet, NEW q \in Packet,
               LiveAt(c, i, p)', LiveAt(c, j, q)', i < j, p.topic = q.topic,
               LiveAt(d, k, p)', LiveAt(d, l, q)'
        PROVE  k <= l
    <3>1. LiveAt(c, i, p) /\ LiveAt(c, j, q) /\ LiveAt(d, k, p) /\ LiveAt(d, l, q)
      BY <2>2
    <3> QED
      BY <2>2, <3>1 DEF Deliveries
  <2> QED
    BY <2>1, <2>2 DEF Deliveries
<1> QED
  BY <1>1, <1>2, <1>3, <1>4 DEF HandedOver

-----------------------------------------------------------------------------
(* Readers *)

\* What reading a packet adds: at most one publish, numbered by the packet,
\* and no live event.
LEMMA DispatchOrderEffect ==
    ASSUME LInv, NEW c \in Conn, NEW pkt, Dispatch(c, pkt)
    PROVE  /\ UNCHANGED <<inbox, job>>
           /\ nread' = [nread EXCEPT ![c] = nread[c] + 1]
           /\ \A d \in Conn, k \in Nat, p \in Packet : LiveAt(d, k, p)' => LiveAt(d, k, p)
           /\ \A d \in Conn : d # c => sending'[d] = sending[d]
           /\ \A d \in Conn : ack'[d] = ack[d] \/ ack'[d].type # "PUBLISH"
           /\ \A i \in 1..Len(sending'[c]) :
                sending'[c][i].type = "Publish" =>
                   /\ Len(sending'[c]) = 1
                   /\ sending'[c][i].packet.from = c
                   /\ sending'[c][i].packet.n = nread[c] + 1
<1> USE DEF Begin, shardVars
<1>0. TypeOK
  BY DEF LInv
<1>1. Decoded(c, pkt) /\ UNCHANGED <<inbox, job>>
  BY DEF Dispatch, ReadConnect, ReadSubscribe, ReadUnsubscribe, ReadPublish,
         ReadPing, ReadPuback, ReadHangup
<1>2. /\ pkt \in ClientPacket /\ nread[c] + 1 \in Nat /\ sending[c] = <<>>
      /\ nread' = [nread EXCEPT ![c] = nread[c] + 1]
  BY <1>0, <1>1, DecodedPacket DEF Decoded, AtRead
<1>3. \A d \in Conn, k \in Nat, p \in Packet : LiveAt(d, k, p)' => LiveAt(d, k, p)
  <2>1. CASE outbound' = outbound
    BY <2>1 DEF LiveAt, Pushes, IsLive, IsPublish, PacketAt
  <2>2. CASE outbound' # outbound
    <3>1. PICK t \in {"PUBACK", "PINGRESP"} :
            PushTo(c, [type |-> t, pid |-> nread[c] + 1])
      BY <2>2 DEF Dispatch, ReadConnect, ReadSubscribe, ReadUnsubscribe, ReadPublish,
                  ReadPing, ReadPuback, ReadHangup
    <3>2. [type |-> t, pid |-> nread[c] + 1] \in Event
      BY <1>2 DEF Event
    <3> QED
      BY <1>0, <3>1, <3>2, QuietPush
  <2> QED
    BY <2>1, <2>2
<1>4. \A d \in Conn : d # c => sending'[d] = sending[d]
  BY <1>0 DEF Dispatch, ReadConnect, ReadSubscribe, ReadUnsubscribe, ReadPublish,
              ReadPing, ReadPuback, ReadHangup, TypeOK
<1>6. \A d \in Conn : ack'[d] = ack[d] \/ ack'[d].type # "PUBLISH"
  BY <1>0 DEF Dispatch, ReadConnect, ReadSubscribe, ReadUnsubscribe, ReadPublish,
              ReadPing, ReadPuback, ReadHangup, TypeOK, NoAck
<1>5. ASSUME NEW i \in 1..Len(sending'[c]), sending'[c][i].type = "Publish"
      PROVE  /\ Len(sending'[c]) = 1
             /\ sending'[c][i].packet.from = c
             /\ sending'[c][i].packet.n = nread[c] + 1
  <2>1. CASE ReadConnect(c, pkt) \/ ReadHangup(c, pkt)
    <3>1. \E t \in {"Register", "Disconnect"} : sending'[c] = << [type |-> t, id |-> c] >>
      BY <1>0, <2>1 DEF ReadConnect, ReadHangup, TypeOK
    <3> QED
      BY <1>5, <3>1
  <2>2. CASE ReadSubscribe(c, pkt)
    <3>1. sending'[c] = [k \in 1..Len(pkt.filters) |->
                          [type |-> "Subscribe", id |-> c, topic |-> pkt.filters[k]]]
      BY <1>0, <2>2 DEF ReadSubscribe, TypeOK
    <3>2. pkt.filters \in Seq(Filter)
      BY <1>2, <2>2, PacketCases DEF ReadSubscribe
    <3> QED
      BY <1>5, <3>1, <3>2
  <2>3. CASE ReadUnsubscribe(c, pkt)
    <3>1. sending'[c] = [k \in 1..Len(pkt.filters) |->
                          [type |-> "Unsubscribe", id |-> c, topic |-> pkt.filters[k]]]
      BY <1>0, <2>3 DEF ReadUnsubscribe, TypeOK
    <3>2. pkt.filters \in Seq(Filter)
      BY <1>2, <2>3, PacketCases DEF ReadUnsubscribe
    <3> QED
      BY <1>5, <3>1, <3>2
  <2>4. CASE ReadPublish(c, pkt)
    <3>1. sending'[c] = << [type |-> "Publish", id |-> c,
                            packet |-> Published(c, nread[c] + 1, pkt)] >>
      BY <1>0, <2>4 DEF ReadPublish, TypeOK
    <3> QED
      BY <3>1 DEF Published
  <2>5. CASE ReadPing(c, pkt) \/ ReadPuback(c, pkt)
    BY <1>2, <1>5, <2>5 DEF ReadPing, ReadPuback
  <2> QED
    BY <2>1, <2>2, <2>3, <2>4, <2>5 DEF Dispatch
<1> QED
  BY <1>1, <1>2, <1>3, <1>4, <1>5, <1>6

LEMMA DispatchOInv ==
    ASSUME OInv, NEW c \in Conn, NEW pkt, Dispatch(c, pkt)
    PROVE  OInv'
<1>0. TypeOK /\ LInv /\ Answers /\ Numbering /\ ShardOrder /\ FanOutMemory /\ Deliveries
  BY DEF OInv, LInv
<1>1. LInv'
  BY <1>0, DispatchLInv
<1>2. /\ UNCHANGED <<inbox, job>>
      /\ nread' = [nread EXCEPT ![c] = nread[c] + 1]
      /\ \A d \in Conn, k \in Nat, p \in Packet : LiveAt(d, k, p)' => LiveAt(d, k, p)
      /\ \A d \in Conn : d # c => sending'[d] = sending[d]
      /\ \A d \in Conn : ack'[d] = ack[d] \/ ack'[d].type # "PUBLISH"
      /\ \A i \in 1..Len(sending'[c]) :
           sending'[c][i].type = "Publish" =>
              /\ Len(sending'[c]) = 1
              /\ sending'[c][i].packet.from = c
              /\ sending'[c][i].packet.n = nread[c] + 1
  BY <1>0, DispatchOrderEffect
<1>3. /\ ShardOrder' /\ FanOutMemory' /\ Deliveries'
      /\ \A p \in Packet : HandedOver(p)' => HandedOver(p)
  BY <1>0, <1>2, OrderFrame
<1>4. nread'[c] = nread[c] + 1 /\ \A d \in Conn : d # c => nread'[d] = nread[d]
  BY <1>0, <1>2 DEF TypeOK
<1>5. Numbering'
  <2>1. ASSUME NEW d \in Conn, NEW i \in 1..Len(sending'[d]),
               sending'[d][i].type = "Publish"
        PROVE  /\ Len(sending'[d]) = 1
               /\ sending'[d][i].packet.from = d
               /\ sending'[d][i].packet.n = nread'[d]
    <3>1. CASE d = c
      BY <1>2, <1>4, <2>1, <3>1
    <3>2. CASE d # c
      BY <1>0, <1>2, <1>4, <2>1, <3>2 DEF Numbering
    <3> QED
      BY <3>1, <3>2
  <2>2. ASSUME NEW p \in Packet, HandedOver(p)'
        PROVE  p.n <= nread'[p.from] /\ (HoldsPublish(p.from)' => p.n < nread'[p.from])
    <3>1. p.from \in Conn /\ p.n \in Nat /\ nread[p.from] \in Nat /\ p.n <= nread[p.from]
      BY <1>0, <1>3, <2>2, PacketFields DEF Numbering, TypeOK
    <3>2. CASE p.from = c
      BY <1>4, <3>1, <3>2
    <3>3. CASE p.from # c
      BY <1>0, <1>2, <1>3, <1>4, <2>2, <3>1, <3>3 DEF Numbering, HoldsPublish
    <3> QED
      BY <3>2, <3>3
  <2>3. \A p, q \in Packet :
          HandedOver(p)' /\ HandedOver(q)' /\ SamePublish(p, q) => p = q
    BY <1>0, <1>3 DEF Numbering
  <2> QED
    BY <2>1, <2>2, <2>3 DEF Numbering, SamePublish
<1>6. Answers'
  BY <1>0, <1>2 DEF Answers
<1> QED
  BY <1>1, <1>3, <1>5, <1>6 DEF OInv

LEMMA AnswerCloseOInv ==
    ASSUME OInv, NEW c \in Conn, Answer(c) \/ Close(c)
    PROVE  OInv'
<1>0. TypeOK /\ LInv /\ Answers /\ Numbering /\ ShardOrder /\ FanOutMemory /\ Deliveries
  BY DEF OInv, LInv
<1>1. LInv'
  BY <1>0, AnswerCloseLInv
<1>2. UNCHANGED <<inbox, job, sending, nread>>
  BY DEF Answer, Close, shardVars
<1>3. \A d \in Conn, k \in Nat, p \in Packet : LiveAt(d, k, p)' => LiveAt(d, k, p)
  <2>1. CASE Close(c)
    BY <2>1 DEF Close, LiveAt, Pushes, IsLive, IsPublish, PacketAt
  <2>2. CASE Answer(c)
    <3>1. ack[c] \in Event /\ PushTo(c, ack[c])
      BY <1>0, <2>2 DEF Answer, TypeOK
    <3>2. ack[c].type # "PUBLISH"
      BY <1>0, <2>2 DEF Answer, Answers
    <3> QED
      BY <1>0, <3>1, <3>2, QuietPush
  <2> QED
    BY <2>1, <2>2
<1>4. /\ ShardOrder' /\ FanOutMemory' /\ Deliveries'
      /\ \A p \in Packet : HandedOver(p)' => HandedOver(p)
  BY <1>0, <1>2, <1>3, OrderFrame
<1>5. Numbering'
  BY <1>0, <1>2, <1>4 DEF Numbering, HoldsPublish, SamePublish
<1>6. Answers'
  <2>1. NoAck.type # "PUBLISH"
    BY DEF NoAck
  <2>2. \A d \in Conn : ack'[d] = ack[d] \/ ack'[d] = NoAck
    BY <1>0 DEF Answer, Close, TypeOK
  <2> QED
    BY <1>0, <2>1, <2>2 DEF Answers
<1> QED
  BY <1>1, <1>4, <1>5, <1>6 DEF OInv

\* A send hands over the publish with the highest number of its publisher.
LEMMA SendOInv ==
    ASSUME OInv, NEW c \in Conn, Send(c)
    PROVE  OInv'
<1>0. TypeOK /\ LInv /\ Answers /\ Numbering /\ ShardOrder /\ FanOutMemory /\ Deliveries
  BY DEF OInv, LInv
<1>1. LInv'
  BY <1>0, SendLInv
<1>2. PICK m \in Message, s \in Shard :
             /\ sending[c] # <<>> /\ m = Head(sending[c])
             /\ s = IF Broadcast(m) THEN next[c] ELSE HomeShard(m)
             /\ inbox' = [inbox EXCEPT ![s] = Append(inbox[s], m)]
             /\ IF Broadcast(m) /\ next[c] + 1 < N
                THEN /\ next' = [next EXCEPT ![c] = next[c] + 1]
                     /\ next[c] + 1 \in Shard
                     /\ sending' = sending
                ELSE /\ next' = [next EXCEPT ![c] = 0]
                     /\ sending' = [sending EXCEPT ![c] = Tail(sending[c])]
             /\ UNCHANGED <<shardVars, outbound, phase, ack, nread>>
  BY <1>0, SendStep
<1>3. UNCHANGED <<job, outbound, ack, nread>>
  BY <1>2 DEF shardVars
<1>4. /\ sending[c] \in Seq(Message) /\ Len(sending[c]) \in Nat /\ Len(sending[c]) >= 1
      /\ m = sending[c][1]
      /\ Tail(sending[c]) \in Seq(Message) /\ Len(Tail(sending[c])) = Len(sending[c]) - 1
      /\ \A i \in 1..Len(Tail(sending[c])) : Tail(sending[c])[i] = sending[c][i + 1]
  <2>1. sending[c] \in Seq(Message) /\ sending[c] # <<>>
    BY <1>0, <1>2 DEF TypeOK
  <2>2. Len(sending[c]) \in Nat /\ Len(sending[c]) # 0 /\ m = sending[c][1]
    BY <1>2, <2>1
  <2>3. Len(sending[c]) >= 1
    BY <2>2
  <2> QED
    BY <2>1, <2>2, <2>3, HeadTailProperties
<1>5. /\ \A d \in Conn : d # c => sending'[d] = sending[d]
      /\ sending'[c] = sending[c] \/ sending'[c] = Tail(sending[c])
      /\ m.type = "Publish" => sending'[c] = Tail(sending[c]) /\ s = shard_for_topic(m.packet.topic)
  BY <1>0, <1>2 DEF TypeOK, Broadcast, HomeShard
<1>6. /\ inbox[s] \in Seq(Message) /\ Len(inbox[s]) \in Nat
      /\ Len(inbox'[s]) = Len(inbox[s]) + 1
      /\ \A i \in 1..Len(inbox[s]) : inbox'[s][i] = inbox[s][i]
      /\ inbox'[s][Len(inbox[s]) + 1] = m
      /\ \A t \in Shard : t # s => inbox'[t] = inbox[t]
  <2>1. inbox[s] \in Seq(Message) /\ inbox'[s] = Append(inbox[s], m)
    BY <1>0, <1>2 DEF TypeOK
  <2>2. \A t \in Shard : t # s => inbox'[t] = inbox[t]
    BY <1>0, <1>2 DEF TypeOK
  <2> QED
    BY <2>1, <2>2, AppendProperties
<1>7. \A t \in Shard, i \in Nat, p \in Packet : QueuedAt(t, i, p)' =>
        \/ QueuedAt(t, i, p)
        \/ t = s /\ i = Len(inbox[s]) + 1 /\ m.type = "Publish" /\ p = m.packet
  <2> SUFFICES ASSUME NEW t \in Shard, NEW i \in Nat, NEW p \in Packet, QueuedAt(t, i, p)'
               PROVE  \/ QueuedAt(t, i, p)
                      \/ t = s /\ i = Len(inbox[s]) + 1 /\ m.type = "Publish" /\ p = m.packet
    OBVIOUS
  <2>1. CASE t # s
    BY <1>6, <2>1 DEF QueuedAt
  <2>2. CASE t = s /\ i = Len(inbox[s]) + 1
    BY <1>6, <2>2 DEF QueuedAt
  <2>3. CASE t = s /\ i # Len(inbox[s]) + 1
    <3>1. i \in 1..Len(inbox[s])
      BY <1>6, <2>3 DEF QueuedAt
    <3> QED
      BY <1>6, <2>3, <3>1 DEF QueuedAt
  <2> QED
    BY <2>1, <2>2, <2>3
<1>8. /\ \A t \in Shard, p \in Packet : FanningAt(t, p)' <=> FanningAt(t, p)
      /\ \A d \in Conn, k \in Nat, p \in Packet : LiveAt(d, k, p)' <=> LiveAt(d, k, p)
  BY <1>3 DEF FanningAt, LiveAt, Pushes, IsLive, IsPublish, PacketAt
<1>9. ASSUME m.type = "Publish"
      PROVE  /\ m.packet \in Packet /\ m.packet.from = c /\ m.packet.n = nread[c]
             /\ sending'[c] = <<>> /\ HoldsPublish(c) /\ ~ HoldsPublish(c)'
             /\ nread[c] \in Nat
  <2>1. 1 \in 1..Len(sending[c])
    BY <1>4
  <2>2. Len(sending[c]) = 1 /\ m.packet.from = c /\ m.packet.n = nread[c]
    BY <1>0, <1>4, <1>9, <2>1 DEF Numbering
  <2>3. sending'[c] = <<>>
    <3>1. sending'[c] = Tail(sending[c]) /\ Len(Tail(sending[c])) = 1 - 1
      BY <1>4, <1>5, <1>9, <2>2
    <3>2. Len(Tail(sending[c])) = 0
      BY <3>1
    <3>3. Tail(sending[c]) \in Seq(Message)
      BY <1>4
    <3> QED
      BY <3>1, <3>2, <3>3, EmptySeq
  <2>4. HoldsPublish(c) /\ ~ HoldsPublish(c)'
    BY <1>4, <1>9, <2>1, <2>3 DEF HoldsPublish
  <2> QED
    BY <1>0, <1>9, <2>2, <2>3, <2>4, MessageFields DEF TypeOK
<1>10. \A p \in Packet : HandedOver(p)' =>
         HandedOver(p) \/ (m.type = "Publish" /\ p = m.packet)
  BY <1>7, <1>8 DEF HandedOver
<1>11. ASSUME m.type = "Publish", NEW p \in Packet, HandedOver(p), p.from = c
       PROVE  p.n < m.packet.n
  BY <1>0, <1>9, <1>11 DEF Numbering
<1>12. ASSUME NEW d \in Conn, HoldsPublish(d)'
       PROVE  HoldsPublish(d)
  <2>1. CASE d # c
    BY <1>5, <1>12, <2>1 DEF HoldsPublish
  <2>2. CASE d = c /\ sending'[c] = sending[c]
    BY <1>12, <2>2 DEF HoldsPublish
  <2>3. CASE d = c /\ sending'[c] = Tail(sending[c])
    <3>1. PICK i \in 1..Len(Tail(sending[c])) : Tail(sending[c])[i].type = "Publish"
      BY <1>12, <2>3 DEF HoldsPublish
    <3>2. i + 1 \in 1..Len(sending[c]) /\ sending[c][i + 1].type = "Publish"
      BY <1>4, <3>1
    <3> QED
      BY <2>3, <3>2 DEF HoldsPublish
  <2> QED
    BY <1>5, <2>1, <2>2, <2>3
<1>13. Numbering'
  <2>1. ASSUME NEW d \in Conn, NEW i \in 1..Len(sending'[d]),
               sending'[d][i].type = "Publish"
        PROVE  /\ Len(sending'[d]) = 1
               /\ sending'[d][i].packet.from = d
               /\ sending'[d][i].packet.n = nread'[d]
    <3>1. CASE sending'[d] = sending[d]
      BY <1>0, <1>3, <2>1, <3>1 DEF Numbering
    <3>2. CASE sending'[d] # sending[d]
      <4>1. d = c /\ sending'[c] = Tail(sending[c])
        BY <1>5, <3>2
      <4>2. i + 1 \in 1..Len(sending[c]) /\ sending[c][i + 1].type = "Publish"
        BY <1>4, <2>1, <4>1
      <4>3. Len(sending[c]) = 1
        BY <1>0, <4>2 DEF Numbering
      <4> QED
        BY <1>4, <2>1, <4>1, <4>3
    <3> QED
      BY <3>1, <3>2
  <2>2. ASSUME NEW p \in Packet, HandedOver(p)'
        PROVE  p.n <= nread'[p.from] /\ (HoldsPublish(p.from)' => p.n < nread'[p.from])
    <3>1. CASE HandedOver(p)
      BY <1>0, <1>3, <1>12, <3>1, PacketFields DEF Numbering
    <3>2. CASE ~ HandedOver(p)
      BY <1>3, <1>9, <1>10, <2>2, <3>2
    <3> QED
      BY <3>1, <3>2
  <2>3. ASSUME NEW p \in Packet, NEW q \in Packet, HandedOver(p)', HandedOver(q)',
               SamePublish(p, q)
        PROVE  p = q
    <3>0. p.from = q.from /\ p.n = q.n /\ p.n \in Nat
      BY <2>3, PacketFields DEF SamePublish
    <3>1. CASE HandedOver(p) /\ HandedOver(q)
      BY <1>0, <2>3, <3>1 DEF Numbering
    <3>2. CASE HandedOver(p) /\ ~ HandedOver(q)
      BY <1>9, <1>10, <1>11, <2>3, <3>0, <3>2
    <3>3. CASE ~ HandedOver(p) /\ HandedOver(q)
      BY <1>9, <1>10, <1>11, <2>3, <3>0, <3>3
    <3>4. CASE ~ HandedOver(p) /\ ~ HandedOver(q)
      BY <1>10, <2>3, <3>4
    <3> QED
      BY <3>1, <3>2, <3>3, <3>4
  <2> QED
    BY <2>1, <2>2, <2>3 DEF Numbering, SamePublish
<1>14. ShardOrder'
  <2>1. ASSUME NEW t \in Shard, NEW i \in Nat, NEW p \in Packet, QueuedAt(t, i, p)'
        PROVE  shard_for_topic(p.topic) = t
    BY <1>0, <1>5, <1>7, <2>1 DEF ShardOrder
  <2>2. ASSUME NEW t \in Shard, NEW p \in Packet, FanningAt(t, p)'
        PROVE  shard_for_topic(p.topic) = t
    BY <1>0, <1>8, <2>2 DEF ShardOrder
  <2>3. ASSUME NEW t \in Shard, NEW i \in Nat, NEW j \in Nat, NEW p \in Packet,
               NEW q \in Packet, i < j, p.from = q.from,
               QueuedAt(t, i, p)', QueuedAt(t, j, q)'
        PROVE  p.n < q.n
    <3>1. CASE QueuedAt(t, i, p) /\ QueuedAt(t, j, q)
      BY <1>0, <2>3, <3>1 DEF ShardOrder
    <3>2. CASE QueuedAt(t, i, p) /\ ~ QueuedAt(t, j, q)
      <4>1. HandedOver(p)
        BY <3>2 DEF HandedOver
      <4> QED
        BY <1>7, <1>9, <1>11, <2>3, <3>2, <4>1
    <3>3. CASE ~ QueuedAt(t, i, p)
      <4>1. t = s /\ i = Len(inbox[s]) + 1
        BY <1>7, <2>3, <3>3
      <4>2. j \in 1..Len(inbox'[s])
        BY <2>3, <4>1 DEF QueuedAt
      <4> QED
        BY <1>6, <2>3, <4>1, <4>2
    <3> QED
      BY <3>1, <3>2, <3>3
  <2>4. ASSUME NEW t \in Shard, NEW i \in Nat, NEW p \in Packet, NEW q \in Packet,
               FanningAt(t, p)', p.from = q.from, QueuedAt(t, i, q)'
        PROVE  p.n < q.n
    <3>1. CASE QueuedAt(t, i, q)
      BY <1>0, <1>8, <2>4, <3>1 DEF ShardOrder
    <3>2. CASE ~ QueuedAt(t, i, q)
      <4>1. HandedOver(p)
        BY <1>8, <2>4 DEF HandedOver
      <4> QED
        BY <1>7, <1>9, <1>11, <2>4, <3>2, <4>1
    <3> QED
      BY <3>1, <3>2
  <2>5. ASSUME NEW d \in Conn, NEW t \in Shard, NEW k \in Nat, NEW i \in Nat,
               NEW p \in Packet, NEW q \in Packet, LiveAt(d, k, p)', QueuedAt(t, i, q)',
               shard_for_topic(p.topic) = t, p.from = q.from
        PROVE  p.n < q.n
    <3>1. CASE QueuedAt(t, i, q)
      BY <1>0, <1>8, <2>5, <3>1 DEF ShardOrder
    <3>2. CASE ~ QueuedAt(t, i, q)
      <4>1. HandedOver(p)
        BY <1>8, <2>5 DEF HandedOver
      <4> QED
        BY <1>7, <1>9, <1>11, <2>5, <3>2, <4>1
    <3> QED
      BY <3>1, <3>2
  <2>6. \A d \in Conn, t \in Shard, k \in Nat, p, q \in Packet :
          /\ LiveAt(d, k, p)' /\ FanningAt(t, q)'
          /\ shard_for_topic(p.topic) = t /\ p.from = q.from
          => p.n <= q.n
    BY <1>0, <1>8 DEF ShardOrder
  <2> QED
    BY <2>1, <2>2, <2>3, <2>4, <2>5, <2>6 DEF ShardOrder
<1>15. FanOutMemory'
  BY <1>0, <1>3, <1>8 DEF FanOutMemory
<1>16. Deliveries'
  BY <1>0, <1>3 DEF Deliveries, LiveAt, Pushes, IsLive, IsPublish, PacketAt
<1>17. Answers'
  BY <1>0, <1>3 DEF Answers
<1> QED
  BY <1>1, <1>13, <1>14, <1>15, <1>16, <1>17 DEF OInv

-----------------------------------------------------------------------------
(* Shards *)

\* Handling a message takes it out of the channel; only a Publish starts a
\* fan-out, of the packet it carries and with nobody notified yet.
LEMMA HandleOrderEffect ==
    ASSUME TypeOK, NEW s \in Shard, NEW m, Handle(s, m)
    PROVE  /\ UNCHANGED <<outbound, sending, nread, ack>>
           /\ \A t \in Shard : t # s => job'[t] = job[t]
           /\ \A p \in Packet : ~ FanningAt(s, p)
           /\ job'[s].op = "fanout" => QueuedAt(s, 1, job'[s].packet) /\ job'[s].notified = {}
           /\ \A t \in Shard, i \in Nat, p \in Packet :
                t # s /\ QueuedAt(t, i, p)' => QueuedAt(t, i, p)
           /\ \A i \in Nat, p \in Packet :
                QueuedAt(s, i, p)' => QueuedAt(s, i + 1, p)
<1>0. Receive(s, m) /\ \A t \in Shard : t # s => job'[t] = job[t]
  BY HandleEffect
<1>1. /\ m \in Message /\ inbox[s] # <<>> /\ m = Head(inbox[s])
      /\ inbox' = [inbox EXCEPT ![s] = Tail(inbox[s])]
      /\ UNCHANGED readerVars
  BY <1>0, ReceiveType
<1>2. UNCHANGED <<outbound, sending, nread, ack>>
  BY <1>1 DEF readerVars, Handle, HandleRegister, HandleSubscribe, HandleUnsubscribe,
              HandlePublish, HandleDisconnect
<1>3. job[s] = Idle /\ Idle.op = "idle" /\ \A p \in Packet : ~ FanningAt(s, p)
  BY <1>0 DEF Receive, Idle, FanningAt
<1>4. /\ Len(inbox[s]) \in Nat /\ Len(inbox[s]) >= 1 /\ m = inbox[s][1]
      /\ Len(inbox'[s]) = Len(inbox[s]) - 1
      /\ \A i \in 1..Len(inbox'[s]) : inbox'[s][i] = inbox[s][i + 1]
      /\ \A t \in Shard : t # s => inbox'[t] = inbox[t]
  <2>1. inbox[s] \in Seq(Message) /\ inbox'[s] = Tail(inbox[s])
    BY <1>1 DEF TypeOK
  <2>2. Len(inbox[s]) \in Nat /\ Len(inbox[s]) # 0 /\ m = inbox[s][1]
    BY <1>1, <2>1
  <2>3. /\ Len(Tail(inbox[s])) = Len(inbox[s]) - 1
        /\ \A i \in 1..Len(Tail(inbox[s])) : Tail(inbox[s])[i] = inbox[s][i + 1]
    BY <1>1, <2>1, HeadTailProperties
  <2>4. \A t \in Shard : t # s => inbox'[t] = inbox[t]
    BY <1>1 DEF TypeOK
  <2> QED
    BY <2>1, <2>2, <2>3, <2>4
<1>5. ASSUME job'[s].op = "fanout"
      PROVE  QueuedAt(s, 1, job'[s].packet) /\ job'[s].notified = {}
  <2>1. HandlePublish(s, m)
    <3>1. CASE HandleRegister(s, m) \/ HandleUnsubscribe(s, m) \/ HandleDisconnect(s, m)
      BY <1>3, <1>5, <3>1 DEF HandleRegister, HandleUnsubscribe, HandleDisconnect
    <3>2. CASE HandleSubscribe(s, m)
      BY <1>3, <1>5, <3>2 DEF HandleSubscribe, TypeOK, Replay
    <3> QED
      BY <3>1, <3>2 DEF Handle
  <2>2. /\ m.type = "Publish"
        /\ job'[s] = FanOut(m.packet, TRUE, topics[s][m.packet.topic],
                            WildcardFilters(s, m.packet.topic), {})
    BY <2>1 DEF HandlePublish, TypeOK
  <2>3. job'[s].packet = m.packet /\ job'[s].notified = {}
    BY <1>3, <1>5, <2>2 DEF FanOut
  <2>4. 1 \in 1..Len(inbox[s]) /\ inbox[s][1] = m
    BY <1>4
  <2> QED
    BY <2>2, <2>3, <2>4 DEF QueuedAt
<1>6. \A t \in Shard, i \in Nat, p \in Packet :
        t # s /\ QueuedAt(t, i, p)' => QueuedAt(t, i, p)
  BY <1>4 DEF QueuedAt
<1>7. ASSUME NEW i \in Nat, NEW p \in Packet, QueuedAt(s, i, p)'
      PROVE  QueuedAt(s, i + 1, p)
  <2>1. i \in 1..Len(inbox'[s]) /\ i + 1 \in 1..Len(inbox[s])
    BY <1>4, <1>7 DEF QueuedAt
  <2> QED
    BY <1>4, <1>7, <2>1 DEF QueuedAt
<1> QED
  BY <1>0, <1>2, <1>3, <1>5, <1>6, <1>7

LEMMA HandleOInv ==
    ASSUME OInv, NEW s \in Shard, NEW m, Handle(s, m)
    PROVE  OInv'
<1>0. TypeOK /\ LInv /\ Answers /\ Numbering /\ ShardOrder /\ FanOutMemory /\ Deliveries
  BY DEF OInv, LInv
<1>1. LInv'
  BY <1>0, HandleLInv
<1>2. /\ UNCHANGED <<outbound, sending, nread, ack>>
      /\ \A t \in Shard : t # s => job'[t] = job[t]
      /\ \A p \in Packet : ~ FanningAt(s, p)
      /\ job'[s].op = "fanout" => QueuedAt(s, 1, job'[s].packet) /\ job'[s].notified = {}
      /\ \A t \in Shard, i \in Nat, p \in Packet :
           t # s /\ QueuedAt(t, i, p)' => QueuedAt(t, i, p)
      /\ \A i \in Nat, p \in Packet :
           QueuedAt(s, i, p)' => QueuedAt(s, i + 1, p)
  BY <1>0, HandleOrderEffect
<1>3. \A d \in Conn, k \in Nat, p \in Packet : LiveAt(d, k, p)' <=> LiveAt(d, k, p)
  BY <1>2 DEF LiveAt, Pushes, IsLive, IsPublish, PacketAt
<1>4. /\ \A t \in Shard, p \in Packet : t # s => (FanningAt(t, p)' <=> FanningAt(t, p))
      /\ \A p \in Packet : FanningAt(s, p)' => QueuedAt(s, 1, p) /\ job'[s].notified = {}
  BY <1>2 DEF FanningAt
<1>5. ASSUME NEW t \in Shard, NEW i \in Nat, NEW p \in Packet, QueuedAt(t, i, p)'
      PROVE  \E j \in Nat : QueuedAt(t, j, p)
  <2>1. i + 1 \in Nat
    OBVIOUS
  <2> QED
    BY <1>2, <1>5, <2>1
<1>6. \A p \in Packet : HandedOver(p)' => HandedOver(p)
  BY <1>3, <1>4, <1>5 DEF HandedOver
<1>7. Numbering'
  BY <1>0, <1>2, <1>6 DEF Numbering, HoldsPublish, SamePublish
<1>8. ShardOrder'
  <2>1. ASSUME NEW t \in Shard, NEW i \in Nat, NEW p \in Packet, QueuedAt(t, i, p)'
        PROVE  shard_for_topic(p.topic) = t
    BY <1>0, <1>5, <2>1 DEF ShardOrder
  <2>2. ASSUME NEW t \in Shard, NEW p \in Packet, FanningAt(t, p)'
        PROVE  shard_for_topic(p.topic) = t
    BY <1>0, <1>4, <2>2 DEF ShardOrder
  <2>3. ASSUME NEW t \in Shard, NEW i \in Nat, NEW j \in Nat, NEW p \in Packet,
               NEW q \in Packet, i < j, p.from = q.from,
               QueuedAt(t, i, p)', QueuedAt(t, j, q)'
        PROVE  p.n < q.n
    <3>1. CASE t # s
      BY <1>0, <1>2, <2>3, <3>1 DEF ShardOrder
    <3>2. CASE t = s
      <4>1. QueuedAt(s, i + 1, p) /\ QueuedAt(s, j + 1, q) /\ i + 1 < j + 1
        BY <1>2, <2>3, <3>2
      <4> QED
        BY <1>0, <2>3, <4>1 DEF ShardOrder
    <3> QED
      BY <3>1, <3>2
  <2>4. ASSUME NEW t \in Shard, NEW i \in Nat, NEW p \in Packet, NEW q \in Packet,
               FanningAt(t, p)', p.from = q.from, QueuedAt(t, i, q)'
        PROVE  p.n < q.n
    <3>1. CASE t # s
      BY <1>0, <1>2, <1>4, <2>4, <3>1 DEF ShardOrder
    <3>2. CASE t = s
      <4>1. i # 0
        BY <2>4 DEF QueuedAt
      <4>2. FanningAt(s, p)' /\ QueuedAt(s, i, q)'
        BY <2>4, <3>2
      <4>3. QueuedAt(s, 1, p)
        BY <1>4, <4>2
      <4>4. QueuedAt(s, i + 1, q)
        BY <1>2, <4>2
      <4>5. 1 < i + 1 /\ i + 1 \in Nat
        BY <2>4, <4>1
      <4> QED
        BY <1>0, <2>4, <4>3, <4>4, <4>5 DEF ShardOrder
    <3> QED
      BY <3>1, <3>2
  <2>5. ASSUME NEW d \in Conn, NEW t \in Shard, NEW k \in Nat, NEW i \in Nat,
               NEW p \in Packet, NEW q \in Packet, LiveAt(d, k, p)', QueuedAt(t, i, q)',
               shard_for_topic(p.topic) = t, p.from = q.from
        PROVE  p.n < q.n
    BY <1>0, <1>3, <1>5, <2>5 DEF ShardOrder
  <2>6. ASSUME NEW d \in Conn, NEW t \in Shard, NEW k \in Nat, NEW p \in Packet,
               NEW q \in Packet, LiveAt(d, k, p)', FanningAt(t, q)',
               shard_for_topic(p.topic) = t, p.from = q.from
        PROVE  p.n <= q.n
    <3>1. CASE t # s
      BY <1>0, <1>3, <1>4, <2>6, <3>1 DEF ShardOrder
    <3>2. CASE t = s
      <4>1. QueuedAt(s, 1, q) /\ LiveAt(d, k, p)
        BY <1>3, <1>4, <2>6, <3>2
      <4>2. p.n < q.n
        BY <1>0, <2>6, <3>2, <4>1 DEF ShardOrder
      <4>3. p.n \in Nat /\ q.n \in Nat
        BY PacketFields
      <4> QED
        BY <4>2, <4>3
    <3> QED
      BY <3>1, <3>2
  <2> QED
    BY <2>1, <2>2, <2>3, <2>4, <2>5, <2>6 DEF ShardOrder
<1>9. ASSUME NEW d \in Conn, NEW k \in Nat, NEW p \in Packet, FanningAt(s, p)',
             LiveAt(d, k, p)
      PROVE  FALSE
  <2>1. QueuedAt(s, 1, p)
    BY <1>4, <1>9
  <2>2. shard_for_topic(p.topic) = s
    BY <1>0, <2>1 DEF ShardOrder
  <2>3. p.n < p.n
    BY <1>0, <1>9, <2>1, <2>2 DEF ShardOrder
  <2>4. p.n \in Nat
    BY PacketFields
  <2> QED
    BY <2>3, <2>4
<1>10. FanOutMemory'
  <2>1. ASSUME NEW t \in Shard, NEW d \in Conn, NEW k \in Nat, NEW p \in Packet,
               FanningAt(t, p)', LiveAt(d, k, p)'
        PROVE  d \in job'[t].notified
    BY <1>0, <1>2, <1>3, <1>4, <1>9, <2>1 DEF FanOutMemory
  <2>2. ASSUME NEW t \in Shard, NEW d \in Conn, job'[t].op = "fanout", job'[t].exact,
               d \in job'[t].notified
        PROVE  job'[t].todo[d] = 0
    <3>1. t # s
      BY <1>2, <2>2
    <3> QED
      BY <1>0, <1>2, <2>2, <3>1 DEF FanOutMemory
  <2>3. ASSUME NEW t \in Shard, NEW d \in Conn, NEW i \in Nat, NEW j \in Nat,
               NEW p \in Packet, NEW q \in Packet,
               FanningAt(t, p)', LiveAt(d, i, p)', LiveAt(d, j, q)', i < j
        PROVE  shard_for_topic(q.topic) # t
    <3>1. t # s
      BY <1>3, <1>9, <2>3
    <3> QED
      BY <1>0, <1>3, <1>4, <2>3, <3>1 DEF FanOutMemory
  <2> QED
    BY <2>1, <2>2, <2>3 DEF FanOutMemory
<1>11. Deliveries'
  BY <1>0, <1>2 DEF Deliveries, LiveAt, Pushes, IsLive, IsPublish, PacketAt
<1>12. Answers'
  BY <1>0, <1>2 DEF Answers
<1> QED
  BY <1>1, <1>7, <1>8, <1>10, <1>11, <1>12 DEF OInv

\* A step inside a job that pushes no live event: the packet and the notified
\* list of a fan-out stay, its exact pass only loses entries.
LEMMA QuietJobOInv ==
    ASSUME OInv, LInv', NEW s \in Shard,
           UNCHANGED <<inbox, sending, nread, ack>>,
           \A d \in Conn, k \in Nat, p \in Packet : LiveAt(d, k, p)' => LiveAt(d, k, p),
           \A t \in Shard : t # s => job'[t] = job[t],
           job'[s].op = "fanout" =>
              /\ job[s].op = "fanout"
              /\ job'[s].packet = job[s].packet /\ job'[s].notified = job[s].notified
              /\ job'[s].exact =>
                    /\ job[s].exact
                    /\ \A d \in Conn : job[s].todo[d] = 0 => job'[s].todo[d] = 0
    PROVE  OInv'
<1>0. TypeOK /\ LInv /\ Answers /\ Numbering /\ ShardOrder /\ FanOutMemory /\ Deliveries
  BY DEF OInv, LInv
<1>1. /\ \A t \in Shard, i \in Nat, p \in Packet : QueuedAt(t, i, p)' <=> QueuedAt(t, i, p)
      /\ \A t \in Shard, p \in Packet : FanningAt(t, p)' => FanningAt(t, p)
  BY DEF QueuedAt, FanningAt
<1>2. \A p \in Packet : HandedOver(p)' => HandedOver(p)
  BY <1>1 DEF HandedOver
<1>3. Numbering'
  BY <1>0, <1>2 DEF Numbering, HoldsPublish, SamePublish
<1>4. ShardOrder'
  BY <1>0, <1>1 DEF ShardOrder
<1>5. FanOutMemory'
  <2>1. ASSUME NEW t \in Shard, NEW d \in Conn, NEW k \in Nat, NEW p \in Packet,
               FanningAt(t, p)', LiveAt(d, k, p)'
        PROVE  d \in job'[t].notified
    <3>1. d \in job[t].notified
      BY <1>0, <1>1, <2>1 DEF FanOutMemory
    <3>2. job'[t].notified = job[t].notified
      BY <2>1 DEF FanningAt
    <3> QED
      BY <3>1, <3>2
  <2>2. ASSUME NEW t \in Shard, NEW d \in Conn, job'[t].op = "fanout", job'[t].exact,
               d \in job'[t].notified
        PROVE  job'[t].todo[d] = 0
    BY <1>0, <2>2 DEF FanOutMemory
  <2>3. ASSUME NEW t \in Shard, NEW d \in Conn, NEW i \in Nat, NEW j \in Nat,
               NEW p \in Packet, NEW q \in Packet,
               FanningAt(t, p)', LiveAt(d, i, p)', LiveAt(d, j, q)', i < j
        PROVE  shard_for_topic(q.topic) # t
    BY <1>0, <1>1, <2>3 DEF FanOutMemory
  <2> QED
    BY <2>1, <2>2, <2>3 DEF FanOutMemory
<1>6. Deliveries'
  <2>1. ASSUME NEW c \in Conn, NEW i \in Nat, NEW j \in Nat,
               NEW p \in Packet, NEW q \in Packet,
               LiveAt(c, i, p)', LiveAt(c, j, q)', i < j
        PROVE  p # q /\ (p.from = q.from /\ p.topic = q.topic => p.n < q.n)
    BY <1>0, <2>1 DEF Deliveries
  <2>2. ASSUME NEW c \in Conn, NEW d \in Conn, NEW i \in Nat, NEW j \in Nat,
               NEW k \in Nat, NEW l \in Nat, NEW p \in Packet, NEW q \in Packet,
               LiveAt(c, i, p)', LiveAt(c, j, q)', i < j, p.topic = q.topic,
               LiveAt(d, k, p)', LiveAt(d, l, q)'
        PROVE  k <= l
    <3>1. LiveAt(c, i, p) /\ LiveAt(c, j, q) /\ LiveAt(d, k, p) /\ LiveAt(d, l, q)
      BY <2>2
    <3> QED
      BY <1>0, <2>2, <3>1 DEF Deliveries
  <2> QED
    BY <2>1, <2>2 DEF Deliveries
<1>7. Answers'
  BY <1>0 DEF Answers
<1> QED
  BY <1>3, <1>4, <1>5, <1>6, <1>7 DEF OInv

\* A live push: the subscriber has not got the packet before, and everybody
\* who has got it has got nothing newer from this shard.
LEMMA LivePushOInv ==
    ASSUME OInv, LInv', NEW s \in Shard, NEW c \in Conn, FanOutVisit(s, c),
           ~ Skipped(s, c)
    PROVE  OInv'
<1> DEFINE j0 == job[s]
           p0 == job[s].packet
           L == Len(outbound[c]) + 1
           rest == [j0.todo EXCEPT ![c] = j0.todo[c] - 1]
<1>0. TypeOK /\ LInv /\ Answers /\ Numbering /\ ShardOrder /\ FanOutMemory /\ Deliveries
  BY DEF OInv, LInv
<1>1. /\ j0.op = "fanout" /\ j0.todo[c] > 0 /\ p0 \in Packet
      /\ j0.todo \in [Conn -> {0, 1}] /\ j0.notified \in SUBSET Conn
      /\ UNCHANGED <<inbox, sending, nread, ack>>
      /\ job' = [job EXCEPT ![s] =
                   FanOut(p0, j0.exact, rest, j0.wild, j0.notified \cup {c})]
      /\ PushTo(c, [type |-> "PUBLISH", packet |-> p0, via |-> "live"])
  <2>1. j0 \in Job /\ j0.op = "fanout"
    BY <1>0 DEF FanOutVisit, TypeOK
  <2> QED
    BY <2>1, JobFields DEF FanOutVisit, readerVars
<1>2. /\ \A t \in Shard : t # s => job'[t] = job[t]
      /\ job'[s] = FanOut(p0, j0.exact, rest, j0.wild, j0.notified \cup {c})
  BY <1>0, <1>1 DEF TypeOK
<1>3. job'[s].op = "fanout" =>
        /\ job'[s].packet = p0 /\ job'[s].exact = j0.exact /\ job'[s].todo = rest
        /\ job'[s].notified = j0.notified \cup {c}
  BY <1>2 DEF FanOut, Idle
<1>4. rest[c] = 0 /\ \A d \in Conn : d # c => rest[d] = j0.todo[d]
  BY <1>1
<1>5. /\ L \in Nat
      /\ Len(outbound'[c]) = L
      /\ \A d \in Conn : d # c => outbound'[d] = outbound[d]
      /\ \A k \in 1..Len(outbound[c]) : outbound'[c][k] = outbound[c][k]
      /\ outbound'[c][L] = [type |-> "PUBLISH", packet |-> p0, via |-> "live"]
  <2>1. [type |-> "PUBLISH", packet |-> p0, via |-> "live"] \in Event
    BY <1>1 DEF Event
  <2> QED
    BY <1>0, <1>1, <2>1, PushEffect
<1>6. \A d \in Conn, k \in Nat, q \in Packet : LiveAt(d, k, q)' =>
        LiveAt(d, k, q) \/ (d = c /\ k = L /\ q = p0)
  <2> SUFFICES ASSUME NEW d \in Conn, NEW k \in Nat, NEW q \in Packet, LiveAt(d, k, q)'
               PROVE  LiveAt(d, k, q) \/ (d = c /\ k = L /\ q = p0)
    OBVIOUS
  <2>1. CASE d # c
    BY <1>5, <2>1 DEF LiveAt, Pushes, IsLive, IsPublish, PacketAt
  <2>2. CASE d = c /\ k = L
    BY <1>5, <2>2 DEF LiveAt, PacketAt
  <2>3. CASE d = c /\ k # L
    <3>1. k \in 1..Len(outbound[c])
      BY <1>0, <1>5, <2>3 DEF LiveAt, Pushes, TypeOK
    <3> QED
      BY <1>5, <2>3, <3>1 DEF LiveAt, Pushes, IsLive, IsPublish, PacketAt
  <2> QED
    BY <2>1, <2>2, <2>3
<1>7. /\ \A k \in Nat, q \in Packet : LiveAt(c, k, q) => k < L
      /\ \A k \in Nat, q \in Packet : LiveAt(c, k, q)' => k <= L
  <2>1. Len(outbound[c]) \in Nat
    BY <1>0 DEF TypeOK
  <2> QED
    BY <1>5, <2>1 DEF LiveAt, Pushes
<1>8. /\ \A t \in Shard, i \in Nat, q \in Packet : QueuedAt(t, i, q)' <=> QueuedAt(t, i, q)
      /\ \A t \in Shard, q \in Packet : FanningAt(t, q)' => FanningAt(t, q)
      /\ FanningAt(s, p0) /\ \A q \in Packet : FanningAt(s, q) => q = p0
  BY <1>1, <1>2, <1>3 DEF QueuedAt, FanningAt
<1>9. shard_for_topic(p0.topic) = s /\ \A t \in Shard : FanningAt(t, p0) => t = s
  BY <1>0, <1>1, <1>8 DEF ShardOrder
<1>10. ASSUME NEW k \in Nat, LiveAt(c, k, p0) PROVE FALSE
  <2>1. c \in j0.notified
    BY <1>0, <1>1, <1>8, <1>10 DEF FanOutMemory
  <2>2. j0.exact => j0.todo[c] = 0
    BY <1>0, <1>1, <2>1 DEF FanOutMemory
  <2>3. j0.exact
    BY <2>1 DEF Skipped
  <2> QED
    BY <1>1, <2>2, <2>3
<1> HIDE DEF j0, p0, L, rest
<1>17. ASSUME NEW d \in Conn, NEW i \in Nat, NEW j \in Nat, NEW p \in Packet,
              NEW q \in Packet, LiveAt(d, i, p)', LiveAt(d, j, q)', i < j
       PROVE  LiveAt(d, i, p)
  <2>1. SUFFICES ASSUME ~ LiveAt(d, i, p) PROVE FALSE
    OBVIOUS
  <2>2. d = c /\ i = L
    BY <1>6, <1>17, <2>1
  <2>3. j <= L
    BY <1>7, <1>17, <2>2
  <2> QED
    BY <1>5, <1>17, <2>2, <2>3
<1>11. HandedOver(p0) /\ \A q \in Packet : HandedOver(q)' => HandedOver(q)
  BY <1>6, <1>8 DEF HandedOver
<1>12. Numbering'
  BY <1>0, <1>1, <1>11 DEF Numbering, HoldsPublish, SamePublish
<1>13. ShardOrder'
  <2>1. ASSUME NEW t \in Shard, NEW d \in Conn, NEW k \in Nat, NEW i \in Nat,
               NEW p \in Packet, NEW q \in Packet, LiveAt(d, k, p)', QueuedAt(t, i, q)',
               shard_for_topic(p.topic) = t, p.from = q.from
        PROVE  p.n < q.n
    <3>1. CASE LiveAt(d, k, p)
      BY <1>0, <1>8, <2>1, <3>1 DEF ShardOrder
    <3>2. CASE p = p0
      <4>1. t = s /\ QueuedAt(s, i, q)
        BY <1>8, <1>9, <2>1, <3>2
      <4> QED
        BY <1>0, <1>8, <2>1, <3>2, <4>1 DEF ShardOrder
    <3> QED
      BY <1>6, <2>1, <3>1, <3>2
  <2>2. ASSUME NEW t \in Shard, NEW d \in Conn, NEW k \in Nat, NEW p \in Packet,
               NEW q \in Packet, LiveAt(d, k, p)', FanningAt(t, q)',
               shard_for_topic(p.topic) = t, p.from = q.from
        PROVE  p.n <= q.n
    <3>1. CASE LiveAt(d, k, p)
      BY <1>0, <1>8, <2>2, <3>1 DEF ShardOrder
    <3>2. CASE p = p0
      <4>1. t = s /\ q = p0
        BY <1>8, <1>9, <2>2, <3>2
      <4>2. p.n \in Nat
        BY PacketFields
      <4> QED
        BY <3>2, <4>1, <4>2
    <3> QED
      BY <1>6, <2>2, <3>1, <3>2
  <2> QED
    BY <1>0, <1>8, <2>1, <2>2 DEF ShardOrder
<1>14. FanOutMemory'
  <2>1. ASSUME NEW t \in Shard, NEW d \in Conn, NEW k \in Nat, NEW p \in Packet,
               FanningAt(t, p)', LiveAt(d, k, p)'
        PROVE  d \in job'[t].notified
    <3>1. CASE LiveAt(d, k, p)
      <4>1. d \in job[t].notified
        BY <1>0, <1>8, <2>1, <3>1 DEF FanOutMemory
      <4> QED
        BY <1>2, <1>3, <2>1, <4>1 DEF FanningAt, j0
    <3>2. CASE d = c /\ p = p0
      <4>1. t = s
        BY <1>8, <1>9, <2>1, <3>2
      <4> QED
        BY <1>3, <2>1, <3>2, <4>1 DEF FanningAt
    <3> QED
      BY <1>6, <2>1, <3>1, <3>2
  <2>2. ASSUME NEW t \in Shard, NEW d \in Conn, job'[t].op = "fanout", job'[t].exact,
               d \in job'[t].notified
        PROVE  job'[t].todo[d] = 0
    <3>1. CASE t # s
      BY <1>0, <1>2, <2>2, <3>1 DEF FanOutMemory
    <3>2. CASE t = s /\ d = c
      BY <1>3, <1>4, <2>2, <3>2
    <3>3. CASE t = s /\ d # c
      <4>1. /\ j0.exact /\ d \in j0.notified /\ job'[s].todo[d] = j0.todo[d]
            /\ job[s].op = "fanout"
        BY <1>1, <1>3, <1>4, <2>2, <3>3 DEF j0
      <4> QED
        BY <1>0, <3>3, <4>1 DEF FanOutMemory, j0
    <3> QED
      BY <3>1, <3>2, <3>3
  <2>3. ASSUME NEW t \in Shard, NEW d \in Conn, NEW i \in Nat, NEW j \in Nat,
               NEW p \in Packet, NEW q \in Packet,
               FanningAt(t, p)', LiveAt(d, i, p)', LiveAt(d, j, q)', i < j
        PROVE  shard_for_topic(q.topic) # t
    <3>1. LiveAt(d, i, p)
      BY <1>17, <2>3
    <3>2. CASE LiveAt(d, j, q)
      BY <1>0, <1>8, <2>3, <3>1, <3>2 DEF FanOutMemory
    <3>3. CASE d = c /\ q = p0
      <4>1. p # p0
        BY <1>10, <3>1, <3>3
      <4> QED
        BY <1>8, <1>9, <2>3, <3>3, <4>1
    <3> QED
      BY <1>6, <2>3, <3>2, <3>3
  <2> QED
    BY <2>1, <2>2, <2>3 DEF FanOutMemory
<1>15. Deliveries'
  <2>1. ASSUME NEW d \in Conn, NEW i \in Nat, NEW j \in Nat,
               NEW p \in Packet, NEW q \in Packet,
               LiveAt(d, i, p)', LiveAt(d, j, q)', i < j
        PROVE  p # q /\ (p.from = q.from /\ p.topic = q.topic => p.n < q.n)
    <3>1. LiveAt(d, i, p)
      BY <1>17, <2>1
    <3>2. CASE LiveAt(d, j, q)
      BY <1>0, <2>1, <3>1, <3>2 DEF Deliveries
    <3>3. CASE d = c /\ q = p0
      <4>1. p # p0
        BY <1>10, <3>1, <3>3
      <4>2. ASSUME p.from = q.from, p.topic = q.topic
            PROVE  p.n < q.n
        <5>1. p.n <= q.n
          BY <1>0, <1>8, <1>9, <3>1, <3>3, <4>2 DEF ShardOrder
        <5>2. HandedOver(p)
          BY <3>1 DEF HandedOver
        <5>3. p.n # q.n
          BY <1>0, <1>11, <3>3, <4>1, <4>2, <5>2 DEF Numbering, SamePublish
        <5>4. p.n \in Nat /\ q.n \in Nat
          BY PacketFields
        <5> QED
          BY <5>1, <5>3, <5>4
      <4> QED
        BY <3>3, <4>1, <4>2
    <3> QED
      BY <1>6, <2>1, <3>2, <3>3
  <2>2. ASSUME NEW e \in Conn, NEW d \in Conn, NEW i \in Nat, NEW j \in Nat,
               NEW k \in Nat, NEW l \in Nat, NEW p \in Packet, NEW q \in Packet,
               LiveAt(e, i, p)', LiveAt(e, j, q)', i < j, p.topic = q.topic,
               LiveAt(d, k, p)', LiveAt(d, l, q)'
        PROVE  k <= l
    <3>1. LiveAt(e, i, p)
      BY <1>17, <2>2
    <3>2. p # q
      BY <2>1, <2>2
    <3>3. CASE ~ LiveAt(d, l, q)
      <4>1. d = c /\ l = L
        BY <1>6, <2>2, <3>3
      <4> QED
        BY <1>7, <2>2, <4>1
    <3>4. CASE ~ LiveAt(d, k, p)
      <4>1. p = p0 /\ LiveAt(e, j, q)
        BY <1>6, <2>2, <3>2, <3>4
      <4>2. shard_for_topic(q.topic) # s
        BY <1>0, <1>8, <2>2, <3>1, <4>1 DEF FanOutMemory
      <4> QED
        BY <1>9, <2>2, <4>1, <4>2
    <3>5. CASE LiveAt(d, l, q) /\ LiveAt(d, k, p) /\ ~ LiveAt(e, j, q)
      <4>1. q = p0
        BY <1>6, <2>2, <3>5
      <4>2. ~(l < k)
        BY <1>0, <1>8, <1>9, <2>2, <3>5, <4>1 DEF FanOutMemory
      <4> QED
        BY <4>2
    <3>6. CASE LiveAt(d, l, q) /\ LiveAt(d, k, p) /\ LiveAt(e, j, q)
      BY <1>0, <2>2, <3>1, <3>6 DEF Deliveries
    <3> QED
      BY <3>3, <3>4, <3>5, <3>6
  <2>3. \A d \in Conn, i, j \in Nat, p, q \in Packet :
          LiveAt(d, i, p)' /\ LiveAt(d, j, q)' /\ i < j =>
             p # q /\ (p.from = q.from /\ p.topic = q.topic => p.n < q.n)
    BY <2>1
  <2>4. \A e, d \in Conn, i, j, k, l \in Nat, p, q \in Packet :
          /\ LiveAt(e, i, p)' /\ LiveAt(e, j, q)' /\ i < j /\ p.topic = q.topic
          /\ LiveAt(d, k, p)' /\ LiveAt(d, l, q)'
          => k <= l
    BY <2>2
  <2> QED
    BY <2>3, <2>4 DEF Deliveries
<1>16. Answers'
  BY <1>0, <1>1 DEF Answers
<1> QED
  BY <1>12, <1>13, <1>14, <1>15, <1>16 DEF OInv

LEMMA JobOInv ==
    ASSUME OInv, LInv', NEW s \in Shard,
           \/ \E p \in job[s].packets : PushReplay(s, p)
           \/ \E c \in Conn : FanOutVisit(s, c)
           \/ \E f \in job[s].wild : FanOutFilter(s, f)
    PROVE  OInv'
<1>0. TypeOK
  BY DEF OInv, LInv
<1>1. /\ UNCHANGED <<inbox, sending, nread, ack>>
      /\ \A t \in Shard : t # s => job'[t] = job[t]
  BY <1>0 DEF PushReplay, FanOutVisit, FanOutFilter, TypeOK, readerVars
<1>2. ASSUME NEW p, PushReplay(s, p) PROVE OInv'
  <2>1. job[s] \in Job /\ job[s].op = "replay" /\ p \in job[s].packets
    BY <1>0, <1>2 DEF PushReplay, TypeOK
  <2>2. job[s].to \in Conn /\ p \in Packet
    BY <2>1, JobFields
  <2> DEFINE e == [type |-> "PUBLISH", via |-> "replay",
                   packet |-> [p EXCEPT !.retain = TRUE]]
  <2>3. e \in Event /\ PushTo(job[s].to, e) /\ e.via # "live"
    BY <1>2, <2>2, PacketFields DEF PushReplay, Event
  <2>4. \A d \in Conn, k \in Nat, q \in Packet : LiveAt(d, k, q)' => LiveAt(d, k, q)
    <3> HIDE DEF e
    <3> QED
      BY <1>0, <2>2, <2>3, QuietPush
  <2>5. job'[s].op # "fanout"
    BY <1>0, <1>2 DEF PushReplay, TypeOK, Replay, Idle
  <2> QED
    BY <1>1, <2>4, <2>5, QuietJobOInv
<1>3. ASSUME NEW c \in Conn, FanOutVisit(s, c), Skipped(s, c) PROVE OInv'
  <2> DEFINE rest == [job[s].todo EXCEPT ![c] = job[s].todo[c] - 1]
  <2>1. job[s] \in Job /\ job[s].op = "fanout" /\ job[s].todo[c] > 0
    BY <1>0, <1>3 DEF FanOutVisit, TypeOK
  <2>2. job[s].todo \in [Conn -> {0, 1}]
    BY <2>1, JobFields
  <2>3. /\ outbound' = outbound
        /\ job'[s] = FanOut(job[s].packet, job[s].exact, rest, job[s].wild, job[s].notified)
    BY <1>0, <1>3 DEF FanOutVisit, TypeOK
  <2>4. \A d \in Conn : job[s].todo[d] = 0 => rest[d] = 0
    BY <2>1, <2>2
  <2>5. \A d \in Conn, k \in Nat, q \in Packet : LiveAt(d, k, q)' => LiveAt(d, k, q)
    BY <2>3 DEF LiveAt, Pushes, IsLive, IsPublish, PacketAt
  <2> HIDE DEF rest
  <2>6. job'[s].op = "fanout" =>
          /\ job'[s].packet = job[s].packet /\ job'[s].notified = job[s].notified
          /\ job'[s].exact = job[s].exact /\ job'[s].todo = rest
    BY <2>3 DEF FanOut, Idle
  <2> QED
    BY <1>1, <2>1, <2>4, <2>5, <2>6, QuietJobOInv
<1>4. ASSUME NEW c \in Conn, FanOutVisit(s, c), ~ Skipped(s, c) PROVE OInv'
  BY <1>4, LivePushOInv
<1>5. ASSUME NEW f, FanOutFilter(s, f) PROVE OInv'
  <2>1. /\ outbound' = outbound /\ job[s].op = "fanout"
        /\ job'[s] = FanOut(job[s].packet, FALSE, topics[s][f], job[s].wild \ {f},
                            job[s].notified)
    BY <1>0, <1>5 DEF FanOutFilter, TypeOK
  <2>2. job'[s].op = "fanout" =>
          /\ job'[s].packet = job[s].packet /\ job'[s].notified = job[s].notified
          /\ ~ job'[s].exact
    BY <2>1 DEF FanOut, Idle
  <2>3. \A d \in Conn, k \in Nat, q \in Packet : LiveAt(d, k, q)' => LiveAt(d, k, q)
    BY <2>1 DEF LiveAt, Pushes, IsLive, IsPublish, PacketAt
  <2> QED
    BY <1>1, <2>1, <2>2, <2>3, QuietJobOInv
<1> QED
  BY <1>2, <1>3, <1>4, <1>5

LEMMA NextOInv == OInv /\ [Next]_vars => OInv'
<1> SUFFICES ASSUME OInv, [Next]_vars PROVE OInv'
  OBVIOUS
<1>0. LInv /\ LInv'
  BY NextLInv DEF OInv
<1>1. CASE UNCHANGED vars
  <2>1. UNCHANGED <<inbox, job, sending, nread, ack, outbound>>
    BY <1>1 DEF vars
  <2>2. \A d \in Conn, k \in Nat, q \in Packet : LiveAt(d, k, q)' => LiveAt(d, k, q)
    BY <2>1 DEF LiveAt, Pushes, IsLive, IsPublish, PacketAt
  <2>3. /\ ShardOrder' /\ FanOutMemory' /\ Deliveries'
        /\ \A p \in Packet : HandedOver(p)' => HandedOver(p)
    BY <2>1, <2>2, OrderFrame DEF OInv
  <2>4. Numbering' /\ Answers'
    BY <2>1, <2>3 DEF OInv, Numbering, HoldsPublish, SamePublish, Answers
  <2> QED
    BY <1>0, <2>3, <2>4 DEF OInv
<1>2. ASSUME NEW c \in Conn, ClientStep(c) PROVE OInv'
  BY <1>2, DispatchOInv DEF ClientStep
<1>3. ASSUME NEW c \in Conn, ReaderStep(c) PROVE OInv'
  BY <1>3, SendOInv, AnswerCloseOInv DEF ReaderStep
<1>4. ASSUME NEW s \in Shard, ShardStep(s) PROVE OInv'
  BY <1>0, <1>4, HandleOInv, JobOInv DEF ShardStep
<1> QED
  BY <1>1, <1>2, <1>3, <1>4 DEF Next

LEMMA InitOInv == Init => OInv
<1> SUFFICES ASSUME Init PROVE OInv
  OBVIOUS
<1>1. \A s \in Shard : inbox[s] = <<>> /\ job[s].op = "idle"
  BY DEF Init, Idle
<1>2. \A c \in Conn : sending[c] = <<>> /\ outbound[c] = <<>> /\ ack[c].type = "none"
  BY DEF Init, NoAck
<1>3. \A i : i \notin 1..Len(<<>>)
  OBVIOUS
<1>4. /\ \A s \in Shard, i \in Nat, p \in Packet : ~ QueuedAt(s, i, p)
      /\ \A s \in Shard, p \in Packet : ~ FanningAt(s, p)
      /\ \A c \in Conn, k \in Nat, p \in Packet : ~ LiveAt(c, k, p)
  BY <1>1, <1>2, <1>3 DEF QueuedAt, FanningAt, LiveAt, Pushes
<1>5. Numbering
  BY <1>2, <1>3, <1>4 DEF Numbering, HandedOver
<1>6. ShardOrder
  BY <1>4 DEF ShardOrder
<1>7. FanOutMemory
  BY <1>1, <1>4 DEF FanOutMemory
<1>8. Deliveries
  BY <1>4 DEF Deliveries
<1>9. Answers
  BY <1>2 DEF Answers
<1> QED
  BY <1>5, <1>6, <1>7, <1>8, <1>9, InitLInv DEF OInv

LEMMA OInvariant == Spec => []OInv
BY InitOInv, NextOInv, PTL DEF Spec

\* A live event of c is a publish that LiveAt names.
LEMMA LiveEvent ==
    ASSUME OInv, NEW c \in Conn, NEW i \in Pushes(c), IsLive(c, i)
    PROVE  /\ PacketAt(c, i) \in Packet /\ i \in Nat
           /\ LiveAt(c, i, PacketAt(c, i)) /\ HandedOver(PacketAt(c, i))
<1>1. outbound[c] \in Seq(Event) /\ outbound[c][i] \in Event /\ i \in Nat
  BY DEF OInv, LInv, TypeOK, Pushes
<1>2. PacketAt(c, i) \in Packet
  BY <1>1 DEF IsLive, IsPublish, PacketAt, Event
<1>3. LiveAt(c, i, PacketAt(c, i))
  BY DEF LiveAt
<1> QED
  BY <1>1, <1>2, <1>3 DEF HandedOver

-----------------------------------------------------------------------------
(* Theorems *)

\* A subscriber is pushed a publish at most once, whatever filters of its match
\* the topic: the notified list of run_broker does what it is for, for every
\* registry and every interleaving.
THEOREM BrokerAtMostOnce == Spec => []AtMostOnce
<1>1. OInv => AtMostOnce
  <2> SUFFICES ASSUME OInv, NEW c \in Conn, NEW i \in Pushes(c), NEW j \in Pushes(c),
                      i < j, IsLive(c, i), IsLive(c, j),
                      SamePublish(PacketAt(c, i), PacketAt(c, j))
               PROVE  FALSE
    BY DEF AtMostOnce
  <2>1. /\ PacketAt(c, i) \in Packet /\ PacketAt(c, j) \in Packet
        /\ i \in Nat /\ j \in Nat
        /\ LiveAt(c, i, PacketAt(c, i)) /\ LiveAt(c, j, PacketAt(c, j))
        /\ HandedOver(PacketAt(c, i)) /\ HandedOver(PacketAt(c, j))
    BY LiveEvent
  <2>2. PacketAt(c, i) = PacketAt(c, j)
    BY <2>1 DEF OInv, Numbering
  <2> QED
    BY <2>1, <2>2 DEF OInv, Deliveries
<1> QED
  BY <1>1, OInvariant, PTL

\* What one client publishes to a topic reaches every subscriber in the order
\* of the client's packets, for every number of shards.
THEOREM BrokerPublisherOrder == Spec => []PublisherOrder
<1>1. OInv => PublisherOrder
  <2> SUFFICES ASSUME OInv, NEW c \in Conn, NEW i \in Pushes(c), NEW j \in Pushes(c),
                      i < j, IsLive(c, i), IsLive(c, j),
                      PacketAt(c, i).from = PacketAt(c, j).from,
                      PacketAt(c, i).topic = PacketAt(c, j).topic
               PROVE  PacketAt(c, i).n < PacketAt(c, j).n
    BY DEF PublisherOrder
  <2>1. /\ PacketAt(c, i) \in Packet /\ PacketAt(c, j) \in Packet
        /\ i \in Nat /\ j \in Nat
        /\ LiveAt(c, i, PacketAt(c, i)) /\ LiveAt(c, j, PacketAt(c, j))
    BY LiveEvent
  <2> QED
    BY <2>1 DEF OInv, Deliveries
<1> QED
  BY <1>1, OInvariant, PTL

\* All subscribers see the publishes to a topic in the same order: the claim at
\* the head of broker.rs, for every number of shards, subscribers and publishers.
THEOREM BrokerSameTopicOrder == Spec => []SameTopicOrder
<1>1. OInv => SameTopicOrder
  <2> SUFFICES ASSUME OInv, NEW c \in Conn, NEW i \in Pushes(c), NEW j \in Pushes(c),
                      i < j, IsLive(c, i), IsLive(c, j),
                      PacketAt(c, i).topic = PacketAt(c, j).topic,
                      NEW d \in Conn, NEW k \in Pushes(d), NEW l \in Pushes(d),
                      IsLive(d, k), SamePublish(PacketAt(d, k), PacketAt(c, i)),
                      IsLive(d, l), SamePublish(PacketAt(d, l), PacketAt(c, j))
               PROVE  k <= l
    BY DEF SameTopicOrder
  <2>1. /\ PacketAt(c, i) \in Packet /\ PacketAt(c, j) \in Packet
        /\ i \in Nat /\ j \in Nat
        /\ LiveAt(c, i, PacketAt(c, i)) /\ LiveAt(c, j, PacketAt(c, j))
        /\ HandedOver(PacketAt(c, i)) /\ HandedOver(PacketAt(c, j))
    BY LiveEvent
  <2>2. /\ PacketAt(d, k) \in Packet /\ PacketAt(d, l) \in Packet
        /\ k \in Nat /\ l \in Nat
        /\ LiveAt(d, k, PacketAt(d, k)) /\ LiveAt(d, l, PacketAt(d, l))
        /\ HandedOver(PacketAt(d, k)) /\ HandedOver(PacketAt(d, l))
    BY LiveEvent
  <2>3. PacketAt(d, k) = PacketAt(c, i) /\ PacketAt(d, l) = PacketAt(c, j)
    BY <2>1, <2>2 DEF OInv, Numbering
  <2> QED
    BY <2>1, <2>2, <2>3 DEF OInv, Deliveries
<1> QED
  BY <1>1, OInvariant, PTL

-----------------------------------------------------------------------------
(***************************************************************************)
(* What a subscriber can rely on: a shard knows a client before it has a   *)
(* subscription of it, and nobody with a matching subscription misses the  *)
(* retained packet of a topic.                                             *)
(***************************************************************************)

\* The i-th message in the channel of shard s is a message of c, of type t.
IsMessage(s, i, c, t) ==
    i \in 1..Len(inbox[s]) /\ inbox[s][i].id = c /\ inbox[s][i].type = t

\* A Register of c is being broadcast and has not been sent to shard s yet.
Announcing(c, s) ==
    sending[c] # <<>> /\ Head(sending[c]).type = "Register" /\ next[c] <= s

\* Shard s knows c, or will when it has handled what is in its channel.
Announced(c, s) ==
    c \in clients[s] \/ \E i \in Nat : IsMessage(s, i, c, "Register")

\* Only a reader that ends sends a Disconnect, and nothing of c follows it.
DisconnectFinal ==
    /\ \A c \in Conn : \A i \in 1..Len(sending[c]) :
         sending[c][i].type = "Disconnect" => phase[c] = "closing"
    /\ \A c \in Conn, s \in Shard, i \in Nat :
         IsMessage(s, i, c, "Disconnect") =>
            /\ DisconnectSent(c, s)
            /\ \A j \in 1..Len(inbox[s]) : j > i => inbox[s][j].id # c

\* A client whose first packet is a CONNECT is announced to every shard before
\* any Subscribe of it is in the channel of the shard.
Introduced ==
    \A c \in Polite, s \in Shard :
        /\ nread[c] = 0 => sending[c] = <<>>
        /\ nread[c] # 0 => \/ DisconnectSent(c, s)
                           \/ Announcing(c, s)
                           \/ Announced(c, s)
        /\ \A i \in Nat : IsMessage(s, i, c, "Subscribe") =>
             \/ c \in clients[s]
             \/ \E j \in Nat : j < i /\ IsMessage(s, j, c, "Register")

KInv == LInv /\ DisconnectFinal /\ Introduced /\ KnownBeforeSubscribed

-----------------------------------------------------------------------------
(* A shard knows its subscribers *)

LEMMA InitKInv == Init => KInv
<1> SUFFICES ASSUME Init PROVE KInv
  OBVIOUS
<1>1. /\ \A s \in Shard : inbox[s] = <<>>
      /\ \A c \in Conn : sending[c] = <<>> /\ nread[c] = 0
      /\ \A s \in Shard, f \in Filter, c \in Conn : topics[s][f][c] = 0
  BY DEF Init, NoSubs
<1>2. \A i : i \notin 1..Len(<<>>)
  OBVIOUS
<1>3. \A s \in Shard, i \in Nat : \A c, t : ~ IsMessage(s, i, c, t)
  BY <1>1, <1>2 DEF IsMessage
<1>4. DisconnectFinal
  BY <1>1, <1>2, <1>3 DEF DisconnectFinal
<1>5. Introduced
  BY <1>1, <1>3 DEF Introduced, Polite
<1>6. KnownBeforeSubscribed
  BY <1>1 DEF KnownBeforeSubscribed, Polite
<1> QED
  BY <1>4, <1>5, <1>6, InitLInv DEF KInv

\* The first packet of a polite client is a CONNECT, and its reader sends a
\* Disconnect only when it ends.
LEMMA DispatchFirst ==
    ASSUME LInv, NEW c \in Conn, NEW pkt, pkt \in Script[c][nread[c] + 1],
           Dispatch(c, pkt)
    PROVE  /\ sending[c] = <<>> /\ nread'[c] = nread[c] + 1 /\ nread[c] \in Nat
           /\ \A d \in Conn : d # c => nread'[d] = nread[d]
           /\ c \in Polite /\ nread[c] = 0 =>
                 sending'[c] = << [type |-> "Register", id |-> c] >>
           /\ \A i \in 1..Len(sending'[c]) :
                sending'[c][i].type = "Disconnect" => phase'[c] = "closing"
<1> USE DEF Begin
<1>0. TypeOK
  BY DEF LInv
<1>1. Decoded(c, pkt)
  BY DEF Dispatch, ReadConnect, ReadSubscribe, ReadUnsubscribe, ReadPublish,
         ReadPing, ReadPuback, ReadHangup
<1>2. /\ sending[c] = <<>> /\ nread' = [nread EXCEPT ![c] = nread[c] + 1]
      /\ pkt \in ClientPacket /\ nread[c] < Len(Script[c]) /\ nread[c] \in Nat
  BY <1>0, <1>1, DecodedPacket DEF Decoded, AtRead, TypeOK
<1>3. nread'[c] = nread[c] + 1 /\ \A d \in Conn : d # c => nread'[d] = nread[d]
  BY <1>0, <1>2 DEF TypeOK
<1>4. ASSUME c \in Polite, nread[c] = 0
      PROVE  sending'[c] = << [type |-> "Register", id |-> c] >>
  <2>1. Script[c] \in Seq(SUBSET ClientPacket) /\ Len(Script[c]) # 0
    BY <1>2, <1>4, BrokerAssumption
  <2>2. Script[c] # <<>>
    BY <2>1
  <2>3. pkt.type = "CONNECT"
    BY <1>4, <2>2 DEF Polite
  <2>4. ReadConnect(c, pkt)
    BY <2>3 DEF Dispatch, ReadSubscribe, ReadUnsubscribe, ReadPublish,
                ReadPing, ReadPuback, ReadHangup
  <2> QED
    BY <1>0, <2>4 DEF ReadConnect, TypeOK
<1>5. ASSUME NEW i \in 1..Len(sending'[c]), sending'[c][i].type = "Disconnect"
      PROVE  phase'[c] = "closing"
  <2>1. CASE ReadConnect(c, pkt)
    <3>1. sending'[c] = << [type |-> "Register", id |-> c] >>
      BY <1>0, <2>1 DEF ReadConnect, TypeOK
    <3> QED
      BY <1>5, <3>1
  <2>2. CASE ReadSubscribe(c, pkt)
    <3>1. sending'[c] = [k \in 1..Len(pkt.filters) |->
                          [type |-> "Subscribe", id |-> c, topic |-> pkt.filters[k]]]
      BY <1>0, <2>2 DEF ReadSubscribe, TypeOK
    <3>2. pkt.filters \in Seq(Filter)
      BY <1>2, <2>2, PacketCases DEF ReadSubscribe
    <3> QED
      BY <1>5, <3>1, <3>2
  <2>3. CASE ReadUnsubscribe(c, pkt)
    <3>1. sending'[c] = [k \in 1..Len(pkt.filters) |->
                          [type |-> "Unsubscribe", id |-> c, topic |-> pkt.filters[k]]]
      BY <1>0, <2>3 DEF ReadUnsubscribe, TypeOK
    <3>2. pkt.filters \in Seq(Filter)
      BY <1>2, <2>3, PacketCases DEF ReadUnsubscribe
    <3> QED
      BY <1>5, <3>1, <3>2
  <2>4. CASE ReadPublish(c, pkt)
    <3>1. sending'[c] = << [type |-> "Publish", id |-> c,
                            packet |-> Published(c, nread[c] + 1, pkt)] >>
      BY <1>0, <2>4 DEF ReadPublish, TypeOK
    <3> QED
      BY <1>5, <3>1
  <2>5. CASE ReadPing(c, pkt) \/ ReadPuback(c, pkt)
    BY <1>2, <1>5, <2>5 DEF ReadPing, ReadPuback
  <2>6. CASE ReadHangup(c, pkt)
    BY <1>0, <2>6 DEF ReadHangup, TypeOK
  <2> QED
    BY <2>1, <2>2, <2>3, <2>4, <2>5, <2>6 DEF Dispatch
<1> QED
  BY <1>2, <1>3, <1>4, <1>5

LEMMA DispatchKInv ==
    ASSUME KInv, NEW c \in Conn, NEW pkt, pkt \in Script[c][nread[c] + 1],
           Dispatch(c, pkt)
    PROVE  KInv'
<1>0. TypeOK /\ LInv /\ Leaving /\ DisconnectFinal /\ Introduced /\ KnownBeforeSubscribed
  BY DEF KInv, LInv
<1>1. LInv'
  BY <1>0, DispatchLInv
<1>2. PICK ms \in Seq(Message), a \in Event \cup {NoAck} :
             /\ phase[c] = "reading" /\ next[c] = 0
             /\ UNCHANGED <<inbox, clients, topics, job, next>>
             /\ \A i \in 1..Len(ms) : ms[i].id = c
             /\ sending' = [sending EXCEPT ![c] = ms]
             /\ ack' = [ack EXCEPT ![c] = a]
             /\ \/ phase' = phase
                \/ /\ phase' = [phase EXCEPT ![c] = "closing"]
                   /\ ms = << [type |-> "Disconnect", id |-> c] >>
                   /\ a = NoAck
  BY <1>0, DispatchEffect
<1>3. \A d \in Conn : d # c => /\ sending'[d] = sending[d] /\ phase'[d] = phase[d]
                               /\ next'[d] = next[d]
  BY <1>0, <1>2 DEF TypeOK
<1>4. /\ sending[c] = <<>> /\ nread'[c] = nread[c] + 1 /\ nread[c] \in Nat
      /\ \A d \in Conn : d # c => nread'[d] = nread[d]
      /\ c \in Polite /\ nread[c] = 0 =>
            sending'[c] = << [type |-> "Register", id |-> c] >>
      /\ \A i \in 1..Len(sending'[c]) :
           sending'[c][i].type = "Disconnect" => phase'[c] = "closing"
  BY <1>0, DispatchFirst
<1>5. \A s \in Shard, i \in Nat : \A d, t : IsMessage(s, i, d, t)' <=> IsMessage(s, i, d, t)
  BY <1>2 DEF IsMessage
<1>6. \A d \in Conn, s \in Shard : DisconnectSent(d, s) => DisconnectSent(d, s)'
  BY <1>2, <1>3 DEF DisconnectSent
<1>7. DisconnectFinal'
  <2>1. ASSUME NEW d \in Conn, NEW i \in 1..Len(sending'[d]),
               sending'[d][i].type = "Disconnect"
        PROVE  phase'[d] = "closing"
    <3>1. CASE d = c
      BY <1>4, <2>1, <3>1
    <3>2. CASE d # c
      BY <1>0, <1>3, <2>1, <3>2 DEF DisconnectFinal
    <3> QED
      BY <3>1, <3>2
  <2>2. \A d \in Conn, s \in Shard, i \in Nat :
          IsMessage(s, i, d, "Disconnect")' =>
             /\ DisconnectSent(d, s)'
             /\ \A j \in 1..Len(inbox'[s]) : j > i => inbox'[s][j].id # d
    BY <1>0, <1>2, <1>5, <1>6 DEF DisconnectFinal
  <2> QED
    BY <2>1, <2>2 DEF DisconnectFinal
<1>8. ASSUME NEW d \in Polite, NEW s \in Shard
      PROVE  /\ nread'[d] = 0 => sending'[d] = <<>>
             /\ nread'[d] # 0 => \/ DisconnectSent(d, s)'
                                 \/ Announcing(d, s)'
                                 \/ Announced(d, s)'
  <2>0. d \in Conn /\ (Announced(d, s) => Announced(d, s)')
    BY <1>2, <1>5 DEF Polite, Announced
  <2>1. CASE d # c
    <3>1. Announcing(d, s) => Announcing(d, s)'
      BY <1>3, <2>0, <2>1 DEF Announcing
    <3> QED
      BY <1>0, <1>3, <1>4, <1>6, <2>0, <2>1, <3>1 DEF Introduced
  <2>2. CASE d = c /\ nread[c] = 0
    <3>1. << [type |-> "Register", id |-> c] >> # <<>>
      OBVIOUS
    <3>2. Head(sending'[c]).type = "Register" /\ sending'[c] # <<>>
      BY <1>4, <2>2, <3>1
    <3>3. next'[c] <= s
      BY <1>2 DEF Shard
    <3> QED
      BY <1>4, <2>2, <3>2, <3>3 DEF Announcing
  <2>3. CASE d = c /\ nread[c] # 0
    <3>1. ~ DisconnectSent(c, s) /\ ~ Announcing(c, s)
      BY <1>2, <1>4 DEF DisconnectSent, Announcing
    <3>2. Announced(c, s)
      BY <1>0, <2>3, <3>1 DEF Introduced
    <3> QED
      BY <1>4, <2>0, <2>3, <3>2
  <2> QED
    BY <2>1, <2>2, <2>3
<1>9. Introduced'
  BY <1>0, <1>2, <1>5, <1>8 DEF Introduced, Polite
<1>10. KnownBeforeSubscribed'
  BY <1>0, <1>2 DEF KnownBeforeSubscribed, Polite
<1> QED
  BY <1>1, <1>7, <1>9, <1>10 DEF KInv

\* Steps that touch neither the channels, the registry nor what is being sent.
LEMMA FrameKInv ==
    ASSUME KInv, LInv', UNCHANGED <<inbox, clients, topics, sending, next, nread>>,
           \A d \in Conn : \/ phase'[d] = phase[d]
                           \/ phase[d] = "closing" /\ phase'[d] = "closed"
                                                   /\ sending[d] = <<>>
    PROVE  KInv'
<1>0. TypeOK /\ DisconnectFinal /\ Introduced /\ KnownBeforeSubscribed
  BY DEF KInv, LInv
<1>1. \A s \in Shard, i \in Nat : \A d, t : IsMessage(s, i, d, t)' <=> IsMessage(s, i, d, t)
  BY DEF IsMessage
<1>2. \A d \in Conn, s \in Shard : DisconnectSent(d, s) => DisconnectSent(d, s)'
  BY DEF DisconnectSent
<1>3. DisconnectFinal'
  <2>1. \A d \in Conn : \A i \in 1..Len(sending'[d]) :
          sending'[d][i].type = "Disconnect" => phase'[d] = "closing"
    <3>1. \A i : i \notin 1..Len(<<>>)
      OBVIOUS
    <3> QED
      BY <1>0, <3>1 DEF DisconnectFinal
  <2> QED
    BY <1>0, <1>1, <1>2, <2>1 DEF DisconnectFinal
<1>4. \A d \in Polite, s \in Shard :
        /\ d \in Conn
        /\ Announcing(d, s) => Announcing(d, s)'
        /\ Announced(d, s) => Announced(d, s)'
  BY <1>1 DEF Announcing, Announced, Polite
<1>5. Introduced'
  BY <1>0, <1>1, <1>2, <1>4 DEF Introduced, Polite
<1>6. KnownBeforeSubscribed'
  BY <1>0 DEF KnownBeforeSubscribed, Polite
<1> QED
  BY <1>3, <1>5, <1>6 DEF KInv

\* What a send of m does to the channel of shard s.
SentTo(m, s) ==
    /\ Len(inbox[s]) \in Nat
    /\ Len(inbox'[s]) = Len(inbox[s]) + 1
    /\ \A i \in 1..Len(inbox[s]) : inbox'[s][i] = inbox[s][i]
    /\ inbox'[s][Len(inbox[s]) + 1] = m
    /\ \A t \in Shard : t # s => inbox'[t] = inbox[t]
    /\ \A t \in Shard, i \in Nat, d \in Conn, ty \in {"Register", "Subscribe", "Disconnect"} :
         /\ IsMessage(t, i, d, ty) => IsMessage(t, i, d, ty)'
         /\ IsMessage(t, i, d, ty)' =>
               \/ IsMessage(t, i, d, ty)
               \/ t = s /\ i = Len(inbox[s]) + 1 /\ m.id = d /\ m.type = ty

LEMMA SendChannel ==
    ASSUME NEW m \in Message, NEW s \in Shard, inbox[s] \in Seq(Message),
           inbox'[s] = Append(inbox[s], m),
           \A t \in Shard : t # s => inbox'[t] = inbox[t]
    PROVE  SentTo(m, s)
<1>3. /\ Len(inbox[s]) \in Nat
      /\ Len(inbox'[s]) = Len(inbox[s]) + 1
      /\ \A i \in 1..Len(inbox[s]) : inbox'[s][i] = inbox[s][i]
      /\ inbox'[s][Len(inbox[s]) + 1] = m
  BY AppendProperties
<1>4. ASSUME NEW t \in Shard, NEW i \in Nat, NEW d \in Conn,
             NEW ty \in {"Register", "Subscribe", "Disconnect"}
      PROVE  /\ IsMessage(t, i, d, ty) => IsMessage(t, i, d, ty)'
             /\ IsMessage(t, i, d, ty)' =>
                   \/ IsMessage(t, i, d, ty)
                   \/ t = s /\ i = Len(inbox[s]) + 1 /\ m.id = d /\ m.type = ty
  <2>1. CASE t # s
    BY <2>1 DEF IsMessage
  <2>2. CASE t = s /\ i \in 1..Len(inbox[s])
    <3>1. i \in 1..Len(inbox'[s])
      BY <1>3, <2>2
    <3> QED
      BY <1>3, <2>2, <3>1 DEF IsMessage
  <2>3. CASE t = s /\ i \notin 1..Len(inbox[s])
    <3>1. i \in 1..Len(inbox'[s]) => i = Len(inbox[s]) + 1
      BY <1>3, <2>3
    <3> QED
      BY <1>3, <2>3, <3>1 DEF IsMessage
  <2> QED
    BY <2>1, <2>2, <2>3
<1> QED
  BY <1>3, <1>4 DEF SentTo

LEMMA SendKInv ==
    ASSUME KInv, NEW c \in Conn, Send(c)
    PROVE  KInv'
<1>0. TypeOK /\ LInv /\ Leaving /\ DisconnectFinal /\ Introduced /\ KnownBeforeSubscribed
  BY DEF KInv, LInv
<1>1. LInv'
  BY <1>0, SendLInv
<1>2. PICK m \in Message, s \in Shard :
             /\ sending[c] # <<>> /\ m = Head(sending[c])
             /\ s = IF Broadcast(m) THEN next[c] ELSE HomeShard(m)
             /\ inbox' = [inbox EXCEPT ![s] = Append(inbox[s], m)]
             /\ IF Broadcast(m) /\ next[c] + 1 < N
                THEN /\ next' = [next EXCEPT ![c] = next[c] + 1]
                     /\ next[c] + 1 \in Shard
                     /\ sending' = sending
                ELSE /\ next' = [next EXCEPT ![c] = 0]
                     /\ sending' = [sending EXCEPT ![c] = Tail(sending[c])]
             /\ UNCHANGED <<shardVars, outbound, phase, ack, nread>>
  BY <1>0, SendStep
<1>3. UNCHANGED <<clients, topics, phase, nread>>
  BY <1>2 DEF shardVars
<1>4. /\ sending[c] \in Seq(Message) /\ Len(sending[c]) \in Nat /\ Len(sending[c]) >= 1
      /\ m = sending[c][1] /\ m.id = c
      /\ Len(Tail(sending[c])) = Len(sending[c]) - 1
      /\ \A i \in 1..Len(Tail(sending[c])) : Tail(sending[c])[i] = sending[c][i + 1]
      /\ next[c] \in Nat
  <2>1. sending[c] \in Seq(Message) /\ sending[c] # <<>> /\ next[c] \in Shard
    BY <1>0, <1>2 DEF TypeOK
  <2>2. Len(sending[c]) \in Nat /\ Len(sending[c]) # 0 /\ m = sending[c][1]
    BY <1>2, <2>1
  <2>3. Len(sending[c]) >= 1 /\ 1 \in 1..Len(sending[c])
    BY <2>2
  <2>4. m.id = c
    BY <1>0, <2>2, <2>3 DEF Leaving
  <2>5. next[c] \in Nat
    BY <2>1 DEF Shard
  <2> QED
    BY <2>1, <2>2, <2>3, <2>4, <2>5, HeadTailProperties
<1>5. /\ \A d \in Conn : d # c => sending'[d] = sending[d] /\ next'[d] = next[d]
      /\ \/ /\ Broadcast(m) /\ next[c] + 1 < N
            /\ sending'[c] = sending[c] /\ next'[c] = next[c] + 1
         \/ /\ ~(Broadcast(m) /\ next[c] + 1 < N)
            /\ sending'[c] = Tail(sending[c]) /\ next'[c] = 0
  BY <1>0, <1>2 DEF TypeOK
<1>6. /\ Len(inbox[s]) \in Nat
      /\ Len(inbox'[s]) = Len(inbox[s]) + 1
      /\ \A i \in 1..Len(inbox[s]) : inbox'[s][i] = inbox[s][i]
      /\ inbox'[s][Len(inbox[s]) + 1] = m
      /\ \A t \in Shard : t # s => inbox'[t] = inbox[t]
      /\ \A t \in Shard, i \in Nat, d \in Conn, ty \in {"Register", "Subscribe", "Disconnect"} :
           /\ IsMessage(t, i, d, ty) => IsMessage(t, i, d, ty)'
           /\ IsMessage(t, i, d, ty)' =>
                 \/ IsMessage(t, i, d, ty)
                 \/ t = s /\ i = Len(inbox[s]) + 1 /\ m.id = d /\ m.type = ty
  <2>1. /\ inbox[s] \in Seq(Message) /\ inbox'[s] = Append(inbox[s], m)
        /\ \A t \in Shard : t # s => inbox'[t] = inbox[t]
    BY <1>0, <1>2 DEF TypeOK
  <2> QED
    BY <2>1, SendChannel DEF SentTo
<1>7. /\ m.type \in {"Register", "Disconnect"} => Broadcast(m) /\ s = next[c]
      /\ phase[c] # "closed"
      /\ phase[c] = "closing" => m.type = "Disconnect" /\ Len(sending[c]) = 1
      /\ m.type = "Disconnect" => phase[c] = "closing"
  <2>1. m.type \in {"Register", "Disconnect"} => Broadcast(m) /\ s = next[c]
    BY <1>2 DEF Broadcast
  <2>2. phase[c] # "closed"
    BY <1>0, <1>2 DEF Leaving
  <2>3. ASSUME phase[c] = "closing"
        PROVE  m.type = "Disconnect" /\ Len(sending[c]) = 1
    <3>1. sending[c] = << [type |-> "Disconnect", id |-> c] >>
      BY <1>0, <1>2, <2>3 DEF Leaving
    <3> QED
      BY <1>4, <3>1
  <2>4. m.type = "Disconnect" => phase[c] = "closing"
    <3>1. 1 \in 1..Len(sending[c])
      BY <1>4
    <3> QED
      BY <1>0, <1>4, <3>1 DEF DisconnectFinal
  <2> QED
    BY <2>1, <2>2, <2>3, <2>4
<1>8. phase[c] = "closing" /\ sending'[c] = Tail(sending[c]) => sending'[c] = <<>>
  <2>1. SUFFICES ASSUME phase[c] = "closing" PROVE Tail(sending[c]) = <<>>
    OBVIOUS
  <2>2. sending[c] = << [type |-> "Disconnect", id |-> c] >>
    BY <1>0, <1>2, <2>1 DEF Leaving
  <2> QED
    BY <2>2
<1>9. \A d \in Conn, t \in Shard : DisconnectSent(d, t) => DisconnectSent(d, t)'
  <2> SUFFICES ASSUME NEW d \in Conn, NEW t \in Shard, DisconnectSent(d, t)
               PROVE  DisconnectSent(d, t)'
    OBVIOUS
  <2>1. CASE d # c
    BY <1>3, <1>5, <2>1 DEF DisconnectSent
  <2>2. CASE d = c
    <3>1. phase[c] = "closing" /\ next[c] > t /\ t \in Nat
      BY <1>2, <1>7, <2>2 DEF DisconnectSent, Shard
    <3>2. sending'[c] = <<>> \/ next'[c] = next[c] + 1
      BY <1>5, <1>8, <3>1
    <3>3. next[c] + 1 > t
      BY <1>4, <3>1
    <3> QED
      BY <1>3, <2>2, <3>1, <3>2, <3>3 DEF DisconnectSent
  <2> QED
    BY <2>1, <2>2
<1>10. ~ DisconnectSent(c, s)
  <2>1. SUFFICES ASSUME phase[c] = "closing", next[c] > s PROVE FALSE
    BY <1>2, <1>7 DEF DisconnectSent
  <2>2. s = next[c]
    BY <1>7, <2>1
  <2> QED
    BY <1>4, <2>1, <2>2
<1>11. DisconnectFinal'
  <2>1. ASSUME NEW d \in Conn, NEW i \in 1..Len(sending'[d]),
               sending'[d][i].type = "Disconnect"
        PROVE  phase'[d] = "closing"
    <3>1. CASE sending'[d] = sending[d]
      BY <1>0, <1>3, <2>1, <3>1 DEF DisconnectFinal
    <3>2. CASE d = c /\ sending'[c] = Tail(sending[c])
      <4>1. i + 1 \in 1..Len(sending[c]) /\ sending[c][i + 1].type = "Disconnect"
        BY <1>4, <2>1, <3>2
      <4> QED
        BY <1>0, <1>3, <3>2, <4>1 DEF DisconnectFinal
    <3> QED
      BY <1>5, <3>1, <3>2
  <2>2. ASSUME NEW d \in Conn, NEW t \in Shard, NEW i \in Nat,
               IsMessage(t, i, d, "Disconnect")'
        PROVE  /\ DisconnectSent(d, t)'
               /\ \A j \in 1..Len(inbox'[t]) : j > i => inbox'[t][j].id # d
    <3>1. CASE IsMessage(t, i, d, "Disconnect")
      <4>1. /\ DisconnectSent(d, t) /\ DisconnectSent(d, t)'
            /\ \A j \in 1..Len(inbox[t]) : j > i => inbox[t][j].id # d
        BY <1>0, <1>9, <3>1 DEF DisconnectFinal
      <4>2. CASE t # s
        BY <1>6, <4>1, <4>2
      <4>3. CASE t = s
        <5>1. d # c
          BY <1>10, <4>1, <4>3
        <5>2. \A j \in 1..Len(inbox'[s]) : j \in 1..Len(inbox[s]) \/ j = Len(inbox[s]) + 1
          BY <1>6
        <5> QED
          BY <1>4, <1>6, <4>1, <4>3, <5>1, <5>2
      <4> QED
        BY <4>2, <4>3
    <3>2. CASE ~ IsMessage(t, i, d, "Disconnect")
      <4>1. t = s /\ i = Len(inbox[s]) + 1 /\ d = c /\ m.type = "Disconnect"
        BY <1>4, <1>6, <2>2, <3>2
      <4>2. \A j \in 1..Len(inbox'[s]) : ~(j > i)
        BY <1>6, <4>1
      <4>3. phase'[c] = "closing" /\ (sending'[c] = <<>> \/ next'[c] = s + 1)
        BY <1>3, <1>5, <1>7, <1>8, <4>1
      <4>4. s + 1 > s
        BY DEF Shard
      <4> QED
        BY <4>1, <4>2, <4>3, <4>4 DEF DisconnectSent
    <3> QED
      BY <3>1, <3>2
  <2> QED
    BY <2>1, <2>2 DEF DisconnectFinal
<1>12. ASSUME NEW d \in Polite, NEW t \in Shard
       PROVE  /\ nread'[d] = 0 => sending'[d] = <<>>
              /\ nread'[d] # 0 => \/ DisconnectSent(d, t)'
                                  \/ Announcing(d, t)'
                                  \/ Announced(d, t)'
  <2>0. d \in Conn /\ (Announced(d, t) => Announced(d, t)')
    BY <1>3, <1>6 DEF Polite, Announced
  <2>1. CASE d # c
    <3>1. Announcing(d, t) => Announcing(d, t)'
      BY <1>5, <2>0, <2>1 DEF Announcing
    <3> QED
      BY <1>0, <1>3, <1>5, <1>9, <2>0, <2>1, <3>1 DEF Introduced
  <2>2. CASE d = c
    <3>1. nread[c] # 0
      BY <1>0, <1>2, <2>2 DEF Introduced
    <3>2. CASE Announcing(c, t)
      <4>1. m.type = "Register" /\ Broadcast(m) /\ s = next[c] /\ next[c] <= t
        BY <1>2, <1>7, <3>2 DEF Announcing
      <4>2. CASE t = s
        <5>1. ASSUME NEW i \in Nat, i = Len(inbox[s]) + 1
              PROVE  IsMessage(s, i, c, "Register")'
          <6>1. Len(inbox[s]) + 1 \in 1..Len(inbox'[s])
            BY <1>6
          <6>2. inbox'[s][Len(inbox[s]) + 1] = m /\ m.id = c /\ m.type = "Register"
            BY <1>4, <1>6, <4>1
          <6> QED
            BY <5>1, <6>1, <6>2 DEF IsMessage
        <5>2. Len(inbox[s]) + 1 \in Nat
          BY <1>6
        <5> QED
          BY <1>3, <2>2, <3>1, <4>2, <5>1, <5>2 DEF Announced
      <4>3. CASE t # s
        <5>1. next[c] + 1 <= t /\ next[c] + 1 < N
          BY <1>4, <4>1, <4>3, ShardFacts DEF Shard
        <5>2. sending'[c] = sending[c] /\ next'[c] = next[c] + 1
          BY <1>5, <4>1, <5>1
        <5> QED
          BY <1>3, <2>2, <3>1, <3>2, <5>1, <5>2 DEF Announcing
      <4> QED
        BY <2>2, <3>1, <1>3, <4>2, <4>3
    <3>3. CASE ~ Announcing(c, t)
      BY <1>0, <1>3, <1>9, <2>0, <2>2, <3>1, <3>3 DEF Introduced
    <3> QED
      BY <1>3, <2>2, <3>1, <3>2, <3>3
  <2> QED
    BY <2>1, <2>2
<1>13. ASSUME NEW d \in Polite, NEW t \in Shard, NEW i \in Nat,
              IsMessage(t, i, d, "Subscribe")'
       PROVE  \/ d \in clients'[t]
              \/ \E j \in Nat : j < i /\ IsMessage(t, j, d, "Register")'
  <2>0. d \in Conn
    BY DEF Polite
  <2>1. CASE IsMessage(t, i, d, "Subscribe")
    BY <1>0, <1>3, <1>6, <2>0, <2>1 DEF Introduced
  <2>2. CASE ~ IsMessage(t, i, d, "Subscribe")
    <3>1. t = s /\ i = Len(inbox[s]) + 1 /\ d = c /\ m.type = "Subscribe"
      BY <1>4, <1>6, <1>13, <2>0, <2>2
    <3>2. ~ Announcing(c, s) /\ nread[c] # 0
      BY <1>0, <1>2, <3>1 DEF Announcing, Introduced
    <3>3. Announced(c, s)
      BY <1>0, <1>10, <3>1, <3>2 DEF Introduced
    <3>4. \A j \in Nat : IsMessage(s, j, c, "Register") => j < i
      BY <1>6, <3>1 DEF IsMessage
    <3> QED
      BY <1>3, <1>6, <3>1, <3>3, <3>4 DEF Announced
  <2> QED
    BY <2>1, <2>2
<1>14. Introduced'
  BY <1>12, <1>13 DEF Introduced, Polite
<1>15. KnownBeforeSubscribed'
  BY <1>0, <1>3 DEF KnownBeforeSubscribed, Polite
<1> QED
  BY <1>1, <1>11, <1>14, <1>15 DEF KInv

\* What handling a message does to the channel and the registry of the shard.
LEMMA HandleRegistry ==
    ASSUME TypeOK, NEW s \in Shard, NEW m, Handle(s, m)
    PROVE  /\ UNCHANGED <<phase, sending, next, nread, outbound>>
           /\ m \in Message /\ Len(inbox[s]) \in Nat /\ Len(inbox[s]) >= 1
           /\ m = inbox[s][1]
           /\ Len(inbox'[s]) = Len(inbox[s]) - 1
           /\ \A i \in 1..Len(inbox'[s]) : inbox'[s][i] = inbox[s][i + 1]
           /\ \A t \in Shard : t # s => /\ inbox'[t] = inbox[t]
                                        /\ clients'[t] = clients[t]
                                        /\ topics'[t] = topics[t]
           /\ \A c \in clients[s] :
                c \in clients'[s] \/ (m.type = "Disconnect" /\ m.id = c)
           /\ m.type = "Register" => m.id \in clients'[s]
           /\ \A f \in Filter, c \in Conn : topics'[s][f][c] > 0 =>
                \/ topics[s][f][c] > 0 /\ ~(m.type = "Disconnect" /\ m.id = c)
                \/ m.type = "Subscribe" /\ m.id = c /\ m.topic = f /\ clients' = clients
<1>0. Receive(s, m)
  BY HandleEffect
<1>1. /\ m \in Message /\ inbox[s] # <<>> /\ m = Head(inbox[s])
      /\ inbox' = [inbox EXCEPT ![s] = Tail(inbox[s])]
      /\ UNCHANGED readerVars
  BY <1>0, ReceiveType
<1>2. m.id \in Conn
  BY <1>1, MessageFields
<1>3. UNCHANGED <<phase, sending, next, nread, outbound>>
  BY <1>1 DEF readerVars, Handle, HandleRegister, HandleSubscribe, HandleUnsubscribe,
              HandlePublish, HandleDisconnect
<1>4. /\ Len(inbox[s]) \in Nat /\ Len(inbox[s]) >= 1 /\ m = inbox[s][1]
      /\ Len(inbox'[s]) = Len(inbox[s]) - 1
      /\ \A i \in 1..Len(inbox'[s]) : inbox'[s][i] = inbox[s][i + 1]
      /\ \A t \in Shard : t # s => inbox'[t] = inbox[t]
  <2>1. inbox[s] \in Seq(Message) /\ inbox'[s] = Tail(inbox[s])
    BY <1>1 DEF TypeOK
  <2>2. Len(inbox[s]) \in Nat /\ Len(inbox[s]) # 0 /\ m = inbox[s][1]
    BY <1>1, <2>1
  <2>3. /\ Len(Tail(inbox[s])) = Len(inbox[s]) - 1
        /\ \A i \in 1..Len(Tail(inbox[s])) : Tail(inbox[s])[i] = inbox[s][i + 1]
    BY <1>1, <2>1, HeadTailProperties
  <2>4. \A t \in Shard : t # s => inbox'[t] = inbox[t]
    BY <1>1 DEF TypeOK
  <2> QED
    BY <2>1, <2>2, <2>3, <2>4
<1>5. \A t \in Shard : t # s => clients'[t] = clients[t] /\ topics'[t] = topics[t]
  BY HandleEffect
<1>6. /\ \A c \in clients[s] :
           c \in clients'[s] \/ (m.type = "Disconnect" /\ m.id = c)
      /\ m.type = "Register" => m.id \in clients'[s]
  <2>1. CASE HandleRegister(s, m)
    BY <2>1 DEF HandleRegister, TypeOK
  <2>2. CASE HandleDisconnect(s, m)
    BY <2>2 DEF HandleDisconnect, TypeOK
  <2>3. CASE HandleSubscribe(s, m) \/ HandleUnsubscribe(s, m) \/ HandlePublish(s, m)
    BY <2>3 DEF HandleSubscribe, HandleUnsubscribe, HandlePublish
  <2> QED
    BY <2>1, <2>2, <2>3 DEF Handle
<1>7. ASSUME NEW f \in Filter, NEW c \in Conn, topics'[s][f][c] > 0
      PROVE  \/ topics[s][f][c] > 0 /\ ~(m.type = "Disconnect" /\ m.id = c)
             \/ m.type = "Subscribe" /\ m.id = c /\ m.topic = f /\ clients' = clients
  <2>1. CASE HandleRegister(s, m) \/ HandlePublish(s, m)
    BY <1>7, <2>1 DEF HandleRegister, HandlePublish
  <2>2. CASE HandleSubscribe(s, m)
    <3>1. m.topic \in Filter /\ m.type = "Subscribe" /\ clients' = clients
      BY <1>1, <2>2, MessageFields DEF HandleSubscribe
    <3>2. topics' = [topics EXCEPT ![s] =
                     [topics[s] EXCEPT ![m.topic] = Subscribed(topics[s][m.topic], m.id)]]
      BY <2>2, <3>1 DEF HandleSubscribe, TypeOK
    <3>3. topics'[s][f][c] = topics[s][f][c] \/ (m.topic = f /\ m.id = c)
      BY <1>2, <3>1, <3>2 DEF Subscribed, TypeOK
    <3> QED
      BY <1>7, <3>1, <3>3
  <2>3. CASE HandleUnsubscribe(s, m)
    <3>1. m.topic \in Filter /\ m.type = "Unsubscribe"
      BY <1>1, <2>3, MessageFields DEF HandleUnsubscribe
    <3>2. topics' = [topics EXCEPT ![s] =
                     [topics[s] EXCEPT ![m.topic] = Removed(topics[s][m.topic], m.id)]]
      BY <2>3, <3>1 DEF HandleUnsubscribe, TypeOK
    <3>3. topics'[s][f][c] = topics[s][f][c] \/ topics'[s][f][c] = 0
      BY <1>2, <3>1, <3>2 DEF Removed, TypeOK
    <3> QED
      BY <1>7, <3>1, <3>3
  <2>4. CASE HandleDisconnect(s, m)
    <3>1. topics'[s] = [g \in Filter |-> Removed(topics[s][g], m.id)]
      BY <2>4 DEF HandleDisconnect, TypeOK
    <3>2. topics'[s][f][c] = IF c = m.id THEN 0 ELSE topics[s][f][c]
      BY <1>2, <3>1 DEF Removed, TypeOK
    <3> QED
      BY <1>7, <3>2
  <2> QED
    BY <2>1, <2>2, <2>3, <2>4 DEF Handle
<1> QED
  BY <1>1, <1>3, <1>4, <1>5, <1>6, <1>7

LEMMA HandleKInv ==
    ASSUME KInv, NEW s \in Shard, NEW m, Handle(s, m)
    PROVE  KInv'
<1>0. TypeOK /\ LInv /\ DisconnectFinal /\ Introduced /\ KnownBeforeSubscribed
  BY DEF KInv, LInv
<1>1. LInv'
  BY <1>0, HandleLInv
<1>2. /\ UNCHANGED <<phase, sending, next, nread>>
      /\ Len(inbox[s]) \in Nat /\ Len(inbox[s]) >= 1
      /\ m = inbox[s][1]
      /\ Len(inbox'[s]) = Len(inbox[s]) - 1
      /\ \A i \in 1..Len(inbox'[s]) : inbox'[s][i] = inbox[s][i + 1]
      /\ \A t \in Shard : t # s => /\ inbox'[t] = inbox[t]
                                   /\ clients'[t] = clients[t]
                                   /\ topics'[t] = topics[t]
  BY <1>0, HandleRegistry
<1>3. /\ \A c \in clients[s] :
           c \in clients'[s] \/ (m.type = "Disconnect" /\ m.id = c)
      /\ m.type = "Register" => m.id \in clients'[s]
      /\ \A f \in Filter, c \in Conn : topics'[s][f][c] > 0 =>
           \/ topics[s][f][c] > 0 /\ ~(m.type = "Disconnect" /\ m.id = c)
           \/ m.type = "Subscribe" /\ m.id = c /\ m.topic = f /\ clients' = clients
  BY <1>0, HandleRegistry
<1>4. \A t \in Shard, i \in Nat, d \in Conn,
         ty \in {"Register", "Subscribe", "Disconnect"} :
        /\ t # s => (IsMessage(t, i, d, ty)' <=> IsMessage(t, i, d, ty))
        /\ IsMessage(s, i, d, ty)' => IsMessage(s, i + 1, d, ty)
        /\ IsMessage(s, i, d, ty) =>
              \/ i = 1 /\ m.id = d /\ m.type = ty
              \/ i - 1 \in Nat /\ i # 1 /\ IsMessage(s, i - 1, d, ty)'
  <2> SUFFICES ASSUME NEW t \in Shard, NEW i \in Nat, NEW d \in Conn,
                      NEW ty \in {"Register", "Subscribe", "Disconnect"}
               PROVE  /\ t # s => (IsMessage(t, i, d, ty)' <=> IsMessage(t, i, d, ty))
                      /\ IsMessage(s, i, d, ty)' => IsMessage(s, i + 1, d, ty)
                      /\ IsMessage(s, i, d, ty) =>
                            \/ i = 1 /\ m.id = d /\ m.type = ty
                            \/ i - 1 \in Nat /\ i # 1 /\ IsMessage(s, i - 1, d, ty)'
    OBVIOUS
  <2>1. t # s => (IsMessage(t, i, d, ty)' <=> IsMessage(t, i, d, ty))
    BY <1>2 DEF IsMessage
  <2>2. ASSUME IsMessage(s, i, d, ty)' PROVE IsMessage(s, i + 1, d, ty)
    <3>1. i \in 1..Len(inbox'[s]) /\ i + 1 \in 1..Len(inbox[s])
      BY <1>2, <2>2 DEF IsMessage
    <3> QED
      BY <1>2, <2>2, <3>1 DEF IsMessage
  <2>3. ASSUME IsMessage(s, i, d, ty), i # 1
        PROVE  i - 1 \in Nat /\ IsMessage(s, i - 1, d, ty)'
    <3>1. i - 1 \in 1..Len(inbox'[s]) /\ (i - 1) + 1 = i
      BY <1>2, <2>3 DEF IsMessage
    <3>2. inbox'[s][i - 1] = inbox[s][i]
      BY <1>2, <3>1
    <3> QED
      BY <2>3, <3>1, <3>2 DEF IsMessage
  <2>4. IsMessage(s, i, d, ty) /\ i = 1 => m.id = d /\ m.type = ty
    BY <1>2 DEF IsMessage
  <2> QED
    BY <2>1, <2>2, <2>3, <2>4
<1>5. \A d \in Conn, t \in Shard : DisconnectSent(d, t)' <=> DisconnectSent(d, t)
  BY <1>2 DEF DisconnectSent
<1>6. \A d \in Conn, ty \in {"Register", "Subscribe", "Disconnect"} :
        m.id = d /\ m.type = ty => IsMessage(s, 1, d, ty)
  <2>1. 1 \in 1..Len(inbox[s])
    BY <1>2
  <2> QED
    BY <1>2, <2>1 DEF IsMessage
<1>7. DisconnectFinal'
  <2>1. ASSUME NEW d \in Conn, NEW t \in Shard, NEW i \in Nat,
               IsMessage(t, i, d, "Disconnect")'
        PROVE  /\ DisconnectSent(d, t)'
               /\ \A j \in 1..Len(inbox'[t]) : j > i => inbox'[t][j].id # d
    <3>1. CASE t # s
      BY <1>0, <1>2, <1>4, <1>5, <2>1, <3>1 DEF DisconnectFinal
    <3>2. CASE t = s
      <4>1. IsMessage(s, i + 1, d, "Disconnect") /\ i + 1 \in Nat
        BY <1>4, <2>1, <3>2
      <4>2. /\ DisconnectSent(d, s)
            /\ \A j \in 1..Len(inbox[s]) : j > i + 1 => inbox[s][j].id # d
        BY <1>0, <4>1 DEF DisconnectFinal
      <4>3. ASSUME NEW j \in 1..Len(inbox'[s]), j > i
            PROVE  inbox'[s][j].id # d
        <5>1. j + 1 \in 1..Len(inbox[s]) /\ j + 1 > i + 1
          BY <1>2, <4>3
        <5> QED
          BY <1>2, <4>2, <5>1
      <4> QED
        BY <1>5, <3>2, <4>2, <4>3
    <3> QED
      BY <3>1, <3>2
  <2> QED
    BY <1>0, <1>2, <2>1 DEF DisconnectFinal
<1>8. ASSUME NEW d \in Polite, NEW t \in Shard
      PROVE  /\ nread'[d] = 0 => sending'[d] = <<>>
             /\ nread'[d] # 0 => \/ DisconnectSent(d, t)'
                                 \/ Announcing(d, t)'
                                 \/ Announced(d, t)'
  <2>0. d \in Conn /\ (Announcing(d, t) => Announcing(d, t)')
    BY <1>2 DEF Polite, Announcing
  <2>1. ASSUME Announced(d, t) PROVE DisconnectSent(d, t)' \/ Announced(d, t)'
    <3>1. CASE t # s
      BY <1>2, <1>4, <2>0, <2>1, <3>1 DEF Announced
    <3>2. CASE t = s /\ d \in clients[s]
      <4>1. CASE d \in clients'[s]
        BY <3>2, <4>1 DEF Announced
      <4>2. CASE d \notin clients'[s]
        <5>1. IsMessage(s, 1, d, "Disconnect")
          BY <1>3, <1>6, <2>0, <3>2, <4>2
        <5> QED
          BY <1>0, <1>5, <2>0, <3>2, <5>1 DEF DisconnectFinal
      <4> QED
        BY <4>1, <4>2
    <3>3. CASE t = s /\ d \notin clients[s]
      <4>1. PICK i \in Nat : IsMessage(s, i, d, "Register")
        BY <2>1, <3>3 DEF Announced
      <4> QED
        BY <1>3, <1>4, <2>0, <3>3, <4>1 DEF Announced
    <3> QED
      BY <3>1, <3>2, <3>3
  <2> QED
    BY <1>0, <1>2, <1>5, <2>0, <2>1 DEF Introduced
<1>9. ASSUME NEW d \in Polite, NEW t \in Shard, NEW i \in Nat,
             IsMessage(t, i, d, "Subscribe")'
      PROVE  \/ d \in clients'[t]
             \/ \E j \in Nat : j < i /\ IsMessage(t, j, d, "Register")'
  <2>0. d \in Conn
    BY DEF Polite
  <2>1. CASE t # s
    BY <1>0, <1>2, <1>4, <1>9, <2>0, <2>1 DEF Introduced
  <2>2. CASE t = s
    <3>1. IsMessage(s, i + 1, d, "Subscribe") /\ i + 1 \in Nat /\ i # 0
      BY <1>4, <1>9, <2>0, <2>2 DEF IsMessage
    <3>2. CASE d \in clients[s]
      <4>1. CASE d \in clients'[s]
        BY <2>2, <4>1
      <4>2. CASE d \notin clients'[s]
        <5>1. IsMessage(s, 1, d, "Disconnect")
          BY <1>3, <1>6, <2>0, <3>2, <4>2
        <5>2. i + 1 \in 1..Len(inbox[s]) /\ i + 1 > 1 /\ inbox[s][i + 1].id = d
          BY <3>1 DEF IsMessage
        <5> QED
          BY <1>0, <2>0, <5>1, <5>2 DEF DisconnectFinal
      <4> QED
        BY <4>1, <4>2
    <3>3. CASE d \notin clients[s]
      <4>1. PICK j \in Nat : j < i + 1 /\ IsMessage(s, j, d, "Register")
        BY <1>0, <3>1, <3>3 DEF Introduced
      <4>2. CASE m.id = d /\ m.type = "Register"
        BY <1>3, <2>2, <4>2
      <4>3. CASE j - 1 \in Nat /\ IsMessage(s, j - 1, d, "Register")'
        BY <2>2, <4>1, <4>3
      <4> QED
        BY <1>4, <2>0, <4>1, <4>2, <4>3
    <3> QED
      BY <3>2, <3>3
  <2> QED
    BY <2>1, <2>2
<1>10. Introduced'
  BY <1>8, <1>9 DEF Introduced, Polite
<1>11. KnownBeforeSubscribed'
  <2> SUFFICES ASSUME NEW d \in Polite, NEW t \in Shard, NEW f \in Filter,
                      topics'[t][f][d] > 0
               PROVE  d \in clients'[t]
    BY DEF KnownBeforeSubscribed, Polite
  <2>0. d \in Conn
    BY DEF Polite
  <2>1. CASE t # s
    BY <1>0, <1>2, <2>1 DEF KnownBeforeSubscribed
  <2>2. CASE t = s /\ topics[s][f][d] > 0 /\ ~(m.type = "Disconnect" /\ m.id = d)
    BY <1>0, <1>3, <2>2 DEF KnownBeforeSubscribed
  <2>3. CASE t = s /\ m.type = "Subscribe" /\ m.id = d /\ clients' = clients
    <3>1. IsMessage(s, 1, d, "Subscribe")
      BY <1>6, <2>0, <2>3
    <3>2. \A j \in Nat : j < 1 => ~ IsMessage(s, j, d, "Register")
      BY DEF IsMessage
    <3> QED
      BY <1>0, <2>3, <3>1, <3>2 DEF Introduced
  <2> QED
    BY <1>3, <2>0, <2>1, <2>2, <2>3
<1> QED
  BY <1>1, <1>7, <1>10, <1>11 DEF KInv

LEMMA NextKInv == KInv /\ [Next]_vars => KInv'
<1> SUFFICES ASSUME KInv, [Next]_vars PROVE KInv'
  OBVIOUS
<1>0. LInv /\ LInv' /\ TypeOK
  BY NextLInv DEF KInv, LInv
<1>1. CASE UNCHANGED vars
  BY <1>0, <1>1, FrameKInv DEF vars
<1>2. ASSUME NEW c \in Conn, ClientStep(c) PROVE KInv'
  BY <1>2, DispatchKInv DEF ClientStep
<1>3. ASSUME NEW c \in Conn, Answer(c) \/ Close(c) PROVE KInv'
  <2>1. UNCHANGED <<inbox, clients, topics, sending, next, nread>>
    BY <1>3 DEF Answer, Close, shardVars
  <2>2. \A d \in Conn : \/ phase'[d] = phase[d]
                        \/ phase[d] = "closing" /\ phase'[d] = "closed"
                                                /\ sending[d] = <<>>
    BY <1>0, <1>3 DEF Answer, Close, TypeOK
  <2> QED
    BY <1>0, <2>1, <2>2, FrameKInv
<1>4. ASSUME NEW s \in Shard, ShardStep(s) PROVE KInv'
  <2>1. CASE Handle(s, Head(inbox[s]))
    BY <2>1, HandleKInv
  <2>2. CASE UNCHANGED <<inbox, clients, topics, readerVars>>
    BY <1>0, <2>2, FrameKInv DEF readerVars
  <2> QED
    BY <1>4, <2>1, <2>2 DEF ShardStep, PushReplay, FanOutVisit, FanOutFilter
<1> QED
  BY <1>1, <1>2, <1>3, <1>4, SendKInv DEF Next, ReaderStep

LEMMA KInvariant == Spec => []KInv
BY InitKInv, NextKInv, PTL DEF Spec

\* No shard has a subscription of a client it does not know, provided the
\* client's first packet is a CONNECT: the N sends of a Register are not atomic,
\* but every one of them precedes, in its channel, every Subscribe.
THEOREM BrokerKnownBeforeSubscribed == Spec => []KnownBeforeSubscribed
<1>1. KInv => KnownBeforeSubscribed
  BY DEF KInv
<1> QED
  BY <1>1, KInvariant, PTL

-----------------------------------------------------------------------------
(* Nobody misses the retained packet of a topic *)

\* The publish p has been pushed to c, live or as a replay.
Reached(c, p) ==
    \E i \in Pushes(c) : IsPublish(c, i) /\ SamePublish(PacketAt(c, i), p)

\* What shard s is in the middle of will still push p to c, if the filter f is
\* among those c has.
Pending(s, c, f, p) ==
    \/ job[s].op = "replay" /\ job[s].to = c /\ p \in job[s].packets
    \/ /\ job[s].op = "fanout" /\ job[s].packet = p
       /\ job[s].todo[c] > 0 \/ f \in job[s].wild

\* Who is in the notified list of a fan-out has got its packet.
NotifiedReached ==
    \A s \in Shard : job[s].op = "fanout" =>
        \A c \in job[s].notified : Reached(c, job[s].packet)

\* A subscriber has got what is retained for its filter, or is about to.
RetainedOrPending ==
    \A s \in Shard, f \in Filter, c \in Polite : topics[s][f][c] > 0 =>
        \A p \in retained[s] :
            Selects(f, p.topic) => Reached(c, p) \/ Pending(s, c, f, p)

RInv == KInv /\ NotifiedReached /\ RetainedOrPending

\* What has been pushed stays pushed.
LEMMA PushReached ==
    ASSUME TypeOK, NEW c \in Conn, NEW e \in Event, PushTo(c, e)
    PROVE  /\ \A d \in Conn : \A p : Reached(d, p) => Reached(d, p)'
           /\ \A p : e.type = "PUBLISH" /\ SamePublish(e.packet, p) => Reached(c, p)'
<1>1. ASSUME NEW d \in Conn, NEW p, Reached(d, p) PROVE Reached(d, p)'
  <2>1. PICK i \in Pushes(d) : IsPublish(d, i) /\ SamePublish(PacketAt(d, i), p)
    BY <1>1 DEF Reached
  <2>2. i \in 1..Len(outbound'[d]) /\ outbound'[d][i] = outbound[d][i]
    BY <2>1, PushEffect DEF Pushes
  <2> QED
    BY <2>1, <2>2 DEF Reached, Pushes, IsPublish, PacketAt, SamePublish
<1>2. ASSUME NEW p, e.type = "PUBLISH", SamePublish(e.packet, p) PROVE Reached(c, p)'
  <2>1. PICK i \in 1..Len(outbound'[c]) : outbound'[c][i] = e
    BY PushEffect
  <2> QED
    BY <1>2, <2>1 DEF Reached, Pushes, IsPublish, PacketAt, SamePublish
<1> QED
  BY <1>1, <1>2

\* A fan-out over a list with c, or with the list of f to come, will reach c.
LEMMA FanOutPending ==
    ASSUME NEW s \in Shard, NEW c \in Conn, NEW f \in Filter, NEW p, NEW e,
           NEW subs \in [Conn -> {0, 1}], NEW wild, NEW notified,
           job'[s] = FanOut(p, e, subs, wild, notified),
           subs[c] > 0 \/ f \in wild
    PROVE  Pending(s, c, f, p)'
<1>1. ~(subs = NoSubs /\ wild = {})
  BY DEF NoSubs
<1> QED
  BY <1>1 DEF FanOut, Pending

\* The steps that leave the registry, the retained store and the jobs alone.
LEMMA FrameRInv ==
    ASSUME RInv, KInv', UNCHANGED <<topics, retained, job>>,
           \A d \in Conn : \A p : Reached(d, p) => Reached(d, p)'
    PROVE  RInv'
<1>0. TypeOK /\ NotifiedReached /\ RetainedOrPending
  BY DEF RInv, KInv, LInv
<1>1. NotifiedReached'
  <2>1. \A s \in Shard : job[s].op = "fanout" => job[s].notified \in SUBSET Conn
    BY <1>0, JobFields DEF TypeOK
  <2> QED
    BY <1>0, <2>1 DEF NotifiedReached
<1>2. \A s \in Shard, f \in Filter, c \in Conn : \A p :
        Pending(s, c, f, p) => Pending(s, c, f, p)'
  BY DEF Pending
<1>3. RetainedOrPending'
  BY <1>0, <1>2 DEF RetainedOrPending, Polite, Selects
<1> QED
  BY <1>1, <1>3 DEF RInv

LEMMA InitRInv == Init => RInv
<1> SUFFICES ASSUME Init PROVE RInv
  OBVIOUS
<1>1. NotifiedReached
  BY DEF Init, Idle, NotifiedReached
<1>2. RetainedOrPending
  BY DEF Init, RetainedOrPending
<1> QED
  BY <1>1, <1>2, InitKInv DEF RInv

\* The readers push acknowledgements only.
LEMMA ReaderRInv ==
    ASSUME RInv, KInv', NEW c \in Conn, ClientStep(c) \/ ReaderStep(c)
    PROVE  RInv'
<1>0. TypeOK /\ LInv
  BY DEF RInv, KInv, LInv
<1>1. \/ UNCHANGED outbound
      \/ \E e \in Event : PushTo(c, e)
  <2>1. ASSUME NEW pkt, Dispatch(c, pkt)
        PROVE  UNCHANGED outbound \/ \E e \in Event : PushTo(c, e)
    <3>1. nread[c] + 1 \in Nat
      BY <1>0 DEF TypeOK
    <3>2. /\ [type |-> "PUBACK", pid |-> nread[c] + 1] \in Event
          /\ [type |-> "PINGRESP", pid |-> nread[c] + 1] \in Event
      BY <3>1 DEF Event
    <3> QED
      BY <2>1, <3>2 DEF Dispatch, ReadConnect, ReadSubscribe, ReadUnsubscribe,
                        ReadPublish, ReadPing, ReadPuback, ReadHangup
  <2>2. ASSUME Answer(c) PROVE \E e \in Event : PushTo(c, e)
    BY <1>0, <2>2 DEF Answer, TypeOK
  <2>3. ASSUME Send(c) \/ Close(c) PROVE UNCHANGED outbound
    BY <2>3 DEF Send, Close
  <2> QED
    BY <2>1, <2>2, <2>3 DEF ClientStep, ReaderStep
<1>2. UNCHANGED <<topics, retained, job>>
  BY DEF ClientStep, Dispatch, ReadConnect, ReadSubscribe, ReadUnsubscribe, ReadPublish,
         ReadPing, ReadPuback, ReadHangup, Begin, ReaderStep, Send, Answer, Close, shardVars
<1>3. \A d \in Conn : \A p : Reached(d, p) => Reached(d, p)'
  <2>1. CASE UNCHANGED outbound
    BY <2>1 DEF Reached, Pushes, IsPublish, PacketAt
  <2>2. CASE \E e \in Event : PushTo(c, e)
    BY <1>0, <2>2, PushReached
  <2> QED
    BY <1>1, <2>1, <2>2
<1> QED
  BY <1>2, <1>3, FrameRInv

LEMMA HandleRInv ==
    ASSUME RInv, KInv', NEW s \in Shard, NEW m, Handle(s, m)
    PROVE  RInv'
<1>0. /\ TypeOK /\ NotifiedReached /\ RetainedOrPending /\ KnownBeforeSubscribed'
      /\ TypeOK'
  BY DEF RInv, KInv, LInv
<1>1. /\ m \in Message /\ job[s] = Idle /\ outbound' = outbound
      /\ \A t \in Shard : t # s => job'[t] = job[t] /\ topics'[t] = topics[t]
  BY <1>0, HandleEffect, HandleRegistry, ReceiveType DEF Receive
<1>2. \A t \in Shard : t # s => retained'[t] = retained[t]
  BY <1>0 DEF Handle, HandleRegister, HandleSubscribe, HandleUnsubscribe, HandlePublish,
              HandleDisconnect, TypeOK
<1>3. \A d \in Conn : \A p : Reached(d, p)' <=> Reached(d, p)
  BY <1>1 DEF Reached, Pushes, IsPublish, PacketAt
<1>4. NotifiedReached'
  <2>1. job'[s].op = "fanout" => job'[s].notified = {}
    BY <1>0, HandleOrderEffect
  <2>2. \A t \in Shard : job[t].op = "fanout" => job[t].notified \in SUBSET Conn
    BY <1>0, JobFields DEF TypeOK
  <2> QED
    BY <1>0, <1>1, <1>3, <2>1, <2>2 DEF NotifiedReached
<1>5. ASSUME NEW t \in Shard, NEW f \in Filter, NEW c \in Polite, topics'[t][f][c] > 0,
             NEW p \in retained'[t], Selects(f, p.topic)
      PROVE  Reached(c, p)' \/ Pending(t, c, f, p)'
  <2>0. c \in Conn
    BY DEF Polite
  <2>1. CASE t # s
    BY <1>0, <1>1, <1>2, <1>3, <1>5, <2>0, <2>1 DEF RetainedOrPending, Pending
  <2>2. ASSUME t = s, topics[s][f][c] > 0, p \in retained[s] PROVE Reached(c, p)'
    <3>1. ~ Pending(s, c, f, p)
      BY <1>1 DEF Idle, Pending
    <3> QED
      BY <1>0, <1>3, <1>5, <2>0, <2>2, <3>1 DEF RetainedOrPending
  <2>3. CASE t = s /\ topics[s][f][c] > 0 /\ ~ HandlePublish(s, m)
    <3>1. retained' = retained
      BY <2>3 DEF Handle, HandleRegister, HandleSubscribe, HandleUnsubscribe,
                  HandleDisconnect
    <3> QED
      BY <1>5, <2>2, <2>3, <3>1
  <2>4. CASE t = s /\ ~(topics[s][f][c] > 0)
    <3>1. m.type = "Subscribe" /\ m.id = c /\ m.topic = f /\ clients' = clients
      BY <1>0, <1>5, <2>0, <2>4, HandleRegistry
    <3>2. HandleSubscribe(s, m)
      BY <3>1 DEF Handle, HandleRegister, HandleUnsubscribe, HandlePublish,
                  HandleDisconnect
    <3>3. c \in clients[s] /\ p \in retained[s]
      BY <1>0, <1>5, <2>4, <3>1, <3>2 DEF KnownBeforeSubscribed, HandleSubscribe
    <3>4. p \in RetainedFor(s, f)
      BY <1>5, <3>3 DEF RetainedFor, Selects
    <3>5. job'[s] = Replay(c, RetainedFor(s, f))
      BY <1>0, <3>1, <3>2, <3>3 DEF HandleSubscribe, TypeOK
    <3> QED
      BY <2>4, <3>4, <3>5 DEF Replay, Pending
  <2>5. CASE t = s /\ topics[s][f][c] > 0 /\ HandlePublish(s, m)
    <3>1. CASE p \in retained[s]
      BY <2>2, <2>5, <3>1
    <3>2. CASE p \notin retained[s]
      <4>1. m.packet \in Packet /\ m.packet.topic \in Topic /\ Topic \subseteq Filter
        BY <1>1, <2>5, MessageFields, PacketFields, ShardFacts DEF HandlePublish
      <4>2. retained'[s] = Stored(retained[s], m.packet)
        BY <1>0, <2>5 DEF HandlePublish, TypeOK
      <4>3. p = m.packet
        BY <1>5, <2>5, <3>2, <4>2 DEF Stored
      <4>4. /\ job'[s] = FanOut(p, TRUE, topics[s][p.topic], WildcardFilters(s, p.topic), {})
            /\ topics[s][p.topic] \in [Conn -> {0, 1}]
        <5>1. job' = [job EXCEPT ![s] = FanOut(p, TRUE, topics[s][p.topic],
                                               WildcardFilters(s, p.topic), {})]
          BY <2>5, <4>3 DEF HandlePublish
        <5>2. job \in [Shard -> Job] /\ topics \in [Shard -> [Filter -> [Conn -> {0, 1}]]]
          BY <1>0 DEF TypeOK
        <5> QED
          BY <4>1, <4>3, <5>1, <5>2
      <4>5. topics[s][p.topic][c] > 0 \/ f \in WildcardFilters(s, p.topic)
        <5>1. topics[s][f] # NoSubs
          BY <2>0, <2>5 DEF NoSubs
        <5> QED
          BY <1>5, <2>5, <5>1 DEF Selects, WildcardFilters
      <4> QED
        BY <2>0, <2>5, <4>4, <4>5, FanOutPending
    <3> QED
      BY <3>1, <3>2
  <2> QED
    BY <2>1, <2>3, <2>4, <2>5
<1>6. RetainedOrPending'
  BY <1>5 DEF RetainedOrPending, Polite, Selects
<1> QED
  BY <1>4, <1>6 DEF RInv

LEMMA JobRInv ==
    ASSUME RInv, KInv', NEW s \in Shard,
           \/ \E p \in job[s].packets : PushReplay(s, p)
           \/ \E c \in Conn : FanOutVisit(s, c)
           \/ \E f \in job[s].wild : FanOutFilter(s, f)
    PROVE  RInv'
<1>0. /\ TypeOK /\ NotifiedReached /\ RetainedOrPending /\ KnownBeforeSubscribed
  BY DEF RInv, KInv, LInv
<1>1. /\ UNCHANGED <<topics, retained, clients>>
      /\ \A t \in Shard : t # s => job'[t] = job[t]
  BY <1>0 DEF PushReplay, FanOutVisit, FanOutFilter, TypeOK
<1>2. job[s] \in Job
  BY <1>0 DEF TypeOK
\* it is enough to look at shard s
<1>3. ASSUME \A d \in Conn : \A p : Reached(d, p) => Reached(d, p)',
             job'[s].op = "fanout" =>
                \A d \in job'[s].notified : \A p : p = job'[s].packet => Reached(d, p)',
             \A f \in Filter, d \in Polite, p \in retained[s] :
                topics[s][f][d] > 0 /\ Pending(s, d, f, p) =>
                   Reached(d, p)' \/ Pending(s, d, f, p)'
      PROVE  RInv'
  <2>1. NotifiedReached'
    <3>1. \A t \in Shard : job[t].op = "fanout" => job[t].notified \in SUBSET Conn
      BY <1>0, JobFields DEF TypeOK
    <3>2. ASSUME NEW t \in Shard, job'[t].op = "fanout", NEW c \in job'[t].notified,
                 NEW p, p = job'[t].packet
          PROVE  Reached(c, p)'
      <4>1. CASE t = s
        BY <1>3, <3>2, <4>1
      <4>2. CASE t # s
        BY <1>0, <1>1, <1>3, <3>1, <3>2, <4>2 DEF NotifiedReached
      <4> QED
        BY <4>1, <4>2
    <3> QED
      BY <3>2 DEF NotifiedReached
  <2>2. ASSUME NEW t \in Shard, NEW f \in Filter, NEW c \in Polite, topics'[t][f][c] > 0,
               NEW p \in retained'[t], Selects(f, p.topic)
        PROVE  Reached(c, p)' \/ Pending(t, c, f, p)'
    <3>1. c \in Conn /\ (Reached(c, p) \/ Pending(t, c, f, p)) /\ topics[t][f][c] > 0
          /\ p \in retained[t]
      BY <1>0, <1>1, <2>2 DEF RetainedOrPending, Polite
    <3>2. CASE t = s
      BY <1>3, <3>1, <3>2
    <3>3. CASE t # s
      BY <1>1, <1>3, <3>1, <3>3 DEF Pending
    <3> QED
      BY <3>2, <3>3
  <2>3. RetainedOrPending'
    BY <2>2 DEF RetainedOrPending, Polite, Selects
  <2> QED
    BY <2>1, <2>3 DEF RInv
<1>4. ASSUME NEW q \in job[s].packets, PushReplay(s, q) PROVE RInv'
  <2>1. /\ job[s].op = "replay" /\ job[s].to \in Conn /\ q \in Packet
        /\ job'[s] = Replay(job[s].to, job[s].packets \ {q})
    BY <1>0, <1>2, <1>4, JobFields DEF PushReplay, TypeOK
  <2> DEFINE e == [type |-> "PUBLISH", via |-> "replay", packet |-> [q EXCEPT !.retain = TRUE]]
  <2>2. e \in Event /\ PushTo(job[s].to, e)
    BY <1>4, <2>1, PacketFields DEF PushReplay, Event
  <2>3. SamePublish(e.packet, q)
    BY <2>1 DEF SamePublish, Packet
  <2>4. e.type = "PUBLISH"
    OBVIOUS
  <2> HIDE DEF e
  <2>5. /\ \A d \in Conn : \A p : Reached(d, p) => Reached(d, p)'
        /\ \A d \in Conn : d = job[s].to => Reached(d, q)'
    BY <1>0, <2>1, <2>2, <2>3, <2>4, PushReached
  <2>6. job'[s].op # "fanout"
    BY <2>1 DEF Replay, Idle
  <2>7. ASSUME NEW f \in Filter, NEW d \in Polite, NEW p \in retained[s],
               Pending(s, d, f, p)
        PROVE  Reached(d, p)' \/ Pending(s, d, f, p)'
    <3>1. d \in Conn /\ d = job[s].to /\ p \in job[s].packets
      BY <2>1, <2>7 DEF Pending, Polite
    <3>2. CASE p = q
      BY <2>5, <3>1, <3>2
    <3>3. CASE p # q
      BY <2>1, <3>1, <3>3 DEF Replay, Pending
    <3> QED
      BY <3>2, <3>3
  <2> QED
    BY <1>3, <2>5, <2>6, <2>7
<1>5. ASSUME NEW c \in Conn, FanOutVisit(s, c) PROVE RInv'
  <2> DEFINE j == job[s]
             rest == [j.todo EXCEPT ![c] = j.todo[c] - 1]
             heard == IF Skipped(s, c) THEN j.notified ELSE j.notified \cup {c}
  <2>1. /\ j.op = "fanout" /\ j.todo[c] > 0
        /\ j.packet \in Packet /\ j.todo \in [Conn -> {0, 1}] /\ j.notified \in SUBSET Conn
        /\ job'[s] = FanOut(j.packet, j.exact, rest, j.wild, heard)
    BY <1>0, <1>2, <1>5, JobFields DEF FanOutVisit, TypeOK
  <2>2. rest \in [Conn -> {0, 1}] /\ \A d \in Conn : d # c => rest[d] = j.todo[d]
    BY <2>1
  <2>3. job'[s].op = "fanout" => job'[s].notified = heard /\ job'[s].packet = j.packet
    BY <2>1 DEF FanOut, Idle
  <2>4. /\ \A d \in Conn : \A p : Reached(d, p) => Reached(d, p)'
        /\ ~ Skipped(s, c) => \A p : p = j.packet => Reached(c, p)'
    <3>1. CASE Skipped(s, c)
      <4>1. outbound' = outbound
        BY <1>5, <3>1 DEF FanOutVisit
      <4> QED
        BY <3>1, <4>1 DEF Reached, Pushes, IsPublish, PacketAt
    <3>2. CASE ~ Skipped(s, c)
      <4> DEFINE e == [type |-> "PUBLISH", packet |-> j.packet, via |-> "live"]
      <4>1. PushTo(c, e) /\ e \in Event
        BY <1>5, <2>1, <3>2 DEF FanOutVisit, Event
      <4>2. e.type = "PUBLISH" /\ SamePublish(e.packet, j.packet)
        BY DEF SamePublish
      <4> HIDE DEF e
      <4> QED
        BY <1>0, <4>1, <4>2, PushReached
    <3> QED
      BY <3>1, <3>2
  <2>5. \A d \in j.notified : Reached(d, j.packet)
    BY <1>0, <2>1 DEF NotifiedReached
  <2>6. ASSUME job'[s].op = "fanout", NEW d \in job'[s].notified, NEW p, p = job'[s].packet
        PROVE  Reached(d, p)'
    BY <2>1, <2>3, <2>4, <2>5, <2>6
  <2>7. ASSUME NEW f \in Filter, NEW d \in Polite, NEW p \in retained[s],
               topics[s][f][d] > 0, Pending(s, d, f, p)
        PROVE  Reached(d, p)' \/ Pending(s, d, f, p)'
    <3>0. d \in Conn /\ p = j.packet /\ (j.todo[d] > 0 \/ f \in j.wild)
      BY <2>1, <2>7 DEF Pending, Polite
    <3>1. CASE f \in j.wild \/ d # c
      <4>1. rest[d] > 0 \/ f \in j.wild
        BY <2>2, <3>0, <3>1
      <4> QED
        BY <2>1, <2>2, <3>0, <4>1, FanOutPending
    <3>2. CASE d = c
      <4>1. c \in clients[s]
        BY <1>0, <2>7, <3>2 DEF KnownBeforeSubscribed
      <4> QED
        BY <2>4, <2>5, <3>0, <3>2, <4>1 DEF Skipped
    <3> QED
      BY <3>1, <3>2
  <2> QED
    BY <1>3, <2>4, <2>6, <2>7
<1>6. ASSUME NEW g \in job[s].wild, FanOutFilter(s, g) PROVE RInv'
  <2> DEFINE j == job[s]
  <2>1. /\ j.op = "fanout" /\ j.todo = NoSubs /\ outbound' = outbound
        /\ j.wild \in SUBSET Filter /\ j.notified \in SUBSET Conn
        /\ topics[s][g] \in [Conn -> {0, 1}]
        /\ job'[s] = FanOut(j.packet, FALSE, topics[s][g], j.wild \ {g}, j.notified)
    BY <1>0, <1>2, <1>6, JobFields DEF FanOutFilter, TypeOK
  <2>2. \A d \in Conn : \A p : Reached(d, p) => Reached(d, p)'
    BY <2>1 DEF Reached, Pushes, IsPublish, PacketAt
  <2>3. job'[s].op = "fanout" =>
           \A d \in job'[s].notified : \A p : p = job'[s].packet => Reached(d, p)'
    <3>1. job'[s].op = "fanout" => job'[s].notified = j.notified /\ job'[s].packet = j.packet
      BY <2>1 DEF FanOut, Idle
    <3>2. \A d \in j.notified : Reached(d, j.packet)
      BY <1>0, <2>1 DEF NotifiedReached
    <3> QED
      BY <2>1, <2>2, <3>1, <3>2
  <2>4. ASSUME NEW f \in Filter, NEW d \in Polite, NEW p \in retained[s],
               topics[s][f][d] > 0, Pending(s, d, f, p)
        PROVE  Pending(s, d, f, p)'
    <3>1. d \in Conn /\ p = j.packet /\ f \in j.wild
      BY <2>1, <2>4 DEF Pending, Polite, NoSubs
    <3>2. topics[s][g][d] > 0 \/ f \in j.wild \ {g}
      BY <2>4, <3>1
    <3> QED
      BY <2>1, <3>1, <3>2, FanOutPending
  <2> QED
    BY <1>3, <2>2, <2>3, <2>4
<1> QED
  BY <1>4, <1>5, <1>6

LEMMA NextRInv == RInv /\ [Next]_vars => RInv'
<1> SUFFICES ASSUME RInv, [Next]_vars PROVE RInv'
  OBVIOUS
<1>0. KInv /\ KInv'
  BY NextKInv DEF RInv
<1>1. CASE UNCHANGED vars
  <2>1. \A d \in Conn : \A p : Reached(d, p) => Reached(d, p)'
    BY <1>1 DEF vars, Reached, Pushes, IsPublish, PacketAt
  <2> QED
    BY <1>0, <1>1, <2>1, FrameRInv DEF vars
<1>2. ASSUME NEW c \in Conn, ClientStep(c) \/ ReaderStep(c) PROVE RInv'
  BY <1>0, <1>2, ReaderRInv
<1>3. ASSUME NEW s \in Shard, ShardStep(s) PROVE RInv'
  BY <1>0, <1>3, HandleRInv, JobRInv DEF ShardStep
<1> QED
  BY <1>1, <1>2, <1>3 DEF Next

LEMMA RInvariant == Spec => []RInv
BY InitRInv, NextRInv, PTL DEF Spec

\* There is no gap between replay and fan-out: a shard between two messages has
\* pushed the retained packet of a topic to every subscriber with a matching
\* filter, whether the subscription or the publish came first.
THEOREM BrokerRetainedReachesAll == Spec => []RetainedReachesAll
<1>1. RInv => RetainedReachesAll
  <2> SUFFICES ASSUME RInv, NEW s \in Shard, job[s] = Idle, NEW p \in retained[s],
                      NEW f \in Filter, NEW c \in Polite, topics[s][f][c] > 0,
                      Selects(f, p.topic)
               PROVE  Reached(c, p)
    BY DEF RetainedReachesAll, Reached, Polite, Selects
  <2>1. ~ Pending(s, c, f, p)
    BY DEF Idle, Pending
  <2> QED
    BY <2>1 DEF RInv, RetainedOrPending
<1> QED
  BY <1>1, RInvariant, PTL
=============================================================================
