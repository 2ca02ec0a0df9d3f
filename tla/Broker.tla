------------------------------- MODULE Broker -------------------------------
(***************************************************************************)
(* The sharded broker (src/src/broker.rs) and the connection readers that  *)
(* feed it (reader_loop and dispatch_packet of src/src/connection.rs).     *)
(*                                                                         *)
(* Every shard is a thread that owns its registry and its retained store   *)
(* and takes BrokerMessages from an mpsc channel; every connection has a   *)
(* reader thread that turns the packets of its client into BrokerMessages. *)
(* A step is one operation another thread can observe: one channel send,   *)
(* the receipt of one BrokerMessage, one push onto a client's outbound     *)
(* queue.  A broadcast is N sends, a fan-out is one push per subscriber,   *)
(* so other threads interleave with both.                                  *)
(*                                                                         *)
(* outbound[c] is the sequence of all pushes onto the queue of c.  The     *)
(* queue itself (bounded, drop-oldest) and its writer are in OutboundQueue.*)
(***************************************************************************)
EXTENDS Naturals, Sequences

CONSTANTS
    Conn,                       \* connections, by ConnectionId
    N,                          \* number of shards
    Topic,                      \* topic names clients publish to
    Filter,                     \* topic filters, the plain topic names included
    Script,                     \* Script[c][n]: the packets c may send as its n-th
    IsWildcardFilter(_),        \* is_wildcard_filter
    topic_matches_filter(_, _),
    shard_for_topic(_)          \* DefaultHasher mod N: some fixed function

Shard == 0..(N - 1)

\* What decode makes of a SUBSCRIBE, an UNSUBSCRIBE and a PUBLISH: at least one
\* valid filter; a topic name without wildcards, QoS 0 or 1.  The requested QoS
\* of a subscription is parsed and never used.
SubscribePacket == [type : {"SUBSCRIBE"}, filters : Seq(Filter) \ {<<>>}]
UnsubscribePacket == [type : {"UNSUBSCRIBE"}, filters : Seq(Filter) \ {<<>>}]
PublishRequest == [type : {"PUBLISH"}, topic : Topic, empty : BOOLEAN,
                   qos : {0, 1}, retain : BOOLEAN]

\* What the reader gets from its client.  "HANGUP" stands for all that ends
\* reader_loop: DISCONNECT, end of stream, a read error or a protocol error
\* (decode rejects the broker-to-client packets, so their arm is never run).
ClientPacket ==
    [type : {"CONNECT", "PINGREQ", "PUBACK", "HANGUP"}]
      \cup SubscribePacket \cup UnsubscribePacket \cup PublishRequest

ASSUME BrokerAssumption ==
    /\ N \in Nat \ {0}
    /\ Topic \subseteq Filter
    /\ \A f \in Filter : IsWildcardFilter(f) \in BOOLEAN
    /\ \A t \in Topic : ~ IsWildcardFilter(t)
    /\ \A t \in Topic, f \in Filter : topic_matches_filter(t, f) \in BOOLEAN
    /\ \A f \in Filter : shard_for_topic(f) \in Shard
    /\ Script \in [Conn -> Seq(SUBSET ClientPacket)]

\* A PublishPacket.  from and n (the n-th packet read from that connection)
\* identify it, n also serves as its packet identifier; of the payload only
\* its emptiness matters.
Packet == [topic : Topic, from : Conn, n : Nat, empty : BOOLEAN,
           qos : {0, 1}, retain : BOOLEAN]

Message ==
    [type : {"Register", "Disconnect"}, id : Conn]
      \cup [type : {"Subscribe", "Unsubscribe"}, id : Conn, topic : Filter]
      \cup [type : {"Publish"}, id : Conn, packet : Packet]

\* An OutboundEvent.  pid is the number of the client packet that is answered.
\* via is a history field: the pass of run_broker that pushed the PUBLISH.
Event ==
    [type : {"CONNACK", "SUBACK", "UNSUBACK", "PUBACK", "PINGRESP"}, pid : Nat]
      \cup [type : {"PUBLISH"}, packet : Packet, via : {"live", "replay"}]

NoAck == [type |-> "none"]

\* What a shard is in the middle of: nothing, the retained-message replay of a
\* Subscribe, or the fan-out of a Publish.  todo counts the entries of the
\* subscriber list that is being walked, wild holds the wildcard filters whose
\* lists are still to be walked.
Idle == [op |-> "idle"]
Job ==
    {Idle}
      \cup [op : {"replay"}, to : Conn, packets : SUBSET Packet]
      \cup [op : {"fanout"}, packet : Packet, exact : BOOLEAN,
            todo : [Conn -> {0, 1}], wild : SUBSET Filter, notified : SUBSET Conn]

VARIABLES
    inbox,      \* inbox[s]: the mpsc channel of shard s
    clients,    \* clients[s]: the keys of its clients map
    topics,     \* topics[s][f][c]: how often c is in the Vec of filter f
    retained,   \* retained[s]: the values of its retained map, keyed by topic
    job,        \* job[s]: where shard s is inside run_broker
    outbound,   \* outbound[c]: all events pushed for c, in order
    phase,      \* phase[c]: "reading", "closing" or "closed" (reader_loop)
    sending,    \* sending[c]: messages dispatch_packet has yet to send
    next,       \* next[c]: the next shard of the broadcast under way
    ack,        \* ack[c]: the answer dispatch_packet pushes when all are sent
    nread       \* nread[c]: packets read so far

shardVars == <<clients, topics, retained, job>>
readerVars == <<phase, sending, next, ack, nread>>
vars == <<inbox, clients, topics, retained, job, outbound,
          phase, sending, next, ack, nread>>

NoSubs == [c \in Conn |-> 0]

\* Every variable has its type; a connection is never twice in the subscriber
\* list of one filter, and a shard retains at most one packet per topic.
TypeOK ==
    /\ inbox \in [Shard -> Seq(Message)]
    /\ clients \in [Shard -> SUBSET Conn]
    /\ topics \in [Shard -> [Filter -> [Conn -> {0, 1}]]]
    /\ retained \in [Shard -> SUBSET Packet]
    /\ \A s \in Shard : \A p, q \in retained[s] : p.topic = q.topic => p = q
    /\ job \in [Shard -> Job]
    /\ outbound \in [Conn -> Seq(Event)]
    /\ phase \in [Conn -> {"reading", "closing", "closed"}]
    /\ sending \in [Conn -> Seq(Message)]
    /\ next \in [Conn -> Shard]
    /\ ack \in [Conn -> Event \cup {NoAck}]
    /\ nread \in [Conn -> Nat]

Init ==
    /\ inbox = [s \in Shard |-> <<>>]
    /\ clients = [s \in Shard |-> {}]
    /\ topics = [s \in Shard |-> [f \in Filter |-> NoSubs]]
    /\ retained = [s \in Shard |-> {}]
    /\ job = [s \in Shard |-> Idle]
    /\ outbound = [c \in Conn |-> <<>>]
    /\ phase = [c \in Conn |-> "reading"]
    /\ sending = [c \in Conn |-> <<>>]
    /\ next = [c \in Conn |-> 0]
    /\ ack = [c \in Conn |-> NoAck]
    /\ nread = [c \in Conn |-> 0]

\* outbound.push neither blocks nor fails: here the log of what was pushed, what
\* the bound of the queue then evicts is the subject of OutboundQueue
PushTo(c, e) == outbound' = [outbound EXCEPT ![c] = Append(@, e)]

-----------------------------------------------------------------------------
(* Connections: reader_loop and dispatch_packet *)

\* The reader is at stream.read: the previous packet has been dealt with.
AtRead(c) ==
    /\ phase[c] = "reading"
    /\ sending[c] = <<>>
    /\ ack[c] = NoAck

\* The next thing the reader of c gets is pkt.
Decoded(c, pkt) ==
    /\ AtRead(c)
    /\ nread[c] < Len(Script[c])
    /\ pkt \in Script[c][nread[c] + 1]
    /\ nread' = [nread EXCEPT ![c] = @ + 1]

\* dispatch_packet will send the messages ms and then push the answer a.
Begin(c, ms, a) ==
    /\ sending' = [sending EXCEPT ![c] = ms]
    /\ ack' = [ack EXCEPT ![c] = a]
    /\ UNCHANGED <<inbox, shardVars, phase, next>>

ReadConnect(c, pkt) ==
    /\ pkt.type = "CONNECT"
    /\ Decoded(c, pkt)
    /\ Begin(c, << [type |-> "Register", id |-> c] >>,
             [type |-> "CONNACK", pid |-> nread[c] + 1])
    /\ UNCHANGED outbound

\* one Subscribe per filter of the packet, then one SUBACK
ReadSubscribe(c, pkt) ==
    /\ pkt.type = "SUBSCRIBE"
    /\ Decoded(c, pkt)
    /\ Begin(c, [i \in 1..Len(pkt.filters) |->
                   [type |-> "Subscribe", id |-> c, topic |-> pkt.filters[i]]],
             [type |-> "SUBACK", pid |-> nread[c] + 1])
    /\ UNCHANGED outbound

ReadUnsubscribe(c, pkt) ==
    /\ pkt.type = "UNSUBSCRIBE"
    /\ Decoded(c, pkt)
    /\ Begin(c, [i \in 1..Len(pkt.filters) |->
                   [type |-> "Unsubscribe", id |-> c, topic |-> pkt.filters[i]]],
             [type |-> "UNSUBACK", pid |-> nread[c] + 1])
    /\ UNCHANGED outbound

\* The PublishPacket that decode_publish makes of the n-th packet of c.
Published(c, n, pkt) ==
    [topic |-> pkt.topic, from |-> c, n |-> n, empty |-> pkt.empty,
     qos |-> pkt.qos, retain |-> pkt.retain]

\* a QoS 1 PUBLISH is acknowledged before it is forwarded
ReadPublish(c, pkt) ==
    /\ pkt.type = "PUBLISH"
    /\ Decoded(c, pkt)
    /\ Begin(c, << [type |-> "Publish", id |-> c,
                    packet |-> Published(c, nread[c] + 1, pkt)] >>, NoAck)
    /\ IF pkt.qos = 1
       THEN PushTo(c, [type |-> "PUBACK", pid |-> nread[c] + 1])
       ELSE UNCHANGED outbound

\* PINGREQ is answered without the broker
ReadPing(c, pkt) ==
    /\ pkt.type = "PINGREQ"
    /\ Decoded(c, pkt)
    /\ PushTo(c, [type |-> "PINGRESP", pid |-> nread[c] + 1])
    /\ UNCHANGED <<inbox, shardVars, phase, sending, next, ack>>

\* nothing is kept per delivery that a PUBACK could clear
ReadPuback(c, pkt) ==
    /\ pkt.type = "PUBACK"
    /\ Decoded(c, pkt)
    /\ UNCHANGED <<inbox, shardVars, outbound, phase, sending, next, ack>>

\* reader_loop ends, by any of its exits: Disconnect is sent, and then the
\* queue is closed
ReadHangup(c, pkt) ==
    /\ pkt.type = "HANGUP"
    /\ Decoded(c, pkt)
    /\ phase' = [phase EXCEPT ![c] = "closing"]
    /\ sending' = [sending EXCEPT ![c] = << [type |-> "Disconnect", id |-> c] >>]
    /\ UNCHANGED <<inbox, shardVars, outbound, next, ack>>

Dispatch(c, pkt) ==
    \/ ReadConnect(c, pkt)
    \/ ReadSubscribe(c, pkt)
    \/ ReadUnsubscribe(c, pkt)
    \/ ReadPublish(c, pkt)
    \/ ReadPing(c, pkt)
    \/ ReadPuback(c, pkt)
    \/ ReadHangup(c, pkt)

-----------------------------------------------------------------------------
(* ShardedBroker::send *)

\* Mutants of Broadcast: a wildcard Subscribe, a wildcard Unsubscribe or a
\* Register is routed to one shard only.
BroadcastNoSubscribe(m) ==
    \/ m.type \in {"Register", "Disconnect"}
    \/ m.type = "Unsubscribe" /\ IsWildcardFilter(m.topic)

BroadcastNoUnsubscribe(m) ==
    \/ m.type \in {"Register", "Disconnect"}
    \/ m.type = "Subscribe" /\ IsWildcardFilter(m.topic)
BroadcastNoRegister(m) ==
    \/ m.type = "Disconnect"
    \/ m.type \in {"Subscribe", "Unsubscribe"} /\ IsWildcardFilter(m.topic)

\* Routing::Broadcast, as opposed to Routing::SingleShard
Broadcast(m) ==
    \/ m.type \in {"Register", "Disconnect"}
    \/ m.type \in {"Subscribe", "Unsubscribe"} /\ IsWildcardFilter(m.topic)

\* Mutant of HomeShard: publishes are spread round-robin over the shards.
HomeShardRoundRobin(m) ==
    CASE m.type = "Publish" -> m.packet.n % N
      [] m.type \in {"Subscribe", "Unsubscribe"} -> shard_for_topic(m.topic)
      [] OTHER -> 0

\* Mutant of HomeShard: a publish goes to the shard of its publisher.
HomeShardByPublisher(m) ==
    CASE m.type = "Publish" -> m.packet.from % N
      [] m.type \in {"Subscribe", "Unsubscribe"} -> shard_for_topic(m.topic)
      [] OTHER -> 0

\* the shard of a message that is not broadcast
HomeShard(m) ==
    CASE m.type = "Publish" -> shard_for_topic(m.packet.topic)
      [] m.type \in {"Subscribe", "Unsubscribe"} -> shard_for_topic(m.topic)
      [] OTHER -> 0

\* One Sender::send; a broadcast goes through the shards in their order.  The
\* shards live as long as the program, so the send succeeds.
Send(c) ==
    /\ sending[c] # <<>>
    /\ LET m == Head(sending[c])
           s == IF Broadcast(m) THEN next[c] ELSE HomeShard(m)
           more == Broadcast(m) /\ next[c] + 1 < N
       IN  /\ inbox' = [inbox EXCEPT ![s] = Append(@, m)]
           /\ next' = [next EXCEPT ![c] = IF more THEN @ + 1 ELSE 0]
           /\ sending' = [sending EXCEPT ![c] = IF more THEN @ ELSE Tail(@)]
    /\ UNCHANGED <<shardVars, outbound, phase, ack, nread>>

\* Mutant of Answer: the answer does not wait for the sends.
AnswerEarly(c) ==
    /\ ack[c] # NoAck
    /\ PushTo(c, ack[c])
    /\ ack' = [ack EXCEPT ![c] = NoAck]
    /\ UNCHANGED <<inbox, shardVars, phase, sending, next, nread>>

\* everything is sent: CONNACK, SUBACK or UNSUBACK
Answer(c) ==
    /\ sending[c] = <<>>
    /\ ack[c] # NoAck
    /\ PushTo(c, ack[c])
    /\ ack' = [ack EXCEPT ![c] = NoAck]
    /\ UNCHANGED <<inbox, shardVars, phase, sending, next, nread>>

\* outbound.close(), after which reader_loop returns
Close(c) ==
    /\ phase[c] = "closing"
    /\ sending[c] = <<>>
    /\ phase' = [phase EXCEPT ![c] = "closed"]
    /\ UNCHANGED <<inbox, shardVars, outbound, sending, next, ack, nread>>

ReaderStep(c) == Send(c) \/ Answer(c) \/ Close(c)

-----------------------------------------------------------------------------
(* Shards: run_broker *)

\* shard s is at the top of its loop and receives m
Receive(s, m) ==
    /\ job[s] = Idle
    /\ inbox[s] # <<>>
    /\ m = Head(inbox[s])
    /\ inbox' = [inbox EXCEPT ![s] = Tail(@)]
    /\ UNCHANGED readerVars

HandleRegister(s, m) ==
    /\ m.type = "Register"
    /\ Receive(s, m)
    /\ clients' = [clients EXCEPT ![s] = @ \cup {m.id}]
    /\ UNCHANGED <<topics, retained, job, outbound>>

\* Mutant of Subscribed: the contains check is dropped.
SubscribedAgain(subs, c) == [subs EXCEPT ![c] = @ + 1]

\* the subscriber list after a Subscribe: push unless contains
Subscribed(subs, c) == [subs EXCEPT ![c] = IF @ = 0 THEN 1 ELSE @]

\* the subscriber list after retain(|sid| sid != c)
Removed(subs, c) == [subs EXCEPT ![c] = 0]

\* Mutant of RetainedFor: the wildcard scan is left out.
RetainedForExact(s, f) == {p \in retained[s] : p.topic = f}

\* the retained packets that a new subscription to f is sent
RetainedFor(s, f) ==
    {p \in retained[s] : IF IsWildcardFilter(f)
                         THEN topic_matches_filter(p.topic, f)
                         ELSE p.topic = f}

\* the replay job, if there is anything to push
Replay(c, ps) ==
    IF ps = {} THEN Idle ELSE [op |-> "replay", to |-> c, packets |-> ps]

\* registers the subscription, known client or not; replays to a known client
HandleSubscribe(s, m) ==
    /\ m.type = "Subscribe"
    /\ Receive(s, m)
    /\ topics' = [topics EXCEPT ![s][m.topic] = Subscribed(@, m.id)]
    /\ job' = [job EXCEPT ![s] =
                 IF m.id \in clients[s] THEN Replay(m.id, RetainedFor(s, m.topic))
                                        ELSE Idle]
    /\ UNCHANGED <<clients, retained, outbound>>

HandleUnsubscribe(s, m) ==
    /\ m.type = "Unsubscribe"
    /\ Receive(s, m)
    /\ topics' = [topics EXCEPT ![s][m.topic] = Removed(@, m.id)]
    /\ UNCHANGED <<clients, retained, job, outbound>>

\* the retained store after a publish: an empty payload deletes, any other
\* replaces
Stored(store, p) ==
    CASE p.retain /\ p.empty -> {q \in store : q.topic # p.topic}
      [] p.retain /\ ~p.empty -> {q \in store : q.topic # p.topic} \cup {p}
      [] OTHER -> store

\* the fan-out job, if there is an entry or a wildcard filter left to visit
FanOut(p, exact, subs, wild, notified) ==
    IF subs = NoSubs /\ wild = {}
    THEN Idle
    ELSE [op |-> "fanout", packet |-> p, exact |-> exact, todo |-> subs,
          wild |-> wild, notified |-> notified]

\* the wildcard keys of topics whose filter matches the topic; those with an
\* empty list have nothing to visit
WildcardFilters(s, t) ==
    {f \in Filter : /\ IsWildcardFilter(f)
                    /\ topic_matches_filter(t, f)
                    /\ topics[s][f] # NoSubs}

\* updates the retained store and starts the fan-out with the exact match
HandlePublish(s, m) ==
    /\ m.type = "Publish"
    /\ Receive(s, m)
    /\ retained' = [retained EXCEPT ![s] = Stored(@, m.packet)]
    /\ job' = [job EXCEPT ![s] =
                 FanOut(m.packet, TRUE, topics[s][m.packet.topic],
                        WildcardFilters(s, m.packet.topic), {})]
    /\ UNCHANGED <<clients, topics, outbound>>

\* Mutants of HandleDisconnect: the subscriber lists, or the entry of the
\* clients map, are left behind.
HandleDisconnectKeepSubs(s, m) ==
    /\ m.type = "Disconnect"
    /\ Receive(s, m)
    /\ clients' = [clients EXCEPT ![s] = @ \ {m.id}]
    /\ UNCHANGED <<topics, retained, job, outbound>>
HandleDisconnectKeepClient(s, m) ==
    /\ m.type = "Disconnect"
    /\ Receive(s, m)
    /\ UNCHANGED <<clients, topics, retained, job, outbound>>

HandleDisconnect(s, m) ==
    /\ m.type = "Disconnect"
    /\ Receive(s, m)
    /\ clients' = [clients EXCEPT ![s] = @ \ {m.id}]
    /\ topics' = [topics EXCEPT ![s] = [f \in Filter |-> Removed(@[f], m.id)]]
    /\ UNCHANGED <<retained, job, outbound>>

\* pushes one matching retained packet with retain set, in HashMap order
PushReplay(s, p) ==
    /\ job[s].op = "replay"
    /\ p \in job[s].packets
    /\ PushTo(job[s].to, [type |-> "PUBLISH", via |-> "replay",
                          packet |-> [p EXCEPT !.retain = TRUE]])
    /\ job' = [job EXCEPT ![s] = Replay(@.to, @.packets \ {p})]
    /\ UNCHANGED <<inbox, clients, topics, retained, readerVars>>

\* Mutant of Skipped: the wildcard pass forgets who was notified.
SkippedUnknown(s, c) == c \notin clients[s]

\* an entry of a list is passed over: unknown client, or already notified
Skipped(s, c) ==
    \/ c \notin clients[s]
    \/ ~job[s].exact /\ c \in job[s].notified

\* visits one entry of the subscriber list that is being walked
FanOutVisit(s, c) ==
    /\ job[s].op = "fanout"
    /\ job[s].todo[c] > 0
    /\ LET j == job[s]
           rest == [j.todo EXCEPT ![c] = @ - 1]
       IN  IF Skipped(s, c)
           THEN /\ job' = [job EXCEPT ![s] =
                             FanOut(j.packet, j.exact, rest, j.wild, j.notified)]
                /\ UNCHANGED outbound
           ELSE /\ job' = [job EXCEPT ![s] =
                             FanOut(j.packet, j.exact, rest, j.wild,
                                    j.notified \cup {c})]
                /\ PushTo(c, [type |-> "PUBLISH", packet |-> j.packet,
                              via |-> "live"])
    /\ UNCHANGED <<inbox, clients, topics, retained, readerVars>>

\* goes on to the list of the next matching wildcard filter, in HashMap order
FanOutFilter(s, f) ==
    /\ job[s].op = "fanout"
    /\ job[s].todo = NoSubs
    /\ f \in job[s].wild
    /\ job' = [job EXCEPT ![s] = FanOut(@.packet, FALSE, topics[s][f],
                                        @.wild \ {f}, @.notified)]
    /\ UNCHANGED <<inbox, clients, topics, retained, outbound, readerVars>>

Handle(s, m) ==
    \/ HandleRegister(s, m)
    \/ HandleSubscribe(s, m)
    \/ HandleUnsubscribe(s, m)
    \/ HandlePublish(s, m)
    \/ HandleDisconnect(s, m)

ShardStep(s) ==
    \/ inbox[s] # <<>> /\ Handle(s, Head(inbox[s]))
    \/ job[s].op = "replay" /\ \E p \in job[s].packets : PushReplay(s, p)
    \/ \E c \in Conn : FanOutVisit(s, c)
    \/ job[s].op = "fanout" /\ \E f \in job[s].wild : FanOutFilter(s, f)

-----------------------------------------------------------------------------
ClientStep(c) ==
    /\ nread[c] < Len(Script[c])
    /\ \E pkt \in Script[c][nread[c] + 1] : Dispatch(c, pkt)

Next ==
    \/ \E c \in Conn : ClientStep(c) \/ ReaderStep(c)
    \/ \E s \in Shard : ShardStep(s)

Spec == Init /\ [][Next]_vars

-----------------------------------------------------------------------------
(* Properties *)

Pushes(c) == 1..Len(outbound[c])
IsPublish(c, i) == outbound[c][i].type = "PUBLISH"
IsLive(c, i) == IsPublish(c, i) /\ outbound[c][i].via = "live"
PacketAt(c, i) == outbound[c][i].packet

\* packets are the same publish, whatever their retain flags
SamePublish(p, q) == p.from = q.from /\ p.n = q.n

\* A publish reaches a subscriber at most once, however many of the client's
\* filters (exact and wildcard) match its topic: the notified list of run_broker.
AtMostOnce ==
    \A c \in Conn : \A i, j \in Pushes(c) :
        i < j /\ IsLive(c, i) /\ IsLive(c, j) =>
            ~ SamePublish(PacketAt(c, i), PacketAt(c, j))

\* "per-topic publish order preserved ... by construction" (head of broker.rs):
\* any two subscribers see any two publishes to a topic, of whichever clients,
\* in the same order, although every subscriber's pushes interleave with
\* everybody else's steps.
SameTopicOrder ==
    \A c \in Conn : \A i, j \in Pushes(c) :
        /\ i < j /\ IsLive(c, i) /\ IsLive(c, j)
        /\ PacketAt(c, i).topic = PacketAt(c, j).topic
        => \A d \in Conn : \A k, l \in Pushes(d) :
             /\ IsLive(d, k) /\ SamePublish(PacketAt(d, k), PacketAt(c, i))
             /\ IsLive(d, l) /\ SamePublish(PacketAt(d, l), PacketAt(c, j))
             => k <= l

\* What one client publishes to a topic arrives in the order it was published,
\* through the reader, the channel of the shard and the fan-out.
PublisherOrder ==
    \A c \in Conn : \A i, j \in Pushes(c) :
        /\ i < j /\ IsLive(c, i) /\ IsLive(c, j)
        /\ PacketAt(c, i).from = PacketAt(c, j).from
        /\ PacketAt(c, i).topic = PacketAt(c, j).topic
        => PacketAt(c, i).n < PacketAt(c, j).n

\* c's Disconnect has been sent to shard s
DisconnectSent(c, s) ==
    \/ phase[c] = "closed"
    \/ phase[c] = "closing" /\ (sending[c] = <<>> \/ next[c] > s)

InInbox(c, s) == \E i \in 1..Len(inbox[s]) : inbox[s][i].id = c

\* shard s is done with everything c ever sent it
Gone(c, s) == DisconnectSent(c, s) /\ ~ InInbox(c, s)

\* shard s has no entry of c, neither as a client nor as a subscriber
Forgotten(c, s) ==
    /\ c \notin clients[s]
    /\ \A f \in Filter : topics[s][f][c] = 0

\* A connection leaves nothing behind: whatever its Register, Subscribes,
\* Unsubscribes and Disconnect interleaved with, once a shard has handled all
\* of them neither its clients map nor a subscriber list names the connection.
NoResidue ==
    \A c \in Conn, s \in Shard :
        Gone(c, s) => Forgotten(c, s)

\* After that no step pushes to the closed queue of the connection: a fan-out
\* or a replay never works from a subscriber list older than the cleanup.
NoPushAfterCleanup ==
    [][\A c \in Conn :
         phase[c] = "closed" /\ (\A s \in Shard : Gone(c, s)) =>
            outbound'[c] = outbound[c]]_vars

\* the clients whose first packet is a CONNECT
Polite == {c \in Conn : Script[c] # <<>> => Script[c][1] \subseteq [type : {"CONNECT"}]}

\* "each shard needs to know about every client before that client might
\* subscribe to one of its topics" (ShardedBroker::send): no shard has a
\* subscription of a client it does not know, although the N sends of a
\* Register are not atomic and the shards run at their own speed.
KnownBeforeSubscribed ==
    \A c \in Polite, s \in Shard, f \in Filter :
        topics[s][f][c] > 0 => c \in clients[s]

\* the filter f selects the topic t, by either pass of run_broker
Selects(f, t) ==
    IF IsWildcardFilter(f) THEN topic_matches_filter(t, f) ELSE f = t

\* No gap between replay and fan-out: when a shard is between two messages,
\* each of its subscribers has been pushed the current retained packet of each
\* topic its filters select, as a replay or live.
RetainedReachesAll ==
    \A s \in Shard : job[s] = Idle =>
        \A p \in retained[s], f \in Filter, c \in Polite :
            topics[s][f][c] > 0 /\ Selects(f, p.topic) =>
                \E i \in Pushes(c) : IsPublish(c, i) /\ SamePublish(PacketAt(c, i), p)

\* "The delivered packet has retain=true so the client can distinguish a
\* retained replay from a live message" (run_broker, Subscribe arm).
RetainMarksReplay ==
    \A c \in Conn : \A i \in Pushes(c) :
        IsPublish(c, i) => (PacketAt(c, i).retain <=> outbound[c][i].via = "replay")

\* "delivery is granted/reported at QoS 0" (README, SUBSCRIBE row; every SUBACK
\* carries 0x00, "Maximum QoS 0").
DeliveredAtGrantedQos ==
    \A c \in Conn : \A i \in Pushes(c) : IsPublish(c, i) => PacketAt(c, i).qos = 0
=============================================================================
