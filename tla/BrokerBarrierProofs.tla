------------------------ MODULE BrokerBarrierProofs ------------------------
(***************************************************************************)
(* SUBACK and UNSUBACK are barriers, for any number of shards, connections,*)
(* topics and filters.  The answers are pushed when the requests are in    *)
(* the channels of the shards, not when they are handled: the proof is     *)
(* about what a subscription will be once a shard has come to a given      *)
(* position of its channel.                                                *)
(***************************************************************************)
EXTENDS BrokerDelivery, BrokerProofs

\* The shards a request for the filter f concerns.
Relevant(f, s) == IsWildcardFilter(f) \/ s = shard_for_topic(f)

\* The message m subscribes c to f, ends the subscription of c to f.
Asks(m, c, f) == m.type = "Subscribe" /\ m.id = c /\ m.topic = f
Cancels(m, c, f) ==
    /\ m.id = c
    /\ m.type = "Disconnect" \/ (m.type = "Unsubscribe" /\ m.topic = f)

\* The k-th message in the channel of s, or its registry for k = 0, subscribes
\* c to f.
Source(s, k, c, f) ==
    \/ k = 0 /\ topics[s][f][c] > 0
    \/ k # 0 /\ k <= Len(inbox[s]) /\ Asks(inbox[s][k], c, f)

\* c will be subscribed to f when shard s comes to the i-th message in its
\* channel.
On(s, i, c, f) ==
    \E k \in 0..(i - 1) :
        /\ Source(s, k, c, f)
        /\ \A l \in (k + 1)..(i - 1) : ~ Cancels(inbox[s][l], c, f)

\* The position of the next message that is sent to s.
End(s) == Len(inbox[s]) + 1

\* The reader of c has yet to send a request of type t for f to s.
Due(c, s, f, t) ==
    \E k \in 1..Len(sending[c]) :
        /\ sending[c][k].type = t /\ sending[c][k].topic = f
        /\ k = 1 /\ IsWildcardFilter(f) => next[c] <= s

Submitted(p) ==
    \E k \in 1..Len(sending[p.from]) :
        sending[p.from][k].type = "Publish" /\ sending[p.from][k].packet = p

HistoryType ==
    /\ asked \in [Conn -> SUBSET Filter]
    /\ firm \in [Conn -> SUBSET Filter]
    /\ possible \in [Conn -> SUBSET Filter]

\* What a reader is sending agrees with what the client may rely on.
Requests ==
    \A c \in Conn : \A k \in 1..Len(sending[c]) :
        /\ sending[c][k].type = "Subscribe" => sending[c][k].topic \in possible[c]
        /\ sending[c][k].type = "Unsubscribe" => sending[c][k].topic \notin firm[c]
        /\ sending[c][k].type = "Disconnect" => firm[c] = {}
        /\ ack[c].type = "SUBACK" => sending[c][k].type = "Subscribe"
        /\ ack[c].type = "UNSUBACK" => sending[c][k].type = "Unsubscribe"

\* A firm subscription is in force at the end of every channel it concerns, an
\* impossible one is not; a request is sent to all these channels before its
\* answer is pushed.
Promised(c, s, f) ==
    /\ f \in firm[c] => On(s, End(s), c, f)
    /\ f \notin possible[c] => ~ On(s, End(s), c, f)
    /\ ack[c].type = "SUBACK" /\ f \in asked[c] =>
          On(s, End(s), c, f) \/ Due(c, s, f, "Subscribe")
    /\ ack[c].type = "UNSUBACK" /\ f \in asked[c] =>
          ~ On(s, End(s), c, f) \/ Due(c, s, f, "Unsubscribe")

Subscriptions ==
    \A c \in Conn, s \in Shard, f \in Filter : Relevant(f, s) => Promised(c, s, f)

\* A publish p that c must get because of f finds the subscription in force.
OnItsWay(c, f, p) ==
    /\ InFlight(p) \/ Delivered(c, p)
    /\ \A s \in Shard, i \in Nat : QueuedAt(s, i, p) => On(s, i, c, f)
    /\ \A s \in Shard : FanningAt(s, p) =>
         \/ Delivered(c, p)
         \/ topics[s][f][c] > 0 /\ Pending(s, c, f, p)

\* A publish p that c must not get finds no subscription.
KeptAway(c, p) ==
    /\ ~ Delivered(c, p)
    /\ \A s \in Shard, i \in Nat, f \in Filter :
         QueuedAt(s, i, p) /\ Selects(f, p.topic) => ~ On(s, i, c, f)
    /\ \A s \in Shard : FanningAt(s, p) =>
         /\ job[s].todo[c] = 0
         /\ \A f \in job[s].wild : topics[s][f][c] = 0

OwedArrives ==
    \A o \in owed :
        /\ o.conn \in Polite /\ o.filter \in firm[o.conn] /\ o.packet \in Packet
        /\ Selects(o.filter, o.packet.topic)
        /\ OnItsWay(o.conn, o.filter, o.packet)

BarredStaysAway ==
    \A b \in barred :
        /\ b.conn \in Conn /\ b.packet \in Packet
        /\ \A f \in possible[b.conn] : ~ Selects(f, b.packet.topic)
        /\ KeptAway(b.conn, b.packet)

\* The history speaks of packets that have been read, each under its own number.
Recorded ==
    \A p \in Packet :
        (\E o \in owed : o.packet = p) \/ (\E b \in barred : b.packet = p) =>
            /\ p.n <= nread[p.from]
            /\ \A q \in Packet :
                 (HandedOver(q) \/ Submitted(q)) /\ SamePublish(p, q) => p = q

\* Who is in the notified list of a fan-out has got its packet live.
NotifiedLive ==
    \A s \in Shard : job[s].op = "fanout" =>
        \A c \in job[s].notified : Delivered(c, job[s].packet)

DInv ==
    /\ OInv /\ KInv
    /\ HistoryType /\ Requests /\ Subscriptions
    /\ OwedArrives /\ BarredStaysAway /\ Recorded /\ NotifiedLive

-----------------------------------------------------------------------------
(* The subscriptions of a channel *)

LEMMA OnFirst ==
    ASSUME NEW s \in Shard, NEW c \in Conn, NEW f \in Filter
    PROVE  On(s, 1, c, f) <=> topics[s][f][c] > 0
<1>1. 0..(1 - 1) = {0} /\ (0 + 1)..(1 - 1) = {}
  OBVIOUS
<1> QED
  BY <1>1 DEF On, Source

LEMMA OnFrame ==
    ASSUME NEW s \in Shard, inbox'[s] = inbox[s], topics'[s] = topics[s]
    PROVE  \A i \in Nat, c \in Conn, f \in Filter : On(s, i, c, f)' <=> On(s, i, c, f)
BY DEF On, Source

\* A message that is sent changes the end of the channel only.
LEMMA OnAppend ==
    ASSUME NEW s \in Shard, inbox[s] \in Seq(Message), NEW m \in Message,
           inbox'[s] = Append(inbox[s], m), topics'[s] = topics[s],
           NEW c \in Conn, NEW f \in Filter
    PROVE  /\ Len(inbox[s]) \in Nat
           /\ \A i \in 1..(Len(inbox[s]) + 1) : On(s, i, c, f)' <=> On(s, i, c, f)
           /\ \A i, j \in Nat : i = Len(inbox[s]) + 1 /\ j = i + 1 =>
                (On(s, j, c, f)' <=>
                   Asks(m, c, f) \/ (On(s, i, c, f) /\ ~ Cancels(m, c, f)))
<1>1. /\ Len(inbox[s]) \in Nat
      /\ Len(inbox'[s]) = Len(inbox[s]) + 1
      /\ \A i \in 1..Len(inbox[s]) : inbox'[s][i] = inbox[s][i]
      /\ inbox'[s][Len(inbox[s]) + 1] = m
  BY AppendProperties
<1>2. \A k \in 0..Len(inbox[s]) : Source(s, k, c, f)' <=> Source(s, k, c, f)
  <2> SUFFICES ASSUME NEW k \in 0..Len(inbox[s])
               PROVE  Source(s, k, c, f)' <=> Source(s, k, c, f)
    OBVIOUS
  <2>1. CASE k = 0
    BY <2>1 DEF Source
  <2>2. CASE k # 0
    <3>1. k \in 1..Len(inbox[s]) /\ k <= Len(inbox'[s])
      BY <1>1, <2>2
    <3> QED
      BY <1>1, <2>2, <3>1 DEF Source
  <2> QED
    BY <2>1, <2>2
<1>3. ASSUME NEW i \in 1..(Len(inbox[s]) + 1)
      PROVE  On(s, i, c, f)' <=> On(s, i, c, f)
  <2>1. \A k \in 0..(i - 1) : /\ k \in 0..Len(inbox[s])
                              /\ \A l \in (k + 1)..(i - 1) : l \in 1..Len(inbox[s])
    BY <1>1
  <2> QED
    BY <1>1, <1>2, <2>1 DEF On
<1>4. ASSUME NEW i \in Nat, NEW j \in Nat, i = Len(inbox[s]) + 1, j = i + 1
      PROVE  On(s, j, c, f)' <=>
                Asks(m, c, f) \/ (On(s, i, c, f) /\ ~ Cancels(m, c, f))
  <2>0. j - 1 = i /\ inbox'[s][i] = m /\ i # 0
    BY <1>1, <1>4
  <2>1. ASSUME On(s, j, c, f)'
        PROVE  Asks(m, c, f) \/ (On(s, i, c, f) /\ ~ Cancels(m, c, f))
    <3>1. PICK k \in 0..i : /\ Source(s, k, c, f)'
                            /\ \A l \in (k + 1)..i : ~ Cancels(inbox'[s][l], c, f)
      BY <2>0, <2>1 DEF On
    <3>2. CASE k = i
      BY <2>0, <3>1, <3>2 DEF Source
    <3>3. CASE k # i
      <4>1. k \in 0..Len(inbox[s]) /\ k \in 0..(i - 1) /\ i \in (k + 1)..i
        BY <1>1, <1>4, <3>3
      <4>2. \A l \in (k + 1)..(i - 1) : l \in (k + 1)..i /\ l \in 1..Len(inbox[s])
        BY <1>1, <1>4, <4>1
      <4>3. On(s, i, c, f)
        BY <1>1, <1>2, <3>1, <4>1, <4>2 DEF On
      <4> QED
        BY <2>0, <3>1, <4>1, <4>3
    <3> QED
      BY <3>2, <3>3
  <2>2. ASSUME Asks(m, c, f) PROVE On(s, j, c, f)'
    <3>1. Source(s, i, c, f)'
      BY <1>1, <1>4, <2>0, <2>2 DEF Source
    <3>2. i \in 0..(j - 1) /\ (i + 1)..(j - 1) = {}
      BY <1>4, <2>0
    <3> QED
      BY <3>1, <3>2 DEF On
  <2>3. ASSUME On(s, i, c, f), ~ Cancels(m, c, f) PROVE On(s, j, c, f)'
    <3>1. PICK k \in 0..(i - 1) :
                 /\ Source(s, k, c, f)
                 /\ \A l \in (k + 1)..(i - 1) : ~ Cancels(inbox[s][l], c, f)
      BY <2>3 DEF On
    <3>2. k \in 0..Len(inbox[s]) /\ k \in 0..(j - 1)
      BY <1>1, <1>4, <2>0
    <3>3. ASSUME NEW l \in (k + 1)..(j - 1) PROVE ~ Cancels(inbox'[s][l], c, f)
      <4>1. CASE l = i
        BY <2>0, <2>3, <4>1
      <4>2. CASE l # i
        <5>1. l \in (k + 1)..(i - 1) /\ l \in 1..Len(inbox[s])
          BY <1>1, <1>4, <2>0, <4>2
        <5> QED
          BY <1>1, <3>1, <5>1
      <4> QED
        BY <4>1, <4>2
    <3> QED
      BY <1>2, <3>1, <3>2, <3>3 DEF On
  <2> QED
    BY <2>1, <2>2, <2>3
<1> QED
  BY <1>1, <1>3, <1>4

\* What handling a message makes of the registry.
LEMMA HandleTopics ==
    ASSUME TypeOK, NEW s \in Shard, NEW m, Handle(s, m), NEW c \in Conn, NEW f \in Filter
    PROVE  topics'[s][f][c] > 0 <=>
              Asks(m, c, f) \/ (topics[s][f][c] > 0 /\ ~ Cancels(m, c, f))
<1>0. m \in Message /\ m.id \in Conn /\ topics[s][f][c] \in {0, 1}
  BY HandleRegistry, MessageFields DEF TypeOK
<1>1. CASE HandleRegister(s, m) \/ HandlePublish(s, m)
  BY <1>1 DEF HandleRegister, HandlePublish, Asks, Cancels
<1>2. CASE HandleSubscribe(s, m)
  <2>1. m.topic \in Filter /\ m.type = "Subscribe"
    BY <1>0, <1>2, MessageFields DEF HandleSubscribe
  <2>2. topics' = [topics EXCEPT ![s] =
                   [topics[s] EXCEPT ![m.topic] = Subscribed(topics[s][m.topic], m.id)]]
    BY <1>2, <2>1 DEF HandleSubscribe, TypeOK
  <2>3. topics'[s][f][c] = IF m.topic = f /\ m.id = c THEN 1 ELSE topics[s][f][c]
    BY <1>0, <2>1, <2>2 DEF Subscribed, TypeOK
  <2> QED
    BY <2>1, <2>3 DEF Asks, Cancels
<1>3. CASE HandleUnsubscribe(s, m)
  <2>1. m.topic \in Filter /\ m.type = "Unsubscribe"
    BY <1>0, <1>3, MessageFields DEF HandleUnsubscribe
  <2>2. topics' = [topics EXCEPT ![s] =
                   [topics[s] EXCEPT ![m.topic] = Removed(topics[s][m.topic], m.id)]]
    BY <1>3, <2>1 DEF HandleUnsubscribe, TypeOK
  <2>3. topics'[s][f][c] = IF m.topic = f /\ m.id = c THEN 0 ELSE topics[s][f][c]
    BY <1>0, <2>1, <2>2 DEF Removed, TypeOK
  <2> QED
    BY <2>1, <2>3 DEF Asks, Cancels
<1>4. CASE HandleDisconnect(s, m)
  <2>1. topics'[s] = [g \in Filter |-> Removed(topics[s][g], m.id)]
    BY <1>4 DEF HandleDisconnect, TypeOK
  <2>2. topics'[s][f][c] = IF c = m.id THEN 0 ELSE topics[s][f][c]
    BY <1>0, <2>1 DEF Removed, TypeOK
  <2>3. m.type = "Disconnect"
    BY <1>4 DEF HandleDisconnect
  <2> QED
    BY <2>2, <2>3 DEF Asks, Cancels
<1> QED
  BY <1>1, <1>2, <1>3, <1>4 DEF Handle

\* Handling a message moves what it says from the channel into the registry.
LEMMA OnHandle ==
    ASSUME TypeOK, NEW s \in Shard, NEW m, Handle(s, m), NEW c \in Conn, NEW f \in Filter,
           NEW i \in Nat, NEW j \in Nat, i # 0, i <= Len(inbox[s]), j = i + 1
    PROVE  On(s, i, c, f)' <=> On(s, j, c, f)
<1>1. /\ Len(inbox[s]) \in Nat /\ Len(inbox[s]) >= 1 /\ m = inbox[s][1]
      /\ Len(inbox'[s]) = Len(inbox[s]) - 1
      /\ \A k \in 1..Len(inbox'[s]) : inbox'[s][k] = inbox[s][k + 1]
  BY HandleRegistry
<1>2. topics'[s][f][c] > 0 <=>
         Asks(m, c, f) \/ (topics[s][f][c] > 0 /\ ~ Cancels(m, c, f))
  BY HandleTopics
<1>3. ASSUME On(s, i, c, f)' PROVE On(s, j, c, f)
  <2>1. PICK k \in 0..(i - 1) :
               /\ Source(s, k, c, f)'
               /\ \A l \in (k + 1)..(i - 1) : ~ Cancels(inbox'[s][l], c, f)
    BY <1>3 DEF On
  <2>2. \A l \in (k + 2)..(j - 1) : ~ Cancels(inbox[s][l], c, f)
    <3> SUFFICES ASSUME NEW l \in (k + 2)..(j - 1) PROVE ~ Cancels(inbox[s][l], c, f)
      OBVIOUS
    <3>1. l - 1 \in (k + 1)..(i - 1) /\ (l - 1) + 1 = l
      OBVIOUS
    <3>2. PICK n \in Nat : n = Len(inbox[s]) /\ Len(inbox'[s]) = n - 1
      BY <1>1
    <3>3. l - 1 \in 1..(n - 1)
      BY <3>1, <3>2
    <3>4. ~ Cancels(inbox'[s][l - 1], c, f)
      BY <2>1, <3>1
    <3>5. inbox'[s][l - 1] = inbox[s][l]
      BY <1>1, <3>1, <3>2, <3>3
    <3> QED
      BY <3>4, <3>5
  <2>3. CASE k # 0
    <3>1. k \in 1..Len(inbox'[s]) /\ Asks(inbox'[s][k], c, f)
      BY <1>1, <2>1, <2>3 DEF Source
    <3>2. Source(s, k + 1, c, f) /\ k + 1 \in 0..(j - 1)
      BY <1>1, <3>1 DEF Source
    <3>3. (k + 1) + 1 = k + 2
      OBVIOUS
    <3> QED
      BY <2>2, <3>2, <3>3 DEF On
  <2>4. CASE k = 0 /\ Asks(m, c, f)
    <3>1. Source(s, 1, c, f) /\ 1 \in 0..(j - 1)
      BY <1>1, <2>4 DEF Source
    <3> QED
      BY <2>2, <2>4, <3>1 DEF On
  <2>5. CASE k = 0 /\ topics[s][f][c] > 0 /\ ~ Cancels(m, c, f)
    <3>1. Source(s, 0, c, f) /\ 0 \in 0..(j - 1)
      BY <2>5 DEF Source
    <3>2. \A l \in (0 + 1)..(j - 1) : ~ Cancels(inbox[s][l], c, f)
      <4> SUFFICES ASSUME NEW l \in (0 + 1)..(j - 1) PROVE ~ Cancels(inbox[s][l], c, f)
        OBVIOUS
      <4>1. l = 1 \/ l \in (k + 2)..(j - 1)
        BY <2>5
      <4> QED
        BY <1>1, <2>2, <2>5, <4>1
    <3> QED
      BY <3>1, <3>2 DEF On
  <2> QED
    BY <1>2, <2>1, <2>3, <2>4, <2>5 DEF Source
<1>4. ASSUME On(s, j, c, f) PROVE On(s, i, c, f)'
  <2>1. PICK k \in 0..(j - 1) :
               /\ Source(s, k, c, f)
               /\ \A l \in (k + 1)..(j - 1) : ~ Cancels(inbox[s][l], c, f)
    BY <1>4 DEF On
  <2>2. \A l \in 1..(i - 1) : l >= k =>
           /\ l \in 1..Len(inbox'[s])
           /\ ~ Cancels(inbox'[s][l], c, f)
    <3> SUFFICES ASSUME NEW l \in 1..(i - 1), l >= k
                 PROVE  l \in 1..Len(inbox'[s]) /\ ~ Cancels(inbox'[s][l], c, f)
      OBVIOUS
    <3>1. l + 1 \in (k + 1)..(j - 1) /\ l \in 1..Len(inbox'[s])
      BY <1>1
    <3> QED
      BY <1>1, <2>1, <3>1
  <2>3. CASE k \in {0, 1}
    <3>1. Source(s, 0, c, f)'
      <4>1. CASE k = 0
        <5>1. 1 \in (k + 1)..(j - 1)
          BY <4>1
        <5>2. ~ Cancels(m, c, f) /\ topics[s][f][c] > 0
          BY <1>1, <2>1, <4>1, <5>1 DEF Source
        <5> QED
          BY <1>2, <5>2 DEF Source
      <4>2. CASE k = 1
        BY <1>1, <1>2, <2>1, <4>2 DEF Source
      <4> QED
        BY <2>3, <4>1, <4>2
    <3>2. 0 \in 0..(i - 1) /\ \A l \in (0 + 1)..(i - 1) : ~ Cancels(inbox'[s][l], c, f)
      BY <2>2, <2>3
    <3> QED
      BY <3>1, <3>2 DEF On
  <2>4. CASE k \notin {0, 1}
    <3>1. k - 1 \in 1..Len(inbox'[s]) /\ k - 1 \in 0..(i - 1) /\ (k - 1) + 1 = k
      <4>1. PICK n \in Nat : n = Len(inbox[s]) /\ Len(inbox'[s]) = n - 1
        BY <1>1
      <4>2. k \in 2..i /\ i <= n
        BY <2>1, <2>4, <4>1
      <4>3. k - 1 \in 1..(n - 1) /\ k - 1 \in 0..(i - 1) /\ (k - 1) + 1 = k
        BY <4>2
      <4> QED
        BY <4>1, <4>3
    <3>2. Asks(inbox[s][k], c, f)
      BY <2>1, <2>4 DEF Source
    <3>3. inbox'[s][k - 1] = inbox[s][k] /\ k - 1 # 0 /\ k - 1 <= Len(inbox'[s])
      <4>1. inbox'[s][k - 1] = inbox[s][(k - 1) + 1]
        BY <1>1, <3>1
      <4>2. k - 1 # 0 /\ k - 1 <= Len(inbox'[s])
        BY <1>1, <2>1, <3>1
      <4> QED
        BY <3>1, <4>1, <4>2
    <3>4. Source(s, k - 1, c, f)'
      BY <3>2, <3>3 DEF Source
    <3>5. \A l \in ((k - 1) + 1)..(i - 1) : ~ Cancels(inbox'[s][l], c, f)
      BY <2>2, <2>4, <3>1
    <3> QED
      BY <3>1, <3>4, <3>5 DEF On
  <2> QED
    BY <2>3, <2>4
<1> QED
  BY <1>3, <1>4

-----------------------------------------------------------------------------
(* Where a publish is *)

LEMMA PushDelivered ==
    ASSUME TypeOK, NEW c \in Conn, NEW e \in Event, PushTo(c, e)
    PROVE  /\ \A d \in Conn : \A p : Delivered(d, p) => Delivered(d, p)'
           /\ \A d \in Conn : \A p : Delivered(d, p)' =>
                \/ Delivered(d, p)
                \/ /\ d = c /\ e.type = "PUBLISH" /\ e.via = "live"
                   /\ SamePublish(e.packet, p)
           /\ \A p : e.type = "PUBLISH" /\ e.via = "live" /\ SamePublish(e.packet, p) =>
                Delivered(c, p)'
<1>0. /\ \A d \in Conn : d # c => outbound'[d] = outbound[d]
      /\ Len(outbound[c]) \in Nat
      /\ Len(outbound'[c]) = Len(outbound[c]) + 1
      /\ \A k \in 1..Len(outbound[c]) : outbound'[c][k] = outbound[c][k]
      /\ outbound'[c][Len(outbound[c]) + 1] = e
  BY PushEffect
<1>1. ASSUME NEW d \in Conn, NEW p, Delivered(d, p) PROVE Delivered(d, p)'
  <2>1. PICK i \in Pushes(d) : IsLive(d, i) /\ SamePublish(PacketAt(d, i), p)
    BY <1>1 DEF Delivered
  <2>2. i \in 1..Len(outbound'[d]) /\ outbound'[d][i] = outbound[d][i]
    BY <1>0, <2>1 DEF Pushes
  <2> QED
    BY <2>1, <2>2 DEF Delivered, Pushes, IsLive, IsPublish, PacketAt, SamePublish
<1>2. ASSUME NEW p, e.type = "PUBLISH", e.via = "live", SamePublish(e.packet, p)
      PROVE  Delivered(c, p)'
  <2>1. PICK i \in 1..Len(outbound'[c]) : outbound'[c][i] = e
    BY <1>0
  <2> QED
    BY <1>2, <2>1 DEF Delivered, Pushes, IsLive, IsPublish, PacketAt, SamePublish
<1>3. ASSUME NEW d \in Conn, NEW p, Delivered(d, p)', ~ Delivered(d, p)
      PROVE  d = c /\ e.type = "PUBLISH" /\ e.via = "live" /\ SamePublish(e.packet, p)
  <2>1. PICK i \in 1..Len(outbound'[d]) :
               /\ outbound'[d][i].type = "PUBLISH" /\ outbound'[d][i].via = "live"
               /\ SamePublish(outbound'[d][i].packet, p)
    BY <1>3 DEF Delivered, Pushes, IsLive, IsPublish, PacketAt, SamePublish
  <2>2. ~(i \in 1..Len(outbound[d]) /\ outbound'[d][i] = outbound[d][i])
    BY <1>3, <2>1 DEF Delivered, Pushes, IsLive, IsPublish, PacketAt
  <2>3. d = c /\ i = Len(outbound[c]) + 1
    BY <1>0, <2>1, <2>2
  <2> QED
    BY <1>0, <2>1, <2>3
<1> QED
  BY <1>1, <1>2, <1>3

LEMMA InFlightCases ==
    ASSUME NEW p \in Packet
    PROVE  InFlight(p) <=> \/ Submitted(p)
                           \/ \E s \in Shard, i \in Nat : QueuedAt(s, i, p)
                           \/ \E s \in Shard : FanningAt(s, p)
<1>1. \A s \in Shard : \A i \in 1..Len(inbox[s]) : i \in Nat
  OBVIOUS
<1> QED
  BY <1>1 DEF InFlight, Submitted, QueuedAt, FanningAt

\* Steps that leave the channels, the registry, the jobs and the deliveries.
LEMMA WayFrame ==
    ASSUME UNCHANGED <<inbox, topics, job>>,
           \A d \in Conn : \A q : Delivered(d, q)' <=> Delivered(d, q),
           NEW c \in Conn, NEW f \in Filter, NEW p \in Packet
    PROVE  /\ OnItsWay(c, f, p) /\ (Submitted(p) => Submitted(p)') => OnItsWay(c, f, p)'
           /\ KeptAway(c, p) => KeptAway(c, p)'
<1>1. /\ \A s \in Shard, i \in Nat, q \in Packet : QueuedAt(s, i, q)' <=> QueuedAt(s, i, q)
      /\ \A s \in Shard, q \in Packet : FanningAt(s, q)' <=> FanningAt(s, q)
  BY DEF QueuedAt, FanningAt
<1>2. \A s \in Shard, i \in Nat, d \in Conn, g \in Filter : On(s, i, d, g)' <=> On(s, i, d, g)
  BY OnFrame
<1>3. \A s \in Shard : Pending(s, c, f, p)' <=> Pending(s, c, f, p)
  BY DEF Pending
<1>4. InFlight(p) /\ (Submitted(p) => Submitted(p)') => InFlight(p)'
  <2>1. InFlight(p)' <=> \/ Submitted(p)'
                         \/ \E s \in Shard, i \in Nat : QueuedAt(s, i, p)'
                         \/ \E s \in Shard : FanningAt(s, p)'
    <3>1. \A s \in Shard : \A i \in 1..Len(inbox'[s]) : i \in Nat
      OBVIOUS
    <3> QED
      BY <3>1 DEF InFlight, Submitted, QueuedAt, FanningAt
  <2> QED
    BY <1>1, <2>1, InFlightCases
<1>5. OnItsWay(c, f, p) /\ (Submitted(p) => Submitted(p)') => OnItsWay(c, f, p)'
  BY <1>1, <1>2, <1>3, <1>4 DEF OnItsWay
<1>6. KeptAway(c, p) => KeptAway(c, p)'
  BY <1>1, <1>2 DEF KeptAway, Selects
<1> QED
  BY <1>5, <1>6

\* The reader of c dispatches a packet or answers it: what is to be shown is
\* about c alone.
LEMMA ReaderFrame ==
    ASSUME DInv, NEW c \in Conn,
           UNCHANGED <<inbox, topics, job, next>>,
           \A d \in Conn : \A q : Delivered(d, q)' <=> Delivered(d, q),
           \A d \in Conn : d # c =>
              /\ sending'[d] = sending[d] /\ ack'[d] = ack[d]
              /\ asked'[d] = asked[d] /\ firm'[d] = firm[d] /\ possible'[d] = possible[d],
           \A k \in 1..Len(sending'[c]) :
              /\ sending'[c][k].type = "Subscribe" => sending'[c][k].topic \in possible'[c]
              /\ sending'[c][k].type = "Unsubscribe" => sending'[c][k].topic \notin firm'[c]
              /\ sending'[c][k].type = "Disconnect" => firm'[c] = {}
              /\ ack'[c].type = "SUBACK" => sending'[c][k].type = "Subscribe"
              /\ ack'[c].type = "UNSUBACK" => sending'[c][k].type = "Unsubscribe",
           \A s \in Shard, f \in Filter : Relevant(f, s) => Promised(c, s, f)'
    PROVE  Requests' /\ Subscriptions' /\ NotifiedLive'
<1>0. TypeOK /\ Requests /\ Subscriptions /\ NotifiedLive
  BY DEF DInv, KInv, LInv
<1>1. Requests'
  BY <1>0 DEF Requests
<1>2. ASSUME NEW d \in Conn, d # c, NEW s \in Shard, NEW f \in Filter, Relevant(f, s)
      PROVE  Promised(d, s, f)'
  <2>1. Promised(d, s, f)
    BY <1>0, <1>2 DEF Subscriptions
  <2>2. On(s, End(s), d, f)' <=> On(s, End(s), d, f)
    BY DEF On, Source, End
  <2>3. \A t \in {"Subscribe", "Unsubscribe"} : Due(d, s, f, t)' <=> Due(d, s, f, t)
    BY <1>2 DEF Due
  <2> QED
    BY <1>2, <2>1, <2>2, <2>3 DEF Promised
<1>3. Subscriptions'
  BY <1>2 DEF Subscriptions, Relevant
<1>4. NotifiedLive'
  <2>1. \A s \in Shard : job[s].op = "fanout" => job[s].notified \in SUBSET Conn
    BY <1>0, JobFields DEF TypeOK
  <2> QED
    BY <1>0, <2>1 DEF NotifiedLive
<1> QED
  BY <1>1, <1>3, <1>4

-----------------------------------------------------------------------------
(* The steps of the clients *)

LEMMA DispatchPush ==
    ASSUME TypeOK, NEW c \in Conn, NEW pkt, Dispatch(c, pkt)
    PROVE  \A d \in Conn : \A q : Delivered(d, q)' <=> Delivered(d, q)
<1>1. nread[c] + 1 \in Nat
  BY DEF TypeOK
<1>2. /\ [type |-> "PUBACK", pid |-> nread[c] + 1] \in Event
      /\ [type |-> "PINGRESP", pid |-> nread[c] + 1] \in Event
  BY <1>1 DEF Event
<1>3. UNCHANGED outbound \/ \E e \in Event : e.type # "PUBLISH" /\ PushTo(c, e)
  BY <1>2 DEF Dispatch, ReadConnect, ReadSubscribe, ReadUnsubscribe, ReadPublish, ReadPing,
              ReadPuback, ReadHangup
<1>4. CASE UNCHANGED outbound
  BY <1>4 DEF Delivered, Pushes, IsLive, IsPublish, PacketAt
<1>5. CASE \E e \in Event : e.type # "PUBLISH" /\ PushTo(c, e)
  BY <1>5, PushDelivered
<1> QED
  BY <1>3, <1>4, <1>5

LEMMA DispatchFrame ==
    ASSUME DInv, NEW c \in Conn, NEW pkt, pkt \in Script[c][nread[c] + 1], Dispatch(c, pkt)
    PROVE  /\ UNCHANGED <<inbox, topics, job, next>>
           /\ next[c] = 0 /\ sending[c] = <<>> /\ ack[c] = NoAck /\ pkt \in ClientPacket
           /\ nread'[c] = nread[c] + 1 /\ nread[c] \in Nat
           /\ \A d \in Conn : d # c => /\ sending'[d] = sending[d] /\ ack'[d] = ack[d]
                                       /\ nread'[d] = nread[d]
           /\ \A d \in Conn : \A q : Delivered(d, q)' <=> Delivered(d, q)
           /\ \A q \in Packet : HandedOver(q)' => HandedOver(q)
           /\ \A q \in Packet : Submitted(q) => Submitted(q)' /\ q.from # c
           /\ \A q \in Packet : Submitted(q)' /\ q.from # c => Submitted(q)
<1>0. TypeOK /\ LInv /\ ShardOrder /\ FanOutMemory /\ Deliveries
  BY DEF DInv, OInv, KInv, LInv
<1>1. PICK ms \in Seq(Message), a \in Event \cup {NoAck} :
             /\ phase[c] = "reading" /\ next[c] = 0
             /\ UNCHANGED <<inbox, clients, topics, job, next>>
             /\ \A i \in 1..Len(ms) : ms[i].id = c
             /\ sending' = [sending EXCEPT ![c] = ms]
             /\ ack' = [ack EXCEPT ![c] = a]
             /\ \/ phase' = phase
                \/ /\ phase' = [phase EXCEPT ![c] = "closing"]
                   /\ ms = << [type |-> "Disconnect", id |-> c] >>
                   /\ a = NoAck
  BY <1>0, DispatchEffect
<1>2. /\ sending[c] = <<>> /\ nread'[c] = nread[c] + 1 /\ nread[c] \in Nat
      /\ \A d \in Conn : d # c => nread'[d] = nread[d]
  BY <1>0, DispatchFirst
<1>3. \A d \in Conn : d # c => sending'[d] = sending[d] /\ ack'[d] = ack[d]
  BY <1>0, <1>1 DEF TypeOK
<1>4. Decoded(c, pkt)
  BY DEF Dispatch, ReadConnect, ReadSubscribe, ReadUnsubscribe, ReadPublish,
         ReadPing, ReadPuback, ReadHangup
<1>5. pkt \in ClientPacket /\ ack[c] = NoAck
  BY <1>0, <1>4, DecodedPacket DEF Decoded, AtRead
<1>6. \A d \in Conn : \A q : Delivered(d, q)' <=> Delivered(d, q)
  BY <1>0, DispatchPush
<1>7. \A q \in Packet : HandedOver(q)' => HandedOver(q)
  <2>1. \A d \in Conn, k \in Nat, p \in Packet : LiveAt(d, k, p)' => LiveAt(d, k, p)
    BY <1>0, DispatchOrderEffect
  <2> QED
    BY <1>0, <1>1, <2>1, OrderFrame
<1>8. ASSUME NEW q \in Packet
      PROVE  /\ Submitted(q) => Submitted(q)' /\ q.from # c
             /\ Submitted(q)' /\ q.from # c => Submitted(q)
  <2>1. q.from \in Conn
    BY PacketFields
  <2>2. 1..Len(<<>>) = {}
    OBVIOUS
  <2> QED
    BY <1>2, <1>3, <2>1, <2>2 DEF Submitted
<1> QED
  BY <1>1, <1>2, <1>3, <1>5, <1>6, <1>7, <1>8

\* A packet that adds nothing to what is owed or barred.
LEMMA QuietRequestDInv ==
    ASSUME DInv, OInv', KInv', HistoryType', NEW c \in Conn, NEW pkt,
           pkt \in Script[c][nread[c] + 1], Dispatch(c, pkt),
           Requests', Subscriptions', NotifiedLive',
           \A q \in Packet : Submitted(q)' => Submitted(q),
           \A o \in owed' : o \in owed /\ o.filter \in firm'[o.conn],
           \A b \in barred' : b \in barred /\ \A f \in possible'[b.conn] :
                                                 ~ Selects(f, b.packet.topic)
    PROVE  DInv'
<1>0. /\ OwedArrives /\ BarredStaysAway /\ Recorded /\ HistoryType
  BY DEF DInv
<1>1. /\ UNCHANGED <<inbox, topics, job>>
      /\ \A d \in Conn : \A q : Delivered(d, q)' <=> Delivered(d, q)
      /\ nread'[c] = nread[c] + 1 /\ nread[c] \in Nat
      /\ \A d \in Conn : d # c => nread'[d] = nread[d]
      /\ \A q \in Packet : HandedOver(q)' => HandedOver(q)
      /\ \A q \in Packet : Submitted(q) => Submitted(q)'
  BY DispatchFrame
<1>2. OwedArrives'
  <2> SUFFICES ASSUME NEW o \in owed'
               PROVE  /\ o.conn \in Polite /\ o.filter \in firm'[o.conn] /\ o.packet \in Packet
                      /\ Selects(o.filter, o.packet.topic)
                      /\ OnItsWay(o.conn, o.filter, o.packet)'
    BY DEF OwedArrives, Polite, Selects
  <2>1. o \in owed /\ o.filter \in firm'[o.conn]
    OBVIOUS
  <2>2. /\ o.conn \in Polite /\ o.filter \in firm[o.conn] /\ o.packet \in Packet
        /\ Selects(o.filter, o.packet.topic) /\ OnItsWay(o.conn, o.filter, o.packet)
    BY <1>0, <2>1 DEF OwedArrives
  <2>3. o.conn \in Conn /\ o.filter \in Filter
    BY <1>0, <2>2 DEF HistoryType, Polite
  <2>4. OnItsWay(o.conn, o.filter, o.packet)'
    BY <1>1, <2>2, <2>3, WayFrame
  <2> QED
    BY <2>1, <2>2, <2>4
<1>3. BarredStaysAway'
  <2> SUFFICES ASSUME NEW b \in barred'
               PROVE  /\ b.conn \in Conn /\ b.packet \in Packet
                      /\ KeptAway(b.conn, b.packet)'
    BY DEF BarredStaysAway, Selects
  <2>1. /\ b.conn \in Conn /\ b.packet \in Packet /\ KeptAway(b.conn, b.packet)
    BY <1>0 DEF BarredStaysAway
  <2>2. b.packet.topic \in Filter
    BY <2>1, PacketFields, ShardFacts
  <2>3. KeptAway(b.conn, b.packet)'
    BY <1>1, <2>1, <2>2, WayFrame
  <2> QED
    BY <2>1, <2>3
<1>4. Recorded'
  <2> SUFFICES ASSUME NEW p \in Packet,
                      (\E o \in owed' : o.packet = p) \/ (\E b \in barred' : b.packet = p)
               PROVE  /\ p.n <= nread'[p.from]
                      /\ \A q \in Packet :
                           (HandedOver(q)' \/ Submitted(q)') /\ SamePublish(p, q) => p = q
    BY DEF Recorded, SamePublish
  <2>1. (\E o \in owed : o.packet = p) \/ (\E b \in barred : b.packet = p)
    OBVIOUS
  <2>2. /\ p.n <= nread[p.from]
        /\ \A q \in Packet : (HandedOver(q) \/ Submitted(q)) /\ SamePublish(p, q) => p = q
    BY <1>0, <2>1 DEF Recorded
  <2>3. p.n \in Nat /\ p.from \in Conn /\ nread[p.from] \in Nat
    BY PacketFields DEF DInv, KInv, LInv, TypeOK
  <2>4. p.n <= nread'[p.from]
    BY <1>1, <2>2, <2>3
  <2> QED
    BY <1>1, <2>2, <2>4
<1> QED
  BY <1>2, <1>3, <1>4 DEF DInv

LEMMA DSubscribeDInv ==
    ASSUME DInv, OInv', KInv', NEW c \in Conn, NEW pkt,
           pkt \in Script[c][nread[c] + 1], DSubscribe(c, pkt)
    PROVE  DInv'
<1>0. TypeOK /\ HistoryType /\ Subscriptions /\ OwedArrives /\ BarredStaysAway
  BY DEF DInv, KInv, LInv
<1>1. ReadSubscribe(c, pkt) /\ Dispatch(c, pkt)
  BY DEF DSubscribe, Dispatch
<1>2. /\ UNCHANGED <<inbox, topics, job, next>> /\ next[c] = 0 /\ pkt \in ClientPacket
      /\ \A d \in Conn : d # c => sending'[d] = sending[d] /\ ack'[d] = ack[d]
      /\ \A d \in Conn : \A q : Delivered(d, q)' <=> Delivered(d, q)
  BY <1>1, DispatchFrame
<1>3. pkt.filters \in Seq(Filter) /\ Filters(pkt) \in SUBSET Filter
  BY <1>1, <1>2, PacketCases DEF ReadSubscribe, Filters
<1>4. /\ sending'[c] = [k \in 1..Len(pkt.filters) |->
                          [type |-> "Subscribe", id |-> c, topic |-> pkt.filters[k]]]
      /\ ack'[c] = [type |-> "SUBACK", pid |-> nread[c] + 1]
  BY <1>0, <1>1 DEF ReadSubscribe, Begin, TypeOK
<1>5. /\ Len(sending'[c]) = Len(pkt.filters)
      /\ \A k \in 1..Len(sending'[c]) : /\ sending'[c][k].type = "Subscribe"
                                        /\ sending'[c][k].topic = pkt.filters[k]
                                        /\ sending'[c][k].topic \in Filters(pkt)
  BY <1>3, <1>4 DEF Filters
<1>6. /\ asked' = [asked EXCEPT ![c] = Filters(pkt)]
      /\ possible' = [possible EXCEPT ![c] = possible[c] \cup Filters(pkt)]
      /\ firm' = firm /\ owed' = owed
      /\ \A b \in barred' : /\ b \in barred
                            /\ b.conn = c => \A f \in Filters(pkt) : ~ Selects(f, b.packet.topic)
  BY <1>0 DEF DSubscribe, HistoryType
<1>7. HistoryType'
  BY <1>0, <1>3, <1>6 DEF HistoryType
<1>8. /\ asked'[c] = Filters(pkt) /\ possible'[c] = possible[c] \cup Filters(pkt)
      /\ \A d \in Conn : d # c => asked'[d] = asked[d] /\ possible'[d] = possible[d]
  BY <1>0, <1>6 DEF HistoryType
<1>9. ASSUME NEW s \in Shard, NEW f \in Filter, Relevant(f, s) PROVE Promised(c, s, f)'
  <2>1. Promised(c, s, f)
    BY <1>0, <1>9 DEF Subscriptions
  <2>2. On(s, End(s), c, f)' <=> On(s, End(s), c, f)
    BY <1>2 DEF On, Source, End
  <2>3. ASSUME f \in Filters(pkt) PROVE Due(c, s, f, "Subscribe")'
    <3>1. PICK k \in 1..Len(pkt.filters) : f = pkt.filters[k]
      BY <2>3 DEF Filters
    <3>2. next'[c] <= s
      BY <1>2 DEF Shard
    <3> QED
      BY <1>5, <3>1, <3>2 DEF Due
  <2> QED
    BY <1>4, <1>6, <1>8, <2>1, <2>2, <2>3 DEF Promised
<1>10. Requests' /\ Subscriptions' /\ NotifiedLive'
  <2>0. ack'[c].type = "SUBACK"
    BY <1>4
  <2>1. \A k \in 1..Len(sending'[c]) :
           /\ sending'[c][k].type = "Subscribe" => sending'[c][k].topic \in possible'[c]
           /\ sending'[c][k].type = "Unsubscribe" => sending'[c][k].topic \notin firm'[c]
           /\ sending'[c][k].type = "Disconnect" => firm'[c] = {}
           /\ ack'[c].type = "SUBACK" => sending'[c][k].type = "Subscribe"
           /\ ack'[c].type = "UNSUBACK" => sending'[c][k].type = "Unsubscribe"
    BY <1>5, <1>8, <2>0
  <2>2. \A d \in Conn : d # c =>
           /\ sending'[d] = sending[d] /\ ack'[d] = ack[d]
           /\ asked'[d] = asked[d] /\ firm'[d] = firm[d] /\ possible'[d] = possible[d]
    BY <1>2, <1>6, <1>8
  <2> QED
    BY <1>2, <1>9, <2>1, <2>2, ReaderFrame
<1>11. \A q \in Packet : Submitted(q)' => Submitted(q)
  <2>1. \A q \in Packet : q.from \in Conn
    BY PacketFields
  <2> QED
    BY <1>2, <1>5, <2>1 DEF Submitted
<1>12. \A o \in owed' : o \in owed /\ o.filter \in firm'[o.conn]
  BY <1>0, <1>6 DEF OwedArrives
<1>13. \A b \in barred' : b \in barred /\ \A f \in possible'[b.conn] :
                                              ~ Selects(f, b.packet.topic)
  <2> SUFFICES ASSUME NEW b \in barred', NEW f \in possible'[b.conn]
               PROVE  b \in barred /\ ~ Selects(f, b.packet.topic)
    BY <1>6
  <2>1. b.conn \in Conn /\ \A g \in possible[b.conn] : ~ Selects(g, b.packet.topic)
    BY <1>0, <1>6 DEF BarredStaysAway
  <2> QED
    BY <1>6, <1>8, <2>1
<1> QED
  BY <1>1, <1>7, <1>10, <1>11, <1>12, <1>13, QuietRequestDInv

LEMMA DUnsubscribeDInv ==
    ASSUME DInv, OInv', KInv', NEW c \in Conn, NEW pkt,
           pkt \in Script[c][nread[c] + 1], DUnsubscribe(c, pkt)
    PROVE  DInv'
<1>0. TypeOK /\ HistoryType /\ Subscriptions /\ OwedArrives /\ BarredStaysAway
  BY DEF DInv, KInv, LInv
<1>1. ReadUnsubscribe(c, pkt) /\ Dispatch(c, pkt)
  BY DEF DUnsubscribe, Dispatch
<1>2. /\ UNCHANGED <<inbox, topics, job, next>> /\ next[c] = 0 /\ pkt \in ClientPacket
      /\ \A d \in Conn : d # c => sending'[d] = sending[d] /\ ack'[d] = ack[d]
      /\ \A d \in Conn : \A q : Delivered(d, q)' <=> Delivered(d, q)
  BY <1>1, DispatchFrame
<1>3. pkt.filters \in Seq(Filter) /\ Filters(pkt) \in SUBSET Filter
  BY <1>1, <1>2, PacketCases DEF ReadUnsubscribe, Filters
<1>4. /\ sending'[c] = [k \in 1..Len(pkt.filters) |->
                          [type |-> "Unsubscribe", id |-> c, topic |-> pkt.filters[k]]]
      /\ ack'[c] = [type |-> "UNSUBACK", pid |-> nread[c] + 1]
  BY <1>0, <1>1 DEF ReadUnsubscribe, Begin, TypeOK
<1>5. /\ Len(sending'[c]) = Len(pkt.filters)
      /\ \A k \in 1..Len(sending'[c]) : /\ sending'[c][k].type = "Unsubscribe"
                                        /\ sending'[c][k].topic = pkt.filters[k]
                                        /\ sending'[c][k].topic \in Filters(pkt)
  BY <1>3, <1>4 DEF Filters
<1>6. /\ asked' = [asked EXCEPT ![c] = Filters(pkt)]
      /\ firm' = [firm EXCEPT ![c] = firm[c] \ Filters(pkt)]
      /\ possible' = possible /\ barred' = barred
      /\ \A o \in owed' : o \in owed /\ ~(o.conn = c /\ o.filter \in Filters(pkt))
  BY <1>0 DEF DUnsubscribe, HistoryType
<1>7. HistoryType'
  BY <1>0, <1>3, <1>6 DEF HistoryType
<1>8. /\ asked'[c] = Filters(pkt) /\ firm'[c] = firm[c] \ Filters(pkt)
      /\ \A d \in Conn : d # c => asked'[d] = asked[d] /\ firm'[d] = firm[d]
  BY <1>0, <1>6 DEF HistoryType
<1>9. ASSUME NEW s \in Shard, NEW f \in Filter, Relevant(f, s) PROVE Promised(c, s, f)'
  <2>1. Promised(c, s, f)
    BY <1>0, <1>9 DEF Subscriptions
  <2>2. On(s, End(s), c, f)' <=> On(s, End(s), c, f)
    BY <1>2 DEF On, Source, End
  <2>3. ASSUME f \in Filters(pkt) PROVE Due(c, s, f, "Unsubscribe")'
    <3>1. PICK k \in 1..Len(pkt.filters) : f = pkt.filters[k]
      BY <2>3 DEF Filters
    <3>2. next'[c] <= s
      BY <1>2 DEF Shard
    <3> QED
      BY <1>5, <3>1, <3>2 DEF Due
  <2> QED
    BY <1>4, <1>6, <1>8, <2>1, <2>2, <2>3 DEF Promised
<1>10. Requests' /\ Subscriptions' /\ NotifiedLive'
  <2>0. ack'[c].type = "UNSUBACK"
    BY <1>4
  <2>1. \A k \in 1..Len(sending'[c]) :
           /\ sending'[c][k].type = "Subscribe" => sending'[c][k].topic \in possible'[c]
           /\ sending'[c][k].type = "Unsubscribe" => sending'[c][k].topic \notin firm'[c]
           /\ sending'[c][k].type = "Disconnect" => firm'[c] = {}
           /\ ack'[c].type = "SUBACK" => sending'[c][k].type = "Subscribe"
           /\ ack'[c].type = "UNSUBACK" => sending'[c][k].type = "Unsubscribe"
    BY <1>5, <1>8, <2>0
  <2>2. \A d \in Conn : d # c =>
           /\ sending'[d] = sending[d] /\ ack'[d] = ack[d]
           /\ asked'[d] = asked[d] /\ firm'[d] = firm[d] /\ possible'[d] = possible[d]
    BY <1>2, <1>6, <1>8
  <2> QED
    BY <1>2, <1>9, <2>1, <2>2, ReaderFrame
<1>11. \A q \in Packet : Submitted(q)' => Submitted(q)
  <2>1. \A q \in Packet : q.from \in Conn
    BY PacketFields
  <2> QED
    BY <1>2, <1>5, <2>1 DEF Submitted
<1>12. \A o \in owed' : o \in owed /\ o.filter \in firm'[o.conn]
  <2> SUFFICES ASSUME NEW o \in owed' PROVE o.filter \in firm'[o.conn]
    BY <1>6
  <2>1. o.conn \in Conn /\ o.filter \in firm[o.conn]
    BY <1>0, <1>6 DEF OwedArrives, Polite
  <2> QED
    BY <1>6, <1>8, <2>1
<1>13. \A b \in barred' : b \in barred /\ \A f \in possible'[b.conn] :
                                              ~ Selects(f, b.packet.topic)
  BY <1>0, <1>6 DEF BarredStaysAway
<1> QED
  BY <1>1, <1>7, <1>10, <1>11, <1>12, <1>13, QuietRequestDInv

\* The packets that neither ask for anything nor publish.
LEMMA DHangupOtherDInv ==
    ASSUME DInv, OInv', KInv', NEW c \in Conn, NEW pkt,
           pkt \in Script[c][nread[c] + 1], DHangup(c, pkt) \/ DOther(c, pkt)
    PROVE  DInv'
<1>0. TypeOK /\ HistoryType /\ Subscriptions /\ OwedArrives /\ BarredStaysAway
  BY DEF DInv, KInv, LInv
<1>1. Dispatch(c, pkt)
  BY DEF DHangup, DOther, Dispatch
<1>2. /\ UNCHANGED <<inbox, topics, job, next>> /\ sending[c] = <<>> /\ ack[c] = NoAck
      /\ \A d \in Conn : d # c => sending'[d] = sending[d] /\ ack'[d] = ack[d]
      /\ \A d \in Conn : \A q : Delivered(d, q)' <=> Delivered(d, q)
  BY <1>1, DispatchFrame
<1>3. /\ asked' = asked /\ possible' = possible /\ barred' = barred
      /\ \A d \in Conn : d # c => firm'[d] = firm[d]
      /\ firm'[c] = firm[c] \/ firm'[c] = {}
      /\ firm' \in [Conn -> SUBSET Filter]
      /\ \A o \in owed' : o \in owed /\ (o.conn = c => firm'[c] = firm[c])
  <2>1. CASE DHangup(c, pkt)
    BY <1>0, <2>1 DEF DHangup, HistoryType
  <2>2. CASE DOther(c, pkt)
    BY <1>0, <2>2 DEF DOther, history, HistoryType
  <2> QED
    BY <2>1, <2>2
<1>4. /\ ack'[c].type \notin {"SUBACK", "UNSUBACK"}
      /\ \A k \in 1..Len(sending'[c]) :
           \/ sending'[c][k].type = "Register"
           \/ sending'[c][k].type = "Disconnect" /\ firm'[c] = {}
  <2>1. CASE DHangup(c, pkt)
    <3>1. /\ sending'[c] = << [type |-> "Disconnect", id |-> c] >>
          /\ ack' = ack /\ firm'[c] = {}
      BY <1>0, <2>1 DEF DHangup, ReadHangup, HistoryType, TypeOK
    <3> QED
      BY <1>2, <3>1 DEF NoAck
  <2>2. CASE ReadConnect(c, pkt)
    <3>1. /\ sending'[c] = << [type |-> "Register", id |-> c] >>
          /\ ack'[c] = [type |-> "CONNACK", pid |-> nread[c] + 1]
      BY <1>0, <2>2 DEF ReadConnect, Begin, TypeOK
    <3> QED
      BY <3>1
  <2>3. CASE ReadPing(c, pkt) \/ ReadPuback(c, pkt)
    <3>1. sending'[c] = <<>> /\ ack'[c] = NoAck
      BY <1>2, <2>3 DEF ReadPing, ReadPuback
    <3> QED
      BY <3>1 DEF NoAck
  <2> QED
    BY <2>1, <2>2, <2>3 DEF DOther
<1>5. HistoryType'
  BY <1>0, <1>3 DEF HistoryType
<1>6. ASSUME NEW s \in Shard, NEW f \in Filter, Relevant(f, s) PROVE Promised(c, s, f)'
  <2>1. Promised(c, s, f)
    BY <1>0, <1>6 DEF Subscriptions
  <2>2. On(s, End(s), c, f)' <=> On(s, End(s), c, f)
    BY <1>2 DEF On, Source, End
  <2> QED
    BY <1>3, <1>4, <2>1, <2>2 DEF Promised
<1>7. Requests' /\ Subscriptions' /\ NotifiedLive'
  BY <1>2, <1>3, <1>4, <1>6, ReaderFrame
<1>8. \A q \in Packet : Submitted(q)' => Submitted(q)
  <2>1. \A q \in Packet : q.from \in Conn
    BY PacketFields
  <2> QED
    BY <1>2, <1>4, <2>1 DEF Submitted
<1>9. \A o \in owed' : o \in owed /\ o.filter \in firm'[o.conn]
  <2> SUFFICES ASSUME NEW o \in owed' PROVE o.filter \in firm'[o.conn]
    BY <1>3
  <2>1. o.conn \in Conn /\ o.filter \in firm[o.conn]
    BY <1>0, <1>3 DEF OwedArrives, Polite
  <2> QED
    BY <1>3, <2>1
<1>10. \A b \in barred' : b \in barred /\ \A f \in possible'[b.conn] :
                                              ~ Selects(f, b.packet.topic)
  BY <1>0, <1>3 DEF BarredStaysAway
<1> QED
  BY <1>1, <1>5, <1>7, <1>8, <1>9, <1>10, QuietRequestDInv

\* A publish is owed to the firm subscribers and barred from those who cannot
\* have a subscription; it is fresh, so nothing of it is anywhere yet.
LEMMA DPublishDInv ==
    ASSUME DInv, OInv', KInv', NEW c \in Conn, NEW pkt,
           pkt \in Script[c][nread[c] + 1], DPublish(c, pkt)
    PROVE  DInv'
<1>0. /\ TypeOK /\ HistoryType /\ Subscriptions /\ OwedArrives /\ BarredStaysAway
      /\ Recorded /\ Numbering
  BY DEF DInv, OInv, KInv, LInv
<1>1. ReadPublish(c, pkt) /\ Dispatch(c, pkt)
  BY DEF DPublish, Dispatch
<1>2. /\ UNCHANGED <<inbox, topics, job, next>> /\ sending[c] = <<>> /\ pkt \in ClientPacket
      /\ nread'[c] = nread[c] + 1 /\ nread[c] \in Nat
      /\ \A d \in Conn : d # c => /\ sending'[d] = sending[d] /\ ack'[d] = ack[d]
                                  /\ nread'[d] = nread[d]
      /\ \A d \in Conn : \A q : Delivered(d, q)' <=> Delivered(d, q)
      /\ \A q \in Packet : HandedOver(q)' => HandedOver(q)
      /\ \A q \in Packet : Submitted(q) => Submitted(q)' /\ q.from # c
      /\ \A q \in Packet : Submitted(q)' /\ q.from # c => Submitted(q)
  BY <1>1, DispatchFrame
<1>3. PICK p0 \in Packet : /\ p0 = Published(c, nread[c] + 1, pkt)
                           /\ p0.from = c /\ p0.n = nread[c] + 1
  <2>1. /\ pkt.topic \in Topic /\ pkt.empty \in BOOLEAN
        /\ pkt.qos \in {0, 1} /\ pkt.retain \in BOOLEAN
    BY <1>1, <1>2, PacketCases DEF ReadPublish
  <2>2. Published(c, nread[c] + 1, pkt) \in Packet
    BY <1>2, <2>1 DEF Published, Packet
  <2> QED
    BY <2>2 DEF Published
<1>4. sending'[c] = << [type |-> "Publish", id |-> c, packet |-> p0] >> /\ ack'[c] = NoAck
  BY <1>0, <1>1, <1>3 DEF ReadPublish, Begin, TypeOK
<1>5. /\ asked' = asked /\ firm' = firm /\ possible' = possible
      /\ \A o \in owed' : \/ o \in owed
                          \/ /\ o.conn \in Polite /\ o.packet = p0
                             /\ o.filter \in firm[o.conn] /\ Selects(o.filter, p0.topic)
      /\ \A b \in barred' : \/ b \in barred
                            \/ /\ b.conn \in Conn /\ b.packet = p0
                               /\ \A f \in possible[b.conn] : ~ Selects(f, p0.topic)
  BY <1>3 DEF DPublish
<1>6. HistoryType'
  BY <1>0, <1>5 DEF HistoryType
<1>7. Requests' /\ Subscriptions' /\ NotifiedLive'
  <2>1. /\ ack'[c].type \notin {"SUBACK", "UNSUBACK"}
        /\ \A k \in 1..Len(sending'[c]) : sending'[c][k].type = "Publish"
    BY <1>4 DEF NoAck
  <2>2. ASSUME NEW s \in Shard, NEW f \in Filter, Relevant(f, s) PROVE Promised(c, s, f)'
    <3>1. Promised(c, s, f)
      BY <1>0, <2>2 DEF Subscriptions
    <3>2. On(s, End(s), c, f)' <=> On(s, End(s), c, f)
      BY <1>2 DEF On, Source, End
    <3> QED
      BY <1>5, <2>1, <3>1, <3>2 DEF Promised
  <2> QED
    BY <1>2, <1>5, <2>1, <2>2, ReaderFrame
\* p0 is fresh
<1>8. /\ \A q \in Packet : HandedOver(q) => ~ SamePublish(p0, q)
      /\ \A q \in Packet : Submitted(q)' /\ SamePublish(p0, q) => p0 = q
      /\ Submitted(p0)'
  <2>1. ASSUME NEW q \in Packet, HandedOver(q), SamePublish(p0, q) PROVE FALSE
    <3>1. q.n <= nread[c] /\ q.n = nread[c] + 1
      BY <1>0, <1>3, <2>1 DEF Numbering, SamePublish
    <3> QED
      BY <1>2, <3>1
  <2>2. \A k \in 1..Len(sending'[c]) : sending'[c][k].packet = p0
    BY <1>4
  <2>3. \A q \in Packet : Submitted(q)' /\ SamePublish(p0, q) => p0 = q
    BY <1>3, <2>2 DEF Submitted, SamePublish
  <2>4. Submitted(p0)'
    <3>1. 1 \in 1..Len(sending'[c]) /\ sending'[c][1].type = "Publish"
      BY <1>4
    <3> QED
      BY <1>3, <2>2, <3>1 DEF Submitted
  <2> QED
    BY <2>1, <2>3, <2>4
<1>9. \A d \in Conn : ~ Delivered(d, p0)'
  <2> SUFFICES ASSUME NEW d \in Conn, Delivered(d, p0) PROVE FALSE
    BY <1>2
  <2>1. PICK i \in Pushes(d) : IsLive(d, i) /\ SamePublish(PacketAt(d, i), p0)
    BY DEF Delivered
  <2>2. PacketAt(d, i) \in Packet /\ HandedOver(PacketAt(d, i))
    BY <2>1, LiveEvent DEF DInv
  <2> QED
    BY <1>8, <2>1, <2>2 DEF SamePublish
<1>10. /\ \A s \in Shard, i \in Nat : ~ QueuedAt(s, i, p0)'
       /\ \A s \in Shard : ~ FanningAt(s, p0)'
  <2>1. ~ HandedOver(p0)'
    BY <1>2, <1>3, <1>8 DEF SamePublish
  <2> QED
    BY <2>1 DEF HandedOver
<1>11. OwedArrives'
  <2> SUFFICES ASSUME NEW o \in owed'
               PROVE  /\ o.conn \in Polite /\ o.filter \in firm'[o.conn] /\ o.packet \in Packet
                      /\ Selects(o.filter, o.packet.topic)
                      /\ OnItsWay(o.conn, o.filter, o.packet)'
    BY DEF OwedArrives, Polite, Selects
  <2>1. CASE o \in owed
    <3>1. /\ o.conn \in Polite /\ o.filter \in firm[o.conn] /\ o.packet \in Packet
          /\ Selects(o.filter, o.packet.topic) /\ OnItsWay(o.conn, o.filter, o.packet)
      BY <1>0, <2>1 DEF OwedArrives
    <3>2. o.conn \in Conn /\ o.filter \in Filter
      BY <1>0, <3>1 DEF HistoryType, Polite
    <3>3. OnItsWay(o.conn, o.filter, o.packet)'
      BY <1>2, <3>1, <3>2, WayFrame
    <3> QED
      BY <1>5, <3>1, <3>3
  <2>2. CASE o \notin owed
    <3>1. /\ o.conn \in Polite /\ o.packet = p0
          /\ o.filter \in firm[o.conn] /\ Selects(o.filter, p0.topic)
      BY <1>5, <2>2
    <3>2. InFlight(p0)'
      BY <1>8 DEF Submitted, InFlight
    <3>3. OnItsWay(o.conn, o.filter, o.packet)'
      BY <3>1, <1>10, <3>2 DEF OnItsWay
    <3> QED
      BY <1>3, <1>5, <3>1, <3>3
  <2> QED
    BY <2>1, <2>2
<1>12. BarredStaysAway'
  <2> SUFFICES ASSUME NEW b \in barred'
               PROVE  /\ b.conn \in Conn /\ b.packet \in Packet
                      /\ \A f \in possible'[b.conn] : ~ Selects(f, b.packet.topic)
                      /\ KeptAway(b.conn, b.packet)'
    BY DEF BarredStaysAway, Selects
  <2>1. CASE b \in barred
    <3>1. /\ b.conn \in Conn /\ b.packet \in Packet /\ KeptAway(b.conn, b.packet)
          /\ \A f \in possible[b.conn] : ~ Selects(f, b.packet.topic)
      BY <1>0, <2>1 DEF BarredStaysAway
    <3>2. b.packet.topic \in Filter
      BY <3>1, PacketFields, ShardFacts
    <3>3. KeptAway(b.conn, b.packet)'
      BY <1>2, <3>1, <3>2, WayFrame
    <3> QED
      BY <1>5, <3>1, <3>3
  <2>2. CASE b \notin barred
    <3>1. /\ b.conn \in Conn /\ b.packet = p0
          /\ \A f \in possible[b.conn] : ~ Selects(f, p0.topic)
      BY <1>5, <2>2
    <3>2. KeptAway(b.conn, b.packet)'
      BY <1>9, <1>10, <3>1 DEF KeptAway
    <3> QED
      BY <1>3, <1>5, <3>1, <3>2
  <2> QED
    BY <2>1, <2>2
<1>13. Recorded'
  <2> SUFFICES ASSUME NEW p \in Packet,
                      (\E o \in owed' : o.packet = p) \/ (\E b \in barred' : b.packet = p)
               PROVE  /\ p.n <= nread'[p.from]
                      /\ \A q \in Packet :
                           (HandedOver(q)' \/ Submitted(q)') /\ SamePublish(p, q) => p = q
    BY DEF Recorded, SamePublish
  <2>1. CASE p = p0
    BY <1>2, <1>3, <1>8, <2>1
  <2>2. CASE p # p0
    <3>1. (\E o \in owed : o.packet = p) \/ (\E b \in barred : b.packet = p)
      BY <1>5, <2>2
    <3>2. /\ p.n <= nread[p.from]
          /\ \A q \in Packet : (HandedOver(q) \/ Submitted(q)) /\ SamePublish(p, q) => p = q
      BY <1>0, <3>1 DEF Recorded
    <3>3. p.n \in Nat /\ p.from \in Conn /\ nread[p.from] \in Nat
      BY <1>0, PacketFields DEF TypeOK
    <3>4. p.n <= nread'[p.from]
      BY <1>2, <3>2, <3>3
    <3>5. ASSUME NEW q \in Packet, Submitted(q)', SamePublish(p, q) PROVE p = q
      <4>1. CASE q.from # c
        BY <1>2, <3>2, <3>5, <4>1
      <4>2. CASE q.from = c
        <5>1. q = p0
          <6>1. \A k \in 1..Len(sending'[c]) : sending'[c][k].packet = p0
            BY <1>4
          <6> QED
            BY <3>5, <4>2, <6>1 DEF Submitted
        <5>2. p.n = nread[c] + 1 /\ p.from = c
          BY <1>3, <3>5, <5>1 DEF SamePublish
        <5> QED
          BY <1>2, <3>2, <5>2
      <4> QED
        BY <4>1, <4>2
    <3> QED
      BY <1>2, <3>2, <3>4, <3>5
  <2> QED
    BY <2>1, <2>2
<1> QED
  BY <1>6, <1>7, <1>11, <1>12, <1>13 DEF DInv

-----------------------------------------------------------------------------
(* The steps of the readers *)

LEMMA AnswerDInv ==
    ASSUME DInv, OInv', KInv', NEW c \in Conn, DAnswer(c)
    PROVE  DInv'
<1>0. /\ TypeOK /\ HistoryType /\ Subscriptions /\ OwedArrives /\ BarredStaysAway
      /\ Recorded /\ Answers
  BY DEF DInv, OInv, KInv, LInv
<1>1. /\ sending[c] = <<>> /\ ack[c] # NoAck /\ PushTo(c, ack[c])
      /\ ack' = [ack EXCEPT ![c] = NoAck]
      /\ UNCHANGED <<inbox, topics, job, next, sending, nread>>
  BY DEF DAnswer, Answer, shardVars
<1>2. ack[c] \in Event /\ ack[c].type # "PUBLISH"
  BY <1>0, <1>1 DEF TypeOK, Answers
<1>3. \A d \in Conn : \A q : Delivered(d, q)' <=> Delivered(d, q)
  BY <1>0, <1>1, <1>2, PushDelivered
<1>4. /\ ack'[c] = NoAck /\ asked' = asked /\ owed' = owed /\ barred' = barred
      /\ firm' \in [Conn -> SUBSET Filter] /\ possible' \in [Conn -> SUBSET Filter]
      /\ \A d \in Conn : d # c => /\ ack'[d] = ack[d] /\ firm'[d] = firm[d]
                                  /\ possible'[d] = possible[d]
      /\ firm'[c] = IF ack[c].type = "SUBACK" THEN firm[c] \cup asked[c] ELSE firm[c]
      /\ possible'[c] = IF ack[c].type = "UNSUBACK" THEN possible[c] \ asked[c] ELSE possible[c]
  BY <1>0, <1>1 DEF DAnswer, HistoryType, TypeOK
<1>5. HistoryType'
  BY <1>0, <1>4 DEF HistoryType
<1>6. ASSUME NEW s \in Shard, NEW f \in Filter, Relevant(f, s) PROVE Promised(c, s, f)'
  <2>1. Promised(c, s, f)
    BY <1>0, <1>6 DEF Subscriptions
  <2>2. On(s, End(s), c, f)' <=> On(s, End(s), c, f)
    BY <1>1 DEF On, Source, End
  <2>3. ~ Due(c, s, f, "Subscribe") /\ ~ Due(c, s, f, "Unsubscribe")
    <3>1. 1..Len(<<>>) = {}
      OBVIOUS
    <3> QED
      BY <1>1, <3>1 DEF Due
  <2>4. ack'[c].type \notin {"SUBACK", "UNSUBACK"}
    BY <1>4 DEF NoAck
  <2> QED
    BY <1>4, <2>1, <2>2, <2>3, <2>4 DEF Promised
<1>7. Requests' /\ Subscriptions' /\ NotifiedLive'
  <2>1. \A k : k \notin 1..Len(sending'[c])
    <3>1. 1..Len(<<>>) = {}
      OBVIOUS
    <3> QED
      BY <1>1, <3>1
  <2>2. \A d \in Conn : d # c =>
           /\ sending'[d] = sending[d] /\ ack'[d] = ack[d]
           /\ asked'[d] = asked[d] /\ firm'[d] = firm[d] /\ possible'[d] = possible[d]
    BY <1>1, <1>4
  <2> QED
    BY <1>1, <1>3, <1>6, <2>1, <2>2, ReaderFrame
<1>8. \A q \in Packet : (Submitted(q)' <=> Submitted(q)) /\ (HandedOver(q)' => HandedOver(q))
  <2>1. \A d \in Conn, k \in Nat, p \in Packet : LiveAt(d, k, p)' => LiveAt(d, k, p)
    BY <1>0, <1>1, <1>2, QuietPush
  <2>2. \A q \in Packet : HandedOver(q)' => HandedOver(q)
    BY <1>1, <2>1, OrderFrame DEF DInv, OInv
  <2> QED
    BY <1>1, <2>2 DEF Submitted
<1>9. OwedArrives'
  <2> SUFFICES ASSUME NEW o \in owed
               PROVE  /\ o.conn \in Polite /\ o.filter \in firm'[o.conn] /\ o.packet \in Packet
                      /\ Selects(o.filter, o.packet.topic)
                      /\ OnItsWay(o.conn, o.filter, o.packet)'
    BY <1>4 DEF OwedArrives, Polite, Selects
  <2>1. /\ o.conn \in Polite /\ o.filter \in firm[o.conn] /\ o.packet \in Packet
        /\ Selects(o.filter, o.packet.topic) /\ OnItsWay(o.conn, o.filter, o.packet)
    BY <1>0 DEF OwedArrives
  <2>2. o.conn \in Conn /\ o.filter \in Filter
    BY <1>0, <2>1 DEF HistoryType, Polite
  <2>3. OnItsWay(o.conn, o.filter, o.packet)'
    BY <1>1, <1>3, <1>8, <2>1, <2>2, WayFrame
  <2> QED
    BY <1>4, <2>1, <2>2, <2>3
<1>10. BarredStaysAway'
  <2> SUFFICES ASSUME NEW b \in barred
               PROVE  /\ b.conn \in Conn /\ b.packet \in Packet
                      /\ \A f \in possible'[b.conn] : ~ Selects(f, b.packet.topic)
                      /\ KeptAway(b.conn, b.packet)'
    BY <1>4 DEF BarredStaysAway, Selects
  <2>1. /\ b.conn \in Conn /\ b.packet \in Packet /\ KeptAway(b.conn, b.packet)
        /\ \A f \in possible[b.conn] : ~ Selects(f, b.packet.topic)
    BY <1>0 DEF BarredStaysAway
  <2>2. b.packet.topic \in Filter
    BY <2>1, PacketFields, ShardFacts
  <2>3. KeptAway(b.conn, b.packet)'
    BY <1>1, <1>3, <2>1, <2>2, WayFrame
  <2> QED
    BY <1>4, <2>1, <2>3
<1>11. Recorded'
  BY <1>0, <1>1, <1>4, <1>8 DEF Recorded, SamePublish
<1> QED
  BY <1>5, <1>7, <1>9, <1>10, <1>11 DEF DInv

\* A step that changes nothing but the phase of a reader.
LEMMA CloseDInv ==
    ASSUME DInv, OInv', KInv',
           UNCHANGED <<inbox, topics, job, outbound, sending, next, ack, nread, history>>
    PROVE  DInv'
<1> USE DEF history
<1>1. HistoryType' /\ Requests'
  BY DEF DInv, HistoryType, Requests
<1>2. /\ \A d \in Conn : \A q : Delivered(d, q)' <=> Delivered(d, q)
      /\ \A q : (Submitted(q)' <=> Submitted(q)) /\ (HandedOver(q)' <=> HandedOver(q))
  BY DEF Delivered, Pushes, IsLive, IsPublish, PacketAt, Submitted, HandedOver, QueuedAt,
         FanningAt, LiveAt
<1>3. Subscriptions'
  <2> SUFFICES ASSUME NEW c \in Conn, NEW s \in Shard, NEW f \in Filter, Relevant(f, s)
               PROVE  Promised(c, s, f)'
    BY DEF Subscriptions, Relevant
  <2>1. Promised(c, s, f)
    BY DEF DInv, Subscriptions
  <2>2. On(s, End(s), c, f)' <=> On(s, End(s), c, f)
    BY DEF On, Source, End
  <2>3. \A t \in {"Subscribe", "Unsubscribe"} : Due(c, s, f, t)' <=> Due(c, s, f, t)
    BY DEF Due
  <2> QED
    BY <2>1, <2>2, <2>3 DEF Promised
<1>4. OwedArrives'
  <2> SUFFICES ASSUME NEW o \in owed
               PROVE  /\ o.conn \in Polite /\ o.filter \in firm'[o.conn] /\ o.packet \in Packet
                      /\ Selects(o.filter, o.packet.topic)
                      /\ OnItsWay(o.conn, o.filter, o.packet)'
    BY DEF OwedArrives, Polite, Selects
  <2>1. /\ o.conn \in Polite /\ o.filter \in firm[o.conn] /\ o.packet \in Packet
        /\ Selects(o.filter, o.packet.topic) /\ OnItsWay(o.conn, o.filter, o.packet)
    BY DEF DInv, OwedArrives
  <2>2. o.conn \in Conn /\ o.filter \in Filter
    BY <2>1 DEF DInv, HistoryType, Polite
  <2>3. OnItsWay(o.conn, o.filter, o.packet)'
    BY <1>2, <2>1, <2>2, WayFrame
  <2> QED
    BY <2>1, <2>3
<1>5. BarredStaysAway'
  <2> SUFFICES ASSUME NEW b \in barred
               PROVE  /\ b.conn \in Conn /\ b.packet \in Packet
                      /\ \A f \in possible[b.conn] : ~ Selects(f, b.packet.topic)
                      /\ KeptAway(b.conn, b.packet)'
    BY DEF BarredStaysAway, Selects
  <2>1. /\ b.conn \in Conn /\ b.packet \in Packet /\ KeptAway(b.conn, b.packet)
        /\ \A f \in possible[b.conn] : ~ Selects(f, b.packet.topic)
    BY DEF DInv, BarredStaysAway
  <2>2. b.packet.topic \in Filter
    BY <2>1, PacketFields, ShardFacts
  <2>3. KeptAway(b.conn, b.packet)'
    BY <1>2, <2>1, <2>2, WayFrame
  <2> QED
    BY <2>1, <2>3
<1>6. Recorded'
  BY <1>2 DEF DInv, Recorded, SamePublish
<1>7. NotifiedLive'
  <2>1. \A s \in Shard : job[s].op = "fanout" => job[s].notified \in SUBSET Conn
    BY JobFields DEF DInv, KInv, LInv, TypeOK
  <2> QED
    BY <1>2, <2>1 DEF DInv, NotifiedLive
<1> QED
  BY <1>1, <1>3, <1>4, <1>5, <1>6, <1>7 DEF DInv

\* What one send does, as far as the history is concerned: m goes to shard s.
LEMMA SendEffect ==
    ASSUME DInv, NEW c \in Conn, Send(c)
    PROVE  \E m \in Message, s \in Shard :
             /\ UNCHANGED <<topics, job, outbound, ack, nread>>
             /\ inbox[s] \in Seq(Message) /\ inbox'[s] = Append(inbox[s], m)
             /\ \A t \in Shard : t # s => inbox'[t] = inbox[t]
             /\ 1 \in 1..Len(sending[c]) /\ m = sending[c][1] /\ m.id = c
             /\ ~ Broadcast(m) => s = HomeShard(m)
             /\ \A d \in Conn : d # c => sending'[d] = sending[d] /\ next'[d] = next[d]
             /\ \A k \in 1..Len(sending'[c]) : \E l \in 1..Len(sending[c]) :
                  sending'[c][k] = sending[c][l]
             /\ \A t \in Shard, f \in Filter, ty \in {"Subscribe", "Unsubscribe"} :
                  Relevant(f, t) /\ Due(c, t, f, ty) =>
                     \/ Due(c, t, f, ty)'
                     \/ t = s /\ m.type = ty /\ m.topic = f
<1>0. TypeOK /\ Leaving
  BY DEF DInv, KInv, LInv
<1>1. PICK m \in Message, s \in Shard :
             /\ sending[c] # <<>> /\ m = Head(sending[c])
             /\ s = IF Broadcast(m) THEN next[c] ELSE HomeShard(m)
             /\ inbox' = [inbox EXCEPT ![s] = Append(inbox[s], m)]
             /\ IF Broadcast(m) /\ next[c] + 1 < N
                THEN /\ next' = [next EXCEPT ![c] = next[c] + 1]
                     /\ next[c] + 1 \in Shard
                     /\ sending' = sending
                ELSE /\ next' = [next EXCEPT ![c] = 0]
                     /\ sending' = [sending EXCEPT ![c] = Tail(sending[c])]
             /\ UNCHANGED <<shardVars, outbound, phase, ack, nread>>
  BY <1>0, SendStep
<1>2. /\ UNCHANGED <<topics, job, outbound, ack, nread>>
      /\ inbox[s] \in Seq(Message) /\ inbox'[s] = Append(inbox[s], m)
      /\ \A t \in Shard : t # s => inbox'[t] = inbox[t]
      /\ next[c] \in Shard
  BY <1>0, <1>1 DEF TypeOK, shardVars
<1>3. /\ sending[c] \in Seq(Message) /\ Len(sending[c]) \in Nat
      /\ 1 \in 1..Len(sending[c]) /\ m = sending[c][1] /\ m.id = c
      /\ Len(Tail(sending[c])) = Len(sending[c]) - 1
      /\ \A i \in 1..Len(Tail(sending[c])) : Tail(sending[c])[i] = sending[c][i + 1]
  <2>1. sending[c] \in Seq(Message) /\ sending[c] # <<>>
    BY <1>0, <1>1 DEF TypeOK
  <2>2. Len(sending[c]) \in Nat /\ Len(sending[c]) # 0 /\ m = sending[c][1]
    BY <1>1, <2>1
  <2>3. 1 \in 1..Len(sending[c])
    BY <2>2
  <2>4. m.id = c
    BY <1>0, <2>2, <2>3 DEF Leaving
  <2> QED
    BY <2>1, <2>2, <2>3, <2>4, HeadTailProperties
<1>4. /\ \A d \in Conn : d # c => sending'[d] = sending[d] /\ next'[d] = next[d]
      /\ \/ /\ Broadcast(m) /\ next[c] + 1 < N
            /\ sending'[c] = sending[c] /\ next'[c] = next[c] + 1
         \/ /\ ~(Broadcast(m) /\ next[c] + 1 < N)
            /\ sending'[c] = Tail(sending[c]) /\ next'[c] = 0
  BY <1>0, <1>1 DEF TypeOK
<1>5. ASSUME NEW k \in 1..Len(sending'[c])
      PROVE  \E l \in 1..Len(sending[c]) : sending'[c][k] = sending[c][l]
  <2>1. CASE sending'[c] = sending[c]
    BY <1>5, <2>1
  <2>2. CASE sending'[c] = Tail(sending[c])
    <3>1. k + 1 \in 1..Len(sending[c]) /\ sending'[c][k] = sending[c][k + 1]
      BY <1>3, <1>5, <2>2
    <3> QED
      BY <3>1
  <2> QED
    BY <1>4, <2>1, <2>2
<1>6. ASSUME NEW t \in Shard, NEW f \in Filter, NEW ty \in {"Subscribe", "Unsubscribe"},
             Relevant(f, t), Due(c, t, f, ty), ~(t = s /\ m.type = ty /\ m.topic = f)
      PROVE  Due(c, t, f, ty)'
  <2>0. next[c] \in Nat /\ t \in Nat /\ t < N /\ N \in Nat
    BY <1>2, BrokerAssumption DEF Shard
  <2>1. PICK k \in 1..Len(sending[c]) :
               /\ sending[c][k].type = ty /\ sending[c][k].topic = f
               /\ k = 1 /\ IsWildcardFilter(f) => next[c] <= t
    BY <1>6 DEF Due
  <2>2. CASE k = 1
    <3>1. m.type = ty /\ m.topic = f /\ t # s
      BY <1>3, <1>6, <2>1, <2>2
    <3>2. IsWildcardFilter(f)
      <4>1. ~ IsWildcardFilter(f) => ~ Broadcast(m) /\ HomeShard(m) = shard_for_topic(f)
        BY <3>1 DEF Broadcast, HomeShard
      <4> QED
        BY <1>1, <1>6, <3>1, <4>1 DEF Relevant
    <3>3. Broadcast(m)
      BY <3>1, <3>2 DEF Broadcast
    <3>4. s = next[c] /\ next[c] <= t
      BY <1>1, <2>1, <2>2, <3>2, <3>3
    <3>5. next[c] + 1 <= t /\ next[c] + 1 < N
      BY <2>0, <3>1, <3>4
    <3>6. sending'[c] = sending[c] /\ next'[c] <= t
      BY <1>4, <3>3, <3>5
    <3> QED
      BY <2>1, <2>2, <3>6 DEF Due
  <2>3. CASE k # 1 /\ sending'[c] = sending[c]
    BY <2>1, <2>3 DEF Due
  <2>4. CASE k # 1 /\ sending'[c] = Tail(sending[c]) /\ next'[c] = 0
    <3>1. k - 1 \in 1..Len(sending'[c]) /\ (k - 1) + 1 = k
      BY <1>3, <2>4
    <3>2. sending'[c][k - 1] = sending[c][(k - 1) + 1]
      BY <1>3, <2>4, <3>1
    <3>3. sending'[c][k - 1] = sending[c][k] /\ next'[c] <= t
      BY <2>0, <2>4, <3>1, <3>2
    <3> QED
      BY <2>1, <3>1, <3>3 DEF Due
  <2> QED
    BY <1>4, <2>2, <2>3, <2>4
<1>7. ~ Broadcast(m) => s = HomeShard(m)
  BY <1>1
<1>8. \A d \in Conn : d # c => sending'[d] = sending[d] /\ next'[d] = next[d]
  BY <1>4
<1>9. 1 \in 1..Len(sending[c]) /\ m = sending[c][1] /\ m.id = c
  BY <1>3
<1> WITNESS m \in Message, s \in Shard
<1> QED
  BY <1>2, <1>5, <1>6, <1>7, <1>8, <1>9

LEMMA SendDInv ==
    ASSUME DInv, OInv', KInv', NEW c \in Conn, Send(c), UNCHANGED history
    PROVE  DInv'
<1>0. /\ TypeOK /\ HistoryType /\ Requests /\ Subscriptions /\ OwedArrives
      /\ BarredStaysAway /\ Recorded /\ Numbering /\ NotifiedLive
  BY DEF DInv, OInv, KInv, LInv
<1>h. /\ asked' = asked /\ firm' = firm /\ possible' = possible
      /\ owed' = owed /\ barred' = barred
  BY DEF history
<1>1. PICK m \in Message, s \in Shard :
             /\ UNCHANGED <<topics, job, outbound, ack, nread>>
             /\ inbox[s] \in Seq(Message) /\ inbox'[s] = Append(inbox[s], m)
             /\ \A t \in Shard : t # s => inbox'[t] = inbox[t]
             /\ 1 \in 1..Len(sending[c]) /\ m = sending[c][1] /\ m.id = c
             /\ ~ Broadcast(m) => s = HomeShard(m)
             /\ \A d \in Conn : d # c => sending'[d] = sending[d] /\ next'[d] = next[d]
             /\ \A k \in 1..Len(sending'[c]) : \E l \in 1..Len(sending[c]) :
                  sending'[c][k] = sending[c][l]
             /\ \A t \in Shard, f \in Filter, ty \in {"Subscribe", "Unsubscribe"} :
                  Relevant(f, t) /\ Due(c, t, f, ty) =>
                     \/ Due(c, t, f, ty)'
                     \/ t = s /\ m.type = ty /\ m.topic = f
  BY SendEffect
<1>2. /\ Len(inbox[s]) \in Nat
      /\ Len(inbox'[s]) = Len(inbox[s]) + 1
      /\ \A i \in 1..Len(inbox[s]) : inbox'[s][i] = inbox[s][i]
      /\ inbox'[s][Len(inbox[s]) + 1] = m
  BY <1>1, AppendProperties
<1>3. HistoryType' /\ Requests'
  <2>1. HistoryType'
    BY <1>0, <1>h DEF HistoryType
  <2>2. ASSUME NEW d \in Conn, NEW k \in 1..Len(sending'[d])
        PROVE  /\ sending'[d][k].type = "Subscribe" => sending'[d][k].topic \in possible[d]
               /\ sending'[d][k].type = "Unsubscribe" => sending'[d][k].topic \notin firm[d]
               /\ sending'[d][k].type = "Disconnect" => firm[d] = {}
               /\ ack[d].type = "SUBACK" => sending'[d][k].type = "Subscribe"
               /\ ack[d].type = "UNSUBACK" => sending'[d][k].type = "Unsubscribe"
    <3>1. PICK l \in 1..Len(sending[d]) : sending'[d][k] = sending[d][l]
      <4>1. CASE d = c
        BY <1>1, <2>2, <4>1
      <4>2. CASE d # c
        BY <1>1, <2>2, <4>2
      <4> QED
        BY <4>1, <4>2
    <3> QED
      BY <1>0, <3>1 DEF Requests
  <2> QED
    BY <1>1, <1>h, <2>1, <2>2 DEF Requests
\* the channels
<1>4. \A t \in Shard, i \in Nat, p \in Packet :
        /\ QueuedAt(t, i, p) => QueuedAt(t, i, p)' /\ i \in 1..Len(inbox[t])
        /\ QueuedAt(t, i, p)' =>
              \/ QueuedAt(t, i, p)
              \/ t = s /\ i = Len(inbox[s]) + 1 /\ m.type = "Publish" /\ m.packet = p
  <2> SUFFICES ASSUME NEW t \in Shard, NEW i \in Nat, NEW p \in Packet
               PROVE  /\ QueuedAt(t, i, p) => QueuedAt(t, i, p)' /\ i \in 1..Len(inbox[t])
                      /\ QueuedAt(t, i, p)' =>
                            \/ QueuedAt(t, i, p)
                            \/ /\ t = s /\ i = Len(inbox[s]) + 1
                               /\ m.type = "Publish" /\ m.packet = p
    OBVIOUS
  <2>1. CASE t # s
    BY <1>1, <2>1 DEF QueuedAt
  <2>2. CASE t = s /\ i \in 1..Len(inbox[s])
    <3>1. i \in 1..Len(inbox'[s])
      BY <1>2, <2>2
    <3> QED
      BY <1>2, <2>2, <3>1 DEF QueuedAt
  <2>3. CASE t = s /\ i \notin 1..Len(inbox[s])
    <3>1. i \in 1..Len(inbox'[s]) => i = Len(inbox[s]) + 1
      BY <1>2, <2>3
    <3> QED
      BY <1>2, <2>3, <3>1 DEF QueuedAt
  <2> QED
    BY <2>1, <2>2, <2>3
<1>5. ASSUME NEW d \in Conn, NEW f \in Filter
      PROVE  /\ \A t \in Shard, i \in Nat :
                  t # s \/ i \in 1..(Len(inbox[s]) + 1) => (On(t, i, d, f)' <=> On(t, i, d, f))
             /\ On(s, End(s), d, f)' <=>
                   Asks(m, d, f) \/ (On(s, End(s), d, f) /\ ~ Cancels(m, d, f))
             /\ \A t \in Shard : t # s => (On(t, End(t), d, f)' <=> On(t, End(t), d, f))
  <2>1. ASSUME NEW t \in Shard, t # s
        PROVE  /\ \A i \in Nat : On(t, i, d, f)' <=> On(t, i, d, f)
               /\ On(t, End(t), d, f)' <=> On(t, End(t), d, f)
    <3>1. inbox'[t] = inbox[t] /\ topics'[t] = topics[t]
      BY <1>1, <2>1
    <3>2. On(t, End(t), d, f)' <=> On(t, End(t), d, f)
      BY <3>1 DEF On, Source, End
    <3> QED
      BY <3>1, <3>2, OnFrame
  <2>2. topics'[s] = topics[s]
    BY <1>1
  <2>3. /\ \A i \in 1..(Len(inbox[s]) + 1) : On(s, i, d, f)' <=> On(s, i, d, f)
        /\ \A i, j \in Nat : i = Len(inbox[s]) + 1 /\ j = i + 1 =>
             (On(s, j, d, f)' <=>
                Asks(m, d, f) \/ (On(s, i, d, f) /\ ~ Cancels(m, d, f)))
    BY <1>1, <2>2, OnAppend
  <2>4. PICK i \in Nat, j \in Nat : i = Len(inbox[s]) + 1 /\ j = i + 1
    BY <1>2
  <2>5. On(s, j, d, f)' <=> Asks(m, d, f) \/ (On(s, i, d, f) /\ ~ Cancels(m, d, f))
    BY <2>3, <2>4
  <2>6. On(s, End(s), d, f) <=> On(s, i, d, f)
    BY <2>4 DEF End
  <2>7. On(s, End(s), d, f)' <=> On(s, j, d, f)'
    <3>1. End(s)' = j
      BY <1>2, <2>4 DEF End
    <3> QED
      BY <3>1 DEF On, Source
  <2> QED
    BY <2>1, <2>3, <2>5, <2>6, <2>7
<1>6. ASSUME NEW d \in Conn, NEW t \in Shard, NEW f \in Filter, Relevant(f, t)
      PROVE  Promised(d, t, f)'
  <2>0. /\ Promised(d, t, f)
        /\ On(s, End(s), d, f)' <=>
              Asks(m, d, f) \/ (On(s, End(s), d, f) /\ ~ Cancels(m, d, f))
        /\ t # s => (On(t, End(t), d, f)' <=> On(t, End(t), d, f))
    BY <1>0, <1>5, <1>6 DEF Subscriptions
  <2>1. CASE d # c
    <3>1. ~ Asks(m, d, f) /\ ~ Cancels(m, d, f)
      BY <1>1, <2>1 DEF Asks, Cancels
    <3>2. On(t, End(t), d, f)' <=> On(t, End(t), d, f)
      BY <2>0, <3>1
    <3>3. \A ty \in {"Subscribe", "Unsubscribe"} : Due(d, t, f, ty)' <=> Due(d, t, f, ty)
      BY <1>1, <2>1 DEF Due
    <3> QED
      BY <1>1, <1>h, <2>0, <3>2, <3>3 DEF Promised
  <2>2. CASE d = c /\ t # s
    <3>1. \A ty \in {"Subscribe", "Unsubscribe"} : Due(c, t, f, ty) => Due(c, t, f, ty)'
      BY <1>1, <1>6, <2>2
    <3>2. On(t, End(t), c, f)' <=> On(t, End(t), c, f)
      BY <2>0, <2>2
    <3> QED
      BY <1>1, <1>h, <2>0, <2>2, <3>1, <3>2 DEF Promised
  <2>3. CASE d = c /\ t = s
    <3>1. \A ty \in {"Subscribe", "Unsubscribe"} : Due(c, s, f, ty) =>
             Due(c, s, f, ty)' \/ (m.type = ty /\ m.topic = f)
      BY <1>1, <1>6, <2>3
    <3>2. /\ m.type = "Subscribe" => m.topic \in possible[c]
          /\ m.type = "Unsubscribe" => m.topic \notin firm[c]
          /\ m.type = "Disconnect" => firm[c] = {}
          /\ ack[c].type = "SUBACK" => m.type = "Subscribe"
          /\ ack[c].type = "UNSUBACK" => m.type = "Unsubscribe"
      BY <1>0, <1>1 DEF Requests
    <3>3. /\ f \in firm[c] => ~ Cancels(m, c, f)
          /\ f \notin possible[c] => ~ Asks(m, c, f)
          /\ ack[c].type = "SUBACK" => ~ Cancels(m, c, f)
          /\ ack[c].type = "UNSUBACK" => ~ Asks(m, c, f)
          /\ m.type = "Subscribe" /\ m.topic = f => Asks(m, c, f)
          /\ m.type = "Unsubscribe" /\ m.topic = f => Cancels(m, c, f)
      BY <1>1, <3>2 DEF Asks, Cancels
    <3>4. /\ Promised(c, s, f)
          /\ On(s, End(s), c, f)' <=>
                Asks(m, c, f) \/ (On(s, End(s), c, f) /\ ~ Cancels(m, c, f))
      BY <2>0, <2>3
    <3>5. Promised(c, s, f)'
      <4>1. /\ f \in firm'[c] => On(s, End(s), c, f)'
            /\ f \notin possible'[c] => ~ On(s, End(s), c, f)'
        BY <1>h, <3>3, <3>4 DEF Promised
      <4>2. ack'[c].type = "SUBACK" /\ f \in asked'[c] =>
               On(s, End(s), c, f)' \/ Due(c, s, f, "Subscribe")'
        BY <1>1, <1>h, <3>1, <3>3, <3>4 DEF Promised
      <4>3. ack'[c].type = "UNSUBACK" /\ f \in asked'[c] =>
               ~ On(s, End(s), c, f)' \/ Due(c, s, f, "Unsubscribe")'
        BY <1>1, <1>h, <3>1, <3>3, <3>4 DEF Promised
      <4> QED
        BY <4>1, <4>2, <4>3 DEF Promised
    <3> QED
      BY <2>3, <3>5
  <2> QED
    BY <2>1, <2>2, <2>3
<1>7. Subscriptions'
  BY <1>6 DEF Subscriptions, Relevant
<1>8. /\ \A d \in Conn : \A q : Delivered(d, q)' <=> Delivered(d, q)
      /\ \A t \in Shard, q \in Packet : FanningAt(t, q)' <=> FanningAt(t, q)
      /\ \A d \in Conn, k \in Nat, q \in Packet : LiveAt(d, k, q)' <=> LiveAt(d, k, q)
  BY <1>1 DEF Delivered, Pushes, IsLive, IsPublish, PacketAt, FanningAt, LiveAt
\* what m says about the packet it carries
<1>9. ASSUME NEW p \in Packet, m.type = "Publish", m.packet = p
      PROVE  /\ s = shard_for_topic(p.topic) /\ p.from = c /\ Submitted(p)
             /\ \A f \in Filter : Selects(f, p.topic) => Relevant(f, s)
  <2>1. s = shard_for_topic(p.topic)
    BY <1>1, <1>9 DEF Broadcast, HomeShard
  <2>2. p.from = c
    BY <1>0, <1>1, <1>9 DEF Numbering
  <2>3. Submitted(p)
    BY <1>1, <1>9, <2>2 DEF Submitted
  <2> QED
    BY <2>1, <2>2, <2>3 DEF Selects, Relevant
<1>10. ASSUME NEW p \in Packet, Submitted(p)
       PROVE  Submitted(p)' \/ \E i \in Nat : QueuedAt(s, i, p)'
  <2>0. p.from \in Conn
    BY PacketFields
  <2>1. CASE p.from # c
    BY <1>1, <1>10, <2>0, <2>1 DEF Submitted
  <2>2. CASE p.from = c
    <3>1. PICK k \in 1..Len(sending[c]) :
                 sending[c][k].type = "Publish" /\ sending[c][k].packet = p
      BY <1>10, <2>2 DEF Submitted
    <3>2. k = 1
      BY <1>0, <3>1 DEF Numbering
    <3>3. inbox'[s][Len(inbox[s]) + 1].type = "Publish" /\ inbox'[s][Len(inbox[s]) + 1].packet = p
      BY <1>1, <1>2, <3>1, <3>2
    <3>4. PICK i \in Nat : i = Len(inbox[s]) + 1
      BY <1>2
    <3>5. QueuedAt(s, i, p)'
      BY <1>2, <3>3, <3>4 DEF QueuedAt
    <3> QED
      BY <3>5
  <2> QED
    BY <2>1, <2>2
\* the history
<1>11. ASSUME NEW d \in Conn, NEW f \in Filter, NEW p \in Packet, f \in firm[d],
              Selects(f, p.topic), OnItsWay(d, f, p)
       PROVE  OnItsWay(d, f, p)'
  <2>1. InFlight(p)' \/ Delivered(d, p)'
    <3>1. InFlight(p)' <=> \/ Submitted(p)'
                           \/ \E t \in Shard, i \in Nat : QueuedAt(t, i, p)'
                           \/ \E t \in Shard : FanningAt(t, p)'
      <4>1. \A t \in Shard : \A i \in 1..Len(inbox'[t]) : i \in Nat
        OBVIOUS
      <4> QED
        BY <4>1 DEF InFlight, Submitted, QueuedAt, FanningAt
    <3>2. CASE Delivered(d, p)
      BY <1>8, <3>2
    <3>3. CASE InFlight(p)
      <4>1. CASE Submitted(p)
        BY <1>10, <3>1, <4>1
      <4>2. CASE \E t \in Shard, i \in Nat : QueuedAt(t, i, p)
        BY <1>4, <3>1, <4>2
      <4>3. CASE \E t \in Shard : FanningAt(t, p)
        BY <1>8, <3>1, <4>3
      <4> QED
        BY <3>3, <4>1, <4>2, <4>3, InFlightCases
    <3> QED
      BY <1>11, <3>2, <3>3 DEF OnItsWay
  <2>2. ASSUME NEW t \in Shard, NEW i \in Nat, QueuedAt(t, i, p)' PROVE On(t, i, d, f)'
    <3>1. CASE QueuedAt(t, i, p)
      <4>1. On(t, i, d, f) /\ i \in 1..Len(inbox[t])
        BY <1>4, <1>11, <3>1 DEF OnItsWay
      <4>2. t # s \/ i \in 1..(Len(inbox[s]) + 1)
        BY <1>2, <4>1
      <4> QED
        BY <1>5, <4>1, <4>2
    <3>2. CASE ~ QueuedAt(t, i, p)
      <4>1. t = s /\ i = Len(inbox[s]) + 1 /\ m.type = "Publish" /\ m.packet = p
        BY <1>4, <2>2, <3>2
      <4>2. Promised(d, s, f)
        BY <1>0, <1>9, <1>11, <4>1 DEF Subscriptions
      <4>3. On(s, i, d, f)
        BY <1>11, <4>1, <4>2 DEF Promised, End
      <4>4. i \in 1..(Len(inbox[s]) + 1)
        BY <1>2, <4>1
      <4> QED
        BY <1>5, <4>1, <4>3, <4>4
    <3> QED
      BY <3>1, <3>2
  <2>3. ASSUME NEW t \in Shard, FanningAt(t, p)'
        PROVE  Delivered(d, p)' \/ (topics'[t][f][d] > 0 /\ Pending(t, d, f, p)')
    <3>1. FanningAt(t, p)
      BY <1>8, <2>3
    <3>2. Pending(t, d, f, p)' <=> Pending(t, d, f, p)
      BY <1>1 DEF Pending
    <3> QED
      BY <1>1, <1>8, <1>11, <3>1, <3>2 DEF OnItsWay
  <2> QED
    BY <2>1, <2>2, <2>3 DEF OnItsWay
<1>12. ASSUME NEW d \in Conn, NEW p \in Packet, KeptAway(d, p),
              \A f \in possible[d] : ~ Selects(f, p.topic)
       PROVE  KeptAway(d, p)'
  <2>1. ASSUME NEW t \in Shard, NEW i \in Nat, NEW f \in Filter, QueuedAt(t, i, p)',
               Selects(f, p.topic)
        PROVE  ~ On(t, i, d, f)'
    <3>1. CASE QueuedAt(t, i, p)
      <4>1. ~ On(t, i, d, f) /\ i \in 1..Len(inbox[t])
        BY <1>4, <1>12, <2>1, <3>1 DEF KeptAway
      <4>2. t # s \/ i \in 1..(Len(inbox[s]) + 1)
        BY <1>2, <4>1
      <4> QED
        BY <1>5, <4>1, <4>2
    <3>2. CASE ~ QueuedAt(t, i, p)
      <4>1. t = s /\ i = Len(inbox[s]) + 1 /\ m.type = "Publish" /\ m.packet = p
        BY <1>4, <2>1, <3>2
      <4>2. Promised(d, s, f) /\ f \notin possible[d]
        BY <1>0, <1>9, <1>12, <2>1, <4>1 DEF Subscriptions
      <4>3. ~ On(s, i, d, f)
        BY <4>1, <4>2 DEF Promised, End
      <4>4. i \in 1..(Len(inbox[s]) + 1)
        BY <1>2, <4>1
      <4> QED
        BY <1>5, <4>1, <4>3, <4>4
    <3> QED
      BY <3>1, <3>2
  <2> QED
    BY <1>1, <1>8, <1>12, <2>1 DEF KeptAway, Selects
<1>13. OwedArrives'
  <2> SUFFICES ASSUME NEW o \in owed
               PROVE  /\ o.conn \in Polite /\ o.filter \in firm[o.conn] /\ o.packet \in Packet
                      /\ Selects(o.filter, o.packet.topic)
                      /\ OnItsWay(o.conn, o.filter, o.packet)'
    BY <1>h DEF OwedArrives, Polite, Selects
  <2>1. /\ o.conn \in Polite /\ o.filter \in firm[o.conn] /\ o.packet \in Packet
        /\ Selects(o.filter, o.packet.topic) /\ OnItsWay(o.conn, o.filter, o.packet)
    BY <1>0 DEF OwedArrives
  <2>2. o.conn \in Conn /\ o.filter \in Filter
    BY <1>0, <2>1 DEF HistoryType, Polite
  <2> QED
    BY <1>11, <2>1, <2>2
<1>14. BarredStaysAway'
  <2> SUFFICES ASSUME NEW b \in barred
               PROVE  /\ b.conn \in Conn /\ b.packet \in Packet
                      /\ \A f \in possible[b.conn] : ~ Selects(f, b.packet.topic)
                      /\ KeptAway(b.conn, b.packet)'
    BY <1>h DEF BarredStaysAway, Selects
  <2>1. /\ b.conn \in Conn /\ b.packet \in Packet /\ KeptAway(b.conn, b.packet)
        /\ \A f \in possible[b.conn] : ~ Selects(f, b.packet.topic)
    BY <1>0 DEF BarredStaysAway
  <2> QED
    BY <1>12, <2>1
<1>15. Recorded'
  <2>1. ASSUME NEW q \in Packet, HandedOver(q)' \/ Submitted(q)'
        PROVE  HandedOver(q) \/ Submitted(q)
    <3>1. CASE \E t \in Shard, i \in Nat : QueuedAt(t, i, q)'
      BY <1>4, <1>9, <3>1 DEF HandedOver
    <3>2. CASE (\E t \in Shard : FanningAt(t, q)') \/ \E d \in Conn, k \in Nat : LiveAt(d, k, q)'
      BY <1>8, <3>2 DEF HandedOver
    <3>3. CASE Submitted(q)'
      <4>0. q.from \in Conn
        BY PacketFields
      <4>1. CASE q.from = c
        <5>1. PICK k \in 1..Len(sending'[c]) :
                     sending'[c][k].type = "Publish" /\ sending'[c][k].packet = q
          BY <3>3, <4>1 DEF Submitted
        <5>2. PICK l \in 1..Len(sending[c]) : sending'[c][k] = sending[c][l]
          BY <1>1, <5>1
        <5> QED
          BY <4>1, <5>1, <5>2 DEF Submitted
      <4>2. CASE q.from # c
        BY <1>1, <3>3, <4>0, <4>2 DEF Submitted
      <4> QED
        BY <4>1, <4>2
    <3> QED
      BY <2>1, <3>1, <3>2, <3>3 DEF HandedOver
  <2> QED
    BY <1>0, <1>1, <1>h, <2>1 DEF Recorded, SamePublish
<1>16. NotifiedLive'
  <2>1. \A t \in Shard : job[t].op = "fanout" => job[t].notified \in SUBSET Conn
    BY <1>0, JobFields DEF TypeOK
  <2> QED
    BY <1>0, <1>1, <1>8, <2>1 DEF NotifiedLive
<1> QED
  BY <1>3, <1>7, <1>13, <1>14, <1>15, <1>16 DEF DInv

-----------------------------------------------------------------------------
(* The steps of the shards *)

LEMMA HandleDInv ==
    ASSUME DInv, OInv', KInv', NEW s \in Shard, NEW m, Handle(s, m), UNCHANGED history
    PROVE  DInv'
<1>0. /\ TypeOK /\ HistoryType /\ Requests /\ Subscriptions /\ OwedArrives
      /\ BarredStaysAway /\ Recorded /\ NotifiedLive
  BY DEF DInv, OInv, KInv, LInv
<1>h. /\ asked' = asked /\ firm' = firm /\ possible' = possible
      /\ owed' = owed /\ barred' = barred
  BY DEF history
<1>1. /\ UNCHANGED <<sending, next, nread, outbound, ack>>
      /\ m \in Message /\ Len(inbox[s]) \in Nat /\ Len(inbox[s]) >= 1
      /\ m = inbox[s][1]
      /\ Len(inbox'[s]) = Len(inbox[s]) - 1
      /\ \A i \in 1..Len(inbox'[s]) : inbox'[s][i] = inbox[s][i + 1]
      /\ \A t \in Shard : t # s => inbox'[t] = inbox[t] /\ topics'[t] = topics[t]
  BY <1>0, HandleRegistry, HandleOrderEffect
<1>2. /\ job[s] = Idle
      /\ \A t \in Shard : t # s => job'[t] = job[t]
      /\ \A p \in Packet : ~ FanningAt(s, p)
      /\ job'[s].op = "fanout" => QueuedAt(s, 1, job'[s].packet) /\ job'[s].notified = {}
      /\ \A t \in Shard, i \in Nat, p \in Packet :
           t # s /\ QueuedAt(t, i, p)' => QueuedAt(t, i, p)
      /\ \A i \in Nat, p \in Packet :
           QueuedAt(s, i, p)' => QueuedAt(s, i + 1, p)
  BY <1>0, HandleOrderEffect, HandleEffect DEF Receive
<1>3. HistoryType' /\ Requests'
  BY <1>0, <1>1, <1>h DEF HistoryType, Requests
<1>4. ASSUME NEW d \in Conn, NEW f \in Filter
      PROVE  /\ \A t \in Shard : t # s => /\ \A i \in Nat : On(t, i, d, f)' <=> On(t, i, d, f)
                                          /\ On(t, End(t), d, f)' <=> On(t, End(t), d, f)
             /\ \A i, j \in Nat : i # 0 /\ i <= Len(inbox[s]) /\ j = i + 1 =>
                  (On(s, i, d, f)' <=> On(s, j, d, f))
             /\ On(s, End(s), d, f)' <=> On(s, End(s), d, f)
  <2>1. ASSUME NEW t \in Shard, t # s
        PROVE  /\ \A i \in Nat : On(t, i, d, f)' <=> On(t, i, d, f)
               /\ On(t, End(t), d, f)' <=> On(t, End(t), d, f)
    <3>1. inbox'[t] = inbox[t] /\ topics'[t] = topics[t]
      BY <1>1, <2>1
    <3>2. On(t, End(t), d, f)' <=> On(t, End(t), d, f)
      BY <3>1 DEF On, Source, End
    <3> QED
      BY <3>1, <3>2, OnFrame
  <2>2. \A i, j \in Nat : i # 0 /\ i <= Len(inbox[s]) /\ j = i + 1 =>
           (On(s, i, d, f)' <=> On(s, j, d, f))
    BY <1>0, OnHandle
  <2>3. PICK i \in Nat, j \in Nat : i = Len(inbox[s]) /\ j = i + 1 /\ i # 0
    BY <1>1
  <2>4. On(s, i, d, f)' <=> On(s, j, d, f)
    <3>1. i <= Len(inbox[s])
      BY <2>3
    <3> QED
      BY <2>2, <2>3, <3>1
  <2>5. On(s, End(s), d, f) <=> On(s, j, d, f)
    BY <2>3 DEF End
  <2>6. On(s, End(s), d, f)' <=> On(s, i, d, f)'
    <3>1. End(s)' = i
      BY <1>1, <2>3 DEF End
    <3> QED
      BY <3>1 DEF On, Source
  <2> QED
    BY <2>1, <2>2, <2>4, <2>5, <2>6
<1>5. Subscriptions'
  <2> SUFFICES ASSUME NEW d \in Conn, NEW t \in Shard, NEW f \in Filter, Relevant(f, t)
               PROVE  Promised(d, t, f)'
    BY DEF Subscriptions, Relevant
  <2>1. Promised(d, t, f)
    BY <1>0 DEF Subscriptions
  <2>2. On(t, End(t), d, f)' <=> On(t, End(t), d, f)
    <3>1. CASE t = s
      BY <1>4, <3>1
    <3>2. CASE t # s
      BY <1>4, <3>2
    <3> QED
      BY <3>1, <3>2
  <2>3. \A ty \in {"Subscribe", "Unsubscribe"} : Due(d, t, f, ty)' <=> Due(d, t, f, ty)
    BY <1>1 DEF Due
  <2> QED
    BY <1>1, <1>h, <2>1, <2>2, <2>3 DEF Promised
<1>6. /\ \A d \in Conn : \A q : Delivered(d, q)' <=> Delivered(d, q)
      /\ \A d \in Conn, k \in Nat, q \in Packet : LiveAt(d, k, q)' <=> LiveAt(d, k, q)
      /\ \A t \in Shard, q \in Packet : t # s => (FanningAt(t, q)' <=> FanningAt(t, q))
      /\ \A q : Submitted(q)' <=> Submitted(q)
  BY <1>1, <1>2 DEF Delivered, Pushes, IsLive, IsPublish, PacketAt, LiveAt, FanningAt, Submitted
\* the publish at the head of the channel
<1>7. ASSUME NEW p \in Packet, QueuedAt(s, 1, p)
      PROVE  /\ topics' = topics /\ p.topic \in Filter
             /\ topics[s][p.topic] \in [Conn -> {0, 1}]
             /\ job'[s] = FanOut(p, TRUE, topics[s][p.topic], WildcardFilters(s, p.topic), {})
  <2>1. m.type = "Publish" /\ m.packet = p
    BY <1>1, <1>7 DEF QueuedAt
  <2>2. HandlePublish(s, m)
    BY <2>1 DEF Handle, HandleRegister, HandleSubscribe, HandleUnsubscribe, HandleDisconnect
  <2>3. p.topic \in Filter
    BY PacketFields, ShardFacts
  <2>4. job \in [Shard -> Job] /\ topics \in [Shard -> [Filter -> [Conn -> {0, 1}]]]
    BY <1>0 DEF TypeOK
  <2>5. /\ job' = [job EXCEPT ![s] = FanOut(p, TRUE, topics[s][p.topic],
                                            WildcardFilters(s, p.topic), {})]
        /\ topics' = topics
    BY <2>1, <2>2 DEF HandlePublish
  <2> QED
    BY <2>3, <2>4, <2>5
<1>8. ASSUME NEW d \in Conn, NEW f \in Filter, NEW p \in Packet, QueuedAt(s, 1, p),
             Selects(f, p.topic), OnItsWay(d, f, p)
      PROVE  topics'[s][f][d] > 0 /\ Pending(s, d, f, p)' /\ FanningAt(s, p)'
  <2>1. topics[s][f][d] > 0
    BY <1>8, OnFirst DEF OnItsWay
  <2>2. topics[s][p.topic][d] > 0 \/ f \in WildcardFilters(s, p.topic)
    <3>1. topics[s][f] # NoSubs
      BY <2>1 DEF NoSubs
    <3> QED
      BY <1>8, <2>1, <3>1 DEF Selects, WildcardFilters
  <2>3. Pending(s, d, f, p)'
    BY <1>7, <1>8, <2>2, FanOutPending
  <2>4. FanningAt(s, p)'
    <3>1. ~(topics[s][p.topic] = NoSubs /\ WildcardFilters(s, p.topic) = {})
      BY <2>2 DEF NoSubs
    <3>2. job'[s] = FanOut(p, TRUE, topics[s][p.topic], WildcardFilters(s, p.topic), {})
      BY <1>7, <1>8
    <3> QED
      BY <3>1, <3>2 DEF FanOut, FanningAt
  <2> QED
    BY <1>7, <1>8, <2>1, <2>3, <2>4
<1>9. \A i \in Nat, p \in Packet : QueuedAt(s, i, p) =>
         i = 1 \/ \E k \in Nat : QueuedAt(s, k, p)'
  <2> SUFFICES ASSUME NEW i \in Nat, NEW p \in Packet, QueuedAt(s, i, p), i # 1
               PROVE  \E k \in Nat : QueuedAt(s, k, p)'
    OBVIOUS
  <2>1. PICK k \in Nat : i = k + 1 /\ k \in 1..Len(inbox'[s])
    <3>1. i - 1 \in Nat /\ i = (i - 1) + 1 /\ i - 1 \in 1..Len(inbox'[s])
      BY <1>1 DEF QueuedAt
    <3> QED
      BY <3>1
  <2>2. inbox'[s][k] = inbox[s][i]
    BY <1>1, <2>1
  <2> QED
    BY <2>1, <2>2 DEF QueuedAt
<1>10. ASSUME NEW d \in Conn, NEW f \in Filter, NEW p \in Packet, Selects(f, p.topic),
              OnItsWay(d, f, p)
       PROVE  OnItsWay(d, f, p)'
  <2>1. InFlight(p)' \/ Delivered(d, p)'
    <3>1. InFlight(p)' <=> \/ Submitted(p)'
                           \/ \E t \in Shard, i \in Nat : QueuedAt(t, i, p)'
                           \/ \E t \in Shard : FanningAt(t, p)'
      <4>1. \A t \in Shard : \A i \in 1..Len(inbox'[t]) : i \in Nat
        OBVIOUS
      <4> QED
        BY <4>1 DEF InFlight, Submitted, QueuedAt, FanningAt
    <3>2. CASE Delivered(d, p) \/ Submitted(p) \/ \E t \in Shard : FanningAt(t, p)
      BY <1>2, <1>6, <3>1, <3>2
    <3>3. ASSUME NEW t \in Shard, NEW i \in Nat, QueuedAt(t, i, p) PROVE InFlight(p)'
      <4>1. CASE t # s
        <5>1. QueuedAt(t, i, p)'
          BY <1>1, <3>3, <4>1 DEF QueuedAt
        <5> QED
          BY <3>1, <5>1
      <4>2. CASE t = s /\ i = 1
        BY <1>8, <1>10, <3>1, <3>3, <4>2
      <4>3. CASE t = s /\ i # 1
        BY <1>9, <3>1, <3>3, <4>3
      <4> QED
        BY <4>1, <4>2, <4>3
    <3> QED
      BY <1>10, <3>2, <3>3, InFlightCases DEF OnItsWay
  <2>2. ASSUME NEW t \in Shard, NEW i \in Nat, QueuedAt(t, i, p)' PROVE On(t, i, d, f)'
    <3>1. CASE t # s
      BY <1>2, <1>4, <1>10, <2>2, <3>1 DEF OnItsWay
    <3>2. CASE t = s
      <4>1. QueuedAt(s, i + 1, p) /\ i + 1 \in Nat
        BY <1>2, <2>2, <3>2
      <4>2. On(s, i + 1, d, f)
        BY <1>10, <4>1 DEF OnItsWay
      <4>3. i # 0 /\ i <= Len(inbox[s])
        BY <1>1, <2>2, <3>2 DEF QueuedAt
      <4> QED
        BY <1>4, <3>2, <4>1, <4>2, <4>3
    <3> QED
      BY <3>1, <3>2
  <2>3. ASSUME NEW t \in Shard, FanningAt(t, p)'
        PROVE  Delivered(d, p)' \/ (topics'[t][f][d] > 0 /\ Pending(t, d, f, p)')
    <3>1. CASE t # s
      <4>1. FanningAt(t, p)
        BY <1>6, <2>3, <3>1
      <4>2. Pending(t, d, f, p)' <=> Pending(t, d, f, p)
        BY <1>2, <3>1 DEF Pending
      <4> QED
        BY <1>1, <1>6, <1>10, <3>1, <4>1, <4>2 DEF OnItsWay
    <3>2. CASE t = s
      <4>1. QueuedAt(s, 1, p)
        BY <1>2, <2>3, <3>2 DEF FanningAt
      <4> QED
        BY <1>8, <1>10, <3>2, <4>1
    <3> QED
      BY <3>1, <3>2
  <2> QED
    BY <2>1, <2>2, <2>3 DEF OnItsWay
<1>11. ASSUME NEW d \in Conn, NEW p \in Packet, KeptAway(d, p)
       PROVE  KeptAway(d, p)'
  <2>1. ASSUME NEW t \in Shard, NEW i \in Nat, NEW f \in Filter, QueuedAt(t, i, p)',
               Selects(f, p.topic)
        PROVE  ~ On(t, i, d, f)'
    <3>1. CASE t # s
      BY <1>2, <1>4, <1>11, <2>1, <3>1 DEF KeptAway
    <3>2. CASE t = s
      <4>1. QueuedAt(s, i + 1, p) /\ i + 1 \in Nat
        BY <1>2, <2>1, <3>2
      <4>2. ~ On(s, i + 1, d, f)
        BY <1>11, <2>1, <4>1 DEF KeptAway
      <4>3. i # 0 /\ i <= Len(inbox[s])
        BY <1>1, <2>1, <3>2 DEF QueuedAt
      <4> QED
        BY <1>4, <3>2, <4>1, <4>2, <4>3
    <3> QED
      BY <3>1, <3>2
  <2>2. ASSUME NEW t \in Shard, FanningAt(t, p)'
        PROVE  job'[t].todo[d] = 0 /\ \A f \in job'[t].wild : topics'[t][f][d] = 0
    <3>1. CASE t # s
      BY <1>1, <1>2, <1>6, <1>11, <2>2, <3>1 DEF KeptAway
    <3>2. CASE t = s
      <4>1. QueuedAt(s, 1, p)
        BY <1>2, <2>2, <3>2 DEF FanningAt
      <4>2. \A f \in Filter : Selects(f, p.topic) => topics[s][f][d] = 0
        <5>1. \A f \in Filter : topics[s][f][d] \in {0, 1}
          BY <1>0 DEF TypeOK
        <5>2. \A f \in Filter : Selects(f, p.topic) => ~ On(s, 1, d, f)
          BY <1>11, <4>1 DEF KeptAway
        <5> QED
          BY <5>1, <5>2, OnFirst
      <4>3. /\ job'[s].todo = topics[s][p.topic] /\ job'[s].wild = WildcardFilters(s, p.topic)
            /\ topics' = topics /\ p.topic \in Filter
        <5>1. job'[s].op = "fanout"
          BY <2>2, <3>2 DEF FanningAt
        <5>2. job'[s] = FanOut(p, TRUE, topics[s][p.topic], WildcardFilters(s, p.topic), {})
          BY <1>7, <4>1
        <5>3. /\ job'[s].todo = topics[s][p.topic]
              /\ job'[s].wild = WildcardFilters(s, p.topic)
          BY <5>1, <5>2 DEF FanOut, Idle
        <5> QED
          BY <1>7, <4>1, <5>3
      <4>4. ~ IsWildcardFilter(p.topic)
        BY PacketFields, BrokerAssumption
      <4>5. Selects(p.topic, p.topic)
        BY <4>4 DEF Selects
      <4>6. \A f \in WildcardFilters(s, p.topic) : f \in Filter /\ Selects(f, p.topic)
        BY DEF WildcardFilters, Selects
      <4> QED
        BY <3>2, <4>2, <4>3, <4>5, <4>6
    <3> QED
      BY <3>1, <3>2
  <2> QED
    BY <1>6, <1>11, <2>1, <2>2 DEF KeptAway, Selects
<1>12. OwedArrives'
  <2> SUFFICES ASSUME NEW o \in owed
               PROVE  /\ o.conn \in Polite /\ o.filter \in firm[o.conn] /\ o.packet \in Packet
                      /\ Selects(o.filter, o.packet.topic)
                      /\ OnItsWay(o.conn, o.filter, o.packet)'
    BY <1>h DEF OwedArrives, Polite, Selects
  <2>1. /\ o.conn \in Polite /\ o.filter \in firm[o.conn] /\ o.packet \in Packet
        /\ Selects(o.filter, o.packet.topic) /\ OnItsWay(o.conn, o.filter, o.packet)
    BY <1>0 DEF OwedArrives
  <2>2. o.conn \in Conn /\ o.filter \in Filter
    BY <1>0, <2>1 DEF HistoryType, Polite
  <2> QED
    BY <1>10, <2>1, <2>2
<1>13. BarredStaysAway'
  <2> SUFFICES ASSUME NEW b \in barred
               PROVE  /\ b.conn \in Conn /\ b.packet \in Packet
                      /\ \A f \in possible[b.conn] : ~ Selects(f, b.packet.topic)
                      /\ KeptAway(b.conn, b.packet)'
    BY <1>h DEF BarredStaysAway, Selects
  <2>1. /\ b.conn \in Conn /\ b.packet \in Packet /\ KeptAway(b.conn, b.packet)
        /\ \A f \in possible[b.conn] : ~ Selects(f, b.packet.topic)
    BY <1>0 DEF BarredStaysAway
  <2> QED
    BY <1>11, <2>1
<1>14. Recorded'
  <2>1. ASSUME NEW q \in Packet, HandedOver(q)' PROVE HandedOver(q)
    <3>1. CASE \E t \in Shard, i \in Nat : QueuedAt(t, i, q)'
      <4>1. PICK t \in Shard, i \in Nat : QueuedAt(t, i, q)'
        BY <3>1
      <4>2. QueuedAt(t, i, q) \/ (QueuedAt(t, i + 1, q) /\ i + 1 \in Nat)
        BY <1>2, <4>1
      <4> QED
        BY <4>2 DEF HandedOver
    <3>2. CASE \E t \in Shard : FanningAt(t, q)'
      <4>1. PICK t \in Shard : FanningAt(t, q)'
        BY <3>2
      <4>2. FanningAt(t, q) \/ QueuedAt(s, 1, q)
        BY <1>2, <1>6, <4>1 DEF FanningAt
      <4> QED
        BY <4>2 DEF HandedOver
    <3>3. CASE \E d \in Conn, k \in Nat : LiveAt(d, k, q)'
      BY <1>6, <3>3 DEF HandedOver
    <3> QED
      BY <2>1, <3>1, <3>2, <3>3 DEF HandedOver
  <2> QED
    BY <1>0, <1>1, <1>6, <1>h, <2>1 DEF Recorded, SamePublish
<1>15. NotifiedLive'
  <2>1. \A t \in Shard : job[t].op = "fanout" => job[t].notified \in SUBSET Conn
    BY <1>0, JobFields DEF TypeOK
  <2> QED
    BY <1>0, <1>2, <1>6, <2>1 DEF NotifiedLive
<1> QED
  BY <1>3, <1>5, <1>12, <1>13, <1>14, <1>15 DEF DInv

LEMMA JobDInv ==
    ASSUME DInv, OInv', KInv', NEW s \in Shard, UNCHANGED history,
           \/ \E p \in job[s].packets : PushReplay(s, p)
           \/ \E c \in Conn : FanOutVisit(s, c)
           \/ \E f \in job[s].wild : FanOutFilter(s, f)
    PROVE  DInv'
<1>0. /\ TypeOK /\ HistoryType /\ Requests /\ Subscriptions /\ OwedArrives
      /\ BarredStaysAway /\ Recorded /\ NotifiedLive /\ KnownBeforeSubscribed
  BY DEF DInv, OInv, KInv, LInv
<1>h. /\ asked' = asked /\ firm' = firm /\ possible' = possible
      /\ owed' = owed /\ barred' = barred
  BY DEF history
<1>1. /\ UNCHANGED <<inbox, topics, clients, sending, next, ack, nread>>
      /\ \A t \in Shard : t # s => job'[t] = job[t]
  BY <1>0 DEF PushReplay, FanOutVisit, FanOutFilter, readerVars, TypeOK
<1>2. job[s] \in Job
  BY <1>0 DEF TypeOK
<1>3. /\ \A t \in Shard, i \in Nat, q \in Packet : QueuedAt(t, i, q)' <=> QueuedAt(t, i, q)
      /\ \A t \in Shard, q \in Packet : t # s => (FanningAt(t, q)' <=> FanningAt(t, q))
      /\ \A q : Submitted(q)' <=> Submitted(q)
      /\ \A t \in Shard, i \in Nat, d \in Conn, f \in Filter : On(t, i, d, f)' <=> On(t, i, d, f)
  BY <1>1, OnFrame DEF QueuedAt, FanningAt, Submitted
\* it is enough to look at the job of shard s
<1>4. ASSUME \A d \in Conn : \A q : Delivered(d, q) => Delivered(d, q)',
             \A d \in Conn, k \in Nat, q \in Packet :
                LiveAt(d, k, q)' => LiveAt(d, k, q) \/ FanningAt(s, q),
             \A q \in Packet : FanningAt(s, q)' => FanningAt(s, q),
             job'[s].op = "fanout" =>
                \A d \in job'[s].notified : \A q : q = job'[s].packet => Delivered(d, q)',
             \A f \in Filter, d \in Polite, q \in Packet :
                FanningAt(s, q) /\ topics[s][f][d] > 0 /\ Pending(s, d, f, q) =>
                   Delivered(d, q)' \/ (Pending(s, d, f, q)' /\ FanningAt(s, q)'),
             \A b \in barred :
                /\ ~ Delivered(b.conn, b.packet)'
                /\ FanningAt(s, b.packet)' =>
                      /\ job'[s].todo[b.conn] = 0
                      /\ \A f \in job'[s].wild : topics[s][f][b.conn] = 0
      PROVE  DInv'
  <2>1. HistoryType' /\ Requests'
    BY <1>0, <1>1, <1>h DEF HistoryType, Requests
  <2>2. Subscriptions'
    <3> SUFFICES ASSUME NEW d \in Conn, NEW t \in Shard, NEW f \in Filter, Relevant(f, t)
                 PROVE  Promised(d, t, f)'
      BY DEF Subscriptions, Relevant
    <3>1. Promised(d, t, f)
      BY <1>0 DEF Subscriptions
    <3>2. On(t, End(t), d, f)' <=> On(t, End(t), d, f)
      BY <1>1 DEF On, Source, End
    <3>3. \A ty \in {"Subscribe", "Unsubscribe"} : Due(d, t, f, ty)' <=> Due(d, t, f, ty)
      BY <1>1 DEF Due
    <3> QED
      BY <1>1, <1>h, <3>1, <3>2, <3>3 DEF Promised
  <2>3. OwedArrives'
    <3> SUFFICES ASSUME NEW o \in owed
                 PROVE  /\ o.conn \in Polite /\ o.filter \in firm[o.conn] /\ o.packet \in Packet
                        /\ Selects(o.filter, o.packet.topic)
                        /\ OnItsWay(o.conn, o.filter, o.packet)'
      BY <1>h DEF OwedArrives, Polite, Selects
    <3>1. /\ o.conn \in Polite /\ o.filter \in firm[o.conn] /\ o.packet \in Packet
          /\ Selects(o.filter, o.packet.topic) /\ OnItsWay(o.conn, o.filter, o.packet)
      BY <1>0 DEF OwedArrives
    <3>2. o.conn \in Conn /\ o.filter \in Filter
      BY <1>0, <3>1 DEF HistoryType, Polite
    <3>3. PICK d \in Polite, f \in Filter, p \in Packet :
                 o.conn = d /\ o.filter = f /\ o.packet = p /\ d \in Conn /\ OnItsWay(d, f, p)
      BY <3>1, <3>2
    <3>4. FanningAt(s, p) =>
             Delivered(d, p)' \/ (topics[s][f][d] > 0 /\ Pending(s, d, f, p)' /\ FanningAt(s, p)')
      BY <1>4, <3>3 DEF OnItsWay
    <3>5. InFlight(p)' \/ Delivered(d, p)'
      <4>1. InFlight(p)' <=> \/ Submitted(p)'
                             \/ \E t \in Shard, i \in Nat : QueuedAt(t, i, p)'
                             \/ \E t \in Shard : FanningAt(t, p)'
        <5>1. \A t \in Shard : \A i \in 1..Len(inbox'[t]) : i \in Nat
          OBVIOUS
        <5> QED
          BY <5>1 DEF InFlight, Submitted, QueuedAt, FanningAt
      <4>2. CASE \E t \in Shard : FanningAt(t, p)
        BY <1>3, <3>4, <4>1, <4>2
      <4> QED
        BY <1>3, <1>4, <3>3, <4>1, <4>2, InFlightCases DEF OnItsWay
    <3>6. ASSUME NEW t \in Shard, FanningAt(t, p)'
          PROVE  Delivered(d, p)' \/ (topics'[t][f][d] > 0 /\ Pending(t, d, f, p)')
      <4>1. CASE t = s
        BY <1>1, <1>4, <3>4, <3>6, <4>1
      <4>2. CASE t # s
        <5>1. FanningAt(t, p) /\ (Pending(t, d, f, p)' <=> Pending(t, d, f, p))
          BY <1>1, <1>3, <3>6, <4>2 DEF Pending
        <5> QED
          BY <1>1, <1>4, <3>3, <5>1 DEF OnItsWay
      <4> QED
        BY <4>1, <4>2
    <3>7. OnItsWay(d, f, p)'
      BY <1>3, <3>3, <3>5, <3>6 DEF OnItsWay
    <3> QED
      BY <3>1, <3>3, <3>7
  <2>4. BarredStaysAway'
    <3> SUFFICES ASSUME NEW b \in barred
                 PROVE  /\ b.conn \in Conn /\ b.packet \in Packet
                        /\ \A f \in possible[b.conn] : ~ Selects(f, b.packet.topic)
                        /\ KeptAway(b.conn, b.packet)'
      BY <1>h DEF BarredStaysAway, Selects
    <3>1. /\ b.conn \in Conn /\ b.packet \in Packet /\ KeptAway(b.conn, b.packet)
          /\ \A f \in possible[b.conn] : ~ Selects(f, b.packet.topic)
      BY <1>0 DEF BarredStaysAway
    <3>2. ASSUME NEW t \in Shard, FanningAt(t, b.packet)'
          PROVE  /\ job'[t].todo[b.conn] = 0
                 /\ \A f \in job'[t].wild : topics'[t][f][b.conn] = 0
      <4>1. CASE t = s
        BY <1>1, <1>4, <3>2, <4>1
      <4>2. CASE t # s
        BY <1>1, <1>3, <3>1, <3>2, <4>2 DEF KeptAway
      <4> QED
        BY <4>1, <4>2
    <3>3. ~ Delivered(b.conn, b.packet)'
      BY <1>4
    <3> QED
      BY <1>3, <3>1, <3>2, <3>3 DEF KeptAway, Selects
  <2>5. Recorded'
    <3>1. ASSUME NEW q \in Packet, HandedOver(q)' PROVE HandedOver(q)
      BY <1>3, <1>4, <3>1 DEF HandedOver
    <3> QED
      BY <1>0, <1>1, <1>3, <1>h, <3>1 DEF Recorded, SamePublish
  <2>6. NotifiedLive'
    <3>1. \A t \in Shard : job[t].op = "fanout" => job[t].notified \in SUBSET Conn
      BY <1>0, JobFields DEF TypeOK
    <3>2. ASSUME NEW t \in Shard, job'[t].op = "fanout", NEW c \in job'[t].notified,
                 NEW p, p = job'[t].packet
          PROVE  Delivered(c, p)'
      <4>1. CASE t = s
        BY <1>4, <3>2, <4>1
      <4>2. CASE t # s
        BY <1>0, <1>1, <1>4, <3>1, <3>2, <4>2 DEF NotifiedLive
      <4> QED
        BY <4>1, <4>2
    <3> QED
      BY <3>2 DEF NotifiedLive
  <2> QED
    BY <2>1, <2>2, <2>3, <2>4, <2>5, <2>6 DEF DInv
<1>5. ASSUME NEW q \in job[s].packets, PushReplay(s, q) PROVE DInv'
  <2>1. /\ job[s].op = "replay" /\ job[s].to \in Conn /\ q \in Packet
        /\ job'[s] = Replay(job[s].to, job[s].packets \ {q})
    BY <1>0, <1>2, <1>5, JobFields DEF PushReplay, TypeOK
  <2> DEFINE e == [type |-> "PUBLISH", via |-> "replay", packet |-> [q EXCEPT !.retain = TRUE]]
  <2>2. e \in Event /\ PushTo(job[s].to, e) /\ e.via # "live"
    BY <1>5, <2>1, PacketFields DEF PushReplay, Event
  <2> HIDE DEF e
  <2>3. \A d \in Conn : \A p : Delivered(d, p)' <=> Delivered(d, p)
    BY <1>0, <2>1, <2>2, PushDelivered
  <2>4. \A d \in Conn, k \in Nat, p \in Packet : LiveAt(d, k, p)' => LiveAt(d, k, p)
    BY <1>0, <2>1, <2>2, QuietPush
  <2>5. job'[s].op # "fanout" /\ \A p \in Packet : ~ FanningAt(s, p) /\ ~ FanningAt(s, p)'
    BY <2>1 DEF Replay, Idle, FanningAt
  <2>6. \A b \in barred : b.conn \in Conn /\ b.packet \in Packet /\ ~ Delivered(b.conn, b.packet)
    BY <1>0 DEF BarredStaysAway, KeptAway
  <2>7. \A b \in barred : ~ Delivered(b.conn, b.packet)' /\ ~ FanningAt(s, b.packet)'
    BY <2>3, <2>5, <2>6
  <2> QED
    BY <1>4, <2>3, <2>4, <2>5, <2>7
<1>6. ASSUME NEW c \in Conn, FanOutVisit(s, c) PROVE DInv'
  <2>0. PICK j \in Job, p0 \in Packet : j = job[s] /\ p0 = j.packet
    BY <1>2, <1>6, JobFields DEF FanOutVisit
  <2> DEFINE rest == [j.todo EXCEPT ![c] = j.todo[c] - 1]
             heard == IF Skipped(s, c) THEN j.notified ELSE j.notified \cup {c}
  <2>1. /\ j.op = "fanout" /\ j.todo[c] > 0
        /\ j.todo \in [Conn -> {0, 1}] /\ j.notified \in SUBSET Conn
        /\ job'[s] = FanOut(p0, j.exact, rest, j.wild, heard)
    BY <1>0, <1>2, <1>6, <2>0, JobFields DEF FanOutVisit, TypeOK
  <2>2. rest \in [Conn -> {0, 1}] /\ \A d \in Conn : d # c => rest[d] = j.todo[d]
    BY <2>1
  <2>3. job'[s].op = "fanout" => /\ job'[s].notified = heard /\ job'[s].packet = p0
                                 /\ job'[s].todo = rest /\ job'[s].wild = j.wild
    BY <2>1 DEF FanOut, Idle
  <2>4. FanningAt(s, p0) /\ \A q \in Packet : FanningAt(s, q) => q = p0
    BY <2>0, <2>1 DEF FanningAt
  <2>5. \A q \in Packet : FanningAt(s, q)' => FanningAt(s, q)
    BY <2>3, <2>4 DEF FanningAt
  <2>6. /\ \A d \in Conn : \A q : Delivered(d, q) => Delivered(d, q)'
        /\ ~ Skipped(s, c) => Delivered(c, p0)'
        /\ \A d \in Conn : \A q : Delivered(d, q)' => Delivered(d, q) \/ (d = c /\ SamePublish(p0, q))
        /\ \A d \in Conn, k \in Nat, q \in Packet :
             LiveAt(d, k, q)' => LiveAt(d, k, q) \/ FanningAt(s, q)
    <3>1. CASE Skipped(s, c)
      <4>1. outbound' = outbound
        BY <1>6, <3>1 DEF FanOutVisit
      <4> QED
        BY <3>1, <4>1 DEF Delivered, Pushes, IsLive, IsPublish, PacketAt, LiveAt
    <3>2. CASE ~ Skipped(s, c)
      <4> DEFINE e == [type |-> "PUBLISH", packet |-> p0, via |-> "live"]
      <4>1. PushTo(c, e) /\ e \in Event
        BY <1>6, <2>0, <3>2 DEF FanOutVisit, Event
      <4>2. e.type = "PUBLISH" /\ e.via = "live" /\ e.packet = p0 /\ SamePublish(e.packet, p0)
        BY DEF SamePublish
      <4> HIDE DEF e
      <4>3. /\ \A d \in Conn : \A q : Delivered(d, q) => Delivered(d, q)'
            /\ Delivered(c, p0)'
            /\ \A d \in Conn : \A q : Delivered(d, q)' =>
                 Delivered(d, q) \/ (d = c /\ SamePublish(p0, q))
        BY <1>0, <4>1, <4>2, PushDelivered
      <4>4. ASSUME NEW d \in Conn, NEW k \in Nat, NEW q \in Packet, LiveAt(d, k, q)',
                   ~ LiveAt(d, k, q)
            PROVE  q = p0
        <5>1. /\ \A b \in Conn : b # c => outbound'[b] = outbound[b]
              /\ Len(outbound[c]) \in Nat
              /\ Len(outbound'[c]) = Len(outbound[c]) + 1
              /\ \A i \in 1..Len(outbound[c]) : outbound'[c][i] = outbound[c][i]
              /\ outbound'[c][Len(outbound[c]) + 1] = e
          BY <1>0, <4>1, PushEffect
        <5>2. k \in 1..Len(outbound'[d]) /\ outbound'[d][k].packet = q
          BY <4>4 DEF LiveAt, Pushes, PacketAt
        <5>3. ~(k \in 1..Len(outbound[d]) /\ outbound'[d][k] = outbound[d][k])
          BY <4>4 DEF LiveAt, Pushes, IsLive, IsPublish, PacketAt
        <5>4. d = c /\ k = Len(outbound[c]) + 1
          BY <5>1, <5>2, <5>3
        <5> QED
          BY <4>2, <5>1, <5>2, <5>4
      <4> QED
        BY <2>4, <4>3, <4>4
    <3> QED
      BY <3>1, <3>2
  <2>7. \A d \in j.notified : Delivered(d, p0)
    BY <1>0, <2>0, <2>1 DEF NotifiedLive
  <2>8. ASSUME job'[s].op = "fanout", NEW d \in job'[s].notified, NEW q, q = job'[s].packet
        PROVE  Delivered(d, q)'
    BY <2>1, <2>3, <2>6, <2>7, <2>8
  <2>9. ASSUME NEW f \in Filter, NEW d \in Polite, NEW q \in Packet, FanningAt(s, q),
               topics[s][f][d] > 0, Pending(s, d, f, q)
        PROVE  Delivered(d, q)' \/ (Pending(s, d, f, q)' /\ FanningAt(s, q)')
    <3>0. d \in Conn /\ q = p0 /\ (j.todo[d] > 0 \/ f \in j.wild)
      BY <2>0, <2>1, <2>4, <2>9 DEF Pending, Polite
    <3>1. CASE f \in j.wild \/ d # c
      <4>1. rest[d] > 0 \/ f \in j.wild
        BY <2>2, <3>0, <3>1
      <4>2. Pending(s, d, f, q)'
        BY <2>1, <2>2, <3>0, <4>1, FanOutPending
      <4>3. job'[s].op = "fanout"
        BY <2>1, <2>2, <3>0, <4>1 DEF FanOut, NoSubs
      <4> QED
        BY <2>3, <3>0, <4>2, <4>3 DEF FanningAt
    <3>2. CASE d = c
      <4>1. c \in clients[s]
        BY <1>0, <2>9, <3>2 DEF KnownBeforeSubscribed
      <4> QED
        BY <2>0, <2>6, <2>7, <3>0, <3>2, <4>1 DEF Skipped
    <3> QED
      BY <3>1, <3>2
  <2>10. ASSUME NEW b \in barred
         PROVE  /\ ~ Delivered(b.conn, b.packet)'
                /\ FanningAt(s, b.packet)' =>
                      /\ job'[s].todo[b.conn] = 0
                      /\ \A f \in job'[s].wild : topics[s][f][b.conn] = 0
    <3>1. /\ b.conn \in Conn /\ b.packet \in Packet /\ ~ Delivered(b.conn, b.packet)
          /\ FanningAt(s, b.packet) => /\ j.todo[b.conn] = 0
                                       /\ \A f \in j.wild : topics[s][f][b.conn] = 0
      BY <1>0, <2>0 DEF BarredStaysAway, KeptAway
    <3>2. SamePublish(p0, b.packet) => b.packet = p0
      BY <1>0, <2>4, <3>1 DEF Recorded, HandedOver, SamePublish
    <3>3. b.packet = p0 => b.conn # c
      BY <2>1, <2>4, <3>1
    <3>4. ~ Delivered(b.conn, b.packet)'
      BY <2>6, <3>1, <3>2, <3>3
    <3>5. ASSUME FanningAt(s, b.packet)'
          PROVE  /\ job'[s].todo[b.conn] = 0
                 /\ \A f \in job'[s].wild : topics[s][f][b.conn] = 0
      <4>1. FanningAt(s, b.packet) /\ b.packet = p0 /\ job'[s].op = "fanout"
        BY <2>4, <2>5, <3>1, <3>5 DEF FanningAt
      <4> QED
        BY <2>2, <2>3, <3>1, <3>3, <4>1
    <3> QED
      BY <3>4, <3>5
  <2> QED
    BY <1>4, <2>5, <2>6, <2>8, <2>9, <2>10
<1>7. ASSUME NEW g \in job[s].wild, FanOutFilter(s, g) PROVE DInv'
  <2>0. PICK j \in Job, p0 \in Packet : j = job[s] /\ p0 = j.packet
    BY <1>2, <1>7, JobFields DEF FanOutFilter
  <2>1. /\ j.op = "fanout" /\ j.todo = NoSubs /\ outbound' = outbound
        /\ j.wild \in SUBSET Filter /\ j.notified \in SUBSET Conn /\ g \in j.wild
        /\ topics[s][g] \in [Conn -> {0, 1}]
        /\ job'[s] = FanOut(p0, FALSE, topics[s][g], j.wild \ {g}, j.notified)
    BY <1>0, <1>2, <1>7, <2>0, JobFields DEF FanOutFilter, TypeOK
  <2>2. /\ \A d \in Conn : \A q : Delivered(d, q)' <=> Delivered(d, q)
        /\ \A d \in Conn, k \in Nat, q \in Packet : LiveAt(d, k, q)' <=> LiveAt(d, k, q)
    BY <2>1 DEF Delivered, Pushes, IsLive, IsPublish, PacketAt, LiveAt
  <2>3. job'[s].op = "fanout" => /\ job'[s].notified = j.notified /\ job'[s].packet = p0
                                 /\ job'[s].todo = topics[s][g] /\ job'[s].wild = j.wild \ {g}
    BY <2>1 DEF FanOut, Idle
  <2>4. FanningAt(s, p0) /\ \A q \in Packet : FanningAt(s, q) => q = p0
    BY <2>0, <2>1 DEF FanningAt
  <2>5. \A q \in Packet : FanningAt(s, q)' => FanningAt(s, q)
    BY <2>3, <2>4 DEF FanningAt
  <2>6. \A d \in j.notified : Delivered(d, p0)
    BY <1>0, <2>0, <2>1 DEF NotifiedLive
  <2>7. job'[s].op = "fanout" =>
           \A d \in job'[s].notified : \A q : q = job'[s].packet => Delivered(d, q)'
    BY <2>1, <2>2, <2>3, <2>6
  <2>8. ASSUME NEW f \in Filter, NEW d \in Polite, NEW q \in Packet, FanningAt(s, q),
               topics[s][f][d] > 0, Pending(s, d, f, q)
        PROVE  Pending(s, d, f, q)' /\ FanningAt(s, q)'
    <3>1. d \in Conn /\ q = p0 /\ f \in j.wild
      BY <2>0, <2>1, <2>4, <2>8 DEF Pending, Polite, NoSubs
    <3>2. topics[s][g][d] > 0 \/ f \in j.wild \ {g}
      BY <2>8, <3>1
    <3>3. Pending(s, d, f, q)'
      BY <2>1, <3>1, <3>2, FanOutPending
    <3>4. job'[s].op = "fanout"
      BY <2>1, <3>1, <3>2 DEF FanOut, NoSubs
    <3> QED
      BY <2>3, <3>1, <3>3, <3>4 DEF FanningAt
  <2>9. ASSUME NEW b \in barred
        PROVE  /\ ~ Delivered(b.conn, b.packet)'
               /\ FanningAt(s, b.packet)' =>
                     /\ job'[s].todo[b.conn] = 0
                     /\ \A f \in job'[s].wild : topics[s][f][b.conn] = 0
    <3>1. /\ b.conn \in Conn /\ b.packet \in Packet /\ ~ Delivered(b.conn, b.packet)
          /\ FanningAt(s, b.packet) => \A f \in j.wild : topics[s][f][b.conn] = 0
      BY <1>0, <2>0 DEF BarredStaysAway, KeptAway
    <3>2. ASSUME FanningAt(s, b.packet)'
          PROVE  /\ job'[s].todo[b.conn] = 0
                 /\ \A f \in job'[s].wild : topics[s][f][b.conn] = 0
      <4>1. FanningAt(s, b.packet) /\ job'[s].op = "fanout"
        BY <2>5, <3>1, <3>2 DEF FanningAt
      <4> QED
        BY <2>1, <2>3, <3>1, <4>1
    <3> QED
      BY <2>2, <3>1, <3>2
  <2> QED
    BY <1>4, <2>2, <2>5, <2>7, <2>8, <2>9
<1> QED
  BY <1>5, <1>6, <1>7

-----------------------------------------------------------------------------
(* Theorems *)

LEMMA InitDInv == DInit => DInv
<1> SUFFICES ASSUME DInit PROVE DInv
  OBVIOUS
<1>0. Init /\ TypeOK
  BY InitType DEF DInit
<1>1. /\ \A s \in Shard : inbox[s] = <<>> /\ job[s] = Idle
      /\ \A c \in Conn : sending[c] = <<>>
      /\ \A s \in Shard, f \in Filter, c \in Conn : topics[s][f][c] = 0
      /\ \A c \in Conn : ack[c] = NoAck
  BY <1>0 DEF Init, NoSubs
<1>2. \A i : i \notin 1..Len(<<>>)
  OBVIOUS
<1>3. HistoryType /\ OwedArrives /\ BarredStaysAway /\ Recorded
  BY DEF DInit, HistoryType, OwedArrives, BarredStaysAway, Recorded
<1>4. Requests /\ NotifiedLive
  BY <1>1, <1>2 DEF Requests, NotifiedLive, Idle
<1>5. Subscriptions
  <2> SUFFICES ASSUME NEW c \in Conn, NEW s \in Shard, NEW f \in Filter
               PROVE  Promised(c, s, f)
    BY DEF Subscriptions
  <2>1. End(s) = 1
    BY <1>1 DEF End
  <2>2. ~ On(s, End(s), c, f)
    BY <1>1, <2>1, OnFirst
  <2>3. firm[c] = {} /\ ack[c].type \notin {"SUBACK", "UNSUBACK"}
    BY <1>1 DEF DInit, NoAck
  <2> QED
    BY <2>2, <2>3 DEF Promised
<1> QED
  BY <1>0, <1>3, <1>4, <1>5, InitOInv, InitKInv DEF DInv

\* The history variables only watch: every step of DNext is one of the broker.
LEMMA HistoryWatches == [DNext]_dvars => [Next]_vars
<1>1. ASSUME NEW c \in Conn, DClientStep(c) PROVE ClientStep(c)
  BY <1>1 DEF DClientStep, ClientStep, Dispatch, DSubscribe, DUnsubscribe, DPublish, DHangup,
              DOther
<1>2. ASSUME NEW c \in Conn, DReaderStep(c) PROVE ReaderStep(c)
  BY <1>2 DEF DReaderStep, ReaderStep, DAnswer
<1>3. ASSUME NEW s \in Shard, DShardStep(s) PROVE ShardStep(s)
  BY <1>3 DEF DShardStep
<1>4. UNCHANGED dvars => UNCHANGED vars
  BY DEF dvars, vars
<1> QED
  BY <1>1, <1>2, <1>3, <1>4 DEF DNext, Next

LEMMA NextDInv == DInv /\ [DNext]_dvars => DInv'
<1> SUFFICES ASSUME DInv, [DNext]_dvars PROVE DInv'
  OBVIOUS
<1>0. OInv' /\ KInv'
  BY HistoryWatches, NextOInv, NextKInv DEF DInv
<1>1. CASE UNCHANGED dvars
  BY <1>0, <1>1, CloseDInv DEF dvars, vars
<1>2. ASSUME NEW c \in Conn, DClientStep(c) PROVE DInv'
  BY <1>0, <1>2, DSubscribeDInv, DUnsubscribeDInv, DPublishDInv, DHangupOtherDInv
     DEF DClientStep
<1>3. ASSUME NEW c \in Conn, DReaderStep(c) PROVE DInv'
  <2>1. CASE DAnswer(c)
    BY <1>0, <2>1, AnswerDInv
  <2>2. CASE Send(c) /\ UNCHANGED history
    BY <1>0, <2>2, SendDInv
  <2>3. CASE Close(c) /\ UNCHANGED history
    BY <1>0, <2>3, CloseDInv DEF Close, shardVars
  <2> QED
    BY <1>3, <2>1, <2>2, <2>3 DEF DReaderStep
<1>4. ASSUME NEW s \in Shard, DShardStep(s) PROVE DInv'
  BY <1>0, <1>4, HandleDInv, JobDInv DEF DShardStep, ShardStep
<1> QED
  BY <1>1, <1>2, <1>3, <1>4 DEF DNext

LEMMA DInvariant == DSpec => []DInv
BY InitDInv, NextDInv, PTL DEF DSpec

\* SUBACK is a barrier: a publish that is read after the SUBACK of a matching
\* filter was pushed is delivered, on whatever shard, although the SUBACK waits
\* for no shard to handle the Subscribe.
THEOREM BrokerSubackIsBarrier == DSpec => []SubackIsBarrier
<1>1. DInv => SubackIsBarrier
  BY DEF DInv, OwedArrives, OnItsWay, SubackIsBarrier
<1> QED
  BY <1>1, DInvariant, PTL

\* UNSUBACK is a barrier: a publish that is read after the UNSUBACK of the last
\* matching filter was pushed is not delivered, unless the client subscribes
\* again.
THEOREM BrokerUnsubackIsBarrier == DSpec => []UnsubackIsBarrier
<1>1. DInv => UnsubackIsBarrier
  BY DEF DInv, BarredStaysAway, KeptAway, UnsubackIsBarrier
<1> QED
  BY <1>1, DInvariant, PTL
=============================================================================
