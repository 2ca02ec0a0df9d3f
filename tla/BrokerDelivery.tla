--------------------------- MODULE BrokerDelivery ---------------------------
(***************************************************************************)
(* What the acknowledgements of the broker promise.  Broker with history   *)
(* variables that record, from the point of view of the clients, which     *)
(* subscriptions are certain, which are possible, and what each publish    *)
(* therefore owes to whom.                                                 *)
(***************************************************************************)
EXTENDS Broker

VARIABLES
    asked,      \* asked[c]: the filters of the request c is having answered
    firm,       \* firm[c]: filters with a SUBACK and no UNSUBSCRIBE since
    possible,   \* possible[c]: filters asked for, no UNSUBACK since
    owed,       \* who must get which publish, and because of which filter
    barred      \* who must not get which publish

history == <<asked, firm, possible, owed, barred>>
dvars == <<vars, history>>

DInit ==
    /\ Init
    /\ asked = [c \in Conn |-> {}]
    /\ firm = [c \in Conn |-> {}]
    /\ possible = [c \in Conn |-> {}]
    /\ owed = {}
    /\ barred = {}

Filters(pkt) == {pkt.filters[i] : i \in 1..Len(pkt.filters)}

\* SUBSCRIBE is read: the subscription may take effect at any time from now on
DSubscribe(c, pkt) ==
    /\ ReadSubscribe(c, pkt)
    /\ asked' = [asked EXCEPT ![c] = Filters(pkt)]
    /\ possible' = [possible EXCEPT ![c] = @ \cup Filters(pkt)]
    /\ barred' = {b \in barred : b.conn = c =>
                    \A f \in Filters(pkt) : ~ Selects(f, b.packet.topic)}
    /\ UNCHANGED <<firm, owed>>

\* UNSUBSCRIBE is read: the subscription may end at any time from now on
DUnsubscribe(c, pkt) ==
    /\ ReadUnsubscribe(c, pkt)
    /\ asked' = [asked EXCEPT ![c] = Filters(pkt)]
    /\ firm' = [firm EXCEPT ![c] = @ \ Filters(pkt)]
    /\ owed' = {o \in owed : ~(o.conn = c /\ o.filter \in Filters(pkt))}
    /\ UNCHANGED <<possible, barred>>

\* PUBLISH is read: it is owed to the firm subscribers (known to the broker,
\* if their first packet was a CONNECT), and barred from those who cannot have
\* a subscription
DPublish(c, pkt) ==
    /\ ReadPublish(c, pkt)
    /\ LET p == Published(c, nread[c] + 1, pkt)
       IN  /\ owed' = owed \cup
                 {o \in [conn : Polite, filter : Filter, packet : {p}] :
                    o.filter \in firm[o.conn] /\ Selects(o.filter, p.topic)}
           /\ barred' = barred \cup
                 {b \in [conn : Conn, packet : {p}] :
                    \A f \in possible[b.conn] : ~ Selects(f, p.topic)}
    /\ UNCHANGED <<asked, firm, possible>>

\* the client is gone: nothing is owed to it any more
DHangup(c, pkt) ==
    /\ ReadHangup(c, pkt)
    /\ firm' = [firm EXCEPT ![c] = {}]
    /\ owed' = {o \in owed : o.conn # c}
    /\ UNCHANGED <<asked, possible, barred>>

DOther(c, pkt) ==
    /\ ReadConnect(c, pkt) \/ ReadPing(c, pkt) \/ ReadPuback(c, pkt)
    /\ UNCHANGED history

\* SUBACK makes the filters firm, UNSUBACK makes them impossible
DAnswer(c) ==
    /\ Answer(c)
    /\ firm' = [firm EXCEPT ![c] =
                  IF ack[c].type = "SUBACK" THEN @ \cup asked[c] ELSE @]
    /\ possible' = [possible EXCEPT ![c] =
                      IF ack[c].type = "UNSUBACK" THEN @ \ asked[c] ELSE @]
    /\ UNCHANGED <<asked, owed, barred>>

DClientStep(c) ==
    /\ nread[c] < Len(Script[c])
    /\ \E pkt \in Script[c][nread[c] + 1] :
         \/ DSubscribe(c, pkt)
         \/ DUnsubscribe(c, pkt)
         \/ DPublish(c, pkt)
         \/ DHangup(c, pkt)
         \/ DOther(c, pkt)

DReaderStep(c) ==
    \/ DAnswer(c)
    \/ (Send(c) \/ Close(c)) /\ UNCHANGED history

DShardStep(s) == ShardStep(s) /\ UNCHANGED history

DNext ==
    \/ \E c \in Conn : DClientStep(c) \/ DReaderStep(c)
    \/ \E s \in Shard : DShardStep(s)

DSpec == DInit /\ [][DNext]_dvars

-----------------------------------------------------------------------------
(* Properties *)

\* p is still on its way to being fanned out completely
InFlight(p) ==
    \/ \E i \in 1..Len(sending[p.from]) :
         sending[p.from][i].type = "Publish" /\ sending[p.from][i].packet = p
    \/ \E s \in Shard : \E i \in 1..Len(inbox[s]) :
         inbox[s][i].type = "Publish" /\ inbox[s][i].packet = p
    \/ \E s \in Shard : job[s].op = "fanout" /\ job[s].packet = p

Delivered(c, p) ==
    \E i \in Pushes(c) : IsLive(c, i) /\ SamePublish(PacketAt(c, i), p)

\* SUBACK is a barrier: a publish the broker reads after it has pushed the
\* SUBACK is delivered to the subscriber, on whatever shard and through
\* whatever filter, unless the subscriber leaves or unsubscribes.  The SUBACK
\* is pushed without waiting for any shard to handle the Subscribe.
SubackIsBarrier ==
    \A o \in owed : InFlight(o.packet) \/ Delivered(o.conn, o.packet)

\* UNSUBACK is a barrier: a publish the broker reads after it has pushed the
\* UNSUBACK of the last matching filter (or that no filter ever matched) is
\* not delivered live, unless the client subscribes again.
UnsubackIsBarrier ==
    \A b \in barred : ~ Delivered(b.conn, b.packet)
=============================================================================
