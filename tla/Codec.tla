------------------------------- MODULE Codec -------------------------------
(***************************************************************************)
(* The broker's codec against blitzclient's, and against the bytes of any  *)
(* other client.  One frame is encoded, its Remaining Length travels as in *)
(* RemainingLength, and the other side decodes it.                         *)
(***************************************************************************)
EXTENDS RemainingLength, PacketCodec

CONSTANTS
    ClientPackets,      \* what blitzclient sends
    BenchPackets,       \* what shard_benchmark sends
    BrokerPackets,      \* what the broker sends
    OtherPackets,       \* what other clients mean to send
    Noise               \* bytes that turn up where they do not belong

C == INSTANCE ClientCodec

\* The packets the two codecs have to agree on: strings fit their length field,
\* which is where both encoders cut them off, and are what the decoder asks for.
U16 == 0..U16Max
Frame == [byte0 : Byte, body : Seq(Byte)]
Utf8String == {s \in Seq(Byte) : Len(s) <= U16Max /\ from_utf8(s)}
FilterString == {s \in Utf8String : validate_topic_filter(s)}
TopicName == {s \in Utf8String : s # <<>> /\ ~ Contains(s, Plus) /\ ~ Contains(s, Hash)}

ConnectPacket == [type : {"CONNECT"}, clean_session : BOOLEAN, keep_alive_secs : U16,
                  client_id : Utf8String]
SubscribePacket == [type : {"SUBSCRIBE"}, packet_id : U16,
                    subscriptions : Seq(FilterString \X (0..2))]
PublishPacket ==
    {p \in [type : {"PUBLISH"}, topic : TopicName, payload : Seq(Byte), qos : {0, 1},
            retain : BOOLEAN, packet_id : U16] :
       (p.qos = 0) <=> (p.packet_id = None)}

FromClient(p) ==
    \/ p \in ConnectPacket /\ p.clean_session
    \/ p \in SubscribePacket /\ Len(p.subscriptions) = 1
    \/ p \in PublishPacket /\ ~ p.retain
    \/ p = [type |-> "DISCONNECT"]
FromBench(p) ==
    /\ FromClient(p)
    /\ p.type = "CONNECT" => p.keep_alive_secs = 60
    /\ p.type = "SUBSCRIBE" => p.subscriptions[1][2] = 0
    /\ p.type = "PUBLISH" => p.qos = 0
FromBroker(p) ==
    \/ p \in [type : {"CONNACK"}, session_present : BOOLEAN, return_code : Byte]
    \/ p \in [type : {"SUBACK"}, packet_id : U16, return_codes : Seq(Byte) \ {<<>>}]
    \/ p \in PublishPacket
    \/ p \in [type : {"PUBACK"}, packet_id : U16]

ASSUME CodecAssumption ==
    /\ \A p \in ClientPackets : FromClient(p)
    /\ \A p \in BenchPackets : FromBench(p)
    /\ \A p \in BrokerPackets : FromBroker(p)
    /\ \A p \in OtherPackets : encode(p) \in Frame
    /\ Noise \subseteq Byte
    /\ from_utf8(MQTT)         \* ASCII is UTF-8

VARIABLES
    origin,     \* "client", "bench", "broker", "other", or "none": only a header
    sent,       \* the packet that was encoded
    frame,      \* what is on the wire, without its Remaining Length
    received    \* what the other side made of it

codecVars == <<origin, sent, frame, received>>

Nothing == [type |-> "Nothing"]
NoFrame == [byte0 |-> 0, body |-> <<>>]

\* blitzclient's encoder for the packet p, as run_pub, run_sub and
\* connect_to_broker call it
ClientEncode(p) ==
    CASE p.type = "CONNECT" -> C!encode_connect(p.client_id, p.keep_alive_secs)
      [] p.type = "SUBSCRIBE" ->
           C!encode_subscribe(p.packet_id, p.subscriptions[1][1], p.subscriptions[1][2])
      [] p.type = "PUBLISH" -> C!encode_publish(p.topic, p.payload, p.qos, p.packet_id)
      [] p.type = "DISCONNECT" -> C!encode_disconnect

\* shard_benchmark's encoders, a copy of blitzclient's with fewer parameters:
\* a keep alive of 60 seconds, QoS 0
BenchEncode(p) ==
    CASE p.type = "CONNECT" -> C!encode_connect(p.client_id, 60)
      [] p.type = "SUBSCRIBE" -> C!encode_subscribe(p.packet_id, p.subscriptions[1][1], 0)
      [] p.type = "PUBLISH" -> C!encode_publish(p.topic, p.payload, 0, None)
      [] p.type = "DISCONNECT" -> C!encode_disconnect

\* f as another client may send it: other flags, cut short, with a byte
\* replaced, with a byte too many
Variants(f) ==
    {[f EXCEPT !.byte0 = (@ \div 16) * 16 + n] : n \in 0..15}
      \cup {[f EXCEPT !.body = SubSeq(@, 1, n)] : n \in 0..Len(f.body)}
      \cup {[f EXCEPT !.body = [@ EXCEPT ![n] = b]] : n \in 1..Len(f.body), b \in Noise}
      \cup {[f EXCEPT !.body = Append(@, b)] : b \in Noise}

CodecInit ==
    /\ Init
    /\ received = Nothing
    /\ \/ origin = "none" /\ sent = Nothing /\ frame = NoFrame
       \/ /\ \/ origin = "client" /\ sent \in ClientPackets /\ frame = ClientEncode(sent)
             \/ origin = "bench" /\ sent \in BenchPackets /\ frame = BenchEncode(sent)
             \/ origin = "broker" /\ sent \in BrokerPackets /\ frame = encode(sent)
             \/ origin = "other" /\ sent \in OtherPackets /\ frame \in Variants(encode(sent))
          /\ len = Len(frame.body)

\* the length has been decoded and the body is there
Deliver ==
    /\ result = "Ok"
    /\ origin # "none" /\ received = Nothing
    /\ received' = IF origin = "broker" THEN C!decode(frame) ELSE decode(frame)
    /\ UNCHANGED <<vars, origin, sent, frame>>

CodecNext == (Next /\ UNCHANGED codecVars) \/ Deliver

CodecSpec == CodecInit /\ [][CodecNext]_<<vars, codecVars>>

-----------------------------------------------------------------------------
(* Properties *)

\* a PUBLISH as blitzclient sees it: it does not look at RETAIN
Seen(p) == [f \in DOMAIN p \ {"retain"} |-> p[f]]

\* the two agree on the length field: the same bytes, and blitzclient reads a
\* length from exactly those bytes from which the broker does
HeadersAgree ==
    /\ result # "encoding" => out = C!encode_remaining_length(len)
    /\ result \in Results =>
         LET r == C!ReadRemainingLength(SubSeq(out, 1, avail))
         IN  IF result = "Ok"
             THEN r.type = "Ok" /\ r.value = value /\ r.bytes = i
             ELSE r = C!Err

\* Two codecs written apart agree: what blitzclient or shard_benchmark encodes
\* the broker decodes to the same packet, and the other way round ("does not import from the
\* broker's protocol.rs", head of blitzclient.rs), length fields included.
CodecsAgree ==
    /\ HeadersAgree
    /\ received # Nothing =>
         /\ origin \in {"client", "bench"} => received = sent
         /\ origin = "broker" => received = Seen(sent)

Accepted == origin \in {"client", "bench", "other"} /\ received # Nothing /\ ~ IsErr(received)

\* the CONNECT flags that decode_connect does not look at, cleared
Significant(p, body) ==
    IF p.type = "CONNECT" THEN [body EXCEPT ![8] = IF Bit(@, 2) THEN 2 ELSE 0] ELSE body

\* decode neither drops nor invents anything: whatever bytes it accepts, the
\* packet it returns is encoded by these very bytes, down to the last one.
\* Exempt are the bits it ignores: flags of CONNECT, reserved fixed header
\* flags, DUP.
NothingMisread ==
    Accepted =>
        LET f == encode(received)
        IN  /\ f.body = Significant(received, frame.body)
            /\ f.byte0 \div 16 = frame.byte0 \div 16
            /\ received.type = "PUBLISH" => f.byte0 % 8 = frame.byte0 % 8

\* What decode accepts is what the broker relies on: at least one filter and
\* only valid ones, a topic name without wildcards, an identifier exactly for
\* QoS 1 (the packets that Broker starts from).
AcceptedIsWellFormed ==
    Accepted =>
        /\ received.type = "SUBSCRIBE" =>
             /\ received.subscriptions # <<>>
             /\ \A k \in DOMAIN received.subscriptions :
                  validate_topic_filter(received.subscriptions[k][1])
        /\ received.type = "UNSUBSCRIBE" =>
             /\ received.topic_filters # <<>>
             /\ \A k \in DOMAIN received.topic_filters :
                  validate_topic_filter(received.topic_filters[k])
        /\ received.type = "PUBLISH" =>
             /\ received.topic # <<>>
             /\ ~ Contains(received.topic, Plus) /\ ~ Contains(received.topic, Hash)
             /\ received.qos \in {0, 1}
             /\ (received.qos = 1) <=> (received.packet_id # None)

\* Whatever PUBLISH the broker accepts from any client, blitzclient can read
\* when it is forwarded, live or as a replay (with RETAIN set).
ForwardedIsReadable ==
    Accepted /\ received.type = "PUBLISH" =>
        \A r \in {received.retain, TRUE} :
            C!decode(encode([received EXCEPT !.retain = r])) = Seen(received)
=============================================================================
