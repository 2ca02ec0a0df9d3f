---------------------------- MODULE PacketCodec ----------------------------
(***************************************************************************)
(* The broker's packet codec (src/src/protocol.rs): the body of every      *)
(* packet, field by field.  A packet on the wire is a frame: byte0 and the *)
(* body; the Remaining Length between them is in RemainingLength.  Offsets *)
(* are those of the code, counted from 0.  A read outside of a buffer,     *)
(* which would panic, has no value here: TLC stops on it.                  *)
(***************************************************************************)
EXTENDS Naturals, Sequences, SequencesExt

CONSTANTS
    from_utf8(_),               \* external: are these bytes valid UTF-8
    validate_topic_filter(_)    \* on the bytes of a filter, see TopicFilter

PT_CONNECT == 1
PT_CONNACK == 2
PT_PUBLISH == 3
PT_PUBACK == 4
PT_SUBSCRIBE == 8
PT_SUBACK == 9
PT_UNSUBSCRIBE == 10
PT_UNSUBACK == 11
PT_PINGREQ == 12
PT_PINGRESP == 13
PT_DISCONNECT == 14

U16Max == 65535
MQTT == <<77, 81, 84, 84>>      \* "MQTT"
Plus == 43                      \* '+'
Hash == 35                      \* '#'

\* u16::to_be_bytes and from_be_bytes
to_be_bytes(n) == <<n \div 256, n % 256>>
from_be_bytes(b, pos) == b[pos + 1] * 256 + b[pos + 2]

\* &b[pos..], which panics when pos is past the end
From(b, pos) == CASE pos <= Len(b) -> SubSeq(b, pos + 1, Len(b))

\* the bit of weight w of a byte
Bit(byte, w) == (byte \div w) % 2 = 1

Err(kind) == [type |-> kind]
Malformed == Err("MalformedPayload")
Unsupported == Err("UnsupportedFeature")
IsErr(r) == r.type \in {"MalformedPayload", "UnsupportedFeature", "UnknownPacketType"}

None == 0                       \* no packet identifier: 0 is never accepted as one

-----------------------------------------------------------------------------
(* String fields: a two-byte length and the bytes *)

decode_utf8_string(buf) ==
    IF Len(buf) < 2
    THEN Malformed
    ELSE LET end == 2 + from_be_bytes(buf, 0)
         IN  IF Len(buf) < end \/ ~ from_utf8(SubSeq(buf, 3, end))
             THEN Malformed
             ELSE [type |-> "Ok", s |-> SubSeq(buf, 3, end), end |-> end]

encode_utf8_string(s) ==
    LET len == IF Len(s) < U16Max THEN Len(s) ELSE U16Max
    IN  to_be_bytes(len) \o SubSeq(s, 1, len)

-----------------------------------------------------------------------------
(* Decoders *)

decode_connect(body) ==
    LET name == decode_utf8_string(body)
        pos == name.end
        flags == body[pos + 2]
        id == decode_utf8_string(From(body, pos + 4))
    IN  IF IsErr(name) \/ name.s # MQTT \/ Len(body) < pos + 1 THEN Malformed
        ELSE IF body[pos + 1] # 4 THEN Unsupported
        ELSE IF Len(body) < pos + 2 THEN Malformed
        ELSE IF Bit(flags, 4) \/ Bit(flags, 64) \/ Bit(flags, 128) THEN Unsupported
        ELSE IF \/ Len(body) < pos + 4
                \/ IsErr(id)
                \/ pos + 4 + id.end # Len(body) THEN Malformed
        ELSE [type |-> "CONNECT", clean_session |-> Bit(flags, 2),
              keep_alive_secs |-> from_be_bytes(body, pos + 2), client_id |-> id.s]

\* the loop over (filter, requested QoS) from offset pos on
Subscriptions(body) ==
    LET loop[pos \in 2..Len(body)] ==
          IF pos = Len(body)
          THEN [type |-> "Ok", list |-> <<>>]
          ELSE LET f == decode_utf8_string(From(body, pos))
                   at == pos + f.end
               IN  IF IsErr(f) \/ ~ validate_topic_filter(f.s)
                   THEN Malformed
                   ELSE IF at >= Len(body) \/ body[at + 1] > 2
                        THEN Malformed
                        ELSE LET rest == loop[at + 1]
                             IN  IF IsErr(rest)
                                 THEN rest
                                 ELSE [rest EXCEPT !.list =
                                         << <<f.s, body[at + 1]>> >> \o @]
    IN  loop[2]

\* Mutant of decode_subscribe: an empty list of filters is accepted.
decode_subscribe_empty(body) ==
    IF Len(body) < 2
    THEN Malformed
    ELSE LET subs == Subscriptions(body)
         IN  IF IsErr(subs)
             THEN subs
             ELSE [type |-> "SUBSCRIBE", packet_id |-> from_be_bytes(body, 0),
                   subscriptions |-> subs.list]

\* a packet identifier and at least one filter
decode_subscribe(body) ==
    IF Len(body) <= 2
    THEN Malformed
    ELSE LET subs == Subscriptions(body)
         IN  IF IsErr(subs)
             THEN subs
             ELSE [type |-> "SUBSCRIBE", packet_id |-> from_be_bytes(body, 0),
                   subscriptions |-> subs.list]

decode_unsubscribe(body) ==
    LET loop[pos \in 2..Len(body)] ==
          IF pos = Len(body)
          THEN [type |-> "UNSUBSCRIBE", packet_id |-> from_be_bytes(body, 0),
                topic_filters |-> <<>>]
          ELSE LET f == decode_utf8_string(From(body, pos))
               IN  IF IsErr(f) \/ ~ validate_topic_filter(f.s)
                   THEN Malformed
                   ELSE LET rest == loop[pos + f.end]
                        IN  IF IsErr(rest)
                            THEN rest
                            ELSE [rest EXCEPT !.topic_filters = <<f.s>> \o @]
    IN  IF Len(body) <= 2 THEN Malformed ELSE loop[2]

\* QoS 1 only: the topic is followed by a packet identifier that is not 0
decode_publish(flags, body) ==
    LET qos == (flags \div 2) % 4
        topic == decode_utf8_string(body)
        pos == topic.end + 2 * qos
        packet_id == IF qos = 0 THEN None ELSE from_be_bytes(body, topic.end)
    IN  IF qos = 2
        THEN Unsupported
        ELSE IF \/ qos = 3 \/ IsErr(topic) \/ topic.s = <<>>
                \/ Contains(topic.s, Plus) \/ Contains(topic.s, Hash)
                \/ Len(body) < pos
                \/ qos = 1 /\ packet_id = 0
             THEN Malformed
             ELSE [type |-> "PUBLISH", topic |-> topic.s, payload |-> From(body, pos),
                   qos |-> qos, retain |-> Bit(flags, 1), packet_id |-> packet_id]

\* Mutant of decode_puback: bytes after the packet identifier are ignored.
decode_puback_lax(body) ==
    IF Len(body) < 2 \/ SubSeq(body, 1, 2) = <<0, 0>>
    THEN Malformed
    ELSE [type |-> "PUBACK", packet_id |-> from_be_bytes(body, 0)]

decode_puback(body) ==
    IF Len(body) # 2 \/ body = <<0, 0>>
    THEN Malformed
    ELSE [type |-> "PUBACK", packet_id |-> from_be_bytes(body, 0)]

\* a packet without a body
Bare(type, body) == IF body = <<>> THEN [type |-> type] ELSE Malformed

\* the match on packet_type, once the whole frame has arrived
decode(frame) ==
    LET packet_type == frame.byte0 \div 16
        flags == frame.byte0 % 16
        body == frame.body
    IN  CASE packet_type = PT_CONNECT -> decode_connect(body)
          [] packet_type = PT_SUBSCRIBE -> decode_subscribe(body)
          [] packet_type = PT_UNSUBSCRIBE -> decode_unsubscribe(body)
          [] packet_type = PT_PUBLISH -> decode_publish(flags, body)
          [] packet_type = PT_PUBACK -> IF flags # 0 THEN Malformed ELSE decode_puback(body)
          [] packet_type = PT_PINGREQ -> Bare("PINGREQ", body)
          [] packet_type = PT_DISCONNECT -> Bare("DISCONNECT", body)
          [] packet_type \in {PT_CONNACK, PT_SUBACK, PT_UNSUBACK, PT_PINGRESP} -> Unsupported
          [] OTHER -> Err("UnknownPacketType")

-----------------------------------------------------------------------------
(* Encoders *)

prepend_fixed_header(packet_type, flags, body) ==
    [byte0 |-> packet_type * 16 + flags, body |-> body]

encode_fixed_header_only(packet_type) == prepend_fixed_header(packet_type, 0, <<>>)

encode_connect(p) ==
    prepend_fixed_header(PT_CONNECT, 0,
        encode_utf8_string(MQTT) \o <<4, IF p.clean_session THEN 2 ELSE 0>>
          \o to_be_bytes(p.keep_alive_secs) \o encode_utf8_string(p.client_id))

encode_connack(p) ==
    prepend_fixed_header(PT_CONNACK, 0,
        <<IF p.session_present THEN 1 ELSE 0, p.return_code>>)

encode_subscribe(p) ==
    prepend_fixed_header(PT_SUBSCRIBE, 2,
        to_be_bytes(p.packet_id)
          \o FlattenSeq([i \in DOMAIN p.subscriptions |->
               encode_utf8_string(p.subscriptions[i][1]) \o <<p.subscriptions[i][2]>>]))

encode_suback(p) ==
    prepend_fixed_header(PT_SUBACK, 0, to_be_bytes(p.packet_id) \o p.return_codes)

encode_unsubscribe(p) ==
    prepend_fixed_header(PT_UNSUBSCRIBE, 2,
        to_be_bytes(p.packet_id)
          \o FlattenSeq([i \in DOMAIN p.topic_filters |->
               encode_utf8_string(p.topic_filters[i])]))

encode_unsuback(p) == prepend_fixed_header(PT_UNSUBACK, 0, to_be_bytes(p.packet_id))

\* Mutant of encode_publish: the packet identifier is left out.
encode_publish_no_id(p) ==
    prepend_fixed_header(PT_PUBLISH, p.qos * 2 + (IF p.retain THEN 1 ELSE 0),
        encode_utf8_string(p.topic) \o p.payload)

\* DUP is never set
encode_publish(p) ==
    prepend_fixed_header(PT_PUBLISH, p.qos * 2 + (IF p.retain THEN 1 ELSE 0),
        encode_utf8_string(p.topic)
          \o (IF p.packet_id = None THEN <<>> ELSE to_be_bytes(p.packet_id))
          \o p.payload)

encode_puback(p) == prepend_fixed_header(PT_PUBACK, 0, to_be_bytes(p.packet_id))

encode(p) ==
    CASE p.type = "CONNECT" -> encode_connect(p)
      [] p.type = "CONNACK" -> encode_connack(p)
      [] p.type = "SUBSCRIBE" -> encode_subscribe(p)
      [] p.type = "SUBACK" -> encode_suback(p)
      [] p.type = "UNSUBSCRIBE" -> encode_unsubscribe(p)
      [] p.type = "UNSUBACK" -> encode_unsuback(p)
      [] p.type = "PUBLISH" -> encode_publish(p)
      [] p.type = "PUBACK" -> encode_puback(p)
      [] p.type = "PINGREQ" -> encode_fixed_header_only(PT_PINGREQ)
      [] p.type = "PINGRESP" -> encode_fixed_header_only(PT_PINGRESP)
      [] p.type = "DISCONNECT" -> encode_fixed_header_only(PT_DISCONNECT)
=============================================================================
