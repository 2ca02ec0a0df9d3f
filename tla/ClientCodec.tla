---------------------------- MODULE ClientCodec ----------------------------
(***************************************************************************)
(* The codec of blitzclient (src/src/bin/blitzclient.rs), which shares no  *)
(* code with the broker's: its encoders write what the broker's decoders   *)
(* read and the other way round.  Frames, offsets and reads out of bounds  *)
(* are as in PacketCodec.                                                  *)
(***************************************************************************)
EXTENDS Naturals, Sequences

CONSTANT from_utf8(_)           \* external: are these bytes valid UTF-8

PT_CONNECT == 1
PT_CONNACK == 2
PT_PUBLISH == 3
PT_PUBACK == 4
PT_SUBSCRIBE == 8
PT_SUBACK == 9
PT_DISCONNECT == 14

U16Max == 65535
MQTT == <<77, 81, 84, 84>>

to_be_bytes(n) == <<n \div 256, n % 256>>
from_be_bytes(b, pos) == b[pos + 1] * 256 + b[pos + 2]
From(b, pos) == CASE pos <= Len(b) -> SubSeq(b, pos + 1, Len(b))

Err == [type |-> "Err"]
None == 0

-----------------------------------------------------------------------------
(* Remaining length *)

encode_remaining_length(len) ==
    LET enc[n \in Nat] == IF n \div 128 = 0
                          THEN <<n % 128>>
                          ELSE <<(n % 128) + 128>> \o enc[n \div 128]
    IN  enc[len]

\* the sum over the bytes of the field, at most four of them
decode_remaining_length(buf) ==
    LET dec[i \in 0..4] ==
          IF i >= 4 \/ i >= Len(buf)
          THEN Err
          ELSE IF buf[i + 1] < 128
          THEN [type |-> "Ok", value |-> buf[i + 1], bytes |-> i + 1]
          ELSE LET rest == dec[i + 1]
               IN  IF rest = Err
                   THEN Err
                   ELSE [rest EXCEPT !.value = 128 * @ + (buf[i + 1] % 128)]
    IN  dec[0]

\* The loop of read_packet takes bytes until one has no continuation bit, and
\* gives up when it has four that do.  Err also stands for the end of the
\* stream inside the field.
ReadRemainingLength(stream) ==
    LET ends == {k \in 1..Len(stream) : stream[k] < 128 \/ k >= 4}
    IN  IF ends = {}
        THEN Err
        ELSE LET k == CHOOSE k \in ends : \A j \in ends : k <= j
             IN  IF stream[k] >= 128
                 THEN Err
                 ELSE decode_remaining_length(SubSeq(stream, 1, k))

-----------------------------------------------------------------------------
(* Encoders *)

encode_utf8_str(s) ==
    LET len == IF Len(s) < U16Max THEN Len(s) ELSE U16Max
    IN  to_be_bytes(len) \o SubSeq(s, 1, len)

make_packet(packet_type, flags, body) ==
    [byte0 |-> packet_type * 16 + flags, body |-> body]

encode_connect(client_id, keep_alive) ==
    make_packet(PT_CONNECT, 0,
        encode_utf8_str(MQTT) \o <<4, 2>> \o to_be_bytes(keep_alive)
          \o encode_utf8_str(client_id))

\* Mutant of encode_subscribe: the requested QoS is left out.
encode_subscribe_no_qos(packet_id, filter, qos) ==
    make_packet(PT_SUBSCRIBE, 2, to_be_bytes(packet_id) \o encode_utf8_str(filter))

encode_subscribe(packet_id, filter, qos) ==
    make_packet(PT_SUBSCRIBE, 2,
        to_be_bytes(packet_id) \o encode_utf8_str(filter) \o <<qos % 4>>)

encode_publish(topic, payload, qos, packet_id) ==
    make_packet(PT_PUBLISH, (qos % 4) * 2,
        encode_utf8_str(topic)
          \o (IF qos > 0
              THEN to_be_bytes(IF packet_id = None THEN 1 ELSE packet_id)
              ELSE <<>>)
          \o payload)

encode_disconnect == make_packet(PT_DISCONNECT, 0, <<>>)

-----------------------------------------------------------------------------
(* Decoders *)

decode_utf8_str(buf, pos) ==
    IF pos + 2 > Len(buf)
    THEN Err
    ELSE LET end == pos + 2 + from_be_bytes(buf, pos)
         IN  IF end > Len(buf) \/ ~ from_utf8(SubSeq(buf, pos + 3, end))
             THEN Err
             ELSE [type |-> "Ok", s |-> SubSeq(buf, pos + 3, end), end |-> end]

decode_connack_body(body) ==
    IF Len(body) < 2
    THEN Err
    ELSE [type |-> "CONNACK", session_present |-> (body[1] % 2) = 1, return_code |-> body[2]]

decode_suback_body(body) ==
    IF Len(body) < 3
    THEN Err
    ELSE [type |-> "SUBACK", packet_id |-> from_be_bytes(body, 0),
          return_codes |-> From(body, 2)]

decode_publish_body(flags, body) ==
    LET qos == (flags \div 2) % 4
        topic == decode_utf8_str(body, 0)
        pos == topic.end
    IN  IF \/ topic = Err
           \/ qos > 0 /\ pos + 2 > Len(body)
           \/ qos > 0 /\ from_be_bytes(body, pos) = 0
        THEN Err
        ELSE [type |-> "PUBLISH", topic |-> topic.s, qos |-> qos,
              packet_id |-> IF qos > 0 THEN from_be_bytes(body, pos) ELSE None,
              payload |-> From(body, IF qos > 0 THEN pos + 2 ELSE pos)]

decode_puback_body(body) ==
    IF Len(body) < 2 THEN Err ELSE [type |-> "PUBACK", packet_id |-> from_be_bytes(body, 0)]

\* what run_pub, run_sub and connect_to_broker make of a packet they read; any
\* other type is ignored or an error, according to the caller
decode(frame) ==
    LET packet_type == frame.byte0 \div 16
        flags == frame.byte0 % 16
    IN  CASE packet_type = PT_CONNACK -> decode_connack_body(frame.body)
          [] packet_type = PT_SUBACK -> decode_suback_body(frame.body)
          [] packet_type = PT_PUBLISH -> decode_publish_body(flags, frame.body)
          [] packet_type = PT_PUBACK -> decode_puback_body(frame.body)
          [] OTHER -> [type |-> "Other"]
=============================================================================
