------------------------------ MODULE MCCodec ------------------------------
(***************************************************************************)
(* Codec on short packets of every type and on the lengths around every    *)
(* boundary of the Remaining Length field, the largest one and the first   *)
(* that does not fit included.                                             *)
(***************************************************************************)
EXTENDS Codec

Around(n) == (n - 2)..(n + 2)

MCLengths ==
    0..300 \cup Around(16384) \cup Around(2097152) \cup Around(268435456)
           \cup Around(2147483000)

\* one-level strings over 'a', '+', '#', control characters and bytes that
\* are no UTF-8
MCFromUtf8(s) == \A k \in DOMAIN s : s[k] < 128
MCValidFilter(s) ==
    /\ s # <<>>
    /\ Contains(s, Hash) => s = <<Hash>>
    /\ Contains(s, Plus) => s = <<Plus>>

A == <<97>>
Connects(clean) == [type : {"CONNECT"}, clean_session : clean,
                    keep_alive_secs : {60, 256}, client_id : {<<>>, A}]
Subscribes(lists) == [type : {"SUBSCRIBE"}, packet_id : {1}, subscriptions : lists]
Publishes(topics, retain) ==
    {p \in [type : {"PUBLISH"}, topic : topics, payload : {<<>>, A, <<0, 255>>},
            qos : {0, 1}, retain : retain, packet_id : {None, 1, 256}] :
       (p.qos = 0) <=> (p.packet_id = None)}

MCClientPackets ==
    Connects({TRUE}) \cup Publishes({A, <<97, 97>>}, {FALSE})
      \cup Subscribes({<< <<f, 0>> >> : f \in {A, <<Plus>>, <<Hash>>}})
      \cup [type : {"DISCONNECT"}]

MCBenchPackets ==
    [type : {"CONNECT"}, clean_session : {TRUE}, keep_alive_secs : {60}, client_id : {A}]
      \cup Subscribes({<< <<A, 0>> >>})
      \cup {p \in Publishes({A}, {FALSE}) : p.qos = 0}
      \cup [type : {"DISCONNECT"}]

\* the client has no use for UNSUBACK and PINGRESP and is never sent them
MCBrokerPackets ==
    [type : {"CONNACK"}, session_present : BOOLEAN, return_code : 0..5]
      \cup [type : {"SUBACK"}, packet_id : {1, 256}, return_codes : {<<0>>, <<0, 128>>}]
      \cup Publishes({A}, BOOLEAN)
      \cup [type : {"PUBACK"}, packet_id : {1, 256}]

MCOtherPackets ==
    Connects(BOOLEAN)
      \cup Subscribes({<< <<A, 1>> >>, << <<A, 0>>, <<(<<Plus>>), 2>> >>})
      \cup [type : {"UNSUBSCRIBE"}, packet_id : {1}, topic_filters : {<<A>>, <<A, <<Hash>> >>}]
      \cup Publishes({<<>>, A, <<97, Plus>>}, BOOLEAN)
      \cup [type : {"PUBACK"}, packet_id : {1, 256}]
      \cup [type : {"PINGREQ", "PINGRESP", "DISCONNECT"}]
      \cup [type : {"CONNACK"}, session_present : {FALSE}, return_code : {0}]
      \cup [type : {"SUBACK"}, packet_id : {1}, return_codes : {<<0>>}]
      \cup [type : {"UNSUBACK"}, packet_id : {1}]

MCNoise == {0, 1, 2, 3, 4, 6, Hash, Plus, 97, 130, 255}
=============================================================================
