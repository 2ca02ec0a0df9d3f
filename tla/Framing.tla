------------------------------- MODULE Framing -------------------------------
(***************************************************************************)
(* How reader_loop (connection.rs) cuts packets out of the byte stream of  *)
(* its client with decode (protocol.rs).  TCP keeps the bytes in order but *)
(* delivers them in chunks of any size; the reader appends each chunk to   *)
(* buf and then decodes from the front of buf until decode says Incomplete.*)
(***************************************************************************)
EXTENDS Naturals, Sequences, SequencesExt

CONSTANTS
    Stream,         \* the byte sequences a client may send
    ChunkSize,      \* the size of read_chunk
    BodyOk(_, _)    \* BodyOk(byte0, body): does the decoder of this packet
                    \* type accept the body (CONNECT, PUBLISH, ...)

Byte == 0..255

ASSUME FramingAssumption ==
    /\ Stream \subseteq Seq(Byte)
    /\ ChunkSize \in Nat \ {0}

Incomplete == [type |-> "Incomplete"]
Malformed == [type |-> "Malformed"]     \* every other ProtocolError

-----------------------------------------------------------------------------
(* decode *)

\* decode_remaining_length: the field ends at its first byte below 128, one of
\* the first four.  The loop that finds it is in RemainingLength.
FieldEnds(b) == {k \in 1..4 : /\ k <= Len(b) /\ b[k] < 128
                              /\ \A j \in 1..(k - 1) : b[j] >= 128}

FieldValue(b, k) ==
    LET digit(j) == IF j <= k THEN b[j] % 128 ELSE 0
    IN  digit(1) + 128 * digit(2) + 16384 * digit(3) + 2097152 * digit(4)

\* Mutant of decode_remaining_length: a field that has not arrived completely
\* is an error.
decode_remaining_length_hasty(b) ==
    IF FieldEnds(b) # {}
    THEN LET k == CHOOSE k \in FieldEnds(b) : TRUE
         IN  [type |-> "Ok", value |-> FieldValue(b, k), bytes |-> k]
    ELSE IF b = <<>> THEN Incomplete ELSE Malformed

decode_remaining_length(b) ==
    IF FieldEnds(b) # {}
    THEN LET k == CHOOSE k \in FieldEnds(b) : TRUE
         IN  [type |-> "Ok", value |-> FieldValue(b, k), bytes |-> k]
    ELSE IF Len(b) >= 4 THEN Malformed ELSE Incomplete

PT_PUBACK == 4
PT_PINGREQ == 12
PT_DISCONNECT == 14
PT_WithBody == {1, 3, 8, 10}    \* CONNECT, PUBLISH, SUBSCRIBE, UNSUBSCRIBE

\* decode_puback: exactly a packet identifier, and not zero
PubackOk(body) == Len(body) = 2 /\ body # <<0, 0>>

\* the match on packet_type: the flags of PUBACK are reserved, PINGREQ and
\* DISCONNECT carry nothing, broker-to-client and unknown types are refused
Accepted(byte0, body) ==
    LET packet_type == byte0 \div 16
        flags == byte0 % 16
    IN  \/ packet_type \in PT_WithBody /\ BodyOk(byte0, body)
        \/ packet_type = PT_PUBACK /\ flags = 0 /\ PubackOk(body)
        \/ packet_type \in {PT_PINGREQ, PT_DISCONNECT} /\ body = <<>>

\* the whole packet is in buf
Arrived(buf, total_len) == Len(buf) >= total_len

\* one packet from the front of buf, and how many bytes it takes
decode(buf) ==
    IF buf = <<>>
    THEN Incomplete
    ELSE LET rl == decode_remaining_length(Tail(buf))
         IN  IF rl.type # "Ok"
             THEN rl
             ELSE LET header_len == 1 + rl.bytes
                      total_len == header_len + rl.value
                      body == SubSeq(buf, header_len + 1, total_len)
                  IN  IF ~ Arrived(buf, total_len)
                      THEN Incomplete
                      ELSE IF Accepted(buf[1], body)
                           THEN [type |-> "Ok", packet |-> <<buf[1], body>>,
                                 consumed |-> total_len]
                           ELSE Malformed

-----------------------------------------------------------------------------
(* reader_loop *)

VARIABLES
    stream,         \* what the client sends, start to end
    received,       \* how many bytes of it have been read
    drained,        \* how many of those have been drained from buf
    buf,
    dispatched,     \* the packets passed to dispatch_packet
    state           \* "read", "drain", or why reader_loop returned

vars == <<stream, received, drained, buf, dispatched, state>>

\* why reader_loop ends
Ends == {"end of stream", "DISCONNECT", "protocol error"}

\* Every variable has its type, and buf never gives up more than it received.
TypeOK ==
    /\ stream \in Stream
    /\ received \in 0..Len(stream)
    /\ drained \in 0..received
    /\ buf \in Seq(Byte)
    /\ dispatched \in Seq(Byte \X Seq(Byte))
    /\ state \in {"read", "drain"} \cup Ends

Init ==
    /\ stream \in Stream
    /\ received = 0
    /\ drained = 0
    /\ buf = <<>>
    /\ dispatched = <<>>
    /\ state = "read"

\* Mutant of ReadChunk: the whole read_chunk is appended, not the n bytes read.
ReadChunkWhole(n) ==
    /\ state = "read"
    /\ n \in 1..ChunkSize
    /\ received + n <= Len(stream)
    /\ received' = received + n
    /\ buf' = buf \o SubSeq(stream, received + 1, received + n)
                  \o [k \in 1..(ChunkSize - n) |-> 0]
    /\ state' = "drain"
    /\ UNCHANGED <<stream, drained, dispatched>>

\* stream.read returns n bytes
ReadChunk(n) ==
    /\ state = "read"
    /\ n \in 1..ChunkSize
    /\ received + n <= Len(stream)
    /\ received' = received + n
    /\ buf' = buf \o SubSeq(stream, received + 1, received + n)
    /\ state' = "drain"
    /\ UNCHANGED <<stream, drained, dispatched>>

\* Ok(0), or a read error, which may come before the stream is complete
ReadEnd ==
    /\ state = "read"
    /\ state' = "end of stream"
    /\ UNCHANGED <<stream, received, drained, buf, dispatched>>

\* Mutant of Drained: the buffer is cleared.
DrainedAll(b, consumed) == <<>>

\* buf.drain(..consumed)
Drained(b, consumed) == SubSeq(b, consumed + 1, Len(b))

\* Mutant of Dispatch: one packet per read instead of all that are there.
DispatchOne ==
    /\ state = "drain"
    /\ LET d == decode(buf)
       IN  /\ d.type = "Ok"
           /\ buf' = Drained(buf, d.consumed)
           /\ drained' = drained + d.consumed
           /\ dispatched' = Append(dispatched, d.packet)
           /\ state' = IF d.packet[1] \div 16 = PT_DISCONNECT
                       THEN "DISCONNECT" ELSE "read"
    /\ UNCHANGED <<stream, received>>

\* a complete packet is drained and dispatched; DISCONNECT ends the loop with
\* the rest of buf undecoded
Dispatch ==
    /\ state = "drain"
    /\ LET d == decode(buf)
       IN  /\ d.type = "Ok"
           /\ buf' = Drained(buf, d.consumed)
           /\ drained' = drained + d.consumed
           /\ dispatched' = Append(dispatched, d.packet)
           /\ state' = IF d.packet[1] \div 16 = PT_DISCONNECT
                       THEN "DISCONNECT" ELSE "drain"
    /\ UNCHANGED <<stream, received>>

WaitForMore ==
    /\ state = "drain"
    /\ decode(buf) = Incomplete
    /\ state' = "read"
    /\ UNCHANGED <<stream, received, drained, buf, dispatched>>

Reject ==
    /\ state = "drain"
    /\ decode(buf) = Malformed
    /\ state' = "protocol error"
    /\ UNCHANGED <<stream, received, drained, buf, dispatched>>

Next ==
    \/ \E n \in 1..ChunkSize : ReadChunk(n)
    \/ ReadEnd
    \/ Dispatch
    \/ WaitForMore
    \/ Reject

Spec == Init /\ [][Next]_vars

-----------------------------------------------------------------------------
(* Properties *)

\* what decode says of s from its byte p + 1 on
DecodeAt(s) == [p \in 0..Len(s) |-> decode(SubSeq(s, p + 1, Len(s)))]

\* The packets of s from its byte p + 1 on, when all of s is there at once: they
\* follow each other without a gap, up to a DISCONNECT, an error or an
\* incomplete rest.
PacketsFrom(s) ==
    LET d == DecodeAt(s)
        from[p \in 0..Len(s)] ==
            IF d[p].type # "Ok" THEN <<>>
            ELSE IF d[p].packet[1] \div 16 = PT_DISCONNECT THEN << d[p].packet >>
            ELSE << d[p].packet >> \o from[p + d[p].consumed]
    IN  from

OneShot(s) == PacketsFrom(s)[0]

\* However the stream is cut into chunks, the reader dispatches a prefix of
\* the packets that the uncut stream holds: no packet is split, merged, lost in
\* between or dispatched twice.
ChunkingIrrelevant == IsPrefix(dispatched, OneShot(stream))

\* The reader blocks in read, or finds the connection closed, only when every
\* packet that has arrived completely is dispatched: a client that waits for
\* the answer to its last packet is not kept waiting for bytes it will not send.
NothingStranded ==
    state \in {"read", "end of stream"} =>
        dispatched = OneShot(SubSeq(stream, 1, received))

\* A connection is torn down for a protocol error only if the bytes at that
\* place are malformed whatever follows them; a packet that merely has not
\* arrived yet is never taken for a malformed one.
ErrorsAreFinal ==
    state = "protocol error" =>
        decode(SubSeq(stream, drained + 1, Len(stream))) = Malformed
=============================================================================
