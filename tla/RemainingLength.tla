--------------------------- MODULE RemainingLength ---------------------------
(***************************************************************************)
(* encode_remaining_length and decode_remaining_length (protocol.rs): the  *)
(* variable-length field that frames every packet.  A length is encoded,   *)
(* one byte per step; then some of the bytes have arrived at the reader    *)
(* and are decoded, one byte per step.                                     *)
(***************************************************************************)
EXTENDS Naturals, Sequences

CONSTANT Lengths    \* the lengths that are encoded

ASSUME LengthsAssumption == Lengths \subseteq Nat

VARIABLES
    len,        \* the argument of encode_remaining_length
    x,          \* what is left to encode
    out,        \* the bytes produced so far
    avail,      \* how many of them have arrived when decode is called
    i, value,   \* the variables of decode_remaining_length
    result      \* "encoding", "decoding", or what decode returned

vars == <<len, x, out, avail, i, value, result>>

Byte == 0..255
Results == {"Ok", "Incomplete", "InvalidRemainingLength"}

\* the four-byte field ends here: 128^4
FieldLimit == 268435456

\* 128u32.pow(i)
multiplier == <<1, 128, 16384, 2097152>>[i + 1]

\* Every variable has its type, and the arithmetic of the decoder stays below
\* 128^4, far from the range of its u32: "no overflow possible here".
TypeOK ==
    /\ len \in Nat /\ x \in Nat
    /\ out \in Seq(Byte)
    /\ avail \in Nat /\ avail <= Len(out)
    /\ i \in 0..4 /\ i <= avail
    /\ value \in Nat /\ value < FieldLimit
    /\ result \in {"encoding", "decoding"} \cup Results

Init ==
    /\ len \in Lengths
    /\ x = len
    /\ out = <<>>
    /\ avail = 0
    /\ i = 0
    /\ value = 0
    /\ result = "encoding"

\* one turn of the encoder's loop; when it ends, any number of the bytes may
\* have reached the decoder
EncodeByte ==
    /\ result = "encoding"
    /\ x' = x \div 128
    /\ out' = Append(out, (x % 128) + (IF x' > 0 THEN 128 ELSE 0))
    /\ IF x' > 0
       THEN UNCHANGED <<avail, result>>
       ELSE avail' \in 0..Len(out') /\ result' = "decoding"
    /\ UNCHANGED <<len, i, value>>

\* Mutant of TooLong: a fifth byte is looked for before the limit is checked.
TooLongLate ==
    /\ result = "decoding"
    /\ i >= 4
    /\ result' = IF i >= avail THEN "Incomplete" ELSE "InvalidRemainingLength"
    /\ UNCHANGED <<len, x, out, avail, i, value>>

\* the limit of four bytes is checked first
TooLong ==
    /\ result = "decoding"
    /\ i >= 4
    /\ result' = "InvalidRemainingLength"
    /\ UNCHANGED <<len, x, out, avail, i, value>>

RanOut ==
    /\ result = "decoding"
    /\ i < 4
    /\ i >= avail
    /\ result' = "Incomplete"
    /\ UNCHANGED <<len, x, out, avail, i, value>>

\* Mutant of DecodeByte: the continuation bit is not masked out.
DecodeByteUnmasked ==
    /\ result = "decoding"
    /\ i < 4
    /\ i < avail
    /\ value' = value + out[i + 1] * multiplier
    /\ i' = i + 1
    /\ result' = IF out[i + 1] < 128 THEN "Ok" ELSE "decoding"
    /\ UNCHANGED <<len, x, out, avail>>

DecodeByte ==
    /\ result = "decoding"
    /\ i < 4
    /\ i < avail
    /\ value' = value + (out[i + 1] % 128) * multiplier
    /\ i' = i + 1
    /\ result' = IF out[i + 1] < 128 THEN "Ok" ELSE "decoding"
    /\ UNCHANGED <<len, x, out, avail>>

Next == EncodeByte \/ TooLong \/ RanOut \/ DecodeByte

Spec == Init /\ [][Next]_vars

-----------------------------------------------------------------------------
(* Properties *)

\* Decoding undoes encoding, on any prefix that has arrived so far: the whole
\* field gives back the length and consumes exactly the field; a proper prefix
\* is Incomplete, never an error and never a shorter length; a length that
\* needs a fifth byte is refused as soon as four bytes are there.
DecodesWhatWasEncoded ==
    result \in Results =>
        \/ /\ result = "Ok"
           /\ avail = Len(out) /\ len < FieldLimit
           /\ value = len /\ i = avail
        \/ result = "Incomplete" /\ avail < Len(out) /\ avail < 4
        \/ result = "InvalidRemainingLength" /\ len >= FieldLimit /\ avail >= 4

\* The encoder uses no more bytes than needed: the last byte of a longer field
\* is not zero.
ShortestForm ==
    result # "encoding" /\ Len(out) > 1 => out[Len(out)] > 0
=============================================================================
