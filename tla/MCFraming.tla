----------------------------- MODULE MCFraming -----------------------------
(***************************************************************************)
(* All streams over six bytes up to MaxLen, and longer ones for the length *)
(* field: 192 PINGREQ, 224 DISCONNECT, 64 PUBACK, 130 SUBSCRIBE; as length *)
(* bytes 0, 2, and those of 128 and more with a continuation.              *)
(***************************************************************************)
EXTENDS Framing

CONSTANT MaxLen

MCStream ==
    UNION {[1..n -> {0, 2, 64, 130, 192, 224}] : n \in 0..MaxLen}
      \cup { << 64, 130, 0, 0, 1, 192, 0 >>,              \* two-byte field
             << 64, 130, 128, 128, 0, 1, 1, 192, 0 >>,    \* four-byte field
             << 192, 0, 192, 128, 128, 128, 128, 0 >>,    \* five-byte field
             << 130, 1, 9, 64, 2, 0, 0, 192, 0 >>,        \* PUBACK with id 0
             << 130, 2, 9, 9, 224, 0, 192, 0 >> }

\* the SUBSCRIBE bodies of the instance that are accepted
MCBodyOk(byte0, body) == body # <<>> /\ body[1] # 2
=============================================================================
