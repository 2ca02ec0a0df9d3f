---------------------------- MODULE FramingProofs ----------------------------
(***************************************************************************)
(* reader_loop cuts the same packets out of a stream however it arrives,   *)
(* for all streams, all sizes of read_chunk and whatever the decoders of   *)
(* the packet bodies accept.                                               *)
(*                                                                         *)
(* The argument: what decode says of a buffer, unless it says Incomplete,  *)
(* it says of every longer one (DecodeStable), so what reader_loop sees at *)
(* the front of buf is what a reader of the whole stream would see there.  *)
(***************************************************************************)
EXTENDS Framing, SequenceTheorems, WellFoundedInduction, TLAPS

PacketType == Byte \X Seq(Byte)

\* b is what has arrived of c so far.
PrefixOf(b, c) == Len(b) <= Len(c) /\ \A k \in 1..Len(b) : b[k] = c[k]

-----------------------------------------------------------------------------
(* decode *)

LEMMA LowOrHigh == ASSUME NEW x \in Byte PROVE ~ (x < 128 /\ x >= 128)
BY DEF Byte

LEMMA FieldEndUnique ==
    ASSUME NEW b \in Seq(Byte), NEW k \in FieldEnds(b)
    PROVE  FieldEnds(b) = {k} /\ k \in 1..4 /\ k <= Len(b)
<1>1. k \in 1..4 /\ k <= Len(b) /\ b[k] < 128 /\ \A j \in 1..(k - 1) : b[j] >= 128
    BY DEF FieldEnds
<1>2. ASSUME NEW m \in FieldEnds(b) PROVE m = k
    <2>1. m \in 1..4 /\ m <= Len(b) /\ b[m] < 128 /\ \A j \in 1..(m - 1) : b[j] >= 128
        BY DEF FieldEnds
    <2>2. b[m] \in Byte /\ b[k] \in Byte
        BY <1>1, <2>1
    <2>3. ASSUME m < k PROVE FALSE
        <3>1. m \in 1..(k - 1)
            BY <1>1, <2>1, <2>3
        <3>2. b[m] >= 128
            BY <1>1, <3>1
        <3>3. b[m] < 128
            BY <2>1
        <3>4. QED
            BY <2>2, <3>2, <3>3, LowOrHigh
    <2>4. ASSUME k < m PROVE FALSE
        <3>1. k \in 1..(m - 1)
            BY <1>1, <2>1, <2>4
        <3>2. b[k] >= 128
            BY <2>1, <3>1
        <3>3. b[k] < 128
            BY <1>1
        <3>4. QED
            BY <2>2, <3>2, <3>3, LowOrHigh
    <2>5. QED
        BY <1>1, <2>1, <2>3, <2>4
<1>3. QED
    BY <1>1, <1>2

\* What has arrived decides the length field, or it is too short to.
LEMMA FieldStable ==
    ASSUME NEW b \in Seq(Byte), NEW c \in Seq(Byte), PrefixOf(b, c),
           FieldEnds(b) # {} \/ Len(b) >= 4
    PROVE  FieldEnds(c) = FieldEnds(b)
<1>1. \A k \in 1..Len(b) : b[k] = c[k]
    BY DEF PrefixOf
<1>2. Len(b) <= Len(c) /\ Len(b) \in Nat /\ Len(c) \in Nat
    BY DEF PrefixOf
<1>3. FieldEnds(b) \subseteq FieldEnds(c)
    <2>1. SUFFICES ASSUME NEW k \in FieldEnds(b) PROVE k \in FieldEnds(c)
        OBVIOUS
    <2>2. QED
        BY <1>1, <1>2 DEF FieldEnds
<1>4. CASE FieldEnds(b) # {}
    <2>1. PICK k : k \in FieldEnds(b)
        BY <1>4
    <2>2. FieldEnds(b) = {k}
        BY <2>1, FieldEndUnique
    <2>3. FieldEnds(c) = {k}
        BY <2>1, <1>3, FieldEndUnique
    <2>4. QED
        BY <2>2, <2>3
<1>5. CASE Len(b) >= 4
    <2>1. FieldEnds(c) \subseteq FieldEnds(b)
        <3>1. SUFFICES ASSUME NEW k \in FieldEnds(c) PROVE k \in FieldEnds(b)
            OBVIOUS
        <3>2. QED
            BY <1>1, <1>2, <1>5 DEF FieldEnds
    <2>2. QED
        BY <2>1, <1>3
<1>6. QED
    BY <1>4, <1>5

LEMMA DigitType == ASSUME NEW x \in Byte PROVE x % 128 \in Nat
BY SMT DEF Byte

\* Concatenation is associative, with the equation kept folded for the provers.
Regroups(a, b, c) == (a \o b) \o c = a \o (b \o c)

LEMMA Regroup ==
    ASSUME NEW a \in Seq(PacketType), NEW b \in Seq(PacketType), NEW c \in Seq(PacketType)
    PROVE  Regroups(a, b, c)
BY SMT DEF Regroups

LEMMA WeightedType ==
    ASSUME NEW a \in Nat, NEW b \in Nat, NEW c \in Nat, NEW d \in Nat
    PROVE  a + 128 * b + 16384 * c + 2097152 * d \in Nat
BY SMT

LEMMA FieldValueType ==
    ASSUME NEW b \in Seq(Byte), NEW k \in 1..4, k <= Len(b)
    PROVE  FieldValue(b, k) \in Nat
<1> DEFINE digit(j) == IF j <= k THEN b[j] % 128 ELSE 0
<1>1. ASSUME NEW j \in 1..4, j <= k PROVE b[j] % 128 \in Nat
    <2>1. b[j] \in Byte
        BY <1>1
    <2>2. QED
        BY <2>1, DigitType
<1>2. ASSUME NEW j \in 1..4 PROVE digit(j) \in Nat
    BY <1>1
<1>3. digit(1) \in Nat /\ digit(2) \in Nat /\ digit(3) \in Nat /\ digit(4) \in Nat
    BY <1>2
<1>4. FieldValue(b, k) = digit(1) + 128 * digit(2) + 16384 * digit(3) + 2097152 * digit(4)
    BY DEF FieldValue
<1>5. QED
    <2> HIDE DEF digit
    <2>1. PICK d1 \in Nat, d2 \in Nat, d3 \in Nat, d4 \in Nat :
                d1 = digit(1) /\ d2 = digit(2) /\ d3 = digit(3) /\ d4 = digit(4)
        BY <1>3
    <2>2. d1 + 128 * d2 + 16384 * d3 + 2097152 * d4 \in Nat
        BY WeightedType
    <2>3. QED
        BY <1>4, <2>1, <2>2

LEMMA FieldValueStable ==
    ASSUME NEW b \in Seq(Byte), NEW c \in Seq(Byte), PrefixOf(b, c),
           NEW k \in 1..4, k <= Len(b)
    PROVE  FieldValue(c, k) = FieldValue(b, k)
<1>1. \A j \in 1..4 : j <= k => b[j] = c[j]
    BY DEF PrefixOf
<1>2. QED
    BY <1>1 DEF FieldValue

\* The length field: its result is one of three, and a result other than
\* Incomplete stays when more arrives.
LEMMA LengthType ==
    ASSUME NEW b \in Seq(Byte)
    PROVE  \/ decode_remaining_length(b) = Incomplete
           \/ decode_remaining_length(b) = Malformed
           \/ \E k \in 1..4, v \in Nat :
                k <= Len(b) /\ decode_remaining_length(b) = [type |-> "Ok", value |-> v, bytes |-> k]
<1>1. CASE FieldEnds(b) = {}
    BY <1>1 DEF decode_remaining_length
<1>2. CASE FieldEnds(b) # {}
    <2>1. PICK k : k = (CHOOSE j \in FieldEnds(b) : TRUE)
        OBVIOUS
    <2>2. k \in FieldEnds(b)
        BY <1>2, <2>1
    <2>3. k \in 1..4 /\ k <= Len(b)
        BY <2>2, FieldEndUnique
    <2>4. decode_remaining_length(b) = [type |-> "Ok", value |-> FieldValue(b, k), bytes |-> k]
        BY <1>2, <2>1 DEF decode_remaining_length
    <2>5. QED
        BY <2>3, <2>4, FieldValueType
<1>3. QED
    BY <1>1, <1>2

LEMMA LengthStable ==
    ASSUME NEW b \in Seq(Byte), NEW c \in Seq(Byte), PrefixOf(b, c),
           decode_remaining_length(b) # Incomplete
    PROVE  decode_remaining_length(c) = decode_remaining_length(b)
<1>1. FieldEnds(b) # {} \/ Len(b) >= 4
    BY DEF decode_remaining_length
<1>2. FieldEnds(c) = FieldEnds(b)
    BY <1>1, FieldStable
<1>3. CASE FieldEnds(b) = {}
    <2>1. Len(c) >= 4 /\ Len(b) >= 4
        BY <1>1, <1>3 DEF PrefixOf
    <2>2. QED
        BY <1>2, <1>3, <2>1 DEF decode_remaining_length
<1>4. CASE FieldEnds(b) # {}
    <2>1. PICK k : k = (CHOOSE j \in FieldEnds(b) : TRUE)
        OBVIOUS
    <2>2. k \in FieldEnds(b)
        BY <1>4, <2>1
    <2>3. k \in 1..4 /\ k <= Len(b)
        BY <2>2, FieldEndUnique
    <2>4. FieldValue(c, k) = FieldValue(b, k)
        BY <2>3, FieldValueStable
    <2>5. decode_remaining_length(b) = [type |-> "Ok", value |-> FieldValue(b, k), bytes |-> k]
        BY <1>4, <2>1 DEF decode_remaining_length
    <2>6. decode_remaining_length(c) = [type |-> "Ok", value |-> FieldValue(c, k), bytes |-> k]
        BY <1>2, <1>4, <2>1 DEF decode_remaining_length
    <2>7. QED
        BY <2>4, <2>5, <2>6
<1>5. QED
    BY <1>3, <1>4

\* The bytes of s after the a-th and up to the b-th.
LEMMA Part ==
    ASSUME NEW s \in Seq(Byte), NEW a \in Nat, NEW b \in Nat, a <= b, b <= Len(s)
    PROVE  /\ SubSeq(s, a + 1, b) \in Seq(Byte)
           /\ Len(SubSeq(s, a + 1, b)) = b - a
           /\ \A i \in 1..(b - a) : SubSeq(s, a + 1, b)[i] = s[a + i]
<1>1. a + 1 \in Int /\ b \in Int /\ b - (a + 1) + 1 = b - a
    OBVIOUS
<1>2. \A i \in (a + 1)..b : s[i] \in Byte
    OBVIOUS
<1>3. /\ SubSeq(s, a + 1, b) \in Seq(Byte)
      /\ Len(SubSeq(s, a + 1, b)) = IF a + 1 <= b THEN b - (a + 1) + 1 ELSE 0
      /\ \A i \in 1..(b - (a + 1) + 1) : SubSeq(s, a + 1, b)[i] = s[(a + 1) + i - 1]
    BY <1>1, <1>2, SubSeqProperties
<1>4. Len(SubSeq(s, a + 1, b)) = b - a
    BY <1>3
<1>5. \A i \in 1..(b - a) : s[(a + 1) + i - 1] = s[a + i]
    <2>1. \A i \in 1..(b - a) : (a + 1) + i - 1 = a + i
        OBVIOUS
    <2>2. QED
        BY <2>1
<1>6. QED
    BY <1>1, <1>3, <1>4, <1>5

LEMMA PartOfPrefix ==
    ASSUME NEW b \in Seq(Byte), NEW c \in Seq(Byte), PrefixOf(b, c),
           NEW m \in Nat, NEW n \in Nat, m <= n, n <= Len(b)
    PROVE  SubSeq(c, m + 1, n) = SubSeq(b, m + 1, n)
<1>1. n <= Len(c) /\ \A k \in 1..Len(b) : b[k] = c[k]
    BY DEF PrefixOf
<1>2. /\ SubSeq(b, m + 1, n) \in Seq(Byte)
      /\ Len(SubSeq(b, m + 1, n)) = n - m
      /\ \A i \in 1..(n - m) : SubSeq(b, m + 1, n)[i] = b[m + i]
    BY Part
<1>3. /\ SubSeq(c, m + 1, n) \in Seq(Byte)
      /\ Len(SubSeq(c, m + 1, n)) = n - m
      /\ \A i \in 1..(n - m) : SubSeq(c, m + 1, n)[i] = c[m + i]
    BY <1>1, Part
<1>4. \A i \in 1..(n - m) : b[m + i] = c[m + i]
    BY <1>1
<1>5. QED
    BY <1>2, <1>3, <1>4, SeqEqual

\* A packet that is not empty: what decode says of b, once the length field is
\* there.
LEMMA DecodeWithLength ==
    ASSUME NEW b \in Seq(Byte), b # <<>>, NEW k \in 1..4, NEW v \in Nat,
           decode_remaining_length(Tail(b)) = [type |-> "Ok", value |-> v, bytes |-> k]
    PROVE  decode(b) =
             IF Len(b) < 1 + k + v
             THEN Incomplete
             ELSE IF Accepted(b[1], SubSeq(b, 1 + k + 1, 1 + k + v))
             THEN [type |-> "Ok", packet |-> <<b[1], SubSeq(b, 1 + k + 1, 1 + k + v)>>,
                   consumed |-> 1 + k + v]
             ELSE Malformed
<1>1. decode_remaining_length(Tail(b)).type = "Ok"
    OBVIOUS
<1>2. decode_remaining_length(Tail(b)).bytes = k
    OBVIOUS
<1>3. decode_remaining_length(Tail(b)).value = v
    OBVIOUS
<1>4. Arrived(b, 1 + k + v) <=> ~ (Len(b) < 1 + k + v)
    BY DEF Arrived
<1>5. QED
    BY <1>1, <1>2, <1>3, <1>4 DEF decode

LEMMA DecodeType ==
    ASSUME NEW b \in Seq(Byte)
    PROVE  \/ decode(b) = Incomplete
           \/ decode(b) = Malformed
           \/ \E p \in PacketType, n \in Nat :
                /\ 2 <= n /\ n <= Len(b)
                /\ decode(b) = [type |-> "Ok", packet |-> p, consumed |-> n]
<1>1. CASE b = <<>>
    BY <1>1 DEF decode
<1>2. CASE b # <<>>
    <2>1. Tail(b) \in Seq(Byte) /\ Len(b) \in Nat /\ Len(b) > 0 /\ b[1] \in Byte
        BY <1>2
    <2>2. CASE decode_remaining_length(Tail(b)) \in {Incomplete, Malformed}
        BY <1>2, <2>2 DEF decode, Incomplete, Malformed
    <2>3. ASSUME NEW k \in 1..4, NEW v \in Nat,
                 decode_remaining_length(Tail(b)) = [type |-> "Ok", value |-> v, bytes |-> k],
                 decode(b) # Incomplete, decode(b) # Malformed
          PROVE  \E p \in PacketType, n \in Nat :
                   /\ 2 <= n /\ n <= Len(b)
                   /\ decode(b) = [type |-> "Ok", packet |-> p, consumed |-> n]
        <3>1. ~ (Len(b) < 1 + k + v)
            BY <1>2, <2>3, DecodeWithLength
        <3>2. decode(b) = [type |-> "Ok", packet |-> <<b[1], SubSeq(b, 1 + k + 1, 1 + k + v)>>,
                           consumed |-> 1 + k + v]
            BY <1>2, <2>3, DecodeWithLength
        <3>3. 1 + k \in Nat /\ 1 + k + v \in Nat /\ 1 + k <= 1 + k + v /\ 1 + k + v <= Len(b)
              /\ 2 <= 1 + k + v
            BY <2>1, <3>1
        <3>4. SubSeq(b, 1 + k + 1, 1 + k + v) \in Seq(Byte)
            BY <3>3, Part
        <3>5. <<b[1], SubSeq(b, 1 + k + 1, 1 + k + v)>> \in PacketType
            BY <2>1, <3>4 DEF PacketType
        <3>6. QED
            BY <3>2, <3>3, <3>5
    <2>4. QED
        BY <2>1, <2>2, <2>3, LengthType
<1>3. QED
    BY <1>1, <1>2

\* What decode says of a buffer it says of every longer one, unless it says
\* Incomplete.
LEMMA DecodeStable ==
    ASSUME NEW b \in Seq(Byte), NEW c \in Seq(Byte), PrefixOf(b, c),
           decode(b) # Incomplete
    PROVE  decode(c) = decode(b)
<1>1. b # <<>> /\ c # <<>>
    <2>1. b # <<>>
        BY DEF decode
    <2>2. QED
        BY <2>1 DEF PrefixOf
<1>2. /\ Tail(b) \in Seq(Byte) /\ Len(Tail(b)) = Len(b) - 1
      /\ \A i \in 1..Len(Tail(b)) : Tail(b)[i] = b[i + 1]
      /\ Tail(c) \in Seq(Byte) /\ Len(Tail(c)) = Len(c) - 1
      /\ \A i \in 1..Len(Tail(c)) : Tail(c)[i] = c[i + 1]
    BY <1>1, HeadTailProperties
<1>3. PrefixOf(Tail(b), Tail(c))
    <2>1. Len(b) <= Len(c) /\ \A k \in 1..Len(b) : b[k] = c[k]
        BY DEF PrefixOf
    <2>2. QED
        BY <1>2, <2>1 DEF PrefixOf
<1>4. decode_remaining_length(Tail(b)) # Incomplete
    BY <1>1 DEF decode, Incomplete
<1>5. decode_remaining_length(Tail(c)) = decode_remaining_length(Tail(b))
    BY <1>2, <1>3, <1>4, LengthStable
<1>6. CASE decode_remaining_length(Tail(b)) = Malformed
    BY <1>1, <1>5, <1>6 DEF decode, Malformed
<1>7. ASSUME NEW k \in 1..4, NEW v \in Nat,
             decode_remaining_length(Tail(b)) = [type |-> "Ok", value |-> v, bytes |-> k]
      PROVE  decode(c) = decode(b)
    <2>1. ~ (Len(b) < 1 + k + v)
        BY <1>1, <1>7, DecodeWithLength
    <2>2. Len(b) <= Len(c) /\ b[1] = c[1]
        BY <1>1 DEF PrefixOf
    <2>3. ~ (Len(c) < 1 + k + v)
        BY <2>1, <2>2
    <2>4. 1 + k \in Nat /\ 1 + k + v \in Nat /\ 1 + k <= 1 + k + v /\ 1 + k + v <= Len(b)
        BY <2>1
    <2>5. SubSeq(c, 1 + k + 1, 1 + k + v) = SubSeq(b, 1 + k + 1, 1 + k + v)
        BY <2>4, PartOfPrefix
    <2>6. decode(b) = IF Accepted(b[1], SubSeq(b, 1 + k + 1, 1 + k + v))
                      THEN [type |-> "Ok", packet |-> <<b[1], SubSeq(b, 1 + k + 1, 1 + k + v)>>,
                            consumed |-> 1 + k + v]
                      ELSE Malformed
        BY <1>1, <1>7, <2>1, DecodeWithLength
    <2>7. decode(c) = IF Accepted(c[1], SubSeq(c, 1 + k + 1, 1 + k + v))
                      THEN [type |-> "Ok", packet |-> <<c[1], SubSeq(c, 1 + k + 1, 1 + k + v)>>,
                            consumed |-> 1 + k + v]
                      ELSE Malformed
        BY <1>1, <1>5, <1>7, <2>3, DecodeWithLength
    <2>8. QED
        BY <2>2, <2>5, <2>6, <2>7
<1>8. QED
    BY <1>2, <1>4, <1>6, <1>7, LengthType

-----------------------------------------------------------------------------
(* The packets of a stream that is there at once *)

LEMMA LeastNatural ==
    ASSUME NEW T, T \subseteq Nat, T # {}
    PROVE  \E x \in T : \A y \in T : ~ (y < x)
<1>1. IsWellFoundedOn(OpToRel(<, Nat), Nat)
    BY NatLessThanWellFounded
<1>2. PICK x \in T : \A y \in T : ~ (<<y, x>> \in OpToRel(<, Nat))
    BY <1>1, WFMin
<1>3. \A y \in T : ~ (y < x)
    BY <1>2 DEF OpToRel
<1>4. QED
    BY <1>3

\* One turn of the definition of PacketsFrom.
Unfold(s, g, p) ==
    IF DecodeAt(s)[p].type # "Ok" THEN <<>>
    ELSE IF DecodeAt(s)[p].packet[1] \div 16 = PT_DISCONNECT THEN << DecodeAt(s)[p].packet >>
    ELSE << DecodeAt(s)[p].packet >> \o g[p + DecodeAt(s)[p].consumed]

\* g is what PacketsFrom(s) is meant to be, from the byte after the a-th on.
SolvesFrom(s, a, g) == g = [p \in a..Len(s) |-> Unfold(s, g, p)]

LEMMA PacketsFromIsChosen ==
    ASSUME NEW s
    PROVE  PacketsFrom(s) = CHOOSE g : SolvesFrom(s, 0, g)
BY Zenon DEF PacketsFrom, SolvesFrom, Unfold

\* decode moves on, and stays within the stream.
LEMMA DecodeAtType ==
    ASSUME NEW s \in Seq(Byte), NEW p \in 0..Len(s)
    PROVE  /\ DecodeAt(s)[p] = decode(SubSeq(s, p + 1, Len(s)))
           /\ DecodeAt(s)[p].type = "Ok" =>
                /\ DecodeAt(s)[p].packet \in PacketType
                /\ DecodeAt(s)[p].consumed \in Nat
                /\ 2 <= DecodeAt(s)[p].consumed
                /\ p + DecodeAt(s)[p].consumed <= Len(s)
<1>1. DecodeAt(s)[p] = decode(SubSeq(s, p + 1, Len(s)))
    BY DEF DecodeAt
<1>2. /\ SubSeq(s, p + 1, Len(s)) \in Seq(Byte)
      /\ Len(SubSeq(s, p + 1, Len(s))) = Len(s) - p
    BY Part
<1>3. PICK b \in Seq(Byte) : b = SubSeq(s, p + 1, Len(s))
    BY <1>2
<1>4. ASSUME decode(b).type = "Ok"
      PROVE  /\ decode(b).packet \in PacketType
             /\ decode(b).consumed \in Nat
             /\ 2 <= decode(b).consumed
             /\ decode(b).consumed <= Len(b)
    <2>1. decode(b) # Incomplete /\ decode(b) # Malformed
        BY <1>4 DEF Incomplete, Malformed
    <2>2. PICK q \in PacketType, n \in Nat :
            /\ 2 <= n /\ n <= Len(b)
            /\ decode(b) = [type |-> "Ok", packet |-> q, consumed |-> n]
        BY <2>1, DecodeType
    <2>3. decode(b).packet = q /\ decode(b).consumed = n
        BY <2>2
    <2>4. QED
        BY <2>2, <2>3
<1>5. Len(b) = Len(s) - p
    BY <1>2, <1>3
<1>6. QED
    BY <1>1, <1>3, <1>4, <1>5

\* A turn looks only further on.
LEMMA UnfoldLocal ==
    ASSUME NEW s \in Seq(Byte), NEW p \in 0..Len(s), NEW g, NEW h,
           \A r \in (p + 1)..Len(s) : g[r] = h[r]
    PROVE  Unfold(s, g, p) = Unfold(s, h, p)
<1>1. CASE DecodeAt(s)[p].type # "Ok"
    BY <1>1 DEF Unfold
<1>2. CASE DecodeAt(s)[p].type = "Ok"
    <2>1. /\ DecodeAt(s)[p].consumed \in Nat
          /\ 2 <= DecodeAt(s)[p].consumed
          /\ p + DecodeAt(s)[p].consumed <= Len(s)
        BY <1>2, DecodeAtType
    <2>2. p + DecodeAt(s)[p].consumed \in (p + 1)..Len(s)
        BY <2>1
    <2>3. g[p + DecodeAt(s)[p].consumed] = h[p + DecodeAt(s)[p].consumed]
        BY <2>2
    <2>4. QED
        BY <2>3 DEF Unfold
<1>3. QED
    BY <1>1, <1>2

\* From the end of s towards its start, the definition can be solved.
LEMMA SolutionStep ==
    ASSUME NEW s \in Seq(Byte), NEW a \in 0..Len(s),
           a = Len(s) \/ \E g : SolvesFrom(s, a + 1, g)
    PROVE  \E h : SolvesFrom(s, a, h)
<1>1. PICK g : a = Len(s) \/ SolvesFrom(s, a + 1, g)
    OBVIOUS
<1> DEFINE h == [p \in a..Len(s) |-> IF p = a THEN Unfold(s, g, p) ELSE g[p]]
<1>2. \A r \in (a + 1)..Len(s) : h[r] = g[r]
    OBVIOUS
<1>3. ASSUME NEW p \in a..Len(s) PROVE h[p] = Unfold(s, h, p)
    <2>1. p \in 0..Len(s) /\ \A r \in (p + 1)..Len(s) : r \in (a + 1)..Len(s)
        OBVIOUS
    <2>2. \A r \in (p + 1)..Len(s) : h[r] = g[r]
        BY <1>2, <2>1
    <2>3. Unfold(s, h, p) = Unfold(s, g, p)
        <3> HIDE DEF h
        <3>1. QED
            BY <2>1, <2>2, UnfoldLocal
    <2>4. CASE p = a
        BY <2>3, <2>4
    <2>5. CASE p # a
        <3>1. p \in (a + 1)..Len(s) /\ a # Len(s)
            BY <2>5
        <3>2. g = [r \in (a + 1)..Len(s) |-> Unfold(s, g, r)]
            BY <1>1, <3>1 DEF SolvesFrom
        <3>3. g[p] = Unfold(s, g, p)
            BY <3>1, <3>2
        <3>4. QED
            BY <1>2, <2>3, <3>1, <3>3
    <2>6. QED
        BY <2>4, <2>5
<1>4. h = [p \in a..Len(s) |-> h[p]]
    OBVIOUS
<1>5. SolvesFrom(s, a, h)
    <2> HIDE DEF h
    <2>1. [p \in a..Len(s) |-> h[p]] = [p \in a..Len(s) |-> Unfold(s, h, p)]
        BY <1>3
    <2>2. QED
        BY <1>4, <2>1 DEF SolvesFrom
<1>6. QED
    BY <1>5

LEMMA SolutionExists ==
    ASSUME NEW s \in Seq(Byte)
    PROVE  \E g : SolvesFrom(s, 0, g)
<1> DEFINE T == {k \in 0..Len(s) : ~ \E g : SolvesFrom(s, Len(s) - k, g)}
<1>1. Len(s) \in Nat
    OBVIOUS
<1>2. T = {}
    <2>1. SUFFICES ASSUME T # {} PROVE FALSE
        OBVIOUS
    <2>2. T \subseteq Nat
        BY <1>1
    <2>3. PICK x \in T : \A y \in T : ~ (y < x)
        <3> HIDE DEF T
        <3>1. QED
            BY <2>1, <2>2, LeastNatural
    <2>4. x \in 0..Len(s) /\ ~ \E g : SolvesFrom(s, Len(s) - x, g)
        OBVIOUS
    <2>5. CASE x = 0
        <3>1. Len(s) - x = Len(s) /\ Len(s) \in 0..Len(s)
            BY <1>1, <2>5
        <3>2. \E g : SolvesFrom(s, Len(s), g)
            BY <3>1, SolutionStep
        <3>3. QED
            BY <2>4, <3>1, <3>2
    <2>6. CASE x # 0
        <3>1. /\ x - 1 \in 0..Len(s) /\ x - 1 < x
              /\ Len(s) - x \in 0..Len(s) /\ Len(s) - (x - 1) = (Len(s) - x) + 1
            BY <1>1, <2>4, <2>6
        <3>2. x - 1 \notin T
            BY <2>3, <3>1
        <3>3. \E g : SolvesFrom(s, Len(s) - (x - 1), g)
            BY <3>1, <3>2
        <3>4. PICK a \in 0..Len(s) : a = Len(s) - x
            BY <3>1
        <3>5. \E g : SolvesFrom(s, a + 1, g)
            BY <3>1, <3>3, <3>4
        <3>6. \E g : SolvesFrom(s, a, g)
            BY <3>5, SolutionStep
        <3>7. QED
            BY <2>4, <3>4, <3>6
    <2>7. QED
        BY <2>5, <2>6
<1>3. Len(s) \in 0..Len(s) /\ Len(s) - Len(s) = 0
    BY <1>1
<1>4. Len(s) \notin T
    BY <1>2
<1>5. \E g : SolvesFrom(s, Len(s) - Len(s), g)
    BY <1>3, <1>4
<1>6. QED
    BY <1>3, <1>5

\* PacketsFrom satisfies its definition.
LEMMA PacketsFromTurn ==
    ASSUME NEW s \in Seq(Byte), NEW p \in 0..Len(s)
    PROVE  PacketsFrom(s)[p] = Unfold(s, PacketsFrom(s), p)
<1>1. SolvesFrom(s, 0, CHOOSE g : SolvesFrom(s, 0, g))
    BY SolutionExists, Zenon
<1>2. SolvesFrom(s, 0, PacketsFrom(s))
    BY <1>1, PacketsFromIsChosen, Zenon
<1>3. PICK g : g = PacketsFrom(s)
    OBVIOUS
<1>4. g = [r \in 0..Len(s) |-> Unfold(s, g, r)]
    BY <1>2, <1>3 DEF SolvesFrom
<1>5. g[p] = Unfold(s, g, p)
    BY <1>4
<1>6. QED
    BY <1>3, <1>5

LEMMA UnfoldCases ==
    ASSUME NEW s, NEW g, NEW p
    PROVE  /\ DecodeAt(s)[p].type # "Ok" => Unfold(s, g, p) = <<>>
           /\ DecodeAt(s)[p].type = "Ok" =>
                IF DecodeAt(s)[p].packet[1] \div 16 = PT_DISCONNECT
                THEN Unfold(s, g, p) = << DecodeAt(s)[p].packet >>
                ELSE Unfold(s, g, p) =
                       << DecodeAt(s)[p].packet >> \o g[p + DecodeAt(s)[p].consumed]
BY DEF Unfold

LEMMA PacketsFromType ==
    ASSUME NEW s \in Seq(Byte), NEW p \in 0..Len(s)
    PROVE  PacketsFrom(s)[p] \in Seq(PacketType)
<1> DEFINE T == {k \in 0..Len(s) : PacketsFrom(s)[Len(s) - k] \notin Seq(PacketType)}
<1>1. Len(s) \in Nat
    OBVIOUS
<1>2. T = {}
    <2>1. SUFFICES ASSUME T # {} PROVE FALSE
        OBVIOUS
    <2>2. T \subseteq Nat
        BY <1>1
    <2>3. PICK x \in T : \A y \in T : ~ (y < x)
        <3> HIDE DEF T
        <3>1. QED
            BY <2>1, <2>2, LeastNatural
    <2>4. PICK q \in 0..Len(s) : q = Len(s) - x
        BY <1>1
    <2>5. PacketsFrom(s)[q] \notin Seq(PacketType) /\ x \in 0..Len(s)
        BY <2>4
    <2>6. PacketsFrom(s)[q] = Unfold(s, PacketsFrom(s), q)
        BY PacketsFromTurn
    <2>7. DecodeAt(s)[q].type = "Ok"
        <3>1. <<>> \in Seq(PacketType)
            OBVIOUS
        <3>2. QED
            BY <2>5, <2>6, <3>1, UnfoldCases
    <2>8. /\ DecodeAt(s)[q].packet \in PacketType
          /\ DecodeAt(s)[q].consumed \in Nat
          /\ 2 <= DecodeAt(s)[q].consumed
          /\ q + DecodeAt(s)[q].consumed <= Len(s)
        BY <2>7, DecodeAtType
    <2>9. << DecodeAt(s)[q].packet >> \in Seq(PacketType)
        BY <2>8
    <2>10. /\ PacketsFrom(s)[q] # << DecodeAt(s)[q].packet >>
           /\ PacketsFrom(s)[q] = << DecodeAt(s)[q].packet >>
                                    \o PacketsFrom(s)[q + DecodeAt(s)[q].consumed]
        BY <2>5, <2>6, <2>7, <2>9, UnfoldCases
    <2>11. PICK r \in 0..Len(s) : r = q + DecodeAt(s)[q].consumed
        BY <1>1, <2>8
    <2>12. /\ Len(s) - r \in 0..Len(s) /\ Len(s) - r < x /\ Len(s) - (Len(s) - r) = r
        <3>1. PICK n \in Nat : n = DecodeAt(s)[q].consumed
            BY <2>8
        <3>2. n >= 2 /\ r = q + n
            BY <2>8, <2>11, <3>1
        <3>3. PICK z \in Nat : z = Len(s)
            BY <1>1
        <3>4. r \in 0..z /\ x \in 0..z /\ q = z - x
            BY <2>4, <2>5, <2>11, <3>3
        <3>5. z - r \in 0..z /\ z - r < x /\ z - (z - r) = r
            BY <3>2, <3>4
        <3>6. QED
            BY <3>3, <3>5
    <2>13. Len(s) - r \notin T
        BY <2>3, <2>12
    <2>14. PacketsFrom(s)[r] \in Seq(PacketType)
        BY <2>12, <2>13
    <2>15. PacketsFrom(s)[q] \in Seq(PacketType)
        BY <2>9, <2>10, <2>11, <2>14, ConcatProperties
    <2>16. QED
        BY <2>5, <2>15
<1>3. Len(s) - p \in 0..Len(s) /\ Len(s) - (Len(s) - p) = p
    BY <1>1
<1>4. Len(s) - p \notin T
    BY <1>2
<1>5. QED
    BY <1>3, <1>4

-----------------------------------------------------------------------------
(* reader_loop *)

\* buf is the part of the stream that was received and not drained.
BufIsWindow == buf = SubSeq(stream, drained + 1, received)

\* What the stream holds up to its byte m is what has been dispatched and what
\* is still to be found from drained on; nothing follows a DISCONNECT.
SoFar(m) ==
    LET s == SubSeq(stream, 1, m)
    IN  OneShot(s) = IF state = "DISCONNECT" THEN dispatched
                     ELSE dispatched \o PacketsFrom(s)[drained]

FInv ==
    /\ TypeOK
    /\ BufIsWindow
    /\ \A m \in received..Len(stream) : SoFar(m)
    /\ state \in {"read", "end of stream"} => decode(buf) = Incomplete
    /\ state = "protocol error" => decode(buf) = Malformed

\* A reader of the first m bytes of the stream sees at drained what reader_loop
\* sees at the front of buf, unless buf is too short to tell.
LEMMA SeesTheSame ==
    ASSUME TypeOK, BufIsWindow, NEW m \in received..Len(stream),
           decode(buf) # Incomplete
    PROVE  /\ SubSeq(stream, 1, m) \in Seq(Byte)
           /\ Len(SubSeq(stream, 1, m)) = m
           /\ drained \in 0..m
           /\ DecodeAt(SubSeq(stream, 1, m))[drained] = decode(buf)
<1>1. /\ stream \in Seq(Byte) /\ Len(stream) \in Nat /\ received \in Nat /\ drained \in Nat
      /\ drained <= received /\ received <= Len(stream)
      /\ m \in Nat /\ received <= m /\ m <= Len(stream)
    BY FramingAssumption DEF TypeOK
<1>2. 0 \in Nat /\ 0 <= m /\ 0 + 1 = 1 /\ m - 0 = m
    BY <1>1
<1>3. /\ SubSeq(stream, 0 + 1, m) \in Seq(Byte)
      /\ Len(SubSeq(stream, 0 + 1, m)) = m - 0
      /\ \A i \in 1..(m - 0) : SubSeq(stream, 0 + 1, m)[i] = stream[0 + i]
    BY <1>1, <1>2, Part
<1>4. PICK s \in Seq(Byte) : s = SubSeq(stream, 1, m)
    BY <1>2, <1>3
<1>5. Len(s) = m /\ \A i \in 1..m : s[i] = stream[i]
    <2>1. \A i \in 1..m : 0 + i = i
        BY <1>1
    <2>2. QED
        BY <1>2, <1>3, <1>4, <2>1
<1>6. /\ SubSeq(s, drained + 1, m) \in Seq(Byte)
      /\ Len(SubSeq(s, drained + 1, m)) = m - drained
      /\ \A i \in 1..(m - drained) : SubSeq(s, drained + 1, m)[i] = s[drained + i]
    BY <1>1, <1>5, Part
<1>7. /\ buf \in Seq(Byte)
      /\ Len(buf) = received - drained
      /\ \A i \in 1..(received - drained) : buf[i] = stream[drained + i]
    BY <1>1, Part DEF BufIsWindow
<1>8. PrefixOf(buf, SubSeq(s, drained + 1, m))
    <2>1. Len(buf) <= m - drained
        BY <1>1, <1>7
    <2>2. \A i \in 1..Len(buf) : i \in 1..(m - drained) /\ drained + i \in 1..m
        BY <1>1, <1>7
    <2>3. QED
        BY <1>5, <1>6, <1>7, <2>1, <2>2 DEF PrefixOf
<1>9. decode(SubSeq(s, drained + 1, m)) = decode(buf)
    BY <1>6, <1>7, <1>8, DecodeStable
<1>10. drained \in 0..Len(s)
    BY <1>1, <1>5
<1>11. DecodeAt(s)[drained] = decode(SubSeq(s, drained + 1, Len(s)))
    BY <1>10, DecodeAtType
<1>12. QED
    BY <1>4, <1>5, <1>9, <1>10, <1>11

\* The first m bytes of the stream.
LEMMA StreamPart ==
    ASSUME NEW t \in Seq(Byte), NEW m \in 0..Len(t)
    PROVE  SubSeq(t, 1, m) \in Seq(Byte) /\ Len(SubSeq(t, 1, m)) = m
<1>1. 0 \in Nat /\ m \in Nat /\ 0 <= m /\ m <= Len(t) /\ 0 + 1 = 1 /\ m - 0 = m
    OBVIOUS
<1>2. SubSeq(t, 0 + 1, m) \in Seq(Byte) /\ Len(SubSeq(t, 0 + 1, m)) = m - 0
    BY <1>1, Part
<1>3. QED
    BY <1>1, <1>2

LEMMA ReaderTypes ==
    ASSUME TypeOK
    PROVE  /\ stream \in Seq(Byte) /\ Len(stream) \in Nat
           /\ received \in Nat /\ drained \in Nat
           /\ drained <= received /\ received <= Len(stream)
           /\ buf \in Seq(Byte)
           /\ dispatched \in Seq(PacketType)
<1>1. stream \in Seq(Byte) /\ Len(stream) \in Nat
    BY FramingAssumption DEF TypeOK
<1>2. dispatched \in Seq(PacketType)
    BY Zenon DEF TypeOK, PacketType
<1>3. QED
    BY <1>1, <1>2 DEF TypeOK

LEMMA FInit == Init => FInv
<1> SUFFICES ASSUME Init PROVE FInv
    OBVIOUS
<1>1. stream \in Seq(Byte) /\ Len(stream) \in Nat
    BY FramingAssumption DEF Init
<1>2. TypeOK
    BY <1>1 DEF Init, TypeOK
<1>3. BufIsWindow
    <2>1. SubSeq(stream, 1, 0) = <<>>
        BY SubSeqEmpty
    <2>2. QED
        BY <2>1 DEF Init, BufIsWindow
<1>4. ASSUME NEW m \in received..Len(stream) PROVE SoFar(m)
    <2>1. m \in 0..Len(stream)
        BY <1>1 DEF Init
    <2>2. PICK s \in Seq(Byte) : s = SubSeq(stream, 1, m) /\ Len(s) = m
        BY <1>1, <2>1, StreamPart
    <2>3. PacketsFrom(s)[0] \in Seq(PacketType)
        <3>1. 0 \in 0..Len(s)
            BY <2>2
        <3>2. QED
            BY <3>1, PacketsFromType
    <2>4. <<>> \o PacketsFrom(s)[0] = PacketsFrom(s)[0]
        BY <2>3, ConcatEmptySeq
    <2>5. QED
        BY <2>2, <2>4 DEF SoFar, OneShot, Init
<1>5. decode(buf) = Incomplete
    BY DEF Init, decode
<1>6. QED
    BY <1>2, <1>3, <1>4, <1>5 DEF FInv, Init

LEMMA ReadChunkInv == ASSUME FInv, NEW n \in 1..ChunkSize, ReadChunk(n) PROVE FInv'
<1>1. /\ stream \in Seq(Byte) /\ Len(stream) \in Nat /\ received \in Nat /\ drained \in Nat
      /\ drained <= received /\ n \in Nat /\ received + n <= Len(stream)
    BY FramingAssumption DEF FInv, TypeOK, ReadChunk
<1>2. /\ received' = received + n /\ state = "read" /\ state' = "drain"
      /\ UNCHANGED <<stream, drained, dispatched>>
    BY DEF ReadChunk
<1>3. buf' = SubSeq(stream, drained + 1, received + n)
    <2>1. /\ drained + 1 \in 1..(Len(stream) + 1)
          /\ received \in ((drained + 1) - 1)..Len(stream)
          /\ received + n \in received..Len(stream)
        BY <1>1
    <2>2. SubSeq(stream, drained + 1, received) \o SubSeq(stream, received + 1, received + n)
            = SubSeq(stream, drained + 1, received + n)
        BY <1>1, <2>1, ConcatAdjacentSubSeq
    <2>3. QED
        BY <2>2 DEF ReadChunk, FInv, BufIsWindow
<1>4. buf' \in Seq(Byte)
    <2>1. received + n \in Nat /\ drained <= received + n
        BY <1>1
    <2>2. QED
        BY <1>1, <1>3, <2>1, Part
<1>5. TypeOK'
    BY <1>1, <1>2, <1>4 DEF FInv, TypeOK
<1>6. BufIsWindow'
    BY <1>2, <1>3 DEF BufIsWindow
<1>7. ASSUME NEW m \in received'..Len(stream') PROVE SoFar(m)'
    <2>1. m \in received..Len(stream)
        BY <1>1, <1>2
    <2>2. SoFar(m)
        BY <2>1 DEF FInv
    <2>3. QED
        BY <1>2, <2>2 DEF SoFar
<1>8. QED
    BY <1>2, <1>5, <1>6, <1>7 DEF FInv

LEMMA DispatchInv == ASSUME FInv, Dispatch PROVE FInv'
<1>1. /\ stream \in Seq(Byte) /\ Len(stream) \in Nat /\ received \in Nat /\ drained \in Nat
      /\ drained <= received /\ received <= Len(stream) /\ buf \in Seq(Byte)
      /\ dispatched \in Seq(PacketType)
    BY ReaderTypes DEF FInv
<1>2. decode(buf).type = "Ok" /\ decode(buf) # Incomplete /\ decode(buf) # Malformed
    BY DEF Dispatch, Incomplete, Malformed
<1>3. PICK p \in PacketType, n \in Nat :
        /\ 2 <= n /\ n <= Len(buf)
        /\ decode(buf) = [type |-> "Ok", packet |-> p, consumed |-> n]
    BY <1>1, <1>2, DecodeType
<1>4. decode(buf).packet = p /\ decode(buf).consumed = n
    BY <1>3
<1>5. /\ state = "drain"
      /\ buf' = SubSeq(buf, n + 1, Len(buf))
      /\ drained' = drained + n
      /\ dispatched' = Append(dispatched, p)
      /\ state' = IF p[1] \div 16 = PT_DISCONNECT THEN "DISCONNECT" ELSE "drain"
      /\ UNCHANGED <<stream, received>>
    BY <1>4 DEF Dispatch, Drained
<1>6. /\ Len(buf) = received - drained
      /\ \A i \in 1..(received - drained) : buf[i] = stream[drained + i]
    <2>1. buf = SubSeq(stream, drained + 1, received)
        BY DEF FInv, BufIsWindow
    <2>2. QED
        BY <1>1, <2>1, Part
<1>7. /\ SubSeq(buf, n + 1, Len(buf)) \in Seq(Byte)
      /\ Len(SubSeq(buf, n + 1, Len(buf))) = Len(buf) - n
      /\ \A i \in 1..(Len(buf) - n) : SubSeq(buf, n + 1, Len(buf))[i] = buf[n + i]
    <2>1. buf \in Seq(Byte) /\ n \in Nat /\ Len(buf) \in Nat /\ n <= Len(buf)
        BY <1>1, <1>3
    <2>2. QED
        BY <2>1, Part
<1>8. drained + n \in Nat /\ drained + n <= received
    BY <1>1, <1>3, <1>6
<1>9. /\ SubSeq(stream, (drained + n) + 1, received) \in Seq(Byte)
      /\ Len(SubSeq(stream, (drained + n) + 1, received)) = received - (drained + n)
      /\ \A i \in 1..(received - (drained + n)) :
           SubSeq(stream, (drained + n) + 1, received)[i] = stream[(drained + n) + i]
    BY <1>1, <1>8, Part
<1>10. BufIsWindow'
    <2>1. Len(buf) - n = received - (drained + n)
        BY <1>1, <1>3, <1>6
    <2>2. ASSUME NEW i \in 1..(Len(buf) - n) PROVE buf[n + i] = stream[(drained + n) + i]
        <3>1. n + i \in 1..(received - drained) /\ drained + (n + i) = (drained + n) + i
            <4>1. PICK z \in Nat : z = Len(buf) /\ z = received - drained
                BY <1>3, <1>6
            <4>2. n \in Nat /\ i \in 1..(z - n) /\ drained \in Nat
                BY <1>1, <1>3, <4>1
            <4>3. n + i \in 1..z /\ drained + (n + i) = (drained + n) + i
                BY <4>2
            <4>4. QED
                BY <4>1, <4>3
        <3>2. QED
            BY <1>6, <3>1
    <2>3. SubSeq(buf, n + 1, Len(buf)) = SubSeq(stream, (drained + n) + 1, received)
        <3>1. PICK b \in Seq(Byte) : b = SubSeq(buf, n + 1, Len(buf))
            BY <1>7
        <3>2. PICK c \in Seq(Byte) : c = SubSeq(stream, (drained + n) + 1, received)
            BY <1>9
        <3>3. Len(b) = Len(buf) - n /\ Len(c) = Len(buf) - n
            BY <1>7, <1>9, <2>1, <3>1, <3>2
        <3>4. \A i \in 1..(Len(buf) - n) : b[i] = c[i]
            BY <1>7, <1>9, <2>1, <2>2, <3>1, <3>2
        <3>5. b = c
            BY <3>3, <3>4, SeqEqual
        <3>6. QED
            BY <3>1, <3>2, <3>5
    <2>4. QED
        BY <1>5, <2>3 DEF BufIsWindow
<1>11. TypeOK'
    <2>1. Append(dispatched, p) \in Seq(PacketType)
        BY <1>1
    <2>2. QED
        BY <1>1, <1>5, <1>7, <1>8, <2>1 DEF FInv, TypeOK, PacketType, Ends
<1>12. ASSUME NEW m \in received..Len(stream) PROVE SoFar(m)'
    <2>1. /\ SubSeq(stream, 1, m) \in Seq(Byte)
          /\ Len(SubSeq(stream, 1, m)) = m
          /\ drained \in 0..m
          /\ DecodeAt(SubSeq(stream, 1, m))[drained] = decode(buf)
        BY <1>2, SeesTheSame DEF FInv
    <2>2. PICK s \in Seq(Byte) : s = SubSeq(stream, 1, m)
        BY <2>1
    <2>3. /\ Len(s) = m /\ drained \in 0..Len(s) /\ drained + n \in 0..Len(s)
          /\ DecodeAt(s)[drained] = decode(buf)
        BY <2>1, <2>2, <1>1, <1>8
    <2>4. OneShot(s) = dispatched \o PacketsFrom(s)[drained]
        BY <2>2, <1>5 DEF FInv, SoFar
    <2>5. PacketsFrom(s)[drained] = IF p[1] \div 16 = PT_DISCONNECT
                                    THEN << p >>
                                    ELSE << p >> \o PacketsFrom(s)[drained + n]
        <3>1. PacketsFrom(s)[drained] = Unfold(s, PacketsFrom(s), drained)
            BY <2>3, PacketsFromTurn
        <3>2. DecodeAt(s)[drained].type = "Ok" /\ DecodeAt(s)[drained].packet = p
              /\ DecodeAt(s)[drained].consumed = n
            BY <2>3, <1>2, <1>4
        <3>3. QED
            BY <3>1, <3>2 DEF Unfold
    <2>6. Append(dispatched, p) = dispatched \o << p >>
        BY <1>1, AppendIsConcat
    <2>7. CASE p[1] \div 16 = PT_DISCONNECT
        BY <1>5, <2>2, <2>4, <2>5, <2>6, <2>7 DEF SoFar
    <2>8. CASE p[1] \div 16 # PT_DISCONNECT
        <3>1. PacketsFrom(s)[drained + n] \in Seq(PacketType) /\ << p >> \in Seq(PacketType)
            BY <2>3, PacketsFromType
        <3>2. (dispatched \o << p >>) \o PacketsFrom(s)[drained + n]
                = dispatched \o (<< p >> \o PacketsFrom(s)[drained + n])
            <4>1. dispatched \in Seq(PacketType)
                BY <1>1
            <4>2. Regroups(dispatched, << p >>, PacketsFrom(s)[drained + n])
                BY <3>1, <4>1, Regroup
            <4>3. QED
                BY <4>2 DEF Regroups
        <3>3. OneShot(s) = Append(dispatched, p) \o PacketsFrom(s)[drained + n]
            BY <2>4, <2>5, <2>6, <2>8, <3>2
        <3>4. QED
            BY <1>5, <2>2, <2>8, <3>3 DEF SoFar
    <2>9. QED
        BY <2>7, <2>8
<1>13. QED
    BY <1>5, <1>10, <1>11, <1>12 DEF FInv

LEMMA FNext == FInv /\ [Next]_vars => FInv'
<1> SUFFICES ASSUME FInv, [Next]_vars PROVE FInv'
    OBVIOUS
<1>1. ASSUME UNCHANGED <<stream, received, drained, buf, dispatched>>,
             state # "DISCONNECT", state' \in {"read", "drain"} \cup Ends, state' # "DISCONNECT",
             state' \in {"read", "end of stream"} => decode(buf) = Incomplete,
             state' = "protocol error" => decode(buf) = Malformed
      PROVE  FInv'
    <2>1. TypeOK'
        BY <1>1 DEF FInv, TypeOK
    <2>2. BufIsWindow'
        BY <1>1 DEF FInv, BufIsWindow
    <2>3. ASSUME NEW m \in received..Len(stream) PROVE SoFar(m)'
        BY <1>1 DEF FInv, SoFar
    <2>4. QED
        BY <1>1, <2>1, <2>2, <2>3 DEF FInv
<1>2. CASE \E n \in 1..ChunkSize : ReadChunk(n)
    BY <1>2, ReadChunkInv
<1>3. CASE ReadEnd
    BY <1>1, <1>3 DEF ReadEnd, FInv, Ends
<1>4. CASE Dispatch
    BY <1>4, DispatchInv
<1>5. CASE WaitForMore
    BY <1>1, <1>5 DEF WaitForMore
<1>6. CASE Reject
    BY <1>1, <1>6 DEF Reject, Ends
<1>7. CASE UNCHANGED vars
    BY <1>7 DEF vars, FInv, TypeOK, BufIsWindow, SoFar
<1>8. QED
    BY <1>2, <1>3, <1>4, <1>5, <1>6, <1>7 DEF Next

LEMMA FInvariant == Spec => []FInv
BY FInit, FNext, PTL DEF Spec

\* Every variable of reader_loop has its type, and buf never gives up more than
\* it received.
THEOREM FramingTypeOK == Spec => []TypeOK
<1>1. FInv => TypeOK
    BY DEF FInv
<1>2. QED
    BY <1>1, FInvariant, PTL

\* However TCP cuts the stream into chunks, reader_loop dispatches a prefix of
\* the packets that the uncut stream holds.
THEOREM FramingChunkingIrrelevant == Spec => []ChunkingIrrelevant
<1>1. ASSUME FInv PROVE ChunkingIrrelevant
    <2>1. /\ stream \in Seq(Byte) /\ Len(stream) \in received..Len(stream)
          /\ drained \in 0..Len(stream) /\ dispatched \in Seq(PacketType)
        <3>1. TypeOK
            BY <1>1 DEF FInv
        <3>2. QED
            BY <3>1, ReaderTypes
    <2>2. SubSeq(stream, 1, Len(stream)) = stream
        BY <2>1, SubSeqFull
    <2>3. SoFar(Len(stream))
        BY <1>1, <2>1 DEF FInv
    <2>4. PICK r \in Seq(PacketType) : r = PacketsFrom(stream)[drained]
        BY <2>1, PacketsFromType
    <2>5. OneShot(stream) = dispatched \/ OneShot(stream) = dispatched \o r
        BY <2>2, <2>3, <2>4 DEF SoFar
    <2>6. IsPrefix(dispatched, dispatched)
        BY <2>1 DEF IsPrefix
    <2>7. IsPrefix(dispatched, dispatched \o r)
        BY <2>1, <2>4 DEF IsPrefix
    <2>8. QED
        BY <2>5, <2>6, <2>7 DEF ChunkingIrrelevant
<1>2. QED
    BY <1>1, FInvariant, PTL

\* reader_loop blocks in read, or finds the connection closed, only when all
\* packets that have arrived completely are dispatched.
THEOREM FramingNothingStranded == Spec => []NothingStranded
<1>1. ASSUME FInv, state \in {"read", "end of stream"}
      PROVE  dispatched = OneShot(SubSeq(stream, 1, received))
    <2>1. /\ stream \in Seq(Byte) /\ received \in 0..Len(stream) /\ drained \in 0..received
          /\ received \in received..Len(stream) /\ dispatched \in Seq(PacketType)
        <3>1. TypeOK
            BY <1>1 DEF FInv
        <3>2. QED
            BY <3>1, ReaderTypes
    <2>2. PICK s \in Seq(Byte) : s = SubSeq(stream, 1, received) /\ Len(s) = received
        BY <2>1, StreamPart
    <2>3. OneShot(s) = dispatched \o PacketsFrom(s)[drained]
        BY <1>1, <2>1, <2>2 DEF FInv, SoFar
    <2>4. DecodeAt(s)[drained] = decode(SubSeq(s, drained + 1, received))
        BY <2>1, <2>2, DecodeAtType
    <2>5. SubSeq(s, drained + 1, received) = buf
        <3>1. PrefixOf(s, stream)
            <4>1. 0 \in Nat /\ received \in Nat /\ 0 <= received /\ received <= Len(stream)
                  /\ 0 + 1 = 1 /\ received - 0 = received
                BY <2>1
            <4>2. \A i \in 1..(received - 0) : SubSeq(stream, 0 + 1, received)[i] = stream[0 + i]
                BY <2>1, <4>1, Part
            <4>3. \A i \in 1..received : 0 + i = i
                BY <4>1
            <4>4. \A i \in 1..received : s[i] = stream[i]
                BY <2>2, <4>1, <4>2, <4>3
            <4>5. QED
                BY <2>2, <4>1, <4>4 DEF PrefixOf
        <3>2. SubSeq(stream, drained + 1, received) = SubSeq(s, drained + 1, received)
            BY <2>1, <2>2, <3>1, PartOfPrefix
        <3>3. QED
            BY <1>1, <3>2 DEF FInv, BufIsWindow
    <2>6. DecodeAt(s)[drained].type # "Ok"
        <3>1. decode(buf) = Incomplete
            BY <1>1 DEF FInv
        <3>2. DecodeAt(s)[drained] = Incomplete
            BY <2>4, <2>5, <3>1
        <3>3. QED
            BY <3>2 DEF Incomplete
    <2>7. PacketsFrom(s)[drained] = <<>>
        <3>1. PacketsFrom(s)[drained] = Unfold(s, PacketsFrom(s), drained)
            BY <2>1, <2>2, PacketsFromTurn
        <3>2. QED
            BY <2>6, <3>1 DEF Unfold
    <2>8. dispatched \o <<>> = dispatched
        BY <2>1, ConcatEmptySeq
    <2>9. QED
        BY <2>2, <2>3, <2>7, <2>8
<1>2. FInv => NothingStranded
    BY <1>1 DEF NothingStranded
<1>3. QED
    BY <1>2, FInvariant, PTL

\* A connection is torn down for a protocol error only if its bytes are
\* malformed whatever follows: reader_loop never takes a packet that has not
\* arrived yet for a malformed one.
THEOREM FramingErrorsAreFinal == Spec => []ErrorsAreFinal
<1>1. ASSUME FInv, state = "protocol error"
      PROVE  decode(SubSeq(stream, drained + 1, Len(stream))) = Malformed
    <2>1. decode(buf) = Malformed /\ decode(buf) # Incomplete
        <3>1. decode(buf) = Malformed
            BY <1>1 DEF FInv
        <3>2. Malformed # Incomplete
            BY DEF Malformed, Incomplete
        <3>3. QED
            BY <3>1, <3>2
    <2>2. /\ stream \in Seq(Byte) /\ Len(stream) \in received..Len(stream)
          /\ drained \in 0..Len(stream)
        <3>1. TypeOK
            BY <1>1 DEF FInv
        <3>2. QED
            BY <3>1, ReaderTypes
    <2>3. SubSeq(stream, 1, Len(stream)) = stream
        BY <2>2, SubSeqFull
    <2>4. DecodeAt(SubSeq(stream, 1, Len(stream)))[drained] = decode(buf)
        BY <1>1, <2>1, <2>2, SeesTheSame DEF FInv
    <2>5. DecodeAt(stream)[drained] = decode(SubSeq(stream, drained + 1, Len(stream)))
        BY <2>2, DecodeAtType
    <2>6. QED
        BY <2>1, <2>3, <2>4, <2>5
<1>2. FInv => ErrorsAreFinal
    BY <1>1 DEF ErrorsAreFinal
<1>3. QED
    BY <1>2, FInvariant, PTL
=============================================================================
