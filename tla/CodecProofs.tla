----------------------------- MODULE CodecProofs -----------------------------
(***************************************************************************)
(* Theorems about the Remaining Length field and about the packet bodies,  *)
(* for every length, every packet and every sequence of bytes.             *)
(***************************************************************************)
EXTENDS Codec, SequenceTheorems, WellFoundedInduction, TLAPS

-----------------------------------------------------------------------------
(***************************************************************************)
(* Decoding undoes encoding for every length.  The invariant relates the   *)
(* bytes produced so far to the length by the sum of their digits, spelled *)
(* out for the four bytes that the decoder looks at.  The numbers and the  *)
(* comparisons with 128 have names, so that the leaves that are not about  *)
(* arithmetic do not see them.                                             *)
(***************************************************************************)

\* the weights of the second, third and fourth byte (a fifth one would have
\* the weight FieldLimit)
W2 == 128
W3 == 16384
W4 == 2097152

\* a byte with its continuation bit, and the seven data bits
More(b) == b >= 128
Data == 0..127
Digit(q, n) == q[n] % 128

\* what the first bytes of q stand for
Sum1(q) == Digit(q, 1)
Sum2(q) == Sum1(q) + W2 * Digit(q, 2)
Sum3(q) == Sum2(q) + W3 * Digit(q, 3)
Sum4(q) == Sum3(q) + W4 * Digit(q, 4)

\* len = digits so far + what is left
Encoded ==
    /\ Len(out) = 0 => len = x
    /\ Len(out) = 1 => len = Sum1(out) + W2 * x
    /\ Len(out) = 2 => len = Sum2(out) + W3 * x
    /\ Len(out) = 3 => len = Sum3(out) + W4 * x
    /\ Len(out) = 4 => len = Sum4(out) + FieldLimit * x
    /\ Len(out) > 4 => len >= FieldLimit

\* every byte but the last has its continuation bit set
Continued ==
    /\ \A n \in 1..Len(out) : n < Len(out) => More(out[n])
    /\ result = "encoding" => avail = 0 /\ i = 0 /\ value = 0
    /\ result = "encoding" /\ Len(out) > 0 => x > 0 /\ More(out[Len(out)])
    /\ result # "encoding" => /\ x = 0 /\ Len(out) >= 1
                              /\ ~ More(out[Len(out)])
                              /\ Len(out) > 1 => out[Len(out)] > 0

\* value = the digits decoded so far
Decoded ==
    /\ i = 0 => value = 0
    /\ i = 1 => value = Sum1(out)
    /\ i = 2 => value = Sum2(out)
    /\ i = 3 => value = Sum3(out)
    /\ i = 4 => value = Sum4(out)
    /\ result = "decoding" => \A n \in 1..i : More(out[n])

RInv == TypeOK /\ Encoded /\ Continued /\ Decoded /\ DecodesWhatWasEncoded

LEMMA Bytes ==
    ASSUME NEW b \in Byte
    PROVE  (b < 128 <=> ~ More(b)) /\ b % 128 \in Data
BY SMT DEF More, Byte, Data

LEMMA SplitOff ==
    ASSUME NEW y \in Nat
    PROVE  /\ y \div 128 \in Nat /\ y % 128 \in Data
           /\ y = W2 * (y \div 128) + (y % 128)
BY SMT DEF Data, W2

LEMMA DataByte ==
    ASSUME NEW d \in Data
    PROVE  d \in Byte /\ ~ More(d) /\ d % 128 = d /\ d + 0 = d
BY SMT DEF More, Byte, Data

LEMMA MoreByte ==
    ASSUME NEW d \in Data
    PROVE  d + 128 \in Byte /\ More(d + 128) /\ (d + 128) % 128 = d
BY SMT DEF More, Byte, Data

LEMMA Lengths0to4 ==
    ASSUME NEW n \in Nat
    PROVE  n = 0 \/ n = 1 \/ n = 2 \/ n = 3 \/ n = 4 \/ n > 4
OBVIOUS

LEMMA DigitType ==
    ASSUME NEW q \in Seq(Byte), NEW n \in 1..Len(q)
    PROVE  q[n] \in Byte /\ Digit(q, n) \in Data
<1>1. q[n] \in Byte
  OBVIOUS
<1> QED
  BY <1>1, Bytes, Zenon DEF Digit

\* One more digit d is split off what is left.
LEMMA Carry ==
    ASSUME NEW s \in Nat, NEW z \in Nat, NEW d \in Data
    PROVE  /\ W2 * z + d = d + W2 * z
           /\ s + W2 * (W2 * z + d) = (s + W2 * d) + W3 * z
           /\ s + W3 * (W2 * z + d) = (s + W3 * d) + W4 * z
           /\ s + W4 * (W2 * z + d) = (s + W4 * d) + FieldLimit * z
BY SMT DEF W2, W3, W4, Data, FieldLimit

\* The decoder multiplies the other way round.
LEMMA Commute ==
    ASSUME NEW s \in Nat, NEW d \in Data
    PROVE  /\ 0 + d * 1 = d /\ s + d * W2 = s + W2 * d
           /\ s + d * W3 = s + W3 * d /\ s + d * W4 = s + W4 * d
BY SMT DEF W2, W3, W4, Data

\* Something is left after four digits.
LEMMA FifthByte ==
    ASSUME NEW l \in Nat, NEW s \in Nat, NEW y \in Nat, y > 0,
           l = s + FieldLimit * y
    PROVE  l >= FieldLimit
BY SMT DEF FieldLimit

\* Nothing is left.
LEMMA NoRest ==
    ASSUME NEW s \in Nat
    PROVE  /\ s + W2 * 0 = s /\ s + W3 * 0 = s
           /\ s + W4 * 0 = s /\ s + FieldLimit * 0 = s
BY SMT DEF W2, W3, W4, FieldLimit

\* What a sum of digits is worth.
LEMMA Bound2 ==
    ASSUME NEW s \in Nat, NEW d \in Data
    PROVE  /\ d \in Nat /\ d < W2
           /\ s + W2 * d \in Nat /\ (s < W2 => s + W2 * d < W3)
BY SMT DEF W2, W3, Data

LEMMA Bound4 ==
    ASSUME NEW s \in Nat, NEW d \in Data
    PROVE  /\ s + W3 * d \in Nat /\ (s < W3 => s + W3 * d < W4)
           /\ s + W4 * d \in Nat /\ (s < W4 => s + W4 * d < FieldLimit)
BY SMT DEF W3, W4, Data, FieldLimit

LEMMA Weights ==
    ASSUME NEW s \in Nat
    PROVE  /\ s < W2 => s < FieldLimit
           /\ s < W3 => s < FieldLimit
           /\ s < W4 => s < FieldLimit
BY SMT DEF W2, W3, W4, FieldLimit

LEMMA SumBound ==
    ASSUME NEW q \in Seq(Byte)
    PROVE  /\ Len(q) >= 1 => Sum1(q) \in Nat /\ Sum1(q) < W2
           /\ Len(q) >= 2 => Sum2(q) \in Nat /\ Sum2(q) < W3
           /\ Len(q) >= 3 => Sum3(q) \in Nat /\ Sum3(q) < W4
           /\ Len(q) >= 4 => Sum4(q) \in Nat /\ Sum4(q) < FieldLimit
<1>1. /\ Len(q) \in Nat
      /\ Len(q) >= 1 => Digit(q, 1) \in Data
      /\ Len(q) >= 2 => Digit(q, 2) \in Data /\ Len(q) >= 1
      /\ Len(q) >= 3 => Digit(q, 3) \in Data /\ Len(q) >= 2
      /\ Len(q) >= 4 => Digit(q, 4) \in Data /\ Len(q) >= 3
  BY DigitType
<1>2. Len(q) >= 1 => Sum1(q) \in Nat /\ Sum1(q) < W2
  BY <1>1, Bound2, 0 \in Nat, Zenon DEF Sum1
<1>3. Len(q) >= 2 => Sum2(q) \in Nat /\ Sum2(q) < W3
  BY <1>1, <1>2, Bound2, Zenon DEF Sum2
<1>4. Len(q) >= 3 => Sum3(q) \in Nat /\ Sum3(q) < W4
  BY <1>1, <1>3, Bound4, Zenon DEF Sum3
<1>5. Len(q) >= 4 => Sum4(q) \in Nat /\ Sum4(q) < FieldLimit
  BY <1>1, <1>4, Bound4, Zenon DEF Sum4
<1> QED
  BY <1>2, <1>3, <1>4, <1>5, Zenon

LEMMA RInit == Init => RInv
<1> SUFFICES ASSUME Init PROVE RInv
  OBVIOUS
<1>1. len \in Nat /\ x = len /\ out = <<>> /\ avail = 0 /\ i = 0 /\ value = 0
      /\ result = "encoding"
  BY LengthsAssumption DEF Init
<1>2. TypeOK
  BY <1>1, SMT DEF TypeOK, FieldLimit
<1>3. Encoded /\ Continued /\ DecodesWhatWasEncoded
  BY <1>1, SMT DEF Encoded, Continued, DecodesWhatWasEncoded, Results
<1>4. Decoded
  BY <1>1, SMT DEF Decoded
<1> QED
  BY <1>2, <1>3, <1>4 DEF RInv

LEMMA EncodeInv ==
    ASSUME RInv, EncodeByte
    PROVE  RInv'
<1> DEFINE low == x % 128
           b == low + (IF x' > 0 THEN 128 ELSE 0)
<1>0. /\ result = "encoding" /\ x' = x \div 128 /\ out' = Append(out, b)
      /\ UNCHANGED <<len, i, value>>
      /\ IF x' > 0 THEN UNCHANGED <<avail, result>>
                   ELSE avail' \in 0..Len(out') /\ result' = "decoding"
  BY DEF EncodeByte
<1>1. /\ x \in Nat /\ len \in Nat /\ out \in Seq(Byte) /\ Len(out) \in Nat
      /\ avail = 0 /\ i = 0 /\ value = 0
  BY <1>0 DEF RInv, TypeOK, Continued
<1>2. x' \in Nat /\ x = W2 * x' + low /\ low \in Data
  BY <1>0, <1>1, SplitOff
<1> HIDE DEF low
<1>3. /\ b \in Byte /\ b % 128 = low
      /\ x' > 0 => More(b)
      /\ ~(x' > 0) => b = low /\ ~ More(b)
  BY <1>2, DataByte, MoreByte
<1> HIDE DEF b
<1>4. /\ out' \in Seq(Byte) /\ Len(out') = Len(out) + 1
      /\ \A n \in 1..Len(out) : out'[n] = out[n]
      /\ out'[Len(out) + 1] = b
  BY <1>0, <1>1, <1>3, AppendProperties
<1>5. /\ x' > 0 => avail' = 0 /\ result' = "encoding"
      /\ ~(x' > 0) => /\ x' = 0 /\ result' = "decoding"
                      /\ avail' \in 0..Len(out')
  BY <1>0, <1>1, <1>2
<1>6. TypeOK'
  BY <1>0, <1>1, <1>2, <1>4, <1>5, SMT DEF TypeOK, FieldLimit
<1>7. Encoded'
  <2>1. \A n \in 1..Len(out) : /\ Digit(out', n) = Digit(out, n)
                               /\ Digit(out, n) \in Data
    BY <1>1, <1>4, DigitType DEF Digit
  <2>2. Digit(out', Len(out) + 1) = low
    BY <1>3, <1>4 DEF Digit
  <2>3. Encoded
    BY DEF RInv
  <2>4. Len(out) > 0 => x > 0
    BY <1>0, <1>1 DEF RInv, Continued
  <2>5. CASE Len(out) = 0
    <3>1. len = x /\ Len(out') = 1 /\ Digit(out', 1) = low
      BY <1>4, <2>2, <2>3, <2>5, SMT DEF Encoded
    <3>2. len = Sum1(out') + W2 * x'
      <4>1. W2 * x' + low = low + W2 * x'
        BY <1>2, 0 \in Nat, Carry, Zenon
      <4> QED
        BY <1>2, <3>1, <4>1, Zenon DEF Sum1
    <3> QED
      BY <1>0, <3>1, <3>2, SMT DEF Encoded
  <2>6. CASE Len(out) = 1
    <3>1. /\ Digit(out', 1) = Digit(out, 1)
          /\ Digit(out', 2) = low /\ Len(out') = 2
      BY <1>1, <1>4, <2>1, <2>2, <2>6
    <3>2. /\ len = Sum1(out) + W2 * (W2 * x' + low)
          /\ Sum1(out) \in Nat
      <4>1. len = Sum1(out) + W2 * x /\ Len(out) >= 1
        BY <2>3, <2>6, SMT DEF Encoded
      <4> QED
        BY <1>1, <1>2, <4>1, SumBound, Zenon
    <3>3. Sum2(out') = Sum1(out) + W2 * low
      BY <3>1, Zenon DEF Sum1, Sum2
    <3>4. len = Sum2(out') + W3 * x'
      <4>1. Sum1(out) + W2 * (W2 * x' + low)
              = (Sum1(out) + W2 * low) + W3 * x'
        BY <1>2, <3>2, Carry, Zenon
      <4> QED
        BY <3>2, <3>3, <4>1, Zenon
    <3> QED
      BY <1>0, <3>1, <3>4, SMT DEF Encoded
  <2>7. CASE Len(out) = 2
    <3>1. /\ Digit(out', 1) = Digit(out, 1)
          /\ Digit(out', 2) = Digit(out, 2)
          /\ Digit(out', 3) = low /\ Len(out') = 3
      BY <1>1, <1>4, <2>1, <2>2, <2>7
    <3>2. /\ len = Sum2(out) + W3 * (W2 * x' + low)
          /\ Sum2(out) \in Nat
      <4>1. len = Sum2(out) + W3 * x /\ Len(out) >= 2
        BY <2>3, <2>7, SMT DEF Encoded
      <4> QED
        BY <1>1, <1>2, <4>1, SumBound, Zenon
    <3>3. Sum3(out') = Sum2(out) + W3 * low
      BY <3>1, Zenon DEF Sum1, Sum2, Sum3
    <3>4. len = Sum3(out') + W4 * x'
      <4>1. Sum2(out) + W3 * (W2 * x' + low)
              = (Sum2(out) + W3 * low) + W4 * x'
        BY <1>2, <3>2, Carry, Zenon
      <4> QED
        BY <3>2, <3>3, <4>1, Zenon
    <3> QED
      BY <1>0, <3>1, <3>4, SMT DEF Encoded
  <2>8. CASE Len(out) = 3
    <3>1. /\ Digit(out', 1) = Digit(out, 1)
          /\ Digit(out', 2) = Digit(out, 2)
          /\ Digit(out', 3) = Digit(out, 3)
          /\ Digit(out', 4) = low /\ Len(out') = 4
      BY <1>1, <1>4, <2>1, <2>2, <2>8
    <3>2. /\ len = Sum3(out) + W4 * (W2 * x' + low)
          /\ Sum3(out) \in Nat
      <4>1. len = Sum3(out) + W4 * x /\ Len(out) >= 3
        BY <2>3, <2>8, SMT DEF Encoded
      <4> QED
        BY <1>1, <1>2, <4>1, SumBound, Zenon
    <3>3. Sum4(out') = Sum3(out) + W4 * low
      BY <3>1, Zenon DEF Sum1, Sum2, Sum3, Sum4
    <3>4. len = Sum4(out') + FieldLimit * x'
      <4>1. Sum3(out) + W4 * (W2 * x' + low)
              = (Sum3(out) + W4 * low) + FieldLimit * x'
        BY <1>2, <3>2, Carry, Zenon
      <4> QED
        BY <3>2, <3>3, <4>1, Zenon
    <3> QED
      BY <1>0, <3>1, <3>4, SMT DEF Encoded
  <2>9. CASE Len(out) = 4
    <3>1. /\ Len(out') = 5 /\ x > 0 /\ Len(out) >= 4
          /\ len = Sum4(out) + FieldLimit * x
      BY <1>4, <2>3, <2>4, <2>9, SMT DEF Encoded
    <3>2. len >= FieldLimit
      <4>1. Sum4(out) \in Nat
        BY <1>1, <3>1, SumBound, Zenon
      <4> QED
        BY <1>1, <3>1, <4>1, FifthByte, Zenon
    <3> QED
      BY <1>0, <3>1, <3>2, SMT DEF Encoded
  <2>10. CASE Len(out) > 4
    <3>1. len >= FieldLimit
      BY <2>3, <2>10, SMT DEF Encoded
    <3>2. Len(out') > 5 /\ Len(out') \in Nat
      BY <1>1, <1>4, <2>10
    <3> QED
      BY <1>0, <3>1, <3>2, SMT DEF Encoded
  <2>11. \/ Len(out) = 0 \/ Len(out) = 1 \/ Len(out) = 2 \/ Len(out) = 3
         \/ Len(out) = 4 \/ Len(out) > 4
    BY <1>1, Lengths0to4, Zenon
  <2> QED
    BY <2>5, <2>6, <2>7, <2>8, <2>9, <2>10, <2>11
<1>8. Continued'
  <2>1. \A n \in 1..Len(out) : More(out[n])
    BY <1>0, <1>1 DEF RInv, Continued
  <2>2. Len(out) > 0 => x > 0
    BY <1>0, <1>1 DEF RInv, Continued
  <2>3. \A n \in 1..Len(out') : n < Len(out') => More(out'[n])
    BY <1>1, <1>4, <2>1
  <2>4. out'[Len(out')] = b /\ Len(out') >= 1
    BY <1>1, <1>4
  <2>5. x' = 0 /\ Len(out') > 1 => b > 0
    <3> SUFFICES ASSUME x' = 0, Len(out') > 1 PROVE b > 0
      OBVIOUS
    <3>1. x > 0 /\ x = low
      BY <1>1, <1>2, <1>4, <2>2, SMT DEF W2, Data
    <3> QED
      BY <1>3, <3>1
  <2> QED
    BY <1>0, <1>1, <1>3, <1>5, <2>3, <2>4, <2>5 DEF Continued
<1>9. Decoded' /\ DecodesWhatWasEncoded'
  BY <1>0, <1>1, <1>5, SMT DEF Decoded, DecodesWhatWasEncoded, Results
<1> QED
  BY <1>6, <1>7, <1>8, <1>9 DEF RInv

LEMMA DecodeInv ==
    ASSUME RInv, DecodeByte
    PROVE  RInv'
<1>0. /\ result = "decoding" /\ i < 4 /\ i < avail /\ i' = i + 1
      /\ value' = value + Digit(out, i + 1) * multiplier
      /\ result' = IF out[i + 1] < 128 THEN "Ok" ELSE "decoding"
      /\ UNCHANGED <<len, x, out, avail>>
  BY DEF DecodeByte, Digit
<1>1. /\ len \in Nat /\ x = 0 /\ out \in Seq(Byte) /\ Len(out) \in Nat
      /\ avail \in Nat /\ avail <= Len(out) /\ i \in 0..3 /\ value \in Nat
      /\ Encoded /\ Decoded /\ Continued
  BY <1>0 DEF RInv, TypeOK, Continued
<1>2. i + 1 \in 1..Len(out) /\ \A n \in 1..i : n \in 1..Len(out)
  BY <1>0, <1>1
<1>3. Digit(out, i + 1) \in Data /\ out[i + 1] \in Byte
  BY <1>1, <1>2, DigitType
<1>4. result' = IF More(out[i + 1]) THEN "decoding" ELSE "Ok"
  BY <1>0, <1>3, Bytes
<1>5. \A n \in 1..i : More(out[n])
  BY <1>0, <1>1 DEF Decoded
<1>6. ~ More(out[i + 1]) => i + 1 = Len(out)
  BY <1>1, <1>2 DEF Continued
<1>7. Encoded' /\ Continued'
  BY <1>0, <1>4, SMT DEF RInv, Encoded, Continued
<1>8. /\ value' \in Nat /\ value' < FieldLimit
      /\ i + 1 = 1 => value' = Sum1(out)
      /\ i + 1 = 2 => value' = Sum2(out)
      /\ i + 1 = 3 => value' = Sum3(out)
      /\ i + 1 = 4 => value' = Sum4(out)
  <2>1. CASE i = 0
    <3>1. /\ value' = value + Digit(out, 1) * 1
          /\ Digit(out, 1) \in Data /\ Len(out) >= 1
      BY <1>0, <1>1, <1>2, <1>3, <2>1, SMT DEF multiplier, W2, W3, W4
    <3>2. value = 0
      BY <1>1, <2>1, <3>1, SumBound, SMT DEF Decoded
    <3>3. value' = Sum1(out)
      BY <3>1, <3>2, Commute, 0 \in Nat, Zenon DEF Sum1
    <3>4. value' \in Nat /\ value' < FieldLimit
      BY <1>1, <3>1, <3>3, SumBound, Weights, Zenon
    <3> QED
      BY <2>1, <3>3, <3>4, SMT
  <2>2. CASE i = 1
    <3>1. /\ value' = value + Digit(out, 2) * W2
          /\ Digit(out, 2) \in Data /\ Len(out) >= 2
      BY <1>0, <1>1, <1>2, <1>3, <2>2, SMT DEF multiplier, W2, W3, W4
    <3>2. value = Sum1(out) /\ Sum1(out) \in Nat
      BY <1>1, <2>2, <3>1, SumBound, SMT DEF Decoded
    <3>3. value' = Sum2(out)
      BY <3>1, <3>2, Commute, Zenon DEF Sum2
    <3>4. value' \in Nat /\ value' < FieldLimit
      BY <1>1, <3>1, <3>3, SumBound, Weights, Zenon
    <3> QED
      BY <2>2, <3>3, <3>4, SMT
  <2>3. CASE i = 2
    <3>1. /\ value' = value + Digit(out, 3) * W3
          /\ Digit(out, 3) \in Data /\ Len(out) >= 3
      BY <1>0, <1>1, <1>2, <1>3, <2>3, SMT DEF multiplier, W2, W3, W4
    <3>2. value = Sum2(out) /\ Sum2(out) \in Nat
      BY <1>1, <2>3, <3>1, SumBound, SMT DEF Decoded
    <3>3. value' = Sum3(out)
      BY <3>1, <3>2, Commute, Zenon DEF Sum3
    <3>4. value' \in Nat /\ value' < FieldLimit
      BY <1>1, <3>1, <3>3, SumBound, Weights, Zenon
    <3> QED
      BY <2>3, <3>3, <3>4, SMT
  <2>4. CASE i = 3
    <3>1. /\ value' = value + Digit(out, 4) * W4
          /\ Digit(out, 4) \in Data /\ Len(out) >= 4
      BY <1>0, <1>1, <1>2, <1>3, <2>4, SMT DEF multiplier, W2, W3, W4
    <3>2. value = Sum3(out) /\ Sum3(out) \in Nat
      BY <1>1, <2>4, <3>1, SumBound, SMT DEF Decoded
    <3>3. value' = Sum4(out)
      BY <3>1, <3>2, Commute, Zenon DEF Sum4
    <3>4. value' \in Nat /\ value' < FieldLimit
      BY <1>1, <3>1, <3>3, SumBound, Weights, Zenon
    <3> QED
      BY <2>4, <3>3, <3>4, SMT
  <2> QED
    BY <1>1, <2>1, <2>2, <2>3, <2>4, SMT
<1>9. TypeOK'
  BY <1>0, <1>1, <1>8, SMT DEF RInv, TypeOK, Results
<1>10. Decoded'
  <2>1. \A n \in 1..(i + 1) : n = i + 1 \/ n \in 1..i
    BY <1>1
  <2>2. result' = "decoding" => \A n \in 1..(i + 1) : More(out[n])
    BY <1>4, <1>5, <2>1
  <2>3. ~(i + 1 = 0)
    BY <1>1
  <2> QED
    BY <1>0, <1>8, <2>2, <2>3 DEF Decoded
<1>11. DecodesWhatWasEncoded'
  <2> SUFFICES ASSUME ~ More(out[i + 1])
               PROVE  /\ avail = Len(out) /\ len < FieldLimit
                      /\ value' = len /\ i + 1 = avail
    BY <1>0, <1>4, SMT DEF DecodesWhatWasEncoded, Results
  <2>1. Len(out) = i + 1 /\ avail = Len(out)
    BY <1>0, <1>1, <1>6
  <2>2. value' = len
    <3>1. /\ i + 1 = 1 => len = Sum1(out)
          /\ i + 1 = 2 => len = Sum2(out)
          /\ i + 1 = 3 => len = Sum3(out)
          /\ i + 1 = 4 => len = Sum4(out)
      BY <1>1, <2>1, SumBound, NoRest, SMT DEF Encoded
    <3> QED
      BY <1>1, <1>8, <3>1
  <2> QED
    BY <1>8, <2>1, <2>2
<1> QED
  BY <1>7, <1>9, <1>10, <1>11 DEF RInv

\* The two early returns of the decoder.
LEMMA ReturnInv ==
    ASSUME RInv, TooLong \/ RanOut
    PROVE  RInv'
<1>0. /\ result = "decoding" /\ UNCHANGED <<len, x, out, avail, i, value>>
      /\ result' \in Results
  BY DEF TooLong, RanOut, Results
<1>1. TypeOK' /\ Encoded' /\ Continued' /\ Decoded'
  BY <1>0, SMT DEF RInv, TypeOK, Encoded, Continued, Decoded, Results
<1>2. /\ i \in 0..4 /\ avail \in Nat /\ i <= avail /\ avail <= Len(out)
      /\ Len(out) \in Nat /\ len \in Nat /\ ~ More(out[Len(out)]) /\ Len(out) >= 1
      /\ \A n \in 1..i : More(out[n])
  BY <1>0, SMT DEF RInv, TypeOK, Continued, Decoded
<1>3. i < Len(out)
  BY <1>2
<1>4. CASE TooLong
  <2>1. i = 4 /\ Len(out) > 4 /\ avail >= 4 /\ result' = "InvalidRemainingLength"
    BY <1>2, <1>3, <1>4 DEF TooLong
  <2>2. len >= FieldLimit
    BY <2>1, SMT DEF RInv, Encoded
  <2>3. DecodesWhatWasEncoded'
    BY <1>0, <2>1, <2>2, SMT DEF DecodesWhatWasEncoded
  <2> QED
    BY <1>1, <2>3 DEF RInv
<1>5. CASE RanOut
  <2>1. avail < Len(out) /\ avail < 4 /\ result' = "Incomplete"
    BY <1>2, <1>3, <1>5 DEF RanOut
  <2>2. DecodesWhatWasEncoded'
    BY <1>0, <2>1 DEF DecodesWhatWasEncoded
  <2> QED
    BY <1>1, <2>2 DEF RInv
<1> QED
  BY <1>4, <1>5

LEMMA RNext == RInv /\ [Next]_vars => RInv'
<1> SUFFICES ASSUME RInv, [Next]_vars PROVE RInv'
  OBVIOUS
<1>1. CASE UNCHANGED vars
  BY <1>1, SMT DEF vars, RInv, TypeOK, Encoded, Continued, Decoded,
                   DecodesWhatWasEncoded
<1> QED
  BY <1>1, EncodeInv, DecodeInv, ReturnInv DEF Next

LEMMA RInvariant == Spec => []RInv
BY RInit, RNext, PTL DEF Spec

\* decode_remaining_length never overflows its u32, on any encoded length.
THEOREM RemainingLengthTypeOK == Spec => []TypeOK
<1>1. RInv => TypeOK
  BY DEF RInv
<1> QED
  BY <1>1, RInvariant, PTL

\* decode_remaining_length inverts encode_remaining_length for every length, on
\* whatever prefix of the field has arrived.
THEOREM RemainingLengthRoundTrip == Spec => []DecodesWhatWasEncoded
<1>1. RInv => DecodesWhatWasEncoded
  BY DEF RInv
<1> QED
  BY <1>1, RInvariant, PTL

\* encode_remaining_length never pads a length with a zero byte.
THEOREM RemainingLengthShortest == Spec => []ShortestForm
<1>1. RInv => ShortestForm
  BY DEF RInv, Continued, ShortestForm
<1> QED
  BY <1>1, RInvariant, PTL

-----------------------------------------------------------------------------
(* Bytes, numbers and strings *)

LEMMA LeastNatural ==
    ASSUME NEW T, T \subseteq Nat, T # {}
    PROVE  \E k \in T : \A j \in T : ~ (j < k)
<1>1. IsWellFoundedOn(OpToRel(<, Nat), Nat)
  BY NatLessThanWellFounded
<1>2. PICK k \in T : \A j \in T : ~ (<<j, k>> \in OpToRel(<, Nat))
  BY <1>1, WFMin
<1>3. \A j \in T : ~ (j < k)
  BY <1>2 DEF OpToRel
<1> QED
  BY <1>3

\* The bytes of s after the a-th and up to the b-th.
LEMMA Part ==
    ASSUME NEW s \in Seq(Byte), NEW a \in Nat, NEW b \in Nat, a <= b, b <= Len(s)
    PROVE  /\ SubSeq(s, a + 1, b) \in Seq(Byte)
           /\ Len(SubSeq(s, a + 1, b)) = b - a
           /\ \A k \in 1..(b - a) : SubSeq(s, a + 1, b)[k] = s[a + k]
<1>1. a + 1 \in Int /\ b \in Int /\ b - (a + 1) + 1 = b - a
  OBVIOUS
<1>2. \A k \in (a + 1)..b : s[k] \in Byte
  OBVIOUS
<1>3. /\ SubSeq(s, a + 1, b) \in Seq(Byte)
      /\ Len(SubSeq(s, a + 1, b)) = IF a + 1 <= b THEN b - (a + 1) + 1 ELSE 0
      /\ \A k \in 1..(b - (a + 1) + 1) : SubSeq(s, a + 1, b)[k] = s[(a + 1) + k - 1]
  BY <1>1, <1>2, SubSeqProperties
<1>4. Len(SubSeq(s, a + 1, b)) = b - a
  BY <1>3
<1>5. \A k \in 1..(b - a) : (a + 1) + k - 1 = a + k
  OBVIOUS
<1> QED
  BY <1>1, <1>3, <1>4, <1>5

Regrouped(s, t, u) == (s \o t) \o u = s \o (t \o u)

LEMMA Regroup ==
    ASSUME NEW s \in Seq(Byte), NEW t \in Seq(Byte), NEW u \in Seq(Byte)
    PROVE  Regrouped(s, t, u)
BY ConcatAssociative DEF Regrouped

\* What two sequences, one after the other, have where.
LEMMA Joined ==
    ASSUME NEW s \in Seq(Byte), NEW t \in Seq(Byte)
    PROVE  /\ s \o t \in Seq(Byte)
           /\ Len(s \o t) = Len(s) + Len(t)
           /\ \A k \in 1..Len(s) : (s \o t)[k] = s[k]
           /\ \A k \in 1..Len(t) : (s \o t)[Len(s) + k] = t[k]
           /\ SubSeq(s \o t, 1, Len(s)) = s
           /\ SubSeq(s \o t, Len(s) + 1, Len(s) + Len(t)) = t
<1> DEFINE u == s \o t
<1>1. /\ u \in Seq(Byte) /\ Len(u) = Len(s) + Len(t)
      /\ \A k \in 1..(Len(s) + Len(t)) : u[k] = IF k <= Len(s) THEN s[k] ELSE t[k - Len(s)]
  BY ConcatProperties
<1> HIDE DEF u
<1>2. PICK m \in Nat, n \in Nat : m = Len(s) /\ n = Len(t)
  OBVIOUS
<1>3. \A k \in 1..m : u[k] = s[k]
  <2>1. \A k \in 1..m : k \in 1..(m + n) /\ k <= m
    OBVIOUS
  <2> QED
    BY <1>1, <1>2, <2>1
<1>4. \A k \in 1..n : u[m + k] = t[k]
  <2>1. \A k \in 1..n : m + k \in 1..(m + n) /\ ~(m + k <= m) /\ (m + k) - m = k
    OBVIOUS
  <2> QED
    BY <1>1, <1>2, <2>1
<1>5. SubSeq(u, 1, m) = s
  <2>1. 0 <= m /\ m <= Len(u) /\ 0 + 1 = 1 /\ m - 0 = m /\ \A k \in 1..m : 0 + k = k
    BY <1>1, <1>2
  <2>2. /\ SubSeq(u, 0 + 1, m) \in Seq(Byte)
        /\ Len(SubSeq(u, 0 + 1, m)) = m - 0
        /\ \A k \in 1..(m - 0) : SubSeq(u, 0 + 1, m)[k] = u[0 + k]
    BY <1>1, <2>1, Part, 0 \in Nat
  <2>3. /\ SubSeq(u, 1, m) \in Seq(Byte) /\ Len(SubSeq(u, 1, m)) = m
        /\ \A k \in 1..m : SubSeq(u, 1, m)[k] = u[k]
    BY <2>1, <2>2
  <2> QED
    BY <1>2, <1>3, <2>3, SeqEqual
<1>6. SubSeq(u, m + 1, m + n) = t
  <2>1. m + n \in Nat /\ m <= m + n /\ m + n <= Len(u) /\ (m + n) - m = n
    BY <1>1, <1>2
  <2>2. /\ SubSeq(u, m + 1, m + n) \in Seq(Byte)
        /\ Len(SubSeq(u, m + 1, m + n)) = (m + n) - m
        /\ \A k \in 1..((m + n) - m) : SubSeq(u, m + 1, m + n)[k] = u[m + k]
    BY <1>1, <2>1, Part
  <2>3. /\ SubSeq(u, m + 1, m + n) \in Seq(Byte) /\ Len(SubSeq(u, m + 1, m + n)) = n
        /\ \A k \in 1..n : SubSeq(u, m + 1, m + n)[k] = u[m + k]
    BY <2>1, <2>2
  <2> QED
    BY <1>2, <1>4, <2>3, SeqEqual
<1> QED
  BY <1>1, <1>2, <1>3, <1>4, <1>5, <1>6 DEF u

\* A sequence cut in two.
LEMMA Cut ==
    ASSUME NEW s \in Seq(Byte), NEW n \in Nat, n <= Len(s)
    PROVE  /\ SubSeq(s, 1, n) \in Seq(Byte) /\ Len(SubSeq(s, 1, n)) = n
           /\ SubSeq(s, n + 1, Len(s)) \in Seq(Byte)
           /\ Len(SubSeq(s, n + 1, Len(s))) = Len(s) - n
           /\ s = SubSeq(s, 1, n) \o SubSeq(s, n + 1, Len(s))
<1>1. Len(s) \in Nat /\ 0 <= n /\ Len(s) <= Len(s) /\ 0 + 1 = 1 /\ n - 0 = n
  OBVIOUS
<1>2. SubSeq(s, 1, n) \in Seq(Byte) /\ Len(SubSeq(s, 1, n)) = n
  <2>1. SubSeq(s, 0 + 1, n) \in Seq(Byte) /\ Len(SubSeq(s, 0 + 1, n)) = n - 0
    BY <1>1, Part, 0 \in Nat
  <2> QED
    BY <1>1, <2>1
<1>3. SubSeq(s, n + 1, Len(s)) \in Seq(Byte) /\ Len(SubSeq(s, n + 1, Len(s))) = Len(s) - n
  BY <1>1, Part
<1>4. 1 \in 1..(Len(s) + 1) /\ n \in (1 - 1)..Len(s) /\ Len(s) \in n..Len(s)
  BY <1>1
<1>5. SubSeq(s, 1, n) \o SubSeq(s, n + 1, Len(s)) = SubSeq(s, 1, Len(s))
  BY <1>4, ConcatAdjacentSubSeq
<1>6. SubSeq(s, 1, Len(s)) = s
  BY SubSeqFull
<1> QED
  BY <1>2, <1>3, <1>5, <1>6

LEMMA FromIs ==
    ASSUME NEW b \in Seq(Byte), NEW pos \in Nat, pos <= Len(b)
    PROVE  /\ From(b, pos) = SubSeq(b, pos + 1, Len(b))
           /\ C!From(b, pos) = SubSeq(b, pos + 1, Len(b))
BY DEF From, C!From

\* u16, high byte first.  The literal bound is kept out of the leaves that do
\* not calculate with it.
LEMMA U16IsNat ==
    ASSUME NEW n
    PROVE  n \in U16 <=> n \in Nat /\ n <= U16Max
<1>1. U16Max \in Nat
  BY SMT DEF U16Max
<1> QED
  BY <1>1, SMT DEF U16

LEMMA ByteIsNat ==
    ASSUME NEW n
    PROVE  n \in Byte <=> n \in Nat /\ n < 256
BY SMT DEF Byte

LEMMA DivMod256 ==
    ASSUME NEW n \in Nat
    PROVE  \E q \in Nat, r \in Nat : /\ q = n \div 256 /\ r = n % 256
                                    /\ n = 256 * q + r /\ r < 256
BY SMT

LEMMA U16Split ==
    ASSUME NEW n \in U16
    PROVE  /\ n \div 256 \in Byte /\ n % 256 \in Byte
           /\ (n \div 256) * 256 + (n % 256) = n
<1>1. n \in Nat /\ n <= U16Max
  BY U16IsNat
<1>2. PICK q \in Nat, r \in Nat : /\ q = n \div 256 /\ r = n % 256
                                 /\ n = 256 * q + r /\ r < 256
  BY <1>1, DivMod256
<1>3. q < 256 /\ q * 256 + r = n
  BY <1>1, <1>2, SMT DEF U16Max
<1> QED
  BY <1>2, <1>3, ByteIsNat

LEMMA U16Join ==
    ASSUME NEW h \in Byte, NEW l \in Byte
    PROVE  /\ h * 256 + l \in U16
           /\ (h * 256 + l) \div 256 = h /\ (h * 256 + l) % 256 = l
<1>1. h \in Nat /\ l \in Nat /\ h < 256 /\ l < 256
  BY ByteIsNat
<1>2. PICK n \in Nat : n = h * 256 + l
  BY <1>1
<1>3. n <= U16Max
  BY <1>1, <1>2, SMT DEF U16Max
<1>4. PICK q \in Nat, r \in Nat : /\ q = n \div 256 /\ r = n % 256
                                 /\ n = 256 * q + r /\ r < 256
  BY DivMod256
<1>5. q = h /\ r = l
  BY <1>1, <1>2, <1>4, SMT
<1> QED
  BY <1>2, <1>3, <1>4, <1>5, U16IsNat

LEMMA BeBytes ==
    ASSUME NEW n \in U16
    PROVE  /\ to_be_bytes(n) \in Seq(Byte) /\ Len(to_be_bytes(n)) = 2
           /\ to_be_bytes(n)[1] * 256 + to_be_bytes(n)[2] = n
           /\ C!to_be_bytes(n) = to_be_bytes(n)
<1>1. n \div 256 \in Byte /\ n % 256 \in Byte /\ (n \div 256) * 256 + (n % 256) = n
  BY U16Split
<1>2. /\ to_be_bytes(n) = <<n \div 256, n % 256>>
      /\ C!to_be_bytes(n) = <<n \div 256, n % 256>>
  BY DEF to_be_bytes, C!to_be_bytes
<1>3. PICK h \in Byte, l \in Byte : h = n \div 256 /\ l = n % 256
  BY <1>1
<1>4. <<h, l>> \in Seq(Byte) /\ Len(<<h, l>>) = 2 /\ <<h, l>>[1] = h /\ <<h, l>>[2] = l
  OBVIOUS
<1> QED
  BY <1>1, <1>2, <1>3, <1>4

\* from_be_bytes and back.
LEMMA BeRead ==
    ASSUME NEW b \in Seq(Byte), NEW pos \in Nat, pos + 2 <= Len(b)
    PROVE  /\ from_be_bytes(b, pos) \in U16
           /\ C!from_be_bytes(b, pos) = from_be_bytes(b, pos)
           /\ to_be_bytes(from_be_bytes(b, pos)) = SubSeq(b, pos + 1, pos + 2)
<1>1. pos + 1 \in 1..Len(b) /\ pos + 2 \in 1..Len(b)
  OBVIOUS
<1>2. PICK h \in Byte, l \in Byte : h = b[pos + 1] /\ l = b[pos + 2]
  BY <1>1
<1>3. from_be_bytes(b, pos) = h * 256 + l /\ C!from_be_bytes(b, pos) = h * 256 + l
  BY <1>2 DEF from_be_bytes, C!from_be_bytes
<1>4. /\ h * 256 + l \in U16
      /\ (h * 256 + l) \div 256 = h /\ (h * 256 + l) % 256 = l
  BY U16Join
<1>5. to_be_bytes(h * 256 + l) = <<h, l>>
  BY <1>4 DEF to_be_bytes
<1>6. SubSeq(b, pos + 1, pos + 2) = <<h, l>>
  <2>1. /\ pos + 2 \in Nat /\ pos <= pos + 2 /\ (pos + 2) - pos = 2
        /\ 1 \in 1..2 /\ 2 \in 1..2
    OBVIOUS
  <2>2. /\ SubSeq(b, pos + 1, pos + 2) \in Seq(Byte)
        /\ Len(SubSeq(b, pos + 1, pos + 2)) = 2
        /\ \A k \in 1..2 : SubSeq(b, pos + 1, pos + 2)[k] = b[pos + k]
    BY <2>1, Part
  <2>3. /\ <<h, l>> \in Seq(Byte) /\ Len(<<h, l>>) = 2
        /\ <<h, l>>[1] = h /\ <<h, l>>[2] = l
    OBVIOUS
  <2>4. \A k \in 1..2 : k = 1 \/ k = 2
    OBVIOUS
  <2>5. \A k \in 1..2 : SubSeq(b, pos + 1, pos + 2)[k] = <<h, l>>[k]
    BY <1>2, <2>2, <2>3, <2>4
  <2> QED
    BY <2>2, <2>3, <2>5, SeqEqual
<1> QED
  BY <1>3, <1>4, <1>5, <1>6

\* What both codecs write for a string.
LEMMA StringBytes ==
    ASSUME NEW s \in Seq(Byte), Len(s) <= U16Max
    PROVE  /\ Len(s) \in U16
           /\ encode_utf8_string(s) = to_be_bytes(Len(s)) \o s
           /\ C!encode_utf8_str(s) = encode_utf8_string(s)
           /\ encode_utf8_string(s) \in Seq(Byte)
           /\ Len(encode_utf8_string(s)) = 2 + Len(s)
<1>1. Len(s) \in Nat /\ Len(s) \in U16
  BY U16IsNat
<1>2. (IF Len(s) < U16Max THEN Len(s) ELSE U16Max) = Len(s)
  <2>1. U16Max \in Nat
    BY SMT DEF U16Max
  <2> QED
    BY <1>1, <2>1
<1>3. SubSeq(s, 1, Len(s)) = s
  BY SubSeqFull
<1>4. /\ to_be_bytes(Len(s)) \in Seq(Byte) /\ Len(to_be_bytes(Len(s))) = 2
      /\ C!to_be_bytes(Len(s)) = to_be_bytes(Len(s))
  BY <1>1, BeBytes
<1>5. encode_utf8_string(s) = to_be_bytes(Len(s)) \o s
  BY <1>2, <1>3, Zenon DEF encode_utf8_string
<1>6. C!encode_utf8_str(s) = C!to_be_bytes(Len(s)) \o s
  <2>1. C!U16Max = U16Max
    BY SMT DEF C!U16Max, U16Max
  <2> QED
    BY <1>2, <1>3, <2>1, Zenon DEF C!encode_utf8_str
<1>7. /\ to_be_bytes(Len(s)) \o s \in Seq(Byte)
      /\ Len(to_be_bytes(Len(s)) \o s) = 2 + Len(s)
  <2>1. PICK d \in Seq(Byte) : d = to_be_bytes(Len(s)) /\ Len(d) = 2
    BY <1>4
  <2>2. d \o s \in Seq(Byte) /\ Len(d \o s) = Len(d) + Len(s)
    BY Joined
  <2> QED
    BY <2>1, <2>2
<1> QED
  BY <1>1, <1>4, <1>5, <1>6, <1>7

\* A decoded string, and where it ends.
Found(s) == [type |-> "Ok", s |-> s, end |-> 2 + Len(s)]

\* decode_utf8_string: what it accepts is the encoding of what it returns.
LEMMA StringDecoded ==
    ASSUME NEW b \in Seq(Byte), ~ IsErr(decode_utf8_string(b))
    PROVE  \E s \in Utf8String, t \in Seq(Byte) :
              /\ decode_utf8_string(b) = Found(s)
              /\ b = encode_utf8_string(s) \o t
              /\ Len(b) = 2 + Len(s) + Len(t)
              /\ t = SubSeq(b, 2 + Len(s) + 1, Len(b))
<1>1. IsErr(Malformed)
  BY DEF IsErr, Malformed, Err
<1>2. ~ (Len(b) < 2)
  BY <1>1 DEF decode_utf8_string
<1>3. Len(b) \in Nat /\ 0 + 2 <= Len(b) /\ 0 + 1 = 1 /\ 0 + 2 = 2
  BY <1>2
<1>4. PICK n \in U16 : n = from_be_bytes(b, 0) /\ to_be_bytes(n) = SubSeq(b, 1, 2)
  BY <1>3, BeRead, 0 \in Nat
<1> DEFINE end == 2 + n
           s == SubSeq(b, 3, end)
           t == SubSeq(b, end + 1, Len(b))
<1>5. /\ ~ (Len(b) < end \/ ~ from_utf8(s))
      /\ decode_utf8_string(b) = [type |-> "Ok", s |-> s, end |-> end]
  <2>1. decode_utf8_string(b) =
          IF Len(b) < end \/ ~ from_utf8(s) THEN Malformed
          ELSE [type |-> "Ok", s |-> s, end |-> end]
    BY <1>2, <1>4 DEF decode_utf8_string
  <2> HIDE DEF end, s
  <2> QED
    BY <1>1, <2>1
<1>6. /\ n \in Nat /\ n <= U16Max /\ end \in Nat /\ 2 <= end /\ end <= Len(b) /\ 2 + 1 = 3
      /\ end - 2 = n
  <2>1. n \in Nat /\ n <= U16Max
    BY U16IsNat
  <2> QED
    BY <1>3, <1>5, <2>1
<1>7. s \in Seq(Byte) /\ Len(s) = n
  <2>1. SubSeq(b, 2 + 1, end) \in Seq(Byte) /\ Len(SubSeq(b, 2 + 1, end)) = end - 2
    <3> HIDE DEF end
    <3> QED
      BY <1>6, Part, 2 \in Nat
  <2> QED
    BY <1>6, <2>1
<1>8. b = SubSeq(b, 1, end) \o t /\ t \in Seq(Byte) /\ Len(t) = Len(b) - end
  <2> HIDE DEF end
  <2> QED
    BY <1>6, Cut
<1>9. SubSeq(b, 1, end) = SubSeq(b, 1, 2) \o s
  <2>1. 1 \in 1..(Len(b) + 1) /\ 2 \in (1 - 1)..Len(b) /\ end \in 2..Len(b)
    BY <1>3, <1>6
  <2>2. SubSeq(b, 1, 2) \o SubSeq(b, 2 + 1, end) = SubSeq(b, 1, end)
    <3> HIDE DEF end
    <3> QED
      BY <2>1, ConcatAdjacentSubSeq
  <2> QED
    BY <1>6, <2>2
<1> HIDE DEF s, t
<1>10. s \in Utf8String
  BY <1>5, <1>6, <1>7 DEF Utf8String
<1>11. encode_utf8_string(s) = SubSeq(b, 1, 2) \o s
  <2>1. encode_utf8_string(s) = to_be_bytes(Len(s)) \o s
    BY <1>6, <1>7, StringBytes
  <2> QED
    BY <1>4, <1>7, <2>1
<1>12. Len(b) = 2 + Len(s) + Len(t) /\ end = 2 + Len(s)
  BY <1>3, <1>6, <1>7, <1>8
<1>13. decode_utf8_string(b) = Found(s)
  BY <1>5, <1>12 DEF Found
<1>14. b = encode_utf8_string(s) \o t
  BY <1>8, <1>9, <1>11
<1>15. t = SubSeq(b, 2 + Len(s) + 1, Len(b))
  BY <1>12 DEF t
<1> QED
  BY <1>8, <1>10, <1>12, <1>13, <1>14, <1>15

\* Both decoders find an encoded string, whatever follows it.
LEMMA StringFound ==
    ASSUME NEW s \in Utf8String, NEW t \in Seq(Byte)
    PROVE  /\ encode_utf8_string(s) \o t \in Seq(Byte)
           /\ Len(encode_utf8_string(s) \o t) = 2 + Len(s) + Len(t)
           /\ decode_utf8_string(encode_utf8_string(s) \o t) = Found(s)
           /\ C!decode_utf8_str(encode_utf8_string(s) \o t, 0) = Found(s)
           /\ SubSeq(encode_utf8_string(s) \o t, 2 + Len(s) + 1,
                     Len(encode_utf8_string(s) \o t)) = t
<1>1. s \in Seq(Byte) /\ Len(s) <= U16Max /\ from_utf8(s) /\ Len(s) \in Nat /\ Len(t) \in Nat
  BY DEF Utf8String
<1>2. /\ Len(s) \in U16 /\ encode_utf8_string(s) = to_be_bytes(Len(s)) \o s
      /\ encode_utf8_string(s) \in Seq(Byte)
      /\ Len(encode_utf8_string(s)) = 2 + Len(s)
  BY <1>1, StringBytes
<1>3. PICK n \in Nat : n = Len(s)
  BY <1>1
<1>4. PICK e \in Seq(Byte) : e = encode_utf8_string(s) /\ Len(e) = 2 + n
  BY <1>2, <1>3
<1>5. PICK b \in Seq(Byte) :
        /\ b = e \o t /\ Len(b) = 2 + n + Len(t)
        /\ \A k \in 1..(2 + n) : b[k] = e[k]
        /\ SubSeq(b, 1, 2 + n) = e
        /\ SubSeq(b, 2 + n + 1, 2 + n + Len(t)) = t
  <2>1. /\ e \o t \in Seq(Byte) /\ Len(e \o t) = Len(e) + Len(t)
        /\ \A k \in 1..Len(e) : (e \o t)[k] = e[k]
        /\ SubSeq(e \o t, 1, Len(e)) = e
        /\ SubSeq(e \o t, Len(e) + 1, Len(e) + Len(t)) = t
    BY Joined
  <2> QED
    BY <1>4, <2>1
<1>6. PICK d \in Seq(Byte) : d = to_be_bytes(n) /\ Len(d) = 2 /\ d[1] * 256 + d[2] = n
  BY <1>2, <1>3, BeBytes
<1>7. e = d \o s
  BY <1>2, <1>3, <1>4, <1>6
<1>8. e[1] = d[1] /\ e[2] = d[2] /\ SubSeq(e, 3, 2 + n) = s
  <2>1. /\ \A k \in 1..2 : (d \o s)[k] = d[k]
        /\ SubSeq(d \o s, 2 + 1, 2 + n) = s
    <3>1. /\ \A k \in 1..Len(d) : (d \o s)[k] = d[k]
          /\ SubSeq(d \o s, Len(d) + 1, Len(d) + Len(s)) = s
      BY <1>1, Joined
    <3> QED
      BY <1>3, <1>6, <3>1
  <2>2. 1 \in 1..2 /\ 2 \in 1..2 /\ 2 + 1 = 3
    OBVIOUS
  <2> QED
    BY <1>7, <2>1, <2>2
<1>9. b[1] = d[1] /\ b[2] = d[2]
  <2>1. 1 \in 1..(2 + n) /\ 2 \in 1..(2 + n)
    OBVIOUS
  <2> QED
    BY <1>5, <1>8, <2>1
<1>10. from_be_bytes(b, 0) = n /\ C!from_be_bytes(b, 0) = n
  <2>1. 0 + 1 = 1 /\ 0 + 2 = 2
    OBVIOUS
  <2> QED
    BY <1>6, <1>9, <2>1 DEF from_be_bytes, C!from_be_bytes
<1>11. SubSeq(b, 3, 2 + n) = s
  <2>1. /\ 2 + n \in Nat /\ 2 <= 2 + n /\ 2 + n <= Len(b) /\ 2 + n <= Len(e)
        /\ (2 + n) - 2 = n /\ 2 + 1 = 3 /\ \A k \in 1..n : 2 + k \in 1..(2 + n)
    BY <1>1, <1>4, <1>5
  <2>2. /\ SubSeq(b, 2 + 1, 2 + n) \in Seq(Byte)
        /\ Len(SubSeq(b, 2 + 1, 2 + n)) = (2 + n) - 2
        /\ \A k \in 1..((2 + n) - 2) : SubSeq(b, 2 + 1, 2 + n)[k] = b[2 + k]
    BY <2>1, Part, 2 \in Nat
  <2>3. /\ SubSeq(e, 2 + 1, 2 + n) \in Seq(Byte)
        /\ Len(SubSeq(e, 2 + 1, 2 + n)) = (2 + n) - 2
        /\ \A k \in 1..((2 + n) - 2) : SubSeq(e, 2 + 1, 2 + n)[k] = e[2 + k]
    BY <2>1, Part, 2 \in Nat
  <2>4. SubSeq(b, 3, 2 + n) \in Seq(Byte) /\ Len(SubSeq(b, 3, 2 + n)) = Len(s)
    BY <1>3, <2>1, <2>2
  <2>5. \A k \in 1..Len(s) : SubSeq(b, 3, 2 + n)[k] = s[k]
    BY <1>3, <1>5, <1>8, <2>1, <2>2, <2>3
  <2> QED
    BY <1>1, <2>4, <2>5, SeqEqual
<1>12. /\ ~(Len(b) < 2) /\ ~(Len(b) < 2 + n) /\ ~(0 + 2 > Len(b)) /\ ~(2 + n > Len(b))
       /\ 0 + 2 + n = 2 + n /\ 0 + 3 = 3
  BY <1>1, <1>5
<1>13. decode_utf8_string(b) = Found(s)
  BY <1>1, <1>3, <1>10, <1>11, <1>12 DEF decode_utf8_string, Found
<1>14. C!decode_utf8_str(b, 0) = Found(s)
  BY <1>1, <1>3, <1>10, <1>11, <1>12 DEF C!decode_utf8_str, Found
<1> QED
  BY <1>3, <1>4, <1>5, <1>13, <1>14

-----------------------------------------------------------------------------
(* PUBLISH *)

\* byte0
LEMMA Header ==
    ASSUME NEW t \in Nat, NEW f \in Nat, f < 16
    PROVE  (t * 16 + f) \div 16 = t /\ (t * 16 + f) % 16 = f
<1>1. PICK n \in Nat : n = t * 16 + f
  OBVIOUS
<1>2. PICK q \in Nat, r \in Nat : /\ q = n \div 16 /\ r = n % 16
                                 /\ n = 16 * q + r /\ r < 16
  BY SMT
<1>3. q = t /\ r = f
  BY <1>1, <1>2, SMT
<1> QED
  BY <1>1, <1>2, <1>3

LEMMA PublishFlags ==
    ASSUME NEW q \in {0, 1}, NEW r \in {0, 1}
    PROVE  /\ q * 2 + r \in Nat /\ q * 2 + r < 16
           /\ ((q * 2 + r) \div 2) % 4 = q
           /\ Bit(q * 2 + r, 1) <=> r = 1
BY SMT DEF Bit

\* The fields of a PUBLISH as encode_publish writes them.
IdBytes(id) == IF id = None THEN <<>> ELSE to_be_bytes(id)

LEMMA IdBytesType ==
    ASSUME NEW id \in U16
    PROVE  /\ IdBytes(id) \in Seq(Byte)
           /\ Len(IdBytes(id)) = IF id = None THEN 0 ELSE 2
<1>1. <<>> \in Seq(Byte) /\ Len(<<>>) = 0
  OBVIOUS
<1>2. to_be_bytes(id) \in Seq(Byte) /\ Len(to_be_bytes(id)) = 2
  BY BeBytes
<1>3. CASE id = None
  BY <1>1, <1>3 DEF IdBytes
<1>4. CASE id # None
  BY <1>2, <1>4 DEF IdBytes
<1> QED
  BY <1>3, <1>4

LEMMA PublishFields ==
    ASSUME NEW p \in PublishPacket
    PROVE  /\ p.topic \in Utf8String /\ p.topic \in TopicName /\ p.payload \in Seq(Byte)
           /\ p.qos \in {0, 1} /\ p.retain \in BOOLEAN /\ p.packet_id \in U16
           /\ (p.qos = 0) <=> (p.packet_id = None)
           /\ p.type = "PUBLISH"
           /\ p = [type |-> "PUBLISH", topic |-> p.topic, payload |-> p.payload, qos |-> p.qos,
                   retain |-> p.retain, packet_id |-> p.packet_id]
BY DEF PublishPacket, TopicName

LEMMA PublishEncoded ==
    ASSUME NEW p \in PublishPacket
    PROVE  /\ encode(p).byte0 = 48 + (p.qos * 2 + (IF p.retain THEN 1 ELSE 0))
           /\ encode(p).body = (encode_utf8_string(p.topic) \o IdBytes(p.packet_id)) \o p.payload
<1>1. p.type = "PUBLISH"
  BY PublishFields
<1>2. encode(p) = encode_publish(p)
  BY <1>1 DEF encode
<1> DEFINE flags == p.qos * 2 + (IF p.retain THEN 1 ELSE 0)
           body == (encode_utf8_string(p.topic) \o IdBytes(p.packet_id)) \o p.payload
<1>3. encode_publish(p) = [byte0 |-> PT_PUBLISH * 16 + flags, body |-> body]
  BY Zenon DEF encode_publish, prepend_fixed_header, IdBytes
<1>4. PT_PUBLISH * 16 = 48
  BY DEF PT_PUBLISH
<1> HIDE DEF flags, body
<1>5. encode(p).byte0 = 48 + flags /\ encode(p).body = body
  BY <1>2, <1>3, <1>4
<1> QED
  BY <1>5 DEF flags, body

LEMMA PublishMade ==
    ASSUME NEW s \in TopicName, NEW t \in Seq(Byte), NEW q \in {0, 1}, NEW r \in BOOLEAN,
           NEW id \in U16, (q = 0) <=> (id = None)
    PROVE  [type |-> "PUBLISH", topic |-> s, payload |-> t, qos |-> q, retain |-> r,
            packet_id |-> id] \in PublishPacket
BY DEF PublishPacket

\* decode_publish: what it accepts is the encoding of what it returns, and of
\* the kind that the broker relies on.
LEMMA PublishDecoded ==
    ASSUME NEW flags \in Nat, NEW body \in Seq(Byte), ~ IsErr(decode_publish(flags, body))
    PROVE  /\ decode_publish(flags, body) \in PublishPacket
           /\ encode(decode_publish(flags, body)).body = body
           /\ decode_publish(flags, body).qos = (flags \div 2) % 4
           /\ decode_publish(flags, body).retain = Bit(flags, 1)
<1> DEFINE r == decode_publish(flags, body)
           qos == (flags \div 2) % 4
           topic == decode_utf8_string(body)
           pos == topic.end + 2 * qos
           id == IF qos = 0 THEN None ELSE from_be_bytes(body, topic.end)
<1>1. IsErr(Malformed) /\ IsErr(Unsupported)
  BY DEF IsErr, Malformed, Unsupported, Err
<1>2. r = IF qos = 2
          THEN Unsupported
          ELSE IF \/ qos = 3 \/ IsErr(topic) \/ topic.s = <<>>
                  \/ Contains(topic.s, Plus) \/ Contains(topic.s, Hash)
                  \/ Len(body) < pos
                  \/ qos = 1 /\ id = 0
               THEN Malformed
               ELSE [type |-> "PUBLISH", topic |-> topic.s, payload |-> From(body, pos),
                     qos |-> qos, retain |-> Bit(flags, 1), packet_id |-> id]
  BY Zenon DEF decode_publish
<1>3. qos \in {0, 1, 2, 3}
  BY SMT
<1>4. Bit(flags, 1) \in BOOLEAN
  BY DEF Bit
<1>5. ~ IsErr(r)
  OBVIOUS
<1> HIDE DEF r, qos, topic, pos, id
<1>6. /\ qos \in {0, 1} /\ ~ IsErr(topic) /\ topic.s # <<>>
      /\ ~ Contains(topic.s, Plus) /\ ~ Contains(topic.s, Hash)
      /\ ~ (Len(body) < pos) /\ ~ (qos = 1 /\ id = 0)
      /\ r = [type |-> "PUBLISH", topic |-> topic.s, payload |-> From(body, pos),
              qos |-> qos, retain |-> Bit(flags, 1), packet_id |-> id]
  BY <1>1, <1>2, <1>3, <1>5
<1>7. PICK s \in Utf8String, t \in Seq(Byte) :
        /\ topic = Found(s)
        /\ body = encode_utf8_string(s) \o t
        /\ Len(body) = 2 + Len(s) + Len(t)
        /\ t = SubSeq(body, 2 + Len(s) + 1, Len(body))
  BY <1>6, StringDecoded DEF topic
<1>8. /\ topic.s = s /\ topic.end = 2 + Len(s)
  BY <1>7 DEF Found
<1>9. PICK n \in Nat : n = 2 + Len(s) /\ n <= Len(body) /\ Len(body) \in Nat
  <2>1. PICK a \in Nat, c \in Nat : a = Len(s) /\ c = Len(t)
    BY DEF Utf8String
  <2>2. Len(body) = 2 + a + c
    BY <1>7, <2>1
  <2>3. 2 + a \in Nat /\ 2 + a <= 2 + a + c /\ 2 + a + c \in Nat
    OBVIOUS
  <2> QED
    BY <2>1, <2>2, <2>3
<1>10. s \in TopicName
  BY <1>6, <1>8 DEF TopicName
<1>11. /\ encode_utf8_string(s) \in Seq(Byte) /\ Len(encode_utf8_string(s)) = n
       /\ encode_utf8_string(s) = SubSeq(body, 1, n)
  <2>1. encode_utf8_string(s) \in Seq(Byte) /\ Len(encode_utf8_string(s)) = 2 + Len(s)
    BY StringBytes DEF Utf8String
  <2>2. PICK e \in Seq(Byte) : e = encode_utf8_string(s) /\ Len(e) = n
    BY <1>9, <2>1
  <2>3. SubSeq(e \o t, 1, Len(e)) = e
    BY Joined
  <2> QED
    BY <1>7, <2>2, <2>3
<1>12. PICK m \in Nat : /\ m = n + 2 * qos /\ m <= Len(body)
                        /\ From(body, pos) = SubSeq(body, m + 1, Len(body))
  <2>1. pos = n + 2 * qos
    BY <1>8, <1>9 DEF pos
  <2>2. pos \in Nat /\ pos <= Len(body)
    BY <1>6, <1>9, <2>1
  <2> QED
    BY <2>1, <2>2, FromIs
<1>13. /\ SubSeq(body, m + 1, Len(body)) \in Seq(Byte)
       /\ body = SubSeq(body, 1, m) \o SubSeq(body, m + 1, Len(body))
  BY <1>12, Cut
<1>14. CASE qos = 0
  <2>1. id = None /\ m = n
    BY <1>12, <1>14 DEF id
  <2>2. id \in U16
    BY <2>1, U16IsNat, SMT DEF None, U16Max
  <2>3. r \in PublishPacket
    BY <1>4, <1>6, <1>8, <1>10, <1>12, <1>13, <1>14, <2>1, <2>2, PublishMade
  <2>4. encode_utf8_string(s) \o <<>> = encode_utf8_string(s)
    BY <1>11, ConcatEmptySeq
  <2>5. encode(r).body = (encode_utf8_string(s) \o <<>>) \o SubSeq(body, m + 1, Len(body))
    <3>1. r.topic = s /\ r.packet_id = None /\ r.payload = SubSeq(body, m + 1, Len(body))
      BY <1>6, <1>8, <1>12, <2>1
    <3>2. IdBytes(None) = <<>>
      BY DEF IdBytes
    <3> QED
      BY <2>3, <3>1, <3>2, PublishEncoded
  <2>6. encode(r).body = body
    BY <1>11, <1>13, <2>1, <2>4, <2>5
  <2> QED
    BY <1>6, <2>3, <2>6 DEF r, qos
<1>15. CASE qos = 1
  <2>1. id = from_be_bytes(body, n) /\ id # None /\ m = n + 2
    BY <1>6, <1>8, <1>9, <1>12, <1>15 DEF id, None
  <2>2. id \in U16 /\ to_be_bytes(id) = SubSeq(body, n + 1, n + 2)
    BY <1>12, <2>1, BeRead
  <2>3. r \in PublishPacket
    <3>1. (qos = 0) <=> (id = None)
      BY <1>15, <2>1
    <3>2. r = [type |-> "PUBLISH", topic |-> s, payload |-> SubSeq(body, m + 1, Len(body)),
               qos |-> qos, retain |-> Bit(flags, 1), packet_id |-> id]
      BY <1>6, <1>8, <1>12
    <3>3. qos \in {0, 1} /\ id \in U16 /\ SubSeq(body, m + 1, Len(body)) \in Seq(Byte)
      BY <1>6, <1>13, <2>2, Zenon
    <3> QED
      BY <1>4, <1>10, <3>1, <3>2, <3>3, PublishMade, Zenon
  <2>4. SubSeq(body, 1, n) \o SubSeq(body, n + 1, m) = SubSeq(body, 1, m)
    <3>1. 1 \in 1..(Len(body) + 1) /\ n \in (1 - 1)..Len(body) /\ m \in n..Len(body)
      BY <1>9, <1>12, <2>1
    <3> QED
      BY <3>1, ConcatAdjacentSubSeq
  <2>5. encode(r).body = (encode_utf8_string(s) \o to_be_bytes(id)) \o SubSeq(body, m + 1, Len(body))
    <3>1. r.topic = s /\ r.packet_id = id /\ r.payload = SubSeq(body, m + 1, Len(body))
      BY <1>6, <1>8, <1>12
    <3>2. IdBytes(id) = to_be_bytes(id)
      BY <2>1 DEF IdBytes
    <3> QED
      BY <2>3, <3>1, <3>2, PublishEncoded
  <2>6. encode(r).body = body
    BY <1>11, <1>13, <2>1, <2>2, <2>4, <2>5
  <2> QED
    BY <1>6, <2>3, <2>6 DEF r, qos
<1> QED
  BY <1>6, <1>14, <1>15

\* Where the fields of an encoded PUBLISH are.
LEMMA PublishLayout ==
    ASSUME NEW p \in PublishPacket
    PROVE  LET body == encode(p).body
               n == 2 + Len(p.topic)
               m == n + 2 * p.qos
           IN  /\ body \in Seq(Byte) /\ n \in Nat /\ m \in Nat /\ m <= Len(body)
               /\ Len(body) \in Nat
               /\ decode_utf8_string(body) = Found(p.topic)
               /\ C!decode_utf8_str(body, 0) = Found(p.topic)
               /\ p.qos = 1 => /\ from_be_bytes(body, n) = p.packet_id
                               /\ C!from_be_bytes(body, n) = p.packet_id
               /\ SubSeq(body, m + 1, Len(body)) = p.payload
<1>0. /\ p.topic \in Utf8String /\ p.payload \in Seq(Byte)
      /\ p.qos \in {0, 1} /\ p.packet_id \in U16
      /\ (p.qos = 0) <=> (p.packet_id = None)
  BY PublishFields
<1>1. PICK e \in Seq(Byte), d \in Seq(Byte), t \in Seq(Byte) :
        /\ e = encode_utf8_string(p.topic) /\ d = IdBytes(p.packet_id) /\ t = p.payload
        /\ Len(e) = 2 + Len(p.topic)
        /\ Len(d) = 2 * p.qos
  <2>1. /\ encode_utf8_string(p.topic) \in Seq(Byte)
        /\ Len(encode_utf8_string(p.topic)) = 2 + Len(p.topic)
    BY <1>0, StringBytes DEF Utf8String
  <2>2. /\ IdBytes(p.packet_id) \in Seq(Byte)
        /\ Len(IdBytes(p.packet_id)) = IF p.packet_id = None THEN 0 ELSE 2
    BY <1>0, IdBytesType
  <2>3. Len(IdBytes(p.packet_id)) = 2 * p.qos
    BY <1>0, <2>2
  <2> QED
    BY <1>0, <2>1, <2>2, <2>3
<1>2. encode(p).body = (e \o d) \o t
  BY <1>1, PublishEncoded
<1>3. (e \o d) \o t = e \o (d \o t)
  BY Regroup, Zenon DEF Regrouped
<1>4. PICK n \in Nat, m \in Nat : n = Len(e) /\ m = n + Len(d)
  OBVIOUS
<1>5. PICK body \in Seq(Byte) : body = encode(p).body /\ body = e \o (d \o t) /\ body = (e \o d) \o t
  <2>1. e \o d \in Seq(Byte)
    BY Joined
  <2>2. (e \o d) \o t \in Seq(Byte)
    BY <2>1, Joined
  <2> QED
    BY <1>2, <1>3, <2>2
<1>6. /\ decode_utf8_string(body) = Found(p.topic)
      /\ C!decode_utf8_str(body, 0) = Found(p.topic)
  <2>1. PICK v \in Seq(Byte) : v = d \o t
    BY Joined
  <2>2. PICK s \in Utf8String : s = p.topic
    BY <1>0
  <2>3. /\ decode_utf8_string(encode_utf8_string(s) \o v) = Found(s)
        /\ C!decode_utf8_str(encode_utf8_string(s) \o v, 0) = Found(s)
    BY StringFound
  <2>4. body = encode_utf8_string(s) \o v
    BY <1>1, <1>5, <2>1, <2>2
  <2> QED
    BY <2>2, <2>3, <2>4
<1>7. /\ Len(body) = m + Len(t) /\ SubSeq(body, m + 1, Len(body)) = t
      /\ \A k \in 1..m : body[k] = (e \o d)[k]
  <2>1. PICK u \in Seq(Byte) : u = e \o d /\ Len(u) = m
    <3>1. e \o d \in Seq(Byte) /\ Len(e \o d) = Len(e) + Len(d)
      BY Joined
    <3> QED
      BY <1>4, <3>1
  <2>2. /\ Len(u \o t) = Len(u) + Len(t)
        /\ \A k \in 1..Len(u) : (u \o t)[k] = u[k]
        /\ SubSeq(u \o t, Len(u) + 1, Len(u) + Len(t)) = t
    BY Joined
  <2> QED
    BY <1>5, <2>1, <2>2
<1>8. ASSUME p.qos = 1
      PROVE  /\ from_be_bytes(body, n) = p.packet_id
             /\ C!from_be_bytes(body, n) = p.packet_id
  <2>1. d = to_be_bytes(p.packet_id)
    <3>1. p.packet_id # None
      BY <1>0, <1>8
    <3> QED
      BY <1>1, <3>1 DEF IdBytes
  <2>2. Len(d) = 2 /\ d[1] * 256 + d[2] = p.packet_id
    BY <1>0, <2>1, BeBytes
  <2>3. \A k \in 1..Len(d) : (e \o d)[Len(e) + k] = d[k]
    BY Joined
  <2>4. 1 \in 1..2 /\ 2 \in 1..2 /\ n + 1 \in 1..m /\ n + 2 \in 1..m
    BY <1>4, <2>2
  <2>5. body[n + 1] = d[1] /\ body[n + 2] = d[2]
    BY <1>4, <1>7, <2>2, <2>3, <2>4
  <2> QED
    BY <2>2, <2>5 DEF from_be_bytes, C!from_be_bytes
<1>9. n = 2 + Len(p.topic) /\ m = (2 + Len(p.topic)) + 2 * p.qos
  BY <1>1, <1>4
<1>10. Len(body) \in Nat /\ m <= Len(body)
  <2>1. PICK k \in Nat : k = Len(t)
    OBVIOUS
  <2>2. Len(body) = m + k
    BY <1>7, <2>1
  <2> QED
    BY <2>2
<1> QED
  BY <1>1, <1>5, <1>6, <1>7, <1>8, <1>9, <1>10

LEMMA PublishHeader ==
    ASSUME NEW p \in PublishPacket
    PROVE  /\ encode(p).byte0 \div 16 = 3
           /\ encode(p).byte0 % 16 \in Nat
           /\ ((encode(p).byte0 % 16) \div 2) % 4 = p.qos
           /\ Bit(encode(p).byte0 % 16, 1) = p.retain
<1>1. PICK r \in {0, 1} : r = (IF p.retain THEN 1 ELSE 0)
  OBVIOUS
<1>2. p.qos \in {0, 1} /\ p.retain \in BOOLEAN
  BY PublishFields
<1>3. PICK f \in Nat : /\ f = p.qos * 2 + r /\ f < 16
                       /\ (f \div 2) % 4 = p.qos /\ (Bit(f, 1) <=> r = 1)
  BY <1>2, PublishFlags
<1>4. encode(p).byte0 = 3 * 16 + f
  <2>1. encode(p).byte0 = 48 + f
    BY <1>1, <1>3, PublishEncoded
  <2> QED
    BY <2>1
<1>5. (3 * 16 + f) \div 16 = 3 /\ (3 * 16 + f) % 16 = f
  BY <1>3, Header
<1>6. Bit(f, 1) = p.retain
  <2>1. Bit(f, 1) \in BOOLEAN
    BY DEF Bit
  <2>2. CASE p.retain = TRUE
    <3>1. r = 1
      BY <1>1, <2>2
    <3> QED
      BY <1>3, <2>1, <2>2, <3>1
  <2>3. CASE p.retain = FALSE
    <3>1. r = 0
      BY <1>1, <2>3
    <3>2. ~ Bit(f, 1)
      BY <1>3, <3>1
    <3> QED
      BY <2>1, <2>3, <3>2
  <2> QED
    BY <1>2, <2>2, <2>3
<1> QED
  BY <1>3, <1>4, <1>5, <1>6

LEMMA SeenPublish ==
    ASSUME NEW p \in PublishPacket
    PROVE  Seen(p) = [type |-> "PUBLISH", topic |-> p.topic, qos |-> p.qos,
                      packet_id |-> p.packet_id, payload |-> p.payload]
<1>1. p = [type |-> "PUBLISH", topic |-> p.topic, payload |-> p.payload, qos |-> p.qos,
           retain |-> p.retain, packet_id |-> p.packet_id]
  BY PublishFields
<1>2. DOMAIN p = {"type", "topic", "payload", "qos", "retain", "packet_id"}
  BY <1>1
<1>3. DOMAIN p \ {"retain"} = {"type", "topic", "qos", "packet_id", "payload"}
  BY <1>2
<1>4. p.type = "PUBLISH"
  BY PublishFields
<1> QED
  BY <1>3, <1>4 DEF Seen

\* The match on the packet type, in both decoders.
LEMMA Dispatch ==
    ASSUME NEW f, NEW t, t = f.byte0 \div 16
    PROVE  /\ t = 1 => decode(f) = decode_connect(f.body)
           /\ t = 8 => decode(f) = decode_subscribe(f.body)
           /\ t = 10 => decode(f) = decode_unsubscribe(f.body)
           /\ t = 3 => decode(f) = decode_publish(f.byte0 % 16, f.body)
           /\ t = 4 => decode(f) = IF f.byte0 % 16 # 0 THEN Malformed ELSE decode_puback(f.body)
           /\ t = 12 => decode(f) = Bare("PINGREQ", f.body)
           /\ t = 14 => decode(f) = Bare("DISCONNECT", f.body)
           /\ t \notin {1, 8, 10, 3, 4, 12, 14} => IsErr(decode(f))
<1>1. decode(f) =
        CASE t = 1 -> decode_connect(f.body)
          [] t = 8 -> decode_subscribe(f.body)
          [] t = 10 -> decode_unsubscribe(f.body)
          [] t = 3 -> decode_publish(f.byte0 % 16, f.body)
          [] t = 4 -> IF f.byte0 % 16 # 0 THEN Malformed ELSE decode_puback(f.body)
          [] t = 12 -> Bare("PINGREQ", f.body)
          [] t = 14 -> Bare("DISCONNECT", f.body)
          [] t \in {2, 9, 11, 13} -> Unsupported
          [] OTHER -> Err("UnknownPacketType")
  BY Zenon DEF decode, PT_CONNECT, PT_SUBSCRIBE, PT_UNSUBSCRIBE, PT_PUBLISH, PT_PUBACK,
     PT_PINGREQ, PT_DISCONNECT, PT_CONNACK, PT_SUBACK, PT_UNSUBACK, PT_PINGRESP
<1>2. IsErr(Unsupported) /\ IsErr(Err("UnknownPacketType"))
  BY DEF IsErr, Unsupported, Err
<1> QED
  BY <1>1, <1>2

LEMMA ClientDispatch ==
    ASSUME NEW f, NEW t, t = f.byte0 \div 16
    PROVE  /\ t = 2 => C!decode(f) = C!decode_connack_body(f.body)
           /\ t = 9 => C!decode(f) = C!decode_suback_body(f.body)
           /\ t = 3 => C!decode(f) = C!decode_publish_body(f.byte0 % 16, f.body)
           /\ t = 4 => C!decode(f) = C!decode_puback_body(f.body)
<1>1. C!decode(f) =
        CASE t = 2 -> C!decode_connack_body(f.body)
          [] t = 9 -> C!decode_suback_body(f.body)
          [] t = 3 -> C!decode_publish_body(f.byte0 % 16, f.body)
          [] t = 4 -> C!decode_puback_body(f.body)
          [] OTHER -> [type |-> "Other"]
  BY Zenon DEF C!decode, C!PT_CONNACK, C!PT_SUBACK, C!PT_PUBLISH, C!PT_PUBACK
<1> QED
  BY <1>1

\* Both sides read what the broker writes for a PUBLISH.
LEMMA PublishRead ==
    ASSUME NEW p \in PublishPacket
    PROVE  decode(encode(p)) = p /\ C!decode(encode(p)) = Seen(p)
<1>0. /\ p.topic \in TopicName /\ p.payload \in Seq(Byte)
      /\ p.qos \in {0, 1} /\ p.packet_id \in U16
      /\ (p.qos = 0) <=> (p.packet_id = None)
  BY PublishFields
<1>1. PICK b0, body, n, m :
        /\ b0 = encode(p).byte0 /\ body = encode(p).body
        /\ n = 2 + Len(p.topic) /\ m = n + 2 * p.qos
  OBVIOUS
<1>2. /\ body \in Seq(Byte) /\ n \in Nat /\ m \in Nat /\ m <= Len(body)
      /\ Len(body) \in Nat
      /\ decode_utf8_string(body) = Found(p.topic)
      /\ C!decode_utf8_str(body, 0) = Found(p.topic)
      /\ p.qos = 1 => /\ from_be_bytes(body, n) = p.packet_id
                      /\ C!from_be_bytes(body, n) = p.packet_id
      /\ SubSeq(body, m + 1, Len(body)) = p.payload
  BY <1>1, PublishLayout
<1>3. PICK f \in Nat : /\ f = b0 % 16 /\ b0 \div 16 = 3
                       /\ (f \div 2) % 4 = p.qos /\ Bit(f, 1) = p.retain
  BY <1>1, PublishHeader
<1>4. From(body, m) = p.payload /\ C!From(body, m) = p.payload
  BY <1>2, FromIs
<1>5. /\ Found(p.topic).s = p.topic /\ Found(p.topic).end = n
      /\ ~ IsErr(Found(p.topic)) /\ Found(p.topic) # C!Err
  BY <1>1 DEF Found, IsErr, C!Err
<1>6. p.topic # <<>> /\ ~ Contains(p.topic, Plus) /\ ~ Contains(p.topic, Hash)
  BY <1>0 DEF TopicName
<1>7. decode_publish(f, body) =
        [type |-> "PUBLISH", topic |-> p.topic, payload |-> p.payload,
         qos |-> p.qos, retain |-> p.retain, packet_id |-> p.packet_id]
  <2>1. p.qos # 2 /\ p.qos # 3
    BY <1>0
  <2>2. ~ (Len(body) < m)
    BY <1>2
  <2>3. (IF p.qos = 0 THEN None ELSE from_be_bytes(body, n)) = p.packet_id
    BY <1>0, <1>2
  <2>4. ~ (p.qos = 1 /\ p.packet_id = 0)
    BY <1>0 DEF None
  <2> QED
    BY <1>1, <1>2, <1>3, <1>4, <1>5, <1>6, <2>1, <2>2, <2>3, <2>4 DEF decode_publish
<1>8. C!decode_publish_body(f, body) =
        [type |-> "PUBLISH", topic |-> p.topic, qos |-> p.qos,
         packet_id |-> p.packet_id, payload |-> p.payload]
  <2>1. p.qos > 0 => p.qos = 1 /\ ~ (n + 2 > Len(body)) /\ p.packet_id # 0
    BY <1>0, <1>1, <1>2 DEF None
  <2>2. (IF p.qos > 0 THEN C!from_be_bytes(body, n) ELSE C!None) = p.packet_id
    <3>1. ~ (p.qos > 0) => p.qos = 0
      BY <1>0
    <3>2. C!None = None
      BY DEF C!None, None
    <3> QED
      BY <1>0, <1>2, <2>1, <3>1, <3>2
  <2>3. C!From(body, IF p.qos > 0 THEN n + 2 ELSE n) = p.payload
    <3>1. (IF p.qos > 0 THEN n + 2 ELSE n) = m
      BY <1>0, <1>1, <1>2
    <3> QED
      BY <1>4, <3>1
  <2>4. p.qos > 0 => C!from_be_bytes(body, n) = p.packet_id
    BY <1>2, <2>1
  <2> QED
    BY <1>1, <1>2, <1>3, <1>5, <2>1, <2>2, <2>3, <2>4 DEF C!decode_publish_body
<1>9. decode(encode(p)) = decode_publish(f, body)
  BY <1>1, <1>3, Dispatch
<1>10. C!decode(encode(p)) = C!decode_publish_body(f, body)
  BY <1>1, <1>3, ClientDispatch
<1> QED
  BY <1>7, <1>8, <1>9, <1>10, PublishFields, SeenPublish

-----------------------------------------------------------------------------
(***************************************************************************)
(* Recursion over the naturals.  The library states it for an operator; in *)
(* the proofs below the turn of a loop is a function and the property that *)
(* is shown for every turn a set, which the provers can instantiate.       *)
(***************************************************************************)

LEMMA Induction ==
    ASSUME NEW T, 0 \in T, \A k \in Nat \ {0} : (\A j \in 0..(k - 1) : j \in T) => k \in T
    PROVE  \A k \in Nat : k \in T
<1> DEFINE B == {k \in Nat : k \notin T}
<1>1. SUFFICES ASSUME B # {} PROVE FALSE
  OBVIOUS
<1>2. B \subseteq Nat
  OBVIOUS
<1>3. PICK k \in B : \A j \in B : ~ (j < k)
  <2> HIDE DEF B
  <2> QED
    BY <1>1, <1>2, LeastNatural
<1>4. k \in Nat \ {0}
  OBVIOUS
<1>5. ASSUME NEW j \in 0..(k - 1) PROVE j \in T
  <2>1. j \in Nat /\ j < k
    BY <1>4
  <2> QED
    BY <1>3, <2>1
<1> QED
  BY <1>3, <1>4, <1>5

\* f is v at 0, and on 1..n every value is computed from an earlier one.
Solves(V, v, d, st, n, f) ==
    /\ f \in [0..n -> V]
    /\ f[0] = v
    /\ \A k \in 1..n : f[k] = st[k][f[d[k]]]

LEMMA SolvesNext ==
    ASSUME NEW V, NEW v \in V, NEW d \in [Nat -> Nat], NEW st \in [Nat -> [V -> V]],
           \A k \in Nat \ {0} : d[k] < k,
           NEW n \in Nat, NEW f, Solves(V, v, d, st, n, f)
    PROVE  \E h : Solves(V, v, d, st, n + 1, h)
<1> DEFINE w == st[n + 1][f[d[n + 1]]]
           h == [k \in 0..(n + 1) |-> IF k = n + 1 THEN w ELSE f[k]]
<1>1. /\ f \in [0..n -> V] /\ f[0] = v
      /\ \A k \in 1..n : f[k] = st[k][f[d[k]]]
  BY DEF Solves
<1>2. /\ n + 1 \in Nat \ {0} /\ \A k \in 0..(n + 1) : k \in Nat /\ (k # n + 1 => k \in 0..n)
      /\ \A k \in 1..(n + 1) : k \in Nat \ {0} /\ (k # n + 1 => k \in 1..n)
      /\ 0 \in 0..(n + 1) /\ 0 # n + 1
  OBVIOUS
<1>3. \A k \in 1..(n + 1) : /\ d[k] \in 0..(n + 1) /\ d[k] \in 0..n /\ d[k] # n + 1
  <2> SUFFICES ASSUME NEW k \in 1..(n + 1)
               PROVE  d[k] \in 0..(n + 1) /\ d[k] \in 0..n /\ d[k] # n + 1
    OBVIOUS
  <2>1. d[k] \in Nat /\ d[k] < k /\ k <= n + 1 /\ k \in Nat
    BY <1>2
  <2> QED
    BY <2>1
<1>4. n + 1 \in 1..(n + 1)
  BY <1>2
<1>5. w \in V
  <2>1. d[n + 1] \in 0..n
    BY <1>3, <1>4
  <2>2. f[d[n + 1]] \in V /\ st[n + 1] \in [V -> V]
    BY <1>1, <1>2, <2>1
  <2> QED
    BY <2>2
<1>6. \A k \in 1..(n + 1) : h[d[k]] = f[d[k]]
  BY <1>3
<1>7. h \in [0..(n + 1) -> V]
  <2> HIDE DEF w
  <2> QED
    BY <1>1, <1>2, <1>5
<1>8. h[0] = v
  BY <1>1, <1>2
<1>9. ASSUME NEW k \in 1..(n + 1) PROVE h[k] = st[k][h[d[k]]]
  <2>1. CASE k = n + 1
    <3>1. h[k] = w
      BY <2>1
    <3>2. w = st[k][f[d[k]]]
      BY <2>1
    <3> HIDE DEF w, h
    <3> QED
      BY <1>6, <3>1, <3>2
  <2>2. CASE k # n + 1
    <3>1. h[k] = f[k] /\ k \in 1..n
      BY <1>2, <2>2
    <3> HIDE DEF w, h
    <3> QED
      BY <1>1, <1>6, <3>1
  <2> QED
    BY <2>1, <2>2
<1> HIDE DEF w, h
<1>10. Solves(V, v, d, st, n + 1, h)
  BY <1>7, <1>8, <1>9 DEF Solves
<1> QED
  BY <1>10

LEMMA SolvesExists ==
    ASSUME NEW V, NEW v \in V, NEW d \in [Nat -> Nat], NEW st \in [Nat -> [V -> V]],
           \A k \in Nat \ {0} : d[k] < k
    PROVE  \A n \in Nat : \E f : Solves(V, v, d, st, n, f)
<1> DEFINE T == {n \in Nat : \E f : Solves(V, v, d, st, n, f)}
<1>1. 0 \in T
  <2> DEFINE f == [k \in 0..0 |-> v]
  <2>1. f \in [0..0 -> V] /\ f[0] = v /\ \A k \in 1..0 : FALSE
    OBVIOUS
  <2> HIDE DEF f
  <2>2. Solves(V, v, d, st, 0, f)
    BY <2>1 DEF Solves
  <2> QED
    BY <2>2
<1>2. ASSUME NEW k \in Nat \ {0}, \A j \in 0..(k - 1) : j \in T PROVE k \in T
  <2>1. k - 1 \in 0..(k - 1) /\ k - 1 \in Nat /\ (k - 1) + 1 = k
    OBVIOUS
  <2>2. PICK n \in Nat : n = k - 1 /\ n + 1 = k
    BY <2>1
  <2>3. PICK f : Solves(V, v, d, st, n, f)
    BY <1>2, <2>1, <2>2
  <2>4. \E h : Solves(V, v, d, st, n + 1, h)
    BY <2>3, SolvesNext
  <2> QED
    BY <2>2, <2>4
<1>3. \A n \in Nat : n \in T
  <2> HIDE DEF T
  <2> QED
    BY <1>1, <1>2, Induction
<1> QED
  BY <1>3

LEMMA SolvesUnique ==
    ASSUME NEW V, NEW v, NEW d \in [Nat -> Nat], NEW st,
           \A k \in Nat \ {0} : d[k] < k,
           NEW n \in Nat, NEW m \in Nat, NEW f, NEW g,
           Solves(V, v, d, st, n, f), Solves(V, v, d, st, m, g)
    PROVE  \A k \in Nat : k <= n /\ k <= m => f[k] = g[k]
<1> DEFINE T == {k \in Nat : k <= n /\ k <= m => f[k] = g[k]}
<1>1. 0 \in T
  BY DEF Solves
<1>2. ASSUME NEW k \in Nat \ {0}, \A j \in 0..(k - 1) : j \in T PROVE k \in T
  <2>1. SUFFICES ASSUME k <= n, k <= m PROVE f[k] = g[k]
    OBVIOUS
  <2>2. d[k] \in 0..(k - 1) /\ k \in 1..n /\ k \in 1..m /\ d[k] <= n /\ d[k] <= m
    <3>1. d[k] \in Nat /\ d[k] < k
      OBVIOUS
    <3> QED
      BY <2>1, <3>1
  <2>3. f[d[k]] = g[d[k]]
    BY <1>2, <2>2
  <2>4. f[k] = st[k][f[d[k]]] /\ g[k] = st[k][g[d[k]]]
    BY <2>2 DEF Solves
  <2> QED
    BY <2>3, <2>4
<1>3. \A k \in Nat : k \in T
  <2> HIDE DEF T
  <2> QED
    BY <1>1, <1>2, Induction
<1> QED
  BY <1>3

Recursive(V, v, d, st) ==
    /\ v \in V /\ d \in [Nat -> Nat] /\ st \in [Nat -> [V -> V]]
    /\ \A k \in Nat \ {0} : d[k] < k
Solvable(V, v, d, st) ==
    \E F \in [Nat -> V] : F[0] = v /\ \A k \in Nat \ {0} : F[k] = st[k][F[d[k]]]

LEMMA Recursion ==
    ASSUME NEW V, NEW v, NEW d, NEW st, Recursive(V, v, d, st)
    PROVE  Solvable(V, v, d, st)
<1> USE DEF Recursive
<1> DEFINE S(n) == CHOOSE f : Solves(V, v, d, st, n, f)
           F == [n \in Nat |-> S(n)[n]]
<1>1. ASSUME NEW n \in Nat PROVE Solves(V, v, d, st, n, S(n))
  <2>1. \E f : Solves(V, v, d, st, n, f)
    BY SolvesExists
  <2> QED
    BY <2>1, Zenon
<1> HIDE DEF S
<1>2. F \in [Nat -> V]
  <2>1. ASSUME NEW n \in Nat PROVE S(n)[n] \in V
    <3>1. S(n) \in [0..n -> V] /\ n \in 0..n
      BY <1>1 DEF Solves
    <3> QED
      BY <3>1
  <2> QED
    BY <2>1
<1>3. F[0] = v
  BY <1>1 DEF Solves
<1>4. ASSUME NEW k \in Nat \ {0} PROVE F[k] = st[k][F[d[k]]]
  <2>1. k \in Nat /\ k \in 1..k
    OBVIOUS
  <2>2. PICK j \in Nat : j = d[k] /\ j <= k /\ j <= j
    <3>1. d[k] \in Nat /\ d[k] < k
      OBVIOUS
    <3> QED
      BY <3>1
  <2>3. PICK f : f = S(k) /\ Solves(V, v, d, st, k, f)
    BY <1>1, <2>1
  <2>4. PICK g : g = S(j) /\ Solves(V, v, d, st, j, g)
    BY <1>1
  <2>5. f[j] = g[j]
    BY <2>1, <2>2, <2>3, <2>4, SolvesUnique
  <2>6. f[k] = st[k][f[j]]
    BY <2>1, <2>2, <2>3 DEF Solves
  <2>7. F[k] = f[k] /\ F[j] = g[j]
    BY <2>1, <2>3, <2>4
  <2> QED
    BY <2>2, <2>5, <2>6, <2>7
<1> HIDE DEF F
<1> QED
  BY <1>2, <1>3, <1>4 DEF Solvable

-----------------------------------------------------------------------------
(* FlattenSeq, which the encoders use for a list of filters *)

FlattenTurn(s, g, k) == IF k = 1 THEN s[k] ELSE g[k-1] \o s[k]
Flattens(s, g) == g = [k \in 1..Len(s) |-> FlattenTurn(s, g, k)]

LEMMA FlattenIs ==
    ASSUME NEW s, Len(s) # 0
    PROVE  FlattenSeq(s) = (CHOOSE g : Flattens(s, g))[Len(s)]
BY Zenon DEF FlattenSeq, Flattens, FlattenTurn

LEMMA FlattenExists ==
    ASSUME NEW s \in Seq(Seq(Byte))
    PROVE  \E g : Flattens(s, g)
<1> DEFINE V == Seq(Byte)
           at(k, w) == IF k \in 1..Len(s) THEN FlattenTurn(s, [j \in {k - 1} |-> w], k) ELSE <<>>
           d == [k \in Nat |-> IF k = 0 THEN 0 ELSE k - 1]
           st == [k \in Nat |-> [w \in V |-> at(k, w)]]
<1>1. ASSUME NEW k \in Nat, NEW w \in V PROVE at(k, w) \in V
  <2>1. CASE k \notin 1..Len(s)
    BY <2>1
  <2>2. CASE k \in 1..Len(s)
    <3>1. s[k] \in V
      BY <2>2
    <3>2. w \o s[k] \in V
      BY <3>1, Joined
    <3> QED
      BY <2>2, <3>1, <3>2 DEF FlattenTurn
  <2> QED
    BY <2>1, <2>2
<1>2. <<>> \in V /\ d \in [Nat -> Nat] /\ \A k \in Nat \ {0} : d[k] < k
  OBVIOUS
<1>3. st \in [Nat -> [V -> V]]
  <2> HIDE DEF V, at
  <2> QED
    BY <1>1
<1>4. \A k \in Nat \ {0} : d[k] = k - 1 /\ \A w \in V : st[k][w] = at(k, w)
  <2> HIDE DEF V, at
  <2> QED
    OBVIOUS
<1>5. PICK F \in [Nat -> V] : \A k \in Nat \ {0} : F[k] = st[k][F[d[k]]]
  <2> HIDE DEF V, d, st
  <2>1. Recursive(V, <<>>, d, st)
    BY <1>2, <1>3 DEF Recursive
  <2>2. Solvable(V, <<>>, d, st)
    BY <2>1, Recursion
  <2> QED
    BY <2>2 DEF Solvable
<1> DEFINE g == [k \in 1..Len(s) |-> F[k]]
<1>6. ASSUME NEW k \in 1..Len(s) PROVE g[k] = FlattenTurn(s, g, k)
  <2>1. k \in Nat \ {0} /\ k - 1 \in Nat /\ g[k] = F[k] /\ (k # 1 => k - 1 \in 1..Len(s))
    OBVIOUS
  <2>2. F[k] = at(k, F[k - 1])
    <3> HIDE DEF V, at, d, st
    <3> QED
      BY <1>4, <1>5, <2>1
  <2>3. k # 1 => F[k - 1] = g[k - 1]
    BY <2>1
  <2>4. [j \in {k - 1} |-> F[k - 1]][k - 1] = F[k - 1]
    OBVIOUS
  <2> HIDE DEF g
  <2> QED
    BY <2>1, <2>2, <2>3, <2>4 DEF FlattenTurn
<1>7. g = [k \in 1..Len(s) |-> g[k]]
  OBVIOUS
<1>8. Flattens(s, g)
  <2> HIDE DEF g
  <2> QED
    BY <1>6, <1>7 DEF Flattens
<1> QED
  BY <1>8

\* What FlattenSeq has joined after k sequences.
LEMMA Flattened ==
    ASSUME NEW s \in Seq(Seq(Byte)), s # <<>>
    PROVE  \E g : /\ g[1] = s[1]
                  /\ \A k \in 1..Len(s) : g[k] \in Seq(Byte)
                  /\ \A k \in 2..Len(s) : g[k] = g[k - 1] \o s[k]
                  /\ FlattenSeq(s) = g[Len(s)]
<1>0. PICK n \in Nat : n = Len(s) /\ n # 0
  OBVIOUS
<1>1. PICK g : g = CHOOSE c : Flattens(s, c)
  OBVIOUS
<1>2. Flattens(s, g)
  <2>1. \E c : Flattens(s, c)
    BY FlattenExists
  <2> QED
    BY <1>1, <2>1, Zenon
<1>3. FlattenSeq(s) = g[Len(s)]
  BY <1>0, <1>1, FlattenIs
<1>4. \A k \in 1..n : g[k] = FlattenTurn(s, g, k)
  BY <1>0, <1>2 DEF Flattens
<1>5. g[1] = s[1] /\ \A k \in 2..n : g[k] = g[k - 1] \o s[k]
  <2>1. 1 \in 1..n /\ \A k \in 2..n : k \in 1..n /\ k # 1
    BY <1>0
  <2>2. FlattenTurn(s, g, 1) = s[1]
    BY DEF FlattenTurn
  <2>3. ASSUME NEW k \in 2..n PROVE g[k] = g[k - 1] \o s[k]
    <3>1. FlattenTurn(s, g, k) = g[k - 1] \o s[k]
      BY <2>1, Zenon DEF FlattenTurn
    <3> QED
      BY <1>4, <2>1, <3>1
  <2> QED
    BY <1>4, <2>1, <2>2, <2>3
<1>6. \A k \in 1..n : s[k] \in Seq(Byte)
  BY <1>0
<1> DEFINE T == {k \in Nat : k \in 1..n => g[k] \in Seq(Byte)}
<1>7. 0 \in T
  OBVIOUS
<1>8. ASSUME NEW k \in Nat \ {0}, \A j \in 0..(k - 1) : j \in T PROVE k \in T
  <2>1. SUFFICES ASSUME k \in 1..n PROVE g[k] \in Seq(Byte)
    OBVIOUS
  <2>2. CASE k = 1
    BY <1>5, <1>6, <2>1, <2>2
  <2>3. CASE k # 1
    <3>1. k - 1 \in 0..(k - 1) /\ k - 1 \in 1..n /\ k \in 2..n
      BY <2>1, <2>3
    <3>2. g[k - 1] \in Seq(Byte) /\ s[k] \in Seq(Byte)
      BY <1>6, <1>8, <2>1, <3>1
    <3>3. g[k - 1] \o s[k] \in Seq(Byte)
      BY <3>2, Joined
    <3> QED
      BY <1>5, <3>1, <3>3
  <2> QED
    BY <2>2, <2>3
<1>9. \A k \in Nat : k \in T
  <2> HIDE DEF T
  <2> QED
    BY <1>7, <1>8, Induction
<1>10. \A k \in 1..n : g[k] \in Seq(Byte)
  BY <1>9
<1> QED
  BY <1>0, <1>3, <1>5, <1>10

LEMMA FlattenCons ==
    ASSUME NEW a \in Seq(Byte), NEW s \in Seq(Seq(Byte))
    PROVE  /\ FlattenSeq(s) \in Seq(Byte)
           /\ FlattenSeq(<<a>> \o s) = a \o FlattenSeq(s)
<1> DEFINE u == <<a>> \o s
<1>1. <<a>> \in Seq(Seq(Byte)) /\ Len(<<a>>) = 1 /\ <<a>>[1] = a
  OBVIOUS
<1>2. PICK n \in Nat : n = Len(s)
  OBVIOUS
<1>3. /\ u \in Seq(Seq(Byte)) /\ Len(u) = 1 + n
      /\ u[1] = a /\ \A k \in 1..n : u[k + 1] = s[k]
  <2>1. /\ u \in Seq(Seq(Byte)) /\ Len(u) = Len(<<a>>) + Len(s)
        /\ \A k \in 1..(Len(<<a>>) + Len(s)) :
             u[k] = IF k <= Len(<<a>>) THEN <<a>>[k] ELSE s[k - Len(<<a>>)]
    BY <1>1, ConcatProperties
  <2> HIDE DEF u
  <2>2. u[1] = a
    BY <1>1, <1>2, <2>1
  <2>3. \A k \in 1..n : k + 1 \in 1..(1 + n) /\ ~ (k + 1 <= 1) /\ (k + 1) - 1 = k
    OBVIOUS
  <2> QED
    BY <1>1, <1>2, <2>1, <2>2, <2>3
<1> HIDE DEF u
<1>4. u # <<>>
  BY <1>3
<1>5. PICK h : /\ h[1] = u[1]
               /\ \A k \in 2..Len(u) : h[k] = h[k - 1] \o u[k]
               /\ FlattenSeq(u) = h[Len(u)]
  BY <1>3, <1>4, Flattened
<1>6. CASE s = <<>>
  <2>1. FlattenSeq(s) = <<>>
    BY <1>6 DEF FlattenSeq
  <2>2. FlattenSeq(u) = a
    BY <1>2, <1>3, <1>5, <1>6
  <2>3. a \o <<>> = a /\ <<>> \in Seq(Byte)
    BY ConcatEmptySeq
  <2> QED
    BY <2>1, <2>2, <2>3 DEF u
<1>7. CASE s # <<>>
  <2>1. PICK g : /\ g[1] = s[1]
                 /\ \A k \in 1..Len(s) : g[k] \in Seq(Byte)
                 /\ \A k \in 2..Len(s) : g[k] = g[k - 1] \o s[k]
                 /\ FlattenSeq(s) = g[Len(s)]
    BY <1>7, Flattened
  <2>2. n # 0 /\ n \in 1..n
    BY <1>2, <1>7
  <2>3. \A k \in 1..n : k + 1 \in 2..Len(u) /\ (k + 1) - 1 = k
    BY <1>3
  <2>4. \A k \in 1..n : h[k + 1] = h[k] \o s[k]
    BY <1>3, <1>5, <2>3
  <2> DEFINE T == {k \in Nat : k \in 1..n => h[k + 1] = a \o g[k]}
  <2>5. 0 \in T
    OBVIOUS
  <2>6. ASSUME NEW k \in Nat \ {0}, \A j \in 0..(k - 1) : j \in T PROVE k \in T
    <3>1. SUFFICES ASSUME k \in 1..n PROVE h[k + 1] = a \o g[k]
      OBVIOUS
    <3>2. CASE k = 1
      BY <1>3, <1>5, <2>1, <2>4, <3>1, <3>2
    <3>3. CASE k # 1
      <4>1. /\ k - 1 \in 0..(k - 1) /\ k - 1 \in 1..n /\ k \in 2..n /\ (k - 1) + 1 = k
        BY <3>1, <3>3
      <4>2. PICK c \in Seq(Byte), e \in Seq(Byte) : c = g[k - 1] /\ e = s[k]
        BY <1>2, <2>1, <3>1, <4>1
      <4>3. h[k] = a \o c
        <5>1. k - 1 \in T
          BY <2>6, <4>1
        <5> QED
          BY <4>1, <4>2, <5>1
      <4>4. g[k] = c \o e
        BY <1>2, <2>1, <4>1, <4>2
      <4>5. h[k + 1] = h[k] \o e
        BY <2>4, <3>1, <4>2
      <4>6. (a \o c) \o e = a \o (c \o e)
        BY Regroup, Zenon DEF Regrouped
      <4> QED
        BY <4>3, <4>4, <4>5, <4>6
    <3> QED
      BY <3>2, <3>3
  <2>7. \A k \in Nat : k \in T
    <3> HIDE DEF T
    <3> QED
      BY <2>5, <2>6, Induction
  <2>8. h[n + 1] = a \o g[n]
    BY <2>2, <2>7
  <2>9. FlattenSeq(u) = a \o FlattenSeq(s) /\ FlattenSeq(s) \in Seq(Byte)
    <3>1. 1 + n = n + 1
      OBVIOUS
    <3> QED
      BY <1>2, <1>3, <1>5, <2>1, <2>2, <2>8, <3>1
  <2> QED
    BY <2>9 DEF u
<1> QED
  BY <1>6, <1>7

-----------------------------------------------------------------------------
(***************************************************************************)
(* The loops of decode_subscribe (sub) and decode_unsubscribe (~ sub) over *)
(* the filters of a body, as one.                                          *)
(***************************************************************************)

\* the bytes of b after the n-th
After(b, n) == SubSeq(b, n + 1, Len(b))

LEMMA AfterIs ==
    ASSUME NEW b \in Seq(Byte), NEW n \in Nat, n <= Len(b)
    PROVE  /\ After(b, n) \in Seq(Byte) /\ Len(After(b, n)) = Len(b) - n
           /\ From(b, n) = After(b, n) /\ C!From(b, n) = After(b, n)
           /\ \A k \in 1..(Len(b) - n) : After(b, n)[k] = b[n + k]
<1>1. Len(b) \in Nat /\ Len(b) <= Len(b)
  OBVIOUS
<1>2. /\ SubSeq(b, n + 1, Len(b)) \in Seq(Byte)
      /\ Len(SubSeq(b, n + 1, Len(b))) = Len(b) - n
      /\ \A k \in 1..(Len(b) - n) : SubSeq(b, n + 1, Len(b))[k] = b[n + k]
  BY <1>1, Part
<1> QED
  BY <1>2, FromIs DEF After

LEMMA AfterAfter ==
    ASSUME NEW b \in Seq(Byte), NEW n \in Nat, NEW m \in Nat, n + m <= Len(b)
    PROVE  After(After(b, n), m) = After(b, n + m)
<1>1. PICK c \in Nat : c = Len(b)
  OBVIOUS
<1>2. /\ n <= c /\ m <= c - n /\ n + m \in Nat /\ c - (n + m) = (c - n) - m
      /\ \A k \in 1..(c - (n + m)) : m + k \in 1..(c - n) /\ n + (m + k) = (n + m) + k
  BY <1>1
<1>3. PICK r \in Seq(Byte) : r = After(b, n) /\ Len(r) = c - n /\ \A k \in 1..(c - n) : r[k] = b[n + k]
  BY <1>1, <1>2, AfterIs
<1>4. /\ After(r, m) \in Seq(Byte) /\ Len(After(r, m)) = (c - n) - m
      /\ \A k \in 1..((c - n) - m) : After(r, m)[k] = r[m + k]
  <2>1. m <= Len(r)
    BY <1>2, <1>3
  <2>2. /\ After(r, m) \in Seq(Byte) /\ Len(After(r, m)) = Len(r) - m
        /\ \A k \in 1..(Len(r) - m) : After(r, m)[k] = r[m + k]
    BY <2>1, AfterIs
  <2> QED
    BY <1>3, <2>2
<1>5. PICK j \in Nat : j = n + m
  BY <1>2
<1>6. /\ After(b, j) \in Seq(Byte) /\ Len(After(b, j)) = c - j
      /\ \A k \in 1..(c - j) : After(b, j)[k] = b[j + k]
  <2>1. j <= Len(b)
    BY <1>5
  <2> QED
    BY <1>1, <2>1, AfterIs
<1>7. ASSUME NEW k \in 1..(c - j) PROVE After(r, m)[k] = After(b, j)[k]
  <2>1. k \in 1..((c - n) - m) /\ m + k \in 1..(c - n) /\ n + (m + k) = j + k
    BY <1>2, <1>5
  <2>2. After(r, m)[k] = r[m + k]
    BY <1>4, <2>1
  <2>3. r[m + k] = b[n + (m + k)]
    BY <1>3, <2>1
  <2>4. After(b, j)[k] = b[j + k]
    BY <1>6
  <2> QED
    BY <2>1, <2>2, <2>3, <2>4
<1>8. Len(After(r, m)) = c - j
  BY <1>2, <1>4, <1>5
<1>9. After(r, m) = After(b, j)
  BY <1>4, <1>6, <1>7, <1>8, SeqEqual
<1> QED
  BY <1>3, <1>5, <1>9

LEMMA AfterJoined ==
    ASSUME NEW s \in Seq(Byte), NEW t \in Seq(Byte)
    PROVE  After(s \o t, Len(s)) = t
<1>1. /\ Len(s \o t) = Len(s) + Len(t)
      /\ SubSeq(s \o t, Len(s) + 1, Len(s) + Len(t)) = t
  BY Joined
<1> QED
  BY <1>1 DEF After

\* The next byte.
LEMMA AfterOne ==
    ASSUME NEW b \in Seq(Byte), NEW n \in Nat, n < Len(b)
    PROVE  /\ b[n + 1] \in Byte
           /\ After(b, n) = <<b[n + 1]>> \o After(b, n + 1)
<1>1. PICK c \in Nat : c = Len(b)
  OBVIOUS
<1>2. n + 1 \in 1..c /\ n + 1 \in Nat /\ n + 1 <= c /\ n <= c /\ n < c /\ n + 1 >= 1
  BY <1>1
<1>3. PICK y \in Byte : y = b[n + 1]
  BY <1>1, <1>2
<1>4. /\ After(b, n) \in Seq(Byte) /\ Len(After(b, n)) = c - n
      /\ \A k \in 1..(c - n) : After(b, n)[k] = b[n + k]
  BY <1>1, <1>2, AfterIs
<1>5. PICK j \in Nat : j = n + 1
  BY <1>2
<1>6. PICK r \in Seq(Byte) :
        /\ r = After(b, j) /\ Len(r) = c - j
        /\ \A k \in 1..(c - j) : r[k] = b[j + k]
  <2>1. j <= Len(b)
    BY <1>1, <1>2, <1>5
  <2> QED
    BY <1>1, <2>1, AfterIs
<1>7. PICK e \in Seq(Byte) : e = <<y>> /\ Len(e) = 1 /\ e[1] = y
  <2>1. <<y>> \in Seq(Byte) /\ Len(<<y>>) = 1 /\ <<y>>[1] = y
    OBVIOUS
  <2> QED
    BY <2>1
<1>8. /\ e \o r \in Seq(Byte) /\ Len(e \o r) = 1 + (c - j)
      /\ \A k \in 1..1 : (e \o r)[k] = e[k]
      /\ \A k \in 1..(c - j) : (e \o r)[1 + k] = r[k]
  <2>1. /\ e \o r \in Seq(Byte) /\ Len(e \o r) = Len(e) + Len(r)
        /\ \A k \in 1..Len(e) : (e \o r)[k] = e[k]
        /\ \A k \in 1..Len(r) : (e \o r)[Len(e) + k] = r[k]
    BY Joined
  <2> QED
    BY <1>6, <1>7, <2>1
<1>9. ASSUME NEW k \in 1..(c - n) PROVE After(b, n)[k] = (e \o r)[k]
  <2>1. CASE k = 1
    BY <1>3, <1>4, <1>7, <1>8, <2>1
  <2>2. CASE k # 1
    <3>1. PICK q \in 1..(c - j) : k = 1 + q /\ n + k = j + q
      <4>1. k - 1 \in 1..(c - j) /\ k = 1 + (k - 1) /\ n + k = j + (k - 1)
        BY <1>5, <2>2
      <4> QED
        BY <4>1
    <3>2. (e \o r)[1 + q] = b[j + q]
      BY <1>6, <1>8
    <3>3. After(b, n)[k] = b[n + k]
      BY <1>4
    <3> QED
      BY <3>1, <3>2, <3>3
  <2> QED
    BY <2>1, <2>2
<1>10. Len(e \o r) = c - n
  BY <1>5, <1>8
<1>11. After(b, n) = e \o r
  BY <1>4, <1>8, <1>9, <1>10, SeqEqual
<1> QED
  BY <1>3, <1>5, <1>6, <1>7, <1>11

FilterAt(b, pos) == decode_utf8_string(From(b, pos))

LEMMA FilterFound ==
    ASSUME NEW b \in Seq(Byte), NEW pos \in Nat, pos <= Len(b), ~ IsErr(FilterAt(b, pos))
    PROVE  \E s \in Utf8String, at \in Nat :
              /\ FilterAt(b, pos) = Found(s) /\ at = pos + (2 + Len(s)) /\ at <= Len(b)
              /\ pos + 2 <= at
              /\ After(b, pos) = encode_utf8_string(s) \o After(b, at)
<1>1. PICK r \in Seq(Byte) : r = From(b, pos) /\ r = After(b, pos) /\ Len(r) = Len(b) - pos
  BY AfterIs
<1>2. PICK s \in Utf8String, t \in Seq(Byte) :
        /\ decode_utf8_string(r) = Found(s)
        /\ r = encode_utf8_string(s) \o t
        /\ Len(r) = 2 + Len(s) + Len(t)
        /\ t = SubSeq(r, 2 + Len(s) + 1, Len(r))
  <2>1. ~ IsErr(decode_utf8_string(r))
    BY <1>1 DEF FilterAt
  <2> QED
    BY <2>1, StringDecoded
<1>3. PICK n \in Nat, k \in Nat : n = Len(s) /\ k = Len(t)
  BY DEF Utf8String
<1>4. PICK m \in Nat : m = 2 + n
  OBVIOUS
<1>5. t = After(r, m)
  BY <1>2, <1>3, <1>4 DEF After
<1>6. pos + m <= Len(b) /\ pos + m \in Nat /\ pos + 2 <= pos + m
  <2>1. PICK c \in Nat : c = Len(b)
    OBVIOUS
  <2>2. c - pos = 2 + n + k
    BY <1>1, <1>2, <1>3, <2>1
  <2> QED
    BY <1>4, <2>1, <2>2
<1>7. After(r, m) = After(b, pos + m)
  BY <1>1, <1>6, AfterAfter
<1>8. PICK at \in Nat : at = pos + m
  BY <1>6
<1>9. /\ FilterAt(b, pos) = Found(s) /\ at = pos + (2 + Len(s)) /\ at <= Len(b)
      /\ pos + 2 <= at
      /\ After(b, pos) = encode_utf8_string(s) \o After(b, at)
  BY <1>1, <1>2, <1>3, <1>4, <1>5, <1>6, <1>7, <1>8 DEF FilterAt
<1> QED
  BY <1>9

Refused(sub, b, pos) ==
    LET f == FilterAt(b, pos)
        at == pos + f.end
    IN  \/ IsErr(f) \/ ~ validate_topic_filter(f.s)
        \/ sub /\ (at >= Len(b) \/ b[at + 1] > 2)
Following(sub, b, pos) == pos + FilterAt(b, pos).end + (IF sub THEN 1 ELSE 0)
Entry(sub, b, pos) ==
    LET f == FilterAt(b, pos)
    IN  IF sub THEN <<f.s, b[pos + f.end + 1]>> ELSE f.s
Listed(sub, b, l) ==
    IF sub THEN [type |-> "Ok", list |-> l]
    ELSE [type |-> "UNSUBSCRIBE", packet_id |-> from_be_bytes(b, 0), topic_filters |-> l]
Prepend(sub, e, r) ==
    IF sub THEN [r EXCEPT !.list = <<e>> \o @] ELSE [r EXCEPT !.topic_filters = <<e>> \o @]

\* One turn, where w is what the loop returns from Following on.
Turn(sub, b, w, pos) ==
    IF pos = Len(b) THEN Listed(sub, b, <<>>)
    ELSE IF Refused(sub, b, pos) THEN Malformed
    ELSE IF IsErr(w) THEN w
    ELSE Prepend(sub, Entry(sub, b, pos), w)

Entries(sub) == IF sub THEN FilterString \X (0..2) ELSE FilterString
Chunk(sub, e) == IF sub THEN encode_utf8_string(e[1]) \o <<e[2]>> ELSE encode_utf8_string(e)
Chunks(sub, l) == [k \in DOMAIN l |-> Chunk(sub, l[k])]

LEMMA EntryBytes ==
    ASSUME NEW sub \in BOOLEAN, NEW e \in Entries(sub)
    PROVE  Chunk(sub, e) \in Seq(Byte)
<1>1. ASSUME NEW s \in FilterString PROVE encode_utf8_string(s) \in Seq(Byte)
  BY StringBytes DEF FilterString, Utf8String
<1>2. CASE sub = FALSE
  <2>1. e \in FilterString
    BY <1>2 DEF Entries
  <2> QED
    BY <1>1, <1>2, <2>1 DEF Chunk
<1>3. CASE sub = TRUE
  <2>1. PICK s \in FilterString, q \in 0..2 : e = <<s, q>>
    BY <1>3 DEF Entries
  <2>2. PICK a \in Seq(Byte) : a = encode_utf8_string(s)
    BY <1>1
  <2>3. q \in Byte
    BY ByteIsNat
  <2>4. <<q>> \in Seq(Byte)
    BY <2>3
  <2>5. a \o <<q>> \in Seq(Byte)
    BY <2>4, Joined
  <2>6. Chunk(sub, e) = encode_utf8_string(s) \o <<q>>
    <3>1. e[1] = s /\ e[2] = q
      BY <2>1
    <3> QED
      BY <1>3, <3>1, Zenon DEF Chunk
  <2> QED
    BY <2>2, <2>5, <2>6
<1> QED
  BY <1>2, <1>3

LEMMA SequenceOf ==
    ASSUME NEW V, NEW n \in Nat, NEW f \in [1..n -> V]
    PROVE  f \in Seq(V) /\ Len(f) = n
<1>1. f \in Seq(V)
  BY SeqDef
<1>2. DOMAIN f = 1..n /\ DOMAIN f = 1..Len(f) /\ Len(f) \in Nat
  BY <1>1, LenProperties
<1> QED
  BY <1>1, <1>2

LEMMA ChunksCons ==
    ASSUME NEW sub \in BOOLEAN, NEW e \in Entries(sub), NEW l \in Seq(Entries(sub))
    PROVE  /\ <<e>> \o l \in Seq(Entries(sub)) /\ <<e>> \o l # <<>>
           /\ Chunks(sub, l) \in Seq(Seq(Byte))
           /\ Chunks(sub, <<e>> \o l) = <<Chunk(sub, e)>> \o Chunks(sub, l)
<1>0. PICK E, c : E = Entries(sub) /\ c = Chunk(sub, e)
  OBVIOUS
<1>1. PICK n \in Nat : n = Len(l) /\ E = Entries(sub) /\ c = Chunk(sub, e)
  BY <1>0
<1>2. /\ <<e>> \in Seq(E) /\ Len(<<e>>) = 1 /\ <<e>>[1] = e
      /\ c \in Seq(Byte) /\ <<c>> \in Seq(Seq(Byte)) /\ Len(<<c>>) = 1 /\ <<c>>[1] = c
  <2>1. c \in Seq(Byte)
    BY <1>1, EntryBytes
  <2> QED
    BY <1>1, <2>1
<1>3. PICK u \in Seq(E) :
        /\ u = <<e>> \o l /\ Len(u) = 1 + n
        /\ \A k \in 1..(1 + n) : u[k] = IF k <= 1 THEN e ELSE l[k - 1]
  <2>1. /\ <<e>> \o l \in Seq(E) /\ Len(<<e>> \o l) = Len(<<e>>) + Len(l)
        /\ \A k \in 1..(Len(<<e>>) + Len(l)) :
             (<<e>> \o l)[k] = IF k <= Len(<<e>>) THEN <<e>>[k] ELSE l[k - Len(<<e>>)]
    BY <1>1, <1>2, ConcatProperties
  <2>2. \A k \in 1..(1 + n) : k <= 1 => k = 1
    OBVIOUS
  <2> DEFINE w == <<e>> \o l
  <2>3. /\ w \in Seq(E) /\ Len(w) = 1 + n
        /\ \A k \in 1..(1 + n) : w[k] = IF k <= 1 THEN <<e>>[k] ELSE l[k - 1]
    BY <1>1, <1>2, <2>1, Zenon
  <2> HIDE DEF w
  <2>4. \A k \in 1..(1 + n) : w[k] = IF k <= 1 THEN e ELSE l[k - 1]
    BY <1>2, <2>2, <2>3, Zenon
  <2> QED
    BY <2>3, <2>4, Zenon DEF w
<1>4. ASSUME NEW q \in Seq(E)
      PROVE  /\ Chunks(sub, q) \in Seq(Seq(Byte)) /\ Len(Chunks(sub, q)) = Len(q)
             /\ \A k \in 1..Len(q) : Chunks(sub, q)[k] = Chunk(sub, q[k])
  <2>1. DOMAIN q = 1..Len(q) /\ Len(q) \in Nat
    OBVIOUS
  <2>2. \A k \in 1..Len(q) : Chunk(sub, q[k]) \in Seq(Byte)
    <3>1. \A k \in 1..Len(q) : q[k] \in Entries(sub)
      BY <1>1
    <3> QED
      BY <3>1, EntryBytes
  <2>3. Chunks(sub, q) = [k \in 1..Len(q) |-> Chunk(sub, q[k])]
    BY <2>1 DEF Chunks
  <2>4. PICK m, f : m \in Nat /\ m = Len(q) /\ f = Chunks(sub, q)
    BY <2>1
  <2>5. f \in [1..m -> Seq(Byte)]
    BY <2>2, <2>3, <2>4
  <2>6. f \in Seq(Seq(Byte)) /\ Len(f) = m
    BY <2>4, <2>5, SequenceOf
  <2> QED
    BY <2>3, <2>4, <2>6
<1>5. PICK r \in Seq(Seq(Byte)) :
        /\ r = Chunks(sub, l) /\ Len(r) = n /\ \A k \in 1..n : r[k] = Chunk(sub, l[k])
  BY <1>1, <1>4
<1>6. PICK v \in Seq(Seq(Byte)) :
        /\ v = Chunks(sub, u) /\ Len(v) = 1 + n /\ \A k \in 1..(1 + n) : v[k] = Chunk(sub, u[k])
  BY <1>3, <1>4
<1>7. PICK w \in Seq(Seq(Byte)) :
        /\ w = <<c>> \o r /\ Len(w) = 1 + n
        /\ \A k \in 1..(1 + n) : w[k] = IF k <= 1 THEN c ELSE r[k - 1]
  <2>1. /\ <<c>> \o r \in Seq(Seq(Byte)) /\ Len(<<c>> \o r) = Len(<<c>>) + Len(r)
        /\ \A k \in 1..(Len(<<c>>) + Len(r)) :
             (<<c>> \o r)[k] = IF k <= Len(<<c>>) THEN <<c>>[k] ELSE r[k - Len(<<c>>)]
    BY <1>2, ConcatProperties
  <2>2. PICK a : a = <<c>> \o r
    OBVIOUS
  <2>3. ASSUME NEW k \in 1..(1 + n) PROVE a[k] = IF k <= 1 THEN c ELSE r[k - 1]
    <3>1. a[k] = IF k <= 1 THEN <<c>>[k] ELSE r[k - 1]
      BY <1>2, <1>5, <2>1, <2>2
    <3>2. k <= 1 => k = 1
      OBVIOUS
    <3> QED
      BY <1>2, <3>1, <3>2
  <2> QED
    BY <1>2, <1>5, <2>1, <2>2, <2>3
<1>8. ASSUME NEW k \in 1..(1 + n) PROVE v[k] = w[k]
  <2>1. CASE k <= 1
    BY <1>1, <1>3, <1>6, <1>7, <2>1
  <2>2. CASE ~ (k <= 1)
    <3>1. k - 1 \in 1..n
      BY <2>2
    <3>2. u[k] = l[k - 1] /\ w[k] = r[k - 1]
      BY <1>3, <1>7, <2>2
    <3>3. r[k - 1] = Chunk(sub, l[k - 1])
      BY <1>5, <3>1
    <3> QED
      BY <1>6, <3>2, <3>3
  <2> QED
    BY <2>1, <2>2
<1>9. v = w
  BY <1>6, <1>7, <1>8, SeqEqual
<1>10. u # <<>>
  BY <1>3
<1> QED
  BY <1>1, <1>3, <1>5, <1>6, <1>7, <1>9, <1>10

\* A turn that is not refused moves on and reads one entry.
LEMMA TurnReads ==
    ASSUME NEW sub \in BOOLEAN, NEW b \in Seq(Byte), NEW pos \in Nat, pos <= Len(b),
           ~ Refused(sub, b, pos)
    PROVE  /\ Following(sub, b, pos) \in Nat
           /\ pos < Following(sub, b, pos) /\ Following(sub, b, pos) <= Len(b)
           /\ Entry(sub, b, pos) \in Entries(sub)
           /\ After(b, pos) = Chunk(sub, Entry(sub, b, pos)) \o After(b, Following(sub, b, pos))
<1>1. ~ IsErr(FilterAt(b, pos)) /\ validate_topic_filter(FilterAt(b, pos).s)
  BY DEF Refused
<1>2. PICK s \in Utf8String, at \in Nat :
        /\ FilterAt(b, pos) = Found(s) /\ at = pos + (2 + Len(s)) /\ at <= Len(b)
        /\ pos + 2 <= at
        /\ After(b, pos) = encode_utf8_string(s) \o After(b, at)
  BY <1>1, FilterFound
<1>3. FilterAt(b, pos).s = s /\ FilterAt(b, pos).end = 2 + Len(s) /\ pos + FilterAt(b, pos).end = at
  BY <1>2 DEF Found
<1>4. s \in FilterString
  BY <1>1, <1>3 DEF FilterString
<1>5. CASE sub = FALSE
  <2>1. Following(sub, b, pos) = at
    BY <1>3, <1>5 DEF Following
  <2>2. Entry(sub, b, pos) = s /\ Chunk(sub, s) = encode_utf8_string(s) /\ s \in Entries(sub)
    BY <1>3, <1>4, <1>5 DEF Entry, Chunk, Entries
  <2>3. pos < at
    BY <1>2
  <2> QED
    BY <1>2, <2>1, <2>2, <2>3
<1>6. CASE sub = TRUE
  <2>1. at < Len(b) /\ ~ (b[at + 1] > 2)
    <3>1. ~ (at >= Len(b) \/ b[at + 1] > 2)
      BY <1>3, <1>6 DEF Refused
    <3>2. Len(b) \in Nat
      OBVIOUS
    <3> QED
      BY <3>1, <3>2
  <2>2. b[at + 1] \in Byte /\ After(b, at) = <<b[at + 1]>> \o After(b, at + 1)
    BY <2>1, AfterOne
  <2>3. PICK q \in 0..2 : q = b[at + 1]
    <3>1. b[at + 1] \in Nat
      BY <2>2, ByteIsNat
    <3> QED
      BY <2>1, <3>1
  <2>4. PICK n \in Nat : n = at + 1 /\ n <= Len(b) /\ pos < n /\ Following(sub, b, pos) = n
    <3>1. Following(sub, b, pos) = at + 1
      BY <1>3, <1>6 DEF Following
    <3>2. at + 1 \in Nat /\ at + 1 <= Len(b) /\ pos < at + 1
      BY <1>2, <2>1
    <3> QED
      BY <3>1, <3>2
  <2>5. Entry(sub, b, pos) = <<s, q>>
    BY <1>3, <1>6, <2>3 DEF Entry
  <2>6. <<s, q>> \in Entries(sub)
    BY <1>4, <1>6 DEF Entries
  <2>7. Chunk(sub, <<s, q>>) = encode_utf8_string(s) \o <<q>>
    <3>1. <<s, q>>[1] = s /\ <<s, q>>[2] = q
      OBVIOUS
    <3> QED
      BY <1>6, <3>1, Zenon DEF Chunk
  <2>8. PICK e \in Seq(Byte), c \in Seq(Byte), t \in Seq(Byte) :
          e = encode_utf8_string(s) /\ c = <<q>> /\ t = After(b, n)
    <3>1. encode_utf8_string(s) \in Seq(Byte)
      BY StringBytes DEF Utf8String
    <3>2. q \in Byte
      BY ByteIsNat
    <3>3. <<q>> \in Seq(Byte)
      BY <3>2
    <3>4. After(b, n) \in Seq(Byte)
      BY <2>4, AfterIs
    <3> QED
      BY <3>1, <3>3, <3>4
  <2>9. (e \o c) \o t = e \o (c \o t)
    BY Regroup, Zenon DEF Regrouped
  <2>10. After(b, pos) = (e \o c) \o t
    BY <1>2, <2>2, <2>3, <2>4, <2>8, <2>9
  <2> QED
    BY <2>4, <2>5, <2>6, <2>7, <2>8, <2>10
<1> QED
  BY <1>5, <1>6

LEMMA PrependListed ==
    ASSUME NEW sub \in BOOLEAN, NEW b, NEW e, NEW l
    PROVE  /\ Prepend(sub, e, Listed(sub, b, l)) = Listed(sub, b, <<e>> \o l)
           /\ ~ IsErr(Listed(sub, b, l)) /\ IsErr(Malformed)
           /\ Listed(sub, b, l).type # "MalformedPayload"
<1>1. PICK u : u = <<e>> \o l
  OBVIOUS
<1>2. CASE sub = TRUE
  <2>1. Listed(sub, b, l) = [type |-> "Ok", list |-> l] /\ Listed(sub, b, u) = [type |-> "Ok", list |-> u]
    BY <1>2 DEF Listed
  <2>2. Prepend(sub, e, Listed(sub, b, l)) = [Listed(sub, b, l) EXCEPT !.list = <<e>> \o @]
    BY <1>2 DEF Prepend
  <2>3. [[type |-> "Ok", list |-> l] EXCEPT !.list = <<e>> \o @] = [type |-> "Ok", list |-> u]
    <3>0. PICK R : R = [type |-> "Ok", list |-> l]
      OBVIOUS
    <3>1. R = [type |-> "Ok", list |-> l] /\ R.list = l
      BY <3>0
    <3>2. [R EXCEPT !.list = <<e>> \o @] = [R EXCEPT !.list = u]
      BY <1>1, <3>1, Zenon
    <3>3. [R EXCEPT !.list = u] = [type |-> "Ok", list |-> u]
      BY <3>1
    <3> QED
      BY <3>1, <3>2, <3>3, Zenon
  <2>4. ~ IsErr([type |-> "Ok", list |-> l]) /\ IsErr(Malformed)
    BY DEF IsErr, Malformed, Err
  <2> QED
    BY <1>1, <2>1, <2>2, <2>3, <2>4
<1>3. CASE sub = FALSE
  <2>0. PICK id : id = from_be_bytes(b, 0)
    OBVIOUS
  <2>1. /\ Listed(sub, b, l) = [type |-> "UNSUBSCRIBE", packet_id |-> id, topic_filters |-> l]
        /\ Listed(sub, b, u) = [type |-> "UNSUBSCRIBE", packet_id |-> id, topic_filters |-> u]
    BY <1>3, <2>0 DEF Listed
  <2>2. Prepend(sub, e, Listed(sub, b, l)) = [Listed(sub, b, l) EXCEPT !.topic_filters = <<e>> \o @]
    BY <1>3 DEF Prepend
  <2>3. [[type |-> "UNSUBSCRIBE", packet_id |-> id, topic_filters |-> l] EXCEPT !.topic_filters = <<e>> \o @] = [type |-> "UNSUBSCRIBE", packet_id |-> id, topic_filters |-> u]
    <3>0. PICK R : R = [type |-> "UNSUBSCRIBE", packet_id |-> id, topic_filters |-> l]
      OBVIOUS
    <3>1. R = [type |-> "UNSUBSCRIBE", packet_id |-> id, topic_filters |-> l] /\ R.topic_filters = l
      BY <3>0
    <3>2. [R EXCEPT !.topic_filters = <<e>> \o @] = [R EXCEPT !.topic_filters = u]
      BY <1>1, <3>1, Zenon
    <3>3. [R EXCEPT !.topic_filters = u] = [type |-> "UNSUBSCRIBE", packet_id |-> id, topic_filters |-> u]
      BY <3>1
    <3> QED
      BY <3>1, <3>2, <3>3, Zenon
  <2>4. ~ IsErr([type |-> "UNSUBSCRIBE", packet_id |-> id, topic_filters |-> l]) /\ IsErr(Malformed)
    BY DEF IsErr, Malformed, Err
  <2> QED
    BY <1>1, <2>1, <2>2, <2>3, <2>4
<1> QED
  BY <1>2, <1>3

\* What the loop may return.
Returned(sub, b) == {Malformed} \cup {Listed(sub, b, l) : l \in Seq(Entries(sub))}

LEMMA TurnType ==
    ASSUME NEW sub \in BOOLEAN, NEW b \in Seq(Byte), NEW pos \in Nat, pos <= Len(b),
           NEW w \in Returned(sub, b)
    PROVE  Turn(sub, b, w, pos) \in Returned(sub, b)
<1>1. <<>> \in Seq(Entries(sub))
  OBVIOUS
<1>2. CASE pos = Len(b)
  BY <1>1, <1>2 DEF Turn, Returned
<1>3. CASE pos # Len(b) /\ Refused(sub, b, pos)
  BY <1>3 DEF Turn, Returned
<1>4. CASE pos # Len(b) /\ ~ Refused(sub, b, pos) /\ IsErr(w)
  BY <1>4 DEF Turn
<1>5. CASE pos # Len(b) /\ ~ Refused(sub, b, pos) /\ ~ IsErr(w)
  <2>1. PICK e \in Entries(sub) : e = Entry(sub, b, pos)
    BY <1>5, TurnReads
  <2>2. PICK l \in Seq(Entries(sub)) : w = Listed(sub, b, l)
    <3>1. IsErr(Malformed)
      BY PrependListed
    <3> QED
      BY <1>5, <3>1 DEF Returned
  <2>3. Turn(sub, b, w, pos) = Prepend(sub, e, Listed(sub, b, l))
    BY <1>5, <2>1, <2>2 DEF Turn
  <2>4. Prepend(sub, e, Listed(sub, b, l)) = Listed(sub, b, <<e>> \o l)
    BY PrependListed
  <2>5. PICK u \in Seq(Entries(sub)) : u = <<e>> \o l
    BY ChunksCons
  <2> QED
    BY <2>3, <2>4, <2>5 DEF Returned
<1> QED
  BY <1>2, <1>3, <1>4, <1>5

\* g is the loop, as a function of where it starts.
Loops(sub, b, g) == g = [pos \in 2..Len(b) |-> Turn(sub, b, g[Following(sub, b, pos)], pos)]

LEMMA LoopExists ==
    ASSUME NEW sub \in BOOLEAN, NEW b \in Seq(Byte)
    PROVE  \E g : Loops(sub, b, g)
<1>0. PICK n \in Nat : n = Len(b)
  OBVIOUS
<1> DEFINE V == Returned(sub, b)
           back(k) == k \in 1..n /\ n - k \in 2..n /\ ~ Refused(sub, b, n - k)
           d == [k \in Nat |-> IF back(k) THEN n - Following(sub, b, n - k) ELSE 0]
           st == [k \in Nat |-> [w \in V |-> IF n - k \in 2..n
                                             THEN Turn(sub, b, w, n - k) ELSE Malformed]]
<1>1. ASSUME NEW k \in Nat, back(k)
      PROVE  /\ n - k \in Nat /\ n - Following(sub, b, n - k) \in Nat
             /\ n - Following(sub, b, n - k) < k /\ Following(sub, b, n - k) \in 2..n
             /\ n - (n - Following(sub, b, n - k)) = Following(sub, b, n - k)
  <2>1. PICK pos \in Nat : pos = n - k /\ pos <= Len(b) /\ 2 <= pos /\ ~ Refused(sub, b, pos)
    BY <1>0, <1>1
  <2>2. PICK m \in Nat : m = Following(sub, b, pos) /\ pos < m /\ m <= n
    BY <1>0, <2>1, TurnReads
  <2>3. n - m \in Nat /\ n - m < k /\ m \in 2..n /\ n - (n - m) = m
    BY <1>1, <2>1, <2>2
  <2> QED
    BY <2>1, <2>2, <2>3
<1>2. Malformed \in V
  BY DEF Returned
<1>3. d \in [Nat -> Nat]
  <2> HIDE DEF back
  <2> QED
    BY <1>1
<1>4. \A k \in Nat \ {0} : d[k] < k
  <2> HIDE DEF back
  <2> QED
    BY <1>1
<1>5. st \in [Nat -> [V -> V]]
  <2>1. ASSUME NEW k \in Nat, NEW w \in V, n - k \in 2..n PROVE Turn(sub, b, w, n - k) \in V
    <3>1. n - k \in Nat /\ n - k <= Len(b)
      BY <1>0, <2>1
    <3> QED
      BY <2>1, <3>1, TurnType
  <2> HIDE DEF V
  <2> QED
    BY <1>2, <2>1
<1> DEFINE v == Listed(sub, b, <<>>)
<1>6. v \in V
  <2>1. <<>> \in Seq(Entries(sub))
    OBVIOUS
  <2> QED
    BY <2>1 DEF Returned
<1>7. Recursive(V, v, d, st)
  <2> HIDE DEF V, v, d, st
  <2> QED
    BY <1>3, <1>4, <1>5, <1>6 DEF Recursive
<1>8. PICK F \in [Nat -> V] : F[0] = v /\ \A k \in Nat \ {0} : F[k] = st[k][F[d[k]]]
  <2> HIDE DEF V, v, d, st
  <2>1. Solvable(V, v, d, st)
    BY <1>7, Recursion
  <2> QED
    BY <2>1 DEF Solvable
<1> DEFINE g == [pos \in 2..n |-> F[n - pos]]
<1>9. ASSUME NEW pos \in 2..n
      PROVE  g[pos] = Turn(sub, b, g[Following(sub, b, pos)], pos)
  <2>1. /\ n - pos \in Nat /\ g[pos] = F[n - pos] /\ n - (n - pos) = pos
        /\ (pos # n => n - pos \in Nat \ {0} /\ n - pos \in 1..n)
    OBVIOUS
  <2>2. CASE pos = n
    <3>1. g[pos] = v
      BY <1>8, <2>1, <2>2
    <3> HIDE DEF g
    <3> QED
      BY <1>0, <2>2, <3>1 DEF Turn
  <2>3. CASE pos # n /\ Refused(sub, b, pos)
    <3>1. PICK k \in Nat \ {0} : k = n - pos /\ n - k = pos
      BY <2>1, <2>3
    <3>2. PICK w \in V : w = F[d[k]]
      <4> HIDE DEF V, d
      <4> QED
        BY <1>3, <3>1
    <3>3. st[k][w] = Turn(sub, b, w, pos)
      <4> HIDE DEF V, d, g
      <4> QED
        BY <3>1, <3>2
    <3>4. g[pos] = Turn(sub, b, w, pos)
      <4> HIDE DEF V, d, st, g
      <4> QED
        BY <1>8, <2>1, <3>1, <3>2, <3>3
    <3> HIDE DEF V, d, st, g
    <3> QED
      BY <1>0, <2>3, <3>4 DEF Turn
  <2>4. CASE pos # n /\ ~ Refused(sub, b, pos)
    <3>1. PICK k \in Nat \ {0} : k = n - pos /\ n - k = pos /\ back(k)
      BY <2>1, <2>4
    <3>2. PICK m \in 2..n : m = Following(sub, b, pos) /\ n - m = d[k]
      <4>1. d[k] = n - Following(sub, b, n - k)
        BY <3>1
      <4> HIDE DEF back, d, st, g, V
      <4> QED
        BY <1>1, <3>1, <4>1
    <3>3. PICK w \in V : w = F[d[k]] /\ w = g[m]
      <4>1. g[m] = F[n - m]
        OBVIOUS
      <4> HIDE DEF V, d, g
      <4> QED
        BY <1>3, <3>1, <3>2, <4>1
    <3>4. st[k][w] = Turn(sub, b, w, pos)
      <4> HIDE DEF V, d, g, back
      <4> QED
        BY <3>1, <3>3
    <3> HIDE DEF V, d, st, g, back
    <3>5. g[pos] = Turn(sub, b, w, pos)
      BY <1>8, <2>1, <3>1, <3>3, <3>4
    <3> QED
      BY <3>2, <3>3, <3>5
  <2> QED
    BY <2>2, <2>3, <2>4
<1>10. g = [pos \in 2..n |-> g[pos]]
  OBVIOUS
<1>11. Loops(sub, b, g)
  <2> HIDE DEF g
  <2> QED
    BY <1>0, <1>9, <1>10 DEF Loops
<1> QED
  BY <1>11

\* What the loop returns is the list of the entries, all of them, that it reads.
LEMMA LoopReads ==
    ASSUME NEW sub \in BOOLEAN, NEW b \in Seq(Byte), NEW g, Loops(sub, b, g),
           NEW pos \in 2..Len(b)
    PROVE  \/ g[pos] = Malformed
           \/ \E l \in Seq(Entries(sub)) :
                 /\ g[pos] = Listed(sub, b, l)
                 /\ pos # Len(b) => l # <<>>
                 /\ After(b, pos) = FlattenSeq(Chunks(sub, l))
<1>0. PICK n \in Nat : n = Len(b)
  OBVIOUS
<1> DEFINE P(j) == \/ g[j] = Malformed
                   \/ \E l \in Seq(Entries(sub)) :
                         /\ g[j] = Listed(sub, b, l)
                         /\ j # n => l # <<>>
                         /\ After(b, j) = FlattenSeq(Chunks(sub, l))
           T == {k \in Nat : n - k \in 2..n => P(n - k)}
<1>1. \A j \in 2..n : g[j] = Turn(sub, b, g[Following(sub, b, j)], j)
  BY <1>0 DEF Loops
<1>2. 0 \in T
  <2>1. n - 0 = n
    OBVIOUS
  <2>2. SUFFICES ASSUME n \in 2..n PROVE P(n)
    BY <2>1
  <2>3. PICK l \in Seq(Entries(sub)) : l = <<>>
    <3>1. <<>> \in Seq(Entries(sub))
      OBVIOUS
    <3> QED
      BY <3>1
  <2>4. g[n] = Listed(sub, b, l)
    BY <1>0, <1>1, <2>2, <2>3 DEF Turn
  <2>5. After(b, n) = <<>>
    <3>1. n <= Len(b) /\ Len(b) - n = 0
      BY <1>0
    <3>2. After(b, n) \in Seq(Byte) /\ Len(After(b, n)) = 0
      BY <3>1, AfterIs
    <3> QED
      BY <3>2, EmptySeq
  <2>6. FlattenSeq(Chunks(sub, l)) = <<>>
    <3>1. Chunks(sub, l) = <<>>
      BY <2>3 DEF Chunks
    <3> QED
      BY <3>1 DEF FlattenSeq
  <2> QED
    BY <2>4, <2>5, <2>6
<1>3. ASSUME NEW k \in Nat \ {0}, \A j \in 0..(k - 1) : j \in T PROVE k \in T
  <2>1. SUFFICES ASSUME n - k \in 2..n PROVE P(n - k)
    OBVIOUS
  <2>2. PICK p \in 2..n : p = n - k /\ p # n
    BY <2>1
  <2>3. g[p] = Turn(sub, b, g[Following(sub, b, p)], p)
    BY <1>1
  <2>4. CASE Refused(sub, b, p)
    <3>1. g[p] = Malformed
      BY <1>0, <2>2, <2>3, <2>4 DEF Turn
    <3> QED
      BY <2>2, <3>1
  <2>5. CASE ~ Refused(sub, b, p)
    <3>0. p \in Nat /\ p <= Len(b)
      BY <1>0
    <3>1. PICK m \in Nat, e \in Entries(sub) :
            /\ m = Following(sub, b, p) /\ p < m /\ m <= n
            /\ e = Entry(sub, b, p)
            /\ After(b, p) = Chunk(sub, e) \o After(b, m)
      <4>1. /\ Following(sub, b, p) \in Nat
            /\ p < Following(sub, b, p) /\ Following(sub, b, p) <= Len(b)
            /\ Entry(sub, b, p) \in Entries(sub)
            /\ After(b, p) = Chunk(sub, Entry(sub, b, p)) \o After(b, Following(sub, b, p))
        BY <2>5, <3>0, TurnReads
      <4> QED
        BY <1>0, <4>1
    <3>2. n - m \in 0..(k - 1) /\ n - (n - m) = m /\ m \in 2..n
      BY <2>2, <3>1
    <3>3. P(m)
      <4>1. n - m \in T
        BY <1>3, <3>2
      <4>2. n - (n - m) \in 2..n => P(n - (n - m))
        BY <4>1
      <4> HIDE DEF P
      <4> QED
        BY <3>2, <4>2
    <3>4. g[p] = IF IsErr(g[m]) THEN g[m] ELSE Prepend(sub, e, g[m])
      BY <1>0, <2>2, <2>3, <2>5, <3>1 DEF Turn
    <3>5. CASE g[m] = Malformed
      <4>1. g[p] = Malformed
        BY <3>4, <3>5, PrependListed
      <4> QED
        BY <2>2, <4>1
    <3>6. CASE g[m] # Malformed
      <4>1. PICK l \in Seq(Entries(sub)) :
              g[m] = Listed(sub, b, l) /\ After(b, m) = FlattenSeq(Chunks(sub, l))
        BY <3>3, <3>6
      <4>2. g[p] = Listed(sub, b, <<e>> \o l)
        <5>1. ~ IsErr(Listed(sub, b, l)) /\ Prepend(sub, e, Listed(sub, b, l)) = Listed(sub, b, <<e>> \o l)
          BY PrependListed
        <5> QED
          BY <3>4, <4>1, <5>1
      <4>3. PICK u \in Seq(Entries(sub)) :
              /\ u = <<e>> \o l /\ u # <<>>
              /\ Chunks(sub, u) = <<Chunk(sub, e)>> \o Chunks(sub, l)
        <5>1. /\ <<e>> \o l \in Seq(Entries(sub)) /\ <<e>> \o l # <<>>
              /\ Chunks(sub, <<e>> \o l) = <<Chunk(sub, e)>> \o Chunks(sub, l)
          BY ChunksCons
        <5> QED
          BY <5>1
      <4>4. PICK c \in Seq(Byte), s \in Seq(Seq(Byte)) : c = Chunk(sub, e) /\ s = Chunks(sub, l)
        BY EntryBytes, ChunksCons
      <4>5. FlattenSeq(<<c>> \o s) = c \o FlattenSeq(s)
        BY FlattenCons
      <4>6. After(b, p) = FlattenSeq(Chunks(sub, u))
        BY <3>1, <4>1, <4>3, <4>4, <4>5
      <4>7. g[p] = Listed(sub, b, u)
        BY <4>2, <4>3
      <4> QED
        BY <2>2, <4>3, <4>6, <4>7
    <3> QED
      BY <3>5, <3>6
  <2> QED
    BY <2>4, <2>5
<1>4. \A k \in Nat : k \in T
  <2> HIDE DEF T
  <2> QED
    BY <1>2, <1>3, Induction
<1>5. P(pos)
  <2>1. n - pos \in Nat /\ n - (n - pos) = pos /\ pos \in 2..n
    BY <1>0
  <2>2. n - (n - pos) \in 2..n => P(n - (n - pos))
    BY <1>4, <2>1
  <2> HIDE DEF P
  <2> QED
    BY <2>1, <2>2
<1> QED
  BY <1>0, <1>5

SubscribeTurn(body, loop, pos) ==
    IF pos = Len(body)
    THEN [type |-> "Ok", list |-> <<>>]
    ELSE LET f == decode_utf8_string(From(body, pos))
             at == pos + f.end
         IN  IF IsErr(f) \/ ~ validate_topic_filter(f.s)
             THEN Malformed
             ELSE IF at >= Len(body) \/ body[at + 1] > 2
                  THEN Malformed
                  ELSE LET rest == loop[at + 1]
                       IN  IF IsErr(rest)
                           THEN rest
                           ELSE [rest EXCEPT !.list = << <<f.s, body[at + 1]>> >> \o @]

UnsubscribeTurn(body, loop, pos) ==
    IF pos = Len(body)
    THEN [type |-> "UNSUBSCRIBE", packet_id |-> from_be_bytes(body, 0), topic_filters |-> <<>>]
    ELSE LET f == decode_utf8_string(From(body, pos))
         IN  IF IsErr(f) \/ ~ validate_topic_filter(f.s)
             THEN Malformed
             ELSE LET rest == loop[pos + f.end]
                  IN  IF IsErr(rest)
                      THEN rest
                      ELSE [rest EXCEPT !.topic_filters = <<f.s>> \o @]

LEMMA TurnIsSubscribe ==
    ASSUME NEW sub, sub = TRUE, NEW b, NEW g, NEW pos
    PROVE  SubscribeTurn(b, g, pos) = Turn(sub, b, g[Following(sub, b, pos)], pos)
<1>1. PICK f, at : f = FilterAt(b, pos) /\ at = pos + f.end
  OBVIOUS
<1>2. PICK w : w = g[at + 1]
  OBVIOUS
<1> DEFINE bad == IsErr(f) \/ ~ validate_topic_filter(f.s)
           wrong == at >= Len(b) \/ b[at + 1] > 2
           end == pos = Len(b)
           none == [type |-> "Ok", list |-> <<>>]
           more == [w EXCEPT !.list = << <<f.s, b[at + 1]>> >> \o @]
<1>3. Following(sub, b, pos) = at + 1 /\ Entry(sub, b, pos) = <<f.s, b[at + 1]>>
  BY <1>1, Zenon DEF Following, Entry
<1>4. Refused(sub, b, pos) <=> bad \/ wrong
  BY <1>1, Zenon DEF Refused
<1>5. SubscribeTurn(b, g, pos) =
        IF end THEN none
        ELSE IF bad THEN Malformed
        ELSE IF wrong THEN Malformed
        ELSE IF IsErr(w) THEN w
        ELSE more
  BY <1>1, <1>2, Zenon DEF SubscribeTurn, FilterAt
<1>6. Turn(sub, b, w, pos) =
        IF end THEN none
        ELSE IF Refused(sub, b, pos) THEN Malformed
        ELSE IF IsErr(w) THEN w
        ELSE more
  BY <1>3, Zenon DEF Turn, Listed, Prepend
<1>7. SubscribeTurn(b, g, pos) = Turn(sub, b, w, pos)
  <2> HIDE DEF none, more, bad, wrong, end
  <2>1. CASE Refused(sub, b, pos)
    BY <1>4, <1>5, <1>6, <2>1
  <2>2. CASE ~ Refused(sub, b, pos)
    BY <1>4, <1>5, <1>6, <2>2
  <2> QED
    BY <2>1, <2>2
<1> QED
  BY <1>2, <1>3, <1>7, Zenon

LEMMA TurnIsUnsubscribe ==
    ASSUME NEW sub, sub = FALSE, NEW b, NEW g, NEW pos \in Nat, FilterAt(b, pos).end \in Nat \/ IsErr(FilterAt(b, pos))
    PROVE  UnsubscribeTurn(b, g, pos) = Turn(sub, b, g[Following(sub, b, pos)], pos)
<1>1. PICK f, at : f = FilterAt(b, pos) /\ at = pos + f.end
  OBVIOUS
<1>2. PICK w, v : w = g[at] /\ v = g[at + 0]
  OBVIOUS
<1> DEFINE bad == IsErr(f) \/ ~ validate_topic_filter(f.s)
           end == pos = Len(b)
           none == [type |-> "UNSUBSCRIBE", packet_id |-> from_be_bytes(b, 0),
                    topic_filters |-> <<>>]
           more(r) == [r EXCEPT !.topic_filters = <<f.s>> \o @]
<1>3. Following(sub, b, pos) = at + 0 /\ Entry(sub, b, pos) = f.s
  BY <1>1, Zenon DEF Following, Entry
<1>4. Refused(sub, b, pos) <=> bad
  BY <1>1, Zenon DEF Refused
<1>5. UnsubscribeTurn(b, g, pos) =
        IF end THEN none
        ELSE IF bad THEN Malformed
        ELSE IF IsErr(w) THEN w
        ELSE more(w)
  BY <1>1, <1>2, Zenon DEF UnsubscribeTurn, FilterAt
<1>6. Turn(sub, b, v, pos) =
        IF end THEN none
        ELSE IF Refused(sub, b, pos) THEN Malformed
        ELSE IF IsErr(v) THEN v
        ELSE more(v)
  BY <1>3, Zenon DEF Turn, Listed, Prepend
<1>7. bad \/ v = w
  <2>1. CASE IsErr(f)
    BY <2>1
  <2>2. CASE f.end \in Nat
    <3>1. at + 0 = at
      BY <1>1, <2>2
    <3> QED
      BY <1>2, <3>1
  <2> QED
    BY <1>1, <2>1, <2>2
<1>8. UnsubscribeTurn(b, g, pos) = Turn(sub, b, v, pos)
  <2> HIDE DEF none, more, bad, end
  <2>1. CASE Refused(sub, b, pos)
    BY <1>4, <1>5, <1>6, <2>1
  <2>2. CASE ~ Refused(sub, b, pos)
    BY <1>4, <1>5, <1>6, <1>7, <2>2
  <2> QED
    BY <2>1, <2>2
<1> QED
  BY <1>2, <1>3, <1>8, Zenon

LEMMA SubscriptionsLoop ==
    ASSUME NEW b \in Seq(Byte)
    PROVE  \E g : Loops(TRUE, b, g) /\ Subscriptions(b) = g[2]
<1> DEFINE Exact(g) == g = [pos \in 2..Len(b) |-> SubscribeTurn(b, g, pos)]
<1>1. Subscriptions(b) = (CHOOSE g : Exact(g))[2]
  BY Zenon DEF Subscriptions, SubscribeTurn
<1>2. ASSUME NEW g PROVE Exact(g) <=> Loops(TRUE, b, g)
  <2>1. [pos \in 2..Len(b) |-> SubscribeTurn(b, g, pos)]
          = [pos \in 2..Len(b) |-> Turn(TRUE, b, g[Following(TRUE, b, pos)], pos)]
    BY TurnIsSubscribe
  <2> QED
    BY <2>1, Zenon DEF Loops
<1>3. \E g : Exact(g)
  <2> HIDE DEF Exact
  <2>1. \E g : Loops(TRUE, b, g)
    BY LoopExists
  <2> QED
    BY <1>2, <2>1
<1> HIDE DEF Exact
<1>4. PICK c : c = CHOOSE g : Exact(g)
  OBVIOUS
<1>5. Exact(c)
  BY <1>3, <1>4, Zenon
<1> QED
  BY <1>1, <1>2, <1>4, <1>5, Zenon

LEMMA UnsubscribeLoop ==
    ASSUME NEW b \in Seq(Byte)
    PROVE  \E g : /\ Loops(FALSE, b, g)
                  /\ decode_unsubscribe(b) = IF Len(b) <= 2 THEN Malformed ELSE g[2]
<1> DEFINE Exact(g) == g = [pos \in 2..Len(b) |-> UnsubscribeTurn(b, g, pos)]
<1>1. decode_unsubscribe(b) = IF Len(b) <= 2 THEN Malformed ELSE (CHOOSE g : Exact(g))[2]
  BY Zenon DEF decode_unsubscribe, UnsubscribeTurn
<1>2. ASSUME NEW g PROVE Exact(g) <=> Loops(FALSE, b, g)
  <2>0. ASSUME NEW pos \in 2..Len(b)
        PROVE  UnsubscribeTurn(b, g, pos) = Turn(FALSE, b, g[Following(FALSE, b, pos)], pos)
    <3>1. pos \in Nat /\ pos <= Len(b)
      OBVIOUS
    <3>2. FilterAt(b, pos).end \in Nat \/ IsErr(FilterAt(b, pos))
      <4>1. SUFFICES ASSUME ~ IsErr(FilterAt(b, pos)) PROVE FilterAt(b, pos).end \in Nat
        OBVIOUS
      <4>2. PICK s \in Utf8String : FilterAt(b, pos) = Found(s)
        BY <3>1, <4>1, FilterFound
      <4>3. Len(s) \in Nat
        BY DEF Utf8String
      <4> QED
        BY <4>2, <4>3 DEF Found
    <3> QED
      BY <3>1, <3>2, TurnIsUnsubscribe
  <2>1. [pos \in 2..Len(b) |-> UnsubscribeTurn(b, g, pos)]
          = [pos \in 2..Len(b) |-> Turn(FALSE, b, g[Following(FALSE, b, pos)], pos)]
    BY <2>0
  <2> QED
    BY <2>1, Zenon DEF Loops
<1>3. \E g : Exact(g)
  <2> HIDE DEF Exact
  <2>1. \E g : Loops(FALSE, b, g)
    BY LoopExists
  <2> QED
    BY <1>2, <2>1
<1> HIDE DEF Exact
<1>4. PICK c : c = CHOOSE g : Exact(g)
  OBVIOUS
<1>5. Exact(c)
  BY <1>3, <1>4, Zenon
<1> QED
  BY <1>1, <1>2, <1>4, <1>5, Zenon

-----------------------------------------------------------------------------
(* What each decoder accepts, and that it encodes to the bytes read *)

LEMMA IdThenRest ==
    ASSUME NEW b \in Seq(Byte), 2 <= Len(b)
    PROVE  \E id \in U16 : id = from_be_bytes(b, 0) /\ b = to_be_bytes(id) \o After(b, 2)
<1>1. /\ 0 + 2 <= Len(b) /\ 0 + 1 = 1 /\ 0 + 2 = 2
  OBVIOUS
<1>2. from_be_bytes(b, 0) \in U16 /\ to_be_bytes(from_be_bytes(b, 0)) = SubSeq(b, 1, 2)
  <2>1. /\ from_be_bytes(b, 0) \in U16
        /\ to_be_bytes(from_be_bytes(b, 0)) = SubSeq(b, 0 + 1, 0 + 2)
    BY <1>1, BeRead, 0 \in Nat
  <2> QED
    BY <1>1, <2>1
<1>3. b = SubSeq(b, 1, 2) \o SubSeq(b, 2 + 1, Len(b))
  BY Cut, 2 \in Nat
<1> QED
  BY <1>2, <1>3 DEF After

ListIsRead(sub, b, g) ==
    \E id \in U16, l \in Seq(Entries(sub)) :
        /\ id = from_be_bytes(b, 0) /\ l # <<>>
        /\ g[2] = Listed(sub, b, l)
        /\ b = to_be_bytes(id) \o FlattenSeq(Chunks(sub, l))

LEMMA ListRead ==
    ASSUME NEW sub \in BOOLEAN, NEW b \in Seq(Byte), NEW g, Loops(sub, b, g),
           ~ (Len(b) <= 2), ~ IsErr(g[2])
    PROVE  ListIsRead(sub, b, g)
<1>1. 2 \in 2..Len(b) /\ 2 # Len(b) /\ 2 <= Len(b)
  <2>1. PICK n \in Nat : n = Len(b)
    OBVIOUS
  <2>2. ~ (n <= 2)
    BY <2>1
  <2>3. n \in 3..n
    BY <2>2
  <2>4. 2 \in 2..n /\ 2 # n /\ 2 <= n
    BY <2>3
  <2> QED
    BY <2>1, <2>4
<1>2. PICK l \in Seq(Entries(sub)) :
        /\ g[2] = Listed(sub, b, l) /\ l # <<>>
        /\ After(b, 2) = FlattenSeq(Chunks(sub, l))
  <2>1. IsErr(Malformed)
    BY PrependListed
  <2>2. g[2] # Malformed
    BY <2>1
  <2> QED
    BY <1>1, <2>2, LoopReads
<1>3. PICK id \in U16 : id = from_be_bytes(b, 0) /\ b = to_be_bytes(id) \o After(b, 2)
  BY <1>1, IdThenRest
<1> QED
  BY <1>2, <1>3 DEF ListIsRead

LEMMA SubscribeDecoded ==
    ASSUME NEW b \in Seq(Byte), ~ IsErr(decode_subscribe(b))
    PROVE  \E id \in U16, l \in Seq(FilterString \X (0..2)) :
              /\ decode_subscribe(b) = [type |-> "SUBSCRIBE", packet_id |-> id, subscriptions |-> l]
              /\ l # <<>>
              /\ b = to_be_bytes(id) \o FlattenSeq(Chunks(TRUE, l))
<1>1. IsErr(Malformed)
  BY DEF IsErr, Malformed, Err
<1>2. ~ (Len(b) <= 2)
  BY <1>1 DEF decode_subscribe
<1>3. PICK subs : subs = Subscriptions(b)
  OBVIOUS
<1>4. /\ ~ IsErr(subs)
      /\ decode_subscribe(b) = [type |-> "SUBSCRIBE", packet_id |-> from_be_bytes(b, 0),
                                subscriptions |-> subs.list]
  <2>1. decode_subscribe(b) =
          IF IsErr(subs) THEN subs
          ELSE [type |-> "SUBSCRIBE", packet_id |-> from_be_bytes(b, 0), subscriptions |-> subs.list]
    BY <1>2, <1>3 DEF decode_subscribe
  <2> QED
    BY <2>1
<1>5. PICK sub \in BOOLEAN : sub = TRUE
  OBVIOUS
<1>6. PICK g : Loops(sub, b, g) /\ subs = g[2]
  BY <1>3, <1>5, SubscriptionsLoop
<1>7. PICK id \in U16, l \in Seq(Entries(sub)) :
        /\ id = from_be_bytes(b, 0) /\ l # <<>>
        /\ subs = Listed(sub, b, l)
        /\ b = to_be_bytes(id) \o FlattenSeq(Chunks(sub, l))
  <2>1. Loops(sub, b, g) /\ ~ (Len(b) <= 2) /\ ~ IsErr(g[2])
    BY <1>2, <1>4, <1>6
  <2>2. ListIsRead(sub, b, g)
    BY <2>1, ListRead
  <2> QED
    BY <1>6, <2>2 DEF ListIsRead
<1>8. subs.list = l
  BY <1>5, <1>7 DEF Listed
<1>9. Seq(Entries(sub)) = Seq(FilterString \X (0..2))
  <2>1. Entries(sub) = FilterString \X (0..2)
    BY <1>5 DEF Entries
  <2> QED
    BY <2>1
<1> QED
  BY <1>4, <1>5, <1>7, <1>8, <1>9

LEMMA UnsubscribeDecoded ==
    ASSUME NEW b \in Seq(Byte), ~ IsErr(decode_unsubscribe(b))
    PROVE  \E id \in U16, l \in Seq(FilterString) :
              /\ decode_unsubscribe(b) = [type |-> "UNSUBSCRIBE", packet_id |-> id, topic_filters |-> l]
              /\ l # <<>>
              /\ b = to_be_bytes(id) \o FlattenSeq(Chunks(FALSE, l))
<1>1. IsErr(Malformed)
  BY DEF IsErr, Malformed, Err
<1>5. PICK sub \in BOOLEAN : sub = FALSE
  OBVIOUS
<1>6. PICK g : /\ Loops(sub, b, g)
               /\ decode_unsubscribe(b) = IF Len(b) <= 2 THEN Malformed ELSE g[2]
  BY <1>5, UnsubscribeLoop
<1>2. ~ (Len(b) <= 2) /\ decode_unsubscribe(b) = g[2] /\ ~ IsErr(g[2])
  BY <1>1, <1>6
<1>7. PICK id \in U16, l \in Seq(Entries(sub)) :
        /\ id = from_be_bytes(b, 0) /\ l # <<>>
        /\ g[2] = Listed(sub, b, l)
        /\ b = to_be_bytes(id) \o FlattenSeq(Chunks(sub, l))
  <2>1. ListIsRead(sub, b, g)
    BY <1>2, <1>6, ListRead
  <2> QED
    BY <2>1 DEF ListIsRead
<1>8. decode_unsubscribe(b) = [type |-> "UNSUBSCRIBE", packet_id |-> id, topic_filters |-> l]
  BY <1>2, <1>5, <1>7 DEF Listed
<1>9. Seq(Entries(sub)) = Seq(FilterString)
  <2>1. Entries(sub) = FilterString
    BY <1>5 DEF Entries
  <2> QED
    BY <2>1
<1> QED
  BY <1>5, <1>7, <1>8, <1>9

LEMMA ListsEncoded ==
    ASSUME NEW id, NEW l
    PROVE  /\ encode([type |-> "SUBSCRIBE", packet_id |-> id, subscriptions |-> l])
                = [byte0 |-> 8 * 16 + 2, body |-> to_be_bytes(id) \o FlattenSeq(Chunks(TRUE, l))]
           /\ encode([type |-> "UNSUBSCRIBE", packet_id |-> id, topic_filters |-> l])
                = [byte0 |-> 10 * 16 + 2, body |-> to_be_bytes(id) \o FlattenSeq(Chunks(FALSE, l))]
<1>1. PICK p : p = [type |-> "SUBSCRIBE", packet_id |-> id, subscriptions |-> l]
  OBVIOUS
<1>2. p.type = "SUBSCRIBE" /\ p.packet_id = id /\ p.subscriptions = l
  BY <1>1
<1>3. encode(p) = encode_subscribe(p)
  BY <1>2 DEF encode
<1>4. encode_subscribe(p) =
        [byte0 |-> 8 * 16 + 2, body |-> to_be_bytes(id) \o FlattenSeq(Chunks(TRUE, l))]
  BY <1>2, Zenon DEF encode_subscribe, prepend_fixed_header, PT_SUBSCRIBE, Chunks, Chunk
<1>5. PICK q : q = [type |-> "UNSUBSCRIBE", packet_id |-> id, topic_filters |-> l]
  OBVIOUS
<1>6. q.type = "UNSUBSCRIBE" /\ q.packet_id = id /\ q.topic_filters = l
  BY <1>5
<1>7. encode(q) = encode_unsubscribe(q)
  BY <1>6 DEF encode
<1>8. encode_unsubscribe(q) =
        [byte0 |-> 10 * 16 + 2, body |-> to_be_bytes(id) \o FlattenSeq(Chunks(FALSE, l))]
  BY <1>6, Zenon DEF encode_unsubscribe, prepend_fixed_header, PT_UNSUBSCRIBE, Chunks, Chunk
<1> QED
  BY <1>1, <1>3, <1>4, <1>5, <1>7, <1>8, Zenon

LEMMA PubackDecoded ==
    ASSUME NEW b \in Seq(Byte), ~ IsErr(decode_puback(b))
    PROVE  \E id \in U16 :
              /\ decode_puback(b) = [type |-> "PUBACK", packet_id |-> id]
              /\ b = to_be_bytes(id)
<1>1. IsErr(Malformed)
  BY DEF IsErr, Malformed, Err
<1>2. ~ (Len(b) # 2 \/ b = <<0, 0>>)
      /\ decode_puback(b) = [type |-> "PUBACK", packet_id |-> from_be_bytes(b, 0)]
  BY <1>1 DEF decode_puback
<1>3. Len(b) = 2
  BY <1>2, Zenon
<1>4. PICK id \in U16 : id = from_be_bytes(b, 0) /\ b = to_be_bytes(id) \o After(b, 2)
  <2>1. 2 <= Len(b)
    BY <1>3
  <2> QED
    BY <2>1, IdThenRest
<1>5. After(b, 2) = <<>>
  <2>1. 2 <= Len(b) /\ Len(b) - 2 = 0
    BY <1>3
  <2>2. After(b, 2) \in Seq(Byte) /\ Len(After(b, 2)) = 0
    BY <2>1, AfterIs, 2 \in Nat
  <2> QED
    BY <2>2, EmptySeq
<1>6. to_be_bytes(id) \o <<>> = to_be_bytes(id)
  <2>1. to_be_bytes(id) \in Seq(Byte)
    BY BeBytes
  <2> QED
    BY <2>1, ConcatEmptySeq
<1> QED
  BY <1>2, <1>4, <1>5, <1>6

LEMMA PubackEncoded ==
    ASSUME NEW id
    PROVE  encode([type |-> "PUBACK", packet_id |-> id]) = [byte0 |-> 4 * 16 + 0, body |-> to_be_bytes(id)]
<1>1. PICK p : p = [type |-> "PUBACK", packet_id |-> id]
  OBVIOUS
<1>2. p.type = "PUBACK" /\ p.packet_id = id
  BY <1>1
<1>3. encode(p) = encode_puback(p)
  BY <1>2 DEF encode
<1>4. encode_puback(p) = [byte0 |-> 4 * 16 + 0, body |-> to_be_bytes(id)]
  BY <1>2, Zenon DEF encode_puback, prepend_fixed_header, PT_PUBACK
<1> QED
  BY <1>1, <1>3, <1>4

LEMMA BareEncoded ==
    /\ encode([type |-> "PINGREQ"]) = [byte0 |-> 12 * 16 + 0, body |-> <<>>]
    /\ encode([type |-> "DISCONNECT"]) = [byte0 |-> 14 * 16 + 0, body |-> <<>>]
<1>1. encode([type |-> "PINGREQ"]) = encode_fixed_header_only(PT_PINGREQ)
  BY DEF encode
<1>2. encode([type |-> "DISCONNECT"]) = encode_fixed_header_only(PT_DISCONNECT)
  BY DEF encode
<1> QED
  BY <1>1, <1>2, Zenon DEF encode_fixed_header_only, prepend_fixed_header, PT_PINGREQ, PT_DISCONNECT

\* The bytes around the eighth one, the flags of CONNECT.
Eighth(s, u, y, v) ==
    /\ s \in Seq(Byte)
    /\ Len(s) = 8 + Len(v)
    /\ \A k \in 1..7 : s[k] = u[k]
    /\ s[8] = y
    /\ \A k \in 1..Len(v) : s[8 + k] = v[k]

LEMMA Around8 ==
    ASSUME NEW u \in Seq(Byte), Len(u) = 7, NEW y \in Byte, NEW v \in Seq(Byte)
    PROVE  Eighth(u \o (<<y>> \o v), u, y, v)
<1>1. PICK c \in Seq(Byte) : c = <<y>> /\ Len(c) = 1 /\ c[1] = y
  <2>1. <<y>> \in Seq(Byte) /\ Len(<<y>>) = 1 /\ <<y>>[1] = y
    OBVIOUS
  <2> QED
    BY <2>1
<1>2. PICK n \in Nat : n = Len(v)
  OBVIOUS
<1>3. PICK w \in Seq(Byte) :
        /\ w = c \o v /\ Len(w) = 1 + n /\ w[1] = y
        /\ \A k \in 1..n : w[1 + k] = v[k]
  <2>1. /\ c \o v \in Seq(Byte) /\ Len(c \o v) = Len(c) + Len(v)
        /\ \A k \in 1..Len(c) : (c \o v)[k] = c[k]
        /\ \A k \in 1..Len(v) : (c \o v)[Len(c) + k] = v[k]
    BY Joined
  <2>2. 1 \in 1..1
    OBVIOUS
  <2> QED
    BY <1>1, <1>2, <2>1, <2>2
<1>3a. PICK s : s = u \o w
  OBVIOUS
<1>4. /\ s \in Seq(Byte) /\ Len(s) = 7 + (1 + n)
      /\ \A k \in 1..7 : s[k] = u[k]
      /\ \A k \in 1..(1 + n) : s[7 + k] = w[k]
  <2>1. /\ u \o w \in Seq(Byte) /\ Len(u \o w) = Len(u) + Len(w)
        /\ \A k \in 1..Len(u) : (u \o w)[k] = u[k]
        /\ \A k \in 1..Len(w) : (u \o w)[Len(u) + k] = w[k]
    BY Joined
  <2>2. /\ s \in Seq(Byte) /\ Len(s) = 7 + Len(w)
        /\ \A k \in 1..7 : s[k] = u[k]
        /\ \A k \in 1..Len(w) : s[7 + k] = w[k]
    BY <1>3a, <2>1
  <2> QED
    BY <1>3, <2>2
<1>5. s[8] = y
  <2>1. 1 \in 1..(1 + n) /\ 7 + 1 = 8
    OBVIOUS
  <2> QED
    BY <1>3, <1>4, <2>1
<1>6. ASSUME NEW k \in 1..n PROVE s[8 + k] = v[k]
  <2>1. 1 + k \in 1..(1 + n) /\ 7 + (1 + k) = 8 + k
    OBVIOUS
  <2>2. s[7 + (1 + k)] = w[1 + k]
    BY <1>4, <2>1
  <2> QED
    BY <1>3, <2>1, <2>2
<1>7. 7 + (1 + n) = 8 + n
  OBVIOUS
<1>8. Eighth(s, u, y, v)
  BY <1>2, <1>4, <1>5, <1>6, <1>7 DEF Eighth
<1> QED
  BY <1>1, <1>3, <1>3a, <1>8

Replaced(u, y, z, v) == [u \o (<<y>> \o v) EXCEPT ![8] = z] = u \o (<<z>> \o v)

LEMMA Replace8 ==
    ASSUME NEW u \in Seq(Byte), Len(u) = 7, NEW y \in Byte, NEW z \in Byte, NEW v \in Seq(Byte)
    PROVE  Replaced(u, y, z, v)
<1>1. PICK n \in Nat : n = Len(v)
  OBVIOUS
<1>1a. PICK s : s = u \o (<<y>> \o v) /\ Eighth(s, u, y, v)
  BY Around8
<1>1b. PICK t : t = u \o (<<z>> \o v) /\ Eighth(t, u, z, v)
  BY Around8
<1>2. /\ s \in Seq(Byte) /\ Len(s) = 8 + n
      /\ \A k \in 1..7 : s[k] = u[k]
      /\ \A k \in 1..n : s[8 + k] = v[k]
  BY <1>1, <1>1a DEF Eighth
<1>3. /\ t \in Seq(Byte) /\ Len(t) = 8 + n
      /\ \A k \in 1..7 : t[k] = u[k]
      /\ t[8] = z
      /\ \A k \in 1..n : t[8 + k] = v[k]
  BY <1>1, <1>1b DEF Eighth
<1>4. 8 \in 1..Len(s) /\ DOMAIN s = 1..(8 + n) /\ DOMAIN t = 1..(8 + n)
  BY <1>2, <1>3
<1>5. PICK r : r = [s EXCEPT ![8] = z]
  OBVIOUS
<1>6. /\ DOMAIN r = 1..(8 + n) /\ r[8] = z /\ \A k \in 1..(8 + n) : k # 8 => r[k] = s[k]
  BY <1>4, <1>5
<1>7. ASSUME NEW k \in 1..(8 + n) PROVE r[k] = t[k]
  <2>1. CASE k \in 1..7
    BY <1>2, <1>3, <1>6, <2>1
  <2>2. CASE k = 8
    BY <1>3, <1>6, <2>2
  <2>3. CASE k > 8
    <3>1. PICK j \in 1..n : k = 8 + j
      <4>1. k - 8 \in 1..n /\ k = 8 + (k - 8)
        BY <2>3
      <4> QED
        BY <4>1
    <3>2. r[k] = s[k]
      BY <1>6, <2>3
    <3> QED
      BY <1>2, <1>3, <3>1, <3>2
  <2> QED
    BY <2>1, <2>2, <2>3
<1>8. r = [k \in 1..(8 + n) |-> r[k]] /\ t = [k \in 1..(8 + n) |-> t[k]]
  <2>1. r = [k \in DOMAIN s |-> r[k]]
    BY <1>5
  <2>2. t = [k \in DOMAIN t |-> t[k]]
    BY <1>3
  <2> QED
    BY <1>4, <2>1, <2>2
<1>9. r = t
  BY <1>7, <1>8
<1> QED
  BY <1>1a, <1>1b, <1>5, <1>9 DEF Replaced

LEMMA MQTTBytes ==
    /\ MQTT \in Seq(Byte) /\ Len(MQTT) = 4 /\ Len(MQTT) <= U16Max
    /\ encode_utf8_string(MQTT) \in Seq(Byte) /\ Len(encode_utf8_string(MQTT)) = 6
    /\ C!MQTT = MQTT /\ C!encode_utf8_str(MQTT) = encode_utf8_string(MQTT)
<1>1. 77 \in Byte /\ 81 \in Byte /\ 84 \in Byte
  BY SMT DEF Byte
<1>2. MQTT \in Seq(Byte) /\ Len(MQTT) = 4 /\ C!MQTT = MQTT
  BY <1>1 DEF MQTT, C!MQTT
<1>3. 4 <= U16Max
  BY DEF U16Max
<1>4. /\ C!encode_utf8_str(MQTT) = encode_utf8_string(MQTT)
      /\ encode_utf8_string(MQTT) \in Seq(Byte)
      /\ Len(encode_utf8_string(MQTT)) = 2 + Len(MQTT)
  BY <1>2, <1>3, StringBytes
<1> QED
  BY <1>2, <1>3, <1>4

\* The body of a CONNECT with the flags y.
ConnectBody(y, k, id) ==
    (encode_utf8_string(MQTT) \o <<4>>)
      \o (<<y>> \o (to_be_bytes(k) \o encode_utf8_string(id)))

LEMMA ConnectParts ==
    ASSUME NEW k \in U16, NEW id \in Utf8String
    PROVE  /\ encode_utf8_string(MQTT) \o <<4>> \in Seq(Byte)
           /\ Len(encode_utf8_string(MQTT) \o <<4>>) = 7
           /\ to_be_bytes(k) \o encode_utf8_string(id) \in Seq(Byte)
<1>1. PICK e \in Seq(Byte) : e = encode_utf8_string(MQTT) /\ Len(e) = 6
  BY MQTTBytes
<1>2. <<4>> \in Seq(Byte) /\ Len(<<4>>) = 1
  <2>1. 4 \in Byte
    BY SMT DEF Byte
  <2> QED
    BY <2>1
<1>3. PICK c \in Seq(Byte) : c = <<4>> /\ Len(c) = 1
  BY <1>2
<1>4. e \o c \in Seq(Byte) /\ Len(e \o c) = Len(e) + Len(c)
  BY Joined
<1>5. PICK a \in Seq(Byte), d \in Seq(Byte) : a = to_be_bytes(k) /\ d = encode_utf8_string(id)
  <2>1. to_be_bytes(k) \in Seq(Byte)
    BY BeBytes
  <2>2. encode_utf8_string(id) \in Seq(Byte)
    BY StringBytes DEF Utf8String
  <2> QED
    BY <2>1, <2>2
<1>6. a \o d \in Seq(Byte)
  BY Joined
<1>7. Len(e \o c) = 7
  BY <1>1, <1>3, <1>4
<1> QED
  BY <1>1, <1>3, <1>4, <1>5, <1>6, <1>7

LEMMA ConnectJoined ==
    ASSUME NEW z \in Byte, NEW k \in U16, NEW id \in Utf8String
    PROVE  ((encode_utf8_string(MQTT) \o <<4, z>>) \o to_be_bytes(k)) \o encode_utf8_string(id)
             = ConnectBody(z, k, id)
<1>1. PICK e \in Seq(Byte) : e = encode_utf8_string(MQTT)
  BY MQTTBytes
<1>2. PICK a \in Seq(Byte) : a = to_be_bytes(k)
  BY BeBytes
<1>3. PICK d \in Seq(Byte) : d = encode_utf8_string(id)
  BY StringBytes DEF Utf8String
<1>4. 4 \in Byte
  BY SMT DEF Byte
<1>5. PICK f \in Seq(Byte), y \in Seq(Byte), w \in Seq(Byte) :
        f = <<4>> /\ y = <<z>> /\ w = <<4, z>>
  <2>1. <<4>> \in Seq(Byte) /\ <<z>> \in Seq(Byte) /\ <<4, z>> \in Seq(Byte)
    BY <1>4
  <2> QED
    BY <2>1
<1>6. w = f \o y
  <2>1. /\ f \o y \in Seq(Byte) /\ Len(f \o y) = Len(f) + Len(y)
        /\ \A j \in 1..Len(f) : (f \o y)[j] = f[j]
        /\ \A j \in 1..Len(y) : (f \o y)[Len(f) + j] = y[j]
    BY Joined
  <2>2. Len(f) = 1 /\ f[1] = 4 /\ Len(y) = 1 /\ y[1] = z /\ Len(w) = 2 /\ w[1] = 4 /\ w[2] = z
    BY <1>5
  <2>3. PICK g : g = f \o y
    OBVIOUS
  <2>4. g \in Seq(Byte) /\ Len(g) = 2 /\ g[1] = 4 /\ g[2] = z
    <3>1. 1 \in 1..1 /\ 1 + 1 = 2
      OBVIOUS
    <3> QED
      BY <2>1, <2>2, <2>3, <3>1
  <2>5. \A j \in 1..2 : j = 1 \/ j = 2
    OBVIOUS
  <2>6. \A j \in 1..Len(w) : w[j] = g[j]
    BY <2>2, <2>4, <2>5
  <2> QED
    BY <2>2, <2>3, <2>4, <2>6, SeqEqual
<1>7. PICK u \in Seq(Byte), v \in Seq(Byte), t \in Seq(Byte) : u = e \o f /\ v = a \o d /\ t = e \o w
  <2>1. e \o f \in Seq(Byte)
    BY Joined
  <2>2. a \o d \in Seq(Byte)
    BY Joined
  <2>3. e \o w \in Seq(Byte)
    BY Joined
  <2> QED
    BY <2>1, <2>2, <2>3
<1>8. (t \o a) \o d = t \o (a \o d)
  <2>1. Regrouped(t, a, d)
    BY Regroup
  <2> QED
    BY <2>1, Zenon DEF Regrouped
<1>9. (e \o f) \o y = e \o (f \o y)
  <2>1. Regrouped(e, f, y)
    BY Regroup
  <2> QED
    BY <2>1, Zenon DEF Regrouped
<1>10. (u \o y) \o v = u \o (y \o v)
  <2>1. Regrouped(u, y, v)
    BY Regroup
  <2> QED
    BY <2>1, Zenon DEF Regrouped
<1>11. (t \o a) \o d = u \o (y \o v)
  <2>1. t = u \o y
    BY <1>6, <1>7, <1>9
  <2> QED
    BY <1>7, <1>8, <1>10, <2>1
<1>12. ConnectBody(z, k, id) = u \o (y \o v)
  BY <1>1, <1>2, <1>3, <1>5, <1>7 DEF ConnectBody
<1> QED
  BY <1>1, <1>2, <1>3, <1>5, <1>7, <1>11, <1>12

LEMMA ConnectEncoded ==
    ASSUME NEW c \in BOOLEAN, NEW k \in U16, NEW id \in Utf8String
    PROVE  /\ encode([type |-> "CONNECT", clean_session |-> c, keep_alive_secs |-> k, client_id |-> id])
                = [byte0 |-> 1 * 16 + 0, body |-> ConnectBody(IF c THEN 2 ELSE 0, k, id)]
           /\ C!encode_connect(id, k) = [byte0 |-> 1 * 16 + 0, body |-> ConnectBody(2, k, id)]
<1>1. PICK z \in Byte : z = IF c THEN 2 ELSE 0
  <2>1. 2 \in Byte /\ 0 \in Byte
    BY SMT DEF Byte
  <2> QED
    BY <2>1
<1>2. PICK p : p = [type |-> "CONNECT", clean_session |-> c, keep_alive_secs |-> k, client_id |-> id]
  OBVIOUS
<1>3. p.type = "CONNECT" /\ p.clean_session = c /\ p.keep_alive_secs = k /\ p.client_id = id
  BY <1>2
<1>4. encode(p) = encode_connect(p)
  BY <1>3 DEF encode
<1> DEFINE joined(y) == ((encode_utf8_string(MQTT) \o <<4, y>>) \o to_be_bytes(k)) \o encode_utf8_string(id)
<1>5. encode_connect(p) = [byte0 |-> 1 * 16 + 0, body |-> joined(z)]
  BY <1>1, <1>3, Zenon DEF encode_connect, prepend_fixed_header, PT_CONNECT
<1>6. joined(z) = ConnectBody(z, k, id)
  BY ConnectJoined
<1>7. 2 \in Byte
  BY SMT DEF Byte
<1>8. joined(2) = ConnectBody(2, k, id)
  BY <1>7, ConnectJoined
<1>9. C!encode_connect(id, k) = [byte0 |-> 1 * 16 + 0, body |-> joined(2)]
  <2>1. C!encode_utf8_str(C!MQTT) = encode_utf8_string(MQTT)
    BY MQTTBytes
  <2>2. C!encode_utf8_str(id) = encode_utf8_string(id)
    BY StringBytes DEF Utf8String
  <2>3. C!to_be_bytes(k) = to_be_bytes(k)
    BY BeBytes
  <2> QED
    BY <2>1, <2>2, <2>3, Zenon DEF C!encode_connect, C!make_packet, C!PT_CONNECT
<1> HIDE DEF joined
<1> QED
  BY <1>1, <1>2, <1>4, <1>5, <1>6, <1>8, <1>9

\* decode_connect: what it accepts is a CONNECT, whatever its flags are.
LEMMA ConnectDecoded ==
    ASSUME NEW b \in Seq(Byte), ~ IsErr(decode_connect(b))
    PROVE  \E y \in Byte, k \in U16, id \in Utf8String :
              /\ decode_connect(b) = [type |-> "CONNECT", clean_session |-> Bit(y, 2),
                                      keep_alive_secs |-> k, client_id |-> id]
              /\ b = ConnectBody(y, k, id)
<1>1. IsErr(Malformed) /\ IsErr(Unsupported)
  BY DEF IsErr, Malformed, Unsupported, Err
<1> DEFINE name == decode_utf8_string(b)
           pos == name.end
           flags == b[pos + 2]
           id == decode_utf8_string(From(b, pos + 4))
           r == [type |-> "CONNECT", clean_session |-> Bit(flags, 2),
                 keep_alive_secs |-> from_be_bytes(b, pos + 2), client_id |-> id.s]
           wrong == IsErr(name) \/ name.s # MQTT \/ Len(b) < pos + 1
           short == Len(b) < pos + 2
           unsup == Bit(flags, 4) \/ Bit(flags, 64) \/ Bit(flags, 128)
           bad == \/ Len(b) < pos + 4
                  \/ IsErr(id)
                  \/ pos + 4 + id.end # Len(b)
           level == b[pos + 1]
<1>2. decode_connect(b) =
        IF wrong THEN Malformed
        ELSE IF level # 4 THEN Unsupported
        ELSE IF short THEN Malformed
        ELSE IF unsup THEN Unsupported
        ELSE IF bad THEN Malformed
        ELSE r
  BY Zenon DEF decode_connect
<1>3. ~ wrong /\ level = 4 /\ ~ short /\ ~ bad /\ decode_connect(b) = r
  <2> HIDE DEF wrong, level, short, unsup, bad, r
  <2> QED
    BY <1>1, <1>2
<1>4. PICK n \in Nat : n = Len(b)
  OBVIOUS
<1>5. /\ name = Found(MQTT) /\ pos = 6
      /\ b = encode_utf8_string(MQTT) \o After(b, 6)
  <2>1. ~ IsErr(name) /\ name.s = MQTT
    BY <1>3
  <2>2. PICK s \in Utf8String, t \in Seq(Byte) :
          /\ name = Found(s)
          /\ b = encode_utf8_string(s) \o t
          /\ t = SubSeq(b, 2 + Len(s) + 1, Len(b))
    BY <2>1, StringDecoded
  <2>3. s = MQTT
    BY <2>1, <2>2 DEF Found
  <2>4. 2 + Len(s) = 6
    BY <2>3, MQTTBytes
  <2>5. t = After(b, 6)
    BY <2>2, <2>4 DEF After
  <2>6. pos = 6
    BY <2>2, <2>4 DEF Found
  <2> HIDE DEF name, pos
  <2> QED
    BY <2>2, <2>3, <2>5, <2>6
<1>6. /\ 6 + 1 = 7 /\ 6 + 2 = 8 /\ 6 + 4 = 10 /\ 7 + 1 = 8 /\ 8 + 2 = 10 /\ 10 <= n
  <2>1. ~ (n < pos + 4)
    BY <1>3, <1>4
  <2> HIDE DEF pos
  <2> QED
    BY <1>5, <2>1
<1>7. level = b[7] /\ flags = b[8]
  <2> HIDE DEF pos
  <2> QED
    BY <1>5, <1>6
<1>8. b[7] \in Byte /\ After(b, 6) = <<b[7]>> \o After(b, 7)
  <2>1. 6 < Len(b)
    BY <1>4, <1>6
  <2> QED
    BY <1>6, <2>1, AfterOne, 6 \in Nat
<1>9. b[8] \in Byte /\ After(b, 7) = <<b[8]>> \o After(b, 8)
  <2>1. 7 < Len(b)
    BY <1>4, <1>6
  <2> QED
    BY <1>6, <2>1, AfterOne, 7 \in Nat
<1>10. PICK k \in U16 : k = from_be_bytes(b, 8) /\ After(b, 8) = to_be_bytes(k) \o After(b, 10)
  <2>1. 8 <= Len(b) /\ 8 + 2 <= Len(b)
    BY <1>4, <1>6
  <2>2. PICK c \in Seq(Byte) : c = After(b, 8) /\ Len(c) = n - 8 /\ \A j \in 1..(n - 8) : c[j] = b[8 + j]
    BY <1>4, <2>1, AfterIs, 8 \in Nat
  <2>3. 2 <= Len(c) /\ 1 \in 1..(n - 8) /\ 2 \in 1..(n - 8)
    BY <1>6, <2>2
  <2>4. PICK k \in U16 : k = from_be_bytes(c, 0) /\ c = to_be_bytes(k) \o After(c, 2)
    BY <2>3, IdThenRest
  <2>5. from_be_bytes(c, 0) = from_be_bytes(b, 8)
    <3>1. c[0 + 1] = b[8 + 1] /\ c[0 + 2] = b[8 + 2]
      BY <2>2, <2>3
    <3> QED
      BY <3>1 DEF from_be_bytes
  <2>6. After(c, 2) = After(b, 10)
    <3>1. After(After(b, 8), 2) = After(b, 8 + 2)
      BY <2>1, AfterAfter, 8 \in Nat, 2 \in Nat
    <3> QED
      BY <1>6, <2>2, <3>1
  <2> QED
    BY <2>2, <2>4, <2>5, <2>6
<1>11. PICK s \in Utf8String : id = Found(s) /\ After(b, 10) = encode_utf8_string(s)
  <2>1. id = FilterAt(b, 10)
    <3>1. pos + 4 = 10
      <4> HIDE DEF pos
      <4> QED
        BY <1>5, <1>6
    <3> QED
      BY <3>1 DEF FilterAt
  <2>2. ~ IsErr(id) /\ 10 + id.end = n
    <3>1. ~ IsErr(id) /\ pos + 4 + id.end = Len(b)
      BY <1>3
    <3> HIDE DEF pos, id
    <3> QED
      BY <1>4, <1>5, <1>6, <3>1
  <2> HIDE DEF id
  <2>3. PICK s \in Utf8String, at \in Nat :
          /\ FilterAt(b, 10) = Found(s) /\ at = 10 + (2 + Len(s)) /\ at <= Len(b)
          /\ After(b, 10) = encode_utf8_string(s) \o After(b, at)
    <3>1. 10 <= Len(b) /\ ~ IsErr(FilterAt(b, 10))
      BY <1>4, <1>6, <2>1, <2>2
    <3> QED
      BY <3>1, FilterFound, 10 \in Nat
  <2>4. at = n
    <3>1. id.end = 2 + Len(s)
      BY <2>1, <2>3 DEF Found
    <3> QED
      BY <2>2, <2>3, <3>1
  <2>5. After(b, at) = <<>>
    <3>1. at <= Len(b) /\ Len(b) - at = 0
      BY <1>4, <2>4
    <3>2. After(b, at) \in Seq(Byte) /\ Len(After(b, at)) = 0
      BY <3>1, AfterIs
    <3> QED
      BY <3>2, EmptySeq
  <2>6. encode_utf8_string(s) \o <<>> = encode_utf8_string(s)
    <3>1. encode_utf8_string(s) \in Seq(Byte)
      BY StringBytes DEF Utf8String
    <3> QED
      BY <3>1, ConcatEmptySeq
  <2> QED
    BY <2>1, <2>3, <2>5, <2>6
<1>12. PICK y \in Byte : y = b[8] /\ y = flags
  BY <1>7, <1>9
<1>13. r = [type |-> "CONNECT", clean_session |-> Bit(y, 2), keep_alive_secs |-> k, client_id |-> s]
  <2>1. id.s = s
    BY <1>11 DEF Found
  <2>2. from_be_bytes(b, pos + 2) = k
    <3> HIDE DEF pos
    <3> QED
      BY <1>5, <1>6, <1>10
  <2> HIDE DEF pos, flags, id, name
  <2> QED
    BY <1>12, <2>1, <2>2
<1>14. b = ConnectBody(y, k, s)
  <2>1. PICK e \in Seq(Byte), f \in Seq(Byte), v \in Seq(Byte) :
          /\ e = encode_utf8_string(MQTT) /\ f = <<4>>
          /\ v = <<y>> \o (to_be_bytes(k) \o encode_utf8_string(s))
    <3>1. encode_utf8_string(MQTT) \in Seq(Byte)
      BY MQTTBytes
    <3>2. 4 \in Byte
      BY SMT DEF Byte
    <3>3. <<4>> \in Seq(Byte) /\ <<y>> \in Seq(Byte)
      BY <3>2
    <3>4. PICK w \in Seq(Byte) : w = to_be_bytes(k) \o encode_utf8_string(s)
      BY ConnectParts
    <3>5. <<y>> \o w \in Seq(Byte)
      BY <3>3, Joined
    <3> QED
      BY <3>1, <3>3, <3>4, <3>5
  <2>2. (e \o f) \o v = e \o (f \o v)
    BY Regroup, Zenon DEF Regrouped
  <2>3. After(b, 7) = v
    BY <1>9, <1>10, <1>11, <1>12, <2>1
  <2>4. After(b, 6) = f \o v
    <3>1. b[7] = 4
      BY <1>3, <1>7
    <3> QED
      BY <1>8, <2>1, <2>3, <3>1
  <2>5. b = e \o (f \o v)
    BY <1>5, <2>1, <2>4
  <2>6. ConnectBody(y, k, s) = (e \o f) \o v
    BY <2>1 DEF ConnectBody
  <2> QED
    BY <2>2, <2>5, <2>6
<1> HIDE DEF r
<1> QED
  BY <1>3, <1>13, <1>14

-----------------------------------------------------------------------------
(* What decode accepts *)

\* r is a packet that the broker can rely on, and stands for the bytes of f.
WellFormed(r) ==
    /\ r.type = "SUBSCRIBE" =>
         /\ r.subscriptions # <<>>
         /\ \A k \in DOMAIN r.subscriptions : validate_topic_filter(r.subscriptions[k][1])
    /\ r.type = "UNSUBSCRIBE" =>
         /\ r.topic_filters # <<>>
         /\ \A k \in DOMAIN r.topic_filters : validate_topic_filter(r.topic_filters[k])
    /\ r.type = "PUBLISH" => r \in PublishPacket
Faithful(f, r) ==
    /\ encode(r).body = Significant(r, f.body)
    /\ encode(r).byte0 \div 16 = f.byte0 \div 16
    /\ r.type = "PUBLISH" => encode(r).byte0 % 8 = f.byte0 % 8

LEMMA Divided ==
    ASSUME NEW t \in Nat, NEW n \in Nat, n < 16
    PROVE  (t * 16 + n) \div 16 = t
BY Header

LEMMA ConnectAccepted ==
    ASSUME NEW f \in Frame, f.byte0 \div 16 = 1, ~ IsErr(decode(f))
    PROVE  WellFormed(decode(f)) /\ Faithful(f, decode(f))
<1>1. PICK b \in Seq(Byte) : b = f.body
  BY DEF Frame
<1>2. decode(f) = decode_connect(b)
  BY <1>1, Dispatch
<1>3. PICK y \in Byte, k \in U16, id \in Utf8String :
        /\ decode(f) = [type |-> "CONNECT", clean_session |-> Bit(y, 2),
                        keep_alive_secs |-> k, client_id |-> id]
        /\ b = ConnectBody(y, k, id)
  BY <1>2, ConnectDecoded
<1>4. PICK r, c : r = decode(f) /\ c = Bit(y, 2)
  OBVIOUS
<1>5. r = [type |-> "CONNECT", clean_session |-> c, keep_alive_secs |-> k, client_id |-> id]
  BY <1>3, <1>4
<1>6. r.type = "CONNECT"
  BY <1>5
<1>7. c \in BOOLEAN
  BY <1>4 DEF Bit
<1>8. encode(r) = [byte0 |-> 1 * 16 + 0, body |-> ConnectBody(IF c THEN 2 ELSE 0, k, id)]
  BY <1>5, <1>7, ConnectEncoded
<1>9. encode(r).byte0 \div 16 = 1
  <2>1. (1 * 16 + 0) \div 16 = 1
    BY Divided, 1 \in Nat, 0 \in Nat
  <2> QED
    BY <1>8, <2>1
<1>10. PICK z \in Byte : z = IF c THEN 2 ELSE 0
  <2>1. 2 \in Byte /\ 0 \in Byte
    BY SMT DEF Byte
  <2> QED
    BY <2>1
<1>11. PICK u \in Seq(Byte), v \in Seq(Byte) :
         /\ Len(u) = 7 /\ u = encode_utf8_string(MQTT) \o <<4>>
         /\ v = to_be_bytes(k) \o encode_utf8_string(id)
  BY ConnectParts
<1>12. b = u \o (<<y>> \o v) /\ ConnectBody(z, k, id) = u \o (<<z>> \o v)
  BY <1>3, <1>11 DEF ConnectBody
<1>13. b[8] = y
  <2>1. Eighth(u \o (<<y>> \o v), u, y, v)
    BY <1>11, Around8
  <2> QED
    BY <1>12, <2>1 DEF Eighth
<1>14. [b EXCEPT ![8] = z] = u \o (<<z>> \o v)
  <2>1. [u \o (<<y>> \o v) EXCEPT ![8] = z] = u \o (<<z>> \o v)
    <3>1. Len(u) = 7
      BY <1>11
    <3>2. Replaced(u, y, z, v)
      BY <3>1, Replace8
    <3> QED
      BY <3>2, Zenon DEF Replaced
  <2> QED
    BY <1>12, <2>1
<1>15. Significant(r, b) = [b EXCEPT ![8] = z]
  <2>1. Significant(r, b) = [b EXCEPT ![8] = IF Bit(b[8], 2) THEN 2 ELSE 0]
    BY <1>6, Zenon DEF Significant
  <2>2. (IF Bit(b[8], 2) THEN 2 ELSE 0) = z
    BY <1>4, <1>10, <1>13
  <2> QED
    BY <2>1, <2>2
<1>16. encode(r).body = Significant(r, b)
  <2>1. encode(r).body = ConnectBody(z, k, id)
    BY <1>8, <1>10
  <2> QED
    BY <1>12, <1>14, <1>15, <2>1
<1>17. WellFormed(r)
  BY <1>6 DEF WellFormed
<1>18. Faithful(f, r)
  BY <1>1, <1>6, <1>9, <1>16 DEF Faithful
<1> QED
  BY <1>4, <1>17, <1>18

LEMMA ListAccepted ==
    ASSUME NEW f \in Frame, f.byte0 \div 16 \in {8, 10}, ~ IsErr(decode(f))
    PROVE  WellFormed(decode(f)) /\ Faithful(f, decode(f))
<1>1. PICK b \in Seq(Byte) : b = f.body
  BY DEF Frame
<1>2. PICK r : r = decode(f)
  OBVIOUS
<1>3. CASE f.byte0 \div 16 = 8
  <2>1. r = decode_subscribe(b)
    BY <1>1, <1>2, <1>3, Dispatch
  <2>2. PICK id \in U16, l \in Seq(FilterString \X (0..2)) :
          /\ r = [type |-> "SUBSCRIBE", packet_id |-> id, subscriptions |-> l]
          /\ l # <<>>
          /\ b = to_be_bytes(id) \o FlattenSeq(Chunks(TRUE, l))
    <3>1. ~ IsErr(decode_subscribe(b))
      BY <1>2, <2>1
    <3>2. \E id \in U16, l \in Seq(FilterString \X (0..2)) :
            /\ decode_subscribe(b) = [type |-> "SUBSCRIBE", packet_id |-> id, subscriptions |-> l]
            /\ l # <<>>
            /\ b = to_be_bytes(id) \o FlattenSeq(Chunks(TRUE, l))
      BY <3>1, SubscribeDecoded, Zenon
    <3> QED
      BY <2>1, <3>2, Zenon
  <2>3. r.type = "SUBSCRIBE" /\ r.subscriptions = l
    BY <2>2
  <2>4. \A k \in DOMAIN l : validate_topic_filter(l[k][1])
    <3>1. ASSUME NEW k \in DOMAIN l PROVE validate_topic_filter(l[k][1])
      <4>1. l[k] \in FilterString \X (0..2)
        OBVIOUS
      <4>2. l[k][1] \in FilterString
        BY <4>1
      <4> QED
        BY <4>2 DEF FilterString
    <3> QED
      BY <3>1
  <2>5. WellFormed(r)
    BY <2>2, <2>3, <2>4 DEF WellFormed
  <2>6. encode(r).byte0 = 8 * 16 + 2 /\ encode(r).body = b
    <3>1. encode(r) = [byte0 |-> 8 * 16 + 2, body |-> to_be_bytes(id) \o FlattenSeq(Chunks(TRUE, l))]
      BY <2>2, ListsEncoded, Zenon
    <3>2. encode(r) = [byte0 |-> 8 * 16 + 2, body |-> b]
      BY <2>2, <3>1, Zenon
    <3> QED
      BY <3>2
  <2>7. (8 * 16 + 2) \div 16 = 8
    BY Divided, 8 \in Nat, 2 \in Nat
  <2>8. Significant(r, b) = b
    BY <2>3 DEF Significant
  <2>9. Faithful(f, r)
    BY <1>1, <1>3, <2>3, <2>6, <2>7, <2>8 DEF Faithful
  <2> QED
    BY <1>2, <2>5, <2>9
<1>4. CASE f.byte0 \div 16 = 10
  <2>1. r = decode_unsubscribe(b)
    BY <1>1, <1>2, <1>4, Dispatch
  <2>2. PICK id \in U16, l \in Seq(FilterString) :
          /\ r = [type |-> "UNSUBSCRIBE", packet_id |-> id, topic_filters |-> l]
          /\ l # <<>>
          /\ b = to_be_bytes(id) \o FlattenSeq(Chunks(FALSE, l))
    BY <1>2, <2>1, UnsubscribeDecoded
  <2>3. r.type = "UNSUBSCRIBE" /\ r.topic_filters = l
    BY <2>2
  <2>4. \A k \in DOMAIN l : validate_topic_filter(l[k])
    <3>1. ASSUME NEW k \in DOMAIN l PROVE validate_topic_filter(l[k])
      <4>1. l[k] \in FilterString
        OBVIOUS
      <4> QED
        BY <4>1 DEF FilterString
    <3> QED
      BY <3>1
  <2>5. WellFormed(r)
    BY <2>2, <2>3, <2>4 DEF WellFormed
  <2>6. encode(r).byte0 = 10 * 16 + 2 /\ encode(r).body = b
    <3>1. encode(r) = [byte0 |-> 10 * 16 + 2, body |-> to_be_bytes(id) \o FlattenSeq(Chunks(FALSE, l))]
      BY <2>2, ListsEncoded, Zenon
    <3>2. encode(r) = [byte0 |-> 10 * 16 + 2, body |-> b]
      BY <2>2, <3>1, Zenon
    <3> QED
      BY <3>2
  <2>7. (10 * 16 + 2) \div 16 = 10
    BY Divided, 10 \in Nat, 2 \in Nat
  <2>8. Significant(r, b) = b
    BY <2>3 DEF Significant
  <2>9. Faithful(f, r)
    BY <1>1, <1>4, <2>3, <2>6, <2>7, <2>8 DEF Faithful
  <2> QED
    BY <1>2, <2>5, <2>9
<1> QED
  BY <1>3, <1>4

\* The flags of a PUBLISH: all but DUP come back.
LEMMA PublishFlagsBack ==
    ASSUME NEW n \in Nat, NEW q \in {0, 1}, NEW r \in {0, 1}, NEW t \in Nat, t = n % 16,
           q = (t \div 2) % 4, Bit(t, 1) <=> r = 1
    PROVE  (48 + (q * 2 + r)) % 8 = n % 8
<1>1. PICK m \in Nat : n = 16 * m + t /\ t < 16
  BY SMT
<1>2. t % 2 = r
  <2>1. t % 2 = 1 <=> r = 1
    BY DEF Bit
  <2>2. t % 2 \in {0, 1}
    OBVIOUS
  <2> QED
    BY <2>1, <2>2
<1>3. t % 8 = q * 2 + r
  <2>1. PICK a \in Nat : t = 2 * a + r
    BY <1>2
  <2>2. t \div 2 = a
    BY <2>1
  <2>3. PICK c \in Nat : a = 4 * c + q
    BY <2>2
  <2>4. t = 8 * c + (q * 2 + r)
    BY <2>1, <2>3
  <2> QED
    BY <2>4
<1>4. n % 8 = t % 8
  <2>1. PICK c \in Nat, d \in Nat : t = 8 * c + d /\ d = t % 8 /\ d < 8
    BY SMT
  <2>2. n = 8 * (2 * m + c) + d
    BY <1>1, <2>1
  <2>3. PICK w \in Nat : w = 2 * m + c
    OBVIOUS
  <2>4. n = 8 * w + d
    BY <2>2, <2>3
  <2> QED
    BY <2>1, <2>4
<1>5. (48 + (q * 2 + r)) % 8 = q * 2 + r
  OBVIOUS
<1> QED
  BY <1>3, <1>4, <1>5

LEMMA PublishAccepted ==
    ASSUME NEW f \in Frame, f.byte0 \div 16 = 3, ~ IsErr(decode(f))
    PROVE  WellFormed(decode(f)) /\ Faithful(f, decode(f))
<1>1. PICK b \in Seq(Byte), n \in Nat, t \in Nat : b = f.body /\ n = f.byte0 /\ t = n % 16
  <2>1. f.body \in Seq(Byte) /\ f.byte0 \in Byte
    BY DEF Frame
  <2>2. f.byte0 \in Nat
    BY <2>1, ByteIsNat
  <2>3. f.byte0 % 16 \in Nat
    BY <2>2
  <2> QED
    BY <2>1, <2>2, <2>3
<1>2. PICK p : p = decode(f)
  OBVIOUS
<1>3. p = decode_publish(t, b)
  BY <1>1, <1>2, Dispatch
<1>4. /\ p \in PublishPacket
      /\ encode(p).body = b
      /\ p.qos = (t \div 2) % 4
      /\ p.retain = Bit(t, 1)
  BY <1>2, <1>3, PublishDecoded
<1>5. p.type = "PUBLISH" /\ p.qos \in {0, 1} /\ p.retain \in BOOLEAN
  BY <1>4, PublishFields
<1>6. encode(p).byte0 = 48 + (p.qos * 2 + (IF p.retain THEN 1 ELSE 0)) /\ encode(p).byte0 \div 16 = 3
  BY <1>4, PublishEncoded, PublishHeader
<1>7. PICK r \in {0, 1} : r = (IF p.retain THEN 1 ELSE 0)
  OBVIOUS
<1>8. encode(p).byte0 % 8 = n % 8
  <2>1. Bit(t, 1) <=> r = 1
    BY <1>4, <1>7
  <2>2. PICK q \in {0, 1} : q = p.qos
    BY <1>5
  <2>3. (48 + (q * 2 + r)) % 8 = n % 8
    <3>1. q = (t \div 2) % 4 /\ t = n % 16
      BY <1>1, <1>4, <2>2
    <3> QED
      BY <2>1, <3>1, PublishFlagsBack
  <2> QED
    BY <1>6, <1>7, <2>2, <2>3
<1>9. Significant(p, b) = b
  BY <1>5 DEF Significant
<1>10. WellFormed(p) /\ Faithful(f, p)
  BY <1>1, <1>4, <1>5, <1>6, <1>8, <1>9 DEF WellFormed, Faithful
<1> QED
  BY <1>2, <1>10

LEMMA ShortAccepted ==
    ASSUME NEW f \in Frame, f.byte0 \div 16 \in {4, 12, 14}, ~ IsErr(decode(f))
    PROVE  WellFormed(decode(f)) /\ Faithful(f, decode(f))
<1>1. PICK b \in Seq(Byte) : b = f.body
  BY DEF Frame
<1>2. PICK r : r = decode(f)
  OBVIOUS
<1>3. IsErr(Malformed)
  BY DEF IsErr, Malformed, Err
<1>4. CASE f.byte0 \div 16 = 4
  <2>1. r = IF f.byte0 % 16 # 0 THEN Malformed ELSE decode_puback(b)
    BY <1>1, <1>2, <1>4, Dispatch
  <2>2. r = decode_puback(b) /\ ~ IsErr(decode_puback(b))
    BY <1>2, <1>3, <2>1
  <2>3. PICK id \in U16 : r = [type |-> "PUBACK", packet_id |-> id] /\ b = to_be_bytes(id)
    BY <2>2, PubackDecoded
  <2>4. r.type = "PUBACK"
    BY <2>3
  <2>5. encode(r).byte0 = 4 * 16 + 0 /\ encode(r).body = b
    <3>1. encode(r) = [byte0 |-> 4 * 16 + 0, body |-> to_be_bytes(id)]
      BY <2>3, PubackEncoded
    <3>2. encode(r) = [byte0 |-> 4 * 16 + 0, body |-> b]
      BY <2>3, <3>1
    <3> QED
      BY <3>2
  <2>6. (4 * 16 + 0) \div 16 = 4
    BY Divided, 4 \in Nat, 0 \in Nat
  <2>7. Significant(r, b) = b
    BY <2>4 DEF Significant
  <2>8. WellFormed(r) /\ Faithful(f, r)
    BY <1>1, <1>4, <2>4, <2>5, <2>6, <2>7 DEF WellFormed, Faithful
  <2> QED
    BY <1>2, <2>8
<1>5. CASE f.byte0 \div 16 = 12
  <2>1. r = Bare("PINGREQ", b)
    BY <1>1, <1>2, <1>5, Dispatch
  <2>2. r = [type |-> "PINGREQ"] /\ b = <<>>
    BY <1>2, <1>3, <2>1 DEF Bare
  <2>3. encode(r).byte0 = 12 * 16 + 0 /\ encode(r).body = b /\ r.type = "PINGREQ"
    BY <2>2, BareEncoded
  <2>4. (12 * 16 + 0) \div 16 = 12
    BY Divided, 12 \in Nat, 0 \in Nat
  <2>5. Significant(r, b) = b
    BY <2>3 DEF Significant
  <2>6. WellFormed(r) /\ Faithful(f, r)
    BY <1>1, <1>5, <2>3, <2>4, <2>5 DEF WellFormed, Faithful
  <2> QED
    BY <1>2, <2>6
<1>6. CASE f.byte0 \div 16 = 14
  <2>1. r = Bare("DISCONNECT", b)
    BY <1>1, <1>2, <1>6, Dispatch
  <2>2. r = [type |-> "DISCONNECT"] /\ b = <<>>
    BY <1>2, <1>3, <2>1 DEF Bare
  <2>3. encode(r).byte0 = 14 * 16 + 0 /\ encode(r).body = b /\ r.type = "DISCONNECT"
    BY <2>2, BareEncoded
  <2>4. (14 * 16 + 0) \div 16 = 14
    BY Divided, 14 \in Nat, 0 \in Nat
  <2>5. Significant(r, b) = b
    BY <2>3 DEF Significant
  <2>6. WellFormed(r) /\ Faithful(f, r)
    BY <1>1, <1>6, <2>3, <2>4, <2>5 DEF WellFormed, Faithful
  <2> QED
    BY <1>2, <2>6
<1> QED
  BY <1>4, <1>5, <1>6

LEMMA DecodeAccepts ==
    ASSUME NEW f \in Frame, ~ IsErr(decode(f))
    PROVE  WellFormed(decode(f)) /\ Faithful(f, decode(f))
<1>1. f.byte0 \div 16 \in {1, 8, 10, 3, 4, 12, 14}
  BY Dispatch
<1> QED
  BY <1>1, ConnectAccepted, ListAccepted, PublishAccepted, ShortAccepted

-----------------------------------------------------------------------------
(* What one side encodes, the other decodes *)

\* f is a frame that the broker decodes to p.
BrokerReads(f, p) == f \in Frame /\ decode(f) = p

LEMMA HeaderByte ==
    ASSUME NEW t \in Nat, t < 16, NEW n \in Nat, n < 16
    PROVE  /\ t * 16 + n \in Byte
           /\ (t * 16 + n) \div 16 = t /\ (t * 16 + n) % 16 = n
<1>1. t * 16 + n \in Nat /\ t * 16 + n < 256
  BY SMT
<1> QED
  BY <1>1, Header, ByteIsNat

\* From the n-th byte on, the rest of s \o t is that of t.
LEMMA AfterIn ==
    ASSUME NEW s \in Seq(Byte), NEW t \in Seq(Byte), NEW n \in Nat, n <= Len(t)
    PROVE  After(s \o t, Len(s) + n) = After(t, n)
<1>0. PICK m \in Nat : m = Len(s)
  OBVIOUS
<1>1. PICK b \in Seq(Byte) : b = s \o t /\ m = Len(s) /\ Len(b) = m + Len(t)
  <2>1. PICK b : b = s \o t
    OBVIOUS
  <2>2. b \in Seq(Byte) /\ Len(b) = Len(s) + Len(t)
    BY <2>1, Joined
  <2> QED
    BY <1>0, <2>1, <2>2
<1>2. After(b, m) = t
  BY <1>1, AfterJoined
<1>3. After(After(b, m), n) = After(b, m + n)
  <2>1. m + n <= Len(b)
    <3>1. PICK c \in Nat : c = Len(t)
      OBVIOUS
    <3> QED
      BY <1>1, <3>1
  <2> QED
    BY <2>1, AfterAfter
<1> QED
  BY <1>1, <1>2, <1>3

LEMMA ConnectRead ==
    ASSUME NEW k \in U16, NEW id \in Utf8String
    PROVE  /\ ConnectBody(2, k, id) \in Seq(Byte)
           /\ decode_connect(ConnectBody(2, k, id)) =
                [type |-> "CONNECT", clean_session |-> TRUE, keep_alive_secs |-> k, client_id |-> id]
<1>0. 2 \in Byte
  BY SMT DEF Byte
<1>1. MQTT \in Utf8String
  BY MQTTBytes, CodecAssumption DEF Utf8String
<1>2. PICK e \in Seq(Byte), f \in Seq(Byte), c \in Seq(Byte), a \in Seq(Byte), d \in Seq(Byte) :
        /\ e = encode_utf8_string(MQTT) /\ f = <<4>> /\ c = <<2>>
        /\ a = to_be_bytes(k) /\ d = encode_utf8_string(id)
        /\ Len(e) = 6 /\ Len(f) = 1 /\ f[1] = 4 /\ Len(c) = 1 /\ c[1] = 2
        /\ Len(a) = 2 /\ a[1] * 256 + a[2] = k
        /\ Len(d) = 2 + Len(id)
  <2>1. encode_utf8_string(MQTT) \in Seq(Byte) /\ Len(encode_utf8_string(MQTT)) = 6
    BY MQTTBytes
  <2>2. 4 \in Byte /\ 2 \in Byte
    BY SMT DEF Byte
  <2>3. <<4>> \in Seq(Byte) /\ <<2>> \in Seq(Byte) /\ Len(<<4>>) = 1 /\ Len(<<2>>) = 1
        /\ <<4>>[1] = 4 /\ <<2>>[1] = 2
    BY <2>2
  <2>4. /\ to_be_bytes(k) \in Seq(Byte) /\ Len(to_be_bytes(k)) = 2
        /\ to_be_bytes(k)[1] * 256 + to_be_bytes(k)[2] = k
    BY BeBytes
  <2>5. encode_utf8_string(id) \in Seq(Byte) /\ Len(encode_utf8_string(id)) = 2 + Len(id)
    BY StringBytes DEF Utf8String
  <2> QED
    BY <2>1, <2>3, <2>4, <2>5
<1>3. PICK n \in Nat, v \in Seq(Byte) : n = Len(id) /\ v = a \o d /\ Len(v) = 4 + n /\ After(v, 2) = d
                                       /\ v[1] = a[1] /\ v[2] = a[2]
  <2>1. PICK n \in Nat : n = Len(id)
    BY DEF Utf8String
  <2>2. PICK v : v = a \o d
    OBVIOUS
  <2>3. /\ v \in Seq(Byte) /\ Len(v) = Len(a) + Len(d)
        /\ \A j \in 1..Len(a) : v[j] = a[j]
    BY <2>2, Joined
  <2>4. After(v, Len(a)) = d
    BY <2>2, AfterJoined
  <2>5. Len(v) = 4 + n /\ v[1] = a[1] /\ v[2] = a[2] /\ After(v, 2) = d
    <3>1. Len(a) = 2 /\ Len(d) = 2 + n /\ 2 + (2 + n) = 4 + n /\ 1 \in 1..2 /\ 2 \in 1..2
      BY <1>2, <2>1
    <3> QED
      BY <2>3, <2>4, <3>1
  <2> QED
    BY <2>1, <2>2, <2>3, <2>5
<1>4. PICK b \in Seq(Byte) : b = ConnectBody(2, k, id) /\ b = (e \o f) \o (c \o v)
  <2>1. ConnectBody(2, k, id) = (e \o f) \o (c \o v)
    BY <1>2, <1>3 DEF ConnectBody
  <2>2. e \o f \in Seq(Byte)
    BY Joined
  <2>3. c \o v \in Seq(Byte)
    BY Joined
  <2>4. (e \o f) \o (c \o v) \in Seq(Byte)
    BY <2>2, <2>3, Joined
  <2> QED
    BY <2>1, <2>4
<1>5. PICK u \in Seq(Byte) : u = e \o f /\ Len(u) = 7 /\ u[7] = 4
  <2>1. PICK u : u = e \o f
    OBVIOUS
  <2>2. /\ u \in Seq(Byte) /\ Len(u) = Len(e) + Len(f)
        /\ \A j \in 1..Len(f) : u[Len(e) + j] = f[j]
    BY <2>1, Joined
  <2>3. Len(u) = 7 /\ u[7] = 4
    <3>1. 6 + 1 = 7 /\ 1 \in 1..1
      OBVIOUS
    <3> QED
      BY <1>2, <2>2, <3>1
  <2> QED
    BY <2>1, <2>2, <2>3
<1>6. /\ Len(b) = 8 + (4 + n) /\ b[7] = 4 /\ b[8] = 2
      /\ b[9] = a[1] /\ b[10] = a[2]
  <2>1. 7 \in 1..7 /\ 1 \in 1..(4 + n) /\ 2 \in 1..(4 + n) /\ 8 + 1 = 9 /\ 8 + 2 = 10
    OBVIOUS
  <2>2. Eighth(u \o (<<2>> \o v), u, 2, v)
    BY <1>0, <1>5, Around8
  <2>3. b = u \o (<<2>> \o v)
    BY <1>2, <1>4, <1>5
  <2>4. Eighth(b, u, 2, v)
    BY <2>2, <2>3
  <2>5. /\ Len(b) = 8 + Len(v)
        /\ \A j \in 1..7 : b[j] = u[j]
        /\ b[8] = 2
        /\ \A j \in 1..Len(v) : b[8 + j] = v[j]
    BY <2>4 DEF Eighth
  <2>6. b[8 + 1] = v[1] /\ b[8 + 2] = v[2]
    BY <1>3, <2>1, <2>5
  <2> QED
    BY <1>3, <1>5, <2>1, <2>5, <2>6
<1>7. decode_utf8_string(b) = Found(MQTT)
  <2>1. PICK w \in Seq(Byte), q \in Seq(Byte) : w = c \o v /\ q = f \o w
    <3>1. PICK w \in Seq(Byte) : w = c \o v
      BY Joined
    <3>2. f \o w \in Seq(Byte)
      BY Joined
    <3> QED
      BY <3>1, <3>2
  <2>2. Regrouped(e, f, w)
    BY Regroup
  <2>3. b = encode_utf8_string(MQTT) \o q
    BY <1>2, <1>4, <2>1, <2>2 DEF Regrouped
  <2>4. decode_utf8_string(encode_utf8_string(MQTT) \o q) = Found(MQTT)
    BY <1>1, StringFound
  <2> QED
    BY <2>3, <2>4
<1>8. From(b, 10) = d
  <2>1. 10 <= Len(b) /\ 8 <= Len(b) /\ 8 + 2 <= Len(b) /\ 8 + 2 = 10
    BY <1>6
  <2>2. From(b, 10) = After(b, 10)
    BY <2>1, AfterIs, 10 \in Nat
  <2>3. After(b, 8) = v
    <3>1. PICK w \in Seq(Byte) : w = u \o c /\ Len(w) = 8
      <4>1. u \o c \in Seq(Byte) /\ Len(u \o c) = Len(u) + Len(c)
        BY Joined
      <4>2. Len(u) = 7 /\ Len(c) = 1 /\ 7 + 1 = 8
        BY <1>2, <1>5
      <4> QED
        BY <4>1, <4>2
    <3>2. Regrouped(u, c, v)
      BY Regroup
    <3>3. b = w \o v
      BY <1>4, <1>5, <3>1, <3>2 DEF Regrouped
    <3>4. After(w \o v, Len(w)) = v
      BY AfterJoined
    <3> QED
      BY <3>1, <3>3, <3>4
  <2>4. After(After(b, 8), 2) = After(b, 8 + 2)
    BY <2>1, AfterAfter, 8 \in Nat, 2 \in Nat
  <2> QED
    BY <1>3, <2>1, <2>2, <2>3, <2>4
<1>9. decode_utf8_string(d) = Found(id)
  <2>1. <<>> \in Seq(Byte)
    OBVIOUS
  <2>2. decode_utf8_string(encode_utf8_string(id) \o <<>>) = Found(id)
    BY <2>1, StringFound
  <2>3. d \o <<>> = d
    BY ConcatEmptySeq
  <2> QED
    BY <1>2, <2>2, <2>3
<1>10. Found(MQTT).s = MQTT /\ Found(MQTT).end = 6 /\ ~ IsErr(Found(MQTT))
  <2>1. 2 + Len(MQTT) = 6
    BY MQTTBytes
  <2> QED
    BY <2>1 DEF Found, IsErr
<1>11. Found(id).s = id /\ Found(id).end = 2 + n /\ ~ IsErr(Found(id))
  BY <1>3 DEF Found, IsErr
<1>12. from_be_bytes(b, 8) = k
  <2>1. 8 + 1 = 9 /\ 8 + 2 = 10
    OBVIOUS
  <2> QED
    BY <1>2, <1>6, <2>1 DEF from_be_bytes
<1>13. ~ Bit(2, 4) /\ ~ Bit(2, 64) /\ ~ Bit(2, 128) /\ Bit(2, 2) = TRUE
  BY SMT DEF Bit
<1>14. /\ 6 + 1 = 7 /\ 6 + 2 = 8 /\ 6 + 4 = 10
       /\ ~ (Len(b) < 7) /\ ~ (Len(b) < 8) /\ ~ (Len(b) < 10) /\ 10 + (2 + n) = Len(b)
  BY <1>6
<1> DEFINE r == [type |-> "CONNECT", clean_session |-> TRUE, keep_alive_secs |-> k, client_id |-> id]
<1> DEFINE name == decode_utf8_string(b)
           pos == name.end
           flags == b[pos + 2]
           t == decode_utf8_string(From(b, pos + 4))
           got == [type |-> "CONNECT", clean_session |-> Bit(flags, 2),
                   keep_alive_secs |-> from_be_bytes(b, pos + 2), client_id |-> t.s]
           wrong == IsErr(name) \/ name.s # MQTT \/ Len(b) < pos + 1
           short == Len(b) < pos + 2
           unsup == Bit(flags, 4) \/ Bit(flags, 64) \/ Bit(flags, 128)
           bad == \/ Len(b) < pos + 4
                  \/ IsErr(t)
                  \/ pos + 4 + t.end # Len(b)
           level == b[pos + 1]
<1>15. decode_connect(b) =
        IF wrong THEN Malformed
        ELSE IF level # 4 THEN Unsupported
        ELSE IF short THEN Malformed
        ELSE IF unsup THEN Unsupported
        ELSE IF bad THEN Malformed
        ELSE got
  BY Zenon DEF decode_connect
<1>16. name = Found(MQTT) /\ pos = 6 /\ ~ IsErr(name) /\ name.s = MQTT
  BY <1>7, <1>10
<1>17. pos + 1 = 7 /\ pos + 2 = 8 /\ pos + 4 = 10
  <2> HIDE DEF pos
  <2> QED
    BY <1>14, <1>16
<1>18. level = 4 /\ flags = 2
  <2> HIDE DEF pos
  <2> QED
    BY <1>6, <1>17
<1>19. t = Found(id)
  <2> HIDE DEF pos
  <2> QED
    BY <1>8, <1>9, <1>17
<1>20. t.s = id /\ t.end = 2 + n /\ ~ IsErr(t)
  <2> HIDE DEF t
  <2> QED
    BY <1>11, <1>19
<1>21. ~ wrong /\ ~ short /\ ~ bad
  <2> HIDE DEF name, pos, t
  <2> QED
    BY <1>14, <1>16, <1>17, <1>20
<1>22. ~ unsup
  <2> HIDE DEF flags
  <2> QED
    BY <1>13, <1>18
<1>23. got = r
  <2>1. from_be_bytes(b, pos + 2) = k
    <3> HIDE DEF pos
    <3> QED
      BY <1>12, <1>17
  <2>2. Bit(flags, 2) = TRUE
    <3> HIDE DEF flags
    <3> QED
      BY <1>13, <1>18
  <2> HIDE DEF flags, t, pos
  <2> QED
    BY <1>20, <2>1, <2>2
<1>24. decode_connect(b) = r
  <2> HIDE DEF wrong, level, short, unsup, bad, got, r
  <2> QED
    BY <1>15, <1>18, <1>21, <1>22, <1>23
<1> QED
  BY <1>4, <1>24

SubscribeBody(id, s, q) == (to_be_bytes(id) \o encode_utf8_string(s)) \o <<q>>

LEMMA SubscribeRead ==
    ASSUME NEW id \in U16, NEW s \in FilterString, NEW q \in 0..2
    PROVE  /\ SubscribeBody(id, s, q) \in Seq(Byte)
           /\ decode_subscribe(SubscribeBody(id, s, q)) =
                [type |-> "SUBSCRIBE", packet_id |-> id, subscriptions |-> << <<s, q>> >>]
<1>1. /\ s \in Utf8String /\ validate_topic_filter(s) /\ s \in Seq(Byte) /\ Len(s) <= U16Max
  BY DEF FilterString, Utf8String
<1>2. PICK a \in Seq(Byte) : a = to_be_bytes(id) /\ Len(a) = 2 /\ a[1] * 256 + a[2] = id
  BY BeBytes
<1>3. PICK n \in Nat : n = Len(s)
  BY <1>1
<1>4. PICK e \in Seq(Byte) : e = encode_utf8_string(s) /\ Len(e) = 2 + n
  BY <1>1, <1>3, StringBytes
<1>5. PICK c \in Seq(Byte) : c = <<q>> /\ Len(c) = 1 /\ c[1] = q
  <2>1. q \in Byte
    BY ByteIsNat
  <2>2. <<q>> \in Seq(Byte) /\ Len(<<q>>) = 1 /\ <<q>>[1] = q
    BY <2>1
  <2> QED
    BY <2>2
<1>6. PICK t \in Seq(Byte) : t = e \o c /\ Len(t) = 3 + n /\ t[3 + n] = q
  <2>1. PICK t : t = e \o c
    OBVIOUS
  <2>2. t \in Seq(Byte) /\ Len(t) = Len(e) + Len(c) /\ \A j \in 1..Len(c) : t[Len(e) + j] = c[j]
    BY <2>1, Joined
  <2>3. Len(e) + Len(c) = 3 + n /\ Len(e) + 1 = 3 + n /\ 1 \in 1..Len(c)
    BY <1>4, <1>5
  <2> QED
    BY <1>5, <2>1, <2>2, <2>3
<1>7. PICK b \in Seq(Byte) : /\ b = SubscribeBody(id, s, q) /\ Len(b) = 5 + n
                             /\ b[1] = a[1] /\ b[2] = a[2] /\ b[5 + n] = q
                             /\ After(b, 2) = t
  <2>1. PICK b : b = a \o t
    OBVIOUS
  <2>2. Regrouped(a, e, c)
    BY Regroup
  <2>3. b = SubscribeBody(id, s, q)
    BY <1>2, <1>4, <1>5, <1>6, <2>1, <2>2 DEF Regrouped, SubscribeBody
  <2>4. /\ b \in Seq(Byte) /\ Len(b) = Len(a) + Len(t)
        /\ \A j \in 1..Len(a) : b[j] = a[j]
        /\ \A j \in 1..Len(t) : b[Len(a) + j] = t[j]
    BY <2>1, Joined
  <2>5. After(b, Len(a)) = t
    BY <2>1, AfterJoined
  <2>6. Len(a) + Len(t) = 5 + n /\ 1 \in 1..Len(a) /\ 2 \in 1..Len(a)
        /\ 3 + n \in 1..Len(t) /\ Len(a) + (3 + n) = 5 + n
    BY <1>2, <1>6
  <2>7. b[5 + n] = q
    BY <1>6, <2>4, <2>6
  <2>8. b[1] = a[1] /\ b[2] = a[2]
    BY <2>4, <2>6
  <2> QED
    BY <1>2, <2>3, <2>4, <2>5, <2>6, <2>7, <2>8
<1>8. from_be_bytes(b, 0) = id
  <2>1. 0 + 1 = 1 /\ 0 + 2 = 2
    OBVIOUS
  <2> QED
    BY <1>2, <1>7, <2>1 DEF from_be_bytes
<1>9. FilterAt(b, 2) = Found(s)
  <2>1. 2 <= Len(b)
    BY <1>7
  <2>2. From(b, 2) = After(b, 2)
    BY <2>1, AfterIs, 2 \in Nat
  <2>3. decode_utf8_string(encode_utf8_string(s) \o c) = Found(s)
    BY <1>1, StringFound
  <2> QED
    BY <1>4, <1>6, <1>7, <2>2, <2>3 DEF FilterAt
<1>10. /\ FilterAt(b, 2).s = s /\ FilterAt(b, 2).end = 2 + n /\ ~ IsErr(FilterAt(b, 2))
  BY <1>3, <1>9 DEF Found, IsErr
<1>11. PICK sub \in BOOLEAN : sub = TRUE
  OBVIOUS
<1>12. PICK g : Loops(sub, b, g) /\ Subscriptions(b) = g[2]
  BY <1>11, SubscriptionsLoop
<1>13. PICK m \in Nat : m = 5 + n /\ m = Len(b) /\ 2 \in 2..m /\ m \in 2..m /\ 2 # m /\ ~ (m <= 2)
  BY <1>7
<1>14. \A pos \in 2..m : g[pos] = Turn(sub, b, g[Following(sub, b, pos)], pos)
  <2> DEFINE h(pos) == Turn(sub, b, g[Following(sub, b, pos)], pos)
  <2>1. g = [pos \in 2..m |-> h(pos)]
    BY <1>12, <1>13 DEF Loops
  <2> HIDE DEF h
  <2>2. \A pos \in 2..m : g[pos] = h(pos)
    BY <2>1
  <2> QED
    BY <2>2 DEF h
<1>15. g[m] = Listed(sub, b, <<>>)
  BY <1>13, <1>14 DEF Turn
<1>16. Following(sub, b, 2) = m
  <2>1. Following(sub, b, 2) = 2 + (2 + n) + 1
    BY <1>10, <1>11 DEF Following
  <2> QED
    BY <1>13, <2>1
<1>17. 2 + FilterAt(b, 2).end = 4 + n /\ 4 + n + 1 = 5 + n /\ ~ (4 + n >= m) /\ ~ (q > 2)
  BY <1>10, <1>13
<1>18. ~ Refused(sub, b, 2)
  BY <1>1, <1>7, <1>10, <1>13, <1>17 DEF Refused
<1>19. Entry(sub, b, 2) = <<s, q>>
  BY <1>7, <1>10, <1>11, <1>17 DEF Entry
<1>20. /\ ~ IsErr(g[m])
       /\ Prepend(sub, <<s, q>>, g[m]) = Listed(sub, b, << <<s, q>> >> \o <<>>)
  <2>1. PICK y, o : y = <<s, q>> /\ o = <<>>
    OBVIOUS
  <2>2. Prepend(sub, y, Listed(sub, b, o)) = Listed(sub, b, <<y>> \o o) /\ ~ IsErr(Listed(sub, b, o))
    BY PrependListed
  <2> QED
    BY <1>15, <2>1, <2>2, Zenon
<1>21. g[2] = Listed(sub, b, << <<s, q>> >>)
  <2>1. g[2] = Turn(sub, b, g[m], 2)
    BY <1>13, <1>14, <1>16
  <2>2. g[2] = Prepend(sub, <<s, q>>, g[m])
    BY <1>13, <1>18, <1>19, <1>20, <2>1 DEF Turn
  <2>3. << <<s, q>> >> \o <<>> = << <<s, q>> >>
    OBVIOUS
  <2> QED
    BY <1>20, <2>2, <2>3
<1>22. g[2].list = << <<s, q>> >> /\ ~ IsErr(g[2])
  <2>1. g[2] = [type |-> "Ok", list |-> << <<s, q>> >>]
    BY <1>11, <1>21 DEF Listed
  <2> QED
    BY <2>1 DEF IsErr
<1>23. decode_subscribe(b) = [type |-> "SUBSCRIBE", packet_id |-> from_be_bytes(b, 0),
                              subscriptions |-> g[2].list]
  BY <1>12, <1>13, <1>22 DEF decode_subscribe
<1> QED
  BY <1>7, <1>8, <1>22, <1>23

LEMMA SubscribeSent ==
    ASSUME NEW id \in U16, NEW s \in FilterString, NEW q \in 0..2
    PROVE  C!encode_subscribe(id, s, q) = [byte0 |-> 8 * 16 + 2, body |-> SubscribeBody(id, s, q)]
<1>1. q % 4 = q
  BY SMT
<1>2. C!to_be_bytes(id) = to_be_bytes(id)
  BY BeBytes
<1>3. C!encode_utf8_str(s) = encode_utf8_string(s)
  BY StringBytes DEF FilterString, Utf8String
<1>4. SubscribeBody(id, s, q) = (C!to_be_bytes(id) \o C!encode_utf8_str(s)) \o <<q % 4>>
  BY <1>1, <1>2, <1>3 DEF SubscribeBody
<1> QED
  BY <1>4, Zenon DEF C!encode_subscribe, C!make_packet, C!PT_SUBSCRIBE

LEMMA PublishIsFrame ==
    ASSUME NEW p \in PublishPacket
    PROVE  /\ encode(p) \in Frame
           /\ encode(p) = [byte0 |-> 48 + (p.qos * 2 + (IF p.retain THEN 1 ELSE 0)),
                           body |-> (encode_utf8_string(p.topic) \o IdBytes(p.packet_id)) \o p.payload]
<1>1. encode(p) = encode_publish(p)
  <2>1. p.type = "PUBLISH"
    BY PublishFields
  <2> QED
    BY <2>1, Zenon DEF encode
<1>2. encode(p) = [byte0 |-> encode(p).byte0, body |-> encode(p).body]
  BY <1>1, Zenon DEF encode_publish, prepend_fixed_header
<1>3. /\ encode(p).byte0 = 48 + (p.qos * 2 + (IF p.retain THEN 1 ELSE 0))
      /\ encode(p).body = (encode_utf8_string(p.topic) \o IdBytes(p.packet_id)) \o p.payload
  BY PublishEncoded
<1>4. encode(p).body \in Seq(Byte)
  BY PublishLayout
<1>5. encode(p).byte0 \in Byte
  <2>1. PICK q \in {0, 1}, r \in {0, 1} : q = p.qos /\ r = IF p.retain THEN 1 ELSE 0
    BY PublishFields
  <2>2. 48 + (q * 2 + r) \in Nat /\ 48 + (q * 2 + r) < 256
    OBVIOUS
  <2> QED
    BY <1>3, <2>1, <2>2, ByteIsNat
<1> QED
  BY <1>2, <1>3, <1>4, <1>5 DEF Frame

LEMMA PublishSent ==
    ASSUME NEW p \in PublishPacket, ~ p.retain
    PROVE  C!encode_publish(p.topic, p.payload, p.qos, p.packet_id) = encode(p)
<1>1. /\ p.topic \in Utf8String /\ p.qos \in {0, 1} /\ p.packet_id \in U16
      /\ (p.qos = 0) <=> (p.packet_id = None)
  BY PublishFields
<1>2. encode(p) = [byte0 |-> 48 + (p.qos * 2 + 0),
                   body |-> (encode_utf8_string(p.topic) \o IdBytes(p.packet_id)) \o p.payload]
  BY PublishIsFrame
<1>3. C!encode_utf8_str(p.topic) = encode_utf8_string(p.topic)
  BY <1>1, StringBytes DEF Utf8String
<1>4. 3 * 16 + (p.qos % 4) * 2 = 48 + (p.qos * 2 + 0) /\ (p.qos > 0 <=> p.qos = 1)
  <2>1. PICK q \in {0, 1} : q = p.qos
    BY <1>1
  <2>2. 3 * 16 + (q % 4) * 2 = 48 + (q * 2 + 0) /\ (q > 0 <=> q = 1)
    BY SMT
  <2> QED
    BY <2>1, <2>2
<1> DEFINE id == IF p.qos > 0 THEN C!to_be_bytes(IF p.packet_id = C!None THEN 1 ELSE p.packet_id)
                 ELSE <<>>
<1>5. id = IdBytes(p.packet_id)
  <2>1. C!to_be_bytes(p.packet_id) = to_be_bytes(p.packet_id)
    BY <1>1, BeBytes
  <2>2. C!None = None
    BY DEF None, C!None
  <2>3. CASE p.qos = 1
    <3>1. p.qos > 0 /\ p.packet_id # None /\ p.packet_id # C!None
      BY <1>1, <1>4, <2>2, <2>3
    <3>2. id = C!to_be_bytes(p.packet_id)
      BY <3>1
    <3> QED
      BY <2>1, <3>1, <3>2 DEF IdBytes
  <2>4. CASE p.qos = 0
    <3>1. ~ (p.qos > 0) /\ p.packet_id = None
      BY <1>1, <1>4, <2>4
    <3> QED
      BY <3>1 DEF IdBytes
  <2> QED
    BY <1>1, <2>3, <2>4
<1> DEFINE h == 3 * 16 + (p.qos % 4) * 2
<1>6. C!encode_publish(p.topic, p.payload, p.qos, p.packet_id) =
        [byte0 |-> h, body |-> (C!encode_utf8_str(p.topic) \o id) \o p.payload]
  BY Zenon DEF C!encode_publish, C!make_packet, C!PT_PUBLISH
<1>7. h = 48 + (p.qos * 2 + 0)
  BY <1>4
<1> HIDE DEF id, h
<1> QED
  BY <1>2, <1>3, <1>5, <1>6, <1>7, Zenon

LEMMA ClientEncodes ==
    ASSUME NEW p
    PROVE  /\ p.type = "CONNECT" => ClientEncode(p) = C!encode_connect(p.client_id, p.keep_alive_secs)
           /\ p.type = "SUBSCRIBE" =>
                ClientEncode(p) = C!encode_subscribe(p.packet_id, p.subscriptions[1][1], p.subscriptions[1][2])
           /\ p.type = "PUBLISH" =>
                ClientEncode(p) = C!encode_publish(p.topic, p.payload, p.qos, p.packet_id)
           /\ p.type = "DISCONNECT" => ClientEncode(p) = C!encode_disconnect
BY DEF ClientEncode

LEMMA BenchEncodes ==
    ASSUME NEW p
    PROVE  /\ p.type = "CONNECT" => BenchEncode(p) = C!encode_connect(p.client_id, 60)
           /\ p.type = "SUBSCRIBE" =>
                BenchEncode(p) = C!encode_subscribe(p.packet_id, p.subscriptions[1][1], 0)
           /\ p.type = "PUBLISH" =>
                BenchEncode(p) = C!encode_publish(p.topic, p.payload, 0, None)
           /\ p.type = "DISCONNECT" => BenchEncode(p) = C!encode_disconnect
BY DEF BenchEncode

\* f of type t and flags n
HasType(f, t, b) == f \in Frame /\ f.byte0 \div 16 = t /\ f.body = b

LEMMA FrameOf ==
    ASSUME NEW t \in Nat, t < 16, NEW n \in Nat, n < 16, NEW b \in Seq(Byte), NEW f, NEW h,
           h = t * 16 + n, f = [byte0 |-> h, body |-> b]
    PROVE  HasType(f, t, b)
<1>1. h \in Byte /\ h \div 16 = t
  BY HeaderByte
<1>2. f \in Frame /\ f.byte0 = h /\ f.body = b
  BY <1>1 DEF Frame
<1> QED
  BY <1>1, <1>2 DEF HasType

LEMMA FrameOfType ==
    ASSUME NEW b \in Seq(Byte), NEW f
    PROVE  /\ f = [byte0 |-> 1 * 16 + 0, body |-> b] => HasType(f, 1, b)
           /\ f = [byte0 |-> 2 * 16 + 0, body |-> b] => HasType(f, 2, b)
           /\ f = [byte0 |-> 4 * 16 + 0, body |-> b] => HasType(f, 4, b)
           /\ f = [byte0 |-> 8 * 16 + 2, body |-> b] => HasType(f, 8, b)
           /\ f = [byte0 |-> 9 * 16 + 0, body |-> b] => HasType(f, 9, b)
           /\ f = [byte0 |-> 14 * 16 + 0, body |-> b] => HasType(f, 14, b)
<1>1. ASSUME NEW t \in Nat, t < 16, NEW n \in Nat, n < 16, f = [byte0 |-> t * 16 + n, body |-> b]
      PROVE  HasType(f, t, b)
  <2>1. PICK h : h = t * 16 + n
    OBVIOUS
  <2>2. f = [byte0 |-> h, body |-> b]
    BY <1>1, <2>1
  <2> QED
    BY <1>1, <2>1, <2>2, FrameOf
<1>2. 0 \in Nat /\ 0 < 16
  OBVIOUS
<1>3. 2 \in Nat /\ 2 < 16
  OBVIOUS
<1>4. f = [byte0 |-> 1 * 16 + 0, body |-> b] => HasType(f, 1, b)
  <2>1. 1 \in Nat /\ 1 < 16
    OBVIOUS
  <2> QED
    BY <1>1, <1>2, <2>1, Zenon
<1>5. f = [byte0 |-> 2 * 16 + 0, body |-> b] => HasType(f, 2, b)
  <2>1. 2 \in Nat /\ 2 < 16
    OBVIOUS
  <2> QED
    BY <1>1, <1>2, <2>1, Zenon
<1>6. f = [byte0 |-> 4 * 16 + 0, body |-> b] => HasType(f, 4, b)
  <2>1. 4 \in Nat /\ 4 < 16
    OBVIOUS
  <2> QED
    BY <1>1, <1>2, <2>1, Zenon
<1>7. f = [byte0 |-> 8 * 16 + 2, body |-> b] => HasType(f, 8, b)
  <2>1. 8 \in Nat /\ 8 < 16
    OBVIOUS
  <2> QED
    BY <1>1, <1>3, <2>1, Zenon
<1>8. f = [byte0 |-> 9 * 16 + 0, body |-> b] => HasType(f, 9, b)
  <2>1. 9 \in Nat /\ 9 < 16
    OBVIOUS
  <2> QED
    BY <1>1, <1>2, <2>1, Zenon
<1>9. f = [byte0 |-> 14 * 16 + 0, body |-> b] => HasType(f, 14, b)
  <2>1. 14 \in Nat /\ 14 < 16
    OBVIOUS
  <2> QED
    BY <1>1, <1>2, <2>1, Zenon
<1> QED
  BY <1>4, <1>5, <1>6, <1>7, <1>8, <1>9, Zenon

LEMMA ClientConnect ==
    ASSUME NEW p \in ConnectPacket, p.clean_session
    PROVE  BrokerReads(ClientEncode(p), p)
<1>1. PICK k \in U16, id \in Utf8String :
        p = [type |-> "CONNECT", clean_session |-> TRUE, keep_alive_secs |-> k, client_id |-> id]
  BY DEF ConnectPacket
<1>2. PICK b \in Seq(Byte) : b = ConnectBody(2, k, id) /\ decode_connect(b) = p
  BY <1>1, ConnectRead
<1>3. PICK f : f = ClientEncode(p)
  OBVIOUS
<1>4. f = C!encode_connect(id, k)
  <2>1. p.type = "CONNECT" /\ p.client_id = id /\ p.keep_alive_secs = k
    BY <1>1
  <2>2. p.type = "CONNECT" => ClientEncode(p) = C!encode_connect(p.client_id, p.keep_alive_secs)
    BY ClientEncodes
  <2> QED
    BY <1>3, <2>1, <2>2
<1>5. f = [byte0 |-> 1 * 16 + 0, body |-> b]
  <2>1. C!encode_connect(id, k) = [byte0 |-> 1 * 16 + 0, body |-> ConnectBody(2, k, id)]
    BY ConnectEncoded
  <2> QED
    BY <1>2, <1>4, <2>1
<1>6. f \in Frame /\ f.byte0 \div 16 = 1 /\ f.body = b
  BY <1>5, FrameOfType DEF HasType
<1>7. decode(f) = decode_connect(f.body)
  BY <1>6, Dispatch
<1> QED
  BY <1>2, <1>3, <1>6, <1>7 DEF BrokerReads

LEMMA ClientSubscribe ==
    ASSUME NEW p \in SubscribePacket, Len(p.subscriptions) = 1
    PROVE  BrokerReads(ClientEncode(p), p)
<1>1. PICK id \in U16, l \in Seq(FilterString \X (0..2)) :
        p = [type |-> "SUBSCRIBE", packet_id |-> id, subscriptions |-> l]
  BY DEF SubscribePacket
<1>2. Len(l) = 1
  BY <1>1
<1>3. PICK s \in FilterString, q \in 0..2 : l = << <<s, q>> >> /\ l[1][1] = s /\ l[1][2] = q
  <2>0. l[1] \in FilterString \X (0..2)
    BY <1>2
  <2>1. l = <<l[1]>>
    <3>1. PICK m \in Seq(FilterString \X (0..2)) : m = <<l[1]>> /\ Len(m) = 1 /\ m[1] = l[1]
      <4>1. PICK y \in FilterString \X (0..2) : y = l[1]
        BY <2>0
      <4>2. <<y>> \in Seq(FilterString \X (0..2)) /\ Len(<<y>>) = 1 /\ <<y>>[1] = y
        OBVIOUS
      <4> QED
        BY <4>1, <4>2, Zenon
    <3>2. \A j \in 1..Len(l) : l[j] = m[j]
      BY <1>2, <3>1
    <3>3. l = m
      BY <1>2, <3>1, <3>2, SeqEqual
    <3> QED
      BY <3>1, <3>3
  <2>2. PICK s \in FilterString, q \in 0..2 : l[1] = <<s, q>>
    BY <2>0
  <2> QED
    BY <2>1, <2>2
<1>4. PICK b \in Seq(Byte) : b = SubscribeBody(id, s, q) /\ decode_subscribe(b) = p
  BY <1>1, <1>3, SubscribeRead
<1>5. PICK f : f = ClientEncode(p)
  OBVIOUS
<1>6. f = C!encode_subscribe(id, s, q)
  <2>1. p.type = "SUBSCRIBE" /\ p.packet_id = id /\ p.subscriptions = l
    BY <1>1
  <2>2. p.type = "SUBSCRIBE" =>
          ClientEncode(p) = C!encode_subscribe(p.packet_id, p.subscriptions[1][1], p.subscriptions[1][2])
    BY ClientEncodes
  <2> QED
    BY <1>3, <1>5, <2>1, <2>2
<1>7. f = [byte0 |-> 8 * 16 + 2, body |-> b]
  <2>1. C!encode_subscribe(id, s, q) = [byte0 |-> 8 * 16 + 2, body |-> SubscribeBody(id, s, q)]
    BY SubscribeSent
  <2> QED
    BY <1>4, <1>6, <2>1
<1>8. f \in Frame /\ f.byte0 \div 16 = 8 /\ f.body = b
  BY <1>7, FrameOfType DEF HasType
<1>9. decode(f) = decode_subscribe(f.body)
  BY <1>8, Dispatch
<1> QED
  BY <1>4, <1>5, <1>8, <1>9 DEF BrokerReads

LEMMA ClientPublish ==
    ASSUME NEW p \in PublishPacket, ~ p.retain
    PROVE  BrokerReads(ClientEncode(p), p)
<1>1. p.type = "PUBLISH"
  BY PublishFields
<1>2. ClientEncode(p) = encode(p)
  <2>1. ClientEncode(p) = C!encode_publish(p.topic, p.payload, p.qos, p.packet_id)
    BY <1>1, ClientEncodes
  <2> QED
    BY <2>1, PublishSent
<1> QED
  BY <1>2, PublishIsFrame, PublishRead DEF BrokerReads

LEMMA ClientDisconnect ==
    ASSUME NEW p, p = [type |-> "DISCONNECT"]
    PROVE  BrokerReads(ClientEncode(p), p)
<1>1. PICK b \in Seq(Byte) : b = <<>>
  <2>1. <<>> \in Seq(Byte)
    OBVIOUS
  <2> QED
    BY <2>1
<1>2. PICK f : f = ClientEncode(p)
  OBVIOUS
<1>3. f = [byte0 |-> 14 * 16 + 0, body |-> b]
  <2>1. ClientEncode(p) = C!encode_disconnect
    BY ClientEncodes
  <2> QED
    BY <1>1, <1>2, <2>1 DEF C!encode_disconnect, C!make_packet, C!PT_DISCONNECT
<1>4. f \in Frame /\ f.byte0 \div 16 = 14 /\ f.body = b
  BY <1>3, FrameOfType DEF HasType
<1>5. decode(f) = Bare("DISCONNECT", f.body)
  BY <1>4, Dispatch
<1> QED
  BY <1>1, <1>2, <1>4, <1>5 DEF BrokerReads, Bare

LEMMA ClientReads ==
    ASSUME NEW p, FromClient(p)
    PROVE  BrokerReads(ClientEncode(p), p)
BY ClientConnect, ClientSubscribe, ClientPublish, ClientDisconnect DEF FromClient

LEMMA BenchReads ==
    ASSUME NEW p, FromBench(p)
    PROVE  BrokerReads(BenchEncode(p), p)
<1>1. BrokerReads(ClientEncode(p), p)
  BY ClientReads DEF FromBench
<1>2. CASE p.type = "CONNECT"
  BY <1>1, <1>2, ClientEncodes, BenchEncodes DEF FromBench
<1>3. CASE p.type = "SUBSCRIBE"
  BY <1>1, <1>3, ClientEncodes, BenchEncodes DEF FromBench
<1>4. CASE p.type = "PUBLISH"
  <2>1. p \in PublishPacket
    BY <1>4 DEF FromBench, FromClient, ConnectPacket, SubscribePacket
  <2>2. p.qos = 0 /\ p.packet_id = None
    BY <1>4, <2>1, PublishFields DEF FromBench
  <2> QED
    BY <1>1, <1>4, <2>2, ClientEncodes, BenchEncodes
<1>5. CASE p.type = "DISCONNECT"
  BY <1>1, <1>5, ClientEncodes, BenchEncodes
<1>6. p.type \in {"CONNECT", "SUBSCRIBE", "PUBLISH", "DISCONNECT"}
  BY DEF FromBench, FromClient, ConnectPacket, SubscribePacket, PublishPacket
<1> QED
  BY <1>2, <1>3, <1>4, <1>5, <1>6

\* f is a frame that blitzclient decodes to what it sees of p.
ClientReadsIt(f, p) == f \in Frame /\ C!decode(f) = Seen(p)

LEMMA SeenAll ==
    ASSUME NEW p, p = [k \in DOMAIN p |-> p[k]], "retain" \notin DOMAIN p
    PROVE  Seen(p) = p
<1>1. DOMAIN p \ {"retain"} = DOMAIN p
  OBVIOUS
<1> QED
  BY <1>1 DEF Seen

LEMMA BrokerEncodes ==
    ASSUME NEW p
    PROVE  /\ p.type = "CONNACK" => encode(p) = encode_connack(p)
           /\ p.type = "SUBACK" => encode(p) = encode_suback(p)
           /\ p.type = "PUBACK" => encode(p) = encode_puback(p)
BY DEF encode

LEMMA ConnackRead ==
    ASSUME NEW p \in [type : {"CONNACK"}, session_present : BOOLEAN, return_code : Byte]
    PROVE  ClientReadsIt(encode(p), p)
<1>1. PICK z \in BOOLEAN, c \in Byte : p = [type |-> "CONNACK", session_present |-> z, return_code |-> c]
  OBVIOUS
<1>2. PICK y \in {0, 1} : y = IF z THEN 1 ELSE 0
  OBVIOUS
<1>3. y \in Byte /\ (y % 2 = 1) = z
  BY <1>2, ByteIsNat
<1>4. PICK b \in Seq(Byte) : b = <<y, c>> /\ Len(b) = 2 /\ b[1] = y /\ b[2] = c
  <2>1. <<y, c>> \in Seq(Byte) /\ Len(<<y, c>>) = 2 /\ <<y, c>>[1] = y /\ <<y, c>>[2] = c
    BY <1>3
  <2> QED
    BY <2>1
<1>5. PICK f : f = encode(p)
  OBVIOUS
<1>6. f = [byte0 |-> 2 * 16 + 0, body |-> b]
  <2>1. p.type = "CONNACK" /\ p.session_present = z /\ p.return_code = c
    BY <1>1
  <2>2. f = encode_connack(p)
    BY <1>5, <2>1, BrokerEncodes
  <2>3. f = [byte0 |-> 2 * 16 + 0, body |-> <<IF p.session_present THEN 1 ELSE 0, p.return_code>>]
    BY <2>2, Zenon DEF encode_connack, prepend_fixed_header, PT_CONNACK
  <2> QED
    BY <1>2, <1>4, <2>1, <2>3
<1>7. f \in Frame /\ f.byte0 \div 16 = 2 /\ f.body = b
  BY <1>6, FrameOfType DEF HasType
<1>8. C!decode(f) = C!decode_connack_body(b)
  BY <1>7, ClientDispatch
<1>9. C!decode_connack_body(b) = [type |-> "CONNACK", session_present |-> (b[1] % 2) = 1,
                                  return_code |-> b[2]]
  <2>1. ~ (Len(b) < 2)
    BY <1>4
  <2> QED
    BY <2>1, Zenon DEF C!decode_connack_body
<1>10. C!decode_connack_body(b) = p
  BY <1>1, <1>3, <1>4, <1>9
<1>11. Seen(p) = p
  <2>1. p = [k \in DOMAIN p |-> p[k]] /\ "retain" \notin DOMAIN p
    BY <1>1
  <2> QED
    BY <2>1, SeenAll
<1> QED
  BY <1>5, <1>7, <1>8, <1>10, <1>11 DEF ClientReadsIt

LEMMA SubackRead ==
    ASSUME NEW p \in [type : {"SUBACK"}, packet_id : U16, return_codes : Seq(Byte) \ {<<>>}]
    PROVE  ClientReadsIt(encode(p), p)
<1>1. PICK id \in U16, c \in Seq(Byte) :
        c # <<>> /\ p = [type |-> "SUBACK", packet_id |-> id, return_codes |-> c]
  OBVIOUS
<1>2. PICK a \in Seq(Byte) : a = to_be_bytes(id) /\ Len(a) = 2 /\ a[1] * 256 + a[2] = id
  BY BeBytes
<1>3. PICK n \in Nat : n = Len(c) /\ n # 0
  BY <1>1
<1>4. PICK b \in Seq(Byte) : /\ b = a \o c /\ Len(b) = 2 + n /\ b[1] = a[1] /\ b[2] = a[2]
                             /\ After(b, 2) = c
  <2>1. PICK b : b = a \o c
    OBVIOUS
  <2>2. b \in Seq(Byte) /\ Len(b) = Len(a) + Len(c) /\ \A j \in 1..Len(a) : b[j] = a[j]
    BY <2>1, Joined
  <2>3. After(b, Len(a)) = c
    BY <2>1, AfterJoined
  <2>4. 1 \in 1..Len(a) /\ 2 \in 1..Len(a)
    BY <1>2
  <2>5. b[1] = a[1] /\ b[2] = a[2]
    BY <2>2, <2>4
  <2> QED
    BY <1>2, <1>3, <2>1, <2>2, <2>3, <2>5
<1>5. PICK f : f = encode(p)
  OBVIOUS
<1>6. f = [byte0 |-> 9 * 16 + 0, body |-> b]
  <2>1. p.type = "SUBACK" /\ p.packet_id = id /\ p.return_codes = c
    BY <1>1
  <2>2. f = encode_suback(p)
    BY <1>5, <2>1, BrokerEncodes
  <2>3. f = [byte0 |-> 9 * 16 + 0, body |-> to_be_bytes(p.packet_id) \o p.return_codes]
    BY <2>2, Zenon DEF encode_suback, prepend_fixed_header, PT_SUBACK
  <2> QED
    BY <1>2, <1>4, <2>1, <2>3
<1>7. f \in Frame /\ f.byte0 \div 16 = 9 /\ f.body = b
  BY <1>6, FrameOfType DEF HasType
<1>8. C!decode(f) = C!decode_suback_body(b)
  BY <1>7, ClientDispatch
<1>9. ~ (Len(b) < 3) /\ 2 <= Len(b)
  BY <1>3, <1>4
<1>10. C!decode_suback_body(b) = [type |-> "SUBACK", packet_id |-> C!from_be_bytes(b, 0),
                                  return_codes |-> C!From(b, 2)]
  BY <1>9, Zenon DEF C!decode_suback_body
<1>11. C!From(b, 2) = c
  BY <1>4, <1>9, AfterIs, 2 \in Nat
<1>12. C!from_be_bytes(b, 0) = id
  <2>1. 0 + 1 = 1 /\ 0 + 2 = 2
    OBVIOUS
  <2> QED
    BY <1>2, <1>4, <2>1 DEF C!from_be_bytes
<1>13. Seen(p) = p
  <2>1. p = [k \in DOMAIN p |-> p[k]] /\ "retain" \notin DOMAIN p
    BY <1>1
  <2> QED
    BY <2>1, SeenAll
<1> QED
  BY <1>1, <1>5, <1>7, <1>8, <1>10, <1>11, <1>12, <1>13 DEF ClientReadsIt

LEMMA PubackRead ==
    ASSUME NEW p \in [type : {"PUBACK"}, packet_id : U16]
    PROVE  ClientReadsIt(encode(p), p)
<1>1. PICK id \in U16 : p = [type |-> "PUBACK", packet_id |-> id]
  OBVIOUS
<1>2. PICK b \in Seq(Byte) : b = to_be_bytes(id) /\ Len(b) = 2 /\ b[1] * 256 + b[2] = id
  BY BeBytes
<1>3. PICK f : f = encode(p)
  OBVIOUS
<1>4. f = [byte0 |-> 4 * 16 + 0, body |-> b]
  BY <1>1, <1>2, <1>3, PubackEncoded
<1>5. f \in Frame /\ f.byte0 \div 16 = 4 /\ f.body = b
  BY <1>4, FrameOfType DEF HasType
<1>6. C!decode(f) = C!decode_puback_body(b)
  BY <1>5, ClientDispatch
<1>7. C!decode_puback_body(b) = [type |-> "PUBACK", packet_id |-> C!from_be_bytes(b, 0)]
  <2>1. ~ (Len(b) < 2)
    BY <1>2
  <2> QED
    BY <2>1, Zenon DEF C!decode_puback_body
<1>8. C!from_be_bytes(b, 0) = id
  <2>1. 0 + 1 = 1 /\ 0 + 2 = 2
    OBVIOUS
  <2> QED
    BY <1>2, <2>1 DEF C!from_be_bytes
<1>9. Seen(p) = p
  <2>1. p = [k \in DOMAIN p |-> p[k]] /\ "retain" \notin DOMAIN p
    BY <1>1
  <2> QED
    BY <2>1, SeenAll
<1> QED
  BY <1>1, <1>3, <1>5, <1>6, <1>7, <1>8, <1>9 DEF ClientReadsIt

LEMMA BrokerSends ==
    ASSUME NEW p, FromBroker(p)
    PROVE  ClientReadsIt(encode(p), p)
<1>1. ASSUME p \in PublishPacket PROVE ClientReadsIt(encode(p), p)
  BY <1>1, PublishIsFrame, PublishRead DEF ClientReadsIt
<1> QED
  BY <1>1, ConnackRead, SubackRead, PubackRead DEF FromBroker

-----------------------------------------------------------------------------
(* The specification: what is on the wire is a frame, and what was received *)
(* is what the other side decodes from it.                                  *)

LEMMA VariantIs ==
    ASSUME NEW f, NEW g \in Variants(f)
    PROVE  \/ g \in {[f EXCEPT !.byte0 = (f.byte0 \div 16) * 16 + n] : n \in 0..15}
           \/ g \in {[f EXCEPT !.body = SubSeq(f.body, 1, n)] : n \in 0..Len(f.body)}
           \/ g \in {[f EXCEPT !.body = [f.body EXCEPT ![n] = b]] : n \in 1..Len(f.body), b \in Noise}
           \/ g \in {[f EXCEPT !.body = Append(f.body, b)] : b \in Noise}
BY SMT DEF Variants

LEMMA VariantsAreFrames ==
    ASSUME NEW f \in Frame, NEW g \in Variants(f)
    PROVE  g \in Frame
<1>1. PICK y \in Byte, b \in Seq(Byte) : f = [byte0 |-> y, body |-> b] /\ f.byte0 = y /\ f.body = b
  BY DEF Frame
<1>2. ASSUME NEW z \in Byte, g = [f EXCEPT !.byte0 = z] PROVE g \in Frame
  BY <1>1, <1>2 DEF Frame
<1>3. ASSUME NEW c \in Seq(Byte), g = [f EXCEPT !.body = c] PROVE g \in Frame
  BY <1>1, <1>3 DEF Frame
<1>4. CASE \E n \in 0..15 : g = [f EXCEPT !.byte0 = (@ \div 16) * 16 + n]
  <2>1. PICK n \in 0..15 : g = [f EXCEPT !.byte0 = (y \div 16) * 16 + n]
    BY <1>1, <1>4
  <2>2. y \in Nat /\ y < 256
    BY ByteIsNat
  <2>3. (y \div 16) * 16 + n \in Nat /\ (y \div 16) * 16 + n < 256
    BY <2>2, SMT
  <2> QED
    BY <1>2, <2>1, <2>3, ByteIsNat
<1>5. CASE \E n \in 0..Len(f.body) : g = [f EXCEPT !.body = SubSeq(@, 1, n)]
  <2>1. PICK n \in 0..Len(b) : g = [f EXCEPT !.body = SubSeq(b, 1, n)]
    BY <1>1, <1>5
  <2>2. n \in Nat /\ n <= Len(b)
    OBVIOUS
  <2>3. SubSeq(b, 1, n) \in Seq(Byte)
    BY <2>2, Cut
  <2> QED
    BY <1>3, <2>1, <2>3
<1>6. CASE \E n \in 1..Len(f.body), x0 \in Noise : g = [f EXCEPT !.body = [@ EXCEPT ![n] = x0]]
  <2>1. PICK n \in 1..Len(b), x0 \in Noise : g = [f EXCEPT !.body = [b EXCEPT ![n] = x0]]
    BY <1>1, <1>6
  <2>2. x0 \in Byte
    BY CodecAssumption
  <2>3. [b EXCEPT ![n] = x0] \in Seq(Byte)
    BY <2>2, ExceptSeq
  <2> QED
    BY <1>3, <2>1, <2>3
<1>7. CASE \E x0 \in Noise : g = [f EXCEPT !.body = Append(@, x0)]
  <2>1. PICK x0 \in Noise : g = [f EXCEPT !.body = Append(b, x0)]
    BY <1>1, <1>7
  <2>2. x0 \in Byte
    BY CodecAssumption
  <2>3. Append(b, x0) \in Seq(Byte)
    BY <2>2
  <2> QED
    BY <1>3, <2>1, <2>3
<1>8. CASE g \in {[f EXCEPT !.byte0 = (f.byte0 \div 16) * 16 + n] : n \in 0..15}
  BY <1>4, <1>8
<1>9. CASE g \in {[f EXCEPT !.body = SubSeq(f.body, 1, n)] : n \in 0..Len(f.body)}
  BY <1>5, <1>9
<1>10. CASE g \in {[f EXCEPT !.body = [f.body EXCEPT ![n] = x0]] : n \in 1..Len(f.body), x0 \in Noise}
  BY <1>6, <1>10
<1>11. CASE g \in {[f EXCEPT !.body = Append(f.body, x0)] : x0 \in Noise}
  BY <1>7, <1>11
<1> QED
  BY <1>8, <1>9, <1>10, <1>11, VariantIs

\* decode as the receiving side does
Receives(o, f) == IF o = "broker" THEN C!decode(f) ELSE decode(f)

CodecInv ==
    /\ frame \in Frame
    /\ received # Nothing => received = Receives(origin, frame)
    /\ origin \in {"client", "bench"} => decode(frame) = sent
    /\ origin = "broker" => C!decode(frame) = Seen(sent)

LEMMA CodecInvInit == CodecInit => CodecInv
<1> SUFFICES ASSUME CodecInit PROVE CodecInv
  OBVIOUS
<1>1. received = Nothing
  BY DEF CodecInit
<1>2. CASE origin = "none" /\ sent = Nothing /\ frame = NoFrame
  <2>1. 0 \in Byte
    BY SMT DEF Byte
  <2>2. NoFrame \in Frame
    BY <2>1 DEF NoFrame, Frame
  <2> QED
    BY <1>1, <1>2, <2>2 DEF CodecInv
<1>3. CASE origin = "client" /\ sent \in ClientPackets /\ frame = ClientEncode(sent)
  <2>1. BrokerReads(frame, sent)
    BY <1>3, ClientReads, CodecAssumption
  <2> QED
    BY <1>1, <1>3, <2>1 DEF CodecInv, BrokerReads
<1>4. CASE origin = "bench" /\ sent \in BenchPackets /\ frame = BenchEncode(sent)
  <2>1. BrokerReads(frame, sent)
    BY <1>4, BenchReads, CodecAssumption
  <2> QED
    BY <1>1, <1>4, <2>1 DEF CodecInv, BrokerReads
<1>5. CASE origin = "broker" /\ sent \in BrokerPackets /\ frame = encode(sent)
  <2>1. ClientReadsIt(frame, sent)
    BY <1>5, BrokerSends, CodecAssumption
  <2> QED
    BY <1>1, <1>5, <2>1 DEF CodecInv, ClientReadsIt
<1>6. CASE origin = "other" /\ sent \in OtherPackets /\ frame \in Variants(encode(sent))
  <2>1. frame \in Frame
    BY <1>6, VariantsAreFrames, CodecAssumption
  <2> QED
    BY <1>1, <1>6, <2>1 DEF CodecInv
<1> QED
  BY <1>2, <1>3, <1>4, <1>5, <1>6 DEF CodecInit

LEMMA CodecInvNext == CodecInv /\ [CodecNext]_<<vars, codecVars>> => CodecInv'
<1> SUFFICES ASSUME CodecInv, [CodecNext]_<<vars, codecVars>> PROVE CodecInv'
  OBVIOUS
<1>1. CASE UNCHANGED codecVars
  BY <1>1 DEF CodecInv, codecVars
<1>2. CASE Deliver
  <2>1. received' = Receives(origin, frame) /\ UNCHANGED <<origin, sent, frame>>
    BY <1>2 DEF Deliver, Receives
  <2> QED
    BY <2>1 DEF CodecInv
<1> QED
  BY <1>1, <1>2 DEF CodecNext, codecVars

LEMMA CodecInvariant == CodecSpec => []CodecInv
BY CodecInvInit, CodecInvNext, PTL DEF CodecSpec

LEMMA AcceptedReads ==
    ASSUME CodecInv, Accepted
    PROVE  WellFormed(received) /\ Faithful(frame, received)
<1>1. received = decode(frame) /\ ~ IsErr(decode(frame)) /\ frame \in Frame
  BY DEF CodecInv, Accepted, Receives
<1> QED
  BY <1>1, DecodeAccepts

\* Whatever bytes arrive, decode returns a packet that these bytes encode, or
\* an error.
THEOREM CodecNothingMisread == CodecSpec => []NothingMisread
<1>1. CodecInv => NothingMisread
  BY AcceptedReads DEF NothingMisread, Faithful
<1> QED
  BY <1>1, CodecInvariant, PTL

\* Whatever bytes arrive, the packet that decode returns has filters, valid
\* ones, a topic name without wildcards, and an identifier exactly for QoS 1.
THEOREM CodecAcceptedIsWellFormed == CodecSpec => []AcceptedIsWellFormed
<1>1. CodecInv => AcceptedIsWellFormed
  <2> SUFFICES ASSUME CodecInv, Accepted PROVE AcceptedIsWellFormed
    BY DEF AcceptedIsWellFormed
  <2>1. WellFormed(received)
    BY AcceptedReads
  <2>2. ASSUME received \in PublishPacket
        PROVE  /\ received.topic # <<>>
               /\ ~ Contains(received.topic, Plus) /\ ~ Contains(received.topic, Hash)
               /\ received.qos \in {0, 1}
               /\ (received.qos = 1) <=> (received.packet_id # None)
    BY <2>2, PublishFields DEF TopicName
  <2> QED
    BY <2>1, <2>2 DEF AcceptedIsWellFormed, WellFormed
<1> QED
  BY <1>1, CodecInvariant, PTL

\* Whatever PUBLISH the broker accepts from any client, it forwards as a frame
\* that blitzclient decodes to the same message, live and retained.
THEOREM CodecForwardedIsReadable == CodecSpec => []ForwardedIsReadable
<1>1. CodecInv => ForwardedIsReadable
  <2> SUFFICES ASSUME CodecInv, Accepted, received.type = "PUBLISH", NEW r \in {received.retain, TRUE}
               PROVE  C!decode(encode([received EXCEPT !.retain = r])) = Seen(received)
    BY DEF ForwardedIsReadable
  <2>1. PICK p \in PublishPacket : p = received
    BY AcceptedReads DEF WellFormed
  <2>2. PICK z \in BOOLEAN : z = r
    BY <2>1, PublishFields
  <2>3. PICK q \in PublishPacket : /\ q = [p EXCEPT !.retain = z]
                                   /\ q.topic = p.topic /\ q.qos = p.qos
                                   /\ q.packet_id = p.packet_id /\ q.payload = p.payload
    <3>1. [p EXCEPT !.retain = z] \in PublishPacket
      BY DEF PublishPacket
    <3> QED
      BY <3>1, PublishFields
  <2>4. C!decode(encode(q)) = Seen(q)
    BY PublishRead
  <2>5. Seen(q) = Seen(p)
    BY <2>3, SeenPublish
  <2> QED
    BY <2>1, <2>2, <2>3, <2>4, <2>5
<1> QED
  BY <1>1, CodecInvariant, PTL

-----------------------------------------------------------------------------
(* blitzclient's length field *)

EncodeTurn(n, w) == IF n \div 128 = 0 THEN <<n % 128>> ELSE <<(n % 128) + 128>> \o w
EncodesAll(g) == g = [n \in Nat |-> EncodeTurn(n, g[n \div 128])]

LEMMA ClientEncoderIs ==
    ASSUME NEW l
    PROVE  C!encode_remaining_length(l) = (CHOOSE g : EncodesAll(g))[l]
BY Zenon DEF C!encode_remaining_length, EncodesAll, EncodeTurn

LEMMA Halves ==
    ASSUME NEW n \in Nat
    PROVE  /\ n \div 128 \in Nat /\ n % 128 \in Byte /\ (n % 128) + 128 \in Byte
           /\ n # 0 => n \div 128 < n
           /\ ~ (n \div 128 > 0) <=> n \div 128 = 0
<1>1. n \div 128 \in Nat /\ n % 128 \in Data
  BY SplitOff
<1>2. n % 128 \in Byte /\ (n % 128) + 128 \in Byte
  BY <1>1, DataByte, MoreByte
<1>3. n # 0 => n \div 128 < n
  BY SMT
<1>4. ~ (n \div 128 > 0) <=> n \div 128 = 0
  BY <1>1
<1> QED
  BY <1>1, <1>2, <1>3, <1>4

LEMMA EncodeTurnType ==
    ASSUME NEW n \in Nat, NEW w \in Seq(Byte)
    PROVE  EncodeTurn(n, w) \in Seq(Byte)
<1>1. PICK c \in Byte, d \in Byte : c = n % 128 /\ d = (n % 128) + 128
  BY Halves
<1>2. <<c>> \in Seq(Byte) /\ <<d>> \in Seq(Byte)
  OBVIOUS
<1>3. <<d>> \o w \in Seq(Byte)
  BY <1>2, Joined
<1> QED
  BY <1>1, <1>2, <1>3 DEF EncodeTurn

LEMMA EncoderExists == \E g : EncodesAll(g)
<1> DEFINE V == Seq(Byte)
           v == EncodeTurn(0, <<>>)
           d == [n \in Nat |-> n \div 128]
           st == [n \in Nat |-> [w \in V |-> EncodeTurn(n, w)]]
<1>1. v \in V
  <2>1. <<>> \in Seq(Byte)
    OBVIOUS
  <2> QED
    BY <2>1, EncodeTurnType, 0 \in Nat
<1>2. d \in [Nat -> Nat] /\ \A n \in Nat : d[n] = n \div 128
  BY Halves
<1>3. st \in [Nat -> [V -> V]] /\ \A n \in Nat, w \in V : st[n][w] = EncodeTurn(n, w)
  BY EncodeTurnType
<1>4. \A n \in Nat \ {0} : d[n] < n
  <2> SUFFICES ASSUME NEW n \in Nat \ {0} PROVE d[n] < n
    OBVIOUS
  <2>1. n \div 128 < n
    BY Halves
  <2> QED
    BY <1>2, <2>1
<1> HIDE DEF V, v, d, st
<1>5. Recursive(V, v, d, st)
  BY <1>1, <1>2, <1>3, <1>4 DEF Recursive
<1>6. Solvable(V, v, d, st)
  BY <1>5, Recursion
<1>7. PICK g \in [Nat -> V] : g[0] = v /\ \A n \in Nat \ {0} : g[n] = st[n][g[d[n]]]
  BY <1>6 DEF Solvable
<1>8. ASSUME NEW n \in Nat PROVE g[n] = EncodeTurn(n, g[n \div 128])
  <2>1. CASE n = 0
    <3>1. 0 \div 128 = 0
      BY SMT
    <3>2. EncodeTurn(0, <<>>) = EncodeTurn(0, g[0 \div 128])
      BY <3>1 DEF EncodeTurn
    <3> QED
      BY <1>7, <2>1, <3>2 DEF v
  <2>2. CASE n # 0
    <3>1. g[n] = st[n][g[d[n]]] /\ g[d[n]] \in V /\ d[n] = n \div 128
      BY <1>2, <1>7, <2>2
    <3> QED
      BY <1>3, <3>1
  <2> QED
    BY <2>1, <2>2
<1>9. EncodesAll(g)
  <2> DEFINE h(n) == EncodeTurn(n, g[n \div 128])
  <2>1. \A n \in Nat : g[n] = h(n)
    BY <1>8
  <2> HIDE DEF h
  <2>2. g = [n \in Nat |-> h(n)]
    BY <1>7, <2>1
  <2> QED
    BY <2>2 DEF h, EncodesAll
<1> QED
  BY <1>9

\* A length below 128 is one byte; another one is its last seven bits and then
\* the bytes of the rest.
LEMMA ClientEncoder ==
    ASSUME NEW n \in Nat
    PROVE  /\ C!encode_remaining_length(n) \in Seq(Byte)
           /\ n \div 128 = 0 => C!encode_remaining_length(n) = <<n % 128>>
           /\ n \div 128 # 0 => C!encode_remaining_length(n) =
                                  <<(n % 128) + 128>> \o C!encode_remaining_length(n \div 128)
<1>1. PICK g : g = CHOOSE h : EncodesAll(h)
  OBVIOUS
<1>2. EncodesAll(g)
  BY <1>1, EncoderExists
<1>3. \A m \in Nat : g[m] = EncodeTurn(m, g[m \div 128])
  <2> DEFINE h(m) == EncodeTurn(m, g[m \div 128])
  <2>1. g = [m \in Nat |-> h(m)]
    BY <1>2 DEF EncodesAll
  <2> HIDE DEF h
  <2>2. \A m \in Nat : g[m] = h(m)
    BY <2>1
  <2> QED
    BY <2>2 DEF h
<1> DEFINE T == {m \in Nat : g[m] \in Seq(Byte)}
<1>4. 0 \in T
  <2>1. 0 \div 128 = 0 /\ 0 % 128 = 0
    BY SMT
  <2>2. PICK z \in Byte : z = 0
    BY SMT DEF Byte
  <2>3. <<z>> \in Seq(Byte)
    OBVIOUS
  <2>4. g[0] = <<0>>
    BY <1>3, <2>1 DEF EncodeTurn
  <2> QED
    BY <2>2, <2>3, <2>4
<1>5. \A k \in Nat \ {0} : (\A j \in 0..(k - 1) : j \in T) => k \in T
  <2> SUFFICES ASSUME NEW k \in Nat \ {0}, \A j \in 0..(k - 1) : j \in T PROVE k \in T
    BY Zenon
  <2>1. PICK j \in Nat : j = k \div 128 /\ j < k
    BY Halves
  <2>2. j \in 0..(k - 1)
    BY <2>1
  <2>3. g[j] \in Seq(Byte)
    BY <2>2
  <2>4. g[k] = EncodeTurn(k, g[j])
    BY <1>3, <2>1
  <2> QED
    BY <2>3, <2>4, EncodeTurnType
<1>6. \A m \in Nat : m \in T
  <2> HIDE DEF T
  <2> QED
    BY <1>4, <1>5, Induction
<1>7. \A l : C!encode_remaining_length(l) = g[l]
  BY <1>1, ClientEncoderIs
<1> QED
  BY <1>3, <1>6, <1>7 DEF EncodeTurn

DecodeOk(v, n) == [type |-> "Ok", value |-> v, bytes |-> n]
DecodeTurn(b, k, w) ==
    IF k >= 4 \/ k >= Len(b) THEN C!Err
    ELSE IF b[k + 1] < 128 THEN DecodeOk(b[k + 1], k + 1)
    ELSE IF w = C!Err THEN C!Err
    ELSE [w EXCEPT !.value = 128 * @ + (b[k + 1] % 128)]
DecodesAll(b, g) == g = [k \in 0..4 |-> DecodeTurn(b, k, g[k + 1])]

LEMMA ClientDecoderIs ==
    ASSUME NEW b
    PROVE  C!decode_remaining_length(b) = (CHOOSE g : DecodesAll(b, g))[0]
BY Zenon DEF C!decode_remaining_length, DecodesAll, DecodeTurn, DecodeOk

LEMMA DecoderExists ==
    ASSUME NEW b
    PROVE  \E g : DecodesAll(b, g)
<1> DEFINE d4 == DecodeTurn(b, 4, C!Err)
           d3 == DecodeTurn(b, 3, d4)
           d2 == DecodeTurn(b, 2, d3)
           d1 == DecodeTurn(b, 1, d2)
           d0 == DecodeTurn(b, 0, d1)
           g == [k \in 0..4 |-> IF k = 0 THEN d0 ELSE IF k = 1 THEN d1 ELSE IF k = 2 THEN d2
                                ELSE IF k = 3 THEN d3 ELSE d4]
<1>1. \A w : DecodeTurn(b, 4, w) = d4
  BY DEF DecodeTurn
<1>2. g[0] = d0 /\ g[1] = d1 /\ g[2] = d2 /\ g[3] = d3 /\ g[4] = d4
  <2> HIDE DEF d0, d1, d2, d3, d4
  <2> QED
    OBVIOUS
<1>3. DOMAIN g = 0..4 /\ g = [k \in 0..4 |-> g[k]]
  <2> HIDE DEF d0, d1, d2, d3, d4
  <2> QED
    OBVIOUS
<1> HIDE DEF g
<1>4. ASSUME NEW k \in 0..4 PROVE g[k] = DecodeTurn(b, k, g[k + 1])
  <2>1. k = 0 \/ k = 1 \/ k = 2 \/ k = 3 \/ k = 4
    OBVIOUS
  <2>2. 0 + 1 = 1 /\ 1 + 1 = 2 /\ 2 + 1 = 3 /\ 3 + 1 = 4
    OBVIOUS
  <2>3. CASE k = 4
    BY <1>1, <1>2, <2>3, Zenon
  <2>4. CASE k = 3
    BY <1>2, <2>2, <2>4, Zenon
  <2>5. CASE k = 2
    BY <1>2, <2>2, <2>5, Zenon
  <2>6. CASE k = 1
    BY <1>2, <2>2, <2>6, Zenon
  <2>7. CASE k = 0
    BY <1>2, <2>2, <2>7, Zenon
  <2> QED
    BY <2>1, <2>3, <2>4, <2>5, <2>6, <2>7
<1>5. DecodesAll(b, g)
  <2> DEFINE h(k) == DecodeTurn(b, k, g[k + 1])
  <2>1. \A k \in 0..4 : g[k] = h(k)
    BY <1>4
  <2> HIDE DEF h
  <2>2. g = [k \in 0..4 |-> h(k)]
    BY <1>3, <2>1
  <2> QED
    BY <2>2 DEF h, DecodesAll
<1> QED
  BY <1>5

LEMMA ClientDecoder ==
    ASSUME NEW b
    PROVE  \E g : /\ C!decode_remaining_length(b) = g[0]
                  /\ \A k \in 0..4 : g[k] = DecodeTurn(b, k, g[k + 1])
<1>1. PICK g : g = CHOOSE h : DecodesAll(b, h)
  OBVIOUS
<1>2. DecodesAll(b, g)
  BY <1>1, DecoderExists
<1>3. \A k \in 0..4 : g[k] = DecodeTurn(b, k, g[k + 1])
  <2> DEFINE h(k) == DecodeTurn(b, k, g[k + 1])
  <2>1. g = [k \in 0..4 |-> h(k)]
    BY <1>2 DEF DecodesAll
  <2> HIDE DEF h
  <2>2. \A k \in 0..4 : g[k] = h(k)
    BY <2>1
  <2> QED
    BY <2>2 DEF h
<1>4. C!decode_remaining_length(b) = g[0]
  BY <1>1, ClientDecoderIs
<1> QED
  BY <1>3, <1>4

\* The last byte of the field, and one before it.
LEMMA DecodeLast ==
    ASSUME NEW b \in Seq(Byte), NEW k \in 0..3, NEW n \in Nat, n = k + 1, n = Len(b), NEW w,
           ~ More(b[n])
    PROVE  DecodeTurn(b, k, w) = DecodeOk(Digit(b, n), n)
<1>1. ~ (k >= 4) /\ ~ (k >= n) /\ n \in 1..Len(b)
  OBVIOUS
<1>2. b[n] \in Byte
  BY <1>1
<1>3. PICK d : d = b[n]
  OBVIOUS
<1>4. d < 128 /\ d % 128 = d
  BY <1>2, <1>3, ByteIsNat DEF More
<1> QED
  BY <1>1, <1>3, <1>4 DEF DecodeTurn, Digit

LEMMA DecodeMore ==
    ASSUME NEW b \in Seq(Byte), NEW k \in 0..3, NEW n \in Nat, n = k + 1, n < Len(b), More(b[n]),
           NEW v \in Nat, NEW m
    PROVE  DecodeTurn(b, k, DecodeOk(v, m)) = DecodeOk(Digit(b, n) + W2 * v, m)
<1>1. ~ (k >= 4) /\ ~ (k >= Len(b)) /\ n \in 1..Len(b)
  <2>1. PICK l \in Nat : l = Len(b)
    OBVIOUS
  <2> QED
    BY <2>1
<1>2. b[n] \in Byte
  BY <1>1
<1>3. PICK d \in Nat : d = b[n]
  BY <1>2, ByteIsNat
<1>4. ~ (d < 128)
  BY <1>3 DEF More
<1>5. DecodeOk(v, m) # C!Err
  BY DEF DecodeOk, C!Err
<1>6. PICK w : w = DecodeOk(v, m)
  OBVIOUS
<1>7. DecodeTurn(b, k, w) = [w EXCEPT !.value = 128 * w.value + (d % 128)]
  BY <1>1, <1>3, <1>4, <1>5, <1>6 DEF DecodeTurn
<1>8. 128 * v + (d % 128) = (d % 128) + W2 * v
  BY SMT DEF W2
<1>9. w.value = v
  BY <1>6 DEF DecodeOk
<1>10. PICK y : y = (d % 128) + W2 * v
  OBVIOUS
<1>11. DecodeTurn(b, k, w) = [w EXCEPT !.value = y]
  BY <1>7, <1>8, <1>9, <1>10
<1>12. [w EXCEPT !.value = y] = DecodeOk(y, m)
  BY <1>6 DEF DecodeOk
<1> QED
  BY <1>3, <1>6, <1>10, <1>11, <1>12 DEF Digit

LEMMA Horner ==
    ASSUME NEW a \in Nat, NEW b \in Nat, NEW c \in Nat, NEW d \in Nat
    PROVE  /\ a + W2 * (b + W2 * c) = (a + W2 * b) + W3 * c
           /\ a + W2 * (b + W2 * (c + W2 * d)) = ((a + W2 * b) + W3 * c) + W4 * d
BY SMT DEF W2, W3, W4

\* b is a whole field of n bytes.
Field(b, n) == /\ b \in Seq(Byte) /\ n \in 1..4 /\ n = Len(b)
               /\ \A k \in 1..n : k < n => More(b[k])
               /\ ~ More(b[n])

\* what a field stands for
FieldValue(b, n) == IF n = 1 THEN Sum1(b) ELSE IF n = 2 THEN Sum2(b) ELSE IF n = 3 THEN Sum3(b) ELSE Sum4(b)

LEMMA ClientDecodes ==
    ASSUME NEW b, NEW n, Field(b, n)
    PROVE  C!decode_remaining_length(b) = DecodeOk(FieldValue(b, n), n)
<1> USE DEF Field
<1>1. PICK g : /\ C!decode_remaining_length(b) = g[0]
               /\ \A k \in 0..4 : g[k] = DecodeTurn(b, k, g[k + 1])
  BY ClientDecoder
<1>2. \A k \in 1..n : Digit(b, k) \in Nat
  <2> SUFFICES ASSUME NEW k \in 1..n PROVE Digit(b, k) \in Nat
    OBVIOUS
  <2>1. k \in 1..Len(b) /\ b \in Seq(Byte)
    OBVIOUS
  <2>2. Digit(b, k) \in Data
    BY <2>1, DigitType
  <2>3. Data \subseteq Nat
    BY DEF Data
  <2> QED
    BY <2>2, <2>3, Zenon
<1>3. ASSUME NEW k \in 0..3, n = k + 1
      PROVE  g[k] = DecodeOk(Digit(b, n), n)
  <2>1. PICK w : w = g[k + 1]
    OBVIOUS
  <2>2. b \in Seq(Byte) /\ n \in Nat /\ n = Len(b) /\ ~ More(b[n])
    OBVIOUS
  <2>3. DecodeTurn(b, k, w) = DecodeOk(Digit(b, n), n)
    BY <1>3, <2>2, DecodeLast
  <2> QED
    BY <1>1, <2>1, <2>3
<1>4. ASSUME NEW k \in 0..3, NEW l \in 1..n, l = k + 1, l < n, NEW v \in Nat, g[l] = DecodeOk(v, n)
      PROVE  g[k] = DecodeOk(Digit(b, l) + W2 * v, n)
  <2>1. DecodeTurn(b, k, DecodeOk(v, n)) = DecodeOk(Digit(b, l) + W2 * v, n)
    BY <1>4, DecodeMore
  <2>2. g[k] = DecodeTurn(b, k, g[l])
    BY <1>1, <1>4
  <2> QED
    BY <1>4, <2>1, <2>2
<1>5. 1 = 0 + 1 /\ 2 = 1 + 1 /\ 3 = 2 + 1 /\ 4 = 3 + 1 /\ 0 \in 0..3 /\ 1 \in 0..3 /\ 2 \in 0..3 /\ 3 \in 0..3
  OBVIOUS
<1>6. CASE n = 1
  <2>1. g[0] = DecodeOk(Digit(b, n), n)
    BY <1>3, <1>5, <1>6
  <2> QED
    BY <1>1, <1>6, <2>1 DEF FieldValue, Sum1
<1>7. CASE n = 2
  <2>1. PICK p \in Nat, q \in Nat : p = Digit(b, 1) /\ q = Digit(b, 2)
    BY <1>2, <1>7
  <2>2. g[1] = DecodeOk(q, n)
    BY <1>3, <1>5, <1>7, <2>1
  <2>3. g[0] = DecodeOk(p + W2 * q, n)
    BY <1>4, <1>5, <1>7, <2>1, <2>2
  <2>4. FieldValue(b, n) = p + W2 * q
    BY <1>7, <2>1 DEF FieldValue, Sum1, Sum2
  <2> QED
    BY <1>1, <2>3, <2>4
<1>8. CASE n = 3
  <2>1. PICK p \in Nat, q \in Nat, r \in Nat : p = Digit(b, 1) /\ q = Digit(b, 2) /\ r = Digit(b, 3)
    BY <1>2, <1>8
  <2>2. g[2] = DecodeOk(r, n)
    BY <1>3, <1>5, <1>8, <2>1
  <2>3. PICK v \in Nat : v = q + W2 * r
    BY DEF W2
  <2>4. g[1] = DecodeOk(v, n)
    BY <1>4, <1>5, <1>8, <2>1, <2>2, <2>3
  <2>5. g[0] = DecodeOk(p + W2 * v, n)
    BY <1>4, <1>5, <1>8, <2>1, <2>4
  <2>6. FieldValue(b, n) = (p + W2 * q) + W3 * r
    BY <1>8, <2>1 DEF FieldValue, Sum1, Sum2, Sum3
  <2>7. p + W2 * v = (p + W2 * q) + W3 * r
    BY <2>3, Horner, 0 \in Nat
  <2> QED
    BY <1>1, <2>5, <2>6, <2>7
<1>9. CASE n = 4
  <2>1. PICK p \in Nat, q \in Nat, r \in Nat, s \in Nat :
          p = Digit(b, 1) /\ q = Digit(b, 2) /\ r = Digit(b, 3) /\ s = Digit(b, 4)
    BY <1>2, <1>9
  <2>2. g[3] = DecodeOk(s, n)
    BY <1>3, <1>5, <1>9, <2>1
  <2>3. PICK v \in Nat : v = r + W2 * s
    BY DEF W2
  <2>4. g[2] = DecodeOk(v, n)
    BY <1>4, <1>5, <1>9, <2>1, <2>2, <2>3
  <2>5. PICK w \in Nat : w = q + W2 * v
    BY DEF W2
  <2>6. g[1] = DecodeOk(w, n)
    BY <1>4, <1>5, <1>9, <2>1, <2>4, <2>5
  <2>7. g[0] = DecodeOk(p + W2 * w, n)
    BY <1>4, <1>5, <1>9, <2>1, <2>6
  <2>8. FieldValue(b, n) = ((p + W2 * q) + W3 * r) + W4 * s
    BY <1>9, <2>1 DEF FieldValue, Sum1, Sum2, Sum3, Sum4
  <2>9. p + W2 * w = ((p + W2 * q) + W3 * r) + W4 * s
    BY <2>3, <2>5, Horner
  <2> QED
    BY <1>1, <2>7, <2>8, <2>9
<1> QED
  BY <1>6, <1>7, <1>8, <1>9

Ends(s) == {k \in 1..Len(s) : s[k] < 128 \/ k >= 4}

\* The loop of read_packet stops at the first end.
LEMMA ReadAt ==
    ASSUME NEW s, NEW n \in Ends(s), Ends(s) \subseteq Nat, \A j \in Ends(s) : n <= j
    PROVE  C!ReadRemainingLength(s) =
             IF s[n] >= 128 THEN C!Err ELSE C!decode_remaining_length(SubSeq(s, 1, n))
<1>1. PICK k : k = CHOOSE m \in Ends(s) : \A j \in Ends(s) : m <= j
  OBVIOUS
<1>2. k \in Ends(s) /\ \A j \in Ends(s) : k <= j
  BY <1>1
<1>3. k = n
  <2>1. k <= n /\ n <= k /\ k \in Nat /\ n \in Nat
    BY <1>2
  <2> QED
    BY <2>1
<1>4. Ends(s) # {}
  OBVIOUS
<1>5. C!ReadRemainingLength(s) =
        IF Ends(s) = {} THEN C!Err
        ELSE LET l == CHOOSE l \in Ends(s) : \A j \in Ends(s) : l <= j
             IN  IF s[l] >= 128 THEN C!Err ELSE C!decode_remaining_length(SubSeq(s, 1, l))
  BY Zenon DEF C!ReadRemainingLength, Ends
<1> QED
  BY <1>1, <1>3, <1>4, <1>5, Zenon

LEMMA ReadNone ==
    ASSUME NEW s, Ends(s) = {}
    PROVE  C!ReadRemainingLength(s) = C!Err
<1>1. C!ReadRemainingLength(s) =
        IF Ends(s) = {} THEN C!Err
        ELSE LET l == CHOOSE l \in Ends(s) : \A j \in Ends(s) : l <= j
             IN  IF s[l] >= 128 THEN C!Err ELSE C!decode_remaining_length(SubSeq(s, 1, l))
  BY Zenon DEF C!ReadRemainingLength, Ends
<1> QED
  BY <1>1, Zenon

\* The bytes so far, and those of what is left, are blitzclient's bytes.
SameBytes ==
    /\ result = "encoding" => out \o C!encode_remaining_length(x) = C!encode_remaining_length(len)
    /\ result # "encoding" => out = C!encode_remaining_length(len)

LEMMA SameBytesInit ==
    ASSUME Init
    PROVE  SameBytes
<1>1. len \in Nat /\ x = len /\ out = <<>> /\ result = "encoding"
  BY LengthsAssumption DEF Init
<1>2. PICK e \in Seq(Byte) : e = C!encode_remaining_length(len)
  BY <1>1, ClientEncoder
<1>3. <<>> \o e = e
  BY ConcatEmptySeq
<1> QED
  BY <1>1, <1>2, <1>3 DEF SameBytes

LEMMA SameBytesNext ==
    ASSUME TypeOK, SameBytes, [Next]_vars
    PROVE  SameBytes'
<1>1. CASE UNCHANGED <<len, x, out, result>>
  BY <1>1 DEF SameBytes
<1>2. CASE UNCHANGED <<len, x, out>> /\ result # "encoding" /\ result' # "encoding"
  BY <1>2 DEF SameBytes
<1>3. CASE EncodeByte
  <2>1. /\ result = "encoding" /\ len' = len
        /\ x' = x \div 128
        /\ out' = Append(out, (x % 128) + (IF x' > 0 THEN 128 ELSE 0))
        /\ IF x' > 0 THEN result' = result ELSE result' = "decoding"
    BY <1>3 DEF EncodeByte
  <2>2. /\ x \in Nat /\ out \in Seq(Byte)
    BY DEF TypeOK
  <2>3. PICK n \in Nat, c \in Byte, d \in Byte :
          /\ n = x \div 128 /\ c = x % 128 /\ d = (x % 128) + 128 /\ c + 0 = c
          /\ ~ (n > 0) <=> n = 0
    <3>1. (x % 128) + 0 = x % 128
      BY <2>2, SplitOff, DataByte
    <3> QED
      BY <2>2, <3>1, Halves
  <2>4. PICK e \in Seq(Byte) : e = C!encode_remaining_length(n)
    BY ClientEncoder
  <2>5. out \o C!encode_remaining_length(x) = C!encode_remaining_length(len)
    BY <2>1 DEF SameBytes
  <2>6. CASE n = 0
    <3>1. C!encode_remaining_length(x) = <<c>>
      BY <2>2, <2>3, <2>6, ClientEncoder
    <3>2. out' = Append(out, c) /\ result' = "decoding"
      BY <2>1, <2>3, <2>6
    <3>3. Append(out, c) = out \o <<c>>
      BY <2>2
    <3>4. out' = C!encode_remaining_length(len')
      BY <2>1, <2>5, <3>1, <3>2, <3>3
    <3> QED
      BY <3>2, <3>4 DEF SameBytes
  <2>7. CASE n # 0
    <3>1. C!encode_remaining_length(x) = <<d>> \o e
      BY <2>2, <2>3, <2>4, <2>7, ClientEncoder
    <3>2. out' = Append(out, d) /\ result' = "encoding" /\ x' = n
      BY <2>1, <2>3, <2>7
    <3>3. Append(out, d) = out \o <<d>>
      BY <2>2
    <3>4. PICK y \in Seq(Byte) : y = <<d>>
      <4>1. <<d>> \in Seq(Byte)
        OBVIOUS
      <4> QED
        BY <4>1
    <3>5. Regrouped(out, y, e)
      BY <2>2, Regroup
    <3>6. out' \o e = C!encode_remaining_length(len')
      BY <2>1, <2>5, <3>1, <3>2, <3>3, <3>4, <3>5 DEF Regrouped
    <3>7. out' \o C!encode_remaining_length(x') = C!encode_remaining_length(len')
      BY <2>4, <3>2, <3>6
    <3> QED
      BY <3>2, <3>7 DEF SameBytes
  <2> QED
    BY <2>6, <2>7
<1>4. CASE DecodeByte
  BY <1>2, <1>4 DEF DecodeByte
<1>5. CASE TooLong \/ RanOut
  BY <1>2, <1>5 DEF TooLong, RanOut
<1> QED
  BY <1>1, <1>3, <1>4, <1>5 DEF Next, vars

\* blitzclient reads a length from the bytes that have arrived exactly when the
\* broker does, and the same one.
LEMMA ReadsTheSame ==
    ASSUME RInv, result \in Results
    PROVE  LET r == C!ReadRemainingLength(SubSeq(out, 1, avail))
           IN  IF result = "Ok"
               THEN r.type = "Ok" /\ r.value = value /\ r.bytes = i
               ELSE r = C!Err
<1>1. /\ out \in Seq(Byte) /\ avail \in Nat /\ avail <= Len(out) /\ i \in 0..4
      /\ result # "encoding"
  BY DEF RInv, TypeOK, Results
<1>2. PICK n \in Nat : n = Len(out)
  BY <1>1
<1>3. /\ x = 0 /\ n >= 1 /\ ~ More(out[n])
      /\ \A k \in 1..n : k < n => More(out[k])
  BY <1>1, <1>2 DEF RInv, Continued
<1>4. \A k \in 1..n : out[k] \in Nat /\ (out[k] < 128 <=> ~ More(out[k])) /\ (out[k] >= 128 <=> More(out[k]))
  <2> SUFFICES ASSUME NEW k \in 1..n
               PROVE  out[k] \in Nat /\ (out[k] < 128 <=> ~ More(out[k])) /\ (out[k] >= 128 <=> More(out[k]))
    OBVIOUS
  <2>1. out[k] \in Byte
    BY <1>1, <1>2
  <2>2. out[k] \in Nat
    BY <2>1, ByteIsNat
  <2> QED
    BY <2>1, <2>2, Bytes DEF More
<1>5. PICK s \in Seq(Byte) : /\ s = SubSeq(out, 1, avail) /\ Len(s) = avail
                             /\ \A k \in 1..avail : s[k] = out[k]
  <2>1. PICK s : s = SubSeq(out, 1, avail)
    OBVIOUS
  <2>2. s \in Seq(Byte) /\ Len(s) = avail
    BY <1>1, <2>1, Cut
  <2>3. \A k \in 1..avail : s[k] = out[k]
    BY <1>1, <1>2, <2>1
  <2> QED
    BY <2>1, <2>2, <2>3
<1>6. Ends(s) \subseteq Nat /\ \A k : k \in Ends(s) <=> k \in 1..avail /\ (~ More(out[k]) \/ k >= 4)
  <2>1. \A k \in 1..avail : k \in 1..n
    BY <1>1, <1>2
  <2>2. \A k \in 1..avail : s[k] < 128 <=> ~ More(out[k])
    BY <1>4, <1>5, <2>1
  <2> QED
    BY <1>5, <2>2 DEF Ends
<1>7. CASE result = "Ok"
  <2>1. avail = n /\ i = avail
    BY <1>2, <1>7 DEF RInv, DecodesWhatWasEncoded
  <2>2. n \in 1..4 /\ n \in 1..n
    BY <1>1, <1>3, <2>1
  <2>3. n \in Ends(s)
    BY <1>3, <1>6, <2>1, <2>2
  <2>4. \A j \in Ends(s) : n <= j
    <3> SUFFICES ASSUME NEW j \in Ends(s), ~ (n <= j) PROVE FALSE
      OBVIOUS
    <3>1. j \in 1..n /\ (~ More(out[j]) \/ j >= 4)
      BY <1>6, <2>1
    <3>2. j < n /\ ~ (j >= 4)
      BY <2>2, <3>1
    <3> QED
      BY <1>3, <3>1, <3>2
  <2>5. s = out
    BY <1>1, <1>2, <1>5, <2>1, SeqEqual
  <2>6. SubSeq(s, 1, n) = s
    BY <1>5, <2>1, <2>5
  <2>7. ~ (s[n] >= 128)
    BY <1>3, <1>4, <2>2, <2>5
  <2>8. C!ReadRemainingLength(s) = C!decode_remaining_length(out)
    <3>1. C!ReadRemainingLength(s) =
            IF s[n] >= 128 THEN C!Err ELSE C!decode_remaining_length(SubSeq(s, 1, n))
      BY <1>6, <2>3, <2>4, ReadAt
    <3> QED
      BY <2>5, <2>6, <2>7, <3>1, Zenon
  <2>9. Field(out, n)
    BY <1>1, <1>2, <1>3, <2>2 DEF Field
  <2>10. C!decode_remaining_length(out) = DecodeOk(FieldValue(out, n), n)
    BY <2>9, ClientDecodes
  <2>11. value = FieldValue(out, n)
    BY <2>1, <2>2 DEF RInv, Decoded, FieldValue
  <2> QED
    BY <1>5, <1>7, <2>1, <2>8, <2>10, <2>11 DEF DecodeOk
<1>8. CASE result = "Incomplete"
  <2>1. avail < n /\ avail < 4
    BY <1>2, <1>8 DEF RInv, DecodesWhatWasEncoded
  <2>2. ASSUME NEW k \in Ends(s) PROVE FALSE
    <3>1. k \in 1..avail /\ (~ More(out[k]) \/ k >= 4)
      BY <1>6
    <3>2. k < n /\ k \in 1..n /\ ~ (k >= 4)
      BY <1>1, <2>1, <3>1
    <3> QED
      BY <1>3, <3>1, <3>2
  <2>3. Ends(s) = {}
    BY <2>2
  <2> QED
    BY <1>5, <1>8, <2>3, ReadNone
<1>9. CASE result = "InvalidRemainingLength"
  <2>1. len >= FieldLimit /\ avail >= 4
    BY <1>9 DEF RInv, DecodesWhatWasEncoded
  <2>2. n # 4
    <3> SUFFICES ASSUME n = 4 PROVE FALSE
      OBVIOUS
    <3>1. len = Sum4(out) + FieldLimit * 0
      BY <1>2, <1>3 DEF RInv, Encoded
    <3>2. Sum4(out) \in Nat /\ Sum4(out) < FieldLimit
      <4>1. Len(out) >= 4
        BY <1>2
      <4> QED
        BY <1>1, <4>1, SumBound
    <3>3. len = Sum4(out)
      BY <3>1, <3>2, NoRest
    <3>4. FieldLimit \in Nat
      BY DEF FieldLimit
    <3> QED
      BY <2>1, <3>2, <3>3, <3>4
  <2>3. 4 < n /\ 4 \in 1..n /\ 4 \in 1..avail
    BY <1>1, <1>2, <2>1, <2>2
  <2>4. More(out[4])
    BY <1>3, <2>3
  <2>5. 4 \in Ends(s)
    BY <1>6, <2>3
  <2>6. \A j \in Ends(s) : 4 <= j
    <3> SUFFICES ASSUME NEW j \in Ends(s), ~ (4 <= j) PROVE FALSE
      OBVIOUS
    <3>1. j \in 1..avail /\ (~ More(out[j]) \/ j >= 4)
      BY <1>6
    <3>2. j < n /\ j \in 1..n /\ ~ (j >= 4)
      BY <1>1, <2>3, <3>1
    <3> QED
      BY <1>3, <3>1, <3>2
  <2>7. s[4] >= 128
    BY <1>4, <1>5, <2>3, <2>4
  <2>8. C!ReadRemainingLength(s) =
          IF s[4] >= 128 THEN C!Err ELSE C!decode_remaining_length(SubSeq(s, 1, 4))
    BY <1>6, <2>5, <2>6, ReadAt
  <2>9. C!ReadRemainingLength(s) = C!Err
    BY <2>7, <2>8, Zenon
  <2> QED
    BY <1>5, <1>9, <2>9
<1> QED
  BY <1>7, <1>8, <1>9 DEF Results

-----------------------------------------------------------------------------
(* The two codecs agree *)

HeaderInv == RInv /\ SameBytes

LEMMA HeaderInvInit == CodecInit => HeaderInv
BY RInit, SameBytesInit DEF CodecInit, HeaderInv

LEMMA HeaderInvNext == HeaderInv /\ [CodecNext]_<<vars, codecVars>> => HeaderInv'
<1> SUFFICES ASSUME HeaderInv, [CodecNext]_<<vars, codecVars>> PROVE HeaderInv'
  OBVIOUS
<1>1. [Next]_vars
  BY DEF CodecNext, Deliver
<1>2. RInv /\ SameBytes /\ TypeOK
  BY DEF HeaderInv, RInv
<1>3. RInv'
  BY <1>1, <1>2, RNext
<1>4. SameBytes'
  BY <1>1, <1>2, SameBytesNext
<1> QED
  BY <1>3, <1>4 DEF HeaderInv

LEMMA HeaderInvariant == CodecSpec => []HeaderInv
BY HeaderInvInit, HeaderInvNext, PTL DEF CodecSpec

\* What blitzclient or shard_benchmark encodes the broker decodes to the same
\* packet, what the broker encodes blitzclient decodes to what it sees of the
\* packet, and both write and read the same length fields: for every packet
\* whose strings fit their length field, and every length.
THEOREM CodecCodecsAgree == CodecSpec => []CodecsAgree
<1>1. HeaderInv => HeadersAgree
  <2> SUFFICES ASSUME HeaderInv PROVE HeadersAgree
    OBVIOUS
  <2>1. result # "encoding" => out = C!encode_remaining_length(len)
    BY DEF HeaderInv, SameBytes
  <2>2. RInv
    BY DEF HeaderInv
  <2> QED
    BY <2>1, <2>2, ReadsTheSame DEF HeadersAgree
<1>2. CodecInv /\ received # Nothing =>
        /\ origin \in {"client", "bench"} => received = sent
        /\ origin = "broker" => received = Seen(sent)
  BY DEF CodecInv, Receives
<1>3. CodecInv /\ HeaderInv => CodecsAgree
  BY <1>1, <1>2 DEF CodecsAgree
<1> QED
  BY <1>3, CodecInvariant, HeaderInvariant, PTL

\* Whatever packet travels, its length field does so as in RemainingLength, so
\* that the theorems on the length field hold of every frame.
THEOREM CodecImplementsRemainingLength == CodecSpec => Spec
<1>1. CodecInit => Init
  BY DEF CodecInit
<1>2. [CodecNext]_<<vars, codecVars>> => [Next]_vars
  BY DEF CodecNext, Deliver
<1> QED
  BY <1>1, <1>2, PTL DEF CodecSpec, Spec
=============================================================================
