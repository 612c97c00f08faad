--------------------------- MODULE PrefixedProofs ---------------------------
(***************************************************************************)
(* What is proved of bytes behind their number: that the compact size      *)
(* codec has one encoding per number; that ByteVecDecoder, which reads its *)
(* length with it, keeps the promises of the trait Decoder; and that a     *)
(* Witness has one buffer per list of elements, which its decoder, pushes  *)
(* and from_slice arrive at.  For every radix, limit, batch, set of        *)
(* streams and set of elements.                                            *)
(***************************************************************************)
EXTENDS Witness, SequenceTheorems, WellFoundedInduction, TLAPS

CONSTANTS Streams, MaxSize, MAX_VECTOR_ALLOCATE
VARIABLES in_prefix, prefix, bytes_expected, buffer, capacity

Bytes == INSTANCE ByteVecDecoder

(* Division.                                                               *)

LEMMA ProductGrows == \A d, p, q \in Nat : p < q => d * p + d <= d * q
<1>. TAKE d \in Nat, p \in Nat, q \in Nat
<1>. HAVE p < q
<1>1. PICK k \in Nat : q = p + 1 + k
  <2>1. q - p - 1 \in Nat /\ q = p + 1 + (q - p - 1)
    OBVIOUS
  <2>. QED BY <2>1
<1>2. d * q = d * p + d + d * k /\ d * k \in Nat
  BY <1>1
<1>. QED BY <1>2
LEMMA DivMod ==
  \A v \in Nat, d \in Nat \ {0} :
    v = d * (v \div d) + (v % d) /\ (v % d) \in 0..(d-1) /\ v \div d \in Nat
OBVIOUS
LEMMA Division ==
  ASSUME NEW d \in Nat \ {0}, NEW q \in Nat, NEW r \in Nat, r < d, NEW v, v = d * q + r
  PROVE  v \div d = q /\ v % d = r
<1>1. v \in Nat
  OBVIOUS
<1>2. PICK p \in Nat, s \in Nat : p = v \div d /\ s = v % d /\ s < d /\ v = d * p + s
  BY <1>1, DivMod
<1>3. ~(p < q)
  BY <1>2, ProductGrows
<1>4. ~(q < p)
  BY <1>2, ProductGrows
<1>5. p = q
  BY <1>3, <1>4
<1>. QED
  BY <1>2, <1>5
LEMMA LowStep ==
  ASSUME NEW R \in Nat \ {0}, NEW U \in Nat \ {0}, NEW low \in Nat, low < U,
         NEW b \in Nat, b < R
  PROVE  low + U * b \in Nat /\ low + U * b < U * R
<1>1. U * b + U <= U * R
  BY ProductGrows
<1>2. U * b \in Nat /\ U * R \in Nat
  OBVIOUS
<1>. QED
  BY <1>1, <1>2
-----------------------------------------------------------------------------
(* The bytes of a number.                                                  *)

LEMMA Weights ==
  /\ Radix \in Nat \ {0} /\ Bytes!Radix2 \in Nat \ {0} /\ Bytes!Radix4 \in Nat \ {0}
  /\ Bytes!Radix8 \in Nat \ {0}
  /\ \A i \in 1..8 : Bytes!Weight[i] \in Nat \ {0}
  /\ Bytes!Weight[1] = 1 /\ \A i \in 1..7 : Bytes!Weight[i + 1] = Bytes!Weight[i] * Radix
  /\ Bytes!Weight[3] = Bytes!Radix2 /\ Bytes!Weight[5] = Bytes!Radix4
  /\ Bytes!Weight[8] * Radix = Bytes!Radix8
<1>1. Radix \in Nat \ {0}
  BY RadixAssumption
<1>2. /\ Bytes!Radix2 \in Nat \ {0} /\ Bytes!Radix2 = Radix * Radix
      /\ Bytes!Radix4 \in Nat \ {0} /\ Bytes!Radix4 = Bytes!Radix2 * Bytes!Radix2
      /\ Bytes!Radix8 \in Nat \ {0} /\ Bytes!Radix8 = Bytes!Radix4 * Bytes!Radix4
  BY <1>1 DEF Bytes!Radix2, Bytes!Radix4, Bytes!Radix8
<1>3. /\ Bytes!Weight[1] = 1 /\ Bytes!Weight[2] = Radix /\ Bytes!Weight[3] = Bytes!Radix2
      /\ Bytes!Weight[4] = Bytes!Radix2 * Radix
      /\ Bytes!Weight[5] = Bytes!Radix4 /\ Bytes!Weight[6] = Bytes!Radix4 * Radix
      /\ Bytes!Weight[7] = Bytes!Radix4 * Bytes!Radix2
      /\ Bytes!Weight[8] = Bytes!Radix4 * Bytes!Radix2 * Radix
  BY DEF Bytes!Weight
<1>4. /\ Bytes!Weight[2] = Bytes!Weight[1] * Radix /\ Bytes!Weight[3] = Bytes!Weight[2] * Radix
      /\ Bytes!Weight[4] = Bytes!Weight[3] * Radix /\ Bytes!Weight[5] = Bytes!Weight[4] * Radix
      /\ Bytes!Weight[6] = Bytes!Weight[5] * Radix /\ Bytes!Weight[7] = Bytes!Weight[6] * Radix
      /\ Bytes!Weight[8] = Bytes!Weight[7] * Radix /\ Bytes!Weight[8] * Radix = Bytes!Radix8
  BY <1>1, <1>2, <1>3
<1>5. \A i \in 1..8 : Bytes!Weight[i] \in Nat \ {0}
  BY <1>1, <1>2, <1>3
<1>6. \A i \in 1..7 : Bytes!Weight[i + 1] = Bytes!Weight[i] * Radix
  BY <1>4
<1>. QED
  BY <1>1, <1>2, <1>3, <1>4, <1>5, <1>6

LEMMA Distribute ==
  \A u, b, r, h \in Nat : /\ u * (b + r * h) = u * b + (u * r) * h
                         /\ u * b \in Nat /\ (u * r) * h \in Nat
<1>. TAKE u \in Nat, b \in Nat, r \in Nat, h \in Nat
<1>1. PICK x \in Nat : x = r * h
  OBVIOUS
<1>2. u * (b + x) = u * b + u * x
  OBVIOUS
<1>3. u * x = (u * r) * h
  BY <1>1
<1>4. u * b \in Nat /\ (u * r) * h \in Nat
  OBVIOUS
<1>. QED
  BY <1>1, <1>2, <1>3, <1>4, Zenon

\* Reading off the digit b of v, with what is below it and what is above it.
ReadsOff(v, U, R, low, b, high) ==
  /\ (v \div U) % R = b
  /\ low + U * b \in Nat /\ low + U * b < U * R
  /\ v = (low + U * b) + (U * R) * high

LEMMA DigitStep ==
  ASSUME NEW R \in Nat, NEW U \in Nat, NEW low \in Nat, low < U,
         NEW b \in Nat, b < R, NEW high \in Nat, NEW v \in Nat, v = low + U * (b + R * high)
  PROVE  ReadsOff(v, U, R, low, b, high)
<1>1. R * high \in Nat
  OBVIOUS
<1>2. PICK x \in Nat : x = b + R * high
  BY <1>1
<1>3. U * x \in Nat /\ v = U * x + low /\ low < U
  BY <1>2
<1>4. v \div U = x
  BY ONLY <1>3, Division
<1>5. x = R * high + b
  BY <1>1, <1>2
<1>6. x % R = b
  BY <1>5, Division
<1>7. (v \div U) % R = b
  BY <1>4, <1>6
<1>8. low + U * b \in Nat /\ low + U * b < U * R
  BY LowStep
<1>9. v = (low + U * b) + (U * R) * high
  <2>1. U * (b + R * high) = U * b + (U * R) * high /\ U * b \in Nat /\ (U * R) * high \in Nat
    BY Distribute
  <2>. QED
    BY <2>1
<1>. QED
  BY <1>7, <1>8, <1>9 DEF ReadsOff

\* The bytes of a number of eight bytes are the ones it was read from, and its halves and
\* quarters are below the powers of the radix.
LEMMA Digits ==
  ASSUME NEW b \in [1..8 -> Bytes!Byte], NEW v, v = Bytes!FromLe8(b, 1)
  PROVE  /\ \A i \in 1..8 : (v \div Bytes!Weight[i]) % Radix = b[i]
         /\ Bytes!FromLe2(b, 1) \in 0..(Bytes!Radix2 - 1)
         /\ Bytes!FromLe4(b, 1) \in 0..(Bytes!Radix4 - 1)
         /\ v \in 0..(Bytes!Radix8 - 1)
<1>. DEFINE h8 == b[8]
            h7 == b[7] + Radix * h8
            h6 == b[6] + Radix * h7
            h5 == b[5] + Radix * h6
            h4 == b[4] + Radix * h5
            h3 == b[3] + Radix * h4
            h2 == b[2] + Radix * h3
            l2 == b[1]
            l3 == l2 + Bytes!Weight[2] * b[2]
            l4 == l3 + Bytes!Weight[3] * b[3]
            l5 == l4 + Bytes!Weight[4] * b[4]
            l6 == l5 + Bytes!Weight[5] * b[5]
            l7 == l6 + Bytes!Weight[6] * b[6]
            l8 == l7 + Bytes!Weight[7] * b[7]
            above == <<v, h2, h3, h4, h5, h6, h7, h8, 0>>
            below == <<0, l2, l3, l4, l5, l6, l7, l8, v>>
            unit == <<Bytes!Weight[1], Bytes!Weight[2], Bytes!Weight[3], Bytes!Weight[4], Bytes!Weight[5], Bytes!Weight[6],
                      Bytes!Weight[7], Bytes!Weight[8], Bytes!Radix8>>
<1>1. \A i \in 1..8 : b[i] \in Nat /\ b[i] < Radix
  BY Weights DEF Bytes!Byte
<1>2. /\ h8 \in Nat /\ h7 \in Nat /\ h6 \in Nat /\ h5 \in Nat /\ h4 \in Nat /\ h3 \in Nat
      /\ h2 \in Nat
  BY <1>1, Weights
<1>3. v = b[1] + Radix * h2
  <2>1. Bytes!FromLe4(b, 1) = Bytes!FromLe2(b, 1) + Bytes!Radix2 * Bytes!FromLe2(b, 3)
    BY DEF Bytes!FromLe4
  <2>2. h7 = Bytes!FromLe2(b, 7)
    BY DEF Bytes!FromLe2
  <2>3. h5 = Bytes!FromLe4(b, 5)
    BY <1>1, <1>2, <2>2, Distribute, Weights DEF Bytes!FromLe4, Bytes!FromLe2, Bytes!Radix2
  <2>4. h3 = Bytes!FromLe2(b, 3) + Bytes!Radix2 * h5
    BY <1>1, <1>2, Distribute, Weights DEF Bytes!FromLe2, Bytes!Radix2
  <2>5. b[1] + Radix * h2 = Bytes!FromLe2(b, 1) + Bytes!Radix2 * h3
    BY <1>1, <1>2, Distribute, Weights DEF Bytes!FromLe2, Bytes!Radix2
  <2>6. Bytes!FromLe2(b, 1) + Bytes!Radix2 * h3 = Bytes!FromLe4(b, 1) + Bytes!Radix4 * h5
    BY <1>1, <1>2, <2>1, <2>4, Distribute, Weights DEF Bytes!FromLe2, Bytes!Radix4
  <2>. QED
    BY <2>3, <2>5, <2>6 DEF Bytes!FromLe8
<1>4. /\ l3 = Bytes!FromLe2(b, 1) /\ l5 = Bytes!FromLe4(b, 1)
      /\ v = l8 + Bytes!Weight[8] * b[8] /\ l8 \in Nat
  BY <1>1, Weights DEF Bytes!FromLe8, Bytes!FromLe4, Bytes!FromLe2, Bytes!Radix2, Bytes!Radix4,
     Bytes!Weight
<1>5. \A i \in 1..8 :
        /\ above[i] = b[i] + Radix * above[i + 1] /\ above[i + 1] \in Nat
        /\ below[i + 1] = below[i] + unit[i] * b[i]
        /\ unit[i + 1] = unit[i] * Radix /\ unit[i] = Bytes!Weight[i] /\ unit[i] \in Nat \ {0}
  <2>1. \A i \in 1..8 : above[i] = b[i] + Radix * above[i + 1]
    BY <1>1, <1>2, <1>3, Weights
  <2>2. \A i \in 1..8 : above[i + 1] \in Nat
    BY <1>2
  <2>3. \A i \in 1..8 : below[i + 1] = below[i] + unit[i] * b[i]
    BY <1>1, <1>2, <1>4, Weights
  <2>4. \A i \in 1..8 : unit[i + 1] = unit[i] * Radix /\ unit[i] = Bytes!Weight[i] /\ unit[i] \in Nat \ {0}
    BY Weights
  <2>. QED
    BY <2>1, <2>2, <2>3, <2>4
<1>6. /\ above[1] = v /\ below[1] = 0 /\ unit[1] = 1 /\ below[3] = Bytes!FromLe2(b, 1)
      /\ unit[3] = Bytes!Radix2
      /\ below[5] = Bytes!FromLe4(b, 1) /\ unit[5] = Bytes!Radix4 /\ below[9] = v
      /\ unit[9] = Bytes!Radix8
      /\ v \in Nat
  <2>1. Radix * h2 \in Nat
    BY <1>2, Weights
  <2>2. v \in Nat
    BY <1>1, <1>3, <2>1
  <2>. QED
    BY <1>1, <1>4, <2>2, Weights
<1>. HIDE DEF above, below, unit
<1>. DEFINE Split(i) == below[i] \in Nat /\ below[i] < unit[i] /\ v = below[i] + unit[i] * above[i]
<1>7. Split(1)
  BY <1>6
<1>8. ASSUME NEW i \in 1..8, Split(i)
      PROVE  (v \div Bytes!Weight[i]) % Radix = b[i] /\ Split(i + 1)
  <2>1. v = below[i] + unit[i] * (b[i] + Radix * above[i + 1])
    BY <1>5, <1>8, Zenon
  <2>. DEFINE U == unit[i]
              low == below[i]
              d == b[i]
              high == above[i + 1]
  <2>2. /\ U \in Nat /\ low \in Nat /\ low < U /\ high \in Nat /\ v \in Nat
        /\ d \in Nat /\ d < Radix /\ Radix \in Nat
        /\ v = low + U * (d + Radix * high)
    BY <1>1, <1>5, <1>6, <1>8, <2>1, Weights
  <2>. HIDE DEF U, low, d, high
  <2>3. ReadsOff(v, U, Radix, low, d, high)
    BY ONLY <2>2, DigitStep, Zenon
  <2>. QED
    BY <1>5, <2>3, Zenon DEF ReadsOff, U, low, d, high
<1>9. Split(2) /\ Split(3) /\ Split(4) /\ Split(5) /\ Split(6) /\ Split(7) /\ Split(8) /\ Split(9)
  BY <1>7, <1>8
<1>10. \A i \in 1..8 : Split(i)
  BY <1>7, <1>9
<1>. QED
  BY <1>6, <1>8, <1>9, <1>10, Weights

-----------------------------------------------------------------------------
(* The codec.                                                              *)

LEMMA Markers ==
  /\ Bytes!PREFIX_U16 \in Nat /\ Bytes!PREFIX_U16 < Bytes!PREFIX_U32
  /\ Bytes!PREFIX_U32 < Bytes!PREFIX_U64 /\ Bytes!PREFIX_U64 < Radix
  /\ \A first \in Bytes!Byte :
       /\ Bytes!PayloadWidth(first) \in {0, 2, 4, 8}
       /\ Bytes!EncodedLen(first) = 1 + Bytes!PayloadWidth(first)
       /\ Bytes!EncodedLen(first) \in {1, 3, 5, 9}
       /\ Bytes!PayloadWidth(first) = 0 <=> first < Bytes!PREFIX_U16
       /\ Bytes!PayloadWidth(first) = 2 <=> first = Bytes!PREFIX_U16
       /\ Bytes!PayloadWidth(first) = 4 <=> first = Bytes!PREFIX_U32
       /\ Bytes!PayloadWidth(first) = 8 <=> first = Bytes!PREFIX_U64
BY RadixAssumption DEF Bytes!PREFIX_U16, Bytes!PREFIX_U32, Bytes!PREFIX_U64, Bytes!Byte,
   Bytes!PayloadWidth, Bytes!EncodedLen

\* A first byte and the digits of a number behind it.
LEMMA Reassemble ==
  ASSUME NEW buf \in Seq(Bytes!Byte), NEW w \in {2, 4, 8}, Len(buf) = w + 1, NEW v,
         \A i \in 1..w : (v \div Bytes!Weight[i]) % Radix = buf[i + 1]
  PROVE  <<buf[1]>> \o Bytes!ToLe(v, w) = buf
<1>1. \A i \in 1..(w + 1) : buf[i] \in Bytes!Byte
  OBVIOUS
<1>2. Bytes!ToLe(v, w) = [i \in 1..w |-> buf[i + 1]]
  BY DEF Bytes!ToLe
<1>3. /\ Bytes!ToLe(v, w) \in Seq(Bytes!Byte) /\ Len(Bytes!ToLe(v, w)) = w
      /\ \A i \in 1..w : Bytes!ToLe(v, w)[i] = buf[i + 1]
  BY <1>1, <1>2
<1>4. <<buf[1]>> \in Seq(Bytes!Byte) /\ Len(<<buf[1]>>) = 1 /\ <<buf[1]>>[1] = buf[1]
  BY <1>1
<1>. DEFINE s == <<buf[1]>> \o Bytes!ToLe(v, w)
<1>5. /\ s \in Seq(Bytes!Byte) /\ Len(s) = 1 + w
      /\ \A i \in 1..(1 + w) : s[i] = IF i <= 1 THEN <<buf[1]>>[i] ELSE Bytes!ToLe(v, w)[i - 1]
  BY <1>3, <1>4, ConcatProperties
<1>6. Len(s) = Len(buf) /\ \A i \in 1..Len(s) : s[i] = buf[i]
  BY <1>3, <1>4, <1>5
<1>. HIDE DEF s
<1>7. s = buf
  BY <1>5, <1>6, SeqEqual
<1>. QED
  BY <1>7 DEF s

\* What the payload bytes of each width spell.
LEMMA Payloads ==
  ASSUME NEW buf \in Seq(Bytes!Byte), NEW w \in {2, 4, 8}, Len(buf) = w + 1
  PROVE  /\ \A i \in 1..w : (Bytes!PayloadValue(buf) \div Bytes!Weight[i]) % Radix = buf[i + 1]
         /\ Bytes!PayloadValue(buf) \in Nat
         /\ w = 2 => Bytes!PayloadValue(buf) < Bytes!Radix2
         /\ w = 4 => Bytes!PayloadValue(buf) < Bytes!Radix4
         /\ w = 8 => Bytes!PayloadValue(buf) < Bytes!Radix8
<1>. DEFINE b == [i \in 1..8 |-> IF i <= w THEN buf[i + 1] ELSE 0]
<1>1. b \in [1..8 -> Bytes!Byte]
  <2>1. \A i \in 1..8 : i <= w => i + 1 \in 1..Len(buf)
    OBVIOUS
  <2>2. \A i \in 1..8 : i <= w => buf[i + 1] \in Bytes!Byte
    BY <2>1
  <2>3. 0 \in Bytes!Byte
    BY RadixAssumption DEF Bytes!Byte
  <2>. QED
    BY <2>2, <2>3
<1>2. \A i \in 1..w : b[i] = buf[i + 1]
  OBVIOUS
<1>3. \A i \in 1..8 : b[i] \in Nat
  BY <1>1, RadixAssumption DEF Bytes!Byte
<1>a. /\ \A i \in 1..8 : (Bytes!FromLe8(b, 1) \div Bytes!Weight[i]) % Radix = b[i]
      /\ Bytes!FromLe2(b, 1) \in 0..(Bytes!Radix2 - 1)
      /\ Bytes!FromLe4(b, 1) \in 0..(Bytes!Radix4 - 1)
      /\ Bytes!FromLe8(b, 1) \in 0..(Bytes!Radix8 - 1)
      /\ Bytes!Radix2 \in Nat /\ Bytes!Radix4 \in Nat /\ Bytes!Radix8 \in Nat
  BY <1>1, Digits, Weights
<1>4. CASE w = 2
  <2>1. Bytes!PayloadValue(buf) = Bytes!FromLe2(b, 1)
    BY <1>2, <1>4 DEF Bytes!PayloadValue, Bytes!FromLe2
  <2>2. Bytes!FromLe2(b, 3) = 0 /\ Bytes!FromLe2(b, 5) = 0 /\ Bytes!FromLe2(b, 7) = 0
    BY <1>4, Weights DEF Bytes!FromLe2
  <2>3. Bytes!FromLe2(b, 1) \in Nat
    BY <1>a
  <2>4. Bytes!FromLe8(b, 1) = Bytes!FromLe2(b, 1)
    BY <2>2, <2>3, Weights DEF Bytes!FromLe8, Bytes!FromLe4
  <2>. QED
    BY <1>a, <1>2, <1>4, <2>1, <2>4
<1>5. CASE w = 4
  <2>1. Bytes!PayloadValue(buf) = Bytes!FromLe4(b, 1)
    BY <1>2, <1>5 DEF Bytes!PayloadValue, Bytes!FromLe4, Bytes!FromLe2
  <2>2. Bytes!FromLe2(b, 5) = 0 /\ Bytes!FromLe2(b, 7) = 0
    BY <1>5, Weights DEF Bytes!FromLe2
  <2>3. Bytes!FromLe4(b, 1) \in Nat
    BY <1>a
  <2>4. Bytes!FromLe8(b, 1) = Bytes!FromLe4(b, 1)
    BY <2>2, <2>3, Weights DEF Bytes!FromLe8, Bytes!FromLe4
  <2>. QED
    BY <1>a, <1>2, <1>5, <2>1, <2>4
<1>6. CASE w = 8
  <2>1. Bytes!PayloadValue(buf) = Bytes!FromLe8(b, 1)
    BY <1>2, <1>6 DEF Bytes!PayloadValue, Bytes!FromLe8, Bytes!FromLe4, Bytes!FromLe2
  <2>. QED
    BY <1>a, <1>2, <1>6, <2>1
<1>. QED
  BY <1>4, <1>5, <1>6

\* A buffer that decodes is the one encoding of its value: compact_size_decode_u64 turns
\* away every longer one.
LEMMA OneEncoding ==
  ASSUME NEW buf \in Seq(Bytes!Byte), Bytes!compact_size_decode_u64(buf).error = "none"
  PROVE  /\ Bytes!compact_size_decode_u64(buf).value \in Nat
         /\ Bytes!encode(Bytes!compact_size_decode_u64(buf).value) = buf
         /\ Bytes!encoded_size(Bytes!compact_size_decode_u64(buf).value) = Len(buf)
<1>. DEFINE v == Bytes!PayloadValue(buf)
<1>1. /\ buf # <<>> /\ Len(buf) = Bytes!EncodedLen(buf[1]) /\ ~(v < Bytes!LeastValue(Len(buf) - 1))
      /\ Bytes!compact_size_decode_u64(buf).value = v
  BY DEF Bytes!compact_size_decode_u64
<1>2. buf[1] \in Bytes!Byte /\ Len(buf) \in Nat
  BY <1>1
<1>3. /\ Bytes!Radix2 \in Nat /\ Bytes!Radix4 \in Nat /\ Bytes!Radix8 \in Nat
      /\ Radix <= Bytes!Radix2 /\ Bytes!Radix2 <= Bytes!Radix4 /\ Bytes!Radix4 <= Bytes!Radix8
  <2>1. \A d \in Nat \ {0} : d <= d * d
    BY ProductGrows
  <2>. QED
    BY <2>1, Weights DEF Bytes!Radix2, Bytes!Radix4, Bytes!Radix8
<1>m. Bytes!PREFIX_U16 \in Nat /\ Bytes!PREFIX_U16 < Bytes!Radix2 /\ Bytes!PREFIX_U16 < Bytes!Radix4
  BY <1>3, RadixAssumption DEF Bytes!PREFIX_U16
<1>4. CASE Bytes!PayloadWidth(buf[1]) = 0
  <2>1. Len(buf) = 1 /\ buf[1] < Bytes!PREFIX_U16 /\ v = buf[1] /\ buf[1] \in Nat
    BY <1>1, <1>2, <1>4, Markers DEF Bytes!PayloadValue, Bytes!Byte
  <2>2. buf = <<buf[1]>>
    BY <2>1
  <2>. HIDE DEF v
  <2>. QED
    BY <1>1, <1>3, <1>m, <2>1, <2>2 DEF Bytes!encode, Bytes!encoded_size
<1>5. CASE Bytes!PayloadWidth(buf[1]) # 0
  <2>. DEFINE w == Bytes!PayloadWidth(buf[1])
  <2>1. /\ w \in {2, 4, 8} /\ Len(buf) = w + 1
        /\ buf[1] = CASE w = 2 -> Bytes!PREFIX_U16 [] w = 4 -> Bytes!PREFIX_U32 [] w = 8 -> Bytes!PREFIX_U64
        /\ ~(v < Bytes!LeastValue(w))
    BY <1>1, <1>2, <1>5, Markers
  <2>. HIDE DEF w
  <2>2. /\ \A i \in 1..w : (v \div Bytes!Weight[i]) % Radix = buf[i + 1]
        /\ v \in Nat
        /\ w = 2 => v < Bytes!Radix2
        /\ w = 4 => v < Bytes!Radix4
        /\ w = 8 => v < Bytes!Radix8
    BY <2>1, Payloads
  <2>3. <<buf[1]>> \o Bytes!ToLe(v, w) = buf
    BY <2>1, <2>2, Reassemble
  <2>. HIDE DEF v
  <2>4. CASE w = 2
    <3>1. v \in Bytes!PREFIX_U16..(Bytes!Radix2 - 1) /\ ~(v < Bytes!PREFIX_U16)
      BY <1>3, <1>m, <2>1, <2>2, <2>4 DEF Bytes!LeastValue
    <3>. QED
      BY <1>1, <1>3, <2>1, <2>2, <2>3, <2>4, <3>1 DEF Bytes!encode, Bytes!encoded_size, v
  <2>5. CASE w = 4
    <3>1. /\ v \in Bytes!Radix2..(Bytes!Radix4 - 1) /\ ~(v < Bytes!PREFIX_U16)
          /\ v \notin Bytes!PREFIX_U16..(Bytes!Radix2 - 1)
      BY <1>3, <1>m, <2>1, <2>2, <2>5 DEF Bytes!LeastValue
    <3>. QED
      BY <1>1, <1>3, <2>1, <2>2, <2>3, <2>5, <3>1 DEF Bytes!encode, Bytes!encoded_size, v
  <2>6. CASE w = 8
    <3>1. /\ v \notin Bytes!Radix2..(Bytes!Radix4 - 1) /\ ~(v < Bytes!PREFIX_U16)
          /\ v \notin Bytes!PREFIX_U16..(Bytes!Radix2 - 1)
      BY <1>3, <1>m, <2>1, <2>2, <2>6 DEF Bytes!LeastValue
    <3>. QED
      BY <1>1, <1>3, <2>1, <2>2, <2>3, <2>6, <3>1 DEF Bytes!encode, Bytes!encoded_size, v
  <2>. QED
    BY <2>1, <2>4, <2>5, <2>6
<1>. QED
  BY <1>4, <1>5

-----------------------------------------------------------------------------
(* A number has the bytes it is encoded in.                                *)

LEMMA DivDiv ==
  ASSUME NEW U \in Nat \ {0}, NEW R \in Nat \ {0}, NEW v \in Nat
  PROVE  v \div (U * R) = (v \div U) \div R /\ U * R \in Nat \ {0}
<1>1. PICK q \in Nat, r \in Nat : q = v \div U /\ v = U * q + r /\ r < U
  BY DivMod
<1>2. PICK p \in Nat, s \in Nat : p = q \div R /\ q = R * p + s /\ s < R
  BY DivMod
<1>3. R * p \in Nat /\ U * R \in Nat \ {0}
  OBVIOUS
<1>4. r + U * s \in Nat /\ r + U * s < U * R
  BY <1>1, <1>2, LowStep
<1>5. v = (U * R) * p + (r + U * s)
  <2>1. q = s + R * p
    BY <1>2, <1>3
  <2>2. U * (s + R * p) = U * s + (U * R) * p /\ U * s \in Nat /\ (U * R) * p \in Nat
    BY Distribute
  <2>3. U * q = U * s + (U * R) * p
    BY <2>1, <2>2
  <2>4. PICK x \in Nat, y \in Nat, z \in Nat : x = U * q /\ y = U * s /\ z = (U * R) * p
    BY <2>2
  <2>5. x = y + z /\ v = x + r
    BY ONLY <1>1, <2>2, <2>3, <2>4, Zenon
  <2>6. v = z + (r + y)
    BY <2>5
  <2>. QED
    BY <2>4, <2>6
<1>6. v \div (U * R) = p
  <2>. DEFINE d == U * R
              t == r + U * s
  <2>1. d \in Nat \ {0} /\ t \in Nat /\ t < d /\ v = d * p + t /\ p \in Nat
    BY <1>3, <1>4, <1>5
  <2>. HIDE DEF d, t
  <2>2. v \div d = p
    BY ONLY <2>1, Division
  <2>. QED
    BY <2>2 DEF d
<1>. QED
  BY <1>1, <1>2, <1>3, <1>6

\* Numbers below a power of the radix that have the same digits are the same.
LEMMA SameDigits ==
  ASSUME NEW w \in 1..8, NEW u \in Nat, NEW v \in Nat,
         u < Bytes!Weight[w] * Radix, v < Bytes!Weight[w] * Radix,
         \A i \in 1..w : (u \div Bytes!Weight[i]) % Radix = (v \div Bytes!Weight[i]) % Radix
  PROVE  u = v
<1>. DEFINE Same(i) == u \div Bytes!Weight[i] = v \div Bytes!Weight[i]
<1>1. \A x \in Nat : x < Bytes!Weight[w] * Radix => (x \div Bytes!Weight[w]) % Radix = x \div Bytes!Weight[w]
  <2>. TAKE x \in Nat
  <2>. HAVE x < Bytes!Weight[w] * Radix
  <2>1. Bytes!Weight[w] \in Nat \ {0} /\ Radix \in Nat \ {0}
    BY Weights
  <2>. DEFINE d == Bytes!Weight[w]
  <2>2. PICK q \in Nat, r \in Nat : q = x \div Bytes!Weight[w] /\ x = Bytes!Weight[w] * q + r
    <3>1. d \in Nat \ {0}
      BY <2>1
    <3>. HIDE DEF d
    <3>2. x = d * (x \div d) + (x % d) /\ (x % d) \in 0..(d - 1) /\ x \div d \in Nat
      BY ONLY <3>1, DivMod, x \in Nat
    <3>3. x % d \in Nat
      BY ONLY <3>1, <3>2
    <3>. QED
      BY <3>2, <3>3 DEF d
  <2>3. ~(Radix <= q)
    <3>. SUFFICES ASSUME Radix <= q PROVE FALSE
      OBVIOUS
    <3>1. Bytes!Weight[w] * Radix <= Bytes!Weight[w] * q
      <4>1. CASE Radix = q
        BY <2>1, <4>1
      <4>2. CASE Radix < q
        <5>1. Bytes!Weight[w] * Radix + Bytes!Weight[w] <= Bytes!Weight[w] * q
          BY <2>1, <4>2, ProductGrows
        <5>2. Bytes!Weight[w] * Radix \in Nat /\ Bytes!Weight[w] * q \in Nat
          BY <2>1
        <5>. QED
          BY <2>1, <5>1, <5>2
      <4>. QED
        BY <2>1, <4>1, <4>2
    <3>2. Bytes!Weight[w] * Radix \in Nat /\ Bytes!Weight[w] * q \in Nat
      BY <2>1
    <3>. QED
      BY <2>2, <3>1, <3>2
  <2>4. q = Radix * 0 + q /\ q < Radix
    BY <2>1, <2>3
  <2>5. q % Radix = q
    <3>1. Radix \in Nat \ {0} /\ 0 \in Nat /\ q \in Nat /\ q < Radix /\ q = Radix * 0 + q
      BY <2>1, <2>4
    <3>. QED
      BY ONLY <3>1, Division
  <2>. QED
    BY <2>2, <2>5
<1>2. Same(w)
  <2>1. w \in 1..w
    OBVIOUS
  <2>. QED
    BY <1>1, <2>1
<1>3. ASSUME NEW i \in 1..7, i + 1 <= w, Same(i + 1) PROVE Same(i)
  <2>1. Bytes!Weight[i] \in Nat \ {0} /\ Radix \in Nat \ {0} /\ Bytes!Weight[i + 1] = Bytes!Weight[i] * Radix
    BY Weights
  <2>2. (u \div Bytes!Weight[i]) \div Radix = (v \div Bytes!Weight[i]) \div Radix
    BY <1>3, <2>1, DivDiv
  <2>3. (u \div Bytes!Weight[i]) % Radix = (v \div Bytes!Weight[i]) % Radix
    <3>1. i \in 1..w
      BY <1>3
    <3>. QED
      BY <3>1
  <2>4. u \div Bytes!Weight[i] \in Nat /\ v \div Bytes!Weight[i] \in Nat
    BY <2>1, DivMod
  <2>. DEFINE x == u \div Bytes!Weight[i]
              y == v \div Bytes!Weight[i]
  <2>5. x = Radix * (x \div Radix) + (x % Radix) /\ y = Radix * (y \div Radix) + (y % Radix)
    BY <2>1, <2>4, DivMod
  <2>6. x \div Radix = y \div Radix /\ x % Radix = y % Radix
    BY <2>2, <2>3
  <2>. HIDE DEF x, y
  <2>7. x = y
    BY ONLY <2>5, <2>6, Zenon
  <2>. QED
    BY <2>7 DEF x, y
<1>4. /\ w >= 8 => Same(7) \/ w < 8
      /\ w \in 1..8
  <2>1. w >= 8 => w = 8
    OBVIOUS
  <2>2. w = 8 => 7 \in 1..7 /\ 7 + 1 = 8 /\ 8 <= 8
    OBVIOUS
  <2>3. w = 8 => Same(7 + 1)
    BY <1>2
  <2>. QED
    BY <1>3, <2>1, <2>2, <2>3
<1>5. /\ w >= 8 => Same(8)
      /\ w >= 7 => Same(7)
      /\ w >= 6 => Same(6)
      /\ w >= 5 => Same(5)
      /\ w >= 4 => Same(4)
      /\ w >= 3 => Same(3)
      /\ w >= 2 => Same(2)
      /\ Same(1)
  <2>. HIDE DEF Same
  <2>8. w >= 8 => Same(8)
    <3>1. w >= 8 => w = 8
      OBVIOUS
    <3>. QED
      BY <1>2, <3>1
  <2>0. ASSUME NEW i \in 1..7, w >= i + 1 => Same(i + 1) PROVE w >= i => Same(i)
    <3>. SUFFICES ASSUME w >= i PROVE Same(i)
      OBVIOUS
    <3>1. CASE w = i
      BY <1>2, <3>1
    <3>2. CASE w # i
      <4>1. w >= i + 1 /\ i + 1 <= w
        BY <3>2
      <4>. QED
        BY <1>3, <2>0, <4>1
    <3>. QED
      BY <3>1, <3>2
  <2>7. w >= 7 => Same(7)
    BY <2>0, <2>8
  <2>6. w >= 6 => Same(6)
    BY <2>0, <2>7
  <2>5. w >= 5 => Same(5)
    BY <2>0, <2>6
  <2>4. w >= 4 => Same(4)
    BY <2>0, <2>5
  <2>3. w >= 3 => Same(3)
    BY <2>0, <2>4
  <2>2. w >= 2 => Same(2)
    BY <2>0, <2>3
  <2>1. w >= 1 => Same(1)
    BY <2>0, <2>2
  <2>. QED
    BY <2>1, <2>2, <2>3, <2>4, <2>5, <2>6, <2>7, <2>8
<1>6. \A x \in Nat : x \div 1 = x
  OBVIOUS
<1>. QED
  BY <1>5, <1>6, Weights

\* encode writes what compact_size_decode_u64 reads back, in the bytes that the first of
\* them announces.
LEMMA EncodesItself ==
  ASSUME NEW v \in 0..(Bytes!Radix8 - 1)
  PROVE  /\ Bytes!encode(v) \in Seq(Bytes!Byte) /\ Len(Bytes!encode(v)) \in Nat \ {0}
         /\ Bytes!EncodedLen(Bytes!encode(v)[1]) = Len(Bytes!encode(v))
         /\ Bytes!PayloadValue(Bytes!encode(v)) = v
         /\ Bytes!compact_size_decode_u64(Bytes!encode(v)) = [error |-> "none", value |-> v]
<1>1. /\ Bytes!Radix2 \in Nat /\ Bytes!Radix4 \in Nat /\ Bytes!Radix8 \in Nat /\ Radix \in Nat
      /\ Radix <= Bytes!Radix2 /\ Bytes!Radix2 <= Bytes!Radix4 /\ Bytes!Radix4 <= Bytes!Radix8
      /\ Bytes!PREFIX_U16 \in Nat /\ Bytes!PREFIX_U16 < Radix
  <2>1. \A d \in Nat \ {0} : d <= d * d
    BY ProductGrows
  <2>. QED
    BY <2>1, Weights, RadixAssumption DEF Bytes!Radix2, Bytes!Radix4, Bytes!Radix8, Bytes!PREFIX_U16
<1>2. v \in Nat /\ v < Bytes!Radix8
  BY <1>1
<1>3. ASSUME NEW buf, buf = Bytes!encode(v), buf \in Seq(Bytes!Byte), Len(buf) \in Nat \ {0},
             Bytes!EncodedLen(buf[1]) = Len(buf), Bytes!PayloadValue(buf) = v,
             ~(v < Bytes!LeastValue(Len(buf) - 1))
      PROVE  /\ Bytes!encode(v) \in Seq(Bytes!Byte) /\ Len(Bytes!encode(v)) \in Nat \ {0}
             /\ Bytes!EncodedLen(Bytes!encode(v)[1]) = Len(Bytes!encode(v))
             /\ Bytes!PayloadValue(Bytes!encode(v)) = v
             /\ Bytes!compact_size_decode_u64(Bytes!encode(v)) = [error |-> "none", value |-> v]
  <2>1. buf # <<>>
    BY <1>3
  <2>2. Bytes!compact_size_decode_u64(buf) = [error |-> "none", value |-> v]
    BY ONLY <2>1, <1>3 DEF Bytes!compact_size_decode_u64
  <2>. QED
    BY ONLY <1>3, <2>2
<1>4. CASE v < Bytes!PREFIX_U16
  <2>1. Bytes!encode(v) = <<v>>
    <3>1. v \notin Bytes!PREFIX_U16..(Bytes!Radix2 - 1) /\ v \notin Bytes!Radix2..(Bytes!Radix4 - 1)
      BY <1>1, <1>2, <1>4
    <3>2. <<v>> = CASE v < Bytes!PREFIX_U16 -> <<v>>
                    [] v \in Bytes!PREFIX_U16..(Bytes!Radix2 - 1) -> <<Bytes!PREFIX_U16>> \o Bytes!ToLe(v, 2)
                    [] v \in Bytes!Radix2..(Bytes!Radix4 - 1) -> <<Bytes!PREFIX_U32>> \o Bytes!ToLe(v, 4)
                    [] OTHER -> <<Bytes!PREFIX_U64>> \o Bytes!ToLe(v, 8)
      BY ONLY <1>4, <3>1
    <3>. QED
      BY <3>2 DEF Bytes!encode
  <2>2. v \in Bytes!Byte /\ Bytes!EncodedLen(v) = 1
    <3>1. v \in Bytes!Byte
      BY <1>1, <1>2, <1>4 DEF Bytes!Byte
    <3>2. Bytes!PayloadWidth(v) = 0
      BY <1>4, <3>1, Markers
    <3>. QED
      BY <3>1, <3>2 DEF Bytes!EncodedLen
  <2>3. <<v>> \in Seq(Bytes!Byte) /\ Len(<<v>>) = 1 /\ <<v>>[1] = v
    BY <2>2
  <2>4. Bytes!PayloadValue(<<v>>) = v
    BY <2>3 DEF Bytes!PayloadValue
  <2>5. ~(v < Bytes!LeastValue(Len(<<v>>) - 1))
    BY <1>2, <2>3 DEF Bytes!LeastValue
  <2>6. PICK buf : buf = <<v>>
    OBVIOUS
  <2>7. /\ buf = Bytes!encode(v) /\ buf \in Seq(Bytes!Byte) /\ Len(buf) = 1 /\ buf[1] = v
        /\ Bytes!EncodedLen(v) = 1 /\ Bytes!PayloadValue(buf) = v
        /\ ~(v < Bytes!LeastValue(Len(buf) - 1))
    BY ONLY <2>1, <2>2, <2>3, <2>4, <2>5, <2>6, Zenon
  <2>8. Len(buf) \in Nat \ {0} /\ Bytes!EncodedLen(buf[1]) = Len(buf)
    BY ONLY <2>7
  <2>. QED
    BY ONLY <1>3, <2>7, <2>8, Zenon
<1>5. ASSUME NEW w \in {2, 4, 8}, NEW marker \in Bytes!Byte, Bytes!PayloadWidth(marker) = w,
             Bytes!encode(v) = <<marker>> \o Bytes!ToLe(v, w), v < Bytes!Weight[w] * Radix,
             ~(v < Bytes!LeastValue(w))
      PROVE  /\ Bytes!encode(v) \in Seq(Bytes!Byte) /\ Len(Bytes!encode(v)) \in Nat \ {0}
             /\ Bytes!EncodedLen(Bytes!encode(v)[1]) = Len(Bytes!encode(v))
             /\ Bytes!PayloadValue(Bytes!encode(v)) = v
             /\ Bytes!compact_size_decode_u64(Bytes!encode(v)) = [error |-> "none", value |-> v]
  <2>. DEFINE buf == Bytes!encode(v)
              t == Bytes!ToLe(v, w)
  <2>1. \A i \in 1..w : (v \div Bytes!Weight[i]) % Radix \in Bytes!Byte
    <3>1. \A i \in 1..w : i \in 1..8
      OBVIOUS
    <3>2. \A i \in 1..w : v \div Bytes!Weight[i] \in Nat
      BY <1>2, <3>1, Weights, DivMod
    <3>. QED
      BY <3>2, Weights, DivMod DEF Bytes!Byte
  <2>2. t \in [1..w -> Bytes!Byte] /\ \A i \in 1..w : t[i] = (v \div Bytes!Weight[i]) % Radix
    BY <2>1 DEF Bytes!ToLe
  <2>. HIDE DEF t
  <2>3. t \in Seq(Bytes!Byte) /\ Len(t) = w
    BY <2>2
  <2>4. <<marker>> \in Seq(Bytes!Byte) /\ Len(<<marker>>) = 1 /\ <<marker>>[1] = marker
    BY <1>5
  <2>5. buf = <<marker>> \o t
    BY <1>5 DEF t
  <2>. HIDE DEF buf
  <2>6. /\ buf \in Seq(Bytes!Byte) /\ Len(buf) = 1 + w
        /\ \A i \in 1..(1 + w) : buf[i] = IF i <= 1 THEN <<marker>>[i] ELSE t[i - 1]
    BY ONLY <2>3, <2>4, <2>5, ConcatProperties
  <2>7. buf[1] = marker /\ \A i \in 1..w : buf[i + 1] = t[i]
    <3>1. 1 \in 1..(1 + w) /\ 1 <= 1
      OBVIOUS
    <3>2. \A i \in 1..w : i + 1 \in 1..(1 + w) /\ ~(i + 1 <= 1) /\ (i + 1) - 1 = i
      OBVIOUS
    <3>3. ASSUME NEW i \in 1..w PROVE buf[i + 1] = t[i]
      <4>1. buf[i + 1] = t[(i + 1) - 1]
        BY ONLY <2>6, <3>2, <3>3, Zenon
      <4>. QED
        BY <3>2, <4>1
    <3>4. buf[1] = <<marker>>[1]
      BY ONLY <2>6, <3>1, Zenon
    <3>. QED
      BY <2>4, <3>3, <3>4
  <2>8. Len(buf) = w + 1 /\ Len(buf) \in Nat \ {0} /\ Len(buf) - 1 = w
    BY <2>6
  <2>9. /\ \A i \in 1..w : (Bytes!PayloadValue(buf) \div Bytes!Weight[i]) % Radix = buf[i + 1]
        /\ Bytes!PayloadValue(buf) \in Nat
        /\ Bytes!PayloadValue(buf) < Bytes!Weight[w] * Radix
    <3>1. /\ Bytes!Weight[2] * Radix = Bytes!Radix2 /\ Bytes!Weight[4] * Radix = Bytes!Radix4
          /\ Bytes!Weight[8] * Radix = Bytes!Radix8
      BY Weights
    <3>. QED
      BY <2>6, <2>8, <3>1, Payloads
  <2>10. Bytes!PayloadValue(buf) = v
    <3>1. \A i \in 1..w : (Bytes!PayloadValue(buf) \div Bytes!Weight[i]) % Radix = (v \div Bytes!Weight[i]) % Radix
      BY <2>2, <2>7, <2>9
    <3>2. w \in 1..8
      OBVIOUS
    <3>. QED
      BY ONLY <1>2, <1>5, <2>9, <3>1, <3>2, SameDigits
  <2>11. Bytes!EncodedLen(buf[1]) = Len(buf)
    BY <1>5, <2>7, <2>8 DEF Bytes!EncodedLen
  <2>. QED
    BY <1>3, <1>5, <2>6, <2>8, <2>10, <2>11 DEF buf
<1>6. /\ Bytes!Weight[2] * Radix = Bytes!Radix2 /\ Bytes!Weight[4] * Radix = Bytes!Radix4
      /\ Bytes!Weight[8] * Radix = Bytes!Radix8
      /\ Bytes!LeastValue(2) = Bytes!PREFIX_U16 /\ Bytes!LeastValue(4) = Bytes!Radix2
      /\ Bytes!LeastValue(8) = Bytes!Radix4
      /\ Bytes!PREFIX_U16 \in Bytes!Byte /\ Bytes!PREFIX_U32 \in Bytes!Byte
      /\ Bytes!PREFIX_U64 \in Bytes!Byte
  BY Weights, RadixAssumption DEF Bytes!LeastValue, Bytes!Byte, Bytes!PREFIX_U16, Bytes!PREFIX_U32,
     Bytes!PREFIX_U64
<1>7. /\ Bytes!PayloadWidth(Bytes!PREFIX_U16) = 2 /\ Bytes!PayloadWidth(Bytes!PREFIX_U32) = 4
      /\ Bytes!PayloadWidth(Bytes!PREFIX_U64) = 8
  BY RadixAssumption DEF Bytes!PayloadWidth, Bytes!PREFIX_U16, Bytes!PREFIX_U32, Bytes!PREFIX_U64
<1>8. CASE v \in Bytes!PREFIX_U16..(Bytes!Radix2 - 1)
  <2>1. Bytes!encode(v) = <<Bytes!PREFIX_U16>> \o Bytes!ToLe(v, 2) /\ v < Bytes!Radix2 /\ ~(v < Bytes!PREFIX_U16)
    BY <1>1, <1>8 DEF Bytes!encode
  <2>. QED
    BY <1>5, <1>6, <1>7, <2>1
<1>9. CASE v \in Bytes!Radix2..(Bytes!Radix4 - 1)
  <2>1. Bytes!encode(v) = <<Bytes!PREFIX_U32>> \o Bytes!ToLe(v, 4) /\ v < Bytes!Radix4 /\ ~(v < Bytes!Radix2)
    BY <1>1, <1>9 DEF Bytes!encode
  <2>. QED
    BY <1>5, <1>6, <1>7, <2>1
<1>10. CASE v \in Bytes!Radix4..(Bytes!Radix8 - 1)
  <2>1. Bytes!encode(v) = <<Bytes!PREFIX_U64>> \o Bytes!ToLe(v, 8) /\ ~(v < Bytes!Radix4)
    BY <1>1, <1>10 DEF Bytes!encode
  <2>. QED
    BY <1>2, <1>5, <1>6, <1>7, <2>1
<1>. QED
  BY <1>1, <1>2, <1>4, <1>8, <1>9, <1>10

-----------------------------------------------------------------------------
(* The inductive invariant.                                                *)

\* What a stream announces.
LEMMA StreamFacts ==
  ASSUME Bytes!ByteVecAssumption, stream \in Streams
  PROVE  /\ stream \in Seq(Bytes!Byte) /\ Len(stream) \in Nat /\ stream[1] \in Bytes!Byte
         /\ Bytes!PrefixLen \in {1, 3, 5, 9} /\ Bytes!PrefixLen <= Len(stream)
         /\ Bytes!Total \in Nat /\ Bytes!PrefixLen <= Bytes!Total
         /\ Bytes!Announced.error = "none" =>
              /\ Bytes!Announced.value \in Nat /\ Bytes!Announced.value <= MaxSize
              /\ Bytes!encode(Bytes!Announced.value) = SubSeq(stream, 1, Bytes!PrefixLen)
              /\ Bytes!encoded_size(Bytes!Announced.value) = Bytes!PrefixLen
<1>1. /\ stream \in Seq(Bytes!Byte) /\ Len(stream) > 0 /\ Len(stream) >= Bytes!EncodedLen(stream[1])
      /\ MaxSize \in Nat
  BY DEF Bytes!ByteVecAssumption
<1>2. stream[1] \in Bytes!Byte /\ Len(stream) \in Nat
  BY <1>1
<1>3. Bytes!PrefixLen \in {1, 3, 5, 9} /\ Bytes!PrefixLen <= Len(stream)
  BY <1>1, <1>2, Markers DEF Bytes!PrefixLen
<1>. DEFINE head == SubSeq(stream, 1, Bytes!PrefixLen)
            d == Bytes!compact_size_decode_u64(head)
<1>4. head \in Seq(Bytes!Byte)
  BY <1>1, <1>3
<1>5. ASSUME Bytes!Announced.error = "none"
      PROVE  /\ Bytes!Announced.value \in Nat /\ Bytes!Announced.value <= MaxSize
             /\ Bytes!encode(Bytes!Announced.value) = head
             /\ Bytes!encoded_size(Bytes!Announced.value) = Bytes!PrefixLen
  <2>1. d.error = "none" /\ ~(d.value > MaxSize) /\ Bytes!Announced = d
    BY <1>5 DEF Bytes!Announced, Bytes!DecodeLength
  <2>2. d.value \in Nat /\ Bytes!encode(d.value) = head /\ Bytes!encoded_size(d.value) = Len(head)
    BY <1>4, <2>1, OneEncoding
  <2>3. Len(head) = Bytes!PrefixLen
    BY <1>1, <1>3
  <2>. HIDE DEF head, d
  <2>4. Bytes!Announced.value \in Nat /\ ~(Bytes!Announced.value > MaxSize)
    BY <2>1, <2>2
  <2>. QED
    BY <1>1, <2>1, <2>2, <2>3, <2>4
<1>6. Bytes!Total \in Nat /\ Bytes!PrefixLen <= Bytes!Total
  BY <1>3, <1>5 DEF Bytes!Total
<1>. QED
  BY <1>1, <1>2, <1>3, <1>5, <1>6

\* The prefix is what the stream begins with, as far as it has been taken.
PrefixInv ==
  in_prefix =>
    /\ prefix = SubSeq(stream, 1, pos) /\ pos < Bytes!PrefixLen
    /\ buffer = <<>> /\ bytes_expected = 0 /\ capacity = 0
    /\ phase \in {"more", "err"}

\* The length is the one announced, and the buffer is the part of it that has been taken.
PayloadInv ==
  ~in_prefix =>
    /\ phase = "failed" =>
         Bytes!Announced.error # "none" /\ pos = Bytes!PrefixLen /\ bytes_expected = 0 /\ buffer = <<>>
    /\ phase # "failed" =>
         /\ Bytes!Announced.error = "none" /\ bytes_expected = Bytes!Announced.value
         /\ pos = Bytes!PrefixLen + Len(buffer)
         /\ buffer = SubSeq(stream, Bytes!PrefixLen + 1, pos)
         /\ Len(buffer) = bytes_expected <=> phase \in {"ready", "ok"}

ByteVecInv == stream \in Streams /\ Bytes!ByteVecTypeOK /\ PrefixInv /\ PayloadInv

LEMMA BytesInitEstablishes == ASSUME Bytes!ByteVecAssumption, Bytes!ByteVecInit PROVE ByteVecInv
<1>1. /\ stream \in Streams /\ pos = 0 /\ phase = "more" /\ in_prefix = TRUE /\ prefix = <<>>
      /\ bytes_expected = 0 /\ buffer = <<>> /\ capacity = 0
  BY DEF Bytes!ByteVecInit
<1>2. /\ stream \in Seq(Bytes!Byte) /\ Len(stream) \in Nat /\ Bytes!PrefixLen > 0 /\ MaxSize \in Nat
      /\ MAX_VECTOR_ALLOCATE \in Nat
  BY <1>1, StreamFacts DEF Bytes!ByteVecAssumption
<1>3. SubSeq(stream, 1, 0) = <<>>
  BY SubSeqEmpty
<1>4. 0 \in 0..Bytes!Lesser(0 + MAX_VECTOR_ALLOCATE, 0)
  BY <1>2 DEF Bytes!Lesser
<1>5. Bytes!ByteVecTypeOK
  BY <1>1, <1>2, <1>4 DEF Bytes!ByteVecTypeOK, Bytes!bytes_written, Bytes!Contract!Phases
<1>. QED
  BY <1>1, <1>2, <1>3, <1>5 DEF ByteVecInv, PrefixInv, PayloadInv

-----------------------------------------------------------------------------
(* Every action keeps the invariant.                                       *)

LEMMA LesserIs ==
  \A a, b \in Nat : Bytes!Lesser(a, b) \in Nat /\ Bytes!Lesser(a, b) <= a /\ Bytes!Lesser(a, b) <= b
                    /\ (Bytes!Lesser(a, b) = a \/ Bytes!Lesser(a, b) = b)
BY DEF Bytes!Lesser

LEMMA RoomIs ==
  /\ \A a, m, e \in Nat : \A c \in a..Bytes!Lesser(a + m, e) : c \in Nat /\ a <= e /\ a <= c /\ c <= e
  /\ \A m, e \in Nat : 0 \in 0..Bytes!Lesser(0 + m, e)
BY DEF Bytes!Lesser

LEMMA PieceLength ==
  \A s \in Seq(Bytes!Byte) : \A m, t \in Nat :
    m > 0 /\ m <= t + 1 /\ t <= Len(s) =>
      SubSeq(s, m, t) \in Seq(Bytes!Byte) /\ Len(SubSeq(s, m, t)) = t + 1 - m
OBVIOUS

\* Adjacent pieces of a sequence.
LEMMA Glue ==
  \A s \in Seq(Bytes!Byte) : \A m, k, t \in Nat :
    m > 0 /\ m <= k + 1 /\ k <= t /\ t <= Len(s) =>
      SubSeq(s, m, k) \o SubSeq(s, k + 1, t) = SubSeq(s, m, t)
<1>. TAKE s \in Seq(Bytes!Byte), m \in Nat, k \in Nat, t \in Nat
<1>. HAVE m > 0 /\ m <= k + 1 /\ k <= t /\ t <= Len(s)
<1>1. m \in 1..(Len(s) + 1) /\ k \in (m - 1)..Len(s) /\ t \in k..Len(s)
  OBVIOUS
<1>. QED
  BY <1>1, ConcatAdjacentSubSeq

\* What the prefix decoder takes of a slice.
LEMMA PrefixTaken ==
  ASSUME Bytes!ByteVecAssumption, ByteVecInv, in_prefix, NEW n \in 0..(Len(stream) - pos)
  PROVE  /\ Bytes!PrefixTakes(n) \in 0..n /\ pos + Bytes!PrefixTakes(n) <= Bytes!PrefixLen
         /\ n > 0 => Bytes!PrefixTakes(n) > 0
         /\ Bytes!PrefixTakes(n) = n \/ pos + Bytes!PrefixTakes(n) = Bytes!PrefixLen
         /\ pos \in Nat /\ Len(prefix) = pos
         /\ Bytes!PrefixWith(n) = SubSeq(stream, 1, pos + Bytes!PrefixTakes(n))
         /\ Bytes!PrefixWith(n) \in Seq(Bytes!Byte)
         /\ Bytes!PrefixReady(n) <=> n > 0 /\ pos + Bytes!PrefixTakes(n) = Bytes!PrefixLen
         /\ Bytes!PrefixReady(n) => Bytes!LengthRead(n) = Bytes!Announced
<1>1. /\ stream \in Seq(Bytes!Byte) /\ Len(stream) \in Nat /\ Bytes!PrefixLen \in Nat
      /\ Bytes!PrefixLen <= Len(stream)
      /\ pos \in Nat /\ pos < Bytes!PrefixLen /\ prefix = SubSeq(stream, 1, pos) /\ n \in Nat
  BY StreamFacts DEF ByteVecInv, Bytes!ByteVecTypeOK, PrefixInv
<1>2. Len(prefix) = pos
  BY <1>1
<1>3. /\ Bytes!PrefixTakes(n) \in 0..n /\ pos + Bytes!PrefixTakes(n) <= Bytes!PrefixLen
      /\ n > 0 => Bytes!PrefixTakes(n) > 0
      /\ Bytes!PrefixTakes(n) = n \/ pos + Bytes!PrefixTakes(n) = Bytes!PrefixLen
  BY <1>1, <1>2 DEF Bytes!PrefixTakes, Bytes!compact_size_push_bytes, Bytes!PrefixLen
<1>4. Bytes!PrefixWith(n) = SubSeq(stream, 1, pos + Bytes!PrefixTakes(n))
  <2>1. pos + 0 + 1 = pos + 1 /\ pos + 0 + Bytes!PrefixTakes(n) = pos + Bytes!PrefixTakes(n)
    BY <1>1, <1>3
  <2>2. Bytes!Offered(0, Bytes!PrefixTakes(n)) = SubSeq(stream, pos + 1, pos + Bytes!PrefixTakes(n))
    BY ONLY <2>1 DEF Bytes!Offered
  <2>3. Bytes!PrefixWith(n) = SubSeq(stream, 1, pos) \o SubSeq(stream, pos + 1, pos + Bytes!PrefixTakes(n))
    BY ONLY <1>1, <2>2, Zenon DEF Bytes!PrefixWith
  <2>4. /\ stream \in Seq(Bytes!Byte) /\ 1 \in Nat /\ pos \in Nat
        /\ pos + Bytes!PrefixTakes(n) \in Nat
        /\ 1 > 0 /\ 1 <= pos + 1 /\ pos <= pos + Bytes!PrefixTakes(n)
        /\ pos + Bytes!PrefixTakes(n) <= Len(stream)
    BY <1>1, <1>3
  <2>5. SubSeq(stream, 1, pos) \o SubSeq(stream, pos + 1, pos + Bytes!PrefixTakes(n))
          = SubSeq(stream, 1, pos + Bytes!PrefixTakes(n))
    BY ONLY <2>4, Glue, Zenon
  <2>. QED
    BY <2>3, <2>5
<1>5. Bytes!PrefixWith(n) \in Seq(Bytes!Byte) /\ Len(Bytes!PrefixWith(n)) = pos + Bytes!PrefixTakes(n)
  BY <1>1, <1>3, <1>4
<1>6. Bytes!PrefixReady(n) <=> n > 0 /\ pos + Bytes!PrefixTakes(n) = Bytes!PrefixLen
  BY <1>5 DEF Bytes!PrefixReady, Bytes!PrefixLen
<1>7. Bytes!PrefixReady(n) => Bytes!LengthRead(n) = Bytes!Announced
  BY <1>4, <1>6 DEF Bytes!LengthRead, Bytes!Announced
<1>. QED
  BY <1>1, <1>2, <1>3, <1>4, <1>5, <1>6, <1>7

\* What reserving and copying come to, wherever the payload stands.
LEMMA CopyEffect ==
  ASSUME Bytes!ByteVecAssumption, NEW n \in Nat, NEW expected \in Nat, buffer \in Seq(Bytes!Byte),
         Len(buffer) <= expected,
         capacity \in Len(buffer)..Bytes!Lesser(Len(buffer) + MAX_VECTOR_ALLOCATE, expected)
  PROVE  /\ Bytes!copy_len(n, expected) \in 0..n
         /\ Len(buffer) + Bytes!copy_len(n, expected) <= expected
         /\ n > 0 /\ Len(buffer) < expected => Bytes!copy_len(n, expected) > 0
         /\ Bytes!Reserved(Bytes!bytes_written, expected)
              \in (Len(buffer) + Bytes!copy_len(n, expected))
                  ..Bytes!Lesser(Len(buffer) + Bytes!copy_len(n, expected) + MAX_VECTOR_ALLOCATE, expected)
<1>1. MAX_VECTOR_ALLOCATE \in Nat /\ MAX_VECTOR_ALLOCATE > 0 /\ Len(buffer) \in Nat
  BY DEF Bytes!ByteVecAssumption
<1>. DEFINE cap == Bytes!Reserved(Bytes!bytes_written, expected)
<1>2. capacity \in Nat /\ Len(buffer) <= capacity
  BY <1>1, LesserIs
<1>3. /\ cap \in Nat /\ Len(buffer) <= cap /\ cap <= expected
      /\ cap <= Len(buffer) + MAX_VECTOR_ALLOCATE
      /\ Len(buffer) < expected => cap > Len(buffer)
  BY <1>1, <1>2 DEF Bytes!Reserved, Bytes!Lesser, Bytes!bytes_written
<1>. HIDE DEF cap
<1>4. Bytes!copy_len(n, expected) = Bytes!Lesser(Bytes!Lesser(n, expected - Len(buffer)), cap - Len(buffer))
  BY DEF Bytes!copy_len, cap, Bytes!bytes_written
<1>5. /\ Bytes!copy_len(n, expected) \in 0..n
      /\ Len(buffer) + Bytes!copy_len(n, expected) <= expected
      /\ n > 0 /\ Len(buffer) < expected => Bytes!copy_len(n, expected) > 0
      /\ Len(buffer) + Bytes!copy_len(n, expected) <= cap
  BY <1>1, <1>3, <1>4 DEF Bytes!Lesser
<1>6. cap \in (Len(buffer) + Bytes!copy_len(n, expected))
              ..Bytes!Lesser(Len(buffer) + Bytes!copy_len(n, expected) + MAX_VECTOR_ALLOCATE, expected)
  BY <1>1, <1>3, <1>5 DEF Bytes!Lesser
<1>. QED
  BY <1>5, <1>6 DEF cap

\* Reserving and copying keep the invariant: the buffer stays the payload so far.
LEMMA BytesCopyKeeps ==
  ASSUME Bytes!ByteVecAssumption, ByteVecInv, Bytes!Calling, Bytes!Announced.error = "none",
         NEW n \in Nat, NEW skip \in Nat, NEW expected \in Nat, expected = Bytes!Announced.value,
         pos + skip = Bytes!PrefixLen + Len(buffer), buffer = SubSeq(stream, Bytes!PrefixLen + 1, pos + skip),
         Len(buffer) <= expected, pos + skip + n <= Len(stream),
         capacity \in Len(buffer)..Bytes!Lesser(Len(buffer) + MAX_VECTOR_ALLOCATE, expected),
         Bytes!CopyPayload(n, skip, expected)
  PROVE  ByteVecInv'
<1>. DEFINE c == Bytes!copy_len(n, expected)
            from == pos + skip
<1>1. /\ stream \in Seq(Bytes!Byte) /\ Len(stream) \in Nat /\ Bytes!PrefixLen \in {1, 3, 5, 9}
      /\ expected <= MaxSize /\ MaxSize \in Nat /\ pos \in Nat
      /\ buffer \in Seq(Bytes!Byte) /\ Len(buffer) \in Nat
  <2>1. stream \in Streams /\ pos \in Nat /\ buffer \in Seq(Bytes!Byte) /\ MaxSize \in Nat
    BY DEF ByteVecInv, Bytes!ByteVecTypeOK, Bytes!ByteVecAssumption
  <2>2. Len(buffer) \in Nat
    BY <2>1
  <2>. QED
    BY <2>1, <2>2, StreamFacts
<1>2. /\ c \in 0..n /\ Len(buffer) + c <= expected
      /\ Bytes!Reserved(Bytes!bytes_written, expected)
           \in (Len(buffer) + c)..Bytes!Lesser(Len(buffer) + c + MAX_VECTOR_ALLOCATE, expected)
  BY <1>1, CopyEffect
<1>. HIDE DEF c
<1>3. /\ capacity' = Bytes!Reserved(Bytes!bytes_written, expected)
      /\ buffer' = buffer \o SubSeq(stream, pos + skip + 1, pos + skip + c)
      /\ pos' = pos + skip + c
      /\ phase' = IF Len(buffer) + c < expected THEN "more" ELSE "ready"
      /\ bytes_expected' = expected /\ in_prefix' = FALSE /\ prefix' = <<>> /\ stream' = stream
  BY DEF Bytes!CopyPayload, Bytes!Offered, Bytes!Status, Bytes!bytes_written, c
<1>4. /\ stream \in Seq(Bytes!Byte) /\ Bytes!PrefixLen + 1 \in Nat /\ from \in Nat
      /\ from + c \in Nat
      /\ Bytes!PrefixLen + 1 > 0 /\ Bytes!PrefixLen + 1 <= from + 1 /\ from <= from + c
      /\ from + c <= Len(stream)
  BY <1>1, <1>2
<1>5. buffer' = SubSeq(stream, Bytes!PrefixLen + 1, from + c)
  <2>1. SubSeq(stream, Bytes!PrefixLen + 1, from) \o SubSeq(stream, from + 1, from + c)
          = SubSeq(stream, Bytes!PrefixLen + 1, from + c)
    BY ONLY <1>4, Glue, Zenon
  <2>. QED
    BY <1>3, <2>1
<1>6. buffer' \in Seq(Bytes!Byte) /\ Len(buffer') = Len(buffer) + c
  <2>1. Len(SubSeq(stream, Bytes!PrefixLen + 1, from + c)) = (from + c) + 1 - (Bytes!PrefixLen + 1)
    BY <1>1, <1>4, PieceLength
  <2>2. from = Bytes!PrefixLen + Len(buffer)
    OBVIOUS
  <2>3. (from + c) + 1 - (Bytes!PrefixLen + 1) = Len(buffer) + c
    BY <1>1, <1>2, <2>2
  <2>. QED
    BY <1>1, <1>4, <1>5, <2>1, <2>3, PieceLength
<1>7. /\ Bytes!PrefixLen' = Bytes!PrefixLen /\ Bytes!Announced' = Bytes!Announced
  BY <1>3 DEF Bytes!PrefixLen, Bytes!Announced
<1>8. pos' \in 0..Len(stream) /\ pos' = Bytes!PrefixLen + Len(buffer')
  BY <1>1, <1>2, <1>3, <1>4, <1>6
<1>9. phase' \in {"more", "ready"} /\ (Len(buffer') = expected <=> phase' = "ready")
  <2>1. phase' \in {"more", "ready"}
    BY <1>3
  <2>2. PICK k \in Nat : k = Len(buffer) + c
    <3>1. c \in Nat
      BY <1>2
    <3>2. Len(buffer) + c \in Nat
      BY ONLY <1>1, <3>1
    <3>. QED
      BY ONLY <3>2, Zenon
  <2>3. k <= expected /\ phase' = IF k < expected THEN "more" ELSE "ready"
    BY ONLY <1>2, <1>3, <2>2
  <2>4. k = expected <=> phase' = "ready"
    BY ONLY <2>3, expected \in Nat, k \in Nat
  <2>. QED
    BY <1>6, <2>1, <2>2, <2>4
<1>10. Bytes!ByteVecTypeOK'
  <2>1. /\ stream' \in Seq(Bytes!Byte) /\ pos' \in 0..Len(stream') /\ in_prefix' \in BOOLEAN
        /\ prefix' \in Seq(Bytes!Byte)
    <3>1. <<>> \in Seq(Bytes!Byte)
      OBVIOUS
    <3>. QED
      BY ONLY <1>1, <1>3, <1>8, <3>1
  <2>2. phase' \in Bytes!Contract!Phases
    BY <1>9 DEF Bytes!Contract!Phases
  <2>3. bytes_expected' \in 0..MaxSize
    BY <1>1, <1>3
  <2>4. capacity' \in Len(buffer')..Bytes!Lesser(Len(buffer') + MAX_VECTOR_ALLOCATE, bytes_expected')
    BY <1>2, <1>3, <1>6
  <2>. QED
    BY <1>6, <2>1, <2>2, <2>3, <2>4 DEF Bytes!ByteVecTypeOK, Bytes!bytes_written
<1>11. PrefixInv'
  BY <1>3 DEF PrefixInv
<1>12. PayloadInv'
  BY <1>3, <1>5, <1>7, <1>8, <1>9 DEF PayloadInv
<1>. QED
  BY <1>3, <1>10, <1>11, <1>12 DEF ByteVecInv

LEMMA BytesPushKeeps ==
  ASSUME Bytes!ByteVecAssumption, ByteVecInv, NEW n \in 0..(Len(stream) - pos), Bytes!Push(n)
  PROVE  ByteVecInv'
<1>1. /\ stream \in Seq(Bytes!Byte) /\ Len(stream) \in Nat /\ Bytes!PrefixLen \in Nat
      /\ MaxSize \in Nat
      /\ MAX_VECTOR_ALLOCATE \in Nat
      /\ n \in Nat /\ pos \in Nat /\ pos + n <= Len(stream) /\ pos <= Len(stream)
      /\ buffer \in Seq(Bytes!Byte) /\ prefix \in Seq(Bytes!Byte)
  BY StreamFacts DEF ByteVecInv, Bytes!ByteVecTypeOK, Bytes!ByteVecAssumption
<1>2. CASE Bytes!PushPrefix(n)
  <2>1. /\ in_prefix /\ ~Bytes!PrefixReady(n) /\ prefix' = Bytes!PrefixWith(n)
        /\ pos' = pos + Bytes!PrefixTakes(n)
        /\ phase' = "more"
        /\ UNCHANGED <<stream, in_prefix, bytes_expected, buffer, capacity>>
    BY <1>2 DEF Bytes!PushPrefix
  <2>2. /\ Bytes!PrefixTakes(n) \in 0..n /\ pos + Bytes!PrefixTakes(n) < Bytes!PrefixLen
        /\ Bytes!PrefixWith(n) = SubSeq(stream, 1, pos + Bytes!PrefixTakes(n))
        /\ Bytes!PrefixWith(n) \in Seq(Bytes!Byte)
    <3>1. n = 0 => Bytes!PrefixTakes(n) = 0 /\ pos < Bytes!PrefixLen
      BY <2>1, PrefixTaken DEF ByteVecInv, PrefixInv
    <3>. QED
      BY <1>1, <2>1, <3>1, PrefixTaken
  <2>3. Bytes!PrefixLen' = Bytes!PrefixLen /\ pos' \in 0..Len(stream)
    <3>1. Bytes!PrefixLen' = Bytes!PrefixLen
      BY <2>1, Zenon DEF Bytes!PrefixLen
    <3>2. pos + Bytes!PrefixTakes(n) \in 0..Len(stream)
      BY ONLY <1>1, <2>2
    <3>. QED
      BY <2>1, <3>1, <3>2, Zenon
  <2>4. Bytes!ByteVecTypeOK'
    BY <2>1, <2>2, <2>3 DEF ByteVecInv, Bytes!ByteVecTypeOK, Bytes!Contract!Phases,
       Bytes!bytes_written
  <2>5. PrefixInv'
    BY <2>1, <2>2, <2>3 DEF ByteVecInv, PrefixInv
  <2>. QED
    BY <2>1, <2>4, <2>5 DEF ByteVecInv, PayloadInv
<1>3. CASE Bytes!PushBadPrefix(n)
  <2>1. /\ in_prefix /\ Bytes!PrefixReady(n) /\ Bytes!LengthRead(n).error # "none"
        /\ in_prefix' = FALSE
        /\ prefix' = <<>> /\ pos' = pos + Bytes!PrefixTakes(n) /\ phase' = "failed"
        /\ UNCHANGED <<stream, bytes_expected, buffer, capacity>>
    BY <1>3 DEF Bytes!PushBadPrefix
  <2>2. Bytes!PrefixTakes(n) \in 0..n /\ pos' = Bytes!PrefixLen /\ Bytes!Announced.error # "none"
    BY <2>1, PrefixTaken
  <2>3. Bytes!PrefixLen' = Bytes!PrefixLen /\ Bytes!Announced' = Bytes!Announced /\ pos' \in 0..Len(stream)
    BY <1>1, <2>1, <2>2 DEF Bytes!PrefixLen, Bytes!Announced
  <2>4. Bytes!ByteVecTypeOK'
    <3>1. <<>> \in Seq(Bytes!Byte) /\ FALSE \in BOOLEAN
      OBVIOUS
    <3>2. "failed" \in Bytes!Contract!Phases
      BY DEF Bytes!Contract!Phases
    <3>. QED
      BY <2>1, <2>3, <3>1, <3>2 DEF ByteVecInv, Bytes!ByteVecTypeOK, Bytes!bytes_written
  <2>5. PayloadInv'
    BY <2>1, <2>2, <2>3 DEF ByteVecInv, PrefixInv, PayloadInv
  <2>. QED
    BY <2>1, <2>4, <2>5 DEF ByteVecInv, PrefixInv
<1>4. CASE Bytes!PushPayload(n) /\ in_prefix
  <2>1. /\ Bytes!Calling /\ Bytes!PrefixReady(n) /\ Bytes!LengthRead(n).error = "none"
        /\ Bytes!CopyPayload(n - Bytes!PrefixTakes(n), Bytes!PrefixTakes(n), Bytes!LengthRead(n).value)
    BY <1>4 DEF Bytes!PushPayload
  <2>2. /\ Bytes!PrefixTakes(n) \in 0..n /\ pos + Bytes!PrefixTakes(n) = Bytes!PrefixLen
        /\ Bytes!LengthRead(n) = Bytes!Announced
    BY <1>4, <2>1, PrefixTaken
  <2>3. /\ Bytes!Announced.value \in Nat /\ n - Bytes!PrefixTakes(n) \in Nat
        /\ Bytes!PrefixTakes(n) \in Nat
        /\ pos + Bytes!PrefixTakes(n) + (n - Bytes!PrefixTakes(n)) <= Len(stream)
    BY <1>1, <2>1, <2>2, StreamFacts DEF ByteVecInv
  <2>4. buffer = <<>> /\ capacity = 0 /\ Len(buffer) = 0
    BY <1>4 DEF ByteVecInv, PrefixInv
  <2>5. SubSeq(stream, Bytes!PrefixLen + 1, Bytes!PrefixLen) = <<>>
    BY <1>1, SubSeqEmpty
  <2>6. capacity \in Len(buffer)..Bytes!Lesser(Len(buffer) + MAX_VECTOR_ALLOCATE, Bytes!Announced.value)
    BY <1>1, <2>3, <2>4, RoomIs
  <2>. QED
    BY <1>1, <2>1, <2>2, <2>3, <2>4, <2>5, <2>6, BytesCopyKeeps
<1>5. CASE Bytes!PushPayload(n) /\ ~in_prefix
  <2>1. Bytes!Calling /\ Bytes!CopyPayload(n, 0, bytes_expected)
    BY <1>5 DEF Bytes!PushPayload
  <2>2. /\ Bytes!Announced.error = "none" /\ bytes_expected = Bytes!Announced.value
        /\ pos = Bytes!PrefixLen + Len(buffer) /\ buffer = SubSeq(stream, Bytes!PrefixLen + 1, pos)
    BY <1>5, <2>1 DEF ByteVecInv, PayloadInv, Bytes!Calling
  <2>3. /\ bytes_expected \in Nat /\ pos + 0 = pos
        /\ capacity \in Len(buffer)..Bytes!Lesser(Len(buffer) + MAX_VECTOR_ALLOCATE, bytes_expected)
    BY <1>1 DEF ByteVecInv, Bytes!ByteVecTypeOK, Bytes!bytes_written
  <2>4. Len(buffer) <= bytes_expected
    <3>1. Len(buffer) \in Nat
      BY <1>1
    <3>. QED
      BY ONLY <1>1, <2>3, <3>1, RoomIs
  <2>. QED
    BY <1>1, <2>1, <2>2, <2>3, <2>4, BytesCopyKeeps
<1>. QED
  BY <1>2, <1>3, <1>4, <1>5 DEF Bytes!Push

LEMMA BytesStepKeeps ==
  ASSUME Bytes!ByteVecAssumption, ByteVecInv, [Bytes!ByteVecNext]_(Bytes!vars)
  PROVE  ByteVecInv'
<1>1. CASE \E n \in 0..(Len(stream) - pos) : Bytes!Push(n)
  BY <1>1, BytesPushKeeps
<1>2. CASE Bytes!ByteVecEnd
  <2>1. /\ Bytes!Calling /\ phase' = IF ~in_prefix /\ Len(buffer) = bytes_expected THEN "ok" ELSE "err"
        /\ UNCHANGED <<stream, pos, in_prefix, prefix, bytes_expected, buffer, capacity>>
    BY <1>2 DEF Bytes!ByteVecEnd, Bytes!bytes_written
  <2>2. Bytes!ByteVecTypeOK'
    BY <2>1 DEF ByteVecInv, Bytes!ByteVecTypeOK, Bytes!bytes_written, Bytes!Contract!Phases
  <2>3. Bytes!PrefixLen' = Bytes!PrefixLen /\ Bytes!Announced' = Bytes!Announced
    BY <2>1 DEF Bytes!PrefixLen, Bytes!Announced
  <2>4. PrefixInv' /\ PayloadInv'
    BY <2>1, <2>3 DEF ByteVecInv, PrefixInv, PayloadInv, Bytes!Calling
  <2>. QED
    BY <2>1, <2>2, <2>4 DEF ByteVecInv
<1>3. CASE UNCHANGED Bytes!vars
  BY <1>3 DEF ByteVecInv, Bytes!ByteVecTypeOK, PrefixInv, PayloadInv, Bytes!vars,
     Bytes!bytes_written, Bytes!PrefixLen,
     Bytes!Announced
<1>. QED
  BY <1>1, <1>2, <1>3 DEF Bytes!ByteVecNext, Bytes!Returned

-----------------------------------------------------------------------------
(* The refinement of the trait's contract.                                 *)

\* What the decoder's place in the stream says about it, in the contract's terms.
BytesStanding ==
  /\ Bytes!Total \in Nat /\ pos \in 0..Bytes!Total
  /\ phase = "more" => pos < Bytes!Total /\ Bytes!read_limit \in 1..(Bytes!Total - pos)
  /\ phase = "ready" => pos = Bytes!Total /\ Bytes!Verdict = "ok" /\ Bytes!read_limit = 0
  /\ phase = "failed" => pos = Bytes!Total /\ Bytes!Verdict = "badpush"
  /\ Bytes!Calling =>
       (pos = Bytes!Total /\ Bytes!Verdict = "ok"
          <=> ~in_prefix /\ Bytes!bytes_written = bytes_expected)

LEMMA BytesInvStanding == ASSUME Bytes!ByteVecAssumption, ByteVecInv PROVE BytesStanding
<1>1. /\ stream \in Seq(Bytes!Byte) /\ Len(stream) \in Nat /\ Bytes!PrefixLen \in Nat /\ pos \in Nat
      /\ Bytes!Total \in Nat /\ Bytes!PrefixLen <= Bytes!Total /\ Bytes!PrefixLen <= Len(stream)
  BY StreamFacts DEF ByteVecInv, Bytes!ByteVecTypeOK
<1>2. CASE in_prefix
  <2>1. prefix = SubSeq(stream, 1, pos) /\ pos < Bytes!PrefixLen /\ phase \in {"more", "err"}
    BY <1>2 DEF ByteVecInv, PrefixInv
  <2>2. Len(prefix) = pos
    BY <1>1, <2>1
  <2>3. Bytes!read_limit \in 1..(Bytes!Total - pos)
    <3>1. CASE pos = 0
      <4>1. prefix = <<>>
        BY <2>1, <3>1, SubSeqEmpty
      <4>. QED
        BY <1>1, <1>2, <2>1, <3>1, <4>1 DEF Bytes!read_limit, Bytes!compact_size_read_limit
    <3>2. CASE pos # 0
      <4>1. prefix # <<>>
        BY <2>2, <3>2
      <4>2. prefix[1] = stream[1]
        BY <1>1, <2>1, <3>2
      <4>3. Bytes!read_limit = Bytes!PrefixLen - pos
        BY <1>2, <2>2, <4>1, <4>2 DEF Bytes!read_limit, Bytes!compact_size_read_limit,
           Bytes!PrefixLen
      <4>. QED
        BY <1>1, <2>1, <4>3
    <3>. QED
      BY <3>1, <3>2
  <2>. QED
    BY <1>1, <1>2, <2>1, <2>3 DEF BytesStanding
<1>3. CASE ~in_prefix /\ phase = "failed"
  BY <1>1, <1>3 DEF ByteVecInv, PayloadInv, BytesStanding, Bytes!Total, Bytes!Verdict, Bytes!Calling
<1>4. CASE ~in_prefix /\ phase # "failed"
  <2>1. /\ Bytes!Announced.error = "none" /\ bytes_expected = Bytes!Announced.value
        /\ pos = Bytes!PrefixLen + Len(buffer)
        /\ Len(buffer) = bytes_expected <=> phase \in {"ready", "ok"}
    BY <1>4 DEF ByteVecInv, PayloadInv
  <2>2. Bytes!Total = Bytes!PrefixLen + bytes_expected /\ Bytes!Verdict = "ok"
    BY <2>1 DEF Bytes!Total, Bytes!Verdict
  <2>3. bytes_expected \in Nat /\ Len(buffer) \in Nat /\ Len(buffer) <= bytes_expected
    <3>1. /\ Len(buffer) \in Nat /\ bytes_expected \in Nat /\ MAX_VECTOR_ALLOCATE \in Nat
          /\ capacity \in Len(buffer)..Bytes!Lesser(Len(buffer) + MAX_VECTOR_ALLOCATE, bytes_expected)
      BY DEF ByteVecInv, Bytes!ByteVecTypeOK, Bytes!bytes_written, Bytes!ByteVecAssumption
    <3>. QED
      BY ONLY <3>1, RoomIs
  <2>4. Bytes!read_limit = bytes_expected - Len(buffer)
    BY <1>4 DEF Bytes!read_limit, Bytes!bytes_written
  <2>5. Bytes!Calling => (pos = Bytes!Total <=> Len(buffer) = bytes_expected)
    BY <1>1, <2>1, <2>2, <2>3
  <2>6. pos <= Bytes!Total /\ (phase \in {"ready", "ok"} <=> pos = Bytes!Total)
    BY ONLY <1>1, <2>1, <2>2, <2>3
  <2>7. phase = "more" => pos < Bytes!Total /\ Bytes!read_limit \in 1..(Bytes!Total - pos)
    BY ONLY <1>1, <2>1, <2>2, <2>3, <2>4
  <2>8. phase = "ready" => pos = Bytes!Total /\ Bytes!read_limit = 0
    BY ONLY <1>1, <2>1, <2>2, <2>3, <2>4
  <2>. QED
    BY <1>1, <1>4, <2>2, <2>5, <2>6, <2>7, <2>8 DEF BytesStanding, Bytes!bytes_written
<1>. QED
  BY <1>2, <1>3, <1>4

\* A push goes forward, and once the decoder is complete it changes nothing.
LEMMA BytesPushEffect ==
  ASSUME Bytes!ByteVecAssumption, ByteVecInv, NEW n \in 0..(Len(stream) - pos), Bytes!Push(n)
  PROVE  /\ stream' = stream /\ Bytes!Calling /\ phase' \in {"more", "ready", "failed"}
         /\ \E c \in Nat : pos' = pos + c /\ (phase = "ready" => c = 0)
         /\ phase = "ready" => phase' = "ready"
<1>1. n \in Nat /\ pos \in Nat
  BY DEF ByteVecInv, Bytes!ByteVecTypeOK
<1>2. CASE Bytes!PushPrefix(n) \/ Bytes!PushBadPrefix(n)
  <2>1. in_prefix /\ pos' = pos + Bytes!PrefixTakes(n) /\ phase' \in {"more", "failed"} /\ stream' = stream
        /\ Bytes!Calling
    BY <1>2 DEF Bytes!PushPrefix, Bytes!PushBadPrefix
  <2>2. Bytes!PrefixTakes(n) \in Nat /\ phase # "ready"
    BY <2>1, PrefixTaken DEF ByteVecInv, PrefixInv
  <2>. QED
    BY <2>1, <2>2
<1>3. CASE Bytes!PushPayload(n) /\ in_prefix
  <2>1. /\ Bytes!PrefixReady(n) /\ Bytes!LengthRead(n).error = "none"
        /\ Bytes!CopyPayload(n - Bytes!PrefixTakes(n), Bytes!PrefixTakes(n), Bytes!LengthRead(n).value)
        /\ buffer = <<>> /\ capacity = 0 /\ phase # "ready" /\ Bytes!Calling
    BY <1>3 DEF Bytes!PushPayload, ByteVecInv, PrefixInv
  <2>. DEFINE k == n - Bytes!PrefixTakes(n)
              e == Bytes!Announced.value
  <2>2. /\ Bytes!PrefixTakes(n) \in Nat /\ k \in Nat /\ Bytes!LengthRead(n) = Bytes!Announced
        /\ e \in Nat
    <3>1. Bytes!PrefixTakes(n) \in 0..n /\ Bytes!LengthRead(n) = Bytes!Announced
      BY <1>3, <2>1, PrefixTaken
    <3>2. e \in Nat
      BY <2>1, <3>1, StreamFacts DEF ByteVecInv
    <3>. QED
      BY <1>1, <3>1, <3>2
  <2>3. Len(buffer) = 0 /\ buffer \in Seq(Bytes!Byte) /\ Len(buffer) <= e
    BY <2>1, <2>2
  <2>4. capacity \in Len(buffer)..Bytes!Lesser(Len(buffer) + MAX_VECTOR_ALLOCATE, e)
    BY <2>1, <2>2, <2>3, RoomIs DEF Bytes!ByteVecAssumption
  <2>5. Bytes!copy_len(k, e) \in Nat
    <3>. HIDE DEF k, e
    <3>1. Bytes!copy_len(k, e) \in 0..k
      BY <2>2, <2>3, <2>4, CopyEffect
    <3>. QED
      BY <2>2, <3>1
  <2>6. /\ pos' = pos + Bytes!PrefixTakes(n) + Bytes!copy_len(k, e) /\ stream' = stream
        /\ phase' \in {"more", "ready"}
    BY <2>1, <2>2 DEF Bytes!CopyPayload, Bytes!Status
  <2>7. \E c \in Nat : pos' = pos + c
    <3>1. /\ Bytes!PrefixTakes(n) + Bytes!copy_len(k, e) \in Nat
          /\ pos' = pos + (Bytes!PrefixTakes(n) + Bytes!copy_len(k, e))
      BY <1>1, <2>2, <2>5, <2>6
    <3>. QED
      BY ONLY <3>1, Zenon
  <2>. QED
    BY <2>1, <2>6, <2>7
<1>4. CASE Bytes!PushPayload(n) /\ ~in_prefix
  <2>1. Bytes!CopyPayload(n, 0, bytes_expected) /\ Bytes!Calling
    BY <1>4 DEF Bytes!PushPayload
  <2>2. /\ bytes_expected \in Nat /\ buffer \in Seq(Bytes!Byte) /\ MAX_VECTOR_ALLOCATE \in Nat
        /\ capacity \in Len(buffer)..Bytes!Lesser(Len(buffer) + MAX_VECTOR_ALLOCATE, bytes_expected)
    BY DEF ByteVecInv, Bytes!ByteVecTypeOK, Bytes!bytes_written, Bytes!ByteVecAssumption
  <2>3. Len(buffer) \in Nat /\ Len(buffer) <= bytes_expected
    <3>1. Len(buffer) \in Nat
      BY <2>2
    <3>. QED
      BY ONLY <2>2, <3>1, RoomIs
  <2>. DEFINE c == Bytes!copy_len(n, bytes_expected)
  <2>4. c \in 0..n /\ Len(buffer) + c <= bytes_expected
    BY <1>1, <2>2, <2>3, CopyEffect
  <2>. HIDE DEF c
  <2>5. /\ pos' = pos + 0 + c /\ stream' = stream
        /\ phase' = IF Len(buffer) + c < bytes_expected THEN "more" ELSE "ready"
    BY <2>1 DEF Bytes!CopyPayload, Bytes!Status, Bytes!bytes_written, c
  <2>6. c \in Nat /\ pos' = pos + c
    BY <1>1, <2>4, <2>5
  <2>7. phase = "ready" => c = 0 /\ phase' = "ready"
    <3>1. phase = "ready" => Len(buffer) = bytes_expected
      BY <1>4 DEF ByteVecInv, PayloadInv
    <3>. QED
      BY <2>2, <2>3, <2>4, <2>5, <2>6, <3>1
  <2>. QED
    BY <2>1, <2>5, <2>6, <2>7
<1>. QED
  BY <1>2, <1>3, <1>4 DEF Bytes!Push

LEMMA BytesInitRefines == ASSUME Bytes!ByteVecAssumption, Bytes!ByteVecInit PROVE Bytes!Contract!Init
<1>1. BytesStanding /\ phase = "more" /\ pos = 0
  BY BytesInitEstablishes, BytesInvStanding DEF Bytes!ByteVecInit
<1>2. Bytes!Total \in Nat /\ Bytes!Total > 0 /\ Bytes!read_limit \in 1..(Bytes!Total - 0)
  BY <1>1 DEF BytesStanding
<1>3. Bytes!Verdict \in {"ok", "badpush"}
  BY DEF Bytes!Verdict
<1>. QED
  BY <1>1, <1>2, <1>3 DEF Bytes!Contract!Init, Bytes!Contract!Fresh, Bytes!Contract!Limits,
     Bytes!Contract!Verdicts

LEMMA BytesStepRefines ==
  ASSUME Bytes!ByteVecAssumption, ByteVecInv, BytesStanding, BytesStanding', [Bytes!ByteVecNext]_(Bytes!vars)
  PROVE  [Bytes!Contract!Next]_(Bytes!Contract!contractVars)
<1>. USE DEF Bytes!Contract!Lesser
<1>1. ASSUME NEW n \in 0..(Len(stream) - pos), Bytes!Push(n) PROVE Bytes!Contract!Next
  <2>1. /\ stream' = stream /\ phase \in {"more", "ready"} /\ phase' \in {"more", "ready", "failed"}
        /\ phase = "ready" => phase' = "ready"
    BY <1>1, BytesPushEffect DEF Bytes!Calling
  <2>2. PICK c \in Nat : pos' = pos + c /\ (phase = "ready" => c = 0)
    BY <1>1, BytesPushEffect
  <2>3. Bytes!Total' = Bytes!Total /\ Bytes!Verdict' = Bytes!Verdict
    BY <2>1 DEF Bytes!Total, Bytes!Verdict, Bytes!PrefixLen, Bytes!Announced
  <2>4. Bytes!Total \in Nat /\ pos \in Nat /\ pos + c <= Bytes!Total
    BY <2>2, <2>3 DEF BytesStanding
  <2>5. c \in 0..(Bytes!Total - pos) /\ c \in Bytes!Contract!Takes(c)
    BY <2>4 DEF Bytes!Contract!Takes
  <2>6. phase = "more" => phase' \in Bytes!Contract!Settle(pos')
    BY <2>1, <2>3 DEF BytesStanding, Bytes!Contract!Settle
  <2>7. phase' # "failed" => Bytes!read_limit' \in Bytes!Contract!Limits(pos')
    BY <2>1, <2>3 DEF BytesStanding, Bytes!Contract!Limits
  <2>8. Bytes!Contract!Push(c)
    <3>1. phase = "ready" => pos' = pos /\ phase' = phase
      BY <2>1, <2>2, <2>4
    <3>. QED
      BY <2>1, <2>2, <2>3, <2>5, <2>6, <2>7, <3>1 DEF Bytes!Contract!Push, Bytes!Contract!Limits
  <2>. QED
    BY <2>5, <2>8, Zenon DEF Bytes!Contract!Next, Bytes!Contract!Push, Bytes!Contract!Takes,
       Bytes!Contract!Settle,
       Bytes!Contract!Limits
<1>2. CASE Bytes!ByteVecEnd
  <2>1. /\ Bytes!Calling /\ phase' = IF ~in_prefix /\ Bytes!bytes_written = bytes_expected THEN "ok" ELSE "err"
        /\ UNCHANGED <<stream, pos, in_prefix, prefix, bytes_expected, buffer>>
    BY <1>2 DEF Bytes!ByteVecEnd
  <2>2. /\ Bytes!Total' = Bytes!Total /\ Bytes!Verdict' = Bytes!Verdict
        /\ Bytes!read_limit' = Bytes!read_limit
        /\ phase # "failed" /\ phase' # "failed"
    BY <2>1 DEF Bytes!Total, Bytes!Verdict, Bytes!PrefixLen, Bytes!Announced, Bytes!read_limit,
       Bytes!bytes_written, Bytes!Calling
  <2>3. phase' = IF pos = Bytes!Total /\ Bytes!Verdict = "ok" THEN "ok" ELSE "err"
    BY <2>1 DEF BytesStanding
  <2>. QED
    BY <2>1, <2>2, <2>3 DEF Bytes!Contract!Next, Bytes!Contract!End, Bytes!Calling
<1>3. CASE UNCHANGED Bytes!vars
  BY <1>3 DEF Bytes!vars, Bytes!Contract!contractVars, Bytes!Total, Bytes!Verdict, Bytes!PrefixLen,
     Bytes!Announced, Bytes!read_limit,
     Bytes!bytes_written
<1>. QED
  BY <1>1, <1>2, <1>3 DEF Bytes!ByteVecNext, Bytes!Returned

\* Neither the prefix decoder nor the copy stops short of a byte that is there.
LEMMA BytesMove == ASSUME Bytes!ByteVecAssumption, ByteVecInv PROVE Bytes!NeverStalls
<1>. SUFFICES ASSUME phase = "more", NEW n \in 1..(Len(stream) - pos)
              PROVE  (IF in_prefix THEN Bytes!PrefixTakes(n) ELSE Bytes!copy_len(n, bytes_expected)) > 0
  BY DEF Bytes!NeverStalls
<1>1. n \in 0..(Len(stream) - pos) /\ n > 0 /\ n \in Nat
  BY DEF ByteVecInv, Bytes!ByteVecTypeOK
<1>2. CASE in_prefix
  BY <1>1, <1>2, PrefixTaken
<1>3. CASE ~in_prefix
  <2>1. /\ bytes_expected \in Nat /\ buffer \in Seq(Bytes!Byte) /\ MAX_VECTOR_ALLOCATE \in Nat
        /\ capacity \in Len(buffer)..Bytes!Lesser(Len(buffer) + MAX_VECTOR_ALLOCATE, bytes_expected)
    BY DEF ByteVecInv, Bytes!ByteVecTypeOK, Bytes!bytes_written, Bytes!ByteVecAssumption
  <2>2. Len(buffer) \in Nat /\ Len(buffer) <= bytes_expected
    <3>1. Len(buffer) \in Nat
      BY <2>1
    <3>. QED
      BY ONLY <2>1, <3>1, RoomIs
  <2>3. Len(buffer) # bytes_expected
    BY <1>3 DEF ByteVecInv, PayloadInv
  <2>. QED
    BY <1>1, <1>3, <2>1, <2>2, <2>3, CopyEffect
<1>. QED
  BY <1>2, <1>3

\* What the buffer holds is what was sent, and a length that was accepted is the one its
\* encoder writes.
LEMMA BytesInvBuffer == ASSUME Bytes!ByteVecAssumption, ByteVecInv PROVE Bytes!BufferIsPayload
<1>1. /\ stream \in Seq(Bytes!Byte) /\ Len(stream) \in Nat /\ Bytes!PrefixLen \in Nat
      /\ Bytes!PrefixLen > 0
      /\ pos \in Nat /\ pos <= Len(stream) /\ Len(buffer) \in Nat
  BY StreamFacts DEF ByteVecInv, Bytes!ByteVecTypeOK
<1>2. ASSUME ~in_prefix, phase # "failed"
      PROVE  Bytes!bytes_written = pos - Bytes!PrefixLen /\ buffer = SubSeq(stream, Bytes!PrefixLen + 1, pos)
  BY <1>1, <1>2 DEF ByteVecInv, PayloadInv, Bytes!bytes_written
<1>3. ASSUME phase = "ok"
      PROVE  /\ SubSeq(stream, 1, pos) = Bytes!encode(Len(buffer)) \o buffer
             /\ Bytes!encoded_size(Len(buffer)) = pos - Len(buffer)
             /\ Len(buffer) <= MaxSize
  <2>1. /\ Bytes!Announced.error = "none" /\ Len(buffer) = Bytes!Announced.value
        /\ pos = Bytes!PrefixLen + Len(buffer) /\ buffer = SubSeq(stream, Bytes!PrefixLen + 1, pos)
    BY <1>3 DEF ByteVecInv, PrefixInv, PayloadInv
  <2>2. /\ Bytes!encode(Len(buffer)) = SubSeq(stream, 1, Bytes!PrefixLen)
        /\ Bytes!encoded_size(Len(buffer)) = Bytes!PrefixLen /\ Len(buffer) <= MaxSize
    BY <2>1, StreamFacts DEF ByteVecInv
  <2>3. SubSeq(stream, 1, Bytes!PrefixLen) \o SubSeq(stream, Bytes!PrefixLen + 1, pos) = SubSeq(stream, 1, pos)
    <3>1. /\ 1 \in Nat /\ 1 > 0 /\ 1 <= Bytes!PrefixLen + 1 /\ Bytes!PrefixLen <= pos
          /\ pos <= Len(stream)
          /\ stream \in Seq(Bytes!Byte) /\ Bytes!PrefixLen \in Nat /\ pos \in Nat
      BY <1>1, <2>1
    <3>. QED
      BY ONLY <3>1, Glue, Zenon
  <2>4. Bytes!encoded_size(Len(buffer)) = pos - Len(buffer)
    BY <1>1, <2>1, <2>2
  <2>5. SubSeq(stream, 1, pos) = Bytes!encode(Len(buffer)) \o buffer
    BY <2>1, <2>2, <2>3, Zenon
  <2>. QED
    BY <2>2, <2>4, <2>5
<1>. QED
  BY <1>2, <1>3 DEF Bytes!BufferIsPayload

-----------------------------------------------------------------------------
\* The decoder's memory never runs more than a batch ahead of the bytes it received nor
\* past what was announced, its buffer is the payload so far however push_bytes was
\* called, and what end accepts re-encodes to the bytes that were taken.
THEOREM ByteVecInvariant ==
  Bytes!ByteVecAssumption => (Bytes!ByteVecSpec => [](Bytes!ByteVecTypeOK /\ Bytes!BufferIsPayload))
<1>. SUFFICES ASSUME Bytes!ByteVecAssumption
              PROVE  Bytes!ByteVecSpec => [](Bytes!ByteVecTypeOK /\ Bytes!BufferIsPayload)
  OBVIOUS
<1>1. Bytes!ByteVecInit => ByteVecInv
  BY BytesInitEstablishes
<1>2. ByteVecInv /\ [Bytes!ByteVecNext]_(Bytes!vars) => ByteVecInv'
  BY BytesStepKeeps
<1>3. ByteVecInv => Bytes!ByteVecTypeOK /\ Bytes!BufferIsPayload
  BY BytesInvBuffer DEF ByteVecInv
<1>. QED
  BY <1>1, <1>2, <1>3, PTL DEF Bytes!ByteVecSpec

\* ByteVecDecoder keeps the promises of the Decoder trait: push_bytes stops exactly behind
\* the vector, read_limit asks for no byte behind it and for one at least while the vector
\* lacks one, a push takes one at least of the bytes it is offered, and end accepts a
\* stream if and only if its prefix is minimal and within the limit and the whole payload
\* has come.
THEOREM ByteVecImplementsDecoder ==
  Bytes!ByteVecAssumption => (Bytes!ByteVecSpec => Bytes!ImplementsDecoder)
<1>. SUFFICES ASSUME Bytes!ByteVecAssumption PROVE Bytes!ByteVecSpec => Bytes!ImplementsDecoder
  OBVIOUS
<1>1. Bytes!ByteVecInit => ByteVecInv /\ Bytes!Contract!Init
  BY BytesInitEstablishes, BytesInitRefines
<1>2. ByteVecInv /\ [Bytes!ByteVecNext]_(Bytes!vars) => ByteVecInv'
  BY BytesStepKeeps
<1>3. ByteVecInv => BytesStanding /\ Bytes!NeverStalls
  BY BytesInvStanding, BytesMove
<1>4. ByteVecInv /\ BytesStanding /\ BytesStanding' /\ [Bytes!ByteVecNext]_(Bytes!vars)
        => [Bytes!Contract!Next]_(Bytes!Contract!contractVars)
  BY BytesStepRefines
<1>. QED
  BY <1>1, <1>2, <1>3, <1>4, PTL DEF Bytes!ByteVecSpec, Bytes!ImplementsDecoder, Bytes!Contract!Spec

-----------------------------------------------------------------------------
(* Sequences. *)

\* A set of numbers that is not empty has a least one.
LEMMA LeastNumber ==
  ASSUME NEW T, T \subseteq Nat, T # {}
  PROVE  \E k \in T : \A m \in T : k <= m
<1>. DEFINE R == OpToRel(<, Nat)
<1>1. IsWellFoundedOn(R, Nat)
  BY NatLessThanWellFounded
<1>2. \A x, y \in Nat : y < x => <<y, x>> \in R
  BY DEF OpToRel
<1>. HIDE DEF R
<1>3. PICK k \in T : \A m \in T : ~(<<m, k>> \in R)
  BY <1>1, WFMin
<1>4. \A m \in T : k \in Nat /\ m \in Nat /\ ~(m < k)
  BY <1>2, <1>3
<1>5. \A m \in T : k <= m
  BY <1>4
<1>. QED
  BY <1>3, <1>5

\* The sequences behind each other, up to each of the first k.
IsFlat(f, ss, k) ==
  f = [i \in 1..k |-> IF i = 1 THEN ss[i] ELSE f[i - 1] \o ss[i]]

LEMMA FlatGoesOn ==
  ASSUME NEW ss, NEW k \in Nat \ {0}, NEW f, IsFlat(f, ss, k)
  PROVE  \E g : IsFlat(g, ss, k + 1)
<1>. DEFINE g == [i \in 1..(k + 1) |-> IF i = k + 1 THEN f[k] \o ss[k + 1] ELSE f[i]]
<1>1. \A i \in 1..k : f[i] = IF i = 1 THEN ss[i] ELSE f[i - 1] \o ss[i]
  BY Zenon DEF IsFlat
<1>2. g[k + 1] = f[k] \o ss[k + 1] /\ \A i \in 1..k : g[i] = f[i]
  <2>1. k + 1 \in 1..(k + 1) /\ \A i \in 1..k : i \in 1..(k + 1) /\ i # k + 1
    OBVIOUS
  <2>. QED
    BY <2>1
<1>3. ASSUME NEW i \in 1..(k + 1)
      PROVE  g[i] = IF i = 1 THEN ss[i] ELSE g[i - 1] \o ss[i]
  <2>. HIDE DEF g
  <2>1. CASE i = k + 1
    <3>1. i # 1 /\ i - 1 = k /\ k \in 1..k
      BY <2>1
    <3>. QED
      BY <1>2, <2>1, <3>1
  <2>2. CASE i # k + 1
    <3>1. i \in 1..k /\ (i # 1 => i - 1 \in 1..k)
      BY <2>2
    <3>. QED
      BY <1>1, <1>2, <3>1
  <2>. QED
    BY <2>1, <2>2
<1>4. IsFlat(g, ss, k + 1)
  <2>1. g = [i \in 1..(k + 1) |-> g[i]]
    OBVIOUS
  <2>. HIDE DEF g
  <2>. QED
    BY <1>3, <2>1 DEF IsFlat
<1>. QED
  BY <1>4

LEMMA FlatExists ==
  ASSUME NEW ss, NEW k \in Nat \ {0}
  PROVE  \E f : IsFlat(f, ss, k)
<1>. DEFINE T == {j \in Nat \ {0} : ~(\E f : IsFlat(f, ss, j))}
<1>. SUFFICES ASSUME T # {} PROVE FALSE
  OBVIOUS
<1>1. PICK j \in T : \A m \in T : j <= m
  <2>1. T \subseteq Nat
    OBVIOUS
  <2>. HIDE DEF T
  <2>. QED
    BY <2>1, LeastNumber
<1>2. j \in Nat \ {0} /\ ~(\E f : IsFlat(f, ss, j))
  OBVIOUS
<1>3. j # 1
  <2>. SUFFICES ASSUME j = 1 PROVE FALSE
    OBVIOUS
  <2>. DEFINE f == [i \in 1..1 |-> ss[i]]
  <2>1. f = [i \in 1..1 |-> IF i = 1 THEN ss[i] ELSE f[i - 1] \o ss[i]]
    OBVIOUS
  <2>. HIDE DEF f
  <2>2. IsFlat(f, ss, 1)
    BY <2>1 DEF IsFlat
  <2>. QED
    BY <1>2, <2>2
<1>4. j - 1 \in Nat \ {0} /\ (j - 1) + 1 = j /\ ~(j <= j - 1)
  BY <1>2, <1>3
<1>5. PICK f : IsFlat(f, ss, j - 1)
  BY <1>1, <1>4
<1>6. \E g : IsFlat(g, ss, (j - 1) + 1)
  BY <1>4, <1>5, FlatGoesOn
<1>. QED
  BY <1>2, <1>4, <1>6

\* FlattenSeq is the last of them.
LEMMA FlattenIsFlat ==
  ASSUME NEW ss, Len(ss) \in Nat \ {0}
  PROVE  \E f : IsFlat(f, ss, Len(ss)) /\ FlattenSeq(ss) = f[Len(ss)]
<1>. DEFINE f == CHOOSE f : f = [i \in 1..Len(ss) |-> IF i = 1 THEN ss[i] ELSE f[i - 1] \o ss[i]]
<1>1. \E g : g = [i \in 1..Len(ss) |-> IF i = 1 THEN ss[i] ELSE g[i - 1] \o ss[i]]
  <2>1. PICK g : IsFlat(g, ss, Len(ss))
    BY FlatExists
  <2>. QED
    BY <2>1, Zenon DEF IsFlat
<1>2. IsFlat(f, ss, Len(ss))
  BY <1>1, Zenon DEF IsFlat
<1>3. FlattenSeq(ss) = f[Len(ss)]
  BY Zenon DEF FlattenSeq
<1>. QED
  BY <1>2, <1>3

LEMMA FlattenEmpty == FlattenSeq(<<>>) = <<>>
BY DEF FlattenSeq

\* The others are put together behind the first sequence.
\* What has been put together in f is the first sequence and what is in g.
Joined(f, g, ss, S, k) == g[k] \in Seq(S) /\ f[k + 1] = ss[1] \o g[k]

LEMMA FlatTail ==
  ASSUME NEW S, NEW ss \in Seq(Seq(S)), NEW k \in Nat \ {0}, k + 1 <= Len(ss),
         NEW f, IsFlat(f, ss, k + 1), NEW g, IsFlat(g, Tail(ss), k)
  PROVE  Joined(f, g, ss, S, k)
<1>1. \A i \in 1..(k + 1) : f[i] = IF i = 1 THEN ss[i] ELSE f[i - 1] \o ss[i]
  BY Zenon DEF IsFlat
<1>2. \A i \in 1..k : g[i] = IF i = 1 THEN Tail(ss)[i] ELSE g[i - 1] \o Tail(ss)[i]
  BY Zenon DEF IsFlat
<1>3. /\ Len(ss) \in Nat /\ \A i \in 1..Len(ss) : ss[i] \in Seq(S)
      /\ \A i \in 1..(Len(ss) - 1) : Tail(ss)[i] = ss[i + 1]
  BY LenProperties, ElementOfSeq, EmptySeq, HeadTailProperties
<1>. DEFINE T == {i \in 1..k : ~(g[i] \in Seq(S) /\ f[i + 1] = ss[1] \o g[i])}
<1>. SUFFICES ASSUME T # {} PROVE FALSE
  <2>1. k \in 1..k
    OBVIOUS
  <2>. QED
    BY <2>1 DEF Joined
<1>4. PICK i \in T : \A m \in T : i <= m
  <2>1. T \subseteq Nat
    <3>1. \A m \in 1..k : m \in Nat
      OBVIOUS
    <3>. QED
      BY <3>1, Zenon
  <2>. HIDE DEF T
  <2>. QED
    BY <2>1, LeastNumber
<1>5. i \in 1..k /\ ~(g[i] \in Seq(S) /\ f[i + 1] = ss[1] \o g[i])
  OBVIOUS
<1>6. /\ i + 1 \in 1..(k + 1) /\ i + 1 # 1 /\ (i + 1) - 1 = i /\ i \in 1..(k + 1)
      /\ i + 1 \in 1..Len(ss) /\ i \in 1..(Len(ss) - 1) /\ 1 \in 1..Len(ss) /\ 1 \in 1..(k + 1)
  BY <1>3, <1>5
<1>7. f[i + 1] = f[i] \o ss[i + 1] /\ Tail(ss)[i] = ss[i + 1]
  BY <1>1, <1>3, <1>6
<1>8. CASE i = 1
  BY <1>1, <1>2, <1>3, <1>5, <1>6, <1>7, <1>8
<1>9. CASE i # 1
  <2>1. i - 1 \in 1..k /\ (i - 1) + 1 = i /\ ~(i <= i - 1)
    BY <1>5, <1>9
  <2>2. g[i - 1] \in Seq(S) /\ f[i] = ss[1] \o g[i - 1]
    BY <1>4, <2>1
  <2>3. g[i] = g[i - 1] \o ss[i + 1]
    BY <1>2, <1>5, <1>7, <1>9
  <2>4. ss[1] \in Seq(S) /\ ss[i + 1] \in Seq(S)
    BY <1>3, <1>6
  <2>5. (ss[1] \o g[i - 1]) \o ss[i + 1] = ss[1] \o (g[i - 1] \o ss[i + 1])
    <3>. DEFINE x == ss[1]
                y == g[i - 1]
                z == ss[i + 1]
    <3>1. x \in Seq(S) /\ y \in Seq(S) /\ z \in Seq(S)
      BY <2>2, <2>4
    <3>. HIDE DEF x, y, z
    <3>2. (x \o y) \o z = x \o (y \o z)
      BY ONLY <3>1, ConcatAssociative
    <3>. QED
      BY <3>2 DEF x, y, z
  <2>6. g[i] \in Seq(S)
    BY <2>2, <2>3, <2>4, ConcatProperties
  <2>. QED
    BY <1>5, <1>7, <2>2, <2>3, <2>5, <2>6
<1>. QED
  BY <1>8, <1>9

LEMMA FlattenCons ==
  ASSUME NEW S, NEW ss \in Seq(Seq(S)), ss # <<>>
  PROVE  /\ ss[1] \in Seq(S) /\ Tail(ss) \in Seq(Seq(S)) /\ FlattenSeq(Tail(ss)) \in Seq(S)
         /\ FlattenSeq(ss) = ss[1] \o FlattenSeq(Tail(ss))
<1>1. /\ Len(ss) \in Nat \ {0} /\ ss[1] \in Seq(S)
      /\ Tail(ss) \in Seq(Seq(S)) /\ Len(Tail(ss)) = Len(ss) - 1
  BY LenProperties, ElementOfSeq, EmptySeq, HeadTailProperties
<1>2. PICK f : IsFlat(f, ss, Len(ss)) /\ FlattenSeq(ss) = f[Len(ss)]
  BY <1>1, FlattenIsFlat
<1>3. CASE Len(ss) = 1
  <2>1. f[1] = ss[1]
    <3>1. 1 \in 1..1
      OBVIOUS
    <3>. QED
      BY <1>2, <1>3, <3>1, Zenon DEF IsFlat
  <2>2. Tail(ss) = <<>>
    <3>1. Len(Tail(ss)) = 0 /\ Tail(ss) \in Seq(Seq(S))
      BY <1>1, <1>3
    <3>. QED
      BY ONLY <3>1, EmptySeq
  <2>3. FlattenSeq(Tail(ss)) = <<>> /\ <<>> \in Seq(S)
    BY <2>2, FlattenEmpty, EmptySeq
  <2>4. ss[1] \o <<>> = ss[1]
    BY <1>1, ConcatEmptySeq
  <2>. QED
    BY <1>1, <1>2, <1>3, <2>1, <2>3, <2>4
<1>4. CASE Len(ss) # 1
  <2>1. PICK k \in Nat \ {0} : k + 1 = Len(ss)
    <3>1. Len(ss) - 1 \in Nat \ {0} /\ (Len(ss) - 1) + 1 = Len(ss)
      BY <1>1, <1>4
    <3>. QED
      BY <3>1
  <2>2. Len(Tail(ss)) = k /\ k \in 1..k /\ k + 1 <= Len(ss)
    <3>1. k \in 1..k /\ k + 1 <= k + 1 /\ (k + 1) - 1 = k
      OBVIOUS
    <3>. QED
      BY <1>1, <2>1, <3>1, Zenon
  <2>3. PICK g : IsFlat(g, Tail(ss), k) /\ FlattenSeq(Tail(ss)) = g[k]
    BY <2>2, FlattenIsFlat
  <2>4. IsFlat(f, ss, k + 1) /\ FlattenSeq(ss) = f[k + 1]
    BY <1>2, <2>1
  <2>5. g[k] \in Seq(S) /\ f[k + 1] = ss[1] \o g[k]
    <3>1. Joined(f, g, ss, S, k)
      BY <2>1, <2>2, <2>3, <2>4, FlatTail
    <3>. QED
      BY <3>1 DEF Joined
  <2>. QED
    BY <1>1, <2>2, <2>3, <2>4, <2>5
<1>. QED
  BY <1>3, <1>4

LEMMA FlattenType ==
  ASSUME NEW S, NEW ss \in Seq(Seq(S))
  PROVE  FlattenSeq(ss) \in Seq(S)
<1>1. CASE ss = <<>>
  <2>1. FlattenSeq(ss) = <<>>
    BY <1>1, FlattenEmpty
  <2>. QED
    BY ONLY <2>1, EmptySeq
<1>2. CASE ss # <<>>
  <2>1. /\ ss[1] \in Seq(S) /\ FlattenSeq(Tail(ss)) \in Seq(S)
        /\ FlattenSeq(ss) = ss[1] \o FlattenSeq(Tail(ss))
    BY <1>2, FlattenCons
  <2>. QED
    BY ONLY <2>1, ConcatProperties
<1>. QED
  BY <1>1, <1>2

LEMMA FunctionIsSeq ==
  ASSUME NEW S, NEW k \in Nat, NEW h \in [1..k -> S]
  PROVE  h \in Seq(S) /\ Len(h) = k
OBVIOUS

\* u is s and behind it t, place by place.
IsJoined(u, s, t) ==
  /\ Len(u) = Len(s) + Len(t)
  /\ \A i \in 1..Len(s) : u[i] = s[i]
  /\ \A i \in 1..Len(t) : u[Len(s) + i] = t[i]

LEMMA JoinedPlaces ==
  ASSUME NEW S, NEW s \in Seq(S), NEW t \in Seq(S), NEW u, u = s \o t
  PROVE  u \in Seq(S) /\ IsJoined(u, s, t)
<1>1. Len(s) \in Nat /\ Len(t) \in Nat
  BY LenProperties
<1>2. /\ s \o t \in Seq(S)
      /\ Len(s \o t) = Len(s) + Len(t)
      /\ \A i \in 1 .. Len(s) + Len(t) : (s \o t)[i] = IF i <= Len(s) THEN s[i] ELSE t[i - Len(s)]
  BY ConcatProperties, Zenon
<1>3. /\ \A i \in 1..Len(s) : i \in 1 .. Len(s) + Len(t) /\ i <= Len(s)
      /\ \A i \in 1..Len(t) : /\ Len(s) + i \in 1 .. Len(s) + Len(t) /\ ~(Len(s) + i <= Len(s))
                              /\ (Len(s) + i) - Len(s) = i
  BY <1>1
<1>4. \A i \in 1..Len(s) : u[i] = s[i]
  BY ONLY <1>2, <1>3, u = s \o t, Zenon
<1>5. \A i \in 1..Len(t) : u[Len(s) + i] = t[i]
  BY ONLY <1>2, <1>3, u = s \o t, Zenon
<1>. QED
  BY <1>2, <1>4, <1>5 DEF IsJoined

(* Witness: the elements behind each other, and where each begins.          *)

LEMMA FlatAppend ==
  ASSUME NEW S, NEW ss \in Seq(Seq(S)), NEW x \in Seq(S)
  PROVE  FlattenSeq(Append(ss, x)) = FlattenSeq(ss) \o x
<1>. DEFINE tt == Append(ss, x)
            k == Len(ss)
<1>1. /\ k \in Nat /\ tt \in Seq(Seq(S)) /\ Len(tt) = k + 1 /\ tt[k + 1] = x
      /\ \A i \in 1..k : tt[i] = ss[i]
  BY LenProperties, AppendProperties
<1>2. PICK f : IsFlat(f, tt, k + 1) /\ FlattenSeq(tt) = f[k + 1]
  <2>1. Len(tt) \in Nat \ {0}
    BY <1>1
  <2>. HIDE DEF tt
  <2>2. PICK f : IsFlat(f, tt, Len(tt)) /\ FlattenSeq(tt) = f[Len(tt)]
    BY <2>1, FlattenIsFlat
  <2>. QED
    BY <1>1, <2>2
<1>3. \A i \in 1..(k + 1) : f[i] = IF i = 1 THEN tt[i] ELSE f[i - 1] \o tt[i]
  BY <1>2, Zenon DEF IsFlat
<1>4. CASE k = 0
  <2>1. ss = <<>> /\ FlattenSeq(ss) = <<>>
    BY <1>4, EmptySeq, FlattenEmpty
  <2>2. <<>> \o x = x
    BY ConcatEmptySeq
  <2>3. 1 \in 1..(k + 1) /\ k + 1 = 1
    BY <1>4
  <2>4. f[k + 1] = x
    BY ONLY <1>1, <1>3, <2>3
  <2>. QED
    BY <1>2, <2>1, <2>2, <2>4
<1>5. CASE k # 0
  <2>1. k \in Nat \ {0}
    BY <1>1, <1>5
  <2>2. PICK g : IsFlat(g, ss, k) /\ FlattenSeq(ss) = g[k]
    <3>1. PICK g : IsFlat(g, ss, Len(ss)) /\ FlattenSeq(ss) = g[Len(ss)]
      BY <2>1, FlattenIsFlat
    <3>. QED
      BY <3>1
  <2>3. \A i \in 1..k : g[i] = IF i = 1 THEN ss[i] ELSE g[i - 1] \o ss[i]
    BY <2>2, Zenon DEF IsFlat
  <2>. DEFINE T == {i \in 1..k : f[i] # g[i]}
  <2>4. T = {}
    <3>. SUFFICES ASSUME T # {} PROVE FALSE
      OBVIOUS
    <3>1. PICK i \in T : \A m \in T : i <= m
      <4>1. T \subseteq Nat
        <5>1. \A m \in 1..k : m \in Nat
          OBVIOUS
        <5>. QED
          BY <5>1, Zenon
      <4>. HIDE DEF T
      <4>. QED
        BY <4>1, LeastNumber
    <3>2. i \in 1..k /\ f[i] # g[i] /\ i \in 1..(k + 1) /\ tt[i] = ss[i]
      BY <1>1
    <3>3. CASE i = 1
      BY <1>3, <2>3, <3>2, <3>3
    <3>4. CASE i # 1
      <4>1. i - 1 \in 1..k /\ ~(i <= i - 1)
        BY <3>2, <3>4
      <4>2. f[i - 1] = g[i - 1]
        BY <3>1, <4>1
      <4>. QED
        BY ONLY <1>3, <2>3, <3>2, <3>4, <4>2
    <3>. QED
      BY <3>3, <3>4
  <2>5. f[k] = g[k]
    <3>1. k \in 1..k
      BY <2>1
    <3>. QED
      BY <2>4, <3>1
  <2>6. f[k + 1] = f[k] \o x
    <3>1. k + 1 \in 1..(k + 1) /\ k + 1 # 1 /\ (k + 1) - 1 = k
      BY <2>1
    <3>. QED
      BY ONLY <1>1, <1>3, <3>1
  <2>. QED
    BY <1>2, <2>2, <2>5, <2>6
<1>. QED
  BY <1>4, <1>5

\* A compact size reads back as what it was made from.
LEMMA SizeReadsBack ==
  ASSUME NEW v \in 0..(Radix8 - 1)
  PROVE  /\ encode(v) \in Seq(Byte) /\ Len(encode(v)) \in Nat \ {0}
         /\ EncodedLen(encode(v)[1]) = Len(encode(v))
         /\ PayloadValue(encode(v)) = v
         /\ compact_size_decode_u64(encode(v)) = [error |-> "none", value |-> v]
<1>1. Bytes!Radix8 = Radix8 /\ Bytes!Byte = Byte
  BY DEF Radix8, Bytes!Radix8, Radix4, Bytes!Radix4, Radix2, Bytes!Radix2,
     Byte, Bytes!Byte
<1>2. \A f : EncodedLen(f) = Bytes!EncodedLen(f)
  BY Zenon DEF PREFIX_U16, PREFIX_U32, PREFIX_U64, PayloadWidth, EncodedLen,
   Bytes!PREFIX_U16, Bytes!PREFIX_U32, Bytes!PREFIX_U64,
   Bytes!PayloadWidth, Bytes!EncodedLen
<1>3. \A w : encode(w) = Bytes!encode(w)
  BY Zenon DEF PREFIX_U16, PREFIX_U32, PREFIX_U64, encode, ToLe, Weight, Radix2, Radix4,
   Bytes!PREFIX_U16, Bytes!PREFIX_U32, Bytes!PREFIX_U64, Bytes!encode,
   Bytes!ToLe, Bytes!Weight, Bytes!Radix2, Bytes!Radix4
<1>4. \A b : PayloadValue(b) = Bytes!PayloadValue(b)
  BY Zenon DEF PayloadValue, FromLe8, FromLe4, FromLe2, Radix2, Radix4,
   Bytes!PayloadValue, Bytes!FromLe8, Bytes!FromLe4, Bytes!FromLe2,
   Bytes!Radix2, Bytes!Radix4
<1>5. \A w : LeastValue(w) = Bytes!LeastValue(w)
  BY Zenon DEF LeastValue, Radix2, Radix4, PREFIX_U16, Bytes!LeastValue,
   Bytes!Radix2, Bytes!Radix4, Bytes!PREFIX_U16
<1>6. \A b : compact_size_decode_u64(b) = Bytes!compact_size_decode_u64(b)
  BY ONLY <1>2, <1>4, <1>5, Zenon DEF compact_size_decode_u64,
     Bytes!compact_size_decode_u64
<1>7. v \in 0..(Bytes!Radix8 - 1)
  BY <1>1
<1>8. /\ Bytes!encode(v) \in Seq(Bytes!Byte)
      /\ Len(Bytes!encode(v)) \in Nat \ {0}
      /\ Bytes!EncodedLen(Bytes!encode(v)[1]) = Len(Bytes!encode(v))
      /\ Bytes!PayloadValue(Bytes!encode(v)) = v
      /\ Bytes!compact_size_decode_u64(Bytes!encode(v))
           = [error |-> "none", value |-> v]
  BY <1>7, RadixAssumption, EncodesItself
<1>. QED
  BY ONLY <1>1, <1>2, <1>3, <1>4, <1>6, <1>8, Zenon

LEMMA ElementSize ==
  ASSUME NEW e \in Elements
  PROVE  /\ e \in Seq(Byte) /\ Len(e) \in 0..(Radix8 - 1) /\ Len(e) \in Nat
         /\ encode(Len(e)) \in Seq(Byte) /\ Len(encode(Len(e))) \in Nat \ {0}
         /\ Prefixed(e) \in Seq(Byte) /\ Len(Prefixed(e)) = Len(encode(Len(e))) + Len(e)
<1>1. Radix8 \in Nat
  BY RadixAssumption DEF Radix8, Radix4, Radix2
<1>2. e \in Seq(Byte) /\ Len(e) \in 0..(Radix8 - 1) /\ Len(e) \in Nat
  BY <1>1, WitnessAssumption, LenProperties DEF WitnessAssumption
<1>3. encode(Len(e)) \in Seq(Byte) /\ Len(encode(Len(e))) \in Nat \ {0}
  BY <1>2, SizeReadsBack
<1>4. PICK s \in Seq(Byte) : s = encode(Len(e))
  BY <1>3
<1>5. s \o e \in Seq(Byte) /\ Len(s \o e) = Len(s) + Len(e)
  BY <1>2, ConcatProperties
<1>. QED
  BY <1>2, <1>3, <1>4, <1>5 DEF Prefixed

LEMMA ContentsEmpty == Contents(<<>>) = <<>>
<1>1. [i \in DOMAIN <<>> |-> Prefixed(<<>>[i])] = <<>>
  OBVIOUS
<1>. QED
  BY <1>1 DEF Contents, FlattenSeq

LEMMA ContentsAppend ==
  ASSUME NEW l \in Seq(Elements), NEW e \in Elements
  PROVE  /\ Contents(l) \in Seq(Byte)
         /\ Contents(Append(l, e)) = Contents(l) \o Prefixed(e)
<1>. DEFINE ss == [i \in DOMAIN l |-> Prefixed(l[i])]
            m == Append(l, e)
            tt == [i \in DOMAIN m |-> Prefixed(m[i])]
<1>1. /\ Len(l) \in Nat /\ DOMAIN l = 1..Len(l) /\ DOMAIN m = 1..(Len(l) + 1)
      /\ \A i \in 1..Len(l) : l[i] \in Elements /\ m[i] = l[i]
      /\ m[Len(l) + 1] = e
  BY LenProperties, ElementOfSeq, AppendProperties
<1>2. ss \in [1..Len(l) -> Seq(Byte)]
  <2>1. \A i \in 1..Len(l) : Prefixed(l[i]) \in Seq(Byte)
    BY <1>1, ElementSize
  <2>. QED
    BY <1>1, <2>1
<1>3. ss \in Seq(Seq(Byte)) /\ Len(ss) = Len(l)
  BY <1>1, <1>2, FunctionIsSeq
<1>4. Prefixed(e) \in Seq(Byte)
  BY ElementSize
<1>5. tt = Append(ss, Prefixed(e))
  <2>. DEFINE x == Prefixed(e)
  <2>1. /\ Append(ss, x) \in Seq(Seq(Byte)) /\ Len(Append(ss, x)) = Len(l) + 1
        /\ Append(ss, x)[Len(l) + 1] = x
        /\ \A i \in 1..Len(l) : Append(ss, x)[i] = ss[i]
    <3>. HIDE DEF ss, x
    <3>1. x \in Seq(Byte)
      BY <1>4 DEF x
    <3>. QED
      BY ONLY <1>3, <3>1, AppendProperties
  <2>2. tt \in [1..(Len(l) + 1) -> Seq(Byte)]
    <3>1. \A i \in 1..(Len(l) + 1) : Prefixed(m[i]) \in Seq(Byte)
      <4>. TAKE i \in 1..(Len(l) + 1)
      <4>1. CASE i = Len(l) + 1
        BY <1>1, <1>4, <4>1
      <4>2. CASE i # Len(l) + 1
        <5>1. i \in 1..Len(l)
          BY <1>1, <4>2
        <5>. QED
          BY <1>1, <5>1, ElementSize
      <4>. QED
        BY <4>1, <4>2
    <3>. QED
      BY <1>1, <3>1
  <2>3. tt \in Seq(Seq(Byte)) /\ Len(tt) = Len(l) + 1
    BY <1>1, <2>2, FunctionIsSeq
  <2>4. \A i \in 1..(Len(l) + 1) : tt[i] = Append(ss, x)[i]
    <3>. TAKE i \in 1..(Len(l) + 1)
    <3>0. tt[i] = Prefixed(m[i])
      BY <1>1
    <3>1. CASE i = Len(l) + 1
      BY <1>1, <2>1, <3>0, <3>1
    <3>2. CASE i # Len(l) + 1
      <4>1. i \in 1..Len(l)
        BY <1>1, <3>2
      <4>2. ss[i] = Prefixed(l[i])
        BY <1>1, <4>1
      <4>. QED
        BY <1>1, <2>1, <3>0, <4>1, <4>2
    <3>. QED
      BY <3>1, <3>2
  <2>. HIDE DEF tt, ss, x
  <2>5. tt = Append(ss, x)
    BY ONLY <2>1, <2>3, <2>4, SeqEqual
  <2>. QED
    BY <2>5 DEF x
<1>6. FlattenSeq(ss) \in Seq(Byte)
  <2>. HIDE DEF ss
  <2>1. FlattenSeq(ss) \in Seq(Byte)
    BY <1>3, FlattenType
  <2>. QED
    BY <2>1
<1>7. FlattenSeq(tt) = FlattenSeq(ss) \o Prefixed(e)
  <2>. HIDE DEF ss, tt
  <2>. QED
    BY ONLY <1>3, <1>4, <1>5, FlatAppend
<1>. QED
  BY <1>6, <1>7 DEF Contents

\* The first i elements of l, and how many bytes they take.
Upto(l, i) == Contents(SubSeq(l, 1, i))
Off(l, i) == Len(Upto(l, i))

\* u begins with s.
Begins(s, u) == Len(s) <= Len(u) /\ \A j \in 1..Len(s) : u[j] = s[j]

LEMMA UptoType ==
  ASSUME NEW l \in Seq(Elements), NEW i \in 0..Len(l)
  PROVE  /\ SubSeq(l, 1, i) \in Seq(Elements)
         /\ Upto(l, i) \in Seq(Byte) /\ Off(l, i) \in Nat
<1>1. /\ Len(l) \in Nat /\ \A j \in 1..Len(l) : l[j] \in Elements
      /\ SubSeq(l, 1, i) \in Seq(Elements)
  BY LenProperties, ElementOfSeq, SubSeqProperties
<1>2. PICK s \in Seq(Elements) : s = SubSeq(l, 1, i)
  BY <1>1
<1>3. Contents(s) \in Seq(Byte)
  <2>1. CASE s = <<>>
    BY <2>1, ContentsEmpty, EmptySeq
  <2>2. CASE s # <<>>
    <3>1. PICK t \in Seq(Elements), e \in Elements : s = Append(t, e)
      BY <2>2, SequenceEmptyOrAppend
    <3>2. Contents(s) = Contents(t) \o Prefixed(e) /\ Contents(t) \in Seq(Byte)
          /\ Prefixed(e) \in Seq(Byte)
      BY <3>1, ContentsAppend, ElementSize
    <3>. QED
      BY ONLY <3>2, ConcatProperties
  <2>. QED
    BY <2>1, <2>2
<1>. QED
  BY <1>1, <1>2, <1>3, LenProperties DEF Upto, Off

LEMMA UptoEmpty ==
  ASSUME NEW l \in Seq(Elements)
  PROVE  Upto(l, 0) = <<>> /\ Off(l, 0) = 0
<1>1. SubSeq(l, 1, 0) = <<>>
  BY SubSeqEmpty
<1>2. Upto(l, 0) = <<>>
  BY <1>1, ContentsEmpty, Zenon DEF Upto
<1>3. Len(<<>>) = 0
  BY EmptySeq
<1>. QED
  BY ONLY <1>2, <1>3 DEF Off

LEMMA UptoAll ==
  ASSUME NEW l \in Seq(Elements)
  PROVE  Upto(l, Len(l)) = Contents(l) /\ Off(l, Len(l)) = Len(Contents(l))
<1>1. SubSeq(l, 1, Len(l)) = l
  BY SubSeqFull
<1>. QED
  BY <1>1 DEF Upto, Off

LEMMA UptoStep ==
  ASSUME NEW l \in Seq(Elements), NEW i \in 1..Len(l)
  PROVE  /\ l[i] \in Elements /\ i - 1 \in 0..Len(l)
         /\ Upto(l, i) = Upto(l, i - 1) \o Prefixed(l[i])
         /\ Off(l, i) = Off(l, i - 1) + Len(encode(Len(l[i]))) + Len(l[i])
<1>1. /\ Len(l) \in Nat /\ \A j \in 1..Len(l) : l[j] \in Elements
      /\ i - 1 \in 0..Len(l) /\ i \in 0..Len(l)
  BY LenProperties, ElementOfSeq
<1>2. /\ SubSeq(l, 1, i - 1) \in Seq(Elements) /\ Upto(l, i - 1) \in Seq(Byte)
      /\ SubSeq(l, 1, i) \in Seq(Elements)
  BY <1>1, UptoType
<1>3. SubSeq(l, 1, i) = Append(SubSeq(l, 1, i - 1), l[i])
  <2>. DEFINE s == SubSeq(l, 1, i - 1)
              t == SubSeq(l, 1, i)
  <2>1. /\ s \in Seq(Elements) /\ Len(s) = i - 1 /\ \A j \in 1..(i - 1) : s[j] = l[j]
        /\ t \in Seq(Elements) /\ Len(t) = i /\ \A j \in 1..i : t[j] = l[j]
    BY <1>1, <1>2, SubSeqProperties
  <2>. HIDE DEF s, t
  <2>2. PICK e \in Elements : e = l[i]
    BY <1>1
  <2>3. /\ Append(s, e) \in Seq(Elements) /\ Len(Append(s, e)) = (i - 1) + 1
        /\ Append(s, e)[(i - 1) + 1] = e
        /\ \A j \in 1..(i - 1) : Append(s, e)[j] = s[j]
    BY ONLY <2>1, AppendProperties
  <2>4. (i - 1) + 1 = i /\ \A j \in 1..i : j = i \/ j \in 1..(i - 1)
    OBVIOUS
  <2>5. \A j \in 1..i : t[j] = Append(s, e)[j]
    BY ONLY <2>1, <2>2, <2>3, <2>4, Zenon
  <2>6. t = Append(s, e)
    BY ONLY <2>1, <2>3, <2>4, <2>5, SeqEqual
  <2>. QED
    BY <2>2, <2>6 DEF s, t
<1>4. Upto(l, i) = Upto(l, i - 1) \o Prefixed(l[i])
  <2>1. PICK s \in Seq(Elements) : s = SubSeq(l, 1, i - 1)
    BY <1>2
  <2>2. Contents(Append(s, l[i])) = Contents(s) \o Prefixed(l[i])
    BY <1>1, ContentsAppend
  <2>. QED
    BY <1>3, <2>1, <2>2 DEF Upto
<1>5. PICK p \in Seq(Byte), q \in Seq(Byte) :
        p = Upto(l, i - 1) /\ q = Prefixed(l[i]) /\ Len(q) = Len(encode(Len(l[i]))) + Len(l[i])
  BY <1>1, <1>2, ElementSize
<1>6. Len(p \o q) = Len(p) + Len(q) /\ Len(p) \in Nat
  BY ConcatProperties, LenProperties
<1>7. Len(encode(Len(l[i]))) \in Nat /\ Len(l[i]) \in Nat
  BY <1>1, ElementSize
<1>8. \A x, y, z \in Nat : x + (y + z) = x + y + z
  OBVIOUS
<1>9. Len(Upto(l, i)) = Len(Upto(l, i - 1)) + (Len(encode(Len(l[i]))) + Len(l[i]))
  BY ONLY <1>4, <1>5, <1>6, Zenon
<1>10. Len(Upto(l, i - 1)) \in Nat
  BY ONLY <1>5, <1>6, Zenon
<1>11. Off(l, i) = Off(l, i - 1) + Len(encode(Len(l[i]))) + Len(l[i])
  BY ONLY <1>7, <1>8, <1>9, <1>10, Zenon DEF Off
<1>. QED
  BY ONLY <1>1, <1>4, <1>11, Zenon

LEMMA UptoAppend ==
  ASSUME NEW l \in Seq(Elements), NEW e \in Elements, NEW i \in 0..Len(l)
  PROVE  Upto(Append(l, e), i) = Upto(l, i) /\ Off(Append(l, e), i) = Off(l, i)
<1>. DEFINE m == Append(l, e)
            s == SubSeq(l, 1, i)
            t == SubSeq(m, 1, i)
<1>1. /\ Len(l) \in Nat /\ m \in Seq(Elements) /\ Len(m) = Len(l) + 1
      /\ \A j \in 1..Len(l) : m[j] = l[j]
  BY LenProperties, AppendProperties
<1>2. i \in 0..Len(m) /\ \A j \in 1..i : j \in 1..Len(l)
  BY <1>1
<1>. HIDE DEF m
<1>3. /\ s \in Seq(Elements) /\ Len(s) = i /\ \A j \in 1..i : s[j] = l[j]
      /\ t \in Seq(Elements) /\ Len(t) = i /\ \A j \in 1..i : t[j] = m[j]
  <2>1. \A x \in Seq(Elements) : i \in 0..Len(x) =>
          /\ SubSeq(x, 1, i) \in Seq(Elements) /\ Len(SubSeq(x, 1, i)) = i
          /\ \A j \in 1..i : SubSeq(x, 1, i)[j] = x[j]
    <3>. TAKE x \in Seq(Elements)
    <3>. HAVE i \in 0..Len(x)
    <3>. QED
      BY SubSeqProperties, LenProperties
  <2>. QED
    BY <1>1, <1>2, <2>1
<1>4. s = t
  <2>. HIDE DEF s, t
  <2>1. \A j \in 1..i : s[j] = t[j]
    BY <1>1, <1>2, <1>3
  <2>. QED
    BY ONLY <1>3, <2>1, SeqEqual
<1>. QED
  BY <1>4 DEF Upto, Off, m

\* Fewer elements are the beginning of more of them.
LEMMA UptoBegins ==
  ASSUME NEW l \in Seq(Elements), NEW i \in 0..Len(l), NEW k \in i..Len(l)
  PROVE  Begins(Upto(l, i), Upto(l, k)) /\ Off(l, i) <= Off(l, k)
<1>0. Len(l) \in Nat
  BY LenProperties
<1>. DEFINE T == {h \in i..Len(l) : ~Begins(Upto(l, i), Upto(l, h))}
<1>. SUFFICES ASSUME T # {} PROVE FALSE
  BY DEF Begins, Off
<1>1. PICK h \in T : \A m \in T : h <= m
  <2>1. T \subseteq Nat
    <3>1. \A m \in i..Len(l) : m \in Nat
      BY <1>0
    <3>. QED
      BY <3>1, Zenon
  <2>. HIDE DEF T
  <2>. QED
    BY <2>1, LeastNumber
<1>2. h \in i..Len(l) /\ ~Begins(Upto(l, i), Upto(l, h)) /\ h \in 0..Len(l)
  BY <1>0
<1>3. Len(Upto(l, i)) \in Nat
  BY UptoType DEF Off
<1>4. h # i
  BY <1>2, <1>3 DEF Begins
<1>5. h - 1 \in i..Len(l) /\ ~(h <= h - 1) /\ h \in 1..Len(l) /\ h - 1 \in 0..Len(l)
  BY <1>0, <1>2, <1>4
<1>6. Begins(Upto(l, i), Upto(l, h - 1))
  BY <1>1, <1>5
<1>7. PICK s \in Seq(Byte), p \in Seq(Byte), q \in Seq(Byte) :
        /\ s = Upto(l, i) /\ p = Upto(l, h - 1) /\ q = Prefixed(l[h])
        /\ Upto(l, h) = p \o q
  BY <1>5, UptoType, UptoStep, ElementSize
<1>8. /\ Len(p \o q) = Len(p) + Len(q) /\ Len(s) \in Nat /\ Len(p) \in Nat /\ Len(q) \in Nat
      /\ \A j \in 1..Len(p) : (p \o q)[j] = p[j]
  BY ConcatProperties, LenProperties
<1>9. Len(s) <= Len(p) /\ \A j \in 1..Len(s) : p[j] = s[j]
  BY <1>6, <1>7 DEF Begins
<1>10. Len(s) <= Len(p \o q) /\ \A j \in 1..Len(s) : j \in 1..Len(p)
  BY <1>8, <1>9
<1>11. \A j \in 1..Len(s) : (p \o q)[j] = s[j]
  BY <1>8, <1>9, <1>10
<1>12. Begins(s, p \o q)
  BY <1>10, <1>11 DEF Begins
<1>. QED
  BY <1>2, <1>7, <1>12

\* A stretch of a sequence that holds the places of t is t.
LEMMA Stretch ==
  ASSUME NEW S, NEW u, NEW t \in Seq(S), NEW p \in Nat,
         \A j \in 1..Len(t) : u[p + j] = t[j]
  PROVE  SubSeq(u, p + 1, p + Len(t)) = t
<1>1. /\ Len(t) \in Nat /\ p + 1 \in Int /\ p + Len(t) \in Int
      /\ \A j \in 1..Len(t) : t[j] \in S
  BY LenProperties, ElementOfSeq
<1>2. \A i \in (p + 1)..(p + Len(t)) : i - p \in 1..Len(t) /\ p + (i - p) = i
  BY <1>1
<1>3. \A i \in (p + 1)..(p + Len(t)) : u[i] \in S
  <2>. TAKE i \in (p + 1)..(p + Len(t))
  <2>1. i - p \in 1..Len(t) /\ u[p + (i - p)] = t[i - p] /\ p + (i - p) = i
    BY <1>2
  <2>. QED
    BY <1>1, <2>1
<1>. DEFINE v == SubSeq(u, p + 1, p + Len(t))
<1>4. /\ v \in Seq(S)
      /\ Len(v) = IF p + 1 <= p + Len(t) THEN (p + Len(t)) - (p + 1) + 1 ELSE 0
      /\ \A i \in 1..((p + Len(t)) - (p + 1) + 1) : v[i] = u[((p + 1) + i) - 1]
  BY <1>1, <1>3, SubSeqProperties
<1>. HIDE DEF v
<1>5. Len(v) = Len(t)
  BY <1>1, <1>4
<1>6. \A i \in 1..Len(v) : v[i] = t[i]
  <2>. TAKE i \in 1..Len(v)
  <2>1. /\ i \in 1..((p + Len(t)) - (p + 1) + 1) /\ ((p + 1) + i) - 1 = p + i
        /\ i \in 1..Len(t)
    BY <1>1, <1>5
  <2>. QED
    BY <1>4, <2>1
<1>7. v = t
  BY <1>4, <1>5, <1>6, SeqEqual
<1>. QED
  BY <1>7 DEF v

\* Behind the elements before it, a buffer holds the length of an element and its bytes.
Holds(u, p, e) ==
  /\ \A j \in 1..Len(encode(Len(e))) : u[p + j] = encode(Len(e))[j]
  /\ \A j \in 1..Len(e) : u[p + Len(encode(Len(e))) + j] = e[j]

LEMMA ElementHeld ==
  ASSUME NEW l \in Seq(Elements), NEW i \in 1..Len(l), NEW u, Begins(Upto(l, i), u)
  PROVE  Holds(u, Off(l, i - 1), l[i])
<1>1. /\ l[i] \in Elements /\ i - 1 \in 0..Len(l) /\ i \in 0..Len(l)
      /\ Upto(l, i) = Upto(l, i - 1) \o Prefixed(l[i])
  BY UptoStep, LenProperties
<1>2. PICK s \in Seq(Byte), q \in Seq(Byte), h \in Seq(Byte), e \in Seq(Byte) :
        /\ s = Upto(l, i - 1) /\ q = Prefixed(l[i]) /\ h = encode(Len(l[i])) /\ e = l[i]
  BY <1>1, UptoType, ElementSize
<1>3. q = h \o e /\ Upto(l, i) = s \o q /\ Off(l, i - 1) = Len(s)
  BY <1>1, <1>2 DEF Prefixed, Off
<1>4. Len(s) \in Nat /\ Len(h) \in Nat /\ Len(e) \in Nat /\ Len(q) = Len(h) + Len(e)
  BY <1>3, LenProperties, ConcatProperties
<1>5. /\ Len(s \o q) = Len(s) + Len(q)
      /\ \A j \in 1..(Len(s) + Len(q)) : (s \o q)[j] = IF j <= Len(s) THEN s[j] ELSE q[j - Len(s)]
  BY ConcatProperties
<1>6. \A j \in 1..(Len(h) + Len(e)) : q[j] = IF j <= Len(h) THEN h[j] ELSE e[j - Len(h)]
  BY <1>3, ConcatProperties
<1>7. \A j \in 1..Len(q) : u[Len(s) + j] = q[j]
  <2>. TAKE j \in 1..Len(q)
  <2>1. /\ Len(s) + j \in 1..(Len(s) + Len(q)) /\ ~(Len(s) + j <= Len(s))
        /\ (Len(s) + j) - Len(s) = j
    BY <1>4
  <2>2. \A m \in 1..Len(s \o q) : u[m] = (s \o q)[m]
    BY <1>3 DEF Begins
  <2>3. u[Len(s) + j] = (s \o q)[Len(s) + j]
    BY ONLY <1>5, <2>1, <2>2, Zenon
  <2>. QED
    BY ONLY <1>5, <2>1, <2>3, Zenon
<1>8. \A j \in 1..Len(h) : u[Len(s) + j] = h[j]
  <2>. TAKE j \in 1..Len(h)
  <2>1. j \in 1..Len(q) /\ j \in 1..(Len(h) + Len(e)) /\ j <= Len(h)
    BY <1>4
  <2>. QED
    BY <1>6, <1>7, <2>1
<1>9. \A j \in 1..Len(e) : u[Len(s) + Len(h) + j] = e[j]
  <2>. TAKE j \in 1..Len(e)
  <2>1. /\ Len(h) + j \in 1..Len(q) /\ Len(h) + j \in 1..(Len(h) + Len(e))
        /\ ~(Len(h) + j <= Len(h)) /\ (Len(h) + j) - Len(h) = j
        /\ Len(s) + (Len(h) + j) = Len(s) + Len(h) + j
    BY <1>4
  <2>2. u[Len(s) + (Len(h) + j)] = q[Len(h) + j]
    BY <1>7, <2>1
  <2>3. q[Len(h) + j] = e[(Len(h) + j) - Len(h)]
    BY ONLY <1>6, <2>1, Zenon
  <2>. QED
    BY <2>1, <2>2, <2>3
<1>. QED
  BY <1>2, <1>3, <1>8, <1>9 DEF Holds

\* decode_unchecked finds the length, and the bytes behind it are the element.
LEMMA ElementFound ==
  ASSUME NEW e \in Elements, NEW u, NEW p \in Nat, Holds(u, p, e)
  PROVE  /\ LengthAt(u, p) = [value |-> Len(e), width |-> Len(encode(Len(e)))]
         /\ SubSeq(u, p + Len(encode(Len(e))) + 1, p + Len(encode(Len(e))) + Len(e)) = e
<1>1. PICK h \in Seq(Byte) : h = encode(Len(e)) /\ Len(h) \in Nat \ {0}
  BY ElementSize
<1>2. /\ Len(e) \in Nat /\ EncodedLen(h[1]) = Len(h) /\ PayloadValue(h) = Len(e)
      /\ e \in Seq(Byte)
  BY <1>1, ElementSize, SizeReadsBack
<1>3. /\ \A j \in 1..Len(h) : u[p + j] = h[j]
      /\ \A j \in 1..Len(e) : u[p + Len(h) + j] = e[j]
  BY <1>1 DEF Holds
<1>4. u[p + 1] = h[1]
  <2>1. 1 \in 1..Len(h)
    BY <1>1
  <2>. QED
    BY <1>3, <2>1
<1>5. SubSeq(u, p + 1, p + Len(h)) = h
  <2>1. PICK t \in Seq(Byte) : t = h /\ \A j \in 1..Len(t) : u[p + j] = t[j]
    BY ONLY <1>1, <1>3, Zenon
  <2>2. PICK r \in Nat : r = p
    OBVIOUS
  <2>3. \A j \in 1..Len(t) : u[r + j] = t[j]
    BY ONLY <2>1, <2>2, Zenon
  <2>4. SubSeq(u, r + 1, r + Len(t)) = t
    BY ONLY <2>3, Stretch, SMT
  <2>. QED
    BY ONLY <2>1, <2>2, <2>4, Zenon
<1>6. LengthAt(u, p) = [value |-> Len(e), width |-> Len(h)]
  BY ONLY <1>2, <1>4, <1>5 DEF LengthAt
<1>7. SubSeq(u, (p + Len(h)) + 1, (p + Len(h)) + Len(e)) = e
  <2>1. p + Len(h) \in Nat
    BY <1>1
  <2>2. PICK r \in Nat : r = p + Len(h)
    BY <2>1
  <2>3. \A j \in 1..Len(e) : u[r + j] = e[j]
    BY ONLY <1>3, <2>2, Zenon
  <2>4. SubSeq(u, r + 1, r + Len(e)) = e
    BY <1>2, <2>3, Stretch
  <2>. QED
    BY ONLY <2>2, <2>4, Zenon
<1>. QED
  BY ONLY <1>1, <1>6, <1>7, Zenon

-----------------------------------------------------------------------------
(* Witness: the one buffer of a list.                                       *)

IsCanonical(u, l) ==
  /\ u \in Seq(Nat) /\ Len(u) = Len(Contents(l)) + Len(l)
  /\ Begins(Contents(l), u)
  /\ \A i \in 1..Len(l) : u[Len(Contents(l)) + i] = Index(Off(l, i - 1))

LEMMA ContentsType ==
  ASSUME NEW l \in Seq(Elements)
  PROVE  Contents(l) \in Seq(Byte) /\ Contents(l) \in Seq(Nat) /\ Len(Contents(l)) \in Nat
<1>1. Contents(l) \in Seq(Byte)
  <2>1. Len(l) \in 0..Len(l)
    BY LenProperties
  <2>2. Upto(l, Len(l)) \in Seq(Byte)
    BY <2>1, UptoType
  <2>. QED
    BY <2>2, UptoAll
<1>2. Byte \subseteq Nat
  BY RadixAssumption DEF Byte
<1>. QED
  BY <1>1, <1>2, SeqMonotonic, LenProperties

LEMMA CanonicalIs ==
  ASSUME NEW l \in Seq(Elements)
  PROVE  IsCanonical(Canonical(l), l)
<1>. DEFINE c == Contents(l)
            t == [i \in DOMAIN l |-> Index(Len(Contents(SubSeq(l, 1, i - 1))))]
<1>1. /\ Len(l) \in Nat /\ DOMAIN l = 1..Len(l) /\ c \in Seq(Nat) /\ Len(c) \in Nat
      /\ \A i \in 1..Len(l) : i - 1 \in 0..Len(l)
  BY LenProperties, ContentsType
<1>2. \A i \in 1..Len(l) : Off(l, i - 1) \in Nat /\ Index(Off(l, i - 1)) \in Nat
  BY <1>1, UptoType, RadixAssumption DEF Index
<1>3. /\ t \in [1..Len(l) -> Nat]
      /\ \A i \in 1..Len(l) : t[i] = Index(Off(l, i - 1))
  BY <1>1, <1>2 DEF Off, Upto
<1>. HIDE DEF t, c
<1>4. t \in Seq(Nat) /\ Len(t) = Len(l)
  BY <1>1, <1>3, FunctionIsSeq
<1>5. PICK u : u = c \o t
  OBVIOUS
<1>6. u \in Seq(Nat) /\ IsJoined(u, c, t)
  BY <1>1, <1>4, <1>5, JoinedPlaces
<1>7. Len(u) = Len(c) + Len(l) /\ Len(c) <= Len(u)
  BY <1>1, <1>4, <1>6 DEF IsJoined
<1>8. \A i \in 1..Len(l) : u[Len(c) + i] = Index(Off(l, i - 1))
  BY <1>3, <1>4, <1>6 DEF IsJoined
<1>9. Begins(c, u)
  BY <1>6, <1>7 DEF IsJoined, Begins
<1>10. u = Canonical(l)
  BY <1>5 DEF Canonical, c, t
<1>. QED
  BY <1>6, <1>7, <1>8, <1>9, <1>10 DEF IsCanonical, c

LEMMA CanonicalIsTheOne ==
  ASSUME NEW l \in Seq(Elements), NEW u, IsCanonical(u, l)
  PROVE  u = Canonical(l)
<1>1. PICK v : v = Canonical(l)
  OBVIOUS
<1>2. IsCanonical(v, l)
  BY <1>1, CanonicalIs
<1>3. PICK c \in Nat : c = Len(Contents(l))
  BY ContentsType
<1>4. PICK k \in Nat : k = Len(l)
  BY LenProperties
<1>5. /\ u \in Seq(Nat) /\ v \in Seq(Nat) /\ Len(u) = c + k /\ Len(v) = c + k
      /\ \A j \in 1..c : u[j] = Contents(l)[j] /\ v[j] = Contents(l)[j]
      /\ \A i \in 1..k : u[c + i] = Index(Off(l, i - 1)) /\ v[c + i] = Index(Off(l, i - 1))
  BY <1>2, <1>3, <1>4 DEF IsCanonical, Begins
<1>6. \A j \in 1..(c + k) : u[j] = v[j]
  <2>. TAKE j \in 1..(c + k)
  <2>1. CASE j <= c
    <3>1. j \in 1..c
      BY <2>1
    <3>. QED
      BY <1>5, <3>1
  <2>2. CASE ~(j <= c)
    <3>1. j - c \in 1..k /\ c + (j - c) = j
      BY <2>2
    <3>2. u[c + (j - c)] = v[c + (j - c)]
      BY <1>5, <3>1
    <3>. QED
      BY <3>1, <3>2
  <2>. QED
    BY <2>1, <2>2
<1>7. u = v
  BY ONLY <1>5, <1>6, SeqEqual
<1>. QED
  BY <1>1, <1>7

\* The elements before one, in the buffer of all.
LEMMA BeginsAll ==
  ASSUME NEW l \in Seq(Elements), NEW i \in 0..Len(l), NEW u, Begins(Contents(l), u),
         Len(u) \in Nat
  PROVE  Begins(Upto(l, i), u)
<1>1. Len(l) \in i..Len(l)
  BY LenProperties
<1>2. Begins(Upto(l, i), Contents(l))
  BY <1>1, UptoBegins, UptoAll
<1>3. Len(Upto(l, i)) \in Nat /\ Len(Contents(l)) \in Nat
  BY UptoType, ContentsType DEF Off
<1>4. Len(Upto(l, i)) <= Len(u)
  BY <1>2, <1>3 DEF Begins
<1>5. \A j \in 1..Len(Upto(l, i)) : j \in 1..Len(Contents(l))
  BY <1>2, <1>3 DEF Begins
<1>. QED
  BY <1>2, <1>4, <1>5 DEF Begins

\* get finds every element through the index, and nothing behind the last.
LEMMA GetFinds ==
  ASSUME NEW l \in Seq(Elements), content = Canonical(l), indices_start = Len(Contents(l))
  PROVE  /\ \A i \in DOMAIN l : get(i - 1) = l[i]
         /\ get(Len(l)) = <<None>>
<1>1. IsCanonical(content, l)
  BY CanonicalIs
<1>2. PICK c \in Nat : c = Len(Contents(l))
  BY ContentsType
<1>3. PICK k \in Nat : k = Len(l)
  BY LenProperties
<1>4. Len(content) = c + k /\ indices_start = c /\ Begins(Contents(l), content)
  BY <1>1, <1>2, <1>3 DEF IsCanonical
<1>5. get(Len(l)) = <<None>>
  <2>1. indices_start + Len(l) >= Len(content)
    BY <1>3, <1>4
  <2>. QED
    BY <2>1 DEF get
<1>6. ASSUME NEW i \in 1..k PROVE get(i - 1) = l[i]
  <2>1. /\ ~(indices_start + (i - 1) >= Len(content))
        /\ indices_start + (i - 1) + 1 = c + i /\ i \in 1..Len(l)
        /\ i \in 0..Len(l) /\ i - 1 \in 0..Len(l)
    BY <1>3, <1>4
  <2>2. PICK p \in Nat : p = Off(l, i - 1)
    BY <2>1, UptoType
  <2>3. content[c + i] = Index(p)
    BY <1>1, <1>2, <2>1, <2>2 DEF IsCanonical
  <2>4. content[indices_start + (i - 1) + 1] - Radix = p
    BY <2>1, <2>3, RadixAssumption DEF Index
  <2>5. Len(content) \in Nat
    BY <1>4
  <2>6. Holds(content, p, l[i]) /\ l[i] \in Elements
    BY <1>4, <2>1, <2>2, <2>5, BeginsAll, ElementHeld, UptoStep
  <2>7. PICK e \in Elements : e = l[i]
    BY <2>6
  <2>8. PICK w : w = Len(encode(Len(e)))
    OBVIOUS
  <2>9. /\ LengthAt(content, p) = [value |-> Len(e), width |-> w]
        /\ SubSeq(content, p + w + 1, p + w + Len(e)) = e
    BY <2>6, <2>7, <2>8, ElementFound
  <2>10. get(i - 1) = LET len == LengthAt(content, p)
                      IN  SubSeq(content, p + len.width + 1, p + len.width + len.value)
    BY ONLY <2>1, <2>4, Zenon DEF get
  <2>11. LengthAt(content, p).width = w /\ LengthAt(content, p).value = Len(e)
    BY ONLY <2>9
  <2>. QED
    BY ONLY <2>7, <2>9, <2>10, <2>11, Zenon
<1>. QED
  BY <1>3, <1>5, <1>6, LenProperties

\* Walking over the elements as end does.
IsWalk(f, u, k) ==
  f = [i \in 0..k |-> IF i = 0 THEN 0
                      ELSE LET len == LengthAt(u, f[i - 1])
                           IN  f[i - 1] + len.width + len.value]

LEMMA WalkStep ==
  ASSUME NEW l \in Seq(Elements), NEW i \in 1..Len(l)
  PROVE  LET len == LengthAt(Contents(l), Off(l, i - 1))
         IN  Off(l, i - 1) + len.width + len.value = Off(l, i)
<1>1. i \in 0..Len(l) /\ i - 1 \in 0..Len(l) /\ l[i] \in Elements
  BY UptoStep, LenProperties
<1>2. Off(l, i - 1) \in Nat
  BY <1>1, UptoType
<1>3. Begins(Contents(l), Contents(l)) /\ Len(Contents(l)) \in Nat
  BY ContentsType DEF Begins
<1>4. Holds(Contents(l), Off(l, i - 1), l[i])
  BY <1>1, <1>3, BeginsAll, ElementHeld
<1>5. LengthAt(Contents(l), Off(l, i - 1))
        = [value |-> Len(l[i]), width |-> Len(encode(Len(l[i])))]
  BY <1>1, <1>2, <1>4, ElementFound
<1>6. Off(l, i) = Off(l, i - 1) + Len(encode(Len(l[i]))) + Len(l[i])
  BY UptoStep
<1>. QED
  BY ONLY <1>5, <1>6

LEMMA WalkFinds ==
  ASSUME NEW l \in Seq(Elements), content = Contents(l), witness_elements = Len(l)
  PROVE  Walked = [i \in 1..Len(l) |-> Index(Off(l, i - 1))]
<1>. DEFINE k == Len(l)
            g == [i \in 0..k |-> Off(l, i)]
<1>1. k \in Nat
  BY LenProperties
<1>2. IsWalk(g, Contents(l), k)
  <2>1. ASSUME NEW i \in 0..k
        PROVE  g[i] = IF i = 0 THEN 0
                      ELSE LET len == LengthAt(Contents(l), g[i - 1])
                           IN  g[i - 1] + len.width + len.value
    <3>1. CASE i = 0
      BY <3>1, UptoEmpty
    <3>2. CASE i # 0
      <4>1. i \in 1..Len(l) /\ i - 1 \in 0..k
        BY <1>1, <3>2
      <4>2. g[i] = Off(l, i) /\ g[i - 1] = Off(l, i - 1)
        BY <4>1
      <4>. HIDE DEF g
      <4>. QED
        BY <3>2, <4>1, <4>2, WalkStep
    <3>. QED
      BY <3>1, <3>2
  <2>2. g = [i \in 0..k |-> g[i]]
    OBVIOUS
  <2>. HIDE DEF g
  <2>. QED
    BY <2>1, <2>2 DEF IsWalk
<1>3. PICK f : /\ IsWalk(f, Contents(l), k)
               /\ Walked = [i \in 1..k |-> Index(f[i - 1])]
  <2>. DEFINE h == CHOOSE h : IsWalk(h, Contents(l), k)
  <2>. HIDE DEF g
  <2>1. IsWalk(h, Contents(l), k)
    BY <1>2
  <2>. DEFINE W(u, m) == [i \in 1..m |-> Index((CHOOSE j : IsWalk(j, u, m))[i - 1])]
  <2>2. Walked = W(content, witness_elements)
    BY ONLY Zenon DEF Walked, IsWalk
  <2>3. Walked = W(Contents(l), k)
    <3>. HIDE DEF W
    <3>. QED
      BY <2>2
  <2>. QED
    BY <2>1, <2>3
<1>4. \A i \in 0..k : f[i] = IF i = 0 THEN 0
                             ELSE LET len == LengthAt(Contents(l), f[i - 1])
                                  IN  f[i - 1] + len.width + len.value
  BY <1>3, Zenon DEF IsWalk
<1>5. \A i \in 0..k : f[i] = Off(l, i)
  <2>. DEFINE T == {i \in 0..k : f[i] # Off(l, i)}
  <2>. SUFFICES ASSUME T # {} PROVE FALSE
    OBVIOUS
  <2>1. PICK i \in T : \A m \in T : i <= m
    <3>1. T \subseteq Nat
      <4>1. \A m \in 0..k : m \in Nat
        BY <1>1
      <4>. QED
        BY <4>1, Zenon
    <3>. HIDE DEF T
    <3>. QED
      BY <3>1, LeastNumber
  <2>2. i \in 0..k /\ f[i] # Off(l, i)
    OBVIOUS
  <2>3. i # 0
    BY <1>4, <2>2, UptoEmpty
  <2>4. i \in 1..Len(l) /\ i - 1 \in 0..k /\ ~(i <= i - 1)
    BY <1>1, <2>2, <2>3
  <2>5. f[i - 1] = Off(l, i - 1)
    BY <2>1, <2>4
  <2>6. f[i] = LET len == LengthAt(Contents(l), Off(l, i - 1))
               IN  Off(l, i - 1) + len.width + len.value
    BY ONLY <1>4, <2>2, <2>3, <2>5, Zenon
  <2>. QED
    BY <2>2, <2>4, <2>6, WalkStep
<1>6. \A i \in 1..k : i - 1 \in 0..k
  BY <1>1
<1>. QED
  BY <1>3, <1>5, <1>6

-----------------------------------------------------------------------------
(* Witness: the calls that change the list or the buffer.                   *)

\* v is s with t in the places behind the first p.
IsOver(v, s, p, t) ==
  /\ Len(v) = Len(s)
  /\ \A j \in 1..Len(t) : v[p + j] = t[j]
  /\ \A j \in 1..Len(s) : j <= p \/ p + Len(t) < j => v[j] = s[j]

LEMMA OverwritePlaces ==
  ASSUME NEW S, NEW s \in Seq(S), NEW t \in Seq(S), NEW p \in Nat, p + Len(t) <= Len(s),
         NEW u, u = Overwrite(s, p, t)
  PROVE  u \in Seq(S) /\ IsOver(u, s, p, t)
<1>1. /\ Len(s) \in Nat /\ Len(t) \in Nat /\ DOMAIN s = 1..Len(s)
      /\ \A j \in 1..Len(s) : s[j] \in S
      /\ \A j \in 1..Len(t) : t[j] \in S
  BY LenProperties, ElementOfSeq
<1>2. u = [i \in 1..Len(s) |-> IF i \in (p + 1)..(p + Len(t)) THEN t[i - p] ELSE s[i]]
  BY <1>1 DEF Overwrite
<1>3. \A i \in (p + 1)..(p + Len(t)) : i - p \in 1..Len(t)
  BY <1>1
<1>4. u \in [1..Len(s) -> S]
  BY <1>1, <1>2, <1>3
<1>5. u \in Seq(S) /\ Len(u) = Len(s)
  BY <1>1, <1>4, FunctionIsSeq
<1>6. \A j \in 1..Len(t) :
        p + j \in 1..Len(s) /\ p + j \in (p + 1)..(p + Len(t)) /\ (p + j) - p = j
  BY <1>1
<1>7. \A j \in 1..Len(t) : u[p + j] = t[j]
  BY <1>2, <1>6
<1>8. \A j \in 1..Len(s) : j <= p \/ p + Len(t) < j => j \notin (p + 1)..(p + Len(t))
  BY <1>1
<1>9. \A j \in 1..Len(s) : j <= p \/ p + Len(t) < j => u[j] = s[j]
  BY <1>2, <1>8
<1>. QED
  BY <1>5, <1>7, <1>9 DEF IsOver

\* v is what s has in the places p + 1 to q.
IsCut(v, s, p, q) ==
  /\ Len(v) = q - p
  /\ \A i \in 1..(q - p) : v[i] = s[p + i]

LEMMA CutPlaces ==
  ASSUME NEW S, NEW s \in Seq(S), NEW p \in Nat, NEW q \in p..Len(s),
         NEW v, v = SubSeq(s, p + 1, q)
  PROVE  v \in Seq(S) /\ IsCut(v, s, p, q)
<1>1. Len(s) \in Nat /\ \A i \in 1..Len(s) : s[i] \in S
  BY LenProperties, ElementOfSeq
<1>2. p + 1 \in Int /\ q \in Int /\ \A i \in (p + 1)..q : s[i] \in S
  BY <1>1
<1>3. /\ v \in Seq(S) /\ Len(v) = IF p + 1 <= q THEN q - (p + 1) + 1 ELSE 0
      /\ \A i \in 1..(q - (p + 1) + 1) : v[i] = s[((p + 1) + i) - 1]
  BY <1>2, SubSeqProperties
<1>4. q - (p + 1) + 1 = q - p /\ (~(p + 1 <= q) => q - p = 0)
  BY <1>1
<1>5. \A i \in 1..(q - p) : ((p + 1) + i) - 1 = p + i
  BY <1>1
<1>. QED
  BY <1>3, <1>4, <1>5 DEF IsCut

\* push_slice moves the index behind the new element and adds an entry to it.
LEMMA PushIsCanonical ==
  ASSUME NEW l \in Seq(Elements), NEW e \in Elements,
         content = Canonical(l), indices_start = Len(Contents(l)), witness_elements = Len(l)
  PROVE  /\ WithPushed(e) = Canonical(Append(l, e))
         /\ Len(Contents(Append(l, e))) = indices_start + Len(Prefixed(e))
         /\ Append(l, e) \in Seq(Elements) /\ Len(Append(l, e)) = Len(l) + 1
<1>1. Byte \subseteq Nat
  BY RadixAssumption DEF Byte
<1>2. PICK c \in Nat : c = Len(Contents(l))
  BY ContentsType
<1>3. PICK k \in Nat : k = Len(l)
  BY LenProperties
<1>4. PICK new \in Seq(Nat) : new = Prefixed(e) /\ new \in Seq(Byte)
  BY <1>1, ElementSize, SeqMonotonic
<1>5. PICK m \in Nat : m = Len(new)
  BY LenProperties
<1>6. PICK u \in Seq(Nat) : u = content /\ IsCanonical(u, l)
  BY CanonicalIs DEF IsCanonical
<1>7. Len(u) = c + k /\ indices_start = c /\ witness_elements = k
  BY <1>2, <1>3, <1>6 DEF IsCanonical
<1>. DEFINE zeros == [i \in 1..(m + 1) |-> 0]
<1>8. zeros \in Seq(Nat) /\ Len(zeros) = m + 1
  <2>1. zeros \in [1..(m + 1) -> Nat] /\ m + 1 \in Nat
    OBVIOUS
  <2>. HIDE DEF zeros
  <2>. QED
    BY <2>1, FunctionIsSeq
<1>. HIDE DEF zeros
<1>9. PICK resized \in Seq(Nat) :
        /\ resized = u \o zeros
        /\ Len(resized) = c + k + (m + 1) /\ \A i \in 1..(c + k) : resized[i] = u[i]
  <2>1. PICK r : r = u \o zeros
    OBVIOUS
  <2>2. r \in Seq(Nat) /\ IsJoined(r, u, zeros)
    BY <1>8, <2>1, JoinedPlaces
  <2>. QED
    BY <1>7, <1>8, <2>1, <2>2 DEF IsJoined
<1>10. PICK behind \in Seq(Nat) :
        /\ behind = SubSeq(resized, c + 1, Len(resized)) /\ Len(behind) = k + (m + 1)
        /\ \A i \in 1..(k + (m + 1)) : behind[i] = resized[c + i]
  <2>1. PICK z \in Nat : z = Len(resized)
    BY <1>9
  <2>2. z = c + k + (m + 1)
    BY <1>9, <2>1
  <2>3. z \in c..z /\ z - c = k + (m + 1)
    BY <2>2
  <2>4. PICK v : v = SubSeq(resized, c + 1, z)
    OBVIOUS
  <2>5. v \in Seq(Nat) /\ IsCut(v, resized, c, z)
    BY <2>1, <2>3, <2>4, CutPlaces
  <2>. QED
    BY <2>1, <2>3, <2>4, <2>5 DEF IsCut
<1>11. PICK front \in Seq(Nat) :
        /\ front = SubSeq(resized, 1, c) /\ Len(front) = c
        /\ \A i \in 1..c : front[i] = resized[i]
  <2>1. 0 \in Nat /\ c \in 0..Len(resized) /\ c - 0 = c /\ 0 + 1 = 1 /\ \A i \in 1..c : 0 + i = i
    BY <1>9
  <2>2. PICK v : v = SubSeq(resized, 0 + 1, c)
    OBVIOUS
  <2>3. v \in Seq(Nat) /\ IsCut(v, resized, 0, c)
    BY <2>1, <2>2, CutPlaces
  <2>. QED
    BY <2>1, <2>2, <2>3 DEF IsCut
<1>12. PICK rotated \in Seq(Nat) :
        /\ rotated = RotateRight(behind, m) /\ Len(rotated) = m + (k + 1)
        /\ \A i \in 1..(k + 1) : rotated[m + i] = behind[i]
  <2>0. PICK z \in Nat : z = Len(behind) /\ z = k + (m + 1)
    BY <1>10
  <2>1. /\ z - m = k + 1 /\ k + 1 \in 0..z /\ (k + 1) - 0 = k + 1 /\ 0 \in Nat
        /\ z \in (k + 1)..z /\ z - (k + 1) = m /\ 0 + 1 = 1
        /\ k + 1 \in Nat /\ \A i \in 1..(k + 1) : 0 + i = i
    BY <2>0
  <2>2. PICK x \in Seq(Nat) : x = SubSeq(behind, (k + 1) + 1, z) /\ Len(x) = m
    <3>1. PICK p \in Nat : p = k + 1
      OBVIOUS
    <3>2. z \in p..Len(behind) /\ z - p = m
      BY <2>0, <2>1, <3>1
    <3>3. PICK v : v = SubSeq(behind, p + 1, z)
      OBVIOUS
    <3>4. v \in Seq(Nat) /\ IsCut(v, behind, p, z)
      BY <3>2, <3>3, CutPlaces
    <3>. QED
      BY <3>1, <3>2, <3>3, <3>4 DEF IsCut
  <2>3. PICK y \in Seq(Nat) :
          y = SubSeq(behind, 1, k + 1) /\ Len(y) = k + 1 /\ \A i \in 1..(k + 1) : y[i] = behind[i]
    <3>1. PICK q \in Nat : q = k + 1
      OBVIOUS
    <3>2. q \in 0..Len(behind) /\ q - 0 = q /\ \A i \in 1..q : 0 + i = i
      BY <2>0, <2>1, <3>1
    <3>3. PICK v : v = SubSeq(behind, 0 + 1, q)
      OBVIOUS
    <3>4. v \in Seq(Nat) /\ IsCut(v, behind, 0, q)
      BY <2>1, <3>2, <3>3, CutPlaces
    <3>5. Len(v) = q /\ \A i \in 1..q : v[i] = behind[i]
      BY ONLY <3>2, <3>4, Zenon DEF IsCut
    <3>. QED
      BY <2>1, <3>1, <3>3, <3>4, <3>5
  <2>4. PICK r : r = x \o y
    OBVIOUS
  <2>5. r \in Seq(Nat) /\ IsJoined(r, x, y)
    BY <2>4, JoinedPlaces
  <2>6. r = RotateRight(behind, m)
    BY ONLY <2>0, <2>1, <2>2, <2>3, <2>4, Zenon DEF RotateRight
  <2>7. Len(r) = m + (k + 1) /\ \A i \in 1..(k + 1) : r[m + i] = y[i]
    BY ONLY <2>2, <2>3, <2>5, Zenon DEF IsJoined
  <2>. QED
    BY <2>3, <2>5, <2>6, <2>7
<1>13. PICK moved \in Seq(Nat) :
        /\ moved = front \o rotated /\ Len(moved) = c + m + k + 1
        /\ \A i \in 1..c : moved[i] = u[i]
        /\ \A i \in 1..k : moved[c + m + i] = u[c + i]
  <2>1. PICK r : r = front \o rotated
    OBVIOUS
  <2>2. r \in Seq(Nat) /\ IsJoined(r, front, rotated)
    BY <2>1, JoinedPlaces
  <2>3. Len(r) = c + m + k + 1
    BY <1>11, <1>12, <2>2 DEF IsJoined
  <2>4. \A i \in 1..c : r[i] = u[i]
    <3>1. \A i \in 1..c : i \in 1..(c + k)
      OBVIOUS
    <3>. QED
      BY <1>9, <1>11, <2>2, <3>1 DEF IsJoined
  <2>5. ASSUME NEW i \in 1..k PROVE r[c + m + i] = u[c + i]
    <3>1. /\ m + i \in 1..(m + (k + 1)) /\ i \in 1..(k + 1) /\ i \in 1..(k + (m + 1))
          /\ c + i \in 1..(c + k) /\ c + m + i = c + (m + i)
      OBVIOUS
    <3>2. r[c + (m + i)] = rotated[m + i]
      BY <1>11, <1>12, <2>2, <3>1 DEF IsJoined
    <3>. QED
      BY <1>9, <1>10, <1>12, <3>1, <3>2
  <2>. QED
    BY <2>1, <2>2, <2>3, <2>4, <2>5
<1>14. Index(c) \in Nat /\ <<Index(c)>> \in Seq(Nat) /\ Len(<<Index(c)>>) = 1
       /\ <<Index(c)>>[1] = Index(c)
  BY RadixAssumption DEF Index
<1>15. PICK indexed \in Seq(Nat) :
        /\ indexed = Overwrite(moved, c + m + k, <<Index(c)>>) /\ Len(indexed) = c + m + k + 1
        /\ indexed[c + m + k + 1] = Index(c)
        /\ \A j \in 1..(c + m + k) : indexed[j] = moved[j]
  <2>1. PICK t \in Seq(Nat) : t = <<Index(c)>> /\ Len(t) = 1 /\ t[1] = Index(c)
    BY <1>14
  <2>2. PICK p \in Nat : p = c + m + k
    OBVIOUS
  <2>3. Len(moved) = p + 1 /\ p + Len(t) <= Len(moved) /\ 1 \in 1..Len(t)
    BY <1>13, <2>1, <2>2
  <2>4. PICK v : v = Overwrite(moved, p, t)
    OBVIOUS
  <2>6. v \in Seq(Nat) /\ IsOver(v, moved, p, t)
    BY <2>3, <2>4, OverwritePlaces
  <2>5. \A j \in 1..p : j \in 1..Len(moved) /\ j <= p
    BY <2>3
  <2>7. v[p + 1] = t[1] /\ \A j \in 1..p : v[j] = moved[j]
    BY ONLY <2>3, <2>5, <2>6, Zenon DEF IsOver
  <2>8. Len(v) = Len(moved)
    BY <2>6 DEF IsOver
  <2>. QED
    BY <1>13, <2>1, <2>2, <2>4, <2>6, <2>7, <2>8
<1>16. PICK last \in Seq(Nat) :
        /\ last = Overwrite(indexed, c, new) /\ Len(last) = c + m + k + 1
        /\ \A j \in 1..c : last[j] = u[j]
        /\ \A j \in 1..m : last[c + j] = new[j]
        /\ \A i \in 1..k : last[c + m + i] = u[c + i]
        /\ last[c + m + (k + 1)] = Index(c)
  <2>1. c + Len(new) <= Len(indexed)
    BY <1>5, <1>15
  <2>2. PICK v : v = Overwrite(indexed, c, new)
    OBVIOUS
  <2>3. /\ v \in Seq(Nat) /\ Len(v) = Len(indexed)
        /\ \A j \in 1..Len(new) : v[c + j] = new[j]
        /\ \A j \in 1..Len(indexed) : j <= c \/ c + Len(new) < j => v[j] = indexed[j]
    <3>1. v \in Seq(Nat) /\ IsOver(v, indexed, c, new)
      BY <2>1, <2>2, OverwritePlaces
    <3>. QED
      BY ONLY <3>1, Zenon DEF IsOver
  <2>0. PICK z \in Nat : z = Len(indexed) /\ z = c + m + k + 1 /\ Len(new) = m
    BY <1>5, <1>15
  <2>4. \A j \in 1..c : j \in 1..z /\ j <= c /\ j \in 1..(c + m + k)
    BY <2>0
  <2>5. \A i \in 1..k : /\ c + m + i \in 1..z /\ c + m < c + m + i
                        /\ c + m + i \in 1..(c + m + k)
    BY <2>0
  <2>6. /\ c + m + k + 1 \in 1..z /\ c + m < c + m + k + 1
        /\ c + m + (k + 1) = c + m + k + 1
    BY <2>0
  <2>7. \A j \in 1..c : v[j] = u[j]
    BY <2>0, <1>13, <1>15, <2>3, <2>4
  <2>8. \A i \in 1..k : v[c + m + i] = u[c + i]
    BY <2>0, <1>13, <1>15, <2>3, <2>5
  <2>9. v[c + m + (k + 1)] = Index(c)
    BY <2>0, <1>15, <2>3, <2>6
  <2>. QED
    BY <1>5, <1>15, <2>2, <2>3, <2>7, <2>8, <2>9
<1>17. last = WithPushed(e)
  BY ONLY <1>4, <1>5, <1>6, <1>7, <1>9, <1>10, <1>11, <1>12, <1>13, <1>15, <1>16, Zenon
     DEF WithPushed, zeros
<1>18. /\ Append(l, e) \in Seq(Elements) /\ Len(Append(l, e)) = k + 1
       /\ Contents(Append(l, e)) = Contents(l) \o new
  BY <1>3, <1>4, AppendProperties, ContentsAppend
<1>19. PICK a \in Seq(Elements) : a = Append(l, e)
  BY <1>18
<1>20. PICK con \in Seq(Nat) : con = Contents(l) /\ Len(con) = c
  BY <1>2, ContentsType
<1>21. PICK all \in Seq(Nat) : all = con \o new /\ IsJoined(all, con, new)
  <2>1. PICK r : r = con \o new
    OBVIOUS
  <2>. QED
    BY <2>1, JoinedPlaces
<1>22. Contents(a) = all /\ Len(all) = c + m /\ Len(a) = k + 1
  BY <1>5, <1>18, <1>19, <1>20, <1>21 DEF IsJoined
<1>23. Begins(all, last)
  <2>1. Len(all) <= Len(last)
    <3>1. \A p, q, r \in Nat : p + q <= p + q + r + 1
      OBVIOUS
    <3>2. Len(all) = c + m /\ Len(last) = c + m + k + 1
      BY ONLY <1>16, <1>22
    <3>. QED
      BY ONLY <1>1, <1>2, <1>4, <1>5, <3>1, <3>2, Zenon
  <2>2. \A j \in 1..c : con[j] = u[j]
    BY <1>6, <1>20 DEF IsCanonical, Begins
  <2>3. ASSUME NEW j \in 1..(c + m) PROVE last[j] = all[j]
    <3>1. CASE j <= c
      <4>1. j \in 1..c
        BY <3>1
      <4>. QED
        BY <1>16, <1>20, <1>21, <2>2, <4>1 DEF IsJoined
    <3>2. CASE ~(j <= c)
      <4>1. j - c \in 1..m /\ c + (j - c) = j
        BY <3>2
      <4>2. last[c + (j - c)] = new[j - c] /\ all[c + (j - c)] = new[j - c]
        BY <1>5, <1>16, <1>20, <1>21, <4>1 DEF IsJoined
      <4>. QED
        BY <4>1, <4>2
    <3>. QED
      BY <3>1, <3>2
  <2>. QED
    BY <1>22, <2>1, <2>3 DEF Begins
<1>24. ASSUME NEW i \in 1..(k + 1) PROVE last[c + m + i] = Index(Off(a, i - 1))
  <2>1. i - 1 \in 0..Len(l)
    BY <1>3
  <2>2. Off(a, i - 1) = Off(l, i - 1)
    BY <1>19, <2>1, UptoAppend
  <2>3. CASE i = k + 1
    <3>1. i - 1 = k
      BY <2>3
    <3>2. Off(l, i - 1) = c
      BY <1>2, <1>3, <3>1, UptoAll
    <3>. QED
      BY <1>16, <2>2, <2>3, <3>2
  <2>4. CASE i # k + 1
    <3>1. i \in 1..k
      BY <2>4
    <3>2. u[c + i] = Index(Off(l, i - 1))
      BY <1>2, <1>3, <1>6, <3>1 DEF IsCanonical
    <3>. QED
      BY <1>16, <2>2, <3>1, <3>2
  <2>. QED
    BY <2>3, <2>4
<1>25. IsCanonical(last, a)
  <2>1. Len(last) = Len(Contents(a)) + Len(a)
    BY <1>16, <1>22
  <2>. QED
    BY <1>22, <1>23, <1>24, <2>1 DEF IsCanonical
<1>26. last = Canonical(a)
  BY <1>25, CanonicalIsTheOne
<1>. QED
  BY <1>3, <1>4, <1>5, <1>7, <1>17, <1>18, <1>19, <1>22, <1>26

\* What from_slice has written after i elements.
FilledTo(l, i) ==
  LET size == Len(Contents(l))
  IN  [j \in 1..(size + Len(l)) |->
         IF j <= Off(l, i) THEN Contents(l)[j]
         ELSE IF j \in (size + 1)..(size + i) THEN Index(Off(l, (j - size) - 1)) ELSE 0]

FillStep(l, size, f, i) ==
  IF i = 0
    THEN [buffer |-> [j \in 1..(size + Len(l)) |-> 0], cursor |-> 0]
    ELSE [buffer |-> Overwrite(Overwrite(f[i - 1].buffer, size + i - 1, <<Index(f[i - 1].cursor)>>),
                               f[i - 1].cursor, Prefixed(l[i])),
          cursor |-> f[i - 1].cursor + Len(Prefixed(l[i]))]

IsFill(f, l, size) == f = [i \in 0..Len(l) |-> FillStep(l, size, f, i)]

\* What the lengths of a list and its elements are.
LEMMA FillSizes ==
  ASSUME NEW l \in Seq(Elements), NEW i \in 0..Len(l)
  PROVE  /\ Off(l, i) \in Nat /\ Len(Contents(l)) \in Nat /\ Len(l) \in Nat
         /\ Off(l, i) <= Len(Contents(l))
         /\ Begins(Upto(l, i), Contents(l))
<1>1. Len(l) \in Nat /\ Len(l) \in i..Len(l)
  BY LenProperties
<1>. QED
  BY <1>1, UptoType, ContentsType, UptoBegins, UptoAll

LEMMA FilledToType ==
  ASSUME NEW l \in Seq(Elements), NEW i \in 0..Len(l)
  PROVE  FilledTo(l, i) \in Seq(Nat) /\ Len(FilledTo(l, i)) = Len(Contents(l)) + Len(l)
<1>. DEFINE size == Len(Contents(l))
            v == FilledTo(l, i)
<1>1. size \in Nat /\ Len(l) \in Nat /\ Off(l, i) \in Nat /\ Off(l, i) <= size
  BY FillSizes
<1>2. \A j \in 1..size : Contents(l)[j] \in Nat
  BY ContentsType, ElementOfSeq
<1>3. \A h \in 0..Len(l) : Index(Off(l, h)) \in Nat
  BY UptoType, RadixAssumption DEF Index
<1>. HIDE DEF size
<1>4. ASSUME NEW j \in 1..(size + Len(l))
      PROVE  (IF j <= Off(l, i) THEN Contents(l)[j]
              ELSE IF j \in (size + 1)..(size + i) THEN Index(Off(l, (j - size) - 1)) ELSE 0) \in Nat
  <2>1. CASE j <= Off(l, i)
    <3>1. j \in 1..size
      BY <1>1, <2>1
    <3>. QED
      BY <1>2, <2>1, <3>1
  <2>2. CASE ~(j <= Off(l, i)) /\ j \in (size + 1)..(size + i)
    <3>1. (j - size) - 1 \in 0..Len(l)
      BY <1>1, <2>2
    <3>. QED
      BY <1>3, <2>2, <3>1
  <2>. QED
    BY <2>1, <2>2
<1>5. v = [j \in 1..(size + Len(l)) |->
             IF j <= Off(l, i) THEN Contents(l)[j]
             ELSE IF j \in (size + 1)..(size + i) THEN Index(Off(l, (j - size) - 1)) ELSE 0]
  BY DEF FilledTo, size
<1>6. v \in [1..(size + Len(l)) -> Nat]
  BY <1>4, <1>5
<1>7. size + Len(l) \in Nat
  BY <1>1
<1>. HIDE DEF v
<1>8. v \in Seq(Nat) /\ Len(v) = size + Len(l)
  BY <1>6, <1>7, FunctionIsSeq
<1>. QED
  BY <1>8 DEF v, size

LEMMA FilledToGoes ==
  ASSUME NEW l \in Seq(Elements), NEW i \in 1..Len(l)
  PROVE  LET size == Len(Contents(l))
         IN  Overwrite(Overwrite(FilledTo(l, i - 1), size + i - 1, <<Index(Off(l, i - 1))>>),
                       Off(l, i - 1), Prefixed(l[i]))
               = FilledTo(l, i)
<1>1. PICK size \in Nat : size = Len(Contents(l))
  BY ContentsType
<1>2. PICK k \in Nat : k = Len(l)
  BY LenProperties
<1>3. i \in 0..Len(l) /\ i - 1 \in 0..Len(l) /\ l[i] \in Elements /\ i \in 1..k /\ i - 1 \in Nat
  BY <1>2, UptoStep
<1>4. PICK o \in Nat : o = Off(l, i - 1)
  BY <1>3, UptoType
<1>5. PICK new \in Seq(Nat) : new = Prefixed(l[i]) /\ Len(new) \in Nat
  <2>1. Byte \subseteq Nat
    BY RadixAssumption DEF Byte
  <2>. QED
    BY <1>3, <2>1, ElementSize, SeqMonotonic, LenProperties
<1>6. PICK m \in Nat : m = Len(new)
  BY <1>5
<1>7. Off(l, i) = o + m /\ o + m <= size
  <2>1. Off(l, i) = Off(l, i - 1) + Len(encode(Len(l[i]))) + Len(l[i])
    BY UptoStep
  <2>2. /\ Len(Prefixed(l[i])) = Len(encode(Len(l[i]))) + Len(l[i])
        /\ Len(encode(Len(l[i]))) \in Nat /\ Len(l[i]) \in Nat
    BY <1>3, ElementSize
  <2>3. Off(l, i) = o + m
    <3>1. PICK w \in Nat, x \in Nat : w = Len(encode(Len(l[i]))) /\ x = Len(l[i])
      BY <2>2
    <3>2. m = w + x /\ Off(l, i) = o + w + x
      BY ONLY <1>4, <1>5, <1>6, <2>1, <2>2, <3>1, Zenon
    <3>. QED
      BY <3>2
  <2>4. Off(l, i) <= size
    BY <1>1, <1>3, FillSizes
  <2>. QED
    BY <2>3, <2>4
<1>8. \A j \in 1..m : Contents(l)[o + j] = new[j]
  <2>1. Begins(Upto(l, i), Contents(l)) /\ Upto(l, i) = Upto(l, i - 1) \o Prefixed(l[i])
    BY <1>3, FillSizes, UptoStep
  <2>2. PICK s \in Seq(Nat) : s = Upto(l, i - 1) /\ Len(s) = o
    <3>1. Byte \subseteq Nat
      BY RadixAssumption DEF Byte
    <3>. QED
      BY <1>3, <1>4, <3>1, UptoType, SeqMonotonic DEF Off
  <2>3. PICK u : u = s \o new
    OBVIOUS
  <2>4. IsJoined(u, s, new) /\ u = Upto(l, i)
    BY <1>5, <2>1, <2>2, <2>3, JoinedPlaces
  <2>5. \A j \in 1..m : o + j \in 1..Len(u)
    BY <1>6, <2>2, <2>4 DEF IsJoined
  <2>. QED
    BY <1>6, <2>1, <2>2, <2>4, <2>5 DEF IsJoined, Begins
<1>9. PICK old \in Seq(Nat) : old = FilledTo(l, i - 1) /\ Len(old) = size + k
  BY <1>1, <1>2, <1>3, FilledToType
<1>10. PICK done \in Seq(Nat) : done = FilledTo(l, i) /\ Len(done) = size + k
  BY <1>1, <1>2, <1>3, FilledToType
<1>11. \A j \in 1..(size + k) :
         /\ old[j] = IF j <= o THEN Contents(l)[j]
                     ELSE IF j \in (size + 1)..(size + (i - 1)) THEN Index(Off(l, (j - size) - 1)) ELSE 0
         /\ done[j] = IF j <= o + m THEN Contents(l)[j]
                      ELSE IF j \in (size + 1)..(size + i) THEN Index(Off(l, (j - size) - 1)) ELSE 0
  BY <1>1, <1>2, <1>4, <1>7, <1>9, <1>10 DEF FilledTo
<1>12. PICK t \in Seq(Nat) : t = <<Index(o)>> /\ Len(t) = 1 /\ t[1] = Index(o)
  <2>1. Index(o) \in Nat
    BY RadixAssumption DEF Index
  <2>2. \A x \in Nat : <<x>> \in Seq(Nat) /\ Len(<<x>>) = 1 /\ <<x>>[1] = x
    OBVIOUS
  <2>. QED
    BY ONLY <2>1, <2>2, Zenon
<1>13. PICK p \in Nat : p = size + i - 1 /\ p = size + (i - 1) /\ p + 1 = size + i
  BY <1>3
<1>14. PICK indexed : indexed = Overwrite(old, p, t)
  OBVIOUS
<1>15. indexed \in Seq(Nat) /\ IsOver(indexed, old, p, t)
  <2>1. p + Len(t) <= Len(old)
    BY <1>3, <1>9, <1>12, <1>13
  <2>. QED
    BY <1>14, <2>1, OverwritePlaces
<1>16. /\ Len(indexed) = size + k /\ indexed[size + i] = Index(o)
       /\ \A j \in 1..(size + k) : j # size + i => indexed[j] = old[j]
  <2>1. 1 \in 1..Len(t) /\ indexed[p + 1] = t[1]
    BY <1>12, <1>15 DEF IsOver
  <2>2. \A j \in 1..(size + k) : j # size + i => j <= p \/ p + Len(t) < j
    BY <1>3, <1>12, <1>13
  <2>. QED
    BY <1>9, <1>12, <1>13, <1>15, <2>1, <2>2 DEF IsOver
<1>17. PICK last : last = Overwrite(indexed, o, new)
  OBVIOUS
<1>18. last \in Seq(Nat) /\ IsOver(last, indexed, o, new)
  <2>1. o + Len(new) <= Len(indexed)
    BY <1>6, <1>7, <1>16
  <2>. QED
    BY <1>15, <1>17, <2>1, OverwritePlaces
<1>19. /\ Len(last) = size + k /\ \A j \in 1..m : last[o + j] = new[j]
       /\ \A j \in 1..(size + k) : j <= o \/ o + m < j => last[j] = indexed[j]
  BY <1>6, <1>16, <1>18 DEF IsOver
<1>20. ASSUME NEW j \in 1..(size + k) PROVE last[j] = done[j]
  <2>1. CASE j <= o
    <3>1. j # size + i /\ j <= o + m
      BY <1>3, <1>7, <2>1
    <3>. QED
      BY <1>11, <1>16, <1>19, <2>1, <3>1
  <2>2. CASE ~(j <= o) /\ j <= o + m
    <3>1. j - o \in 1..m /\ o + (j - o) = j
      BY <2>2
    <3>2. last[o + (j - o)] = new[j - o] /\ Contents(l)[o + (j - o)] = new[j - o]
      BY <1>8, <1>19, <3>1
    <3>. QED
      BY <1>11, <2>2, <3>1, <3>2
  <2>3. CASE j = size + i
    <3>1. /\ o + m < j /\ ~(j <= o + m) /\ j \in (size + 1)..(size + i)
          /\ (j - size) - 1 = i - 1
      BY <1>3, <1>7, <2>3
    <3>2. last[j] = Index(o)
      BY <1>16, <1>19, <2>3, <3>1
    <3>3. done[j] = Index(Off(l, (j - size) - 1))
      BY ONLY <1>11, <1>20, <3>1, Zenon
    <3>. QED
      BY <1>4, <3>1, <3>2, <3>3
  <2>4. CASE ~(j <= o + m) /\ j # size + i
    <3>1. /\ o + m < j /\ ~(j <= o)
          /\ j \in (size + 1)..(size + i) <=> j \in (size + 1)..(size + (i - 1))
      BY <1>3, <2>4
    <3>2. last[j] = old[j]
      BY <1>16, <1>19, <2>4, <3>1
    <3>. QED
      BY ONLY <1>11, <1>20, <2>4, <3>1, <3>2, Zenon
  <2>. QED
    BY <2>1, <2>2, <2>3, <2>4
<1>21. last = done
  BY ONLY <1>10, <1>18, <1>19, <1>20, SeqEqual
<1>. QED
  BY ONLY <1>1, <1>4, <1>5, <1>9, <1>10, <1>12, <1>13, <1>14, <1>17, <1>21, Zenon

\* from_slice leaves the buffer of the list.
LEMMA FromSliceIsCanonical ==
  ASSUME list \in Seq(Elements), FromSlice
  PROVE  content' = Canonical(list) /\ indices_start' = Len(Contents(list))
<1>. DEFINE l == list
            k == Len(list)
            size == Len(Contents(list))
            g == [i \in 0..k |-> [buffer |-> FilledTo(list, i), cursor |-> Off(list, i)]]
<1>1. k \in Nat /\ size \in Nat
  BY LenProperties, ContentsType
<1>2. ASSUME NEW i \in 0..k, NEW f, i # 0 => f[i - 1] = g[i - 1]
      PROVE  FillStep(list, size, f, i) = g[i]
  <2>0. g[i] = [buffer |-> FilledTo(list, i), cursor |-> Off(list, i)]
    OBVIOUS
  <2>1. CASE i = 0
    <3>1. FilledTo(list, 0) = [j \in 1..(size + Len(list)) |-> 0] /\ Off(list, 0) = 0
      <4>1. Off(list, 0) = 0
        BY UptoEmpty
      <4>2. \A j \in 1..(size + Len(list)) : ~(j <= 0) /\ j \notin (size + 1)..(size + 0)
        BY <1>1
      <4>. QED
        BY <4>1, <4>2 DEF FilledTo
    <3>. QED
      BY <2>0, <2>1, <3>1 DEF FillStep
  <2>2. CASE i # 0
    <3>1. i \in 1..Len(list) /\ i - 1 \in 0..k
      BY <1>1, <2>2
    <3>2. g[i - 1] = [buffer |-> FilledTo(list, i - 1), cursor |-> Off(list, i - 1)]
      BY <3>1
    <3>. HIDE DEF g
    <3>3. /\ f[i - 1].buffer = FilledTo(list, i - 1)
          /\ f[i - 1].cursor = Off(list, i - 1)
      BY <1>2, <2>2, <3>2
    <3>4. Off(list, i - 1) + Len(Prefixed(list[i])) = Off(list, i)
      <4>1. /\ list[i] \in Elements /\ i - 1 \in 0..Len(list)
            /\ Off(list, i) = Off(list, i - 1) + Len(encode(Len(list[i]))) + Len(list[i])
        BY <3>1, UptoStep
      <4>2. PICK w \in Nat, x \in Nat : /\ w = Len(encode(Len(list[i]))) /\ x = Len(list[i])
                                        /\ Len(Prefixed(list[i])) = w + x
        BY <4>1, ElementSize
      <4>3. PICK o \in Nat : o = Off(list, i - 1)
        BY <4>1, UptoType
      <4>4. Off(list, i) = o + w + x
        BY ONLY <4>1, <4>2, <4>3, Zenon
      <4>5. \A a, b, c \in Nat : a + (b + c) = a + b + c
        OBVIOUS
      <4>6. Off(list, i - 1) + Len(Prefixed(list[i])) = o + (w + x)
        BY ONLY <4>2, <4>3, Zenon
      <4>7. o + (w + x) = o + w + x
        BY <4>5
      <4>. QED
        BY ONLY <4>4, <4>6, <4>7, Zenon
    <3>5. Overwrite(Overwrite(FilledTo(list, i - 1), size + i - 1, <<Index(Off(list, i - 1))>>),
                    Off(list, i - 1), Prefixed(list[i]))
            = FilledTo(list, i)
      BY <3>1, FilledToGoes
    <3>6. FillStep(list, size, f, i)
            = [buffer |-> Overwrite(Overwrite(f[i - 1].buffer, size + i - 1,
                                              <<Index(f[i - 1].cursor)>>),
                                    f[i - 1].cursor, Prefixed(list[i])),
               cursor |-> f[i - 1].cursor + Len(Prefixed(list[i]))]
      BY <2>2, Zenon DEF FillStep
    <3>. QED
      BY ONLY <2>0, <3>3, <3>4, <3>5, <3>6, Zenon
  <2>. QED
    BY <2>1, <2>2
<1>3. \A i \in 0..k : FillStep(list, size, g, i) = g[i]
  <2>. HIDE DEF g
  <2>. QED
    BY <1>2
<1>4. IsFill(g, list, size)
  <2>1. g = [i \in 0..k |-> g[i]]
    OBVIOUS
  <2>. HIDE DEF g
  <2>. QED
    BY <1>3, <2>1 DEF IsFill
<1>5. PICK f : /\ IsFill(f, list, size)
               /\ content' = f[k].buffer /\ indices_start' = size
  <2>. DEFINE h == CHOOSE h : IsFill(h, list, size)
  <2>. HIDE DEF g
  <2>1. IsFill(h, list, size)
    BY <1>4
  <2>2. content' = h[k].buffer /\ indices_start' = size
    BY Zenon DEF FromSlice, IsFill, FillStep
  <2>. QED
    BY <2>1, <2>2
<1>6. \A i \in 0..k : f[i] = FillStep(list, size, f, i)
  BY <1>5, Zenon DEF IsFill
<1>7. f[k] = g[k]
  <2>. DEFINE T == {i \in 0..k : f[i] # g[i]}
  <2>. SUFFICES ASSUME T # {} PROVE FALSE
    <3>1. k \in 0..k
      BY <1>1
    <3>. HIDE DEF g
    <3>. QED
      BY <3>1
  <2>1. PICK i \in T : \A m \in T : i <= m
    <3>1. T \subseteq Nat
      <4>1. \A m \in 0..k : m \in Nat
        BY <1>1
      <4>. QED
        BY <4>1, Zenon
    <3>. HIDE DEF T
    <3>. QED
      BY <3>1, LeastNumber
  <2>. HIDE DEF g
  <2>2. i \in 0..k /\ f[i] # g[i]
    OBVIOUS
  <2>3. i # 0 => f[i - 1] = g[i - 1]
    <3>. SUFFICES ASSUME i # 0 PROVE f[i - 1] = g[i - 1]
      OBVIOUS
    <3>1. i - 1 \in 0..k /\ ~(i <= i - 1)
      BY <1>1, <2>2
    <3>. QED
      BY <2>1, <3>1
  <2>. QED
    BY <1>2, <1>6, <2>2, <2>3
<1>8. content' = FilledTo(list, k)
  <2>1. k \in 0..k
    BY <1>1
  <2>2. g[k].buffer = FilledTo(list, k)
    BY <2>1
  <2>. HIDE DEF g
  <2>. QED
    BY <1>5, <1>7, <2>2
<1>9. IsCanonical(FilledTo(list, k), list)
  <2>1. k \in 0..Len(list) /\ Off(list, k) = size
    BY <1>1, UptoAll
  <2>2. PICK u \in Seq(Nat) : u = FilledTo(list, k) /\ Len(u) = size + k
    BY <2>1, FilledToType
  <2>3. \A j \in 1..(size + k) :
          u[j] = IF j <= size THEN Contents(list)[j]
                 ELSE IF j \in (size + 1)..(size + k) THEN Index(Off(list, (j - size) - 1)) ELSE 0
    BY <2>1, <2>2 DEF FilledTo
  <2>. HIDE DEF size, k
  <2>4. \A j \in 1..size : j \in 1..(size + k) /\ j <= size
    BY <1>1
  <2>5. \A i \in 1..k : /\ size + i \in 1..(size + k) /\ ~(size + i <= size)
                        /\ size + i \in (size + 1)..(size + k) /\ (size + i) - size = i
    BY <1>1
  <2>6. \A j \in 1..size : u[j] = Contents(list)[j]
    BY <2>3, <2>4
  <2>7. \A i \in 1..k : u[size + i] = Index(Off(list, i - 1))
    <3>. TAKE i \in 1..k
    <3>1. u[size + i] = Index(Off(list, ((size + i) - size) - 1))
      BY ONLY <2>3, <2>5, Zenon
    <3>. QED
      BY <2>5, <3>1
  <2>8. size <= size + k
    BY <1>1
  <2>. QED
    BY <2>2, <2>6, <2>7, <2>8 DEF IsCanonical, Begins, size, k
<1>. QED
  BY <1>5, <1>8, <1>9, CanonicalIsTheOne

-----------------------------------------------------------------------------
(* Witness: the inductive invariant.                                        *)

\* The bytes of the number of elements, and what the stream holds in each place.
CountSize == Len(encode(Len(list)))

IsStream ==
  /\ Len(stream) = CountSize + Len(Contents(list)) + 1
  /\ \A j \in 1..CountSize : stream[j] = encode(Len(list))[j]
  /\ \A j \in 1..Len(Contents(list)) : stream[CountSize + j] = Contents(list)[j]

\* The elements end where they should, or in the length of the first that is too long.
IsJudged ==
  \/ /\ TooLong(list) = {} /\ verdict = "ok"
     /\ total = CountSize + Len(Contents(list))
  \/ /\ verdict = "badpush"
     /\ \E i \in TooLong(list) :
          /\ \A j \in TooLong(list) : i <= j
          /\ total = CountSize + Off(list, i - 1) + Len(encode(Len(list[i])))

\* The decoder has read part of the number of elements.
AtCount ==
  /\ content = <<>> /\ element_idx = 0 /\ remaining = None /\ len_buf = <<>>
  /\ len_limit = MAX_WITNESS_ITEM_SIZE
  /\ count_buf \in Seq(Byte) /\ Len(count_buf) = at
  /\ Len(count_buf) < CountSize /\ Begins(count_buf, encode(Len(list)))

\* The decoder stands behind the elements in content, and in the one behind them behind the
\* bytes of its length in len_buf, or in front of its last `remaining' bytes.
AtElements ==
  /\ witness_elements = Len(list) /\ element_idx \in 0..Len(list)
  /\ Begins(content, Contents(list))
  /\ len_limit = IF element_idx = 0 /\ remaining = None THEN MAX_WITNESS_ITEM_SIZE
                 ELSE MAX_COMPACT_SIZE
  /\ \A i \in 1..element_idx : i \notin TooLong(list)
  /\ len_buf \in Seq(Byte) /\ at = CountSize + Len(content) + Len(len_buf)
  /\ element_idx = Len(list) => len_buf = <<>>
  /\ element_idx < Len(list) /\ remaining = None =>
       /\ Len(len_buf) < Len(encode(Len(list[element_idx + 1])))
       /\ Begins(len_buf, encode(Len(list[element_idx + 1])))
  /\ remaining = None => Len(content) = Off(list, element_idx)
  /\ remaining # None => /\ element_idx < Len(list) /\ len_buf = <<>>
                         /\ element_idx + 1 \notin TooLong(list)
                         /\ Len(content) + remaining = Off(list, element_idx + 1)

\* What holds in any case.
WitnessShape ==
  /\ list \in Seq(Elements) /\ Len(list) <= MaxElements /\ made \in BOOLEAN
  /\ stream \in Seq(Byte) /\ at \in Nat /\ rest \in Nat /\ at + rest <= Len(stream)
  /\ phase \in {"more", "ready", "failed", "ok", "err"} /\ pc \in {"idle", "count", "loop"}
  /\ witness_elements \in {None, Len(list)}
  /\ element_idx \in 0..MaxElements
  /\ remaining \in {None} \cup 1..MAX_COMPACT_SIZE
  /\ remaining # None => len_buf = <<>> /\ element_idx < witness_elements
  /\ ~made => content \in Seq(Byte)
  /\ pos \in Nat /\ pos <= at

WitnessInv ==
  /\ WitnessShape
  /\ made => /\ pc = "idle" /\ remaining = None /\ phase = "ok"
             /\ content = Canonical(list) /\ indices_start = Len(Contents(list))
             /\ witness_elements = Len(list)
  /\ phase = "ok" => made
  /\ phase \in {"failed", "err"} => pc = "idle"
  /\ pc = "count" => witness_elements = None
  /\ pc = "loop" => witness_elements # None
  /\ phase \in {"more", "ready"} =>
       /\ IsStream /\ IsJudged
       /\ witness_elements = None => AtCount
       /\ witness_elements # None => AtElements
       /\ pc = "idle" => pos = at
       /\ phase = "ready" => pos = at /\ Complete
       /\ phase = "more" /\ pc = "idle" => ~Complete
  /\ phase = "failed" => verdict = "badpush" /\ pos <= total

\* Behind what is as long as s, u goes on with t.
GoesOn(u, s, t) ==
  /\ Len(u) \in Nat /\ Len(s) + Len(t) <= Len(u)
  /\ \A j \in 1..Len(t) : u[Len(s) + j] = t[j]

LEMMA GrowBegins ==
  ASSUME NEW S, NEW s \in Seq(S), NEW t \in Seq(S), NEW u, Begins(s, u), GoesOn(u, s, t),
         NEW v, v = s \o t
  PROVE  v \in Seq(S) /\ IsJoined(v, s, t) /\ Begins(v, u)
<1>0. /\ Len(u) \in Nat /\ Len(s) + Len(t) <= Len(u)
      /\ \A j \in 1..Len(t) : u[Len(s) + j] = t[j]
  BY DEF GoesOn
<1>1. v \in Seq(S) /\ IsJoined(v, s, t)
  BY JoinedPlaces
<1>2. Len(s) \in Nat /\ Len(t) \in Nat /\ Len(v) = Len(s) + Len(t)
  BY <1>1, LenProperties DEF IsJoined
<1>3. ASSUME NEW j \in 1..Len(v) PROVE u[j] = v[j]
  <2>1. CASE j <= Len(s)
    <3>1. j \in 1..Len(s)
      BY <1>2, <2>1
    <3>. QED
      BY <1>1, <3>1 DEF IsJoined, Begins
  <2>2. CASE ~(j <= Len(s))
    <3>1. j - Len(s) \in 1..Len(t) /\ Len(s) + (j - Len(s)) = j
      BY <1>2, <2>2
    <3>2. v[Len(s) + (j - Len(s))] = t[j - Len(s)] /\ u[Len(s) + (j - Len(s))] = t[j - Len(s)]
      BY <1>0, <1>1, <3>1 DEF IsJoined
    <3>. QED
      BY <3>1, <3>2
  <2>. QED
    BY <2>1, <2>2
<1>. QED
  BY <1>0, <1>1, <1>2, <1>3 DEF Begins

\* The next bytes of the stream.
IsSlice(v, k) ==
  /\ v \in Seq(Byte) /\ Len(v) = k
  /\ \A j \in 1..k : v[j] = stream[at + j]

LEMMA SliceIs ==
  ASSUME stream \in Seq(Byte), at \in Nat, NEW k \in Nat, at + k <= Len(stream)
  PROVE  IsSlice(Slice(k), k)
<1>1. Len(stream) \in Nat
  BY LenProperties
<1>2. PICK p \in Nat : p = at
  OBVIOUS
<1>3. PICK q : q = p + k /\ q \in p..Len(stream) /\ q - p = k
  BY <1>1, <1>2
<1>4. PICK v : v = SubSeq(stream, p + 1, q)
  OBVIOUS
<1>5. v \in Seq(Byte) /\ IsCut(v, stream, p, q)
  BY <1>3, <1>4, CutPlaces
<1>6. v = Slice(k)
  BY ONLY <1>2, <1>3, <1>4, Zenon DEF Slice
<1>7. Len(v) = k /\ \A j \in 1..k : v[j] = stream[p + j]
  BY ONLY <1>3, <1>5, Zenon DEF IsCut
<1>. QED
  BY ONLY <1>2, <1>5, <1>6, <1>7, Zenon DEF IsSlice

\* What a CompactSizeDecoder holds after it took from the slice: more of the same number.
IsTaken(t, buf, z) ==
  /\ t.n \in Nat /\ t.n <= rest
  /\ t.now \in Seq(Byte) /\ Len(t.now) = Len(buf) + t.n /\ Begins(t.now, z)
  /\ t.ready \in BOOLEAN
  /\ t.ready => t.now = z
  /\ ~t.ready => Len(t.now) < Len(z)

LEMMA TakenPart ==
  ASSUME stream \in Seq(Byte), at \in Nat, rest \in Nat, at + rest <= Len(stream),
         NEW v \in 0..(Radix8 - 1), NEW p \in Nat, NEW buf \in Seq(Byte), at = p + Len(buf),
         \A j \in 1..Len(encode(v)) : stream[p + j] = encode(v)[j],
         Len(buf) < Len(encode(v)), Begins(buf, encode(v))
  PROVE  IsTaken(Taken(buf), buf, encode(v))
<1>1. PICK z \in Seq(Byte) : z = encode(v) /\ Len(z) \in Nat \ {0} /\ EncodedLen(z[1]) = Len(z)
  BY SizeReadsBack
<1>2. PICK b \in Nat : b = Len(buf)
  BY LenProperties
<1>3. PICK w \in Nat : w = Len(z) /\ b < w /\ at = p + b
  BY <1>1, <1>2
<1>4. /\ \A j \in 1..w : stream[p + j] = z[j]
      /\ \A j \in 1..b : z[j] = buf[j]
  BY <1>1, <1>2, <1>3 DEF Begins
<1>. DEFINE first == IF buf # <<>> THEN buf[1] ELSE stream[at + 1]
            k == IF rest = 0 THEN 0 ELSE compact_size_push_bytes(b, first, rest)
<1>5. first = z[1]
  <2>1. CASE buf = <<>>
    <3>1. b = 0 /\ at + 1 = p + 1 /\ 1 \in 1..w
      BY <1>2, <1>3, <2>1, EmptySeq
    <3>. QED
      BY <1>4, <2>1, <3>1
  <2>2. CASE buf # <<>>
    <3>1. 1 \in 1..b
      BY <1>2, <2>2, EmptySeq
    <3>. QED
      BY <1>4, <2>2, <3>1
  <2>. QED
    BY <2>1, <2>2
<1>6. EncodedLen(first) = w
  BY <1>1, <1>3, <1>5
<1>. HIDE DEF first
<1>7. k \in Nat /\ k <= rest /\ b + k <= w /\ (rest > 0 /\ b + k # w => k = rest) /\ (rest = 0 => k = 0)
  BY <1>3, <1>6 DEF compact_size_push_bytes
<1>. HIDE DEF k
<1>8. PICK s : s = Slice(k)
  OBVIOUS
<1>9. IsSlice(s, k)
  BY <1>7, <1>8, SliceIs
<1>10. PICK now : now = buf \o s
  OBVIOUS
<1>11. now \in Seq(Byte) /\ Len(now) = b + k /\ Begins(now, z)
  <2>1. s \in Seq(Byte) /\ Len(s) = k
    BY <1>9 DEF IsSlice
  <2>2. \A j \in 1..k : z[b + j] = s[j]
    <3>. TAKE j \in 1..k
    <3>1. b + j \in 1..w /\ p + (b + j) = at + j
      BY <1>2, <1>3, <1>7
    <3>2. s[j] = stream[at + j] /\ stream[p + (b + j)] = z[b + j]
      BY <1>4, <1>9, <3>1 DEF IsSlice
    <3>. QED
      BY <3>1, <3>2
  <2>3. Len(buf) + Len(s) <= Len(z) /\ Len(z) \in Nat
    BY <1>2, <1>3, <1>7, <2>1
  <2>4. \A j \in 1..Len(s) : z[Len(buf) + j] = s[j]
    BY <1>2, <2>1, <2>2
  <2>5. Begins(buf, z)
    BY <1>1
  <2>6. now \in Seq(Byte) /\ Len(now) = Len(buf) + Len(s) /\ Begins(now, z)
    <3>1. GoesOn(z, buf, s)
      BY <2>3, <2>4 DEF GoesOn
    <3>2. now \in Seq(Byte) /\ IsJoined(now, buf, s) /\ Begins(now, z)
      <4>1. now \in Seq(Byte)
        BY <1>10, <2>1, <2>5, <3>1, GrowBegins, Zenon
      <4>2. IsJoined(now, buf, s)
        BY <1>10, <2>1, <2>5, <3>1, GrowBegins, Zenon
      <4>3. Begins(now, z)
        BY <1>10, <2>1, <2>5, <3>1, GrowBegins, Zenon
      <4>. QED
        BY <4>1, <4>2, <4>3
    <3>. QED
      BY ONLY <3>2, Zenon DEF IsJoined
  <2>. QED
    BY <1>2, <2>1, <2>6
<1>12. PICK ready \in BOOLEAN : ready <=> rest > 0 /\ b + k = w
  OBVIOUS
<1>13. ready => now = z
  <2>. SUFFICES ASSUME ready PROVE now = z
    OBVIOUS
  <2>1. Len(now) = Len(z)
    BY <1>3, <1>11, <1>12
  <2>2. \A j \in 1..Len(now) : now[j] = z[j]
    BY <1>11 DEF Begins
  <2>. QED
    BY <1>1, <1>11, <2>1, <2>2, SeqEqual
<1>14. ~ready => Len(now) < w
  BY <1>3, <1>7, <1>11, <1>12
<1>15. Taken(buf) = [n |-> k, now |-> now, ready |-> rest > 0 /\ b + k = w]
  BY ONLY <1>2, <1>6, <1>8, <1>10, Zenon DEF Taken, first, k
<1>16. /\ Taken(buf).n = k /\ Taken(buf).now = now
       /\ Taken(buf).ready = (rest > 0 /\ b + k = w)
  BY ONLY <1>15
<1>17. Taken(buf).ready = ready
  BY <1>12, <1>16
<1>. QED
  BY ONLY <1>1, <1>2, <1>3, <1>7, <1>11, <1>12, <1>13, <1>14, <1>16, <1>17, Zenon DEF IsTaken

\* What the bytes of a number decode to.
LEMMA DecodesLength ==
  ASSUME NEW v \in 0..(Radix8 - 1), NEW max \in Nat
  PROVE  DecodeLength(encode(v), max)
           = [error |-> IF v > max THEN "exceeds" ELSE "none", value |-> v]
<1>1. compact_size_decode_u64(encode(v)) = [error |-> "none", value |-> v]
  BY SizeReadsBack
<1>. QED
  BY ONLY <1>1 DEF DecodeLength

-----------------------------------------------------------------------------
(* Witness: where the elements end, and the first state.                    *)

LEMMA ListSizes ==
  ASSUME list \in Seq(Elements), Len(list) <= MaxElements
  PROVE  /\ Len(list) \in Nat /\ Len(list) \in 0..(Radix8 - 1)
         /\ encode(Len(list)) \in Seq(Byte) /\ CountSize \in Nat \ {0}
         /\ Contents(list) \in Seq(Byte) /\ Len(Contents(list)) \in Nat
<1>1. Len(list) \in Nat
  BY LenProperties
<1>2. Radix8 \in Nat
  BY RadixAssumption DEF Radix8, Radix4, Radix2
<1>3. Len(list) \in 0..(Radix8 - 1)
  BY <1>1, <1>2, WitnessAssumption DEF WitnessAssumption
<1>. QED
  BY <1>1, <1>3, SizeReadsBack, ContentsType DEF CountSize

\* How far elements of which none is too long reach.
LEMMA JudgedAt ==
  ASSUME list \in Seq(Elements), Len(list) <= MaxElements, IsJudged,
         NEW k \in 0..Len(list), \A j \in 1..k : j \notin TooLong(list)
  PROVE  /\ total \in Nat /\ CountSize + Off(list, k) <= total
         /\ k < Len(list) =>
              CountSize + Off(list, k) + Len(encode(Len(list[k + 1]))) <= total
         /\ k < Len(list) /\ k + 1 \in TooLong(list) =>
              /\ verdict = "badpush"
              /\ total = CountSize + Off(list, k) + Len(encode(Len(list[k + 1])))
         /\ k = Len(list) => verdict = "ok" /\ total = CountSize + Len(Contents(list))
<1>1. /\ Len(list) \in Nat /\ CountSize \in Nat /\ Len(Contents(list)) \in Nat
  BY ListSizes
<1>2. TooLong(list) \subseteq 1..Len(list)
  BY LenProperties DEF TooLong
<1>3. PICK o \in Nat : o = Off(list, k)
  BY UptoType
<1>4. ASSUME NEW i \in k..Len(list)
      PROVE  Off(list, i) \in Nat /\ o <= Off(list, i)
  <2>1. i \in 0..Len(list)
    BY <1>1
  <2>. QED
    BY <1>3, <2>1, UptoType, UptoBegins
<1>5. Off(list, Len(list)) = Len(Contents(list))
  BY UptoAll
<1>6. k < Len(list) => /\ Len(encode(Len(list[k + 1]))) \in Nat
                       /\ o + Len(encode(Len(list[k + 1]))) <= Off(list, k + 1)
  <2>. SUFFICES ASSUME k < Len(list)
                PROVE  /\ Len(encode(Len(list[k + 1]))) \in Nat
                       /\ o + Len(encode(Len(list[k + 1]))) <= Off(list, k + 1)
    OBVIOUS
  <2>1. k + 1 \in 1..Len(list) /\ (k + 1) - 1 = k
    BY <1>1
  <2>2. /\ list[k + 1] \in Elements
        /\ Off(list, k + 1) = Off(list, k) + Len(encode(Len(list[k + 1]))) + Len(list[k + 1])
    BY <2>1, UptoStep
  <2>3. Len(encode(Len(list[k + 1]))) \in Nat /\ Len(list[k + 1]) \in Nat
    BY <2>2, ElementSize
  <2>. QED
    BY <1>3, <2>2, <2>3
<1>7. CASE TooLong(list) = {} /\ verdict = "ok" /\ total = CountSize + Len(Contents(list))
  <2>1. o <= Len(Contents(list))
    BY <1>1, <1>4, <1>5
  <2>2. k < Len(list) => o + Len(encode(Len(list[k + 1]))) <= Len(Contents(list))
    <3>. SUFFICES ASSUME k < Len(list)
                  PROVE o + Len(encode(Len(list[k + 1]))) <= Len(Contents(list))
      OBVIOUS
    <3>1. k + 1 \in 0..Len(list) /\ Len(list) \in (k + 1)..Len(list)
      BY <1>1
    <3>2. Off(list, k + 1) <= Off(list, Len(list)) /\ Off(list, k + 1) \in Nat
      BY <3>1, UptoBegins, UptoType
    <3>. QED
      BY <1>1, <1>5, <1>6, <3>2
  <2>3. k < Len(list) => Len(encode(Len(list[k + 1]))) \in Nat
    BY <1>6
  <2>. QED
    BY <1>1, <1>3, <1>7, <2>1, <2>2, <2>3
<1>8. CASE /\ verdict = "badpush"
           /\ \E i \in TooLong(list) :
                /\ \A j \in TooLong(list) : i <= j
                /\ total = CountSize + Off(list, i - 1) + Len(encode(Len(list[i])))
  <2>1. PICK i \in TooLong(list) :
          /\ \A j \in TooLong(list) : i <= j
          /\ total = CountSize + Off(list, i - 1) + Len(encode(Len(list[i])))
    BY <1>8
  <2>2. i \in 1..Len(list) /\ k + 1 <= i
    <3>1. i \in 1..Len(list) /\ i \notin 1..k
      BY <1>2, <2>1
    <3>. QED
      BY <1>1, <3>1
  <2>3. i - 1 \in k..Len(list) /\ k < Len(list)
    BY <1>1, <2>2
  <2>4. PICK w \in Nat : w = Len(encode(Len(list[i])))
    BY <2>2, UptoStep, ElementSize
  <2>5. PICK u \in Nat : u = Off(list, i - 1) /\ o <= u
    BY <1>4, <2>3
  <2>6. total = CountSize + u + w /\ total \in Nat
    BY <1>1, <2>1, <2>4, <2>5
  <2>7. CASE i = k + 1
    <3>1. i - 1 = k
      BY <2>7
    <3>2. u = o /\ w = Len(encode(Len(list[k + 1])))
      BY <1>3, <2>4, <2>5, <2>7, <3>1
    <3>3. CountSize + o <= total /\ CountSize + o + w <= total /\ k # Len(list)
      BY <1>1, <2>3, <2>4, <2>6, <3>2
    <3>4. CountSize + o + w = total
      BY ONLY <2>6, <3>2
    <3>. QED
      BY ONLY <1>3, <1>8, <2>6, <3>2, <3>3, <3>4
  <2>8. CASE i # k + 1
    <3>1. k + 1 \notin TooLong(list)
      BY <2>1, <2>2, <2>8
    <3>2. k + 1 \in 0..Len(list) /\ i - 1 \in (k + 1)..Len(list)
      BY <1>1, <2>2, <2>8
    <3>3. Off(list, k + 1) <= u /\ Off(list, k + 1) \in Nat
      BY <2>5, <3>2, UptoBegins, UptoType
    <3>4. o + Len(encode(Len(list[k + 1]))) <= u /\ Len(encode(Len(list[k + 1]))) \in Nat
      BY <1>6, <2>3, <2>5, <3>3
    <3>5. PICK v \in Nat : v = Len(encode(Len(list[k + 1]))) /\ o + v <= u
      BY <3>4
    <3>6. CountSize + o <= total /\ CountSize + o + v <= total /\ k # Len(list)
      <4>1. \A a, b, d, e, f, g \in Nat : b <= d /\ b + g <= d => a + b <= a + d + e /\ a + b + g <= a + d + e
        OBVIOUS
      <4>2. CountSize + o <= total /\ CountSize + o + v <= total
        BY ONLY <1>1, <1>3, <2>4, <2>5, <2>6, <3>5, <4>1
      <4>. QED
        BY <1>1, <2>3, <4>2
    <3>. QED
      BY ONLY <1>3, <2>6, <3>1, <3>5, <3>6
  <2>. QED
    BY <2>7, <2>8
<1>. QED
  BY <1>7, <1>8 DEF IsJudged

LEMMA WitnessInitEstablishes == WitnessInit => WitnessInv
<1>. SUFFICES ASSUME WitnessInit PROVE WitnessInv
  OBVIOUS
<1>1. list \in Seq(Elements) /\ Len(list) <= MaxElements
  <2>1. PICK k \in 0..MaxElements : list \in [1..k -> Elements]
    BY DEF WitnessInit, Lists
  <2>2. k \in Nat /\ k <= MaxElements
    BY <2>1, WitnessAssumption DEF WitnessAssumption
  <2>3. list \in Seq(Elements) /\ Len(list) = k
    BY <2>1, <2>2, FunctionIsSeq
  <2>. QED
    BY <2>2, <2>3
<1>2. /\ Len(list) \in Nat /\ encode(Len(list)) \in Seq(Byte) /\ CountSize \in Nat \ {0}
      /\ Contents(list) \in Seq(Byte) /\ Len(Contents(list)) \in Nat
  BY <1>1, ListSizes
<1>3. PICK z \in Seq(Byte) : z = encode(Len(list)) /\ Len(z) = CountSize
  BY <1>2 DEF CountSize
<1>4. PICK c \in Seq(Byte) : c = Contents(list) /\ Len(c) \in Nat
  BY <1>2
<1>5. <<PREFIX_U64>> \in Seq(Byte) /\ Len(<<PREFIX_U64>>) = 1
  <2>1. PREFIX_U64 \in Byte
    BY RadixAssumption DEF PREFIX_U64, Byte
  <2>2. PICK x \in Byte : x = PREFIX_U64
    BY <2>1
  <2>. QED
    BY <2>2
<1>6. PICK last \in Seq(Byte) : last = <<PREFIX_U64>> /\ Len(last) = 1
  BY <1>5
<1>7. PICK u : u = z \o c
  OBVIOUS
<1>8. u \in Seq(Byte) /\ IsJoined(u, z, c)
  BY <1>7, JoinedPlaces
<1>9. stream = u \o last
  BY ONLY <1>3, <1>4, <1>6, <1>7, WitnessInit, Zenon DEF WitnessInit
<1>10. stream \in Seq(Byte) /\ IsJoined(stream, u, last)
  BY <1>8, <1>9, JoinedPlaces
<1>11. IsStream
  <2>1. /\ Len(u) = CountSize + Len(c)
        /\ \A j \in 1..CountSize : u[j] = z[j]
        /\ \A j \in 1..Len(c) : u[CountSize + j] = c[j]
    BY <1>3, <1>8 DEF IsJoined
  <2>2. Len(stream) = CountSize + Len(c) + 1 /\ \A j \in 1..(CountSize + Len(c)) : stream[j] = u[j]
    BY <1>6, <1>10, <2>1 DEF IsJoined
  <2>3. /\ \A j \in 1..CountSize : j \in 1..(CountSize + Len(c))
        /\ \A j \in 1..Len(c) : CountSize + j \in 1..(CountSize + Len(c))
    BY <1>2, <1>4
  <2>. QED
    BY <1>3, <1>4, <2>1, <2>2, <2>3 DEF IsStream
<1>12. IsJudged
  <2>1. Len(stream) - 1 = CountSize + Len(Contents(list))
    BY <1>2, <1>11 DEF IsStream
  <2>2. CASE TooLong(list) = {}
    BY <2>1, <2>2 DEF WitnessInit, IsJudged
  <2>3. CASE TooLong(list) # {}
    <3>1. TooLong(list) \subseteq Nat
      BY <1>1, LenProperties DEF TooLong
    <3>2. \E i \in TooLong(list) : \A j \in TooLong(list) : i <= j
      BY <2>3, <3>1, LeastNumber
    <3>3. PICK i : i = CHOOSE k \in TooLong(list) : \A j \in TooLong(list) : k <= j
      OBVIOUS
    <3>4. i \in TooLong(list) /\ \A j \in TooLong(list) : i <= j
      BY <3>2, <3>3
    <3>5. verdict = "badpush" /\ total = UpToLength(list, i)
      BY <2>3, <3>3 DEF WitnessInit
    <3>. QED
      BY <3>4, <3>5 DEF IsJudged, UpToLength, CountSize, Off, Upto
  <2>. QED
    BY <2>2, <2>3
<1>13. AtCount
  BY <1>2 DEF WitnessInit, AtCount, Begins, CountSize
<1>14. WitnessShape
  <2>1. 0 \in 0..MaxElements
    BY WitnessAssumption DEF WitnessAssumption
  <2>2. Len(stream) \in Nat
    BY <1>10, LenProperties
  <2>3. /\ at \in Nat /\ rest \in Nat /\ at + rest <= Len(stream) /\ pos \in Nat /\ pos <= at
    BY <2>2 DEF WitnessInit
  <2>4. content \in Seq(Byte)
    BY DEF WitnessInit
  <2>5. element_idx \in 0..MaxElements /\ made \in BOOLEAN
    BY <2>1 DEF WitnessInit
  <2>6. phase = "more" /\ pc = "idle" /\ witness_elements = None /\ remaining = None
    BY DEF WitnessInit
  <2>. QED
    BY ONLY <1>1, <1>10, <2>3, <2>4, <2>5, <2>6 DEF WitnessShape
<1>. QED
  BY <1>11, <1>12, <1>13, <1>14 DEF WitnessInit, WitnessInv, Complete

-----------------------------------------------------------------------------
(* Witness: each step keeps the invariant.                                  *)

LEMMA ListStays ==
  ASSUME UNCHANGED <<list, stream, verdict, total>>
  PROVE  /\ IsStream => IsStream'
         /\ IsJudged => IsJudged'
         /\ CountSize' = CountSize /\ TooLong(list)' = TooLong(list)
BY DEF IsStream, IsJudged, CountSize, TooLong, LengthLimit

\* In the middle of a call.
LEMMA Running ==
  ASSUME WitnessInv, phase \in {"more", "ready"}
  PROVE  /\ ~made /\ WitnessShape /\ IsStream /\ IsJudged
         /\ witness_elements = None => AtCount /\ phase = "more"
         /\ witness_elements # None => AtElements
         /\ Len(list) \in Nat /\ Len(list) \in 0..(Radix8 - 1)
         /\ CountSize \in Nat \ {0} /\ Contents(list) \in Seq(Byte) /\ Len(Contents(list)) \in Nat
         /\ Len(stream) \in Nat
<1>1. /\ ~made /\ WitnessShape /\ IsStream /\ IsJudged
      /\ witness_elements = None => AtCount /\ phase = "more"
      /\ witness_elements # None => AtElements
  BY DEF WitnessInv, Complete
<1>2. list \in Seq(Elements) /\ Len(list) <= MaxElements /\ stream \in Seq(Byte)
  BY <1>1 DEF WitnessShape
<1>. QED
  BY <1>1, <1>2, ListSizes, LenProperties

LEMMA Calling ==
  ASSUME WitnessInv, pc # "idle"
  PROVE  phase \in {"more", "ready"} /\ (pc = "count" => witness_elements = None)
         /\ (pc = "loop" => witness_elements # None)
BY DEF WitnessInv, WitnessShape

\* A call takes bytes of its slice.
LEMMA TakeStays ==
  ASSUME WitnessShape, NEW k \in Nat, k <= rest, at' = at + k, rest' = rest - k
  PROVE  /\ at' \in Nat /\ rest' \in Nat /\ at' + rest' <= Len(stream)
         /\ pos <= at' /\ pos \in Nat
<1>1. PICK a \in Nat, b \in Nat, d \in Nat, e \in Nat :
        a = at /\ b = rest /\ d = Len(stream) /\ e = pos
  BY LenProperties DEF WitnessShape
<1>2. a + b <= d /\ e <= a /\ k <= b
  BY <1>1 DEF WitnessShape
<1>3. at' = a + k /\ rest' = b - k
  BY ONLY <1>1, at' = at + k, rest' = rest - k
<1>4. a + k \in Nat /\ b - k \in Nat /\ (a + k) + (b - k) <= d /\ e <= a + k
  BY ONLY <1>1, <1>2
<1>. QED
  BY ONLY <1>1, <1>3, <1>4

LEMMA PushCallKeeps ==
  ASSUME WitnessInv, NEW k \in 0..(Len(stream) - at), PushCall(k) PROVE WitnessInv'
<1>1. /\ ~made /\ phase \in {"more", "ready"} /\ rest' = k
      /\ pc' = IF witness_elements = None THEN "count" ELSE "loop"
      /\ UNCHANGED <<list, made, content, witness_elements, indices_start, stream, verdict, total,
                     count_buf, len_buf, len_limit, element_idx, remaining, at, phase, pos, limit>>
  BY DEF PushCall, GoOn, witness, input, progress, seen
<1>2. /\ WitnessShape /\ IsStream /\ IsJudged /\ Len(stream) \in Nat
      /\ witness_elements = None => AtCount
      /\ witness_elements # None => AtElements
  BY <1>1, Running
<1>3. IsStream' /\ IsJudged' /\ CountSize' = CountSize /\ TooLong(list)' = TooLong(list)
  BY <1>1, <1>2, ListStays
<1>4. WitnessShape'
  <2>1. at \in Nat
    BY <1>2 DEF WitnessShape
  <2>2. k \in Nat /\ at + k <= Len(stream)
    BY <1>2, <2>1
  <2>. QED
    BY <1>1, <1>2, <2>2 DEF WitnessShape
<1>5. witness_elements = None => AtCount'
  BY <1>1, <1>2, <1>3 DEF AtCount
<1>6. witness_elements # None => AtElements'
  BY <1>1, <1>2, <1>3 DEF AtElements, Off, Upto, Begins
<1>7. phase = "ready" => pos = at /\ Complete'
  BY <1>1 DEF WitnessInv, Complete
<1>. QED
  BY <1>1, <1>3, <1>4, <1>5, <1>6, <1>7 DEF WitnessInv

LEMMA CountKeeps == ASSUME WitnessInv, Count PROVE WitnessInv'
<1>1. pc = "count" /\ phase \in {"more", "ready"} /\ witness_elements = None
  BY Calling DEF Count
<1>2. /\ ~made /\ WitnessShape /\ IsStream /\ IsJudged /\ Len(stream) \in Nat
      /\ AtCount /\ phase = "more" /\ Len(list) \in Nat /\ Len(list) \in 0..(Radix8 - 1)
      /\ CountSize \in Nat \ {0}
  BY <1>1, Running
<1>. DEFINE t == Taken(count_buf)
            length == DecodeLength(t.now, MAX_WITNESS_STACK_ITEMS)
<1>3. /\ UNCHANGED <<list, made, content, indices_start, stream, verdict, total, len_buf,
                     len_limit, element_idx, remaining>>
      /\ at' = at + t.n /\ rest' = rest - t.n
  BY DEF Count, Take, input
<1>4. IsStream' /\ IsJudged' /\ CountSize' = CountSize /\ TooLong(list)' = TooLong(list)
  BY <1>2, <1>3, ListStays
<1>5. IsTaken(t, count_buf, encode(Len(list)))
  <2>1. /\ stream \in Seq(Byte) /\ at \in Nat /\ rest \in Nat /\ at + rest <= Len(stream)
    BY <1>2 DEF WitnessShape
  <2>2. /\ count_buf \in Seq(Byte) /\ at = 0 + Len(count_buf)
        /\ Len(count_buf) < Len(encode(Len(list))) /\ Begins(count_buf, encode(Len(list)))
    BY <1>2, <2>1 DEF AtCount, CountSize
  <2>3. \A j \in 1..Len(encode(Len(list))) : stream[0 + j] = encode(Len(list))[j]
    BY <1>2 DEF IsStream, CountSize
  <2>. QED
    BY <1>2, <2>1, <2>2, <2>3, TakenPart
<1>6. PICK k \in Nat : k = t.n /\ k <= rest
  BY <1>5 DEF IsTaken
<1>7. /\ at' \in Nat /\ rest' \in Nat /\ at' + rest' <= Len(stream) /\ pos <= at' /\ pos \in Nat
  BY <1>2, <1>3, <1>6, TakeStays
<1>8. CASE ~t.ready
  <2>1. /\ count_buf' = t.now /\ UNCHANGED witness_elements /\ pc' = "idle" /\ phase' = "more"
        /\ pos' = at'
    BY <1>8 DEF Count, Return
  <2>2. /\ t.now \in Seq(Byte) /\ Len(t.now) = Len(count_buf) + t.n
        /\ Begins(t.now, encode(Len(list))) /\ Len(t.now) < Len(encode(Len(list)))
    BY <1>5, <1>8 DEF IsTaken
  <2>3. AtCount'
    BY <1>2, <1>3, <1>4, <2>1, <2>2 DEF AtCount, CountSize
  <2>4. WitnessShape'
    BY <1>2, <1>3, <1>7, <2>1 DEF WitnessShape
  <2>. QED
    BY <1>1, <1>2, <1>3, <1>4, <2>1, <2>3, <2>4 DEF WitnessInv, Complete
<1>9. CASE t.ready
  <2>1. t.now = encode(Len(list)) /\ Len(t.now) = Len(count_buf) + t.n
    BY <1>5, <1>9 DEF IsTaken
  <2>2. length = [error |-> "none", value |-> Len(list)]
    <3>1. ~(Len(list) > MAX_WITNESS_STACK_ITEMS) /\ MAX_WITNESS_STACK_ITEMS \in Nat
      BY <1>2, WitnessAssumption DEF WitnessAssumption, WitnessShape
    <3>2. DecodeLength(encode(Len(list)), MAX_WITNESS_STACK_ITEMS)
            = [error |-> IF Len(list) > MAX_WITNESS_STACK_ITEMS THEN "exceeds" ELSE "none",
               value |-> Len(list)]
      BY <1>2, <3>1, DecodesLength
    <3>. QED
      BY <2>1, <3>1, <3>2
  <2>3. length.error = "none" /\ length.value = Len(list)
    BY <2>2
  <2>. HIDE DEF t, length
  <2>4. /\ count_buf' = <<>>
        /\ witness_elements' = Len(list)
        /\ IF Len(list) = 0 THEN pc' = "idle" /\ phase' = "ready" /\ pos' = at'
           ELSE pc' = "loop" /\ UNCHANGED <<phase, pos>>
    BY <1>9, <2>3 DEF Count, Return, GoOn, seen, t, length
  <2>5. at' = CountSize
    BY <1>2, <1>3, <1>6, <2>1 DEF AtCount, CountSize
  <2>6. /\ content' = <<>> /\ element_idx' = 0 /\ remaining' = None /\ len_buf' = <<>>
        /\ len_limit' = MAX_WITNESS_ITEM_SIZE
    BY <1>2, <1>3 DEF AtCount
  <2>7. AtElements'
    <3>1. Len(<<>>) = 0 /\ <<>> \in Seq(Byte)
      OBVIOUS
    <3>2. Off(list, 0) = 0
      BY <1>2, UptoEmpty DEF WitnessShape
    <3>3. 0 < Len(list) => Len(encode(Len(list[0 + 1]))) \in Nat \ {0}
      BY <1>2, ElementSize, ElementOfSeq DEF WitnessShape
    <3>4. Begins(<<>>, Contents(list)) /\ \A u : Len(u) \in Nat => Begins(<<>>, u)
      <4>1. Len(Contents(list)) \in Nat
        BY <1>1, Running
      <4>. QED
        BY <4>1 DEF Begins
    <3>5. at' = CountSize + 0 + 0
      BY <1>2, <2>5
    <3>6. \A i \in 1..0 : i \notin TooLong(list)
      OBVIOUS
    <3>7. 0 \in 0..Len(list)
      BY <1>2
    <3>. QED
      BY <1>3, <1>4, <2>4, <2>6, <3>1, <3>2, <3>3, <3>4, <3>5, <3>6, <3>7
         DEF AtElements, Off, Upto
  <2>8. WitnessShape'
    BY <1>2, <1>3, <1>7, <2>4, <2>6 DEF WitnessShape
  <2>9. Complete' <=> Len(list) = 0
    BY <1>2, <2>4, <2>6 DEF Complete, None
  <2>. QED
    BY <1>1, <1>2, <1>3, <1>4, <2>4, <2>7, <2>8, <2>9 DEF WitnessInv, None
<1>. QED
  BY <1>5, <1>8, <1>9 DEF IsTaken

LEMMA LoopReturnsKeeps == ASSUME WitnessInv, LoopReturns PROVE WitnessInv'
<1>1. pc = "loop" /\ phase \in {"more", "ready"} /\ witness_elements # None
  BY Calling DEF LoopReturns, Loop
<1>2. /\ ~made /\ WitnessShape /\ IsStream /\ IsJudged /\ AtElements /\ Len(list) \in Nat
  BY <1>1, Running
<1>3. /\ UNCHANGED <<list, made, content, witness_elements, indices_start, stream, verdict, total,
                     count_buf, len_buf, len_limit, element_idx, remaining, rest, at>>
      /\ pc' = "idle" /\ pos' = at'
      /\ phase' = IF element_idx >= witness_elements THEN "ready" ELSE "more"
  BY DEF LoopReturns, Loop, Return, input
<1>4. IsStream' /\ IsJudged' /\ CountSize' = CountSize /\ TooLong(list)' = TooLong(list)
  BY <1>2, <1>3, ListStays
<1>5. WitnessShape'
  BY <1>2, <1>3 DEF WitnessShape
<1>6. AtElements'
  BY <1>2, <1>3, <1>4 DEF AtElements, Off, Upto, Begins
<1>7. phase' = "ready" <=> Complete'
  BY <1>1, <1>2, <1>3 DEF AtElements, Complete
<1>. QED
  BY <1>1, <1>2, <1>3, <1>4, <1>5, <1>6, <1>7 DEF WitnessInv

\* The element at hand, and what the stream holds of it.
LEMMA ElementAtHand ==
  ASSUME WitnessInv, phase \in {"more", "ready"}, witness_elements # None,
         element_idx < witness_elements
  PROVE  /\ phase = "more" /\ element_idx \in Nat
         /\ element_idx + 1 \in 1..Len(list) /\ element_idx + 1 \in 0..Len(list)
         /\ list[element_idx + 1] \in Elements
         /\ Holds(Contents(list), Off(list, element_idx), list[element_idx + 1])
         /\ Off(list, element_idx) \in Nat
         /\ Off(list, element_idx + 1)
              = Off(list, element_idx) + Len(encode(Len(list[element_idx + 1])))
                  + Len(list[element_idx + 1])
         /\ Off(list, element_idx + 1) <= Len(Contents(list))
         /\ element_idx + 1 < Len(list) => Len(encode(Len(list[(element_idx + 1) + 1]))) \in Nat \ {0}
<1>1. /\ ~made /\ WitnessShape /\ AtElements /\ Len(list) \in Nat
  BY Running
<1>2. PICK k \in 0..Len(list) : k = element_idx /\ k < Len(list)
  BY <1>1 DEF AtElements
<1>3. /\ list \in Seq(Elements) /\ k \in Nat /\ k + 1 \in 1..Len(list) /\ k + 1 \in 0..Len(list)
      /\ (k + 1) - 1 = k
  BY <1>1, <1>2 DEF WitnessShape
<1>4. phase = "more"
  BY <1>1, <1>2 DEF WitnessInv, Complete, AtElements
<1>5. /\ list[k + 1] \in Elements
      /\ Off(list, k + 1) = Off(list, k) + Len(encode(Len(list[k + 1]))) + Len(list[k + 1])
  BY <1>3, UptoStep
<1>6. Off(list, k + 1) <= Len(Contents(list)) /\ Begins(Upto(list, k + 1), Contents(list))
  BY <1>3, FillSizes
<1>7. Holds(Contents(list), Off(list, k), list[k + 1])
  BY <1>3, <1>6, ElementHeld
<1>8. Off(list, k) \in Nat
  BY <1>3, UptoType
<1>9. k + 1 < Len(list) => Len(encode(Len(list[(k + 1) + 1]))) \in Nat \ {0}
  <2>. SUFFICES ASSUME k + 1 < Len(list)
                PROVE  Len(encode(Len(list[(k + 1) + 1]))) \in Nat \ {0}
    OBVIOUS
  <2>1. (k + 1) + 1 \in 1..Len(list)
    BY <1>1, <1>3
  <2>2. list[(k + 1) + 1] \in Elements
    BY <1>3, <2>1, ElementOfSeq
  <2>. QED
    BY <2>2, ElementSize
<1>. QED
  BY ONLY <1>2, <1>3, <1>4, <1>5, <1>6, <1>7, <1>8, <1>9, Zenon

LEMMA LoopDataKeeps == ASSUME WitnessInv, LoopData PROVE WitnessInv'
<1>1. /\ pc = "loop" /\ phase \in {"more", "ready"} /\ witness_elements # None
      /\ element_idx < witness_elements /\ rest > 0 /\ remaining # None
  BY Calling DEF LoopData, Loop
<1>2. /\ ~made /\ WitnessShape /\ IsStream /\ IsJudged /\ AtElements /\ Len(list) \in Nat
      /\ CountSize \in Nat /\ Contents(list) \in Seq(Byte) /\ Len(Contents(list)) \in Nat
      /\ Len(stream) \in Nat
  BY <1>1, Running
<1>3. /\ phase = "more" /\ element_idx \in Nat
      /\ element_idx + 1 \in 1..Len(list) /\ element_idx + 1 \in 0..Len(list)
      /\ Off(list, element_idx + 1) <= Len(Contents(list))
      /\ element_idx + 1 < Len(list) => Len(encode(Len(list[(element_idx + 1) + 1]))) \in Nat \ {0}
  BY <1>1, ElementAtHand, Zenon
<1>4. PICK c \in Nat : c = IF rest <= remaining THEN rest ELSE remaining
  BY <1>1, <1>2 DEF WitnessShape
<1>5. PICK r \in 1..MAX_COMPACT_SIZE : r = remaining /\ r \in Nat /\ c > 0 /\ c <= r /\ c <= rest
  <2>1. remaining \in 1..MAX_COMPACT_SIZE /\ rest \in Nat
    BY <1>1, <1>2 DEF WitnessShape
  <2>. QED
    BY <1>1, <1>4, <2>1
<1>6. /\ UNCHANGED <<list, made, witness_elements, indices_start, stream, verdict, total,
                     len_buf, len_limit, phase, pos>>
      /\ pc' = "loop" /\ at' = at + c /\ rest' = rest - c /\ content' = content \o Slice(c)
      /\ IF r = c THEN element_idx' = element_idx + 1 /\ remaining' = None
         ELSE element_idx' = element_idx /\ remaining' = r - c
  BY <1>4, <1>5 DEF LoopData, Loop, Take, GoOn, input, seen
<1>7. IsStream' /\ IsJudged' /\ CountSize' = CountSize /\ TooLong(list)' = TooLong(list)
  BY <1>2, <1>6, ListStays
<1>8. /\ at' \in Nat /\ rest' \in Nat /\ at' + rest' <= Len(stream) /\ pos <= at' /\ pos \in Nat
  BY <1>2, <1>5, <1>6, TakeStays
<1>9. PICK b \in Nat : b = Len(content) /\ content \in Seq(Byte)
  BY <1>2, LenProperties DEF WitnessShape
<1>10. PICK o \in Nat : o = Off(list, element_idx + 1) /\ o <= Len(Contents(list))
  BY <1>2, <1>3, UptoType DEF WitnessShape
<1>11. b + r = o /\ at = CountSize + b
  <2>1. len_buf = <<>> /\ at = CountSize + b + Len(len_buf) /\ b + r = o
    BY <1>1, <1>2, <1>5, <1>9, <1>10 DEF AtElements
  <2>2. Len(len_buf) = 0
    BY <2>1
  <2>. QED
    BY <1>2, <2>1, <2>2
<1>12. PICK s : s = Slice(c)
  OBVIOUS
<1>13. IsSlice(s, c)
  <2>1. stream \in Seq(Byte) /\ at \in Nat /\ at + c <= Len(stream)
    BY <1>2, <1>5 DEF WitnessShape
  <2>. QED
    BY <1>12, <2>1, SliceIs
<1>14. s \in Seq(Byte) /\ Len(s) = c
  BY <1>13 DEF IsSlice
<1>15. GoesOn(Contents(list), content, s)
  <2>1. Len(content) + Len(s) <= Len(Contents(list))
    BY <1>2, <1>5, <1>9, <1>10, <1>11, <1>14
  <2>2. \A j \in 1..Len(s) : Contents(list)[Len(content) + j] = s[j]
    <3>. TAKE j \in 1..Len(s)
    <3>1. b + j \in 1..Len(Contents(list)) /\ at + j = CountSize + (b + j)
      BY <1>2, <1>9, <1>11, <1>14, <2>1
    <3>2. s[j] = stream[at + j] /\ stream[CountSize + (b + j)] = Contents(list)[b + j]
      BY <1>2, <1>13, <1>14, <3>1 DEF IsSlice, IsStream
    <3>. QED
      BY <1>9, <3>1, <3>2
  <2>. QED
    BY <1>2, <2>1, <2>2 DEF GoesOn
<1>16. content' \in Seq(Byte) /\ Begins(content', Contents(list)) /\ Len(content') = b + c
  <2>1. Begins(content, Contents(list))
    BY <1>2 DEF AtElements
  <2>2. content' = content \o s
    BY <1>6, <1>12
  <2>3. /\ content' \in Seq(Byte)
        /\ IsJoined(content', content, s)
        /\ Begins(content', Contents(list))
    BY <1>9, <1>14, <1>15, <2>1, <2>2, GrowBegins, Zenon
  <2>. QED
    BY <1>9, <1>14, <2>3 DEF IsJoined
<1>17. /\ len_limit = MAX_COMPACT_SIZE /\ len_buf = <<>> /\ witness_elements = Len(list)
       /\ \A i \in 1..(element_idx + 1) : i \notin TooLong(list)
  BY <1>1, <1>2, <1>3 DEF AtElements
<1>18. Len(<<>>) = 0 /\ <<>> \in Seq(Byte)
  OBVIOUS
<1>19. at' = CountSize + (b + c) + 0
  BY <1>2, <1>6, <1>9, <1>11
<1>20. AtElements'
  <2>1. CASE r = c
    <3>1. \/ /\ Begins(<<>>, encode(Len(list[(element_idx + 1) + 1])))
             /\ 0 < Len(encode(Len(list[(element_idx + 1) + 1])))
          \/ ~(element_idx + 1 < Len(list))
      BY <1>3, <1>18 DEF Begins
    <3>2. element_idx' = element_idx + 1 /\ remaining' = None /\ element_idx + 1 # 0
      BY <1>3, <1>6, <2>1
    <3>. QED
      BY <1>3, <1>6, <1>7, <1>10, <1>11, <1>16, <1>17, <1>18, <1>19, <2>1, <3>1, <3>2
         DEF AtElements, Off, Upto
  <2>2. CASE r # c
    <3>1. element_idx' = element_idx /\ remaining' = r - c /\ r - c # None /\ (b + c) + (r - c) = o
      <4>1. element_idx' = element_idx /\ remaining' = r - c
        BY ONLY <1>6, <2>2
      <4>2. r - c # None /\ (b + c) + (r - c) = b + r
        BY ONLY <1>4, <1>5, <1>9 DEF None
      <4>. QED
        BY ONLY <1>11, <4>1, <4>2
    <3>2. element_idx < Len(list) /\ element_idx \in 0..Len(list) /\ element_idx # Len(list)
      BY <1>1, <1>2, <1>3, <1>17
    <3>3. /\ \A i \in 1..element_idx : i \notin TooLong(list)
          /\ element_idx + 1 \notin TooLong(list)
      BY <1>3, <1>17
    <3>. QED
      BY <1>6, <1>7, <1>10, <1>16, <1>17, <1>18, <1>19, <3>1, <3>2, <3>3
         DEF AtElements, Off, Upto
  <2>. QED
    BY <2>1, <2>2
<1>21. WitnessShape'
  <2>1. Len(list) \in 0..MaxElements /\ element_idx + 1 \in 0..MaxElements
    BY <1>2, <1>3, WitnessAssumption DEF WitnessShape, WitnessAssumption
  <2>2. element_idx' \in 0..MaxElements /\ remaining' \in {None} \cup 1..MAX_COMPACT_SIZE
    BY <1>2, <1>5, <1>6, <2>1, WitnessAssumption DEF WitnessShape, WitnessAssumption
  <2>3. remaining' # None => element_idx' < witness_elements'
    BY <1>1, <1>6
  <2>. QED
    BY <1>2, <1>6, <1>8, <1>16, <1>17, <2>2, <2>3 DEF WitnessShape
<1>. QED
  BY <1>1, <1>2, <1>3, <1>6, <1>7, <1>20, <1>21 DEF WitnessInv

LEMMA LoopLengthKeeps == ASSUME WitnessInv, LoopLength PROVE WitnessInv'
<1>1. /\ pc = "loop" /\ phase \in {"more", "ready"} /\ witness_elements # None
      /\ element_idx < witness_elements /\ rest > 0 /\ remaining = None
  BY Calling DEF LoopLength, Loop
<1>2. /\ ~made /\ WitnessShape /\ IsStream /\ IsJudged /\ AtElements /\ Len(list) \in Nat
      /\ CountSize \in Nat /\ Contents(list) \in Seq(Byte) /\ Len(Contents(list)) \in Nat
      /\ Len(stream) \in Nat
  BY <1>1, Running
<1>3. PICK k \in Nat : k = element_idx /\ k \in 0..Len(list) /\ k < Len(list)
  BY <1>1, <1>2 DEF AtElements
<1>4. PICK e \in Elements : e = list[k + 1]
  BY <1>1, <1>3, ElementAtHand
<1>5. PICK z \in Seq(Byte) : z = encode(Len(e)) /\ Len(z) \in Nat \ {0}
  BY ElementSize
<1>6. PICK w \in Nat, m \in Nat : w = Len(z) /\ m = Len(e) /\ m \in 0..(Radix8 - 1)
  BY <1>5, ElementSize
<1>7. PICK o \in Nat : o = Off(list, k)
  BY <1>1, <1>3, ElementAtHand
<1>8. /\ phase = "more" /\ k + 1 \in 1..Len(list) /\ k + 1 \in 0..Len(list)
      /\ Holds(Contents(list), o, e)
      /\ Off(list, k + 1) = o + w + m
      /\ o + w + m <= Len(Contents(list))
      /\ k + 1 < Len(list) => Len(encode(Len(list[(k + 1) + 1]))) \in Nat \ {0}
  <2>1. /\ phase = "more" /\ k + 1 \in 1..Len(list) /\ k + 1 \in 0..Len(list)
        /\ Holds(Contents(list), o, list[k + 1])
        /\ Off(list, k + 1) = o + Len(encode(Len(list[k + 1]))) + Len(list[k + 1])
        /\ Off(list, k + 1) <= Len(Contents(list))
        /\ k + 1 < Len(list) => Len(encode(Len(list[(k + 1) + 1]))) \in Nat \ {0}
    BY ONLY WitnessInv, <1>1, <1>3, <1>7, ElementAtHand, Zenon
  <2>. QED
    BY ONLY <1>4, <1>5, <1>6, <2>1, Zenon
<1>9. PICK p \in Nat : p = CountSize + o
  BY <1>2
<1>10. /\ len_buf \in Seq(Byte) /\ at = p + Len(len_buf) /\ Len(content) = o
       /\ Len(len_buf) < w /\ Begins(len_buf, z) /\ Begins(content, Contents(list))
  <2>1. /\ len_buf \in Seq(Byte) /\ at = CountSize + Len(content) + Len(len_buf)
        /\ Len(content) = o /\ Begins(content, Contents(list))
    BY <1>1, <1>2, <1>3, <1>7 DEF AtElements
  <2>2. Len(len_buf) < w /\ Begins(len_buf, z)
    BY <1>1, <1>2, <1>3, <1>4, <1>5, <1>6 DEF AtElements
  <2>. QED
    BY ONLY <1>9, <2>1, <2>2
<1>11. \A j \in 1..w : stream[p + j] = z[j] /\ Contents(list)[o + j] = z[j]
  <2>. TAKE j \in 1..w
  <2>1. Contents(list)[o + j] = z[j]
    BY <1>5, <1>6, <1>8 DEF Holds
  <2>2. o + j \in 1..Len(Contents(list)) /\ p + j = CountSize + (o + j)
    BY <1>2, <1>8, <1>9
  <2>3. stream[CountSize + (o + j)] = Contents(list)[o + j]
    BY <1>2, <2>2 DEF IsStream
  <2>. QED
    BY ONLY <2>1, <2>2, <2>3
<1>. DEFINE t == Taken(len_buf)
            length == DecodeLength(t.now, len_limit)
<1>12. /\ UNCHANGED <<list, made, witness_elements, indices_start, stream, verdict, total>>
       /\ at' = at + t.n /\ rest' = rest - t.n
       /\ len_buf' = IF t.ready THEN <<>> ELSE t.now
       /\ len_limit' = IF t.ready THEN MAX_COMPACT_SIZE ELSE len_limit
       /\ IF t.ready /\ length.error = "none"
            THEN /\ content' = content \o encode(length.value)
                 /\ element_idx' = IF length.value = 0 THEN element_idx + 1 ELSE element_idx
                 /\ remaining' = IF length.value = 0 THEN None ELSE length.value
                 /\ pc' = "loop" /\ UNCHANGED <<phase, pos>>
            ELSE /\ UNCHANGED <<content, element_idx, remaining>>
                 /\ pc' = "idle" /\ pos' = at'
                 /\ phase' = IF t.ready THEN "failed" ELSE "more"
  BY DEF LoopLength, Loop, Take, GoOn, Return, input, seen
<1>13. IsStream' /\ IsJudged' /\ CountSize' = CountSize /\ TooLong(list)' = TooLong(list)
  BY <1>2, <1>12, ListStays
<1>14. IsTaken(t, len_buf, z)
  <2>1. /\ stream \in Seq(Byte) /\ at \in Nat /\ rest \in Nat /\ at + rest <= Len(stream)
    BY <1>2 DEF WitnessShape
  <2>2. \A j \in 1..w : stream[p + j] = z[j]
    BY <1>11
  <2>. QED
    BY ONLY <1>5, <1>6, <1>9, <1>10, <2>1, <2>2, TakenPart, Zenon
<1>. HIDE DEF t, length
<1>15. PICK n0 \in Nat : n0 = t.n /\ n0 <= rest
  BY <1>14 DEF IsTaken
<1>16. /\ at' \in Nat /\ rest' \in Nat /\ at' + rest' <= Len(stream) /\ pos <= at' /\ pos \in Nat
  BY <1>2, <1>12, <1>15, TakeStays
<1>17. t.now \in Seq(Byte) /\ Len(t.now) \in Nat /\ Begins(t.now, z) /\ at' = p + Len(t.now)
  <2>1. t.now \in Seq(Byte) /\ Len(t.now) = Len(len_buf) + n0 /\ Begins(t.now, z)
    BY <1>14, <1>15 DEF IsTaken
  <2>2. PICK b \in Nat : b = Len(len_buf)
    BY <1>10, LenProperties
  <2>3. at' = (p + b) + n0 /\ Len(t.now) = b + n0
    BY ONLY <1>10, <1>12, <1>15, <2>1, <2>2
  <2>4. (p + b) + n0 = p + (b + n0) /\ b + n0 \in Nat
    BY ONLY <1>9, <1>15, <2>2
  <2>. QED
    BY ONLY <2>1, <2>3, <2>4
<1>18. /\ Len(<<>>) = 0 /\ <<>> \in Seq(Byte)
       /\ len_limit = LengthLimit(k + 1) /\ LengthLimit(k + 1) \in Nat
       /\ LengthLimit(k + 1) <= MAX_COMPACT_SIZE
       /\ \A i \in 1..k : i \notin TooLong(list)
       /\ k + 1 \in TooLong(list) <=> m > LengthLimit(k + 1)
  <2>1. len_limit = LengthLimit(k + 1) /\ \A i \in 1..k : i \notin TooLong(list)
    <3>1. k + 1 = 1 <=> k = 0
      BY <1>3
    <3>. QED
      BY <1>1, <1>2, <1>3, <3>1 DEF AtElements, LengthLimit
  <2>2. LengthLimit(k + 1) \in Nat /\ LengthLimit(k + 1) <= MAX_COMPACT_SIZE
    BY WitnessAssumption DEF WitnessAssumption, LengthLimit
  <2>3. k + 1 \in DOMAIN list
    BY <1>2, <1>8, LenProperties DEF WitnessShape
  <2>4. k + 1 \in TooLong(list) <=> m > LengthLimit(k + 1)
    BY <1>4, <1>6, <2>3 DEF TooLong
  <2>. QED
    BY <2>1, <2>2, <2>4
<1>19. CASE ~t.ready
  <2>1. /\ len_buf' = t.now /\ len_limit' = len_limit
        /\ UNCHANGED <<content, element_idx, remaining>>
        /\ pc' = "idle" /\ pos' = at' /\ phase' = "more"
    BY <1>12, <1>19
  <2>2. Len(t.now) < w
    BY <1>6, <1>14, <1>19 DEF IsTaken
  <2>3. AtElements'
    <3>1. at' = CountSize + o + Len(t.now)
      BY <1>9, <1>17
    <3>2. witness_elements = Len(list) /\ k # Len(list)
          /\ len_limit = IF k = 0 THEN MAX_WITNESS_ITEM_SIZE ELSE MAX_COMPACT_SIZE
      BY <1>1, <1>2, <1>3 DEF AtElements
    <3>. QED
      BY <1>1, <1>3, <1>4, <1>5, <1>6, <1>7, <1>10, <1>12, <1>13, <1>17, <1>18, <2>1, <2>2, <3>1,
         <3>2
         DEF AtElements, Off, Upto
  <2>4. WitnessShape'
    BY <1>1, <1>2, <1>12, <1>16, <2>1 DEF WitnessShape
  <2>5. ~Complete'
    BY <1>1, <1>2, <1>3, <1>12, <2>1 DEF Complete, AtElements
  <2>. QED
    BY <1>1, <1>2, <1>12, <1>13, <2>1, <2>3, <2>4, <2>5 DEF WitnessInv
<1>20. CASE t.ready
  <2>1. t.now = z /\ at' = p + w
    BY <1>6, <1>14, <1>17, <1>20 DEF IsTaken
  <2>2. length = [error |-> IF m > LengthLimit(k + 1) THEN "exceeds" ELSE "none", value |-> m]
    <3>1. DecodeLength(encode(m), len_limit)
            = [error |-> IF m > len_limit THEN "exceeds" ELSE "none", value |-> m]
      BY <1>6, <1>18, DecodesLength
    <3>. QED
      BY <1>5, <1>6, <1>18, <2>1, <3>1 DEF length
  <2>3. length.value = m /\ (length.error = "none" <=> k + 1 \notin TooLong(list))
    <3>1. length.error = IF m > LengthLimit(k + 1) THEN "exceeds" ELSE "none"
      BY <2>2
    <3>. QED
      BY <1>18, <2>2, <3>1
  <2>4. len_buf' = <<>> /\ len_limit' = MAX_COMPACT_SIZE
    BY <1>12, <1>20
  <2>5. CASE k + 1 \in TooLong(list)
    <3>1. UNCHANGED <<content, element_idx, remaining>> /\ pc' = "idle" /\ pos' = at' /\ phase' = "failed"
      BY <1>12, <1>20, <2>3, <2>5
    <3>2. verdict = "badpush" /\ total = CountSize + o + w
      <4>1. list \in Seq(Elements) /\ Len(list) <= MaxElements /\ k \in 0..Len(list)
        BY <1>2, <1>3 DEF WitnessShape
      <4>2. /\ verdict = "badpush"
            /\ total = CountSize + Off(list, k) + Len(encode(Len(list[k + 1])))
        BY <1>2, <1>3, <1>18, <2>5, <4>1, JudgedAt
      <4>. QED
        BY <1>4, <1>5, <1>6, <1>7, <4>2
    <3>3. pos' <= total'
      BY <1>9, <1>12, <2>1, <3>1, <3>2
    <3>4. WitnessShape'
      BY <1>1, <1>2, <1>12, <1>16, <2>4, <3>1, <1>18 DEF WitnessShape
    <3>. QED
      BY <1>1, <1>2, <1>12, <3>1, <3>2, <3>3, <3>4 DEF WitnessInv
  <2>6. CASE k + 1 \notin TooLong(list)
    <3>1. /\ content' = content \o z
          /\ element_idx' = IF m = 0 THEN k + 1 ELSE k
          /\ remaining' = IF m = 0 THEN None ELSE m
          /\ pc' = "loop" /\ UNCHANGED <<phase, pos>>
      BY <1>3, <1>5, <1>6, <1>12, <1>20, <2>3, <2>6
    <3>2. content' \in Seq(Byte) /\ Begins(content', Contents(list)) /\ Len(content') = o + w
      <4>1. content \in Seq(Byte)
        BY <1>2 DEF WitnessShape
      <4>2. GoesOn(Contents(list), content, z)
        <5>1. Len(content) + Len(z) <= Len(Contents(list))
          BY <1>2, <1>6, <1>8, <1>10
        <5>. QED
          BY <1>2, <1>6, <1>10, <1>11, <5>1 DEF GoesOn
      <4>3. /\ content' \in Seq(Byte)
            /\ IsJoined(content', content, z)
            /\ Begins(content', Contents(list))
        BY ONLY <1>5, <1>10, <3>1, <4>1, <4>2, GrowBegins, Zenon
      <4>4. Len(content') = Len(content) + Len(z)
        BY ONLY <4>3 DEF IsJoined
      <4>. QED
        BY ONLY <1>6, <1>10, <4>3, <4>4
    <3>3. at' = CountSize + (o + w) + 0
      BY <1>2, <1>9, <2>1
    <3>4. m <= MAX_COMPACT_SIZE /\ (m # 0 => m \in 1..MAX_COMPACT_SIZE /\ m # None)
      <4>1. m <= LengthLimit(k + 1) /\ MAX_COMPACT_SIZE \in Nat
        BY <1>18, <2>6, WitnessAssumption DEF WitnessAssumption
      <4>. QED
        BY <1>18, <4>1 DEF None
    <3>5. /\ \A i \in 1..(k + 1) : i \notin TooLong(list)
          /\ witness_elements = Len(list) /\ k # Len(list)
      BY <1>1, <1>2, <1>3, <1>18, <2>6 DEF AtElements
    <3>6. AtElements'
      <4>1. CASE m = 0
        <5>1. Off(list, k + 1) = o + w
          BY <1>8, <4>1
        <5>2. \/ /\ Begins(<<>>, encode(Len(list[(k + 1) + 1])))
                 /\ 0 < Len(encode(Len(list[(k + 1) + 1])))
              \/ ~(k + 1 < Len(list))
          BY <1>8, <1>18 DEF Begins
        <5>3. element_idx' = k + 1 /\ remaining' = None /\ k + 1 # 0
          BY <1>3, <3>1, <4>1
        <5>. QED
          BY <1>8, <1>12, <1>13, <1>18, <2>4, <3>2, <3>3, <3>5, <4>1, <5>1, <5>2, <5>3
             DEF AtElements, Off, Upto
      <4>2. CASE m # 0
        <5>1. element_idx' = k /\ remaining' = m /\ m # None
          BY <3>1, <3>4, <4>2
        <5>2. Off(list, k + 1) = (o + w) + m
          BY <1>8
        <5>. QED
          BY <1>3, <1>12, <1>13, <1>18, <2>4, <2>6, <3>2, <3>3, <3>5, <5>1, <5>2
             DEF AtElements, Off, Upto
      <4>. QED
        BY <4>1, <4>2
    <3>7. WitnessShape'
      <4>1. k \in 0..MaxElements /\ k + 1 \in 0..MaxElements
        BY <1>2, <1>8, WitnessAssumption DEF WitnessShape, WitnessAssumption
      <4>2. /\ element_idx' \in 0..MaxElements /\ remaining' \in {None} \cup 1..MAX_COMPACT_SIZE
            /\ remaining' # None => element_idx' < witness_elements'
        BY <1>1, <1>3, <1>12, <3>1, <3>4, <4>1
      <4>. QED
        BY <1>2, <1>12, <1>16, <2>4, <3>1, <3>2, <4>2 DEF WitnessShape
    <3>. QED
      BY <1>1, <1>2, <1>8, <1>12, <1>13, <3>1, <3>6, <3>7 DEF WitnessInv
  <2>. QED
    BY <2>5, <2>6
<1>. QED
  BY <1>19, <1>20

LEMMA WitnessEndKeeps == ASSUME WitnessInv, End PROVE WitnessInv'
<1>1. phase \in {"more", "ready"} /\ pc = "idle" /\ made' = Complete
  BY DEF End
<1>2. /\ ~made /\ WitnessShape /\ IsStream /\ IsJudged /\ Len(list) \in Nat
      /\ witness_elements # None => AtElements
      /\ Contents(list) \in Seq(Byte) /\ Len(Contents(list)) \in Nat
  BY <1>1, Running
<1>3. /\ UNCHANGED <<list, witness_elements, stream, verdict, total, len_buf, element_idx, remaining,
                     pc, rest, at, pos>>
  BY DEF End, input, progress
<1>4. CASE Complete
  <2>1. /\ AtElements /\ element_idx = Len(list) /\ witness_elements = Len(list) /\ remaining = None
    BY <1>2, <1>4 DEF Complete, AtElements
  <2>2. Len(content) = Len(Contents(list)) /\ Begins(content, Contents(list))
    BY <1>2, <2>1, UptoAll DEF AtElements, WitnessShape
  <2>3. content = Contents(list)
    <3>1. content \in Seq(Byte) /\ \A j \in 1..Len(content) : content[j] = Contents(list)[j]
      BY <1>2, <2>2 DEF WitnessShape, Begins
    <3>. QED
      BY <1>2, <2>2, <3>1, SeqEqual
  <2>4. /\ phase' = "ok" /\ indices_start' = Len(content) /\ content' = content \o Walked /\ made'
    BY <1>1, <1>4 DEF End
  <2>5. Walked = [i \in 1..Len(list) |-> Index(Off(list, i - 1))]
    BY <1>2, <2>1, <2>3, WalkFinds DEF WitnessShape
  <2>6. DOMAIN list = 1..Len(list)
    BY <1>2, LenProperties DEF WitnessShape
  <2>7. content' = Canonical(list)
    BY ONLY <2>3, <2>4, <2>5, <2>6, Zenon DEF Canonical, Off, Upto
  <2>8. WitnessShape'
    BY <1>2, <1>3, <2>1, <2>4 DEF WitnessShape
  <2>. QED
    BY <1>1, <1>2, <1>3, <2>1, <2>3, <2>4, <2>7, <2>8 DEF WitnessInv
<1>5. CASE ~Complete
  <2>1. /\ phase' = "err" /\ UNCHANGED <<indices_start, content>> /\ ~made' /\ made' \in BOOLEAN
    <3>1. phase' = "err" /\ UNCHANGED <<indices_start, content>>
      BY <1>5 DEF End
    <3>2. Complete \in BOOLEAN
      BY DEF Complete
    <3>. QED
      BY ONLY <1>1, <1>5, <3>1, <3>2
  <2>2. WitnessShape'
    BY <1>2, <1>3, <2>1 DEF WitnessShape
  <2>. QED
    BY <1>1, <1>3, <2>1, <2>2 DEF WitnessInv
<1>. QED
  BY <1>4, <1>5

\* What a Witness keeps when it is changed.
LEMMA ChangeKeeps ==
  ASSUME WitnessInv, made, UNCHANGED <<made, input, progress, pc, rest, at, seen>>,
         list' \in Seq(Elements), Len(list') <= MaxElements, content' = Canonical(list'),
         indices_start' = Len(Contents(list')), witness_elements' = Len(list')
  PROVE  WitnessInv'
<1>1. /\ pc = "idle" /\ remaining = None /\ phase = "ok" /\ WitnessShape
  BY DEF WitnessInv
<1>2. UNCHANGED <<stream, len_buf, element_idx, remaining, pc, rest, at, phase, pos>>
  BY DEF input, progress, seen
<1>3. WitnessShape'
  BY <1>1, <1>2 DEF WitnessShape
<1>. QED
  BY <1>1, <1>2, <1>3 DEF WitnessInv

LEMMA PushKeeps == ASSUME WitnessInv, NEW e \in Elements, Push(e) PROVE WitnessInv'
<1>1. /\ made /\ witness_elements < MaxElements /\ list' = Append(list, e)
      /\ content' = WithPushed(e) /\ witness_elements' = witness_elements + 1
      /\ indices_start' = indices_start + Len(Prefixed(e))
      /\ UNCHANGED <<made, input, progress, pc, rest, at, seen>>
  BY DEF Push
<1>2. /\ list \in Seq(Elements) /\ content = Canonical(list)
      /\ indices_start = Len(Contents(list)) /\ witness_elements = Len(list) /\ Len(list) \in Nat
  BY <1>1, LenProperties DEF WitnessInv, WitnessShape
<1>3. /\ content' = Canonical(list') /\ Len(Contents(list')) = indices_start + Len(Prefixed(e))
      /\ list' \in Seq(Elements) /\ Len(list') = Len(list) + 1
  BY ONLY <1>1, <1>2, PushIsCanonical, Zenon
<1>4. Len(list') <= MaxElements
  BY <1>1, <1>2, <1>3, WitnessAssumption DEF WitnessAssumption
<1>5. indices_start' = Len(Contents(list')) /\ witness_elements' = Len(list')
  BY ONLY <1>1, <1>2, <1>3, Zenon
<1>. QED
  BY <1>1, <1>3, <1>4, <1>5, ChangeKeeps

LEMMA ClearKeeps == ASSUME WitnessInv, Clear PROVE WitnessInv'
<1>1. /\ made /\ list' = <<>> /\ content' = <<>> /\ witness_elements' = 0 /\ indices_start' = 0
      /\ UNCHANGED <<made, input, progress, pc, rest, at, seen>>
  BY DEF Clear
<1>2. Len(<<>>) = 0 /\ <<>> \in Seq(Elements) /\ <<>> \in Seq(Nat)
  OBVIOUS
<1>3. Len(Canonical(<<>>)) = 0 /\ Canonical(<<>>) \in Seq(Nat)
  <2>1. IsCanonical(Canonical(<<>>), <<>>)
    BY <1>2, CanonicalIs
  <2>. QED
    BY <1>2, <2>1, ContentsEmpty DEF IsCanonical
<1>4. Canonical(<<>>) = <<>> /\ Len(Contents(<<>>)) = 0
  BY <1>2, <1>3, ContentsEmpty, EmptySeq
<1>5. 0 <= MaxElements
  BY WitnessAssumption DEF WitnessAssumption
<1>. QED
  BY <1>1, <1>2, <1>4, <1>5, ChangeKeeps

LEMMA FromSliceKeeps == ASSUME WitnessInv, FromSlice PROVE WitnessInv'
<1>1. /\ made /\ list' = list /\ witness_elements' = Len(list)
      /\ UNCHANGED <<made, input, progress, pc, rest, at, seen>>
  BY DEF FromSlice
<1>2. list \in Seq(Elements) /\ Len(list) <= MaxElements
  BY DEF WitnessInv, WitnessShape
<1>3. content' = Canonical(list) /\ indices_start' = Len(Contents(list))
  BY <1>2, FromSliceIsCanonical
<1>. QED
  BY <1>1, <1>2, <1>3, ChangeKeeps

LEMMA WitnessStepKeeps ==
  ASSUME WitnessInv, WitnessNext \/ UNCHANGED vars PROVE WitnessInv'
<1>1. CASE \E k \in 0..(Len(stream) - at) : PushCall(k)
  BY <1>1, PushCallKeeps
<1>2. CASE Count
  BY <1>2, CountKeeps
<1>3. CASE LoopReturns
  BY <1>3, LoopReturnsKeeps
<1>4. CASE LoopData
  BY <1>4, LoopDataKeeps
<1>5. CASE LoopLength
  BY <1>5, LoopLengthKeeps
<1>6. CASE End
  BY <1>6, WitnessEndKeeps
<1>7. CASE \E e \in Elements : Push(e)
  BY <1>7, PushKeeps
<1>8. CASE Clear
  BY <1>8, ClearKeeps
<1>9. CASE FromSlice
  BY <1>9, FromSliceKeeps
<1>10. CASE UNCHANGED vars
  <2>1. /\ UNCHANGED <<list, made, content, witness_elements, indices_start, stream, verdict, total,
                       count_buf, len_buf, len_limit, element_idx, remaining>>
        /\ UNCHANGED <<pc, rest, at, phase, pos>>
    BY <1>10 DEF vars, witness, input, progress, seen
  <2>2. WitnessShape'
    BY <2>1 DEF WitnessInv, WitnessShape
  <2>3. (IsStream => IsStream') /\ (IsJudged => IsJudged')
        /\ CountSize' = CountSize /\ TooLong(list)' = TooLong(list)
    BY <2>1, ListStays
  <2>4. (AtCount => AtCount') /\ (AtElements => AtElements')
    BY <2>1, <2>3 DEF AtCount, AtElements, Begins, Off, Upto
  <2>5. Complete' <=> Complete
    BY <2>1 DEF Complete
  <2>6. /\ made' => /\ pc' = "idle" /\ remaining' = None /\ phase' = "ok"
                    /\ content' = Canonical(list') /\ indices_start' = Len(Contents(list'))
                    /\ witness_elements' = Len(list')
    BY <2>1 DEF WitnessInv
  <2>7. phase' \in {"more", "ready"} =>
          /\ IsStream' /\ IsJudged'
          /\ witness_elements' = None => AtCount'
          /\ witness_elements' # None => AtElements'
          /\ pc' = "idle" => pos' = at'
          /\ phase' = "ready" => pos' = at' /\ Complete'
          /\ phase' = "more" /\ pc' = "idle" => ~Complete'
    BY <2>1, <2>3, <2>4, <2>5 DEF WitnessInv
  <2>. QED
    BY <2>1, <2>2, <2>6, <2>7 DEF WitnessInv
<1>. QED
  BY <1>1, <1>2, <1>3, <1>4, <1>5, <1>6, <1>7, <1>8, <1>9, <1>10 DEF WitnessNext, Returned

LEMMA WitnessIsRepresented == WitnessInv => RepresentsList
<1>. SUFFICES ASSUME WitnessInv, made PROVE RepresentsList
  BY DEF RepresentsList
<1>1. /\ list \in Seq(Elements) /\ content = Canonical(list)
      /\ indices_start = Len(Contents(list)) /\ witness_elements = Len(list)
  BY DEF WitnessInv, WitnessShape
<1>2. (\A i \in DOMAIN list : get(i - 1) = list[i]) /\ get(Len(list)) = <<None>>
  BY <1>1, GetFinds
<1>. QED
  BY <1>1, <1>2 DEF RepresentsList

-----------------------------------------------------------------------------
(* Witness: the refinement of the trait's contract.                         *)

\* What the decoder's place in the stream says about it, in the contract's terms.
WitnessStanding ==
  /\ pos \in Nat
  /\ phase \in {"more", "ready"} => total \in Nat /\ total > 0 /\ verdict \in {"ok", "badpush"}
  /\ phase = "more" /\ pc = "idle" => pos < total /\ read_limit \in 1..(total - pos)
  /\ phase = "ready" => pos = total /\ verdict = "ok"
  /\ phase = "failed" => verdict = "badpush" /\ pos <= total

LEMMA LimitIs ==
  ASSUME NEW v \in 0..(Radix8 - 1), NEW buf \in Seq(Byte), Begins(buf, encode(v)),
         Len(buf) < Len(encode(v))
  PROVE  compact_size_read_limit(buf) \in 1..(Len(encode(v)) - Len(buf))
<1>1. PICK z \in Seq(Byte) : z = encode(v) /\ Len(z) \in Nat \ {0} /\ EncodedLen(z[1]) = Len(z)
  BY SizeReadsBack
<1>2. PICK w \in Nat, b \in Nat : w = Len(z) /\ b = Len(buf) /\ b < w
  BY <1>1, LenProperties
<1>3. CASE buf = <<>>
  <2>1. b = 0 /\ 1 \in 1..(w - b)
    BY <1>2, <1>3
  <2>. QED
    BY <1>1, <1>2, <1>3, <2>1 DEF compact_size_read_limit
<1>4. CASE buf # <<>>
  <2>1. 1 \in 1..b
    BY <1>2, <1>4
  <2>2. buf[1] = z[1]
    BY <1>1, <1>2, <2>1 DEF Begins
  <2>3. compact_size_read_limit(buf) = w - b
    BY ONLY <1>1, <1>2, <1>4, <2>2, Zenon DEF compact_size_read_limit
  <2>4. w - b \in 1..(w - b)
    BY <1>2
  <2>. QED
    BY ONLY <1>1, <1>2, <2>3, <2>4, Zenon
<1>. QED
  BY <1>3, <1>4

LEMMA StandingAt == ASSUME WitnessInv PROVE WitnessStanding
<1>1. pos \in Nat /\ (phase = "failed" => verdict = "badpush" /\ pos <= total)
  BY DEF WitnessInv, WitnessShape
<1>. SUFFICES ASSUME phase \in {"more", "ready"} PROVE WitnessStanding
  BY <1>1 DEF WitnessStanding
<1>2. /\ WitnessShape /\ IsStream /\ IsJudged
      /\ witness_elements = None => AtCount /\ phase = "more"
      /\ witness_elements # None => AtElements
      /\ Len(list) \in Nat /\ Len(list) \in 0..(Radix8 - 1) /\ list \in Seq(Elements)
      /\ Len(list) <= MaxElements
  BY Running DEF WitnessShape
<1>3. PICK c \in Nat : c = CountSize /\ c # 0 /\ Len(Contents(list)) \in Nat
  BY Running
<1>4. 0 \in 0..Len(list) /\ Off(list, 0) \in Nat
  BY <1>2, UptoType
<1>5. PICK t \in Nat : t = total /\ c + Off(list, 0) <= t
  <2>1. \A j \in 1..0 : j \notin TooLong(list)
    OBVIOUS
  <2>. QED
    BY <1>2, <1>3, <1>4, <2>1, JudgedAt
<1>6. t > 0 /\ c <= t
  BY <1>3, <1>4, <1>5
<1>7. verdict \in {"ok", "badpush"}
  BY <1>2 DEF IsJudged
<1>8. phase = "ready" => pos = total /\ verdict = "ok"
  <2>. SUFFICES ASSUME phase = "ready" PROVE pos = total /\ verdict = "ok"
    OBVIOUS
  <2>1. pos = at /\ witness_elements # None /\ element_idx = witness_elements
    BY DEF WitnessInv, Complete
  <2>2. /\ AtElements /\ witness_elements = Len(list) /\ element_idx = Len(list)
    BY <1>2, <2>1 DEF AtElements
  <2>3. /\ remaining = None /\ len_buf = <<>> /\ Len(content) = Off(list, Len(list))
        /\ at = c + Len(content) + Len(len_buf)
        /\ \A j \in 1..Len(list) : j \notin TooLong(list)
    BY <1>2, <1>3, <2>2 DEF AtElements
  <2>4. Off(list, Len(list)) = Len(Contents(list))
    BY <1>2, UptoAll
  <2>5. Len(list) \in 0..Len(list)
    BY <1>2
  <2>6. verdict = "ok" /\ total = c + Len(Contents(list))
    BY <1>2, <1>3, <2>3, <2>5, JudgedAt
  <2>. QED
    BY <1>3, <2>1, <2>3, <2>4, <2>6
<1>9. phase = "more" /\ pc = "idle" => pos < total /\ read_limit \in 1..(total - pos)
  <2>. SUFFICES ASSUME phase = "more", pc = "idle"
                PROVE  pos < total /\ read_limit \in 1..(total - pos)
    OBVIOUS
  <2>1. pos = at /\ ~Complete
    BY DEF WitnessInv
  <2>2. CASE witness_elements = None
    <3>1. /\ count_buf \in Seq(Byte) /\ Len(count_buf) = at /\ Len(count_buf) < c
          /\ Begins(count_buf, encode(Len(list))) /\ c = Len(encode(Len(list)))
      BY <1>2, <1>3, <2>2 DEF AtCount, CountSize
    <3>2. read_limit \in 1..(c - Len(count_buf))
      BY <1>2, <2>2, <3>1, LimitIs DEF read_limit
    <3>3. PICK b \in Nat : b = Len(count_buf)
      BY <3>1, LenProperties
    <3>. QED
      BY ONLY <1>3, <1>5, <1>6, <2>1, <3>1, <3>2, <3>3
  <2>3. CASE witness_elements # None
    <3>1. /\ AtElements /\ witness_elements = Len(list) /\ element_idx \in 0..Len(list)
          /\ element_idx # Len(list)
      BY <1>2, <2>1, <2>3 DEF AtElements, Complete
    <3>2. PICK k \in Nat : k = element_idx /\ k \in 0..Len(list) /\ k < Len(list)
      BY <1>2, <3>1
    <3>3. \A j \in 1..k : j \notin TooLong(list)
      BY <3>1, <3>2 DEF AtElements
    <3>4. PICK e \in Elements : e = list[k + 1]
      BY <1>2, <3>2, ElementOfSeq
    <3>5. PICK w \in Nat : w = Len(encode(Len(e))) /\ Len(e) \in 0..(Radix8 - 1)
      BY ElementSize
    <3>6. PICK o \in Nat : o = Off(list, k)
      BY <1>2, <3>2, UptoType
    <3>7. c + o + w <= t
      <4>1. c + Off(list, k) + Len(encode(Len(list[k + 1]))) <= t
        BY <1>2, <1>3, <1>5, <3>2, <3>3, JudgedAt
      <4>. QED
        BY ONLY <3>4, <3>5, <3>6, <4>1
    <3>8. CASE remaining = None
      <4>1. /\ len_buf \in Seq(Byte) /\ Len(len_buf) < w /\ Begins(len_buf, encode(Len(e)))
            /\ Len(content) = o /\ at = c + Len(content) + Len(len_buf)
        BY <1>3, <3>1, <3>2, <3>4, <3>5, <3>6, <3>8 DEF AtElements
      <4>2. read_limit \in 1..(w - Len(len_buf))
        BY <2>3, <3>5, <3>8, <4>1, LimitIs DEF read_limit
      <4>3. PICK b \in Nat : b = Len(len_buf)
        BY <4>1, LenProperties
      <4>4. b < w /\ at = c + o + b /\ read_limit \in 1..(w - b)
        BY ONLY <4>1, <4>2, <4>3
      <4>5. PICK a \in Nat : a = c + o + b
        BY <1>3, <3>6, <4>3
      <4>6. c \in Nat /\ o \in Nat /\ b \in Nat /\ w \in Nat /\ t \in Nat /\ a \in Nat
        BY ONLY <1>3, <1>5, <3>5, <3>6, <4>3, <4>5
      <4>7. c + o + w <= t /\ b < w /\ a = c + o + b
        BY ONLY <3>7, <4>4, <4>5
      <4>8. a < t /\ \A i \in 1..(w - b) : i \in 1..(t - a)
        BY ONLY <4>6, <4>7
      <4>9. read_limit \in 1..(t - a)
        BY ONLY <4>4, <4>8
      <4>. QED
        BY ONLY <1>5, <2>1, <4>4, <4>5, <4>8, <4>9, Zenon
    <3>9. CASE remaining # None
      <4>1. PICK r \in Nat : r = remaining /\ r > 0
        BY <1>2, <3>9, WitnessAssumption DEF WitnessShape, WitnessAssumption
      <4>2. /\ k + 1 \notin TooLong(list) /\ len_buf = <<>>
            /\ Len(content) + r = Off(list, k + 1) /\ at = c + Len(content) + Len(len_buf)
            /\ content \in Seq(Byte)
        BY <1>2, <1>3, <3>1, <3>2, <3>9, <4>1, Running DEF AtElements, WitnessShape
      <4>3. PICK d \in Nat : d = Len(content)
        BY <4>2, LenProperties
      <4>4. \A j \in 1..(k + 1) : j \notin TooLong(list)
        <5>1. \A j \in 1..(k + 1) : j \in 1..k \/ j = k + 1
          BY <3>2
        <5>. QED
          BY <3>3, <4>2, <5>1
      <4>5. k + 1 \in 0..Len(list)
        BY <1>2, <3>2
      <4>6. c + Off(list, k + 1) <= t
        BY <1>2, <1>3, <1>5, <4>4, <4>5, JudgedAt
      <4>7. c + (d + r) <= t /\ at = c + d + 0
        BY <4>2, <4>3, <4>6
      <4>8. read_limit = r
        BY <2>3, <3>9, <4>1 DEF read_limit
      <4>. QED
        BY ONLY <1>5, <2>1, <1>3, <4>1, <4>3, <4>7, <4>8
    <3>. QED
      BY <3>8, <3>9
  <2>. QED
    BY <2>2, <2>3
<1>. QED
  BY <1>1, <1>5, <1>6, <1>7, <1>8, <1>9 DEF WitnessStanding

\* What a call that returns has done.
WitnessReturn ==
  /\ phase \in {"more", "ready"} /\ UNCHANGED <<total, verdict>>
  /\ pc' = "idle" /\ phase' \in {"more", "ready", "failed"} /\ limit' = read_limit'
  /\ pos <= pos' /\ (phase = "ready" => phase' = "ready")

\* A call that goes on has not been seen by anyone yet.
Unseen == UNCHANGED <<total, verdict, phase, pos, limit>>

LEMMA TakesSome ==
  ASSUME WitnessInv, pc # "idle"
  PROVE  /\ pc = "count" => \E k \in Nat : Taken(count_buf).n = k /\ k <= rest
         /\ pc = "loop" /\ element_idx < witness_elements /\ remaining = None =>
              \E k \in Nat : Taken(len_buf).n = k /\ k <= rest
<1>1. /\ phase \in {"more", "ready"} /\ (pc = "count" => witness_elements = None)
      /\ (pc = "loop" => witness_elements # None)
  BY Calling
<1>2. /\ WitnessShape /\ IsStream /\ Len(list) \in Nat /\ Len(list) \in 0..(Radix8 - 1)
      /\ witness_elements = None => AtCount
      /\ witness_elements # None => AtElements
      /\ CountSize \in Nat /\ Len(Contents(list)) \in Nat
      /\ stream \in Seq(Byte) /\ at \in Nat /\ rest \in Nat /\ at + rest <= Len(stream)
      /\ list \in Seq(Elements)
  BY <1>1, Running DEF WitnessShape
<1>3. ASSUME pc = "count" PROVE \E k \in Nat : Taken(count_buf).n = k /\ k <= rest
  <2>1. /\ count_buf \in Seq(Byte) /\ at = 0 + Len(count_buf)
        /\ Len(count_buf) < Len(encode(Len(list))) /\ Begins(count_buf, encode(Len(list)))
    BY <1>1, <1>2, <1>3 DEF AtCount, CountSize
  <2>2. \A j \in 1..Len(encode(Len(list))) : stream[0 + j] = encode(Len(list))[j]
    BY <1>2 DEF IsStream, CountSize
  <2>3. IsTaken(Taken(count_buf), count_buf, encode(Len(list)))
    BY <1>2, <2>1, <2>2, TakenPart
  <2>. QED
    BY <2>3 DEF IsTaken
<1>4. ASSUME pc = "loop", element_idx < witness_elements, remaining = None
      PROVE  \E k \in Nat : Taken(len_buf).n = k /\ k <= rest
  <2>1. PICK k \in Nat : k = element_idx /\ k \in 0..Len(list) /\ k < Len(list)
    BY <1>1, <1>2, <1>4 DEF AtElements
  <2>2. PICK e \in Elements : e = list[k + 1]
    BY <1>1, <1>2, <1>4, <2>1, ElementAtHand
  <2>3. PICK z \in Seq(Byte), w \in Nat :
          z = encode(Len(e)) /\ w = Len(z) /\ Len(e) \in 0..(Radix8 - 1) /\ Len(e) \in Nat
    BY ElementSize
  <2>4. PICK o \in Nat : o = Off(list, k) /\ Holds(Contents(list), o, e) /\ o + w <= Len(Contents(list))
    <3>1. /\ Off(list, k) \in Nat /\ Holds(Contents(list), Off(list, k), e)
          /\ Off(list, k + 1) = Off(list, k) + w + Len(e)
          /\ Off(list, k + 1) <= Len(Contents(list))
      BY <1>1, <1>4, <2>1, <2>2, <2>3, ElementAtHand
    <3>. QED
      BY <1>2, <2>3, <3>1
  <2>5. PICK p \in Nat : p = CountSize + o
    BY <1>2
  <2>6. \A j \in 1..w : stream[p + j] = z[j]
    <3>. TAKE j \in 1..w
    <3>1. Contents(list)[o + j] = z[j]
      BY <2>3, <2>4 DEF Holds
    <3>2. o + j \in 1..Len(Contents(list)) /\ p + j = CountSize + (o + j)
      <4>1. PICK m \in Nat, n \in Nat : m = Len(Contents(list)) /\ n = CountSize
        BY ONLY <1>2
      <4>2. w \in Nat /\ o \in Nat /\ j \in 1..w /\ o + w <= m /\ p = n + o
        BY ONLY <2>3, <2>4, <2>5, <4>1, Zenon
      <4>3. o + j \in 1..m /\ p + j = n + (o + j)
        BY ONLY <4>1, <4>2
      <4>. QED
        BY ONLY <4>1, <4>3, Zenon
    <3>3. stream[CountSize + (o + j)] = Contents(list)[o + j]
      BY <1>2, <3>2 DEF IsStream
    <3>. QED
      BY ONLY <3>1, <3>2, <3>3
  <2>7. /\ len_buf \in Seq(Byte) /\ Len(len_buf) < w /\ Begins(len_buf, z)
    BY <1>1, <1>2, <1>4, <2>1, <2>2, <2>3 DEF AtElements
  <2>8. at = p + Len(len_buf)
    <3>1. at = CountSize + Len(content) + Len(len_buf) /\ Len(content) = o
      BY <1>1, <1>2, <1>4, <2>1, <2>4 DEF AtElements
    <3>. QED
      BY <2>5, <3>1
  <2>9. IsTaken(Taken(len_buf), len_buf, z)
    BY ONLY <1>2, <2>3, <2>5, <2>6, <2>7, <2>8, TakenPart, Zenon
  <2>. QED
    BY <2>9 DEF IsTaken
<1>. QED
  BY <1>3, <1>4

LEMMA CallsReturnOrGoOn ==
  ASSUME WitnessInv, Count \/ LoopReturns \/ LoopLength PROVE WitnessReturn \/ Unseen
<1>1. /\ pc # "idle" /\ phase \in {"more", "ready"} /\ pos \in Nat /\ pos <= at /\ WitnessShape
  BY Calling DEF Count, LoopReturns, LoopLength, Loop, WitnessInv, WitnessShape
<1>2. CASE Count
  <2>1. pc = "count" /\ phase = "more"
    BY <1>1, <1>2, Calling, Running DEF Count
  <2>2. PICK k \in Nat : Taken(count_buf).n = k /\ k <= rest
    BY <1>1, <2>1, TakesSome
  <2>3. at' = at + k /\ rest' = rest - k /\ UNCHANGED <<total, verdict>>
    BY <1>2, <2>2 DEF Count, Take, input
  <2>4. pos <= at'
    BY <1>1, <2>2, <2>3, TakeStays
  <2>5. \/ UNCHANGED <<phase, pos, limit>>
        \/ /\ pc' = "idle" /\ phase' \in {"more", "ready", "failed"} /\ limit' = read_limit'
           /\ pos' = at'
    BY <1>2 DEF Count, Return, GoOn, seen
  <2>. QED
    BY <1>1, <2>1, <2>3, <2>4, <2>5 DEF WitnessReturn, Unseen
<1>3. CASE LoopReturns
  <2>1. /\ UNCHANGED <<total, verdict, at>>
        /\ pc' = "idle" /\ limit' = read_limit' /\ pos' = at'
        /\ phase' = IF element_idx >= witness_elements THEN "ready" ELSE "more"
    BY <1>3 DEF LoopReturns, Loop, Return, input
  <2>2. phase = "ready" => phase' = "ready"
    <3>1. pc = "loop" /\ witness_elements # None
      BY <1>1, <1>3, Calling DEF LoopReturns, Loop
    <3>2. AtElements /\ Len(list) \in Nat
      BY <1>1, <3>1, Running
    <3>3. phase = "ready" => element_idx = witness_elements
      BY DEF WitnessInv, Complete
    <3>. QED
      BY <2>1, <3>2, <3>3 DEF AtElements
  <2>. QED
    BY <1>1, <2>1, <2>2 DEF WitnessReturn
<1>4. CASE LoopLength
  <2>1. pc = "loop" /\ element_idx < witness_elements /\ remaining = None /\ witness_elements # None
    BY <1>1, <1>4, Calling DEF LoopLength, Loop
  <2>2. phase = "more"
    BY <1>1, <2>1, ElementAtHand
  <2>3. PICK k \in Nat : Taken(len_buf).n = k /\ k <= rest
    BY <1>1, <2>1, TakesSome
  <2>4. at' = at + k /\ rest' = rest - k /\ UNCHANGED <<total, verdict>>
    BY <1>4, <2>3 DEF LoopLength, Loop, Take, input
  <2>5. pos <= at'
    BY <1>1, <2>3, <2>4, TakeStays
  <2>6. \/ UNCHANGED <<phase, pos, limit>>
        \/ /\ pc' = "idle" /\ phase' \in {"more", "ready", "failed"} /\ limit' = read_limit'
           /\ pos' = at'
    BY <1>4 DEF LoopLength, Return, GoOn, seen
  <2>. QED
    BY <1>1, <2>2, <2>4, <2>5, <2>6 DEF WitnessReturn, Unseen
<1>. QED
  BY <1>2, <1>3, <1>4

LEMMA WitnessInitRefines == WitnessInit => Contract!Init
<1>. SUFFICES ASSUME WitnessInit PROVE Contract!Init
  OBVIOUS
<1>1. WitnessStanding
  BY WitnessInitEstablishes, StandingAt
<1>2. phase = "more" /\ pc = "idle" /\ pos = 0 /\ limit = 1
  BY DEF WitnessInit
<1>3. total \in Nat /\ total > 0 /\ verdict \in {"ok", "badpush"}
  BY <1>1, <1>2 DEF WitnessStanding
<1>. QED
  BY <1>2, <1>3 DEF Contract!Init, Contract!Fresh, Contract!Limits, Contract!Verdicts

LEMMA ReturnRefines ==
  ASSUME WitnessStanding, WitnessStanding', WitnessReturn
  PROVE  [Contract!Next]_(Contract!contractVars)
<1>1. PICK p \in Nat, q \in Nat, t \in Nat :
        /\ p = pos /\ q = pos' /\ t = total /\ t = total' /\ p <= q
        /\ phase \in {"more", "ready"} /\ verdict' = verdict
        /\ pc' = "idle" /\ phase' \in {"more", "ready", "failed"} /\ limit' = read_limit'
        /\ (phase = "ready" => phase' = "ready")
  BY DEF WitnessReturn, WitnessStanding
<1>2. /\ phase' = "more" => q < t /\ limit' \in 1..(t - q)
      /\ phase' = "ready" => q = t /\ verdict = "ok"
      /\ phase' = "failed" => verdict = "badpush" /\ q <= t
  BY <1>1 DEF WitnessStanding
<1>3. CASE phase = "ready"
  <2>1. p = t /\ q = t /\ phase' = "ready"
    BY <1>1, <1>2, <1>3 DEF WitnessStanding
  <2>. QED
    BY <1>1, <1>3, <2>1 DEF Contract!contractVars
<1>4. CASE phase = "more"
  <2>1. p \in Nat /\ q \in Nat /\ t \in Nat /\ p <= q /\ q <= t
    BY <1>1, <1>2
  <2>2. q - p \in 0..(t - p) /\ q - p \in Contract!Takes(q - p) /\ q = p + (q - p)
    <3>1. PICK c \in Nat : c = q - p /\ c <= t - p /\ q = p + c /\ (c > 0 \/ c = 0)
      BY ONLY <2>1
    <3>2. c \in Contract!Takes(c)
      <4>1. t = total /\ p = pos
        BY ONLY <1>1
      <4>. QED
        BY ONLY <2>1, <3>1, <4>1 DEF Contract!Takes, Contract!Lesser
    <3>. QED
      BY ONLY <2>1, <3>1, <3>2
  <2>3. phase' \in Contract!Settle(q)
    BY <1>1, <1>2 DEF Contract!Settle
  <2>4. (IF phase' \in {"more", "err"} THEN limit' ELSE 0)
          \in IF phase' = "failed" THEN {0} ELSE Contract!Limits(q)
    BY <1>1, <1>2 DEF Contract!Limits
  <2>5. Contract!Push(q - p)
    BY <1>1, <1>4, <2>2, <2>3, <2>4 DEF Contract!Push, Contract!Limits
  <2>. QED
    BY <1>1, <2>2, <2>5 DEF Contract!Next
<1>. QED
  BY <1>1, <1>3, <1>4

LEMMA WitnessStepRefines ==
  ASSUME WitnessInv, WitnessStanding, WitnessStanding', [WitnessNext]_vars
  PROVE  [Contract!Next]_(Contract!contractVars)
<1>1. ASSUME Unseen PROVE UNCHANGED Contract!contractVars
  BY <1>1 DEF Unseen, Contract!contractVars
<1>2. CASE Count \/ LoopReturns \/ LoopLength
  BY <1>1, <1>2, CallsReturnOrGoOn, ReturnRefines
<1>3. CASE End
  <2>1. /\ phase \in {"more", "ready"} /\ pc = "idle" /\ UNCHANGED <<total, verdict, pos, limit>>
        /\ phase' = IF Complete THEN "ok" ELSE "err"
    BY <1>3 DEF End, input
  <2>2. /\ phase = "ready" => Complete
        /\ phase = "more" => ~Complete
    BY <2>1 DEF WitnessInv
  <2>3. /\ phase = "ready" => pos = total /\ verdict = "ok"
        /\ phase = "more" => pos # total
    BY <2>1 DEF WitnessStanding
  <2>4. Contract!End
    BY <2>1, <2>2, <2>3 DEF Contract!End
  <2>. QED
    BY <2>4 DEF Contract!Next
<1>4. CASE \E k \in 0..(Len(stream) - at) : PushCall(k)
  BY <1>1, <1>4 DEF PushCall, GoOn, Unseen, input, seen
<1>5. CASE LoopData
  BY <1>1, <1>5 DEF LoopData, Loop, GoOn, Unseen, input, seen
<1>6. CASE (\E e \in Elements : Push(e)) \/ Clear \/ FromSlice
  BY <1>1, <1>6 DEF Push, Clear, FromSlice, Unseen, input, seen
<1>7. CASE UNCHANGED vars
  BY <1>1, <1>7 DEF vars, Unseen, input, seen
<1>. QED
  BY <1>2, <1>3, <1>4, <1>5, <1>6, <1>7 DEF WitnessNext, Returned

\* WitnessDecoder, for every set of elements and every limit, keeps the promises of the
\* trait Decoder, but for read_limit of a complete decoder: what it takes, when it is ready,
\* what it refuses and whether end accepts are what the list in the stream decides.
THEOREM WitnessImplementsDecoder == WitnessSpec => ImplementsDecoder
<1>1. WitnessInit => WitnessInv
  BY WitnessInitEstablishes
<1>2. WitnessInv /\ [WitnessNext]_vars => WitnessInv'
  BY WitnessStepKeeps
<1>3. WitnessInv => WitnessStanding
  BY StandingAt
<1>4. WitnessInit => Contract!Init
  BY WitnessInitRefines
<1>5. WitnessInv /\ WitnessStanding /\ WitnessStanding' /\ [WitnessNext]_vars
        => [Contract!Next]_(Contract!contractVars)
  BY WitnessStepRefines
<1>. QED
  BY <1>1, <1>2, <1>3, <1>4, <1>5, PTL DEF WitnessSpec, ImplementsDecoder, Contract!Spec

====
