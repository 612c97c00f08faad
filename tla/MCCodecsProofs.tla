--------------------------- MODULE MCCodecsProofs ---------------------------
(***************************************************************************)
(* What is proved of the single codecs, carried over to the specification  *)
(* that runs one of them, for every value of its constants.                *)
(*                                                                         *)
(* The lemmas Same... say that an instance of a codec's module and the     *)
(* instance of it in the module of its proofs define the same.             *)
(***************************************************************************)
EXTENDS MCCodecs, SequenceTheorems, FiniteSetTheorems, WellFoundedInduction, TLAPS

\* A set of numbers that is not empty has a least one.
LEMMA LeastNumber ==
  ASSUME NEW T, T \subseteq Nat, T # {}
  PROVE  \E k \in T : \A m \in T : k <= m
<1>. DEFINE R == OpToRel(<, Nat)
<1>1. IsWellFoundedOn(R, Nat)
  BY NatLessThanWellFounded
<1>2. \A x, y \in Nat : y < x => <<y, x>> \in R
  BY DEF OpToRel
<1>. HIDE DEF R
<1>3. PICK k \in T : \A m \in T : ~(<<m, k>> \in R)
  BY <1>1, WFMin
<1>4. \A m \in T : k \in Nat /\ m \in Nat /\ ~(m < k)
  BY <1>2, <1>3
<1>5. \A m \in T : k <= m
  BY <1>4
<1>. QED
  BY <1>3, <1>5

-----------------------------------------------------------------------------
(* FlattenSeq: the chunks of an encoder, one behind the other. *)

\* The sequences behind each other, up to each of the first k.
IsFlat(f, ss, k) ==
  f = [i \in 1..k |-> IF i = 1 THEN ss[i] ELSE f[i - 1] \o ss[i]]

LEMMA FlatGoesOn ==
  ASSUME NEW ss, NEW k \in Nat \ {0}, NEW f, IsFlat(f, ss, k)
  PROVE  \E g : IsFlat(g, ss, k + 1)
<1>. DEFINE g == [i \in 1..(k + 1) |-> IF i = k + 1 THEN f[k] \o ss[k + 1] ELSE f[i]]
<1>1. \A i \in 1..k : f[i] = IF i = 1 THEN ss[i] ELSE f[i - 1] \o ss[i]
  BY Zenon DEF IsFlat
<1>2. g[k + 1] = f[k] \o ss[k + 1] /\ \A i \in 1..k : g[i] = f[i]
  <2>1. k + 1 \in 1..(k + 1) /\ \A i \in 1..k : i \in 1..(k + 1) /\ i # k + 1
    OBVIOUS
  <2>. QED
    BY <2>1
<1>3. ASSUME NEW i \in 1..(k + 1)
      PROVE  g[i] = IF i = 1 THEN ss[i] ELSE g[i - 1] \o ss[i]
  <2>. HIDE DEF g
  <2>1. CASE i = k + 1
    <3>1. i # 1 /\ i - 1 = k /\ k \in 1..k
      BY <2>1
    <3>. QED
      BY <1>2, <2>1, <3>1
  <2>2. CASE i # k + 1
    <3>1. i \in 1..k /\ (i # 1 => i - 1 \in 1..k)
      BY <2>2
    <3>. QED
      BY <1>1, <1>2, <3>1
  <2>. QED
    BY <2>1, <2>2
<1>4. IsFlat(g, ss, k + 1)
  <2>1. g = [i \in 1..(k + 1) |-> g[i]]
    OBVIOUS
  <2>. HIDE DEF g
  <2>. QED
    BY <1>3, <2>1 DEF IsFlat
<1>. QED
  BY <1>4

LEMMA FlatExists ==
  ASSUME NEW ss, NEW k \in Nat \ {0}
  PROVE  \E f : IsFlat(f, ss, k)
<1>. DEFINE T == {j \in Nat \ {0} : ~(\E f : IsFlat(f, ss, j))}
<1>. SUFFICES ASSUME T # {} PROVE FALSE
  OBVIOUS
<1>1. PICK j \in T : \A m \in T : j <= m
  <2>1. T \subseteq Nat
    OBVIOUS
  <2>. HIDE DEF T
  <2>. QED
    BY <2>1, LeastNumber
<1>2. j \in Nat \ {0} /\ ~(\E f : IsFlat(f, ss, j))
  OBVIOUS
<1>3. j # 1
  <2>. SUFFICES ASSUME j = 1 PROVE FALSE
    OBVIOUS
  <2>. DEFINE f == [i \in 1..1 |-> ss[i]]
  <2>1. f = [i \in 1..1 |-> IF i = 1 THEN ss[i] ELSE f[i - 1] \o ss[i]]
    OBVIOUS
  <2>. HIDE DEF f
  <2>2. IsFlat(f, ss, 1)
    BY <2>1 DEF IsFlat
  <2>. QED
    BY <1>2, <2>2
<1>4. j - 1 \in Nat \ {0} /\ (j - 1) + 1 = j /\ ~(j <= j - 1)
  BY <1>2, <1>3
<1>5. PICK f : IsFlat(f, ss, j - 1)
  BY <1>1, <1>4
<1>6. \E g : IsFlat(g, ss, (j - 1) + 1)
  BY <1>4, <1>5, FlatGoesOn
<1>. QED
  BY <1>2, <1>4, <1>6

\* FlattenSeq is the last of them.
LEMMA FlattenIsFlat ==
  ASSUME NEW ss, Len(ss) \in Nat \ {0}
  PROVE  \E f : IsFlat(f, ss, Len(ss)) /\ Enc!FlattenSeq(ss) = f[Len(ss)]
<1>. DEFINE f == CHOOSE f : f = [i \in 1..Len(ss) |-> IF i = 1 THEN ss[i] ELSE f[i - 1] \o ss[i]]
<1>1. \E g : g = [i \in 1..Len(ss) |-> IF i = 1 THEN ss[i] ELSE g[i - 1] \o ss[i]]
  <2>1. PICK g : IsFlat(g, ss, Len(ss))
    BY FlatExists
  <2>. QED
    BY <2>1, Zenon DEF IsFlat
<1>2. IsFlat(f, ss, Len(ss))
  BY <1>1, Zenon DEF IsFlat
<1>3. Enc!FlattenSeq(ss) = f[Len(ss)]
  BY Zenon DEF Enc!FlattenSeq
<1>. QED
  BY <1>2, <1>3

\* What has been put together in f is the first sequence and what is in g.
Joined(f, g, ss, S, k) == g[k] \in Seq(S) /\ f[k + 1] = ss[1] \o g[k]

\* The others are put together behind the first sequence.
LEMMA FlatTail ==
  ASSUME NEW S, NEW ss \in Seq(Seq(S)), NEW k \in Nat \ {0}, k + 1 <= Len(ss),
         NEW f, IsFlat(f, ss, k + 1), NEW g, IsFlat(g, Tail(ss), k)
  PROVE  Joined(f, g, ss, S, k)
<1>1. \A i \in 1..(k + 1) : f[i] = IF i = 1 THEN ss[i] ELSE f[i - 1] \o ss[i]
  BY Zenon DEF IsFlat
<1>2. \A i \in 1..k : g[i] = IF i = 1 THEN Tail(ss)[i] ELSE g[i - 1] \o Tail(ss)[i]
  BY Zenon DEF IsFlat
<1>3. /\ Len(ss) \in Nat /\ \A i \in 1..Len(ss) : ss[i] \in Seq(S)
      /\ \A i \in 1..(Len(ss) - 1) : Tail(ss)[i] = ss[i + 1]
  BY LenProperties, ElementOfSeq, EmptySeq, HeadTailProperties
<1>. DEFINE T == {i \in 1..k : ~(g[i] \in Seq(S) /\ f[i + 1] = ss[1] \o g[i])}
<1>. SUFFICES ASSUME T # {} PROVE FALSE
  <2>1. k \in 1..k
    OBVIOUS
  <2>. QED
    BY <2>1 DEF Joined
<1>4. PICK i \in T : \A m \in T : i <= m
  <2>1. T \subseteq Nat
    <3>1. \A m \in 1..k : m \in Nat
      OBVIOUS
    <3>. QED
      BY <3>1, Zenon
  <2>. HIDE DEF T
  <2>. QED
    BY <2>1, LeastNumber
<1>5. i \in 1..k /\ ~(g[i] \in Seq(S) /\ f[i + 1] = ss[1] \o g[i])
  OBVIOUS
<1>6. /\ i + 1 \in 1..(k + 1) /\ i + 1 # 1 /\ (i + 1) - 1 = i /\ i \in 1..(k + 1)
      /\ i + 1 \in 1..Len(ss) /\ i \in 1..(Len(ss) - 1) /\ 1 \in 1..Len(ss) /\ 1 \in 1..(k + 1)
  BY <1>3, <1>5
<1>7. f[i + 1] = f[i] \o ss[i + 1] /\ Tail(ss)[i] = ss[i + 1]
  BY <1>1, <1>3, <1>6
<1>8. CASE i = 1
  BY <1>1, <1>2, <1>3, <1>5, <1>6, <1>7, <1>8
<1>9. CASE i # 1
  <2>1. i - 1 \in 1..k /\ (i - 1) + 1 = i /\ ~(i <= i - 1)
    BY <1>5, <1>9
  <2>2. g[i - 1] \in Seq(S) /\ f[i] = ss[1] \o g[i - 1]
    BY <1>4, <2>1
  <2>3. g[i] = g[i - 1] \o ss[i + 1]
    BY <1>2, <1>5, <1>7, <1>9
  <2>4. ss[1] \in Seq(S) /\ ss[i + 1] \in Seq(S)
    BY <1>3, <1>6
  <2>5. (ss[1] \o g[i - 1]) \o ss[i + 1] = ss[1] \o (g[i - 1] \o ss[i + 1])
    <3>. DEFINE x == ss[1]
                y == g[i - 1]
                z == ss[i + 1]
    <3>1. x \in Seq(S) /\ y \in Seq(S) /\ z \in Seq(S)
      BY <2>2, <2>4
    <3>. HIDE DEF x, y, z
    <3>2. (x \o y) \o z = x \o (y \o z)
      BY ONLY <3>1, ConcatAssociative
    <3>. QED
      BY <3>2 DEF x, y, z
  <2>6. g[i] \in Seq(S)
    BY <2>2, <2>3, <2>4, ConcatProperties
  <2>. QED
    BY <1>5, <1>7, <2>2, <2>3, <2>5, <2>6
<1>. QED
  BY <1>8, <1>9

LEMMA FlattenEmpty == Enc!FlattenSeq(<<>>) = <<>>
BY DEF Enc!FlattenSeq

LEMMA FlattenCons ==
  ASSUME NEW S, NEW ss \in Seq(Seq(S)), ss # <<>>
  PROVE  /\ ss[1] \in Seq(S) /\ Tail(ss) \in Seq(Seq(S)) /\ Enc!FlattenSeq(Tail(ss)) \in Seq(S)
         /\ Enc!FlattenSeq(ss) = ss[1] \o Enc!FlattenSeq(Tail(ss))
<1>1. /\ Len(ss) \in Nat \ {0} /\ ss[1] \in Seq(S)
      /\ Tail(ss) \in Seq(Seq(S)) /\ Len(Tail(ss)) = Len(ss) - 1
  BY LenProperties, ElementOfSeq, EmptySeq, HeadTailProperties
<1>2. PICK f : IsFlat(f, ss, Len(ss)) /\ Enc!FlattenSeq(ss) = f[Len(ss)]
  BY <1>1, FlattenIsFlat
<1>3. CASE Len(ss) = 1
  <2>1. f[1] = ss[1]
    <3>1. 1 \in 1..1
      OBVIOUS
    <3>. QED
      BY <1>2, <1>3, <3>1, Zenon DEF IsFlat
  <2>2. Tail(ss) = <<>>
    <3>1. Len(Tail(ss)) = 0 /\ Tail(ss) \in Seq(Seq(S))
      BY <1>1, <1>3
    <3>. QED
      BY ONLY <3>1, EmptySeq
  <2>3. Enc!FlattenSeq(Tail(ss)) = <<>> /\ <<>> \in Seq(S)
    BY <2>2, FlattenEmpty, EmptySeq
  <2>4. ss[1] \o <<>> = ss[1]
    BY <1>1, ConcatEmptySeq
  <2>. QED
    BY <1>1, <1>2, <1>3, <2>1, <2>3, <2>4
<1>4. CASE Len(ss) # 1
  <2>1. PICK k \in Nat \ {0} : k + 1 = Len(ss)
    <3>1. Len(ss) - 1 \in Nat \ {0} /\ (Len(ss) - 1) + 1 = Len(ss)
      BY <1>1, <1>4
    <3>. QED
      BY <3>1
  <2>2. Len(Tail(ss)) = k /\ k \in 1..k /\ k + 1 <= Len(ss)
    <3>1. k \in 1..k /\ k + 1 <= k + 1 /\ (k + 1) - 1 = k
      OBVIOUS
    <3>. QED
      BY <1>1, <2>1, <3>1, Zenon
  <2>3. PICK g : IsFlat(g, Tail(ss), k) /\ Enc!FlattenSeq(Tail(ss)) = g[k]
    BY <2>2, FlattenIsFlat
  <2>4. IsFlat(f, ss, k + 1) /\ Enc!FlattenSeq(ss) = f[k + 1]
    BY <1>2, <2>1
  <2>5. g[k] \in Seq(S) /\ f[k + 1] = ss[1] \o g[k]
    <3>1. Joined(f, g, ss, S, k)
      BY <2>1, <2>2, <2>3, <2>4, FlatTail
    <3>. QED
      BY <3>1 DEF Joined
  <2>. QED
    BY <1>1, <2>2, <2>3, <2>4, <2>5
<1>. QED
  BY <1>3, <1>4

LEMMA FlattenType ==
  ASSUME NEW S, NEW ss \in Seq(Seq(S))
  PROVE  Enc!FlattenSeq(ss) \in Seq(S)
<1>1. CASE ss = <<>>
  <2>1. Enc!FlattenSeq(ss) = <<>>
    BY <1>1, FlattenEmpty
  <2>. QED
    BY ONLY <2>1, EmptySeq
<1>2. CASE ss # <<>>
  <2>1. /\ ss[1] \in Seq(S) /\ Enc!FlattenSeq(Tail(ss)) \in Seq(S)
        /\ Enc!FlattenSeq(ss) = ss[1] \o Enc!FlattenSeq(Tail(ss))
    BY <1>2, FlattenCons
  <2>. QED
    BY ONLY <2>1, ConcatProperties
<1>. QED
  BY <1>1, <1>2

-----------------------------------------------------------------------------
(* The bytes of the objects of a slice.                                    *)

LEMMA FunctionIsSeq ==
  ASSUME NEW S, NEW k \in Nat, NEW h \in [1..k -> S]
  PROVE  h \in Seq(S) /\ Len(h) = k
OBVIOUS

LEMMA BytesEmpty == Enc!Bytes(<<>>) = <<>>
<1>1. [j \in DOMAIN <<>> |-> Enc!FlattenSeq(<<>>[j])] = <<>>
  OBVIOUS
<1>. QED
  BY <1>1, FlattenEmpty, Zenon DEF Enc!Bytes

\* s is the sequence t and, behind it, u.
IsFollowed(S, s, t, u) == t \in Seq(S) /\ u \in Seq(S) /\ s = t \o u

LEMMA BytesCons ==
  ASSUME NEW S, NEW xs \in Seq(Seq(Seq(S))), xs # <<>>
  PROVE  IsFollowed(S, Enc!Bytes(xs), Enc!FlattenSeq(xs[1]), Enc!Bytes(Tail(xs)))
<1>. DEFINE flat == [j \in DOMAIN xs |-> Enc!FlattenSeq(xs[j])]
            rest_ == [j \in DOMAIN Tail(xs) |-> Enc!FlattenSeq(Tail(xs)[j])]
<1>1. /\ Len(xs) \in Nat \ {0} /\ DOMAIN xs = 1..Len(xs)
      /\ Tail(xs) \in Seq(Seq(Seq(S))) /\ DOMAIN Tail(xs) = 1..(Len(xs) - 1)
      /\ \A j \in 1..(Len(xs) - 1) : Tail(xs)[j] = xs[j + 1]
      /\ \A j \in 1..Len(xs) : xs[j] \in Seq(Seq(S))
  BY LenProperties, ElementOfSeq, EmptySeq, HeadTailProperties
<1>2. \A j \in 1..Len(xs) : Enc!FlattenSeq(xs[j]) \in Seq(S)
  BY <1>1, FlattenType
<1>3. flat \in Seq(Seq(S)) /\ Len(flat) = Len(xs) /\ flat # <<>>
  <2>1. flat = [j \in 1..Len(xs) |-> Enc!FlattenSeq(xs[j])]
    BY <1>1, Zenon
  <2>. HIDE DEF flat
  <2>2. flat \in [1..Len(xs) -> Seq(S)]
    BY <1>2, <2>1
  <2>3. flat \in Seq(Seq(S)) /\ Len(flat) = Len(xs)
    BY <1>1, <2>2, FunctionIsSeq
  <2>4. flat # <<>>
    <3>1. Len(flat) # 0
      BY <1>1, <2>3
    <3>. QED
      BY <3>1, EmptySeq
  <2>. QED
    BY <2>3, <2>4
<1>4. Tail(flat) = rest_
  <2>1. \A j \in 1..Len(xs) : flat[j] = Enc!FlattenSeq(xs[j])
    BY <1>1, Zenon
  <2>2. rest_ = [j \in 1..(Len(xs) - 1) |-> Enc!FlattenSeq(Tail(xs)[j])]
    BY <1>1, Zenon
  <2>. HIDE DEF flat, rest_
  <2>3. \A j \in 1..(Len(xs) - 1) : j + 1 \in 1..Len(xs)
    BY <1>1
  <2>4. \A j \in 1..(Len(xs) - 1) : rest_[j] = flat[j + 1]
    BY <1>1, <2>1, <2>2, <2>3
  <2>5. rest_ \in Seq(Seq(S)) /\ Len(rest_) = Len(xs) - 1
    <3>1. rest_ \in [1..(Len(xs) - 1) -> Seq(S)]
      BY <1>1, <1>2, <2>2, <2>3
    <3>2. Len(xs) - 1 \in Nat
      BY <1>1
    <3>. QED
      BY <3>1, <3>2, FunctionIsSeq
  <2>6. /\ Tail(flat) \in Seq(Seq(S)) /\ Len(Tail(flat)) = Len(xs) - 1
        /\ \A j \in 1..(Len(xs) - 1) : Tail(flat)[j] = flat[j + 1]
    BY <1>1, <1>3, HeadTailProperties
  <2>. QED
    BY <2>4, <2>5, <2>6, SeqEqual
<1>5. flat[1] = Enc!FlattenSeq(xs[1])
  BY <1>1
<1>6. Enc!Bytes(xs) = Enc!FlattenSeq(flat) /\ Enc!Bytes(Tail(xs)) = Enc!FlattenSeq(rest_)
  BY Zenon DEF Enc!Bytes
<1>. HIDE DEF flat, rest_
<1>7. /\ flat[1] \in Seq(S) /\ Enc!FlattenSeq(Tail(flat)) \in Seq(S)
      /\ Enc!FlattenSeq(flat) = flat[1] \o Enc!FlattenSeq(Tail(flat))
  BY <1>3, FlattenCons
<1>. QED
  BY <1>4, <1>5, <1>6, <1>7, Zenon DEF IsFollowed

LEMMA BytesType ==
  ASSUME NEW S, NEW xs \in Seq(Seq(Seq(S)))
  PROVE  Enc!Bytes(xs) \in Seq(S)
<1>1. CASE xs = <<>>
  <2>1. Enc!Bytes(xs) = <<>>
    BY <1>1, BytesEmpty
  <2>. QED
    BY ONLY <2>1, EmptySeq
<1>2. CASE xs # <<>>
  <2>1. IsFollowed(S, Enc!Bytes(xs), Enc!FlattenSeq(xs[1]), Enc!Bytes(Tail(xs)))
    BY <1>2, BytesCons
  <2>. QED
    BY ONLY <2>1, ConcatProperties DEF IsFollowed
<1>. QED
  BY <1>1, <1>2

\* An object of one empty chunk has no bytes.
LEMMA EmptyObject == Enc!FlattenSeq(<< <<>> >>) = <<>>
<1>. DEFINE ss == << <<>> >>
<1>1. ss \in Seq(Seq({})) /\ ss # <<>> /\ ss[1] = <<>> /\ Tail(ss) = <<>>
  <2>1. <<>> \in Seq({})
    BY EmptySeq
  <2>. QED
    BY <2>1
<1>. HIDE DEF ss
<1>2. /\ ss[1] \in Seq({})
      /\ Enc!FlattenSeq(ss) = ss[1] \o Enc!FlattenSeq(Tail(ss))
  BY <1>1, FlattenCons
<1>3. Enc!FlattenSeq(ss) = <<>> \o <<>>
  BY <1>1, <1>2, FlattenEmpty, Zenon
<1>. QED
  BY <1>3, ConcatEmptySeq, EmptySeq DEF ss

\* Objects of one empty chunk each may be passed over.
LEMMA BytesSkip ==
  ASSUME NEW S, NEW xs \in Seq(Seq(Seq(S))), NEW j \in 1..(Len(xs) + 1),
         \A m \in 1..(j - 1) : xs[m] = << <<>> >>
  PROVE  Enc!Bytes(xs) = Enc!Bytes(SubSeq(xs, j, Len(xs)))
<1>1. Len(xs) \in Nat
  BY LenProperties
<1>. DEFINE T == {k \in 1..j : Enc!Bytes(SubSeq(xs, k, Len(xs))) # Enc!Bytes(xs)}
<1>. SUFFICES ASSUME T # {} PROVE FALSE
  <2>1. j \in 1..j
    BY <1>1
  <2>. QED
    BY <2>1
<1>2. PICK k \in T : \A m \in T : k <= m
  <2>1. T \subseteq Nat
    <3>1. \A m \in 1..j : m \in Nat
      BY <1>1
    <3>. QED
      BY <3>1, Zenon
  <2>. HIDE DEF T
  <2>. QED
    BY <2>1, LeastNumber
<1>3. k \in 1..j /\ Enc!Bytes(SubSeq(xs, k, Len(xs))) # Enc!Bytes(xs)
  OBVIOUS
<1>4. k # 1
  BY <1>3, SubSeqFull
<1>5. /\ k - 1 \in 1..j /\ k - 1 \in 1..(j - 1) /\ k - 1 \in 1..Len(xs)
      /\ Len(xs) \in (k - 1)..Len(xs)
      /\ (k - 1) + 1 = k /\ ~(k <= k - 1)
  BY <1>1, <1>3, <1>4
<1>6. Enc!Bytes(SubSeq(xs, k - 1, Len(xs))) = Enc!Bytes(xs)
  BY <1>2, <1>5
<1>. DEFINE zs == SubSeq(xs, k - 1, Len(xs))
<1>7. zs \in Seq(Seq(Seq(S))) /\ Len(zs) > 0
  <2>1. /\ \A i \in (k - 1)..Len(xs) : i \in 1..Len(xs)
        /\ k - 1 \in Int /\ Len(xs) \in Int /\ k - 1 <= Len(xs) /\ Len(xs) - (k - 1) + 1 > 0
    BY <1>1, <1>5
  <2>2. \A i \in (k - 1)..Len(xs) : xs[i] \in Seq(Seq(S))
    BY <2>1, ElementOfSeq
  <2>. QED
    BY <2>1, <2>2, SubSeqProperties
<1>8. Head(zs) = xs[k - 1] /\ Tail(zs) = SubSeq(xs, k, Len(xs))
  BY <1>5, HeadTailOfSubSeq
<1>9. zs # <<>> /\ zs[1] = << <<>> >>
  <2>. HIDE DEF zs
  <2>1. zs # <<>> /\ Head(zs) = zs[1]
    BY <1>7
  <2>. QED
    BY <1>5, <1>8, <2>1
<1>. HIDE DEF zs
<1>10. IsFollowed(S, Enc!Bytes(zs), Enc!FlattenSeq(zs[1]), Enc!Bytes(Tail(zs)))
  BY <1>7, <1>9, BytesCons
<1>11. Enc!FlattenSeq(zs[1]) = <<>>
  BY <1>9, EmptyObject
<1>12. Enc!Bytes(zs) = Enc!Bytes(Tail(zs))
  BY <1>10, <1>11, ConcatEmptySeq DEF IsFollowed
<1>. QED
  BY <1>3, <1>6, <1>8, <1>12 DEF zs

-----------------------------------------------------------------------------
(* What advance does to the bytes that are still to come.                  *)

\* A byte, and the encoders of an object: chunks, of which there is one at least.
EncByte == Nat \X Nat \X Nat
Objects == Seq(Seq(EncByte)) \ {<<>>}

\* The bytes behind the object a SliceEncoder works at, and all that is to come.
Behind(objects) == IF objects = <<>> THEN <<>> ELSE Enc!Bytes(Tail(objects))
Ahead ==
  IF cur_idx = 0 THEN Enc!FlattenSeq(enc_1) \o Enc!Bytes(sl)
                 ELSE Enc!FlattenSeq(cur_enc) \o Behind(sl)

\* cur_enc is None exactly when the slice is used up, and the first object of the slice
\* until the part before it is finished.
EncoderShape ==
  /\ cur_idx \in {0, 1}
  /\ enc_1 \in Objects
  /\ sl \in Seq(Objects)
  /\ cur_enc \in Seq(Seq(EncByte))
  /\ (cur_enc = <<>>) <=> (sl = <<>>)
  /\ cur_idx = 0 /\ sl # <<>> => cur_enc = sl[1]

LEMMA ObjectsAreChunks == \A xs \in Seq(Objects) : xs \in Seq(Seq(Seq(EncByte)))
<1>1. Objects \subseteq Seq(Seq(EncByte))
  BY DEF Objects
<1>. QED
  BY <1>1, SeqMonotonic

LEMMA BehindType ==
  ASSUME NEW xs \in Seq(Objects)
  PROVE  Behind(xs) \in Seq(EncByte)
<1>1. CASE xs = <<>>
  <2>1. Behind(xs) = <<>>
    BY <1>1 DEF Behind
  <2>. QED
    BY ONLY <2>1, EmptySeq
<1>2. CASE xs # <<>>
  <2>1. Tail(xs) \in Seq(Seq(Seq(EncByte)))
    BY <1>2, HeadTailProperties, ObjectsAreChunks
  <2>2. Enc!Bytes(Tail(xs)) \in Seq(EncByte)
    BY <2>1, BytesType
  <2>. QED
    BY <1>2, <2>2 DEF Behind
<1>. QED
  BY <1>1, <1>2

\* SliceEncoder goes on with the first object that has bytes to give or several chunks.
LEMMA NextObjectEffect ==
  ASSUME NEW xs \in Seq(Objects), NEW next, next = Enc!NextObject(xs)
  PROVE  /\ next.sl \in Seq(Objects)
         /\ next.cur_enc \in Seq(Seq(EncByte))
         /\ (next.cur_enc = <<>>) <=> (next.sl = <<>>)
         /\ IsFollowed(EncByte, Enc!Bytes(xs), Enc!FlattenSeq(next.cur_enc), Behind(next.sl))
<1>. DEFINE U == Enc!Unseen(xs)
<1>1. /\ Len(xs) \in Nat /\ DOMAIN xs = 1..Len(xs)
      /\ \A i \in 1..Len(xs) : xs[i] \in Objects
      /\ xs \in Seq(Seq(Seq(EncByte)))
  BY LenProperties, ElementOfSeq, ObjectsAreChunks
<1>2. \A i : i \in U <=> i \in 1..Len(xs) /\ xs[i] # << <<>> >>
  BY <1>1 DEF Enc!Unseen
<1>3. CASE U = {}
  <2>1. next = [sl |-> <<>>, cur_enc |-> <<>>]
    BY <1>3, Zenon DEF Enc!NextObject
  <2>2. Enc!Bytes(xs) = Enc!Bytes(SubSeq(xs, Len(xs) + 1, Len(xs)))
    <3>1. Len(xs) + 1 \in 1..(Len(xs) + 1) /\ (Len(xs) + 1) - 1 = Len(xs)
      BY <1>1
    <3>2. \A m \in 1..Len(xs) : xs[m] = << <<>> >>
      BY <1>2, <1>3
    <3>. QED
      BY <1>1, <3>1, <3>2, BytesSkip
  <2>3. SubSeq(xs, Len(xs) + 1, Len(xs)) = <<>>
    BY <1>1, SubSeqEmpty
  <2>4. Enc!Bytes(xs) = <<>>
    BY <2>2, <2>3, BytesEmpty
  <2>5. /\ next.sl = <<>> /\ next.cur_enc = <<>>
        /\ Enc!FlattenSeq(next.cur_enc) = <<>> /\ Behind(next.sl) = <<>>
    BY <2>1, FlattenEmpty DEF Behind
  <2>6. <<>> \in Seq(Objects) /\ <<>> \in Seq(Seq(EncByte)) /\ <<>> \in Seq(EncByte) /\ <<>> \o <<>> = <<>>
    BY EmptySeq, ConcatEmptySeq
  <2>. QED
    BY <2>4, <2>5, <2>6, Zenon DEF IsFollowed
<1>4. CASE U # {}
  <2>. DEFINE j == CHOOSE j \in U : \A k \in U : j <= k
  <2>1. j \in U /\ \A k \in U : j <= k
    <3>1. U \subseteq Nat
      BY <1>1, <1>2
    <3>2. \E i \in U : \A k \in U : i <= k
      BY <1>4, <3>1, LeastNumber
    <3>. QED
      BY <3>2, Zenon
  <2>2. next = [sl |-> SubSeq(xs, j, Len(xs)),
                cur_enc |-> IF xs[j][1] = <<>> THEN Tail(xs[j]) ELSE xs[j]]
    BY <1>4, Zenon DEF Enc!NextObject
  <2>. HIDE DEF j, U
  <2>3. /\ j \in 1..Len(xs) /\ xs[j] # << <<>> >> /\ xs[j] \in Objects
        /\ xs[j] \in Seq(Seq(EncByte)) /\ xs[j] # <<>>
    BY <1>1, <1>2, <2>1 DEF Objects
  <2>4. \A m \in 1..(j - 1) : xs[m] = << <<>> >>
    <3>. SUFFICES ASSUME NEW m \in 1..(j - 1) PROVE xs[m] = << <<>> >>
      OBVIOUS
    <3>1. m \in 1..Len(xs) /\ ~(j <= m)
      BY <1>1, <2>3
    <3>. QED
      BY <1>2, <2>1, <3>1
  <2>. DEFINE zs == SubSeq(xs, j, Len(xs))
  <2>5. Enc!Bytes(xs) = Enc!Bytes(zs)
    <3>1. j \in 1..(Len(xs) + 1)
      BY <1>1, <2>3
    <3>. QED
      BY <1>1, <2>4, <3>1, BytesSkip
  <2>6. zs \in Seq(Objects) /\ zs # <<>> /\ zs[1] = xs[j]
    <3>1. /\ \A i \in j..Len(xs) : i \in 1..Len(xs)
          /\ j \in Int /\ Len(xs) \in Int /\ j <= Len(xs) /\ Len(xs) - j + 1 > 0
          /\ j + 1 - 1 = j /\ 1 \in 1..(Len(xs) - j + 1)
      BY <1>1, <2>3
    <3>2. \A i \in j..Len(xs) : xs[i] \in Objects
      BY <1>1, <3>1
    <3>3. zs \in Seq(Objects) /\ Len(zs) > 0 /\ zs[1] = xs[j]
      BY <3>1, <3>2, SubSeqProperties
    <3>. HIDE DEF zs
    <3>. QED
      BY <3>3
  <2>7. IsFollowed(EncByte, Enc!Bytes(zs), Enc!FlattenSeq(xs[j]), Behind(zs))
    <3>. HIDE DEF zs
    <3>1. zs \in Seq(Seq(Seq(EncByte)))
      BY <2>6, ObjectsAreChunks
    <3>2. IsFollowed(EncByte, Enc!Bytes(zs), Enc!FlattenSeq(zs[1]), Enc!Bytes(Tail(zs)))
      BY <2>6, <3>1, BytesCons
    <3>. QED
      BY <2>6, <3>2 DEF Behind
  <2>8. /\ next.cur_enc \in Seq(Seq(EncByte)) /\ next.cur_enc # <<>>
        /\ Enc!FlattenSeq(next.cur_enc) = Enc!FlattenSeq(xs[j])
    <3>. DEFINE o == xs[j]
    <3>1. next.cur_enc = IF o[1] = <<>> THEN Tail(o) ELSE o
      BY <2>2
    <3>2. o \in Seq(Seq(EncByte)) /\ o # <<>> /\ o # << <<>> >>
      BY <2>3
    <3>. HIDE DEF o
    <3>3. CASE o[1] = <<>>
      <4>1. /\ Tail(o) \in Seq(Seq(EncByte)) /\ Enc!FlattenSeq(Tail(o)) \in Seq(EncByte)
            /\ Enc!FlattenSeq(o) = o[1] \o Enc!FlattenSeq(Tail(o))
        BY <3>2, FlattenCons
      <4>2. Enc!FlattenSeq(o) = Enc!FlattenSeq(Tail(o))
        BY <3>3, <4>1, ConcatEmptySeq
      <4>3. Tail(o) # <<>>
        <5>. SUFFICES ASSUME Tail(o) = <<>> PROVE FALSE
          OBVIOUS
        <5>1. Len(o) = 1
          <6>1. Len(Tail(o)) = Len(o) - 1 /\ Len(o) \in Nat
            BY <3>2, LenProperties, HeadTailProperties
          <6>2. Len(Tail(o)) = 0
            BY EmptySeq
          <6>. QED
            BY <6>1, <6>2
        <5>2. o = << <<>> >>
          BY <3>2, <3>3, <5>1
        <5>. QED
          BY <3>2, <5>2
      <4>4. next.cur_enc = Tail(o)
        BY <3>1, <3>3
      <4>. QED
        BY <4>1, <4>2, <4>3, <4>4, Zenon DEF o
    <3>4. CASE o[1] # <<>>
      <4>1. next.cur_enc = o
        BY <3>1, <3>4
      <4>. QED
        BY <3>2, <4>1, Zenon DEF o
    <3>. QED
      BY <3>3, <3>4, Zenon
  <2>9. next.sl = zs
    <3>. DEFINE o == IF xs[j][1] = <<>> THEN Tail(xs[j]) ELSE xs[j]
    <3>1. next = [sl |-> zs, cur_enc |-> o]
      BY <2>2, Zenon
    <3>. HIDE DEF zs, o
    <3>. QED
      BY <3>1
  <2>. HIDE DEF zs
  <2>. QED
    BY <2>5, <2>6, <2>7, <2>8, <2>9 DEF IsFollowed
<1>. QED
  BY <1>3, <1>4

LEMMA AheadType == ASSUME EncoderShape PROVE Ahead \in Seq(EncByte)
<1>1. /\ Enc!FlattenSeq(enc_1) \in Seq(EncByte) /\ Enc!FlattenSeq(cur_enc) \in Seq(EncByte)
      /\ Enc!Bytes(sl) \in Seq(EncByte) /\ Behind(sl) \in Seq(EncByte)
  <2>1. enc_1 \in Seq(Seq(EncByte)) /\ sl \in Seq(Objects) /\ cur_enc \in Seq(Seq(EncByte))
    BY DEF EncoderShape, Objects
  <2>. QED
    BY <2>1, FlattenType, BytesType, BehindType, ObjectsAreChunks
<1>2. CASE cur_idx = 0
  <2>1. Ahead = Enc!FlattenSeq(enc_1) \o Enc!Bytes(sl)
    BY <1>2 DEF Ahead
  <2>. QED
    BY ONLY <1>1, <2>1, ConcatProperties
<1>3. CASE cur_idx # 0
  <2>1. Ahead = Enc!FlattenSeq(cur_enc) \o Behind(sl)
    BY <1>3 DEF Ahead
  <2>. QED
    BY ONLY <1>1, <2>1, ConcatProperties
<1>. QED
  BY <1>2, <1>3

\* The chunks c and those of the rest, one object, and what follows the object.
LEMMA ChunkOff ==
  ASSUME NEW ss \in Objects, NEW b \in Seq(EncByte)
  PROVE  /\ ss[1] \in Seq(EncByte)
         /\ Len(ss) > 1 => /\ Tail(ss) \in Objects
                           /\ IsFollowed(EncByte, Enc!FlattenSeq(ss) \o b, ss[1],
                                         Enc!FlattenSeq(Tail(ss)) \o b)
         /\ ~(Len(ss) > 1) => IsFollowed(EncByte, Enc!FlattenSeq(ss) \o b, ss[1], b)
<1>1. ss \in Seq(Seq(EncByte)) /\ ss # <<>>
  BY DEF Objects
<1>2. /\ ss[1] \in Seq(EncByte) /\ Tail(ss) \in Seq(Seq(EncByte))
      /\ Enc!FlattenSeq(Tail(ss)) \in Seq(EncByte)
      /\ Enc!FlattenSeq(ss) = ss[1] \o Enc!FlattenSeq(Tail(ss))
  BY <1>1, FlattenCons
<1>3. Len(ss) \in Nat \ {0} /\ Len(Tail(ss)) = Len(ss) - 1
  BY <1>1, EmptySeq, HeadTailProperties
<1>4. ASSUME Len(ss) > 1
      PROVE  Tail(ss) \in Objects
             /\ IsFollowed(EncByte, Enc!FlattenSeq(ss) \o b, ss[1], Enc!FlattenSeq(Tail(ss)) \o b)
  <2>1. Tail(ss) # <<>>
    <3>1. Len(Tail(ss)) # 0
      BY <1>3, <1>4
    <3>. QED
      BY <3>1, EmptySeq
  <2>. DEFINE x == ss[1]
              y == Enc!FlattenSeq(Tail(ss))
  <2>2. x \in Seq(EncByte) /\ y \in Seq(EncByte) /\ Enc!FlattenSeq(ss) = x \o y
    BY <1>2
  <2>. HIDE DEF x, y
  <2>3. (x \o y) \o b = x \o (y \o b)
    BY <2>2, ConcatAssociative
  <2>4. y \o b \in Seq(EncByte)
    BY <2>2, ConcatProperties
  <2>5. IsFollowed(EncByte, Enc!FlattenSeq(ss) \o b, x, y \o b)
    BY <2>2, <2>3, <2>4, Zenon DEF IsFollowed
  <2>. QED
    BY <1>2, <2>1, <2>5 DEF Objects, x, y
<1>5. ASSUME ~(Len(ss) > 1)
      PROVE  IsFollowed(EncByte, Enc!FlattenSeq(ss) \o b, ss[1], b)
  <2>1. Tail(ss) = <<>>
    <3>1. Len(Tail(ss)) = 0
      BY <1>3, <1>5
    <3>. QED
      BY <1>2, <3>1, EmptySeq
  <2>2. Enc!FlattenSeq(ss) = ss[1]
    <3>1. Enc!FlattenSeq(ss) = ss[1] \o <<>>
      BY <1>2, <2>1, FlattenEmpty, Zenon
    <3>. QED
      BY <1>2, <3>1, ConcatEmptySeq
  <2>. QED
    BY <1>2, <2>2, Zenon DEF IsFollowed
<1>. QED
  BY <1>2, <1>4, <1>5

\* A call of advance takes the current chunk, and nothing else, from the bytes that are to
\* come, and an encoder that says Finished has come to its last chunk.
LEMMA AdvanceEffect ==
  ASSUME EncoderShape, NEW status, Enc!advance(status)
  PROVE  /\ EncoderShape'
         /\ Enc!current_chunk \in Seq(EncByte)
         /\ status \in {"HasMore", "Finished"}
         /\ status = "HasMore" => IsFollowed(EncByte, Ahead, Enc!current_chunk, Ahead')
         /\ status = "Finished" => Ahead = Enc!current_chunk
<1>1. /\ cur_idx \in {0, 1} /\ enc_1 \in Objects /\ sl \in Seq(Objects)
      /\ cur_enc \in Seq(Seq(EncByte)) /\ (cur_enc = <<>> <=> sl = <<>>)
      /\ (cur_idx = 0 /\ sl # <<>> => cur_enc = sl[1])
      /\ cur_enc # <<>> => cur_enc \in Objects
  BY DEF EncoderShape, Objects
<1>2. Enc!Bytes(sl) \in Seq(EncByte) /\ Behind(sl) \in Seq(EncByte)
  BY <1>1, BytesType, BehindType, ObjectsAreChunks
<1>3. CASE cur_idx = 0
  <2>1. /\ Enc!current_chunk = enc_1[1] /\ Ahead = Enc!FlattenSeq(enc_1) \o Enc!Bytes(sl)
        /\ status = "HasMore" /\ UNCHANGED <<sl, cur_enc>>
    BY <1>3 DEF Enc!current_chunk, Ahead, Enc!advance
  <2>2. CASE Len(enc_1) > 1
    <3>1. enc_1' = Tail(enc_1) /\ UNCHANGED cur_idx
      BY <1>3, <2>2 DEF Enc!advance
    <3>2. Ahead' = Enc!FlattenSeq(Tail(enc_1)) \o Enc!Bytes(sl)
      BY <1>3, <2>1, <3>1 DEF Ahead
    <3>3. /\ enc_1[1] \in Seq(EncByte) /\ Tail(enc_1) \in Objects
          /\ IsFollowed(EncByte, Enc!FlattenSeq(enc_1) \o Enc!Bytes(sl), enc_1[1],
                        Enc!FlattenSeq(Tail(enc_1)) \o Enc!Bytes(sl))
      BY <1>1, <1>2, <2>2, ChunkOff
    <3>4. EncoderShape'
      BY <1>1, <2>1, <3>1, <3>3 DEF EncoderShape
    <3>. QED
      BY <2>1, <3>2, <3>3, <3>4, Zenon
  <2>3. CASE ~(Len(enc_1) > 1)
    <3>1. cur_idx' = 1 /\ UNCHANGED enc_1
      BY <1>3, <2>3 DEF Enc!advance
    <3>2. Ahead' = Enc!FlattenSeq(cur_enc) \o Behind(sl)
      BY <2>1, <3>1 DEF Ahead
    <3>3. Ahead' = Enc!Bytes(sl)
      <4>1. CASE sl = <<>>
        <5>1. Enc!FlattenSeq(cur_enc) = <<>> /\ Behind(sl) = <<>> /\ Enc!Bytes(sl) = <<>>
          BY <1>1, <4>1, FlattenEmpty, BytesEmpty DEF Behind
        <5>2. <<>> \o <<>> = <<>>
          BY EmptySeq, ConcatEmptySeq
        <5>. QED
          BY <3>2, <5>1, <5>2, Zenon
      <4>2. CASE sl # <<>>
        <5>1. IsFollowed(EncByte, Enc!Bytes(sl), Enc!FlattenSeq(sl[1]), Enc!Bytes(Tail(sl)))
          BY <1>1, <4>2, BytesCons, ObjectsAreChunks
        <5>2. cur_enc = sl[1] /\ Behind(sl) = Enc!Bytes(Tail(sl))
          BY <1>1, <1>3, <4>2 DEF Behind
        <5>. QED
          BY <3>2, <5>1, <5>2, Zenon DEF IsFollowed
      <4>. QED
        BY <4>1, <4>2
    <3>4. /\ enc_1[1] \in Seq(EncByte)
          /\ IsFollowed(EncByte, Enc!FlattenSeq(enc_1) \o Enc!Bytes(sl), enc_1[1], Enc!Bytes(sl))
      BY <1>1, <1>2, <2>3, ChunkOff
    <3>5. EncoderShape'
      BY <1>1, <2>1, <3>1 DEF EncoderShape
    <3>. QED
      BY <2>1, <3>3, <3>4, <3>5, Zenon
  <2>. QED
    BY <2>2, <2>3
<1>4. CASE cur_idx = 1
  <2>1. /\ Enc!current_chunk = (IF cur_enc = <<>> THEN <<>> ELSE cur_enc[1])
        /\ Ahead = Enc!FlattenSeq(cur_enc) \o Behind(sl)
        /\ Enc!SliceAdvance(status) /\ UNCHANGED <<cur_idx, enc_1>>
    BY <1>4 DEF Enc!current_chunk, Enc!SliceChunk, Ahead, Enc!advance
  <2>2. Ahead' = Enc!FlattenSeq(cur_enc') \o Behind(sl')
    BY <1>4, <2>1 DEF Ahead, Behind, Enc!Bytes
  <2>3. CASE Len(cur_enc) > 1
    <3>1. status = "HasMore" /\ cur_enc' = Tail(cur_enc) /\ UNCHANGED sl
      BY <2>1, <2>3 DEF Enc!SliceAdvance
    <3>2. cur_enc # <<>>
      BY <2>3, EmptySeq
    <3>3. /\ cur_enc[1] \in Seq(EncByte) /\ Tail(cur_enc) \in Objects
          /\ IsFollowed(EncByte, Enc!FlattenSeq(cur_enc) \o Behind(sl), cur_enc[1],
                        Enc!FlattenSeq(Tail(cur_enc)) \o Behind(sl))
      BY <1>1, <1>2, <2>3, <3>2, ChunkOff
    <3>4. EncoderShape'
      <4>1. Tail(cur_enc) \in Seq(Seq(EncByte)) /\ Tail(cur_enc) # <<>>
        BY <3>3 DEF Objects
      <4>. QED
        BY <1>1, <1>4, <2>1, <3>1, <3>2, <4>1 DEF EncoderShape
    <3>5. Ahead' = Enc!FlattenSeq(Tail(cur_enc)) \o Behind(sl)
      BY <2>2, <3>1
    <3>6. Enc!current_chunk = cur_enc[1]
      BY <2>1, <3>2
    <3>. QED
      BY <2>1, <3>1, <3>3, <3>4, <3>5, <3>6, Zenon
  <2>4. CASE ~(Len(cur_enc) > 1)
    <3>. DEFINE xs == IF cur_enc = <<>> THEN <<>> ELSE Tail(sl)
                next == Enc!NextObject(xs)
    <3>1. /\ status = IF next.cur_enc = <<>> THEN "Finished" ELSE "HasMore"
          /\ sl' = next.sl
          /\ cur_enc' = next.cur_enc
      BY <2>1, <2>4, Zenon DEF Enc!SliceAdvance
    <3>2. xs \in Seq(Objects) /\ Enc!Bytes(xs) = Behind(sl)
      <4>1. CASE cur_enc = <<>>
        <5>1. xs = <<>> /\ sl = <<>>
          BY <1>1, <4>1
        <5>2. Enc!Bytes(xs) = Behind(sl)
          BY <5>1, BytesEmpty DEF Behind
        <5>. QED
          BY <5>1, <5>2, EmptySeq
      <4>2. CASE cur_enc # <<>>
        <5>1. xs = Tail(sl) /\ sl # <<>>
          BY <1>1, <4>2
        <5>2. Tail(sl) \in Seq(Objects)
          BY <1>1, <5>1, HeadTailProperties
        <5>. QED
          BY <5>1, <5>2 DEF Behind
      <4>. QED
        BY <4>1, <4>2
    <3>. HIDE DEF xs, next
    <3>3. next = Enc!NextObject(xs)
      BY DEF next
    <3>4. /\ next.sl \in Seq(Objects)
          /\ next.cur_enc \in Seq(Seq(EncByte))
          /\ (next.cur_enc = <<>>) <=> (next.sl = <<>>)
          /\ IsFollowed(EncByte, Enc!Bytes(xs), Enc!FlattenSeq(next.cur_enc), Behind(next.sl))
      BY <3>2, <3>3, NextObjectEffect
    <3>5. Ahead' = Behind(sl)
      BY <2>2, <3>1, <3>2, <3>4, Zenon DEF IsFollowed
    <3>6. EncoderShape'
      <4>1. sl' \in Seq(Objects) /\ cur_enc' \in Seq(Seq(EncByte)) /\ (cur_enc' = <<>> <=> sl' = <<>>)
        BY <3>1, <3>4, Zenon
      <4>2. cur_idx' = 1 /\ enc_1' \in Objects
        BY <1>1, <1>4, <2>1
      <4>. QED
        BY <4>1, <4>2 DEF EncoderShape
    <3>7. /\ Enc!current_chunk \in Seq(EncByte)
          /\ IsFollowed(EncByte, Ahead, Enc!current_chunk, Behind(sl))
      <4>1. CASE cur_enc = <<>>
        <5>1. Enc!current_chunk = <<>> /\ Enc!FlattenSeq(cur_enc) = <<>>
          BY <2>1, <4>1, FlattenEmpty
        <5>2. <<>> \in Seq(EncByte)
          BY EmptySeq
        <5>. QED
          BY <1>2, <2>1, <5>1, <5>2, Zenon DEF IsFollowed
      <4>2. CASE cur_enc # <<>>
        <5>1. Enc!current_chunk = cur_enc[1]
          BY <2>1, <4>2
        <5>2. /\ cur_enc[1] \in Seq(EncByte)
              /\ IsFollowed(EncByte, Enc!FlattenSeq(cur_enc) \o Behind(sl), cur_enc[1], Behind(sl))
          BY <1>1, <1>2, <2>4, <4>2, ChunkOff
        <5>. QED
          BY <2>1, <5>1, <5>2, Zenon
      <4>. QED
        BY <4>1, <4>2
    <3>8. ASSUME status = "Finished" PROVE Ahead = Enc!current_chunk
      <4>1. cur_enc' = <<>> /\ sl' = <<>>
        <5>1. next.cur_enc = <<>>
          BY <3>1, <3>8
        <5>. QED
          BY <3>1, <3>4, <5>1
      <4>2. Ahead' = <<>>
        <5>1. Enc!FlattenSeq(cur_enc') = <<>> /\ Behind(sl') = <<>>
          BY <4>1, FlattenEmpty DEF Behind
        <5>2. <<>> \o <<>> = <<>>
          BY EmptySeq, ConcatEmptySeq
        <5>. QED
          BY <2>2, <5>1, <5>2, Zenon
      <4>3. Ahead = Enc!current_chunk \o <<>>
        BY <3>5, <3>7, <4>2, Zenon DEF IsFollowed
      <4>. QED
        BY <3>7, <4>3, ConcatEmptySeq
    <3>9. status \in {"HasMore", "Finished"}
      BY <3>1
    <3>. QED
      BY <3>5, <3>6, <3>7, <3>8, <3>9, Zenon
  <2>. QED
    BY <2>3, <2>4
<1>. QED
  BY <1>1, <1>3, <1>4

\* The current chunk is what comes next.
LEMMA ChunkIsNext ==
  ASSUME EncoderShape
  PROVE  /\ Enc!current_chunk \in Seq(EncByte)
         /\ \E r : IsFollowed(EncByte, Ahead, Enc!current_chunk, r)
<1>1. /\ cur_idx \in {0, 1} /\ enc_1 \in Objects /\ sl \in Seq(Objects)
      /\ cur_enc \in Seq(Seq(EncByte)) /\ (cur_enc = <<>> <=> sl = <<>>)
      /\ cur_enc # <<>> => cur_enc \in Objects
  BY DEF EncoderShape, Objects
<1>2. Enc!Bytes(sl) \in Seq(EncByte) /\ Behind(sl) \in Seq(EncByte)
  BY <1>1, BytesType, BehindType, ObjectsAreChunks
<1>3. CASE cur_idx = 0
  <2>1. Enc!current_chunk = enc_1[1] /\ Ahead = Enc!FlattenSeq(enc_1) \o Enc!Bytes(sl)
    BY <1>3 DEF Enc!current_chunk, Ahead
  <2>2. /\ enc_1[1] \in Seq(EncByte)
        /\ \E r : IsFollowed(EncByte, Enc!FlattenSeq(enc_1) \o Enc!Bytes(sl), enc_1[1], r)
    BY <1>1, <1>2, ChunkOff
  <2>. QED
    BY <2>1, <2>2, Zenon
<1>4. CASE cur_idx = 1
  <2>1. /\ Enc!current_chunk = (IF cur_enc = <<>> THEN <<>> ELSE cur_enc[1])
        /\ Ahead = Enc!FlattenSeq(cur_enc) \o Behind(sl)
    BY <1>4 DEF Enc!current_chunk, Enc!SliceChunk, Ahead
  <2>2. CASE cur_enc = <<>>
    <3>1. Enc!current_chunk = <<>> /\ Enc!FlattenSeq(cur_enc) = <<>>
      BY <2>1, <2>2, FlattenEmpty
    <3>2. <<>> \in Seq(EncByte)
      BY EmptySeq
    <3>. QED
      BY <1>2, <2>1, <3>1, <3>2, Zenon DEF IsFollowed
  <2>3. CASE cur_enc # <<>>
    <3>1. Enc!current_chunk = cur_enc[1]
      BY <2>1, <2>3
    <3>2. /\ cur_enc[1] \in Seq(EncByte)
          /\ \E r : IsFollowed(EncByte, Enc!FlattenSeq(cur_enc) \o Behind(sl), cur_enc[1], r)
      BY <1>1, <1>2, <2>3, ChunkOff
    <3>. QED
      BY <2>1, <3>1, <3>2, Zenon
  <2>. QED
    BY <2>2, <2>3
<1>. QED
  BY <1>1, <1>3, <1>4

-----------------------------------------------------------------------------
(* The consumers.                                                          *)

\* Where a consumer stands when `l' bytes lie in front of the current chunk.
Reached(l) ==
  /\ pc \in {"fresh", "idle", "next"} =>
       consumed = l + position /\ position <= Len(Enc!current_chunk)
  /\ pc \in {"drain", "peek"} => consumed = l
  /\ pc = "peek" => Enc!current_chunk = <<>>
  /\ pc = "nth" => from = l + n

\* d is what the encoder has handed out before the current chunk.
HandedOut(d) == IsFollowed(EncByte, whole, d, Ahead) /\ Reached(Len(d))

EncoderInv ==
  /\ EncoderShape
  /\ whole \in Seq(EncByte) /\ given \in Seq(EncByte)
  /\ position \in Nat /\ n \in Nat /\ from \in Nat /\ consumed \in Nat
  /\ pc \in {"fresh", "drain", "next", "nth", "peek", "idle", "done"}
  /\ pc = "fresh" => position = 0
  /\ pc # "done" => \E d : HandedOut(d)
  /\ Enc!AnswersAreTheEncoding

\* A stretch of the current chunk is found in the whole.
LEMMA StretchIsFound ==
  ASSUME NEW d \in Seq(EncByte), NEW c \in Seq(EncByte), NEW r \in Seq(EncByte),
         NEW w, w = d \o (c \o r),
         NEW p \in Nat, NEW q \in Nat, p <= q, q <= Len(c)
  PROVE  /\ SubSeq(c, p + 1, q) \in Seq(EncByte)
         /\ Len(SubSeq(c, p + 1, q)) = q - p
         /\ Len(w) = Len(d) + Len(c) + Len(r)
         /\ SubSeq(c, p + 1, q) = SubSeq(w, Len(d) + p + 1, Len(d) + q)
<1>1. Len(d) \in Nat /\ Len(c) \in Nat /\ Len(r) \in Nat
  BY LenProperties
<1>2. /\ c \o r \in Seq(EncByte) /\ Len(c \o r) = Len(c) + Len(r)
      /\ \A i \in 1..(Len(c) + Len(r)) : (c \o r)[i] = IF i <= Len(c) THEN c[i] ELSE r[i - Len(c)]
  BY ConcatProperties
<1>. DEFINE cr == c \o r
<1>3. /\ w \in Seq(EncByte) /\ Len(w) = Len(d) + (Len(c) + Len(r))
      /\ \A i \in 1..(Len(d) + (Len(c) + Len(r))) : w[i] = IF i <= Len(d) THEN d[i] ELSE cr[i - Len(d)]
  <2>1. cr \in Seq(EncByte) /\ Len(cr) = Len(c) + Len(r) /\ w = d \o cr
    BY <1>2
  <2>. HIDE DEF cr
  <2>. QED
    BY <2>1, ConcatProperties
<1>4. \A i \in 1..Len(c) : w[Len(d) + i] = c[i]
  <2>. SUFFICES ASSUME NEW i \in 1..Len(c) PROVE w[Len(d) + i] = c[i]
    OBVIOUS
  <2>1. /\ Len(d) + i \in 1..(Len(d) + (Len(c) + Len(r))) /\ ~(Len(d) + i <= Len(d))
        /\ (Len(d) + i) - Len(d) = i /\ i \in 1..(Len(c) + Len(r)) /\ i <= Len(c)
    BY <1>1
  <2>2. w[Len(d) + i] = cr[i] /\ cr[i] = c[i]
    BY <1>2, <1>3, <2>1
  <2>. QED
    BY <2>2
<1>. HIDE DEF cr
<1>. DEFINE s == SubSeq(c, p + 1, q)
            t == SubSeq(w, Len(d) + p + 1, Len(d) + q)
<1>5. s \in Seq(EncByte) /\ Len(s) = q - p /\ \A i \in 1..(q - p) : s[i] = c[p + i]
  <2>1. /\ p + 1 \in Int /\ q \in Int /\ \A i \in (p + 1)..q : i \in 1..Len(c)
        /\ q - (p + 1) + 1 = q - p /\ (p + 1 <= q \/ q - p = 0)
    BY <1>1
  <2>2. \A i \in (p + 1)..q : c[i] \in EncByte
    BY <2>1, ElementOfSeq
  <2>3. /\ s \in Seq(EncByte) /\ Len(s) = IF p + 1 <= q THEN q - (p + 1) + 1 ELSE 0
        /\ \A i \in 1..(q - (p + 1) + 1) : s[i] = c[p + 1 + i - 1]
    BY <2>1, <2>2, SubSeqProperties
  <2>4. \A i \in 1..(q - p) : p + 1 + i - 1 = p + i
    OBVIOUS
  <2>5. Len(s) = q - p
    BY <2>1, <2>3
  <2>. HIDE DEF s
  <2>. QED
    BY <2>1, <2>3, <2>4, <2>5
<1>6. /\ t \in Seq(EncByte) /\ Len(t) = q - p
      /\ \A i \in 1..(q - p) : t[i] = w[Len(d) + (p + i)]
  <2>1. /\ Len(d) + p + 1 \in Int /\ Len(d) + q \in Int
        /\ \A i \in (Len(d) + p + 1)..(Len(d) + q) : i \in 1..Len(w)
        /\ (Len(d) + q) - (Len(d) + p + 1) + 1 = q - p
        /\ (Len(d) + p + 1 <= Len(d) + q \/ q - p = 0)
    BY <1>1, <1>3
  <2>2. \A i \in (Len(d) + p + 1)..(Len(d) + q) : w[i] \in EncByte
    BY <1>3, <2>1, ElementOfSeq
  <2>3. /\ t \in Seq(EncByte)
        /\ Len(t) = IF Len(d) + p + 1 <= Len(d) + q THEN (Len(d) + q) - (Len(d) + p + 1) + 1 ELSE 0
        /\ \A i \in 1..((Len(d) + q) - (Len(d) + p + 1) + 1) : t[i] = w[Len(d) + p + 1 + i - 1]
    BY <2>1, <2>2, SubSeqProperties
  <2>4. \A i \in 1..(q - p) : Len(d) + p + 1 + i - 1 = Len(d) + (p + i)
    BY <1>1
  <2>5. Len(t) = q - p
    BY <2>1, <2>3
  <2>. HIDE DEF t
  <2>. QED
    BY <2>1, <2>3, <2>4, <2>5
<1>7. \A i \in 1..(q - p) : p + i \in 1..Len(c)
  BY <1>1
<1>. HIDE DEF s, t
<1>8. \A i \in 1..(q - p) : s[i] = t[i]
  BY <1>4, <1>5, <1>6, <1>7
<1>9. s = t
  BY <1>5, <1>6, <1>8, SeqEqual
<1>10. Len(w) = Len(d) + Len(c) + Len(r)
  BY <1>1, <1>3
<1>. QED
  BY <1>5, <1>9, <1>10 DEF s, t

\* An advance moves on by the length of the chunk, and Finished means the whole is over.
LEMMA AdvanceMoves ==
  ASSUME EncoderShape, whole \in Seq(EncByte), NEW d, IsFollowed(EncByte, whole, d, Ahead),
         NEW status, Enc!advance(status), UNCHANGED whole
  PROVE  /\ EncoderShape'
         /\ status \in {"HasMore", "Finished"}
         /\ Len(d) \in Nat /\ Len(Enc!current_chunk) \in Nat
         /\ status = "HasMore" =>
              \E e : /\ IsFollowed(EncByte, whole', e, Ahead')
                     /\ Len(e) = Len(d) + Len(Enc!current_chunk)
         /\ status = "Finished" =>
              /\ Len(whole) = Len(d) + Len(Enc!current_chunk)
              /\ Ahead = Enc!current_chunk
<1>. DEFINE c == Enc!current_chunk
<1>1. /\ EncoderShape'
      /\ c \in Seq(EncByte)
      /\ status \in {"HasMore", "Finished"}
      /\ status = "HasMore" => IsFollowed(EncByte, Ahead, c, Ahead')
      /\ status = "Finished" => Ahead = c
  BY AdvanceEffect
<1>. HIDE DEF c
<1>2. d \in Seq(EncByte) /\ whole = d \o Ahead
  BY Zenon DEF IsFollowed
<1>3. Len(d) \in Nat /\ Len(c) \in Nat
  BY <1>1, <1>2, LenProperties
<1>4. ASSUME status = "HasMore"
      PROVE  \E e : IsFollowed(EncByte, whole', e, Ahead') /\ Len(e) = Len(d) + Len(c)
  <2>1. Ahead' \in Seq(EncByte) /\ Ahead = c \o Ahead'
    BY <1>1, <1>4, Zenon DEF IsFollowed
  <2>. DEFINE a == Ahead'
              e == d \o c
  <2>2. a \in Seq(EncByte) /\ whole = d \o (c \o a)
    BY <1>2, <2>1, Zenon
  <2>. HIDE DEF a
  <2>3. (d \o c) \o a = d \o (c \o a)
    BY <1>1, <1>2, <2>2, ConcatAssociative
  <2>4. e \in Seq(EncByte) /\ Len(e) = Len(d) + Len(c)
    BY <1>1, <1>2, ConcatProperties
  <2>. HIDE DEF e
  <2>5. IsFollowed(EncByte, whole', e, a)
    BY <2>2, <2>3, <2>4, Zenon DEF IsFollowed, e
  <2>. QED
    BY <2>4, <2>5 DEF a
<1>5. ASSUME status = "Finished" PROVE Len(whole) = Len(d) + Len(c)
  BY <1>1, <1>2, <1>5, ConcatProperties
<1>. QED
  BY <1>1, <1>3, <1>4, <1>5 DEF c

\* The bytes of the current chunk lie where the consumer thinks.
LEMMA ChunkIsFound ==
  ASSUME EncoderShape, NEW d, IsFollowed(EncByte, whole, d, Ahead),
         NEW p \in Nat, NEW q \in Nat, p <= q, q <= Len(Enc!current_chunk)
  PROVE  LET s == SubSeq(Enc!current_chunk, p + 1, q)
         IN  /\ s \in Seq(EncByte) /\ Len(s) = q - p
             /\ Len(d) + q <= Len(whole)
             /\ s = SubSeq(whole, Len(d) + p + 1, Len(d) + q)
<1>1. PICK r : IsFollowed(EncByte, Ahead, Enc!current_chunk, r)
  BY ChunkIsNext
<1>. DEFINE c == Enc!current_chunk
<1>2. c \in Seq(EncByte) /\ r \in Seq(EncByte) /\ d \in Seq(EncByte) /\ whole = d \o (c \o r)
  BY <1>1, Zenon DEF IsFollowed
<1>3. q <= Len(c)
  OBVIOUS
<1>. HIDE DEF c
<1>4. /\ SubSeq(c, p + 1, q) \in Seq(EncByte)
      /\ Len(SubSeq(c, p + 1, q)) = q - p
      /\ Len(whole) = Len(d) + Len(c) + Len(r)
      /\ SubSeq(c, p + 1, q) = SubSeq(whole, Len(d) + p + 1, Len(d) + q)
  BY <1>2, <1>3, StretchIsFound
<1>5. Len(d) \in Nat /\ Len(c) \in Nat /\ Len(r) \in Nat
  BY <1>2, LenProperties
<1>6. Len(d) + q <= Len(whole)
  BY <1>3, <1>4, <1>5
<1>. QED
  BY <1>4, <1>6, Zenon DEF c

\* An answer found behind `from' bytes of the whole.
IsAnswer ==
  /\ from + Len(given) <= Len(whole)
  /\ given = SubSeq(whole, from + 1, from + Len(given))

LEMMA YieldKeeps ==
  ASSUME EncoderInv, NEW d, IsFollowed(EncByte, whole, d, Ahead),
         NEW p \in Nat, p < Len(Enc!current_chunk), from' = Len(d) + p,
         Enc!Yield(p), UNCHANGED whole
  PROVE  EncoderInv'
<1>. DEFINE c == Enc!current_chunk
<1>1. /\ given' = <<c[p + 1]>> /\ position' = p + 1 /\ consumed' = from' + 1 /\ pc' = "idle"
      /\ UNCHANGED <<cur_idx, enc_1, sl, cur_enc, n>>
  BY DEF Enc!Yield, Enc!encoder
<1>2. EncoderShape /\ EncoderShape' /\ Ahead' = Ahead /\ c' = c
  BY <1>1 DEF EncoderInv, EncoderShape, Ahead, Behind, Enc!Bytes, Enc!current_chunk, Enc!SliceChunk
<1>3. c \in Seq(EncByte) /\ d \in Seq(EncByte)
  BY <1>2, ChunkIsNext, Zenon DEF IsFollowed
<1>4. Len(c) \in Nat /\ Len(d) \in Nat
  BY <1>3, LenProperties
<1>5. /\ p + 1 \in Nat /\ p <= p + 1 /\ p + 1 <= Len(c) /\ p + 1 \in 1..Len(c)
      /\ (p + 1) - p = 1
  BY <1>4
<1>. DEFINE s == SubSeq(c, p + 1, p + 1)
<1>6. /\ s \in Seq(EncByte) /\ Len(s) = 1
      /\ Len(d) + (p + 1) <= Len(whole)
      /\ s = SubSeq(whole, Len(d) + p + 1, Len(d) + (p + 1))
  BY <1>2, <1>5, ChunkIsFound
<1>7. s = <<c[p + 1]>>
  <2>1. p + 1 \in 1..Len(c) /\ p + 1 \in (p + 1)..Len(c)
    BY <1>4, <1>5
  <2>. HIDE DEF c
  <2>2. Head(s) = c[p + 1]
    BY <1>3, <2>1, HeadTailOfSubSeq
  <2>3. s \in Seq(EncByte) /\ Len(s) = 1
    BY <1>6
  <2>. HIDE DEF s
  <2>4. s = <<Head(s)>>
    BY <2>3
  <2>. QED
    BY <2>2, <2>4
<1>. HIDE DEF s, c
<1>8. given' = s /\ given' \in Seq(EncByte) /\ Len(given') = 1 /\ given' # <<>>
  BY <1>1, <1>6, <1>7, EmptySeq
<1>9. IsAnswer'
  <2>1. /\ from' + 1 = Len(d) + p + 1 /\ from' + Len(given') = Len(d) + (p + 1)
    BY <1>4, <1>8
  <2>. QED
    BY <1>6, <1>8, <2>1 DEF IsAnswer
<1>10. HandedOut(d)'
  <2>1. IsFollowed(EncByte, whole', d, Ahead')
    BY <1>2
  <2>2. consumed' = Len(d) + position' /\ position' <= Len(c')
    BY <1>1, <1>2, <1>4, <1>5
  <2>. QED
    BY <1>1, <2>1, <2>2 DEF HandedOut, Reached, c
<1>11. /\ position' \in Nat /\ n' \in Nat /\ from' \in Nat /\ consumed' \in Nat
       /\ whole' \in Seq(EncByte)
  BY <1>1, <1>4 DEF EncoderInv
<1>12. Enc!AnswersAreTheEncoding'
  BY <1>1, <1>8, <1>9 DEF Enc!AnswersAreTheEncoding, IsAnswer
<1>. QED
  BY <1>1, <1>2, <1>8, <1>10, <1>11, <1>12 DEF EncoderInv

\* So it is after a step.
LEMMA ChunkIsNextThen ==
  EncoderShape' => /\ Enc!current_chunk' \in Seq(EncByte)
                   /\ \E r : IsFollowed(EncByte, Ahead', Enc!current_chunk', r)
<1>1. EncoderShape => (/\ Enc!current_chunk \in Seq(EncByte)
                       /\ \E r : IsFollowed(EncByte, Ahead, Enc!current_chunk, r))
  BY ChunkIsNext
<1>2. (EncoderShape => (/\ Enc!current_chunk \in Seq(EncByte)
                        /\ \E r : IsFollowed(EncByte, Ahead, Enc!current_chunk, r)))'
  BY <1>1, PTL
<1>. QED
  BY <1>2

LEMMA ShowKeeps ==
  ASSUME EncoderInv, EncoderShape', UNCHANGED whole,
         NEW e, IsFollowed(EncByte, whole', e, Ahead'),
         NEW p \in Nat, p < Len(Enc!current_chunk'), from' = Len(e) + p, consumed' = from',
         given' = SubSeq(Enc!current_chunk', p + 1, Len(Enc!current_chunk')),
         position' = p, pc' = "idle", UNCHANGED n
  PROVE  EncoderInv'
<1>. DEFINE c == Enc!current_chunk'
            a == Ahead'
<1>1. PICK r : IsFollowed(EncByte, a, c, r)
  BY ChunkIsNextThen
<1>2. c \in Seq(EncByte) /\ r \in Seq(EncByte) /\ e \in Seq(EncByte) /\ whole = e \o (c \o r)
  BY <1>1, Zenon DEF IsFollowed
<1>3. Len(e) \in Nat /\ Len(c) \in Nat /\ Len(r) \in Nat
  BY <1>2, LenProperties
<1>. DEFINE s == SubSeq(c, p + 1, Len(c))
<1>. HIDE DEF c, a
<1>4. p < Len(c) /\ p <= Len(c) /\ Len(c) <= Len(c)
  BY <1>3 DEF c
<1>5. /\ s \in Seq(EncByte) /\ Len(s) = Len(c) - p
      /\ Len(whole) = Len(e) + Len(c) + Len(r)
      /\ s = SubSeq(whole, Len(e) + p + 1, Len(e) + Len(c))
  <2>. DEFINE q == Len(c)
  <2>1. q \in Nat /\ p <= q /\ q <= Len(c)
    BY <1>3, <1>4
  <2>. HIDE DEF q
  <2>2. /\ SubSeq(c, p + 1, q) \in Seq(EncByte) /\ Len(SubSeq(c, p + 1, q)) = q - p
        /\ Len(whole) = Len(e) + Len(c) + Len(r)
        /\ SubSeq(c, p + 1, q) = SubSeq(whole, Len(e) + p + 1, Len(e) + q)
    BY ONLY p \in Nat, <1>2, <2>1, StretchIsFound
  <2>. QED
    BY <2>2, Zenon DEF q
<1>6. given' = s
  BY DEF c
<1>. HIDE DEF s
<1>7. given' # <<>>
  <2>1. Len(s) # 0
    BY <1>3, <1>4, <1>5
  <2>. QED
    BY <1>6, <2>1, EmptySeq
<1>8. IsAnswer'
  <2>1. /\ from' + 1 = Len(e) + p + 1 /\ from' + Len(s) = Len(e) + Len(c)
        /\ Len(e) + Len(c) <= Len(whole)
    BY <1>3, <1>4, <1>5
  <2>. QED
    BY <1>5, <1>6, <2>1 DEF IsAnswer
<1>9. HandedOut(e)'
  <2>1. consumed' = Len(e) + position' /\ position' <= Len(Enc!current_chunk')
    BY <1>4 DEF c
  <2>. QED
    BY <2>1 DEF HandedOut, Reached
<1>10. /\ position' \in Nat /\ n' \in Nat /\ from' \in Nat /\ consumed' \in Nat
       /\ whole' \in Seq(EncByte) /\ given' \in Seq(EncByte)
  <2>1. Len(e) + p \in Nat
    BY <1>3
  <2>. QED
    BY <1>5, <1>6, <2>1 DEF EncoderInv
<1>11. Enc!AnswersAreTheEncoding'
  BY <1>7, <1>8 DEF Enc!AnswersAreTheEncoding, IsAnswer
<1>. QED
  BY <1>9, <1>10, <1>11 DEF EncoderInv

\* A consumer that has asked for at least all that was left is done.
LEMMA ExhaustedKeeps ==
  ASSUME EncoderInv, EncoderShape', UNCHANGED whole,
         from' \in Nat, from' >= Len(whole), Enc!Exhausted
  PROVE  EncoderInv'
<1>1. given' = <<>> /\ pc' = "done" /\ UNCHANGED <<position, n, consumed>>
  BY DEF Enc!Exhausted
<1>2. given' \in Seq(EncByte) /\ Len(given') = 0
  BY <1>1, EmptySeq
<1>3. Len(whole) \in Nat
  BY LenProperties DEF EncoderInv
<1>4. Enc!AnswersAreTheEncoding'
  BY <1>1, <1>2, <1>3 DEF Enc!AnswersAreTheEncoding
<1>. QED
  BY <1>1, <1>2, <1>4 DEF EncoderInv

\* Between two rounds of a call nothing is claimed of an answer.
LEMMA RoundKeeps ==
  ASSUME EncoderInv, EncoderShape', UNCHANGED <<whole, given>>, pc' \in {"next", "nth", "peek"},
         position' \in Nat, n' \in Nat, from' \in Nat, consumed' \in Nat,
         NEW e, IsFollowed(EncByte, whole', e, Ahead'), Reached(Len(e))'
  PROVE  EncoderInv'
<1>1. HandedOut(e)'
  BY DEF HandedOut
<1>2. Enc!AnswersAreTheEncoding'
  BY DEF Enc!AnswersAreTheEncoding
<1>. QED
  BY <1>1, <1>2 DEF EncoderInv

-----------------------------------------------------------------------------
(* Each call keeps the invariant. *)

LEMMA DrainKeeps == ASSUME EncoderInv, Enc!Drain PROVE EncoderInv'
<1>. DEFINE c == Enc!current_chunk
<1>1. /\ pc \in {"fresh", "drain"} /\ given' = c /\ from' = consumed
      /\ consumed' = consumed + Len(c)
      /\ UNCHANGED <<whole, position, n>>
  BY DEF Enc!Drain
<1>2. PICK status \in Enc!Statuses :
        Enc!advance(status) /\ pc' = IF status = "Finished" THEN "done" ELSE "drain"
  BY DEF Enc!Drain
<1>3. PICK d : HandedOut(d)
  BY <1>1 DEF EncoderInv
<1>4. IsFollowed(EncByte, whole, d, Ahead) /\ consumed = Len(d)
  BY <1>1, <1>3 DEF HandedOut, Reached, EncoderInv
<1>5. /\ EncoderShape' /\ status \in {"HasMore", "Finished"}
      /\ Len(d) \in Nat /\ Len(c) \in Nat
      /\ status = "HasMore" => \E e : IsFollowed(EncByte, whole', e, Ahead') /\ Len(e) = Len(d) + Len(c)
      /\ status = "Finished" => Len(whole) = Len(d) + Len(c)
  BY <1>1, <1>2, <1>4, AdvanceMoves DEF EncoderInv
<1>6. c \in Seq(EncByte)
  BY ChunkIsNext DEF EncoderInv
<1>7. IsAnswer'
  <2>1. 0 \in Nat /\ 0 <= Len(c) /\ Len(c) <= Len(c) /\ 0 + 1 = 1 /\ Len(d) + 0 + 1 = Len(d) + 1
    BY <1>5
  <2>2. /\ Len(d) + Len(c) <= Len(whole)
        /\ SubSeq(c, 0 + 1, Len(c)) = SubSeq(whole, Len(d) + 0 + 1, Len(d) + Len(c))
    BY <1>4, <1>5, <2>1, ChunkIsFound DEF EncoderInv
  <2>3. SubSeq(c, 1, Len(c)) = c
    BY <1>6, SubSeqFull
  <2>. HIDE DEF c
  <2>. QED
    BY <1>1, <1>4, <2>1, <2>2, <2>3 DEF IsAnswer
<1>. HIDE DEF c
<1>8. status = "HasMore" => \E e : HandedOut(e)'
  BY <1>1, <1>2, <1>4, <1>5 DEF HandedOut, Reached
<1>9. Enc!AnswersAreTheEncoding'
  <2>1. status = "Finished" => from' + Len(given') = Len(whole')
    BY <1>1, <1>4, <1>5
  <2>2. Len(whole') \in Nat
    BY <1>1, LenProperties DEF EncoderInv
  <2>. QED
    BY <1>2, <1>5, <1>7, <2>1, <2>2 DEF Enc!AnswersAreTheEncoding, IsAnswer
<1>. QED
  BY <1>1, <1>2, <1>4, <1>5, <1>6, <1>8, <1>9 DEF EncoderInv

LEMMA NextByteKeeps == ASSUME EncoderInv, Enc!NextByte PROVE EncoderInv'
<1>. DEFINE c == Enc!current_chunk
<1>1. pc \in {"fresh", "idle", "next"} /\ from' = consumed /\ UNCHANGED whole
  BY DEF Enc!NextByte, Enc!Call
<1>2. PICK d : HandedOut(d)
  BY <1>1 DEF EncoderInv
<1>3. /\ IsFollowed(EncByte, whole, d, Ahead) /\ consumed = Len(d) + position
      /\ position <= Len(c) /\ position \in Nat /\ consumed \in Nat
  BY <1>1, <1>2 DEF HandedOut, Reached, EncoderInv
<1>4. CASE position < Len(c)
  <2>1. Enc!Yield(position)
    BY <1>4 DEF Enc!NextByte
  <2>. QED
    BY <1>1, <1>3, <1>4, <2>1, YieldKeeps
<1>5. CASE ~(position < Len(c))
  <2>1. PICK status \in Enc!Statuses :
          /\ Enc!advance(status)
          /\ IF status = "Finished"
               THEN Enc!Exhausted
               ELSE pc' = "next" /\ position' = 0 /\ UNCHANGED <<n, given, consumed>>
    BY <1>5 DEF Enc!NextByte
  <2>2. /\ EncoderShape' /\ status \in {"HasMore", "Finished"}
        /\ Len(d) \in Nat /\ Len(c) \in Nat
        /\ status = "HasMore" => \E e : IsFollowed(EncByte, whole', e, Ahead') /\ Len(e) = Len(d) + Len(c)
        /\ status = "Finished" => Len(whole) = Len(d) + Len(c)
    BY <1>1, <1>3, <2>1, AdvanceMoves DEF EncoderInv
  <2>. HIDE DEF c
  <2>3. consumed = Len(d) + Len(c)
    BY <1>3, <1>5, <2>2
  <2>4. CASE status = "Finished"
    BY <1>1, <1>3, <2>1, <2>2, <2>3, <2>4, ExhaustedKeeps
  <2>5. CASE status = "HasMore"
    <3>1. PICK e : IsFollowed(EncByte, whole', e, Ahead') /\ Len(e) = Len(d) + Len(c)
      BY <2>2, <2>5
    <3>2. Len(Enc!current_chunk') \in Nat
      BY <2>2, ChunkIsNextThen, LenProperties
    <3>3. Reached(Len(e))'
      BY <2>1, <2>2, <2>3, <2>5, <3>1, <3>2 DEF Reached
    <3>4. /\ pc' \in {"next", "nth", "peek"} /\ UNCHANGED <<whole, given>>
          /\ position' \in Nat /\ n' \in Nat /\ from' \in Nat /\ consumed' \in Nat
      BY <1>1, <1>3, <2>1, <2>5 DEF EncoderInv
    <3>. QED
      BY <2>2, <3>1, <3>3, <3>4, RoundKeeps
  <2>. QED
    BY <2>2, <2>4, <2>5
<1>. QED
  BY <1>4, <1>5

LEMMA NthCallKeeps ==
  ASSUME EncoderInv, NEW k \in Nat, Enc!NthCall(k)
  PROVE  EncoderInv'
<1>. DEFINE c == Enc!current_chunk
<1>1. pc \in {"fresh", "idle", "next"} /\ from' = consumed + k /\ UNCHANGED whole
  BY DEF Enc!NthCall, Enc!Call
<1>2. PICK d : HandedOut(d)
  BY <1>1 DEF EncoderInv
<1>3. /\ IsFollowed(EncByte, whole, d, Ahead) /\ consumed = Len(d) + position
      /\ position <= Len(c) /\ position \in Nat /\ consumed \in Nat
  BY <1>1, <1>2 DEF HandedOut, Reached, EncoderInv
<1>4. d \in Seq(EncByte) /\ c \in Seq(EncByte)
  BY <1>3, ChunkIsNext, Zenon DEF IsFollowed, EncoderInv
<1>5. Len(d) \in Nat /\ Len(c) \in Nat
  BY <1>4, LenProperties
<1>6. from' = Len(d) + (position + k) /\ position + k \in Nat /\ from' \in Nat
  BY <1>1, <1>3, <1>5
<1>7. CASE position + k < Len(c)
  <2>1. Enc!Yield(position + k)
    BY <1>7 DEF Enc!NthCall
  <2>. DEFINE p == position + k
  <2>2. p \in Nat /\ from' = Len(d) + p /\ p < Len(c) /\ Enc!Yield(p)
    BY <1>6, <1>7, <2>1
  <2>. HIDE DEF p
  <2>. QED
    BY <1>1, <1>3, <2>2, YieldKeeps
<1>8. CASE ~(position + k < Len(c))
  <2>1. PICK status \in Enc!Statuses :
          /\ Enc!advance(status)
          /\ IF status = "Finished"
               THEN Enc!Exhausted
               ELSE /\ n' = k - (Len(c) - position)
                    /\ pc' = "nth"
                    /\ UNCHANGED <<position, given, consumed>>
    BY <1>8 DEF Enc!NthCall
  <2>2. /\ EncoderShape' /\ status \in {"HasMore", "Finished"}
        /\ status = "HasMore" => \E e : IsFollowed(EncByte, whole', e, Ahead') /\ Len(e) = Len(d) + Len(c)
        /\ status = "Finished" => Len(whole) = Len(d) + Len(c)
    BY <1>1, <1>3, <2>1, AdvanceMoves DEF EncoderInv
  <2>. HIDE DEF c
  <2>3. from' >= Len(d) + Len(c)
    BY <1>5, <1>6, <1>8
  <2>4. CASE status = "Finished"
    BY <1>1, <1>6, <2>1, <2>2, <2>3, <2>4, ExhaustedKeeps
  <2>5. CASE status = "HasMore"
    <3>1. PICK e : IsFollowed(EncByte, whole', e, Ahead') /\ Len(e) = Len(d) + Len(c)
      BY <2>2, <2>5
    <3>2. /\ n' = k - (Len(c) - position) /\ pc' = "nth"
          /\ UNCHANGED <<position, given, consumed>>
      BY <2>1, <2>5
    <3>3. n' \in Nat /\ from' = Len(e) + n'
      BY <1>3, <1>5, <1>6, <1>8, <3>1, <3>2
    <3>4. Reached(Len(e))'
      BY <3>2, <3>3 DEF Reached
    <3>. QED
      BY <1>1, <1>3, <1>6, <2>2, <3>1, <3>2, <3>3, <3>4, RoundKeeps
  <2>. QED
    BY <2>2, <2>4, <2>5
<1>. QED
  BY <1>7, <1>8

LEMMA NthLoopKeeps == ASSUME EncoderInv, Enc!NthLoop PROVE EncoderInv'
<1>. DEFINE c == Enc!current_chunk
<1>1. pc = "nth" /\ UNCHANGED <<from, whole>>
  BY DEF Enc!NthLoop
<1>2. PICK d : HandedOut(d)
  BY <1>1 DEF EncoderInv
<1>3. /\ IsFollowed(EncByte, whole, d, Ahead) /\ from = Len(d) + n
      /\ n \in Nat /\ from \in Nat /\ position \in Nat /\ consumed \in Nat
  BY <1>1, <1>2 DEF HandedOut, Reached, EncoderInv
<1>4. d \in Seq(EncByte) /\ c \in Seq(EncByte)
  BY <1>3, ChunkIsNext, Zenon DEF IsFollowed, EncoderInv
<1>5. Len(d) \in Nat /\ Len(c) \in Nat
  BY <1>4, LenProperties
<1>6. CASE n < Len(c)
  <2>1. Enc!Yield(n)
    BY <1>6 DEF Enc!NthLoop
  <2>. QED
    BY <1>1, <1>3, <1>6, <2>1, YieldKeeps
<1>7. CASE ~(n < Len(c))
  <2>1. PICK status \in Enc!Statuses :
          /\ Enc!advance(status)
          /\ IF status = "Finished"
               THEN Enc!Exhausted
               ELSE /\ n' = n - Len(c)
                    /\ UNCHANGED <<pc, position, given, consumed>>
    BY <1>7 DEF Enc!NthLoop
  <2>2. /\ EncoderShape' /\ status \in {"HasMore", "Finished"}
        /\ status = "HasMore" => \E e : IsFollowed(EncByte, whole', e, Ahead') /\ Len(e) = Len(d) + Len(c)
        /\ status = "Finished" => Len(whole) = Len(d) + Len(c)
    BY <1>1, <1>3, <2>1, AdvanceMoves DEF EncoderInv
  <2>. HIDE DEF c
  <2>3. from' >= Len(d) + Len(c) /\ from' \in Nat
    BY <1>1, <1>3, <1>5, <1>7
  <2>4. CASE status = "Finished"
    BY <1>1, <2>1, <2>2, <2>3, <2>4, ExhaustedKeeps
  <2>5. CASE status = "HasMore"
    <3>1. PICK e : IsFollowed(EncByte, whole', e, Ahead') /\ Len(e) = Len(d) + Len(c)
      BY <2>2, <2>5
    <3>2. n' = n - Len(c) /\ UNCHANGED <<pc, position, given, consumed>>
      BY <2>1, <2>5
    <3>3. n' \in Nat /\ from' = Len(e) + n'
      BY <1>1, <1>3, <1>5, <1>7, <3>1, <3>2
    <3>4. Reached(Len(e))'
      BY <1>1, <3>2, <3>3 DEF Reached
    <3>. QED
      BY <1>1, <1>3, <2>2, <2>3, <3>1, <3>2, <3>3, <3>4, RoundKeeps
  <2>. QED
    BY <2>2, <2>4, <2>5
<1>. QED
  BY <1>6, <1>7

LEMMA PeekKeeps == ASSUME EncoderInv, Enc!Peek PROVE EncoderInv'
<1>. DEFINE c == Enc!current_chunk
<1>1. /\ pc \in {"fresh", "idle", "next", "peek"} /\ pc # "next"
      /\ from' = consumed /\ UNCHANGED whole
  BY DEF Enc!Peek, Enc!Call
<1>2. PICK d : HandedOut(d)
  BY <1>1 DEF EncoderInv
<1>3. /\ IsFollowed(EncByte, whole, d, Ahead)
      /\ pc # "peek" => consumed = Len(d) + position /\ position <= Len(c)
      /\ pc = "peek" => consumed = Len(d) /\ c = <<>>
      /\ position \in Nat /\ consumed \in Nat /\ n \in Nat
  BY <1>1, <1>2 DEF HandedOut, Reached, EncoderInv
<1>4. d \in Seq(EncByte) /\ c \in Seq(EncByte)
  BY <1>3, ChunkIsNext, Zenon DEF IsFollowed, EncoderInv
<1>5. Len(d) \in Nat /\ Len(c) \in Nat
  BY <1>4, LenProperties
<1>6. CASE pc # "peek" /\ position < Len(c)
  <2>1. Enc!Show(c, position) /\ UNCHANGED Enc!encoder
    BY <1>6 DEF Enc!Peek
  <2>2. /\ given' = SubSeq(c, position + 1, Len(c)) /\ position' = position /\ pc' = "idle"
        /\ UNCHANGED <<n, consumed>>
    BY <2>1 DEF Enc!Show
  <2>3. EncoderShape' /\ Ahead' = Ahead /\ c' = c
    BY <2>1 DEF EncoderInv, EncoderShape, Ahead, Behind, Enc!Bytes, Enc!current_chunk,
       Enc!SliceChunk, Enc!encoder
  <2>4. IsFollowed(EncByte, whole', d, Ahead')
    BY <1>1, <1>3, <2>3
  <2>5. /\ position < Len(Enc!current_chunk') /\ from' = Len(d) + position /\ consumed' = from'
        /\ given' = SubSeq(Enc!current_chunk', position + 1, Len(Enc!current_chunk'))
    BY <1>1, <1>3, <1>6, <2>2, <2>3
  <2>. QED
    BY <1>1, <1>3, <2>2, <2>3, <2>4, <2>5, ShowKeeps
<1>7. CASE ~(pc # "peek" /\ position < Len(c))
  <2>1. PICK status \in Enc!Statuses :
          /\ Enc!advance(status)
          /\ IF status = "Finished"
               THEN Enc!Exhausted
               ELSE IF Enc!current_chunk' = <<>>
                      THEN pc' = "peek" /\ UNCHANGED <<position, n, given, consumed>>
                      ELSE Enc!Show(Enc!current_chunk', 0)
    BY <1>7 DEF Enc!Peek
  <2>2. /\ EncoderShape' /\ status \in {"HasMore", "Finished"}
        /\ status = "HasMore" => \E e : IsFollowed(EncByte, whole', e, Ahead') /\ Len(e) = Len(d) + Len(c)
        /\ status = "Finished" => Len(whole) = Len(d) + Len(c)
    BY <1>1, <1>3, <2>1, AdvanceMoves DEF EncoderInv
  <2>3. consumed = Len(d) + Len(c)
    <3>1. CASE pc = "peek"
      BY <1>3, <1>5, <3>1, EmptySeq
    <3>2. CASE pc # "peek"
      BY <1>3, <1>5, <1>7, <3>2
    <3>. QED
      BY <3>1, <3>2
  <2>. HIDE DEF c
  <2>4. CASE status = "Finished"
    BY <1>1, <1>3, <2>1, <2>2, <2>3, <2>4, ExhaustedKeeps
  <2>5. CASE status = "HasMore"
    <3>1. PICK e : IsFollowed(EncByte, whole', e, Ahead') /\ Len(e) = Len(d) + Len(c)
      BY <2>2, <2>5
    <3>2. CASE Enc!current_chunk' = <<>>
      <4>1. pc' = "peek" /\ UNCHANGED <<position, n, given, consumed>>
        BY <2>1, <2>5, <3>2
      <4>2. Reached(Len(e))'
        BY <2>3, <3>1, <3>2, <4>1 DEF Reached
      <4>. QED
        BY <1>1, <1>3, <2>2, <3>1, <4>1, <4>2, RoundKeeps
    <3>3. CASE Enc!current_chunk' # <<>>
      <4>1. /\ given' = SubSeq(Enc!current_chunk', 0 + 1, Len(Enc!current_chunk'))
            /\ position' = 0 /\ pc' = "idle" /\ UNCHANGED <<n, consumed>>
        BY <2>1, <2>5, <3>3 DEF Enc!Show
      <4>2. 0 < Len(Enc!current_chunk')
        BY <2>2, <3>3, ChunkIsNextThen, EmptySeq
      <4>3. from' = Len(e) + 0 /\ consumed' = from' /\ 0 \in Nat
        BY <1>1, <1>3, <2>3, <3>1, <4>1
      <4>. QED
        BY <1>1, <2>2, <3>1, <4>1, <4>2, <4>3, ShowKeeps
    <3>. QED
      BY <3>2, <3>3
  <2>. QED
    BY <2>2, <2>4, <2>5
<1>. QED
  BY <1>6, <1>7

LEMMA EncoderStepKeeps ==
  ASSUME Enc!EncoderAssumption, EncoderInv, [Enc!Next]_(Enc!vars)
  PROVE  EncoderInv'
<1>1. CASE Enc!Drain
  BY <1>1, DrainKeeps
<1>2. CASE Enc!NextByte
  BY <1>2, NextByteKeeps
<1>3. ASSUME NEW k \in 0..MaxSkip, Enc!NthCall(k) PROVE EncoderInv'
  <2>1. k \in Nat
    BY DEF Enc!EncoderAssumption
  <2>. QED
    BY <1>3, <2>1, NthCallKeeps
<1>4. CASE Enc!NthLoop
  BY <1>4, NthLoopKeeps
<1>5. CASE Enc!Peek
  BY <1>5, PeekKeeps
<1>6. CASE UNCHANGED Enc!vars
  <2>1. /\ UNCHANGED <<cur_idx, enc_1, sl, cur_enc, whole, pc, position, n>>
        /\ UNCHANGED <<from, given, consumed>>
    BY <1>6 DEF Enc!vars, Enc!encoder
  <2>2. EncoderShape' /\ Ahead' = Ahead /\ Enc!current_chunk' = Enc!current_chunk
    BY <2>1 DEF EncoderInv, EncoderShape, Ahead, Behind, Enc!Bytes, Enc!current_chunk,
       Enc!SliceChunk
  <2>3. pc' # "done" => \E d : HandedOut(d)'
    BY <2>1, <2>2 DEF EncoderInv, HandedOut, Reached
  <2>4. Enc!AnswersAreTheEncoding'
    BY <2>1 DEF EncoderInv, Enc!AnswersAreTheEncoding
  <2>. QED
    BY <2>1, <2>2, <2>3, <2>4 DEF EncoderInv
<1>. QED
  BY <1>1, <1>2, <1>3, <1>4, <1>5, <1>6 DEF Enc!Next, Enc!Returned

LEMMA ObjectIsObject ==
  ASSUME NEW j \in Nat, NEW shape \in Seq(Nat), shape # <<>>
  PROVE  Enc!Object(j, shape) \in Objects
<1>. DEFINE o == Enc!Object(j, shape)
<1>1. /\ Len(shape) \in Nat \ {0} /\ DOMAIN shape = 1..Len(shape)
      /\ \A c \in 1..Len(shape) : shape[c] \in Nat
  BY LenProperties, ElementOfSeq, EmptySeq
<1>2. o = [c \in 1..Len(shape) |-> [i \in 1..shape[c] |-> <<j, c, i>>]]
  BY <1>1, Zenon DEF Enc!Object
<1>3. ASSUME NEW c \in 1..Len(shape)
      PROVE  [i \in 1..shape[c] |-> <<j, c, i>>] \in Seq(EncByte)
  <2>. DEFINE k == shape[c]
              h == [i \in 1..k |-> <<j, c, i>>]
  <2>1. k \in Nat /\ c \in Nat
    BY <1>1
  <2>. HIDE DEF k
  <2>2. \A i \in 1..k : <<j, c, i>> \in EncByte
    BY <2>1 DEF EncByte
  <2>3. h \in [1..k -> EncByte]
    BY <2>2
  <2>. HIDE DEF h
  <2>4. h \in Seq(EncByte)
    BY <2>1, <2>3, FunctionIsSeq
  <2>. QED
    BY <2>4 DEF h, k
<1>4. o \in [1..Len(shape) -> Seq(EncByte)]
  BY <1>2, <1>3
<1>. HIDE DEF o
<1>5. o \in Seq(Seq(EncByte)) /\ Len(o) = Len(shape)
  BY <1>1, <1>4, FunctionIsSeq
<1>6. o # <<>>
  <2>1. Len(o) # 0
    BY <1>1, <1>5
  <2>. QED
    BY <2>1, EmptySeq
<1>. QED
  BY <1>5, <1>6 DEF Objects, o

LEMMA EncoderInitEstablishes ==
  ASSUME Enc!EncoderAssumption, Enc!Init
  PROVE  EncoderInv
<1>1. \A shape \in Shapes : shape \in Seq(Nat) /\ shape # <<>>
  BY DEF Enc!EncoderAssumption
<1>2. cur_idx = 0 /\ cur_enc = (IF sl = <<>> THEN <<>> ELSE sl[1])
      /\ whole = Enc!Bytes(<<enc_1>> \o sl)
  BY DEF Enc!Init, Enc!EncoderInit
<1>3. enc_1 \in Objects
  <2>1. PICK shape \in Shapes : enc_1 = Enc!Object(0, shape)
    BY DEF Enc!Init, Enc!EncoderInit
  <2>. QED
    BY <1>1, <2>1, ObjectIsObject
<1>4. sl \in Seq(Objects)
  <2>1. PICK k \in 0..MaxItems : \E shapes \in [1..k -> Shapes] :
               sl = [j \in 1..k |-> Enc!Object(j, shapes[j])]
    BY DEF Enc!Init, Enc!EncoderInit
  <2>2. PICK shapes \in [1..k -> Shapes] : sl = [j \in 1..k |-> Enc!Object(j, shapes[j])]
    BY <2>1
  <2>3. k \in Nat /\ \A j \in 1..k : j \in Nat /\ shapes[j] \in Shapes
    BY DEF Enc!EncoderAssumption
  <2>4. \A j \in 1..k : Enc!Object(j, shapes[j]) \in Objects
    BY <1>1, <2>3, ObjectIsObject
  <2>5. sl \in [1..k -> Objects]
    BY <2>2, <2>4
  <2>. QED
    BY <2>3, <2>5, FunctionIsSeq
<1>5. EncoderShape
  <2>1. /\ sl # <<>> => sl[1] \in Objects
        /\ <<>> \in Seq(Seq(EncByte)) /\ <<>> \notin Objects
    BY <1>4, EmptySeq, ElementOfSeq DEF Objects
  <2>2. cur_enc \in Seq(Seq(EncByte)) /\ (cur_enc = <<>> <=> sl = <<>>)
    BY <1>2, <2>1 DEF Objects
  <2>. QED
    BY <1>2, <1>3, <1>4, <2>2 DEF EncoderShape
<1>6. whole = Ahead
  <2>. DEFINE xs == <<enc_1>> \o sl
  <2>1. xs \in Seq(Objects) /\ xs # <<>> /\ xs[1] = enc_1 /\ Tail(xs) = sl
    BY <1>3, <1>4
  <2>. HIDE DEF xs
  <2>2. IsFollowed(EncByte, Enc!Bytes(xs), Enc!FlattenSeq(xs[1]), Enc!Bytes(Tail(xs)))
    BY <2>1, BytesCons, ObjectsAreChunks
  <2>3. whole = Enc!Bytes(xs)
    BY <1>2 DEF xs
  <2>4. Ahead = Enc!FlattenSeq(enc_1) \o Enc!Bytes(sl)
    BY <1>2 DEF Ahead
  <2>. QED
    BY <2>1, <2>2, <2>3, <2>4, Zenon DEF IsFollowed
<1>7. whole \in Seq(EncByte)
  BY <1>5, <1>6, AheadType
<1>8. pc = "fresh" /\ position = 0 /\ n = 0 /\ from = 0 /\ given = <<>> /\ consumed = 0
  BY DEF Enc!Init
<1>9. HandedOut(<<>>)
  <2>1. <<>> \in Seq(EncByte) /\ Len(<<>>) = 0 /\ <<>> \o whole = whole
    BY <1>7, EmptySeq, ConcatEmptySeq
  <2>2. IsFollowed(EncByte, whole, <<>>, Ahead)
    BY <1>6, <1>7, <2>1, Zenon DEF IsFollowed
  <2>3. Len(Enc!current_chunk) \in Nat
    BY <1>5, ChunkIsNext, LenProperties
  <2>. QED
    BY <1>8, <2>1, <2>2, <2>3 DEF HandedOut, Reached
<1>10. Enc!AnswersAreTheEncoding /\ given \in Seq(EncByte)
  BY <1>8, EmptySeq DEF Enc!AnswersAreTheEncoding
<1>. QED
  BY <1>5, <1>7, <1>8, <1>9, <1>10 DEF EncoderInv

-----------------------------------------------------------------------------
(* TransactionDecoder: the fields of a stream, and what has been read of them. *)

\* u is s and behind it t, place by place.
IsJoined(u, s, t) ==
  /\ Len(u) = Len(s) + Len(t)
  /\ \A i \in 1..Len(s) : u[i] = s[i]
  /\ \A i \in 1..Len(t) : u[Len(s) + i] = t[i]

LEMMA JoinedPlaces ==
  ASSUME NEW S, NEW s \in Seq(S), NEW t \in Seq(S), NEW u, u = s \o t
  PROVE  u \in Seq(S) /\ IsJoined(u, s, t)
<1>1. Len(s) \in Nat /\ Len(t) \in Nat
  BY LenProperties
<1>2. /\ s \o t \in Seq(S)
      /\ Len(s \o t) = Len(s) + Len(t)
      /\ \A i \in 1 .. Len(s) + Len(t) : (s \o t)[i] = IF i <= Len(s) THEN s[i] ELSE t[i - Len(s)]
  BY ConcatProperties, Zenon
<1>3. /\ \A i \in 1..Len(s) : i \in 1 .. Len(s) + Len(t) /\ i <= Len(s)
      /\ \A i \in 1..Len(t) : /\ Len(s) + i \in 1 .. Len(s) + Len(t) /\ ~(Len(s) + i <= Len(s))
                              /\ (Len(s) + i) - Len(s) = i
  BY <1>1
<1>4. \A i \in 1..Len(s) : u[i] = s[i]
  BY ONLY <1>2, <1>3, u = s \o t, Zenon
<1>5. \A i \in 1..Len(t) : u[Len(s) + i] = t[i]
  BY ONLY <1>2, <1>3, u = s \o t, Zenon
<1>. QED
  BY <1>2, <1>4, <1>5 DEF IsJoined

TxField(kind, value) == Tx!Field(kind, value)
PlainStream(ins, outs) ==
  <<TxField("Version", <<>>), TxField("Inputs", ins), TxField("Outputs", outs),
    TxField("LockTime", <<>>)>>
BadFlagStream ==
  <<TxField("Version", <<>>), TxField("Inputs", <<>>), TxField("SegwitFlag", <<0>>),
    TxField("LockTime", <<>>)>>
SegwitStream(ins, outs, wits) ==
  <<TxField("Version", <<>>), TxField("Inputs", <<>>), TxField("SegwitFlag", <<1>>),
    TxField("Inputs", ins), TxField("Outputs", outs)>>
    \o [j \in DOMAIN ins |-> TxField("Witnesses", wits[j])] \o <<TxField("LockTime", <<>>)>>

IsPlain ==
  \E ins \in InputLists, outs \in OutputLists : ins # <<>> /\ stream = PlainStream(ins, outs)
IsSegwit ==
  \E ins \in InputLists, outs \in OutputLists :
    \E wits \in [DOMAIN ins -> Tx!Witnesses] : stream = SegwitStream(ins, outs, wits)

\* The vectors of a segwit serialization, by their places.
segwitInputs == stream[4].value
segwitWitness(j) == stream[5 + j].value

LEMMA StreamForms ==
  ASSUME stream \in Tx!Streams
  PROVE  IsPlain \/ stream = BadFlagStream \/ IsSegwit
<1>. DEFINE v == Tx!Field("Version", <<>>)
            t == Tx!Field("LockTime", <<>>)
            marker == Tx!Field("Inputs", <<>>)
            ins == {Tx!Field("Inputs", s) : s \in InputLists}
            outs == {Tx!Field("Outputs", s) : s \in OutputLists}
            witnesses(i) == {[j \in DOMAIN i.value |-> Tx!Field("Witnesses", w[j])] :
                               w \in [DOMAIN i.value -> Tx!Witnesses]}
            plain == {<<v, i, o, t>> : i \in ins \ {marker}, o \in outs}
            built(i, o, w) ==
              <<v, marker, Tx!Field("SegwitFlag", <<1>>), i, o>> \o w \o <<t>>
            segwit(i) == {built(i, o, w) : o \in outs, w \in witnesses(i)}
<1>1. Tx!Streams = plain \cup {<<v, marker, Tx!Field("SegwitFlag", <<0>>), t>>}
                     \cup UNION {segwit(i) : i \in ins}
  BY DEF Tx!Streams
<1>2. CASE stream \in plain
  <2>1. PICK i \in ins \ {marker}, o \in outs : stream = <<v, i, o, t>>
    BY <1>2
  <2>2. PICK s \in InputLists : i = Tx!Field("Inputs", s)
    BY <2>1
  <2>3. PICK r \in OutputLists : o = Tx!Field("Outputs", r)
    BY <2>1
  <2>4. s # <<>>
    BY <2>1, <2>2
  <2>5. stream = PlainStream(s, r)
    BY <2>1, <2>2, <2>3 DEF PlainStream, TxField
  <2>. QED
    BY <2>4, <2>5 DEF IsPlain
<1>3. CASE stream = <<v, marker, Tx!Field("SegwitFlag", <<0>>), t>>
  BY <1>3 DEF BadFlagStream, TxField
<1>4. CASE stream \in UNION {segwit(i) : i \in ins}
  <2>1. PICK i \in ins : stream \in segwit(i)
    <3>. HIDE DEF segwit, ins
    <3>. QED
      BY <1>4
  <2>2. PICK o \in outs, w \in witnesses(i) : stream = built(i, o, w)
    <3>. HIDE DEF built, witnesses, outs, ins
    <3>. QED
      BY <2>1
  <2>3. PICK s \in InputLists : i = Tx!Field("Inputs", s)
    BY <2>1
  <2>4. i.value = s
    BY <2>3 DEF Tx!Field
  <2>5. PICK r \in OutputLists : o = Tx!Field("Outputs", r)
    BY <2>2
  <2>6. PICK ww \in [DOMAIN s -> Tx!Witnesses] :
          w = [j \in DOMAIN s |-> Tx!Field("Witnesses", ww[j])]
    BY ONLY <2>2, <2>4, Zenon
  <2>7. stream = SegwitStream(s, r, ww)
    BY ONLY <2>2, <2>3, <2>5, <2>6, Zenon DEF SegwitStream, TxField
  <2>. QED
    BY ONLY <2>7, <2>3, <2>5, <2>6, Zenon DEF IsSegwit
<1>. HIDE DEF plain, segwit, v, t, marker
<1>. QED
  BY <1>1, <1>2, <1>3, <1>4

LEMMA ListsAreSequences ==
  ASSUME Tx!TransactionAssumption
  PROVE  /\ \A ins \in InputLists :
              /\ Len(ins) \in Nat /\ DOMAIN ins = 1..Len(ins)
              /\ \A i \in DOMAIN ins : Tx!Bare(ins[i]) = ins[i]
              /\ ins = <<>> <=> DOMAIN ins = {}
              /\ ins = [i \in DOMAIN ins |-> ins[i]]
         /\ \A outs \in OutputLists : Len(outs) \in Nat /\ DOMAIN outs = 1..Len(outs)
<1>1. ASSUME NEW ins \in InputLists
      PROVE  /\ Len(ins) \in Nat /\ DOMAIN ins = 1..Len(ins)
             /\ \A i \in DOMAIN ins : Tx!Bare(ins[i]) = ins[i]
             /\ ins = <<>> <=> DOMAIN ins = {}
             /\ ins = [i \in DOMAIN ins |-> ins[i]]
  <2>1. ins \in Seq({ins[i] : i \in DOMAIN ins})
    BY DEF Tx!TransactionAssumption
  <2>2. Len(ins) \in Nat /\ DOMAIN ins = 1..Len(ins) /\ (ins = <<>> <=> Len(ins) = 0)
    BY <2>1, LenProperties, EmptySeq
  <2>3. \A i \in DOMAIN ins : ins[i] = [prevout |-> ins[i].prevout, script |-> ins[i].script]
    BY DEF Tx!TransactionAssumption
  <2>4. \A i \in DOMAIN ins : Tx!Bare(ins[i]) = ins[i]
    BY ONLY <2>3, Zenon DEF Tx!Bare
  <2>5. ins = <<>> <=> DOMAIN ins = {}
    BY <2>2
  <2>. QED
    BY <2>1, <2>2, <2>4, <2>5
<1>2. \A outs \in OutputLists : Len(outs) \in Nat /\ DOMAIN outs = 1..Len(outs)
  BY LenProperties DEF Tx!TransactionAssumption
<1>. QED
  BY <1>1, <1>2

PlainFields ==
  /\ Len(stream) = 4 /\ DOMAIN stream = 1..4
  /\ stream[1] = TxField("Version", <<>>)
  /\ stream[2] = TxField("Inputs", stream[2].value) /\ stream[2].value \in InputLists
  /\ stream[2].value # <<>>
  /\ stream[3] = TxField("Outputs", stream[3].value) /\ stream[3].value \in OutputLists
  /\ stream[4] = TxField("LockTime", <<>>)
  /\ stream = PlainStream(stream[2].value, stream[3].value)

LEMMA PlainHasFields == IsPlain => PlainFields
<1>. SUFFICES ASSUME IsPlain PROVE PlainFields
  OBVIOUS
<1>1. PICK ins \in InputLists, outs \in OutputLists : ins # <<>> /\ stream = PlainStream(ins, outs)
  BY DEF IsPlain
<1>2. stream[2].value = ins /\ stream[3].value = outs
  BY <1>1 DEF PlainStream, TxField, Tx!Field
<1>. QED
  BY <1>1, <1>2 DEF PlainFields, PlainStream, TxField, Tx!Field

BadFlagFields ==
  /\ Len(stream) = 4 /\ DOMAIN stream = 1..4
  /\ stream[1] = TxField("Version", <<>>) /\ stream[2] = TxField("Inputs", <<>>)
  /\ stream[3] = TxField("SegwitFlag", <<0>>) /\ stream[4] = TxField("LockTime", <<>>)

LEMMA BadFlagHasFields == stream = BadFlagStream => BadFlagFields
BY DEF BadFlagStream, BadFlagFields

SegwitFields ==
  /\ segwitInputs \in InputLists /\ Len(segwitInputs) \in Nat
  /\ Len(stream) = 6 + Len(segwitInputs) /\ DOMAIN stream = 1..Len(stream)
  /\ stream[1] = TxField("Version", <<>>) /\ stream[2] = TxField("Inputs", <<>>)
  /\ stream[3] = TxField("SegwitFlag", <<1>>)
  /\ stream[4] = TxField("Inputs", segwitInputs)
  /\ stream[5] = TxField("Outputs", stream[5].value) /\ stream[5].value \in OutputLists
  /\ \A j \in 1..Len(segwitInputs) :
       stream[5 + j] = TxField("Witnesses", segwitWitness(j)) /\ segwitWitness(j) \in Tx!Witnesses
  /\ stream[Len(stream)] = TxField("LockTime", <<>>)
  /\ stream = SegwitStream(segwitInputs, stream[5].value,
                           [j \in DOMAIN segwitInputs |-> segwitWitness(j)])

LEMMA SegwitPlaces ==
  ASSUME Tx!TransactionAssumption, NEW ins \in InputLists, NEW outs \in OutputLists,
         NEW wits \in [DOMAIN ins -> Tx!Witnesses], stream = SegwitStream(ins, outs, wits)
  PROVE  /\ SegwitFields
         /\ segwitInputs = ins /\ stream[5].value = outs
         /\ wits = [j \in DOMAIN segwitInputs |-> segwitWitness(j)]
<1>. DEFINE head == <<TxField("Version", <<>>), TxField("Inputs", <<>>), TxField("SegwitFlag", <<1>>),
                      TxField("Inputs", ins), TxField("Outputs", outs)>>
            mid == [j \in DOMAIN ins |-> TxField("Witnesses", wits[j])]
            last == <<TxField("LockTime", <<>>)>>
<1>3. stream = head \o mid \o last
  BY DEF SegwitStream
<1>4. Len(ins) \in Nat /\ DOMAIN ins = 1..Len(ins)
  BY ListsAreSequences
<1>5. /\ head \in Seq({head[i] : i \in 1..5}) /\ Len(head) = 5
      /\ mid \in Seq({mid[i] : i \in 1..Len(ins)}) /\ Len(mid) = Len(ins)
      /\ last \in Seq({last[1]}) /\ Len(last) = 1
  <2>1. mid = [j \in 1..Len(ins) |-> mid[j]]
    BY <1>4
  <2>. HIDE DEF mid
  <2>2. mid \in Seq({mid[i] : i \in 1..Len(ins)}) /\ Len(mid) = Len(ins)
    BY <1>4, <2>1
  <2>. QED
    BY <2>2
<1>. HIDE DEF head, mid, last
<1>. DEFINE S == {head[i] : i \in 1..5} \cup {mid[i] : i \in 1..Len(ins)} \cup {last[1]}
<1>6. head \in Seq(S) /\ mid \in Seq(S) /\ last \in Seq(S)
  BY <1>5
<1>. HIDE DEF S
<1>. DEFINE front == head \o mid
<1>7. front \in Seq(S) /\ IsJoined(front, head, mid)
  BY ONLY <1>6, JoinedPlaces
<1>8. /\ stream \in Seq(S) /\ Len(stream) = 6 + Len(ins)
      /\ \A i \in 1..(5 + Len(ins)) : stream[i] = front[i]
      /\ stream[6 + Len(ins)] = last[1]
  <2>1. stream = front \o last
    BY <1>3
  <2>. HIDE DEF front
  <2>2. stream \in Seq(S) /\ IsJoined(stream, front, last)
    BY ONLY <1>6, <1>7, <2>1, JoinedPlaces
  <2>3. Len(front) = 5 + Len(ins)
    BY <1>5, <1>7 DEF IsJoined
  <2>4. 1 \in 1..1 /\ (5 + Len(ins)) + 1 = 6 + Len(ins)
    BY <1>4
  <2>. QED
    BY <1>5, <2>2, <2>3, <2>4 DEF IsJoined
<1>. HIDE DEF front
<1>9. /\ \A i \in 1..5 : stream[i] = head[i]
      /\ \A i \in 1..Len(ins) : stream[5 + i] = mid[i]
  <2>1. \A i \in 1..5 : i \in 1..(5 + Len(ins))
    BY <1>4
  <2>2. \A i \in 1..Len(ins) : 5 + i \in 1..(5 + Len(ins))
    BY <1>4
  <2>. QED
    BY <1>5, <1>7, <1>8, <2>1, <2>2 DEF IsJoined
<1>10. /\ stream[1] = TxField("Version", <<>>) /\ stream[2] = TxField("Inputs", <<>>)
       /\ stream[3] = TxField("SegwitFlag", <<1>>)
       /\ stream[4] = TxField("Inputs", ins) /\ stream[5] = TxField("Outputs", outs)
  BY <1>9 DEF head
<1>11. \A j \in 1..Len(ins) : stream[5 + j] = TxField("Witnesses", wits[j]) /\ wits[j] \in Tx!Witnesses
  BY <1>4, <1>9 DEF mid
<1>12. segwitInputs = ins /\ stream[5].value = outs
       /\ \A j \in 1..Len(ins) : segwitWitness(j) = wits[j]
  <2>1. \A kind, value : TxField(kind, value).value = value
    BY DEF TxField, Tx!Field
  <2>. QED
    BY <1>10, <1>11, <2>1 DEF segwitInputs, segwitWitness
<1>13. DOMAIN stream = 1..Len(stream)
  BY <1>8, LenProperties
<1>14. wits = [j \in DOMAIN segwitInputs |-> segwitWitness(j)]
  BY <1>4, <1>12
<1>15. stream[Len(stream)] = TxField("LockTime", <<>>)
  BY <1>8 DEF last
<1>. QED
  BY <1>4, <1>8, <1>10, <1>11, <1>12, <1>13, <1>14, <1>15, Zenon DEF SegwitFields

LEMMA SegwitHasFields == Tx!TransactionAssumption /\ IsSegwit => SegwitFields
<1>. SUFFICES ASSUME Tx!TransactionAssumption, IsSegwit PROVE SegwitFields
  OBVIOUS
<1>1. PICK ins \in InputLists, outs \in OutputLists :
        \E wits \in [DOMAIN ins -> Tx!Witnesses] : stream = SegwitStream(ins, outs, wits)
  BY DEF IsSegwit
<1>. QED
  BY <1>1, SegwitPlaces

-----------------------------------------------------------------------------
(* TransactionDecoder: what has been read wherever it stands. *)

\* The inputs with the witnesses of the first k of them.
Filled(k) ==
  [i \in DOMAIN segwitInputs |->
     Tx!WithWitness(segwitInputs[i], IF i <= k THEN segwitWitness(i) ELSE <<>>)]
Unwitnessed == [i \in DOMAIN stream[2].value |-> Tx!WithWitness(stream[2].value[i], <<>>)]

\* Everything has been read, and no witness was superfluous.
AllRead ==
  /\ outputs = stream[IF IsPlain THEN 3 ELSE 5].value
  /\ \/ IsPlain /\ inputs = Unwitnessed
     \/ /\ IsSegwit /\ inputs = Filled(Len(segwitInputs))
        /\ segwitInputs = <<>> \/ \E i \in DOMAIN segwitInputs : segwitWitness(i) # <<>>

AtVersion == at = 1
AtInputs == (at = 2 /\ attempt = "First") \/ (at = 4 /\ attempt = "Second" /\ IsSegwit)
AtFlag == at = 3 /\ (stream = BadFlagStream \/ IsSegwit)
AtOutputs ==
  \/ IsPlain /\ at = 3 /\ ~is_segwit /\ inputs = Unwitnessed
  \/ IsSegwit /\ at = 5 /\ is_segwit /\ inputs = Filled(0)
AtWitnesses ==
  /\ IsSegwit /\ is_segwit
  /\ iteration \in Nat /\ iteration < Len(segwitInputs) /\ at = 6 + iteration
  /\ inputs = Filled(iteration) /\ outputs = stream[5].value
AtLockTime == at = Len(stream) /\ AllRead

Reading == {"Version", "Inputs", "Outputs", "Witnesses", "LockTime"}

TxProgress ==
  /\ IsPlain \/ stream = BadFlagStream \/ IsSegwit
  /\ state \in Reading \cup {"SegwitFlag", "Done", "Errored"}
  /\ state = "Version" => AtVersion
  /\ state = "Inputs" => AtInputs
  /\ state = "SegwitFlag" => AtFlag
  /\ state = "Outputs" => AtOutputs
  /\ state = "Witnesses" => AtWitnesses
  /\ state \in {"LockTime", "Done"} => AtLockTime
  /\ pc \in {"idle", "push", "end", "next"}
  /\ pc \in {"end", "next"} => state \in Reading
  /\ phase = "ok" => state = "Done" /\ pc = "idle"

\* What the invariant says of the place does not change with the running call.
LEMMA PlaceStays ==
  ASSUME UNCHANGED <<stream, at, attempt, is_segwit, iteration, inputs, outputs>>
  PROVE  /\ IsPlain' = IsPlain /\ IsSegwit' = IsSegwit
         /\ AtVersion' = AtVersion /\ AtInputs' = AtInputs /\ AtFlag' = AtFlag
         /\ AtOutputs' = AtOutputs /\ AtWitnesses' = AtWitnesses
         /\ AtLockTime' = AtLockTime
BY DEF IsPlain, IsSegwit, AtVersion, AtInputs, AtFlag, AtOutputs, AtWitnesses, AtLockTime,
   AllRead, Unwitnessed, Filled, segwitInputs, segwitWitness

\* What is known of the stream stays known.
LEMMA StreamStays ==
  ASSUME stream' = stream
  PROVE  /\ IsPlain' = IsPlain /\ IsSegwit' = IsSegwit
         /\ Unwitnessed' = Unwitnessed /\ segwitInputs' = segwitInputs
         /\ \A k : Filled(k)' = Filled(k) /\ segwitWitness(k)' = segwitWitness(k)
BY DEF IsPlain, IsSegwit, Unwitnessed, Filled, segwitInputs, segwitWitness

\* The three forms of a stream exclude each other.
LEMMA FormsDiffer ==
  ASSUME Tx!TransactionAssumption
  PROVE  /\ IsPlain => ~IsSegwit /\ stream # BadFlagStream
         /\ IsSegwit => stream # BadFlagStream
<1>1. /\ IsPlain => stream[2].value # <<>>
      /\ IsSegwit => stream[2].value = <<>> /\ stream[3].value = <<1>>
      /\ stream = BadFlagStream => stream[2].value = <<>> /\ stream[3].value = <<0>>
  BY PlainHasFields, SegwitHasFields, BadFlagHasFields
     DEF PlainFields, SegwitFields, BadFlagFields, TxField, Tx!Field
<1>2. <<1>> # <<0>>
  <2>1. <<1>>[1] # <<0>>[1]
    OBVIOUS
  <2>. QED
    BY <2>1
<1>. QED
  BY <1>1, <1>2

LEMMA HereIs ==
  ASSUME at \in 1..Len(stream)
  PROVE  Tx!Here = stream[at]
BY DEF Tx!Here

\* The lists that were read are as long as those on the wire.
LEMMA FilledShape ==
  ASSUME Tx!TransactionAssumption, IsSegwit, NEW k
  PROVE  /\ DOMAIN Filled(k) = 1..Len(segwitInputs) /\ Len(Filled(k)) = Len(segwitInputs)
         /\ Filled(k) = <<>> <=> segwitInputs = <<>>
<1>1. /\ segwitInputs \in InputLists /\ Len(segwitInputs) \in Nat
      /\ DOMAIN segwitInputs = 1..Len(segwitInputs)
      /\ segwitInputs = <<>> <=> DOMAIN segwitInputs = {}
  BY SegwitHasFields, ListsAreSequences DEF SegwitFields
<1>2. DOMAIN Filled(k) = 1..Len(segwitInputs)
  BY <1>1 DEF Filled
<1>3. Filled(k) = [i \in 1..Len(segwitInputs) |-> Filled(k)[i]]
  BY <1>1 DEF Filled
<1>. DEFINE f == Filled(k)
<1>4. f = <<>> <=> DOMAIN f = {}
  <2>1. f = [i \in 1..Len(segwitInputs) |-> f[i]]
    BY <1>3
  <2>. HIDE DEF f
  <2>2. f \in Seq({f[i] : i \in 1..Len(segwitInputs)})
    BY <1>1, <2>1
  <2>. QED
    BY <2>2
<1>5. Len(f) = Len(segwitInputs)
  <2>1. f = [i \in 1..Len(segwitInputs) |-> f[i]]
    BY <1>3
  <2>. HIDE DEF f
  <2>. QED
    BY <1>1, <2>1
<1>. QED
  BY <1>1, <1>2, <1>4, <1>5

LEMMA TxInitEstablishes ==
  ASSUME Tx!TransactionInit
  PROVE  TxProgress
<1>1. stream \in Tx!Streams /\ state = "Version" /\ at = 1 /\ pc = "idle" /\ phase = "more"
  BY DEF Tx!TransactionInit
<1>. QED
  BY <1>1, StreamForms DEF TxProgress, AtVersion, Reading

\* A call that leaves the state where it is, or fails, leaves what was read.
LEMMA StandsStill ==
  ASSUME TxProgress, stream' = stream,
         UNCHANGED <<at, attempt, is_segwit, iteration, inputs, outputs>>,
         state' \in {state, "Errored"},
         pc' \in {"idle", "push", "end", "next"},
         pc' \in {"end", "next"} => state' \in Reading,
         phase' = "ok" => state' = "Done" /\ pc' = "idle"
  PROVE  TxProgress'
<1>1. /\ IsPlain' = IsPlain /\ IsSegwit' = IsSegwit
      /\ AtVersion' = AtVersion /\ AtInputs' = AtInputs /\ AtFlag' = AtFlag
      /\ AtOutputs' = AtOutputs /\ AtWitnesses' = AtWitnesses
      /\ AtLockTime' = AtLockTime
  BY PlaceStays
<1>2. stream' = BadFlagStream <=> stream = BadFlagStream
  OBVIOUS
<1>3. BadFlagStream' = BadFlagStream
  BY DEF BadFlagStream, TxField, Tx!Field
<1>4. "Errored" \notin {"Version", "Inputs", "SegwitFlag", "Outputs", "Witnesses", "LockTime", "Done"}
  OBVIOUS
<1>. QED
  BY <1>1, <1>2, <1>3, <1>4, Zenon DEF TxProgress, Reading

LEMMA TxReturns ==
  \A answer : Tx!Return(answer) => pc' = "idle" /\ phase' = answer
BY DEF Tx!Return

\* The inputs are read: they are not all there is at the first attempt if there are none.
LEMMA AfterInputsKeeps ==
  ASSUME Tx!TransactionAssumption, TxProgress, Tx!AfterInputs
  PROVE  TxProgress'
<1>1. /\ pc = "next" /\ state = "Inputs" /\ UNCHANGED <<stream, attempt, iteration, outputs>>
      /\ inputs' = [i \in DOMAIN Tx!Here.value |-> Tx!WithWitness(Tx!Here.value[i], <<>>)]
      /\ is_segwit' = (attempt = "Second")
      /\ state' = (IF attempt = "First" /\ inputs' = <<>> THEN "SegwitFlag" ELSE "Outputs")
      /\ at' = at + 1 /\ pc' = "push" /\ phase' = phase
  BY DEF Tx!AfterInputs, Tx!Next, Tx!Enter, Tx!GoOn, Tx!input, Tx!seen
<1>2. AtInputs /\ (IsPlain \/ stream = BadFlagStream \/ IsSegwit)
  BY <1>1 DEF TxProgress
<1>3. phase # "ok"
  BY <1>1 DEF TxProgress
<1>. SUFFICES ASSUME TRUE
              PROVE  /\ state' = "SegwitFlag" => AtFlag'
                     /\ state' = "Outputs" => AtOutputs'
  <2>1. IsPlain' \/ stream' = BadFlagStream \/ IsSegwit'
    BY <1>1, <1>2, StreamStays
  <2>2. BadFlagStream' = BadFlagStream
    BY DEF BadFlagStream, TxField, Tx!Field
  <2>. QED
    BY <1>1, <1>3, <2>1, <2>2 DEF TxProgress, Reading
<1>4. CASE IsPlain
  <2>1. at = 2 /\ attempt = "First" /\ ~IsSegwit
    BY <1>2, <1>4, FormsDiffer DEF AtInputs
  <2>2. PlainFields
    BY <1>4, PlainHasFields
  <2>3. Tx!Here.value = stream[2].value
    BY <2>1, <2>2, HereIs DEF PlainFields
  <2>4. inputs' = Unwitnessed
    BY <1>1, <2>3 DEF Unwitnessed
  <2>5. inputs' # <<>>
    <3>1. DOMAIN stream[2].value # {}
      BY <2>2, ListsAreSequences DEF PlainFields
    <3>2. DOMAIN inputs' # {}
      BY <2>4, <3>1 DEF Unwitnessed
    <3>. QED
      BY <3>2
  <2>6. ~is_segwit' /\ at' = 3 /\ state' = "Outputs"
    <3>1. attempt # "Second"
      BY <2>1
    <3>2. ~is_segwit'
      BY <1>1, <3>1, Zenon
    <3>. QED
      BY <1>1, <2>1, <2>5, <3>2
  <2>. QED
    BY <1>1, <1>4, <2>4, <2>6, StreamStays DEF AtOutputs
<1>5. CASE at = 2 /\ ~IsPlain
  <2>1. Tx!Here.value = <<>> /\ attempt = "First"
    <3>1. Len(stream) >= 2 /\ Len(stream) \in Nat /\ stream[2] = TxField("Inputs", <<>>)
      BY <1>2, <1>5, SegwitHasFields, BadFlagHasFields DEF SegwitFields, BadFlagFields
    <3>2. 2 \in 1..Len(stream)
      BY <3>1
    <3>. QED
      BY <1>2, <1>5, <3>1, <3>2, HereIs DEF TxField, Tx!Field, AtInputs
  <2>2. inputs' = <<>>
    BY <1>1, <2>1
  <2>3. BadFlagStream' = BadFlagStream
    BY DEF BadFlagStream, TxField, Tx!Field
  <2>. QED
    BY <1>1, <1>2, <1>5, <2>1, <2>2, <2>3, StreamStays DEF AtFlag
<1>6. CASE at = 4
  <2>1. attempt = "Second" /\ IsSegwit
    BY <1>2, <1>6 DEF AtInputs
  <2>2. SegwitFields
    BY <2>1, SegwitHasFields
  <2>3. Tx!Here.value = segwitInputs
    <3>1. 4 \in 1..Len(stream)
      BY <2>2 DEF SegwitFields
    <3>. QED
      BY <1>6, <2>2, <3>1, HereIs DEF SegwitFields, segwitInputs
  <2>4. inputs' = Filled(0)
    <3>1. \A i \in DOMAIN segwitInputs : ~(i <= 0)
      BY <2>2, ListsAreSequences DEF SegwitFields
    <3>. QED
      BY <1>1, <2>3, <3>1 DEF Filled
  <2>5. is_segwit' /\ at' = 5 /\ state' = "Outputs"
    <3>1. is_segwit'
      BY <1>1, <2>1, Zenon
    <3>2. attempt # "First"
      BY <2>1
    <3>. QED
      BY <1>1, <1>6, <3>1, <3>2
  <2>. QED
    BY <1>1, <2>1, <2>4, <2>5, StreamStays DEF AtOutputs
<1>. QED
  BY <1>2, <1>4, <1>5, <1>6 DEF AtInputs

LEMMA SegwitFlagKeeps ==
  ASSUME Tx!TransactionAssumption, TxProgress, Tx!SegwitFlag
  PROVE  TxProgress'
<1>1. /\ pc = "push" /\ state = "SegwitFlag"
      /\ UNCHANGED <<stream, is_segwit, iteration, inputs, outputs>>
  BY DEF Tx!SegwitFlag, Tx!input
<1>2. AtFlag /\ (IsPlain \/ stream = BadFlagStream \/ IsSegwit) /\ phase # "ok"
  BY <1>1 DEF TxProgress
<1>3. CASE rest = 0
  BY <1>1, <1>3, StandsStill, TxReturns DEF Tx!SegwitFlag, Reading
<1>4. CASE rest # 0 /\ Tx!Here.value # <<1>>
  BY <1>1, <1>4, StandsStill, TxReturns DEF Tx!SegwitFlag, Reading
<1>5. CASE rest # 0 /\ Tx!Here.value = <<1>>
  <2>1. /\ attempt' = "Second" /\ state' = "Inputs" /\ at' = at + 1 /\ pc' = "push"
        /\ phase' = phase
    BY <1>5 DEF Tx!SegwitFlag, Tx!Enter, Tx!GoOn, Tx!seen
  <2>2. at = 3
    BY <1>2 DEF AtFlag
  <2>3. IsSegwit
    <3>1. CASE stream = BadFlagStream
      <4>1. Tx!Here.value = <<0>>
        <5>1. at \in 1..Len(stream) /\ stream[at] = TxField("SegwitFlag", <<0>>)
          BY <2>2, <3>1, BadFlagHasFields DEF BadFlagFields
        <5>. QED
          BY <5>1, HereIs DEF TxField, Tx!Field
      <4>2. <<0>>[1] # <<1>>[1]
        OBVIOUS
      <4>. QED
        BY <1>5, <4>1, <4>2
    <3>. QED
      BY <1>2, <3>1 DEF AtFlag
  <2>. QED
    BY <1>1, <1>2, <2>1, <2>2, <2>3, StreamStays DEF TxProgress, AtInputs, Reading
<1>. QED
  BY <1>3, <1>4, <1>5

LEMMA AfterOutputsKeeps ==
  ASSUME Tx!TransactionAssumption, TxProgress, Tx!AfterOutputs
  PROVE  TxProgress'
<1>1. /\ pc = "next" /\ state = "Outputs"
      /\ UNCHANGED <<stream, attempt, is_segwit, inputs>>
      /\ outputs' = Tx!Here.value /\ iteration' = 0
      /\ state' = (IF is_segwit /\ inputs # <<>> THEN "Witnesses" ELSE "LockTime")
      /\ at' = at + 1 /\ pc' = "push" /\ phase' = phase
  BY DEF Tx!AfterOutputs, Tx!Next, Tx!Enter, Tx!GoOn, Tx!input, Tx!seen
<1>2. AtOutputs /\ phase # "ok"
  BY <1>1 DEF TxProgress
<1>. SUFFICES ASSUME TRUE
              PROVE  /\ IsPlain' \/ IsSegwit'
                     /\ state' = "Witnesses" => AtWitnesses'
                     /\ state' = "LockTime" => AtLockTime'
  BY <1>1, <1>2 DEF TxProgress, Reading
<1>3. CASE IsPlain
  <2>1. at = 3 /\ ~is_segwit /\ inputs = Unwitnessed
    BY <1>2, <1>3, FormsDiffer DEF AtOutputs
  <2>2. PlainFields
    BY <1>3, PlainHasFields
  <2>3. outputs' = stream[3].value
    BY <1>1, <2>1, <2>2, HereIs DEF PlainFields
  <2>4. at' = Len(stream')
    BY <1>1, <2>1, <2>2 DEF PlainFields
  <2>5. AllRead'
    BY <1>1, <1>3, <2>1, <2>3, StreamStays DEF AllRead
  <2>. QED
    BY <1>1, <1>3, <2>1, <2>4, <2>5, StreamStays DEF AtLockTime
<1>4. CASE IsSegwit
  <2>1. at = 5 /\ is_segwit /\ inputs = Filled(0)
    BY <1>2, <1>4, FormsDiffer DEF AtOutputs
  <2>2. SegwitFields
    BY <1>4, SegwitHasFields
  <2>3. 5 \in 1..Len(stream)
    BY <2>2 DEF SegwitFields
  <2>4. outputs' = stream[5].value
    BY <1>1, <2>1, <2>3, HereIs
  <2>5. inputs = <<>> <=> segwitInputs = <<>>
    BY <1>4, <2>1, FilledShape
  <2>6. ~IsPlain' /\ IsSegwit'
    BY <1>1, <1>4, StreamStays, FormsDiffer
  <2>7. CASE inputs # <<>>
    <3>1. 0 < Len(segwitInputs)
      <4>1. Len(segwitInputs) \in Nat /\ segwitInputs \in InputLists
        BY <2>2 DEF SegwitFields
      <4>2. DOMAIN segwitInputs = 1..Len(segwitInputs) /\ DOMAIN segwitInputs # {}
        BY <2>5, <2>7, <4>1, ListsAreSequences
      <4>. QED
        BY <4>1, <4>2
    <3>2. AtWitnesses'
      BY <1>1, <1>4, <2>1, <2>4, <3>1, StreamStays DEF AtWitnesses
    <3>. QED
      BY <1>1, <2>1, <2>6, <2>7, <3>2
  <2>8. CASE inputs = <<>>
    <3>1. segwitInputs = <<>> /\ Len(segwitInputs) = 0
      BY <2>5, <2>8
    <3>2. at' = Len(stream')
      BY <1>1, <2>1, <2>2, <3>1 DEF SegwitFields
    <3>3. AllRead'
      BY <1>1, <2>1, <2>4, <2>6, <3>1, StreamStays DEF AllRead
    <3>. QED
      BY <1>1, <2>6, <2>8, <3>2, <3>3 DEF AtLockTime
  <2>. QED
    BY <2>7, <2>8
<1>. QED
  BY <1>2, <1>3, <1>4 DEF AtOutputs

\* The witness that was read is that of the input at its place.
LEMMA WitnessFills ==
  ASSUME Tx!TransactionAssumption, TxProgress, Tx!AfterWitness
  PROVE  inputs' = Filled(iteration + 1)
<1>1. /\ pc = "next" /\ state = "Witnesses" /\ UNCHANGED <<stream, attempt, is_segwit, outputs>>
      /\ inputs' = [inputs EXCEPT ![iteration + 1].witness = Tx!Here.value]
  BY DEF Tx!AfterWitness, Tx!Next, Tx!input
<1>2. AtWitnesses /\ phase # "ok"
  BY <1>1 DEF TxProgress
<1>3. /\ IsSegwit /\ is_segwit /\ iteration \in Nat /\ iteration < Len(segwitInputs)
      /\ at = 6 + iteration /\ inputs = Filled(iteration) /\ outputs = stream[5].value
  BY <1>2 DEF AtWitnesses
<1>4. SegwitFields
  BY <1>3, SegwitHasFields
<1>5. /\ segwitInputs \in InputLists /\ Len(segwitInputs) \in Nat
      /\ DOMAIN segwitInputs = 1..Len(segwitInputs)
  BY <1>4, ListsAreSequences DEF SegwitFields
<1>6. Tx!Here.value = segwitWitness(iteration + 1)
  <2>1. at \in 1..Len(stream) /\ at = 5 + (iteration + 1)
    BY <1>3, <1>4 DEF SegwitFields
  <2>. QED
    BY <2>1, HereIs DEF segwitWitness
<1>7. inputs' = Filled(iteration + 1)
  <2>1. \A i \in DOMAIN segwitInputs :
          inputs[i] = Tx!WithWitness(segwitInputs[i],
                                     IF i <= iteration THEN segwitWitness(i) ELSE <<>>)
    BY <1>3 DEF Filled
  <2>2. iteration + 1 \in DOMAIN segwitInputs
    BY <1>3, <1>5
  <2>3. DOMAIN inputs = DOMAIN segwitInputs
    BY <1>3 DEF Filled
  <2>4. \A in, w, x : [Tx!WithWitness(in, w) EXCEPT !.witness = x] = Tx!WithWitness(in, x)
    BY DEF Tx!WithWitness
  <2>5. inputs' = [inputs EXCEPT ![iteration + 1] =
                     [inputs[iteration + 1] EXCEPT !.witness = Tx!Here.value]]
    BY <1>1
  <2>6. inputs' = [inputs EXCEPT ![iteration + 1] =
                     Tx!WithWitness(segwitInputs[iteration + 1], segwitWitness(iteration + 1))]
    <3>1. PICK w : inputs[iteration + 1] = Tx!WithWitness(segwitInputs[iteration + 1], w)
      BY <2>1, <2>2
    <3>2. [inputs[iteration + 1] EXCEPT !.witness = Tx!Here.value]
            = Tx!WithWitness(segwitInputs[iteration + 1], segwitWitness(iteration + 1))
      <4>1. \A h : [Tx!WithWitness(segwitInputs[iteration + 1], w) EXCEPT !.witness = h]
                     = Tx!WithWitness(segwitInputs[iteration + 1], h)
        BY <2>4
      <4>. QED
        BY ONLY <1>6, <3>1, <4>1
    <3>. QED
      BY ONLY <2>5, <3>2, Zenon
  <2>7. \A i \in DOMAIN segwitInputs :
          inputs'[i] = Tx!WithWitness(segwitInputs[i],
                                      IF i <= iteration + 1 THEN segwitWitness(i) ELSE <<>>)
    <3>1. ASSUME NEW i \in DOMAIN segwitInputs, i # iteration + 1
          PROVE  i <= iteration <=> i <= iteration + 1
      BY <1>3, <1>5, <3>1
    <3>2. iteration + 1 <= iteration + 1
      BY <1>3
    <3>. QED
      BY <2>1, <2>2, <2>3, <2>6, <3>1, <3>2
  <2>8. inputs' = [i \in DOMAIN segwitInputs |-> inputs'[i]]
    BY <2>3, <2>6
  <2>. QED
    BY <2>7, <2>8 DEF Filled
<1>. QED
  BY <1>7

LEMMA AfterWitnessKeeps ==
  ASSUME Tx!TransactionAssumption, TxProgress, Tx!AfterWitness
  PROVE  TxProgress'
<1>1. /\ pc = "next" /\ state = "Witnesses" /\ UNCHANGED <<stream, attempt, is_segwit, outputs>>
      /\ inputs' = [inputs EXCEPT ![iteration + 1].witness = Tx!Here.value]
  BY DEF Tx!AfterWitness, Tx!Next, Tx!input
<1>2. AtWitnesses /\ phase # "ok"
  BY <1>1 DEF TxProgress
<1>3. /\ IsSegwit /\ is_segwit /\ iteration \in Nat /\ iteration < Len(segwitInputs)
      /\ at = 6 + iteration /\ inputs = Filled(iteration) /\ outputs = stream[5].value
  BY <1>2 DEF AtWitnesses
<1>4. SegwitFields
  BY <1>3, SegwitHasFields
<1>5. /\ segwitInputs \in InputLists /\ Len(segwitInputs) \in Nat
      /\ DOMAIN segwitInputs = 1..Len(segwitInputs)
  BY <1>4, ListsAreSequences DEF SegwitFields
<1>7. inputs' = Filled(iteration + 1)
  BY WitnessFills
<1>8. IsSegwit' /\ ~IsPlain' /\ Filled(iteration + 1)' = Filled(iteration' + 1)
      /\ stream'[5].value = stream[5].value
  BY <1>1, <1>3, StreamStays, FormsDiffer DEF Filled, segwitInputs, segwitWitness
<1>9. CASE iteration < Len(inputs) - 1
  <2>1. /\ iteration' = iteration + 1 /\ state' = "Witnesses" /\ at' = at + 1 /\ pc' = "push"
        /\ phase' = phase
    BY <1>9 DEF Tx!AfterWitness, Tx!Enter, Tx!GoOn, Tx!seen
  <2>2. Len(inputs) = Len(segwitInputs)
    BY <1>3, FilledShape
  <2>3. iteration' \in Nat /\ iteration' < Len(segwitInputs) /\ at' = 6 + iteration'
    BY <1>3, <1>5, <1>9, <2>1, <2>2
  <2>4. AtWitnesses'
    BY <1>1, <1>3, <1>7, <1>8, <2>1, <2>3, StreamStays DEF AtWitnesses
  <2>. QED
    BY <1>2, <1>8, <2>1, <2>4 DEF TxProgress, Reading
<1>10. CASE ~(iteration < Len(inputs) - 1)
  <2>1. Len(inputs) = Len(segwitInputs) /\ iteration + 1 = Len(segwitInputs)
    <3>1. Len(inputs) = Len(segwitInputs)
      BY <1>3, FilledShape
    <3>2. iteration \in Nat /\ iteration < Len(segwitInputs)
      BY <1>3
    <3>3. \A k, m, l \in Nat : k < l /\ m = l /\ ~(k < m - 1) => k + 1 = l
      OBVIOUS
    <3>4. Len(inputs) \in Nat
      BY ONLY <1>5, <3>1
    <3>5. iteration + 1 = Len(segwitInputs)
      BY ONLY <1>5, <1>10, <3>1, <3>2, <3>3, <3>4, Zenon
    <3>. QED
      BY <3>1, <3>5
  <2>2. inputs' = Filled(Len(segwitInputs))
    BY <1>7, <2>1
  <2>3. CASE \A i \in DOMAIN inputs' : inputs'[i].witness = <<>>
    <3>1. state' = "Errored" /\ Tx!Return("failed")
      BY <1>10, <2>3 DEF Tx!AfterWitness, Tx!Fail
    <3>2. pc' = "idle" /\ phase' = "failed"
      BY <3>1, TxReturns
    <3>. QED
      BY <1>8, <3>1, <3>2 DEF TxProgress, Reading
  <2>4. CASE ~(\A i \in DOMAIN inputs' : inputs'[i].witness = <<>>)
    <3>1. state' = "LockTime" /\ at' = at + 1 /\ pc' = "push" /\ phase' = phase
      BY <1>10, <2>4 DEF Tx!AfterWitness, Tx!Enter, Tx!GoOn, Tx!seen
    <3>2. at' = Len(stream')
      BY <1>1, <1>3, <1>4, <2>1, <3>1 DEF SegwitFields
    <3>3. PICK i \in DOMAIN inputs' : inputs'[i].witness # <<>>
      BY <2>4
    <3>4. i \in DOMAIN segwitInputs /\ i <= Len(segwitInputs)
      BY <1>5, <2>2, <3>3 DEF Filled
    <3>5. inputs'[i].witness = segwitWitness(i)
      BY <2>2, <3>4 DEF Filled, Tx!WithWitness
    <3>6. AllRead'
      BY <1>1, <1>3, <1>8, <2>2, <3>3, <3>4, <3>5, StreamStays DEF AllRead
    <3>. QED
      BY <1>2, <1>8, <3>1, <3>2, <3>6 DEF TxProgress, Reading, AtLockTime
  <2>. QED
    BY <2>3, <2>4
<1>. QED
  BY <1>9, <1>10

\* Every step keeps what is known of the place and of what was read.
LEMMA TxStepKeeps ==
  ASSUME Tx!TransactionAssumption, TxProgress, [Tx!TransactionNext]_(Tx!vars)
  PROVE  TxProgress'
<1>1. ASSUME NEW k, Tx!PushCall(k) PROVE TxProgress'
  BY <1>1, StandsStill DEF Tx!PushCall, Tx!GoOn, Tx!input, Tx!carried, Tx!seen, Reading
<1>2. CASE Tx!PushField
  <2>1. /\ state \in Reading
        /\ UNCHANGED <<stream, state, at, attempt, is_segwit, iteration, inputs, outputs>>
        /\ fphase' = "ready" => Tx!GoOn("end")
        /\ fphase' # "ready" => Tx!Return(fphase')
    BY <1>2 DEF Tx!PushField, Tx!input, Tx!carried, TxProgress, Reading
  <2>2. fphase' # "ok"
    BY <1>2 DEF Tx!PushField, Tx!D!Push, Tx!D!Settle
  <2>3. /\ fphase' = "ready" => pc' = "end" /\ phase' = phase
        /\ fphase' # "ready" => pc' = "idle" /\ phase' # "ok"
    BY <2>1, <2>2, TxReturns DEF Tx!GoOn, Tx!seen
  <2>4. phase # "ok"
    BY <1>2 DEF Tx!PushField, TxProgress
  <2>. QED
    BY <2>1, <2>3, <2>4, StandsStill
<1>3. CASE Tx!EndField
  <2>1. /\ UNCHANGED <<stream, at, attempt, is_segwit, iteration, inputs, outputs>>
        /\ state \in Reading /\ phase # "ok"
        /\ \/ Tx!GoOn("next") /\ UNCHANGED state
           \/ state' = "Errored" /\ Tx!Return("failed")
    BY <1>3 DEF Tx!EndField, Tx!input, Tx!carried, TxProgress, Tx!D!End
  <2>2. \/ pc' = "next" /\ phase' = phase /\ state' = state
        \/ pc' = "idle" /\ phase' = "failed" /\ state' = "Errored"
    BY <2>1, TxReturns DEF Tx!GoOn, Tx!seen
  <2>. QED
    BY <2>1, <2>2, StandsStill
<1>4. CASE Tx!AfterVersion
  <2>1. /\ pc = "next" /\ state = "Version" /\ UNCHANGED stream
        /\ attempt' = "First" /\ state' = "Inputs" /\ at' = at + 1 /\ pc' = "push"
        /\ phase' = phase
    BY <1>4 DEF Tx!AfterVersion, Tx!Next, Tx!Enter, Tx!GoOn, Tx!input, Tx!seen
  <2>2. AtVersion /\ (IsPlain \/ stream = BadFlagStream \/ IsSegwit) /\ phase # "ok"
    BY <2>1 DEF TxProgress
  <2>3. BadFlagStream' = BadFlagStream
    BY DEF BadFlagStream, TxField, Tx!Field
  <2>. QED
    BY <2>1, <2>2, <2>3, StreamStays DEF TxProgress, AtVersion, AtInputs, Reading
<1>5. CASE Tx!AfterInputs
  BY <1>5, AfterInputsKeeps
<1>6. CASE Tx!SegwitFlag
  BY <1>6, SegwitFlagKeeps
<1>7. CASE Tx!AfterOutputs
  BY <1>7, AfterOutputsKeeps
<1>8. CASE Tx!AfterWitness
  BY <1>8, AfterWitnessKeeps
<1>9. CASE Tx!AfterLockTime
  <2>1. /\ pc = "next" /\ state = "LockTime" /\ state' = "Done"
        /\ UNCHANGED <<stream, at, attempt, is_segwit, iteration, inputs, outputs>>
        /\ Tx!Return("ready")
    BY <1>9 DEF Tx!AfterLockTime, Tx!Next, Tx!input, Tx!carried
  <2>2. AtLockTime' /\ (IsPlain' \/ stream' = BadFlagStream \/ IsSegwit')
    BY <2>1, PlaceStays DEF TxProgress
  <2>3. BadFlagStream' = BadFlagStream
    BY DEF BadFlagStream, TxField, Tx!Field
  <2>. QED
    BY <2>1, <2>2, <2>3, TxReturns DEF TxProgress, Reading
<1>10. CASE Tx!PushDone
  <2>1. /\ UNCHANGED <<stream, state, at, attempt, is_segwit, iteration, inputs, outputs>>
        /\ pc' = "idle" /\ phase' = "ready"
    BY <1>10, TxReturns DEF Tx!PushDone, Tx!input, Tx!carried
  <2>. QED
    BY <2>1, StandsStill
<1>11. CASE Tx!End
  <2>1. /\ UNCHANGED <<stream, state, at, attempt, is_segwit, iteration, inputs, outputs>>
        /\ pc = "idle" /\ pc' = "idle" /\ (phase' = "ok" => state = "Done")
    BY <1>11 DEF Tx!End, Tx!input, Tx!carried
  <2>. QED
    BY <2>1, StandsStill
<1>12. CASE UNCHANGED Tx!vars
  <2>1. UNCHANGED <<stream, state, at, attempt, is_segwit, iteration, inputs, outputs, pc, phase>>
    BY <1>12 DEF Tx!vars, Tx!input, Tx!carried, Tx!seen
  <2>. QED
    BY <2>1, StandsStill DEF TxProgress
<1>. QED
  BY <1>1, <1>2, <1>3, <1>4, <1>5, <1>6, <1>7, <1>8, <1>9, <1>10, <1>11, <1>12
     DEF Tx!TransactionNext, Tx!Returned

-----------------------------------------------------------------------------
(* What is read is the encoding of what was read. *)

LEMMA FieldsMatch ==
  ASSUME Tx!TransactionAssumption, TxProgress
  PROVE  Tx!DecoderMatchesField
<1>1. ASSUME state \notin {"Done", "Errored"} PROVE Tx!Here.kind = state
  <2>1. \A kind, value : TxField(kind, value).kind = kind
    BY DEF TxField, Tx!Field
  <2>2. /\ IsPlain => PlainFields /\ ~IsSegwit
        /\ stream = BadFlagStream => BadFlagFields /\ ~IsPlain
        /\ IsSegwit => SegwitFields /\ ~IsPlain
    BY PlainHasFields, BadFlagHasFields, SegwitHasFields, FormsDiffer
  <2>3. CASE state = "Version"
    <3>1. at = 1 /\ 1 \in 1..Len(stream) /\ stream[1] = TxField("Version", <<>>)
      BY <2>2, <2>3 DEF TxProgress, AtVersion, PlainFields, BadFlagFields, SegwitFields
    <3>. QED
      BY <2>1, <2>3, <3>1, HereIs
  <2>4. CASE state = "Inputs"
    <3>1. CASE at = 2
      <4>1. 2 \in 1..Len(stream) /\ \E value : stream[2] = TxField("Inputs", value)
        BY <2>2, <2>4, <3>1 DEF TxProgress, AtInputs, PlainFields, BadFlagFields, SegwitFields
      <4>. QED
        BY <2>1, <2>4, <3>1, <4>1, HereIs
    <3>2. CASE at = 4
      <4>1. 4 \in 1..Len(stream) /\ \E value : stream[4] = TxField("Inputs", value)
        BY <2>2, <2>4, <3>2 DEF TxProgress, AtInputs, SegwitFields
      <4>. QED
        BY <2>1, <2>4, <3>2, <4>1, HereIs
    <3>. QED
      BY <2>4, <3>1, <3>2 DEF TxProgress, AtInputs
  <2>5. CASE state = "SegwitFlag"
    <3>1. at = 3 /\ 3 \in 1..Len(stream) /\ \E value : stream[3] = TxField("SegwitFlag", value)
      BY <2>2, <2>5 DEF TxProgress, AtFlag, BadFlagFields, SegwitFields
    <3>. QED
      BY <2>1, <2>5, <3>1, HereIs
  <2>6. CASE state = "Outputs"
    <3>1. at \in 1..Len(stream) /\ \E value : stream[at] = TxField("Outputs", value)
      <4>1. CASE IsPlain
        <5>1. at = 3 /\ PlainFields
          BY <2>2, <2>6, <4>1 DEF TxProgress, AtOutputs
        <5>2. at \in 1..Len(stream) /\ stream[at] = TxField("Outputs", stream[3].value)
          BY <5>1 DEF PlainFields
        <5>. QED
          BY <5>2
      <4>2. CASE IsSegwit
        BY <2>2, <2>6, <4>2 DEF TxProgress, AtOutputs, SegwitFields
      <4>. QED
        BY <2>6, <4>1, <4>2 DEF TxProgress, AtOutputs
    <3>. QED
      BY <2>1, <2>6, <3>1, HereIs
  <2>7. CASE state = "Witnesses"
    <3>1. /\ at = 5 + (iteration + 1) /\ iteration + 1 \in 1..Len(segwitInputs)
          /\ at \in 1..Len(stream) /\ SegwitFields
      BY <2>2, <2>7 DEF TxProgress, AtWitnesses, SegwitFields
    <3>2. \E value : stream[at] = TxField("Witnesses", value)
      BY <3>1 DEF SegwitFields
    <3>. QED
      BY <2>1, <2>7, <3>1, <3>2, HereIs
  <2>8. CASE state = "LockTime"
    <3>1. at \in 1..Len(stream) /\ stream[at] = TxField("LockTime", <<>>)
      <4>1. at = Len(stream) /\ (IsPlain \/ IsSegwit)
        BY <2>8 DEF TxProgress, AtLockTime, AllRead
      <4>. QED
        BY <2>2, <4>1 DEF PlainFields, SegwitFields
    <3>. QED
      BY <2>1, <2>8, <3>1, HereIs
  <2>. QED
    BY <1>1, <2>3, <2>4, <2>5, <2>6, <2>7, <2>8 DEF TxProgress, Reading
<1>. QED
  BY <1>1 DEF Tx!DecoderMatchesField, TxProgress, AtWitnesses

\* Sequences written out, one behind the other.
LEMMA TwoAndTwo ==
  ASSUME NEW S, NEW a \in S, NEW b \in S, NEW c \in S, NEW d \in S
  PROVE  <<a, b>> \o <<c, d>> = <<a, b, c, d>>
<1>. DEFINE u == <<a, b>> \o <<c, d>>
<1>1. <<a, b>> \in Seq(S) /\ <<c, d>> \in Seq(S) /\ <<a, b, c, d>> \in Seq(S)
  OBVIOUS
<1>2. u \in Seq(S) /\ IsJoined(u, <<a, b>>, <<c, d>>)
  BY <1>1, JoinedPlaces
<1>3. /\ Len(u) = 4
      /\ \A i \in 1..2 : u[i] = <<a, b>>[i]
      /\ \A i \in 1..2 : u[2 + i] = <<c, d>>[i]
  <2>. HIDE DEF u
  <2>. QED
    BY <1>2 DEF IsJoined
<1>4. u[1] = a /\ u[2] = b /\ u[3] = c /\ u[4] = d
  <2>. HIDE DEF u
  <2>1. u[1] = <<a, b>>[1] /\ u[2] = <<a, b>>[2] /\ u[2 + 1] = <<c, d>>[1] /\ u[2 + 2] = <<c, d>>[2]
    BY <1>3
  <2>. QED
    BY <2>1
<1>5. \A i \in 1..Len(u) : u[i] = <<a, b, c, d>>[i]
  <2>. HIDE DEF u
  <2>. QED
    BY <1>3, <1>4
<1>. HIDE DEF u
<1>6. u = <<a, b, c, d>>
  BY <1>1, <1>2, <1>3, <1>5, SeqEqual
<1>. QED
  BY <1>6 DEF u

LEMMA OneAndFour ==
  ASSUME NEW S, NEW a \in S, NEW b \in S, NEW c \in S, NEW d \in S, NEW e \in S
  PROVE  <<a>> \o <<b, c, d, e>> = <<a, b, c, d, e>>
<1>. DEFINE u == <<a>> \o <<b, c, d, e>>
<1>1. <<a>> \in Seq(S) /\ <<b, c, d, e>> \in Seq(S) /\ <<a, b, c, d, e>> \in Seq(S)
  OBVIOUS
<1>2. u \in Seq(S) /\ IsJoined(u, <<a>>, <<b, c, d, e>>)
  BY <1>1, JoinedPlaces
<1>. HIDE DEF u
<1>3. /\ Len(u) = 5
      /\ \A i \in 1..1 : u[i] = <<a>>[i]
      /\ \A i \in 1..4 : u[1 + i] = <<b, c, d, e>>[i]
  BY <1>2 DEF IsJoined
<1>4. u[1] = a /\ u[2] = b /\ u[3] = c /\ u[4] = d /\ u[5] = e
  <2>1. /\ u[1] = <<a>>[1] /\ u[1 + 1] = <<b, c, d, e>>[1] /\ u[1 + 2] = <<b, c, d, e>>[2]
        /\ u[1 + 3] = <<b, c, d, e>>[3] /\ u[1 + 4] = <<b, c, d, e>>[4]
    BY <1>3
  <2>. QED
    BY <2>1
<1>5. \A i \in 1..Len(u) : u[i] = <<a, b, c, d, e>>[i]
  BY <1>3, <1>4
<1>6. u = <<a, b, c, d, e>>
  BY <1>1, <1>2, <1>3, <1>5, SeqEqual
<1>. QED
  BY <1>6 DEF u

LEMMA PlainConcat ==
  ASSUME NEW a, NEW b, NEW c, NEW d
  PROVE  <<a>> \o <<b, c>> \o <<d>> = <<a, b, c, d>>
<1>. DEFINE S == {a, b, c, d}
            u == <<a>> \o <<b, c>>
            x == u \o <<d>>
<1>1. /\ <<a>> \in Seq(S) /\ <<b, c>> \in Seq(S) /\ <<d>> \in Seq(S)
      /\ <<a, b, c, d>> \in Seq(S)
  OBVIOUS
<1>. HIDE DEF S
<1>2. u \in Seq(S) /\ IsJoined(u, <<a>>, <<b, c>>)
  BY <1>1, JoinedPlaces
<1>. HIDE DEF u
<1>3. x \in Seq(S) /\ IsJoined(x, u, <<d>>)
  BY <1>1, <1>2, JoinedPlaces
<1>. HIDE DEF x
<1>4. /\ Len(u) = 3
      /\ \A i \in 1..1 : u[i] = <<a>>[i]
      /\ \A i \in 1..2 : u[1 + i] = <<b, c>>[i]
  BY <1>2 DEF IsJoined
<1>5. /\ Len(x) = 4
      /\ \A i \in 1..3 : x[i] = u[i]
      /\ \A i \in 1..1 : x[3 + i] = <<d>>[i]
  BY <1>3, <1>4 DEF IsJoined
<1>6. x[1] = a /\ x[2] = b /\ x[3] = c /\ x[4] = d
  <2>1. /\ u[1] = <<a>>[1] /\ u[1 + 1] = <<b, c>>[1] /\ u[1 + 2] = <<b, c>>[2]
        /\ x[3 + 1] = <<d>>[1]
    BY <1>4, <1>5
  <2>. QED
    BY <1>5, <2>1
<1>7. \A i \in 1..Len(x) : x[i] = <<a, b, c, d>>[i]
  BY <1>5, <1>6
<1>8. x = <<a, b, c, d>>
  BY <1>1, <1>3, <1>5, <1>7, SeqEqual
<1>. QED
  BY <1>8 DEF x, u

\* The fields of a segwit serialization as Encode groups them.
Grouped(a, b, c, d, e, l, w) ==
  <<a>> \o (<<b, c>> \o <<d, e>> \o w) \o <<l>> = <<a, b, c, d, e>> \o w \o <<l>>

LEMMA SegwitConcat ==
  ASSUME NEW S, NEW a \in S, NEW b \in S, NEW c \in S, NEW d \in S, NEW e \in S, NEW l \in S,
         NEW w \in Seq(S)
  PROVE  Grouped(a, b, c, d, e, l, w)
<1>1. <<a>> \in Seq(S) /\ <<b, c, d, e>> \in Seq(S)
  OBVIOUS
<1>2. <<b, c>> \o <<d, e>> = <<b, c, d, e>>
  BY TwoAndTwo
<1>3. <<a>> \o <<b, c, d, e>> = <<a, b, c, d, e>>
  BY OneAndFour
<1>4. (<<a>> \o <<b, c, d, e>>) \o w = <<a>> \o (<<b, c, d, e>> \o w)
  BY <1>1, ConcatAssociative
<1>. QED
  BY ONLY <1>2, <1>3, <1>4, Zenon DEF Grouped

\* The transaction of these inputs with these witnesses.
Made(ins, wits, outs) ==
  [inputs |-> [i \in DOMAIN ins |-> Tx!WithWitness(ins[i], wits[i])], outputs |-> outs]

\* It is serialized the one way or the other.
LEMMA MadeEncodes ==
  ASSUME Tx!TransactionAssumption, NEW ins \in InputLists, NEW outs \in OutputLists,
         NEW wits \in [DOMAIN ins -> Tx!Witnesses]
  PROVE  Tx!Encode(Made(ins, wits, outs)) =
           IF ins # <<>> /\ \A i \in DOMAIN ins : wits[i] = <<>> THEN PlainStream(ins, outs)
           ELSE SegwitStream(ins, outs, wits)
<1>. DEFINE tx == Made(ins, wits, outs)
            bare == [i \in DOMAIN tx.inputs |-> Tx!Bare(tx.inputs[i])]
            fields == [i \in DOMAIN tx.inputs |-> Tx!Field("Witnesses", tx.inputs[i].witness)]
<1>1. \A in, w : Tx!Bare(Tx!WithWitness(in, w)) = Tx!Bare(in) /\ Tx!WithWitness(in, w).witness = w
  BY DEF Tx!Bare, Tx!WithWitness
<1>2. /\ tx.inputs = [i \in DOMAIN ins |-> Tx!WithWitness(ins[i], wits[i])] /\ tx.outputs = outs
      /\ DOMAIN tx.inputs = DOMAIN ins
      /\ \A i \in DOMAIN ins : tx.inputs[i] = Tx!WithWitness(ins[i], wits[i])
  BY DEF Made
<1>3. /\ DOMAIN ins = 1..Len(ins) /\ Len(ins) \in Nat /\ (ins = <<>> <=> DOMAIN ins = {})
      /\ \A i \in DOMAIN ins : Tx!Bare(ins[i]) = ins[i]
      /\ ins = [i \in DOMAIN ins |-> ins[i]]
  BY ListsAreSequences
<1>4. tx.inputs = <<>> <=> ins = <<>>
  <2>. HIDE DEF tx
  <2>1. tx.inputs = [i \in 1..Len(ins) |-> tx.inputs[i]]
    BY <1>2, <1>3
  <2>. DEFINE f == tx.inputs
  <2>2. f \in Seq({f[i] : i \in 1..Len(ins)}) /\ DOMAIN f = DOMAIN ins
    <3>1. f = [i \in 1..Len(ins) |-> f[i]]
      BY <2>1
    <3>2. DOMAIN f = DOMAIN ins
      BY <1>2
    <3>. HIDE DEF f
    <3>. QED
      BY <1>3, <3>1, <3>2
  <2>. HIDE DEF f
  <2>3. f = <<>> <=> DOMAIN f = {}
    BY <2>2
  <2>. QED
    BY <1>3, <2>2, <2>3 DEF f
<1>5. Tx!Encode(tx) =
        <<TxField("Version", <<>>)>>
          \o (IF Tx!uses_segwit_serialization(tx)
                THEN <<TxField("Inputs", <<>>), TxField("SegwitFlag", <<1>>)>>
                       \o <<TxField("Inputs", bare), TxField("Outputs", outs)>> \o fields
                ELSE <<TxField("Inputs", bare), TxField("Outputs", outs)>>)
          \o <<TxField("LockTime", <<>>)>>
  <2>. HIDE DEF tx
  <2>. QED
    BY ONLY <1>2, Zenon DEF Tx!Encode, TxField, bare, fields
<1>6. Tx!uses_segwit_serialization(tx)
        <=> ~(ins # <<>> /\ \A i \in DOMAIN ins : wits[i] = <<>>)
  <2>. HIDE DEF tx
  <2>. QED
    BY <1>1, <1>2, <1>4 DEF Tx!uses_segwit_serialization
<1>7. bare = ins
  <2>. HIDE DEF tx
  <2>1. bare = [i \in DOMAIN ins |-> bare[i]] /\ \A i \in DOMAIN ins : bare[i] = ins[i]
    BY <1>1, <1>2, <1>3
  <2>. QED
    BY ONLY <1>3, <2>1
<1>8. fields = [j \in DOMAIN ins |-> TxField("Witnesses", wits[j])]
  <2>. HIDE DEF tx
  <2>. QED
    BY <1>1, <1>2 DEF TxField
<1>. HIDE DEF tx, bare, fields
<1>9. CASE ins # <<>> /\ \A i \in DOMAIN ins : wits[i] = <<>>
  <2>1. Tx!Encode(tx) = PlainStream(ins, outs)
    BY ONLY <1>5, <1>6, <1>7, <1>9, PlainConcat, Zenon DEF PlainStream
  <2>. QED
    BY <1>9, <2>1 DEF tx
<1>10. CASE ~(ins # <<>> /\ \A i \in DOMAIN ins : wits[i] = <<>>)
  <2>. DEFINE a == TxField("Version", <<>>)
              b == TxField("Inputs", <<>>)
              c == TxField("SegwitFlag", <<1>>)
              d == TxField("Inputs", ins)
              e == TxField("Outputs", outs)
              l == TxField("LockTime", <<>>)
              S == {a, b, c, d, e, l} \cup {fields[j] : j \in DOMAIN ins}
  <2>1. fields \in Seq(S)
    <3>1. fields = [j \in 1..Len(ins) |-> fields[j]]
      BY <1>3, <1>8
    <3>2. \A j \in 1..Len(ins) : fields[j] \in S
      BY <1>3
    <3>. HIDE DEF S
    <3>. QED
      BY <1>3, <3>1, <3>2
  <2>2. Tx!Encode(tx) = <<a>> \o (<<b, c>> \o <<d, e>> \o fields) \o <<l>>
    BY ONLY <1>5, <1>6, <1>7, <1>10, Zenon DEF a, b, c, d, e, l
  <2>3. a \in S /\ b \in S /\ c \in S /\ d \in S /\ e \in S /\ l \in S
    OBVIOUS
  <2>. HIDE DEF a, b, c, d, e, l, S
  <2>4. Tx!Encode(tx) = <<a, b, c, d, e>> \o fields \o <<l>>
    <3>1. Grouped(a, b, c, d, e, l, fields)
      BY <2>1, <2>3, SegwitConcat
    <3>. QED
      BY ONLY <2>2, <3>1, Zenon DEF Grouped
  <2>5. Tx!Encode(tx) = SegwitStream(ins, outs, wits)
    BY ONLY <1>8, <2>4, Zenon DEF SegwitStream, a, b, c, d, e, l
  <2>. QED
    BY <1>10, <2>5 DEF tx
<1>. QED
  BY <1>9, <1>10

\* What is read once everything is read is a transaction, and the stream its encoding.
LEMMA ReadIsMade ==
  ASSUME Tx!TransactionAssumption, AllRead
  PROVE  \E ins \in InputLists, outs \in OutputLists : \E wits \in [DOMAIN ins -> Tx!Witnesses] :
           /\ inputs = [i \in DOMAIN ins |-> Tx!WithWitness(ins[i], wits[i])] /\ outputs = outs
           /\ stream = Tx!Encode(Made(ins, wits, outs))
<1>1. CASE IsPlain
  <2>1. PlainFields /\ inputs = Unwitnessed /\ outputs = stream[3].value
    BY <1>1, PlainHasFields, FormsDiffer DEF AllRead
  <2>2. PICK ins \in InputLists, outs \in OutputLists :
          ins = stream[2].value /\ outs = stream[3].value /\ ins # <<>>
    BY <2>1 DEF PlainFields
  <2>. DEFINE wits == [i \in DOMAIN ins |-> <<>>]
  <2>3. wits \in [DOMAIN ins -> Tx!Witnesses] /\ \A i \in DOMAIN ins : wits[i] = <<>>
    BY DEF Tx!Witnesses
  <2>4. inputs = [i \in DOMAIN ins |-> Tx!WithWitness(ins[i], wits[i])]
    BY <2>1, <2>2 DEF Unwitnessed
  <2>. HIDE DEF wits
  <2>5. stream = Tx!Encode(Made(ins, wits, outs))
    BY <2>1, <2>2, <2>3, MadeEncodes DEF PlainFields
  <2>. QED
    BY <2>1, <2>2, <2>3, <2>4, <2>5
<1>2. CASE IsSegwit
  <2>1. /\ SegwitFields /\ inputs = Filled(Len(segwitInputs)) /\ outputs = stream[5].value
        /\ segwitInputs = <<>> \/ \E i \in DOMAIN segwitInputs : segwitWitness(i) # <<>>
    BY <1>2, SegwitHasFields, FormsDiffer DEF AllRead
  <2>2. PICK ins \in InputLists, outs \in OutputLists :
          ins = segwitInputs /\ outs = stream[5].value
    BY <2>1 DEF SegwitFields
  <2>. DEFINE wits == [i \in DOMAIN ins |-> segwitWitness(i)]
  <2>3. DOMAIN ins = 1..Len(ins) /\ \A i \in DOMAIN ins : i <= Len(segwitInputs)
    BY <2>1, <2>2, ListsAreSequences DEF SegwitFields
  <2>4. wits \in [DOMAIN ins -> Tx!Witnesses] /\ \A i \in DOMAIN ins : wits[i] = segwitWitness(i)
    BY <2>1, <2>2, <2>3 DEF SegwitFields
  <2>5. inputs = [i \in DOMAIN ins |-> Tx!WithWitness(ins[i], wits[i])]
    BY <2>1, <2>2, <2>3 DEF Filled
  <2>6. stream = SegwitStream(ins, outs, wits)
    BY <2>1, <2>2 DEF SegwitFields
  <2>. HIDE DEF wits
  <2>7. stream = Tx!Encode(Made(ins, wits, outs))
    BY <2>1, <2>2, <2>4, <2>6, MadeEncodes
  <2>. QED
    BY <2>1, <2>2, <2>4, <2>5, <2>7
<1>. QED
  BY <1>1, <1>2 DEF AllRead

LEMMA EncodesBack ==
  ASSUME Tx!TransactionAssumption, TxProgress
  PROVE  Tx!DecodedEncodesBack
<1>. SUFFICES ASSUME phase = "ok"
              PROVE  Tx!Encode([inputs |-> inputs, outputs |-> outputs]) = stream
  BY DEF Tx!DecodedEncodesBack
<1>1. AllRead
  BY DEF TxProgress, AtLockTime
<1>. QED
  BY <1>1, ReadIsMade DEF Made

-----------------------------------------------------------------------------
(* The instances. *)

-----------------------------------------------------------------------------
(* Sums, up to each of the first numbers of a sequence.                     *)

IsSum(f, s, k) == f = [i \in 0..k |-> IF i = 0 THEN 0 ELSE f[i - 1] + s[i]]

LEMMA SumGoesOn ==
  ASSUME NEW s, NEW k \in Nat, NEW f, IsSum(f, s, k)
  PROVE  \E g : IsSum(g, s, k + 1)
<1>. DEFINE g == [i \in 0..(k + 1) |-> IF i = k + 1 THEN f[k] + s[k + 1] ELSE f[i]]
<1>1. \A i \in 0..k : f[i] = IF i = 0 THEN 0 ELSE f[i - 1] + s[i]
  BY Zenon DEF IsSum
<1>2. g[k + 1] = f[k] + s[k + 1] /\ \A i \in 0..k : g[i] = f[i]
  <2>1. k + 1 \in 0..(k + 1) /\ \A i \in 0..k : i \in 0..(k + 1) /\ i # k + 1
    OBVIOUS
  <2>. QED
    BY <2>1
<1>3. ASSUME NEW i \in 0..(k + 1)
      PROVE  g[i] = IF i = 0 THEN 0 ELSE g[i - 1] + s[i]
  <2>. HIDE DEF g
  <2>1. CASE i = k + 1
    <3>1. i # 0 /\ i - 1 = k /\ k \in 0..k
      BY <2>1
    <3>. QED
      BY <1>2, <2>1, <3>1
  <2>2. CASE i # k + 1
    <3>1. i \in 0..k /\ (i # 0 => i - 1 \in 0..k)
      BY <2>2
    <3>. QED
      BY <1>1, <1>2, <3>1
  <2>. QED
    BY <2>1, <2>2
<1>4. IsSum(g, s, k + 1)
  <2>1. g = [i \in 0..(k + 1) |-> g[i]]
    OBVIOUS
  <2>. HIDE DEF g
  <2>. QED
    BY <1>3, <2>1 DEF IsSum
<1>. QED
  BY <1>4

LEMMA SumExists ==
  ASSUME NEW s, NEW k \in Nat
  PROVE  \E f : IsSum(f, s, k)
<1>. DEFINE T == {j \in Nat : ~(\E f : IsSum(f, s, j))}
<1>. SUFFICES ASSUME T # {} PROVE FALSE
  OBVIOUS
<1>1. PICK j \in T : \A m \in T : j <= m
  <2>1. T \subseteq Nat
    OBVIOUS
  <2>. HIDE DEF T
  <2>. QED
    BY <2>1, LeastNumber
<1>2. j \in Nat /\ ~(\E f : IsSum(f, s, j))
  OBVIOUS
<1>3. j # 0
  <2>. SUFFICES ASSUME j = 0 PROVE FALSE
    OBVIOUS
  <2>. DEFINE f == [i \in 0..0 |-> 0]
  <2>1. f = [i \in 0..0 |-> IF i = 0 THEN 0 ELSE f[i - 1] + s[i]]
    OBVIOUS
  <2>. HIDE DEF f
  <2>2. IsSum(f, s, 0)
    BY <2>1 DEF IsSum
  <2>. QED
    BY <1>2, <2>2
<1>4. j - 1 \in Nat /\ (j - 1) + 1 = j /\ ~(j <= j - 1)
  BY <1>2, <1>3
<1>5. PICK f : IsSum(f, s, j - 1)
  BY <1>1, <1>4
<1>6. \E g : IsSum(g, s, (j - 1) + 1)
  BY <1>4, <1>5, SumGoesOn
<1>. QED
  BY <1>2, <1>4, <1>6

\* SumUpTo is the last of them.
LEMMA SumIsSum ==
  ASSUME NEW s, NEW k \in Nat
  PROVE  \E f : IsSum(f, s, k) /\ Tx!SumUpTo(s, k) = f[k]
<1>. DEFINE f == CHOOSE f : f = [i \in 0..k |-> IF i = 0 THEN 0 ELSE f[i - 1] + s[i]]
<1>1. \E g : g = [i \in 0..k |-> IF i = 0 THEN 0 ELSE g[i - 1] + s[i]]
  <2>1. PICK g : IsSum(g, s, k)
    BY SumExists
  <2>. QED
    BY <2>1, Zenon DEF IsSum
<1>2. IsSum(f, s, k)
  BY <1>1, Zenon DEF IsSum
<1>3. Tx!SumUpTo(s, k) = f[k]
  BY Zenon DEF Tx!SumUpTo
<1>. QED
  BY <1>2, <1>3

LEMMA SumsAgree ==
  ASSUME NEW s, NEW k \in Nat, NEW f, IsSum(f, s, k), NEW g, IsSum(g, s, k + 1)
  PROVE  f[k] = g[k]
<1>1. \A i \in 0..k : f[i] = IF i = 0 THEN 0 ELSE f[i - 1] + s[i]
  BY Zenon DEF IsSum
<1>2. \A i \in 0..(k + 1) : g[i] = IF i = 0 THEN 0 ELSE g[i - 1] + s[i]
  BY Zenon DEF IsSum
<1>. DEFINE T == {i \in 0..k : f[i] # g[i]}
<1>. SUFFICES ASSUME T # {} PROVE FALSE
  <2>1. k \in 0..k
    OBVIOUS
  <2>. QED
    BY <2>1
<1>3. PICK i \in T : \A m \in T : i <= m
  <2>1. T \subseteq Nat
    <3>1. \A m \in 0..k : m \in Nat
      OBVIOUS
    <3>. QED
      BY <3>1, Zenon
  <2>. HIDE DEF T
  <2>. QED
    BY <2>1, LeastNumber
<1>4. i \in 0..k /\ f[i] # g[i] /\ i \in 0..(k + 1)
  OBVIOUS
<1>5. CASE i = 0
  BY <1>1, <1>2, <1>4, <1>5
<1>6. CASE i # 0
  <2>1. i - 1 \in 0..k /\ ~(i <= i - 1)
    BY <1>4, <1>6
  <2>2. f[i - 1] = g[i - 1]
    BY <1>3, <2>1
  <2>3. f[i] = f[i - 1] + s[i] /\ g[i] = g[i - 1] + s[i]
    BY <1>1, <1>2, <1>4, <1>6
  <2>. QED
    BY <1>4, <2>2, <2>3
<1>. QED
  BY <1>5, <1>6

LEMMA SumStarts == ASSUME NEW s PROVE Tx!SumUpTo(s, 0) = 0
<1>1. PICK f : IsSum(f, s, 0) /\ Tx!SumUpTo(s, 0) = f[0]
  BY SumIsSum
<1>2. 0 \in 0..0
  OBVIOUS
<1>3. f[0] = 0
  BY <1>1, <1>2, Zenon DEF IsSum
<1>. QED
  BY <1>1, <1>3

LEMMA SumNext ==
  ASSUME NEW s, NEW k \in Nat
  PROVE  Tx!SumUpTo(s, k + 1) = Tx!SumUpTo(s, k) + s[k + 1]
<1>1. PICK f : IsSum(f, s, k) /\ Tx!SumUpTo(s, k) = f[k]
  BY SumIsSum
<1>2. PICK g : IsSum(g, s, k + 1) /\ Tx!SumUpTo(s, k + 1) = g[k + 1]
  BY SumIsSum
<1>3. f[k] = g[k]
  BY <1>1, <1>2, SumsAgree
<1>4. k + 1 \in 0..(k + 1) /\ k + 1 # 0 /\ (k + 1) - 1 = k
  OBVIOUS
<1>5. g[k + 1] = g[(k + 1) - 1] + s[k + 1]
  BY ONLY <1>2, <1>4, Zenon DEF IsSum
<1>. QED
  BY <1>1, <1>2, <1>3, <1>4, <1>5

\* Sums of natural numbers grow.
LEMMA SumsGrow ==
  ASSUME NEW s, NEW l \in Nat, \A i \in 1..l : s[i] \in Nat
  PROVE  \A k \in 0..l : /\ Tx!SumUpTo(s, k) \in Nat
                         /\ \A j \in 0..k : Tx!SumUpTo(s, j) <= Tx!SumUpTo(s, k)
<1>. DEFINE Good(k) == /\ Tx!SumUpTo(s, k) \in Nat
                       /\ \A j \in 0..k : Tx!SumUpTo(s, j) <= Tx!SumUpTo(s, k)
            T == {k \in 0..l : ~Good(k)}
<1>. SUFFICES ASSUME T # {} PROVE FALSE
  OBVIOUS
<1>1. PICK k \in T : \A m \in T : k <= m
  <2>1. T \subseteq Nat
    <3>1. \A m \in 0..l : m \in Nat
      OBVIOUS
    <3>. HIDE DEF Good
    <3>. QED
      BY <3>1, Zenon
  <2>. HIDE DEF T
  <2>. QED
    BY <2>1, LeastNumber
<1>2. k \in 0..l /\ ~Good(k)
  OBVIOUS
<1>. HIDE DEF T, Good
<1>3. CASE k = 0
  <2>1. \A j \in 0..0 : j = 0
    OBVIOUS
  <2>. QED
    BY <1>2, <1>3, <2>1, SumStarts DEF Good
<1>4. CASE k # 0
  <2>1. PICK p \in Nat : k = p + 1 /\ p \in 0..l /\ p + 1 \in 1..l /\ ~(k <= p)
    <3>1. k - 1 \in Nat /\ k = (k - 1) + 1 /\ k - 1 \in 0..l /\ (k - 1) + 1 \in 1..l /\ ~(k <= k - 1)
      BY <1>2, <1>4
    <3>. QED
      BY <3>1
  <2>2. Good(p)
    BY <1>1, <2>1 DEF T
  <2>3. PICK a \in Nat, b \in Nat :
          a = Tx!SumUpTo(s, p) /\ b = s[p + 1] /\ Tx!SumUpTo(s, p + 1) = a + b
    BY <2>1, <2>2, SumNext DEF Good
  <2>4. \A j \in 0..p : Tx!SumUpTo(s, j) \in Int /\ Tx!SumUpTo(s, j) <= a
    <3>. TAKE j \in 0..p
    <3>1. j \in 0..l /\ ~(k <= j)
      BY <2>1
    <3>2. Good(j)
      BY <1>1, <3>1 DEF T
    <3>. QED
      BY <2>2, <2>3, <3>2 DEF Good
  <2>5. \A j \in 0..(p + 1) : j \in 0..p \/ j = p + 1
    BY <2>1
  <2>6. \A j \in 0..(p + 1) : Tx!SumUpTo(s, j) <= a + b
    <3>. TAKE j \in 0..(p + 1)
    <3>1. CASE j \in 0..p
      <4>1. PICK c \in Int : c = Tx!SumUpTo(s, j) /\ c <= a
        BY <2>4, <3>1
      <4>. QED
        BY ONLY <2>3, <4>1
    <3>2. CASE j = p + 1
      BY ONLY <2>3, <3>2
    <3>. QED
      BY <2>5, <3>1, <3>2
  <2>7. a + b \in Nat
    BY ONLY <2>3
  <2>8. Good(p + 1)
    BY ONLY <2>3, <2>6, <2>7, Zenon DEF Good
  <2>. QED
    BY <1>2, <2>1, <2>8
<1>. QED
  BY <1>3, <1>4

-----------------------------------------------------------------------------
(* TransactionDecoder: the places of the fields in the stream.              *)

\* A stream has fields, and each of them has bytes.
LEMMA FieldsHaveBytes ==
  ASSUME Tx!TransactionAssumption, IsPlain \/ stream = BadFlagStream \/ IsSegwit
  PROVE  /\ Len(stream) \in Nat \ {0} /\ DOMAIN stream = 1..Len(stream)
         /\ \A i \in 1..Len(stream) : Tx!Size(stream[i]) \in Nat \ {0}
<1>1. ASSUME NEW value, Len(value) \in Nat, NEW kind
      PROVE  Tx!Size(TxField(kind, value)) \in Nat \ {0}
  BY <1>1 DEF Tx!Size, TxField, Tx!Field
<1>2. /\ Len(<<>>) \in Nat /\ Len(<<0>>) \in Nat /\ Len(<<1>>) \in Nat
      /\ \A w \in Tx!Witnesses : Len(w) \in Nat
      /\ \A v \in InputLists \cup OutputLists : Len(v) \in Nat
  BY ListsAreSequences DEF Tx!Witnesses
<1>3. CASE IsPlain
  <2>1. PlainFields
    BY <1>3, PlainHasFields
  <2>2. ASSUME NEW i \in 1..4 PROVE \E kind, value : stream[i] = TxField(kind, value) /\ Len(value) \in Nat
    <3>1. i = 1 \/ i = 2 \/ i = 3 \/ i = 4
      OBVIOUS
    <3>. QED
      BY <1>2, <2>1, <3>1 DEF PlainFields
  <2>3. \A i \in 1..4 : Tx!Size(stream[i]) \in Nat \ {0}
    BY <1>1, <2>2
  <2>. QED
    BY <2>1, <2>3 DEF PlainFields
<1>4. CASE stream = BadFlagStream
  <2>1. BadFlagFields
    BY <1>4, BadFlagHasFields
  <2>2. ASSUME NEW i \in 1..4 PROVE \E kind, value : stream[i] = TxField(kind, value) /\ Len(value) \in Nat
    <3>1. i = 1 \/ i = 2 \/ i = 3 \/ i = 4
      OBVIOUS
    <3>. QED
      BY <1>2, <2>1, <3>1 DEF BadFlagFields
  <2>3. \A i \in 1..4 : Tx!Size(stream[i]) \in Nat \ {0}
    BY <1>1, <2>2
  <2>. QED
    BY <2>1, <2>3 DEF BadFlagFields
<1>5. CASE IsSegwit
  <2>1. SegwitFields
    BY <1>5, SegwitHasFields
  <2>2. PICK m \in Nat : m = Len(segwitInputs) /\ Len(stream) = 6 + m
    BY <2>1 DEF SegwitFields
  <2>3. ASSUME NEW i \in 1..(6 + m)
        PROVE  \E kind, value : stream[i] = TxField(kind, value) /\ Len(value) \in Nat
    <3>1. i \in 1..5 \/ (i - 5 \in 1..m /\ i = 5 + (i - 5)) \/ i = 6 + m
      OBVIOUS
    <3>2. CASE i \in 1..5
      <4>1. i = 1 \/ i = 2 \/ i = 3 \/ i = 4 \/ i = 5
        BY <3>2
      <4>. QED
        BY <1>2, <2>1, <4>1 DEF SegwitFields
    <3>3. CASE i - 5 \in 1..m /\ i = 5 + (i - 5)
      <4>1. /\ stream[5 + (i - 5)] = TxField("Witnesses", segwitWitness(i - 5))
            /\ segwitWitness(i - 5) \in Tx!Witnesses
        BY <2>1, <2>2, <3>3, Zenon DEF SegwitFields
      <4>. QED
        BY <1>2, <3>3, <4>1
    <3>4. CASE i = 6 + m
      BY <1>2, <2>1, <2>2, <3>4 DEF SegwitFields
    <3>. QED
      BY <3>1, <3>2, <3>3, <3>4
  <2>4. \A i \in 1..(6 + m) : Tx!Size(stream[i]) \in Nat \ {0}
    BY <1>1, <2>3
  <2>. QED
    BY <2>1, <2>2, <2>4 DEF SegwitFields
<1>. QED
  BY <1>3, <1>4, <1>5

LEMMA BeforeGrows ==
  ASSUME Tx!TransactionAssumption, IsPlain \/ stream = BadFlagStream \/ IsSegwit
  PROVE  /\ Tx!Before(1) = 0
         /\ \A k \in 1..(Len(stream) + 1) : /\ Tx!Before(k) \in Nat
                                            /\ \A j \in 1..k : Tx!Before(j) <= Tx!Before(k)
         /\ \A k \in 1..Len(stream) : Tx!Before(k + 1) = Tx!Before(k) + Tx!Size(stream[k])
<1>. DEFINE s == [i \in DOMAIN stream |-> Tx!Size(stream[i])]
<1>1. PICK l \in Nat : /\ l = Len(stream) /\ DOMAIN stream = 1..l
                       /\ \A i \in 1..l : Tx!Size(stream[i]) \in Nat
  BY FieldsHaveBytes
<1>2. \A i \in 1..l : s[i] \in Nat /\ s[i] = Tx!Size(stream[i])
  BY <1>1
<1>3. \A k : Tx!Before(k) = Tx!SumUpTo(s, k - 1)
  BY Zenon DEF Tx!Before
<1>. HIDE DEF s
<1>4. \A k \in 0..l : /\ Tx!SumUpTo(s, k) \in Nat
                      /\ \A j \in 0..k : Tx!SumUpTo(s, j) <= Tx!SumUpTo(s, k)
  BY <1>2, SumsGrow
<1>5. Tx!Before(1) = 0
  <2>1. 1 - 1 = 0
    OBVIOUS
  <2>. QED
    BY <1>3, <2>1, SumStarts
<1>6. ASSUME NEW k \in 1..(l + 1)
      PROVE  Tx!Before(k) \in Nat /\ \A j \in 1..k : Tx!Before(j) <= Tx!Before(k)
  <2>1. k - 1 \in 0..l /\ \A j \in 1..k : j - 1 \in 0..(k - 1)
    OBVIOUS
  <2>. QED
    BY ONLY <1>3, <1>4, <2>1
<1>7. ASSUME NEW k \in 1..l
      PROVE  Tx!Before(k + 1) = Tx!Before(k) + Tx!Size(stream[k])
  <2>1. k - 1 \in Nat /\ (k - 1) + 1 = k /\ (k + 1) - 1 = k
    OBVIOUS
  <2>2. Tx!SumUpTo(s, (k - 1) + 1) = Tx!SumUpTo(s, k - 1) + s[(k - 1) + 1]
    BY <2>1, SumNext
  <2>. QED
    BY ONLY <1>2, <1>3, <2>1, <2>2, k \in 1..l
<1>. QED
  BY <1>1, <1>5, <1>6, <1>7

\* The place of the field whose decoder rejects the stream, or of the last one.
LastRead == Tx!Min(Tx!Stops \cup {Len(stream)})

LEMMA StopsAre ==
  ASSUME Tx!TransactionAssumption, IsPlain \/ stream = BadFlagStream \/ IsSegwit
  PROVE  /\ LastRead \in 1..Len(stream) /\ Tx!Total = Tx!Before(1 + LastRead)
         /\ Tx!Stops = {} => LastRead = Len(stream)
         /\ Tx!Stops # {} => LastRead \in Tx!Stops
         /\ \A k \in 1..LastRead : k < LastRead => k \notin Tx!Stops
         /\ \A k \in Tx!Stops : k \in 1..Len(stream) /\ LastRead <= k
         /\ Tx!Total \in Nat /\ Tx!Total > 0
<1>1. PICK l \in Nat \ {0} : /\ l = Len(stream) /\ DOMAIN stream = 1..l
                             /\ \A i \in 1..l : Tx!Size(stream[i]) \in Nat \ {0}
  BY FieldsHaveBytes
<1>2. Tx!Stops \subseteq 1..l
  BY <1>1 DEF Tx!Stops
<1>. DEFINE S == Tx!Stops \cup {Len(stream)}
<1>3. S \subseteq 1..l /\ S \subseteq Nat /\ S # {} /\ l \in S
  <2>1. \A i \in 1..l : i \in Nat
    BY <1>1
  <2>2. l \in 1..l
    BY <1>1
  <2>. QED
    BY <1>1, <1>2, <2>1, <2>2
<1>4. LastRead = CHOOSE x \in S : \A y \in S : x <= y
  BY Zenon DEF LastRead, Tx!Min
<1>. HIDE DEF S
<1>5. LastRead \in S /\ \A y \in S : LastRead <= y
  <2>1. \E x \in S : \A y \in S : x <= y
    BY <1>3, LeastNumber
  <2>. QED
    BY <1>4, <2>1, Zenon
<1>6. Tx!Total = Tx!Before(1 + LastRead)
  BY Zenon DEF Tx!Total, LastRead
<1>7. PICK r \in 1..l : r = LastRead
  BY <1>3, <1>5
<1>8. Tx!Stops = {} => LastRead = Len(stream)
  BY <1>5 DEF S
<1>9. Tx!Stops # {} => LastRead \in Tx!Stops
  <2>. SUFFICES ASSUME Tx!Stops # {}, LastRead \notin Tx!Stops PROVE FALSE
    OBVIOUS
  <2>1. r = l
    BY <1>1, <1>5, <1>7 DEF S
  <2>2. PICK k : k \in Tx!Stops
    OBVIOUS
  <2>3. k \in 1..l /\ r <= k
    BY <1>2, <1>5, <1>7, <2>2 DEF S
  <2>4. k = r
    BY <2>1, <2>3
  <2>. QED
    BY <1>7, <2>2, <2>4
<1>10. \A k \in Tx!Stops : k \in 1..l /\ LastRead <= k
  BY <1>2, <1>5 DEF S
<1>11. \A k \in 1..LastRead : k < LastRead => k \notin Tx!Stops
  <2>. SUFFICES ASSUME NEW k \in 1..LastRead, k < LastRead, k \in Tx!Stops PROVE FALSE
    OBVIOUS
  <2>1. k \in 1..l /\ r <= k /\ k < r
    BY <1>7, <1>10
  <2>. QED
    BY ONLY <2>1, r \in 1..l
<1>12. Tx!Total \in Nat /\ Tx!Total > 0
  <2>1. Tx!Before(r + 1) = Tx!Before(r) + Tx!Size(stream[r]) /\ Tx!Before(r) \in Nat
    <3>1. r \in 1..(l + 1)
      BY <1>1
    <3>. QED
      BY <1>1, <3>1, BeforeGrows
  <2>2. PICK b \in Nat, z \in Nat \ {0} : Tx!Before(r + 1) = b + z
    BY <1>1, <2>1
  <2>3. 1 + LastRead = r + 1
    BY <1>7
  <2>. QED
    BY ONLY <1>6, <2>2, <2>3
<1>. QED
  BY <1>1, <1>5, <1>6, <1>7, <1>8, <1>9, <1>10, <1>11, <1>12

-----------------------------------------------------------------------------
(* TransactionDecoder: what end accepts and what is an encoding.            *)

\* A segwit serialization without any witness.
Superfluous ==
  /\ IsSegwit /\ segwitInputs # <<>>
  /\ \A j \in 1..Len(segwitInputs) : segwitWitness(j) = <<>>

LEMMA StopIs ==
  ASSUME Tx!TransactionAssumption, IsPlain \/ stream = BadFlagStream \/ IsSegwit,
         NEW k \in 1..Len(stream)
  PROVE  k \in Tx!Stops <=> \/ k = badAt
                            \/ stream = BadFlagStream /\ k = 3
                            \/ Superfluous /\ k = Len(stream) - 1
<1>1. \A kind, value : TxField(kind, value).kind = kind /\ TxField(kind, value).value = value
  BY DEF TxField, Tx!Field
<1>2. DOMAIN stream = 1..Len(stream) /\ Len(stream) \in Nat
  BY FieldsHaveBytes
<1>3. <<0>> # <<1>>
  <2>1. <<0>>[1] # <<1>>[1]
    OBVIOUS
  <2>. QED
    BY <2>1
<1>. DEFINE Flag == stream[k].kind = "SegwitFlag" /\ stream[k].value # <<1>>
            Bare == /\ k = Len(stream) - 1 /\ stream[k].kind = "Witnesses"
                    /\ \A i \in DOMAIN stream : stream[i].kind = "Witnesses" => stream[i].value = <<>>
<1>4. k \in Tx!Stops <=> k = badAt \/ Flag \/ Bare
  BY <1>2 DEF Tx!Stops
<1>5. CASE IsPlain
  <2>1. PlainFields /\ ~Superfluous /\ stream # BadFlagStream
    BY <1>5, PlainHasFields, FormsDiffer DEF Superfluous
  <2>2. k = 1 \/ k = 2 \/ k = 3 \/ k = 4
    BY <2>1 DEF PlainFields
  <2>3. ~Flag /\ ~Bare
    BY <1>1, <2>1, <2>2 DEF PlainFields
  <2>. QED
    BY <1>4, <2>1, <2>3
<1>6. CASE stream = BadFlagStream
  <2>1. BadFlagFields /\ ~Superfluous
    BY <1>6, BadFlagHasFields, FormsDiffer DEF Superfluous
  <2>2. k = 1 \/ k = 2 \/ k = 3 \/ k = 4
    BY <2>1 DEF BadFlagFields
  <2>3. ~Bare /\ (Flag <=> k = 3)
    BY <1>1, <1>3, <2>1, <2>2 DEF BadFlagFields
  <2>. QED
    BY <1>4, <1>6, <2>1, <2>3
<1>7. CASE IsSegwit
  <2>1. SegwitFields /\ stream # BadFlagStream
    BY <1>7, SegwitHasFields, FormsDiffer
  <2>2. PICK m \in Nat : m = Len(segwitInputs) /\ Len(stream) = 6 + m
    BY <2>1 DEF SegwitFields
  <2>3. /\ m = 0 <=> segwitInputs = <<>>
    <3>1. m = 0 <=> 1..m = {}
      <4>1. m # 0 => 1 \in 1..m
        BY <2>2
      <4>. QED
        BY <4>1
    <3>. QED
      BY <2>1, <2>2, <3>1, ListsAreSequences DEF SegwitFields
  <2>4. /\ \A i \in 1..(6 + m) : stream[i].kind = "Witnesses" <=> i - 5 \in 1..m
        /\ \A i \in 1..(6 + m) : stream[i].kind = "SegwitFlag" <=> i = 3
        /\ stream[3].value = <<1>>
        /\ \A j \in 1..m : stream[5 + j].value = segwitWitness(j)
    <3>1. ASSUME NEW i \in 1..(6 + m)
          PROVE  /\ stream[i].kind = "Witnesses" <=> i - 5 \in 1..m
                 /\ stream[i].kind = "SegwitFlag" <=> i = 3
      <4>1. \/ i = 1 \/ i = 2 \/ i = 3 \/ i = 4 \/ i = 5 \/ i = 6 + m
            \/ i - 5 \in 1..m /\ i = 5 + (i - 5) /\ i # 3
        OBVIOUS
      <4>2. CASE i - 5 \in 1..m /\ i = 5 + (i - 5) /\ i # 3
        <5>1. stream[5 + (i - 5)] = TxField("Witnesses", segwitWitness(i - 5))
          BY <2>1, <2>2, <4>2, Zenon DEF SegwitFields
        <5>2. stream[i].kind = "Witnesses"
          BY <1>1, <4>2, <5>1
        <5>. QED
          BY <4>2, <5>2
      <4>3. CASE i = 6 + m
        <5>1. stream[i].kind = "LockTime" /\ i - 5 \notin 1..m /\ i # 3
          BY <1>1, <2>1, <2>2, <4>3 DEF SegwitFields
        <5>. QED
          BY <5>1
      <4>4. CASE i = 1 \/ i = 2 \/ i = 3 \/ i = 4 \/ i = 5
        <5>1. i - 5 \notin 1..m
          BY <4>4
        <5>. QED
          BY <1>1, <2>1, <4>4, <5>1 DEF SegwitFields
      <4>. QED
        BY <4>1, <4>2, <4>3, <4>4
    <3>2. stream[3].value = <<1>>
      BY <1>1, <2>1 DEF SegwitFields
    <3>3. \A j \in 1..m : stream[5 + j].value = segwitWitness(j)
      BY <1>1, <2>1, <2>2 DEF SegwitFields
    <3>. QED
      BY <3>1, <3>2, <3>3
  <2>5. ~Flag
    BY <2>2, <2>4
  <2>6. ASSUME Bare PROVE Superfluous /\ k = Len(stream) - 1
    <3>1. k - 5 \in 1..m
      BY <2>2, <2>4, <2>6
    <3>2. segwitInputs # <<>>
      BY <2>3, <3>1
    <3>3. \A j \in 1..m : segwitWitness(j) = <<>>
      <4>. TAKE j \in 1..m
      <4>1. 5 + j \in 1..(6 + m) /\ (5 + j) - 5 \in 1..m
        OBVIOUS
      <4>2. stream[5 + j].kind = "Witnesses"
        BY <2>4, <4>1
      <4>3. 5 + j \in DOMAIN stream
        BY <1>2, <2>2, <4>1
      <4>. QED
        BY <2>4, <2>6, <4>2, <4>3
    <3>. QED
      BY <1>7, <2>2, <2>6, <3>2, <3>3 DEF Superfluous
  <2>7. ASSUME Superfluous, k = Len(stream) - 1 PROVE Bare
    <3>1. m # 0 /\ k - 5 \in 1..m
      BY <2>2, <2>3, <2>7 DEF Superfluous
    <3>2. stream[k].kind = "Witnesses"
      BY <2>2, <2>4, <3>1
    <3>3. ASSUME NEW i \in DOMAIN stream, stream[i].kind = "Witnesses" PROVE stream[i].value = <<>>
      <4>1. i \in 1..(6 + m) /\ i - 5 \in 1..m /\ i = 5 + (i - 5)
        BY <1>2, <2>2, <2>4, <3>3
      <4>2. stream[5 + (i - 5)].value = segwitWitness(i - 5)
        BY <2>4, <4>1
      <4>3. segwitWitness(i - 5) = <<>>
        BY <2>2, <2>7, <4>1 DEF Superfluous
      <4>. QED
        BY <4>1, <4>2, <4>3
    <3>. QED
      BY <2>7, <3>2, <3>3
  <2>. HIDE DEF Flag, Bare
  <2>. QED
    BY <1>4, <2>1, <2>5, <2>6, <2>7
<1>. QED
  BY <1>5, <1>6, <1>7

\* A stream has at most one transaction it is the encoding of.
LEMMA MadeIsUnique ==
  ASSUME Tx!TransactionAssumption,
         NEW ins \in InputLists, NEW outs \in OutputLists, NEW wits \in [DOMAIN ins -> Tx!Witnesses],
         NEW ins2 \in InputLists, NEW outs2 \in OutputLists, NEW wits2 \in [DOMAIN ins2 -> Tx!Witnesses],
         stream = Tx!Encode(Made(ins, wits, outs)), stream = Tx!Encode(Made(ins2, wits2, outs2))
  PROVE  Made(ins, wits, outs) = Made(ins2, wits2, outs2)
<1>. DEFINE plain(i, w) == i # <<>> /\ \A j \in DOMAIN i : w[j] = <<>>
<1>1. /\ stream = IF plain(ins, wits) THEN PlainStream(ins, outs) ELSE SegwitStream(ins, outs, wits)
      /\ stream = IF plain(ins2, wits2) THEN PlainStream(ins2, outs2) ELSE SegwitStream(ins2, outs2, wits2)
  BY MadeEncodes
<1>2. /\ plain(ins, wits) => IsPlain
      /\ ~plain(ins, wits) => IsSegwit
      /\ plain(ins2, wits2) => IsPlain
      /\ ~plain(ins2, wits2) => IsSegwit
  BY <1>1 DEF IsPlain, IsSegwit
<1>3. CASE IsPlain
  <2>1. plain(ins, wits) /\ plain(ins2, wits2)
    BY <1>2, <1>3, FormsDiffer
  <2>2. stream = PlainStream(ins, outs) /\ stream = PlainStream(ins2, outs2)
    BY <1>1, <2>1
  <2>3. ins = ins2 /\ outs = outs2
    <3>1. /\ PlainStream(ins, outs)[2].value = ins /\ PlainStream(ins, outs)[3].value = outs
          /\ PlainStream(ins2, outs2)[2].value = ins2 /\ PlainStream(ins2, outs2)[3].value = outs2
      BY DEF PlainStream, TxField, Tx!Field
    <3>. QED
      BY ONLY <2>2, <3>1
  <2>4. wits = wits2
    <3>1. wits = [j \in DOMAIN ins |-> wits[j]] /\ wits2 = [j \in DOMAIN ins |-> wits2[j]]
      BY <2>3
    <3>2. \A j \in DOMAIN ins : wits[j] = wits2[j]
      BY <2>1, <2>3
    <3>. QED
      BY <3>1, <3>2
  <2>. QED
    BY <2>3, <2>4
<1>4. CASE IsSegwit
  <2>1. ~plain(ins, wits) /\ ~plain(ins2, wits2)
    BY <1>2, <1>4, FormsDiffer
  <2>2. stream = SegwitStream(ins, outs, wits) /\ stream = SegwitStream(ins2, outs2, wits2)
    BY <1>1, <2>1
  <2>3. /\ segwitInputs = ins /\ stream[5].value = outs
        /\ wits = [j \in DOMAIN segwitInputs |-> segwitWitness(j)]
    BY <2>2, SegwitPlaces
  <2>4. /\ segwitInputs = ins2 /\ stream[5].value = outs2
        /\ wits2 = [j \in DOMAIN segwitInputs |-> segwitWitness(j)]
    BY <2>2, SegwitPlaces
  <2>. QED
    BY <2>3, <2>4
<1>. QED
  BY <1>2, <1>3, <1>4

LEMMA TxsAreMade ==
  \A t : t \in Tx!Txs <=>
    \E ins \in InputLists, outs \in OutputLists :
      \E wits \in [DOMAIN ins -> Tx!Witnesses] : t = Made(ins, wits, outs)
<1>. DEFINE S(ins) == {Made(ins, w, outs) : w \in [DOMAIN ins -> Tx!Witnesses], outs \in OutputLists}
<1>1. Tx!Txs = UNION {S(ins) : ins \in InputLists}
  BY DEF Tx!Txs, Made
<1>2. ASSUME NEW t, NEW ins
      PROVE  t \in S(ins) <=> \E outs \in OutputLists :
               \E wits \in [DOMAIN ins -> Tx!Witnesses] : t = Made(ins, wits, outs)
  OBVIOUS
<1>. HIDE DEF S
<1>3. ASSUME NEW t
      PROVE  t \in Tx!Txs <=> \E ins \in InputLists : t \in S(ins)
  BY <1>1
<1>4. ASSUME NEW t
      PROVE  t \in Tx!Txs <=>
               \E ins \in InputLists : \E outs \in OutputLists :
                 \E wits \in [DOMAIN ins -> Tx!Witnesses] : t = Made(ins, wits, outs)
  BY <1>2, <1>3
<1>. QED
  BY <1>4

\* The encoding of a transaction is not rejected on the way.
LEMMA EncodingsPass ==
  ASSUME Tx!TransactionAssumption, badAt = 0, stream \in Tx!Encodings
  PROVE  Tx!Stops = {} /\ (IsPlain \/ IsSegwit)
<1>1. PICK t \in Tx!Txs : stream = Tx!Encode(t)
  BY DEF Tx!Encodings
<1>2. PICK ins \in InputLists, outs \in OutputLists :
        \E w \in [DOMAIN ins -> Tx!Witnesses] : t = Made(ins, w, outs)
  BY <1>1, TxsAreMade
<1>3. PICK w \in [DOMAIN ins -> Tx!Witnesses] : t = Made(ins, w, outs)
  BY <1>2
<1>. DEFINE plain == ins # <<>> /\ \A j \in DOMAIN ins : w[j] = <<>>
<1>4. stream = IF plain THEN PlainStream(ins, outs) ELSE SegwitStream(ins, outs, w)
  BY <1>1, <1>3, MadeEncodes
<1>5. (plain => IsPlain) /\ (~plain => IsSegwit)
  BY <1>4 DEF IsPlain, IsSegwit
<1>6. stream # BadFlagStream
  BY <1>5, FormsDiffer
<1>7. ~Superfluous
  <2>. SUFFICES ASSUME Superfluous PROVE FALSE
    OBVIOUS
  <2>1. ~plain
    BY <1>5, FormsDiffer DEF Superfluous
  <2>2. /\ segwitInputs = ins /\ SegwitFields
        /\ w = [j \in DOMAIN segwitInputs |-> segwitWitness(j)]
    BY <1>4, <2>1, SegwitPlaces
  <2>3. DOMAIN ins = 1..Len(ins)
    BY ListsAreSequences
  <2>4. plain
    BY <2>2, <2>3 DEF Superfluous
  <2>. QED
    BY <2>1, <2>4
<1>8. DOMAIN stream = 1..Len(stream)
  BY <1>5, FieldsHaveBytes
<1>9. \A k \in 1..Len(stream) : k \notin Tx!Stops
  <2>1. \A k \in 1..Len(stream) : k # 0
    OBVIOUS
  <2>. QED
    BY <1>5, <1>6, <1>7, <2>1, StopIs
<1>10. Tx!Stops \subseteq DOMAIN stream
  BY DEF Tx!Stops
<1>. QED
  BY <1>5, <1>8, <1>9, <1>10

LEMMA SameCardinality == \A S : Tx!Cardinality(S) = Cardinality(S)
BY Zenon DEF Tx!Cardinality, Cardinality

\* The checks of end are those of the consensus rules.
LEMMA RejectedIsInvalid ==
  ASSUME Tx!TransactionAssumption,
         NEW ins \in InputLists, NEW outs \in OutputLists, NEW wits \in [DOMAIN ins -> Tx!Witnesses],
         NEW xs, xs = [i \in DOMAIN ins |-> Tx!WithWitness(ins[i], wits[i])]
  PROVE  Tx!Valid(Made(ins, wits, outs)) <=> ~Tx!TxRejected(xs, outs)
<1>. DEFINE tx == Made(ins, wits, outs)
            T == {xs[i].prevout : i \in DOMAIN xs}
<1>1. tx.inputs = xs /\ tx.outputs = outs
  BY DEF Made
<1>2. PICK l \in Nat : /\ l = Len(ins) /\ DOMAIN ins = 1..l /\ DOMAIN xs = 1..l
                       /\ xs = [i \in 1..l |-> xs[i]]
  BY ListsAreSequences
<1>3. \A i \in 1..l : xs[i].script \in Nat
  <2>1. \A i \in DOMAIN ins : ins[i].script \in Nat
    BY DEF Tx!TransactionAssumption
  <2>. QED
    BY <1>2, <2>1 DEF Tx!WithWitness
<1>4. Len(xs) = l
  BY <1>2
<1>5. Cardinality(T) = l <=> \A i, j \in 1..l : i # j => xs[i].prevout # xs[j].prevout
  <2>. DEFINE f == [i \in 1..l |-> xs[i].prevout]
  <2>1. f \in Surjection(1..l, T)
    BY <1>2 DEF Surjection
  <2>2. IsFiniteSet(1..l) /\ Cardinality(1..l) = l
    <3>1. 1 \in Int /\ l \in Int /\ (1 > l => l = 0) /\ l - 1 + 1 = l
      OBVIOUS
    <3>2. IsFiniteSet(1..l) /\ Cardinality(1..l) = IF 1 > l THEN 0 ELSE l - 1 + 1
      BY ONLY <3>1, FS_Interval
    <3>. QED
      BY <3>1, <3>2
  <2>3. Cardinality(T) = Cardinality(1..l) <=> f \in Injection(1..l, T)
    BY ONLY <2>1, <2>2, FS_Surjection
  <2>4. f \in [1..l -> T] /\ \A i \in 1..l : f[i] = xs[i].prevout
    BY <1>2
  <2>5. f \in Injection(1..l, T) <=> \A i, j \in 1..l : f[i] = f[j] => i = j
    <3>. HIDE DEF f
    <3>. QED
      BY <2>4 DEF Injection, IsInjective
  <2>6. Cardinality(T) = l <=> \A i, j \in 1..l : f[i] = f[j] => i = j
    <3>. HIDE DEF f, T
    <3>. QED
      BY ONLY <2>2, <2>3, <2>5, Zenon
  <2>. HIDE DEF f, T
  <2>. QED
    BY ONLY <2>4, <2>6, Zenon
<1>6. Tx!SumUpTo(outs, Len(outs)) <= MAX_MONEY
        <=> \A k \in DOMAIN outs : ~(Tx!SumUpTo(outs, k) > MAX_MONEY)
  <2>1. PICK n0 \in Nat, mx \in Nat :
          n0 = Len(outs) /\ DOMAIN outs = 1..n0 /\ mx = MAX_MONEY /\ \A i \in 1..n0 : outs[i] \in Nat
    <3>1. outs \in Seq(0..MAX_MONEY) /\ MAX_MONEY \in Nat
      BY DEF Tx!TransactionAssumption
    <3>2. \A i \in DOMAIN outs : outs[i] \in 0..MAX_MONEY
      BY <3>1
    <3>. QED
      BY <3>1, <3>2, LenProperties
  <2>2. \A k \in 0..n0 : /\ Tx!SumUpTo(outs, k) \in Nat
                         /\ \A j \in 0..k : Tx!SumUpTo(outs, j) <= Tx!SumUpTo(outs, k)
    BY <2>1, SumsGrow
  <2>3. CASE n0 = 0
    <3>1. Tx!SumUpTo(outs, n0) = 0
      BY <2>3, SumStarts
    <3>2. DOMAIN outs = {}
      BY <2>1, <2>3
    <3>3. 0 <= mx
      BY <2>1
    <3>. QED
      BY <2>1, <3>1, <3>2, <3>3
  <2>4. CASE n0 # 0
    <3>1. n0 \in 1..n0 /\ n0 \in 0..n0 /\ \A k \in 1..n0 : k \in 0..n0
      BY <2>1, <2>4
    <3>2. PICK whole_ \in Nat : whole_ = Tx!SumUpTo(outs, n0)
      BY <2>2, <3>1
    <3>3. \A k \in 1..n0 : Tx!SumUpTo(outs, k) \in Nat /\ Tx!SumUpTo(outs, k) <= whole_
      BY <2>2, <3>1, <3>2
    <3>4. ASSUME whole_ <= mx, NEW k \in 1..n0 PROVE ~(Tx!SumUpTo(outs, k) > mx)
      <4>1. PICK s \in Nat : s = Tx!SumUpTo(outs, k) /\ s <= whole_
        BY <3>3
      <4>. QED
        BY ONLY <2>1, <3>2, <3>4, <4>1
    <3>5. ASSUME ~(whole_ <= mx) PROVE Tx!SumUpTo(outs, n0) > mx
      BY ONLY <2>1, <3>2, <3>5
    <3>. QED
      BY <2>1, <3>1, <3>2, <3>4, <3>5
  <2>. QED
    BY <2>3, <2>4
<1>7. (null \in T => l = 1 /\ xs[1].script \in 2..100)
        <=> /\ ~(l > 1 /\ \E i \in DOMAIN xs : xs[i].prevout = null)
            /\ ~(l = 1 /\ xs[1].prevout = null /\ (xs[1].script < 2 \/ xs[1].script > 100))
  <2>1. null \in T <=> \E i \in 1..l : xs[i].prevout = null
    BY <1>2
  <2>2. CASE l = 0
    <3>1. 1..l = {} /\ ~(l > 1) /\ l # 1
      BY <2>2
    <3>. QED
      BY <1>2, <2>1, <3>1
  <2>3. CASE l = 1
    <3>1. 1 \in 1..l /\ (\A i \in 1..l : i = 1) /\ ~(l > 1)
      BY <2>3
    <3>2. xs[1].script \in 2..100 <=> ~(xs[1].script < 2 \/ xs[1].script > 100)
      BY <1>3, <3>1
    <3>. HIDE DEF T
    <3>. QED
      BY <1>2, <2>1, <2>3, <3>1, <3>2
  <2>4. CASE l # 0 /\ l # 1
    <3>1. l > 1
      BY <2>4
    <3>. HIDE DEF T
    <3>. QED
      BY <1>2, <2>1, <2>4, <3>1
  <2>. QED
    BY <2>2, <2>3, <2>4
<1>8. Tx!Valid(tx) <=>
        /\ outs # <<>>
        /\ Cardinality(T) = l
        /\ (null \in T => l = 1 /\ xs[1].script \in 2..100)
        /\ Tx!SumUpTo(outs, Len(outs)) <= MAX_MONEY
  <2>. HIDE DEF tx
  <2>. QED
    BY <1>1, <1>4, SameCardinality DEF Tx!Valid
<1>9. Tx!TxRejected(xs, outs) <=>
        \/ outs = <<>>
        \/ l > 1 /\ \E i \in DOMAIN xs : xs[i].prevout = null
        \/ l = 1 /\ xs[1].prevout = null /\ (xs[1].script < 2 \/ xs[1].script > 100)
        \/ \E i, j \in 1..l : i # j /\ xs[i].prevout = xs[j].prevout
        \/ \E k \in DOMAIN outs : Tx!SumUpTo(outs, k) > MAX_MONEY
  BY <1>2, <1>4 DEF Tx!TxRejected
<1>. HIDE DEF T, tx
<1>10. Tx!Valid(tx) <=> ~Tx!TxRejected(xs, outs)
  BY ONLY <1>5, <1>6, <1>7, <1>8, <1>9, Zenon
<1>. QED
  BY <1>10 DEF tx

\* Once everything is read, end accepts the encodings of valid transactions.
LEMMA EndDecides ==
  ASSUME Tx!TransactionAssumption, AllRead
  PROVE  stream \in Tx!Encodings <=> ~Tx!TxRejected(inputs, outputs)
<1>1. PICK ins \in InputLists, outs \in OutputLists :
        \E w \in [DOMAIN ins -> Tx!Witnesses] :
           /\ inputs = [i \in DOMAIN ins |-> Tx!WithWitness(ins[i], w[i])] /\ outputs = outs
           /\ stream = Tx!Encode(Made(ins, w, outs))
  BY ReadIsMade
<1>2. PICK wits \in [DOMAIN ins -> Tx!Witnesses] :
           /\ inputs = [i \in DOMAIN ins |-> Tx!WithWitness(ins[i], wits[i])] /\ outputs = outs
           /\ stream = Tx!Encode(Made(ins, wits, outs))
  BY <1>1
<1>. DEFINE tx == Made(ins, wits, outs)
<1>3. Tx!Valid(tx) <=> ~Tx!TxRejected(inputs, outputs)
  BY <1>2, RejectedIsInvalid
<1>4. ASSUME Tx!Valid(tx) PROVE stream \in Tx!Encodings
  <2>1. tx \in Tx!Txs
    BY TxsAreMade
  <2>. HIDE DEF tx
  <2>2. stream = Tx!Encode(tx)
    BY <1>2 DEF tx
  <2>. QED
    BY <1>4, <2>1, <2>2 DEF Tx!Encodings
<1>5. ASSUME stream \in Tx!Encodings PROVE Tx!Valid(tx)
  <2>1. PICK t \in Tx!Txs : Tx!Valid(t) /\ stream = Tx!Encode(t)
    BY <1>5 DEF Tx!Encodings
  <2>2. PICK ins2 \in InputLists, outs2 \in OutputLists :
          \E w \in [DOMAIN ins2 -> Tx!Witnesses] : t = Made(ins2, w, outs2)
    BY <2>1, TxsAreMade
  <2>3. PICK w \in [DOMAIN ins2 -> Tx!Witnesses] : t = Made(ins2, w, outs2)
    BY <2>2
  <2>4. t = tx
    BY <1>2, <2>1, <2>3, MadeIsUnique
  <2>. QED
    BY <2>1, <2>4
<1>. QED
  BY <1>3, <1>4, <1>5

-----------------------------------------------------------------------------
(* TransactionDecoder: its place in the stream, and what the caller has seen. *)

FieldSize == Tx!Size(Tx!Here)

\* What is on the wire does not change.
TxInput ==
  /\ badAt \in 0..Len(stream)
  /\ badAt # 0 => badAs \in {"badpush", "badend"} /\ stream[badAt].kind # "SegwitFlag"
  /\ isEncoding = (badAt = 0 /\ stream \in Tx!Encodings)

TxPlace ==
  /\ at \in 1..Len(stream) /\ fpos \in 0..FieldSize /\ flimit \in 0..FieldSize
  /\ fphase \in {"more", "ready", "failed", "ok", "err"}
  /\ state # "Errored" => \A k \in 1..Len(stream) : k < at => k \notin Tx!Stops
  /\ state \in Reading /\ pc \in {"idle", "push"} /\ phase # "failed" =>
       fphase = "more" /\ fpos < FieldSize /\ flimit \in 1..(FieldSize - fpos)
  /\ pc = "end" =>
       fphase = "ready" /\ fpos = FieldSize /\ (at = badAt => badAs # "badpush")
  /\ pc = "next" => fphase = "ok" /\ fpos = FieldSize /\ at # badAt
  /\ state = "SegwitFlag" => fpos = 0
  /\ state = "Done" => fpos = FieldSize /\ at \notin Tx!Stops

TxAnswers ==
  /\ pos \in Nat /\ rest \in 0..(Tx!Total + 1)
  /\ phase \in {"more", "ready", "failed", "ok", "err"}
  /\ phase \in {"more", "ready"} =>
       /\ state # "Errored" /\ (phase = "ready" <=> state = "Done")
       /\ pos <= Tx!Before(at) + fpos
  /\ (phase = "more" /\ pc = "idle") \/ phase = "ready" =>
       pos = Tx!Before(at) + fpos /\ limit = Tx!read_limit
  /\ pc # "idle" => /\ phase \in {"more", "ready"}
                    /\ Tx!Before(at) + fpos + rest <= Tx!Total + 1
  /\ phase = "failed" => Tx!Stops # {} /\ pos <= Tx!Total

TxInv == TxProgress /\ TxInput /\ TxPlace /\ TxAnswers

LEMMA InputStays ==
  ASSUME UNCHANGED Tx!input
  PROVE  /\ stream' = stream /\ badAt' = badAt /\ badAs' = badAs /\ isEncoding' = isEncoding
         /\ Tx!Stops' = Tx!Stops /\ Tx!Total' = Tx!Total /\ Tx!Verdict' = Tx!Verdict
         /\ TxInput' = TxInput
         /\ \A k : Tx!Before(k)' = Tx!Before(k)
<1>1. stream' = stream /\ badAt' = badAt /\ badAs' = badAs /\ isEncoding' = isEncoding
  BY DEF Tx!input
<1>2. Tx!Stops' = Tx!Stops
  BY <1>1 DEF Tx!Stops
<1>3. \A k : Tx!Before(k)' = Tx!Before(k)
  BY <1>1 DEF Tx!Before
<1>4. Tx!Total' = Tx!Total
  BY <1>1, <1>2 DEF Tx!Total, Tx!Before
<1>5. Tx!Verdict' = Tx!Verdict
  BY <1>1, <1>2 DEF Tx!Verdict
<1>6. TxInput' = TxInput
  BY <1>1 DEF TxInput, Tx!Encodings
<1>. QED
  BY <1>1, <1>2, <1>3, <1>4, <1>5, <1>6

\* Behind every field but the last there is another one.
LEMMA NotTheLast ==
  ASSUME Tx!TransactionAssumption, TxProgress,
         state \in {"Version", "Inputs", "SegwitFlag", "Outputs", "Witnesses"}
  PROVE  at \in 1..(Len(stream) - 1)
<1>1. /\ IsPlain => PlainFields /\ ~IsSegwit
      /\ stream = BadFlagStream => BadFlagFields /\ ~IsPlain
      /\ IsSegwit => SegwitFields /\ ~IsPlain
  BY PlainHasFields, BadFlagHasFields, SegwitHasFields, FormsDiffer
<1>2. IsPlain \/ stream = BadFlagStream \/ IsSegwit
  BY DEF TxProgress
<1>3. PICK m \in Nat, l \in Nat :
        /\ l = Len(stream) /\ l >= 4
        /\ IsSegwit => m = Len(segwitInputs) /\ l = 6 + m
  <2>1. CASE IsPlain \/ stream = BadFlagStream
    <3>1. Len(stream) = 4 /\ ~IsSegwit
      BY <1>1, <2>1, FormsDiffer DEF PlainFields, BadFlagFields
    <3>. QED
      BY ONLY <3>1
  <2>2. CASE IsSegwit
    <3>1. Len(segwitInputs) \in Nat /\ Len(stream) = 6 + Len(segwitInputs)
      BY <1>1, <2>2 DEF SegwitFields
    <3>2. PICK m \in Nat : m = Len(segwitInputs)
      BY <3>1
    <3>3. 6 + m >= 4 /\ 6 + m \in Nat /\ Len(stream) = 6 + m
      BY ONLY <3>1, <3>2
    <3>. QED
      BY ONLY <3>2, <3>3
  <2>. QED
    BY <1>2, <2>1, <2>2
<1>4. /\ state = "Version" => at = 1
      /\ state = "Inputs" => at = 2 \/ (at = 4 /\ IsSegwit)
      /\ state = "SegwitFlag" => at = 3
      /\ state = "Outputs" => at = 3 \/ (at = 5 /\ IsSegwit)
      /\ state = "Witnesses" => IsSegwit /\ iteration \in Nat /\ iteration < Len(segwitInputs)
                                /\ at = 6 + iteration
  BY DEF TxProgress, AtVersion, AtInputs, AtFlag, AtOutputs, AtWitnesses
<1>5. \/ at = 1 \/ at = 2 \/ at = 3
      \/ (at = 4 \/ at = 5) /\ IsSegwit
      \/ IsSegwit /\ \E k \in Nat : at = 6 + k /\ k < Len(segwitInputs)
  BY <1>4
<1>6. CASE IsSegwit
  <2>1. l = 6 + m /\ m = Len(segwitInputs)
    BY <1>3, <1>6
  <2>2. at \in {1, 2, 3, 4, 5} \/ \E k \in Nat : at = 6 + k /\ k < m
    BY ONLY <1>5, <2>1
  <2>3. l = 6 + m
    BY ONLY <2>1
  <2>4. at \in 1..(l - 1)
    BY ONLY <2>2, <2>3
  <2>. QED
    BY ONLY <1>3, <2>4, Zenon
<1>7. CASE ~IsSegwit
  <2>1. at \in {1, 2, 3} /\ l >= 4
    BY ONLY <1>3, <1>5, <1>7
  <2>2. at \in 1..(l - 1)
    BY ONLY <2>1
  <2>. QED
    BY ONLY <1>3, <2>2, Zenon
<1>. QED
  BY <1>6, <1>7

\* The numbers of the place: l fields, b bytes before this field of z bytes, t bytes in all.
IsSpot(l, b, z, t) ==
  /\ l = Len(stream) /\ b = Tx!Before(at) /\ z = FieldSize /\ t = Tx!Total
  /\ z > 0 /\ Tx!Before(at + 1) = b + z
  /\ at \in 1..l /\ Tx!Here = stream[at]
  /\ state # "Errored" => b + z <= t
  /\ state # "Errored" /\ at \in Tx!Stops => t = b + z
  /\ state # "Errored" /\ at = l => t = b + z

LEMMA SpotIs ==
  ASSUME Tx!TransactionAssumption, TxInv
  PROVE  \E l \in Nat, b \in Nat, z \in Nat, t \in Nat : IsSpot(l, b, z, t)
<1>1. IsPlain \/ stream = BadFlagStream \/ IsSegwit
  BY DEF TxInv, TxProgress
<1>2. at \in 1..Len(stream) /\ Tx!Here = stream[at]
  BY HereIs DEF TxInv, TxPlace
<1>3. PICK l \in Nat : /\ l = Len(stream)
                       /\ \A i \in 1..l : Tx!Size(stream[i]) \in Nat \ {0}
  BY <1>1, FieldsHaveBytes
<1>4. PICK z \in Nat \ {0} : z = FieldSize /\ z = Tx!Size(stream[at])
  BY <1>2, <1>3 DEF FieldSize
<1>5. /\ \A k \in 1..(l + 1) : Tx!Before(k) \in Nat /\ \A j \in 1..k : Tx!Before(j) <= Tx!Before(k)
      /\ Tx!Before(at + 1) = Tx!Before(at) + z
  BY <1>1, <1>2, <1>3, <1>4, BeforeGrows
<1>6. at \in 1..(l + 1)
  BY <1>2, <1>3
<1>7. PICK b \in Nat : b = Tx!Before(at)
  BY <1>5, <1>6
<1>8. PICK r \in 1..l, t \in Nat :
        /\ r = LastRead /\ t = Tx!Total /\ t = Tx!Before(1 + r)
        /\ Tx!Stops = {} => r = l
        /\ Tx!Stops # {} => r \in Tx!Stops
        /\ \A k \in Tx!Stops : k \in 1..l /\ r <= k
  <2>. DEFINE r == LastRead
              t == Tx!Total
  <2>1. /\ r \in 1..l /\ t = Tx!Before(1 + r) /\ t \in Nat
        /\ Tx!Stops = {} => r = l
        /\ Tx!Stops # {} => r \in Tx!Stops
        /\ \A k \in Tx!Stops : k \in 1..l /\ r <= k
    BY <1>1, <1>3, StopsAre
  <2>. HIDE DEF r, t
  <2>2. r = LastRead /\ t = Tx!Total
    BY DEF r, t
  <2>. QED
    BY <2>1, <2>2
<1>9. ASSUME state # "Errored" PROVE at <= r
  <2>1. \A k \in 1..l : k < at => k \notin Tx!Stops
    BY <1>3, <1>9 DEF TxInv, TxPlace
  <2>2. ~(r < at)
    <3>. SUFFICES ASSUME r < at PROVE FALSE
      OBVIOUS
    <3>1. r \notin Tx!Stops
      BY <2>1
    <3>2. r = l
      BY <1>8, <3>1
    <3>. QED
      BY <1>2, <1>3, <3>2
  <2>. QED
    BY <1>2, <1>3, <2>2
<1>10. ASSUME state # "Errored" PROVE b + z <= t
  <2>1. at + 1 \in 1..(1 + r) /\ 1 + r \in 1..(l + 1)
    BY <1>2, <1>3, <1>9, <1>10
  <2>2. Tx!Before(at + 1) <= Tx!Before(1 + r)
    BY <1>5, <2>1
  <2>. QED
    BY <1>5, <1>7, <1>8, <2>2
<1>11. ASSUME state # "Errored", at \in Tx!Stops \/ at = l PROVE t = b + z
  <2>1. r <= at
    BY <1>8, <1>11
  <2>2. r = at
    BY <1>2, <1>3, <1>9, <1>11, <2>1
  <2>3. 1 + r = at + 1
    BY <1>2, <1>3, <2>2
  <2>. QED
    BY <1>5, <1>7, <1>8, <2>3
<1>12. IsSpot(l, b, z, t)
  BY <1>2, <1>3, <1>4, <1>5, <1>7, <1>8, <1>10, <1>11 DEF IsSpot
<1>. QED
  BY <1>12

-----------------------------------------------------------------------------
(* The field at hand, by the contract its decoder keeps.                    *)

LEMMA PushFieldEffect ==
  ASSUME Tx!TransactionAssumption, TxInv, Tx!PushField
  PROVE  \E c \in Nat, z \in Nat, p \in Nat, m \in Nat :
           /\ z = FieldSize /\ p = fpos /\ m = rest
           /\ c <= m /\ p + c <= z /\ fpos' = p + c /\ rest' = m - c
           /\ fphase' \in {"more", "ready", "failed"}
           /\ fphase' = "more" => p + c < z /\ flimit' \in 1..(z - (p + c))
           /\ fphase' # "more" => flimit' = 0
           /\ fphase' = "ready" => p + c = z /\ (at = badAt => badAs # "badpush")
           /\ fphase' = "failed" => at = badAt
<1>1. PICK l \in Nat, b \in Nat, z \in Nat, t \in Nat : IsSpot(l, b, z, t)
  BY SpotIs
<1>2. z = FieldSize /\ z > 0
  BY <1>1 DEF IsSpot
<1>3. /\ pc = "push" /\ state \in Reading /\ UNCHANGED Tx!input /\ UNCHANGED at
      /\ Tx!D!Push(rest) /\ rest' = rest - (fpos' - fpos)
  BY DEF Tx!PushField, TxInv, TxProgress, Reading
<1>4. PICK p \in Nat : p = fpos /\ p < z /\ fphase = "more"
  <2>1. phase # "failed"
    BY <1>3 DEF TxInv, TxAnswers
  <2>. QED
    BY <1>2, <1>3, <2>1 DEF TxInv, TxPlace
<1>5. PICK m \in Nat : m = rest
  <2>1. rest \in 0..(t + 1)
    BY <1>1 DEF TxInv, TxAnswers, IsSpot
  <2>. QED
    BY <2>1
<1>6. PICK c \in Tx!D!Takes(m) : fpos' = p + c
  BY <1>3, <1>4, <1>5 DEF Tx!D!Push
<1>7. c \in Nat /\ c <= m /\ p + c <= z
  <2>1. c \in 0..Tx!D!Lesser(m, z - p)
    BY <1>2, <1>4, <1>6 DEF Tx!D!Takes, FieldSize
  <2>2. Tx!D!Lesser(m, z - p) = IF m <= z - p THEN m ELSE z - p
    BY DEF Tx!D!Lesser
  <2>. QED
    BY <1>4, <1>5, <2>1, <2>2
<1>8. PICK q \in Nat : q = p + c /\ q <= z /\ fpos' = q
  BY <1>6, <1>7
<1>9. /\ fphase' \in Tx!D!Settle(q)
      /\ flimit' \in IF fphase' = "failed" THEN {0} ELSE Tx!D!Limits(q)
  BY <1>3, <1>4, <1>8 DEF Tx!D!Push
<1>10. Tx!D!Limits(q) = IF q = z THEN {0} ELSE 1..(z - q)
  BY <1>2 DEF Tx!D!Limits, FieldSize
<1>11. /\ fphase' \in {"more", "ready", "failed"}
       /\ fphase' = "more" => q < z
       /\ fphase' = "ready" => q = z /\ (at = badAt => badAs # "badpush")
       /\ fphase' = "failed" => at = badAt
  BY <1>2, <1>8, <1>9 DEF Tx!D!Settle, FieldSize
<1>12. rest' = m - c
  BY <1>3, <1>4, <1>5, <1>6, <1>7
<1>13. /\ fphase' = "more" => flimit' \in 1..(z - q)
       /\ fphase' # "more" => flimit' = 0
  BY <1>8, <1>9, <1>10, <1>11
<1>. QED
  BY <1>2, <1>4, <1>5, <1>7, <1>8, <1>11, <1>12, <1>13

-----------------------------------------------------------------------------
(* TransactionDecoder: every step keeps the place and the answers.          *)

LEMMA TxStart == ASSUME Tx!TransactionAssumption, Tx!TransactionInit PROVE TxInv
<1>1. TxProgress
  BY TxInitEstablishes
<1>2. IsPlain \/ stream = BadFlagStream \/ IsSegwit
  BY <1>1 DEF TxProgress
<1>3. PICK l \in Nat \ {0} : l = Len(stream) /\ \A i \in 1..l : Tx!Size(stream[i]) \in Nat \ {0}
  BY <1>2, FieldsHaveBytes
<1>4. /\ badAt \in IF stream \in BadStreams THEN 0..Len(stream) ELSE {0}
      /\ badAt # 0 => stream[badAt].kind # "SegwitFlag"
      /\ badAs \in IF badAt = 0 THEN {"ok"} ELSE {"badpush", "badend"}
      /\ isEncoding = (badAt = 0 /\ stream \in Tx!Encodings)
      /\ state = "Version" /\ at = 1 /\ Tx!D!Fresh /\ pc = "idle" /\ rest = 0
      /\ phase = "more" /\ pos = 0 /\ limit = flimit
  BY DEF Tx!TransactionInit
<1>5. TxInput
  <2>1. badAt \in 0..l
    BY <1>3, <1>4
  <2>. QED
    BY <1>3, <1>4, <2>1 DEF TxInput
<1>6. 1 \in 1..l
  BY <1>3
<1>7. PICK z \in Nat : z = FieldSize /\ z > 0
  BY <1>3, <1>4, <1>6, HereIs DEF FieldSize
<1>8. fpos = 0 /\ fphase = "more" /\ flimit \in 1..z
  <2>1. fpos = 0 /\ fphase = "more" /\ flimit \in Tx!D!Limits(0)
    BY <1>4 DEF Tx!D!Fresh
  <2>2. flimit \in IF 0 = z THEN {0} ELSE 1..(z - 0)
    BY <1>7, <2>1 DEF Tx!D!Limits, FieldSize
  <2>. QED
    BY <1>7, <2>1, <2>2
<1>9. TxPlace
  <2>1. at \in 1..Len(stream) /\ \A k \in 1..Len(stream) : ~(k < at)
    BY <1>3, <1>4, <1>6
  <2>2. fpos \in 0..z /\ flimit \in 0..z /\ fpos < z /\ flimit \in 1..(z - fpos)
    BY <1>7, <1>8
  <2>. QED
    BY <1>4, <1>7, <1>8, <2>1, <2>2 DEF TxPlace
<1>10. TxAnswers
  <2>1. PICK t \in Nat : t = Tx!Total
    BY <1>2, StopsAre
  <2>2. Tx!Before(1) = 0
    BY <1>2, BeforeGrows
  <2>3. rest \in 0..(t + 1) /\ pos \in Nat /\ pos = Tx!Before(at) + fpos
    BY <1>4, <1>8, <2>2
  <2>4. pos <= Tx!Before(at) + fpos
    BY <1>4, <2>3
  <2>5. limit = Tx!read_limit
    BY <1>4 DEF Tx!read_limit
  <2>. QED
    BY <1>4, <2>1, <2>3, <2>4, <2>5 DEF TxAnswers
<1>. QED
  BY <1>1, <1>5, <1>9, <1>10 DEF TxInv

\* The decoder of the next field is as good as new.
LEMMA EnterKeeps ==
  ASSUME Tx!TransactionAssumption, TxInv, TxProgress', UNCHANGED Tx!input, UNCHANGED Tx!seen,
         at' = at + 1, at + 1 \in 1..Len(stream),
         state # "Errored", state' \in Reading \cup {"SegwitFlag"},
         fpos' = 0, fphase' = "more", flimit' \in 1..Tx!Size(Tx!Here'), pc' = "push",
         pc # "idle", phase = "more", at \notin Tx!Stops,
         NEW m \in Nat, rest = m, NEW p \in Nat, p = fpos, NEW r \in Nat, r = rest',
         p + m = FieldSize + r
  PROVE  TxInv'
<1>1. PICK l \in Nat, b \in Nat, z \in Nat, t \in Nat : IsSpot(l, b, z, t)
  BY SpotIs
<1>2. /\ l = Len(stream) /\ b = Tx!Before(at) /\ z = FieldSize /\ t = Tx!Total /\ z > 0
      /\ Tx!Before(at + 1) = b + z
  BY <1>1 DEF IsSpot
<1>3. /\ stream' = stream /\ badAt' = badAt /\ badAs' = badAs
      /\ Tx!Stops' = Tx!Stops /\ Tx!Total' = t /\ TxInput'
      /\ \A k : Tx!Before(k)' = Tx!Before(k)
  BY <1>2, InputStays DEF TxInv
<1>4. PICK a \in Nat : a = at /\ a \in 1..l /\ a + 1 \in 1..l
  BY <1>2 DEF TxInv, TxPlace
<1>5. PICK y \in Nat \ {0} : y = FieldSize' /\ y = Tx!Size(Tx!Here')
  <2>1. Tx!Here' = stream[a + 1]
    <3>1. at' <= Len(stream')
      BY <1>2, <1>3, <1>4
    <3>. QED
      BY <1>3, <1>4, <3>1 DEF Tx!Here
  <2>2. Tx!Size(stream[a + 1]) \in Nat \ {0}
    BY <1>2, <1>4, FieldsHaveBytes DEF TxInv, TxProgress
  <2>3. FieldSize' = Tx!Size(Tx!Here')
    BY DEF FieldSize, Tx!Size
  <2>. QED
    BY <2>1, <2>2, <2>3
<1>6. TxPlace'
  <2>1. at' \in 1..Len(stream')
    BY <1>3
  <2>2. fpos' \in 0..y /\ flimit' \in 0..y /\ fpos' < y /\ flimit' \in 1..(y - fpos')
    BY <1>5
  <2>3. \A k \in 1..Len(stream') : k < at' => k \notin Tx!Stops'
    <3>. SUFFICES ASSUME NEW k \in 1..l, k < a + 1 PROVE k \notin Tx!Stops
      BY <1>2, <1>3, <1>4
    <3>1. k < a \/ k = a
      BY <1>4
    <3>. QED
      BY <1>2, <1>4, <3>1 DEF TxInv, TxPlace
  <2>4. state' # "Done" /\ pc' # "end" /\ pc' # "next"
    BY DEF Reading
  <2>. QED
    BY <1>5, <2>1, <2>2, <2>3, <2>4 DEF TxPlace
<1>7. TxAnswers'
  <2>1. PICK q \in Nat : q = pos /\ q <= b + p
    BY <1>2 DEF TxInv, TxAnswers
  <2>2. b + p + m <= t + 1
    BY <1>2 DEF TxInv, TxAnswers
  <2>3. p <= z
    BY <1>2 DEF TxInv, TxPlace
  <2>4. Tx!Before(at)' = b + z
    <3>1. Tx!Before(at)' = Tx!Before(at + 1)
      BY <1>3 DEF Tx!Before
    <3>. QED
      BY ONLY <1>2, <3>1
  <2>5. q <= b + z /\ b + z + r <= t + 1 /\ r \in 0..(t + 1)
    <3>1. p + m = z + r
      BY <1>2
    <3>. QED
      BY ONLY <2>1, <2>2, <2>3, <3>1, b \in Nat, z \in Nat, t \in Nat, p \in Nat, m \in Nat, r \in Nat
  <2>6. pos' = q /\ phase' = "more" /\ rest' = r
    BY <2>1 DEF Tx!seen
  <2>7. pos' <= Tx!Before(at)' + fpos' /\ Tx!Before(at)' + fpos' + rest' <= t + 1
    BY ONLY <2>4, <2>5, <2>6, fpos' = 0, b \in Nat, z \in Nat, q \in Nat, r \in Nat, t \in Nat
  <2>8. state' # "Errored" /\ state' # "Done"
    BY DEF Reading
  <2>. QED
    BY <1>3, <2>1, <2>5, <2>6, <2>7, <2>8 DEF TxAnswers
<1>. QED
  BY <1>3, <1>6, <1>7 DEF TxInv

\* A call that fails has stopped at the field that is rejected.
LEMMA FailKeeps ==
  ASSUME Tx!TransactionAssumption, TxInv, TxProgress', UNCHANGED Tx!input, UNCHANGED at,
         NEW z \in Nat, z = FieldSize, NEW q \in Nat, q = fpos', q <= z, flimit' \in 0..z,
         fphase' \in {"more", "ready", "failed", "ok", "err"},
         NEW m \in Nat, rest = m, NEW r \in Nat, r = rest', r <= m,
         state # "Errored", state' = "Errored" \/ (state' = state /\ state \in Reading),
         pc # "idle", at \in Tx!Stops, Tx!Return("failed")
  PROVE  TxInv'
<1>1. PICK l \in Nat, b \in Nat, t \in Nat : IsSpot(l, b, z, t)
  <2>1. PICK l \in Nat, b \in Nat, y \in Nat, t \in Nat : IsSpot(l, b, y, t)
    BY SpotIs
  <2>2. y = z
    BY <2>1 DEF IsSpot
  <2>. QED
    BY <2>1, <2>2
<1>2. l = Len(stream) /\ b = Tx!Before(at) /\ t = Tx!Total /\ b + z <= t
  BY <1>1 DEF IsSpot
<1>3. /\ stream' = stream /\ badAt' = badAt /\ badAs' = badAs
      /\ Tx!Stops' = Tx!Stops /\ Tx!Total' = t /\ TxInput' /\ Tx!Before(at)' = b
  <2>1. /\ stream' = stream /\ badAt' = badAt /\ badAs' = badAs
        /\ Tx!Stops' = Tx!Stops /\ Tx!Total' = t /\ TxInput'
    BY <1>2, InputStays DEF TxInv
  <2>2. Tx!Before(at)' = Tx!Before(at)
    BY <2>1 DEF Tx!Before
  <2>. QED
    BY <1>2, <2>1, <2>2
<1>4. Tx!Here' = Tx!Here /\ FieldSize' = z
  <2>1. Tx!Here' = Tx!Here
    BY <1>3 DEF Tx!Here, Tx!Field
  <2>. QED
    BY <2>1 DEF FieldSize, Tx!Size
<1>5. /\ pc' = "idle" /\ phase' = "failed" /\ pos' = b + fpos'
  <2>1. /\ pc' = "idle" /\ phase' = "failed" /\ pos' = Tx!Before(at') + fpos'
    BY DEF Tx!Return
  <2>. QED
    BY <1>2, <2>1
<1>6. TxPlace'
  <2>1. at' \in 1..Len(stream') /\ fpos' \in 0..z /\ flimit' \in 0..z
    BY <1>3 DEF TxInv, TxPlace
  <2>2. \A k \in 1..Len(stream') : k < at' => k \notin Tx!Stops'
    BY <1>3 DEF TxInv, TxPlace
  <2>3. state' # "SegwitFlag" /\ state' # "Done"
    BY DEF Reading
  <2>. QED
    BY <1>4, <1>5, <2>1, <2>2, <2>3 DEF TxPlace
<1>7. TxAnswers'
  <2>1. pos' = b + q /\ b + q \in Nat /\ b + q <= t
    BY ONLY <1>2, <1>3, <1>5, q = fpos', q <= z, b \in Nat, z \in Nat, q \in Nat, t \in Nat
  <2>2. r \in 0..(t + 1)
    <3>1. m \in 0..(t + 1)
      BY <1>2 DEF TxInv, TxAnswers
    <3>. QED
      BY ONLY <3>1, r <= m, r \in Nat, m \in Nat, t \in Nat
  <2>3. Tx!Stops' # {}
    BY <1>3
  <2>4. /\ pos' \in Nat /\ rest' \in 0..(Tx!Total' + 1) /\ pos' <= Tx!Total'
    BY ONLY <1>3, <2>1, <2>2, r = rest'
  <2>. QED
    BY <1>5, <2>3, <2>4 DEF TxAnswers
<1>. QED
  BY <1>3, <1>6, <1>7 DEF TxInv

\* A field that is not rejected by its decoder, is not a bad flag and not the last of the
\* witnesses that are superfluous.
LEMMA NotStopped ==
  ASSUME Tx!TransactionAssumption, TxInv, at # badAt,
         ~(stream = BadFlagStream /\ at = 3), ~(Superfluous /\ at = Len(stream) - 1)
  PROVE  at \notin Tx!Stops
BY StopIs DEF TxInv, TxProgress, TxPlace

LEMMA PushFieldKeeps ==
  ASSUME Tx!TransactionAssumption, TxInv, TxProgress', Tx!PushField
  PROVE  TxInv'
<1>1. PICK c \in Nat, z \in Nat, p \in Nat, m \in Nat :
           /\ z = FieldSize /\ p = fpos /\ m = rest
           /\ c <= m /\ p + c <= z /\ fpos' = p + c /\ rest' = m - c
           /\ fphase' \in {"more", "ready", "failed"}
           /\ fphase' = "more" => p + c < z /\ flimit' \in 1..(z - (p + c))
           /\ fphase' # "more" => flimit' = 0
           /\ fphase' = "ready" => p + c = z /\ (at = badAt => badAs # "badpush")
           /\ fphase' = "failed" => at = badAt
  BY PushFieldEffect
<1>2. /\ pc = "push" /\ state \in Reading /\ UNCHANGED Tx!input /\ UNCHANGED <<state, at>>
      /\ IF fphase' = "ready" THEN Tx!GoOn("end") ELSE Tx!Return(fphase')
  BY DEF Tx!PushField, TxInv, TxProgress, Reading
<1>3. PICK q \in Nat, r \in Nat : q = p + c /\ r = m - c /\ fpos' = q /\ rest' = r /\ q <= z /\ r <= m
  <2>1. p + c \in Nat /\ m - c \in Nat /\ m - c <= m
    BY <1>1
  <2>. QED
    BY <1>1, <2>1
<1>4. state # "Errored" /\ state # "SegwitFlag" /\ state # "Done"
  BY <1>2 DEF Reading
<1>5. CASE fphase' = "failed"
  <2>1. at \in Tx!Stops
    BY <1>1, <1>5, StopIs DEF TxInv, TxProgress, TxPlace
  <2>2. flimit' \in 0..z
    BY <1>1, <1>5
  <2>. QED
    BY <1>1, <1>2, <1>3, <1>4, <1>5, <2>1, <2>2, FailKeeps
<1>6. CASE fphase' # "failed"
  <2>1. PICK l \in Nat, b \in Nat, y \in Nat, t \in Nat : IsSpot(l, b, y, t)
    BY SpotIs
  <2>2. l = Len(stream) /\ b = Tx!Before(at) /\ t = Tx!Total /\ b + z <= t
    BY <1>1, <1>4, <2>1 DEF IsSpot
  <2>3. /\ stream' = stream /\ badAt' = badAt /\ badAs' = badAs
        /\ Tx!Stops' = Tx!Stops /\ Tx!Total' = t /\ TxInput'
    BY <1>2, <2>2, InputStays DEF TxInv
  <2>4. Tx!Before(at)' = b /\ Tx!Here' = Tx!Here
    BY <1>2, <2>2, <2>3 DEF Tx!Before, Tx!Here, Tx!Field
  <2>5. FieldSize' = z
    BY <1>1, <2>4 DEF FieldSize, Tx!Size
  <2>6. TxPlace'
    <3>1. at' \in 1..Len(stream') /\ fpos' \in 0..z /\ flimit' \in 0..z
      <4>1. flimit' \in 0..z
        BY <1>1, <1>6
      <4>. QED
        BY <1>2, <1>3, <2>3, <4>1 DEF TxInv, TxPlace
    <3>2. \A k \in 1..Len(stream') : k < at' => k \notin Tx!Stops'
      BY <1>2, <1>4, <2>3 DEF TxInv, TxPlace
    <3>3. CASE fphase' = "ready"
      <4>1. pc' = "end" /\ fpos' = z /\ (at = badAt => badAs # "badpush")
        BY <1>1, <1>2, <3>3 DEF Tx!GoOn
      <4>. QED
        BY <1>2, <1>4, <2>3, <2>5, <3>1, <3>2, <3>3, <4>1 DEF TxPlace
    <3>4. CASE fphase' = "more"
      <4>1. pc' = "idle" /\ fpos' < z /\ flimit' \in 1..(z - fpos')
        <5>1. q < z /\ flimit' \in 1..(z - q)
          BY <1>1, <1>3, <3>4
        <5>. QED
          BY <1>2, <1>3, <3>4, <5>1 DEF Tx!Return
      <4>. QED
        BY <1>2, <1>4, <2>3, <2>5, <3>1, <3>2, <3>4, <4>1 DEF TxPlace
    <3>. QED
      BY <1>1, <1>6, <3>3, <3>4
  <2>7. phase \in {"more", "ready"} /\ phase # "ready"
    BY <1>2, <1>4 DEF TxInv, TxAnswers
  <2>8. b + p + m <= t + 1
    BY <1>1, <1>2, <2>2 DEF TxInv, TxAnswers
  <2>9. b + q + r <= t + 1 /\ r \in 0..(t + 1)
    BY ONLY <1>1, <1>3, <2>8, b \in Nat, p \in Nat, m \in Nat, c \in Nat, t \in Nat, q \in Nat, r \in Nat
  <2>10. TxAnswers'
    <3>1. CASE fphase' = "ready"
      <4>1. pc' = "end" /\ phase' = "more" /\ pos' = pos /\ limit' = limit
        BY <1>2, <2>7, <3>1 DEF Tx!GoOn, Tx!seen
      <4>2. PICK o \in Nat : o = pos /\ o <= b + p
        BY <1>1, <2>2, <2>7 DEF TxInv, TxAnswers
      <4>3. o <= b + q
        BY ONLY <1>3, <4>2, b \in Nat, p \in Nat, q \in Nat, c \in Nat
      <4>4. /\ pos' \in Nat /\ pos' <= Tx!Before(at)' + fpos'
            /\ Tx!Before(at)' + fpos' + rest' <= t + 1 /\ rest' \in 0..(t + 1)
        BY ONLY <1>3, <2>4, <2>9, <4>1, <4>2, <4>3
      <4>. QED
        BY <1>2, <1>4, <2>3, <4>1, <4>4 DEF TxAnswers
    <3>2. CASE fphase' = "more"
      <4>1. /\ pc' = "idle" /\ phase' = "more" /\ pos' = Tx!Before(at)' + fpos'
            /\ limit' = Tx!read_limit'
        <5>1. /\ pc' = "idle" /\ phase' = "more" /\ pos' = Tx!Before(at') + fpos'
              /\ limit' = Tx!read_limit'
          BY <1>2, <3>2 DEF Tx!Return
        <5>2. Tx!Before(at') = Tx!Before(at)'
          BY <1>2, <2>2, <2>4
        <5>. QED
          BY <5>1, <5>2
      <4>2. pos' \in Nat /\ pos' <= Tx!Before(at)' + fpos' /\ rest' \in 0..(t + 1)
        BY ONLY <1>3, <2>4, <2>9, <4>1, b \in Nat, q \in Nat
      <4>. QED
        BY <1>2, <1>4, <2>3, <4>1, <4>2 DEF TxAnswers
    <3>. QED
      BY <1>1, <1>6, <3>1, <3>2
  <2>. QED
    BY <2>3, <2>6, <2>10 DEF TxInv
<1>. QED
  BY <1>5, <1>6

\* The stream, the field at hand and its place, for the step that does not change them.
LEMMA SpotStays ==
  ASSUME Tx!TransactionAssumption, TxInv, UNCHANGED Tx!input, UNCHANGED at
  PROVE  /\ stream' = stream /\ badAt' = badAt /\ badAs' = badAs
         /\ Tx!Stops' = Tx!Stops /\ Tx!Total' = Tx!Total /\ TxInput'
         /\ Tx!Before(at)' = Tx!Before(at) /\ FieldSize' = FieldSize
<1>1. /\ stream' = stream /\ badAt' = badAt /\ badAs' = badAs
      /\ Tx!Stops' = Tx!Stops /\ Tx!Total' = Tx!Total /\ TxInput'
  BY InputStays DEF TxInv
<1>2. Tx!Before(at)' = Tx!Before(at) /\ Tx!Here' = Tx!Here
  BY <1>1 DEF Tx!Before, Tx!Here, Tx!Field
<1>3. FieldSize' = FieldSize
  BY <1>2 DEF FieldSize, Tx!Size
<1>. QED
  BY <1>1, <1>2, <1>3

LEMMA EndFieldKeeps ==
  ASSUME Tx!TransactionAssumption, TxInv, TxProgress', Tx!EndField
  PROVE  TxInv'
<1>1. /\ pc = "end" /\ UNCHANGED Tx!input /\ UNCHANGED <<at, rest>> /\ Tx!D!End
      /\ IF fphase' = "ok" THEN Tx!GoOn("next") /\ UNCHANGED state
                           ELSE state' = "Errored" /\ Tx!Return("failed")
  BY DEF Tx!EndField
<1>2. PICK z \in Nat : z = FieldSize /\ z > 0
  <2>1. PICK l \in Nat, b \in Nat, z \in Nat, t \in Nat : IsSpot(l, b, z, t)
    BY SpotIs
  <2>. QED
    BY <2>1 DEF IsSpot
<1>3. fphase = "ready" /\ fpos = z /\ flimit \in 0..z /\ state \in Reading /\ at \in 1..Len(stream)
  BY <1>1, <1>2 DEF TxInv, TxPlace, TxProgress
<1>4. /\ fpos' = fpos /\ flimit' = flimit
      /\ fphase' = IF fpos = Tx!Size(Tx!Here) /\ (IF at = badAt THEN badAs ELSE "ok") = "ok"
                     THEN "ok" ELSE "err"
  BY <1>1, Zenon DEF Tx!D!End
<1>5. fphase' = IF at = badAt THEN "err" ELSE "ok"
  <2>1. at = badAt => badAs # "ok"
    <3>1. at # 0
      BY <1>3
    <3>. QED
      BY <3>1 DEF TxInv, TxInput
  <2>. QED
    BY <1>2, <1>3, <1>4, <2>1 DEF FieldSize
<1>6. state # "Errored" /\ state # "SegwitFlag" /\ state # "Done"
  BY <1>3 DEF Reading
<1>7. PICK m \in Nat : m = rest
  BY <1>2, SpotIs DEF TxInv, TxAnswers, IsSpot
<1>8. CASE at = badAt
  <2>1. at \in Tx!Stops
    BY <1>3, <1>8, StopIs DEF TxInv, TxProgress
  <2>2. fphase' = "err" /\ state' = "Errored" /\ Tx!Return("failed") /\ rest' = m /\ fpos' = z
    BY <1>1, <1>3, <1>4, <1>5, <1>7, <1>8
  <2>3. m <= m /\ z <= z
    OBVIOUS
  <2>. QED
    BY <1>1, <1>2, <1>3, <1>4, <1>6, <1>7, <2>1, <2>2, <2>3, FailKeeps
<1>9. CASE at # badAt
  <2>1. fphase' = "ok" /\ pc' = "next" /\ state' = state /\ UNCHANGED <<phase, pos, limit>>
    BY <1>1, <1>5, <1>9 DEF Tx!GoOn, Tx!seen
  <2>2. /\ stream' = stream /\ badAt' = badAt /\ badAs' = badAs
        /\ Tx!Stops' = Tx!Stops /\ Tx!Total' = Tx!Total /\ TxInput'
        /\ Tx!Before(at)' = Tx!Before(at) /\ FieldSize' = z
    BY <1>1, <1>2, SpotStays
  <2>3. TxPlace'
    BY <1>1, <1>2, <1>3, <1>4, <1>6, <1>9, <2>1, <2>2 DEF TxInv, TxPlace
  <2>4. TxAnswers'
    BY <1>1, <1>3, <1>4, <1>6, <2>1, <2>2 DEF TxInv, TxAnswers
  <2>. QED
    BY <2>2, <2>3, <2>4 DEF TxInv
<1>. QED
  BY <1>8, <1>9

\* A field is done with, and the decoder of the one behind it is entered.
LEMMA NextKeeps ==
  ASSUME Tx!TransactionAssumption, TxInv, TxProgress', NEW from_, Tx!Next(from_), NEW to_,
         from_ \in {"Version", "Inputs", "Outputs", "Witnesses"}, to_ \in Reading \cup {"SegwitFlag"},
         Tx!Enter(to_), at \notin Tx!Stops
  PROVE  TxInv'
<1>1. /\ pc = "next" /\ state = from_ /\ UNCHANGED Tx!input /\ rest' = rest
      /\ state' = to_ /\ at' = at + 1 /\ fpos' = 0 /\ fphase' = "more"
      /\ flimit' \in 1..Tx!Size(Tx!Here') /\ pc' = "push" /\ UNCHANGED Tx!seen
  BY DEF Tx!Next, Tx!Enter, Tx!GoOn
<1>2. PICK z \in Nat, t \in Nat : z = FieldSize /\ t = Tx!Total
  BY SpotIs DEF IsSpot
<1>3. fpos = z
  BY <1>1, <1>2 DEF TxInv, TxPlace
<1>4. PICK m \in Nat : m = rest
  <2>1. rest \in 0..(t + 1)
    BY <1>2 DEF TxInv, TxAnswers
  <2>. QED
    BY <2>1
<1>5. at \in 1..(Len(stream) - 1)
  BY <1>1, NotTheLast DEF TxInv
<1>6. at + 1 \in 1..Len(stream)
  <2>1. PICK l \in Nat : l = Len(stream)
    BY SpotIs DEF IsSpot
  <2>. QED
    BY <1>5, <2>1
<1>7. state # "Errored" /\ state # "Done"
  BY <1>1
<1>8. phase = "more"
  BY <1>1, <1>7 DEF TxInv, TxAnswers
<1>9. z + m = FieldSize + m
  BY <1>2
<1>. QED
  BY <1>1, <1>2, <1>3, <1>4, <1>6, <1>7, <1>8, <1>9, EnterKeeps

\* The witnesses lie between the outputs and the lock time.
LEMMA SuperfluousAt ==
  ASSUME Tx!TransactionAssumption, Superfluous
  PROVE  \E m \in Nat \ {0} : m = Len(segwitInputs) /\ Len(stream) - 1 = 5 + m
<1>1. SegwitFields
  BY SegwitHasFields DEF Superfluous
<1>2. PICK m \in Nat : m = Len(segwitInputs) /\ Len(stream) = 6 + m
  BY <1>1 DEF SegwitFields
<1>3. m # 0
  <2>. SUFFICES ASSUME m = 0 PROVE FALSE
    OBVIOUS
  <2>1. 1..m = {} /\ DOMAIN segwitInputs = 1..m
    BY <1>1, <1>2, ListsAreSequences DEF SegwitFields
  <2>2. segwitInputs = <<>>
    BY <1>1, <2>1, ListsAreSequences DEF SegwitFields
  <2>. QED
    BY <2>2 DEF Superfluous
<1>4. Len(stream) - 1 = 5 + m
  BY <1>2
<1>. QED
  BY <1>2, <1>3, <1>4

LEMMA FieldReadKeeps ==
  ASSUME Tx!TransactionAssumption, TxInv, TxProgress',
         Tx!AfterVersion \/ Tx!AfterInputs \/ Tx!AfterOutputs
  PROVE  TxInv'
<1>. DEFINE Moves(f, t) == Tx!Next(f) /\ Tx!Enter(t)
<1>1. \/ Moves("Version", "Inputs")
      \/ Moves("Inputs", "SegwitFlag") \/ Moves("Inputs", "Outputs")
      \/ Moves("Outputs", "Witnesses") \/ Moves("Outputs", "LockTime")
  BY DEF Tx!AfterVersion, Tx!AfterInputs, Tx!AfterOutputs
<1>2. state \in {"Version", "Inputs", "Outputs"} /\ pc = "next" /\ at # badAt
  BY <1>1 DEF Tx!Next, TxInv, TxPlace
<1>3. at \notin Tx!Stops
  <2>1. ~(stream = BadFlagStream /\ at = 3)
    BY <1>2, FormsDiffer DEF TxInv, TxProgress, AtVersion, AtInputs, AtOutputs
  <2>2. ~(Superfluous /\ at = Len(stream) - 1)
    <3>. SUFFICES ASSUME Superfluous, at = Len(stream) - 1 PROVE FALSE
      OBVIOUS
    <3>1. PICK m \in Nat \ {0} : at = 5 + m
      BY SuperfluousAt
    <3>2. at = 1 \/ at = 2 \/ at = 3 \/ at = 4 \/ at = 5
      BY <1>2 DEF TxInv, TxProgress, AtVersion, AtInputs, AtOutputs
    <3>. QED
      BY ONLY <3>1, <3>2
  <2>. QED
    BY <1>2, <2>1, <2>2, NotStopped
<1>4. ASSUME NEW f \in {"Version", "Inputs", "Outputs", "Witnesses"},
             NEW t \in Reading \cup {"SegwitFlag"}, Moves(f, t)
      PROVE  TxInv'
  BY <1>3, <1>4, NextKeeps
<1>. QED
  BY <1>1, <1>4 DEF Reading

LEMMA WitnessReadKeeps ==
  ASSUME Tx!TransactionAssumption, TxInv, TxProgress', Tx!AfterWitness
  PROVE  TxInv'
<1>1. /\ Tx!Next("Witnesses") /\ pc = "next" /\ state = "Witnesses" /\ at # badAt
      /\ UNCHANGED Tx!input /\ rest' = rest /\ stream' = stream
  BY DEF Tx!AfterWitness, Tx!Next, Tx!input, TxInv, TxPlace
<1>2. /\ IsSegwit /\ iteration \in Nat /\ iteration < Len(segwitInputs) /\ at = 6 + iteration
      /\ inputs = Filled(iteration)
  BY <1>1 DEF TxInv, TxProgress, AtWitnesses
<1>3. inputs' = Filled(iteration + 1)
  BY WitnessFills DEF TxInv
<1>4. Len(inputs) = Len(segwitInputs)
  BY <1>2, FilledShape
<1>5. PICK m \in Nat, k \in Nat :
        m = Len(segwitInputs) /\ Len(stream) = 6 + m /\ k = iteration /\ k < m /\ at = 6 + k
  <2>1. Len(segwitInputs) \in Nat /\ Len(stream) = 6 + Len(segwitInputs)
    BY <1>2, SegwitHasFields DEF SegwitFields
  <2>. QED
    BY <1>2, <2>1
<1>6. stream # BadFlagStream
  BY <1>2, FormsDiffer
<1>7. ASSUME NEW i \in 1..m PROVE i \in DOMAIN segwitInputs
  BY <1>2, <1>5, <1>7, SegwitHasFields, ListsAreSequences DEF SegwitFields
<1>8. CASE iteration < Len(inputs) - 1
  <2>1. Tx!Enter("Witnesses")
    BY <1>8 DEF Tx!AfterWitness
  <2>2. at # Len(stream) - 1
    <3>1. k < m - 1
      BY <1>4, <1>5, <1>8
    <3>2. at = 6 + k /\ Len(stream) = 6 + m
      BY <1>5
    <3>. QED
      BY ONLY <3>1, <3>2, m \in Nat, k \in Nat
  <2>3. at \notin Tx!Stops
    BY <1>1, <1>6, <2>2, NotStopped
  <2>. QED
    BY <1>1, <2>1, <2>3, NextKeeps DEF Reading
<1>9. CASE ~(iteration < Len(inputs) - 1)
  <2>1. k + 1 = m /\ iteration + 1 = m /\ at = Len(stream) - 1 /\ at \in 1..Len(stream)
    <3>1. ~(k < m - 1) /\ k < m
      BY <1>4, <1>5, <1>9
    <3>2. k + 1 = m
      BY ONLY <3>1, m \in Nat, k \in Nat
    <3>3. at = 6 + k /\ Len(stream) = 6 + m /\ iteration = k
      BY <1>5
    <3>. QED
      BY ONLY <3>2, <3>3, m \in Nat, k \in Nat
  <2>2. inputs' = Filled(m)
    BY <1>3, <2>1
  <2>3. /\ DOMAIN inputs' = 1..m
        /\ \A i \in 1..m : inputs'[i].witness = segwitWitness(i)
    <3>1. DOMAIN Filled(m) = 1..m
      BY <1>2, <1>5, FilledShape
    <3>2. \A i \in 1..m : Filled(m)[i].witness = segwitWitness(i)
      BY <1>7 DEF Filled, Tx!WithWitness
    <3>. QED
      BY <2>2, <3>1, <3>2
  <2>4. segwitInputs # <<>>
    <3>1. 1 \in DOMAIN segwitInputs
      BY <1>7, <2>1
    <3>. QED
      BY <3>1
  <2>5. Superfluous <=> \A i \in DOMAIN inputs' : inputs'[i].witness = <<>>
    BY <1>2, <1>5, <2>3, <2>4 DEF Superfluous
  <2>6. CASE \A i \in DOMAIN inputs' : inputs'[i].witness = <<>>
    <3>1. Tx!Fail
      BY <1>9, <2>6 DEF Tx!AfterWitness
    <3>2. state' = "Errored" /\ UNCHANGED at /\ fpos' = fpos /\ flimit' = flimit /\ fphase' = fphase
          /\ Tx!Return("failed")
      BY <3>1 DEF Tx!Fail, Tx!decoder
    <3>3. at \in Tx!Stops
      BY <1>2, <2>1, <2>5, <2>6, StopIs
    <3>4. PICK z \in Nat, t \in Nat : z = FieldSize /\ t = Tx!Total
      BY SpotIs DEF IsSpot
    <3>5. /\ fpos' = z /\ flimit' \in 0..z /\ z <= z
          /\ fphase' \in {"more", "ready", "failed", "ok", "err"}
      BY <1>1, <3>2, <3>4 DEF TxInv, TxPlace
    <3>6. PICK r \in Nat : r = rest /\ r <= r
      <4>1. rest \in 0..(t + 1)
        BY <3>4 DEF TxInv, TxAnswers
      <4>. QED
        BY <4>1
    <3>. QED
      BY <1>1, <3>2, <3>3, <3>4, <3>5, <3>6, FailKeeps
  <2>7. CASE ~(\A i \in DOMAIN inputs' : inputs'[i].witness = <<>>)
    <3>1. Tx!Enter("LockTime")
      BY <1>9, <2>7 DEF Tx!AfterWitness
    <3>2. at \notin Tx!Stops
      BY <1>1, <1>6, <2>5, <2>7, NotStopped
    <3>. QED
      BY <1>1, <3>1, <3>2, NextKeeps DEF Reading
  <2>. QED
    BY <2>6, <2>7
<1>. QED
  BY <1>8, <1>9

LEMMA FlagReadKeeps ==
  ASSUME Tx!TransactionAssumption, TxInv, TxProgress', Tx!SegwitFlag
  PROVE  TxInv'
<1>1. /\ pc = "push" /\ state = "SegwitFlag" /\ UNCHANGED Tx!input
  BY DEF Tx!SegwitFlag
<1>2. /\ at = 3 /\ (stream = BadFlagStream \/ IsSegwit) /\ fpos = 0 /\ phase = "more"
      /\ at \in 1..Len(stream)
  BY <1>1 DEF TxInv, TxProgress, AtFlag, TxPlace, TxAnswers
<1>3. /\ stream = BadFlagStream => Tx!Here = TxField("SegwitFlag", <<0>>)
      /\ IsSegwit => Tx!Here = TxField("SegwitFlag", <<1>>)
      /\ Tx!Here = stream[at]
  BY <1>2, HereIs, BadFlagHasFields, SegwitHasFields DEF BadFlagFields, SegwitFields
<1>4. \A kind, value : TxField(kind, value).kind = kind /\ TxField(kind, value).value = value
  BY DEF TxField, Tx!Field
<1>5. Tx!Here.kind = "SegwitFlag" /\ FieldSize = 1
  <2>1. Tx!Here.kind = "SegwitFlag"
    BY <1>2, <1>3, <1>4
  <2>. QED
    BY <2>1 DEF FieldSize, Tx!Size
<1>6. Tx!Here.value = <<1>> <=> stream # BadFlagStream
  <2>1. <<0>>[1] # <<1>>[1]
    OBVIOUS
  <2>. QED
    BY <1>2, <1>3, <1>4, <2>1, FormsDiffer
<1>7. at # badAt
  <2>1. at # 0
    BY <1>2
  <2>. QED
    BY <1>3, <1>5, <2>1 DEF TxInv, TxInput
<1>8. PICK b \in Nat, t \in Nat, m \in Nat : b = Tx!Before(at) /\ t = Tx!Total /\ m = rest
  <2>1. PICK l \in Nat, b \in Nat, z \in Nat, t \in Nat : IsSpot(l, b, z, t)
    BY SpotIs
  <2>2. rest \in 0..(t + 1)
    BY <2>1 DEF TxInv, TxAnswers, IsSpot
  <2>3. PICK m \in Nat : m = rest
    BY <2>2
  <2>. QED
    BY <2>1, <2>3 DEF IsSpot
<1>9. CASE rest = 0
  <2>1. UNCHANGED <<state, at, fpos, fphase, flimit, rest>> /\ Tx!Return("more")
    BY <1>9 DEF Tx!SegwitFlag, Tx!decoder
  <2>2. pc' = "idle" /\ phase' = "more" /\ pos' = Tx!Before(at') + fpos' /\ limit' = Tx!read_limit'
    BY <2>1 DEF Tx!Return
  <2>3. /\ stream' = stream /\ badAt' = badAt /\ badAs' = badAs
        /\ Tx!Stops' = Tx!Stops /\ Tx!Total' = Tx!Total /\ TxInput'
        /\ Tx!Before(at)' = Tx!Before(at) /\ FieldSize' = FieldSize
    BY <1>1, <2>1, SpotStays
  <2>4. TxPlace'
    BY <1>1, <2>1, <2>2, <2>3 DEF TxInv, TxPlace, Reading
  <2>5. pos' = b /\ Tx!Before(at)' + fpos' = b
    BY <1>2, <1>8, <2>1, <2>2, <2>3
  <2>6. pos' \in Nat /\ pos' <= Tx!Before(at)' + fpos' /\ pos' = Tx!Before(at)' + fpos'
    BY ONLY <2>5, b \in Nat
  <2>7. rest' \in 0..(t + 1)
    BY <1>8, <2>1 DEF TxInv, TxAnswers
  <2>8. TxAnswers'
    BY <1>1, <1>8, <2>1, <2>2, <2>3, <2>6, <2>7 DEF TxAnswers
  <2>. QED
    BY <2>3, <2>4, <2>8 DEF TxInv
<1>10. CASE rest # 0 /\ Tx!Here.value = <<1>>
  <2>1. rest' = rest - 1 /\ Tx!Enter("Inputs")
    BY <1>10 DEF Tx!SegwitFlag
  <2>2. /\ state' = "Inputs" /\ at' = at + 1 /\ fpos' = 0 /\ fphase' = "more"
        /\ flimit' \in 1..Tx!Size(Tx!Here') /\ pc' = "push" /\ UNCHANGED Tx!seen
    BY <2>1 DEF Tx!Enter, Tx!GoOn
  <2>3. at \notin Tx!Stops
    <3>1. ~(Superfluous /\ at = Len(stream) - 1)
      <4>1. ASSUME NEW k \in Nat \ {0} PROVE 3 # 5 + k
        OBVIOUS
      <4>. QED
        BY <1>2, <4>1, SuperfluousAt
    <3>. QED
      BY <1>6, <1>7, <1>10, <3>1, NotStopped
  <2>4. PICK r \in Nat : r = rest' /\ 0 + m = 1 + r
    <3>1. m # 0 /\ rest' = m - 1
      BY <1>8, <1>10, <2>1
    <3>2. m - 1 \in Nat /\ 0 + m = 1 + (m - 1)
      BY <3>1
    <3>. QED
      BY <3>1, <3>2
  <2>5. 0 + m = FieldSize + r /\ 0 = fpos /\ 0 \in Nat
    BY <1>2, <1>5, <2>4
  <2>6. at + 1 \in 1..Len(stream)
    <3>1. at \in 1..(Len(stream) - 1)
      BY <1>1, NotTheLast DEF TxInv
    <3>2. PICK l \in Nat : l = Len(stream)
      BY SpotIs DEF IsSpot
    <3>. QED
      BY <3>1, <3>2
  <2>7. state # "Errored" /\ pc # "idle" /\ state' \in Reading \cup {"SegwitFlag"}
    BY <1>1, <2>2 DEF Reading
  <2>. QED
    BY <1>1, <1>2, <1>8, <2>2, <2>3, <2>4, <2>5, <2>6, <2>7, EnterKeeps
<1>11. CASE rest # 0 /\ Tx!Here.value # <<1>>
  <2>1. /\ rest' = rest - 1 /\ state' = "Errored" /\ UNCHANGED at /\ fpos' = 1
        /\ UNCHANGED <<fphase, flimit>> /\ Tx!Return("failed")
    BY <1>11 DEF Tx!SegwitFlag
  <2>2. at \in Tx!Stops
    BY <1>2, <1>6, <1>11, StopIs
  <2>3. PICK r \in Nat : r = rest' /\ r <= m
    <3>1. m # 0 /\ rest' = m - 1
      BY <1>8, <1>11, <2>1
    <3>2. m - 1 \in Nat /\ m - 1 <= m
      BY <3>1
    <3>. QED
      BY <3>1, <3>2
  <2>4. 1 = FieldSize /\ 1 \in Nat /\ 1 = fpos' /\ 1 <= 1 /\ flimit' \in 0..1
        /\ fphase' \in {"more", "ready", "failed", "ok", "err"}
    BY <1>5, <2>1 DEF TxInv, TxPlace
  <2>5. state # "Errored" /\ pc # "idle"
    BY <1>1
  <2>. QED
    BY <1>1, <1>8, <2>1, <2>2, <2>3, <2>4, <2>5, FailKeeps
<1>. QED
  BY <1>9, <1>10, <1>11

LEMMA AfterLockTimeKeeps ==
  ASSUME Tx!TransactionAssumption, TxInv, TxProgress', Tx!AfterLockTime
  PROVE  TxInv'
<1>1. /\ pc = "next" /\ state = "LockTime" /\ UNCHANGED Tx!input /\ state' = "Done"
      /\ UNCHANGED <<at, fpos, fphase, flimit, rest>> /\ Tx!Return("ready")
  BY DEF Tx!AfterLockTime, Tx!Next, Tx!decoder
<1>2. pc' = "idle" /\ phase' = "ready" /\ pos' = Tx!Before(at') + fpos' /\ limit' = Tx!read_limit'
  BY <1>1 DEF Tx!Return
<1>3. /\ stream' = stream /\ badAt' = badAt /\ badAs' = badAs
      /\ Tx!Stops' = Tx!Stops /\ Tx!Total' = Tx!Total /\ TxInput'
      /\ Tx!Before(at)' = Tx!Before(at) /\ FieldSize' = FieldSize
  BY <1>1, SpotStays
<1>4. PICK l \in Nat, b \in Nat, z \in Nat, t \in Nat : IsSpot(l, b, z, t)
  BY SpotIs
<1>5. /\ l = Len(stream) /\ b = Tx!Before(at) /\ z = FieldSize /\ t = Tx!Total
  BY <1>4 DEF IsSpot
<1>6. at # badAt /\ fpos = z /\ fphase = "ok" /\ at = l /\ (IsPlain \/ IsSegwit)
  BY <1>1, <1>5 DEF TxInv, TxPlace, TxProgress, AtLockTime, AllRead
<1>7. at \notin Tx!Stops
  <2>1. at # Len(stream) - 1
    BY <1>5, <1>6
  <2>. QED
    BY <1>6, <2>1, NotStopped, FormsDiffer
<1>8. TxPlace'
  BY <1>1, <1>2, <1>3, <1>5, <1>6, <1>7 DEF TxInv, TxPlace, Reading
<1>9. pos' = b + z /\ Tx!Before(at)' + fpos' = b + z
  BY <1>1, <1>2, <1>3, <1>5, <1>6
<1>10. pos' \in Nat /\ pos' <= Tx!Before(at)' + fpos' /\ pos' = Tx!Before(at)' + fpos'
  BY ONLY <1>9, b \in Nat, z \in Nat
<1>11. rest' \in 0..(t + 1)
  BY <1>1, <1>5 DEF TxInv, TxAnswers
<1>12. TxAnswers'
  BY <1>1, <1>2, <1>3, <1>5, <1>10, <1>11 DEF TxAnswers
<1>. QED
  BY <1>3, <1>8, <1>12 DEF TxInv

LEMMA CallKeeps ==
  ASSUME Tx!TransactionAssumption, TxInv, TxProgress',
         NEW k \in 0..(Tx!Total - pos + 1), Tx!PushCall(k)
  PROVE  TxInv'
<1>1. /\ pc = "idle" /\ phase \in {"more", "ready"} /\ rest' = k /\ pc' = "push"
      /\ UNCHANGED <<phase, pos, limit>> /\ UNCHANGED Tx!input
      /\ UNCHANGED <<state, at, fpos, fphase, flimit>>
  BY DEF Tx!PushCall, Tx!GoOn, Tx!seen, Tx!decoder
<1>2. /\ stream' = stream /\ badAt' = badAt /\ badAs' = badAs
      /\ Tx!Stops' = Tx!Stops /\ Tx!Total' = Tx!Total /\ TxInput'
      /\ Tx!Before(at)' = Tx!Before(at) /\ FieldSize' = FieldSize
  BY <1>1, SpotStays
<1>3. PICK t \in Nat, p \in Nat : t = Tx!Total /\ p = pos
  BY SpotIs DEF IsSpot, TxInv, TxAnswers
<1>4. pos = Tx!Before(at) + fpos
  BY <1>1 DEF TxInv, TxAnswers
<1>5. k \in 0..(t + 1) /\ p + k <= t + 1
  <2>1. k \in 0..(t - p + 1)
    BY <1>3
  <2>. QED
    BY ONLY <2>1, p \in Nat, t \in Nat
<1>6. TxPlace'
  BY <1>1, <1>2 DEF TxInv, TxPlace
<1>7. Tx!Before(at)' + fpos' + rest' <= t + 1
  <2>1. Tx!Before(at)' + fpos' = p
    BY <1>1, <1>2, <1>3, <1>4
  <2>. QED
    BY ONLY <1>1, <1>5, <2>1
<1>8. Tx!read_limit' = Tx!read_limit
  BY <1>1 DEF Tx!read_limit
<1>9. TxAnswers'
  BY <1>1, <1>2, <1>3, <1>5, <1>7, <1>8 DEF TxInv, TxAnswers
<1>. QED
  BY <1>2, <1>6, <1>9 DEF TxInv

LEMMA RestKeeps ==
  ASSUME Tx!TransactionAssumption, TxInv, TxProgress',
         Tx!PushDone \/ Tx!End \/ UNCHANGED Tx!vars
  PROVE  TxInv'
<1>1. UNCHANGED Tx!input /\ UNCHANGED <<state, at, fpos, fphase, flimit, rest>>
  BY DEF Tx!PushDone, Tx!End, Tx!decoder, Tx!vars
<1>2. /\ stream' = stream /\ badAt' = badAt /\ badAs' = badAs
      /\ Tx!Stops' = Tx!Stops /\ Tx!Total' = Tx!Total /\ TxInput'
      /\ Tx!Before(at)' = Tx!Before(at) /\ FieldSize' = FieldSize
  BY <1>1, SpotStays
<1>3. Tx!read_limit' = Tx!read_limit
  BY <1>1 DEF Tx!read_limit
<1>4. CASE Tx!PushDone
  <2>1. pc = "push" /\ state = "Done" /\ Tx!Return("ready")
    BY <1>4 DEF Tx!PushDone
  <2>2. pc' = "idle" /\ phase' = "ready" /\ pos' = Tx!Before(at') + fpos' /\ limit' = Tx!read_limit'
    BY <2>1 DEF Tx!Return
  <2>3. phase = "ready"
    BY <2>1 DEF TxInv, TxAnswers
  <2>4. pos = Tx!Before(at) + fpos /\ limit = Tx!read_limit
    BY <2>3 DEF TxInv, TxAnswers
  <2>5. pos' = pos /\ limit' = limit
    BY <1>1, <1>3, <2>2, <2>4
  <2>6. TxPlace'
    BY <1>1, <1>2, <2>1, <2>2 DEF TxInv, TxPlace, Reading
  <2>7. TxAnswers'
    BY <1>1, <1>2, <1>3, <2>1, <2>2, <2>3, <2>5 DEF TxInv, TxAnswers
  <2>. QED
    BY <1>2, <2>6, <2>7 DEF TxInv
<1>5. CASE Tx!End
  <2>1. /\ pc = "idle" /\ pc' = "idle" /\ UNCHANGED <<pos, limit>> /\ phase' \in {"ok", "err"}
        /\ phase \in {"more", "ready"}
    BY <1>5 DEF Tx!End
  <2>2. TxPlace'
    BY <1>1, <1>2, <2>1 DEF TxInv, TxPlace
  <2>3. TxAnswers'
    BY <1>1, <1>2, <2>1 DEF TxInv, TxAnswers
  <2>. QED
    BY <1>2, <2>2, <2>3 DEF TxInv
<1>6. CASE UNCHANGED Tx!vars
  <2>1. UNCHANGED <<pc, phase, pos, limit>>
    BY <1>6 DEF Tx!vars, Tx!seen
  <2>2. TxPlace'
    BY <1>1, <1>2, <2>1 DEF TxInv, TxPlace
  <2>3. TxAnswers'
    BY <1>1, <1>2, <1>3, <2>1 DEF TxInv, TxAnswers
  <2>. QED
    BY <1>2, <2>2, <2>3 DEF TxInv
<1>. QED
  BY <1>4, <1>5, <1>6

\* Every step keeps the place in the stream and what the caller has been told of it.
LEMMA TxInvKeeps ==
  ASSUME Tx!TransactionAssumption, TxInv, [Tx!TransactionNext]_(Tx!vars)
  PROVE  TxInv'
<1>1. TxProgress'
  BY TxStepKeeps DEF TxInv
<1>. QED
  BY <1>1, CallKeeps, PushFieldKeeps, EndFieldKeeps, FieldReadKeeps, WitnessReadKeeps,
     FlagReadKeeps, AfterLockTimeKeeps, RestKeeps DEF Tx!TransactionNext, Tx!Returned

-----------------------------------------------------------------------------
(* TransactionDecoder: the refinement of the trait's contract.              *)

\* What the decoder's place in the stream says about it, in the contract's terms.
TxStanding ==
  /\ Tx!Total \in Nat /\ Tx!Total > 0 /\ Tx!Verdict \in {"ok", "badpush", "badend"}
  /\ pos \in Nat
  /\ phase = "more" /\ pc = "idle" => pos < Tx!Total /\ limit \in 1..(Tx!Total - pos)
  /\ phase = "ready" =>
       /\ pos = Tx!Total /\ limit = 0 /\ Tx!Verdict # "badpush"
       /\ AllRead /\ badAt = 0
  /\ phase = "failed" => Tx!Verdict = "badpush" /\ pos <= Tx!Total

LEMMA TxStandingAt == ASSUME Tx!TransactionAssumption, TxInv PROVE TxStanding
<1>1. PICK l \in Nat, b \in Nat, z \in Nat, t \in Nat : IsSpot(l, b, z, t)
  BY SpotIs
<1>2. /\ l = Len(stream) /\ b = Tx!Before(at) /\ z = FieldSize /\ t = Tx!Total /\ z > 0
      /\ at \in 1..l
      /\ state # "Errored" => b + z <= t
      /\ state # "Errored" /\ at = l => t = b + z
  BY <1>1 DEF IsSpot
<1>3. IsPlain \/ stream = BadFlagStream \/ IsSegwit
  BY DEF TxInv, TxProgress
<1>4. t > 0 /\ (Tx!Stops \subseteq 1..l)
  BY <1>2, <1>3, StopsAre
<1>5. Tx!Verdict \in {"ok", "badpush", "badend"} /\ pos \in Nat
  BY DEF Tx!Verdict, TxInv, TxAnswers
<1>6. ASSUME phase = "more", pc = "idle" PROVE pos < t /\ limit \in 1..(t - pos)
  <2>1. /\ state # "Errored" /\ state # "Done" /\ pos = b + fpos /\ limit = Tx!read_limit
    BY <1>2, <1>6 DEF TxInv, TxAnswers
  <2>2. \E p \in Nat, f \in Nat : p = fpos /\ f = limit /\ p < z /\ f \in 1..(z - p)
    <3>1. CASE state = "SegwitFlag"
      <4>1. limit = 1 /\ fpos = 0
        BY <2>1, <3>1 DEF Tx!read_limit, TxInv, TxPlace
      <4>2. 0 < z /\ 1 \in 1..(z - 0) /\ 0 \in Nat /\ 1 \in Nat
        BY <1>2
      <4>. QED
        BY ONLY <4>1, <4>2
    <3>2. CASE state # "SegwitFlag"
      <4>1. state \in Reading /\ limit = flimit
        BY <2>1, <3>2 DEF Tx!read_limit, TxInv, TxProgress
      <4>2. fpos \in 0..z /\ fpos < z /\ flimit \in 1..(z - fpos)
        BY <1>2, <1>6, <4>1 DEF TxInv, TxPlace
      <4>3. fpos \in Nat /\ flimit \in Nat
        BY <4>2
      <4>. QED
        BY <4>1, <4>2, <4>3
    <3>. QED
      BY <3>1, <3>2
  <2>3. PICK p \in Nat, f \in Nat : p = fpos /\ f = limit /\ p < z /\ f \in 1..(z - p)
    BY <2>2
  <2>4. b + z <= t /\ pos = b + p
    BY <1>2, <2>1, <2>3
  <2>5. b + p < t /\ f \in 1..(t - (b + p))
    BY ONLY <2>3, <2>4, b \in Nat, z \in Nat, t \in Nat, p \in Nat, f \in Nat
  <2>. QED
    BY ONLY <2>3, <2>4, <2>5
<1>7. ASSUME phase = "ready"
      PROVE  pos = t /\ limit = 0 /\ Tx!Verdict # "badpush" /\ AllRead /\ badAt = 0
  <2>1. state = "Done" /\ pos = b + fpos /\ limit = Tx!read_limit
    BY <1>2, <1>7 DEF TxInv, TxAnswers
  <2>2. at = l /\ AllRead
    BY <1>2, <2>1 DEF TxInv, TxProgress, AtLockTime
  <2>3. fpos = z /\ at \notin Tx!Stops /\ \A k \in 1..l : k < at => k \notin Tx!Stops
    BY <1>2, <2>1 DEF TxInv, TxPlace
  <2>4. Tx!Stops = {}
    <3>1. \A k \in 1..l : k < l \/ k = l
      OBVIOUS
    <3>. QED
      BY <1>4, <2>2, <2>3, <3>1
  <2>5. badAt = 0
    <3>. SUFFICES ASSUME badAt # 0 PROVE FALSE
      OBVIOUS
    <3>1. badAt \in 1..l
      <4>1. badAt \in 0..l
        BY <1>2 DEF TxInv, TxInput
      <4>. QED
        BY <4>1
    <3>2. badAt \in Tx!Stops
      BY <1>2, <1>3, <3>1, StopIs
    <3>. QED
      BY <2>4, <3>2
  <2>6. pos = t
    BY <1>2, <2>1, <2>2, <2>3
  <2>. QED
    BY <2>1, <2>2, <2>4, <2>5, <2>6 DEF Tx!read_limit, Tx!Verdict
<1>8. ASSUME phase = "failed" PROVE Tx!Verdict = "badpush" /\ pos <= t
  <2>1. Tx!Stops # {} /\ pos <= t
    BY <1>2, <1>8 DEF TxInv, TxAnswers
  <2>2. ~isEncoding
    <3>1. isEncoding = (badAt = 0 /\ stream \in Tx!Encodings)
      BY DEF TxInv, TxInput
    <3>2. ~(badAt = 0 /\ stream \in Tx!Encodings)
      BY <2>1, EncodingsPass
    <3>. QED
      BY <3>1, <3>2, Zenon
  <2>. QED
    BY <2>1, <2>2 DEF Tx!Verdict
<1>. QED
  BY <1>2, <1>4, <1>5, <1>6, <1>7, <1>8 DEF TxStanding

\* What a call that returns has done, and one that goes on.
TxReturn ==
  /\ phase \in {"more", "ready"} /\ UNCHANGED <<Tx!Total, Tx!Verdict>>
  /\ pc' = "idle" /\ phase' \in {"more", "ready", "failed"}
  /\ pos <= pos' /\ (phase = "ready" => phase' = "ready")
TxUnseen == UNCHANGED <<Tx!Total, Tx!Verdict, phase, pos, limit>>

LEMMA AnswerReturns ==
  ASSUME Tx!TransactionAssumption, TxInv, UNCHANGED Tx!input, UNCHANGED at, pc # "idle",
         NEW answer \in {"more", "ready", "failed"}, Tx!Return(answer),
         phase = "ready" => answer = "ready",
         NEW q \in Nat, q = fpos', NEW p \in Nat, p = fpos, p <= q
  PROVE  TxReturn
<1>1. PICK b \in Nat : b = Tx!Before(at)
  BY SpotIs DEF IsSpot
<1>2. pos \in Nat /\ phase \in {"more", "ready"} /\ pos <= b + fpos
  BY <1>1 DEF TxInv, TxAnswers
<1>3. PICK o \in Nat : o = pos /\ o <= b + p
  BY <1>2
<1>4. pc' = "idle" /\ phase' = answer /\ pos' = b + q
  BY <1>1 DEF Tx!Return
<1>5. o <= b + q
  BY ONLY <1>3, p <= q, b \in Nat, p \in Nat, q \in Nat
<1>6. UNCHANGED <<Tx!Total, Tx!Verdict>>
  BY InputStays
<1>. QED
  BY <1>2, <1>3, <1>4, <1>5, <1>6 DEF TxReturn

LEMMA TxCallsReturnOrGoOn ==
  ASSUME Tx!TransactionAssumption, TxInv,
         \/ Tx!PushField \/ Tx!EndField \/ Tx!AfterVersion \/ Tx!AfterInputs \/ Tx!SegwitFlag
         \/ Tx!AfterOutputs \/ Tx!AfterWitness \/ Tx!AfterLockTime \/ Tx!PushDone
  PROVE  TxReturn \/ TxUnseen
<1>1. UNCHANGED Tx!input /\ pc # "idle"
  BY DEF Tx!PushField, Tx!EndField, Tx!AfterVersion, Tx!AfterInputs, Tx!SegwitFlag,
         Tx!AfterOutputs, Tx!AfterWitness, Tx!AfterLockTime, Tx!PushDone, Tx!Next
<1>2. ASSUME UNCHANGED Tx!seen PROVE TxUnseen
  BY <1>1, <1>2, InputStays DEF TxUnseen, Tx!seen
<1>3. PICK p \in Nat : p = fpos /\ p <= p
  <2>1. PICK z \in Nat : z = FieldSize
    BY SpotIs DEF IsSpot
  <2>2. fpos \in 0..z
    BY <2>1 DEF TxInv, TxPlace
  <2>3. fpos \in Nat
    BY <2>2
  <2>. QED
    BY <2>3
<1>4. state # "Done" => phase # "ready"
  BY <1>1 DEF TxInv, TxAnswers
<1>5. CASE Tx!PushField
  <2>1. PICK c \in Nat, z \in Nat, y \in Nat, m \in Nat :
          y = fpos /\ fpos' = y + c /\ fphase' \in {"more", "ready", "failed"}
    BY <1>5, PushFieldEffect
  <2>2. p + c \in Nat /\ p + c = fpos' /\ p <= p + c
    BY <1>3, <2>1
  <2>3. UNCHANGED at /\ state # "Done" /\ IF fphase' = "ready" THEN Tx!GoOn("end") ELSE Tx!Return(fphase')
    BY <1>5 DEF Tx!PushField
  <2>4. CASE fphase' = "ready"
    BY <1>2, <2>3, <2>4 DEF Tx!GoOn
  <2>5. CASE fphase' # "ready"
    BY <1>1, <1>3, <1>4, <2>1, <2>2, <2>3, <2>5, AnswerReturns
  <2>. QED
    BY <2>4, <2>5
<1>6. CASE Tx!EndField
  <2>1. UNCHANGED at /\ fpos' = fpos /\ state # "Done"
        /\ (Tx!GoOn("next") \/ Tx!Return("failed"))
    BY <1>6 DEF Tx!EndField, Tx!D!End, TxInv, TxProgress, Reading
  <2>. QED
    BY <1>1, <1>2, <1>3, <1>4, <2>1, AnswerReturns DEF Tx!GoOn
<1>7. CASE Tx!AfterVersion \/ Tx!AfterInputs \/ Tx!AfterOutputs
  BY <1>2, <1>7 DEF Tx!AfterVersion, Tx!AfterInputs, Tx!AfterOutputs, Tx!Enter, Tx!GoOn
<1>8. CASE Tx!AfterWitness
  <2>1. state # "Done" /\ (UNCHANGED Tx!seen \/ Tx!Fail)
    BY <1>8 DEF Tx!AfterWitness, Tx!Next, Tx!Enter, Tx!GoOn
  <2>2. CASE Tx!Fail
    <3>1. UNCHANGED at /\ fpos' = fpos /\ Tx!Return("failed")
      BY <2>2 DEF Tx!Fail, Tx!decoder
    <3>. QED
      BY <1>1, <1>3, <1>4, <2>1, <3>1, AnswerReturns
  <2>. QED
    BY <1>2, <2>1, <2>2
<1>9. CASE Tx!SegwitFlag
  <2>1. /\ state # "Done" /\ fpos = 0
        /\ \/ UNCHANGED at /\ fpos' = fpos /\ Tx!Return("more")
           \/ UNCHANGED Tx!seen
           \/ UNCHANGED at /\ fpos' = 1 /\ Tx!Return("failed")
    BY <1>9 DEF Tx!SegwitFlag, Tx!Enter, Tx!GoOn, Tx!decoder, TxInv, TxPlace
  <2>2. 0 <= 1 /\ 0 \in Nat /\ 1 \in Nat
    OBVIOUS
  <2>3. CASE UNCHANGED at /\ fpos' = 1 /\ Tx!Return("failed")
    BY <1>1, <1>4, <2>1, <2>2, <2>3, AnswerReturns
  <2>4. CASE UNCHANGED at /\ fpos' = fpos /\ Tx!Return("more")
    BY <1>1, <1>3, <1>4, <2>1, <2>4, AnswerReturns
  <2>. QED
    BY <1>2, <2>1, <2>3, <2>4
<1>10. CASE Tx!AfterLockTime \/ Tx!PushDone
  <2>1. UNCHANGED at /\ fpos' = fpos /\ Tx!Return("ready")
    BY <1>10 DEF Tx!AfterLockTime, Tx!PushDone, Tx!decoder
  <2>. QED
    BY <1>1, <1>3, <2>1, AnswerReturns
<1>. QED
  BY <1>5, <1>6, <1>7, <1>8, <1>9, <1>10

LEMMA TxInitRefines ==
  ASSUME Tx!TransactionAssumption, Tx!TransactionInit
  PROVE  Tx!Contract!Init
<1>1. TxStanding
  BY TxStart, TxStandingAt
<1>2. phase = "more" /\ pc = "idle" /\ pos = 0
  BY DEF Tx!TransactionInit
<1>3. PICK t \in Nat : t = Tx!Total /\ t > 0 /\ limit \in 1..(t - 0)
  BY <1>1, <1>2 DEF TxStanding
<1>4. Tx!Verdict \in {"ok", "badpush", "badend"}
  BY <1>1 DEF TxStanding
<1>5. limit \in Tx!Contract!Limits(0)
  BY <1>3 DEF Tx!Contract!Limits
<1>. QED
  BY <1>2, <1>3, <1>4, <1>5 DEF Tx!Contract!Init, Tx!Contract!Fresh, Tx!Contract!Verdicts

LEMMA TxReturnRefines ==
  ASSUME TxStanding, TxStanding', TxReturn
  PROVE  [Tx!Contract!Next]_(Tx!Contract!contractVars)
<1>1. PICK p \in Nat, q \in Nat, t \in Nat :
        /\ p = pos /\ q = pos' /\ t = Tx!Total /\ t = Tx!Total' /\ p <= q
        /\ phase \in {"more", "ready"} /\ Tx!Verdict' = Tx!Verdict
        /\ pc' = "idle" /\ phase' \in {"more", "ready", "failed"}
        /\ (phase = "ready" => phase' = "ready")
  BY DEF TxReturn, TxStanding
<1>2. /\ phase' = "more" => q < t /\ limit' \in 1..(t - q)
      /\ phase' = "ready" => q = t /\ Tx!Verdict # "badpush" /\ limit' = 0
      /\ phase' = "failed" => Tx!Verdict = "badpush" /\ q <= t
  BY <1>1 DEF TxStanding
<1>3. CASE phase = "ready"
  <2>1. p = t /\ q = t /\ phase' = "ready" /\ limit = 0 /\ limit' = 0
    BY <1>1, <1>2, <1>3 DEF TxStanding
  <2>. QED
    BY <1>1, <1>3, <2>1 DEF Tx!Contract!contractVars
<1>4. CASE phase = "more"
  <2>1. p \in Nat /\ q \in Nat /\ t \in Nat /\ p <= q /\ q <= t
    BY <1>1, <1>2
  <2>2. q - p \in 0..(t - p) /\ q - p \in Tx!Contract!Takes(q - p) /\ q = p + (q - p)
    <3>1. PICK c \in Nat : c = q - p /\ c <= t - p /\ q = p + c /\ (c > 0 \/ c = 0)
      BY ONLY <2>1
    <3>2. c \in Tx!Contract!Takes(c)
      <4>1. t = Tx!Total /\ p = pos
        BY ONLY <1>1
      <4>. QED
        BY ONLY <2>1, <3>1, <4>1 DEF Tx!Contract!Takes, Tx!Contract!Lesser
    <3>. QED
      BY ONLY <2>1, <3>1, <3>2
  <2>3. phase' \in Tx!Contract!Settle(q)
    BY <1>1, <1>2 DEF Tx!Contract!Settle
  <2>4. (IF phase' = "failed" THEN 0 ELSE limit')
          \in IF phase' = "failed" THEN {0} ELSE Tx!Contract!Limits(q)
    BY <1>1, <1>2 DEF Tx!Contract!Limits
  <2>5. Tx!Contract!Push(q - p)
    BY <1>1, <1>4, <2>2, <2>3, <2>4 DEF Tx!Contract!Push, Tx!Contract!Limits
  <2>. QED
    BY <1>1, <2>2, <2>5 DEF Tx!Contract!Next
<1>. QED
  BY <1>1, <1>3, <1>4

LEMMA TxEndRefines ==
  ASSUME Tx!TransactionAssumption, TxInv, TxStanding, Tx!End
  PROVE  Tx!Contract!End
<1>1. /\ phase \in {"more", "ready"} /\ pc = "idle" /\ UNCHANGED <<pos, limit>>
      /\ UNCHANGED Tx!input
      /\ phase' = IF state = "Done" /\ ~Tx!TxRejected(inputs, outputs) THEN "ok" ELSE "err"
  BY DEF Tx!End
<1>2. Tx!Total' = Tx!Total /\ Tx!Verdict' = Tx!Verdict
  BY <1>1, InputStays
<1>3. phase = "ready" <=> state = "Done"
  BY <1>1 DEF TxInv, TxAnswers
<1>4. CASE phase = "more"
  <2>1. PICK t \in Nat, p \in Nat : t = Tx!Total /\ p = pos /\ p < t
    BY <1>1, <1>4 DEF TxStanding
  <2>2. pos # Tx!Total
    BY ONLY <2>1
  <2>3. phase' = "err"
    BY <1>1, <1>3, <1>4
  <2>. QED
    BY <1>1, <1>2, <1>4, <2>2, <2>3 DEF Tx!Contract!End
<1>5. CASE phase = "ready"
  <2>1. pos = Tx!Total /\ AllRead /\ badAt = 0 /\ Tx!Verdict # "badpush"
    BY <1>5 DEF TxStanding
  <2>2. Tx!Verdict = "ok" <=> ~Tx!TxRejected(inputs, outputs)
    <3>1. isEncoding = (badAt = 0 /\ stream \in Tx!Encodings)
      BY DEF TxInv, TxInput
    <3>2. (badAt = 0 /\ stream \in Tx!Encodings) <=> ~Tx!TxRejected(inputs, outputs)
      BY <2>1, EndDecides
    <3>3. isEncoding <=> ~Tx!TxRejected(inputs, outputs)
      BY ONLY <3>1, <3>2, Zenon
    <3>4. Tx!Verdict = "ok" <=> isEncoding
      BY DEF Tx!Verdict
    <3>. QED
      BY ONLY <3>3, <3>4
  <2>3. phase' = IF pos = Tx!Total /\ Tx!Verdict = "ok" THEN "ok" ELSE "err"
    BY <1>1, <1>3, <1>5, <2>1, <2>2
  <2>. QED
    BY <1>1, <1>2, <1>5, <2>3 DEF Tx!Contract!End
<1>. QED
  BY <1>1, <1>4, <1>5

LEMMA TxStepRefines ==
  ASSUME Tx!TransactionAssumption, TxInv, TxStanding, TxStanding', [Tx!TransactionNext]_(Tx!vars)
  PROVE  [Tx!Contract!Next]_(Tx!Contract!contractVars)
<1>1. ASSUME TxUnseen PROVE UNCHANGED Tx!Contract!contractVars
  BY <1>1 DEF TxUnseen, Tx!Contract!contractVars
<1>2. ASSUME UNCHANGED Tx!input, UNCHANGED Tx!seen PROVE TxUnseen
  BY <1>2, InputStays DEF TxUnseen, Tx!seen
<1>3. CASE \/ Tx!PushField \/ Tx!EndField \/ Tx!AfterVersion \/ Tx!AfterInputs \/ Tx!SegwitFlag
           \/ Tx!AfterOutputs \/ Tx!AfterWitness \/ Tx!AfterLockTime \/ Tx!PushDone
  BY <1>1, <1>3, TxCallsReturnOrGoOn, TxReturnRefines
<1>4. CASE Tx!End
  BY <1>4, TxEndRefines DEF Tx!Contract!Next
<1>5. CASE \E k \in 0..(Tx!Total - pos + 1) : Tx!PushCall(k)
  BY <1>1, <1>2, <1>5 DEF Tx!PushCall, Tx!GoOn
<1>6. CASE UNCHANGED Tx!vars
  BY <1>1, <1>2, <1>6 DEF Tx!vars
<1>. QED
  BY <1>3, <1>4, <1>5, <1>6 DEF Tx!TransactionNext, Tx!Returned

-----------------------------------------------------------------------------
(* The instances. *)

BytesProofs == INSTANCE PrefixedProofs WITH Streams <- ByteStreams

\* What the module of those proofs assumes of its constants.
LEMMA BytesAssumed ==
  /\ Radix \in Nat /\ Radix > 3
  /\ \A e \in Elements : e \in Seq(BytesProofs!Byte) /\ Len(e) < BytesProofs!Radix8
  /\ MaxElements \in Nat /\ MaxElements <= MAX_WITNESS_STACK_ITEMS
  /\ MaxElements < BytesProofs!Radix8
  /\ MAX_WITNESS_STACK_ITEMS \in Nat /\ MAX_WITNESS_ITEM_SIZE \in Nat
  /\ MAX_COMPACT_SIZE \in Nat /\ MAX_WITNESS_ITEM_SIZE <= MAX_COMPACT_SIZE
<1>1. BytesProofs!Byte = Byte /\ BytesProofs!Radix8 = Radix8
  BY DEF Byte, Radix2, Radix4, Radix8, BytesProofs!Byte, BytesProofs!Radix2, BytesProofs!Radix4,
     BytesProofs!Radix8
<1>. QED
  BY <1>1, RadixAssumption, WitnessAssumption

LEMMA SameCompactSize ==
  /\ Bytes!Byte = BytesProofs!Bytes!Byte
  /\ \A f : Bytes!EncodedLen(f) = BytesProofs!Bytes!EncodedLen(f)
  /\ \A have, f, k : Bytes!compact_size_push_bytes(have, f, k)
                       = BytesProofs!Bytes!compact_size_push_bytes(have, f, k)
  /\ \A buf, max : Bytes!DecodeLength(buf, max) = BytesProofs!Bytes!DecodeLength(buf, max)
  /\ \A v : Bytes!encode(v) = BytesProofs!Bytes!encode(v) /\ Bytes!encoded_size(v) = BytesProofs!Bytes!encoded_size(v)
<1>1. Bytes!Byte = BytesProofs!Bytes!Byte
  BY DEF Bytes!Byte, BytesProofs!Bytes!Byte
<1>2. \A f : Bytes!EncodedLen(f) = BytesProofs!Bytes!EncodedLen(f)
  BY Zenon DEF
   Bytes!PREFIX_U16, Bytes!PREFIX_U32, Bytes!PREFIX_U64, Bytes!PayloadWidth,
   Bytes!EncodedLen, BytesProofs!Bytes!PREFIX_U16, BytesProofs!Bytes!PREFIX_U32,
   BytesProofs!Bytes!PREFIX_U64, BytesProofs!Bytes!PayloadWidth, BytesProofs!Bytes!EncodedLen
<1>3. \A have, f, k : Bytes!compact_size_push_bytes(have, f, k)
                       = BytesProofs!Bytes!compact_size_push_bytes(have, f, k)
  BY Zenon DEF
   Bytes!PREFIX_U16, Bytes!PREFIX_U32, Bytes!PREFIX_U64, Bytes!PayloadWidth,
   Bytes!EncodedLen, Bytes!compact_size_push_bytes, BytesProofs!Bytes!PREFIX_U16,
   BytesProofs!Bytes!PREFIX_U32, BytesProofs!Bytes!PREFIX_U64, BytesProofs!Bytes!PayloadWidth,
   BytesProofs!Bytes!EncodedLen, BytesProofs!Bytes!compact_size_push_bytes
<1>4. \A buf, max : Bytes!DecodeLength(buf, max) = BytesProofs!Bytes!DecodeLength(buf, max)
  <2>1. \A buf : Bytes!PayloadValue(buf) = BytesProofs!Bytes!PayloadValue(buf)
    BY Zenon DEF
     Bytes!PayloadValue, Bytes!FromLe2, Bytes!FromLe4, Bytes!FromLe8, Bytes!Radix2,
     Bytes!Radix4, BytesProofs!Bytes!PayloadValue, BytesProofs!Bytes!FromLe2, BytesProofs!Bytes!FromLe4,
     BytesProofs!Bytes!FromLe8, BytesProofs!Bytes!Radix2, BytesProofs!Bytes!Radix4
  <2>2. \A w : Bytes!LeastValue(w) = BytesProofs!Bytes!LeastValue(w)
    BY Zenon DEF
     Bytes!LeastValue, Bytes!PREFIX_U16, Bytes!Radix2, Bytes!Radix4,
     BytesProofs!Bytes!LeastValue, BytesProofs!Bytes!PREFIX_U16, BytesProofs!Bytes!Radix2, BytesProofs!Bytes!Radix4
  <2>3. \A buf : Bytes!compact_size_decode_u64(buf) = BytesProofs!Bytes!compact_size_decode_u64(buf)
    BY <1>2, <2>1, <2>2 DEF Bytes!compact_size_decode_u64, BytesProofs!Bytes!compact_size_decode_u64
  <2>. QED
    BY <2>3 DEF Bytes!DecodeLength, BytesProofs!Bytes!DecodeLength
<1>5. \A v : Bytes!encode(v) = BytesProofs!Bytes!encode(v) /\ Bytes!encoded_size(v) = BytesProofs!Bytes!encoded_size(v)
  BY Zenon DEF
   Bytes!PREFIX_U16, Bytes!PREFIX_U32, Bytes!PREFIX_U64, Bytes!Radix2, Bytes!Radix4,
   Bytes!Radix8, Bytes!Weight, Bytes!ToLe, Bytes!encode, Bytes!encoded_size,
   BytesProofs!Bytes!PREFIX_U16, BytesProofs!Bytes!PREFIX_U32, BytesProofs!Bytes!PREFIX_U64,
   BytesProofs!Bytes!Radix2, BytesProofs!Bytes!Radix4, BytesProofs!Bytes!Radix8, BytesProofs!Bytes!Weight,
   BytesProofs!Bytes!ToLe, BytesProofs!Bytes!encode, BytesProofs!Bytes!encoded_size
<1>. QED
  BY <1>1, <1>2, <1>3, <1>4, <1>5

LEMMA SameBytes ==
  /\ Bytes!ByteVecAssumption <=> BytesProofs!Bytes!ByteVecAssumption
  /\ Bytes!ByteVecInit <=> BytesProofs!Bytes!ByteVecInit
  /\ Bytes!ByteVecNext <=> BytesProofs!Bytes!ByteVecNext
  /\ Bytes!BufferIsPayload <=> BytesProofs!Bytes!BufferIsPayload
<1>0. /\ Bytes!ByteVecAssumption <=> BytesProofs!Bytes!ByteVecAssumption
      /\ Bytes!ByteVecInit <=> BytesProofs!Bytes!ByteVecInit
  BY SameCompactSize, Zenon DEF
   Bytes!ByteVecAssumption, Bytes!ByteVecInit, BytesProofs!Bytes!ByteVecAssumption,
   BytesProofs!Bytes!ByteVecInit
<1>1. \A k : Bytes!PrefixTakes(k) = BytesProofs!Bytes!PrefixTakes(k)
  BY SameCompactSize, Zenon DEF Bytes!PrefixTakes, BytesProofs!Bytes!PrefixTakes
<1>2. \A k : Bytes!PrefixWith(k) = BytesProofs!Bytes!PrefixWith(k)
  BY <1>1, Zenon DEF Bytes!PrefixWith, BytesProofs!Bytes!PrefixWith, Bytes!Offered,
     BytesProofs!Bytes!Offered
<1>3. \A k : Bytes!PrefixReady(k) = BytesProofs!Bytes!PrefixReady(k)
  BY <1>2, SameCompactSize, Zenon DEF Bytes!PrefixReady, BytesProofs!Bytes!PrefixReady
<1>4. \A k : Bytes!LengthRead(k) = BytesProofs!Bytes!LengthRead(k)
  BY <1>2, SameCompactSize, Zenon DEF Bytes!LengthRead, BytesProofs!Bytes!LengthRead
<1>5. \A k, skip, e : Bytes!CopyPayload(k, skip, e) <=> BytesProofs!Bytes!CopyPayload(k, skip, e)
  <2>1. \A w, e : Bytes!Reserved(w, e) = BytesProofs!Bytes!Reserved(w, e)
    BY Zenon DEF Bytes!Reserved, BytesProofs!Bytes!Reserved, Bytes!Lesser, BytesProofs!Bytes!Lesser
  <2>2. \A k, e : Bytes!copy_len(k, e) = BytesProofs!Bytes!copy_len(k, e)
    BY <2>1, Zenon DEF Bytes!copy_len, BytesProofs!Bytes!copy_len, Bytes!Lesser,
       BytesProofs!Bytes!Lesser,
       Bytes!bytes_written, BytesProofs!Bytes!bytes_written
  <2>. QED
    BY <2>1, <2>2, Zenon DEF
     Bytes!CopyPayload, Bytes!Offered, Bytes!Status, Bytes!bytes_written,
     BytesProofs!Bytes!CopyPayload, BytesProofs!Bytes!Offered, BytesProofs!Bytes!Status,
     BytesProofs!Bytes!bytes_written
<1>6. \A k : Bytes!Push(k) <=> BytesProofs!Bytes!Push(k)
  BY <1>1, <1>2, <1>3, <1>4, <1>5, Zenon DEF
   Bytes!Push, Bytes!PushPrefix, Bytes!PushBadPrefix, Bytes!PushPayload, Bytes!Calling,
   BytesProofs!Bytes!Push, BytesProofs!Bytes!PushPrefix, BytesProofs!Bytes!PushBadPrefix,
   BytesProofs!Bytes!PushPayload, BytesProofs!Bytes!Calling
<1>7. Bytes!ByteVecNext <=> BytesProofs!Bytes!ByteVecNext
  BY <1>6, Zenon DEF
   Bytes!ByteVecNext, Bytes!ByteVecEnd, Bytes!Returned, Bytes!bytes_written, Bytes!Calling,
   Bytes!vars, BytesProofs!Bytes!ByteVecNext, BytesProofs!Bytes!ByteVecEnd, BytesProofs!Bytes!Returned,
   BytesProofs!Bytes!bytes_written, BytesProofs!Bytes!Calling, BytesProofs!Bytes!vars
<1>8. Bytes!BufferIsPayload <=> BytesProofs!Bytes!BufferIsPayload
  BY SameCompactSize, Zenon DEF
   Bytes!BufferIsPayload, Bytes!PrefixLen, Bytes!bytes_written,
   BytesProofs!Bytes!BufferIsPayload, BytesProofs!Bytes!PrefixLen, BytesProofs!Bytes!bytes_written
<1>. QED
  BY <1>0, <1>7, <1>8

LEMMA SameWitness ==
  /\ WitnessInit <=> BytesProofs!WitnessInit
  /\ WitnessNext <=> BytesProofs!WitnessNext
  /\ UNCHANGED vars => UNCHANGED BytesProofs!vars
  /\ RepresentsList <=> BytesProofs!RepresentsList
<1>1. Byte = BytesProofs!Byte /\ \A f : EncodedLen(f) = BytesProofs!EncodedLen(f)
  BY Zenon DEF
     Byte, PREFIX_U16, PREFIX_U32, PREFIX_U64, PayloadWidth, EncodedLen, BytesProofs!Byte,
     BytesProofs!PREFIX_U16, BytesProofs!PREFIX_U32, BytesProofs!PREFIX_U64,
     BytesProofs!PayloadWidth, BytesProofs!EncodedLen
<1>2. \A v : encode(v) = BytesProofs!encode(v)
  BY Zenon DEF
     PREFIX_U16, PREFIX_U32, PREFIX_U64, Radix2, Radix4, Radix8, Weight, ToLe, encode,
     BytesProofs!PREFIX_U16, BytesProofs!PREFIX_U32, BytesProofs!PREFIX_U64,
     BytesProofs!Radix2, BytesProofs!Radix4, BytesProofs!Radix8, BytesProofs!Weight,
     BytesProofs!ToLe, BytesProofs!encode
<1>3. \A buf : PayloadValue(buf) = BytesProofs!PayloadValue(buf)
  BY Zenon DEF
     PayloadValue, FromLe2, FromLe4, FromLe8, Radix2, Radix4, BytesProofs!PayloadValue,
     BytesProofs!FromLe2, BytesProofs!FromLe4, BytesProofs!FromLe8, BytesProofs!Radix2,
     BytesProofs!Radix4
<1>4. \A buf, max : DecodeLength(buf, max) = BytesProofs!DecodeLength(buf, max)
  <2>1. \A w : LeastValue(w) = BytesProofs!LeastValue(w)
    BY Zenon DEF
       LeastValue, PREFIX_U16, Radix2, Radix4, BytesProofs!LeastValue, BytesProofs!PREFIX_U16,
       BytesProofs!Radix2, BytesProofs!Radix4
  <2>2. \A buf : compact_size_decode_u64(buf) = BytesProofs!compact_size_decode_u64(buf)
    BY <1>1, <1>3, <2>1 DEF compact_size_decode_u64, BytesProofs!compact_size_decode_u64
  <2>. QED
    BY <2>2 DEF DecodeLength, BytesProofs!DecodeLength
<1>5. \A s : FlattenSeq(s) = BytesProofs!FlattenSeq(s)
  BY Zenon DEF
     FlattenSeq, BytesProofs!FlattenSeq
<1>6. \A e : Prefixed(e) = BytesProofs!Prefixed(e)
  BY <1>2, Zenon DEF
     Prefixed, BytesProofs!Prefixed
<1>7. \A l : Contents(l) = BytesProofs!Contents(l)
  BY <1>5, <1>6, Zenon DEF
     Contents, BytesProofs!Contents
<1>8. \A l : Canonical(l) = BytesProofs!Canonical(l)
  BY <1>7, Zenon DEF
     Canonical, Index, BytesProofs!Canonical, BytesProofs!Index
<1>9. \A s, p : LengthAt(s, p) = BytesProofs!LengthAt(s, p)
  BY <1>1, <1>3, Zenon DEF
     LengthAt, BytesProofs!LengthAt
<1>10. \A s, p, t : Overwrite(s, p, t) = BytesProofs!Overwrite(s, p, t)
  BY Zenon DEF
     Overwrite, BytesProofs!Overwrite
<1>11. \A i : get(i) = BytesProofs!get(i)
  BY <1>9, Zenon DEF
     get, None, BytesProofs!get, BytesProofs!None
<1>12. \A e : WithPushed(e) = BytesProofs!WithPushed(e)
  BY <1>6, <1>10, Zenon DEF
     WithPushed, RotateRight, Index, BytesProofs!WithPushed, BytesProofs!RotateRight,
     BytesProofs!Index
<1>13. \A buf : Taken(buf) = BytesProofs!Taken(buf)
  BY <1>1, Zenon DEF
     Taken, Slice, compact_size_push_bytes, BytesProofs!Taken, BytesProofs!Slice,
     BytesProofs!compact_size_push_bytes
<1>14. read_limit = BytesProofs!read_limit
  BY <1>1, Zenon DEF
     read_limit, compact_size_read_limit, None, BytesProofs!read_limit,
     BytesProofs!compact_size_read_limit, BytesProofs!None
<1>15. read_limit' = BytesProofs!read_limit'
  BY <1>1, Zenon DEF
     read_limit, compact_size_read_limit, None, BytesProofs!read_limit,
     BytesProofs!compact_size_read_limit, BytesProofs!None
<1>16. \A a : Return(a) <=> BytesProofs!Return(a)
  BY <1>15, Zenon DEF
     Return, BytesProofs!Return
<1>17. \A l : TooLong(l) = BytesProofs!TooLong(l) /\ \A i : UpToLength(l, i) = BytesProofs!UpToLength(l, i)
  BY <1>2, <1>7, Zenon DEF
     TooLong, LengthLimit, UpToLength, BytesProofs!TooLong, BytesProofs!LengthLimit,
     BytesProofs!UpToLength
<1>18. WitnessInit <=> BytesProofs!WitnessInit
  BY <1>2, <1>7, <1>17, Zenon DEF
     WitnessInit, Lists, PREFIX_U64, None, BytesProofs!WitnessInit, BytesProofs!Lists,
     BytesProofs!PREFIX_U64, BytesProofs!None
<1>19. Walked = BytesProofs!Walked
  BY Zenon DEF
     Walked, Index, LengthAt, EncodedLen, PayloadWidth, PREFIX_U16, PREFIX_U32, PREFIX_U64,
     PayloadValue, FromLe2, FromLe4, FromLe8, Radix2, Radix4, BytesProofs!Walked,
     BytesProofs!Index, BytesProofs!LengthAt, BytesProofs!EncodedLen, BytesProofs!PayloadWidth,
     BytesProofs!PREFIX_U16, BytesProofs!PREFIX_U32, BytesProofs!PREFIX_U64,
     BytesProofs!PayloadValue, BytesProofs!FromLe2, BytesProofs!FromLe4, BytesProofs!FromLe8,
     BytesProofs!Radix2, BytesProofs!Radix4
<1>20. /\ \A k : PushCall(k) <=> BytesProofs!PushCall(k)
       /\ \A e : Push(e) <=> BytesProofs!Push(e)
       /\ (Clear <=> BytesProofs!Clear) /\ (Returned <=> BytesProofs!Returned)
  BY <1>6, <1>12, Zenon DEF
     PushCall, GoOn, Push, Clear, Returned, None, vars, witness, input, progress, seen,
     BytesProofs!PushCall, BytesProofs!GoOn, BytesProofs!Push, BytesProofs!Clear,
     BytesProofs!Returned, BytesProofs!None, BytesProofs!vars, BytesProofs!witness,
     BytesProofs!input, BytesProofs!progress, BytesProofs!seen
<1>21. FromSlice <=> BytesProofs!FromSlice
  BY <1>6, <1>7, <1>10, Zenon DEF
     FromSlice, Index, witness, input, progress, seen, BytesProofs!FromSlice,
     BytesProofs!Index, BytesProofs!witness, BytesProofs!input, BytesProofs!progress,
     BytesProofs!seen
<1>22. Count <=> BytesProofs!Count
  BY <1>4, <1>13, <1>16, Zenon DEF
     Count, Take, GoOn, None, input, seen, BytesProofs!Count, BytesProofs!Take,
     BytesProofs!GoOn, BytesProofs!None, BytesProofs!input, BytesProofs!seen
<1>23. LoopReturns <=> BytesProofs!LoopReturns
  BY <1>16, Zenon DEF
     LoopReturns, Loop, input, BytesProofs!LoopReturns, BytesProofs!Loop, BytesProofs!input
<1>24. LoopData <=> BytesProofs!LoopData
  BY Zenon DEF
     LoopData, Loop, Slice, Take, GoOn, None, input, seen, BytesProofs!LoopData,
     BytesProofs!Loop, BytesProofs!Slice, BytesProofs!Take, BytesProofs!GoOn, BytesProofs!None,
     BytesProofs!input, BytesProofs!seen
<1>25. LoopLength <=> BytesProofs!LoopLength
  BY <1>2, <1>4, <1>13, <1>16, Zenon DEF
     LoopLength, Loop, Take, GoOn, None, input, seen, BytesProofs!LoopLength, BytesProofs!Loop,
     BytesProofs!Take, BytesProofs!GoOn, BytesProofs!None, BytesProofs!input, BytesProofs!seen
<1>26. End <=> BytesProofs!End
  BY <1>19, Zenon DEF
     End, Complete, None, input, progress, BytesProofs!End, BytesProofs!Complete,
     BytesProofs!None, BytesProofs!input, BytesProofs!progress
<1>27. WitnessNext <=> BytesProofs!WitnessNext
  BY <1>20, <1>21, <1>22, <1>23, <1>24, <1>25, <1>26, Zenon DEF
     WitnessNext, BytesProofs!WitnessNext
<1>28. RepresentsList <=> BytesProofs!RepresentsList
  BY <1>7, <1>8, <1>11, Zenon DEF
     RepresentsList, None, BytesProofs!RepresentsList, BytesProofs!None
<1>29. UNCHANGED vars => UNCHANGED BytesProofs!vars
  BY Zenon DEF
     vars, witness, input, progress, seen, BytesProofs!vars, BytesProofs!witness,
     BytesProofs!input, BytesProofs!progress, BytesProofs!seen
<1>. QED
  BY <1>18, <1>27, <1>28, <1>29

VecProofs == INSTANCE VecDecoderProofs

LEMMA SameVec ==
  /\ Vec!VecAssumption <=> VecProofs!VecAssumption
  /\ Vec!VecInit <=> VecProofs!VecInit
  /\ Vec!VecNext <=> VecProofs!VecNext
  /\ Vec!VecAligned <=> VecProofs!VecAligned
<1>1. /\ Vec!VecAssumption <=> VecProofs!VecAssumption
      /\ Vec!VecInit <=> VecProofs!VecInit
      /\ Vec!VecAligned <=> VecProofs!VecAligned
  BY DEF Vec!VecAssumption, VecProofs!VecAssumption, Vec!VecInit, VecProofs!VecInit,
     Vec!Layouts, VecProofs!Layouts, Vec!VecAligned, VecProofs!VecAligned
<1>2. Vec!VecNext <=> VecProofs!VecNext
  BY DEF
   Vec!input, Vec!itemVars, Vec!seen, Vec!vars, Vec!Lesser, Vec!read_limit, Vec!At,
   Vec!Return, Vec!GoOn, Vec!Take, Vec!PushCall, Vec!Prefix, Vec!Reserved, Vec!LoopItem,
   Vec!LoopDone, Vec!ItemPush, Vec!ItemDone, Vec!VecEnd, Vec!Returned, Vec!VecNext,
   Vec!Item!Push, Vec!Item!Takes, Vec!Item!Limits, Vec!Item!Settle, Vec!Item!End,
   Vec!Item!Lesser, VecProofs!input, VecProofs!itemVars, VecProofs!seen, VecProofs!vars,
   VecProofs!Lesser, VecProofs!read_limit, VecProofs!At, VecProofs!Return, VecProofs!GoOn,
   VecProofs!Take, VecProofs!PushCall, VecProofs!Prefix, VecProofs!Reserved,
   VecProofs!LoopItem, VecProofs!LoopDone, VecProofs!ItemPush, VecProofs!ItemDone,
   VecProofs!VecEnd, VecProofs!Returned, VecProofs!VecNext, VecProofs!Item!Push,
   VecProofs!Item!Takes, VecProofs!Item!Limits, VecProofs!Item!Settle, VecProofs!Item!End,
   VecProofs!Item!Lesser
<1>. QED
  BY <1>1, <1>2

-----------------------------------------------------------------------------
(* The codecs together. *)

Codecs == {"bytes", "vec", "witness", "transaction", "encoder"}

\* The decoder or encoder at work is in a state its own proofs speak of.
CodecsInv ==
  /\ codec \in Codecs
  /\ codec = "bytes" => BytesProofs!ByteVecInv
  /\ codec = "vec" => VecProofs!VecInv
  /\ codec = "encoder" => EncoderInv
  /\ codec = "transaction" => TxInv
  /\ codec = "witness" => BytesProofs!WitnessInv

LEMMA Assumed ==
  BytesProofs!Bytes!ByteVecAssumption /\ VecProofs!VecAssumption /\ Enc!EncoderAssumption
    /\ Tx!TransactionAssumption
BY CodecAssumption, SameBytes, SameVec

LEMMA CodecsInitEstablishes == CodecsInit => CodecsInv
<1>. SUFFICES ASSUME CodecsInit PROVE CodecsInv
  OBVIOUS
<1>1. codec = "bytes" => BytesProofs!ByteVecInv
  BY Assumed, SameBytes, BytesAssumed, BytesProofs!BytesInitEstablishes DEF CodecsInit
<1>2. codec = "vec" => VecProofs!VecInv
  BY Assumed, SameVec, VecProofs!InitEstablishes DEF CodecsInit
<1>3. codec = "encoder" => EncoderInv
  <2>1. codec = "encoder" => Enc!Init
    BY DEF CodecsInit
  <2>. QED
    BY <2>1, Assumed, EncoderInitEstablishes
<1>4. codec = "transaction" => TxInv
  <2>1. codec = "transaction" => Tx!TransactionInit
    BY DEF CodecsInit
  <2>. QED
    BY <2>1, Assumed, TxStart
<1>5. codec = "witness" => BytesProofs!WitnessInv
  BY SameWitness, BytesAssumed, BytesProofs!WitnessInitEstablishes
     DEF CodecsInit
<1>6. codec \in Codecs
  BY DEF CodecsInit, Codecs
<1>. QED
  BY <1>1, <1>2, <1>3, <1>4, <1>5, <1>6 DEF CodecsInv

\* A step of the codec that runs is a step of it and of nothing else.
LEMMA OneRuns ==
  ASSUME [CodecsNext]_codecVars
  PROVE  /\ codec' = codec
         /\ codec = "bytes" => [BytesProofs!Bytes!ByteVecNext]_(BytesProofs!Bytes!vars)
         /\ codec = "vec" => [VecProofs!VecNext]_(VecProofs!vars)
         /\ codec = "encoder" => [Enc!Next]_(Enc!vars)
         /\ codec = "transaction" => [Tx!TransactionNext]_(Tx!vars)
         /\ codec = "witness" => [BytesProofs!WitnessNext]_(BytesProofs!vars)
<1>1. codec' = codec
  BY DEF CodecsNext, BytesStep, VecStep, WitnessStep, TxStep, EncoderStep, codecVars
<1>2. ASSUME codec = "bytes" PROVE [BytesProofs!Bytes!ByteVecNext]_(BytesProofs!Bytes!vars)
  <2>1. BytesStep \/ UNCHANGED codecVars
    BY <1>2 DEF CodecsNext, BytesStep, VecStep, WitnessStep, TxStep, EncoderStep
  <2>2. UNCHANGED codecVars => UNCHANGED BytesProofs!Bytes!vars
    BY DEF codecVars, bytesVars, bytesVecVars, seenVars, BytesProofs!Bytes!vars
  <2>. QED
    BY <2>1, <2>2, SameBytes DEF BytesStep
<1>3. ASSUME codec = "vec" PROVE [VecProofs!VecNext]_(VecProofs!vars)
  <2>1. VecStep \/ UNCHANGED codecVars
    BY <1>3 DEF CodecsNext, BytesStep, VecStep, WitnessStep, TxStep, EncoderStep
  <2>2. UNCHANGED codecVars => UNCHANGED VecProofs!vars
    BY DEF codecVars, bytesVecVars, vecVars, vecTxVars, callVars, seenVars, VecProofs!vars,
       VecProofs!input, VecProofs!itemVars, VecProofs!seen
  <2>. QED
    BY <2>1, <2>2, SameVec DEF VecStep
<1>4. ASSUME codec = "encoder" PROVE [Enc!Next]_(Enc!vars)
  <2>1. EncoderStep \/ UNCHANGED codecVars
    BY <1>4 DEF CodecsNext, BytesStep, VecStep, WitnessStep, TxStep, EncoderStep
  <2>2. UNCHANGED codecVars => UNCHANGED Enc!vars
    BY DEF codecVars, encoderVars, Enc!vars, Enc!encoder
  <2>. QED
    BY <2>1, <2>2 DEF EncoderStep
<1>5. ASSUME codec = "transaction" PROVE [Tx!TransactionNext]_(Tx!vars)
  <2>1. TxStep \/ UNCHANGED codecVars
    BY <1>5 DEF CodecsNext, BytesStep, VecStep, WitnessStep, TxStep, EncoderStep
  <2>2. UNCHANGED codecVars => UNCHANGED Tx!vars
    BY DEF codecVars, vecTxVars, txVars, callVars, seenVars, Tx!vars, Tx!input, Tx!carried,
       Tx!decoder, Tx!seen
  <2>. QED
    BY <2>1, <2>2 DEF TxStep
<1>6. ASSUME codec = "witness" PROVE [BytesProofs!WitnessNext]_(BytesProofs!vars)
  <2>1. WitnessStep \/ UNCHANGED codecVars
    BY <1>6 DEF CodecsNext, BytesStep, VecStep, WitnessStep, TxStep, EncoderStep
  <2>2. UNCHANGED codecVars => UNCHANGED vars
    BY DEF codecVars, witnessVars, callVars, seenVars, vars, witness, input, progress, seen
  <2>. QED
    BY <2>1, <2>2, SameWitness DEF WitnessStep
<1>. QED
  BY <1>1, <1>2, <1>3, <1>4, <1>5, <1>6

LEMMA CodecsStepKeeps == CodecsInv /\ [CodecsNext]_codecVars => CodecsInv'
<1>. SUFFICES ASSUME CodecsInv, [CodecsNext]_codecVars PROVE CodecsInv'
  OBVIOUS
<1>1. codec' = codec
  BY OneRuns
<1>2. ASSUME codec = "bytes" PROVE BytesProofs!ByteVecInv'
  BY <1>2, OneRuns, Assumed, BytesAssumed, BytesProofs!BytesStepKeeps DEF CodecsInv
<1>3. ASSUME codec = "vec" PROVE VecProofs!VecInv'
  BY <1>3, OneRuns, Assumed, VecProofs!StepKeeps DEF CodecsInv
<1>4. ASSUME codec = "encoder" PROVE EncoderInv'
  BY <1>4, OneRuns, Assumed, EncoderStepKeeps DEF CodecsInv
<1>5. ASSUME codec = "transaction" PROVE TxInv'
  BY <1>5, OneRuns, Assumed, TxInvKeeps DEF CodecsInv
<1>6. ASSUME codec = "witness" PROVE BytesProofs!WitnessInv'
  BY <1>6, OneRuns, BytesAssumed, BytesProofs!WitnessStepKeeps DEF CodecsInv
<1>. QED
  BY <1>1, <1>2, <1>3, <1>4, <1>5, <1>6 DEF CodecsInv

-----------------------------------------------------------------------------
(* The decoder at work, as the caller of the trait sees it. *)

\* The caller of the trait sees these, and will see those.
Seen(t, v, p, f, l) ==
  decoderTotal = t /\ decoderVerdict = v /\ decoderPos = p /\ decoderPhase = f /\ decoderLimit = l

LEMMA SameBytesSeen ==
  /\ Bytes!Total = BytesProofs!Bytes!Total /\ Bytes!Verdict = BytesProofs!Bytes!Verdict
  /\ Bytes!read_limit = BytesProofs!Bytes!read_limit
  /\ Bytes!NeverStalls <=> BytesProofs!Bytes!NeverStalls
<1>1. Bytes!read_limit = BytesProofs!Bytes!read_limit
  BY SameCompactSize, Zenon DEF Bytes!read_limit, BytesProofs!Bytes!read_limit,
     Bytes!compact_size_read_limit, BytesProofs!Bytes!compact_size_read_limit,
     Bytes!bytes_written, BytesProofs!Bytes!bytes_written
<1>2. Bytes!PrefixLen = BytesProofs!Bytes!PrefixLen
  BY SameCompactSize, Zenon DEF Bytes!PrefixLen, BytesProofs!Bytes!PrefixLen
<1>3. Bytes!Announced = BytesProofs!Bytes!Announced
  BY <1>2, SameCompactSize, Zenon DEF Bytes!Announced, BytesProofs!Bytes!Announced
<1>4. Bytes!Total = BytesProofs!Bytes!Total /\ Bytes!Verdict = BytesProofs!Bytes!Verdict
  BY <1>2, <1>3, Zenon DEF Bytes!Total, BytesProofs!Bytes!Total, Bytes!Verdict,
     BytesProofs!Bytes!Verdict
<1>5. \A k : Bytes!PrefixTakes(k) = BytesProofs!Bytes!PrefixTakes(k)
  BY SameCompactSize, Zenon DEF Bytes!PrefixTakes, BytesProofs!Bytes!PrefixTakes
<1>6. \A k, e : Bytes!copy_len(k, e) = BytesProofs!Bytes!copy_len(k, e)
  BY Zenon DEF Bytes!copy_len, BytesProofs!Bytes!copy_len, Bytes!Lesser,
     BytesProofs!Bytes!Lesser, Bytes!Reserved, BytesProofs!Bytes!Reserved,
     Bytes!bytes_written, BytesProofs!Bytes!bytes_written
<1>7. Bytes!NeverStalls <=> BytesProofs!Bytes!NeverStalls
  BY <1>5, <1>6, Zenon DEF Bytes!NeverStalls, BytesProofs!Bytes!NeverStalls
<1>. QED
  BY <1>1, <1>4, <1>7

LEMMA SameVecSeen ==
  /\ Vec!Total = VecProofs!Total /\ Vec!Verdict = VecProofs!Verdict
  /\ Vec!PushMoves <=> VecProofs!PushMoves
BY Zenon DEF Vec!Total, VecProofs!Total, Vec!Verdict, VecProofs!Verdict, Vec!PushMoves,
   VecProofs!PushMoves

\* The variables of the trait's specification are those of the codec that runs.
BytesSeen ==
  Seen(BytesProofs!Bytes!Total, BytesProofs!Bytes!Verdict, pos, phase,
       IF phase = "failed" THEN 0 ELSE BytesProofs!Bytes!read_limit)
VecSeen ==
  Seen(VecProofs!Total, VecProofs!Verdict, pos, phase, IF phase = "failed" THEN 0 ELSE limit)
WitnessSeen ==
  Seen(total, verdict, pos, phase, IF phase \in {"more", "err"} THEN limit ELSE 0)
TxSeen == Seen(Tx!Total, Tx!Verdict, pos, phase, IF phase = "failed" THEN 0 ELSE limit)
NothingSeen == Seen(0, "ok", 0, "more", 0)

SeenOf ==
  /\ codec = "bytes" => BytesSeen
  /\ codec = "vec" => VecSeen
  /\ codec = "witness" => WitnessSeen
  /\ codec = "transaction" => TxSeen
  /\ codec = "encoder" => NothingSeen

LEMMA SeenIs == SeenOf
<1>1. codec = "bytes" => BytesSeen
  BY SameBytesSeen DEF BytesSeen, Seen, decoderTotal, decoderVerdict, decoderPos, decoderPhase,
     decoderLimit, IsDecoder
<1>2. codec = "vec" => VecSeen
  BY SameVecSeen DEF VecSeen, Seen, decoderTotal, decoderVerdict, decoderPos, decoderPhase,
     decoderLimit, IsDecoder
<1>3. codec = "witness" => WitnessSeen
  BY DEF WitnessSeen, Seen, decoderTotal, decoderVerdict, decoderPos, decoderPhase,
     decoderLimit, IsDecoder
<1>4. codec = "transaction" => TxSeen
  BY DEF TxSeen, Seen, decoderTotal, decoderVerdict, decoderPos, decoderPhase,
     decoderLimit, IsDecoder
<1>5. codec = "encoder" => NothingSeen
  BY DEF NothingSeen, Seen, decoderTotal, decoderVerdict, decoderPos, decoderPhase,
     decoderLimit, IsDecoder
<1>. QED
  BY <1>1, <1>2, <1>3, <1>4, <1>5 DEF SeenOf

LEMMA TraitInit == ASSUME CodecsInit PROVE Trait!Init
<1>. USE DEF Trait!Init, Trait!Fresh, Trait!Verdicts, Trait!Limits, Seen
<1>1. CASE codec = "bytes"
  <2>1. BytesProofs!Bytes!Contract!Init
    BY <1>1, Assumed, SameBytes, BytesAssumed, BytesProofs!BytesInitRefines DEF CodecsInit
  <2>2. BytesSeen
    BY <1>1, SeenIs DEF SeenOf
  <2>. QED
    BY <2>1, <2>2 DEF BytesProofs!Bytes!Contract!Init, BytesProofs!Bytes!Contract!Fresh,
       BytesProofs!Bytes!Contract!Verdicts, BytesProofs!Bytes!Contract!Limits, BytesSeen
<1>2. CASE codec = "vec"
  <2>1. VecProofs!Contract!Init
    BY <1>2, Assumed, SameVec, VecProofs!InitRefines DEF CodecsInit
  <2>2. VecSeen
    BY <1>2, SeenIs DEF SeenOf
  <2>. QED
    BY <2>1, <2>2 DEF VecProofs!Contract!Init, VecProofs!Contract!Fresh,
       VecProofs!Contract!Verdicts, VecProofs!Contract!Limits, VecSeen
<1>3. CASE codec = "witness"
  <2>1. BytesProofs!Contract!Init
    BY <1>3, SameWitness, BytesAssumed, BytesProofs!WitnessInitRefines DEF CodecsInit
  <2>2. WitnessSeen
    BY <1>3, SeenIs DEF SeenOf
  <2>. QED
    BY <2>1, <2>2 DEF BytesProofs!Contract!Init, BytesProofs!Contract!Fresh,
       BytesProofs!Contract!Verdicts, BytesProofs!Contract!Limits, WitnessSeen
<1>4. CASE codec = "transaction"
  <2>1. Tx!Contract!Init
    BY <1>4, Assumed, TxInitRefines DEF CodecsInit
  <2>2. TxSeen
    BY <1>4, SeenIs DEF SeenOf
  <2>. QED
    BY <2>1, <2>2 DEF Tx!Contract!Init, Tx!Contract!Fresh, Tx!Contract!Verdicts,
       Tx!Contract!Limits, TxSeen
<1>5. CASE codec = "encoder"
  <2>1. NothingSeen
    BY <1>5, SeenIs DEF SeenOf
  <2>. QED
    BY <2>1 DEF NothingSeen
<1>. QED
  BY <1>1, <1>2, <1>3, <1>4, <1>5 DEF CodecsInit

\* What the decoder at work is seen to be, and what that says of it.
CodecsStanding ==
  /\ SeenOf
  /\ codec = "bytes" => BytesProofs!BytesStanding
  /\ codec = "witness" => BytesProofs!WitnessStanding
  /\ codec = "transaction" => TxStanding

LEMMA CodecsStand == CodecsInv => CodecsStanding
<1>. SUFFICES ASSUME CodecsInv PROVE CodecsStanding
  OBVIOUS
<1>1. codec = "bytes" => BytesProofs!BytesStanding
  BY Assumed, BytesAssumed, BytesProofs!BytesInvStanding DEF CodecsInv
<1>2. codec = "witness" => BytesProofs!WitnessStanding
  BY BytesAssumed, BytesProofs!StandingAt DEF CodecsInv
<1>3. codec = "transaction" => TxStanding
  BY Assumed, TxStandingAt DEF CodecsInv
<1>. QED
  BY <1>1, <1>2, <1>3, SeenIs DEF CodecsStanding

LEMMA TraitStep ==
  ASSUME CodecsInv, CodecsStanding, CodecsStanding', [CodecsNext]_codecVars
  PROVE  [Trait!Next]_(Trait!contractVars)
<1>. USE DEF Seen, Trait!contractVars, Trait!Next, Trait!Push, Trait!End, Trait!Takes,
     Trait!Limits, Trait!Settle, Trait!Lesser
<1>0. codec' = codec
  BY OneRuns
<1>1. CASE codec = "bytes"
  <2>1. [BytesProofs!Bytes!Contract!Next]_(BytesProofs!Bytes!Contract!contractVars)
    BY <1>1, OneRuns, Assumed, BytesAssumed, BytesProofs!BytesStepRefines, <1>0
       DEF CodecsInv, CodecsStanding
  <2>2. BytesSeen /\ BytesSeen'
    BY <1>0, <1>1 DEF SeenOf, CodecsStanding
  <2>. QED
    BY <2>1, <2>2 DEF BytesSeen, BytesProofs!Bytes!Contract!contractVars,
       BytesProofs!Bytes!Contract!Next, BytesProofs!Bytes!Contract!Push,
       BytesProofs!Bytes!Contract!End, BytesProofs!Bytes!Contract!Takes,
       BytesProofs!Bytes!Contract!Limits, BytesProofs!Bytes!Contract!Settle,
       BytesProofs!Bytes!Contract!Lesser
<1>2. CASE codec = "vec"
  <2>1. [VecProofs!Contract!Next]_(VecProofs!Contract!contractVars)
    BY <1>2, OneRuns, Assumed, VecProofs!StepRefines DEF CodecsInv
  <2>2. VecSeen /\ VecSeen'
    BY <1>0, <1>2 DEF SeenOf, CodecsStanding
  <2>. QED
    BY <2>1, <2>2 DEF VecSeen, VecProofs!Contract!contractVars, VecProofs!Contract!Next,
       VecProofs!Contract!Push, VecProofs!Contract!End, VecProofs!Contract!Takes,
       VecProofs!Contract!Limits, VecProofs!Contract!Settle, VecProofs!Contract!Lesser
<1>3. CASE codec = "witness"
  <2>1. [BytesProofs!Contract!Next]_(BytesProofs!Contract!contractVars)
    BY <1>3, OneRuns, BytesAssumed, BytesProofs!WitnessStepRefines, <1>0
       DEF CodecsInv, CodecsStanding
  <2>2. WitnessSeen /\ WitnessSeen'
    BY <1>0, <1>3 DEF SeenOf, CodecsStanding
  <2>. QED
    BY <2>1, <2>2 DEF WitnessSeen, BytesProofs!Contract!contractVars,
       BytesProofs!Contract!Next, BytesProofs!Contract!Push, BytesProofs!Contract!End,
       BytesProofs!Contract!Takes, BytesProofs!Contract!Limits, BytesProofs!Contract!Settle,
       BytesProofs!Contract!Lesser
<1>4. CASE codec = "transaction"
  <2>1. [Tx!Contract!Next]_(Tx!Contract!contractVars)
    BY <1>4, OneRuns, Assumed, TxStepRefines, <1>0 DEF CodecsInv, CodecsStanding
  <2>2. TxSeen /\ TxSeen'
    BY <1>0, <1>4 DEF SeenOf, CodecsStanding
  <2>. QED
    BY <2>1, <2>2 DEF TxSeen, Tx!Contract!contractVars, Tx!Contract!Next, Tx!Contract!Push,
       Tx!Contract!End, Tx!Contract!Takes, Tx!Contract!Limits, Tx!Contract!Settle,
       Tx!Contract!Lesser
<1>5. CASE codec = "encoder"
  <2>1. NothingSeen /\ NothingSeen'
    BY <1>0, <1>5 DEF SeenOf, CodecsStanding
  <2>. QED
    BY <2>1 DEF NothingSeen
<1>. QED
  BY <1>1, <1>2, <1>3, <1>4, <1>5 DEF CodecsInv, Codecs

-----------------------------------------------------------------------------
\* What a vector decoder has collected is what the stream holds up to the byte it stands
\* at, whatever the slices push_bytes was given; and a byte vector that end accepts
\* encodes back to the very bytes that were taken.
THEOREM PayloadCollected == CodecsSpec => []VectorsAreThePayload
<1>1. CodecsInit => CodecsInv
  BY CodecsInitEstablishes
<1>2. CodecsInv /\ [CodecsNext]_codecVars => CodecsInv'
  BY CodecsStepKeeps
<1>3. CodecsInv => VectorsAreThePayload
  <2>. SUFFICES ASSUME CodecsInv PROVE VectorsAreThePayload
    OBVIOUS
  <2>1. codec = "bytes" => Bytes!BufferIsPayload
    BY Assumed, SameBytes, BytesAssumed, BytesProofs!BytesInvBuffer DEF CodecsInv
  <2>2. codec = "vec" => Vec!VecAligned
    BY SameVec DEF CodecsInv, VecProofs!VecInv
  <2>. QED
    BY <2>1, <2>2 DEF VectorsAreThePayload
<1>. QED
  BY <1>1, <1>2, <1>3, PTL DEF CodecsSpec

\* Every answer of every consumer of an encoder is the stretch of the encoding it should
\* be, whatever the chunks and whichever calls of next, nth and peek_chunk went before;
\* and a consumer stops only where the encoding ends.
THEOREM AnswersAreTheStretch == CodecsSpec => []AnswersAreTheEncoding
<1>1. CodecsInit => CodecsInv
  BY CodecsInitEstablishes
<1>2. CodecsInv /\ [CodecsNext]_codecVars => CodecsInv'
  BY CodecsStepKeeps
<1>3. CodecsInv => AnswersAreTheEncoding
  BY DEF CodecsInv, EncoderInv, AnswersAreTheEncoding
<1>. QED
  BY <1>1, <1>2, <1>3, PTL DEF CodecsSpec

\* Each field of a transaction is read by its own decoder, through either serialization,
\* and a transaction that end accepts encodes back to the very fields that were read: for
\* every set of inputs, outputs and damaged streams.
THEOREM DecodedIsItsEncoding == CodecsSpec => []TransactionIsItsEncoding
<1>1. CodecsInit => CodecsInv
  BY CodecsInitEstablishes
<1>2. CodecsInv /\ [CodecsNext]_codecVars => CodecsInv'
  BY CodecsStepKeeps
<1>3. CodecsInv => TransactionIsItsEncoding
  BY Assumed, FieldsMatch, EncodesBack DEF CodecsInv, TxInv,
     TransactionIsItsEncoding
<1>. QED
  BY <1>1, <1>2, <1>3, PTL DEF CodecsSpec

\* However a witness came about, by the decoder in whatever slices, by from_slice or by
\* pushes onto what was there, the same list has the same buffer, and get finds each element
\* and nothing behind the last: for every set of elements and every limit.
THEOREM WitnessIsItsList == CodecsSpec => []WitnessRepresentsList
<1>1. CodecsInit => CodecsInv
  BY CodecsInitEstablishes
<1>2. CodecsInv /\ [CodecsNext]_codecVars => CodecsInv'
  BY CodecsStepKeeps
<1>3. CodecsInv => WitnessRepresentsList
  BY SameWitness, BytesAssumed, BytesProofs!WitnessIsRepresented DEF CodecsInv,
     WitnessRepresentsList
<1>. QED
  BY <1>1, <1>2, <1>3, PTL DEF CodecsSpec

\* Every one of the decoders keeps the promises of the Decoder trait, however its stream is
\* cut into slices and whenever end is called: it stops exactly behind its encoding, never
\* asks for bytes behind it, accepts exactly what the stream as a whole spells, and a push
\* that asks for more has moved on; for every set of streams, lists and limits.
THEOREM CodecsKeepTheContract == CodecsSpec => DecodersKeepTheContract
<1>1. CodecsInit => CodecsInv
  BY CodecsInitEstablishes
<1>2. CodecsInv /\ [CodecsNext]_codecVars => CodecsInv'
  BY CodecsStepKeeps
<1>3. CodecsInv => CodecsStanding
  BY CodecsStand
<1>4. CodecsInit => Trait!Init
  BY TraitInit
<1>5. CodecsInv /\ CodecsStanding /\ CodecsStanding' /\ [CodecsNext]_codecVars
        => [Trait!Next]_(Trait!contractVars)
  BY TraitStep
<1>6. CodecsInv => (codec = "bytes" => Bytes!NeverStalls)
  BY Assumed, BytesAssumed, SameBytesSeen, BytesProofs!BytesMove DEF CodecsInv
<1>7. CodecsInv /\ [CodecsNext]_codecVars => [codec = "vec" => Vec!PushMoves]_codecVars
  BY OneRuns, Assumed, SameVecSeen, VecProofs!StepMoves DEF CodecsInv
<1>. QED
  BY <1>1, <1>2, <1>3, <1>4, <1>5, <1>6, <1>7, PTL
     DEF CodecsSpec, DecodersKeepTheContract, Trait!Spec

=============================================================================
