---------------------------- MODULE CompactSize ----------------------------
(***************************************************************************)
(* The compact size codec of consensus_encoding/src/compact_size.rs: a     *)
(* length in one byte, or behind one of three marker bytes in 2, 4 or 8    *)
(* little-endian bytes.  A byte has Radix values (256 in the code); the    *)
(* markers are its three highest ones.                                     *)
(***************************************************************************)
EXTENDS Integers, Sequences

CONSTANT Radix

ASSUME RadixAssumption == Radix \in Nat /\ Radix > 3

Byte == 0..(Radix - 1)
PREFIX_U16 == Radix - 3
PREFIX_U32 == Radix - 2
PREFIX_U64 == Radix - 1

Radix2 == Radix * Radix       \* 2^16
Radix4 == Radix2 * Radix2     \* 2^32
Radix8 == Radix4 * Radix4     \* 2^64

-----------------------------------------------------------------------------
\* Bytes of payload behind the first byte.
PayloadWidth(first) ==
  CASE first = PREFIX_U64 -> 8
    [] first = PREFIX_U32 -> 4
    [] first = PREFIX_U16 -> 2
    [] OTHER              -> 0

EncodedLen(first) == 1 + PayloadWidth(first)

FromLe2(b, i) == b[i] + Radix * b[i + 1]
FromLe4(b, i) == FromLe2(b, i) + Radix2 * FromLe2(b, i + 2)
FromLe8(b, i) == FromLe4(b, i) + Radix4 * FromLe4(b, i + 4)

\* What a little-endian byte counts for, by its place.
Weight ==
  <<1, Radix, Radix2, Radix2 * Radix,
    Radix4, Radix4 * Radix, Radix4 * Radix2, Radix4 * Radix2 * Radix>>

ToLe(v, width) == [i \in 1..width |-> (v \div Weight[i]) % Radix]

\* The least value a payload of that width may carry: anything smaller has a
\* shorter encoding.
LeastValue(width) ==
  CASE width = 8 -> Radix4
    [] width = 4 -> Radix2
    [] width = 2 -> PREFIX_U16
    [] OTHER     -> 0

-----------------------------------------------------------------------------
encoded_size(v) ==
  CASE v < PREFIX_U16 -> 1
    [] v \in PREFIX_U16..(Radix2 - 1) -> 3
    [] v \in Radix2..(Radix4 - 1) -> 5
    [] OTHER -> 9

encode(v) ==
  CASE v < PREFIX_U16 -> <<v>>
    [] v \in PREFIX_U16..(Radix2 - 1) -> <<PREFIX_U16>> \o ToLe(v, 2)
    [] v \in Radix2..(Radix4 - 1) -> <<PREFIX_U32>> \o ToLe(v, 4)
    [] OTHER -> <<PREFIX_U64>> \o ToLe(v, 8)

\* compact_size_push_bytes on the n bytes at the head of a non-empty input: how
\* many it moves to a buffer holding `have' bytes that starts, or is about to
\* start, with `first'.
compact_size_push_bytes(have, first, n) ==
  IF n = 0 THEN 0
  ELSE IF n <= EncodedLen(first) - have THEN n ELSE EncodedLen(first) - have

compact_size_read_limit(buf) ==
  IF buf = <<>> THEN 1 ELSE EncodedLen(buf[1]) - Len(buf)

PayloadValue(buf) ==
  CASE Len(buf) = 9 -> FromLe8(buf, 2)
    [] Len(buf) = 5 -> FromLe4(buf, 2)
    [] Len(buf) = 3 -> FromLe2(buf, 2)
    [] OTHER        -> buf[1]

\* Mutant: the minimality check of the markers is forgotten.
compact_size_decode_u64_NonMinimal(buf) ==
  IF buf = <<>> THEN [error |-> "eof", value |-> 0]
  ELSE IF Len(buf) # EncodedLen(buf[1]) THEN [error |-> "eof", value |-> 0]
  ELSE [error |-> "none", value |-> PayloadValue(buf)]

\* The value of a buffer, or why it has none.
compact_size_decode_u64(buf) ==
  IF buf = <<>> THEN [error |-> "eof", value |-> 0]
  ELSE IF Len(buf) # EncodedLen(buf[1]) THEN [error |-> "eof", value |-> 0]
  ELSE IF PayloadValue(buf) < LeastValue(Len(buf) - 1)
       THEN [error |-> "nonminimal", value |-> PayloadValue(buf)]
       ELSE [error |-> "none", value |-> PayloadValue(buf)]

\* CompactSizeDecoder::end: a length above the decoder's limit is an error too.
\* (usize has 64 bits, so usize::try_from does not fail.)
DecodeLength(buf, max) ==
  LET d == compact_size_decode_u64(buf)
  IN IF d.error = "none" /\ d.value > max
     THEN [error |-> "exceeds", value |-> d.value] ELSE d

=============================================================================
