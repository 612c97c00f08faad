--------------------------- MODULE ByteVecDecoder ---------------------------
(***************************************************************************)
(* ByteVecDecoder of consensus_encoding/src/decode/decoders.rs: a compact  *)
(* size prefix, then that many bytes, collected in a Vec<u8> whose memory  *)
(* is reserved in batches so that a peer pays for the memory it claims.    *)
(*                                                                         *)
(* The caller pushes slices of `stream' of any length, and calls end when  *)
(* it likes.  The prefix is decoded by the CompactSizeDecoder inside.      *)
(***************************************************************************)
EXTENDS CompactSize

CONSTANTS
  Streams,               \* bound: the byte streams offered; each holds a whole
                         \* prefix, the payload may be cut short or followed by more
  MaxSize,               \* the decoder's limit (MAX_VEC_SIZE by default)
  MAX_VECTOR_ALLOCATE    \* the largest batch of memory reserved at once

ByteVecAssumption ==
  /\ \A s \in Streams : s \in Seq(Byte) /\ Len(s) > 0 /\ Len(s) >= EncodedLen(s[1])
  /\ MaxSize \in Nat
  /\ MAX_VECTOR_ALLOCATE \in Nat \ {0}

VARIABLES
  stream,           \* everything the caller has to push
  pos,              \* bytes of it consumed
  phase,            \* as in DecoderContract
  in_prefix,        \* prefix_decoder is Some
  prefix,           \* what the CompactSizeDecoder in it has buffered
  bytes_expected,
  buffer,
  capacity          \* of buffer

vars == <<stream, pos, phase, in_prefix, prefix, bytes_expected, buffer, capacity>>

bytes_written == Len(buffer)

Lesser(a, b) == IF a <= b THEN a ELSE b

ByteVecInit ==
  /\ stream \in Streams
  /\ pos = 0
  /\ phase = "more"
  /\ in_prefix = TRUE
  /\ prefix = <<>>
  /\ bytes_expected = 0
  /\ buffer = <<>>
  /\ capacity = 0

-----------------------------------------------------------------------------
Calling == phase \in {"more", "ready"}
Status(written, expected) == IF written < expected THEN "more" ELSE "ready"

\* The slice of n bytes that starts behind the first `skip' unconsumed ones.
Offered(skip, n) == SubSeq(stream, pos + skip + 1, pos + skip + n)

\* What the prefix decoder takes of n bytes, and its buffer afterwards.
PrefixTakes(n) == compact_size_push_bytes(Len(prefix), stream[1], n)
PrefixWith(n) == prefix \o Offered(0, PrefixTakes(n))
PrefixReady(n) == n > 0 /\ Len(PrefixWith(n)) = EncodedLen(stream[1])
LengthRead(n) == DecodeLength(PrefixWith(n), MaxSize)

\* Mutant: the whole announced length is reserved at once.
Reserved_Upfront(written, expected) ==
  IF written = capacity THEN capacity + (expected - written) ELSE capacity

\* reserve(): up to MAX_VECTOR_ALLOCATE more, once the buffer is full.
Reserved(written, expected) ==
  IF written = capacity
  THEN capacity + Lesser(expected - written, MAX_VECTOR_ALLOCATE)
  ELSE capacity

\* push_bytes that leaves the prefix incomplete.
PushPrefix(n) ==
  /\ Calling
  /\ in_prefix
  /\ ~PrefixReady(n)
  /\ prefix' = PrefixWith(n)
  /\ pos' = pos + PrefixTakes(n)
  /\ phase' = "more"
  /\ UNCHANGED <<stream, in_prefix, bytes_expected, buffer, capacity>>

\* push_bytes that completes a prefix which is not minimal or exceeds the limit.
PushBadPrefix(n) ==
  /\ Calling
  /\ in_prefix
  /\ PrefixReady(n)
  /\ LengthRead(n).error # "none"
  /\ in_prefix' = FALSE
  /\ prefix' = <<>>
  /\ pos' = pos + PrefixTakes(n)
  /\ phase' = "failed"
  /\ UNCHANGED <<stream, bytes_expected, buffer, capacity>>

\* What is copied of n bytes: those still expected that fit the capacity.
copy_len(n, expected) ==
  Lesser(Lesser(n, expected - bytes_written), Reserved(bytes_written, expected) - bytes_written)

\* The rest of push_bytes: reserve, then copy.
CopyPayload(n, skip, expected) ==
  /\ capacity' = Reserved(bytes_written, expected)
  /\ buffer' = buffer \o Offered(skip, copy_len(n, expected))
  /\ pos' = pos + skip + copy_len(n, expected)
  /\ phase' = Status(bytes_written + copy_len(n, expected), expected)
  /\ bytes_expected' = expected
  /\ in_prefix' = FALSE
  /\ prefix' = <<>>
  /\ UNCHANGED stream

PushPayload(n) ==
  /\ Calling
  /\ \/ /\ in_prefix
        /\ PrefixReady(n)
        /\ LengthRead(n).error = "none"
        /\ CopyPayload(n - PrefixTakes(n), PrefixTakes(n), LengthRead(n).value)
     \/ ~in_prefix /\ CopyPayload(n, 0, bytes_expected)

Push(n) == PushPrefix(n) \/ PushBadPrefix(n) \/ PushPayload(n)

ByteVecEnd ==
  /\ Calling
  /\ phase' = IF ~in_prefix /\ bytes_written = bytes_expected
              THEN "ok" ELSE "err"
  /\ UNCHANGED <<stream, pos, in_prefix, prefix, bytes_expected, buffer, capacity>>

read_limit ==
  IF in_prefix THEN compact_size_read_limit(prefix) ELSE bytes_expected - bytes_written

Returned == phase \in {"failed", "ok", "err"} /\ UNCHANGED vars

ByteVecNext ==
  \/ \E n \in 0..(Len(stream) - pos) : Push(n)
  \/ ByteVecEnd
  \/ Returned

ByteVecSpec == ByteVecInit /\ [][ByteVecNext]_vars

-----------------------------------------------------------------------------
(* What a whole stream means, read off at once.                            *)

PrefixLen == EncodedLen(stream[1])
Announced == DecodeLength(SubSeq(stream, 1, PrefixLen), MaxSize)
Total == IF Announced.error = "none" THEN PrefixLen + Announced.value ELSE PrefixLen
Verdict == IF Announced.error = "none" THEN "ok" ELSE "badpush"

Contract == INSTANCE DecoderContract WITH
  total <- Total, verdict <- Verdict, pos <- pos, phase <- phase,
  limit <- IF phase = "failed" THEN 0 ELSE read_limit

\* A push of some bytes to a decoder that asked for more takes one of them at least.
NeverStalls ==
  phase = "more" =>
    \A n \in 1..(Len(stream) - pos) :
      (IF in_prefix THEN PrefixTakes(n) ELSE copy_len(n, bytes_expected)) > 0

\* ByteVecDecoder keeps the promises of the Decoder trait: it consumes some of
\* every slice it still needs, stops exactly behind its encoding, never asks for
\* bytes behind it, and accepts what the whole stream spells.
ImplementsDecoder == Contract!Spec /\ []NeverStalls

-----------------------------------------------------------------------------
\* Types and bounds.  To make the decoder hold X + MAX_VECTOR_ALLOCATE bytes of memory a
\* peer has to send X bytes, and the memory never exceeds what it announced.
ByteVecTypeOK ==
  /\ stream \in Seq(Byte)
  /\ pos \in 0..Len(stream)
  /\ phase \in Contract!Phases
  /\ in_prefix \in BOOLEAN
  /\ prefix \in Seq(Byte)
  /\ bytes_expected \in 0..MaxSize
  /\ buffer \in Seq(Byte)
  /\ capacity \in bytes_written..Lesser(bytes_written + MAX_VECTOR_ALLOCATE, bytes_expected)

\* The buffer holds the payload received so far, in order and nothing else, however
\* the stream was cut.  Only one byte string is accepted for each: the prefix that was
\* taken is the one the encoder writes, so a decoded vector re-encodes to the same bytes.
BufferIsPayload ==
  /\ ~in_prefix /\ phase # "failed" =>
       /\ bytes_written = pos - PrefixLen
       /\ buffer = SubSeq(stream, PrefixLen + 1, pos)
  /\ phase = "ok" =>
       /\ SubSeq(stream, 1, pos) = encode(Len(buffer)) \o buffer
       /\ encoded_size(Len(buffer)) = pos - Len(buffer)
       /\ Len(buffer) <= MaxSize

=============================================================================
