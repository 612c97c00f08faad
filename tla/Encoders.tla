------------------------------ MODULE Encoders ------------------------------
(***************************************************************************)
(* The pull side of consensus_encoding: encoders that hand out a value in  *)
(* chunks, the combinators that join encoders, and the consumers that      *)
(* drain them or iterate over their bytes.                                 *)
(*                                                                         *)
(* The encoder is Encoder2 over any encoder enc_1 and a SliceEncoder of    *)
(* any objects, which is PrefixedSliceEncoder when enc_1 is a compact size *)
(* and PrefixedBytesEncoder when the slice is one object of one chunk.     *)
(* An encoder that has no parts is the sequence of chunks it has still to  *)
(* hand out, the current one first; a chunk may be empty.                  *)
(***************************************************************************)
EXTENDS Integers, Sequences, SequencesExt

CONSTANTS
  Shapes,     \* the encoders of an object: sequences of chunk lengths
  MaxItems,   \* bound: objects in the slice
  MaxSkip     \* bound: the argument of nth

\* An encoder has a current chunk from the start, if an empty one.
EncoderAssumption ==
  /\ \A shape \in Shapes : shape \in Seq(Nat) \ {<<>>}
  /\ MaxItems \in Nat /\ MaxSkip \in Nat

VARIABLES
  cur_idx, enc_1,     \* Encoder2: which part runs, and its first part
  sl, cur_enc,        \* SliceEncoder; cur_enc is <<>> for None
  whole,              \* the bytes the encoder stands for
  pc,                 \* the consumer: "fresh", the call it is in, "idle" or "done"
  position, n,        \* EncoderByteIter::position, and the n of nth
  from, given,        \* the last answer: bytes `given', found behind `from' bytes
  consumed            \* bytes passed by the consumer

encoder == <<cur_idx, enc_1, sl, cur_enc>>
vars == <<encoder, whole, pc, position, n, from, given, consumed>>

\* The chunks of the object at place j, every byte unlike every other.
Object(j, shape) ==
  [c \in DOMAIN shape |-> [i \in 1..shape[c] |-> <<j, c, i>>]]

Bytes(objects) == FlattenSeq([j \in DOMAIN objects |-> FlattenSeq(objects[j])])

EncoderInit ==
  /\ cur_idx = 0
  /\ \E shape \in Shapes : enc_1 = Object(0, shape)
  /\ \E k \in 0..MaxItems : \E shapes \in [1..k -> Shapes] :
       sl = [j \in 1..k |-> Object(j, shapes[j])]
  /\ cur_enc = IF sl = <<>> THEN <<>> ELSE sl[1]
  /\ whole = Bytes(<<enc_1>> \o sl)

Init ==
  /\ EncoderInit
  /\ pc = "fresh" /\ position = 0 /\ n = 0
  /\ from = 0 /\ given = <<>> /\ consumed = 0

-----------------------------------------------------------------------------
(* The encoder. *)

SliceChunk == IF cur_enc = <<>> THEN <<>> ELSE cur_enc[1]
current_chunk == IF cur_idx = 0 THEN enc_1[1] ELSE SliceChunk

\* Moving on to the objects xs: those that encode to one empty chunk are passed over.
Unseen(xs) == {j \in DOMAIN xs : xs[j] # << <<>> >>}

\* Mutant: an object whose first chunk is empty is dropped with its other chunks.
NextObject_DropsEmptyHead(xs) ==
  LET full == {j \in DOMAIN xs : xs[j][1] # <<>>}
      j == CHOOSE j \in full : \A k \in full : j <= k
  IN  IF full = {}
        THEN [sl |-> <<>>, cur_enc |-> <<>>]
        ELSE [sl |-> SubSeq(xs, j, Len(xs)), cur_enc |-> xs[j]]

NextObject(xs) ==
  LET j == CHOOSE j \in Unseen(xs) : \A k \in Unseen(xs) : j <= k
  IN  IF Unseen(xs) = {}
        THEN [sl |-> <<>>, cur_enc |-> <<>>]
        ELSE [sl |-> SubSeq(xs, j, Len(xs)),
              cur_enc |-> IF xs[j][1] = <<>> THEN Tail(xs[j]) ELSE xs[j]]

SliceAdvance(status) ==
  IF Len(cur_enc) > 1
    THEN status = "HasMore" /\ cur_enc' = Tail(cur_enc) /\ UNCHANGED sl
    ELSE LET next == NextObject(IF cur_enc = <<>> THEN <<>> ELSE Tail(sl))
         IN  /\ status = IF next.cur_enc = <<>> THEN "Finished" ELSE "HasMore"
             /\ sl' = next.sl
             /\ cur_enc' = next.cur_enc

\* Mutant: the last part is treated like the others.
advance_AlwaysHasMore(status) ==
  IF cur_idx = 1
    THEN /\ status = "HasMore"
         /\ SliceAdvance("HasMore") \/ SliceAdvance("Finished")
         /\ UNCHANGED <<cur_idx, enc_1>>
    ELSE /\ status = "HasMore"
         /\ IF Len(enc_1) > 1
              THEN enc_1' = Tail(enc_1) /\ UNCHANGED cur_idx
              ELSE cur_idx' = 1 /\ UNCHANGED enc_1
         /\ UNCHANGED <<sl, cur_enc>>

\* A part but the last one that finishes makes the next one current.
advance(status) ==
  IF cur_idx = 1
    THEN SliceAdvance(status) /\ UNCHANGED <<cur_idx, enc_1>>
    ELSE /\ status = "HasMore"
         /\ IF Len(enc_1) > 1
              THEN enc_1' = Tail(enc_1) /\ UNCHANGED cur_idx
              ELSE cur_idx' = 1 /\ UNCHANGED enc_1
         /\ UNCHANGED <<sl, cur_enc>>

-----------------------------------------------------------------------------
(* The consumers.  `Finished' ends them: no encoder is used after it. *)

Statuses == {"HasMore", "Finished"}

\* drain_to_vec, drain_to_writer and check_encoder: one round of their loop.
Drain ==
  /\ pc \in {"fresh", "drain"}
  /\ given' = current_chunk
  /\ from' = consumed
  /\ consumed' = consumed + Len(current_chunk)
  /\ \E status \in Statuses :
       /\ advance(status)
       /\ pc' = IF status = "Finished" THEN "done" ELSE "drain"
  /\ UNCHANGED <<whole, position, n>>

\* EncoderByteIter answers with the byte in front of which `pos' bytes of the chunk lie.
Yield(pos) ==
  /\ given' = <<current_chunk[pos + 1]>>
  /\ position' = pos + 1
  /\ consumed' = from' + 1
  /\ pc' = "idle"
  /\ UNCHANGED <<encoder, n>>

\* The encoder is exhausted: the answer is None or the empty slice.
Exhausted ==
  /\ given' = <<>>
  /\ pc' = "done"
  /\ UNCHANGED <<position, n, consumed>>

Call == pc \in {"fresh", "idle"}

\* One round of the loop of EncoderByteIter::next.
NextByte ==
  /\ Call \/ pc = "next"
  /\ from' = consumed
  /\ IF position < Len(current_chunk)
       THEN Yield(position)
       ELSE \E status \in Statuses :
              /\ advance(status)
              /\ IF status = "Finished"
                   THEN Exhausted
                   ELSE pc' = "next" /\ position' = 0 /\ UNCHANGED <<n, given, consumed>>
  /\ UNCHANGED whole

\* EncoderByteIter::nth up to its loop.
NthCall(k) ==
  /\ Call
  /\ from' = consumed + k
  /\ IF position + k < Len(current_chunk)
       THEN Yield(position + k)
       ELSE \E status \in Statuses :
              /\ advance(status)
              /\ IF status = "Finished"
                   THEN Exhausted
                   ELSE /\ n' = k - (Len(current_chunk) - position)
                        /\ pc' = "nth"
                        /\ UNCHANGED <<position, given, consumed>>
  /\ UNCHANGED whole

\* One round of the loop of EncoderByteIter::nth.
NthLoop ==
  /\ pc = "nth"
  /\ UNCHANGED from
  /\ IF n < Len(current_chunk)
       THEN Yield(n)
       ELSE \E status \in Statuses :
              /\ advance(status)
              /\ IF status = "Finished"
                   THEN Exhausted
                   ELSE /\ n' = n - Len(current_chunk)
                        /\ UNCHANGED <<pc, position, given, consumed>>
  /\ UNCHANGED whole

\* peek_chunk returns the bytes of the chunk behind pos.
Show(chunk, pos) ==
  /\ given' = SubSeq(chunk, pos + 1, Len(chunk))
  /\ position' = pos
  /\ pc' = "idle"
  /\ UNCHANGED <<n, consumed>>

\* EncoderByteIter::peek_chunk, and a round of its loop.
Peek ==
  /\ Call \/ pc = "peek"
  /\ from' = consumed
  /\ IF pc # "peek" /\ position < Len(current_chunk)
       THEN Show(current_chunk, position) /\ UNCHANGED encoder
       ELSE \E status \in Statuses :
              /\ advance(status)
              /\ IF status = "Finished"
                   THEN Exhausted
                   ELSE IF current_chunk' = <<>>
                          THEN pc' = "peek" /\ UNCHANGED <<position, n, given, consumed>>
                          ELSE Show(current_chunk', 0)
  /\ UNCHANGED whole

Returned == pc = "done" /\ UNCHANGED vars

Next == Drain \/ NextByte \/ (\E k \in 0..MaxSkip : NthCall(k)) \/ NthLoop \/ Peek \/ Returned

\* A loop of the consumer runs until the call returns.
Spec ==
  /\ Init /\ [][Next]_vars
  /\ WF_vars(pc = "drain" /\ Drain) /\ WF_vars(pc = "next" /\ NextByte)
  /\ WF_vars(NthLoop) /\ WF_vars(pc = "peek" /\ Peek)

-----------------------------------------------------------------------------
\* Types, and the bookkeeping of SliceEncoder: cur_enc is None exactly when the slice
\* is used up, otherwise it is what is left of the object at the head of the slice; and
\* the iterator's position lies in the chunk it belongs to.
EncoderTypeOK ==
  /\ cur_idx \in {0, 1}
  /\ enc_1 # <<>>
  /\ (cur_enc = <<>>) <=> (sl = <<>>)
  /\ sl # <<>> => \E k \in 0..(Len(sl[1]) - 1) : cur_enc = SubSeq(sl[1], k + 1, Len(sl[1]))
  /\ pc \in {"fresh", "drain", "next", "nth", "peek", "idle", "done"}
  /\ n \in 0..MaxSkip
  /\ pc = "idle" => position <= Len(current_chunk)
  /\ consumed \in 0..Len(whole)

\* Every answer of every consumer is the stretch of the encoding it should be, whatever
\* the chunks, the empty ones among them, and whichever calls of next, nth and
\* peek_chunk went before: nothing is lost, repeated or reordered at a chunk's end.  A
\* consumer stops (None, an empty slice, the end of a drain) only where the encoding
\* ends: an empty chunk in the middle is not taken for the end.
AnswersAreTheEncoding ==
  /\ pc \in {"drain", "idle", "done"} /\ given # <<>> =>
       /\ from + Len(given) <= Len(whole)
       /\ given = SubSeq(whole, from + 1, from + Len(given))
  /\ pc = "done" => from + Len(given) >= Len(whole)
  /\ pc = "idle" => given # <<>>

\* Every call returns: no combinator keeps answering HasMore without moving on.
CallsReturn == pc \in {"drain", "next", "nth", "peek"} ~> pc \in {"idle", "done"}

=============================================================================
