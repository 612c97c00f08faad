------------------------------- MODULE Witness -------------------------------
(***************************************************************************)
(* Witness and WitnessDecoder of primitives/src/witness.rs.  A witness is  *)
(* a list of byte strings, held in one buffer: every element behind its    *)
(* compact size, and behind all of them an index of where each begins.     *)
(* The decoder fills the buffer from the stream and builds the index last; *)
(* push makes room in the middle of it.  Equality, order and hash compare  *)
(* the buffers, so a list must have one representation however it arose.   *)
(*                                                                         *)
(* An entry of the index is one cell here, Index(pos), not four bytes.     *)
(***************************************************************************)
EXTENDS CompactSize, SequencesExt

CONSTANTS
  Elements,                 \* bound: the byte strings
  MaxElements,              \* bound: elements of a witness
  MAX_WITNESS_STACK_ITEMS,
  MAX_WITNESS_ITEM_SIZE,
  MAX_COMPACT_SIZE          \* the limit of a CompactSizeDecoder by default

ASSUME WitnessAssumption ==
  /\ \A e \in Elements : e \in Seq(Byte) /\ Len(e) < Radix8     \* a usize has 64 bits
  /\ MaxElements \in Nat /\ MaxElements <= MAX_WITNESS_STACK_ITEMS /\ MaxElements < Radix8
  /\ MAX_WITNESS_STACK_ITEMS \in Nat /\ MAX_WITNESS_ITEM_SIZE \in Nat
  /\ MAX_COMPACT_SIZE \in Nat /\ MAX_WITNESS_ITEM_SIZE <= MAX_COMPACT_SIZE

None == -1

VARIABLES
  list,                     \* the elements that the witness stands for
  made,                     \* whether there is a Witness, or a decoder on its way
  content, witness_elements, indices_start,    \* the Witness; the decoder shares
                            \* the first two of them
  stream, verdict, total,   \* what is decoded, whether it is accepted and where it ends
  count_buf, len_buf, len_limit,   \* inside the decoder's two CompactSizeDecoders
  element_idx, remaining,   \* remaining is element_bytes_remaining
  pc, rest, at,             \* the running call, its slice, bytes consumed
  phase, pos, limit         \* what the caller saw last

witness == <<list, made, content, witness_elements, indices_start>>
input == <<stream, verdict, total>>
progress == <<count_buf, len_buf, len_limit, element_idx, remaining>>
seen == <<phase, pos, limit>>
vars == <<witness, input, progress, pc, rest, at, seen>>

-----------------------------------------------------------------------------
(* The representation. *)

Index(p) == Radix + p
Prefixed(e) == encode(Len(e)) \o e
Contents(l) == FlattenSeq([i \in DOMAIN l |-> Prefixed(l[i])])
Canonical(l) ==
  Contents(l) \o [i \in DOMAIN l |-> Index(Len(Contents(SubSeq(l, 1, i - 1))))]

\* s with the cells behind the first p replaced by t.
Overwrite(s, p, t) ==
  [i \in DOMAIN s |-> IF i \in (p + 1)..(p + Len(t)) THEN t[i - p] ELSE s[i]]
RotateRight(s, k) == SubSeq(s, Len(s) - k + 1, Len(s)) \o SubSeq(s, 1, Len(s) - k)

\* decode_unchecked: the length at place p of s, and the bytes it takes.
LengthAt(s, p) ==
  LET width == EncodedLen(s[p + 1])
  IN  [value |-> PayloadValue(SubSeq(s, p + 1, p + width)), width |-> width]

\* decode_cursor and get; <<None>> stands for no element.
get(i) ==
  IF indices_start + i >= Len(content) THEN <<None>>
  ELSE LET p == content[indices_start + i + 1] - Radix
           len == LengthAt(content, p)
       IN  SubSeq(content, p + len.width + 1, p + len.width + len.value)

\* Mutant: the new element is written in front of the index without moving it.
WithPushed_NoRotate(e) ==
  LET new == Prefixed(e)
      resized == content \o [i \in 1..(Len(new) + 1) |-> 0]
      indexed == Overwrite(resized, indices_start + Len(new) + witness_elements,
                           <<Index(indices_start)>>)
  IN  Overwrite(indexed, indices_start, new)

\* push_slice: grow at the end, rotate the room in front of the index, fill it in.
WithPushed(e) ==
  LET new == Prefixed(e)
      resized == content \o [i \in 1..(Len(new) + 1) |-> 0]
      rotated == SubSeq(resized, 1, indices_start)
                   \o RotateRight(SubSeq(resized, indices_start + 1, Len(resized)), Len(new))
      indexed == Overwrite(rotated, indices_start + Len(new) + witness_elements,
                           <<Index(indices_start)>>)
  IN  Overwrite(indexed, indices_start, new)

Push(e) ==
  /\ made
  /\ witness_elements < MaxElements
  /\ list' = Append(list, e)
  /\ content' = WithPushed(e)
  /\ witness_elements' = witness_elements + 1
  /\ indices_start' = indices_start + Len(Prefixed(e))
  /\ UNCHANGED <<made, input, progress, pc, rest, at, seen>>

Clear ==
  /\ made
  /\ list' = <<>> /\ content' = <<>> /\ witness_elements' = 0 /\ indices_start' = 0
  /\ UNCHANGED <<made, input, progress, pc, rest, at, seen>>

\* from_slice allocates everything and fills in element and index entry in turn.
FromSlice ==
  /\ made
  /\ LET size == Len(Contents(list))
         fill[i \in 0..Len(list)] ==
           IF i = 0
             THEN [buffer |-> [j \in 1..(size + Len(list)) |-> 0], cursor |-> 0]
             ELSE LET f == fill[i - 1]
                      indexed == Overwrite(f.buffer, size + i - 1, <<Index(f.cursor)>>)
                  IN  [buffer |-> Overwrite(indexed, f.cursor, Prefixed(list[i])),
                       cursor |-> f.cursor + Len(Prefixed(list[i]))]
     IN  /\ content' = fill[Len(list)].buffer
         /\ indices_start' = size
  /\ witness_elements' = Len(list)
  /\ UNCHANGED <<list, made, input, progress, pc, rest, at, seen>>

-----------------------------------------------------------------------------
(* The stream. *)

Lists == UNION {[1..k -> Elements] : k \in 0..MaxElements}

\* The code limits the length of the first element by MAX_WITNESS_ITEM_SIZE and that of
\* the others by MAX_COMPACT_SIZE: taking a CompactSizeDecoder leaves a default one.
LengthLimit(i) == IF i = 1 THEN MAX_WITNESS_ITEM_SIZE ELSE MAX_COMPACT_SIZE
TooLong(l) == {i \in DOMAIN l : Len(l[i]) > LengthLimit(i)}

\* The bytes up to and with the length of element i.
UpToLength(l, i) ==
  Len(encode(Len(l))) + Len(Contents(SubSeq(l, 1, i - 1))) + Len(encode(Len(l[i])))

WitnessInit ==
  /\ list \in Lists
  /\ made = FALSE
  /\ content = <<>> /\ witness_elements = None /\ indices_start = 0
  /\ stream = encode(Len(list)) \o Contents(list) \o <<PREFIX_U64>>   \* and what follows
  /\ verdict = IF TooLong(list) = {} THEN "ok" ELSE "badpush"
  /\ total = IF TooLong(list) = {} THEN Len(stream) - 1
             ELSE UpToLength(list, CHOOSE i \in TooLong(list) : \A j \in TooLong(list) : i <= j)
  /\ count_buf = <<>> /\ len_buf = <<>> /\ len_limit = MAX_WITNESS_ITEM_SIZE
  /\ element_idx = 0 /\ remaining = None
  /\ pc = "idle" /\ rest = 0 /\ at = 0
  /\ phase = "more" /\ pos = 0 /\ limit = 1

-----------------------------------------------------------------------------
(* The decoder. *)

read_limit ==
  IF witness_elements = None THEN compact_size_read_limit(count_buf)
  ELSE IF remaining = None THEN compact_size_read_limit(len_buf) ELSE remaining

Return(answer) ==
  /\ pc' = "idle"
  /\ phase' = answer
  /\ pos' = at'
  /\ limit' = read_limit'

GoOn(where) == pc' = where /\ UNCHANGED seen

Slice(n) == SubSeq(stream, at + 1, at + n)
Take(n) == at' = at + n /\ rest' = rest - n

\* A CompactSizeDecoder that holds buf takes `n' bytes of the slice and holds `now'.
Taken(buf) ==
  LET first == IF buf # <<>> THEN buf[1] ELSE stream[at + 1]
      n == IF rest = 0 THEN 0 ELSE compact_size_push_bytes(Len(buf), first, rest)
  IN  [n |-> n, now |-> buf \o Slice(n),
       ready |-> rest > 0 /\ Len(buf) + n = EncodedLen(first)]

PushCall(n) ==
  /\ ~made /\ pc = "idle" /\ phase \in {"more", "ready"}
  /\ rest' = n
  /\ GoOn(IF witness_elements = None THEN "count" ELSE "loop")
  /\ UNCHANGED <<witness, input, progress, at>>

Count ==
  /\ pc = "count"
  /\ UNCHANGED <<list, made, content, indices_start, input, len_buf, len_limit, element_idx,
                 remaining>>
  /\ LET t == Taken(count_buf)
         length == DecodeLength(t.now, MAX_WITNESS_STACK_ITEMS)
     IN  /\ Take(t.n)
         /\ IF ~t.ready
              THEN count_buf' = t.now /\ UNCHANGED witness_elements /\ Return("more")
              ELSE /\ count_buf' = <<>>
                   /\ witness_elements' = IF length.error = "none" THEN length.value ELSE None
                   /\ IF length.error # "none" THEN Return("failed")
                      ELSE IF length.value = 0 THEN Return("ready")
                      ELSE GoOn("loop")

Loop == pc = "loop" /\ UNCHANGED <<list, made, witness_elements, indices_start, input, count_buf>>

LoopReturns ==
  /\ Loop
  /\ element_idx >= witness_elements \/ rest = 0
  /\ UNCHANGED <<content, len_buf, len_limit, element_idx, remaining, rest, at>>
  /\ Return(IF element_idx >= witness_elements THEN "ready" ELSE "more")

LoopData ==
  /\ Loop
  /\ element_idx < witness_elements /\ rest > 0 /\ remaining # None
  /\ LET can_copy == IF rest <= remaining THEN rest ELSE remaining
     IN  /\ content' = content \o Slice(can_copy)
         /\ Take(can_copy)
         /\ IF remaining = can_copy
              THEN element_idx' = element_idx + 1 /\ remaining' = None
              ELSE element_idx' = element_idx /\ remaining' = remaining - can_copy
  /\ UNCHANGED <<len_buf, len_limit>>
  /\ GoOn("loop")

LoopLength ==
  /\ Loop
  /\ element_idx < witness_elements /\ rest > 0 /\ remaining = None
  /\ LET t == Taken(len_buf)
         length == DecodeLength(t.now, len_limit)
     IN  /\ Take(t.n)
         /\ len_buf' = IF t.ready THEN <<>> ELSE t.now
         /\ len_limit' = IF t.ready THEN MAX_COMPACT_SIZE ELSE len_limit
         /\ IF t.ready /\ length.error = "none"
              THEN /\ content' = content \o encode(length.value)
                   /\ element_idx' = IF length.value = 0 THEN element_idx + 1 ELSE element_idx
                   /\ remaining' = IF length.value = 0 THEN None ELSE length.value
                   /\ GoOn("loop")
              ELSE /\ UNCHANGED <<content, element_idx, remaining>>
                   /\ Return(IF t.ready THEN "failed" ELSE "more")

\* The index that `end' builds by walking over the elements.
Walked ==
  LET offset[i \in 0..witness_elements] ==
        IF i = 0 THEN 0
        ELSE LET len == LengthAt(content, offset[i - 1])
             IN  offset[i - 1] + len.width + len.value
  IN  [i \in 1..witness_elements |-> Index(offset[i - 1])]

Complete == witness_elements # None /\ element_idx = witness_elements

End ==
  /\ ~made /\ pc = "idle" /\ phase \in {"more", "ready"}
  /\ made' = Complete
  /\ IF Complete
       THEN phase' = "ok" /\ indices_start' = Len(content) /\ content' = content \o Walked
       ELSE phase' = "err" /\ UNCHANGED <<indices_start, content>>
  /\ UNCHANGED <<list, witness_elements, input, progress, pc, rest, at, pos, limit>>

Returned == phase \in {"failed", "err"} /\ UNCHANGED vars

WitnessNext ==
  \/ \E n \in 0..(Len(stream) - at) : PushCall(n)
  \/ Count \/ LoopReturns \/ LoopData \/ LoopLength \/ End
  \/ (\E e \in Elements : Push(e)) \/ Clear \/ FromSlice
  \/ Returned

WitnessSpec == WitnessInit /\ [][WitnessNext]_vars

-----------------------------------------------------------------------------
\* Types, and how the decoder's counters and the buffer fit together.
WitnessTypeOK ==
  /\ \A i \in DOMAIN content : content[i] \in 0..(Radix + Len(content))
  /\ witness_elements \in {None} \cup 0..MaxElements
  /\ element_idx \in 0..MaxElements
  /\ remaining \in {None} \cup 1..MAX_COMPACT_SIZE
  /\ remaining # None => len_buf = <<>> /\ element_idx < witness_elements
  /\ rest \in 0..(Len(stream) - at)
  /\ pc \in {"idle", "count", "loop"}

\* However a witness came about, by the decoder, by from_slice or by pushes, the same
\* list has the same buffer (the derived ==, Ord and Hash depend on it), and get finds
\* each element and nothing behind the last one.
RepresentsList ==
  made =>
    /\ content = Canonical(list)
    /\ indices_start = Len(Contents(list))
    /\ witness_elements = Len(list)
    /\ \A i \in DOMAIN list : get(i - 1) = list[i]
    /\ get(Len(list)) = <<None>>

Contract == INSTANCE DecoderContract WITH
  total <- total, verdict <- verdict, pos <- pos,
  phase <- phase, limit <- IF phase \in {"more", "err"} THEN limit ELSE 0

\* The decoder keeps the promises of the trait, but for one: read_limit of a complete
\* decoder, which the instance above leaves out.
ImplementsDecoder == Contract!Spec

\* The documentation of MAX_WITNESS_ITEM_SIZE: no element of a decoded witness is longer.
ItemsAreLimited ==
  phase = "ready" => \A i \in DOMAIN list : Len(list[i]) <= MAX_WITNESS_ITEM_SIZE

=============================================================================
