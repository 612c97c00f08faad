----------------------------- MODULE VecDecoder -----------------------------
(***************************************************************************)
(* VecDecoder<T> of consensus_encoding/src/decode/decoders.rs: a compact   *)
(* size prefix, then that many T, each decoded by a decoder of its own.    *)
(* The decoder of T is any decoder of DecoderContract; one is alive at a   *)
(* time and it may live through several push_bytes calls.                  *)
(*                                                                         *)
(* Bytes are counted: item i of the stream ends behind byte ends[i] and    *)
(* the prefix behind byte ends[0].  The caller has bytes that follow the   *)
(* last item too, and stops pushing them when it is told Ready, as all     *)
(* drivers do.                                                             *)
(***************************************************************************)
EXTENDS Integers

CONSTANTS
  PrefixLens,      \* bound: bytes of the compact size prefix, out of {1, 3, 5, 9}
  MaxLength,       \* bound: items announced
  MaxItem,         \* bound: bytes of an item
  FreshLimit,      \* read_limit() of a new decoder of T
  Batch            \* MAX_VECTOR_ALLOCATE / size_of::<T>(), elements

VecAssumption ==
  /\ PrefixLens \subseteq Nat \ {0}
  /\ MaxLength \in Nat
  /\ FreshLimit \in Nat \ {0} /\ MaxItem \in Nat /\ FreshLimit <= MaxItem
  /\ Batch \in Nat \ {0}

VARIABLES
  ends,            \* the layout of the stream
  length,          \* number of items the prefix announces
  prefixOk,        \* whether the prefix is minimal and within the limit
  badItem, badAs,  \* the first item that is rejected (0: none), and how
  at,              \* bytes taken from the caller's slices so far
  in_prefix,       \* prefix_decoder is Some
  count,           \* buffer.len()
  capacity,        \* buffer.capacity()
  has_item,        \* decoder is Some
  itemTotal, itemVerdict, itemPos, itemPhase, itemLimit,    \* and its state
  pc, rest,        \* the running push_bytes: where it is, bytes left in its slice
  phase, pos, limit   \* what the caller saw last

input == <<ends, length, prefixOk, badItem, badAs>>
itemVars == <<itemTotal, itemVerdict, itemPos, itemPhase, itemLimit>>
seen == <<phase, pos, limit>>
vars == <<input, at, in_prefix, count, capacity, has_item, itemVars, pc, rest, seen>>

Item == INSTANCE DecoderContract WITH
  total <- itemTotal, verdict <- itemVerdict, pos <- itemPos, phase <- itemPhase,
  limit <- itemLimit

Lesser(a, b) == IF a <= b THEN a ELSE b

\* Ends of a prefix of p bytes and of k items.
Layouts(p, k) ==
  {e \in [0..k -> 0..(p + k * MaxItem)] :
     /\ e[0] = p
     /\ \A i \in 1..k : e[i] - e[i - 1] \in FreshLimit..MaxItem}

VecInit ==
  /\ length \in 0..MaxLength
  /\ ends \in UNION {Layouts(p, length + 1) : p \in PrefixLens}
  /\ prefixOk \in BOOLEAN
  /\ badItem \in 0..length
  /\ badAs \in IF badItem = 0 THEN {"ok"} ELSE {"badpush", "badend"}
  /\ at = 0 /\ in_prefix = TRUE
  /\ count = 0 /\ capacity = 0
  /\ has_item = FALSE
  /\ itemTotal = 0 /\ itemVerdict = "ok" /\ itemPos = 0 /\ itemPhase = "more"
  /\ itemLimit = 0
  /\ pc = "idle" /\ rest = 0
  /\ phase = "more" /\ pos = 0 /\ limit = 1

-----------------------------------------------------------------------------
read_limit ==
  IF in_prefix THEN IF at = 0 THEN 1 ELSE ends[0] - at
  ELSE IF has_item THEN itemLimit
  ELSE IF count = length THEN 0
  ELSE (length - count) * FreshLimit

At(where) == pc = where

Return(answer) ==
  /\ pc' = "idle"
  /\ phase' = answer
  /\ pos' = at'
  /\ limit' = read_limit'

GoOn(where) == pc' = where /\ UNCHANGED seen

Take(n) == at' = at + n /\ rest' = rest - n

\* push_bytes is called with n bytes.
PushCall(n) ==
  /\ At("idle")
  /\ phase = "more" \/ (phase = "ready" /\ n = 0)
  /\ rest' = n
  /\ GoOn(IF in_prefix THEN "prefix" ELSE "loop")
  /\ UNCHANGED <<input, at, in_prefix, count, capacity, has_item, itemVars>>

Prefix ==
  /\ At("prefix")
  /\ Take(Lesser(rest, ends[0] - at))
  /\ in_prefix' = (at' < ends[0])
  /\ UNCHANGED <<input, count, capacity, has_item, itemVars>>
  /\ IF in_prefix' THEN Return("more")
     ELSE IF ~prefixOk THEN Return("failed")
     ELSE IF length = 0 THEN Return("ready")
     ELSE GoOn("loop")

\* reserve()
Reserved ==
  IF count # capacity THEN capacity ELSE capacity + Lesser(length - count, Batch)

\* `while !bytes.is_empty()': another item is begun or resumed ...
LoopItem ==
  /\ At("loop")
  /\ rest > 0
  /\ capacity' = Reserved
  /\ has_item' = TRUE
  /\ IF has_item THEN UNCHANGED itemVars
     ELSE /\ itemTotal' = ends[count + 1] - ends[count]
          /\ itemVerdict' = IF count + 1 = badItem THEN badAs ELSE "ok"
          /\ itemPos' = 0 /\ itemPhase' = "more" /\ itemLimit' = FreshLimit
  /\ UNCHANGED <<input, at, in_prefix, count, rest>>
  /\ GoOn("item")

\* ... or the slice is used up.
LoopDone ==
  /\ At("loop")
  /\ rest = 0
  /\ UNCHANGED <<input, at, in_prefix, count, capacity, has_item, itemVars, rest>>
  /\ Return(IF count = length THEN "ready" ELSE "more")

ItemPush ==
  /\ At("item")
  /\ Item!Push(rest)
  /\ Take(itemPos' - itemPos)
  /\ has_item' = (itemPhase' # "failed")
  /\ UNCHANGED <<input, in_prefix, count, capacity>>
  /\ IF itemPhase' = "ready" THEN GoOn("itemDone") ELSE Return(itemPhase')

\* Mutant: the loop ends with the slice only.
ItemDone_NoCheck ==
  /\ At("itemDone")
  /\ Item!End
  /\ has_item' = FALSE
  /\ count' = IF itemPhase' = "ok" THEN count + 1 ELSE count
  /\ capacity' = IF count' > capacity THEN count' ELSE capacity
  /\ UNCHANGED <<input, at, in_prefix, rest>>
  /\ IF itemPhase' = "err" THEN Return("failed") ELSE GoOn("loop")

ItemDone ==
  /\ At("itemDone")
  /\ Item!End
  /\ has_item' = FALSE
  /\ count' = IF itemPhase' = "ok" THEN count + 1 ELSE count
  /\ capacity' = IF count' > capacity THEN count' ELSE capacity
  /\ UNCHANGED <<input, at, in_prefix, rest>>
  /\ IF itemPhase' = "err" THEN Return("failed")
     ELSE IF count' = length THEN Return("ready")
     ELSE GoOn("loop")

VecEnd ==
  /\ At("idle")
  /\ phase \in {"more", "ready"}
  /\ phase' = IF ~in_prefix /\ count = length THEN "ok" ELSE "err"
  /\ UNCHANGED <<input, at, in_prefix, count, capacity, has_item, itemVars, pc, rest,
                 pos, limit>>

Returned == phase \in {"failed", "ok", "err"} /\ UNCHANGED vars

VecNext ==
  \/ \E n \in 0..(ends[length + 1] - pos) : PushCall(n)
  \/ Prefix \/ LoopItem \/ LoopDone \/ ItemPush \/ ItemDone
  \/ VecEnd
  \/ Returned

VecSpec == VecInit /\ [][VecNext]_vars

-----------------------------------------------------------------------------
Total == IF prefixOk THEN ends[length] ELSE ends[0]
Verdict == IF prefixOk /\ badItem = 0 THEN "ok" ELSE "badpush"

Contract == INSTANCE DecoderContract WITH
  total <- Total, verdict <- Verdict, pos <- pos, phase <- phase,
  limit <- IF phase = "failed" THEN 0 ELSE limit

\* Only a push that consumed the rest of its slice, or some of it, asks for more.
PushMoves == pc # "idle" /\ pc' = "idle" /\ phase' = "more" => rest' = 0 \/ pos' > pos

\* A VecDecoder over any decoder of T that keeps the promises of the trait keeps them
\* too, for a caller that stops pushing when it is told Ready.
ImplementsDecoder == Contract!Spec /\ [][PushMoves]_vars

\* Types and bounds.  A peer pays for the memory of a vector: it is reserved one batch
\* ahead of the items received, and never for more than was announced.
VecTypeOK ==
  /\ length \in 0..MaxLength
  /\ at \in 0..ends[length + 1] /\ count \in 0..length
  /\ capacity \in count..Lesser(count + Batch, length)
  /\ in_prefix \in BOOLEAN /\ has_item \in BOOLEAN
  /\ itemTotal \in 0..MaxItem /\ itemVerdict \in Item!Verdicts
  /\ itemPos \in 0..itemTotal /\ itemPhase \in Item!Phases /\ itemLimit \in 0..MaxItem
  /\ pc \in {"idle", "prefix", "loop", "item", "itemDone"}
  /\ rest \in 0..(ends[length + 1] - at)
  /\ phase \in Item!Phases /\ pos \in Nat /\ limit \in Nat

\* The decoder is never out of step with the stream: the items in the buffer are those
\* before the byte it stands at, less what the living item decoder has read.
VecAligned ==
  ~in_prefix /\ phase # "failed" => at = ends[count] + (IF has_item THEN itemPos ELSE 0)

=============================================================================
