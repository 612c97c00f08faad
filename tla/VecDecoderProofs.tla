-------------------------- MODULE VecDecoderProofs --------------------------
(***************************************************************************)
(* That VecDecoder over any decoder that keeps the promises of the trait   *)
(* Decoder keeps them, for vectors and items of every length, and that it  *)
(* stays in step with its stream and within the memory it may reserve.     *)
(***************************************************************************)
EXTENDS VecDecoder, WellFoundedInduction, TLAPS

(* What a call does to the decoder of an item.                             *)

LEMMA ItemPushEffect ==
  ASSUME Item!ContractTypeOK, Item!DecoderInv, NEW n \in Nat, Item!Push(n)
  PROVE  /\ UNCHANGED <<itemTotal, itemVerdict>> /\ Item!DecoderInv'
         /\ itemPhase' \in {"more", "ready", "failed"} /\ itemLimit' \in 0..itemTotal
         /\ \E c \in Nat :
              /\ itemPos' = itemPos + c
              /\ c <= n /\ itemPos + c <= itemTotal
              /\ itemPhase = "more" /\ n > 0 /\ itemTotal > 0 => c > 0
         /\ itemPhase' = "more" => itemPos' # itemTotal
<1> USE DEF Item!ContractTypeOK, Item!DecoderInv, Item!Limits, Item!Verdicts, Item!Phases
<1>1. CASE itemPhase = "ready"
  <2>1. itemPos' = itemPos + 0
    BY <1>1 DEF Item!Push
  <2>. QED
    BY <1>1, <2>1 DEF Item!Push
<1>2. CASE itemPhase = "more"
  <2>1. PICK c \in Item!Takes(n) : itemPos' = itemPos + c
    BY <1>2 DEF Item!Push
  <2>2. /\ c \in Nat /\ c <= n /\ itemPos + c <= itemTotal
        /\ c > 0 \/ n = 0 \/ itemPos = itemTotal
    BY <2>1 DEF Item!Takes, Item!Lesser
  <2>3. /\ itemPhase' \in Item!Settle(itemPos')
        /\ itemLimit' \in IF itemPhase' = "failed" THEN {0} ELSE Item!Limits(itemPos')
        /\ UNCHANGED <<itemTotal, itemVerdict>>
    BY <1>2 DEF Item!Push
  <2>4. itemPos' \in Nat /\ itemPos' <= itemTotal
    BY <2>1, <2>2
  <2>5. /\ itemPhase' \in {"more", "ready", "failed"}
        /\ itemPhase' = "failed" => itemVerdict = "badpush"
        /\ itemPhase' = "ready" => itemPos' = itemTotal /\ itemVerdict # "badpush"
        /\ itemPhase' = "more" => itemPos' # itemTotal
    BY <2>3, <2>4 DEF Item!Settle
  <2>. QED
    BY <1>2, <2>1, <2>2, <2>3, <2>4, <2>5
<1>. QED
  BY <1>1, <1>2 DEF Item!Push

LEMMA ItemEndEffect ==
  ASSUME Item!ContractTypeOK, Item!DecoderInv, Item!End
  PROVE  /\ UNCHANGED <<itemTotal, itemVerdict, itemPos, itemLimit>>
         /\ itemPhase' \in {"ok", "err"}
         /\ itemPhase' = "ok" <=> itemPos = itemTotal /\ itemVerdict = "ok"
         /\ Item!DecoderInv'
BY DEF Item!ContractTypeOK, Item!DecoderInv, Item!End, Item!Limits

-----------------------------------------------------------------------------
(* The layout of the stream.                                               *)

\* A set of numbers that is not empty has a least one.
LEMMA LeastNumber ==
  ASSUME NEW T, T \subseteq Nat, T # {}
  PROVE  \E n \in T : \A m \in T : n <= m
<1>. DEFINE R == OpToRel(<, Nat)
<1>1. IsWellFoundedOn(R, Nat)
  BY NatLessThanWellFounded
<1>2. \A x, y \in Nat : y < x => <<y, x>> \in R
  BY DEF OpToRel
<1>. HIDE DEF R
<1>3. PICK n \in T : \A m \in T : ~(<<m, n>> \in R)
  BY <1>1, WFMin
<1>4. \A m \in T : n \in Nat /\ m \in Nat /\ ~(m < n)
  BY <1>2, <1>3
<1>. QED
  BY <1>4

\* What the stream may be: items no shorter than a fresh decoder of T asks for, and at
\* most one of them rejected first.
InputOK ==
  /\ length \in 0..MaxLength
  /\ ends \in [0..(length + 1) -> Nat] /\ ends[0] > 0
  /\ \A i \in 1..(length + 1) : ends[i] - ends[i - 1] \in FreshLimit..MaxItem
  /\ prefixOk \in BOOLEAN
  /\ badItem \in 0..length /\ badAs \in Item!Verdicts
  /\ badItem = 0 <=> badAs = "ok"

\* Items a to b - 1 occupy FreshLimit bytes each or more.
LEMMA EndsGrow ==
  ASSUME VecAssumption, InputOK, NEW a \in 0..(length + 1), NEW b \in a..(length + 1)
  PROVE  ends[a] + (b - a) * FreshLimit <= ends[b]
<1>. DEFINE Good(i) == ends[a] + (i - a) * FreshLimit <= ends[i]
            Bad == {i \in a..(length + 1) : ~Good(i)}
<1>0. /\ length \in Nat /\ FreshLimit \in Nat /\ a \in Nat
      /\ \A i \in 0..(length + 1) : ends[i] \in Nat
  BY DEF VecAssumption, InputOK
<1>1. ASSUME Bad # {} PROVE FALSE
  <2>1. Bad \subseteq Nat
    BY <1>0
  <2>2. PICK i \in Bad : \A m \in Bad : i <= m
    BY <1>1, <2>1, LeastNumber
  <2>3. i # a
    BY <1>0, <2>2
  <2>4. i - 1 \in a..(length + 1) /\ i \in 1..(length + 1)
    BY <1>0, <2>2, <2>3
  <2>5. Good(i - 1)
    BY <2>2, <2>4
  <2>6. ends[i] - ends[i - 1] >= FreshLimit /\ ends[i] \in Nat /\ ends[i - 1] \in Nat
    BY <1>0, <2>4 DEF InputOK
  <2>7. ((i - 1) - a) * FreshLimit + FreshLimit = (i - a) * FreshLimit
    BY <1>0, <2>4
  <2>8. ((i - 1) - a) * FreshLimit \in Nat
    BY <1>0, <2>4
  <2>. QED
    BY <1>0, <2>2, <2>5, <2>6, <2>7, <2>8
<1>. QED
  BY <1>1

LEMMA EndsOrdered ==
  ASSUME VecAssumption, InputOK
  PROVE  \A a \in 0..(length + 1) : \A b \in a..(length + 1) :
           ends[a] \in Nat /\ ends[b] \in Nat /\ ends[a] <= ends[b]
<1>. TAKE a \in 0..(length + 1)
<1>. TAKE b \in a..(length + 1)
<1>1. ends[a] + (b - a) * FreshLimit <= ends[b]
  BY EndsGrow
<1>2. b - a \in Nat /\ FreshLimit \in Nat /\ ends[a] \in Nat /\ ends[b] \in Nat
  BY DEF VecAssumption, InputOK
<1>3. (b - a) * FreshLimit \in Nat
  BY <1>2
<1>. QED
  BY <1>1, <1>2, <1>3

-----------------------------------------------------------------------------
(* The inductive invariant.                                                *)

\* The decoder of item count + 1, while one is alive.
LivingItem ==
  /\ count < length
  /\ count < capacity
  /\ itemTotal = ends[count + 1] - ends[count]
  /\ itemVerdict = IF count + 1 = badItem THEN badAs ELSE "ok"
  /\ itemPhase = IF pc = "itemDone" THEN "ready" ELSE "more"
  /\ pc # "itemDone" => itemPos < itemTotal

ItemInv ==
  /\ Item!ContractTypeOK /\ Item!DecoderInv
  /\ has_item => LivingItem
  /\ pc \in {"item", "itemDone"} => has_item

\* Where the running call is, and what the caller saw last.
PlaceInv ==
  /\ in_prefix =>
       /\ count = 0 /\ capacity = 0 /\ ~has_item /\ at < ends[0]
       /\ pc \in {"idle", "prefix"}
       /\ phase # "ready"
  /\ pc = "prefix" => in_prefix
  /\ ~in_prefix /\ phase # "failed" => prefixOk
  /\ badItem = 0 \/ count < badItem
  /\ pc # "idle" => phase = "more" \/ (phase = "ready" /\ pc = "loop" /\ rest = 0)
  /\ pc = "item" => rest > 0
  /\ phase = "more" /\ ~in_prefix => count < length
  /\ phase = "ready" => count = length /\ ~has_item /\ pos = at
  /\ pos <= at
  /\ pc = "idle" => pos = at

VecInv == InputOK /\ VecTypeOK /\ VecAligned /\ ItemInv /\ PlaceInv

LEMMA InitEstablishes == VecAssumption /\ VecInit => VecInv
<1>. SUFFICES ASSUME VecAssumption, VecInit PROVE VecInv
  OBVIOUS
<1>1. PICK p \in PrefixLens : ends \in Layouts(p, length + 1)
  BY DEF VecInit
<1>2. /\ p \in Nat \ {0} /\ length \in 0..MaxLength /\ MaxItem \in Nat /\ FreshLimit \in Nat
      /\ MaxLength \in Nat /\ Batch \in Nat
  BY DEF VecAssumption, VecInit
<1>3. /\ ends \in [0..(length + 1) -> 0..(p + (length + 1) * MaxItem)]
      /\ ends[0] = p
      /\ \A i \in 1..(length + 1) : ends[i] - ends[i - 1] \in FreshLimit..MaxItem
  BY <1>1 DEF Layouts
<1>4. ends \in [0..(length + 1) -> Nat]
  BY <1>3
<1>5. InputOK
  BY <1>2, <1>3, <1>4 DEF VecInit, InputOK, Item!Verdicts
<1>6. ends[length + 1] \in Nat /\ ends[0] > 0
  BY <1>2, <1>4, <1>3
<1>a. /\ at = 0 /\ in_prefix = TRUE /\ count = 0 /\ capacity = 0 /\ has_item = FALSE
      /\ itemTotal = 0 /\ itemVerdict = "ok" /\ itemPos = 0 /\ itemPhase = "more" /\ itemLimit = 0
      /\ pc = "idle" /\ rest = 0 /\ phase = "more" /\ pos = 0 /\ limit = 1
  BY DEF VecInit
<1>b. Lesser(0 + Batch, length) \in Nat
  BY <1>2 DEF Lesser
<1>7. VecTypeOK
  <2>1. at \in 0..ends[length + 1] /\ rest \in 0..(ends[length + 1] - at)
    BY <1>6, <1>a
  <2>2. count \in 0..length /\ capacity \in count..Lesser(count + Batch, length)
    BY <1>2, <1>a, <1>b
  <2>3. /\ itemTotal \in 0..MaxItem /\ itemVerdict \in Item!Verdicts
        /\ itemPos \in 0..itemTotal /\ itemPhase \in Item!Phases /\ itemLimit \in 0..MaxItem
    BY <1>2, <1>a DEF Item!Verdicts, Item!Phases
  <2>. QED
    BY <1>2, <1>a, <2>1, <2>2, <2>3 DEF VecTypeOK, Item!Phases
<1>8. ItemInv
  BY DEF VecInit, ItemInv, Item!ContractTypeOK, Item!DecoderInv, Item!Limits, Item!Verdicts,
     Item!Phases
<1>9. PlaceInv /\ VecAligned
  BY <1>6 DEF VecInit, PlaceInv, VecAligned
<1>. QED
  BY <1>5, <1>7, <1>8, <1>9 DEF VecInv

-----------------------------------------------------------------------------
(* Every action keeps the invariant.                                       *)

\* What all proofs about an action need of the constants and of the stream.
LEMMA Facts ==
  ASSUME VecAssumption, VecInv
  PROVE  /\ length \in Nat /\ count \in Nat /\ count <= length /\ badItem \in Nat
         /\ capacity \in Nat /\ at \in Nat /\ rest \in Nat /\ pos \in Nat
         /\ Batch \in Nat /\ Batch > 0 /\ FreshLimit \in Nat /\ FreshLimit > 0 /\ MaxItem \in Nat
         /\ \A i \in 0..(length + 1) : ends[i] \in Nat
         /\ ends[0] > 0
         /\ ends[0] <= ends[count] /\ ends[count] <= ends[length]
         /\ ends[length] <= ends[length + 1]
         /\ count < length =>
              /\ ends[count + 1] - ends[count] \in FreshLimit..MaxItem
              /\ ends[count + 1] <= ends[length]
         /\ at + rest <= ends[length + 1]
         /\ itemTotal \in Nat /\ itemPos \in 0..itemTotal /\ itemLimit \in 0..itemTotal
<1>1. /\ length \in Nat /\ count \in Nat /\ count <= length /\ badItem \in Nat
      /\ at \in Nat /\ rest \in Nat /\ pos \in Nat
      /\ Batch \in Nat /\ Batch > 0 /\ FreshLimit \in Nat /\ FreshLimit > 0 /\ MaxItem \in Nat
      /\ \A i \in 0..(length + 1) : ends[i] \in Nat
      /\ ends[0] > 0
  BY DEF VecAssumption, VecInv, InputOK, VecTypeOK
<1>2. capacity \in Nat /\ at + rest <= ends[length + 1]
  BY <1>1 DEF VecInv, VecTypeOK, Lesser
<1>3. /\ ends[0] <= ends[count] /\ ends[count] <= ends[length]
      /\ ends[length] <= ends[length + 1]
      /\ count < length => ends[count + 1] <= ends[length]
  BY <1>1, EndsOrdered DEF VecInv
<1>4. count < length => ends[count + 1] - ends[count] \in FreshLimit..MaxItem
  <2>. SUFFICES ASSUME count < length PROVE ends[count + 1] - ends[count] \in FreshLimit..MaxItem
    OBVIOUS
  <2>1. count + 1 \in 1..(length + 1) /\ (count + 1) - 1 = count
    BY <1>1
  <2>. QED
    BY <2>1 DEF VecInv, InputOK
<1>5. itemTotal \in Nat /\ itemPos \in 0..itemTotal /\ itemLimit \in 0..itemTotal
  BY DEF VecInv, ItemInv, Item!ContractTypeOK
<1>. QED
  BY <1>1, <1>2, <1>3, <1>4, <1>5

\* read_limit is a number, whichever decoder is asked.
LEMMA LimitIsNumber ==
  ASSUME VecAssumption, InputOK, count \in 0..length, itemLimit \in Nat, at \in Nat,
         in_prefix => at < ends[0]
  PROVE  read_limit \in Nat
<1>1. length \in Nat /\ FreshLimit \in Nat /\ length - count \in Nat /\ ends[0] \in Nat
  BY DEF VecAssumption, InputOK
<1>2. (length - count) * FreshLimit \in Nat
  BY <1>1
<1>. QED
  BY <1>1, <1>2 DEF read_limit

LEMMA PushCallKeeps ==
  ASSUME VecAssumption, VecInv, NEW n \in 0..(ends[length + 1] - pos), PushCall(n)
  PROVE  VecInv'
<1>1. /\ UNCHANGED <<ends, length, prefixOk, badItem, badAs, at, in_prefix, count, capacity,
                     has_item, itemTotal, itemVerdict, itemPos, itemPhase, itemLimit,
                     phase, pos, limit>>
      /\ pc = "idle" /\ rest' = n
      /\ phase = "more" \/ (phase = "ready" /\ n = 0)
      /\ pc' = IF in_prefix THEN "prefix" ELSE "loop"
  BY DEF PushCall, At, GoOn, input, itemVars, seen
<1>2. InputOK'
  BY <1>1 DEF VecInv, InputOK
<1>3. pos = at /\ at \in Nat /\ ends[length + 1] \in Nat
  BY <1>1, Facts DEF VecInv, PlaceInv
<1>4. VecTypeOK'
  BY <1>1, <1>3 DEF VecInv, VecTypeOK
<1>5. VecAligned' /\ PlaceInv'
  BY <1>1, <1>3 DEF VecInv, VecAligned, PlaceInv
<1>6. ItemInv'
  BY <1>1 DEF VecInv, ItemInv, LivingItem, Item!ContractTypeOK, Item!DecoderInv, Item!Limits
<1>. QED
  BY <1>2, <1>4, <1>5, <1>6 DEF VecInv

LEMMA PrefixKeeps == ASSUME VecAssumption, VecInv, Prefix PROVE VecInv'
<1>. USE Facts
<1>1. /\ UNCHANGED <<ends, length, prefixOk, badItem, badAs, count, capacity, has_item,
                     itemTotal, itemVerdict, itemPos, itemPhase, itemLimit>>
      /\ pc = "prefix"
  BY DEF Prefix, At, input, itemVars
<1>2. /\ in_prefix /\ count = 0 /\ capacity = 0 /\ ~has_item /\ at < ends[0] /\ phase = "more"
      /\ pos <= at
  BY <1>1 DEF VecInv, PlaceInv
<1>3. PICK c \in Nat : /\ c = Lesser(rest, ends[0] - at) /\ c <= rest /\ c <= ends[0] - at
                       /\ at' = at + c /\ rest' = rest - c
  BY <1>2 DEF Prefix, Take, Lesser
<1>4. /\ in_prefix' \in BOOLEAN /\ (in_prefix' <=> at' < ends[0])
      /\ IF in_prefix' THEN pc' = "idle" /\ phase' = "more" /\ pos' = at' /\ limit' = read_limit'
         ELSE IF ~prefixOk THEN pc' = "idle" /\ phase' = "failed" /\ pos' = at' /\ limit' = read_limit'
         ELSE IF length = 0 THEN pc' = "idle" /\ phase' = "ready" /\ pos' = at' /\ limit' = read_limit'
         ELSE pc' = "loop" /\ UNCHANGED <<phase, pos, limit>>
  <2>1. in_prefix' = (at' < ends[0])
    BY DEF Prefix
  <2>2. at' \in Nat /\ ends[0] \in Nat
    BY <1>2, <1>3
  <2>3. in_prefix' \in BOOLEAN
    BY ONLY <2>1, <2>2
  <2>4. in_prefix' <=> at' < ends[0]
    BY ONLY <2>1, <2>2
  <2>. QED
    BY <2>3, <2>4 DEF Prefix, Return, GoOn, seen
<1>5. InputOK'
  BY <1>1 DEF VecInv, InputOK
<1>6. read_limit' \in Nat
  BY <1>1, <1>2, <1>3, <1>4 DEF read_limit
<1>7. VecTypeOK'
  BY <1>1, <1>2, <1>3, <1>4, <1>6 DEF VecInv, VecTypeOK, Item!Phases
<1>8. VecAligned' /\ PlaceInv'
  <2>1. at' \in Nat /\ pos <= at' /\ at' <= ends[0] /\ ends[0] \in Nat /\ length \in Nat
    BY <1>2, <1>3
  <2>2. in_prefix' \/ at' = ends[0]
    BY <1>4, <2>1
  <2>. QED
    BY <1>1, <1>2, <1>4, <2>1, <2>2 DEF VecInv, VecAligned, PlaceInv
<1>9. ItemInv'
  BY <1>1, <1>2, <1>4 DEF VecInv, ItemInv, Item!ContractTypeOK, Item!DecoderInv, Item!Limits
<1>. QED
  BY <1>5, <1>7, <1>8, <1>9 DEF VecInv

LEMMA LoopItemKeeps == ASSUME VecAssumption, VecInv, LoopItem PROVE VecInv'
<1>. USE Facts
<1>1. /\ UNCHANGED <<ends, length, prefixOk, badItem, badAs, at, in_prefix, count, rest, phase, pos, limit>>
      /\ pc = "loop" /\ pc' = "item" /\ rest > 0 /\ has_item' = TRUE /\ capacity' = Reserved
      /\ IF has_item THEN UNCHANGED <<itemTotal, itemVerdict, itemPos, itemPhase, itemLimit>>
         ELSE /\ itemTotal' = ends[count + 1] - ends[count]
              /\ itemVerdict' = IF count + 1 = badItem THEN badAs ELSE "ok"
              /\ itemPos' = 0 /\ itemPhase' = "more" /\ itemLimit' = FreshLimit
  BY DEF LoopItem, At, GoOn, input, itemVars, seen
<1>2. phase = "more" /\ ~in_prefix /\ count < length /\ pos <= at
  BY <1>1 DEF VecInv, PlaceInv
<1>3. InputOK'
  BY <1>1 DEF VecInv, InputOK
<1>4. /\ capacity' \in Nat /\ count < capacity'
      /\ capacity' <= count + Batch /\ capacity' <= length
  BY <1>1, <1>2 DEF VecInv, VecTypeOK, Reserved, Lesser
<1>5. /\ Item!ContractTypeOK' /\ Item!DecoderInv'
      /\ itemTotal' \in 0..MaxItem /\ itemLimit' \in 0..MaxItem
      /\ itemTotal' = ends[count + 1] - ends[count]
      /\ itemVerdict' = IF count + 1 = badItem THEN badAs ELSE "ok"
      /\ itemPhase' = "more" /\ itemPos' < itemTotal'
      /\ itemPos' = IF has_item THEN itemPos ELSE 0
  <2>1. CASE has_item
    BY <1>1, <2>1 DEF VecInv, VecTypeOK, ItemInv, LivingItem, Item!ContractTypeOK, Item!DecoderInv,
       Item!Limits
  <2>2. CASE ~has_item
    <3>1. /\ itemTotal' \in Nat /\ itemTotal' > 0 /\ itemTotal' <= MaxItem
          /\ FreshLimit <= itemTotal'
      BY <1>1, <1>2, <2>2
    <3>2. itemVerdict' \in Item!Verdicts
      BY <1>1, <2>2 DEF VecInv, InputOK, Item!Verdicts
    <3>. QED
      BY <1>1, <2>2, <3>1, <3>2 DEF Item!ContractTypeOK, Item!DecoderInv, Item!Limits, Item!Phases
  <2>. QED
    BY <2>1, <2>2
<1>6. VecTypeOK'
  <2>1. capacity' \in count..Lesser(count + Batch, length)
    BY <1>4 DEF Lesser
  <2>. QED
    BY <1>1, <1>5, <2>1 DEF VecInv, VecTypeOK, Item!ContractTypeOK
<1>7. VecAligned' /\ PlaceInv'
  BY <1>1, <1>2, <1>5 DEF VecInv, VecAligned, PlaceInv
<1>8. ItemInv'
  BY <1>1, <1>2, <1>4, <1>5 DEF ItemInv, LivingItem
<1>. QED
  BY <1>3, <1>6, <1>7, <1>8 DEF VecInv

LEMMA LoopDoneKeeps == ASSUME VecAssumption, VecInv, LoopDone PROVE VecInv'
<1>. USE Facts
<1>1. /\ UNCHANGED <<ends, length, prefixOk, badItem, badAs, at, in_prefix, count, capacity,
                     has_item, itemTotal, itemVerdict, itemPos, itemPhase, itemLimit, rest>>
      /\ pc = "loop" /\ rest = 0
      /\ pc' = "idle" /\ phase' = (IF count = length THEN "ready" ELSE "more")
      /\ pos' = at' /\ limit' = read_limit'
  BY DEF LoopDone, At, Return, input, itemVars
<1>2. InputOK'
  BY <1>1 DEF VecInv, InputOK
<1>3. ~in_prefix
  BY <1>1 DEF VecInv, PlaceInv
<1>4. read_limit' \in Nat
  BY <1>1, <1>2, <1>3, LimitIsNumber DEF read_limit
<1>5. VecTypeOK'
  BY <1>1, <1>4 DEF VecInv, VecTypeOK, Item!Phases
<1>6. VecAligned' /\ PlaceInv'
  BY <1>1, <1>3 DEF VecInv, VecAligned, PlaceInv, ItemInv, LivingItem
<1>7. ItemInv'
  BY <1>1 DEF VecInv, ItemInv, LivingItem, Item!ContractTypeOK, Item!DecoderInv, Item!Limits
<1>. QED
  BY <1>2, <1>5, <1>6, <1>7 DEF VecInv

LEMMA ItemPushKeeps == ASSUME VecAssumption, VecInv, ItemPush PROVE VecInv'
<1>. USE Facts
<1>1. /\ UNCHANGED <<ends, length, prefixOk, badItem, badAs, in_prefix, count, capacity>>
      /\ pc = "item" /\ Item!Push(rest)
      /\ has_item' \in BOOLEAN /\ (has_item' <=> itemPhase' # "failed")
      /\ IF itemPhase' = "ready" THEN pc' = "itemDone" /\ UNCHANGED <<phase, pos, limit>>
         ELSE pc' = "idle" /\ phase' = itemPhase' /\ pos' = at' /\ limit' = read_limit'
  BY DEF ItemPush, At, Return, GoOn, input, seen
<1>2. /\ has_item /\ rest > 0 /\ phase = "more" /\ ~in_prefix /\ pos <= at
      /\ LivingItem /\ itemPhase = "more" /\ itemPos < itemTotal
      /\ at = ends[count] + itemPos
  BY <1>1 DEF VecInv, ItemInv, LivingItem, PlaceInv, VecAligned
<1>3. /\ UNCHANGED <<itemTotal, itemVerdict>> /\ Item!DecoderInv'
      /\ itemPhase' \in {"more", "ready", "failed"} /\ itemLimit' \in 0..itemTotal
      /\ itemPhase' = "more" => itemPos' # itemTotal
  BY <1>1, ItemPushEffect DEF VecInv, ItemInv
<1>4. PICK c \in Nat : itemPos' = itemPos + c /\ c <= rest /\ itemPos + c <= itemTotal
  BY <1>1, ItemPushEffect DEF VecInv, ItemInv
<1>5. at' = at + c /\ rest' = rest - c
  BY <1>4 DEF ItemPush, Take
<1>6. InputOK'
  BY <1>1 DEF VecInv, InputOK
<1>7. itemTotal' \in Nat /\ itemPos' \in 0..itemTotal' /\ itemLimit' \in Nat
  BY <1>3, <1>4
<1>8. Item!ContractTypeOK'
  BY <1>3, <1>7 DEF VecInv, ItemInv, Item!ContractTypeOK, Item!Phases
<1>9. /\ at' \in Nat /\ rest' \in Nat /\ at' + rest' = at + rest /\ at <= at'
      /\ at' = ends[count] + itemPos'
  BY <1>2, <1>4, <1>5
<1>10. read_limit' \in Nat
  BY <1>1, <1>2, <1>6, <1>7, <1>9, LimitIsNumber DEF read_limit, VecInv, VecTypeOK
<1>11. VecTypeOK'
  BY <1>1, <1>3, <1>7, <1>8, <1>9, <1>10 DEF VecInv, VecTypeOK, Item!ContractTypeOK, Item!Phases
<1>12. VecAligned' /\ PlaceInv'
  <2>1. count < length
    BY <1>2 DEF LivingItem
  <2>2. pos \in Nat /\ pos <= at'
    BY <1>2, <1>9
  <2>. QED
    BY <1>1, <1>2, <1>3, <1>9, <2>1, <2>2 DEF VecInv, VecAligned, PlaceInv
<1>13. ItemInv'
  BY <1>1, <1>2, <1>3, <1>4, <1>7, <1>8 DEF ItemInv, LivingItem, Item!DecoderInv
<1>. QED
  BY <1>6, <1>11, <1>12, <1>13 DEF VecInv

LEMMA ItemDoneKeeps == ASSUME VecAssumption, VecInv, ItemDone PROVE VecInv'
<1>. USE Facts
<1>1. /\ UNCHANGED <<ends, length, prefixOk, badItem, badAs, at, in_prefix, rest>>
      /\ pc = "itemDone" /\ Item!End /\ has_item' = FALSE
      /\ count' = IF itemPhase' = "ok" THEN count + 1 ELSE count
      /\ capacity' = IF count' > capacity THEN count' ELSE capacity
      /\ IF itemPhase' = "err"
         THEN pc' = "idle" /\ phase' = "failed" /\ pos' = at' /\ limit' = read_limit'
         ELSE IF count' = length
         THEN pc' = "idle" /\ phase' = "ready" /\ pos' = at' /\ limit' = read_limit'
         ELSE pc' = "loop" /\ UNCHANGED <<phase, pos, limit>>
  BY DEF ItemDone, At, Return, GoOn, input, seen
<1>2. /\ has_item /\ phase = "more" /\ ~in_prefix /\ pos <= at
      /\ LivingItem /\ itemPhase = "ready" /\ itemPos = itemTotal
      /\ at = ends[count] + itemPos /\ prefixOk
      /\ badItem = 0 \/ count < badItem
  BY <1>1 DEF VecInv, ItemInv, LivingItem, PlaceInv, VecAligned, Item!DecoderInv
<1>3. /\ UNCHANGED <<itemTotal, itemVerdict, itemPos, itemLimit>>
      /\ itemPhase' \in {"ok", "err"} /\ (itemPhase' = "ok" <=> itemVerdict = "ok")
      /\ Item!DecoderInv'
  BY <1>1, <1>2, ItemEndEffect DEF VecInv, ItemInv
<1>4. at = ends[count + 1] /\ count < length /\ count < capacity
  BY <1>2 DEF LivingItem
<1>5. itemPhase' = "ok" => badItem = 0 \/ count + 1 < badItem
  <2>1. itemPhase' = "ok" /\ badItem # 0 => count + 1 # badItem
    BY <1>2, <1>3 DEF LivingItem, VecInv, InputOK
  <2>. QED
    BY <1>2, <2>1
<1>6. InputOK'
  BY <1>1 DEF VecInv, InputOK
<1>7. count' \in Nat /\ count' <= length /\ capacity' = capacity /\ count' <= capacity
      /\ (count' = count \/ count' = count + 1)
  BY <1>1, <1>4
<1>8. read_limit' \in Nat
  BY <1>1, <1>2, <1>3, <1>6, <1>7, LimitIsNumber DEF read_limit, VecInv, VecTypeOK
<1>9. VecTypeOK'
  <2>1. capacity' \in count'..Lesser(count' + Batch, length')
    BY <1>1, <1>7 DEF Lesser, VecInv, VecTypeOK
  <2>2. count' \in 0..length' /\ at \in Nat
    BY <1>1, <1>7
  <2>3. pos' \in Nat /\ limit' \in Nat /\ phase' \in Item!Phases
        /\ pc' \in {"idle", "prefix", "loop", "item", "itemDone"}
    BY <1>1, <1>8, <2>2 DEF VecInv, VecTypeOK, Item!Phases
  <2>4. itemPhase' \in Item!Phases
    BY <1>3 DEF Item!Phases
  <2>. QED
    BY <1>1, <1>3, <2>1, <2>2, <2>3, <2>4 DEF VecInv, VecTypeOK
<1>10. VecAligned' /\ PlaceInv'
  <2>1. itemPhase' = "ok" => count' = count + 1 /\ count' <= length /\ at' = ends[count']
    BY <1>1, <1>4
  <2>. QED
    BY <1>1, <1>2, <1>3, <1>5, <1>7, <2>1 DEF VecInv, VecAligned, PlaceInv
<1>11. ItemInv'
  BY <1>1, <1>3 DEF VecInv, ItemInv, Item!ContractTypeOK, Item!Phases
<1>. QED
  BY <1>6, <1>9, <1>10, <1>11 DEF VecInv

LEMMA VecEndKeeps == ASSUME VecAssumption, VecInv, VecEnd PROVE VecInv'
<1>1. /\ UNCHANGED <<ends, length, prefixOk, badItem, badAs, at, in_prefix, count, capacity,
                     has_item, itemTotal, itemVerdict, itemPos, itemPhase, itemLimit, pc, rest,
                     pos, limit>>
      /\ phase \in {"more", "ready"} /\ phase' \in {"ok", "err"} /\ pc = "idle"
      /\ in_prefix => phase' = "err"
  BY DEF VecEnd, At, input, itemVars
<1>2. InputOK' /\ VecTypeOK'
  BY <1>1 DEF VecInv, InputOK, VecTypeOK, Item!Phases
<1>3. VecAligned' /\ PlaceInv'
  BY <1>1 DEF VecInv, VecAligned, PlaceInv
<1>4. ItemInv'
  BY <1>1 DEF VecInv, ItemInv, LivingItem, Item!ContractTypeOK, Item!DecoderInv, Item!Limits
<1>. QED
  BY <1>2, <1>3, <1>4 DEF VecInv

LEMMA StepKeeps == ASSUME VecAssumption, VecInv, [VecNext]_vars PROVE VecInv'
<1>1. CASE UNCHANGED vars
  <2>1. UNCHANGED <<ends, length, prefixOk, badItem, badAs, at, in_prefix, count, capacity,
                    has_item, itemTotal, itemVerdict, itemPos, itemPhase, itemLimit, pc, rest,
                    phase, pos, limit>>
    BY <1>1 DEF vars, input, itemVars, seen
  <2>2. InputOK' /\ VecTypeOK' /\ VecAligned'
    BY <2>1 DEF VecInv, InputOK, VecTypeOK, VecAligned
  <2>3. ItemInv'
    BY <2>1 DEF VecInv, ItemInv, LivingItem, Item!ContractTypeOK, Item!DecoderInv, Item!Limits
  <2>4. PlaceInv'
    BY <2>1 DEF VecInv, PlaceInv
  <2>. QED
    BY <2>2, <2>3, <2>4 DEF VecInv
<1>2. CASE VecNext
  BY <1>1, <1>2, PushCallKeeps, PrefixKeeps, LoopItemKeeps, LoopDoneKeeps, ItemPushKeeps,
     ItemDoneKeeps, VecEndKeeps DEF VecNext, Returned
<1>. QED
  BY <1>1, <1>2

-----------------------------------------------------------------------------
(* Every step is a step of the contract or none.                           *)

LEMMA InputStays == [VecNext]_vars => UNCHANGED <<ends, length, prefixOk, badItem, badAs>>
BY DEF VecNext, PushCall, Prefix, LoopItem, LoopDone, ItemPush, ItemDone, VecEnd, Returned, vars,
   input

\* What the stream as a whole announces.
LEMMA TotalIsNumber ==
  ASSUME VecAssumption, VecInv
  PROVE  Total \in Nat /\ ends[0] <= Total /\ ends[length] \in Nat /\ ends[0] \in Nat
<1>1. 0 \in 0..(length + 1) /\ length \in 0..(length + 1)
  BY Facts
<1>2. ends[0] \in Nat /\ ends[length] \in Nat /\ ends[0] <= ends[count] /\ ends[count] <= ends[length]
      /\ ends[count] \in Nat
  BY <1>1, Facts
<1>. QED
  BY <1>2 DEF Total

LEMMA Lacking ==
  \A a, b, f \in Nat : a < b /\ f > 0 => (b - a) * f \in Nat /\ (b - a) * f >= 1
OBVIOUS

LEMMA Difference ==
  \A a, b \in Nat : a <= b => \E c \in Nat : b = a + c 
OBVIOUS

\* A decoder that asks for more announces at least a byte, and none that is not there.
LEMMA MoreLimit ==
  ASSUME VecAssumption, VecInv, VecInv', UNCHANGED <<ends, length, prefixOk, badItem, badAs>>,
         ~in_prefix', phase' = "more", pc' = "idle"
  PROVE  at' \in Nat /\ read_limit' \in 1..(Total - at')
<1>1. /\ prefixOk /\ count' \in Nat /\ count' < length /\ at' \in Nat
      /\ at' = ends[count'] + (IF has_item' THEN itemPos' ELSE 0)
  BY DEF VecInv, PlaceInv, VecAligned, VecTypeOK
<1>2. Total = ends[length] /\ length \in Nat /\ FreshLimit \in Nat /\ FreshLimit > 0
  BY <1>1, Facts DEF Total
<1>3. ends[count'] \in Nat /\ ends[count' + 1] \in Nat /\ ends[length] \in Nat
  BY <1>1, <1>2, Facts
<1>4. CASE has_item'
  <2>1. /\ itemTotal' = ends[count' + 1] - ends[count']
        /\ itemPhase' = "more" /\ itemPos' < itemTotal'
    BY <1>4 DEF VecInv, ItemInv, LivingItem
  <2>2. itemTotal' \in Nat /\ itemPos' \in Nat /\ itemLimit' \in 1..(itemTotal' - itemPos')
    BY <2>1 DEF VecInv, ItemInv, Item!DecoderInv, Item!ContractTypeOK, Item!Limits
  <2>3. ends[count' + 1] <= ends[length]
    BY <1>1, <1>2, EndsOrdered DEF VecInv
  <2>4. read_limit' = itemLimit'
    BY <1>4 DEF read_limit
  <2>. QED
    BY <1>1, <1>2, <1>3, <1>4, <2>1, <2>2, <2>3, <2>4
<1>5. CASE ~has_item'
  <2>1. ends[count'] + (length - count') * FreshLimit <= ends[length]
    BY <1>1, <1>2, EndsGrow DEF VecInv
  <2>2. count' # length
    BY <1>1, <1>2
  <2>3. read_limit' = (length - count') * FreshLimit
    BY <1>5, <2>2 DEF read_limit
  <2>4. (length - count') * FreshLimit \in Nat /\ (length - count') * FreshLimit >= 1
    BY <1>1, <1>2, Lacking, Zenon
  <2>. DEFINE lacking == (length - count') * FreshLimit
  <2>. HIDE DEF lacking
  <2>5. /\ lacking \in Nat /\ lacking >= 1 /\ read_limit' = lacking
        /\ ends[count'] + lacking <= ends[length]
    BY <2>1, <2>3, <2>4 DEF lacking
  <2>. QED
    BY <1>1, <1>2, <1>3, <1>5, <2>5
<1>. QED
  BY <1>4, <1>5

\* A call that returns a status the stream justifies is a push of the contract.
LEMMA ReturnIsPush ==
  ASSUME Total \in Nat, pos \in Nat, UNCHANGED <<ends, length, prefixOk, badItem, badAs>>,
         pos' \in pos..Total,
         \/ phase = "more" /\ phase' = "more" /\ pos' < Total
         \/ phase = "more" /\ phase' = "failed" /\ Verdict = "badpush"
         \/ phase = "more" /\ phase' = "ready" /\ Verdict # "badpush" /\ pos' = Total
         \/ phase = "ready" /\ phase' = "ready" /\ pos' = pos,
         phase' # "failed" => limit' \in Contract!Limits(pos')
  PROVE  Contract!Next
<1>0. Verdict' = Verdict /\ Total' = Total
  BY DEF Verdict, Total
<1>1. PICK c \in Nat : c <= Total - pos /\ pos' = pos + c
  <2>1. pos \in Nat /\ pos' \in Nat /\ pos <= pos' /\ pos' <= Total
    OBVIOUS
  <2>2. PICK c \in Nat : pos' = pos + c
    BY <2>1, Difference
  <2>. QED
    BY <2>1, <2>2
<1>2. c \in Contract!Takes(c)
  BY <1>1 DEF Contract!Takes, Contract!Lesser
<1>3. phase = "more" => phase' \in Contract!Settle(pos')
  BY DEF Contract!Settle
<1>4. Contract!Push(c)
  BY <1>0, <1>1, <1>2, <1>3 DEF Contract!Push
<1>5. c \in 0..(Total - pos)
  BY <1>1
<1>. QED
  BY <1>4, <1>5 DEF Contract!Next, Contract!Push, Contract!Takes, Contract!Settle, Contract!Limits,
     Contract!Lesser

LEMMA InitRefines == VecAssumption /\ VecInit => Contract!Init
<1>. SUFFICES ASSUME VecAssumption, VecInit PROVE Contract!Init
  OBVIOUS
<1>1. Total \in Nat /\ Total > 0
  BY InitEstablishes, TotalIsNumber, Facts
<1>2. phase = "more" /\ pos = 0 /\ limit = 1
  BY DEF VecInit
<1>. QED
  BY <1>1, <1>2 DEF Contract!Init, Contract!Fresh, Contract!Limits, Contract!Verdicts, Verdict

\* push_bytes fails only on a stream that is rejected, and not behind its end.
LEMMA FailingIsJustified ==
  ASSUME VecAssumption, VecInv, [VecNext]_vars, phase \in {"more", "ready"}, phase' = "failed"
  PROVE  Verdict = "badpush" /\ at' <= Total /\ phase = "more"
<1>1. CASE Prefix
  <2>1. ~prefixOk /\ ~in_prefix' /\ in_prefix' = (at' < ends[0]) /\ in_prefix /\ phase = "more"
        /\ at' = at + Lesser(rest, ends[0] - at) /\ at < ends[0]
    BY <1>1 DEF Prefix, Return, GoOn, seen, Take, At, VecInv, PlaceInv
  <2>2. at' <= ends[0]
    BY <2>1, Facts DEF Lesser
  <2>. QED
    BY <2>1, <2>2 DEF Verdict, Total
<1>2. CASE ItemPush
  <2>1. pc = "item" /\ phase = "more" /\ LivingItem /\ ~in_prefix /\ prefixOk /\ Item!Push(rest)
        /\ at = ends[count] + itemPos
    BY <1>2 DEF ItemPush, At, VecInv, PlaceInv, ItemInv, VecAligned
  <2>2. itemPhase' = "failed"
    BY <1>2 DEF ItemPush, Return, GoOn, seen
  <2>3. itemVerdict = "badpush"
    BY <2>1, <2>2, Facts, ItemPushEffect DEF VecInv, ItemInv, Item!DecoderInv
  <2>4. badItem # 0
    BY <2>1, <2>3, Facts DEF LivingItem
  <2>5. PICK c \in Nat : itemPos' = itemPos + c /\ itemPos + c <= itemTotal
    BY <2>1, Facts, ItemPushEffect DEF VecInv, ItemInv
  <2>6. at' = at + c
    BY <1>2, <2>5, Facts DEF ItemPush, Take
  <2>7. at' <= ends[count + 1] /\ ends[count + 1] <= ends[length] /\ ends[length] \in Nat
    BY <2>1, <2>5, <2>6, Facts DEF LivingItem
  <2>. QED
    BY <2>1, <2>4, <2>6, <2>7, Facts DEF Verdict, Total
<1>3. CASE ItemDone
  <2>1. pc = "itemDone" /\ phase = "more" /\ LivingItem /\ ~in_prefix /\ prefixOk /\ Item!End
        /\ at = ends[count] + itemPos /\ at' = at
    BY <1>3 DEF ItemDone, At, VecInv, PlaceInv, ItemInv, VecAligned
  <2>2. itemPhase' = "err"
    BY <1>3 DEF ItemDone, Return, GoOn, seen
  <2>3. itemVerdict # "ok"
    BY <2>1, <2>2, ItemEndEffect DEF VecInv, ItemInv, LivingItem, Item!DecoderInv
  <2>4. badItem # 0
    BY <2>1, <2>3, Facts DEF LivingItem
  <2>5. at <= ends[count + 1] /\ ends[count + 1] <= ends[length] /\ ends[length] \in Nat
    BY <2>1, Facts DEF LivingItem
  <2>. QED
    BY <2>1, <2>4, <2>5, Facts DEF Verdict, Total
<1>. QED
  BY <1>1, <1>2, <1>3 DEF VecNext, PushCall, LoopItem, LoopDone, VecEnd, Returned, GoOn, Return,
     seen, vars

\* A call returns with what the stream up to the byte it stands at justifies.
LEMMA ReturningRefines ==
  ASSUME VecAssumption, VecInv, VecInv', [VecNext]_vars, pc # "idle", pc' = "idle"
  PROVE  Contract!Next
<1>1. /\ UNCHANGED <<ends, length, prefixOk, badItem, badAs>>
      /\ Total \in Nat /\ Total' = Total /\ ends[0] <= Total /\ ends[0] \in Nat
  BY InputStays, TotalIsNumber DEF Total
<1>2. /\ phase = "more" \/ (phase = "ready" /\ pc = "loop" /\ rest = 0)
      /\ pos <= at /\ pos \in Nat /\ at \in Nat
  BY Facts DEF VecInv, PlaceInv
<1>3. pos' = at' /\ limit' = read_limit' /\ phase' \in {"more", "ready", "failed"}
  <2>1. phase' \in {"more", "ready", "failed"}
    <3>1. CASE ItemPush
      BY <3>1, Facts, ItemPushEffect DEF ItemPush, Return, GoOn, At, VecInv, ItemInv
    <3>. QED
      BY <3>1 DEF VecNext, PushCall, Prefix, LoopItem, LoopDone, ItemDone, VecEnd, Returned, At,
         Return, GoOn, vars
  <2>. QED
    BY <2>1 DEF VecNext, PushCall, Prefix, LoopItem, LoopDone, ItemPush, ItemDone, VecEnd, Returned,
       At, Return, GoOn, vars
<1>4. at <= at' /\ at' \in Nat /\ (phase = "ready" => at' = at /\ phase' = "ready")
  <2>1. CASE Prefix
    BY <2>1, Facts DEF Prefix, Take, At, Lesser, VecInv, PlaceInv
  <2>2. CASE ItemPush
    <3>1. PICK c \in Nat : itemPos' = itemPos + c
      BY <2>2, Facts, ItemPushEffect DEF ItemPush, At, VecInv, ItemInv
    <3>2. at' = at + c
      BY <2>2, <3>1, Facts DEF ItemPush, Take
    <3>. QED
      BY <1>2, <2>2, <3>2 DEF ItemPush, At
  <2>3. CASE LoopDone
    BY <1>2, <2>3 DEF LoopDone, Return, VecInv, PlaceInv
  <2>4. CASE ItemDone
    BY <1>2, <2>4 DEF ItemDone, At
  <2>. QED
    BY <2>1, <2>2, <2>3, <2>4 DEF VecNext, PushCall, LoopItem, VecEnd, Returned, At, GoOn, vars
<1>5. CASE phase' = "failed"
  <2>1. Verdict = "badpush" /\ at' <= Total /\ phase = "more"
    BY <1>2, <1>5, FailingIsJustified
  <2>2. pos' \in pos..Total
    BY <1>1, <1>2, <1>3, <1>4, <2>1
  <2>. QED
    BY <1>1, <1>2, <1>5, <2>1, <2>2, ReturnIsPush
<1>6. CASE phase' = "ready"
  <2>1. /\ count' = length /\ ~has_item' /\ ~in_prefix' /\ prefixOk
        /\ badItem = 0 \/ count' < badItem
    BY <1>1, <1>6 DEF VecInv, PlaceInv
  <2>2. badItem = 0
    BY <2>1, Facts DEF VecInv, InputOK
  <2>3. Verdict # "badpush" /\ Total = ends[length] /\ read_limit' = 0
    BY <1>1, <2>1, <2>2 DEF Verdict, Total, read_limit
  <2>a. at' = ends[count'] + 0
    BY <1>1, <1>6, <2>1 DEF VecInv, VecAligned
  <2>4. pos' = Total /\ limit' \in Contract!Limits(pos')
    BY <1>1, <1>3, <2>1, <2>3, <2>a, TotalIsNumber DEF Contract!Limits
  <2>5. pos' \in pos..Total
    BY <1>1, <1>2, <1>3, <1>4, <2>4
  <2>6. phase = "ready" => pos' = pos
    BY <1>2, <1>3, <1>4 DEF VecInv, PlaceInv
  <2>. QED
    BY <1>1, <1>2, <1>6, <2>3, <2>4, <2>5, <2>6, ReturnIsPush
<1>7. CASE phase' = "more"
  <2>1. at' < Total /\ limit' \in 1..(Total - at')
    <3>1. CASE in_prefix'
      <4>1. at' < ends[0]
        BY <1>1, <3>1 DEF VecInv, PlaceInv
      <4>2. read_limit' = IF at' = 0 THEN 1 ELSE ends[0] - at'
        BY <1>1, <3>1 DEF read_limit
      <4>. QED
        BY <1>1, <1>3, <1>4, <4>1, <4>2
    <3>2. CASE ~in_prefix'
      BY <1>1, <1>3, <1>4, <1>7, <3>2, MoreLimit
    <3>. QED
      BY <3>1, <3>2
  <2>2. pos' \in pos..Total /\ pos' < Total
    BY <1>1, <1>2, <1>3, <1>4, <2>1
  <2>3. limit' \in Contract!Limits(pos')
    <3>1. pos' # Total /\ pos' = at'
      BY <1>1, <1>3, <2>2
    <3>2. limit' \in 1..(Total - pos')
      BY <2>1, <3>1, Zenon
    <3>. QED
      BY <3>1, <3>2, Zenon DEF Contract!Limits
  <2>. QED
    BY <1>1, <1>2, <1>4, <1>7, <2>2, <2>3, ReturnIsPush
<1>. QED
  BY <1>3, <1>5, <1>6, <1>7

\* end answers for the stream as a whole.
LEMMA EndRefines == ASSUME VecAssumption, VecInv, VecEnd PROVE Contract!Next
<1>. USE Facts
<1>1. /\ pc = "idle" /\ phase \in {"more", "ready"} /\ pos = at
      /\ phase' = IF ~in_prefix /\ count = length THEN "ok" ELSE "err"
      /\ UNCHANGED <<ends, length, prefixOk, badItem, badAs, pos, limit>>
  BY DEF VecEnd, At, input, VecInv, PlaceInv
<1>2. Total \in Nat /\ ends[0] <= Total /\ ends[0] \in Nat
  BY TotalIsNumber
<1>3. ~in_prefix /\ count = length <=> pos = Total /\ Verdict = "ok"
  <2>1. CASE in_prefix
    BY <1>1, <1>2, <2>1 DEF VecInv, PlaceInv
  <2>2. CASE ~in_prefix /\ phase = "ready"
    <3>1. count = length /\ at = ends[length] /\ prefixOk /\ badItem = 0
      BY <2>2 DEF VecInv, PlaceInv, VecAligned, InputOK
    <3>. QED
      BY <1>1, <2>2, <3>1 DEF Total, Verdict
  <2>3. CASE ~in_prefix /\ phase = "more"
    <3>1. /\ count < length /\ prefixOk
          /\ at = ends[count] + (IF has_item THEN itemPos ELSE 0)
          /\ has_item => itemPos < ends[count + 1] - ends[count]
      BY <1>1, <2>3 DEF VecInv, PlaceInv, VecAligned, ItemInv, LivingItem
    <3>2. ends[count] \in Nat /\ ends[count + 1] \in Nat /\ ends[length] \in Nat
      BY <3>1
    <3>3. ends[count + 1] - ends[count] >= FreshLimit /\ ends[count + 1] <= ends[length]
      BY <3>1
    <3>4. at < ends[count + 1]
      BY <3>1, <3>2, <3>3
    <3>5. Total = ends[length]
      BY <3>1 DEF Total
    <3>. QED
      BY <1>1, <3>1, <3>2, <3>3, <3>4, <3>5
  <2>. QED
    BY <1>1, <2>1, <2>2, <2>3
<1>. QED
  BY <1>1, <1>3 DEF Contract!Next, Contract!End, Total, Verdict

LEMMA StepRefines ==
  ASSUME VecAssumption, VecInv, [VecNext]_vars
  PROVE  [Contract!Next]_(Contract!contractVars)
<1>1. VecInv'
  BY StepKeeps
<1>2. CASE pc # "idle" /\ pc' = "idle"
  BY <1>1, <1>2, ReturningRefines
<1>3. CASE VecEnd
  BY <1>3, EndRefines
<1>4. CASE UNCHANGED <<phase, pos, limit>>
  BY <1>4, InputStays DEF Contract!contractVars, Total, Verdict
<1>5. UNCHANGED <<phase, pos, limit>> \/ (pc # "idle" /\ pc' = "idle") \/ VecEnd
  BY DEF VecNext, PushCall, Prefix, LoopItem, LoopDone, ItemPush, ItemDone, Returned, At, Return,
     GoOn, vars, seen
<1>. QED
  BY <1>2, <1>3, <1>4, <1>5

\* A call that asks for more has used up its slice or taken some of it.
LEMMA StepMoves == ASSUME VecAssumption, VecInv, [VecNext]_vars PROVE PushMoves
<1>. SUFFICES ASSUME pc # "idle", pc' = "idle", phase' = "more" PROVE rest' = 0 \/ pos' > pos
  BY DEF PushMoves
<1>1. CASE Prefix
  <2>1. /\ in_prefix' /\ in_prefix' = (at' < ends[0]) /\ at < ends[0]
        /\ at' = at + Lesser(rest, ends[0] - at) /\ rest' = rest - Lesser(rest, ends[0] - at)
    BY <1>1 DEF Prefix, Take, Return, GoOn, At, VecInv, PlaceInv
  <2>2. at' < ends[0]
    BY <2>1
  <2>3. rest \in Nat /\ at \in Nat /\ ends[0] \in Nat
    BY Facts
  <2>. QED
    BY <2>1, <2>2, <2>3 DEF Lesser
<1>2. CASE LoopDone
  BY <1>2 DEF LoopDone
<1>3. CASE ItemPush
  <2>1. /\ rest > 0 /\ itemPhase = "more" /\ itemPos < itemTotal /\ pos <= at
        /\ Item!Push(rest) /\ pos' = at'
    BY <1>3 DEF ItemPush, At, Return, GoOn, VecInv, ItemInv, LivingItem, PlaceInv
  <2>2. PICK c \in Nat : itemPos' = itemPos + c /\ c > 0
    BY <2>1, Facts, ItemPushEffect DEF VecInv, ItemInv
  <2>3. at' = at + c
    BY <1>3, <2>2, Facts DEF ItemPush, Take
  <2>4. pos \in Nat /\ at \in Nat
    BY Facts
  <2>. QED
    BY <2>1, <2>2, <2>3, <2>4
<1>4. CASE ItemDone
  BY <1>4 DEF ItemDone, Return, GoOn, At, VecInv, PlaceInv
<1>. QED
  BY <1>1, <1>2, <1>3, <1>4 DEF VecNext, PushCall, LoopItem, VecEnd, Returned, At, GoOn, vars

-----------------------------------------------------------------------------
\* A vector decoder never stands beside its stream and never holds memory for more than
\* a batch ahead of the items it has received, nor for more than was announced: reserve()
\* and the loop of push_bytes, over every decoder of items.
THEOREM VecInvariant == VecAssumption => (VecSpec => [](VecTypeOK /\ VecAligned))
<1>. SUFFICES ASSUME VecAssumption PROVE VecSpec => [](VecTypeOK /\ VecAligned)
  OBVIOUS
<1>1. VecInit => VecInv
  BY InitEstablishes
<1>2. VecInv /\ [VecNext]_vars => VecInv'
  BY StepKeeps
<1>3. VecInv => VecTypeOK /\ VecAligned
  BY DEF VecInv
<1>. QED
  BY <1>1, <1>2, <1>3, PTL DEF VecSpec

\* VecDecoder keeps the promises of the Decoder trait: it stops exactly behind its last
\* item, never asks for bytes behind it, accepts the stream if and only if the prefix and
\* every item are acceptable, and a push that asks for more has moved on.
THEOREM VecImplementsDecoder == VecAssumption => (VecSpec => ImplementsDecoder)
<1>. SUFFICES ASSUME VecAssumption PROVE VecSpec => ImplementsDecoder
  OBVIOUS
<1>1. VecInit => VecInv /\ Contract!Init
  BY InitEstablishes, InitRefines
<1>2. VecInv /\ [VecNext]_vars => VecInv'
  BY StepKeeps
<1>3. VecInv /\ [VecNext]_vars => [Contract!Next]_(Contract!contractVars)
  BY StepRefines
<1>4. VecInv /\ [VecNext]_vars => [PushMoves]_vars
  BY StepMoves
<1>. QED
  BY <1>1, <1>2, <1>3, <1>4, PTL DEF VecSpec, ImplementsDecoder, Contract!Spec

=============================================================================
