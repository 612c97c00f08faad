------------------------ MODULE DecodeDriversProofs ------------------------
(***************************************************************************)
(* That the driver functions decide correctly and never over-read, for     *)
(* every buffer size, source and decoder of DecoderContract.               *)
(***************************************************************************)
EXTENDS DecodeDrivers, TLAPS

(* What a call of the decoder does.                                        *)

\* push_bytes keeps the decoder's invariant, takes at most what it is offered and
\* what the encoding lacks, and takes something of every slice it still needs.
LEMMA PushEffect ==
  ASSUME ContractTypeOK, DecoderInv, NEW n \in Nat, Push(n)
  PROVE  /\ UNCHANGED <<total, verdict>> /\ DecoderInv'
         /\ phase' \in {"more", "ready", "failed"} /\ limit' \in 0..total
         /\ \E c \in Nat :
              /\ pos' = pos + c
              /\ c <= n /\ pos + c <= total
              /\ phase = "more" /\ n > 0 /\ total > 0 => c > 0
              /\ phase = "ready" => phase' = "ready" /\ c = 0
         /\ phase' = "failed" => total > 0 /\ phase = "more"
         /\ phase' = "more" => pos' # total
<1> USE DEF ContractTypeOK, DecoderInv, Limits, Verdicts, Phases
<1>1. CASE phase = "ready"
  <2>1. pos' = pos + 0
    BY <1>1 DEF Push
  <2>. QED
    BY <1>1, <2>1 DEF Push
<1>2. CASE phase = "more"
  <2>1. PICK c \in Takes(n) : pos' = pos + c
    BY <1>2 DEF Push
  <2>2. /\ c \in Nat /\ c <= n /\ pos + c <= total
        /\ c > 0 \/ n = 0 \/ pos = total
    BY <2>1 DEF Takes, Lesser
  <2>3. /\ phase' \in Settle(pos')
        /\ limit' \in IF phase' = "failed" THEN {0} ELSE Limits(pos')
        /\ UNCHANGED <<total, verdict>>
    BY <1>2 DEF Push
  <2>4. pos' \in Nat /\ pos' <= total
    BY <2>1, <2>2
  <2>5. /\ phase' \in {"more", "ready", "failed"}
        /\ phase' = "failed" => verdict = "badpush"
        /\ phase' = "ready" => pos' = total /\ verdict # "badpush"
        /\ phase' = "more" => pos' # total
    BY <2>3, <2>4 DEF Settle
  <2>. QED
    BY <1>2, <2>1, <2>2, <2>3, <2>4, <2>5
<1>. QED
  BY <1>1, <1>2 DEF Push

\* end tells whether the encoding is complete and acceptable.
LEMMA EndEffect ==
  ASSUME ContractTypeOK, DecoderInv, End
  PROVE  /\ UNCHANGED <<total, verdict, pos, limit>>
         /\ phase' \in {"ok", "err"}
         /\ phase' = "ok" <=> pos = total /\ verdict = "ok"
         /\ DecoderInv'
BY DEF ContractTypeOK, DecoderInv, End, Limits

-----------------------------------------------------------------------------
\* What the contract says of a decoder in each phase holds of every decoder that keeps
\* the promises of the trait: complete exactly where read_limit is 0, never "ready"
\* short of its end, and no verdict without the bytes it is about.
THEOREM ContractInvariant == Spec => [](ContractTypeOK /\ DecoderInv)
<1>1. Init => ContractTypeOK /\ DecoderInv
  BY DEF Init, Fresh, ContractTypeOK, DecoderInv, Limits, Verdicts, Phases
<1>2. ContractTypeOK /\ DecoderInv /\ [Next]_contractVars => (ContractTypeOK /\ DecoderInv)'
  <2>. SUFFICES ASSUME ContractTypeOK, DecoderInv, [Next]_contractVars
                PROVE  ContractTypeOK' /\ DecoderInv'
    OBVIOUS
  <2>1. ASSUME NEW n \in 0..(total - pos), Push(n) PROVE ContractTypeOK' /\ DecoderInv'
    <3>1. n \in Nat
      BY DEF ContractTypeOK
    <3>2. PICK c \in Nat : pos' = pos + c /\ pos + c <= total
      BY <2>1, <3>1, PushEffect
    <3>3. /\ UNCHANGED <<total, verdict>> /\ DecoderInv'
          /\ phase' \in {"more", "ready", "failed"} /\ limit' \in 0..total
      BY <2>1, <3>1, PushEffect
    <3>. QED
      BY <3>2, <3>3 DEF ContractTypeOK, Phases
  <2>2. CASE End
    BY <2>2, EndEffect DEF ContractTypeOK, Phases
  <2>3. CASE UNCHANGED contractVars
    BY <2>3 DEF contractVars, ContractTypeOK, DecoderInv, Limits
  <2>. QED
    BY <2>1, <2>2, <2>3 DEF Next
<1>. QED
  BY <1>1, <1>2, PTL DEF Spec

-----------------------------------------------------------------------------
(* The inductive invariant: DecoderInv of the contract, and two parts more. *)

\* Where each driver stands: what it took from the source and did not push is in
\* its window, and a reader without a buffer never holds more than the decoder needs.
PositionInv ==
  /\ driver \in {"slice", "unbounded"} => taken = pos /\ pc \in {"loop", "end"} /\ window = 0
  /\ driver = "read" =>
       /\ pc \in {"loop", "push", "end"}
       /\ phase # "failed" => taken = pos
       /\ phase = "failed" => taken < pos /\ window >= pos - taken
       /\ window <= avail - taken
       /\ pc = "push" => window > 0
  /\ driver = "unbuffered" =>
       /\ pc \in {"loop", "push", "end"}
       /\ taken = pos + window
       /\ window <= total - pos
       /\ pc = "push" => window > 0
       /\ pc = "loop" => window = 0
  /\ driver = "hex" =>
       /\ pc \in {"loop", "flush", "final", "end"}
       /\ taken = pos + window
       /\ badChar = 0 => taken = 0 /\ pc = "loop"
       /\ badChar > 0 => taken < badChar
       /\ pc = "flush" => taken < avail
       /\ pc \in {"final", "end"} => taken = avail /\ badChar > 0

\* A driver that has not returned has a live decoder, which is complete only where the
\* driver is about to end it.
ProgressInv ==
  /\ result = "none" => phase \in {"more", "ready"}
  /\ result = "none" /\ pc # "end" => phase = "more"
  /\ result = "none" /\ pc = "end" =>
       \/ phase = "ready"
       \/ driver \in {"slice", "unbounded", "hex"} /\ pos = avail

DriverInv == DriverTypeOK /\ DecoderInv /\ PositionInv /\ ProgressInv /\ DriversDecide
               /\ NoOverRead

-----------------------------------------------------------------------------
(* What a call of the decoder does to the invariant, whoever makes it: the *)
(* lemmas above, with the types of this module.                            *)

LEMMA ContractTypes == DriverTypeOK => ContractTypeOK
BY DEF DriverTypeOK, ContractTypeOK

LEMMA ConsumedPos == ASSUME NEW c \in Nat, DriverTypeOK, pos' = pos + c PROVE Consumed = c
BY DEF Consumed, DriverTypeOK

-----------------------------------------------------------------------------
LEMMA InitEstablishes == DriverInit => DriverInv
<1>. SUFFICES ASSUME DriverInit PROVE DriverInv
  OBVIOUS
<1>. USE DriverAssumption
<1>1. DecoderInv /\ DriverTypeOK
  BY DEF DriverInit, Fresh, Limits, Verdicts, Phases, DecoderInv, DriverTypeOK, Drivers, Results
<1>2. PositionInv /\ ProgressInv
  BY DEF DriverInit, Fresh, PositionInv, ProgressInv, Drivers
<1>3. DriversDecide /\ NoOverRead
  BY DEF DriverInit, Fresh, DriversDecide, NoOverRead
<1>. QED
  BY <1>1, <1>2, <1>3 DEF DriverInv

-----------------------------------------------------------------------------
(* Each group of actions keeps the invariant.                               *)

LEMMA SliceKeeps == DriverInv /\ SliceStep => DriverInv'
<1>. SUFFICES ASSUME DriverTypeOK, DecoderInv, PositionInv, ProgressInv, DriversDecide, NoOverRead,
                  SliceStep
           PROVE  DriverInv'
  BY DEF DriverInv
<1>. USE DriverAssumption DEF Running, source
<1>1. CASE SlicePush
  <2>1. (avail - taken) \in Nat /\ Push(avail - taken)
    BY <1>1 DEF SlicePush, DriverTypeOK
  <2>2. /\ DecoderInv' /\ UNCHANGED <<total, verdict>>
        /\ phase' \in {"more", "ready", "failed"} /\ limit' \in 0..total
        /\ phase' = "failed" => total > 0
    BY <2>1, PushEffect, ContractTypes
  <2>3. PICK c \in Nat :
          /\ pos' = pos + c /\ Consumed = c
          /\ c <= avail - taken /\ pos + c <= total
          /\ phase = "more" /\ avail - taken > 0 /\ total > 0 => c > 0
    BY <2>1, PushEffect, ContractTypes, ConsumedPos
  <2>4. /\ UNCHANGED <<driver, avail, badChar, window, interrupts>>
        /\ driver \in {"slice", "unbounded"} /\ window = 0 /\ taken = pos /\ phase = "more"
        /\ taken < avail /\ taken' = taken + c
        /\ pc' = IF phase' = "ready" THEN "end" ELSE "loop"
        /\ result' = IF phase' = "failed" THEN "parse" ELSE "none"
    BY <1>1, <2>2, <2>3 DEF SlicePush, PositionInv, ProgressInv
  <2>5. /\ avail \in Nat /\ total \in Nat /\ pos \in Nat /\ taken \in Nat /\ taken <= avail
        /\ window \in Nat
        /\ driver = "read" => window <= WindowSize
        /\ driver # "read" => window <= BUFFER_SIZE
    BY DEF DriverTypeOK
  <2>6. DriverTypeOK'
    BY <2>2, <2>3, <2>4, <2>5 DEF DriverTypeOK, Results, Phases
  <2>7. PositionInv'
    BY <2>2, <2>3, <2>4, <2>5 DEF PositionInv, DecoderInv
  <2>8. ProgressInv'
    BY <2>2, <2>3, <2>4, <2>5 DEF ProgressInv, DecoderInv
  <2>9. DriversDecide' /\ NoOverRead'
    BY <2>2, <2>3, <2>4, <2>5, <2>7 DEF PositionInv, ProgressInv, DecoderInv, DriversDecide,
       NoOverRead, Whole, Readable, Acceptable
  <2>. QED
    BY <2>2, <2>6, <2>7, <2>8, <2>9 DEF DriverInv
<1>2. CASE SliceExhausted
  <2>1. DecoderInv' /\ UNCHANGED contractVars
    BY <1>2 DEF SliceExhausted, DecoderInv, Limits, contractVars
  <2>2. DriverTypeOK'
    BY <1>2, <2>1 DEF SliceExhausted, DriverTypeOK, PositionInv, ProgressInv, contractVars, Results
  <2>3. PositionInv' /\ ProgressInv'
    BY <1>2, <2>1 DEF SliceExhausted, DriverTypeOK, PositionInv, ProgressInv, contractVars
  <2>4. DriversDecide' /\ NoOverRead'
    BY <1>2, <2>1, <2>2, <2>3 DEF SliceExhausted, DriverTypeOK, PositionInv, contractVars,
       DriversDecide, NoOverRead, Whole, Readable, Acceptable
  <2>. QED
    BY <2>1, <2>2, <2>3, <2>4 DEF DriverInv
<1>3. CASE SliceEnd
  <2>1. /\ DecoderInv' /\ UNCHANGED <<total, verdict, pos, limit>>
        /\ phase' \in {"ok", "err"}
        /\ phase' = "ok" <=> pos = total /\ verdict = "ok"
    BY <1>3, EndEffect, ContractTypes DEF SliceEnd, Finish
  <2>2. pos = total \/ pos = avail
    BY <1>3 DEF SliceEnd, DriverTypeOK, DecoderInv, PositionInv, ProgressInv, Limits
  <2>3. DriverTypeOK'
    BY <1>3, <2>1 DEF SliceEnd, Finish, DriverTypeOK, PositionInv, ProgressInv, Results, Phases
  <2>4. PositionInv' /\ ProgressInv'
    BY <1>3, <2>1 DEF SliceEnd, Finish, DriverTypeOK, PositionInv, ProgressInv
  <2>5. DriversDecide' /\ NoOverRead'
    BY <1>3, <2>1, <2>2, <2>3, <2>4 DEF SliceEnd, Finish, DriverTypeOK, PositionInv,
       ProgressInv, DecoderInv, DriversDecide, NoOverRead, Whole, Readable, Acceptable
  <2>. QED
    BY <2>1, <2>3, <2>4, <2>5 DEF DriverInv
<1>. QED
  BY <1>1, <1>2, <1>3 DEF SliceStep

LEMMA ReadKeeps == DriverInv /\ ReadStep => DriverInv'
<1>. SUFFICES ASSUME DriverTypeOK, DecoderInv, PositionInv, ProgressInv, DriversDecide, NoOverRead,
                  ReadStep
           PROVE  DriverInv'
  BY DEF DriverInv
<1>. USE DriverAssumption DEF Running, source
<1>1. CASE ReadFill
  <2>0. window' \in 1..WindowSize /\ window' <= avail - taken
    BY <1>1 DEF ReadFill, DriverTypeOK, PositionInv, Lesser
  <2>1. DecoderInv' /\ UNCHANGED contractVars
    BY <1>1 DEF ReadFill, DecoderInv, Limits, contractVars
  <2>2. DriverTypeOK'
    BY <1>1, <2>0, <2>1 DEF ReadFill, DriverTypeOK, PositionInv, ProgressInv, contractVars, Results
  <2>3. PositionInv' /\ ProgressInv'
    BY <1>1, <2>0, <2>1 DEF ReadFill, DriverTypeOK, PositionInv, ProgressInv, contractVars
  <2>4. DriversDecide' /\ NoOverRead'
    BY <1>1, <2>1, <2>2, <2>3 DEF ReadFill, DriverTypeOK, PositionInv, contractVars,
       DriversDecide, NoOverRead, Whole, Readable, Acceptable
  <2>. QED
    BY <2>1, <2>2, <2>3, <2>4 DEF DriverInv
<1>2. CASE ReadEof
  <2>1. /\ DecoderInv' /\ UNCHANGED <<total, verdict, pos, limit>>
        /\ phase' \in {"ok", "err"}
        /\ phase' = "ok" <=> pos = total /\ verdict = "ok"
    BY <1>2, EndEffect, ContractTypes DEF ReadEof, Finish
  <2>2. pos = total \/ pos = avail
    BY <1>2 DEF ReadEof, DriverTypeOK, DecoderInv, PositionInv, ProgressInv, Limits
  <2>3. DriverTypeOK'
    BY <1>2, <2>1 DEF ReadEof, Finish, DriverTypeOK, PositionInv, ProgressInv, Results, Phases
  <2>4. PositionInv' /\ ProgressInv'
    BY <1>2, <2>1 DEF ReadEof, Finish, DriverTypeOK, PositionInv, ProgressInv
  <2>5. DriversDecide' /\ NoOverRead'
    BY <1>2, <2>1, <2>2, <2>3, <2>4 DEF ReadEof, Finish, DriverTypeOK, PositionInv,
       ProgressInv, DecoderInv, DriversDecide, NoOverRead, Whole, Readable, Acceptable
  <2>. QED
    BY <2>1, <2>3, <2>4, <2>5 DEF DriverInv
<1>3. CASE ReadPush
  <2>1. (window) \in Nat /\ Push(window)
    BY <1>3 DEF ReadPush, DriverTypeOK
  <2>2. /\ DecoderInv' /\ UNCHANGED <<total, verdict>>
        /\ phase' \in {"more", "ready", "failed"} /\ limit' \in 0..total
        /\ phase' = "failed" => total > 0
    BY <2>1, PushEffect, ContractTypes
  <2>3. PICK c \in Nat :
          /\ pos' = pos + c /\ Consumed = c
          /\ c <= window /\ pos + c <= total
          /\ phase = "more" /\ window > 0 /\ total > 0 => c > 0
    BY <2>1, PushEffect, ContractTypes, ConsumedPos
  <2>4. /\ UNCHANGED <<driver, avail, badChar, interrupts>>
        /\ driver = "read" /\ window > 0 /\ window <= avail - taken /\ taken = pos /\ phase = "more"
        /\ phase' = "failed" =>
             UNCHANGED <<taken, window, pc>> /\ pc = "push" /\ result' = "parse"
        /\ phase' # "failed" =>
             /\ taken' = taken + c /\ window' = window - c
             /\ pc' = (IF phase' = "ready" THEN "end" ELSE "loop") /\ result' = "none"
    BY <1>3, <2>2, <2>3 DEF ReadPush, PositionInv, ProgressInv
  <2>5. /\ avail \in Nat /\ total \in Nat /\ pos \in Nat /\ taken \in Nat /\ taken <= avail
        /\ window \in Nat
        /\ driver = "read" => window <= WindowSize
        /\ driver # "read" => window <= BUFFER_SIZE
    BY DEF DriverTypeOK
  <2>6. DriverTypeOK'
    BY <2>2, <2>3, <2>4, <2>5 DEF DriverTypeOK, Results, Phases
  <2>7. PositionInv'
    BY <2>2, <2>3, <2>4, <2>5 DEF PositionInv, DecoderInv
  <2>8. ProgressInv'
    BY <2>2, <2>3, <2>4, <2>5 DEF ProgressInv, DecoderInv
  <2>9. DriversDecide' /\ NoOverRead'
    BY <2>2, <2>3, <2>4, <2>5, <2>7 DEF PositionInv, ProgressInv, DecoderInv, DriversDecide,
       NoOverRead, Whole, Readable, Acceptable
  <2>. QED
    BY <2>2, <2>6, <2>7, <2>8, <2>9 DEF DriverInv
<1>. QED
  BY <1>1, <1>2, <1>3 DEF ReadStep

LEMMA UnbufferedKeeps == DriverInv /\ UnbufferedStep => DriverInv'
<1>. SUFFICES ASSUME DriverTypeOK, DecoderInv, PositionInv, ProgressInv, DriversDecide, NoOverRead,
                  UnbufferedStep
           PROVE  DriverInv'
  BY DEF DriverInv
<1>. USE DriverAssumption DEF Running, source
<1>1. CASE UnbufferedRead
  <2>1. /\ driver = "unbuffered" /\ phase = "more" /\ window = 0 /\ taken = pos
        /\ pc' = "push" /\ UNCHANGED <<contractVars, driver, avail, badChar, interrupts, result>>
    BY <1>1 DEF UnbufferedRead, PositionInv, ProgressInv, DriverTypeOK
  <2>2. DecoderInv'
    BY <2>1 DEF DecoderInv, Limits, contractVars
  <2>a. PICK w \in 1..Lesser(Lesser(limit, BUFFER_SIZE), avail - taken) :
          window' = w /\ taken' = taken + w
    BY <1>1 DEF UnbufferedRead
  <2>b. limit \in Nat /\ limit <= total - pos /\ taken < avail
    BY <1>1, <2>1 DEF UnbufferedRead, DecoderInv, DriverTypeOK, Limits
  <2>3. /\ w \in 1..BUFFER_SIZE /\ window' = w /\ taken' = taken + w
        /\ taken + w <= avail /\ w <= total - pos
    BY <2>a, <2>b DEF DriverTypeOK, Lesser
  <2>4. DriverTypeOK'
    BY <2>1, <2>3 DEF DriverTypeOK, contractVars
  <2>5. PositionInv'
    BY <2>1, <2>3 DEF PositionInv, DriverTypeOK, contractVars
  <2>6. ProgressInv'
    BY <2>1 DEF ProgressInv, contractVars
  <2>7. DriversDecide'
    BY <2>1 DEF DriversDecide, Whole, Readable, Acceptable, contractVars
  <2>8. NoOverRead'
    BY <1>1, <2>1, <2>3 DEF UnbufferedRead, NoOverRead, DriverTypeOK, contractVars
  <2>. QED
    BY <2>2, <2>4, <2>5, <2>6, <2>7, <2>8 DEF DriverInv
<1>2. CASE UnbufferedStop
  <2>1. /\ DecoderInv' /\ UNCHANGED <<total, verdict, pos, limit>>
        /\ phase' \in {"ok", "err"}
        /\ phase' = "ok" <=> pos = total /\ verdict = "ok"
    BY <1>2, EndEffect, ContractTypes DEF UnbufferedStop, Finish
  <2>2. pos = total \/ pos = avail
    BY <1>2 DEF UnbufferedStop, DriverTypeOK, DecoderInv, PositionInv, ProgressInv, Limits
  <2>3. DriverTypeOK'
    BY <1>2, <2>1 DEF UnbufferedStop, Finish, DriverTypeOK, PositionInv, ProgressInv, Results, Phases
  <2>4. PositionInv' /\ ProgressInv'
    BY <1>2, <2>1 DEF UnbufferedStop, Finish, DriverTypeOK, PositionInv, ProgressInv
  <2>5. DriversDecide' /\ NoOverRead'
    BY <1>2, <2>1, <2>2, <2>3, <2>4 DEF UnbufferedStop, Finish, DriverTypeOK, PositionInv,
       ProgressInv, DecoderInv, DriversDecide, NoOverRead, Whole, Readable, Acceptable
  <2>. QED
    BY <2>1, <2>3, <2>4, <2>5 DEF DriverInv
<1>3. CASE UnbufferedPush
  <2>1. (window) \in Nat /\ Push(window)
    BY <1>3 DEF UnbufferedPush, DriverTypeOK
  <2>2. /\ DecoderInv' /\ UNCHANGED <<total, verdict>>
        /\ phase' \in {"more", "ready", "failed"} /\ limit' \in 0..total
        /\ phase' = "failed" => total > 0
    BY <2>1, PushEffect, ContractTypes
  <2>3. PICK c \in Nat :
          /\ pos' = pos + c /\ Consumed = c
          /\ c <= window /\ pos + c <= total
          /\ phase = "more" /\ window > 0 /\ total > 0 => c > 0
    BY <2>1, PushEffect, ContractTypes, ConsumedPos
  <2>4. /\ UNCHANGED <<driver, avail, badChar, taken, interrupts>>
        /\ driver = "unbuffered" /\ window > 0 /\ taken = pos + window /\ window <= total - pos
        /\ phase = "more" /\ window' = window - c
        /\ pc' = IF phase' = "ready" THEN "end" ELSE IF window' = 0 THEN "loop" ELSE "push"
        /\ result' = IF phase' = "failed" THEN "parse" ELSE "none"
    BY <1>3, <2>2, <2>3 DEF UnbufferedPush, PositionInv, ProgressInv
  <2>5. /\ avail \in Nat /\ total \in Nat /\ pos \in Nat /\ taken \in Nat /\ taken <= avail
        /\ window \in Nat
        /\ driver = "read" => window <= WindowSize
        /\ driver # "read" => window <= BUFFER_SIZE
    BY DEF DriverTypeOK
  <2>6. DriverTypeOK'
    BY <2>2, <2>3, <2>4, <2>5 DEF DriverTypeOK, Results, Phases
  <2>7. PositionInv'
    BY <2>2, <2>3, <2>4, <2>5 DEF PositionInv, DecoderInv
  <2>8. ProgressInv'
    BY <2>2, <2>3, <2>4, <2>5 DEF ProgressInv, DecoderInv
  <2>9. DriversDecide' /\ NoOverRead'
    BY <2>2, <2>3, <2>4, <2>5, <2>7 DEF PositionInv, ProgressInv, DecoderInv, DriversDecide,
       NoOverRead, Whole, Readable, Acceptable
  <2>. QED
    BY <2>2, <2>6, <2>7, <2>8, <2>9 DEF DriverInv
<1>. QED
  BY <1>1, <1>2, <1>3 DEF UnbufferedStep

LEMMA HexKeeps == DriverInv /\ HexStep => DriverInv'
<1>. SUFFICES ASSUME DriverTypeOK, DecoderInv, PositionInv, ProgressInv, DriversDecide, NoOverRead,
                  HexStep
           PROVE  DriverInv'
  BY DEF DriverInv
<1>. USE DriverAssumption DEF Running, source
<1>1. CASE HexOddLength
  <2>1. DecoderInv' /\ UNCHANGED contractVars
    BY <1>1 DEF HexOddLength, Return, DecoderInv, Limits, contractVars
  <2>2. DriverTypeOK'
    BY <1>1, <2>1 DEF HexOddLength, Return, DriverTypeOK, PositionInv, ProgressInv, contractVars, Results
  <2>3. PositionInv' /\ ProgressInv'
    BY <1>1, <2>1 DEF HexOddLength, Return, DriverTypeOK, PositionInv, ProgressInv, contractVars
  <2>4. DriversDecide' /\ NoOverRead'
    BY <1>1, <2>1, <2>2, <2>3 DEF HexOddLength, Return, DriverTypeOK, PositionInv, contractVars,
       DriversDecide, NoOverRead, Whole, Readable, Acceptable
  <2>. QED
    BY <2>1, <2>2, <2>3, <2>4 DEF DriverInv
<1>2. CASE HexByte
  <2>1. DecoderInv' /\ UNCHANGED contractVars
    BY <1>2 DEF HexByte, Return, DecoderInv, Limits, contractVars
  <2>2. DriverTypeOK'
    BY <1>2, <2>1 DEF HexByte, Return, DriverTypeOK, contractVars, Results
  <2>3. PositionInv' /\ ProgressInv'
    BY <1>2, <2>1 DEF HexByte, Return, DriverTypeOK, PositionInv, ProgressInv, contractVars
  <2>4. NoOverRead'
    BY <1>2, <2>1 DEF HexByte, Return, NoOverRead, contractVars
  <2>5. result' = result \/ (result' = "hex" /\ driver = "hex" /\ badChar <= avail)
    <3>1. CASE taken + 1 = badChar
      BY <1>2, <3>1 DEF HexByte, Return, DriverTypeOK
    <3>2. CASE taken + 1 # badChar
      BY <1>2, <3>2 DEF HexByte
    <3>. QED
      BY <3>1, <3>2
  <2>6. DriversDecide'
    BY <1>2, <2>1, <2>5 DEF HexByte, DriverTypeOK, DriversDecide, Whole, Readable, Acceptable, contractVars
  <2>. QED
    BY <2>1, <2>2, <2>3, <2>4, <2>6 DEF DriverInv
<1>3. CASE HexFlush
  <2>1. (window) \in Nat /\ Push(window)
    BY <1>3 DEF HexFlush, DriverTypeOK
  <2>2. /\ DecoderInv' /\ UNCHANGED <<total, verdict>>
        /\ phase' \in {"more", "ready", "failed"} /\ limit' \in 0..total
        /\ phase' = "failed" => total > 0
    BY <2>1, PushEffect, ContractTypes
  <2>3. PICK c \in Nat :
          /\ pos' = pos + c /\ Consumed = c
          /\ c <= window /\ pos + c <= total
          /\ phase = "more" /\ window > 0 /\ total > 0 => c > 0
    BY <2>1, PushEffect, ContractTypes, ConsumedPos
  <2>4. /\ UNCHANGED <<driver, avail, badChar, taken, interrupts>>
        /\ driver = "hex" /\ taken = pos + window /\ taken < avail
        /\ badChar # 0 /\ (badChar > 0 => taken < badChar)
        /\ phase = "more" /\ window' = window - c
        /\ pc' = IF window' = 0 THEN "loop" ELSE "flush"
        /\ result' = IF phase' = "failed" THEN "parse"
                     ELSE IF phase' = "ready" THEN "unconsumed" ELSE "none"
    BY <1>3, <2>2, <2>3 DEF HexFlush, PositionInv, ProgressInv
  <2>5. /\ avail \in Nat /\ total \in Nat /\ pos \in Nat /\ taken \in Nat /\ taken <= avail
        /\ window \in Nat
        /\ driver = "read" => window <= WindowSize
        /\ driver # "read" => window <= BUFFER_SIZE
    BY DEF DriverTypeOK
  <2>6. DriverTypeOK'
    BY <2>2, <2>3, <2>4, <2>5 DEF DriverTypeOK, Results, Phases
  <2>7. PositionInv'
    BY <2>2, <2>3, <2>4, <2>5 DEF PositionInv, DecoderInv
  <2>8. ProgressInv'
    BY <2>2, <2>3, <2>4, <2>5 DEF ProgressInv, DecoderInv
  <2>9. DriversDecide' /\ NoOverRead'
    BY <2>2, <2>3, <2>4, <2>5, <2>7 DEF PositionInv, ProgressInv, DecoderInv, DriversDecide,
       NoOverRead, Whole, Readable, Acceptable
  <2>. QED
    BY <2>2, <2>6, <2>7, <2>8, <2>9 DEF DriverInv
<1>4. CASE HexLast
  <2>1. DecoderInv' /\ UNCHANGED contractVars
    BY <1>4 DEF HexLast, DecoderInv, Limits, contractVars
  <2>2. DriverTypeOK'
    BY <1>4, <2>1 DEF HexLast, DriverTypeOK, PositionInv, ProgressInv, contractVars, Results
  <2>3. PositionInv' /\ ProgressInv'
    BY <1>4, <2>1 DEF HexLast, DriverTypeOK, PositionInv, ProgressInv, contractVars
  <2>4. DriversDecide' /\ NoOverRead'
    BY <1>4, <2>1, <2>2, <2>3 DEF HexLast, DriverTypeOK, PositionInv, contractVars,
       DriversDecide, NoOverRead, Whole, Readable, Acceptable
  <2>. QED
    BY <2>1, <2>2, <2>3, <2>4 DEF DriverInv
<1>5. CASE HexFinalPush
  <2>1. (window) \in Nat /\ Push(window)
    BY <1>5 DEF HexFinalPush, DriverTypeOK
  <2>2. /\ DecoderInv' /\ UNCHANGED <<total, verdict>>
        /\ phase' \in {"more", "ready", "failed"} /\ limit' \in 0..total
        /\ phase' = "failed" => total > 0
    BY <2>1, PushEffect, ContractTypes
  <2>3. PICK c \in Nat :
          /\ pos' = pos + c /\ Consumed = c
          /\ c <= window /\ pos + c <= total
          /\ phase = "more" /\ window > 0 /\ total > 0 => c > 0
    BY <2>1, PushEffect, ContractTypes, ConsumedPos
  <2>4. /\ UNCHANGED <<driver, avail, badChar, taken, interrupts>>
        /\ driver = "hex" /\ taken = pos + window /\ taken = avail
        /\ badChar > 0 /\ taken < badChar
        /\ phase = "more" /\ window' = window - c
        /\ pc' = IF phase' = "ready" \/ window' = 0 THEN "end" ELSE "final"
        /\ result' = IF phase' = "failed" THEN "parse" ELSE "none"
    BY <1>5, <2>2, <2>3 DEF HexFinalPush, PositionInv, ProgressInv
  <2>5. /\ avail \in Nat /\ total \in Nat /\ pos \in Nat /\ taken \in Nat /\ taken <= avail
        /\ window \in Nat
        /\ driver = "read" => window <= WindowSize
        /\ driver # "read" => window <= BUFFER_SIZE
    BY DEF DriverTypeOK
  <2>6. DriverTypeOK'
    BY <2>2, <2>3, <2>4, <2>5 DEF DriverTypeOK, Results, Phases
  <2>7. PositionInv'
    BY <2>2, <2>3, <2>4, <2>5 DEF PositionInv, DecoderInv
  <2>8. ProgressInv'
    BY <2>2, <2>3, <2>4, <2>5 DEF ProgressInv, DecoderInv
  <2>9. DriversDecide' /\ NoOverRead'
    BY <2>2, <2>3, <2>4, <2>5, <2>7 DEF PositionInv, ProgressInv, DecoderInv, DriversDecide,
       NoOverRead, Whole, Readable, Acceptable
  <2>. QED
    BY <2>2, <2>6, <2>7, <2>8, <2>9 DEF DriverInv
<1>6. CASE HexEnd /\ window = 0
  <2>1. /\ DecoderInv' /\ UNCHANGED <<total, verdict, pos, limit>>
        /\ phase' \in {"ok", "err"}
        /\ phase' = "ok" <=> pos = total /\ verdict = "ok"
    BY <1>6, EndEffect, ContractTypes DEF HexEnd, Finish
  <2>2. pos = total \/ pos = avail
    BY <1>6 DEF HexEnd, DriverTypeOK, DecoderInv, PositionInv, ProgressInv, Limits
  <2>3. DriverTypeOK'
    BY <1>6, <2>1 DEF HexEnd, Finish, DriverTypeOK, PositionInv, ProgressInv, Results, Phases
  <2>4. PositionInv' /\ ProgressInv'
    BY <1>6, <2>1 DEF HexEnd, Finish, DriverTypeOK, PositionInv, ProgressInv
  <2>5. DriversDecide' /\ NoOverRead'
    BY <1>6, <2>1, <2>2, <2>3, <2>4 DEF HexEnd, Finish, DriverTypeOK, PositionInv,
       ProgressInv, DecoderInv, DriversDecide, NoOverRead, Whole, Readable, Acceptable
  <2>. QED
    BY <2>1, <2>3, <2>4, <2>5 DEF DriverInv
<1>7. CASE HexEnd /\ window > 0
  <2>1. DecoderInv' /\ UNCHANGED contractVars
    BY <1>7 DEF HexEnd, Return, ProgressInv, DecoderInv, Limits, contractVars
  <2>2. DriverTypeOK'
    BY <1>7, <2>1 DEF HexEnd, Return, ProgressInv, DecoderInv, DriverTypeOK, PositionInv, ProgressInv, contractVars, Results
  <2>3. PositionInv' /\ ProgressInv'
    BY <1>7, <2>1 DEF HexEnd, Return, ProgressInv, DecoderInv, DriverTypeOK, PositionInv, ProgressInv, contractVars
  <2>4. DriversDecide' /\ NoOverRead'
    BY <1>7, <2>1, <2>2, <2>3 DEF HexEnd, Return, ProgressInv, DecoderInv, DriverTypeOK, PositionInv, contractVars,
       DriversDecide, NoOverRead, Whole, Readable, Acceptable
  <2>. QED
    BY <2>1, <2>2, <2>3, <2>4 DEF DriverInv
<1>. QED
  BY <1>1, <1>2, <1>3, <1>4, <1>5, <1>6, <1>7 DEF HexStep, DriverTypeOK

LEMMA ReaderKeeps == DriverInv /\ (ReaderEnd \/ Interrupted \/ IoError) => DriverInv'
<1>. SUFFICES ASSUME DriverTypeOK, DecoderInv, PositionInv, ProgressInv, DriversDecide, NoOverRead,
                  ReaderEnd \/ Interrupted \/ IoError
           PROVE  DriverInv'
  BY DEF DriverInv
<1>. USE DriverAssumption DEF Running, source
<1>1. CASE ReaderEnd
  <2>1. /\ DecoderInv' /\ UNCHANGED <<total, verdict, pos, limit>>
        /\ phase' \in {"ok", "err"}
        /\ phase' = "ok" <=> pos = total /\ verdict = "ok"
    BY <1>1, EndEffect, ContractTypes DEF ReaderEnd, Finish
  <2>2. pos = total \/ pos = avail
    BY <1>1 DEF ReaderEnd, DriverTypeOK, DecoderInv, PositionInv, ProgressInv, Limits
  <2>3. DriverTypeOK'
    BY <1>1, <2>1 DEF ReaderEnd, Finish, DriverTypeOK, PositionInv, ProgressInv, Results, Phases
  <2>4. PositionInv' /\ ProgressInv'
    BY <1>1, <2>1 DEF ReaderEnd, Finish, DriverTypeOK, PositionInv, ProgressInv
  <2>5. DriversDecide' /\ NoOverRead'
    BY <1>1, <2>1, <2>2, <2>3, <2>4 DEF ReaderEnd, Finish, DriverTypeOK, PositionInv,
       ProgressInv, DecoderInv, DriversDecide, NoOverRead, Whole, Readable, Acceptable
  <2>. QED
    BY <2>1, <2>3, <2>4, <2>5 DEF DriverInv
<1>2. CASE Interrupted
  <2>1. DecoderInv' /\ UNCHANGED contractVars
    BY <1>2 DEF Interrupted, DecoderInv, Limits, contractVars
  <2>2. DriverTypeOK'
    BY <1>2, <2>1 DEF Interrupted, DriverTypeOK, PositionInv, ProgressInv, contractVars, Results
  <2>3. PositionInv' /\ ProgressInv'
    BY <1>2, <2>1 DEF Interrupted, DriverTypeOK, PositionInv, ProgressInv, contractVars
  <2>4. DriversDecide' /\ NoOverRead'
    BY <1>2, <2>1, <2>2, <2>3 DEF Interrupted, DriverTypeOK, PositionInv, contractVars,
       DriversDecide, NoOverRead, Whole, Readable, Acceptable
  <2>. QED
    BY <2>1, <2>2, <2>3, <2>4 DEF DriverInv
<1>3. CASE IoError
  <2>1. DecoderInv' /\ UNCHANGED contractVars
    BY <1>3 DEF IoError, Return, DecoderInv, Limits, contractVars
  <2>2. DriverTypeOK'
    BY <1>3, <2>1 DEF IoError, Return, DriverTypeOK, PositionInv, ProgressInv, contractVars, Results
  <2>3. PositionInv' /\ ProgressInv'
    BY <1>3, <2>1 DEF IoError, Return, DriverTypeOK, PositionInv, ProgressInv, contractVars
  <2>4. DriversDecide' /\ NoOverRead'
    BY <1>3, <2>1, <2>2, <2>3 DEF IoError, Return, DriverTypeOK, PositionInv, contractVars,
       DriversDecide, NoOverRead, Whole, Readable, Acceptable
  <2>. QED
    BY <2>1, <2>2, <2>3, <2>4 DEF DriverInv
<1>. QED
  BY <1>1, <1>2, <1>3

-----------------------------------------------------------------------------
LEMMA StepKeeps == DriverInv /\ [DriverNext]_vars => DriverInv'
<1>. SUFFICES ASSUME DriverInv, [DriverNext]_vars PROVE DriverInv'
  OBVIOUS
<1>1. CASE UNCHANGED vars
  BY <1>1 DEF vars, contractVars, driverVars, DriverInv, DriverTypeOK, DecoderInv, PositionInv,
     ProgressInv, DriversDecide, NoOverRead, Limits, Whole, Readable, Acceptable
<1>2. CASE DriverNext
  BY <1>1, <1>2, SliceKeeps, ReadKeeps, UnbufferedKeeps, HexKeeps, ReaderKeeps
     DEF DriverNext, Progress, Returned
<1>. QED
  BY <1>1, <1>2

\* The inductive invariant holds throughout, whatever the decoder, the source and the
\* faults of the reader: it is what the other theorems follow from.
THEOREM DriverInvariant == DriverSpec => []DriverInv
<1>1. DriverInit => DriverInv
  BY InitEstablishes
<1>2. DriverInv /\ [DriverNext]_vars => DriverInv'
  BY StepKeeps
<1>. QED
  BY <1>1, <1>2, PTL DEF DriverSpec

\* The state stays in its types and no index leaves a stack buffer.
THEOREM DriverTypes == DriverSpec => []DriverTypeOK
<1>1. DriverInv => DriverTypeOK
  BY DEF DriverInv
<1>. QED
  BY <1>1, DriverInvariant, PTL

\* Every driver function returns a value for exactly the complete and acceptable
\* sources, for every BUFFER_SIZE, however the source is cut.
THEOREM DriversDecideCorrectly == DriverSpec => []DriversDecide
<1>1. DriverInv => DriversDecide
  BY DEF DriverInv
<1>. QED
  BY <1>1, DriverInvariant, PTL

\* No driver function takes bytes of the object that follows, in particular not
\* decode_from_read_unbuffered_with, which relies on read_limit for it.
THEOREM DriversNeverOverRead == DriverSpec => []NoOverRead
<1>1. DriverInv => NoOverRead
  BY DEF DriverInv
<1>. QED
  BY <1>1, DriverInvariant, PTL

\* decode_from_read leaves the reader in front of the slice its decoder refused.
THEOREM FailedPushStaysInReader == DriverSpec => []FailedPushNotConsumed
<1>1. DriverInv => FailedPushNotConsumed
  BY DEF DriverInv, PositionInv, FailedPushNotConsumed
<1>. QED
  BY <1>1, DriverInvariant, PTL

=============================================================================
