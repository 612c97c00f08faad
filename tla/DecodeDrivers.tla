--------------------------- MODULE DecodeDrivers ---------------------------
(***************************************************************************)
(* The functions of consensus_encoding/src/decode/mod.rs that drive a      *)
(* decoder to completion: decode_from_slice, decode_from_slice_unbounded,  *)
(* decode_from_read, decode_from_read_unbuffered_with and decode_from_hex. *)
(* They are generic in the decoder, so each drives the decoder of          *)
(* DecoderContract, which does whatever the trait allows.                  *)
(***************************************************************************)
EXTENDS DecoderContract

CONSTANTS
  MaxStream,      \* bound: the longest source, the longest encoding
  BUFFER_SIZE,    \* stack buffer of decode_from_read_unbuffered_with and of
                  \* decode_from_hex (4096 in the code)
  WindowSize,     \* bound: what one fill_buf of a BufRead makes available
  MaxInterrupts   \* bound: ErrorKind::Interrupted results per run

ASSUME DriverAssumption ==
  /\ MaxStream \in Nat
  /\ BUFFER_SIZE \in Nat \ {0}
  /\ WindowSize \in Nat \ {0}
  /\ MaxInterrupts \in Nat

VARIABLES
  driver,      \* the function that was called
  avail,       \* bytes in the source
  badChar,     \* hex source: index of the first byte whose digits are invalid,
               \* avail + 1 when all are valid, 0 when the length is odd
  taken,       \* bytes the source has given up: slice advanced, reader position
  window,      \* bytes at hand: fill_buf's slice, or to_push / buffer[..index]
  pc,
  interrupts,
  result

driverVars == <<driver, avail, badChar, taken, window, pc, interrupts, result>>
vars == <<contractVars, driverVars>>
source == <<driver, avail, badChar>>

Drivers == {"slice", "unbounded", "read", "unbuffered", "hex"}
Results == {"none", "ok", "parse", "unconsumed", "io", "hex"}

DriverInit ==
  /\ driver \in Drivers
  /\ avail \in 0..MaxStream
  /\ badChar \in IF driver = "hex" THEN 0..(avail + 1) ELSE {avail + 1}
  /\ total \in 0..MaxStream
  /\ Fresh
  /\ taken = 0
  /\ window = 0
  /\ pc = "loop"
  /\ interrupts = 0
  /\ result = "none"

Running(who, at) == driver \in who /\ pc = at /\ result = "none"
Consumed == pos' - pos

\* decoder.end().map_err(..) as the value the driver returns.
Finish ==
  /\ End
  /\ result' = IF phase' = "ok" THEN "ok" ELSE "parse"

Return(r) ==
  /\ result' = r
  /\ UNCHANGED contractVars

-----------------------------------------------------------------------------
(* decode_from_slice_unbounded_internal, and decode_from_slice_internal    *)
(* around it.  push_bytes advances the caller's own slice.                 *)

SlicePush ==
  /\ Running({"slice", "unbounded"}, "loop")
  /\ taken < avail
  /\ Push(avail - taken)
  /\ taken' = taken + Consumed
  /\ pc' = IF phase' = "ready" THEN "end" ELSE "loop"
  /\ result' = IF phase' = "failed" THEN "parse" ELSE "none"
  /\ UNCHANGED <<source, window, interrupts>>

SliceExhausted ==
  /\ Running({"slice", "unbounded"}, "loop")
  /\ taken = avail
  /\ pc' = "end"
  /\ UNCHANGED <<contractVars, source, taken, window, interrupts, result>>
\* Mutant: decode_from_slice forgets the bytes left over.
SliceEnd_IgnoresRest ==
  /\ Running({"slice", "unbounded"}, "end")
  /\ Finish
  /\ UNCHANGED <<source, taken, window, pc, interrupts>>

SliceEnd ==
  /\ Running({"slice", "unbounded"}, "end")
  /\ End
  /\ result' = IF phase' = "err" THEN "parse"
               ELSE IF driver = "slice" /\ taken < avail THEN "unconsumed" ELSE "ok"
  /\ UNCHANGED <<source, taken, window, pc, interrupts>>

-----------------------------------------------------------------------------
(* decode_from_read_internal.  The reader is advanced only by consume, with *)
(* what the decoder took; what fill_buf showed stays in the reader.        *)

\* fill_buf returns what is already buffered, or refills an empty buffer.
ReadFill ==
  /\ Running({"read"}, "loop")
  /\ taken < avail
  /\ window' \in IF window > 0 THEN {window} ELSE 1..Lesser(WindowSize, avail - taken)
  /\ pc' = "push"
  /\ UNCHANGED <<contractVars, source, taken, interrupts, result>>

ReadEof ==
  /\ Running({"read"}, "loop")
  /\ taken = avail
  /\ Finish
  /\ UNCHANGED <<source, taken, window, pc, interrupts>>
\* Mutant: consume before the error is looked at.
ReadPush_ConsumesFirst ==
  /\ Running({"read"}, "push")
  /\ Push(window)
  /\ taken' = taken + Consumed
  /\ window' = window - Consumed
  /\ pc' = IF phase' = "ready" THEN "end" ELSE "loop"
  /\ result' = IF phase' = "failed" THEN "parse" ELSE "none"
  /\ UNCHANGED <<source, interrupts>>

ReadPush ==
  /\ Running({"read"}, "push")
  /\ Push(window)
  /\ IF phase' = "failed"
     THEN /\ result' = "parse"
          /\ UNCHANGED <<taken, window, pc>>
     ELSE /\ taken' = taken + Consumed
          /\ window' = window - Consumed
          /\ pc' = IF phase' = "ready" THEN "end" ELSE "loop"
          /\ UNCHANGED result
  /\ UNCHANGED <<source, interrupts>>

-----------------------------------------------------------------------------
(* decode_from_read_unbuffered_with.  What read delivered cannot be given  *)
(* back, so a read must never fetch bytes that belong to the next object.  *)
\* Mutant: the whole buffer is offered to read, not read_limit of it.
UnbufferedRead_Unclamped ==
  /\ Running({"unbuffered"}, "loop")
  /\ limit > 0
  /\ taken < avail
  /\ window' \in 1..Lesser(BUFFER_SIZE, avail - taken)
  /\ taken' = taken + window'
  /\ pc' = "push"
  /\ UNCHANGED <<contractVars, source, interrupts, result>>

UnbufferedRead ==
  /\ Running({"unbuffered"}, "loop")
  /\ limit > 0
  /\ taken < avail
  /\ window' \in 1..Lesser(Lesser(limit, BUFFER_SIZE), avail - taken)
  /\ taken' = taken + window'
  /\ pc' = "push"
  /\ UNCHANGED <<contractVars, source, interrupts, result>>
\* Mutant: Ok(0) is taken for a read to repeat.
UnbufferedStop_RetriesEof ==
  /\ Running({"unbuffered"}, "loop")
  /\ limit = 0
  /\ Finish
  /\ UNCHANGED <<source, taken, window, pc, interrupts>>

\* Ok(0), or a read_limit of 0 before the first read.
UnbufferedStop ==
  /\ Running({"unbuffered"}, "loop")
  /\ limit = 0 \/ taken = avail
  /\ Finish
  /\ UNCHANGED <<source, taken, window, pc, interrupts>>

UnbufferedPush ==
  /\ Running({"unbuffered"}, "push")
  /\ Push(window)
  /\ window' = window - Consumed
  /\ pc' = IF phase' = "ready" THEN "end" ELSE IF window' = 0 THEN "loop" ELSE "push"
  /\ result' = IF phase' = "failed" THEN "parse" ELSE "none"
  /\ UNCHANGED <<source, taken, interrupts>>

-----------------------------------------------------------------------------
(* I/O results that carry no data, for both readers.                       *)

\* ErrorKind::Interrupted is retried.
Interrupted ==
  /\ Running({"read", "unbuffered"}, "loop")
  /\ driver = "unbuffered" => limit > 0
  /\ interrupts < MaxInterrupts
  /\ interrupts' = interrupts + 1
  /\ UNCHANGED <<contractVars, source, taken, window, pc, result>>

IoError ==
  /\ Running({"read", "unbuffered"}, "loop")
  /\ driver = "unbuffered" => limit > 0
  /\ Return("io")
  /\ UNCHANGED <<source, taken, window, pc, interrupts>>

\* The end() of a reader driver whose decoder reported Ready.
ReaderEnd ==
  /\ Running({"read", "unbuffered"}, "end")
  /\ Finish
  /\ UNCHANGED <<source, taken, window, pc, interrupts>>

-----------------------------------------------------------------------------
(* decode_from_hex_internal: bytes are collected in the buffer, which is   *)
(* flushed into the decoder when it is full and another byte follows.      *)

\* HexSliceToBytesIter::new.
HexOddLength ==
  /\ Running({"hex"}, "loop")
  /\ badChar = 0
  /\ Return("hex")
  /\ UNCHANGED <<source, taken, window, pc, interrupts>>
\* Mutant: the full buffer is not flushed.
HexByte_NoFlush ==
  /\ Running({"hex"}, "loop")
  /\ badChar > 0
  /\ taken < avail
  /\ IF taken + 1 = badChar
     THEN Return("hex") /\ UNCHANGED <<taken, window, pc>>
     ELSE /\ taken' = taken + 1
          /\ window' = window + 1
          /\ UNCHANGED <<contractVars, pc, result>>
  /\ UNCHANGED <<source, interrupts>>

HexByte ==
  /\ Running({"hex"}, "loop")
  /\ badChar > 0
  /\ taken < avail
  /\ IF taken + 1 = badChar
     THEN Return("hex") /\ UNCHANGED <<taken, window, pc>>
     ELSE /\ \/ window = BUFFER_SIZE /\ pc' = "flush" /\ UNCHANGED <<taken, window>>
             \/ /\ window < BUFFER_SIZE
                /\ taken' = taken + 1
                /\ window' = window + 1
                /\ UNCHANGED pc
          /\ UNCHANGED <<contractVars, result>>
  /\ UNCHANGED <<source, interrupts>>

\* A decoder that is Ready while a byte is still to come leaves it unconsumed.
HexFlush ==
  /\ Running({"hex"}, "flush")
  /\ Push(window)
  /\ window' = window - Consumed
  /\ pc' = IF window' = 0 THEN "loop" ELSE "flush"
  /\ result' = IF phase' = "failed" THEN "parse"
               ELSE IF phase' = "ready" THEN "unconsumed" ELSE "none"
  /\ UNCHANGED <<source, taken, interrupts>>

HexLast ==
  /\ Running({"hex"}, "loop")
  /\ badChar > 0
  /\ taken = avail
  /\ pc' = IF window = 0 THEN "end" ELSE "final"
  /\ UNCHANGED <<contractVars, source, taken, window, interrupts, result>>

HexFinalPush ==
  /\ Running({"hex"}, "final")
  /\ Push(window)
  /\ window' = window - Consumed
  /\ pc' = IF phase' = "ready" \/ window' = 0 THEN "end" ELSE "final"
  /\ result' = IF phase' = "failed" THEN "parse" ELSE "none"
  /\ UNCHANGED <<source, taken, interrupts>>

HexEnd ==
  /\ Running({"hex"}, "end")
  /\ IF window = 0 THEN Finish ELSE Return("unconsumed")
  /\ UNCHANGED <<source, taken, window, pc, interrupts>>

-----------------------------------------------------------------------------
SliceStep == SlicePush \/ SliceExhausted \/ SliceEnd
ReadStep == ReadFill \/ ReadEof \/ ReadPush
UnbufferedStep == UnbufferedRead \/ UnbufferedStop \/ UnbufferedPush
HexStep == HexOddLength \/ HexByte \/ HexFlush \/ HexLast \/ HexFinalPush \/ HexEnd

\* The steps a driver takes on its own; the others are faults of the reader.
Progress == SliceStep \/ ReadStep \/ UnbufferedStep \/ ReaderEnd \/ HexStep
Returned == result # "none" /\ UNCHANGED vars
DriverNext == Progress \/ Interrupted \/ IoError \/ Returned

DriverSpec == DriverInit /\ [][DriverNext]_vars

\* The loops run on the caller's thread: a driver that can move does.
FairDriverSpec == DriverSpec /\ WF_vars(Progress)

-----------------------------------------------------------------------------
\* Types, and the bounds of the buffers: an index past BUFFER_SIZE is a panic.
DriverTypeOK ==
  /\ total \in Nat /\ verdict \in Verdicts /\ pos \in 0..total /\ phase \in Phases
  /\ limit \in 0..total
  /\ driver \in Drivers /\ avail \in Nat /\ badChar \in 0..(avail + 1)
  /\ taken \in 0..avail
  /\ window \in 0..(IF driver = "read" THEN WindowSize ELSE BUFFER_SIZE)
  /\ pc \in {"loop", "push", "flush", "final", "end"}
  /\ interrupts \in 0..MaxInterrupts
  /\ result \in Results

Whole == driver \in {"slice", "hex"}      \* drivers that insist on the whole source
Readable == driver = "hex" => badChar = avail + 1
Acceptable == verdict = "ok" /\ IF Whole THEN avail = total ELSE avail >= total

\* Every driver returns a value for exactly the sources whose encoding is complete
\* and acceptable, however the source was cut into pushes; leftover bytes are an
\* error for decode_from_slice and decode_from_hex and for nobody else, and text
\* that is not hex is never decoded.
DriversDecide ==
  /\ result = "ok" => Acceptable /\ Readable /\ pos = total
  /\ result = "parse" => ~Acceptable
  /\ result = "unconsumed" => Whole /\ avail > total
  /\ result = "hex" => ~Readable

\* No driver takes a byte of the object that follows: after success the reader or
\* the slice stands just behind the encoding, and before that never further.
NoOverRead ==
  /\ driver # "hex" => taken <= total
  /\ result = "ok" => taken = total

\* decode_from_read consumes nothing on a decoder error: the reader still shows the
\* bytes of the push that failed.
FailedPushNotConsumed ==
  driver = "read" /\ phase = "failed" => taken < pos /\ window >= pos - taken

\* Once the source stops failing, every driver returns.  In particular no
\* `while !bytes.is_empty()' loop can spin on a decoder that makes no progress.
DriverTerminates == <>(result # "none")

=============================================================================
