--------------------------- MODULE ComposedDecoder ---------------------------
(***************************************************************************)
(* Decoder2 of consensus_encoding/src/decode/decoders.rs, two decoders one *)
(* after the other.  Decoder3, Decoder4 and Decoder6 are nests of it, and  *)
(* most decoders of the workspace are built from those, so the question is *)
(* whether two decoders that keep the promises of the trait Decoder make   *)
(* one that does.  A and B are any two decoders of DecoderContract.        *)
(***************************************************************************)
EXTENDS Integers

CONSTANT MaxPart        \* bound: the longest encoding of a part

ASSUME PartAssumption == MaxPart \in Nat

VARIABLES
  totalA, verdictA, posA, phaseA, limitA,   \* the first decoder
  totalB, verdictB, posB, phaseB, limitB,   \* the second decoder
  state,    \* Decoder2State: "First", "Second" or "Errored"
  pc,       \* where the running call is; "idle" between calls
  rest,     \* bytes left in the slice that was pushed
  phase,    \* what the caller saw last: the status or result returned,
  pos,      \* the bytes consumed,
  limit     \* and read_limit()

A == INSTANCE DecoderContract WITH
  total <- totalA, verdict <- verdictA, pos <- posA, phase <- phaseA, limit <- limitA
B == INSTANCE DecoderContract WITH
  total <- totalB, verdict <- verdictB, pos <- posB, phase <- phaseB, limit <- limitB

aVars == <<totalA, verdictA, posA, phaseA, limitA>>
bVars == <<totalB, verdictB, posB, phaseB, limitB>>
seen == <<phase, pos, limit>>
vars == <<aVars, bVars, state, pc, rest, seen>>

\* The caller's stream: both encodings and a byte of something else.
Stream == totalA + totalB + 1

read_limit ==
  IF state = "First" THEN limitA + limitB ELSE IF state = "Second" THEN limitB ELSE 0

ComposedInit ==
  /\ totalA \in 0..MaxPart /\ A!Fresh
  /\ totalB \in 0..MaxPart /\ B!Fresh
  /\ state = "First"
  /\ pc = "idle"
  /\ rest = 0
  /\ phase = "more"
  /\ pos = 0
  /\ limit = read_limit

-----------------------------------------------------------------------------
At(where) == pc = where

Return(answer) ==
  /\ pc' = "idle"
  /\ phase' = answer
  /\ pos' = posA' + posB'
  /\ limit' = read_limit'

GoOn(where) ==
  /\ pc' = where
  /\ UNCHANGED seen

\* push_bytes is called with n bytes.
PushCall(n) ==
  /\ At("idle")
  /\ phase \in {"more", "ready"}
  /\ rest' = n
  /\ GoOn(state)
  /\ UNCHANGED <<aVars, bVars, state>>

\* Mutant: what the first decoder took is offered to the second one again.
FirstPush_KeepsSlice ==
  /\ At("First")
  /\ A!Push(rest)
  /\ UNCHANGED <<bVars, state, rest>>
  /\ IF phaseA' = "ready" THEN GoOn("FirstDone") ELSE Return(phaseA')

\* Mutant: every answer but NeedsMore counts as complete.
FirstPush_IgnoresError ==
  /\ At("First")
  /\ A!Push(rest)
  /\ rest' = rest - (posA' - posA)
  /\ UNCHANGED <<bVars, state>>
  /\ IF phaseA' # "more" THEN GoOn("FirstDone") ELSE Return(phaseA')

FirstPush ==
  /\ At("First")
  /\ A!Push(rest)
  /\ rest' = rest - (posA' - posA)
  /\ UNCHANGED <<bVars, state>>
  /\ IF phaseA' = "ready" THEN GoOn("FirstDone") ELSE Return(phaseA')

\* Mutant: the second decoder has to wait for the next call.
FirstDone_Returns ==
  /\ At("FirstDone")
  /\ A!End
  /\ state' = IF phaseA' = "ok" THEN "Second" ELSE "Errored"
  /\ UNCHANGED <<bVars, rest>>
  /\ IF phaseA' = "ok" THEN Return("more") ELSE Return("failed")

FirstDone ==
  /\ At("FirstDone")
  /\ A!End
  /\ state' = IF phaseA' = "ok" THEN "Second" ELSE "Errored"
  /\ UNCHANGED <<bVars, rest>>
  /\ IF phaseA' = "ok" THEN GoOn("Second") ELSE Return("failed")

SecondPush ==
  /\ At("Second")
  /\ B!Push(rest)
  /\ rest' = rest - (posB' - posB)
  /\ state' = IF phaseB' = "failed" THEN "Errored" ELSE state
  /\ UNCHANGED aVars
  /\ Return(phaseB')

\* end is called; before the second decoder has started it ends both.
EndCall ==
  /\ At("idle")
  /\ phase \in {"more", "ready"}
  /\ GoOn(IF state = "First" THEN "EndFirst" ELSE "EndSecond")
  /\ UNCHANGED <<aVars, bVars, state, rest>>

\* `end' consumes the decoder: what was seen of it stays.
Result(answer) ==
  /\ pc' = "idle"
  /\ phase' = answer
  /\ UNCHANGED <<pos, limit>>

EndFirst ==
  /\ At("EndFirst")
  /\ A!End
  /\ UNCHANGED <<bVars, state, rest>>
  /\ IF phaseA' = "ok" THEN GoOn("EndSecond") ELSE Result("err")

EndSecond ==
  /\ At("EndSecond")
  /\ B!End
  /\ UNCHANGED <<aVars, state, rest>>
  /\ Result(phaseB')

Returned == phase \in {"failed", "ok", "err"} /\ UNCHANGED vars

ComposedNext ==
  \/ \E n \in 0..(Stream - pos) : PushCall(n)
  \/ FirstPush \/ FirstDone \/ SecondPush
  \/ EndCall \/ EndFirst \/ EndSecond
  \/ Returned

ComposedSpec == ComposedInit /\ [][ComposedNext]_vars

-----------------------------------------------------------------------------
ComposedTypeOK ==
  /\ totalA \in Nat /\ verdictA \in A!Verdicts /\ posA \in 0..totalA
  /\ phaseA \in A!Phases /\ limitA \in 0..totalA
  /\ totalB \in Nat /\ verdictB \in B!Verdicts /\ posB \in 0..totalB
  /\ phaseB \in B!Phases /\ limitB \in 0..totalB
  /\ state \in {"First", "Second", "Errored"}
  /\ pc \in {"idle", "First", "FirstDone", "Second", "EndFirst", "EndSecond"}
  /\ rest \in 0..(Stream - posA - posB)
  /\ phase \in A!Phases /\ pos \in Nat /\ limit \in Nat

\* What end of the first decoder rejects is rejected by a push of the pair.
Verdict ==
  IF verdictA # "ok" THEN "badpush" ELSE verdictB

Contract == INSTANCE DecoderContract WITH
  total <- totalA + totalB, verdict <- Verdict, pos <- pos, phase <- phase,
  limit <- IF phase = "failed" THEN 0 ELSE limit

\* Only a push that consumed the rest of its slice, or some of it, asks for more.
PushesProgress ==
  [][pc # "idle" /\ pc' = "idle" /\ phase' = "more" => rest' = 0 \/ pos' > pos]_vars

\* A pair of decoders that keep the promises of the trait keeps them: it stops behind
\* the second encoding, consumes some of every slice it needs, promises no more bytes
\* than both lack, and accepts what both accept.
ImplementsDecoder == Contract!Spec /\ PushesProgress

\* Decoder2 never reaches its own panic "use of failed decoder", nor calls a part
\* that has failed or has been ended: both are permitted to panic then.
NoUseAfterFailure ==
  /\ pc # "idle" => state # "Errored"
  /\ pc \in {"First", "FirstDone", "EndFirst"} => phaseA \in {"more", "ready"}
  /\ pc \in {"Second", "EndSecond"} => phaseA = "ok" /\ phaseB \in {"more", "ready"}

=============================================================================
