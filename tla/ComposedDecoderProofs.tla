----------------------- MODULE ComposedDecoderProofs -----------------------
(***************************************************************************)
(* That Decoder2 over any two decoders that keep the promises of the trait *)
(* Decoder keeps them, for encodings of every length.                      *)
(***************************************************************************)
EXTENDS ComposedDecoder, TLAPS

(* What a call does to either part.                                        *)

LEMMA FirstPushEffect ==
  ASSUME A!ContractTypeOK, A!DecoderInv, NEW n \in Nat, A!Push(n)
  PROVE  /\ UNCHANGED <<totalA, verdictA>> /\ A!DecoderInv'
         /\ phaseA' \in {"more", "ready", "failed"} /\ limitA' \in 0..totalA
         /\ \E c \in Nat :
              /\ posA' = posA + c
              /\ c <= n /\ posA + c <= totalA
              /\ phaseA = "more" /\ n > 0 /\ totalA > 0 => c > 0
              /\ phaseA = "ready" => phaseA' = "ready" /\ c = 0
         /\ phaseA' = "failed" => totalA > 0 /\ phaseA = "more"
         /\ phaseA' = "more" => posA' # totalA
<1> USE DEF A!ContractTypeOK, A!DecoderInv, A!Limits, A!Verdicts, A!Phases
<1>1. CASE phaseA = "ready"
  <2>1. posA' = posA + 0
    BY <1>1 DEF A!Push
  <2>. QED
    BY <1>1, <2>1 DEF A!Push
<1>2. CASE phaseA = "more"
  <2>1. PICK c \in A!Takes(n) : posA' = posA + c
    BY <1>2 DEF A!Push
  <2>2. /\ c \in Nat /\ c <= n /\ posA + c <= totalA
        /\ c > 0 \/ n = 0 \/ posA = totalA
    BY <2>1 DEF A!Takes, A!Lesser
  <2>3. /\ phaseA' \in A!Settle(posA')
        /\ limitA' \in IF phaseA' = "failed" THEN {0} ELSE A!Limits(posA')
        /\ UNCHANGED <<totalA, verdictA>>
    BY <1>2 DEF A!Push
  <2>4. posA' \in Nat /\ posA' <= totalA
    BY <2>1, <2>2
  <2>5. /\ phaseA' \in {"more", "ready", "failed"}
        /\ phaseA' = "failed" => verdictA = "badpush"
        /\ phaseA' = "ready" => posA' = totalA /\ verdictA # "badpush"
        /\ phaseA' = "more" => posA' # totalA
    BY <2>3, <2>4 DEF A!Settle
  <2>. QED
    BY <1>2, <2>1, <2>2, <2>3, <2>4, <2>5
<1>. QED
  BY <1>1, <1>2 DEF A!Push

LEMMA FirstEndEffect ==
  ASSUME A!ContractTypeOK, A!DecoderInv, A!End
  PROVE  /\ UNCHANGED <<totalA, verdictA, posA, limitA>>
         /\ phaseA' \in {"ok", "err"}
         /\ phaseA' = "ok" <=> posA = totalA /\ verdictA = "ok"
         /\ A!DecoderInv'
BY DEF A!ContractTypeOK, A!DecoderInv, A!End, A!Limits

LEMMA SecondPushEffect ==
  ASSUME B!ContractTypeOK, B!DecoderInv, NEW n \in Nat, B!Push(n)
  PROVE  /\ UNCHANGED <<totalB, verdictB>> /\ B!DecoderInv'
         /\ phaseB' \in {"more", "ready", "failed"} /\ limitB' \in 0..totalB
         /\ \E c \in Nat :
              /\ posB' = posB + c
              /\ c <= n /\ posB + c <= totalB
              /\ phaseB = "more" /\ n > 0 /\ totalB > 0 => c > 0
              /\ phaseB = "ready" => phaseB' = "ready" /\ c = 0
         /\ phaseB' = "failed" => totalB > 0 /\ phaseB = "more"
         /\ phaseB' = "more" => posB' # totalB
<1> USE DEF B!ContractTypeOK, B!DecoderInv, B!Limits, B!Verdicts, B!Phases
<1>1. CASE phaseB = "ready"
  <2>1. posB' = posB + 0
    BY <1>1 DEF B!Push
  <2>. QED
    BY <1>1, <2>1 DEF B!Push
<1>2. CASE phaseB = "more"
  <2>1. PICK c \in B!Takes(n) : posB' = posB + c
    BY <1>2 DEF B!Push
  <2>2. /\ c \in Nat /\ c <= n /\ posB + c <= totalB
        /\ c > 0 \/ n = 0 \/ posB = totalB
    BY <2>1 DEF B!Takes, B!Lesser
  <2>3. /\ phaseB' \in B!Settle(posB')
        /\ limitB' \in IF phaseB' = "failed" THEN {0} ELSE B!Limits(posB')
        /\ UNCHANGED <<totalB, verdictB>>
    BY <1>2 DEF B!Push
  <2>4. posB' \in Nat /\ posB' <= totalB
    BY <2>1, <2>2
  <2>5. /\ phaseB' \in {"more", "ready", "failed"}
        /\ phaseB' = "failed" => verdictB = "badpush"
        /\ phaseB' = "ready" => posB' = totalB /\ verdictB # "badpush"
        /\ phaseB' = "more" => posB' # totalB
    BY <2>3, <2>4 DEF B!Settle
  <2>. QED
    BY <1>2, <2>1, <2>2, <2>3, <2>4, <2>5
<1>. QED
  BY <1>1, <1>2 DEF B!Push

LEMMA SecondEndEffect ==
  ASSUME B!ContractTypeOK, B!DecoderInv, B!End
  PROVE  /\ UNCHANGED <<totalB, verdictB, posB, limitB>>
         /\ phaseB' \in {"ok", "err"}
         /\ phaseB' = "ok" <=> posB = totalB /\ verdictB = "ok"
         /\ B!DecoderInv'
BY DEF B!ContractTypeOK, B!DecoderInv, B!End, B!Limits

-----------------------------------------------------------------------------
(* The inductive invariant.                                                 *)

\* Which part is alive where, and how far.
StateInv ==
  /\ A!DecoderInv /\ B!DecoderInv
  /\ pc = "First" => state = "First" /\ phaseA = "more" /\ posB = 0 /\ phaseB = "more"
  /\ pc = "FirstDone" => state = "First" /\ phaseA = "ready" /\ posB = 0 /\ phaseB = "more"
  /\ pc = "Second" => state = "Second" /\ phaseA = "ok" /\ phaseB \in {"more", "ready"}
  /\ pc = "EndFirst" => state = "First" /\ phaseA = "more" /\ posB = 0 /\ phaseB = "more"
  /\ pc = "EndSecond" => state # "Errored" /\ phaseA = "ok" /\ phaseB \in {"more", "ready"}
  /\ pc = "idle" /\ phase \in {"more", "ready"} =>
       \/ state = "First" /\ phaseA = "more" /\ phaseB = "more" /\ posB = 0 /\ phase = "more"
       \/ state = "Second" /\ phaseA = "ok" /\ phaseB = phase

\* What the caller saw last against where the parts are.
SeenInv ==
  /\ pc # "idle" => phase \in {"more", "ready"}
  /\ pos <= posA + posB
  /\ pc \in {"idle", "EndFirst", "EndSecond"} => pos = posA + posB
  /\ phase = "ready" => pos = totalA + totalB
  /\ pc # "idle" /\ phase = "ready" => pc \in {"Second", "EndSecond"} /\ phaseB = "ready"

ComposedInv == ComposedTypeOK /\ StateInv /\ SeenInv

LEMMA PartTypes == ComposedTypeOK => A!ContractTypeOK /\ B!ContractTypeOK
BY DEF ComposedTypeOK, A!ContractTypeOK, B!ContractTypeOK

LEMMA InitEstablishes == ComposedInit => ComposedInv
<1>. SUFFICES ASSUME ComposedInit PROVE ComposedInv
  OBVIOUS
<1>1. /\ totalA \in Nat /\ posA = 0 /\ phaseA = "more" /\ limitA \in A!Limits(0)
      /\ totalB \in Nat /\ posB = 0 /\ phaseB = "more" /\ limitB \in B!Limits(0)
      /\ verdictA \in A!Verdicts /\ (totalA = 0 => verdictA = "ok")
      /\ verdictB \in B!Verdicts /\ (totalB = 0 => verdictB = "ok")
  BY PartAssumption DEF ComposedInit, A!Fresh, B!Fresh, A!Verdicts, B!Verdicts
<1>2. limitA \in 0..totalA /\ limitB \in 0..totalB
  BY <1>1 DEF A!Limits, B!Limits
<1>3. ComposedTypeOK
  BY <1>1, <1>2 DEF ComposedInit, ComposedTypeOK, Stream, A!Phases, B!Phases, read_limit
<1>4. A!DecoderInv /\ B!DecoderInv
  BY <1>1 DEF A!DecoderInv, B!DecoderInv
<1>5. StateInv /\ SeenInv
  BY <1>1, <1>4 DEF ComposedInit, StateInv, SeenInv
<1>. QED
  BY <1>3, <1>5 DEF ComposedInv

-----------------------------------------------------------------------------
(* Every action keeps the invariant.                                        *)

LEMMA CallsKeep ==
  ASSUME ComposedInv, (\E n \in 0..(Stream - pos) : PushCall(n)) \/ EndCall
  PROVE  ComposedInv'
<1>1. /\ UNCHANGED <<totalA, verdictA, posA, phaseA, limitA, totalB, verdictB, posB, phaseB, limitB,
                     state, phase, pos, limit>>
      /\ pc = "idle" /\ phase \in {"more", "ready"}
  BY DEF PushCall, EndCall, GoOn, At, aVars, bVars, seen
<1>2. A!DecoderInv' /\ B!DecoderInv'
  BY <1>1 DEF ComposedInv, StateInv, A!DecoderInv, B!DecoderInv, A!Limits, B!Limits
<1>3. rest' \in 0..(Stream - posA - posB)
  BY <1>1 DEF ComposedInv, SeenInv, ComposedTypeOK, PushCall, EndCall, Stream
<1>a. pc' \in {"First", "Second", "EndFirst", "EndSecond"}
  BY <1>1 DEF ComposedInv, StateInv, PushCall, EndCall, GoOn
<1>4. ComposedTypeOK'
  BY <1>1, <1>3, <1>a DEF ComposedInv, ComposedTypeOK, Stream
<1>5. StateInv'
  BY <1>1, <1>2 DEF ComposedInv, StateInv, PushCall, EndCall, GoOn
<1>6. SeenInv'
  BY <1>1 DEF ComposedInv, StateInv, SeenInv, PushCall, EndCall, GoOn
<1>. QED
  BY <1>4, <1>5, <1>6 DEF ComposedInv

LEMMA FirstPushKeeps == ComposedInv /\ FirstPush => ComposedInv'
<1>. SUFFICES ASSUME ComposedTypeOK, StateInv, SeenInv, FirstPush PROVE ComposedInv'
  BY DEF ComposedInv
<1>1. /\ pc = "First" /\ state = "First" /\ phaseA = "more" /\ posB = 0 /\ phaseB = "more"
      /\ rest \in Nat /\ A!Push(rest) /\ phase = "more" /\ pos <= posA
      /\ UNCHANGED <<totalB, verdictB, posB, phaseB, limitB, state>>
  BY DEF FirstPush, At, StateInv, SeenInv, ComposedTypeOK, Stream, bVars
<1>2. /\ UNCHANGED <<totalA, verdictA>> /\ A!DecoderInv'
      /\ phaseA' \in {"more", "ready", "failed"} /\ limitA' \in 0..totalA
      /\ phaseA' = "more" => posA' # totalA
  BY <1>1, FirstPushEffect, PartTypes DEF StateInv
<1>3. PICK c \in Nat : posA' = posA + c /\ c <= rest /\ posA + c <= totalA
  BY <1>1, FirstPushEffect, PartTypes DEF StateInv
<1>4. rest' = rest - c
  BY <1>1, <1>3 DEF FirstPush, ComposedTypeOK
<1>5. B!DecoderInv'
  BY <1>1 DEF StateInv, B!DecoderInv, B!Limits
<1>6. /\ phaseA' = "ready" => pc' = "FirstDone" /\ UNCHANGED <<phase, pos, limit>>
      /\ phaseA' # "ready" => pc' = "idle" /\ phase' = phaseA' /\ pos' = posA' + posB'
                              /\ limit' = read_limit'
  BY DEF FirstPush, GoOn, Return, seen
<1>7. ComposedTypeOK'
  BY <1>1, <1>2, <1>3, <1>4, <1>6 DEF ComposedTypeOK, A!Phases, B!Phases, Stream, read_limit
<1>8. StateInv'
  BY <1>1, <1>2, <1>5, <1>6 DEF StateInv
<1>9. SeenInv'
  BY <1>1, <1>2, <1>3, <1>6 DEF SeenInv, ComposedTypeOK
<1>. QED
  BY <1>7, <1>8, <1>9 DEF ComposedInv

LEMMA FirstDoneKeeps == ComposedInv /\ FirstDone => ComposedInv'
<1>. SUFFICES ASSUME ComposedTypeOK, StateInv, SeenInv, FirstDone PROVE ComposedInv'
  BY DEF ComposedInv
<1>1. /\ pc = "FirstDone" /\ state = "First" /\ phaseA = "ready" /\ posB = 0 /\ phaseB = "more"
      /\ A!End /\ phase = "more" /\ pos <= posA
      /\ UNCHANGED <<totalB, verdictB, posB, phaseB, limitB, rest>>
  BY DEF FirstDone, At, StateInv, SeenInv, ComposedTypeOK, bVars
<1>2. /\ UNCHANGED <<totalA, verdictA, posA, limitA>> /\ phaseA' \in {"ok", "err"} /\ A!DecoderInv'
  BY <1>1, FirstEndEffect, PartTypes DEF StateInv
<1>3. B!DecoderInv'
  BY <1>1 DEF StateInv, B!DecoderInv, B!Limits
<1>4. /\ phaseA' = "ok" => pc' = "Second" /\ state' = "Second" /\ UNCHANGED <<phase, pos, limit>>
      /\ phaseA' # "ok" => pc' = "idle" /\ state' = "Errored" /\ phase' = "failed"
                           /\ pos' = posA' + posB' /\ limit' = read_limit'
  BY DEF FirstDone, GoOn, Return, seen
<1>5. ComposedTypeOK'
  BY <1>1, <1>2, <1>4 DEF ComposedTypeOK, A!Phases, B!Phases, Stream, read_limit
<1>6. StateInv'
  BY <1>1, <1>2, <1>3, <1>4 DEF StateInv
<1>7. SeenInv'
  BY <1>1, <1>2, <1>4 DEF SeenInv, ComposedTypeOK
<1>. QED
  BY <1>5, <1>6, <1>7 DEF ComposedInv

LEMMA SecondPushKeeps == ComposedInv /\ SecondPush => ComposedInv'
<1>. SUFFICES ASSUME ComposedTypeOK, StateInv, SeenInv, SecondPush PROVE ComposedInv'
  BY DEF ComposedInv
<1>1. /\ pc = "Second" /\ state = "Second" /\ phaseA = "ok" /\ phaseB \in {"more", "ready"}
      /\ rest \in Nat /\ B!Push(rest) /\ phase \in {"more", "ready"}
      /\ UNCHANGED <<totalA, verdictA, posA, phaseA, limitA>>
  BY DEF SecondPush, At, StateInv, SeenInv, ComposedTypeOK, Stream, aVars
<1>2. /\ UNCHANGED <<totalB, verdictB>> /\ B!DecoderInv'
      /\ phaseB' \in {"more", "ready", "failed"} /\ limitB' \in 0..totalB
      /\ phaseB' = "more" => posB' # totalB
  BY <1>1, SecondPushEffect, PartTypes DEF StateInv
<1>3. PICK c \in Nat : posB' = posB + c /\ c <= rest /\ posB + c <= totalB
  BY <1>1, SecondPushEffect, PartTypes DEF StateInv
<1>4. rest' = rest - c
  BY <1>1, <1>3 DEF SecondPush, ComposedTypeOK
<1>5. A!DecoderInv'
  BY <1>1 DEF StateInv, A!DecoderInv, A!Limits
<1>6. /\ pc' = "idle" /\ phase' = phaseB' /\ pos' = posA' + posB' /\ limit' = read_limit'
      /\ state' = IF phaseB' = "failed" THEN "Errored" ELSE "Second"
  BY <1>1 DEF SecondPush, Return
<1>7. ComposedTypeOK'
  BY <1>1, <1>2, <1>3, <1>4, <1>6 DEF ComposedTypeOK, A!Phases, B!Phases, Stream, read_limit
<1>8. StateInv'
  BY <1>1, <1>2, <1>5, <1>6 DEF StateInv
<1>9. posA = totalA
  BY <1>1 DEF StateInv, A!DecoderInv
<1>10. phaseB' = "ready" => posB' = totalB
  BY <1>2 DEF B!DecoderInv
<1>11. SeenInv'
  BY <1>1, <1>2, <1>6, <1>9, <1>10 DEF SeenInv, ComposedTypeOK
<1>. QED
  BY <1>7, <1>8, <1>11 DEF ComposedInv

LEMMA EndsKeep == ComposedInv /\ (EndFirst \/ EndSecond) => ComposedInv'
<1>. SUFFICES ASSUME ComposedTypeOK, StateInv, SeenInv, EndFirst \/ EndSecond PROVE ComposedInv'
  BY DEF ComposedInv
<1>1. CASE EndFirst
  <2>1. /\ pc = "EndFirst" /\ state = "First" /\ phaseA = "more" /\ posB = 0 /\ phaseB = "more"
        /\ A!End /\ UNCHANGED <<totalB, verdictB, posB, phaseB, limitB, state, rest>>
    BY <1>1 DEF EndFirst, At, StateInv, bVars
  <2>2. /\ UNCHANGED <<totalA, verdictA, posA, limitA>> /\ phaseA' \in {"ok", "err"} /\ A!DecoderInv'
    BY <2>1, FirstEndEffect, PartTypes DEF StateInv
  <2>3. B!DecoderInv'
    BY <2>1 DEF StateInv, B!DecoderInv, B!Limits
  <2>4. /\ UNCHANGED <<pos, limit>>
        /\ phaseA' = "ok" => pc' = "EndSecond" /\ UNCHANGED phase
        /\ phaseA' # "ok" => pc' = "idle" /\ phase' = "err"
    BY <1>1 DEF EndFirst, GoOn, Result, seen
  <2>5. ComposedTypeOK'
    BY <2>1, <2>2, <2>4 DEF ComposedTypeOK, A!Phases, B!Phases, Stream
  <2>6. StateInv' /\ SeenInv'
    BY <2>1, <2>2, <2>3, <2>4 DEF StateInv, SeenInv
  <2>. QED
    BY <2>5, <2>6 DEF ComposedInv
<1>2. CASE EndSecond
  <2>1. /\ pc = "EndSecond" /\ B!End
        /\ UNCHANGED <<totalA, verdictA, posA, phaseA, limitA, state, rest>>
    BY <1>2 DEF EndSecond, At, aVars
  <2>2. /\ UNCHANGED <<totalB, verdictB, posB, limitB>> /\ phaseB' \in {"ok", "err"} /\ B!DecoderInv'
    BY <2>1, SecondEndEffect, PartTypes DEF StateInv
  <2>3. A!DecoderInv'
    BY <2>1 DEF StateInv, A!DecoderInv, A!Limits
  <2>4. UNCHANGED <<pos, limit>> /\ pc' = "idle" /\ phase' = phaseB'
    BY <1>2 DEF EndSecond, Result
  <2>5. ComposedTypeOK'
    BY <2>1, <2>2, <2>4 DEF ComposedTypeOK, A!Phases, B!Phases, Stream
  <2>6. StateInv' /\ SeenInv'
    BY <2>1, <2>2, <2>3, <2>4 DEF StateInv, SeenInv
  <2>. QED
    BY <2>5, <2>6 DEF ComposedInv
<1>. QED
  BY <1>1, <1>2

LEMMA StepKeeps == ComposedInv /\ [ComposedNext]_vars => ComposedInv'
<1>. SUFFICES ASSUME ComposedInv, [ComposedNext]_vars PROVE ComposedInv'
  OBVIOUS
<1>1. CASE UNCHANGED vars
  BY <1>1 DEF vars, aVars, bVars, seen, ComposedInv, ComposedTypeOK, StateInv, SeenInv, Stream,
     A!DecoderInv, B!DecoderInv, A!Limits, B!Limits
<1>2. CASE ComposedNext
  BY <1>1, <1>2, CallsKeep, FirstPushKeeps, FirstDoneKeeps, SecondPushKeeps, EndsKeep
     DEF ComposedNext, Returned
<1>. QED
  BY <1>1, <1>2

-----------------------------------------------------------------------------
(* Every step is a step of the contract or none.                            *)

\* The parts never change what they are.
LEMMA TotalsStay ==
  ASSUME ComposedInv, [ComposedNext]_vars
  PROVE  UNCHANGED <<totalA, verdictA, totalB, verdictB>>
BY DEF ComposedNext, PushCall, FirstPush, FirstDone, SecondPush, EndCall, EndFirst, EndSecond,
   Returned, vars, aVars, bVars, A!Push, B!Push, A!End, B!End

\* A call that returns a status the parts justify is a push of the contract.
LEMMA ReturnIsPush ==
  ASSUME ComposedInv, UNCHANGED <<totalA, verdictA, totalB, verdictB>>,
         NEW c \in Nat, pos' = pos + c, pos + c <= totalA + totalB,
         \/ phase = "more" /\ phase' = "more" /\ pos + c < totalA + totalB
         \/ phase = "more" /\ phase' = "failed" /\ Verdict = "badpush"
         \/ /\ phase = "more" /\ phase' = "ready" /\ Verdict # "badpush"
            /\ pos + c = totalA + totalB
         \/ phase = "ready" /\ phase' = "ready" /\ c = 0,
         phase' # "failed" => limit' \in Contract!Limits(pos')
  PROVE  Contract!Next
<1>1. totalA \in Nat /\ totalB \in Nat /\ pos \in Nat /\ Verdict' = Verdict
  BY DEF ComposedInv, ComposedTypeOK, Verdict
<1>2. c \in 0..(totalA + totalB - pos)
  BY <1>1
<1>3. c \in Contract!Takes(c)
  BY <1>1, <1>2 DEF Contract!Takes, Contract!Lesser
<1>4. phase = "more" => phase' \in Contract!Settle(pos')
  BY <1>1 DEF Contract!Settle
<1>5. Contract!Push(c)
  BY <1>1, <1>3, <1>4 DEF Contract!Push
<1>. QED
  BY <1>2, <1>5 DEF Contract!Next, Contract!Push, Contract!Takes, Contract!Settle, Contract!Limits,
     Contract!Lesser

LEMMA InitRefines == ComposedInit => Contract!Init
<1>. SUFFICES ASSUME ComposedInit PROVE Contract!Init
  OBVIOUS
<1>1. totalA \in Nat /\ totalB \in Nat /\ limitA \in A!Limits(0) /\ limitB \in B!Limits(0)
  BY PartAssumption DEF ComposedInit, A!Fresh, B!Fresh
<1>2. limit = limitA + limitB /\ phase = "more" /\ pos = 0
  BY DEF ComposedInit, read_limit
<1>3. limit \in Contract!Limits(0)
  BY <1>1, <1>2 DEF Contract!Limits, A!Limits, B!Limits
<1>4. Verdict \in IF totalA + totalB = 0 THEN {"ok"} ELSE Contract!Verdicts
  BY <1>1 DEF ComposedInit, A!Fresh, B!Fresh, Verdict, A!Verdicts, B!Verdicts, Contract!Verdicts
<1>. QED
  BY <1>1, <1>2, <1>3, <1>4 DEF Contract!Init, Contract!Fresh

LEMMA FirstPushRefines ==
  ComposedInv /\ FirstPush => Contract!Next \/ UNCHANGED <<phase, pos, limit>>
<1>. SUFFICES ASSUME ComposedTypeOK, StateInv, SeenInv, FirstPush, phaseA' # "ready"
              PROVE  Contract!Next
  BY DEF ComposedInv, FirstPush, GoOn, seen
<1>1. /\ pc = "First" /\ state = "First" /\ phaseA = "more" /\ posB = 0 /\ phaseB = "more"
      /\ rest \in Nat /\ A!Push(rest) /\ phase = "more" /\ pos <= posA
      /\ UNCHANGED <<totalB, verdictB, posB, phaseB, limitB, state>>
  BY DEF FirstPush, At, StateInv, SeenInv, ComposedTypeOK, Stream, bVars
<1>2. /\ UNCHANGED <<totalA, verdictA>> /\ A!DecoderInv'
      /\ phaseA' \in {"more", "failed"}
      /\ phaseA' = "more" => posA' # totalA
  BY <1>1, FirstPushEffect, PartTypes DEF StateInv
<1>3. PICK d \in Nat : posA' = posA + d /\ posA + d <= totalA
  BY <1>1, FirstPushEffect, PartTypes DEF StateInv
<1>4. phase' = phaseA' /\ pos' = posA' + posB' /\ limit' = read_limit'
  BY DEF FirstPush, Return
<1>5. PICK c \in Nat : pos' = pos + c /\ pos + c = posA + d
  <2>1. pos' = posA + d /\ posA + d >= pos /\ pos \in Nat /\ posA \in Nat
    BY <1>1, <1>3, <1>4 DEF ComposedTypeOK
  <2>2. (posA + d) - pos \in Nat /\ pos + ((posA + d) - pos) = posA + d
    BY <2>1
  <2>. QED
    BY <2>1, <2>2
<1>6. /\ totalA \in Nat /\ totalB \in Nat /\ pos \in Nat
  BY DEF ComposedTypeOK
<1>7. phaseA' = "failed" => Verdict = "badpush"
  BY <1>2 DEF A!DecoderInv, Verdict
<1>8. phaseA' = "more" => limit' \in Contract!Limits(pos')
  <2>1. limitB \in 0..totalB /\ (limitB = 0 => totalB = 0)
    BY <1>1, <1>6 DEF StateInv, B!DecoderInv, B!Limits
  <2>2. phaseA' = "more" => limitA' \in 1..(totalA - (posA + d))
    BY <1>2, <1>3 DEF A!DecoderInv, A!Limits
  <2>3. phaseA' = "more" => limit' = limitA' + limitB /\ pos' = posA + d
    BY <1>1, <1>4, <1>3, <1>6 DEF read_limit, ComposedTypeOK
  <2>. QED
    BY <1>1, <1>2, <1>3, <1>6, <2>1, <2>2, <2>3 DEF Contract!Limits, ComposedTypeOK
<1>9. phaseA' = "more" => pos + c < totalA + totalB
  BY <1>2, <1>3, <1>5, <1>6 DEF ComposedTypeOK
<1>10. pos + c <= totalA + totalB
  BY <1>3, <1>5, <1>6 DEF ComposedTypeOK
<1>. QED
  BY <1>1, <1>2, <1>4, <1>5, <1>7, <1>8, <1>9, <1>10, ReturnIsPush DEF ComposedInv

LEMMA FirstDoneRefines ==
  ComposedInv /\ FirstDone => Contract!Next \/ UNCHANGED <<phase, pos, limit>>
<1>. SUFFICES ASSUME ComposedTypeOK, StateInv, SeenInv, FirstDone, phaseA' # "ok"
              PROVE  Contract!Next
  BY DEF ComposedInv, FirstDone, GoOn, seen
<1>1. /\ state = "First" /\ phaseA = "ready" /\ posB = 0
      /\ A!End /\ phase = "more" /\ pos <= posA
      /\ UNCHANGED <<totalB, verdictB, posB, phaseB, limitB, rest>>
  BY DEF FirstDone, At, StateInv, SeenInv, ComposedTypeOK, bVars
<1>2. /\ UNCHANGED <<totalA, verdictA, posA, limitA>> /\ phaseA' = "err"
      /\ verdictA # "ok"
  BY <1>1, FirstEndEffect, PartTypes DEF StateInv, A!DecoderInv
<1>3. phase' = "failed" /\ pos' = posA' + posB'
  BY <1>2 DEF FirstDone, Return
<1>4. PICK c \in Nat : pos' = pos + c /\ pos + c = posA
  <2>1. pos' = posA /\ posA >= pos /\ pos \in Nat /\ posA \in Nat
    BY <1>1, <1>2, <1>3 DEF ComposedTypeOK
  <2>2. posA - pos \in Nat /\ pos + (posA - pos) = posA
    BY <2>1
  <2>. QED
    BY <2>1, <2>2
<1>5. pos + c <= totalA + totalB
  BY <1>4 DEF ComposedTypeOK
<1>6. Verdict = "badpush"
  BY <1>2 DEF Verdict
<1>. QED
  BY <1>1, <1>2, <1>3, <1>4, <1>5, <1>6, ReturnIsPush DEF ComposedInv

LEMMA SecondPushRefines == ComposedInv /\ SecondPush => Contract!Next
<1>. SUFFICES ASSUME ComposedTypeOK, StateInv, SeenInv, SecondPush PROVE Contract!Next
  BY DEF ComposedInv
<1>1. /\ pc = "Second" /\ state = "Second" /\ phaseA = "ok" /\ phaseB \in {"more", "ready"}
      /\ rest \in Nat /\ B!Push(rest) /\ phase \in {"more", "ready"}
      /\ UNCHANGED <<totalA, verdictA, posA, phaseA, limitA>>
  BY DEF SecondPush, At, StateInv, SeenInv, ComposedTypeOK, Stream, aVars
<1>2. /\ UNCHANGED <<totalB, verdictB>> /\ B!DecoderInv'
      /\ phaseB' \in {"more", "ready", "failed"}
      /\ phaseB' = "more" => posB' # totalB
      /\ phaseB = "ready" => phaseB' = "ready"
  BY <1>1, SecondPushEffect, PartTypes DEF StateInv
<1>3. PICK d \in Nat :
        posB' = posB + d /\ posB + d <= totalB /\ (phaseB = "ready" => d = 0)
  BY <1>1, SecondPushEffect, PartTypes DEF StateInv
<1>4. /\ phase' = phaseB' /\ pos' = posA' + posB' /\ limit' = read_limit'
      /\ state' = IF phaseB' = "failed" THEN "Errored" ELSE "Second"
  BY <1>1 DEF SecondPush, Return
<1>5. /\ posA = totalA /\ verdictA = "ok"
      /\ totalA \in Nat /\ totalB \in Nat /\ pos \in Nat /\ posB \in Nat /\ pos <= posA + posB
  BY <1>1 DEF StateInv, SeenInv, A!DecoderInv, ComposedTypeOK
<1>6. PICK c \in Nat : pos' = pos + c /\ pos + c = totalA + (posB + d)
  <2>1. pos' = totalA + (posB + d) /\ totalA + (posB + d) >= pos
    BY <1>1, <1>3, <1>4, <1>5
  <2>2. (totalA + (posB + d)) - pos \in Nat
    BY <2>1, <1>5
  <2>3. pos + ((totalA + (posB + d)) - pos) = totalA + (posB + d)
    BY <1>5
  <2>. QED
    BY <2>1, <2>2, <2>3
<1>7. pos + c <= totalA + totalB /\ (phaseB' = "more" => pos + c < totalA + totalB)
  BY <1>2, <1>3, <1>5, <1>6
<1>8. phaseB' # "failed" => limit' \in Contract!Limits(pos')
  <2>1. phaseB' # "failed" =>
          limit' = limitB' /\ limitB' \in IF posB + d = totalB THEN {0} ELSE 1..(totalB - (posB + d))
    BY <1>2, <1>3, <1>4 DEF read_limit, B!DecoderInv, B!Limits
  <2>2. pos' = totalA + (posB + d)
    BY <1>6
  <2>. QED
    BY <1>1, <1>2, <1>3, <1>5, <2>1, <2>2 DEF Contract!Limits
<1>9. /\ phaseB' = "ready" => Verdict # "badpush" /\ pos + c = totalA + totalB
      /\ phaseB' = "failed" => Verdict = "badpush"
  BY <1>2, <1>3, <1>5, <1>6 DEF B!DecoderInv, Verdict
<1>10. phase = "ready" => phaseB' = "ready" /\ c = 0
  BY <1>1, <1>2, <1>3, <1>5, <1>6 DEF SeenInv
<1>. QED
  BY <1>1, <1>2, <1>4, <1>6, <1>7, <1>8, <1>9, <1>10, ReturnIsPush DEF ComposedInv

LEMMA EndsRefine ==
  ComposedInv /\ (EndFirst \/ EndSecond) => Contract!Next \/ UNCHANGED <<phase, pos, limit>>
<1>. SUFFICES ASSUME ComposedTypeOK, StateInv, SeenInv, EndFirst \/ EndSecond
              PROVE  Contract!Next \/ UNCHANGED <<phase, pos, limit>>
  BY DEF ComposedInv
<1>0. UNCHANGED <<totalA, verdictA, totalB, verdictB>>
  BY DEF EndFirst, EndSecond, A!End, B!End, aVars, bVars
<1>1. CASE EndFirst /\ phaseA' = "ok"
  BY <1>1 DEF EndFirst, GoOn, seen
<1>2. CASE EndFirst /\ phaseA' # "ok"
  <2>1. /\ phaseA = "more" /\ posB = 0 /\ pos = posA + posB /\ phase \in {"more", "ready"}
        /\ A!End
    BY <1>2 DEF EndFirst, At, StateInv, SeenInv
  <2>2. posA # totalA
    BY <1>2, <2>1, FirstEndEffect, PartTypes DEF StateInv, A!DecoderInv
  <2>3. phase' = "err" /\ UNCHANGED <<pos, limit>>
    BY <1>2 DEF EndFirst, Result
  <2>4. pos # totalA + totalB
    BY <2>1, <2>2 DEF ComposedTypeOK
  <2>. QED
    BY <1>0, <2>1, <2>3, <2>4 DEF Contract!Next, Contract!End, Verdict
<1>3. CASE EndSecond
  <2>1. /\ phaseA = "ok" /\ pos = posA + posB /\ phase \in {"more", "ready"}
        /\ B!End /\ posA = totalA /\ verdictA = "ok"
    BY <1>3 DEF EndSecond, At, StateInv, SeenInv, A!DecoderInv
  <2>2. phaseB' \in {"ok", "err"} /\ (phaseB' = "ok" <=> posB = totalB /\ verdictB = "ok")
    BY <2>1, SecondEndEffect, PartTypes DEF StateInv
  <2>3. phase' = phaseB' /\ UNCHANGED <<pos, limit>>
    BY <1>3 DEF EndSecond, Result
  <2>4. pos = totalA + totalB <=> posB = totalB
    BY <2>1 DEF ComposedTypeOK
  <2>. QED
    BY <1>0, <2>1, <2>2, <2>3, <2>4 DEF Contract!Next, Contract!End, Verdict
<1>. QED
  BY <1>1, <1>2, <1>3

LEMMA StepRefines ==
  ComposedInv /\ [ComposedNext]_vars => [Contract!Next]_(Contract!contractVars)
<1>. SUFFICES ASSUME ComposedInv, [ComposedNext]_vars
              PROVE  Contract!Next \/ UNCHANGED Contract!contractVars
  OBVIOUS
<1>1. UNCHANGED <<phase, pos, limit>> => UNCHANGED Contract!contractVars
  BY TotalsStay DEF Contract!contractVars, Verdict
<1>2. Contract!Next \/ UNCHANGED <<phase, pos, limit>>
  BY FirstPushRefines, FirstDoneRefines, SecondPushRefines, EndsRefine
     DEF ComposedNext, PushCall, EndCall, GoOn, Returned, vars, seen
<1>. QED
  BY <1>1, <1>2

-----------------------------------------------------------------------------
\* The push that reports back took a byte, unless its slice was empty.
LEMMA StepProgresses ==
  ASSUME ComposedInv, [ComposedNext]_vars, pc # "idle", pc' = "idle", phase' = "more"
  PROVE  rest' = 0 \/ pos' > pos
<1>. USE DEF ComposedInv
<1>1. CASE FirstPush
  <2>1. /\ phaseA = "more" /\ posB = 0 /\ rest \in Nat /\ A!Push(rest) /\ pos <= posA
        /\ phaseA' = "more" /\ pos' = posA' + posB' /\ posB' = posB
    BY <1>1 DEF FirstPush, At, GoOn, Return, StateInv, SeenInv, ComposedTypeOK, Stream, bVars
  <2>2. PICK c \in Nat :
          /\ posA' = posA + c /\ c <= rest /\ posA + c <= totalA
          /\ rest > 0 /\ totalA > 0 => c > 0
    BY <2>1, FirstPushEffect, PartTypes DEF StateInv
  <2>3. rest' = rest - c
    BY <1>1, <2>1, <2>2 DEF FirstPush, ComposedTypeOK
  <2>4. posA' # totalA
    BY <2>1, FirstPushEffect, PartTypes DEF StateInv
  <2>5. pos' = posA + c
    BY <2>1, <2>2 DEF ComposedTypeOK
  <2>. QED
    BY <2>1, <2>2, <2>3, <2>4, <2>5 DEF ComposedTypeOK
<1>2. CASE SecondPush
  <2>1. /\ phaseB \in {"more", "ready"} /\ rest \in Nat /\ B!Push(rest) /\ pos <= posA + posB
        /\ phaseB' = "more" /\ pos' = posA' + posB' /\ posA' = posA
    BY <1>2 DEF SecondPush, At, Return, StateInv, SeenInv, ComposedTypeOK, Stream, aVars
  <2>2. PICK c \in Nat :
          /\ posB' = posB + c /\ c <= rest /\ posB + c <= totalB
          /\ phaseB = "more" /\ rest > 0 /\ totalB > 0 => c > 0
    BY <2>1, SecondPushEffect, PartTypes DEF StateInv
  <2>3. rest' = rest - c
    BY <1>2, <2>1, <2>2 DEF SecondPush, ComposedTypeOK
  <2>4. posB' # totalB /\ phaseB = "more"
    BY <2>1, SecondPushEffect, PartTypes DEF StateInv
  <2>5. pos' = posA + (posB + c)
    BY <2>1, <2>2 DEF ComposedTypeOK
  <2>. QED
    BY <2>1, <2>2, <2>3, <2>4, <2>5 DEF ComposedTypeOK
<1>. QED
  BY <1>1, <1>2, FirstEndEffect, SecondEndEffect, PartTypes
     DEF ComposedNext, PushCall, EndCall, FirstDone, EndFirst, EndSecond, Returned, At, GoOn,
         Return, Result, vars, StateInv

\* The inductive invariant, which the theorems below follow from.
THEOREM ComposedInvariant == ComposedSpec => []ComposedInv
<1>1. ComposedInit => ComposedInv
  BY InitEstablishes
<1>2. ComposedInv /\ [ComposedNext]_vars => ComposedInv'
  BY StepKeeps
<1>. QED
  BY <1>1, <1>2, PTL DEF ComposedSpec

\* The state of Decoder2 and of its parts stays in its types.
THEOREM ComposedTypes == ComposedSpec => []ComposedTypeOK
<1>1. ComposedInv => ComposedTypeOK
  BY DEF ComposedInv
<1>. QED
  BY <1>1, ComposedInvariant, PTL

\* Decoder2 never reaches its own panic and never calls a part that failed or ended.
THEOREM PartsAreNotMisused == ComposedSpec => []NoUseAfterFailure
<1>1. ComposedInv => NoUseAfterFailure
  BY DEF ComposedInv, StateInv, SeenInv, ComposedTypeOK, NoUseAfterFailure
<1>. QED
  BY <1>1, ComposedInvariant, PTL

\* Decoder2 over two decoders of the contract is a decoder of the contract: by induction
\* so are Decoder3, Decoder4 and Decoder6, which are nests of it.
THEOREM ComposedImplementsContract == ComposedSpec => ImplementsDecoder
<1>1. ComposedInit => Contract!Init
  BY InitRefines
<1>2. ComposedInv /\ [ComposedNext]_vars => [Contract!Next]_(Contract!contractVars)
  BY StepRefines
<1>3. ComposedInv /\ [ComposedNext]_vars =>
        [pc # "idle" /\ pc' = "idle" /\ phase' = "more" => rest' = 0 \/ pos' > pos]_vars
  BY StepProgresses
<1>. QED
  BY <1>1, <1>2, <1>3, ComposedInvariant, PTL
     DEF ComposedSpec, Contract!Spec, ImplementsDecoder, PushesProgress

=============================================================================
