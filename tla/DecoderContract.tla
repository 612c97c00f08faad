-------------------------- MODULE DecoderContract --------------------------
(***************************************************************************)
(* What the trait Decoder of consensus_encoding promises its callers: the  *)
(* abstract specification that every concrete decoder of the workspace     *)
(* implements and that the driver functions rely on.                       *)
(*                                                                         *)
(* Bytes are counted, not inspected.  The stream pushed into the decoder   *)
(* starts with an encoding that announces `total' bytes; `verdict' says    *)
(* whether that encoding is accepted, is rejected by a push_bytes call on  *)
(* the way, or is rejected only by end.                                    *)
(***************************************************************************)
EXTENDS Integers

VARIABLES
  total,    \* bytes the encoding occupies at the head of the stream
  verdict,  \* "ok", "badpush" or "badend": how the decoder judges those bytes
  pos,      \* bytes the decoder has consumed
  phase,    \* "more" and "ready" are the DecoderStatus last returned, "failed" is
            \* an Err of push_bytes, "ok" and "err" are the results of end
  limit     \* what read_limit() returns

contractVars == <<total, verdict, pos, phase, limit>>

Verdicts == {"ok", "badpush", "badend"}
Phases == {"more", "ready", "failed", "ok", "err"}

Lesser(a, b) == IF a <= b THEN a ELSE b

\* read_limit never promises more than what is left, and is 0 exactly when the
\* decoder is complete.
Limits(p) == IF p = total THEN {0} ELSE 1..(total - p)

\* Of n bytes offered a decoder that is not complete takes some and never more
\* than the encoding still lacks.
Takes(n) == {c \in 0..Lesser(n, total - pos) : c > 0 \/ n = 0 \/ pos = total}

\* An encoding that push_bytes rejects is rejected no later than at its last byte.
Settle(p) ==
  (IF p < total THEN {"more"} ELSE IF verdict = "badpush" THEN {} ELSE {"ready"})
    \cup (IF verdict = "badpush" THEN {"failed"} ELSE {})

\* push_bytes with a slice of n bytes.  After Ready it returns Ready again and
\* consumes nothing.
Push(n) ==
  /\ \/ /\ phase = "more"
        /\ \E c \in Takes(n) : pos' = pos + c
        /\ phase' \in Settle(pos')
     \/ /\ phase = "ready"
        /\ UNCHANGED <<pos, phase>>
  /\ limit' \in IF phase' = "failed" THEN {0} ELSE Limits(pos')
  /\ UNCHANGED <<total, verdict>>

\* end() succeeds on a complete and acceptable encoding and on nothing else.
End ==
  /\ phase \in {"more", "ready"}
  /\ phase' = IF pos = total /\ verdict = "ok" THEN "ok" ELSE "err"
  /\ UNCHANGED <<total, verdict, pos, limit>>

\* An encoding of no bytes has nothing in it to reject.
Fresh ==
  /\ verdict \in IF total = 0 THEN {"ok"} ELSE Verdicts
  /\ pos = 0
  /\ phase = "more"
  /\ limit \in Limits(0)

Init == total \in Nat /\ Fresh

\* Offering more than the encoding lacks comes to offering just that.
Next == (\E n \in 0..(total - pos) : Push(n)) \/ End

Spec == Init /\ [][Next]_contractVars

-----------------------------------------------------------------------------
ContractTypeOK ==
  /\ total \in Nat /\ verdict \in Verdicts
  /\ pos \in 0..total /\ phase \in Phases /\ limit \in 0..total

\* What is known of a decoder in each phase, however it is driven.
DecoderInv ==
  /\ phase \in {"more", "ready"} => limit \in Limits(pos)
  /\ phase = "more" /\ pos = total => total = 0
  /\ phase = "ready" => pos = total /\ verdict # "badpush"
  /\ phase = "failed" => verdict = "badpush"
  /\ phase = "ok" => pos = total /\ verdict = "ok"
  /\ phase = "err" => pos # total \/ verdict # "ok"
  /\ total = 0 => verdict = "ok"

=============================================================================
