------------------------ MODULE NetworkMessageProofs ------------------------
(***************************************************************************)
(* The decoders of whole network messages, for every length of header and  *)
(* payload, any limit, and any decoder of the payload that keeps the       *)
(* promises of the trait Decoder: a V1 message ends with the frame its     *)
(* header announces, both decoders keep the trait's promises themselves,   *)
(* and what was sent comes back.                                           *)
(***************************************************************************)
EXTENDS NetworkMessage, TLAPS

\* What is left of a slice of r bytes when a decoder has gone on from p to q.
LEMMA Remainder ==
  ASSUME NEW r \in Nat, NEW len \in Nat, NEW p \in 0..len, NEW q \in p..len, q - p <= r
  PROVE  r - (q - p) \in Nat /\ q \in 0..len
OBVIOUS

\* A counter that follows a decoder from p to q.
LEMMA Advance ==
  ASSUME NEW len \in Nat, NEW p \in 0..len, NEW q \in p..len
  PROVE  q \in Nat /\ p + (q - p) = q
OBVIOUS

\* What a push does to the decoder of the part at hand.
LEMMA PartPush ==
  ASSUME part.len \in Nat, fpos \in 0..part.len, NEW n \in Nat, D!Push(n)
  PROVE  /\ fpos' \in fpos..part.len /\ fpos' - fpos <= n
         /\ flimit' \in 0..(part.len - fpos')
         /\ fphase' \in {"more", "ready", "failed"}
         /\ fphase' = "failed" => flimit' = 0
<1>1. CASE fphase = "ready"
  <2>1. fpos' = fpos /\ fphase' = "ready" /\ flimit' \in D!Limits(fpos)
    BY <1>1 DEF D!Push
  <2>. QED
    BY <2>1 DEF D!Limits
<1>2. CASE fphase = "more"
  <2>1. PICK c \in D!Takes(n) : fpos' = fpos + c
    BY <1>2 DEF D!Push
  <2>2. c \in Nat /\ c <= n /\ fpos + c <= part.len
    BY <2>1 DEF D!Takes, D!Lesser
  <2>3. /\ fphase' \in D!Settle(fpos')
        /\ flimit' \in IF fphase' = "failed" THEN {0} ELSE D!Limits(fpos')
    BY <1>2 DEF D!Push
  <2>4. flimit' \in 0..(part.len - fpos')
    BY <2>1, <2>2, <2>3 DEF D!Limits
  <2>. QED
    BY <2>1, <2>2, <2>3, <2>4 DEF D!Settle
<1>. QED
  BY <1>1, <1>2 DEF D!Push

\* The buffer of an Unknown takes no more than a decoder of the contract would.
LEMMA UnknownPush ==
  ASSUME part.len \in Nat, fpos \in 0..part.len, rest \in Nat, PushUnknown
  PROVE  /\ fpos' \in fpos..part.len /\ fpos' - fpos <= rest
         /\ flimit' \in 0..(part.len - fpos')
         /\ fphase' \in {"more", "ready"}
BY DEF PushUnknown, D!Lesser

-----------------------------------------------------------------------------
(* The inductive invariant.                                                 *)

\* The part being read and the decoder in it.
PartInv ==
  /\ version \in {1, 2}
  /\ wire.declared \in Nat /\ wire.need \in Nat
  /\ part.before \in Nat /\ part.len \in Nat
  /\ fpos \in 0..part.len /\ flimit \in 0..(part.len - fpos)
  /\ fphase = "failed" => flimit = 0
  /\ rest \in Nat

\* A V1 decoder is in its header, or behind it with the length the header announced;
\* both counters of the payload are where its decoder is.
FrameInv ==
  /\ state \in {"Header", "Payload"}
  /\ state = "Header" => part.before = 0 /\ part.len = HeaderLen /\ payload_len = <<>>
  /\ state = "Payload" =>
       /\ part.before = HeaderLen
       /\ payload_len = <<wire.declared>> /\ wire.declared <= MAX_MSG_SIZE
       /\ bytes_consumed \in Nat
       /\ fphase # "failed" => bytes_consumed = fpos /\ checksum_engine = fpos
       /\ pc \notin {"end", "next"}

\* What the caller saw last: the position behind what was consumed, and a limit that
\* ends with the announced frame.
CallerInv ==
  /\ pos \in Nat /\ limit \in Nat
  /\ pc # "idle" => phase \in {"more", "ready"}
  /\ pc = "idle" => pos = part.before + fpos
  /\ pos <= HeaderLen + wire.declared => pos + limit <= HeaderLen + wire.declared
  /\ fphase = "failed" => phase = "failed"
  /\ phase = "ok" => Accepts

MessageInv == PartInv /\ (version = 1 => FrameInv /\ CallerInv)

-----------------------------------------------------------------------------
LEMMA WireTypes == \A v \in {1, 2} : \A w \in Wires(v) : w.declared \in Nat /\ w.need \in Nat
<1>. SUFFICES ASSUME NEW v \in {1, 2}, NEW w \in Wires(v)
              PROVE  w.declared \in Nat /\ w.need \in Nat
  OBVIOUS
<1>1. CASE \E m \in Messages : w = Encode(m)
  <2>1. PICK m \in Messages : w = Encode(m)
    BY <1>1
  <2>2. m.size \in Nat
    BY MessageAssumption DEF Messages, Message
  <2>. QED
    BY <2>1, <2>2 DEF Encode, Wire
<1>2. CASE w \in Forgeries(v)
  BY <1>2, MessageAssumption DEF Forgeries, Wire
<1>. QED
  BY <1>1, <1>2 DEF Wires

LEMMA ExpectedNat ==
  ASSUME PartInv, NEW i
  PROVE  Expected(i) \in Nat
BY DEF PartInv, Expected

\* What Return shows of a V1 decoder keeps the limit within the frame.
InFrame ==
  /\ part.before + fpos \in Nat /\ read_limit \in Nat
  /\ part.before + fpos <= HeaderLen + wire.declared =>
       part.before + fpos + read_limit <= HeaderLen + wire.declared

LEMMA Shown == PartInv /\ FrameInv => InFrame
<1>. SUFFICES ASSUME PartInv, FrameInv PROVE InFrame
  OBVIOUS
<1>. USE DEF InFrame
<1>. /\ part.before \in Nat /\ part.len \in Nat /\ fpos \in Nat /\ fpos <= part.len
     /\ flimit \in Nat /\ flimit <= part.len - fpos /\ wire.declared \in Nat
     /\ HeaderLen \in Nat
  BY MessageAssumption DEF PartInv
<1>1. CASE state = "Header"
  BY <1>1 DEF FrameInv, read_limit
<1>2. CASE state = "Payload"
  <2>1. /\ payload_len = <<wire.declared>> /\ bytes_consumed \in Nat
        /\ part.before = HeaderLen
        /\ fphase # "failed" => bytes_consumed = fpos
    BY <1>2 DEF FrameInv
  <2>2. read_limit = D!Lesser(flimit, IF bytes_consumed < wire.declared
                                        THEN wire.declared - bytes_consumed ELSE 0)
    BY <1>2, <2>1 DEF read_limit
  <2>3. CASE fphase # "failed"
    BY <2>1, <2>2, <2>3 DEF D!Lesser
  <2>4. CASE fphase = "failed"
    <3>1. flimit = 0
      BY <2>4 DEF PartInv
    <3>2. read_limit = 0
      BY <2>1, <2>2, <3>1 DEF D!Lesser
    <3>. QED
      BY <2>1, <3>2
  <2>. QED
    BY <2>3, <2>4
<1>. QED
  BY <1>1, <1>2 DEF FrameInv

\* A step that returns to the caller.
LEMMA ReturnShows ==
  ASSUME version' = 1, PartInv', FrameInv', NEW answer \in {"more", "ready", "failed"},
         Return(answer), fphase' = "failed" => answer = "failed"
  PROVE  CallerInv'
<1>1. (PartInv /\ FrameInv => InFrame)'
  BY Shown, PTL
<1>2. InFrame'
  BY <1>1
<1>. QED
  BY <1>2 DEF InFrame, Return, CallerInv

\* A step within a call.
LEMMA GoOnShows ==
  ASSUME CallerInv, NEW where, where # "idle", GoOn(where), phase \in {"more", "ready"},
         wire' = wire, fphase' # "failed"
  PROVE  CallerInv'
BY DEF CallerInv, GoOn, seen

LEMMA InitEstablishes == Init => MessageInv
<1>. SUFFICES ASSUME Init PROVE MessageInv
  OBVIOUS
<1>1. version \in {1, 2} /\ wire.declared \in Nat /\ wire.need \in Nat
  BY WireTypes DEF Init
<1>2. /\ part.before = 0 /\ part.len \in Nat
      /\ version = 1 => part.len = HeaderLen
  BY <1>1, MessageAssumption DEF Init, PartOf, Part
<1>3. fpos = 0 /\ fphase = "more" /\ flimit \in 0..part.len
  BY <1>2 DEF Init, D!Fresh, D!Limits
<1>4. PartInv
  BY <1>1, <1>2, <1>3 DEF PartInv, Init
<1>5. ASSUME version = 1 PROVE FrameInv /\ CallerInv
  <2>1. FrameInv
    BY <1>2, <1>5 DEF Init, FrameInv
  <2>2. InFrame
    BY <1>4, <2>1, Shown
  <2>3. /\ pos = 0 /\ limit = read_limit /\ phase = "more" /\ pc = "idle"
        /\ part.before + fpos = 0 /\ fphase # "failed"
    BY <1>2, <1>3 DEF Init
  <2>. QED
    BY <2>1, <2>2, <2>3 DEF CallerInv, InFrame
<1>. QED
  BY <1>4, <1>5 DEF MessageInv

-----------------------------------------------------------------------------
(* One lemma per action.                                                    *)

LEMMA PushCallStep ==
  ASSUME MessageInv, NEW n \in Nat, PushCall(n)
  PROVE  MessageInv'
<1>1. PartInv'
  BY DEF MessageInv, PartInv, PushCall, input, decoder
<1>2. ASSUME version = 1 PROVE FrameInv' /\ CallerInv'
  <2>1. FrameInv'
    BY <1>2 DEF MessageInv, FrameInv, PushCall, GoOn, input, decoder, payload
  <2>2. CallerInv /\ fphase # "failed"
    BY <1>2 DEF MessageInv, CallerInv, PushCall
  <2>. QED
    BY <2>1, <2>2, GoOnShows DEF PushCall, input, decoder
<1>. QED
  BY <1>1, <1>2 DEF MessageInv, PushCall, input

LEMMA PushPartStep ==
  ASSUME MessageInv, PushPart
  PROVE  MessageInv'
<1>1. /\ version' = version /\ wire' = wire /\ state' = state /\ part' = part
      /\ UNCHANGED payload
  BY DEF PushPart, input
<1>2. /\ part.len \in Nat /\ fpos \in 0..part.len /\ rest \in Nat
      /\ D!Push(rest) /\ rest' = rest - (fpos' - fpos)
  BY DEF PushPart, MessageInv, PartInv
<1>3. /\ fpos' \in fpos..part.len /\ fpos' - fpos <= rest
      /\ flimit' \in 0..(part.len - fpos')
      /\ fphase' \in {"more", "ready", "failed"}
      /\ fphase' = "failed" => flimit' = 0
  BY <1>2, PartPush
<1>4. PartInv'
  <2>1. fpos' \in fpos..part.len /\ fpos' - fpos <= rest
    BY <1>3
  <2>2. rest - (fpos' - fpos) \in Nat /\ fpos' \in 0..part.len
    BY <1>2, <2>1, Remainder
  <2>. QED
    BY <1>1, <1>2, <1>3, <2>2 DEF MessageInv, PartInv
<1>5. ASSUME version = 1 PROVE FrameInv' /\ CallerInv'
  <2>1. FrameInv'
    BY <1>1, <1>5 DEF MessageInv, FrameInv, PushPart, payload
  <2>2. CASE fphase' = "ready"
    <3>1. CallerInv /\ GoOn("end") /\ phase \in {"more", "ready"}
      BY <1>5, <2>2 DEF MessageInv, CallerInv, PushPart
    <3>. QED
      BY <1>1, <2>1, <2>2, <3>1, GoOnShows
  <2>3. CASE fphase' # "ready"
    <3>1. Return(fphase')
      BY <2>3 DEF PushPart
    <3>. QED
      BY <1>1, <1>3, <1>4, <1>5, <2>1, <3>1, ReturnShows
  <2>. QED
    BY <2>2, <2>3
<1>. QED
  BY <1>1, <1>4, <1>5 DEF MessageInv

LEMMA EndPartStep ==
  ASSUME MessageInv, EndPart
  PROVE  MessageInv'
<1>1. /\ version' = version /\ wire' = wire /\ part' = part /\ rest' = rest
      /\ UNCHANGED payload
  BY DEF EndPart, input
<1>2. fpos' = fpos /\ flimit' = flimit /\ fphase' \in {"ok", "err"}
  BY DEF EndPart, D!End
<1>3. PartInv'
  BY <1>1, <1>2 DEF MessageInv, PartInv
<1>4. ASSUME version = 1 PROVE FrameInv' /\ CallerInv'
  <2>1. state' = state
    BY <1>4 DEF EndPart
  <2>2. FrameInv'
    BY <1>1, <1>4, <2>1 DEF MessageInv, FrameInv, EndPart, payload
  <2>3. CASE fphase' = "ok"
    <3>1. CallerInv /\ GoOn("next") /\ phase \in {"more", "ready"}
      BY <1>4, <2>3 DEF MessageInv, CallerInv, EndPart
    <3>. QED
      BY <1>1, <2>2, <2>3, <3>1, GoOnShows
  <2>4. CASE fphase' = "err"
    <3>1. Return("failed")
      BY <2>4 DEF EndPart
    <3>. QED
      BY <1>1, <1>3, <1>4, <2>2, <2>4, <3>1, ReturnShows
  <2>. QED
    BY <1>2, <2>3, <2>4
<1>. QED
  BY <1>1, <1>3, <1>4 DEF MessageInv

LEMMA FailStep ==
  ASSUME MessageInv, Fail, UNCHANGED input, rest' = rest, state \in {"Header", "ShortId"},
         pc = "next"
  PROVE  MessageInv'
<1>1. /\ version' = version /\ wire' = wire /\ part' = part
      /\ UNCHANGED payload /\ UNCHANGED decoder
  BY DEF Fail, input
<1>2. PartInv'
  BY <1>1 DEF MessageInv, PartInv, decoder
<1>3. ASSUME version = 1 PROVE FrameInv' /\ CallerInv'
  <2>1. state' = "Header" /\ pc' = "idle" /\ Return("failed")
    BY <1>3 DEF MessageInv, FrameInv, Fail, Return
  <2>2. FrameInv'
    BY <1>1, <1>3, <2>1 DEF MessageInv, FrameInv, payload
  <2>. QED
    BY <1>1, <1>2, <1>3, <2>1, <2>2, ReturnShows
<1>. QED
  BY <1>1, <1>2, <1>3 DEF MessageInv

\* What a new part starts with.
LEMMA Entered ==
  ASSUME PartInv, NEW next, NEW i, Enter(next, i), UNCHANGED input, rest' = rest
  PROVE  /\ PartInv'
         /\ part'.before = part.before + part.len
         /\ fpos' = 0 /\ fphase' = "more"
<1>1. version' = version /\ wire' = wire
  BY DEF input
<1>2. part.before + part.len \in Nat
  BY DEF PartInv
<1>3. part' = PartOf(next, part.before + part.len, i)
  BY DEF Enter
<1>4. Expected(i) \in Nat
  BY ExpectedNat
<1>5. part'.before = part.before + part.len /\ part'.len \in Nat
  BY <1>2, <1>3, <1>4, MessageAssumption DEF PartOf, Part
<1>6. flimit' \in 0..part'.len
  <2>1. CASE i.decoder = "Unknown"
    BY <1>5, <2>1 DEF Enter
  <2>2. CASE i.decoder # "Unknown"
    <3>1. flimit' \in D!Limits(0)'
      BY <2>2 DEF Enter
    <3>. QED
      BY <1>5, <3>1 DEF D!Limits
  <2>. QED
    BY <2>1, <2>2
<1>7. fpos' = 0 /\ fphase' = "more"
  BY DEF Enter
<1>. QED
  BY <1>1, <1>2, <1>5, <1>6, <1>7 DEF PartInv

LEMMA AfterHeaderStep ==
  ASSUME MessageInv, AfterHeader
  PROVE  MessageInv'
<1>1. UNCHANGED input /\ rest' = rest /\ state = "Header" /\ pc = "next"
  BY DEF AfterHeader, Next
<1>2. CASE wire.declared > MAX_MSG_SIZE
  BY <1>1, <1>2, FailStep DEF AfterHeader
<1>3. CASE ~(wire.declared > MAX_MSG_SIZE)
  <2>. DEFINE i == DecoderOf(wire.command)
  <2>1. EnterPayload(i, <<wire.declared>>)
    BY <1>3 DEF AfterHeader
  <2>2. Enter("Payload", i)
    BY <2>1 DEF EnterPayload
  <2>3. /\ PartInv' /\ part'.before = part.before + part.len
        /\ fpos' = 0 /\ fphase' = "more"
    BY <1>1, <2>2, Entered DEF MessageInv
  <2>4. version' = version /\ wire' = wire
    BY <1>1 DEF input
  <2>5. ASSUME version = 1 PROVE FrameInv' /\ CallerInv'
    <3>1. part'.before = HeaderLen
      BY <1>1, <2>3, <2>5, MessageAssumption DEF MessageInv, FrameInv
    <3>2. wire.declared \in Nat /\ wire.declared <= MAX_MSG_SIZE
      BY <1>3, MessageAssumption DEF MessageInv, PartInv
    <3>3. /\ state' = "Payload" /\ payload_len' = <<wire.declared>>
          /\ bytes_consumed' = 0 /\ checksum_engine' = 0 /\ GoOn("push")
      BY <2>1 DEF EnterPayload, Enter
    <3>4. pc' = "push"
      BY <3>3 DEF GoOn
    <3>5. FrameInv'
      BY <2>3, <2>4, <3>1, <3>2, <3>3, <3>4 DEF FrameInv
    <3>6. CallerInv /\ phase \in {"more", "ready"}
      BY <1>1, <2>5 DEF MessageInv, CallerInv
    <3>. QED
      BY <2>3, <2>4, <3>3, <3>5, <3>6, GoOnShows
  <2>. QED
    BY <2>3, <2>4, <2>5 DEF MessageInv
<1>. QED
  BY <1>2, <1>3

LEMMA AfterShortIdStep ==
  ASSUME MessageInv, AfterShortId
  PROVE  MessageInv'
<1>1. UNCHANGED input /\ rest' = rest /\ state = "ShortId" /\ pc = "next"
  BY DEF AfterShortId, Next
<1>2. version' # 1
  BY <1>1 DEF MessageInv, FrameInv, input
<1>3. CASE Enter("CommandString", None)
  BY <1>1, <1>2, <1>3, Entered DEF MessageInv
<1>4. CASE EnterPayload(payload_decoder_from_short_id(wire.id), <<>>)
  <2>1. Enter("Payload", payload_decoder_from_short_id(wire.id))
    BY <1>4 DEF EnterPayload
  <2>. QED
    BY <1>1, <1>2, <2>1, Entered DEF MessageInv
<1>5. CASE Fail
  BY <1>1, <1>5, FailStep
<1>. QED
  BY <1>3, <1>4, <1>5 DEF AfterShortId

LEMMA AfterCommandStringStep ==
  ASSUME MessageInv, AfterCommandString
  PROVE  MessageInv'
<1>1. UNCHANGED input /\ rest' = rest /\ state = "CommandString"
  BY DEF AfterCommandString, Next
<1>2. version' # 1
  BY <1>1 DEF MessageInv, FrameInv, input
<1>3. Enter("Payload", payload_decoder_from_command(wire.command))
  BY DEF AfterCommandString, EnterPayload
<1>. QED
  BY <1>1, <1>2, <1>3, Entered DEF MessageInv

\* Of a payload push, before what it does to the invariant: both decoders of a payload
\* take at most the slice, and the counters follow the one that was not refused.
LEMMA PayloadPush ==
  ASSUME PartInv, PushPayload
  PROVE  /\ UNCHANGED <<version, wire, part, inner, payload_len>>
         /\ PartInv'
         /\ fpos' \in fpos..part.len
         /\ fphase' \in {"more", "ready", "failed"}
<1>1. UNCHANGED <<version, wire, part, inner, payload_len>> /\ rest' = rest - (fpos' - fpos)
  BY DEF PushPayload, input
<1>2. part.len \in Nat /\ fpos \in 0..part.len /\ rest \in Nat
  BY DEF PartInv
<1>3. /\ fpos' \in fpos..part.len /\ fpos' - fpos <= rest
      /\ flimit' \in 0..(part.len - fpos')
      /\ fphase' \in {"more", "ready", "failed"}
      /\ fphase' = "failed" => flimit' = 0
  <2>1. CASE PushUnknown
    BY <1>2, <2>1, UnknownPush
  <2>2. CASE D!Push(rest)
    BY <1>2, <2>2, PartPush
  <2>. QED
    BY <2>1, <2>2 DEF PushPayload
<1>4. PartInv'
  <2>1. fpos' \in fpos..part.len /\ fpos' - fpos <= rest
    BY <1>3
  <2>2. rest - (fpos' - fpos) \in Nat /\ fpos' \in 0..part.len
    BY <1>2, <2>1, Remainder
  <2>. QED
    BY <1>1, <1>2, <1>3, <2>2 DEF PartInv
<1>. QED
  BY <1>1, <1>3, <1>4

LEMMA PushPayloadStep ==
  ASSUME MessageInv, PushPayload
  PROVE  MessageInv'
<1>1. /\ UNCHANGED <<version, wire, part, inner, payload_len>> /\ PartInv'
      /\ fpos' \in fpos..part.len /\ fphase' \in {"more", "ready", "failed"}
  BY PayloadPush DEF MessageInv
<1>2. state = "Payload" /\ Return(fphase')
  BY DEF PushPayload
<1>3. ASSUME version = 1 PROVE FrameInv' /\ CallerInv'
  <2>1. pc' = "idle" /\ state' = "Payload"
    BY <1>2, <1>3 DEF PushPayload, Return
  <2>2. FrameInv
    BY <1>3 DEF MessageInv
  <2>3. bytes_consumed' \in Nat /\ (fphase' # "failed" =>
                                      bytes_consumed' = fpos' /\ checksum_engine' = fpos')
    <3>1. CASE fphase' = "failed"
      BY <1>2, <2>2, <3>1 DEF PushPayload, FrameInv
    <3>2. CASE fphase' # "failed"
      <4>1. fphase # "failed"
        BY <1>3 DEF MessageInv, CallerInv, PushPayload
      <4>2. bytes_consumed = fpos /\ checksum_engine = fpos
        BY <1>2, <2>2, <4>1 DEF FrameInv
      <4>3. /\ bytes_consumed' = bytes_consumed + (fpos' - fpos)
            /\ checksum_engine' = checksum_engine + (fpos' - fpos)
        BY <1>3, <3>2 DEF PushPayload
      <4>4. fpos \in 0..part.len /\ part.len \in Nat
        BY DEF MessageInv, PartInv
      <4>5. fpos' \in Nat /\ fpos + (fpos' - fpos) = fpos'
        <5>1. fpos' \in fpos..part.len
          BY <1>1
        <5>. QED
          BY <4>4, <5>1, Advance
      <4>. QED
        BY <4>2, <4>3, <4>5
    <3>. QED
      BY <3>1, <3>2
  <2>4. FrameInv'
    BY <1>1, <1>2, <2>1, <2>2, <2>3 DEF FrameInv
  <2>. QED
    BY <1>1, <1>2, <1>3, <2>4, ReturnShows
<1>. QED
  BY <1>1, <1>3 DEF MessageInv

LEMMA EndStep ==
  ASSUME MessageInv, End
  PROVE  MessageInv'
<1>1. UNCHANGED <<version, wire, state, part, fpos, fphase, flimit, inner, payload_len,
                  bytes_consumed, checksum_engine, pc, rest, pos, limit>>
  BY DEF End, input, decoder, payload
<1>2. phase' = IF Accepts THEN "ok" ELSE "err"
  BY DEF End
<1>3. PartInv'
  BY <1>1 DEF MessageInv, PartInv
<1>4. ASSUME version = 1 PROVE FrameInv' /\ CallerInv'
  <2>1. FrameInv'
    BY <1>1, <1>4 DEF MessageInv, FrameInv
  <2>2. pc = "idle" /\ fphase # "failed"
    BY <1>4 DEF MessageInv, CallerInv, End
  <2>3. phase' = "ok" => Accepts'
    BY <1>1, <1>2 DEF Accepts
  <2>. QED
    BY <1>1, <1>4, <2>1, <2>2, <2>3 DEF MessageInv, CallerInv
<1>. QED
  BY <1>1, <1>3, <1>4 DEF MessageInv

LEMMA Unchanged ==
  ASSUME MessageInv, UNCHANGED vars
  PROVE  MessageInv'
BY DEF MessageInv, PartInv, FrameInv, CallerInv, Accepts, vars, input, decoder, payload, seen

LEMMA Preserved == MessageInv /\ [MessageNext]_vars => MessageInv'
<1>. SUFFICES ASSUME MessageInv, [MessageNext]_vars PROVE MessageInv'
  OBVIOUS
<1>1. ASSUME NEW n \in 0..(Total - pos + 1), PushCall(n) PROVE MessageInv'
  <2>1. n \in Nat
    BY <1>1
  <2>. QED
    BY <1>1, <2>1, PushCallStep
<1>2. CASE PushPart
  BY <1>2, PushPartStep
<1>3. CASE EndPart
  BY <1>3, EndPartStep
<1>4. CASE AfterHeader
  BY <1>4, AfterHeaderStep
<1>5. CASE AfterShortId
  BY <1>5, AfterShortIdStep
<1>6. CASE AfterCommandString
  BY <1>6, AfterCommandStringStep
<1>7. CASE PushPayload
  BY <1>7, PushPayloadStep
<1>8. CASE End
  BY <1>8, EndStep
<1>9. CASE Returned \/ UNCHANGED vars
  BY <1>9, Unchanged DEF Returned
<1>. QED
  BY <1>1, <1>2, <1>3, <1>4, <1>5, <1>6, <1>7, <1>8, <1>9 DEF MessageNext

-----------------------------------------------------------------------------
\* The invariant the properties below follow from: the two counters of a V1 payload
\* stand where its decoder stands, in a frame of the length the header announced.
THEOREM MessageInvariant == MessageSpec => []MessageInv
<1>1. MessageInv /\ [MessageNext]_vars => MessageInv'
  BY Preserved
<1>. QED
  BY <1>1, InitEstablishes, PTL DEF MessageSpec

\* read_limit of V1NetworkMessageDecoder never leads a reader behind the frame the
\* header announces, whatever the decoder of the payload would take.
THEOREM NoOverread == MessageSpec => []FrameIsNotOverread
<1>1. MessageInv => FrameIsNotOverread
  BY DEF MessageInv, CallerInv, FrameIsNotOverread
<1>. QED
  BY <1>1, MessageInvariant, PTL

\* end of V1NetworkMessageDecoder returns a message only when exactly the announced
\* bytes were consumed and all of them, and no others, were hashed.
THEOREM ExactlyTheFrame == MessageSpec => []AcceptedIsTheFrame
<1>1. MessageInv => AcceptedIsTheFrame
  <2>. SUFFICES ASSUME MessageInv, version = 1, phase = "ok"
                PROVE  /\ wire.declared <= MAX_MSG_SIZE
                       /\ pos = HeaderLen + wire.declared
                       /\ checksum_engine = wire.declared /\ wire.sum = wire.declared
    BY DEF AcceptedIsTheFrame
  <2>1. Accepts /\ FrameInv
    BY DEF MessageInv, CallerInv
  <2>2. pc = "idle" /\ fphase # "failed"
    BY DEF MessageInv, CallerInv
  <2>3. /\ part.before = HeaderLen /\ wire.declared <= MAX_MSG_SIZE
        /\ payload_len = <<wire.declared>> /\ checksum_engine = wire.sum
        /\ bytes_consumed = fpos /\ checksum_engine = fpos
    BY <2>1, <2>2 DEF FrameInv, Accepts
  <2>4. bytes_consumed = wire.declared
    BY <2>1, <2>3 DEF Accepts
  <2>5. pos = part.before + fpos
    BY <2>2 DEF MessageInv, CallerInv
  <2>. QED
    BY <2>3, <2>4, <2>5
<1>. QED
  BY <1>1, MessageInvariant, PTL

-----------------------------------------------------------------------------
(* The tables of names.                                                    *)

\* A message with a short id is read back by the decoder of its name.
LEMMA ShortIdsAgree ==
  /\ \A c \in Typed \cup Empties :
       \/ /\ v2_command_byte(c) \in 1..28
          /\ payload_decoder_from_short_id(v2_command_byte(c))
               = Inner(IF c \in Empties THEN "Empty" ELSE c, c)
       \/ /\ v2_command_byte(c) = 0
          /\ payload_decoder_from_command(c) = Inner(IF c \in Empties THEN "Empty" ELSE c, c)
  /\ v2_command_byte("unknown") = 0
BY DEF Typed, Empties, v2_command_byte, payload_decoder_from_short_id, payload_decoder_from_command,
   Inner

LEMMA ShortIdDecoders ==
  \A id \in 1..28 : payload_decoder_from_short_id(id).decoder \in Typed \cup {"Empty"}
BY DEF Typed, Empties, payload_decoder_from_short_id, Inner

\* What can be on the wire.
WireOK(w) ==
  /\ w.id \in Nat /\ w.isAscii \in BOOLEAN
  /\ w.declared \in Nat /\ w.sum \in Nat /\ w.need \in Nat
  /\ w.verdict \in D!Verdicts
  /\ w.need = 0 => w.verdict = "ok"

LEMMA WiresOK == \A v \in {1, 2} : \A w \in Wires(v) : WireOK(w)
<1>. SUFFICES ASSUME NEW v \in {1, 2}, NEW w \in Wires(v) PROVE WireOK(w)
  OBVIOUS
<1>1. CASE \E m \in Messages : w = Encode(m)
  <2>1. PICK m \in Messages : w = Encode(m)
    BY <1>1
  <2>2. m.size \in Nat /\ m.name \in Typed \cup Empties \cup {"unknown"}
    BY MessageAssumption DEF Messages, Message
  <2>3. v2_command_byte(m.name) \in Nat
    BY <2>2, ShortIdsAgree
  <2>. QED
    BY <2>1, <2>2, <2>3 DEF Encode, Wire, WireOK, D!Verdicts
<1>2. CASE w \in Forgeries(v)
  BY <1>2, MessageAssumption DEF Forgeries, Wire, WireOK, D!Verdicts
<1>. QED
  BY <1>1, <1>2 DEF Wires

\* A whole message.
LEMMA WholeMessage ==
  ASSUME version \in {1, 2}, wire \in Wires(version)
  PROVE  /\ WireOK(wire) /\ Prefix \in Nat /\ Prefix > 0 /\ Total \in Nat /\ Prefix <= Total
         /\ Expected(Variant) \in Nat
         /\ ~BadPrefix => Variant.decoder \in Typed \cup {"Empty", "Unknown"}
         /\ ~BadPrefix => Total = Prefix + Expected(Variant)
         /\ Expected(Variant) = 0 /\ Variant.decoder \in Typed => wire.verdict = "ok"
<1>1. WireOK(wire)
  BY WiresOK
<1>2. Prefix \in Nat /\ Prefix > 0
  BY MessageAssumption DEF Prefix
<1>3. Expected(Variant) \in Nat
  BY <1>1 DEF Expected, WireOK
<1>4. Total \in Nat /\ Prefix <= Total /\ (~BadPrefix => Total = Prefix + Expected(Variant))
  BY <1>2, <1>3 DEF Total
<1>5. ASSUME ~BadPrefix PROVE Variant.decoder \in Typed \cup {"Empty", "Unknown"}
  <2>1. CASE version = 1
    BY <2>1 DEF Variant, DecoderOf, Inner
  <2>2. CASE version = 2 /\ wire.id = 0
    BY <2>2 DEF Variant, payload_decoder_from_command, Inner, Typed
  <2>3. CASE version = 2 /\ wire.id # 0
    <3>1. wire.id \in 1..28
      BY <1>1, <1>5, <2>3 DEF BadPrefix, WireOK
    <3>2. Variant = payload_decoder_from_short_id(wire.id)
      BY <2>3 DEF Variant
    <3>. QED
      BY <3>1, <3>2, ShortIdDecoders
  <2>. QED
    BY <2>1, <2>2, <2>3
<1>6. ASSUME Expected(Variant) = 0, Variant.decoder \in Typed PROVE wire.verdict = "ok"
  <2>1. Expected(Variant) = wire.need
    BY <1>6 DEF Expected, Typed
  <2>. QED
    BY <1>1, <1>6, <2>1 DEF WireOK
<1>. QED
  BY <1>1, <1>2, <1>3, <1>4, <1>5, <1>6

-----------------------------------------------------------------------------
(* The invariant of the whole message, for both versions.                  *)

Fronts == {"Header", "ShortId", "CommandString"}
Before(s) == IF s \in {"Header", "ShortId"} THEN 0 ELSE IF s = "CommandString" THEN 1 ELSE Prefix

\* The part at hand is the one the wire has at this place.
PlaceInv ==
  /\ version \in {1, 2} /\ wire \in Wires(version)
  /\ state \in IF version = 1 THEN {"Header", "Payload"}
               ELSE {"ShortId", "CommandString", "Payload", "Errored"}
  /\ state # "Errored" => part = PartOf(state, Before(state), inner)
  /\ state = "CommandString" => wire.id = 0
  /\ state = "Payload" =>
       ~BadPrefix /\ inner = Variant
       /\ payload_len = IF version = 1 THEN <<wire.declared>> ELSE <<>>
  /\ inner = None \/ inner.decoder \in Typed \cup {"Empty", "Unknown"}

\* Its decoder keeps the contract, and is in the phase the running call takes it to be in.
PhaseInv ==
  /\ D!DecoderInv /\ fphase \in D!Phases
  /\ pc \in {"idle", "push", "end", "next"}
  /\ state = "Payload" =>
       /\ fphase \in {"more", "ready", "failed"}
       /\ fphase # "failed" => bytes_consumed = fpos /\ (version = 1 => checksum_engine = fpos)
  /\ pc = "push" => fphase = "more" \/ (fphase = "ready" /\ state = "Payload")
  /\ pc = "end" => fphase = "ready" /\ state \in Fronts
  /\ pc = "next" => fphase = "ok" /\ state \in Fronts
  /\ pc = "push" => state # "Errored"

\* A decoder whose last call has returned stands where the caller was told.
Stands ==
  /\ fphase = phase /\ pos = part.before + fpos /\ limit = read_limit
  /\ state # "Errored"
  /\ phase = "more" => fpos < part.len
  /\ phase = "ready" => state = "Payload"

SeenInv ==
  /\ phase \in D!Phases /\ rest \in 0..(Total + 1)
  /\ pos \in Nat /\ pos <= part.before + fpos
  /\ pc = "idle" /\ phase \in {"more", "ready"} => Stands
  /\ pc # "idle" => phase \in {"more", "ready"}
  /\ phase = "more" => pos < Total
  /\ phase = "ready" => fphase = "ready" /\ pos = part.before + fpos /\ state = "Payload"
  /\ phase = "ok" => Accepts /\ fphase # "failed"

WholeInv == PartInv /\ PlaceInv /\ PhaseInv /\ SeenInv

\* The part at hand lies in the message, and the payload is the end of it.
LEMMA PartFits ==
  ASSUME PartInv, PlaceInv, state # "Errored"
  PROVE  /\ part.before + part.len \in Nat /\ part.before + part.len <= Total
         /\ part.before + fpos \in Nat /\ part.before + fpos <= Total
         /\ part.len = 0 => part.verdict = "ok"
         /\ part.verdict \in D!Verdicts
         /\ state \in Fronts => part.len > 0
         /\ state = "Payload" => part.before + part.len = Total /\ part.before = Prefix
         /\ state = "Payload" => part.len = Expected(Variant)
         /\ state = "Payload" =>
              part.verdict = IF Variant.decoder \in Typed THEN wire.verdict ELSE "ok"
         /\ state = "Payload" /\ inner.decoder = "Unknown" => part.verdict = "ok"
<1>1. /\ version \in {1, 2} /\ wire \in Wires(version)
      /\ part = PartOf(state, Before(state), inner)
      /\ part.len \in Nat /\ fpos \in Nat /\ fpos <= part.len /\ part.before \in Nat
  BY DEF PlaceInv, PartInv
<1>2. /\ WireOK(wire) /\ Prefix \in Nat /\ Prefix > 0 /\ Total \in Nat /\ Prefix <= Total
      /\ ~BadPrefix => Total = Prefix + Expected(Variant)
      /\ Expected(Variant) = 0 /\ Variant.decoder \in Typed => wire.verdict = "ok"
  BY <1>1, WholeMessage
<1>3. CASE state = "Header"
  <2>1. /\ part.before = 0 /\ part.len = HeaderLen /\ Prefix = HeaderLen /\ HeaderLen > 0
        /\ part.verdict \in {"ok", "badpush"}
    BY <1>1, <1>3, MessageAssumption DEF PlaceInv, PartOf, Part, Before, Prefix
  <2>. QED
    BY <1>1, <1>2, <1>3, <2>1 DEF Fronts, D!Verdicts
<1>4. CASE state = "ShortId"
  <2>1. part.before = 0 /\ part.len = 1 /\ part.verdict = "ok"
    BY <1>1, <1>4 DEF PartOf, Part, Before
  <2>. QED
    BY <1>1, <1>2, <1>4, <2>1 DEF Fronts, D!Verdicts
<1>5. CASE state = "CommandString"
  <2>1. /\ part.before = 1 /\ part.len = CommandLen /\ Prefix = 1 + CommandLen /\ CommandLen > 0
        /\ part.verdict \in {"ok", "badend"}
    BY <1>1, <1>5, MessageAssumption DEF PlaceInv, PartOf, Part, Before, Prefix
  <2>. QED
    BY <1>1, <1>2, <1>5, <2>1 DEF Fronts, D!Verdicts
<1>6. CASE state = "Payload"
  <2>1. /\ part.before = Prefix /\ part.len = Expected(Variant) /\ ~BadPrefix /\ inner = Variant
        /\ part.verdict = IF Variant.decoder \in Typed THEN wire.verdict ELSE "ok"
    BY <1>1, <1>6 DEF PlaceInv, PartOf, Part, Before
  <2>2. part.verdict \in D!Verdicts /\ (part.len = 0 => part.verdict = "ok")
    BY <1>2, <2>1 DEF WireOK, D!Verdicts
  <2>3. inner.decoder = "Unknown" => part.verdict = "ok"
    BY <2>1 DEF Typed
  <2>. QED
    BY <1>1, <1>2, <1>6, <2>1, <2>2, <2>3 DEF Fronts
<1>. QED
  BY <1>3, <1>4, <1>5, <1>6 DEF PlaceInv

LEMMA WholeInit == Init => WholeInv
<1>. SUFFICES ASSUME Init PROVE WholeInv
  OBVIOUS
<1>1. PartInv
  BY InitEstablishes DEF MessageInv
<1>2. /\ version \in {1, 2} /\ wire \in Wires(version) /\ inner = None /\ pc = "idle" /\ rest = 0
      /\ state = IF version = 1 THEN "Header" ELSE "ShortId"
      /\ part = PartOf(state, 0, None) /\ fpos = 0 /\ fphase = "more" /\ flimit \in D!Limits(0)
      /\ phase = "more" /\ pos = 0 /\ limit = read_limit
  BY DEF Init, D!Fresh
<1>3. PlaceInv
  BY <1>2 DEF PlaceInv, Before
<1>4. /\ part.before = 0 /\ part.len > 0 /\ part.len \in Nat /\ Total \in Nat /\ part.len <= Total
  <2>1. state \in Fronts /\ state # "Errored" /\ part.before = 0
    BY <1>2 DEF Fronts, PartOf, Part
  <2>. QED
    BY <1>1, <1>2, <1>3, <2>1, PartFits, WholeMessage DEF PartInv
<1>5. PhaseInv
  BY <1>2, <1>4 DEF PhaseInv, D!DecoderInv, D!Phases
<1>6. SeenInv
  BY <1>2, <1>4 DEF SeenInv, Stands, D!Phases
<1>. QED
  BY <1>1, <1>3, <1>5, <1>6 DEF WholeInv

-----------------------------------------------------------------------------
(* Every action keeps it.                                                  *)

LEMMA TotalStays == UNCHANGED input => Total' = Total /\ Prefix' = Prefix /\ BadPrefix' = BadPrefix
                                       /\ Variant' = Variant /\ MessageVerdict' = MessageVerdict
BY DEF input, Total, Prefix, BadPrefix, Variant, MessageVerdict, Expected

\* What a push leaves of the decoder of the part at hand.
LEMMA DecoderPush ==
  ASSUME PartInv, D!DecoderInv, fphase \in {"more", "ready"}, rest \in Nat, D!Push(rest),
         part' = part
  PROVE  /\ D!DecoderInv' /\ fphase' \in {"more", "ready", "failed"}
         /\ fpos' \in fpos..part.len
         /\ fphase' = "more" => fpos' < part.len
         /\ fphase' = "ready" => fpos' = part.len
         /\ \E c \in Nat : fpos' = fpos + c /\ c <= rest /\ rest - (fpos' - fpos) = rest - c
<1>1. /\ part.len \in Nat /\ fpos \in 0..part.len /\ fpos \in Nat
  BY DEF PartInv
<1>2. CASE fphase = "ready"
  <2>1. fpos' = fpos /\ fphase' = "ready" /\ flimit' \in D!Limits(fpos) /\ fpos = part.len
        /\ part.verdict # "badpush"
    BY <1>2 DEF D!Push, D!DecoderInv
  <2>2. D!DecoderInv'
    BY <1>1, <2>1 DEF D!DecoderInv, D!Limits
  <2>3. fpos' = fpos + 0 /\ 0 <= rest /\ rest - (fpos' - fpos) = rest - 0
    BY <1>1, <2>1
  <2>. QED
    BY <1>1, <2>1, <2>2, <2>3
<1>3. CASE fphase = "more"
  <2>1. PICK c \in D!Takes(rest) : fpos' = fpos + c
    BY <1>3 DEF D!Push
  <2>2. c \in Nat /\ c <= rest /\ fpos + c <= part.len
    BY <1>1, <2>1 DEF D!Takes, D!Lesser
  <2>3. /\ fphase' \in D!Settle(fpos')
        /\ flimit' \in IF fphase' = "failed" THEN {0} ELSE D!Limits(fpos')
    BY <1>3 DEF D!Push
  <2>4. /\ fphase' \in {"more", "ready", "failed"}
        /\ fphase' = "more" => fpos' < part.len
        /\ fphase' = "ready" => fpos' = part.len /\ part.verdict # "badpush"
        /\ fphase' = "failed" => part.verdict = "badpush"
    BY <1>1, <2>1, <2>2, <2>3 DEF D!Settle
  <2>5. D!DecoderInv'
    BY <1>1, <2>1, <2>2, <2>3, <2>4 DEF D!DecoderInv, D!Limits
  <2>6. fpos' \in fpos..part.len /\ rest - (fpos' - fpos) = rest - c
    BY <1>1, <2>1, <2>2
  <2>. QED
    BY <2>1, <2>2, <2>4, <2>5, <2>6
<1>. QED
  BY <1>2, <1>3

\* The buffer of an Unknown is a decoder of the contract too.
LEMMA UnknownIsDecoder ==
  ASSUME PartInv, D!DecoderInv, fphase \in {"more", "ready"}, part.verdict = "ok", part' = part,
         PushUnknown
  PROVE  D!Push(rest)
<1>1. part.len \in Nat /\ fpos \in Nat /\ fpos <= part.len /\ rest \in Nat
  BY DEF PartInv
<1>. DEFINE c == D!Lesser(rest, part.len - fpos)
<1>2. /\ c \in Nat /\ c <= rest /\ fpos + c <= part.len
      /\ c > 0 \/ rest = 0 \/ fpos = part.len
      /\ fpos = part.len => c = 0
  BY <1>1 DEF D!Lesser
<1>3. c \in D!Takes(rest)
  BY <1>1 DEF D!Takes, D!Lesser
<1>. HIDE DEF c
<1>4. fpos' = fpos + c /\ flimit' = part.len - fpos' /\ fphase' = IF flimit' > 0 THEN "more" ELSE "ready"
  BY DEF PushUnknown, c
<1>5. PICK p \in Nat : p = fpos + c /\ p <= part.len /\ fpos' = p
  BY <1>1, <1>2, <1>4
<1>6. flimit' \in D!Limits(p) /\ fphase' = IF p < part.len THEN "more" ELSE "ready"
  BY <1>1, <1>4, <1>5 DEF D!Limits
<1>7. fphase' \in D!Settle(p) /\ (p = part.len => fphase' = "ready")
  BY <1>1, <1>5, <1>6 DEF D!Settle
<1>8. fphase = "ready" => fpos' = fpos /\ fphase' = "ready"
  BY <1>1, <1>2, <1>5, <1>7 DEF D!DecoderInv
<1>9. fphase' # "failed"
  BY <1>6
<1>. QED
  BY <1>3, <1>4, <1>5, <1>6, <1>7, <1>8, <1>9 DEF D!Push

LEMMA Fits ==
  PartInv /\ PlaceInv /\ state # "Errored" =>
    /\ part.before + part.len \in Nat /\ part.before + part.len <= Total
    /\ part.before + fpos \in Nat
    /\ part.len = 0 => part.verdict = "ok"
BY PartFits

\* A call that returns.
LEMMA ReturnKeeps ==
  ASSUME PartInv', PlaceInv', Total \in Nat, UNCHANGED input, rest' \in 0..(Total + 1),
         NEW answer \in {"more", "ready", "failed"}, Return(answer),
         answer # "failed" =>
           fphase' = answer /\ state' # "Errored" /\ (answer = "more" => fpos' < part'.len)
           /\ (answer = "ready" => state' = "Payload")
  PROVE  SeenInv'
<1>1. pc' = "idle" /\ phase' = answer /\ pos' = part'.before + fpos' /\ limit' = read_limit'
  BY DEF Return
<1>2. part'.before \in Nat /\ part'.len \in Nat /\ fpos' \in Nat /\ Total' = Total
  BY TotalStays DEF PartInv
<1>3. (PartInv /\ PlaceInv /\ state # "Errored" =>
        /\ part.before + part.len \in Nat /\ part.before + part.len <= Total
        /\ part.before + fpos \in Nat
        /\ part.len = 0 => part.verdict = "ok")'
  BY Fits, PTL
<1>4. phase' = "more" => pos' < Total
  BY <1>1, <1>2, <1>3
<1>5. pos' \in Nat /\ pos' <= part'.before + fpos'
  BY <1>1, <1>2
<1>6. phase' \in {"more", "ready"} => Stands'
  BY <1>1 DEF Stands
<1>. QED
  BY <1>1, <1>2, <1>4, <1>5, <1>6 DEF SeenInv, D!Phases

\* A step within a call.
LEMMA GoOnKeeps ==
  ASSUME SeenInv, UNCHANGED input, NEW where, where # "idle", GoOn(where), phase = "more",
         rest' \in 0..(Total + 1), pos <= part'.before + fpos'
  PROVE  SeenInv'
BY TotalStays DEF SeenInv, GoOn, seen

LEMMA PushCallWhole ==
  ASSUME MessageInv, WholeInv, NEW n \in 0..(Total - pos + 1), PushCall(n)
  PROVE  WholeInv'
<1>1. /\ phase \in {"more", "ready"} /\ Stands /\ pc = "idle" /\ n \in Nat /\ Total \in Nat
      /\ pos \in Nat
  BY WholeMessage DEF PushCall, WholeInv, SeenInv, PlaceInv
<1>2. UNCHANGED <<input, state, part, decoder, payload>> /\ rest' = n /\ pc' = "push" /\ UNCHANGED seen
  BY DEF PushCall, GoOn
<1>3. PartInv'
  BY <1>1, PushCallStep DEF MessageInv
<1>4. PlaceInv'
  BY <1>2 DEF WholeInv, PlaceInv, PartOf, Part, Before, Expected, Prefix, BadPrefix, Variant, input,
     payload
<1>5. PhaseInv'
  BY <1>1, <1>2 DEF WholeInv, PhaseInv, Stands, D!DecoderInv, D!Limits, decoder, payload, input
<1>6. SeenInv'
  <2>1. n \in 0..(Total + 1)
    BY <1>1
  <2>2. Total' = Total
    BY <1>2, TotalStays
  <2>. QED
    BY <1>1, <1>2, <2>1, <2>2 DEF WholeInv, SeenInv, Stands, seen, decoder
<1>. QED
  BY <1>3, <1>4, <1>5, <1>6 DEF WholeInv

LEMMA PushPartWhole ==
  ASSUME MessageInv, WholeInv, PushPart
  PROVE  WholeInv'
<1>1. /\ pc = "push" /\ state \in Fronts /\ UNCHANGED <<input, state, part, payload>>
      /\ D!Push(rest) /\ rest' = rest - (fpos' - fpos)
      /\ IF fphase' = "ready" THEN GoOn("end") ELSE Return(fphase')
      /\ fphase = "more" /\ phase = "more" /\ state # "Payload" /\ state # "Errored"
  BY DEF PushPart, WholeInv, PhaseInv, SeenInv, Fronts
<1>2. /\ PartInv /\ PlaceInv /\ SeenInv /\ D!DecoderInv /\ Total \in Nat /\ rest \in 0..(Total + 1)
      /\ rest \in Nat /\ fpos \in Nat /\ part.before \in Nat /\ part.len \in Nat
      /\ pos \in Nat /\ pos <= part.before + fpos
  BY WholeMessage DEF WholeInv, PhaseInv, PlaceInv, PartInv, SeenInv
<1>3. /\ D!DecoderInv' /\ fphase' \in {"more", "ready", "failed"} /\ fpos' \in fpos..part.len
      /\ fphase' = "more" => fpos' < part.len
      /\ fphase' = "ready" => fpos' = part.len
  BY <1>1, <1>2, DecoderPush
<1>4. rest' \in 0..(Total + 1)
  <2>1. PICK c \in Nat : c <= rest /\ rest - (fpos' - fpos) = rest - c
    BY <1>1, <1>2, DecoderPush
  <2>. QED
    BY <1>1, <1>2, <2>1
<1>5. PartInv'
  BY <1>1, PushPartStep DEF MessageInv
<1>6. PlaceInv'
  BY <1>1, <1>2 DEF PlaceInv, PartOf, Part, Before, Expected, Prefix, BadPrefix, Variant, input,
     payload
<1>7. PhaseInv'
  BY <1>1, <1>3 DEF PhaseInv, D!Phases, GoOn, Return
<1>8. SeenInv'
  <2>1. CASE fphase' = "ready"
    <3>1. pos <= part'.before + fpos'
      BY <1>1, <1>2, <1>3
    <3>. QED
      BY <1>1, <1>2, <1>4, <2>1, <3>1, GoOnKeeps
  <2>2. CASE fphase' # "ready"
    BY <1>1, <1>2, <1>3, <1>4, <1>5, <1>6, <2>2, ReturnKeeps
  <2>. QED
    BY <2>1, <2>2
<1>. QED
  BY <1>5, <1>6, <1>7, <1>8 DEF WholeInv

LEMMA EndPartWhole ==
  ASSUME MessageInv, WholeInv, EndPart
  PROVE  WholeInv'
<1>1. /\ pc = "end" /\ state \in Fronts /\ UNCHANGED <<input, part, payload, rest, fpos, flimit>>
      /\ fphase' = IF fpos = part.len /\ part.verdict = "ok" THEN "ok" ELSE "err"
      /\ fphase = "ready" /\ phase = "more" /\ state # "Payload" /\ state # "Errored"
      /\ fphase' = "ok" => GoOn("next") /\ state' = state
      /\ fphase' = "err" => /\ Return("failed")
                            /\ state' = IF version = 1 THEN state ELSE "Errored"
  BY DEF EndPart, D!End, WholeInv, PhaseInv, SeenInv, Fronts
<1>2. /\ PartInv /\ PlaceInv /\ SeenInv /\ D!DecoderInv /\ Total \in Nat /\ rest \in 0..(Total + 1)
      /\ pos <= part.before + fpos
  BY WholeMessage DEF WholeInv, PhaseInv, PlaceInv, PartInv, SeenInv
<1>3. PartInv'
  BY EndPartStep DEF MessageInv
<1>4. PlaceInv'
  BY <1>1, <1>2 DEF PlaceInv, PartOf, Part, Before, Expected, Prefix, BadPrefix, Variant, input,
     payload, Fronts
<1>5. D!DecoderInv'
  BY <1>1, <1>2 DEF D!DecoderInv
<1>6. PhaseInv'
  BY <1>1, <1>5 DEF PhaseInv, D!Phases, GoOn, Return
<1>7. SeenInv'
  <2>1. CASE fphase' = "ok"
    BY <1>1, <1>2, <2>1, GoOnKeeps
  <2>2. CASE fphase' = "err"
    BY <1>1, <1>2, <1>3, <1>4, <2>2, ReturnKeeps
  <2>. QED
    BY <1>1, <2>1, <2>2
<1>. QED
  BY <1>3, <1>4, <1>6, <1>7 DEF WholeInv

LEMMA FailWhole ==
  ASSUME MessageInv, WholeInv, MessageInv', Fail, UNCHANGED input, rest' = rest, pc = "next",
         state \in {"Header", "ShortId"}
  PROVE  WholeInv'
<1>1. /\ state' = (IF version = 1 THEN state ELSE "Errored") /\ Return("failed")
      /\ UNCHANGED <<part, decoder, payload, input, rest>> /\ fphase = "ok"
      /\ state # "Payload" /\ state # "Errored"
  BY DEF Fail, WholeInv, PhaseInv
<1>2. /\ PartInv /\ PlaceInv /\ SeenInv /\ D!DecoderInv /\ Total \in Nat /\ rest \in 0..(Total + 1)
  BY WholeMessage DEF WholeInv, PhaseInv, PlaceInv, PartInv, SeenInv
<1>3. PartInv'
  BY DEF MessageInv
<1>4. PlaceInv'
  BY <1>1, <1>2 DEF PlaceInv, PartOf, Part, Before, Expected, Prefix, BadPrefix, Variant, input,
     payload
<1>5. D!DecoderInv'
  BY <1>1, <1>2 DEF D!DecoderInv, decoder
<1>6. PhaseInv'
  BY <1>1, <1>5 DEF PhaseInv, D!Phases, Return, decoder
<1>7. SeenInv'
  BY <1>1, <1>2, <1>3, <1>4, ReturnKeeps
<1>. QED
  BY <1>3, <1>4, <1>6, <1>7 DEF WholeInv

\* A new part begins where the one before it ends.
LEMMA EnterWhole ==
  ASSUME MessageInv, WholeInv, MessageInv', NEW next \in {"CommandString", "Payload"}, NEW i,
         Enter(next, i), UNCHANGED input, rest' = rest, pc = "next", state \in Fronts,
         PlaceInv', inner' = IF next = "Payload" THEN i ELSE inner,
         next = "Payload" => bytes_consumed' = 0 /\ checksum_engine' = 0
  PROVE  WholeInv'
<1>1. /\ fphase = "ok" /\ phase = "more" /\ fpos = part.len /\ state # "Payload"
      /\ PartInv /\ SeenInv /\ Total \in Nat /\ rest \in 0..(Total + 1)
      /\ pos \in Nat /\ pos <= part.before + fpos /\ part.before \in Nat /\ part.len \in Nat
  BY WholeMessage DEF WholeInv, PhaseInv, PlaceInv, PartInv, SeenInv, D!DecoderInv, Fronts
<1>2. /\ state' = next /\ part' = PartOf(next, part.before + part.len, i)
      /\ fpos' = 0 /\ fphase' = "more" /\ GoOn("push") /\ pc' = "push"
      /\ IF i.decoder = "Unknown" THEN flimit' = part'.len ELSE flimit' \in D!Limits(0)'
  BY DEF Enter, GoOn
<1>3. PartInv' /\ part'.before = part.before + part.len /\ part'.len \in Nat
  BY <1>1, <1>2, Entered DEF PartInv
<1>4. flimit' \in IF part'.len = 0 THEN {0} ELSE 1..(part'.len - 0)
  BY <1>2, <1>3 DEF D!Limits
<1>5. (PartInv /\ PlaceInv /\ state # "Errored" =>
        /\ part.before + part.len \in Nat /\ part.before + part.len <= Total
        /\ part.before + fpos \in Nat
        /\ part.len = 0 => part.verdict = "ok")'
  BY Fits, PTL
<1>6. D!DecoderInv'
  BY <1>2, <1>3, <1>4, <1>5 DEF D!DecoderInv, D!Limits
<1>7. PhaseInv'
  BY <1>2, <1>6 DEF PhaseInv, D!Phases
<1>8. SeenInv'
  <2>1. pos <= part'.before + fpos'
    BY <1>1, <1>2, <1>3
  <2>. QED
    BY <1>1, <1>2, <2>1, GoOnKeeps
<1>. QED
  BY <1>3, <1>7, <1>8 DEF WholeInv

LEMMA AfterHeaderWhole ==
  ASSUME MessageInv, WholeInv, MessageInv', AfterHeader
  PROVE  WholeInv'
<1>1. UNCHANGED input /\ rest' = rest /\ state = "Header" /\ pc = "next" /\ state \in Fronts
  BY DEF AfterHeader, Next, Fronts
<1>2. CASE wire.declared > MAX_MSG_SIZE
  BY <1>1, <1>2, FailWhole DEF AfterHeader
<1>3. CASE ~(wire.declared > MAX_MSG_SIZE)
  <2>. DEFINE i == DecoderOf(wire.command)
  <2>1. EnterPayload(i, <<wire.declared>>)
    BY <1>3 DEF AfterHeader
  <2>2. Enter("Payload", i) /\ inner' = i /\ payload_len' = <<wire.declared>> /\ bytes_consumed' = 0
        /\ checksum_engine' = 0
    BY <2>1 DEF EnterPayload
  <2>3. /\ version = 1 /\ part = PartOf("Header", 0, inner) /\ D!DecoderInv /\ fphase = "ok"
        /\ wire \in Wires(version)
    BY <1>1 DEF WholeInv, PlaceInv, PhaseInv, Before
  <2>4. part.before = 0 /\ part.len = HeaderLen /\ part.verdict = "ok" /\ wire.isAscii
    BY <2>3 DEF PartOf, Part, D!DecoderInv
  <2>5. ~BadPrefix /\ Variant = i /\ Prefix = HeaderLen /\ part.before + part.len = Prefix
    BY <1>3, <2>3, <2>4, MessageAssumption DEF BadPrefix, Variant, Prefix
  <2>6. Variant.decoder \in Typed \cup {"Empty", "Unknown"}
    BY <2>3, <2>5, WholeMessage
  <2>7. PlaceInv'
    <3>1. part' = PartOf("Payload", Prefix, i) /\ state' = "Payload"
      BY <2>2, <2>5 DEF Enter
    <3>2. part' = PartOf("Payload", Prefix, i)'
      BY <1>1, <3>1 DEF PartOf, Part, Expected, Prefix, input, DecoderOf
    <3>. QED
      BY <1>1, <2>2, <2>3, <2>5, <2>6, <3>1, <3>2, TotalStays DEF PlaceInv, Before, input
  <2>. HIDE DEF i
  <2>. QED
    BY <1>1, <2>2, <2>7, EnterWhole
<1>. QED
  BY <1>2, <1>3

LEMMA AfterShortIdWhole ==
  ASSUME MessageInv, WholeInv, MessageInv', AfterShortId
  PROVE  WholeInv'
<1>1. UNCHANGED input /\ rest' = rest /\ state = "ShortId" /\ pc = "next" /\ state \in Fronts
  BY DEF AfterShortId, Next, Fronts
<1>2. /\ version = 2 /\ part = PartOf("ShortId", 0, inner) /\ wire \in Wires(version)
      /\ inner = None \/ inner.decoder \in Typed \cup {"Empty", "Unknown"}
  BY <1>1 DEF WholeInv, PlaceInv, Before
<1>3. part.before = 0 /\ part.len = 1
  BY <1>2 DEF PartOf, Part
<1>4. CASE wire.id = 0 /\ Enter("CommandString", None) /\ UNCHANGED payload
  <2>1. part' = PartOf("CommandString", 1, None) /\ state' = "CommandString"
    BY <1>3, <1>4 DEF Enter
  <2>2. PlaceInv'
    BY <1>1, <1>2, <1>4, <2>1 DEF PlaceInv, PartOf, Part, Before, input, payload
  <2>. QED
    BY <1>1, <1>4, <2>2, EnterWhole DEF payload
<1>5. CASE /\ wire.id \in 1..28
           /\ EnterPayload(payload_decoder_from_short_id(wire.id), <<>>)
  <2>. DEFINE i == payload_decoder_from_short_id(wire.id)
  <2>1. Enter("Payload", i) /\ inner' = i /\ payload_len' = <<>> /\ bytes_consumed' = 0
        /\ checksum_engine' = 0
    BY <1>5 DEF EnterPayload
  <2>2. ~BadPrefix /\ Variant = i /\ Prefix = 1 /\ part.before + part.len = Prefix
    <3>1. wire.id # 0 /\ ~(wire.id > 28)
      <4>1. wire.id \in 1..28
        BY <1>5
      <4>. QED
        BY ONLY <4>1
    <3>2. Variant = i
      BY <1>2, <3>1 DEF Variant
    <3>. HIDE DEF i
    <3>. QED
      BY <1>2, <1>3, <3>1, <3>2 DEF BadPrefix, Prefix
  <2>3. Variant.decoder \in Typed \cup {"Empty", "Unknown"}
    BY <1>2, <2>2, WholeMessage
  <2>4. PlaceInv'
    <3>1. part' = PartOf("Payload", Prefix, i) /\ state' = "Payload"
      BY <2>1, <2>2 DEF Enter
    <3>2. part' = PartOf("Payload", Prefix, inner)'
      BY <1>1, <2>1, <3>1 DEF PartOf, Part, Expected, Prefix, input
    <3>. HIDE DEF i
    <3>. QED
      BY <1>1, <1>2, <2>1, <2>2, <2>3, <3>1, <3>2, TotalStays DEF PlaceInv, Before, input
  <2>. HIDE DEF i
  <2>. QED
    BY <1>1, <2>1, <2>4, EnterWhole
<1>6. CASE Fail
  BY <1>1, <1>6, FailWhole
<1>. QED
  BY <1>4, <1>5, <1>6 DEF AfterShortId

LEMMA AfterCommandStringWhole ==
  ASSUME MessageInv, WholeInv, MessageInv', AfterCommandString
  PROVE  WholeInv'
<1>1. UNCHANGED input /\ rest' = rest /\ state = "CommandString" /\ pc = "next" /\ state \in Fronts
  BY DEF AfterCommandString, Next, Fronts
<1>. DEFINE i == payload_decoder_from_command(wire.command)
<1>2. Enter("Payload", i) /\ inner' = i /\ payload_len' = <<>> /\ bytes_consumed' = 0
      /\ checksum_engine' = 0
  BY DEF AfterCommandString, EnterPayload
<1>3. /\ version = 2 /\ wire.id = 0 /\ part = PartOf("CommandString", 1, inner) /\ D!DecoderInv
      /\ fphase = "ok" /\ wire \in Wires(version)
  BY <1>1 DEF WholeInv, PlaceInv, PhaseInv, Before
<1>4. part.before = 1 /\ part.len = CommandLen /\ wire.isAscii
  BY <1>3 DEF PartOf, Part, D!DecoderInv
<1>5. ~BadPrefix /\ Variant = i /\ Prefix = 1 + CommandLen /\ part.before + part.len = Prefix
  BY <1>3, <1>4 DEF BadPrefix, Variant, Prefix
<1>6. Variant.decoder \in Typed \cup {"Empty", "Unknown"}
  BY <1>3, <1>5, WholeMessage
<1>7. PlaceInv'
  <2>1. part' = PartOf("Payload", Prefix, i) /\ state' = "Payload"
    BY <1>2, <1>5 DEF Enter
  <2>2. part' = PartOf("Payload", Prefix, inner)'
    BY <1>1, <1>2, <2>1 DEF PartOf, Part, Expected, Prefix, input
  <2>. HIDE DEF i
  <2>. QED
    BY <1>1, <1>2, <1>3, <1>5, <1>6, <2>1, <2>2, TotalStays DEF PlaceInv, Before, input
<1>. HIDE DEF i
<1>. QED
  BY <1>1, <1>2, <1>7, EnterWhole

LEMMA PushPayloadWhole ==
  ASSUME MessageInv, WholeInv, MessageInv', PushPayload
  PROVE  WholeInv'
<1>1. /\ pc = "push" /\ state = "Payload" /\ UNCHANGED <<input, part, inner, payload_len>>
      /\ rest' = rest - (fpos' - fpos) /\ Return(fphase')
      /\ fphase' = "failed" => state' = (IF version = 1 THEN state ELSE "Errored")
      /\ fphase' # "failed" =>
           /\ state' = state /\ bytes_consumed' = bytes_consumed + (fpos' - fpos)
           /\ checksum_engine' = IF version = 1 THEN checksum_engine + (fpos' - fpos) ELSE 0
      /\ fphase \in {"more", "ready"} /\ phase \in {"more", "ready"}
  BY DEF PushPayload, WholeInv, PhaseInv, SeenInv
<1>2. /\ PartInv /\ PlaceInv /\ D!DecoderInv /\ Total \in Nat /\ rest \in 0..(Total + 1)
      /\ rest \in Nat /\ fpos \in 0..part.len /\ part.len \in Nat
      /\ bytes_consumed = fpos /\ (version = 1 => checksum_engine = fpos)
  BY <1>1, WholeMessage DEF WholeInv, PhaseInv, PlaceInv, PartInv, SeenInv
<1>3. D!Push(rest)
  <2>1. CASE inner.decoder = "Unknown"
    <3>1. part.verdict = "ok" /\ PushUnknown
      BY <1>1, <1>2, <2>1, PartFits DEF PushPayload
    <3>. QED
      BY <1>1, <1>2, <3>1, UnknownIsDecoder
  <2>2. CASE inner.decoder # "Unknown"
    BY <2>2 DEF PushPayload
  <2>. QED
    BY <2>1, <2>2
<1>4. /\ D!DecoderInv' /\ fphase' \in {"more", "ready", "failed"} /\ fpos' \in fpos..part.len
      /\ fphase' = "more" => fpos' < part.len
  BY <1>1, <1>2, <1>3, DecoderPush
<1>5. rest' \in 0..(Total + 1)
  <2>1. PICK c \in Nat : c <= rest /\ rest - (fpos' - fpos) = rest - c
    BY <1>1, <1>2, <1>3, DecoderPush
  <2>. QED
    BY <1>1, <1>2, <2>1
<1>6. fpos' \in Nat /\ fpos + (fpos' - fpos) = fpos'
  BY <1>2, <1>4, Advance
<1>7. PartInv'
  BY DEF MessageInv
<1>8. PlaceInv'
  BY <1>1, <1>2, <1>4 DEF PlaceInv, PartOf, Part, Before, Expected, Prefix, BadPrefix, Variant, input
<1>9. PhaseInv'
  <2>1. fphase' # "failed" => bytes_consumed' = fpos' /\ (version' = 1 => checksum_engine' = fpos')
    BY <1>1, <1>2, <1>6 DEF input
  <2>2. pc' = "idle"
    BY <1>1 DEF Return
  <2>. QED
    BY <1>1, <1>4, <2>1, <2>2 DEF PhaseInv, D!Phases
<1>10. SeenInv'
  <2>1. fphase' # "failed" => state' = "Payload" /\ state' # "Errored"
    BY <1>1
  <2>. QED
    BY <1>1, <1>2, <1>4, <1>5, <1>7, <1>8, <2>1, ReturnKeeps
<1>. QED
  BY <1>7, <1>8, <1>9, <1>10 DEF WholeInv

LEMMA EndWhole ==
  ASSUME MessageInv, WholeInv, MessageInv', End
  PROVE  WholeInv'
<1>1. /\ UNCHANGED <<version, wire, state, part, fpos, fphase, flimit, inner, payload_len,
                     bytes_consumed, checksum_engine, pc, rest, pos, limit>>
      /\ phase' = (IF Accepts THEN "ok" ELSE "err") /\ pc = "idle" /\ phase \in {"more", "ready"}
  BY DEF End, input, decoder, payload
<1>2. fphase # "failed"
  BY <1>1 DEF WholeInv, SeenInv, Stands
<1>3. PartInv'
  BY DEF MessageInv
<1>4. PlaceInv'
  BY <1>1 DEF WholeInv, PlaceInv, PartOf, Part, Before, Expected, Prefix, BadPrefix, Variant
<1>5. PhaseInv'
  BY <1>1 DEF WholeInv, PhaseInv, D!DecoderInv, D!Limits
<1>6. phase' = "ok" => Accepts'
  BY <1>1 DEF Accepts
<1>7. SeenInv'
  <2>1. Total' = Total
    BY <1>1, TotalStays DEF input
  <2>. QED
    BY <1>1, <1>2, <1>6, <2>1 DEF WholeInv, SeenInv, D!Phases
<1>. QED
  BY <1>3, <1>4, <1>5, <1>7 DEF WholeInv

LEMMA WholeUnchanged == ASSUME WholeInv, UNCHANGED vars PROVE WholeInv'
<1>1. PartInv' /\ PlaceInv'
  BY DEF WholeInv, PartInv, PlaceInv, PartOf, Part, Before, Expected, Prefix, BadPrefix, Variant,
     vars, input, decoder, payload
<1>2. PhaseInv'
  BY DEF WholeInv, PhaseInv, D!DecoderInv, D!Limits, vars, input, decoder, payload
<1>3. UNCHANGED input /\ Total' = Total /\ read_limit' = read_limit /\ (Accepts' <=> Accepts)
  BY TotalStays DEF vars, input, decoder, payload, read_limit, Accepts
<1>4. SeenInv'
  BY <1>3 DEF WholeInv, SeenInv, Stands, vars, decoder, seen
<1>. QED
  BY <1>1, <1>2, <1>4 DEF WholeInv

LEMMA WholeStep ==
  MessageInv /\ WholeInv /\ MessageInv' /\ [MessageNext]_vars => WholeInv'
<1>. SUFFICES ASSUME MessageInv, WholeInv, MessageInv', [MessageNext]_vars PROVE WholeInv'
  OBVIOUS
<1>1. ASSUME NEW n \in 0..(Total - pos + 1), PushCall(n) PROVE WholeInv'
  BY <1>1, PushCallWhole
<1>2. CASE PushPart
  BY <1>2, PushPartWhole
<1>3. CASE EndPart
  BY <1>3, EndPartWhole
<1>4. CASE AfterHeader
  BY <1>4, AfterHeaderWhole
<1>5. CASE AfterShortId
  BY <1>5, AfterShortIdWhole
<1>6. CASE AfterCommandString
  BY <1>6, AfterCommandStringWhole
<1>7. CASE PushPayload
  BY <1>7, PushPayloadWhole
<1>8. CASE End
  BY <1>8, EndWhole
<1>9. CASE Returned \/ UNCHANGED vars
  BY <1>9, WholeUnchanged DEF Returned
<1>. QED
  BY <1>1, <1>2, <1>3, <1>4, <1>5, <1>6, <1>7, <1>8, <1>9 DEF MessageNext

-----------------------------------------------------------------------------
(* The refinement of the trait's contract.                                 *)

ShownLimit ==
  IF phase = "failed" THEN 0
  ELSE IF state = "Payload" /\ version = 1 /\ Expected(inner) > wire.declared
    THEN flimit ELSE limit

\* What the caller was told is what the wire as a whole justifies.
Justified ==
  /\ pos \in Nat /\ pos <= Total
  /\ ShownLimit \in Contract!Limits(pos)
  /\ phase = "more" => pos < Total
  /\ phase = "ready" => pos = Total /\ MessageVerdict # "badpush"

LEMMA StandsIsJustified ==
  PartInv /\ PlaceInv /\ PhaseInv /\ phase \in {"more", "ready"} /\ Stands => Justified
<1>. SUFFICES ASSUME PartInv, PlaceInv, PhaseInv, phase \in {"more", "ready"}, Stands
              PROVE  Justified
  OBVIOUS
<1>1. /\ fphase = phase /\ pos = part.before + fpos /\ limit = read_limit /\ state # "Errored"
      /\ phase = "more" => fpos < part.len
      /\ phase = "ready" => state = "Payload" /\ fpos = part.len /\ part.verdict # "badpush"
      /\ (flimit = 0 /\ fpos = part.len) \/ (flimit \in 1..(part.len - fpos) /\ fpos # part.len)
  <2>1. fphase = phase /\ pos = part.before + fpos /\ limit = read_limit /\ state # "Errored"
    BY DEF Stands
  <2>2. phase = "more" => fpos < part.len
    BY DEF Stands
  <2>3. phase = "ready" => state = "Payload" /\ fpos = part.len /\ part.verdict # "badpush"
    BY <2>1 DEF Stands, PhaseInv, D!DecoderInv
  <2>4. flimit \in D!Limits(fpos)
    <3>1. fphase \in {"more", "ready"}
      BY <2>1
    <3>. QED
      BY <3>1 DEF PhaseInv, D!DecoderInv
  <2>5. (flimit = 0 /\ fpos = part.len) \/ (flimit \in 1..(part.len - fpos) /\ fpos # part.len)
    <3>1. CASE fpos = part.len
      BY ONLY <2>4, <3>1 DEF D!Limits
    <3>2. CASE fpos # part.len
      BY ONLY <2>4, <3>2 DEF D!Limits
    <3>. QED
      BY ONLY <3>1, <3>2
  <2>. QED
    BY <2>1, <2>2, <2>3, <2>5
<1>2. /\ part.before \in Nat /\ part.len \in Nat /\ fpos \in Nat /\ fpos <= part.len
      /\ flimit \in Nat /\ flimit <= part.len - fpos
      /\ Total \in Nat /\ part.before + part.len <= Total /\ wire.declared \in Nat
      /\ version \in {1, 2}
  BY <1>1, PartFits, WholeMessage DEF PartInv, PlaceInv, WireOK
<1>3. CASE state \in Fronts
  <2>1. ShownLimit = flimit /\ phase = "more"
    BY <1>1, <1>3 DEF ShownLimit, read_limit, Fronts
  <2>. QED
    BY <1>1, <1>2, <2>1 DEF Justified, Contract!Limits
<1>4. CASE state = "Payload"
  <2>1. /\ part.before + part.len = Total /\ part.len = Expected(inner) /\ ~BadPrefix
        /\ part.verdict = IF Variant.decoder \in Typed THEN wire.verdict ELSE "ok"
        /\ payload_len = IF version = 1 THEN <<wire.declared>> ELSE <<>>
        /\ bytes_consumed = fpos
    BY <1>1, <1>4, PartFits DEF PlaceInv, PhaseInv
  <2>2. ShownLimit = flimit
    <3>1. CASE version = 2
      BY <1>1, <1>4, <2>1, <3>1 DEF ShownLimit, read_limit
    <3>2. CASE version = 1 /\ Expected(inner) > wire.declared
      BY <1>1, <1>4, <3>2 DEF ShownLimit
    <3>3. CASE version = 1 /\ ~(Expected(inner) > wire.declared)
      <4>1. read_limit = D!Lesser(flimit, IF fpos < wire.declared THEN wire.declared - fpos ELSE 0)
        BY <1>4, <2>1, <3>3 DEF read_limit
      <4>2. part.len <= wire.declared
        BY <1>2, <2>1, <3>3
      <4>3. D!Lesser(flimit, IF fpos < wire.declared THEN wire.declared - fpos ELSE 0) = flimit
        BY <1>1, <1>2, <4>2 DEF D!Lesser
      <4>. QED
        BY <1>1, <3>3, <4>1, <4>3 DEF ShownLimit
    <3>. QED
      BY <1>2, <3>1, <3>2, <3>3
  <2>3. phase = "ready" => MessageVerdict # "badpush"
    BY <1>1, <2>1 DEF MessageVerdict
  <2>. QED
    BY <1>1, <1>2, <2>1, <2>2, <2>3 DEF Justified, Contract!Limits
<1>. QED
  BY <1>1, <1>3, <1>4 DEF PlaceInv, Fronts

\* A part that a push rejects makes the message one that a push rejects.
LEMMA BadPart ==
  ASSUME PartInv, PlaceInv, state # "Errored",
         part.verdict = "badpush" \/ (state \in Fronts /\ part.verdict # "ok")
  PROVE  MessageVerdict = "badpush"
<1>1. CASE state = "Payload"
  BY <1>1, PartFits DEF PlaceInv, MessageVerdict, Fronts
<1>2. CASE state = "Header"
  BY <1>2 DEF PlaceInv, PartOf, Part, MessageVerdict, BadPrefix
<1>3. CASE state = "ShortId"
  BY <1>3 DEF PlaceInv, PartOf, Part
<1>4. CASE state = "CommandString"
  BY <1>4 DEF PlaceInv, PartOf, Part, MessageVerdict, BadPrefix
<1>. QED
  BY <1>1, <1>2, <1>3, <1>4 DEF PlaceInv

LEMMA Distance == \A a, b \in Nat : a <= b => \E c \in Nat : b = a + c
OBVIOUS

\* A call that returns what is justified is a push of the contract.
LEMMA ReturnIsPush ==
  ASSUME UNCHANGED input, Total \in Nat, pos \in Nat, pos' \in Nat, pos <= pos', pos' <= Total,
         \/ phase = "more" /\ phase' = "more" /\ pos' < Total
         \/ phase = "more" /\ phase' = "failed" /\ MessageVerdict = "badpush"
         \/ phase = "more" /\ phase' = "ready" /\ MessageVerdict # "badpush" /\ pos' = Total
         \/ phase = "ready" /\ phase' = "ready" /\ pos' = pos,
         phase' # "failed" => ShownLimit' \in Contract!Limits(pos')
  PROVE  Contract!Next
<1>0. MessageVerdict' = MessageVerdict /\ Total' = Total
  BY TotalStays
<1>1. PICK c \in Nat : pos' = pos + c /\ c <= Total - pos
  BY Distance
<1>2. c \in Contract!Takes(c) /\ c \in 0..(Total - pos)
  BY <1>1 DEF Contract!Takes, Contract!Lesser
<1>3. phase = "more" => phase' \in Contract!Settle(pos')
  BY DEF Contract!Settle
<1>4. Contract!Push(c)
  BY <1>0, <1>1, <1>2, <1>3 DEF Contract!Push, ShownLimit
<1>. QED
  BY <1>2, <1>4 DEF Contract!Next, Contract!Push, Contract!Takes, Contract!Settle, Contract!Limits,
     Contract!Lesser

\* What the caller sees stays as it is, or the limit is settled anew with a push of no bytes.
LEMMA SeenStays ==
  ASSUME UNCHANGED input, UNCHANGED seen, ShownLimit' = ShownLimit
  PROVE  UNCHANGED Contract!contractVars
<1>1. MessageVerdict' = MessageVerdict /\ Total' = Total /\ pos' = pos /\ phase' = phase
  BY TotalStays DEF seen
<1>. QED
  BY <1>1 DEF Contract!contractVars, ShownLimit

\* The payload is what is left of the message.
PayloadFits ==
  /\ part.before + part.len = Total /\ part.len = Expected(inner)
  /\ wire.declared \in Nat /\ part.len \in Nat

LEMMA PayloadPart == PartInv /\ PlaceInv /\ state = "Payload" => PayloadFits
BY PartFits DEF PlaceInv, PartInv, PayloadFits

\* A call within which a part other than the payload is left.
LEMMA EnterRefines ==
  ASSUME MessageInv, WholeInv, WholeInv', UNCHANGED input, state \in Fronts, pc = "next",
         NEW next, NEW i, Enter(next, i)
  PROVE  [Contract!Next]_(Contract!contractVars)
<1>1. /\ phase = "more" /\ pos \in Nat /\ pos < Total /\ Total \in Nat /\ pos <= part.before + fpos
      /\ fpos \in Nat /\ fpos <= part.len /\ part.len \in Nat /\ part.before \in Nat
  BY WholeMessage DEF WholeInv, PhaseInv, SeenInv, PlaceInv, PartInv, Fronts
<1>2. /\ phase' = phase /\ pos' = pos /\ limit' = limit /\ fpos' = 0 /\ state' = next
      /\ fphase' = "more" /\ part'.before = part.before + part.len
  BY DEF Enter, GoOn, seen, PartOf, Part
<1>3. CASE state' = "Payload" /\ version' = 1 /\ Expected(inner)' > wire'.declared
  <2>1. (PartInv /\ PlaceInv /\ state = "Payload" => PayloadFits)'
    BY PayloadPart, PTL
  <2>2. /\ part'.before + part'.len = Total' /\ part'.len > 0 /\ part'.len \in Nat
        /\ flimit' \in D!Limits(fpos)'
    BY <1>2, <1>3, <2>1 DEF WholeInv, PhaseInv, D!DecoderInv, PayloadFits
  <2>3. flimit' \in 1..part'.len
    BY <1>2, <2>2 DEF D!Limits
  <2>4. Total' = Total /\ ShownLimit' = flimit'
    BY <1>1, <1>2, <1>3, TotalStays DEF ShownLimit
  <2>5. ShownLimit' \in Contract!Limits(pos')
    BY <1>1, <1>2, <2>2, <2>3, <2>4 DEF Contract!Limits
  <2>. QED
    BY <1>1, <1>2, <2>5, ReturnIsPush
<1>4. CASE ~(state' = "Payload" /\ version' = 1 /\ Expected(inner)' > wire'.declared)
  <2>1. ShownLimit' = limit' /\ ShownLimit = limit
    BY <1>1, <1>2, <1>4 DEF ShownLimit, Fronts
  <2>. QED
    BY <1>2, <2>1, SeenStays DEF seen
<1>. QED
  BY <1>3, <1>4

\* A call that fails in a part that is rejected, or behind it.
LEMMA FailRefines ==
  ASSUME MessageInv, WholeInv, UNCHANGED input, part' = part, phase = "more", Return("failed"),
         state # "Errored", fpos' \in fpos..part.len, MessageVerdict = "badpush"
  PROVE  Contract!Next
<1>1. /\ phase' = "failed" /\ pos' = part.before + fpos'
      /\ pos \in Nat /\ Total \in Nat /\ pos <= part.before + fpos
      /\ fpos \in Nat /\ part.len \in Nat /\ part.before \in Nat
      /\ part.before + part.len <= Total
  BY PartFits, WholeMessage DEF Return, WholeInv, SeenInv, PlaceInv, PartInv
<1>2. pos' \in Nat /\ pos <= pos' /\ pos' <= Total
  BY <1>1
<1>. QED
  BY <1>1, <1>2, ReturnIsPush

\* A call that returns a status.
LEMMA AnswerRefines ==
  ASSUME MessageInv, WholeInv, WholeInv', UNCHANGED input, part' = part, state # "Errored",
         phase \in {"more", "ready"}, NEW answer \in {"more", "ready"}, Return(answer),
         fpos' \in fpos..part.len, phase = "ready" => answer = "ready" /\ fpos' = fpos
  PROVE  Contract!Next
<1>1. /\ phase' = answer /\ pos' = part.before + fpos' /\ pc' = "idle"
      /\ pos \in Nat /\ Total \in Nat /\ pos <= part.before + fpos
      /\ fpos \in Nat /\ part.len \in Nat /\ part.before \in Nat
      /\ phase = "ready" => pos = part.before + fpos
  BY WholeMessage DEF Return, WholeInv, SeenInv, PlaceInv, PartInv
<1>2. Justified'
  <2>1. (PartInv /\ PlaceInv /\ PhaseInv /\ phase \in {"more", "ready"} /\ Stands => Justified)'
    BY StandsIsJustified, PTL
  <2>2. Stands'
    BY <1>1 DEF WholeInv, SeenInv
  <2>. QED
    BY <1>1, <2>1, <2>2 DEF WholeInv
<1>3. Total' = Total /\ MessageVerdict' = MessageVerdict
  BY TotalStays
<1>4. /\ pos' \in Nat /\ pos <= pos' /\ pos' <= Total
      /\ phase' = "more" => pos' < Total
      /\ phase' = "ready" => pos' = Total /\ MessageVerdict # "badpush"
      /\ ShownLimit' \in Contract!Limits(pos')
  <2>1. /\ pos' <= Total /\ (phase' = "more" => pos' < Total)
        /\ (phase' = "ready" => pos' = Total /\ MessageVerdict # "badpush")
    BY <1>2, <1>3 DEF Justified
  <2>2. pos' \in Nat /\ pos <= pos'
    BY <1>1
  <2>3. ShownLimit' \in Contract!Limits(pos')
    BY <1>2, <1>3 DEF Justified, Contract!Limits
  <2>. QED
    BY <2>1, <2>2, <2>3
<1>. QED
  BY <1>1, <1>4, ReturnIsPush

\* end accepts what the wire as a whole makes acceptable.
LEMMA EndRefines ==
  ASSUME MessageInv, WholeInv, End
  PROVE  Contract!Next
<1>1. /\ phase \in {"more", "ready"} /\ phase' = (IF Accepts THEN "ok" ELSE "err")
      /\ UNCHANGED <<input, state, inner, flimit, pos, limit>> /\ Stands /\ version \in {1, 2}
      /\ PartInv /\ PlaceInv /\ PhaseInv /\ wire \in Wires(version)
  BY DEF End, decoder, payload, WholeInv, SeenInv, PlaceInv
<1>2. Justified /\ Total' = Total /\ MessageVerdict' = MessageVerdict
  BY <1>1, StandsIsJustified, TotalStays
<1>3. Accepts <=> pos = Total /\ MessageVerdict = "ok"
  <2>1. ASSUME state # "Payload" PROVE ~Accepts /\ pos # Total
    <3>1. pos < Total /\ pos \in Nat /\ Total \in Nat
      BY <1>1, <1>2, <2>1, WholeMessage DEF Justified, Stands
    <3>. QED
      BY <2>1, <3>1 DEF Accepts
  <2>2. ASSUME state = "Payload" PROVE Accepts <=> pos = Total /\ MessageVerdict = "ok"
    <3>1. /\ part.before + part.len = Total /\ part.len = Expected(Variant) /\ ~BadPrefix
          /\ part.verdict = IF Variant.decoder \in Typed THEN wire.verdict ELSE "ok"
          /\ payload_len = IF version = 1 THEN <<wire.declared>> ELSE <<>>
          /\ bytes_consumed = fpos /\ (version = 1 => checksum_engine = fpos)
          /\ pos = part.before + fpos
          /\ part.before \in Nat /\ part.len \in Nat /\ fpos \in Nat
      BY <1>1, <2>2, PartFits DEF PlaceInv, PhaseInv, Stands, PartInv
    <3>2. pos = Total <=> fpos = part.len
      BY <3>1
    <3>3. Accepts <=>
            /\ version = 1 => fpos = wire.declared /\ fpos = wire.sum
            /\ fpos = part.len /\ part.verdict = "ok"
      BY <1>1, <2>2, <3>1 DEF Accepts
    <3>4. MessageVerdict = "ok" <=>
            /\ part.verdict = "ok"
            /\ version = 1 => part.len = wire.declared /\ wire.sum = wire.declared
      BY <3>1 DEF MessageVerdict
    <3>. QED
      BY <3>2, <3>3, <3>4
  <2>. QED
    BY <2>1, <2>2
<1>4. ShownLimit' = ShownLimit /\ phase # "failed" /\ phase' # "failed"
  BY <1>1 DEF ShownLimit, input, Expected
<1>. QED
  BY <1>1, <1>2, <1>3, <1>4 DEF Contract!Next, Contract!End, ShownLimit

LEMMA MessageRefines ==
  ASSUME MessageInv, WholeInv, WholeInv', [MessageNext]_vars
  PROVE  [Contract!Next]_(Contract!contractVars)
<1>1. ASSUME NEW n \in 0..(Total - pos + 1), PushCall(n)
      PROVE  UNCHANGED Contract!contractVars
  <2>1. UNCHANGED input /\ UNCHANGED seen /\ ShownLimit' = ShownLimit
    BY <1>1 DEF PushCall, GoOn, seen, input, decoder, payload, ShownLimit, Expected
  <2>. QED
    BY <2>1, SeenStays
<1>2. CASE PushPart
  <2>1. /\ UNCHANGED input /\ part' = part /\ state' = state /\ state \in Fronts /\ D!Push(rest)
        /\ fphase = "more" /\ phase = "more" /\ state # "Errored" /\ state # "Payload"
        /\ IF fphase' = "ready" THEN GoOn("end") ELSE Return(fphase')
    BY <1>2 DEF PushPart, WholeInv, PhaseInv, SeenInv, Fronts
  <2>2. /\ D!DecoderInv' /\ fphase' \in {"more", "ready", "failed"} /\ fpos' \in fpos..part.len
    BY <2>1, DecoderPush DEF WholeInv, PhaseInv, PartInv
  <2>3. CASE fphase' = "ready"
    BY <2>1, <2>3, SeenStays DEF GoOn, seen, ShownLimit
  <2>4. CASE fphase' = "more"
    BY <2>1, <2>2, <2>4, AnswerRefines
  <2>5. CASE fphase' = "failed"
    <3>1. part.verdict = "badpush"
      BY <2>1, <2>2, <2>5 DEF D!DecoderInv
    <3>2. MessageVerdict = "badpush"
      BY <2>1, <3>1, BadPart DEF WholeInv
    <3>. QED
      BY <2>1, <2>2, <2>5, <3>2, FailRefines
  <2>. QED
    BY <2>2, <2>3, <2>4, <2>5
<1>3. CASE EndPart
  <2>1. /\ UNCHANGED input /\ part' = part /\ fpos' = fpos /\ state \in Fronts /\ state # "Errored"
        /\ fphase' = IF fpos = part.len /\ part.verdict = "ok" THEN "ok" ELSE "err"
        /\ phase = "more" /\ fpos = part.len /\ state # "Payload"
        /\ fphase' = "ok" => GoOn("next") /\ state' = state
        /\ fphase' = "err" => Return("failed")
    BY <1>3 DEF EndPart, D!End, WholeInv, PhaseInv, SeenInv, D!DecoderInv, Fronts
  <2>2. CASE fphase' = "ok"
    BY <2>1, <2>2, SeenStays DEF GoOn, seen, ShownLimit
  <2>3. CASE fphase' = "err"
    <3>1. MessageVerdict = "badpush"
      BY <2>1, <2>3, BadPart DEF WholeInv
    <3>2. fpos' \in fpos..part.len
      BY <2>1 DEF WholeInv, PartInv
    <3>. QED
      BY <2>1, <2>3, <3>1, <3>2, FailRefines
  <2>. QED
    BY <2>1, <2>2, <2>3
<1>4. ASSUME Fail, pc = "next", state \in {"Header", "ShortId"}, UNCHANGED input, BadPrefix
      PROVE  Contract!Next
  <2>1. /\ Return("failed") /\ part' = part /\ fpos' = fpos /\ MessageVerdict = "badpush"
        /\ phase = "more" /\ state # "Errored" /\ fpos' \in fpos..part.len
    BY <1>4 DEF Fail, decoder, MessageVerdict, WholeInv, PhaseInv, SeenInv, PartInv
  <2>. QED
    BY <1>4, <2>1, FailRefines
<1>5. CASE AfterHeader
  <2>1. UNCHANGED input /\ state = "Header" /\ pc = "next" /\ state \in Fronts /\ version = 1
    BY <1>5 DEF AfterHeader, Next, Fronts, WholeInv, PlaceInv
  <2>2. CASE wire.declared > MAX_MSG_SIZE
    BY <1>4, <1>5, <2>1, <2>2 DEF AfterHeader, BadPrefix
  <2>3. CASE ~(wire.declared > MAX_MSG_SIZE)
    BY <1>5, <2>1, <2>3, EnterRefines DEF AfterHeader, EnterPayload
  <2>. QED
    BY <2>2, <2>3
<1>6. CASE AfterShortId
  <2>1. UNCHANGED input /\ state = "ShortId" /\ pc = "next" /\ state \in Fronts /\ version = 2
        /\ wire.id \in Nat
    BY <1>6, WholeMessage DEF AfterShortId, Next, Fronts, WholeInv, PlaceInv, WireOK
  <2>2. CASE wire.id = 0 \/ wire.id \in 1..28
    BY <1>6, <2>1, <2>2, EnterRefines DEF AfterShortId, EnterPayload
  <2>3. CASE ~(wire.id = 0 \/ wire.id \in 1..28)
    <3>1. BadPrefix
      BY <2>1, <2>3 DEF BadPrefix
    <3>. QED
      BY <1>4, <1>6, <2>1, <2>3, <3>1 DEF AfterShortId
  <2>. QED
    BY <2>2, <2>3
<1>7. CASE AfterCommandString
  <2>1. UNCHANGED input /\ state \in Fronts /\ pc = "next"
    BY <1>7 DEF AfterCommandString, Next, Fronts
  <2>. QED
    BY <1>7, <2>1, EnterRefines DEF AfterCommandString, EnterPayload
<1>8. CASE PushPayload
  <2>1. /\ UNCHANGED input /\ part' = part /\ state = "Payload" /\ Return(fphase') /\ pc = "push"
        /\ fphase \in {"more", "ready"} /\ phase \in {"more", "ready"}
        /\ phase = "ready" => fphase = "ready"
        /\ PartInv /\ PlaceInv /\ D!DecoderInv /\ rest \in Nat /\ fpos \in Nat
    BY <1>8 DEF PushPayload, WholeInv, PhaseInv, SeenInv, PartInv
  <2>2. D!Push(rest)
    <3>1. CASE inner.decoder = "Unknown"
      <4>1. part.verdict = "ok" /\ PushUnknown
        BY <1>8, <2>1, <3>1, PartFits DEF PushPayload
      <4>. QED
        BY <2>1, <4>1, UnknownIsDecoder
    <3>2. CASE inner.decoder # "Unknown"
      BY <1>8, <3>2 DEF PushPayload
    <3>. QED
      BY <3>1, <3>2
  <2>3. /\ D!DecoderInv' /\ fphase' \in {"more", "ready", "failed"} /\ fpos' \in fpos..part.len
        /\ phase = "ready" => fphase' = "ready" /\ fpos' = fpos
    BY <2>1, <2>2, DecoderPush DEF D!Push
  <2>4. CASE fphase' \in {"more", "ready"}
    BY <2>1, <2>3, <2>4, AnswerRefines
  <2>5. CASE fphase' = "failed"
    <3>1. part.verdict = "badpush" /\ phase = "more"
      BY <2>1, <2>3, <2>5 DEF D!DecoderInv
    <3>2. MessageVerdict = "badpush"
      BY <2>1, <3>1, BadPart
    <3>. QED
      BY <2>1, <2>3, <2>5, <3>1, <3>2, FailRefines
  <2>. QED
    BY <2>3, <2>4, <2>5
<1>9. CASE End
  BY <1>9, EndRefines
<1>10. CASE Returned \/ UNCHANGED vars
  <2>1. UNCHANGED input /\ UNCHANGED seen /\ ShownLimit' = ShownLimit
    BY <1>10 DEF Returned, vars, seen, input, decoder, payload, ShownLimit, Expected
  <2>. QED
    BY <2>1, SeenStays
<1>. QED
  BY <1>1, <1>2, <1>3, <1>5, <1>6, <1>7, <1>8, <1>9, <1>10 DEF MessageNext

LEMMA InitContract == ASSUME Init PROVE Contract!Init
<1>1. WholeInv /\ phase = "more" /\ pos = 0 /\ pc = "idle"
  BY WholeInit DEF Init
<1>2. Justified /\ Total \in Nat
  BY <1>1, StandsIsJustified, WholeMessage DEF WholeInv, SeenInv, PlaceInv
<1>3. MessageVerdict \in {"ok", "badpush", "badend"} /\ Total > 0
  <2>1. wire.verdict \in {"ok", "badpush", "badend"}
    BY <1>1, WholeMessage DEF WholeInv, PlaceInv, WireOK, D!Verdicts
  <2>. QED
    BY <1>1, <1>2, <2>1 DEF MessageVerdict, Justified
<1>. QED
  BY <1>1, <1>2, <1>3 DEF Contract!Init, Contract!Fresh, Contract!Verdicts, Contract!Limits,
     Justified, ShownLimit

-----------------------------------------------------------------------------
\* The invariant both theorems follow from: whatever the wire carries, the part at hand is
\* the one the wire has at that place, its decoder keeps the contract of the trait, and
\* the caller was told what is so.
THEOREM WholeInvariant == MessageSpec => [](MessageInv /\ WholeInv)
<1>1. Init => MessageInv /\ WholeInv
  BY InitEstablishes, WholeInit
<1>2. MessageInv /\ WholeInv /\ [MessageNext]_vars => MessageInv' /\ WholeInv'
  BY Preserved, WholeStep
<1>. QED
  BY <1>1, <1>2, PTL DEF MessageSpec

\* The decoders of whole messages keep the contract of the trait Decoder, for any decoder
\* of the payload that keeps it: header, short id, command string and payload are read as
\* one encoding, which end accepts exactly when length, checksum and payload agree.
THEOREM MessageImplementsDecoder == MessageSpec => ImplementsDecoder
<1>1. Init => Contract!Init
  BY InitContract
<1>2. /\ (MessageInv /\ WholeInv) /\ (MessageInv /\ WholeInv)' /\ [MessageNext]_vars
      => [Contract!Next]_(Contract!contractVars)
  BY MessageRefines
<1>. QED
  BY <1>1, <1>2, WholeInvariant, PTL DEF MessageSpec, ImplementsDecoder, Contract!Spec

-----------------------------------------------------------------------------
(* What comes back.                                                        *)

\* The decoder a message with a variant of NetworkMessage is read by.
LEMMA SentVariant ==
  ASSUME version \in {1, 2}, NEW c \in Typed \cup Empties,
         wire.command = c, wire.id = v2_command_byte(c)
  PROVE  Variant = Inner(IF c \in Empties THEN "Empty" ELSE c, c)
<1>1. CASE version = 1
  <2>1. c \notin Empties => c \in Typed
    OBVIOUS
  <2>. QED
    BY <1>1, <2>1 DEF Variant, DecoderOf
<1>2. CASE version = 2
  BY <1>2, ShortIdsAgree DEF Variant
<1>. QED
  BY <1>1, <1>2

LEMMA NamesApart ==
  /\ \A c \in Typed : c \notin Empties /\ c # "Empty" /\ c # "Unknown"
  /\ "other" \notin Typed \cup Empties
BY DEF Typed, Empties

LEMMA AcceptedIsTheMessage ==
  ASSUME WholeInv, phase = "ok", NEW m \in Messages, wire = Encode(m),
         ~(version = 2 /\ m.name = "unknown")
  PROVE  Decoded = m
<1>1. /\ inner = Variant /\ fpos = part.len /\ part.len = Expected(Variant) /\ version \in {1, 2}
  <2>1. Accepts /\ PartInv /\ PlaceInv
    BY DEF WholeInv, SeenInv
  <2>2. state = "Payload" /\ fpos = part.len
    BY <2>1 DEF Accepts
  <2>. QED
    BY <2>1, <2>2, PartFits DEF PlaceInv
<1>2. /\ wire.command = m.command /\ wire.id = v2_command_byte(m.name)
      /\ wire.declared = m.size /\ wire.need = m.size
  BY DEF Encode, Wire
<1>3. CASE \E c \in Typed, n \in 1..MaxPayload : m = Message(c, c, n)
  <2>1. PICK c \in Typed, n \in 1..MaxPayload : m = Message(c, c, n)
    BY <1>3
  <2>2. Variant = Inner(c, c)
    BY <1>1, <1>2, <2>1, SentVariant, NamesApart DEF Message
  <2>3. inner.decoder = c /\ inner.command = c /\ fpos = n
    BY <1>1, <1>2, <2>1, <2>2, NamesApart DEF Inner, Expected, Message
  <2>. QED
    BY <2>1, <2>3, NamesApart DEF Decoded
<1>4. CASE \E c \in Empties : m = Message(c, c, 0)
  <2>1. PICK c \in Empties : m = Message(c, c, 0)
    BY <1>4
  <2>2. Variant = Inner("Empty", c)
    BY <1>1, <1>2, <2>1, SentVariant DEF Message
  <2>. QED
    BY <1>1, <2>1, <2>2 DEF Decoded, Inner
<1>5. CASE \E n \in 0..MaxPayload : m = Message("unknown", "other", n)
  <2>1. PICK n \in 0..MaxPayload : m = Message("unknown", "other", n)
    BY <1>5
  <2>2. version = 1
    BY <1>1, <2>1 DEF Message
  <2>3. Variant = Inner("Unknown", "other")
    BY <1>2, <2>1, <2>2, NamesApart DEF Variant, DecoderOf, Message
  <2>4. fpos = n
    BY <1>1, <1>2, <2>1, <2>2, <2>3 DEF Expected, Inner, Message
  <2>. QED
    BY <1>1, <2>1, <2>3, <2>4 DEF Decoded, Inner
<1>. QED
  BY <1>3, <1>4, <1>5 DEF Messages

LEMMA TypesOK == WholeInv => MessageTypeOK
<1>. SUFFICES ASSUME WholeInv PROVE MessageTypeOK
  OBVIOUS
<1>1. state \in {"Header", "ShortId", "CommandString", "Payload", "Errored"}
  BY DEF WholeInv, PlaceInv
<1>2. fpos \in 0..part.len /\ flimit \in 0..part.len
  BY DEF WholeInv, PartInv
<1>3. /\ fphase \in D!Phases /\ phase \in D!Phases /\ rest \in 0..(Total + 1)
      /\ pc \in {"idle", "push", "end", "next"}
  BY DEF WholeInv, PhaseInv, SeenInv
<1>4. inner.decoder \in Typed \cup {"none", "Empty", "Unknown"}
  BY DEF WholeInv, PlaceInv, None, Inner
<1>5. state = "Payload" /\ fphase # "failed" => bytes_consumed = fpos
  BY DEF WholeInv, PhaseInv
<1>. QED
  BY <1>1, <1>2, <1>3, <1>4, <1>5 DEF MessageTypeOK

\* A message comes back as it was sent, through either protocol, whatever pieces the bytes
\* arrive in: the tables of short ids and of commands fit each other.  A V2 message
\* without a variant is not among them.
THEOREM EveryMessageComesBack == MessageSpec => []MessagesComeBack
<1>1. WholeInv => SameMessageBack
  BY AcceptedIsTheMessage DEF SameMessageBack
<1>2. WholeInv => MessagesComeBack
  BY <1>1, TypesOK DEF MessagesComeBack
<1>. QED
  BY <1>2, WholeInvariant, PTL

=============================================================================
