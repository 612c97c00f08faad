--------------------------- MODULE NetworkMessage ---------------------------
(***************************************************************************)
(* The decoders of whole network messages, p2p/src/message.rs.             *)
(*                                                                         *)
(* V1NetworkMessageDecoder reads a header that announces command, length   *)
(* and checksum of the payload behind it; V2NetworkMessageDecoder reads a  *)
(* short id, or a zero and a command string, and has no length: there the  *)
(* transport below delimits messages.  Both then hand the bytes to the     *)
(* decoder of the payload's type, any decoder of DecoderContract.          *)
(*                                                                         *)
(* Bytes are counted.  The checksum of a payload is the number of bytes it *)
(* was computed over, as the payloads of a run are the prefixes of one     *)
(* stream: a hash that collides for two of them is left out.               *)
(***************************************************************************)
EXTENDS Integers, Sequences

CONSTANTS
  HeaderLen, CommandLen,   \* bytes of the V1 header and of a command string
  MAX_MSG_SIZE,
  MaxPayload               \* bound: the longest payload sent

ASSUME MessageAssumption ==
  /\ HeaderLen \in Nat \ {0} /\ CommandLen \in Nat \ {0}
  /\ MaxPayload \in Nat \ {0} /\ MAX_MSG_SIZE \in Nat /\ MaxPayload <= MAX_MSG_SIZE

VARIABLES
  version, wire,            \* the protocol, and what is on the wire
  state,                    \* "Header" (V1), "ShortId", "CommandString" (V2), "Payload", "Errored"
  part,                     \* the part being read: bytes before it, its length and verdict
  fpos, fphase, flimit,     \* its decoder
  inner,                    \* NetworkMessageDecoderInner: decoder and command
  payload_len, bytes_consumed,   \* the rest of NetworkMessageDecoder
  checksum_engine,          \* bytes hashed
  pc, rest,                 \* the running call, bytes left in its slice
  phase, pos, limit         \* what the caller saw last

input == <<version, wire>>
decoder == <<fpos, fphase, flimit>>
payload == <<inner, payload_len, bytes_consumed, checksum_engine>>
seen == <<phase, pos, limit>>
vars == <<input, state, part, decoder, payload, pc, rest, seen>>

-----------------------------------------------------------------------------
(* Messages, their names and their decoders. *)

Empties == {"verack", "sendheaders", "mempool", "getaddr", "wtxidrelay", "filterclear",
            "sendaddrv2"}
Typed == {"version", "addr", "inv", "getdata", "notfound", "getblocks", "getheaders", "tx",
          "block", "headers", "ping", "pong", "merkleblock", "filterload", "filteradd",
          "getcfilters", "cfilter", "getcfheaders", "cfheaders", "getcfcheckpt", "cfcheckpt",
          "sendcmpct", "cmpctblock", "getblocktxn", "blocktxn", "alert", "reject",
          "feefilter", "sendtxrcncl", "addrv2"}

Message(name, command, size) == [name |-> name, command |-> command, size |-> size]

\* "other" stands for the commands NetworkMessage has no variant of.
Messages ==
  {Message(c, c, n) : c \in Typed, n \in 1..MaxPayload}
    \cup {Message(c, c, 0) : c \in Empties}
    \cup {Message("unknown", "other", n) : n \in 0..MaxPayload}

Inner(d, command) == [decoder |-> d, command |-> command]
None == Inner("none", "none")

\* NetworkMessageDecoderInner::new
DecoderOf(command) ==
  Inner(IF command \in Empties THEN "Empty"
        ELSE IF command \in Typed THEN command ELSE "Unknown", command)

payload_decoder_from_command(command) ==
  Inner(IF command \in Empties \ {"mempool", "filterclear"} THEN "Empty"
        ELSE IF command \in {"version", "alert", "reject", "sendtxrcncl"} THEN command
        ELSE "Unknown", command)

\* Mutant: two neighbours change places.
payload_decoder_from_short_id_Swapped(id) ==
  LET name == <<"addr", "block", "blocktxn", "cmpctblock", "feefilter", "filteradd",
                "filterclear", "filterload", "getblocks", "getblocktxn", "getdata",
                "getheaders", "headers", "inv", "mempool", "merkleblock", "notfound",
                "ping", "pong", "sendcmpct", "tx", "getcfilters", "cfilter",
                "cfheaders", "getcfheaders", "getcfcheckpt", "cfcheckpt", "addrv2">>[id]
  IN  Inner(IF name \in Empties THEN "Empty" ELSE name, name)

payload_decoder_from_short_id(id) ==
  LET name == <<"addr", "block", "blocktxn", "cmpctblock", "feefilter", "filteradd",
                "filterclear", "filterload", "getblocks", "getblocktxn", "getdata",
                "getheaders", "headers", "inv", "mempool", "merkleblock", "notfound",
                "ping", "pong", "sendcmpct", "tx", "getcfilters", "cfilter",
                "getcfheaders", "cfheaders", "getcfcheckpt", "cfcheckpt", "addrv2">>[id]
  IN  Inner(IF name \in Empties THEN "Empty" ELSE name, name)

\* The short id a message is sent with; 0 announces the command string.
v2_command_byte(name) ==
  LET Ids == [addr |-> 1, block |-> 2, blocktxn |-> 3, cmpctblock |-> 4, feefilter |-> 5,
              filteradd |-> 6, filterclear |-> 7, filterload |-> 8, getblocks |-> 9,
              getblocktxn |-> 10, getdata |-> 11, getheaders |-> 12, headers |-> 13,
              inv |-> 14, mempool |-> 15, merkleblock |-> 16, notfound |-> 17,
              ping |-> 18, pong |-> 19, sendcmpct |-> 20, tx |-> 21, getcfilters |-> 22,
              cfilter |-> 23, getcfheaders |-> 24, cfheaders |-> 25, getcfcheckpt |-> 26,
              cfcheckpt |-> 27, addrv2 |-> 28]
  IN  IF name \in DOMAIN Ids THEN Ids[name] ELSE 0

\* What end() makes of a completed payload decoder.
Decoded ==
  IF inner.decoder = "Empty" THEN Message(inner.command, inner.command, 0)
  ELSE IF inner.decoder = "Unknown" THEN Message("unknown", inner.command, fpos)
  ELSE Message(inner.decoder, inner.decoder, fpos)

-----------------------------------------------------------------------------
(* What a peer sends: the encoding of a message, or a header that lies.    *)
(* `need' is what the bytes look like to the decoder of a typed payload.   *)

Wire(id, command, isAscii, declared, sum, need, verdict) ==
  [id |-> id, command |-> command, isAscii |-> isAscii, declared |-> declared,
   sum |-> sum, need |-> need, verdict |-> verdict]

Encode(m) ==
  Wire(v2_command_byte(m.name), m.command, TRUE, m.size, m.size, m.size, "ok")

Commands == {"ping", "verack", "other"}
Forgeries(v) ==
  {Wire(id, c, a, d, s, n, b) :
     id \in IF v = 1 THEN {0} ELSE {0, 7, 18, 29},
     c \in Commands, a \in BOOLEAN,
     d \in IF v = 1 THEN 0..(MAX_MSG_SIZE + 1) ELSE {0},
     s \in IF v = 1 THEN 0..(MaxPayload + 1) ELSE {0},
     n \in 1..MaxPayload, b \in {"ok", "badpush", "badend"}}

Wires(v) == {Encode(m) : m \in Messages} \cup Forgeries(v)

-----------------------------------------------------------------------------
(* The decoder of the part at hand. *)

Expected(i) ==
  IF i.decoder = "Empty" THEN 0
  ELSE IF i.decoder = "Unknown" THEN (IF version = 1 THEN wire.declared ELSE 0)
  ELSE wire.need

Part(before, len, verdict) == [before |-> before, len |-> len, verdict |-> verdict]

PartOf(next, before, i) ==
  IF next = "Header" THEN Part(before, HeaderLen, IF wire.isAscii THEN "ok" ELSE "badpush")
  ELSE IF next = "ShortId" THEN Part(before, 1, "ok")
  ELSE IF next = "CommandString"
    THEN Part(before, CommandLen, IF wire.isAscii THEN "ok" ELSE "badend")
  ELSE Part(before, Expected(i), IF i.decoder \in Typed THEN wire.verdict ELSE "ok")

D == INSTANCE DecoderContract WITH
  total <- part.len, verdict <- part.verdict, pos <- fpos, phase <- fphase, limit <- flimit

\* Mutant: the announced length is not looked at.
read_limit_Uncapped == IF state = "Errored" THEN 0 ELSE flimit

\* A payload with a length is never asked for more than is left of that length.
read_limit ==
  IF state = "Errored" THEN 0
  ELSE IF state = "Payload" /\ payload_len # <<>>
    THEN D!Lesser(flimit, IF bytes_consumed < payload_len[1]
                            THEN payload_len[1] - bytes_consumed ELSE 0)
  ELSE flimit

Init ==
  /\ version \in {1, 2} /\ wire \in Wires(version)
  /\ state = IF version = 1 THEN "Header" ELSE "ShortId"
  /\ part = PartOf(state, 0, None)
  /\ inner = None /\ payload_len = <<>> /\ bytes_consumed = 0 /\ checksum_engine = 0
  /\ D!Fresh
  /\ pc = "idle" /\ rest = 0
  /\ phase = "more" /\ pos = 0 /\ limit = read_limit

-----------------------------------------------------------------------------
Return(answer) ==
  /\ pc' = "idle"
  /\ phase' = answer
  /\ pos' = part'.before + fpos'
  /\ limit' = read_limit'

GoOn(where) == pc' = where /\ UNCHANGED seen

PushCall(n) ==
  /\ pc = "idle" /\ phase \in {"more", "ready"}
  /\ rest' = n
  /\ GoOn("push")
  /\ UNCHANGED <<input, state, part, decoder, payload>>

\* A part in front of the payload is offered the slice.
PushPart ==
  /\ pc = "push" /\ state \in {"Header", "ShortId", "CommandString"}
  /\ UNCHANGED <<input, state, part, payload>>
  /\ D!Push(rest)
  /\ rest' = rest - (fpos' - fpos)
  /\ IF fphase' = "ready" THEN GoOn("end") ELSE Return(fphase')

EndPart ==
  /\ pc = "end"
  /\ UNCHANGED <<input, part, payload, rest>>
  /\ D!End
  /\ IF fphase' = "ok"
       THEN GoOn("next") /\ UNCHANGED state
       ELSE state' = (IF version = 1 THEN state ELSE "Errored") /\ Return("failed")

Fail ==
  /\ state' = (IF version = 1 THEN state ELSE "Errored")
  /\ UNCHANGED <<part, decoder, payload>>
  /\ Return("failed")

\* The next state, with a new decoder; an Unknown asks for all that is announced.
Enter(next, i) ==
  /\ state' = next
  /\ part' = PartOf(next, part.before + part.len, i)
  /\ fpos' = 0 /\ fphase' = "more"
  /\ IF i.decoder = "Unknown" THEN flimit' = part'.len ELSE flimit' \in D!Limits(0)'
  /\ GoOn("push")

\* NetworkMessageDecoder::new or from_inner.
EnterPayload(i, len) ==
  /\ inner' = i
  /\ payload_len' = len /\ bytes_consumed' = 0 /\ checksum_engine' = 0
  /\ Enter("Payload", i)

Next(from) == pc = "next" /\ state = from /\ UNCHANGED <<input, rest>>

AfterHeader ==
  /\ Next("Header")
  /\ IF wire.declared > MAX_MSG_SIZE
       THEN Fail
       ELSE EnterPayload(DecoderOf(wire.command), <<wire.declared>>)

AfterShortId ==
  /\ Next("ShortId")
  /\ IF wire.id = 0 THEN Enter("CommandString", None) /\ UNCHANGED payload
     ELSE IF wire.id \in 1..28 THEN EnterPayload(payload_decoder_from_short_id(wire.id), <<>>)
     ELSE Fail

AfterCommandString ==
  /\ Next("CommandString")
  /\ EnterPayload(payload_decoder_from_command(wire.command), <<>>)

\* The buffer of an Unknown takes what it is offered, up to what remains.
PushUnknown ==
  /\ fpos' = fpos + D!Lesser(rest, part.len - fpos)
  /\ flimit' = part.len - fpos'
  /\ fphase' = IF flimit' > 0 THEN "more" ELSE "ready"

\* Mutant: the checksum covers the slice, not what was consumed of it.
PushPayload_HashesSlice ==
  /\ pc = "push" /\ state = "Payload"
  /\ UNCHANGED <<input, part, inner, payload_len>>
  /\ IF inner.decoder = "Unknown" THEN PushUnknown ELSE D!Push(rest)
  /\ LET taken == fpos' - fpos IN
       /\ rest' = rest - taken
       /\ IF fphase' = "failed"
            THEN /\ state' = (IF version = 1 THEN state ELSE "Errored")
                 /\ UNCHANGED <<bytes_consumed, checksum_engine>>
            ELSE /\ state' = state
                 /\ bytes_consumed' = bytes_consumed + taken
                 /\ checksum_engine' = IF version = 1 THEN checksum_engine + rest ELSE 0
  /\ Return(fphase')

\* Of a rejected push neither counter hears.
PushPayload ==
  /\ pc = "push" /\ state = "Payload"
  /\ UNCHANGED <<input, part, inner, payload_len>>
  /\ IF inner.decoder = "Unknown" THEN PushUnknown ELSE D!Push(rest)
  /\ LET taken == fpos' - fpos IN
       /\ rest' = rest - taken
       /\ IF fphase' = "failed"
            THEN /\ state' = (IF version = 1 THEN state ELSE "Errored")
                 /\ UNCHANGED <<bytes_consumed, checksum_engine>>
            ELSE /\ state' = state
                 /\ bytes_consumed' = bytes_consumed + taken
                 /\ checksum_engine' = IF version = 1 THEN checksum_engine + taken ELSE 0
  /\ Return(fphase')

\* Mutant: the length check of the payload is left to the checksum.
Accepts_NoLength ==
  /\ state = "Payload"
  /\ fpos = part.len /\ part.verdict = "ok"
  /\ version = 1 => checksum_engine = wire.sum

\* end: the length first, then the payload, then the checksum.
Accepts ==
  /\ state = "Payload"
  /\ payload_len # <<>> => bytes_consumed = payload_len[1]
  /\ fpos = part.len /\ part.verdict = "ok"
  /\ version = 1 => checksum_engine = wire.sum

End ==
  /\ pc = "idle" /\ phase \in {"more", "ready"}
  /\ phase' = IF Accepts THEN "ok" ELSE "err"
  /\ UNCHANGED <<input, state, part, decoder, payload, pc, rest, pos, limit>>

Returned == phase \in {"failed", "ok", "err"} /\ UNCHANGED vars

-----------------------------------------------------------------------------
(* The whole message, seen from the wire. *)

Prefix == IF version = 1 THEN HeaderLen ELSE IF wire.id = 0 THEN 1 + CommandLen ELSE 1
Variant ==
  IF version = 1 THEN DecoderOf(wire.command)
  ELSE IF wire.id = 0 THEN payload_decoder_from_command(wire.command)
  ELSE payload_decoder_from_short_id(wire.id)

BadPrefix ==
  IF version = 1 THEN ~wire.isAscii \/ wire.declared > MAX_MSG_SIZE
  ELSE wire.id > 28 \/ (wire.id = 0 /\ ~wire.isAscii)
Total == IF BadPrefix THEN Prefix ELSE Prefix + Expected(Variant)

MessageVerdict ==
  IF BadPrefix THEN "badpush"
  ELSE IF Variant.decoder \in Typed /\ wire.verdict # "ok" THEN wire.verdict
  ELSE IF version = 1 /\ ~(Expected(Variant) = wire.declared /\ wire.sum = wire.declared)
    THEN "badend"
  ELSE "ok"

MessageNext ==
  \/ \E n \in 0..(Total - pos + 1) : PushCall(n)    \* a byte more than it needs
  \/ PushPart \/ EndPart
  \/ AfterHeader \/ AfterShortId \/ AfterCommandString
  \/ PushPayload \/ End
  \/ Returned

MessageSpec == Init /\ [][MessageNext]_vars

-----------------------------------------------------------------------------
\* Types; the two counters of a payload agree with its decoder.
MessageTypeOK ==
  /\ state \in {"Header", "ShortId", "CommandString", "Payload", "Errored"}
  /\ fpos \in 0..part.len /\ fphase \in D!Phases
  /\ flimit \in 0..part.len /\ rest \in 0..(Total + 1)
  /\ inner.decoder \in Typed \cup {"none", "Empty", "Unknown"}
  /\ pc \in {"idle", "push", "end", "next"} /\ phase \in D!Phases
  /\ state = "Payload" /\ fphase # "failed" => bytes_consumed = fpos

\* A reader that heeds read_limit takes no byte behind the frame a V1 header
\* announces, also when the payload's decoder wants to go on.
FrameIsNotOverread ==
  version = 1 /\ state = "Payload" /\ pos <= HeaderLen + wire.declared =>
    pos + limit <= HeaderLen + wire.declared

\* A V1 message is accepted when the decoder stands exactly behind the announced
\* frame and has hashed all of its payload and nothing else.
AcceptedIsTheFrame ==
  version = 1 /\ phase = "ok" =>
    /\ wire.declared <= MAX_MSG_SIZE
    /\ pos = HeaderLen + wire.declared
    /\ checksum_engine = wire.declared /\ wire.sum = wire.declared

\* What is decoded from an encoded message is that message, with both tables of short
\* ids and both tables of commands; the payload of a V2 message without a variant is
\* not asked for here.
SameMessageBack ==
  phase = "ok" =>
    \A m \in Messages :
      wire = Encode(m) /\ ~(version = 2 /\ m.name = "unknown") => Decoded = m

\* That, with the types.
MessagesComeBack == MessageTypeOK /\ SameMessageBack

\* The payload of a V2 message without a variant is buffered.
UnknownIsBuffered ==
  phase = "ok" => \A m \in Messages : wire = Encode(m) => Decoded = m

\* Where a V1 payload turns out longer than announced read_limit is 0 in the middle of
\* it; the contract speaks of the decoder of the payload there.
Contract == INSTANCE DecoderContract WITH
  total <- Total, verdict <- MessageVerdict, pos <- pos, phase <- phase,
  limit <- IF phase = "failed" THEN 0
           ELSE IF state = "Payload" /\ version = 1 /\ Expected(inner) > wire.declared
             THEN flimit ELSE limit

\* Both decoders keep the promises of the trait, and accept exactly the messages whose
\* length, checksum and payload agree, however the bytes are cut into pieces.
ImplementsDecoder == Contract!Spec

=============================================================================
