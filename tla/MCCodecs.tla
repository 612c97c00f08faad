------------------------------ MODULE MCCodecs ------------------------------
(***************************************************************************)
(* The codecs of consensus_encoding and primitives for TLC: one of the     *)
(* decoders ByteVecDecoder, VecDecoder, WitnessDecoder and                 *)
(* TransactionDecoder, or the encoders, runs; `codec' says which.          *)
(* What the others keep is `idle'.                                         *)
(*                                                                         *)
(* With a radix of 6 the lengths 0, 1 and 2 take one byte, longer ones     *)
(* take three, and 3, 4 and 5 are the markers.                             *)
(***************************************************************************)
EXTENDS Witness, FiniteSets

CONSTANTS
  ByteStreams, MaxSize, MAX_VECTOR_ALLOCATE,                \* ByteVecDecoder
  PrefixLens, MaxLength, MaxItem, FreshLimit, Batch,        \* VecDecoder
  InputLists, OutputLists, BadStreams, null, MAX_MONEY,     \* TransactionDecoder, and
                                                            \* the null outpoint
  Shapes, MaxItems, MaxSkip,                                \* Encoders
  LongPayload,   \* bound: payload bytes in a stream
  outA, outB     \* bound: the outpoints that are not null

VARIABLES
  codec,
  prefix, bytes_expected, buffer,                           \* ByteVecDecoder
  in_prefix, capacity,                                      \* and VecDecoder
  ends, length, prefixOk, badItem, count, has_item,         \* VecDecoder
  itemTotal, itemVerdict, itemPos, itemPhase, itemLimit,
  badAs,                                                    \* and TransactionDecoder
  badAt, isEncoding, state, attempt, is_segwit, iteration, inputs, outputs,
  fpos, fphase, flimit,                                     \* TransactionDecoder
  cur_idx, enc_1, sl, cur_enc, whole, position, n, from, given, consumed    \* Encoders

-----------------------------------------------------------------------------
(* Values of the constants; nothing below them depends on these. *)

\* The bytes of an element differ from each other and some look like markers.
MCElements == {<<>>, <<4>>, <<1, 2, 5>>, <<5, 3, 0, 1>>}

\* All prefixes with a 2-byte payload; of the longer ones those that are minimal by
\* one, not minimal by one, or as large as they get.
LengthPrefixes ==
  {<<b>> : b \in 0..(PREFIX_U16 - 1)}
    \cup {<<PREFIX_U16>> \o d : d \in [1..2 -> Byte]}
    \cup {<<PREFIX_U32>> \o ToLe(v, 4) : v \in {0, Radix2 - 1, Radix2, Radix2 + 1, Radix4 - 1}}
    \cup {<<PREFIX_U64>> \o ToLe(v, 8) : v \in {0, Radix4 - 1, Radix4, Radix8 - 1}}

\* Neighbouring payload bytes differ.
Payload == [i \in 1..LongPayload |-> (i * 5 + i \div 6) % Radix]

MCByteStreams == {head \o Payload : head \in LengthPrefixes}

\* Inputs that differ in what the checks of end look at: the null outpoint with script
\* lengths around both bounds, and two ordinary outpoints.
In(o, len) == [prevout |-> o, script |-> len]

MCInputLists ==
  {<<>>} \cup {<<In(null, len)>> : len \in {1, 2, 100, 101}} \cup {<<In(outA, 2)>>}
    \cup {<<In(outA, 2), In(r, 2)>> : r \in {outA, outB, null}}
    \cup {<<In(null, 2), In(r, 2)>> : r \in {outA, null}}

MCOutputLists == {<<>>, <<2>>, <<2, 1>>, <<2, 2>>}

\* Both serializations of a transaction with one input.
MCBadStreams ==
  LET Field(kind, value) == [kind |-> kind, value |-> value]
      ins == Field("Inputs", <<In(outA, 2)>>)
      outs == Field("Outputs", <<2>>)
      v == Field("Version", <<>>)
      t == Field("LockTime", <<>>)
  IN  {<<v, ins, outs, t>>,
       <<v, Field("Inputs", <<>>), Field("SegwitFlag", <<1>>), ins, outs,
         Field("Witnesses", <<"item">>), t>>}

\* Encoders of a single chunk, empty or not, and of chunks with empty ones in front, in
\* the middle and at the end.
MCShapes == {<<0>>, <<2>>, <<0, 1>>, <<1, 0, 1>>, <<1, 0>>}

-----------------------------------------------------------------------------
Bytes == INSTANCE ByteVecDecoder WITH Streams <- ByteStreams
Vec == INSTANCE VecDecoder
Tx == INSTANCE TransactionDecoder WITH COINBASE_PREVOUT <- null
Enc == INSTANCE Encoders

ASSUME CodecAssumption ==
  /\ Bytes!ByteVecAssumption /\ Vec!VecAssumption /\ Tx!TransactionAssumption
  /\ Enc!EncoderAssumption

idle == "idle"

bytesVars == <<prefix, bytes_expected, buffer>>
bytesVecVars == <<in_prefix, capacity>>
vecVars ==
  <<ends, length, prefixOk, badItem, count, has_item, itemTotal, itemVerdict, itemPos,
    itemPhase, itemLimit>>
vecTxVars == <<badAs>>
txVars ==
  <<badAt, isEncoding, state, attempt, is_segwit, iteration, inputs, outputs, fpos, fphase,
    flimit>>
witnessVars == <<witness, verdict, total, progress>>
encoderVars == <<cur_idx, enc_1, sl, cur_enc, whole, position, n, from, given, consumed>>
callVars == <<at, rest>>
seenVars == <<phase, pos, limit>>
codecVars ==
  <<codec, stream, pc, bytesVars, bytesVecVars, vecVars, vecTxVars, txVars, witnessVars,
    encoderVars, callVars, seenVars>>

NoBytes == prefix = idle /\ bytes_expected = idle /\ buffer = idle
NoBytesVec == in_prefix = idle /\ capacity = idle
NoVec ==
  /\ ends = idle /\ length = idle /\ prefixOk = idle /\ badItem = idle /\ count = idle
  /\ has_item = idle /\ itemTotal = idle /\ itemVerdict = idle /\ itemPos = idle
  /\ itemPhase = idle /\ itemLimit = idle
NoVecTx == badAs = idle
NoTx ==
  /\ badAt = idle /\ isEncoding = idle /\ state = idle /\ attempt = idle /\ is_segwit = idle
  /\ iteration = idle /\ inputs = idle /\ outputs = idle /\ fpos = idle /\ fphase = idle
  /\ flimit = idle
NoWitness ==
  /\ list = idle /\ made = idle /\ content = idle /\ witness_elements = idle
  /\ indices_start = idle /\ verdict = idle /\ total = idle /\ count_buf = idle
  /\ len_buf = idle /\ len_limit = idle /\ element_idx = idle /\ remaining = idle
NoEncoder ==
  /\ cur_idx = idle /\ enc_1 = idle /\ sl = idle /\ cur_enc = idle /\ whole = idle
  /\ position = idle /\ n = idle /\ from = idle /\ given = idle /\ consumed = idle
NoCall == at = idle /\ rest = idle
NoDecoder == phase = idle /\ pos = idle /\ limit = idle

CodecsInit ==
  \/ /\ codec = "bytes" /\ Bytes!ByteVecInit /\ pc = idle /\ limit = idle
     /\ NoVec /\ NoVecTx /\ NoTx /\ NoWitness /\ NoEncoder /\ NoCall
  \/ /\ codec = "vec" /\ Vec!VecInit /\ stream = idle
     /\ NoBytes /\ NoTx /\ NoWitness /\ NoEncoder
  \/ /\ codec = "witness" /\ WitnessInit
     /\ NoBytes /\ NoBytesVec /\ NoVec /\ NoVecTx /\ NoTx /\ NoEncoder
  \/ /\ codec = "transaction" /\ Tx!TransactionInit
     /\ NoBytes /\ NoBytesVec /\ NoVec /\ NoWitness /\ NoEncoder
  \/ /\ codec = "encoder" /\ Enc!Init /\ stream = idle
     /\ NoBytes /\ NoBytesVec /\ NoVec /\ NoVecTx /\ NoTx /\ NoWitness /\ NoCall /\ NoDecoder

BytesStep ==
  /\ codec = "bytes" /\ Bytes!ByteVecNext
  /\ UNCHANGED <<codec, pc, limit, vecVars, vecTxVars, txVars, witnessVars, encoderVars, callVars>>
VecStep ==
  /\ codec = "vec" /\ Vec!VecNext
  /\ UNCHANGED <<codec, stream, bytesVars, txVars, witnessVars, encoderVars>>
WitnessStep ==
  /\ codec = "witness" /\ WitnessNext
  /\ UNCHANGED <<codec, bytesVars, bytesVecVars, vecVars, vecTxVars, txVars, encoderVars>>
TxStep ==
  /\ codec = "transaction" /\ Tx!TransactionNext
  /\ UNCHANGED <<codec, bytesVars, bytesVecVars, vecVars, witnessVars, encoderVars>>
EncoderStep ==
  /\ codec = "encoder" /\ Enc!Next
  /\ UNCHANGED <<codec, stream, bytesVars, bytesVecVars, vecVars, vecTxVars, txVars,
                 witnessVars, callVars, seenVars>>

CodecsNext == BytesStep \/ VecStep \/ WitnessStep \/ TxStep \/ EncoderStep

\* A loop of a consumer of an encoder runs until the call returns.
CodecsSpec ==
  /\ CodecsInit /\ [][CodecsNext]_codecVars
  /\ WF_codecVars(EncoderStep /\ pc = "drain" /\ Enc!Drain)
  /\ WF_codecVars(EncoderStep /\ pc = "next" /\ Enc!NextByte)
  /\ WF_codecVars(EncoderStep /\ Enc!NthLoop)
  /\ WF_codecVars(EncoderStep /\ pc = "peek" /\ Enc!Peek)

-----------------------------------------------------------------------------
\* The types and bounds of the codec at work; among them, memory: to make a vector
\* decoder reserve memory for more than one batch a peer has to send the bytes before it.
CodecTypeOK ==
  /\ codec = "bytes" => Bytes!ByteVecTypeOK
  /\ codec = "vec" => Vec!VecTypeOK
  /\ codec = "witness" => WitnessTypeOK
  /\ codec = "transaction" => Tx!TransactionTypeOK
  /\ codec = "encoder" => Enc!EncoderTypeOK

\* What the caller sees of the decoder at work, as DecoderContract describes it.
IsDecoder == codec # "encoder"
decoderTotal ==
  CASE codec = "bytes" -> Bytes!Total [] codec = "vec" -> Vec!Total
    [] codec = "witness" -> total [] codec = "transaction" -> Tx!Total [] OTHER -> 0
decoderVerdict ==
  CASE codec = "bytes" -> Bytes!Verdict [] codec = "vec" -> Vec!Verdict
    [] codec = "witness" -> verdict [] codec = "transaction" -> Tx!Verdict [] OTHER -> "ok"
decoderPos == IF IsDecoder THEN pos ELSE 0
decoderPhase == IF IsDecoder THEN phase ELSE "more"
decoderLimit ==
  CASE codec = "bytes" -> (IF phase = "failed" THEN 0 ELSE Bytes!read_limit)
    [] codec = "vec" -> (IF phase = "failed" THEN 0 ELSE limit)
    [] codec = "witness" -> (IF phase \in {"more", "err"} THEN limit ELSE 0)
    [] codec = "transaction" -> (IF phase = "failed" THEN 0 ELSE limit)
    [] OTHER -> 0
Trait == INSTANCE DecoderContract WITH
  total <- decoderTotal, verdict <- decoderVerdict, pos <- decoderPos, phase <- decoderPhase,
  limit <- decoderLimit

\* Every one of the decoders keeps the promises of the Decoder trait, however its stream
\* is cut into slices and whenever end is called: it stops exactly behind its encoding,
\* never asks for bytes behind it, accepts exactly what the stream as a whole spells, and
\* a push that asks for more has made progress.
DecodersKeepTheContract ==
  /\ Trait!Spec
  /\ [](codec = "bytes" => Bytes!NeverStalls)
  /\ [][codec = "vec" => Vec!PushMoves]_codecVars

\* ByteVecDecoder.BufferIsPayload, VecDecoder.VecAligned: what a vector decoder has
\* collected is what the stream holds up to the byte it stands at.
VectorsAreThePayload ==
  /\ codec = "bytes" => Bytes!BufferIsPayload
  /\ codec = "vec" => Vec!VecAligned

\* Witness.RepresentsList: equal lists of elements have equal buffers, however they arose.
WitnessRepresentsList == codec = "witness" => RepresentsList

\* Witness.ItemsAreLimited, the documentation of MAX_WITNESS_ITEM_SIZE: no element of a
\* decoded witness is longer.
WitnessItemsAreLimited == codec = "witness" => ItemsAreLimited

\* TransactionDecoder.DecoderMatchesField and DecodedEncodesBack: each field is read by
\* its own decoder, and what is accepted encodes back to the same bytes.
TransactionIsItsEncoding ==
  codec = "transaction" => Tx!DecoderMatchesField /\ Tx!DecodedEncodesBack

\* Encoders.AnswersAreTheEncoding: whichever calls drain or walk an encoder, the bytes
\* come out once, in order and completely.
AnswersAreTheEncoding == codec = "encoder" => Enc!AnswersAreTheEncoding

\* Every call of a consumer of an encoder returns: no combinator keeps answering HasMore
\* without moving on.
CallsReturn ==
  codec = "encoder" /\ pc \in {"drain", "next", "nth", "peek"} ~> pc \in {"idle", "done"}

=============================================================================
