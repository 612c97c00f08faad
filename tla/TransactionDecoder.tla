------------------------- MODULE TransactionDecoder -------------------------
(***************************************************************************)
(* TransactionDecoder of primitives/src/transaction.rs: a state machine    *)
(* over the decoders of a transaction's fields, which has to find out from *)
(* the bytes whether it reads the original or the segwit serialization.    *)
(*                                                                         *)
(* The decoder of a field is any decoder of DecoderContract; the bytes of  *)
(* a field are counted and its value is known when its decoder ends.  The  *)
(* stream is a sequence of fields; one of them may be rejected by its own  *)
(* decoder.  The marker of the segwit serialization is an empty vector of  *)
(* inputs.                                                                 *)
(***************************************************************************)
EXTENDS Integers, Sequences, FiniteSets, FiniteSetsExt

CONSTANTS
  InputLists,        \* vectors of inputs as on the wire: [prevout, script length]
  OutputLists,       \* vectors of outputs: their values, each within MAX_MONEY
  COINBASE_PREVOUT,  \* the null outpoint
  MAX_MONEY,
  BadStreams         \* the streams in which a field may be rejected by its decoder

TransactionAssumption ==
  /\ MAX_MONEY \in Nat
  /\ \A outs \in OutputLists : outs \in Seq(0..MAX_MONEY)
  /\ \A ins \in InputLists :
       /\ ins \in Seq({ins[i] : i \in DOMAIN ins})
       /\ \A i \in DOMAIN ins :
            /\ ins[i] = [prevout |-> ins[i].prevout, script |-> ins[i].script]
            /\ ins[i].script \in Nat

VARIABLES
  stream, badAt, badAs,    \* the fields on the wire, and the one rejected (0: none)
  isEncoding,              \* whether they are the encoding of a valid transaction
  state,                   \* TransactionDecoderState
  attempt, is_segwit, iteration, inputs, outputs,   \* what the states carry
  at, fpos, fphase, flimit,   \* the field being read and the state of its decoder
  pc, rest,                \* the running call, bytes left in its slice
  phase, pos, limit        \* what the caller saw last

input == <<stream, badAt, badAs, isEncoding>>
carried == <<attempt, is_segwit, iteration, inputs, outputs>>
decoder == <<fpos, fphase, flimit>>
seen == <<phase, pos, limit>>
vars == <<input, state, carried, at, decoder, pc, rest, seen>>

-----------------------------------------------------------------------------
(* Transactions and what they look like on the wire. *)

Field(kind, value) == [kind |-> kind, value |-> value]

Size(field) ==
  IF field.kind \in {"Inputs", "Outputs", "Witnesses"} THEN 1 + Len(field.value)
  ELSE 1

\* A transaction's inputs are those of the wire, each with a witness.
WithWitness(in, w) == [prevout |-> in.prevout, script |-> in.script, witness |-> w]
Bare(in) == [prevout |-> in.prevout, script |-> in.script]
Witnesses == {<<>>, <<"item">>}

uses_segwit_serialization(tx) ==
  \/ \E i \in DOMAIN tx.inputs : tx.inputs[i].witness # <<>>
  \/ tx.inputs = <<>>

Encode(tx) ==
  LET ins == Field("Inputs", [i \in DOMAIN tx.inputs |-> Bare(tx.inputs[i])])
      outs == Field("Outputs", tx.outputs)
      marked == <<Field("Inputs", <<>>), Field("SegwitFlag", <<1>>)>>
      witnesses == [i \in DOMAIN tx.inputs |-> Field("Witnesses", tx.inputs[i].witness)]
  IN  <<Field("Version", <<>>)>>
        \o (IF uses_segwit_serialization(tx)
              THEN marked \o <<ins, outs>> \o witnesses
              ELSE <<ins, outs>>)
        \o <<Field("LockTime", <<>>)>>

Txs ==
  UNION {{[inputs |-> [i \in DOMAIN ins |-> WithWitness(ins[i], w[i])], outputs |-> outs] :
            w \in [DOMAIN ins -> Witnesses], outs \in OutputLists} : ins \in InputLists}

\* The sum of the first k numbers of s.
SumUpTo(s, k) ==
  LET sum[i \in 0..k] == IF i = 0 THEN 0 ELSE sum[i - 1] + s[i]
  IN  sum[k]

\* What the consensus rules ask of a transaction by itself.
Valid(tx) ==
  LET prevouts == {tx.inputs[i].prevout : i \in DOMAIN tx.inputs}
  IN  /\ tx.outputs # <<>>
      /\ Cardinality(prevouts) = Len(tx.inputs)
      /\ COINBASE_PREVOUT \in prevouts =>
           Len(tx.inputs) = 1 /\ tx.inputs[1].script \in 2..100
      /\ SumUpTo(tx.outputs, Len(tx.outputs)) <= MAX_MONEY

Encodings == {Encode(tx) : tx \in {tx \in Txs : Valid(tx)}}

\* The streams: either serialization, of any content; behind a bad flag nothing is read.
Streams ==
  LET v == Field("Version", <<>>)
      t == Field("LockTime", <<>>)
      marker == Field("Inputs", <<>>)
      ins == {Field("Inputs", s) : s \in InputLists}
      outs == {Field("Outputs", s) : s \in OutputLists}
      witnesses(i) == {[j \in DOMAIN i.value |-> Field("Witnesses", w[j])] :
                         w \in [DOMAIN i.value -> Witnesses]}
  IN  {<<v, i, o, t>> : i \in ins \ {marker}, o \in outs}
        \cup {<<v, marker, Field("SegwitFlag", <<0>>), t>>}
        \cup UNION {{<<v, marker, Field("SegwitFlag", <<1>>), i, o>> \o w \o <<t>> :
                       o \in outs, w \in witnesses(i)} : i \in ins}

-----------------------------------------------------------------------------
(* The decoder of the field at hand. *)

Here == IF at <= Len(stream) THEN stream[at] ELSE Field("Beyond", <<>>)

D == INSTANCE DecoderContract WITH
  total <- Size(Here), verdict <- IF at = badAt THEN badAs ELSE "ok",
  pos <- fpos, phase <- fphase, limit <- flimit

\* What is at the place of the flag is not a decoder but a look at one byte.
read_limit ==
  IF state \in {"Done", "Errored"} THEN 0
  ELSE IF state = "SegwitFlag" THEN 1 ELSE flimit

TransactionInit ==
  /\ stream \in Streams
  /\ badAt \in IF stream \in BadStreams THEN 0..Len(stream) ELSE {0}
  /\ badAt # 0 => stream[badAt].kind # "SegwitFlag"
  /\ badAs \in IF badAt = 0 THEN {"ok"} ELSE {"badpush", "badend"}
  /\ isEncoding = (badAt = 0 /\ stream \in Encodings)
  /\ state = "Version"
  /\ attempt = "First" /\ is_segwit = FALSE /\ iteration = 0
  /\ inputs = <<>> /\ outputs = <<>>
  /\ at = 1 /\ D!Fresh
  /\ pc = "idle" /\ rest = 0
  /\ phase = "more" /\ pos = 0 /\ limit = flimit

-----------------------------------------------------------------------------
\* The bytes in front of the field at place k.
Before(k) == SumUpTo([i \in DOMAIN stream |-> Size(stream[i])], k - 1)

Return(answer) ==
  /\ pc' = "idle"
  /\ phase' = answer
  /\ pos' = Before(at') + fpos'
  /\ limit' = read_limit'

GoOn(where) == pc' = where /\ UNCHANGED seen

Fail == state' = "Errored" /\ UNCHANGED <<at, decoder>> /\ Return("failed")

\* The next state and the decoder it is entered with.
Enter(next) ==
  /\ state' = next
  /\ at' = at + 1
  /\ fpos' = 0 /\ fphase' = "more"
  /\ flimit' \in 1..Size(Here')
  /\ GoOn("push")

PushCall(n) ==
  /\ pc = "idle" /\ phase \in {"more", "ready"}
  /\ rest' = n
  /\ GoOn("push")
  /\ UNCHANGED <<input, state, carried, at, decoder>>

\* The decoder of the state is offered the slice.
PushField ==
  /\ pc = "push" /\ state \notin {"SegwitFlag", "Done", "Errored"}
  /\ UNCHANGED <<input, state, carried, at>>
  /\ D!Push(rest)
  /\ rest' = rest - (fpos' - fpos)
  /\ IF fphase' = "ready" THEN GoOn("end") ELSE Return(fphase')

\* It is complete: it is taken out of the state and ended.
EndField ==
  /\ pc = "end"
  /\ UNCHANGED <<input, carried, at, rest>>
  /\ D!End
  /\ IF fphase' = "ok"
       THEN GoOn("next") /\ UNCHANGED state
       ELSE state' = "Errored" /\ Return("failed")

Next(from) == pc = "next" /\ state = from /\ UNCHANGED <<input, rest>>

AfterVersion ==
  /\ Next("Version")
  /\ attempt' = "First"
  /\ Enter("Inputs")
  /\ UNCHANGED <<is_segwit, iteration, inputs, outputs>>

\* No inputs at the first attempt: that was the marker.
AfterInputs ==
  /\ Next("Inputs")
  /\ inputs' = [i \in DOMAIN Here.value |-> WithWitness(Here.value[i], <<>>)]
  /\ is_segwit' = (attempt = "Second")
  /\ Enter(IF attempt = "First" /\ inputs' = <<>> THEN "SegwitFlag" ELSE "Outputs")
  /\ UNCHANGED <<attempt, iteration, outputs>>

\* The flag is a byte of the slice, not a decoder's.
SegwitFlag ==
  /\ pc = "push" /\ state = "SegwitFlag"
  /\ UNCHANGED <<input, is_segwit, iteration, inputs, outputs>>
  /\ IF rest = 0
       THEN UNCHANGED <<state, attempt, at, decoder, rest>> /\ Return("more")
       ELSE /\ rest' = rest - 1
            /\ IF Here.value = <<1>>
                 THEN attempt' = "Second" /\ Enter("Inputs")
                 ELSE /\ state' = "Errored" /\ UNCHANGED <<attempt, at>>
                      /\ fpos' = 1 /\ UNCHANGED <<fphase, flimit>>
                      /\ Return("failed")

AfterOutputs ==
  /\ Next("Outputs")
  /\ outputs' = Here.value
  /\ iteration' = 0
  /\ Enter(IF is_segwit /\ inputs # <<>> THEN "Witnesses" ELSE "LockTime")
  /\ UNCHANGED <<attempt, is_segwit, inputs>>

\* Mutant: a segwit serialization without any witness passes.
AfterWitness_NoCheck ==
  /\ Next("Witnesses")
  /\ inputs' = [inputs EXCEPT ![iteration + 1].witness = Here.value]
  /\ UNCHANGED <<attempt, is_segwit, outputs>>
  /\ IF iteration < Len(inputs) - 1
       THEN iteration' = iteration + 1 /\ Enter("Witnesses")
       ELSE iteration' = iteration /\ Enter("LockTime")

AfterWitness ==
  /\ Next("Witnesses")
  /\ inputs' = [inputs EXCEPT ![iteration + 1].witness = Here.value]
  /\ UNCHANGED <<attempt, is_segwit, outputs>>
  /\ IF iteration < Len(inputs) - 1
       THEN iteration' = iteration + 1 /\ Enter("Witnesses")
       ELSE /\ iteration' = iteration
            /\ IF \A i \in DOMAIN inputs' : inputs'[i].witness = <<>>
                 THEN Fail
                 ELSE Enter("LockTime")

AfterLockTime ==
  /\ Next("LockTime")
  /\ state' = "Done"
  /\ UNCHANGED <<carried, at, decoder>>
  /\ Return("ready")

PushDone ==
  /\ pc = "push" /\ state = "Done"
  /\ UNCHANGED <<input, state, carried, at, decoder, rest>>
  /\ Return("ready")

\* The checks of `end'.  Equal outpoints are neighbours once they are sorted; the sum
\* is checked after every output.
TxRejected(ins, outs) ==
  \/ outs = <<>>
  \/ Len(ins) > 1 /\ \E i \in DOMAIN ins : ins[i].prevout = COINBASE_PREVOUT
  \/ /\ Len(ins) = 1 /\ ins[1].prevout = COINBASE_PREVOUT
     /\ ins[1].script < 2 \/ ins[1].script > 100
  \/ \E i, j \in DOMAIN ins : i # j /\ ins[i].prevout = ins[j].prevout
  \/ \E k \in DOMAIN outs : SumUpTo(outs, k) > MAX_MONEY

End ==
  /\ pc = "idle" /\ phase \in {"more", "ready"}
  /\ phase' = IF state = "Done" /\ ~TxRejected(inputs, outputs) THEN "ok" ELSE "err"
  /\ UNCHANGED <<input, state, carried, at, decoder, pc, rest, pos, limit>>

Returned == phase \in {"failed", "ok", "err"} /\ UNCHANGED vars

\* Where the first rejection on the way lies.
Stops ==
  {k \in DOMAIN stream :
     \/ k = badAt
     \/ stream[k].kind = "SegwitFlag" /\ stream[k].value # <<1>>
     \/ /\ k = Len(stream) - 1 /\ stream[k].kind = "Witnesses"
        /\ \A i \in DOMAIN stream : stream[i].kind = "Witnesses" => stream[i].value = <<>>}
Total == Before(1 + Min(Stops \cup {Len(stream)}))

TransactionNext ==
  \/ \E n \in 0..(Total - pos + 1) : PushCall(n)    \* a byte more than it needs
  \/ PushField \/ EndField
  \/ AfterVersion \/ AfterInputs \/ SegwitFlag \/ AfterOutputs \/ AfterWitness \/ AfterLockTime
  \/ PushDone \/ End
  \/ Returned

TransactionSpec == TransactionInit /\ [][TransactionNext]_vars

-----------------------------------------------------------------------------
\* Types; a witness is only read for an input there is.
TransactionTypeOK ==
  /\ state \in {"Version", "Inputs", "SegwitFlag", "Outputs", "Witnesses", "LockTime",
                "Done", "Errored"}
  /\ attempt \in {"First", "Second"} /\ is_segwit \in BOOLEAN
  /\ [i \in DOMAIN inputs |-> Bare(inputs[i])] \in InputLists \cup {<<>>}
  /\ outputs \in OutputLists \cup {<<>>}
  /\ state = "Witnesses" => iteration \in 0..(Len(inputs) - 1)
  /\ at \in DOMAIN stream
  /\ fpos \in 0..Size(Here) /\ fphase \in D!Phases /\ flimit \in 0..Size(Here)
  /\ pc \in {"idle", "push", "end", "next"}
  /\ rest \in 0..(Total + 1)
  /\ pc # "idle" => Before(at) + fpos + rest <= Total + 1

\* Every field is read by the decoder it is meant for, in both serializations, and the
\* witness that is read belongs to the input at the same place.
DecoderMatchesField ==
  /\ state \notin {"Done", "Errored"} => Here.kind = state
  /\ state = "Witnesses" => at = 6 + iteration

\* A decoded transaction encodes to the bytes it was decoded from, so there is no
\* second encoding of it: no superfluous segwit serialization and no witness at
\* another input.
DecodedEncodesBack ==
  phase = "ok" => Encode([inputs |-> inputs, outputs |-> outputs]) = stream

Verdict == IF isEncoding THEN "ok" ELSE IF Stops # {} THEN "badpush" ELSE "badend"

Contract == INSTANCE DecoderContract WITH
  total <- Total, verdict <- Verdict,
  pos <- pos, phase <- phase, limit <- IF phase = "failed" THEN 0 ELSE limit

\* The decoder keeps the promises of the trait: it stops behind the transaction, never
\* asks for more than the current field lacks, and accepts exactly the encodings of
\* valid transactions.
ImplementsDecoder == Contract!Spec

=============================================================================
