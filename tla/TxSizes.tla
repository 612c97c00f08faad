------------------------------ MODULE TxSizes ------------------------------
\* bitcoin::transaction: the size and the weight of a transaction while a wallet puts it
\* together, and the weight that InputWeightPrediction and predict_weight promise before any
\* signature is there.  Scripts and witness items are their lengths.
EXTENDS Naturals, Sequences, SequencesExt

CONSTANTS
  COMPACT_1, COMPACT_3, COMPACT_5,   \* the largest lengths that take 1, 3 and 5 bytes
  U32,                               \* 2^32
  ScriptLengths, Witnesses,          \* what a wallet puts in
  MaxInputs, MaxOutputs              \* bounds

TxSizesAssumption ==
  /\ COMPACT_1 \in Nat /\ COMPACT_3 \in Nat /\ COMPACT_5 \in Nat /\ U32 \in Nat
  /\ COMPACT_1 < COMPACT_3 /\ COMPACT_3 < COMPACT_5 /\ COMPACT_5 < U32

VARIABLES
  inputs,      \* records: script_sig, witness
  outputs      \* lengths of script_pubkeys

sizeVars == <<inputs, outputs>>

Sum(Of(_), list) == FoldLeft(LAMBDA total, x : total + Of(x), 0, list)

\* CompactSizeEncoder::encoded_size.
encoded_size(n) ==
  CASE n <= COMPACT_1 -> 1
    [] n > COMPACT_1 /\ n <= COMPACT_3 -> 3
    [] n > COMPACT_3 /\ n <= COMPACT_5 -> 5
    [] n > COMPACT_5 -> 9
Prefixed(n) == encoded_size(n) + n

(************************************** Sizes *************************************)

\* Witness::size.
witness_size(w) == encoded_size(Len(w)) + Sum(Prefixed, w)

\* TxInExt, TxOutExt.  An input is an outpoint of 36 bytes, its script, four of sequence.
input_base_size(i) == 36 + Prefixed(i.script_sig) + 4
input_total_size(i) == input_base_size(i) + witness_size(i.witness)
legacy_weight(i) == input_base_size(i) * 4
segwit_weight(i) == input_base_size(i) * 4 + witness_size(i.witness)
output_size(len) == 8 + Prefixed(len)
output_weight(len) == output_size(len) * 4

\* TransactionExtPriv::uses_segwit_serialization.
uses_segwit_serialization(ins) == ins = <<>> \/ \E k \in DOMAIN ins : ins[k].witness # <<>>

\* TransactionExt: base_size, total_size, weight and vsize.
base_size(ins, outs) ==
  4 + encoded_size(Len(ins)) + Sum(input_base_size, ins)
    + encoded_size(Len(outs)) + Sum(output_size, outs) + 4
total_size(ins, outs) ==
  IF uses_segwit_serialization(ins)
    THEN 4 + 2 + encoded_size(Len(ins)) + Sum(input_total_size, ins)
           + encoded_size(Len(outs)) + Sum(output_size, outs) + 4
    ELSE base_size(ins, outs)
weight(ins, outs) == base_size(ins, outs) * 3 + total_size(ins, outs)
vsize(ins, outs) == (weight(ins, outs) + 3) \div 4

\* BlockCheckedExt::weight and total_size, for a block of the given transactions.
block_total_size(txs) ==
  80 + encoded_size(Len(txs)) + Sum(LAMBDA tx : total_size(tx.inputs, tx.outputs), txs)
block_base_size(txs) ==
  80 + encoded_size(Len(txs)) + Sum(LAMBDA tx : base_size(tx.inputs, tx.outputs), txs)
block_weight(txs) == block_base_size(txs) * 3 + block_total_size(txs)

(*********************************** Predictions **********************************)

Saturated(n) == IF n > U32 - 1 THEN U32 - 1 ELSE n

\* InputWeightPrediction::from_slice, which saturates at every step, and new, which leaves
\* the last two additions to the u32.
Elements(w) == FoldLeft(LAMBDA sum, n : Saturated(sum + Saturated(Saturated(n) + encoded_size(n))),
                        0, w)
from_slice(script_len, w) ==
  [script_size |-> Saturated(Saturated(script_len) + encoded_size(script_len)),
   witness_size |-> IF w = <<>> THEN 0 ELSE Saturated(Elements(w) + encoded_size(Len(w)))]
new(script_len, w) ==
  [script_size |-> (Saturated(script_len) + encoded_size(script_len)) % U32,
   witness_size |-> IF w = <<>> THEN 0 ELSE (Elements(w) + encoded_size(Len(w))) % U32]

\* InputWeightPrediction::witness_weight, in a u32 that wraps in a release build (a debug build
\* panics), and total_weight, which adds the 160 units of an input without its script.
witness_weight(p) == (p.script_size * 4 + p.witness_size) % U32
total_weight(p) == 160 + witness_weight(p)

\* The marker, the flag, and the empty witness of every input that has none.
Markers(n, with_witness) == IF with_witness = 0 THEN 0 ELSE n - with_witness + 2

\* predict_weight, predict_weight_from_slices and predict_weight_internal.
predict_weight(predictions, script_lens) ==
  LET WithWitness(p) == IF p.witness_size > 0 THEN 1 ELSE 0
      inputs_with_witnesses == Sum(WithWitness, predictions)
      non_input_size == 4 + encoded_size(Len(predictions)) + encoded_size(Len(script_lens))
                          + 8 * Len(script_lens) + Sum(Prefixed, script_lens) + 4
  IN  non_input_size * 4 + Sum(total_weight, predictions)
        + Markers(Len(predictions), inputs_with_witnesses)

(************************************* Behaviour **********************************)

SizesInit == inputs = <<>> /\ outputs = <<>>

AddInput(len) ==
  /\ Len(inputs) < MaxInputs
  /\ inputs' = Append(inputs, [script_sig |-> len, witness |-> <<>>])
  /\ UNCHANGED outputs

AddOutput(len) ==
  Len(outputs) < MaxOutputs /\ outputs' = Append(outputs, len) /\ UNCHANGED inputs

\* The signature of an input comes, in its script or in its witness.
Sign(k, len, w) ==
  /\ inputs[k].witness = <<>>
  /\ inputs' = [inputs EXCEPT ![k] = [script_sig |-> len, witness |-> w]]
  /\ UNCHANGED outputs

SizesNext ==
  \/ \E len \in ScriptLengths : AddInput(len) \/ AddOutput(len)
  \/ \E k \in DOMAIN inputs, len \in ScriptLengths, w \in Witnesses \ {<<>>} : Sign(k, len, w)

(************************************ Properties **********************************)

\* The encoding of the transaction, as the encoders of primitives::transaction write it: the
\* bytes that every node sees and those that only witness-aware ones do.
Encoding ==
  LET Base(n) == <<"base", n>>
      Extra(n) == <<"witness", n>>
      segwit == inputs = <<>> \/ \E k \in DOMAIN inputs : Len(inputs[k].witness) > 0
      Witness(w) == <<Extra(encoded_size(Len(w)))>>
                      \o FlattenSeq([n \in DOMAIN w |-> <<Extra(encoded_size(w[n])), Extra(w[n])>>])
  IN  <<Base(4)>> \o (IF segwit THEN <<Extra(2)>> ELSE <<>>)
        \o <<Base(encoded_size(Len(inputs)))>>
        \o FlattenSeq([k \in DOMAIN inputs |->
             <<Base(36), Base(encoded_size(inputs[k].script_sig)), Base(inputs[k].script_sig),
               Base(4)>>])
        \o <<Base(encoded_size(Len(outputs)))>>
        \o FlattenSeq([k \in DOMAIN outputs |->
             <<Base(8), Base(encoded_size(outputs[k])), Base(outputs[k])>>])
        \o (IF segwit THEN FlattenSeq([k \in DOMAIN inputs |-> Witness(inputs[k].witness)])
            ELSE <<>>)
        \o <<Base(4)>>
Bytes(kinds) == Sum(LAMBDA piece : piece[2], SelectSeq(Encoding, LAMBDA p : p[1] \in kinds))

\* A prediction of an input as it is now, and whether it is within the u32.
Predicted(Make(_, _)) == [k \in DOMAIN inputs |-> Make(inputs[k].script_sig, inputs[k].witness)]
Fits(i) == input_base_size(i) * 4 - 160 + witness_size(i.witness) < U32

\* The sizes are those of the encoding, the weight counts what old nodes see four times, a
\* block weighs what its transactions do, and every prediction whose inputs stay within the
\* u32 is the weight of the transaction, from two units on for one without inputs.
SizesAreTheEncoding ==
  LET tx == [inputs |-> inputs, outputs |-> outputs]
  IN  /\ total_size(inputs, outputs) = Bytes({"base", "witness"})
      /\ base_size(inputs, outputs) = Bytes({"base"})
      /\ weight(inputs, outputs) = 4 * Bytes({"base"}) + Bytes({"witness"})
      /\ 4 * vsize(inputs, outputs) - weight(inputs, outputs) \in 0 .. 3
      /\ weight(inputs, outputs) =
           4 * (4 + encoded_size(Len(inputs)) + encoded_size(Len(outputs)) + 4)
             + Sum(output_weight, outputs)
             + (IF uses_segwit_serialization(inputs) THEN 2 + Sum(segwit_weight, inputs)
                ELSE Sum(legacy_weight, inputs))
      /\ block_weight(<<tx, tx>>) = 4 * (80 + encoded_size(2)) + 2 * weight(inputs, outputs)
      /\ (\A k \in DOMAIN inputs : Fits(inputs[k])) =>
           /\ Predicted(new) = Predicted(from_slice)
           /\ predict_weight(Predicted(from_slice), outputs)
                = weight(inputs, outputs) - (IF inputs = <<>> THEN 2 ELSE 0)

=============================================================================
