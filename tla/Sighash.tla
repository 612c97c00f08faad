------------------------------ MODULE Sighash ------------------------------
\* bitcoin::sighash: what a signature commits to.  SighashCache writes the signing data of
\* one input of a transaction: the legacy way, as BIP 143 for SegWit v0, as BIP 341 for
\* taproot.  The hashes that inputs share are computed when a call first needs them, are kept
\* in three caches that both newer kinds fill and read, and the witnesses may be written
\* between the calls.
\*
\* A hash is an injective tag over what it hashes; versions, amounts, scripts, outpoints and
\* outputs are opaque values, and the two halves of an outpoint count as one.
EXTENDS Naturals, Sequences, SequencesExt

CONSTANTS
  Transactions,     \* records: version, lock_time, inputs (outpoint, sequence), outputs
  PreviousOutputs,  \* what the transactions spend: lists of amount and script_pubkey
  RawTypes          \* the u32 types a legacy caller passes

VARIABLES
  tx,        \* the transactions of the two signers "ours" and "theirs"
  spent,     \* the previous outputs that each signer passes in
  change,    \* the one thing in which theirs differ from ours
  cache,     \* the caches of each signer
  call,      \* the last call, which both have made
  answer     \* what each has got

sighashVars == <<tx, spent, change, cache, call, answer>>

Sides == {"ours", "theirs"}
Bases == {"Default", "All", "None", "Single"}

Empty == <<>>
Hash(data) == <<"hash", data>>
ZeroHash == <<"zero">>
Ok(data) == <<"ok", data>>
Err(name) == <<"err", name>>

(***************************** Types of signature hash ****************************)

\* EcdsaSighashType::from_consensus and split_anyonecanpay_flag: of the u32 only bits 0 to 4
\* and 7 are looked at, and what is left over counts as All.
from_consensus(n) ==
  LET low == n % 32
  IN  [base |-> CASE low = 2 -> "None" [] low = 3 -> "Single" [] OTHER -> "All",
       anyone_can_pay |-> (n \div 128) % 2 = 1]

\* EcdsaSighashType::to_u32, TapSighashType as u8.
to_u32(ty) ==
  (IF ty.anyone_can_pay THEN 128 ELSE 0)
    + (CASE ty.base = "Default" -> 0 [] ty.base = "All" -> 1
         [] ty.base = "None" -> 2 [] ty.base = "Single" -> 3)

EcdsaTypes == [base : Bases \ {"Default"}, anyone_can_pay : BOOLEAN]
TapTypes == EcdsaTypes \cup {[base |-> "Default", anyone_can_pay |-> FALSE]}

\* TapSighashType::from_consensus_u8: the seven bytes that BIP 341 allows.
from_consensus_u8(n) ==
  IF \E ty \in TapTypes : to_u32(ty) = n
    THEN Ok(CHOOSE ty \in TapTypes : to_u32(ty) = n) ELSE Err("InvalidSighashType")

\* EcdsaSighashType::from_standard.
from_standard(n) ==
  IF \E ty \in EcdsaTypes : to_u32(ty) = n
    THEN Ok(CHOOSE ty \in EcdsaTypes : to_u32(ty) = n) ELSE Err("NonStandardSighashType")

(************************************ The caches **********************************)

NoCaches == [common |-> Empty, segwit |-> Empty, taproot |-> Empty]

Field(list, name) == [n \in DOMAIN list |-> list[n][name]]

\* SighashCache::common_cache_minimal_borrow: computed once, from the whole transaction.
with_common(c, t) ==
  IF c.common # Empty THEN c
  ELSE [c EXCEPT !.common = [prevouts |-> Hash(Field(t.inputs, "outpoint")),
                             sequences |-> Hash(Field(t.inputs, "sequence")),
                             outputs |-> Hash(t.outputs)]]

\* SighashCache::segwit_cache: one more round of SHA256 over the common cache.
with_segwit(c, t) ==
  IF c.segwit # Empty THEN c
  ELSE LET d == with_common(c, t)
       IN  [d EXCEPT !.segwit = [name \in DOMAIN d.common |-> Hash(d.common[name])]]

\* SighashCache::taproot_cache: computed from the previous outputs of the first call that
\* needs it, whatever the later ones pass.
with_taproot(c, prevouts) ==
  IF c.taproot # Empty THEN c
  ELSE [c EXCEPT !.taproot = [amounts |-> Hash(Field(prevouts, "amount")),
                              script_pubkeys |-> Hash(Field(prevouts, "script"))]]

(************************************* Taproot ************************************)

\* Prevouts::check_all and Prevouts::get.  A list of previous outputs has the kind All, a
\* single one names the input it belongs to.
check_all(prevouts, t) == prevouts.kind = "All" => Len(prevouts.list) = Len(t.inputs)
get(prevouts, i) ==
  IF prevouts.kind = "One"
    THEN IF i = prevouts.index THEN Ok(prevouts.list[1]) ELSE Err("InvalidOneIndex")
    ELSE IF i <= Len(prevouts.list) THEN Ok(prevouts.list[i]) ELSE Err("InvalidAllIndex")

\* The caches that a taproot call leaves behind, one that fails with PrevoutsKind included:
\* the common cache is asked for before the previous outputs are.
TaprootCaches(c, t, k) ==
  LET shared == IF k.ty.anyone_can_pay THEN c ELSE with_common(c, t)
      taproot == IF k.ty.anyone_can_pay \/ k.prevouts.kind = "One" THEN shared
                 ELSE with_taproot(shared, k.prevouts.list)
  IN  IF ~check_all(k.prevouts, t) THEN c
      ELSE IF k.ty.base \in {"None", "Single"} THEN taproot
      ELSE IF k.prevouts.kind = "One" /\ ~k.ty.anyone_can_pay THEN taproot
      ELSE with_common(taproot, t)

\* SighashCache::taproot_encode_signing_data_to, with the caches it has filled in d.  Without
\* ANYONECANPAY no one looks whether the input is there.
taproot_encode_signing_data(d, t, k) ==
  LET previous == get(k.prevouts, k.index)
      shared == IF k.ty.anyone_can_pay THEN <<>>
                ELSE <<d.common.prevouts, d.taproot.amounts, d.taproot.script_pubkeys,
                       d.common.sequences>>
      outputs == IF k.ty.base \in {"None", "Single"} THEN <<>> ELSE <<d.common.outputs>>
      own == IF k.ty.anyone_can_pay
               THEN <<t.inputs[k.index].outpoint, previous[2].amount, previous[2].script,
                      t.inputs[k.index].sequence>>
               ELSE <<k.index>>
      annex == IF k.annex = Empty THEN <<>> ELSE <<Hash(k.annex)>>
      single == IF k.ty.base = "Single" THEN <<Hash(t.outputs[k.index])>> ELSE <<>>
      spend_type == (IF k.annex # Empty THEN 1 ELSE 0) + (IF k.leaf # Empty THEN 2 ELSE 0)
  IN  IF ~check_all(k.prevouts, t) THEN Err("PrevoutsSize")
      ELSE IF ~k.ty.anyone_can_pay /\ k.prevouts.kind = "One" THEN Err("PrevoutsKind")
      ELSE IF k.ty.anyone_can_pay /\ k.index > Len(t.inputs) THEN Err("InputsIndex")
      ELSE IF k.ty.anyone_can_pay /\ previous[1] = "err" THEN previous
      ELSE IF k.ty.base = "Single" /\ k.index > Len(t.outputs) THEN Err("SingleMissingOutput")
      ELSE Ok(<<to_u32(k.ty), t.version, t.lock_time, shared, outputs, spend_type, own, annex,
                single, k.leaf>>)

(************************************ SegWit v0 ***********************************)

SegwitCaches(c, t, k) ==
  IF ~k.ty.anyone_can_pay \/ (k.ty.base = "All" /\ k.index <= Len(t.inputs))
    THEN with_segwit(c, t) ELSE c

\* Mutant: a signature that leaves the outputs to others keeps the sequences of the others.
CommitsSequences_Always(ty) == ~ty.anyone_can_pay
CommitsSequences(ty) == ~ty.anyone_can_pay /\ ty.base \notin {"Single", "None"}

\* SighashCache::segwit_v0_encode_signing_data_to.
segwit_v0_encode_signing_data(d, t, k) ==
  LET input == t.inputs[k.index]
      prevouts == IF k.ty.anyone_can_pay THEN ZeroHash ELSE d.segwit.prevouts
      sequences == IF CommitsSequences(k.ty) THEN d.segwit.sequences ELSE ZeroHash
      outputs == IF k.ty.base \notin {"Single", "None"} THEN d.segwit.outputs
                 ELSE IF k.ty.base = "Single" /\ k.index <= Len(t.outputs)
                        THEN Hash(Hash(t.outputs[k.index]))
                 ELSE ZeroHash
  IN  IF k.index > Len(t.inputs) THEN Err("InputsIndex")
      ELSE Ok(<<t.version, prevouts, sequences, input.outpoint, k.code, k.amount,
                input.sequence, outputs, t.lock_time, to_u32(k.ty)>>)

(************************************** Legacy ************************************)

\* is_invalid_use_of_sighash_single: no output belongs to the input.
is_invalid_use_of_sighash_single(raw, i, outputs_len) ==
  from_consensus(raw).base = "Single" /\ i > outputs_len

LegacyInputs(t, k, ty) ==
  IF ty.anyone_can_pay
    THEN <<[outpoint |-> t.inputs[k.index].outpoint, code |-> k.code,
            sequence |-> t.inputs[k.index].sequence]>>
    ELSE [n \in DOMAIN t.inputs |->
            [outpoint |-> t.inputs[n].outpoint,
             code |-> IF n = k.index THEN k.code ELSE Empty,
             sequence |-> IF n # k.index /\ ty.base \in {"Single", "None"} THEN 0
                          ELSE t.inputs[n].sequence]]

\* All outputs; those up to this input's, all but the last one erased; or none.
NullOut == 0
LegacyOutputs(t, k, ty) ==
  CASE ty.base = "All" -> t.outputs
    [] ty.base = "None" -> <<>>
    [] ty.base = "Single" -> [n \in 1 .. k.index |-> IF n = k.index THEN t.outputs[n]
                                                     ELSE NullOut]

\* SighashCache::legacy_encode_signing_data_to and legacy_signature_hash.  The caller's whole
\* u32 is signed; the hash of the SIGHASH_SINGLE bug is the number one.
legacy_signature_hash(t, k) ==
  LET ty == from_consensus(k.raw)
  IN  IF k.index > Len(t.inputs) THEN Err("InputsIndex")
      ELSE IF is_invalid_use_of_sighash_single(k.raw, k.index, Len(t.outputs)) THEN Ok(<<1>>)
      ELSE Ok(<<t.version, LegacyInputs(t, k, ty), LegacyOutputs(t, k, ty), t.lock_time,
                k.raw>>)

(*********************************** Two signers **********************************)

\* What a transaction, its previous outputs and a call are made of, as far as signatures
\* tell apart.
Changes(t) ==
  {<<"nothing">>, <<"version">>, <<"lock_time">>, <<"annex">>, <<"leaf">>, <<"code">>,
   <<"new_output">>, <<"sighash_type">>}
    \cup {"outpoint", "sequence", "amount", "script"} \X DOMAIN t.inputs
    \cup {"output"} \X DOMAIN t.outputs

TxWith(t, c) ==
  CASE c[1] = "version" -> [t EXCEPT !.version = @ + 1]
    [] c[1] = "lock_time" -> [t EXCEPT !.lock_time = @ + 1]
    [] c[1] = "outpoint" -> [t EXCEPT !.inputs[c[2]].outpoint = @ + 100]
    [] c[1] = "sequence" -> [t EXCEPT !.inputs[c[2]].sequence = @ + 100]
    [] c[1] = "output" -> [t EXCEPT !.outputs[c[2]] = @ + 100]
    [] c[1] = "new_output" -> [t EXCEPT !.outputs = Append(@, 100)]
    [] OTHER -> t

SpentWith(list, c) ==
  CASE c[1] = "amount" -> [list EXCEPT ![c[2]].amount = @ + 100]
    [] c[1] = "script" -> [list EXCEPT ![c[2]].script = @ + 100]
    [] OTHER -> list

NoCall == [kind |-> "none"]

SighashInit ==
  /\ \E t \in Transactions, list \in PreviousOutputs :
       /\ Len(list) = Len(t.inputs)
       /\ \E c \in Changes(t) :
            /\ change = c
            /\ tx = [side \in Sides |-> IF side = "ours" THEN t ELSE TxWith(t, c)]
            /\ spent = [side \in Sides |-> IF side = "ours" THEN list
                                           ELSE SpentWith(list, c)]
  /\ cache = [side \in Sides |-> NoCaches]
  /\ call = NoCall
  /\ answer = [side \in Sides |-> Err("NotAsked")]

\* An argument of the call, which the other signer passes altered if that is the change.
Argument(side, name, v) ==
  IF side = "theirs" /\ change = <<name>> THEN Append(v, 9) ELSE v

OtherType(side, ty) ==
  IF side = "theirs" /\ change = <<"sighash_type">>
    THEN [ty EXCEPT !.anyone_can_pay = ty.base # "Default" /\ ~@,
                    !.base = IF @ = "Default" THEN "All" ELSE @]
    ELSE ty

Indices == 1 .. Len(tx["ours"].inputs) + 1

\* taproot_signature_hash, taproot_key_spend_signature_hash (neither annex nor leaf) and
\* taproot_script_spend_signature_hash (a leaf and no annex).
TaprootCall(i, ty, annex, leaf, one) ==
  LET Asked(side) ==
        [kind |-> "taproot", index |-> i, ty |-> OtherType(side, ty),
         annex |-> IF annex = Empty THEN Empty ELSE Argument(side, "annex", annex),
         leaf |-> IF leaf = Empty THEN Empty ELSE Argument(side, "leaf", leaf),
         prevouts |-> IF one THEN [kind |-> "One", index |-> i,
                                   list |-> <<spent[side][i]>>]
                      ELSE [kind |-> "All", list |-> spent[side]]]
  IN  /\ one => i \in DOMAIN spent["ours"]
      /\ call' = Asked("ours")
      /\ cache' = [side \in Sides |-> TaprootCaches(cache[side], tx[side], Asked(side))]
      /\ answer' = [side \in Sides |->
                      taproot_encode_signing_data(cache'[side], tx[side], Asked(side))]
      /\ UNCHANGED <<tx, spent, change>>

\* p2wpkh_signature_hash and p2wsh_signature_hash.
SegwitCall(i, ty) ==
  LET Asked(side) ==
        [kind |-> "segwit", index |-> i, ty |-> OtherType(side, ty),
         code |-> Argument(side, "code", <<1>>),
         amount |-> IF i \in DOMAIN spent[side] THEN spent[side][i].amount ELSE 0]
  IN  /\ call' = Asked("ours")
      /\ cache' = [side \in Sides |-> SegwitCaches(cache[side], tx[side], Asked(side))]
      /\ answer' = [side \in Sides |->
                      segwit_v0_encode_signing_data(cache'[side], tx[side], Asked(side))]
      /\ UNCHANGED <<tx, spent, change>>

LegacyCall(i, raw) ==
  LET Asked(side) ==
        [kind |-> "legacy", index |-> i,
         raw |-> IF side = "theirs" /\ change = <<"sighash_type">> THEN raw + 256 ELSE raw,
         code |-> Argument(side, "code", <<1>>)]
  IN  /\ call' = Asked("ours")
      /\ answer' = [side \in Sides |-> legacy_signature_hash(tx[side], Asked(side))]
      /\ UNCHANGED <<tx, spent, change, cache>>

\* The caller takes the answer and writes a witness, which no hash covers (witness_mut).
witness_mut ==
  /\ call # NoCall
  /\ call' = NoCall
  /\ answer' = [side \in Sides |-> Err("NotAsked")]
  /\ UNCHANGED <<tx, spent, change, cache>>

SighashNext ==
  \/ witness_mut
  \/ /\ call = NoCall
     /\ \E i \in Indices :
          \/ \E ty \in TapTypes, annex \in {Empty, <<80>>}, leaf \in {Empty, <<7>>},
                one \in BOOLEAN : TaprootCall(i, ty, annex, leaf, one)
          \/ \E ty \in EcdsaTypes : SegwitCall(i, ty)
          \/ \E raw \in RawTypes : LegacyCall(i, raw)

(************************************ Properties **********************************)

\* What BIP 341, BIP 143 and the original scheme let a signature of the given kind and type
\* commit to: the change c of a transaction is seen by the call k.
Base(k) == IF k.kind = "legacy" THEN from_consensus(k.raw).base ELSE k.ty.base
Acp(k) == IF k.kind = "legacy" THEN from_consensus(k.raw).anyone_can_pay
          ELSE k.ty.anyone_can_pay

CommittedInput(k, c) ==
  CASE c[1] = "outpoint" -> ~Acp(k) \/ c[2] = k.index
    [] c[1] = "sequence" ->
         \/ c[2] = k.index
         \/ ~Acp(k) /\ (k.kind = "taproot" \/ Base(k) \notin {"None", "Single"})
    [] c[1] \in {"amount", "script"} ->
         \/ k.kind = "taproot" /\ (~Acp(k) \/ c[2] = k.index)
         \/ k.kind = "segwit" /\ c = <<"amount", k.index>>
    [] OTHER -> FALSE

CommittedOutput(k, c, outputs_len) ==
  CASE c[1] = "output" -> \/ Base(k) \in {"Default", "All"}
                          \/ Base(k) = "Single" /\ c[2] = k.index
    [] c[1] = "new_output" -> \/ Base(k) \in {"Default", "All"}
                              \/ Base(k) = "Single" /\ k.index = outputs_len + 1
    [] OTHER -> FALSE

CommittedWhole(k, c) ==
  CASE c[1] \in {"version", "lock_time", "sighash_type"} -> TRUE
    [] c[1] = "annex" -> k.kind = "taproot" /\ k.annex # Empty
    [] c[1] = "leaf" -> k.kind = "taproot" /\ k.leaf # Empty
    [] c[1] = "code" -> k.kind # "taproot"
    [] OTHER -> FALSE

\* Under the SIGHASH_SINGLE bug a legacy signature commits to nothing at all.
Committed(k, c, outputs_len) ==
  /\ ~ /\ k.kind = "legacy" /\ Base(k) = "Single" /\ k.index > outputs_len
       /\ c # <<"new_output">>
  /\ CommittedInput(k, c) \/ CommittedOutput(k, c, outputs_len) \/ CommittedWhole(k, c)

\* A signer asked once more, with nothing computed yet.
Fresh(side, k) ==
  CASE k.kind = "taproot" ->
         taproot_encode_signing_data(TaprootCaches(NoCaches, tx[side], k), tx[side], k)
    [] k.kind = "segwit" ->
         segwit_v0_encode_signing_data(SegwitCaches(NoCaches, tx[side], k), tx[side], k)
    [] k.kind = "legacy" -> legacy_signature_hash(tx[side], k)

\* The types that a caller can name survive the way through the wire.
TypesRoundTrip ==
  /\ \A ty \in TapTypes : from_consensus_u8(to_u32(ty)) = Ok(ty)
  /\ \A ty \in EcdsaTypes :
       from_standard(to_u32(ty)) = Ok(ty) /\ from_consensus(to_u32(ty)) = ty

\* Two signers who differ in one thing are asked for the same signature, after any calls of
\* any kind: their signing data is the same exactly if the type of the signature leaves that
\* thing out, and it is what they would say with empty caches.  A field that a type forgets,
\* one it should not sign, and a cache filled by a call of another kind all show here.
SighashCommits ==
  /\ TypesRoundTrip
  /\ call # NoCall => answer["ours"] = Fresh("ours", call)
  /\ answer["ours"][1] = "ok" /\ answer["theirs"][1] = "ok" =>
       (answer["ours"] = answer["theirs"] <=>
          ~Committed(call, change, Len(tx["ours"].outputs)))

=============================================================================
