------------------------------ MODULE Addresses ------------------------------
(***************************************************************************)
(* bitcoin: the scripts of outputs, the addresses that stand for them, the *)
(* texts of the addresses, and what spending such outputs costs in         *)
(* signature operations.  Scripts and texts have their real sizes; a hash  *)
(* is a string of equal bytes.  The bech32 text of an address, which the   *)
(* bech32 crate writes and reads, is the record of what is in it.          *)
(***************************************************************************)
EXTENDS Integers, Sequences, SequencesExt

CONSTANTS
  ScriptPubkeys,       \* the scripts of outputs
  Texts,               \* texts of addresses that come from outside
  Spends,              \* inputs: what they spend, "none" if it is not known, and how
  Checksum(_)          \* of a base58 text
Networks == {"bitcoin", "testnet", "signet", "regtest"}

VARIABLES script, network, text, parsed, inputs
addressVars == <<script, network, text, parsed, inputs>>

none == <<-1>>              \* no bytes, where there may be some
no_text == [format |-> "none"]
not_parsed == <<"no">>
Result(ok, value) == IF ok THEN <<"ok", value>> ELSE <<"err">>

OP_RETURN == 106
OP_DUP == 118
OP_EQUAL == 135
OP_EQUALVERIFY == 136
OP_HASH160 == 169
OP_CHECKSIG == 172

S == INSTANCE Scripts WITH
       BYTE <- 256, MAX_DIRECT <- 75, MAX_NUM <- 16, OP_VERIFY <- 105, OP_CHECKSIG <- OP_CHECKSIG,
       RawScripts <- {}, Slices <- {}, Ints <- {}, MaxPushes <- 0, built <- <<>>
Text == INSTANCE Base58 WITH
       SHORT_OPT_BUFFER_LEN <- 128, Hash <- Checksum, Bytes <- {}, Payloads <- {}, MaxData <- 0,
       data <- <<>>

(******************************* Scripts of outputs *******************************)

\* WitnessVersion::try_from(Opcode), and Opcode::from(WitnessVersion).
try_from(opcode) ==
  IF opcode = 0 THEN 0 ELSE IF opcode \in 81 .. 96 THEN opcode - 80 ELSE -1
version_opcode(version) == IF version = 0 THEN 0 ELSE 80 + version

\* Script::witness_version, -1 for none.
witness_version(s) ==
  IF Len(s) \in 4 .. 42 /\ s[2] \in 2 .. 40 /\ Len(s) - 2 = s[2] THEN try_from(s[1]) ELSE -1
is_witness_program(s) == witness_version(s) # -1

is_p2wsh(s) == Len(s) = 34 /\ witness_version(s) = 0 /\ s[2] = 32
is_p2wpkh(s) == Len(s) = 22 /\ witness_version(s) = 0 /\ s[2] = 20
is_p2tr(s) == Len(s) = 34 /\ witness_version(s) = 1 /\ s[2] = 32
is_p2a(s) == Len(s) = 4 /\ witness_version(s) = 1 /\ s[2] = 2 /\ Tail(Tail(s)) = <<78, 115>>
is_p2sh(s) == Len(s) = 23 /\ s[1] = OP_HASH160 /\ s[2] = 20 /\ s[23] = OP_EQUAL
is_p2pkh(s) ==
  /\ Len(s) = 25 /\ s[1] = OP_DUP /\ s[2] = OP_HASH160 /\ s[3] = 20
  /\ s[24] = OP_EQUALVERIFY /\ s[25] = OP_CHECKSIG
is_op_return(s) == s # <<>> /\ s[1] = OP_RETURN
is_p2pk(s) == Len(s) \in {67, 35} /\ s[1] = Len(s) - 2 /\ Last(s) = OP_CHECKSIG

new_p2pkh(hash) ==
  <<OP_DUP, OP_HASH160>> \o S!push_slice(hash) \o <<OP_EQUALVERIFY, OP_CHECKSIG>>
new_p2sh(hash) == <<OP_HASH160>> \o S!push_slice(hash) \o <<OP_EQUAL>>
new_witness_program_unchecked(version, program) ==
  <<version_opcode(version)>> \o S!push_slice(program)

\* ScriptPubKeyExtPriv::minimal_non_dust_internal: what spending the output costs, in thirds
\* of its bytes; the fee is divided last.
minimal_non_dust(s, fee_per_kvb) ==
  LET spend == IF is_op_return(s) THEN 0
               ELSE 32 + 4 + 1 + (IF is_witness_program(s) THEN 107 \div 4 ELSE 107) + 4
                      + 8 + 1 + Len(s)
  IN  (fee_per_kvb * spend) \div 1000

(*********************************** Addresses ************************************)

\* NetworkKind::from(Network) and KnownHrp::from_network.
kind(n) == IF n = "bitcoin" THEN "main" ELSE "test"
from_network(n) == CASE n = "bitcoin" -> "bc" [] n = "regtest" -> "bcrt" [] OTHER -> "tb"

Legacy(type, hash, k) == [type |-> type, version |-> -1, payload |-> hash, net |-> k]
Segwit(version, program, hrp) ==
  [type |-> "segwit", version |-> version, payload |-> program, net |-> hrp]

\* WitnessProgram::new: a length that can be spent.
ProgramIsValid(version, program) ==
  Len(program) \in 2 .. 40 /\ (version = 0 => Len(program) \in {20, 32})

\* Address::from_script.
from_script(s, n) ==
  IF is_p2pkh(s) THEN Result(TRUE, Legacy("p2pkh", SubSeq(s, 4, 23), kind(n)))
  ELSE IF is_p2sh(s) THEN Result(TRUE, Legacy("p2sh", SubSeq(s, 3, 22), kind(n)))
  ELSE LET program == SubSeq(s, 3, Len(s))
       IN  Result(is_witness_program(s) /\ ProgramIsValid(witness_version(s), program),
                  Segwit(witness_version(s), program, from_network(n)))

\* Address::script_pubkey and Address::address_type.
script_pubkey(a) ==
  CASE a.type = "p2pkh" -> new_p2pkh(a.payload)
    [] a.type = "p2sh" -> new_p2sh(a.payload)
    [] OTHER -> new_witness_program_unchecked(a.version, a.payload)
address_type(a) ==
  IF a.type # "segwit" THEN a.type
  ELSE IF a.version = 0 THEN (IF Len(a.payload) = 20 THEN "p2wpkh" ELSE "p2wsh")
  ELSE IF a.version = 1 /\ Len(a.payload) = 32 THEN "p2tr"
  ELSE IF a.version = 1 /\ a.payload = <<78, 115>> THEN "p2a" ELSE "unknown"

\* Address::matches_script_pubkey.
matches_script_pubkey(a, s) ==
  \/ a.type = "p2pkh" /\ is_p2pkh(s) /\ SubSeq(s, 4, 23) = a.payload
  \/ a.type = "p2sh" /\ is_p2sh(s) /\ SubSeq(s, 3, 22) = a.payload
  \/ a.type = "segwit" /\ is_witness_program(s) /\ SubSeq(s, 3, Len(s)) = a.payload

\* The first byte of a legacy address.
prefix(type, k) ==
  CASE type = "p2pkh" /\ k = "main" -> 0 [] type = "p2sh" /\ k = "main" -> 5
    [] type = "p2pkh" /\ k = "test" -> 111 [] OTHER -> 196
Bech32(a) == [format |-> "bech32", hrp |-> a.net, version |-> a.version, program |-> a.payload]
Base58(digits) == [format |-> "base58", digits |-> digits]

\* Display for AddressInner.
Display(a) ==
  IF a.type = "segwit" THEN Bech32(a)
  ELSE Base58(Text!encode_unbounded(<<prefix(a.type, a.net)>> \o a.payload)[2])

\* bech32::segwit::decode: it checks what WitnessProgram::new will.
bech32_decode(t) == t.version \in 0 .. 16 /\ ProgramIsValid(t.version, t.program)
from_bech32_str(t) ==
  Result(bech32_decode(t) /\ t.hrp \in {"bc", "tb", "bcrt"}, Segwit(t.version, t.program, t.hrp))

\* Address::from_base58_str.
from_base58_str(digits) ==
  LET data == Text!decode_check(digits)
      known == {<<type, k>> \in {"p2pkh", "p2sh"} \X {"main", "test"} :
                  prefix(type, k) = data[2][1]}
      as == CHOOSE p \in known : TRUE
  IN  IF Len(digits) > 50 \/ data[1] # "ok" THEN <<"err">>
      ELSE IF Len(data[2]) # 21 \/ known = {} THEN <<"err">>
      ELSE Result(TRUE, Legacy(as[1], Tail(data[2]), as[2]))

\* FromStr for Address: the first characters say which of the two it is; 1, 2, 3, m and n
\* are the digits 0, 1, 2, 44 and 45.
from_str(t) ==
  IF t.format = "bech32"
    THEN IF t.hrp \in {"bc", "tb", "bcrt"} THEN from_bech32_str(t) ELSE <<"err">>
    ELSE IF t.digits # <<>> /\ t.digits[1] \in {0, 1, 2, 44, 45}
           THEN from_base58_str(t.digits) ELSE <<"err">>

\* Address::is_valid_for_network and require_network.
\* Mutant: the segwit prefix is compared by kind, as the legacy one is.
is_valid_for_network_ByKind(a, n) ==
  IF a.type = "segwit" THEN (a.net = "bc") = (n = "bitcoin") ELSE a.net = kind(n)
is_valid_for_network(a, n) ==
  IF a.type = "segwit" THEN a.net = from_network(n) ELSE a.net = kind(n)
require_network(result, n) ==
  IF result[1] = "ok" /\ ~is_valid_for_network(result[2], n) THEN <<"err">> ELSE result

(****************************** Signature operations ******************************)

Sum(f(_), s) == FoldLeft(LAMBDA total, item : total + f(item), 0, s)

\* ScriptExtPriv::last_pushdata.
last_pushdata(s) ==
  LET items == S!instructions(s, FALSE)
  IN  IF items # <<>> /\ S!IsPush(Last(items)) THEN Last(items)[2] ELSE none

\* TransactionExtPriv::count_p2pk_p2pkh_sigops, count_p2sh_sigops and count_witness_sigops.
count_p2pk_p2pkh_sigops(ins, outs) ==
  Sum(LAMBDA i : S!count_sigops_internal(i.script_sig, FALSE), ins)
    + Sum(LAMBDA s : S!count_sigops_internal(s, FALSE), outs)

count_p2sh_sigops(i) ==
  IF i.prevout = none \/ ~is_p2sh(i.prevout) \/ last_pushdata(i.script_sig) = none THEN 0
  ELSE S!count_sigops_internal(last_pushdata(i.script_sig), TRUE)

count_sigops_with_witness_program(i, program) ==
  IF is_p2wpkh(program) THEN 1
  ELSE IF is_p2wsh(program) /\ i.witness # <<>>
    THEN S!count_sigops_internal(Last(i.witness), TRUE)
  ELSE 0
count_witness_sigops(i) ==
  IF i.prevout = none THEN 0
  ELSE IF is_witness_program(i.prevout) THEN count_sigops_with_witness_program(i, i.prevout)
  ELSE IF is_p2sh(i.prevout) /\ S!is_push_only(i.script_sig) /\ last_pushdata(i.script_sig) # none
    THEN count_sigops_with_witness_program(i, last_pushdata(i.script_sig))
  ELSE 0

\* Transaction::total_sigop_cost.
total_sigop_cost(ins, outs) ==
  4 * count_p2pk_p2pkh_sigops(ins, outs) + 4 * Sum(count_p2sh_sigops, ins)
    + Sum(count_witness_sigops, ins)

(************************************ Behaviour ***********************************)

AddressInit ==
  /\ script \in ScriptPubkeys \cup {none}
  /\ network \in Networks
  /\ text = no_text /\ parsed = not_parsed /\ inputs = <<>>

\* The owner shows the address of a script, or a text comes from somewhere.
Show ==
  /\ text = no_text /\ inputs = <<>> /\ script # none
  /\ from_script(script, network)[1] = "ok"
  /\ text' = Display(from_script(script, network)[2])
  /\ UNCHANGED <<script, network, parsed, inputs>>
Receive ==
  /\ text = no_text /\ script = none
  /\ text' \in Texts
  /\ UNCHANGED <<script, network, parsed, inputs>>

\* It is read by someone who is on the network n.
Parse(n) ==
  /\ text # no_text /\ parsed = not_parsed
  /\ parsed' = <<n, require_network(from_str(text), n)>>
  /\ UNCHANGED <<script, network, text, inputs>>

\* A transaction pays to the script, and one more of its inputs is added.
Spend(spend) ==
  /\ script # none /\ network = "bitcoin" /\ text = no_text /\ Len(inputs) < 2
  /\ inputs' = Append(inputs, spend)
  /\ UNCHANGED <<script, network, text, parsed>>

AddressNext ==
  \/ Show \/ Receive
  \/ \E n \in Networks : Parse(n)
  \/ \E spend \in Spends : Spend(spend)

(************************************ Properties **********************************)

\* The kinds of output exclude each other, and an address has the kind of its script.
Kinds(s) ==
  {k \in {"p2pkh", "p2sh", "p2wpkh", "p2wsh", "p2tr", "p2a", "p2pk", "op_return", "multisig"} :
     CASE k = "p2pkh" -> is_p2pkh(s) [] k = "p2sh" -> is_p2sh(s) [] k = "p2wpkh" -> is_p2wpkh(s)
       [] k = "p2wsh" -> is_p2wsh(s) [] k = "p2tr" -> is_p2tr(s) [] k = "p2a" -> is_p2a(s)
       [] k = "p2pk" -> is_p2pk(s) [] k = "op_return" -> is_op_return(s)
       [] OTHER -> S!is_multisig(s)}
KindsAreApart(s) ==
  LET a == from_script(s, "bitcoin")
  IN  /\ \A j, k \in Kinds(s) : j = k
      /\ a[1] = "ok" => Kinds(s) = IF address_type(a[2]) = "unknown" THEN {} ELSE {address_type(a[2])}
      /\ Kinds(s) \cap {"p2pkh", "p2sh", "p2wpkh", "p2wsh", "p2tr", "p2a"} # {} => a[1] = "ok"

\* The dust limits of Bitcoin Core at three satoshis for a byte.
DustIsCores(s) ==
  \A k \in Kinds(s) \ {"p2pk", "multisig", "p2a"} :
    minimal_non_dust(s, 3000)
      = (CASE k = "p2pkh" -> 546 [] k = "p2sh" -> 540 [] k = "p2wpkh" -> 294
           [] k = "op_return" -> 0 [] OTHER -> 330)

\* The networks on which an address of network n is also an address: the legacy ones do not
\* tell the test networks apart, segwit does not tell testnet and signet apart.
SameNetwork(type, n, m) ==
  IF type = "segwit" THEN from_network(n) = from_network(m) ELSE kind(n) = kind(m)

\* An address is its script: the address of a script gives the script back, as it is and
\* after it was written and read, on the networks it belongs to and on no other, and matches
\* no other script but, for a witness program, one that differs in its version; a text that
\* is accepted is the text of the address.
AddressIsItsScript ==
  /\ script # none => KindsAreApart(script) /\ DustIsCores(script)
  /\ script # none /\ from_script(script, network)[1] = "ok" =>
       LET a == from_script(script, network)[2]
       IN  /\ script_pubkey(a) = script /\ matches_script_pubkey(a, script)
           /\ \A s \in ScriptPubkeys : matches_script_pubkey(a, s) =>
                s = script \/ (is_witness_program(s) /\ Tail(s) = Tail(script))
           /\ parsed # not_parsed =>
                parsed[2] = Result(SameNetwork(a.type, network, parsed[1]),
                                   [a EXCEPT !.net = from_str(text)[2].net])
  /\ parsed # not_parsed /\ parsed[2][1] = "ok" =>
       /\ Display(parsed[2][2]) = text
       /\ from_script(script_pubkey(parsed[2][2]), parsed[1]) = parsed[2]

\* The documentation of matches_script_pubkey: "Returns true if the address creates a
\* particular script".
MatchesWhatItCreates ==
  script # none /\ from_script(script, network)[1] = "ok" =>
    LET a == from_script(script, network)[2]
    IN  \A s \in ScriptPubkeys : matches_script_pubkey(a, s) <=> script_pubkey(a) = s

\* The cost of a transaction is the sum over its inputs and outputs of what each of them
\* costs: four times the operations in the scripts that every node sees, once those in a
\* witness, and nothing for taproot and for an output that is not known.
SigopsAreCounted ==
  LET Shown(s) == 4 * S!count_sigops_internal(s, FALSE)
  IN  script # none /\ inputs # <<>> =>
        total_sigop_cost(inputs, <<script>>)
          = Shown(script) + Sum(LAMBDA i : i.cost + Shown(i.script_sig), inputs)

=============================================================================
