----------------------------- MODULE SpendWitness -----------------------------
(***************************************************************************)
(* How an output of a taproot tree is spent: the spend info that keeps a   *)
(* proof for each script under each leaf version, the control block and    *)
(* its bytes, the witness that carries them with or without an annex, and  *)
(* what a reader of the witness takes it for.                              *)
(*                                                                         *)
(* A witness does not say what its elements are.  The reader goes by their *)
(* number and by the first byte of the last one, which is the annex        *)
(* prefix, or a leaf version and the parity of the output key.             *)
(***************************************************************************)
EXTENDS Integers, SequencesExt

CONSTANTS
  TAPROOT_CONTROL_NODE_SIZE, TAPROOT_CONTROL_MAX_NODE_COUNT,
  IsKey(_),                  \* the bytes are the x coordinate of a point
  LeafHash(_, _),            \* tagged hash of a version and a script
  BranchHash(_, _),          \* tagged hash of two hashes
  Tweaked(_, _),             \* the key and parity that a key and an optional root become
  InternalKeys,              \* bound: keys of outputs
  Trees,                     \* bound: scripts with versions, each joined to those before it
  Satisfactions,             \* bound: what a script is satisfied with
  Elements,                  \* bound: elements of witnesses from elsewhere
  RawControls,               \* bound: bytes given as control blocks
  Annexes,                   \* bound: annexes
  MaxPushes                  \* bound: elements of a witness from elsewhere

VARIABLES
  info,          \* TaprootSpendInfo of the output that is spent
  witness,
  meant          \* what the witness was built for, or <<>>

spendVars == <<info, witness, meant>>

None == <<>>
Some(x) == <<x>>

TAPROOT_LEAF_TAPSCRIPT == 192
TAPROOT_ANNEX_PREFIX == 80
TAPROOT_CONTROL_BASE_SIZE == TAPROOT_CONTROL_NODE_SIZE + 1
TAPROOT_CONTROL_MAX_SIZE ==
  TAPROOT_CONTROL_BASE_SIZE + TAPROOT_CONTROL_NODE_SIZE * TAPROOT_CONTROL_MAX_NODE_COUNT

\* LeafVersion::from_consensus takes even bytes but one.
from_consensus(byte) == byte % 2 = 0 /\ byte # TAPROOT_ANNEX_PREFIX
LeafVersions == {byte \in 0 .. 255 : from_consensus(byte)}

-----------------------------------------------------------------------------
(* Trees and proofs. *)

Below(g, h) == \E i \in DOMAIN g : g[i] < h[i] /\ \A j \in 1 .. (i - 1) : g[j] = h[j]
combine_node_hashes(a, b) == IF Below(a, b) THEN BranchHash(a, b) ELSE BranchHash(b, a)

new_leaf_with_ver(script, version) ==
  [hash |-> LeafHash(version, script),
   leaves |-> <<[script |-> script, version |-> version, merkle_branch |-> <<>>]>>]

combine(a, b) ==
  LET Proving(n, partner) ==
        [i \in DOMAIN n.leaves |->
           [n.leaves[i] EXCEPT !.merkle_branch = Append(@, partner.hash)]]
  IN  [hash |-> combine_node_hashes(a.hash, b.hash),
       leaves |-> IF Below(a.hash, b.hash) THEN Proving(a, b) \o Proving(b, a)
                  ELSE Proving(b, a) \o Proving(a, b)]

\* Keyed by script and version.
from_node_info(key, n) ==
  [internal_key |-> key, output |-> Tweaked(key, Some(n.hash)),
   script_map |-> [k \in {<<n.leaves[i].script, n.leaves[i].version>> : i \in DOMAIN n.leaves} |->
                     {leaf.merkle_branch :
                        leaf \in {l \in ToSet(n.leaves) : <<l.script, l.version>> = k}}]]

\* A shortest proof; min_by takes the first of these in the order of the set.
control_block(script_ver) ==
  LET proofs == info.script_map[script_ver]
      smallest == CHOOSE p \in proofs : \A q \in proofs : Len(p) <= Len(q)
  IN  [leaf_version |-> script_ver[2], output_key_parity |-> info.output.parity,
       internal_key |-> info.internal_key, merkle_branch |-> smallest]

verify_taproot_commitment(control, output_key, script) ==
  LET root == FoldLeft(combine_node_hashes, LeafHash(control.leaf_version, script),
                       control.merkle_branch)
  IN  Tweaked(control.internal_key, Some(root))
        = [key |-> output_key, parity |-> control.output_key_parity]

-----------------------------------------------------------------------------
(* The bytes of a control block. *)

size(control) ==
  TAPROOT_CONTROL_BASE_SIZE + TAPROOT_CONTROL_NODE_SIZE * Len(control.merkle_branch)

serialize(control) ==
  <<control.leaf_version + control.output_key_parity>> \o control.internal_key
    \o FlattenSeq(control.merkle_branch)

\* TaprootMerkleBranch::decode: whole nodes, and not too many.
BranchOf(bytes) ==
  LET count == Len(bytes) \div TAPROOT_CONTROL_NODE_SIZE
  IN  IF Len(bytes) % TAPROOT_CONTROL_NODE_SIZE # 0 \/ count > TAPROOT_CONTROL_MAX_NODE_COUNT
        THEN None
        ELSE Some([i \in 1 .. count |->
                     SubSeq(bytes, TAPROOT_CONTROL_NODE_SIZE * (i - 1) + 1,
                            TAPROOT_CONTROL_NODE_SIZE * i)])

\* The internal key is not looked at.
decode_borrowed(bytes) ==
  IF Len(bytes) < TAPROOT_CONTROL_BASE_SIZE THEN None
  ELSE LET parity == bytes[1] % 2
           version == bytes[1] - parity
           branch == BranchOf(SubSeq(bytes, TAPROOT_CONTROL_BASE_SIZE + 1, Len(bytes)))
       IN  IF ~from_consensus(version) \/ branch = None THEN None
           ELSE Some([leaf_version |-> version, output_key_parity |-> parity,
                      internal_key |-> SubSeq(bytes, 2, TAPROOT_CONTROL_BASE_SIZE),
                      merkle_branch |-> branch[1]])

decode(bytes) ==
  LET borrowed == decode_borrowed(bytes)
  IN  IF borrowed # None /\ IsKey(borrowed[1].internal_key) THEN borrowed ELSE None

-----------------------------------------------------------------------------
(* Reading a witness. *)

get_back(w, n) == w[Len(w) - n]
StartsWithPrefix(element) == element # <<>> /\ element[1] = TAPROOT_ANNEX_PREFIX

KeySpend(annex) == Some([kind |-> "key", annex |-> annex])
ScriptSpend(leaf_script, control, annex) ==
  IF control = None THEN None
  ELSE Some([kind |-> "script", leaf_script |-> leaf_script, control_block |-> control[1],
             annex |-> annex])

\* P2TrSpend::from_witness: nothing, or what the witness spends by.
from_witness(w) ==
  IF w = <<>> THEN None
  ELSE IF Len(w) = 1 THEN KeySpend(None)
  ELSE IF ~StartsWithPrefix(get_back(w, 0))
    THEN ScriptSpend(get_back(w, 1), decode_borrowed(get_back(w, 0)), None)
  ELSE IF Len(w) = 2 THEN KeySpend(Some(get_back(w, 0)))
  ELSE ScriptSpend(get_back(w, 2), decode_borrowed(get_back(w, 1)), Some(get_back(w, 0)))

ByScript(w) == LET spend == from_witness(w) IN spend # None /\ spend[1].kind = "script"

taproot_leaf_script(w) ==
  IF ByScript(w)
  THEN LET spend == from_witness(w)[1]
       IN  Some([version |-> spend.control_block.leaf_version, script |-> spend.leaf_script])
  ELSE None
taproot_control_block(w) ==
  IF ByScript(w) THEN Some(from_witness(w)[1].control_block) ELSE None
taproot_annex(w) == IF from_witness(w) = None THEN None ELSE from_witness(w)[1].annex
witness_script(w) == IF w = <<>> THEN None ELSE Some(get_back(w, 0))

-----------------------------------------------------------------------------
TreeOf(leaves) ==
  FoldLeft(combine, new_leaf_with_ver(leaves[1][1], leaves[1][2]),
           [i \in 1 .. (Len(leaves) - 1) |->
              new_leaf_with_ver(leaves[i + 1][1], leaves[i + 1][2])])

SpendInit ==
  /\ \E key \in InternalKeys, leaves \in Trees :
       /\ \A leaf \in ToSet(leaves) : from_consensus(leaf[2])
       /\ info = from_node_info(key, TreeOf(leaves))
  /\ witness = <<>> /\ meant = <<>>

p2tr_key_spend(signature) ==
  /\ witness = <<>>
  /\ witness' = <<signature>>
  /\ meant' = Some([by |-> "key", annex |-> None])
  /\ UNCHANGED info

\* There is no call that adds the annex of a key spend but push.
PushAnnex(annex) ==
  /\ meant # <<>> /\ meant[1] = [by |-> "key", annex |-> None]
  /\ witness' = Append(witness, annex)
  /\ meant' = Some([by |-> "key", annex |-> Some(annex)])
  /\ UNCHANGED info

push_p2tr_script_spend(satisfaction, script_ver, annex) ==
  /\ witness = <<>>
  /\ witness' = satisfaction \o <<script_ver[1], serialize(control_block(script_ver))>> \o annex
  /\ meant' = Some([by |-> "script", leaf |-> script_ver, annex |-> annex])
  /\ UNCHANGED info

p2wsh(satisfaction, script) ==
  /\ witness = <<>>
  /\ witness' = Append(satisfaction, script)
  /\ meant' = Some([by |-> "p2wsh", script |-> script])
  /\ UNCHANGED info

\* A witness that somebody else has built.
Push(element) ==
  /\ meant = <<>> /\ Len(witness) < MaxPushes
  /\ witness' = Append(witness, element)
  /\ UNCHANGED <<info, meant>>

SpendNext ==
  \/ \E signature \in Elements : p2tr_key_spend(signature)
  \/ \E annex \in Annexes : PushAnnex(annex)
  \/ \E satisfaction \in Satisfactions, leaf \in DOMAIN info.script_map,
        annex \in {None} \cup {Some(a) : a \in Annexes} :
       push_p2tr_script_spend(satisfaction, leaf, annex)
  \/ \E satisfaction \in Satisfactions, script \in Elements : p2wsh(satisfaction, script)
  \/ \E element \in Elements \cup RawControls : Push(element)

-----------------------------------------------------------------------------
\* Who reads a witness finds what it was built for: the same script under the same version,
\* the control block that proves this script and no other script of the tree, by as short a
\* proof as there is, the annex; and of a spend by key no script at all.
SpendsReadBack ==
  meant # <<>> =>
    /\ meant[1].by = "key" =>
         /\ taproot_leaf_script(witness) = None /\ taproot_control_block(witness) = None
         /\ taproot_annex(witness) = meant[1].annex
    /\ meant[1].by = "script" =>
         /\ taproot_leaf_script(witness)
              = Some([script |-> meant[1].leaf[1], version |-> meant[1].leaf[2]])
         /\ taproot_annex(witness) = meant[1].annex
         /\ \A leaf \in DOMAIN info.script_map :
              LET control == decode(serialize(taproot_control_block(witness)[1]))[1]
              IN  verify_taproot_commitment([control EXCEPT !.leaf_version = leaf[2]],
                                            info.output.key, leaf[1])
                    <=> leaf = meant[1].leaf
         /\ \A proof \in info.script_map[meant[1].leaf] :
              Len(taproot_control_block(witness)[1].merkle_branch) <= Len(proof)
    /\ meant[1].by = "p2wsh" => witness_script(witness) = Some(meant[1].script)

\* An annex changes nothing of how a witness without one is read.
AnnexIsApart ==
  witness # <<>> /\ (Len(witness) = 1 \/ ~StartsWithPrefix(get_back(witness, 0))) =>
    \A annex \in Annexes :
      from_witness(Append(witness, annex))
        = IF from_witness(witness) = None THEN None
          ELSE Some([from_witness(witness)[1] EXCEPT !.annex = Some(annex)])

\* A control block has one form in bytes, of the size foretold, which the array it is
\* written to can hold.
ControlBytesAreUnique ==
  witness # <<>> =>
    LET bytes == get_back(witness, 0)
        control == decode_borrowed(bytes)
    IN  control # None => /\ serialize(control[1]) = bytes
                          /\ Len(bytes) = size(control[1])
                          /\ Len(bytes) <= TAPROOT_CONTROL_MAX_SIZE
                          /\ control[1].leaf_version \in LeafVersions

=============================================================================
