------------------------------- MODULE TapNode -------------------------------
(***************************************************************************)
(* NodeInfo of bitcoin/src/taproot/mod.rs: a subtree of a script tree as   *)
(* its hash and, for every known leaf below it, the Merkle proof from that *)
(* leaf up to the subtree's root.                                          *)
(*                                                                         *)
(* A hash is the tree that was hashed, written in prefix order: an even    *)
(* number for a leaf, and 3 followed by two hashes for a branch.  Different*)
(* trees have different hashes, and they are ordered; script 1 is below    *)
(* every branch and the others are above.  Scripts have one leaf version.  *)
(***************************************************************************)
EXTENDS Integers, SequencesExt

CONSTANTS
  Scripts,                          \* bound: the scripts, as positive numbers
  TAPROOT_CONTROL_MAX_NODE_COUNT    \* the length limit of a Merkle proof

ASSUME TapNodeAssumption ==
  /\ Scripts \subseteq Nat \ {0}
  /\ TAPROOT_CONTROL_MAX_NODE_COUNT \in Nat

MaxDepth == TAPROOT_CONTROL_MAX_NODE_COUNT
Hashes == Seq(Nat)

\* Lexicographic order.
Below(g, h) ==
  \E i \in DOMAIN h :
    /\ \A j \in 1..(i - 1) : j \in DOMAIN g /\ g[j] = h[j]
    /\ i \in DOMAIN g => g[i] < h[i]

\* The lesser hash goes first.
combine_node_hashes(a, b) ==
  IF Below(a, b) THEN <<3>> \o a \o b ELSE <<3>> \o b \o a

script_hash(s) == <<2 * s>>

Leaves == [script : Scripts, merkle_branch : Seq(Hashes)]
NodeInfos == [hash : Hashes, leaves : Seq(Leaves), has_hidden_nodes : BOOLEAN]

new_leaf(s) ==
  [hash |-> script_hash(s), leaves |-> <<[script |-> s, merkle_branch |-> <<>>]>>,
   has_hidden_nodes |-> FALSE]
new_hidden_node(h) == [hash |-> h, leaves |-> <<>>, has_hidden_nodes |-> TRUE]

\* The leaves of a with b's hash, their hashing partner, added to each proof.
Proving(a, b) ==
  [i \in DOMAIN a.leaves |->
     [script |-> a.leaves[i].script,
      merkle_branch |-> Append(a.leaves[i].merkle_branch, b.hash)]]

\* Mutant: the last place of a proof is never used.
HasRoom_OffByOne(a) ==
  \A i \in DOMAIN a.leaves : Len(a.leaves[i].merkle_branch) + 1 < MaxDepth

\* TaprootMerkleBranchBuf::push refuses to grow a proof beyond the limit.
HasRoom(a) == \A i \in DOMAIN a.leaves : Len(a.leaves[i].merkle_branch) < MaxDepth
CanCombine(a, b) == HasRoom(a) /\ HasRoom(b)

combine(a, b) ==
  [hash |-> combine_node_hashes(a.hash, b.hash),
   leaves |-> IF Below(a.hash, b.hash) THEN Proving(a, b) \o Proving(b, a)
              ELSE Proving(b, a) \o Proving(a, b),
   has_hidden_nodes |-> a.has_hidden_nodes \/ b.has_hidden_nodes]

\* What verify_taproot_commitment compares with the output key: the root that a
\* script and a proof amount to.
Climb(script, proof) ==
  LET root[n \in 0..Len(proof)] ==
        IF n = 0 THEN script_hash(script) ELSE combine_node_hashes(root[n - 1], proof[n])
  IN  root

ProvenRoot(script, proof) == Climb(script, proof)[Len(proof)]

=============================================================================
