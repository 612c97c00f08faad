----------------------------- MODULE MerkleRoot -----------------------------
(***************************************************************************)
(* What the merkle root of a list is, as Bitcoin defines it: what the      *)
(* builds of calculate_root in MerkleTree are compared with.               *)
(*                                                                         *)
(* A hash is what was hashed: a leaf, or 0 and two hashes, in prefix order.*)
(* Different nodes have different hashes.                                  *)
(***************************************************************************)
EXTENDS Integers, SequencesExt

None == <<>>
Some(x) == <<x>>

from_leaf(t) == <<t>>
combine(l, r) == <<0>> \o l \o r

\* The tree of the least height that has room for all leaves.  What lies wholly behind
\* the last leaf is a copy of what is left of it.
Textbook(list) ==
  LET Tree[k \in 0..Len(list), from \in 1..Len(list)] ==
        IF k = 0 THEN from_leaf(list[from])
        ELSE LET middle == from + 2 ^ (k - 1)
             IN  combine(Tree[k - 1, from], Tree[k - 1, IF middle <= Len(list) THEN middle ELSE from])
      Height == CHOOSE k \in 0..Len(list) :
                  2 ^ k >= Len(list) /\ \A j \in 0..(k - 1) : 2 ^ j < Len(list)
  IN  Tree[Height, 1]

\* Two neighbouring subtrees without copies are the same.
Repeats(list) ==
  \E k \in 0..Len(list), i \in 0..Len(list) :
    LET size == 2 ^ k
        from == i * 2 * size
    IN  /\ from + 2 * size <= Len(list)
        /\ SubSeq(list, from + 1, from + size) = SubSeq(list, from + size + 1, from + 2 * size)

=============================================================================
