-------------------------- MODULE PartialMerkleTree --------------------------
(***************************************************************************)
(* PartialMerkleTree and MerkleBlock of p2p/src/merkle_tree.rs: the part of*)
(* a block's tree that proves some of its transactions.  One node makes it *)
(* from a checked block (traverse_and_build), sends it, and another node   *)
(* extracts the transactions (traverse_and_extract), step by step.  What   *)
(* arrives may be damaged.                                                 *)
(***************************************************************************)
EXTENDS MerkleTree

CONSTANTS
  MaxTransactions,   \* Weight::MAX_BLOCK / Weight::MIN_TRANSACTION
  MaxBlock,          \* bound: transactions of a block that is asked about
  MaxDamages         \* bound: places in which a tree is damaged on its way

PartialAssumption ==
  MaxTransactions \in Nat /\ MaxBlock \in 0..MaxTransactions /\ MaxDamages \in Nat

VARIABLES
  wanted,            \* the indices asked for
  tree,              \* num_transactions, bits and hashes
  damages,           \* how often what arrived was damaged
  frames,            \* the recursion of traverse_and_extract: height, pos, left
  returned,          \* what the innermost finished call of it returned, if it has just done so
  bits_used, hash_used, matches, indexes,
  outcome            \* of MerkleBlock::extract_matches

partialVars == <<wanted, tree, damages, frames, returned, bits_used, hash_used, matches,
                 indexes, outcome>>
vars == <<merkleVars, partialVars>>

-----------------------------------------------------------------------------
calc_tree_width(num, height) == (num + 2 ^ height - 1) \div 2 ^ height

calc_tree_height(num) ==
  CHOOSE h \in 0..num :
    calc_tree_width(num, h) <= 1 /\ \A k \in 0..(h - 1) : calc_tree_width(num, k) > 1

HasRight(num, height, pos) == pos * 2 + 1 < calc_tree_width(num, height - 1)

Tree(num, bits, hashes) == [num_transactions |-> num, bits |-> bits, hashes |-> hashes]

\* from_txids
BuiltFor(want) ==
  LET num == Len(txids)
      height == calc_tree_height(num)
      calc_hash[h \in 0..height, p \in 0..num] ==
        IF h = 0 THEN from_leaf(txids[p + 1])
        ELSE combine(calc_hash[h - 1, p * 2],
                     calc_hash[h - 1, IF HasRight(num, h, p) THEN p * 2 + 1 ELSE p * 2])
      parent_of_match(h, p) == \E i \in want : p * 2 ^ h <= i /\ i < (p + 1) * 2 ^ h
      traverse_and_build[h \in 0..height, p \in 0..num] ==
        IF h = 0 \/ ~parent_of_match(h, p)
          THEN Tree(num, <<parent_of_match(h, p)>>, <<calc_hash[h, p]>>)
          ELSE LET l == traverse_and_build[h - 1, p * 2]
                   r == IF HasRight(num, h, p) THEN traverse_and_build[h - 1, p * 2 + 1]
                        ELSE Tree(num, <<>>, <<>>)
               IN  Tree(num, <<TRUE>> \o l.bits \o r.bits, l.hashes \o r.hashes)
  IN  traverse_and_build[height, 0]

\* Bits travel in whole bytes, and all bits of these are bits of what is decoded.
Padding(k) == [i \in 1..k |-> FALSE]
Decoded(t) == [t EXCEPT !.bits = t.bits \o Padding((8 - (Len(t.bits) % 8)) % 8)]

\* One bit, one hash or the number of transactions is another, there are more or no bits,
\* a hash more or less, or one transaction more is claimed, with its hash.
Damages(t) ==
  LET some == ToSet(t.hashes) \cup {from_leaf(x) : x \in Txids}
  IN  {[t EXCEPT !.bits[i] = ~t.bits[i]] : i \in DOMAIN t.bits}
        \cup {[t EXCEPT !.bits = t.bits \o Padding(8)], [t EXCEPT !.bits = <<>>]}
        \cup {[t EXCEPT !.hashes[i] = h] : i \in DOMAIN t.hashes, h \in some}
        \cup {[t EXCEPT !.hashes = Append(t.hashes, h)] : h \in some}
        \cup {[t EXCEPT !.hashes = Front(t.hashes)] : i \in {1} \cap DOMAIN t.hashes}
        \cup {[t EXCEPT !.num_transactions = k] : k \in 0..(MaxTransactions + 1)}
        \cup {Tree(t.num_transactions + 1, t.bits, Append(t.hashes, h)) : h \in some}

-----------------------------------------------------------------------------
Init ==
  /\ MerkleInit
  /\ wanted = {} /\ tree = Tree(0, <<>>, <<>>) /\ damages = 0
  /\ frames = <<>> /\ returned = None /\ bits_used = 0 /\ hash_used = 0
  /\ matches = <<>> /\ indexes = <<>> /\ outcome = "none"

\* Computing the block's root comes first; from then on it is in the header.
CalculateRoot == RootStep /\ UNCHANGED partialVars

\* A Block<Checked> has a root.  That all builds agree on it is for RootIsTextbook to say.
FromBlock ==
  /\ pc = "root" /\ root # None /\ build = "batched" /\ Len(txids) <= MaxBlock
  /\ wanted' \in SUBSET (0..(Len(txids) - 1))
  /\ tree' = BuiltFor(wanted')
  /\ pc' = "built"
  /\ UNCHANGED <<txids, build, stack, taken, n, nodes, root, damages, frames, returned,
                 bits_used, hash_used, matches, indexes, outcome>>

Arrive ==
  /\ pc = "built"
  /\ tree' = Decoded(tree)
  /\ pc' = "arrived"
  /\ UNCHANGED <<txids, build, stack, taken, n, nodes, root, wanted, damages, frames,
                 returned, bits_used, hash_used, matches, indexes, outcome>>

Damage ==
  /\ pc = "arrived" /\ damages < MaxDamages
  /\ tree' \in Damages(tree)
  /\ damages' = damages + 1
  /\ UNCHANGED <<merkleVars, wanted, frames, returned, bits_used, hash_used, matches,
                 indexes, outcome>>

-----------------------------------------------------------------------------
num_transactions == tree.num_transactions
Frame(height, pos) == [height |-> height, pos |-> pos, left |-> None]

Done(result) == pc' = "extracted" /\ outcome' = result

\* extract_matches, up to the traversal.
Extract ==
  /\ pc = "arrived"
  /\ UNCHANGED <<txids, build, stack, taken, n, nodes, root, wanted, tree, damages, returned,
                 bits_used, hash_used, matches, indexes>>
  /\ IF \/ num_transactions = 0
        \/ num_transactions > MaxTransactions
        \/ Len(tree.hashes) > num_transactions
        \/ Len(tree.bits) < Len(tree.hashes)
       THEN Done("failed") /\ UNCHANGED frames
       ELSE /\ frames' = <<Frame(calc_tree_height(num_transactions), 0)>>
            /\ pc' = "traverse"
            /\ UNCHANGED outcome

frame == frames[Len(frames)]
ReturnHash(hash) == frames' = Front(frames) /\ returned' = Some(hash)
Call(pos) == frames' = Append(frames, Frame(frame.height - 1, pos)) /\ returned' = None
CallRight ==
  /\ frames' = Append([frames EXCEPT ![Len(frames)].left = returned],
                      Frame(frame.height - 1, frame.pos * 2 + 1))
  /\ returned' = None

Traversing ==
  /\ pc = "traverse"
  /\ UNCHANGED <<txids, build, stack, taken, n, nodes, root, wanted, tree, damages>>

Failed == Done("failed") /\ UNCHANGED <<frames, returned>>
Continue == UNCHANGED <<pc, outcome>>

\* traverse_and_extract is called.
Visit ==
  /\ Traversing /\ frames # <<>> /\ returned = None
  /\ IF bits_used >= Len(tree.bits)
       THEN Failed /\ UNCHANGED <<bits_used, hash_used, matches, indexes>>
       ELSE
         LET parent_of_match == tree.bits[bits_used + 1] IN
         /\ bits_used' = bits_used + 1
         /\ IF frame.height > 0 /\ parent_of_match
              THEN Call(frame.pos * 2) /\ Continue /\ UNCHANGED <<hash_used, matches, indexes>>
            ELSE IF hash_used >= Len(tree.hashes)
              THEN Failed /\ UNCHANGED <<hash_used, matches, indexes>>
            ELSE
              LET hash == tree.hashes[hash_used + 1] IN
              /\ hash_used' = hash_used + 1
              /\ IF frame.height = 0 /\ parent_of_match
                   THEN matches' = Append(matches, hash) /\ indexes' = Append(indexes, frame.pos)
                   ELSE UNCHANGED <<matches, indexes>>
              /\ ReturnHash(hash) /\ Continue

\* The call for the left child has returned.
LeftReturns ==
  /\ Traversing /\ frames # <<>> /\ returned # None /\ frame.left = None
  /\ IF HasRight(num_transactions, frame.height, frame.pos)
       THEN CallRight
       ELSE ReturnHash(combine(returned[1], returned[1]))
  /\ Continue
  /\ UNCHANGED <<bits_used, hash_used, matches, indexes>>

\* Mutant: two equal children are accepted.
RightReturns_NoCheck ==
  /\ Traversing /\ frames # <<>> /\ returned # None /\ frame.left # None
  /\ ReturnHash(combine(frame.left[1], returned[1])) /\ Continue
  /\ UNCHANGED <<bits_used, hash_used, matches, indexes>>

\* The call for the right child has returned.
RightReturns ==
  /\ Traversing /\ frames # <<>> /\ returned # None /\ frame.left # None
  /\ IF returned = frame.left
       THEN Failed
       ELSE ReturnHash(combine(frame.left[1], returned[1])) /\ Continue
  /\ UNCHANGED <<bits_used, hash_used, matches, indexes>>

Bytes(bits) == (bits + 7) \div 8

\* The checks behind the traversal, and of MerkleBlock the comparison with the header.
FinishExtract ==
  /\ Traversing /\ frames = <<>>
  /\ Done(IF /\ Bytes(bits_used) = Bytes(Len(tree.bits))
             /\ hash_used = Len(tree.hashes)
             /\ returned = root
            THEN "ok" ELSE "failed")
  /\ UNCHANGED <<frames, returned, bits_used, hash_used, matches, indexes>>

Stopped ==
  /\ \/ pc = "extracted"
     \/ pc = "root" /\ (root = None \/ build # "batched" \/ Len(txids) > MaxBlock)
  /\ UNCHANGED vars

Next ==
  \/ CalculateRoot
  \/ FromBlock \/ Arrive \/ Damage
  \/ Extract \/ Visit \/ LeftReturns \/ RightReturns \/ FinishExtract
  \/ Stopped

Spec == Init /\ [][Next]_vars

-----------------------------------------------------------------------------
\* What was asked for comes back: an undamaged tree made from any checked block is
\* accepted, with exactly the wanted transactions and their indices, in order.
MatchesComeBack ==
  pc = "extracted" /\ damages = 0 =>
    /\ outcome = "ok"
    /\ indexes = SetToSortSeq(wanted, <)
    /\ matches = [i \in DOMAIN indexes |-> from_leaf(txids[indexes[i] + 1])]

\* What is accepted is true: if a tree has the root of the header and claims a number of
\* transactions of the right height, each match is the transaction of the block at its
\* index, however the tree was damaged.
ExtractedIsInTheBlock ==
  pc = "extracted" /\ outcome = "ok"
    /\ calc_tree_height(num_transactions) = calc_tree_height(Len(txids)) =>
    /\ Len(matches) = Len(indexes)
    /\ \A i \in DOMAIN indexes :
         /\ indexes[i] < Len(txids)
         /\ matches[i] = from_leaf(txids[indexes[i] + 1])

=============================================================================
