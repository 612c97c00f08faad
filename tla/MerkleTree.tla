----------------------------- MODULE MerkleTree -----------------------------
(***************************************************************************)
(* calculate_root of primitives/src/merkle_tree.rs, in its three builds:   *)
(* on a growing stack of finished subtrees ("alloc"), on a stack of        *)
(* StackLimit entries ("no_alloc"), and level by level (calculate_root_    *)
(* batched, "batched").  Each fills the tree up by combining a node without*)
(* sibling with itself, and each refuses a list of transactions whose tree *)
(* is also the tree of a shorter list.                                     *)
(***************************************************************************)
EXTENDS MerkleRoot

CONSTANTS
  Txids,        \* bound: transaction ids, as positive numbers
  MaxLeaves,    \* bound: length of the lists
  StackLimit    \* capacity of the stack without alloc

MerkleAssumption ==
  Txids \subseteq Nat \ {0} /\ MaxLeaves \in Nat /\ StackLimit \in Nat \ {0}

VARIABLES
  txids,        \* the leaves
  build,        \* which calculate_root
  stack,        \* finished subtrees: level and hash
  taken, n,     \* leaves taken, and what is left to shift of the last one's number
  nodes,        \* one level of the batched computation
  root,         \* the answer, an Option
  pc

merkleVars == <<txids, build, stack, taken, n, nodes, root, pc>>

Lists == SeqOf(Txids, MaxLeaves)

MerkleInit ==
  /\ txids \in Lists
  /\ build \in {"alloc", "no_alloc", "batched"}
  /\ stack = <<>> /\ taken = 0 /\ n = 0
  /\ nodes = IF build = "batched" THEN [i \in DOMAIN txids |-> from_leaf(txids[i])] ELSE <<>>
  /\ root = None
  /\ pc = IF build = "batched" THEN "levels" ELSE "stack"

Answer(hash) == root' = hash /\ pc' = "root"

-----------------------------------------------------------------------------
(* On a stack.                                                              *)

Subtree(level, hash) == [level |-> level, hash |-> hash]
left == stack[Len(stack) - 1]
right == stack[Len(stack)]
ReplacePair(t) == stack' = Append(SubSeq(stack, 1, Len(stack) - 2), t)

PushLeaf ==
  /\ pc = "stack" /\ n % 2 = 0 /\ taken < Len(txids)
  /\ UNCHANGED <<txids, build, nodes>>
  /\ IF build = "no_alloc" /\ Len(stack) = StackLimit
       THEN Answer(None) /\ UNCHANGED <<stack, taken, n>>
       ELSE /\ stack' = Append(stack, Subtree(0, from_leaf(txids[taken + 1])))
            /\ n' = taken
            /\ taken' = taken + 1
            /\ UNCHANGED <<root, pc>>

\* Mutant: equal subtrees are combined like any others.
CombinePair_NoCheck ==
  /\ pc = "stack" /\ n % 2 = 1
  /\ UNCHANGED <<txids, build, taken, nodes>>
  /\ ReplacePair(Subtree(left.level + 1, combine(left.hash, right.hash)))
  /\ n' = n \div 2
  /\ UNCHANGED <<root, pc>>

\* `while n & 1 == 1'
CombinePair ==
  /\ pc = "stack" /\ n % 2 = 1
  /\ UNCHANGED <<txids, build, taken, nodes>>
  /\ IF left.hash = right.hash
       THEN Answer(None) /\ UNCHANGED <<stack, n>>
       ELSE /\ ReplacePair(Subtree(left.level + 1, combine(left.hash, right.hash)))
            /\ n' = n \div 2
            /\ UNCHANGED <<root, pc>>

\* All leaves are taken and combined as far as they go.
Incomplete == pc = "stack" /\ n % 2 = 0 /\ taken = Len(txids)

DoubleRight ==
  /\ Incomplete /\ Len(stack) > 1 /\ right.level # left.level
  /\ stack' = [stack EXCEPT ![Len(stack)] =
                 Subtree(right.level + 1, combine(right.hash, right.hash))]
  /\ UNCHANGED <<txids, build, taken, n, nodes, root, pc>>

JoinPair ==
  /\ Incomplete /\ Len(stack) > 1 /\ right.level = left.level
  /\ ReplacePair(Subtree(left.level + 1, combine(left.hash, right.hash)))
  /\ UNCHANGED <<txids, build, taken, n, nodes, root, pc>>

PopRoot ==
  /\ Incomplete /\ Len(stack) <= 1
  /\ Answer(IF stack = <<>> THEN None ELSE Some(right.hash))
  /\ UNCHANGED <<txids, build, stack, taken, n, nodes>>

-----------------------------------------------------------------------------
(* Level by level.                                                          *)

EvenNodes == IF Len(nodes) % 2 = 0 THEN nodes ELSE Append(nodes, nodes[Len(nodes)])

HashLevel ==
  /\ pc = "levels" /\ Len(nodes) > 1
  /\ UNCHANGED <<txids, build, stack, taken, n>>
  /\ IF \E i \in 1..(Len(nodes) \div 2) : nodes[2 * i - 1] = nodes[2 * i]
       THEN Answer(None) /\ UNCHANGED nodes
       ELSE /\ nodes' = [i \in 1..(Len(EvenNodes) \div 2) |->
                           combine(EvenNodes[2 * i - 1], EvenNodes[2 * i])]
            /\ UNCHANGED <<root, pc>>

LastLevel ==
  /\ pc = "levels" /\ Len(nodes) <= 1
  /\ Answer(nodes)
  /\ UNCHANGED <<txids, build, stack, taken, n, nodes>>

RootStep ==
  PushLeaf \/ CombinePair \/ DoubleRight \/ JoinPair \/ PopRoot \/ HashLevel \/ LastLevel

-----------------------------------------------------------------------------
RootOf == [list \in {l \in Lists : l # <<>> /\ ~Repeats(l)} |-> Textbook(list)]

\* All three builds of calculate_root answer the root that Bitcoin defines, and None for
\* the same lists: the empty one, those with a repetition and, without alloc, those the
\* stack is too small for.  Subtrees that are combined are of one height, as
\* debug_assert_eq and assert claim.
RootIsTextbook ==
  /\ pc = "root" =>
       root = IF txids \in DOMAIN RootOf
                   /\ (build = "no_alloc" => Len(txids) < 2 ^ StackLimit)
                THEN Some(RootOf[txids]) ELSE None
  /\ pc = "stack" /\ n % 2 = 1 => left.level = right.level
  /\ Incomplete /\ Len(stack) > 1 => right.level <= left.level

\* A root that is answered commits to the list: no other list that is not refused has
\* it, whatever the two lengths (CVE-2012-2459).
RootBindsTheList ==
  pc = "root" /\ root # None =>
    \A list \in DOMAIN RootOf : Some(RootOf[list]) = root => list = txids

=============================================================================
