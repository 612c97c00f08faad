------------------------ MODULE TaprootBuilderProofs ------------------------
(***************************************************************************)
(* Proofs about TaprootBuilder, for every limit on the depth, every set of *)
(* scripts and any number of insertions: the invariant that the struct's   *)
(* comment states, that checking the depth once, on entry to insert, is    *)
(* enough, that a finished tree lets every known script be spent, and that *)
(* the builder accepts leaves by the room they take up: it implements      *)
(* TapTreeSpace.                                                           *)
(*                                                                         *)
(* The argument: a proof grows by one hash when its node moves up by one   *)
(* level, so the length of a proof plus the level of the node that holds   *)
(* it never changes, and it was at most the limit when the leaf came in.   *)
(* The hash that a proof grows by is the sibling's, and the hash of a      *)
(* branch does not depend on which child is which, so that what the proof  *)
(* amounts to is always the hash of the node.  A branch is a binary number *)
(* and an insertion an addition to one of its digits, with a carry for     *)
(* every combination.                                                      *)
(***************************************************************************)
EXTENDS TaprootBuilder, SequenceTheorems, TLAPS

\* Every proof in n, at a level, leaves room for the levels above.
FitsAt(n, level) ==
  \A i \in DOMAIN n.leaves : Len(n.leaves[i].merkle_branch) + level <= MaxDepth

-----------------------------------------------------------------------------
\* A function on 1..n is a sequence of length n.
LEMMA FunctionIsSeq ==
  ASSUME NEW S, NEW n \in Nat, NEW f \in [1..n -> S]
  PROVE  f \in Seq(S) /\ Len(f) = n /\ DOMAIN f = 1..n
OBVIOUS

\* Every element of s \o t is one of s or one of t.
LEMMA ConcatElements ==
  ASSUME NEW S, NEW s \in Seq(S), NEW t \in Seq(S)
  PROVE  /\ s \o t \in Seq(S)
         /\ Len(s \o t) = Len(s) + Len(t)
         /\ \A i \in DOMAIN (s \o t) :
              (\E k \in 1..Len(s) : (s \o t)[i] = s[k]) \/ (\E k \in 1..Len(t) : (s \o t)[i] = t[k])
<1>1. /\ s \o t \in Seq(S)
      /\ Len(s \o t) = Len(s) + Len(t)
      /\ \A i \in 1..(Len(s) + Len(t)) :
           (s \o t)[i] = IF i <= Len(s) THEN s[i] ELSE t[i - Len(s)]
  BY ConcatProperties
<1>2. Len(s) \in Nat /\ Len(t) \in Nat /\ DOMAIN (s \o t) = 1..Len(s \o t)
  BY <1>1, LenProperties
<1>3. ASSUME NEW i \in DOMAIN (s \o t)
      PROVE  (\E k \in 1..Len(s) : (s \o t)[i] = s[k]) \/ (\E k \in 1..Len(t) : (s \o t)[i] = t[k])
  <2>1. i \in 1..(Len(s) + Len(t))
    BY <1>1, <1>2
  <2>2. CASE i <= Len(s)
    BY <2>1, <2>2, <1>1, <1>2
  <2>3. CASE ~(i <= Len(s))
    <3>1. i - Len(s) \in 1..Len(t) /\ (s \o t)[i] = t[i - Len(s)]
      BY <2>1, <2>3, <1>1, <1>2
    <3> QED
      BY <3>1
  <2> QED
    BY <2>2, <2>3
<1> QED
  BY <1>1, <1>3

\* The hash of a branch is a hash (combine_node_hashes).
LEMMA BranchHashType ==
  ASSUME NEW a \in Hashes, NEW b \in Hashes
  PROVE  combine_node_hashes(a, b) \in Hashes
<1>1. <<3>> \in Seq(Nat)
  OBVIOUS
<1>2. <<3>> \o a \in Seq(Nat) /\ <<3>> \o b \in Seq(Nat)
  BY <1>1, ConcatProperties DEF Hashes
<1>3. (<<3>> \o a) \o b \in Seq(Nat) /\ (<<3>> \o b) \o a \in Seq(Nat)
  BY <1>2, ConcatProperties DEF Hashes
<1>4. combine_node_hashes(a, b) = (<<3>> \o a) \o b \/ combine_node_hashes(a, b) = (<<3>> \o b) \o a
  BY DEF combine_node_hashes
<1> QED
  BY <1>3, <1>4 DEF Hashes

\* A leaf node is a node whose one proof is empty (new_leaf_with_ver).
LEMMA NewLeaf ==
  ASSUME NEW s \in Scripts
  PROVE  new_leaf(s) \in NodeInfos /\ \A level \in 0..MaxDepth : FitsAt(new_leaf(s), level)
<1> DEFINE leaf == [script |-> s, merkle_branch |-> <<>>]
<1>1. s \in Nat /\ MaxDepth \in Nat
  BY TapNodeAssumption DEF MaxDepth
<1>2. script_hash(s) \in Hashes
  <2>1. 2 * s \in Nat
    BY <1>1
  <2> QED
    BY <2>1 DEF script_hash, Hashes
<1>3. leaf \in Leaves
  BY EmptySeq DEF Leaves
<1>4. <<leaf>> \in Seq(Leaves) /\ Len(<<leaf>>) = 1 /\ <<leaf>>[1] = leaf
  BY <1>3
<1>5. new_leaf(s).leaves = <<leaf>>
  BY DEF new_leaf
<1>6. new_leaf(s) \in NodeInfos
  BY <1>2, <1>4 DEF new_leaf, NodeInfos
<1>7. ASSUME NEW level \in 0..MaxDepth PROVE FitsAt(new_leaf(s), level)
  <2>1. Len(<<>>) + level <= MaxDepth
    BY <1>1
  <2> QED
    BY <2>1, <1>4, <1>5 DEF FitsAt
<1> QED
  BY <1>6, <1>7

\* A hidden node has no proofs at all (new_hidden_node).
LEMMA NewHidden ==
  ASSUME NEW h \in Hashes
  PROVE  new_hidden_node(h) \in NodeInfos /\ \A level : FitsAt(new_hidden_node(h), level)
BY DEF new_hidden_node, NodeInfos, FitsAt

\* Each leaf of a gets b's hash and stays what it was otherwise (the loops of combine).
LEMMA ProvingProperties ==
  ASSUME NEW a \in NodeInfos, NEW b \in NodeInfos
  PROVE  /\ Proving(a, b) \in Seq(Leaves)
         /\ Len(Proving(a, b)) = Len(a.leaves)
         /\ \A i \in 1..Len(a.leaves) :
              Len(Proving(a, b)[i].merkle_branch) = Len(a.leaves[i].merkle_branch) + 1
<1> DEFINE n == Len(a.leaves)
           p == Proving(a, b)
<1>1. a.leaves \in Seq(Leaves) /\ b.hash \in Hashes
  BY DEF NodeInfos
<1>2. n \in Nat /\ DOMAIN a.leaves = 1..n
  BY <1>1, LenProperties
<1>3. p = [i \in 1..n |-> [script |-> a.leaves[i].script,
                          merkle_branch |-> Append(a.leaves[i].merkle_branch, b.hash)]]
  BY <1>2 DEF Proving
<1>4. ASSUME NEW i \in 1..n
      PROVE  /\ p[i] \in Leaves
             /\ Len(p[i].merkle_branch) = Len(a.leaves[i].merkle_branch) + 1
  <2>1. a.leaves[i] \in Leaves
    BY <1>1, ElementOfSeq
  <2>2. a.leaves[i].merkle_branch \in Seq(Hashes)
    BY <2>1 DEF Leaves
  <2>3. /\ Append(a.leaves[i].merkle_branch, b.hash) \in Seq(Hashes)
        /\ Len(Append(a.leaves[i].merkle_branch, b.hash)) = Len(a.leaves[i].merkle_branch) + 1
    BY <1>1, <2>2, AppendProperties
  <2>4. p[i] = [script |-> a.leaves[i].script,
                merkle_branch |-> Append(a.leaves[i].merkle_branch, b.hash)]
    BY <1>3
  <2> QED
    BY <2>1, <2>3, <2>4 DEF Leaves
<1>5. p \in [1..n -> Leaves]
  BY <1>3, <1>4
<1>6. p \in Seq(Leaves) /\ Len(p) = n
  BY <1>2, <1>5, FunctionIsSeq
<1> HIDE DEF p
<1> QED
  BY <1>4, <1>6 DEF p

\* Nodes combine to a node, and a pair that leaves room at a level fits one level up.
LEMMA CombineProperties ==
  ASSUME NEW a \in NodeInfos, NEW b \in NodeInfos
  PROVE  /\ combine(a, b) \in NodeInfos
         /\ CanCombine(a, b) => FitsAt(combine(a, b), 0)
         /\ \A level \in 1..MaxDepth :
              FitsAt(a, level) /\ FitsAt(b, level) =>
                CanCombine(a, b) /\ FitsAt(combine(a, b), level - 1)
<1> DEFINE pa == Proving(a, b)
           pb == Proving(b, a)
           c == combine(a, b)
<1>0. MaxDepth \in Nat
  BY TapNodeAssumption DEF MaxDepth
<1>1. /\ a.leaves \in Seq(Leaves) /\ b.leaves \in Seq(Leaves)
      /\ a.hash \in Hashes /\ b.hash \in Hashes
      /\ a.has_hidden_nodes \in BOOLEAN /\ b.has_hidden_nodes \in BOOLEAN
  BY DEF NodeInfos
<1>2. /\ pa \in Seq(Leaves) /\ Len(pa) = Len(a.leaves)
      /\ pb \in Seq(Leaves) /\ Len(pb) = Len(b.leaves)
      /\ \A i \in 1..Len(a.leaves) :
           Len(pa[i].merkle_branch) = Len(a.leaves[i].merkle_branch) + 1
      /\ \A i \in 1..Len(b.leaves) :
           Len(pb[i].merkle_branch) = Len(b.leaves[i].merkle_branch) + 1
  BY ProvingProperties
<1>3. /\ Len(a.leaves) \in Nat /\ DOMAIN a.leaves = 1..Len(a.leaves)
      /\ Len(b.leaves) \in Nat /\ DOMAIN b.leaves = 1..Len(b.leaves)
  BY <1>1, LenProperties
<1>4. c.leaves = pa \o pb \/ c.leaves = pb \o pa
  BY DEF combine
<1>5. /\ pa \o pb \in Seq(Leaves) /\ pb \o pa \in Seq(Leaves)
      /\ \A i \in DOMAIN (pa \o pb) :
           \/ \E k \in 1..Len(pa) : (pa \o pb)[i] = pa[k]
           \/ \E k \in 1..Len(pb) : (pa \o pb)[i] = pb[k]
      /\ \A i \in DOMAIN (pb \o pa) :
           \/ \E k \in 1..Len(pb) : (pb \o pa)[i] = pb[k]
           \/ \E k \in 1..Len(pa) : (pb \o pa)[i] = pa[k]
  <2> HIDE DEF pa, pb
  <2>1. pa \in Seq(Leaves) /\ pb \in Seq(Leaves)
    BY <1>2
  <2>2. /\ pa \o pb \in Seq(Leaves)
        /\ \A i \in DOMAIN (pa \o pb) :
             \/ \E k \in 1..Len(pa) : (pa \o pb)[i] = pa[k]
             \/ \E k \in 1..Len(pb) : (pa \o pb)[i] = pb[k]
    BY <2>1, ConcatElements
  <2>3. /\ pb \o pa \in Seq(Leaves)
        /\ \A i \in DOMAIN (pb \o pa) :
             \/ \E k \in 1..Len(pb) : (pb \o pa)[i] = pb[k]
             \/ \E k \in 1..Len(pa) : (pb \o pa)[i] = pa[k]
    BY <2>1, ConcatElements
  <2> QED
    BY <2>2, <2>3
<1>6. c \in NodeInfos
  <2>1. combine_node_hashes(a.hash, b.hash) \in Hashes
    BY <1>1, BranchHashType
  <2> HIDE DEF pa, pb
  <2>2. c.leaves \in Seq(Leaves)
    BY <1>4, <1>5
  <2>3. c = [hash |-> combine_node_hashes(a.hash, b.hash), leaves |-> c.leaves,
             has_hidden_nodes |-> a.has_hidden_nodes \/ b.has_hidden_nodes]
    BY DEF combine
  <2>4. (a.has_hidden_nodes \/ b.has_hidden_nodes) \in BOOLEAN
    OBVIOUS
  <2> HIDE DEF c
  <2> QED
    BY <2>1, <2>2, <2>3, <2>4 DEF NodeInfos
<1>7. ASSUME NEW i \in DOMAIN c.leaves
      PROVE  \/ \E k \in 1..Len(a.leaves) : c.leaves[i] = pa[k]
             \/ \E k \in 1..Len(b.leaves) : c.leaves[i] = pb[k]
  <2> HIDE DEF pa, pb, c
  <2>1. CASE c.leaves = pa \o pb
    BY <2>1, <1>2, <1>5, <1>7
  <2>2. CASE c.leaves = pb \o pa
    BY <2>2, <1>2, <1>5, <1>7
  <2> QED
    BY <2>1, <2>2, <1>4
<1>8. CanCombine(a, b) => FitsAt(c, 0)
  <2> SUFFICES ASSUME CanCombine(a, b), NEW i \in DOMAIN c.leaves
               PROVE  Len(c.leaves[i].merkle_branch) + 0 <= MaxDepth
    BY DEF FitsAt
  <2>1. ASSUME NEW k \in 1..Len(a.leaves) PROVE Len(pa[k].merkle_branch) <= MaxDepth
    <3>1. Len(a.leaves[k].merkle_branch) < MaxDepth
      BY <1>3 DEF CanCombine, HasRoom
    <3>2. Len(a.leaves[k].merkle_branch) \in Nat
      BY <1>1, ElementOfSeq, LenProperties DEF Leaves
    <3> QED
      BY <3>1, <3>2, <1>0, <1>2
  <2>2. ASSUME NEW k \in 1..Len(b.leaves) PROVE Len(pb[k].merkle_branch) <= MaxDepth
    <3>1. Len(b.leaves[k].merkle_branch) < MaxDepth
      BY <1>3 DEF CanCombine, HasRoom
    <3>2. Len(b.leaves[k].merkle_branch) \in Nat
      BY <1>1, ElementOfSeq, LenProperties DEF Leaves
    <3> QED
      BY <3>1, <3>2, <1>0, <1>2
  <2>3. Len(c.leaves[i].merkle_branch) <= MaxDepth
    BY <2>1, <2>2, <1>7
  <2>4. Len(c.leaves[i].merkle_branch) \in Nat
    BY <1>6, ElementOfSeq, LenProperties DEF Leaves, NodeInfos
  <2> QED
    BY <2>3, <2>4, <1>0
<1>9. ASSUME NEW level \in 1..MaxDepth, FitsAt(a, level), FitsAt(b, level)
      PROVE  CanCombine(a, b) /\ FitsAt(c, level - 1)
  <2>1. ASSUME NEW k \in 1..Len(a.leaves)
        PROVE  /\ Len(a.leaves[k].merkle_branch) < MaxDepth
               /\ Len(pa[k].merkle_branch) + (level - 1) <= MaxDepth
    <3>1. Len(a.leaves[k].merkle_branch) + level <= MaxDepth
      BY <1>3, <1>9 DEF FitsAt
    <3>2. Len(a.leaves[k].merkle_branch) \in Nat
      BY <1>1, ElementOfSeq, LenProperties DEF Leaves
    <3>3. Len(pa[k].merkle_branch) = Len(a.leaves[k].merkle_branch) + 1
      BY <1>2
    <3> HIDE DEF pa
    <3> QED
      BY <3>1, <3>2, <3>3, <1>0
  <2>2. ASSUME NEW k \in 1..Len(b.leaves)
        PROVE  /\ Len(b.leaves[k].merkle_branch) < MaxDepth
               /\ Len(pb[k].merkle_branch) + (level - 1) <= MaxDepth
    <3>1. Len(b.leaves[k].merkle_branch) + level <= MaxDepth
      BY <1>3, <1>9 DEF FitsAt
    <3>2. Len(b.leaves[k].merkle_branch) \in Nat
      BY <1>1, ElementOfSeq, LenProperties DEF Leaves
    <3>3. Len(pb[k].merkle_branch) = Len(b.leaves[k].merkle_branch) + 1
      BY <1>2
    <3> HIDE DEF pb
    <3> QED
      BY <3>1, <3>2, <3>3, <1>0
  <2>3. CanCombine(a, b)
    BY <2>1, <2>2, <1>3 DEF CanCombine, HasRoom
  <2>4. FitsAt(c, level - 1)
    <3> HIDE DEF pa, pb, c
    <3> QED
      BY <2>1, <2>2, <1>7 DEF FitsAt
  <2> QED
    BY <2>3, <2>4
<1> QED
  BY <1>6, <1>8, <1>9

-----------------------------------------------------------------------------
(* The inductive invariant. *)

HeapItems == {x \in [weight : Nat, node : NodeInfos] : FitsAt(x.node, 0)}
TodoItems == [script : Scripts, depth : 0..MaxDepth]

\* A branch of at most MaxDepth + 1 levels whose nodes all fit where they are.
BranchOK(b) ==
  /\ b \in Seq(Seq(NodeInfos))
  /\ Len(b) <= MaxDepth + 1
  /\ \A i \in 1..Len(b) : Len(b[i]) <= 1 /\ (b[i] # None => FitsAt(b[i][1], i - 1))

Tidy == phase = "ready" /\ branch # <<>> => branch[Len(branch)] # None

\* The node under way fits at its depth, and the branch does not reach below it.
Underway ==
  /\ phase = "entry" => FitsAt(node, MaxDepth)
  /\ phase = "loop" => depth <= MaxDepth /\ Len(branch) <= depth + 1 /\ FitsAt(node, depth)

Taken == phase \in {"node", "tree"} => branch = <<>> /\ FitsAt(node, 0)

Typed ==
  /\ phase \in Phases /\ node \in NodeInfos /\ depth \in 0..(MaxDepth + 1)
  /\ heap \in Seq(HeapItems) /\ todo \in Seq(TodoItems)

IInv == Typed /\ BranchOK(branch) /\ Tidy /\ Underway /\ Taken

-----------------------------------------------------------------------------
\* The limit is a number.
LEMMA Limit == MaxDepth \in Nat
BY TapNodeAssumption DEF MaxDepth

\* A node that fits at a level fits at every level above it.
LEMMA FitsAbove ==
  ASSUME NEW n \in NodeInfos, NEW low \in Nat, NEW high \in Nat, high <= low, FitsAt(n, low)
  PROVE  FitsAt(n, high)
<1> SUFFICES ASSUME NEW i \in DOMAIN n.leaves
             PROVE  Len(n.leaves[i].merkle_branch) + high <= MaxDepth
  BY DEF FitsAt
<1>1. n.leaves \in Seq(Leaves)
  BY DEF NodeInfos
<1>2. n.leaves[i] \in Leaves
  BY <1>1, ElementOfSeq, LenProperties
<1>3. Len(n.leaves[i].merkle_branch) \in Nat
  BY <1>2, LenProperties DEF Leaves
<1>4. Len(n.leaves[i].merkle_branch) + low <= MaxDepth
  BY DEF FitsAt
<1> QED
  BY <1>3, <1>4, Limit

\* What is at a level of the branch, if anything, is a node.
LEMMA NodeAt ==
  ASSUME NEW b, BranchOK(b), NEW i \in 1..Len(b), b[i] # None
  PROVE  b[i][1] \in NodeInfos /\ FitsAt(b[i][1], i - 1)
<1>1. b[i] \in Seq(NodeInfos)
  BY ElementOfSeq DEF BranchOK
<1>2. Len(b[i]) \in Nat \ {0}
  BY <1>1, EmptySeq DEF None
<1>3. 1 \in 1..Len(b[i])
  BY <1>2
<1> QED
  BY <1>1, <1>3, ElementOfSeq DEF BranchOK

\* The branch without its last level (branch.pop() in insert).
LEMMA PopOK ==
  ASSUME NEW b, BranchOK(b), b # <<>>
  PROVE  /\ BranchOK(SubSeq(b, 1, Len(b) - 1))
         /\ Len(SubSeq(b, 1, Len(b) - 1)) = Len(b) - 1
<1> DEFINE c == SubSeq(b, 1, Len(b) - 1)
<1>1. b \in Seq(Seq(NodeInfos)) /\ Len(b) \in Nat \ {0}
  BY EmptySeq DEF BranchOK
<1>2. \A i \in 1..(Len(b) - 1) : b[i] \in Seq(NodeInfos)
  BY <1>1, ElementOfSeq
<1>3. /\ c \in Seq(Seq(NodeInfos))
      /\ Len(c) = IF 1 <= Len(b) - 1 THEN (Len(b) - 1) - 1 + 1 ELSE 0
      /\ \A i \in 1..((Len(b) - 1) - 1 + 1) : c[i] = b[1 + i - 1]
  <2>1. 1 \in Int /\ Len(b) - 1 \in Int
    BY <1>1
  <2> QED
    BY <2>1, <1>2, SubSeqProperties
<1> HIDE DEF c
<1>4. Len(c) = Len(b) - 1
  <2>1. Len(c) = IF 1 <= Len(b) - 1 THEN (Len(b) - 1) - 1 + 1 ELSE 0
    BY <1>3
  <2>2. \A n \in Nat \ {0} : (IF 1 <= n - 1 THEN (n - 1) - 1 + 1 ELSE 0) = n - 1
    OBVIOUS
  <2> QED
    BY <1>1, <2>1, <2>2
<1>5. \A i \in 1..Len(c) : c[i] = b[i] /\ i \in 1..Len(b)
  BY <1>1, <1>3, <1>4
<1>6. Len(c) <= MaxDepth + 1
  BY <1>1, <1>4, Limit DEF BranchOK
<1>7. \A i \in 1..Len(c) : Len(c[i]) <= 1 /\ (c[i] # None => FitsAt(c[i][1], i - 1))
  BY <1>5 DEF BranchOK
<1>8. BranchOK(c)
  BY <1>3, <1>6, <1>7 DEF BranchOK
<1> QED
  BY <1>4, <1>8 DEF c

\* The branch with a node put at its level and None in between (the end of insert).
LEMMA PlaceOK ==
  ASSUME NEW b, BranchOK(b), NEW n \in NodeInfos, NEW d \in 0..MaxDepth,
         Len(b) <= d + 1, FitsAt(n, d)
  PROVE  LET c == [i \in 1..(IF Len(b) > d THEN Len(b) ELSE d + 1) |->
                     IF i = d + 1 THEN Some(n) ELSE IF i <= Len(b) THEN b[i] ELSE None]
         IN  BranchOK(c) /\ c # <<>> /\ c[Len(c)] # None
<1> DEFINE c == [i \in 1..(IF Len(b) > d THEN Len(b) ELSE d + 1) |->
                   IF i = d + 1 THEN Some(n) ELSE IF i <= Len(b) THEN b[i] ELSE None]
<1>1. b \in Seq(Seq(NodeInfos)) /\ Len(b) \in Nat
  BY LenProperties DEF BranchOK
<1>2. (IF Len(b) > d THEN Len(b) ELSE d + 1) = d + 1
  BY <1>1, Limit
<1>3. c = [i \in 1..(d + 1) |->
             IF i = d + 1 THEN Some(n) ELSE IF i <= Len(b) THEN b[i] ELSE None]
  BY <1>2
<1>4. Some(n) \in Seq(NodeInfos) /\ Len(Some(n)) = 1 /\ Some(n)[1] = n /\ Some(n) # None
  BY DEF Some, None
<1>5. None \in Seq(NodeInfos) /\ Len(None) = 0
  BY DEF None
<1>6. \A i \in 1..(d + 1) : i # d + 1 /\ i <= Len(b) => b[i] \in Seq(NodeInfos)
  BY <1>1, ElementOfSeq
<1> HIDE DEF c
<1>7. c \in [1..(d + 1) -> Seq(NodeInfos)]
  BY <1>3, <1>4, <1>5, <1>6
<1>8. c \in Seq(Seq(NodeInfos)) /\ Len(c) = d + 1
  <2>1. d + 1 \in Nat
    BY Limit
  <2> QED
    BY <2>1, <1>7, FunctionIsSeq
<1>9. ASSUME NEW i \in 1..(d + 1)
      PROVE  Len(c[i]) <= 1 /\ (c[i] # None => FitsAt(c[i][1], i - 1))
  <2>1. CASE i = d + 1
    <3>1. c[i] = Some(n)
      BY <1>3, <2>1
    <3>2. i - 1 = d
      BY <2>1, Limit
    <3> QED
      BY <3>1, <3>2, <1>4
  <2>2. CASE i # d + 1 /\ i <= Len(b)
    <3>1. c[i] = b[i] /\ i \in 1..Len(b)
      BY <1>1, <1>3, <2>2
    <3> QED
      BY <3>1 DEF BranchOK
  <2>3. CASE i # d + 1 /\ ~(i <= Len(b))
    <3>1. c[i] = None
      BY <1>3, <2>3
    <3> QED
      BY <3>1, <1>5
  <2> QED
    BY <2>1, <2>2, <2>3
<1>10. BranchOK(c)
  BY <1>8, <1>9, Limit DEF BranchOK
<1>11. c # <<>> /\ c[Len(c)] # None
  <2>1. c[d + 1] = Some(n)
    <3>1. d + 1 \in 1..(d + 1)
      BY Limit
    <3> QED
      BY <3>1, <1>3
  <2>2. Len(c) # 0
    BY <1>8, Limit
  <2> QED
    BY <2>1, <2>2, <1>4, <1>8
<1> QED
  BY <1>10, <1>11 DEF c

\* Taking an element out of a sequence.
LEMMA RemoveAtType ==
  ASSUME NEW S, NEW s \in Seq(S), NEW i \in 1..Len(s)
  PROVE  RemoveAt(s, i) \in Seq(S) /\ Len(RemoveAt(s, i)) = Len(s) - 1
<1>1. Len(s) \in Nat /\ \A k \in 1..Len(s) : s[k] \in S
  BY LenProperties, ElementOfSeq
<1>2. /\ SubSeq(s, 1, i - 1) \in Seq(S)
      /\ Len(SubSeq(s, 1, i - 1)) = IF 1 <= i - 1 THEN (i - 1) - 1 + 1 ELSE 0
  <2>1. 1 \in Int /\ i - 1 \in Int /\ \A k \in 1..(i - 1) : s[k] \in S
    BY <1>1
  <2> QED
    BY <2>1, SubSeqProperties
<1>3. /\ SubSeq(s, i + 1, Len(s)) \in Seq(S)
      /\ Len(SubSeq(s, i + 1, Len(s))) = IF i + 1 <= Len(s) THEN Len(s) - (i + 1) + 1 ELSE 0
  <2>1. i + 1 \in Int /\ Len(s) \in Int /\ \A k \in (i + 1)..Len(s) : s[k] \in S
    BY <1>1
  <2> QED
    BY <2>1, SubSeqProperties
<1>4. /\ RemoveAt(s, i) \in Seq(S)
      /\ Len(RemoveAt(s, i)) = Len(SubSeq(s, 1, i - 1)) + Len(SubSeq(s, i + 1, Len(s)))
  BY <1>2, <1>3, ConcatProperties DEF RemoveAt
<1>5. Len(SubSeq(s, 1, i - 1)) = i - 1
  BY <1>1, <1>2
<1>6. Len(SubSeq(s, i + 1, Len(s))) = Len(s) - i
  BY <1>1, <1>3
<1>7. (i - 1) + (Len(s) - i) = Len(s) - 1
  BY <1>1
<1> QED
  BY <1>4, <1>5, <1>6, <1>7

\* The serialized leaves of a node that fits at the root (NodeInfo::serialize).
LEMMA SerializedType ==
  ASSUME NEW n \in NodeInfos, FitsAt(n, 0)
  PROVE  Serialized(n) \in Seq(TodoItems)
<1> DEFINE len == Len(n.leaves)
<1>1. n.leaves \in Seq(Leaves) /\ len \in Nat /\ DOMAIN n.leaves = 1..len
  BY LenProperties DEF NodeInfos
<1>2. ASSUME NEW i \in 1..len
      PROVE  [script |-> n.leaves[i].script, depth |-> Len(n.leaves[i].merkle_branch)] \in TodoItems
  <2>1. n.leaves[i] \in Leaves
    BY <1>1, ElementOfSeq
  <2>2. n.leaves[i].script \in Scripts /\ Len(n.leaves[i].merkle_branch) \in Nat
    BY <2>1, LenProperties DEF Leaves
  <2>3. Len(n.leaves[i].merkle_branch) + 0 <= MaxDepth
    BY <1>1 DEF FitsAt
  <2> QED
    BY <2>2, <2>3, Limit DEF TodoItems
<1>3. Serialized(n) \in [1..len -> TodoItems]
  BY <1>1, <1>2 DEF Serialized
<1> QED
  BY <1>1, <1>3, FunctionIsSeq

-----------------------------------------------------------------------------
\* A new builder is empty.
LEMMA InitInv == Init => IInv
<1> SUFFICES ASSUME Init PROVE IInv
  OBVIOUS
<1>1. <<>> \in Seq(Nat)
  OBVIOUS
<1>2. node \in NodeInfos
  BY <1>1, NewHidden DEF Init, Hashes
<1>3. heap \in Seq(HeapItems) /\ todo \in Seq(TodoItems) /\ branch \in Seq(Seq(NodeInfos))
  BY EmptySeq DEF Init
<1>4. depth \in 0..(MaxDepth + 1) /\ phase = "ready"
  BY Limit DEF Init
<1>5. Len(branch) = 0 /\ branch = <<>>
  BY EmptySeq DEF Init
<1>6. BranchOK(branch)
  BY <1>3, <1>5, Limit DEF BranchOK
<1> QED
  BY <1>2, <1>3, <1>4, <1>5, <1>6 DEF IInv, Typed, Tidy, Underway, Taken, Phases

\* A call of insert starts with a node that holds one leaf or none.
LEMMA BeginInv ==
  ASSUME IInv, NEW n \in NodeInfos, NEW d \in 0..(MaxDepth + 1), FitsAt(n, MaxDepth),
         BeginInsert(n, d), todo' \in Seq(TodoItems)
  PROVE  IInv'
<1>1. phase' = "entry" /\ node' = n /\ depth' = d /\ UNCHANGED <<branch, heap>>
  BY DEF BeginInsert
<1>2. Typed'
  BY <1>1 DEF IInv, Typed, Phases
<1>3. BranchOK(branch)'
  BY <1>1 DEF IInv
<1>4. FitsAt(node', MaxDepth)
  BY <1>1
<1>5. Tidy' /\ Underway' /\ Taken'
  BY <1>1, <1>4 DEF Tidy, Underway, Taken
<1> QED
  BY <1>2, <1>3, <1>5 DEF IInv

\* add_leaf and add_hidden_node.
LEMMA AddInv ==
  ASSUME IInv, NEW d \in 0..(MaxDepth + 1), NEW s \in Inserted,
         add_leaf(d, s) \/ add_hidden_node(d, s)
  PROVE  IInv'
<1>1. s \in Scripts /\ MaxDepth \in 0..MaxDepth
  BY TaprootAssumption, Limit
<1>2. new_leaf(s) \in NodeInfos /\ FitsAt(new_leaf(s), MaxDepth)
  BY <1>1, NewLeaf
<1>3. new_hidden_node(script_hash(s)) \in NodeInfos
      /\ FitsAt(new_hidden_node(script_hash(s)), MaxDepth)
  <2>1. 2 * s \in Nat
    BY <1>1, TapNodeAssumption
  <2>2. script_hash(s) \in Hashes
    BY <2>1 DEF script_hash, Hashes
  <2> QED
    BY <2>2, NewHidden
<1>4. todo' \in Seq(TodoItems)
  BY DEF add_leaf, add_hidden_node, Add, IInv, Typed
<1>5. CASE add_leaf(d, s)
  <2>1. BeginInsert(new_leaf(s), d)
    BY <1>5 DEF add_leaf, Add
  <2> QED
    BY <2>1, <1>2, <1>4, BeginInv
<1>6. CASE add_hidden_node(d, s)
  <2>1. BeginInsert(new_hidden_node(script_hash(s)), d)
    BY <1>6 DEF add_hidden_node, Add
  <2> QED
    BY <2>1, <1>3, <1>4, BeginInv
<1> QED
  BY <1>5, <1>6

\* A leaf of a serialized tree is inserted like any other.
LEMMA DeserializeLeafInv == ASSUME IInv, DeserializeLeaf PROVE IInv'
<1>1. todo \in Seq(TodoItems) /\ todo # <<>>
  BY DEF IInv, Typed, DeserializeLeaf
<1>2. 1 \in 1..Len(todo) /\ todo' \in Seq(TodoItems)
  <2>1. Len(todo) \in Nat \ {0}
    BY <1>1, EmptySeq
  <2>2. Tail(todo) \in Seq(TodoItems)
    BY <1>1, HeadTailProperties
  <2> QED
    BY <2>1, <2>2 DEF DeserializeLeaf
<1>3. todo[1] \in TodoItems
  BY <1>1, <1>2, ElementOfSeq
<1>4. todo[1].script \in Scripts /\ todo[1].depth \in 0..(MaxDepth + 1)
  BY <1>3, Limit DEF TodoItems
<1>5. new_leaf(todo[1].script) \in NodeInfos /\ FitsAt(new_leaf(todo[1].script), MaxDepth)
  BY <1>4, NewLeaf, Limit
<1>6. BeginInsert(new_leaf(todo[1].script), todo[1].depth)
  BY DEF DeserializeLeaf
<1> QED
  BY <1>2, <1>4, <1>5, <1>6, BeginInv

\* The checks of insert establish what its loop relies on.
LEMMA InsertChecksInv == ASSUME IInv, InsertChecks PROVE IInv'
<1>1. /\ phase = "entry" /\ UNCHANGED <<branch, node, depth, heap, todo>>
      /\ phase' = IF depth > MaxDepth \/ depth + 1 < Len(branch) THEN "gone" ELSE "loop"
  BY DEF InsertChecks, tree, Unmoved, serde
<1>2. node \in NodeInfos /\ depth \in 0..(MaxDepth + 1) /\ FitsAt(node, MaxDepth)
  BY <1>1 DEF IInv, Typed, Underway
<1>3. Len(branch) \in Nat
  BY LenProperties DEF IInv, BranchOK
<1>4. Typed' /\ BranchOK(branch)'
  BY <1>1 DEF IInv, Typed, Phases
<1>5. Underway'
  <2> SUFFICES ASSUME phase' = "loop"
               PROVE  depth <= MaxDepth /\ Len(branch) <= depth + 1 /\ FitsAt(node, depth)
    BY <1>1 DEF Underway
  <2>1. ~(depth > MaxDepth) /\ ~(depth + 1 < Len(branch))
    BY <1>1
  <2>2. depth \in Nat /\ depth <= MaxDepth /\ Len(branch) <= depth + 1
    BY <2>1, <1>2, <1>3, Limit
  <2> QED
    BY <2>2, <1>2, Limit, FitsAbove
<1>6. Tidy' /\ Taken'
  BY <1>1 DEF Tidy, Taken
<1> QED
  BY <1>4, <1>5, <1>6 DEF IInv

\* In the loop of insert the sibling is a node that fits where the new one does, so the
\* two combine, and fit one level up.
LEMMA SiblingFits ==
  ASSUME IInv, phase = "loop", Sibling, depth > 0
  PROVE  LET sibling == branch[Len(branch)][1]
         IN  /\ CanCombine(node, sibling)
             /\ combine(node, sibling) \in NodeInfos
             /\ FitsAt(combine(node, sibling), depth - 1)
<1> DEFINE sibling == branch[Len(branch)][1]
<1>1. /\ node \in NodeInfos /\ depth \in 0..(MaxDepth + 1) /\ depth <= MaxDepth
      /\ FitsAt(node, depth) /\ BranchOK(branch)
  BY DEF IInv, Typed, Underway
<1>2. Len(branch) = depth + 1 /\ branch[Len(branch)] # None
  BY DEF Sibling
<1>3. depth \in 1..MaxDepth
  BY <1>1, Limit
<1>4. Len(branch) \in 1..Len(branch) /\ Len(branch) - 1 = depth
  BY <1>2, <1>3, Limit
<1>5. sibling \in NodeInfos /\ FitsAt(sibling, depth)
  BY <1>1, <1>2, <1>4, NodeAt
<1> HIDE DEF sibling
<1>6. CanCombine(node, sibling) /\ combine(node, sibling) \in NodeInfos
      /\ FitsAt(combine(node, sibling), depth - 1)
  BY <1>1, <1>3, <1>5, CombineProperties
<1> QED
  BY <1>6 DEF sibling

\* A turn of the loop of insert.
LEMMA CombineUpInv == ASSUME IInv, CombineUp PROVE IInv'
<1>1. /\ phase = "loop" /\ Sibling /\ depth > 0
      /\ node' = combine(node, branch[Len(branch)][1])
      /\ depth' = depth - 1
      /\ branch' = SubSeq(branch, 1, Len(branch) - 1)
      /\ UNCHANGED <<phase, heap, todo>>
  BY DEF CombineUp, Unmoved, serde
<1>2. depth \in 0..(MaxDepth + 1) /\ depth <= MaxDepth
  BY <1>1 DEF IInv, Typed, Underway
<1>3. node' \in NodeInfos /\ FitsAt(node', depth')
  BY <1>1, SiblingFits
<1>4. Len(branch) = depth + 1
  BY <1>1 DEF Sibling
<1>5. BranchOK(branch') /\ Len(branch') = Len(branch) - 1
  <2>1. BranchOK(branch)
    BY DEF IInv
  <2>2. branch # <<>>
    <3>1. Len(branch) # 0
      BY <1>2, <1>4
    <3> QED
      BY <3>1, EmptySeq
  <2> QED
    BY <2>1, <2>2, <1>1, PopOK
<1>6. depth' \in 0..(MaxDepth + 1) /\ depth' <= MaxDepth /\ Len(branch') <= depth' + 1
  <2>1. depth \in Nat /\ depth' = depth - 1 /\ depth > 0
    BY <1>1, <1>2
  <2>2. Len(branch') = depth
    BY <1>2, <1>4, <1>5
  <2> QED
    BY <2>1, <2>2, <1>2, Limit
<1>7. Typed'
  BY <1>1, <1>3, <1>6 DEF IInv, Typed
<1>8. Underway' /\ Tidy' /\ Taken'
  BY <1>1, <1>3, <1>6 DEF Underway, Tidy, Taken
<1> QED
  BY <1>5, <1>7, <1>8 DEF IInv

\* A step that drops the builder.
LEMMA GoneInv ==
  ASSUME IInv, phase' = "gone", UNCHANGED <<branch, node, depth, heap, todo>>
  PROVE  IInv'
BY DEF IInv, Typed, Phases, Tidy, Underway, Taken

\* The end of insert.
LEMMA PlaceInv == ASSUME IInv, Place PROVE IInv'
<1>1. phase = "loop" /\ phase' = "ready" /\ UNCHANGED <<node, depth, heap, todo>>
  BY DEF Place, Unmoved, serde
<1>2. /\ branch' = [i \in 1..(IF Len(branch) > depth THEN Len(branch) ELSE depth + 1) |->
                      IF i = depth + 1 THEN Some(node)
                      ELSE IF i <= Len(branch) THEN branch[i] ELSE None]
  BY DEF Place
<1>3. /\ BranchOK(branch) /\ node \in NodeInfos /\ depth \in 0..MaxDepth
      /\ Len(branch) <= depth + 1 /\ FitsAt(node, depth)
  BY <1>1, Limit DEF IInv, Typed, Underway
<1>4. BranchOK(branch') /\ branch' # <<>> /\ branch'[Len(branch')] # None
  BY <1>2, <1>3, PlaceOK
<1>5. Typed'
  BY <1>1 DEF IInv, Typed, Phases
<1> QED
  BY <1>1, <1>4, <1>5 DEF IInv, Tidy, Underway, Taken

\* with_huffman_tree fills its heap with leaves.
LEMMA HuffmanBeginInv == ASSUME IInv, NEW ws \in WeightLists, HuffmanBegin(ws) PROVE IInv'
<1>1. /\ phase = "ready" /\ UNCHANGED <<branch, node, depth, todo>>
      /\ IF ws = <<>>
           THEN phase' = "gone" /\ UNCHANGED heap
           ELSE /\ phase' = "huffman"
                /\ heap' = [i \in DOMAIN ws |-> [weight |-> ws[i], node |-> new_leaf(i)]]
  BY DEF HuffmanBegin, tree, serde
<1>2. CASE ws = <<>>
  BY <1>1, <1>2, GoneInv
<1>3. CASE ws # <<>>
  <2>1. ws \in Seq(1..MaxWeight) /\ DOMAIN ws \subseteq Scripts /\ MaxWeight \in Nat
    BY TaprootAssumption
  <2>2. Len(ws) \in Nat /\ DOMAIN ws = 1..Len(ws)
    BY <2>1, LenProperties
  <2>3. heap' = [i \in 1..Len(ws) |-> [weight |-> ws[i], node |-> new_leaf(i)]]
    BY <1>1, <1>3, <2>2
  <2>4. ASSUME NEW i \in 1..Len(ws)
        PROVE  [weight |-> ws[i], node |-> new_leaf(i)] \in HeapItems
    <3>1. i \in Scripts /\ ws[i] \in Nat
      BY <2>1, <2>2, ElementOfSeq
    <3>2. new_leaf(i) \in NodeInfos /\ FitsAt(new_leaf(i), 0)
      BY <3>1, NewLeaf, Limit
    <3> QED
      BY <3>1, <3>2 DEF HeapItems
  <2>5. heap' \in [1..Len(ws) -> HeapItems]
    BY <2>3, <2>4
  <2>6. heap' \in Seq(HeapItems)
    BY <2>2, <2>5, FunctionIsSeq
  <2>7. phase' = "huffman"
    BY <1>1, <1>3
  <2> QED
    BY <1>1, <2>6, <2>7 DEF IInv, Typed, Phases, Tidy, Underway, Taken
<1> QED
  BY <1>2, <1>3

\* A turn of the loop of with_huffman_tree: two nodes leave the heap and one enters.
LEMMA HuffmanMergeInv == ASSUME IInv, HuffmanMerge PROVE IInv'
<1>1. /\ phase = "huffman" /\ UNCHANGED <<branch, node, depth, todo>>
      /\ heap \in Seq(HeapItems)
  BY DEF HuffmanMerge, tree, serde, IInv, Typed
<1>2. Len(heap) \in Nat /\ DOMAIN heap = 1..Len(heap)
  BY <1>1, LenProperties
<1> DEFINE hi(p) == IF p[1] > p[2] THEN p[1] ELSE p[2]
           lo(p) == IF p[1] > p[2] THEN p[2] ELSE p[1]
           rest(p) == RemoveAt(RemoveAt(heap, hi(p)), lo(p))
           both(p) == [weight |-> saturating_add(heap[p[1]].weight, heap[p[2]].weight),
                       node |-> combine(heap[p[1]].node, heap[p[2]].node)]
<1>3. PICK p \in Pops :
        IF CanCombine(heap[p[1]].node, heap[p[2]].node)
          THEN heap' = Append(rest(p), both(p)) /\ UNCHANGED phase
          ELSE phase' = "gone" /\ UNCHANGED heap
  BY DEF HuffmanMerge
<1>4. p[1] \in 1..Len(heap) /\ p[2] \in 1..Len(heap) /\ p[1] # p[2]
  BY <1>2 DEF Pops
<1>5. heap[p[1]] \in HeapItems /\ heap[p[2]] \in HeapItems
  BY <1>1, <1>4, ElementOfSeq
<1>6. CASE ~CanCombine(heap[p[1]].node, heap[p[2]].node)
  BY <1>1, <1>3, <1>6, GoneInv
<1>7. CASE CanCombine(heap[p[1]].node, heap[p[2]].node)
  <2>1. heap' = Append(rest(p), both(p)) /\ phase' = phase
    BY <1>3, <1>7
  <2>2. both(p) \in HeapItems
    <3>1. /\ heap[p[1]].node \in NodeInfos /\ heap[p[2]].node \in NodeInfos
          /\ heap[p[1]].weight \in Nat /\ heap[p[2]].weight \in Nat
      BY <1>5 DEF HeapItems
    <3>2. combine(heap[p[1]].node, heap[p[2]].node) \in NodeInfos
          /\ FitsAt(combine(heap[p[1]].node, heap[p[2]].node), 0)
      BY <3>1, <1>7, CombineProperties
    <3>3. saturating_add(heap[p[1]].weight, heap[p[2]].weight) \in Nat
      BY <3>1, TaprootAssumption DEF saturating_add
    <3> QED
      BY <3>2, <3>3 DEF HeapItems
  <2>3. rest(p) \in Seq(HeapItems)
    <3>1. hi(p) \in 1..Len(heap) /\ lo(p) \in 1..(Len(heap) - 1)
      BY <1>2, <1>4
    <3> HIDE DEF hi, lo
    <3>2. /\ RemoveAt(heap, hi(p)) \in Seq(HeapItems)
          /\ Len(RemoveAt(heap, hi(p))) = Len(heap) - 1
      BY <1>1, <3>1, RemoveAtType
    <3> QED
      BY <3>1, <3>2, RemoveAtType
  <2>4. heap' \in Seq(HeapItems)
    <3> HIDE DEF rest, both
    <3> QED
      BY <2>1, <2>2, <2>3, AppendProperties
  <2> QED
    BY <1>1, <2>1, <2>4 DEF IInv, Typed, Tidy, Underway, Taken
<1> QED
  BY <1>6, <1>7

\* The last node of the heap becomes the root.
LEMMA HuffmanEndInv == ASSUME IInv, HuffmanEnd PROVE IInv'
<1>1. /\ phase' = "ready" /\ heap' = <<>> /\ UNCHANGED <<node, depth, todo>>
      /\ branch' = <<Some(heap[1].node)>>
      /\ Len(heap) = 1 /\ heap \in Seq(HeapItems)
  BY DEF HuffmanEnd, serde, IInv, Typed
<1>2. heap[1] \in HeapItems
  <2>1. 1 \in 1..Len(heap)
    BY <1>1
  <2> QED
    BY <1>1, <2>1, ElementOfSeq
<1> DEFINE n == heap[1].node
<1>3. n \in NodeInfos /\ FitsAt(n, 0)
  BY <1>2 DEF HeapItems
<1> HIDE DEF n
<1>4. branch' = <<<<n>>>>
  BY <1>1 DEF Some, n
<1>5. /\ <<n>> \in Seq(NodeInfos) /\ Len(<<n>>) = 1 /\ <<n>>[1] = n /\ <<n>> # <<>>
      /\ 1 - 1 = 0
  BY <1>3
<1>6. /\ <<<<n>>>> \in Seq(Seq(NodeInfos)) /\ Len(<<<<n>>>>) = 1 /\ <<<<n>>>>[1] = <<n>>
  BY <1>5
<1>7. BranchOK(<<<<n>>>>)
  <2> DEFINE b == <<<<n>>>>
  <2>1. b \in Seq(Seq(NodeInfos)) /\ Len(b) = 1 /\ b[1] = <<n>>
    BY <1>6
  <2> HIDE DEF b
  <2>2. Len(b) <= MaxDepth + 1
    BY <2>1, Limit
  <2>3. \A i \in 1..Len(b) : i = 1
    BY <2>1
  <2>4. Len(b[1]) <= 1 /\ FitsAt(b[1][1], 1 - 1)
    BY <2>1, <1>3, <1>5
  <2>5. BranchOK(b)
    BY <2>1, <2>2, <2>3, <2>4 DEF BranchOK
  <2> QED
    BY <2>5 DEF b
<1>8. Typed'
  BY <1>1, EmptySeq DEF IInv, Typed, Phases
<1>9. Tidy'
  BY <1>4, <1>5, <1>6 DEF Tidy, None
<1> QED
  BY <1>1, <1>4, <1>7, <1>8, <1>9 DEF IInv, Underway, Taken

\* Between calls a branch of one level holds a root whose proofs are within the limit.
LEMMA RootFits ==
  ASSUME IInv, phase = "ready", Len(branch) = 1
  PROVE  branch[1][1] \in NodeInfos /\ FitsAt(branch[1][1], 0)
<1>1. branch # <<>> /\ 1 \in 1..Len(branch) /\ 1 - 1 = 0
  BY EmptySeq
<1>2. branch[1] # None
  BY <1>1 DEF IInv, Tidy
<1> QED
  BY <1>1, <1>2, NodeAt DEF IInv

\* The root leaves the builder (finalize, try_into_node_info, try_into_tap_tree).
LEMMA TakeRootInv ==
  ASSUME IInv, NEW to \in {"spend", "node", "tree"}, TakeRoot(to) PROVE IInv'
<1>1. /\ phase = "ready" /\ Len(branch) = 1
      /\ phase' = to /\ node' = branch[1][1] /\ branch' = <<>>
      /\ UNCHANGED <<depth, heap, todo>>
  BY DEF TakeRoot, serde
<1>2. node' \in NodeInfos /\ FitsAt(node', 0)
  BY <1>1, RootFits
<1>3. BranchOK(branch')
  <2>1. <<>> \in Seq(Seq(NodeInfos)) /\ Len(<<>>) = 0
    BY EmptySeq
  <2>2. BranchOK(<<>>)
    BY <2>1, Limit DEF BranchOK
  <2> QED
    BY <1>1, <2>2
<1>4. Typed'
  BY <1>1, <1>2 DEF IInv, Typed, Phases
<1> QED
  BY <1>1, <1>2, <1>3, <1>4 DEF IInv, Tidy, Underway, Taken

\* A key without scripts.
LEMMA KeySpendInv ==
  ASSUME IInv, phase' = "keyspend", UNCHANGED <<branch, node, depth, heap, todo>>
  PROVE  IInv'
BY DEF IInv, Typed, Phases, Tidy, Underway, Taken

\* The leaves of a finished tree are written out.
LEMMA SerializeInv == ASSUME IInv, Serialize PROVE IInv'
<1>1. /\ phase \in {"node", "tree"} /\ phase' = "ready" /\ todo' = Serialized(node)
      /\ UNCHANGED <<branch, node, depth, heap>>
  BY DEF Serialize, tree
<1>2. branch = <<>> /\ FitsAt(node, 0) /\ node \in NodeInfos
  BY <1>1 DEF IInv, Taken, Typed
<1>3. todo' \in Seq(TodoItems)
  BY <1>1, <1>2, SerializedType
<1>4. Typed'
  BY <1>1, <1>3 DEF IInv, Typed, Phases
<1> QED
  BY <1>1, <1>2, <1>4 DEF IInv, Tidy, Underway, Taken

\* All leaves are read: the tree is whole, or deserialization fails.
LEMMA DeserializeEndInv == ASSUME IInv, DeserializeEnd PROVE IInv'
<1>1. /\ phase = "ready" /\ UNCHANGED <<branch, depth, heap, todo>>
      /\ IF Len(branch) = 1
           THEN phase' = "restored" /\ node' = branch[1][1]
           ELSE phase' = "gone" /\ UNCHANGED node
  BY DEF DeserializeEnd, serde
<1>2. CASE Len(branch) # 1
  BY <1>1, <1>2, GoneInv
<1>3. CASE Len(branch) = 1
  <2>1. phase' = "restored" /\ node' = branch[1][1] /\ node' \in NodeInfos
    BY <1>1, <1>3, RootFits
  <2> QED
    BY <1>1, <2>1 DEF IInv, Typed, Phases, Tidy, Underway, Taken
<1> QED
  BY <1>2, <1>3

\* No step breaks the invariant.
LEMMA NextInv == IInv /\ [Next]_vars => IInv'
<1> SUFFICES ASSUME IInv, [Next]_vars PROVE IInv'
  OBVIOUS
<1>1. CASE UNCHANGED vars
  BY <1>1 DEF IInv, Typed, BranchOK, Tidy, Underway, Taken, vars, tree, serde
<1>2. CASE \E d \in 0..(MaxDepth + 1), s \in Inserted : add_leaf(d, s) \/ add_hidden_node(d, s)
  BY <1>2, AddInv
<1>3. CASE InsertChecks
  BY <1>3, InsertChecksInv
<1>4. CASE CombineUp
  BY <1>4, CombineUpInv
<1>5. CASE CombineFails
  <2>1. phase' = "gone" /\ UNCHANGED <<branch, node, depth, heap, todo>>
    BY <1>5 DEF CombineFails, tree, Unmoved, serde
  <2> QED
    BY <2>1, GoneInv
<1>6. CASE Place
  BY <1>6, PlaceInv
<1>7. CASE \E ws \in WeightLists : HuffmanBegin(ws)
  BY <1>7, HuffmanBeginInv
<1>8. CASE HuffmanMerge
  BY <1>8, HuffmanMergeInv
<1>9. CASE HuffmanEnd
  BY <1>9, HuffmanEndInv
<1>10. CASE Finalize
  <2>1. CASE TakeRoot("spend")
    BY <2>1, TakeRootInv
  <2>2. CASE phase' = "keyspend" /\ UNCHANGED <<tree, asked, heap, given, script_map, serde>>
    <3>1. phase' = "keyspend" /\ UNCHANGED <<branch, node, depth, heap, todo>>
      BY <2>2 DEF tree, serde
    <3> QED
      BY <3>1, KeySpendInv
  <2> QED
    BY <1>10, <2>1, <2>2 DEF Finalize
<1>11. CASE TryIntoNodeInfo
  BY <1>11, TakeRootInv DEF TryIntoNodeInfo
<1>12. CASE TryIntoTapTree
  BY <1>12, TakeRootInv DEF TryIntoTapTree
<1>13. CASE NotFinalized \/ Finished
  BY <1>1, <1>13 DEF NotFinalized, Finished
<1>14. CASE Serialize
  BY <1>14, SerializeInv
<1>15. CASE DeserializeLeaf
  BY <1>15, DeserializeLeafInv
<1>16. CASE DeserializeEnd
  BY <1>16, DeserializeEndInv
<1> QED
  BY <1>1, <1>2, <1>3, <1>4, <1>5, <1>6, <1>7, <1>8, <1>9, <1>10, <1>11, <1>12, <1>13,
     <1>14, <1>15, <1>16 DEF Next

\* The inductive invariant of the builder: every node on the branch, under way or in the
\* heap leaves its proofs room for the levels above it.
THEOREM BuilderInvariant == Spec => []IInv
BY InitInv, NextInv, PTL DEF Spec

\* The struct's comment: no None at the end between calls, and no more levels than a
\* Merkle proof can have.
THEOREM BranchesAreTidy == Spec => []TaprootTypeOK
<1>1. IInv => TaprootTypeOK
  <2> SUFFICES ASSUME IInv PROVE TaprootTypeOK
    OBVIOUS
  <2>1. branch \in Seq(Seq(NodeInfos)) /\ Len(branch) <= MaxDepth + 1
    BY DEF IInv, BranchOK
  <2>2. DOMAIN branch = 1..Len(branch)
    BY <2>1, LenProperties
  <2>3. \A i \in DOMAIN branch : Len(branch[i]) <= 1
    BY <2>2 DEF IInv, BranchOK
  <2> QED
    BY <2>1, <2>3 DEF IInv, Typed, Tidy, TaprootTypeOK
<1> QED
  BY <1>1, BuilderInvariant, PTL

\* The depth check on entry to insert is enough: combine cannot fail inside its loop,
\* whatever the limit and however many leaves there are.
THEOREM DepthIsCheckedOnce == Spec => []CombineNeverFails
<1>1. IInv => CombineNeverFails
  BY SiblingFits DEF CombineNeverFails
<1> QED
  BY <1>1, BuilderInvariant, PTL

-----------------------------------------------------------------------------
(* Branches of the tree: their hash does not depend on which child is which. *)

WF == INSTANCE WellFoundedInduction

\* A set of numbers that is not empty has a least one.
LEMMA LeastNumber ==
  ASSUME NEW T, T \subseteq Nat, T # {}
  PROVE  \E n \in T : \A m \in T : n <= m
<1>. DEFINE R == WF!OpToRel(<, Nat)
<1>1. WF!IsWellFoundedOn(R, Nat)
  BY WF!NatLessThanWellFounded
<1>2. \A x, y \in Nat : y < x => <<y, x>> \in R
  BY DEF WF!OpToRel
<1>. HIDE DEF R
<1>3. PICK n \in T : \A m \in T : ~(<<m, n>> \in R)
  BY <1>1, WF!WFMin
<1>4. \A m \in T : n \in Nat /\ m \in Nat /\ ~(m < n)
  BY <1>2, <1>3
<1>. QED
  BY <1>3, <1>4

\* The order of hashes is total.
LEMMA BelowIsTotal ==
  ASSUME NEW a \in Hashes, NEW b \in Hashes, a # b
  PROVE  Below(a, b) \/ Below(b, a)
<1>1. /\ a \in Seq(Nat) /\ b \in Seq(Nat) /\ Len(a) \in Nat /\ Len(b) \in Nat
      /\ DOMAIN a = 1..Len(a) /\ DOMAIN b = 1..Len(b)
  BY LenProperties DEF Hashes
<1>2. (\A i \in 1..Len(a) : a[i] \in Nat) /\ (\A i \in 1..Len(b) : b[i] \in Nat)
  BY <1>1, ElementOfSeq
<1>. DEFINE same(i) == i \in DOMAIN a /\ i \in DOMAIN b /\ a[i] = b[i]
            T == {i \in Nat : (i \in DOMAIN a \/ i \in DOMAIN b) /\ ~same(i)}
<1>3. T # {}
  <2>. SUFFICES ASSUME T = {} PROVE FALSE
    OBVIOUS
  <2>1. \A i \in Nat : i \in DOMAIN a \/ i \in DOMAIN b => same(i)
    OBVIOUS
  <2>2. (\A i \in 1..Len(a) : same(i)) /\ (\A i \in 1..Len(b) : same(i))
    BY <1>1, <2>1
  <2>3. Len(a) = Len(b)
    <3>1. Len(a) <= Len(b)
      <4>1. CASE Len(a) = 0
        BY <1>1, <4>1
      <4>2. CASE Len(a) # 0
        <5>1. Len(a) \in 1..Len(a)
          BY <1>1, <4>2
        <5>2. Len(a) \in DOMAIN b
          BY <2>2, <5>1
        <5>. QED
          BY <1>1, <5>2
      <4>. QED
        BY <4>1, <4>2
    <3>2. Len(b) <= Len(a)
      <4>1. CASE Len(b) = 0
        BY <1>1, <4>1
      <4>2. CASE Len(b) # 0
        <5>1. Len(b) \in 1..Len(b)
          BY <1>1, <4>2
        <5>2. Len(b) \in DOMAIN a
          BY <2>2, <5>1
        <5>. QED
          BY <1>1, <5>2
      <4>. QED
        BY <4>1, <4>2
    <3>3. Len(a) \in Nat /\ Len(b) \in Nat
      BY <1>1
    <3>. QED
      BY ONLY <3>1, <3>2, <3>3
  <2>4. \A i \in 1..Len(a) : a[i] = b[i]
    BY <2>2
  <2>. QED
    BY <1>1, <2>3, <2>4, SeqEqual
<1>4. PICK i \in T : \A j \in T : i <= j
  <2>1. T \subseteq Nat
    OBVIOUS
  <2>. HIDE DEF T
  <2>. QED
    BY <1>3, <2>1, LeastNumber
<1>5. i \in Nat /\ (i \in DOMAIN a \/ i \in DOMAIN b) /\ ~same(i) /\ i >= 1
  BY <1>1
<1>6. \A j \in 1..(i - 1) : same(j)
  <2>. SUFFICES ASSUME NEW j \in 1..(i - 1) PROVE same(j)
    OBVIOUS
  <2>1. j \in Nat /\ j < i
    BY <1>5
  <2>2. j \notin T
    BY <1>4, <1>5, <2>1
  <2>3. j \in DOMAIN a \/ j \in DOMAIN b
    BY <1>1, <1>5
  <2>. QED
    BY <2>1, <2>2, <2>3
<1>7. CASE i \notin DOMAIN a
  BY <1>5, <1>6, <1>7 DEF Below
<1>8. CASE i \notin DOMAIN b
  BY <1>5, <1>6, <1>8 DEF Below
<1>9. CASE i \in DOMAIN a /\ i \in DOMAIN b
  <2>1. a[i] \in Nat /\ b[i] \in Nat /\ a[i] # b[i]
    BY <1>1, <1>2, <1>5, <1>9
  <2>2. a[i] < b[i] \/ b[i] < a[i]
    BY <2>1
  <2>. QED
    BY <1>6, <1>9, <2>2 DEF Below
<1>. QED
  BY <1>7, <1>8, <1>9

\* No two hashes are below each other.
LEMMA BelowOneWay ==
  ASSUME NEW a \in Hashes, NEW b \in Hashes, Below(a, b), Below(b, a)
  PROVE  FALSE
<1>1. /\ a \in Seq(Nat) /\ b \in Seq(Nat) /\ Len(a) \in Nat /\ Len(b) \in Nat
      /\ DOMAIN a = 1..Len(a) /\ DOMAIN b = 1..Len(b)
  BY LenProperties DEF Hashes
<1>2. (\A i \in 1..Len(a) : a[i] \in Nat) /\ (\A i \in 1..Len(b) : b[i] \in Nat)
  BY <1>1, ElementOfSeq
<1>3. PICK i \in DOMAIN b : /\ \A j \in 1..(i - 1) : j \in DOMAIN a /\ a[j] = b[j]
                            /\ i \in DOMAIN a => a[i] < b[i]
  BY DEF Below
<1>4. PICK k \in DOMAIN a : /\ \A j \in 1..(k - 1) : j \in DOMAIN b /\ b[j] = a[j]
                            /\ k \in DOMAIN b => b[k] < a[k]
  BY DEF Below
<1>5. i \in 1..Len(b) /\ k \in 1..Len(a)
  BY <1>1, <1>3, <1>4
<1>6. CASE i < k
  <2>1. i \in 1..(k - 1)
    BY <1>5, <1>6
  <2>2. i \in DOMAIN a /\ b[i] = a[i] /\ a[i] < b[i]
    <3>1. i \in 1..Len(a) /\ b[i] = a[i]
      BY <1>4, <1>5, <2>1
    <3>. QED
      BY <1>1, <1>3, <3>1
  <2>. QED
    BY <1>2, <1>5, <2>2
<1>7. CASE k < i
  <2>1. k \in 1..(i - 1)
    BY <1>5, <1>7
  <2>2. b[k] = a[k] /\ b[k] < a[k]
    <3>1. k \in 1..Len(b) /\ b[k] = a[k]
      BY <1>3, <1>5, <2>1
    <3>. QED
      BY <1>1, <1>4, <3>1
  <2>. QED
    BY <1>2, <1>5, <2>2
<1>8. CASE i = k
  <2>1. a[i] < b[i] /\ b[i] < a[i] /\ a[i] \in Nat /\ b[i] \in Nat
    BY <1>1, <1>2, <1>3, <1>4, <1>8
  <2>. QED
    BY <2>1
<1>. QED
  BY <1>5, <1>6, <1>7, <1>8

LEMMA BranchesCommute ==
  ASSUME NEW a \in Hashes, NEW b \in Hashes
  PROVE  combine_node_hashes(a, b) = combine_node_hashes(b, a)
<1>1. CASE a = b
  BY <1>1
<1>2. CASE a # b /\ Below(a, b)
  <2>1. ~Below(b, a)
    BY <1>2, BelowOneWay
  <2>. QED
    BY <1>2, <2>1 DEF combine_node_hashes
<1>3. CASE a # b /\ ~Below(a, b)
  <2>1. Below(b, a)
    BY <1>3, BelowIsTotal
  <2>. QED
    BY <1>3, <2>1 DEF combine_node_hashes
<1>. QED
  BY <1>1, <1>2, <1>3

-----------------------------------------------------------------------------
(* The root that a proof leads to. *)

\* The hashes on the way up from a script, along the first n hashes of a proof.
IsClimb(f, s, proof, n) ==
  f = [k \in 0..n |-> IF k = 0 THEN script_hash(s) ELSE combine_node_hashes(f[k - 1], proof[k])]

\* A way up can be gone on with.
LEMMA ClimbGoesOn ==
  ASSUME NEW s, NEW proof, NEW n \in Nat, NEW f, IsClimb(f, s, proof, n)
  PROVE  \E g : /\ IsClimb(g, s, proof, n + 1)
                /\ g[n + 1] = combine_node_hashes(f[n], proof[n + 1])
<1>. DEFINE g == [k \in 0..(n + 1) |->
                    IF k = n + 1 THEN combine_node_hashes(f[n], proof[n + 1]) ELSE f[k]]
<1>1. \A k \in 0..n : f[k] = IF k = 0 THEN script_hash(s)
                             ELSE combine_node_hashes(f[k - 1], proof[k])
  BY Zenon DEF IsClimb
<1>2. g[n + 1] = combine_node_hashes(f[n], proof[n + 1])
  OBVIOUS
<1>3. \A k \in 0..n : g[k] = f[k]
  OBVIOUS
<1>4. ASSUME NEW k \in 0..(n + 1)
      PROVE  g[k] = IF k = 0 THEN script_hash(s) ELSE combine_node_hashes(g[k - 1], proof[k])
  <2>. HIDE DEF g
  <2>1. CASE k = n + 1
    <3>1. k # 0 /\ k - 1 = n /\ n \in 0..n
      BY <2>1
    <3>. QED
      BY <1>2, <1>3, <2>1, <3>1
  <2>2. CASE k # n + 1
    <3>1. k \in 0..n
      BY <2>2
    <3>2. CASE k = 0
      BY <1>1, <1>3, <3>1, <3>2
    <3>3. CASE k # 0
      <4>1. k - 1 \in 0..n
        BY <3>1, <3>3
      <4>. QED
        BY <1>1, <1>3, <3>1, <3>3, <4>1
    <3>. QED
      BY <3>2, <3>3
  <2>. QED
    BY <2>1, <2>2
<1>5. IsClimb(g, s, proof, n + 1)
  <2>1. g = [k \in 0..(n + 1) |-> g[k]]
    OBVIOUS
  <2>. HIDE DEF g
  <2>. QED
    BY <1>4, <2>1 DEF IsClimb
<1>. QED
  BY <1>2, <1>5

\* There is a way up along any proof.
LEMMA ClimbExists ==
  ASSUME NEW s, NEW proof, NEW n \in Nat
  PROVE  \E f : IsClimb(f, s, proof, n)
<1>. DEFINE T == {k \in Nat : ~(\E f : IsClimb(f, s, proof, k))}
<1>. SUFFICES T = {}
  OBVIOUS
<1>. SUFFICES ASSUME T # {} PROVE FALSE
  OBVIOUS
<1>1. PICK k \in T : \A m \in T : k <= m
  <2>1. T \subseteq Nat
    OBVIOUS
  <2>. HIDE DEF T
  <2>. QED
    BY <2>1, LeastNumber
<1>2. k \in Nat /\ ~(\E f : IsClimb(f, s, proof, k))
  OBVIOUS
<1>3. k # 0
  <2>. SUFFICES ASSUME k = 0 PROVE FALSE
    OBVIOUS
  <2>. DEFINE f == [j \in 0..0 |-> script_hash(s)]
  <2>1. \A j \in 0..0 : j = 0
    OBVIOUS
  <2>2. f = [j \in 0..0 |-> IF j = 0 THEN script_hash(s)
                            ELSE combine_node_hashes(f[j - 1], proof[j])]
    BY <2>1
  <2>. HIDE DEF f
  <2>3. IsClimb(f, s, proof, 0)
    BY <2>2 DEF IsClimb
  <2>. QED
    BY <1>2, <2>3
<1>4. k - 1 \in Nat /\ (k - 1) + 1 = k /\ ~(k <= k - 1)
  BY <1>2, <1>3
<1>5. k - 1 \notin T
  BY <1>1, <1>4
<1>6. PICK f : IsClimb(f, s, proof, k - 1)
  BY <1>4, <1>5
<1>7. \E g : IsClimb(g, s, proof, (k - 1) + 1)
  BY <1>4, <1>6, ClimbGoesOn
<1>. QED
  BY <1>2, <1>4, <1>7

\* There is one way up only.
LEMMA ClimbIsUnique ==
  ASSUME NEW s, NEW p, NEW q, NEW n \in Nat, \A k \in 1..n : p[k] = q[k],
         NEW f, IsClimb(f, s, p, n), NEW g, IsClimb(g, s, q, n)
  PROVE  \A k \in 0..n : f[k] = g[k]
<1>1. \A k \in 0..n : f[k] = IF k = 0 THEN script_hash(s) ELSE combine_node_hashes(f[k - 1], p[k])
  BY Zenon DEF IsClimb
<1>2. \A k \in 0..n : g[k] = IF k = 0 THEN script_hash(s) ELSE combine_node_hashes(g[k - 1], q[k])
  BY Zenon DEF IsClimb
<1>. DEFINE T == {k \in 0..n : f[k] # g[k]}
<1>. SUFFICES ASSUME T # {} PROVE FALSE
  OBVIOUS
<1>3. PICK k \in T : \A m \in T : k <= m
  <2>1. T \subseteq Nat
    OBVIOUS
  <2>. HIDE DEF T
  <2>. QED
    BY <2>1, LeastNumber
<1>4. k \in 0..n /\ f[k] # g[k]
  OBVIOUS
<1>5. CASE k = 0
  BY <1>1, <1>2, <1>4, <1>5
<1>6. CASE k # 0
  <2>1. k - 1 \in 0..n /\ k \in 1..n /\ ~(k <= k - 1)
    BY <1>4, <1>6
  <2>2. f[k - 1] = g[k - 1]
    BY <1>3, <2>1
  <2>. QED
    BY <1>1, <1>2, <1>4, <1>6, <2>1, <2>2
<1>. QED
  BY <1>5, <1>6

\* The recursion of ProvenRoot, which verify_taproot_commitment is a loop for.
LEMMA ClimbIsClimb ==
  ASSUME NEW s, NEW proof, Len(proof) \in Nat
  PROVE  IsClimb(Climb(s, proof), s, proof, Len(proof))
<1>1. \E f : f = [k \in 0..Len(proof) |->
                    IF k = 0 THEN script_hash(s) ELSE combine_node_hashes(f[k - 1], proof[k])]
  <2>1. PICK f : IsClimb(f, s, proof, Len(proof))
    BY ClimbExists
  <2>. QED
    BY <2>1, Zenon DEF IsClimb
<1>. QED
  BY <1>1, Zenon DEF Climb, IsClimb

\* The proof of a leaf that is a tree of its own.
LEMMA ProvenLeaf ==
  ASSUME NEW s
  PROVE  ProvenRoot(s, <<>>) = script_hash(s)
<1>1. Len(<<>>) = 0 /\ Len(<<>>) \in Nat
  OBVIOUS
<1>2. IsClimb(Climb(s, <<>>), s, <<>>, 0)
  BY <1>1, ClimbIsClimb
<1>3. Climb(s, <<>>)[0] = script_hash(s)
  <2>1. 0 \in 0..0
    OBVIOUS
  <2>. HIDE DEF Climb
  <2>. QED
    BY <1>2, <2>1, Zenon DEF IsClimb
<1>. QED
  BY <1>1, <1>3 DEF ProvenRoot

\* The proof of a leaf whose tree got a sibling.
LEMMA ProvenFurther ==
  ASSUME NEW s, NEW proof \in Seq(Hashes), NEW h \in Hashes
  PROVE  ProvenRoot(s, Append(proof, h)) = combine_node_hashes(ProvenRoot(s, proof), h)
<1>. DEFINE n == Len(proof)
            longer == Append(proof, h)
<1>1. /\ n \in Nat /\ Len(longer) = n + 1 /\ longer[n + 1] = h
      /\ \A k \in 1..n : longer[k] = proof[k]
  BY LenProperties, AppendProperties
<1>. HIDE DEF longer, n
<1>2. IsClimb(Climb(s, proof), s, proof, n)
  BY <1>1, ClimbIsClimb DEF n
<1>3. IsClimb(Climb(s, longer), s, longer, n + 1)
  BY <1>1, ClimbIsClimb
<1>4. PICK f : IsClimb(f, s, longer, n)
  BY <1>1, ClimbExists
<1>5. PICK g : /\ IsClimb(g, s, longer, n + 1)
               /\ g[n + 1] = combine_node_hashes(f[n], longer[n + 1])
  BY <1>1, <1>4, ClimbGoesOn
<1>6. n \in 0..n /\ n + 1 \in 0..(n + 1) /\ n + 1 \in Nat
  BY <1>1
<1>7. f[n] = Climb(s, proof)[n]
  <2>1. \A k \in 0..n : f[k] = Climb(s, proof)[k]
    <3>1. n \in Nat /\ \A k \in 1..n : longer[k] = proof[k]
      BY <1>1
    <3>2. IsClimb(f, s, longer, n)
      BY <1>4
    <3>. HIDE DEF IsClimb
    <3>. QED
      BY ONLY <3>1, <3>2, <1>2, ClimbIsUnique
  <2>. QED
    BY ONLY <1>6, <2>1
<1>8. Climb(s, longer)[n + 1] = g[n + 1]
  <2>1. \A k \in 0..(n + 1) : Climb(s, longer)[k] = g[k]
    <3>1. \A k \in 1..(n + 1) : longer[k] = longer[k]
      OBVIOUS
    <3>. QED
      BY ONLY <1>3, <1>5, <1>6, <3>1, ClimbIsUnique
  <2>. QED
    BY ONLY <1>6, <2>1
<1>. QED
  BY <1>1, <1>5, <1>7, <1>8 DEF ProvenRoot, longer, n

-----------------------------------------------------------------------------
(* What a node knows: the leaves below it, each with its proof. *)

LeavesOf(n) == Range(n.leaves)
ScriptsOf(n) == {leaf.script : leaf \in LeavesOf(n)}

\* Every proof leads to the hash of the node.
Proven(n) == \A leaf \in LeavesOf(n) : ProvenRoot(leaf.script, leaf.merkle_branch) = n.hash

\* A leaf of script s is at depth d of the tree, if the node is at a level of it.
HeldAt(n, level, s, d) ==
  \E leaf \in LeavesOf(n) : leaf.script = s /\ level + Len(leaf.merkle_branch) = d

\* The leaves of a when b becomes the sibling of a.
Grown(a, b) ==
  {[script |-> leaf.script, merkle_branch |-> Append(leaf.merkle_branch, b.hash)] :
     leaf \in LeavesOf(a)}

LEMMA LeafTypes ==
  ASSUME NEW n \in NodeInfos, NEW leaf \in LeavesOf(n)
  PROVE  /\ leaf.script \in Scripts /\ leaf.merkle_branch \in Seq(Hashes)
         /\ Len(leaf.merkle_branch) \in Nat
<1>1. n.leaves \in Seq(Leaves)
  BY DEF NodeInfos
<1>2. leaf \in Leaves
  <2>1. PICK i \in DOMAIN n.leaves : leaf = n.leaves[i]
    BY DEF LeavesOf, Range
  <2>. QED
    BY <1>1, <2>1, ElementOfSeq, LenProperties
<1>3. leaf.script \in Scripts /\ leaf.merkle_branch \in Seq(Hashes)
  BY <1>2 DEF Leaves
<1>. QED
  BY <1>3, LenProperties

LEMMA ProvingIsGrown ==
  ASSUME NEW a \in NodeInfos, NEW b \in NodeInfos
  PROVE  Range(Proving(a, b)) = Grown(a, b)
<1>. DEFINE more(leaf) == [script |-> leaf.script,
                           merkle_branch |-> Append(leaf.merkle_branch, b.hash)]
<1>1. Proving(a, b) = [i \in DOMAIN a.leaves |-> more(a.leaves[i])]
  BY DEF Proving
<1>2. Range(Proving(a, b)) = {more(a.leaves[i]) : i \in DOMAIN a.leaves}
  <2>. HIDE DEF more
  <2>1. DOMAIN Proving(a, b) = DOMAIN a.leaves
    BY <1>1
  <2>2. \A i \in DOMAIN a.leaves : Proving(a, b)[i] = more(a.leaves[i])
    BY <1>1
  <2>. QED
    BY <2>1, <2>2 DEF Range
<1>3. Grown(a, b) = {more(leaf) : leaf \in LeavesOf(a)}
  BY DEF Grown
<1>4. LeavesOf(a) = {a.leaves[i] : i \in DOMAIN a.leaves}
  BY DEF LeavesOf, Range
<1>. HIDE DEF more
<1>. QED
  BY <1>2, <1>3, <1>4

LEMMA RangeOfBoth ==
  ASSUME NEW S, NEW s \in Seq(S), NEW t \in Seq(S)
  PROVE  Range(s \o t) = Range(s) \cup Range(t)
<1>1. /\ s \o t \in Seq(S) /\ Len(s \o t) = Len(s) + Len(t)
      /\ \A i \in 1..(Len(s) + Len(t)) : (s \o t)[i] = IF i <= Len(s) THEN s[i] ELSE t[i - Len(s)]
  BY ConcatProperties
<1>2. /\ Len(s) \in Nat /\ Len(t) \in Nat /\ DOMAIN s = 1..Len(s) /\ DOMAIN t = 1..Len(t)
      /\ DOMAIN (s \o t) = 1..(Len(s) + Len(t))
  BY <1>1, LenProperties
<1>3. Range(s \o t) \subseteq Range(s) \cup Range(t)
  <2>. SUFFICES ASSUME NEW i \in DOMAIN (s \o t) PROVE (s \o t)[i] \in Range(s) \cup Range(t)
    BY DEF Range
  <2>1. (\E k \in 1..Len(s) : (s \o t)[i] = s[k]) \/ (\E k \in 1..Len(t) : (s \o t)[i] = t[k])
    BY ConcatElements
  <2>. QED
    BY <1>2, <2>1 DEF Range
<1>4. Range(s) \subseteq Range(s \o t)
  <2>. SUFFICES ASSUME NEW k \in 1..Len(s) PROVE s[k] \in Range(s \o t)
    BY <1>2 DEF Range
  <2>1. k \in DOMAIN (s \o t) /\ (s \o t)[k] = s[k]
    BY <1>1, <1>2
  <2>. QED
    BY <2>1 DEF Range
<1>5. Range(t) \subseteq Range(s \o t)
  <2>. SUFFICES ASSUME NEW k \in 1..Len(t) PROVE t[k] \in Range(s \o t)
    BY <1>2 DEF Range
  <2>1. /\ Len(s) + k \in 1..(Len(s) + Len(t)) /\ ~(Len(s) + k <= Len(s))
        /\ (Len(s) + k) - Len(s) = k
    BY <1>2
  <2>2. (s \o t)[Len(s) + k] = t[k]
    BY <1>1, <2>1
  <2>. QED
    BY <1>2, <2>1, <2>2 DEF Range
<1>. QED
  BY <1>3, <1>4, <1>5

\* A node of two has the leaves of both, each with the other's hash added to its proof.
LEMMA CombinedLeaves ==
  ASSUME NEW a \in NodeInfos, NEW b \in NodeInfos
  PROVE  LeavesOf(combine(a, b)) = Grown(a, b) \cup Grown(b, a)
<1>1. Proving(a, b) \in Seq(Leaves) /\ Proving(b, a) \in Seq(Leaves)
  BY ProvingProperties
<1>2. /\ Range(Proving(a, b) \o Proving(b, a)) = Range(Proving(a, b)) \cup Range(Proving(b, a))
      /\ Range(Proving(b, a) \o Proving(a, b)) = Range(Proving(b, a)) \cup Range(Proving(a, b))
  BY <1>1, RangeOfBoth
<1>3. \/ combine(a, b).leaves = Proving(a, b) \o Proving(b, a)
      \/ combine(a, b).leaves = Proving(b, a) \o Proving(a, b)
  BY DEF combine
<1>4. Range(Proving(a, b)) = Grown(a, b) /\ Range(Proving(b, a)) = Grown(b, a)
  BY ProvingIsGrown
<1>. QED
  BY <1>2, <1>3, <1>4 DEF LeavesOf

\* In a grown proof the root of the old one is hashed with the sibling.
LEMMA GrownProven ==
  ASSUME NEW a \in NodeInfos, NEW b \in NodeInfos, Proven(a), NEW leaf \in Grown(a, b)
  PROVE  ProvenRoot(leaf.script, leaf.merkle_branch) = combine_node_hashes(a.hash, b.hash)
<1>1. PICK old \in LeavesOf(a) :
        leaf = [script |-> old.script, merkle_branch |-> Append(old.merkle_branch, b.hash)]
  BY DEF Grown
<1>2. old.merkle_branch \in Seq(Hashes) /\ b.hash \in Hashes
  BY LeafTypes DEF NodeInfos
<1>3. ProvenRoot(old.script, old.merkle_branch) = a.hash
  BY DEF Proven
<1>4. ProvenRoot(old.script, Append(old.merkle_branch, b.hash))
        = combine_node_hashes(ProvenRoot(old.script, old.merkle_branch), b.hash)
  BY <1>2, ProvenFurther
<1>. QED
  BY <1>1, <1>3, <1>4

\* Two nodes whose proofs are right combine to one whose proofs are right.
LEMMA CombineProves ==
  ASSUME NEW a \in NodeInfos, NEW b \in NodeInfos, Proven(a), Proven(b)
  PROVE  Proven(combine(a, b))
<1>1. combine(a, b).hash = combine_node_hashes(a.hash, b.hash)
  BY DEF combine
<1>2. combine_node_hashes(b.hash, a.hash) = combine_node_hashes(a.hash, b.hash)
  BY BranchesCommute DEF NodeInfos
<1>3. ASSUME NEW leaf \in LeavesOf(combine(a, b))
      PROVE  ProvenRoot(leaf.script, leaf.merkle_branch) = combine(a, b).hash
  <2>1. leaf \in Grown(a, b) \/ leaf \in Grown(b, a)
    BY CombinedLeaves
  <2>. QED
    BY <1>1, <1>2, <2>1, GrownProven
<1>. QED
  BY <1>3 DEF Proven

\* It has the scripts of both.
LEMMA CombineScripts ==
  ASSUME NEW a \in NodeInfos, NEW b \in NodeInfos
  PROVE  ScriptsOf(combine(a, b)) = ScriptsOf(a) \cup ScriptsOf(b)
<1>1. /\ {leaf.script : leaf \in Grown(a, b)} = ScriptsOf(a)
      /\ {leaf.script : leaf \in Grown(b, a)} = ScriptsOf(b)
  <2>1. ASSUME NEW x, NEW y PROVE {leaf.script : leaf \in Grown(x, y)} = ScriptsOf(x)
    <3>. DEFINE more(leaf) == [script |-> leaf.script,
                               merkle_branch |-> Append(leaf.merkle_branch, y.hash)]
    <3>1. \A leaf : more(leaf).script = leaf.script
      OBVIOUS
    <3>2. Grown(x, y) = {more(leaf) : leaf \in LeavesOf(x)}
      BY DEF Grown
    <3>. HIDE DEF more
    <3>. QED
      BY <3>1, <3>2 DEF ScriptsOf
  <2>. QED
    BY <2>1
<1>2. ScriptsOf(combine(a, b))
        = {leaf.script : leaf \in Grown(a, b)} \cup {leaf.script : leaf \in Grown(b, a)}
  BY CombinedLeaves DEF ScriptsOf
<1>. QED
  BY <1>1, <1>2

\* Its leaves are where they were in the tree, if it is a level higher than the two.
LEMMA CombineHolds ==
  ASSUME NEW a \in NodeInfos, NEW b \in NodeInfos, NEW level \in Nat \ {0}, NEW s, NEW d,
         HeldAt(a, level, s, d) \/ HeldAt(b, level, s, d)
  PROVE  HeldAt(combine(a, b), level - 1, s, d)
<1>1. ASSUME NEW x \in NodeInfos, NEW y \in NodeInfos, HeldAt(x, level, s, d)
      PROVE  \E leaf \in Grown(x, y) : leaf.script = s /\ (level - 1) + Len(leaf.merkle_branch) = d
  <2>1. PICK old \in LeavesOf(x) : old.script = s /\ level + Len(old.merkle_branch) = d
    BY <1>1 DEF HeldAt
  <2>. DEFINE leaf == [script |-> old.script,
                       merkle_branch |-> Append(old.merkle_branch, y.hash)]
  <2>2. leaf \in Grown(x, y) /\ leaf.script = s
    BY <2>1 DEF Grown
  <2>3. Len(old.merkle_branch) \in Nat /\ old.merkle_branch \in Seq(Hashes) /\ y.hash \in Hashes
    BY LeafTypes DEF NodeInfos
  <2>4. Len(leaf.merkle_branch) = Len(old.merkle_branch) + 1
    BY <2>3, AppendProperties
  <2>. HIDE DEF leaf
  <2>5. (level - 1) + Len(leaf.merkle_branch) = level + Len(old.merkle_branch)
    BY <2>3, <2>4
  <2>. QED
    BY <2>1, <2>2, <2>5
<1>2. \E leaf \in Grown(a, b) \cup Grown(b, a) :
        leaf.script = s /\ (level - 1) + Len(leaf.merkle_branch) = d
  BY <1>1
<1>. QED
  BY <1>2, CombinedLeaves DEF HeldAt

\* A new leaf is at depth 0 of itself.
LEMMA NewLeafHolds ==
  ASSUME NEW s
  PROVE  /\ LeavesOf(new_leaf(s)) = {[script |-> s, merkle_branch |-> <<>>]}
         /\ ScriptsOf(new_leaf(s)) = {s} /\ Proven(new_leaf(s))
         /\ \A d \in Nat : HeldAt(new_leaf(s), d, s, d)
<1>. DEFINE leaf == [script |-> s, merkle_branch |-> <<>>]
<1>1. LeavesOf(new_leaf(s)) = {leaf}
  <2>1. new_leaf(s).leaves = <<leaf>>
    BY DEF new_leaf
  <2>. HIDE DEF leaf
  <2>. QED
    BY <2>1 DEF LeavesOf, Range
<1>2. ScriptsOf(new_leaf(s)) = {s}
  BY <1>1 DEF ScriptsOf
<1>3. Proven(new_leaf(s))
  BY <1>1, ProvenLeaf DEF Proven, new_leaf
<1>4. \A d \in Nat : HeldAt(new_leaf(s), d, s, d)
  BY <1>1 DEF HeldAt
<1>. QED
  BY <1>1, <1>2, <1>3, <1>4

\* Of a hidden node nothing is known.
LEMMA HiddenHolds ==
  ASSUME NEW h
  PROVE  LeavesOf(new_hidden_node(h)) = {} /\ ScriptsOf(new_hidden_node(h)) = {}
         /\ Proven(new_hidden_node(h))
<1>1. LeavesOf(new_hidden_node(h)) = {}
  BY DEF LeavesOf, Range, new_hidden_node
<1>. QED
  BY <1>1 DEF ScriptsOf, Proven

-----------------------------------------------------------------------------
(* The invariant behind the spend paths. *)

\* The scripts that were added as leaves.
AddedScripts == {added[i].script : i \in {j \in DOMAIN added : ~added[j].hidden}}

\* What has been added so far.
AddedItems == [script : Scripts, depth : 0..(MaxDepth + 1), hidden : BOOLEAN]

\* Every node there is proves its leaves.
AllProven ==
  /\ Proven(node)
  /\ \A i \in 1..Len(branch) : branch[i] # None => Proven(branch[i][1])
  /\ \A i \in 1..Len(heap) : Proven(heap[i].node)

\* Leaves come from insertions alone, short of a Huffman tree or a serialized one.
OnlyAdded ==
  weights = <<>> /\ original = <<>> =>
    /\ ScriptsOf(node) \subseteq AddedScripts
    /\ \A i \in 1..Len(branch) : branch[i] # None => ScriptsOf(branch[i][1]) \subseteq AddedScripts

\* A leaf that was added is under way, on the branch or in the finished tree, at its depth.
Kept(item) ==
  \/ phase \in {"entry", "loop"} /\ HeldAt(node, depth, item.script, item.depth)
  \/ phase \in {"spend", "node", "tree"} /\ HeldAt(node, 0, item.script, item.depth)
  \/ \E i \in 1..Len(branch) :
       branch[i] # None /\ HeldAt(branch[i][1], i - 1, item.script, item.depth)

AllAdded ==
  weights = <<>> /\ original = <<>> /\ phase # "gone" =>
    \A k \in DOMAIN added : ~added[k].hidden => Kept(added[k])

\* The heap holds a leaf for each weight, and so does the one node that comes out of it.
\* What is added to such a tree never makes a whole one.
HeapInv ==
  phase = "huffman" =>
    /\ branch = <<>> /\ added = <<>> /\ original = <<>> /\ weights # <<>>
    /\ \A s \in DOMAIN weights : \E i \in 1..Len(heap) : s \in ScriptsOf(heap[i].node)
    /\ \A i \in 1..Len(heap) : ScriptsOf(heap[i].node) \subseteq DOMAIN weights

FullInv ==
  weights # <<>> /\ original = <<>> /\ phase \in {"ready", "entry", "loop"} =>
    /\ branch # <<>> /\ branch[1] # None
    /\ added = <<>> => phase = "ready" /\ ScriptsOf(branch[1][1]) = DOMAIN weights
    /\ phase = "ready" /\ added # <<>> => Len(branch) > 1

SpendInv ==
  phase = "spend" =>
    /\ branch = <<>> /\ original = <<>> /\ script_map = MapOf(node)
    /\ weights # <<>> => ScriptsOf(node) = DOMAIN weights

PathInv ==
  /\ IInv /\ added \in Seq(AddedItems)
  /\ AllProven /\ OnlyAdded /\ AllAdded /\ HeapInv /\ FullInv /\ SpendInv

-----------------------------------------------------------------------------
(* Taking two elements out of a sequence. *)

LEMMA RemoveAtValues ==
  ASSUME NEW S, NEW s \in Seq(S), NEW i \in 1..Len(s)
  PROVE  \A k \in 1..(Len(s) - 1) : RemoveAt(s, i)[k] = IF k < i THEN s[k] ELSE s[k + 1]
<1>. DEFINE l == SubSeq(s, 1, i - 1)
            r == SubSeq(s, i + 1, Len(s))
<1>1. Len(s) \in Nat /\ \A k \in 1..Len(s) : s[k] \in S
  BY LenProperties, ElementOfSeq
<1>2. l \in Seq(S) /\ Len(l) = i - 1 /\ \A k \in 1..(i - 1) : l[k] = s[k]
  <2>1. 1 \in Int /\ i - 1 \in Int /\ \A k \in 1..(i - 1) : s[k] \in S
    BY <1>1
  <2>2. /\ l \in Seq(S) /\ Len(l) = IF 1 <= i - 1 THEN (i - 1) - 1 + 1 ELSE 0
        /\ \A k \in 1..((i - 1) - 1 + 1) : l[k] = s[1 + k - 1]
    BY <2>1, SubSeqProperties
  <2>. HIDE DEF l
  <2>3. Len(l) = i - 1
    BY <1>1, <2>2
  <2>4. ASSUME NEW k \in 1..(i - 1) PROVE l[k] = s[k]
    <3>1. k \in 1..((i - 1) - 1 + 1) /\ 1 + k - 1 = k
      BY <1>1
    <3>. QED
      BY <2>2, <3>1
  <2>. QED
    BY <2>2, <2>3, <2>4
<1>3. r \in Seq(S) /\ Len(r) = Len(s) - i /\ \A k \in 1..(Len(s) - i) : r[k] = s[i + k]
  <2>1. i + 1 \in Int /\ Len(s) \in Int /\ \A k \in (i + 1)..Len(s) : s[k] \in S
    BY <1>1
  <2>2. /\ r \in Seq(S) /\ Len(r) = IF i + 1 <= Len(s) THEN Len(s) - (i + 1) + 1 ELSE 0
        /\ \A k \in 1..(Len(s) - (i + 1) + 1) : r[k] = s[(i + 1) + k - 1]
    BY <2>1, SubSeqProperties
  <2>. HIDE DEF r
  <2>3. Len(r) = Len(s) - i
    BY <1>1, <2>2
  <2>4. ASSUME NEW k \in 1..(Len(s) - i) PROVE r[k] = s[i + k]
    <3>1. k \in 1..(Len(s) - (i + 1) + 1) /\ (i + 1) + k - 1 = i + k
      BY <1>1
    <3>. QED
      BY <2>2, <3>1
  <2>. QED
    BY <2>2, <2>3, <2>4
<1>4. /\ RemoveAt(s, i) = l \o r
      /\ \A k \in 1..(Len(l) + Len(r)) : (l \o r)[k] = IF k <= Len(l) THEN l[k] ELSE r[k - Len(l)]
  <2>1. RemoveAt(s, i) = l \o r
    BY DEF RemoveAt
  <2>. HIDE DEF l, r
  <2>. QED
    BY <1>2, <1>3, <2>1, ConcatProperties
<1>. HIDE DEF l, r
<1>5. ASSUME NEW k \in 1..(Len(s) - 1)
      PROVE  (l \o r)[k] = IF k < i THEN s[k] ELSE s[k + 1]
  <2>1. k \in 1..(Len(l) + Len(r))
    BY <1>1, <1>2, <1>3
  <2>2. CASE k < i
    <3>1. k <= Len(l) /\ k \in 1..(i - 1)
      BY <1>1, <1>2, <2>2
    <3>. QED
      BY <1>2, <1>4, <2>1, <2>2, <3>1
  <2>3. CASE ~(k < i)
    <3>1. ~(k <= Len(l)) /\ k - Len(l) \in 1..(Len(s) - i) /\ i + (k - Len(l)) = k + 1
      BY <1>1, <1>2, <2>3
    <3>. QED
      BY <1>3, <1>4, <2>1, <2>3, <3>1
  <2>. QED
    BY <2>2, <2>3
<1>. QED
  BY <1>4, <1>5

LEMMA RemoveTwo ==
  ASSUME NEW S, NEW s \in Seq(S), NEW hi \in 1..Len(s), NEW lo \in 1..Len(s), lo < hi
  PROVE  LET r == RemoveAt(RemoveAt(s, hi), lo)
         IN  /\ r \in Seq(S)
             /\ \A k \in 1..Len(r) : \E j \in 1..Len(s) : r[k] = s[j]
             /\ \A j \in 1..Len(s) : j # lo /\ j # hi => \E k \in 1..Len(r) : r[k] = s[j]
<1>. DEFINE q == RemoveAt(s, hi)
            r == RemoveAt(q, lo)
<1>1. Len(s) \in Nat
  BY LenProperties
<1>2. /\ q \in Seq(S) /\ Len(q) = Len(s) - 1
      /\ \A k \in 1..(Len(s) - 1) : q[k] = IF k < hi THEN s[k] ELSE s[k + 1]
  BY RemoveAtType, RemoveAtValues
<1>. HIDE DEF q
<1>3. lo \in 1..Len(q)
  BY <1>1, <1>2
<1>4. /\ r \in Seq(S) /\ Len(r) = Len(q) - 1
      /\ \A k \in 1..(Len(q) - 1) : r[k] = IF k < lo THEN q[k] ELSE q[k + 1]
  BY <1>2, <1>3, RemoveAtType, RemoveAtValues
<1>. HIDE DEF r
<1>5. ASSUME NEW k \in 1..Len(r) PROVE \E j \in 1..Len(s) : r[k] = s[j]
  <2>1. PICK m \in 1..Len(q) : r[k] = q[m]
    <3>1. k \in 1..(Len(q) - 1) /\ k \in 1..Len(q) /\ k + 1 \in 1..Len(q)
      BY <1>1, <1>2, <1>4
    <3>. QED
      BY <1>4, <3>1
  <2>2. m \in 1..(Len(s) - 1) /\ m \in 1..Len(s) /\ m + 1 \in 1..Len(s)
    BY <1>1, <1>2
  <2>. QED
    BY <1>2, <2>1, <2>2
<1>6. ASSUME NEW j \in 1..Len(s), j # lo, j # hi PROVE \E k \in 1..Len(r) : r[k] = s[j]
  <2>1. PICK m \in 1..Len(q) : q[m] = s[j] /\ m # lo
    <3>1. CASE j < hi
      <4>1. j \in 1..(Len(s) - 1) /\ j \in 1..Len(q)
        BY <1>1, <1>2, <3>1
      <4>. QED
        BY <1>2, <1>6, <3>1, <4>1
    <3>2. CASE ~(j < hi)
      <4>1. j - 1 \in 1..(Len(s) - 1) /\ ~(j - 1 < hi) /\ (j - 1) + 1 = j /\ j - 1 # lo
        BY <1>1, <1>6, <3>2
      <4>2. j - 1 \in 1..Len(q)
        BY <1>2, <4>1
      <4>. QED
        BY <1>2, <4>1, <4>2
    <3>. QED
      BY <3>1, <3>2
  <2>2. CASE m < lo
    <3>1. m \in 1..(Len(q) - 1) /\ m \in 1..Len(r)
      BY <1>1, <1>2, <1>3, <1>4, <2>2
    <3>. QED
      BY <1>4, <2>1, <2>2, <3>1
  <2>3. CASE ~(m < lo)
    <3>1. m - 1 \in 1..(Len(q) - 1) /\ ~(m - 1 < lo) /\ (m - 1) + 1 = m
      BY <1>1, <1>2, <1>3, <2>1, <2>3
    <3>2. m - 1 \in 1..Len(r)
      BY <1>4, <3>1
    <3>. QED
      BY <1>4, <2>1, <3>1, <3>2
  <2>. QED
    BY <2>2, <2>3
<1>. QED
  BY <1>4, <1>5, <1>6 DEF r, q

-----------------------------------------------------------------------------
(* What the steps do to the nodes. *)

\* A turn of the loop of insert.
LEMMA UpEffect ==
  ASSUME IInv, CombineUp
  PROVE  /\ phase = "loop" /\ phase' = "loop" /\ depth \in Nat \ {0} /\ depth' = depth - 1
         /\ Len(branch) = depth + 1 /\ branch[depth + 1] # None
         /\ node \in NodeInfos /\ branch[depth + 1][1] \in NodeInfos
         /\ node' = combine(node, branch[depth + 1][1])
         /\ Len(branch') = depth /\ \A i \in 1..depth : branch'[i] = branch[i]
         /\ UNCHANGED <<heap, added, weights, script_map, original>>
<1>1. /\ phase = "loop" /\ Sibling /\ depth > 0 /\ depth' = depth - 1 /\ phase' = "loop"
      /\ node' = combine(node, branch[Len(branch)][1])
      /\ branch' = SubSeq(branch, 1, Len(branch) - 1)
      /\ UNCHANGED <<heap, added, weights, script_map, original>>
  BY DEF CombineUp, Unmoved, serde, given
<1>2. depth \in Nat \ {0} /\ node \in NodeInfos
  BY <1>1, Limit DEF IInv, Typed
<1>3. Len(branch) = depth + 1 /\ branch[depth + 1] # None
  BY <1>1 DEF Sibling
<1>4. branch[depth + 1][1] \in NodeInfos
  BY <1>2, <1>3, NodeAt DEF IInv
<1>5. /\ branch \in Seq(Seq(NodeInfos)) /\ \A i \in 1..depth : branch[i] \in Seq(NodeInfos)
  BY <1>2, <1>3, ElementOfSeq DEF IInv, BranchOK
<1>6. (depth + 1) - 1 = depth /\ 1 \in Int /\ depth \in Int
  BY <1>2
<1>7. branch' = SubSeq(branch, 1, depth)
  BY <1>1, <1>3, <1>6
<1>8. /\ Len(branch') = IF 1 <= depth THEN depth - 1 + 1 ELSE 0
      /\ \A i \in 1..(depth - 1 + 1) : branch'[i] = branch[1 + i - 1]
  BY <1>5, <1>6, <1>7, SubSeqProperties
<1>9. Len(branch') = depth
  BY <1>2, <1>8
<1>10. ASSUME NEW i \in 1..depth PROVE branch'[i] = branch[i]
  <2>1. i \in 1..(depth - 1 + 1) /\ 1 + i - 1 = i
    BY <1>2
  <2>. QED
    BY <1>8, <2>1
<1>. QED
  BY <1>1, <1>2, <1>3, <1>4, <1>9, <1>10

\* The end of insert.
LEMMA PlaceEffect ==
  ASSUME IInv, Place
  PROVE  /\ phase = "loop" /\ phase' = "ready" /\ depth \in Nat /\ Len(branch) \in Nat
         /\ Len(branch) <= depth + 1 /\ (Len(branch) = depth + 1 => branch[depth + 1] = None)
         /\ Len(branch') = depth + 1
         /\ \A i \in 1..(depth + 1) :
              branch'[i] = IF i = depth + 1 THEN <<node>>
                           ELSE IF i <= Len(branch) THEN branch[i] ELSE None
         /\ UNCHANGED <<node, heap, added, weights, script_map, original>>
<1>1. /\ phase = "loop" /\ phase' = "ready" /\ ~Sibling
      /\ UNCHANGED <<node, heap, added, weights, script_map, original>>
      /\ branch' = [i \in 1..(IF Len(branch) > depth THEN Len(branch) ELSE depth + 1) |->
                      IF i = depth + 1 THEN Some(node)
                      ELSE IF i <= Len(branch) THEN branch[i] ELSE None]
  BY DEF Place, Unmoved, serde, given
<1>2. depth \in Nat /\ Len(branch) \in Nat /\ Len(branch) <= depth + 1
  BY <1>1, LenProperties, Limit DEF IInv, Typed, Underway, BranchOK
<1>3. Len(branch) = depth + 1 => branch[depth + 1] = None
  BY <1>1 DEF Sibling
<1>4. (IF Len(branch) > depth THEN Len(branch) ELSE depth + 1) = depth + 1
  BY <1>2
<1>5. branch' = [i \in 1..(depth + 1) |->
                   IF i = depth + 1 THEN <<node>>
                   ELSE IF i <= Len(branch) THEN branch[i] ELSE None]
  BY <1>1, <1>4 DEF Some
<1>6. Len(branch') = depth + 1
  <2>1. branch' \in Seq(Seq(NodeInfos))
    BY PlaceInv DEF IInv, BranchOK
  <2>2. DOMAIN branch' = 1..(depth + 1) /\ DOMAIN branch' = 1..Len(branch') /\ Len(branch') \in Nat
    BY <1>5, <2>1, LenProperties
  <2>. QED
    BY <1>2, <2>2
<1>. QED
  BY <1>1, <1>2, <1>3, <1>5, <1>6

\* A turn of the loop of with_huffman_tree, unless it fails: two nodes become one.
LEMMA MergeEffect ==
  ASSUME IInv, HuffmanMerge, phase' # "gone"
  PROVE  \E x, y \in 1..Len(heap) :
           /\ heap[x].node \in NodeInfos /\ heap[y].node \in NodeInfos
           /\ \A k \in 1..Len(heap') :
                \/ heap'[k].node = combine(heap[x].node, heap[y].node)
                \/ \E j \in 1..Len(heap) : heap'[k] = heap[j]
           /\ \E k \in 1..Len(heap') : heap'[k].node = combine(heap[x].node, heap[y].node)
           /\ \A j \in 1..Len(heap) :
                j # x /\ j # y => \E k \in 1..Len(heap') : heap'[k] = heap[j]
<1>1. heap \in Seq(HeapItems) /\ Len(heap) \in Nat /\ DOMAIN heap = 1..Len(heap)
  BY LenProperties DEF IInv, Typed
<1>. DEFINE hi(p) == IF p[1] > p[2] THEN p[1] ELSE p[2]
            lo(p) == IF p[1] > p[2] THEN p[2] ELSE p[1]
            rest(p) == RemoveAt(RemoveAt(heap, hi(p)), lo(p))
            both(p) == [weight |-> saturating_add(heap[p[1]].weight, heap[p[2]].weight),
                        node |-> combine(heap[p[1]].node, heap[p[2]].node)]
<1>2. PICK p \in Pops : heap' = Append(rest(p), both(p))
  BY DEF HuffmanMerge
<1>3. p[1] \in 1..Len(heap) /\ p[2] \in 1..Len(heap) /\ p[1] # p[2]
  BY <1>1 DEF Pops
<1>4. heap[p[1]].node \in NodeInfos /\ heap[p[2]].node \in NodeInfos
  BY <1>1, <1>3, ElementOfSeq DEF HeapItems
<1>5. hi(p) \in 1..Len(heap) /\ lo(p) \in 1..Len(heap) /\ lo(p) < hi(p)
  BY <1>1, <1>3
<1>6. {p[1], p[2]} = {lo(p), hi(p)}
  OBVIOUS
<1>7. both(p).node = combine(heap[p[1]].node, heap[p[2]].node)
  OBVIOUS
<1>. HIDE DEF hi, lo, both
<1>8. /\ rest(p) \in Seq(HeapItems)
      /\ \A k \in 1..Len(rest(p)) : \E j \in 1..Len(heap) : rest(p)[k] = heap[j]
      /\ \A j \in 1..Len(heap) :
           j # lo(p) /\ j # hi(p) => \E k \in 1..Len(rest(p)) : rest(p)[k] = heap[j]
  BY <1>1, <1>5, RemoveTwo
<1>. HIDE DEF rest
<1>9. /\ Len(rest(p)) \in Nat /\ Len(heap') = Len(rest(p)) + 1
      /\ heap'[Len(rest(p)) + 1] = both(p)
      /\ \A k \in 1..Len(rest(p)) : heap'[k] = rest(p)[k]
  <2>1. rest(p) \in Seq(HeapItems \cup {both(p)}) /\ both(p) \in HeapItems \cup {both(p)}
    BY <1>8
  <2>. QED
    BY <1>2, <2>1, LenProperties, AppendProperties
<1>10. ASSUME NEW k \in 1..Len(heap')
       PROVE  heap'[k] = both(p) \/ \E j \in 1..Len(heap) : heap'[k] = heap[j]
  <2>1. k = Len(rest(p)) + 1 \/ k \in 1..Len(rest(p))
    BY <1>9
  <2>. QED
    BY <1>8, <1>9, <2>1
<1>11. Len(rest(p)) + 1 \in 1..Len(heap')
  BY <1>9
<1>12. ASSUME NEW j \in 1..Len(heap), j # p[1], j # p[2]
       PROVE  \E k \in 1..Len(heap') : heap'[k] = heap[j]
  <2>1. j # lo(p) /\ j # hi(p)
    BY <1>6, <1>12
  <2>2. PICK k \in 1..Len(rest(p)) : rest(p)[k] = heap[j]
    BY <1>8, <2>1
  <2>3. k \in 1..Len(heap') /\ heap'[k] = heap[j]
    BY <1>9, <2>2
  <2>. QED
    BY <2>3
<1>13. /\ \A k \in 1..Len(heap') :
            \/ heap'[k].node = combine(heap[p[1]].node, heap[p[2]].node)
            \/ \E j \in 1..Len(heap) : heap'[k] = heap[j]
       /\ \E k \in 1..Len(heap') : heap'[k].node = combine(heap[p[1]].node, heap[p[2]].node)
  BY <1>7, <1>9, <1>10, <1>11
<1>14. \A j \in 1..Len(heap) :
         j # p[1] /\ j # p[2] => \E k \in 1..Len(heap') : heap'[k] = heap[j]
  BY <1>12
<1>. p[1] \in 1..Len(heap) /\ p[2] \in 1..Len(heap)
  BY <1>3
<1>. WITNESS p[1] \in 1..Len(heap), p[2] \in 1..Len(heap)
<1>. QED
  BY ONLY <1>4, <1>13, <1>14

\* The root leaves the builder.
LEMMA RootEffect ==
  ASSUME IInv, NEW to, TakeRoot(to)
  PROVE  /\ phase = "ready" /\ phase' = to /\ original = <<>>
         /\ Len(branch) = 1 /\ branch[1] # None /\ branch[1][1] \in NodeInfos
         /\ node' = branch[1][1] /\ branch' = <<>>
         /\ UNCHANGED <<depth, heap, added, weights, original>>
<1>1. /\ phase = "ready" /\ phase' = to /\ original = <<>> /\ Len(branch) = 1
      /\ node' = branch[1][1] /\ branch' = <<>>
      /\ UNCHANGED <<depth, heap, added, weights, original>>
  BY DEF TakeRoot, given, serde
<1>2. branch # <<>>
  BY <1>1, EmptySeq
<1>3. branch[1] # None
  BY <1>1, <1>2 DEF IInv, Tidy
<1>. QED
  BY <1>1, <1>3, RootFits

\* A call of insert.
LEMMA AddEffect ==
  ASSUME NEW d \in 0..(MaxDepth + 1), NEW s \in Inserted, add_leaf(d, s) \/ add_hidden_node(d, s)
  PROVE  /\ phase = "ready" /\ phase' = "entry" /\ depth' = d /\ original = <<>>
         /\ \E hidden \in BOOLEAN :
              /\ added' = Append(added, [script |-> s, depth |-> d, hidden |-> hidden])
              /\ node' = IF hidden THEN new_hidden_node(script_hash(s)) ELSE new_leaf(s)
         /\ UNCHANGED <<branch, heap, weights, script_map, original>>
<1>1. CASE add_leaf(d, s)
  BY <1>1 DEF add_leaf, Add, BeginInsert
<1>2. CASE add_hidden_node(d, s)
  BY <1>2 DEF add_hidden_node, Add, BeginInsert
<1>. QED
  BY <1>1, <1>2

\* The steps that leave every node where it is.
Still ==
  /\ UNCHANGED <<node, branch, heap, added, original>>
  /\ \/ UNCHANGED <<phase, depth, weights, script_map>>
     \/ phase = "entry" /\ phase' = "loop" /\ UNCHANGED <<depth, weights, script_map>>
     \/ phase' = "gone" /\ UNCHANGED weights
     \/ phase' = "gone" /\ weights' = <<>> /\ phase = "ready" /\ branch = <<>>
     \/ /\ phase = "ready" /\ phase' = "keyspend" /\ branch = <<>>
        /\ UNCHANGED <<depth, weights, script_map>>

\* Every step is one of these.
Steps ==
  \/ Still \/ CombineUp \/ Place \/ (HuffmanMerge /\ phase' # "gone") \/ HuffmanEnd
  \/ \E d \in 0..(MaxDepth + 1), s \in Inserted : add_leaf(d, s) \/ add_hidden_node(d, s)
  \/ \E ws \in WeightLists : HuffmanBegin(ws) /\ ws # <<>>
  \/ (TakeRoot("spend") /\ script_map' = MapOf(branch[1][1]))
  \/ TakeRoot("node") \/ TakeRoot("tree")
  \/ Serialize \/ DeserializeLeaf \/ DeserializeEnd

LEMMA EveryStep == [Next]_vars => Steps
<1>. SUFFICES ASSUME [Next]_vars PROVE Steps
  OBVIOUS
<1>1. CASE UNCHANGED vars \/ NotFinalized \/ Finished
  BY <1>1 DEF Steps, Still, vars, tree, given, serde, NotFinalized, Finished
<1>2. CASE InsertChecks
  BY <1>2 DEF InsertChecks, Steps, Still, tree, Unmoved, given, serde
<1>3. CASE CombineFails
  BY <1>3 DEF CombineFails, Steps, Still, tree, Unmoved, given, serde
<1>4. CASE HuffmanMerge /\ phase' = "gone"
  <2>1. phase = "huffman" /\ UNCHANGED <<node, branch, added, original, weights>>
    BY <1>4 DEF HuffmanMerge, tree, given, serde
  <2>2. heap' = heap
    BY <1>4 DEF HuffmanMerge
  <2>. QED
    BY <1>4, <2>1, <2>2 DEF Steps, Still
<1>5. CASE \E ws \in WeightLists : HuffmanBegin(ws)
  <2>1. PICK ws \in WeightLists : HuffmanBegin(ws)
    BY <1>5
  <2>2. CASE ws = <<>>
    BY <2>1, <2>2 DEF HuffmanBegin, Steps, Still, tree, serde
  <2>. QED
    BY <2>1, <2>2 DEF Steps
<1>6. CASE Finalize
  <2>1. CASE /\ phase = "ready" /\ branch = <<>> /\ original = <<>>
             /\ phase' = "keyspend"
             /\ UNCHANGED <<tree, asked, heap, given, script_map, serde>>
    BY <2>1 DEF Steps, Still, tree, given, serde
  <2>. QED
    BY <1>6, <2>1 DEF Finalize, Steps
<1>7. CASE TryIntoNodeInfo \/ TryIntoTapTree
  BY <1>7 DEF TryIntoNodeInfo, TryIntoTapTree, Steps
<1>8. CASE \/ CombineUp \/ Place \/ (HuffmanMerge /\ phase' # "gone") \/ HuffmanEnd
           \/ \E d \in 0..(MaxDepth + 1), s \in Inserted : add_leaf(d, s) \/ add_hidden_node(d, s)
           \/ Serialize \/ DeserializeLeaf \/ DeserializeEnd
  BY <1>8 DEF Steps
<1>. QED
  BY <1>1, <1>2, <1>3, <1>4, <1>5, <1>6, <1>7, <1>8 DEF Next

-----------------------------------------------------------------------------
(* The steps keep the invariant. *)

\* A branch of one level, between calls, holds a node.
LEMMA RootIsThere ==
  ASSUME IInv, phase = "ready", Len(branch) = 1
  PROVE  branch[1] # None
<1>1. branch # <<>>
  BY EmptySeq
<1>. QED
  BY <1>1 DEF IInv, Tidy

LEMMA ProvenInit == Init => AllProven
<1>. SUFFICES ASSUME Init PROVE AllProven
  OBVIOUS
<1>1. Proven(node)
  BY HiddenHolds DEF Init
<1>2. Len(branch) = 0 /\ Len(heap) = 0
  BY EmptySeq DEF Init
<1>. QED
  BY <1>1, <1>2 DEF AllProven

\* Every step leaves or makes nodes whose proofs are right.
LEMMA ProvenStep ==
  ASSUME IInv, IInv', AllProven, Steps
  PROVE  AllProven'
<1>1. ASSUME UNCHANGED <<branch, heap>>, Proven(node') PROVE AllProven'
  BY <1>1 DEF AllProven
<1>2. CASE Still
  BY <1>1, <1>2 DEF Still, AllProven
<1>3. CASE CombineUp
  <2>1. /\ node \in NodeInfos /\ branch[depth + 1][1] \in NodeInfos /\ Len(branch) = depth + 1
        /\ branch[depth + 1] # None /\ depth \in Nat \ {0} /\ Len(branch') = depth
        /\ node' = combine(node, branch[depth + 1][1])
        /\ \A i \in 1..depth : branch'[i] = branch[i]
        /\ heap' = heap
    BY <1>3, UpEffect
  <2>2. Proven(node) /\ Proven(branch[depth + 1][1])
    BY <2>1 DEF AllProven
  <2>3. Proven(node')
    BY <2>1, <2>2, CombineProves
  <2>4. \A i \in 1..Len(branch') : branch'[i] # None => Proven(branch'[i][1])
    <3>1. \A i \in 1..depth : i \in 1..Len(branch)
      BY <2>1
    <3>. QED
      BY <2>1, <3>1 DEF AllProven
  <2>. QED
    BY <2>1, <2>3, <2>4 DEF AllProven
<1>4. CASE Place
  <2>1. /\ depth \in Nat /\ Len(branch) \in Nat /\ Len(branch') = depth + 1
        /\ \A i \in 1..(depth + 1) :
             branch'[i] = IF i = depth + 1 THEN <<node>>
                          ELSE IF i <= Len(branch) THEN branch[i] ELSE None
        /\ node' = node /\ heap' = heap
    BY <1>4, PlaceEffect
  <2>2. ASSUME NEW i \in 1..(depth + 1), branch'[i] # None PROVE Proven(branch'[i][1])
    <3>1. CASE i = depth + 1
      <4>1. branch'[i][1] = node
        BY <2>1, <3>1
      <4>. QED
        BY <4>1 DEF AllProven
    <3>2. CASE i # depth + 1
      <4>1. i \in 1..Len(branch) /\ branch'[i] = branch[i]
        BY <2>1, <2>2, <3>2
      <4>. QED
        BY <2>2, <4>1 DEF AllProven
    <3>. QED
      BY <3>1, <3>2
  <2>. QED
    BY <2>1, <2>2 DEF AllProven
<1>5. CASE HuffmanMerge /\ phase' # "gone"
  <2>1. UNCHANGED <<node, branch>>
    BY <1>5 DEF HuffmanMerge, tree
  <2>2. PICK x, y \in 1..Len(heap) :
          /\ heap[x].node \in NodeInfos /\ heap[y].node \in NodeInfos
          /\ \A k \in 1..Len(heap') :
               \/ heap'[k].node = combine(heap[x].node, heap[y].node)
               \/ \E j \in 1..Len(heap) : heap'[k] = heap[j]
    BY <1>5, MergeEffect
  <2>3. Proven(combine(heap[x].node, heap[y].node))
    BY <2>2, CombineProves DEF AllProven
  <2>4. \A k \in 1..Len(heap') : Proven(heap'[k].node)
    BY <2>2, <2>3 DEF AllProven
  <2>. QED
    BY <2>1, <2>4 DEF AllProven
<1>6. CASE HuffmanEnd
  <2>1. node' = node /\ branch' = <<<<heap[1].node>>>> /\ Len(heap') = 0 /\ Len(heap) = 1
    BY <1>6, EmptySeq DEF HuffmanEnd, Some
  <2>2. Proven(heap[1].node)
    BY <2>1 DEF AllProven
  <2>3. Len(branch') = 1 /\ branch'[1][1] = heap[1].node
    BY <2>1
  <2>4. \A i \in 1..Len(branch') : i = 1
    BY <2>3
  <2>. QED
    BY <2>1, <2>2, <2>3, <2>4 DEF AllProven
<1>7. CASE \E d \in 0..(MaxDepth + 1), s \in Inserted : add_leaf(d, s) \/ add_hidden_node(d, s)
  <2>1. PICK d \in 0..(MaxDepth + 1), s \in Inserted : add_leaf(d, s) \/ add_hidden_node(d, s)
    BY <1>7
  <2>2. /\ node' = new_leaf(s) \/ node' = new_hidden_node(script_hash(s))
        /\ UNCHANGED <<branch, heap>>
    BY <2>1, AddEffect
  <2>. QED
    BY <1>1, <2>2, NewLeafHolds, HiddenHolds
<1>8. CASE \E ws \in WeightLists : HuffmanBegin(ws) /\ ws # <<>>
  <2>1. PICK ws \in WeightLists : HuffmanBegin(ws) /\ ws # <<>>
    BY <1>8
  <2>2. /\ UNCHANGED <<node, branch>>
        /\ heap' = [i \in DOMAIN ws |-> [weight |-> ws[i], node |-> new_leaf(i)]]
    BY <2>1 DEF HuffmanBegin, tree
  <2>3. DOMAIN heap' = 1..Len(heap')
    BY LenProperties DEF IInv, Typed
  <2>4. \A i \in 1..Len(heap') : heap'[i].node = new_leaf(i)
    BY <2>2, <2>3
  <2>5. \A i \in 1..Len(heap') : Proven(heap'[i].node)
    BY <2>4, NewLeafHolds
  <2>. QED
    BY <2>2, <2>5 DEF AllProven
<1>9. CASE TakeRoot("spend") \/ TakeRoot("node") \/ TakeRoot("tree")
  <2>1. /\ Len(branch) = 1 /\ branch[1] # None /\ node' = branch[1][1] /\ branch' = <<>>
        /\ heap' = heap
    BY <1>9, RootEffect
  <2>2. Proven(node') /\ Len(branch') = 0
    BY <2>1, EmptySeq DEF AllProven
  <2>. QED
    BY <2>1, <2>2 DEF AllProven
<1>10. CASE Serialize
  BY <1>1, <1>10 DEF Serialize, tree, AllProven
<1>11. CASE DeserializeLeaf
  BY <1>1, <1>11, NewLeafHolds DEF DeserializeLeaf, BeginInsert
<1>12. CASE DeserializeEnd
  <2>1. CASE Len(branch) = 1
    <3>1. /\ phase = "ready" /\ node' = branch[1][1] /\ UNCHANGED <<branch, heap>>
      BY <1>12, <2>1 DEF DeserializeEnd
    <3>2. Proven(node')
      BY <2>1, <3>1, RootIsThere DEF AllProven
    <3>. QED
      BY <1>1, <3>1, <3>2
  <2>2. CASE Len(branch) # 1
    BY <1>1, <1>12, <2>2 DEF DeserializeEnd, AllProven
  <2>. QED
    BY <2>1, <2>2
<1>. QED
  BY <1>2, <1>3, <1>4, <1>5, <1>6, <1>7, <1>8, <1>9, <1>10, <1>11, <1>12 DEF Steps

\* What is added is there afterwards, with what was added before.
LEMMA AddedGrows ==
  ASSUME added \in Seq(AddedItems), NEW item \in AddedItems, added' = Append(added, item)
  PROVE  /\ added' \in Seq(AddedItems) /\ added' # <<>>
         /\ \A k \in DOMAIN added' : added'[k] = item \/ (k \in DOMAIN added /\ added'[k] = added[k])
         /\ AddedScripts \subseteq AddedScripts'
         /\ ~item.hidden => item.script \in AddedScripts'
<1>1. /\ added' \in Seq(AddedItems) /\ Len(added) \in Nat /\ Len(added') = Len(added) + 1
      /\ added'[Len(added) + 1] = item /\ \A k \in 1..Len(added) : added'[k] = added[k]
  BY LenProperties, AppendProperties
<1>2. DOMAIN added = 1..Len(added) /\ DOMAIN added' = 1..(Len(added) + 1)
  BY <1>1, LenProperties
<1>3. ASSUME NEW k \in DOMAIN added'
      PROVE  added'[k] = item \/ (k \in DOMAIN added /\ added'[k] = added[k])
  <2>1. k = Len(added) + 1 \/ k \in 1..Len(added)
    BY <1>1, <1>2
  <2>. QED
    BY <1>1, <1>2, <2>1
<1>4. AddedScripts \subseteq AddedScripts'
  <2>1. \A k \in DOMAIN added : k \in DOMAIN added' /\ added'[k] = added[k]
    BY <1>1, <1>2
  <2>. QED
    BY <2>1 DEF AddedScripts
<1>5. ASSUME ~item.hidden PROVE item.script \in AddedScripts'
  <2>1. Len(added) + 1 \in DOMAIN added'
    BY <1>1, <1>2
  <2>. QED
    BY <1>1, <1>5, <2>1 DEF AddedScripts
<1>6. added' # <<>>
  BY <1>1
<1>. QED
  BY <1>1, <1>3, <1>4, <1>5, <1>6

\* The effect of an insertion, on what is recorded of it.
LEMMA AddRecords ==
  ASSUME added \in Seq(AddedItems), NEW d \in 0..(MaxDepth + 1), NEW s \in Inserted,
         add_leaf(d, s) \/ add_hidden_node(d, s)
  PROVE  /\ added' \in Seq(AddedItems) /\ added' # <<>> /\ AddedScripts \subseteq AddedScripts'
         /\ ScriptsOf(node') \subseteq AddedScripts'
         /\ \A k \in DOMAIN added' :
              ~added'[k].hidden =>
                \/ HeldAt(node', d, added'[k].script, added'[k].depth)
                \/ k \in DOMAIN added /\ added'[k] = added[k]
<1>1. PICK hidden \in BOOLEAN :
        /\ added' = Append(added, [script |-> s, depth |-> d, hidden |-> hidden])
        /\ node' = IF hidden THEN new_hidden_node(script_hash(s)) ELSE new_leaf(s)
  BY AddEffect
<1>. DEFINE item == [script |-> s, depth |-> d, hidden |-> hidden]
<1>2. item \in AddedItems /\ item.script = s /\ item.depth = d /\ item.hidden = hidden
  BY TaprootAssumption DEF AddedItems
<1>3. added' = Append(added, item)
  BY <1>1
<1>. HIDE DEF item
<1>4. /\ added' \in Seq(AddedItems) /\ added' # <<>> /\ AddedScripts \subseteq AddedScripts'
      /\ \A k \in DOMAIN added' : added'[k] = item \/ (k \in DOMAIN added /\ added'[k] = added[k])
      /\ ~item.hidden => item.script \in AddedScripts'
  BY <1>2, <1>3, AddedGrows
<1>5. ScriptsOf(node') \subseteq AddedScripts'
  BY <1>1, <1>2, <1>4, NewLeafHolds, HiddenHolds
<1>6. ~item.hidden => HeldAt(node', d, item.script, item.depth)
  <2>1. d \in Nat
    BY Limit
  <2>. QED
    BY <1>1, <1>2, <2>1, NewLeafHolds
<1>. QED
  BY <1>4, <1>5, <1>6

\* No leaf comes out of nowhere.
LEMMA OnlyAddedStep ==
  ASSUME PathInv, Steps
  PROVE  OnlyAdded'
<1>. SUFFICES ASSUME weights' = <<>>, original' = <<>>
              PROVE  /\ ScriptsOf(node') \subseteq AddedScripts'
                     /\ \A i \in 1..Len(branch') :
                          branch'[i] # None => ScriptsOf(branch'[i][1]) \subseteq AddedScripts'
  BY DEF OnlyAdded
<1>0. IInv /\ added \in Seq(AddedItems) /\ OnlyAdded /\ HeapInv /\ FullInv
  BY DEF PathInv
<1>1. ASSUME weights = <<>>, original = <<>>
      PROVE  /\ ScriptsOf(node) \subseteq AddedScripts
             /\ \A i \in 1..Len(branch) :
                  branch[i] # None => ScriptsOf(branch[i][1]) \subseteq AddedScripts
  BY <1>0, <1>1 DEF OnlyAdded
<1>2. CASE Still
  <2>1. original = <<>> /\ added' = added /\ node' = node /\ branch' = branch
    BY <1>2 DEF Still
  <2>2. weights = <<>>
    BY <1>0, <1>2, <2>1 DEF Still, FullInv
  <2>3. AddedScripts' = AddedScripts
    BY <2>1 DEF AddedScripts
  <2>. QED
    BY <1>1, <2>1, <2>2, <2>3
<1>3. CASE CombineUp
  <2>1. /\ node \in NodeInfos /\ branch[depth + 1][1] \in NodeInfos /\ Len(branch) = depth + 1
        /\ branch[depth + 1] # None /\ depth \in Nat \ {0} /\ Len(branch') = depth
        /\ node' = combine(node, branch[depth + 1][1])
        /\ \A i \in 1..depth : branch'[i] = branch[i]
        /\ UNCHANGED <<added, weights, original>>
    BY <1>0, <1>3, UpEffect
  <2>2. AddedScripts' = AddedScripts
    BY <2>1 DEF AddedScripts
  <2>3. depth + 1 \in 1..Len(branch) /\ \A i \in 1..depth : i \in 1..Len(branch)
    BY <2>1
  <2>4. ScriptsOf(node) \subseteq AddedScripts /\ ScriptsOf(branch[depth + 1][1]) \subseteq AddedScripts
    BY <1>1, <2>1, <2>3
  <2>5. ScriptsOf(node') \subseteq AddedScripts
    BY <2>1, <2>4, CombineScripts
  <2>6. \A i \in 1..depth : branch'[i] # None => ScriptsOf(branch'[i][1]) \subseteq AddedScripts
    BY <1>1, <2>1, <2>3
  <2>. QED
    BY <2>1, <2>2, <2>5, <2>6
<1>4. CASE Place
  <2>1. /\ depth \in Nat /\ Len(branch) \in Nat /\ Len(branch') = depth + 1
        /\ \A i \in 1..(depth + 1) :
             branch'[i] = IF i = depth + 1 THEN <<node>>
                          ELSE IF i <= Len(branch) THEN branch[i] ELSE None
        /\ UNCHANGED <<node, added, weights, original>>
    BY <1>0, <1>4, PlaceEffect
  <2>2. AddedScripts' = AddedScripts
    BY <2>1 DEF AddedScripts
  <2>3. ASSUME NEW i \in 1..(depth + 1), branch'[i] # None
        PROVE  ScriptsOf(branch'[i][1]) \subseteq AddedScripts
    <3>1. CASE i = depth + 1
      <4>1. branch'[i][1] = node
        BY <2>1, <3>1
      <4>. QED
        BY <1>1, <2>1, <4>1
    <3>2. CASE i # depth + 1
      <4>1. i \in 1..Len(branch) /\ branch'[i] = branch[i]
        BY <2>1, <2>3, <3>2
      <4>. QED
        BY <1>1, <2>1, <2>3, <4>1
    <3>. QED
      BY <3>1, <3>2
  <2>. QED
    BY <1>1, <2>1, <2>2, <2>3
<1>5. CASE (HuffmanMerge /\ phase' # "gone") \/ HuffmanEnd
  <2>1. phase = "huffman" /\ weights' = weights
    BY <1>5 DEF HuffmanMerge, HuffmanEnd, given
  <2>. QED
    BY <1>0, <2>1 DEF HeapInv
<1>6. CASE \E d \in 0..(MaxDepth + 1), s \in Inserted : add_leaf(d, s) \/ add_hidden_node(d, s)
  <2>1. PICK d \in 0..(MaxDepth + 1), s \in Inserted : add_leaf(d, s) \/ add_hidden_node(d, s)
    BY <1>6
  <2>2. UNCHANGED <<branch, weights, original>>
    BY <2>1, AddEffect
  <2>3. ScriptsOf(node') \subseteq AddedScripts' /\ AddedScripts \subseteq AddedScripts'
    BY <1>0, <2>1, AddRecords
  <2>. QED
    BY <1>1, <2>2, <2>3
<1>7. CASE \E ws \in WeightLists : HuffmanBegin(ws) /\ ws # <<>>
  BY <1>7 DEF HuffmanBegin
<1>8. CASE TakeRoot("spend") \/ TakeRoot("node") \/ TakeRoot("tree")
  <2>1. /\ Len(branch) = 1 /\ branch[1] # None /\ node' = branch[1][1] /\ branch' = <<>>
        /\ UNCHANGED <<added, weights, original>>
    BY <1>0, <1>8, RootEffect
  <2>2. AddedScripts' = AddedScripts
    BY <2>1 DEF AddedScripts
  <2>3. Len(branch') = 0 /\ 1 \in 1..Len(branch)
    BY <2>1, EmptySeq
  <2>. QED
    BY <1>1, <2>1, <2>2, <2>3
<1>9. CASE Serialize \/ DeserializeLeaf \/ DeserializeEnd
  BY <1>9 DEF Serialize, DeserializeLeaf, DeserializeEnd, BeginInsert, serde
<1>. QED
  BY <1>2, <1>3, <1>4, <1>5, <1>6, <1>7, <1>8, <1>9 DEF Steps

\* What is recorded of an insertion is what the callers of insert give it.
LEMMA AddedType ==
  ASSUME added \in Seq(AddedItems), Steps
  PROVE  added' \in Seq(AddedItems)
<1>1. CASE \/ Still \/ CombineUp \/ Place \/ (HuffmanMerge /\ phase' # "gone") \/ HuffmanEnd
           \/ \E ws \in WeightLists : HuffmanBegin(ws) /\ ws # <<>>
           \/ TakeRoot("spend") \/ TakeRoot("node") \/ TakeRoot("tree")
           \/ Serialize \/ DeserializeLeaf \/ DeserializeEnd
  <2>1. added' = added
    BY <1>1 DEF Still, CombineUp, Place, Unmoved, HuffmanMerge, HuffmanEnd, HuffmanBegin,
                TakeRoot, Serialize, DeserializeLeaf, DeserializeEnd, given
  <2>. QED
    BY <2>1
<1>2. CASE \E d \in 0..(MaxDepth + 1), s \in Inserted : add_leaf(d, s) \/ add_hidden_node(d, s)
  BY <1>2, AddRecords
<1>. QED
  BY <1>1, <1>2 DEF Steps

\* No leaf that was added is lost or moves to another depth.
LEMMA AllAddedStep ==
  ASSUME PathInv, Steps
  PROVE  AllAdded'
<1>. SUFFICES ASSUME weights' = <<>>, original' = <<>>, phase' # "gone",
                     NEW k \in DOMAIN added', ~added'[k].hidden
              PROVE  Kept(added[k])'
  BY DEF AllAdded
<1>. DEFINE s == added'[k].script
            d == added'[k].depth
<1>. USE DEF Kept
<1>0. /\ IInv /\ added \in Seq(AddedItems) /\ HeapInv /\ FullInv
      /\ weights = <<>> /\ original = <<>> /\ phase # "gone" =>
           \A j \in DOMAIN added : ~added[j].hidden => Kept(added[j])
  BY DEF PathInv, AllAdded
<1>1. ASSUME added' = added, weights = <<>>, original = <<>>, phase # "gone"
      PROVE  \/ phase \in {"entry", "loop"} /\ HeldAt(node, depth, s, d)
             \/ phase \in {"spend", "node", "tree"} /\ HeldAt(node, 0, s, d)
             \/ \E i \in 1..Len(branch) : branch[i] # None /\ HeldAt(branch[i][1], i - 1, s, d)
  BY <1>0, <1>1
<1>2. CASE Still
  <2>1. UNCHANGED <<node, branch, added>> /\ original = <<>> /\ phase # "gone"
    BY <1>2 DEF Still, FullInv
  <2>2. weights = <<>>
    BY <1>2 DEF Still
  <2>3. CASE UNCHANGED phase /\ UNCHANGED depth
    BY <1>1, <2>1, <2>2, <2>3
  <2>4. CASE phase = "entry" /\ phase' = "loop" /\ UNCHANGED depth
    BY <1>1, <2>1, <2>2, <2>4
  <2>5. CASE phase = "ready" /\ branch = <<>>
    <3>1. Len(branch) = 0
      BY <2>5, EmptySeq
    <3>. QED
      BY <1>1, <2>1, <2>2, <2>5, <3>1
  <2>. QED
    BY <1>2, <2>3, <2>4, <2>5 DEF Still
<1>3. CASE CombineUp
  <2>1. /\ phase = "loop" /\ phase' = "loop" /\ depth \in Nat \ {0} /\ depth' = depth - 1
        /\ Len(branch) = depth + 1 /\ branch[depth + 1] # None
        /\ node \in NodeInfos /\ branch[depth + 1][1] \in NodeInfos
        /\ node' = combine(node, branch[depth + 1][1])
        /\ Len(branch') = depth /\ \A i \in 1..depth : branch'[i] = branch[i]
        /\ UNCHANGED <<added, weights, original>>
    BY <1>0, <1>3, UpEffect
  <2>2. \/ HeldAt(node, depth, s, d)
        \/ \E i \in 1..Len(branch) : branch[i] # None /\ HeldAt(branch[i][1], i - 1, s, d)
    BY <1>1, <2>1
  <2>3. CASE HeldAt(node, depth, s, d) \/ HeldAt(branch[depth + 1][1], depth, s, d)
    <3>1. HeldAt(node', depth', s, d)
      BY <2>1, <2>3, CombineHolds
    <3>. QED
      BY <2>1, <3>1
  <2>4. CASE \E i \in 1..Len(branch) :
               branch[i] # None /\ HeldAt(branch[i][1], i - 1, s, d) /\ i # depth + 1
    <3>1. PICK i \in 1..Len(branch) :
            branch[i] # None /\ HeldAt(branch[i][1], i - 1, s, d) /\ i # depth + 1
      BY <2>4
    <3>2. i \in 1..depth /\ i \in 1..Len(branch')
      BY <2>1, <3>1
    <3>3. branch'[i] # None /\ HeldAt(branch'[i][1], i - 1, s, d)
      BY <2>1, <3>1, <3>2
    <3>. QED
      BY <3>2, <3>3
  <2>5. (depth + 1) - 1 = depth
    BY <2>1
  <2>. QED
    BY <2>2, <2>3, <2>4, <2>5
<1>4. CASE Place
  <2>1. /\ phase = "loop" /\ phase' = "ready" /\ depth \in Nat /\ Len(branch) \in Nat
        /\ Len(branch) <= depth + 1 /\ (Len(branch) = depth + 1 => branch[depth + 1] = None)
        /\ Len(branch') = depth + 1
        /\ \A i \in 1..(depth + 1) :
             branch'[i] = IF i = depth + 1 THEN <<node>>
                          ELSE IF i <= Len(branch) THEN branch[i] ELSE None
        /\ UNCHANGED <<added, weights, original>>
    BY <1>0, <1>4, PlaceEffect
  <2>2. CASE HeldAt(node, depth, s, d)
    <3>1. /\ depth + 1 \in 1..Len(branch') /\ (depth + 1) - 1 = depth
          /\ branch'[depth + 1] = <<node>>
      BY <2>1
    <3>2. branch'[depth + 1] # None /\ branch'[depth + 1][1] = node
      BY <3>1 DEF None
    <3>. QED
      BY <2>2, <3>1, <3>2
  <2>3. CASE \E i \in 1..Len(branch) : branch[i] # None /\ HeldAt(branch[i][1], i - 1, s, d)
    <3>1. PICK i \in 1..Len(branch) : branch[i] # None /\ HeldAt(branch[i][1], i - 1, s, d)
      BY <2>3
    <3>2. i # depth + 1
      BY <2>1, <3>1
    <3>3. i \in 1..(depth + 1) /\ i \in 1..Len(branch') /\ i <= Len(branch)
      BY <2>1, <3>1
    <3>4. branch'[i] = branch[i]
      BY <2>1, <3>2, <3>3
    <3>. QED
      BY <3>1, <3>3, <3>4
  <2>. QED
    BY <1>1, <2>1, <2>2, <2>3
<1>5. CASE (HuffmanMerge /\ phase' # "gone") \/ HuffmanEnd
  <2>1. phase = "huffman" /\ weights' = weights
    BY <1>5 DEF HuffmanMerge, HuffmanEnd, given
  <2>. QED
    BY <1>0, <2>1 DEF HeapInv
<1>6. CASE \E e \in 0..(MaxDepth + 1), t \in Inserted : add_leaf(e, t) \/ add_hidden_node(e, t)
  <2>1. PICK e \in 0..(MaxDepth + 1), t \in Inserted : add_leaf(e, t) \/ add_hidden_node(e, t)
    BY <1>6
  <2>2. /\ phase = "ready" /\ phase' = "entry" /\ depth' = e
        /\ UNCHANGED <<branch, weights, original>>
    BY <2>1, AddEffect
  <2>3. HeldAt(node', e, s, d) \/ (k \in DOMAIN added /\ added'[k] = added[k])
    BY <1>0, <2>1, AddRecords
  <2>4. CASE HeldAt(node', e, s, d)
    BY <2>2, <2>4
  <2>5. CASE k \in DOMAIN added /\ added'[k] = added[k]
    <3>1. \E i \in 1..Len(branch) : branch[i] # None /\ HeldAt(branch[i][1], i - 1, s, d)
      BY <1>0, <2>2, <2>5
    <3>. QED
      BY <2>2, <3>1
  <2>. QED
    BY <2>3, <2>4, <2>5
<1>7. CASE \E ws \in WeightLists : HuffmanBegin(ws) /\ ws # <<>>
  BY <1>7 DEF HuffmanBegin
<1>8. ASSUME NEW to \in {"spend", "node", "tree"}, TakeRoot(to)
      PROVE  Kept(added[k])'
  <2>1. /\ phase = "ready" /\ phase' = to /\ Len(branch) = 1
        /\ node' = branch[1][1] /\ UNCHANGED <<added, weights, original>>
    BY <1>0, <1>8, RootEffect
  <2>2. PICK i \in 1..Len(branch) : branch[i] # None /\ HeldAt(branch[i][1], i - 1, s, d)
    BY <1>1, <2>1
  <2>3. i = 1 /\ i - 1 = 0
    BY <2>1
  <2>4. HeldAt(node', 0, s, d)
    BY <2>1, <2>2, <2>3
  <2>. QED
    BY <2>1, <2>4
<1>9. CASE Serialize \/ DeserializeLeaf \/ DeserializeEnd
  BY <1>9 DEF Serialize, DeserializeLeaf, DeserializeEnd, BeginInsert, serde
<1>. QED
  BY <1>2, <1>3, <1>4, <1>5, <1>6, <1>7, <1>8, <1>9 DEF Steps

\* The heap keeps the scripts of all weights, and no other.
LEMMA HeapStep ==
  ASSUME PathInv, IInv', Steps
  PROVE  HeapInv'
<1>. SUFFICES ASSUME phase' = "huffman" PROVE HeapInv'
  BY DEF HeapInv
<1>0. IInv /\ HeapInv
  BY DEF PathInv
<1>1. CASE Still
  <2>1. UNCHANGED <<phase, branch, heap, added, original, weights>>
    BY <1>1 DEF Still
  <2>. QED
    BY <1>0, <2>1 DEF HeapInv
<1>2. CASE \E ws \in WeightLists : HuffmanBegin(ws) /\ ws # <<>>
  <2>1. PICK ws \in WeightLists : HuffmanBegin(ws) /\ ws # <<>>
    BY <1>2
  <2>2. /\ branch' = <<>> /\ added' = <<>> /\ original' = <<>> /\ weights' = ws /\ ws # <<>>
        /\ heap' = [i \in DOMAIN ws |-> [weight |-> ws[i], node |-> new_leaf(i)]]
    BY <2>1 DEF HuffmanBegin, tree, serde
  <2>3. DOMAIN heap' = 1..Len(heap')
    BY LenProperties DEF IInv, Typed
  <2>4. DOMAIN ws = 1..Len(heap') /\ \A i \in 1..Len(heap') : heap'[i].node = new_leaf(i)
    BY <2>2, <2>3
  <2>5. \A i \in 1..Len(heap') : ScriptsOf(heap'[i].node) = {i}
    BY <2>4, NewLeafHolds
  <2>6. \A s \in DOMAIN weights' : s \in 1..Len(heap') /\ s \in ScriptsOf(heap'[s].node)
    BY <2>2, <2>4, <2>5
  <2>7. \A i \in 1..Len(heap') : ScriptsOf(heap'[i].node) \subseteq DOMAIN weights'
    <3>1. DOMAIN weights' = 1..Len(heap')
      BY <2>2, <2>4
    <3>. QED
      BY ONLY <2>5, <3>1
  <2>8. weights' # <<>>
    BY <2>2
  <2>. QED
    BY ONLY <2>2, <2>6, <2>7, <2>8 DEF HeapInv
<1>3. CASE HuffmanMerge /\ phase' # "gone"
  <2>1. phase = "huffman" /\ UNCHANGED <<branch, added, original, weights>>
    BY <1>3 DEF HuffmanMerge, tree, given, serde
  <2>2. PICK x, y \in 1..Len(heap) :
          /\ heap[x].node \in NodeInfos /\ heap[y].node \in NodeInfos
          /\ \A k \in 1..Len(heap') :
               \/ heap'[k].node = combine(heap[x].node, heap[y].node)
               \/ \E j \in 1..Len(heap) : heap'[k] = heap[j]
          /\ \E k \in 1..Len(heap') : heap'[k].node = combine(heap[x].node, heap[y].node)
          /\ \A j \in 1..Len(heap) :
               j # x /\ j # y => \E k \in 1..Len(heap') : heap'[k] = heap[j]
    BY <1>0, <1>3, MergeEffect
  <2>3. /\ \A s \in DOMAIN weights : \E i \in 1..Len(heap) : s \in ScriptsOf(heap[i].node)
        /\ \A i \in 1..Len(heap) : ScriptsOf(heap[i].node) \subseteq DOMAIN weights
        /\ branch = <<>> /\ added = <<>> /\ original = <<>> /\ weights # <<>>
    BY <1>0, <2>1 DEF HeapInv
  <2>4. ScriptsOf(combine(heap[x].node, heap[y].node))
          = ScriptsOf(heap[x].node) \cup ScriptsOf(heap[y].node)
    BY <2>2, CombineScripts
  <2>5. \A i \in 1..Len(heap') : ScriptsOf(heap'[i].node) \subseteq DOMAIN weights
    BY <2>2, <2>3, <2>4
  <2>6. ASSUME NEW s \in DOMAIN weights
        PROVE  \E i \in 1..Len(heap') : s \in ScriptsOf(heap'[i].node)
    <3>1. PICK j \in 1..Len(heap) : s \in ScriptsOf(heap[j].node)
      BY <2>3
    <3>2. CASE j = x \/ j = y
      BY <2>2, <2>4, <3>1, <3>2
    <3>3. CASE j # x /\ j # y
      BY <2>2, <3>1, <3>3
    <3>. QED
      BY <3>2, <3>3
  <2>. QED
    BY <2>1, <2>3, <2>5, <2>6 DEF HeapInv
<1>4. CASE \E d \in 0..(MaxDepth + 1), s \in Inserted : add_leaf(d, s) \/ add_hidden_node(d, s)
  <2>1. phase' = "entry"
    BY <1>4, AddEffect
  <2>. QED
    BY <2>1
<1>5. CASE CombineUp \/ Place
  <2>1. phase' = "loop" \/ phase' = "ready"
    BY <1>0, <1>5, UpEffect, PlaceEffect
  <2>. QED
    BY <2>1
<1>6. CASE HuffmanEnd \/ Serialize \/ DeserializeLeaf \/ DeserializeEnd
  BY <1>6 DEF HuffmanEnd, Serialize, DeserializeLeaf, DeserializeEnd, BeginInsert
<1>7. CASE TakeRoot("spend") \/ TakeRoot("node") \/ TakeRoot("tree")
  BY <1>7 DEF TakeRoot
<1>. QED
  BY <1>1, <1>2, <1>3, <1>4, <1>5, <1>6, <1>7 DEF Steps

\* The tree of a Huffman heap is whole and stays at the root of the branch.
LEMMA FullStep ==
  ASSUME PathInv, Steps
  PROVE  FullInv'
<1>. SUFFICES ASSUME weights' # <<>>, original' = <<>>, phase' \in {"ready", "entry", "loop"}
              PROVE  /\ branch' # <<>> /\ branch'[1] # None
                     /\ added' = <<>> => /\ phase' = "ready"
                                         /\ ScriptsOf(branch'[1][1]) = DOMAIN weights'
                     /\ phase' = "ready" /\ added' # <<>> => Len(branch') > 1
  BY DEF FullInv
<1>0. IInv /\ added \in Seq(AddedItems) /\ HeapInv /\ FullInv
  BY DEF PathInv
<1>1. ASSUME weights # <<>>, original = <<>>, phase \in {"ready", "entry", "loop"}
      PROVE  /\ branch # <<>> /\ branch[1] # None
             /\ added = <<>> => phase = "ready" /\ ScriptsOf(branch[1][1]) = DOMAIN weights
             /\ phase = "ready" /\ added # <<>> => Len(branch) > 1
  BY <1>0, <1>1 DEF FullInv
<1>2. CASE Still
  <2>1. /\ UNCHANGED <<branch, added, weights>> /\ original = <<>>
        /\ UNCHANGED phase \/ (phase = "entry" /\ phase' = "loop")
    BY <1>2 DEF Still
  <2>. QED
    BY <1>1, <2>1
<1>3. ASSUME branch # <<>> PROVE Len(branch) \in Nat \ {0}
  BY <1>0, <1>3, LenProperties, EmptySeq DEF IInv, BranchOK
<1>4. CASE CombineUp
  <2>1. /\ phase = "loop" /\ phase' = "loop" /\ depth \in Nat \ {0}
        /\ Len(branch') = depth /\ \A i \in 1..depth : branch'[i] = branch[i]
        /\ UNCHANGED <<added, weights, original>>
    BY <1>0, <1>4, UpEffect
  <2>2. added # <<>> /\ branch[1] # None
    BY <1>1, <2>1
  <2>3. branch'[1] = branch[1] /\ branch' # <<>>
    BY <2>1, EmptySeq
  <2>. QED
    BY <2>1, <2>2, <2>3
<1>5. CASE Place
  <2>1. /\ phase = "loop" /\ phase' = "ready" /\ depth \in Nat /\ Len(branch) \in Nat
        /\ Len(branch) <= depth + 1 /\ (Len(branch) = depth + 1 => branch[depth + 1] = None)
        /\ Len(branch') = depth + 1
        /\ \A i \in 1..(depth + 1) :
             branch'[i] = IF i = depth + 1 THEN <<node>>
                          ELSE IF i <= Len(branch) THEN branch[i] ELSE None
        /\ UNCHANGED <<added, weights, original>>
    BY <1>0, <1>5, PlaceEffect
  <2>2. added # <<>> /\ branch # <<>> /\ branch[1] # None
    BY <1>1, <2>1
  <2>3. depth # 0 /\ 1 <= Len(branch)
    BY <1>3, <2>1, <2>2
  <2>4. branch'[1] = branch[1] /\ Len(branch') > 1 /\ branch' # <<>>
    BY <2>1, <2>3, EmptySeq
  <2>. QED
    BY <2>1, <2>2, <2>4
<1>6. CASE HuffmanEnd
  <2>1. /\ phase = "huffman" /\ Len(heap) = 1 /\ phase' = "ready"
        /\ branch' = <<<<heap[1].node>>>> /\ UNCHANGED <<added, weights>>
    BY <1>6 DEF HuffmanEnd, Some, given
  <2>2. /\ added = <<>>
        /\ \A s \in DOMAIN weights : \E i \in 1..Len(heap) : s \in ScriptsOf(heap[i].node)
        /\ \A i \in 1..Len(heap) : ScriptsOf(heap[i].node) \subseteq DOMAIN weights
    BY <1>0, <2>1 DEF HeapInv
  <2>3. \A i \in 1..Len(heap) : i = 1
    BY <2>1
  <2>4. ScriptsOf(heap[1].node) = DOMAIN weights
    BY <2>1, <2>2, <2>3
  <2>5. branch'[1] = <<heap[1].node>> /\ branch'[1][1] = heap[1].node /\ branch' # <<>>
    BY <2>1
  <2>6. branch'[1] # None
    BY <2>5 DEF None
  <2>. QED
    BY <2>1, <2>2, <2>4, <2>5, <2>6
<1>7. CASE \E d \in 0..(MaxDepth + 1), s \in Inserted : add_leaf(d, s) \/ add_hidden_node(d, s)
  <2>1. PICK d \in 0..(MaxDepth + 1), s \in Inserted : add_leaf(d, s) \/ add_hidden_node(d, s)
    BY <1>7
  <2>2. /\ phase = "ready" /\ phase' = "entry" /\ UNCHANGED <<branch, weights, original>>
    BY <2>1, AddEffect
  <2>3. added' # <<>>
    BY <1>0, <2>1, AddRecords
  <2>. QED
    BY <1>1, <2>2, <2>3
<1>8. CASE (HuffmanMerge /\ phase' # "gone") \/ \E ws \in WeightLists : HuffmanBegin(ws) /\ ws # <<>>
  BY <1>8 DEF HuffmanMerge, HuffmanBegin
<1>9. CASE TakeRoot("spend") \/ TakeRoot("node") \/ TakeRoot("tree")
  BY <1>9 DEF TakeRoot
<1>10. CASE Serialize \/ DeserializeLeaf \/ DeserializeEnd
  BY <1>10 DEF Serialize, DeserializeLeaf, DeserializeEnd, BeginInsert, serde
<1>. QED
  BY <1>2, <1>4, <1>5, <1>6, <1>7, <1>8, <1>9, <1>10 DEF Steps

\* The spend info is that of the root, which is whole.
LEMMA SpendStep ==
  ASSUME PathInv, Steps
  PROVE  SpendInv'
<1>. SUFFICES ASSUME phase' = "spend"
              PROVE  /\ branch' = <<>> /\ original' = <<>> /\ script_map' = MapOf(node')
                     /\ weights' # <<>> => ScriptsOf(node') = DOMAIN weights'
  BY DEF SpendInv, MapOf
<1>0. IInv /\ FullInv /\ SpendInv
  BY DEF PathInv
<1>1. CASE Still
  <2>1. UNCHANGED <<phase, node, branch, original, script_map, weights>>
    BY <1>1 DEF Still
  <2>. QED
    BY <1>0, <2>1 DEF SpendInv
<1>2. CASE TakeRoot("spend") /\ script_map' = MapOf(branch[1][1])
  <2>1. /\ phase = "ready" /\ original = <<>> /\ Len(branch) = 1 /\ node' = branch[1][1]
        /\ branch' = <<>> /\ UNCHANGED <<added, weights, original>>
    BY <1>0, <1>2, RootEffect
  <2>2. ASSUME weights # <<>> PROVE ScriptsOf(branch[1][1]) = DOMAIN weights
    <3>1. added = <<>>
      BY <1>0, <2>1, <2>2 DEF FullInv
    <3>. QED
      BY <1>0, <2>1, <2>2, <3>1 DEF FullInv
  <2>. QED
    BY <1>2, <2>1, <2>2
<1>3. CASE CombineUp \/ Place
  <2>1. phase' = "loop" \/ phase' = "ready"
    BY <1>0, <1>3, UpEffect, PlaceEffect
  <2>. QED
    BY <2>1
<1>4. CASE (HuffmanMerge /\ phase' # "gone") \/ HuffmanEnd \/ Serialize \/ DeserializeLeaf
             \/ DeserializeEnd
  BY <1>4 DEF HuffmanMerge, HuffmanEnd, Serialize, DeserializeLeaf, DeserializeEnd, BeginInsert
<1>5. CASE \E d \in 0..(MaxDepth + 1), s \in Inserted : add_leaf(d, s) \/ add_hidden_node(d, s)
  <2>1. phase' = "entry"
    BY <1>5, AddEffect
  <2>. QED
    BY <2>1
<1>6. CASE \E ws \in WeightLists : HuffmanBegin(ws) /\ ws # <<>>
  BY <1>6 DEF HuffmanBegin
<1>7. CASE TakeRoot("node") \/ TakeRoot("tree")
  BY <1>7 DEF TakeRoot
<1>. QED
  BY <1>1, <1>2, <1>3, <1>4, <1>5, <1>6, <1>7 DEF Steps

LEMMA PathInit == Init => PathInv
<1>. SUFFICES ASSUME Init PROVE PathInv
  OBVIOUS
<1>1. IInv /\ AllProven
  BY InitInv, ProvenInit
<1>2. /\ branch = <<>> /\ phase = "ready" /\ node = new_hidden_node(<<>>) /\ weights = <<>>
      /\ added = <<>>
  BY DEF Init
<1>3. Len(branch) = 0 /\ added \in Seq(AddedItems) /\ DOMAIN added = {}
  BY <1>2, EmptySeq
<1>4. OnlyAdded
  BY <1>2, <1>3, HiddenHolds DEF OnlyAdded
<1>5. AllAdded
  BY <1>3 DEF AllAdded
<1>6. HeapInv /\ FullInv /\ SpendInv
  BY <1>2 DEF HeapInv, FullInv, SpendInv
<1>. QED
  BY <1>1, <1>3, <1>4, <1>5, <1>6 DEF PathInv

LEMMA PathStep == PathInv /\ [Next]_vars => PathInv'
<1>. SUFFICES ASSUME PathInv, [Next]_vars PROVE PathInv'
  OBVIOUS
<1>1. IInv' /\ Steps /\ AllProven /\ IInv /\ added \in Seq(AddedItems)
  BY NextInv, EveryStep DEF PathInv
<1>2. AllProven'
  BY <1>1, ProvenStep
<1>3. added' \in Seq(AddedItems)
  BY <1>1, AddedType
<1>4. OnlyAdded' /\ AllAdded'
  BY <1>1, OnlyAddedStep, AllAddedStep
<1>5. HeapInv'
  BY <1>1, HeapStep
<1>6. FullInv' /\ SpendInv'
  BY <1>1, FullStep, SpendStep
<1>. QED
  BY <1>1, <1>2, <1>3, <1>4, <1>5, <1>6 DEF PathInv

\* Whatever is inserted, in whatever order, and whatever weights a Huffman tree is made
\* from: every proof in a node leads to the hash of the node, and the nodes hold the
\* leaves that were added, at the depths they were added at, and no others.
THEOREM PathInvariant == Spec => []PathInv
BY PathInit, PathStep, PTL DEF Spec

\* The least length of the proofs of a script.
LEMMA ShortestProof ==
  ASSUME NEW n \in NodeInfos, NEW s \in ScriptsOf(n), script_map = MapOf(n)
  PROVE  \E leaf \in LeavesOf(n) :
           /\ leaf.script = s /\ leaf.merkle_branch = control_block(s)
           /\ \A other \in LeavesOf(n) :
                other.script = s => Len(control_block(s)) <= Len(other.merkle_branch)
<1>. DEFINE proofs == {leaf.merkle_branch : leaf \in {l \in LeavesOf(n) : l.script = s}}
            lengths == {Len(m) : m \in proofs}
<1>1. script_map[s] = proofs
  <2>1. LeavesOf(n) = {n.leaves[i] : i \in DOMAIN n.leaves}
    BY DEF LeavesOf, Range
  <2>2. s \in {n.leaves[i].script : i \in DOMAIN n.leaves}
    BY <2>1 DEF ScriptsOf
  <2>3. script_map[s] =
          {n.leaves[i].merkle_branch : i \in {j \in DOMAIN n.leaves : n.leaves[j].script = s}}
    BY <2>2 DEF MapOf
  <2>. QED
    BY <2>1, <2>3
<1>2. \A m \in proofs : Len(m) \in Nat
  BY LeafTypes
<1>3. proofs # {}
  BY DEF ScriptsOf
<1>4. \E m \in proofs : \A other \in proofs : Len(m) <= Len(other)
  <2>1. lengths \subseteq Nat /\ lengths # {}
    BY <1>2, <1>3
  <2>. HIDE DEF proofs
  <2>2. PICK k \in lengths : \A l \in lengths : k <= l
    BY <2>1, LeastNumber
  <2>. QED
    BY <2>2
<1>. HIDE DEF proofs
<1>5. /\ control_block(s) \in proofs
      /\ \A other \in proofs : Len(control_block(s)) <= Len(other)
  BY <1>1, <1>4 DEF control_block
<1>. QED
  BY <1>5 DEF proofs

\* The spend info of a finished tree: a control block for exactly the known scripts,
\* which proves the script against the root (verify_taproot_commitment) and is no longer
\* than the depth that any leaf of that script was added at.
THEOREM EveryScriptIsSpendable == Spec => []SpendPathsVerify
<1>1. PathInv => SpendPathsVerify
  <2>. SUFFICES ASSUME PathInv, phase = "spend" PROVE SpendPathsVerify
    BY DEF SpendPathsVerify
  <2>. DEFINE known == IF weights = <<>>
                       THEN {added[i].script : i \in {j \in DOMAIN added : ~added[j].hidden}}
                       ELSE DOMAIN weights
  <2>1. /\ node \in NodeInfos /\ Proven(node) /\ branch = <<>> /\ original = <<>>
        /\ script_map = MapOf(node) /\ (weights # <<>> => ScriptsOf(node) = DOMAIN weights)
    BY DEF PathInv, IInv, Typed, AllProven, SpendInv
  <2>2. DOMAIN script_map = ScriptsOf(node)
    BY <2>1 DEF MapOf, ScriptsOf, LeavesOf, Range
  <2>3. ASSUME weights = <<>>, NEW i \in DOMAIN added, ~added[i].hidden
        PROVE  HeldAt(node, 0, added[i].script, added[i].depth)
    <3>1. Kept(added[i])
      BY <2>1, <2>3 DEF PathInv, AllAdded
    <3>2. Len(branch) = 0
      BY <2>1, EmptySeq
    <3>. QED
      BY <3>1, <3>2 DEF Kept
  <2>4. known = ScriptsOf(node)
    <3>1. CASE weights = <<>>
      <4>1. known = AddedScripts
        BY <3>1 DEF AddedScripts
      <4>. HIDE DEF known
      <4>2. ScriptsOf(node) \subseteq AddedScripts
        BY <2>1, <3>1 DEF PathInv, OnlyAdded
      <4>3. AddedScripts \subseteq ScriptsOf(node)
        BY <2>3, <3>1 DEF AddedScripts, HeldAt, ScriptsOf
      <4>. QED
        BY <4>1, <4>2, <4>3
    <3>2. CASE weights # <<>>
      BY <2>1, <3>2
    <3>. QED
      BY <3>1, <3>2
  <2>5. ASSUME NEW s \in ScriptsOf(node) PROVE ProvenRoot(s, control_block(s)) = node.hash
    <3>1. PICK leaf \in LeavesOf(node) : leaf.script = s /\ leaf.merkle_branch = control_block(s)
      BY <2>1, ShortestProof
    <3>. QED
      BY <2>1, <3>1 DEF Proven
  <2>6. ASSUME weights = <<>>, NEW i \in DOMAIN added, ~added[i].hidden
        PROVE  Len(control_block(added[i].script)) <= added[i].depth
    <3>1. PICK leaf \in LeavesOf(node) :
            leaf.script = added[i].script /\ 0 + Len(leaf.merkle_branch) = added[i].depth
      BY <2>3, <2>6 DEF HeldAt
    <3>2. Len(leaf.merkle_branch) = added[i].depth
      BY <2>1, <3>1, LeafTypes
    <3>3. leaf.script \in ScriptsOf(node)
      BY DEF ScriptsOf
    <3>4. Len(control_block(leaf.script)) <= Len(leaf.merkle_branch)
      BY <2>1, <3>3, ShortestProof
    <3>. QED
      BY <3>1, <3>2, <3>4
  <2>. HIDE DEF known
  <2>7. /\ DOMAIN script_map = known
        /\ \A s \in known : ProvenRoot(s, control_block(s)) = node.hash
        /\ weights = <<>> => \A i \in DOMAIN added :
             ~added[i].hidden => Len(control_block(added[i].script)) <= added[i].depth
    BY <2>2, <2>4, <2>5, <2>6
  <2>. QED
    BY <2>7 DEF SpendPathsVerify, known
<1>. QED
  BY <1>1, PathInvariant, PTL

-----------------------------------------------------------------------------
(* The room that is taken: TaprootBuilder implements TapTreeSpace. *)

\* What holds of 0 and, with a number, of the next one, holds up to any bound.
LEMMA CountUp ==
  ASSUME NEW N \in Nat, NEW S, 0 \in S, \A n \in 0..(N - 1) : n \in S => n + 1 \in S
  PROVE  \A n \in 0..N : n \in S
<1>. DEFINE T == (0..N) \ S
<1>. SUFFICES ASSUME T # {} PROVE FALSE
  OBVIOUS
<1>1. PICK n \in T : \A m \in T : n <= m
  <2>1. T \subseteq Nat
    OBVIOUS
  <2>. HIDE DEF T
  <2>. QED
    BY <2>1, LeastNumber
<1>2. n \in 0..N /\ n \notin S /\ n # 0
  BY <1>1
<1>3. n - 1 \in 0..(N - 1) /\ (n - 1) + 1 = n /\ n - 1 \in 0..N /\ ~(n <= n - 1)
  BY <1>2
<1>4. n - 1 \in S
  BY <1>1, <1>3
<1>. QED
  BY <1>2, <1>3, <1>4

\* Room from a level downwards.
IsRoom(f, n) == f = [d \in n..MaxDepth |-> IF d = MaxDepth THEN 1 ELSE 2 * f[d + 1]]

\* The room of a level is twice that of the next.
LEMMA RoomGoesOn ==
  ASSUME NEW n \in Nat, n < MaxDepth, NEW f, IsRoom(f, n + 1)
  PROVE  \E g : IsRoom(g, n)
<1>. DEFINE g == [d \in n..MaxDepth |-> IF d = n THEN 2 * f[n + 1] ELSE f[d]]
<1>0. MaxDepth \in Nat
  BY Limit
<1>1. \A d \in (n + 1)..MaxDepth : f[d] = IF d = MaxDepth THEN 1 ELSE 2 * f[d + 1]
  BY Zenon DEF IsRoom
<1>2. n \in n..MaxDepth /\ n # MaxDepth
  BY <1>0
<1>3. g[n] = 2 * f[n + 1]
  BY <1>2
<1>4. \A d \in (n + 1)..MaxDepth : d \in n..MaxDepth /\ d # n
  BY <1>0
<1>5. \A d \in (n + 1)..MaxDepth : g[d] = f[d]
  BY <1>4
<1>6. g = [d \in n..MaxDepth |-> g[d]]
  OBVIOUS
<1>. HIDE DEF g
<1>7. ASSUME NEW d \in n..MaxDepth
      PROVE  g[d] = IF d = MaxDepth THEN 1 ELSE 2 * g[d + 1]
  <2>1. CASE d = n
    <3>1. d + 1 \in (n + 1)..MaxDepth
      BY <1>0, <2>1
    <3>. QED
      BY <1>2, <1>3, <1>5, <2>1, <3>1
  <2>2. CASE d # n
    <3>1. d \in (n + 1)..MaxDepth /\ (d # MaxDepth => d + 1 \in (n + 1)..MaxDepth)
      BY <1>0, <2>2
    <3>. QED
      BY <1>1, <1>5, <3>1
  <2>. QED
    BY <2>1, <2>2
<1>8. IsRoom(g, n)
  BY <1>6, <1>7 DEF IsRoom
<1>. QED
  BY <1>8

\* Room is what its definition says.
LEMMA RoomIsRoom == IsRoom(Room, 0)
<1>. DEFINE S == {k \in 0..MaxDepth : \E f : IsRoom(f, MaxDepth - k)}
<1>0. MaxDepth \in Nat
  BY Limit
<1>1. 0 \in S
  <2>. DEFINE f == [d \in MaxDepth..MaxDepth |-> 1]
  <2>1. \A d \in MaxDepth..MaxDepth : d = MaxDepth
    BY <1>0
  <2>2. f = [d \in MaxDepth..MaxDepth |-> IF d = MaxDepth THEN 1 ELSE 2 * f[d + 1]]
    BY <2>1
  <2>. HIDE DEF f
  <2>3. IsRoom(f, MaxDepth)
    BY <2>2 DEF IsRoom
  <2>4. MaxDepth - 0 = MaxDepth /\ 0 \in 0..MaxDepth
    BY <1>0
  <2>5. IsRoom(f, MaxDepth - 0)
    BY <2>3, <2>4
  <2>. QED
    BY <2>4, <2>5
<1>2. ASSUME NEW k \in 0..(MaxDepth - 1), k \in S PROVE k + 1 \in S
  <2>1. PICK f : IsRoom(f, MaxDepth - k)
    BY <1>2
  <2>2. /\ MaxDepth - (k + 1) \in Nat /\ MaxDepth - (k + 1) < MaxDepth
        /\ (MaxDepth - (k + 1)) + 1 = MaxDepth - k /\ k + 1 \in 0..MaxDepth
    BY <1>0
  <2>3. IsRoom(f, (MaxDepth - (k + 1)) + 1)
    BY <2>1, <2>2
  <2>4. \E g : IsRoom(g, MaxDepth - (k + 1))
    BY <2>2, <2>3, RoomGoesOn
  <2>. QED
    BY <2>2, <2>4
<1>. HIDE DEF S
<1>3. \A k \in 0..MaxDepth : k \in S
  BY <1>0, <1>1, <1>2, CountUp
<1>4. MaxDepth \in 0..MaxDepth /\ MaxDepth - MaxDepth = 0
  BY <1>0
<1>5. MaxDepth \in S
  BY <1>3, <1>4
<1>6. \E f : IsRoom(f, MaxDepth - MaxDepth)
  BY <1>5 DEF S
<1>7. \E f : IsRoom(f, 0)
  BY <1>4, <1>6
<1>. QED
  BY <1>7 DEF IsRoom, Room

\* A leaf at the limit takes up the unit, and one a level higher twice as much.
LEMMA RoomDoubles ==
  /\ Room[MaxDepth] = 1 /\ \A d \in 0..(MaxDepth - 1) : Room[d] = 2 * Room[d + 1]
  /\ \A d \in 0..MaxDepth : Room[d] \in Nat \ {0}
<1>0. MaxDepth \in Nat
  BY Limit
<1>1. \A d \in 0..MaxDepth : Room[d] = IF d = MaxDepth THEN 1 ELSE 2 * Room[d + 1]
  BY RoomIsRoom, Zenon DEF IsRoom
<1>2. Room[MaxDepth] = 1 /\ \A d \in 0..(MaxDepth - 1) : Room[d] = 2 * Room[d + 1]
  <2>1. MaxDepth \in 0..MaxDepth /\ \A d \in 0..(MaxDepth - 1) : d \in 0..MaxDepth /\ d # MaxDepth
    BY <1>0
  <2>. QED
    BY <1>1, <2>1
<1>. DEFINE S == {k \in 0..MaxDepth : Room[MaxDepth - k] \in Nat \ {0}}
<1>3. 0 \in S
  <2>1. MaxDepth - 0 = MaxDepth /\ 0 \in 0..MaxDepth
    BY <1>0
  <2>. QED
    BY <1>2, <2>1
<1>4. ASSUME NEW k \in 0..(MaxDepth - 1), k \in S PROVE k + 1 \in S
  <2>1. /\ MaxDepth - (k + 1) \in 0..(MaxDepth - 1) /\ (MaxDepth - (k + 1)) + 1 = MaxDepth - k
        /\ k + 1 \in 0..MaxDepth
    BY <1>0
  <2>2. Room[MaxDepth - (k + 1)] = 2 * Room[MaxDepth - k]
    BY <1>2, <2>1
  <2>3. Room[MaxDepth - k] \in Nat \ {0}
    BY <1>4
  <2>4. Room[MaxDepth - (k + 1)] \in Nat \ {0}
    BY <2>2, <2>3
  <2>. QED
    BY <2>1, <2>4
<1>. HIDE DEF S
<1>5. \A k \in 0..MaxDepth : k \in S
  BY <1>0, <1>3, <1>4, CountUp
<1>6. ASSUME NEW d \in 0..MaxDepth PROVE Room[d] \in Nat \ {0}
  <2>1. MaxDepth - d \in 0..MaxDepth /\ MaxDepth - (MaxDepth - d) = d
    BY <1>0
  <2>2. MaxDepth - d \in S
    BY <1>5, <2>1
  <2>3. Room[MaxDepth - (MaxDepth - d)] \in Nat \ {0}
    BY <2>2 DEF S
  <2>. QED
    BY <2>1, <2>3
<1>. QED
  BY <1>2, <1>6

\* The room of a level is a multiple of that of any deeper level.
LEMMA RoomDivides ==
  ASSUME NEW i \in 0..MaxDepth, NEW j \in i..MaxDepth
  PROVE  \E m \in Nat : Room[i] = m * Room[j]
<1>. DEFINE S == {k \in 0..(MaxDepth - i) : \E m \in Nat : Room[i] = m * Room[i + k]}
<1>0. MaxDepth \in Nat /\ MaxDepth - i \in Nat
  BY Limit
<1>1. 0 \in S
  <2>1. i + 0 = i /\ 0 \in 0..(MaxDepth - i) /\ 1 \in Nat
    BY <1>0
  <2>2. Room[i] = 1 * Room[i + 0]
    BY <2>1, RoomDoubles
  <2>. QED
    BY <2>1, <2>2
<1>2. ASSUME NEW k \in 0..((MaxDepth - i) - 1), k \in S PROVE k + 1 \in S
  <2>1. PICK m \in Nat : Room[i] = m * Room[i + k]
    BY <1>2
  <2>2. /\ i + k \in 0..(MaxDepth - 1) /\ (i + k) + 1 = i + (k + 1) /\ i + (k + 1) \in 0..MaxDepth
        /\ k + 1 \in 0..(MaxDepth - i)
    BY <1>0
  <2>3. Room[i + k] = 2 * Room[i + (k + 1)] /\ Room[i + (k + 1)] \in Nat
    BY <2>2, RoomDoubles
  <2>4. \A r \in Nat : m * (2 * r) = (2 * m) * r /\ 2 * m \in Nat
    OBVIOUS
  <2>5. Room[i] = (2 * m) * Room[i + (k + 1)] /\ 2 * m \in Nat
    BY <2>1, <2>3, <2>4
  <2>. QED
    BY <2>2, <2>5
<1>. HIDE DEF S
<1>3. \A k \in 0..(MaxDepth - i) : k \in S
  BY <1>0, <1>1, <1>2, CountUp
<1>4. j - i \in 0..(MaxDepth - i) /\ i + (j - i) = j
  BY <1>0
<1>5. j - i \in S
  BY <1>3, <1>4
<1>6. \E m \in Nat : Room[i] = m * Room[i + (j - i)]
  BY <1>5 DEF S
<1>. QED
  BY <1>4, <1>6

-----------------------------------------------------------------------------
\* What level k, counted from 1, of a branch holds, and f counting that up.
Bit(b, k) == IF k <= Len(b) /\ b[k] # None THEN Room[k - 1] ELSE 0
IsCount(f, b, n) == f = [k \in 0..n |-> IF k = 0 THEN 0 ELSE f[k - 1] + Bit(b, k)]
Counts(f, b) == f[0] = 0 /\ \A k \in 0..MaxDepth : f[k + 1] = f[k] + Bit(b, k + 1)

\* A count can be gone on with.
LEMMA CountGoesOn ==
  ASSUME NEW b, NEW n \in Nat, NEW f, IsCount(f, b, n)
  PROVE  \E g : IsCount(g, b, n + 1)
<1>. DEFINE g == [k \in 0..(n + 1) |-> IF k = n + 1 THEN f[n] + Bit(b, n + 1) ELSE f[k]]
<1>1. \A k \in 0..n : f[k] = IF k = 0 THEN 0 ELSE f[k - 1] + Bit(b, k)
  BY Zenon DEF IsCount
<1>2. g[n + 1] = f[n] + Bit(b, n + 1)
  OBVIOUS
<1>3. \A k \in 0..n : g[k] = f[k]
  OBVIOUS
<1>4. g = [k \in 0..(n + 1) |-> g[k]]
  OBVIOUS
<1>. HIDE DEF g
<1>5. ASSUME NEW k \in 0..(n + 1)
      PROVE  g[k] = IF k = 0 THEN 0 ELSE g[k - 1] + Bit(b, k)
  <2>1. CASE k = n + 1
    <3>1. k # 0 /\ k - 1 = n /\ n \in 0..n
      BY <2>1
    <3>. QED
      BY <1>2, <1>3, <2>1, <3>1
  <2>2. CASE k # n + 1
    <3>1. k \in 0..n /\ (k # 0 => k - 1 \in 0..n)
      BY <2>2
    <3>. QED
      BY <1>1, <1>3, <3>1
  <2>. QED
    BY <2>1, <2>2
<1>6. IsCount(g, b, n + 1)
  BY <1>4, <1>5 DEF IsCount
<1>. QED
  BY <1>6

\* Every branch can be counted.
LEMMA CountExists ==
  ASSUME NEW b
  PROVE  \E f : IsCount(f, b, MaxDepth + 1)
<1>. DEFINE S == {k \in 0..(MaxDepth + 1) : \E f : IsCount(f, b, k)}
<1>0. MaxDepth \in Nat /\ MaxDepth + 1 \in Nat
  BY Limit
<1>1. 0 \in S
  <2>. DEFINE f == [k \in 0..0 |-> 0]
  <2>1. \A k \in 0..0 : k = 0
    OBVIOUS
  <2>2. f = [k \in 0..0 |-> IF k = 0 THEN 0 ELSE f[k - 1] + Bit(b, k)]
    BY <2>1
  <2>. HIDE DEF f
  <2>3. IsCount(f, b, 0) /\ 0 \in 0..(MaxDepth + 1)
    BY <2>2, <1>0 DEF IsCount
  <2>. QED
    BY <2>3
<1>2. ASSUME NEW k \in 0..((MaxDepth + 1) - 1), k \in S PROVE k + 1 \in S
  <2>1. \E f : IsCount(f, b, k)
    BY <1>2
  <2>2. k \in Nat /\ k + 1 \in 0..(MaxDepth + 1)
    BY <1>0
  <2>3. \E g : IsCount(g, b, k + 1)
    BY <2>1, <2>2, CountGoesOn
  <2>. QED
    BY <2>2, <2>3
<1>. HIDE DEF S
<1>3. \A k \in 0..(MaxDepth + 1) : k \in S
  BY <1>0, <1>1, <1>2, CountUp
<1>4. MaxDepth + 1 \in S
  BY <1>0, <1>3
<1>. QED
  BY <1>4 DEF S

\* FilledTo is the count of the branch.
LEMMA FilledCounts == Counts(FilledTo, branch)
<1>1. \E f : IsCount(f, branch, MaxDepth + 1)
  BY CountExists
<1>2. IsCount(FilledTo, branch, MaxDepth + 1)
  BY <1>1 DEF IsCount, FilledTo, Bit
<1>3. \A k \in 0..(MaxDepth + 1) :
        FilledTo[k] = IF k = 0 THEN 0 ELSE FilledTo[k - 1] + Bit(branch, k)
  BY <1>2, Zenon DEF IsCount
<1>4. 0 \in 0..(MaxDepth + 1)
  BY Limit
<1>5. \A k \in 0..MaxDepth : k + 1 \in 0..(MaxDepth + 1) /\ k + 1 # 0 /\ (k + 1) - 1 = k
  BY Limit
<1>. QED
  BY <1>3, <1>4, <1>5 DEF Counts

\* What a level holds is nothing or its room.
LEMMA BitType ==
  ASSUME NEW b, NEW k \in 1..(MaxDepth + 1)
  PROVE  Bit(b, k) \in {0, Room[k - 1]} /\ Room[k - 1] \in Nat \ {0}
<1>1. k - 1 \in 0..MaxDepth
  BY Limit
<1>. QED
  BY <1>1, RoomDoubles DEF Bit

\* Counts are numbers, and multiples of the last room that was counted.
LEMMA CountMultiple ==
  ASSUME NEW f, NEW b, Counts(f, b), NEW k \in 0..MaxDepth
  PROVE  \E m \in Nat : f[k + 1] = m * Room[k]
<1>. DEFINE S == {j \in 0..MaxDepth : \E m \in Nat : f[j + 1] = m * Room[j]}
<1>0. MaxDepth \in Nat
  BY Limit
<1>1. 0 \in S
  <2>1. 0 \in 0..MaxDepth /\ 0 + 1 \in 1..(MaxDepth + 1) /\ (0 + 1) - 1 = 0
    BY <1>0
  <2>2. Bit(b, 0 + 1) \in {0, Room[0]} /\ Room[0] \in Nat
    BY <2>1, BitType
  <2>3. f[0 + 1] = 0 + Bit(b, 0 + 1)
    BY <2>1 DEF Counts
  <2>4. f[0 + 1] = 0 * Room[0] \/ f[0 + 1] = 1 * Room[0]
    BY <2>2, <2>3
  <2>5. \E m \in Nat : f[0 + 1] = m * Room[0]
    BY <2>4
  <2>. QED
    BY <2>1, <2>5
<1>2. ASSUME NEW j \in 0..(MaxDepth - 1), j \in S PROVE j + 1 \in S
  <2>1. PICK m \in Nat : f[j + 1] = m * Room[j]
    BY <1>2
  <2>2. /\ j + 1 \in 0..MaxDepth /\ (j + 1) + 1 \in 1..(MaxDepth + 1)
        /\ ((j + 1) + 1) - 1 = j + 1
    BY <1>0
  <2>3. Room[j] = 2 * Room[j + 1]
    BY RoomDoubles
  <2>4. Bit(b, (j + 1) + 1) \in {0, Room[j + 1]} /\ Room[j + 1] \in Nat
    BY <2>2, BitType
  <2>5. f[(j + 1) + 1] = f[j + 1] + Bit(b, (j + 1) + 1)
    BY <2>2 DEF Counts
  <2>6. \A r \in Nat : /\ m * (2 * r) + 0 = (2 * m) * r /\ m * (2 * r) + r = (2 * m + 1) * r
                       /\ 2 * m \in Nat /\ 2 * m + 1 \in Nat
    OBVIOUS
  <2>7. f[(j + 1) + 1] = (2 * m) * Room[j + 1] \/ f[(j + 1) + 1] = (2 * m + 1) * Room[j + 1]
    BY <2>1, <2>3, <2>4, <2>5, <2>6
  <2>8. \E n \in Nat : f[(j + 1) + 1] = n * Room[j + 1]
    BY <2>6, <2>7
  <2>. QED
    BY <2>2, <2>8
<1>. HIDE DEF S
<1>3. \A j \in 0..MaxDepth : j \in S
  BY <1>0, <1>1, <1>2, CountUp
<1>4. k \in S
  BY <1>3
<1>. QED
  BY <1>4 DEF S

LEMMA CountType ==
  ASSUME NEW f, NEW b, Counts(f, b), NEW k \in 0..(MaxDepth + 1)
  PROVE  f[k] \in Nat
<1>1. CASE k = 0
  BY <1>1 DEF Counts
<1>2. CASE k # 0
  <2>1. k - 1 \in 0..MaxDepth /\ (k - 1) + 1 = k
    BY <1>2, Limit
  <2>2. PICK m \in Nat : f[(k - 1) + 1] = m * Room[k - 1]
    BY <2>1, CountMultiple
  <2>3. Room[k - 1] \in Nat
    BY <2>1, RoomDoubles
  <2>4. m * Room[k - 1] \in Nat
    BY <2>2, <2>3
  <2>. QED
    BY <2>1, <2>2, <2>4
<1>. QED
  BY <1>1, <1>2

\* From one level to a deeper one the count grows by less than the room of the first.
LEMMA CountGap ==
  ASSUME NEW f, NEW b, Counts(f, b), NEW i \in 0..MaxDepth, NEW j \in i..MaxDepth
  PROVE  /\ f[i + 1] <= f[j + 1]
         /\ f[j + 1] <= (f[i + 1] + Room[i]) - Room[j]
<1>. DEFINE S == {k \in 0..(MaxDepth - i) : /\ f[i + 1] <= f[(i + k) + 1]
                                            /\ f[(i + k) + 1] <= (f[i + 1] + Room[i]) - Room[i + k]}
<1>0. MaxDepth \in Nat /\ MaxDepth - i \in Nat /\ i + 1 \in 0..(MaxDepth + 1)
  BY Limit
<1>1. f[i + 1] \in Nat /\ Room[i] \in Nat
  BY <1>0, CountType, RoomDoubles
<1>2. 0 \in S
  <2>1. i + 0 = i /\ 0 \in 0..(MaxDepth - i)
    BY <1>0
  <2>2. f[i + 1] <= f[i + 1] /\ f[i + 1] <= (f[i + 1] + Room[i]) - Room[i]
    BY <1>1
  <2>. QED
    BY <2>1, <2>2
<1>3. ASSUME NEW k \in 0..((MaxDepth - i) - 1), k \in S PROVE k + 1 \in S
  <2>1. /\ i + k \in 0..(MaxDepth - 1) /\ (i + k) + 1 = i + (k + 1) /\ i + (k + 1) \in 0..MaxDepth
        /\ k + 1 \in 0..(MaxDepth - i) /\ (i + (k + 1)) + 1 \in 1..(MaxDepth + 1)
        /\ ((i + (k + 1)) + 1) - 1 = i + (k + 1) /\ (i + k) + 1 \in 0..(MaxDepth + 1)
    BY <1>0
  <2>2. f[i + 1] <= f[(i + k) + 1] /\ f[(i + k) + 1] <= (f[i + 1] + Room[i]) - Room[i + k]
    BY <1>3
  <2>3. Room[i + k] = 2 * Room[i + (k + 1)]
    BY <2>1, RoomDoubles
  <2>4. /\ Bit(b, (i + (k + 1)) + 1) \in {0, Room[i + (k + 1)]}
        /\ Room[i + (k + 1)] \in Nat
    BY <2>1, BitType
  <2>5. f[(i + (k + 1)) + 1] = f[i + (k + 1)] + Bit(b, (i + (k + 1)) + 1)
    BY <2>1 DEF Counts
  <2>6. f[(i + k) + 1] \in Nat /\ f[(i + k) + 1] = f[i + (k + 1)]
    BY <2>1, CountType
  <2>7. /\ f[i + 1] <= f[(i + (k + 1)) + 1]
        /\ f[(i + (k + 1)) + 1] <= (f[i + 1] + Room[i]) - Room[i + (k + 1)]
    BY ONLY <1>1, <2>2, <2>3, <2>4, <2>5, <2>6
  <2>. QED
    BY <2>1, <2>7
<1>. HIDE DEF S
<1>4. \A k \in 0..(MaxDepth - i) : k \in S
  BY <1>0, <1>2, <1>3, CountUp
<1>5. j - i \in 0..(MaxDepth - i) /\ i + (j - i) = j
  BY <1>0
<1>6. j - i \in S
  BY <1>4, <1>5
<1>7. /\ f[i + 1] <= f[(i + (j - i)) + 1]
      /\ f[(i + (j - i)) + 1] <= (f[i + 1] + Room[i]) - Room[i + (j - i)]
  BY <1>6 DEF S
<1>. QED
  BY <1>5, <1>7

\* Counts of branches whose levels hold the same, between two levels, grow by the same.
LEMMA CountSame ==
  ASSUME NEW f, NEW b, Counts(f, b), NEW g, NEW c, Counts(g, c),
         NEW i \in 0..(MaxDepth + 1), NEW j \in i..(MaxDepth + 1),
         \A k \in (i + 1)..j : Bit(b, k) = Bit(c, k)
  PROVE  f[j] - f[i] = g[j] - g[i]
<1>. DEFINE S == {k \in 0..(j - i) : f[i + k] - f[i] = g[i + k] - g[i]}
<1>0. MaxDepth \in Nat /\ j - i \in Nat
  BY Limit
<1>1. 0 \in S
  <2>1. f[i] \in Nat /\ g[i] \in Nat /\ i + 0 = i /\ 0 \in 0..(j - i)
    BY <1>0, CountType
  <2>. QED
    BY <2>1
<1>2. ASSUME NEW k \in 0..((j - i) - 1), k \in S PROVE k + 1 \in S
  <2>1. /\ i + k \in 0..MaxDepth /\ (i + k) + 1 = i + (k + 1) /\ i + (k + 1) \in (i + 1)..j
        /\ k + 1 \in 0..(j - i) /\ i + k \in 0..(MaxDepth + 1)
        /\ (i + k) + 1 \in 1..(MaxDepth + 1)
    BY <1>0
  <2>2. /\ f[(i + k) + 1] = f[i + k] + Bit(b, (i + k) + 1)
        /\ g[(i + k) + 1] = g[i + k] + Bit(c, (i + k) + 1)
    BY <2>1 DEF Counts
  <2>3. Bit(b, (i + k) + 1) = Bit(c, (i + k) + 1)
    BY <2>1
  <2>4. Bit(c, (i + k) + 1) \in Nat
    BY <2>1, BitType
  <2>5. f[i] \in Nat /\ g[i] \in Nat /\ f[i + k] \in Nat /\ g[i + k] \in Nat
    BY <2>1, CountType
  <2>6. f[i + k] - f[i] = g[i + k] - g[i]
    BY <1>2
  <2>7. f[(i + k) + 1] - f[i] = g[(i + k) + 1] - g[i]
    BY ONLY <2>2, <2>3, <2>4, <2>5, <2>6
  <2>. QED
    BY <2>1, <2>7
<1>. HIDE DEF S
<1>3. \A k \in 0..(j - i) : k \in S
  BY <1>0, <1>1, <1>2, CountUp
<1>4. j - i \in 0..(j - i) /\ i + (j - i) = j
  BY <1>0
<1>5. j - i \in S
  BY <1>3, <1>4
<1>6. f[i + (j - i)] - f[i] = g[i + (j - i)] - g[i]
  BY <1>5 DEF S
<1>. QED
  BY <1>4, <1>6

\* Below the last level there is nothing to count.
LEMMA CountEnds ==
  ASSUME NEW f, NEW b, Counts(f, b), NEW n \in 0..(MaxDepth + 1), Len(b) <= n, Len(b) \in Nat
  PROVE  f[MaxDepth + 1] = f[n]
<1>. DEFINE none == [k \in 0..(MaxDepth + 1) |-> 0]
<1>0. MaxDepth \in Nat
  BY Limit
<1>1. \A k \in (n + 1)..(MaxDepth + 1) : Bit(b, k) = 0
  BY <1>0 DEF Bit
<1>2. \A k : Bit(<<>>, k) = 0 \/ k <= 0
  BY DEF Bit
<1>3. Counts(none, <<>>)
  <2>1. none[0] = 0 /\ \A k \in 0..MaxDepth : none[k + 1] = 0 /\ none[k] = 0
    BY <1>0
  <2>2. \A k \in 0..MaxDepth : Bit(<<>>, k + 1) = 0
    BY <1>0, <1>2
  <2>. HIDE DEF none
  <2>. QED
    BY <2>1, <2>2 DEF Counts
<1>4. \A k \in (n + 1)..(MaxDepth + 1) : Bit(b, k) = Bit(<<>>, k)
  BY <1>0, <1>1, <1>2
<1>5. none[MaxDepth + 1] = 0 /\ none[n] = 0 /\ MaxDepth + 1 \in n..(MaxDepth + 1)
  BY <1>0
<1>. HIDE DEF none
<1>6. f[MaxDepth + 1] - f[n] = none[MaxDepth + 1] - none[n]
  BY <1>3, <1>4, <1>5, CountSame
<1>7. f[MaxDepth + 1] \in Nat /\ f[n] \in Nat
  BY <1>0, CountType
<1>. QED
  BY <1>5, <1>6, <1>7

\* A node more at a level d below which there is nothing adds the room of d.
LEMMA CountOneMore ==
  ASSUME NEW f, NEW b, Counts(f, b), NEW g, NEW c, Counts(g, c), NEW d \in 0..MaxDepth,
         Len(b) \in Nat, Len(b) <= d + 1, Len(c) = d + 1,
         Bit(b, d + 1) = 0, c[d + 1] # None,
         \A k \in 1..d : Bit(c, k) = Bit(b, k)
  PROVE  g[MaxDepth + 1] = f[MaxDepth + 1] + Room[d]
<1>0. MaxDepth \in Nat /\ d + 1 \in 1..(MaxDepth + 1) /\ (d + 1) - 1 = d
  BY Limit
<1>1. f[MaxDepth + 1] = f[d + 1] /\ g[MaxDepth + 1] = g[d + 1]
  BY <1>0, CountEnds
<1>2. g[d] - g[0] = f[d] - f[0]
  <2>1. 0 \in 0..(MaxDepth + 1) /\ d \in 0..(MaxDepth + 1)
    BY <1>0
  <2>2. \A k \in (0 + 1)..d : Bit(c, k) = Bit(b, k)
    OBVIOUS
  <2>. QED
    BY <2>1, <2>2, CountSame
<1>3. f[0] = 0 /\ g[0] = 0 /\ f[d] \in Nat /\ g[d] \in Nat
  <2>1. d \in 0..(MaxDepth + 1)
    BY <1>0
  <2>. QED
    BY <2>1, CountType DEF Counts
<1>4. f[d + 1] = f[d] + Bit(b, d + 1) /\ g[d + 1] = g[d] + Bit(c, d + 1)
  BY DEF Counts
<1>5. Bit(c, d + 1) = Room[d]
  BY <1>0 DEF Bit
<1>6. Room[d] \in Nat
  BY RoomDoubles
<1>. QED
  BY <1>1, <1>2, <1>3, <1>4, <1>5, <1>6

\* An empty branch counts nothing, and one with a root alone a whole tree.
LEMMA CountSmall ==
  ASSUME NEW f, NEW b, Counts(f, b)
  PROVE  /\ Len(b) = 0 => f[MaxDepth + 1] = 0
         /\ Len(b) = 1 /\ b[1] # None => f[MaxDepth + 1] = Room[0]
<1>0. 0 \in 0..(MaxDepth + 1) /\ 1 \in 0..(MaxDepth + 1) /\ 0 \in 0..MaxDepth
  BY Limit
<1>1. f[0] = 0 /\ f[0 + 1] = f[0] + Bit(b, 0 + 1)
  BY <1>0 DEF Counts
<1>2. ASSUME Len(b) = 0 PROVE f[MaxDepth + 1] = 0
  BY <1>0, <1>1, <1>2, CountEnds
<1>3. ASSUME Len(b) = 1, b[1] # None PROVE f[MaxDepth + 1] = Room[0]
  <2>1. f[MaxDepth + 1] = f[1]
    <3>1. Len(b) \in Nat /\ Len(b) <= 1
      BY <1>3
    <3>. QED
      BY <1>0, <3>1, CountEnds
  <2>2. Bit(b, 1) = Room[0]
    BY <1>3 DEF Bit
  <2>3. Room[0] \in Nat
    BY <1>0, RoomDoubles
  <2>. QED
    BY <1>1, <2>1, <2>2, <2>3
<1>. QED
  BY <1>2, <1>3

\* A branch that ends in a node below the root is not worth a whole tree.
LEMMA CountNotWhole ==
  ASSUME NEW f, NEW b, Counts(f, b), Len(b) \in 2..(MaxDepth + 1), b[Len(b)] # None
  PROVE  f[MaxDepth + 1] # Room[0]
<1>. DEFINE l == Len(b) - 2
<1>0. /\ MaxDepth \in Nat /\ l \in 0..(MaxDepth - 1) /\ (l + 1) + 1 = Len(b)
      /\ l \in 0..MaxDepth /\ l + 1 \in 0..MaxDepth /\ 0 \in 0..MaxDepth
      /\ Len(b) - 1 = l + 1
  BY Limit
<1>1. Bit(b, Len(b)) = Room[l + 1]
  BY <1>0 DEF Bit
<1>. HIDE DEF l
<1>2. f[MaxDepth + 1] = f[Len(b)]
  BY <1>0, CountEnds
<1>3. f[Len(b)] = f[l + 1] + Room[l + 1]
  BY <1>0, <1>1 DEF Counts
<1>4. f[0 + 1] <= f[l + 1] /\ f[l + 1] <= (f[0 + 1] + Room[0]) - Room[l]
  BY <1>0, CountGap
<1>5. f[0 + 1] = 0 + Bit(b, 0 + 1) /\ Bit(b, 0 + 1) \in {0, Room[0]}
  <2>1. 0 + 1 \in 1..(MaxDepth + 1) /\ (0 + 1) - 1 = 0
    BY <1>0
  <2>. QED
    BY <1>0, <2>1, BitType DEF Counts
<1>6. /\ Room[l] = 2 * Room[l + 1] /\ Room[l + 1] \in Nat \ {0} /\ Room[0] \in Nat
      /\ f[l + 1] \in Nat
  BY <1>0, RoomDoubles, CountType
<1>. QED
  BY ONLY <1>2, <1>3, <1>4, <1>5, <1>6

\* The count never makes a second whole tree.
LEMMA CountBelow ==
  ASSUME NEW f, NEW b, Counts(f, b)
  PROVE  f[MaxDepth + 1] < 2 * Room[0]
<1>0. 0 \in 0..MaxDepth /\ MaxDepth \in 0..MaxDepth
  BY Limit
<1>1. f[MaxDepth + 1] <= (f[0 + 1] + Room[0]) - Room[MaxDepth]
  BY <1>0, CountGap
<1>2. f[0 + 1] = 0 + Bit(b, 0 + 1) /\ Bit(b, 0 + 1) \in {0, Room[0]}
  <2>1. 0 + 1 \in 1..(MaxDepth + 1) /\ (0 + 1) - 1 = 0
    BY <1>0
  <2>. QED
    BY <1>0, <2>1, BitType DEF Counts
<1>3. Room[MaxDepth] = 1 /\ Room[0] \in Nat
  BY <1>0, RoomDoubles
<1>4. f[MaxDepth + 1] \in Nat
  <2>1. MaxDepth + 1 \in 0..(MaxDepth + 1)
    BY Limit
  <2>. QED
    BY <2>1, CountType
<1>. QED
  BY <1>1, <1>2, <1>3, <1>4

\* A leaf at d comes in order if and only if the branch does not reach below its level.
LEMMA CountInOrder ==
  ASSUME NEW f, NEW b, Counts(f, b), Len(b) \in 0..(MaxDepth + 1), NEW d \in 0..MaxDepth
  PROVE  /\ Len(b) <= d + 1 => f[MaxDepth + 1] % Room[d] = 0
         /\ Len(b) > d + 1 /\ b[Len(b)] # None => f[MaxDepth + 1] % Room[d] # 0
<1>0. MaxDepth \in Nat /\ d + 1 \in 0..(MaxDepth + 1)
  BY Limit
<1>1. PICK m \in Nat : f[d + 1] = m * Room[d]
  BY CountMultiple
<1>2. Room[d] \in Nat \ {0}
  BY RoomDoubles
<1>3. \A q \in Nat, r \in Nat \ {0} : (q * r) % r = 0
  OBVIOUS
<1>4. \A q \in Nat, r \in Nat \ {0} : \A x \in 0..(r - 1) : (q * r + x) % r = x
  OBVIOUS
<1>5. ASSUME Len(b) <= d + 1 PROVE f[MaxDepth + 1] % Room[d] = 0
  <2>1. f[MaxDepth + 1] = f[d + 1]
    BY <1>0, <1>5, CountEnds
  <2>. QED
    BY <1>1, <1>2, <1>3, <2>1
<1>6. ASSUME Len(b) > d + 1, b[Len(b)] # None PROVE f[MaxDepth + 1] % Room[d] # 0
  <2>. DEFINE l == Len(b) - 2
  <2>1. /\ l \in d..(MaxDepth - 1) /\ (l + 1) + 1 = Len(b) /\ l \in 0..MaxDepth /\ l + 1 \in 0..MaxDepth
        /\ Len(b) - 1 = l + 1 /\ l \in d..MaxDepth /\ l \in 0..(MaxDepth - 1)
    BY <1>0, <1>6
  <2>2. Bit(b, Len(b)) = Room[l + 1]
    BY <1>0, <1>6, <2>1 DEF Bit
  <2>. HIDE DEF l
  <2>3. f[MaxDepth + 1] = f[Len(b)] /\ f[Len(b)] = f[l + 1] + Room[l + 1]
    BY <1>0, <2>1, <2>2, CountEnds DEF Counts
  <2>4. f[d + 1] <= f[l + 1] /\ f[l + 1] <= (f[d + 1] + Room[d]) - Room[l]
    BY <2>1, CountGap
  <2>5. Room[l] = 2 * Room[l + 1] /\ Room[l + 1] \in Nat \ {0} /\ f[l + 1] \in Nat /\ f[d + 1] \in Nat
    <3>1. l + 1 \in 0..(MaxDepth + 1)
      BY <1>0, <2>1
    <3>. QED
      BY <1>0, <2>1, <3>1, RoomDoubles, CountType
  <2>. DEFINE x == f[MaxDepth + 1] - f[d + 1]
  <2>6. x \in 1..(Room[d] - 1) /\ f[MaxDepth + 1] = f[d + 1] + x
    <3>1. f[MaxDepth + 1] = f[l + 1] + Room[l + 1]
      BY <2>3
    <3>. QED
      BY ONLY <1>2, <3>1, <2>4, <2>5
  <2>. HIDE DEF x
  <2>7. x \in 0..(Room[d] - 1) /\ x # 0
    BY <1>2, <2>6
  <2>8. (m * Room[d] + x) % Room[d] = x
    BY ONLY <1>1, <1>2, <1>4, <2>7
  <2>. QED
    BY <1>1, <2>6, <2>7, <2>8
<1>. QED
  BY <1>5, <1>6

-----------------------------------------------------------------------------
(* Every step of the builder is one of TapTreeSpace, or none. *)

\* Outside of insert nothing is asked for; on the way up the room in front of the leaf
\* stays what it was on entry, a multiple of the leaf's.
AskedInv ==
  /\ phase \in Phases \ {"entry", "loop", "gone"} => asked = -1
  /\ phase = "entry" => asked = depth /\ (branch # <<>> => branch[Len(branch)] # None)
  /\ phase = "loop" => /\ asked \in 0..MaxDepth
                       /\ ((Filled + Room[depth]) - Room[asked]) % Room[asked] = 0
  /\ phase = "huffman" => branch = <<>>

RoomInv == IInv /\ AskedInv

\* What a step does to the room, and to what the builder says of it.
Refines == Space!Next \/ UNCHANGED Space!spaceVars

LEMMA SameRoom == Space!Room = Room /\ Space!Tree = Room[0]
<1>1. Space!Room = Room
  BY DEF Space!Room, Room
<1>. QED
  BY <1>1 DEF Space!Tree

LEMMA FilledCountsNext == Counts(FilledTo', branch')
<1>1. (Counts(FilledTo, branch))'
  BY FilledCounts, PTL
<1>. QED
  BY <1>1 DEF Counts, Bit

LEMMA FilledType == Filled \in Nat /\ Filled' \in Nat
<1>1. MaxDepth + 1 \in 0..(MaxDepth + 1)
  BY Limit
<1>. QED
  BY <1>1, CountType, FilledCounts, FilledCountsNext DEF Filled

\* The room taken depends on the branch alone.
LEMMA FilledStays == ASSUME branch' = branch PROVE Filled' = Filled
<1>1. Counts(FilledTo, branch) /\ Counts(FilledTo', branch)
  BY FilledCounts, FilledCountsNext
<1>2. 0 \in 0..(MaxDepth + 1) /\ MaxDepth + 1 \in 0..(MaxDepth + 1)
  BY Limit
<1>3. FilledTo'[MaxDepth + 1] - FilledTo'[0] = FilledTo[MaxDepth + 1] - FilledTo[0]
  BY <1>1, <1>2, CountSame
<1>4. FilledTo'[0] = 0 /\ FilledTo[0] = 0
  BY <1>1 DEF Counts
<1>. QED
  BY <1>3, <1>4, FilledType DEF Filled

\* What there is in a branch of no levels, and of a root alone.
LEMMA FilledSmall ==
  /\ branch = <<>> => Filled = 0
  /\ branch' = <<>> => Filled' = 0
  /\ Len(branch) = 1 /\ branch[1] # None => Filled = Room[0]
  /\ Len(branch') = 1 /\ branch'[1] # None => Filled' = Room[0]
<1>1. branch = <<>> => Len(branch) = 0
  OBVIOUS
<1>2. branch' = <<>> => Len(branch') = 0
  OBVIOUS
<1>. QED
  BY <1>1, <1>2, CountSmall, FilledCounts, FilledCountsNext DEF Filled

\* A call of insert asks for room.
LEMMA BeginRefines ==
  ASSUME RoomInv, NEW n, NEW d \in 0..(MaxDepth + 1), BeginInsert(n, d)
  PROVE  AskedInv' /\ Refines
<1>1. /\ phase = "ready" /\ phase' = "entry" /\ depth' = d /\ asked' = d
      /\ branch' = branch /\ asked = -1
  BY DEF BeginInsert, RoomInv, AskedInv, Phases
<1>0. branch # <<>> => branch[Len(branch)] # None
  BY <1>1 DEF RoomInv, IInv, Tidy
<1>2. Filled' = Filled
  BY <1>1, FilledStays
<1>3. AskedInv'
  BY <1>0, <1>1 DEF AskedInv
<1>4. Space!Ask(d)
  BY <1>1, <1>2 DEF Space!Ask
<1>. QED
  BY <1>3, <1>4 DEF Refines, Space!Next

\* The checks refuse a leaf only if it does not fit.
LEMMA ChecksRefine == ASSUME RoomInv, InsertChecks PROVE AskedInv' /\ Refines
<1>1. /\ phase = "entry" /\ UNCHANGED <<branch, node, depth, asked>>
      /\ phase' = IF depth > MaxDepth \/ depth + 1 < Len(branch) THEN "gone" ELSE "loop"
      /\ asked = depth /\ depth \in 0..(MaxDepth + 1)
  BY DEF InsertChecks, tree, RoomInv, AskedInv, IInv, Typed
<1>0. branch # <<>> => branch[Len(branch)] # None
  BY <1>1 DEF RoomInv, AskedInv
<1>2. Filled' = Filled /\ Filled \in Nat
  BY <1>1, FilledStays, FilledType
<1>3. Len(branch) \in 0..(MaxDepth + 1)
  BY LenProperties, Limit DEF RoomInv, IInv, BranchOK
<1>4. CASE phase' = "gone"
  <2>1. ~Space!Fits(asked)
    <3>1. CASE depth > MaxDepth
      BY <1>1, <3>1, Limit DEF Space!Fits
    <3>2. CASE ~(depth > MaxDepth)
      <4>1. depth \in 0..MaxDepth /\ Len(branch) > depth + 1
        BY <1>1, <1>3, <1>4, <3>2, Limit
      <4>2. branch # <<>>
        <5>. SUFFICES ASSUME branch = <<>> PROVE FALSE
          OBVIOUS
        <5>1. Len(branch) = 0
          OBVIOUS
        <5>. QED
          BY <4>1, <5>1
      <4>3. Filled % Room[depth] # 0
        BY <1>0, <1>3, <4>1, <4>2, CountInOrder, FilledCounts DEF Filled
      <4>. QED
        BY <1>1, <4>3, SameRoom DEF Space!Fits
    <3>. QED
      BY <3>1, <3>2
  <2>2. Space!Reject
    BY <1>1, <1>4, <2>1, Limit DEF Space!Reject
  <2>3. AskedInv'
    BY <1>4 DEF AskedInv
  <2>. QED
    BY <2>2, <2>3 DEF Refines, Space!Next
<1>5. CASE phase' # "gone"
  <2>1. phase' = "loop" /\ depth \in 0..MaxDepth /\ Len(branch) <= depth + 1
    BY <1>1, <1>3, <1>5, Limit
  <2>2. Filled % Room[depth] = 0 /\ Room[depth] \in Nat
    BY <1>3, <2>1, CountInOrder, FilledCounts, RoomDoubles DEF Filled
  <2>3. (Filled + Room[depth]) - Room[asked] = Filled
    BY <1>1, <1>2, <2>2
  <2>4. AskedInv'
    BY <1>1, <1>2, <2>1, <2>2, <2>3 DEF AskedInv
  <2>5. UNCHANGED Space!spaceVars
    BY <1>1, <1>2, <2>1, <2>3 DEF Space!spaceVars
  <2>. QED
    BY <2>4, <2>5 DEF Refines
<1>. QED
  BY <1>4, <1>5

\* A turn of the loop: two nodes of a level are worth one of the level above.
LEMMA UpRefines == ASSUME RoomInv, CombineUp PROVE AskedInv' /\ Refines
<1>1. /\ phase = "loop" /\ phase' = "loop" /\ depth \in Nat \ {0} /\ depth' = depth - 1
      /\ Len(branch) = depth + 1 /\ branch[depth + 1] # None
      /\ Len(branch') = depth /\ \A i \in 1..depth : branch'[i] = branch[i]
  BY UpEffect DEF RoomInv
<1>2. asked' = asked /\ asked \in 0..MaxDepth
  BY <1>1 DEF CombineUp, RoomInv, AskedInv
<1>3. depth \in 1..MaxDepth /\ depth - 1 \in 0..(MaxDepth - 1) /\ (depth - 1) + 1 = depth
  BY <1>1, Limit DEF RoomInv, IInv, Underway
<1>4. Room[depth - 1] = 2 * Room[depth] /\ Room[depth] \in Nat /\ Room[asked] \in Nat
  BY <1>2, <1>3, RoomDoubles
<1>5. Filled = Filled' + Room[depth]
  <2>1. /\ Counts(FilledTo', branch') /\ Counts(FilledTo, branch) /\ depth \in 0..MaxDepth
        /\ Len(branch') \in Nat /\ Len(branch') <= depth + 1
    BY <1>1, <1>3, FilledCounts, FilledCountsNext
  <2>2. Bit(branch', depth + 1) = 0
    BY <1>1 DEF Bit
  <2>3. \A k \in 1..depth : Bit(branch, k) = Bit(branch', k)
    BY <1>1 DEF Bit
  <2>4. FilledTo[MaxDepth + 1] = FilledTo'[MaxDepth + 1] + Room[depth]
    BY <1>1, <2>1, <2>2, <2>3, CountOneMore
  <2>. QED
    BY <2>4 DEF Filled
<1>6. Filled' + Room[depth'] = Filled + Room[depth]
  BY <1>1, <1>4, <1>5, FilledType
<1>7. AskedInv'
  BY <1>1, <1>2, <1>6 DEF RoomInv, AskedInv
<1>8. UNCHANGED Space!spaceVars
  BY <1>1, <1>2, <1>6 DEF Space!spaceVars
<1>. QED
  BY <1>7, <1>8 DEF Refines

\* The combination fails only at the root, where the leaf makes a second whole tree.
LEMMA FailRefines == ASSUME RoomInv, CombineFails PROVE AskedInv' /\ Refines
<1>1. /\ phase = "loop" /\ Sibling /\ phase' = "gone" /\ asked' = asked
      /\ depth = 0 \/ ~CanCombine(node, branch[Len(branch)][1])
  BY DEF CombineFails
<1>2. depth \in Nat
  BY DEF RoomInv, IInv, Typed
<1>3. depth = 0
  BY <1>1, <1>2, SiblingFits DEF RoomInv
<1>4. Filled = Room[0]
  BY <1>1, <1>3, FilledSmall DEF Sibling
<1>5. asked \in 0..MaxDepth /\ 0 \in 0..MaxDepth
  BY <1>1, Limit DEF RoomInv, AskedInv
<1>6. Room[asked] \in Nat /\ Room[0] \in Nat
  BY <1>5, RoomDoubles
<1>7. ((Filled + Room[depth]) - Room[asked]) + Room[asked] = 2 * Room[0]
  BY <1>3, <1>4, <1>6
<1>8. ~Space!Fits(asked)
  BY <1>1, <1>6, <1>7, SameRoom DEF Space!Fits
<1>9. Space!Reject
  BY <1>1, <1>5, <1>8 DEF Space!Reject
<1>10. AskedInv'
  BY <1>1 DEF AskedInv
<1>. QED
  BY <1>9, <1>10 DEF Refines, Space!Next

\* The end of insert takes the room that was asked for, and it fits.
LEMMA PlaceRefines == ASSUME RoomInv, Place PROVE AskedInv' /\ Refines
<1>1. /\ phase = "loop" /\ phase' = "ready" /\ depth \in Nat /\ Len(branch) \in Nat
      /\ Len(branch) <= depth + 1 /\ (Len(branch) = depth + 1 => branch[depth + 1] = None)
      /\ Len(branch') = depth + 1
      /\ \A i \in 1..(depth + 1) :
           branch'[i] = IF i = depth + 1 THEN <<node>>
                        ELSE IF i <= Len(branch) THEN branch[i] ELSE None
  BY PlaceEffect DEF RoomInv
<1>2. /\ asked' = -1 /\ asked \in 0..MaxDepth /\ depth \in 0..MaxDepth
      /\ ((Filled + Room[depth]) - Room[asked]) % Room[asked] = 0
  BY <1>1, Limit DEF Place, RoomInv, AskedInv, IInv, Underway
<1>3. Filled' = Filled + Room[depth]
  <2>1. Counts(FilledTo', branch') /\ Counts(FilledTo, branch)
    BY FilledCounts, FilledCountsNext
  <2>2. Bit(branch, depth + 1) = 0
    BY <1>1 DEF Bit
  <2>3. branch'[depth + 1] # None
    BY <1>1 DEF None
  <2>4. ASSUME NEW k \in 1..depth PROVE Bit(branch', k) = Bit(branch, k)
    <3>1. k \in 1..(depth + 1) /\ k # depth + 1 /\ k <= Len(branch')
      BY <1>1
    <3>2. branch'[k] = IF k <= Len(branch) THEN branch[k] ELSE None
      BY <1>1, <3>1
    <3>. QED
      BY <3>1, <3>2 DEF Bit
  <2>5. FilledTo'[MaxDepth + 1] = FilledTo[MaxDepth + 1] + Room[depth]
    BY <1>1, <1>2, <2>1, <2>2, <2>3, <2>4, CountOneMore
  <2>. QED
    BY <2>5 DEF Filled
<1>4. Filled' < 2 * Room[0]
  BY FilledCountsNext, CountBelow DEF Filled
<1>5. Room[asked] \in Nat /\ Room[depth] \in Nat
  BY <1>2, RoomDoubles
<1>6. ((Filled + Room[depth]) - Room[asked]) + Room[asked] = Filled'
  BY <1>3, <1>5, FilledType
<1>7. Space!Fits(asked)
  BY <1>1, <1>2, <1>4, <1>6, SameRoom DEF Space!Fits
<1>8. Space!Insert
  BY <1>1, <1>2, <1>6, <1>7, SameRoom DEF Space!Insert
<1>9. AskedInv'
  BY <1>1, <1>2 DEF AskedInv
<1>. QED
  BY <1>8, <1>9 DEF Refines, Space!Next

\* A Huffman tree takes the room of a whole tree, or there is none.
LEMMA HuffmanRefines ==
  ASSUME RoomInv,
         (\E ws \in WeightLists : HuffmanBegin(ws)) \/ HuffmanMerge \/ HuffmanEnd
  PROVE  AskedInv' /\ Refines
<1>1. CASE \E ws \in WeightLists : HuffmanBegin(ws)
  <2>1. /\ phase = "ready" /\ branch = <<>> /\ branch' = branch /\ asked' = asked
        /\ phase' \in {"gone", "huffman"}
    BY <1>1 DEF HuffmanBegin, tree
  <2>2. asked = -1 /\ Filled = 0 /\ Filled' = 0
    BY <2>1, FilledSmall DEF RoomInv, AskedInv, Phases
  <2>3. AskedInv'
    BY <2>1, <2>2 DEF AskedInv
  <2>4. CASE phase' = "gone"
    <3>1. Space!Whole
      BY <2>1, <2>2, <2>4 DEF Space!Whole
    <3>. QED
      BY <2>3, <3>1 DEF Refines, Space!Next
  <2>5. CASE phase' = "huffman"
    <3>1. UNCHANGED Space!spaceVars
      BY <2>1, <2>2, <2>5 DEF Space!spaceVars
    <3>. QED
      BY <2>3, <3>1 DEF Refines
  <2>. QED
    BY <2>1, <2>4, <2>5
<1>2. CASE HuffmanMerge
  <2>1. phase = "huffman" /\ branch' = branch /\ asked' = asked /\ phase' \in {"gone", "huffman"}
    BY <1>2 DEF HuffmanMerge, tree
  <2>2. branch = <<>> /\ asked = -1
    BY <2>1 DEF RoomInv, AskedInv, Phases
  <2>3. Filled = 0 /\ Filled' = 0
    BY <2>1, <2>2, FilledSmall
  <2>4. AskedInv'
    BY <2>1, <2>2 DEF AskedInv
  <2>5. CASE phase' = "gone"
    <3>1. Space!Whole
      BY <2>1, <2>2, <2>3, <2>5 DEF Space!Whole
    <3>. QED
      BY <2>4, <3>1 DEF Refines, Space!Next
  <2>6. CASE phase' = "huffman"
    <3>1. UNCHANGED Space!spaceVars
      BY <2>1, <2>2, <2>3, <2>6 DEF Space!spaceVars
    <3>. QED
      BY <2>4, <3>1 DEF Refines
  <2>. QED
    BY <2>1, <2>5, <2>6
<1>3. CASE HuffmanEnd
  <2>1. /\ phase = "huffman" /\ phase' = "ready" /\ asked' = asked
        /\ branch' = <<<<heap[1].node>>>>
    BY <1>3 DEF HuffmanEnd, Some
  <2>2. branch = <<>> /\ asked = -1
    BY <2>1 DEF RoomInv, AskedInv, Phases
  <2>3. Len(branch') = 1 /\ branch'[1] # None
    BY <2>1 DEF None
  <2>4. Filled = 0 /\ Filled' = Room[0]
    BY <2>2, <2>3, FilledSmall
  <2>5. Space!Whole
    BY <2>1, <2>2, <2>4, SameRoom DEF Space!Whole
  <2>6. AskedInv'
    BY <2>1, <2>2 DEF AskedInv
  <2>. QED
    BY <2>5, <2>6 DEF Refines, Space!Next
<1>. QED
  BY <1>1, <1>2, <1>3

\* The tree leaves the builder when it is whole.
LEMMA RootRefines ==
  ASSUME RoomInv, NEW to \in {"spend", "node", "tree"}, TakeRoot(to)
  PROVE  AskedInv' /\ Refines
<1>1. phase = "ready" /\ phase' = to /\ Len(branch) = 1 /\ branch[1] # None
  BY RootEffect DEF RoomInv
<1>2. asked' = asked /\ asked = -1
  BY <1>1 DEF TakeRoot, RoomInv, AskedInv, Phases
<1>3. Filled = Room[0]
  BY <1>1, FilledSmall
<1>4. Space!Finish
  BY <1>1, <1>2, <1>3, SameRoom DEF Space!Finish
<1>5. AskedInv'
  BY <1>1, <1>2 DEF AskedInv
<1>. QED
  BY <1>4, <1>5 DEF Refines, Space!Next

\* finalize without leaves gives a key without a tree.
LEMMA FinalizeRefines == ASSUME RoomInv, Finalize PROVE AskedInv' /\ Refines
<1>1. CASE TakeRoot("spend")
  BY <1>1, RootRefines
<1>2. CASE /\ phase = "ready" /\ branch = <<>> /\ original = <<>> /\ phase' = "keyspend"
           /\ UNCHANGED <<tree, asked, heap, given, script_map, serde>>
  <2>1. phase = "ready" /\ phase' = "keyspend" /\ branch = <<>> /\ branch' = <<>> /\ asked' = asked
    BY <1>2 DEF tree
  <2>2. asked = -1 /\ Filled = 0 /\ Filled' = 0
    BY <2>1, FilledSmall DEF RoomInv, AskedInv, Phases
  <2>3. Space!Finish
    BY <2>1, <2>2 DEF Space!Finish
  <2>4. AskedInv'
    BY <2>1, <2>2 DEF AskedInv
  <2>. QED
    BY <2>3, <2>4 DEF Refines, Space!Next
<1>. QED
  BY <1>1, <1>2 DEF Finalize

\* Serialization goes on with an empty builder.
LEMMA SerializeRefines == ASSUME RoomInv, Serialize PROVE AskedInv' /\ Refines
<1>1. phase \in {"node", "tree"} /\ phase' = "ready" /\ branch' = branch /\ asked' = asked
  BY DEF Serialize, tree
<1>2. asked = -1 /\ branch = <<>>
  BY <1>1 DEF RoomInv, AskedInv, IInv, Taken, Phases
<1>3. Filled' = 0
  BY <1>1, <1>2, FilledSmall
<1>4. Space!Restart
  BY <1>1, <1>2, <1>3, SameRoom DEF Space!Restart
<1>5. AskedInv'
  BY <1>1, <1>2 DEF AskedInv
<1>. QED
  BY <1>4, <1>5 DEF Refines, Space!Next

\* A serialized tree is restored if it is whole and given up otherwise.
LEMMA DeserializeRefines == ASSUME RoomInv, DeserializeEnd PROVE AskedInv' /\ Refines
<1>1. /\ phase = "ready" /\ branch' = branch /\ asked' = asked
      /\ phase' = IF Len(branch) = 1 THEN "restored" ELSE "gone"
  BY DEF DeserializeEnd
<1>2. asked = -1
  BY <1>1 DEF RoomInv, AskedInv, Phases
<1>3. AskedInv'
  BY <1>1, <1>2 DEF AskedInv
<1>4. branch # <<>> => branch[Len(branch)] # None
  BY <1>1 DEF RoomInv, IInv, Tidy
<1>5. Len(branch) \in 0..(MaxDepth + 1) /\ (Len(branch) = 0 <=> branch = <<>>)
  BY LenProperties, EmptySeq, Limit DEF RoomInv, IInv, BranchOK
<1>6. CASE Len(branch) = 1
  <2>1. Filled = Room[0]
    BY <1>4, <1>5, <1>6, FilledSmall
  <2>2. Space!Finish
    BY <1>1, <1>2, <1>6, <2>1, SameRoom DEF Space!Finish
  <2>. QED
    BY <1>3, <2>2 DEF Refines, Space!Next
<1>7. CASE Len(branch) # 1
  <2>1. Filled # Room[0]
    <3>1. CASE Len(branch) = 0
      <4>1. 0 \in 0..MaxDepth
        BY Limit
      <4>. QED
        BY <1>5, <3>1, <4>1, FilledSmall, RoomDoubles
    <3>2. CASE Len(branch) # 0
      <4>1. branch[Len(branch)] # None
        BY <1>4, <1>5, <3>2
      <4>2. Len(branch) \in 2..(MaxDepth + 1)
        <5>1. \A n \in 0..(MaxDepth + 1) : n # 0 /\ n # 1 => n \in 2..(MaxDepth + 1)
          BY Limit
        <5>2. Len(branch) \in 0..(MaxDepth + 1)
          BY <1>5
        <5>. QED
          BY ONLY <1>7, <3>2, <5>1, <5>2
      <4>. QED
        BY <4>1, <4>2, CountNotWhole, FilledCounts DEF Filled
    <3>. QED
      BY <3>1, <3>2
  <2>2. Space!Abandon
    BY <1>1, <1>2, <1>7, <2>1, SameRoom DEF Space!Abandon
  <2>. QED
    BY <1>3, <2>2 DEF Refines, Space!Next
<1>. QED
  BY <1>6, <1>7

\* A step that changes nothing here.
LEMMA StillRefines == ASSUME RoomInv, UNCHANGED vars PROVE AskedInv' /\ Refines
<1>1. UNCHANGED <<branch, phase, depth, asked>>
  BY DEF vars, tree
<1>2. Filled' = Filled
  BY <1>1, FilledStays
<1>3. AskedInv'
  BY <1>1, <1>2 DEF RoomInv, AskedInv
<1>4. UNCHANGED Space!spaceVars
  BY <1>1, <1>2 DEF Space!spaceVars
<1>. QED
  BY <1>3, <1>4 DEF Refines

LEMMA RoomStep == RoomInv /\ [Next]_vars => RoomInv' /\ Refines
<1>. SUFFICES ASSUME RoomInv, [Next]_vars PROVE RoomInv' /\ Refines
  OBVIOUS
<1>1. IInv'
  BY NextInv DEF RoomInv
<1>. SUFFICES AskedInv' /\ Refines
  BY <1>1 DEF RoomInv
<1>2. CASE UNCHANGED vars \/ NotFinalized \/ Finished
  BY <1>2, StillRefines DEF NotFinalized, Finished
<1>3. CASE \E d \in 0..(MaxDepth + 1), s \in Inserted : add_leaf(d, s) \/ add_hidden_node(d, s)
  BY <1>3, BeginRefines DEF add_leaf, add_hidden_node, Add
<1>4. CASE DeserializeLeaf
  <2>1. todo \in Seq(TodoItems) /\ todo # <<>>
    BY <1>4 DEF DeserializeLeaf, RoomInv, IInv, Typed
  <2>2. 1 \in 1..Len(todo)
    BY <2>1, EmptySeq, LenProperties
  <2>3. todo[1] \in TodoItems
    BY <2>1, <2>2, ElementOfSeq
  <2>4. todo[1].depth \in 0..(MaxDepth + 1)
    BY <2>3, Limit DEF TodoItems
  <2>. QED
    BY <1>4, <2>4, BeginRefines DEF DeserializeLeaf
<1>5. CASE InsertChecks \/ CombineUp \/ CombineFails \/ Place
  BY <1>5, ChecksRefine, UpRefines, FailRefines, PlaceRefines
<1>6. CASE (\E ws \in WeightLists : HuffmanBegin(ws)) \/ HuffmanMerge \/ HuffmanEnd
  BY <1>6, HuffmanRefines
<1>7. CASE Finalize \/ TryIntoNodeInfo \/ TryIntoTapTree
  BY <1>7, FinalizeRefines, RootRefines DEF TryIntoNodeInfo, TryIntoTapTree
<1>8. CASE Serialize \/ DeserializeEnd
  BY <1>8, SerializeRefines, DeserializeRefines
<1>. QED
  BY <1>2, <1>3, <1>4, <1>5, <1>6, <1>7, <1>8 DEF Next

LEMMA RoomStarts == Init => RoomInv /\ Space!Init
<1>. SUFFICES ASSUME Init PROVE RoomInv /\ Space!Init
  OBVIOUS
<1>1. IInv /\ phase = "ready" /\ asked = -1 /\ branch = <<>>
  BY InitInv DEF Init
<1>2. Filled = 0
  BY <1>1, FilledSmall
<1>3. Space!Init
  BY <1>1, <1>2 DEF Space!Init
<1>. QED
  BY <1>1, <1>3 DEF RoomInv, AskedInv

\* The builder accepts a leaf, and gives out its tree, by the room that the leaves so far
\* take up and nothing else: every step is one of TapTreeSpace, or none.
THEOREM BuilderCountsRoom == Spec => CountsRoom
<1>1. RoomInv /\ [Next]_vars => RoomInv' /\ [Space!Next]_Space!spaceVars
  BY RoomStep DEF Refines
<1>. QED
  BY <1>1, RoomStarts, PTL DEF Spec, CountsRoom, Space!Spec

=============================================================================
