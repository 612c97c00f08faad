--------------------------- MODULE TaprootBuilder ---------------------------
(***************************************************************************)
(* TaprootBuilder of bitcoin/src/taproot/mod.rs: leaves and hidden nodes   *)
(* given in depth-first order, or a Huffman tree over weights, become one  *)
(* root with a Merkle proof for every known leaf; from it the spend info   *)
(* and its control blocks, or a list of leaves and depths (serde) from     *)
(* which the same tree is built again.                                     *)
(*                                                                         *)
(* The builder is a value that every call takes and returns; an error of   *)
(* an insertion drops it.  A turn of the loops in insert and in            *)
(* with_huffman_tree is a step here.                                       *)
(***************************************************************************)
EXTENDS TapNode, FiniteSetsExt, BagsExt

CONSTANTS
  Inserted,       \* bound: the scripts that are inserted one by one
  MaxInserts,     \* bound: leaves and hidden nodes inserted
  WeightLists,    \* bound: inputs of with_huffman_tree, scripts 1, 2, ... in order
  MaxWeight       \* u32::MAX

ASSUME TaprootAssumption ==
  /\ Inserted \subseteq Scripts /\ MaxInserts \in Nat /\ MaxWeight \in Nat
  /\ \A w \in WeightLists : w \in Seq(1..MaxWeight) /\ DOMAIN w \subseteq Scripts

\* Option<NodeInfo>
None == <<>>
Some(n) == <<n>>

VARIABLES
  branch,         \* the builder: Option<NodeInfo> per level, the root first
  phase,
  node, depth,    \* the node on its way into the branch, or the finished root
  asked,          \* the depth that the running insertion was called with, or -1
  heap,           \* of with_huffman_tree: weights and nodes, in no order
  weights,        \* its input
  added,          \* the insertions so far: their scripts, depths and kinds
  script_map,     \* of TaprootSpendInfo
  todo, original  \* deserialization: what is left to insert, the tree serialized

tree == <<branch, node, depth>>
given == <<added, weights>>
serde == <<todo, original>>
vars == <<tree, phase, asked, heap, given, script_map, serde>>

Phases == {"ready", "entry", "loop", "huffman", "gone",
           "keyspend", "spend", "node", "tree", "restored"}

Init ==
  /\ branch = <<>> /\ phase = "ready"
  /\ node = new_hidden_node(<<>>) /\ depth = 0 /\ asked = -1
  /\ heap = <<>> /\ weights = <<>> /\ added = <<>>
  /\ script_map = <<>> /\ todo = <<>> /\ original = <<>>

-----------------------------------------------------------------------------
(* insert *)

BeginInsert(n, d) ==
  /\ phase = "ready"
  /\ phase' = "entry"
  /\ node' = n /\ depth' = d /\ asked' = d
  /\ UNCHANGED <<branch, heap, weights, script_map, original>>

Add(n, d, item) ==
  /\ original = <<>> /\ Len(added) < MaxInserts
  /\ BeginInsert(n, d)
  /\ added' = Append(added, item)
  /\ UNCHANGED todo

add_leaf(d, s) == Add(new_leaf(s), d, [script |-> s, depth |-> d, hidden |-> FALSE])
\* What is hidden may well be the leaf of a known script.
add_hidden_node(d, s) ==
  Add(new_hidden_node(script_hash(s)), d, [script |-> s, depth |-> d, hidden |-> TRUE])

Unmoved == UNCHANGED <<heap, given, script_map, serde>>

\* Mutant: the depth is left to the checks made on the Merkle proofs.
InsertChecks_NoDepth ==
  /\ phase = "entry"
  /\ phase' = IF depth + 1 < Len(branch) THEN "gone" ELSE "loop"
  /\ UNCHANGED <<tree, asked>> /\ Unmoved

\* Mutant: a leaf above the unfinished branches is let through.
InsertChecks_NoOrder ==
  /\ phase = "entry"
  /\ phase' = IF depth > MaxDepth THEN "gone" ELSE "loop"
  /\ UNCHANGED <<tree, asked>> /\ Unmoved

InsertChecks ==
  /\ phase = "entry"
  /\ phase' = IF depth > MaxDepth \/ depth + 1 < Len(branch) THEN "gone" ELSE "loop"
  /\ UNCHANGED <<tree, asked>> /\ Unmoved

Sibling == Len(branch) = depth + 1 /\ branch[Len(branch)] # None

\* The sibling on the left is there: the two become one node a level higher.
CombineUp ==
  /\ phase = "loop" /\ Sibling
  /\ depth > 0 /\ CanCombine(node, branch[Len(branch)][1])
  /\ node' = combine(node, branch[Len(branch)][1])
  /\ depth' = depth - 1
  /\ branch' = SubSeq(branch, 1, Len(branch) - 1)
  /\ UNCHANGED <<phase, asked>> /\ Unmoved

CombineFails ==
  /\ phase = "loop" /\ Sibling
  /\ depth = 0 \/ ~CanCombine(node, branch[Len(branch)][1])
  /\ phase' = "gone"
  /\ UNCHANGED <<tree, asked>> /\ Unmoved

\* Mutant: levels above the node are not reserved.
Place_NoExtension ==
  /\ phase = "loop" /\ ~Sibling
  /\ branch' = IF Len(branch) > depth
               THEN [branch EXCEPT ![depth + 1] = Some(node)]
               ELSE Append(branch, Some(node))
  /\ phase' = "ready" /\ asked' = -1
  /\ UNCHANGED <<node, depth>> /\ Unmoved

\* The branch is padded with None up to the node's level and the node put there.
Place ==
  /\ phase = "loop" /\ ~Sibling
  /\ branch' = [i \in 1..(IF Len(branch) > depth THEN Len(branch) ELSE depth + 1) |->
                  IF i = depth + 1 THEN Some(node)
                  ELSE IF i <= Len(branch) THEN branch[i] ELSE None]
  /\ phase' = "ready" /\ asked' = -1
  /\ UNCHANGED <<node, depth>> /\ Unmoved

-----------------------------------------------------------------------------
(* with_huffman_tree *)

HuffmanBegin(ws) ==
  /\ phase = "ready" /\ branch = <<>> /\ added = <<>> /\ original = <<>>
  /\ weights' = ws
  /\ IF ws = <<>>
       THEN phase' = "gone" /\ UNCHANGED heap
       ELSE /\ phase' = "huffman"
            /\ heap' = [i \in DOMAIN ws |-> [weight |-> ws[i], node |-> new_leaf(i)]]
  /\ UNCHANGED <<tree, asked, added, script_map, serde>>

saturating_add(a, b) == IF a + b > MaxWeight THEN MaxWeight ELSE a + b

\* Mutant: the first of a pair is any element of the heap.
Pops_AnyFirst == {p \in (DOMAIN heap) \X (DOMAIN heap) :
  p[1] # p[2] /\ \A k \in DOMAIN heap \ {p[1]} : heap[p[2]].weight <= heap[k].weight}

\* The pairs that two pops can give.  Equal weights come in the order of the nodes,
\* that is of hashes, which is as good as any.
Pops == {p \in (DOMAIN heap) \X (DOMAIN heap) :
  /\ p[1] # p[2]
  /\ \A k \in DOMAIN heap : heap[p[1]].weight <= heap[k].weight
  /\ \A k \in DOMAIN heap \ {p[1]} : heap[p[2]].weight <= heap[k].weight}

HuffmanMerge ==
  /\ phase = "huffman"
  /\ \E p \in Pops :
       LET a == heap[p[1]]
           b == heap[p[2]]
           rest == RemoveAt(RemoveAt(heap, IF p[1] > p[2] THEN p[1] ELSE p[2]),
                            IF p[1] > p[2] THEN p[2] ELSE p[1])
       IN  IF CanCombine(a.node, b.node)
             THEN /\ heap' = Append(rest, [weight |-> saturating_add(a.weight, b.weight),
                                           node |-> combine(a.node, b.node)])
                  /\ UNCHANGED phase
             ELSE phase' = "gone" /\ UNCHANGED heap
  /\ UNCHANGED <<tree, asked, given, script_map, serde>>

HuffmanEnd ==
  /\ phase = "huffman" /\ Len(heap) = 1
  /\ branch' = <<Some(heap[1].node)>>
  /\ phase' = "ready" /\ heap' = <<>>
  /\ UNCHANGED <<node, depth, asked, given, script_map, serde>>

-----------------------------------------------------------------------------
(* The way out of the builder. *)

has_hidden_nodes ==
  \E i \in DOMAIN branch : branch[i] # None /\ branch[i][1].has_hidden_nodes

\* TaprootSpendInfo::from_node_info: the proofs of every known script.
MapOf(n) ==
  [s \in {n.leaves[i].script : i \in DOMAIN n.leaves} |->
     {n.leaves[i].merkle_branch : i \in {j \in DOMAIN n.leaves : n.leaves[j].script = s}}]

TakeRoot(to) ==
  /\ phase = "ready" /\ original = <<>> /\ Len(branch) = 1
  /\ phase' = to
  /\ node' = branch[1][1] /\ branch' = <<>>
  /\ UNCHANGED <<depth, asked, heap, given, serde>>

\* Mutant: a later proof of a script replaces an earlier one.
Finalize_LastProof ==
  \/ /\ phase = "ready" /\ branch = <<>> /\ original = <<>>
     /\ phase' = "keyspend"
     /\ UNCHANGED <<tree, asked, heap, given, script_map, serde>>
  \/ /\ TakeRoot("spend")
     /\ script_map' = [s \in DOMAIN MapOf(branch[1][1]) |->
                         LET ls == branch[1][1].leaves
                         IN  {ls[Max({i \in DOMAIN ls : ls[i].script = s})].merkle_branch}]

\* finalize; a builder without leaves gives a key without scripts.
Finalize ==
  \/ /\ phase = "ready" /\ branch = <<>> /\ original = <<>>
     /\ phase' = "keyspend"
     /\ UNCHANGED <<tree, asked, heap, given, script_map, serde>>
  \/ /\ TakeRoot("spend")
     /\ script_map' = MapOf(branch[1][1])

\* try_into_node_info, and try_into_tap_tree if nothing is hidden.
TryIntoNodeInfo == TakeRoot("node") /\ UNCHANGED script_map
TryIntoTapTree == ~has_hidden_nodes /\ TakeRoot("tree") /\ UNCHANGED script_map

\* An unfinished tree: all three return the builder as it was.
NotFinalized ==
  phase = "ready" /\ original = <<>> /\ Len(branch) > 1 /\ UNCHANGED vars

\* The shortest proof of a script.
control_block(s) ==
  CHOOSE m \in script_map[s] : \A other \in script_map[s] : Len(m) <= Len(other)

-----------------------------------------------------------------------------
(* serde: the known leaves with their depths, inserted into a new builder. *)

Serialized(n) ==
  [i \in DOMAIN n.leaves |->
     [script |-> n.leaves[i].script, depth |-> Len(n.leaves[i].merkle_branch)]]

Serialize ==
  /\ phase \in {"node", "tree"} /\ original = <<>>
  /\ todo' = Serialized(node)
  /\ original' = <<node>>
  /\ phase' = "ready"
  /\ UNCHANGED <<tree, asked, heap, given, script_map>>

DeserializeLeaf ==
  /\ original # <<>> /\ todo # <<>>
  /\ BeginInsert(new_leaf(todo[1].script), todo[1].depth)
  /\ todo' = Tail(todo)
  /\ UNCHANGED added

DeserializeEnd ==
  /\ phase = "ready" /\ original # <<>> /\ todo = <<>>
  /\ IF Len(branch) = 1
       THEN phase' = "restored" /\ node' = branch[1][1]
       ELSE phase' = "gone" /\ UNCHANGED node
  /\ UNCHANGED <<branch, depth, asked, heap, given, script_map, serde>>

Finished == phase \in {"gone", "keyspend", "spend", "restored"} /\ UNCHANGED vars

Next ==
  \/ \E d \in 0..(MaxDepth + 1), s \in Inserted : add_leaf(d, s) \/ add_hidden_node(d, s)
  \/ InsertChecks \/ CombineUp \/ CombineFails \/ Place
  \/ (\E ws \in WeightLists : HuffmanBegin(ws)) \/ HuffmanMerge \/ HuffmanEnd
  \/ Finalize \/ TryIntoNodeInfo \/ TryIntoTapTree \/ NotFinalized
  \/ Serialize \/ DeserializeLeaf \/ DeserializeEnd
  \/ Finished

Spec == Init /\ [][Next]_vars

-----------------------------------------------------------------------------
\* Types, with the invariant that the struct's comment gives: no None at the end of the
\* branch between calls, and no more levels than a Merkle proof can have.
TaprootTypeOK ==
  /\ branch \in Seq(Seq(NodeInfos)) /\ \A i \in DOMAIN branch : Len(branch[i]) <= 1
  /\ Len(branch) <= MaxDepth + 1
  /\ phase = "ready" /\ branch # <<>> => branch[Len(branch)] # None
  /\ node \in NodeInfos /\ depth \in 0..(MaxDepth + 1)
  /\ phase \in Phases

\* Once insert has checked the depth, no proof outgrows its limit on the way up: the
\* error of combine never reaches a caller of insert.
CombineNeverFails ==
  phase = "loop" /\ Sibling /\ depth > 0 => CanCombine(node, branch[Len(branch)][1])

\* Between calls the branch holds every script that was added, at the depth it was added
\* at, and knows whether something is hidden.
NothingIsLost ==
  phase = "ready" /\ weights = <<>> /\ original = <<>> =>
    LET Held(i) == IF branch[i] = None THEN <<>>
                   ELSE [j \in DOMAIN branch[i][1].leaves |->
                           LET leaf == branch[i][1].leaves[j]
                           IN  [script |-> leaf.script, hidden |-> FALSE,
                                depth |-> (i - 1) + Len(leaf.merkle_branch)]]
    IN  /\ ToBag(FlattenSeq([i \in DOMAIN branch |-> Held(i)]))
             = ToBag(SelectSeq(added, LAMBDA item : ~item.hidden))
        /\ has_hidden_nodes <=> \E i \in DOMAIN added : added[i].hidden

\* A finished tree has a control block for exactly the known scripts; it proves the
\* script and is as short as the shallowest leaf of that script allows.
SpendPathsVerify ==
  phase = "spend" =>
    LET known == IF weights = <<>> THEN {added[i].script : i \in {j \in DOMAIN added : ~added[j].hidden}}
                 ELSE DOMAIN weights
    IN  /\ DOMAIN script_map = known
        /\ \A s \in known : ProvenRoot(s, control_block(s)) = node.hash
        /\ weights = <<>> => \A i \in DOMAIN added :
             ~added[i].hidden => Len(control_block(added[i].script)) <= added[i].depth

\* A tree without hidden nodes survives serialization; a tree with hidden nodes, which
\* are not serialized, is refused and never taken for another one.
RestoredIsTheSame ==
  /\ phase = "restored" =>
       node.hash = original[1].hash /\ ~original[1].has_hidden_nodes
  /\ phase = "gone" /\ original # <<>> => original[1].has_hidden_nodes

\* The cost of weighted leaves at given depths, and all ways to place n leaves.
Cost(ws, depths) == FoldLeftDomain(LAMBDA sum, i : sum + ws[i] * depths[i], 0, ws)
Placements(n) ==
  {f \in [1..n -> 0..(n - 1)] :
     FoldLeftDomain(LAMBDA sum, i : sum + 2^(n - f[i]), 0, [i \in 1..n |-> i]) = 2^n}

\* Short of saturating, with_huffman_tree finds the cheapest tree for the weights.
HuffmanIsOptimal ==
  phase = "ready" /\ branch # <<>> /\ weights # <<>> /\ added = <<>> /\ original = <<>>
    /\ FoldLeft(LAMBDA sum, w : sum + w, 0, weights) <= MaxWeight =>
    LET leaves == branch[1][1].leaves
        found == [s \in DOMAIN weights |->
                    Len(leaves[CHOOSE i \in DOMAIN leaves : leaves[i].script = s].merkle_branch)]
    IN  \A f \in Placements(Len(weights)) : Cost(weights, found) <= Cost(weights, f)

\* The branch as a binary number, most significant digit first: what a level is worth,
\* and what the first k levels hold of it.
Room[d \in 0..MaxDepth] == IF d = MaxDepth THEN 1 ELSE 2 * Room[d + 1]
FilledTo[k \in 0..(MaxDepth + 1)] ==
  IF k = 0 THEN 0
  ELSE FilledTo[k - 1] + (IF k <= Len(branch) /\ branch[k] # None THEN Room[k - 1] ELSE 0)
Filled == FilledTo[MaxDepth + 1]

Space == INSTANCE TapTreeSpace WITH
  MaxDepth <- MaxDepth, asked <- asked,
  filled <- IF phase = "loop" THEN (Filled + Room[depth]) - Room[asked]
            ELSE IF phase = "gone" THEN 0
            ELSE IF phase \in {"spend", "node", "tree", "restored"} THEN Room[0]
            ELSE Filled,
  builder <- IF phase = "gone" THEN "gone"
             ELSE IF phase \in {"keyspend", "spend", "node", "tree", "restored"} THEN "done"
             ELSE "open"

\* What is accepted and when the tree is finished is decided by the room left alone.
CountsRoom == Space!Spec

=============================================================================
