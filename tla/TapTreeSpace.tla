---------------------------- MODULE TapTreeSpace ----------------------------
(***************************************************************************)
(* What TaprootBuilder decides, without its branches: the room that the    *)
(* leaves given so far take up.  A leaf at depth d fills 2^-d of a tree,   *)
(* counted here in units of the deepest leaf.  Leaves come in depth-first  *)
(* order, so the filled part is a prefix, and a leaf fits where the prefix *)
(* ends at a multiple of the leaf's size.                                  *)
(*                                                                         *)
(* The builder notices a tree that is too full only when the surplus makes *)
(* a second whole tree, so up to two trees' room can be filled.            *)
(***************************************************************************)
EXTENDS Integers

CONSTANT MaxDepth

VARIABLES
  filled,   \* the room taken, as long as there is a builder or its tree
  asked,    \* the depth of the leaf being inserted, or -1
  builder   \* "open", "gone" (an error consumed it) or "done"

spaceVars == <<filled, asked, builder>>

\* The room that a leaf takes up at each depth, and that of a whole tree.
Room[d \in 0..MaxDepth] == IF d = MaxDepth THEN 1 ELSE 2 * Room[d + 1]
Tree == Room[0]

Fits(d) ==
  /\ d <= MaxDepth
  /\ filled % Room[d] = 0
  /\ filled + Room[d] < 2 * Tree

Init == filled = 0 /\ asked = -1 /\ builder = "open"

Ask(d) ==
  /\ builder = "open" /\ asked = -1
  /\ asked' = d
  /\ UNCHANGED <<filled, builder>>

Insert ==
  /\ builder = "open" /\ asked # -1 /\ Fits(asked)
  /\ filled' = filled + Room[asked]
  /\ asked' = -1
  /\ UNCHANGED builder

Reject ==
  /\ builder = "open" /\ asked # -1 /\ ~Fits(asked)
  /\ builder' = "gone" /\ filled' = 0
  /\ UNCHANGED asked

\* with_huffman_tree: a whole tree at once, or no tree.
Whole ==
  /\ builder = "open" /\ asked = -1 /\ filled = 0
  /\ \/ filled' = Tree /\ UNCHANGED builder
     \/ builder' = "gone" /\ filled' = 0
  /\ UNCHANGED asked

\* The tree is taken out of the builder when it is filled exactly; a builder without
\* leaves gives a key without a tree.
Finish ==
  /\ builder = "open" /\ asked = -1 /\ filled \in {0, Tree}
  /\ builder' = "done"
  /\ UNCHANGED <<filled, asked>>

\* A new builder, for the leaves of a serialized tree.
Restart ==
  /\ builder = "done" /\ filled = Tree
  /\ builder' = "open" /\ filled' = 0
  /\ UNCHANGED asked

\* A serialized tree that is not whole.
Abandon ==
  /\ builder = "open" /\ asked = -1 /\ filled # Tree
  /\ builder' = "gone" /\ filled' = 0
  /\ UNCHANGED asked

Next ==
  \/ \E d \in 0..(MaxDepth + 1) : Ask(d)
  \/ Insert \/ Reject \/ Whole \/ Finish \/ Restart \/ Abandon

Spec == Init /\ [][Next]_spaceVars

=============================================================================
