-------------------------------- MODULE MCMMR --------------------------------
(***************************************************************************)
(* VectorMMR for TLC, and the arithmetic of MMRIndex against the tree it   *)
(* stands for.  The positions are visited one by one while the range is    *)
(* empty, so that a tree much higher than the ranges is checked too.       *)
(*                                                                         *)
(* Tree[h, base, ...] lists the nodes of the perfect binary tree of height *)
(* h whose first node in postorder has number base.                        *)
(***************************************************************************)
EXTENDS VectorMMR, FiniteSets

CONSTANT Height   \* bound: the positions checked are those of a tree this high

ASSUME HeightAssumption == Height \in Nat \ {0}

VARIABLE position

Top(h, base) == base + PowerOfTwo[h + 1] - 2

\* A node with its place in the tree; a leaf has no children.
TreeNode(h, base, parent, sibling) ==
  [position |-> Top(h, base), height |-> h, parent |-> parent, sibling |-> sibling]

Tree[h \in 0..Height, base \in Nat, parent \in Nat, sibling \in Nat] ==
  (IF h = 0 THEN <<>>
   ELSE LET l == Top(h - 1, base)
            r == Top(h - 1, base + PowerOfTwo[h] - 1)
        IN  Tree[h - 1, base, Top(h, base), r]
              \o Tree[h - 1, base + PowerOfTwo[h] - 1, Top(h, base), l])
    \o <<TreeNode(h, base, parent, sibling)>>

\* The reference: the left half of a tree one higher than the bound.
Reference == Tree[Height, 0, Top(Height + 1, 0), Top(Height, PowerOfTwo[Height + 1] - 1)]

MCInit == Init /\ position = 0

MCNext ==
  \/ Next /\ position = 0 /\ UNCHANGED position
  \/ leaves = <<>> /\ position' = (position + 1) % (Top(Height, 0) + 1) /\ UNCHANGED vars

MCSpec == MCInit /\ [][MCNext]_<<vars, position>>

-----------------------------------------------------------------------------
node == Reference[position + 1]
children == {i \in DOMAIN Reference : Reference[i].parent = position}
leavesBefore == Cardinality({i \in 1..position : Reference[i].height = 0})

\* Index::At and the moves between a node and its parent, sibling and children
\* agree with the tree at every position.
IndexMatchesTree ==
  LET idx == IndexAt(position) IN
    /\ idx.height = node.height
    /\ GetParent(idx) = Index(node.parent, node.height + 1)
    /\ GetSibling(idx) = Index(node.sibling, node.height)
    /\ ~IsLeaf(idx) =>
         /\ GetLeftChild(idx).position < GetRightChild(idx).position
         /\ {GetLeftChild(idx), GetRightChild(idx)}
              = {Index(Reference[i].position, Reference[i].height) : i \in children}

\* A leaf's position and its number among the leaves determine each other, and
\* LeafIndex::At is the first free position after that many leaves.
LeafIndexMatchesTree ==
  node.height = 0 =>
    /\ CalculateLeafIndex(position) = leavesBefore
    /\ LeafIndexAt(leavesBefore) = position

\* In a range that ends before a leaf, the peaks of MMR::Root are the nodes whose
\* parent it does not have yet, from left to right.
PeaksMatchTree ==
  node.height = 0 =>
    LET peaks == Peaks(position) IN
      /\ {peaks[i] : i \in DOMAIN peaks}
           = {p \in 0..position - 1 : Reference[p + 1].parent >= position}
      /\ \A i, j \in DOMAIN peaks : i < j => peaks[i] < peaks[j]

\* Index, LeafIndex and the peaks of MMR::Root, computed by subtracting sizes of perfect
\* trees, agree with the tree at every position.
PositionsMatchTree == IndexMatchesTree /\ LeafIndexMatchesTree /\ PeaksMatchTree

=============================================================================
