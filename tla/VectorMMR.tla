----------------------------- MODULE VectorMMR -----------------------------
(***************************************************************************)
(* mmr::MMR over mmr::VectorBackend: the leaves and the hashes of all      *)
(* nodes, in memory.  Its Commit and Rollback do nothing.                  *)
(***************************************************************************)
EXTENDS MMRHash

CONSTANTS Data,       \* the contents of a leaf
          MaxLeaves   \* bound: the leaves of the range

ASSUME VectorMMRAssumption == MaxLeaves \in Nat

VARIABLES leaves,   \* m_leaves
          nodes     \* m_nodes

vars == <<leaves, nodes>>

Init == leaves = <<>> /\ nodes = <<>>

GetHash(position) == nodes[position + 1]
GetNumNodes == NumNodes(Len(leaves))

\* The hashes by position.
Hashes == [position \in 0..Len(nodes) - 1 |-> GetHash(position)]

\* MMR::Add and VectorBackend::AddLeaf: the leaf goes to the next free position.
Add(data) ==
  /\ Len(leaves) < MaxLeaves
  /\ leaves' = Append(leaves, data)
  /\ nodes' = nodes \o AddedHashes(Hashes, LeafIndexAt(Len(leaves)), data)

\* Mutant of Rewind: the nodes are not cut.
RewindLeavesOnly(numNodes) ==
  /\ numNodes <= GetNumNodes
  /\ IsLeaf(IndexAt(numNodes))
  /\ leaves' = SubSeq(leaves, 1, CalculateLeafIndex(numNodes))
  /\ UNCHANGED nodes

\* Mutant of Rewind: one leaf is dropped, whatever was asked for.
RewindOneLeaf(numNodes) ==
  /\ numNodes <= GetNumNodes
  /\ IsLeaf(IndexAt(numNodes))
  /\ leaves' = SubSeq(leaves, 1, Len(leaves) - 1)
  /\ nodes' = SubSeq(nodes, 1, numNodes)

\* MMR::Rewind and VectorBackend::Rewind.  numNodes is the position of a leaf
\* (the assertion in MMR::Rewind) of the range or just after it, which the code leaves
\* to its caller.
Rewind(numNodes) ==
  /\ numNodes <= GetNumNodes
  /\ IsLeaf(IndexAt(numNodes))
  /\ leaves' = SubSeq(leaves, 1, CalculateLeafIndex(numNodes))
  /\ nodes' = SubSeq(nodes, 1, numNodes)

Next ==
  \/ \E data \in Data : Add(data)
  \/ \E numNodes \in 0..GetNumNodes : Rewind(numNodes)

Spec == Init /\ [][Next]_vars

-----------------------------------------------------------------------------
\* After any sequence of additions and rewinds the nodes are those of a range
\* built from its leaves alone, and as many as GetNumNodes says.
NodesMatchLeaves ==
  /\ Len(nodes) = GetNumNodes
  /\ \A n \in 1..Len(leaves) :
       GetHash(LeafIndexAt(n - 1)) = LeafHash(LeafIndexAt(n - 1), leaves[n])
  /\ \A p \in 0..GetNumNodes - 1 :
       LET idx == IndexAt(p) IN
         ~IsLeaf(idx) =>
           GetHash(p) = ParentHash(p, GetHash(GetLeftChild(idx).position),
                                      GetHash(GetRightChild(idx).position))

\* MMR::Root commits to exactly the leaves, by the definition of bagging.
RootMatchesLeaves == Root(Hashes, GetNumNodes) = RefRoot(leaves)

\* Rewinding forgets leaves and nothing else: the range has the size asked for
\* and the root it had when it had that size.
RewindRestores ==
  [][\A numNodes \in 0..GetNumNodes :
       Rewind(numNodes) =>
         /\ GetNumNodes' = numNodes
         /\ Root(Hashes, numNodes) = Root(Hashes, numNodes)']_vars

=============================================================================
