------------------------------ MODULE MMRHash ------------------------------
(***************************************************************************)
(* What mmr::Leaf, mmr::Node, IBackend::AddLeaf and MMR::Root compute,     *)
(* over the hashes of the nodes, by position, that the backend's GetHash   *)
(* returns.  Blake2b is taken to be injective: a hash is the tuple of what *)
(* was hashed.                                                             *)
(***************************************************************************)
EXTENDS MMRIndex

ZeroHash == <<"zero">>

\* Leaf::Create
LeafHash(position, data) == <<"leaf", position, data>>

\* Node::CreateParent
ParentHash(position, left, right) == <<"node", position, left, right>>

\* The nodes that the leaf at position completes: the loop of AddLeaf runs up
\* to the next leaf.
NumParents(position) ==
  CHOOSE k \in 0..position :
    /\ IsLeaf(IndexAt(position + k + 1))
    /\ \A j \in 1..k : ~IsLeaf(IndexAt(position + j))

\* The hashes AddLeaf appends: the leaf's, then that of each completed parent,
\* whose right child is the hash before.
AddedHashes(hashes, position, data) ==
  LET hash[i \in Nat] ==
        IF i = 0 THEN LeafHash(position, data)
        ELSE ParentHash(position + i,
                        hashes[GetLeftChild(IndexAt(position + i)).position],
                        hash[i - 1])
  IN  [i \in 1..NumParents(position) + 1 |-> hash[i - 1]]

\* Mutant of NumNodes: the parents that the last leaf completes are not counted.
NumNodesToLastLeaf(numLeaves) == IF numLeaves = 0 THEN 0 ELSE LeafIndexAt(numLeaves - 1) + 1

\* MMR::GetNumNodes
NumNodes(numLeaves) == IF numLeaves = 0 THEN 0 ELSE LeafIndexAt(numLeaves)

\* MMR::Root: the peaks are bagged from the right.
Root(hashes, size) ==
  LET peaks == Peaks(size)
      bag[i \in Nat] ==
        IF i > Len(peaks) THEN ZeroHash
        ELSE IF bag[i + 1] = ZeroHash THEN hashes[peaks[i]]
        ELSE ParentHash(size, hashes[peaks[i]], bag[i + 1])
  IN  IF size = 0 THEN ZeroHash ELSE bag[1]

-----------------------------------------------------------------------------
(***************************************************************************)
(* The reference: the hash of a perfect tree, and the root of a range, its *)
(* tallest tree bagged with the root of the rest.                          *)
(***************************************************************************)
Log2[n \in Nat] == IF n < 2 THEN 0 ELSE 1 + Log2[n \div 2]

\* The number of nodes of a range: each of its perfect trees has one less than
\* twice its leaves.
RefSize[n \in Nat] ==
  IF n = 0 THEN 0 ELSE PowerOfTwo[Log2[n] + 1] - 1 + RefSize[n - PowerOfTwo[Log2[n]]]

\* TreeHash(leaves)[h][n] is the top of the tree of height h behind the first n leaves,
\* whose first node has the position behind their nodes.
TreeHash(leaves) ==
  LET tree[h \in Nat] ==
        [n \in Nat |->
           IF h = 0 THEN LeafHash(RefSize[n], leaves[n + 1])
           ELSE ParentHash(RefSize[n] + PowerOfTwo[h + 1] - 2,
                           tree[h - 1][n], tree[h - 1][n + PowerOfTwo[h - 1]])]
  IN  tree

\* root[n] bags the trees of the last n leaves.
RefRoot(leaves) ==
  LET root[n \in Nat] ==
        LET h == Log2[n]
            peak == TreeHash(leaves)[h][Len(leaves) - n]
        IN  IF n = 0 THEN ZeroHash
            ELSE IF n = PowerOfTwo[h] THEN peak
            ELSE ParentHash(RefSize[Len(leaves)], peak, root[n - PowerOfTwo[h]])
  IN  root[Len(leaves)]

=============================================================================
