------------------------------ MODULE MMRIndex ------------------------------
(***************************************************************************)
(* Positions in a Merkle mountain range: mmr::Index, mmr::LeafIndex and    *)
(* the bit arithmetic of BitUtil they are computed with.  Nodes are        *)
(* numbered from 0 in postorder.  Each loop of the code is a recursive     *)
(* function of what it carries from one round to the next.                 *)
(***************************************************************************)
EXTENDS Naturals, Sequences

\* 1ULL << h
PowerOfTwo[h \in Nat] == IF h = 0 THEN 1 ELSE 2 * PowerOfTwo[h - 1]

\* x | x >> 1 | ... | x >> 63: every bit below the highest set one.
FillOnesToRight[x \in Nat] == IF x = 0 THEN 0 ELSE 2 * FillOnesToRight[x \div 2] + 1

CountBitsSet[n \in Nat] == IF n = 0 THEN 0 ELSE (n % 2) + CountBitsSet[n \div 2]

\* The loop of Index::CalculateHeight.
HeightLoop[peakSize \in Nat] ==
  [height \in Nat |->
     IF peakSize = 0 THEN height
     ELSE HeightLoop[peakSize \div 2][IF height >= peakSize THEN height - peakSize ELSE height]]

CalculateHeight(position) == HeightLoop[FillOnesToRight[position + 1]][position]

\* The loop of Index::CalculateLeafIndex, without its accumulator.
LeafLoop[peakSize \in Nat] ==
  [numLeft \in Nat |->
     IF peakSize = 0 THEN 0
     ELSE IF numLeft >= peakSize
       THEN (peakSize + 1) \div 2 + LeafLoop[peakSize \div 2][numLeft - peakSize]
       ELSE LeafLoop[peakSize \div 2][numLeft]]

CalculateLeafIndex(position) == LeafLoop[FillOnesToRight[position]][position]

Index(position, height) == [position |-> position, height |-> height]
IndexAt(position) == Index(position, CalculateHeight(position))
IsLeaf(idx) == idx.height = 0
GetNext(idx) == IndexAt(idx.position + 1)

\* The next node is the parent of a right sibling.
IsRight(idx) == CalculateHeight(idx.position + 1) = idx.height + 1

\* Mutant of GetParent: off by one from a left sibling.
GetParentShort(idx) ==
  Index(IF IsRight(idx) THEN idx.position + 1 ELSE idx.position + PowerOfTwo[idx.height + 1] - 1,
        idx.height + 1)

GetParent(idx) ==
  Index(IF IsRight(idx) THEN idx.position + 1 ELSE idx.position + PowerOfTwo[idx.height + 1],
        idx.height + 1)

GetSibling(idx) ==
  Index(IF IsRight(idx) THEN idx.position + 1 - PowerOfTwo[idx.height + 1]
                        ELSE idx.position + PowerOfTwo[idx.height + 1] - 1,
        idx.height)

GetLeftChild(idx) == Index(idx.position - PowerOfTwo[idx.height], idx.height - 1)
GetRightChild(idx) == Index(idx.position - 1, idx.height - 1)

\* LeafIndex::At: the position of a leaf.
LeafIndexAt(leafIndex) == 2 * leafIndex - CountBitsSet[leafIndex]

\* The first loop of MMR::Root: the positions of the peaks, left to right.
PeakLoop[peakSize \in Nat] ==
  [numLeft \in Nat |-> [sumPrevPeaks \in Nat |->
     IF peakSize = 0 THEN <<>>
     ELSE IF numLeft >= peakSize
       THEN <<sumPrevPeaks + peakSize - 1>>
              \o PeakLoop[peakSize \div 2][numLeft - peakSize][sumPrevPeaks + peakSize]
       ELSE PeakLoop[peakSize \div 2][numLeft][sumPrevPeaks]]]

Peaks(size) == PeakLoop[FillOnesToRight[size]][size][0]

=============================================================================
