\* Three leaves of one or two bytes (two peaks) and two crashes, the second after a
\* commit that the first interrupted; hashes and entries of two bytes.
CONSTANTS
  Data <- LeafData
  HashLength = 2
  PosLength = 2
  MaxLeaves = 3
  MaxCrashes = 2
SPECIFICATION Spec
INVARIANTS ViewIsLeaves CommittedSurvive TornCommitIsPrefix
