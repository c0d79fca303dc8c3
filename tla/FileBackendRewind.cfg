\* Rewinding a range of two leaves.
CONSTANTS
  Data <- LeafData
  HashLength = 2
  PosLength = 2
  MaxLeaves = 2
  MaxCrashes = 0
SPECIFICATION RewindSpec
PROPERTY RewindKeepsNodes
