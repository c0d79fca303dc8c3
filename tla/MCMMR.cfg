\* Ranges of up to 9 leaves of two kinds (one to three peaks, parents up to height
\* 3), and every position of a tree with 128 leaves.
CONSTANTS
  Data = {d1, d2}
  MaxLeaves = 9
  Height = 7
SPECIFICATION MCSpec
INVARIANTS PositionsMatchTree NodesMatchLeaves RootMatchesLeaves
PROPERTY RewindRestores
