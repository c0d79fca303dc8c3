\* Two hashes, two bodies for each block, batches of up to four operations.
CONSTANTS
  Keys <- BlockKeys
  Values <- BlockItems
  NoValue = NoValue
  MaxOps = 4
  Hashes = {h1, h2}
  Bodies = {b1, b2}
SPECIFICATION BlockSpec
INVARIANTS DatabaseInv LookupsReturnTheirOwn
PROPERTY ImplementsMap
