\* Three threads, an object that leaves m_dirty to its Writer (AppendOnlyFile, MMR,
\* BlockDB) and one that tracks it itself (BitmapFile).
CONSTANTS
  Threads = {t1, t2, t3}
  Objects = {plain, tracking}
  Batchable = {plain, tracking}
  SelfTracking = {tracking}
  LockSets <- AllObjects
  Values = {v0, v1}
  InitValue = v0
  MaxRefs = 2
  MayThrow = FALSE
  Nested = FALSE
  NoThread = NoThread
SYMMETRY ThreadSymmetry
SPECIFICATION Spec
INVARIANTS LockingInv MutexHasHolder
PROPERTY ReadersSeeStable
