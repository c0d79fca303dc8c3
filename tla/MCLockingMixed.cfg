\* Calls that throw (Commit, Lock of an object that is not batchable) and nested calls:
\* the program may end or block, what it has committed stays consistent.
CONSTANTS
  Threads = {t1, t2}
  Objects = {batch, plain}
  Batchable = {batch}
  SelfTracking = {}
  LockSets <- AllObjects
  Values = {v0, v1}
  InitValue = v0
  MaxRefs = 2
  MayThrow = TRUE
  Nested = TRUE
  NoThread = NoThread
SPECIFICATION Spec
CHECK_DEADLOCK FALSE
SYMMETRY ThreadSymmetry
INVARIANTS HandlesHoldMutex NothingUncommitted
