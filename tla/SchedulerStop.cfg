\* The destructor while a worker is about to wait.
CONSTANTS
  Workers = {w1}
  MaxTasks = 1
  MaxInterval = 1
  MayRemove = FALSE
  MayStop = TRUE
SPECIFICATION FairSpec
CHECK_DEADLOCK FALSE
PROPERTY DestructorReturns
