\* Everything that can happen, down to the destruction of the scheduler.
CONSTANTS
  Workers = {w1, w2}
  MaxTasks = 2
  MaxInterval = 1
  MayRemove = TRUE
  MayStop = TRUE
SPECIFICATION FairSpec
CHECK_DEADLOCK FALSE
INVARIANTS SchedulerInv OnceAtMostOnce DanglingOnlyIfRemoved NoTaskForgotten
PROPERTIES OnceRuns EveryRuns
