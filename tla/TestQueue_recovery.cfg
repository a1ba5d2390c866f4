SPECIFICATION FairSpec
CONSTANTS
  NRuns = 2
  Worktrees = {w1, w2}
  Limits = {2}
  MaxQueued = 2
  MaxCrashes = 1
  MayShutDown = TRUE
  CancelsPreflight = FALSE
INVARIANTS
  WorktreeExclusion
  TerminalAfterExit
  ShutdownLeavesNothing
PROPERTIES
  SettledIsFinal
  ImplementsSlots
  EveryRunEnds
  ShutdownEnds
\* Nothing is enqueued after the last run, and the queue then rests.
CHECK_DEADLOCK FALSE
