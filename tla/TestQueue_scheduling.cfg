SPECIFICATION Spec
CONSTANTS
  NRuns = 3
  Worktrees = {w1, w2}
  Limits = {1, 2}
  MaxQueued = 3
  MaxCrashes = 0
  MayShutDown = FALSE
  CancelsPreflight = FALSE
INVARIANTS
  PassedIsCertified
  NoMissedWakeup
PROPERTIES
  OldestFirst
SYMMETRY WorktreeSymmetry
\* Nothing is enqueued after the last run, and the queue then rests.
CHECK_DEADLOCK FALSE
