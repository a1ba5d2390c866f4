SPECIFICATION Spec
CONSTANTS
  NRuns = 1
  Worktrees = {w1, w2}
  Limits = {1, 2}
  MaxQueued = 1
  MaxCrashes = 0
  MayShutDown = FALSE
  CancelsPreflight = FALSE
INVARIANTS
  PassedIsCertifiedWhenRead
SYMMETRY WorktreeSymmetry
\* Nothing is enqueued after the last run, and the queue then rests.
CHECK_DEADLOCK FALSE
