SPECIFICATION Spec
CONSTANTS
  NRuns = 2
  Worktrees = {w1, w2}
  Limits = {1, 2}
  MaxQueued = 2
  MaxCrashes = 0
  MayShutDown = FALSE
  CancelsPreflight = TRUE
INVARIANTS
  TerminalAfterExit
SYMMETRY WorktreeSymmetry
\* Nothing is enqueued after the last run, and the queue then rests.
CHECK_DEADLOCK FALSE
