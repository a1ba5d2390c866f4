SPECIFICATION Spec
CONSTANTS
  Projects = {p1}
  Worktrees = {w1, w2}
  Agents = {a1, a2}
  Human = "local-user"
  Kinds = {"claim", "claimed_start", "claimed_restart", "claimed_stop", "claimed_release", "switch", "release", "profile", "clean", "test", "remove", "measure", "reserve"}
  Limits = {1}
  Free = Free
  NCalls = 3
INVARIANTS
  OneServer
  NoLeakedSlot
  DeletedUndisturbed
  RemovedIsIdle
  ShutdownLeavesNothing
PROPERTIES
  OperatedByOwner
  SpawnedUnderClaim
SYMMETRY ControlSymmetry
\* The number of calls is bounded.
CHECK_DEADLOCK FALSE
