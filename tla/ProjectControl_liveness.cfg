SPECIFICATION FairSpec
CONSTANTS
  Projects = {p1, p2}
  Worktrees = {w1}
  Agents = {a1}
  Human = "local-user"
  Kinds = {"start", "profile", "claim", "remove", "stop"}
  Limits = {1, 2}
  Free = Free
  NCalls = 2
PROPERTIES
  WithinCapacity
  EveryCallEnds
  ShutdownReturns
\* The number of calls is bounded.
CHECK_DEADLOCK FALSE
