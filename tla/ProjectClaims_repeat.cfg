SPECIFICATION Spec
CONSTANTS
  Projects = {p1}
  Worktrees = {w1}
  Keys = {k1}
  Sessions = {s1}
  Human = "local-user"
  TTLs = {3}
  DefaultTTL = 3
  MaxLife = 3
  IdleLimit = 2
  NRows = 1
  NCalls = 2
  MaxTime = 1
PROPERTY
  RepeatReturnsTheLease
\* Time and the numbers of rows and calls are bounded.
CHECK_DEADLOCK FALSE
