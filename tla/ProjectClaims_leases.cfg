SPECIFICATION Spec
CONSTANTS
  Projects = {p1}
  Worktrees = {w1}
  Keys = {k1}
  Sessions = {s1, s2}
  Human = "local-user"
  TTLs = {3, 4}
  DefaultTTL = 4
  MaxLife = 7
  IdleLimit = 2
  NRows = 2
  NCalls = 2
  MaxTime = 5
INVARIANTS
  LapsesAfterSilence
  KeptWhileActive
PROPERTIES
  NeverDisplaced
  NeverRevived
SYMMETRY ClaimSymmetry
\* Time and the numbers of rows and calls are bounded.
CHECK_DEADLOCK FALSE
