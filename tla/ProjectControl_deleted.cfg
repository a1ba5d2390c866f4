SPECIFICATION Spec
CONSTANTS
  Projects = {p1}
  Worktrees = {w1}
  Agents = {}
  Human = "local-user"
  Kinds = {"start", "clean"}
  Limits = {1}
  Free = Free
  NCalls = 2
INVARIANT
  DeletedWhenStopped
\* The number of calls is bounded.
CHECK_DEADLOCK FALSE
