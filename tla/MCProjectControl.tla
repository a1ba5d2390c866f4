--------------------------- MODULE MCProjectControl ---------------------------
(* ProjectControl for TLC: projects, worktrees and agents are interchangeable. *)
EXTENDS ProjectControl, TLC

ControlSymmetry ==
  Permutations(Projects) \cup Permutations(Worktrees) \cup Permutations(Agents)
===============================================================================
