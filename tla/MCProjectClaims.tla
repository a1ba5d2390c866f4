--------------------------- MODULE MCProjectClaims ---------------------------
(* ProjectClaims for TLC: sessions, keys and worktrees are interchangeable. *)
EXTENDS ProjectClaims, TLC

ClaimSymmetry ==
  Permutations(Sessions) \cup Permutations(Keys) \cup Permutations(Worktrees)
=============================================================================
