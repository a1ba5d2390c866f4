---------------------------- MODULE MCTestQueue -----------------------------
(* TestQueue for TLC: worktrees are interchangeable. *)
EXTENDS TestQueueSlots, TLC

WorktreeSymmetry == Permutations(Worktrees)
=============================================================================
