----------------------------- MODULE MCWorktree -----------------------------
(* Worktree with two items and interchangeable directories.                *)
EXTENDS Worktree, TLC
CONSTANTS t1, t2, t3
MCTree == {t1, t2, t3}
MCTwoTrees == {t1, t2}
TreeSymmetry == Permutations(Tree)
=============================================================================
