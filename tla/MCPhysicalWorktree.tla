------------------------- MODULE MCPhysicalWorktree -------------------------
(* Model-checking instance of PhysicalWorktree. *)
EXTENDS PhysicalWorktree, TLC

RuntimeSymmetry == Permutations(Principals)
=============================================================================
