----------------------------- MODULE MCWorktrees -----------------------------
(***************************************************************************)
(* TLC instances of Worktrees: two runs in one repository, or one run.     *)
(***************************************************************************)
EXTENDS Worktrees, TLC

CONSTANTS r1, r2, c1, c2

Symmetric == Permutations({r1, r2})
=============================================================================
