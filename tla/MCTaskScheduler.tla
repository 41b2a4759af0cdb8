-------------------------- MODULE MCTaskScheduler --------------------------
(***************************************************************************)
(* TLC instances of TaskScheduler: `claude` writes and may delegate,       *)
(* `codex` reviews.                                                        *)
(***************************************************************************)
EXTENDS TaskScheduler, TLC

CONSTANTS f1, f2, c1, claude, codex

OneRequest == {<<claude, codex>>}
OneCaller == c1 :> codex
SwapRuns == Permutations({f1, f2})
=============================================================================
