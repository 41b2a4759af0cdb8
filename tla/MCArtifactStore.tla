-------------------------- MODULE MCArtifactStore --------------------------
(***************************************************************************)
(* TLC instances of ArtifactStore: three handlers on one content, so that  *)
(* two write its file while a third finds or reads it, in two directories. *)
(* Contents share nothing but the handlers, so one shows what can happen.  *)
(***************************************************************************)
EXTENDS ArtifactStore, TLC

CONSTANTS w1, w2, w3, spec, repo1, repo2

Symmetry == Permutations({w1, w2, w3}) \cup Permutations({repo1, repo2})
=============================================================================
