--------------------------- MODULE MCAgentSession ---------------------------
(* Two sessions of one adapter, the second one mostly there to compete for the
   registry; every adapter is tried. *)
EXTENDS AgentSession, TLC

CONSTANTS s1, s2

MCSessions == {s1, s2}
MCStyles == {"claude", "codex", "copilot", "agy"}
MCLines == (s1 :> 2) @@ (s2 :> 0)
=============================================================================
