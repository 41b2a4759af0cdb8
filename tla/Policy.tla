------------------------------- MODULE Policy -------------------------------
(***************************************************************************)
(* The policy engine (crates/divan-daemon/src/policy.rs): capabilities and *)
(* the write boundary.  A path is a sequence of components, absolute or    *)
(* not; the working directory is the daemon's.  Links are not resolved.    *)
(***************************************************************************)
EXTENDS Routing, Sequences, SequencesExt

CONSTANTS
  Plain,          \* the components that are names
  Cwd             \* the daemon's working directory, the user's repository

ASSUME CwdAssumption == Plain \cap {".", ".."} = {} /\ Cwd \in Seq(Plain)

HasCap(card, a, cap) == a \in Agents /\ card[a] # Unregistered /\ cap \in card[a].caps

RequiredCap(action) ==
  CASE action = "broadcast" -> {"broadcast"}
    [] action = "delegate"  -> {"delegate"}
    [] action = "subscribe" -> {"read"}
    [] OTHER                -> {}

\* check: the chokepoint of the MCP tools.
Check(card, a, action) == \A cap \in RequiredCap(action) : HasCap(card, a, cap)

\* lexical_normalize: "." is dropped, ".." drops what is before it, if anything.
LexicalNormalize(comps) ==
  LET out[n \in 0 .. Len(comps)] ==
        IF n = 0 THEN << >>
        ELSE CASE comps[n] = "."  -> out[n - 1]
               [] comps[n] = ".." -> IF out[n - 1] = << >> THEN << >> ELSE Front(out[n - 1])
               [] OTHER           -> Append(out[n - 1], comps[n])
  IN  out[Len(comps)]

LexicalAbs(path) == LexicalNormalize(IF path.abs THEN path.comps ELSE Cwd \o path.comps)

\* path_within: a relative path is taken from the root, not from the daemon.
PathWithin(path, root) ==
  LET rootN == LexicalAbs(root)
      target == LexicalNormalize(IF path.abs THEN path.comps ELSE rootN \o path.comps)
  IN  IsPrefix(rootN, target)

CheckWrite(card, a, path, worktree) == HasCap(card, a, "write") /\ PathWithin(path, worktree)
=============================================================================
