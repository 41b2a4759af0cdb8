---------------------------- MODULE MCMessageBus ----------------------------
(***************************************************************************)
(* TLC instances of MessageBus.  `claude` may broadcast; `claude` and      *)
(* `codex` have turn-end hooks.                                            *)
(***************************************************************************)
EXTENDS MessageBus, TLC

CONSTANTS claude, codex, agy, c1, c2, s1, s2, h1, h2

\* A question to codex, one to whom it may concern, and one that its sender has
\* no capability for.
Requests ==
  { [from |-> claude, to |-> codex, kind |-> "question", task |-> "t1"],
    [from |-> claude, to |-> Nobody, kind |-> "question", task |-> "t1"],
    [from |-> codex, to |-> Nobody, kind |-> "status", task |-> "t2"] }

\* Whatever concerns t1; then, in its place, only what agy says; and the broadcaster's own.
Interests ==
  { [agent |-> codex, kind |-> "*", task |-> "t1", from |-> Nobody],
    [agent |-> codex, kind |-> "*", task |-> Nobody, from |-> agy],
    [agent |-> claude, kind |-> "*", task |-> "t1", from |-> Nobody] }

\* Two sessions of one agent run the same hook.
SameAgent == (h1 :> codex) @@ (h2 :> codex)
SharedFile == {<<claude, "f">>, <<codex, "f">>}
Shared3 == SharedFile \cup {<<agy, "f">>}
\* A note to itself that looks like an alert.
Note == { [from |-> claude, to |-> claude, kind |-> "alert", task |-> "f"] }
NoHook == <<>>

\* Sessions are alike, and so are the two agents that send nothing.
Alike == {p \in Permutations({s1, s2, codex, agy}) : {p[s1], p[s2]} = {s1, s2}}
=============================================================================
