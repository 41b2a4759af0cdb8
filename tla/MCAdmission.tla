---------------------------- MODULE MCAdmission ----------------------------
(***************************************************************************)
(* TLC instances of Admission: every registry of up to three agents with   *)
(* cards of a pool in which vendor, skill, turns and cost disagree: the    *)
(* four built-in adapters, and a second claude that can review.            *)
(***************************************************************************)
EXTENDS Admission

CONSTANTS r1, r2, c1

Pool ==
  { [tool |-> "claude", cost |-> 5, skills |-> {"implement"}, multiTurn |-> TRUE,
     caps |-> {"read", "write", "delegate"}],
    [tool |-> "claude", cost |-> 2, skills |-> {"review"}, multiTurn |-> TRUE,
     caps |-> {"read"}],
    [tool |-> "codex", cost |-> 4, skills |-> {"review", "test"}, multiTurn |-> TRUE,
     caps |-> {"read"}],
    [tool |-> "copilot", cost |-> 3, skills |-> {"implement"}, multiTurn |-> TRUE,
     caps |-> {"read", "write"}],
    [tool |-> "agy", cost |-> 2, skills |-> {"review"}, multiTurn |-> FALSE,
     caps |-> {"read"}] }

AllRegistries == [Agents -> Pool \cup {Unregistered}]
Repo == <<"repo">>
Names == {"repo", ".divan", "worktrees", "file"} \cup {"impl-" \o ToString(s) : s \in Stamps}
AskedFor == {<<1, 2>>}
Speaks == [c \in {c1} |-> 1]
Directories == [stamp \in Stamps |-> "impl-" \o ToString(stamp)]

Symmetry == Permutations({r1, r2})

Tool(a) == IF card[a] = Unregistered THEN "none" ELSE card[a].tool

\* The registry of two built-in adapters that may both write is explored to the end, with
\* one delegated task and with cards that can be read (here the default is the only choice
\* anyway); the others until the first run has assigned its implement task.
ToTheEnd ==
  /\ Tool(1) = "claude" /\ card[1].cost = 5 /\ Tool(2) = "copilot" /\ Tool(3) = "none"
  /\ Cardinality({t \in Rows : t[1] = "deleg"}) <= 1 /\ \A r \in Runs : run[r].listed
Explored ==
  ToTheEnd \/ /\ \A r \in Runs : run[r].at \in {"idle", "create", "assign", "claim"}
              /\ clock = 1 /\ op[c1] = NoOp
=============================================================================
