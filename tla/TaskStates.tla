----------------------------- MODULE TaskStates -----------------------------
(***************************************************************************)
(* The task state machine and the ids of task rows: the pure part of       *)
(* divan-core (crates/divan-core/src/task.rs) and of the ordering the      *)
(* `tasks` table is read in.  "absent" stands for "no row with this id".   *)
(***************************************************************************)
EXTENDS Integers

CONSTANT MaxStamp       \* bound on the millisecond clock the ids are made of

ASSUME MaxStampAssumption == MaxStamp \in Nat \ {0}

Stamps == 1 .. MaxStamp

TaskState == {"open", "claimed", "working", "review", "done", "failed", "cancelled"}

Terminal == {"done", "failed", "cancelled"}

\* What a daemon start considers orphaned: started and not finished.
Active == {"claimed", "working", "review"}

Forward == { <<"open", "claimed">>, <<"claimed", "working">>, <<"working", "review">>,
             <<"review", "working">>, <<"review", "done">>, <<"working", "done">> }

\* Mutant: a finished task can still be failed.
CanTransitionFromDone(from, to) ==
  \/ <<from, to>> \in Forward
  \/ from \in {"open", "done"} \cup Active /\ to \in {"failed", "cancelled"}

\* TaskState::can_transition_to.  An absent row can go nowhere.
CanTransition(from, to) ==
  \/ <<from, to>> \in Forward
  \/ from \in {"open"} \cup Active /\ to \in {"failed", "cancelled"}

\* Task ids are "<prefix>-<creation millisecond>": write-review creates root-,
\* impl- and review- rows, delegate_task creates deleg- rows.
Prefix == {"deleg", "impl", "review", "root"}
TaskIds == Prefix \X Stamps

Kind == {"plan", "implement", "review"}
PrefixKind == [root |-> "plan", impl |-> "implement", review |-> "review"]

\* ORDER BY created_at, id.
Rank == [deleg |-> 1, impl |-> 2, review |-> 3, root |-> 4]
Before(t, u) == t[2] < u[2] \/ (t[2] = u[2] /\ Rank[t[1]] < Rank[u[1]])
=============================================================================
