------------------------------ MODULE Worktrees ------------------------------
(***************************************************************************)
(* The worktree manager of divan-daemon and its two users: write-review    *)
(* runs, which create a worktree, let an agent edit it, commit and diff    *)
(* what it did; and the commands `divan merge` and `divan cleanup`, which  *)
(* act on the same worktrees while the runs go on.  The user works in the  *)
(* repository itself, where the worktrees live (.divan/worktrees).         *)
(*                                                                         *)
(* One git command is atomic; the code between two commands is not.  The   *)
(* content of a tree is the set of changes it has, so that the three-dot   *)
(* diff of a branch is a set difference; whether two branches conflict is  *)
(* left open.                                                              *)
(***************************************************************************)
EXTENDS Naturals

CONSTANTS
  Runs,           \* write-review runs
  Commands,       \* connections of `divan merge` and `divan cleanup`
  Main,           \* the user's tree: the repository itself
  Nothing,        \* no merge in progress; no diff yet
  MaxChanges,     \* bound on the changes one author makes
  MaxBoots,       \* bound on daemon starts
  Recreates       \* an agent may write to its directory after it was removed

ASSUME WorktreeAssumption ==
  /\ Main \notin Runs
  /\ MaxChanges \in Nat /\ MaxBoots \in Nat
  /\ Recreates \in BOOLEAN

VARIABLES
  up, boots,      \* the daemon is serving; its starts so far
  step,           \* the next call of each run
  records,        \* Scheduler::runs: runs the commands can name
  diff,           \* the diff artifact of each run
  cmd,            \* the command each connection has in progress
  branches,       \* runs whose branch exists
  dir,            \* what is at {worktree_root}/{task_id}
  tip,            \* changes at the HEAD of each tree
  wip,            \* uncommitted changes of each tree
  index,          \* those of them that are staged
  mergeHead,      \* what an unfinished merge in the repository brings in
  made,           \* changes made so far by each author
  agents,         \* runs whose agent process is alive
  work            \* what each agent did in its session

daemon == <<up, boots, step, records, diff, cmd>>
git == <<branches, dir, tip, wip, index, mergeHead>>
world == <<made, agents>>
vars == <<daemon, git, world, work>>

Trees == Runs \cup {Main}
Authors == Trees
Change == Authors \X (1 .. MaxChanges)
Own(a) == {a} \X (1 .. MaxChanges)

Live == {"record", "spawn", "session", "check", "add", "staged", "commit", "diff", "review"}
Step == {"idle", "reported", "failed", "errored", "lost"} \cup Live
NoCommand == [at |-> "idle"]

Goto(r, s) == step' = [step EXCEPT ![r] = s]

Init ==
  /\ up = FALSE /\ boots = 0
  /\ step = [r \in Runs |-> "idle"]
  /\ records = {}
  /\ diff = [r \in Runs |-> Nothing]
  /\ cmd = [c \in Commands |-> NoCommand]
  /\ branches = {}
  /\ dir = [r \in Runs |-> "none"]
  /\ tip = [t \in Trees |-> {}]
  /\ wip = [t \in Trees |-> {}]
  /\ index = [t \in Trees |-> {}]
  /\ mergeHead = Nothing
  /\ made = [a \in Authors |-> 0]
  /\ agents = {}
  /\ work = [r \in Runs |-> {}]

\* A start knows nothing of the runs of earlier daemons.
Boot ==
  /\ ~ up /\ boots < MaxBoots
  /\ up' = TRUE /\ boots' = boots + 1
  /\ UNCHANGED <<step, records, diff, cmd, git, world, work>>

\* Runs and commands die with the daemon; trees and agent processes do not.
Crash ==
  /\ up
  /\ up' = FALSE
  /\ step' = [r \in Runs |-> IF step[r] \in Live THEN "lost" ELSE step[r]]
  /\ records' = {}
  /\ cmd' = [c \in Commands |-> NoCommand]
  /\ UNCHANGED <<boots, diff, git, world, work>>

-----------------------------------------------------------------------------
(* git, as far as the manager uses it.                                     *)

\* `git -C <worktree>` acts on the tree the directory belongs to: a plain
\* directory in .divan/worktrees belongs to the repository around it.
TreeAt(r) == IF dir[r] = "worktree" THEN r ELSE Main
InsideWorkTree(r) == dir[r] # "none"

Dirty(t) == wip[t] # {}

\* git commit also concludes the merge in progress.
Incoming(t) == IF t = Main /\ mergeHead # Nothing THEN mergeHead ELSE {}
Staged(t) == index[t] # {} \/ (t = Main /\ mergeHead # Nothing)
CommitIndex(t, staged) ==
  /\ tip' = [tip EXCEPT ![t] = @ \cup staged \cup Incoming(t)]
  /\ wip' = [wip EXCEPT ![t] = @ \ staged]
  /\ index' = [index EXCEPT ![t] = {}]
  /\ mergeHead' = IF t = Main THEN Nothing ELSE mergeHead

\* git diff HEAD...<branch>
ThreeDot(r) == tip[r] \ tip[Main]

-----------------------------------------------------------------------------
(* A write-review run (scheduler.rs) and WorktreeManager.                  *)

\* WorktreeManager::create: a new branch off HEAD in a new directory.
\* Mutant: the worktree starts from the user's tree instead of HEAD.
BaseDirty == tip[Main] \cup wip[Main]
Base == tip[Main]
Create(r) ==
  /\ up /\ step[r] = "idle"
  /\ \/ /\ r \notin branches /\ dir[r] = "none"
        /\ branches' = branches \cup {r}
        /\ dir' = [dir EXCEPT ![r] = "worktree"]
        /\ tip' = [tip EXCEPT ![r] = Base]
        /\ Goto(r, "record")
     \/ Goto(r, "errored") /\ UNCHANGED <<branches, dir, tip>>
  /\ UNCHANGED <<up, boots, records, diff, cmd, wip, index, mergeHead, world, work>>

\* The run can be named by commands before its session has started.
Record(r) ==
  /\ up /\ step[r] = "record"
  /\ records' = records \cup {r}
  /\ Goto(r, "spawn")
  /\ UNCHANGED <<up, boots, diff, cmd, git, world, work>>

Spawn(r) ==
  /\ up /\ step[r] = "spawn"
  /\ \/ Goto(r, "session") /\ agents' = agents \cup {r}
     \/ Goto(r, "failed") /\ UNCHANGED agents
  /\ UNCHANGED <<up, boots, records, diff, cmd, git, made, work>>

\* The implement session succeeds or fails; its process may linger.
\* Mutant: the diff is taken of what the agent committed itself.
SessionEndsUncommitted(r) ==
  /\ up /\ step[r] = "session"
  /\ Goto(r, "diff") \/ Goto(r, "failed")
  /\ agents' \in {agents, agents \ {r}}
  /\ work' = [work EXCEPT ![r] = {r} \X (1 .. made[r])]
  /\ UNCHANGED <<up, boots, records, diff, cmd, git, made>>
SessionEnds(r) ==
  /\ up /\ step[r] = "session"
  /\ Goto(r, "check") \/ Goto(r, "failed")
  /\ agents' \in {agents, agents \ {r}}
  /\ work' = [work EXCEPT ![r] = {r} \X (1 .. made[r])]
  /\ UNCHANGED <<up, boots, records, diff, cmd, git, made>>

\* WorktreeManager::commit_all, command by command.
CommitCheck(r) ==
  /\ up /\ step[r] = "check"
  /\ Goto(r, IF InsideWorkTree(r) THEN "add" ELSE "errored")
  /\ UNCHANGED <<up, boots, records, diff, cmd, git, world, work>>

\* `git add -A` stages the whole tree, wherever in it it runs.
CommitAdd(r) ==
  /\ up /\ step[r] = "add"
  /\ IF InsideWorkTree(r)
     THEN index' = [index EXCEPT ![TreeAt(r)] = wip[TreeAt(r)]] /\ Goto(r, "staged")
     ELSE Goto(r, "errored") /\ UNCHANGED index
  /\ UNCHANGED <<up, boots, records, diff, cmd, branches, dir, tip, wip, mergeHead, world,
                 work>>

\* Nothing staged: nothing to commit, and no error.
CommitStaged(r) ==
  /\ up /\ step[r] = "staged"
  /\ Goto(r, IF ~ InsideWorkTree(r) THEN "errored"
             ELSE IF Staged(TreeAt(r)) THEN "commit" ELSE "diff")
  /\ UNCHANGED <<up, boots, records, diff, cmd, git, world, work>>

Commit(r) ==
  /\ up /\ step[r] = "commit"
  /\ LET t == TreeAt(r)
     IN IF InsideWorkTree(r) /\ Staged(t)
        THEN CommitIndex(t, index[t]) /\ Goto(r, "diff")
        ELSE Goto(r, "errored") /\ UNCHANGED <<tip, wip, index, mergeHead>>
  /\ UNCHANGED <<up, boots, records, diff, cmd, branches, dir, world, work>>

\* worktree_diff and the diff artifact; the review follows.
\* Mutant: finished work goes straight into the repository.
StoreDiffMerging(r) ==
  /\ up /\ step[r] = "diff"
  /\ diff' = [diff EXCEPT ![r] = ThreeDot(r)]
  /\ tip' = [tip EXCEPT ![Main] = @ \cup tip[r]]
  /\ Goto(r, "review")
  /\ UNCHANGED <<up, boots, records, cmd, branches, dir, wip, index, mergeHead, world, work>>
StoreDiff(r) ==
  /\ up /\ step[r] = "diff"
  /\ \/ r \in branches /\ diff' = [diff EXCEPT ![r] = ThreeDot(r)] /\ Goto(r, "review")
     \/ Goto(r, "errored") /\ UNCHANGED diff
  /\ UNCHANGED <<up, boots, records, cmd, git, world, work>>

\* The reviewer reads the worktree; the run ends with a report or without one.
Review(r) ==
  /\ up /\ step[r] = "review"
  /\ \E s \in {"reported", "failed", "errored"} : Goto(r, s)
  /\ UNCHANGED <<up, boots, records, diff, cmd, git, world, work>>

-----------------------------------------------------------------------------
(* The commands.                                                           *)

\* merge_task, cleanup_task: run_record refuses unknown runs.
Ask(c, r, what) ==
  /\ up /\ cmd[c].at = "idle" /\ r \in records
  /\ cmd' = [cmd EXCEPT ![c] = [at |-> what, run |-> r]]
  /\ UNCHANGED <<up, boots, step, records, diff, git, world, work>>

Answer(c) == cmd' = [cmd EXCEPT ![c] = NoCommand]
Proceed(c, s) == cmd' = [cmd EXCEPT ![c].at = s]

\* WorktreeManager::merge: the branch exists and the repository is clean ...
MergeCheck(c) ==
  /\ cmd[c].at = "merge_check"
  /\ IF cmd[c].run \in branches /\ ~ Dirty(Main) /\ mergeHead = Nothing
     THEN Proceed(c, "merge") ELSE Answer(c)
  /\ UNCHANGED <<up, boots, step, records, diff, git, world, work>>

\* ... `git merge`: refused during another merge or for local changes in the
\* way; a conflict leaves the merge unfinished.
Diverged(r) == ~ (tip[r] \subseteq tip[Main]) /\ ~ (tip[Main] \subseteq tip[r])
Merge(c) ==
  /\ cmd[c].at = "merge"
  /\ LET r == cmd[c].run
     IN \/ /\ mergeHead = Nothing
           /\ tip' = [tip EXCEPT ![Main] = @ \cup tip[r]]
           /\ UNCHANGED mergeHead
        \/ /\ mergeHead = Nothing /\ Diverged(r)
           /\ mergeHead' = tip[r]
           /\ UNCHANGED tip
        \/ /\ mergeHead # Nothing \/ Dirty(Main)
           /\ UNCHANGED <<tip, mergeHead>>
  /\ Answer(c)
  /\ UNCHANGED <<up, boots, step, records, diff, branches, dir, wip, index, world, work>>

\* WorktreeManager::cleanup: a directory that is gone is fine ...
CleanupCheck(c) ==
  /\ cmd[c].at = "cleanup_check"
  /\ Proceed(c, IF dir[cmd[c].run] = "none" THEN "drop" ELSE "remove")
  /\ UNCHANGED <<up, boots, step, records, diff, git, world, work>>

\* ... any other is removed with what is not committed; git refuses what is not
\* a worktree (any more).
\* Mutant: the branch goes with its worktree.
BranchesWithout(r) == branches \ {r}
BranchesAfter(r) == branches
Remove(c) ==
  /\ cmd[c].at = "remove"
  /\ LET r == cmd[c].run
     IN IF dir[r] = "worktree"
        THEN /\ dir' = [dir EXCEPT ![r] = "none"]
             /\ wip' = [wip EXCEPT ![r] = {}]
             /\ index' = [index EXCEPT ![r] = {}]
             /\ branches' = BranchesAfter(r)
             /\ Proceed(c, "drop")
        ELSE Answer(c) /\ UNCHANGED <<dir, wip, index, branches>>
  /\ UNCHANGED <<up, boots, step, records, diff, tip, mergeHead, world, work>>

\* The run can not be named any more.
Drop(c) ==
  /\ cmd[c].at = "drop"
  /\ records' = records \ {cmd[c].run}
  /\ Answer(c)
  /\ UNCHANGED <<up, boots, step, diff, git, world, work>>

-----------------------------------------------------------------------------
(* Agents and the user.                                                    *)

Fresh(a) == <<a, made[a] + 1>>

\* An agent edits its worktree; what it writes where the worktree was is
\* ignored by git (.divan/.gitignore).
AgentEdit(r) ==
  /\ r \in agents /\ made[r] < MaxChanges
  /\ \/ /\ dir[r] = "worktree"
        /\ wip' = [wip EXCEPT ![r] = @ \cup {Fresh(r)}]
        /\ UNCHANGED dir
     \/ /\ Recreates /\ dir[r] = "none"
        /\ dir' = [dir EXCEPT ![r] = "plain"]
        /\ UNCHANGED wip
  /\ made' = [made EXCEPT ![r] = @ + 1]
  /\ UNCHANGED <<daemon, branches, tip, index, mergeHead, agents, work>>

\* Some agents commit their work themselves.
AgentCommit(r) ==
  /\ r \in agents /\ dir[r] = "worktree" /\ Dirty(r)
  /\ CommitIndex(r, wip[r])
  /\ UNCHANGED <<daemon, branches, dir, world, work>>

AgentExits(r) ==
  /\ r \in agents /\ step[r] # "session"
  /\ agents' = agents \ {r}
  /\ UNCHANGED <<daemon, git, made, work>>

UserEdit ==
  /\ made[Main] < MaxChanges
  /\ wip' = [wip EXCEPT ![Main] = @ \cup {Fresh(Main)}]
  /\ made' = [made EXCEPT ![Main] = @ + 1]
  /\ UNCHANGED <<daemon, branches, dir, tip, index, mergeHead, agents, work>>

UserCommit ==
  /\ Dirty(Main) \/ mergeHead # Nothing
  /\ CommitIndex(Main, wip[Main])
  /\ UNCHANGED <<daemon, branches, dir, world, work>>

UserAbortsMerge ==
  /\ mergeHead # Nothing
  /\ mergeHead' = Nothing
  /\ UNCHANGED <<daemon, branches, dir, tip, wip, index, world, work>>

-----------------------------------------------------------------------------
RunNext(r) ==
  \/ Create(r) \/ Record(r) \/ Spawn(r) \/ SessionEnds(r)
  \/ CommitCheck(r) \/ CommitAdd(r) \/ CommitStaged(r) \/ Commit(r)
  \/ StoreDiff(r) \/ Review(r)

CommandNext(c) ==
  \/ \E r \in Runs : Ask(c, r, "merge_check") \/ Ask(c, r, "cleanup_check")
  \/ MergeCheck(c) \/ Merge(c)
  \/ CleanupCheck(c) \/ Remove(c) \/ Drop(c)

AgentNext(r) == AgentEdit(r) \/ AgentCommit(r) \/ AgentExits(r)

Next ==
  \/ Boot \/ Crash
  \/ \E r \in Runs : RunNext(r) \/ AgentNext(r)
  \/ \E c \in Commands : CommandNext(c)
  \/ UserEdit \/ UserCommit \/ UserAbortsMerge

Spec == Init /\ [][Next]_vars

-----------------------------------------------------------------------------
(* Properties.                                                             *)

Command == [at : {"merge_check", "merge", "cleanup_check", "remove", "drop"}, run : Runs]

TypeOK ==
  /\ up \in BOOLEAN /\ boots \in 0 .. MaxBoots
  /\ step \in [Runs -> Step]
  /\ records \subseteq Runs
  /\ diff \in [Runs -> {Nothing} \cup SUBSET Change]
  /\ cmd \in [Commands -> {NoCommand} \cup Command]
  /\ branches \subseteq Runs
  /\ dir \in [Runs -> {"none", "worktree", "plain"}]
  /\ tip \in [Trees -> SUBSET Change]
  /\ wip \in [Trees -> SUBSET Change] /\ index \in [Trees -> SUBSET Change]
  /\ mergeHead \in {Nothing} \cup SUBSET Change
  /\ made \in [Authors -> 0 .. MaxChanges]
  /\ agents \subseteq Runs
  /\ work \in [Runs -> SUBSET Change]

\* A run that goes on to its review does so with everything its agent did up to
\* the end of the session: in the diff artifact, unless the repository already
\* had it (F1.6: agents edit without committing).  No cleanup that pulls the
\* worktree away between two of the commands makes it review less.
SnapshotComplete ==
  \A r \in Runs : step[r] \in {"review", "reported"} => work[r] \subseteq diff[r] \cup tip[Main]

\* Reviewed work outlives its worktree, its run record and the daemon: cleanup
\* removes "ONLY the worktree", so that the diff artifact can still be merged.  And a
\* run that a command can name (run_record) has a branch, so that `divan diff` and
\* `divan merge` find what they are asked for.
ReviewedWorkKept ==
  /\ records \subseteq branches
  /\ \A r \in Runs : diff[r] # Nothing => r \in branches /\ diff[r] \subseteq tip[r]

\* "One worktree per task": a branch has the work of its own agent and what was
\* committed in the repository, and never the work of another run that was not
\* merged, or what the user did not commit.
Isolated == \A r \in branches : tip[r] \subseteq Own(r) \cup tip[Main]

\* "Merge is NEVER automatic": an agent's work gets into the repository only by a
\* merge somebody asked for, or when the user concludes one that conflicted.
MergedOnRequest ==
  [][\A r \in Runs :
        LET arriving == (tip'[Main] \ tip[Main]) \cap Own(r)
        IN arriving # {} =>
             \/ mergeHead # Nothing /\ arriving \subseteq mergeHead
             \/ \E c \in Commands : cmd[c].at = "merge" /\ arriving \subseteq tip[cmd[c].run]]_vars

\* commit_all commits "onto its branch" (worktree.rs:203): no step of a run
\* ever adds a commit to the user's branch.
CommitsStayOnBranch ==
  [][\A r \in Runs : step[r] \in {"staged", "commit"} /\ step'[r] = "diff"
       => tip'[Main] = tip[Main]]_vars
-----------------------------------------------------------------------------
(* The inductive invariant behind these properties.                        *)

\* Nobody has uncommitted changes in a tree but its author, and git stages no others.
TreeInv == \A t \in Trees : wip[t] \subseteq Own(t) /\ index[t] \subseteq wip[t]

\* Before its branch exists a run has come nowhere and nothing is known of it.
CreatedInv ==
  \A r \in Runs \ branches :
    /\ step[r] \in {"idle", "errored"}
    /\ r \notin records /\ r \notin agents
    /\ diff[r] = Nothing /\ dir[r] = "none" /\ made[r] = 0 /\ work[r] = {}

\* Where an agent can not recreate its directory, commands that find one find the
\* worktree.  What the agent made is in it, what it made in its session is staged when
\* commit_all has added it, and committed when the diff is taken.
SnapshotInv ==
  \A r \in Runs :
    /\ dir[r] # "plain"
    /\ work[r] \subseteq {r} \X (1 .. made[r])
    /\ dir[r] = "worktree" => {r} \X (1 .. made[r]) \subseteq tip[r] \cup wip[r]
    /\ step[r] \in {"staged", "commit"} /\ dir[r] = "worktree" =>
         work[r] \subseteq tip[r] \cup index[r]
    /\ step[r] = "diff" => work[r] \subseteq tip[r]

Inductive ==
  /\ TypeOK /\ TreeInv /\ CreatedInv
  /\ Isolated /\ ReviewedWorkKept
  /\ ~ Recreates => SnapshotInv /\ SnapshotComplete
=============================================================================
