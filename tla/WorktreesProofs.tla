--------------------------- MODULE WorktreesProofs ---------------------------
(***************************************************************************)
(* The safety properties of Worktrees, for any runs, commands, changes and *)
(* daemon starts.                                                          *)
(***************************************************************************)
EXTENDS Worktrees, TLAPS

-----------------------------------------------------------------------------
(* Lemmas.                                                                 *)

\* The user's tree is none of a run's.
LEMMA MainIsNoRun ==
  /\ Main \in Trees /\ Runs \subseteq Trees
  /\ \A r \in Runs : r # Main
BY WorktreeAssumption DEF Trees

\* A change that an author makes is its own, and a change.
LEMMA OwnChange ==
  ASSUME NEW a \in Authors, made[a] \in 0 .. MaxChanges, made[a] < MaxChanges
  PROVE  /\ Fresh(a) \in Own(a) /\ Fresh(a) \in Change
         /\ made[a] + 1 \in 0 .. MaxChanges
BY WorktreeAssumption DEF Fresh, Own, Change

\* Own changes are changes, and no two authors make the same.
LEMMA Owns ==
  /\ \A a \in Authors : Own(a) \subseteq Change
  /\ \A a, b \in Authors : a # b => Own(a) \cap Own(b) = {}
BY DEF Own, Change

\* What a commit does to the trees: nothing is lost, and what arrives was staged or is
\* brought in by the merge that it concludes.
LEMMA Commits ==
  ASSUME TypeOK, NEW t \in Trees, NEW staged \in SUBSET Change, CommitIndex(t, staged)
  PROVE  /\ tip' \in [Trees -> SUBSET Change]
         /\ tip'[t] = tip[t] \cup staged \cup Incoming(t)
         /\ \A u \in Trees \ {t} : tip'[u] = tip[u] /\ wip'[u] = wip[u] /\ index'[u] = index[u]
         /\ wip' \in [Trees -> SUBSET Change] /\ wip'[t] = wip[t] \ staged
         /\ index' \in [Trees -> SUBSET Change] /\ index'[t] = {}
         /\ mergeHead' \in {Nothing} \cup SUBSET Change
         /\ t # Main => Incoming(t) = {} /\ mergeHead' = mergeHead
<1>1. Incoming(t) \in SUBSET Change
  BY DEF Incoming, TypeOK
<1> QED BY <1>1 DEF CommitIndex, TypeOK, Incoming

-----------------------------------------------------------------------------
(* Types.                                                                  *)

\* A command in progress names its run.
LEMMA InProgress ==
  ASSUME TypeOK
  PROVE  \A c \in Commands : cmd[c].at # "idle" => cmd[c] \in Command
BY DEF TypeOK, NoCommand

LEMMA CommandTypes ==
  ASSUME TypeOK, NEW c \in Commands
  PROVE  /\ Answer(c) => cmd' \in [Commands -> {NoCommand} \cup Command]
         /\ \A s \in {"merge", "remove", "drop"} :
              cmd[c].at # "idle" /\ Proceed(c, s) => cmd' \in [Commands -> {NoCommand} \cup Command]
<1>1. ASSUME NEW s \in {"merge", "remove", "drop"}, cmd[c].at # "idle", Proceed(c, s)
      PROVE  cmd' \in [Commands -> {NoCommand} \cup Command]
  <2>1. [cmd[c] EXCEPT !.at = s] \in Command
    BY <1>1, InProgress DEF Command
  <2> QED BY <1>1, <2>1 DEF Proceed, TypeOK
<1> QED BY <1>1 DEF Answer, TypeOK

LEMMA TypeStep == TypeOK /\ [Next]_vars => TypeOK'
<1> SUFFICES ASSUME TypeOK, [Next]_vars PROVE TypeOK'
  OBVIOUS
<1> USE MainIsNoRun
<1>1. CASE Boot
  BY <1>1, WorktreeAssumption DEF Boot, TypeOK, git, world
<1>2. CASE Crash
  BY <1>2 DEF Crash, TypeOK, git, world, Step
<1>3. ASSUME NEW r \in Runs, Create(r) PROVE TypeOK'
  BY <1>3 DEF Create, TypeOK, world, Step, Live, Goto, Base
<1>4. ASSUME NEW r \in Runs, Record(r) PROVE TypeOK'
  BY <1>4 DEF Record, TypeOK, git, world, Step, Live, Goto
<1>5. ASSUME NEW r \in Runs, Spawn(r) PROVE TypeOK'
  BY <1>5 DEF Spawn, TypeOK, git, Step, Live, Goto
<1>6. ASSUME NEW r \in Runs, SessionEnds(r) PROVE TypeOK'
  <2>1. {r} \X (1 .. made[r]) \in SUBSET Change
    BY WorktreeAssumption DEF TypeOK, Change, Authors
  <2> QED BY <1>6, <2>1 DEF SessionEnds, TypeOK, git, Step, Live, Goto
<1>7. ASSUME NEW r \in Runs, CommitCheck(r) \/ CommitStaged(r) \/ Review(r) PROVE TypeOK'
  BY <1>7 DEF CommitCheck, CommitStaged, Review, TypeOK, git, world, Step, Live, Goto
<1>8. ASSUME NEW r \in Runs, CommitAdd(r) PROVE TypeOK'
  <2>1. TreeAt(r) \in Trees
    BY DEF TreeAt
  <2> QED BY <1>8, <2>1 DEF CommitAdd, TypeOK, world, Step, Live, Goto
<1>9. ASSUME NEW r \in Runs, Commit(r) PROVE TypeOK'
  <2>1. TreeAt(r) \in Trees
    BY DEF TreeAt
  <2>2. step' \in [Runs -> Step] /\ UNCHANGED <<up, boots, records, diff, cmd, branches, dir, world, work>>
    BY <1>9 DEF Commit, TypeOK, Step, Live, Goto
  <2>3. \/ CommitIndex(TreeAt(r), index[TreeAt(r)])
        \/ UNCHANGED <<tip, wip, index, mergeHead>>
    BY <1>9 DEF Commit
  <2>4. index[TreeAt(r)] \in SUBSET Change
    BY <2>1 DEF TypeOK
  <2>5. /\ tip' \in [Trees -> SUBSET Change] /\ mergeHead' \in {Nothing} \cup SUBSET Change
        /\ wip' \in [Trees -> SUBSET Change] /\ index' \in [Trees -> SUBSET Change]
    BY <2>1, <2>3, <2>4, Commits DEF TypeOK
  <2> QED BY <2>2, <2>5 DEF TypeOK, world
<1>10. ASSUME NEW r \in Runs, StoreDiff(r) PROVE TypeOK'
  <2>1. ThreeDot(r) \in SUBSET Change
    BY DEF ThreeDot, TypeOK
  <2> QED BY <1>10, <2>1 DEF StoreDiff, TypeOK, git, world, Step, Live, Goto
<1>11. ASSUME NEW c \in Commands, NEW r \in Runs, Ask(c, r, "merge_check") \/ Ask(c, r, "cleanup_check")
       PROVE TypeOK'
  <2>1. PICK what \in {"merge_check", "cleanup_check"} : Ask(c, r, what)
    BY <1>11
  <2>2. [at |-> what, run |-> r] \in Command
    BY DEF Command
  <2> QED BY <2>1, <2>2 DEF Ask, TypeOK, git, world
<1>12. ASSUME NEW c \in Commands, MergeCheck(c) \/ CleanupCheck(c) PROVE TypeOK'
  BY <1>12, CommandTypes DEF MergeCheck, CleanupCheck, TypeOK, git, world
<1>13. ASSUME NEW c \in Commands, Merge(c) PROVE TypeOK'
  <2>1. cmd' \in [Commands -> {NoCommand} \cup Command] /\ cmd[c].run \in Runs
    BY <1>13, InProgress, CommandTypes DEF Merge, Command
  <2>2. tip' \in [Trees -> SUBSET Change] /\ mergeHead' \in {Nothing} \cup SUBSET Change
    BY <1>13, <2>1 DEF Merge, TypeOK
  <2> QED BY <1>13, <2>1, <2>2 DEF Merge, TypeOK, world
<1>14. ASSUME NEW c \in Commands, Remove(c) PROVE TypeOK'
  <2>1. cmd' \in [Commands -> {NoCommand} \cup Command] /\ cmd[c].run \in Runs
    BY <1>14, InProgress, CommandTypes DEF Remove, Command
  <2> QED BY <1>14, <2>1 DEF Remove, TypeOK, world, BranchesAfter
<1>15. ASSUME NEW c \in Commands, Drop(c) PROVE TypeOK'
  BY <1>15, CommandTypes DEF Drop, TypeOK, git, world
<1>16. ASSUME NEW r \in Runs, AgentEdit(r) PROVE TypeOK'
  <2>1. Fresh(r) \in Change /\ made[r] + 1 \in 0 .. MaxChanges
    BY <1>16, OwnChange DEF AgentEdit, TypeOK, Authors
  <2> QED BY <1>16, <2>1 DEF AgentEdit, TypeOK, daemon, Authors
<1>17. ASSUME NEW r \in Runs, AgentCommit(r) PROVE TypeOK'
  <2>1. wip[r] \in SUBSET Change
    BY DEF TypeOK
  <2> QED BY <1>17, <2>1, Commits DEF AgentCommit, TypeOK, daemon, world
<1>18. ASSUME NEW r \in Runs, AgentExits(r) PROVE TypeOK'
  BY <1>18 DEF AgentExits, TypeOK, daemon, git
<1>19. CASE UserEdit
  <2>1. Fresh(Main) \in Change /\ made[Main] + 1 \in 0 .. MaxChanges
    BY <1>19, OwnChange DEF UserEdit, TypeOK, Authors
  <2> QED BY <1>19, <2>1 DEF UserEdit, TypeOK, daemon, Authors
<1>20. CASE UserCommit
  <2>1. wip[Main] \in SUBSET Change
    BY DEF TypeOK
  <2> QED BY <1>20, <2>1, Commits DEF UserCommit, TypeOK, daemon, world
<1>21. CASE UserAbortsMerge
  BY <1>21 DEF UserAbortsMerge, TypeOK, daemon, world
<1>22. CASE UNCHANGED vars
  BY <1>22 DEF vars, daemon, git, world, TypeOK
<1> QED BY <1>1, <1>2, <1>3, <1>4, <1>5, <1>6, <1>7, <1>8, <1>9, <1>10, <1>11, <1>12, <1>13,
           <1>14, <1>15, <1>16, <1>17, <1>18, <1>19, <1>20, <1>21, <1>22
        DEF Next, RunNext, CommandNext, AgentNext

-----------------------------------------------------------------------------
(* The trees.                                                              *)

\* Whose steps change the trees.
LEMMA TreeSteps ==
  ASSUME [Next]_vars
  PROVE  \/ UNCHANGED git
         \/ \E r \in Runs : Create(r) \/ CommitAdd(r) \/ Commit(r) \/ AgentEdit(r) \/ AgentCommit(r)
         \/ \E c \in Commands : Merge(c) \/ Remove(c)
         \/ UserEdit \/ UserCommit \/ UserAbortsMerge
BY DEF Next, vars, RunNext, CommandNext, AgentNext, Boot, Crash, Record, Spawn, SessionEnds,
       CommitCheck, CommitStaged, StoreDiff, Review, Ask, MergeCheck, CleanupCheck, Drop, AgentExits

\* A commit of a run is of what is staged in the tree its directory belongs to, one of
\* its agent of all the agent's changes.
LEMMA RunCommits ==
  ASSUME TypeOK, NEW r \in Runs, Commit(r) \/ AgentCommit(r)
  PROVE  /\ UNCHANGED <<branches, dir>>
         /\ \/ UNCHANGED git
            \/ /\ TreeAt(r) \in Trees /\ index[TreeAt(r)] \in SUBSET Change
               /\ CommitIndex(TreeAt(r), index[TreeAt(r)])
            \/ r \in Trees /\ wip[r] \in SUBSET Change /\ CommitIndex(r, wip[r])
<1>1. TreeAt(r) \in Trees /\ index[TreeAt(r)] \in SUBSET Change
  BY MainIsNoRun DEF TreeAt, TypeOK
<1>2. CASE Commit(r)
  BY <1>1, <1>2 DEF Commit, git
<1>3. CASE AgentCommit(r)
  BY <1>3, MainIsNoRun DEF AgentCommit, TypeOK
<1> QED BY <1>2, <1>3

LEMMA TreeStep == TypeOK /\ TreeInv /\ [Next]_vars => TreeInv'
<1> SUFFICES ASSUME TypeOK, TreeInv, [Next]_vars PROVE TreeInv'
  OBVIOUS
<1> USE MainIsNoRun DEF TreeInv
<1>1. CASE UNCHANGED git
  BY <1>1 DEF git
<1>2. ASSUME NEW r \in Runs, Create(r) \/ CommitAdd(r) PROVE TreeInv'
  <2>1. TreeAt(r) \in Trees
    BY DEF TreeAt
  <2> QED BY <1>2, <2>1 DEF Create, CommitAdd, TypeOK
<1>3. ASSUME NEW t \in Trees, NEW staged \in SUBSET Change, CommitIndex(t, staged) PROVE TreeInv'
  BY <1>3, Commits
<1>4. ASSUME NEW a \in Authors, wip' = [wip EXCEPT ![a] = @ \cup {Fresh(a)}], index' = index,
             made[a] < MaxChanges
      PROVE  TreeInv'
  <2>1. Fresh(a) \in Own(a)
    BY <1>4, OwnChange DEF TypeOK
  <2> QED BY <1>4, <2>1 DEF TypeOK
<1>5. ASSUME NEW r \in Runs, AgentEdit(r) PROVE TreeInv'
  BY <1>4, <1>5 DEF AgentEdit, Authors
<1>6. CASE UserEdit
  BY <1>4, <1>6 DEF UserEdit, Authors
<1>7. ASSUME NEW c \in Commands, Merge(c) PROVE TreeInv'
  BY <1>7 DEF Merge
<1>8. ASSUME NEW c \in Commands, Remove(c) PROVE TreeInv'
  BY <1>8 DEF Remove, TypeOK
<1>9. CASE UserCommit
  BY <1>3, <1>9 DEF UserCommit, TypeOK
<1>10. CASE UserAbortsMerge
  BY <1>10 DEF UserAbortsMerge
<1>11. ASSUME NEW r \in Runs, Commit(r) \/ AgentCommit(r) PROVE TreeInv'
  BY <1>1, <1>3, <1>11, RunCommits
<1> QED BY <1>1, <1>2, <1>5, <1>6, <1>7, <1>8, <1>9, <1>10, <1>11, TreeSteps

LEMMA CreatedStep == TypeOK /\ CreatedInv /\ [Next]_vars => CreatedInv'
<1> SUFFICES ASSUME TypeOK, CreatedInv, [Next]_vars PROVE CreatedInv'
  OBVIOUS
<1> USE MainIsNoRun DEF CreatedInv
<1>1. CASE Boot
  BY <1>1 DEF Boot, git, world
<1>2. CASE Crash
  BY <1>2 DEF Crash, git, world, Live
<1>3. ASSUME NEW r \in Runs, Create(r) PROVE CreatedInv'
  BY <1>3 DEF Create, TypeOK, world, Goto
<1>4. ASSUME NEW r \in Runs, Record(r) \/ Spawn(r) \/ SessionEnds(r) \/ CommitCheck(r)
                               \/ CommitStaged(r) \/ StoreDiff(r) \/ Review(r)
      PROVE  CreatedInv'
  <2>1. r \in branches /\ UNCHANGED git
    BY <1>4 DEF Record, Spawn, SessionEnds, CommitCheck, CommitStaged, StoreDiff, Review
  <2>2. /\ made' = made /\ records' \in {records, records \cup {r}} /\ agents' \subseteq agents \cup {r}
        /\ \A q \in Runs \ {r} : step'[q] = step[q] /\ diff'[q] = diff[q] /\ work'[q] = work[q]
    BY <1>4 DEF Record, Spawn, SessionEnds, CommitCheck, CommitStaged, StoreDiff, Review, TypeOK,
                Goto, world
  <2> QED BY <2>1, <2>2 DEF git
<1>5. ASSUME NEW r \in Runs, CommitAdd(r) \/ Commit(r) PROVE CreatedInv'
  <2>1. r \in branches /\ branches' = branches
    BY <1>5 DEF CommitAdd, Commit
  <2>2. /\ UNCHANGED <<records, agents, diff, dir, made, work>>
        /\ \A q \in Runs \ {r} : step'[q] = step[q]
    BY <1>5 DEF CommitAdd, Commit, TypeOK, Goto, world
  <2> QED BY <2>1, <2>2
<1>6. ASSUME NEW c \in Commands, CommandNext(c) PROVE CreatedInv'
  <2>1. records' \subseteq records /\ UNCHANGED <<step, diff, agents, made, work, branches>>
    BY <1>6 DEF CommandNext, Ask, MergeCheck, Merge, CleanupCheck, Remove, Drop, BranchesAfter,
                git, world
  <2>2. dir' = dir \/ \E r \in Runs : dir' = [dir EXCEPT ![r] = "none"]
    BY <1>6, InProgress DEF CommandNext, Ask, MergeCheck, Merge, CleanupCheck, Remove, Drop, git,
                            Command
  <2> QED BY <2>1, <2>2 DEF TypeOK
<1>7. ASSUME NEW r \in Runs, AgentNext(r) PROVE CreatedInv'
  <2>1. r \in branches /\ branches' = branches /\ UNCHANGED <<step, records, diff, work>>
    BY <1>7 DEF AgentNext, AgentEdit, AgentCommit, AgentExits, daemon, git
  <2>2. /\ agents' \subseteq agents
        /\ \A q \in Runs \ {r} : dir'[q] = dir[q] /\ made'[q] = made[q]
    BY <1>7 DEF AgentNext, AgentEdit, AgentCommit, AgentExits, git, world, TypeOK, Authors, Trees
  <2> QED BY <2>1, <2>2
<1>8. CASE UserEdit
  BY <1>8 DEF UserEdit, daemon, TypeOK, Authors, Trees
<1>9. CASE UserCommit \/ UserAbortsMerge
  BY <1>9 DEF UserCommit, UserAbortsMerge, daemon, world
<1>10. CASE UNCHANGED vars
  BY <1>10 DEF vars, daemon, git, world
<1> QED BY <1>1, <1>2, <1>3, <1>4, <1>5, <1>6, <1>7, <1>8, <1>9, <1>10 DEF Next, RunNext

-----------------------------------------------------------------------------
(* Branches and what is on them.                                           *)

\* Branches stay and grow; a run's branch by its own agent's changes only, and it starts
\* from what is committed in the repository.
LEMMA TipsChange ==
  ASSUME TypeOK, TreeInv, [Next]_vars
  PROVE  /\ branches \subseteq branches'
         /\ \A t \in branches \cup {Main} : tip[t] \subseteq tip'[t]
         /\ \A r \in branches' : \/ r \in branches /\ tip'[r] \subseteq tip[r] \cup Own(r)
                                 \/ tip'[r] = tip[Main]
<1> DEFINE Goal == /\ branches \subseteq branches'
                   /\ \A t \in branches \cup {Main} : tip[t] \subseteq tip'[t]
                   /\ \A r \in branches' : \/ r \in branches /\ tip'[r] \subseteq tip[r] \cup Own(r)
                                           \/ tip'[r] = tip[Main]
<1> USE MainIsNoRun
<1>1. CASE UNCHANGED <<branches, tip>>
  BY <1>1
<1>2. ASSUME NEW r \in Runs, Create(r) PROVE Goal
  BY <1>2 DEF Create, TypeOK, Base
<1>3. ASSUME NEW t \in Trees, NEW staged \in SUBSET wip[t], CommitIndex(t, staged), branches' = branches
      PROVE  Goal
  <2>1. staged \in SUBSET Change /\ (t # Main => staged \subseteq Own(t))
    BY DEF TypeOK, TreeInv
  <2>2. tip'[t] = tip[t] \cup staged \cup Incoming(t) /\ \A u \in Trees \ {t} : tip'[u] = tip[u]
    BY <1>3, <2>1, Commits
  <2>3. t # Main => Incoming(t) = {}
    BY DEF Incoming
  <2> QED BY <1>3, <2>1, <2>2, <2>3 DEF TypeOK
<1>4. ASSUME NEW r \in Runs, Commit(r) \/ AgentCommit(r) PROVE Goal
  BY <1>1, <1>3, <1>4, RunCommits DEF TreeInv, git
<1>5. CASE UserCommit
  BY <1>3, <1>5 DEF UserCommit
<1>6. ASSUME NEW c \in Commands, Merge(c) PROVE Goal
  BY <1>6 DEF Merge, TypeOK
<1>7. ASSUME NEW c \in Commands, Remove(c) PROVE Goal
  BY <1>7 DEF Remove, BranchesAfter
<1>8. ASSUME NEW r \in Runs, CommitAdd(r) \/ AgentEdit(r) PROVE Goal
  BY <1>1, <1>8 DEF CommitAdd, AgentEdit
<1>9. CASE UserEdit \/ UserAbortsMerge
  BY <1>1, <1>9 DEF UserEdit, UserAbortsMerge
<1> QED BY <1>1, <1>2, <1>4, <1>5, <1>6, <1>7, <1>8, <1>9, TreeSteps DEF git

LEMMA BranchStep ==
  TypeOK /\ TreeInv /\ CreatedInv /\ Isolated /\ ReviewedWorkKept /\ [Next]_vars
    => Isolated' /\ ReviewedWorkKept'
<1> SUFFICES ASSUME TypeOK, TreeInv, CreatedInv, Isolated, ReviewedWorkKept, [Next]_vars
             PROVE  Isolated' /\ ReviewedWorkKept'
  OBVIOUS
<1>1. Isolated'
  BY TipsChange DEF Isolated, TypeOK
<1>2. records' \subseteq branches'
  <2>1. records' \subseteq records \/ \E r \in Runs : Record(r) /\ records' = records \cup {r}
    BY DEF Next, vars, daemon, RunNext, CommandNext, AgentNext, Boot, Crash, Create, Record, Spawn,
           SessionEnds, CommitCheck, CommitAdd, CommitStaged, Commit, StoreDiff, Review, Ask,
           MergeCheck, Merge, CleanupCheck, Remove, Drop, AgentEdit, AgentCommit, AgentExits,
           UserEdit, UserCommit, UserAbortsMerge
  <2>2. \A r \in Runs : Record(r) => r \in branches
    BY DEF Record, CreatedInv
  <2> QED BY <2>1, <2>2, TipsChange DEF ReviewedWorkKept
<1>3. ASSUME NEW r \in Runs, diff'[r] # Nothing PROVE r \in branches' /\ diff'[r] \subseteq tip'[r]
  <2>1. \/ diff' = diff
        \/ \E q \in Runs : StoreDiff(q) /\ (diff' = diff \/ (/\ q \in branches
                                                             /\ diff' = [diff EXCEPT ![q] = ThreeDot(q)]))
    BY DEF Next, vars, daemon, RunNext, CommandNext, AgentNext, Boot, Crash, Create, Record, Spawn,
           SessionEnds, CommitCheck, CommitAdd, CommitStaged, Commit, StoreDiff, Review, Ask,
           MergeCheck, Merge, CleanupCheck, Remove, Drop, AgentEdit, AgentCommit, AgentExits,
           UserEdit, UserCommit, UserAbortsMerge
  <2>2. diff'[r] = diff[r] \/ (r \in branches /\ diff'[r] = ThreeDot(r))
    BY <2>1 DEF TypeOK
  <2>3. r \in branches /\ diff'[r] \subseteq tip[r]
    BY <1>3, <2>2 DEF ReviewedWorkKept, ThreeDot
  <2> QED BY <2>3, TipsChange
<1> QED BY <1>1, <1>2, <1>3 DEF ReviewedWorkKept

\* Changes of a run's agent get into the repository by a merge only.
LEMMA MergeStep ==
  ASSUME TypeOK, TreeInv, [Next]_vars, NEW r \in Runs
  PROVE  LET arriving == (tip'[Main] \ tip[Main]) \cap Own(r)
         IN arriving # {} =>
              \/ mergeHead # Nothing /\ arriving \subseteq mergeHead
              \/ \E c \in Commands : cmd[c].at = "merge" /\ arriving \subseteq tip[cmd[c].run]
<1> DEFINE arriving == (tip'[Main] \ tip[Main]) \cap Own(r)
           Goal == arriving # {} =>
                     \/ mergeHead # Nothing /\ arriving \subseteq mergeHead
                     \/ \E c \in Commands : cmd[c].at = "merge" /\ arriving \subseteq tip[cmd[c].run]
<1> USE MainIsNoRun
<1>1. CASE tip'[Main] = tip[Main]
  BY <1>1
<1>2. ASSUME NEW t \in Trees, NEW staged \in SUBSET wip[t], CommitIndex(t, staged) PROVE Goal
  <2>1. staged \in SUBSET Change /\ staged \subseteq Own(t)
    BY DEF TypeOK, TreeInv
  <2>2. tip'[t] = tip[t] \cup staged \cup Incoming(t) /\ \A u \in Trees \ {t} : tip'[u] = tip[u]
    BY <1>2, <2>1, Commits
  <2>3. CASE t = Main
    <3>1. Own(Main) \cap Own(r) = {}
      BY Owns DEF Authors
    <3>2. arriving \subseteq Incoming(Main)
      BY <2>1, <2>2, <2>3, <3>1
    <3> QED BY <3>2 DEF Incoming
  <2> QED BY <1>1, <2>2, <2>3
<1>3. ASSUME NEW q \in Runs, Create(q) PROVE Goal
  BY <1>1, <1>3 DEF Create, TypeOK
<1>4. ASSUME NEW q \in Runs, Commit(q) \/ AgentCommit(q) PROVE Goal
  BY <1>1, <1>2, <1>4, RunCommits DEF TreeInv, git
<1>5. CASE UserCommit
  BY <1>2, <1>5 DEF UserCommit
<1>6. ASSUME NEW c \in Commands, Merge(c) PROVE Goal
  BY <1>6 DEF Merge, TypeOK
<1>7. ASSUME NEW c \in Commands, Remove(c) PROVE Goal
  BY <1>1, <1>7 DEF Remove
<1>8. ASSUME NEW q \in Runs, CommitAdd(q) \/ AgentEdit(q) PROVE Goal
  BY <1>1, <1>8 DEF CommitAdd, AgentEdit
<1>9. CASE UserEdit \/ UserAbortsMerge \/ UNCHANGED git
  BY <1>1, <1>9 DEF UserEdit, UserAbortsMerge, git
<1> QED BY <1>3, <1>4, <1>5, <1>6, <1>7, <1>8, <1>9, TreeSteps

-----------------------------------------------------------------------------
(* What is reviewed.                                                       *)

\* What SnapshotInv says of one run.
Kept(r) ==
  /\ dir[r] # "plain"
  /\ work[r] \subseteq {r} \X (1 .. made[r])
  /\ dir[r] = "worktree" => {r} \X (1 .. made[r]) \subseteq tip[r] \cup wip[r]
  /\ step[r] \in {"staged", "commit"} /\ dir[r] = "worktree" =>
       work[r] \subseteq tip[r] \cup index[r]
  /\ step[r] = "diff" => work[r] \subseteq tip[r]

\* It goes on holding while neither the run nor its agent does anything, whatever
\* becomes of its directory, and while nothing is lost in its tree.
LEMMA KeptStays ==
  ASSUME NEW r \in Runs, Kept(r), work'[r] = work[r], made'[r] = made[r],
         dir'[r] \in {dir[r], "none"}, step'[r] \in {step[r], "lost"},
         tip[r] \subseteq tip'[r],
         dir'[r] = "worktree" => /\ tip[r] \cup wip[r] \subseteq tip'[r] \cup wip'[r]
                                 /\ tip[r] \cup index[r] \subseteq tip'[r] \cup index'[r]
  PROVE  Kept(r)'
BY DEF Kept

LEMMA KeptStep ==
  ASSUME TypeOK, TreeInv, CreatedInv, ~ Recreates, [Next]_vars, NEW r \in Runs, \A q \in Runs : Kept(q)
  PROVE  Kept(r)'
<1> USE MainIsNoRun
<1>t. /\ step \in [Runs -> Step] /\ dir \in [Runs -> {"none", "worktree", "plain"}]
      /\ work \in [Runs -> SUBSET Change] /\ made \in [Authors -> 0 .. MaxChanges]
      /\ tip \in [Trees -> SUBSET Change] /\ wip \in [Trees -> SUBSET Change]
      /\ index \in [Trees -> SUBSET Change] /\ r \in Authors
  BY DEF TypeOK, Authors
<1>k. Kept(r) /\ \A q \in Runs : dir[q] # "plain"
  BY DEF Kept
<1>1. CASE UNCHANGED <<git, made, work>> /\ step'[r] \in {step[r], "lost"}
  BY <1>1, <1>k, KeptStays DEF git
<1>2. CASE Boot \/ Crash
  BY <1>1, <1>2, <1>t DEF Boot, Crash, world
<1>3. ASSUME NEW q \in Runs, Create(q) PROVE Kept(r)'
  <2>1. CASE q = r /\ r \notin branches
    BY <1>3, <2>1, <1>t DEF Create, Goto, Kept, CreatedInv, world
  <2>2. CASE q # r
    BY <1>3, <2>2, <1>k, <1>t, KeptStays DEF Create, Goto, world
  <2>3. CASE q = r /\ r \in branches
    BY <1>3, <2>3, <1>k, <1>t DEF Create, Goto, Kept, world
  <2> QED BY <2>1, <2>2, <2>3
<1>4. ASSUME NEW q \in Runs, Record(q) \/ Spawn(q) \/ CommitCheck(q) \/ StoreDiff(q) \/ Review(q)
      PROVE  Kept(r)'
  <2>1. UNCHANGED <<git, made, work>>
    BY <1>4 DEF Record, Spawn, CommitCheck, StoreDiff, Review, world
  <2>2. step'[r] = step[r] \/ step'[r] \notin {"staged", "commit", "diff"}
    BY <1>4, <1>t DEF Record, Spawn, CommitCheck, StoreDiff, Review, Goto
  <2> QED BY <2>1, <2>2, <1>k DEF Kept, git
<1>5. ASSUME NEW q \in Runs, SessionEnds(q) PROVE Kept(r)'
  <2>1. UNCHANGED <<git, made>>
    BY <1>5 DEF SessionEnds
  <2>2. \/ step'[r] = step[r] /\ work'[r] = work[r]
        \/ step'[r] \in {"check", "failed"} /\ work'[r] = {r} \X (1 .. made[r])
    BY <1>5, <1>t DEF SessionEnds, Goto
  <2> QED BY <2>1, <2>2, <1>k DEF Kept, git
<1>6. ASSUME NEW q \in Runs, CommitAdd(q) PROVE Kept(r)'
  <2>1. UNCHANGED <<dir, tip, wip, made, work>>
    BY <1>6 DEF CommitAdd, world
  <2>2. \/ index'[r] = index[r] /\ step'[r] = step[r]
        \/ index'[r] = wip[r] /\ step'[r] = "staged" /\ dir[r] = "worktree"
        \/ step'[r] = "errored"
    BY <1>6, <1>t, <1>k DEF CommitAdd, InsideWorkTree, TreeAt, Goto
  <2> QED BY <2>1, <2>2, <1>k DEF Kept
<1>7. ASSUME NEW q \in Runs, CommitStaged(q) PROVE Kept(r)'
  <2>1. UNCHANGED <<git, made, work>>
    BY <1>7 DEF CommitStaged, world
  <2>2. \/ step'[r] = step[r] \/ step'[r] = "errored"
        \/ step[r] = "staged" /\ step'[r] = "commit"
        \/ step[r] = "staged" /\ step'[r] = "diff" /\ dir[r] = "worktree" /\ index[r] = {}
    BY <1>7, <1>t, <1>k DEF CommitStaged, InsideWorkTree, TreeAt, Staged, Goto
  <2> QED BY <2>1, <2>2, <1>k DEF Kept, git
<1>8. ASSUME NEW t \in Trees, NEW staged \in SUBSET Change, CommitIndex(t, staged), index[t] \subseteq staged
      PROVE  /\ tip[r] \subseteq tip'[r] /\ tip[r] \cup wip[r] \subseteq tip'[r] \cup wip'[r]
             /\ tip[r] \cup index[r] \subseteq tip'[r] \cup index'[r]
             /\ t = r => index[r] \subseteq tip'[r]
  BY <1>8, Commits
<1>9. ASSUME NEW q \in Runs, Commit(q) PROVE Kept(r)'
  <2>1. UNCHANGED <<dir, made, work>> /\ (r = q \/ step'[r] = step[r])
    BY <1>9, <1>t DEF Commit, world, Goto
  <2>2. CASE UNCHANGED <<tip, wip, index>> /\ step'[q] = "errored"
    BY <2>1, <2>2, <1>k DEF Kept
  <2>3. CASE CommitIndex(q, index[q]) /\ dir[q] = "worktree" /\ step'[q] = "diff" /\ step[q] = "commit"
    <3>1. q \in Trees /\ index[q] \in SUBSET Change
      BY <1>t
    <3>2. /\ tip[r] \subseteq tip'[r] /\ tip[r] \cup wip[r] \subseteq tip'[r] \cup wip'[r]
          /\ tip[r] \cup index[r] \subseteq tip'[r] \cup index'[r]
          /\ q = r => index[r] \subseteq tip'[r]
      BY <1>8, <2>3, <3>1
    <3> QED BY <2>1, <2>3, <3>2, <1>k DEF Kept
  <2>4. TreeAt(q) = q \/ ~ InsideWorkTree(q)
    BY <1>k, <1>t DEF TreeAt, InsideWorkTree
  <2> QED BY <1>9, <1>t, <2>2, <2>3, <2>4 DEF Commit, Goto, InsideWorkTree, TreeAt
<1>10. ASSUME NEW c \in Commands, CommandNext(c) PROVE Kept(r)'
  <2>1. UNCHANGED <<step, made, work>> /\ tip'[r] = tip[r]
    BY <1>10, <1>t DEF CommandNext, Ask, MergeCheck, Merge, CleanupCheck, Remove, Drop, git, world
  <2>2. UNCHANGED <<dir, wip, index>> \/ Remove(c)
    BY <1>10 DEF CommandNext, Ask, MergeCheck, Merge, CleanupCheck, Remove, Drop, git
  <2>3. Remove(c) => dir'[r] = "none" \/ (dir'[r] = dir[r] /\ wip'[r] = wip[r] /\ index'[r] = index[r])
    BY <1>t, InProgress DEF Remove, Command
  <2> QED BY <2>1, <2>2, <2>3, <1>k, KeptStays
<1>11. ASSUME NEW q \in Runs, AgentEdit(q) PROVE Kept(r)'
  <2>1. /\ UNCHANGED <<step, tip, index, work, dir>> /\ dir[q] = "worktree"
        /\ wip' = [wip EXCEPT ![q] = @ \cup {Fresh(q)}] /\ made' = [made EXCEPT ![q] = @ + 1]
    BY <1>11 DEF AgentEdit, daemon
  <2>2. CASE q # r
    BY <2>1, <2>2, <1>t, <1>k, KeptStays DEF Authors
  <2>3. CASE q = r
    <3>1. made'[r] = made[r] + 1 /\ wip'[r] = wip[r] \cup {<<r, made[r] + 1>>} /\ made[r] \in Nat
      BY <2>1, <2>3, <1>t DEF Fresh
    <3>2. {r} \X (1 .. made'[r]) = ({r} \X (1 .. made[r])) \cup {<<r, made[r] + 1>>}
      BY <3>1
    <3> QED BY <2>1, <2>3, <3>1, <3>2, <1>k DEF Kept
  <2> QED BY <2>2, <2>3
<1>12. ASSUME NEW q \in Runs, AgentCommit(q) PROVE Kept(r)'
  <2>1. /\ UNCHANGED <<step, dir, made, work>> /\ CommitIndex(q, wip[q])
        /\ q \in Trees /\ wip[q] \in SUBSET Change /\ index[q] \subseteq wip[q]
    BY <1>12, <1>t DEF AgentCommit, daemon, world, TreeInv
  <2>2. /\ tip[r] \subseteq tip'[r] /\ tip[r] \cup wip[r] \subseteq tip'[r] \cup wip'[r]
        /\ tip[r] \cup index[r] \subseteq tip'[r] \cup index'[r]
    BY <1>8, <2>1
  <2> QED BY <2>1, <2>2, <1>k, KeptStays
<1>13. ASSUME NEW q \in Runs, AgentExits(q) PROVE Kept(r)'
  BY <1>1, <1>13 DEF AgentExits, daemon
<1>14. CASE UserEdit
  BY <1>14, <1>t, <1>k, KeptStays DEF UserEdit, daemon, Authors
<1>15. CASE UserCommit
  <2>1. /\ UNCHANGED <<step, dir, made, work>> /\ CommitIndex(Main, wip[Main])
        /\ wip[Main] \in SUBSET Change /\ index[Main] \subseteq wip[Main]
    BY <1>15, <1>t DEF UserCommit, daemon, world, TreeInv
  <2>2. /\ tip[r] \subseteq tip'[r] /\ tip[r] \cup wip[r] \subseteq tip'[r] \cup wip'[r]
        /\ tip[r] \cup index[r] \subseteq tip'[r] \cup index'[r]
    BY <1>8, <2>1
  <2> QED BY <2>1, <2>2, <1>k, KeptStays
<1>16. CASE UserAbortsMerge
  BY <1>16, <1>k, KeptStays DEF UserAbortsMerge, daemon, world
<1>17. CASE UNCHANGED vars
  BY <1>1, <1>17 DEF vars, daemon, world
<1> QED BY <1>2, <1>3, <1>4, <1>5, <1>6, <1>7, <1>9, <1>10, <1>11, <1>12, <1>13, <1>14, <1>15,
           <1>16, <1>17 DEF Next, RunNext, AgentNext

LEMMA SnapshotStep ==
  ASSUME TypeOK, TreeInv, CreatedInv, ~ Recreates, SnapshotInv, SnapshotComplete, [Next]_vars
  PROVE  SnapshotInv' /\ SnapshotComplete'
<1>1. \A r \in Runs : Kept(r)
  BY DEF SnapshotInv, Kept
<1>2. SnapshotInv'
  BY <1>1, KeptStep DEF SnapshotInv, Kept
<1>3. ASSUME NEW r \in Runs, step'[r] \in {"review", "reported"}
      PROVE  work'[r] \subseteq diff'[r] \cup tip'[Main]
  <2>1. tip[Main] \subseteq tip'[Main]
    BY TipsChange
  <2>2. \/ step[r] \in {"review", "reported"} /\ diff'[r] = diff[r] /\ work'[r] = work[r]
        \/ step[r] = "diff" /\ diff'[r] = ThreeDot(r) /\ work'[r] = work[r]
    <3> USE <1>3 DEF TypeOK, Goto
    <3>1. CASE UNCHANGED <<step, diff, work>>
      BY <3>1
    <3>2. ASSUME NEW q \in Runs, RunNext(q)
          PROVE  \/ step[r] \in {"review", "reported"} /\ diff'[r] = diff[r] /\ work'[r] = work[r]
                 \/ step[r] = "diff" /\ diff'[r] = ThreeDot(r) /\ work'[r] = work[r]
      BY <3>2 DEF RunNext, Create, Record, Spawn, SessionEnds, CommitCheck, CommitAdd,
                  CommitStaged, Commit, StoreDiff, Review
    <3>3. CASE Crash
      BY <3>3 DEF Crash, Live
    <3> QED BY <3>1, <3>2, <3>3
         DEF Next, vars, daemon, CommandNext, AgentNext, Boot, Ask, MergeCheck, Merge, CleanupCheck,
             Remove, Drop, AgentEdit, AgentCommit, AgentExits, UserEdit, UserCommit, UserAbortsMerge
  <2> QED BY <2>1, <2>2 DEF SnapshotComplete, SnapshotInv, ThreeDot
<1>4. SnapshotComplete'
  BY <1>3 DEF SnapshotComplete
<1> QED BY <1>2, <1>4

-----------------------------------------------------------------------------
(* The theorems.                                                           *)

LEMMA InitInductive == Init => Inductive
<1> SUFFICES ASSUME Init PROVE Inductive
  OBVIOUS
<1> USE MainIsNoRun DEF Init
<1>1. TypeOK
  <2>1. MaxBoots \in Nat /\ MaxChanges \in Nat
    BY WorktreeAssumption
  <2>2. boots \in 0 .. MaxBoots /\ made \in [Authors -> 0 .. MaxChanges]
    BY <2>1
  <2>3. up \in BOOLEAN
    OBVIOUS
  <2>4. /\ step \in [Runs -> Step] /\ diff \in [Runs -> {Nothing} \cup SUBSET Change]
        /\ cmd \in [Commands -> {NoCommand} \cup Command]
        /\ dir \in [Runs -> {"none", "worktree", "plain"}]
        /\ tip \in [Trees -> SUBSET Change] /\ wip \in [Trees -> SUBSET Change]
        /\ index \in [Trees -> SUBSET Change] /\ work \in [Runs -> SUBSET Change]
    BY DEF Step
  <2> QED BY <2>2, <2>3, <2>4 DEF TypeOK
<1>2. TreeInv /\ CreatedInv /\ Isolated /\ ReviewedWorkKept
  BY DEF TreeInv, CreatedInv, Isolated, ReviewedWorkKept, Authors
<1>3. SnapshotInv /\ SnapshotComplete
  BY DEF SnapshotInv, SnapshotComplete
<1> QED BY <1>1, <1>2, <1>3 DEF Inductive

LEMMA StepInductive == Inductive /\ [Next]_vars => Inductive'
<1> SUFFICES ASSUME Inductive, [Next]_vars PROVE Inductive'
  OBVIOUS
<1>1. TypeOK /\ TreeInv /\ CreatedInv /\ Isolated /\ ReviewedWorkKept
  BY DEF Inductive
<1>2. TypeOK' /\ TreeInv' /\ CreatedInv' /\ Isolated' /\ ReviewedWorkKept'
  BY <1>1, TypeStep, TreeStep, CreatedStep, BranchStep
<1>3. (~ Recreates => SnapshotInv /\ SnapshotComplete)'
  <2>1. ASSUME ~ Recreates PROVE SnapshotInv' /\ SnapshotComplete'
    BY <1>1, <2>1, SnapshotStep DEF Inductive
  <2> QED BY <2>1
<1> QED BY <1>2, <1>3 DEF Inductive

\* The inductive invariant holds of every behaviour: of runs, commands, agents that
\* linger and a user at work in the same repository, and of daemons that come and go.
THEOREM WorktreesInductive == Spec => []Inductive
<1>1. Inductive /\ [Next]_vars => Inductive'
  BY StepInductive
<1> QED BY InitInductive, <1>1, PTL DEF Spec

\* Trees hold changes, and commands in progress name runs.
THEOREM WorktreeTypes == Spec => []TypeOK
<1>1. Inductive => TypeOK
  BY DEF Inductive
<1> QED BY WorktreesInductive, <1>1, PTL

\* "One worktree per task" (create): no branch has another run's unmerged work or what
\* the user did not commit, even where agents recreate directories that were removed.
THEOREM OwnWorkOnly == Spec => []Isolated
<1>1. Inductive => Isolated
  BY DEF Inductive
<1> QED BY WorktreesInductive, <1>1, PTL

\* cleanup removes the worktree and nothing else: what was reviewed stays on the run's
\* branch, and every run that can be named has a branch.
THEOREM ReviewedWorkStays == Spec => []ReviewedWorkKept
<1>1. Inductive => ReviewedWorkKept
  BY DEF Inductive
<1> QED BY WorktreesInductive, <1>1, PTL

\* commit_all and worktree_diff, command by command, leave nothing out that the agent did
\* in its session, whatever cleanup removes in between; unless the agent writes to its
\* directory again after that (then commit_all acts on the user's tree).
THEOREM WholeSnapshot ==
  ASSUME ~ Recreates
  PROVE  Spec => []SnapshotComplete
<1>1. Inductive => SnapshotComplete
  BY DEF Inductive
<1> QED BY WorktreesInductive, <1>1, PTL

\* "Merge is NEVER automatic": no step of a run, an agent or another command brings an
\* agent's work into the repository; only `git merge` of the command that was asked for
\* it, or the user who concludes or commits on top of a merge that conflicted.
THEOREM MergesOnRequest == Spec => MergedOnRequest
<1>1. Inductive /\ [Next]_vars =>
        [\A r \in Runs :
           LET arriving == (tip'[Main] \ tip[Main]) \cap Own(r)
           IN arriving # {} =>
                \/ mergeHead # Nothing /\ arriving \subseteq mergeHead
                \/ \E c \in Commands : cmd[c].at = "merge" /\ arriving \subseteq tip[cmd[c].run]]_vars
  BY MergeStep DEF Inductive
<1> QED BY WorktreesInductive, <1>1, PTL DEF Spec, MergedOnRequest
=============================================================================
