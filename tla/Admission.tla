----------------------------- MODULE Admission -----------------------------
(***************************************************************************)
(* Where the hub decides who may do what: the reviewer a run is given, the *)
(* answer of `divan router explain`, and the answer of the pre-tool-use    *)
(* hook of the agents' sessions.  The three read the registry and the task *)
(* table while runs and MCP clients change the table under them.           *)
(*                                                                         *)
(* The registry is what is in the table when the daemon serves; nothing    *)
(* changes a card then.  The two queries change nothing, and are operators *)
(* that may be asked in any state.  What TaskScheduler models of a run is  *)
(* kept as far as the decisions read it: the implement and the review task *)
(* with state, assignee, worktree and trace.                               *)
(***************************************************************************)
EXTENDS Policy, TaskStates

CONSTANTS
  Runs, Clients,
  Registries,     \* the registries considered: functions from Agents to cards
  Requests,       \* <<writer, default reviewer>> of the runs that may be asked for
  SpeaksFor,      \* the agent each client's MCP server was started for
  DirName,        \* the name of the worktree of each implement task: its id
  NoTask

ASSUME AdmissionAssumption ==
  /\ Registries \subseteq [Agents -> Card \cup {Unregistered}]
  /\ Requests \subseteq Agents \X Agents
  /\ DirName \in [Stamps -> Plain]
  /\ {".divan", "worktrees", "file"} \subseteq Plain

VARIABLES
  card,           \* table agents
  db,             \* table tasks, without the root tasks, which nothing here reads
  clock,          \* the current millisecond
  run,            \* progress of each write-review run
  op              \* the claim or completion each client's connection is serving

vars == <<card, db, clock, run, op>>

-----------------------------------------------------------------------------
Absent == [state |-> "absent", assignee |-> 0, worktree |-> 0, trace |-> 0]
Opened(trace) == [Absent EXCEPT !.state = "open", !.trace = trace]
\* listed: the cards could be read.  now: the millisecond the run began in; stamp: the same,
\* once the run has rows of its own.
NoRun == [at |-> "idle", part |-> "impl", writer |-> 0, reviewer |-> 0, listed |-> TRUE,
          routed |-> FALSE, now |-> 0, stamp |-> 0]
NoOp == [at |-> "idle", task |-> NoTask, claims |-> FALSE, next |-> "done"]

Rows == {t \in TaskIds : db[t].state # "absent"}
First(S) == CHOOSE t \in S : \A u \in S \ {t} : Before(t, u)
CardOf(a) == IF a \in Agents THEN card[a] ELSE Unregistered
Registered == {a \in Agents : card[a] # Unregistered}

\* delegate_task is told the kind; here it is another implement task.
KindOf(t) == IF t[1] = "review" THEN "review" ELSE "implement"

Own(r) == <<run[r].part, run[r].stamp>>
AgentOf(r) == IF run[r].part = "impl" THEN run[r].writer ELSE run[r].reviewer
InSession(r) == run[r].at = "session"

\* Agent 0 is nobody.
Init ==
  /\ card \in Registries
  /\ db = [t \in TaskIds |-> Absent]
  /\ clock = 1
  /\ run = [r \in Runs |-> NoRun]
  /\ op = [c \in Clients |-> NoOp]

Tick == clock < MaxStamp /\ clock' = clock + 1 /\ UNCHANGED <<card, db, run, op>>

-----------------------------------------------------------------------------
(* The runs.                                                               *)

\* select_reviewer: never the writer itself, unless there is no other, or the cards cannot be
\* read: then it is the default.
ReviewTask == [kind |-> "review", multiTurn |-> FALSE]
Candidates(w) == Registered \ {w}

Start(r, w, default) ==
  /\ run[r].at = "idle"
  /\ \E listed \in BOOLEAN :
     LET picked == IF listed THEN Pick(card, ReviewTask, Candidates(w), CardOf(w)) ELSE {} IN
     \E v \in IF listed /\ Eligible(card, ReviewTask, Candidates(w)) # {} THEN picked ELSE {default} :
       run' = [run EXCEPT ![r] = [NoRun EXCEPT !.at = "create", !.writer = w, !.reviewer = v,
                                               !.listed = listed, !.routed = v \in picked,
                                               !.now = clock]]
  /\ UNCHANGED <<card, db, clock, op>>

\* The rows of the run, unless another run began in the millisecond and had its rows first
\* (then the key of the first is refused).
Create(r) ==
  /\ run[r].at = "create"
  /\ LET now == run[r].now IN
     IF <<"impl", now>> \in Rows
     THEN run' = [run EXCEPT ![r].at = "over"] /\ UNCHANGED db
     ELSE /\ db' = [t \in TaskIds |->
                      IF t \in {<<"impl", now>>, <<"review", now>>} THEN Opened(now) ELSE db[t]]
          /\ run' = [run EXCEPT ![r].at = "assign", ![r].stamp = now]
  /\ UNCHANGED <<card, clock, op>>

\* What comes before a task is assigned may fail: the artifact of the specification, the
\* worktree, and between the stages the commit, the diff and its artifact.
Break(r) ==
  /\ run[r].at \in {"create", "assign"}
  /\ run' = [run EXCEPT ![r].at = "over"]
  /\ UNCHANGED <<card, db, clock, op>>

\* assign looks at no state; both tasks get the worktree of the run.  Its agent has to be
\* registered (a foreign key).
Assign(r) ==
  /\ run[r].at = "assign"
  /\ IF AgentOf(r) \in Registered
     THEN /\ db' = [db EXCEPT ![Own(r)].assignee = AgentOf(r), ![Own(r)].worktree = run[r].stamp]
          /\ run' = [run EXCEPT ![r].at = "claim"]
     ELSE run' = [run EXCEPT ![r].at = "over"] /\ UNCHANGED db
  /\ UNCHANGED <<card, clock, op>>

\* open -> claimed -> working; a refusal ends the run.
Move(r) ==
  /\ run[r].at \in {"claim", "spawn"}
  /\ LET to == IF run[r].at = "claim" THEN "claimed" ELSE "working" IN
     IF CanTransition(db[Own(r)].state, to)
     THEN /\ db' = [db EXCEPT ![Own(r)].state = to]
          /\ run' = [run EXCEPT ![r].at = IF @ = "claim" THEN "spawn" ELSE "session"]
     ELSE run' = [run EXCEPT ![r].at = "over"] /\ UNCHANGED db
  /\ UNCHANGED <<card, clock, op>>

\* The session succeeds: its task is done (a refusal ends the run) and the review is next ...
Succeed(r) ==
  /\ InSession(r)
  /\ IF CanTransition(db[Own(r)].state, "done")
     THEN /\ db' = [db EXCEPT ![Own(r)].state = "done"]
          /\ run' = [run EXCEPT ![r].at = IF run[r].part = "impl" THEN "assign" ELSE "over",
                                ![r].part = "review"]
     ELSE run' = [run EXCEPT ![r].at = "over"] /\ UNCHANGED db
  /\ UNCHANGED <<card, clock, op>>

\* ... or it fails: so does its task, if that is still possible.
Fail(r) ==
  /\ InSession(r)
  /\ db' = IF CanTransition(db[Own(r)].state, "failed")
           THEN [db EXCEPT ![Own(r)].state = "failed"] ELSE db
  /\ run' = [run EXCEPT ![r].at = "over"]
  /\ UNCHANGED <<card, clock, op>>

-----------------------------------------------------------------------------
(* The MCP clients.                                                        *)

Delegate(c, trace) ==
  /\ op[c] = NoOp
  /\ Check(card, SpeaksFor[c], "delegate")
  /\ <<"deleg", clock>> \notin Rows
  /\ db' = [db EXCEPT ![<<"deleg", clock>>] = Opened(trace)]
  /\ UNCHANGED <<card, clock, run, op>>

\* No kind, or one of those there are rows of.
KindFilters == {TaskKinds, {"implement"}, {"review"}}

\* claim_task: the first open task of the kinds asked for, then its assignee, then its state.
ClaimList(c, kinds) ==
  /\ op[c] = NoOp
  /\ Check(card, SpeaksFor[c], "claim")
  /\ LET open == {t \in Rows : db[t].state = "open" /\ KindOf(t) \in kinds} IN
     /\ open # {}
     /\ op' = [op EXCEPT ![c] = [at |-> "assign", task |-> First(open), claims |-> TRUE,
                                 next |-> "claimed"]]
  /\ UNCHANGED <<card, db, clock, run>>

ClaimAssign(c) ==
  /\ op[c].at = "assign"
  /\ IF SpeaksFor[c] \in Registered
     THEN /\ db' = [db EXCEPT ![op[c].task].assignee = SpeaksFor[c]]
          /\ op' = [op EXCEPT ![c].at = "move"]
     ELSE op' = [op EXCEPT ![c] = NoOp] /\ UNCHANGED db
  /\ UNCHANGED <<card, clock, run>>

\* complete_task: the state it reads says where the walk to done begins.
Complete(c, t) ==
  /\ op[c] = NoOp
  /\ t \in Rows /\ db[t].state \in {"open", "claimed", "working"}
  /\ op' = [op EXCEPT ![c] = [at |-> "move", task |-> t, claims |-> FALSE,
                              next |-> CASE db[t].state = "open" -> "claimed"
                                         [] db[t].state = "claimed" -> "working"
                                         [] OTHER -> "done"]]
  /\ UNCHANGED <<card, db, clock, run>>

\* The last call of a claim, or the next one of a completion; a refusal ends it.
ClientMove(c) ==
  /\ op[c].at = "move"
  /\ LET t == op[c].task
         to == op[c].next
         moves == CanTransition(db[t].state, to)
         goesOn == moves /\ ~ op[c].claims /\ to # "done"
     IN  /\ db' = IF moves THEN [db EXCEPT ![t].state = to] ELSE db
         /\ op' = [op EXCEPT ![c] = IF goesOn
                                    THEN [@ EXCEPT !.next = IF to = "claimed" THEN "working" ELSE "done"]
                                    ELSE NoOp]
  /\ UNCHANGED <<card, clock, run>>

-----------------------------------------------------------------------------
(* The queries.                                                            *)

\* explain_route: the author is the assignee of the first implement task of the trace.
Author(t) ==
  LET S == {u \in Rows : db[u].trace = db[t].trace /\ KindOf(u) = "implement"}
  IN  IF S # {} /\ db[First(S)].assignee \in Registered THEN db[First(S)].assignee ELSE 0

OneShot(kind) == kind \in {"review", "research", "analyze", "report"}

\* Mutant: every task is taken to need several turns.
ExplainTurns(t) ==
  Pick(card, [kind |-> KindOf(t), multiTurn |-> TRUE],
       Registered \ {Author(t)}, CardOf(Author(t)))
Explain(t) ==
  Pick(card, [kind |-> KindOf(t), multiTurn |-> ~ OneShot(KindOf(t))],
       Registered \ {Author(t)}, CardOf(Author(t)))

\* hook.pretooluse: the tasks an agent is at work on in a worktree, of which the first
\* gives the boundary.
\* Mutant: finished tasks count as well.
AtWorkEver(a) ==
  {t \in Rows : db[t].assignee = a /\ db[t].state # "open" /\ db[t].worktree # 0}
AtWork(a) ==
  {t \in Rows : db[t].assignee = a /\ db[t].state = "working" /\ db[t].worktree # 0}

\* {worktree_root}/{task id}, relative to the daemon's directory.
WorktreePath(stamp) == [abs |-> FALSE, comps |-> <<".divan", "worktrees", DirName[stamp]>>]

HookAllows(a, path) ==
  LET tasks == AtWork(a)
  IN  tasks # {} => CheckWrite(card, a, path, WorktreePath(db[First(tasks)].worktree))

-----------------------------------------------------------------------------
RunNext(r) ==
  \/ \E q \in Requests : Start(r, q[1], q[2])
  \/ Create(r) \/ Break(r) \/ Assign(r) \/ Move(r) \/ Succeed(r) \/ Fail(r)

ClientNext(c) ==
  \/ \E trace \in 1 .. clock : Delegate(c, trace)
  \/ \E t \in TaskIds : Complete(c, t)
  \/ \E kinds \in KindFilters : ClaimList(c, kinds)
  \/ ClaimAssign(c) \/ ClientMove(c)

Next ==
  \/ Tick
  \/ \E r \in Runs : RunNext(r)
  \/ \E c \in Clients : ClientNext(c)

Spec == Init /\ [][Next]_vars

-----------------------------------------------------------------------------
(* Properties.                                                             *)

TypeOK ==
  /\ card \in [Agents -> Card \cup {Unregistered}]
  /\ clock \in Stamps
  /\ db \in [TaskIds -> [state : TaskState \cup {"absent"}, assignee : Registered \cup {0},
                         worktree : Stamps \cup {0}, trace : Stamps \cup {0}]]
  /\ run \in [Runs -> [at : {"idle", "create", "assign", "claim", "spawn", "session", "over"},
                       part : {"impl", "review"}, writer : Agents \cup {0},
                       reviewer : Agents \cup {0}, listed : BOOLEAN, routed : BOOLEAN,
                       now : Stamps \cup {0}, stamp : Stamps \cup {0}]]
  /\ op \in [Clients -> [at : {"idle", "assign", "move"}, task : TaskIds \cup {NoTask},
                         claims : BOOLEAN, next : TaskState]]
  /\ \A c \in Clients : op[c].at # "idle" => op[c].task \in TaskIds

\* The order of two reviewers.  Another vendor and a review skill are what the rule for
\* reviews prefers (router.rs:264), the first being worth more; among equals it is the order
\* of the comment in pick (router.rs:190-194): "a full multi-turn adapter over a degraded
\* one-shot", "cheaper cost_class", "id asc".  (The doc of pick, router.rs:150, leaves the
\* turns out.)
Preferred(w, a, b) ==
  LET other(c) == CardOf(w) # Unregistered /\ card[c].tool # CardOf(w).tool
      skilled(c) == "review" \in card[c].skills
      turns(c) == card[c].multiTurn
      vendorsAlike == other(a) <=> other(b)
      skillsAlike == skilled(a) <=> skilled(b)
      turnsAlike == turns(a) <=> turns(b)
  IN  \/ other(a) /\ ~ other(b)
      \/ vendorsAlike /\ skilled(a) /\ ~ skilled(b)
      \/ vendorsAlike /\ skillsAlike /\ turns(a) /\ ~ turns(b)
      \/ /\ vendorsAlike /\ skillsAlike /\ turnsAlike
         /\ card[a].cost < card[b].cost \/ (card[a].cost = card[b].cost /\ a < b)

\* Where the cards could be read, a run's reviewer is another agent than its writer, and the
\* one to prefer among all others: the scores of router.rs add up to that order whatever the
\* cards are.
ReviewerIsBest ==
  \A r \in Runs :
    run[r].at # "idle" /\ run[r].listed /\ Registered \ {run[r].writer} # {} =>
      /\ run[r].reviewer \in Registered \ {run[r].writer}
      /\ \A c \in Registered \ {run[r].writer, run[r].reviewer} :
           Preferred(run[r].writer, run[r].reviewer, c)

\* `divan router explain` of a review task names the agent that reviews it, as long as
\* the trace's first implement task is the run's and is still assigned to its writer.
ExplainAgrees ==
  \A r \in Runs :
    LET impl == <<"impl", run[r].stamp>> IN
    /\ run[r].routed /\ run[r].stamp # 0
    /\ db[impl].assignee = run[r].writer
    /\ \A t \in Rows \ {impl} :
         db[t].trace = run[r].stamp /\ KindOf(t) = "implement" => Before(impl, t)
    => Explain(<<"review", run[r].stamp>>) = {run[r].reviewer}

\* Locations of files, and the paths a session in the worktree of run r may give for one:
\* straight, from the worktree over the root, relative over the root, and relative.
WorktreeDir(stamp) == Cwd \o <<".divan", "worktrees", DirName[stamp]>>
Locations == {dir \o <<"file">> : dir \in {Cwd} \cup {WorktreeDir(s) : s \in Stamps}}
Up(n) == [i \in 1 .. n |-> ".."]
Spellings(stamp, loc) ==
  LET wt == WorktreeDir(stamp) IN
  { [abs |-> TRUE, comps |-> loc],
    [abs |-> TRUE, comps |-> wt \o Up(Len(wt)) \o loc],
    [abs |-> FALSE, comps |-> Up(Len(wt) + 1) \o loc] }
  \cup IF IsPrefix(wt, loc)
       THEN {[abs |-> FALSE, comps |-> <<".">> \o SubSeq(loc, Len(wt) + 1, Len(loc))]} ELSE {}

\* "allow it only if the path is inside the agent's active-task worktree" (rpc.rs:555).  As
\* long as the session's task is working and still its agent's, and the agent is at work on
\* no older task that has a worktree (an older run's, or one it claimed), what the hook
\* answers to the session is whether the agent may write and the file is in the worktree of
\* that session: for each of the four spellings above, and whatever newer tasks the agent
\* works on and older ones it has finished.
BoundaryHolds ==
  \A r \in Runs :
    /\ InSession(r) /\ db[Own(r)].state = "working" /\ db[Own(r)].assignee = AgentOf(r)
    /\ \A t \in Rows \ {Own(r)} :
         db[t].assignee = AgentOf(r) /\ db[t].worktree # 0 /\ db[t].state = "working"
         => Before(Own(r), t)
    => LET home == WorktreeDir(run[r].stamp) IN
       \A loc \in Locations : \A path \in Spellings(run[r].stamp, loc) :
         HookAllows(AgentOf(r), path) <=>
           HasCap(card, AgentOf(r), "write") /\ IsPrefix(home, loc)

-----------------------------------------------------------------------------
(* Why they hold.                                                          *)

\* The reviewer of a run that has started was picked by the router from the cards as they
\* still are, or is the default where there was nobody to pick or the cards were not read.
ChoiceInv ==
  \A r \in Runs :
    run[r].at # "idle" =>
      /\ run[r].writer \in Agents
      /\ IF run[r].routed
         THEN run[r].reviewer \in Pick(card, ReviewTask, Candidates(run[r].writer),
                                       CardOf(run[r].writer))
         ELSE run[r].listed => Eligible(card, ReviewTask, Candidates(run[r].writer)) = {}

\* A run past the creation of its rows has them, with its trace, and no other run has its
\* millisecond; from the assignment of a stage on, the task of the stage has the worktree
\* of the run, whoever is its assignee by then.
OwnRowsInv ==
  /\ \A r \in Runs :
       /\ run[r].stamp # 0 =>
            \A t \in {<<"impl", run[r].stamp>>, <<"review", run[r].stamp>>} :
              t \in Rows /\ db[t].trace = run[r].stamp
       /\ run[r].at \in {"assign", "claim", "spawn", "session"} => run[r].stamp # 0
       /\ run[r].at \in {"idle", "create"} => run[r].stamp = 0
       /\ run[r].at = "create" => run[r].now # 0
       /\ run[r].at \in {"claim", "spawn", "session"} => db[Own(r)].worktree = run[r].stamp
  /\ \A r, q \in Runs : run[r].stamp # 0 /\ run[r].stamp = run[q].stamp => r = q

Inductive == TypeOK /\ ChoiceInv /\ OwnRowsInv
=============================================================================
