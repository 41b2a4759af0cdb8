--------------------------- MODULE TaskScheduler ---------------------------
(***************************************************************************)
(* The core of divan-daemon: the task table, the write-review runs that    *)
(* the scheduler drives over it, the MCP clients that claim, complete and  *)
(* delegate tasks on the same table, and the daemon's crashes and          *)
(* restarts.  (The agent processes are AgentSession's.)                    *)
(*                                                                         *)
(* Every repository call of divan-db takes the connection mutex for its    *)
(* own duration only, and each RPC is served by its own tokio task, so the *)
(* unit of atomicity is one database call: each action below is one call   *)
(* (or one await) of its handler, and the calls of different handlers      *)
(* interleave.  Everything in `db` survives a crash; the progress of a     *)
(* handler does not.  `spawned` and `moved` are history variables: no      *)
(* action reads them.                                                      *)
(***************************************************************************)
EXTENDS TaskStates, FiniteSets

CONSTANTS
  Flows,          \* `divan run` requests (write-review runs)
  Clients,        \* connections of MCP clients
  Agents,         \* agent ids a caller may name
  Adapters,       \* the agents the daemon registers at start
  Delegators,     \* agents whose card has the `delegate` capability
  Nobody,         \* no assignee
  Requests,       \* the <<writer, reviewer>> pairs of the runs
  Caller,         \* the agent each MCP client speaks for
  Delegated,      \* the kinds of the tasks delegated
  Reporters,      \* the agents whose hooks report activity
  MaxRetries,     \* Scheduler::max_retries
  MaxBoots        \* bound on daemon starts

ASSUME SchedulerAssumption ==
  /\ Adapters \subseteq Agents
  /\ Delegators \subseteq Adapters
  /\ Nobody \notin Agents
  /\ Requests \subseteq Agents \X Agents
  /\ Caller \in [Clients -> Agents]
  /\ Delegated \subseteq Kind
  /\ Reporters \subseteq Agents
  /\ MaxRetries \in Nat
  /\ MaxBoots \in Nat \ {0}

VARIABLES
  clock,          \* now_ms(), bounded by MaxStamp
  daemon,         \* phase of the daemon process
  boots,          \* daemon starts so far
  pending,        \* what the start in progress has listed and not reconciled yet
  task,           \* table tasks: id -> row
  deps,           \* table task_deps: pairs <<task, blocked by>>
  agent,          \* column agents.status
  step,           \* the next call of each run
  run,            \* local variables of each run
  op,             \* the MCP request each client has in progress
  held,           \* tasks each client was told it claimed
  spawned,        \* history: sessions spawned for each stage of each run
  moved           \* history: tasks whose state some client changed

db == <<task, deps, agent>>
vars == <<clock, daemon, boots, pending, db, step, run, op, held, spawned, moved>>

-----------------------------------------------------------------------------
(* Rows, runs and requests.                                                *)

NoRow == [state |-> "absent", kind |-> "plan", assignee |-> Nobody]
Row == [state : TaskState \cup {"absent"}, kind : Kind, assignee : Agents \cup {Nobody}]

Stage == {"impl", "review"}

\* The rows a reconciliation has listed and still has to go through.
Nothing == [tasks |-> {}, agents |-> {}]

\* Steps of run_write_review before, within and after a stage.
Setup == {"create_root", "create_impl", "create_review", "add_dep", "worktree"}
StageStep == {"busy", "assign", "claim", "work", "spawn", "observe", "fail_task",
              "fail_root", "fail_idle", "done", "release", "snapshot"}
Closing == {"root_claim", "root_work", "report", "root_done"}
LiveStep == Setup \cup StageStep \cup Closing
Stopped == {"implement_failed", "review_failed", "errored", "lost"}
Step == {"idle", "reported"} \cup LiveStep \cup Stopped

\* FinalReport's implement_state and review_state are run[f].report.
NoReport == <<"absent", "absent">>
Idle == [stamp |-> 0, writer |-> Nobody, reviewer |-> Nobody, stage |-> "impl",
         attempt |-> 0, report |-> NoReport]
Run == [stamp : Stamps \cup {0}, writer : Agents \cup {Nobody},
        reviewer : Agents \cup {Nobody}, stage : Stage, attempt : 0 .. MaxRetries,
        report : (TaskState \cup {"absent"}) \X (TaskState \cup {"absent"})]

NoTask == <<"root", 0>>
NoOp == [at |-> "idle", task |-> NoTask, next |-> "claimed"]
Op == [at : {"idle", "assign", "transition", "complete"}, task : TaskIds \cup {NoTask},
       next : {"claimed", "working", "done"}]

Id(f, prefix) == <<prefix, run[f].stamp>>
Current(f) == Id(f, run[f].stage)
Actor(f) == IF run[f].stage = "impl" THEN run[f].writer ELSE run[f].reviewer

State(t) == IF t \in TaskIds THEN task[t].state ELSE "absent"
ActiveTasks == {t \in TaskIds : task[t].state \in Active}
Registered == {a \in Agents : agent[a] # "absent"}

-----------------------------------------------------------------------------
(* Database calls.                                                         *)

\* TaskStore::create_task; an id already in the table is an error.
\* Mutant: create_task as INSERT OR REPLACE.
CreateOverwriting(t) == TRUE
CanCreate(t) == task[t].state = "absent"
Create(t, kind) ==
  task' = [task EXCEPT ![t] = [state |-> "open", kind |-> kind, assignee |-> Nobody]]

\* TaskStore::transition: check and update in one transaction.
\* Mutant: transition without the check in its transaction.
CanMoveUnchecked(t, to) == task[t].state # "absent"
CanMove(t, to) == CanTransition(task[t].state, to)
Move(t, to) == task' = [task EXCEPT ![t].state = to]

\* TaskStore::assign looks at no state; the assignee must have an agents row.
CanAssign(t, a) == task[t].state # "absent" /\ a \in Registered
Assign(t, a) == task' = [task EXCEPT ![t].assignee = a]

DepsSatisfied(t) == \A d \in deps : d[1] = t => task[d[2]].state = "done"

\* AgentStore::set_agent_status updates no row for an unknown agent.
SetStatus(a, s) ==
  agent' = IF a \in Registered THEN [agent EXCEPT ![a] = s] ELSE agent

-----------------------------------------------------------------------------
Init ==
  /\ clock = 1
  /\ daemon = "down"
  /\ boots = 0
  /\ task = [t \in TaskIds |-> NoRow]
  /\ deps = {}
  /\ agent = [a \in Agents |-> "absent"]
  /\ step = [f \in Flows |-> "idle"]
  /\ run = [f \in Flows |-> Idle]
  /\ pending = Nothing
  /\ op = [c \in Clients |-> NoOp]
  /\ held = [c \in Clients |-> {}]
  /\ spawned = [f \in Flows |-> [s \in Stage |-> 0]]
  /\ moved = {}

Tick ==
  /\ clock < MaxStamp
  /\ clock' = clock + 1
  /\ UNCHANGED <<daemon, boots, pending, db, step, run, op, held, spawned, moved>>

-----------------------------------------------------------------------------
(* Daemon start, reconciliation and death (main.rs, lifecycle.rs).         *)

Boot ==
  /\ daemon = "down"
  /\ boots < MaxBoots
  /\ daemon' = "starting"
  /\ boots' = boots + 1
  /\ UNCHANGED <<clock, pending, db, step, run, op, held, spawned, moved>>

\* reconcile lists the tasks once, and goes through that list: it never looks
\* again at what the table holds.
\* Mutant: claimed tasks forgotten.
OrphanedWorkingOnly == {t \in TaskIds : task[t].state = "working"}
Orphaned == ActiveTasks
ListTasks ==
  /\ daemon = "starting"
  /\ daemon' = "reconciling"
  /\ pending' = [pending EXCEPT !.tasks = Orphaned]
  /\ UNCHANGED <<clock, boots, db, step, run, op, held, spawned, moved>>

\* First loop: the oldest task left on the list fails; a refused transition
\* ends the start.
ReconcileTask ==
  /\ daemon = "reconciling"
  /\ \E t \in pending.tasks :
       /\ \A u \in pending.tasks \ {t} : Before(t, u)
       /\ IF CanMove(t, "failed")
          THEN /\ Move(t, "failed")
               /\ pending' = [pending EXCEPT !.tasks = @ \ {t}]
               /\ UNCHANGED daemon
          ELSE daemon' = "down" /\ pending' = Nothing /\ UNCHANGED task
  /\ UNCHANGED <<clock, boots, deps, agent, step, run, op, held, spawned, moved>>

\* Second loop, over a list of the agents taken after the first one.
Awake == {a \in Agents : agent[a] \in {"idle", "busy"}}
ListAgents ==
  /\ daemon = "reconciling" /\ pending.tasks = {}
  /\ daemon' = "signing_off"
  /\ pending' = [pending EXCEPT !.agents = Awake]
  /\ UNCHANGED <<clock, boots, db, step, run, op, held, spawned, moved>>

ReconcileAgent(a) ==
  /\ daemon = "signing_off" /\ a \in pending.agents
  /\ agent' = [agent EXCEPT ![a] = "offline"]
  /\ pending' = [pending EXCEPT !.agents = @ \ {a}]
  /\ UNCHANGED <<clock, daemon, boots, task, deps, step, run, op, held, spawned, moved>>

ReconcileDone ==
  /\ daemon = "signing_off" /\ pending.agents = {}
  /\ daemon' = "registering"
  /\ UNCHANGED <<clock, boots, pending, db, step, run, op, held, spawned, moved>>

\* register_adapter upserts the whole card, status Idle included.
RegisterAdapter(a) ==
  /\ daemon = "registering"
  /\ agent[a] # "idle"
  /\ agent' = [agent EXCEPT ![a] = "idle"]
  /\ UNCHANGED <<clock, daemon, boots, pending, task, deps, step, run, op, held, spawned, moved>>

Serve ==
  /\ daemon = "registering"
  /\ \A a \in Adapters : agent[a] = "idle"
  /\ daemon' = "up"
  /\ UNCHANGED <<clock, boots, pending, db, step, run, op, held, spawned, moved>>

\* A crash, a kill or `divan down`: every handler in progress is dropped.
Crash ==
  /\ daemon # "down"
  /\ daemon' = "down"
  /\ step' = [f \in Flows |-> IF step[f] \in LiveStep THEN "lost" ELSE step[f]]
  /\ op' = [c \in Clients |-> NoOp]
  /\ pending' = Nothing
  /\ UNCHANGED <<clock, boots, db, run, held, spawned, moved>>

-----------------------------------------------------------------------------
(* Scheduler::run_write_review, call by call.                              *)

At(f, s) == daemon = "up" /\ step[f] = s
Goto(f, s) == step' = [step EXCEPT ![f] = s]

\* `now` is read once and names all three tasks; the router picks some agent.
\* The spec artifact may fail to be stored, before any task exists.
Start(f, w, r) ==
  /\ At(f, "idle")
  /\ run' = [run EXCEPT ![f].stamp = clock, ![f].writer = w, ![f].reviewer = r]
  /\ Goto(f, "create_root") \/ Goto(f, "errored")
  /\ UNCHANGED <<clock, daemon, boots, pending, db, op, held, spawned, moved>>

CreateTask(f, here, prefix, next) ==
  /\ At(f, here)
  /\ IF CanCreate(Id(f, prefix))
     THEN Create(Id(f, prefix), PrefixKind[prefix]) /\ Goto(f, next)
     ELSE Goto(f, "errored") /\ UNCHANGED task
  /\ UNCHANGED <<clock, daemon, boots, pending, deps, agent, run, op, held, spawned, moved>>

CreateTasks(f) ==
  \/ CreateTask(f, "create_root", "root", "create_impl")
  \/ CreateTask(f, "create_impl", "impl", "create_review")
  \/ CreateTask(f, "create_review", "review", "add_dep")

AddDep(f) ==
  /\ At(f, "add_dep")
  /\ deps' = deps \cup {<<Id(f, "review"), Id(f, "impl")>>}
  /\ Goto(f, "worktree")
  /\ UNCHANGED <<clock, daemon, boots, pending, task, agent, run, op, held, spawned, moved>>

\* git may refuse; the tasks then stay open.
CreateWorktree(f) ==
  /\ At(f, "worktree")
  /\ Goto(f, "busy") \/ Goto(f, "errored")
  /\ UNCHANGED <<clock, daemon, boots, pending, db, run, op, held, spawned, moved>>

SetBusy(f) ==
  /\ At(f, "busy")
  /\ SetStatus(Actor(f), "busy")
  /\ Goto(f, "assign")
  /\ UNCHANGED <<clock, daemon, boots, pending, task, deps, run, op, held, spawned, moved>>

AssignTask(f) ==
  /\ At(f, "assign")
  /\ IF CanAssign(Current(f), Actor(f))
     THEN Assign(Current(f), Actor(f)) /\ Goto(f, "claim")
     ELSE Goto(f, "errored") /\ UNCHANGED task
  /\ UNCHANGED <<clock, daemon, boots, pending, deps, agent, run, op, held, spawned, moved>>

\* self.transition(..)?: a refused transition ends the run on the spot.
MoveOrErr(f, here, t, to, next) ==
  /\ At(f, here)
  /\ IF CanMove(t, to)
     THEN Move(t, to) /\ Goto(f, next)
     ELSE Goto(f, "errored") /\ UNCHANGED task
  /\ UNCHANGED <<clock, daemon, boots, pending, deps, agent, run, op, held, spawned, moved>>

\* self.transition(..).ok(): a refused transition changes nothing.
MoveOrSkip(f, here, t, to, next) ==
  /\ At(f, here)
  /\ Goto(f, next)
  /\ IF CanMove(t, to) THEN Move(t, to) ELSE UNCHANGED task
  /\ UNCHANGED <<clock, daemon, boots, pending, deps, agent, run, op, held, spawned, moved>>

ClaimStage(f) == MoveOrErr(f, "claim", Current(f), "claimed", "work")
StartWork(f) == MoveOrErr(f, "work", Current(f), "working", "spawn")

\* Adapter spawn and observe of one attempt; a CLI that cannot start is fatal.
Spawn(f) ==
  /\ At(f, "spawn")
  /\ spawned' = [spawned EXCEPT ![f][run[f].stage] = @ + 1]
  /\ Goto(f, "observe") \/ Goto(f, "fail_task")
  /\ UNCHANGED <<clock, daemon, boots, pending, db, run, op, held, moved>>

SessionSucceeds(f) ==
  /\ At(f, "observe")
  /\ Goto(f, "done")
  /\ UNCHANGED <<clock, daemon, boots, pending, db, run, op, held, spawned, moved>>

\* SessionEnd{ok: false}, Error{fatal}, or stdout closed without a result.
SessionFails(f) ==
  /\ At(f, "observe")
  /\ Goto(f, "fail_task")
  /\ UNCHANGED <<clock, daemon, boots, pending, db, run, op, held, spawned, moved>>

\* Error{retryable}: spawn again while attempts are left.
\* Mutant: one attempt too many.
RetriesInclusive(f) == run[f].attempt <= MaxRetries
RetriesLeft(f) == run[f].attempt < MaxRetries
SessionRetries(f) ==
  /\ At(f, "observe")
  /\ IF RetriesLeft(f)
     THEN Goto(f, "spawn") /\ run' = [run EXCEPT ![f].attempt = @ + 1]
     ELSE Goto(f, "fail_task") /\ UNCHANGED run
  /\ UNCHANGED <<clock, daemon, boots, pending, db, op, held, spawned, moved>>

\* The watchdog has the adapter kill the process and gives the session up,
\* whether or not the process dies (AgentSession).
\* Mutant: no timeout around the event loop.
NoWatchdog(f) == FALSE
WatchdogKills(f) ==
  /\ At(f, "observe")
  /\ Goto(f, "fail_task")
  /\ UNCHANGED <<clock, daemon, boots, pending, db, run, op, held, spawned, moved>>

\* fail_task, then root -> failed (both ignore refusals), then set_idle.
\* Mutant: the failed task is left as it is.
FailNothing(f) ==
  /\ At(f, "fail_task")
  /\ Goto(f, "fail_root")
  /\ UNCHANGED <<clock, daemon, boots, pending, db, run, op, held, spawned, moved>>
FailTask(f) == MoveOrSkip(f, "fail_task", Current(f), "failed", "fail_root")
FailRoot(f) == MoveOrSkip(f, "fail_root", Id(f, "root"), "failed", "fail_idle")
FailIdle(f) ==
  /\ At(f, "fail_idle")
  /\ SetStatus(Actor(f), "idle")
  /\ Goto(f, IF run[f].stage = "impl" THEN "implement_failed" ELSE "review_failed")
  /\ UNCHANGED <<clock, daemon, boots, pending, task, deps, run, op, held, spawned, moved>>

\* Mutant: the stage ends in review.
CompleteToReview(f) == MoveOrErr(f, "done", Current(f), "review", "release")
CompleteStage(f) == MoveOrErr(f, "done", Current(f), "done", "release")
Release(f) ==
  /\ At(f, "release")
  /\ SetStatus(Actor(f), "idle")
  /\ Goto(f, "snapshot")
  /\ UNCHANGED <<clock, daemon, boots, pending, task, deps, run, op, held, spawned, moved>>

\* Mutant: the review stage goes on counting the attempts of the implement stage.
SnapshotKeepsAttempts(f) ==
  /\ At(f, "snapshot")
  /\ \/ Goto(f, "errored") /\ UNCHANGED run
     \/ /\ run[f].stage = "impl"
        /\ Goto(f, "busy")
        /\ run' = [run EXCEPT ![f].stage = "review"]
     \/ run[f].stage = "review" /\ Goto(f, "root_claim") /\ UNCHANGED run
  /\ UNCHANGED <<clock, daemon, boots, pending, db, op, held, spawned, moved>>

\* implement: commit the worktree, diff it, store the diff; review: store the
\* review.  Any of these may fail and end the run.
Snapshot(f) ==
  /\ At(f, "snapshot")
  /\ \/ Goto(f, "errored") /\ UNCHANGED run
     \/ /\ run[f].stage = "impl"
        /\ Goto(f, "busy")
        /\ run' = [run EXCEPT ![f].stage = "review", ![f].attempt = 0]
     \/ run[f].stage = "review" /\ Goto(f, "root_claim") /\ UNCHANGED run
  /\ UNCHANGED <<clock, daemon, boots, pending, db, op, held, spawned, moved>>

ClaimRoot(f) == MoveOrSkip(f, "root_claim", Id(f, "root"), "claimed", "root_work")
WorkRoot(f) == MoveOrSkip(f, "root_work", Id(f, "root"), "working", "report")

\* Read both children, store the manifest.
WriteReport(f) ==
  /\ At(f, "report")
  /\ run' = [run EXCEPT ![f].report = <<State(Id(f, "impl")), State(Id(f, "review"))>>]
  /\ Goto(f, "root_done") \/ Goto(f, "errored")
  /\ UNCHANGED <<clock, daemon, boots, pending, db, op, held, spawned, moved>>

\* Mutant: the answer leaves before the root task is done.
ReportEarly(f) ==
  /\ At(f, "root_done")
  /\ Goto(f, "reported")
  /\ UNCHANGED <<clock, daemon, boots, pending, db, run, op, held, spawned, moved>>
CompleteRoot(f) == MoveOrErr(f, "root_done", Id(f, "root"), "done", "reported")

-----------------------------------------------------------------------------
(* MCP requests (rpc.rs) and the activity hook.                            *)

\* delegate_task, allowed to agents with the capability.
DelegateTask(kind) ==
  /\ daemon = "up"
  /\ Delegators \cap Registered # {}
  /\ CanCreate(<<"deleg", clock>>)
  /\ Create(<<"deleg", clock>>, kind)
  /\ UNCHANGED <<clock, daemon, boots, pending, deps, agent, step, run, op, held, spawned, moved>>

OpenTasks(kinds) == {t \in TaskIds : task[t].state = "open" /\ task[t].kind \in kinds}

\* claim_task: list, pick the oldest open task of the kinds asked for ...
ClaimList(c, kinds) ==
  /\ daemon = "up" /\ op[c].at = "idle"
  /\ \E t \in OpenTasks(kinds) :
       /\ \A u \in OpenTasks(kinds) \ {t} : Before(t, u)
       /\ op' = [op EXCEPT ![c] = [at |-> "assign", task |-> t, next |-> "claimed"]]
  /\ UNCHANGED <<clock, daemon, boots, pending, db, step, run, held, spawned, moved>>

\* ... assign it to the caller ...
ClaimAssign(c) ==
  /\ daemon = "up" /\ op[c].at = "assign"
  /\ IF CanAssign(op[c].task, Caller[c])
     THEN Assign(op[c].task, Caller[c]) /\ op' = [op EXCEPT ![c].at = "transition"]
     ELSE op' = [op EXCEPT ![c] = NoOp] /\ UNCHANGED task
  /\ UNCHANGED <<clock, daemon, boots, pending, deps, agent, step, run, held, spawned, moved>>

\* ... and move it open -> claimed; the reply may not reach the client.
ClaimTransition(c) ==
  /\ daemon = "up" /\ op[c].at = "transition"
  /\ op' = [op EXCEPT ![c] = NoOp]
  /\ IF CanMove(op[c].task, "claimed")
     THEN /\ Move(op[c].task, "claimed")
          /\ moved' = moved \cup {op[c].task}
          /\ \/ held' = [held EXCEPT ![c] = @ \cup {op[c].task}]
             \/ UNCHANGED held
     ELSE UNCHANGED <<task, held, moved>>
  /\ UNCHANGED <<clock, daemon, boots, pending, deps, agent, step, run, spawned>>

\* complete_task: read the state, then walk claimed -> working -> done.
NextOnPath == [open |-> "claimed", claimed |-> "working", working |-> "done", review |-> "done"]
CompleteRead(c, t) ==
  /\ daemon = "up" /\ op[c].at = "idle"
  /\ task[t].state \in {"open"} \cup Active
  /\ op' = [op EXCEPT ![c] = [at |-> "complete", task |-> t,
                              next |-> NextOnPath[task[t].state]]]
  /\ UNCHANGED <<clock, daemon, boots, pending, db, step, run, held, spawned, moved>>

CompleteStep(c) ==
  /\ daemon = "up" /\ op[c].at = "complete"
  /\ IF CanMove(op[c].task, op[c].next)
     THEN /\ Move(op[c].task, op[c].next)
          /\ moved' = moved \cup {op[c].task}
          /\ op' = [op EXCEPT ![c] = IF op[c].next = "done" THEN NoOp
                                     ELSE [op[c] EXCEPT !.next = NextOnPath[op[c].next]]]
     ELSE op' = [op EXCEPT ![c] = NoOp] /\ UNCHANGED <<task, moved>>
  /\ UNCHANGED <<clock, daemon, boots, pending, deps, agent, step, run, held, spawned>>

HookActivity(a) ==
  /\ daemon = "up"
  /\ SetStatus(a, "busy")
  /\ UNCHANGED <<clock, daemon, boots, pending, task, deps, step, run, op, held, spawned, moved>>

-----------------------------------------------------------------------------
DaemonNext ==
  \/ Boot \/ ListTasks \/ ReconcileTask \/ ListAgents \/ ReconcileDone \/ Serve \/ Crash
  \/ \E a \in Agents : ReconcileAgent(a)
  \/ \E a \in Adapters : RegisterAdapter(a)

SessionNext(f) ==
  \/ Spawn(f) \/ SessionSucceeds(f) \/ SessionFails(f) \/ SessionRetries(f)
  \/ WatchdogKills(f) \/ FailTask(f) \/ FailRoot(f) \/ FailIdle(f)

FlowNext(f) ==
  \/ CreateTasks(f) \/ AddDep(f) \/ CreateWorktree(f)
  \/ SetBusy(f) \/ AssignTask(f) \/ ClaimStage(f) \/ StartWork(f)
  \/ SessionNext(f)
  \/ CompleteStage(f) \/ Release(f) \/ Snapshot(f)
  \/ ClaimRoot(f) \/ WorkRoot(f) \/ WriteReport(f) \/ CompleteRoot(f)

ClientNext(c) ==
  \/ \E kinds \in {Kind} \cup {{k} : k \in Kind} : ClaimList(c, kinds)
  \/ ClaimAssign(c) \/ ClaimTransition(c)
  \/ \E t \in TaskIds : CompleteRead(c, t)
  \/ CompleteStep(c)

Next ==
  \/ Tick
  \/ DaemonNext
  \/ \E f \in Flows, r \in Requests : Start(f, r[1], r[2])
  \/ \E f \in Flows : FlowNext(f)
  \/ \E c \in Clients : ClientNext(c)
  \/ \E kind \in Delegated : DelegateTask(kind)
  \/ \E a \in Reporters : HookActivity(a)

Spec == Init /\ [][Next]_vars

\* What the daemon's runtime drives without help from a CLI: its own calls, and
\* the watchdog's timer.  Nothing obliges an agent process to say anything.
SchedulerStep(f) ==
  \/ CreateTasks(f) \/ AddDep(f) \/ CreateWorktree(f)
  \/ SetBusy(f) \/ AssignTask(f) \/ ClaimStage(f) \/ StartWork(f)
  \/ Spawn(f) \/ WatchdogKills(f) \/ FailTask(f) \/ FailRoot(f) \/ FailIdle(f)
  \/ CompleteStage(f) \/ Release(f) \/ Snapshot(f)
  \/ ClaimRoot(f) \/ WorkRoot(f) \/ WriteReport(f) \/ CompleteRoot(f)

FairSpec == Spec /\ \A f \in Flows : WF_vars(SchedulerStep(f))

-----------------------------------------------------------------------------
(* Properties.                                                             *)

TypeOK ==
  /\ clock \in Stamps
  /\ daemon \in {"down", "starting", "reconciling", "signing_off", "registering", "up"}
  /\ boots \in 0 .. MaxBoots
  /\ pending \in [tasks : SUBSET TaskIds, agents : SUBSET Agents]
  /\ task \in [TaskIds -> Row]
  /\ deps \subseteq TaskIds \X TaskIds
  /\ agent \in [Agents -> {"absent", "offline", "idle", "busy"}]
  /\ step \in [Flows -> Step]
  /\ run \in [Flows -> Run]
  /\ op \in [Clients -> Op]
  /\ held \in [Clients -> SUBSET TaskIds]
  /\ spawned \in [Flows -> [Stage -> Nat]]
  /\ moved \subseteq TaskIds

\* The debug_assert before the review stage (scheduler.rs:495): whatever other
\* clients do to the tasks of a run, and through every restart, the run is in
\* its review stage only while its review task's dependencies are all done.
ReviewDepsSatisfied ==
  \A f \in Flows : run[f].stage = "review" => DepsSatisfied(Id(f, "review"))

\* A run that answers with a final report reports both stages as done, and its
\* three tasks are done then and from then on.
ReportIsTrue ==
  \A f \in Flows : step[f] = "reported" =>
    /\ run[f].report = <<"done", "done">>
    /\ \A p \in {"root", "impl", "review"} : State(Id(f, p)) = "done"

AfterClaim == {"work", "spawn", "observe", "fail_task", "fail_root", "fail_idle",
               "done", "release", "snapshot"}
RunHolds(f, t) == step[f] \in AfterClaim /\ Current(f) = t

\* At most one party believes it claimed a task: no two clients are ever told
\* they claimed the same one, and no client holds the task a run is working on,
\* although list, assign and transition are three separate calls (claim_task).
OneClaimant ==
  \A t \in TaskIds :
    /\ \A c, d \in Clients : t \in held[c] /\ t \in held[d] => c = d
    /\ \A f, g \in Flows : RunHolds(f, t) /\ RunHolds(g, t) => f = g
    /\ \A c \in Clients, f \in Flows : ~ (t \in held[c] /\ RunHolds(f, t))

\* A session is spawned and observed only for a task that is being worked on;
\* the one thing a client can do to it meanwhile is to complete it.
SessionHasTask ==
  \A f \in Flows : step[f] \in {"spawn", "observe"} =>
    State(Current(f)) \in {"working", "done"}

\* Two runs started in the same millisecond ask for the same task ids: only one
\* of them gets past the creation of its root task.
RunsOwnTheirTasks ==
  \A f, g \in Flows :
    /\ step[f] \in LiveStep \ {"create_root"} /\ step[g] \in LiveStep \ {"create_root"}
    /\ run[f].stamp = run[g].stamp
    => f = g

\* When reconciliation is over and until the daemon serves again, no task of an
\* earlier incarnation is left claimed, working or in review, and no agent is
\* still shown busy with one -- wherever the previous daemon, or an earlier
\* reconciliation, was cut short, and although the start goes through a list of
\* each table taken once and never looks again (reconcile).
OrphansFailed ==
  daemon = "registering" =>
    /\ ActiveTasks = {}
    /\ \A a \in Agents : agent[a] # "busy"

\* Each stage of a run has its own MaxRetries + 1 sessions, however many the
\* stage before it used up: never one more, and a session that ends retryably
\* is the last one only when that many were spawned (run_session).
RetryBudget ==
  \A f \in Flows :
    /\ \A s \in Stage : spawned[f][s] <= MaxRetries + 1
    /\ step[f] = "observe" =>
         (RetriesLeft(f) <=> spawned[f][run[f].stage] <= MaxRetries)

\* What a stopped run leaves behind, where MCP clients may claim and complete the
\* very tasks of the run (fail_task and the failure of the root drop the refusal
\* of their transition).  scheduler.rs:309 says of a session that failed "never
\* let it reach `done`", scheduler.rs:465 "Failed implement => review never
\* starts"; neither is so when a client moved the task in question, and then only:
\* the task of the failed stage is failed, unless a client completed it under
\* the session; the root is failed, and after a failed implement stage the
\* review is still open, unless a client moved that very task.
FailureStands ==
  \A f \in Flows : step[f] \in {"implement_failed", "review_failed"} =>
    /\ \/ State(Current(f)) = "failed"
       \/ State(Current(f)) = "done" /\ Current(f) \in moved
    /\ State(Id(f, "root")) = "failed" \/ Id(f, "root") \in moved
    /\ step[f] = "implement_failed" =>
         State(Id(f, "review")) = "open" \/ Id(f, "review") \in moved

-----------------------------------------------------------------------------
(* The inductive invariant behind the safety properties.                   *)

\* Past the creation of the root task, or stopped after it by a failed session
\* or with a report.
Owner(f) == step[f] \in (LiveStep \ {"create_root"})
                          \cup {"implement_failed", "review_failed", "reported"}

RunControl(f) ==
  /\ step[f] \in LiveStep => daemon = "up"
  /\ step[f] = "idle" => run[f] = Idle
  /\ step[f] # "idle" => run[f].stamp \in Stamps
  /\ step[f] \in Closing \cup {"reported"} => run[f].stage = "review"

ControlInv ==
  /\ \A c \in Clients : op[c].at # "idle" => op[c].task \in TaskIds
  /\ \A f \in Flows : RunControl(f)

OwnerInv ==
  /\ \A f \in Flows : Owner(f) => State(Id(f, "root")) # "absent"
  /\ \A f, g \in Flows : Owner(f) /\ Owner(g) /\ run[f].stamp = run[g].stamp => f = g

DepsInv == \A d \in deps : \E s \in Stamps : d = <<<<"review", s>>, <<"impl", s>>>>

\* The tasks a run has put behind it are done.
BehindDone(f) ==
  /\ run[f].stage = "review" \/ step[f] \in {"release", "snapshot"}
       => State(Id(f, "impl")) = "done"
  /\ run[f].stage = "review" /\ step[f] \in {"release", "snapshot", "reported"} \cup Closing
       => State(Id(f, "review")) = "done"
  /\ step[f] \in {"root_done", "reported"} => run[f].report = <<"done", "done">>
  /\ step[f] = "reported" => State(Id(f, "root")) = "done"
StageInv == \A f \in Flows : BehindDone(f)

\* What somebody claimed is not open to be claimed again.
ClaimInv ==
  \A t \in TaskIds : task[t].state \in {"absent", "open"} =>
    /\ \A c \in Clients : t \notin held[c]
    /\ \A f \in Flows : ~ RunHolds(f, t)

Inductive == /\ TypeOK /\ ControlInv /\ OwnerInv /\ DepsInv /\ StageInv
             /\ ClaimInv /\ OneClaimant /\ SessionHasTask

\* The list holds what is still to be reconciled.
ListInv ==
  /\ daemon = "reconciling" => pending.tasks = ActiveTasks
  /\ daemon \in {"signing_off", "registering"} => ActiveTasks = {}
  /\ daemon = "signing_off" => Awake \subseteq pending.agents
  /\ daemon = "registering" => \A a \in Agents : agent[a] # "busy"

\* Sessions spawned for a stage: none before it, one per attempt in it.
Spawned(f) ==
  /\ \A s \in Stage : spawned[f][s] <= MaxRetries + 1
  /\ step[f] \in {"idle"} \cup Setup \cup {"busy", "assign", "claim", "work"} =>
       spawned[f][run[f].stage] = 0 /\ run[f].attempt = 0
  /\ step[f] = "spawn" => spawned[f][run[f].stage] = run[f].attempt
  /\ step[f] = "observe" => spawned[f][run[f].stage] = run[f].attempt + 1
  /\ run[f].stage = "impl" => spawned[f]["review"] = 0
SpawnInv == \A f \in Flows : Spawned(f)

\* What a failing run finds and leaves, but for what clients move.
Unless(f, p, s) == State(Id(f, p)) = s \/ Id(f, p) \in moved
CurrentIs(f, s) == State(Current(f)) = s \/ (State(Current(f)) = "done" /\ Current(f) \in moved)
Failing(f) ==
  /\ step[f] = "implement_failed" => run[f].stage = "impl"
  /\ run[f].stage = "impl" /\ step[f] \in {"add_dep", "worktree", "implement_failed"} \cup StageStep
       => Unless(f, "review", "open")
  /\ step[f] \in (Setup \ {"create_root"}) \cup (StageStep \ {"fail_idle"})
       => Unless(f, "root", "open")
  /\ step[f] \in {"fail_idle", "implement_failed", "review_failed"} => Unless(f, "root", "failed")
  /\ step[f] \in {"spawn", "observe", "fail_task"} => CurrentIs(f, "working")
  /\ step[f] \in {"fail_root", "fail_idle", "implement_failed", "review_failed"} =>
       CurrentIs(f, "failed")
FailureInv == \A f \in Flows : Failing(f)

-----------------------------------------------------------------------------
(* Refinement, liveness, and what the repository says of the program.      *)

\* The run refines what its callers are promised.
DoneParts(f) == {p \in {"impl", "review", "root"} : State(Id(f, p)) = "done"}
PhaseOf(f) ==
  CASE step[f] = "reported" -> "reported"
    [] step[f] \in Stopped -> "stopped"
    [] step[f] \in Closing -> "reporting"
    [] OTHER -> IF run[f].stage = "review" THEN "reviewing" ELSE "implementing"

Promise == INSTANCE WriteReviewContract WITH
             Runs <- Flows,
             phase <- [f \in Flows |-> PhaseOf(f)],
             done <- [f \in Flows |-> DoneParts(f)]
Contract == Promise!Spec

\* Every run is answered, or lost with the daemon: a silent agent cannot hang
\* it (watchdog), nor can an agent that keeps failing retryably (retry budget).
RunReturns ==
  \A f \in Flows : step[f] \in LiveStep ~> step[f] \in {"reported"} \cup Stopped
=============================================================================
