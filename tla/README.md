# Divan: a TLA+ verification project

Divan is a daemon that lets several coding-agent CLIs (Claude Code, Codex, Copilot, Antigravity)
work on one repository: it queues tasks in SQLite, runs an implement-then-review flow over them in
git worktrees, carries messages between the agents, and answers requests of a CLI, a TUI and MCP
servers over a Unix socket. These modules model that daemon from its Rust source, TLC checks them
on small instances, and TLAPS proves the central results for instances of every size.

- [1. The system](#1-the-system) - [2. The modules](#2-the-modules) - [3. The runs](#3-the-runs)
- [4. The proofs](#4-the-proofs) - [5. Where code and documentation disagree](#5-where-code-and-documentation-disagree)
- [6. What is not modelled](#6-what-is-not-modelled) - [7. Plan](#7-plan)

To check: `tlc -workers 2 -config <run>.cfg <MC module>.tla`, `tlapm <module>Proofs.tla`.
PROJECT.json maps every definition to the lines it translates, lists the hazards of the code and,
for each property, a mutation of the code that breaks it.

## 1. The system

### Components, their state and their operations

| Component (source) | State | Operations | Must be true |
|---|---|---|---|
| Task store (`divan-core/task.rs`, `divan-db/tasks.rs`) | tables `tasks`, `task_deps` | create, add_dep, assign, transition, deps_satisfied, list | the state machine is the only way a state changes; terminal states are final |
| Scheduler (`divan-daemon/scheduler.rs`) | adapters, run records; local variables of each run | run_write_review, run_session (retry), run_session_once (watchdog), diff/merge/cleanup | never reviews or reports unfinished work; always answers |
| RPC server (`rpc.rs`, `protocol.rs`) | connections | MCP tools claim/complete/delegate/send/subscribe; hook.* ; run, merge, cleanup | a task is claimed once; a request sees one consistent answer |
| Lifecycle (`lifecycle.rs`, `main.rs`) | lock file, socket | take the lock, reconcile, register, serve, stop; `up`, `down` | one daemon at a time, and reachable; no task of a dead daemon stays active, none of a live one is failed |
| Agent registry (`agents.rs`) | table `agents` | upsert, set status | status is informational: nothing decides by it |
| Message bus (`bus.rs`, `messages.rs`, `subscriptions.rs`) | tables `messages`, `subscriptions`; a counter | send, fan out, pending batch, confirm, subscribe | no message lost, misdelivered or stamped delivered unseen |
| Conflicts (`conflicts.rs`, `bus.rs`) | table `file_touches` | record_touch, find conflicts, alert | alerts are true; conflicts are alerted |
| Hook scripts (`divan-hooks/scripts`) | one process per turn | print a batch, confirm it, exit | a batch is confirmed only when it is about to be injected |
| Adapters (`divan-adapters`) | registry of child processes; event channel | spawn, observe, kill | success is earned; no event lost; killed means dead |
| Worktrees (`worktree.rs`) | git branches, worktrees | create, commit_all, diff, merge, cleanup | reviewed work is complete, kept, isolated, merged on request only |
| Router (`router.rs`) | rules, constant | pick an agent, explain the pick | the reviewer is another agent, and the best one; what is explained is what was done |
| Policy (`policy.rs`) | none | capability check, write check | a session writes only in its own worktree, however a path is spelled |
| Hook installation (`divan-hooks/lib.rs`, `settings.rs`) | scripts, `settings.json`, its backup | install, uninstall | the user's hooks survive; no script registered that is not there |
| Artifacts (`artifacts.rs`) | table `artifacts`, a file per ref | put, get | a ref that was answered leads to the whole content; an agent is given the whole specification |
| Traces, CLI, TUI, MCP server | append-only log; none | | not modelled |

### How they interact

The daemon is one tokio process. Each request runs in a task of its own (`rpc.rs`, `serve`); a write-review
run is one long request. All of them share one SQLite connection behind a mutex that every repository call
takes **for its own duration only**, so a handler that makes three calls can be interleaved with any other
handler between them. A run calls its adapter, which starts a CLI process and turns its output into events;
the CLI in turn calls back into the daemon through its MCP server and its hooks, each of which the policy
engine answers from the agents' cards and the task table, so that the tasks of a run can be claimed and
completed by the very agents that work on them. The worktrees lie inside the user's repository, where the
user, the agents and the merge and cleanup commands all run git.

### What is hard

* **Interleaving of handlers** between two database calls: list/assign/transition of a claim, the
  walk of `complete_task` through the states, matching and fan-out, inserting and querying touches.
* **Two daemons**: lock file, socket and database outlive every daemon, and the file operations on the
  lock are not atomic; a daemon may be stopping while its successor starts.
* **Decisions on a table that moves**: the reviewer is picked, and the boundary of a session's writes
  is looked up, in rows that clients and other runs change meanwhile.
* **Crash and restart**: rows, worktrees and agent processes survive a daemon; handlers, run records,
  counters and registries do not.
* **Processes nobody controls**: a CLI may say nothing, stop half-way, linger after its last word;
  a hook may be killed between any two of its steps; a confirmation may be lost or late.
* **Time**: ids are made of milliseconds, conflict windows of timestamps read before the insertion,
  and sessions end by a watchdog that races the last event.
* **The user's own work** in the repository the daemon commits, merges and cleans up in, and in the
  settings file it installs its hooks into.

The hazards behind this list, each at its line, are in PROJECT.json.

## 2. The modules

```
TaskStates ------> TaskScheduler ----- refines ----> WriteReviewContract
                    |    (its session steps abstract AgentSession,
                    |     its worktree steps abstract Worktrees)
                    +--> MCTaskScheduler, TaskSchedulerProofs
MessageBus ------> MCMessageBus, MessageBusProofs
Worktrees -------> MCWorktrees, WorktreesProofs
AgentSession ----> MCAgentSession, AgentSessionProofs
HookSettings ----> MCHookSettings, HookSettingsProofs
DaemonLifecycle -> MCDaemonLifecycle, DaemonLifecycleProofs
ArtifactStore ---> MCArtifactStore, ArtifactStoreProofs
Routing -> Policy -> Admission -> MCAdmission, AdmissionProofs
                     (TaskStates)
```

**TaskStates** is the pure part of the task table: states, legal transitions, ids, list order. A
task id is `<<prefix, millisecond>>`, as the code makes it.

**TaskScheduler** is the core: the task table, `run_write_review` call by call, MCP clients,
delegation, the activity hook, daemon start, reconciliation, registration and crashes. One action
is one database call or one await of its handler. `step[f]` is the next call of run `f`, `run[f]`
its local variables, `op[c]` the request a client has in progress, `held[c]` what the client was
told. Calls whose error the code propagates with `?` are `MoveOrErr`, calls whose error it drops
(`.ok()`, `let _ =`) are `MoveOrSkip`. A crash drops the handlers and keeps `db`. A start lists the
tasks once, fails those of the list that are active, one call each, then does the same with the agents;
`pending` is what is left of the two lists, and nothing is looked up again. Two history variables serve the
properties: `spawned` counts the sessions of each stage, `moved` has the tasks some client has moved.
The router's choice is any writer/reviewer pair in `Requests`; git and artifact failures are
alternatives of the steps that can meet them.

**WriteReviewContract** is what the caller of a run may rely on, over two variables: a run goes
forward only over finished work, reports only when its three tasks are done, done is for ever,
stopped is for ever. `TaskScheduler!Contract` instantiates it with the mapping `PhaseOf`, `DoneParts`.

**MessageBus** has the tables `messages`, `subscriptions` and `file_touches`, the senders, the
subscribers, the sessions that record touches, and the turn-end hooks as processes of their own
with their four steps (read and print, confirm, exit, or be killed). `receipts` are confirmations on
their way: served late, once or never. A message is its addressing; text and payload are left out. The
history `audience` has, for each broadcast that was fanned out, who was subscribed to it all the while it was
on its way, and who at any time of it.

**Worktrees** has the git state (branches, directories, HEAD contents as sets of changes,
uncommitted and staged changes, an unfinished merge), the runs from `create` to `diff`, the merge
and cleanup commands, the agents and the user. One git command is atomic; `commit_all` is four.
A plain directory left in `.divan/worktrees` belongs to the repository around it, as for git.

**AgentSession** has the sessions of one adapter: CLI process, stdout, registry and mutex, observer
task, bounded channel, drain loop, watchdog, kill. `style` says which of the four adapters it is; they
differ in what a line means and in whether the result line or the exit status ends a session.
`kill` holds the mutex while it waits for the child (the guard of an `if let` lives to its end).
`child` follows the `Child` handle through its owners: registry, observer, killer.

**HookSettings** has `settings.json`, its backup and the script directory, the install or uninstall
command in progress, one action per file operation (`fs::write` is two: truncate and fill), and the
user, who edits the file in between. A document is, per event, a sequence of matchers, a matcher a
sequence of commands. `Abort` is a kill or an I/O error at any operation. One command runs at a time:
nothing in the code serializes two, and nothing in the docs speaks of them. `mine` is what the user
last saved; `lapsed` marks the two ways the code can lose it (see section 5), until the next save.

**DaemonLifecycle** has the daemon processes themselves, named by their pids: `pc[d]` is the step of
`main`, from reading the lock to the end of the runtime, `lock` and `sock` the two files, `cli` the
terminals that type `divan up` and `divan down`, `run` and `owner` the active tasks and who took them
on. Reading, judging, truncating and writing the lock are four steps (`fs::write` truncates first), so
two daemons started at once may both find it free. `overlap` records that they did; nearly every
property of the module says what holds as long as they did not. A pid may be given to another process
(`Recycle`), which makes a stale lock look alive. SIGTERM is a crash: only SIGINT is handled. The lock
is dropped before the runtime has ended (`draining`), and the runtime waits for handlers until their
next await; what such a handler makes active is `late`. An error of `accept` leaves the socket file. A
task that leaves its state between the listing and its reconciliation makes the start fail.

**ArtifactStore** has one daemon after another, each in the directory it was started in (the store's
root is relative), the rows, the parts of each file on disk, and the handlers with the step of `put`
or `get` they have reached. A content stands for its hash. A write may be cut short by an error or by
the end of the daemon; `cut` remembers where. A run's handler puts its specification and a stage reads
it back; a row that is not there, a row or a file that cannot be read (`GetFails`) or one that is not text
silently leaves it the title (`prompt`).

**Routing** and **Policy** are `router.rs` and `policy.rs` as operators: the default rules as records,
hard filters, points and tie-breaks of `pick`; capabilities and the lexical normalization of paths.
**Admission** puts them where they decide: the reviewer of a run, the answer of `divan router explain`,
the answer of the pre-tool-use hook. Of the runs it keeps what those read, the implement and review
task with state, assignee, worktree and trace; the clients delegate, claim (of any kind, or of one) and
complete as in TaskScheduler. The cards may be unreadable when a run starts: then it has its default reviewer. The two queries are operators that may be asked in every state. The registry is
constant while a daemon serves; agents are ranked by id, and agent 0 is nobody.

The MC modules give the constants values; cfg files add bounds. No cfg replaces a definition.

## 3. The runs

Deadlock checking is on in `hooks`, `daemon` and `artifacts`, and off elsewhere: runs, sessions and clocks
end, and a system with nothing left to do within the bounds stops. Each module has one type invariant,
`TypeOK`, and one inductive invariant, `Inductive`, of which `TypeOK` is a conjunct. Both are proved (section
4); `sched_interference` also checks `Inductive`, and the other passing runs still pass with `Inductive` added
to their cfg.

### Runs that pass

| Run | Instance | Shows |
|---|---|---|
| `sched_interference` (0.7 M states) | 1 run, 1 MCP client, activity hook, 1 retry, 2 daemon starts | the run never reviews (`ReviewDepsSatisfied`) or reports (`ReportIsTrue`) unfinished work whatever the client does to its tasks; no task held by a client and a run (`OneClaimant`); no orphan survives a reconciliation that goes through lists taken once, even an interrupted one (`OrphansFailed`); each stage has its own retry budget (`RetryBudget`); what a failed run leaves stays, but for the tasks the client moved (`FailureStands`); `Contract` (refinement); `RunReturns` (liveness); and `Inductive`, the invariant of the proofs |
| `sched_runs` (1.5 M) | 2 runs, 1 client, 1 millisecond, delegated tasks, no retry | runs of the same millisecond never share tasks (`RunsOwnTheirTasks`) |
| `bus_delivery` (0.2 M) | 1 client with direct, broadcast and refused sends, 2 hooks of one agent, changing subscriptions, 2 starts | ids stay unique over restarts (`NumbersFresh`), a broadcast reaches who is subscribed while it is sent and no stranger (`BroadcastReaches`), nothing is stamped delivered unseen (`NothingSwallowed`), every hook that keeps running sees all its mail (`TurnsDeliver`) |
| `bus_conflicts` (4.1 M) | 3 agents, 2 sessions, 3 touches of one file, 1 client | messages and alerts never ask for the same id (`NumbersFresh`), alerts are true, conflicts recorded in timestamp order are alerted to both sides |
| `worktrees` (4.4 M) | 2 runs, 1 connection for merge/cleanup, 1 change per author, 1 start | what is reviewed is complete, kept, isolated and merged only on request, with commands between any two git calls of a run |
| `sessions` (0.4 M) | 2 sessions, 4 adapters, 2 lines, channel of 1 | success is earned, no event lost, a timed-out CLI is dead or waited for, every session returns, exited children are reaped |
| `hooks` (2.1 M) | any sequence of installs and uninstalls under 2 spellings of the path, cut short anywhere; 1 user command, 2 events | registered scripts exist, the user's hooks and their matchers survive, the backup is good when the write of an install is cut short, a finished install has entered its own spelling of each script once and no spelling twice, a finished uninstall has found them all (`FinishedMeansDone`) |
| `daemon` (0.5 M) | 3 daemon processes, 1 terminal, 1 task, 1 pid that may be recycled | unless two acquisitions overlapped: one holder of the lock (`OneHolder`), the serving daemon owns the socket (`ServerReachable`), reconciliation fails only what a daemon has let go of (`OrphansAreDead`), and what is active is the server's own (`ServesOwnRuns`); a stale lock never keeps a lone daemon out (`StaleLockTaken`, liveness) |
| `artifacts` (1.0 M) | 3 handlers, 1 content, 2 directories, files of 2 parts, any number of starts | a ref that was answered is found and whole (`AnsweredWhole`), a stage is given its whole specification, or the title where a read failed (`PromptIsSpec`), unless a write was cut short or is being repeated |
| `admission` (1.4 M) | all 216 registries of 3 agents from a pool of 5 cards; 2 runs and 1 client on one of them to the end | where the cards could be read, the reviewer is the one to prefer by vendor, skill, turns, cost and id (`ReviewerIsBest`); the explanation names it (`ExplainAgrees`); the hook confines a session to its own worktree as long as its agent works on no older task (`BoundaryHolds`) |

`ReviewerIsBest` is the check of the router against a reference definition: `Preferred` is a lexicographic
order, the code adds points, and only the weights make the two agree. The order is that of the default rule
for reviews (another vendor, then a review skill, `router.rs:264`) and of the comment in the body of `pick`
(turns, cost, id; `router.rs:190`); the doc of `pick` has another order of ties (section 5).

### Runs that find a violation

`worktree_recreated` and `daemon_two` each check one statement that a comment makes of the program; see
section 5.

### Bounds, and why they are enough

* `MaxStamp` (milliseconds): 2 gives both equal and different ids; 1 in `sched_runs`, where only equal ids
  are of interest; the bus needs 4 so that a touch
  can be inside, at the edge of and outside a `Window` of 1.
* `MaxBoots`: 2 where a daemon must come back to what another left; 1 (still with a crash) elsewhere.
  In `worktrees` a restart would add nothing: `Crash` forgets the records, and a new daemon can only
  name runs of its own.
* `MaxRetries` 1: with and without a retry left; 0 in `sched_runs`, whose property is about ids. One client
  in both runs of the scheduler: an instance with two has more than ten million states, so that no two
  *clients* hold one task is proved (`ClaimsExclusive`) and not checked.
* `NumbersFresh` is checked in two runs: restarts in `bus_delivery`, sessions with their alerts in
  `bus_conflicts`. Both at once, and any number of them, is the theorem `FreshNumbers`.
* `MaxSeq`, `MaxTouches`: two conflicting pairs of
  touches and their alerts; one broadcast with its copies per daemon.
* `Capacity` 1 instead of 64: one line of Claude's output is two events, so the observer meets a full
  channel with the first line. `Lines`: one session prints up to two lines, the other competes for the
  registry.
* `MaxMatchers` 1 in `hooks`: with Divan's own entries under two spellings an event still has three
  matchers, in every order, alone or shared with the user's command. `Stop` is an event Divan has a
  script for, `PostToolUse` one it has none for. The number of commands and edits is not bounded.
* Three `Daemons`: one that ends badly, one that stops, one that starts meanwhile. One terminal is
  enough, since it may spawn a daemon while the last one it spawned has not begun to serve.
* Three `Workers`: two that fill one file and one that reads it. `Parts` 2: a file may be empty, half
  and whole. The system of `artifacts` has no counters, so nothing else is bounded.
* In `admission`, `CONSTRAINT Explored` follows every registry until the first run has assigned its
  implement task, which is all the router's choice depends on, and one of them to the end: two
  built-in adapters that may both write, with at most one delegated task and cards that can be read
  (the only other agent is the default as well). The boundary and the
  explanation depend on the table, not on the rest of the cards.
* A path component is a name, `.` or `..`; `Plain` has the names that occur, and `DirName` the name of
  the worktree of each implement task. The places and the spellings of `BoundaryHolds` cover both
  sides of the boundary; each place is spelled in four ways: straight, over the root, and relative to the
  worktree with `..` or `.` in front.
* Two parties of each other kind are enough for every race stated here, since each property relates at
  most two of them; the proved ones hold for any number.
* `worktrees`, `artifacts` and `admission` use symmetry of runs, or of handlers and directories; no
  liveness is checked there. Runs with liveness use none.
* `KillPoints = {"confirm"}` in `bus_delivery`: a hook is killed before it confirms. Killed after the
  confirmation and before its exit 0, the messages it confirmed were never injected and
  `NothingSwallowed` fails; the script has no way to close that window, and says only that it confirms
  "AFTER a successful injection" (`divan-turn-end.sh.tmpl:84`).
* `Recreates = FALSE` in `worktrees`: no agent writes to its directory again after a cleanup removed it
  from under it; `worktree_recreated` shows what happens when one does.

### Fairness

* `TaskScheduler!FairSpec`: weak fairness of `SchedulerStep(f)`, the calls the tokio task of a run makes
  on its own, the watchdog's timer included. No fairness for CLIs (success, failure and retry of a
  session are not in it), clients, the user or a restart. So `RunReturns` rests on the watchdog and on
  the retry budget, as in the code.
* `MessageBus!FairSpec`: an accepted confirmation is served, a hook with nothing left to do exits.
  `TurnsDeliver` assumes in its own premise that the tool keeps running its hook.
* `AgentSession!FairSpec`: the scheduler's and the observer's tasks run when they can. The CLI has no
  fairness at all: it may stay silent for ever, and a SIGTERM may be ignored.
* `DaemonLifecycle!FairSpec`: a daemon process is scheduled (`DaemonStep(d)`). Nobody is obliged to
  type a command, and errors and crashes are never obliged to happen or to stay away; `StaleLockTaken`
  names them among its outcomes.
* `Worktrees`, `HookSettings`, `ArtifactStore` and `Admission` state no liveness: nothing in them is
  promised to happen.

## 4. The proofs

Every component module is proved about, for **any** value of its constants that satisfies the named
assumptions. Each proof has the same shape: an `Inductive` defined beside the properties in the component's
module, one lemma per action or per conjunct that it preserves it, and the properties read off it.
Constants that only bound the models (`MaxStamp`, `MaxBoots`, `MaxSeq`) are arbitrary numbers.

### TaskSchedulerProofs

Any sets of runs, clients and agents, any retry budget and any number of restarts:

| Theorem | Statement |
|---|---|
| `InductiveInvariant` | `Spec => []Inductive` |
| `TypeCorrect`, `ReviewAfterImplement`, `TruthfulReport`, `ClaimsExclusive`, `SessionsHaveTasks`, `RunsSeparate`, `NoOrphans`, `RetriesBounded`, `FailureRemains` | the safety properties of `sched_interference`, `SessionHasTask`, and `RunsOwnTheirTasks` of `sched_runs` |
| `ImplementsContract` | `Spec => Contract`: TaskScheduler implements WriteReviewContract |

**Assumptions**: `SchedulerAssumption` and `MaxStampAssumption` only: the constants have the types
their comments say. In particular reviewers may equal writers, agents may be unregistered, and
clients may speak for any agent.

**The inductive invariant** `Inductive` is the conjunction of

* `TypeOK`;
* `ControlInv`: a run between two calls has a live daemon, and is past its start exactly when it has a
  stamp; the closing steps are in the review stage;
* `OwnerInv`: a run past the creation of its root task has that row, and no other such run has its
  stamp. This is what makes ids of milliseconds safe: the primary key refuses the second run;
* `DepsInv`: dependencies only ever lead from `review-t` to `impl-t`;
* `StageInv`: the tasks a run has behind it are done. It is stable because done is terminal in the
  state machine (`TableLawful`, `TableMonotone`), however many clients write to the table;
* `ClaimInv`: a task somebody was told they claimed is no longer open. It carries `OneClaimant`: a
  second claim needs an open task;
* `OneClaimant`, `SessionHasTask` themselves.

The argument is modular: lemmas on the table (every step moves a row along the state machine or
creates an absent one), lemmas on which steps change `step`, `run` and `held`, then one lemma per
conjunct (`TypeStep`, `ControlStep`, `OwnerStep`, `DepsStep`, `ClaimStep`, `OneClaimantStep`,
`SessionStepHasTask`, `StageStepDone`), with one proof step per group of actions. The refinement maps
each step to a move of one run with the tasks it needs (`PhaseMove`), to the loss of several runs
(`CrashMove`), or to a stutter.

Three properties have an invariant of their own on top. `ListInv`, for `OrphansFailed`: nothing but the
reconciliation touches the table before the daemon serves, so its list of tasks is the set of active ones
down to the last. `SpawnInv`, for `RetryBudget`, relates the sessions spawned for a stage to the attempt the
run is at, and starts again at zero with the review. `FailureInv`, for `FailureStands`, follows the three
tasks of a run up to its failure: each is where the run left it, or in `moved`. No client is excluded by it.

### DaemonLifecycleProofs

Any number of daemons, terminals and tasks, from `DaemonAssumption` (pids are numbers, the other
contents of the lock file are not):

| Theorem | Statement |
|---|---|
| `DaemonInductive` | `Spec => []Inductive` |
| `LockExclusive`, `ServerFound`, `OnlyOrphansFail`, `ActiveIsOwn` | `OneHolder`, `ServerReachable`, `OrphansAreDead`, `ServesOwnRuns` |

`OneHolder` is not inductive: nothing in it says why a daemon that has judged the lock free is right.
`LockInv` does, as long as no two acquisitions overlapped: at most one daemon is inside `acquire`; the
lock file holds the pid of the daemon past it; who is judging while there is one has read that pid, which
is alive; who has judged the lock free is alone. That is also why a lock file may be removed by
whoever drops it: only the holder can. `OwnerInv` says that the owner of a task has served, and
`ListInv` that the list of a reconciling daemon has every active task, and that behind the
reconciliation only the daemon's own tasks are active. One lemma per conjunct, one step per action;
steps that touch no file, table or list are taken together (`QuietSteps`).

### ArtifactStoreProofs

Any contents, directories, handlers and file lengths, from `StoreAssumption` (a file has at least one part,
`NoContent` is no content):

| Theorem | Statement |
|---|---|
| `StoreInductive` | `Spec => []Inductive` |
| `WholeWhenAnswered`, `PromptWhole` | `AnsweredWhole`; the action property `PromptIsSpec` |
| `FoundWhenAnswered`, `FilesBehindRows` | what was answered stays found; no row without a file |

The heart is `FileInv`: a file that was never cut short is whole, or some handler that is filling it has
written all the parts up to where it is. It is inductive because a handler that truncates the file anew
takes over as that witness, and a handler that writes its last part leaves the file whole. `JobInv` ties
each handler's data to its step (a run that looks for its specification has been answered its ref), and
`AnsweredFound`, `RowsHaveFiles` hold because files are created before rows and neither is removed.

### MessageBusProofs

Any agents, clients, sessions, hooks, sends, subscriptions and edits, from `BusAssumption` (who sends and
reads are agents; nobody, and the daemon's own name, are not) and `NobodyAssumption` (nobody is not a
message id):

| Theorem | Statement |
|---|---|
| `BusInductive`, `BusTypes` | `Spec => []Inductive`, `Spec => []TypeOK` |
| `FreshNumbers`, `BroadcastsReach`, `TrueAlarms`, `ReportedConflicts` | `NumbersFresh`, `BroadcastReaches`, `NoFalseAlarm`, `ConflictsReported` |
| `Confirmed` | if no hook is killed between its confirmation and its exit: `NothingSwallowed` |

The counter behind the ids restarts with the daemon, so `NumbersFresh` needs that the millisecond does not
come back: `NumberInv` relates the numbers of rows and of requests in progress to `clock`, to `since` (when
this daemon started) and to `seq`; `Boot` takes the clock on, since a daemon takes longer than a millisecond
to start. `WatchInv` says that the subscribers a broadcast was matched with lie between those who were
subscribed all along and those who ever were. `RequestInv` and `RowInv` follow a broadcast from its source row to its
copies: a copy names a row that is there, a source row is to nobody and is never stamped. `HookInv` and
`ReceiptInv` say that what a hook has printed, or has confirmed, is its own agent's mail; the second carries
`NothingSwallowed` through confirmations served late or twice. `ProbeInv` is the memory of a `record_touch`
between its calls: its row is there, those it is going to alert are parties to a conflict, and whoever
touched the file before it within the window has been alerted or is going to be; who touches it later finds
this row (`TouchInv` numbers the rows). So conflicts recorded in timestamp order are reported although
insertion, query and alerts are separate calls. The alerts of `NoFalseAlarm` are the messages from the
daemon itself: a client may send a look-alike.

### WorktreesProofs

Any number of runs, connections and changes, from `WorktreeAssumption` (the user's branch is no run's):

| Theorem | Statement |
|---|---|
| `WorktreesInductive`, `WorktreeTypes` | `Spec => []Inductive`, `Spec => []TypeOK` |
| `OwnWorkOnly`, `ReviewedWorkStays`, `MergesOnRequest` | `Isolated`, `ReviewedWorkKept`; the action property `MergedOnRequest` |
| `WholeSnapshot` | unless agents recreate removed directories: `SnapshotComplete` |

The first three hold even where an agent writes to a directory that was removed under it. `TreeInv` says
whose changes a tree may hold uncommitted, `CreatedInv` that a run without a branch has done nothing that
could be merged or cleaned up, and `SnapshotInv`, for `SnapshotComplete`, where between `git add`, `git
commit` and `git diff` the work of the session is: in the tree, in the index, then on the branch.

### AgentSessionProofs

Any adapter, any sessions, lines and capacity, from `SessionAssumption` (a channel holds at least one event):

| Theorem | Statement |
|---|---|
| `SessionInductive`, `SessionTypes` | `Spec => []Inductive`, `Spec => []TypeOK` |
| `EarnedSuccess`, `OwnedChildren`, `EveryEvent` | `SuccessEarned`, `TimedOutChildOwned`, `NothingDropped` |

`ChildInv` follows the one `Child` handle: which of spawner, registry, killer and observer has it at every
step of the scheduler's task and the observer's. `SuccessInv` says what an `end_ok` on its way proves,
wherever it is: being sent, in the channel, or counted. `ReadInv` and `ExitInv` are about the observer: what
it has read when it waits for the child, and that the exit status of codex is the last event.
`NothingDropped` relates three sequences of any length (lines read, events sent, events received), by
induction over them.

### HookSettingsProofs

Any user commands, events and directory spellings, documents with any number of matchers and commands, from
`HookAssumption` (the user's commands are not Divan's own):

| Theorem | Statement |
|---|---|
| `HooksInductive`, `HookTypes` | `Spec => []Inductive`, `Spec => []TypeOK` |
| `ScriptsBehindHooks`, `UserHooksKept`, `BackupIsMade` | `RegisteredHaveScripts`, `UserEntriesKept`, `BackupBeforeWrite` |
| `CommandsFinish` | the action property `FinishedMeansDone` |

First the merges as functions of documents: `Retain` and `Keep` one member at a time, then that an
installation leaves the user's part of a document as it is, enters its own spelling of each script and no
spelling a second time, and that an uninstallation leaves nothing of Divan. `FilesInv` says that what is on disk or merged is such a document,
`ScriptInv` how far the scripts and the merged document are at each file operation, and `UserInv` that one
of the file, the merged document and the backup has what the user last saved.

### AdmissionProofs

Any finite set of agents, any cards, runs and clients, any working directory and names of worktrees, from
`AgentsAssumption` (agents are numbers from 1, finitely many), `CardAssumption`, `CwdAssumption` and
`AdmissionAssumption` (registries are of cards; directories are given by names):

| Theorem | Statement |
|---|---|
| `OneReviewer` | `pick` finds exactly one reviewer wherever there is a candidate |
| `AdmissionInductive`, `AdmissionTypes` | `Spec => []Inductive`, `Spec => []TypeOK` |
| `BestReviewers`, `ExplainIsRight`, `BoundaryIsKept` | `ReviewerIsBest`, `ExplainAgrees`, `BoundaryHolds` |

`ReviewScore` computes the sum over the rules that apply to a review. `Above` is the order of `max_by` in
four numbers, a strict order in which any two agents compare (`AboveOrder`, `AboveTransitive`), so a finite
set has exactly one first (`SomebodyAbove`, `PickUnique`); and with the weights 2 and 3 it is the order of
the rule and of the comment in `pick` (`AboveIsPreferred`): another vendor outweighs a skill, and the difference of 6 cannot be made up.
`ChoiceInv` says that the reviewer of a run that could read the cards is what the router answers to them, and
`OwnRowsInv` that a run's rows have its trace and, from the assignment on, its worktree, whatever clients do
to their assignee and state. For the boundary, `lexical_normalize` is followed one component at a time
(`NormalizeAppend`): names are kept, `..` takes names away (`NamesKept`, `UpsRemove`), and so every spelling
of a place means that place (`SpellingsMean`).

### Induction over data

No prover here takes an operator as the parameter of an induction theorem. Where a proof needs induction
over numbers or sequences it uses a **set** instead: a non-empty set of numbers has a least element
(`LeastNumber`, from the well-foundedness of `<`), and a set that has the empty sequence and is closed under
`Append` has every sequence (`SeqInduction`). The definitions by recursion that are proved about are
recursive functions or folds, whose defining equation is first shown to have a solution (`KeptExists`,
`WalkExists`).

### Only model-checked

Liveness (`RunReturns`, `TurnsDeliver`, `SessionReturns`, `ChildrenReaped`, `StaleLockTaken`): fairness and
ENABLED are out of the prover's reach. Every other property of a passing run is a theorem, where it needs to
under the condition its table names. The router is proved about for reviews, which is all a run asks it for;
for other kinds of tasks only `divan router explain` asks, and changes nothing.

## 5. Where code and documentation disagree

| Run | What happens |
|---|---|
| `daemon_two` | two daemons started at once both read the lock before either writes it, and both hold it; the second removes the first one's socket and fails its tasks (`lifecycle.rs:31-46`). `main.rs:312` of the CLI promises "never a second one" |
| `worktree_recreated` | after a cleanup under a running session the agent's directory is a plain one inside the user's repository, and `commit_all` commits the user's uncommitted work to the user's branch (`worktree.rs:196-229`) |

Known from the models, without a run of their own:

* Of two clients that claim at once, one is told it claimed a task that is assigned to the other: both
  assign, one transition is refused (`rpc.rs:404-417`). The claim itself stays exclusive.
* `claim_task` and `complete_task` take blocked tasks (`rpc.rs:408`), so the review task of a failed
  implement stage can be claimed and done, where a comment says that "review never starts"
  (`scheduler.rs:465`), and the task of a running session can be completed: the session fails, the refused
  transition is dropped (`scheduler.rs:856`), and the task stays done, where a comment says "never let it
  reach `done`" (`scheduler.rs:309`). `FailureStands` is what is true with clients: both comments hold of
  exactly the tasks no client has moved.
* Two sessions read the clock and insert their touches in opposite order, and neither is alerted
  (`conflicts.rs:3`, `bus.rs:185`): `ConflictsReported` is stated for touches in timestamp order.
* "Write file if absent (dedupe). Content-addressed => identical bytes." (`artifacts.rs:46`) takes an absent
  file for the only bad one: a file cut short stays truncated, and every later put of the content answers its
  ref (`artifacts.rs:46-54`).
* A specification that is in the store whole may still not be read, and the agent silently works from the
  title (`scheduler.rs:791-803`). `PromptIsSpec` allows it for a read that fails, and only then.
* The doc of `pick` breaks ties by "score desc, cost_class asc, id asc" (`router.rs:149-150`); the body puts
  an agent that can take several turns before a cheaper one (`router.rs:190-201`), and its comment says so.
  The pool of `admission` has registries in which the two differ. `ReviewerIsBest` follows the body.
* A comment of the daemon's `main.rs` (line 80) says that SIGTERM ends the serving loop; only SIGINT is
  handled. SIGTERM leaves lock and socket to the next start, which copes (`StaleLockTaken`).
* A handler still running when the daemon has dropped its lock may make a task active that the next daemon
  has not listed; it is shown as worked on until the next start (`late` in DaemonLifecycle).
* The hook knows the agent of a session, not the session: with two runs of one agent the first working
  task in the table gives the boundary of both. A claim that lands between a run's assignment and its
  session takes the boundary away; so does a completion of the task. `BoundaryHolds` is stated for a
  session whose task is working and still its agent's, and is the oldest one with a worktree that its agent
  works on.
* `kill_session` answers `{"killed": true}` and kills nothing (`rpc.rs:515-524`).
* `README.md:126` says that `uninstall-hooks` restores from the backup. It never reads the backup
  (`hooks/lib.rs:240`). After an install cut short, which leaves an empty `settings.json`, an uninstall
  writes `{}`, and another install copies the empty file over the good backup (`lib.rs:212`).
* `settings.rs:16` and `:95` say that a Divan command is matched by the name of its script, so that a re-run
  never duplicates; the installation compares whole commands (`settings.rs:118`). Installed from a second
  spelling of the path, a script is registered twice and runs twice. `FinishedMeansDone` allows that: it says
  that no spelling is entered twice, and that an uninstall finds every one.

None of these contradicts the theorems: a claim is exclusive, a run reports only finished work, and the
proved properties of the daemon, the store, the failures of a run and the boundary name the cases above.

## 6. What is not modelled

* Traces (nothing reads them back to decide anything), prompts, summaries, payload limits, rendering.
* The TUI and the MCP server, and of the CLI all but `up`, `down` and the hook commands: stateless
  translators of arguments into one request.
* Requests that only render rows (status, log, messages, trace, list_agents).
* `check_spawn`, `unsubscribe`, `deliver` and `resume`, which have no caller outside tests or always
  refuse; `check_kill`, which guards a request that does nothing.
* SQLite itself (a call is atomic and durable) and the internals of git (one command is atomic;
  whether two branches conflict is left open).
* Message order within a batch (`ORDER BY created_at, id` over text), and the exact text of ids.
* Hashing, sharding and metadata of artifacts; symbolic links; the parsing of the rules' YAML. Admission
  assumes that the daemon was started in the repository, as `divan up` does it.

## 7. Plan

Done: all modules of section 2 with their runs, and a proof module for each of the eight components. Left,
most important first:

1. Refinement of the session steps of TaskScheduler by AgentSession, through an abstract session
   (spawned, ended with one outcome, process perhaps alive), and of its worktree steps by Worktrees.
2. That a stronger contract than WriteReviewContract is implemented where no client interferes: a run that
   reports has had exactly one review of what was merged.
3. The router for every kind of task, as `OneReviewer` has it for reviews: exactly one agent is picked
   wherever one is eligible.
