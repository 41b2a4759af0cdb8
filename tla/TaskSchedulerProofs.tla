------------------------ MODULE TaskSchedulerProofs ------------------------
(***************************************************************************)
(* Proofs about TaskScheduler, for every number of runs, clients, agents,  *)
(* retries, restarts and milliseconds.                                     *)
(***************************************************************************)
EXTENDS TaskScheduler, TLAPS

-----------------------------------------------------------------------------
(* What the database calls keep typed.                                     *)

\* create_task inserts a well-formed row.
LEMMA CreateType ==
  ASSUME task \in [TaskIds -> Row], NEW t, NEW kind \in Kind, Create(t, kind)
  PROVE  task' \in [TaskIds -> Row]
BY DEF Create, Row, TaskState

\* transition changes the state of a row to another state.
LEMMA MoveType ==
  ASSUME task \in [TaskIds -> Row], NEW t, NEW to \in TaskState, Move(t, to)
  PROVE  task' \in [TaskIds -> Row]
BY DEF Move, Row

\* assign changes the assignee of a row to an agent.
LEMMA AssignType ==
  ASSUME task \in [TaskIds -> Row], NEW t, NEW a \in Agents, Assign(t, a)
  PROVE  task' \in [TaskIds -> Row]
BY DEF Assign, Row

\* set_agent_status keeps the agents table well formed.
LEMMA StatusType ==
  ASSUME agent \in [Agents -> {"absent", "offline", "idle", "busy"}],
         NEW a, NEW s \in {"idle", "busy"}, SetStatus(a, s)
  PROVE  agent' \in [Agents -> {"absent", "offline", "idle", "busy"}]
BY DEF SetStatus

\* A run moves to a step of run_write_review.
LEMMA GotoType ==
  ASSUME step \in [Flows -> Step], NEW f, NEW s \in Step, Goto(f, s)
  PROVE  step' \in [Flows -> Step]
BY DEF Goto

\* A run enters its next stage, or notes its report.
LEMMA RunType ==
  ASSUME NEW r \in Run, NEW a \in TaskState \cup {"absent"}, NEW b \in TaskState \cup {"absent"}
  PROVE  /\ [r EXCEPT !.stage = "review", !.attempt = 0] \in Run
         /\ [r EXCEPT !.report = <<a, b>>] \in Run
<1>1. \A q \in Run : [q EXCEPT !.attempt = 0] \in Run
  BY SchedulerAssumption DEF Run
<1>2. [r EXCEPT !.stage = "review"] \in Run
  BY DEF Run, Stage
<1>3. [[r EXCEPT !.stage = "review"] EXCEPT !.attempt = 0] \in Run
  BY <1>1, <1>2
<1>4. [r EXCEPT !.report = <<a, b>>] \in Run
  BY DEF Run
<1> QED BY <1>3, <1>4

\* A retry counts one more attempt, while some are left (RetriesLeft).
LEMMA RetryType ==
  ASSUME run \in [Flows -> Run], NEW f \in Flows, SessionRetries(f)
  PROVE  run' \in [Flows -> Run]
<1>1. CASE RetriesLeft(f)
  <2>1. run[f] \in Run /\ run[f].attempt \in 0 .. MaxRetries
    BY DEF Run
  <2>2. run[f].attempt + 1 \in 0 .. MaxRetries
    BY <1>1, <2>1, SchedulerAssumption DEF RetriesLeft
  <2>3. \A n \in 0 .. MaxRetries : [run[f] EXCEPT !.attempt = n] \in Run
    BY <2>1 DEF Run
  <2>4. run' = [run EXCEPT ![f] = [run[f] EXCEPT !.attempt = run[f].attempt + 1]]
    BY <1>1 DEF SessionRetries
  <2> QED BY <2>2, <2>3, <2>4
<1>2. CASE ~ RetriesLeft(f)
  BY <1>2 DEF SessionRetries
<1> QED BY <1>1, <1>2

\* Every task id a live run names is a task id, and its actor is an agent or
\* nobody.
LEMMA RunNames ==
  ASSUME TypeOK, ControlInv, NEW f \in Flows, step[f] # "idle",
         NEW p \in {"impl", "review", "root"}
  PROVE  Id(f, p) \in TaskIds /\ Current(f) \in TaskIds
BY DEF TypeOK, ControlInv, RunControl, Id, Current, TaskIds, Prefix, Run, Stage

-----------------------------------------------------------------------------
(* Type correctness.                                                       *)

\* Daemon start, reconciliation, registration and death keep the state typed.
LEMMA DaemonTyped == TypeOK /\ (DaemonNext \/ Tick) => TypeOK'
<1> SUFFICES ASSUME TypeOK, DaemonNext \/ Tick PROVE TypeOK'
  OBVIOUS
<1> USE DEF TypeOK, db
<1>1. CASE Tick
  BY <1>1, MaxStampAssumption DEF Tick, Stamps
<1>2. CASE Boot
  BY <1>2, SchedulerAssumption DEF Boot
<1>3. CASE ReconcileTask
  <2>1. task' \in [TaskIds -> Row]
    BY <1>3, MoveType DEF ReconcileTask, TaskState
  <2>2. pending' \in [tasks : SUBSET TaskIds, agents : SUBSET Agents]
    BY <1>3 DEF ReconcileTask, Nothing
  <2>3. daemon' \in {"down", "reconciling"}
    BY <1>3 DEF ReconcileTask
  <2> QED BY <1>3, <2>1, <2>2, <2>3 DEF ReconcileTask
<1>4. CASE ListTasks \/ ListAgents \/ ReconcileDone \/ Serve
  <2>1. Orphaned \in SUBSET TaskIds /\ Awake \in SUBSET Agents
    BY DEF Orphaned, ActiveTasks, Awake
  <2>2. pending' \in [tasks : SUBSET TaskIds, agents : SUBSET Agents]
    BY <1>4, <2>1 DEF ListTasks, ListAgents, ReconcileDone, Serve
  <2> QED BY <1>4, <2>2 DEF ListTasks, ListAgents, ReconcileDone, Serve
<1>5. CASE Crash
  BY <1>5 DEF Crash, Step, Stopped, NoOp, Op, Nothing
<1>6. CASE \E a \in Agents : ReconcileAgent(a)
  <2>1. PICK a \in Agents : ReconcileAgent(a)
    BY <1>6
  <2>2. pending' \in [tasks : SUBSET TaskIds, agents : SUBSET Agents]
    BY <2>1 DEF ReconcileAgent
  <2> QED BY <2>1, <2>2 DEF ReconcileAgent
<1>7. CASE \E a \in Adapters : RegisterAdapter(a)
  BY <1>7 DEF RegisterAdapter
<1> QED BY <1>1, <1>2, <1>3, <1>4, <1>5, <1>6, <1>7 DEF DaemonNext

\* Every refused or accepted transition of a run keeps the state typed.
LEMMA MoveTyped ==
  ASSUME TypeOK, NEW f \in Flows, NEW here, NEW t, NEW to \in TaskState, NEW next \in Step,
         MoveOrErr(f, here, t, to, next) \/ MoveOrSkip(f, here, t, to, next)
  PROVE  TypeOK'
<1>1. step' \in [Flows -> Step]
  BY GotoType DEF TypeOK, MoveOrErr, MoveOrSkip, Step, Stopped
<1>2. task' \in [TaskIds -> Row]
  BY MoveType DEF TypeOK, MoveOrErr, MoveOrSkip
<1> QED BY <1>1, <1>2 DEF TypeOK, MoveOrErr, MoveOrSkip

\* The calls before and between the sessions keep the state typed.
LEMMA SetupTyped ==
  ASSUME TypeOK, ControlInv, NEW f \in Flows,
         CreateTasks(f) \/ AddDep(f) \/ CreateWorktree(f) \/ SetBusy(f) \/ AssignTask(f)
           \/ Release(f) \/ FailIdle(f)
  PROVE  TypeOK'
<1> USE DEF TypeOK, db, Step, LiveStep, Setup, StageStep, Closing, Stopped
<1>1. ASSUME NEW here, NEW p \in {"root", "impl", "review"}, NEW next \in Step,
             CreateTask(f, here, p, next)
      PROVE  TypeOK'
  <2>1. PrefixKind[p] \in Kind
    BY DEF PrefixKind, Kind
  <2>2. task' \in [TaskIds -> Row]
    BY <1>1, <2>1, CreateType DEF CreateTask
  <2>3. step' \in [Flows -> Step]
    BY <1>1, GotoType DEF CreateTask
  <2> QED BY <1>1, <2>2, <2>3 DEF CreateTask
<1>2. CASE CreateTasks(f)
  BY <1>1, <1>2 DEF CreateTasks
<1>3. CASE AddDep(f)
  <2>1. Id(f, "review") \in TaskIds /\ Id(f, "impl") \in TaskIds
    BY <1>3, RunNames DEF AddDep, At
  <2> QED BY <1>3, <2>1, GotoType DEF AddDep
<1>4. CASE CreateWorktree(f)
  BY <1>4, GotoType DEF CreateWorktree
<1>5. CASE SetBusy(f)
  BY <1>5, GotoType, StatusType DEF SetBusy
<1>6. CASE AssignTask(f)
  <2>1. task' \in [TaskIds -> Row]
    BY <1>6, AssignType DEF AssignTask, CanAssign, Registered
  <2> QED BY <1>6, <2>1, GotoType DEF AssignTask
<1>7. CASE Release(f)
  BY <1>7, GotoType, StatusType DEF Release
<1>8. CASE FailIdle(f)
  <2>1. step' \in [Flows -> Step]
    BY <1>8, GotoType DEF FailIdle
  <2> QED BY <1>8, <2>1, StatusType DEF FailIdle
<1> QED BY <1>2, <1>3, <1>4, <1>5, <1>6, <1>7, <1>8

\* The sessions and the steps between the stages keep the state typed.
LEMMA SessionTyped ==
  ASSUME TypeOK, NEW f \in Flows,
         Spawn(f) \/ SessionSucceeds(f) \/ SessionFails(f) \/ SessionRetries(f)
           \/ WatchdogKills(f) \/ Snapshot(f) \/ WriteReport(f)
  PROVE  TypeOK'
<1> USE DEF TypeOK, db, Step, LiveStep, Setup, StageStep, Closing, Stopped
<1>2. CASE Spawn(f)
  <2>1. run[f].stage \in Stage
    BY DEF Run
  <2>2. spawned' \in [Flows -> [Stage -> Nat]]
    BY <1>2, <2>1 DEF Spawn
  <2> QED BY <1>2, <2>2, GotoType DEF Spawn
<1>3. CASE SessionSucceeds(f) \/ SessionFails(f)
  BY <1>3, GotoType DEF SessionSucceeds, SessionFails
<1>4. CASE SessionRetries(f)
  <2>1. step' \in [Flows -> Step]
    BY <1>4, GotoType DEF SessionRetries
  <2>2. run' \in [Flows -> Run]
    BY <1>4, RetryType
  <2> QED BY <1>4, <2>1, <2>2 DEF SessionRetries
<1>5. CASE WatchdogKills(f)
  BY <1>5, GotoType DEF WatchdogKills
<1>6. CASE Snapshot(f)
  <2>1. step' \in [Flows -> Step]
    BY <1>6, GotoType DEF Snapshot
  <2>2. run' \in [Flows -> Run]
    <3>1. \/ UNCHANGED run
          \/ run' = [run EXCEPT ![f] = [@ EXCEPT !.stage = "review", !.attempt = 0]]
      BY <1>6 DEF Snapshot
    <3>2. [run[f] EXCEPT !.stage = "review", !.attempt = 0] \in Run
      BY RunType DEF TaskState
    <3> QED BY <3>1, <3>2
  <2> QED BY <1>6, <2>1, <2>2 DEF Snapshot
<1>7. CASE WriteReport(f)
  <2>1. step' \in [Flows -> Step]
    BY <1>7, GotoType DEF WriteReport
  <2>2. \A t : State(t) \in TaskState \cup {"absent"}
    BY DEF State, Row
  <2>3. run' \in [Flows -> Run]
    <3>1. run' = [run EXCEPT ![f] = [@ EXCEPT !.report =
                    <<State(Id(f, "impl")), State(Id(f, "review"))>>]]
      BY <1>7 DEF WriteReport
    <3>2. [run[f] EXCEPT !.report = <<State(Id(f, "impl")), State(Id(f, "review"))>>] \in Run
      BY <2>2, RunType
    <3> QED BY <3>1, <3>2
  <2> QED BY <1>7, <2>1, <2>3 DEF WriteReport
<1> QED BY <1>2, <1>3, <1>4, <1>5, <1>6, <1>7

\* Every step of a run keeps the state typed.
LEMMA FlowTyped ==
  ASSUME TypeOK, ControlInv, NEW f \in Flows, FlowNext(f)
  PROVE  TypeOK'
<1>1. CASE ClaimStage(f) \/ StartWork(f) \/ FailTask(f) \/ FailRoot(f) \/ CompleteStage(f)
             \/ ClaimRoot(f) \/ WorkRoot(f) \/ CompleteRoot(f)
  BY <1>1, MoveTyped DEF ClaimStage, StartWork, FailTask, FailRoot, CompleteStage, ClaimRoot,
       WorkRoot, CompleteRoot, TaskState, Step, LiveStep, Setup, StageStep, Closing
<1> QED BY <1>1, SetupTyped, SessionTyped DEF FlowNext, SessionNext

\* The MCP requests keep the state typed.
LEMMA ClientTyped ==
  ASSUME TypeOK, ControlInv, NEW c \in Clients, ClientNext(c)
  PROVE  TypeOK'
<1> USE DEF TypeOK, db
<1>1. ASSUME NEW kinds, ClaimList(c, kinds) PROVE TypeOK'
  <2>1. PICK t \in TaskIds :
          op' = [op EXCEPT ![c] = [at |-> "assign", task |-> t, next |-> "claimed"]]
    BY <1>1 DEF ClaimList, OpenTasks
  <2> QED BY <1>1, <2>1 DEF ClaimList, Op
<1>2. CASE ClaimAssign(c)
  <2>1. Caller[c] \in Agents
    BY SchedulerAssumption
  <2>2. task' \in [TaskIds -> Row]
    BY <1>2, <2>1, AssignType DEF ClaimAssign
  <2>3. op[c] \in Op
    OBVIOUS
  <2>4. [op[c] EXCEPT !.at = "transition"] \in Op /\ NoOp \in Op
    BY <2>3 DEF Op, NoOp
  <2>5. op' \in [Clients -> Op]
    BY <1>2, <2>4 DEF ClaimAssign
  <2> QED BY <1>2, <2>2, <2>5 DEF ClaimAssign
<1>3. CASE ClaimTransition(c)
  <2>1. task' \in [TaskIds -> Row]
    BY <1>3, MoveType DEF ClaimTransition, TaskState
  <2>2. held' \in [Clients -> SUBSET TaskIds]
    BY <1>3 DEF ClaimTransition, ControlInv
  <2>3. moved' \subseteq TaskIds
    BY <1>3 DEF ClaimTransition, ControlInv
  <2>4. op' \in [Clients -> Op]
    BY <1>3 DEF ClaimTransition, Op, NoOp
  <2> QED BY <1>3, <2>1, <2>2, <2>3, <2>4 DEF ClaimTransition
<1>4. ASSUME NEW t \in TaskIds, CompleteRead(c, t) PROVE TypeOK'
  <2>1. NextOnPath[task[t].state] \in {"claimed", "working", "done"}
    BY <1>4 DEF CompleteRead, NextOnPath, Active
  <2> QED BY <1>4, <2>1 DEF CompleteRead, Op
<1>5. CASE CompleteStep(c)
  <2>1. op[c].next \in {"claimed", "working", "done"}
    BY DEF Op
  <2>2. task' \in [TaskIds -> Row]
    BY <1>5, <2>1, MoveType DEF CompleteStep, TaskState
  <2>3. op[c].next # "done" => NextOnPath[op[c].next] \in {"working", "done"}
    BY <2>1 DEF NextOnPath
  <2>4. op[c] \in Op /\ NoOp \in Op
    BY DEF Op, NoOp
  <2>5. op[c].next # "done" => [op[c] EXCEPT !.next = NextOnPath[op[c].next]] \in Op
    BY <2>3, <2>4 DEF Op
  <2>6. op' \in [Clients -> Op]
    BY <1>5, <2>4, <2>5 DEF CompleteStep
  <2>7. moved' \subseteq TaskIds
    BY <1>5 DEF CompleteStep, ControlInv
  <2> QED BY <1>5, <2>2, <2>6, <2>7 DEF CompleteStep
<1> QED BY <1>1, <1>2, <1>3, <1>4, <1>5 DEF ClientNext

\* Type correctness of a step.
LEMMA TypeStep == TypeOK /\ ControlInv /\ [Next]_vars => TypeOK'
<1> SUFFICES ASSUME TypeOK, ControlInv, [Next]_vars PROVE TypeOK'
  OBVIOUS
<1>1. CASE UNCHANGED vars
  BY <1>1 DEF TypeOK, vars, db, Stamps, Op, TaskIds, Run
<1>2. ASSUME NEW f \in Flows, NEW r \in Requests, Start(f, r[1], r[2]) PROVE TypeOK'
  <2>1. r[1] \in Agents /\ r[2] \in Agents
    BY SchedulerAssumption
  <2>2. step' \in [Flows -> Step]
    BY <1>2, GotoType DEF TypeOK, Start, Step, LiveStep, Setup, Stopped
  <2>3. /\ run[f] \in Run /\ clock \in Stamps
        /\ run' = [run EXCEPT ![f] = [@ EXCEPT !.stamp = clock, !.writer = r[1],
                                              !.reviewer = r[2]]]
    BY <1>2 DEF TypeOK, Start
  <2>4. run' \in [Flows -> Run]
    BY <2>1, <2>3 DEF TypeOK, Run
  <2> QED BY <1>2, <2>2, <2>4 DEF TypeOK, Start, db
<1>4. ASSUME NEW kind \in Delegated, DelegateTask(kind) PROVE TypeOK'
  <2>1. kind \in Kind
    BY SchedulerAssumption
  <2>2. task' \in [TaskIds -> Row]
    BY <1>4, <2>1, CreateType DEF TypeOK, DelegateTask
  <2> QED BY <1>4, <2>2 DEF TypeOK, DelegateTask
<1>5. ASSUME NEW a \in Reporters, HookActivity(a) PROVE TypeOK'
  BY <1>5, StatusType DEF TypeOK, HookActivity
<1> QED BY <1>1, <1>2, <1>4, <1>5, DaemonTyped, FlowTyped, ClientTyped DEF Next

-----------------------------------------------------------------------------
(* What the steps do to the task table.                                    *)

\* create_task, transition and assign, seen as what they do to the states.
LEMMA CreateStates ==
  ASSUME task \in [TaskIds -> Row], NEW t, NEW kind, Create(t, kind), NEW u \in TaskIds
  PROVE  task'[u].state = IF u = t THEN "open" ELSE task[u].state
BY DEF Create

\* `transition` changes the state of its task and of no other (Move).
LEMMA MoveStates ==
  ASSUME task \in [TaskIds -> Row], NEW t, NEW to, Move(t, to), NEW u \in TaskIds
  PROVE  task'[u].state = IF u = t THEN to ELSE task[u].state
BY DEF Move, Row

\* `assign` changes no state (Assign).
LEMMA AssignStates ==
  ASSUME task \in [TaskIds -> Row], NEW t, NEW a, Assign(t, a), NEW u \in TaskIds
  PROVE  task'[u].state = task[u].state
BY DEF Assign, Row

\* A row changes state along TaskState::can_transition_to, or is inserted open.
Lawful(u) ==
  \/ task'[u].state = task[u].state
  \/ task[u].state = "absent" /\ task'[u].state = "open"
  \/ CanTransition(task[u].state, task'[u].state)

\* A checked transition, or none, obeys the state machine (CanMove, Move).
LEMMA MoveLawful ==
  ASSUME task \in [TaskIds -> Row], NEW t, NEW to, NEW u \in TaskIds,
         (CanMove(t, to) /\ Move(t, to)) \/ UNCHANGED task
  PROVE  Lawful(u)
BY MoveStates DEF Lawful, CanMove

\* An insertion under a fresh id, or none, obeys the state machine (CanCreate, Create).
LEMMA CreateLawful ==
  ASSUME task \in [TaskIds -> Row], NEW t, NEW kind, NEW u \in TaskIds,
         (CanCreate(t) /\ Create(t, kind)) \/ UNCHANGED task
  PROVE  Lawful(u)
BY CreateStates DEF Lawful, CanCreate

\* Whoever takes a step, and however the steps interleave, every row follows the
\* state machine.
LEMMA TableLawful ==
  ASSUME TypeOK, ControlInv, [Next]_vars, NEW u \in TaskIds
  PROVE  Lawful(u)
<1> USE DEF TypeOK, db
<1>1. CASE UNCHANGED vars
  BY <1>1 DEF vars, Lawful
<1>2. CASE Tick \/ (\E f \in Flows, r \in Requests : Start(f, r[1], r[2]))
             \/ (\E a \in Reporters : HookActivity(a))
  BY <1>2 DEF Tick, Start, HookActivity, Lawful
<1>3. CASE DaemonNext
  <2>1. ASSUME ReconcileTask PROVE Lawful(u)
    <3>1. PICK t : (CanMove(t, "failed") /\ Move(t, "failed")) \/ UNCHANGED task
      BY <2>1 DEF ReconcileTask
    <3> QED BY <3>1, MoveLawful
  <2> QED BY <1>3, <2>1 DEF DaemonNext, Boot, ListTasks, ListAgents, ReconcileDone, Serve, Crash, ReconcileAgent,
            RegisterAdapter, Lawful
<1>4. ASSUME NEW f \in Flows, FlowNext(f) PROVE Lawful(u)
  <2>1. CASE CreateTasks(f)
    BY <2>1, CreateLawful DEF CreateTasks, CreateTask
  <2>2. CASE ClaimStage(f) \/ StartWork(f) \/ FailTask(f) \/ FailRoot(f) \/ CompleteStage(f)
               \/ ClaimRoot(f) \/ WorkRoot(f) \/ CompleteRoot(f)
    BY <2>2, MoveLawful DEF ClaimStage, StartWork, FailTask, FailRoot, CompleteStage, ClaimRoot,
         WorkRoot, CompleteRoot, MoveOrErr, MoveOrSkip
  <2>3. CASE AssignTask(f)
    BY <2>3, AssignStates DEF AssignTask, Lawful
  <2> QED BY <1>4, <2>1, <2>2, <2>3 DEF FlowNext, SessionNext, AddDep, CreateWorktree, SetBusy,
            Spawn, SessionSucceeds, SessionFails, SessionRetries, WatchdogKills, FailIdle,
            Release, Snapshot, WriteReport, Lawful
<1>5. ASSUME NEW c \in Clients, ClientNext(c) PROVE Lawful(u)
  <2>1. CASE ClaimAssign(c)
    BY <2>1, AssignStates DEF ClaimAssign, Lawful
  <2>2. CASE ClaimTransition(c) \/ CompleteStep(c)
    BY <2>2, MoveLawful DEF ClaimTransition, CompleteStep
  <2> QED BY <1>5, <2>1, <2>2 DEF ClientNext, ClaimList, CompleteRead, Lawful
<1>6. ASSUME NEW kind \in Delegated, DelegateTask(kind) PROVE Lawful(u)
  BY <1>6, CreateLawful DEF DelegateTask
<1> QED BY <1>1, <1>2, <1>3, <1>4, <1>5, <1>6 DEF Next

\* What is done stays done, rows stay, and what was claimed is never open again.
LEMMA TableMonotone ==
  ASSUME TypeOK, ControlInv, [Next]_vars, NEW u \in TaskIds
  PROVE  /\ task[u].state = "done" => task'[u].state = "done"
         /\ task[u].state # "absent" => task'[u].state # "absent"
         /\ task[u].state \notin {"absent", "open"} => task'[u].state \notin {"absent", "open"}
BY TableLawful DEF Lawful, CanTransition, Forward, Active

-----------------------------------------------------------------------------
(* What the steps do to the runs.                                          *)

\* A step of run f leaves the other runs and the clients alone, keeps its stamp,
\* comes to hold a task only by claiming it and to own its ids only by inserting
\* the root row.
RunStep(f) ==
  /\ step[f] \in LiveStep /\ daemon = "up" /\ UNCHANGED <<daemon, op, held>>
  /\ \A g \in Flows \ {f} : step'[g] = step[g] /\ run'[g] = run[g]
  /\ run'[f].stamp = run[f].stamp
  /\ step'[f] \in (LiveStep \ {"create_root"}) \cup Stopped \cup {"reported"}
  /\ step'[f] \in Closing \cup {"reported"} => run'[f].stage = "review"
  /\ step'[f] \in AfterClaim =>
       \/ step[f] \in AfterClaim /\ run'[f].stage = run[f].stage
       \/ /\ CanMove(Current(f), "claimed") /\ Move(Current(f), "claimed")
          /\ run'[f].stage = run[f].stage
  /\ Owner(f)' =>
       Owner(f) \/ (CanCreate(Id(f, "root")) /\ Create(Id(f, "root"), "plan"))

\* A call on the way from one step to the next.
LEMMA PlainRunStep ==
  ASSUME TypeOK, NEW f \in Flows, NEW next, daemon = "up", Goto(f, next),
         step[f] \in LiveStep \ {"create_root"},
         next \in (LiveStep \ {"create_root"}) \cup Stopped \cup {"reported"},
         UNCHANGED <<daemon, op, held>>,
         \A g \in Flows \ {f} : run'[g] = run[g],
         run'[f].stamp = run[f].stamp,
         next \in Closing \cup {"reported"} => run'[f].stage = "review",
         next \in AfterClaim =>
           \/ step[f] \in AfterClaim /\ run'[f].stage = run[f].stage
           \/ /\ CanMove(Current(f), "claimed") /\ Move(Current(f), "claimed")
              /\ run'[f].stage = run[f].stage
  PROVE  RunStep(f)
<1>1. step'[f] = next /\ \A g \in Flows \ {f} : step'[g] = step[g]
  BY DEF TypeOK, Goto
<1>2. Owner(f)
  BY DEF Owner
<1>3. /\ step[f] \in LiveStep
      /\ step'[f] \in (LiveStep \ {"create_root"}) \cup Stopped \cup {"reported"}
      /\ step'[f] \in Closing \cup {"reported"} => run'[f].stage = "review"
  BY <1>1
<1>4. step'[f] \in AfterClaim =>
         \/ step[f] \in AfterClaim /\ run'[f].stage = run[f].stage
         \/ /\ CanMove(Current(f), "claimed") /\ Move(Current(f), "claimed")
            /\ run'[f].stage = run[f].stage
  BY <1>1
<1>5. \A g \in Flows \ {f} : step'[g] = step[g] /\ run'[g] = run[g]
  BY <1>1
<1>6. Owner(f)' => Owner(f) \/ (CanCreate(Id(f, "root")) /\ Create(Id(f, "root"), "plan"))
  BY <1>2
<1>7. daemon = "up" /\ UNCHANGED <<daemon, op, held>> /\ run'[f].stamp = run[f].stamp
  OBVIOUS
<1> QED BY <1>3, <1>4, <1>5, <1>6, <1>7 DEF RunStep

\* A transition of a task is one of them.
LEMMA MoveRunStep ==
  ASSUME TypeOK, ControlInv, NEW f \in Flows, NEW t, NEW to,
         NEW here \in LiveStep \ {"create_root"},
         NEW next \in (LiveStep \ {"create_root"}) \cup {"reported"},
         MoveOrErr(f, here, t, to, next) \/ MoveOrSkip(f, here, t, to, next),
         next \in Closing \cup {"reported"} => here \in Closing,
         next \in AfterClaim =>
           \/ here \in AfterClaim
           \/ t = Current(f) /\ to = "claimed" /\ MoveOrErr(f, here, t, to, next)
  PROVE  RunStep(f)
<1>1. /\ daemon = "up" /\ step[f] = here /\ UNCHANGED <<daemon, op, held, run>>
      /\ \/ /\ Goto(f, next)
            /\ next \in AfterClaim =>
                 \/ here \in AfterClaim
                 \/ CanMove(Current(f), "claimed") /\ Move(Current(f), "claimed")
         \/ Goto(f, "errored")
  BY DEF MoveOrErr, MoveOrSkip, At
<1>2. here \in Closing => run[f].stage = "review"
  BY <1>1 DEF ControlInv, RunControl
<1>3. "errored" \in Stopped /\ "errored" \notin AfterClaim /\ "errored" \notin Closing
  BY DEF Stopped, AfterClaim, Closing
<1>4. CASE /\ Goto(f, next)
           /\ next \in AfterClaim =>
                \/ here \in AfterClaim
                \/ CanMove(Current(f), "claimed") /\ Move(Current(f), "claimed")
  BY <1>1, <1>2, <1>4, PlainRunStep
<1>5. CASE Goto(f, "errored")
  <2>1. /\ "errored" \in Closing \cup {"reported"} => run'[f].stage = "review"
        /\ "errored" \in (LiveStep \ {"create_root"}) \cup Stopped \cup {"reported"}
        /\ step[f] \in LiveStep \ {"create_root"}
        /\ run'[f].stamp = run[f].stamp /\ \A g \in Flows \ {f} : run'[g] = run[g]
    BY <1>1, <1>3
  <2> QED BY <1>1, <1>3, <1>5, <2>1, PlainRunStep
<1> QED BY <1>1, <1>4, <1>5

\* Every step of a run is of that shape.
LEMMA FlowRunStep ==
  ASSUME TypeOK, ControlInv, NEW f \in Flows, FlowNext(f)
  PROVE  RunStep(f)
<1> USE DEF LiveStep, Setup, StageStep, Closing, Stopped, AfterClaim
<1>0. run \in [Flows -> Run] /\ step \in [Flows -> Step]
  BY DEF TypeOK
<1>1. CASE ClaimStage(f) \/ StartWork(f) \/ FailTask(f) \/ FailRoot(f) \/ CompleteStage(f)
             \/ ClaimRoot(f) \/ WorkRoot(f) \/ CompleteRoot(f)
  <2>1. CASE ClaimStage(f)
    BY <2>1, MoveRunStep DEF ClaimStage
  <2>2. CASE StartWork(f)
    BY <2>2, MoveRunStep DEF StartWork
  <2>3. CASE FailTask(f)
    BY <2>3, MoveRunStep DEF FailTask
  <2>4. CASE FailRoot(f)
    BY <2>4, MoveRunStep DEF FailRoot
  <2>5. CASE CompleteStage(f)
    BY <2>5, MoveRunStep DEF CompleteStage
  <2>6. CASE ClaimRoot(f)
    BY <2>6, MoveRunStep DEF ClaimRoot
  <2>7. CASE WorkRoot(f)
    BY <2>7, MoveRunStep DEF WorkRoot
  <2>8. CASE CompleteRoot(f)
    BY <2>8, MoveRunStep DEF CompleteRoot
  <2> QED BY <1>1, <2>1, <2>2, <2>3, <2>4, <2>5, <2>6, <2>7, <2>8
<1>2. CASE CreateTask(f, "create_root", "root", "create_impl")
  <2>1. /\ step[f] = "create_root" /\ daemon = "up" /\ UNCHANGED <<daemon, op, held, run>>
        /\ \/ /\ CanCreate(Id(f, "root")) /\ Create(Id(f, "root"), "plan")
              /\ Goto(f, "create_impl")
           \/ Goto(f, "errored")
    BY <1>2 DEF CreateTask, At, PrefixKind
  <2>2. /\ step'[f] \in {"create_impl", "errored"}
        /\ step'[f] = "create_impl" => CanCreate(Id(f, "root")) /\ Create(Id(f, "root"), "plan")
        /\ \A g \in Flows \ {f} : step'[g] = step[g]
    BY <1>0, <2>1 DEF Goto
  <2>3. Owner(f)' => step'[f] = "create_impl"
    BY <2>2 DEF Owner
  <2> QED BY <2>1, <2>2, <2>3 DEF RunStep
<1>3. CASE \/ CreateTask(f, "create_impl", "impl", "create_review")
           \/ CreateTask(f, "create_review", "review", "add_dep")
  BY <1>3, PlainRunStep DEF CreateTask, At
<1>4. CASE AddDep(f) \/ CreateWorktree(f) \/ SetBusy(f) \/ AssignTask(f)
  BY <1>4, PlainRunStep DEF AddDep, CreateWorktree, SetBusy, AssignTask, At
<1>5. CASE Spawn(f) \/ SessionSucceeds(f) \/ SessionFails(f) \/ WatchdogKills(f)
  BY <1>5, PlainRunStep DEF Spawn, SessionSucceeds, SessionFails, WatchdogKills, At
<1>6. CASE SessionRetries(f)
  <2>1. run'[f].stamp = run[f].stamp /\ run'[f].stage = run[f].stage
    BY <1>0, <1>6 DEF SessionRetries, Run
  <2>2. \A g \in Flows \ {f} : run'[g] = run[g]
    BY <1>0, <1>6 DEF SessionRetries
  <2> QED BY <1>6, <2>1, <2>2, PlainRunStep DEF SessionRetries, At
<1>7. CASE FailIdle(f) \/ Release(f)
  BY <1>7, PlainRunStep DEF FailIdle, Release, At
<1>8. CASE Snapshot(f)
  <2>1. /\ run'[f].stamp = run[f].stamp
        /\ \A g \in Flows \ {f} : run'[g] = run[g]
    BY <1>0, <1>8 DEF Snapshot, Run
  <2> QED BY <1>8, <2>1, PlainRunStep DEF Snapshot, At
<1>9. CASE WriteReport(f)
  <2>1. /\ run'[f].stamp = run[f].stamp /\ run'[f].stage = run[f].stage
        /\ \A g \in Flows \ {f} : run'[g] = run[g]
    BY <1>0, <1>9 DEF WriteReport, Run
  <2>2. run[f].stage = "review"
    BY <1>9 DEF WriteReport, At, ControlInv, RunControl
  <2> QED BY <1>9, <2>1, <2>2, PlainRunStep DEF WriteReport, At
<1> QED BY <1>1, <1>2, <1>3, <1>4, <1>5, <1>6, <1>7, <1>8, <1>9
     DEF FlowNext, SessionNext, CreateTasks

\* A step that is nobody's run: the runs stay as they are, or are lost.
Quiet ==
  /\ UNCHANGED <<run, deps>>
  /\ \/ UNCHANGED step /\ (UNCHANGED daemon \/ daemon # "up")
     \/ Crash

\* The clock, daemon starts and deaths, clients and hooks move
\* no run forward: what they do to a run is at most to lose it (Crash).
LEMMA QuietSteps ==
  ASSUME TypeOK, \/ Tick \/ DaemonNext \/ UNCHANGED vars
                 \/ \E c \in Clients : ClientNext(c)
                 \/ \E kind \in Delegated : DelegateTask(kind)
                 \/ \E a \in Reporters : HookActivity(a)
  PROVE  Quiet
BY DEF Quiet, Tick, DaemonNext, vars, db, ClientNext, DelegateTask, HookActivity,
     Boot, ListTasks, ReconcileTask, ListAgents, ReconcileDone, Serve, ReconcileAgent, RegisterAdapter, ClaimList, ClaimAssign,
     ClaimTransition, CompleteRead, CompleteStep, Crash

\* Every step is one of these, or starts a run.
LEMMA StepKinds ==
  ASSUME TypeOK, ControlInv, [Next]_vars
  PROVE  \/ \E f \in Flows, r \in Requests : Start(f, r[1], r[2])
         \/ \E f \in Flows : FlowNext(f) /\ RunStep(f)
         \/ Quiet
BY QuietSteps, FlowRunStep DEF Next

-----------------------------------------------------------------------------
(* The inductive invariant, part by part.                                  *)

\* The start of a run, in one place.
LEMMA StartRun ==
  ASSUME TypeOK, NEW f \in Flows, NEW w, NEW r, Start(f, w, r)
  PROVE  /\ daemon = "up" /\ step[f] = "idle" /\ step'[f] \in {"create_root", "errored"}
         /\ run'[f].stamp = clock /\ run'[f].stage = run[f].stage
         /\ \A g \in Flows \ {f} : step'[g] = step[g] /\ run'[g] = run[g]
         /\ UNCHANGED <<clock, daemon, task, deps, op, held>>
<1>1. run[f] \in Run
  BY DEF TypeOK
<1> QED BY <1>1 DEF TypeOK, Start, At, Goto, db, Run

\* A request in progress names a task.
LEMMA OpStep ==
  ASSUME TypeOK, ControlInv, [Next]_vars, NEW c \in Clients, op'[c].at # "idle"
  PROVE  op'[c].task \in TaskIds
<1> USE DEF TypeOK, ControlInv, NoOp
<1>1. CASE UNCHANGED op
  BY <1>1
<1>2. CASE op' = [d \in Clients |-> NoOp]
  BY <1>2
<1>3. ASSUME NEW d \in Clients, ClientNext(d) PROVE op'[c].task \in TaskIds
  <2>1. ASSUME NEW kinds, ClaimList(d, kinds) PROVE op'[c].task \in TaskIds
    BY <2>1 DEF ClaimList, OpenTasks
  <2>2. CASE ClaimAssign(d)
    BY <2>2 DEF ClaimAssign, Op
  <2>3. CASE ClaimTransition(d)
    BY <2>3 DEF ClaimTransition
  <2>4. ASSUME NEW t \in TaskIds, CompleteRead(d, t) PROVE op'[c].task \in TaskIds
    BY <2>4 DEF CompleteRead
  <2>5. CASE CompleteStep(d)
    <3>1. op' = [op EXCEPT ![d] = NoOp] \/ op' = [op EXCEPT ![d] = [op[d] EXCEPT !.next = NextOnPath[op[d].next]]]
      BY <2>5 DEF CompleteStep
    <3>2. op'[c].at # "idle" => op'[c].task = op[c].task /\ op[c].at # "idle"
      <4>1. CASE c # d
        BY <3>1, <4>1
      <4>2. CASE c = d
        <5>1. op[d] \in Op /\ op[d].at = "complete"
          BY <2>5 DEF CompleteStep
        <5> QED BY <3>1, <4>2, <5>1 DEF Op
      <4> QED BY <4>1, <4>2
    <3> QED BY <3>2
  <2> QED BY <1>3, <2>1, <2>2, <2>3, <2>4, <2>5 DEF ClientNext
<1>4. ASSUME NEW f \in Flows, FlowNext(f) PROVE UNCHANGED op
  BY <1>4, FlowRunStep DEF RunStep
<1> QED BY <1>1, <1>2, <1>3, <1>4 DEF Next, DaemonNext, Tick, Start, DelegateTask,
            HookActivity, Boot, ListTasks, ReconcileTask, ListAgents, ReconcileDone, Serve, Crash, ReconcileAgent,
            RegisterAdapter, vars

\* Runs advance only under a serving daemon, and keep their stamp.
LEMMA ControlStep == TypeOK /\ ControlInv /\ [Next]_vars => ControlInv'
<1> SUFFICES ASSUME TypeOK, ControlInv, [Next]_vars, NEW g \in Flows PROVE RunControl(g)'
  BY OpStep DEF ControlInv
<1>0. RunControl(g) /\ clock \in Stamps
  BY DEF ControlInv, TypeOK
<1> USE DEF RunControl
<1>1. ASSUME NEW f \in Flows, NEW r \in Requests, Start(f, r[1], r[2]) PROVE RunControl(g)'
  <2>1. CASE g = f
    BY <1>0, <1>1, <2>1, StartRun DEF Closing
  <2> QED BY <1>0, <1>1, <2>1, StartRun
<1>2. ASSUME NEW f \in Flows, RunStep(f) PROVE RunControl(g)'
  <2>1. CASE g = f
    <3>1. step[f] # "idle" /\ step'[f] # "idle"
      BY <1>2 DEF RunStep, LiveStep, Setup, StageStep, Closing, Stopped
    <3> QED BY <1>0, <1>2, <2>1, <3>1 DEF RunStep
  <2> QED BY <1>0, <1>2, <2>1 DEF RunStep
<1>3. CASE Quiet
  <2>1. CASE UNCHANGED step
    <3>1. CASE daemon' = daemon
      BY <1>0, <1>3, <2>1, <3>1 DEF Quiet
    <3>2. CASE daemon # "up"
      BY <1>0, <1>3, <2>1, <3>2 DEF Quiet
    <3>3. CASE Crash
      <4>1. step[g] \notin LiveStep
        BY <2>1, <3>3 DEF Crash, LiveStep, Setup, StageStep, Closing
      <4> QED BY <1>0, <1>3, <2>1, <4>1 DEF Quiet
    <3> QED BY <1>3, <3>1, <3>2, <3>3 DEF Quiet
  <2>2. CASE Crash
    <3>1. step'[g] = IF step[g] \in LiveStep THEN "lost" ELSE step[g]
      BY <2>2 DEF Crash
    <3>2. "lost" \notin LiveStep \cup {"idle", "reported"}
      BY DEF LiveStep, Setup, StageStep, Closing
    <3>3. step[g] \in LiveStep => step[g] # "idle"
      BY DEF LiveStep, Setup, StageStep, Closing
    <3>4. "lost" \notin Closing /\ step'[g] \notin LiveStep
      BY <3>1, <3>2 DEF LiveStep
    <3> QED BY <1>0, <1>3, <3>1, <3>2, <3>3, <3>4 DEF Quiet
  <2> QED BY <1>3, <2>1, <2>2 DEF Quiet
<1> QED BY <1>1, <1>2, <1>3, StepKinds

\* Ids are dated inside the clock's range, so nothing that happens to an id of
\* an idle run matters.
LEMMA StatePersists ==
  ASSUME TypeOK, ControlInv, [Next]_vars, NEW t
  PROVE  /\ State(t) = "done" => State(t)' = "done"
         /\ State(t) # "absent" => State(t)' # "absent"
<1>1. CASE t \in TaskIds
  BY <1>1, TableMonotone DEF State
<1> QED BY <1>1 DEF State

\* Two runs never own the same ids: the row of the root task arbitrates.
LEMMA OwnerStep == TypeOK /\ ControlInv /\ OwnerInv /\ [Next]_vars => OwnerInv'
<1> SUFFICES ASSUME TypeOK, ControlInv, OwnerInv, [Next]_vars PROVE OwnerInv'
  OBVIOUS
<1>1. ASSUME NEW f \in Flows, NEW r \in Requests, Start(f, r[1], r[2]) PROVE OwnerInv'
  <2>1. ~ Owner(f)'
    BY <1>1, StartRun DEF Owner, LiveStep, Setup, StageStep, Closing
  <2>2. \A g \in Flows \ {f} : (Owner(g)' <=> Owner(g)) /\ run'[g] = run[g]
    BY <1>1, StartRun DEF Owner
  <2>3. \A t : State(t)' = State(t)
    BY <1>1, StartRun DEF State
  <2> QED BY <2>1, <2>2, <2>3 DEF OwnerInv, Id
<1>2. ASSUME NEW f \in Flows, RunStep(f) PROVE OwnerInv'
  <2>1. \A g \in Flows : run'[g].stamp = run[g].stamp
    BY <1>2 DEF RunStep
  <2>2. \A g \in Flows \ {f} : Owner(g)' <=> Owner(g)
    BY <1>2 DEF RunStep, Owner
  <2>3. \A t : State(t) # "absent" => State(t)' # "absent"
    BY StatePersists
  <2>4. CASE Owner(f)' => Owner(f)
    BY <2>1, <2>2, <2>3, <2>4 DEF OwnerInv, Id
  <2>5. CASE CanCreate(Id(f, "root")) /\ Create(Id(f, "root"), "plan")
    <3>1. Id(f, "root") \in TaskIds
      BY <1>2, RunNames DEF RunStep, LiveStep, Setup, StageStep, Closing
    <3>2. State(Id(f, "root")) = "absent" /\ State(Id(f, "root"))' = "open"
      <4>1. task'[Id(f, "root")].state = "open"
        BY <2>5, <3>1, CreateStates DEF TypeOK
      <4>2. Id(f, "root")' = Id(f, "root")
        BY <2>1 DEF Id
      <4> QED BY <2>5, <3>1, <4>1, <4>2 DEF State, CanCreate
    <3>3. \A g \in Flows : Owner(g) => run[g].stamp # run[f].stamp
      BY <3>2 DEF OwnerInv, Id
    <3> QED BY <2>1, <2>2, <2>3, <3>2, <3>3 DEF OwnerInv, Id
  <2> QED BY <1>2, <2>4, <2>5 DEF RunStep
<1>3. CASE Quiet
  <2>1. \A g \in Flows : Owner(g)' => Owner(g)
    <3>1. CASE UNCHANGED step
      BY <3>1 DEF Owner
    <3>2. CASE Crash
      BY <3>2 DEF Crash, Owner, LiveStep, Setup, StageStep, Closing
    <3> QED BY <1>3, <3>1, <3>2 DEF Quiet
  <2>2. run' = run /\ \A t : State(t) # "absent" => State(t)' # "absent"
    BY <1>3, StatePersists DEF Quiet
  <2> QED BY <2>1, <2>2 DEF OwnerInv, Id
<1> QED BY <1>1, <1>2, <1>3, StepKinds

\* Dependencies are those of write-review.
LEMMA DepsStep == TypeOK /\ ControlInv /\ DepsInv /\ [Next]_vars => DepsInv'
<1> SUFFICES ASSUME TypeOK, ControlInv, DepsInv, [Next]_vars PROVE DepsInv'
  OBVIOUS
<1>1. ASSUME NEW f \in Flows, AddDep(f) PROVE DepsInv'
  <2>1. run[f].stamp \in Stamps
    BY <1>1 DEF AddDep, At, ControlInv, RunControl
  <2> QED BY <1>1, <2>1 DEF AddDep, DepsInv, Id
<1>2. CASE UNCHANGED deps
  BY <1>2 DEF DepsInv
<1>3. ASSUME NEW f \in Flows, FlowNext(f) PROVE AddDep(f) \/ UNCHANGED deps
  BY <1>3 DEF FlowNext, SessionNext, CreateTasks, CreateTask, CreateWorktree, SetBusy, AssignTask,
       ClaimStage, StartWork, Spawn, SessionSucceeds, SessionFails, SessionRetries, WatchdogKills,
       FailTask, FailRoot, FailIdle, CompleteStage, Release, Snapshot, ClaimRoot, WorkRoot,
       WriteReport, CompleteRoot, MoveOrErr, MoveOrSkip, db
<1>4. CASE Quiet \/ \E f \in Flows, r \in Requests : Start(f, r[1], r[2])
  BY <1>2, <1>4 DEF Quiet, Start, db
<1> QED BY <1>1, <1>2, <1>3, <1>4, StepKinds

\* Nothing changes which claims clients hold but a claim that is granted.
LEMMA HeldStep ==
  ASSUME TypeOK, ControlInv, [Next]_vars
  PROVE  \/ UNCHANGED held
         \/ \E c \in Clients : ClaimTransition(c)
<1>1. ASSUME NEW f \in Flows, FlowNext(f) PROVE UNCHANGED held
  BY <1>1, FlowRunStep DEF RunStep
<1> QED BY <1>1 DEF Next, DaemonNext, Tick, Start, DelegateTask, HookActivity, Boot,
            ListTasks, ReconcileTask, ListAgents, ReconcileDone, Serve, Crash, ReconcileAgent, RegisterAdapter, vars,
            ClientNext, ClaimList, ClaimAssign, CompleteRead, CompleteStep

\* A run comes to hold a task only by moving it from open to claimed.
LEMMA HoldsStep ==
  ASSUME TypeOK, ControlInv, [Next]_vars, NEW f \in Flows, NEW t \in TaskIds,
         RunHolds(f, t)', ~ RunHolds(f, t)
  PROVE  /\ Current(f) = t /\ task[t].state = "open" /\ task'[t].state = "claimed"
         /\ RunStep(f)
<1>1. ASSUME NEW g \in Flows, RunStep(g), f = g
      PROVE  /\ Current(f) = t /\ task[t].state = "open" /\ task'[t].state = "claimed"
             /\ RunStep(f)
  <2>1. step'[f] \in AfterClaim /\ Current(f)' = t
    BY DEF RunHolds
  <2>2. run'[f].stamp = run[f].stamp /\ run'[f].stage = run[f].stage
    BY <1>1, <2>1 DEF RunStep
  <2>3. Current(f) = t
    BY <2>1, <2>2 DEF Current, Id
  <2>4. step[f] \notin AfterClaim
    BY <2>3 DEF RunHolds
  <2>5. CanMove(t, "claimed") /\ Move(t, "claimed")
    BY <1>1, <2>1, <2>3, <2>4 DEF RunStep
  <2>6. task[t].state = "open"
    BY <2>5 DEF CanMove, CanTransition, Forward
  <2>7. task'[t].state = "claimed"
    BY <2>5, MoveStates DEF TypeOK
  <2> QED BY <1>1, <2>3, <2>6, <2>7
<1>2. ASSUME NEW g \in Flows, RunStep(g), f # g PROVE FALSE
  BY <1>2 DEF RunStep, RunHolds, Current, Id
<1>3. ASSUME NEW g \in Flows, NEW r \in Requests, Start(g, r[1], r[2]) PROVE FALSE
  <2>1. CASE f = g
    BY <1>3, <2>1, StartRun DEF RunHolds, AfterClaim
  <2> QED BY <1>3, <2>1, StartRun DEF RunHolds, Current, Id
<1>4. CASE Quiet
  <2>1. Current(f)' = Current(f)
    BY <1>4 DEF Quiet, Current, Id
  <2>2. step'[f] = step[f] \/ step'[f] = "lost"
    BY <1>4 DEF Quiet, Crash
  <2> QED BY <2>1, <2>2 DEF RunHolds, AfterClaim
<1> QED BY <1>1, <1>2, <1>3, <1>4, StepKinds

\* A claim granted to a client is of an open task, which is claimed from then on.
LEMMA GrantStep ==
  ASSUME TypeOK, ControlInv, NEW c \in Clients, ClaimTransition(c), NEW t \in TaskIds,
         NEW d \in Clients, t \in held'[d], t \notin held[d]
  PROVE  /\ c = d /\ task[t].state = "open" /\ task'[t].state = "claimed"
         /\ UNCHANGED <<step, run>>
<1>1. c = d /\ t = op[c].task /\ CanMove(t, "claimed") /\ Move(t, "claimed")
  BY DEF ClaimTransition, TypeOK
<1>2. task'[t].state = "claimed"
  BY <1>1, MoveStates DEF TypeOK
<1> QED BY <1>1, <1>2 DEF CanMove, CanTransition, Forward, ClaimTransition

\* What is claimed stays out of reach of the next claim.
LEMMA ClaimStep == TypeOK /\ ControlInv /\ ClaimInv /\ [Next]_vars => ClaimInv'
<1> SUFFICES ASSUME TypeOK, ControlInv, ClaimInv, [Next]_vars,
                    NEW t \in TaskIds, task'[t].state \in {"absent", "open"}
             PROVE  /\ \A c \in Clients : t \notin held'[c]
                    /\ \A f \in Flows : ~ RunHolds(f, t)'
  BY DEF ClaimInv
<1>1. task[t].state \in {"absent", "open"}
  BY TableMonotone
<1>2. ASSUME NEW f \in Flows PROVE ~ RunHolds(f, t)'
  BY <1>1, HoldsStep DEF ClaimInv
<1>3. ASSUME NEW c \in Clients PROVE t \notin held'[c]
  BY <1>1, HeldStep, GrantStep DEF ClaimInv
<1> QED BY <1>2, <1>3

\* Two parties never hold the same task.
LEMMA OneClaimantStep ==
  TypeOK /\ ControlInv /\ ClaimInv /\ OneClaimant /\ [Next]_vars => OneClaimant'
<1> SUFFICES ASSUME TypeOK, ControlInv, ClaimInv, OneClaimant, [Next]_vars, NEW t \in TaskIds
             PROVE  /\ \A c, d \in Clients : t \in held'[c] /\ t \in held'[d] => c = d
                    /\ \A f, g \in Flows : RunHolds(f, t)' /\ RunHolds(g, t)' => f = g
                    /\ \A c \in Clients, f \in Flows : ~ (t \in held'[c] /\ RunHolds(f, t)')
  BY DEF OneClaimant
<1>1. CASE \E f \in Flows : RunHolds(f, t)' /\ ~ RunHolds(f, t)
  <2>1. PICK f \in Flows : RunHolds(f, t)' /\ ~ RunHolds(f, t)
    BY <1>1
  <2>2. task[t].state = "open" /\ RunStep(f)
    BY <2>1, HoldsStep
  <2>3. \A c \in Clients : t \notin held'[c]
    BY <2>2 DEF ClaimInv, RunStep
  <2>4. \A g \in Flows \ {f} : ~ RunHolds(g, t)'
    <3> SUFFICES ASSUME NEW g \in Flows \ {f} PROVE ~ RunHolds(g, t)'
      OBVIOUS
    <3>1. ~ RunHolds(g, t)
      BY <2>2 DEF ClaimInv
    <3>2. step'[g] = step[g] /\ run'[g] = run[g]
      BY <2>2 DEF RunStep
    <3> QED BY <3>1, <3>2 DEF RunHolds, Current, Id
  <2> QED BY <2>3, <2>4
<1>2. CASE \A f \in Flows : RunHolds(f, t)' => RunHolds(f, t)
  <2>1. CASE UNCHANGED held
    BY <1>2, <2>1 DEF OneClaimant
  <2>2. ASSUME NEW c \in Clients, ClaimTransition(c), NEW d \in Clients,
               t \in held'[d], t \notin held[d]
        PROVE  /\ \A e \in Clients : t \in held'[e] => e = c
               /\ \A f \in Flows : ~ RunHolds(f, t)'
    <3>1. task[t].state = "open"
      BY <2>2, GrantStep
    <3>2. \A e \in Clients : t \notin held[e]
      BY <3>1 DEF ClaimInv
    <3> QED BY <1>2, <2>2, <3>1, <3>2, GrantStep DEF ClaimInv
  <2>3. CASE \A d \in Clients : t \in held'[d] => t \in held[d]
    BY <1>2, <2>3 DEF OneClaimant
  <2> QED BY <2>1, <2>2, <2>3, HeldStep
<1> QED BY <1>1, <1>2

\* A run changes the state only of rows it inserts and of rows of its own ids.
LEMMA FlowTouches ==
  ASSUME TypeOK, ControlInv, NEW g \in Flows, FlowNext(g), NEW u \in TaskIds
  PROVE  \/ task'[u].state = task[u].state
         \/ task[u].state = "absent"
         \/ Owner(g) /\ u[2] = run[g].stamp
<1> USE DEF TypeOK
<1>1. CASE CreateTasks(g)
  BY <1>1, CreateStates DEF CreateTasks, CreateTask, CanCreate
<1>2. ASSUME NEW here \in LiveStep \ {"create_root"}, NEW p, NEW to, NEW next,
             \/ MoveOrErr(g, here, Id(g, p), to, next)
             \/ MoveOrSkip(g, here, Id(g, p), to, next)
      PROVE  task'[u].state = task[u].state \/ (Owner(g) /\ u[2] = run[g].stamp)
  <2>1. Owner(g)
    BY <1>2 DEF MoveOrErr, MoveOrSkip, At, Owner
  <2>2. task'[u].state = task[u].state \/ u = Id(g, p)
    BY <1>2, MoveStates DEF MoveOrErr, MoveOrSkip
  <2> QED BY <2>1, <2>2 DEF Id
<1>3. CASE ClaimStage(g) \/ StartWork(g) \/ FailTask(g) \/ CompleteStage(g)
  BY <1>2, <1>3 DEF ClaimStage, StartWork, FailTask, CompleteStage, Current, LiveStep, StageStep
<1>4. CASE FailRoot(g) \/ ClaimRoot(g) \/ WorkRoot(g) \/ CompleteRoot(g)
  BY <1>2, <1>4 DEF FailRoot, ClaimRoot, WorkRoot, CompleteRoot, LiveStep, StageStep, Closing
<1>5. CASE AssignTask(g)
  BY <1>5, AssignStates DEF AssignTask
<1> QED BY <1>1, <1>3, <1>4, <1>5 DEF FlowNext, SessionNext, AddDep, CreateWorktree, SetBusy,
         Spawn, SessionSucceeds, SessionFails, SessionRetries, WatchdogKills, FailIdle,
         Release, Snapshot, WriteReport, db

\* While the daemon serves, everybody else can at most complete a working task.
LEMMA OthersTouch ==
  ASSUME TypeOK, ControlInv, [Next]_vars, daemon = "up", NEW u \in TaskIds,
         ~ \E f \in Flows : FlowNext(f), task[u].state \in {"working", "done"}
  PROVE  task'[u].state \in {"working", "done"}
<1> USE DEF TypeOK
<1>1. ASSUME NEW t, NEW to \in {"claimed", "working", "done"}, CanMove(t, to), Move(t, to)
      PROVE  task'[u].state \in {"working", "done"}
  BY <1>1, MoveStates DEF CanMove, CanTransition, Forward
<1>2. ASSUME NEW c \in Clients, ClientNext(c) PROVE task'[u].state \in {"working", "done"}
  <2>1. CASE ClaimTransition(c)
    BY <1>1, <2>1 DEF ClaimTransition
  <2>2. CASE CompleteStep(c)
    <3>1. op[c].next \in {"claimed", "working", "done"}
      BY DEF Op
    <3> QED BY <1>1, <2>2, <3>1 DEF CompleteStep
  <2>3. CASE ClaimAssign(c)
    BY <2>3, AssignStates DEF ClaimAssign
  <2> QED BY <1>2, <2>1, <2>2, <2>3 DEF ClientNext, ClaimList, CompleteRead, db
<1>3. ASSUME NEW kind \in Delegated, DelegateTask(kind)
      PROVE  task'[u].state \in {"working", "done"}
  BY <1>3, CreateStates DEF DelegateTask, CanCreate
<1> QED BY <1>2, <1>3 DEF Next, DaemonNext, Tick, Start, HookActivity, Boot,
        ListTasks, ReconcileTask, ListAgents, ReconcileDone, Serve, Crash, ReconcileAgent, RegisterAdapter, vars, db

\* A session's task is being worked on.
LEMMA SessionStepHasTask ==
  TypeOK /\ ControlInv /\ OwnerInv /\ SessionHasTask /\ [Next]_vars => SessionHasTask'
<1> SUFFICES ASSUME TypeOK, ControlInv, OwnerInv, SessionHasTask, [Next]_vars,
                    NEW f \in Flows, step'[f] \in {"spawn", "observe"}
             PROVE  State(Current(f))' \in {"working", "done"}
  BY DEF SessionHasTask
<1>1. CASE FlowNext(f)
  <2>1. step[f] # "idle" /\ step[f] \in LiveStep
    BY <1>1, FlowRunStep DEF RunStep, LiveStep, Setup, StageStep, Closing
  <2>2. Current(f) \in TaskIds
    BY <2>1, RunNames
  <2>3. CASE StartWork(f)
    <3>1. Move(Current(f), "working") /\ run' = run
      BY <2>3 DEF StartWork, MoveOrErr, Goto, TypeOK
    <3>2. Current(f)' = Current(f)
      BY <3>1 DEF Current, Id
    <3>3. task'[Current(f)].state = "working"
      BY <2>2, <3>1, MoveStates DEF TypeOK
    <3> QED BY <2>2, <3>2, <3>3 DEF State
  <2>4. CASE Spawn(f) \/ SessionRetries(f)
    <3>1. step[f] \in {"spawn", "observe"} /\ task' = task
      BY <2>4 DEF Spawn, SessionRetries, At, db
    <3>2. run'[f].stamp = run[f].stamp /\ run'[f].stage = run[f].stage
      BY <2>4 DEF Spawn, SessionRetries, TypeOK, Run
    <3>3. Current(f)' = Current(f)
      BY <3>2 DEF Current, Id
    <3> QED BY <3>1, <3>3 DEF SessionHasTask, State
  <2>5. CASE ~ (StartWork(f) \/ Spawn(f) \/ SessionRetries(f))
    BY <1>1, <2>5 DEF FlowNext, SessionNext, CreateTasks, CreateTask, AddDep, CreateWorktree,
         SetBusy, AssignTask, ClaimStage, SessionSucceeds, SessionFails, WatchdogKills, FailTask,
         FailRoot, FailIdle, CompleteStage, Release, Snapshot, ClaimRoot, WorkRoot, WriteReport,
         CompleteRoot, MoveOrErr, MoveOrSkip, Goto, TypeOK
  <2> QED BY <2>3, <2>4, <2>5
<1>2. CASE ~ FlowNext(f)
  <2>1. step[f] = step'[f] /\ run'[f] = run[f]
    <3>1. ASSUME NEW g \in Flows, FlowNext(g) PROVE step'[f] = step[f] /\ run'[f] = run[f]
      BY <1>2, <3>1, FlowRunStep DEF RunStep
    <3>2. ASSUME NEW g \in Flows, NEW r \in Requests, Start(g, r[1], r[2])
          PROVE  step'[f] = step[f] /\ run'[f] = run[f]
      BY <3>2, StartRun
    <3>3. CASE Quiet
      BY <3>3 DEF Quiet, Crash
    <3> QED BY <3>1, <3>2, <3>3, StepKinds
  <2>2. Owner(f) /\ daemon = "up" /\ Current(f) \in TaskIds /\ Current(f)' = Current(f)
    <3>1. step[f] \in LiveStep \ {"create_root"} /\ step[f] # "idle"
      BY <2>1 DEF LiveStep, Setup, StageStep, Closing
    <3> QED BY <2>1, <3>1, RunNames DEF Owner, ControlInv, RunControl, Current, Id
  <2>3. task[Current(f)].state \in {"working", "done"} /\ Current(f)[2] = run[f].stamp
    BY <2>1, <2>2 DEF SessionHasTask, State, Current, Id
  <2>4. CASE \E g \in Flows : FlowNext(g)
    <3>1. PICK g \in Flows : FlowNext(g)
      BY <2>4
    <3>2. ~ (Owner(g) /\ Current(f)[2] = run[g].stamp)
      BY <1>2, <2>2, <2>3, <3>1 DEF OwnerInv
    <3>3. task'[Current(f)].state = task[Current(f)].state
      BY <2>2, <2>3, <3>1, <3>2, FlowTouches
    <3> QED BY <2>2, <2>3, <3>3 DEF State
  <2>5. CASE ~ \E g \in Flows : FlowNext(g)
    BY <2>2, <2>3, <2>5, OthersTouch DEF State
  <2> QED BY <2>4, <2>5
<1> QED BY <1>1, <1>2

\* What a run has behind it stays done while it goes on, or stops.
LEMMA KeepBehind ==
  ASSUME TypeOK, ControlInv, [Next]_vars, NEW f \in Flows, BehindDone(f),
         run'[f].stamp = run[f].stamp, run'[f].stage = run[f].stage,
         run'[f].report = run[f].report,
         step'[f] \in {"release", "snapshot"} => step[f] \in {"release", "snapshot"},
         step'[f] \in Closing => step[f] \in {"release", "snapshot"} \cup Closing,
         step'[f] = "root_done" => step[f] = "root_done",
         step'[f] = "reported" => step[f] = "reported"
  PROVE  BehindDone(f)'
<1>1. \A p : Id(f, p)' = Id(f, p)
  BY DEF Id
<1>2. \A p : State(Id(f, p)) = "done" => State(Id(f, p))' = "done"
  BY <1>1, StatePersists DEF State
<1> QED BY <1>1, <1>2 DEF BehindDone

\* A stage is left only with its task done; the report says so.
LEMMA FlowBehind ==
  ASSUME TypeOK, ControlInv, [Next]_vars, NEW f \in Flows, BehindDone(f), FlowNext(f)
  PROVE  BehindDone(f)'
<1> USE DEF Closing
<1>0. /\ run'[f].stamp = run[f].stamp /\ step[f] # "idle"
      /\ Current(f) \in TaskIds /\ Id(f, "root") \in TaskIds
      /\ \A p : Id(f, p)' = Id(f, p)
      /\ \A p : State(Id(f, p)) = "done" => State(Id(f, p))' = "done"
  <2>1. run'[f].stamp = run[f].stamp /\ step[f] # "idle"
    BY FlowRunStep DEF RunStep, LiveStep, Setup, StageStep
  <2>2. \A p : Id(f, p)' = Id(f, p)
    BY <2>1 DEF Id
  <2> QED BY <2>1, <2>2, RunNames, StatePersists DEF State
<1>1. CASE CompleteStage(f)
  <2>1. CASE CanMove(Current(f), "done")
    <3>1. step'[f] = "release" /\ run' = run /\ Move(Current(f), "done")
      BY <1>1, <2>1 DEF CompleteStage, MoveOrErr, Goto, TypeOK
    <3>2. task'[Current(f)].state = "done"
      BY <1>0, <3>1, MoveStates DEF TypeOK
    <3>3. State(Current(f))' = "done"
      BY <1>0, <3>1, <3>2 DEF State, Current
    <3>4. run[f].stage \in Stage
      BY DEF TypeOK, Run
    <3> QED BY <1>0, <3>1, <3>3, <3>4 DEF BehindDone, Current, Stage
  <2>2. CASE ~ CanMove(Current(f), "done")
    <3>1. step'[f] = "errored" /\ run' = run
      BY <1>1, <2>2 DEF CompleteStage, MoveOrErr, Goto, TypeOK
    <3> QED BY <3>1, KeepBehind
  <2> QED BY <2>1, <2>2
<1>2. CASE Snapshot(f)
  <2>1. State(Id(f, "impl"))' = "done"
    BY <1>0, <1>2 DEF Snapshot, At, BehindDone
  <2>2. \/ step'[f] \in {"busy", "errored"}
        \/ step'[f] = "root_claim" /\ run[f].stage = "review"
    BY <1>2 DEF Snapshot, Goto, TypeOK
  <2>3. step'[f] = "root_claim" => State(Id(f, "review"))' = "done"
    BY <1>0, <1>2, <2>2 DEF Snapshot, At, BehindDone
  <2> QED BY <2>1, <2>2, <2>3 DEF BehindDone
<1>3. CASE WriteReport(f)
  <2>1. run[f].stage = "review" /\ step[f] = "report"
    BY <1>3 DEF WriteReport, At, ControlInv, RunControl
  <2>2. State(Id(f, "impl")) = "done" /\ State(Id(f, "review")) = "done"
    BY <2>1 DEF BehindDone
  <2>3. run'[f].report = <<"done", "done">> /\ run'[f].stage = "review"
    BY <1>3, <2>1, <2>2 DEF WriteReport, TypeOK, Run
  <2>4. step'[f] \in {"root_done", "errored"}
    BY <1>3 DEF WriteReport, Goto, TypeOK
  <2> QED BY <1>0, <2>2, <2>3, <2>4 DEF BehindDone
<1>4. CASE CompleteRoot(f)
  <2>1. step[f] = "root_done" /\ run' = run
    BY <1>4 DEF CompleteRoot, MoveOrErr, At
  <2>2. CASE CanMove(Id(f, "root"), "done")
    <3>1. step'[f] = "reported" /\ Move(Id(f, "root"), "done")
      BY <1>4, <2>2 DEF CompleteRoot, MoveOrErr, Goto, TypeOK
    <3>2. State(Id(f, "root"))' = "done"
      BY <1>0, <3>1, MoveStates DEF State, TypeOK
    <3> QED BY <1>0, <2>1, <3>1, <3>2 DEF BehindDone
  <2>3. CASE ~ CanMove(Id(f, "root"), "done")
    <3>1. step'[f] = "errored"
      BY <1>4, <2>3 DEF CompleteRoot, MoveOrErr, Goto, TypeOK
    <3> QED BY <2>1, <3>1, KeepBehind
  <2> QED BY <2>2, <2>3
<1>5. CASE Release(f)
  BY <1>5, KeepBehind DEF Release, At, Goto, TypeOK
<1>6. CASE ClaimRoot(f) \/ WorkRoot(f)
  BY <1>6, KeepBehind DEF ClaimRoot, WorkRoot, MoveOrSkip, At, Goto, TypeOK
<1>7. CASE SessionRetries(f)
  <2>1. run'[f].stage = run[f].stage /\ run'[f].report = run[f].report
    BY <1>7 DEF SessionRetries, TypeOK, Run
  <2> QED BY <1>0, <1>7, <2>1, KeepBehind DEF SessionRetries, Goto, TypeOK
<1>8. CASE CreateTasks(f) \/ AddDep(f) \/ CreateWorktree(f) \/ SetBusy(f) \/ AssignTask(f)
  BY <1>8, KeepBehind DEF CreateTasks, CreateTask, AddDep, CreateWorktree, SetBusy, AssignTask, Goto,
       TypeOK
<1>9. CASE ClaimStage(f) \/ StartWork(f) \/ FailTask(f) \/ FailRoot(f) \/ FailIdle(f)
  BY <1>9, KeepBehind DEF ClaimStage, StartWork, FailTask, FailRoot, FailIdle, MoveOrErr, MoveOrSkip,
       Goto, TypeOK
<1>10. CASE Spawn(f) \/ SessionSucceeds(f) \/ SessionFails(f) \/ WatchdogKills(f)
  BY <1>10, KeepBehind DEF Spawn, SessionSucceeds, SessionFails, WatchdogKills, Goto, TypeOK
<1> QED BY <1>1, <1>2, <1>3, <1>4, <1>5, <1>6, <1>7, <1>8, <1>9, <1>10 DEF FlowNext, SessionNext

\* What the runs have behind them is done.
LEMMA StageStepDone == TypeOK /\ ControlInv /\ StageInv /\ [Next]_vars => StageInv'
<1> SUFFICES ASSUME TypeOK, ControlInv, StageInv, [Next]_vars, NEW f \in Flows
             PROVE  BehindDone(f)'
  BY DEF StageInv
<1>0. BehindDone(f)
  BY DEF StageInv
<1>1. CASE FlowNext(f)
  BY <1>0, <1>1, FlowBehind
<1>2. ASSUME NEW r \in Requests, Start(f, r[1], r[2]) PROVE BehindDone(f)'
  <2>1. run'[f].stage = "impl" /\ step'[f] \in {"create_root", "errored"}
    BY <1>2, StartRun DEF ControlInv, RunControl, Idle
  <2> QED BY <2>1 DEF BehindDone, Closing
<1>3. CASE run'[f] = run[f] /\ step'[f] \in {step[f], "lost"}
  BY <1>0, <1>3, KeepBehind DEF Closing
<1>4. CASE Quiet
  BY <1>3, <1>4 DEF Quiet, Crash
<1>5. ASSUME NEW g \in Flows \ {f}, RunStep(g) PROVE BehindDone(f)'
  BY <1>3, <1>5 DEF RunStep
<1>6. ASSUME NEW g \in Flows \ {f}, NEW r \in Requests, Start(g, r[1], r[2])
      PROVE  BehindDone(f)'
  BY <1>3, <1>6, StartRun
<1> QED BY <1>1, <1>2, <1>4, <1>5, <1>6, StepKinds

-----------------------------------------------------------------------------
(* The theorems.                                                           *)

\* The empty database and the idle runs of a first start satisfy the invariant.
LEMMA InitInductive == Init => Inductive
<1> SUFFICES ASSUME Init PROVE Inductive
  OBVIOUS
<1> USE DEF Init
<1>1. NoRow \in Row /\ Idle \in Run /\ NoOp \in Op
  BY SchedulerAssumption DEF NoRow, Row, Kind, Idle, Run, Stage, NoReport, NoOp, Op, NoTask
<1>2. TypeOK
  <2>1. /\ pending \in [tasks : SUBSET TaskIds, agents : SUBSET Agents]
        /\ spawned \in [Flows -> [Stage -> Nat]]
    BY DEF Nothing
  <2> QED BY <1>1, <2>1, MaxStampAssumption, SchedulerAssumption DEF TypeOK, Stamps, Step
<1>3. ControlInv
  BY DEF ControlInv, RunControl, NoOp, LiveStep, Setup, StageStep, Closing
<1>4. OwnerInv
  BY DEF OwnerInv, Owner, LiveStep, Setup, StageStep, Closing
<1>5. DepsInv
  BY DEF DepsInv
<1>6. StageInv
  BY DEF StageInv, BehindDone, Idle, Closing
<1>7. ClaimInv /\ OneClaimant
  BY DEF ClaimInv, OneClaimant, RunHolds, AfterClaim
<1>8. SessionHasTask
  BY DEF SessionHasTask
<1> QED BY <1>2, <1>3, <1>4, <1>5, <1>6, <1>7, <1>8 DEF Inductive

\* The invariant is inductive: it holds at first and every step keeps it.
THEOREM InductiveInvariant == Spec => []Inductive
<1>1. Inductive /\ [Next]_vars => Inductive'
  BY TypeStep, ControlStep, OwnerStep, DepsStep, StageStepDone, ClaimStep, OneClaimantStep,
     SessionStepHasTask DEF Inductive
<1> QED BY InitInductive, <1>1, PTL DEF Spec

\* Type correctness, for every number of runs and clients.
THEOREM TypeCorrect == Spec => []TypeOK
<1>1. Inductive => TypeOK
  BY DEF Inductive
<1> QED BY <1>1, InductiveInvariant, PTL

\* The debug_assert before the review stage never fires, whatever clients do.
THEOREM ReviewAfterImplement == Spec => []ReviewDepsSatisfied
<1>1. Inductive => ReviewDepsSatisfied
  <2> SUFFICES ASSUME Inductive, NEW f \in Flows, run[f].stage = "review",
                      NEW d \in deps, d[1] = Id(f, "review")
               PROVE  task[d[2]].state = "done"
    BY DEF ReviewDepsSatisfied, DepsSatisfied
  <2>1. d[2] = Id(f, "impl") /\ d[2] \in TaskIds
    BY DEF Inductive, DepsInv, Id, TaskIds, Prefix
  <2>2. State(Id(f, "impl")) = "done"
    BY DEF Inductive, StageInv, BehindDone
  <2> QED BY <2>1, <2>2 DEF State
<1> QED BY <1>1, InductiveInvariant, PTL

\* A report is true, and stays true.
THEOREM TruthfulReport == Spec => []ReportIsTrue
<1>1. Inductive => ReportIsTrue
  <2> SUFFICES ASSUME Inductive, NEW f \in Flows, step[f] = "reported"
               PROVE  /\ run[f].report = <<"done", "done">>
                      /\ \A p \in {"root", "impl", "review"} : State(Id(f, p)) = "done"
    BY DEF ReportIsTrue
  <2>1. run[f].stage = "review" /\ BehindDone(f)
    BY DEF Inductive, ControlInv, RunControl, StageInv
  <2> QED BY <2>1 DEF BehindDone
<1> QED BY <1>1, InductiveInvariant, PTL

\* No task is claimed twice, although listing, assigning and the transition are
\* separate calls.
THEOREM ClaimsExclusive == Spec => []OneClaimant
<1>1. Inductive => OneClaimant
  BY DEF Inductive
<1> QED BY <1>1, InductiveInvariant, PTL

\* Sessions run only for tasks that are being worked on.
THEOREM SessionsHaveTasks == Spec => []SessionHasTask
<1>1. Inductive => SessionHasTask
  BY DEF Inductive
<1> QED BY <1>1, InductiveInvariant, PTL

\* Runs of the same millisecond never share their tasks.
THEOREM RunsSeparate == Spec => []RunsOwnTheirTasks
<1>1. Inductive => RunsOwnTheirTasks
  BY DEF Inductive, OwnerInv, RunsOwnTheirTasks, Owner
<1> QED BY <1>1, InductiveInvariant, PTL

-----------------------------------------------------------------------------
(* Reconciliation, and the sessions of a stage.                            *)

\* While the daemon does not serve, nobody but its start touches the tables.
LEMMA ListStep == TypeOK /\ ControlInv /\ ListInv /\ [Next]_vars => ListInv'
<1> SUFFICES ASSUME TypeOK, ControlInv, ListInv, [Next]_vars PROVE ListInv'
  OBVIOUS
<1> USE DEF TypeOK, ListInv, ActiveTasks, Awake, db
<1>1. CASE Boot \/ Serve \/ ListTasks \/ ListAgents \/ ReconcileDone \/ Crash
  BY <1>1 DEF Boot, Serve, ListTasks, ListAgents, ReconcileDone, Crash, Orphaned
<1>2. CASE ReconcileTask
  <2>1. PICK t \in pending.tasks :
          \/ Move(t, "failed") /\ pending' = [pending EXCEPT !.tasks = @ \ {t}] /\ UNCHANGED daemon
          \/ daemon' = "down"
    BY <1>2 DEF ReconcileTask
  <2>2. CASE Move(t, "failed") /\ pending' = [pending EXCEPT !.tasks = @ \ {t}] /\ UNCHANGED daemon
    <3>1. \A u \in TaskIds : task'[u].state = IF u = t THEN "failed" ELSE task[u].state
      BY <2>2, MoveStates
    <3>2. daemon = "reconciling" /\ daemon' = "reconciling" /\ pending'.tasks = pending.tasks \ {t}
      BY <1>2, <2>2 DEF ReconcileTask
    <3> QED BY <3>1, <3>2 DEF Active
  <2> QED BY <2>1, <2>2
<1>3. ASSUME NEW a \in Agents, ReconcileAgent(a) PROVE ListInv'
  <2>1. daemon = "signing_off" /\ daemon' = "signing_off" /\ task' = task
    BY <1>3 DEF ReconcileAgent
  <2>2. pending'.agents = pending.agents \ {a}
    BY <1>3 DEF ReconcileAgent
  <2>3. agent' = [agent EXCEPT ![a] = "offline"]
    BY <1>3 DEF ReconcileAgent
  <2> QED BY <2>1, <2>2, <2>3
<1>4. ASSUME NEW a \in Adapters, RegisterAdapter(a) PROVE ListInv'
  BY <1>4 DEF RegisterAdapter
<1>5. ASSUME NEW f \in Flows, FlowNext(f) PROVE ListInv'
  <2>1. daemon' = "up"
    BY <1>5, FlowRunStep DEF RunStep
  <2> QED BY <2>1
<1>6. ASSUME NEW c \in Clients, ClientNext(c) PROVE ListInv'
  <2>1. daemon' = "up"
    BY <1>6 DEF ClientNext, ClaimList, ClaimAssign, ClaimTransition, CompleteRead, CompleteStep
  <2> QED BY <2>1
<1>7. CASE \/ \E f \in Flows, r \in Requests : Start(f, r[1], r[2])
           \/ \E kind \in Delegated : DelegateTask(kind)
           \/ \E a \in Reporters : HookActivity(a)
  <2>1. daemon' = "up"
    BY <1>7 DEF Start, At, DelegateTask, HookActivity
  <2> QED BY <2>1
<1>8. CASE Tick \/ UNCHANGED vars
  BY <1>8 DEF Tick, vars
<1> QED BY <1>1, <1>2, <1>3, <1>4, <1>5, <1>6, <1>7, <1>8 DEF Next, DaemonNext

\* Whatever the crashes, and although a start goes through lists it took once, a
\* daemon that is past reconciliation and does not serve yet has no started task
\* left, and no agent that looks busy.
THEOREM NoOrphans == Spec => []OrphansFailed
<1>1. Init => ListInv
  BY DEF Init, ListInv
<1>2. Inductive /\ ListInv /\ [Next]_vars => ListInv'
  BY ListStep DEF Inductive
<1>3. ListInv => OrphansFailed
  BY DEF ListInv, OrphansFailed
<1> QED BY <1>1, <1>2, <1>3, InductiveInvariant, PTL DEF Spec

\* A call that spawns nothing and stays in its stage.
LEMMA SpawnedStays ==
  ASSUME TypeOK, NEW f \in Flows, Spawned(f), spawned'[f] = spawned[f],
         run'[f].stage = run[f].stage, run'[f].attempt = run[f].attempt,
         step'[f] \in {"idle"} \cup Setup \cup {"busy", "assign", "claim", "work"} =>
           step[f] \in {"idle"} \cup Setup \cup {"busy", "assign", "claim", "work"},
         step'[f] = "spawn" =>
           step[f] \in {"spawn", "busy", "assign", "claim", "work"},
         step'[f] = "observe" => step[f] = "observe"
  PROVE  Spawned(f)'
<1>1. step[f] \in {"busy", "assign", "claim", "work"} => spawned[f][run[f].stage] = run[f].attempt
  BY DEF Spawned
<1> QED BY <1>1 DEF Spawned

\* The calls of the run itself.
LEMMA SpawnedByItself ==
  ASSUME TypeOK, ControlInv, NEW f \in Flows, Spawned(f), FlowNext(f)
  PROVE  Spawned(f)'
<1>0. /\ run[f].stage \in Stage /\ run[f].attempt \in 0 .. MaxRetries
      /\ spawned \in [Flows -> [Stage -> Nat]] /\ MaxRetries \in Nat
  BY SchedulerAssumption DEF TypeOK, Run
<1>1. CASE Spawn(f)
  <2>1. /\ step[f] = "spawn" /\ step'[f] \in {"observe", "fail_task"} /\ run' = run
        /\ spawned' = [spawned EXCEPT ![f][run[f].stage] = @ + 1]
    BY <1>1 DEF Spawn, At, Goto, TypeOK
  <2>2. /\ spawned'[f][run[f].stage] = run[f].attempt + 1
        /\ \A s \in Stage : s # run[f].stage => spawned'[f][s] = spawned[f][s]
    BY <1>0, <2>1 DEF Spawned
  <2>3. \A s \in Stage : spawned'[f][s] <= MaxRetries + 1
    BY <1>0, <2>2 DEF Spawned
  <2>4. run'[f].stage = "impl" => spawned'[f]["review"] = 0
    BY <2>1, <2>2 DEF Spawned, Stage
  <2> QED BY <2>1, <2>2, <2>3, <2>4 DEF Spawned, Setup
<1>2. CASE SessionRetries(f)
  <2>1. step[f] = "observe" /\ spawned' = spawned
    BY <1>2 DEF SessionRetries, At
  <2>2. CASE RetriesLeft(f)
    <3>1. /\ step'[f] = "spawn" /\ run'[f].stage = run[f].stage
          /\ run'[f].attempt = run[f].attempt + 1
      BY <1>2, <2>2 DEF SessionRetries, Goto, TypeOK, Run
    <3> QED BY <2>1, <3>1 DEF Spawned, Setup
  <2>3. CASE ~ RetriesLeft(f)
    <3>1. step'[f] = "fail_task" /\ run' = run
      BY <1>2, <2>3 DEF SessionRetries, Goto, TypeOK
    <3> QED BY <2>1, <3>1, SpawnedStays DEF Setup
  <2> QED BY <2>2, <2>3
<1>3. CASE Snapshot(f)
  <2>1. step[f] = "snapshot" /\ spawned' = spawned
    BY <1>3 DEF Snapshot, At
  <2>2. CASE step'[f] = "busy"
    <3>1. /\ run[f].stage = "impl" /\ run'[f].stage = "review" /\ run'[f].attempt = 0
      BY <1>3, <2>2 DEF Snapshot, Goto, TypeOK, Run
    <3> QED BY <2>1, <2>2, <3>1 DEF Spawned, Stage
  <2>3. CASE step'[f] \in {"errored", "root_claim"} /\ run' = run
    BY <2>1, <2>3, SpawnedStays DEF Setup
  <2> QED BY <1>3, <2>2, <2>3 DEF Snapshot, Goto, TypeOK
<1>4. CASE WriteReport(f)
  <2>1. run'[f].stage = run[f].stage /\ run'[f].attempt = run[f].attempt
    BY <1>4 DEF WriteReport, TypeOK, Run
  <2>2. step'[f] \in {"root_done", "errored"} /\ spawned' = spawned
    BY <1>4 DEF WriteReport, Goto, TypeOK
  <2> QED BY <2>1, <2>2, SpawnedStays DEF Setup
<1>5. CASE CreateTasks(f) \/ AddDep(f) \/ CreateWorktree(f) \/ SetBusy(f) \/ AssignTask(f)
  <2>1. /\ step[f] \in Setup \cup {"busy", "assign"} /\ run' = run /\ spawned' = spawned
        /\ step'[f] \in Setup \cup {"busy", "assign", "claim", "errored"}
    BY <1>5 DEF CreateTasks, CreateTask, AddDep, CreateWorktree, SetBusy, AssignTask, At, Goto, TypeOK,
         Setup
  <2> QED BY <2>1, SpawnedStays DEF Setup
<1>6. CASE ClaimStage(f) \/ StartWork(f)
  <2>1. /\ step[f] \in {"claim", "work"} /\ run' = run /\ spawned' = spawned
        /\ step'[f] \in {"work", "spawn", "errored"}
    BY <1>6 DEF ClaimStage, StartWork, MoveOrErr, At, Goto, TypeOK
  <2> QED BY <2>1, SpawnedStays DEF Setup
<1>7. CASE SessionSucceeds(f) \/ SessionFails(f) \/ WatchdogKills(f) \/ FailTask(f) \/ FailRoot(f)
             \/ FailIdle(f) \/ CompleteStage(f) \/ Release(f) \/ ClaimRoot(f) \/ WorkRoot(f)
             \/ CompleteRoot(f)
  <2>1. /\ run' = run /\ spawned' = spawned
        /\ step'[f] \in {"done", "fail_task", "fail_root", "fail_idle", "implement_failed",
                         "review_failed", "release", "snapshot", "root_work", "report", "reported",
                         "errored"}
    BY <1>7 DEF SessionSucceeds, SessionFails, WatchdogKills, FailTask, FailRoot, FailIdle,
         CompleteStage, Release, ClaimRoot, WorkRoot, CompleteRoot, MoveOrErr, MoveOrSkip, Goto, TypeOK
  <2> QED BY <2>1, SpawnedStays DEF Setup
<1> QED BY <1>1, <1>2, <1>3, <1>4, <1>5, <1>6, <1>7 DEF FlowNext, SessionNext

\* Only the call that spawns changes what was spawned, and for its own run.
LEMMA SpawnedOfOthers ==
  ASSUME TypeOK, ControlInv, [Next]_vars, NEW f \in Flows, ~ FlowNext(f)
  PROVE  spawned'[f] = spawned[f]
<1>1. ASSUME NEW g \in Flows, FlowNext(g) PROVE spawned'[f] = spawned[f]
  <2>1. CASE Spawn(g)
    <3>1. f # g
      BY <1>1
    <3> QED BY <2>1, <3>1 DEF Spawn, TypeOK
  <2>2. CASE ~ Spawn(g)
    BY <1>1, <2>2 DEF FlowNext, SessionNext, CreateTasks, CreateTask, AddDep, CreateWorktree, SetBusy,
         AssignTask, ClaimStage, StartWork, SessionSucceeds, SessionFails, SessionRetries, WatchdogKills,
         FailTask, FailRoot, FailIdle, CompleteStage, Release, Snapshot, ClaimRoot, WorkRoot,
         WriteReport, CompleteRoot, MoveOrErr, MoveOrSkip
  <2> QED BY <2>1, <2>2
<1> QED BY <1>1 DEF Next, DaemonNext, Tick, Start, ClientNext, ClaimList, ClaimAssign, ClaimTransition,
        CompleteRead, CompleteStep, DelegateTask, HookActivity, Boot, ListTasks, ReconcileTask,
        ListAgents, ReconcileDone, Serve, Crash, ReconcileAgent, RegisterAdapter, vars

\* Another actor's step leaves a run where it is, or loses it; only Start begins one.
LEMMA RunStays ==
  ASSUME TypeOK, ControlInv, [Next]_vars, NEW f \in Flows, ~ FlowNext(f),
         ~ \E r \in Requests : Start(f, r[1], r[2])
  PROVE  run'[f] = run[f] /\ step'[f] \in {step[f], "lost"}
<1>1. ASSUME NEW g \in Flows, FlowNext(g), RunStep(g) PROVE run'[f] = run[f] /\ step'[f] = step[f]
  BY <1>1 DEF RunStep
<1>2. ASSUME NEW g \in Flows, NEW r \in Requests, Start(g, r[1], r[2])
      PROVE  run'[f] = run[f] /\ step'[f] = step[f]
  BY <1>2, StartRun
<1>3. CASE Quiet
  BY <1>3 DEF Quiet, Crash
<1> QED BY <1>1, <1>2, <1>3, StepKinds

LEMMA SpawnStep == TypeOK /\ ControlInv /\ SpawnInv /\ [Next]_vars => SpawnInv'
<1> SUFFICES ASSUME TypeOK, ControlInv, SpawnInv, [Next]_vars, NEW f \in Flows PROVE Spawned(f)'
  BY DEF SpawnInv
<1>0. Spawned(f)
  BY DEF SpawnInv
<1>1. CASE FlowNext(f)
  BY <1>0, <1>1, SpawnedByItself
<1>2. ASSUME NEW r \in Requests, Start(f, r[1], r[2]) PROVE Spawned(f)'
  <2>1. /\ step[f] = "idle" /\ step'[f] \in {"create_root", "errored"} /\ spawned' = spawned
        /\ run'[f].stage = run[f].stage
    BY <1>2, StartRun DEF Start
  <2>2. run'[f].attempt = run[f].attempt
    BY <1>2 DEF Start, TypeOK, Run
  <2> QED BY <1>0, <2>1, <2>2, SpawnedStays DEF Setup
<1>3. CASE ~ FlowNext(f) /\ ~ \E r \in Requests : Start(f, r[1], r[2])
  <2>1. run'[f] = run[f] /\ step'[f] \in {step[f], "lost"} /\ spawned'[f] = spawned[f]
    BY <1>3, RunStays, SpawnedOfOthers
  <2> QED BY <1>0, <2>1, SpawnedStays DEF Setup
<1> QED BY <1>1, <1>2, <1>3

\* Whatever the retries of the stages before, a stage has MaxRetries + 1 sessions
\* and never one more, and a retryable end is final only after that many.
THEOREM RetriesBounded == Spec => []RetryBudget
<1>1. Init => SpawnInv
  BY SchedulerAssumption DEF Init, SpawnInv, Spawned, Idle, Stage, Setup
<1>2. Inductive /\ SpawnInv /\ [Next]_vars => SpawnInv'
  BY SpawnStep DEF Inductive
<1>3. Inductive /\ SpawnInv => RetryBudget
  <2> SUFFICES ASSUME TypeOK, SpawnInv, NEW f \in Flows, step[f] = "observe"
               PROVE  RetriesLeft(f) <=> spawned[f][run[f].stage] <= MaxRetries
    BY DEF RetryBudget, SpawnInv, Spawned, Inductive
  <2>1. spawned[f][run[f].stage] = run[f].attempt + 1
    BY DEF SpawnInv, Spawned
  <2>2. run[f].attempt \in 0 .. MaxRetries /\ MaxRetries \in Nat
    BY SchedulerAssumption DEF TypeOK, Run
  <2> QED BY <2>1, <2>2 DEF RetriesLeft
<1> QED BY <1>1, <1>2, <1>3, InductiveInvariant, PTL DEF Spec

-----------------------------------------------------------------------------
(* The detailed run implements the contract.                               *)

\* What is done of a run stays done.
LEMMA DoneGrows ==
  ASSUME Inductive, [Next]_vars, NEW f \in Flows
  PROVE  DoneParts(f) \subseteq DoneParts(f)'
<1>1. CASE step[f] = "idle"
  <2>1. \A p : Id(f, p) \notin TaskIds
    BY <1>1, MaxStampAssumption DEF Inductive, ControlInv, RunControl, Idle, Id, TaskIds, Stamps
  <2> QED BY <2>1 DEF DoneParts, State
<1>2. CASE step[f] # "idle"
  <2>1. run'[f].stamp = run[f].stamp
    <3>1. ASSUME NEW g \in Flows, NEW r \in Requests, Start(g, r[1], r[2])
          PROVE  run'[f].stamp = run[f].stamp
      BY <1>2, <3>1, StartRun DEF Inductive
    <3>2. ASSUME NEW g \in Flows, RunStep(g) PROVE run'[f].stamp = run[f].stamp
      BY <3>2 DEF RunStep
    <3>3. CASE Quiet
      BY <3>3 DEF Quiet
    <3> QED BY <3>1, <3>2, <3>3, StepKinds DEF Inductive
  <2>2. \A p : Id(f, p)' = Id(f, p)
    BY <2>1 DEF Id
  <2>3. \A p : State(Id(f, p)) = "done" => State(Id(f, p))' = "done"
    BY <2>2, StatePersists DEF State, Inductive
  <2> QED BY <2>3 DEF DoneParts
<1> QED BY <1>1, <1>2

\* The phase of a run, without the case distinction.
LEMMA PhaseCases ==
  ASSUME NEW f \in Flows
  PROVE  /\ step[f] = "reported" => PhaseOf(f) = "reported"
         /\ step[f] \in Stopped => PhaseOf(f) = "stopped"
         /\ step[f] \in Closing => PhaseOf(f) = "reporting"
         /\ step[f] \notin {"reported"} \cup Stopped \cup Closing =>
              PhaseOf(f) = IF run[f].stage = "review" THEN "reviewing" ELSE "implementing"
BY DEF PhaseOf, Stopped, Closing

\* The phase a caller sees after a step, by the run's next call (PhaseOf, primed).
LEMMA PhaseCasesNext ==
  ASSUME NEW f \in Flows
  PROVE  /\ step'[f] = "reported" => PhaseOf(f)' = "reported"
         /\ step'[f] \in Stopped => PhaseOf(f)' = "stopped"
         /\ step'[f] \in Closing => PhaseOf(f)' = "reporting"
         /\ step'[f] \notin {"reported"} \cup Stopped \cup Closing =>
              PhaseOf(f)' = IF run'[f].stage = "review" THEN "reviewing" ELSE "implementing"
BY DEF PhaseOf, Stopped, Closing

\* A run goes from phase to phase in the order of the contract.
NextPhase(p, q) ==
  \/ q = p
  \/ q = "stopped" /\ p # "reported"
  \/ <<p, q>> \in { <<"implementing", "reviewing">>, <<"reviewing", "reporting">>,
                    <<"reporting", "reported">> }

\* Every call of run_write_review moves the phase its caller sees along the
\* contract's order: implement, review, report, or to a stop.
LEMMA PhaseStep ==
  ASSUME TypeOK, ControlInv, NEW f \in Flows, FlowNext(f)
  PROVE  NextPhase(PhaseOf(f), PhaseOf(f)')
<1> DEFINE Early == Setup \cup StageStep
<1>0. run \in [Flows -> Run] /\ step \in [Flows -> Step]
  BY DEF TypeOK
<1>1. ASSUME step[f] \in Early, step'[f] \in Early \cup Stopped, run'[f].stage = run[f].stage
      PROVE  NextPhase(PhaseOf(f), PhaseOf(f)')
  <2>1. step[f] \notin {"reported"} \cup Stopped \cup Closing
    BY <1>1 DEF Setup, StageStep, Stopped, Closing
  <2>2. step'[f] \notin {"reported"} \cup Closing
    BY <1>1 DEF Setup, StageStep, Stopped, Closing
  <2>3. PhaseOf(f) = IF run[f].stage = "review" THEN "reviewing" ELSE "implementing"
    BY <2>1, PhaseCases
  <2>4. CASE step'[f] \in Stopped
    BY <2>3, <2>4, PhaseCasesNext DEF NextPhase
  <2>5. CASE step'[f] \notin Stopped
    BY <1>1, <2>2, <2>3, <2>5, PhaseCasesNext DEF NextPhase
  <2> QED BY <2>4, <2>5
<1>2. ASSUME step[f] \in Closing, step'[f] \in Closing \cup Stopped \cup {"reported"}
      PROVE  NextPhase(PhaseOf(f), PhaseOf(f)')
  BY <1>2, PhaseCases, PhaseCasesNext DEF NextPhase
<1> USE DEF Setup, StageStep, Stopped, Closing
<1>3. CASE Snapshot(f)
  <2>1. CASE step'[f] = "errored"
    <3>1. run' = run /\ step[f] = "snapshot"
      BY <1>0, <1>3, <2>1 DEF Snapshot, Goto, At
    <3> QED BY <1>1, <2>1, <3>1
  <2>2. CASE step'[f] = "busy"
    <3>1. run[f].stage = "impl" /\ run'[f].stage = "review" /\ step[f] = "snapshot"
      BY <1>0, <1>3, <2>2 DEF Snapshot, Goto, At, Run
    <3>2. PhaseOf(f) = "implementing" /\ PhaseOf(f)' = "reviewing"
      BY <2>2, <3>1, PhaseCases, PhaseCasesNext
    <3> QED BY <3>2 DEF NextPhase
  <2>3. CASE step'[f] = "root_claim"
    <3>1. run[f].stage = "review" /\ step[f] = "snapshot"
      BY <1>0, <1>3, <2>3 DEF Snapshot, Goto, At
    <3>2. PhaseOf(f) = "reviewing" /\ PhaseOf(f)' = "reporting"
      BY <2>3, <3>1, PhaseCases, PhaseCasesNext
    <3> QED BY <3>2 DEF NextPhase
  <2> QED BY <1>0, <1>3, <2>1, <2>2, <2>3 DEF Snapshot, Goto
<1>4. CASE ClaimRoot(f) \/ WorkRoot(f) \/ WriteReport(f) \/ CompleteRoot(f)
  BY <1>0, <1>2, <1>4 DEF ClaimRoot, WorkRoot, WriteReport, CompleteRoot, MoveOrErr, MoveOrSkip, At, Goto
<1>5. CASE SessionRetries(f)
  <2>1. run'[f].stage = run[f].stage
    BY <1>0, <1>5 DEF SessionRetries, Run
  <2> QED BY <1>0, <1>1, <1>5, <2>1 DEF SessionRetries, At, Goto
<1>6. CASE CreateTasks(f) \/ AddDep(f) \/ CreateWorktree(f) \/ SetBusy(f) \/ AssignTask(f)
  BY <1>0, <1>1, <1>6 DEF CreateTasks, CreateTask, AddDep, CreateWorktree, SetBusy, AssignTask, At, Goto
<1>7. CASE ClaimStage(f) \/ StartWork(f) \/ FailTask(f) \/ FailRoot(f) \/ CompleteStage(f)
  BY <1>0, <1>1, <1>7 DEF ClaimStage, StartWork, FailTask, FailRoot, CompleteStage, MoveOrErr, MoveOrSkip,
       At, Goto
<1>8. CASE Spawn(f) \/ SessionSucceeds(f) \/ SessionFails(f) \/ WatchdogKills(f) \/ FailIdle(f)
             \/ Release(f)
  BY <1>0, <1>1, <1>8 DEF Spawn, SessionSucceeds, SessionFails, WatchdogKills, FailIdle, Release, At, Goto
<1> QED BY <1>3, <1>4, <1>5, <1>6, <1>7, <1>8 DEF FlowNext, SessionNext

\* Tasks settle as the contract allows.
LEMMA SettleStep == Inductive /\ [Next]_vars => Promise!Settle
<1> SUFFICES ASSUME Inductive, [Next]_vars PROVE Promise!Settle
  OBVIOUS
<1>1. \A f \in Flows : DoneParts(f)' \in SUBSET {"impl", "review", "root"}
  BY DEF DoneParts
<1> QED BY <1>1, DoneGrows DEF Promise!Settle, Promise!Parts

\* A phase is entered only over the tasks the contract asks for.
LEMMA PhaseNeeds ==
  ASSUME Inductive, NEW f \in Flows
  PROVE  /\ PhaseOf(f) = "reviewing" => {"impl"} \subseteq DoneParts(f)
         /\ PhaseOf(f) = "reporting" => {"impl", "review"} \subseteq DoneParts(f)
         /\ PhaseOf(f) = "reported" => {"impl", "review", "root"} \subseteq DoneParts(f)
<1>1. BehindDone(f) /\ RunControl(f)
  BY DEF Inductive, StageInv, ControlInv
<1>2. PhaseOf(f) = "reviewing" => run[f].stage = "review"
  BY PhaseCases
<1>3. PhaseOf(f) = "reporting" => step[f] \in Closing
  BY PhaseCases
<1>4. PhaseOf(f) = "reported" => step[f] = "reported"
  BY PhaseCases
<1> QED BY <1>1, <1>2, <1>3, <1>4 DEF BehindDone, RunControl, DoneParts

\* Whatever phase a run reaches, the tasks the contract asks for are done then:
\* the invariant in the step's second state.
LEMMA PhaseNeedsNext ==
  ASSUME Inductive', NEW f \in Flows
  PROVE  /\ PhaseOf(f)' = "reviewing" => {"impl"} \subseteq DoneParts(f)'
         /\ PhaseOf(f)' = "reporting" => {"impl", "review"} \subseteq DoneParts(f)'
         /\ PhaseOf(f)' = "reported" => {"impl", "review", "root"} \subseteq DoneParts(f)'
<1>1. BehindDone(f)' /\ RunControl(f)'
  BY DEF Inductive, StageInv, ControlInv
<1>2. PhaseOf(f)' = "reviewing" => run'[f].stage = "review"
  BY PhaseCasesNext
<1>3. PhaseOf(f)' = "reporting" => step'[f] \in Closing
  BY PhaseCasesNext
<1>4. PhaseOf(f)' = "reported" => step'[f] = "reported"
  BY PhaseCasesNext
<1> QED BY <1>1, <1>2, <1>3, <1>4 DEF BehindDone, RunControl, DoneParts

\* One run takes a contract step while the others stay where they are.
LEMMA PhaseMove ==
  ASSUME Inductive, Inductive', [Next]_vars, NEW f \in Flows,
         NextPhase(PhaseOf(f), PhaseOf(f)'),
         \A g \in Flows \ {f} : PhaseOf(g)' = PhaseOf(g)
  PROVE  Promise!Next
<1> DEFINE ph == [g \in Flows |-> PhaseOf(g)]
           dn == [g \in Flows |-> DoneParts(g)]
<1>0. /\ ph[f] = PhaseOf(f) /\ dn'[f] = DoneParts(f)'
      /\ ph' = [ph EXCEPT ![f] = PhaseOf(f)']
  OBVIOUS
<1>1. CASE PhaseOf(f)' = PhaseOf(f)
  <2>1. UNCHANGED ph
    BY <1>1
  <2> QED BY <2>1, SettleStep DEF Promise!Next
<1>2. CASE PhaseOf(f)' = "stopped" /\ PhaseOf(f) # "reported"
  <2>1. ph' = [g \in Flows |-> IF g \in {f} THEN "stopped" ELSE ph[g]]
    BY <1>2
  <2>2. Promise!Stop({f})
    BY <1>0, <1>2, <2>1 DEF Promise!Stop
  <2> QED BY <2>2, SettleStep DEF Promise!Next
<1>3. CASE PhaseOf(f) = "implementing" /\ PhaseOf(f)' = "reviewing"
  <2>1. Promise!StartReview(f)
    BY <1>0, <1>3, PhaseNeedsNext DEF Promise!StartReview, Promise!MoveTo
  <2> QED BY <2>1, SettleStep DEF Promise!Next
<1>4. CASE PhaseOf(f) = "reviewing" /\ PhaseOf(f)' = "reporting"
  <2>1. Promise!StartReport(f)
    BY <1>0, <1>4, PhaseNeedsNext DEF Promise!StartReport, Promise!MoveTo
  <2> QED BY <2>1, SettleStep DEF Promise!Next
<1>5. CASE PhaseOf(f) = "reporting" /\ PhaseOf(f)' = "reported"
  <2>1. Promise!Report(f)
    BY <1>0, <1>5, PhaseNeedsNext DEF Promise!Report, Promise!MoveTo, Promise!Parts
  <2> QED BY <2>1, SettleStep DEF Promise!Next
<1> QED BY <1>1, <1>2, <1>3, <1>4, <1>5 DEF NextPhase

\* A crash stops all the runs in progress at once.
LEMMA CrashMove ==
  ASSUME Inductive, [Next]_vars, Crash
  PROVE  Promise!Next
<1> DEFINE S == {f \in Flows : step[f] \in LiveStep}
           ph == [f \in Flows |-> PhaseOf(f)]
<1>1. \A f \in S : PhaseOf(f) # "reported"
  BY PhaseCases DEF LiveStep, Setup, StageStep, Closing
<1>2. \A f \in S : PhaseOf(f)' = "stopped"
  BY PhaseCasesNext DEF Crash, Stopped
<1>3. \A f \in Flows \ S : step'[f] = step[f] /\ run'[f] = run[f]
  BY DEF Crash
<1>4. \A f \in Flows \ S : PhaseOf(f)' = PhaseOf(f)
  BY <1>3 DEF PhaseOf
<1>5. ph' = [f \in Flows |-> IF f \in S THEN "stopped" ELSE ph[f]]
  BY <1>2, <1>4
<1>6. Promise!Stop(S)
  BY <1>1, <1>5 DEF Promise!Stop
<1> QED BY <1>6, SettleStep DEF Promise!Next

\* Every step of the daemon, of its clients and of its agents is one the contract
\* allows, or none at all.
LEMMA ContractStep == Inductive /\ Inductive' /\ [Next]_vars => [Promise!Next]_(Promise!vars)
<1> SUFFICES ASSUME Inductive, Inductive', [Next]_vars PROVE Promise!Next
  OBVIOUS
<1>1. ASSUME NEW f \in Flows, NEW r \in Requests, Start(f, r[1], r[2]) PROVE Promise!Next
  <2>1. \A g \in Flows \ {f} : PhaseOf(g)' = PhaseOf(g)
    BY <1>1, StartRun DEF Inductive, PhaseOf
  <2>2. /\ step[f] = "idle" /\ run[f].stage = "impl" /\ run'[f].stage = "impl"
        /\ step'[f] \in {"create_root", "errored"}
    BY <1>1, StartRun DEF Inductive, ControlInv, RunControl, Idle
  <2>3. PhaseOf(f) = "implementing" /\ PhaseOf(f)' \in {"implementing", "stopped"}
    BY <2>2, PhaseCases, PhaseCasesNext DEF Stopped, Closing
  <2> QED BY <2>1, <2>3, PhaseMove DEF NextPhase
<1>2. ASSUME NEW f \in Flows, FlowNext(f), RunStep(f) PROVE Promise!Next
  <2>1. \A g \in Flows \ {f} : PhaseOf(g)' = PhaseOf(g)
    BY <1>2 DEF RunStep, PhaseOf
  <2> QED BY <1>2, <2>1, PhaseStep, PhaseMove DEF Inductive
<1>3. CASE Quiet
  <2>1. CASE Crash
    BY <2>1, CrashMove
  <2>2. CASE UNCHANGED step
    <3>1. \A f \in Flows : PhaseOf(f)' = PhaseOf(f)
      BY <1>3, <2>2 DEF Quiet, PhaseOf
    <3> QED BY <3>1, SettleStep DEF Promise!Next
  <2> QED BY <1>3, <2>1, <2>2 DEF Quiet
<1> QED BY <1>1, <1>2, <1>3, StepKinds DEF Inductive

\* The detailed run, with interference, retries and crashes, implements what its
\* callers are promised.
THEOREM ImplementsContract == Spec => Contract
<1>1. Init => Promise!Init
  <2> SUFFICES ASSUME Init PROVE Promise!Init
    OBVIOUS
  <2>1. \A f \in Flows : PhaseOf(f) = "implementing"
    BY PhaseCases DEF Init, Idle, Stopped, Closing
  <2>2. \A f \in Flows : DoneParts(f) = {}
    BY DEF Init, DoneParts, State, NoRow
  <2> QED BY <2>1, <2>2 DEF Promise!Init
<1> QED BY <1>1, ContractStep, InductiveInvariant, PTL DEF Spec, Contract, Promise!Spec

-----------------------------------------------------------------------------
(* What a failed run leaves behind.                                        *)

\* Whoever is not a run changes rows that exist only as reconciliation does, or as a
\* client that is on record for it.
LEMMA NobodyElse ==
  ASSUME TypeOK, ControlInv, ListInv, [Next]_vars, ~ \E f \in Flows : FlowNext(f), NEW u \in TaskIds
  PROVE  \/ task'[u].state = task[u].state
         \/ task[u].state = "absent"
         \/ daemon # "up" /\ task[u].state \in Active
         \/ u \in moved'
<1> USE DEF TypeOK
<1>1. CASE ReconcileTask
  <2>1. PICK t \in pending.tasks : Move(t, "failed") \/ UNCHANGED task
    BY <1>1 DEF ReconcileTask
  <2>2. daemon = "reconciling" /\ task[t].state \in Active
    BY <1>1 DEF ReconcileTask, ListInv, ActiveTasks
  <2>3. Move(t, "failed") => task'[u].state = IF u = t THEN "failed" ELSE task[u].state
    BY MoveStates
  <2> QED BY <2>1, <2>2, <2>3
<1>2. ASSUME NEW kind \in Delegated, DelegateTask(kind)
      PROVE  task'[u].state = task[u].state \/ task[u].state = "absent"
  BY <1>2, CreateStates DEF DelegateTask, CanCreate
<1>3. ASSUME NEW c \in Clients, ClientNext(c) PROVE task'[u].state = task[u].state \/ u \in moved'
  <2>1. CASE ClaimTransition(c)
    BY <2>1, MoveStates DEF ClaimTransition
  <2>2. CASE CompleteStep(c)
    BY <2>2, MoveStates DEF CompleteStep
  <2>3. CASE ClaimAssign(c)
    BY <2>3, AssignStates DEF ClaimAssign
  <2> QED BY <1>3, <2>1, <2>2, <2>3 DEF ClientNext, ClaimList, CompleteRead, db
<1>4. CASE UNCHANGED task
  BY <1>4
<1> QED BY <1>1, <1>2, <1>3, <1>4 DEF Next, DaemonNext, Tick, Start, HookActivity, Boot,
        ListTasks, ListAgents, ReconcileDone, Serve, Crash, ReconcileAgent, RegisterAdapter, vars, db

\* What clients moved stays on record.
LEMMA MovedGrows ==
  ASSUME TypeOK, ControlInv, [Next]_vars
  PROVE  moved \subseteq moved'
<1>1. ASSUME NEW f \in Flows, FlowNext(f) PROVE UNCHANGED moved
  BY <1>1 DEF FlowNext, SessionNext, CreateTasks, CreateTask, AddDep, CreateWorktree, SetBusy,
       AssignTask, ClaimStage, StartWork, Spawn, SessionSucceeds, SessionFails, SessionRetries,
       WatchdogKills, FailTask, FailRoot, FailIdle, CompleteStage, Release, Snapshot, ClaimRoot, WorkRoot,
       WriteReport, CompleteRoot, MoveOrErr, MoveOrSkip
<1> QED BY <1>1 DEF Next, DaemonNext, Tick, Start, ClientNext, ClaimList, ClaimAssign, ClaimTransition,
        CompleteRead, CompleteStep, DelegateTask, HookActivity, Boot, ListTasks, ReconcileTask,
        ListAgents, ReconcileDone, Serve, Crash, ReconcileAgent, RegisterAdapter, vars

\* The tasks of a run that owns them stay as they are while somebody else takes a
\* step, but for those a client moves.
LEMMA OwnTasksStay ==
  ASSUME TypeOK, ControlInv, OwnerInv, ListInv, [Next]_vars, NEW f \in Flows, ~ FlowNext(f),
         Owner(f), NEW p \in {"root", "impl", "review"}, State(Id(f, p)) # "absent",
         daemon = "up" \/ State(Id(f, p)) \notin Active, run'[f].stamp = run[f].stamp
  PROVE  State(Id(f, p))' = State(Id(f, p)) \/ Id(f, p) \in moved'
<1>1. Id(f, p) \in TaskIds /\ Id(f, p)' = Id(f, p) /\ Id(f, p)[2] = run[f].stamp
  BY DEF State, Id
<1>2. State(Id(f, p)) = task[Id(f, p)].state /\ State(Id(f, p))' = task'[Id(f, p)].state
  BY <1>1 DEF State
<1>3. CASE \E g \in Flows : FlowNext(g)
  <2>1. PICK g \in Flows : FlowNext(g)
    BY <1>3
  <2>2. ~ (Owner(g) /\ Id(f, p)[2] = run[g].stamp)
    BY <1>1, <2>1 DEF OwnerInv
  <2> QED BY <1>1, <1>2, <2>1, <2>2, FlowTouches
<1>4. CASE ~ \E g \in Flows : FlowNext(g)
  BY <1>1, <1>2, <1>4, NobodyElse
<1> QED BY <1>3, <1>4

\* So a task that is in a state the run left it in, or was moved by a client, is so after
\* somebody else's step.
LEMMA UnlessStays ==
  ASSUME TypeOK, ControlInv, OwnerInv, ListInv, [Next]_vars, NEW f \in Flows, ~ FlowNext(f),
         Owner(f), NEW p \in {"root", "impl", "review"}, NEW s \in {"open", "failed"},
         Unless(f, p, s), run'[f].stamp = run[f].stamp
  PROVE  Unless(f, p, s)'
<1>1. Id(f, p)' = Id(f, p)
  BY DEF Id
<1>2. CASE Id(f, p) \in moved
  BY <1>1, <1>2, MovedGrows DEF Unless
<1>3. CASE State(Id(f, p)) = s
  <2>1. State(Id(f, p)) # "absent" /\ State(Id(f, p)) \notin Active
    BY <1>3 DEF Active
  <2> QED BY <1>1, <1>3, <2>1, OwnTasksStay DEF Unless
<1> QED BY <1>2, <1>3 DEF Unless

\* The task of a session is working while somebody else takes a step, or was completed.
LEMMA CurrentStays ==
  ASSUME TypeOK, ControlInv, OwnerInv, ListInv, [Next]_vars, NEW f \in Flows, ~ FlowNext(f),
         Owner(f), NEW s \in {"working", "failed"}, CurrentIs(f, s), s = "working" => daemon = "up",
         run'[f].stamp = run[f].stamp, run'[f].stage = run[f].stage
  PROVE  CurrentIs(f, s)'
<1>1. Current(f)' = Current(f) /\ run[f].stage \in {"impl", "review"}
  BY DEF Current, Id, TypeOK, Run, Stage
<1>2. CASE State(Current(f)) = "done" /\ Current(f) \in moved
  <2>1. State(Current(f))' = "done"
    BY <1>1, <1>2, StatePersists DEF State
  <2> QED BY <1>1, <1>2, <2>1, MovedGrows DEF CurrentIs
<1>3. CASE State(Current(f)) = s
  <2>1. Current(f) \in TaskIds /\ task[Current(f)].state = s
    BY <1>3 DEF State
  <2>2. State(Current(f))' = task'[Current(f)].state
    BY <1>1, <2>1 DEF State
  <2>3. State(Current(f))' = s \/ Current(f) \in moved'
    BY <1>1, <1>3, OwnTasksStay DEF Current, Active
  <2>4. CASE State(Current(f))' = s
    BY <2>4 DEF CurrentIs
  <2>5. CASE State(Current(f))' # s /\ s = "failed"
    <3>1. Lawful(Current(f))
      BY <2>1, TableLawful
    <3>2. task'[Current(f)].state = "failed"
      BY <2>1, <2>5, <3>1 DEF Lawful, CanTransition, Forward, Active
    <3> QED BY <2>2, <2>5, <3>2
  <2>6. CASE State(Current(f))' # s /\ s = "working"
    <3>1. Current(f)' \in moved' /\ daemon = "up"
      BY <1>1, <2>3, <2>6
    <3>2. CASE \E g \in Flows : FlowNext(g)
      <4>1. PICK g \in Flows : FlowNext(g)
        BY <3>2
      <4>2. Current(f)[2] = run[f].stamp
        BY DEF Current, Id
      <4>3. ~ (Owner(g) /\ Current(f)[2] = run[g].stamp)
        BY <4>1, <4>2 DEF OwnerInv
      <4>4. task'[Current(f)].state = task[Current(f)].state
        BY <2>1, <2>6, <4>1, <4>3, FlowTouches
      <4> QED BY <2>1, <2>2, <2>6, <4>4
    <3>3. CASE ~ \E g \in Flows : FlowNext(g)
      <4>1. task'[Current(f)].state \in {"working", "done"}
        BY <2>1, <2>6, <3>1, <3>3, OthersTouch
      <4> QED BY <2>2, <2>6, <3>1, <4>1 DEF CurrentIs
    <3> QED BY <3>2, <3>3
  <2> QED BY <2>4, <2>5, <2>6
<1> QED BY <1>2, <1>3 DEF CurrentIs

\* Another actor's step: the run is where it was, or is lost.
LEMMA FailingByOthers ==
  ASSUME TypeOK, ControlInv, OwnerInv, ListInv, [Next]_vars, NEW f \in Flows, ~ FlowNext(f),
         Failing(f), run'[f] = run[f], step'[f] \in {step[f], "lost"}
  PROVE  Failing(f)'
<1>1. CASE step'[f] = "lost"
  BY <1>1 DEF Failing, Setup, StageStep
<1>2. CASE step'[f] = step[f]
  <2>1. ASSUME run[f].stage = "impl", step[f] \in {"add_dep", "worktree", "implement_failed"} \cup StageStep
        PROVE  Unless(f, "review", "open")'
    <3>1. Unless(f, "review", "open") /\ Owner(f)
      BY <2>1 DEF Failing, Owner, LiveStep, Setup, StageStep
    <3> QED BY <3>1, UnlessStays
  <2>2. ASSUME step[f] \in (Setup \ {"create_root"}) \cup (StageStep \ {"fail_idle"})
        PROVE  Unless(f, "root", "open")'
    <3>1. Unless(f, "root", "open") /\ Owner(f)
      BY <2>2 DEF Failing, Owner, LiveStep, Setup, StageStep
    <3> QED BY <3>1, UnlessStays
  <2>3. ASSUME step[f] \in {"fail_idle", "implement_failed", "review_failed"}
        PROVE  Unless(f, "root", "failed")'
    <3>1. Unless(f, "root", "failed") /\ Owner(f)
      BY <2>3 DEF Failing, Owner, LiveStep, StageStep
    <3> QED BY <3>1, UnlessStays
  <2>4. ASSUME step[f] \in {"spawn", "observe", "fail_task"} PROVE CurrentIs(f, "working")'
    <3>1. CurrentIs(f, "working") /\ Owner(f) /\ daemon = "up"
      BY <2>4 DEF Failing, Owner, LiveStep, StageStep, ControlInv, RunControl
    <3> QED BY <3>1, CurrentStays
  <2>5. ASSUME step[f] \in {"fail_root", "fail_idle", "implement_failed", "review_failed"}
        PROVE  CurrentIs(f, "failed")'
    <3>1. CurrentIs(f, "failed") /\ Owner(f)
      BY <2>5 DEF Failing, Owner, LiveStep, StageStep
    <3> QED BY <3>1, CurrentStays
  <2>6. step'[f] = "implement_failed" => run'[f].stage = "impl"
    BY <1>2 DEF Failing
  <2> QED BY <1>2, <2>1, <2>2, <2>3, <2>4, <2>5, <2>6 DEF Failing
<1> QED BY <1>1, <1>2

\* A transition of one task leaves what is known of another.
LEMMA UnlessKept ==
  ASSUME TypeOK, ControlInv, [Next]_vars, NEW f \in Flows, run'[f].stamp = run[f].stamp,
         NEW p, NEW s \in {"open", "failed"}, Unless(f, p, s), NEW t \in TaskIds, t # Id(f, p),
         \/ UNCHANGED task
         \/ \E to : Move(t, to)
         \/ \E a : Assign(t, a)
         \/ \E kind : Create(t, kind)
  PROVE  Unless(f, p, s)'
<1>1. Id(f, p)' = Id(f, p)
  BY DEF Id
<1>2. CASE Id(f, p) \in moved
  BY <1>1, <1>2, MovedGrows DEF Unless
<1>3. CASE State(Id(f, p)) = s
  <2>1. Id(f, p) \in TaskIds /\ task[Id(f, p)].state = s
    BY <1>3 DEF State
  <2>2. task'[Id(f, p)].state = task[Id(f, p)].state
    BY <2>1, MoveStates, AssignStates, CreateStates DEF TypeOK
  <2> QED BY <1>1, <2>1, <2>2 DEF Unless, State
<1> QED BY <1>2, <1>3 DEF Unless

\* A call that changes no task keeps what is known of the one in hand.
LEMMA CurrentKept ==
  ASSUME TypeOK, ControlInv, [Next]_vars, NEW f \in Flows, UNCHANGED task,
         run'[f].stamp = run[f].stamp, run'[f].stage = run[f].stage, NEW s, CurrentIs(f, s)
  PROVE  CurrentIs(f, s)'
<1>1. Current(f)' = Current(f)
  BY DEF Current, Id
<1>2. State(Current(f))' = State(Current(f))
  BY <1>1 DEF State
<1> QED BY <1>1, <1>2, MovedGrows DEF CurrentIs

\* The names of a run's tasks, and that they are three.
LEMMA OwnNames ==
  ASSUME TypeOK, ControlInv, NEW f \in Flows, FlowNext(f)
  PROVE  /\ run'[f].stamp = run[f].stamp /\ run[f].stage \in {"impl", "review"}
         /\ Current(f) \in TaskIds /\ \A p \in {"root", "impl", "review"} : Id(f, p) \in TaskIds
         /\ \A p : Id(f, p)' = Id(f, p)
         /\ Current(f) # Id(f, "root") /\ Id(f, "root") # Id(f, "review")
         /\ Id(f, "root") # Id(f, "impl") /\ Id(f, "impl") # Id(f, "review")
         /\ run[f].stage = "impl" => Current(f) # Id(f, "review")
<1>1. run'[f].stamp = run[f].stamp /\ step[f] # "idle"
  BY FlowRunStep DEF RunStep, LiveStep, Setup, StageStep, Closing
<1>2. run[f].stage \in {"impl", "review"}
  BY DEF TypeOK, Run, Stage
<1> QED BY <1>1, <1>2, RunNames DEF Id, Current

\* A call of the run that leaves the stage, and the tasks but for the one in hand, alone.
LEMMA FailingPlain ==
  ASSUME TypeOK, ControlInv, [Next]_vars, NEW f \in Flows, Failing(f), FlowNext(f),
         step[f] \in {"add_dep", "worktree"} \cup (StageStep \ {"fail_root", "fail_idle"}),
         step'[f] \in ({"worktree"} \cup (StageStep \ {"fail_idle"})) \cup {"errored", "root_claim"},
         run'[f].stage = run[f].stage,
         \/ UNCHANGED task
         \/ \E to : Move(Current(f), to)
         \/ \E a : Assign(Current(f), a),
         step'[f] \in {"spawn", "observe", "fail_task"} => CurrentIs(f, "working")',
         step'[f] = "fail_root" => CurrentIs(f, "failed")'
  PROVE  Failing(f)'
<1>1. step[f] \in (Setup \ {"create_root"}) \cup (StageStep \ {"fail_idle"})
  BY DEF Setup, StageStep
<1>2. Unless(f, "root", "open")'
  BY <1>1, UnlessKept, OwnNames DEF Failing
<1>3. run'[f].stage = "impl" => Unless(f, "review", "open")'
  <2>1. step[f] \in {"add_dep", "worktree", "implement_failed"} \cup StageStep
    OBVIOUS
  <2> QED BY <2>1, UnlessKept, OwnNames DEF Failing
<1>4. /\ step'[f] \notin {"implement_failed", "fail_idle", "review_failed"}
  BY DEF StageStep
<1> QED BY <1>2, <1>3, <1>4 DEF Failing

\* The steps of the run itself.
LEMMA FailingByItself ==
  ASSUME TypeOK, ControlInv, [Next]_vars, NEW f \in Flows, Failing(f), FlowNext(f)
  PROVE  Failing(f)'
<1>0. /\ run'[f].stamp = run[f].stamp /\ run[f].stage \in {"impl", "review"}
      /\ Current(f) \in TaskIds /\ \A p \in {"root", "impl", "review"} : Id(f, p) \in TaskIds
      /\ \A p : Id(f, p)' = Id(f, p)
      /\ Current(f) # Id(f, "root") /\ Id(f, "root") # Id(f, "review")
      /\ Id(f, "root") # Id(f, "impl") /\ Id(f, "impl") # Id(f, "review")
      /\ run[f].stage = "impl" => Current(f) # Id(f, "review")
  BY OwnNames
<1>1. ASSUME NEW p \in {"root", "impl", "review"}, NEW here, NEW next, CreateTask(f, here, p, next)
      PROVE  /\ step[f] = here /\ step'[f] \in {next, "errored"} /\ run' = run
             /\ step'[f] = next /\ next # "errored" =>
                  Create(Id(f, p), PrefixKind[p]) /\ Unless(f, p, "open")'
  <2>1. /\ step[f] = here /\ step'[f] \in {next, "errored"} /\ run' = run
        /\ step'[f] = next /\ next # "errored" => Create(Id(f, p), PrefixKind[p])
    BY <1>1 DEF CreateTask, At, Goto, TypeOK
  <2>2. Create(Id(f, p), PrefixKind[p]) => task'[Id(f, p)].state = "open"
    BY <1>0, CreateStates DEF TypeOK
  <2>3. Create(Id(f, p), PrefixKind[p]) => Unless(f, p, "open")'
    BY <1>0, <2>2 DEF Unless, State
  <2> QED BY <2>1, <2>3
<1>2. CASE CreateTasks(f)
  <2>1. CASE step'[f] = "errored"
    BY <2>1 DEF Failing, Setup, StageStep
  <2>2. CASE CreateTask(f, "create_root", "root", "create_impl") /\ step'[f] # "errored"
    <3>1. step'[f] = "create_impl" /\ Unless(f, "root", "open")'
      BY <1>1, <2>2
    <3> QED BY <3>1 DEF Failing, Setup, StageStep
  <2>3. CASE CreateTask(f, "create_impl", "impl", "create_review") /\ step'[f] # "errored"
    <3>1. step[f] = "create_impl" /\ step'[f] = "create_review" /\ Create(Id(f, "impl"), PrefixKind["impl"])
      BY <1>1, <2>3
    <3>2. Unless(f, "root", "open")
      BY <3>1 DEF Failing, Setup
    <3>3. Unless(f, "root", "open")'
      BY <1>0, <3>1, <3>2, UnlessKept
    <3> QED BY <3>1, <3>3 DEF Failing, Setup, StageStep
  <2>4. CASE CreateTask(f, "create_review", "review", "add_dep") /\ step'[f] # "errored"
    <3>1. /\ step[f] = "create_review" /\ step'[f] = "add_dep"
          /\ Create(Id(f, "review"), PrefixKind["review"]) /\ Unless(f, "review", "open")'
      BY <1>1, <2>4
    <3>2. Unless(f, "root", "open")
      BY <3>1 DEF Failing, Setup
    <3>3. Unless(f, "root", "open")'
      BY <1>0, <3>1, <3>2, UnlessKept
    <3> QED BY <3>1, <3>3 DEF Failing, Setup, StageStep
  <2> QED BY <1>2, <2>1, <2>2, <2>3, <2>4 DEF CreateTasks
<1>3. CASE AddDep(f) \/ CreateWorktree(f) \/ SetBusy(f) \/ Release(f)
  <2>1. /\ step[f] \in {"add_dep", "worktree", "busy", "release"} /\ run' = run /\ task' = task
        /\ step'[f] \in {"worktree", "busy", "assign", "snapshot", "errored"}
    BY <1>3 DEF AddDep, CreateWorktree, SetBusy, Release, At, Goto, TypeOK, db
  <2> QED BY <2>1, FailingPlain DEF StageStep
<1>4. CASE AssignTask(f) \/ ClaimStage(f) \/ CompleteStage(f)
  <2>1. /\ step[f] \in {"assign", "claim", "done"} /\ run' = run
        /\ step'[f] \in {"claim", "work", "release", "errored"}
        /\ UNCHANGED task \/ (\E a : Assign(Current(f), a)) \/ (\E to : Move(Current(f), to))
    BY <1>4 DEF AssignTask, ClaimStage, CompleteStage, MoveOrErr, At, Goto, TypeOK
  <2> QED BY <2>1, FailingPlain DEF StageStep
<1>5. CASE StartWork(f)
  <2>1. /\ step[f] = "work" /\ run' = run
        /\ \/ step'[f] = "spawn" /\ Move(Current(f), "working")
           \/ step'[f] = "errored" /\ UNCHANGED task
    BY <1>5 DEF StartWork, MoveOrErr, At, Goto, TypeOK
  <2>2. Move(Current(f), "working") => CurrentIs(f, "working")'
    <3>1. Move(Current(f), "working") => task'[Current(f)].state = "working"
      BY <1>0, MoveStates DEF TypeOK
    <3>2. Current(f)' = Current(f)
      BY <2>1 DEF Current, Id
    <3> QED BY <1>0, <3>1, <3>2 DEF CurrentIs, State
  <2> QED BY <2>1, <2>2, FailingPlain DEF StageStep
<1>6. CASE Spawn(f) \/ SessionSucceeds(f) \/ SessionFails(f) \/ SessionRetries(f) \/ WatchdogKills(f)
  <2>1. run'[f].stage = run[f].stage
    BY <1>6 DEF Spawn, SessionSucceeds, SessionFails, SessionRetries, WatchdogKills, TypeOK, Run
  <2>2. /\ step[f] \in {"spawn", "observe"} /\ task' = task
        /\ step'[f] \in {"spawn", "observe", "fail_task", "done"}
    BY <1>6 DEF Spawn, SessionSucceeds, SessionFails, SessionRetries, WatchdogKills, At, Goto, TypeOK, db
  <2>3. CurrentIs(f, "working")'
    BY <1>0, <2>1, <2>2, CurrentKept DEF Failing
  <2> QED BY <2>1, <2>2, <2>3, FailingPlain DEF StageStep
<1>7. CASE Snapshot(f)
  <2>1. /\ step[f] = "snapshot" /\ task' = task
        /\ \/ step'[f] \in {"errored", "root_claim"} /\ run' = run
           \/ step'[f] = "busy" /\ run'[f].stage = "review"
    BY <1>7 DEF Snapshot, At, Goto, TypeOK, Run, db
  <2>2. CASE step'[f] \in {"errored", "root_claim"} /\ run' = run
    BY <2>1, <2>2, FailingPlain DEF StageStep
  <2>3. CASE step'[f] = "busy" /\ run'[f].stage = "review"
    <3>1. Unless(f, "root", "open")'
      BY <1>0, <2>1, UnlessKept DEF Failing, StageStep
    <3> QED BY <2>3, <3>1 DEF Failing, StageStep
  <2> QED BY <2>1, <2>2, <2>3
<1>8. CASE FailTask(f)
  <2>1. step[f] = "fail_task" /\ step'[f] = "fail_root" /\ run' = run
    BY <1>8 DEF FailTask, MoveOrSkip, At, Goto, TypeOK
  <2>2. Current(f)' = Current(f)
    BY <2>1 DEF Current, Id
  <2>3. CurrentIs(f, "working")
    BY <2>1 DEF Failing
  <2>4. CASE State(Current(f)) = "working"
    <3>1. CanMove(Current(f), "failed")
      BY <1>0, <2>4 DEF State, CanMove, CanTransition, Active
    <3>2. Move(Current(f), "failed")
      BY <1>8, <3>1 DEF FailTask, MoveOrSkip
    <3>3. task'[Current(f)].state = "failed"
      BY <1>0, <3>2, MoveStates DEF TypeOK
    <3>4. CurrentIs(f, "failed")'
      BY <1>0, <2>2, <3>3 DEF CurrentIs, State
    <3> QED BY <2>1, <3>2, <3>4, FailingPlain DEF StageStep
  <2>5. CASE State(Current(f)) = "done" /\ Current(f) \in moved
    <3>1. State(Current(f))' = "done"
      BY <2>2, <2>5, StatePersists DEF State
    <3>2. CurrentIs(f, "failed")'
      BY <2>2, <2>5, <3>1, MovedGrows DEF CurrentIs
    <3>3. UNCHANGED task \/ Move(Current(f), "failed")
      BY <1>8 DEF FailTask, MoveOrSkip
    <3> QED BY <2>1, <3>2, <3>3, FailingPlain DEF StageStep
  <2> QED BY <2>3, <2>4, <2>5 DEF CurrentIs
<1>9. CASE FailRoot(f)
  <2>1. /\ step[f] = "fail_root" /\ step'[f] = "fail_idle" /\ run' = run
        /\ UNCHANGED task \/ Move(Id(f, "root"), "failed")
    BY <1>9 DEF FailRoot, MoveOrSkip, At, Goto, TypeOK
  <2>2. Unless(f, "root", "failed")'
    <3>1. Unless(f, "root", "open")
      BY <2>1 DEF Failing, StageStep
    <3>2. CASE Id(f, "root") \in moved
      BY <1>0, <3>2, MovedGrows DEF Unless
    <3>3. CASE State(Id(f, "root")) = "open"
      <4>1. CanMove(Id(f, "root"), "failed")
        BY <1>0, <3>3 DEF State, CanMove, CanTransition
      <4>2. Move(Id(f, "root"), "failed")
        BY <1>9, <4>1 DEF FailRoot, MoveOrSkip
      <4>3. task'[Id(f, "root")].state = "failed"
        BY <1>0, <4>2, MoveStates DEF TypeOK
      <4> QED BY <1>0, <4>3 DEF Unless, State
    <3> QED BY <3>1, <3>2, <3>3 DEF Unless
  <2>3. run'[f].stage = "impl" => Unless(f, "review", "open")'
    <3>1. run[f].stage = "impl" => Unless(f, "review", "open")
      BY <2>1 DEF Failing, StageStep
    <3> QED BY <1>0, <2>1, <3>1, UnlessKept
  <2>4. CurrentIs(f, "failed")'
    <3>1. CurrentIs(f, "failed") /\ Current(f)' = Current(f)
      BY <2>1 DEF Failing, Current, Id
    <3>2. task'[Current(f)].state = task[Current(f)].state
      BY <1>0, <2>1, MoveStates DEF TypeOK
    <3>3. State(Current(f))' = State(Current(f))
      BY <1>0, <3>1, <3>2 DEF State
    <3> QED BY <3>1, <3>3, MovedGrows DEF CurrentIs
  <2> QED BY <2>1, <2>2, <2>3, <2>4 DEF Failing, Setup, StageStep
<1>10. CASE FailIdle(f)
  <2>1. /\ step[f] = "fail_idle" /\ run' = run /\ task' = task
        /\ step'[f] = IF run[f].stage = "impl" THEN "implement_failed" ELSE "review_failed"
    BY <1>10 DEF FailIdle, At, Goto, TypeOK
  <2>2. CurrentIs(f, "failed")'
    BY <2>1, CurrentKept DEF Failing
  <2>3. Unless(f, "root", "failed")'
    BY <1>0, <2>1, UnlessKept DEF Failing
  <2>4. run[f].stage = "impl" => Unless(f, "review", "open")'
    <3>1. run[f].stage = "impl" => Unless(f, "review", "open")
      BY <2>1 DEF Failing, StageStep
    <3> QED BY <1>0, <2>1, <3>1, UnlessKept
  <2> QED BY <2>1, <2>2, <2>3, <2>4 DEF Failing, Setup, StageStep
<1>11. CASE ClaimRoot(f) \/ WorkRoot(f) \/ WriteReport(f) \/ CompleteRoot(f)
  <2>1. step'[f] \in Closing \cup {"errored", "reported"}
    BY <1>11 DEF ClaimRoot, WorkRoot, WriteReport, CompleteRoot, MoveOrErr, MoveOrSkip, Goto, TypeOK, Closing
  <2> QED BY <2>1 DEF Failing, Setup, StageStep, Closing
<1> QED BY <1>2, <1>3, <1>4, <1>5, <1>6, <1>7, <1>8, <1>9, <1>10, <1>11 DEF FlowNext, SessionNext

LEMMA FailureStep ==
  TypeOK /\ ControlInv /\ OwnerInv /\ ListInv /\ FailureInv /\ [Next]_vars => FailureInv'
<1> SUFFICES ASSUME TypeOK, ControlInv, OwnerInv, ListInv, FailureInv, [Next]_vars, NEW f \in Flows
             PROVE  Failing(f)'
  BY DEF FailureInv
<1>0. Failing(f)
  BY DEF FailureInv
<1>1. CASE FlowNext(f)
  BY <1>0, <1>1, FailingByItself
<1>2. ASSUME NEW r \in Requests, Start(f, r[1], r[2]) PROVE Failing(f)'
  <2>1. step'[f] \in {"create_root", "errored"}
    BY <1>2, StartRun
  <2> QED BY <2>1 DEF Failing, Setup, StageStep
<1>3. CASE ~ FlowNext(f) /\ ~ \E r \in Requests : Start(f, r[1], r[2])
  <2>1. run'[f] = run[f] /\ step'[f] \in {step[f], "lost"}
    BY <1>3, RunStays
  <2> QED BY <1>0, <1>3, <2>1, FailingByOthers
<1> QED BY <1>1, <1>2, <1>3

\* With any number of clients claiming and completing the tasks of the runs: a stopped run
\* leaves the task of its failed stage failed, its root failed and an unstarted review open,
\* from its answer on and for ever, but for exactly the tasks some client moved.
THEOREM FailureRemains == Spec => []FailureStands
<1>1. Init => ListInv /\ FailureInv
  BY DEF Init, ListInv, FailureInv, Failing, Setup, StageStep
<1>2. Inductive /\ ListInv /\ FailureInv /\ [Next]_vars => ListInv' /\ FailureInv'
  BY ListStep, FailureStep DEF Inductive
<1>3. FailureInv => FailureStands
  <2> SUFFICES ASSUME FailureInv, NEW f \in Flows, step[f] \in {"implement_failed", "review_failed"}
               PROVE  /\ \/ State(Current(f)) = "failed"
                         \/ State(Current(f)) = "done" /\ Current(f) \in moved
                      /\ State(Id(f, "root")) = "failed" \/ Id(f, "root") \in moved
                      /\ step[f] = "implement_failed" =>
                           State(Id(f, "review")) = "open" \/ Id(f, "review") \in moved
    BY DEF FailureStands
  <2> QED BY DEF FailureInv, Failing, Unless, CurrentIs
<1> QED BY <1>1, <1>2, <1>3, InductiveInvariant, PTL DEF Spec
=============================================================================
