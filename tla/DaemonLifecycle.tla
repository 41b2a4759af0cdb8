-------------------------- MODULE DaemonLifecycle --------------------------
(***************************************************************************)
(* Which process is the daemon.  `divan up` pings the socket and spawns a  *)
(* divan-daemon when nobody answers; each daemon takes the lock file,      *)
(* reconciles the task table, binds the socket and serves until it is told *)
(* to stop.  The lock file, the socket and the database are shared by all  *)
(* of them and survive every death; each file operation is one step.       *)
(*                                                                         *)
(* A daemon is named by its pid.  Reading the lock, asking whether its pid *)
(* lives and writing one's own are separate steps, so two daemons started  *)
(* at once may both take a free lock; `overlap` records that it happened,  *)
(* and the safety properties say what holds as long as it has not.         *)
(***************************************************************************)
EXTENDS Naturals

CONSTANTS
  Daemons,        \* daemon processes, by pid
  Clients,        \* terminals that run `divan up` and `divan down`
  Runs,           \* active tasks a daemon may take on (`divan run`)
  Recyclable,     \* pids the system may give to some other process
  None,           \* no lock file, no socket, no owner
  Empty           \* the lock file between its truncation and the write

ASSUME DaemonAssumption ==
  /\ Daemons \subseteq Nat
  /\ None \notin Daemons /\ Empty \notin Daemons /\ None # Empty
  /\ Recyclable \subseteq Daemons

VARIABLES
  pc,             \* the step each daemon process has reached
  lock,           \* content of divan.lock
  seen,           \* what each daemon read in it
  sock,           \* the daemon that bound divan.sock
  stop,           \* daemons whose stop notification has been given
  recycled,       \* pids of ended daemons some other process has now
  cli,            \* the step of each terminal
  run,            \* the state of each run's tasks, as far as reconciliation tells apart
  owner,          \* the daemon that took the run on
  todo,           \* what is left of each daemon's list of tasks to reconcile
  overlap         \* two daemons were between reading and writing the lock at once

files == <<lock, sock>>
table == <<run, owner>>
vars == <<pc, files, seen, stop, recycled, cli, table, todo, overlap>>

-----------------------------------------------------------------------------
(* The life of a daemon process.                                           *)

Acquiring == {"judging", "taking", "truncated"}
Starting == {"locked", "reconciling", "unlinked"}
Held == Starting \cup {"serving", "stopping", "closing"}
Driving == {"serving", "stopping", "closing", "draining"}
Ended == {"refused", "failed", "stopped", "crashed"}
Phase == {"unborn", "reading"} \cup Acquiring \cup Held \cup {"draining"} \cup Ended

\* The claimed and working tasks; late: taken on while the daemon was draining.
Active == {"active", "late"}

Living(d) == pc[d] \notin {"unborn"} \cup Ended
Go(d, phase) == pc' = [pc EXCEPT ![d] = phase]

\* `kill -0`: some process has the pid.
PidAlive(p) == Living(p) \/ p \in recycled

Init ==
  /\ pc = [d \in Daemons |-> "unborn"]
  /\ lock = None /\ sock = None
  /\ seen = [d \in Daemons |-> None]
  /\ stop = {}
  /\ recycled = {}
  /\ cli = [c \in Clients |-> "idle"]
  /\ run = [r \in Runs |-> "new"]
  /\ owner = [r \in Runs |-> None]
  /\ todo = [d \in Daemons |-> {}]
  /\ overlap = FALSE

\* LockFile::acquire reads the file ...
ReadLock(d) ==
  /\ pc[d] = "reading"
  /\ seen' = [seen EXCEPT ![d] = lock]
  /\ overlap' = (overlap \/ \E e \in Daemons \ {d} : pc[e] \in Acquiring)
  /\ Go(d, "judging")
  /\ UNCHANGED <<files, stop, recycled, cli, table, todo>>

\* ... gives up when the pid in it is alive (no file, no number, no process: go on) ...
\* Mutant: a lock file that holds no number is taken for a live daemon's.
JudgeEmpty(d) ==
  /\ pc[d] = "judging"
  /\ IF seen[d] = Empty \/ (seen[d] \in Daemons /\ PidAlive(seen[d]))
     THEN Go(d, "refused") ELSE Go(d, "taking")
  /\ seen' = [seen EXCEPT ![d] = None]
  /\ UNCHANGED <<files, stop, recycled, cli, table, todo, overlap>>
\* Mutant: a daemon that is refused drops the lock it did not get.
JudgeAndDrop(d) ==
  /\ pc[d] = "judging"
  /\ IF seen[d] \in Daemons /\ PidAlive(seen[d])
     THEN Go(d, "refused") /\ lock' = None ELSE Go(d, "taking") /\ UNCHANGED lock
  /\ seen' = [seen EXCEPT ![d] = None]
  /\ UNCHANGED <<sock, stop, recycled, cli, table, todo, overlap>>
JudgeLock(d) ==
  /\ pc[d] = "judging"
  /\ IF seen[d] \in Daemons /\ PidAlive(seen[d]) THEN Go(d, "refused") ELSE Go(d, "taking")
  /\ seen' = [seen EXCEPT ![d] = None]
  /\ UNCHANGED <<files, stop, recycled, cli, table, todo, overlap>>

\* ... and writes its own: fs::write truncates, then fills.
TruncateLock(d) ==
  /\ pc[d] = "taking"
  /\ lock' = Empty
  /\ Go(d, "truncated")
  /\ UNCHANGED <<sock, seen, stop, recycled, cli, table, todo, overlap>>

WriteLock(d) ==
  /\ pc[d] = "truncated"
  /\ lock' = d
  /\ Go(d, "locked")
  /\ UNCHANGED <<sock, seen, stop, recycled, cli, table, todo, overlap>>

\* An error before the daemon serves leaves main by `?`: the lock is dropped.
FailStart(d) == Go(d, "failed") /\ lock' = None /\ todo' = [todo EXCEPT ![d] = {}]

StartupFails(d) ==
  /\ pc[d] \in Starting
  /\ FailStart(d)
  /\ UNCHANGED <<sock, seen, stop, recycled, cli, table, overlap>>

\* reconcile lists the tasks ...
ListTasks(d) ==
  /\ pc[d] = "locked"
  /\ todo' = [todo EXCEPT ![d] = {r \in Runs : run[r] \in Active}]
  /\ Go(d, "reconciling")
  /\ UNCHANGED <<files, seen, stop, recycled, cli, table, overlap>>

\* ... and fails the active ones one by one; a task that has left its state since
\* makes the transition illegal, and the start fails.
Reconcile(d, r) ==
  /\ pc[d] = "reconciling" /\ r \in todo[d]
  /\ IF run[r] \in Active
     THEN /\ run' = [run EXCEPT ![r] = "orphaned"]
          /\ todo' = [todo EXCEPT ![d] = @ \ {r}]
          /\ UNCHANGED <<pc, lock>>
     ELSE FailStart(d) /\ UNCHANGED run
  /\ UNCHANGED <<sock, seen, stop, recycled, cli, owner, overlap>>

\* serve removes the socket file a dead daemon may have left ...
\* Mutant: it does not wait for the end of the reconciliation.
UnlinkEarly(d) ==
  /\ pc[d] = "reconciling"
  /\ sock' = None
  /\ Go(d, "unlinked")
  /\ UNCHANGED <<lock, seen, stop, recycled, cli, table, todo, overlap>>
UnlinkSocket(d) ==
  /\ pc[d] = "reconciling" /\ todo[d] = {}
  /\ sock' = None
  /\ Go(d, "unlinked")
  /\ UNCHANGED <<lock, seen, stop, recycled, cli, table, todo, overlap>>

\* ... and binds its own, which fails if the path exists again.
Bind(d) ==
  /\ pc[d] = "unlinked"
  /\ IF sock = None THEN sock' = d /\ Go(d, "serving") /\ UNCHANGED <<lock, todo>>
                    ELSE FailStart(d) /\ UNCHANGED sock
  /\ UNCHANGED <<seen, stop, recycled, cli, table, overlap>>

\* SIGINT while serving; SIGTERM, or either one earlier, is a crash.
Interrupt(d) ==
  /\ pc[d] = "serving"
  /\ stop' = stop \cup {d}
  /\ UNCHANGED <<pc, files, seen, recycled, cli, table, todo, overlap>>

\* Mutant: the lock goes before the socket and the runs.
LeaveUnlocked(d) ==
  /\ pc[d] = "serving" /\ d \in stop
  /\ stop' = stop \ {d}
  /\ lock' = None
  /\ Go(d, "stopping")
  /\ UNCHANGED <<sock, seen, recycled, cli, table, todo, overlap>>
LeaveLoop(d) ==
  /\ pc[d] = "serving" /\ d \in stop
  /\ stop' = stop \ {d}
  /\ Go(d, "stopping")
  /\ UNCHANGED <<files, seen, recycled, cli, table, todo, overlap>>

\* accept failed: serve returns the error and the socket file stays.
AcceptFails(d) ==
  /\ pc[d] = "serving"
  /\ stop' = stop \ {d}
  /\ Go(d, "closing")
  /\ UNCHANGED <<files, seen, recycled, cli, table, todo, overlap>>

\* The socket path is removed whoever bound it, and so is the lock file.
RemoveSocket(d) ==
  /\ pc[d] = "stopping"
  /\ sock' = None
  /\ Go(d, "closing")
  /\ UNCHANGED <<lock, seen, stop, recycled, cli, table, todo, overlap>>

DropLock(d) ==
  /\ pc[d] = "closing"
  /\ lock' = None
  /\ Go(d, "draining")
  /\ UNCHANGED <<sock, seen, stop, recycled, cli, table, todo, overlap>>

\* The runtime goes last: until then the tasks it has spawned go on.
Exit(d) ==
  /\ pc[d] = "draining"
  /\ Go(d, "stopped")
  /\ UNCHANGED <<files, seen, stop, recycled, cli, table, todo, overlap>>

Crash(d) ==
  /\ Living(d)
  /\ Go(d, "crashed")
  /\ seen' = [seen EXCEPT ![d] = None]
  /\ stop' = stop \ {d}
  /\ todo' = [todo EXCEPT ![d] = {}]
  /\ UNCHANGED <<files, recycled, cli, table, overlap>>

\* The system gives an ended daemon's pid to another process, which ends in turn.
Recycle(p) ==
  /\ p \in Recyclable /\ pc[p] \in Ended
  /\ recycled' \in {recycled \cup {p}, recycled \ {p}}
  /\ UNCHANGED <<pc, files, seen, stop, cli, table, todo, overlap>>

-----------------------------------------------------------------------------
(* The command line, and the runs.                                         *)

\* is_alive: the daemon that bound the socket answers a ping.
Answering == sock \in Daemons /\ pc[sock] = "serving"

\* `up`: nobody answers ...
UpPing(c) ==
  /\ cli[c] = "idle" /\ ~ Answering
  /\ cli' = [cli EXCEPT ![c] = "absent"]
  /\ UNCHANGED <<pc, files, seen, stop, recycled, table, todo, overlap>>

\* ... so spawn a daemon (the system hands out pids in increasing order).  The polls that
\* follow only watch; they end when a daemon answers or after five seconds, whatever has
\* become of the one spawned.
UpSpawn(c) ==
  /\ cli[c] = "absent"
  /\ \E d \in Daemons :
       /\ pc[d] = "unborn"
       /\ \A e \in Daemons : pc[e] = "unborn" => d <= e
       /\ Go(d, "reading")
  /\ cli' = [cli EXCEPT ![c] = "idle"]
  /\ UNCHANGED <<files, seen, stop, recycled, table, todo, overlap>>

UpSpawnFails(c) ==
  /\ cli[c] = "absent"
  /\ cli' = [cli EXCEPT ![c] = "idle"]
  /\ UNCHANGED <<pc, files, seen, stop, recycled, table, todo, overlap>>

\* `down`: ping, then the shutdown request (notify_one).
Down(c) ==
  /\ cli[c] = "idle" /\ Answering
  /\ stop' = stop \cup {sock}
  /\ UNCHANGED <<pc, files, seen, recycled, cli, table, todo, overlap>>

\* A request the daemon has accepted makes a task active, maybe only when the daemon has
\* let go of its lock: the runtime waits for what runs until its next await.
StartRun(r) ==
  /\ run[r] = "new"
  /\ \E d \in Daemons :
       /\ pc[d] \in Driving
       /\ run' = [run EXCEPT ![r] = IF pc[d] = "draining" THEN "late" ELSE "active"]
       /\ owner' = [owner EXCEPT ![r] = d]
  /\ UNCHANGED <<pc, files, seen, stop, recycled, cli, todo, overlap>>

\* The run's daemon completes or fails the task; it may not touch an orphaned one.
FinishRun(r) ==
  /\ run[r] \in Active /\ pc[owner[r]] \in Driving
  /\ run' = [run EXCEPT ![r] = "finished"]
  /\ UNCHANGED <<pc, files, seen, stop, recycled, cli, owner, todo, overlap>>

-----------------------------------------------------------------------------
\* What a daemon does of its own accord.
DaemonStep(d) ==
  \/ ReadLock(d) \/ JudgeLock(d) \/ TruncateLock(d) \/ WriteLock(d)
  \/ ListTasks(d) \/ UnlinkSocket(d) \/ Bind(d)
  \/ LeaveLoop(d) \/ RemoveSocket(d) \/ DropLock(d) \/ Exit(d)
  \/ \E r \in Runs : Reconcile(d, r)

Next ==
  \/ \E d \in Daemons :
       DaemonStep(d) \/ StartupFails(d) \/ Interrupt(d) \/ AcceptFails(d) \/ Crash(d) \/ Recycle(d)
  \/ \E c \in Clients : UpPing(c) \/ UpSpawn(c) \/ UpSpawnFails(c) \/ Down(c)
  \/ \E r \in Runs : StartRun(r) \/ FinishRun(r)

Spec == Init /\ [][Next]_vars

\* A daemon process is scheduled; nothing obliges anybody to type a command.
FairSpec == Spec /\ \A d \in Daemons : WF_vars(DaemonStep(d))

-----------------------------------------------------------------------------
(* Properties.                                                             *)

TypeOK ==
  /\ pc \in [Daemons -> Phase]
  /\ lock \in Daemons \cup {None, Empty}
  /\ seen \in [Daemons -> Daemons \cup {None, Empty}]
  /\ sock \in Daemons \cup {None}
  /\ stop \subseteq Daemons /\ recycled \subseteq Daemons
  /\ cli \in [Clients -> {"idle", "absent"}]
  /\ run \in [Runs -> {"new", "active", "late", "finished", "orphaned"}]
  /\ owner \in [Runs -> Daemons \cup {None}]
  /\ todo \in [Daemons -> SUBSET Runs]
  /\ overlap \in BOOLEAN

\* "A held singleton lock" (lifecycle.rs:22): unless two daemons were inside
\* LockFile::acquire at once, there are never two past it, through crashes, stale
\* locks, truncated lock files and the removal of the lock by whoever drops it.
OneHolder ==
  ~ overlap => \A d, e \in Daemons : pc[d] \in Held /\ pc[e] \in Held => d = e

\* A serving daemon is the one the CLI reaches: its socket is not removed by an
\* earlier daemon that is still shutting down (rpc.rs:63), nor by one starting up.
ServerReachable ==
  ~ overlap => \A d \in Daemons : pc[d] \in {"serving", "stopping"} => sock = d

\* Reconciliation (lifecycle.rs:73) fails no task of a daemon that still holds the
\* lock, only what an ended one, or one that has let go of everything, has left.
OrphansAreDead ==
  ~ overlap => \A r \in Runs :
    run[r] = "orphaned" => pc[owner[r]] \in {"draining"} \cup Ended

\* Once a daemon serves, every active task is one of its own: nothing an earlier
\* daemon left is still shown as being worked on (spec 3.7), except for what that
\* daemon took on after it had let go of the lock.
ServesOwnRuns ==
  ~ overlap => \A d \in Daemons, r \in Runs :
    pc[d] = "serving" /\ run[r] = "active" => owner[r] = d

\* A lock file whose owner is gone never keeps a daemon from serving: one that
\* starts alone serves, unless an error of its own or a crash ends it first.
Alone(d) == lock \notin recycled /\ \A e \in Daemons \ {d} : ~ Living(e)
StaleLockTaken ==
  \A d \in Daemons :
    pc[d] = "reading" /\ Alone(d)
      ~> pc[d] \in {"serving", "failed", "crashed"} \/ ~ Alone(d)

\* "a second `divan up` connects to the existing daemon, never a second one"
\* (divan-cli/src/main.rs:312), without the proviso.
OneDaemon ==
  \A d, e \in Daemons : pc[d] \in Held /\ pc[e] \in Held => d = e

-----------------------------------------------------------------------------
(* The inductive invariant behind the safety properties.                   *)

\* While the file operations of acquire have not overlapped: the holder's pid is
\* in the file, whoever is about to judge has read it, and whoever has judged the
\* lock free is alone.
LockInv ==
  /\ \A d, e \in Daemons : pc[d] \in Acquiring /\ pc[e] \in Acquiring => d = e
  /\ \A d \in Daemons : pc[d] \in Held => lock = d
  /\ \A d, e \in Daemons : pc[d] = "judging" /\ pc[e] \in Held => seen[d] = e
  /\ \A d, e \in Daemons : pc[d] \in {"taking", "truncated"} => pc[e] \notin Held

\* A run's owner has served.
OwnerInv ==
  \A r \in Runs : run[r] # "new" => owner[r] \in Daemons /\ pc[owner[r]] \in Driving \cup Ended

\* A daemon that reconciles has every active task on its list, and behind the
\* reconciliation only its own runs are active.
ListInv ==
  ~ overlap => \A d \in Daemons, r \in Runs : run[r] = "active" =>
    /\ pc[d] = "reconciling" => r \in todo[d]
    /\ pc[d] \in {"unlinked", "serving", "stopping", "closing"} => owner[r] = d

Inductive ==
  /\ TypeOK
  /\ ~ overlap => LockInv
  /\ OwnerInv /\ ListInv
  /\ ServerReachable
  /\ OrphansAreDead
=============================================================================
