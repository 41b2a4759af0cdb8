---------------------------- MODULE AgentSession ----------------------------
(***************************************************************************)
(* The sessions of one agent adapter of divan-adapters, as the scheduler   *)
(* drives them (run_session_once): the CLI process and its stdout, the     *)
(* registry of children and its mutex, the observer task that turns stdout *)
(* into events on a bounded channel, the loop that drains the channel, and *)
(* the watchdog that kills the CLI.                                        *)
(*                                                                         *)
(* `style` says which adapter it is.  They differ in what a line means and *)
(* in where the end of the session comes from:                             *)
(*   claude    events per line; the `result` line ends the session         *)
(*   codex     events per line; the exit status ends the session           *)
(*   copilot   the text is captured; events come from the git diff once    *)
(*             the process has exited; the exit status ends the session    *)
(*   agy       the text is captured; the exit status ends the session      *)
(***************************************************************************)
EXTENDS Naturals, Sequences, SequencesExt

CONSTANTS
  Sessions,       \* sessions of the adapter
  Styles,         \* adapters considered
  Lines,          \* bound on the lines each CLI prints: [Sessions -> Nat]
  Capacity        \* of the event channel (64 in the code)

ASSUME SessionAssumption ==
  /\ Styles \subseteq {"claude", "codex", "copilot", "agy"}
  /\ Lines \in [Sessions -> Nat]
  /\ Capacity \in Nat \ {0}

VARIABLES
  style,          \* the adapter
  lock,           \* the mutex of the registry: "free" or the session killing
  cli,            \* the process of each session and how it exits
  said,           \* the lines each CLI has printed
  heard,          \* how many of them the observer has read
  child,          \* who owns the Child handle
  observer,       \* the observer task
  ok,             \* the exit status the observer derived
  sending,        \* events the observer still has to send
  channel,        \* events sent and not received
  received,       \* events the drain loop received
  scheduler,      \* the call run_session_once is in
  outcome         \* what run_session_once returned

process == <<cli, said>>
stream == <<heard, ok, sending>>
vars == <<style, lock, process, child, observer, stream, channel, received,
          scheduler, outcome>>

-----------------------------------------------------------------------------
(* What a CLI prints and what the adapters make of it.                     *)

\* An edit tool call, a malformed line, one that is not UTF-8, and the result line
\* of claude.
Line == {"edit", "garbage", "binary", "result", "error_result"}
Event == {"tool_call", "file_edit", "error", "end_ok", "end_failed"}

\* parse_line of claude and codex.
Parse(line) ==
  IF line = "garbage" THEN <<"error">>
  ELSE IF style = "codex" THEN IF line = "edit" THEN <<"file_edit">> ELSE <<>>
  ELSE CASE line = "edit" -> <<"file_edit", "tool_call">>
         [] line = "result" -> <<"end_ok">>
         [] line = "error_result" -> <<"end_failed">>

\* The lines that mean something to the adapter.
Vocabulary ==
  CASE style = "claude" -> Line
    [] style = "codex" -> {"edit", "garbage", "binary"}
    [] OTHER -> {"edit", "binary"}

Structured == style \in {"claude", "codex"}
LastEvents == {"error", "end_ok", "end_failed"}

Alive(s) == cli[s].at \in {"running", "silent"}
\* Nothing more can be read: stdout is closed, or the next line is an error.
Eof(s) ==
  \/ cli[s].at \in {"silent", "exited", "reaped"} /\ heard[s] = Len(said[s])
  \/ heard[s] < Len(said[s]) /\ said[s][heard[s] + 1] = "binary"
Open(s) == scheduler[s] # "over"
Unlocked == lock = "free"

-----------------------------------------------------------------------------
Init ==
  /\ style \in Styles
  /\ lock = "free"
  /\ cli = [s \in Sessions |-> [at |-> "none", success |-> FALSE]]
  /\ said = [s \in Sessions |-> <<>>]
  /\ heard = [s \in Sessions |-> 0]
  /\ child = [s \in Sessions |-> "none"]
  /\ observer = [s \in Sessions |-> "none"]
  /\ ok = [s \in Sessions |-> FALSE]
  /\ sending = [s \in Sessions |-> <<>>]
  /\ channel = [s \in Sessions |-> <<>>]
  /\ received = [s \in Sessions |-> <<>>]
  /\ scheduler = [s \in Sessions |-> "spawn"]
  /\ outcome = [s \in Sessions |-> "none"]

-----------------------------------------------------------------------------
(* The CLI: it may print, close its stdout and exit whenever it likes, and *)
(* nothing obliges it to.                                                  *)

Say(s) ==
  /\ cli[s].at = "running"
  /\ Len(said[s]) < Lines[s]
  /\ \E line \in Vocabulary : said' = [said EXCEPT ![s] = Append(@, line)]
  /\ UNCHANGED <<style, lock, cli, child, observer, stream, channel, received,
                 scheduler, outcome>>

CloseStdout(s) ==
  /\ cli[s].at = "running"
  /\ cli' = [cli EXCEPT ![s].at = "silent"]
  /\ UNCHANGED <<style, lock, said, child, observer, stream, channel, received,
                 scheduler, outcome>>

Exit(s) ==
  /\ Alive(s)
  /\ \E b \in BOOLEAN : cli' = [cli EXCEPT ![s] = [at |-> "exited", success |-> b]]
  /\ UNCHANGED <<style, lock, said, child, observer, stream, channel, received,
                 scheduler, outcome>>

-----------------------------------------------------------------------------
(* run_session_once: spawn, observe, drain under the watchdog.             *)

\* A CLI that cannot be started is fatal; the Child is not registered yet.
SpawnCli(s) ==
  /\ scheduler[s] = "spawn"
  /\ \/ /\ scheduler' = [scheduler EXCEPT ![s] = "insert"]
        /\ cli' = [cli EXCEPT ![s].at = "running"]
        /\ child' = [child EXCEPT ![s] = "spawner"]
        /\ UNCHANGED outcome
     \/ /\ scheduler' = [scheduler EXCEPT ![s] = "over"]
        /\ outcome' = [outcome EXCEPT ![s] = "failed"]
        /\ UNCHANGED <<cli, child>>
  /\ UNCHANGED <<style, lock, said, observer, stream, channel, received>>

Insert(s) ==
  /\ scheduler[s] = "insert" /\ Unlocked
  /\ child' = [child EXCEPT ![s] = "registry"]
  /\ scheduler' = [scheduler EXCEPT ![s] = "observe"]
  /\ UNCHANGED <<style, lock, process, observer, stream, channel, received, outcome>>

Observe(s) ==
  /\ scheduler[s] = "observe" /\ Unlocked
  /\ observer' = [observer EXCEPT ![s] = "read"]
  /\ scheduler' = [scheduler EXCEPT ![s] = "drain"]
  /\ UNCHANGED <<style, lock, process, child, stream, channel, received, outcome>>

\* One event; the last one, or a closed channel, ends the session.
\* Mutant: the ok flag is not looked at.
VerdictLenient == [end_ok |-> "ok", end_failed |-> "ok", error |-> "failed"]
Verdict == [end_ok |-> "ok", end_failed |-> "failed", error |-> "failed"]
Finish(s, result) ==
  /\ scheduler' = [scheduler EXCEPT ![s] = "over"]
  /\ outcome' = [outcome EXCEPT ![s] = result]

Receive(s) ==
  /\ scheduler[s] = "drain" /\ channel[s] # <<>>
  /\ channel' = [channel EXCEPT ![s] = Tail(@)]
  /\ received' = [received EXCEPT ![s] = Append(@, Head(channel[s]))]
  /\ IF Head(channel[s]) \in LastEvents
     THEN Finish(s, Verdict[Head(channel[s])])
     ELSE UNCHANGED <<scheduler, outcome>>
  /\ UNCHANGED <<style, lock, process, child, observer, stream>>

ChannelCloses(s) ==
  /\ scheduler[s] = "drain" /\ channel[s] = <<>> /\ observer[s] = "gone"
  /\ Finish(s, "failed")
  /\ UNCHANGED <<style, lock, process, child, observer, stream, channel, received>>

\* tokio::time::timeout elapses; the drain loop is dropped, the receiver is not.
TimesOut(s) ==
  /\ scheduler[s] = "drain"
  /\ scheduler' = [scheduler EXCEPT ![s] = "kill"]
  /\ UNCHANGED <<style, lock, process, child, observer, stream, channel, received, outcome>>

\* kill: SIGKILL the child if the registry still holds it, keeping the mutex
\* until the child is reaped.
\* Mutant: wait for the child instead of killing it.
SignalNone(s) == UNCHANGED cli
Signal(s) == cli' = [cli EXCEPT ![s] = IF Alive(s) THEN [at |-> "exited", success |-> FALSE]
                                       ELSE @]
\* Mutant: the child is taken out of the registry and dropped.
KillForgets(s) ==
  /\ scheduler[s] = "kill" /\ Unlocked /\ child[s] = "registry"
  /\ child' = [child EXCEPT ![s] = "none"]
  /\ scheduler' = [scheduler EXCEPT ![s] = "over"]
  /\ outcome' = [outcome EXCEPT ![s] = "timeout"]
  /\ UNCHANGED <<style, lock, process, observer, stream, channel, received>>
Kill(s) ==
  /\ scheduler[s] = "kill" /\ Unlocked
  /\ child[s] = "registry"
  /\ lock' = s
  /\ child' = [child EXCEPT ![s] = "killer"]
  /\ Signal(s)
  /\ scheduler' = [scheduler EXCEPT ![s] = "killing"]
  /\ UNCHANGED <<style, said, observer, stream, channel, received, outcome>>

KillDone(s) ==
  /\ scheduler[s] = "killing" /\ cli[s].at = "exited"
  /\ cli' = [cli EXCEPT ![s].at = "reaped"]
  /\ child' = [child EXCEPT ![s] = "none"]
  /\ lock' = "free"
  /\ Finish(s, "timeout")
  /\ UNCHANGED <<style, said, observer, stream, channel, received>>

\* The observer took the child: `kill <pid>`, a signal the CLI may ignore.
KillByPid(s) ==
  /\ scheduler[s] = "kill" /\ Unlocked
  /\ child[s] # "registry"
  /\ \/ UNCHANGED cli
     \/ Alive(s) /\ cli' = [cli EXCEPT ![s] = [at |-> "exited", success |-> FALSE]]
  /\ Finish(s, "timeout")
  /\ UNCHANGED <<style, lock, said, child, observer, stream, channel, received>>

-----------------------------------------------------------------------------
(* The observer task.                                                      *)

\* claude's task is over when its stream is; the others go on to the exit status.
\* Mutant: the others stop there too.
AfterStreamGone(s) == "gone"
AfterStream(s) == CASE style = "claude" -> "gone"
                    [] style = "copilot" -> "summary"
                    [] OTHER -> "take"

\* The next line, once the events of the previous one are sent.
ReadLine(s) ==
  /\ observer[s] = "read" /\ sending[s] = <<>> /\ heard[s] < Len(said[s]) /\ ~ Eof(s)
  /\ heard' = [heard EXCEPT ![s] = @ + 1]
  /\ sending' = [sending EXCEPT ![s] =
                   IF Structured THEN Parse(said[s][heard[s] + 1]) ELSE <<>>]
  /\ UNCHANGED <<style, lock, process, child, observer, ok, channel, received,
                 scheduler, outcome>>

ReadEof(s) ==
  /\ observer[s] = "read" /\ sending[s] = <<>> /\ Eof(s)
  /\ observer' = [observer EXCEPT ![s] = AfterStream(s)]
  /\ sending' = [sending EXCEPT ![s] = IF style = "copilot" THEN <<"tool_call">> ELSE <<>>]
  /\ UNCHANGED <<style, lock, process, child, heard, ok, channel, received,
                 scheduler, outcome>>

\* tx.send waits for room while the receiver lives.
\* Mutant: the event is dropped when the channel is full (try_send).
DeliverOrDrop(s) ==
  channel' = IF Len(channel[s]) < Capacity
             THEN [channel EXCEPT ![s] = Append(@, Head(sending[s]))] ELSE channel
Deliver(s) ==
  /\ Len(channel[s]) < Capacity
  /\ channel' = [channel EXCEPT ![s] = Append(@, Head(sending[s]))]
Send(s) ==
  /\ sending[s] # <<>> /\ Open(s)
  /\ Deliver(s)
  /\ sending' = [sending EXCEPT ![s] = Tail(@)]
  /\ UNCHANGED <<style, lock, process, child, observer, heard, ok, received,
                 scheduler, outcome>>

\* A closed channel ends the stream, and the observer once the diff is read.
SendFails(s) ==
  /\ sending[s] # <<>> /\ ~ Open(s)
  /\ sending' = [sending EXCEPT ![s] = <<>>]
  /\ observer' = [observer EXCEPT ![s] =
                    IF @ = "read" THEN AfterStream(s) ELSE IF @ = "summary" THEN @ ELSE "gone"]
  /\ UNCHANGED <<style, lock, process, child, heard, ok, channel, received,
                 scheduler, outcome>>

SummarySent(s) ==
  /\ observer[s] = "summary" /\ sending[s] = <<>>
  /\ observer' = [observer EXCEPT ![s] = "take"]
  /\ UNCHANGED <<style, lock, process, child, stream, channel, received, scheduler, outcome>>

\* The child leaves the registry, unless kill took it first.
SessionEnd(success) == IF success THEN <<"end_ok">> ELSE <<"end_failed">>
TakeChild(s) ==
  /\ observer[s] = "take" /\ Unlocked
  /\ IF child[s] = "registry"
     THEN /\ child' = [child EXCEPT ![s] = "observer"]
          /\ observer' = [observer EXCEPT ![s] = "wait"]
          /\ UNCHANGED sending
     ELSE /\ observer' = [observer EXCEPT ![s] = "end"]
          /\ sending' = [sending EXCEPT ![s] = SessionEnd(FALSE)]
          /\ UNCHANGED child
  /\ UNCHANGED <<style, lock, process, heard, ok, channel, received, scheduler, outcome>>

\* The edits copilot derives from git status once its process has exited.
Edits == IF style = "copilot" THEN {<<>>, <<"file_edit">>} ELSE {<<>>}
\* child.wait() gives the exit status.
Wait(s) ==
  /\ observer[s] = "wait" /\ cli[s].at = "exited"
  /\ cli' = [cli EXCEPT ![s].at = "reaped"]
  /\ child' = [child EXCEPT ![s] = "none"]
  /\ ok' = [ok EXCEPT ![s] = cli[s].success]
  /\ observer' = [observer EXCEPT ![s] = "end"]
  /\ \E edits \in Edits :
       sending' = [sending EXCEPT ![s] = edits \o SessionEnd(cli[s].success)]
  /\ UNCHANGED <<style, lock, said, heard, channel, received, scheduler, outcome>>

\* The task ends and drops its sender.
ObserverEnds(s) ==
  /\ observer[s] = "end" /\ sending[s] = <<>>
  /\ observer' = [observer EXCEPT ![s] = "gone"]
  /\ UNCHANGED <<style, lock, process, child, stream, channel, received, scheduler, outcome>>

-----------------------------------------------------------------------------
CliNext(s) == Say(s) \/ CloseStdout(s) \/ Exit(s)

SchedulerNext(s) ==
  \/ SpawnCli(s) \/ Insert(s) \/ Observe(s) \/ Receive(s) \/ ChannelCloses(s)
  \/ TimesOut(s) \/ Kill(s) \/ KillDone(s) \/ KillByPid(s)

ObserverNext(s) ==
  \/ ReadLine(s) \/ ReadEof(s) \/ Send(s) \/ SendFails(s) \/ SummarySent(s)
  \/ TakeChild(s) \/ Wait(s) \/ ObserverEnds(s)

Next == \E s \in Sessions : CliNext(s) \/ SchedulerNext(s) \/ ObserverNext(s)

Spec == Init /\ [][Next]_vars

\* tokio drives its tasks and its timers.  The CLI is driven by nothing.
FairSpec ==
  /\ Spec
  /\ \A s \in Sessions : WF_vars(SchedulerNext(s)) /\ WF_vars(ObserverNext(s))

-----------------------------------------------------------------------------
(* Properties.                                                             *)

TypeOK ==
  /\ style \in Styles
  /\ lock \in Sessions \cup {"free"}
  /\ cli \in [Sessions -> [at : {"none", "running", "silent", "exited", "reaped"},
                           success : BOOLEAN]]
  /\ said \in [Sessions -> Seq(Line)] /\ heard \in [Sessions -> Nat]
  /\ sending \in [Sessions -> Seq(Event)]
  /\ channel \in [Sessions -> Seq(Event)]
  /\ received \in [Sessions -> Seq(Event)]
  /\ \A s \in Sessions : /\ Len(said[s]) <= Lines[s] /\ heard[s] <= Len(said[s])
                         /\ Len(channel[s]) <= Capacity
  /\ child \in [Sessions -> {"none", "spawner", "registry", "observer", "killer"}]
  /\ observer \in [Sessions -> {"none", "read", "summary", "take", "wait", "end", "gone"}]
  /\ ok \in [Sessions -> BOOLEAN]
  /\ scheduler \in [Sessions -> {"spawn", "insert", "observe", "drain", "kill",
                                 "killing", "over"}]
  /\ outcome \in [Sessions -> {"none", "ok", "failed", "timeout"}]

\* The events the lines up to the n-th one mean.
Meaning(s, n) == FlattenSeq([i \in 1 .. n |-> Parse(said[s][i])])

\* A session succeeds only when its CLI said so: claude printed its result line,
\* the others exited with success and were reaped by the observer, not killed.
SuccessEarned ==
  \A s \in Sessions : outcome[s] = "ok" =>
    IF style = "claude" THEN "result" \in Range(said[s])
    ELSE cli[s] = [at |-> "reaped", success |-> TRUE]

\* However long the channel holds them up, the events of the lines read so far are
\* received, in the channel or about to be sent, in the order of the lines, each of
\* them once; and a session of codex that succeeds was heard to the end.
NothingDropped ==
  Structured => \A s \in Sessions :
    /\ Open(s) => received[s] \o channel[s] \o sending[s] =
          Meaning(s, heard[s]) \o (IF style = "codex" /\ observer[s] \in {"end", "gone"}
                                  THEN SessionEnd(ok[s]) ELSE <<>>)
    /\ outcome[s] = "ok" /\ style = "codex" =>
          Eof(s) /\ received[s] = Meaning(s, heard[s]) \o SessionEnd(TRUE)

\* A session that timed out leaves no child behind: it is reaped, or an observer
\* is waiting for it.
TimedOutChildOwned ==
  \A s \in Sessions : outcome[s] = "timeout" =>
    cli[s].at = "reaped" \/ (child[s] = "observer" /\ observer[s] = "wait")

\* Every session returns, whatever its CLI and those of its neighbours do: the
\* mutex one kill holds is always given back, and a full channel blocks nobody.
SessionReturns == \A s \in Sessions : <>(outcome[s] # "none")

\* Where the exit status ends the session, no CLI that ended stays a zombie, also
\* when its session failed or timed out long before.
ChildrenReaped ==
  style # "claude" =>
    \A s \in Sessions : cli[s].at = "exited" ~> cli[s].at = "reaped"
-----------------------------------------------------------------------------
(* The inductive invariant behind the safety properties.                   *)

\* Whoever has the Child handle is at the step that needs it; without an owner there is
\* no process, or it was reaped.
ChildInv ==
  \A s \in Sessions :
    /\ child[s] = "none" <=> cli[s].at \in {"none", "reaped"}
    /\ scheduler[s] = "spawn" => child[s] = "none" /\ cli[s].at = "none"
    /\ child[s] = "spawner" <=> scheduler[s] = "insert"
    /\ scheduler[s] = "observe" => child[s] = "registry"
    /\ child[s] = "killer" <=> scheduler[s] = "killing"
    /\ child[s] = "observer" <=> observer[s] = "wait"
    /\ scheduler[s] \in {"spawn", "insert", "observe"} => observer[s] = "none"
    /\ scheduler[s] \in {"drain", "kill", "killing"} => cli[s].at # "none"
    /\ outcome[s] = "none" <=> scheduler[s] # "over"
    /\ observer[s] \in {"none", "take", "wait", "gone"} => sending[s] = <<>>

\* A success on its way is earned already.
Underway(s) == Range(channel[s]) \cup Range(sending[s])
SuccessInv ==
  \A s \in Sessions : "end_ok" \in Underway(s) =>
    IF style = "claude" THEN "result" \in Range(said[s])
    ELSE cli[s] = [at |-> "reaped", success |-> TRUE]

\* The observer takes the way of its adapter, and has read what it could, and no more,
\* before it goes on to the exit status.
ReadInv ==
  \A s \in Sessions :
    /\ style = "claude" => observer[s] \in {"none", "read", "gone"}
    /\ style # "copilot" => observer[s] # "summary"
    /\ \A i \in 1 .. heard[s] : said[s][i] # "binary"
    /\ Structured /\ Open(s) /\ observer[s] \in {"take", "wait", "end", "gone"} => Eof(s)

\* What codex reports of the exit status comes once, and last.
ExitInv ==
  style = "codex" => \A s \in Sessions :
    /\ observer[s] \notin {"end", "gone"} => ~ ok[s] /\ outcome[s] # "ok"
    /\ LET pending == channel[s] \o sending[s]
       IN \A i \in 1 .. Len(pending) : pending[i] \in {"end_ok", "end_failed"} =>
            i = Len(pending) /\ observer[s] \in {"end", "gone"}

Inductive ==
  /\ TypeOK /\ ChildInv /\ SuccessInv /\ ReadInv /\ ExitInv
  /\ SuccessEarned /\ TimedOutChildOwned /\ NothingDropped
=============================================================================
