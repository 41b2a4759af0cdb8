----------------------------- MODULE MessageBus -----------------------------
(***************************************************************************)
(* The message bus of divan-daemon over the tables messages, subscriptions *)
(* and file_touches: direct messages and scoped broadcasts sent through    *)
(* MCP, the alerts raised when two sessions touch the same file, and the   *)
(* turn-end hooks that read a batch, put it into an agent's context and    *)
(* confirm it.                                                             *)
(*                                                                         *)
(* As everywhere in the daemon, one database call is atomic and calls of   *)
(* different handlers interleave.  Hooks are processes of their own: they  *)
(* outlive the daemon, and may be killed by the tool that runs them.       *)
(* Summaries and payloads are left out; a message is its addressing.       *)
(***************************************************************************)
EXTENDS Integers, FiniteSets

CONSTANTS
  Agents,         \* agent ids
  Readers,        \* agents whose card has `read` (needed to subscribe)
  Broadcasters,   \* agents whose card has `broadcast`
  Nobody,         \* no recipient, no filter, no message: NULL
  Clients,        \* connections of MCP clients
  Sends,          \* the requests they make: [from, to, kind, task]
  Subscriptions,  \* the subscriptions they ask for: [agent, kind, task, from]
  Sessions,       \* sessions the scheduler observes
  Edits,          \* the <<agent, path>> pairs of their FileEdit events
  Hooks,          \* turn-end hook processes
  HookAgent,      \* the agent whose config runs each hook
  KillPoints,     \* where a hook process may be killed
  Window,         \* CONFLICT_WINDOW_MS
  MaxStamp,       \* bound on the clock
  MaxSeq,         \* bound on the messages numbered by one daemon
  MaxTouches,     \* bound on the table file_touches
  MaxBoots        \* bound on daemon starts

ASSUME BusAssumption ==
  /\ Readers \subseteq Agents
  /\ Broadcasters \subseteq Agents
  /\ Nobody \notin Agents /\ "divan" \notin Agents
  /\ \A s \in Sends : s.from \in Agents /\ s.to \in Agents \cup {Nobody}
  /\ \A s \in Subscriptions : s.agent \in Agents
  /\ Edits \subseteq Agents \X {e[2] : e \in Edits}
  /\ HookAgent \in [Hooks -> Agents]
  /\ KillPoints \subseteq {"confirm", "exit"}
  /\ Window \in Nat
  /\ MaxStamp \in Nat \ {0}
  /\ {MaxSeq, MaxTouches, MaxBoots} \subseteq Nat

VARIABLES
  clock,          \* now_ms()
  up,             \* the daemon is serving
  boots,          \* daemon starts so far
  since,          \* when the current daemon started
  seq,            \* MessageBus::seq, the number of the next message
  messages,       \* table messages
  subs,           \* table subscriptions
  touches,        \* table file_touches, with the order of insertion
  op,             \* the send_message request each client has in progress
  probe,          \* the record_touch call each session has in progress
  hook,           \* each hook process and the ids of its batch
  receipts,       \* confirmations on their way to the daemon
  context,        \* the message ids that entered each agent's context
  audience,       \* history: whom each broadcast had to reach, and whom it might
  settled         \* touches whose record_touch ran to its end

tables == <<messages, subs, touches>>
hooks == <<hook, receipts, context>>
vars == <<clock, up, boots, since, seq, tables, op, probe, hooks, audience, settled>>

-----------------------------------------------------------------------------
(* Rows.                                                                   *)

\* Mutant: an id is the counter alone.
SourceIdByCount(ts, n) == <<1, n, Nobody>>
\* "msg-<ms>-<n>", or "msg-<ms>-<n>#<target>" for a fan-out copy.
SourceId(ts, n) == <<ts, n, Nobody>>
CopyId(id, target) == <<id[1], id[2], target>>

\* validate_summary and the payload limit have passed when a message exists.
Message(id, origin, s) ==
  [id |-> id, origin |-> origin, from |-> s.from, to |-> s.to, kind |-> s.kind,
   task |-> s.task, delivered |-> FALSE]
Alert(id, to, path) ==
  Message(id, Nobody, [from |-> "divan", to |-> to, kind |-> "alert", task |-> path])

Ids(rows) == {m.id : m \in rows}
Clash(rows) == Ids(rows) \cap Ids(messages) # {}

\* Subscription::matches, with EventFilter::matches.
Matches(sub, m) ==
  /\ sub.kind \in {"*", m.kind}
  /\ sub.task \in {Nobody, m.task}
  /\ sub.from \in {Nobody, m.from}

\* Mutant: the filter of a subscription is not applied.
MatchSubscribersByKind(m) ==
  {s.agent : s \in {x \in subs : x.kind \in {"*", m.kind}}} \ {m.from}
MatchSubscribers(m) == {s.agent : s \in {x \in subs : Matches(x, m)}} \ {m.from}

\* MessageStore::fanout: the source row and one copy per target.
FanoutRows(m, targets) ==
  {m} \cup {[m EXCEPT !.id = CopyId(m.id, a), !.origin = m.id, !.to = a] :
              a \in targets \ {m.from}}

\* Mutant: a queue that starts empty with each daemon.
PendingSinceBoot(a) == {m \in messages : m.to = a /\ ~ m.delivered /\ m.id[1] >= since}
PendingFor(a) == {m \in messages : m.to = a /\ ~ m.delivered}

\* Source rows are never stamped.
MarkDelivered(ids) ==
  messages' = {IF m.id \in ids /\ m.to # Nobody THEN [m EXCEPT !.delivered = TRUE] ELSE m :
                 m \in messages}

\* ConflictStore::conflicting_agents.
\* Mutant: the window is not applied.
ConflictingEver(path, agent, ts) ==
  {t.agent : t \in {x \in touches : x.path = path /\ x.agent # agent}}
\* Mutant: a touch in the same millisecond does not count.
ConflictingBefore(path, agent, ts) ==
  {t.agent : t \in {x \in touches : /\ x.path = path /\ x.agent # agent
                                    /\ ts - Window <= x.ts /\ x.ts < ts}}
ConflictingAgents(path, agent, ts) ==
  {t.agent : t \in {x \in touches : /\ x.path = path /\ x.agent # agent
                                    /\ ts - Window <= x.ts /\ x.ts <= ts}}

-----------------------------------------------------------------------------
NoMessage == [at |-> "idle"]
NoProbe == [at |-> "idle"]
NoBatch == [at |-> "idle", ids |-> {}]

Init ==
  /\ clock = 1 /\ up = FALSE /\ boots = 0 /\ since = 1 /\ seq = 0
  /\ messages = {} /\ subs = {} /\ touches = {}
  /\ op = [c \in Clients |-> NoMessage]
  /\ probe = [f \in Sessions |-> NoProbe]
  /\ hook = [h \in Hooks |-> NoBatch]
  /\ receipts = {}
  /\ context = [a \in Agents |-> {}]
  /\ audience = {}
  /\ settled = {}

Tick ==
  /\ clock < MaxStamp
  /\ clock' = clock + 1
  /\ UNCHANGED <<up, boots, since, seq, tables, op, probe, hooks, audience, settled>>

\* A start takes longer than a millisecond; MessageBus::new counts from 0.
Boot ==
  /\ ~ up /\ boots < MaxBoots /\ clock < MaxStamp
  /\ up' = TRUE
  /\ boots' = boots + 1
  /\ clock' = clock + 1
  /\ since' = clock + 1
  /\ seq' = 0
  /\ UNCHANGED <<tables, op, probe, hooks, audience, settled>>

\* Requests in progress die with the daemon; rows and hook processes do not.
Crash ==
  /\ up
  /\ up' = FALSE
  /\ op' = [c \in Clients |-> NoMessage]
  /\ probe' = [f \in Sessions |-> NoProbe]
  /\ receipts' = {}
  /\ UNCHANGED <<clock, boots, since, seq, tables, hook, context, audience, settled>>

\* MessageBus::next_id.
\* Mutant: the counter is read and not advanced.
NextIdStuck == seq' = seq
NextId == seq' = seq + 1

-----------------------------------------------------------------------------
(* send_message and subscribe.                                             *)

\* History of a request: who has had a matching subscription all the time since it was
\* accepted, and who at some time, when the table of subscriptions becomes `now`.
Wanting(now, m) == {s.agent : s \in {x \in now : Matches(x, m)}}
Watch(r, now) ==
  IF r.at = "idle" THEN r
  ELSE [r EXCEPT !.always = @ \cap Wanting(now, r.msg), !.ever = @ \cup Wanting(now, r.msg)]

\* subscribe replaces the row with the same agent and event kind.
Subscribe(s) ==
  /\ up
  /\ s.agent \in Readers
  /\ subs' = {x \in subs : <<x.agent, x.kind>> # <<s.agent, s.kind>>} \cup {s}
  /\ op' = [c \in Clients |-> Watch(op[c], subs')]
  /\ UNCHANGED <<clock, up, boots, since, seq, messages, touches, probe, hooks, audience,
                 settled>>

Send(c, s) ==
  /\ up /\ op[c].at = "idle" /\ seq < MaxSeq
  /\ NextId
  /\ LET m == Message(SourceId(clock, seq), Nobody, s)
     IN op' = [op EXCEPT ![c] =
                [at |-> IF s.to = Nobody THEN "authorize" ELSE "insert", msg |-> m,
                 targets |-> {}, always |-> Wanting(subs, m), ever |-> Wanting(subs, m)]]
  /\ UNCHANGED <<clock, up, boots, since, tables, probe, hooks, audience, settled>>

InsertMessage(c) ==
  /\ op[c].at = "insert"
  /\ messages' = IF Clash({op[c].msg}) THEN messages ELSE messages \cup {op[c].msg}
  /\ op' = [op EXCEPT ![c] = NoMessage]
  /\ UNCHANGED <<clock, up, boots, since, seq, subs, touches, probe, hooks, audience,
                 settled>>

\* require_capability(Broadcast): without it the request is refused.
RequireCapability(c) ==
  /\ op[c].at = "authorize"
  /\ op' = [op EXCEPT ![c] = IF @.msg.from \in Broadcasters THEN [@ EXCEPT !.at = "match"]
                             ELSE NoMessage]
  /\ UNCHANGED <<clock, up, boots, since, seq, tables, probe, hooks, audience, settled>>

ResolveTargets(c) ==
  /\ op[c].at = "match"
  /\ op' = [op EXCEPT ![c].at = "fanout", ![c].targets = MatchSubscribers(op[c].msg)]
  /\ UNCHANGED <<clock, up, boots, since, seq, tables, probe, hooks, audience, settled>>

\* One transaction, for those who matched when ResolveTargets asked.
Fanout(c) ==
  /\ op[c].at = "fanout"
  /\ LET rows == FanoutRows(op[c].msg, op[c].targets)
     IN IF Clash(rows) THEN UNCHANGED <<messages, audience>>
        ELSE /\ messages' = messages \cup rows
             /\ audience' = audience \cup
                  {[id |-> op[c].msg.id, always |-> op[c].always, ever |-> op[c].ever]}
  /\ op' = [op EXCEPT ![c] = NoMessage]
  /\ UNCHANGED <<clock, up, boots, since, seq, subs, touches, probe, hooks, settled>>

-----------------------------------------------------------------------------
(* MessageBus::record_touch, on the FileEdit events of a session.          *)

\* The scheduler reads the clock before the call.
FileEdit(f, agent, path) ==
  /\ up /\ probe[f].at = "idle" /\ Cardinality(touches) < MaxTouches
  /\ probe' = [probe EXCEPT ![f] = [at |-> "touch", agent |-> agent, path |-> path,
                                    ts |-> clock, row |-> 0, alert |-> {}]]
  /\ UNCHANGED <<clock, up, boots, since, seq, tables, op, hooks, audience, settled>>

RecordTouch(f) ==
  /\ probe[f].at = "touch"
  /\ LET row == Cardinality(touches) + 1
     IN /\ touches' = touches \cup {[row |-> row, agent |-> probe[f].agent,
                                     path |-> probe[f].path, ts |-> probe[f].ts]}
        /\ probe' = [probe EXCEPT ![f].at = "query", ![f].row = row]
  /\ UNCHANGED <<clock, up, boots, since, seq, messages, subs, op, hooks, audience,
                 settled>>

\* Nobody else touched the file: done.  Otherwise they and the agent are alerted.
FindConflicts(f) ==
  /\ probe[f].at = "query"
  /\ LET p == probe[f]
         others == ConflictingAgents(p.path, p.agent, p.ts)
     IN IF others = {}
        THEN probe' = [probe EXCEPT ![f] = NoProbe] /\ settled' = settled \cup {p.row}
        ELSE /\ probe' = [probe EXCEPT ![f].at = "alert", ![f].alert = others \cup {p.agent}]
             /\ UNCHANGED settled
  /\ UNCHANGED <<clock, up, boots, since, seq, tables, op, hooks, audience>>

\* One alert, the agent's own last; a failed insertion ends the call.
RaiseAlert(f) ==
  /\ probe[f].at = "alert" /\ seq < MaxSeq
  /\ NextId
  /\ LET p == probe[f]
         others == p.alert \ {p.agent}
     IN \E to \in IF others = {} THEN {p.agent} ELSE others :
          LET m == Alert(SourceId(p.ts, seq), to, p.path)
          IN IF Clash({m})
             THEN probe' = [probe EXCEPT ![f] = NoProbe] /\ UNCHANGED <<messages, settled>>
             ELSE /\ messages' = messages \cup {m}
                  /\ IF p.alert = {to}
                     THEN /\ probe' = [probe EXCEPT ![f] = NoProbe]
                          /\ settled' = settled \cup {p.row}
                     ELSE /\ probe' = [probe EXCEPT ![f].alert = @ \ {to}]
                          /\ UNCHANGED settled
  /\ UNCHANGED <<clock, up, boots, since, subs, touches, op, hooks, audience>>

-----------------------------------------------------------------------------
(* The turn-end hook of an agent's tool (divan-turn-end.sh).               *)

\* Mutant: reading the batch marks it delivered.
TurnEndConfirms(h) ==
  /\ up /\ hook[h].at = "idle"
  /\ hook' = [hook EXCEPT ![h] = [at |-> "confirm", ids |-> Ids(PendingFor(HookAgent[h]))]]
  /\ MarkDelivered(Ids(PendingFor(HookAgent[h])))
  /\ UNCHANGED <<clock, up, boots, since, seq, subs, touches, op, probe, receipts, context,
                 audience, settled>>
\* hook.turn_end: read the batch and print it; without one the hook just exits.
TurnEnd(h) ==
  /\ up /\ hook[h].at = "idle"
  /\ hook' = [hook EXCEPT ![h] =
               LET pending == PendingFor(HookAgent[h])
               IN [at |-> IF pending = {} THEN "exit" ELSE "confirm", ids |-> Ids(pending)]]
  /\ UNCHANGED <<clock, up, boots, since, seq, tables, op, probe, receipts, context,
                 audience, settled>>

\* hook.confirm; the script goes on with or without a reply.
SendConfirm(h) ==
  /\ up /\ hook[h].at = "confirm"
  /\ receipts' = receipts \cup {hook[h].ids}
  /\ hook' = [hook EXCEPT ![h].at = "exit"]
  /\ UNCHANGED <<clock, up, boots, since, seq, tables, op, probe, context, audience, settled>>

\* The connection fails: the script ignores it.
SkipConfirm(h) ==
  /\ hook[h].at = "confirm"
  /\ hook' = [hook EXCEPT ![h].at = "exit"]
  /\ UNCHANGED <<clock, up, boots, since, seq, tables, op, probe, receipts, context,
                 audience, settled>>

\* MessageBus::confirm_delivery, whenever the request gets its turn.
ConfirmDelivery ==
  /\ up
  /\ \E ids \in receipts :
       /\ MarkDelivered(ids)
       /\ receipts' = receipts \ {ids}
  /\ UNCHANGED <<clock, up, boots, since, seq, subs, touches, op, probe, hook, context,
                 audience, settled>>

\* The tool takes what a hook printed into the context once the hook exits 0.
Exit(h) ==
  /\ hook[h].at = "exit"
  /\ context' = [context EXCEPT ![HookAgent[h]] = @ \cup hook[h].ids]
  /\ hook' = [hook EXCEPT ![h] = NoBatch]
  /\ UNCHANGED <<clock, up, boots, since, seq, tables, op, probe, receipts, audience, settled>>

HookKilled(h) ==
  /\ hook[h].at \in KillPoints
  /\ hook' = [hook EXCEPT ![h] = NoBatch]
  /\ UNCHANGED <<clock, up, boots, since, seq, tables, op, probe, receipts, context,
                 audience, settled>>

-----------------------------------------------------------------------------
ClientNext(c) ==
  \/ \E s \in Sends : Send(c, s)
  \/ InsertMessage(c) \/ RequireCapability(c) \/ ResolveTargets(c) \/ Fanout(c)

SessionNext(f) ==
  \/ \E e \in Edits : FileEdit(f, e[1], e[2])
  \/ RecordTouch(f) \/ FindConflicts(f) \/ RaiseAlert(f)

HookNext(h) ==
  \/ TurnEnd(h) \/ SendConfirm(h) \/ SkipConfirm(h) \/ Exit(h) \/ HookKilled(h)

Next ==
  \/ Tick \/ Boot \/ Crash \/ ConfirmDelivery
  \/ \E s \in Subscriptions : Subscribe(s)
  \/ \E c \in Clients : ClientNext(c)
  \/ \E f \in Sessions : SessionNext(f)
  \/ \E h \in Hooks : HookNext(h)

Spec == Init /\ [][Next]_vars

\* A hook script that has nothing left to do exits, and the daemon serves the
\* requests it accepted.  Nothing obliges a tool to run its hooks.
FairSpec ==
  Spec /\ WF_vars(ConfirmDelivery) /\ \A h \in Hooks : WF_vars(Exit(h))

-----------------------------------------------------------------------------
(* Properties.                                                             *)

Id == (1 .. MaxStamp) \X (0 .. MaxSeq) \X (Agents \cup {Nobody})
Row == [id : Id, origin : Id \cup {Nobody}, from : Agents \cup {"divan"},
        to : Agents \cup {Nobody}, kind : {"alert"} \cup {s.kind : s \in Sends},
        task : {s.task : s \in Sends} \cup {e[2] : e \in Edits}, delivered : BOOLEAN]
Touch == [row : Nat \ {0}, agent : Agents, path : {e[2] : e \in Edits}, ts : 1 .. MaxStamp]
Request == [at : {"insert", "authorize", "match", "fanout"}, msg : Row, targets : SUBSET Agents,
            always : SUBSET Agents, ever : SUBSET Agents]
Probe == [at : {"touch", "query", "alert"}, agent : Agents, path : {e[2] : e \in Edits},
          ts : 1 .. MaxStamp, row : Nat, alert : SUBSET Agents]

\* NULL is no message id.
ASSUME NobodyAssumption == Nobody \notin Id

TypeOK ==
  /\ clock \in 1 .. MaxStamp /\ since \in 1 .. clock
  /\ up \in BOOLEAN /\ boots \in 0 .. MaxBoots /\ seq \in 0 .. MaxSeq
  /\ messages \subseteq Row
  /\ subs \subseteq Subscriptions
  /\ touches \subseteq Touch
  /\ op \in [Clients -> {NoMessage} \cup Request]
  /\ probe \in [Sessions -> {NoProbe} \cup Probe]
  /\ hook \in [Hooks -> [at : {"idle", "confirm", "exit"}, ids : SUBSET Ids(messages)]]
  /\ receipts \subseteq SUBSET Ids(messages)
  /\ context \in [Agents -> SUBSET Ids(messages)]

\* Messages are numbered by the millisecond and a counter that restarts with the daemon
\* (next_id), and a session's alerts by the older millisecond of its touch: still no
\* message, fan-out copy or alert about to be inserted has the number of a row, so that
\* the primary key refuses none.  Across restarts this rests on Boot: a daemon takes
\* longer than a millisecond to start.
Taken(ts, n) == \E m \in messages : m.id[1] = ts /\ m.id[2] = n
NumbersFresh ==
  /\ \A c \in Clients : op[c].at # "idle" => ~ Taken(op[c].msg.id[1], op[c].msg.id[2])
  /\ \A f \in Sessions : probe[f].at = "alert" => ~ Taken(probe[f].ts, seq)

\* The subscriptions may change while a broadcast is authorized, matched and fanned out in
\* three calls (send).  Whoever had a matching subscription all that time has a copy, whoever
\* had none at any time has not, and the sender never has: no broadcast passes a subscriber
\* by or reaches a stranger, whether or not its answer arrives and the daemon survives it.
Reached(id) == {m.to : m \in {x \in messages : x.origin = id}}
SendersOf(id) == {m.from : m \in {x \in messages : x.id = id}}
BroadcastReaches ==
  \A r \in audience :
    /\ r.always \ SendersOf(r.id) \subseteq Reached(r.id)
    /\ Reached(r.id) \subseteq r.ever \ SendersOf(r.id)

\* "Confirm AFTER a successful injection so a failed inject leaves msgs pending"
\* (divan-turn-end.sh): a message stamped delivered is in its agent's context,
\* or in the hands of a hook that is about to put it there.
NothingSwallowed ==
  \A m \in messages : m.delivered =>
    \/ m.id \in context[m.to]
    \/ \E h \in Hooks : HookAgent[h] = m.to /\ hook[h].at = "exit" /\ m.id \in hook[h].ids

\* An alert of the daemon tells the truth: its recipient is one of two agents that
\* touched the file within the window, the later touch being the alert's.  (An agent
\* may send a message of that kind; it is not from "divan".)
NoFalseAlarm ==
  \A m \in messages : m.from = "divan" =>
    \E t, u \in touches :
      /\ t.path = m.task /\ u.path = m.task /\ t.agent # u.agent
      /\ m.to \in {t.agent, u.agent}
      /\ u.ts = m.id[1] /\ t.ts \in u.ts - Window .. u.ts

Alerted(a, path, ts) ==
  \E m \in messages : m.from = "divan" /\ m.to = a /\ m.task = path /\ m.id[1] = ts

\* Touches of one file by two agents within the window, recorded in the order
\* of their timestamps: once record_touch has returned, both were alerted.
ConflictsReported ==
  \A t, u \in touches :
    /\ t.path = u.path /\ t.agent # u.agent /\ t.row < u.row
    /\ t.ts \in u.ts - Window .. u.ts /\ u.row \in settled
    => Alerted(t.agent, u.path, u.ts) /\ Alerted(u.agent, u.path, u.ts)

\* An agent whose hook keeps running to its end sees all its mail, through
\* daemon restarts, killed hooks and confirmations that were not served.
Unseen(a) == Ids({m \in messages : m.to = a}) \ context[a]
TurnsDeliver ==
  \A h \in Hooks : []<><<Exit(h)>>_vars => []<>(Unseen(HookAgent[h]) = {})

-----------------------------------------------------------------------------
(* The inductive invariant behind the safety properties.                   *)

\* What this daemon has numbered is below its counter, and what earlier daemons
\* have numbered is older than it; requests in progress are its own.
NumberInv ==
  /\ \A m \in messages : m.id[1] <= clock /\ (m.id[1] >= since => m.id[2] < seq)
  /\ \A c \in Clients : op[c].at # "idle" =>
       up /\ op[c].msg.id[1] \in since .. clock /\ op[c].msg.id[2] < seq
  /\ \A c, d \in Clients : c # d /\ op[c].at # "idle" /\ op[d].at # "idle" =>
       op[c].msg.id[2] # op[d].msg.id[2]
  /\ \A f \in Sessions : probe[f].at # "idle" => up /\ probe[f].ts \in since .. clock

\* A message on its way is a source row, of its sender, not delivered yet; it has no
\* recipient exactly on the way to a fan-out.
RequestInv ==
  \A c \in Clients : op[c].at # "idle" =>
    LET m == op[c].msg IN
    /\ m.id[3] = Nobody /\ m.origin = Nobody /\ ~ m.delivered /\ m.from \in Agents
    /\ op[c].at # "insert" => m.to = Nobody

\* What is on record of the subscriptions frames the present ones, and the targets lie
\* in between.
WatchInv ==
  \A c \in Clients : op[c].at # "idle" =>
    LET r == op[c] IN
    /\ r.always \subseteq Wanting(subs, r.msg) /\ Wanting(subs, r.msg) \subseteq r.ever
    /\ r.at = "fanout" => /\ r.always \ {r.msg.from} \subseteq r.targets
                         /\ r.targets \subseteq r.ever \ {r.msg.from}

\* Ids are keys, origins and histories point to rows, and a source row is never stamped.
RowInv ==
  /\ \A m, n \in messages : m.id = n.id => m = n
  /\ \A r \in audience : r.id \in Ids(messages)
  /\ \A m \in messages : m.origin # Nobody => m.origin \in Ids(messages)
  /\ \A m \in messages : m.to = Nobody => ~ m.delivered

\* A hook has its agent's mail in its hands.
HookInv ==
  \A h \in Hooks, m \in messages : m.id \in hook[h].ids => m.to = HookAgent[h]

\* What a confirmation names has a recipient and has reached its context, or is about to.
InHand(m) ==
  \/ m.id \in context[m.to]
  \/ \E h \in Hooks : HookAgent[h] = m.to /\ hook[h].at = "exit" /\ m.id \in hook[h].ids
ReceiptInv ==
  \A ids \in receipts, m \in messages : m.id \in ids => m.to # Nobody /\ InHand(m)

\* Touches are numbered in the order of their insertion, settled ones among them.
TouchInv ==
  /\ IsFiniteSet(touches)
  /\ \A t \in touches : t.row <= Cardinality(touches)
  /\ \A t, u \in touches : t.row = u.row => t = u
  /\ \A r \in settled : \E t \in touches : t.row = r

\* The touch t conflicts with a later one, of an agent at a time.
ConflictsWith(t, path, agent, ts) ==
  t.path = path /\ t.agent # agent /\ ts - Window <= t.ts /\ t.ts <= ts

\* A record_touch call in progress has its row; while it raises alerts there is a
\* conflict, all it is going to alert are party to one, and whoever conflicts with it
\* and touched the file before it has been alerted or is going to be.
ProbeOK(p) ==
  /\ p.at # "touch" =>
       \E u \in touches : u.row = p.row /\ u.agent = p.agent /\ u.path = p.path /\ u.ts = p.ts
  /\ p.at = "alert" =>
       /\ p.agent \in p.alert
       /\ \E t \in touches : ConflictsWith(t, p.path, p.agent, p.ts)
       /\ \A a \in p.alert \ {p.agent} :
            \E t \in touches : t.agent = a /\ ConflictsWith(t, p.path, p.agent, p.ts)
       /\ \A t \in touches : t.row < p.row /\ ConflictsWith(t, p.path, p.agent, p.ts) =>
            t.agent \in p.alert \/ Alerted(t.agent, p.path, p.ts)
ProbeInv == \A f \in Sessions : probe[f].at # "idle" => ProbeOK(probe[f])

Inductive ==
  /\ TypeOK
  /\ NumberInv /\ NumbersFresh
  /\ RequestInv /\ WatchInv /\ RowInv /\ BroadcastReaches
  /\ HookInv
  /\ "exit" \notin KillPoints => NothingSwallowed /\ ReceiptInv
  /\ TouchInv /\ ProbeInv /\ NoFalseAlarm /\ ConflictsReported
=============================================================================
