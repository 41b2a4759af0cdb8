-------------------------- MODULE MessageBusProofs --------------------------
(***************************************************************************)
(* The safety properties of MessageBus, for any agents, clients, sessions  *)
(* and hooks, any requests and subscriptions, and any number of restarts.  *)
(***************************************************************************)
EXTENDS MessageBus, FiniteSetTheorems, TLAPS

-----------------------------------------------------------------------------
(* Lemmas about rows.                                                      *)

Paths == {e[2] : e \in Edits}

\* The same message, stamped or not.
Same(m, n) ==
  /\ n.id = m.id /\ n.origin = m.origin /\ n.from = m.from
  /\ n.to = m.to /\ n.kind = m.kind /\ n.task = m.task

\* Stamping keeps every row, and stamps rows with a recipient only.
LEMMA Marked ==
  ASSUME TypeOK, NEW ids, MarkDelivered(ids)
  PROVE  /\ messages' \subseteq Row
         /\ \A n \in messages' : \E m \in messages :
              Same(m, n) /\ (n.delivered => m.delivered \/ (m.id \in ids /\ m.to # Nobody))
         /\ \A m \in messages : \E n \in messages' : Same(m, n)
         /\ Ids(messages') = Ids(messages)
<1> DEFINE mark(m) == IF m.id \in ids /\ m.to # Nobody THEN [m EXCEPT !.delivered = TRUE] ELSE m
<1>1. messages' = {mark(m) : m \in messages} /\ messages \subseteq Row
  BY DEF MarkDelivered, TypeOK
<1>2. ASSUME NEW m \in messages
      PROVE  /\ mark(m) \in Row /\ Same(m, mark(m))
             /\ mark(m).delivered => m.delivered \/ (m.id \in ids /\ m.to # Nobody)
  BY <1>1 DEF Row, Same
<1>3. \A n \in messages' : \E m \in messages :
         Same(m, n) /\ (n.delivered => m.delivered \/ (m.id \in ids /\ m.to # Nobody))
  BY <1>1, <1>2
<1>4. \A m \in messages : \E n \in messages' : Same(m, n)
  BY <1>1, <1>2
<1>5. Ids(messages') = Ids(messages)
  BY <1>3, <1>4 DEF Ids, Same
<1> QED BY <1>1, <1>2, <1>3, <1>4, <1>5

\* What Send makes is a row.
LEMMA MessageIsRow ==
  ASSUME BusAssumption, NEW ts \in 1 .. MaxStamp, NEW n \in 0 .. MaxSeq, NEW s \in Sends
  PROVE  Message(SourceId(ts, n), Nobody, s) \in Row
<1>1. SourceId(ts, n) \in Id
  BY DEF SourceId, Id
<1>2. s.from \in Agents /\ s.to \in Agents \cup {Nobody}
  BY DEF BusAssumption
<1> QED BY <1>1, <1>2 DEF Message, Row

\* What RaiseAlert makes is a row, of the daemon.
LEMMA AlertIsRow ==
  ASSUME BusAssumption, NEW ts \in 1 .. MaxStamp, NEW n \in 0 .. MaxSeq, NEW a \in Agents,
         NEW path \in Paths
  PROVE  LET m == Alert(SourceId(ts, n), a, path) IN
         /\ m \in Row /\ m.id = <<ts, n, Nobody>> /\ m.from = "divan" /\ m.to = a
         /\ m.task = path /\ m.origin = Nobody /\ ~ m.delivered
<1>1. SourceId(ts, n) \in Id /\ SourceId(ts, n) = <<ts, n, Nobody>>
  BY DEF SourceId, Id
<1> QED BY <1>1 DEF Alert, Message, Row, Paths

\* A fan-out consists of the source and a copy for each target but the sender.
LEMMA FanoutIsRows ==
  ASSUME BusAssumption, NEW m \in Row, NEW T \in SUBSET Agents
  PROVE  /\ m \in FanoutRows(m, T) /\ FanoutRows(m, T) \subseteq Row
         /\ \A x \in FanoutRows(m, T) :
              \/ x = m
              \/ /\ x.to \in T \ {m.from} /\ x.id = <<m.id[1], m.id[2], x.to>>
                 /\ x.origin = m.id /\ x.delivered = m.delivered /\ x.from = m.from
         /\ \A a \in T \ {m.from} : \E x \in FanoutRows(m, T) : x.to = a /\ x.origin = m.id
<1> DEFINE copy(a) == [m EXCEPT !.id = CopyId(m.id, a), !.origin = m.id, !.to = a]
<1>1. ASSUME NEW a \in T \ {m.from}
      PROVE  /\ copy(a) \in Row /\ copy(a).to = a /\ copy(a).id = <<m.id[1], m.id[2], a>>
             /\ copy(a).origin = m.id /\ copy(a).delivered = m.delivered /\ copy(a).from = m.from
  <2>1. m.id \in Id /\ CopyId(m.id, a) \in Id
    BY DEF Row, Id, CopyId
  <2> QED BY <2>1 DEF Row, CopyId
<1>2. FanoutRows(m, T) = {m} \cup {copy(a) : a \in T \ {m.from}}
  BY DEF FanoutRows
<1> HIDE DEF copy
<1> QED BY <1>1, <1>2

-----------------------------------------------------------------------------
(* Types.                                                                  *)

\* A request or a call in progress has what its step needs.
LEMMA InProgress ==
  ASSUME TypeOK
  PROVE  /\ \A c \in Clients : op[c].at # "idle" => op[c] \in Request
         /\ \A f \in Sessions : probe[f].at # "idle" => probe[f] \in Probe
BY DEF TypeOK, NoMessage, NoProbe

\* The rows there are stay; what is added has the given ids.
LEMMA IdsGrow ==
  ASSUME NEW rows, messages' = messages \cup rows
  PROVE  Ids(messages) \subseteq Ids(messages)'
BY DEF Ids

LEMMA TypeStep == TypeOK /\ NumberInv /\ TouchInv /\ [Next]_vars => TypeOK'
<1> SUFFICES ASSUME TypeOK, NumberInv, TouchInv, [Next]_vars PROVE TypeOK'
  OBVIOUS
<1>1. CASE Tick
  BY <1>1, BusAssumption DEF Tick, TypeOK, tables, hooks
<1>2. CASE Boot
  BY <1>2, BusAssumption DEF Boot, TypeOK, tables, hooks
<1>3. CASE Crash
  BY <1>3 DEF Crash, TypeOK, tables, hooks
<1>4. ASSUME NEW s \in Subscriptions, Subscribe(s) PROVE TypeOK'
  <2>1. subs' \subseteq Subscriptions
    BY <1>4 DEF Subscribe, TypeOK
  <2>2. \A m : Wanting(subs', m) \subseteq Agents
    BY <2>1, BusAssumption DEF Wanting
  <2>3. \A r \in {NoMessage} \cup Request : Watch(r, subs') \in {NoMessage} \cup Request
    BY <2>2 DEF Watch, NoMessage, Request
  <2>4. op' \in [Clients -> {NoMessage} \cup Request]
    BY <1>4, <2>3 DEF Subscribe, TypeOK
  <2> QED BY <1>4, <2>1, <2>4 DEF Subscribe, TypeOK, hooks
<1>5. ASSUME NEW c \in Clients, NEW s \in Sends, Send(c, s) PROVE TypeOK'
  <2>1. clock \in 1 .. MaxStamp /\ seq \in 0 .. MaxSeq
    BY DEF TypeOK
  <2>2. Message(SourceId(clock, seq), Nobody, s) \in Row
    BY <2>1, MessageIsRow, BusAssumption
  <2>5. Wanting(subs, Message(SourceId(clock, seq), Nobody, s)) \subseteq Agents
    BY BusAssumption DEF Wanting, TypeOK
  <2>3. op' \in [Clients -> {NoMessage} \cup Request]
    BY <1>5, <2>2, <2>5 DEF Send, TypeOK, Request
  <2>4. seq' \in 0 .. MaxSeq
    BY <1>5, <2>1, BusAssumption DEF Send, NextId
  <2> QED BY <1>5, <2>3, <2>4 DEF Send, TypeOK, tables, hooks
<1>6. ASSUME NEW c \in Clients, InsertMessage(c) PROVE TypeOK'
  <2>1. op[c] \in Request
    BY <1>6, InProgress DEF InsertMessage
  <2>2. messages' \subseteq Row /\ Ids(messages) \subseteq Ids(messages)'
    BY <1>6, <2>1 DEF InsertMessage, TypeOK, Request, Ids
  <2>3. op' \in [Clients -> {NoMessage} \cup Request]
    BY <1>6 DEF InsertMessage, TypeOK
  <2> QED BY <1>6, <2>2, <2>3 DEF InsertMessage, TypeOK, hooks
<1>7. ASSUME NEW c \in Clients, RequireCapability(c) PROVE TypeOK'
  <2>1. op[c] \in Request
    BY <1>7, InProgress DEF RequireCapability
  <2>2. [op[c] EXCEPT !.at = "match"] \in Request
    BY <2>1 DEF Request
  <2>3. op' \in [Clients -> {NoMessage} \cup Request]
    BY <1>7, <2>2 DEF RequireCapability, TypeOK
  <2> QED BY <1>7, <2>3 DEF RequireCapability, TypeOK, tables, hooks
<1>8. ASSUME NEW c \in Clients, ResolveTargets(c) PROVE TypeOK'
  <2>1. op[c] \in Request
    BY <1>8, InProgress DEF ResolveTargets
  <2>2. MatchSubscribers(op[c].msg) \subseteq Agents
    BY BusAssumption DEF MatchSubscribers, TypeOK
  <2>3. [[op[c] EXCEPT !.at = "fanout"] EXCEPT !.targets = MatchSubscribers(op[c].msg)] \in Request
    BY <2>1, <2>2 DEF Request
  <2>4. op' \in [Clients -> {NoMessage} \cup Request]
    BY <1>8, <2>3 DEF ResolveTargets, TypeOK
  <2> QED BY <1>8, <2>4 DEF ResolveTargets, TypeOK, tables, hooks
<1>9. ASSUME NEW c \in Clients, Fanout(c) PROVE TypeOK'
  <2>1. op[c] \in Request
    BY <1>9, InProgress DEF Fanout
  <2>2. FanoutRows(op[c].msg, op[c].targets) \subseteq Row
    BY <2>1, FanoutIsRows, BusAssumption DEF Request
  <2>3. messages' \subseteq Row /\ Ids(messages) \subseteq Ids(messages)'
    BY <1>9, <2>2 DEF Fanout, TypeOK, Ids
  <2>4. op' \in [Clients -> {NoMessage} \cup Request]
    BY <1>9 DEF Fanout, TypeOK
  <2> QED BY <1>9, <2>3, <2>4 DEF Fanout, TypeOK, hooks
<1>10. ASSUME NEW f \in Sessions, NEW e \in Edits, FileEdit(f, e[1], e[2]) PROVE TypeOK'
  <2>1. e[1] \in Agents /\ e[2] \in {x[2] : x \in Edits}
    BY BusAssumption
  <2>2. probe' \in [Sessions -> {NoProbe} \cup Probe]
    BY <1>10, <2>1 DEF FileEdit, TypeOK, Probe
  <2> QED BY <1>10, <2>2 DEF FileEdit, TypeOK, tables, hooks
<1>11. ASSUME NEW f \in Sessions, RecordTouch(f) PROVE TypeOK'
  <2>1. probe[f] \in Probe
    BY <1>11, InProgress DEF RecordTouch
  <2>2. Cardinality(touches) \in Nat
    BY FS_CardinalityType DEF TouchInv
  <2>3. touches' \subseteq Touch
    BY <1>11, <2>1, <2>2 DEF RecordTouch, TypeOK, Probe, Touch
  <2> DEFINE row == Cardinality(touches) + 1
  <2>6. row \in Nat
    BY <2>2
  <2> HIDE DEF row
  <2>4. [[probe[f] EXCEPT !.at = "query"] EXCEPT !.row = row] \in Probe
    BY <2>1, <2>6 DEF Probe
  <2>5. probe' \in [Sessions -> {NoProbe} \cup Probe]
    BY <1>11, <2>4 DEF RecordTouch, TypeOK, row
  <2> QED BY <1>11, <2>3, <2>5 DEF RecordTouch, TypeOK, hooks
<1>12. ASSUME NEW f \in Sessions, FindConflicts(f) PROVE TypeOK'
  <2>1. probe[f] \in Probe
    BY <1>12, InProgress DEF FindConflicts
  <2> DEFINE others == ConflictingAgents(probe[f].path, probe[f].agent, probe[f].ts)
  <2>2. others \subseteq Agents
    BY DEF ConflictingAgents, TypeOK, Touch
  <2>3. [[probe[f] EXCEPT !.at = "alert"] EXCEPT !.alert = others \cup {probe[f].agent}] \in Probe
    BY <2>1, <2>2 DEF Probe
  <2>4. probe' \in [Sessions -> {NoProbe} \cup Probe]
    BY <1>12, <2>3 DEF FindConflicts, TypeOK
  <2> QED BY <1>12, <2>4 DEF FindConflicts, TypeOK, tables, hooks
<1>13. ASSUME NEW f \in Sessions, RaiseAlert(f) PROVE TypeOK'
  <2>1. probe[f] \in Probe /\ seq \in 0 .. MaxSeq
    BY <1>13, InProgress DEF RaiseAlert, TypeOK
  <2>2. PICK to \in IF probe[f].alert \ {probe[f].agent} = {} THEN {probe[f].agent}
                    ELSE probe[f].alert \ {probe[f].agent} :
          LET m == Alert(SourceId(probe[f].ts, seq), to, probe[f].path) IN
          /\ messages' = messages \/ messages' = messages \cup {m}
          /\ \/ probe' = [probe EXCEPT ![f] = NoProbe]
             \/ probe' = [probe EXCEPT ![f].alert = @ \ {to}]
    BY <1>13 DEF RaiseAlert
  <2>3. to \in Agents
    BY <2>1, <2>2 DEF Probe
  <2>4. Alert(SourceId(probe[f].ts, seq), to, probe[f].path) \in Row
    BY <2>1, <2>3, AlertIsRow, BusAssumption DEF Probe, Paths
  <2>5. messages' \subseteq Row /\ Ids(messages) \subseteq Ids(messages)'
    BY <2>2, <2>4 DEF TypeOK, Ids
  <2>6. [probe[f] EXCEPT !.alert = @ \ {to}] \in Probe
    BY <2>1 DEF Probe
  <2>7. probe' \in [Sessions -> {NoProbe} \cup Probe]
    BY <2>2, <2>6 DEF TypeOK
  <2>8. seq' \in 0 .. MaxSeq
    BY <1>13, <2>1, BusAssumption DEF RaiseAlert, NextId
  <2> QED BY <1>13, <2>5, <2>7, <2>8 DEF RaiseAlert, TypeOK, hooks
<1>14. ASSUME NEW h \in Hooks, TurnEnd(h) PROVE TypeOK'
  <2>1. Ids(PendingFor(HookAgent[h])) \subseteq Ids(messages)
    BY DEF Ids, PendingFor
  <2> QED BY <1>14, <2>1 DEF TurnEnd, TypeOK, tables
<1>15. ASSUME NEW h \in Hooks, SendConfirm(h) PROVE TypeOK'
  BY <1>15 DEF SendConfirm, TypeOK, tables
<1>16. ASSUME NEW h \in Hooks, SkipConfirm(h) PROVE TypeOK'
  BY <1>16 DEF SkipConfirm, TypeOK, tables
<1>17. CASE ConfirmDelivery
  <2>1. PICK ids \in receipts : MarkDelivered(ids) /\ receipts' = receipts \ {ids}
    BY <1>17 DEF ConfirmDelivery
  <2>2. messages' \subseteq Row /\ Ids(messages)' = Ids(messages)
    BY <2>1, Marked DEF Ids
  <2> QED BY <1>17, <2>1, <2>2 DEF ConfirmDelivery, TypeOK
<1>18. ASSUME NEW h \in Hooks, Exit(h) PROVE TypeOK'
  BY <1>18, BusAssumption DEF Exit, TypeOK, tables, NoBatch
<1>19. ASSUME NEW h \in Hooks, HookKilled(h) PROVE TypeOK'
  BY <1>19 DEF HookKilled, TypeOK, tables, NoBatch
<1>20. CASE UNCHANGED vars
  BY <1>20 DEF vars, tables, hooks, TypeOK
<1> QED BY <1>1, <1>2, <1>3, <1>4, <1>5, <1>6, <1>7, <1>8, <1>9, <1>10, <1>11, <1>12, <1>13,
           <1>14, <1>15, <1>16, <1>17, <1>18, <1>19, <1>20
        DEF Next, ClientNext, SessionNext, HookNext

-----------------------------------------------------------------------------
(* Numbers.                                                                *)

\* What neither the subscriptions nor the hooks' steps touch.
Still ==
  /\ UNCHANGED <<clock, up, since, seq, messages, touches, probe, audience, settled>>
  /\ \A c \in Clients : op'[c].at = op[c].at /\ op'[c].msg = op[c].msg

LEMMA StillSteps ==
  ASSUME TypeOK,
         \/ UNCHANGED vars
         \/ \E s \in Subscriptions : Subscribe(s)
         \/ \E h \in Hooks : HookNext(h)
  PROVE  Still
<1>1. ASSUME NEW s \in Subscriptions, Subscribe(s) PROVE Still
  <2>1. \A c \in Clients : op'[c].at = op[c].at /\ op'[c].msg = op[c].msg
    BY <1>1, InProgress DEF Subscribe, Watch, Request
  <2> QED BY <1>1, <2>1 DEF Still, Subscribe, hooks
<1>2. ASSUME NEW h \in Hooks, HookNext(h) PROVE Still
  BY <1>2 DEF Still, tables, HookNext, TurnEnd, SendConfirm, SkipConfirm, Exit, HookKilled
<1> QED BY <1>1, <1>2 DEF Still, vars, tables, hooks

\* What numbers are made of is natural numbers.
LEMMA NumbersAreNat ==
  ASSUME TypeOK
  PROVE  /\ clock \in Nat /\ since \in Nat /\ seq \in Nat
         /\ \A m \in messages : m.id[1] \in Nat /\ m.id[2] \in Nat
         /\ \A c \in Clients : op[c].at # "idle" => op[c].msg.id[1] \in Nat /\ op[c].msg.id[2] \in Nat
         /\ \A f \in Sessions : probe[f].at # "idle" => probe[f].ts \in Nat
<1>1. \A x \in Row : x.id[1] \in Nat /\ x.id[2] \in Nat
  BY DEF Row, Id
<1>2. clock \in Nat /\ since \in Nat /\ seq \in Nat /\ messages \subseteq Row
  BY BusAssumption DEF TypeOK
<1> QED BY <1>1, <1>2, InProgress DEF Request, Probe

\* The message of the request c, or copies of it, have the number of that request.
LEMMA InsertedNumbers ==
  ASSUME TypeOK, RequestInv, NEW c \in Clients, InsertMessage(c) \/ Fanout(c)
  PROVE  /\ op[c].at # "idle" /\ op' = [op EXCEPT ![c] = NoMessage]
         /\ \A m \in messages' : \/ m \in messages
                                 \/ m.id[1] = op[c].msg.id[1] /\ m.id[2] = op[c].msg.id[2]
<1>1. op[c].at # "idle" /\ op' = [op EXCEPT ![c] = NoMessage]
  BY DEF InsertMessage, Fanout
<1>2. op[c] \in Request
  BY <1>1, InProgress
<1>3. CASE InsertMessage(c)
  BY <1>1, <1>3 DEF InsertMessage
<1>4. CASE Fanout(c)
  <2>1. messages' \subseteq messages \cup FanoutRows(op[c].msg, op[c].targets)
    BY <1>4 DEF Fanout
  <2>2. \A x \in FanoutRows(op[c].msg, op[c].targets) :
          x = op[c].msg \/ x.id = <<op[c].msg.id[1], op[c].msg.id[2], x.to>>
    BY <1>2, FanoutIsRows, BusAssumption DEF Request
  <2> QED BY <1>1, <2>1, <2>2
<1> QED BY <1>3, <1>4

LEMMA NumberStep ==
  TypeOK /\ NumberInv /\ NumbersFresh /\ RequestInv /\ [Next]_vars => (NumberInv /\ NumbersFresh)'
<1> SUFFICES ASSUME TypeOK, NumberInv, NumbersFresh, RequestInv, [Next]_vars
             PROVE  (NumberInv /\ NumbersFresh)'
  OBVIOUS
<1>t. op \in [Clients -> {NoMessage} \cup Request] /\ probe \in [Sessions -> {NoProbe} \cup Probe]
  BY DEF TypeOK
<1> USE NumbersAreNat DEF NumberInv, NumbersFresh, Taken
<1>1. CASE Tick
  BY <1>1 DEF Tick, tables, hooks
<1>2. CASE Boot
  BY <1>2 DEF Boot, tables, hooks
<1>3. CASE Crash
  BY <1>3 DEF Crash, tables, hooks, NoMessage, NoProbe
<1>4. ASSUME NEW c \in Clients, NEW s \in Sends, Send(c, s) PROVE (NumberInv /\ NumbersFresh)'
  <2>1. op'[c].msg.id = <<clock, seq, Nobody>> /\ \A d \in Clients \ {c} : op'[d] = op[d]
    BY <1>4, <1>t DEF Send, Message, SourceId
  <2>2. seq' = seq + 1 /\ up /\ UNCHANGED <<clock, up, since, messages, probe>>
    BY <1>4 DEF Send, NextId, tables
  <2>3. since <= clock
    BY DEF TypeOK
  <2>4. \A d \in Clients : op'[d].at # "idle" => op'[d].msg.id[1] \in since .. clock /\ op'[d].msg.id[2] < seq + 1
    BY <2>1, <2>3
  <2>5. ~ Taken(clock, seq)
    BY <2>3
  <2> QED BY <2>1, <2>2, <2>4, <2>5
<1>5. ASSUME NEW c \in Clients, InsertMessage(c) \/ Fanout(c) PROVE (NumberInv /\ NumbersFresh)'
  <2>1. UNCHANGED <<clock, up, since, seq, probe>>
    BY <1>5 DEF InsertMessage, Fanout
  <2>2. op'[c] = NoMessage /\ \A d \in Clients \ {c} : op'[d] = op[d]
    BY <1>5, <1>t, InsertedNumbers
  <2>3. \A m \in messages' : \/ m \in messages
                             \/ m.id[1] = op[c].msg.id[1] /\ m.id[2] = op[c].msg.id[2]
    BY <1>5, InsertedNumbers
  <2>4. op[c].at # "idle"
    BY <1>5, InsertedNumbers
  <2> QED BY <2>1, <2>2, <2>3, <2>4 DEF NoMessage
<1>6. ASSUME NEW c \in Clients, RequireCapability(c) \/ ResolveTargets(c) PROVE (NumberInv /\ NumbersFresh)'
  <2>1. UNCHANGED <<clock, up, since, seq, probe, messages>>
    BY <1>6 DEF RequireCapability, ResolveTargets, tables
  <2>2. op[c].at # "idle" /\ op[c] \in Request
    BY <1>6, InProgress DEF RequireCapability, ResolveTargets
  <2>3. /\ op'[c].at = "idle" \/ op'[c].msg = op[c].msg
        /\ \A d \in Clients \ {c} : op'[d] = op[d]
    BY <1>6, <1>t, <2>2 DEF RequireCapability, ResolveTargets, NoMessage, Request
  <2> QED BY <2>1, <2>2, <2>3
<1>7. ASSUME NEW f \in Sessions, NEW e \in Edits, FileEdit(f, e[1], e[2]) PROVE (NumberInv /\ NumbersFresh)'
  <2>1. since <= clock
    BY DEF TypeOK
  <2>2. probe'[f].ts = clock /\ up /\ \A g \in Sessions \ {f} : probe'[g] = probe[g]
    BY <1>7, <1>t DEF FileEdit
  <2> QED BY <1>7, <2>1, <2>2 DEF FileEdit, tables
<1>8. ASSUME NEW f \in Sessions, RecordTouch(f) \/ FindConflicts(f) PROVE (NumberInv /\ NumbersFresh)'
  <2>1. UNCHANGED <<clock, up, since, seq, op, messages>>
    BY <1>8 DEF RecordTouch, FindConflicts, tables
  <2>2. probe[f].at # "idle" /\ probe[f] \in Probe
    BY <1>8, InProgress DEF RecordTouch, FindConflicts
  <2>3. /\ probe'[f].at = "idle" \/ probe'[f].ts = probe[f].ts
        /\ \A g \in Sessions \ {f} : probe'[g] = probe[g]
    BY <1>8, <1>t, <2>2 DEF RecordTouch, FindConflicts, NoProbe, Probe
  <2> QED BY <2>1, <2>2, <2>3
<1>9. ASSUME NEW f \in Sessions, RaiseAlert(f) PROVE (NumberInv /\ NumbersFresh)'
  <2>1. UNCHANGED <<clock, up, since, op>> /\ seq' = seq + 1
    BY <1>9 DEF RaiseAlert, NextId, tables
  <2>2. probe[f].at # "idle" /\ probe[f] \in Probe
    BY <1>9, InProgress DEF RaiseAlert
  <2>3. /\ probe'[f].at = "idle" \/ probe'[f].ts = probe[f].ts
        /\ \A g \in Sessions \ {f} : probe'[g] = probe[g]
    BY <1>9, <1>t, <2>2 DEF RaiseAlert, NoProbe, Probe
  <2>4. \A m \in messages' : m \in messages \/ m.id = <<probe[f].ts, seq, Nobody>>
    BY <1>9 DEF RaiseAlert, Alert, Message, SourceId
  <2> QED BY <2>1, <2>2, <2>3, <2>4
<1>10. CASE ConfirmDelivery
  <2>1. \A n \in messages' : \E m \in messages : n.id = m.id
    BY <1>10, Marked DEF ConfirmDelivery, Same
  <2> QED BY <1>10, <2>1 DEF ConfirmDelivery
<1>11. CASE Still
  BY <1>11 DEF Still
<1> QED BY <1>1, <1>2, <1>3, <1>4, <1>5, <1>6, <1>7, <1>8, <1>9, <1>10, <1>11, StillSteps
        DEF Next, ClientNext, SessionNext

-----------------------------------------------------------------------------
(* Requests and rows.                                                      *)

LEMMA RequestStep == TypeOK /\ RequestInv /\ [Next]_vars => RequestInv'
<1> SUFFICES ASSUME TypeOK, RequestInv, [Next]_vars PROVE RequestInv'
  OBVIOUS
<1>t. op \in [Clients -> {NoMessage} \cup Request]
  BY DEF TypeOK
<1> USE DEF RequestInv
<1>1. ASSUME NEW c \in Clients, NEW s \in Sends, Send(c, s) PROVE RequestInv'
  <2>1. /\ op'[c].msg = Message(<<clock, seq, Nobody>>, Nobody, s)
        /\ op'[c].at = (IF s.to = Nobody THEN "authorize" ELSE "insert")
        /\ \A d \in Clients \ {c} : op'[d] = op[d]
    BY <1>1, <1>t DEF Send, SourceId
  <2> QED BY <2>1, BusAssumption DEF Message
<1>2. ASSUME NEW c \in Clients, RequireCapability(c) \/ ResolveTargets(c) PROVE RequestInv'
  <2>1. op[c].at \notin {"idle", "insert"} /\ op[c] \in Request
    BY <1>2, InProgress DEF RequireCapability, ResolveTargets
  <2>2. /\ op'[c].at = "idle" \/ op'[c].msg = op[c].msg
        /\ \A d \in Clients \ {c} : op'[d] = op[d]
    BY <1>2, <1>t, <2>1 DEF RequireCapability, ResolveTargets, NoMessage, Request
  <2> QED BY <2>1, <2>2
<1>3. ASSUME NEW c \in Clients, InsertMessage(c) \/ Fanout(c) PROVE RequestInv'
  <2>1. op' = [op EXCEPT ![c] = NoMessage]
    BY <1>3 DEF InsertMessage, Fanout
  <2> QED BY <1>t, <2>1 DEF NoMessage
<1>4. CASE Crash
  BY <1>4 DEF Crash, NoMessage
<1>5. CASE op' = op
  BY <1>5
<1>6. Tick \/ Boot \/ ConfirmDelivery \/ (\E f \in Sessions : SessionNext(f)) => op' = op
  BY DEF Tick, Boot, ConfirmDelivery, SessionNext, FileEdit, RecordTouch, FindConflicts, RaiseAlert
<1>7. CASE Still
  BY <1>7 DEF Still
<1> QED BY <1>1, <1>2, <1>3, <1>4, <1>5, <1>6, <1>7, StillSteps DEF Next, ClientNext

\* Requests and subscriptions change in the clients' steps and in a crash only.
LEMMA SubsSteps ==
  ASSUME [Next]_vars
  PROVE  \/ \E c \in Clients : ClientNext(c)
         \/ \E s \in Subscriptions : Subscribe(s)
         \/ Crash
         \/ op' = op /\ subs' = subs
BY DEF Next, vars, tables, Tick, Boot, ConfirmDelivery, SessionNext, FileEdit, RecordTouch,
       FindConflicts, RaiseAlert, HookNext, TurnEnd, SendConfirm, SkipConfirm, Exit, HookKilled

\* The history of a request frames the subscriptions there are.
LEMMA WatchStep == TypeOK /\ WatchInv /\ [Next]_vars => WatchInv'
<1> SUFFICES ASSUME TypeOK, WatchInv, [Next]_vars PROVE WatchInv'
  OBVIOUS
<1>t. op \in [Clients -> {NoMessage} \cup Request]
  BY DEF TypeOK
<1> USE DEF WatchInv
<1>1. ASSUME NEW c \in Clients, NEW s \in Sends, Send(c, s) PROVE WatchInv'
  <2>1. PICK m : m = Message(SourceId(clock, seq), Nobody, s)
    OBVIOUS
  <2>2. PICK w : w = Wanting(subs, m)
    OBVIOUS
  <2>3. /\ op'[c].at \in {"authorize", "insert"} /\ op'[c].msg = m
        /\ op'[c].always = w /\ op'[c].ever = w
        /\ subs' = subs /\ \A d \in Clients \ {c} : op'[d] = op[d]
    BY <1>1, <1>t, <2>1, <2>2 DEF Send, tables
  <2> QED BY <2>2, <2>3 DEF Wanting
<1>2. ASSUME NEW c \in Clients, RequireCapability(c) PROVE WatchInv'
  <2>1. op[c].at # "idle" /\ op[c] \in Request
    BY <1>2, InProgress DEF RequireCapability
  <2>2. PICK q : q = [op[c] EXCEPT !.at = "match"]
    OBVIOUS
  <2>3. /\ q.at = "match" /\ q.msg = op[c].msg /\ q.always = op[c].always /\ q.ever = op[c].ever
        /\ op'[c] = q \/ op'[c].at = "idle"
        /\ subs' = subs /\ \A d \in Clients \ {c} : op'[d] = op[d]
    BY <1>2, <1>t, <2>1, <2>2 DEF RequireCapability, NoMessage, Request, tables
  <2> QED BY <2>1, <2>3 DEF Wanting
<1>3. ASSUME NEW c \in Clients, ResolveTargets(c) PROVE WatchInv'
  <2>1. op[c].at # "idle" /\ op[c] \in Request
    BY <1>3, InProgress DEF ResolveTargets
  <2>2. PICK q : q = [[op[c] EXCEPT !.at = "fanout"] EXCEPT !.targets = MatchSubscribers(op[c].msg)]
    OBVIOUS
  <2>3. /\ q.targets = MatchSubscribers(op[c].msg) /\ q.msg = op[c].msg
        /\ q.always = op[c].always /\ q.ever = op[c].ever
        /\ op'[c] = q /\ subs' = subs /\ \A d \in Clients \ {c} : op'[d] = op[d]
    BY <1>3, <1>t, <2>1, <2>2 DEF ResolveTargets, Request, tables
  <2>4. MatchSubscribers(op[c].msg) = Wanting(subs, op[c].msg) \ {op[c].msg.from}
    BY DEF MatchSubscribers, Wanting
  <2>5. /\ op[c].always \subseteq Wanting(subs, op[c].msg)
        /\ Wanting(subs, op[c].msg) \subseteq op[c].ever
    BY <2>1
  <2> QED BY <2>3, <2>4, <2>5 DEF Wanting
<1>4. ASSUME NEW c \in Clients, InsertMessage(c) \/ Fanout(c) PROVE WatchInv'
  <2>1. op' = [op EXCEPT ![c] = NoMessage] /\ subs' = subs
    BY <1>4 DEF InsertMessage, Fanout
  <2> QED BY <1>t, <2>1 DEF NoMessage, Wanting
<1>5. CASE Crash
  BY <1>5 DEF Crash, NoMessage
<1>6. ASSUME NEW s \in Subscriptions, Subscribe(s) PROVE WatchInv'
  <2>1. ASSUME NEW c \in Clients, op'[c].at # "idle"
        PROVE  /\ op[c].at # "idle" /\ op'[c].at = op[c].at /\ op'[c].msg = op[c].msg
               /\ op'[c].targets = op[c].targets
               /\ op'[c].always = op[c].always \cap Wanting(subs', op[c].msg)
               /\ op'[c].ever = op[c].ever \cup Wanting(subs', op[c].msg)
    <3>1. op'[c] = Watch(op[c], subs')
      BY <1>6 DEF Subscribe
    <3>2. op[c].at # "idle"
      BY <2>1, <3>1 DEF Watch
    <3>3. op[c] \in Request
      BY <3>2, InProgress
    <3> QED BY <3>1, <3>2, <3>3 DEF Watch, Request
  <2> QED BY <2>1 DEF Wanting
<1>7. CASE op' = op /\ subs' = subs
  BY <1>7 DEF Wanting
<1> HIDE DEF WatchInv
<1>8. CASE \E c \in Clients : ClientNext(c)
  BY <1>1, <1>2, <1>3, <1>4, <1>8 DEF ClientNext
<1> QED BY <1>5, <1>6, <1>7, <1>8, SubsSteps

\* The rows of a fan-out have different ids.
LEMMA FanoutKeys ==
  ASSUME BusAssumption, NEW m \in Row, m.id[3] = Nobody, NEW T \in SUBSET Agents
  PROVE  \A x, y \in FanoutRows(m, T) : x.id = y.id => x = y
<1> DEFINE copy(a) == [m EXCEPT !.id = CopyId(m.id, a), !.origin = m.id, !.to = a]
<1>1. \A a \in T : copy(a).id = <<m.id[1], m.id[2], a>>
  BY DEF Row, CopyId
<1>2. \A x \in FanoutRows(m, T) : x = m \/ \E a \in T : x = copy(a)
  BY DEF FanoutRows
<1>3. Nobody \notin T
  BY DEF BusAssumption
<1> HIDE DEF copy
<1>4. \A a \in T : copy(a).id[3] = a
  BY <1>1
<1> QED BY <1>2, <1>3, <1>4

\* New rows, none of them a copy of an old one, change nothing about earlier broadcasts.
LEMMA ReachStays ==
  ASSUME TypeOK, RowInv, BroadcastReaches, NEW rows, messages' = messages \cup rows,
         \A x \in rows : x.id \notin Ids(messages) /\ x.origin \notin Ids(messages)
  PROVE  \A r \in audience : /\ r.id \in Ids(messages')
                            /\ r.always \ SendersOf(r.id)' \subseteq Reached(r.id)'
                            /\ Reached(r.id)' \subseteq r.ever \ SendersOf(r.id)'
<1> SUFFICES ASSUME NEW r \in audience
             PROVE  /\ r.id \in Ids(messages')
                    /\ r.always \ SendersOf(r.id)' \subseteq Reached(r.id)'
                    /\ Reached(r.id)' \subseteq r.ever \ SendersOf(r.id)'
  OBVIOUS
<1>1. PICK id \in Ids(messages) : id = r.id
  BY DEF RowInv
<1>2. {x \in messages' : x.origin = id} = {x \in messages : x.origin = id}
  BY <1>1
<1>3. {x \in messages' : x.id = id} = {x \in messages : x.id = id}
  BY <1>1
<1>4. SendersOf(id)' = SendersOf(id) /\ Reached(id)' = Reached(id)
  BY <1>2, <1>3 DEF SendersOf, Reached
<1>5. id \in Ids(messages')
  BY <1>1 DEF Ids
<1> QED BY <1>1, <1>4, <1>5 DEF BroadcastReaches

\* NULL is no row's id.
LEMMA NobodyIsNoId == TypeOK => Nobody \notin Ids(messages)
BY NobodyAssumption DEF TypeOK, Row, Ids

\* Inserting a source row or an alert.
LEMMA RowAdded ==
  ASSUME TypeOK, RowInv, BroadcastReaches, NEW m \in Row, m.id \notin Ids(messages),
         m.origin = Nobody, ~ m.delivered, messages' = messages \cup {m}, audience' = audience
  PROVE  RowInv' /\ BroadcastReaches'
<1>1. \A r \in audience : /\ r.id \in Ids(messages')
                         /\ r.always \ SendersOf(r.id)' \subseteq Reached(r.id)'
                         /\ Reached(r.id)' \subseteq r.ever \ SendersOf(r.id)'
  <2>1. PICK rows : rows = {m}
    OBVIOUS
  <2>2. messages' = messages \cup rows
    BY <2>1
  <2>3. \A x \in rows : x.id \notin Ids(messages) /\ x.origin \notin Ids(messages)
    BY <2>1, NobodyIsNoId
  <2> QED BY <2>2, <2>3, ReachStays
<1>2. /\ \A x, y \in messages' : x.id = y.id => x = y
      /\ \A x \in messages' : x.origin # Nobody => x.origin \in Ids(messages')
      /\ \A x \in messages' : x.to = Nobody => ~ x.delivered
  BY DEF RowInv, Ids
<1>3. RowInv'
  BY <1>1, <1>2 DEF RowInv, Ids
<1>4. BroadcastReaches'
  BY <1>1 DEF BroadcastReaches, SendersOf, Reached
<1> QED BY <1>3, <1>4

\* A fan-out that meets no row of its ids.
LEMMA FanoutAdded ==
  ASSUME TypeOK, RowInv, BroadcastReaches, NEW m \in Row, NEW T \in SUBSET Agents, NEW A, NEW E,
         A \ {m.from} \subseteq T, T \subseteq E \ {m.from},
         m.id[3] = Nobody, m.origin = Nobody, m.to = Nobody, ~ m.delivered,
         ~ Clash(FanoutRows(m, T)), messages' = messages \cup FanoutRows(m, T),
         audience' = audience \cup {[id |-> m.id, always |-> A, ever |-> E]}
  PROVE  RowInv' /\ BroadcastReaches'
<1> DEFINE rows == FanoutRows(m, T)
<1>1. m \in rows /\ m.id \in Id /\ m.id # Nobody
  BY FanoutIsRows, NobodyAssumption, BusAssumption DEF Row
<1>2. \A x \in rows : x = m \/ (/\ x.to \in T \ {m.from} /\ x.origin = m.id
                                /\ ~ x.delivered /\ x.to # Nobody)
  BY FanoutIsRows, BusAssumption
<1>3. \A x \in rows : x.id \notin Ids(messages)
  BY DEF Clash, Ids
<1>4. \A x, y \in rows : x.id = y.id => x = y
  BY FanoutKeys, BusAssumption
<1>5. \A a \in T \ {m.from} : \E x \in rows : x.to = a /\ x.origin = m.id
  BY FanoutIsRows, BusAssumption
<1>6. messages' = messages \cup rows
  OBVIOUS
<1> HIDE DEF rows
<1>7. \A x \in rows : x.origin \notin Ids(messages)
  BY <1>1, <1>2, <1>3, NobodyIsNoId
<1>8. \A r \in audience : /\ r.id \in Ids(messages')
                         /\ r.always \ SendersOf(r.id)' \subseteq Reached(r.id)'
                         /\ Reached(r.id)' \subseteq r.ever \ SendersOf(r.id)'
  BY <1>3, <1>6, <1>7, ReachStays
<1>9. m.id \in Ids(messages')
  BY <1>1, <1>6 DEF Ids
<1>10. RowInv'
  <2>1. \A x, y \in messages' : x.id = y.id => x = y
    BY <1>3, <1>4, <1>6 DEF RowInv, Ids
  <2>2. \A x \in messages' : x.origin # Nobody => x.origin \in Ids(messages')
    BY <1>2, <1>6, <1>9 DEF RowInv, Ids
  <2>3. \A x \in messages' : x.to = Nobody => ~ x.delivered
    BY <1>2, <1>6 DEF RowInv
  <2>4. \A r \in audience' : r \in audience \/ r.id = m.id
    OBVIOUS
  <2>5. \A r \in audience' : r.id \in Ids(messages')
    BY <1>8, <1>9, <2>4
  <2> QED BY <2>1, <2>2, <2>3, <2>5 DEF RowInv, Ids
<1>11. SendersOf(m.id)' = {m.from}
  <2>1. {x \in messages' : x.id = m.id} = {m}
    BY <1>1, <1>3, <1>4, <1>6 DEF Ids
  <2> QED BY <2>1 DEF SendersOf
<1>12. Reached(m.id)' = T \ {m.from}
  <2>1. \A x \in messages : x.origin # m.id
    BY <1>1, <1>3 DEF RowInv
  <2>2. \A x \in messages' : x.origin = m.id => x.to \in T \ {m.from}
    BY <1>1, <1>2, <1>6, <2>1
  <2>3. \A a \in T \ {m.from} : \E x \in messages' : x.to = a /\ x.origin = m.id
    BY <1>5, <1>6
  <2> QED BY <2>2, <2>3 DEF Reached
<1>13. \A r \in audience' : /\ r.always \ SendersOf(r.id)' \subseteq Reached(r.id)'
                           /\ Reached(r.id)' \subseteq r.ever \ SendersOf(r.id)'
  BY <1>8, <1>11, <1>12
<1>14. BroadcastReaches'
  BY <1>13 DEF BroadcastReaches, SendersOf, Reached
<1> QED BY <1>10, <1>14

\* Stamping what was confirmed.
LEMMA RowsMarked ==
  ASSUME TypeOK, RowInv, BroadcastReaches, NEW ids, MarkDelivered(ids), audience' = audience
  PROVE  RowInv' /\ BroadcastReaches'
<1> DEFINE mark(m) == IF m.id \in ids /\ m.to # Nobody THEN [m EXCEPT !.delivered = TRUE] ELSE m
<1>1. messages' = {mark(m) : m \in messages}
  BY DEF MarkDelivered
<1>2. \A m \in messages : Same(m, mark(m)) /\ (m.to = Nobody => mark(m) = m)
  BY DEF TypeOK, Row, Same
<1> HIDE DEF mark
<1>3. Ids(messages') = Ids(messages)
  BY Marked
<1>4. RowInv'
  BY <1>1, <1>2, <1>3 DEF RowInv, Same, Ids
<1>5. \A id : SendersOf(id)' = SendersOf(id) /\ Reached(id)' = Reached(id)
  <2>1. \A id : SendersOf(id)' = SendersOf(id)
    BY <1>1, <1>2 DEF Same, SendersOf
  <2>2. \A id : Reached(id)' = Reached(id)
    BY <1>1, <1>2 DEF Same, Reached
  <2> QED BY <2>1, <2>2
<1>6. BroadcastReaches'
  BY <1>5 DEF BroadcastReaches, SendersOf, Reached
<1> QED BY <1>4, <1>6

LEMMA RowStep ==
  TypeOK /\ RequestInv /\ WatchInv /\ RowInv /\ BroadcastReaches /\ [Next]_vars
    => RowInv' /\ BroadcastReaches'
<1> SUFFICES ASSUME TypeOK, RequestInv, WatchInv, RowInv, BroadcastReaches, [Next]_vars
             PROVE  RowInv' /\ BroadcastReaches'
  OBVIOUS
<1>1. ASSUME messages' = messages, audience' = audience PROVE RowInv' /\ BroadcastReaches'
  BY <1>1 DEF RowInv, BroadcastReaches, Ids, SendersOf, Reached
<1>2. ASSUME NEW c \in Clients, InsertMessage(c) PROVE RowInv' /\ BroadcastReaches'
  <2>1. op[c] \in Request /\ op[c].at # "idle"
    BY <1>2, InProgress DEF InsertMessage
  <2>2. op[c].msg \in Row /\ op[c].msg.origin = Nobody /\ ~ op[c].msg.delivered
    BY <2>1 DEF RequestInv, Request
  <2>3. \/ messages' = messages
        \/ op[c].msg.id \notin Ids(messages) /\ messages' = messages \cup {op[c].msg}
    BY <1>2 DEF InsertMessage, Clash, Ids
  <2>4. audience' = audience
    BY <1>2 DEF InsertMessage
  <2> QED BY <1>1, <2>2, <2>3, <2>4, RowAdded
<1>3. ASSUME NEW c \in Clients, Fanout(c) PROVE RowInv' /\ BroadcastReaches'
  <2>1. op[c] \in Request /\ op[c].at = "fanout"
    BY <1>3, InProgress DEF Fanout
  <2>2. /\ op[c].msg \in Row /\ op[c].msg.origin = Nobody /\ ~ op[c].msg.delivered
        /\ op[c].msg.id[3] = Nobody /\ op[c].msg.to = Nobody /\ op[c].targets \in SUBSET Agents
    BY <2>1 DEF RequestInv, Request
  <2>3. \/ messages' = messages /\ audience' = audience
        \/ /\ ~ Clash(FanoutRows(op[c].msg, op[c].targets))
           /\ messages' = messages \cup FanoutRows(op[c].msg, op[c].targets)
           /\ audience' = audience \cup
                {[id |-> op[c].msg.id, always |-> op[c].always, ever |-> op[c].ever]}
    BY <1>3 DEF Fanout
  <2>4. /\ op[c].always \ {op[c].msg.from} \subseteq op[c].targets
        /\ op[c].targets \subseteq op[c].ever \ {op[c].msg.from}
    BY <2>1 DEF WatchInv
  <2> QED BY <1>1, <2>2, <2>3, <2>4, FanoutAdded
<1>4. ASSUME NEW f \in Sessions, RaiseAlert(f) PROVE RowInv' /\ BroadcastReaches'
  <2>1. probe[f] \in Probe /\ seq \in 0 .. MaxSeq
    BY <1>4, InProgress DEF RaiseAlert, TypeOK
  <2>2. PICK to \in probe[f].alert \cup {probe[f].agent} :
          LET m == Alert(SourceId(probe[f].ts, seq), to, probe[f].path) IN
          \/ messages' = messages
          \/ ~ Clash({m}) /\ messages' = messages \cup {m}
    BY <1>4 DEF RaiseAlert
  <2> DEFINE m == Alert(SourceId(probe[f].ts, seq), to, probe[f].path)
  <2>3. m \in Row /\ m.origin = Nobody /\ ~ m.delivered
    BY <2>1, <2>2, AlertIsRow, BusAssumption DEF Probe, Paths
  <2>4. messages' = messages \/ (m.id \notin Ids(messages) /\ messages' = messages \cup {m})
    BY <2>2 DEF Clash, Ids
  <2>5. audience' = audience
    BY <1>4 DEF RaiseAlert
  <2> HIDE DEF m
  <2> QED BY <1>1, <2>3, <2>4, <2>5, RowAdded
<1>5. CASE ConfirmDelivery
  <2>1. PICK ids \in receipts : MarkDelivered(ids)
    BY <1>5 DEF ConfirmDelivery
  <2> QED BY <1>5, <2>1, RowsMarked DEF ConfirmDelivery
<1>6. CASE Tick \/ Boot \/ Crash
  BY <1>1, <1>6 DEF Tick, Boot, Crash, tables
<1>7. ASSUME NEW c \in Clients, NEW s \in Sends, Send(c, s) PROVE RowInv' /\ BroadcastReaches'
  BY <1>1, <1>7 DEF Send, tables
<1>8. ASSUME NEW c \in Clients, RequireCapability(c) \/ ResolveTargets(c) PROVE RowInv' /\ BroadcastReaches'
  BY <1>1, <1>8 DEF RequireCapability, ResolveTargets, tables
<1>9. ASSUME NEW f \in Sessions, RecordTouch(f) \/ FindConflicts(f) PROVE RowInv' /\ BroadcastReaches'
  BY <1>1, <1>9 DEF RecordTouch, FindConflicts, tables
<1>10. ASSUME NEW f \in Sessions, NEW e \in Edits, FileEdit(f, e[1], e[2]) PROVE RowInv' /\ BroadcastReaches'
  BY <1>1, <1>10 DEF FileEdit, tables
<1>11. CASE Still
  BY <1>1, <1>11 DEF Still
<1> QED BY <1>2, <1>3, <1>4, <1>5, <1>6, <1>7, <1>8, <1>9, <1>10, <1>11, StillSteps
        DEF Next, ClientNext, SessionNext

-----------------------------------------------------------------------------
(* What a step does to the rows and to the mail.                           *)

\* Rows stay, stamped if they were confirmed; a new row has a new id and is not
\* delivered, and only record_touch speaks for the daemon.
RowsGrow ==
  /\ \A m \in messages : \E n \in messages' : Same(m, n)
  /\ \A n \in messages' :
       \/ \E m \in messages :
            Same(m, n) /\ (n.delivered => m.delivered \/ \E ids \in receipts : m.id \in ids)
       \/ /\ n.id \notin Ids(messages) /\ ~ n.delivered
          /\ n.from = "divan" => \E f \in Sessions : RaiseAlert(f)

LEMMA RowsChange == TypeOK /\ RequestInv /\ [Next]_vars => RowsGrow
<1> SUFFICES ASSUME TypeOK, RequestInv, [Next]_vars PROVE RowsGrow
  OBVIOUS
<1>1. ASSUME messages' = messages PROVE RowsGrow
  BY <1>1 DEF RowsGrow, Same
<1>2. ASSUME NEW rows, ~ Clash(rows), messages' = messages \cup rows,
             \A n \in rows : ~ n.delivered /\ (n.from = "divan" => \E f \in Sessions : RaiseAlert(f))
      PROVE  RowsGrow
  BY <1>2 DEF RowsGrow, Same, Clash, Ids
<1>3. ASSUME NEW c \in Clients, InsertMessage(c) \/ Fanout(c) PROVE RowsGrow
  <2>1. op[c] \in Request /\ op[c].at # "idle"
    BY <1>3, InProgress DEF InsertMessage, Fanout
  <2>2. op[c].msg \in Row /\ ~ op[c].msg.delivered /\ op[c].msg.from # "divan"
    BY <2>1, BusAssumption DEF RequestInv, Request
  <2>3. \A n \in FanoutRows(op[c].msg, op[c].targets) : ~ n.delivered /\ n.from # "divan"
    BY <2>1, <2>2, FanoutIsRows, BusAssumption DEF Request
  <2>4. CASE InsertMessage(c)
    BY <1>1, <1>2, <2>2, <2>4 DEF InsertMessage
  <2>5. CASE Fanout(c)
    BY <1>1, <1>2, <2>3, <2>5 DEF Fanout
  <2> QED BY <1>3, <2>4, <2>5
<1>4. ASSUME NEW f \in Sessions, RaiseAlert(f) PROVE RowsGrow
  <2>1. PICK to : LET m == Alert(SourceId(probe[f].ts, seq), to, probe[f].path) IN
          \/ messages' = messages
          \/ ~ Clash({m}) /\ messages' = messages \cup {m}
    BY <1>4 DEF RaiseAlert
  <2> DEFINE m == Alert(SourceId(probe[f].ts, seq), to, probe[f].path)
  <2>2. ~ m.delivered
    BY DEF Alert, Message
  <2>3. messages' = messages \/ (~ Clash({m}) /\ messages' = messages \cup {m})
    BY <2>1
  <2> HIDE DEF m
  <2> QED BY <1>1, <1>2, <1>4, <2>2, <2>3
<1>5. CASE ConfirmDelivery
  BY <1>5, Marked DEF ConfirmDelivery, RowsGrow
<1>6. CASE Tick \/ Boot \/ Crash
  BY <1>1, <1>6 DEF Tick, Boot, Crash, tables
<1>7. ASSUME NEW c \in Clients, NEW s \in Sends, Send(c, s) PROVE RowsGrow
  BY <1>1, <1>7 DEF Send, tables
<1>8. ASSUME NEW c \in Clients, RequireCapability(c) \/ ResolveTargets(c) PROVE RowsGrow
  BY <1>1, <1>8 DEF RequireCapability, ResolveTargets, tables
<1>9. ASSUME NEW f \in Sessions, RecordTouch(f) \/ FindConflicts(f) PROVE RowsGrow
  BY <1>1, <1>9 DEF RecordTouch, FindConflicts, tables
<1>10. ASSUME NEW f \in Sessions, NEW e \in Edits, FileEdit(f, e[1], e[2]) PROVE RowsGrow
  BY <1>1, <1>10 DEF FileEdit, tables
<1>11. CASE Still
  BY <1>1, <1>11 DEF Still
<1> QED BY <1>3, <1>4, <1>5, <1>6, <1>7, <1>8, <1>9, <1>10, <1>11, StillSteps
        DEF Next, ClientNext, SessionNext

\* The hooks and the mail change in the hooks' own steps only.
LEMMA HooksOnly ==
  ASSUME [Next]_vars
  PROVE  \/ \E h \in Hooks : HookNext(h)
         \/ ConfirmDelivery
         \/ UNCHANGED <<hook, context>> /\ receipts' \subseteq receipts
BY DEF Next, vars, hooks, Tick, Boot, Crash, Subscribe, ClientNext, Send, InsertMessage,
       RequireCapability, ResolveTargets, Fanout, SessionNext, FileEdit, RecordTouch,
       FindConflicts, RaiseAlert

LEMMA MailStep ==
  TypeOK /\ RequestInv /\ RowInv /\ HookInv /\ [Next]_vars => HookInv'
<1> SUFFICES ASSUME TypeOK, RequestInv, RowInv, HookInv, [Next]_vars PROVE HookInv'
  OBVIOUS
<1>t. /\ hook \in [Hooks -> [at : {"idle", "confirm", "exit"}, ids : SUBSET Ids(messages)]]
      /\ context \in [Agents -> SUBSET Ids(messages)]
      /\ HookAgent \in [Hooks -> Agents]
  BY BusAssumption DEF TypeOK
<1> USE DEF HookInv
<1>1. ASSUME hook' = hook, context' = context PROVE HookInv'
  <2>1. RowsGrow
    BY RowsChange
  <2> QED BY <1>1, <1>t, <2>1 DEF RowsGrow, Same
<1>2. ASSUME NEW h \in Hooks, TurnEnd(h) PROVE HookInv'
  <2>1. \A m \in messages : m.id \in Ids(PendingFor(HookAgent[h])) => m.to = HookAgent[h]
    BY DEF RowInv, Ids, PendingFor
  <2>2. hook'[h].ids = Ids(PendingFor(HookAgent[h])) /\ \A g \in Hooks \ {h} : hook'[g] = hook[g]
    BY <1>2, <1>t DEF TurnEnd
  <2>3. messages' = messages /\ context' = context
    BY <1>2 DEF TurnEnd, tables
  <2> QED BY <2>1, <2>2, <2>3
<1>3. ASSUME NEW h \in Hooks, SendConfirm(h) \/ SkipConfirm(h) PROVE HookInv'
  BY <1>3, <1>t DEF SendConfirm, SkipConfirm, tables
<1>4. ASSUME NEW h \in Hooks, Exit(h) PROVE HookInv'
  BY <1>4, <1>t DEF Exit, tables, NoBatch
<1>5. ASSUME NEW h \in Hooks, HookKilled(h) PROVE HookInv'
  BY <1>5, <1>t DEF HookKilled, tables, NoBatch
<1>6. ConfirmDelivery => hook' = hook /\ context' = context
  BY DEF ConfirmDelivery
<1> QED BY <1>1, <1>2, <1>3, <1>4, <1>5, <1>6, HooksOnly DEF HookNext

\* Unless the tool kills hooks between their confirmation and their exit, what is in
\* an agent's hands stays there until it is in the agent's context.
LEMMA InHandStays ==
  ASSUME TypeOK, "exit" \notin KillPoints, [Next]_vars, NEW m, NEW n, Same(m, n),
         m.to \in Agents, InHand(m)
  PROVE  InHand(n)'
<1>t. /\ hook \in [Hooks -> [at : {"idle", "confirm", "exit"}, ids : SUBSET Ids(messages)]]
      /\ context \in [Agents -> SUBSET Ids(messages)]
      /\ HookAgent \in [Hooks -> Agents]
  BY BusAssumption DEF TypeOK
<1> USE DEF Same, InHand
<1>1. CASE UNCHANGED <<hook, context>>
  BY <1>1
<1>2. ASSUME NEW h \in Hooks, TurnEnd(h) PROVE InHand(n)'
  <2>1. hook[h].at = "idle" /\ context' = context /\ \A g \in Hooks \ {h} : hook'[g] = hook[g]
    BY <1>2, <1>t DEF TurnEnd
  <2> QED BY <2>1
<1>3. ASSUME NEW h \in Hooks, SendConfirm(h) \/ SkipConfirm(h) PROVE InHand(n)'
  <2>1. /\ hook[h].at = "confirm" /\ context' = context
        /\ \A g \in Hooks \ {h} : hook'[g] = hook[g]
    BY <1>3, <1>t DEF SendConfirm, SkipConfirm
  <2> QED BY <2>1
<1>4. ASSUME NEW h \in Hooks, Exit(h) PROVE InHand(n)'
  <2>1. /\ context' = [context EXCEPT ![HookAgent[h]] = @ \cup hook[h].ids]
        /\ \A g \in Hooks \ {h} : hook'[g] = hook[g]
    BY <1>4, <1>t DEF Exit
  <2>2. HookAgent[h] \in Agents
    BY <1>t
  <2>3. context[m.to] \subseteq context'[m.to]
    BY <1>t, <2>1, <2>2
  <2>4. hook[h].ids \subseteq context'[HookAgent[h]]
    BY <1>t, <2>1, <2>2
  <2> QED BY <2>1, <2>3, <2>4
<1>5. ASSUME NEW h \in Hooks, HookKilled(h) PROVE InHand(n)'
  <2>1. /\ hook[h].at # "exit" /\ context' = context
        /\ \A g \in Hooks \ {h} : hook'[g] = hook[g]
    BY <1>5, <1>t DEF HookKilled
  <2> QED BY <2>1
<1>6. CASE ConfirmDelivery
  BY <1>6 DEF ConfirmDelivery
<1> QED BY <1>1, <1>2, <1>3, <1>4, <1>5, <1>6, HooksOnly DEF HookNext

LEMMA ReceiptStep ==
  ASSUME TypeOK, RequestInv, RowInv, HookInv, "exit" \notin KillPoints,
         NothingSwallowed, ReceiptInv, [Next]_vars
  PROVE  NothingSwallowed' /\ ReceiptInv'
<1>1. RowsGrow
  BY RowsChange
<1>2. \A m \in messages : m.to # Nobody => m.to \in Agents
  BY DEF TypeOK, Row
<1>3. \A ids \in receipts : ids \subseteq Ids(messages)
  BY DEF TypeOK
<1>4. ASSUME NEW n \in messages', n.delivered PROVE n.to # Nobody /\ InHand(n)'
  <2>1. PICK m \in messages :
          Same(m, n) /\ (m.delivered \/ \E ids \in receipts : m.id \in ids)
    BY <1>1, <1>4 DEF RowsGrow
  <2>2. m.to # Nobody /\ InHand(m)
    BY <2>1 DEF RowInv, NothingSwallowed, ReceiptInv, InHand
  <2> QED BY <1>2, <2>1, <2>2, InHandStays DEF Same
<1>5. NothingSwallowed'
  BY <1>4 DEF NothingSwallowed, InHand
<1>6. ASSUME NEW ids \in receipts, NEW n \in messages', n.id \in ids
      PROVE  n.to # Nobody /\ InHand(n)'
  <2>1. PICK m \in messages : Same(m, n)
    BY <1>1, <1>3, <1>6 DEF RowsGrow
  <2>2. m.to # Nobody /\ InHand(m)
    BY <1>6, <2>1 DEF ReceiptInv, Same
  <2> QED BY <1>2, <2>1, <2>2, InHandStays DEF Same
<1>7. ASSUME NEW h \in Hooks, SendConfirm(h) PROVE ReceiptInv'
  <2>1. /\ receipts' = receipts \cup {hook[h].ids} /\ messages' = messages
        /\ hook'[h].at = "exit" /\ hook'[h].ids = hook[h].ids
    BY <1>7 DEF SendConfirm, tables, TypeOK
  <2>2. \A m \in messages : m.id \in hook[h].ids => m.to = HookAgent[h] /\ m.to # Nobody
    BY BusAssumption DEF HookInv
  <2> QED BY <1>6, <2>1, <2>2 DEF ReceiptInv, InHand
<1>8. receipts' \subseteq receipts \/ \E h \in Hooks : SendConfirm(h)
  BY HooksOnly DEF HookNext, TurnEnd, SkipConfirm, Exit, HookKilled, ConfirmDelivery
<1>9. ReceiptInv'
  BY <1>6, <1>7, <1>8 DEF ReceiptInv
<1> QED BY <1>5, <1>9

-----------------------------------------------------------------------------
(* Touches and alerts.                                                     *)

\* Touches are recorded one at a time, for a session's call, with the next number.
LEMMA TouchesChange ==
  ASSUME [Next]_vars
  PROVE  \/ touches' = touches
         \/ \E f \in Sessions :
              /\ RecordTouch(f) /\ settled' = settled
              /\ touches' = touches \cup
                   {[row |-> Cardinality(touches) + 1, agent |-> probe[f].agent,
                     path |-> probe[f].path, ts |-> probe[f].ts]}
BY DEF Next, vars, tables, Tick, Boot, Crash, Subscribe, ClientNext, Send, InsertMessage,
       RequireCapability, ResolveTargets, Fanout, SessionNext, FileEdit, RecordTouch,
       FindConflicts, RaiseAlert, ConfirmDelivery, HookNext, TurnEnd, SendConfirm, SkipConfirm,
       Exit, HookKilled

\* A touch is settled when its call finds nobody else, or has raised its last alert.
LEMMA SettledChange ==
  ASSUME [Next]_vars
  PROVE  \/ settled' = settled
         \/ \E f \in Sessions : /\ FindConflicts(f) \/ RaiseAlert(f)
                                /\ settled' = settled \cup {probe[f].row}
BY DEF Next, vars, tables, Tick, Boot, Crash, Subscribe, ClientNext, Send, InsertMessage,
       RequireCapability, ResolveTargets, Fanout, SessionNext, FileEdit, RecordTouch,
       FindConflicts, RaiseAlert, ConfirmDelivery, HookNext, TurnEnd, SendConfirm, SkipConfirm,
       Exit, HookKilled

LEMMA TouchStep == TypeOK /\ TouchInv /\ ProbeInv /\ [Next]_vars => TouchInv'
<1> SUFFICES ASSUME TypeOK, TouchInv, ProbeInv, [Next]_vars PROVE TouchInv'
  OBVIOUS
<1>1. Cardinality(touches) \in Nat /\ \A t \in touches : t.row \in Nat
  BY FS_CardinalityType DEF TouchInv, TypeOK, Touch
<1>2. ASSUME NEW t, t.row = Cardinality(touches) + 1, touches' = touches \cup {t}, settled' = settled
      PROVE  TouchInv'
  <2>1. t \notin touches
    BY <1>1, <1>2 DEF TouchInv
  <2>2. IsFiniteSet(touches') /\ Cardinality(touches') = Cardinality(touches) + 1
    BY <1>2, <2>1, FS_AddElement DEF TouchInv
  <2>3. \A u \in touches' : u.row <= Cardinality(touches')
    BY <1>1, <1>2, <2>2 DEF TouchInv
  <2>4. \A u, v \in touches' : u.row = v.row => u = v
    BY <1>1, <1>2 DEF TouchInv
  <2> QED BY <1>2, <2>2, <2>3, <2>4 DEF TouchInv
<1>3. ASSUME touches' = touches PROVE TouchInv'
  <2>1. ASSUME NEW f \in Sessions, FindConflicts(f) \/ RaiseAlert(f)
        PROVE  \E u \in touches : u.row = probe[f].row
    BY <2>1 DEF FindConflicts, RaiseAlert, ProbeInv, ProbeOK
  <2>2. \A r \in settled' : \E u \in touches : u.row = r
    BY <2>1, SettledChange DEF TouchInv
  <2> QED BY <1>3, <2>2 DEF TouchInv
<1>4. ASSUME NEW f \in Sessions, settled' = settled,
             touches' = touches \cup {[row |-> Cardinality(touches) + 1, agent |-> probe[f].agent,
                                       path |-> probe[f].path, ts |-> probe[f].ts]}
      PROVE  TouchInv'
  <2> DEFINE t == [row |-> Cardinality(touches) + 1, agent |-> probe[f].agent,
                   path |-> probe[f].path, ts |-> probe[f].ts]
  <2>1. t.row = Cardinality(touches) + 1
    OBVIOUS
  <2>2. touches' = touches \cup {t}
    BY <1>4
  <2> HIDE DEF t
  <2> QED BY <1>2, <1>4, <2>1, <2>2
<1> QED BY <1>3, <1>4, TouchesChange

\* An alert that was raised stays on record.
LEMMA AlertedStays ==
  ASSUME RowsGrow, NEW a, NEW path, NEW ts, Alerted(a, path, ts)
  PROVE  Alerted(a, path, ts)'
BY DEF RowsGrow, Same, Alerted

\* What holds of a call in progress is not disturbed by what others do: touches that
\* are added have later numbers.
LEMMA ProbeStays ==
  ASSUME TypeOK, TouchInv, RowsGrow, touches \subseteq touches', NEW p \in Probe, ProbeOK(p),
         \A t \in touches' \ touches : t.row = Cardinality(touches) + 1
  PROVE  ProbeOK(p)'
<1>1. p.at # "touch" => p.row <= Cardinality(touches)
  BY DEF ProbeOK, TouchInv
<1>2. Cardinality(touches) \in Nat /\ \A t \in touches : t.row \in Nat
  BY FS_CardinalityType DEF TouchInv, TypeOK, Touch
<1>3. p.at # "touch" =>
        \E u \in touches' : u.row = p.row /\ u.agent = p.agent /\ u.path = p.path /\ u.ts = p.ts
  BY DEF ProbeOK
<1>4. ASSUME p.at = "alert"
      PROVE  /\ p.agent \in p.alert
             /\ \E t \in touches' : ConflictsWith(t, p.path, p.agent, p.ts)
             /\ \A a \in p.alert \ {p.agent} :
                  \E t \in touches' : t.agent = a /\ ConflictsWith(t, p.path, p.agent, p.ts)
  BY <1>4 DEF ProbeOK
<1>5. ASSUME p.at = "alert", NEW t \in touches', t.row < p.row, ConflictsWith(t, p.path, p.agent, p.ts)
      PROVE  t.agent \in p.alert \/ Alerted(t.agent, p.path, p.ts)'
  <2>1. t \in touches
    BY <1>1, <1>2, <1>5 DEF Probe
  <2> QED BY <1>5, <2>1, AlertedStays DEF ProbeOK
<1> QED BY <1>3, <1>4, <1>5 DEF ProbeOK, ConflictsWith, Alerted

\* The call p of session f raises the alert m to one agent, its own agent last; what
\* becomes of the call.
Raises(f, p, to, m) ==
  /\ to = p.agent => p.alert \ {p.agent} = {}
  /\ m.from = "divan" /\ m.to = to /\ m.task = p.path /\ m.id = <<p.ts, seq, Nobody>>
  /\ p.at = "alert" /\ touches' = touches
  /\ \/ /\ probe' = [probe EXCEPT ![f] = NoProbe]
        /\ messages' = messages /\ settled' = settled
     \/ /\ messages' = messages \cup {m}
        /\ \/ /\ p.alert = {to} /\ settled' = settled \cup {p.row}
              /\ probe' = [probe EXCEPT ![f] = NoProbe]
           \/ /\ p.alert # {to} /\ settled' = settled
              /\ probe' = [probe EXCEPT ![f] = [p EXCEPT !.alert = p.alert \ {to}]]

LEMMA AlertRaised ==
  ASSUME TypeOK, NEW f \in Sessions, RaiseAlert(f)
  PROVE  \E to \in probe[f].alert \cup {probe[f].agent}, m \in Row : Raises(f, probe[f], to, m)
<1> DEFINE alert(to) == Alert(SourceId(probe[f].ts, seq), to, probe[f].path)
<1>1. probe[f] \in Probe /\ seq \in 0 .. MaxSeq /\ probe[f].at = "alert" /\ touches' = touches
  BY InProgress DEF RaiseAlert, TypeOK
<1>2. \A to \in probe[f].alert \cup {probe[f].agent} :
        /\ alert(to) \in Row /\ alert(to).id = <<probe[f].ts, seq, Nobody>>
        /\ alert(to).from = "divan" /\ alert(to).to = to /\ alert(to).task = probe[f].path
  BY <1>1, AlertIsRow, BusAssumption DEF Probe, Paths
<1>3. PICK to \in IF probe[f].alert \ {probe[f].agent} = {} THEN {probe[f].agent}
                  ELSE probe[f].alert \ {probe[f].agent} :
        \/ /\ probe' = [probe EXCEPT ![f] = NoProbe]
           /\ messages' = messages /\ settled' = settled
        \/ /\ messages' = messages \cup {alert(to)}
           /\ \/ /\ probe[f].alert = {to} /\ settled' = settled \cup {probe[f].row}
                 /\ probe' = [probe EXCEPT ![f] = NoProbe]
              \/ /\ probe[f].alert # {to} /\ settled' = settled
                 /\ probe' = [probe EXCEPT ![f] = [probe[f] EXCEPT !.alert = probe[f].alert \ {to}]]
  BY DEF RaiseAlert
<1>4. to \in probe[f].alert \cup {probe[f].agent}
  BY <1>3
<1>5. to = probe[f].agent => probe[f].alert \ {probe[f].agent} = {}
  BY <1>3
<1> HIDE DEF alert
<1> QED BY <1>1, <1>2, <1>3, <1>4, <1>5 DEF Raises

\* Every step leaves the rows and touches that the calls in progress rely on.
LEMMA TouchesGrow ==
  ASSUME [Next]_vars
  PROVE  /\ touches \subseteq touches'
         /\ \A t \in touches' \ touches : t.row = Cardinality(touches) + 1
BY TouchesChange

LEMMA ProbeStep ==
  TypeOK /\ RequestInv /\ TouchInv /\ ProbeInv /\ [Next]_vars => ProbeInv'
<1> SUFFICES ASSUME TypeOK, RequestInv, TouchInv, ProbeInv, [Next]_vars PROVE ProbeInv'
  OBVIOUS
<1>t. probe \in [Sessions -> {NoProbe} \cup Probe]
  BY DEF TypeOK
<1>g. RowsGrow
  BY RowsChange
<1>1. \A p \in Probe : ProbeOK(p) => ProbeOK(p)'
  BY <1>g, TouchesGrow, ProbeStays
<1>2. ASSUME NEW g \in Sessions, probe'[g] = probe[g] \/ probe'[g].at = "idle" \/ ProbeOK(probe[g])',
             probe'[g].at # "idle"
      PROVE  ProbeOK(probe[g])'
  <2>1. CASE probe'[g] = probe[g]
    <3>1. PICK p \in Probe : p = probe[g] /\ ProbeOK(p)
      BY <1>2, <2>1, InProgress DEF ProbeInv
    <3>2. ProbeOK(p)' /\ p = probe'[g]
      BY <1>1, <2>1, <3>1
    <3> QED BY <3>2
  <2> QED BY <1>2, <2>1
<1>3. ASSUME \A g \in Sessions : probe'[g] = probe[g] \/ probe'[g].at = "idle" \/ ProbeOK(probe[g])'
      PROVE  ProbeInv'
  BY <1>2, <1>3 DEF ProbeInv
<1>4. ASSUME NEW f \in Sessions, NEW q, probe' = [probe EXCEPT ![f] = q], q.at = "idle" \/ ProbeOK(q)'
      PROVE  ProbeInv'
  <2>1. probe'[f] = q /\ \A g \in Sessions \ {f} : probe'[g] = probe[g]
    BY <1>4, <1>t
  <2>2. probe'[f].at = "idle" \/ ProbeOK(probe[f])'
    BY <1>4, <2>1
  <2> QED BY <1>3, <2>1, <2>2
<1>5. ASSUME NEW f \in Sessions, NEW e \in Edits, FileEdit(f, e[1], e[2]) PROVE ProbeInv'
  <2>1. probe'[f].at = "touch" /\ \A g \in Sessions \ {f} : probe'[g] = probe[g]
    BY <1>5, <1>t DEF FileEdit
  <2>2. ProbeOK(probe[f])'
    BY <2>1 DEF ProbeOK
  <2> QED BY <1>3, <2>1, <2>2
<1>6. ASSUME NEW f \in Sessions, RecordTouch(f) PROVE ProbeInv'
  <2>1. PICK p \in Probe, row \in Nat : p = probe[f] /\ row = Cardinality(touches) + 1
    BY <1>6, InProgress, FS_CardinalityType DEF RecordTouch, TouchInv
  <2>2. PICK q : q = [[p EXCEPT !.at = "query"] EXCEPT !.row = row]
    OBVIOUS
  <2>3. probe' = [probe EXCEPT ![f] = q]
    BY <1>6, <2>1, <2>2 DEF RecordTouch
  <2>4. [row |-> row, agent |-> p.agent, path |-> p.path, ts |-> p.ts] \in touches'
    BY <1>6, <2>1 DEF RecordTouch
  <2>5. q.at = "query" /\ q.row = row /\ q.agent = p.agent /\ q.path = p.path /\ q.ts = p.ts
    BY <2>2 DEF Probe
  <2>6. ProbeOK(q)'
    BY <2>4, <2>5 DEF ProbeOK
  <2> QED BY <1>4, <2>3, <2>6
<1>7. ASSUME NEW f \in Sessions, FindConflicts(f) PROVE ProbeInv'
  <2>1. PICK p \in Probe : p = probe[f] /\ p.at = "query" /\ ProbeOK(p)
    BY <1>7, InProgress DEF FindConflicts, ProbeInv
  <2>2. PICK others : others = ConflictingAgents(p.path, p.agent, p.ts)
    OBVIOUS
  <2>3. PICK q : q = [[p EXCEPT !.at = "alert"] EXCEPT !.alert = others \cup {p.agent}]
    OBVIOUS
  <2>4. /\ touches' = touches
        /\ \/ probe' = [probe EXCEPT ![f] = NoProbe]
           \/ others # {} /\ probe' = [probe EXCEPT ![f] = q]
    BY <1>7, <2>1, <2>2, <2>3 DEF FindConflicts, tables
  <2>5. /\ q.at = "alert" /\ q.alert = others \cup {p.agent} /\ q.row = p.row
        /\ q.agent = p.agent /\ q.path = p.path /\ q.ts = p.ts
    BY <2>3 DEF Probe
  <2>6. \A t \in touches : ConflictsWith(t, p.path, p.agent, p.ts) => t.agent \in others
    BY <2>2 DEF ConflictingAgents, ConflictsWith
  <2>7. \A a \in others : \E t \in touches : t.agent = a /\ ConflictsWith(t, p.path, p.agent, p.ts)
    BY <2>2 DEF ConflictingAgents, ConflictsWith
  <2>8. \E u \in touches : u.row = p.row /\ u.agent = p.agent /\ u.path = p.path /\ u.ts = p.ts
    BY <2>1 DEF ProbeOK
  <2>9. others # {} => ProbeOK(q)'
    BY <2>4, <2>5, <2>6, <2>7, <2>8 DEF ProbeOK, ConflictsWith
  <2> QED BY <1>4, <2>4, <2>9 DEF NoProbe
<1>8. ASSUME NEW f \in Sessions, RaiseAlert(f) PROVE ProbeInv'
  <2>1. PICK p \in Probe : p = probe[f] /\ ProbeOK(p)
    BY <1>8, InProgress DEF RaiseAlert, ProbeInv
  <2>2. PICK to \in p.alert \cup {p.agent}, m \in Row : Raises(f, p, to, m)
    BY <1>8, <2>1, AlertRaised
  <2>3. PICK q : q = [p EXCEPT !.alert = p.alert \ {to}]
    OBVIOUS
  <2>4. /\ q.at = "alert" /\ q.alert = p.alert \ {to} /\ q.row = p.row
        /\ q.agent = p.agent /\ q.path = p.path /\ q.ts = p.ts
    BY <2>2, <2>3 DEF Probe, Raises
  <2>5. ProbeOK(p)'
    BY <1>1, <2>1
  <2>6. ASSUME messages' = messages \cup {m}, p.alert # {to} PROVE ProbeOK(q)'
    <3>1. to # p.agent
      BY <2>1, <2>2, <2>6 DEF ProbeOK, Raises
    <3>2. Alerted(to, p.path, p.ts)'
      BY <2>2, <2>6 DEF Alerted, Raises
    <3> QED BY <2>2, <2>4, <2>5, <3>1, <3>2 DEF ProbeOK, ConflictsWith, Raises
  <2> QED BY <1>4, <2>2, <2>3, <2>6 DEF NoProbe, Raises
<1>9. CASE Crash
  BY <1>3, <1>9 DEF Crash, NoProbe
<1>10. CASE probe' = probe
  BY <1>3, <1>10
<1>11. Tick \/ Boot \/ ConfirmDelivery \/ (\E c \in Clients : ClientNext(c)) => probe' = probe
  BY DEF Tick, Boot, ConfirmDelivery, ClientNext, Send, InsertMessage, RequireCapability,
         ResolveTargets, Fanout
<1> QED BY <1>5, <1>6, <1>7, <1>8, <1>9, <1>10, <1>11, StillSteps DEF Next, SessionNext, Still

\* What FindConflicts or RaiseAlert settles: whoever conflicts with the touch and
\* touched the file before it is on record as alerted, and so is its agent.
LEMMA Reported ==
  ASSUME TypeOK, RequestInv, TouchInv, ProbeInv, [Next]_vars, NEW f \in Sessions,
         FindConflicts(f) \/ RaiseAlert(f), settled' = settled \cup {probe[f].row},
         NEW t \in touches, NEW u \in touches, u.row = probe[f].row, t.path = u.path,
         t.agent # u.agent, t.row < u.row, t.ts \in u.ts - Window .. u.ts,
         probe[f].row \notin settled
  PROVE  Alerted(t.agent, u.path, u.ts)' /\ Alerted(u.agent, u.path, u.ts)'
<1>1. PICK p \in Probe : p = probe[f] /\ ProbeOK(p) /\ p.at # "touch"
  BY InProgress DEF FindConflicts, RaiseAlert, ProbeInv
<1>2. u.agent = p.agent /\ u.path = p.path /\ u.ts = p.ts
  BY <1>1 DEF ProbeOK, TouchInv
<1>3. ConflictsWith(t, p.path, p.agent, p.ts)
  BY <1>2, BusAssumption DEF ConflictsWith, TypeOK, Touch
<1>4. RowsGrow
  BY RowsChange
<1>5. CASE FindConflicts(f)
  <2>1. ConflictingAgents(p.path, p.agent, p.ts) = {}
    BY <1>1, <1>5 DEF FindConflicts
  <2>2. t.agent \in ConflictingAgents(p.path, p.agent, p.ts)
    BY <1>3 DEF ConflictingAgents, ConflictsWith
  <2> QED BY <2>1, <2>2
<1>6. CASE RaiseAlert(f)
  <2>1. PICK to \in p.alert \cup {p.agent}, m \in Row : Raises(f, p, to, m)
    BY <1>1, <1>6, AlertRaised
  <2>2. messages' = messages \cup {m} /\ p.alert = {to}
    BY <1>1, <2>1 DEF Raises
  <2>3. to = p.agent
    BY <1>1, <2>1, <2>2 DEF ProbeOK, Raises
  <2>4. Alerted(p.agent, p.path, p.ts)'
    BY <2>1, <2>2, <2>3 DEF Alerted, Raises
  <2>5. t.agent # p.agent
    BY <1>3 DEF ConflictsWith
  <2>6. Alerted(t.agent, p.path, p.ts)
    BY <1>1, <1>2, <1>3, <2>1, <2>2, <2>3, <2>5 DEF ProbeOK, Raises
  <2> QED BY <1>2, <1>4, <2>4, <2>6, AlertedStays
<1> QED BY <1>5, <1>6

LEMMA AlarmStep ==
  TypeOK /\ RequestInv /\ TouchInv /\ ProbeInv /\ NoFalseAlarm /\ ConflictsReported /\ [Next]_vars
    => NoFalseAlarm' /\ ConflictsReported'
<1> SUFFICES ASSUME TypeOK, RequestInv, TouchInv, ProbeInv, NoFalseAlarm, ConflictsReported,
                    [Next]_vars
             PROVE  NoFalseAlarm' /\ ConflictsReported'
  OBVIOUS
<1>1. RowsGrow /\ touches \subseteq touches'
  BY RowsChange, TouchesGrow
<1>2. ASSUME NEW n \in messages', n.from = "divan"
      PROVE  \E t, u \in touches' :
               /\ t.path = n.task /\ u.path = n.task /\ t.agent # u.agent
               /\ n.to \in {t.agent, u.agent}
               /\ u.ts = n.id[1] /\ t.ts \in u.ts - Window .. u.ts
  <2>1. CASE \E m \in messages : Same(m, n)
    BY <1>1, <1>2, <2>1 DEF NoFalseAlarm, Same
  <2>2. ASSUME n.id \notin Ids(messages), NEW f \in Sessions, RaiseAlert(f)
        PROVE  \E t, u \in touches' :
                 /\ t.path = n.task /\ u.path = n.task /\ t.agent # u.agent
                 /\ n.to \in {t.agent, u.agent}
                 /\ u.ts = n.id[1] /\ t.ts \in u.ts - Window .. u.ts
    <3>1. PICK p \in Probe : p = probe[f] /\ ProbeOK(p)
      BY <2>2, InProgress DEF RaiseAlert, ProbeInv
    <3>2. PICK to \in p.alert \cup {p.agent}, m \in Row : Raises(f, p, to, m)
      BY <2>2, <3>1, AlertRaised
    <3>3. n = m
      BY <2>2, <3>2 DEF Ids, Raises
    <3>4. PICK u \in touches : u.agent = p.agent /\ u.path = p.path /\ u.ts = p.ts
      BY <3>1, <3>2 DEF ProbeOK, Raises
    <3>5. PICK t \in touches : ConflictsWith(t, p.path, p.agent, p.ts) /\ n.to \in {t.agent, u.agent}
      BY <3>1, <3>2, <3>3, <3>4 DEF ProbeOK, Raises
    <3>6. t.ts \in u.ts - Window .. u.ts
      BY <3>4, <3>5, BusAssumption DEF ConflictsWith, TypeOK, Touch
    <3> QED BY <3>2, <3>3, <3>4, <3>5, <3>6 DEF ConflictsWith, Raises
  <2> QED BY <1>1, <1>2, <2>1, <2>2 DEF RowsGrow
<1>3. ASSUME NEW t \in touches', NEW u \in touches', t.path = u.path, t.agent # u.agent,
             t.row < u.row, t.ts \in u.ts - Window .. u.ts, u.row \in settled'
      PROVE  Alerted(t.agent, u.path, u.ts)' /\ Alerted(u.agent, u.path, u.ts)'
  <2>0. Cardinality(touches) \in Nat /\ \A v \in touches : v.row \in Nat /\ v.row <= Cardinality(touches)
    BY FS_CardinalityType DEF TouchInv, TypeOK, Touch
  <2>1. \A v \in touches' \ touches : v.row = Cardinality(touches) + 1
    BY TouchesGrow
  <2>2. u \in touches
    <3>1. settled' = settled \/ touches' = touches
      BY TouchesChange DEF RecordTouch
    <3>2. \A r \in settled : r <= Cardinality(touches)
      BY <2>0 DEF TouchInv
    <3> QED BY <1>3, <2>0, <2>1, <3>1, <3>2
  <2>3. t \in touches
    BY <1>3, <2>0, <2>1, <2>2
  <2>4. CASE u.row \in settled
    BY <1>1, <1>3, <2>2, <2>3, <2>4, AlertedStays DEF ConflictsReported
  <2>5. CASE u.row \notin settled
    <3>1. PICK f \in Sessions : /\ FindConflicts(f) \/ RaiseAlert(f)
                                /\ settled' = settled \cup {probe[f].row}
      BY <1>3, <2>5, SettledChange
    <3>2. u.row = probe[f].row
      BY <1>3, <2>5, <3>1
    <3> QED BY <1>3, <2>2, <2>3, <2>5, <3>1, <3>2, Reported
  <2> QED BY <2>4, <2>5
<1> QED BY <1>2, <1>3 DEF NoFalseAlarm, ConflictsReported, Alerted

-----------------------------------------------------------------------------
(* The theorems.                                                           *)

LEMMA InitInductive == Init => Inductive
<1> SUFFICES ASSUME Init PROVE Inductive
  OBVIOUS
<1> USE DEF Init
<1>1. TypeOK
  <2>1. /\ clock \in 1 .. MaxStamp /\ since \in 1 .. clock /\ boots \in 0 .. MaxBoots
        /\ seq \in 0 .. MaxSeq
    <3>1. MaxStamp \in Nat \ {0} /\ MaxBoots \in Nat /\ MaxSeq \in Nat
      BY BusAssumption
    <3> QED BY <3>1
  <2>2. /\ op \in [Clients -> {NoMessage} \cup Request] /\ probe \in [Sessions -> {NoProbe} \cup Probe]
        /\ hook \in [Hooks -> [at : {"idle", "confirm", "exit"}, ids : SUBSET Ids(messages)]]
        /\ context \in [Agents -> SUBSET Ids(messages)]
    BY DEF NoBatch
  <2>3. up \in BOOLEAN
    OBVIOUS
  <2> QED BY <2>1, <2>2, <2>3 DEF TypeOK
<1>2. NumberInv /\ NumbersFresh /\ RequestInv /\ WatchInv
  BY DEF NumberInv, NumbersFresh, RequestInv, WatchInv, NoMessage, NoProbe
<1>3. RowInv /\ BroadcastReaches
  BY DEF RowInv, BroadcastReaches
<1>4. HookInv /\ NothingSwallowed /\ ReceiptInv
  BY DEF HookInv, NothingSwallowed, ReceiptInv
<1>5. TouchInv
  BY FS_EmptySet DEF TouchInv
<1>6. ProbeInv /\ NoFalseAlarm /\ ConflictsReported
  BY DEF ProbeInv, NoFalseAlarm, ConflictsReported, NoProbe
<1> QED BY <1>1, <1>2, <1>3, <1>4, <1>5, <1>6 DEF Inductive

LEMMA StepInductive == Inductive /\ [Next]_vars => Inductive'
<1> SUFFICES ASSUME Inductive, [Next]_vars PROVE Inductive'
  OBVIOUS
<1>1. /\ TypeOK /\ NumberInv /\ NumbersFresh /\ RequestInv /\ WatchInv /\ RowInv /\ BroadcastReaches
      /\ HookInv /\ TouchInv /\ ProbeInv /\ NoFalseAlarm /\ ConflictsReported
  BY DEF Inductive
<1>2. TypeOK' /\ TouchInv' /\ ProbeInv'
  BY <1>1, TypeStep, TouchStep, ProbeStep
<1>3. NumberInv' /\ NumbersFresh' /\ RequestInv' /\ WatchInv'
  BY <1>1, NumberStep, RequestStep, WatchStep
<1>4. RowInv' /\ BroadcastReaches' /\ HookInv'
  BY <1>1, RowStep, MailStep
<1>5. NoFalseAlarm' /\ ConflictsReported'
  BY <1>1, AlarmStep
<1>6. ("exit" \notin KillPoints => NothingSwallowed /\ ReceiptInv)'
  <2>1. ASSUME "exit" \notin KillPoints PROVE NothingSwallowed' /\ ReceiptInv'
    BY <1>1, <2>1, ReceiptStep DEF Inductive
  <2> QED BY <2>1
<1> QED BY <1>2, <1>3, <1>4, <1>5, <1>6 DEF Inductive

\* The inductive invariant holds of every behaviour: of requests, fan-outs, touches and
\* hooks interleaved in any order, with daemons that come and go in between.
THEOREM BusInductive == Spec => []Inductive
<1>1. Inductive /\ [Next]_vars => Inductive'
  BY StepInductive
<1> QED BY InitInductive, <1>1, PTL DEF Spec

\* The tables, the requests and the hook processes are well formed.
THEOREM BusTypes == Spec => []TypeOK
<1>1. Inductive => TypeOK
  BY DEF Inductive
<1> QED BY BusInductive, <1>1, PTL

\* next_id numbers messages by the millisecond and a counter that restarts with the daemon:
\* no message, fan-out copy or alert about to be inserted has the number of a row, whatever
\* daemons came before, if each takes longer than a millisecond to start (Boot).
THEOREM FreshNumbers == Spec => []NumbersFresh
<1>1. Inductive => NumbersFresh
  BY DEF Inductive
<1> QED BY BusInductive, <1>1, PTL

\* Subscriptions are replaced while a broadcast is authorized, matched and fanned out: whoever
\* had a matching one all the time has a copy, whoever had none at any time has not, nor has
\* the sender (send, match_subscribers, fanout), for any subscriptions and interleaving.
THEOREM BroadcastsReach == Spec => []BroadcastReaches
<1>1. Inductive => BroadcastReaches
  BY DEF Inductive
<1> QED BY BusInductive, <1>1, PTL

\* The turn-end hook confirms after it has printed its batch: if no hook is killed
\* between its confirmation and its exit, what is stamped delivered has entered its
\* agent's context or is printed by a hook about to exit.  (A killed hook may swallow it.)
THEOREM Confirmed ==
  ASSUME "exit" \notin KillPoints
  PROVE  Spec => []NothingSwallowed
<1>1. Inductive => NothingSwallowed
  BY DEF Inductive
<1> QED BY BusInductive, <1>1, PTL

\* An alert of record_touch names two agents that did touch the file within the window.
THEOREM TrueAlarms == Spec => []NoFalseAlarm
<1>1. Inductive => NoFalseAlarm
  BY DEF Inductive
<1> QED BY BusInductive, <1>1, PTL

\* Once record_touch has returned, everybody who had touched the file within the window
\* was alerted, and so was the agent itself, whatever calls ran at the same time.
THEOREM ReportedConflicts == Spec => []ConflictsReported
<1>1. Inductive => ConflictsReported
  BY DEF Inductive
<1> QED BY BusInductive, <1>1, PTL
=============================================================================
