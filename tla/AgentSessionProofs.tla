-------------------------- MODULE AgentSessionProofs --------------------------
(***************************************************************************)
(* The safety properties of AgentSession, for every adapter, any sessions, *)
(* any lines their CLIs print and any capacity of the event channel.       *)
(***************************************************************************)
EXTENDS AgentSession, SequenceTheorems, WellFoundedInduction, TLAPS

-----------------------------------------------------------------------------
(* Numbers and sequences.                                                  *)

\* What induction over numbers comes down to: a set of them has a least one.
LEMMA LeastNumber ==
  ASSUME NEW T \in SUBSET Nat, T # {}
  PROVE  \E n \in T : \A m \in T : n <= m
<1> DEFINE R == OpToRel(<, Nat)
<1>1. IsWellFoundedOn(R, Nat)
  BY NatLessThanWellFounded
<1>2. \A x, y \in Nat : x < y => <<x, y>> \in R
  BY DEF OpToRel
<1> HIDE DEF R
<1>3. PICK n \in T : \A m \in T : ~ (<<m, n>> \in R)
  BY <1>1, WFMin
<1>4. ASSUME NEW m \in T PROVE n <= m
  <2>1. n \in Nat /\ m \in Nat
    OBVIOUS
  <2>2. ~ (m < n)
    BY <1>2, <1>3, <2>1, Zenon
  <2> QED BY <2>1, <2>2
<1> QED BY <1>4

\* The function in the definition of FlattenSeq.
IsFlat(f, seqs, n) == f = [i \in 1 .. n |-> IF i = 1 THEN seqs[i] ELSE f[i - 1] \o seqs[i]]

LEMMA FlatAt ==
  ASSUME NEW f, NEW seqs, NEW n, IsFlat(f, seqs, n), NEW i \in 1 .. n
  PROVE  f[i] = IF i = 1 THEN seqs[i] ELSE f[i - 1] \o seqs[i]
BY DEF IsFlat

\* It exists,
LEMMA FlatExists ==
  ASSUME NEW seqs, NEW n \in Nat
  PROVE  \E f : IsFlat(f, seqs, n)
<1> DEFINE T == {k \in Nat : ~ \E f : IsFlat(f, seqs, k)}
<1> SUFFICES ASSUME T # {} PROVE FALSE
  OBVIOUS
<1>1. PICK k \in T : \A j \in T : k <= j
  BY LeastNumber
<1>2. k \in Nat /\ ~ \E f : IsFlat(f, seqs, k)
  OBVIOUS
<1>3. k # 0
  <2>1. IsFlat([i \in 1 .. 0 |-> 0], seqs, 0)
    BY DEF IsFlat
  <2> QED BY <1>2, <2>1
<1>4. PICK f : IsFlat(f, seqs, k - 1)
  <2>1. k - 1 \in Nat /\ ~ (k <= k - 1)
    BY <1>2, <1>3
  <2> QED BY <1>1, <2>1
<1> DEFINE g == [i \in 1 .. k |-> IF i = k THEN IF k = 1 THEN seqs[1] ELSE f[k - 1] \o seqs[k]
                                  ELSE f[i]]
<1>5. ASSUME NEW i \in 1 .. k PROVE g[i] = IF i = 1 THEN seqs[i] ELSE g[i - 1] \o seqs[i]
  <2>1. CASE i = k
    BY <1>2, <1>3, <2>1
  <2>2. CASE i # k
    <3>1. i \in 1 .. k - 1 /\ g[i] = f[i] /\ (i # 1 => i - 1 \in 1 .. k /\ g[i - 1] = f[i - 1])
      BY <1>2, <1>5, <2>2
    <3>2. f[i] = IF i = 1 THEN seqs[i] ELSE f[i - 1] \o seqs[i]
      BY <1>4, <3>1, FlatAt
    <3> QED BY <3>1, <3>2
  <2> QED BY <2>1, <2>2
<1>6. g = [i \in 1 .. k |-> g[i]]
  OBVIOUS
<1> HIDE DEF g
<1>7. IsFlat(g, seqs, k)
  BY <1>5, <1>6 DEF IsFlat
<1> QED BY <1>2, <1>7

\* is determined by the sequences it joins,
LEMMA FlatUnique ==
  ASSUME NEW a, NEW b, NEW f, NEW g, NEW m \in Nat, NEW n \in Nat, m <= n,
         IsFlat(f, a, m), IsFlat(g, b, n), \A i \in 1 .. m : a[i] = b[i]
  PROVE  \A i \in 1 .. m : f[i] = g[i]
<1> DEFINE T == {i \in 1 .. m : f[i] # g[i]}
<1> SUFFICES ASSUME T # {} PROVE FALSE
  OBVIOUS
<1>0. T \in SUBSET Nat
  OBVIOUS
<1>1. PICK i \in T : \A j \in T : i <= j
  BY <1>0, LeastNumber
<1>2. i \in 1 .. m /\ f[i] # g[i] /\ i \in 1 .. n
  OBVIOUS
<1>3. /\ f[i] = IF i = 1 THEN a[i] ELSE f[i - 1] \o a[i]
      /\ g[i] = IF i = 1 THEN b[i] ELSE g[i - 1] \o b[i]
  BY <1>2, FlatAt
<1>4. i # 1 => i - 1 \in 1 .. m /\ f[i - 1] = g[i - 1]
  <2>1. ASSUME i # 1 PROVE i - 1 \in 1 .. m /\ ~ (i <= i - 1)
    BY <1>2, <2>1
  <2> QED BY <1>1, <2>1
<1> QED BY <1>2, <1>3, <1>4

\* gives sequences when it joins sequences,
LEMMA FlatType ==
  ASSUME NEW S, NEW seqs, NEW n \in Nat, NEW f, IsFlat(f, seqs, n), \A i \in 1 .. n : seqs[i] \in Seq(S)
  PROVE  \A i \in 1 .. n : f[i] \in Seq(S)
<1> DEFINE T == {i \in 1 .. n : f[i] \notin Seq(S)}
<1> SUFFICES ASSUME T # {} PROVE FALSE
  OBVIOUS
<1>0. T \in SUBSET Nat
  OBVIOUS
<1>1. PICK i \in T : \A j \in T : i <= j
  BY <1>0, LeastNumber
<1>2. i \in 1 .. n /\ f[i] \notin Seq(S)
  OBVIOUS
<1>3. f[i] = IF i = 1 THEN seqs[i] ELSE f[i - 1] \o seqs[i]
  BY <1>2, FlatAt
<1>4. i # 1 => i - 1 \in 1 .. n /\ f[i - 1] \in Seq(S)
  <2>1. ASSUME i # 1 PROVE i - 1 \in 1 .. n /\ ~ (i <= i - 1)
    BY <1>2, <2>1
  <2> QED BY <1>1, <2>1
<1>5. i # 1 => f[i - 1] \o seqs[i] \in Seq(S)
  BY <1>2, <1>4, ConcatProperties
<1> QED BY <1>2, <1>3, <1>5

\* and is what FlattenSeq reads its result from.
LEMMA FlatIs ==
  ASSUME NEW seqs, Len(seqs) \in Nat \ {0}
  PROVE  \E f : IsFlat(f, seqs, Len(seqs)) /\ FlattenSeq(seqs) = f[Len(seqs)]
<1> DEFINE g == CHOOSE flatten : flatten = [i \in 1 .. Len(seqs) |->
                                   IF i = 1 THEN seqs[i] ELSE flatten[i - 1] \o seqs[i]]
<1>1. \E f : IsFlat(f, seqs, Len(seqs))
  BY FlatExists
<1>2. IsFlat(g, seqs, Len(seqs))
  BY <1>1 DEF IsFlat
<1>3. FlattenSeq(seqs) = g[Len(seqs)]
  BY DEF FlattenSeq
<1> QED BY <1>2, <1>3

\* FlattenSeq, one sequence at a time.
LEMMA FlattenType ==
  ASSUME NEW S, NEW seqs \in Seq(Seq(S))
  PROVE  FlattenSeq(seqs) \in Seq(S)
<1>1. CASE Len(seqs) = 0
  BY <1>1 DEF FlattenSeq
<1>2. CASE Len(seqs) # 0
  <2>1. Len(seqs) \in Nat \ {0} /\ \A i \in 1 .. Len(seqs) : seqs[i] \in Seq(S)
    BY <1>2
  <2>2. PICK f : IsFlat(f, seqs, Len(seqs)) /\ FlattenSeq(seqs) = f[Len(seqs)]
    BY <2>1, FlatIs
  <2>3. \A i \in 1 .. Len(seqs) : f[i] \in Seq(S)
    BY <2>1, <2>2, FlatType
  <2> QED BY <2>1, <2>2, <2>3
<1> QED BY <1>1, <1>2

LEMMA FlattenAppend ==
  ASSUME NEW S, NEW seqs \in Seq(Seq(S)), NEW x \in Seq(S)
  PROVE  FlattenSeq(Append(seqs, x)) = FlattenSeq(seqs) \o x
<1> DEFINE n == Len(seqs)
           longer == Append(seqs, x)
<1>1. /\ n \in Nat /\ longer \in Seq(Seq(S)) /\ Len(longer) = n + 1 /\ longer[n + 1] = x
      /\ \A i \in 1 .. n : longer[i] = seqs[i]
  OBVIOUS
<1>s. n = Len(seqs) /\ longer = Append(seqs, x)
  OBVIOUS
<1> HIDE DEF n, longer
<1>m. PICK m : m = n + 1
  OBVIOUS
<1>2. PICK g : IsFlat(g, longer, m) /\ FlattenSeq(longer) = g[m]
  <2>1. Len(longer) \in Nat \ {0}
    BY <1>1
  <2>2. PICK g : IsFlat(g, longer, Len(longer)) /\ FlattenSeq(longer) = g[Len(longer)]
    BY <2>1, FlatIs
  <2> QED BY <1>1, <1>m, <2>2
<1>3. g[m] = IF m = 1 THEN longer[m] ELSE g[n] \o longer[m]
  <2>1. m \in 1 .. m /\ m - 1 = n
    BY <1>1, <1>m
  <2>2. g[m] = IF m = 1 THEN longer[m] ELSE g[m - 1] \o longer[m]
    BY <1>2, <2>1, FlatAt
  <2> QED BY <2>1, <2>2
<1>4. CASE n = 0
  <2>1. FlattenSeq(seqs) = <<>>
    BY <1>4, <1>s DEF FlattenSeq
  <2>2. FlattenSeq(longer) = x
    BY <1>1, <1>m, <1>2, <1>3, <1>4
  <2> QED BY <1>s, <2>1, <2>2, ConcatEmptySeq
<1>5. CASE n # 0
  <2>1. PICK f : IsFlat(f, seqs, n) /\ FlattenSeq(seqs) = f[n]
    BY <1>1, <1>5, <1>s, FlatIs
  <2>2. f[n] = g[n]
    <3>1. n <= m /\ m \in Nat /\ n \in 1 .. n
      BY <1>1, <1>m, <1>5
    <3>2. \A i \in 1 .. n : f[i] = g[i]
      <4>1. \A i \in 1 .. n : seqs[i] = longer[i]
        BY <1>1
      <4>2. n \in Nat /\ m \in Nat /\ n <= m /\ IsFlat(f, seqs, n) /\ IsFlat(g, longer, m)
        BY <1>1, <1>2, <2>1, <3>1
      <4> QED BY <4>1, <4>2, FlatUnique
    <3> QED BY <3>1, <3>2
  <2> QED BY <1>1, <1>m, <1>2, <1>3, <1>5, <1>s, <2>1, <2>2
<1> QED BY <1>4, <1>5

-----------------------------------------------------------------------------
(* Lemmas about the stream.                                                *)

\* A line the observer can read means a sequence of events.
LEMMA ParseIsSeq ==
  ASSUME Structured, NEW line \in Line \ {"binary"}
  PROVE  Parse(line) \in Seq(Event) /\ (style = "codex" => Parse(line) \in {<<>>, <<"error">>, <<"file_edit">>})
<1>1. /\ <<"error">> \in Seq(Event) /\ <<"file_edit">> \in Seq(Event) /\ <<"end_ok">> \in Seq(Event)
      /\ <<"end_failed">> \in Seq(Event) /\ <<>> \in Seq(Event)
      /\ <<"file_edit", "tool_call">> \in Seq(Event)
  BY DEF Event
<1>2. CASE style = "codex"
  BY <1>1, <1>2 DEF Parse
<1>3. CASE style = "claude"
  <2>1. line \in {"edit", "garbage", "result", "error_result"}
    BY DEF Line
  <2> QED BY <1>1, <1>3, <2>1 DEF Parse
<1> QED BY <1>2, <1>3 DEF Structured

\* What the lines that were read mean, and how the next one adds to it.
LEMMA MeaningStep ==
  ASSUME Structured, NEW s, said[s] \in Seq(Line), NEW n \in Nat, n + 1 <= Len(said[s]),
         \A i \in 1 .. n + 1 : said[s][i] # "binary"
  PROVE  /\ Meaning(s, n) \in Seq(Event)
         /\ Meaning(s, n + 1) = Meaning(s, n) \o Parse(said[s][n + 1])
<1>1. \A i \in 1 .. n + 1 : Parse(said[s][i]) \in Seq(Event)
  <2>1. ASSUME NEW i \in 1 .. n + 1 PROVE said[s][i] \in Line \ {"binary"}
    OBVIOUS
  <2> QED BY <2>1, ParseIsSeq
<1> DEFINE seqs == [i \in 1 .. n |-> Parse(said[s][i])]
           more == [i \in 1 .. n + 1 |-> Parse(said[s][i])]
<1>2. seqs \in Seq(Seq(Event)) /\ more = Append(seqs, Parse(said[s][n + 1]))
  <2> DEFINE P(i) == Parse(said[s][i])
  <2>1. \A i \in 1 .. n + 1 : P(i) \in Seq(Event)
    BY <1>1
  <2> HIDE DEF P
  <2> QED BY <2>1 DEF P
<1>3. Parse(said[s][n + 1]) \in Seq(Event)
  BY <1>1
<1> HIDE DEF seqs, more
<1> QED BY <1>2, <1>3, FlattenType, FlattenAppend DEF Meaning, seqs, more


-----------------------------------------------------------------------------
(* Types.                                                                  *)

LEMMA SeqParts ==
  ASSUME NEW S, NEW q \in Seq(S), q # <<>>
  PROVE  Head(q) \in S /\ Tail(q) \in Seq(S) /\ Len(Tail(q)) = Len(q) - 1
OBVIOUS

CliRecord == [at : {"none", "running", "silent", "exited", "reaped"}, success : BOOLEAN]

LEMMA TypeInit == ASSUME SessionAssumption, Init PROVE TypeOK
<1>1. [at |-> "none", success |-> FALSE] \in CliRecord
  BY DEF CliRecord
<1>2. cli \in [Sessions -> CliRecord]
  BY <1>1 DEF Init
<1>3. \A s \in Sessions : Lines[s] \in Nat
  BY DEF SessionAssumption
<1> QED BY <1>2, <1>3 DEF Init, TypeOK, SessionAssumption, CliRecord

\* A change of the process of one session.
LEMMA CliType ==
  ASSUME cli \in [Sessions -> CliRecord], NEW s \in Sessions,
         NEW r \in {"none", "running", "silent", "exited", "reaped"}, NEW b \in BOOLEAN
  PROVE  /\ [cli EXCEPT ![s].at = r] \in [Sessions -> CliRecord]
         /\ [cli EXCEPT ![s] = [at |-> r, success |-> b]] \in [Sessions -> CliRecord]
<1>1. [cli[s] EXCEPT !.at = r] \in CliRecord /\ [at |-> r, success |-> b] \in CliRecord
  BY DEF CliRecord
<1> QED BY <1>1

LEMMA CliStep ==
  ASSUME TypeOK, NEW s \in Sessions, CliNext(s) \/ SchedulerNext(s) \/ ObserverNext(s)
  PROVE  cli' \in [Sessions -> CliRecord]
<1>1. cli \in [Sessions -> CliRecord]
  BY DEF TypeOK, CliRecord
<1>2. CASE UNCHANGED cli
  BY <1>1, <1>2
<1>3. CASE \E r \in {"none", "running", "silent", "exited", "reaped"} :
             cli' = [cli EXCEPT ![s].at = r]
  <2>1. PICK r \in {"none", "running", "silent", "exited", "reaped"} : cli' = [cli EXCEPT ![s].at = r]
    BY <1>3
  <2>2. [cli EXCEPT ![s].at = r] \in [Sessions -> CliRecord]
    BY <1>1, CliType
  <2> QED BY <2>1, <2>2
<1>4. CASE \E b \in BOOLEAN : cli' = [cli EXCEPT ![s] = [at |-> "exited", success |-> b]]
  <2>1. PICK b \in BOOLEAN : cli' = [cli EXCEPT ![s] = [at |-> "exited", success |-> b]]
    BY <1>4
  <2>2. [cli EXCEPT ![s] = [at |-> "exited", success |-> b]] \in [Sessions -> CliRecord]
    BY <1>1, CliType
  <2> QED BY <2>1, <2>2
<1>5. CASE Signal(s)
  <2>1. CASE Alive(s)
    BY <1>1, <1>5, <2>1, CliType DEF Signal
  <2>2. CASE ~ Alive(s)
    BY <1>1, <1>5, <2>2 DEF Signal
  <2> QED BY <2>1, <2>2
<1>6. CASE CliNext(s)
  BY <1>2, <1>3, <1>4, <1>6 DEF CliNext, Say, CloseStdout, Exit
<1>7. CASE SchedulerNext(s)
  BY <1>2, <1>3, <1>4, <1>5, <1>7
  DEF SchedulerNext, SpawnCli, Insert, Observe, Receive, ChannelCloses, TimesOut, Kill, KillDone,
      KillByPid, process
<1>8. CASE ObserverNext(s)
  BY <1>2, <1>3, <1>8
  DEF ObserverNext, ReadLine, ReadEof, Send, SendFails, SummarySent, TakeChild, Wait, ObserverEnds,
      process
<1> QED BY <1>6, <1>7, <1>8

\* What the observer reads next is a line it can read.
LEMMA NextLine ==
  ASSUME TypeOK, NEW s \in Sessions, ReadLine(s)
  PROVE  /\ heard[s] + 1 \in 1 .. Len(said[s])
         /\ said[s][heard[s] + 1] \in Line \ {"binary"}
<1>1. said[s] \in Seq(Line) /\ heard[s] \in Nat /\ heard[s] < Len(said[s]) /\ ~ Eof(s)
  BY DEF TypeOK, ReadLine
<1>2. heard[s] + 1 \in 1 .. Len(said[s])
  BY <1>1
<1>3. said[s][heard[s] + 1] \in Line
  BY <1>1, <1>2
<1>4. said[s][heard[s] + 1] # "binary"
  BY <1>1 DEF Eof
<1> QED BY <1>2, <1>3, <1>4

LEMMA StreamType ==
  ASSUME TypeOK, SessionAssumption, NEW s \in Sessions, CliNext(s) \/ SchedulerNext(s) \/ ObserverNext(s)
  PROVE  /\ said' \in [Sessions -> Seq(Line)] /\ heard' \in [Sessions -> Nat]
         /\ sending' \in [Sessions -> Seq(Event)]
         /\ channel' \in [Sessions -> Seq(Event)]
         /\ received' \in [Sessions -> Seq(Event)]
         /\ \A t \in Sessions : /\ Len(said'[t]) <= Lines[t] /\ heard'[t] <= Len(said'[t])
                                /\ Len(channel'[t]) <= Capacity
<1>0. /\ said \in [Sessions -> Seq(Line)] /\ heard \in [Sessions -> Nat]
      /\ sending \in [Sessions -> Seq(Event)]
      /\ channel \in [Sessions -> Seq(Event)]
      /\ received \in [Sessions -> Seq(Event)]
      /\ \A t \in Sessions : /\ Len(said[t]) <= Lines[t] /\ heard[t] <= Len(said[t])
                             /\ Len(channel[t]) <= Capacity
      /\ Capacity \in Nat /\ \A t \in Sessions : Lines[t] \in Nat
  BY DEF TypeOK, SessionAssumption
<1>1. CASE Say(s)
  <2>1. Vocabulary \subseteq Line
    BY DEF Vocabulary, Line
  <2>2. PICK line \in Line : said' = [said EXCEPT ![s] = Append(@, line)]
    BY <1>1, <2>1 DEF Say
  <2>3. Append(said[s], line) \in Seq(Line) /\ Len(Append(said[s], line)) = Len(said[s]) + 1
    BY <1>0
  <2>4. Len(said[s]) \in Nat /\ Len(said[s]) < Lines[s]
    BY <1>0, <1>1 DEF Say
  <2> QED BY <1>0, <1>1, <2>2, <2>3, <2>4 DEF Say, stream
<1>2. CASE Receive(s)
  <2>1. Head(channel[s]) \in Event /\ Tail(channel[s]) \in Seq(Event)
        /\ Len(Tail(channel[s])) = Len(channel[s]) - 1 /\ Len(channel[s]) \in Nat
    BY <1>0, <1>2, SeqParts DEF Receive
  <2>2. Append(received[s], Head(channel[s])) \in Seq(Event)
    BY <1>0, <2>1
  <2> QED BY <1>0, <1>2, <2>1, <2>2 DEF Receive, process, stream
<1>3. CASE ReadLine(s)
  <2>1. (IF Structured THEN Parse(said[s][heard[s] + 1]) ELSE <<>>) \in Seq(Event)
    BY <1>3, NextLine, ParseIsSeq
  <2>2. heard[s] + 1 \in Nat /\ heard[s] + 1 <= Len(said[s])
    BY <1>0, <1>3, NextLine
  <2>3. /\ heard' = [heard EXCEPT ![s] = heard[s] + 1]
        /\ sending' = [sending EXCEPT ![s] = IF Structured THEN Parse(said[s][heard[s] + 1]) ELSE <<>>]
        /\ UNCHANGED <<said, channel, received>>
    BY <1>3 DEF ReadLine, process
  <2> QED BY <1>0, <2>1, <2>2, <2>3
<1>4. CASE ReadEof(s) \/ SendFails(s)
  <2>1. <<"tool_call">> \in Seq(Event) /\ <<>> \in Seq(Event)
    BY DEF Event
  <2> QED BY <1>0, <1>4, <2>1 DEF ReadEof, SendFails, process
<1>5. CASE Send(s)
  <2>1. Head(sending[s]) \in Event /\ Tail(sending[s]) \in Seq(Event)
    BY <1>0, <1>5, SeqParts DEF Send
  <2>2. /\ Append(channel[s], Head(sending[s])) \in Seq(Event)
        /\ Len(Append(channel[s], Head(sending[s]))) = Len(channel[s]) + 1 /\ Len(channel[s]) \in Nat
    BY <1>0, <2>1
  <2> QED BY <1>0, <1>5, <2>1, <2>2 DEF Send, Deliver, process
<1>6. CASE TakeChild(s)
  <2>1. SessionEnd(FALSE) \in Seq(Event)
    BY DEF SessionEnd, Event
  <2> QED BY <1>0, <1>6, <2>1 DEF TakeChild, process
<1>7. CASE Wait(s)
  <2>1. SessionEnd(cli[s].success) \in Seq(Event)
    BY DEF SessionEnd, Event
  <2>2. Edits \subseteq Seq(Event)
    <3>1. <<>> \in Seq(Event) /\ <<"file_edit">> \in Seq(Event)
      BY DEF Event
    <3> QED BY <3>1 DEF Edits
  <2>3. \A edits \in Edits : edits \o SessionEnd(cli[s].success) \in Seq(Event)
    BY <2>1, <2>2, ConcatProperties
  <2> QED BY <1>0, <1>7, <2>3 DEF Wait
<1>8. CASE UNCHANGED <<said, heard, sending, channel, received>>
  BY <1>0, <1>8
<1>9. \/ Say(s) \/ Receive(s) \/ ReadLine(s) \/ ReadEof(s) \/ SendFails(s) \/ Send(s) \/ TakeChild(s)
      \/ Wait(s) \/ UNCHANGED <<said, heard, sending, channel, received>>
  BY DEF CliNext, CloseStdout, Exit, SchedulerNext, SpawnCli, Insert, Observe, ChannelCloses, TimesOut,
         Kill, KillDone, KillByPid, ObserverNext, SummarySent, ObserverEnds, process, stream
<1> QED BY <1>1, <1>2, <1>3, <1>4, <1>5, <1>6, <1>7, <1>8, <1>9

LEMMA ControlType ==
  ASSUME TypeOK, NEW s \in Sessions, CliNext(s) \/ SchedulerNext(s) \/ ObserverNext(s)
  PROVE  /\ style' \in Styles
         /\ lock' \in Sessions \cup {"free"}
         /\ child' \in [Sessions -> {"none", "spawner", "registry", "observer", "killer"}]
         /\ observer' \in [Sessions -> {"none", "read", "summary", "take", "wait", "end", "gone"}]
         /\ ok' \in [Sessions -> BOOLEAN]
         /\ scheduler' \in [Sessions -> {"spawn", "insert", "observe", "drain", "kill",
                                         "killing", "over"}]
         /\ outcome' \in [Sessions -> {"none", "ok", "failed", "timeout"}]
<1>1. CASE CliNext(s)
  BY <1>1 DEF TypeOK, CliNext, Say, CloseStdout, Exit, stream
<1>2. CASE Receive(s)
  <2>1. Verdict["end_ok"] = "ok" /\ Verdict["end_failed"] = "failed" /\ Verdict["error"] = "failed"
    BY DEF Verdict
  <2>2. Head(channel[s]) \in LastEvents => Verdict[Head(channel[s])] \in {"ok", "failed"}
    BY <2>1 DEF LastEvents
  <2>3. \/ UNCHANGED <<scheduler, outcome>>
        \/ \E v \in {"ok", "failed"} : Finish(s, v)
    BY <1>2, <2>2 DEF Receive
  <2>4. /\ scheduler' \in [Sessions -> {"spawn", "insert", "observe", "drain", "kill", "killing", "over"}]
        /\ outcome' \in [Sessions -> {"none", "ok", "failed", "timeout"}]
    <3>1. /\ scheduler \in [Sessions -> {"spawn", "insert", "observe", "drain", "kill", "killing", "over"}]
          /\ outcome \in [Sessions -> {"none", "ok", "failed", "timeout"}]
      BY DEF TypeOK
    <3>2. CASE UNCHANGED <<scheduler, outcome>>
      BY <3>1, <3>2
    <3>3. CASE \E v \in {"ok", "failed"} : Finish(s, v)
      <4>1. PICK v \in {"ok", "failed"} : Finish(s, v)
        BY <3>3
      <4> QED BY <3>1, <4>1 DEF Finish
    <3> QED BY <2>3, <3>2, <3>3
  <2> QED BY <1>2, <2>4 DEF TypeOK, Receive, process, stream
<1>3. CASE SpawnCli(s) \/ Insert(s) \/ Observe(s) \/ ChannelCloses(s) \/ TimesOut(s)
  BY <1>3 DEF TypeOK, SpawnCli, Insert, Observe, ChannelCloses, TimesOut, Finish, process, stream
<1>4. CASE Kill(s) \/ KillDone(s) \/ KillByPid(s)
  BY <1>4 DEF TypeOK, Kill, KillDone, KillByPid, Finish, process, stream
<1>5. CASE ReadLine(s) \/ ReadEof(s) \/ Send(s) \/ SendFails(s)
  BY <1>5 DEF TypeOK, ReadLine, ReadEof, Send, SendFails, AfterStream, process
<1>6. CASE SummarySent(s) \/ TakeChild(s) \/ ObserverEnds(s)
  BY <1>6 DEF TypeOK, SummarySent, TakeChild, ObserverEnds, process, stream
<1>7. CASE Wait(s)
  <2>1. cli[s].success \in BOOLEAN
    BY DEF TypeOK
  <2> QED BY <1>7, <2>1 DEF TypeOK, Wait
<1> QED BY <1>1, <1>2, <1>3, <1>4, <1>5, <1>6, <1>7 DEF SchedulerNext, ObserverNext

LEMMA TypeStep ==
  ASSUME TypeOK, SessionAssumption, NEW s \in Sessions,
         CliNext(s) \/ SchedulerNext(s) \/ ObserverNext(s)
  PROVE  TypeOK'
BY CliStep, StreamType, ControlType DEF TypeOK, CliRecord


-----------------------------------------------------------------------------
(* A step of one session leaves the others alone.                          *)

Same(t) ==
  /\ cli'[t] = cli[t] /\ said'[t] = said[t] /\ heard'[t] = heard[t] /\ child'[t] = child[t]
  /\ observer'[t] = observer[t] /\ ok'[t] = ok[t] /\ sending'[t] = sending[t]
  /\ channel'[t] = channel[t] /\ received'[t] = received[t] /\ scheduler'[t] = scheduler[t]
  /\ outcome'[t] = outcome[t]

LEMMA Elsewhere ==
  ASSUME TypeOK, NEW s \in Sessions, NEW t \in Sessions, t # s,
         CliNext(s) \/ SchedulerNext(s) \/ ObserverNext(s)
  PROVE  Same(t)
<1>0. /\ DOMAIN cli = Sessions /\ DOMAIN said = Sessions /\ DOMAIN heard = Sessions
      /\ DOMAIN child = Sessions /\ DOMAIN observer = Sessions /\ DOMAIN ok = Sessions
      /\ DOMAIN sending = Sessions /\ DOMAIN channel = Sessions /\ DOMAIN received = Sessions
      /\ DOMAIN scheduler = Sessions /\ DOMAIN outcome = Sessions
  BY DEF TypeOK
<1>1. CASE CliNext(s)
  BY <1>0, <1>1 DEF CliNext, Say, CloseStdout, Exit, Same, stream
<1>2. CASE SpawnCli(s) \/ Insert(s) \/ Observe(s) \/ Receive(s) \/ ChannelCloses(s) \/ TimesOut(s)
  BY <1>0, <1>2
  DEF SpawnCli, Insert, Observe, Receive, ChannelCloses, TimesOut, Finish, Same, process, stream
<1>3. CASE Kill(s) \/ KillDone(s) \/ KillByPid(s)
  BY <1>0, <1>3 DEF Kill, Signal, KillDone, KillByPid, Finish, Same, process, stream
<1>4. CASE ReadLine(s) \/ ReadEof(s) \/ Send(s) \/ SendFails(s) \/ SummarySent(s)
  BY <1>0, <1>4 DEF ReadLine, ReadEof, Send, Deliver, SendFails, SummarySent, Same, process, stream
<1>5. CASE TakeChild(s) \/ Wait(s) \/ ObserverEnds(s)
  BY <1>0, <1>5 DEF TakeChild, Wait, ObserverEnds, Same, process, stream
<1> QED BY <1>1, <1>2, <1>3, <1>4, <1>5 DEF SchedulerNext, ObserverNext

LEMMA SameStyle ==
  ASSUME NEW s \in Sessions, CliNext(s) \/ SchedulerNext(s) \/ ObserverNext(s)
  PROVE  style' = style
BY DEF CliNext, Say, CloseStdout, Exit, SchedulerNext, SpawnCli, Insert, Observe, Receive,
       ChannelCloses, TimesOut, Kill, KillDone, KillByPid, ObserverNext, ReadLine, ReadEof, Send,
       SendFails, SummarySent, TakeChild, Wait, ObserverEnds

-----------------------------------------------------------------------------
(* The owner of the Child handle.                                          *)

ChildAt(s) ==
  /\ child[s] = "none" <=> cli[s].at \in {"none", "reaped"}
  /\ scheduler[s] = "spawn" => child[s] = "none" /\ cli[s].at = "none"
  /\ child[s] = "spawner" <=> scheduler[s] = "insert"
  /\ scheduler[s] = "observe" => child[s] = "registry"
  /\ child[s] = "killer" <=> scheduler[s] = "killing"
  /\ child[s] = "observer" <=> observer[s] = "wait"
  /\ scheduler[s] \in {"spawn", "insert", "observe"} => observer[s] = "none"
  /\ scheduler[s] \in {"drain", "kill", "killing"} => cli[s].at # "none"
  /\ outcome[s] = "none" <=> scheduler[s] # "over"
  /\ observer[s] \in {"none", "take", "wait", "gone"} => sending[s] = <<>>

OwnedAt(s) ==
  outcome[s] = "timeout" =>
    cli[s].at = "reaped" \/ (child[s] = "observer" /\ observer[s] = "wait")

\* A timed out session is over, and so is its kill: only an exit of the CLI and the wait of
\* the observer are left.
LEMMA ChildOfSession ==
  ASSUME TypeOK, NEW s \in Sessions, ChildAt(s), OwnedAt(s), style = "claude" => observer[s] \in {"none", "read", "gone"},
         style # "copilot" => observer[s] # "summary",
         CliNext(s) \/ SchedulerNext(s) \/ ObserverNext(s)
  PROVE  ChildAt(s)' /\ OwnedAt(s)'
<1>0. /\ cli \in [Sessions -> CliRecord]
      /\ DOMAIN cli = Sessions /\ DOMAIN child = Sessions /\ DOMAIN observer = Sessions
      /\ DOMAIN sending = Sessions
      /\ DOMAIN scheduler = Sessions /\ DOMAIN outcome = Sessions
      /\ cli[s].at \in {"none", "running", "silent", "exited", "reaped"}
      /\ DOMAIN cli[s] = {"at", "success"}
      /\ child[s] \in {"none", "spawner", "registry", "observer", "killer"}
  BY DEF TypeOK, CliRecord
<1>1. CASE CliNext(s)
  BY <1>0, <1>1 DEF CliNext, Say, CloseStdout, Exit, Alive, ChildAt, OwnedAt, stream
<1>2. CASE SpawnCli(s)
  BY <1>0, <1>2 DEF SpawnCli, ChildAt, OwnedAt, stream
<1>3. CASE Insert(s) \/ Observe(s)
  BY <1>0, <1>3 DEF Insert, Observe, ChildAt, OwnedAt, process, stream
<1>4. CASE Receive(s) \/ ChannelCloses(s) \/ TimesOut(s)
  BY <1>0, <1>4 DEF Receive, ChannelCloses, TimesOut, Finish, Verdict, LastEvents, ChildAt, OwnedAt, process, stream
<1>5. CASE Kill(s)
  BY <1>0, <1>5 DEF Kill, Signal, Alive, ChildAt, OwnedAt, stream
<1>6. CASE KillDone(s)
  BY <1>0, <1>6 DEF KillDone, Finish, ChildAt, OwnedAt, stream
<1>7. CASE KillByPid(s)
  BY <1>0, <1>7 DEF KillByPid, Finish, Alive, ChildAt, OwnedAt, stream
<1>8. CASE ReadLine(s) \/ Send(s)
  BY <1>0, <1>8 DEF ReadLine, Send, ChildAt, OwnedAt, process
<1>9. CASE ReadEof(s)
  BY <1>0, <1>9 DEF ReadEof, AfterStream, ChildAt, OwnedAt, process
<1>10. CASE SendFails(s)
  BY <1>0, <1>10 DEF SendFails, AfterStream, ChildAt, OwnedAt, process
<1>11. CASE SummarySent(s) \/ ObserverEnds(s)
  BY <1>0, <1>11 DEF SummarySent, ObserverEnds, ChildAt, OwnedAt, process, stream
<1>12. CASE TakeChild(s)
  BY <1>0, <1>12 DEF TakeChild, ChildAt, OwnedAt, process
<1>13. CASE Wait(s)
  BY <1>0, <1>13 DEF Wait, ChildAt, OwnedAt
<1> QED BY <1>1, <1>2, <1>3, <1>4, <1>5, <1>6, <1>7, <1>8, <1>9, <1>10, <1>11, <1>12, <1>13
        DEF SchedulerNext, ObserverNext

LEMMA ChildStep ==
  ASSUME TypeOK, ChildInv, TimedOutChildOwned, ReadInv, NEW s \in Sessions,
         CliNext(s) \/ SchedulerNext(s) \/ ObserverNext(s)
  PROVE  ChildInv' /\ TimedOutChildOwned'
<1>1. ASSUME NEW t \in Sessions PROVE ChildAt(t) /\ OwnedAt(t)
  BY DEF ChildInv, TimedOutChildOwned, ChildAt, OwnedAt
<1>2. ASSUME NEW t \in Sessions PROVE ChildAt(t)' /\ OwnedAt(t)'
  <2>1. CASE t = s
    BY <1>1, <2>1, ChildOfSession DEF ReadInv
  <2>2. CASE t # s
    BY <1>1, <2>2, Elsewhere DEF Same, ChildAt, OwnedAt
  <2> QED BY <2>1, <2>2
<1> QED BY <1>2 DEF ChildInv, TimedOutChildOwned, ChildAt, OwnedAt


-----------------------------------------------------------------------------
(* Where a success comes from.                                             *)

LEMMA RangeAppend ==
  ASSUME NEW S, NEW q \in Seq(S), NEW x
  PROVE  Range(Append(q, x)) = Range(q) \cup {x}
<1>1. /\ DOMAIN q = 1 .. Len(q) /\ DOMAIN Append(q, x) = 1 .. Len(q) + 1 /\ Len(q) \in Nat
      /\ Append(q, x)[Len(q) + 1] = x
      /\ \A i \in 1 .. Len(q) : Append(q, x)[i] = q[i]
  OBVIOUS
<1> QED BY <1>1 DEF Range

LEMMA RangeTail ==
  ASSUME NEW S, NEW q \in Seq(S), q # <<>>
  PROVE  Head(q) \in Range(q) /\ Range(Tail(q)) \subseteq Range(q)
<1>1. Len(q) \in Nat \ {0} /\ DOMAIN q = 1 .. Len(q) /\ Head(q) = q[1]
  OBVIOUS
<1>2. DOMAIN Tail(q) = 1 .. Len(q) - 1 /\ \A i \in 1 .. Len(q) - 1 : Tail(q)[i] = q[i + 1]
  BY <1>1
<1>3. \A i \in 1 .. Len(q) - 1 : i + 1 \in 1 .. Len(q)
  BY <1>1
<1> QED BY <1>1, <1>2, <1>3 DEF Range

LEMMA RangeSmall ==
  /\ Range(<<>>) = {}
  /\ \A x : Range(<<x>>) = {x}
  /\ \A x, y : Range(<<x, y>>) = {x, y}
BY DEF Range

EarnedBy(s) ==
  IF style = "claude" THEN "result" \in Range(said[s])
  ELSE cli[s] = [at |-> "reaped", success |-> TRUE]

\* What earned a success stays: lines are only added, and a reaped process is not touched.
LEMMA EarnedStays ==
  ASSUME TypeOK, NEW s \in Sessions, ChildAt(s), EarnedBy(s),
         CliNext(s) \/ SchedulerNext(s) \/ ObserverNext(s)
  PROVE  EarnedBy(s)'
<1>0. /\ DOMAIN cli = Sessions /\ said \in [Sessions -> Seq(Line)]
      /\ style' = style
  BY SameStyle DEF TypeOK
<1>1. CASE style = "claude"
  <2>1. CASE Say(s)
    <3>1. PICK line : said' = [said EXCEPT ![s] = Append(@, line)]
      BY <2>1 DEF Say
    <3>2. Range(said'[s]) = Range(said[s]) \cup {line}
      BY <1>0, <3>1, RangeAppend
    <3> QED BY <1>0, <1>1, <3>2 DEF EarnedBy
  <2>2. CASE ~ Say(s)
    <3>1. said' = said
      BY <2>2 DEF CliNext, CloseStdout, Exit, SchedulerNext, SpawnCli, Insert, Observe, Receive,
           ChannelCloses, TimesOut, Kill, KillDone, KillByPid, ObserverNext, ReadLine, ReadEof, Send,
           SendFails, SummarySent, TakeChild, Wait, ObserverEnds, process
    <3> QED BY <1>0, <1>1, <3>1 DEF EarnedBy
  <2> QED BY <2>1, <2>2
<1>2. CASE style # "claude"
  <2>1. cli[s] = [at |-> "reaped", success |-> TRUE] /\ cli[s].at = "reaped"
    BY <1>2 DEF EarnedBy
  <2>2. ~ Alive(s) /\ scheduler[s] # "spawn"
    BY <2>1 DEF Alive, ChildAt
  <2>3. cli'[s] = cli[s]
    BY <1>0, <2>1, <2>2 DEF CliNext, Say, CloseStdout, Exit, Alive, SchedulerNext, SpawnCli, Insert, Observe, Receive,
         ChannelCloses, TimesOut, Kill, Signal, KillDone, KillByPid, ObserverNext, ReadLine, ReadEof, Send,
         SendFails, SummarySent, TakeChild, Wait, ObserverEnds, process
  <2> QED BY <1>0, <1>2, <2>1, <2>3 DEF EarnedBy
<1> QED BY <1>1, <1>2

UnderwayAt(s) == "end_ok" \in Underway(s) => EarnedBy(s)
SuccessAt(s) == outcome[s] = "ok" => EarnedBy(s)

\* A step that brings a success on its way has earned it.
LEMMA SuccessEnters ==
  ASSUME TypeOK, NEW s \in Sessions, UnderwayAt(s), ChildAt(s),
         style = "claude" => observer[s] \in {"none", "read", "gone"},
         CliNext(s) \/ SchedulerNext(s) \/ ObserverNext(s), "end_ok" \in Underway(s)'
  PROVE  EarnedBy(s)'
<1>0. /\ sending \in [Sessions -> Seq(Event)] /\ channel \in [Sessions -> Seq(Event)]
      /\ said \in [Sessions -> Seq(Line)]
      /\ style' = style /\ style \in Styles
  BY SameStyle DEF TypeOK
<1>1. CASE Underway(s)' \subseteq Underway(s)
  BY <1>1, EarnedStays DEF UnderwayAt
<1>2. CASE ReadLine(s)
  <2> DEFINE line == said[s][heard[s] + 1]
  <2>1. /\ heard[s] + 1 \in 1 .. Len(said[s]) /\ line \in Line \ {"binary"}
        /\ said' = said /\ channel' = channel
        /\ sending' = [sending EXCEPT ![s] = IF Structured THEN Parse(line) ELSE <<>>]
    BY <1>2, NextLine DEF ReadLine, process
  <2>2. line \in Range(said[s])
    <3>1. DOMAIN said[s] = 1 .. Len(said[s])
      BY <1>0
    <3> QED BY <2>1, <3>1 DEF Range
  <2> HIDE DEF line
  <2>3. CASE "end_ok" \in Range(channel[s])
    BY <2>3, EarnedStays DEF UnderwayAt, Underway
  <2>4. CASE Structured /\ "end_ok" \in Range(Parse(line))
    <3>1. style # "codex"
      BY <2>1, <2>4, ParseIsSeq, RangeSmall
    <3>2. line = "result"
      BY <2>1, <2>4, <3>1, RangeSmall DEF Parse, Line
    <3> QED BY <1>0, <2>1, <2>2, <2>4, <3>1, <3>2 DEF EarnedBy, Structured
  <2> QED BY <1>0, <2>1, <2>3, <2>4, RangeSmall DEF Underway
<1>3. CASE Wait(s)
  <2>0. style # "claude"
    BY <1>3 DEF Wait
  <2>1. PICK edits \in Edits : sending' = [sending EXCEPT ![s] = edits \o SessionEnd(cli[s].success)]
    BY <1>3 DEF Wait
  <2>2. sending[s] = <<>> /\ UNCHANGED <<channel, said>> /\ cli' = [cli EXCEPT ![s].at = "reaped"]
    BY <1>3 DEF Wait, ChildAt
  <2>3. cli[s] \in CliRecord /\ DOMAIN cli = Sessions
    BY DEF TypeOK, CliRecord
  <2>4. CASE cli[s].success
    <3>1. cli'[s] = [at |-> "reaped", success |-> TRUE]
      BY <2>2, <2>3, <2>4 DEF CliRecord
    <3> QED BY <1>0, <2>0, <3>1 DEF EarnedBy
  <2>5. CASE ~ cli[s].success
    <3>0. <<"file_edit">> \in Seq(Event) /\ "end_failed" \in Event
      BY DEF Event
    <3>1. sending'[s] \in {<<"end_failed">>, Append(<<"file_edit">>, "end_failed")}
      <4>1. edits \in {<<>>, <<"file_edit">>}
        BY DEF Edits
      <4>2. sending'[s] = edits \o <<"end_failed">>
        BY <1>0, <2>1, <2>5 DEF SessionEnd
      <4>3. <<>> \o <<"end_failed">> = <<"end_failed">>
        OBVIOUS
      <4>4. Append(<<"file_edit">>, "end_failed") = <<"file_edit">> \o <<"end_failed">>
        BY <3>0, AppendIsConcat
      <4> QED BY <4>1, <4>2, <4>3, <4>4
    <3>2. "end_ok" \notin Range(sending'[s])
      <4>1. Range(Append(<<"file_edit">>, "end_failed")) = Range(<<"file_edit">>) \cup {"end_failed"}
        BY <3>0, RangeAppend
      <4> QED BY <3>1, <4>1, RangeSmall
    <3> QED BY <2>2, <3>2, EarnedStays DEF Underway, UnderwayAt
  <2> QED BY <2>4, <2>5
<1>4. CASE Receive(s)
  <2>1. Range(Tail(channel[s])) \subseteq Range(channel[s]) /\ channel'[s] = Tail(channel[s])
    BY <1>0, <1>4, RangeTail DEF Receive
  <2> QED BY <1>1, <1>4, <2>1 DEF Receive, Underway, stream
<1>5. CASE Send(s)
  <2>1. /\ sending'[s] = Tail(sending[s]) /\ channel'[s] = Append(channel[s], Head(sending[s]))
        /\ sending[s] # <<>>
    BY <1>0, <1>5 DEF Send, Deliver
  <2>2. Head(sending[s]) \in Range(sending[s]) /\ Range(Tail(sending[s])) \subseteq Range(sending[s])
    BY <1>0, <2>1, RangeTail
  <2>3. Range(channel'[s]) = Range(channel[s]) \cup {Head(sending[s])}
    BY <1>0, <2>1, RangeAppend
  <2> QED BY <1>1, <2>1, <2>2, <2>3 DEF Underway
<1>6. CASE ReadEof(s) \/ SendFails(s) \/ TakeChild(s)
  <2>1. /\ sending'[s] \in {sending[s], <<>>, <<"tool_call">>, <<"end_failed">>}
        /\ channel'[s] = channel[s]
    BY <1>0, <1>6 DEF ReadEof, SendFails, TakeChild, SessionEnd
  <2> QED BY <2>1, RangeSmall, EarnedStays DEF Underway, UnderwayAt
<1>7. \/ ReadLine(s) \/ Wait(s) \/ Receive(s) \/ Send(s) \/ ReadEof(s) \/ SendFails(s) \/ TakeChild(s)
      \/ UNCHANGED <<sending, channel>>
  BY DEF CliNext, Say, CloseStdout, Exit, SchedulerNext, SpawnCli, Insert, Observe, ChannelCloses, TimesOut,
         Kill, KillDone, KillByPid, ObserverNext, SummarySent, ObserverEnds, stream
<1> QED BY <1>1, <1>2, <1>3, <1>4, <1>5, <1>6, <1>7 DEF Underway

LEMMA SuccessStep ==
  ASSUME TypeOK, ChildInv, ReadInv, SuccessInv, SuccessEarned, NEW s \in Sessions,
         CliNext(s) \/ SchedulerNext(s) \/ ObserverNext(s)
  PROVE  SuccessInv' /\ SuccessEarned'
<1>1. ASSUME NEW t \in Sessions PROVE UnderwayAt(t) /\ SuccessAt(t) /\ ChildAt(t)
  BY DEF ChildInv, SuccessInv, SuccessEarned, ChildAt, UnderwayAt, SuccessAt, EarnedBy
<1>2. ASSUME NEW t \in Sessions PROVE UnderwayAt(t)' /\ SuccessAt(t)'
  <2>1. CASE t = s
    <3>1. UnderwayAt(s)'
      BY <1>1, SuccessEnters DEF ReadInv, UnderwayAt
    <3>2. ASSUME outcome'[s] = "ok" PROVE EarnedBy(s)
      <4>1. CASE outcome[s] = "ok"
        BY <1>1, <4>1 DEF SuccessAt
      <4>2. CASE outcome[s] # "ok"
        <5>1. DOMAIN outcome = Sessions /\ channel \in [Sessions -> Seq(Event)]
          BY DEF TypeOK
        <5>2. Receive(s)
          BY <3>2, <4>2, <5>1
          DEF CliNext, Say, CloseStdout, Exit, SchedulerNext, SpawnCli, Insert, Observe, ChannelCloses,
              TimesOut, Kill, KillDone, KillByPid, Finish, ObserverNext, ReadLine, ReadEof, Send, SendFails,
              SummarySent, TakeChild, Wait, ObserverEnds
        <5>3. Head(channel[s]) = "end_ok"
          BY <3>2, <4>2, <5>1, <5>2 DEF Receive, Finish, Verdict, LastEvents
        <5>4. Head(channel[s]) \in Range(channel[s])
          BY <5>1, <5>2, RangeTail DEF Receive
        <5> QED BY <1>1, <5>3, <5>4 DEF Underway, UnderwayAt
      <4> QED BY <4>1, <4>2
    <3> QED BY <1>1, <2>1, <3>1, <3>2, EarnedStays DEF SuccessAt
  <2>2. CASE t # s
    BY <1>1, <2>2, Elsewhere, SameStyle DEF Same, UnderwayAt, SuccessAt, EarnedBy, Underway
  <2> QED BY <2>1, <2>2
<1> QED BY <1>2 DEF SuccessInv, SuccessEarned, UnderwayAt, SuccessAt, EarnedBy


-----------------------------------------------------------------------------
(* What the observer has read.                                             *)

\* Lines that are printed stay.
LEMMA SaidGrows ==
  ASSUME TypeOK, NEW s \in Sessions, CliNext(s) \/ SchedulerNext(s) \/ ObserverNext(s)
  PROVE  \/ UNCHANGED said
         \/ /\ Say(s)
            /\ Len(said'[s]) = Len(said[s]) + 1
            /\ \A i \in 1 .. Len(said[s]) : said'[s][i] = said[s][i]
<1>0. said \in [Sessions -> Seq(Line)]
  BY DEF TypeOK
<1>1. CASE Say(s)
  <2>1. PICK line : said' = [said EXCEPT ![s] = Append(@, line)]
    BY <1>1 DEF Say
  <2>2. said'[s] = Append(said[s], line) /\ said[s] \in Seq(Line)
    BY <1>0, <2>1
  <2> QED BY <1>1, <2>2
<1>2. CASE ~ Say(s)
  BY <1>2 DEF CliNext, CloseStdout, Exit, SchedulerNext, SpawnCli, Insert, Observe, Receive,
     ChannelCloses, TimesOut, Kill, KillDone, KillByPid, ObserverNext, ReadLine, ReadEof, Send,
     SendFails, SummarySent, TakeChild, Wait, ObserverEnds, process
<1> QED BY <1>1, <1>2

\* Once there is nothing more to read, it stays so.
LEMMA EofStays ==
  ASSUME TypeOK, NEW s \in Sessions, ChildAt(s), Eof(s),
         CliNext(s) \/ SchedulerNext(s) \/ ObserverNext(s)
  PROVE  Eof(s)' /\ heard'[s] = heard[s]
<1>0. /\ cli \in [Sessions -> CliRecord] /\ DOMAIN cli = Sessions /\ DOMAIN cli[s] = {"at", "success"}
      /\ heard \in [Sessions -> Nat] /\ Len(said[s]) \in Nat /\ heard[s] \in Nat
  BY DEF TypeOK, CliRecord
<1>1. heard' = heard
  BY DEF CliNext, Say, CloseStdout, Exit, SchedulerNext, SpawnCli, Insert, Observe, Receive,
     ChannelCloses, TimesOut, Kill, KillDone, KillByPid, ObserverNext, ReadLine, ReadEof, Send,
     SendFails, SummarySent, TakeChild, Wait, ObserverEnds, stream
<1>2. ASSUME cli[s].at \in {"silent", "exited", "reaped"}
      PROVE  cli'[s].at \in {"silent", "exited", "reaped"} /\ said' = said
  <2>1. scheduler[s] # "spawn"
    BY <1>2 DEF ChildAt
  <2>2. CASE CliNext(s)
    BY <1>0, <1>2, <2>2 DEF CliNext, Say, CloseStdout, Exit, Alive
  <2>3. CASE SchedulerNext(s)
    BY <1>0, <1>2, <2>1, <2>3
    DEF SchedulerNext, SpawnCli, Insert, Observe, Receive,
        ChannelCloses, TimesOut, Kill, Signal, KillDone, KillByPid, process
  <2>4. CASE ObserverNext(s)
    BY <1>0, <1>2, <2>4
    DEF ObserverNext, ReadLine, ReadEof, Send, SendFails, SummarySent, TakeChild, Wait, ObserverEnds, process
  <2> QED BY <2>2, <2>3, <2>4
<1>3. CASE cli[s].at \in {"silent", "exited", "reaped"} /\ heard[s] = Len(said[s])
  BY <1>1, <1>2, <1>3 DEF Eof
<1>4. CASE heard[s] < Len(said[s]) /\ said[s][heard[s] + 1] = "binary"
  <2>1. heard[s] + 1 \in 1 .. Len(said[s])
    BY <1>0, <1>4
  <2>2. heard[s] < Len(said'[s]) /\ said'[s][heard[s] + 1] = "binary"
    BY <1>0, <1>4, <2>1, SaidGrows
  <2> QED BY <1>1, <2>2 DEF Eof
<1> QED BY <1>1, <1>3, <1>4 DEF Eof

ReadAt(s) ==
  /\ style = "claude" => observer[s] \in {"none", "read", "gone"}
  /\ style # "copilot" => observer[s] # "summary"
  /\ \A i \in 1 .. heard[s] : said[s][i] # "binary"
  /\ Structured /\ Open(s) /\ observer[s] \in {"take", "wait", "end", "gone"} => Eof(s)

LEMMA ReadOfSession ==
  ASSUME TypeOK, NEW s \in Sessions, ChildAt(s), ReadAt(s),
         CliNext(s) \/ SchedulerNext(s) \/ ObserverNext(s)
  PROVE  ReadAt(s)'
<1>0. /\ DOMAIN observer = Sessions /\ DOMAIN scheduler = Sessions /\ style' = style
      /\ heard \in [Sessions -> Nat] /\ heard[s] \in Nat /\ heard[s] <= Len(said[s])
      /\ Len(said[s]) \in Nat
  BY SameStyle DEF TypeOK
<1>1. /\ style = "claude" => observer'[s] \in {"none", "read", "gone"}
      /\ style # "copilot" => observer'[s] # "summary"
  <2>1. CASE observer' = observer
    BY <2>1 DEF ReadAt
  <2>2. CASE Observe(s) \/ SummarySent(s) \/ TakeChild(s) \/ Wait(s) \/ ObserverEnds(s)
    BY <1>0, <2>2 DEF Observe, SummarySent, TakeChild, Wait, ObserverEnds, ReadAt
  <2>3. CASE ReadEof(s) \/ SendFails(s)
    BY <1>0, <2>3 DEF ReadEof, SendFails, AfterStream, ReadAt
  <2> QED BY <2>1, <2>2, <2>3
       DEF CliNext, Say, CloseStdout, Exit, SchedulerNext, SpawnCli, Insert, Receive,
           ChannelCloses, TimesOut, Kill, KillDone, KillByPid, ObserverNext, ReadLine, Send
<1>2. \A i \in 1 .. heard'[s] : said'[s][i] # "binary"
  <2>1. CASE ReadLine(s)
    <3>1. heard'[s] = heard[s] + 1 /\ said' = said
      BY <1>0, <2>1 DEF ReadLine, process
    <3>2. said[s][heard[s] + 1] # "binary"
      BY <2>1, NextLine
    <3>3. \A i \in 1 .. heard[s] + 1 : i \in 1 .. heard[s] \/ i = heard[s] + 1
      BY <1>0
    <3> QED BY <3>1, <3>2, <3>3 DEF ReadAt
  <2>2. CASE ~ ReadLine(s)
    <3>1. heard' = heard
      BY <2>2 DEF CliNext, Say, CloseStdout, Exit, SchedulerNext, SpawnCli, Insert, Observe, Receive,
         ChannelCloses, TimesOut, Kill, KillDone, KillByPid, ObserverNext, ReadEof, Send,
         SendFails, SummarySent, TakeChild, Wait, ObserverEnds, stream
    <3>2. \A i \in 1 .. heard[s] : i \in 1 .. Len(said[s])
      BY <1>0
    <3>3. \A i \in 1 .. heard[s] : said'[s][i] = said[s][i]
      BY <3>2, SaidGrows
    <3> QED BY <3>1, <3>3 DEF ReadAt
  <2> QED BY <2>1, <2>2
<1>3. ASSUME Structured, scheduler'[s] # "over", observer'[s] \in {"take", "wait", "end", "gone"}
      PROVE  Eof(s)
  <2>1. scheduler[s] # "over"
    BY <1>0, <1>3 DEF CliNext, Say, CloseStdout, Exit, SchedulerNext, SpawnCli, Insert, Observe, Receive,
         ChannelCloses, TimesOut, Kill, KillDone, KillByPid, ObserverNext, ReadLine, ReadEof, Send,
         SendFails, SummarySent, TakeChild, Wait, ObserverEnds
  <2>2. CASE observer[s] \in {"take", "wait", "end", "gone"}
    BY <1>3, <2>1, <2>2 DEF ReadAt, Open
  <2>3. CASE observer[s] \notin {"take", "wait", "end", "gone"}
    <3>1. CASE ReadEof(s)
      BY <3>1 DEF ReadEof
    <3>2. CASE SummarySent(s)
      BY <1>3, <3>2 DEF SummarySent, ReadAt, Structured
    <3>3. ReadEof(s) \/ SummarySent(s)
      BY <1>0, <1>3, <2>1, <2>3
      DEF CliNext, Say, CloseStdout, Exit, SchedulerNext, SpawnCli, Insert, Observe, Receive,
          ChannelCloses, TimesOut, Kill, KillDone, KillByPid, ObserverNext, ReadLine, Send, Open,
          SendFails, TakeChild, Wait, ObserverEnds
    <3> QED BY <3>1, <3>2, <3>3
  <2> QED BY <2>2, <2>3
<1>4. Structured' => Structured
  BY <1>0 DEF Structured
<1> QED BY <1>0, <1>1, <1>2, <1>3, <1>4, EofStays DEF ReadAt, Open

LEMMA ReadStep ==
  ASSUME TypeOK, ChildInv, ReadInv, NEW s \in Sessions,
         CliNext(s) \/ SchedulerNext(s) \/ ObserverNext(s)
  PROVE  ReadInv'
<1>1. ASSUME NEW t \in Sessions PROVE ReadAt(t) /\ ChildAt(t)
  BY DEF ChildInv, ReadInv, ChildAt, ReadAt
<1>2. ASSUME NEW t \in Sessions PROVE ReadAt(t)'
  <2>1. CASE t = s
    BY <1>1, <2>1, ReadOfSession
  <2>2. CASE t # s
    BY <1>1, <2>2, Elsewhere, SameStyle DEF Same, ReadAt, Structured, Open, Eof
  <2> QED BY <2>1, <2>2
<1> QED BY <1>2 DEF ReadInv, ReadAt


-----------------------------------------------------------------------------
(* Events on their way.                                                    *)

\* An event moves from the front of one queue to the back of the next.
LEMMA Moved ==
  ASSUME NEW S, NEW a \in Seq(S), NEW b \in Seq(S), b # <<>>
  PROVE  Append(a, Head(b)) \o Tail(b) = a \o b
<1>1. /\ Head(b) \in S /\ Tail(b) \in Seq(S) /\ Len(Tail(b)) = Len(b) - 1 /\ Head(b) = b[1]
      /\ Len(b) \in Nat \ {0} /\ Len(a) \in Nat
  BY HeadTailProperties
<1>2. /\ Append(a, Head(b)) \in Seq(S) /\ Len(Append(a, Head(b))) = Len(a) + 1
      /\ Append(a, Head(b))[Len(a) + 1] = b[1]
      /\ \A i \in 1 .. Len(a) : Append(a, Head(b))[i] = a[i]
  BY <1>1
<1> DEFINE p == Append(a, Head(b))
           l == p \o Tail(b)
           r == a \o b
<1>3. /\ l \in Seq(S) /\ Len(l) = Len(a) + Len(b)
      /\ \A i \in 1 .. Len(a) + Len(b) :
           l[i] = IF i <= Len(a) + 1 THEN p[i] ELSE Tail(b)[i - (Len(a) + 1)]
  <2> HIDE DEF p
  <2>1. p \in Seq(S) /\ Len(p) = Len(a) + 1
    BY <1>2 DEF p
  <2>2. PICK t : t = Tail(b)
    OBVIOUS
  <2>3. t \in Seq(S) /\ Len(p) + Len(t) = Len(a) + Len(b)
    BY <1>1, <2>1, <2>2
  <2>4. /\ p \o t \in Seq(S)
        /\ Len(p \o t) = Len(p) + Len(t)
        /\ \A i \in 1 .. Len(p) + Len(t) : (p \o t)[i] = IF i <= Len(p) THEN p[i] ELSE t[i - Len(p)]
    BY <2>1, <2>3, ConcatProperties
  <2> QED BY <2>1, <2>2, <2>3, <2>4
<1>4. /\ r \in Seq(S) /\ Len(r) = Len(a) + Len(b)
      /\ \A i \in 1 .. Len(a) + Len(b) : r[i] = IF i <= Len(a) THEN a[i] ELSE b[i - Len(a)]
  BY ConcatProperties
<1>5. \A i \in 1 .. Len(b) - 1 : Tail(b)[i] = b[i + 1]
  BY <1>1
<1>6. p \in Seq(S) /\ p[Len(a) + 1] = b[1] /\ \A i \in 1 .. Len(a) : p[i] = a[i]
  BY <1>2
<1> HIDE DEF p, l, r
<1>7. ASSUME NEW i \in 1 .. Len(a) + Len(b) PROVE l[i] = r[i]
  <2>1. CASE i <= Len(a)
    BY <1>1, <1>3, <1>4, <1>6, <2>1
  <2>2. CASE i = Len(a) + 1
    BY <1>1, <1>3, <1>4, <1>6, <2>2
  <2>3. CASE i > Len(a) + 1
    <3>1. i - (Len(a) + 1) \in 1 .. Len(b) - 1 /\ (i - (Len(a) + 1)) + 1 = i - Len(a)
      BY <1>1, <2>3
    <3> QED BY <1>1, <1>3, <1>4, <1>5, <2>3, <3>1
  <2> QED BY <1>1, <2>1, <2>2, <2>3
<1>8. l = r
  BY <1>3, <1>4, <1>7, SeqEqual
<1> QED BY <1>8 DEF l, r, p

LEMMA Regroup ==
  ASSUME NEW a \in Seq(Event), NEW b \in Seq(Event), NEW c \in Seq(Event)
  PROVE  (a \o b) \o c = a \o (b \o c)
BY ConcatAssociative

LEMMA TailConcat ==
  ASSUME NEW S, NEW a \in Seq(S), NEW b \in Seq(S), a # <<>>
  PROVE  /\ a \o b # <<>> /\ Tail(a \o b) = Tail(a) \o b
         /\ (a \o b)[1] = Head(a)
<1>1. /\ Tail(a) \in Seq(S) /\ Len(Tail(a)) = Len(a) - 1 /\ Head(a) = a[1]
      /\ Len(a) \in Nat \ {0} /\ Len(b) \in Nat
      /\ \A i \in 1 .. Len(a) - 1 : Tail(a)[i] = a[i + 1]
  BY HeadTailProperties
<1> DEFINE c == a \o b
           d == Tail(a) \o b
<1>2. /\ c \in Seq(S) /\ Len(c) = Len(a) + Len(b)
      /\ \A i \in 1 .. Len(a) + Len(b) : c[i] = IF i <= Len(a) THEN a[i] ELSE b[i - Len(a)]
  BY ConcatProperties
<1>3. /\ d \in Seq(S) /\ Len(d) = (Len(a) - 1) + Len(b)
      /\ \A i \in 1 .. (Len(a) - 1) + Len(b) :
           d[i] = IF i <= Len(a) - 1 THEN Tail(a)[i] ELSE b[i - (Len(a) - 1)]
  BY <1>1, ConcatProperties
<1> HIDE DEF c, d
<1>4. c # <<>>
  BY <1>1, <1>2
<1>5. /\ Tail(c) \in Seq(S) /\ Len(Tail(c)) = Len(c) - 1
      /\ \A i \in 1 .. Len(c) - 1 : Tail(c)[i] = c[i + 1]
  BY <1>2, <1>4, HeadTailProperties
<1>6. ASSUME NEW i \in 1 .. (Len(a) - 1) + Len(b) PROVE Tail(c)[i] = d[i]
  <2>1. Tail(c)[i] = c[i + 1] /\ i + 1 \in 1 .. Len(a) + Len(b)
    BY <1>1, <1>2, <1>5
  <2>2. CASE i <= Len(a) - 1
    BY <1>1, <1>2, <1>3, <2>1, <2>2
  <2>3. CASE i > Len(a) - 1
    <3>1. (i + 1) - Len(a) = i - (Len(a) - 1)
      BY <1>1
    <3> QED BY <1>1, <1>2, <1>3, <2>1, <2>3, <3>1
  <2>4. i <= Len(a) - 1 \/ i > Len(a) - 1
    BY <1>1
  <2> QED BY <2>2, <2>3, <2>4
<1>7. Tail(c) = d
  BY <1>1, <1>2, <1>3, <1>5, <1>6, SeqEqual
<1>8. c[1] = Head(a)
  BY <1>1, <1>2
<1> QED BY <1>4, <1>7, <1>8 DEF c, d

LEMMA FirstOf ==
  ASSUME NEW a \in Seq(Event), NEW b \in Seq(Event), a # <<>>
  PROVE  /\ 1 \in 1 .. Len(a \o b) /\ (a \o b)[1] = Head(a)
         /\ Len(a \o b) = 1 => Tail(a) = <<>> /\ b = <<>>
<1>1. /\ Len(a) \in Nat \ {0} /\ Len(b) \in Nat
      /\ Tail(a) \in Seq(Event) /\ Len(Tail(a)) = Len(a) - 1
  BY HeadTailProperties
<1>2. PICK n : n = Len(a \o b)
  OBVIOUS
<1>3. n = Len(a) + Len(b)
  BY <1>2, ConcatProperties
<1>4. n = 1 => Len(Tail(a)) = 0 /\ Len(b) = 0
  BY <1>1, <1>3
<1>5. n = 1 => Tail(a) = <<>> /\ b = <<>>
  <2>1. PICK t : t = Tail(a)
    OBVIOUS
  <2>2. t \in Seq(Event) /\ (Len(t) = 0 => t = <<>>) /\ (Len(b) = 0 => b = <<>>)
    BY <1>1, <2>1, EmptySeq
  <2> QED BY <1>4, <2>1, <2>2
<1>6. 1 \in 1 .. n
  BY <1>1, <1>3
<1> QED BY <1>2, <1>5, <1>6, TailConcat

\* An end event is last, or there is none.
Ends == {"end_ok", "end_failed"}
NoEnds(q) == \A i \in 1 .. Len(q) : q[i] \notin Ends
EndLast(q) == \A i \in 1 .. Len(q) : q[i] \in Ends => i = Len(q)

LEMMA EndsOfParts ==
  ASSUME NEW a \in Seq(Event), NEW b \in Seq(Event)
  PROVE  /\ NoEnds(a) /\ NoEnds(b) => NoEnds(a \o b)
         /\ NoEnds(a) /\ EndLast(b) => EndLast(a \o b)
         /\ NoEnds(a \o b) => NoEnds(a)
         /\ EndLast(a \o b) => EndLast(a)
         /\ EndLast(a) /\ a # <<>> => EndLast(Tail(a))
         /\ NoEnds(a) /\ a # <<>> => NoEnds(Tail(a))
         /\ NoEnds(a) => EndLast(a)
<1> DEFINE c == a \o b
<1>1. /\ c \in Seq(Event) /\ Len(c) = Len(a) + Len(b) /\ Len(a) \in Nat /\ Len(b) \in Nat
      /\ \A i \in 1 .. Len(a) + Len(b) : c[i] = IF i <= Len(a) THEN a[i] ELSE b[i - Len(a)]
  BY ConcatProperties
<1> HIDE DEF c
<1>2. ASSUME NEW i \in 1 .. Len(c)
      PROVE  \/ i \in 1 .. Len(a) /\ c[i] = a[i]
             \/ i - Len(a) \in 1 .. Len(b) /\ c[i] = b[i - Len(a)] /\ (i - Len(a) = Len(b) => i = Len(c))
  BY <1>1
<1>3. \A i \in 1 .. Len(a) : i \in 1 .. Len(c) /\ c[i] = a[i] /\ (i = Len(c) => i = Len(a))
  BY <1>1
<1>4. NoEnds(a) /\ NoEnds(b) => NoEnds(c)
  BY <1>2 DEF NoEnds
<1>5. NoEnds(a) /\ EndLast(b) => EndLast(c)
  BY <1>2 DEF NoEnds, EndLast
<1>6. NoEnds(c) => NoEnds(a)
  BY <1>3 DEF NoEnds
<1>7. EndLast(c) => EndLast(a)
  BY <1>3 DEF EndLast
<1>8. ASSUME a # <<>> PROVE \A i \in 1 .. Len(Tail(a)) :
        /\ i + 1 \in 1 .. Len(a) /\ Tail(a)[i] = a[i + 1]
        /\ (i + 1 = Len(a) => i = Len(Tail(a)))
  <2>1. /\ Len(Tail(a)) = Len(a) - 1 /\ \A i \in 1 .. Len(Tail(a)) : Tail(a)[i] = a[i + 1]
    BY <1>8, HeadTailProperties
  <2> QED BY <1>1, <2>1
<1>9. EndLast(a) /\ a # <<>> => EndLast(Tail(a))
  BY <1>8 DEF EndLast
<1>10. NoEnds(a) /\ a # <<>> => NoEnds(Tail(a))
  BY <1>8 DEF NoEnds
<1> QED BY <1>4, <1>5, <1>6, <1>7, <1>9, <1>10 DEF NoEnds, EndLast, c

LEMMA SmallEnds ==
  /\ NoEnds(<<>>) /\ NoEnds(<<"error">>) /\ NoEnds(<<"file_edit">>)
  /\ \A b : EndLast(SessionEnd(b)) /\ SessionEnd(b) \in Seq(Event)
<1>1. NoEnds(<<>>) /\ NoEnds(<<"error">>) /\ NoEnds(<<"file_edit">>)
  BY DEF NoEnds, Ends
<1>2. /\ EndLast(<<"end_ok">>) /\ <<"end_ok">> \in Seq(Event)
      /\ EndLast(<<"end_failed">>) /\ <<"end_failed">> \in Seq(Event)
  BY DEF EndLast, Event
<1> QED BY <1>1, <1>2 DEF SessionEnd


-----------------------------------------------------------------------------
(* Nothing is dropped.                                                     *)

LEMMA MeaningType ==
  ASSUME Structured, NEW s, said[s] \in Seq(Line), NEW n \in Nat, n <= Len(said[s]),
         \A i \in 1 .. n : said[s][i] # "binary"
  PROVE  Meaning(s, n) \in Seq(Event)
<1>1. \A i \in 1 .. n : Parse(said[s][i]) \in Seq(Event)
  <2>1. ASSUME NEW i \in 1 .. n PROVE said[s][i] \in Line \ {"binary"}
    OBVIOUS
  <2> QED BY <2>1, ParseIsSeq
<1> DEFINE seqs == [i \in 1 .. n |-> Parse(said[s][i])]
<1>2. seqs \in Seq(Seq(Event))
  <2> DEFINE P(i) == Parse(said[s][i])
  <2>1. \A i \in 1 .. n : P(i) \in Seq(Event)
    BY <1>1
  <2> HIDE DEF P
  <2> QED BY <2>1 DEF P
<1> HIDE DEF seqs
<1> QED BY <1>2, FlattenType DEF Meaning, seqs

\* The lines printed later do not change what the earlier ones mean.
LEMMA MeaningSame ==
  ASSUME NEW s, NEW n \in Nat, style' = style, \A i \in 1 .. n : said'[s][i] = said[s][i]
  PROVE  Meaning(s, n)' = Meaning(s, n)
<1>1. \A i \in 1 .. n : Parse(said[s][i])' = Parse(said[s][i])
  <2>1. ASSUME NEW i \in 1 .. n PROVE Parse(said[s][i])' = Parse(said[s][i])
    <3>1. PICK line : line = said[s][i]
      OBVIOUS
    <3>2. said'[s][i] = line
      BY <3>1
    <3>3. Parse(line)' = Parse(line)
      BY DEF Parse
    <3> QED BY <3>1, <3>2, <3>3
  <2> QED BY <2>1
<1>3. [i \in 1 .. n |-> Parse(said[s][i])]' = [i \in 1 .. n |-> Parse(said[s][i])]
  BY <1>1
<1> QED BY <1>3 DEF Meaning

\* What codex reports once its process is gone.
Closing(s) == IF style = "codex" /\ observer[s] \in {"end", "gone"} THEN SessionEnd(ok[s]) ELSE <<>>
Pending(s) == channel[s] \o sending[s]

StreamAt(s) ==
  Structured /\ Open(s) =>
    received[s] \o channel[s] \o sending[s] = Meaning(s, heard[s]) \o Closing(s)
HeardToTheEnd(s) ==
  outcome[s] = "ok" /\ style = "codex" =>
    Eof(s) /\ received[s] = Meaning(s, heard[s]) \o SessionEnd(TRUE)
ExitAt(s) ==
  style = "codex" =>
    /\ observer[s] \notin {"end", "gone"} => ~ ok[s] /\ outcome[s] # "ok"
    /\ EndLast(Pending(s))
    /\ observer[s] \notin {"end", "gone"} => NoEnds(Pending(s))

\* The queues are sequences of events, and so is what was read.
LEMMA Queues ==
  ASSUME TypeOK, NEW s \in Sessions
  PROVE  /\ sending \in [Sessions -> Seq(Event)] /\ channel \in [Sessions -> Seq(Event)]
         /\ received \in [Sessions -> Seq(Event)]
         /\ said[s] \in Seq(Line) /\ heard[s] \in Nat /\ heard[s] <= Len(said[s])
         /\ heard \in [Sessions -> Nat]
         /\ sending[s] \in Seq(Event) /\ channel[s] \in Seq(Event) /\ received[s] \in Seq(Event)
         /\ DOMAIN observer = Sessions /\ DOMAIN ok = Sessions /\ DOMAIN outcome = Sessions
         /\ DOMAIN scheduler = Sessions /\ ok[s] \in BOOLEAN
         /\ Pending(s) \in Seq(Event)
         /\ received[s] \o channel[s] \in Seq(Event)
BY ConcatProperties DEF TypeOK, Pending

LEMMA OpenBefore ==
  ASSUME TypeOK, NEW s \in Sessions, CliNext(s) \/ SchedulerNext(s) \/ ObserverNext(s),
         scheduler'[s] # "over"
  PROVE  scheduler[s] # "over"
BY Queues DEF CliNext, Say, CloseStdout, Exit, SchedulerNext, SpawnCli, Insert, Observe, Receive,
   ChannelCloses, TimesOut, Kill, KillDone, KillByPid, Finish, ObserverNext, ReadLine, ReadEof, Send,
   SendFails, SummarySent, TakeChild, Wait, ObserverEnds

LEMMA StreamOfSession ==
  ASSUME TypeOK, NEW s \in Sessions, ChildAt(s), ReadAt(s), ExitAt(s), StreamAt(s),
         CliNext(s) \/ SchedulerNext(s) \/ ObserverNext(s)
  PROVE  StreamAt(s)'
<1> SUFFICES ASSUME Structured', scheduler'[s] # "over"
             PROVE  (received[s] \o channel[s] \o sending[s])' = (Meaning(s, heard[s]) \o Closing(s))'
  BY DEF StreamAt, Open
<1>0. /\ style' = style /\ Structured /\ scheduler[s] # "over" /\ style # "copilot"
      /\ style \in {"claude", "codex"}
  BY SameStyle, OpenBefore DEF Structured
<1> DEFINE r == received[s]
           c == channel[s]
           q == sending[s]
<1>1. r \in Seq(Event) /\ c \in Seq(Event) /\ q \in Seq(Event) /\ r \o c \in Seq(Event)
  BY Queues
<1>h. PICK h : h = heard[s]
  OBVIOUS
<1>2. h \in Nat /\ h <= Len(said[s]) /\ said[s] \in Seq(Line) /\ Len(said[s]) \in Nat
  BY <1>h, Queues
<1>3. \A i \in 1 .. h : said[s][i] # "binary" /\ i \in 1 .. Len(said[s])
  BY <1>h, <1>2 DEF ReadAt
<1>4. r \o c \o q = Meaning(s, h) \o Closing(s)
  BY <1>0, <1>h DEF StreamAt, Open
<1>5. Meaning(s, h) \in Seq(Event)
  BY <1>0, <1>2, <1>3, MeaningType
<1>6. Meaning(s, h)' = Meaning(s, h)
  <2>1. \A i \in 1 .. h : said'[s][i] = said[s][i]
    BY <1>3, SaidGrows
  <2> QED BY <1>0, <1>2, <2>1, MeaningSame
<1>7. ASSUME heard'[s] = heard[s], received'[s] \o channel'[s] \o sending'[s] = r \o c \o q,
             Closing(s)' = Closing(s)
      PROVE  (received[s] \o channel[s] \o sending[s])' = (Meaning(s, heard[s]) \o Closing(s))'
  <2>1. Meaning(s, heard[s])' = Meaning(s, h)
    <3>1. heard'[s] = h
      BY <1>7, <1>h
    <3> QED BY <1>6, <3>1
  <2> QED BY <1>4, <1>7, <2>1
<1>8. CASE Receive(s)
  <2>1. /\ c # <<>> /\ channel'[s] = Tail(c) /\ received'[s] = Append(r, Head(c))
        /\ UNCHANGED <<heard, sending, observer, ok>>
    BY <1>8, Queues DEF Receive, stream
  <2>2. Append(r, Head(c)) \o Tail(c) = r \o c
    BY <1>1, <2>1, Moved
  <2>3. received'[s] \o channel'[s] \o sending'[s] = r \o c \o q
    BY <2>1, <2>2
  <2>4. Closing(s)' = Closing(s)
    BY <1>0, <2>1 DEF Closing, SessionEnd
  <2> QED BY <1>7, <2>1, <2>3, <2>4
<1>9. CASE Send(s)
  <2>1. /\ q # <<>> /\ sending'[s] = Tail(q) /\ channel'[s] = Append(c, Head(q))
        /\ UNCHANGED <<heard, received, observer, ok>>
    BY <1>9, Queues DEF Send, Deliver
  <2>2. /\ Append(c, Head(q)) \o Tail(q) = c \o q
        /\ Append(c, Head(q)) \in Seq(Event) /\ Tail(q) \in Seq(Event)
    BY <1>1, <2>1, Moved, SeqParts, AppendProperties
  <2>3. (r \o Append(c, Head(q))) \o Tail(q) = r \o (Append(c, Head(q)) \o Tail(q))
    <3>1. PICK a, b : a = Append(c, Head(q)) /\ b = Tail(q)
      OBVIOUS
    <3>2. a \in Seq(Event) /\ b \in Seq(Event)
      BY <2>2, <3>1
    <3>3. (r \o a) \o b = r \o (a \o b)
      BY <1>1, <3>2, Regroup, Zenon
    <3> QED BY <3>1, <3>3
  <2>4. (r \o c) \o q = r \o (c \o q)
    BY <1>1, Regroup, Zenon
  <2>5. received'[s] \o channel'[s] \o sending'[s] = r \o c \o q
    BY <2>1, <2>2, <2>3, <2>4
  <2>6. Closing(s)' = Closing(s)
    BY <1>0, <2>1 DEF Closing, SessionEnd
  <2> QED BY <1>7, <2>1, <2>5, <2>6
<1>10. CASE ReadLine(s)
  <2>1. /\ q = <<>> /\ heard'[s] = h + 1 /\ sending'[s] = Parse(said[s][h + 1])
        /\ observer[s] = "read"
        /\ UNCHANGED <<said, channel, received, observer>>
    BY <1>0, <1>10, <1>h, Queues DEF ReadLine, process
  <2>2. h + 1 <= Len(said[s]) /\ \A i \in 1 .. h + 1 : said[s][i] # "binary" /\ said'[s][i] = said[s][i]
    <3>1. h + 1 \in 1 .. Len(said[s]) /\ said[s][h + 1] # "binary"
      BY <1>10, <1>h, NextLine
    <3>2. \A i \in 1 .. h + 1 : i \in 1 .. h \/ i = h + 1
      BY <1>2
    <3> QED BY <1>2, <1>3, <2>1, <3>1, <3>2
  <2>3. Closing(s) = <<>> /\ Closing(s)' = <<>>
    BY <2>1 DEF Closing
  <2>4. Meaning(s, h + 1) = Meaning(s, h) \o Parse(said[s][h + 1])
    BY <1>0, <1>2, <2>2, MeaningStep
  <2>5. Meaning(s, heard[s])' = Meaning(s, h + 1)
    <3>1. PICK k : k = h + 1
      OBVIOUS
    <3>2. k \in Nat /\ \A i \in 1 .. k : said'[s][i] = said[s][i]
      BY <1>2, <2>2, <3>1
    <3>3. Meaning(s, k)' = Meaning(s, k)
      BY <1>0, <3>2, MeaningSame
    <3>4. heard'[s] = k
      BY <2>1, <3>1
    <3> QED BY <3>1, <3>3, <3>4
  <2>6. r \o c = Meaning(s, h)
    BY <1>1, <1>4, <1>5, <2>1, <2>3, ConcatEmptySeq
  <2>7. Meaning(s, h + 1) \in Seq(Event)
    BY <1>0, <1>2, <2>2, MeaningType
  <2>8. Meaning(s, h + 1) \o <<>> = Meaning(s, h + 1)
    BY <2>7, ConcatEmptySeq
  <2> QED BY <2>1, <2>3, <2>4, <2>5, <2>6, <2>8
<1>11. CASE ReadEof(s)
  <2>1. /\ q = <<>> /\ sending'[s] = <<>> /\ observer[s] = "read"
        /\ observer'[s] = IF style = "claude" THEN "gone" ELSE "take"
        /\ UNCHANGED <<heard, channel, received>>
    BY <1>0, <1>11, Queues DEF ReadEof, AfterStream
  <2>2. Closing(s)' = Closing(s)
    BY <1>0, <2>1 DEF Closing
  <2> QED BY <1>7, <2>1, <2>2
<1>12. CASE TakeChild(s)
  <2>1. observer[s] = "take" /\ q = <<>> /\ style = "codex" /\ ~ ok[s] /\ Closing(s) = <<>>
        /\ UNCHANGED <<heard, channel, received, ok>>
    BY <1>0, <1>12 DEF TakeChild, ChildAt, ReadAt, ExitAt, Closing
  <2>2. CASE child[s] = "registry"
    <3>1. observer'[s] = "wait" /\ UNCHANGED sending
      BY <1>12, <2>2, Queues DEF TakeChild
    <3> QED BY <1>7, <2>1, <3>1 DEF Closing
  <2>3. CASE child[s] # "registry"
    <3>1. observer'[s] = "end" /\ sending'[s] = SessionEnd(FALSE)
      BY <1>12, <2>3, Queues DEF TakeChild
    <3>2. Closing(s)' = SessionEnd(FALSE)
      BY <1>0, <2>1, <3>1 DEF Closing, SessionEnd
    <3>3. Meaning(s, heard[s])' = Meaning(s, h)
      <4>1. heard'[s] = h
        BY <2>1, <1>h
      <4> QED BY <1>6, <4>1
    <3>4. r \o c = Meaning(s, h)
      BY <1>1, <1>4, <1>5, <2>1, ConcatEmptySeq
    <3> QED BY <2>1, <3>1, <3>2, <3>3, <3>4
  <2> QED BY <2>2, <2>3
<1>13. CASE Wait(s)
  <2>1. observer[s] = "wait" /\ q = <<>> /\ style = "codex" /\ Closing(s) = <<>>
        /\ UNCHANGED <<heard, channel, received>>
    BY <1>0, <1>13 DEF Wait, ChildAt, ReadAt, Closing
  <2>2. /\ observer'[s] = "end" /\ ok'[s] = cli[s].success
        /\ sending'[s] = SessionEnd(cli[s].success)
    <3>1. PICK edits \in Edits : sending' = [sending EXCEPT ![s] = edits \o SessionEnd(cli[s].success)]
      BY <1>13 DEF Wait
    <3>2. edits = <<>>
      BY <1>0 DEF Edits
    <3>3. <<>> \o SessionEnd(cli[s].success) = SessionEnd(cli[s].success)
      BY SmallEnds, ConcatEmptySeq
    <3> QED BY <1>13, <3>1, <3>2, <3>3, Queues DEF Wait
  <2>3. Closing(s)' = SessionEnd(cli[s].success)
    BY <1>0, <2>1, <2>2 DEF Closing, SessionEnd
  <2>4. Meaning(s, heard[s])' = Meaning(s, h)
    <3>1. heard'[s] = h
      BY <2>1, <1>h
    <3> QED BY <1>6, <3>1
  <2>5. r \o c = Meaning(s, h)
    BY <1>1, <1>4, <1>5, <2>1, ConcatEmptySeq
  <2> QED BY <2>1, <2>2, <2>3, <2>4, <2>5
<1>14. CASE Observe(s) \/ ObserverEnds(s)
  <2>1. /\ UNCHANGED <<heard, sending, channel, received, ok>>
        /\ observer[s] \in {"end", "gone"} <=> observer'[s] \in {"end", "gone"}
    BY <1>14, Queues DEF Observe, ObserverEnds, ChildAt, stream
  <2> QED BY <1>0, <1>7, <2>1 DEF Closing, SessionEnd
<1>15. CASE UNCHANGED <<heard, sending, channel, received, ok, observer>>
  BY <1>0, <1>7, <1>15 DEF Closing, SessionEnd
<1>16. ~ SendFails(s) /\ ~ SummarySent(s)
  BY <1>0 DEF SendFails, Open, SummarySent, ReadAt
<1>17. \/ Receive(s) \/ Send(s) \/ ReadLine(s) \/ ReadEof(s) \/ TakeChild(s) \/ Wait(s) \/ Observe(s)
       \/ ObserverEnds(s) \/ UNCHANGED <<heard, sending, channel, received, ok, observer>>
  BY <1>16 DEF CliNext, Say, CloseStdout, Exit, SchedulerNext, SpawnCli, Insert, ChannelCloses, TimesOut,
         Kill, KillDone, KillByPid, ObserverNext, stream
<1> QED BY <1>8, <1>9, <1>10, <1>11, <1>12, <1>13, <1>14, <1>15, <1>17


\* Where the session of codex is over, its exit status was the last event.
LEMMA HeardOfSession ==
  ASSUME TypeOK, NEW s \in Sessions, ChildAt(s), ReadAt(s), ExitAt(s), StreamAt(s), HeardToTheEnd(s),
         CliNext(s) \/ SchedulerNext(s) \/ ObserverNext(s)
  PROVE  HeardToTheEnd(s)'
<1> SUFFICES ASSUME outcome'[s] = "ok", style' = "codex"
             PROVE  Eof(s)' /\ (received[s] = Meaning(s, heard[s]) \o SessionEnd(TRUE))'
  BY DEF HeardToTheEnd
<1>0. style = "codex" /\ style' = style /\ Structured
  BY SameStyle DEF Structured
<1>h. PICK h : h = heard[s]
  OBVIOUS
<1>1. h \in Nat /\ h <= Len(said[s]) /\ said[s] \in Seq(Line) /\ Len(said[s]) \in Nat
  BY <1>h, Queues
<1>2. \A i \in 1 .. h : said[s][i] # "binary" /\ i \in 1 .. Len(said[s])
  BY <1>h, <1>1 DEF ReadAt
<1>3. Meaning(s, h)' = Meaning(s, h)
  <2>1. \A i \in 1 .. h : said'[s][i] = said[s][i]
    BY <1>2, SaidGrows
  <2> QED BY <1>0, <1>1, <2>1, MeaningSame
<1>4. ASSUME Eof(s), received'[s] = Meaning(s, h) \o SessionEnd(TRUE)
      PROVE  Eof(s)' /\ (received[s] = Meaning(s, heard[s]) \o SessionEnd(TRUE))'
  <2>1. Eof(s)' /\ heard'[s] = h
    BY <1>4, <1>h, EofStays
  <2>2. Meaning(s, heard[s])' = Meaning(s, h)
    BY <1>3, <2>1
  <2>3. SessionEnd(TRUE)' = SessionEnd(TRUE)
    BY DEF SessionEnd
  <2> QED BY <1>4, <2>1, <2>2, <2>3
<1>5. CASE Receive(s)
  <2> DEFINE r == received[s]
             c == channel[s]
             q == sending[s]
  <2>1. /\ scheduler[s] = "drain" /\ c # <<>> /\ received'[s] = Append(r, Head(c))
        /\ r \in Seq(Event) /\ c \in Seq(Event) /\ q \in Seq(Event)
        /\ Meaning(s, h) \in Seq(Event)
    BY <1>0, <1>1, <1>2, <1>5, Queues, MeaningType DEF Receive
  <2>2. Head(c) = "end_ok"
    BY <1>5, <2>1, Queues DEF Receive, Finish, Verdict, LastEvents, ChildAt
  <2>3. 1 \in 1 .. Len(c \o q) /\ (c \o q)[1] = "end_ok"
    BY <2>1, <2>2, FirstOf
  <2>4. Len(c \o q) = 1 /\ observer[s] \in {"end", "gone"}
    <3>1. EndLast(c \o q) /\ (observer[s] \notin {"end", "gone"} => NoEnds(c \o q))
      BY <1>0 DEF ExitAt, Pending
    <3>2. PICK p : p = c \o q
      OBVIOUS
    <3>3. 1 \in 1 .. Len(p) /\ p[1] \in Ends
      BY <2>3, <3>2 DEF Ends
    <3>4. 1 = Len(p) /\ ~ NoEnds(p)
      BY <3>1, <3>2, <3>3 DEF EndLast, NoEnds
    <3> QED BY <3>1, <3>2, <3>4
  <2>6. q = <<>> /\ Tail(c) = <<>>
    BY <2>1, <2>4, FirstOf
  <2>7. Append(r, Head(c)) = r \o c
    <3>1. Append(r, Head(c)) \in Seq(Event)
      BY <2>1, AppendProperties, SeqParts
    <3>2. Append(r, Head(c)) \o Tail(c) = r \o c
      BY <2>1, Moved
    <3> QED BY <2>6, <3>1, <3>2, ConcatEmptySeq
  <2>8. Append(r, Head(c)) = Meaning(s, h) \o SessionEnd(ok[s])
    <3>1. r \o c \in Seq(Event)
      BY <2>1, ConcatProperties
    <3>2. (r \o c) \o q = r \o c
      BY <2>6, <3>1, ConcatEmptySeq
    <3>3. (r \o c) \o q = Meaning(s, h) \o SessionEnd(ok[s])
      BY <1>0, <1>h, <2>1, <2>4 DEF StreamAt, Open, Closing
    <3> QED BY <2>7, <3>2, <3>3
  <2>9. ok[s]
    <3>1. SUFFICES ASSUME ~ ok[s] PROVE FALSE
      OBVIOUS
    <3>2. Meaning(s, h) \o <<"end_failed">> = Append(Meaning(s, h), "end_failed")
      BY <2>1, AppendIsConcat DEF Event
    <3>3. Append(r, "end_ok") = Append(Meaning(s, h), "end_failed")
      BY <2>2, <2>8, <3>1, <3>2 DEF SessionEnd
    <3>4. PICK m : m = Meaning(s, h)
      OBVIOUS
    <3>5. Append(r, "end_ok") = Append(m, "end_failed") /\ m \in Seq(Event)
      BY <2>1, <3>3, <3>4
    <3> QED BY <2>1, <3>5
  <2>10. Eof(s)
    BY <1>0, <2>1, <2>4 DEF ReadAt, Open
  <2>11. received'[s] = Meaning(s, h) \o SessionEnd(TRUE)
    <3>1. ok[s] = TRUE
      BY <2>9, Queues
    <3> QED BY <2>1, <2>8, <3>1
  <2> QED BY <1>4, <2>10, <2>11
<1>6. CASE ~ Receive(s)
  <2>1. outcome[s] = "ok" /\ UNCHANGED received
    BY <1>6, Queues
    DEF CliNext, Say, CloseStdout, Exit, SchedulerNext, SpawnCli, Insert, Observe, ChannelCloses, TimesOut,
        Kill, KillDone, KillByPid, Finish, ObserverNext, ReadLine, ReadEof, Send,
        SendFails, SummarySent, TakeChild, Wait, ObserverEnds
  <2>2. Eof(s) /\ received[s] = Meaning(s, h) \o SessionEnd(TRUE)
    BY <1>0, <1>h, <2>1 DEF HeardToTheEnd
  <2> QED BY <1>4, <2>1, <2>2
<1> QED BY <1>5, <1>6

LEMMA ExitOfSession ==
  ASSUME TypeOK, NEW s \in Sessions, ChildAt(s), ReadAt(s), ExitAt(s),
         CliNext(s) \/ SchedulerNext(s) \/ ObserverNext(s)
  PROVE  ExitAt(s)'
<1> SUFFICES ASSUME style' = "codex"
             PROVE  /\ observer'[s] \notin {"end", "gone"} => ~ ok'[s] /\ outcome'[s] # "ok"
                    /\ EndLast(Pending(s)')
                    /\ observer'[s] \notin {"end", "gone"} => NoEnds(Pending(s)')
  BY DEF ExitAt, EndLast, NoEnds, Ends
<1> DEFINE c == channel[s]
           q == sending[s]
<1>0. /\ style = "codex" /\ Structured /\ EndLast(c \o q)
      /\ observer[s] \notin {"end", "gone"} => ~ ok[s] /\ outcome[s] # "ok" /\ NoEnds(c \o q)
  BY SameStyle DEF Structured, ExitAt, Pending
<1>1. /\ c \in Seq(Event) /\ q \in Seq(Event) /\ c \o q \in Seq(Event)
      /\ DOMAIN observer = Sessions /\ DOMAIN ok = Sessions /\ DOMAIN outcome = Sessions
      /\ DOMAIN scheduler = Sessions
      /\ sending \in [Sessions -> Seq(Event)] /\ channel \in [Sessions -> Seq(Event)]
  BY Queues DEF Pending
<1>2. Pending(s)' = channel'[s] \o sending'[s]
  BY DEF Pending
<1>3. EndLast(c) /\ (observer[s] \notin {"end", "gone"} => NoEnds(c))
  BY <1>0, <1>1, EndsOfParts
<1>4. CASE Receive(s)
  <2>1. /\ c # <<>> /\ channel'[s] = Tail(c) /\ UNCHANGED <<sending, observer, ok>>
    BY <1>1, <1>4 DEF Receive, stream
  <2>2. c \o q # <<>> /\ Tail(c \o q) = Tail(c) \o q /\ (c \o q)[1] = Head(c)
    BY <1>1, <2>1, TailConcat
  <2>3. EndLast(Tail(c \o q)) /\ (observer[s] \notin {"end", "gone"} => NoEnds(Tail(c \o q)))
    <3>1. PICK p : p = c \o q
      OBVIOUS
    <3>2. p \in Seq(Event) /\ p # <<>> /\ EndLast(p) /\ (observer[s] \notin {"end", "gone"} => NoEnds(p))
      BY <1>0, <1>1, <2>2, <3>1
    <3>3. EndLast(Tail(p)) /\ (observer[s] \notin {"end", "gone"} => NoEnds(Tail(p)))
      BY <3>2, EndsOfParts
    <3> QED BY <3>1, <3>3
  <2>4. observer[s] \notin {"end", "gone"} => outcome'[s] # "ok"
    <3>1. ASSUME observer[s] \notin {"end", "gone"} PROVE Head(c) # "end_ok"
      <4>2. 1 \in 1 .. Len(c \o q)
        BY <1>1, <2>1, FirstOf
      <4> QED BY <1>0, <2>2, <3>1, <4>2 DEF NoEnds, Ends
    <3> QED BY <1>0, <1>1, <1>4, <3>1 DEF Receive, Finish, Verdict, LastEvents
  <2> QED BY <1>0, <1>2, <2>1, <2>2, <2>3, <2>4
<1>5. CASE Send(s)
  <2>1. /\ q # <<>> /\ sending'[s] = Tail(q) /\ channel'[s] = Append(c, Head(q))
        /\ UNCHANGED <<observer, ok, outcome>>
    BY <1>1, <1>5 DEF Send, Deliver
  <2>2. Append(c, Head(q)) \o Tail(q) = c \o q
    BY <1>1, <2>1, Moved
  <2> QED BY <1>0, <1>2, <2>1, <2>2
<1>6. CASE ReadLine(s)
  <2> DEFINE events == Parse(said[s][heard[s] + 1])
  <2>1. /\ sending'[s] = events /\ observer[s] = "read"
        /\ UNCHANGED <<channel, observer, ok, outcome>>
    BY <1>0, <1>1, <1>6 DEF ReadLine
  <2>2. events \in Seq(Event) /\ events \in {<<>>, <<"error">>, <<"file_edit">>}
    BY <1>0, <1>6, NextLine, ParseIsSeq
  <2> HIDE DEF events
  <2>3. NoEnds(events) /\ NoEnds(c)
    BY <1>3, <2>1, <2>2, SmallEnds
  <2>4. PICK e : e = c \o events
    OBVIOUS
  <2>5. e \in Seq(Event) /\ NoEnds(e)
    BY <1>1, <2>2, <2>3, <2>4, EndsOfParts, ConcatProperties
  <2>6. EndLast(e)
    BY <2>5 DEF EndLast, NoEnds
  <2> QED BY <1>0, <1>2, <2>1, <2>4, <2>5, <2>6
<1>7. CASE ReadEof(s) \/ SendFails(s)
  <2>1. /\ sending'[s] = <<>> /\ UNCHANGED <<channel, ok, outcome>>
        /\ observer[s] \in {"end", "gone"} => observer'[s] \in {"end", "gone"}
    BY <1>0, <1>1, <1>7 DEF ReadEof, SendFails, AfterStream
  <2>2. c \o <<>> = c
    BY <1>1, ConcatEmptySeq
  <2>3. observer'[s] \notin {"end", "gone"} => observer[s] \notin {"end", "gone"}
    BY <2>1
  <2> QED BY <1>0, <1>2, <1>3, <2>1, <2>2, <2>3
<1>8. CASE TakeChild(s)
  <2>1. /\ UNCHANGED <<channel, ok, outcome>> /\ q = <<>> /\ observer[s] = "take"
        /\ \/ sending' = sending /\ observer'[s] = "wait"
           \/ sending'[s] = SessionEnd(FALSE) /\ observer'[s] = "end"
    BY <1>1, <1>8 DEF TakeChild, ChildAt
  <2>2. CASE sending' = sending /\ observer'[s] = "wait"
    BY <1>0, <1>2, <2>1, <2>2
  <2>3. CASE sending'[s] = SessionEnd(FALSE) /\ observer'[s] = "end"
    <3>1. EndLast(c \o SessionEnd(FALSE))
      BY <1>1, <1>3, <2>1, SmallEnds, EndsOfParts
    <3> QED BY <1>2, <2>1, <2>3, <3>1
  <2> QED BY <2>1, <2>2, <2>3
<1>9. CASE Wait(s)
  <2>1. /\ UNCHANGED <<channel, outcome>> /\ observer[s] = "wait" /\ observer'[s] = "end"
        /\ sending'[s] = SessionEnd(cli[s].success)
    <3>1. PICK edits \in Edits : sending' = [sending EXCEPT ![s] = edits \o SessionEnd(cli[s].success)]
      BY <1>9 DEF Wait
    <3>2. edits = <<>>
      BY <1>0 DEF Edits
    <3>3. <<>> \o SessionEnd(cli[s].success) = SessionEnd(cli[s].success)
      BY SmallEnds, ConcatEmptySeq
    <3> QED BY <1>1, <1>9, <3>1, <3>2, <3>3 DEF Wait
  <2>2. EndLast(c \o SessionEnd(cli[s].success))
    BY <1>1, <1>3, <2>1, SmallEnds, EndsOfParts
  <2> QED BY <1>2, <2>1, <2>2
<1>10. CASE UNCHANGED <<channel, sending, ok>>
  <2>1. outcome'[s] = outcome[s] \/ outcome'[s] # "ok" \/ Receive(s)
    BY <1>1
    DEF CliNext, Say, CloseStdout, Exit, SchedulerNext, SpawnCli, Insert, Observe, ChannelCloses, TimesOut,
        Kill, KillDone, KillByPid, Finish, ObserverNext, ReadLine, ReadEof, Send,
        SendFails, SummarySent, TakeChild, Wait, ObserverEnds
  <2>2. observer[s] \in {"end", "gone"} => observer'[s] \in {"end", "gone"}
    BY <1>1
    DEF CliNext, Say, CloseStdout, Exit, SchedulerNext, SpawnCli, Insert, Observe, Receive, ChannelCloses, TimesOut,
        Kill, KillDone, KillByPid, Finish, ObserverNext, ReadLine, ReadEof, Send, ChildAt,
        SendFails, SummarySent, TakeChild, Wait, ObserverEnds
  <2>3. ~ Receive(s) \/ Receive(s)
    OBVIOUS
  <2>4. CASE ~ Receive(s)
    BY <1>0, <1>2, <1>10, <2>1, <2>2, <2>4
  <2> QED BY <1>4, <2>4
<1>11. \/ Receive(s) \/ Send(s) \/ ReadLine(s) \/ ReadEof(s) \/ SendFails(s) \/ TakeChild(s) \/ Wait(s)
       \/ UNCHANGED <<channel, sending, ok>>
  BY DEF CliNext, Say, CloseStdout, Exit, SchedulerNext, SpawnCli, Insert, Observe, ChannelCloses, TimesOut,
         Kill, KillDone, KillByPid, ObserverNext, SummarySent, ObserverEnds, stream
<1> QED BY <1>4, <1>5, <1>6, <1>7, <1>8, <1>9, <1>10, <1>11

LEMMA StreamStep ==
  ASSUME TypeOK, ChildInv, ReadInv, ExitInv, NothingDropped, NEW s \in Sessions,
         CliNext(s) \/ SchedulerNext(s) \/ ObserverNext(s)
  PROVE  ExitInv' /\ NothingDropped'
<1>1. ASSUME NEW t \in Sessions
      PROVE  ChildAt(t) /\ ReadAt(t) /\ ExitAt(t) /\ StreamAt(t) /\ HeardToTheEnd(t)
  <2>1. ChildAt(t) /\ ReadAt(t)
    BY DEF ChildInv, ReadInv, ChildAt, ReadAt
  <2>2. ExitAt(t)
    BY DEF ExitInv, ExitAt, EndLast, NoEnds, Ends, Pending
  <2>3. StreamAt(t) /\ HeardToTheEnd(t)
    BY DEF NothingDropped, StreamAt, HeardToTheEnd, Closing, Structured
  <2> QED BY <2>1, <2>2, <2>3
<1>2. ASSUME NEW t \in Sessions PROVE ExitAt(t)' /\ StreamAt(t)' /\ HeardToTheEnd(t)'
  <2>1. CASE t = s
    BY <1>1, <2>1, ExitOfSession, StreamOfSession, HeardOfSession
  <2>2. CASE t # s
    <3>1. Same(t) /\ style' = style
      BY <2>2, Elsewhere, SameStyle
    <3>2. PICK h : h = heard[t]
      OBVIOUS
    <3>3. h \in Nat
      BY <3>2, Queues
    <3>4. Meaning(t, h)' = Meaning(t, h)
      BY <3>1, <3>3, MeaningSame DEF Same
    <3>5. Meaning(t, heard[t])' = Meaning(t, heard[t])
      BY <3>1, <3>2, <3>4 DEF Same
    <3>6. ExitAt(t)'
      BY <1>1, <3>1 DEF Same, ExitAt, Pending, EndLast, NoEnds, Ends
    <3>7. Closing(t)' = Closing(t) /\ SessionEnd(TRUE)' = SessionEnd(TRUE) /\ (Eof(t)' <=> Eof(t))
          /\ (Open(t)' <=> Open(t)) /\ (Structured' <=> Structured)
      BY <3>1 DEF Same, Closing, SessionEnd, Eof, Open, Structured
    <3>8. StreamAt(t)' /\ HeardToTheEnd(t)'
      BY <1>1, <3>1, <3>5, <3>7 DEF Same, StreamAt, HeardToTheEnd
    <3> QED BY <3>6, <3>8
  <2> QED BY <2>1, <2>2
<1>3. ExitInv'
  BY <1>2 DEF ExitInv, ExitAt, EndLast, NoEnds, Ends, Pending
<1>4. NothingDropped'
  BY <1>2 DEF NothingDropped, StreamAt, HeardToTheEnd, Closing, Structured
<1> QED BY <1>3, <1>4


-----------------------------------------------------------------------------
(* The theorems.                                                           *)

LEMMA InductiveInit == ASSUME SessionAssumption, Init PROVE Inductive
<1>1. TypeOK
  BY TypeInit
<1>2. ChildInv /\ SuccessEarned /\ TimedOutChildOwned
  BY DEF Init, ChildInv, SuccessEarned, TimedOutChildOwned
<1>3. SuccessInv
  BY RangeSmall DEF Init, SuccessInv, Underway
<1>4. ReadInv
  <2>1. \A s \in Sessions : heard[s] = 0 /\ observer[s] = "none"
    BY DEF Init
  <2>2. \A i \in 1 .. 0 : FALSE
    OBVIOUS
  <2> QED BY <2>1, <2>2 DEF ReadInv
<1>5. ExitInv
  <2>1. ASSUME NEW s \in Sessions PROVE Len(channel[s] \o sending[s]) = 0 /\ ~ ok[s] /\ outcome[s] # "ok"
    BY DEF Init
  <2>2. \A i \in 1 .. 0 : FALSE
    OBVIOUS
  <2> QED BY <2>1, <2>2 DEF ExitInv
<1>6. NothingDropped
  <2>1. ASSUME NEW s \in Sessions, Structured
        PROVE  received[s] \o channel[s] \o sending[s] = Meaning(s, heard[s]) \o Closing(s)
    <3>1. /\ received[s] = <<>> /\ channel[s] = <<>> /\ sending[s] = <<>> /\ heard[s] = 0
          /\ observer[s] = "none"
      BY DEF Init
    <3>2. Meaning(s, 0) = <<>>
      <4>1. Len([i \in 1 .. 0 |-> Parse(said[s][i])]) = 0
        <5> DEFINE P(i) == Parse(said[s][i])
        <5>1. Len([i \in 1 .. 0 |-> P(i)]) = 0
          <6> HIDE DEF P
          <6> QED OBVIOUS
        <5> QED BY <5>1
      <4> QED BY <4>1 DEF Meaning, FlattenSeq
    <3>3. Closing(s) = <<>>
      BY <3>1 DEF Closing
    <3> QED BY <3>1, <3>2, <3>3
  <2>2. \A s \in Sessions : outcome[s] # "ok"
    BY DEF Init
  <2> QED BY <2>1, <2>2 DEF NothingDropped, Closing
<1> QED BY <1>1, <1>2, <1>3, <1>4, <1>5, <1>6 DEF Inductive

LEMMA InductiveStep ==
  ASSUME SessionAssumption, Inductive, [Next]_vars
  PROVE  Inductive'
<1>1. CASE Next
  <2>1. PICK s \in Sessions : CliNext(s) \/ SchedulerNext(s) \/ ObserverNext(s)
    BY <1>1 DEF Next
  <2> QED BY <2>1, TypeStep, ChildStep, SuccessStep, ReadStep, StreamStep DEF Inductive
<1>2. CASE UNCHANGED vars
  <2>1. UNCHANGED <<style, lock, cli, said, child, observer, heard, ok, sending, channel, received,
                    scheduler, outcome>>
    BY <1>2 DEF vars, process, stream
  <2>2. TypeOK' /\ ChildInv' /\ SuccessEarned' /\ TimedOutChildOwned'
    BY <2>1 DEF Inductive, TypeOK, ChildInv, SuccessEarned, TimedOutChildOwned
  <2>3. SuccessInv' /\ ReadInv' /\ ExitInv'
    <3>1. SuccessInv'
      BY <2>1 DEF Inductive, SuccessInv, Underway
    <3>2. ReadInv'
      BY <2>1 DEF Inductive, ReadInv, Structured, Open, Eof
    <3>3. ExitInv'
      BY <2>1 DEF Inductive, ExitInv
    <3> QED BY <3>1, <3>2, <3>3
  <2>4. NothingDropped'
    <3>1. ASSUME NEW s \in Sessions PROVE Meaning(s, heard[s])' = Meaning(s, heard[s])
      <4>1. PICK h : h = heard[s] /\ h \in Nat
        BY Queues DEF Inductive
      <4>2. Meaning(s, h)' = Meaning(s, h)
        BY <2>1, <4>1, MeaningSame
      <4> QED BY <2>1, <4>1, <4>2
    <3>2. ASSUME NEW s \in Sessions
          PROVE  /\ Closing(s)' = Closing(s) /\ SessionEnd(TRUE)' = SessionEnd(TRUE)
                 /\ (Eof(s)' <=> Eof(s)) /\ (Open(s)' <=> Open(s)) /\ (Structured' <=> Structured)
      BY <2>1 DEF Closing, SessionEnd, Eof, Open, Structured
    <3>3. ASSUME NEW s \in Sessions PROVE StreamAt(s)' /\ HeardToTheEnd(s)'
      <4>1. StreamAt(s) /\ HeardToTheEnd(s)
        BY DEF Inductive, NothingDropped, StreamAt, HeardToTheEnd, Closing, Structured
      <4> QED BY <2>1, <3>1, <3>2, <4>1 DEF StreamAt, HeardToTheEnd
    <3> QED BY <3>3 DEF NothingDropped, StreamAt, HeardToTheEnd, Closing, Structured
  <2> QED BY <2>2, <2>3, <2>4 DEF Inductive
<1> QED BY <1>1, <1>2

\* The inductive invariant holds in every state of the sessions of every adapter: who has the
\* Child handle, what an event on its way proves, what the observer has read, and that the exit
\* status of codex is its last event.
THEOREM SessionInductive == Spec => []Inductive
<1>1. Init => Inductive
  BY SessionAssumption, InductiveInit
<1>2. Inductive /\ [Next]_vars => Inductive'
  BY SessionAssumption, InductiveStep
<1> QED BY <1>1, <1>2, PTL DEF Spec

\* The variables of the sessions keep their types, and no channel holds more than its capacity.
THEOREM SessionTypes == Spec => []TypeOK
<1>1. Inductive => TypeOK
  BY DEF Inductive
<1> QED BY <1>1, SessionInductive, PTL

\* run_session_once returns success only for a claude that printed its result line, and for the
\* other CLIs only when the observer reaped a process that exited with success: no kill, no
\* timeout and no closed channel is taken for one.
THEOREM EarnedSuccess == Spec => []SuccessEarned
<1>1. Inductive => SuccessEarned
  BY DEF Inductive
<1> QED BY <1>1, SessionInductive, PTL

\* Between the kill of the watchdog and the observer that takes the child out of the registry,
\* the child of a session that timed out is never lost: it was reaped, or the observer waits
\* for it.
THEOREM OwnedChildren == Spec => []TimedOutChildOwned
<1>1. Inductive => TimedOutChildOwned
  BY DEF Inductive
<1> QED BY <1>1, SessionInductive, PTL

\* The bounded channel between the observer and the drain loop neither drops, repeats nor
\* reorders the events of the lines, for any number of lines and any capacity, and a session of
\* codex succeeds only after its stdout was read to the end.
THEOREM EveryEvent == Spec => []NothingDropped
<1>1. Inductive => NothingDropped
  BY DEF Inductive
<1> QED BY <1>1, SessionInductive, PTL
=============================================================================
