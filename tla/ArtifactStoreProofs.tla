------------------------ MODULE ArtifactStoreProofs ------------------------
(***************************************************************************)
(* For any number of handlers, contents and directories, and however many  *)
(* writes fill a file: what put has returned is found again and is whole,  *)
(* and a run's agent is given its specification, except where a write was  *)
(* cut short, is being repeated, or the file cannot be read.               *)
(***************************************************************************)
EXTENDS ArtifactStore, TLAPS

\* What a handler's step does to its own job and leaves of the others'.
LEMMA AdvanceJob ==
  ASSUME TypeOK, NEW w \in Workers, NEW at \in {"idle", "check", "create", "fill", "record", "find", "read"},
         Advance(w, at)
  PROVE  /\ job' \in [Workers -> Job]
         /\ job'[w].at = at /\ job'[w].content = job[w].content
         /\ job'[w].part = job[w].part /\ job'[w].run = job[w].run
         /\ \A v \in Workers \ {w} : job'[v] = job[v]
<1>1. job[w] \in Job
  BY DEF TypeOK
<1>2. [job[w] EXCEPT !.at = at] \in Job
  BY <1>1 DEF Job
<1>3. job' = [job EXCEPT ![w] = [job[w] EXCEPT !.at = at]]
  BY DEF Advance
<1>4. /\ job' \in [Workers -> Job]
      /\ job'[w] = [job[w] EXCEPT !.at = at]
      /\ \A v \in Workers \ {w} : job'[v] = job[v]
  BY <1>2, <1>3 DEF TypeOK
<1>5. /\ [job[w] EXCEPT !.at = at].at = at
      /\ [job[w] EXCEPT !.at = at].content = job[w].content
      /\ [job[w] EXCEPT !.at = at].part = job[w].part
      /\ [job[w] EXCEPT !.at = at].run = job[w].run
  BY <1>1 DEF Job
<1> QED BY <1>4, <1>5

LEMMA DoneJob ==
  ASSUME TypeOK, NEW w \in Workers, Done(w)
  PROVE  /\ job' \in [Workers -> Job]
         /\ job'[w] = Idle /\ job'[w].at = "idle"
         /\ \A v \in Workers \ {w} : job'[v] = job[v]
<1>1. Idle \in Job
  BY StoreAssumption DEF Idle, Job
<1>2. Idle.at = "idle"
  BY DEF Idle
<1> QED BY <1>1, <1>2 DEF Done, TypeOK

LEMMA FillJob ==
  ASSUME TypeOK, JobInv, NEW w \in Workers, FillFile(w)
  PROVE  /\ job[w].part \in 1 .. Parts /\ job[w].content \in Contents
         /\ job' \in [Workers -> Job]
         /\ job'[w].at = IF job[w].part = Parts THEN "record" ELSE "fill"
         /\ job'[w].content = job[w].content /\ job'[w].run = job[w].run
         /\ job'[w].part = job[w].part + 1
         /\ \A v \in Workers \ {w} : job'[v] = job[v]
<1> DEFINE at == IF job[w].part = Parts THEN "record" ELSE "fill"
           j == [job[w] EXCEPT !.part = job[w].part + 1, !.at = at]
<1>1. job[w] \in Job
  BY DEF TypeOK
<1>2. job[w].part \in 1 .. Parts /\ job[w].content \in Contents
  BY DEF FillFile, JobInv, JobOK
<1>3. job[w].part + 1 \in 1 .. (Parts + 1) /\ at \in {"record", "fill"}
  BY <1>2, StoreAssumption
<1>4. /\ j.at = at /\ j.content = job[w].content /\ j.run = job[w].run
      /\ j.part = job[w].part + 1 /\ j \in Job
  <2> HIDE DEF at
  <2> QED BY <1>1, <1>3 DEF Job
<1>5. job' = [job EXCEPT ![w] = j]
  BY DEF FillFile
<1> HIDE DEF j
<1> QED BY <1>1, <1>2, <1>4, <1>5 DEF TypeOK

\* A write to a file leaves all other files alone.
LEMMA WriteFile ==
  ASSUME TypeOK, NEW c \in Contents, NEW s \in SUBSET Whole, file' = [file EXCEPT ![dir][c] = s]
  PROVE  /\ file' \in [Dirs -> [Contents -> SUBSET Whole]]
         /\ file'[dir][c] = s
         /\ \A d \in Dirs, e \in Contents : d # dir \/ e # c => file'[d][e] = file[d][e]
<1>1. dir \in Dirs /\ file[dir] \in [Contents -> SUBSET Whole]
  BY DEF TypeOK
<1>2. [file[dir] EXCEPT ![c] = s] \in [Contents -> SUBSET Whole]
  BY <1>1
<1>3. file' = [file EXCEPT ![dir] = [file[dir] EXCEPT ![c] = s]]
  OBVIOUS
<1> QED BY <1>1, <1>2, <1>3 DEF TypeOK

LEMMA CreateFileEffect ==
  ASSUME TypeOK, JobInv, NEW w \in Workers, CreateFile(w)
  PROVE  /\ job[w].content \in Contents /\ job[w].part = 1
         /\ file' \in [Dirs -> [Contents -> SUBSET Whole]]
         /\ file'[dir][job[w].content] = EmptyFile
         /\ \A d \in Dirs, e \in Contents : d # dir \/ e # job[w].content => file'[d][e] = file[d][e]
<1>1. job[w].content \in Contents /\ job[w].part = 1
  BY DEF CreateFile, JobInv, JobOK
<1>2. EmptyFile \in SUBSET Whole
  BY StoreAssumption DEF EmptyFile, Whole
<1>3. file' = [file EXCEPT ![dir][job[w].content] = EmptyFile]
  BY DEF CreateFile
<1> QED BY <1>1, <1>2, <1>3, WriteFile

LEMMA FillFileEffect ==
  ASSUME TypeOK, JobInv, NEW w \in Workers, FillFile(w)
  PROVE  /\ file' \in [Dirs -> [Contents -> SUBSET Whole]]
         /\ file'[dir][job[w].content] = file[dir][job[w].content] \cup {job[w].part}
         /\ \A d \in Dirs, e \in Contents : d # dir \/ e # job[w].content => file'[d][e] = file[d][e]
<1>1. job[w].content \in Contents /\ job[w].part \in Whole
  BY FillJob, StoreAssumption DEF Whole
<1>2. file[dir][job[w].content] \cup {job[w].part} \in SUBSET Whole
  BY <1>1 DEF TypeOK
<1>3. file' = [file EXCEPT ![dir][job[w].content] = file[dir][job[w].content] \cup {job[w].part}]
  BY DEF FillFile
<1> QED BY <1>1, <1>2, <1>3, WriteFile

LEMMA GivePrompt ==
  ASSUME TypeOK, NEW w \in Workers, NEW o \in {"spec", "partial", "title"}, Give(w, o)
  PROVE  prompt' \in [Workers -> {"none", "spec", "partial", "title"}]
BY DEF TypeOK, Give

LEMMA StopJob ==
  ASSUME TypeOK, Stop
  PROVE  /\ job' \in [Workers -> Job]
         /\ \A v \in Workers : job'[v].at = "idle"
<1>1. Idle \in Job /\ Idle.at = "idle"
  BY StoreAssumption DEF Idle, Job
<1>2. job' = [v \in Workers |-> Idle]
  BY DEF Stop
<1> QED BY <1>1, <1>2

\* Every step keeps the types.
LEMMA TypeStep == TypeOK /\ JobInv /\ [Next]_vars => TypeOK'
<1> SUFFICES ASSUME TypeOK, JobInv, [Next]_vars PROVE TypeOK'
  OBVIOUS
<1> USE StoreAssumption
<1>1. ASSUME NEW d \in Dirs, Boot(d) PROVE TypeOK'
  BY <1>1 DEF Boot, TypeOK
<1>2. CASE Stop
  <2>1. cut' \subseteq Dirs \X Contents
    BY <1>2 DEF Stop, TypeOK
  <2> QED BY <1>2, <2>1, StopJob DEF Stop, TypeOK
<1>3. ASSUME NEW w \in Workers, NEW c \in Contents, Publish(w, c) PROVE TypeOK'
  BY <1>3 DEF Publish, Idle, Job, TypeOK
<1>4. ASSUME NEW w \in Workers, NEW c \in Contents, StartRun(w, c) PROVE TypeOK'
  BY <1>4 DEF StartRun, Idle, Job, TypeOK
<1>5. ASSUME NEW w \in Workers, NEW c \in Contents, Get(w, c) PROVE TypeOK'
  BY <1>5 DEF Get, Idle, Job, TypeOK
<1>6. ASSUME NEW w \in Workers, CheckFile(w) PROVE TypeOK'
  BY <1>6, AdvanceJob DEF CheckFile, TypeOK
<1>7. ASSUME NEW w \in Workers, CreateFile(w) PROVE TypeOK'
  BY <1>7, AdvanceJob, CreateFileEffect DEF CreateFile, TypeOK
<1>8. ASSUME NEW w \in Workers, FillFile(w) PROVE TypeOK'
  BY <1>8, FillJob, FillFileEffect DEF FillFile, TypeOK
<1>9. ASSUME NEW w \in Workers, FileFails(w) PROVE TypeOK'
  <2>1. cut' \subseteq Dirs \X Contents
    BY <1>9 DEF FileFails, JobInv, JobOK, TypeOK
  <2> QED BY <1>9, <2>1, DoneJob DEF FileFails, TypeOK
<1>10. ASSUME NEW w \in Workers, Record(w) PROVE TypeOK'
  <2>1. job[w].content \in Contents
    BY <1>10 DEF Record, JobInv, JobOK
  <2>2. job' \in [Workers -> Job]
    BY <1>10, AdvanceJob, DoneJob DEF Record
  <2> QED BY <1>10, <2>1, <2>2 DEF Record, TypeOK
<1>11. ASSUME NEW w \in Workers, RecordFails(w) PROVE TypeOK'
  BY <1>11, DoneJob DEF RecordFails, TypeOK
<1>12. ASSUME NEW w \in Workers, FindRow(w) PROVE TypeOK'
  <2>1. job' \in [Workers -> Job]
    BY <1>12, AdvanceJob, DoneJob DEF FindRow
  <2>2. prompt' \in [Workers -> {"none", "spec", "partial", "title"}]
    BY <1>12, GivePrompt DEF FindRow, TypeOK
  <2> QED BY <1>12, <2>1, <2>2 DEF FindRow, TypeOK
<1>13. ASSUME NEW w \in Workers, ReadFile(w) PROVE TypeOK'
  <2>1. job' \in [Workers -> Job]
    BY <1>13, DoneJob DEF ReadFile
  <2>2. prompt' \in [Workers -> {"none", "spec", "partial", "title"}]
    BY <1>13, GivePrompt DEF ReadFile, TypeOK
  <2> QED BY <1>13, <2>1, <2>2 DEF ReadFile, TypeOK
<1>14. ASSUME NEW w \in Workers, GetFails(w) PROVE TypeOK'
  <2>1. job' \in [Workers -> Job]
    BY <1>14, DoneJob DEF GetFails
  <2>2. prompt' \in [Workers -> {"none", "spec", "partial", "title"}]
    BY <1>14, GivePrompt DEF GetFails, TypeOK
  <2> QED BY <1>14, <2>1, <2>2 DEF GetFails, TypeOK
<1>15. CASE UNCHANGED vars
  BY <1>15 DEF vars, TypeOK
<1> QED BY <1>1, <1>2, <1>3, <1>4, <1>5, <1>6, <1>7, <1>8, <1>9,
          <1>10, <1>11, <1>12, <1>13, <1>14, <1>15 DEF Next, PutNext, GetNext

\* Every handler has in hand what its next step needs.
LEMMA JobStep == TypeOK /\ JobInv /\ [Next]_vars => JobInv'
<1> SUFFICES ASSUME TypeOK, JobInv, [Next]_vars PROVE JobInv'
  OBVIOUS
<1> USE StoreAssumption DEF TypeOK, JobInv, JobOK, vars, NoFile, EmptyFile, Whole, Idle, Job
<1>1. ASSUME NEW d \in Dirs, Boot(d) PROVE JobInv'
  BY <1>1 DEF Boot
<1>2. CASE Stop
  BY <1>2 DEF Stop
<1>3. ASSUME NEW w \in Workers, NEW c \in Contents, Publish(w, c) PROVE JobInv'
  BY <1>3 DEF Publish
<1>4. ASSUME NEW w \in Workers, NEW c \in Contents, StartRun(w, c) PROVE JobInv'
  BY <1>4 DEF StartRun
<1>5. ASSUME NEW w \in Workers, NEW c \in Contents, Get(w, c) PROVE JobInv'
  BY <1>5 DEF Get
<1>6. ASSUME NEW w \in Workers, CheckFile(w) PROVE JobInv'
  BY <1>6, AdvanceJob DEF CheckFile
<1>7. ASSUME NEW w \in Workers, CreateFile(w) PROVE JobInv'
  <2>0. dir \in Dirs /\ file \in [Dirs -> [Contents -> SUBSET Whole]]
    OBVIOUS
  <2> HIDE DEF TypeOK, JobInv, JobOK, Job, Whole
  <2>1. \A e \in Contents : file[dir][e] # NoFile => file'[dir][e] # NoFile
    <3> SUFFICES ASSUME NEW e \in Contents, file[dir][e] # NoFile PROVE file'[dir][e] # NoFile
      OBVIOUS
    <3>1. CASE e = job[w].content
      <4>1. file'[dir][e] = EmptyFile
        BY <1>7, <3>1, CreateFileEffect
      <4> QED BY <4>1 DEF EmptyFile, NoFile
    <3>2. CASE e # job[w].content
      BY <1>7, <2>0, <3>2, CreateFileEffect
    <3> QED BY <3>1, <3>2
  <2>2. JobOK(w)'
    <3>1. JobOK(w) /\ job[w].at = "create" /\ up' = up /\ dir' = dir
      BY <1>7 DEF CreateFile, JobInv
    <3>2. file'[dir][job[w].content] # NoFile
      BY <1>7, CreateFileEffect DEF NoFile, EmptyFile
    <3>3. job'[w].part = 1 /\ Parts >= 1
      <4>1. job[w].part = 1
        BY <1>7, CreateFileEffect
      <4>2. job'[w].part = job[w].part
        BY <1>7, AdvanceJob DEF CreateFile
      <4> QED BY <4>1, <4>2, StoreAssumption
    <3>4. job'[w].at = "fill" /\ job'[w].content = job[w].content
      BY <1>7, AdvanceJob DEF CreateFile
    <3> QED BY <3>1, <3>2, <3>3, <3>4, StoreAssumption DEF JobOK
  <2>3. ASSUME NEW v \in Workers \ {w} PROVE JobOK(v)'
    <3>1. JobOK(v) /\ job'[v] = job[v]
      BY <1>7, AdvanceJob DEF CreateFile, JobInv
    <3>2. up' = up /\ dir' = dir /\ answered' = answered
      BY <1>7 DEF CreateFile
    <3> QED BY <2>1, <3>1, <3>2 DEF JobOK
  <2> QED BY <2>2, <2>3 DEF JobInv
<1>8. ASSUME NEW w \in Workers, FillFile(w) PROVE JobInv'
  <2>0. dir \in Dirs /\ file \in [Dirs -> [Contents -> SUBSET Whole]]
    OBVIOUS
  <2> HIDE DEF TypeOK, JobInv, JobOK, Job, Whole
  <2>1. \A e \in Contents : file[dir][e] # NoFile => file'[dir][e] # NoFile
    <3> SUFFICES ASSUME NEW e \in Contents, file[dir][e] # NoFile PROVE file'[dir][e] # NoFile
      OBVIOUS
    <3>1. CASE e = job[w].content
      <4>1. file'[dir][e] = file[dir][e] \cup {job[w].part}
        BY <1>8, <3>1, FillFileEffect
      <4> QED BY <4>1 DEF EmptyFile, NoFile
    <3>2. CASE e # job[w].content
      BY <1>8, <2>0, <3>2, FillFileEffect
    <3> QED BY <3>1, <3>2
  <2>2. JobOK(w)'
    <3>1. JobOK(w) /\ job[w].at = "fill" /\ up' = up /\ dir' = dir
      BY <1>8 DEF FillFile, JobInv
    <3>2. file'[dir][job[w].content] # NoFile
      BY <1>8, <2>1, <3>1, FillJob DEF JobOK
    <3>3. job'[w].at = "fill" => job'[w].part \in 1 .. Parts
      BY <1>8, FillJob
    <3>4. job'[w].at \in {"fill", "record"} /\ job'[w].content = job[w].content
      BY <1>8, FillJob
    <3> QED BY <3>1, <3>2, <3>3, <3>4 DEF JobOK
  <2>3. ASSUME NEW v \in Workers \ {w} PROVE JobOK(v)'
    <3>1. JobOK(v) /\ job'[v] = job[v]
      BY <1>8, FillJob DEF JobInv
    <3>2. up' = up /\ dir' = dir /\ answered' = answered
      BY <1>8 DEF FillFile
    <3> QED BY <2>1, <3>1, <3>2 DEF JobOK
  <2> QED BY <2>2, <2>3 DEF JobInv
<1>9. ASSUME NEW w \in Workers, FileFails(w) PROVE JobInv'
  BY <1>9 DEF FileFails, Done
<1>10. ASSUME NEW w \in Workers, Record(w) PROVE JobInv'
  BY <1>10 DEF Record, Advance, Done
<1>11. ASSUME NEW w \in Workers, RecordFails(w) PROVE JobInv'
  BY <1>11 DEF RecordFails, Done
<1>12. ASSUME NEW w \in Workers, FindRow(w) PROVE JobInv'
  BY <1>12, AdvanceJob, DoneJob DEF FindRow
<1>13. ASSUME NEW w \in Workers, ReadFile(w) PROVE JobInv'
  BY <1>13 DEF ReadFile, Done, Give
<1>14. ASSUME NEW w \in Workers, GetFails(w) PROVE JobInv'
  BY <1>14 DEF GetFails, Done, Give
<1>15. CASE UNCHANGED vars
  BY <1>15 DEF vars
<1> QED BY <1>1, <1>2, <1>3, <1>4, <1>5, <1>6, <1>7, <1>8, <1>9,
          <1>10, <1>11, <1>12, <1>13, <1>14, <1>15 DEF Next, PutNext, GetNext

\* The last handler to truncate a file fills it.
LEMMA FileStep == TypeOK /\ JobInv /\ FileInv /\ [Next]_vars => FileInv'
<1> SUFFICES ASSUME TypeOK, JobInv, FileInv, [Next]_vars PROVE FileInv'
  OBVIOUS
<1> USE StoreAssumption
<1>1. ASSUME NEW b \in Dirs, Boot(b) PROVE FileInv'
  <2> SUFFICES ASSUME NEW d \in Dirs, NEW e \in Contents PROVE FileOK(d, e)'
    BY DEF FileInv
  <2>1. FileOK(d, e)
    BY DEF FileInv
  <2>2. \A v \in Workers : job[v].at = "idle"
    BY <1>1 DEF Boot, JobInv, JobOK, TypeOK, Job
  <2> QED BY <1>1, <2>1, <2>2 DEF Boot, FileOK, Filling
<1>2. CASE Stop
  <2> SUFFICES ASSUME NEW d \in Dirs, NEW e \in Contents PROVE FileOK(d, e)'
    BY DEF FileInv
  <2>1. FileOK(d, e)
    BY DEF FileInv
  <2>2. <<d, e>> \in cut' \/ d # dir \/ Filling(e) = {}
    BY <1>2 DEF Stop
  <2> QED BY <1>2, <2>1, <2>2 DEF Stop, FileOK
<1>3. ASSUME NEW w \in Workers, NEW c \in Contents, Publish(w, c) PROVE FileInv'
  <2> SUFFICES ASSUME NEW d \in Dirs, NEW e \in Contents PROVE FileOK(d, e)'
    BY DEF FileInv
  <2>1. FileOK(d, e)
    BY DEF FileInv
  <2>2. \A v \in Workers : job[v].at = "fill" => job'[v] = job[v]
    BY <1>3 DEF Publish, TypeOK, Idle
  <2> QED BY <1>3, <2>1, <2>2 DEF Publish, FileOK, Filling
<1>4. ASSUME NEW w \in Workers, NEW c \in Contents, StartRun(w, c) PROVE FileInv'
  <2> SUFFICES ASSUME NEW d \in Dirs, NEW e \in Contents PROVE FileOK(d, e)'
    BY DEF FileInv
  <2>1. FileOK(d, e)
    BY DEF FileInv
  <2>2. \A v \in Workers : job[v].at = "fill" => job'[v] = job[v]
    BY <1>4 DEF StartRun, TypeOK, Idle
  <2> QED BY <1>4, <2>1, <2>2 DEF StartRun, FileOK, Filling
<1>5. ASSUME NEW w \in Workers, NEW c \in Contents, Get(w, c) PROVE FileInv'
  <2> SUFFICES ASSUME NEW d \in Dirs, NEW e \in Contents PROVE FileOK(d, e)'
    BY DEF FileInv
  <2>1. FileOK(d, e)
    BY DEF FileInv
  <2>2. \A v \in Workers : job[v].at = "fill" => job'[v] = job[v]
    BY <1>5 DEF Get, TypeOK, Idle
  <2> QED BY <1>5, <2>1, <2>2 DEF Get, FileOK, Filling
<1>6. ASSUME NEW w \in Workers, CheckFile(w) PROVE FileInv'
  <2> SUFFICES ASSUME NEW d \in Dirs, NEW e \in Contents PROVE FileOK(d, e)'
    BY DEF FileInv
  <2>1. FileOK(d, e)
    BY DEF FileInv
  <2>2. \A v \in Workers : job[v].at = "fill" => job'[v] = job[v]
    BY <1>6, AdvanceJob DEF CheckFile
  <2> QED BY <1>6, <2>1, <2>2 DEF CheckFile, FileOK, Filling
<1>7. ASSUME NEW w \in Workers, CreateFile(w) PROVE FileInv'
  <2> SUFFICES ASSUME NEW d \in Dirs, NEW c \in Contents PROVE FileOK(d, c)'
    BY DEF FileInv
  <2>1. FileOK(d, c)
    BY DEF FileInv
  <2>2. CASE d = dir /\ c = job[w].content
    <3>1. w \in Filling(c)' /\ 0 .. (job[w].part - 1)' \subseteq file'[d][c]
      <4>1. job'[w].at = "fill" /\ job'[w].content = c /\ job'[w].part = job[w].part
        BY <1>7, <2>2, AdvanceJob DEF CreateFile
      <4>2. job[w].part = 1 /\ file'[d][c] = EmptyFile
        BY <1>7, <2>2, CreateFileEffect
      <4> QED BY <4>1, <4>2 DEF Filling, EmptyFile
    <3> QED BY <1>7, <2>2, <3>1 DEF CreateFile, FileOK
  <2>3. CASE ~ (d = dir /\ c = job[w].content)
    <3>1. file'[d][c] = file[d][c]
      BY <1>7, <2>3, CreateFileEffect
    <3>2. \A v \in Filling(c) : v \in Filling(c)' /\ job'[v] = job[v]
      BY <1>7, AdvanceJob DEF CreateFile, Filling
    <3> QED BY <1>7, <2>1, <3>1, <3>2 DEF CreateFile, FileOK
  <2> QED BY <2>2, <2>3
<1>8. ASSUME NEW w \in Workers, FillFile(w) PROVE FileInv'
  <2> SUFFICES ASSUME NEW d \in Dirs, NEW c \in Contents PROVE FileOK(d, c)'
    BY DEF FileInv
  <2>1. FileOK(d, c)
    BY DEF FileInv
  <2>2. CASE d = dir /\ c = job[w].content
    <3>1. file'[d][c] = file[d][c] \cup {job[w].part} /\ file'[d][c] \subseteq Whole
      BY <1>8, <2>2, FillFileEffect
    <3>2. \A v \in Workers \ {w} : v \in Filling(c) => v \in Filling(c)' /\ job'[v] = job[v]
      BY <1>8, FillJob DEF Filling
    <3>3. SUFFICES ASSUME file[d][c] # NoFile, <<d, c>> \notin cut, file[d][c] # Whole,
                          NEW v \in Filling(c), 0 .. (job[v].part - 1) \subseteq file[d][c]
                   PROVE  FileOK(d, c)'
      <4>1. CASE file[d][c] = NoFile
        BY <1>8, <2>2, <4>1 DEF FillFile, JobInv, JobOK
      <4>2. CASE <<d, c>> \in cut
        BY <1>8, <4>2 DEF FillFile, FileOK
      <4>3. CASE file[d][c] = Whole
        BY <1>8, <4>3, <3>1 DEF FileOK
      <4> QED BY <2>1, <4>1, <4>2, <4>3 DEF FileOK
    <3>4. CASE v # w
      BY <1>8, <2>2, <3>1, <3>2, <3>3, <3>4 DEF FillFile, FileOK, Filling
    <3>5. CASE v = w
      <4>1. job[w].part \in 1 .. Parts
        BY <1>8, FillJob
      <4>2. 0 .. job[w].part \subseteq file'[d][c]
        BY <3>1, <3>3, <3>5, <4>1, StoreAssumption
      <4>3. CASE job[w].part = Parts
        BY <1>8, <3>1, <4>2, <4>3 DEF FileOK, Whole
      <4>4. CASE job[w].part # Parts
        <5>1. w \in Filling(c)' /\ job'[w].part - 1 = job[w].part
          BY <1>8, <2>2, <4>1, <4>4, FillJob DEF Filling
        <5> QED BY <1>8, <2>2, <4>2, <5>1 DEF FillFile, FileOK
      <4> QED BY <4>3, <4>4
    <3> QED BY <3>4, <3>5
  <2>3. CASE ~ (d = dir /\ c = job[w].content)
    <3>1. file'[d][c] = file[d][c]
      BY <1>8, <2>3, FillFileEffect
    <3>2. d = dir => \A v \in Filling(c) : v \in Filling(c)' /\ job'[v] = job[v]
      BY <1>8, <2>3, FillJob DEF Filling
    <3> QED BY <1>8, <2>1, <3>1, <3>2 DEF FillFile, FileOK
  <2> QED BY <2>2, <2>3
<1>9. ASSUME NEW w \in Workers, FileFails(w) PROVE FileInv'
  <2> SUFFICES ASSUME NEW d \in Dirs, NEW c \in Contents PROVE FileOK(d, c)'
    BY DEF FileInv
  <2>1. FileOK(d, c)
    BY DEF FileInv
  <2>2. CASE d = dir /\ c = job[w].content /\ job[w].at = "fill"
    BY <1>9, <2>2 DEF FileFails, FileOK
  <2>3. CASE ~ (d = dir /\ c = job[w].content /\ job[w].at = "fill")
    <3>1. d = dir => \A v \in Filling(c) : v \in Filling(c)' /\ job'[v] = job[v]
      BY <1>9, <2>3, DoneJob DEF FileFails, Filling
    <3>2. file' = file /\ dir' = dir /\ cut \subseteq cut'
      BY <1>9 DEF FileFails
    <3> QED BY <2>1, <3>1, <3>2 DEF FileOK
  <2> QED BY <2>2, <2>3
<1>10. ASSUME NEW w \in Workers, Record(w) PROVE FileInv'
  <2> SUFFICES ASSUME NEW d \in Dirs, NEW e \in Contents PROVE FileOK(d, e)'
    BY DEF FileInv
  <2>1. FileOK(d, e)
    BY DEF FileInv
  <2>2. \A v \in Workers : job[v].at = "fill" => job'[v] = job[v]
    BY <1>10, AdvanceJob, DoneJob DEF Record
  <2> QED BY <1>10, <2>1, <2>2 DEF Record, FileOK, Filling
<1>11. ASSUME NEW w \in Workers, RecordFails(w) PROVE FileInv'
  <2> SUFFICES ASSUME NEW d \in Dirs, NEW e \in Contents PROVE FileOK(d, e)'
    BY DEF FileInv
  <2>1. FileOK(d, e)
    BY DEF FileInv
  <2>2. \A v \in Workers : job[v].at = "fill" => job'[v] = job[v]
    BY <1>11, DoneJob DEF RecordFails
  <2> QED BY <1>11, <2>1, <2>2 DEF RecordFails, FileOK, Filling
<1>12. ASSUME NEW w \in Workers, FindRow(w) PROVE FileInv'
  <2> SUFFICES ASSUME NEW d \in Dirs, NEW e \in Contents PROVE FileOK(d, e)'
    BY DEF FileInv
  <2>1. FileOK(d, e)
    BY DEF FileInv
  <2>2. \A v \in Workers : job[v].at = "fill" => job'[v] = job[v]
    BY <1>12, AdvanceJob, DoneJob DEF FindRow
  <2> QED BY <1>12, <2>1, <2>2 DEF FindRow, FileOK, Filling
<1>13. ASSUME NEW w \in Workers, ReadFile(w) PROVE FileInv'
  <2> SUFFICES ASSUME NEW d \in Dirs, NEW e \in Contents PROVE FileOK(d, e)'
    BY DEF FileInv
  <2>1. FileOK(d, e)
    BY DEF FileInv
  <2>2. \A v \in Workers : job[v].at = "fill" => job'[v] = job[v]
    BY <1>13, DoneJob DEF ReadFile
  <2> QED BY <1>13, <2>1, <2>2 DEF ReadFile, FileOK, Filling
<1>14. ASSUME NEW w \in Workers, GetFails(w) PROVE FileInv'
  <2> SUFFICES ASSUME NEW d \in Dirs, NEW e \in Contents PROVE FileOK(d, e)'
    BY DEF FileInv
  <2>1. FileOK(d, e)
    BY DEF FileInv
  <2>2. \A v \in Workers : job[v].at = "fill" => job'[v] = job[v]
    BY <1>14, DoneJob DEF GetFails
  <2> QED BY <1>14, <2>1, <2>2 DEF GetFails, FileOK, Filling
<1>15. CASE UNCHANGED vars
  BY <1>15 DEF vars, FileInv, FileOK, Filling
<1> QED BY <1>1, <1>2, <1>3, <1>4, <1>5, <1>6, <1>7, <1>8, <1>9,
          <1>10, <1>11, <1>12, <1>13, <1>14, <1>15 DEF Next, PutNext, GetNext

\* Files and rows are never removed, and the row comes after the file.
LEMMA FoundStep == TypeOK /\ JobInv /\ AnsweredFound /\ [Next]_vars => AnsweredFound'
<1> SUFFICES ASSUME TypeOK, JobInv, AnsweredFound, [Next]_vars PROVE AnsweredFound'
  OBVIOUS
<1> USE StoreAssumption DEF TypeOK, JobInv, JobOK, AnsweredFound, vars, NoFile, EmptyFile, Whole, Idle, Job
<1>1. ASSUME NEW d \in Dirs, Boot(d) PROVE AnsweredFound'
  BY <1>1 DEF Boot
<1>2. CASE Stop
  BY <1>2 DEF Stop
<1>3. ASSUME NEW w \in Workers, NEW c \in Contents, Publish(w, c) PROVE AnsweredFound'
  BY <1>3 DEF Publish
<1>4. ASSUME NEW w \in Workers, NEW c \in Contents, StartRun(w, c) PROVE AnsweredFound'
  BY <1>4 DEF StartRun
<1>5. ASSUME NEW w \in Workers, NEW c \in Contents, Get(w, c) PROVE AnsweredFound'
  BY <1>5 DEF Get
<1>6. ASSUME NEW w \in Workers, CheckFile(w) PROVE AnsweredFound'
  BY <1>6 DEF CheckFile, Advance
<1>7. ASSUME NEW w \in Workers, CreateFile(w) PROVE AnsweredFound'
  BY <1>7 DEF CreateFile, Advance
<1>8. ASSUME NEW w \in Workers, FillFile(w) PROVE AnsweredFound'
  BY <1>8 DEF FillFile
<1>9. ASSUME NEW w \in Workers, FileFails(w) PROVE AnsweredFound'
  BY <1>9 DEF FileFails, Done
<1>10. ASSUME NEW w \in Workers, Record(w) PROVE AnsweredFound'
  BY <1>10 DEF Record, Advance, Done
<1>11. ASSUME NEW w \in Workers, RecordFails(w) PROVE AnsweredFound'
  BY <1>11 DEF RecordFails, Done
<1>12. ASSUME NEW w \in Workers, FindRow(w) PROVE AnsweredFound'
  BY <1>12 DEF FindRow, Advance, Done, Give
<1>13. ASSUME NEW w \in Workers, ReadFile(w) PROVE AnsweredFound'
  BY <1>13 DEF ReadFile, Done, Give
<1>14. ASSUME NEW w \in Workers, GetFails(w) PROVE AnsweredFound'
  BY <1>14 DEF GetFails, Done, Give
<1>15. CASE UNCHANGED vars
  BY <1>15 DEF vars
<1> QED BY <1>1, <1>2, <1>3, <1>4, <1>5, <1>6, <1>7, <1>8, <1>9,
          <1>10, <1>11, <1>12, <1>13, <1>14, <1>15 DEF Next, PutNext, GetNext

\* Rows follow files.
LEMMA RowStep == TypeOK /\ JobInv /\ RowsHaveFiles /\ [Next]_vars => RowsHaveFiles'
<1> SUFFICES ASSUME TypeOK, JobInv, RowsHaveFiles, [Next]_vars PROVE RowsHaveFiles'
  OBVIOUS
<1> USE StoreAssumption DEF TypeOK, JobInv, JobOK, RowsHaveFiles, vars, NoFile, EmptyFile, Whole, Idle, Job
<1>1. ASSUME NEW d \in Dirs, Boot(d) PROVE RowsHaveFiles'
  BY <1>1 DEF Boot
<1>2. CASE Stop
  BY <1>2 DEF Stop
<1>3. ASSUME NEW w \in Workers, NEW c \in Contents, Publish(w, c) PROVE RowsHaveFiles'
  BY <1>3 DEF Publish
<1>4. ASSUME NEW w \in Workers, NEW c \in Contents, StartRun(w, c) PROVE RowsHaveFiles'
  BY <1>4 DEF StartRun
<1>5. ASSUME NEW w \in Workers, NEW c \in Contents, Get(w, c) PROVE RowsHaveFiles'
  BY <1>5 DEF Get
<1>6. ASSUME NEW w \in Workers, CheckFile(w) PROVE RowsHaveFiles'
  BY <1>6 DEF CheckFile, Advance
<1>7. ASSUME NEW w \in Workers, CreateFile(w) PROVE RowsHaveFiles'
  BY <1>7 DEF CreateFile, Advance
<1>8. ASSUME NEW w \in Workers, FillFile(w) PROVE RowsHaveFiles'
  BY <1>8 DEF FillFile
<1>9. ASSUME NEW w \in Workers, FileFails(w) PROVE RowsHaveFiles'
  BY <1>9 DEF FileFails, Done
<1>10. ASSUME NEW w \in Workers, Record(w) PROVE RowsHaveFiles'
  BY <1>10 DEF Record, Advance, Done
<1>11. ASSUME NEW w \in Workers, RecordFails(w) PROVE RowsHaveFiles'
  BY <1>11 DEF RecordFails, Done
<1>12. ASSUME NEW w \in Workers, FindRow(w) PROVE RowsHaveFiles'
  BY <1>12 DEF FindRow, Advance, Done, Give
<1>13. ASSUME NEW w \in Workers, ReadFile(w) PROVE RowsHaveFiles'
  BY <1>13 DEF ReadFile, Done, Give
<1>14. ASSUME NEW w \in Workers, GetFails(w) PROVE RowsHaveFiles'
  BY <1>14 DEF GetFails, Done, Give
<1>15. CASE UNCHANGED vars
  BY <1>15 DEF vars
<1> QED BY <1>1, <1>2, <1>3, <1>4, <1>5, <1>6, <1>7, <1>8, <1>9,
          <1>10, <1>11, <1>12, <1>13, <1>14, <1>15 DEF Next, PutNext, GetNext

LEMMA InitInductive == Init => Inductive
<1> SUFFICES ASSUME Init PROVE Inductive
  OBVIOUS
<1> USE StoreAssumption
<1>1. job \in [Workers -> Job] /\ \A w \in Workers : job[w].at = "idle"
  <2>1. Idle \in Job /\ Idle.at = "idle"
    BY DEF Idle, Job
  <2> QED BY <2>1 DEF Init
<1>2. \A d \in Dirs, c \in Contents : file[d][c] = NoFile
  BY DEF Init
<1>3. TypeOK
  BY <1>1 DEF Init, TypeOK, NoFile
<1>4. JobInv
  BY <1>1 DEF JobInv, JobOK
<1>5. FileInv
  BY <1>2 DEF FileInv, FileOK
<1> QED BY <1>3, <1>4, <1>5 DEF Init, Inductive, AnsweredFound, RowsHaveFiles

LEMMA NextInductive == Inductive /\ [Next]_vars => Inductive'
BY TypeStep, JobStep, FileStep, FoundStep, RowStep DEF Inductive

\* The invariant is inductive.
THEOREM StoreInductive == Spec => []Inductive
BY InitInductive, NextInductive, PTL DEF Spec

\* A ref put has returned leads to the whole content, wherever no write of its file
\* was cut short and none is going on (artifacts.rs:46).
THEOREM WholeWhenAnswered == Spec => []AnsweredWhole
<1>1. Inductive => AnsweredWhole
  <2>0. Inductive => AnsweredFound
    BY DEF Inductive
  <2> SUFFICES ASSUME Inductive, NEW d \in Dirs, NEW c \in Contents,
                      <<d, c>> \in answered \ cut
               PROVE  file[d][c] = Whole \/ (d = dir /\ Filling(c) # {})
    BY <2>0 DEF AnsweredWhole
  <2>1. file[d][c] # NoFile
    BY DEF Inductive, AnsweredFound
  <2> QED BY <2>1 DEF Inductive, FileInv, FileOK
<1> QED BY StoreInductive, <1>1, PTL

\* A ref put has returned is found again, row and file (artifacts.rs:54).
THEOREM FoundWhenAnswered == Spec => []AnsweredFound
<1>1. Inductive => AnsweredFound
  BY DEF Inductive
<1> QED BY StoreInductive, <1>1, PTL

\* No row without a file (artifacts.rs:51 before :55).
THEOREM FilesBehindRows == Spec => []RowsHaveFiles
<1>1. Inductive => RowsHaveFiles
  BY DEF Inductive
<1> QED BY StoreInductive, <1>1, PTL

\* A stage is given the specification its run has put, whole, unless its row or file cannot
\* be read right then, which gives it the title (spec_text), or a write of the file was cut
\* short some time or is going on (scheduler.rs:791, artifacts.rs:73).
THEOREM PromptWhole == Spec => PromptIsSpec
<1> DEFINE Given == \A w \in Workers :
             prompt'[w] # prompt[w] /\ prompt'[w] \in {"partial", "title"} =>
               \/ <<dir, job[w].content>> \in cut \/ Filling(job[w].content) # {}
               \/ prompt'[w] = "title" /\ GetFails(w)
<1>1. Inductive /\ [Next]_vars => [Given]_vars
  <2> SUFFICES ASSUME Inductive, Next, NEW v \in Workers,
                      prompt'[v] # prompt[v], prompt'[v] \in {"partial", "title"}
               PROVE  \/ <<dir, job[v].content>> \in cut \/ Filling(job[v].content) # {}
                      \/ prompt'[v] = "title" /\ GetFails(v)
    OBVIOUS
  <2>1. prompt \in [Workers -> {"none", "spec", "partial", "title"}] /\ dir \in Dirs /\ JobOK(v)
    BY DEF Inductive, TypeOK, JobInv
  <2>2. \A w \in Workers, o \in {"none", "spec", "partial", "title"} :
          Give(w, o) => prompt' = prompt \/ (job[w].run /\ (v # w => prompt'[v] = prompt[v])
                                                       /\ (v = w => prompt'[v] = o))
    BY <2>1 DEF Give
  <2>3. ASSUME NEW w \in Workers, FindRow(w) PROVE FALSE
    <3>1. v = w /\ job[w].at = "find" /\ job[w].run /\ job[w].content \notin rows
      BY <2>1, <2>2, <2>3 DEF FindRow
    <3>2. <<dir, job[w].content>> \in answered /\ job[w].content \in Contents
      BY <2>1, <3>1 DEF JobOK
    <3> QED BY <2>1, <3>1, <3>2 DEF Inductive, AnsweredFound
  <2>4. ASSUME NEW w \in Workers, ReadFile(w)
        PROVE  <<dir, job[v].content>> \in cut \/ Filling(job[v].content) # {}
    <3>1. v = w /\ job[w].at = "read" /\ job[w].run /\ file[dir][job[w].content] # Whole
      BY <2>1, <2>2, <2>4 DEF ReadFile
    <3>2. <<dir, job[w].content>> \in answered /\ job[w].content \in Contents
      BY <2>1, <3>1 DEF JobOK
    <3>3. file[dir][job[w].content] # NoFile
      BY <2>1, <3>2 DEF Inductive, AnsweredFound
    <3> QED BY <2>1, <3>1, <3>2, <3>3 DEF Inductive, FileInv, FileOK
  <2>5. ASSUME NEW w \in Workers, NEW c \in Contents, StartRun(w, c) PROVE FALSE
    BY <2>1, <2>5 DEF StartRun
  <2>6. ASSUME NEW w \in Workers, GetFails(w) PROVE prompt'[v] = "title" /\ GetFails(v)
    BY <2>1, <2>2, <2>6 DEF GetFails
  <2>7. prompt' = prompt \/ \E w \in Workers :
          FindRow(w) \/ ReadFile(w) \/ GetFails(w) \/ \E c \in Contents : StartRun(w, c)
    BY DEF Next, PutNext, GetNext, Stop, Boot, Publish, Get, CheckFile, CreateFile, FillFile,
           FileFails, Record, RecordFails
  <2> QED BY <2>3, <2>4, <2>5, <2>6, <2>7
<1> QED BY StoreInductive, <1>1, PTL DEF Spec, PromptIsSpec
=============================================================================
