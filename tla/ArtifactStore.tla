--------------------------- MODULE ArtifactStore ---------------------------
(***************************************************************************)
(* The content-addressed artifact store: a row per ref in the database and *)
(* a file per ref under .divan/artifacts of the directory the daemon was   *)
(* started in.  publish_artifact, get_artifact and the runs' own artifacts *)
(* go through it from connections that are served in parallel; only the    *)
(* database calls exclude one another.                                     *)
(*                                                                         *)
(* The ref of a content is its hash, so a content stands for its ref, and  *)
(* whoever writes the file of a ref writes the same bytes.  A file is the  *)
(* set of its parts on disk, part 0 being its directory entry: fs::write   *)
(* truncates it and then writes part after part, and an error or the end   *)
(* of the daemon may cut that short.  Rows and files survive the daemon.   *)
(***************************************************************************)
EXTENDS Naturals

CONSTANTS
  Workers,        \* handlers in progress: connections and runs
  Contents,       \* the contents published, and with them their refs
  Dirs,           \* directories the daemon may be started in
  Parts,          \* writes it takes to fill a file, 1 .. Parts
  NoContent

ASSUME StoreAssumption ==
  /\ Parts \in Nat \ {0}
  /\ NoContent \notin Contents

VARIABLES
  up,             \* the daemon runs
  dir,            \* its working directory
  rows,           \* table artifacts: the refs it has
  file,           \* the parts on disk, per directory and ref
  job,            \* what each handler is about to do
  answered,       \* <<directory, ref>> of the refs that put has returned
  cut,            \* <<directory, ref>> of the files a write of which was cut short
  prompt          \* what each handler's agent was last given for its specification

vars == <<up, dir, rows, file, job, answered, cut, prompt>>

-----------------------------------------------------------------------------
NoFile == {}
EmptyFile == {0}
Whole == 0 .. Parts
\* run: the handler is a run, which puts its specification and reads it back.
Idle == [at |-> "idle", content |-> NoContent, part |-> 1, run |-> FALSE]
Job == [at : {"idle", "check", "create", "fill", "record", "find", "read"},
        content : Contents \cup {NoContent}, part : 1 .. (Parts + 1), run : BOOLEAN]

\* Handlers between the truncation of a file and its last part.
Filling(c) == {w \in Workers : job[w].at = "fill" /\ job[w].content = c}

Done(w) == job' = [job EXCEPT ![w] = Idle]
Advance(w, at) == job' = [job EXCEPT ![w].at = at]

Init ==
  /\ up = FALSE
  /\ dir \in Dirs
  /\ rows = {}
  /\ file = [d \in Dirs |-> [c \in Contents |-> NoFile]]
  /\ job = [w \in Workers |-> Idle]
  /\ answered = {}
  /\ cut = {}
  /\ prompt = [w \in Workers |-> "none"]

\* The store's root is relative: each daemon has the files of its own directory.
Boot(d) ==
  /\ ~ up
  /\ up' = TRUE
  /\ dir' = d
  /\ UNCHANGED <<rows, file, job, answered, cut, prompt>>

\* The daemon ends, or is killed, with its handlers wherever they are.
Stop ==
  /\ up
  /\ up' = FALSE
  /\ job' = [w \in Workers |-> Idle]
  /\ cut' = cut \cup {<<dir, c>> : c \in {e \in Contents : Filling(e) # {}}}
  /\ UNCHANGED <<dir, rows, file, answered, prompt>>

-----------------------------------------------------------------------------
(* put.                                                                    *)

\* publish_artifact, or what a run stores besides its specification; the summary is
\* valid (an invalid one is refused here) ...
Publish(w, c) ==
  /\ up /\ job[w] = Idle
  /\ job' = [job EXCEPT ![w] = [Idle EXCEPT !.at = "check", !.content = c]]
  /\ UNCHANGED <<up, dir, rows, file, answered, cut, prompt>>

\* ... or the specification of a run ...
StartRun(w, c) ==
  /\ up /\ job[w] = Idle
  /\ job' = [job EXCEPT ![w] = [Idle EXCEPT !.at = "check", !.content = c, !.run = TRUE]]
  /\ prompt' = [prompt EXCEPT ![w] = "none"]
  /\ UNCHANGED <<up, dir, rows, file, answered, cut>>

\* ... a file that is there is taken for the content ...
\* Mutant: the row is looked at instead of the file.
CheckRow(w) ==
  /\ job[w].at = "check"
  /\ Advance(w, IF job[w].content \in rows THEN "record" ELSE "create")
  /\ UNCHANGED <<up, dir, rows, file, answered, cut, prompt>>
CheckFile(w) ==
  /\ job[w].at = "check"
  /\ Advance(w, IF file[dir][job[w].content] # NoFile THEN "record" ELSE "create")
  /\ UNCHANGED <<up, dir, rows, file, answered, cut, prompt>>

\* ... or it is created, empty, or emptied if somebody was faster, and filled ...
CreateFile(w) ==
  /\ job[w].at = "create"
  /\ file' = [file EXCEPT ![dir][job[w].content] = EmptyFile]
  /\ Advance(w, "fill")
  /\ UNCHANGED <<up, dir, rows, answered, cut, prompt>>

\* Mutant: put goes on before the last part is written.
FillButLast(w) ==
  /\ job[w].at = "fill"
  /\ file' = [file EXCEPT ![dir][job[w].content] = @ \cup {job[w].part}]
  /\ job' = [job EXCEPT ![w].part = @ + 1,
                        ![w].at = IF job[w].part + 1 >= Parts THEN "record" ELSE "fill"]
  /\ UNCHANGED <<up, dir, rows, answered, cut, prompt>>
FillFile(w) ==
  /\ job[w].at = "fill"
  /\ file' = [file EXCEPT ![dir][job[w].content] = @ \cup {job[w].part}]
  /\ job' = [job EXCEPT ![w].part = @ + 1,
                        ![w].at = IF job[w].part = Parts THEN "record" ELSE "fill"]
  /\ UNCHANGED <<up, dir, rows, answered, cut, prompt>>

\* ... unless the file system refuses: put returns the error ...
FileFails(w) ==
  /\ job[w].at \in {"create", "fill"}
  /\ cut' = IF job[w].at = "fill" THEN cut \cup {<<dir, job[w].content>>} ELSE cut
  /\ Done(w)
  /\ UNCHANGED <<up, dir, rows, file, answered, prompt>>

\* ... and the row is inserted unless it exists; the ref is returned.
Record(w) ==
  /\ job[w].at = "record"
  /\ rows' = rows \cup {job[w].content}
  /\ answered' = answered \cup {<<dir, job[w].content>>}
  /\ IF job[w].run THEN Advance(w, "find") ELSE Done(w)
  /\ UNCHANGED <<up, dir, file, cut, prompt>>

RecordFails(w) ==
  /\ job[w].at = "record"
  /\ Done(w)
  /\ UNCHANGED <<up, dir, rows, file, answered, cut, prompt>>

-----------------------------------------------------------------------------
(* get.                                                                    *)

\* get_artifact; a stage of a run that builds its prompt gets its specification ...
Get(w, c) ==
  /\ up /\ job[w] = Idle
  /\ job' = [job EXCEPT ![w] = [Idle EXCEPT !.at = "find", !.content = c]]
  /\ UNCHANGED <<up, dir, rows, file, answered, cut, prompt>>

\* spec_text: any failure to get the specification leaves the title of the task.
Give(w, outcome) == prompt' = IF job[w].run THEN [prompt EXCEPT ![w] = outcome] ELSE prompt

\* ... the row, which may be missing ...
FindRow(w) ==
  /\ job[w].at = "find"
  /\ IF job[w].content \in rows
     THEN Advance(w, "read") /\ UNCHANGED prompt
     ELSE Done(w) /\ Give(w, "title")
  /\ UNCHANGED <<up, dir, rows, file, answered, cut>>

\* ... then the file, whatever is in it; part of it may be no valid text.
ReadFile(w) ==
  /\ job[w].at = "read"
  /\ Done(w)
  /\ LET f == file[dir][job[w].content] IN
     IF f = Whole THEN Give(w, "spec")
     ELSE \/ Give(w, "title")
          \/ f # NoFile /\ Give(w, "partial")
  /\ UNCHANGED <<up, dir, rows, file, answered, cut>>

\* The database or the file system refuses (get_meta, safe_join, fs::read): get returns
\* the error, and spec_text the title, although row and file may be all right.
GetFails(w) ==
  /\ job[w].at \in {"find", "read"}
  /\ Done(w)
  /\ Give(w, "title")
  /\ UNCHANGED <<up, dir, rows, file, answered, cut>>

-----------------------------------------------------------------------------
PutNext(w) ==
  \/ CheckFile(w) \/ CreateFile(w) \/ FillFile(w) \/ FileFails(w) \/ Record(w) \/ RecordFails(w)

GetNext(w) == FindRow(w) \/ ReadFile(w) \/ GetFails(w)

Next ==
  \/ Stop
  \/ \E d \in Dirs : Boot(d)
  \/ \E w \in Workers, c \in Contents : Publish(w, c) \/ StartRun(w, c) \/ Get(w, c)
  \/ \E w \in Workers : PutNext(w) \/ GetNext(w)

Spec == Init /\ [][Next]_vars

-----------------------------------------------------------------------------
(* Properties.                                                             *)

TypeOK ==
  /\ up \in BOOLEAN /\ dir \in Dirs
  /\ rows \subseteq Contents
  /\ file \in [Dirs -> [Contents -> SUBSET Whole]]
  /\ job \in [Workers -> Job]
  /\ answered \subseteq Dirs \X Contents
  /\ cut \subseteq Dirs \X Contents
  /\ prompt \in [Workers -> {"none", "spec", "partial", "title"}]

\* A ref that put has returned is found again in its directory, row and file, by
\* whatever daemon, however many were started elsewhere in between ...
AnsweredFound ==
  \A d \in Dirs, c \in Contents :
    <<d, c>> \in answered => c \in rows /\ file[d][c] # NoFile

\* ... and it leads to the whole content: "Write file if absent (dedupe).  Content-addressed
\* => identical bytes" (artifacts.rs:46), as far as it is true.  A file a write of which
\* was cut short some time is never repaired, and one that another put of the same
\* content has truncated to write it again is not whole while it does.
AnsweredWhole ==
  AnsweredFound /\
  \A d \in Dirs, c \in Contents :
    <<d, c>> \in answered \ cut =>
      file[d][c] = Whole \/ (d = dir /\ Filling(c) # {})

\* No row without a file: get finds one in the directory of a daemon that put it,
\* wherever a put was cut short (fs::write, artifacts.rs:51, before the INSERT, :55).
RowsHaveFiles == \A c \in rows : \E d \in Dirs : file[d][c] # NoFile

\* "a truncated title alone would silently lose the request" (scheduler.rs:771), and
\* spec_text is "falling back to the title" (scheduler.rs:790): a stage's agent is given
\* the whole specification its run has put, or else the title because a call was refused
\* right then.  Only a file a write of which was cut short some time, or that another put
\* is writing again right then, costs it the specification, or part of it, otherwise.
PromptIsSpec ==
  [][\A w \in Workers :
       prompt'[w] # prompt[w] /\ prompt'[w] \in {"partial", "title"} =>
         \/ <<dir, job[w].content>> \in cut \/ Filling(job[w].content) # {}
         \/ prompt'[w] = "title" /\ GetFails(w)]_vars

-----------------------------------------------------------------------------
(* The inductive invariant behind the safety properties.                   *)

\* What a handler has in hand agrees with the step it is at.
JobOK(w) ==
  /\ job[w].at # "idle" => up /\ job[w].content \in Contents
  /\ job[w].at = "fill" => job[w].part \in 1 .. Parts
  /\ job[w].at \in {"check", "create"} => job[w].part = 1
  /\ job[w].at \in {"fill", "record"} => file[dir][job[w].content] # NoFile
  /\ job[w].at \in {"find", "read"} /\ job[w].run => <<dir, job[w].content>> \in answered

JobInv == \A w \in Workers : JobOK(w)

\* A file is whole, or was cut short, or has all the parts that the last handler to
\* truncate it has written.
FileOK(d, c) ==
  file[d][c] # NoFile /\ <<d, c>> \notin cut =>
    \/ file[d][c] = Whole
    \/ d = dir /\ \E w \in Filling(c) : 0 .. (job[w].part - 1) \subseteq file[d][c]

FileInv == \A d \in Dirs, c \in Contents : FileOK(d, c)

Inductive == TypeOK /\ JobInv /\ FileInv /\ AnsweredFound /\ RowsHaveFiles
=============================================================================
