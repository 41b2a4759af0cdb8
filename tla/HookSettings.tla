---------------------------- MODULE HookSettings ----------------------------
(***************************************************************************)
(* `divan install-hooks` and `divan uninstall-hooks` for Claude Code: three *)
(* scripts in a directory of their own, and one entry for each in the hooks *)
(* of a settings.json that belongs to the user, who edits it between the    *)
(* file operations of a command.  A command may be killed, or fail, at any  *)
(* of them, and is then run again.                                          *)
(*                                                                         *)
(* A document is what its "hooks" say: for each event a sequence of         *)
(* matchers, a matcher being the sequence of its commands.  An event        *)
(* without a key and one with an empty array are the same here: the tool    *)
(* runs nothing for either.                                                 *)
(***************************************************************************)
EXTENDS Naturals, Sequences, FiniteSets

CONSTANTS
  UserCommands,   \* commands of the user's own hooks
  OwnEvents,      \* the events the user has hooks for
  Dirs,           \* ways to spell the configuration directory ($HOME/.claude)
  MaxMatchers     \* bound on the user's matchers for one event


VARIABLES
  settings,       \* settings.json
  backup,         \* settings.json.divan-bak
  scripts,        \* the events whose script is in the script directory
  cli,            \* the command in progress, or the last one
  mine,           \* the user's hooks as the user last saved them
  lapsed          \* a save or a killed write since then may have cost some

files == <<settings, backup, scripts>>
user == <<mine, lapsed>>
vars == <<files, cli, user>>

-----------------------------------------------------------------------------
(* The documents and the two merges (settings.rs).                         *)

\* One script for each of these events.
HookEvents == {"UserPromptSubmit", "Stop", "PreToolUse"}
AllEvents == HookEvents \cup OwnEvents

\* The command that runs the script of an event: its path, under some spelling.
DivanCommand == [script : HookEvents, dir : Dirs]
\* Mutant: only the path this command would install counts as Divan's.
IsThisCommand(c) == c \in DivanCommand /\ c.dir = cli.dir

IsDivanCommand(c) == c \in DivanCommand

Command == UserCommands \cup DivanCommand

\* No hook of the user's own runs a script of Divan's.
ASSUME HookAssumption ==
  MaxMatchers \in Nat /\ UserCommands \cap DivanCommand = {}

NoHooks == [e \in AllEvents |-> <<>>]

\* Ill-formed is JSON whose hooks are not an object: valid, but not mergeable.
\* Empty and broken are what a write leaves that was cut short.
File(kind, hooks) == [kind |-> kind, hooks |-> hooks]
Absent == File("absent", NoHooks)
Document(hooks) == File("document", hooks)
IllFormed == File("ill-formed", NoHooks)
Torn == {File("empty", NoHooks), File("broken", NoHooks)}

\* Where a command occurs among the matchers of an event.
Places(c, matchers) ==
  UNION {{<<i, j>> : j \in {k \in DOMAIN matchers[i] : matchers[i][k] = c}} :
         i \in DOMAIN matchers}

\* add_command_entry: the entry is there when this very command is.
AddCommandEntry(matchers, c) ==
  IF Places(c, matchers) # {} THEN matchers ELSE Append(matchers, <<c>>)

MergeInstall(hooks, dir) ==
  [e \in AllEvents |->
     IF e \in HookEvents THEN AddCommandEntry(hooks[e], [script |-> e, dir |-> dir])
     ELSE hooks[e]]

\* Vec::retain: the members of s that are in S, in their order.
Retain(s, S) ==
  LET kept[n \in 0 .. Len(s)] ==
        IF n = 0 THEN <<>>
        ELSE IF s[n] \in S THEN Append(kept[n - 1], s[n]) ELSE kept[n - 1]
  IN  kept[Len(s)]

\* Of each matcher the commands to be kept, without the matchers left empty.
Keep(matchers, commands) ==
  Retain([i \in DOMAIN matchers |-> Retain(matchers[i], commands)],
         Seq(commands) \ {<<>>})

\* Mutant: a matcher is dropped with the Divan command in it.
StripWholeMatcher(matchers) ==
  Retain(matchers, {m \in {matchers[i] : i \in DOMAIN matchers} :
                      \A i \in DOMAIN m : ~ IsDivanCommand(m[i])})

StripDivanFromEvent(matchers) == Keep(matchers, {c \in Command : ~ IsDivanCommand(c)})

MergeUninstall(hooks) ==
  [e \in AllEvents |->
     IF e \in HookEvents THEN StripDivanFromEvent(hooks[e]) ELSE hooks[e]]

\* What the user has in a file.
Own(file) ==
  File(IF file.kind = "ill-formed" THEN file.kind ELSE "document",
       [e \in AllEvents |-> Keep(file.hooks[e], UserCommands)])

-----------------------------------------------------------------------------
(* The commands (hooks/lib.rs): one action per file operation.             *)

Init ==
  /\ settings = Absent /\ backup = Absent /\ scripts = {}
  /\ cli = [name |-> "none", dir |-> "none", at |-> "done", merged |-> Absent]
  /\ mine = Own(Absent) /\ lapsed = FALSE

Idle == cli.at \in {"done", "aborted", "torn"}
Goto(at) == cli' = [cli EXCEPT !.at = at]

\* install_hooks, uninstall_hooks: a torn file is now taken for the user's.
Invoke ==
  /\ Idle
  /\ \E name \in {"install", "uninstall"}, dir \in Dirs :
       cli' = [name |-> name, dir |-> dir, at |-> "read", merged |-> Absent]
  /\ lapsed' = (lapsed \/ (cli.at = "torn" /\ settings \in Torn))
  /\ UNCHANGED <<files, mine>>

\* The scripts come first; writing one again changes nothing.
WriteScript(e) ==
  /\ cli.name = "install" /\ cli.at = "read" /\ e \notin scripts
  /\ scripts' = scripts \cup {e}
  /\ UNCHANGED <<settings, backup, cli, user>>

\* Mutant: the merge does not wait for the scripts.
ScriptsSome == TRUE

\* An install goes on when it has written every script.
ScriptsWritten == cli.name = "install" => scripts = HookEvents

\* read_settings: no file and an empty one are an empty document.
ReadSettings ==
  /\ cli.at = "read" /\ ScriptsWritten /\ settings.kind # "broken"
  /\ \/ /\ cli.name = "install"
        /\ cli' = [cli EXCEPT !.at = "backup", !.merged = settings]
     \/ /\ cli.name = "uninstall" /\ settings.kind # "absent"
        /\ cli' = [cli EXCEPT !.at = "write",
                   !.merged = IF settings.kind = "ill-formed" THEN settings
                              ELSE Document(MergeUninstall(settings.hooks))]
     \/ /\ cli.name = "uninstall" /\ settings.kind = "absent"
        /\ Goto("remove")
  /\ UNCHANGED <<files, user>>

RefuseBroken ==
  /\ cli.at = "read" /\ ScriptsWritten /\ settings.kind = "broken"
  /\ Goto("aborted")
  /\ UNCHANGED <<files, user>>

\* Mutant: a backup that exists is kept.
BackUpOnce ==
  /\ cli.at = "backup" /\ cli.merged.kind # "ill-formed"
  /\ backup' = IF backup.kind = "absent" THEN settings ELSE backup
  /\ cli' = [cli EXCEPT !.at = "write",
             !.merged = Document(MergeInstall(cli.merged.hooks, cli.dir))]
  /\ UNCHANGED <<settings, scripts, user>>

\* The copy is of the file as it is now; the merge, of what was read.
BackUp ==
  /\ cli.at = "backup"
  /\ backup' = IF settings.kind = "absent" THEN backup ELSE settings
  /\ IF cli.merged.kind = "ill-formed" THEN Goto("aborted")
     ELSE cli' = [cli EXCEPT !.at = "write",
                  !.merged = Document(MergeInstall(cli.merged.hooks, cli.dir))]
  /\ UNCHANGED <<settings, scripts, user>>

\* fs::write truncates the file, then fills it.
Truncate ==
  /\ cli.at = "write"
  /\ settings' = File("empty", NoHooks)
  /\ Goto("fill")
  /\ UNCHANGED <<backup, scripts, user>>

WriteSettings ==
  /\ cli.at = "fill"
  /\ settings' = cli.merged
  /\ Goto(IF cli.name = "install" THEN "done" ELSE "remove")
  /\ UNCHANGED <<backup, scripts, user>>

\* remove_dir_all takes the scripts in any order.
RemoveScript(e) ==
  /\ cli.at = "remove" /\ e \in scripts
  /\ scripts' = scripts \ {e}
  /\ UNCHANGED <<settings, backup, cli, user>>

Uninstalled ==
  /\ cli.at = "remove" /\ scripts = {}
  /\ Goto("done")
  /\ UNCHANGED <<files, user>>

\* The command is killed or its next file operation fails; a write may have begun.
Abort ==
  /\ ~ Idle
  /\ \/ /\ cli.at = "fill" /\ settings' \in Torn /\ Goto("torn")
        /\ UNCHANGED backup
     \/ /\ cli.at = "backup" /\ settings.kind # "absent"
        /\ backup' \in Torn \cup {backup} /\ Goto("aborted")
        /\ UNCHANGED settings
     \/ /\ cli.at \notin {"fill", "backup"} /\ Goto("aborted")
        /\ UNCHANGED <<settings, backup>>
  /\ UNCHANGED <<scripts, user>>

-----------------------------------------------------------------------------
(* The user, whose editor reads and saves in one step.                     *)

\* A save between the read of a command and its write may be undone by the write.
Save(file) ==
  /\ cli.at # "fill"
  /\ settings' = file
  /\ mine' = Own(file)
  /\ lapsed' = (cli.at \in {"backup", "write"})
  /\ UNCHANGED <<backup, scripts, cli>>

Editable == settings.kind \in {"absent", "document"}
SetMatchers(e, matchers) == Save(Document([settings.hooks EXCEPT ![e] = matchers]))

AddMatcher(e, c) ==
  /\ Editable /\ Len(Own(settings).hooks[e]) < MaxMatchers
  /\ SetMatchers(e, Append(settings.hooks[e], <<c>>))

\* The user's command may join a matcher of Divan's.
JoinMatcher(e, i, c) ==
  /\ settings.kind = "document" /\ Len(settings.hooks[e][i]) < 1 + MaxMatchers
  /\ Len(Own(settings).hooks[e]) < MaxMatchers
  /\ SetMatchers(e, [settings.hooks[e] EXCEPT ![i] = Append(@, c)])

DeleteMatcher(e, i) ==
  /\ settings.kind = "document"
  /\ SetMatchers(e, [j \in 1 .. Len(settings.hooks[e]) - 1 |->
                       settings.hooks[e][IF j < i THEN j ELSE j + 1]])

\* The user writes something else, or types a torn file in again.
SaveIllFormed == Editable /\ Save(IllFormed)
Retype == settings \in Torn \cup {IllFormed} /\ Save(Document(mine.hooks))

CliNext ==
  \/ Invoke \/ ReadSettings \/ RefuseBroken \/ BackUp \/ Truncate \/ WriteSettings
  \/ Uninstalled \/ Abort
  \/ \E e \in HookEvents : WriteScript(e) \/ RemoveScript(e)

UserNext ==
  \/ SaveIllFormed \/ Retype
  \/ \E e \in OwnEvents :
       \/ \E c \in UserCommands :
            AddMatcher(e, c) \/ \E i \in 1 .. Len(settings.hooks[e]) : JoinMatcher(e, i, c)
       \/ \E i \in 1 .. Len(settings.hooks[e]) : DeleteMatcher(e, i)

Next == CliNext \/ UserNext

Spec == Init /\ [][Next]_vars

-----------------------------------------------------------------------------
(* Properties.                                                             *)

Matcher == Seq(Command) \ {<<>>}
Files ==
  [kind : {"absent", "empty", "broken", "ill-formed", "document"},
   hooks : [AllEvents -> Seq(Matcher)]]

\* Types; a matcher always has a command.
TypeOK ==
  /\ {settings, backup, mine} \subseteq Files
  /\ scripts \subseteq HookEvents
  /\ cli \in [name : {"none", "install", "uninstall"}, dir : Dirs \cup {"none"},
             at : {"read", "backup", "write", "fill", "remove", "done", "aborted", "torn"},
             merged : Files]
  /\ lapsed \in BOOLEAN

\* The tool never runs a script that is not there: whatever is registered is on disk,
\* also when an install or an uninstall stopped half-way (the order of the writes).
RegisteredHaveScripts ==
  \A e \in HookEvents, dir \in Dirs :
    Places([script |-> e, dir |-> dir], settings.hooks[e]) # {} => e \in scripts

\* No command changes the user's hooks, their order or the matchers they are in, also
\* where they share a matcher with Divan's: unless the user saved while a command was
\* between its read and its write, or a write was cut short before, the file has what
\* the user last saved, and so has the document about to be written.
UserEntriesKept ==
  ~ lapsed =>
    /\ settings \notin Torn => Own(settings) = mine
    /\ cli.at = "fill" => Own(cli.merged) = mine

\* When the write of an install is cut short, the backup has the user's hooks.
BackupBeforeWrite ==
  cli.name = "install" /\ cli.at \in {"fill", "torn"} /\ settings \in Torn /\ ~ lapsed =>
    Own(backup) = mine

\* A command that ends has done what it is for, whatever earlier commands, finished or
\* not, and the user left behind.  After an install each script is there and registered
\* exactly once under the spelling of its path this install was given, and at most once
\* under any other; after an uninstall nothing is left of Divan under any spelling.
\* (settings.rs:16 says a command "is matched by its script basename, so a re-run never
\* duplicates", but add_command_entry compares whole commands, line 118: an install under
\* another spelling registers each script a second time, and this property allows it.)
FinishedMeansDone ==
  [][cli.at # "done" /\ cli'.at = "done" =>
       IF cli.name = "install"
       THEN /\ scripts' = HookEvents
            /\ \A e \in HookEvents, dir \in Dirs :
                 LET n == Cardinality(Places([script |-> e, dir |-> dir], settings'.hooks[e]))
                 IN  n <= 1 /\ (dir = cli.dir => n = 1)
       ELSE /\ scripts' = {}
            /\ \A c \in DivanCommand : Places(c, settings'.hooks[c.script]) = {}]_vars

-----------------------------------------------------------------------------
(* Why they hold: what is true between any two steps of a command.         *)

\* A command of Divan's is entered at most once.
Once(hooks) ==
  \A c \in DivanCommand : \A p, q \in Places(c, hooks[c.script]) : p = q

NoneRegistered(hooks) == \A c \in DivanCommand : Places(c, hooks[c.script]) = {}

\* Only a document has hooks; what the user saved has none of Divan's commands; what is
\* written was read and merged; a file is absent until it is first written.
FilesInv ==
  /\ \A file \in {settings, cli.merged} : file.kind # "document" => file.hooks = NoHooks
  /\ Once(settings.hooks) /\ Once(cli.merged.hooks)
  /\ mine.hooks \in [AllEvents -> Seq(Seq(UserCommands) \ {<<>>})]
  /\ cli.at \in {"write", "fill"} => cli.merged.kind \in {"document", "ill-formed"}
  /\ cli.name \in {"install", "uninstall"} => cli.dir \in Dirs
  /\ cli.name = "none" => cli.at = "done"
  /\ settings.kind = "absent" => backup = Absent

\* An install past its scripts finds them all there, and what it writes names them; what
\* an uninstall writes, and the file it leaves, name none.
ScriptInv ==
  /\ RegisteredHaveScripts
  /\ cli.name = "install" /\ cli.at \in {"backup", "write", "fill"} => scripts = HookEvents
  /\ cli.name = "install" /\ cli.at \in {"write", "fill"} =>
       \A e \in HookEvents :
         Places([script |-> e, dir |-> cli.dir], cli.merged.hooks[e]) # {}
  /\ cli.name = "uninstall" /\ cli.at \in {"write", "fill"} => NoneRegistered(cli.merged.hooks)
  /\ cli.at = "remove" => NoneRegistered(settings.hooks)
  /\ cli.at = "backup" => cli.name = "install"
  /\ cli.at = "remove" => cli.name = "uninstall"

\* A file is torn only while it is written, or by a write that was cut short; what was
\* read has the user's hooks, and so has the backup from the moment it is made.
UserInv ==
  /\ UserEntriesKept /\ BackupBeforeWrite
  /\ ~ lapsed /\ settings \in Torn => cli.at \in {"fill", "torn"}
  /\ ~ lapsed /\ cli.at \in {"backup", "write", "fill"} => Own(cli.merged) = mine
  /\ ~ lapsed /\ cli.name = "install" /\ cli.at = "write" => Own(backup) = mine
  /\ cli.at = "fill" => settings \in Torn

Inductive == TypeOK /\ FilesInv /\ ScriptInv /\ UserInv
=============================================================================
