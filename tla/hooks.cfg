SPECIFICATION Spec
CONSTANTS
  c1 = c1
  d1 = d1
  d2 = d2
  UserCommands = {c1}
  OwnEvents = {"Stop", "PostToolUse"}
  Dirs = {d1, d2}
  MaxMatchers = 1
INVARIANTS
  RegisteredHaveScripts
  UserEntriesKept
  BackupBeforeWrite
PROPERTIES
  FinishedMeansDone
