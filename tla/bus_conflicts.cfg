SPECIFICATION Spec
CONSTANTS
  claude = claude
  codex = codex
  agy = agy
  c1 = c1
  c2 = c2
  s1 = s1
  s2 = s2
  h1 = h1
  h2 = h2
  Nobody = Nobody
  Agents = {claude, codex, agy}
  Readers = {claude}
  Broadcasters = {claude}
  Clients = {c1}
  Sends <- Note
  Subscriptions = {}
  Sessions = {s1, s2}
  Edits <- Shared3
  Hooks = {}
  HookAgent <- NoHook
  KillPoints = {"confirm"}
  Window = 1
  MaxStamp = 4
  MaxSeq = 4
  MaxTouches = 3
  MaxBoots = 1
SYMMETRY Alike
INVARIANTS
  NumbersFresh
  NoFalseAlarm
  ConflictsReported
CHECK_DEADLOCK FALSE
