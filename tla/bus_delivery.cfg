SPECIFICATION FairSpec
CONSTANTS
  claude = claude
  codex = codex
  agy = agy
  c1 = c1
  c2 = c2
  s1 = s1
  s2 = s2
  h1 = h1
  h2 = h2
  Nobody = Nobody
  Agents = {claude, codex, agy}
  Readers = {claude, codex}
  Broadcasters = {claude}
  Clients = {c1}
  Sends <- Requests
  Subscriptions <- Interests
  Sessions = {}
  Edits = {}
  Hooks = {h1, h2}
  HookAgent <- SameAgent
  KillPoints = {"confirm"}
  Window = 1
  MaxStamp = 3
  MaxSeq = 1
  MaxTouches = 0
  MaxBoots = 2
INVARIANTS
  NumbersFresh
  BroadcastReaches
  NothingSwallowed
PROPERTIES
  TurnsDeliver
CHECK_DEADLOCK FALSE
