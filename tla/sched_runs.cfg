SPECIFICATION Spec
CONSTANTS
  f1 = f1
  f2 = f2
  c1 = c1
  claude = claude
  codex = codex
  Nobody = Nobody
  Agents = {claude, codex}
  Adapters = {claude, codex}
  Delegators = {claude}
  Requests <- OneRequest
  Flows = {f1, f2}
  Clients = {c1}
  Caller <- OneCaller
  Delegated = {"implement"}
  Reporters = {codex}
  MaxRetries = 0
  MaxStamp = 1
  MaxBoots = 1
INVARIANTS
  RunsOwnTheirTasks
SYMMETRY SwapRuns
CHECK_DEADLOCK FALSE
