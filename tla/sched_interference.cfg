SPECIFICATION FairSpec
CONSTANTS
  f1 = f1
  f2 = f2
  c1 = c1
  claude = claude
  codex = codex
  Nobody = Nobody
  Agents = {claude, codex}
  Adapters = {claude, codex}
  Delegators = {claude}
  Requests <- OneRequest
  Flows = {f1}
  Clients = {c1}
  Caller <- OneCaller
  Delegated = {}
  Reporters = {}
  MaxRetries = 1
  MaxStamp = 2
  MaxBoots = 2
INVARIANTS
  ReviewDepsSatisfied
  ReportIsTrue
  OneClaimant
  OrphansFailed
  RetryBudget
  FailureStands
  Inductive
PROPERTIES
  Contract
  RunReturns
CHECK_DEADLOCK FALSE
