SPECIFICATION Spec
CONSTANTS
  r1 = r1
  r2 = r2
  c1 = c1
  Agents = {1, 2, 3}
  Unregistered = Unregistered
  MaxStamp = 2
  Runs = {r1, r2}
  Clients = {c1}
  Registries <- AllRegistries
  Requests <- AskedFor
  SpeaksFor <- Speaks
  Plain <- Names
  Cwd <- Repo
  DirName <- Directories
  NoTask = NoTask
SYMMETRY Symmetry
CONSTRAINT Explored
INVARIANTS
  ReviewerIsBest
  ExplainAgrees
  BoundaryHolds
CHECK_DEADLOCK FALSE
