SPECIFICATION Spec
CONSTANTS
  r1 = r1
  r2 = r2
  c1 = c1
  c2 = c2
  Main = Main
  Nothing = Nothing
  Runs = {r1, r2}
  Commands = {c1}
  MaxChanges = 1
  MaxBoots = 1
  Recreates = FALSE
SYMMETRY Symmetric
INVARIANTS
  SnapshotComplete
  ReviewedWorkKept
  Isolated
PROPERTIES
  MergedOnRequest
CHECK_DEADLOCK FALSE
