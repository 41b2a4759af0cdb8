SPECIFICATION Spec
CONSTANTS
  r1 = r1
  r2 = r2
  c1 = c1
  c2 = c2
  Main = Main
  Nothing = Nothing
  Runs = {r1}
  Commands = {c1}
  MaxChanges = 1
  MaxBoots = 1
  Recreates = TRUE
PROPERTIES
  CommitsStayOnBranch
CHECK_DEADLOCK FALSE
