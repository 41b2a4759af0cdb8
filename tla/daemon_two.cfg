SPECIFICATION Spec
CONSTANTS
  c1 = c1
  r1 = r1
  Daemons = {1, 2, 3}
  Clients = {c1}
  Runs = {r1}
  Recyclable = {1}
  None = None
  Empty = Empty
INVARIANTS
  OneDaemon
