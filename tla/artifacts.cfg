SPECIFICATION Spec
CONSTANTS
  w1 = w1
  w2 = w2
  w3 = w3
  spec = spec
  repo1 = repo1
  repo2 = repo2
  Workers = {w1, w2, w3}
  Contents = {spec}
  Dirs = {repo1, repo2}
  Parts = 2
  NoContent = NoContent
SYMMETRY Symmetry
INVARIANTS
  AnsweredWhole
PROPERTIES
  PromptIsSpec
