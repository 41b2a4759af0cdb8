\* Sessions end, so the system stops.
CONSTANTS
  s1 = s1
  s2 = s2
  Sessions <- MCSessions
  Styles <- MCStyles
  Lines <- MCLines
  Capacity = 1
SPECIFICATION FairSpec
INVARIANTS SuccessEarned NothingDropped TimedOutChildOwned
PROPERTIES SessionReturns ChildrenReaped
CHECK_DEADLOCK FALSE
