SPECIFICATION Spec
CONSTANTS
  MaxRecent = 3
  StartHeight = 2
  MaxBlock = 4
  MaxDetach = 1
  MaxLoss = 2
  MaxRestart = 0
  Unknown = Unknown
INVARIANT ShortForkRepaired
CONSTRAINT Seen
CHECK_DEADLOCK FALSE
