SPECIFICATION Spec
CONSTANTS
  MaxRecent = 2
  StartHeight = 2
  MaxBlock = 5
  MaxDetach = 2
  MaxLoss = 1
  MaxRestart = 1
  Unknown = Unknown
INVARIANTS  RolledBack
CONSTRAINT Followed
CHECK_DEADLOCK FALSE
