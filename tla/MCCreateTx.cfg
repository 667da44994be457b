SPECIFICATION Spec
CONSTANTS
  Op = {"a", "b", "cb", "sh"}
  Amounts <- MCAmounts
  Coinbase = {"cb"}
  Other = {"sh"}
  Pairs <- MCPairs
  Minconfs = {0, 1}
  Pool = {"a"}
  Incrs = {0, 1}
  DefaultIncr = 1
  Maturity = 2
  DisallowFree = FALSE
  Kilobyte = 10
  Bitcent = 2
  MaxSatoshi = 4
  Threshold = 1
  BaseSize = 1
  InSize = 3
  OutSize = 2
  MaxRequests = 2
  MaxTip = 2
  MaxLocked = 1
  MaxFaults = 1
INVARIANTS
  TxRight
  ChangeKept
  SentIsRecorded
PROPERTY PaymentEnds
CHECK_DEADLOCK FALSE
