SPECIFICATION Spec
CONSTANTS
  Account = {"default", "savings"}
  Default = "default"
  MaxClock = 4
  MaxCrash = 1
  MaxFail = 1
INVARIANTS
  
  Recoverable
PROPERTIES
  EventuallyFlushed
  RequestEnds
CHECK_DEADLOCK FALSE
