SPECIFICATION Spec
CONSTANTS
  Account = {"default", "savings"}
  Default = "default"
  MaxClock = 3
  MaxCrash = 1
  MaxFail = 0
INVARIANTS
  AccountsSurvive
CHECK_DEADLOCK FALSE
