SPECIFICATION Spec
CONSTANTS
  Account = {a1, a2, a3}
  Passphrase = {p1, p2}
  MaxRequests = 3
  MaxFails = 1
  None = None
 
PROPERTY LocksAgain
CHECK_DEADLOCK FALSE
