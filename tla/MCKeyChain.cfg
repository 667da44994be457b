SPECIFICATION Spec
CONSTANTS
  Passphrase = {p1, p2}
  Import = {k1}
  Script = {x1}
  None = None
  Garbage = Garbage
  KeypoolSize = 1
  MaxRecover = 2
  MaxIndex = 3
  Files = {"new", "watching"}
INVARIANTS
  ChainKept
  
  WalletOpens
  
SYMMETRY PassphraseSymmetry
