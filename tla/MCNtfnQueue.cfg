SPECIFICATION Spec
CONSTANTS
  Ntfn = {n1, n2}
  None = None
  MaxSent = 4
INVARIANTS
  TypeOK
  Conserved
  OfferIsOldest
  DrainedAtEnd
PROPERTIES
  FifoSpec
  
  
CHECK_DEADLOCK FALSE
