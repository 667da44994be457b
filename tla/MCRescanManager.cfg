SPECIFICATION Spec
CONSTANTS
  h = h
  i1 = i1
  i2 = i2
  Job <- MCJob
  Import <- MCImport
  StartHeight <- MCStartHeight
  MaxProgress = 1

  
  
PROPERTIES
  JobCompletes
CHECK_DEADLOCK FALSE
