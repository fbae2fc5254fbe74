SPECIFICATION FairSpec
CHECK_DEADLOCK FALSE
CONSTANTS
  Calls <- MCCalls
  StdinLen = 1
  Cap = 1
  PipeCap = 2
  Output = 2
  Grace = 1
  Patience = 1
INVARIANTS
  TypeOK
  ReapedOnReturn
  CapturedPrefix
  ChildOutputRead
PROPERTIES
  SignalsOnlyUnreaped
  Returns
