SPECIFICATION Spec
CHECK_DEADLOCK FALSE
CONSTANTS
  Calls <- MCOneCall
  StdinLen = 0
  Cap = 1
  PipeCap = 1
  Output = 1
  Grace = 1
  Patience = 1
INVARIANTS
  TimedOutLeavesNothing
