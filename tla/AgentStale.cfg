SPECIFICATION Spec
CONSTANTS
  MaxSteps = 4
  MaxHistory = 3
  Paths = {p1}
  Replies <- AllReplies
  AutoVerify = TRUE
  DryRun = FALSE
  VerifyConfigured = TRUE
  MaxTasks = 1
INVARIANTS
  VerifiedIsCurrent
CHECK_DEADLOCK FALSE
