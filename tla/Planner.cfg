SPECIFICATION PSpec
CONSTANTS
  MaxSteps = 4
  MaxHistory = 5
  Paths = {p1}
  Replies <- MCReplies
  AutoVerify = TRUE
  DryRun = FALSE
  VerifyConfigured = FALSE
  MaxTasks = 2
  Kinds = {"auto", "local", "heuristic", "other"}
  Jobs <- MCJobs
  Files <- MCFiles
  Outputs <- MCOutputs
  Language = ""
  PreferPython = FALSE
INVARIANTS
  TypeOK
  TranscriptTellsTheTruth
  TranscriptWindow
  FinishVerifies
  VerdictJustified
  ChangesReported
  NoEarlyStop
  PlanFinishes
CHECK_DEADLOCK FALSE
