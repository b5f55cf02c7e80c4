SPECIFICATION SafetySpec
CONSTANTS
  N = 2
  Workers = {k1, k2}
  Cloud = {2}
  AsrBearer = {2}
  SummaryBearer = {1}
  Inputs = {"submit", "resummarize", "pause", "resume", "cancel", "retry",
            "revise", "clear", "heartbeat", "interrupt", "drain", "crash"}
  MaxAttempts = 2
  MaxCalls = 2
  MaxOps = 4
  MaxStops = 1
SYMMETRY WorkerSymmetry
INVARIANTS
  TypeOK
  StatusMatchesExecution
  ExecutionOwnership
  QueuedIsScheduled
  PauseGateConsistent
  RetryStageHonoured
PROPERTIES
  CancelBlocksResults
  StageMonotone
CHECK_DEADLOCK FALSE
