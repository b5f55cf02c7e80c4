SPECIFICATION Spec
CONSTANTS
  N = 2
  Workers = {1}
  Cloud = {1}
  AsrBearer = {1}
  SummaryBearer = {2}
  Inputs = {"submit", "pause", "resume", "cancel", "retry", "drain", "crash"}
  MaxAttempts = 2
  MaxCalls = 1
  MaxOps = 4
  MaxStops = 1
PROPERTIES
  QueuedRuns
  SecretWaitEnds
  CancelTakesEffect
CHECK_DEADLOCK FALSE
