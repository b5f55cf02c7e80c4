SPECIFICATION SafetySpec
CONSTANTS
  N = 1
  Workers = {1}
  Cloud = {}
  AsrBearer = {}
  SummaryBearer = {1}
  Inputs = {"submit", "pause", "resume", "cancel", "clear"}
  MaxAttempts = 1
  MaxCalls = 2
  MaxOps = 4
  MaxStops = 0
INVARIANT WorkersSurvive
CHECK_DEADLOCK FALSE
