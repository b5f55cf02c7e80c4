SPECIFICATION SafetySpec
CONSTANTS
  N = 1
  Workers = {1}
  Cloud = {1}
  AsrBearer = {}
  SummaryBearer = {1}
  Inputs = {"submit", "pause", "resume", "cancel", "clear"}
  MaxAttempts = 1
  MaxCalls = 2
  MaxOps = 4
  MaxStops = 0
INVARIANT AcceptedCancelSticks
CHECK_DEADLOCK FALSE
