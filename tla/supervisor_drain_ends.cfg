SPECIFICATION Spec
CONSTANTS
  N = 1
  Workers = {1}
  Cloud = {}
  AsrBearer = {}
  SummaryBearer = {1}
  Inputs = {"submit", "pause", "drain"}
  MaxAttempts = 1
  MaxCalls = 1
  MaxOps = 3
  MaxStops = 1
PROPERTY DrainEnds
CHECK_DEADLOCK FALSE
