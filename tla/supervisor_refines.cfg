SPECIFICATION SafetySpec
CONSTANTS
  N = 2
  Workers = {k1, k2}
  Cloud = {1}
  AsrBearer = {1}
  SummaryBearer = {2}
  Inputs = {"submit", "resummarize", "pause", "resume", "cancel", "retry",
            "clear", "interrupt", "drain", "crash"}
  MaxAttempts = 3
  MaxCalls = 1
  MaxOps = 4
  MaxStops = 1
SYMMETRY WorkerSymmetry
PROPERTY ImplementsLifecycle
CHECK_DEADLOCK FALSE
