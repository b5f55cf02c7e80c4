SPECIFICATION Spec
CONSTANTS
  Caller = {r1}
  Closer = {}
  Hello = hello
  MaxProcs = 2
PROPERTIES
  CleanRetry
CHECK_DEADLOCK FALSE
