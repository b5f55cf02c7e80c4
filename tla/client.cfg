SPECIFICATION Spec
CONSTANTS
  Caller = {r1}
  Closer = {s1, s2}
  Hello = hello
  MaxProcs = 4
INVARIANTS
  TypeOK
  NobodyWaitsForTheDead
  HandshakeFirst
  RestartsBounded
  ReadyWorkerIsCovered
PROPERTIES
  RequestsSettle
  ShutdownEnds
CHECK_DEADLOCK FALSE
