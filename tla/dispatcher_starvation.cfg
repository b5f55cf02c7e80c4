SPECIFICATION Spec
CONSTANTS
  Workflow = {"a", "b", "c"}
  Attempts <- ApartAttempts
  Segments = 1
  Duration <- ApartDuration
  ChunkSize = 1
  TargetBatch = 2
  MaxActive = 3
  Bucket = 5
  MaxTotal = 30
  MaxProduct = 30
  MaxTombstones = 1
PROPERTIES
  NoStarvation
CHECK_DEADLOCK FALSE
