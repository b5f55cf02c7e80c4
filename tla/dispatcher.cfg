SPECIFICATION Spec
CONSTANTS
  Workflow = {"a", "b"}
  Attempts <- MixedAttempts
  Segments = 2
  Duration <- MixedDuration
  ChunkSize = 2
  TargetBatch = 3
  MaxActive = 2
  Bucket = 5
  MaxTotal = 12
  MaxProduct = 10
  MaxTombstones = 1
INVARIANTS
  TypeOK
  FuturesAccounted
  RotationFindsWork
PROPERTIES
  NoResultAfterCancel
  ImplementsBatchService
  CloseEnds
  StarvedOnlyByOthers
CHECK_DEADLOCK FALSE
