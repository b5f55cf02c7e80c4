SPECIFICATION ComponentsSpec
CONSTANTS
  LocalAttempt = {a1, a2}
  Closer = {c1, c2}
  CloudAttempt = {d1, d2}
  OtherAttempt = {o1}
  MaxTombstones = 2
  Ask = {r1, r2}
  Totals = {0, 4}
  Speakers = {1, 2}
  TurnSets <- SomeTurns
  MinSegment = 2
  MergeGap = 0
  MaxSegment = 2
  Padding = 1
  BatchSize = 3
  Texts <- SomeTexts
  Replies <- SomeReplies
  Budgets = {2, 4, 5}
  FixedTokens = 1
  FixedOther = 2
  NoteTokens = 1
  MaxRounds = 1
  Unmade = Unmade
  MaxRuns = 2
  MaxFiles = 5
  Shown = {v1}
  Nothing = Nothing
  MaxSequence = 3
  MaxCalls = 3
  MaxStops = 2
INVARIANTS
  ComponentsTypeOK
  ActiveCallsAreStale
  DispatcherOutlivesCalls
  NoTranscriptAfterCancel
  SecretsAreTransient
  PlanCoversSpeech
  EverySegmentAccounted
  BisectionEnds
  PiecesCoverText
  RequestsDistinct
  LedgerSound
  ViewConverges
  ClearedStaysCleared
PROPERTIES
  DispatcherReleased
CHECK_DEADLOCK FALSE
