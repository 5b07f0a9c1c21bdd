SPECIFICATION Spec
CONSTANTS
  MaxOutput = 5
  MaxSegments = 3
  MaxEntries = 2
  maxExtractedBytes = 3
INVARIANTS
  LinesAsRead
  ArchiveInPlace
CHECK_DEADLOCK FALSE
