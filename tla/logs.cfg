SPECIFICATION FairStreamSpec
CONSTANTS
  QueueLimit = 2
  MaxLines = 4
  VisibleLimit = 2
INVARIANTS
  StreamTypeOK
  FramesInOrder
  ShownUnlessHasty
  ErrorStaysShown
PROPERTIES
  FollowerStops
  FailureIsTold
CHECK_DEADLOCK FALSE
