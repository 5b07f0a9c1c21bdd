SPECIFICATION Spec
CONSTANTS
  Ingestions = {i1, i2, i3}
  Original = original
  MaxFaults = 1
  MaxCrashes = 1
INVARIANTS
  TypeOK
  OriginalRecoverable
  NothingLeftBehind
PROPERTY FailingAloneIsHarmless
CHECK_DEADLOCK FALSE
