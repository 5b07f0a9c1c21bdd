SPECIFICATION Spec
CONSTANTS
  Ingestions = {i1, i2}
  Original = original
  MaxFaults = 0
  MaxCrashes = 0
INVARIANT SourceSurvives
CHECK_DEADLOCK FALSE
