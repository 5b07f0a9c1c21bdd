SPECIFICATION Spec
CONSTANTS
  TimeoutMs = 3
  KillGraceMs = 2
  MaxTime = 8
INVARIANTS
  TypeOK
  OnlyPipesDelay
  ResultIsTrue
PROPERTY SettlesOnce
CHECK_DEADLOCK FALSE
