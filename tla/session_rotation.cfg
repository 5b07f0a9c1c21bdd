SPECIFICATION Spec
CONSTANTS
  Calls = {c1, c2, c3}
  Tabs = {t1}
  NoTab = NoTab
  MaxFaults = 0
INVARIANT RotatesOnce
CHECK_DEADLOCK FALSE
