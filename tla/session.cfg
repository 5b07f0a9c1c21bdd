SPECIFICATION Spec
CONSTANTS
  Calls = {c1, c2, c3, c4}
  Tabs = {t1, t2}
  NoTab = NoTab
  MaxFaults = 1
INVARIANTS
  TypeOK
  UnsentIsLive
  OneLivePerLogin
  NoneRefused
SYMMETRY Symmetry
CHECK_DEADLOCK FALSE
