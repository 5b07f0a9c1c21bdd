SPECIFICATION FairSpec
CONSTANTS
  Projects = {p1, p2}
  Requests = {r1, r2}
  NoProject = NoProject
  NoRequest = NoRequest
  MaxCrashes = 1
INVARIANTS
  TypeOK
  LockMatchesHolder
  ExclusiveCommand
  LogIsOwn
  OutcomesAgree
PROPERTIES
  LedgerSpec
  LockIsReleased
CHECK_DEADLOCK FALSE
