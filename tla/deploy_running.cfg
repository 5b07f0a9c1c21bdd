SPECIFICATION FairSpec
CONSTANTS
  Projects = {p1}
  Requests = {r1}
  NoProject = NoProject
  NoRequest = NoRequest
  MaxCrashes = 0
PROPERTY RunningSettles
CHECK_DEADLOCK FALSE
