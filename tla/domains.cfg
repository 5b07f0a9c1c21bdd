SPECIFICATION Spec
CONSTANTS
  Requests = {r1, r2, r3}
  Hosts <- SomeHosts
  a = a
  b = b
  c = c
  NoHost = NoHost
  NoFile = NoFile
  MaxFaults = 1
  MaxCrashes = 1
INVARIANTS
  TypeOK
  HostsAreUnique
  RoutesAreWhole
  RoutesFollowTable
  NoTempLeft
SYMMETRY Symmetry
CHECK_DEADLOCK FALSE
