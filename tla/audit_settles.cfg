SPECIFICATION FairAuditSpec
CONSTANTS
  MaxToken = 0
  MaxFailures = 0
  MaxRows = 2
  AuditClicks = 1
PROPERTIES
  PageSettles
CHECK_DEADLOCK FALSE
