SPECIFICATION Spec
CONSTANTS
  MaxToken = 1
  MaxFailures = 1
  MaxRows = 3
  AuditClicks = 1
  PageActs = 2
  MaxUnderWay = 2
  TabActs = 2
  MaxProjects = 2
  FormActs = 5
  Keystrokes = 2
INVARIANTS
  PagesTypeOK
  AuditShowsAsked
  ShownIsOwn
  RowsAreReal
  OneProjectPerForm
  NoticeIsTrue
  MetricsAreOwn
PROPERTIES
  EditsKept
CHECK_DEADLOCK FALSE
VIEW View
