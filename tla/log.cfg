SPECIFICATION Spec
CONSTANTS
  Paths = {p, q}
  Hour = 3
  Grace = 2
  Window = 2
  Lag = 1
  MaxTime = 5
  MaxLines = 3
  MaxRows = 2
  Hazards <- HazardKinds
INVARIANTS
  CatchIsRecorded
  ClosedRowCounts
PROPERTIES
  OwnHitsStayOut
  OncePerWindow
CHECK_DEADLOCK FALSE
