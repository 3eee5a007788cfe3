SPECIFICATION FairSpec
CONSTANTS
  MaxScans = 2
  MaxFound = 1
  MaxRefusals = 0
  Faults = {"history_error", "list_error", "hung"}
INVARIANTS
  ReportedOnce
PROPERTIES
  ScanEnds
