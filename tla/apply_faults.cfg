SPECIFICATION FairSpec
CONSTANTS
  Options = {x}
  Pages = {"configuration", "protection"}
  Units = {"daemon", "onaccess"}
  MaxApplies = 2
  Hazards <- HazardKinds
INVARIANTS
  FinishedOnce
PROPERTIES
  ChangedAsShown
  ApplyEnds
CHECK_DEADLOCK FALSE
