SPECIFICATION Spec
CONSTANTS
  MaxScans = 2
  MaxFound = 2
  MaxRefusals = 1
  Faults <- FaultKinds
INVARIANTS
  RunningRowIsLive
  VerdictIsTruthful
  StopHonoured
PROPERTIES
  QuitSettlesEngine
  ImplementsLifecycle
