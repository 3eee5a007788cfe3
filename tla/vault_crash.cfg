SPECIFICATION Spec
CONSTANTS
  None = None
  Torn = Torn
  Owned = {o1}
  Rooted = {r1}
  Files = {a, b, c}
  Slots = {s1, s2}
  MaxEntries = 2
  Faults = {"io", "meta_error", "helper_io", "crash", "tamper"}
SYMMETRY Symmetry
INVARIANTS
  ContentSurvives
PROPERTIES
  RootWritesItsRecord
CHECK_DEADLOCK FALSE
