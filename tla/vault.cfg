SPECIFICATION Spec
CONSTANTS
  None = None
  Torn = Torn
  Owned = {o1, o2}
  Rooted = {r1}
  Files = {a, b, c}
  Slots = {s1, s2}
  MaxEntries = 2
  Faults = {"io", "tamper"}
SYMMETRY Symmetry
INVARIANTS
  SidecarsMatchPayloads
PROPERTIES
  AnnouncedMeansGone
CHECK_DEADLOCK FALSE
