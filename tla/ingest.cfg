SPECIFICATION FairSpec
CONSTANTS
  MaxGen = 2
  MaxLines = 2
  Head = 1
  MaxKept = 2
  Hazards = {"crash_saving", "busy_removal"}
INVARIANTS
  PrefixIsStored
  StoredIsSearchable
PROPERTY IndexEnds
