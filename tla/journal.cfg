SPECIFICATION FairSpec
CONSTANTS
  MaxEntries = 4
  Limit = 2
  Hazards = {"crash_saving", "cursor_error", "unparseable"}
INVARIANTS
  PassedIsStored
  StoredOnce
  OkReadIsComplete
PROPERTY ReadEnds
