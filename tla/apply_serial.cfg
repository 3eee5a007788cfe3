SPECIFICATION FairSpec
CONSTANTS
  Options = {x, y}
  Pages = {"configuration"}
  Units = {"daemon", "onaccess"}
  MaxApplies = 3
  Hazards = {}
  Words <- MCWords
  Lower <- MCLower
  NumberOf <- MCNumberOf
  Values <- MCValues
  MaxRows = 2
  Files <- MCFiles
  Editors <- MCEditors
  Shown <- MCShown
  Machines <- MCMachines
  Home <- MCHome
  RiskyPaths <- MCRisky
INVARIANTS
  SavedMeansRestarted
  EditsStayLocal
  RemediesHeal
CHECK_DEADLOCK FALSE
