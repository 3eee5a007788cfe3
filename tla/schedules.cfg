SPECIFICATION FairSpec
CONSTANTS
  Procs = {p1, p2}
  NoProc = NoProc
  Number = 2
  Full = {1}
  Moments <- TwoMoments
  MaxTime = 3
  Hazards = {}
INVARIANTS
  OneCopy
  OncePerMoment
PROPERTY DueIsMarked
