SPECIFICATION MCSpec
CONSTANTS
  Now = 100
  RowLimit = 10
  TimeRange <- NoWindow
  Rows <- MCRows
  Stages <- MCStages
  Lets <- MCLets
  MaxEvents = 2
  MaxStages = 2
  Texts = {a, b, c}
  MaxRuns = 2
  MaxJobs = 4
INVARIANT
  HistoryIsTrue
PROPERTIES
  PushedAgrees
  AnswersAddUp
  ParsesBack
CHECK_DEADLOCK FALSE
