SPECIFICATION Spec
CONSTANTS
  N = 4
  HookMessages = FALSE
  MaxBash = 1
INVARIANTS
  TypeOK
  ResultsInOrder
  ReportedTruthfully
  RunningShown
  CallsAnsweredOnce
PROPERTIES
  NothingPassesAbort
