SPECIFICATION Spec
CONSTANTS
  N = 2
  HookMessages = TRUE
  MaxBash = 0
INVARIANTS
  CallsAnsweredOnce
