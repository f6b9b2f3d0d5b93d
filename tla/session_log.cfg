CONSTANTS
  Managers = {m1, m2}
  MaxEntries = 5
  MaxUpset = 4
  MaxLogs = 2
  MaxRuns = 2
SPECIFICATION Spec
INVARIANTS
  ContextRestored
  InterruptionFound
PROPERTIES
  ClosedStaysClosed
SYMMETRY Symmetry
