CONSTANTS
  Connections = {c1, c2}
  MaxRequests = 1
  MaxRuntimes = 1
  MaxOperations = 0
SPECIFICATION Spec
INVARIANTS
  ToldAttached
