CONSTANTS
  Connections = {c1, c2}
  MaxRequests = 2
  MaxRuntimes = 2
  MaxOperations = 1
SPECIFICATION FairSpec
INVARIANTS
  OneRuntime
  Attended
PROPERTIES
  AttachEnds
  AbandonedEnds
  ClosedForGood
