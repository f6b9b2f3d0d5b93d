SPECIFICATION FairSpec
CONSTANTS
  Prompts = {p1}
  Steers = {s1}
  FollowUps = {f1}
  Customs = {}
  NoOne = NoOne
  StreamingBehavior = "none"
  Channel = TRUE
  SteeringMode = "one-at-a-time"
  FollowUpMode = "one-at-a-time"
  MaxRetries = 1
  AutoCompaction = TRUE
  MaxPushes = 1
  Responses = {"stop", "toolUse", "error", "fatal"}
  MaxToolTurns = 1
  MaxStops = 1
INVARIANTS
  SettledWithOutcome
  NothingStranded
PROPERTIES
  OperationEnds
  StopReturns
  QueuedIsDelivered
