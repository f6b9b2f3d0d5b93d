SPECIFICATION Spec
CONSTANTS
  Prompts = {p1}
  Steers = {s1}
  FollowUps = {f1}
  Customs = {c1}
  NoOne = NoOne
  StreamingBehavior = "steer"
  Channel = FALSE
  SteeringMode = "all"
  FollowUpMode = "all"
  MaxRetries = 1
  AutoCompaction = FALSE
  MaxPushes = 0
  Responses = {"stop", "toolUse", "error"}
  MaxToolTurns = 1
  MaxStops = 1
SYMMETRY Symmetric
INVARIANTS
  DisplayIsQueue
  QueuedSinceClear
  DeliveredOnce
PROPERTIES
  OldestFirst
