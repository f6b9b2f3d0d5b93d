SPECIFICATION Spec
CONSTANTS
  Prompts = {p1, p2}
  Steers = {}
  FollowUps = {}
  Customs = {}
  NoOne = NoOne
  StreamingBehavior = "steer"
  Channel = FALSE
  SteeringMode = "one-at-a-time"
  FollowUpMode = "one-at-a-time"
  MaxRetries = 1
  AutoCompaction = TRUE
  MaxPushes = 0
  Responses = {"stop"}
  MaxToolTurns = 1
  MaxStops = 1
INVARIANTS
  IdleMeansIdle
