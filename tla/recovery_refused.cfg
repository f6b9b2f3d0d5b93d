SPECIFICATION Spec
CONSTANTS
  Prompts = {p1}
  Steers = {}
  FollowUps = {}
  Customs = {}
  NoOne = NoOne
  StreamingBehavior = "none"
  Channel = TRUE
  SteeringMode = "one-at-a-time"
  FollowUpMode = "one-at-a-time"
  MaxRetries = 1
  AutoCompaction = TRUE
  MaxPushes = 0
  Responses = {"stop", "error", "overflow"}
  MaxToolTurns = 1
  MaxStops = 1
PROPERTIES
  RecoveryContinues
