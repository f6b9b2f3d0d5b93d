SPECIFICATION Spec
CONSTANTS
  Prompts = {p1, p2}
  Steers = {s1}
  FollowUps = {f1}
  Customs = {}
  NoOne = NoOne
  StreamingBehavior = "none"
  Channel = TRUE
  SteeringMode = "one-at-a-time"
  FollowUpMode = "one-at-a-time"
  MaxRetries = 1
  AutoCompaction = TRUE
  MaxPushes = 0
  Responses = {"stop", "toolUse", "error", "fatal", "overflow", "length"}
  MaxToolTurns = 1
  MaxStops = 2
SYMMETRY Symmetric
INVARIANTS
  TypeOK
  OneOperation
  IdleMeansIdle
  RetryHidesFailure
  OutcomeRecorded
  FailuresBounded
