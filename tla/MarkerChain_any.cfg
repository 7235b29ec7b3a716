CONSTANTS
  PerRtp = 2
  PerMarker = 1
  RtpMod = 1
  MarkerMod = 3
  CountMod = 5
  MaxBlock = 4
  LossThreshold = 2
  FailureThreshold = 3
  Window = 1
  GoodRequired = 1
  RecoveryTime = 0
  MessageInterval = 0
  Null = Null
  MaxCount = 4
  Payloads <- Padded
  Troubles = {"swap", "gap", "restart"}
  MaxLossRun = 1
  MaxWire = 2
SPECIFICATION Spec
INVARIANTS BreakerInv CountersMatch BlocksWhole
PROPERTIES TripNeedsFailures
