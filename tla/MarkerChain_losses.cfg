CONSTANTS
  PerRtp = 2
  PerMarker = 2
  RtpMod = 16
  MarkerMod = 8
  CountMod = 8
  MaxBlock = 6
  LossThreshold = 2
  FailureThreshold = 2
  Window = 1
  GoodRequired = 2
  RecoveryTime = 1
  MessageInterval = 1
  Null = Null
  MaxCount = 7
  Payloads <- Plain
  Troubles = {"lose"}
  MaxLossRun = 3
  MaxWire = 1
SPECIFICATION Spec
INVARIANTS BlocksIntact
PROPERTIES TripNeedsLosses LossesTrip
