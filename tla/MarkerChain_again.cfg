CONSTANTS
  PerRtp = 1
  PerMarker = 2
  RtpMod = 2
  MarkerMod = 3
  CountMod = 5
  MaxBlock = 3
  LossThreshold = 1
  FailureThreshold = 2
  Window = 0
  GoodRequired = 1
  RecoveryTime = 1
  MessageInterval = 0
  Null = Null
  MaxCount = 4
  Payloads <- Single
  Troubles = {"lose", "repeat"}
  MaxLossRun = 1
  MaxWire = 1
SPECIFICATION FairSpec
PROPERTIES SendsAgain
