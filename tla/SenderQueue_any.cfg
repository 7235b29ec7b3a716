SPECIFICATION FairSpec
CONSTANTS
  Slots = 2
  SeqMod = 2
  RetrySlots = 4
  Peers = {p1, p2}
  Null = Null
  MinTime = 1
  ShrinkTime = 1
  Rtt = 1
  SearchPeriod = 1
  RetryTime = 1
  MaxRetries = 1
  PerLoop = 1
  TooMany = 2
  CongestionOff = FALSE
  MaxPackets = 4
  MaxRequests = 4
INVARIANTS RingInv Findable FlaggedIsPending NoFlood
PROPERTIES RequestsHandled
CHECK_DEADLOCK FALSE
