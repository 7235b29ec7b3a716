SPECIFICATION Spec
CONSTANTS
  Q = 8
  Sources <- MCSources
  SeqOf <- MCSeqOf
  Buffer = 3
  LateLimit = 4
  FirstNack = 1
  NackGap = 1
  MaxRetries = 9
  MissingMax = 9
  FullMax = 2
  TooLateMax = 2
  Null = Null
  Junk <- MCJunk
  Copies = 2
  MaxReorder = 1
  MaxRetryAge = 2
  OutputJitter = 1
  Disruptions = {}
  MaxClock = 9
INVARIANTS MarkFindsPacket HolesAreTracked
PROPERTIES PlaysOut NoReset
CHECK_DEADLOCK FALSE
