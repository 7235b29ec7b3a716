SPECIFICATION FairSpec
CONSTANTS
  Q = 8
  Sources <- MCThree
  SeqOf <- MCThreeSeqOf
  Buffer = 3
  LateLimit = 4
  FirstNack = 1
  NackGap = 1
  MaxRetries = 9
  MissingMax = 9
  FullMax = 2
  TooLateMax = 2
  Null = Null
  Junk <- MCJunk
  Copies = 2
  MaxReorder = 2
  MaxRetryAge = 9
  OutputJitter = 1
  Disruptions = {}
  MaxClock = 9
PROPERTIES NotStranded
CHECK_DEADLOCK FALSE
