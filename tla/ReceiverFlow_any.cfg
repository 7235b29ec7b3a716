SPECIFICATION Spec
CONSTANTS
  Q = 4
  Sources <- MCFew
  SeqOf <- MCFewSeqOf
  Buffer = 1
  LateLimit = 1
  FirstNack = 1
  NackGap = 1
  MaxRetries = 1
  MissingMax = 1
  FullMax = 1
  TooLateMax = 1
  Null = Null
  Junk <- MCLongPast
  Copies = 2
  MaxReorder = 2
  MaxRetryAge = 2
  OutputJitter = 9
  Disruptions = {"stats", "dead", "flowid"}
  MaxClock = 4
INVARIANTS SizeInv MissingCounterExact
CHECK_DEADLOCK FALSE
