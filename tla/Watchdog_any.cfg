SPECIFICATION FairSpec
CONSTANT MaxPipe = 6
INVARIANTS ChildInv OnlyCutMisses OneChild NoFalseRestart
PROPERTIES AskedIsReplaced GoneIsReplaced
CHECK_DEADLOCK FALSE
