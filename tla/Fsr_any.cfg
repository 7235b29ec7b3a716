SPECIFICATION FairSpec
CONSTANTS
    Agents = {a1}
    SatIsChild = TRUE
    SessionTimeout = 2
    RemoveAfter = 1
    KeepaliveEvery = 3
    RepeatEvery = 2
    RepeatFor = 4
    MaxIds = 2
INVARIANTS ListedExist StillReleasing
PROPERTIES NoDisableWhileDown Served Released
