SPECIFICATION FairSpec
CONSTANTS
    Lineups <- LineupsConst
    Pids = {0, 1, 2, 3, 4, 5, 6, 7}
    Programs = {1, 2}
    Versions = {0, 1, 2}
    Receivers = {a}
    Requests <- RequestsConst
    PsiMax = 1
    None = None
INVARIANT DecidesAsAsked
PROPERTIES RemembersTables Settles
