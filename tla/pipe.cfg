SPECIFICATION FairSpec
CONSTANTS
    Plans <- Mixed
    MaxChunks = 2
    Triggers = {t1, t2}
INVARIANTS
    TypeOK
    NothingLost
    OkMeansDelivered
    Propagates
    FirstAbortWins
PROPERTIES
    Settles
CHECK_DEADLOCK FALSE
