SPECIFICATION FairSpec
CONSTANTS
    Plans <- Mixed
    MaxChunks = 2
    Triggers = {t1, t2}
PROPERTIES
    SettlesOnError
CHECK_DEADLOCK FALSE
