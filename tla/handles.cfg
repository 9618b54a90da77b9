SPECIFICATION FairSpec
CONSTANTS
    Plans <- Mixed
    MaxSent = 6
    Lengths = {1, 2}
    Threads = {t1, t2}
    t1 = t1
    t2 = t2
    MaxRefs = 2
INVARIANTS
    TypeOK
    Exclusive
    AnswersTrue
PROPERTIES
    PollsSettle
CHECK_DEADLOCK FALSE
