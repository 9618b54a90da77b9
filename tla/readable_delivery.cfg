SPECIFICATION FairSpec
CONSTANTS
    Chunks <- TwoChunks
    Size <- TwoSizes
    HWM = 1
    Closings = {k1}
    Errors = {}
    Reads <- TwoReads
    Cancels = {x1}
    ReadyCalls = {}
    ClosedCalls = {}
INVARIANTS
    TypeOK
    Accounting
    NoChunkLost
    CancelReachesSource
PROPERTIES
    ImplementsEnd
    PromisesSettle
    ReadIsServed
CHECK_DEADLOCK FALSE
