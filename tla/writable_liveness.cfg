SPECIFICATION FairSpec
CONSTANTS
    Writes <- OneWrite
    Size <- OneSize
    HWM = 1
    Flushes = {}
    Closes = {c1}
    Aborts = {a1}
    Errors = {}
    ReadyCalls = {r1}
    ClosedCalls = {d1}
PROPERTIES
    PromisesSettle
    WaitersWake
CHECK_DEADLOCK FALSE
