SPECIFICATION FairSpec
CONSTANTS
    Chunks <- OneChunk
    Size <- OneSize
    HWM = 1
    Closings = {k1}
    Errors = {e1}
    Reads = {}
    Cancels = {}
    ReadyCalls = {r1}
    ClosedCalls = {d1}
PROPERTIES
    WaitersWake
CHECK_DEADLOCK FALSE
