SPECIFICATION Spec
CONSTANTS
    r1 = r1
    i1 = i1
    o1 = o1
    d1 = d1
    x1 = x1
    Sizes <- OneChunk
    HWM = 0
    BufLen = 1
    Producers = {}
    Endings = {}
    Reads = {}
    Intos = {}
    Owned = {o1}
    ClosedCalls = {}
    Cancels = {}
    Mixes <- OwnedOnly
    MaxEndings = 1
INVARIANTS
    PullIntoIsPulled
CHECK_DEADLOCK FALSE
