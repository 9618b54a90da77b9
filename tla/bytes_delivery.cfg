SPECIFICATION Spec
CONSTANTS
    r1 = r1
    i1 = i1
    o1 = o1
    d1 = d1
    x1 = x1
    Sizes <- OneChunk
    HWM = 1
    BufLen = 1
    Producers = {p1}
    Endings = {"close", "error"}
    Reads = {r1}
    Intos = {i1}
    Owned = {o1}
    ClosedCalls = {d1}
    Cancels = {x1}
    Mixes <- Pairs
    MaxEndings = 1
INVARIANTS
    TypeOK
    ByteOrder
    NoStrandedPullInto
    CallsHeld
CHECK_DEADLOCK FALSE
VIEW Told
