SPECIFICATION Spec
CONSTANTS
    Writes <- ThreeWrites
    Size <- ThreeSizes
    HWM = 2
    Flushes = {f1}
    Closes = {c1}
    Aborts = {a1}
    Errors = {e1}
    ReadyCalls = {}
    ClosedCalls = {}
INVARIANTS
    TypeOK
    Accounting
    FlagsCurrent
    FlushBarrier
PROPERTIES
    FirstErrorWins
    WriteKeepsOwnResult
    ImplementsEnd
CHECK_DEADLOCK FALSE
