SPECIFICATION Spec
CONSTANTS
    PerCall = 1
    Plans <- Mixed
INVARIANTS
    TypeOK
    NoneStuck
    WoundUpOnce
PROPERTIES
    Backpressure
    CancelBeforeFlush
CHECK_DEADLOCK FALSE
