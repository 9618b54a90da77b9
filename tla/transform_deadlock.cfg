SPECIFICATION Spec
CONSTANTS
    PerCall = 1
    Plans <- Racing
INVARIANTS
    NoMutualWait
CHECK_DEADLOCK FALSE
