SPECIFICATION Spec
CONSTANT
    Plans <- Mixed
INVARIANTS
    TypeOK
    BothSeeAll
    CancelCoordinated
    NoneForgotten
CHECK_DEADLOCK FALSE
