\* 1.33 s window (2 s in Redis), 1 s block: the counter could outlive the block.
SPECIFICATION Spec
CONSTANTS
    Second = 3
    Limit = 2
    Window = 4
    Block = 3
INVARIANTS
    BlockNotExtended
    BlockHolds
    BlockIsEarned
    TwoLimitsPerSpan
