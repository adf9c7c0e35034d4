\* 1 s window, 2 s block: does the block last as long as the rule says?
SPECIFICATION Spec
CONSTANTS
    Second = 3
    Limit = 2
    Window = 3
    Block = 6
INVARIANTS
    BlockIsExact
