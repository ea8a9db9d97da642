SPECIFICATION Spec
CONSTANTS
    Align = 4
    Sizes = {0, 1, 4, 7, 11, 16, 18}
    BlockLimits <- MCBlockLimits
    Leftovers = {0, 3, 20}
    Slots = 2
INVARIANTS
    ContentExact
    FinishedStays
CHECK_DEADLOCK FALSE
