SPECIFICATION Spec
CONSTANTS
    Origins = {o1}
    Limits <- MCLimits
    Period <- MCPeriod
    Second = 2
    MaxTime = 4
    MaxPassed = 5
    None = None
INVARIANTS
    TypeOK
    SlidingBound
    RefusedOnlyWhenSpent
PROPERTIES
    WaitIsNearlyEnough
CHECK_DEADLOCK FALSE
