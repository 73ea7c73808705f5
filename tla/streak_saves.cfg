CONSTANTS
    Null = Null
    LastYear = 2029
    SummerDays <- MCSummerDays
    DstHours = 1
    Days <- BoundaryDays
    Updates = {a1}
    Saves = {b1}
    LastDay = 3700
    Ahead = 40

SPECIFICATION MCSpec
INVARIANTS FreezeInv WeeksAreCounted WeeksAreNamed
PROPERTY LongGapEndsStreak
CHECK_DEADLOCK FALSE
