CONSTANTS
    Null = Null
    LastYear = 2022
    SummerDays <- MCSummerDays
    DstHours = 1
    Days <- OverlapDays
    Updates = {a1, a2}
    Saves = {}

SPECIFICATION Spec
SYMMETRY SlotSymmetry
INVARIANTS StreakCountsWeeks ConsecutiveWeeksCount
CHECK_DEADLOCK FALSE
