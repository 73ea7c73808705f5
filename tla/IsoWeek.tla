-------------------------------- MODULE IsoWeek --------------------------------
(* The calendar of src/src/streak/streak.service.ts: a week is written down as *)
(* year and week number, and two weeks are subtracted through local dates.     *)
(*                                                                            *)
(* A date is a number of days, day 0 is Monday 1 January 2018. Local midnights *)
(* are counted in hours, because they are not 24 hours apart when clocks go    *)
(* forward or back; that is what the two Math.round calls have to absorb.      *)
EXTENDS Integers

CONSTANTS
    LastYear,    \* the calendar is modelled from 2018 to this year
    SummerDays,  \* days of the year (from 0) on which summer time is in force
    DstHours     \* how many hours clocks are forward then; 0 for a server on UTC

ASSUME DstAssumption == DstHours \in 0..2
ASSUME LastYearAssumption == LastYear \in Nat

FirstYear == 2018

-------------------------------------------------------------------------------
(* What the JavaScript Date does *)

LeapDays(y) == y \div 4 - y \div 100 + y \div 400

\* 1 January of a year.
Jan1(y) == 365 * (y - FirstYear) + LeapDays(y - 1) - LeapDays(FirstYear - 1)

IsYear(y, day) == Jan1(y) <= day /\ day < Jan1(y + 1)

GetFullYear(day) == CHOOSE y \in FirstYear..LastYear : IsYear(y, day)

\* (getDay() + 6) % 7: 0 for Monday, 6 for Sunday.
MondayBased(day) == day % 7

\* The instant of local midnight, in hours.
Midnight(day) ==
    24 * day - (IF day - Jan1(GetFullYear(day)) \in SummerDays THEN DstHours ELSE 0)

\* getMonthString: month m begins the given number of days into a common year.
MonthBegins == <<0, 31, 59, 90, 120, 151, 181, 212, 243, 273, 304, 334>>
GetMonth(day) ==
    LET y == GetFullYear(day)
        leap == Jan1(y + 1) - Jan1(y) - 365
        begins(m) == Jan1(y) + MonthBegins[m] + (IF m > 2 THEN leap ELSE 0)
    IN  <<y, CHOOSE m \in 1..12 : begins(m) <= day /\ (m = 12 \/ day < begins(m + 1))>>

\* Math.round of numerator / denominator.
Round(numerator, denominator) == (2 * numerator + denominator) \div (2 * denominator)

-------------------------------------------------------------------------------
(* getIsoWeek and weeksDifference *)

HoursPerWeek == 7 * 24

\* Seeded bug: the date itself is taken instead of the Thursday of its week.
SameDay(day) == day

Thursday(day) == day + 3 - MondayBased(day)

Jan4(year) == Jan1(year) + 3

GetIsoWeek(date) ==
    LET d == Thursday(date)
        year == GetFullYear(d)
        week1 == Jan4(year)
    IN  [year |-> year,
         week |-> 1 + Round(Midnight(d) - Midnight(week1) + 24 * (MondayBased(week1) - 3),
                            HoursPerWeek)]

\* toDate: the Monday of a week.
ToDate(w) == Jan4(w.year) - MondayBased(Jan4(w.year)) + (w.week - 1) * 7

\* Seeded bug: whole weeks of hours, without rounding.
WeeksTruncated(weekA, weekB) ==
    (Midnight(ToDate(weekB)) - Midnight(ToDate(weekA))) \div HoursPerWeek

WeeksDifference(weekA, weekB) ==
    Round(Midnight(ToDate(weekB)) - Midnight(ToDate(weekA)), HoursPerWeek)

-------------------------------------------------------------------------------
(* Reference: weeks counted from Monday 1 January 2018 *)

WeekIndex(day) == day \div 7

\* Whatever the year, the clock change and the length of the year (52 or 53 weeks),
\* subtracting two written weeks gives the number of Mondays between two dates.
DifferenceIsExact(a, b) ==
    WeeksDifference(GetIsoWeek(a), GetIsoWeek(b)) = WeekIndex(b) - WeekIndex(a)

\* Two dates are written as the same week exactly if they are in the same week.
SameWeekSameName(a, b) ==
    GetIsoWeek(a) = GetIsoWeek(b) <=> WeekIndex(a) = WeekIndex(b)
================================================================================
