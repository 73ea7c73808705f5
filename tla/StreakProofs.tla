------------------------------ MODULE StreakProofs ------------------------------
(* First the calendar of IsoWeek: subtracting two written weeks is exact, for  *)
(* every calendar and clock change of up to two hours, and every date whose    *)
(* Thursday lies in the calendar. Then the properties of Streak, for every set *)
(* of dates, every calendar and any number of overlapping updates and profile  *)
(* saves; where a theorem is about updates alone, its assumption says so.      *)
EXTENDS Streak, CalendarWalk, TLAPS, FiniteSetTheorems

InCalendar(day) == \E y \in FirstYear..LastYear : IsYear(y, day)

-------------------------------------------------------------------------------
(* Facts about dates *)

LEMMA LeapDaysInt == ASSUME NEW y \in Int PROVE LeapDays(y) \in Int
BY DEF LeapDays

LEMMA Jan1Int == ASSUME NEW y \in Int PROVE Jan1(y) \in Int
BY LeapDaysInt DEF Jan1, FirstYear

LEMMA YearOfDay ==
    ASSUME NEW day \in Int, InCalendar(day)
    PROVE  GetFullYear(day) \in FirstYear..LastYear /\ IsYear(GetFullYear(day), day)
BY DEF InCalendar, GetFullYear

LEMMA MidnightIsNear ==
    ASSUME NEW day \in Int
    PROVE  \E shift \in 0..2 : Midnight(day) = 24 * day - shift
<1>1. CASE day - Jan1(GetFullYear(day)) \in SummerDays
  BY <1>1, DstAssumption DEF Midnight
<1>2. CASE day - Jan1(GetFullYear(day)) \notin SummerDays
  BY <1>2 DEF Midnight
<1> QED BY <1>1, <1>2

\* Math.round drops the hour or two by which a week is longer or shorter.
LEMMA RoundIsExact ==
    ASSUME NEW k \in Int, NEW hours \in -2..2
    PROVE  Round(168 * k + hours, 168) = k
<1> DEFINE n == 2 * (168 * k + hours) + 168
<1>1. n \in Int /\ 336 * k <= n /\ n < 336 * (k + 1)
  OBVIOUS
<1>2. n \div 336 = k
  BY <1>1
<1> QED BY <1>2 DEF Round

LEMMA MondayOfDay ==
    ASSUME NEW day \in Int
    PROVE  /\ MondayBased(day) \in 0..6
           /\ day - MondayBased(day) = 7 * WeekIndex(day)
           /\ WeekIndex(day) \in Int
           /\ Thursday(day) \in Int
           /\ Thursday(day) = 7 * WeekIndex(day) + 3
BY DEF MondayBased, WeekIndex, Thursday

-------------------------------------------------------------------------------
(* A written week names its Monday *)

LEMMA WeekNamesItsMonday ==
    ASSUME NEW day \in Int, InCalendar(Thursday(day))
    PROVE  /\ GetIsoWeek(day).year \in FirstYear..LastYear
           /\ GetIsoWeek(day).week \in Int
           /\ ToDate(GetIsoWeek(day)) = 7 * WeekIndex(day)
<1> DEFINE d == Thursday(day)
           year == GetFullYear(d)
           week1 == Jan4(year)
           k == WeekIndex(day) - WeekIndex(week1)
<1>1. d \in Int /\ d = 7 * WeekIndex(day) + 3 /\ WeekIndex(day) \in Int
  BY MondayOfDay
<1>2. year \in FirstYear..LastYear
  BY <1>1, YearOfDay
<1>3. week1 \in Int
  BY <1>2, Jan1Int, LastYearAssumption DEF Jan4, FirstYear
<1>4. /\ MondayBased(week1) \in 0..6
      /\ week1 - MondayBased(week1) = 7 * WeekIndex(week1)
      /\ WeekIndex(week1) \in Int
  BY <1>3, MondayOfDay
<1>5. k \in Int
  BY <1>1, <1>4
<1>6. PICK e \in 0..2 : Midnight(d) = 24 * d - e
  BY <1>1, MidnightIsNear
<1>7. PICK f \in 0..2 : Midnight(week1) = 24 * week1 - f
  BY <1>3, MidnightIsNear
<1> HIDE DEF d, year, week1
<1>8. Midnight(d) - Midnight(week1) + 24 * (MondayBased(week1) - 3) = 168 * k + (f - e)
  BY <1>1, <1>3, <1>4, <1>6, <1>7
<1>9. Round(Midnight(d) - Midnight(week1) + 24 * (MondayBased(week1) - 3), HoursPerWeek) = k
  <2>1. f - e \in -2..2
    OBVIOUS
  <2>2. Round(168 * k + (f - e), 168) = k
    BY <1>5, <2>1, RoundIsExact
  <2>3. HoursPerWeek = 168
    BY DEF HoursPerWeek
  <2> QED BY <1>8, <2>2, <2>3
<1>10. GetIsoWeek(day) = [year |-> year, week |-> 1 + k]
  BY <1>9 DEF GetIsoWeek, d, year, week1
<1>11. GetIsoWeek(day).year = year /\ GetIsoWeek(day).week = 1 + k
  BY <1>10
<1>12. ToDate(GetIsoWeek(day)) = week1 - MondayBased(week1) + k * 7
  BY <1>5, <1>11 DEF ToDate, week1
<1> QED BY <1>1, <1>2, <1>3, <1>4, <1>5, <1>11, <1>12

\* Subtracting the written weeks of two dates counts the Mondays between them, for
\* every calendar: weeksDifference of getIsoWeek is exact whatever Math.round meets.
THEOREM WeeksDifferenceIsExact ==
    ASSUME NEW a \in Int, InCalendar(Thursday(a)),
           NEW b \in Int, InCalendar(Thursday(b))
    PROVE  DifferenceIsExact(a, b)
<1> DEFINE i == WeekIndex(a)
           j == WeekIndex(b)
<1>1. /\ ToDate(GetIsoWeek(a)) = 7 * i /\ i \in Int
      /\ ToDate(GetIsoWeek(b)) = 7 * j /\ j \in Int
  BY WeekNamesItsMonday, MondayOfDay
<1> HIDE DEF i, j
<1>2. 7 * i \in Int /\ 7 * j \in Int
  BY <1>1
<1>3. PICK e \in 0..2 : Midnight(7 * i) = 24 * (7 * i) - e
  BY <1>2, MidnightIsNear
<1>4. PICK f \in 0..2 : Midnight(7 * j) = 24 * (7 * j) - f
  BY <1>2, MidnightIsNear
<1>5. Midnight(7 * j) - Midnight(7 * i) = 168 * (j - i) + (e - f)
  BY <1>1, <1>3, <1>4
<1>6. Round(168 * (j - i) + (e - f), 168) = j - i
  <2>1. j - i \in Int /\ e - f \in -2..2
    BY <1>1
  <2> QED BY <2>1, RoundIsExact
<1>7. WeeksDifference(GetIsoWeek(a), GetIsoWeek(b)) = j - i
  BY <1>1, <1>5, <1>6 DEF WeeksDifference, HoursPerWeek
<1> QED BY <1>7 DEF DifferenceIsExact, i, j

\* Two dates are written as the same week exactly if no Monday lies between them, so
\* "lastWeek === currentWeek" is what it is meant to be.
THEOREM WeekNamesAreUnique ==
    ASSUME NEW a \in Int, InCalendar(Thursday(a)),
           NEW b \in Int, InCalendar(Thursday(b))
    PROVE  SameWeekSameName(a, b)
<1>1. ASSUME GetIsoWeek(a) = GetIsoWeek(b) PROVE WeekIndex(a) = WeekIndex(b)
  <2>1. 7 * WeekIndex(a) = 7 * WeekIndex(b)
    BY <1>1, WeekNamesItsMonday
  <2> QED BY <2>1, MondayOfDay
<1>2. ASSUME WeekIndex(a) = WeekIndex(b) PROVE GetIsoWeek(a) = GetIsoWeek(b)
  <2>1. Thursday(a) = Thursday(b)
    BY <1>2, MondayOfDay
  <2> QED BY <2>1 DEF GetIsoWeek
<1> QED BY <1>1, <1>2 DEF SameWeekSameName

InWalk == reached \in 0..LastDay /\ ahead \in 0..Ahead

LEMMA WalkStays == WalkSpec => []InWalk
<1>1. WalkInit => InWalk
  BY WalkAssumption DEF WalkInit, InWalk
<1>2. InWalk /\ [Walk]_<<reached, ahead>> => InWalk'
  BY WalkAssumption DEF Walk, InWalk
<1> QED BY <1>1, <1>2, PTL DEF WalkSpec

LEMMA WalkInCalendar ==
    ASSUME InWalk
    PROVE  /\ reached \in Int /\ InCalendar(Thursday(reached))
           /\ reached + ahead \in Int /\ InCalendar(Thursday(reached + ahead))
<1>1. reached \in 0..(LastDay + Ahead) /\ reached + ahead \in 0..(LastDay + Ahead)
  BY WalkAssumption DEF InWalk
<1> QED BY <1>1, WalkAssumption DEF InCalendar

\* However long the walk and far the comparison, the weeks between two matches are
\* counted right from what updateStreak has written down.
THEOREM WeeksAreCountedHolds == WalkSpec => []WeeksAreCounted
<1>1. InWalk => WeeksAreCounted
  BY WalkInCalendar, WeeksDifferenceIsExact DEF WeeksAreCounted
<1> QED BY <1>1, WalkStays, PTL

\* However long the walk and far the comparison, two matches have the same written
\* week exactly if they are in one week.
THEOREM WeeksAreNamedHolds == WalkSpec => []WeeksAreNamed
<1>1. InWalk => WeeksAreNamed
  BY WalkInCalendar, WeekNamesAreUnique DEF WeeksAreNamed
<1> QED BY <1>1, WalkStays, PTL

-------------------------------------------------------------------------------
(* Dates and months of the calendar *)

LEMMA DayInCalendar ==
    ASSUME NEW day \in Days, NEW utcDay \in {day - 1, day}
    PROVE  /\ day \in Int /\ utcDay \in Int
           /\ InCalendar(Thursday(day)) /\ InCalendar(utcDay)
BY DaysAssumption DEF InCalendar

LEMMA GetIsoWeekType ==
    ASSUME NEW day \in Days
    PROVE  GetIsoWeek(day) \in Week
<1>1. day \in Int /\ InCalendar(Thursday(day))
  BY DayInCalendar
<1>2. GetIsoWeek(day).year \in FirstYear..LastYear /\ GetIsoWeek(day).week \in Int
  BY <1>1, WeekNamesItsMonday
<1>3. GetIsoWeek(day) = [year |-> GetIsoWeek(day).year, week |-> GetIsoWeek(day).week]
  BY DEF GetIsoWeek
<1> QED BY <1>2, <1>3 DEF Week

LEMMA GetMonthType ==
    ASSUME NEW day \in Int, InCalendar(day)
    PROVE  GetMonth(day) \in Month
<1> DEFINE y == GetFullYear(day)
           leap == Jan1(y + 1) - Jan1(y) - 365
           begins(m) == Jan1(y) + MonthBegins[m] + (IF m > 2 THEN leap ELSE 0)
           fits(m) == begins(m) <= day /\ (m = 12 \/ day < begins(m + 1))
<1>1. y \in FirstYear..LastYear /\ Jan1(y) <= day
  BY YearOfDay DEF IsYear
<1>2. begins(1) <= day
  <2>1. Jan1(y) \in Int
    BY <1>1, Jan1Int, LastYearAssumption DEF FirstYear
  <2> QED BY <2>1, <1>1 DEF MonthBegins
<1>3. Jan1(y) \in Int /\ Jan1(y + 1) \in Int
  BY <1>1, Jan1Int, LastYearAssumption DEF FirstYear
<1> HIDE DEF y
<1>4. \A m \in 1..12 : MonthBegins[m] \in Int
  BY DEF MonthBegins
<1>5. \A m \in 1..12 : begins(m) \in Int
  BY <1>3, <1>4
<1> HIDE DEF begins
<1>6. \E m \in 1..12 : fits(m)
  <2> SUFFICES ASSUME \A m \in 1..12 : ~fits(m) PROVE FALSE
    OBVIOUS
  <2>1. \A m \in 1..11 : begins(m) <= day => begins(m + 1) <= day
    BY <1>5
  <2>2. begins(2) <= day /\ begins(3) <= day /\ begins(4) <= day /\ begins(5) <= day
    BY <1>2, <2>1
  <2>3. begins(6) <= day /\ begins(7) <= day /\ begins(8) <= day /\ begins(9) <= day
    BY <2>2, <2>1
  <2>4. begins(10) <= day /\ begins(11) <= day /\ begins(12) <= day
    BY <2>3, <2>1
  <2> QED BY <2>4
<1>7. (CHOOSE m \in 1..12 : fits(m)) \in 1..12
  BY <1>6
<1>8. GetMonth(day) = <<y, CHOOSE m \in 1..12 : fits(m)>>
  BY DEF GetMonth, y, begins
<1> DEFINE month == CHOOSE m \in 1..12 : fits(m)
<1>9. month \in 1..12 /\ GetMonth(day) = <<y, month>>
  BY <1>7, <1>8
<1> HIDE DEF month
<1> QED BY <1>1, <1>9 DEF Month

-------------------------------------------------------------------------------
(* updateStreak of a sound row gives a sound row *)

LEMMA GapIsPositive ==
    ASSUME NEW a \in Days, NEW b \in Days, a <= b, GetIsoWeek(a) # GetIsoWeek(b)
    PROVE  WeeksDifference(GetIsoWeek(a), GetIsoWeek(b)) \in Nat \ {0}
<1>1. /\ a \in Int /\ InCalendar(Thursday(a))
      /\ b \in Int /\ InCalendar(Thursday(b))
  BY DayInCalendar
<1>2. WeeksDifference(GetIsoWeek(a), GetIsoWeek(b)) = WeekIndex(b) - WeekIndex(a)
  BY <1>1, WeeksDifferenceIsExact DEF DifferenceIsExact
<1>3. WeekIndex(a) # WeekIndex(b)
  BY <1>1, WeekNamesAreUnique DEF SameWeekSameName
<1>4. WeekIndex(a) \in Int /\ WeekIndex(b) \in Int /\ WeekIndex(a) <= WeekIndex(b)
  BY <1>1 DEF WeekIndex
<1> QED BY <1>2, <1>3, <1>4

LEMMA StreakAndFreezesSound ==
    ASSUME NEW seen \in User, RowSound(seen),
           NEW day \in Days, NEW month,
           seen.lastStreakWeek # GetIsoWeek(day),
           \A d \in Days :
               seen.lastStreakWeek # Null /\ seen.lastStreakWeek = GetIsoWeek(d) => d <= day
    PROVE  /\ StreakAndFreezes(seen, GetIsoWeek(day), month).streak \in Nat
           /\ StreakAndFreezes(seen, GetIsoWeek(day), month).freezes \in 0..MAX_FREEZES
<1> DEFINE weeksDiff == WeeksDifference(seen.lastStreakWeek, GetIsoWeek(day))
           freezes == FreezesLeftOver(seen, month)
<1>1. seen.currentStreak \in Nat /\ seen.consecutiveFreezes \in 0..2
  BY DEF User, RowSound, MAX_FREEZES
<1>2. freezes \in 0..2
  BY <1>1 DEF FreezesLeftOver
<1>3. CASE seen.lastStreakWeek = Null
  BY <1>3 DEF StreakAndFreezes, MAX_FREEZES
<1>4. CASE seen.lastStreakWeek # Null
  <2>1. PICK d \in Days : seen.lastStreakWeek = GetIsoWeek(d)
    BY <1>4 DEF RowSound
  <2>2. weeksDiff \in Nat \ {0}
    <3>1. d <= day /\ GetIsoWeek(d) # GetIsoWeek(day)
      BY <1>4, <2>1
    <3> QED BY <2>1, <3>1, GapIsPositive
  <2> HIDE DEF weeksDiff, freezes
  <2>3. CASE weeksDiff = 1
    BY <1>1, <1>4, <2>3 DEF StreakAndFreezes, MAX_FREEZES, weeksDiff, freezes
  <2>4. CASE weeksDiff # 1 /\ Covered(freezes, weeksDiff - 1)
    <3>1. freezes + (weeksDiff - 1) \in 0..2
      BY <1>2, <2>2, <2>4 DEF Covered, MAX_FREEZES
    <3>2. StreakAndFreezes(seen, GetIsoWeek(day), month)
            = [streak |-> seen.currentStreak + 1, freezes |-> freezes + (weeksDiff - 1)]
      BY <1>4, <2>4 DEF StreakAndFreezes, weeksDiff, freezes
    <3> QED BY <1>1, <3>1, <3>2 DEF MAX_FREEZES
  <2>5. CASE weeksDiff # 1 /\ ~Covered(freezes, weeksDiff - 1)
    <3>1. StreakAndFreezes(seen, GetIsoWeek(day), month) = [streak |-> 1, freezes |-> 0]
      BY <1>4, <2>5 DEF StreakAndFreezes, weeksDiff, freezes
    <3> QED BY <3>1 DEF MAX_FREEZES
  <2> QED BY <2>3, <2>4, <2>5
<1> QED BY <1>3, <1>4

LEMMA UpdatedSound ==
    ASSUME NEW seen \in User, RowSound(seen),
           NEW day \in Days, NEW utcDay \in {day - 1, day},
           seen.lastStreakWeek # GetIsoWeek(day),
           \A d \in Days :
               seen.lastStreakWeek # Null /\ seen.lastStreakWeek = GetIsoWeek(d) => d <= day
    PROVE  /\ Updated(seen, day, utcDay) \in User
           /\ Updated(seen, day, utcDay).consecutiveFreezes <= MAX_FREEZES
           /\ Updated(seen, day, utcDay).lastStreakWeek = GetIsoWeek(day)
           /\ Updated(seen, day, utcDay).currentStreak <= Updated(seen, day, utcDay).longestStreak
<1> DEFINE month == GetMonth(utcDay)
           new == StreakAndFreezes(seen, GetIsoWeek(day), month)
           longest == LongestStreak(new.streak, seen.longestStreak)
<1>1. new.streak \in Nat /\ new.freezes \in 0..2
  BY StreakAndFreezesSound DEF MAX_FREEZES
<1>2. utcDay \in Int /\ month \in Month /\ GetIsoWeek(day) \in Week
  BY DayInCalendar, GetMonthType, GetIsoWeekType
<1>3. seen.longestStreak \in Nat
  BY DEF User
<1>4. longest \in Nat /\ new.streak <= longest
  BY <1>1, <1>3 DEF LongestStreak, Larger
<1>5. Updated(seen, day, utcDay) =
        [currentStreak |-> new.streak, longestStreak |-> longest,
         lastStreakWeek |-> GetIsoWeek(day), consecutiveFreezes |-> new.freezes,
         lastMatchDate |-> utcDay, lastFreezeReset |-> month]
  BY DEF Updated
<1> HIDE DEF new, longest, month
<1> QED BY <1>1, <1>2, <1>4, <1>5 DEF User, MAX_FREEZES

\* Writing some columns of a sound row over a sound row gives a sound row.
LEMMA MixedRowSound ==
    ASSUME NEW old \in User, NEW new \in User, NEW dirty \in SUBSET Columns,
           RowSound(old), RowSound(new),
           NEW row, row = [c \in Columns |-> IF c \in dirty THEN new[c] ELSE old[c]]
    PROVE  /\ row \in User
           /\ RowSound(row)
<1>1. /\ row.currentStreak \in {old.currentStreak, new.currentStreak}
      /\ row.longestStreak \in {old.longestStreak, new.longestStreak}
      /\ row.lastStreakWeek \in {old.lastStreakWeek, new.lastStreakWeek}
      /\ row.consecutiveFreezes \in {old.consecutiveFreezes, new.consecutiveFreezes}
      /\ row.lastMatchDate \in {old.lastMatchDate, new.lastMatchDate}
      /\ row.lastFreezeReset \in {old.lastFreezeReset, new.lastFreezeReset}
  BY DEF Columns
<1>2. row = [currentStreak |-> row.currentStreak, longestStreak |-> row.longestStreak,
             lastStreakWeek |-> row.lastStreakWeek,
             consecutiveFreezes |-> row.consecutiveFreezes,
             lastMatchDate |-> row.lastMatchDate, lastFreezeReset |-> row.lastFreezeReset]
  BY DEF Columns
<1>3. row \in User
  BY <1>1, <1>2 DEF User
<1>4. RowSound(row)
  BY <1>1 DEF RowSound
<1> QED BY <1>3, <1>4

-------------------------------------------------------------------------------
(* FreezeInv is inductive *)

\* A call that ends leaves nothing behind but an empty slot.
LEMMA FreeIsSound == Free \in Task /\ RowSound(Free.seen) /\ RowSound(Free.next)
<1>1. NewUser \in User
  BY DEF NewUser, User
<1>2. RowSound(NewUser)
  BY DEF NewUser, RowSound, MAX_FREEZES
<1> QED BY <1>1, <1>2 DEF Free, Task

LEMMA FreezeInvInit == Init => FreezeInv
<1> SUFFICES ASSUME Init PROVE FreezeInv
  OBVIOUS
<1>1. NewUser \in User /\ RowSound(NewUser)
  BY FreeIsSound DEF Free, Task
<1>2. TypeOK
  BY <1>1, FreeIsSound DEF Init, TypeOK
<1>3. RowSound(user) /\ \A s \in Slots : RowSound(task[s].seen) /\ RowSound(task[s].next)
  BY <1>1, FreeIsSound DEF Init
<1> QED BY <1>2, <1>3 DEF FreezeInv

\* A step that leaves the clock and the row alone and gives one slot a sound task.
LEMMA TaskStep ==
    ASSUME FreezeInv, NEW s \in Slots, NEW t \in Task,
           RowSound(t.seen), RowSound(t.next),
           task' = [task EXCEPT ![s] = t],
           today' = today, user' = user, matched' \subseteq Nat, disturbed' = disturbed, lost' \in BOOLEAN
    PROVE  FreezeInv'
<1>1. task \in [Slots -> Task]
  BY DEF FreezeInv, TypeOK
<1>2. task' \in [Slots -> Task] /\ task'[s] = t
      /\ \A r \in Slots : r # s => task'[r] = task[r]
  BY <1>1
<1>3. TypeOK'
  BY <1>2 DEF FreezeInv, TypeOK
<1>4. \A row : RowSound(row) => RowSound(row)'
  BY DEF RowSound
<1>5. RowSound(user)'
  BY DEF FreezeInv, RowSound
<1>6. ASSUME NEW r \in Slots PROVE (RowSound(task[r].seen) /\ RowSound(task[r].next))'
  <2>1. CASE r = s
    BY <1>2, <2>1 DEF RowSound
  <2>2. CASE r # s
    BY <1>2, <2>2 DEF FreezeInv, RowSound
  <2> QED BY <2>1, <2>2
<1> QED BY <1>3, <1>5, <1>6 DEF FreezeInv

LEMMA ReadStep ==
    ASSUME FreezeInv, NEW s \in Slots, Read(s)
    PROVE  FreezeInv'
<1> DEFINE t == [Free EXCEPT !.pc = "read", !.seen = user]
<1>1. user \in User /\ RowSound(user) /\ matched \subseteq Nat
  BY DEF FreezeInv, TypeOK
<1>2. t \in Task /\ t.seen = user /\ t.next = Free.next
  BY <1>1, FreeIsSound DEF Task
<1>3. task' = [task EXCEPT ![s] = t]
      /\ today' = today /\ user' = user /\ matched' = matched /\ disturbed' = disturbed
      /\ lost' \in BOOLEAN
  BY DEF Read, FreezeInv, TypeOK
<1> HIDE DEF t
<1> QED BY <1>1, <1>2, <1>3, FreeIsSound, TaskStep

LEMMA WeekIsNat == ASSUME NEW day \in Days PROVE WeekIndex(day) \in Nat
BY DaysAssumption DEF WeekIndex

LEMMA CountStep ==
    ASSUME FreezeInv, NEW s \in Slots, Count(s)
    PROVE  FreezeInv'
<1>1. PICK utcDay \in {today - 1, today} :
          task' = [task EXCEPT ![s].pc = "write",
                               ![s].next = Updated(task[s].seen, today, utcDay),
                               ![s].dirty = WrittenColumns(task[s].seen, utcDay)]
  BY DEF Count
<1> DEFINE seen == task[s].seen
           next == Updated(seen, today, utcDay)
           dirty == WrittenColumns(seen, utcDay)
           t == [task[s] EXCEPT !.pc = "write", !.next = next, !.dirty = dirty]
<1>2. /\ today \in Days /\ task \in [Slots -> Task] /\ task[s] \in Task
      /\ matched \subseteq Nat
      /\ seen \in User /\ RowSound(seen)
  BY DEF FreezeInv, TypeOK, Task
<1>3. /\ seen.lastStreakWeek # GetIsoWeek(today)
      /\ matched' = matched \cup {WeekIndex(today)}
      /\ today' = today /\ user' = user /\ disturbed' = disturbed /\ lost' \in BOOLEAN
  BY DEF Count, FreezeInv, TypeOK
<1>4. \A d \in Days :
          seen.lastStreakWeek # Null /\ seen.lastStreakWeek = GetIsoWeek(d) => d <= today
  <2> SUFFICES ASSUME NEW d \in Days, seen.lastStreakWeek # Null,
                      seen.lastStreakWeek = GetIsoWeek(d)
               PROVE  d <= today
    OBVIOUS
  <2>1. PICK e \in Days : e <= today /\ seen.lastStreakWeek = GetIsoWeek(e)
    BY <1>2 DEF RowSound
  <2>2. WeekIndex(d) = WeekIndex(e)
    BY <2>1, DayInCalendar, WeekNamesAreUnique DEF SameWeekSameName
  <2>3. WeekIndex(e) # WeekIndex(today)
    <3>1. GetIsoWeek(e) # GetIsoWeek(today)
      BY <1>3, <2>1
    <3> QED BY <1>2, <3>1, DayInCalendar, WeekNamesAreUnique DEF SameWeekSameName
  <2>4. d \in Int /\ e \in Int /\ today \in Int
    BY <1>2, DayInCalendar
  <2> QED BY <2>1, <2>2, <2>3, <2>4 DEF WeekIndex
<1>5. next \in User /\ next.consecutiveFreezes <= MAX_FREEZES
      /\ next.lastStreakWeek = GetIsoWeek(today)
  BY <1>2, <1>3, <1>4, UpdatedSound
<1>6. RowSound(next)
  <2>1. today \in Int
    BY <1>2, DayInCalendar
  <2> HIDE DEF next
  <2> QED BY <1>2, <1>5, <2>1 DEF RowSound
<1>7. dirty \in SUBSET Columns
  BY DEF WrittenColumns
<1> HIDE DEF next, dirty
<1>8. t \in Task /\ t.seen = seen /\ t.next = next
  BY <1>2, <1>5, <1>7 DEF Task
<1>9. task' = [task EXCEPT ![s] = t]
  BY <1>1, <1>2 DEF next, dirty
<1>10. matched' \subseteq Nat
  BY <1>2, <1>3, WeekIsNat
<1> HIDE DEF t, seen
<1> QED BY <1>2, <1>3, <1>6, <1>8, <1>9, <1>10, TaskStep

LEMMA AlreadyCountedStep ==
    ASSUME FreezeInv, NEW s \in Slots, AlreadyCounted(s)
    PROVE  FreezeInv'
<1>1. matched' \subseteq Nat /\ lost' \in BOOLEAN
  BY WeekIsNat DEF AlreadyCounted, FreezeInv, TypeOK
<1> QED BY <1>1, FreeIsSound, TaskStep DEF AlreadyCounted

LEMMA CompareStep ==
    ASSUME FreezeInv, NEW s \in Slots, Compare(s)
    PROVE  FreezeInv'
<1> DEFINE seen == task[s].seen
           dirty == {c \in Columns : seen[c] # user[c]}
           t == [task[s] EXCEPT !.pc = "write", !.next = seen, !.dirty = dirty]
<1>1. /\ task \in [Slots -> Task] /\ task[s] \in Task /\ matched \subseteq Nat
      /\ seen \in User /\ RowSound(seen)
  BY DEF FreezeInv, TypeOK, Task
<1>2. dirty \in SUBSET Columns
  OBVIOUS
<1>3. task' = [task EXCEPT ![s] = t]
      /\ today' = today /\ user' = user /\ matched' = matched /\ disturbed' = disturbed
      /\ lost' \in BOOLEAN
  BY <1>1 DEF Compare, FreezeInv, TypeOK
<1> HIDE DEF dirty
<1>4. t \in Task /\ t.seen = seen /\ t.next = seen
  BY <1>1, <1>2 DEF Task
<1> HIDE DEF t, seen
<1> QED BY <1>1, <1>3, <1>4, TaskStep

LEMMA WriteStep ==
    ASSUME FreezeInv, NEW s \in Slots, Write(s)
    PROVE  FreezeInv'
<1>1. /\ task \in [Slots -> Task] /\ task[s] \in Task
      /\ user \in User /\ RowSound(user) /\ RowSound(task[s].next)
  BY DEF FreezeInv, TypeOK
<1>2. task[s].next \in User /\ task[s].dirty \in SUBSET Columns
  BY <1>1 DEF Task
<1>3. user' \in User /\ RowSound(user')
  <2>1. user' = [c \in Columns |-> IF c \in task[s].dirty THEN task[s].next[c] ELSE user[c]]
    BY DEF Write
  <2> QED BY <1>1, <1>2, <2>1, MixedRowSound
<1>4. /\ task' \in [Slots -> Task] /\ task'[s] = Free
      /\ \A r \in Slots : r # s => task'[r] = task[r]
      /\ today' = today /\ matched' = matched
  BY <1>1, FreeIsSound DEF Write
<1>5. TypeOK'
  <2>1. disturbed' \in BOOLEAN /\ lost' \in BOOLEAN
    BY DEF Write, FreezeInv, TypeOK
  <2> QED BY <1>3, <1>4, <2>1 DEF FreezeInv, TypeOK
<1>6. RowSound(user)'
  BY <1>3, <1>4 DEF RowSound
<1>7. ASSUME NEW r \in Slots PROVE (RowSound(task[r].seen) /\ RowSound(task[r].next))'
  <2>1. CASE r = s
    BY <1>4, <2>1, FreeIsSound DEF RowSound
  <2>2. CASE r # s
    BY <1>4, <2>2 DEF FreezeInv, RowSound
  <2> QED BY <2>1, <2>2
<1> QED BY <1>5, <1>6, <1>7 DEF FreezeInv

LEMMA DatabaseErrorStep == ASSUME FreezeInv, NEW s \in Slots, DatabaseError(s) PROVE FreezeInv'
<1>1. /\ task' = [task EXCEPT ![s] = Free] /\ matched' \subseteq Nat /\ lost' \in BOOLEAN
      /\ today' = today /\ user' = user /\ disturbed' = disturbed
  BY DEF DatabaseError, FreezeInv, TypeOK
<1> QED BY <1>1, FreeIsSound, TaskStep

LEMMA NextDayStep == ASSUME FreezeInv, NextDay PROVE FreezeInv'
<1>1. today' \in Days /\ today \in Days /\ today < today'
  BY DEF NextDay, FreezeInv, TypeOK
<1>2. \A day \in Days : day \in Int
  BY DayInCalendar
<1>3. \A row : RowSound(row) =>
          /\ row.consecutiveFreezes <= MAX_FREEZES
          /\ row.lastStreakWeek # Null =>
                \E day \in Days : day <= today' /\ row.lastStreakWeek = GetIsoWeek(day)
  BY <1>1, <1>2 DEF RowSound
<1>4. TypeOK'
  BY <1>1 DEF NextDay, FreezeInv, TypeOK
<1>5. RowSound(user)'
  BY <1>3 DEF NextDay, FreezeInv, RowSound
<1>6. ASSUME NEW r \in Slots PROVE (RowSound(task[r].seen) /\ RowSound(task[r].next))'
  BY <1>3 DEF NextDay, FreezeInv, RowSound
<1> QED BY <1>4, <1>5, <1>6 DEF FreezeInv

THEOREM FreezeInvHolds == Spec => []FreezeInv
<1>1. Init => FreezeInv
  BY FreezeInvInit
<1>2. FreezeInv /\ [Next]_vars => FreezeInv'
  <2> SUFFICES ASSUME FreezeInv, [Next]_vars PROVE FreezeInv'
    OBVIOUS
  <2>1. ASSUME NEW s \in Updates, UpdateStreak(s) PROVE FreezeInv'
    BY <2>1, ReadStep, CountStep, AlreadyCountedStep, WriteStep DEF UpdateStreak, Slots
  <2>2. ASSUME NEW s \in Saves, SaveUser(s) PROVE FreezeInv'
    BY <2>2, ReadStep, CompareStep, WriteStep DEF SaveUser, Load, Save, Slots
  <2>3. CASE NextDay
    BY <2>3, NextDayStep
  <2>4. CASE UNCHANGED vars
    BY <2>4 DEF vars, FreezeInv, TypeOK, RowSound
  <2>5. ASSUME NEW s \in Slots, DatabaseError(s) PROVE FreezeInv'
    BY <2>5, DatabaseErrorStep
  <2> QED BY <2>1, <2>2, <2>3, <2>4, <2>5 DEF Next
<1> QED BY <1>1, <1>2, PTL DEF Spec

THEOREM StreakTypeOKHolds == Spec => []TypeOK
<1>1. FreezeInv => TypeOK
  BY DEF FreezeInv
<1> QED BY <1>1, FreezeInvHolds, PTL

\* The freezes shown to the user stay between none and all of them.
THEOREM FreezeBudgetHolds == Spec => []FreezeBudget
<1>1. FreezeInv => FreezeBudget
  <2> SUFFICES ASSUME FreezeInv PROVE FreezeBudget
    OBVIOUS
  <2>1. user.consecutiveFreezes \in Nat /\ user.consecutiveFreezes <= 2
    BY DEF FreezeInv, TypeOK, User, RowSound, MAX_FREEZES
  <2> QED BY <2>1 DEF FreezeBudget, MAX_FREEZES
<1> QED BY <1>1, FreezeInvHolds, PTL

-------------------------------------------------------------------------------
(* What an update that is about to be written does to the row it read *)

WeekOf(row) == WeekIndex(ToDate(row.lastStreakWeek))

\* The row counts one match more than the row that was read: in a later week, right
\* after the last one or across a gap that the freezes cover, or from 1 again.
Follows(t) ==
    /\ {"currentStreak", "longestStreak", "lastStreakWeek"} \subseteq t.dirty
    /\ t.next.longestStreak >= t.seen.longestStreak
    /\ t.next.lastStreakWeek # Null
    /\ t.next.currentStreak \in 1..(t.seen.currentStreak + 1)
    /\ t.seen.lastStreakWeek # Null =>
          LET gap == WeekOf(t.next) - WeekOf(t.seen)
          IN  /\ gap >= 1
              /\ gap = 1 => t.next.currentStreak = t.seen.currentStreak + 1
              /\ t.next.currentStreak > 1 => gap <= MAX_FREEZES + 1

PlansFit ==
    /\ \A s \in Updates : task[s].pc = "write" => Follows(task[s])
    /\ \A s \in Saves : task[s].pc = "write" => task[s].next = task[s].seen

LEMMA WeekOfDay ==
    ASSUME NEW day \in Days, NEW row, row.lastStreakWeek = GetIsoWeek(day)
    PROVE  WeekOf(row) = WeekIndex(day) /\ WeekOf(row) \in Nat
           /\ row.lastStreakWeek # Null
<1>1. day \in Int /\ ToDate(GetIsoWeek(day)) = 7 * WeekIndex(day)
  BY DayInCalendar, WeekNamesItsMonday
<1>2. WeekIndex(day) \in Nat
  BY WeekIsNat
<1>3. WeekIndex(7 * WeekIndex(day)) = WeekIndex(day)
  <2> DEFINE i == WeekIndex(day)
  <2>1. i \in Nat
    BY <1>2
  <2> HIDE DEF i
  <2>2. (7 * i) \div 7 = i
    BY <2>1
  <2> QED BY <2>2 DEF WeekIndex, i
<1>4. GetIsoWeek(day) # Null
  BY GetIsoWeekType, NullAssumption
<1> QED BY <1>1, <1>2, <1>3, <1>4 DEF WeekOf

\* The week of a sound row: no later than this one.
LEMMA WeekOfSoundRow ==
    ASSUME NEW row, RowSound(row), row.lastStreakWeek # Null, today \in Days
    PROVE  WeekOf(row) \in Nat /\ WeekOf(row) <= WeekIndex(today)
<1>1. PICK day \in Days : day <= today /\ row.lastStreakWeek = GetIsoWeek(day)
  BY DEF RowSound
<1>2. WeekOf(row) = WeekIndex(day) /\ WeekOf(row) \in Nat
  BY <1>1, WeekOfDay
<1>3. day \in Int /\ today \in Int
  BY DayInCalendar
<1> QED BY <1>1, <1>2, <1>3 DEF WeekIndex

LEMMA UpdatedFollows ==
    ASSUME NEW seen \in User, RowSound(seen), today \in Days,
           NEW utcDay \in {today - 1, today},
           seen.lastStreakWeek # GetIsoWeek(today),
           NEW t, t.seen = seen, t.next = Updated(seen, today, utcDay),
           t.dirty = WrittenColumns(seen, utcDay)
    PROVE  Follows(t) /\ WeekOf(t.next) = WeekIndex(today)
<1> DEFINE month == GetMonth(utcDay)
           new == StreakAndFreezes(seen, GetIsoWeek(today), month)
           freezes == FreezesLeftOver(seen, month)
           weeksDiff == WeeksDifference(seen.lastStreakWeek, GetIsoWeek(today))
<1>1. /\ t.next.currentStreak = new.streak
      /\ t.next.longestStreak = Larger(new.streak, seen.longestStreak)
      /\ t.next.lastStreakWeek = GetIsoWeek(today)
  BY DEF Updated, LongestStreak
<1>2. seen.currentStreak \in Nat /\ seen.longestStreak \in Nat /\ freezes \in Nat
  BY DEF User, FreezesLeftOver
<1>3. WeekOf(t.next) = WeekIndex(today) /\ WeekIndex(today) \in Nat
      /\ t.next.lastStreakWeek # Null
  BY <1>1, WeekOfDay
<1>4. {"currentStreak", "longestStreak", "lastStreakWeek"} \subseteq t.dirty
  BY DEF WrittenColumns, Columns
<1>5. new.streak = 1 \/ (new.streak = seen.currentStreak + 1 /\ seen.lastStreakWeek # Null)
  BY DEF StreakAndFreezes
<1>6. new.streak \in 1..(seen.currentStreak + 1)
  <2> HIDE DEF new
  <2> QED BY <1>2, <1>5
<1>7. t.next.longestStreak >= t.seen.longestStreak
  <2> HIDE DEF new
  <2> QED BY <1>1, <1>2, <1>6 DEF Larger
<1>8. ASSUME seen.lastStreakWeek # Null
      PROVE  /\ WeekOf(t.next) - WeekOf(seen) >= 1
             /\ WeekOf(t.next) - WeekOf(seen) = 1 => new.streak = seen.currentStreak + 1
             /\ new.streak > 1 => WeekOf(t.next) - WeekOf(seen) <= MAX_FREEZES + 1
  <2>1. PICK day \in Days : day <= today /\ seen.lastStreakWeek = GetIsoWeek(day)
    BY <1>8 DEF RowSound
  <2>2. weeksDiff \in Nat \ {0}
    BY <2>1, GapIsPositive
  <2>3. weeksDiff = WeekOf(t.next) - WeekOf(seen)
    <3>1. WeekOf(seen) = WeekIndex(day)
      BY <2>1, WeekOfDay
    <3>2. weeksDiff = WeekIndex(today) - WeekIndex(day)
      BY <2>1, DayInCalendar, WeeksDifferenceIsExact DEF DifferenceIsExact
    <3> QED BY <1>3, <3>1, <3>2
  <2> HIDE DEF weeksDiff, freezes
  <2>4. CASE weeksDiff = 1
    <3>1. new.streak = seen.currentStreak + 1
      BY <1>8, <2>4 DEF StreakAndFreezes, weeksDiff
    <3> QED BY <2>3, <2>4, <3>1 DEF MAX_FREEZES
  <2>5. CASE weeksDiff # 1 /\ Covered(freezes, weeksDiff - 1)
    <3>1. weeksDiff <= 3
      BY <1>2, <2>2, <2>5 DEF Covered, MAX_FREEZES
    <3> QED BY <2>2, <2>3, <2>5, <3>1 DEF MAX_FREEZES
  <2>6. CASE weeksDiff # 1 /\ ~Covered(freezes, weeksDiff - 1)
    <3>1. new.streak = 1
      BY <1>8, <2>6 DEF StreakAndFreezes, weeksDiff, freezes
    <3> QED BY <2>2, <2>3, <2>6, <3>1
  <2> QED BY <2>4, <2>5, <2>6
<1> HIDE DEF new, freezes, weeksDiff, month
<1> QED BY <1>1, <1>3, <1>4, <1>6, <1>7, <1>8 DEF Follows

-------------------------------------------------------------------------------
(* Each step, seen from the slots *)

\* The slot that counts now has a row to write that follows the one it read.
LEMMA CountFollows ==
    ASSUME FreezeInv, NEW s \in Slots, Count(s)
    PROVE  /\ task'[s].pc = "write" /\ task'[s].seen = task[s].seen
           /\ Follows(task'[s]) /\ WeekOf(task'[s].next) = WeekIndex(today)
           /\ \A r \in Slots : r # s => task'[r] = task[r]
<1>1. PICK utcDay \in {today - 1, today} :
          task' = [task EXCEPT ![s].pc = "write",
                               ![s].next = Updated(task[s].seen, today, utcDay),
                               ![s].dirty = WrittenColumns(task[s].seen, utcDay)]
  BY DEF Count
<1>2. /\ task \in [Slots -> Task] /\ task[s] \in Task /\ today \in Days
      /\ task[s].seen \in User /\ RowSound(task[s].seen)
  BY DEF FreezeInv, TypeOK, Task
<1>3. /\ task'[s].pc = "write" /\ task'[s].seen = task[s].seen
      /\ task'[s].next = Updated(task[s].seen, today, utcDay)
      /\ task'[s].dirty = WrittenColumns(task[s].seen, utcDay)
      /\ \A r \in Slots : r # s => task'[r] = task[r]
  BY <1>1, <1>2 DEF Task
<1>4. task[s].seen.lastStreakWeek # GetIsoWeek(today)
  BY DEF Count
<1> QED BY <1>2, <1>3, <1>4, UpdatedFollows

\* A write leaves an empty slot behind, and every row it does not follow disturbed:
\* undisturbed, a save changes nothing, and an update follows the row that is there.
LEMMA WriteUndisturbed ==
    ASSUME FreezeInv, PlansFit, NEW s \in Slots, Write(s), ~disturbed'
    PROVE  \/ /\ user'.currentStreak = user.currentStreak
              /\ user'.longestStreak = user.longestStreak
              /\ user'.lastStreakWeek = user.lastStreakWeek
              /\ s \in Saves
           \/ /\ s \in Updates /\ Follows(task[s]) /\ user = task[s].seen
              /\ user'.currentStreak = task[s].next.currentStreak
              /\ user'.longestStreak = task[s].next.longestStreak
              /\ user'.lastStreakWeek = task[s].next.lastStreakWeek
<1>1. /\ task[s].pc = "write"
      /\ user' = [c \in Columns |-> IF c \in task[s].dirty THEN task[s].next[c] ELSE user[c]]
      /\ task[s].dirty = {} \/ user = task[s].seen
  BY DEF Write
<1>2. CASE s \in Updates
  <2>1. Follows(task[s])
    BY <1>1, <1>2 DEF PlansFit
  <2>2. task[s].dirty # {}
    BY <2>1 DEF Follows
  <2>3. /\ user'.currentStreak = task[s].next.currentStreak
        /\ user'.longestStreak = task[s].next.longestStreak
        /\ user'.lastStreakWeek = task[s].next.lastStreakWeek
    BY <1>1, <2>1 DEF Follows, Columns
  <2> QED BY <1>1, <1>2, <2>1, <2>2, <2>3
<1>3. CASE s \in Saves
  <2>1. task[s].next = task[s].seen
    BY <1>1, <1>3 DEF PlansFit
  <2>2. \A c \in Columns : user'[c] = user[c]
    BY <1>1, <2>1
  <2> QED BY <1>3, <2>2 DEF Columns
<1> QED BY <1>2, <1>3 DEF Slots

\* Steps after which the slot is about to write nothing.
LEMMA IdleStep ==
    ASSUME FreezeInv, NEW s \in Slots,
           Read(s) \/ AlreadyCounted(s) \/ Write(s) \/ DatabaseError(s)
    PROVE  /\ task'[s].pc # "write" /\ task'[s].seen \in {user, NewUser}
           /\ (AlreadyCounted(s) \/ Write(s) \/ DatabaseError(s)) => task'[s] = Free
           /\ \A r \in Slots : r # s => task'[r] = task[r]
<1>1. task \in [Slots -> Task]
  BY DEF FreezeInv, TypeOK
<1>2. CASE Read(s)
  <2> DEFINE t == [Free EXCEPT !.pc = "read", !.seen = user]
  <2>1. t.pc = "read" /\ t.seen = user
    BY DEF Free
  <2>2. task' = [task EXCEPT ![s] = t] /\ task[s].pc = "free"
    BY <1>2 DEF Read
  <2>3. ~AlreadyCounted(s) /\ ~Write(s) /\ ~DatabaseError(s)
    BY <2>2 DEF AlreadyCounted, Write, DatabaseError
  <2> HIDE DEF t
  <2> QED BY <1>1, <2>1, <2>2, <2>3
<1>3. CASE AlreadyCounted(s) \/ Write(s) \/ DatabaseError(s)
  <2>1. task' = [task EXCEPT ![s] = Free]
    BY <1>3 DEF AlreadyCounted, Write, DatabaseError
  <2>2. Free.pc = "free" /\ Free.seen = NewUser
    BY DEF Free
  <2>3. task'[s] = Free /\ \A r \in Slots : r # s => task'[r] = task[r]
    BY <1>1, <2>1
  <2> QED BY <2>2, <2>3
<1> QED BY <1>2, <1>3

LEMMA CompareFits ==
    ASSUME FreezeInv, NEW s \in Slots, Compare(s)
    PROVE  /\ task'[s].pc = "write" /\ task'[s].next = task'[s].seen
           /\ task'[s].seen = task[s].seen
           /\ \A r \in Slots : r # s => task'[r] = task[r]
<1>1. task \in [Slots -> Task] /\ task[s] \in Task
  BY DEF FreezeInv, TypeOK
<1> QED BY <1>1 DEF Compare, Task

LEMMA PlansFitInit == Init => PlansFit
BY DEF Init, PlansFit, Free, Slots

LEMMA PlansFitStep ==
    ASSUME FreezeInv, PlansFit, [Next]_vars
    PROVE  PlansFit'
<1> USE DEF Slots
<1>1. ASSUME NEW s \in Slots, Read(s) \/ AlreadyCounted(s) \/ Write(s) \/ DatabaseError(s)
      PROVE  PlansFit'
  BY <1>1, IdleStep DEF PlansFit, Follows, WeekOf
<1>2. ASSUME NEW s \in Updates, Count(s) PROVE PlansFit'
  <2>1. \A r \in Updates : task'[r].pc = "write" => Follows(task'[r])
    BY <1>2, CountFollows DEF PlansFit
  <2>2. \A r \in Saves : task'[r].pc = "write" => task'[r].next = task'[r].seen
    BY <1>2, CountFollows, SlotsAssumption DEF PlansFit
  <2> QED BY <2>1, <2>2 DEF PlansFit, Follows, WeekOf
<1>3. ASSUME NEW s \in Saves, Compare(s) PROVE PlansFit'
  <2>1. \A r \in Updates : task'[r].pc = "write" => Follows(task'[r])
    BY <1>3, CompareFits, SlotsAssumption DEF PlansFit
  <2>2. \A r \in Saves : task'[r].pc = "write" => task'[r].next = task'[r].seen
    BY <1>3, CompareFits DEF PlansFit
  <2> QED BY <2>1, <2>2 DEF PlansFit, Follows, WeekOf
<1>4. CASE NextDay \/ UNCHANGED vars
  BY <1>4 DEF NextDay, vars, PlansFit, Follows, WeekOf
<1> QED BY <1>1, <1>2, <1>3, <1>4 DEF Next, UpdateStreak, SaveUser, Load, Save

-------------------------------------------------------------------------------
(* A gap longer than the freezes ends the streak *)

\* A row with a week has a streak; a call that overwrites a newer row may break that.
StreakStarts == ~disturbed /\ user.lastStreakWeek # Null => user.currentStreak >= 1

LEMMA StreakStartsStep ==
    ASSUME FreezeInv, PlansFit, StreakStarts, [Next]_vars
    PROVE  StreakStarts'
<1>1. ASSUME NEW s \in Slots, Write(s) PROVE StreakStarts'
  <2> SUFFICES ASSUME ~disturbed', user'.lastStreakWeek # Null
               PROVE  user'.currentStreak >= 1
    BY DEF StreakStarts
  <2>1. ~disturbed
    BY <1>1 DEF Write, FreezeInv, TypeOK
  <2>2. CASE user'.currentStreak = user.currentStreak
             /\ user'.lastStreakWeek = user.lastStreakWeek
    BY <2>1, <2>2 DEF StreakStarts
  <2>3. CASE Follows(task[s]) /\ user'.currentStreak = task[s].next.currentStreak
    BY <2>3 DEF Follows
  <2> QED BY <1>1, <2>2, <2>3, WriteUndisturbed
<1>2. CASE UNCHANGED <<user, disturbed>>
  BY <1>2 DEF StreakStarts
<1> QED BY <1>1, <1>2
        DEF Next, UpdateStreak, SaveUser, Load, Save, Read, Count, AlreadyCounted, Compare,
            DatabaseError, NextDay, vars, Slots

LEMMA LongGapStep ==
    ASSUME FreezeInv, PlansFit, StreakStarts, NEW s \in Slots, Write(s), ~disturbed'
    PROVE  /\ user'.longestStreak >= user.longestStreak
           /\ user.lastStreakWeek # Null /\ user'.currentStreak > user.currentStreak
              => WeekOf(user') - WeekOf(user) <= MAX_FREEZES + 1
<1>1. ~disturbed /\ user \in User
  BY DEF Write, FreezeInv, TypeOK
<1>2. user.longestStreak \in Nat /\ user.currentStreak \in Nat
  BY <1>1 DEF User
<1>3. CASE user'.currentStreak = user.currentStreak
           /\ user'.longestStreak = user.longestStreak
  BY <1>2, <1>3
<1>4. CASE /\ Follows(task[s]) /\ user = task[s].seen
           /\ user'.currentStreak = task[s].next.currentStreak
           /\ user'.longestStreak = task[s].next.longestStreak
           /\ user'.lastStreakWeek = task[s].next.lastStreakWeek
  <2>1. user'.longestStreak >= user.longestStreak
    BY <1>4 DEF Follows
  <2>2. ASSUME user.lastStreakWeek # Null, user'.currentStreak > user.currentStreak
        PROVE  WeekOf(user') - WeekOf(user) <= MAX_FREEZES + 1
    <3>1. task[s].next.currentStreak > 1
      <4>1. user.currentStreak >= 1
        BY <1>1, <2>2 DEF StreakStarts
      <4>2. task[s].next.currentStreak \in 1..(user.currentStreak + 1)
        BY <1>4 DEF Follows
      <4> QED BY <1>2, <1>4, <2>2, <4>1, <4>2
    <3>2. WeekOf(user') = WeekOf(task[s].next)
      BY <1>4 DEF WeekOf
    <3> QED BY <1>4, <2>2, <3>1, <3>2 DEF Follows
  <2> QED BY <2>1, <2>2
<1> QED BY <1>3, <1>4, WriteUndisturbed

\* With any number of overlapping updates and profile saves, until one of them
\* overwrites a newer row: the longest streak never falls, and a streak that goes on
\* has left out no more weeks than there are freezes (updateStreak).
THEOREM LongGapEndsStreakHolds == Spec => LongGapEndsStreak
<1>1. Init => PlansFit /\ StreakStarts
  BY PlansFitInit DEF Init, StreakStarts, NewUser
<1>2. FreezeInv /\ PlansFit /\ StreakStarts /\ [Next]_vars => PlansFit' /\ StreakStarts'
  BY PlansFitStep, StreakStartsStep
<1>3. FreezeInv /\ PlansFit /\ StreakStarts /\ [Next]_vars =>
        [\/ disturbed'
         \/ /\ user'.longestStreak >= user.longestStreak
            /\ user.lastStreakWeek # Null /\ user'.currentStreak > user.currentStreak
               => WeekIndex(ToDate(user'.lastStreakWeek))
                      - WeekIndex(ToDate(user.lastStreakWeek)) <= MAX_FREEZES + 1]_vars
  <2> SUFFICES ASSUME FreezeInv, PlansFit, StreakStarts, [Next]_vars, ~disturbed'
               PROVE  /\ user'.longestStreak >= user.longestStreak
                      /\ user.lastStreakWeek # Null
                            /\ user'.currentStreak > user.currentStreak
                         => WeekOf(user') - WeekOf(user) <= MAX_FREEZES + 1
    BY DEF WeekOf
  <2>1. CASE user' = user
    <3>1. user.longestStreak \in Nat /\ user.currentStreak \in Nat
      BY DEF FreezeInv, TypeOK, User
    <3> QED BY <2>1, <3>1
  <2>2. ASSUME NEW s \in Slots, Write(s)
        PROVE  /\ user'.longestStreak >= user.longestStreak
               /\ user.lastStreakWeek # Null /\ user'.currentStreak > user.currentStreak
                  => WeekOf(user') - WeekOf(user) <= MAX_FREEZES + 1
    BY <2>2, LongGapStep
  <2> QED BY <2>1, <2>2
          DEF Next, UpdateStreak, SaveUser, Load, Save, Read, Count, AlreadyCounted, Compare,
              DatabaseError, NextDay, vars, Slots
<1> QED BY <1>1, <1>2, <1>3, FreezeInvHolds, PTL DEF Spec, LongGapEndsStreak

-------------------------------------------------------------------------------
(* A streak is never longer than the weeks with a match: no profile save in flight *)

CountedIn(row, weeks) ==
    row.currentStreak <= IF row.lastStreakWeek = Null
                         THEN 0 ELSE Cardinality({w \in weeks : w <= WeekOf(row)})

CountInv ==
    /\ IsFiniteSet(matched)
    /\ CountedIn(user, matched)
    /\ \A s \in Slots : /\ CountedIn(task[s].seen, matched)
                        /\ task[s].pc = "write" => CountedIn(task[s].next, matched)

LEMMA CountedInMore ==
    ASSUME NEW row \in User, NEW more, IsFiniteSet(more), NEW weeks \in SUBSET more,
           CountedIn(row, weeks)
    PROVE  CountedIn(row, more)
<1>1. CASE row.lastStreakWeek = Null
  BY <1>1 DEF CountedIn
<1>2. CASE row.lastStreakWeek # Null
  <2> DEFINE A == {v \in weeks : v <= WeekOf(row)}
             B == {v \in more : v <= WeekOf(row)}
  <2>1. A \in SUBSET B /\ B \in SUBSET more
    OBVIOUS
  <2>2. IsFiniteSet(B) /\ IsFiniteSet(A) /\ Cardinality(A) <= Cardinality(B)
    BY <2>1, FS_Subset
  <2>3. Cardinality(A) \in Nat /\ Cardinality(B) \in Nat
    BY <2>2, FS_CardinalityType
  <2>4. row.currentStreak \in Nat /\ row.currentStreak <= Cardinality(A)
    BY <1>2 DEF CountedIn, User
  <2>5. row.currentStreak <= Cardinality(B)
    <3> HIDE DEF A, B
    <3> QED BY <2>2, <2>3, <2>4
  <2> QED BY <1>2, <2>5 DEF CountedIn
<1> QED BY <1>1, <1>2

\* An update adds its week to the weeks that its row counts, and 1 to the streak.
LEMMA FollowingIsCounted ==
    ASSUME NEW weeks \in SUBSET Nat, IsFiniteSet(weeks),
           NEW t, t.seen.currentStreak \in Nat, Follows(t), CountedIn(t.seen, weeks),
           WeekOf(t.next) \in Nat, t.seen.lastStreakWeek # Null => WeekOf(t.seen) \in Nat
    PROVE  CountedIn(t.next, weeks \cup {WeekOf(t.next)})
<1> DEFINE n == WeekOf(t.next)
           A == IF t.seen.lastStreakWeek = Null THEN {}
                ELSE {v \in weeks : v <= WeekOf(t.seen)}
           B == {v \in weeks \cup {n} : v <= n}
           more == weeks \cup {n}
<1>1. IsFiniteSet(A) /\ IsFiniteSet(B)
  <2>1. IsFiniteSet(more)
    BY FS_AddElement
  <2>2. A \in SUBSET weeks /\ B \in SUBSET more
    OBVIOUS
  <2> HIDE DEF A, B, more
  <2> QED BY <2>1, <2>2, FS_Subset
<1>2. t.seen.currentStreak <= Cardinality(A)
  BY FS_EmptySet DEF CountedIn
<1>3. n \notin A
  <2>1. CASE t.seen.lastStreakWeek # Null
    <3>1. n - WeekOf(t.seen) >= 1
      BY <2>1 DEF Follows
    <3>2. ~(n <= WeekOf(t.seen))
      BY <2>1, <3>1
    <3> QED BY <2>1, <3>2
  <2>2. CASE t.seen.lastStreakWeek = Null
    BY <2>2
  <2> QED BY <2>1, <2>2
<1>4. A \cup {n} \in SUBSET B
  <2>1. n <= n
    OBVIOUS
  <2>2. CASE t.seen.lastStreakWeek = Null
    BY <2>1, <2>2
  <2>3. CASE t.seen.lastStreakWeek # Null
    <3>1. n - WeekOf(t.seen) >= 1
      BY <2>3 DEF Follows
    <3>2. \A v \in A : v \in weeks /\ v <= WeekOf(t.seen)
      BY <2>3
    <3>3. n \in Nat /\ WeekOf(t.seen) \in Nat
      BY <2>3
    <3> HIDE DEF A, n
    <3>4. ASSUME NEW v \in A PROVE v <= n
      <4> DEFINE last == WeekOf(t.seen)
      <4>1. v \in Nat /\ v <= last /\ n - last >= 1 /\ last \in Nat /\ n \in Nat
        BY <3>1, <3>2, <3>3
      <4> HIDE DEF last
      <4> QED BY <4>1
    <3>5. \A v \in A \cup {n} : v \in weeks \cup {n} /\ v <= n
      BY <2>1, <3>2, <3>4
    <3> QED BY <3>5
  <2> QED BY <2>2, <2>3
<1> HIDE DEF A, B
<1>5. Cardinality(A \cup {n}) = Cardinality(A) + 1
  BY <1>1, <1>3, FS_AddElement
<1>6. Cardinality(A \cup {n}) <= Cardinality(B)
  BY <1>1, <1>4, FS_Subset
<1>7. Cardinality(A) \in Nat /\ Cardinality(B) \in Nat
  BY <1>1, FS_CardinalityType
<1>8. t.next.currentStreak \in 1..(t.seen.currentStreak + 1) /\ t.next.lastStreakWeek # Null
  BY DEF Follows
<1>9. t.next.currentStreak <= Cardinality(B)
  BY <1>2, <1>5, <1>6, <1>7, <1>8
<1> QED BY <1>8, <1>9 DEF CountedIn, B

LEMMA CountInvInit == Init => CountInv
<1> SUFFICES ASSUME Init PROVE CountInv
  OBVIOUS
<1>1. NewUser.currentStreak = 0 /\ NewUser.lastStreakWeek = Null
  BY DEF NewUser
<1>2. CountedIn(NewUser, matched)
  BY <1>1 DEF CountedIn
<1>3. IsFiniteSet(matched)
  BY FS_EmptySet DEF Init
<1> QED BY <1>2, <1>3 DEF Init, CountInv, Free

\* Matches are never forgotten, and a row that was counted stays counted.
LEMMA CountedGoesOn ==
    ASSUME FreezeInv, CountInv, [Next]_vars
    PROVE  /\ IsFiniteSet(matched')
           /\ CountedIn(user, matched') /\ CountedIn(NewUser, matched')
           /\ \A s \in Slots : /\ CountedIn(task[s].seen, matched')
                               /\ task[s].pc = "write" => CountedIn(task[s].next, matched')
<1>1. matched' = matched \/ matched' = matched \cup {WeekIndex(today)}
  BY DEF Next, UpdateStreak, SaveUser, Load, Save, Read, Count, AlreadyCounted, Write,
         Compare, DatabaseError, NextDay, vars
<1>2. matched \in SUBSET matched' /\ IsFiniteSet(matched')
  BY <1>1, FS_AddElement DEF CountInv
<1>3. user \in User /\ NewUser \in User
      /\ \A s \in Slots : task[s].seen \in User /\ task[s].next \in User
  BY FreeIsSound DEF FreezeInv, TypeOK, Task, Free
<1>4. CountedIn(NewUser, matched)
  <2>1. NewUser.currentStreak = 0 /\ NewUser.lastStreakWeek = Null
    BY DEF NewUser
  <2> QED BY <2>1 DEF CountedIn
<1>5. \A row \in User : CountedIn(row, matched) => CountedIn(row, matched')
  BY <1>2, CountedInMore
<1> QED BY <1>2, <1>3, <1>4, <1>5 DEF CountInv

LEMMA CountIsCounted ==
    ASSUME FreezeInv, CountInv, NEW s \in Slots, Count(s)
    PROVE  CountedIn(task'[s].next, matched')
<1>1. PICK t : t = task'[s]
  OBVIOUS
<1>2. /\ t.seen = task[s].seen /\ Follows(t) /\ WeekOf(t.next) = WeekIndex(today)
      /\ matched' = matched \cup {WeekIndex(today)}
  BY <1>1, CountFollows DEF Count
<1>3. /\ task[s].seen \in User /\ RowSound(task[s].seen)
      /\ today \in Days /\ matched \in SUBSET Nat
  BY DEF FreezeInv, TypeOK, Task
<1>4. /\ t.seen.currentStreak \in Nat /\ CountedIn(t.seen, matched)
      /\ IsFiniteSet(matched) /\ WeekOf(t.next) \in Nat
      /\ t.seen.lastStreakWeek # Null => WeekOf(t.seen) \in Nat
  BY <1>2, <1>3, WeekIsNat, WeekOfSoundRow DEF User, CountInv
<1>5. CountedIn(t.next, matched \cup {WeekOf(t.next)})
  BY <1>2, <1>3, <1>4, FollowingIsCounted
<1> QED BY <1>1, <1>2, <1>5

LEMMA CountInvStep ==
    ASSUME Saves = {}, FreezeInv, PlansFit, CountInv, [Next]_vars
    PROVE  CountInv'
<1> USE DEF Slots
<1> SUFFICES /\ CountedIn(user', matched')
             /\ \A r \in Slots : /\ CountedIn(task'[r].seen, matched')
                                 /\ task'[r].pc = "write" => CountedIn(task'[r].next, matched')
  BY CountedGoesOn DEF CountInv, CountedIn, WeekOf
<1>1. ASSUME NEW s \in Updates, Write(s) PROVE CountedIn(user', matched')
  <2>1. Follows(task[s]) /\ CountedIn(task[s].next, matched')
    BY <1>1, CountedGoesOn DEF PlansFit, Write
  <2>2. /\ user'.currentStreak = task[s].next.currentStreak
        /\ user'.lastStreakWeek = task[s].next.lastStreakWeek
    BY <1>1, <2>1 DEF Write, Follows, Columns
  <2> QED BY <2>1, <2>2 DEF CountedIn, WeekOf
<1>2. ASSUME user' = user PROVE CountedIn(user', matched')
  BY <1>2, CountedGoesOn
<1>3. CountedIn(user', matched')
  BY <1>1, <1>2 DEF Next, UpdateStreak, SaveUser, Read, Count, AlreadyCounted, DatabaseError,
                       NextDay, vars
<1>4. ASSUME NEW s \in Updates,
             Count(s) \/ Read(s) \/ AlreadyCounted(s) \/ Write(s) \/ DatabaseError(s),
             NEW r \in Slots
      PROVE  /\ CountedIn(task'[r].seen, matched')
             /\ task'[r].pc = "write" => CountedIn(task'[r].next, matched')
  <2>1. CASE r # s
    BY <1>4, <2>1, CountedGoesOn, CountFollows, IdleStep
  <2>2. CASE r = s /\ Count(s)
    BY <2>2, CountedGoesOn, CountFollows, CountIsCounted
  <2>3. CASE r = s /\ (Read(s) \/ AlreadyCounted(s) \/ Write(s) \/ DatabaseError(s))
    BY <2>3, CountedGoesOn, IdleStep
  <2> QED BY <1>4, <2>1, <2>2, <2>3
<1>5. ASSUME task' = task, NEW r \in Slots
      PROVE  /\ CountedIn(task'[r].seen, matched')
             /\ task'[r].pc = "write" => CountedIn(task'[r].next, matched')
  BY <1>5, CountedGoesOn
<1>6. ASSUME NEW r \in Slots
      PROVE  /\ CountedIn(task'[r].seen, matched')
             /\ task'[r].pc = "write" => CountedIn(task'[r].next, matched')
  BY <1>4, <1>5, <1>6 DEF Next, UpdateStreak, NextDay, vars
<1> QED BY <1>3, <1>6

\* However the updates of two matches overlap, a streak is never longer than the weeks
\* with a match up to the week it ends in; with profile saves in flight it can be.
THEOREM StreakCountsWeeksHolds ==
    ASSUME Saves = {} PROVE Spec => []StreakCountsWeeks
<1>1. Init => PlansFit /\ CountInv
  BY PlansFitInit, CountInvInit
<1>2. FreezeInv /\ PlansFit /\ CountInv /\ [Next]_vars => PlansFit' /\ CountInv'
  BY PlansFitStep, CountInvStep
<1>3. CountInv => StreakCountsWeeks
  BY DEF CountInv, CountedIn, StreakCountsWeeks, WeeksUpTo, WeekOf
<1> QED BY <1>1, <1>2, <1>3, FreezeInvHolds, PTL DEF Spec

-------------------------------------------------------------------------------
(* A match in each of the last weeks counts *)

InFlight(w) == \E s \in Updates : task[s].pc = "write" /\ w = WeekOf(task[s].next)

\* While no call has overwritten a newer row and no update was lost: an update under way read a week with a
\* match that is not later than the row's; the weeks with a match are in the row or about
\* to be; and the row counts all the weeks in a row up to its own, unless an update that
\* is about to disturb it has counted one of them.
ConsecutiveInv == ~disturbed /\ ~lost =>
    /\ \A s \in Updates :
          /\ task[s].pc # "free" /\ task[s].seen.lastStreakWeek # Null =>
                /\ user.lastStreakWeek # Null
                /\ WeekOf(task[s].seen) <= WeekOf(user)
                /\ WeekOf(task[s].seen) \in matched
          /\ task[s].pc = "write" => WeekOf(task[s].next) \in matched
    /\ \A w \in matched : InFlight(w) \/ (user.lastStreakWeek # Null /\ w <= WeekOf(user))
    /\ user.lastStreakWeek # Null =>
          /\ WeekOf(user) \in matched
          /\ NoneOutdated =>
                \A k \in Nat \ {0} : (WeekOf(user) - k + 1)..WeekOf(user) \subseteq matched
                                     => user.currentStreak >= k

LEMMA ConsecutiveInit == Init => ConsecutiveInv
<1> SUFFICES ASSUME Init PROVE ConsecutiveInv
  OBVIOUS
<1>1. user.lastStreakWeek = Null /\ matched = {}
  BY DEF Init, NewUser
<1>2. \A s \in Updates : task[s].pc = "free"
  BY DEF Init, Free, Slots
<1> QED BY <1>1, <1>2 DEF ConsecutiveInv

\* Steps that leave the week, the streak, the matches and the updates alone.
LEMMA ConsecutiveFrame ==
    ASSUME ConsecutiveInv, disturbed' \/ ~disturbed, lost' \/ ~lost,
           disturbed' \/ (/\ user'.currentStreak = user.currentStreak
                          /\ user'.lastStreakWeek = user.lastStreakWeek),
           matched' = matched, \A s \in Updates : task'[s] = task[s]
    PROVE  ConsecutiveInv'
<1> SUFFICES ASSUME ~disturbed', ~lost' PROVE ConsecutiveInv'
  BY DEF ConsecutiveInv
<1>1. /\ user'.currentStreak = user.currentStreak
      /\ user'.lastStreakWeek = user.lastStreakWeek
      /\ ~disturbed /\ ~lost
  OBVIOUS
<1>2. WeekOf(user)' = WeekOf(user) /\ \A w : InFlight(w)' <=> InFlight(w)
  BY <1>1 DEF WeekOf, InFlight
<1>3. \A s \in Updates : /\ WeekOf(task[s].next)' = WeekOf(task[s].next)
                         /\ WeekOf(task[s].seen)' = WeekOf(task[s].seen)
  BY DEF WeekOf
<1>4. NoneOutdated' => NoneOutdated
  BY <1>1 DEF NoneOutdated
<1> QED BY <1>1, <1>2, <1>3, <1>4 DEF ConsecutiveInv

\* The row that is written counts the weeks in a row up to the week of the update. Had
\* another update counted a week meanwhile, it would now be about to disturb the row.
LEMMA ConsecutiveWrite ==
    ASSUME FreezeInv, PlansFit, ConsecutiveInv, NEW s \in Updates, Write(s), ~disturbed', ~lost'
    PROVE  ConsecutiveInv'
<1>0. s \in Slots /\ s \notin Saves
  BY SlotsAssumption DEF Slots
<1>1. PICK t : t = task[s]
  OBVIOUS
<1>2. PICK n : n = WeekOf(t.next)
  OBVIOUS
<1>3. /\ Follows(t) /\ user = t.seen /\ ~disturbed /\ ~lost /\ t.pc = "write"
      /\ user'.currentStreak = t.next.currentStreak
      /\ user'.lastStreakWeek = t.next.lastStreakWeek
      /\ matched' = matched
  BY <1>0, <1>1, WriteUndisturbed DEF Write, FreezeInv, TypeOK
<1>4. WeekOf(user') = n /\ WeekOf(user)' = n /\ user'.lastStreakWeek # Null
  BY <1>2, <1>3 DEF WeekOf, Follows
<1>5. task'[s].pc = "free" /\ \A r \in Updates : r # s => task'[r] = task[r]
  <2>1. task'[s] = Free /\ \A r \in Slots : r # s => task'[r] = task[r]
    BY <1>0, IdleStep
  <2> QED BY <2>1 DEF Free, Slots
<1>6. n \in matched
  BY <1>1, <1>2, <1>3 DEF ConsecutiveInv
<1>7. /\ matched \subseteq Nat /\ n \in Nat /\ user.currentStreak \in Nat
      /\ user.lastStreakWeek # Null => WeekOf(user) \in Nat
  BY <1>6, WeekOfSoundRow DEF FreezeInv, TypeOK, User
<1>8. user.lastStreakWeek # Null =>
         /\ WeekOf(user) < n
         /\ n - WeekOf(user) = 1 => user'.currentStreak = user.currentStreak + 1
  <2>1. user.lastStreakWeek # Null =>
           /\ n - WeekOf(user) >= 1
           /\ n - WeekOf(user) = 1 => user'.currentStreak = user.currentStreak + 1
    BY <1>2, <1>3 DEF Follows
  <2> QED BY <1>7, <2>1
<1>9. user'.currentStreak \in Nat \ {0}
  BY <1>3, <1>7 DEF Follows
<1>10. ASSUME NEW w \in matched
       PROVE  InFlight(w)' \/ w <= n
  <2>1. CASE InFlight(w)
    <3>1. PICK r \in Updates : task[r].pc = "write" /\ w = WeekOf(task[r].next)
      BY <2>1 DEF InFlight
    <3>2. CASE r = s
      BY <1>1, <1>2, <1>7, <3>1, <3>2
    <3>3. CASE r # s
      <4>1. task'[r].pc = "write" /\ w = WeekOf(task[r].next)'
        BY <1>5, <3>1, <3>3 DEF WeekOf
      <4> QED BY <4>1 DEF InFlight
    <3> QED BY <3>2, <3>3
  <2>2. CASE user.lastStreakWeek # Null /\ w <= WeekOf(user)
    BY <1>7, <1>8, <2>2
  <2> QED BY <1>3, <2>1, <2>2 DEF ConsecutiveInv
<1>11. ASSUME NEW r \in Updates, r # s, task[r].pc # "free",
              task[r].seen.lastStreakWeek # Null
       PROVE  user.lastStreakWeek # Null /\ WeekOf(task[r].seen) \in matched
              /\ WeekOf(task[r].seen) < n
  <2>1. user.lastStreakWeek # Null /\ WeekOf(task[r].seen) \in matched
        /\ WeekOf(task[r].seen) <= WeekOf(user)
    BY <1>3, <1>11 DEF ConsecutiveInv
  <2>2. WeekOf(user) \in Nat /\ WeekOf(user) < n
    BY <1>7, <1>8, <2>1
  <2>3. WeekOf(task[r].seen) \in Nat
    BY <1>7, <2>1
  <2> QED BY <1>7, <2>1, <2>2, <2>3
<1>12. ASSUME NoneOutdated', NEW r \in Updates, task[r].pc = "write"
       PROVE  r = s
  <2> SUFFICES ASSUME r # s PROVE FALSE
    OBVIOUS
  <2>1. task[r].seen.lastStreakWeek = user'.lastStreakWeek
    BY <1>5, <1>12 DEF NoneOutdated
  <2>2. WeekOf(task[r].seen) = n
    BY <1>4, <2>1 DEF WeekOf
  <2> QED BY <1>4, <1>7, <1>11, <1>12, <2>1, <2>2
<1>13. ASSUME NoneOutdated', NEW k \in Nat \ {0}, (n - k + 1)..n \subseteq matched
       PROVE  user'.currentStreak >= k
  <2>1. CASE k = 1
    BY <1>9, <2>1
  <2>2. CASE k > 1
    <3>1. n - 1 \in matched
      <4>1. n - 1 \in (n - k + 1)..n
        BY <1>7, <2>2
      <4> QED BY <1>13, <4>1
    <3>2. user.lastStreakWeek # Null /\ WeekOf(user) = n - 1
      <4>1. ~InFlight(n - 1)
        <5>1. n - 1 # n
          BY <1>7
        <5> QED BY <1>1, <1>2, <1>12, <1>13, <5>1 DEF InFlight
      <4>2. user.lastStreakWeek # Null /\ n - 1 <= WeekOf(user)
        BY <1>3, <3>1, <4>1 DEF ConsecutiveInv
      <4>3. WeekOf(user) \in Nat /\ WeekOf(user) < n
        BY <1>7, <1>8, <4>2
      <4> QED BY <1>7, <4>2, <4>3
    <3>3. user'.currentStreak = user.currentStreak + 1
      BY <1>7, <1>8, <3>2
    <3>4. (WeekOf(user) - (k - 1) + 1)..WeekOf(user) \subseteq matched
      <4>1. WeekOf(user) - (k - 1) + 1 = n - k + 1
        BY <1>7, <3>2
      <4>2. (n - k + 1)..(n - 1) \subseteq (n - k + 1)..n
        BY <1>7
      <4> QED BY <1>13, <3>2, <4>1, <4>2
    <3>5. NoneOutdated
      BY <1>1, <1>3, <1>12, <1>13 DEF NoneOutdated
    <3>6. user.currentStreak >= k - 1
      <4>1. k - 1 \in Nat \ {0}
        BY <2>2
      <4> QED BY <1>3, <3>2, <3>4, <3>5, <4>1 DEF ConsecutiveInv
    <3> QED BY <1>7, <3>3, <3>6
  <2> QED BY <2>1, <2>2
<1>14. ASSUME NEW r \in Updates
       PROVE  /\ task'[r].pc # "free" /\ task'[r].seen.lastStreakWeek # Null =>
                    /\ user'.lastStreakWeek # Null
                    /\ WeekOf(task[r].seen)' <= WeekOf(user)'
                    /\ WeekOf(task[r].seen)' \in matched'
              /\ task'[r].pc = "write" => WeekOf(task[r].next)' \in matched'
  <2>1. CASE r = s
    BY <1>5, <2>1
  <2>2. CASE r # s
    <3>1. /\ WeekOf(task[r].seen)' = WeekOf(task[r].seen)
          /\ WeekOf(task[r].next)' = WeekOf(task[r].next)
      BY <1>5, <2>2 DEF WeekOf
    <3>2. task'[r].pc = "write" => WeekOf(task[r].next) \in matched
      BY <1>3, <1>5, <2>2 DEF ConsecutiveInv
    <3>3. \A m \in matched : m < n => m <= n
      BY <1>7
    <3> QED BY <1>3, <1>4, <1>5, <1>11, <2>2, <3>1, <3>2, <3>3
  <2> QED BY <2>1, <2>2
<1> QED BY <1>3, <1>4, <1>6, <1>10, <1>13, <1>14 DEF ConsecutiveInv

\* The week of the update is later than the one it read: unless it is about to disturb
\* the row, the row's weeks stay the same.
LEMMA ConsecutiveCount ==
    ASSUME FreezeInv, PlansFit, ConsecutiveInv, NEW s \in Updates, Count(s), ~disturbed, ~lost
    PROVE  ConsecutiveInv'
<1>0. s \in Slots
  BY DEF Slots
<1>1. PICK t : t = task'[s]
  OBVIOUS
<1>2. PICK n : n = WeekOf(t.next)
  OBVIOUS
<1>3. /\ t.pc = "write" /\ t.seen = task[s].seen /\ Follows(t) /\ n = WeekIndex(today)
      /\ task[s].pc = "read" /\ user' = user /\ matched' = matched \cup {n}
      /\ \A r \in Updates : r # s => task'[r] = task[r]
  <2>1. \A r \in Slots : r # s => task'[r] = task[r]
    BY <1>0 DEF Count, FreezeInv, TypeOK
  <2> QED BY <1>0, <1>1, <1>2, <2>1, CountFollows DEF Count, Slots
<1>4. WeekOf(user)' = WeekOf(user)
  BY <1>3 DEF WeekOf
<1>5. n \in Nat /\ (user.lastStreakWeek # Null => WeekOf(user) \in Nat)
  BY <1>3, WeekIsNat, WeekOfSoundRow DEF FreezeInv, TypeOK
<1>6. ASSUME NoneOutdated', user.lastStreakWeek # Null
      PROVE  NoneOutdated /\ WeekOf(user) < n
  <2>1. NoneOutdated
    BY <1>3, <1>6 DEF NoneOutdated
  <2>2. t.seen.lastStreakWeek = user.lastStreakWeek
    BY <1>1, <1>3, <1>6 DEF NoneOutdated
  <2>3. WeekOf(t.seen) = WeekOf(user) /\ n - WeekOf(t.seen) >= 1
    BY <1>2, <1>3, <1>6, <2>2 DEF WeekOf, Follows
  <2> QED BY <1>5, <1>6, <2>1, <2>3
<1>7. InFlight(n)'
  BY <1>1, <1>2, <1>3 DEF InFlight, WeekOf
<1>8. ASSUME NEW w, InFlight(w) PROVE InFlight(w)'
  <2>1. PICK r \in Updates : task[r].pc = "write" /\ w = WeekOf(task[r].next)
    BY <1>8 DEF InFlight
  <2>2. task'[r] = task[r]
    BY <1>3, <2>1
  <2> QED BY <2>1, <2>2 DEF InFlight, WeekOf
<1>9. ASSUME NEW r \in Updates
      PROVE  /\ task'[r].pc # "free" /\ task'[r].seen.lastStreakWeek # Null =>
                   /\ user'.lastStreakWeek # Null
                   /\ WeekOf(task[r].seen)' <= WeekOf(user)'
                   /\ WeekOf(task[r].seen)' \in matched'
             /\ task'[r].pc = "write" => WeekOf(task[r].next)' \in matched'
  <2>1. task'[r].seen = task[r].seen /\ (task'[r].pc # "free" => task[r].pc # "free")
    BY <1>1, <1>3
  <2>2. WeekOf(task[r].seen)' = WeekOf(task[r].seen)
    BY <2>1 DEF WeekOf
  <2>3. task'[r].pc = "write" => WeekOf(task[r].next)' \in matched'
    <3>1. CASE r = s
      BY <1>1, <1>2, <1>3, <3>1 DEF WeekOf
    <3>2. CASE r # s
      <4>1. task'[r] = task[r] /\ WeekOf(task[r].next)' = WeekOf(task[r].next)
        BY <1>3, <3>2 DEF WeekOf
      <4> QED BY <1>3, <4>1 DEF ConsecutiveInv
    <3> QED BY <3>1, <3>2
  <2> QED BY <1>3, <1>4, <2>1, <2>2, <2>3 DEF ConsecutiveInv
<1>10. ASSUME user.lastStreakWeek # Null, NoneOutdated'
       PROVE  \A k \in Nat \ {0} : (WeekOf(user) - k + 1)..WeekOf(user) \subseteq matched'
                                   => user.currentStreak >= k
  <2>1. n \notin {i \in Int : i <= WeekOf(user)}
    BY <1>5, <1>6, <1>10
  <2>2. \A k \in Nat : (WeekOf(user) - k + 1)..WeekOf(user) \subseteq {i \in Int : i <= WeekOf(user)}
    BY <1>5, <1>10
  <2>3. \A k \in Nat : (WeekOf(user) - k + 1)..WeekOf(user) \subseteq matched'
                       => (WeekOf(user) - k + 1)..WeekOf(user) \subseteq matched
    BY <1>3, <2>1, <2>2
  <2> QED BY <1>6, <1>10, <2>3 DEF ConsecutiveInv
<1>11. \A w \in matched' : \/ InFlight(w)'
                           \/ user'.lastStreakWeek # Null /\ w <= WeekOf(user)'
  BY <1>3, <1>4, <1>7, <1>8 DEF ConsecutiveInv
<1>12. user.lastStreakWeek # Null => WeekOf(user) \in matched'
  BY <1>3 DEF ConsecutiveInv
<1> QED BY <1>3, <1>4, <1>9, <1>10, <1>11, <1>12 DEF ConsecutiveInv

\* A week that an update has read has been matched already: nothing is new.
LEMMA ConsecutiveAlreadyCounted ==
    ASSUME FreezeInv, ConsecutiveInv, NEW s \in Updates, AlreadyCounted(s), ~disturbed, ~lost
    PROVE  ConsecutiveInv'
<1>1. /\ task[s].pc = "read" /\ task[s].seen.lastStreakWeek = GetIsoWeek(today)
      /\ user' = user /\ matched' = matched \cup {WeekIndex(today)}
  BY DEF AlreadyCounted
<1>2. WeekOf(task[s].seen) = WeekIndex(today) /\ task[s].seen.lastStreakWeek # Null
  BY <1>1, WeekOfDay DEF FreezeInv, TypeOK
<1>3. matched' = matched
  BY <1>1, <1>2 DEF ConsecutiveInv
<1>4. task'[s].pc = "free" /\ \A r \in Updates : r # s => task'[r] = task[r]
  <2>1. task'[s] = Free /\ \A r \in Slots : r # s => task'[r] = task[r]
    BY IdleStep DEF Slots
  <2> QED BY <2>1 DEF Free, Slots
<1>5. \A w : InFlight(w) => InFlight(w)'
  BY <1>1, <1>4 DEF InFlight, WeekOf
<1>6. WeekOf(user)' = WeekOf(user)
      /\ \A r \in Updates : task'[r].pc # "free" =>
            /\ task'[r] = task[r]
            /\ WeekOf(task[r].next)' = WeekOf(task[r].next)
            /\ WeekOf(task[r].seen)' = WeekOf(task[r].seen)
  BY <1>1, <1>4 DEF WeekOf
<1>7. NoneOutdated' => NoneOutdated
  BY <1>1, <1>4 DEF NoneOutdated
<1> QED BY <1>1, <1>3, <1>4, <1>5, <1>6, <1>7 DEF ConsecutiveInv

LEMMA ConsecutiveRead ==
    ASSUME FreezeInv, ConsecutiveInv, NEW s \in Slots, Read(s), ~disturbed, ~lost
    PROVE  ConsecutiveInv'
<1>1. user' = user /\ matched' = matched /\ task[s].pc = "free"
  BY DEF Read
<1>2. task'[s].pc = "read" /\ task'[s].seen = user
      /\ \A r \in Slots : r # s => task'[r] = task[r]
  <2> DEFINE t == [Free EXCEPT !.pc = "read", !.seen = user]
  <2>1. t.pc = "read" /\ t.seen = user
    BY DEF Free
  <2>2. task' = [task EXCEPT ![s] = t] /\ task \in [Slots -> Task]
    BY DEF Read, FreezeInv, TypeOK
  <2> HIDE DEF t
  <2> QED BY <2>1, <2>2
<1>3. \A w : InFlight(w) => InFlight(w)'
  BY <1>1, <1>2 DEF InFlight, WeekOf, Slots
<1>4. WeekOf(user)' = WeekOf(user)
      /\ \A r \in Updates : r # s => /\ task'[r] = task[r]
                                     /\ WeekOf(task[r].next)' = WeekOf(task[r].next)
                                     /\ WeekOf(task[r].seen)' = WeekOf(task[r].seen)
  BY <1>1, <1>2 DEF WeekOf, Slots
<1>5. WeekOf(task[s].seen)' = WeekOf(user)
  BY <1>2 DEF WeekOf
<1>6. NoneOutdated' => NoneOutdated
  BY <1>1, <1>2 DEF NoneOutdated, Slots
<1>7. user.lastStreakWeek # Null => WeekOf(user) <= WeekOf(user)
  BY WeekOfSoundRow DEF FreezeInv, TypeOK
<1> QED BY <1>1, <1>2, <1>3, <1>4, <1>5, <1>6, <1>7 DEF ConsecutiveInv

\* An update that has only read ends, or a profile save does: no week in flight is lost.
LEMMA ConsecutiveDatabaseError ==
    ASSUME FreezeInv, ConsecutiveInv, NEW s \in Slots, DatabaseError(s),
           ~disturbed, ~lost, ~lost'
    PROVE  ConsecutiveInv'
<1>1. user' = user /\ matched' = matched /\ (s \in Updates => task[s].pc # "write")
  BY DEF DatabaseError
<1>2. task'[s].pc = "free" /\ \A r \in Slots : r # s => task'[r] = task[r]
  BY IdleStep DEF Free
<1>3. \A w : InFlight(w) => InFlight(w)'
  BY <1>1, <1>2 DEF InFlight, WeekOf, Slots
<1>4. WeekOf(user)' = WeekOf(user)
      /\ \A r \in Updates : r # s => /\ task'[r] = task[r]
                                     /\ WeekOf(task[r].next)' = WeekOf(task[r].next)
                                     /\ WeekOf(task[r].seen)' = WeekOf(task[r].seen)
  BY <1>1, <1>2 DEF WeekOf, Slots
<1>5. NoneOutdated' => NoneOutdated
  BY <1>1, <1>2 DEF NoneOutdated, Slots
<1> QED BY <1>1, <1>2, <1>3, <1>4, <1>5 DEF ConsecutiveInv

LEMMA ConsecutiveStep ==
    ASSUME FreezeInv, PlansFit, ConsecutiveInv, [Next]_vars
    PROVE  ConsecutiveInv'
<1>1. CASE disturbed' \/ lost'
  BY <1>1 DEF ConsecutiveInv
<1>2. CASE ~disturbed' /\ ~lost'
  <2>0. ~disturbed /\ ~lost
    BY <1>2 DEF Next, UpdateStreak, SaveUser, Load, Save, Read, Count, AlreadyCounted, Write,
               Compare, DatabaseError, NextDay, vars, FreezeInv, TypeOK
  <2>1. ASSUME NEW s \in Updates, UpdateStreak(s) PROVE ConsecutiveInv'
    <3>1. s \in Slots
      BY DEF Slots
    <3> QED BY <1>2, <2>0, <2>1, <3>1, ConsecutiveRead, ConsecutiveCount,
               ConsecutiveAlreadyCounted, ConsecutiveWrite DEF UpdateStreak
  <2>2. ASSUME NEW s \in Saves, SaveUser(s) PROVE ConsecutiveInv'
    <3>1. s \in Slots /\ \A r \in Updates : r # s /\ r \in Slots
      BY SlotsAssumption DEF Slots
    <3>2. CASE Load(s)
      BY <2>0, <3>1, <3>2, ConsecutiveRead DEF Load
    <3>3. CASE Compare(s)
      <4>1. \A r \in Updates : task'[r] = task[r]
        BY <3>1, <3>3, CompareFits
      <4> QED BY <2>0, <3>3, <4>1, ConsecutiveFrame DEF Compare
    <3>4. CASE Save(s)
      <4>1. \A r \in Updates : task'[r] = task[r]
        BY <3>1, <3>4, IdleStep DEF Save
      <4>2. /\ user'.currentStreak = user.currentStreak
            /\ user'.lastStreakWeek = user.lastStreakWeek
        BY <1>2, <3>1, <3>4, WriteUndisturbed DEF Save
      <4>3. matched' = matched
        BY <3>4 DEF Save, Write
      <4> QED BY <2>0, <4>1, <4>2, <4>3, ConsecutiveFrame
    <3> QED BY <2>2, <3>2, <3>3, <3>4 DEF SaveUser
  <2>3. CASE NextDay \/ UNCHANGED vars
    BY <2>0, <2>3, ConsecutiveFrame DEF NextDay, vars
  <2>4. ASSUME NEW s \in Slots, DatabaseError(s) PROVE ConsecutiveInv'
    BY <1>2, <2>0, <2>4, ConsecutiveDatabaseError
  <2> QED BY <2>1, <2>2, <2>3, <2>4 DEF Next
<1> QED BY <1>1, <1>2

\* With any number of overlapping updates and profile saves, until one overwrites a newer
\* row or is about to, and until an update is rejected: a match in each of the last k weeks makes a streak of at least k,
\* across any turn of month and year (updateStreak).
THEOREM ConsecutiveWeeksCountHolds == Spec => []ConsecutiveWeeksCount
<1>1. Init => PlansFit /\ ConsecutiveInv
  BY PlansFitInit, ConsecutiveInit
<1>2. FreezeInv /\ PlansFit /\ ConsecutiveInv /\ [Next]_vars => PlansFit' /\ ConsecutiveInv'
  BY PlansFitStep, ConsecutiveStep
<1>3. Init => IsFiniteSet(matched)
  BY FS_EmptySet DEF Init
<1>4. IsFiniteSet(matched) /\ [Next]_vars => IsFiniteSet(matched)'
  BY FS_AddElement DEF Next, UpdateStreak, SaveUser, Load, Save, Read, Count, AlreadyCounted,
     Write, Compare, DatabaseError, NextDay, vars
<1>5. IsFiniteSet(matched) /\ ConsecutiveInv => ConsecutiveWeeksCount
  <2> SUFFICES ASSUME IsFiniteSet(matched), ConsecutiveInv, ~disturbed, ~lost,
                      NoneOutdated,
                      user.lastStreakWeek # Null,
                      NEW k \in 1..Cardinality(matched),
                      (WeekOf(user) - k + 1)..WeekOf(user) \subseteq matched
               PROVE  user.currentStreak >= k
    BY DEF ConsecutiveWeeksCount, WeekOf
  <2>1. k \in Nat \ {0}
    BY FS_CardinalityType
  <2> QED BY <2>1 DEF ConsecutiveInv
<1> QED BY <1>1, <1>2, <1>3, <1>4, <1>5, FreezeInvHolds, PTL DEF Spec
================================================================================
