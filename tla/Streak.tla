--------------------------------- MODULE Streak ---------------------------------
(* The weekly streak of one user: src/src/streak/streak.service.ts, called by  *)
(* createMatch for both users of every match.                                  *)
(*                                                                            *)
(* updateStreak reads the user, computes, and writes; nothing locks the row, so *)
(* updates of two matches made at the same time interleave, also with requests *)
(* that load the whole user and save it back (updateProfile, changeSubscription *)
(* and the others of users.service.ts and auth.service.ts). Users do not share *)
(* streak columns, so one user is enough.                                      *)
EXTENDS IsoWeek, FiniteSets

CONSTANTS
    Null,
    Days,         \* the dates on which something may happen; bounds the clock
    Updates,      \* slots for calls of updateStreak in flight
    Saves         \* slots for profile requests in flight

ASSUME DaysAssumption ==
    /\ Days \subseteq Nat \ {0}
    /\ \A day \in Days : \A d \in {day - 1, day, Thursday(day)} :
          \E y \in FirstYear..LastYear : IsYear(y, d)
ASSUME SlotsAssumption == Updates \cap Saves = {}

MAX_FREEZES == 2

Columns == {"currentStreak", "longestStreak", "lastStreakWeek", "consecutiveFreezes",
            "lastMatchDate", "lastFreezeReset"}

VARIABLES
    today,    \* the server's local date
    user,     \* the streak columns of the user's row
    task,     \* the calls suspended at an await
    matched,  \* history: the weeks in which a match of the user was counted
    disturbed, \* history: a call has written over a row newer than the one it read
    lost      \* history: the database rejected an update that had counted a match

vars == <<today, user, task, matched, disturbed, lost>>

Slots == Updates \cup Saves

Week == [year : FirstYear..LastYear, week : Int]
Month == (FirstYear..LastYear) \X (1..12)

ASSUME NullAssumption == Null \notin Week

User == [currentStreak : Nat, longestStreak : Nat, lastStreakWeek : Week \cup {Null},
         consecutiveFreezes : Nat, lastMatchDate : Int \cup {Null},
         lastFreezeReset : Month \cup {Null}]

NewUser == [currentStreak |-> 0, longestStreak |-> 0, lastStreakWeek |-> Null,
            consecutiveFreezes |-> 0, lastMatchDate |-> Null, lastFreezeReset |-> Null]

\* A suspended call: what it read, what it is about to write, and which columns.
Task == [pc : {"free", "read", "write"}, seen : User, next : User, dirty : SUBSET Columns]

Free == [pc |-> "free", seen |-> NewUser, next |-> NewUser, dirty |-> {}]

TypeOK ==
    /\ today \in Days
    /\ user \in User
    /\ task \in [Slots -> Task]
    /\ matched \subseteq Nat
    /\ disturbed \in BOOLEAN /\ lost \in BOOLEAN

Init ==
    /\ today \in {day \in Days : \A other \in Days : day <= other}
    /\ user = NewUser
    /\ task = [s \in Slots |-> Free]
    /\ matched = {}
    /\ disturbed = FALSE /\ lost = FALSE

-------------------------------------------------------------------------------
(* What updateStreak computes from the columns it read *)

FreezesLeftOver(seen, month) ==
    IF seen.lastFreezeReset = month THEN seen.consecutiveFreezes ELSE 0

\* Seeded bug: the gap is compared with the freezes of the gap alone.
CoveredAlone(freezes, missedWeeks) == missedWeeks <= MAX_FREEZES

\* Seeded bug: one freeze too many.
CoveredByOneMore(freezes, missedWeeks) == freezes + missedWeeks <= MAX_FREEZES + 1

Covered(freezes, missedWeeks) == freezes + missedWeeks <= MAX_FREEZES

\* Seeded bug: a new month resets the streak and not the freezes.
ResetByMonth(seen, week, month) ==
    [streak |-> IF seen.lastFreezeReset = month THEN seen.currentStreak + 1 ELSE 1,
     freezes |-> seen.consecutiveFreezes]

\* The streak and the freezes after a match in a week other than the last one.
StreakAndFreezes(seen, week, month) ==
    IF seen.lastStreakWeek = Null
    THEN [streak |-> 1, freezes |-> 0]
    ELSE LET freezes == FreezesLeftOver(seen, month)
             weeksDiff == WeeksDifference(seen.lastStreakWeek, week)
             missedWeeks == weeksDiff - 1
         IN  IF weeksDiff = 1
             THEN [streak |-> seen.currentStreak + 1, freezes |-> 0]
             ELSE IF Covered(freezes, missedWeeks)
             THEN [streak |-> seen.currentStreak + 1, freezes |-> freezes + missedWeeks]
             ELSE [streak |-> 1, freezes |-> 0]

Larger(a, b) == IF a >= b THEN a ELSE b

LongestStreak(streak, longest) == Larger(streak, longest)

\* The date and month are UTC; east of Greenwich UTC may be a day behind.
Updated(seen, day, utcDay) ==
    LET new == StreakAndFreezes(seen, GetIsoWeek(day), GetMonth(utcDay))
    IN  [currentStreak |-> new.streak,
         longestStreak |-> LongestStreak(new.streak, seen.longestStreak),
         lastStreakWeek |-> GetIsoWeek(day),
         consecutiveFreezes |-> new.freezes,
         lastMatchDate |-> utcDay,
         lastFreezeReset |-> GetMonth(utcDay)]

\* The month is written only when it is a new one.
WrittenColumns(seen, utcDay) ==
    IF seen.lastFreezeReset = GetMonth(utcDay) THEN Columns \ {"lastFreezeReset"} ELSE Columns

-------------------------------------------------------------------------------
(* updateStreak, from one await to the next *)

Read(s) ==
    /\ task[s].pc = "free"
    /\ task' = [task EXCEPT ![s] = [Free EXCEPT !.pc = "read", !.seen = user]]
    /\ UNCHANGED <<today, user, matched, disturbed, lost>>

\* Seeded bug: a second match of the week is counted again.
CountAlways(s) ==
    /\ task[s].pc = "read"
    /\ \E utcDay \in {today - 1, today} :
          task' = [task EXCEPT ![s].pc = "write",
                               ![s].next = Updated(task[s].seen, today, utcDay),
                               ![s].dirty = WrittenColumns(task[s].seen, utcDay)]
    /\ matched' = matched \cup {WeekIndex(today)}
    /\ UNCHANGED <<today, user, disturbed, lost>>

\* The clock is read after the user is.
Count(s) ==
    /\ task[s].pc = "read"
    /\ task[s].seen.lastStreakWeek # GetIsoWeek(today)
    /\ \E utcDay \in {today - 1, today} :
          task' = [task EXCEPT ![s].pc = "write",
                               ![s].next = Updated(task[s].seen, today, utcDay),
                               ![s].dirty = WrittenColumns(task[s].seen, utcDay)]
    /\ matched' = matched \cup {WeekIndex(today)}
    /\ UNCHANGED <<today, user, disturbed, lost>>

AlreadyCounted(s) ==
    /\ task[s].pc = "read"
    /\ task[s].seen.lastStreakWeek = GetIsoWeek(today)
    /\ task' = [task EXCEPT ![s] = Free]
    /\ matched' = matched \cup {WeekIndex(today)}
    /\ UNCHANGED <<today, user, disturbed, lost>>

Write(s) ==
    /\ task[s].pc = "write"
    /\ user' = [c \in Columns |-> IF c \in task[s].dirty THEN task[s].next[c] ELSE user[c]]
    /\ task' = [task EXCEPT ![s] = Free]
    /\ disturbed' = (disturbed \/ (task[s].dirty # {} /\ user # task[s].seen))
    /\ UNCHANGED <<today, matched, lost>>

-------------------------------------------------------------------------------
(* Requests that load the user, change other columns, and save the entity: save *)
(* reads the row again and writes the columns in which the entity differs.     *)

Load(s) == Read(s)

Compare(s) ==
    /\ task[s].pc = "read"
    /\ task' = [task EXCEPT ![s].pc = "write", ![s].next = task[s].seen,
                            ![s].dirty = {c \in Columns : task[s].seen[c] # user[c]}]
    /\ UNCHANGED <<today, user, matched, disturbed, lost>>

Save(s) == Write(s)

-------------------------------------------------------------------------------

\* The database rejects a query or a write; what was computed is lost. The match stays
\* on record: createMatch has saved it before.
DatabaseError(s) ==
    /\ task[s].pc \in {"read", "write"}
    /\ task' = [task EXCEPT ![s] = Free]
    /\ lost' = (lost \/ (s \in Updates /\ task[s].pc = "write"))
    /\ UNCHANGED <<today, user, matched, disturbed>>

NextDay ==
    /\ today' \in {day \in Days : day > today}
    /\ \A day \in Days : day > today => today' <= day
    /\ UNCHANGED <<user, task, matched, disturbed, lost>>

UpdateStreak(s) == Read(s) \/ Count(s) \/ AlreadyCounted(s) \/ Write(s)

SaveUser(s) == Load(s) \/ Compare(s) \/ Save(s)

Next ==
    \/ \E s \in Updates : UpdateStreak(s)
    \/ \E s \in Saves : SaveUser(s)
    \/ \E s \in Slots : DatabaseError(s)
    \/ NextDay

Spec == Init /\ [][Next]_vars

-------------------------------------------------------------------------------
(* Properties *)

\* analytics.service.ts:143 shows MAX_FREEZES - consecutiveFreezes as the freezes
\* remaining: it is never negative, and never more than there are, whatever updates
\* and profile saves overwrite one another.
FreezeBudget == user.consecutiveFreezes \in 0..MAX_FREEZES

WeeksUpTo(week) == {w \in matched : w <= WeekIndex(ToDate(week))}

\* A streak is never longer than the weeks with a match: two matches of one week
\* count once, even if their updates overlap and both read the old row.
StreakCountsWeeks ==
    user.currentStreak <=
        IF user.lastStreakWeek = Null THEN 0 ELSE Cardinality(WeeksUpTo(user.lastStreakWeek))

\* No update is about to write over a row of a newer week than the one it read.
NoneOutdated ==
    \A s \in Updates : task[s].pc = "write" => task[s].seen.lastStreakWeek = user.lastStreakWeek

\* A match in each of the last k weeks makes a streak of at least k, across month and
\* year boundaries and whatever overlaps, as long as no call overwrites a newer row and
\* no update is rejected.
ConsecutiveWeeksCount ==
    ~disturbed /\ ~lost /\ NoneOutdated /\ user.lastStreakWeek # Null =>
        LET last == WeekIndex(ToDate(user.lastStreakWeek))
        IN  \A k \in 1..Cardinality(matched) :
                (last - k + 1)..last \subseteq matched => user.currentStreak >= k

\* A streak never survives a gap of more than MAX_FREEZES weeks without a match, and
\* the longest streak never falls, until a call overwrites a newer row.
LongGapEndsStreak ==
    [][\/ disturbed'
       \/ /\ user'.longestStreak >= user.longestStreak
          /\ user.lastStreakWeek # Null /\ user'.currentStreak > user.currentStreak
             => WeekIndex(ToDate(user'.lastStreakWeek))
                    - WeekIndex(ToDate(user.lastStreakWeek)) <= MAX_FREEZES + 1]_vars

-------------------------------------------------------------------------------
(* What FreezeBudget rests on: every row in sight has its freezes in bounds and a *)
(* week that is not ahead of the clock, so that no gap is negative.            *)

RowSound(row) ==
    /\ row.consecutiveFreezes <= MAX_FREEZES
    /\ row.lastStreakWeek # Null =>
          \E day \in Days : day <= today /\ row.lastStreakWeek = GetIsoWeek(day)

\* What analytics shows (FreezeBudget) holds of every row that a call is still holding,
\* too, and no row is of a week that has not begun: whatever old row a profile save or
\* an overlapping update puts back, the next gap is not negative, and the budget is
\* neither overdrawn nor refilled by it.
FreezeInv ==
    /\ TypeOK
    /\ RowSound(user)
    /\ \A s \in Slots : RowSound(task[s].seen) /\ RowSound(task[s].next)
================================================================================
