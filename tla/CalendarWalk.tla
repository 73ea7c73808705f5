----------------------------- MODULE CalendarWalk ------------------------------
(* Walks through the calendar and compares every day with those that follow it. *)
EXTENDS IsoWeek

CONSTANTS
    LastDay,  \* the last day of the walk
    Ahead     \* how far a day is compared

\* The calendar has the year of every Thursday in sight.
ASSUME WalkAssumption ==
    /\ LastDay \in Nat /\ Ahead \in Nat
    /\ \A d \in 0..(LastDay + Ahead) : \E y \in FirstYear..LastYear : IsYear(y, Thursday(d))

VARIABLES
    reached,  \* a day
    ahead     \* how many days later the other one is

WalkInit == reached = 0 /\ ahead = 0

Walk ==
    \/ reached < LastDay /\ reached' = reached + 1 /\ UNCHANGED ahead
    \/ ahead < Ahead /\ ahead' = ahead + 1 /\ UNCHANGED reached

WalkSpec == WalkInit /\ [][Walk]_<<reached, ahead>>

\* A streak that counts weeks apart from one another counts them right: the
\* difference of two written weeks is exact, also across a clock change and across
\* years of 52 and 53 weeks.
WeeksAreCounted ==
    DifferenceIsExact(reached, reached + ahead) /\ DifferenceIsExact(reached + ahead, reached)

\* "lastWeek === currentWeek" tells a second match in a week from one in another.
WeeksAreNamed == SameWeekSameName(reached, reached + ahead)
================================================================================
