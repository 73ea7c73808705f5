-------------------------------- MODULE MCStreak --------------------------------
(* Instances of Streak for TLC. *)
EXTENDS Streak, TLC

\* Summer time from the end of March to the end of October.
MCSummerDays == 87..300

\* Wednesdays and Sundays of the turn of the year 2020/21: a year of 53 weeks, two
\* turns of the month and one of the year. Day 1065 is Tuesday 1 December 2020. The first
\* two share a week; from Thursday 31 December, day 1095, four weeks are in a row across
\* the turn of month and year; the gaps are and are not covered.
OverlapDays == {1066, 1070, 1084, 1095, 1105, 1112, 1119}

\* Two days of the week in which the year turns, instead.
BoundaryDays == (OverlapDays \cup {1098}) \ {1070, 1119}

SlotSymmetry == Permutations(Updates)
================================================================================
