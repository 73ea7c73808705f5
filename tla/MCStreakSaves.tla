----------------------------- MODULE MCStreakSaves -----------------------------
(* Profile saves beside updates, and the calendar both rest on, for TLC. A     *)
(* behaviour does one or the other: they share no state.                       *)
EXTENDS MCStreak, CalendarWalk

VARIABLE part

MCInit == Init /\ WalkInit /\ part \in {"updates", "walk"}

MCNext ==
    \/ part = "updates" /\ Next /\ UNCHANGED <<reached, ahead, part>>
    \/ part = "walk" /\ Walk /\ UNCHANGED <<vars, part>>

MCSpec == MCInit /\ [][MCNext]_<<vars, reached, ahead, part>>
================================================================================
