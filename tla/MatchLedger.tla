------------------------------ MODULE MatchLedger ------------------------------
(* What matchmaking promises, without its queue: a ledger of calls between     *)
(* pairs who may meet, each under a room id of its own, and the notices given  *)
(* about them. A call is recorded before anybody is told of it; afterwards     *)
(* only its outcome changes, and 'matched' is the last word.                   *)
CONSTANTS Users, Rooms, Pairs

VARIABLES calls, told

vars == <<calls, told>>

Outcome == {"default", "matched", "declined"}
Call == [userA : Users, userB : Users, roomId : Rooms, outcome : Outcome]

Init == calls = {} /\ told = {}

Record ==
    /\ \E pair \in Pairs, room \in Rooms \ {c.roomId : c \in calls} :
          calls' = calls \cup {[userA |-> pair[1], userB |-> pair[2],
                                roomId |-> room, outcome |-> "default"]}
    /\ UNCHANGED told

\* The like-back settles a call whatever its outcome, a decline only an open one.
Settle ==
    /\ \E c \in calls, outcome \in {"matched", "declined"} :
          /\ outcome = "declined" => c.outcome = "default"
          /\ calls' = (calls \ {c}) \cup {[c EXCEPT !.outcome = outcome]}
    /\ UNCHANGED told

Notices(c) ==
    {[to |-> c.userA, peer |-> c.userB, room |-> c.roomId],
     [to |-> c.userB, peer |-> c.userA, room |-> c.roomId]}

Tell ==
    /\ \E c \in calls : \E notices \in SUBSET Notices(c) : told' = told \cup notices
    /\ UNCHANGED calls

Next == Record \/ Settle \/ Tell

Spec == Init /\ [][Next]_vars
================================================================================
