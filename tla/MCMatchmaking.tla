----------------------------- MODULE MCMatchmaking -----------------------------
(* Small instances of Matchmaking for TLC. *)
EXTENDS Matchmaking, TLC

CONSTANTS u1, u2, u3

Person(gender, interestedIn, age, minAge, maxAge) ==
    [gender |-> gender, interestedIn |-> interestedIn, language |-> "de", country |-> "ch",
     age |-> age, minPreferredAge |-> minAge, maxPreferredAge |-> maxAge,
     interests |-> {"music"}, emailVerified |-> TRUE, acceptedTerms |-> TRUE,
     acceptedPrivacyPolicy |-> TRUE, isBlockedFromMatching |-> FALSE]

\* Everybody suits everybody: the interleavings are what is explored.
Anybody == Person("f", "any", 30, Null, Null)
OpenRow == [u \in Users |-> Anybody]
OpenRows == {Anybody}

\* u2 and u3 suit each other and are too old for u1, until u1 becomes one of their kind,
\* and again when u1 changes back; u3 has blocked u1.
Picky == Person("m", "f", 30, Null, 35)
Older == Person("f", "both", 36, Null, Null)
PickyRow == [u \in Users |-> IF u = u1 THEN Picky ELSE Older]
PickyRows == {Picky, Older}

NoEdits == [u \in Users |-> 0]
ThereAndBack == [u \in Users |-> IF u = u1 THEN 2 ELSE 0]

NoBlocks == {}
OneBlock == {<<u3, u1>>}

\* Permuting users is sound for OpenRow only: there all users are alike.
QueueSymmetry == Permutations(Users) \cup Permutations(Reqs) \cup Permutations(Rooms)
RequestSymmetry == Permutations(Reqs) \cup Permutations(Rooms)

\* No ticket gets old: what that changes is explored in the runs without this bound.
YoungTickets == \A u \in Users : activeTickets[u] # Null => activeTickets[u].waited = "fresh"

\* The two requests are of two users. The second edit falls into the first call or
\* before it, and no ticket is made of the third row: it would be like one of the first.
EditBound ==
    /\ YoungTickets
    /\ \A r, s \in Reqs : r # s => req[r].user # req[s].user \/ req[r] = Free
    /\ \A u \in Users : LastRow(u) > 2 =>
           /\ Len(matchHistory) <= 1
           /\ activeTickets[u] # Null => activeTickets[u].row < 3
           /\ \A r \in Reqs : req[r].user = u => req[r].own < 3

\* One call is recorded, and it is not settled as matched: to a search a matched call is
\* what an open one is. Before that nothing is declined: it would be one more way to leave.
\* The two requests are of two users, and the rooms are used in one order.
WalkBound ==
    /\ YoungTickets
    /\ \A r, s \in Reqs : r # s => req[r].user # req[s].user \/ req[r] = Free
    /\ RoomsUsed \cap Rooms \in {{}, {CHOOSE m \in Rooms : TRUE}, Rooms}
    /\ Len(matchHistory) <= 1
    /\ \A i \in RowIds : matchHistory[i].outcome # "matched"
    /\ matchHistory = << >> => \A r \in Reqs : req[r].pc # "declining"
================================================================================
