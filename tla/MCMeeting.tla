------------------------------- MODULE MCMeeting -------------------------------
(* Instances of Meeting for TLC. *)
EXTENDS Meeting, TLC

CONSTANTS u1, u2, m1, m2

\* Everybody suits everybody: the interleavings are what is explored.
Anybody ==
    [gender |-> "f", interestedIn |-> "any", language |-> "de", country |-> "ch",
     age |-> 30, minPreferredAge |-> Null, maxPreferredAge |-> Null,
     interests |-> {"music"}, emailVerified |-> TRUE, acceptedTerms |-> TRUE,
     acceptedPrivacyPolicy |-> TRUE, isBlockedFromMatching |-> FALSE]
OpenRow == [u \in Users |-> Anybody]
OpenRows == {Anybody}
NoEdits == [u \in Users |-> 0]

NoBlocks == {}

\* Two calls of the same two users.
TwoCalls == (m1 :> {u1, u2}) @@ (m2 :> {u1, u2})

\* Users, rooms and connections are alike in this instance, and so are their names.
MeetingSymmetry == Permutations(Users) \cup Permutations(Rooms) \cup Permutations(Sockets)

\* Two calls, or one call and one thing out of the ordinary: a failure of either part,
\* a restart, or a chat opened by hand. No ticket gets old: that is for the search.
WorkBound ==
    /\ Len(matchHistory) + failures + likeFailures + restarts + opened <= 2
    /\ \A u \in Users : activeTickets[u] # Null => activeTickets[u].waited = "fresh"
================================================================================
