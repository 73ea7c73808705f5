------------------------------ MODULE Matchmaking ------------------------------
(* The matchmaking queue of src/src/matchmaking/matchmaking.service.ts.        *)
(*                                                                            *)
(* The service keeps two in-memory maps (stateStore, activeTickets) and writes *)
(* one MatchHistory row per match. Node runs the statements between two awaits *)
(* without interruption, so one action here is the code from one await to the  *)
(* next; every request that is suspended at an await is a record of req, and   *)
(* requests of the same or of different users interleave there.                *)
EXTENDS MatchRules, Sequences

CONSTANTS
    Users,        \* the registered users
    Reqs,         \* request slots: how many requests may be in flight at once
    Rooms,        \* the room ids randomUUID may return; bounds the matches of a run
    Profiles,     \* what a row of User may be: the columns the match rules read
    FirstRow,     \* FirstRow[u]: the row of u when the process starts
    MaxEdits,     \* MaxEdits[u]: how often u's row changes, by PATCH or PUT of /users/me
    Blocks,       \* rows of UserBlock, as pairs <<blocker, blocked>>
    MaxFailures,  \* how many database calls may reject
    MaxRestarts   \* how many times the process may restart

ASSUME NullAssumption == Null \notin Users /\ Null \notin Rooms
ASSUME RowsAssumption == FirstRow \in [Users -> Profiles] /\ MaxEdits \in [Users -> Nat]
ASSUME BoundsAssumption == MaxFailures \in Nat /\ MaxRestarts \in Nat

VARIABLES
    stateStore,     \* the Map of states; a missing key reads as IDLE
    activeTickets,  \* the Map of tickets: Null, or its age and the row it was made of
    userRows,       \* userRows[u]: what the row of u has been; a query reads the last
    matchHistory,   \* the MatchHistory table in the order of createdAt
    sent,           \* what clients were told: match_found, room_ready, 'matched'
    req,            \* the requests suspended at an await
    failures, restarts

vars == <<stateStore, activeTickets, userRows, matchHistory, sent, req, failures, restarts>>

MatchmakingState == {"IDLE", "WAITING", "RESERVED", "CONNECTING", "IN_ROOM"}
Outcome == {"default", "matched", "declined"}
Row == [userA : Users, userB : Users, roomId : Rooms, outcome : Outcome]
Notice == [to : Users, peer : Users, room : Rooms]

\* A ticket copies gender, interestedIn, age and interests of a row: it is kept as
\* the number of that row, however the row changes while the ticket is in use.
Ticket == [waited : {"fresh", "aged"}, row : Nat]

\* One candidate of a search, the row its ticket was made of, and whether the pass
\* accepts a candidate the user has been in a call with before.
Attempt == [cand : Users, row : Nat, allowPrevious : BOOLEAN]

Request ==
    [pc : {"free", "loaded", "lookup", "found", "checking", "creating", "saved", "declining"},
     user : Users \cup {Null},              \* whose request it is
     own : Nat,                             \* the row of the user it works with
     with : Users \cup {Null},              \* the candidate held CONNECTING
     row : Nat,                             \* the row behind the candidate's ticket
     allowPrevious : BOOLEAN,
     todo : SUBSET Attempt,                 \* the candidates after this one
     ages : {"unread", "yes", "no"},        \* answer of isAgeCompatible
     declined : {"unread", "yes", "no"},    \* answer of hasDeclinedMatch
     previous : {"unread", "yes", "no"},    \* answer of hasPreviousCall
     room : Rooms \cup {Null}]

Free == [pc |-> "free", user |-> Null, own |-> 0, with |-> Null, row |-> 0,
         allowPrevious |-> FALSE, todo |-> {}, ages |-> "unread",
         declined |-> "unread", previous |-> "unread", room |-> Null]

TypeOK ==
    /\ stateStore \in [Users -> MatchmakingState]
    /\ activeTickets \in [Users -> Ticket \cup {Null}]
    /\ userRows \in [Users -> Seq(Profiles)]
    /\ matchHistory \in Seq(Row)
    /\ sent \in SUBSET Notice
    /\ req \in [Reqs -> Request]
    /\ failures \in 0..MaxFailures
    /\ restarts \in 0..MaxRestarts

Init ==
    /\ stateStore = [u \in Users |-> "IDLE"]
    /\ activeTickets = [u \in Users |-> Null]
    /\ userRows = [u \in Users |-> <<FirstRow[u]>>]
    /\ matchHistory = << >>
    /\ sent = {}
    /\ req = [r \in Reqs |-> Free]
    /\ failures = 0
    /\ restarts = 0

-------------------------------------------------------------------------------
(* Queries on MatchHistory *)

RowIds == 1..Len(matchHistory)
RoomsUsed == {matchHistory[i].roomId : i \in RowIds} \cup {req[r].room : r \in Reqs}

IsMember(u, row) == u \in {row.userA, row.userB}
\* Seeded bug: the second user of the row is taken for the peer, whoever asks.
PeerAlwaysB(u, row) == row.userB

PeerOf(u, row) == IF row.userA = u THEN row.userB ELSE row.userA
IsBetween(u, v, row) == {u, v} = {row.userA, row.userB}

HasDeclinedMatch(u, v) ==
    \E i \in RowIds : /\ IsBetween(u, v, matchHistory[i])
                      /\ matchHistory[i].outcome = "declined"

HasPreviousCall(u, v) ==
    \E i \in RowIds : /\ IsBetween(u, v, matchHistory[i])
                      /\ matchHistory[i].outcome \in {"default", "matched"}

IsBlocked(u, v) == <<u, v>> \in Blocks \/ <<v, u>> \in Blocks

\* The rows activateCall looks for when the user is in a call already.
LiveRows(u) == {i \in RowIds : /\ IsMember(u, matchHistory[i])
                               /\ matchHistory[i].outcome \in {"default", "matched"}}
IsLatest(i, S) == i \in S /\ \A j \in S : j <= i

\* What a query reads of u now.
LastRow(u) == Len(userRows[u])
CurrentRow(u) == userRows[u][LastRow(u)]

HasSharedInterest(p, q) == p.interests \cap q.interests # {}

YesNo(b) == IF b THEN "yes" ELSE "no"

\* A search may begin only if a room id is left for it whatever the others do.
RoomBudget ==
    Len(matchHistory) + Cardinality({r \in Reqs : req[r].pc # "free"})
        < Cardinality(Rooms)

-------------------------------------------------------------------------------
(* activateCall *)

\* The first query of activateCall; a user who is not eligible gets an error.
LoadUser(r, u) ==
    /\ req[r].pc = "free"
    /\ RoomBudget
    /\ CanEnterQueue(CurrentRow(u))
    /\ req' = [req EXCEPT ![r] = [Free EXCEPT !.pc = "loaded", !.user = u, !.own = LastRow(u)]]
    /\ UNCHANGED <<stateStore, activeTickets, userRows, matchHistory, sent, failures, restarts>>

\* The user has a search already, or is RESERVED: the request only answers.
AnswerBusy(r) ==
    /\ req[r].pc = "loaded"
    /\ stateStore[req[r].user] \in {"WAITING", "RESERVED"}
    /\ req' = [req EXCEPT ![r] = Free]
    /\ UNCHANGED <<stateStore, activeTickets, userRows, matchHistory, sent, failures, restarts>>

\* The snapshot of findMatchForUser: tickets of others whose gender columns fit the
\* new ticket of u, made of u's row `own`. It is never taken again during the search.
Candidates(u, own) ==
    {c \in Users \ {u} : /\ activeTickets[c] # Null
                         /\ stateStore[c] = "WAITING"
                         /\ IsGenderCompatible(userRows[u][own],
                                               userRows[c][activeTickets[c].row])}

\* The two passes over the candidates, the first one with fresh candidates only.
Attempts(u, own, allowPreviousCalls) ==
    LET pass(allow) == {[cand |-> c, row |-> activeTickets[c].row, allowPrevious |-> allow] :
                            c \in Candidates(u, own)}
    IN  pass(FALSE) \cup (IF allowPreviousCalls THEN pass(TRUE) ELSE {})

\* Any order within a pass stands for the insertion order of the ticket map.
NextAttempts(todo) ==
    {a \in todo : a.allowPrevious => \A b \in todo : b.allowPrevious}

Checking(u, own, attempt, rest) ==
    [Free EXCEPT !.pc = "checking", !.user = u, !.own = own,
                 !.with = attempt.cand, !.row = attempt.row,
                 !.allowPrevious = attempt.allowPrevious, !.todo = rest]

Connect(states, u, v) == [states EXCEPT ![u] = "CONNECTING", ![v] = "CONNECTING"]

\* A new ticket and the search for it up to its first await. The ticket is made of the
\* row read when the request came. The time waited is read off the ticket made here,
\* so it is aged only if tickets are born aged.
StartSearch(r) ==
    LET u == req[r].user
        own == req[r].own
        allowPreviousCalls == activeTickets'[u].waited = "aged"
        waiting == [stateStore EXCEPT ![u] = "WAITING"]
    IN  /\ activeTickets' = [activeTickets EXCEPT ![u] = [waited |-> "fresh", row |-> own]]
        /\ \/ /\ Candidates(u, own) = {}
              /\ stateStore' = waiting
              /\ req' = [req EXCEPT ![r] = Free]
           \/ \E a \in NextAttempts(Attempts(u, own, allowPreviousCalls)) :
                 /\ stateStore' = Connect(waiting, u, a.cand)
                 /\ req' = [req EXCEPT ![r] =
                        Checking(u, own, a, Attempts(u, own, allowPreviousCalls) \ {a})]
        /\ UNCHANGED <<userRows, matchHistory, sent, failures, restarts>>

ActivateIdle(r) ==
    /\ req[r].pc = "loaded"
    /\ stateStore[req[r].user] = "IDLE"
    /\ StartSearch(r)

ActivateConnecting(r) ==
    /\ req[r].pc = "loaded"
    /\ stateStore[req[r].user] \in {"CONNECTING", "IN_ROOM"}
    /\ req' = [req EXCEPT ![r].pc = "lookup"]
    /\ UNCHANGED <<stateStore, activeTickets, userRows, matchHistory, sent, failures, restarts>>

\* The database answers the lookup of the user's latest call.
LookUp(r) ==
    /\ req[r].pc = "lookup"
    /\ \/ /\ LiveRows(req[r].user) = {}
          /\ req' = [req EXCEPT ![r].pc = "found"]
       \/ \E i \in LiveRows(req[r].user) :
             /\ IsLatest(i, LiveRows(req[r].user))
             /\ req' = [req EXCEPT ![r].pc = "found",
                                   ![r].with = PeerOf(req[r].user, matchHistory[i]),
                                   ![r].room = matchHistory[i].roomId]
    /\ UNCHANGED <<stateStore, activeTickets, userRows, matchHistory, sent, failures, restarts>>

AnswerExisting(r) ==
    /\ req[r].pc = "found"
    /\ req[r].room # Null
    /\ sent' = sent \cup {[to |-> req[r].user, peer |-> req[r].with, room |-> req[r].room]}
    /\ req' = [req EXCEPT ![r] = Free]
    /\ UNCHANGED <<stateStore, activeTickets, userRows, matchHistory, failures, restarts>>

\* No call is on record: the user is taken for stale, reset, and queued again.
ResetStale(r) ==
    /\ req[r].pc = "found"
    /\ req[r].room = Null
    /\ StartSearch(r)

-------------------------------------------------------------------------------
(* filterCandidates: the queries about one candidate run side by side. Blocks do *)
(* not change, no code writes them; the other answers do.                       *)

\* isAgeCompatible: the ages come with the tickets, the preferences are read now.
\* Its two queries read two rows that only their own users change, in one step.
ReadAges(r) ==
    /\ req[r].pc = "checking"
    /\ req[r].ages = "unread"
    /\ req' = [req EXCEPT ![r].ages =
                  YesNo(IsAgeCompatible(userRows[req[r].user][req[r].own],
                                        userRows[req[r].with][req[r].row],
                                        CurrentRow(req[r].user), CurrentRow(req[r].with)))]
    /\ UNCHANGED <<stateStore, activeTickets, userRows, matchHistory, sent, failures, restarts>>

ReadDeclined(r) ==
    /\ req[r].pc = "checking"
    /\ req[r].declined = "unread"
    /\ req' = [req EXCEPT ![r].declined =
                  YesNo(HasDeclinedMatch(req[r].user, req[r].with))]
    /\ UNCHANGED <<stateStore, activeTickets, userRows, matchHistory, sent, failures, restarts>>

ReadPrevious(r) ==
    /\ req[r].pc = "checking"
    /\ req[r].previous = "unread"
    /\ req' = [req EXCEPT ![r].previous =
                  YesNo(HasPreviousCall(req[r].user, req[r].with))]
    /\ UNCHANGED <<stateStore, activeTickets, userRows, matchHistory, sent, failures, restarts>>

Answered(r) ==
    /\ req[r].pc = "checking"
    /\ req[r].ages # "unread"
    /\ req[r].declined # "unread"
    /\ req[r].previous # "unread"

\* The tickets share an interest, which a second call of the same two takes.
TicketsShareInterest(r) ==
    HasSharedInterest(userRows[req[r].user][req[r].own], userRows[req[r].with][req[r].row])

\* Seeded bug: the ages are not compared.
AcceptableAtAnyAge(r) ==
    /\ ~IsBlocked(req[r].user, req[r].with)
    /\ req[r].declined = "no"
    /\ req[r].previous = "yes" => req[r].allowPrevious /\ TicketsShareInterest(r)

\* Seeded bug: blocks between the two users are not looked at.
AcceptableIfBlocked(r) ==
    /\ req[r].ages = "yes"
    /\ req[r].declined = "no"
    /\ req[r].previous = "yes" => req[r].allowPrevious /\ TicketsShareInterest(r)

Acceptable(r) ==
    /\ req[r].ages = "yes"
    /\ ~IsBlocked(req[r].user, req[r].with)
    /\ req[r].declined = "no"
    /\ req[r].previous = "yes" => req[r].allowPrevious /\ TicketsShareInterest(r)

\* Seeded bug: the rejected candidate is not put back.
RollbackOne(r) == [stateStore EXCEPT ![req[r].user] = "WAITING"]

\* rollback puts both users back to WAITING, whatever became of them meanwhile.
Rollback(r) ==
    [stateStore EXCEPT ![req[r].user] = "WAITING", ![req[r].with] = "WAITING"]

\* Seeded bug: the next candidate is not taken off the list.
TryNextKeeping(r) ==
    /\ Answered(r)
    /\ ~Acceptable(r)
    /\ \E a \in NextAttempts(req[r].todo) :
          /\ stateStore' = Connect(Rollback(r), req[r].user, a.cand)
          /\ req' = [req EXCEPT ![r] = Checking(req[r].user, req[r].own, a, req[r].todo)]
    /\ UNCHANGED <<activeTickets, userRows, matchHistory, sent, failures, restarts>>

TryNext(r) ==
    /\ Answered(r)
    /\ ~Acceptable(r)
    /\ \E a \in NextAttempts(req[r].todo) :
          /\ stateStore' = Connect(Rollback(r), req[r].user, a.cand)
          /\ req' = [req EXCEPT ![r] = Checking(req[r].user, req[r].own, a, req[r].todo \ {a})]
    /\ UNCHANGED <<activeTickets, userRows, matchHistory, sent, failures, restarts>>

GiveUp(r) ==
    /\ Answered(r)
    /\ ~Acceptable(r)
    /\ req[r].todo = {}
    /\ stateStore' = Rollback(r)
    /\ req' = [req EXCEPT ![r] = Free]
    /\ UNCHANGED <<activeTickets, userRows, matchHistory, sent, failures, restarts>>

-------------------------------------------------------------------------------
(* createMatch *)

\* A new room id; both tickets go, both users stay CONNECTING.
Accept(r) ==
    /\ Answered(r)
    /\ Acceptable(r)
    /\ \E room \in Rooms \ RoomsUsed :
          req' = [req EXCEPT ![r] = [Free EXCEPT !.pc = "creating",
                      !.user = req[r].user, !.with = req[r].with, !.room = room]]
    /\ activeTickets' = [activeTickets EXCEPT ![req[r].user] = Null,
                                              ![req[r].with] = Null]
    /\ UNCHANGED <<stateStore, userRows, matchHistory, sent, failures, restarts>>

SaveRow(r) ==
    /\ req[r].pc = "creating"
    /\ matchHistory' = Append(matchHistory,
           [userA |-> req[r].user, userB |-> req[r].with,
            roomId |-> req[r].room, outcome |-> "default"])
    /\ req' = [req EXCEPT ![r].pc = "saved"]
    /\ UNCHANGED <<stateStore, activeTickets, userRows, sent, failures, restarts>>

\* Seeded bug: both users are told of the room before its row is saved.
NotifyEarly(r) ==
    /\ req[r].pc \in {"creating", "saved"}
    /\ sent' = sent \cup
          {[to |-> req[r].user, peer |-> req[r].with, room |-> req[r].room],
           [to |-> req[r].with, peer |-> req[r].user, room |-> req[r].room]}
    /\ req' = [req EXCEPT ![r] = Free]
    /\ UNCHANGED <<stateStore, activeTickets, userRows, matchHistory, failures, restarts>>

\* Seeded bug: only the user who called activate is told.
NotifyCaller(r) ==
    /\ req[r].pc = "saved"
    /\ sent' = sent \cup
          {[to |-> req[r].user, peer |-> req[r].with, room |-> req[r].room]}
    /\ req' = [req EXCEPT ![r] = Free]
    /\ UNCHANGED <<stateStore, activeTickets, userRows, matchHistory, failures, restarts>>

\* After the statistics and streaks of both users are written (see Streak).
NotifyMatch(r) ==
    /\ req[r].pc = "saved"
    /\ sent' = sent \cup
          {[to |-> req[r].user, peer |-> req[r].with, room |-> req[r].room],
           [to |-> req[r].with, peer |-> req[r].user, room |-> req[r].room]}
    /\ req' = [req EXCEPT ![r] = Free]
    /\ UNCHANGED <<stateStore, activeTickets, userRows, matchHistory, failures, restarts>>

-------------------------------------------------------------------------------
(* Leaving, declining, and the outcome the video gateway sets *)

ToIdle(u) ==
    /\ stateStore' = [stateStore EXCEPT ![u] = "IDLE"]
    /\ activeTickets' = [activeTickets EXCEPT ![u] = Null]

\* Seeded bug: leaving forgets the ticket.
LeaveWithTicket(u) ==
    /\ stateStore' = [stateStore EXCEPT ![u] = "IDLE"]
    /\ UNCHANGED <<activeTickets, userRows, matchHistory, sent, req, failures, restarts>>

LeaveRoom(u) ==
    /\ ToIdle(u)
    /\ UNCHANGED <<userRows, matchHistory, sent, req, failures, restarts>>

DeactivateCall(u) ==
    /\ ToIdle(u)
    /\ UNCHANGED <<userRows, matchHistory, sent, req, failures, restarts>>

\* Seeded bug: the update does not look at the outcome the row has.
SetOutcomeAlways(room, from, to) ==
    matchHistory' = [i \in RowIds |->
        IF matchHistory[i].roomId = room
        THEN [matchHistory[i] EXCEPT !.outcome = to]
        ELSE matchHistory[i]]

SetOutcome(room, from, to) ==
    matchHistory' = [i \in RowIds |->
        IF matchHistory[i].roomId = room /\ matchHistory[i].outcome \in from
        THEN [matchHistory[i] EXCEPT !.outcome = to]
        ELSE matchHistory[i]]

\* A user declines a room, of theirs or not, known or not: the update looks at the
\* room id alone. The database write comes first.
DeclineUpdate(r, u) ==
    /\ req[r].pc = "free"
    /\ \E room \in Rooms : SetOutcome(room, {"default"}, "declined")
    /\ req' = [req EXCEPT ![r] = [Free EXCEPT !.pc = "declining", !.user = u]]
    /\ UNCHANGED <<stateStore, activeTickets, userRows, sent, failures, restarts>>

DeclineFinish(r) ==
    /\ req[r].pc = "declining"
    /\ ToIdle(req[r].user)
    /\ req' = [req EXCEPT ![r] = Free]
    /\ UNCHANGED <<userRows, matchHistory, sent, failures, restarts>>

SetRoomOutcome ==
    /\ \E i \in RowIds : SetOutcome(matchHistory[i].roomId, Outcome, "matched")
    /\ UNCHANGED <<stateStore, activeTickets, userRows, sent, req, failures, restarts>>

-------------------------------------------------------------------------------
(* Edited rows, time, failing database calls, and restarts of the process *)

\* PATCH /users/me or PUT of the interests: whatever the user is doing in the queue,
\* the row changes and the tickets made of it stay as they are.
UpdateProfile(u) ==
    /\ LastRow(u) <= MaxEdits[u]
    /\ \E p \in Profiles \ {userRows[u][LastRow(u)]} : userRows' = [userRows EXCEPT ![u] = Append(@, p)]
    /\ UNCHANGED <<stateStore, activeTickets, matchHistory, sent, req, failures, restarts>>

\* 30 seconds pass for a ticket (PREVIOUS_CALL_WAIT_THRESHOLD_MS).
TicketAges(u) ==
    /\ activeTickets[u] # Null
    /\ activeTickets[u].waited = "fresh"
    /\ activeTickets' = [activeTickets EXCEPT ![u].waited = "aged"]
    /\ UNCHANGED <<stateStore, userRows, matchHistory, sent, req, failures, restarts>>

\* An awaited database call rejects: the request ends where it stands.
DatabaseError(r) ==
    /\ req[r].pc \in {"lookup", "checking", "creating", "saved"}
    /\ failures < MaxFailures
    /\ failures' = failures + 1
    /\ req' = [req EXCEPT ![r] = Free]
    /\ UNCHANGED <<stateStore, activeTickets, userRows, matchHistory, sent, restarts>>

Restart ==
    /\ restarts < MaxRestarts
    /\ restarts' = restarts + 1
    /\ stateStore' = [u \in Users |-> "IDLE"]
    /\ activeTickets' = [u \in Users |-> Null]
    /\ req' = [r \in Reqs |-> Free]
    /\ UNCHANGED <<userRows, matchHistory, sent, failures>>

-------------------------------------------------------------------------------

Continue(r) ==
    \/ AnswerBusy(r) \/ ActivateIdle(r) \/ ActivateConnecting(r)
    \/ LookUp(r) \/ AnswerExisting(r) \/ ResetStale(r)
    \/ ReadAges(r) \/ ReadDeclined(r) \/ ReadPrevious(r)
    \/ TryNext(r) \/ GiveUp(r) \/ Accept(r)
    \/ SaveRow(r) \/ NotifyMatch(r) \/ DeclineFinish(r)

UserCall(u) ==
    \/ LeaveRoom(u) \/ DeactivateCall(u) \/ UpdateProfile(u)
    \/ \E r \in Reqs : LoadUser(r, u) \/ DeclineUpdate(r, u)

Environment ==
    \/ SetRoomOutcome
    \/ \E u \in Users : TicketAges(u)
    \/ \E r \in Reqs : DatabaseError(r)
    \/ Restart

Next ==
    \/ \E r \in Reqs : Continue(r)
    \/ \E u \in Users : UserCall(u)
    \/ Environment

Spec == Init /\ [][Next]_vars

\* Every awaited database call is answered and the event loop resumes it.
Fairness == \A r \in Reqs : WF_vars(Continue(r))

FairSpec == Spec /\ Fairness

-------------------------------------------------------------------------------
(* Properties *)

Held(r) == {req[r].user, req[r].with}

\* A client that is told of a room by match_found, room_ready or a 'matched'
\* answer is told of a call on record, and of its peer in that very call: the
\* row is committed before anybody hears of it, whatever fails in between.
NotifiedRoomsExist ==
    \A n \in sent : \E i \in RowIds :
        matchHistory[i].roomId = n.room /\ IsBetween(n.to, n.peer, matchHistory[i])

\* setRoomOutcome and declineMatch address a call by its room id alone, so no
\* two calls may share one, nor may a match in the making reuse one.
RoomsUnique ==
    /\ \A i, j \in RowIds : matchHistory[i].roomId = matchHistory[j].roomId => i = j
    /\ \A r \in Reqs, i \in RowIds :
          req[r].pc = "creating" => matchHistory[i].roomId # req[r].room
    /\ \A r, s \in Reqs :
          req[r].pc = "creating" /\ req[s].pc = "creating" /\ r # s
              => req[r].room # req[s].room

\* The ages on rows a and b fit preferences that u and v held since.
AgesFit(u, a, v, b) ==
    \E later \in a..LastRow(u), after \in b..LastRow(v) :
        IsAgeCompatible(userRows[u][a], userRows[v][b], userRows[u][later], userRows[v][after])

\* What a search establishes of two users: rows a and b, which their tickets were made
\* of, fit by gender, and each age fits the preferences a row held then or later.
Suited(u, v) ==
    /\ u # v /\ ~IsBlocked(u, v)
    /\ \E a \in 1..LastRow(u), b \in 1..LastRow(v) :
          /\ IsGenderCompatible(userRows[u][a], userRows[v][b])
          /\ AgesFit(u, a, v, b)

\* Every recorded call joins two different users who have not blocked each other, whose
\* gender wishes fitted both ways and whose ages fitted what each of them wished for at
\* that time or later, however searches, new tickets and edits of profiles interleave.
\* Nothing better holds: an edit made while a ticket is in use is not looked at, so the
\* rows the two have when the call is recorded need not fit.
PairsSound ==
    \A i \in RowIds : Suited(matchHistory[i].userA, matchHistory[i].userB)

\* The two maps agree in one direction through every interleaving: whoever owns a
\* ticket is WAITING or CONNECTING (getMyQueueStatus never shows IDLE and a ticket).
TicketHolderIsQueued ==
    \A u \in Users : activeTickets[u] # Null => stateStore[u] \in {"WAITING", "CONNECTING"}

\* As long as no database call failed, CONNECTING is never left behind: a running
\* request holds the user, or a call of the user is on record.
ConnectingHasCause ==
    failures = 0 =>
        \A u \in Users : stateStore[u] = "CONNECTING" =>
            \/ \E r \in Reqs : /\ req[r].pc \in {"checking", "creating", "saved"}
                              /\ u \in Held(r)
            \/ \E i \in RowIds : IsMember(u, matchHistory[i])

\* The history only grows, no row changes its users or room, and a call that was
\* 'matched' never turns into 'declined', even if a decline races the like-back.
MatchedIsFinal ==
    [][\A i \in RowIds :
          /\ i <= Len(matchHistory')
          /\ matchHistory'[i] = [matchHistory[i] EXCEPT !.outcome = matchHistory'[i].outcome]
          /\ matchHistory[i].outcome = "matched" => matchHistory'[i].outcome = "matched"]_vars

\* Every request comes to its end: the search tries each candidate once.
RequestsEnd == \A r \in Reqs : req[r].pc # "free" ~> req[r].pc = "free"

NoticesOf(row) ==
    {[to |-> row.userA, peer |-> row.userB, room |-> row.roomId],
     [to |-> row.userB, peer |-> row.userA, room |-> row.roomId]}

\* If no database call fails and the process stays up, both users of a recorded
\* call are told of each other.
BothAreTold ==
    \A room \in Rooms :
        (\E i \in RowIds : matchHistory[i].roomId = room)
        ~> (\E i \in RowIds : /\ matchHistory[i].roomId = room
                             /\ NoticesOf(matchHistory[i]) \subseteq sent)

\* The queue, with all its races, implements the ledger of MatchLedger.
Ledger == INSTANCE MatchLedger WITH
    calls <- {matchHistory[i] : i \in RowIds},
    told <- sent,
    Pairs <- {pair \in Users \X Users : pair[1] # pair[2] /\ ~IsBlocked(pair[1], pair[2])}

\* Searches, lookups, resets, failures and restarts are stutters of the ledger; a
\* saved row is one Record, an outcome one Settle, an answer or notification one Tell.
ImplementsLedger == Ledger!Spec

-------------------------------------------------------------------------------
(* What the properties rest on: the state of a suspended request. The conjuncts *)
(* make the invariants above inductive; MatchmakingProofs proves them.          *)

\* Whoever a request names is a user, from the statement that names them on.
RequestsName ==
    \A r \in Reqs :
        /\ req[r].pc # "free" => req[r].user \in Users
        /\ req[r].pc \in {"checking", "creating", "saved"} => req[r].with \in Users
        /\ req[r].pc \in {"creating", "saved"} => req[r].room \in Rooms
        /\ req[r].pc \in {"loaded", "lookup"} => req[r].room = Null
        /\ req[r].pc = "found" /\ req[r].room # Null => req[r].with \in Users

\* A request about to tell somebody of a room has seen the row of that call.
ToldIsSaved ==
    \A r \in Reqs :
        req[r].pc = "saved" \/ (req[r].pc = "found" /\ req[r].room # Null)
        => \E i \in RowIds : /\ matchHistory[i].roomId = req[r].room
                            /\ IsBetween(req[r].user, req[r].with, matchHistory[i])

\* Everybody has a row, and the rows that a ticket or a request was made of exist.
TicketsSound ==
    /\ \A u \in Users : LastRow(u) # 0
    /\ \A u \in Users : activeTickets[u] # Null => activeTickets[u].row \in 1..LastRow(u)
    /\ \A r \in Reqs : req[r].pc \in {"loaded", "lookup", "found", "checking"}
                          => req[r].own \in 1..LastRow(req[r].user)

\* The user of a search and a candidate of it, by the tickets the search took.
Fits(r, c, row) ==
    /\ c # req[r].user
    /\ row \in 1..LastRow(c)
    /\ IsGenderCompatible(userRows[req[r].user][req[r].own], userRows[c][row])

\* The gender filter of the snapshot holds for every candidate still to come, and what
\* was checked of a candidate still holds when the row is saved.
SearchesSound ==
    \A r \in Reqs :
        /\ req[r].pc = "checking" =>
              /\ Fits(r, req[r].with, req[r].row)
              /\ \A a \in req[r].todo : Fits(r, a.cand, a.row)
              /\ req[r].ages = "yes"
                    => AgesFit(req[r].user, req[r].own, req[r].with, req[r].row)
        /\ req[r].pc = "creating" => Suited(req[r].user, req[r].with)

\* The inductive invariant behind NotifiedRoomsExist, RoomsUnique and PairsSound.
LedgerInv ==
    /\ TypeOK /\ RequestsName
    /\ ToldIsSaved /\ NotifiedRoomsExist /\ RoomsUnique
    /\ TicketsSound /\ SearchesSound /\ PairsSound

-------------------------------------------------------------------------------
(* What comments in the code say, and the code does not do *)

\* matchmaking.service.ts:248 "First pass: fresh candidates only (no prior calls
\* together)": a candidate accepted in the first pass has no call on record with
\* the user.
FirstPassIsFresh ==
    [][\A r \in Reqs :
          req[r].pc = "checking" /\ req'[r].pc = "creating" /\ ~req[r].allowPrevious
              => \A i \in RowIds : ~IsBetween(req[r].user, req[r].with, matchHistory[i])]_vars

WaitsLong(u) ==
    stateStore[u] = "WAITING" /\ activeTickets[u] \in [waited : {"aged"}, row : 1..LastRow(u)]

\* matchmaking.service.ts:252 "Second pass: after threshold, allow previously-called
\* users with shared interests": two such users do not wait side by side for ever.
SecondPassHappens ==
    \A u, v \in Users :
        (/\ Suited(u, v)
         /\ HasPreviousCall(u, v) /\ ~HasDeclinedMatch(u, v) /\ HasSharedInterest(CurrentRow(u), CurrentRow(v))
         /\ WaitsLong(u) /\ WaitsLong(v))
        ~> ~(stateStore[u] = "WAITING" /\ stateStore[v] = "WAITING")
================================================================================
