-------------------------- MODULE MatchmakingProofs --------------------------
(* Theorems about Matchmaking for every set of users, profiles and requests.  *)
EXTENDS Matchmaking, TLAPS

-------------------------------------------------------------------------------
(* Lemmas about the shapes of requests and queries *)

\* A slot between two requests is a well-formed request.
LEMMA FreeIsRequest == Free \in Request
  BY DEF Free, Request

\* The attempts of a search are attempts, and each takes a candidate and their ticket
\* from the snapshot.
LEMMA AttemptsAreAttempts ==
    ASSUME activeTickets \in [Users -> Ticket \cup {Null}],
           NEW u \in Users, NEW own, NEW allow \in BOOLEAN
    PROVE  /\ Attempts(u, own, allow) \in SUBSET Attempt
           /\ \A a \in Attempts(u, own, allow) :
                 a.cand \in Candidates(u, own) /\ a.row = activeTickets[a.cand].row
  <1>1. ASSUME NEW c \in Candidates(u, own)
        PROVE  c \in Users /\ activeTickets[c].row \in Nat
    BY <1>1 DEF Candidates, Ticket
  <1> DEFINE pass(f) == {[cand |-> c, row |-> activeTickets[c].row, allowPrevious |-> f] :
                            c \in Candidates(u, own)}
  <1>2. ASSUME NEW f \in BOOLEAN, NEW a \in pass(f)
        PROVE  a \in Attempt /\ a.cand \in Candidates(u, own) /\ a.row = activeTickets[a.cand].row
    BY <1>1, <1>2 DEF Attempt
  <1>3. Attempts(u, own, allow) = pass(FALSE) \cup (IF allow THEN pass(TRUE) ELSE {})
    BY DEF Attempts
  <1> HIDE DEF pass
  <1> QED BY <1>2, <1>3

\* A search that turns to a candidate is a well-formed request.
LEMMA CheckingIsRequest ==
    ASSUME NEW u \in Users, NEW own \in Nat, NEW a \in Attempt, NEW rest \in SUBSET Attempt
    PROVE  /\ Checking(u, own, a, rest) \in Request
           /\ Checking(u, own, a, rest).pc = "checking"
           /\ Checking(u, own, a, rest).user = u
           /\ Checking(u, own, a, rest).own = own
           /\ Checking(u, own, a, rest).with = a.cand
           /\ Checking(u, own, a, rest).row = a.row
           /\ Checking(u, own, a, rest).todo = rest
           /\ Checking(u, own, a, rest).ages = "unread"
           /\ Checking(u, own, a, rest).room = Null
  BY DEF Checking, Request, Free, Attempt

\* Replacing the request of one slot leaves the other slots alone.
LEMMA SlotChange ==
    ASSUME req \in [Reqs -> Request], NEW r \in Reqs, NEW q \in Request,
           req' = [req EXCEPT ![r] = q]
    PROVE  /\ req' \in [Reqs -> Request]
           /\ req'[r] = q
           /\ \A s \in Reqs : s # r => req'[s] = req[s]
  OBVIOUS

\* A request that only moves on to its next statement keeps what it knows.
LEMMA PcChange ==
    ASSUME NEW q \in Request, NEW next \in {"lookup", "found", "saved"}
    PROVE  /\ [q EXCEPT !.pc = next] \in Request
           /\ [q EXCEPT !.pc = next].pc = next
           /\ [q EXCEPT !.pc = next].user = q.user
           /\ [q EXCEPT !.pc = next].own = q.own
           /\ [q EXCEPT !.pc = next].with = q.with
           /\ [q EXCEPT !.pc = next].room = q.room
  BY DEF Request

\* What a row of the table consists of.
LEMMA RowFields ==
    ASSUME matchHistory \in Seq(Row), NEW i \in RowIds
    PROVE  /\ matchHistory[i] \in Row
           /\ matchHistory[i].userA \in Users /\ matchHistory[i].userB \in Users
           /\ matchHistory[i].roomId \in Rooms
           /\ \A u \in Users : PeerOf(u, matchHistory[i]) \in Users
  <1>1. matchHistory[i] \in Row
    BY DEF RowIds
  <1> QED BY <1>1 DEF Row, PeerOf

\* Setting an outcome keeps the table a sequence of rows of the same length, and
\* each row its users and its room.
LEMMA OutcomeKeepsRows ==
    ASSUME matchHistory \in Seq(Row), NEW room, NEW from, NEW to \in Outcome,
           SetOutcome(room, from, to)
    PROVE  /\ matchHistory' \in Seq(Row)
           /\ Len(matchHistory') = Len(matchHistory)
           /\ \A i \in RowIds : /\ matchHistory'[i].userA = matchHistory[i].userA
                                /\ matchHistory'[i].userB = matchHistory[i].userB
                                /\ matchHistory'[i].roomId = matchHistory[i].roomId
                                /\ \/ matchHistory'[i].outcome = matchHistory[i].outcome
                                   \/ /\ matchHistory'[i].outcome = to
                                      /\ matchHistory[i].outcome \in from
                                      /\ matchHistory[i].roomId = room
  <1> DEFINE new(i) == IF matchHistory[i].roomId = room /\ matchHistory[i].outcome \in from
                       THEN [matchHistory[i] EXCEPT !.outcome = to] ELSE matchHistory[i]
  <1>1. matchHistory' = [i \in 1..Len(matchHistory) |-> new(i)]
    BY DEF SetOutcome, RowIds
  <1>2. Len(matchHistory) \in Nat
    OBVIOUS
  <1>3. \A i \in 1..Len(matchHistory) : matchHistory[i] \in Row
    OBVIOUS
  <1>4. \A i \in 1..Len(matchHistory) : new(i) \in Row
    BY <1>3 DEF Row
  <1>5. matchHistory' \in [1..Len(matchHistory) -> Row]
    BY <1>1, <1>4
  <1>6. matchHistory' \in Seq(Row)
    BY <1>2, <1>5
  <1>7. Len(matchHistory') = Len(matchHistory)
    BY <1>1, <1>2, <1>6
  <1> QED
    BY <1>1, <1>3, <1>6, <1>7 DEF RowIds, Row

-------------------------------------------------------------------------------
(* Type correctness. TypeOK alone is not inductive: a request must also name   *)
(* users where its next statement takes them for users (RequestsName).         *)

TypeInv == TypeOK /\ RequestsName

\* The initial state is well typed.
LEMMA TypeInit == Init => TypeInv
  <1> SUFFICES ASSUME Init PROVE TypeInv
    OBVIOUS
  <1>1. userRows \in [Users -> Seq(Profiles)]
    BY RowsAssumption DEF Init
  <1> QED BY <1>1, FreeIsRequest, BoundsAssumption
          DEF Init, TypeInv, TypeOK, RequestsName, Free, MatchmakingState

\* Editing a profile keeps the rows a sequence per user, with all that was there.
LEMMA EditKeepsRows ==
    ASSUME userRows \in [Users -> Seq(Profiles)], NEW v \in Users, UpdateProfile(v)
    PROVE  /\ userRows' \in [Users -> Seq(Profiles)]
           /\ \A u \in Users : /\ LastRow(u) \in Nat /\ LastRow(u)' \in Nat
                               /\ LastRow(u) <= LastRow(u)'
                               /\ \A n \in 1..LastRow(u) : userRows'[u][n] = userRows[u][n]
  <1> PICK p \in Profiles : userRows' = [userRows EXCEPT ![v] = Append(@, p)]
    BY DEF UpdateProfile
  <1>1. userRows[v] \in Seq(Profiles) /\ userRows'[v] = Append(userRows[v], p)
    OBVIOUS
  <1>2. /\ userRows'[v] \in Seq(Profiles)
        /\ Len(userRows[v]) \in Nat /\ Len(userRows'[v]) = Len(userRows[v]) + 1
        /\ \A n \in 1..Len(userRows[v]) : userRows'[v][n] = userRows[v][n]
    BY <1>1
  <1>3. \A u \in Users : u # v => userRows'[u] = userRows[u]
    OBVIOUS
  <1>4. \A u \in Users : userRows[u] \in Seq(Profiles) /\ Len(userRows[u]) \in Nat
    OBVIOUS
  <1>5. userRows' \in [Users -> Seq(Profiles)]
    BY <1>2
  <1> QED BY <1>2, <1>3, <1>4, <1>5 DEF LastRow

\* Queueing a user and searching for them keeps the types.
LEMMA TypeStartSearch ==
    ASSUME TypeInv, NEW r \in Reqs, req[r].user \in Users, StartSearch(r)
    PROVE  TypeInv'
  <1> DEFINE u == req[r].user
             own == req[r].own
             allow == activeTickets'[u].waited = "aged"
  <1>1. /\ own \in Nat
        /\ activeTickets' = [activeTickets EXCEPT ![u] = [waited |-> "fresh", row |-> own]]
    BY DEF StartSearch, TypeInv, TypeOK, Request
  <1>2. activeTickets' \in [Users -> Ticket \cup {Null}]
    BY <1>1 DEF TypeInv, TypeOK, Ticket
  <1>3. \/ /\ stateStore' = [stateStore EXCEPT ![u] = "WAITING"]
           /\ req' = [req EXCEPT ![r] = Free]
        \/ \E a \in Attempts(u, own, allow) :
             /\ stateStore' = Connect([stateStore EXCEPT ![u] = "WAITING"], u, a.cand)
             /\ req' = [req EXCEPT ![r] = Checking(u, own, a, Attempts(u, own, allow) \ {a})]
    BY DEF StartSearch, NextAttempts
  <1> HIDE DEF allow
  <1>4. ASSUME req' = [req EXCEPT ![r] = Free]
        PROVE  req' \in [Reqs -> Request] /\ RequestsName'
    BY <1>4, FreeIsRequest DEF TypeInv, TypeOK, RequestsName, Free
  <1>5. ASSUME NEW a \in Attempts(u, own, allow),
               req' = [req EXCEPT ![r] = Checking(u, own, a, Attempts(u, own, allow) \ {a})]
        PROVE  req' \in [Reqs -> Request] /\ RequestsName'
    <2>1. a \in Attempt /\ a.cand \in Users /\ Attempts(u, own, allow) \ {a} \in SUBSET Attempt
      <3>1. Attempts(u, own, allow) \in SUBSET Attempt
        BY AttemptsAreAttempts DEF TypeInv, TypeOK, allow
      <3> QED BY <3>1 DEF Attempt
    <2> QED
      BY <1>1, <1>5, <2>1, CheckingIsRequest DEF TypeInv, TypeOK, RequestsName
  <1>6. stateStore' \in [Users -> MatchmakingState]
    BY <1>3 DEF TypeInv, TypeOK, Connect, MatchmakingState
  <1> QED
    BY <1>2, <1>3, <1>4, <1>5, <1>6 DEF StartSearch, TypeInv, TypeOK

\* An answer to one of the queries of a search keeps the rest of the request.
LEMMA AnswerChange ==
    ASSUME req \in [Reqs -> Request], RequestsName, NEW r \in Reqs, NEW b,
           \/ req' = [req EXCEPT ![r].ages = YesNo(b)]
           \/ req' = [req EXCEPT ![r].declined = YesNo(b)]
           \/ req' = [req EXCEPT ![r].previous = YesNo(b)]
    PROVE  req' \in [Reqs -> Request] /\ RequestsName'
  <1> DEFINE yn == YesNo(b)
  <1>1. yn \in {"yes", "no"}
    BY DEF YesNo
  <1> HIDE DEF yn
  <1>2. PICK q : /\ q \in {[req[r] EXCEPT !.ages = yn], [req[r] EXCEPT !.declined = yn],
                            [req[r] EXCEPT !.previous = yn]}
                 /\ req' = [req EXCEPT ![r] = q]
    BY DEF yn
  <1>3. /\ q \in Request /\ q.pc = req[r].pc /\ q.user = req[r].user
        /\ q.with = req[r].with /\ q.room = req[r].room
    BY <1>1, <1>2 DEF Request
  <1>4. /\ req' \in [Reqs -> Request] /\ req'[r] = q
        /\ \A s \in Reqs : s # r => req'[s] = req[s]
    BY <1>2, <1>3, SlotChange
  <1> QED BY <1>3, <1>4 DEF RequestsName

\* Every step of the specification keeps the types.
LEMMA TypeStep == TypeInv /\ [Next]_vars => TypeInv'
  <1> SUFFICES ASSUME TypeInv, [Next]_vars PROVE TypeInv'
    OBVIOUS
  <1> USE DEF TypeInv, TypeOK, RequestsName
  <1>1. ASSUME NEW r \in Reqs, Continue(r) PROVE TypeInv'
    <2>1. CASE LookUp(r)
      <3>1. req[r].user \in Users
        BY <2>1 DEF LookUp
      <3>2. ASSUME NEW i \in LiveRows(req[r].user)
            PROVE  PeerOf(req[r].user, matchHistory[i]) \in Users /\ matchHistory[i].roomId \in Rooms
        BY <3>1, RowFields DEF LiveRows
      <3>3. CASE req' = [req EXCEPT ![r].pc = "found"]
        <4>1. req' = [req EXCEPT ![r] = [req[r] EXCEPT !.pc = "found"]]
          BY <3>3
        <4>2. req[r] \in Request /\ req[r].room = Null
          BY <2>1 DEF LookUp
        <4>3. [req[r] EXCEPT !.pc = "found"] \in Request
          BY <4>2, PcChange
        <4>4. req' \in [Reqs -> Request] /\ RequestsName'
          BY <3>1, <4>1, <4>2, <4>3, PcChange, SlotChange
        <4> QED BY <2>1, <4>4 DEF LookUp
      <3>4. ASSUME NEW i \in LiveRows(req[r].user),
                   req' = [req EXCEPT ![r].pc = "found",
                                      ![r].with = PeerOf(req[r].user, matchHistory[i]),
                                      ![r].room = matchHistory[i].roomId]
            PROVE  TypeInv'
        <4> DEFINE q == [req[r] EXCEPT !.pc = "found",
                                       !.with = PeerOf(req[r].user, matchHistory[i]),
                                       !.room = matchHistory[i].roomId]
        <4>1. req[r] \in Request /\ req' = [req EXCEPT ![r] = q]
          BY <3>4
        <4>2. /\ q \in Request
              /\ q.pc = "found" /\ q.user \in Users /\ q.with \in Users
          BY <3>1, <3>2, <4>1 DEF Request
        <4> HIDE DEF q
        <4>3. req' \in [Reqs -> Request] /\ RequestsName'
          BY <4>1, <4>2, SlotChange
        <4> QED BY <2>1, <4>3 DEF LookUp
      <3> QED BY <2>1, <3>3, <3>4 DEF LookUp
    <2>2. CASE AnswerExisting(r)
      BY <2>2, FreeIsRequest, NullAssumption DEF AnswerExisting, Notice, Request, Free
    <2>3. CASE ResetStale(r) \/ ActivateIdle(r)
      BY <2>3, TypeStartSearch DEF ResetStale, ActivateIdle
    <2>12. CASE AnswerBusy(r)
      BY <2>12, FreeIsRequest DEF AnswerBusy, Free
    <2>13. CASE ActivateConnecting(r)
      <3>1. /\ req[r] \in Request /\ req[r].pc = "loaded" /\ req[r].room = Null
            /\ req' = [req EXCEPT ![r] = [req[r] EXCEPT !.pc = "lookup"]]
        BY <2>13 DEF ActivateConnecting
      <3>2. req' \in [Reqs -> Request] /\ RequestsName'
        BY <3>1, PcChange, SlotChange
      <3> QED BY <2>13, <3>2 DEF ActivateConnecting
    <2>14. CASE ReadAges(r)
      <3>1. PICK b : req' = [req EXCEPT ![r].ages = YesNo(b)]
        BY <2>14 DEF ReadAges
      <3>2. req' \in [Reqs -> Request] /\ RequestsName'
        BY <2>14, <3>1, AnswerChange DEF ReadAges
      <3> QED BY <2>14, <3>2 DEF ReadAges
    <2>4. CASE ReadDeclined(r)
      <3>1. PICK b : req' = [req EXCEPT ![r].declined = YesNo(b)]
        BY <2>4 DEF ReadDeclined
      <3>2. req' \in [Reqs -> Request] /\ RequestsName'
        BY <2>4, <3>1, AnswerChange DEF ReadDeclined
      <3> QED BY <2>4, <3>2 DEF ReadDeclined
    <2>5. CASE ReadPrevious(r)
      <3>1. PICK b : req' = [req EXCEPT ![r].previous = YesNo(b)]
        BY <2>5 DEF ReadPrevious
      <3>2. req' \in [Reqs -> Request] /\ RequestsName'
        BY <2>5, <3>1, AnswerChange DEF ReadPrevious
      <3> QED BY <2>5, <3>2 DEF ReadPrevious
    <2>6. CASE TryNext(r)
      <3>1. /\ req[r].user \in Users /\ req[r].with \in Users
            /\ req[r].own \in Nat /\ req[r].todo \in SUBSET Attempt
        BY <2>6 DEF TryNext, Answered, Request
      <3>2. PICK a \in req[r].todo :
              /\ stateStore' = Connect(Rollback(r), req[r].user, a.cand)
              /\ req' = [req EXCEPT ![r] = Checking(req[r].user, req[r].own, a, req[r].todo \ {a})]
        BY <2>6 DEF TryNext, NextAttempts
      <3>3. a \in Attempt /\ a.cand \in Users /\ req[r].todo \ {a} \in SUBSET Attempt
        BY <3>1, <3>2 DEF Attempt
      <3>4. stateStore' \in [Users -> MatchmakingState]
        BY <3>1, <3>2, <3>3 DEF Connect, Rollback, MatchmakingState
      <3>5. req' \in [Reqs -> Request] /\ RequestsName'
        BY <3>1, <3>2, <3>3, CheckingIsRequest
      <3> QED BY <2>6, <3>4, <3>5 DEF TryNext
    <2>7. CASE GiveUp(r)
      BY <2>7, FreeIsRequest DEF GiveUp, Rollback, MatchmakingState, Free
    <2>8. CASE Accept(r)
      <3>1. req[r].user \in Users /\ req[r].with \in Users
        BY <2>8 DEF Accept, Answered
      <3>2. PICK room \in Rooms :
              req' = [req EXCEPT ![r] = [Free EXCEPT !.pc = "creating",
                        !.user = req[r].user, !.with = req[r].with, !.room = room]]
        BY <2>8 DEF Accept
      <3> QED BY <2>8, <3>1, <3>2 DEF Accept, Request, Free
    <2>9. CASE SaveRow(r)
      <3>1. [userA |-> req[r].user, userB |-> req[r].with,
             roomId |-> req[r].room, outcome |-> "default"] \in Row
        BY <2>9 DEF SaveRow, Row, Outcome
      <3>2. matchHistory' \in Seq(Row)
        BY <2>9, <3>1 DEF SaveRow
      <3>3. req' \in [Reqs -> Request] /\ RequestsName'
        <4>1. req' = [req EXCEPT ![r] = [req[r] EXCEPT !.pc = "saved"]]
          BY <2>9 DEF SaveRow
        <4>2. req[r] \in Request /\ req[r].pc = "creating"
          BY <2>9 DEF SaveRow
        <4>3. [req[r] EXCEPT !.pc = "saved"] \in Request
          BY <4>2, PcChange
        <4> QED BY <4>1, <4>2, <4>3, PcChange, SlotChange
      <3> QED BY <2>9, <3>2, <3>3 DEF SaveRow
    <2>10. CASE NotifyMatch(r)
      BY <2>10, FreeIsRequest DEF NotifyMatch, Notice, Request, Free
    <2>11. CASE DeclineFinish(r)
      BY <2>11, FreeIsRequest DEF DeclineFinish, ToIdle, MatchmakingState, Free
    <2> QED
      BY <1>1, <2>1, <2>2, <2>3, <2>4, <2>5, <2>6, <2>7, <2>8, <2>9, <2>10, <2>11,
         <2>12, <2>13, <2>14 DEF Continue
  <1>2. ASSUME NEW u \in Users, UserCall(u) PROVE TypeInv'
    <2>1. CASE LeaveRoom(u) \/ DeactivateCall(u)
      BY <2>1 DEF LeaveRoom, DeactivateCall, ToIdle, MatchmakingState
    <2>2. CASE UpdateProfile(u)
      <3>1. userRows' \in [Users -> Seq(Profiles)]
        BY <2>2, EditKeepsRows
      <3> QED BY <2>2, <3>1 DEF UpdateProfile
    <2>3. ASSUME NEW r \in Reqs, LoadUser(r, u) PROVE TypeInv'
      <3>1. LastRow(u) \in Nat
        BY DEF LastRow
      <3> QED BY <2>3, <3>1 DEF LoadUser, Free, Request
    <2>4. ASSUME NEW r \in Reqs, DeclineUpdate(r, u) PROVE TypeInv'
      <3>1. matchHistory' \in Seq(Row)
        BY <2>4, OutcomeKeepsRows DEF DeclineUpdate, Outcome
      <3> QED BY <2>4, <3>1 DEF DeclineUpdate, Free, Request
    <2> QED BY <1>2, <2>1, <2>2, <2>3, <2>4 DEF UserCall
  <1>3. CASE Environment
    <2>1. CASE SetRoomOutcome
      <3>1. matchHistory' \in Seq(Row)
        BY <2>1, OutcomeKeepsRows DEF SetRoomOutcome, Outcome
      <3> QED BY <2>1, <3>1 DEF SetRoomOutcome
    <2>2. ASSUME NEW u \in Users, TicketAges(u) PROVE TypeInv'
      BY <2>2 DEF TicketAges, Ticket
    <2>3. ASSUME NEW r \in Reqs, DatabaseError(r) PROVE TypeInv'
      BY <2>3, FreeIsRequest, BoundsAssumption DEF DatabaseError, Free
    <2>4. CASE Restart
      BY <2>4, FreeIsRequest, BoundsAssumption DEF Restart, Free, MatchmakingState
    <2> QED BY <1>3, <2>1, <2>2, <2>3, <2>4 DEF Environment
  <1>4. CASE UNCHANGED vars
    BY <1>4 DEF vars
  <1> QED
    BY <1>1, <1>2, <1>3, <1>4 DEF Next

\* The maps, the history, the notices and the suspended requests keep their
\* shapes, and a suspended request always knows the users its next statement names.
THEOREM TypeCorrect == Spec => []TypeInv
  BY TypeInit, TypeStep, PTL DEF Spec

\* The type invariant of Matchmaking holds in every reachable state.
THEOREM TypeOKHolds == Spec => []TypeOK
  <1>1. TypeInv => TypeOK
    BY DEF TypeInv
  <1> QED BY <1>1, TypeCorrect, PTL

-------------------------------------------------------------------------------
(* Where the state of a request and a row of the history come from *)

\* The lookup moves on with no room, or with the peer and room of a live call.
LEMMA LookUpAnswer ==
    ASSUME TypeInv, NEW r \in Reqs, LookUp(r)
    PROVE  /\ req'[r].pc = "found"
           /\ req'[r].user = req[r].user /\ req'[r].own = req[r].own
           /\ \/ req'[r].room = Null
              \/ \E i \in LiveRows(req[r].user) :
                    /\ req'[r].with = PeerOf(req[r].user, matchHistory[i])
                    /\ req'[r].room = matchHistory[i].roomId
  <1>1. req \in [Reqs -> Request] /\ req[r].room = Null
    BY DEF TypeInv, TypeOK, RequestsName, LookUp
  <1>2. CASE req' = [req EXCEPT ![r].pc = "found"]
    BY <1>1, <1>2 DEF Request
  <1>3. ASSUME NEW i \in LiveRows(req[r].user),
               req' = [req EXCEPT ![r].pc = "found",
                                  ![r].with = PeerOf(req[r].user, matchHistory[i]),
                                  ![r].room = matchHistory[i].roomId]
        PROVE  /\ req'[r].pc = "found"
               /\ req'[r].user = req[r].user /\ req'[r].own = req[r].own
               /\ req'[r].with = PeerOf(req[r].user, matchHistory[i])
               /\ req'[r].room = matchHistory[i].roomId
    BY <1>1, <1>3 DEF Request
  <1> QED BY <1>2, <1>3 DEF LookUp

\* A search begins in one of two ways: nobody to check, or a first candidate.
LEMMA SearchBegins ==
    ASSUME TypeInv, NEW r \in Reqs, req[r].user \in Users, StartSearch(r)
    PROVE  \/ /\ stateStore' = [stateStore EXCEPT ![req[r].user] = "WAITING"]
              /\ req' = [req EXCEPT ![r] = Free]
           \/ \E a \in Attempt, rest \in SUBSET Attempt :
                 /\ stateStore' = Connect([stateStore EXCEPT ![req[r].user] = "WAITING"],
                                          req[r].user, a.cand)
                 /\ req' = [req EXCEPT ![r] = Checking(req[r].user, req[r].own, a, rest)]
                 /\ \A b \in rest \cup {a} :
                       /\ b.cand \in Candidates(req[r].user, req[r].own)
                       /\ b.row = activeTickets[b.cand].row
  <1> DEFINE u == req[r].user
             own == req[r].own
             allow == activeTickets'[u].waited = "aged"
  <1>1. \/ /\ stateStore' = [stateStore EXCEPT ![u] = "WAITING"]
           /\ req' = [req EXCEPT ![r] = Free]
        \/ \E a \in Attempts(u, own, allow) :
             /\ stateStore' = Connect([stateStore EXCEPT ![u] = "WAITING"], u, a.cand)
             /\ req' = [req EXCEPT ![r] = Checking(u, own, a, Attempts(u, own, allow) \ {a})]
    BY DEF StartSearch, NextAttempts
  <1>2. allow \in BOOLEAN
    OBVIOUS
  <1> HIDE DEF allow, own, u
  <1>3. /\ Attempts(u, own, allow) \in SUBSET Attempt
        /\ \A b \in Attempts(u, own, allow) :
              b.cand \in Candidates(u, own) /\ b.row = activeTickets[b.cand].row
    BY <1>2, AttemptsAreAttempts DEF TypeInv, TypeOK, u
  <1>4. ASSUME NEW a \in Attempts(u, own, allow),
               stateStore' = Connect([stateStore EXCEPT ![u] = "WAITING"], u, a.cand),
               req' = [req EXCEPT ![r] = Checking(u, own, a, Attempts(u, own, allow) \ {a})]
        PROVE  \E b \in Attempt, rest \in SUBSET Attempt :
                 /\ stateStore' = Connect([stateStore EXCEPT ![u] = "WAITING"], u, b.cand)
                 /\ req' = [req EXCEPT ![r] = Checking(u, own, b, rest)]
                 /\ \A c \in rest \cup {b} : /\ c.cand \in Candidates(u, own)
                                             /\ c.row = activeTickets[c.cand].row
    <2> DEFINE others == Attempts(u, own, allow) \ {a}
    <2>1. /\ a \in Attempt /\ others \in SUBSET Attempt
          /\ \A c \in others \cup {a} : /\ c.cand \in Candidates(u, own)
                                        /\ c.row = activeTickets[c.cand].row
          /\ req' = [req EXCEPT ![r] = Checking(u, own, a, others)]
      BY <1>3, <1>4
    <2> HIDE DEF others
    <2> QED BY <1>4, <2>1
  <1> QED BY <1>1, <1>4 DEF own, u

\* A request that is at one of these statements in the next state was there
\* already, unchanged, or has just arrived by the action that leads there.
LEMMA Origins ==
    ASSUME TypeInv, [Next]_vars, NEW r \in Reqs
    PROVE  /\ req'[r].pc = "creating" => req'[r] = req[r] \/ Accept(r)
           /\ req'[r].pc = "saved" => req'[r] = req[r] \/ SaveRow(r)
           /\ req'[r].pc = "found" => req'[r] = req[r] \/ LookUp(r)
           /\ req'[r].pc = "lookup" => req'[r] = req[r] \/ ActivateConnecting(r)
           /\ req'[r].pc = "loaded" => req'[r] = req[r] \/ \E u \in Users : LoadUser(r, u)
           /\ req'[r].pc = "checking" =>
                 \/ /\ req[r].pc = "checking" /\ req'[r].user = req[r].user
                    /\ req'[r].own = req[r].own /\ req'[r].with = req[r].with
                    /\ req'[r].row = req[r].row /\ req'[r].todo = req[r].todo
                    /\ req'[r].ages = req[r].ages \/ ReadAges(r)
                 \/ TryNext(r)
                 \/ StartSearch(r) /\ req[r].pc \in {"loaded", "found"}
  <1> USE DEF TypeInv, TypeOK
  <1> DEFINE Goal == /\ req'[r].pc = "creating" => req'[r] = req[r] \/ Accept(r)
                     /\ req'[r].pc = "saved" => req'[r] = req[r] \/ SaveRow(r)
                     /\ req'[r].pc = "found" => req'[r] = req[r] \/ LookUp(r)
                     /\ req'[r].pc = "lookup" => req'[r] = req[r] \/ ActivateConnecting(r)
                     /\ req'[r].pc = "loaded" => req'[r] = req[r] \/ \E u \in Users : LoadUser(r, u)
                     /\ req'[r].pc = "checking" =>
                           \/ /\ req[r].pc = "checking" /\ req'[r].user = req[r].user
                              /\ req'[r].own = req[r].own /\ req'[r].with = req[r].with
                              /\ req'[r].row = req[r].row /\ req'[r].todo = req[r].todo
                              /\ req'[r].ages = req[r].ages \/ ReadAges(r)
                           \/ TryNext(r)
                           \/ StartSearch(r) /\ req[r].pc \in {"loaded", "found"}
  <1> SUFFICES Goal
    OBVIOUS
  <1>1. ASSUME req'[r] = req[r] PROVE Goal
    BY <1>1
  <1>2. ASSUME NEW s \in Reqs, ActivateIdle(s) \/ ResetStale(s) PROVE Goal
    <2>0. StartSearch(s) /\ req[s].pc \in {"loaded", "found"}
      BY <1>2 DEF ActivateIdle, ResetStale
    <2>1. CASE s = r
      <3>1. req'[r].pc \in {"free", "checking"}
        <4>1. CASE req' = [req EXCEPT ![r] = Free]
          BY <4>1 DEF Free
        <4>2. ASSUME NEW a, NEW rest,
                     req' = [req EXCEPT ![r] = Checking(req[r].user, req[r].own, a, rest)]
              PROVE  req'[r].pc \in {"free", "checking"}
          BY <4>2 DEF Checking, Free
        <4>3. req[r].user \in Users /\ StartSearch(r)
          BY <2>0, <2>1 DEF RequestsName
        <4> HIDE DEF TypeInv, TypeOK, Goal
        <4> QED BY <4>1, <4>2, <4>3, SearchBegins
      <3> QED BY <2>0, <2>1, <3>1
    <2>2. CASE s # r
      <3>1. req'[r] = req[r]
        BY <2>0, <2>2 DEF StartSearch
      <3> QED BY <1>1, <3>1
    <2> QED BY <2>1, <2>2
  <1>3. ASSUME NEW s \in Reqs, Continue(s) PROVE Goal
    <2>1. CASE s # r
      <3>1. req'[r] = req[r]
        <4>1. CASE LookUp(s)
          BY <2>1, <4>1 DEF LookUp
        <4>2. CASE ResetStale(s) \/ ActivateIdle(s)
          BY <2>1, <4>2 DEF ResetStale, ActivateIdle, StartSearch
        <4>3. CASE ReadAges(s) \/ ReadDeclined(s) \/ ReadPrevious(s) \/ SaveRow(s)
          BY <2>1, <4>3 DEF ReadAges, ReadDeclined, ReadPrevious, SaveRow
        <4>4. CASE TryNext(s) \/ GiveUp(s) \/ Accept(s)
          BY <2>1, <4>4 DEF TryNext, GiveUp, Accept
        <4>5. CASE AnswerExisting(s) \/ NotifyMatch(s) \/ DeclineFinish(s)
          BY <2>1, <4>5 DEF AnswerExisting, NotifyMatch, DeclineFinish
        <4>6. CASE AnswerBusy(s) \/ ActivateConnecting(s)
          BY <2>1, <4>6 DEF AnswerBusy, ActivateConnecting
        <4> QED BY <1>3, <4>1, <4>2, <4>3, <4>4, <4>5, <4>6 DEF Continue
      <3> QED BY <1>1, <3>1
    <2>2. CASE s = r
      <3>1. CASE LookUp(r)
        <4>1. req'[r].pc = "found"
          BY <3>1, LookUpAnswer
        <4> QED BY <3>1, <4>1
      <3>2. CASE ResetStale(r) \/ ActivateIdle(r)
        BY <1>2, <3>2
      <3>3. CASE ReadDeclined(r) \/ ReadPrevious(r)
        <4>1. /\ req[r].pc = "checking" /\ req'[r].pc = "checking"
              /\ req'[r].user = req[r].user
              /\ req'[r].own = req[r].own /\ req'[r].with = req[r].with
              /\ req'[r].row = req[r].row /\ req'[r].todo = req[r].todo
              /\ req'[r].ages = req[r].ages
          BY <3>3 DEF ReadDeclined, ReadPrevious, Request
        <4> QED BY <4>1
      <3>8. CASE ReadAges(r)
        <4>1. PICK b : req' = [req EXCEPT ![r].ages = YesNo(b)]
          BY <3>8 DEF ReadAges
        <4>2. /\ req[r].pc = "checking" /\ req'[r].pc = "checking"
              /\ req'[r].user = req[r].user
              /\ req'[r].own = req[r].own /\ req'[r].with = req[r].with
              /\ req'[r].row = req[r].row /\ req'[r].todo = req[r].todo
          BY <3>8, <4>1 DEF ReadAges, Request
        <4> QED BY <3>8, <4>2
      <3>4. CASE TryNext(r)
        <4>1. req'[r].pc = "checking"
          BY <3>4 DEF TryNext, Checking, Free
        <4> QED BY <3>4, <4>1
      <3>5. CASE Accept(r)
        <4>1. req'[r].pc = "creating"
          BY <3>5 DEF Accept, Free
        <4> QED BY <3>5, <4>1
      <3>6. CASE SaveRow(r)
        <4>1. req'[r].pc = "saved"
          BY <3>6 DEF SaveRow, Request
        <4> QED BY <3>6, <4>1
      <3>7. CASE AnswerExisting(r) \/ NotifyMatch(r) \/ DeclineFinish(r) \/ GiveUp(r) \/ AnswerBusy(r)
        BY <3>7 DEF AnswerExisting, NotifyMatch, DeclineFinish, GiveUp, AnswerBusy, Free
      <3>9. CASE ActivateConnecting(r)
        <4>1. req'[r].pc = "lookup"
          BY <3>9 DEF ActivateConnecting, Request
        <4> QED BY <3>9, <4>1
      <3> QED BY <1>3, <2>2, <3>1, <3>2, <3>3, <3>4, <3>5, <3>6, <3>7, <3>8, <3>9 DEF Continue
    <2> QED BY <2>1, <2>2
  <1>4. ASSUME NEW u \in Users, UserCall(u) PROVE Goal
    <2>1. CASE LeaveRoom(u) \/ DeactivateCall(u) \/ UpdateProfile(u)
      BY <1>1, <2>1 DEF LeaveRoom, DeactivateCall, UpdateProfile
    <2>2. ASSUME NEW s \in Reqs, LoadUser(s, u) PROVE Goal
      <3>1. CASE s = r
        <4>1. req'[r].pc = "loaded"
          BY <2>2, <3>1 DEF LoadUser, Free
        <4> QED BY <2>2, <3>1, <4>1
      <3>2. CASE s # r
        <4>1. req'[r] = req[r]
          BY <2>2, <3>2 DEF LoadUser
        <4> QED BY <1>1, <4>1
      <3> QED BY <3>1, <3>2
    <2>3. ASSUME NEW s \in Reqs, DeclineUpdate(s, u) PROVE Goal
      <3>1. req'[s].pc = "declining"
        BY <2>3 DEF DeclineUpdate, Free
      <3>2. s # r => req'[r] = req[r]
        BY <2>3 DEF DeclineUpdate
      <3> QED BY <1>1, <3>1, <3>2
    <2> QED BY <1>4, <2>1, <2>2, <2>3 DEF UserCall
  <1>5. CASE Environment
    <2>1. CASE SetRoomOutcome \/ \E u \in Users : TicketAges(u)
      BY <1>1, <2>1 DEF SetRoomOutcome, TicketAges
    <2>2. CASE Restart \/ \E s \in Reqs : DatabaseError(s)
      BY <1>1, <2>2 DEF Restart, DatabaseError, Free
    <2> QED BY <1>5, <2>1, <2>2 DEF Environment
  <1>6. CASE UNCHANGED vars
    BY <1>1, <1>6 DEF vars
  <1> HIDE DEF Goal, TypeInv, TypeOK
  <1> QED BY <1>3, <1>4, <1>5, <1>6 DEF Next

\* A request does one thing to the table: it saves its row.
LEMMA RequestHistory ==
    ASSUME NEW r \in Reqs, Continue(r) \/ DatabaseError(r)
    PROVE  UNCHANGED matchHistory \/ SaveRow(r)
  <1>1. LookUp(r) \/ AnswerExisting(r) \/ ResetStale(r) => UNCHANGED matchHistory
    BY DEF LookUp, AnswerExisting, ResetStale, StartSearch
  <1>4. AnswerBusy(r) \/ ActivateIdle(r) \/ ActivateConnecting(r) => UNCHANGED matchHistory
    BY DEF AnswerBusy, ActivateIdle, ActivateConnecting, StartSearch
  <1>2. ReadAges(r) \/ ReadDeclined(r) \/ ReadPrevious(r) \/ TryNext(r) \/ GiveUp(r)
           => UNCHANGED matchHistory
    BY DEF ReadAges, ReadDeclined, ReadPrevious, TryNext, GiveUp
  <1>3. Accept(r) \/ NotifyMatch(r) \/ DeclineFinish(r) \/ DatabaseError(r) => UNCHANGED matchHistory
    BY DEF Accept, NotifyMatch, DeclineFinish, DatabaseError
  <1> QED BY <1>1, <1>2, <1>3, <1>4 DEF Continue

\* Of what users call, only a decline writes to the table.
LEMMA UserHistory ==
    ASSUME NEW u \in Users, UserCall(u) \/ TicketAges(u)
    PROVE  \/ UNCHANGED matchHistory
           \/ \E room \in Rooms : SetOutcome(room, {"default"}, "declined")
  <1>1. LeaveRoom(u) \/ DeactivateCall(u) \/ UpdateProfile(u) \/ TicketAges(u)
           => UNCHANGED matchHistory
    BY DEF LeaveRoom, DeactivateCall, UpdateProfile, TicketAges
  <1>2. ASSUME NEW r \in Reqs, LoadUser(r, u)
        PROVE  UNCHANGED matchHistory
    BY <1>2 DEF LoadUser
  <1>3. ASSUME NEW r \in Reqs, DeclineUpdate(r, u)
        PROVE  \E room \in Rooms : SetOutcome(room, {"default"}, "declined")
    BY <1>3 DEF DeclineUpdate
  <1> QED BY <1>1, <1>2, <1>3 DEF UserCall

\* Only three things happen to the table: nothing, an update of outcomes, a new row.
LEMMA HistorySteps ==
    ASSUME [Next]_vars
    PROVE  \/ UNCHANGED matchHistory
           \/ \E room : \/ SetOutcome(room, {"default"}, "declined")
                        \/ SetOutcome(room, Outcome, "matched")
           \/ \E r \in Reqs : SaveRow(r)
  <1>1. SetRoomOutcome => \E room : SetOutcome(room, Outcome, "matched")
    BY DEF SetRoomOutcome
  <1>2. Restart \/ UNCHANGED vars => UNCHANGED matchHistory
    BY DEF Restart, vars
  <1> QED BY <1>1, <1>2, RequestHistory, UserHistory DEF Next, Environment

\* A row stays at its place and keeps its users and its room; a row that was not
\* there is the one a request has just saved.
LEMMA RowsStay ==
    ASSUME TypeInv, [Next]_vars
    PROVE  /\ \A i \in RowIds : /\ i \in RowIds'
                                /\ matchHistory'[i].userA = matchHistory[i].userA
                                /\ matchHistory'[i].userB = matchHistory[i].userB
                                /\ matchHistory'[i].roomId = matchHistory[i].roomId
           /\ \A i \in RowIds' : i \in RowIds \/ \E r \in Reqs :
                   /\ SaveRow(r)
                   /\ i = Len(matchHistory) + 1
                   /\ matchHistory'[i].userA = req[r].user
                   /\ matchHistory'[i].userB = req[r].with
                   /\ matchHistory'[i].roomId = req[r].room
  <1>1. matchHistory \in Seq(Row) /\ Len(matchHistory) \in Nat
    BY DEF TypeInv, TypeOK
  <1>2. CASE UNCHANGED matchHistory
    BY <1>2 DEF RowIds
  <1>3. ASSUME NEW room, NEW from, NEW to \in Outcome, SetOutcome(room, from, to)
        PROVE  /\ \A i \in RowIds : /\ i \in RowIds'
                                    /\ matchHistory'[i].userA = matchHistory[i].userA
                                    /\ matchHistory'[i].userB = matchHistory[i].userB
                                    /\ matchHistory'[i].roomId = matchHistory[i].roomId
               /\ \A i \in RowIds' : i \in RowIds
    BY <1>1, <1>3, OutcomeKeepsRows DEF RowIds
  <1>4. ASSUME NEW r \in Reqs, SaveRow(r)
        PROVE  /\ \A i \in RowIds : i \in RowIds' /\ matchHistory'[i] = matchHistory[i]
               /\ \A i \in RowIds' : i \in RowIds \/
                   /\ i = Len(matchHistory) + 1
                   /\ matchHistory'[i].userA = req[r].user
                   /\ matchHistory'[i].userB = req[r].with
                   /\ matchHistory'[i].roomId = req[r].room
    <2> DEFINE row == [userA |-> req[r].user, userB |-> req[r].with,
                       roomId |-> req[r].room, outcome |-> "default"]
    <2>1. matchHistory' = Append(matchHistory, row)
      BY <1>4 DEF SaveRow
    <2>2. /\ Len(matchHistory') = Len(matchHistory) + 1
          /\ \A i \in 1..Len(matchHistory) : matchHistory'[i] = matchHistory[i]
          /\ matchHistory'[Len(matchHistory) + 1] = row
      BY <1>1, <2>1
    <2> QED BY <1>1, <2>2 DEF RowIds
  <1>5. {"declined", "matched"} \subseteq Outcome
    BY DEF Outcome
  <1> QED BY <1>2, <1>3, <1>4, <1>5, HistorySteps

\* Clients are told of rooms by two statements only.
LEMMA SentSteps ==
    ASSUME [Next]_vars
    PROVE  UNCHANGED sent \/ \E r \in Reqs : AnswerExisting(r) \/ NotifyMatch(r)
  <1> DEFINE Goal == UNCHANGED sent \/ \E r \in Reqs : AnswerExisting(r) \/ NotifyMatch(r)
  <1> SUFFICES Goal
    OBVIOUS
  <1>1. ASSUME NEW r \in Reqs, Continue(r) PROVE Goal
    <2>1. LookUp(r) \/ ResetStale(r) \/ ReadAges(r) \/ ReadDeclined(r) \/ ReadPrevious(r)
             => UNCHANGED sent
      BY DEF LookUp, ResetStale, StartSearch, ReadAges, ReadDeclined, ReadPrevious
    <2>3. AnswerBusy(r) \/ ActivateIdle(r) \/ ActivateConnecting(r) => UNCHANGED sent
      BY DEF AnswerBusy, ActivateIdle, StartSearch, ActivateConnecting
    <2>2. TryNext(r) \/ GiveUp(r) \/ Accept(r) \/ SaveRow(r) \/ DeclineFinish(r) => UNCHANGED sent
      BY DEF TryNext, GiveUp, Accept, SaveRow, DeclineFinish
    <2> QED BY <1>1, <2>1, <2>2, <2>3 DEF Continue
  <1>2. ASSUME NEW u \in Users, UserCall(u) PROVE Goal
    BY <1>2 DEF UserCall, LeaveRoom, DeactivateCall, UpdateProfile, LoadUser, DeclineUpdate
  <1>3. CASE Environment
    BY <1>3 DEF Environment, SetRoomOutcome, TicketAges, DatabaseError, Restart
  <1>4. CASE UNCHANGED vars
    BY <1>4 DEF vars
  <1> HIDE DEF Goal
  <1> QED BY <1>1, <1>2, <1>3, <1>4 DEF Next

-------------------------------------------------------------------------------
(* The ledger: who is told of a room, and whom a row joins *)

\* The initial state satisfies the inductive invariant.
LEMMA LedgerInit == Init => LedgerInv
  <1> SUFFICES ASSUME Init PROVE LedgerInv
    OBVIOUS
  <1>1. TypeOK /\ RequestsName
    BY TypeInit DEF TypeInv
  <1>2. RowIds = {} /\ sent = {} /\ \A r \in Reqs : req[r].pc = "free"
    BY DEF Init, RowIds, Free
  <1>3. \A u \in Users : activeTickets[u] = Null /\ LastRow(u) = 1
    BY DEF Init, LastRow
  <1> QED BY <1>1, <1>2, <1>3 DEF LedgerInv, ToldIsSaved, NotifiedRoomsExist, RoomsUnique,
                                  TicketsSound, SearchesSound, PairsSound

\* The rows a notice or a request relies on are there after the step as well.
LEMMA CallStays ==
    ASSUME TypeInv, [Next]_vars, NEW u, NEW v, NEW room,
           \E i \in RowIds : matchHistory[i].roomId = room /\ IsBetween(u, v, matchHistory[i])
    PROVE  \E i \in RowIds' : matchHistory'[i].roomId = room /\ IsBetween(u, v, matchHistory'[i])
  <1>1. PICK i \in RowIds : matchHistory[i].roomId = room /\ IsBetween(u, v, matchHistory[i])
    OBVIOUS
  <1>2. /\ i \in RowIds' /\ matchHistory'[i].roomId = room
        /\ IsBetween(u, v, matchHistory'[i])
    BY <1>1, RowsStay DEF IsBetween
  <1> QED BY <1>2

\* A request that will tell of a room has its row after every step.
LEMMA ToldStep == ASSUME LedgerInv, [Next]_vars PROVE ToldIsSaved'
  <1> DEFINE Known(u, v, room) ==
        \E i \in RowIds' : matchHistory'[i].roomId = room /\ IsBetween(u, v, matchHistory'[i])
  <1>1. TypeInv
    BY DEF LedgerInv, TypeInv
  <1> SUFFICES ASSUME NEW r \in Reqs,
                      req'[r].pc = "saved" \/ (req'[r].pc = "found" /\ req'[r].room # Null)
               PROVE  Known(req'[r].user, req'[r].with, req'[r].room)
    BY DEF ToldIsSaved
  <1>2. CASE req'[r] = req[r]
    <2>1. \E i \in RowIds : /\ matchHistory[i].roomId = req[r].room
                            /\ IsBetween(req[r].user, req[r].with, matchHistory[i])
      BY <1>2 DEF LedgerInv, ToldIsSaved
    <2> QED BY <1>1, <1>2, <2>1, CallStays
  <1>3. CASE SaveRow(r)
    <2>1. /\ req'[r].user = req[r].user /\ req'[r].with = req[r].with
          /\ req'[r].room = req[r].room
      BY <1>1, <1>3 DEF SaveRow, TypeInv, TypeOK, Request
    <2> DEFINE row == [userA |-> req[r].user, userB |-> req[r].with,
                       roomId |-> req[r].room, outcome |-> "default"]
    <2>2. matchHistory' = Append(matchHistory, row) /\ matchHistory \in Seq(Row)
      BY <1>1, <1>3 DEF SaveRow, TypeInv, TypeOK
    <2>3. /\ Len(matchHistory) + 1 \in RowIds'
          /\ matchHistory'[Len(matchHistory) + 1] = row
      BY <2>2 DEF RowIds
    <2>4. row.roomId = req[r].room /\ IsBetween(req[r].user, req[r].with, row)
      BY DEF IsBetween
    <2> HIDE DEF row
    <2> QED BY <2>1, <2>3, <2>4
  <1>4. CASE LookUp(r)
    <2>1. req'[r].user = req[r].user /\ req'[r].room # Null
      BY <1>1, <1>4, LookUpAnswer
    <2>2. PICK i \in LiveRows(req[r].user) :
             /\ req'[r].with = PeerOf(req[r].user, matchHistory[i])
             /\ req'[r].room = matchHistory[i].roomId
      BY <1>1, <1>4, <2>1, LookUpAnswer
    <2>3. i \in RowIds /\ IsBetween(req[r].user, req'[r].with, matchHistory[i])
      BY <2>2 DEF LiveRows, IsMember, IsBetween, PeerOf
    <2>4. \E j \in RowIds : /\ matchHistory[j].roomId = req'[r].room
                            /\ IsBetween(req'[r].user, req'[r].with, matchHistory[j])
      BY <2>1, <2>2, <2>3
    <2> QED BY <1>1, <2>4, CallStays
  <1> QED BY <1>1, <1>2, <1>3, <1>4, Origins

\* Nobody is told of a room that is not on record with these two users.
LEMMA NotifiedStep == ASSUME LedgerInv, [Next]_vars PROVE NotifiedRoomsExist'
  <1>1. TypeInv
    BY DEF LedgerInv, TypeInv
  <1> SUFFICES ASSUME NEW n \in sent'
               PROVE  \E i \in RowIds' : /\ matchHistory'[i].roomId = n.room
                                         /\ IsBetween(n.to, n.peer, matchHistory'[i])
    BY DEF NotifiedRoomsExist
  <1>2. \E i \in RowIds : matchHistory[i].roomId = n.room /\ IsBetween(n.to, n.peer, matchHistory[i])
    <2>1. CASE n \in sent
      BY <2>1 DEF LedgerInv, NotifiedRoomsExist
    <2>2. ASSUME NEW r \in Reqs, AnswerExisting(r), n \notin sent
          PROVE  \E i \in RowIds : /\ matchHistory[i].roomId = n.room
                                  /\ IsBetween(n.to, n.peer, matchHistory[i])
      <3>1. /\ n = [to |-> req[r].user, peer |-> req[r].with, room |-> req[r].room]
            /\ req[r].pc = "found" /\ req[r].room # Null
        BY <2>2 DEF AnswerExisting
      <3> QED BY <3>1 DEF LedgerInv, ToldIsSaved
    <2>3. ASSUME NEW r \in Reqs, NotifyMatch(r), n \notin sent
          PROVE  \E i \in RowIds : /\ matchHistory[i].roomId = n.room
                                  /\ IsBetween(n.to, n.peer, matchHistory[i])
      <3>1. /\ n \in {[to |-> req[r].user, peer |-> req[r].with, room |-> req[r].room],
                      [to |-> req[r].with, peer |-> req[r].user, room |-> req[r].room]}
            /\ req[r].pc = "saved"
        BY <2>3 DEF NotifyMatch
      <3>2. PICK i \in RowIds : /\ matchHistory[i].roomId = req[r].room
                               /\ IsBetween(req[r].user, req[r].with, matchHistory[i])
        BY <3>1 DEF LedgerInv, ToldIsSaved
      <3>3. n.room = req[r].room /\ {n.to, n.peer} = {req[r].user, req[r].with}
        BY <3>1
      <3> QED BY <3>2, <3>3 DEF IsBetween
    <2> QED BY <2>1, <2>2, <2>3, SentSteps
  <1> QED BY <1>1, <1>2, CallStays

\* Room ids stay unique among rows and matches in the making.
LEMMA RoomsStep == ASSUME LedgerInv, [Next]_vars PROVE RoomsUnique'
  <1>1. TypeInv /\ RoomsUnique
    BY DEF LedgerInv, TypeInv
  <1>2. ASSUME NEW r \in Reqs, Accept(r)
        PROVE  /\ \A s \in Reqs \ {r} : req'[s] = req[s]
               /\ req'[r].room \notin RoomsUsed
               /\ UNCHANGED matchHistory
    <2>1. PICK room \in Rooms \ RoomsUsed :
            req' = [req EXCEPT ![r] = [Free EXCEPT !.pc = "creating",
                      !.user = req[r].user, !.with = req[r].with, !.room = room]]
      BY <1>2 DEF Accept
    <2>2. req'[r].room = room
      BY <1>1, <2>1 DEF Free, TypeInv, TypeOK
    <2> QED BY <1>2, <2>1, <2>2 DEF Accept
  <1>3. ASSUME NEW r \in Reqs, SaveRow(r)
        PROVE  /\ req[r].pc = "creating" /\ req'[r].pc = "saved"
               /\ \A s \in Reqs \ {r} : req'[s] = req[s]
    BY <1>1, <1>3 DEF SaveRow, TypeInv, TypeOK, Request
  <1>4. ASSUME NEW i \in RowIds', NEW j \in RowIds',
               matchHistory'[i].roomId = matchHistory'[j].roomId
        PROVE  i = j
    <2>1. CASE i \in RowIds /\ j \in RowIds
      BY <1>1, <1>4, <2>1, RowsStay DEF RoomsUnique
    <2>2. ASSUME NEW k \in RowIds, NEW l \in RowIds', l \notin RowIds
          PROVE  matchHistory'[k].roomId # matchHistory'[l].roomId
      <3>1. PICK r \in Reqs : SaveRow(r) /\ matchHistory'[l].roomId = req[r].room
        BY <1>1, <2>2, RowsStay
      <3>2. matchHistory'[k].roomId = matchHistory[k].roomId
        BY <1>1, RowsStay
      <3> QED BY <1>1, <1>3, <3>1, <3>2 DEF RoomsUnique
    <2>3. CASE i \notin RowIds /\ j \notin RowIds
      BY <1>1, <2>3, RowsStay
    <2> QED BY <1>4, <2>1, <2>2, <2>3
  <1>5. ASSUME NEW r \in Reqs, NEW i \in RowIds', req'[r].pc = "creating"
        PROVE  matchHistory'[i].roomId # req'[r].room
    <2>1. CASE Accept(r)
      <3>1. i \in RowIds /\ matchHistory'[i].roomId = matchHistory[i].roomId
        BY <1>2, <2>1 DEF RowIds
      <3>2. matchHistory[i].roomId \in RoomsUsed
        BY <3>1 DEF RoomsUsed
      <3> QED BY <1>2, <2>1, <3>1, <3>2
    <2>2. CASE req'[r] = req[r] /\ i \in RowIds
      BY <1>1, <1>5, <2>2, RowsStay DEF RoomsUnique
    <2>3. CASE req'[r] = req[r] /\ i \notin RowIds
      <3>1. PICK s \in Reqs : SaveRow(s) /\ matchHistory'[i].roomId = req[s].room
        BY <1>1, <2>3, RowsStay
      <3>2. r # s
        BY <1>3, <1>5, <3>1
      <3> QED BY <1>1, <1>3, <1>5, <2>3, <3>1, <3>2 DEF RoomsUnique
    <2> QED BY <1>1, <1>5, <2>1, <2>2, <2>3, Origins
  <1>6. ASSUME NEW r \in Reqs, NEW s \in Reqs, r # s,
               req'[r].pc = "creating", req'[s].pc = "creating"
        PROVE  req'[r].room # req'[s].room
    <2>1. ASSUME NEW x \in Reqs, NEW y \in Reqs, x # y, Accept(x)
          PROVE  req'[x].room # req'[y].room
      <3>1. req'[y] = req[y] /\ req[y].room \in RoomsUsed
        BY <1>2, <2>1 DEF RoomsUsed
      <3> QED BY <1>2, <2>1, <3>1
    <2>2. CASE req'[r] = req[r] /\ req'[s] = req[s]
      BY <1>1, <1>6, <2>2 DEF RoomsUnique
    <2> QED BY <1>1, <1>6, <2>1, <2>2, Origins
  <1> QED BY <1>4, <1>5, <1>6 DEF RoomsUnique

\* Rows are only ever added: what was read of a row by its number stays as it was.
LEMMA RowsGrow ==
    ASSUME TypeInv, [Next]_vars, NEW u \in Users
    PROVE  /\ LastRow(u) \in Nat /\ LastRow(u)' \in Nat
           /\ LastRow(u) <= LastRow(u)'
           /\ \A n \in 1..LastRow(u) : n \in 1..LastRow(u)' /\ userRows'[u][n] = userRows[u][n]
  <1>1. userRows \in [Users -> Seq(Profiles)]
    BY DEF TypeInv, TypeOK
  <1>2. LastRow(u) \in Nat
    BY <1>1 DEF LastRow
  <1>3. CASE UNCHANGED userRows
    BY <1>2, <1>3 DEF LastRow
  <1>4. ASSUME NEW v \in Users, UpdateProfile(v)
        PROVE  /\ LastRow(u)' \in Nat /\ LastRow(u) <= LastRow(u)'
               /\ \A n \in 1..LastRow(u) : userRows'[u][n] = userRows[u][n]
    BY <1>1, <1>4, EditKeepsRows
  <1>5. \A r \in Reqs : Continue(r) => UNCHANGED userRows
    BY DEF Continue, AnswerBusy, ActivateIdle, ActivateConnecting, LookUp, AnswerExisting,
           ResetStale, StartSearch, ReadAges, ReadDeclined, ReadPrevious, TryNext, GiveUp,
           Accept, SaveRow, NotifyMatch, DeclineFinish, ToIdle
  <1>6. \A v \in Users : UserCall(v) => UNCHANGED userRows \/ UpdateProfile(v)
    BY DEF UserCall, LeaveRoom, DeactivateCall, LoadUser, DeclineUpdate
  <1>7. Environment \/ UNCHANGED vars => UNCHANGED userRows
    BY DEF Environment, SetRoomOutcome, TicketAges, DatabaseError, Restart, vars
  <1>8. UNCHANGED userRows \/ \E v \in Users : UpdateProfile(v)
    BY <1>5, <1>6, <1>7 DEF Next
  <1> QED BY <1>2, <1>3, <1>4, <1>8

\* Ages that fitted go on fitting: the preferences are those of a row that stays.
LEMMA AgesStay ==
    ASSUME TypeInv, [Next]_vars, NEW u \in Users, NEW v \in Users,
           NEW a \in 1..LastRow(u), NEW b \in 1..LastRow(v), AgesFit(u, a, v, b)
    PROVE  AgesFit(u, a, v, b)'
  <1>1. PICK later \in a..LastRow(u), after \in b..LastRow(v) :
          IsAgeCompatible(userRows[u][a], userRows[v][b], userRows[u][later], userRows[v][after])
    BY DEF AgesFit
  <1>2. /\ later \in 1..LastRow(u) /\ after \in 1..LastRow(v)
        /\ later \in a..LastRow(u)' /\ after \in b..LastRow(v)'
    BY RowsGrow
  <1>3. /\ userRows'[u][a] = userRows[u][a] /\ userRows'[v][b] = userRows[v][b]
        /\ userRows'[u][later] = userRows[u][later]
        /\ userRows'[v][after] = userRows[v][after]
    BY <1>2, RowsGrow
  <1> QED BY <1>1, <1>2, <1>3 DEF AgesFit

\* Two users whom a search found to suit stay a pair it found to suit.
LEMMA SuitedStays ==
    ASSUME TypeInv, [Next]_vars, NEW u \in Users, NEW v \in Users, Suited(u, v)
    PROVE  Suited(u, v)'
  <1>1. u # v /\ ~IsBlocked(u, v)
    BY DEF Suited
  <1>2. PICK a \in 1..LastRow(u), b \in 1..LastRow(v) :
          IsGenderCompatible(userRows[u][a], userRows[v][b]) /\ AgesFit(u, a, v, b)
    BY DEF Suited
  <1>3. /\ a \in 1..LastRow(u)' /\ b \in 1..LastRow(v)'
        /\ userRows'[u][a] = userRows[u][a] /\ userRows'[v][b] = userRows[v][b]
    BY RowsGrow
  <1>4. AgesFit(u, a, v, b)'
    BY <1>2, AgesStay
  <1>5. IsBlocked(u, v)' = IsBlocked(u, v)
    BY DEF IsBlocked
  <1> QED BY <1>1, <1>2, <1>3, <1>4, <1>5 DEF Suited

\* The rows that tickets and requests know stay known.
LEMMA TicketRowsStep == ASSUME LedgerInv, [Next]_vars PROVE TicketsSound'
  <1>1. TypeInv /\ TypeInv' /\ TicketsSound
    BY TypeStep DEF LedgerInv, TypeInv
  <1>2. ASSUME NEW r \in Reqs, req'[r].pc \in {"loaded", "lookup", "found", "checking"}
        PROVE  req'[r].own \in 1..LastRow(req[r].user)'
    <2>1. ASSUME req'[r].user = req[r].user, req'[r].own = req[r].own, req[r].user \in Users,
                 req[r].pc \in {"loaded", "lookup", "found", "checking"}
          PROVE  req'[r].own \in 1..LastRow(req[r].user)'
      BY <1>1, <2>1, RowsGrow DEF TicketsSound
    <2>2. req'[r] = req[r] => req'[r].own \in 1..LastRow(req[r].user)'
      BY <1>1, <1>2, <2>1 DEF TypeInv, RequestsName
    <2>3. ASSUME LookUp(r) PROVE req'[r].own \in 1..LastRow(req[r].user)'
      <3>1. req'[r].user = req[r].user /\ req'[r].own = req[r].own
        BY <1>1, <2>3, LookUpAnswer
      <3> QED BY <1>1, <2>1, <2>3, <3>1 DEF LookUp, TypeInv, RequestsName
    <2>4. ASSUME ActivateConnecting(r) PROVE req'[r].own \in 1..LastRow(req[r].user)'
      <3>1. req'[r].user = req[r].user /\ req'[r].own = req[r].own
        BY <1>1, <2>4 DEF ActivateConnecting, TypeInv, TypeOK, Request
      <3> QED BY <1>1, <2>1, <2>4, <3>1 DEF ActivateConnecting, TypeInv, RequestsName
    <2>5. ASSUME NEW u \in Users, LoadUser(r, u) PROVE req'[r].own \in 1..LastRow(req[r].user)'
      <3>1. req'[r].user = u /\ req'[r].own = LastRow(u) /\ LastRow(u)' = LastRow(u)
        BY <1>1, <2>5 DEF LoadUser, Free, LastRow, TypeInv, TypeOK
      <3>2. LastRow(u) \in 1..LastRow(u)
        <4>1. LastRow(u) \in Nat /\ LastRow(u) # 0
          BY <1>1, RowsGrow DEF TicketsSound
        <4> QED BY <4>1
      <3> QED BY <3>1, <3>2
    <2>6. ASSUME TryNext(r) PROVE req'[r].own \in 1..LastRow(req[r].user)'
      <3>1. PICK a \in req[r].todo :
              req' = [req EXCEPT ![r] = Checking(req[r].user, req[r].own, a, req[r].todo \ {a})]
        BY <2>6 DEF TryNext, NextAttempts
      <3>2. req'[r].user = req[r].user /\ req'[r].own = req[r].own
        BY <1>1, <3>1 DEF Checking, Free, TypeInv, TypeOK
      <3> QED BY <1>1, <2>1, <2>6, <3>2 DEF TryNext, Answered, TypeInv, RequestsName
    <2>7. ASSUME StartSearch(r), req[r].pc \in {"loaded", "found"}, req'[r].pc = "checking"
          PROVE  req'[r].own \in 1..LastRow(req[r].user)'
      <3>1. req[r].user \in Users
        BY <1>1, <2>7 DEF TypeInv, RequestsName
      <3>2. req' # [req EXCEPT ![r] = Free]
        BY <1>1, <2>7 DEF Free, TypeInv, TypeOK
      <3>3. PICK a \in Attempt, rest \in SUBSET Attempt :
              req' = [req EXCEPT ![r] = Checking(req[r].user, req[r].own, a, rest)]
        BY <1>1, <2>7, <3>1, <3>2, SearchBegins
      <3>4. req'[r].user = req[r].user /\ req'[r].own = req[r].own
        BY <1>1, <3>3 DEF Checking, Free, TypeInv, TypeOK
      <3> QED BY <1>1, <2>1, <2>7, <3>1, <3>4
    <2> QED BY <1>1, <1>2, <2>1, <2>2, <2>3, <2>4, <2>5, <2>6, <2>7, Origins
            DEF TypeInv, RequestsName
  <1>3. ASSUME NEW u \in Users, activeTickets'[u] # Null
        PROVE  activeTickets'[u].row \in 1..LastRow(u)'
    <2>1. CASE activeTickets[u] # Null /\ activeTickets'[u].row = activeTickets[u].row
      BY <1>1, <2>1, RowsGrow DEF TicketsSound
    <2>2. ASSUME NEW r \in Reqs, StartSearch(r), req[r].pc \in {"loaded", "found"}
          PROVE  activeTickets'[u].row \in 1..LastRow(u)'
      <3>1. CASE u = req[r].user
        <4>1. activeTickets'[u].row = req[r].own
          BY <1>1, <2>2, <3>1 DEF StartSearch, TypeInv, TypeOK
        <4> QED BY <1>1, <2>2, <3>1, <4>1, RowsGrow DEF TicketsSound
      <3>2. CASE u # req[r].user
        <4>1. activeTickets'[u] = activeTickets[u]
          BY <1>1, <2>2, <3>2 DEF StartSearch, TypeInv, TypeOK
        <4> QED BY <1>3, <2>1, <4>1
      <3> QED BY <3>1, <3>2
    <2>3. ASSUME NEW r \in Reqs, Continue(r) PROVE activeTickets'[u].row \in 1..LastRow(u)'
      <3>1. CASE ActivateIdle(r) \/ ResetStale(r)
        BY <2>2, <3>1 DEF ActivateIdle, ResetStale
      <3>2. CASE Accept(r) \/ DeclineFinish(r)
        <4>1. activeTickets'[u] = activeTickets[u]
          BY <1>1, <1>3, <3>2 DEF Accept, DeclineFinish, ToIdle, TypeInv, TypeOK
        <4> QED BY <1>3, <2>1, <4>1
      <3>3. CASE UNCHANGED activeTickets
        BY <1>3, <2>1, <3>3
      <3>4. ActivateIdle(r) \/ ResetStale(r) \/ Accept(r) \/ DeclineFinish(r) \/ UNCHANGED activeTickets
        BY <2>3 DEF Continue, AnswerBusy, ActivateConnecting, LookUp, AnswerExisting, ReadAges,
                    ReadDeclined, ReadPrevious, TryNext, GiveUp, SaveRow, NotifyMatch
      <3> QED BY <3>1, <3>2, <3>3, <3>4
    <2>4. ASSUME NEW v \in Users, UserCall(v) PROVE activeTickets'[u].row \in 1..LastRow(u)'
      <3>1. CASE LeaveRoom(v) \/ DeactivateCall(v)
        <4>1. activeTickets'[u] = activeTickets[u]
          BY <1>1, <1>3, <3>1 DEF LeaveRoom, DeactivateCall, ToIdle, TypeInv, TypeOK
        <4> QED BY <1>3, <2>1, <4>1
      <3>2. CASE UNCHANGED activeTickets
        BY <1>3, <2>1, <3>2
      <3> QED BY <2>4, <3>1, <3>2 DEF UserCall, UpdateProfile, LoadUser, DeclineUpdate
    <2>5. ASSUME NEW v \in Users, TicketAges(v) PROVE activeTickets'[u].row \in 1..LastRow(u)'
      <3>1. activeTickets[u] # Null /\ activeTickets'[u].row = activeTickets[u].row
        BY <1>1, <1>3, <2>5 DEF TicketAges, TypeInv, TypeOK, Ticket
      <3> QED BY <2>1, <3>1
    <2>6. CASE Environment \/ UNCHANGED vars
      <3>1. CASE Restart
        BY <1>3, <3>1 DEF Restart
      <3>2. CASE UNCHANGED activeTickets
        BY <1>3, <2>1, <3>2
      <3> QED BY <2>5, <2>6, <3>1, <3>2 DEF Environment, SetRoomOutcome, DatabaseError, vars
    <2> QED BY <2>3, <2>4, <2>6 DEF Next
  <1>4. \A u \in Users : LastRow(u)' # 0
    BY <1>1, RowsGrow DEF TicketsSound
  <1> QED BY <1>2, <1>3, <1>4 DEF TicketsSound

\* A candidate that passed the gender filter goes on passing it, by the same two rows.
LEMMA FitsStays ==
    ASSUME TypeInv, TicketsSound, [Next]_vars, NEW r \in Reqs, req[r].user \in Users,
           req[r].pc = "checking", req'[r].user = req[r].user, req'[r].own = req[r].own,
           NEW c \in Users, NEW row, Fits(r, c, row)
    PROVE  Fits(r, c, row)'
  <1>1. /\ req[r].own \in 1..LastRow(req[r].user) /\ row \in 1..LastRow(c)
        /\ c # req[r].user
        /\ IsGenderCompatible(userRows[req[r].user][req[r].own], userRows[c][row])
    BY DEF TicketsSound, Fits
  <1>2. /\ row \in 1..LastRow(c)' /\ userRows'[c][row] = userRows[c][row]
        /\ userRows'[req[r].user][req[r].own] = userRows[req[r].user][req[r].own]
    BY <1>1, RowsGrow
  <1> QED BY <1>1, <1>2 DEF Fits

\* A running search only holds and only keeps candidates that passed the gender
\* filter; a match in the making has passed all checks.
LEMMA SearchStep == ASSUME LedgerInv, [Next]_vars PROVE SearchesSound'
  <1>1. TypeInv /\ TicketsSound /\ SearchesSound
    BY DEF LedgerInv, TypeInv
  <1>2. ASSUME NEW r \in Reqs, req'[r].pc = "checking"
        PROVE  /\ Fits(r, req[r].with, req[r].row)'
               /\ \A a \in req'[r].todo : Fits(r, a.cand, a.row)'
               /\ req'[r].ages = "yes"
                     => AgesFit(req[r].user, req[r].own, req[r].with, req[r].row)'
    <2>1. CASE /\ req[r].pc = "checking" /\ req'[r].user = req[r].user
               /\ req'[r].own = req[r].own /\ req'[r].with = req[r].with
               /\ req'[r].row = req[r].row /\ req'[r].todo = req[r].todo
               /\ req'[r].ages = req[r].ages \/ ReadAges(r)
      <3>1. /\ req[r].user \in Users /\ req[r].with \in Users
            /\ req[r].todo \in SUBSET Attempt
        BY <1>1, <2>1 DEF TypeInv, TypeOK, RequestsName, Request
      <3>2. /\ Fits(r, req[r].with, req[r].row)
            /\ \A a \in req[r].todo : Fits(r, a.cand, a.row)
            /\ req[r].own \in 1..LastRow(req[r].user) /\ req[r].row \in 1..LastRow(req[r].with)
        BY <1>1, <2>1 DEF SearchesSound, TicketsSound, Fits
      <3>3. Fits(r, req[r].with, req[r].row)'
        <4>1. \A c \in Users : \A row : Fits(r, c, row) => Fits(r, c, row)'
          BY <1>1, <2>1, <3>1, FitsStays
        <4>2. \A c, row : c = req'[r].with /\ row = req'[r].row /\ Fits(r, c, row)'
                             => Fits(r, req[r].with, req[r].row)'
          BY DEF Fits
        <4> QED BY <2>1, <3>1, <3>2, <4>1, <4>2
      <3>4. \A a \in req'[r].todo : Fits(r, a.cand, a.row)'
        <4>1. ASSUME NEW a \in req[r].todo PROVE a.cand \in Users /\ Fits(r, a.cand, a.row)
          BY <3>1, <3>2 DEF Attempt
        <4>2. ASSUME NEW a \in req[r].todo PROVE Fits(r, a.cand, a.row)'
          BY <1>1, <2>1, <3>1, <4>1, FitsStays
        <4> QED BY <2>1, <4>2
      <3>5. ASSUME req'[r].ages = "yes"
            PROVE  AgesFit(req[r].user, req[r].own, req[r].with, req[r].row)
        <4>1. CASE req'[r].ages = req[r].ages
          BY <1>1, <2>1, <3>5, <4>1 DEF SearchesSound
        <4>2. CASE ReadAges(r)
          <5> DEFINE fit == IsAgeCompatible(userRows[req[r].user][req[r].own],
                                            userRows[req[r].with][req[r].row],
                                            CurrentRow(req[r].user), CurrentRow(req[r].with))
          <5>1. req'[r].ages = YesNo(fit)
            BY <1>1, <4>2 DEF ReadAges, TypeInv, TypeOK, Request
          <5>2. fit
            BY <3>5, <5>1 DEF YesNo
          <5>3. /\ LastRow(req[r].user) \in req[r].own..LastRow(req[r].user)
                /\ LastRow(req[r].with) \in req[r].row..LastRow(req[r].with)
            BY <1>1, <3>1, <3>2, RowsGrow
          <5> QED BY <5>2, <5>3 DEF AgesFit, CurrentRow
        <4> QED BY <2>1, <4>1, <4>2
      <3>6. ASSUME req'[r].ages = "yes"
            PROVE  AgesFit(req[r].user, req[r].own, req[r].with, req[r].row)'
        <4>1. ASSUME NEW u \in Users, NEW v \in Users,
                     NEW a \in 1..LastRow(u), NEW b \in 1..LastRow(v), AgesFit(u, a, v, b)
              PROVE  AgesFit(u, a, v, b)'
          BY <1>1, <4>1, AgesStay
        <4>2. AgesFit(req[r].user, req[r].own, req[r].with, req[r].row)
          BY <3>5, <3>6
        <4>3. \E u \in Users, v \in Users, a \in Int, b \in Int :
                 /\ u = req'[r].user /\ a = req'[r].own /\ v = req'[r].with /\ b = req'[r].row
                 /\ AgesFit(u, a, v, b)'
          BY <2>1, <3>1, <3>2, <4>1, <4>2
        <4> QED BY <4>3 DEF AgesFit, LastRow
      <3> QED BY <3>3, <3>4, <3>6
    <2>2. CASE TryNext(r)
      <3>1. PICK a \in req[r].todo :
              req' = [req EXCEPT ![r] = Checking(req[r].user, req[r].own, a, req[r].todo \ {a})]
        BY <2>2 DEF TryNext, NextAttempts
      <3>2. /\ req[r].pc = "checking" /\ req[r].user \in Users /\ req[r].own \in Nat
            /\ req[r].todo \in SUBSET Attempt
        BY <1>1, <2>2 DEF TryNext, Answered, TypeInv, TypeOK, RequestsName, Request
      <3>3. /\ req'[r].user = req[r].user /\ req'[r].own = req[r].own
            /\ req'[r].with = a.cand /\ req'[r].row = a.row
            /\ req'[r].todo = req[r].todo \ {a} /\ req'[r].ages = "unread"
        <4>1. req \in [Reqs -> Request] /\ a \in Attempt /\ req[r].todo \ {a} \in SUBSET Attempt
          BY <1>1, <3>2 DEF TypeInv, TypeOK
        <4>2. Checking(req[r].user, req[r].own, a, req[r].todo \ {a}) \in Request
          BY <3>2, <4>1, CheckingIsRequest
        <4>3. req'[r] = Checking(req[r].user, req[r].own, a, req[r].todo \ {a})
          BY <3>1, <4>1, <4>2, SlotChange
        <4> QED BY <3>2, <4>1, <4>3, CheckingIsRequest
      <3>4. ASSUME NEW b \in req[r].todo PROVE Fits(r, b.cand, b.row)'
        <4>1. b.cand \in Users /\ Fits(r, b.cand, b.row)
          BY <1>1, <3>2 DEF SearchesSound, Attempt
        <4> QED BY <1>1, <3>2, <3>3, <4>1, FitsStays
      <3>5. Fits(r, req[r].with, req[r].row)'
        <4>1. Fits(r, a.cand, a.row)'
          BY <3>4
        <4> QED BY <3>3, <4>1 DEF Fits
      <3> QED BY <3>3, <3>4, <3>5
    <2>3. CASE StartSearch(r) /\ req[r].pc \in {"loaded", "found"}
      <3>1. req[r].user \in Users
        BY <1>1, <2>3 DEF TypeInv, RequestsName
      <3>2. req' # [req EXCEPT ![r] = Free]
        BY <1>1, <1>2 DEF Free, TypeInv, TypeOK
      <3> DEFINE own == req[r].own
      <3>3. PICK a \in Attempt, rest \in SUBSET Attempt :
               /\ req' = [req EXCEPT ![r] = Checking(req[r].user, own, a, rest)]
               /\ \A b \in rest \cup {a} : /\ b.cand \in Candidates(req[r].user, own)
                                           /\ b.row = activeTickets[b.cand].row
        BY <1>1, <2>3, <3>1, <3>2, SearchBegins
      <3>4. /\ req'[r].user = req[r].user /\ req'[r].own = own
            /\ req'[r].with = a.cand /\ req'[r].row = a.row
            /\ req'[r].todo = rest /\ req'[r].ages = "unread"
        <4>1. req \in [Reqs -> Request] /\ own \in Nat
          BY <1>1 DEF TypeInv, TypeOK, Request
        <4> HIDE DEF own
        <4>2. Checking(req[r].user, own, a, rest) \in Request
          BY <3>1, <4>1, CheckingIsRequest
        <4>3. req'[r] = Checking(req[r].user, own, a, rest)
          BY <3>3, <4>1, <4>2, SlotChange
        <4> QED BY <3>1, <4>1, <4>3, CheckingIsRequest
      <3>5. UNCHANGED userRows
        BY <2>3 DEF StartSearch
      <3>6. ASSUME NEW b \in rest \cup {a} PROVE Fits(r, b.cand, b.row)'
        <4>1. /\ b.cand \in Users /\ b.cand # req[r].user /\ activeTickets[b.cand] # Null
              /\ IsGenderCompatible(userRows[req[r].user][own], userRows[b.cand][b.row])
          BY <3>3 DEF Candidates
        <4>2. b.row \in 1..LastRow(b.cand)
          BY <1>1, <3>3, <4>1 DEF TicketsSound
        <4> QED BY <3>4, <3>5, <4>1, <4>2 DEF Fits, LastRow
      <3>7. Fits(r, req[r].with, req[r].row)'
        <4>1. Fits(r, a.cand, a.row)'
          BY <3>6
        <4> QED BY <3>4, <4>1 DEF Fits
      <3> QED BY <3>4, <3>6, <3>7
    <2> QED BY <1>1, <1>2, <2>1, <2>2, <2>3, Origins
  <1>3. ASSUME NEW r \in Reqs, req'[r].pc = "creating"
        PROVE  Suited(req[r].user, req[r].with)'
    <2>1. /\ req[r].user \in Users /\ req[r].with \in Users
          /\ req'[r].user = req[r].user /\ req'[r].with = req[r].with
          /\ Suited(req[r].user, req[r].with)
      <3>1. CASE req'[r] = req[r]
        BY <1>1, <1>3, <3>1 DEF SearchesSound, TypeInv, RequestsName
      <3>2. CASE Accept(r)
        <4>1. /\ req'[r].user = req[r].user /\ req'[r].with = req[r].with
              /\ req[r].pc = "checking" /\ req[r].ages = "yes"
              /\ req[r].user \in Users /\ req[r].with \in Users
              /\ ~IsBlocked(req[r].user, req[r].with)
          BY <1>1, <3>2 DEF Accept, Answered, Acceptable, Free, TypeInv, TypeOK, RequestsName
        <4>2. /\ Fits(r, req[r].with, req[r].row)
              /\ AgesFit(req[r].user, req[r].own, req[r].with, req[r].row)
              /\ req[r].own \in 1..LastRow(req[r].user)
          BY <1>1, <4>1 DEF SearchesSound, TicketsSound
        <4> QED BY <4>1, <4>2 DEF Fits, Suited
      <3> QED BY <1>1, <1>3, <3>1, <3>2, Origins
    <2>2. \A u \in Users, v \in Users : Suited(u, v) => Suited(u, v)'
      BY <1>1, SuitedStays
    <2> QED BY <2>1, <2>2
  <1> QED BY <1>2, <1>3 DEF SearchesSound

\* Every row joins a suited pair.
LEMMA PairsStep == ASSUME LedgerInv, [Next]_vars PROVE PairsSound'
  <1>1. TypeInv
    BY DEF LedgerInv, TypeInv
  <1> SUFFICES ASSUME NEW i \in RowIds'
               PROVE  Suited(matchHistory[i].userA, matchHistory[i].userB)'
    BY DEF PairsSound
  <1>2. /\ matchHistory'[i].userA \in Users /\ matchHistory'[i].userB \in Users
        /\ Suited(matchHistory'[i].userA, matchHistory'[i].userB)
    <2>1. CASE i \in RowIds
      <3>1. /\ matchHistory[i].userA \in Users /\ matchHistory[i].userB \in Users
            /\ matchHistory'[i].userA = matchHistory[i].userA
            /\ matchHistory'[i].userB = matchHistory[i].userB
        BY <1>1, <2>1, RowsStay, RowFields DEF TypeInv, TypeOK
      <3>2. Suited(matchHistory[i].userA, matchHistory[i].userB)
        BY <2>1 DEF LedgerInv, PairsSound
      <3> QED BY <3>1, <3>2
    <2>2. CASE i \notin RowIds
      <3>1. PICK r \in Reqs : /\ SaveRow(r)
                             /\ matchHistory'[i].userA = req[r].user
                             /\ matchHistory'[i].userB = req[r].with
        BY <1>1, <2>2, RowsStay
      <3>2. /\ req[r].user \in Users /\ req[r].with \in Users
            /\ Suited(req[r].user, req[r].with)
        BY <1>1, <3>1 DEF SaveRow, LedgerInv, SearchesSound, TypeInv, RequestsName
      <3> QED BY <3>1, <3>2
    <2> QED BY <2>1, <2>2
  <1>3. Suited(matchHistory[i].userA, matchHistory[i].userB)'
    <2>1. \A u \in Users, v \in Users : Suited(u, v) => Suited(u, v)'
      BY <1>1, SuitedStays
    <2> QED BY <1>2, <2>1
  <1> QED BY <1>3

\* Every step preserves the inductive invariant of the ledger.
LEMMA LedgerInvStep == LedgerInv /\ [Next]_vars => LedgerInv'
  <1> SUFFICES ASSUME LedgerInv, [Next]_vars PROVE LedgerInv'
    OBVIOUS
  <1>1. TypeInv'
    BY TypeStep DEF LedgerInv, TypeInv
  <1> QED BY <1>1, ToldStep, NotifiedStep, RoomsStep, TicketRowsStep, SearchStep, PairsStep
          DEF LedgerInv, TypeInv

\* The inductive invariant of the ledger holds in every reachable state, for any
\* set of users, profiles, blocks, request slots and bounds on failures.
THEOREM LedgerInvHolds == Spec => []LedgerInv
  BY LedgerInit, LedgerInvStep, PTL DEF Spec

\* Nobody is ever told of a room before its call is on record with both users.
THEOREM NotifiedRoomsExistHolds == Spec => []NotifiedRoomsExist
  <1>1. LedgerInv => NotifiedRoomsExist
    BY DEF LedgerInv
  <1> QED BY <1>1, LedgerInvHolds, PTL

\* Room ids identify calls.
THEOREM RoomsUniqueHolds == Spec => []RoomsUnique
  <1>1. LedgerInv => RoomsUnique
    BY DEF LedgerInv
  <1> QED BY <1>1, LedgerInvHolds, PTL

\* Only pairs whom a search found to suit are ever recorded, whatever the rows of their
\* users turn into meanwhile and afterwards.
THEOREM PairsSoundHolds == Spec => []PairsSound
  <1>1. LedgerInv => PairsSound
    BY DEF LedgerInv
  <1> QED BY <1>1, LedgerInvHolds, PTL

-------------------------------------------------------------------------------
(* The two maps *)

\* A search that starts leaves its user WAITING or CONNECTING and takes a
\* candidate to CONNECTING; the states of all others stay.
LEMMA StartSearchStates ==
    ASSUME TypeInv, NEW r \in Reqs, NEW u \in Users, u = req[r].user, StartSearch(r)
    PROVE  \/ /\ stateStore' = [stateStore EXCEPT ![u] = "WAITING"]
              /\ req' = [req EXCEPT ![r] = Free]
           \/ \E c \in Users :
                 /\ stateStore' = [stateStore EXCEPT ![u] = "CONNECTING", ![c] = "CONNECTING"]
                 /\ req'[r].pc = "checking" /\ req'[r].user = u /\ req'[r].with = c
                 /\ \A s \in Reqs \ {r} : req'[s] = req[s]
  <1>1. CASE /\ stateStore' = [stateStore EXCEPT ![u] = "WAITING"]
             /\ req' = [req EXCEPT ![r] = Free]
    BY <1>1
  <1>0. req[r].own \in Nat
    BY DEF TypeInv, TypeOK, Request
  <1>2. ASSUME NEW a \in Attempt, NEW rest \in SUBSET Attempt,
               stateStore' = Connect([stateStore EXCEPT ![u] = "WAITING"], u, a.cand),
               req' = [req EXCEPT ![r] = Checking(u, req[r].own, a, rest)]
        PROVE  \E c \in Users :
                 /\ stateStore' = [stateStore EXCEPT ![u] = "CONNECTING", ![c] = "CONNECTING"]
                 /\ req'[r].pc = "checking" /\ req'[r].user = u /\ req'[r].with = c
                 /\ \A s \in Reqs \ {r} : req'[s] = req[s]
    <2>1. a.cand \in Users
      BY DEF Attempt
    <2>2. stateStore' = [stateStore EXCEPT ![u] = "CONNECTING", ![a.cand] = "CONNECTING"]
      BY <1>2, <2>1 DEF Connect, TypeInv, TypeOK
    <2>3. /\ req'[r].pc = "checking" /\ req'[r].user = u /\ req'[r].with = a.cand
          /\ \A s \in Reqs \ {r} : req'[s] = req[s]
      BY <1>0, <1>2, CheckingIsRequest, SlotChange DEF TypeInv, TypeOK
    <2> QED BY <2>1, <2>2, <2>3
  <1> QED BY <1>1, <1>2, SearchBegins

\* A step keeps ticket holders queued.
LEMMA TicketStep ==
    ASSUME TypeInv, TicketHolderIsQueued, [Next]_vars PROVE TicketHolderIsQueued'
  <1> USE DEF TicketHolderIsQueued
  <1>1. stateStore \in [Users -> MatchmakingState] /\ activeTickets \in [Users -> Ticket \cup {Null}]
    BY DEF TypeInv, TypeOK
  <1>2. ASSUME NEW r \in Reqs, req[r].user \in Users, StartSearch(r) PROVE TicketHolderIsQueued'
    <2>1. \A u \in Users : u # req[r].user => activeTickets'[u] = activeTickets[u]
      BY <1>1, <1>2 DEF StartSearch
    <2> QED BY <1>1, <1>2, <2>1, StartSearchStates
  <1>3. ASSUME NEW r \in Reqs, Continue(r) PROVE TicketHolderIsQueued'
    <2>1. CASE ResetStale(r) \/ ActivateIdle(r)
      BY <1>2, <2>1 DEF ResetStale, ActivateIdle, TypeInv, RequestsName
    <2>2. CASE LookUp(r) \/ AnswerExisting(r) \/ ReadAges(r) \/ ReadDeclined(r) \/ ReadPrevious(r)
               \/ SaveRow(r) \/ NotifyMatch(r) \/ AnswerBusy(r) \/ ActivateConnecting(r)
      BY <2>2 DEF LookUp, AnswerExisting, ReadAges, ReadDeclined, ReadPrevious, SaveRow, NotifyMatch,
                  AnswerBusy, ActivateConnecting
    <2>3. CASE TryNext(r)
      <3>1. PICK a : stateStore' = Connect(Rollback(r), req[r].user, a.cand)
        BY <2>3 DEF TryNext
      <3> QED BY <1>1, <2>3, <3>1 DEF TryNext, Connect, Rollback
    <2>4. CASE GiveUp(r)
      BY <1>1, <2>4 DEF GiveUp, Rollback
    <2>5. CASE Accept(r)
      BY <1>1, <2>5 DEF Accept
    <2>6. CASE DeclineFinish(r)
      BY <1>1, <2>6 DEF DeclineFinish, ToIdle
    <2> QED BY <1>3, <2>1, <2>2, <2>3, <2>4, <2>5, <2>6 DEF Continue
  <1>4. ASSUME NEW u \in Users, UserCall(u) PROVE TicketHolderIsQueued'
    <2>1. CASE LeaveRoom(u) \/ DeactivateCall(u)
      BY <1>1, <2>1 DEF LeaveRoom, DeactivateCall, ToIdle
    <2>2. CASE UpdateProfile(u)
      BY <2>2 DEF UpdateProfile
    <2>3. ASSUME NEW r \in Reqs, LoadUser(r, u) \/ DeclineUpdate(r, u)
          PROVE  TicketHolderIsQueued'
      BY <2>3 DEF LoadUser, DeclineUpdate
    <2> QED BY <1>4, <2>1, <2>2, <2>3 DEF UserCall
  <1>5. CASE Environment
    <2>1. CASE SetRoomOutcome
      BY <2>1 DEF SetRoomOutcome
    <2>2. ASSUME NEW u \in Users, TicketAges(u) PROVE TicketHolderIsQueued'
      BY <1>1, <2>2 DEF TicketAges
    <2>3. ASSUME NEW r \in Reqs, DatabaseError(r) PROVE TicketHolderIsQueued'
      BY <2>3 DEF DatabaseError
    <2>4. CASE Restart
      BY <2>4 DEF Restart
    <2> QED BY <1>5, <2>1, <2>2, <2>3, <2>4 DEF Environment
  <1>6. CASE UNCHANGED vars
    BY <1>6 DEF vars
  <1> QED BY <1>3, <1>4, <1>5, <1>6 DEF Next

\* Nobody who is IDLE owns a ticket, however searches and leaves interleave.
THEOREM TicketHolderIsQueuedHolds == Spec => []TicketHolderIsQueued
  <1>1. Init => TicketHolderIsQueued
    BY DEF Init, TicketHolderIsQueued
  <1> QED BY <1>1, TicketStep, TypeCorrect, PTL DEF Spec

-------------------------------------------------------------------------------
(* CONNECTING is never left behind *)

HoldsConnecting(r, u) ==
    /\ req[r].pc \in {"checking", "creating", "saved"}
    /\ u \in Held(r)

Caused(u) ==
    \/ \E r \in Reqs : HoldsConnecting(r, u)
    \/ \E i \in RowIds : IsMember(u, matchHistory[i])

\* A call of the user stays on record, and a request that is left alone keeps
\* holding the user.
LEMMA CauseStays ==
    ASSUME TypeInv, [Next]_vars, NEW u,
           \/ \E i \in RowIds : IsMember(u, matchHistory[i])
           \/ \E r \in Reqs : HoldsConnecting(r, u) /\ req'[r] = req[r]
    PROVE  Caused(u)'
  <1>1. ASSUME NEW i \in RowIds, IsMember(u, matchHistory[i])
        PROVE  i \in RowIds' /\ IsMember(u, matchHistory'[i])
    BY <1>1, RowsStay DEF IsMember
  <1> QED BY <1>1 DEF Caused, HoldsConnecting, Held

\* As long as no database call fails, a step that leaves a user CONNECTING leaves
\* a cause for it.
LEMMA ConnectingStep ==
    ASSUME LedgerInv, ConnectingHasCause, [Next]_vars PROVE ConnectingHasCause'
  <1>1. TypeInv
    BY DEF LedgerInv, TypeInv
  <1>2. /\ stateStore \in [Users -> MatchmakingState]
        /\ req \in [Reqs -> Request]
    BY <1>1 DEF TypeInv, TypeOK
  <1> SUFFICES ASSUME failures' = 0, NEW u \in Users, stateStore'[u] = "CONNECTING"
               PROVE  Caused(u)'
    BY DEF ConnectingHasCause, Caused, HoldsConnecting
  <1>3. ASSUME failures = 0, stateStore[u] = "CONNECTING" PROVE Caused(u)
    BY <1>3 DEF ConnectingHasCause, Caused, HoldsConnecting
  \* It is enough that one slot changes, that it did not hold u, and that u was
  \* CONNECTING before.
  <1>4. ASSUME failures = 0, stateStore[u] = "CONNECTING",
               \A s \in Reqs : req'[s] = req[s] \/ ~HoldsConnecting(s, u)
        PROVE  Caused(u)'
    BY <1>1, <1>3, <1>4, CauseStays DEF Caused
  <1>5. ASSUME NEW r \in Reqs, NEW v \in Users, v = req[r].user, StartSearch(r),
               req[r].pc \in {"loaded", "found"}
        PROVE  Caused(u)'
    <2>1. failures = 0 /\ ~HoldsConnecting(r, u)
      BY <1>5 DEF StartSearch, HoldsConnecting
    <2>2. CASE stateStore' = [stateStore EXCEPT ![v] = "WAITING"] /\ req' = [req EXCEPT ![r] = Free]
      BY <1>2, <1>4, <2>1, <2>2
    <2>3. ASSUME NEW c \in Users,
                 stateStore' = [stateStore EXCEPT ![v] = "CONNECTING", ![c] = "CONNECTING"],
                 req'[r].pc = "checking", req'[r].user = v, req'[r].with = c,
                 \A s \in Reqs \ {r} : req'[s] = req[s]
          PROVE  Caused(u)'
      <3>1. CASE u \in {v, c}
        BY <2>3, <3>1 DEF Caused, HoldsConnecting, Held
      <3>2. CASE u \notin {v, c}
        BY <1>2, <1>4, <2>1, <2>3, <3>2
      <3> QED BY <3>1, <3>2
    <2> QED BY <1>1, <1>5, <2>2, <2>3, StartSearchStates
  <1>6. ASSUME NEW r \in Reqs, Continue(r) PROVE Caused(u)'
    <2>1. CASE LookUp(r) \/ AnswerExisting(r) \/ AnswerBusy(r) \/ ActivateConnecting(r)
      <3>1. /\ failures = 0 /\ stateStore[u] = "CONNECTING"
            /\ req[r].pc \in {"loaded", "lookup", "found"}
            /\ \A s \in Reqs : s # r => req'[s] = req[s]
        BY <1>2, <2>1 DEF LookUp, AnswerExisting, AnswerBusy, ActivateConnecting
      <3> QED BY <1>4, <3>1 DEF HoldsConnecting
    <2>2. CASE ResetStale(r) \/ ActivateIdle(r)
      BY <1>1, <1>5, <2>2 DEF ResetStale, ActivateIdle, TypeInv, RequestsName
    <2>3. CASE ReadAges(r) \/ ReadDeclined(r) \/ ReadPrevious(r) \/ SaveRow(r)
      <3>1. /\ failures = 0 /\ stateStore[u] = "CONNECTING"
            /\ \A s \in Reqs : HoldsConnecting(s, u) => HoldsConnecting(s, u)'
        BY <1>2, <2>3 DEF ReadAges, ReadDeclined, ReadPrevious, SaveRow, HoldsConnecting, Held, Request
      <3> QED BY <1>1, <1>3, <3>1, CauseStays DEF Caused
    <2>4. CASE TryNext(r)
      <3>1. PICK a \in req[r].todo :
              /\ stateStore' = Connect(Rollback(r), req[r].user, a.cand)
              /\ req' = [req EXCEPT ![r] = Checking(req[r].user, req[r].own, a, req[r].todo \ {a})]
        BY <2>4 DEF TryNext, NextAttempts
      <3>2. /\ req[r].user \in Users /\ req[r].own \in Nat /\ req[r].todo \in SUBSET Attempt
            /\ a \in Attempt /\ a.cand \in Users /\ req[r].todo \ {a} \in SUBSET Attempt
        BY <1>1, <1>2, <2>4, <3>1 DEF TypeInv, RequestsName, TryNext, Answered, Request, Attempt
      <3>3. /\ req'[r].pc = "checking" /\ req'[r].user = req[r].user /\ req'[r].with = a.cand
            /\ \A s \in Reqs : s # r => req'[s] = req[s]
        BY <1>2, <3>1, <3>2, CheckingIsRequest, SlotChange
      <3>4. CASE u \in {req[r].user, a.cand}
        BY <3>3, <3>4 DEF Caused, HoldsConnecting, Held
      <3>5. CASE u \notin {req[r].user, a.cand}
        <4>1. u # req[r].with /\ stateStore[u] = "CONNECTING"
          BY <1>2, <3>1, <3>5 DEF Connect, Rollback
        <4>2. failures = 0 /\ ~HoldsConnecting(r, u)
          BY <2>4, <3>5, <4>1 DEF TryNext, HoldsConnecting, Held
        <4> QED BY <1>4, <3>3, <4>1, <4>2
      <3> QED BY <3>4, <3>5
    <2>5. CASE GiveUp(r)
      <3>1. u \notin Held(r) /\ stateStore[u] = "CONNECTING" /\ failures = 0
        BY <1>2, <2>5 DEF GiveUp, Rollback, Held
      <3> QED BY <1>2, <1>4, <2>5, <3>1 DEF GiveUp, HoldsConnecting
    <2>6. CASE Accept(r)
      <3>1. /\ failures = 0 /\ stateStore[u] = "CONNECTING"
            /\ req'[r].pc = "creating" /\ Held(r)' = Held(r)
            /\ \A s \in Reqs : s # r => req'[s] = req[s]
        BY <1>2, <2>6 DEF Accept, Held, Free
      <3>2. \A s \in Reqs : HoldsConnecting(s, u) => HoldsConnecting(s, u)'
        BY <3>1 DEF HoldsConnecting, Held
      <3> QED BY <1>1, <1>3, <3>1, <3>2, CauseStays DEF Caused
    <2>7. CASE NotifyMatch(r)
      <3>1. failures = 0 /\ stateStore[u] = "CONNECTING"
        BY <2>7 DEF NotifyMatch
      <3>2. CASE u \in Held(r)
        <4>1. \E i \in RowIds : IsBetween(req[r].user, req[r].with, matchHistory[i])
          BY <2>7 DEF NotifyMatch, LedgerInv, ToldIsSaved
        <4>2. \E i \in RowIds : IsMember(u, matchHistory[i])
          BY <3>2, <4>1 DEF Held, IsBetween, IsMember
        <4> QED BY <1>1, <4>2, CauseStays
      <3>3. CASE u \notin Held(r)
        BY <1>2, <1>4, <2>7, <3>1, <3>3 DEF NotifyMatch, HoldsConnecting
      <3> QED BY <3>2, <3>3
    <2>8. CASE DeclineFinish(r)
      BY <1>2, <1>4, <2>8 DEF DeclineFinish, ToIdle, HoldsConnecting
    <2> QED BY <1>6, <2>1, <2>2, <2>3, <2>4, <2>5, <2>6, <2>7, <2>8 DEF Continue
  <1>7. ASSUME NEW v \in Users, UserCall(v) PROVE Caused(u)'
    <2>1. CASE LeaveRoom(v) \/ DeactivateCall(v)
      BY <1>2, <1>4, <2>1 DEF LeaveRoom, DeactivateCall, ToIdle
    <2>2. CASE UpdateProfile(v)
      BY <1>4, <2>2 DEF UpdateProfile
    <2>3. ASSUME NEW r \in Reqs, LoadUser(r, v) \/ DeclineUpdate(r, v) PROVE Caused(u)'
      <3>1. /\ failures = 0 /\ stateStore[u] = "CONNECTING"
            /\ req[r].pc = "free"
            /\ \A s \in Reqs : s # r => req'[s] = req[s]
        BY <1>2, <2>3 DEF LoadUser, DeclineUpdate
      <3> QED BY <1>4, <3>1 DEF HoldsConnecting
    <2> QED BY <1>7, <2>1, <2>2, <2>3 DEF UserCall
  <1>8. CASE Environment
    <2>1. CASE SetRoomOutcome
      BY <1>4, <2>1 DEF SetRoomOutcome
    <2>2. ASSUME NEW v \in Users, TicketAges(v) PROVE Caused(u)'
      BY <1>4, <2>2 DEF TicketAges
    <2>3. ASSUME NEW r \in Reqs, DatabaseError(r) PROVE Caused(u)'
      BY <1>1, <2>3 DEF DatabaseError, TypeInv, TypeOK
    <2>4. CASE Restart
      BY <2>4 DEF Restart
    <2> QED BY <1>8, <2>1, <2>2, <2>3, <2>4 DEF Environment
  <1>9. CASE UNCHANGED vars
    BY <1>4, <1>9 DEF vars
  <1> QED BY <1>6, <1>7, <1>8, <1>9 DEF Next

\* Without database failures every CONNECTING user is held by a running request or
\* has a call on record, so activating again always gets the user out of it.
THEOREM ConnectingHasCauseHolds == Spec => []ConnectingHasCause
  <1>1. Init => ConnectingHasCause
    BY DEF Init, ConnectingHasCause
  <1> QED BY <1>1, ConnectingStep, LedgerInvHolds, PTL DEF Spec

-------------------------------------------------------------------------------
(* The implementation of MatchLedger *)

\* No step takes the word 'matched' back, moves a row, or changes its users.
THEOREM MatchedIsFinalHolds == Spec => MatchedIsFinal
  <1>1. ASSUME TypeInv, [Next]_vars, NEW i \in RowIds
        PROVE  /\ i <= Len(matchHistory')
               /\ matchHistory'[i] = [matchHistory[i] EXCEPT !.outcome = matchHistory'[i].outcome]
               /\ matchHistory[i].outcome = "matched" => matchHistory'[i].outcome = "matched"
    <2>1. /\ i \in RowIds' /\ Len(matchHistory') \in Nat
          /\ matchHistory[i] \in Row /\ matchHistory'[i] \in Row
          /\ matchHistory'[i].userA = matchHistory[i].userA
          /\ matchHistory'[i].userB = matchHistory[i].userB
          /\ matchHistory'[i].roomId = matchHistory[i].roomId
      <3>1. i \in RowIds' /\ matchHistory \in Seq(Row) /\ matchHistory' \in Seq(Row)
        BY <1>1, RowsStay, TypeStep DEF TypeInv, TypeOK
      <3> QED BY <1>1, <3>1, RowsStay DEF RowIds
    <2>2. i <= Len(matchHistory')
      BY <2>1 DEF RowIds
    <2>3. matchHistory'[i] = [matchHistory[i] EXCEPT !.outcome = matchHistory'[i].outcome]
      BY <2>1 DEF Row
    <2>4. matchHistory[i].outcome = "matched" => matchHistory'[i].outcome = "matched"
      <3>1. CASE UNCHANGED matchHistory
        BY <3>1
      <3>2. ASSUME NEW room, SetOutcome(room, {"default"}, "declined")
            PROVE  matchHistory[i].outcome = "matched" => matchHistory'[i].outcome = "matched"
        BY <2>1, <3>2 DEF SetOutcome
      <3>3. ASSUME NEW room, SetOutcome(room, Outcome, "matched")
            PROVE  matchHistory[i].outcome = "matched" => matchHistory'[i].outcome = "matched"
        BY <2>1, <3>3 DEF SetOutcome, Row
      <3>4. ASSUME NEW r \in Reqs, SaveRow(r)
            PROVE  matchHistory'[i] = matchHistory[i]
        BY <1>1, <3>4 DEF SaveRow, RowIds, TypeInv, TypeOK
      <3> QED BY <1>1, <3>1, <3>2, <3>3, <3>4, HistorySteps
    <2> QED BY <2>2, <2>3, <2>4
  <1>2. TypeInv /\ [Next]_vars =>
            [\A i \in RowIds :
                /\ i <= Len(matchHistory')
                /\ matchHistory'[i] = [matchHistory[i] EXCEPT !.outcome = matchHistory'[i].outcome]
                /\ matchHistory[i].outcome = "matched" => matchHistory'[i].outcome = "matched"]_vars
    BY <1>1
  <1> QED BY <1>2, TypeCorrect, PTL DEF Spec, MatchedIsFinal

Calls == {matchHistory[i] : i \in RowIds}

\* Setting the outcome of a room settles its one call, or changes nothing.
LEMMA OutcomeSettles ==
    ASSUME LedgerInv, NEW room, NEW from, NEW to \in {"matched", "declined"},
           SetOutcome(room, from, to), UNCHANGED sent,
           to = "declined" => from = {"default"}
    PROVE  Ledger!Settle \/ UNCHANGED Calls
  <1>1. matchHistory \in Seq(Row) /\ to \in Outcome /\ RoomsUnique
    BY DEF LedgerInv, TypeOK, Outcome
  <1>2. RowIds' = RowIds
    BY <1>1, OutcomeKeepsRows DEF RowIds
  <1>3. CASE \A i \in RowIds : ~(matchHistory[i].roomId = room /\ matchHistory[i].outcome \in from)
    <2>1. \A i \in RowIds : matchHistory'[i] = matchHistory[i]
      BY <1>3 DEF SetOutcome
    <2> QED BY <1>2, <2>1 DEF Calls
  <1>4. ASSUME NEW i \in RowIds, matchHistory[i].roomId = room, matchHistory[i].outcome \in from
        PROVE  Ledger!Settle
    <2> DEFINE c == matchHistory[i]
    <2>1. matchHistory'[i] = [c EXCEPT !.outcome = to]
      BY <1>4 DEF SetOutcome
    <2>2. ASSUME NEW j \in RowIds, j # i
          PROVE  matchHistory'[j] = matchHistory[j] /\ matchHistory[j] # c
      BY <1>1, <1>4, <2>2 DEF SetOutcome, RoomsUnique
    <2>3. Calls' = (Calls \ {c}) \cup {[c EXCEPT !.outcome = to]}
      BY <1>2, <2>1, <2>2 DEF Calls
    <2>4. c \in Calls /\ (to = "declined" => c.outcome = "default")
      BY <1>4 DEF Calls
    <2> HIDE DEF c
    <2> QED BY <2>3, <2>4 DEF Ledger!Settle, Calls
  <1> QED BY <1>3, <1>4

\* Every step of the queue is a step of the ledger or leaves it alone.
LEMMA LedgerStep ==
    ASSUME LedgerInv, [Next]_vars
    PROVE  [Ledger!Next]_(Ledger!vars)
  <1>1. TypeInv
    BY DEF LedgerInv, TypeInv
  <1>2. UNCHANGED <<Calls, sent>> => [Ledger!Next]_(Ledger!vars)
    BY DEF Calls, Ledger!vars
  <1>3. ASSUME NEW r \in Reqs, SaveRow(r) PROVE Ledger!Next
    <2> DEFINE row == [userA |-> req[r].user, userB |-> req[r].with,
                       roomId |-> req[r].room, outcome |-> "default"]
    <2>1. /\ req[r].pc = "creating" /\ UNCHANGED sent
          /\ req[r].user \in Users /\ req[r].with \in Users /\ req[r].room \in Rooms
          /\ Suited(req[r].user, req[r].with)
      BY <1>1, <1>3 DEF SaveRow, TypeInv, RequestsName, LedgerInv, SearchesSound
    <2>2. req[r].room \notin {c.roomId : c \in Calls}
      BY <2>1 DEF Calls, LedgerInv, RoomsUnique
    <2>3. Calls' = Calls \cup {row}
      <3>1. matchHistory \in Seq(Row) /\ matchHistory' = Append(matchHistory, row)
        BY <1>1, <1>3 DEF SaveRow, TypeInv, TypeOK
      <3>2. /\ RowIds' = RowIds \cup {Len(matchHistory) + 1}
            /\ \A i \in RowIds : matchHistory'[i] = matchHistory[i]
            /\ matchHistory'[Len(matchHistory) + 1] = row
        BY <3>1 DEF RowIds
      <3> HIDE DEF row
      <3> QED BY <3>2 DEF Calls
    <2> DEFINE pair == <<req[r].user, req[r].with>>
    <2>4. pair \in {p \in Users \X Users : p[1] # p[2] /\ ~IsBlocked(p[1], p[2])}
      BY <2>1 DEF Suited
    <2>5. row = [userA |-> pair[1], userB |-> pair[2],
                 roomId |-> req[r].room, outcome |-> "default"]
      OBVIOUS
    <2> HIDE DEF row, pair
    <2> QED BY <2>1, <2>2, <2>3, <2>4, <2>5 DEF Ledger!Next, Ledger!Record, Calls
  <1>4. ASSUME NEW r \in Reqs, AnswerExisting(r) \/ NotifyMatch(r) PROVE Ledger!Next
    <2>1. PICK notices \in SUBSET {[to |-> req[r].user, peer |-> req[r].with, room |-> req[r].room],
                                   [to |-> req[r].with, peer |-> req[r].user, room |-> req[r].room]} :
             sent' = sent \cup notices
      BY <1>4 DEF AnswerExisting, NotifyMatch
    <2>2. PICK i \in RowIds : /\ matchHistory[i].roomId = req[r].room
                             /\ IsBetween(req[r].user, req[r].with, matchHistory[i])
      BY <1>4 DEF AnswerExisting, NotifyMatch, LedgerInv, ToldIsSaved
    <2>3. \/ req[r].user = matchHistory[i].userA /\ req[r].with = matchHistory[i].userB
          \/ req[r].user = matchHistory[i].userB /\ req[r].with = matchHistory[i].userA
      BY <2>2 DEF IsBetween
    <2>4. notices \in SUBSET Ledger!Notices(matchHistory[i])
      BY <2>1, <2>2, <2>3 DEF Ledger!Notices
    <2>5. UNCHANGED Calls
      BY <1>4 DEF AnswerExisting, NotifyMatch, Calls, RowIds
    <2> QED BY <2>1, <2>4, <2>5 DEF Ledger!Next, Ledger!Tell, Calls
  <1>5. CASE UNCHANGED sent
    <2>1. CASE UNCHANGED matchHistory
      BY <1>2, <1>5, <2>1 DEF Calls, RowIds
    <2>2. ASSUME NEW room, SetOutcome(room, {"default"}, "declined") \/ SetOutcome(room, Outcome, "matched")
          PROVE  Ledger!Settle \/ UNCHANGED Calls
      BY <1>5, <2>2, OutcomeSettles
    <2> QED BY <1>2, <1>3, <1>5, <2>1, <2>2, HistorySteps DEF Ledger!Next
  <1> QED BY <1>4, <1>5, SentSteps

\* The matchmaking queue implements the ledger: with all its races, failures and
\* restarts it only ever records calls of pairs who may meet under fresh room ids,
\* settles them, and tells users of calls on record.
THEOREM ImplementsLedgerHolds == Spec => ImplementsLedger
  <1>1. Init => Ledger!Init
    BY DEF Init, Ledger!Init, RowIds
  <1>2. LedgerInv /\ [Next]_vars => [Ledger!Next]_(Ledger!vars)
    BY LedgerStep
  <1> QED BY <1>1, <1>2, LedgerInvHolds, PTL DEF Spec, ImplementsLedger, Ledger!Spec

================================================================================
