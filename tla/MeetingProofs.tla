----------------------------- MODULE MeetingProofs -----------------------------
(* The queue and the video gateway of one process, sharing the rows of calls:  *)
(* together they implement the specification of each, for any number of users, *)
(* calls, requests and connections, and what was proved of each alone carries  *)
(* over to the properties that take both.                                      *)
EXTENDS Meeting, MatchmakingProofs

\* The handshake and what is proved of it, over the rows of the queue.
Facts == INSTANCE LikeHandshakeProofs WITH
    Calls <- Rooms, Reqs <- LikeReqs, MaxFailures <- MaxLikeFailures,
    outcome <- outcomes, req <- likeReq, told <- mutual, failures <- likeFailures

\* The constants of a meeting are constants of a handshake.
LEMMA HandshakeConstants ==
    /\ Null \notin Users /\ Null \notin Rooms /\ Members \in [Rooms -> Facts!Pair]
    /\ MaxOpened \in Nat /\ MaxLikeFailures \in Nat /\ MaxRestarts \in Nat
BY NullAssumption, BoundsAssumption, MembersAssumption, MeetingBounds DEF Facts!Pair

-------------------------------------------------------------------------------
(* Facts speaks of the handshake of Meeting *)

LEMMA SameRecords == Video!Free = Facts!Free /\ Video!Pair = Facts!Pair
BY DEF Video!Free, Facts!Free, Video!Pair, Facts!Pair

LEMMA SameInit == Video!Init <=> Facts!Init
BY SameRecords DEF Video!Init, Facts!Init

LEMMA SameClientActions ==
    ASSUME NEW s \in Sockets
    PROVE  /\ Video!HandleConnection(s) <=> Facts!HandleConnection(s)
           /\ Video!HandleDisconnect(s) <=> Facts!HandleDisconnect(s)
           /\ Video!HandleSendLike(s) <=> Facts!HandleSendLike(s)
           /\ \A r \in LikeReqs : Video!HandleSendLikeBack(r, s) <=> Facts!HandleSendLikeBack(r, s)
<1>1. Video!HandleConnection(s) <=> Facts!HandleConnection(s)
  BY DEF Video!HandleConnection, Facts!HandleConnection
<1>2. Video!HandleDisconnect(s) <=> Facts!HandleDisconnect(s)
  BY DEF Video!HandleDisconnect, Facts!HandleDisconnect
<1>3. Video!HandleSendLike(s) <=> Facts!HandleSendLike(s)
  BY DEF Video!HandleSendLike, Facts!HandleSendLike
<1>4. \A r \in LikeReqs : Video!HandleSendLikeBack(r, s) <=> Facts!HandleSendLikeBack(r, s)
  BY DEF Video!HandleSendLikeBack, Facts!HandleSendLikeBack
<1> QED BY <1>1, <1>2, <1>3, <1>4

LEMMA SameRequestActions ==
    ASSUME NEW r \in LikeReqs
    PROVE  /\ Video!CreateRoom(r) <=> Facts!CreateRoom(r)
           /\ Video!FindRoom(r) <=> Facts!FindRoom(r)
           /\ Video!SaveRoom(r) <=> Facts!SaveRoom(r)
           /\ Video!SaveRejected(r) <=> Facts!SaveRejected(r)
           /\ Video!MarkMatched(r) <=> Facts!MarkMatched(r)
           /\ Video!EmitMutualLike(r) <=> Facts!EmitMutualLike(r)
           /\ Video!DatabaseError(r) <=> Facts!DatabaseError(r)
<1>1. Video!CreateRoom(r) <=> Facts!CreateRoom(r)
  BY SameRecords DEF Video!CreateRoom, Facts!CreateRoom
<1>2. Video!WithRoom(r) = Facts!WithRoom(r)
  BY SameRecords DEF Video!WithRoom, Facts!WithRoom
<1>3. Video!FindRoom(r) <=> Facts!FindRoom(r)
  BY <1>2 DEF Video!FindRoom, Facts!FindRoom
<1>4. Video!SaveRoom(r) <=> Facts!SaveRoom(r)
  BY <1>2 DEF Video!SaveRoom, Facts!SaveRoom
<1>5. Video!SaveRejected(r) <=> Facts!SaveRejected(r)
  BY SameRecords DEF Video!SaveRejected, Facts!SaveRejected
<1>6. Video!MarkMatched(r) <=> Facts!MarkMatched(r)
  BY DEF Video!MarkMatched, Facts!MarkMatched
<1>7. Video!Listening(likeReq[r].call) = Facts!Listening(likeReq[r].call)
  BY DEF Video!Listening, Facts!Listening
<1>8. Video!EmitMutualLike(r) <=> Facts!EmitMutualLike(r)
  BY <1>7, SameRecords DEF Video!EmitMutualLike, Facts!EmitMutualLike
<1>9. Video!DatabaseError(r) <=> Facts!DatabaseError(r)
  BY SameRecords DEF Video!DatabaseError, Facts!DatabaseError
<1> QED BY <1>1, <1>3, <1>4, <1>5, <1>6, <1>8, <1>9

LEMMA SameNext == [Video!Next]_(Video!vars) <=> [Facts!Next]_(Facts!vars)
<1>1. Video!Restart <=> Facts!Restart
  BY SameRecords DEF Video!Restart, Facts!Restart
<1>2. \A c \in Rooms : Video!DeclineMatch(c) <=> Facts!DeclineMatch(c)
  BY DEF Video!DeclineMatch, Facts!DeclineMatch
<1>3. Video!Environment <=> Facts!Environment
  BY <1>1, <1>2, SameRequestActions DEF Video!Environment, Facts!Environment
<1>4. \A r \in LikeReqs : Video!Continue(r) <=> Facts!Continue(r)
  BY SameRequestActions DEF Video!Continue, Facts!Continue
<1>5. \A s \in Sockets : Video!ClientEvent(s) <=> Facts!ClientEvent(s)
  BY SameClientActions DEF Video!ClientEvent, Facts!ClientEvent
<1>6. Video!Next <=> Facts!Next
  BY <1>3, <1>4, <1>5 DEF Video!Next, Facts!Next
<1>7. Video!vars' = Video!vars <=> Facts!vars' = Facts!vars
  BY DEF Video!vars, Facts!vars
<1> QED BY <1>6, <1>7

-------------------------------------------------------------------------------
(* What the two parts know of each other *)

\* A room is used for the two users it is named by.
RoomsNamed ==
    /\ \A i \in RowIds : UsersOf(matchHistory[i]) = Members[matchHistory[i].roomId]
    /\ \A r \in Reqs : req[r].pc = "creating" => Members[req[r].room] = {req[r].user, req[r].with}

\* A connection and a like-back are in the room of a call on record, which is why
\* setRoomOutcome always finds its row.
CallsRecorded ==
    /\ \A s \in Sockets : socket[s] # Null => \E i \in RowIds : matchHistory[i].roomId = socket[s].call
    /\ \A r \in LikeReqs : likeReq[r].pc # "free" /\ likeReq[r].call # Null =>
          \E i \in RowIds : matchHistory[i].roomId = likeReq[r].call

\* Without POST /chat/rooms, only like-backs ask for chats.
ChatsFromLikes ==
    opened = 0 =>
        /\ \A r \in LikeReqs : likeReq[r].pc # "free" => likeReq[r].call # Null
        /\ \A chat \in chats : \E i \in RowIds : UsersOf(matchHistory[i]) = chat

MeetInv ==
    /\ LedgerInv /\ Facts!HandshakeInv
    /\ RoomsNamed /\ CallsRecorded /\ ChatsFromLikes

LEMMA MeetTypes ==
    ASSUME MeetInv
    PROVE  /\ TypeInv /\ matchHistory \in Seq(Row) /\ req \in [Reqs -> Request]
           /\ RowIds = DOMAIN matchHistory
           /\ socket \in [Sockets -> Facts!Connection \cup {Null}]
           /\ likeReq \in [LikeReqs -> Facts!Request]
           /\ outcomes \in [Rooms -> Outcome]
<1>1. Facts!TypeOK /\ TypeInv
  BY DEF MeetInv, LedgerInv, TypeInv, Facts!HandshakeInv
<1>2. Facts!Outcome = Outcome
  BY DEF Facts!Outcome, Outcome
<1> QED BY <1>1, <1>2 DEF Facts!TypeOK, TypeInv, TypeOK, RowIds

-------------------------------------------------------------------------------
(* The outcome column by room id *)

\* Of a table in which room ids are unique.
LEMMA OutcomeFound ==
    ASSUME NEW rows, NEW i \in DOMAIN rows,
           \A j \in DOMAIN rows : rows[j].roomId = rows[i].roomId => j = i
    PROVE  OutcomeIn(rows, rows[i].roomId) = rows[i].outcome
BY DEF OutcomeIn

LEMMA OutcomeOfRow ==
    ASSUME LedgerInv, NEW i \in RowIds
    PROVE  /\ matchHistory[i].roomId \in Rooms
           /\ outcomes[matchHistory[i].roomId] = matchHistory[i].outcome
           /\ \A j \in RowIds : matchHistory[j].roomId = matchHistory[i].roomId => j = i
<1>1. matchHistory \in Seq(Row) /\ RowIds = DOMAIN matchHistory /\ RoomsUnique
  BY DEF LedgerInv, TypeOK, RowIds
<1>2. matchHistory[i].roomId \in Rooms
  BY <1>1, RowFields
<1>3. OutcomeIn(matchHistory, matchHistory[i].roomId) = matchHistory[i].outcome
  BY <1>1, OutcomeFound DEF RoomsUnique
<1> QED BY <1>1, <1>2, <1>3 DEF outcomes, RoomsUnique

\* A new row is undecided, as a room without a row is.
LEMMA SaveKeepsOutcomes ==
    ASSUME LedgerInv, NEW r \in Reqs, SaveRow(r)
    PROVE  outcomes' = outcomes
<1> DEFINE n == Len(matchHistory) + 1
           row == [userA |-> req[r].user, userB |-> req[r].with,
                   roomId |-> req[r].room, outcome |-> "default"]
<1>1. /\ matchHistory \in Seq(Row) /\ RowIds = DOMAIN matchHistory
      /\ \A i \in RowIds : matchHistory[i].roomId # req[r].room
  BY DEF LedgerInv, TypeOK, RoomsUnique, RowIds, SaveRow
<1>2. matchHistory' = Append(matchHistory, row)
  BY DEF SaveRow
<1>3. /\ DOMAIN matchHistory' = RowIds \cup {n} /\ n \notin RowIds
      /\ \A i \in RowIds : matchHistory'[i] = matchHistory[i]
      /\ matchHistory'[n].roomId = req[r].room /\ matchHistory'[n].outcome = "default"
  BY <1>1, <1>2 DEF RowIds
<1> HIDE DEF n, row
<1>4. ASSUME NEW room \in Rooms
      PROVE  OutcomeIn(matchHistory', room) = OutcomeIn(matchHistory, room)
  <2>1. CASE room = req[r].room
    <3>1. OutcomeIn(matchHistory', room) = "default"
      BY <1>1, <1>3, <2>1, OutcomeFound
    <3> QED BY <1>1, <2>1, <3>1 DEF OutcomeIn
  <2>2. ASSUME NEW i \in RowIds, matchHistory[i].roomId = room, room # req[r].room
        PROVE  OutcomeIn(matchHistory', room) = OutcomeIn(matchHistory, room)
    <3>1. \A j \in RowIds : matchHistory[j].roomId = room => j = i
      BY <2>2, OutcomeOfRow
    <3>2. OutcomeIn(matchHistory, room) = matchHistory[i].outcome
      BY <1>1, <2>2, <3>1, OutcomeFound
    <3>3. OutcomeIn(matchHistory', room) = matchHistory[i].outcome
      BY <1>3, <2>2, <3>1, OutcomeFound
    <3> QED BY <3>2, <3>3
  <2>3. CASE room # req[r].room /\ \A i \in RowIds : matchHistory[i].roomId # room
    BY <1>1, <1>3, <2>3 DEF OutcomeIn
  <2> QED BY <2>1, <2>2, <2>3
<1> QED BY <1>4 DEF outcomes

\* An update of a row on record is an update of the column at its room.
LEMMA SetOutcomeAtRoom ==
    ASSUME LedgerInv, NEW i \in RowIds, NEW from, NEW to \in Outcome,
           SetOutcome(matchHistory[i].roomId, from, to)
    PROVE  outcomes' = [outcomes EXCEPT ![matchHistory[i].roomId] =
                            IF outcomes[matchHistory[i].roomId] \in from THEN to
                            ELSE outcomes[matchHistory[i].roomId]]
<1> DEFINE c == matchHistory[i].roomId
           after == IF outcomes[c] \in from THEN to ELSE outcomes[c]
<1>1. /\ matchHistory \in Seq(Row) /\ RowIds = DOMAIN matchHistory
      /\ c \in Rooms /\ outcomes[c] = matchHistory[i].outcome
      /\ \A j \in RowIds : matchHistory[j].roomId = c => j = i
  BY OutcomeOfRow DEF LedgerInv, TypeOK, RowIds
<1>2. /\ DOMAIN matchHistory' = RowIds
      /\ \A j \in RowIds : matchHistory'[j].roomId = matchHistory[j].roomId
  BY <1>1, OutcomeKeepsRows DEF RowIds, SetOutcome
<1>3. /\ matchHistory'[i].outcome = after
      /\ \A j \in RowIds : j # i => matchHistory'[j] = matchHistory[j]
  <2>1. matchHistory[i] \in Row
    BY <1>1
  <2> QED BY <1>1, <2>1 DEF SetOutcome, Row
<1>4. OutcomeIn(matchHistory', c) = after
  BY <1>1, <1>2, <1>3, OutcomeFound
<1>5. ASSUME NEW room \in Rooms, room # c
      PROVE  OutcomeIn(matchHistory', room) = OutcomeIn(matchHistory, room)
  <2>1. ASSUME NEW j \in RowIds, matchHistory[j].roomId = room
        PROVE  OutcomeIn(matchHistory', room) = OutcomeIn(matchHistory, room)
    <3>1. \A k \in RowIds : matchHistory[k].roomId = room => k = j
      BY <2>1, OutcomeOfRow
    <3>2. OutcomeIn(matchHistory, room) = matchHistory[j].outcome
      BY <1>1, <2>1, <3>1, OutcomeFound
    <3>3. OutcomeIn(matchHistory', room) = matchHistory'[j].outcome
      BY <1>2, <2>1, <3>1, OutcomeFound
    <3>4. j # i
      BY <1>5, <2>1
    <3> QED BY <1>3, <3>2, <3>3, <3>4
  <2>2. CASE \A j \in RowIds : matchHistory[j].roomId # room
    BY <1>1, <1>2, <2>2 DEF OutcomeIn
  <2> QED BY <2>1, <2>2
<1> HIDE DEF c, after
<1> QED BY <1>1, <1>4, <1>5 DEF outcomes, c, after

-------------------------------------------------------------------------------
(* Every step of the two is a step of each *)

\* Steps of the gateway that leave the table alone.
LEMMA GatewayStepIsVideo ==
    ASSUME GatewayStep
    PROVE  UNCHANGED vars /\ Facts!Next
<1>1. ASSUME NEW s \in Sockets,
             \/ Facts!HandleDisconnect(s) \/ Facts!HandleSendLike(s)
             \/ \E r \in LikeReqs : Facts!HandleSendLikeBack(r, s)
      PROVE  Facts!ClientEvent(s) /\ restarts' = restarts
  BY <1>1 DEF Facts!ClientEvent, Facts!HandleDisconnect, Facts!HandleSendLike,
              Facts!HandleSendLikeBack
<1>2. ASSUME NEW r \in LikeReqs,
             \/ Facts!CreateRoom(r) \/ Facts!DatabaseError(r)
             \/ Facts!FindRoom(r) \/ Facts!SaveRoom(r) \/ Facts!SaveRejected(r)
             \/ Facts!EmitMutualLike(r)
      PROVE  (Facts!Environment \/ Facts!Continue(r)) /\ restarts' = restarts
  BY <1>2 DEF Facts!Continue, Facts!Environment, Facts!CreateRoom, Facts!DatabaseError,
              Facts!FindRoom, Facts!SaveRoom, Facts!SaveRejected, Facts!EmitMutualLike
<1>3. Facts!Next /\ restarts' = restarts
  BY <1>1, <1>2, SameClientActions, SameRequestActions DEF GatewayStep, Facts!Next
<1> QED BY <1>3 DEF GatewayStep, queueVars, vars

\* The like-back finds the row of its call: one step of both.
LEMMA MarkMatchedIsBoth ==
    ASSUME MeetInv, NEW r \in LikeReqs, MarkMatched(r)
    PROVE  SetRoomOutcome /\ Facts!MarkMatched(r)
<1> DEFINE c == likeReq[r].call
<1>1. likeReq[r].pc = "outcome" /\ c # Null
  BY DEF MarkMatched, MeetInv, Facts!HandshakeInv, Facts!OnlyLikeBackMarks
<1>2. PICK i \in RowIds : matchHistory[i].roomId = c
  BY <1>1 DEF MeetInv, CallsRecorded
<1>3. LedgerInv /\ SetOutcome(matchHistory[i].roomId, Outcome, "matched") /\ "matched" \in Outcome
  BY <1>2 DEF MarkMatched, MeetInv, Outcome
<1>4. outcomes[c] \in Outcome
  BY <1>2, <1>3, OutcomeOfRow, MeetTypes
<1>5. outcomes' = [outcomes EXCEPT ![c] = "matched"]
  BY <1>2, <1>3, <1>4, SetOutcomeAtRoom
<1>6. Facts!MarkMatched(r)
  BY <1>5 DEF MarkMatched, Facts!MarkMatched
<1>7. SetRoomOutcome
  BY <1>3 DEF MarkMatched, SetRoomOutcome
<1> QED BY <1>6, <1>7

\* To the gateway, the queue does nothing but decline calls.
LEMMA QueueStepIsVideo ==
    ASSUME MeetInv, QueueStep
    PROVE  Next /\ [Facts!Next]_(Facts!vars)
<1>1. Next
  BY DEF QueueStep, Next, Environment
<1>2. restarts' = restarts
  <2>1. ASSUME NEW r \in Reqs, Continue(r) \/ DatabaseError(r) PROVE restarts' = restarts
    BY <2>1 DEF Continue, AnswerBusy, ActivateIdle, ActivateConnecting, StartSearch, LookUp,
                AnswerExisting, ResetStale, ReadAges, ReadDeclined, ReadPrevious, TryNext,
                GiveUp, Accept, SaveRow, NotifyMatch, DeclineFinish, DatabaseError
  <2>2. ASSUME NEW u \in Users, UserCall(u) \/ TicketAges(u) PROVE restarts' = restarts
    BY <2>2 DEF UserCall, LeaveRoom, DeactivateCall, UpdateProfile, LoadUser, DeclineUpdate,
                TicketAges
  <2> QED BY <2>1, <2>2 DEF QueueStep
<1>3. UNCHANGED <<chats, roomLikedBy, socket, likeReq, mutual, opened, likeFailures>>
  BY DEF QueueStep, videoVars
<1>4. outcomes' = outcomes => UNCHANGED Facts!vars
  BY <1>2, <1>3 DEF Facts!vars
<1>5. CASE UNCHANGED matchHistory
  BY <1>1, <1>4, <1>5 DEF outcomes
<1>6. ASSUME NEW r \in Reqs, SaveRow(r) PROVE UNCHANGED Facts!vars
  BY <1>4, <1>6, SaveKeepsOutcomes DEF MeetInv
<1>7. ASSUME NEW i \in RowIds, SetOutcome(matchHistory[i].roomId, {"default"}, "declined")
      PROVE  [Facts!Next]_(Facts!vars)
  <2> DEFINE c == matchHistory[i].roomId
  <2>1. c \in Rooms /\ outcomes \in [Rooms -> Outcome] /\ "declined" \in Outcome /\ LedgerInv
    BY OutcomeOfRow, MeetTypes DEF Outcome, MeetInv
  <2>2. outcomes' = [outcomes EXCEPT ![c] = IF outcomes[c] \in {"default"} THEN "declined"
                                            ELSE outcomes[c]]
    BY <1>7, <2>1, SetOutcomeAtRoom
  <2> HIDE DEF c
  <2>3. CASE outcomes[c] = "default"
    <3>1. Facts!DeclineMatch(c)
      BY <1>2, <1>3, <2>2, <2>3 DEF Facts!DeclineMatch
    <3> QED BY <2>1, <3>1 DEF Facts!Next, Facts!Environment
  <2>4. CASE outcomes[c] # "default"
    BY <1>4, <2>1, <2>2, <2>4
  <2> QED BY <2>3, <2>4
<1>8. ASSUME NEW room \in Rooms, SetOutcome(room, {"default"}, "declined"),
             \A i \in RowIds : matchHistory[i].roomId # room
      PROVE  UNCHANGED matchHistory
  <2>1. matchHistory \in Seq(Row) /\ RowIds = DOMAIN matchHistory
    BY MeetTypes
  <2>2. matchHistory' = [i \in RowIds |-> matchHistory[i]]
    BY <1>8 DEF SetOutcome
  <2> QED BY <2>1, <2>2
<1>9. \/ UNCHANGED matchHistory
      \/ \E r \in Reqs : SaveRow(r)
      \/ \E room \in Rooms : SetOutcome(room, {"default"}, "declined")
  BY RequestHistory, UserHistory DEF QueueStep
<1> QED BY <1>1, <1>4, <1>5, <1>6, <1>7, <1>8, <1>9

\* Who connects to a room they were told of, or found in the table, is one of the two
\* users it is named by.
LEMMA ConnectionIsVideo ==
    ASSUME MeetInv, NEW s \in Sockets, HandleConnection(s)
    PROVE  /\ UNCHANGED vars /\ Facts!HandleConnection(s)
           /\ \E i \in RowIds : matchHistory[i].roomId = socket'[s].call
<1>1. PICK u \in Users, room \in Rooms :
         /\ \/ \E n \in sent : n.to = u /\ n.room = room
            \/ \E i \in RowIds : IsMember(u, matchHistory[i]) /\ matchHistory[i].roomId = room
         /\ socket' = [socket EXCEPT ![s] = [user |-> u, call |-> room]]
  BY DEF HandleConnection, KnowsRoom
<1>2. PICK i \in RowIds : matchHistory[i].roomId = room /\ u \in UsersOf(matchHistory[i])
  <2>1. CASE \E n \in sent : n.to = u /\ n.room = room
    BY <2>1 DEF MeetInv, LedgerInv, NotifiedRoomsExist, IsBetween, UsersOf
  <2>2. CASE \E i \in RowIds : IsMember(u, matchHistory[i]) /\ matchHistory[i].roomId = room
    BY <2>2 DEF IsMember, UsersOf
  <2> QED BY <1>1, <2>1, <2>2
<1>3. u \in Members[room]
  BY <1>2 DEF MeetInv, RoomsNamed
<1>4. UNCHANGED vars /\ outcomes' = outcomes
  BY DEF HandleConnection, queueVars, vars, outcomes
<1>5. Facts!HandleConnection(s)
  BY <1>1, <1>3, <1>4 DEF HandleConnection, Facts!HandleConnection
<1>6. socket'[s].call = room
  BY <1>1, MeetTypes
<1> QED BY <1>2, <1>4, <1>5, <1>6

LEMMA RestartIsBoth ==
    ASSUME RestartBoth
    PROVE  Restart /\ Facts!Restart
<1>1. outcomes' = outcomes
  BY DEF RestartBoth, Restart, outcomes
<1> QED BY <1>1, SameRecords DEF RestartBoth, Restart, Facts!Restart

\* Together they take the steps of the queue ...
LEMMA MeetStepQueue == ASSUME MeetInv, [MeetNext]_meetVars PROVE [Next]_vars
<1>1. CASE QueueStep
  BY <1>1, QueueStepIsVideo
<1>2. CASE UNCHANGED meetVars
  BY <1>2 DEF meetVars, queueVars, vars
<1> QED BY <1>1, <1>2, GatewayStepIsVideo, ConnectionIsVideo, MarkMatchedIsBoth, RestartIsBoth
        DEF MeetNext, Next, Environment

\* ... and those of the gateway.
LEMMA MeetStepVideo == ASSUME MeetInv, [MeetNext]_meetVars PROVE [Facts!Next]_(Facts!vars)
<1>1. CASE UNCHANGED meetVars
  BY <1>1 DEF meetVars, queueVars, videoVars, Facts!vars, outcomes
<1>2. ASSUME NEW s \in Sockets, HandleConnection(s) PROVE Facts!Next
  BY <1>2, ConnectionIsVideo DEF Facts!Next, Facts!ClientEvent
<1>3. ASSUME NEW r \in LikeReqs, MarkMatched(r) PROVE Facts!Next
  BY <1>3, MarkMatchedIsBoth DEF Facts!Next, Facts!Continue
<1>4. CASE RestartBoth
  BY <1>4, RestartIsBoth DEF Facts!Next, Facts!Environment
<1> QED BY <1>1, <1>2, <1>3, <1>4, QueueStepIsVideo, GatewayStepIsVideo DEF MeetNext

-------------------------------------------------------------------------------
(* The invariant *)

LEMMA SocketOrigins ==
    ASSUME MeetInv, [MeetNext]_meetVars, NEW s \in Sockets
    PROVE  socket'[s] \in {socket[s], Null} \/ HandleConnection(s)
<1>1. socket \in [Sockets -> Facts!Connection \cup {Null}]
  BY MeetTypes
<1>2. ASSUME NEW t \in Sockets, HandleConnection(t)
      PROVE  socket'[s] = socket[s] \/ HandleConnection(s)
  BY <1>1, <1>2 DEF HandleConnection
<1>3. CASE GatewayStep
  <2>1. ASSUME NEW t \in Sockets, Facts!HandleDisconnect(t) PROVE socket'[s] \in {socket[s], Null}
    BY <1>1, <2>1 DEF Facts!HandleDisconnect
  <2>2. ASSUME NEW t \in Sockets,
               Facts!HandleSendLike(t) \/ \E r \in LikeReqs : Facts!HandleSendLikeBack(r, t)
        PROVE  socket' = socket
    BY <2>2 DEF Facts!HandleSendLike, Facts!HandleSendLikeBack
  <2>3. ASSUME NEW r \in LikeReqs,
               \/ Facts!CreateRoom(r) \/ Facts!DatabaseError(r)
               \/ Facts!FindRoom(r) \/ Facts!SaveRoom(r) \/ Facts!SaveRejected(r)
               \/ Facts!EmitMutualLike(r)
        PROVE  socket' = socket
    BY <2>3 DEF Facts!CreateRoom, Facts!DatabaseError, Facts!FindRoom, Facts!SaveRoom,
                Facts!SaveRejected, Facts!EmitMutualLike
  <2> QED BY <1>3, <2>1, <2>2, <2>3, SameClientActions, SameRequestActions DEF GatewayStep
<1>4. CASE RestartBoth
  BY <1>4 DEF RestartBoth
<1>5. CASE UNCHANGED socket
  BY <1>5
<1>6. QueueStep \/ UNCHANGED meetVars \/ (\E r \in LikeReqs : MarkMatched(r)) => UNCHANGED socket
  BY DEF QueueStep, meetVars, videoVars, MarkMatched
<1> QED BY <1>2, <1>3, <1>4, <1>5, <1>6 DEF MeetNext

\* A request of the gateway goes on for the call it was for, has just been made by a
\* client in the room of that call, or is for a chat opened by hand.
LEMMA LikeReqOrigins ==
    ASSUME MeetInv, [Facts!Next]_(Facts!vars), NEW q \in LikeReqs, likeReq'[q].pc # "free"
    PROVE  \/ likeReq[q].pc # "free" /\ likeReq'[q].call = likeReq[q].call
           \/ /\ likeReq'[q].call # Null
              /\ \E s \in Sockets : socket[s] # Null /\ likeReq'[q].call = socket[s].call
           \/ likeReq'[q].call = Null /\ opened' = opened + 1
<1> DEFINE Goal == \/ likeReq[q].pc # "free" /\ likeReq'[q].call = likeReq[q].call
                   \/ /\ likeReq'[q].call # Null
                      /\ \E s \in Sockets : socket[s] # Null /\ likeReq'[q].call = socket[s].call
                   \/ likeReq'[q].call = Null /\ opened' = opened + 1
<1> SUFFICES Goal
  OBVIOUS
<1>1. /\ likeReq \in [LikeReqs -> Facts!Request] /\ Facts!Free.pc = "free"
      /\ socket \in [Sockets -> Facts!Connection \cup {Null}]
  BY MeetTypes DEF Facts!Free
<1>2. CASE likeReq' = likeReq
  BY <1>2
<1>3. ASSUME NEW r \in LikeReqs, Facts!Continue(r) \/ Facts!DatabaseError(r) PROVE Goal
  <2>1. \/ likeReq' = [likeReq EXCEPT ![r] = Facts!Free]
        \/ /\ likeReq[r].pc # "free"
           /\ \E pc : \/ likeReq' = [likeReq EXCEPT ![r].pc = pc]
                      \/ likeReq' = [likeReq EXCEPT ![r] = [likeReq[r] EXCEPT !.pc = pc]]
    BY <1>3 DEF Facts!Continue, Facts!FindRoom, Facts!SaveRoom, Facts!WithRoom,
                Facts!SaveRejected, Facts!MarkMatched, Facts!EmitMutualLike, Facts!DatabaseError
  <2>2. CASE likeReq' = [likeReq EXCEPT ![r] = Facts!Free]
    BY <1>1, <2>2
  <2>3. ASSUME NEW pc, likeReq[r].pc # "free",
               \/ likeReq' = [likeReq EXCEPT ![r].pc = pc]
               \/ likeReq' = [likeReq EXCEPT ![r] = [likeReq[r] EXCEPT !.pc = pc]]
        PROVE  Goal
    BY <1>1, <2>3 DEF Facts!Request
  <2> QED BY <2>1, <2>2, <2>3
<1>4. ASSUME NEW s \in Sockets, NEW r \in LikeReqs, Facts!HandleSendLikeBack(r, s) PROVE Goal
  BY <1>1, <1>4, NullAssumption DEF Facts!HandleSendLikeBack, Facts!Connection
<1>5. ASSUME NEW r \in LikeReqs, Facts!CreateRoom(r) PROVE Goal
  BY <1>1, <1>5 DEF Facts!CreateRoom
<1>6. CASE Facts!Restart
  BY <1>1, <1>6 DEF Facts!Restart
<1>7. \A s \in Sockets : Facts!HandleConnection(s) \/ Facts!HandleDisconnect(s)
                            \/ Facts!HandleSendLike(s) => likeReq' = likeReq
  BY DEF Facts!HandleConnection, Facts!HandleDisconnect, Facts!HandleSendLike
<1>8. (\E c \in Rooms : Facts!DeclineMatch(c)) \/ UNCHANGED Facts!vars => likeReq' = likeReq
  BY DEF Facts!DeclineMatch, Facts!vars
<1> HIDE DEF Goal
<1> QED BY <1>2, <1>3, <1>4, <1>5, <1>6, <1>7, <1>8
        DEF Facts!Next, Facts!ClientEvent, Facts!Environment

\* Chats are added one at a time, and counted if by hand.
LEMMA ChatOrigins ==
    ASSUME [Facts!Next]_(Facts!vars)
    PROVE  /\ opened' \in {opened, opened + 1}
           /\ \A chat \in chats' : chat \in chats
                 \/ \E r \in LikeReqs : likeReq[r].pc # "free" /\ chat = likeReq[r].pair
<1>1. ASSUME NEW r \in LikeReqs, Facts!SaveRoom(r)
      PROVE  opened' = opened /\ chats' = chats \cup {likeReq[r].pair} /\ likeReq[r].pc # "free"
  BY <1>1 DEF Facts!SaveRoom
<1>2. ASSUME NEW r \in LikeReqs, Facts!Continue(r)
      PROVE  Facts!SaveRoom(r) \/ UNCHANGED <<opened, chats>>
  BY <1>2 DEF Facts!Continue, Facts!FindRoom, Facts!SaveRejected, Facts!MarkMatched,
              Facts!EmitMutualLike
<1>3. ASSUME NEW s \in Sockets, Facts!ClientEvent(s) PROVE UNCHANGED <<opened, chats>>
  BY <1>3 DEF Facts!ClientEvent, Facts!HandleConnection, Facts!HandleDisconnect,
              Facts!HandleSendLike, Facts!HandleSendLikeBack
<1>4. CASE Facts!Environment
  BY <1>4 DEF Facts!Environment, Facts!CreateRoom, Facts!DatabaseError, Facts!DeclineMatch,
              Facts!Restart
<1>5. CASE UNCHANGED Facts!vars
  BY <1>5 DEF Facts!vars
<1> QED BY <1>1, <1>2, <1>3, <1>4, <1>5 DEF Facts!Next

LEMMA RoomsNamedStep == ASSUME MeetInv, [MeetNext]_meetVars PROVE RoomsNamed'
<1>1. TypeInv /\ [Next]_vars /\ RoomsNamed /\ req \in [Reqs -> Request]
  BY MeetTypes, MeetStepQueue DEF MeetInv
<1>2. ASSUME NEW i \in RowIds'
      PROVE  UsersOf(matchHistory'[i]) = Members[matchHistory'[i].roomId]
  <2>1. CASE i \in RowIds
    BY <1>1, <2>1, RowsStay DEF RoomsNamed, UsersOf
  <2>2. ASSUME NEW r \in Reqs, SaveRow(r),
               matchHistory'[i].userA = req[r].user, matchHistory'[i].userB = req[r].with,
               matchHistory'[i].roomId = req[r].room
        PROVE  UsersOf(matchHistory'[i]) = Members[matchHistory'[i].roomId]
    BY <1>1, <2>2 DEF SaveRow, RoomsNamed, UsersOf
  <2> QED BY <1>1, <1>2, <2>1, <2>2, RowsStay
<1>3. ASSUME NEW r \in Reqs, req'[r].pc = "creating"
      PROVE  Members[req'[r].room] = {req'[r].user, req'[r].with}
  <2>1. CASE QueueStep
    BY <1>3, <2>1 DEF QueueStep
  <2>2. CASE req' = req
    BY <1>1, <1>3, <2>2 DEF RoomsNamed
  <2>3. CASE RestartBoth
    BY <1>3, <2>3 DEF RestartBoth, Restart, Free
  <2>4. GatewayStep \/ UNCHANGED meetVars \/ (\E s \in Sockets : HandleConnection(s))
          \/ (\E q \in LikeReqs : MarkMatched(q)) => req' = req
    BY DEF GatewayStep, meetVars, queueVars, HandleConnection, MarkMatched
  <2> QED BY <2>1, <2>2, <2>3, <2>4 DEF MeetNext
<1> QED BY <1>2, <1>3 DEF RoomsNamed

LEMMA CallsRecordedStep == ASSUME MeetInv, [MeetNext]_meetVars PROVE CallsRecorded'
<1>1. TypeInv /\ [Next]_vars /\ [Facts!Next]_(Facts!vars) /\ CallsRecorded
  BY MeetTypes, MeetStepQueue, MeetStepVideo DEF MeetInv
<1>2. \A i \in RowIds : i \in RowIds' /\ matchHistory'[i].roomId = matchHistory[i].roomId
  BY <1>1, RowsStay
<1>3. ASSUME NEW s \in Sockets, socket'[s] # Null
      PROVE  \E i \in RowIds' : matchHistory'[i].roomId = socket'[s].call
  <2>1. CASE HandleConnection(s)
    BY <1>2, <2>1, ConnectionIsVideo
  <2>2. CASE socket'[s] = socket[s]
    BY <1>1, <1>2, <1>3, <2>2 DEF CallsRecorded
  <2> QED BY <1>3, <2>1, <2>2, SocketOrigins
<1>4. ASSUME NEW q \in LikeReqs, likeReq'[q].pc # "free", likeReq'[q].call # Null
      PROVE  \E i \in RowIds' : matchHistory'[i].roomId = likeReq'[q].call
  BY <1>1, <1>2, <1>4, LikeReqOrigins DEF CallsRecorded
<1> QED BY <1>3, <1>4 DEF CallsRecorded

LEMMA ChatsFromLikesStep == ASSUME MeetInv, [MeetNext]_meetVars PROVE ChatsFromLikes'
<1>1. TypeInv /\ [Next]_vars /\ [Facts!Next]_(Facts!vars) /\ ChatsFromLikes /\ CallsRecorded
      /\ RoomsNamed
  BY MeetTypes, MeetStepQueue, MeetStepVideo DEF MeetInv
<1> SUFFICES ASSUME opened' = 0
             PROVE  /\ \A q \in LikeReqs : likeReq'[q].pc # "free" => likeReq'[q].call # Null
                    /\ \A chat \in chats' : \E i \in RowIds' : UsersOf(matchHistory'[i]) = chat
  BY DEF ChatsFromLikes
<1>2. opened = 0 /\ opened' # opened + 1
  <2>1. opened \in Nat
    BY HandshakeConstants DEF MeetInv, Facts!HandshakeInv, Facts!TypeOK
  <2> QED BY <1>1, <2>1, ChatOrigins
<1>3. \A q \in LikeReqs : likeReq'[q].pc # "free" => likeReq'[q].call # Null
  BY <1>1, <1>2, LikeReqOrigins DEF ChatsFromLikes
<1>4. ASSUME NEW chat, \E i \in RowIds : UsersOf(matchHistory[i]) = chat
      PROVE  \E i \in RowIds' : UsersOf(matchHistory'[i]) = chat
  BY <1>1, <1>4, RowsStay DEF UsersOf
<1>5. ASSUME NEW r \in LikeReqs, likeReq[r].pc # "free"
      PROVE  \E i \in RowIds : UsersOf(matchHistory[i]) = likeReq[r].pair
  <2>1. likeReq[r].call # Null /\ likeReq[r].pair = Members[likeReq[r].call]
    BY <1>1, <1>2, <1>5 DEF ChatsFromLikes, MeetInv, Facts!HandshakeInv, Facts!LikeBackInOrder
  <2> QED BY <1>1, <1>5, <2>1 DEF CallsRecorded, RoomsNamed
<1>6. ASSUME NEW chat \in chats' PROVE \E i \in RowIds : UsersOf(matchHistory[i]) = chat
  BY <1>1, <1>2, <1>5, ChatOrigins DEF ChatsFromLikes
<1> QED BY <1>3, <1>4, <1>6

LEMMA MeetInvInit == MeetInit => MeetInv
<1> SUFFICES ASSUME MeetInit PROVE MeetInv
  OBVIOUS
<1>1. Init /\ RowIds = {} /\ \A r \in Reqs : req[r].pc = "free"
  BY DEF MeetInit, Init, RowIds, Free
<1>2. Facts!Init
  <2>1. outcomes = [c \in Rooms |-> "default"]
    BY <1>1 DEF Init, outcomes, OutcomeIn
  <2> QED BY <1>1, <2>1, SameRecords DEF MeetInit, Init, Facts!Init
<1>3. Facts!HandshakeInv
  BY <1>2, HandshakeConstants, Facts!HandshakeInvInit
<1>4. RoomsNamed
  BY <1>1 DEF RoomsNamed
<1>5. CallsRecorded /\ ChatsFromLikes
  BY SameRecords DEF MeetInit, CallsRecorded, ChatsFromLikes, Facts!Free
<1> QED BY <1>1, <1>3, <1>4, <1>5, LedgerInit DEF MeetInv

LEMMA MeetInvStep == MeetInv /\ [MeetNext]_meetVars => MeetInv'
<1> SUFFICES ASSUME MeetInv, [MeetNext]_meetVars PROVE MeetInv'
  OBVIOUS
<1>1. LedgerInv'
  BY MeetStepQueue, LedgerInvStep DEF MeetInv
<1>2. Facts!HandshakeInv'
  BY MeetStepVideo, HandshakeConstants, Facts!HandshakeInvStep DEF MeetInv
<1> QED BY <1>1, <1>2, RoomsNamedStep, CallsRecordedStep, ChatsFromLikesStep DEF MeetInv

-------------------------------------------------------------------------------
(* The theorems *)

\* The inductive invariant of the two parts together.
THEOREM MeetInvHolds == MeetSpec => []MeetInv
BY MeetInvInit, MeetInvStep, PTL DEF MeetSpec

\* The queue and the gateway in one process, sharing the table and restarted together,
\* implement the specification of the queue and that of the handshake: whatever was
\* proved of one alone holds of it in the other's company.
THEOREM ImplementsPartsHolds == MeetSpec => ImplementsParts
<1>1. MeetInit => Init /\ Video!Init
  BY DEF MeetInit, Init, Video!Init, outcomes, OutcomeIn
<1>2. MeetInv /\ [MeetNext]_meetVars => [Next]_vars
  BY MeetStepQueue
<1>3. MeetInv /\ [MeetNext]_meetVars => [Video!Next]_(Video!vars)
  BY MeetStepVideo, SameNext
<1> QED BY <1>1, <1>2, <1>3, MeetInvHolds, PTL DEF MeetSpec, ImplementsParts, Spec, Video!Spec

\* With likes and like-backs under way, the rows of the calls are still those of the
\* ledger: what the gateway does to them is one Settle.
THEOREM MeetingImplementsLedgerHolds == MeetSpec => ImplementsLedger
BY ImplementsPartsHolds, ImplementsLedgerHolds, PTL DEF ImplementsParts

\* A mutual like is heard by suited users of a matched call, who have the chat.
THEOREM MutualLikeOfCallHolds == MeetSpec => []MutualLikeOfCall
<1>1. MeetInv => MutualLikeOfCall
  <2> SUFFICES ASSUME MeetInv, NEW n \in mutual
               PROVE  \E i \in RowIds :
                         /\ matchHistory[i].roomId = n.call
                         /\ matchHistory[i].outcome = "matched"
                         /\ Suited(matchHistory[i].userA, matchHistory[i].userB)
                         /\ UsersOf(matchHistory[i]) = n.chat
                         /\ n.to \in n.chat
                         /\ n.chat \in chats
    BY DEF MutualLikeOfCall
  <2>1. /\ n.call \in Rooms /\ n.chat = Members[n.call] /\ n.to \in n.chat /\ n.chat \in chats
        /\ outcomes[n.call] = "matched"
    BY DEF MeetInv, Facts!HandshakeInv, Facts!TypeOK, Facts!Notice, Facts!MutualLikeIsKept
  <2>2. PICK i \in RowIds : matchHistory[i].roomId = n.call
    BY <2>1, MeetTypes DEF outcomes, OutcomeIn
  <2>3. matchHistory[i].outcome = "matched"
    BY <2>1, <2>2, OutcomeOfRow DEF MeetInv
  <2>4. Suited(matchHistory[i].userA, matchHistory[i].userB)
    BY DEF MeetInv, LedgerInv, PairsSound
  <2>5. UsersOf(matchHistory[i]) = n.chat
    BY <2>1, <2>2 DEF MeetInv, RoomsNamed
  <2> QED BY <2>1, <2>2, <2>3, <2>4, <2>5
<1> QED BY <1>1, MeetInvHolds, PTL

\* The users of a matched row have a chat, and without POST /chat/rooms only users of
\* recorded calls have one.
THEOREM ChatsAreOfCallsHolds == MeetSpec => []ChatsAreOfCalls
<1>1. MeetInv => ChatsAreOfCalls
  <2> SUFFICES ASSUME MeetInv PROVE ChatsAreOfCalls
    OBVIOUS
  <2>1. ASSUME NEW i \in RowIds, matchHistory[i].outcome = "matched"
        PROVE  UsersOf(matchHistory[i]) \in chats
    <3>1. matchHistory[i].roomId \in Rooms /\ outcomes[matchHistory[i].roomId] = "matched"
      BY <2>1, OutcomeOfRow DEF MeetInv
    <3> QED BY <3>1 DEF MeetInv, RoomsNamed, Facts!HandshakeInv, Facts!MatchedHasChat
  <2> QED BY <2>1 DEF ChatsAreOfCalls, MeetInv, ChatsFromLikes
<1> QED BY <1>1, MeetInvHolds, PTL
================================================================================
