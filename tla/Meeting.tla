-------------------------------- MODULE Meeting --------------------------------
(* From the queue to the chat: the matchmaking queue and the video gateway of  *)
(* one process, sharing the rows of MatchHistory. The queue records a call and *)
(* tells both users of its room; they connect to the gateway with that room,   *)
(* like each other there, and the like-back settles the row the queue saved.   *)
EXTENDS Matchmaking

CONSTANTS
    Members,         \* a room id is random: it is named by the pair it is used for
    Sockets,         \* connections to the video gateway
    LikeReqs,        \* like-backs and POST /chat/rooms in flight at once
    MaxOpened,       \* how many chats are opened by POST /chat/rooms
    MaxLikeFailures  \* how many database calls of the video gateway may reject

ASSUME MembersAssumption ==
    Members \in [Rooms -> {pair \in SUBSET Users : \E u, v \in Users : u # v /\ pair = {u, v}}]
ASSUME MeetingBounds == MaxOpened \in Nat /\ MaxLikeFailures \in Nat

VARIABLES chats, roomLikedBy, socket, likeReq, mutual, opened, likeFailures

queueVars == <<stateStore, activeTickets, userRows, matchHistory, sent, req, failures>>
videoVars == <<chats, roomLikedBy, socket, likeReq, mutual, opened, likeFailures>>
meetVars == <<queueVars, videoVars, restarts>>

\* The outcome column as the gateway sees it, by room id.
OutcomeIn(rows, room) ==
    IF \E i \in DOMAIN rows : rows[i].roomId = room
    THEN rows[CHOOSE i \in DOMAIN rows : rows[i].roomId = room].outcome
    ELSE "default"
outcomes == [room \in Rooms |-> OutcomeIn(matchHistory, room)]

Video == INSTANCE LikeHandshake WITH
    Calls <- Rooms, Reqs <- LikeReqs, MaxFailures <- MaxLikeFailures,
    outcome <- outcomes, req <- likeReq, told <- mutual, failures <- likeFailures

MeetInit ==
    /\ Init
    /\ chats = {}
    /\ roomLikedBy = [c \in Rooms |-> Null]
    /\ socket = [s \in Sockets |-> Null]
    /\ likeReq = [r \in LikeReqs |-> Video!Free]
    /\ mutual = {}
    /\ opened = 0 /\ likeFailures = 0

-------------------------------------------------------------------------------
(* The queue takes its steps; SetRoomOutcome is left to the gateway *)

QueueStep ==
    /\ \/ \E r \in Reqs : Continue(r) \/ DatabaseError(r)
       \/ \E u \in Users : UserCall(u) \/ TicketAges(u)
    /\ \A r \in Reqs : req'[r].pc = "creating" =>
          Members[req'[r].room] = {req'[r].user, req'[r].with}
    /\ UNCHANGED videoVars

-------------------------------------------------------------------------------
(* The gateway takes its steps *)

\* A client knows a room from a notice, or has asked getMyRoomId for the latest of the
\* user's calls, when this call was.
KnowsRoom(u, room) ==
    \/ \E n \in sent : n.to = u /\ n.room = room
    \/ \E i \in RowIds : IsMember(u, matchHistory[i]) /\ matchHistory[i].roomId = room

\* The handshake carries a user and a room. Neither is checked against the call.
HandleConnection(s) ==
    /\ socket[s] = Null
    /\ \E u \in Users, room \in Rooms :
          /\ KnowsRoom(u, room)
          /\ socket' = [socket EXCEPT ![s] = [user |-> u, call |-> room]]
    /\ UNCHANGED <<queueVars, chats, roomLikedBy, likeReq, mutual, opened, likeFailures, restarts>>

\* Seeded bug: the like-back settles only a call whose outcome is still open.
MarkIfOpen(r) ==
    /\ likeReq[r].pc = "outcome"
    /\ SetOutcome(likeReq[r].call, {"default"}, "matched")
    /\ likeReq' = [likeReq EXCEPT ![r].pc = "emit"]
    /\ UNCHANGED <<stateStore, activeTickets, userRows, sent, req, failures, restarts>>
    /\ UNCHANGED <<chats, roomLikedBy, socket, mutual, opened, likeFailures>>

\* setRoomOutcome(roomId, 'matched') on the table of the queue.
MarkMatched(r) ==
    /\ likeReq[r].pc = "outcome"
    /\ SetOutcome(likeReq[r].call, Outcome, "matched")
    /\ likeReq' = [likeReq EXCEPT ![r].pc = "emit"]
    /\ UNCHANGED <<stateStore, activeTickets, userRows, sent, req, failures, restarts>>
    /\ UNCHANGED <<chats, roomLikedBy, socket, mutual, opened, likeFailures>>

\* What does not touch the table is as in LikeHandshake.
GatewayStep ==
    /\ UNCHANGED queueVars
    /\ \/ \E s \in Sockets : \/ Video!HandleDisconnect(s) \/ Video!HandleSendLike(s)
                             \/ \E r \in LikeReqs : Video!HandleSendLikeBack(r, s)
       \/ \E r \in LikeReqs : \/ Video!CreateRoom(r) \/ Video!FindRoom(r)
                              \/ Video!SaveRoom(r) \/ Video!SaveRejected(r)
                              \/ Video!EmitMutualLike(r) \/ Video!DatabaseError(r)

\* The process dies with the memory of both.
RestartBoth ==
    /\ Restart
    /\ roomLikedBy' = [c \in Rooms |-> Null]
    /\ socket' = [s \in Sockets |-> Null]
    /\ likeReq' = [r \in LikeReqs |-> Video!Free]
    /\ UNCHANGED <<chats, mutual, opened, likeFailures>>

-------------------------------------------------------------------------------

MeetNext ==
    \/ QueueStep
    \/ GatewayStep
    \/ \E s \in Sockets : HandleConnection(s)
    \/ \E r \in LikeReqs : MarkMatched(r)
    \/ RestartBoth

MeetSpec == MeetInit /\ [][MeetNext]_meetVars

-------------------------------------------------------------------------------
(* Properties *)

UsersOf(row) == {row.userA, row.userB}

\* Whoever hears mutual_like is a user of a call that the queue recorded for two
\* suited users, that counts as matched, and the chat they hear of is theirs: what
\* the queue checked before the call still describes who can write to whom after it.
MutualLikeOfCall ==
    \A n \in mutual : \E i \in RowIds :
        /\ matchHistory[i].roomId = n.call
        /\ matchHistory[i].outcome = "matched"
        /\ Suited(matchHistory[i].userA, matchHistory[i].userB)
        /\ UsersOf(matchHistory[i]) = n.chat
        /\ n.to \in n.chat
        /\ n.chat \in chats

\* Calls and chats agree: the users of a matched row can chat, and without POST
\* /chat/rooms nobody can but the users of a recorded call, through every crash,
\* failure and disconnect between the notice, the likes and the like-back.
ChatsAreOfCalls ==
    /\ \A i \in RowIds : matchHistory[i].outcome = "matched" => UsersOf(matchHistory[i]) \in chats
    /\ opened = 0 => \A chat \in chats : \E i \in RowIds : UsersOf(matchHistory[i]) = chat

\* Together they behave as each of them does alone: the gateway is an environment
\* the queue was specified for, and the queue one the gateway was specified for. In
\* particular only users of a call get into its room.
ImplementsParts == Spec /\ Video!Spec
================================================================================
