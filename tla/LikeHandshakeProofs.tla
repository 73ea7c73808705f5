-------------------------- MODULE LikeHandshakeProofs --------------------------
(* HandshakeInv and LikerIsConnected are invariants of LikeHandshake, for any  *)
(* number of users, calls, connections and requests, and any number of crashes *)
(* and failures; and a handshake does to the ledger of matchmaking nothing but *)
(* settle calls.                                                               *)
EXTENDS LikeHandshake, TLAPS

LEMMA FreeType == Free \in Request
BY DEF Free, Request

LEMMA MembersType == ASSUME NEW c \in Calls PROVE Members[c] \in Pair /\ Members[c] \subseteq Users
BY MembersAssumption DEF Pair

-------------------------------------------------------------------------------
(* What the steps of a request do to its slot *)

\* Most steps change one slot of req and at most add chats.
LEMMA SlotStep ==
    ASSUME HandshakeInv, NEW r \in Reqs, NEW q \in Request,
           req' = [req EXCEPT ![r] = q],
           UNCHANGED <<outcome, roomLikedBy, socket, told>>,
           chats \subseteq chats', chats' \subseteq Pair,
           opened' \in 0..MaxOpened, failures' \in 0..MaxFailures, restarts' = restarts,
           q.pc # "free" => q.pair \in Pair,
           q.pc # "free" /\ q.call # Null =>
               /\ q.pair = Members[q.call]
               /\ q.pc \in {"outcome", "emit"} => q.pair \in chats'
               /\ q.pc = "emit" => outcome[q.call] = "matched",
           q.pc \in {"outcome", "emit"} => q.call # Null
    PROVE  HandshakeInv'
<1>1. /\ req' \in [Reqs -> Request] /\ req'[r] = q
      /\ \A s \in Reqs : s # r => req'[s] = req[s]
  BY DEF HandshakeInv, TypeOK
<1>2. TypeOK'
  BY <1>1 DEF HandshakeInv, TypeOK
<1>3. OnlyMembers'
  BY DEF HandshakeInv, OnlyMembers
<1>7. RequestsNamePair'
  BY <1>1 DEF HandshakeInv, RequestsNamePair
<1>4. LikeBackInOrder'
  BY <1>1 DEF HandshakeInv, LikeBackInOrder
<1>5. OnlyLikeBackMarks'
  BY <1>1 DEF HandshakeInv, OnlyLikeBackMarks
<1>6. MutualLikeIsKept' /\ MatchedHasChat'
  BY DEF HandshakeInv, MutualLikeIsKept, MatchedHasChat
<1> QED BY <1>2, <1>3, <1>4, <1>5, <1>6, <1>7 DEF HandshakeInv

LEMMA SlotType ==
    ASSUME HandshakeInv, NEW r \in Reqs
    PROVE  /\ req[r] \in Request /\ chats \subseteq Pair
           /\ opened \in 0..MaxOpened /\ failures \in 0..MaxFailures
BY DEF HandshakeInv, TypeOK

LEMMA FreeStep ==
    ASSUME HandshakeInv, NEW r \in Reqs, req' = [req EXCEPT ![r] = Free],
           UNCHANGED <<outcome, roomLikedBy, socket, told, chats>>,
           opened' = opened, failures' \in 0..MaxFailures, restarts' = restarts
    PROVE  HandshakeInv'
<1>1. Free.pc = "free"
  BY DEF Free
<1> QED BY <1>1, FreeType, SlotType, SlotStep

LEMMA LikeBackStep ==
    ASSUME HandshakeInv, NEW r \in Reqs, NEW s \in Sockets, HandleSendLikeBack(r, s)
    PROVE  HandshakeInv'
<1> DEFINE c == socket[s].call
           u == socket[s].user
           pair == {u, roomLikedBy[c]}
           q == [pc |-> "find", call |-> c, pair |-> pair]
<1>1. c \in Calls /\ u \in Members[c] /\ roomLikedBy[c] \in Members[c] /\ roomLikedBy[c] # u
  BY DEF HandleSendLikeBack, HandshakeInv, TypeOK, OnlyMembers, Connection
<1>2. Members[c] = pair
  <2>1. PICK x, y \in Users : x # y /\ Members[c] = {x, y}
    BY <1>1, MembersAssumption DEF Pair
  <2> QED BY <1>1, <2>1
<1>3. c # Null
  BY <1>1, NullAssumption
<1>4. q \in Request /\ pair \in Pair
  BY <1>1, <1>2, MembersType DEF Request
<1>5. /\ req' = [req EXCEPT ![r] = q]
      /\ UNCHANGED <<outcome, roomLikedBy, socket, told, chats, opened, failures, restarts>>
  BY DEF HandleSendLikeBack
<1>6. q.pc = "find" /\ q.call = c /\ q.pair = pair
  OBVIOUS
<1> HIDE DEF q, pair, c
<1> QED BY <1>2, <1>3, <1>4, <1>5, <1>6, SlotType, SlotStep

LEMMA CreateRoomStep ==
    ASSUME HandshakeInv, NEW r \in Reqs, CreateRoom(r)
    PROVE  HandshakeInv'
<1>1. PICK pair \in Pair : req' = [req EXCEPT ![r] = [pc |-> "find", call |-> Null, pair |-> pair]]
  BY DEF CreateRoom
<1>2. [pc |-> "find", call |-> Null, pair |-> pair] \in Request
  BY DEF Request
<1>3. /\ UNCHANGED <<outcome, roomLikedBy, socket, told, chats, failures, restarts>>
      /\ opened' \in 0..MaxOpened
  BY BoundsAssumption DEF CreateRoom, HandshakeInv, TypeOK
<1> QED BY <1>1, <1>2, <1>3, SlotType, SlotStep

LEMMA FindRoomStep ==
    ASSUME HandshakeInv, NEW r \in Reqs, FindRoom(r)
    PROVE  HandshakeInv'
<1>1. /\ req[r].pc = "find"
      /\ UNCHANGED <<outcome, roomLikedBy, socket, told, chats, opened, failures, restarts>>
      /\ req[r] \in Request
      /\ req[r].pair \in Pair
      /\ req[r].call # Null => req[r].pair = Members[req[r].call]
  BY SlotType DEF FindRoom, HandshakeInv, LikeBackInOrder, RequestsNamePair
<1>2. CASE req[r].pair \in chats /\ req[r].call = Null
  BY <1>1, <1>2, FreeStep, SlotType DEF FindRoom, WithRoom
<1>3. CASE req[r].pair \in chats /\ req[r].call # Null
  <2> DEFINE q == [req[r] EXCEPT !.pc = "outcome"]
  <2>1. req' = [req EXCEPT ![r] = q]
    BY <1>3 DEF FindRoom, WithRoom
  <2>2. q \in Request /\ q.pc = "outcome" /\ q.call = req[r].call /\ q.pair = req[r].pair
    BY <1>1 DEF Request
  <2> HIDE DEF q
  <2> QED BY <1>1, <1>3, <2>1, <2>2, SlotType, SlotStep
<1>4. CASE req[r].pair \notin chats
  <2> DEFINE q == [req[r] EXCEPT !.pc = "save"]
  <2>1. req' = [req EXCEPT ![r] = q]
    BY <1>4 DEF FindRoom
  <2>2. q \in Request /\ q.pc = "save" /\ q.call = req[r].call /\ q.pair = req[r].pair
    BY <1>1 DEF Request
  <2> HIDE DEF q
  <2> QED BY <1>1, <1>4, <2>1, <2>2, SlotType, SlotStep
<1> QED BY <1>2, <1>3, <1>4

LEMMA SaveRoomStep ==
    ASSUME HandshakeInv, NEW r \in Reqs, SaveRoom(r)
    PROVE  HandshakeInv'
<1>1. /\ req[r].pc = "save" /\ chats' = chats \cup {req[r].pair}
      /\ UNCHANGED <<outcome, roomLikedBy, socket, told, opened, failures, restarts>>
      /\ req[r] \in Request
      /\ req[r].call # Null => req[r].pair = Members[req[r].call]
  BY SlotType DEF SaveRoom, HandshakeInv, LikeBackInOrder
<1>2. req[r].pair \in Pair
  BY <1>1 DEF HandshakeInv, RequestsNamePair
<1>3. chats \subseteq chats' /\ chats' \subseteq Pair
  BY <1>1, <1>2, SlotType
<1>4. CASE req[r].call = Null
  <2>1. req' = [req EXCEPT ![r] = Free] /\ Free.pc = "free"
    BY <1>4 DEF SaveRoom, WithRoom, Free
  <2> QED BY <1>1, <1>3, <2>1, FreeType, SlotType, SlotStep
<1>5. CASE req[r].call # Null
  <2> DEFINE q == [req[r] EXCEPT !.pc = "outcome"]
  <2>1. req' = [req EXCEPT ![r] = q]
    BY <1>5 DEF SaveRoom, WithRoom
  <2>2. q \in Request /\ q.pc = "outcome" /\ q.call = req[r].call /\ q.pair = req[r].pair
    BY <1>1 DEF Request
  <2> HIDE DEF q
  <2> QED BY <1>1, <1>3, <1>5, <2>1, <2>2, SlotType, SlotStep
<1> QED BY <1>4, <1>5

\* Marking a call as matched breaks nothing a decline or a like-back relies on.
LEMMA MarkMatchedStep ==
    ASSUME HandshakeInv, NEW r \in Reqs, MarkMatched(r)
    PROVE  HandshakeInv'
<1> DEFINE c == req[r].call
<1>1. /\ req \in [Reqs -> Request] /\ req[r] \in Request /\ outcome \in [Calls -> Outcome]
      /\ req[r].pc = "outcome" /\ c \in Calls /\ c # Null
      /\ req[r].pair \in Pair /\ req[r].pair = Members[c] /\ req[r].pair \in chats
  BY DEF MarkMatched, HandshakeInv, TypeOK, LikeBackInOrder, OnlyLikeBackMarks,
         RequestsNamePair, Request
<1> DEFINE q == [req[r] EXCEPT !.pc = "emit"]
<1>2. q \in Request /\ q.pc = "emit" /\ q.call = c /\ q.pair = req[r].pair
  BY <1>1 DEF Request
<1>3. /\ req' = [req EXCEPT ![r] = q] /\ outcome' = [outcome EXCEPT ![c] = "matched"]
      /\ UNCHANGED <<chats, roomLikedBy, socket, told, opened, failures, restarts>>
  BY DEF MarkMatched
<1> HIDE DEF q, c
<1>4. /\ req' \in [Reqs -> Request] /\ req'[r] = q
      /\ \A s \in Reqs : s # r => req'[s] = req[s]
  BY <1>1, <1>2, <1>3
<1>5. /\ outcome' \in [Calls -> Outcome] /\ outcome'[c] = "matched"
      /\ \A d \in Calls : d # c => outcome'[d] = outcome[d]
  BY <1>1, <1>3 DEF Outcome
<1>6. TypeOK' /\ OnlyMembers'
  BY <1>3, <1>4, <1>5 DEF HandshakeInv, TypeOK, OnlyMembers
<1>7. RequestsNamePair' /\ OnlyLikeBackMarks'
  BY <1>1, <1>2, <1>4 DEF HandshakeInv, RequestsNamePair, OnlyLikeBackMarks
<1>8. LikeBackInOrder'
  <2> SUFFICES ASSUME NEW s \in Reqs, req'[s].pc # "free", req'[s].call # Null
               PROVE  /\ req'[s].pair = Members[req'[s].call]
                      /\ req'[s].pc \in {"outcome", "emit"} => req'[s].pair \in chats'
                      /\ req'[s].pc = "emit" => outcome'[req'[s].call] = "matched"
    BY DEF LikeBackInOrder
  <2>1. CASE s = r
    BY <1>1, <1>2, <1>3, <1>4, <1>5, <2>1
  <2>2. CASE s # r
    <3>1. req'[s] = req[s] /\ req[s].call \in Calls
      BY <1>1, <1>4, <2>2 DEF Request
    <3> QED BY <1>3, <1>5, <3>1 DEF HandshakeInv, LikeBackInOrder
  <2> QED BY <2>1, <2>2
<1>9. MutualLikeIsKept' /\ MatchedHasChat'
  BY <1>1, <1>3, <1>5 DEF HandshakeInv, TypeOK, Notice, MutualLikeIsKept, MatchedHasChat
<1> QED BY <1>6, <1>7, <1>8, <1>9 DEF HandshakeInv

LEMMA EmitStep ==
    ASSUME HandshakeInv, NEW r \in Reqs, EmitMutualLike(r)
    PROVE  HandshakeInv'
<1> DEFINE c == req[r].call
           new == [to : Listening(c), call : {c}, chat : {req[r].pair}]
<1>1. /\ req \in [Reqs -> Request] /\ c \in Calls
      /\ req[r].pair = Members[c] /\ req[r].pair \in chats /\ req[r].pair \in Pair
      /\ outcome[c] = "matched"
  BY DEF EmitMutualLike, HandshakeInv, TypeOK, LikeBackInOrder, OnlyLikeBackMarks,
         RequestsNamePair, Request
<1>2. Listening(c) \subseteq Members[c]
  BY DEF Listening, HandshakeInv, OnlyMembers
<1>3. Members[c] \subseteq Users
  BY <1>1, MembersType
<1>4. \A n \in new : /\ n \in Notice /\ n.call = c /\ n.chat = req[r].pair /\ n.to \in Members[c]
  BY <1>1, <1>2, <1>3 DEF Notice
<1>5. /\ told' = told \cup new
      /\ roomLikedBy' = [roomLikedBy EXCEPT ![c] = Null] /\ req' = [req EXCEPT ![r] = Free]
      /\ UNCHANGED <<outcome, chats, socket, opened, failures, restarts>>
  BY DEF EmitMutualLike
<1> HIDE DEF c, new
<1>6. /\ req' \in [Reqs -> Request] /\ req'[r].pc = "free"
      /\ \A s \in Reqs : s # r => req'[s] = req[s]
  BY <1>1, <1>5, FreeType DEF Free
<1>7. \A d \in Calls : roomLikedBy'[d] \in {roomLikedBy[d], Null}
      /\ roomLikedBy' \in [Calls -> Users \cup {Null}]
  BY <1>1, <1>5 DEF HandshakeInv, TypeOK
<1>8. TypeOK'
  BY <1>4, <1>5, <1>6, <1>7 DEF HandshakeInv, TypeOK
<1>9. OnlyMembers'
  BY <1>5, <1>7 DEF HandshakeInv, OnlyMembers
<1>10. RequestsNamePair' /\ OnlyLikeBackMarks' /\ LikeBackInOrder'
  BY <1>5, <1>6 DEF HandshakeInv, RequestsNamePair, OnlyLikeBackMarks, LikeBackInOrder
<1>11. MutualLikeIsKept' /\ MatchedHasChat'
  BY <1>1, <1>4, <1>5 DEF HandshakeInv, MutualLikeIsKept, MatchedHasChat
<1> QED BY <1>8, <1>9, <1>10, <1>11 DEF HandshakeInv

-------------------------------------------------------------------------------
(* Connections, likes, declines, restarts *)

LEMMA ConnectionStep ==
    ASSUME HandshakeInv, NEW s \in Sockets,
           HandleConnection(s) \/ HandleDisconnect(s) \/ HandleSendLike(s)
    PROVE  HandshakeInv'
<1>1. UNCHANGED <<outcome, chats, req, told, opened, failures, restarts>>
  BY DEF HandleConnection, HandleDisconnect, HandleSendLike
<1>2. /\ socket \in [Sockets -> Connection \cup {Null}]
      /\ roomLikedBy \in [Calls -> Users \cup {Null}]
      /\ OnlyMembers
  BY DEF HandshakeInv, TypeOK
<1>3. /\ socket' \in [Sockets -> Connection \cup {Null}]
      /\ roomLikedBy' \in [Calls -> Users \cup {Null}]
      /\ OnlyMembers'
  <2>1. CASE HandleConnection(s)
    <3>1. PICK c \in Calls :
             \E u \in Members[c] : socket' = [socket EXCEPT ![s] = [user |-> u, call |-> c]]
      BY <2>1 DEF HandleConnection
    <3>2. PICK u \in Members[c] : socket' = [socket EXCEPT ![s] = [user |-> u, call |-> c]]
      BY <3>1
    <3>3. [user |-> u, call |-> c] \in Connection
      BY MembersType DEF Connection
    <3>4. socket'[s] = [user |-> u, call |-> c] /\ \A t \in Sockets : t # s => socket'[t] = socket[t]
      BY <1>2, <3>2
    <3> QED BY <1>2, <2>1, <3>2, <3>3, <3>4 DEF HandleConnection, OnlyMembers
  <2>2. CASE HandleDisconnect(s)
    BY <1>2, <2>2 DEF HandleDisconnect, OnlyMembers
  <2>3. CASE HandleSendLike(s)
    <3>1. socket[s] \in Connection
      BY <1>2, <2>3 DEF HandleSendLike
    <3> QED BY <1>2, <2>3, <3>1 DEF HandleSendLike, OnlyMembers, Connection
  <2> QED BY <2>1, <2>2, <2>3
<1>4. TypeOK'
  BY <1>1, <1>3 DEF HandshakeInv, TypeOK
<1> QED BY <1>1, <1>3, <1>4
        DEF HandshakeInv, RequestsNamePair, OnlyLikeBackMarks, LikeBackInOrder,
            MutualLikeIsKept, MatchedHasChat

\* A decline takes nothing back: it only finds calls that are still undecided.
LEMMA DeclineStep ==
    ASSUME HandshakeInv, NEW c \in Calls, DeclineMatch(c)
    PROVE  HandshakeInv'
<1>1. /\ outcome \in [Calls -> Outcome] /\ req \in [Reqs -> Request] /\ told \subseteq Notice
      /\ outcome[c] = "default" /\ outcome' = [outcome EXCEPT ![c] = "declined"]
      /\ UNCHANGED <<chats, roomLikedBy, socket, req, told, opened, failures, restarts>>
  BY DEF DeclineMatch, HandshakeInv, TypeOK
<1>2. /\ outcome' \in [Calls -> Outcome]
      /\ \A d \in Calls : outcome[d] = "matched" => outcome'[d] = "matched"
      /\ \A d \in Calls : outcome'[d] = "matched" => outcome[d] = "matched"
  BY <1>1 DEF Outcome
<1>3. TypeOK' /\ OnlyMembers' /\ RequestsNamePair' /\ OnlyLikeBackMarks'
  BY <1>1, <1>2 DEF HandshakeInv, TypeOK, OnlyMembers, RequestsNamePair, OnlyLikeBackMarks
<1>4. LikeBackInOrder'
  <2>1. \A r \in Reqs : req[r].call \in Calls \cup {Null}
    BY <1>1 DEF Request
  <2> QED BY <1>1, <1>2, <2>1 DEF HandshakeInv, LikeBackInOrder
<1>5. MutualLikeIsKept' /\ MatchedHasChat'
  BY <1>1, <1>2 DEF HandshakeInv, MutualLikeIsKept, MatchedHasChat, Notice
<1> QED BY <1>3, <1>4, <1>5 DEF HandshakeInv

LEMMA RestartStep == ASSUME HandshakeInv, Restart PROVE HandshakeInv'
<1>1. /\ req' = [r \in Reqs |-> Free] /\ socket' = [s \in Sockets |-> Null]
      /\ roomLikedBy' = [c \in Calls |-> Null] /\ restarts' \in 0..MaxRestarts
      /\ UNCHANGED <<outcome, chats, told, opened, failures>>
  BY BoundsAssumption DEF Restart, HandshakeInv, TypeOK
<1>2. TypeOK'
  BY <1>1, FreeType DEF HandshakeInv, TypeOK
<1>3. OnlyMembers' /\ RequestsNamePair' /\ OnlyLikeBackMarks' /\ LikeBackInOrder'
  BY <1>1 DEF Free, OnlyMembers, RequestsNamePair, OnlyLikeBackMarks, LikeBackInOrder
<1>4. MutualLikeIsKept' /\ MatchedHasChat'
  BY <1>1 DEF HandshakeInv, MutualLikeIsKept, MatchedHasChat
<1> QED BY <1>2, <1>3, <1>4 DEF HandshakeInv

-------------------------------------------------------------------------------

LEMMA HandshakeInvInit == Init => HandshakeInv
<1> SUFFICES ASSUME Init PROVE HandshakeInv
  OBVIOUS
<1>1. chats \in SUBSET Pair
  BY MembersType DEF Init
<1>2. TypeOK
  BY <1>1, FreeType, BoundsAssumption DEF Init, TypeOK, Outcome
<1>3. OnlyMembers /\ RequestsNamePair /\ OnlyLikeBackMarks /\ LikeBackInOrder
  BY DEF Init, Free, OnlyMembers, RequestsNamePair, OnlyLikeBackMarks, LikeBackInOrder
<1>4. MutualLikeIsKept /\ MatchedHasChat
  BY DEF Init, MutualLikeIsKept, MatchedHasChat
<1> QED BY <1>2, <1>3, <1>4 DEF HandshakeInv

LEMMA HandshakeInvStep == HandshakeInv /\ [Next]_vars => HandshakeInv'
<1> SUFFICES ASSUME HandshakeInv, [Next]_vars PROVE HandshakeInv'
  OBVIOUS
<1>1. ASSUME NEW r \in Reqs, Continue(r) PROVE HandshakeInv'
  <2>1. CASE SaveRejected(r)
    BY <2>1, FreeStep, SlotType DEF SaveRejected
  <2> QED BY <1>1, <2>1, FindRoomStep, SaveRoomStep, MarkMatchedStep, EmitStep DEF Continue
<1>2. ASSUME NEW s \in Sockets, ClientEvent(s) PROVE HandshakeInv'
  BY <1>2, ConnectionStep, LikeBackStep DEF ClientEvent
<1>3. ASSUME NEW r \in Reqs, DatabaseError(r) PROVE HandshakeInv'
  <2>1. failures' \in 0..MaxFailures
    BY <1>3, BoundsAssumption, SlotType DEF DatabaseError
  <2> QED BY <1>3, <2>1, FreeStep DEF DatabaseError
<1>4. CASE Environment
  BY <1>3, <1>4, CreateRoomStep, DeclineStep, RestartStep DEF Environment
<1>5. CASE UNCHANGED vars
  BY <1>5 DEF vars, HandshakeInv, TypeOK, OnlyMembers, RequestsNamePair, OnlyLikeBackMarks,
              LikeBackInOrder, MutualLikeIsKept, MatchedHasChat
<1> QED BY <1>1, <1>2, <1>4, <1>5 DEF Next

THEOREM HandshakeInvHolds == Spec => []HandshakeInv
BY HandshakeInvInit, HandshakeInvStep, PTL DEF Spec

THEOREM HandshakeTypeOKHolds == Spec => []TypeOK
<1>1. HandshakeInv => TypeOK
  BY DEF HandshakeInv
<1> QED BY <1>1, HandshakeInvHolds, PTL

\* Whoever hears mutual_like hears of a saved chat of the two users of a call that
\* stays matched, through declines, crashes and failures.
THEOREM MutualLikeIsKeptHolds == Spec => []MutualLikeIsKept
<1>1. HandshakeInv => MutualLikeIsKept
  BY DEF HandshakeInv
<1> QED BY <1>1, HandshakeInvHolds, PTL

\* The users of a matched call can chat.
THEOREM MatchedHasChatHolds == Spec => []MatchedHasChat
<1>1. HandshakeInv => MatchedHasChat
  BY DEF HandshakeInv
<1> QED BY <1>1, HandshakeInvHolds, PTL

-------------------------------------------------------------------------------
(* The map of likes names connected users *)

LEMMA ListeningStep ==
    ASSUME NEW c \in Calls, NEW u,
           \A s \in Sockets : socket[s] # Null /\ socket[s].call = c /\ socket[s].user = u
                                => socket'[s] = socket[s],
           u \in Listening(c)
    PROVE  u \in Listening(c)'
BY DEF Listening

LEMMA LikerStaysConnected ==
    ASSUME TypeOK, LikerIsConnected, NEW s \in Sockets, ClientEvent(s)
    PROVE  LikerIsConnected'
<1>1. /\ socket \in [Sockets -> Connection \cup {Null}]
      /\ roomLikedBy \in [Calls -> Users \cup {Null}]
  BY DEF TypeOK
<1> SUFFICES ASSUME NEW c \in Calls, roomLikedBy'[c] # Null
             PROVE  roomLikedBy'[c] \in Listening(c)'
  BY DEF LikerIsConnected
<1>2. CASE HandleConnection(s)
  <2>1. roomLikedBy' = roomLikedBy /\ roomLikedBy[c] \in Listening(c)
    BY <1>2 DEF HandleConnection, LikerIsConnected
  <2>2. socket[s] = Null /\ \A t \in Sockets : t # s => socket'[t] = socket[t]
    BY <1>1, <1>2 DEF HandleConnection
  <2> QED BY <2>1, <2>2, ListeningStep
<1>3. CASE HandleDisconnect(s)
  <2>1. c # socket[s].call /\ roomLikedBy'[c] = roomLikedBy[c]
    BY <1>1, <1>3 DEF HandleDisconnect, Connection
  <2>2. \A t \in Sockets : t # s => socket'[t] = socket[t]
    BY <1>1, <1>3 DEF HandleDisconnect
  <2> QED BY <2>1, <2>2, ListeningStep DEF LikerIsConnected
<1>4. CASE HandleSendLike(s)
  <2>1. socket' = socket /\ socket[s] # Null
    BY <1>4 DEF HandleSendLike
  <2>2. CASE c = socket[s].call
    BY <1>1, <1>4, <2>1, <2>2 DEF HandleSendLike, Listening
  <2>3. CASE c # socket[s].call
    BY <1>1, <1>4, <2>1, <2>3 DEF HandleSendLike, LikerIsConnected, Listening
  <2> QED BY <2>2, <2>3
<1>5. CASE \E r \in Reqs : HandleSendLikeBack(r, s)
  BY <1>5 DEF HandleSendLikeBack, LikerIsConnected, Listening
<1> QED BY <1>2, <1>3, <1>4, <1>5 DEF ClientEvent

\* The map of likes never outlives the connection of the liker it names.
THEOREM LikerIsConnectedHolds == Spec => []LikerIsConnected
<1>1. Init => LikerIsConnected
  BY DEF Init, LikerIsConnected
<1>2. HandshakeInv /\ LikerIsConnected /\ [Next]_vars => LikerIsConnected'
  <2> SUFFICES ASSUME HandshakeInv, LikerIsConnected, [Next]_vars PROVE LikerIsConnected'
    OBVIOUS
  <2>0. TypeOK
    BY DEF HandshakeInv
  <2>1. ASSUME NEW s \in Sockets, ClientEvent(s) PROVE LikerIsConnected'
    BY <2>0, <2>1, LikerStaysConnected
  <2>2. ASSUME NEW r \in Reqs, EmitMutualLike(r) PROVE LikerIsConnected'
    BY <2>0, <2>2 DEF EmitMutualLike, TypeOK, LikerIsConnected, Listening
  <2>3. CASE Restart
    BY <2>3 DEF Restart, LikerIsConnected
  <2>4. CASE UNCHANGED <<roomLikedBy, socket>>
    BY <2>4 DEF LikerIsConnected, Listening
  <2>5. \A r \in Reqs : Continue(r) => EmitMutualLike(r) \/ UNCHANGED <<roomLikedBy, socket>>
    BY DEF Continue, FindRoom, SaveRoom, SaveRejected, MarkMatched
  <2>6. Environment => Restart \/ UNCHANGED <<roomLikedBy, socket>>
    BY DEF Environment, CreateRoom, DatabaseError, DeclineMatch
  <2> QED BY <2>1, <2>2, <2>3, <2>4, <2>5, <2>6 DEF Next, vars
<1> QED BY <1>1, <1>2, HandshakeInvHolds, PTL DEF Spec

-------------------------------------------------------------------------------
(* To the ledger of matchmaking, a handshake only settles calls *)

\* The recorded calls. Which of the two users comes first makes no difference here.
UserA(c) == CHOOSE u \in Members[c] : TRUE
UserB(c) == CHOOSE u \in Members[c] : u # UserA(c)
Row(c) == [userA |-> UserA(c), userB |-> UserB(c), roomId |-> c, outcome |-> outcome[c]]
Rows == {Row(c) : c \in Calls}

Ledger == INSTANCE MatchLedger WITH
    calls <- Rows, told <- {}, Rooms <- Calls,
    Pairs <- {<<UserA(c), UserB(c)>> : c \in Calls}

\* The call gets an outcome that the ledger allows, the others keep theirs.
LEMMA OutcomeSettles ==
    ASSUME outcome \in [Calls -> Outcome], NEW c \in Calls,
           NEW to \in {"matched", "declined"},
           to = "declined" => outcome[c] = "default",
           outcome' = [outcome EXCEPT ![c] = to]
    PROVE  Ledger!Settle
<1>1. outcome'[c] = to /\ \A d \in Calls : d # c => outcome'[d] = outcome[d]
  OBVIOUS
<1>2. Row(c)' = [Row(c) EXCEPT !.outcome = to] /\ Row(c).outcome = outcome[c]
  BY <1>1 DEF Row
<1>3. \A d \in Calls : d # c => Row(d)' = Row(d) /\ Row(d) # Row(c)
  BY <1>1 DEF Row
<1>4. Rows' = (Rows \ {Row(c)}) \cup {[Row(c) EXCEPT !.outcome = to]}
  <2> DEFINE new == [Row(c) EXCEPT !.outcome = to]
  <2>1. \A row : row \in Rows' <=> row = Row(c)' \/ \E d \in Calls \ {c} : row = Row(d)'
    BY DEF Rows
  <2>2. \A row : row \in Rows \ {Row(c)} <=> \E d \in Calls \ {c} : row = Row(d)
    BY <1>3 DEF Rows
  <2> HIDE DEF new
  <2> QED BY <1>2, <1>3, <2>1, <2>2 DEF new
<1>5. Row(c) \in Rows
  BY DEF Rows
<1> QED BY <1>2, <1>4, <1>5 DEF Ledger!Settle

\* Whatever likes, like-backs, disconnects, failures and restarts come together, the
\* row of a call changes in one way only: it is settled, and 'matched' is the last
\* word (setRoomOutcome, declineMatch).
THEOREM HandshakeOnlySettlesHolds == Spec => [][Ledger!Settle]_Rows
<1>1. TypeOK /\ [Next]_vars => [Ledger!Settle]_Rows
  <2> SUFFICES ASSUME TypeOK, [Next]_vars PROVE Ledger!Settle \/ Rows' = Rows
    OBVIOUS
  <2>1. outcome \in [Calls -> Outcome] /\ req \in [Reqs -> Request]
    BY DEF TypeOK
  <2>2. CASE outcome' = outcome
    BY <2>2 DEF Rows, Row
  <2>3. ASSUME NEW r \in Reqs, MarkMatched(r), req[r].call \in Calls PROVE Ledger!Settle
    BY <2>1, <2>3, OutcomeSettles DEF MarkMatched
  <2>4. ASSUME NEW r \in Reqs, MarkMatched(r), req[r].call \notin Calls PROVE outcome' = outcome
    BY <2>1, <2>4 DEF MarkMatched
  <2>5. ASSUME NEW c \in Calls, DeclineMatch(c) PROVE Ledger!Settle
    BY <2>1, <2>5, OutcomeSettles DEF DeclineMatch
  <2> QED BY <2>2, <2>3, <2>4, <2>5
          DEF Next, Continue, ClientEvent, Environment, HandleConnection, HandleDisconnect,
              HandleSendLike, HandleSendLikeBack, CreateRoom, FindRoom, SaveRoom, SaveRejected,
              EmitMutualLike, DatabaseError, Restart, vars
<1> QED BY <1>1, HandshakeTypeOKHolds, PTL DEF Spec
================================================================================
