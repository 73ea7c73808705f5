----------------------------- MODULE LikeHandshake -----------------------------
(* From a like in a video call to a chat room: VideoGateway of                 *)
(* src/src/video/video.gateway.ts, with findOrCreateRoom of chats.service.ts   *)
(* and the two writers of a call's outcome in matchmaking.service.ts.          *)
(*                                                                            *)
(* The gateway remembers one liker per call in memory. A like-back awaits two  *)
(* to four database calls; until the last one is answered, likes, disconnects, *)
(* declines and other like-backs of the same call are handled.                 *)
EXTENDS Naturals

CONSTANTS
    Null,
    Users,
    Calls,        \* room ids of recorded matches
    Members,      \* Members[c]: the two users of call c
    Sockets,      \* connections; a user who reconnects may hold two for a while
    Reqs,         \* requests in flight: like-backs and POST /chat/rooms
    MaxOpened,    \* how many chats are opened by POST /chat/rooms
    MaxFailures,  \* how many database calls may reject
    MaxRestarts   \* how many times the process may restart

Pair == {pair \in SUBSET Users : \E u, v \in Users : u # v /\ pair = {u, v}}

ASSUME NullAssumption == Null \notin Users /\ Null \notin Calls
ASSUME MembersAssumption == Members \in [Calls -> Pair]
ASSUME BoundsAssumption == MaxOpened \in Nat /\ MaxFailures \in Nat /\ MaxRestarts \in Nat

VARIABLES
    outcome,     \* the outcome column of the call's MatchHistory row
    chats,       \* the chat_rooms table; (userAId, userBId) is unique and sorted
    roomLikedBy, \* the gateway's Map; a missing key reads as Null
    socket,      \* who a connection belongs to, and in which call's room it is
    req,         \* the requests suspended at an await
    told,        \* mutual_like events delivered
    opened, failures, restarts

vars == <<outcome, chats, roomLikedBy, socket, req, told, opened, failures, restarts>>

Outcome == {"default", "matched", "declined"}
Connection == [user : Users, call : Calls]
Request == [pc : {"free", "find", "save", "outcome", "emit"},
            pair : Pair \cup {Null},    \* the users of the chat room wanted
            call : Calls \cup {Null}]   \* the call of a like-back
Free == [pc |-> "free", pair |-> Null, call |-> Null]
Notice == [to : Users, call : Calls, chat : Pair]

TypeOK ==
    /\ outcome \in [Calls -> Outcome]
    /\ chats \in SUBSET Pair
    /\ roomLikedBy \in [Calls -> Users \cup {Null}]
    /\ socket \in [Sockets -> Connection \cup {Null}]
    /\ req \in [Reqs -> Request]
    /\ told \in SUBSET Notice
    /\ opened \in 0..MaxOpened /\ failures \in 0..MaxFailures /\ restarts \in 0..MaxRestarts

\* Some of the pairs may be in a chat from an earlier call.
Init ==
    /\ outcome = [c \in Calls |-> "default"]
    /\ chats \in SUBSET {Members[c] : c \in Calls}
    /\ roomLikedBy = [c \in Calls |-> Null]
    /\ socket = [s \in Sockets |-> Null]
    /\ req = [r \in Reqs |-> Free]
    /\ told = {}
    /\ opened = 0 /\ failures = 0 /\ restarts = 0

-------------------------------------------------------------------------------
(* Connections *)

HandleConnection(s) ==
    /\ socket[s] = Null
    /\ \E c \in Calls : \E u \in Members[c] :
          socket' = [socket EXCEPT ![s] = [user |-> u, call |-> c]]
    /\ UNCHANGED <<outcome, chats, roomLikedBy, req, told, opened, failures, restarts>>

\* Seeded bug: the like of the call is left behind.
DisconnectOnly(s) ==
    /\ socket[s] # Null
    /\ socket' = [socket EXCEPT ![s] = Null]
    /\ UNCHANGED <<outcome, chats, roomLikedBy, req, told, opened, failures, restarts>>

\* The like of the call is forgotten, whoever of the two disconnects.
HandleDisconnect(s) ==
    /\ socket[s] # Null
    /\ roomLikedBy' = [roomLikedBy EXCEPT ![socket[s].call] = Null]
    /\ socket' = [socket EXCEPT ![s] = Null]
    /\ UNCHANGED <<outcome, chats, req, told, opened, failures, restarts>>

-------------------------------------------------------------------------------
(* Likes *)

HandleSendLike(s) ==
    /\ socket[s] # Null
    /\ roomLikedBy' = [roomLikedBy EXCEPT ![socket[s].call] = socket[s].user]
    /\ UNCHANGED <<outcome, chats, socket, req, told, opened, failures, restarts>>

HandleSendLikeBack(r, s) ==
    /\ socket[s] # Null
    /\ req[r].pc = "free"
    /\ roomLikedBy[socket[s].call] \notin {Null, socket[s].user}
    /\ req' = [req EXCEPT ![r] =
          [pc |-> "find", call |-> socket[s].call,
           pair |-> {socket[s].user, roomLikedBy[socket[s].call]}]]
    /\ UNCHANGED <<outcome, chats, roomLikedBy, socket, told, opened, failures, restarts>>

\* POST /chat/rooms asks for the same chat rooms.
CreateRoom(r) ==
    /\ req[r].pc = "free"
    /\ opened < MaxOpened
    /\ opened' = opened + 1
    /\ \E pair \in Pair :
          req' = [req EXCEPT ![r] = [pc |-> "find", call |-> Null, pair |-> pair]]
    /\ UNCHANGED <<outcome, chats, roomLikedBy, socket, told, failures, restarts>>

-------------------------------------------------------------------------------
(* findOrCreateRoom, and what a like-back does with the room *)

\* What follows once the chat room is there.
WithRoom(r) == IF req[r].call = Null THEN Free ELSE [req[r] EXCEPT !.pc = "outcome"]

\* Seeded bug: a room is created without looking for one.
FindNothing(r) ==
    /\ req[r].pc = "find"
    /\ req' = [req EXCEPT ![r].pc = "save"]
    /\ UNCHANGED <<outcome, chats, roomLikedBy, socket, told, opened, failures, restarts>>

FindRoom(r) ==
    /\ req[r].pc = "find"
    /\ req' = [req EXCEPT ![r] = IF req[r].pair \in chats THEN WithRoom(r)
                                 ELSE [req[r] EXCEPT !.pc = "save"]]
    /\ UNCHANGED <<outcome, chats, roomLikedBy, socket, told, opened, failures, restarts>>

\* The other user is looked up, then the room is inserted.
SaveRoom(r) ==
    /\ req[r].pc = "save"
    /\ req[r].pair \notin chats
    /\ chats' = chats \cup {req[r].pair}
    /\ req' = [req EXCEPT ![r] = WithRoom(r)]
    /\ UNCHANGED <<outcome, roomLikedBy, socket, told, opened, failures, restarts>>

\* Somebody was faster: the unique index rejects the insert, the like-back is caught
\* and logged, and nobody hears of it.
SaveRejected(r) ==
    /\ req[r].pc = "save"
    /\ req[r].pair \in chats
    /\ req' = [req EXCEPT ![r] = Free]
    /\ UNCHANGED <<outcome, chats, roomLikedBy, socket, told, opened, failures, restarts>>

\* Seeded bug: the outcome is set while the chat room is still being looked for.
MarkEarly(r) ==
    /\ req[r].pc \in {"save", "outcome"} /\ req[r].call # Null
    /\ outcome' = [outcome EXCEPT ![req[r].call] = "matched"]
    /\ req' = [req EXCEPT ![r].pc = "emit"]
    /\ UNCHANGED <<chats, roomLikedBy, socket, told, opened, failures, restarts>>

\* setRoomOutcome(roomId, 'matched'), whatever the outcome was.
MarkMatched(r) ==
    /\ req[r].pc = "outcome"
    /\ outcome' = [outcome EXCEPT ![req[r].call] = "matched"]
    /\ req' = [req EXCEPT ![r].pc = "emit"]
    /\ UNCHANGED <<chats, roomLikedBy, socket, told, opened, failures, restarts>>

Listening(c) == {socket[s].user : s \in {t \in Sockets : socket[t] # Null /\ socket[t].call = c}}

EmitMutualLike(r) ==
    /\ req[r].pc = "emit"
    /\ told' = told \cup [to : Listening(req[r].call), call : {req[r].call},
                          chat : {req[r].pair}]
    /\ roomLikedBy' = [roomLikedBy EXCEPT ![req[r].call] = Null]
    /\ req' = [req EXCEPT ![r] = Free]
    /\ UNCHANGED <<outcome, chats, socket, opened, failures, restarts>>

-------------------------------------------------------------------------------
(* The other writer of the outcome, failures and restarts *)

\* declineMatch: one UPDATE ... WHERE outcome = 'default'.
DeclineMatch(c) ==
    /\ outcome[c] = "default"
    /\ outcome' = [outcome EXCEPT ![c] = "declined"]
    /\ UNCHANGED <<chats, roomLikedBy, socket, req, told, opened, failures, restarts>>

DatabaseError(r) ==
    /\ req[r].pc \in {"find", "save", "outcome"}
    /\ failures < MaxFailures
    /\ failures' = failures + 1
    /\ req' = [req EXCEPT ![r] = Free]
    /\ UNCHANGED <<outcome, chats, roomLikedBy, socket, told, opened, restarts>>

Restart ==
    /\ restarts < MaxRestarts
    /\ restarts' = restarts + 1
    /\ roomLikedBy' = [c \in Calls |-> Null]
    /\ socket' = [s \in Sockets |-> Null]
    /\ req' = [r \in Reqs |-> Free]
    /\ UNCHANGED <<outcome, chats, told, opened, failures>>

-------------------------------------------------------------------------------

Continue(r) ==
    \/ FindRoom(r) \/ SaveRoom(r) \/ SaveRejected(r) \/ MarkMatched(r) \/ EmitMutualLike(r)

ClientEvent(s) ==
    \/ HandleConnection(s) \/ HandleDisconnect(s) \/ HandleSendLike(s)
    \/ \E r \in Reqs : HandleSendLikeBack(r, s)

Environment ==
    \/ \E r \in Reqs : CreateRoom(r) \/ DatabaseError(r)
    \/ \E c \in Calls : DeclineMatch(c)
    \/ Restart

Next ==
    \/ \E r \in Reqs : Continue(r)
    \/ \E s \in Sockets : ClientEvent(s)
    \/ Environment

Spec == Init /\ [][Next]_vars

\* Every awaited database call is answered and the event loop resumes it.
FairSpec == Spec /\ \A r \in Reqs : WF_vars(Continue(r))

-------------------------------------------------------------------------------
(* Properties *)

\* Whoever hears mutual_like hears of the chat room of the two users of that very
\* call, the room is saved, the listener is one of the two, and the call counts as
\* matched from then on: no decline, crash or failure in between takes that back.
MutualLikeIsKept ==
    \A n \in told : /\ n.chat = Members[n.call] /\ n.to \in n.chat
                    /\ n.chat \in chats
                    /\ outcome[n.call] = "matched"

\* A call counts as matched only if its users can chat, even if the process dies
\* between two of the writes.
MatchedHasChat == \A c \in Calls : outcome[c] = "matched" => Members[c] \in chats

\* The map of likes does not leak: the liker it names is connected to that call.
LikerIsConnected ==
    \A c \in Calls : roomLikedBy[c] # Null => roomLikedBy[c] \in Listening(c)

MatchedCall(c) == outcome[c] = "matched"

\* A like-back that found the like makes the call matched, however often the button is
\* pressed meanwhile, unless a database call fails or the process restarts. Where the
\* two had no chat yet, it may also lose the race for its insert: to a chat they open
\* by hand, or to a like-back in another call of the same two, which is matched instead.
LikeBackMatches ==
    \A c \in Calls :
        /\ (\E r \in Reqs : req[r].pc = "find" /\ req[r].call = c /\ req[r].pair \in chats)
              ~> (MatchedCall(c) \/ failures + restarts > 0)
        /\ (\E r \in Reqs : req[r].pc # "free" /\ req[r].call = c)
              ~> \/ \E d \in Calls : Members[d] = Members[c] /\ MatchedCall(d)
                 \/ failures + restarts + opened > 0

-------------------------------------------------------------------------------
(* What MutualLikeIsKept and MatchedHasChat rest on *)

\* A like-back is for the two users of its call, and has its chat room saved before
\* it sets the outcome, and its outcome set before it tells anybody.
LikeBackInOrder ==
    \A r \in Reqs : req[r].pc # "free" /\ req[r].call # Null =>
        /\ req[r].pair = Members[req[r].call]
        /\ req[r].pc \in {"outcome", "emit"} => req[r].pair \in chats
        /\ req[r].pc = "emit" => outcome[req[r].call] = "matched"

\* A request knows the users of the chat room it is after.
RequestsNamePair == \A r \in Reqs : req[r].pc # "free" => req[r].pair \in Pair

\* Only like-backs set outcomes.
OnlyLikeBackMarks == \A r \in Reqs : req[r].pc \in {"outcome", "emit"} => req[r].call # Null

\* Whom a socket or a like belongs to is a user of the call.
OnlyMembers ==
    /\ \A s \in Sockets : socket[s] # Null => socket[s].user \in Members[socket[s].call]
    /\ \A c \in Calls : roomLikedBy[c] # Null => roomLikedBy[c] \in Members[c]

HandshakeInv ==
    /\ TypeOK /\ OnlyMembers /\ RequestsNamePair /\ LikeBackInOrder /\ OnlyLikeBackMarks
    /\ MutualLikeIsKept /\ MatchedHasChat
================================================================================
