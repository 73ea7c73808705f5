----------------------------- MODULE PushTokens -----------------------------
(***************************************************************************)
(* Device tokens and push notifications:                                   *)
(* NotificationsService (src/src/notifications/notifications.service.ts).  *)
(*                                                                         *)
(* A token is sent to Expo, which answers with a ticket; fifteen seconds   *)
(* later the receipt of the ticket says whether the device was still       *)
(* there.  Meanwhile the user may have registered another token, removed   *)
(* it, or come back with the same one, and requests that save a whole user *)
(* (UsersService.updateProfile) write back the token they read.  Expo is   *)
(* external.                                                               *)
(***************************************************************************)
EXTENDS Naturals, FiniteSets

CONSTANTS
    Users, Tokens, Null,
    ExpoTokens,         \* the tokens that have the form of an Expo token
    FirstToken,         \* what the column of each user holds at first
    Senders,            \* slots for notifications on their way
    MaxRegistrations,   \* bound on the tokens registered or removed
    MaxPushes           \* bound on the receipts waiting to be checked

ASSUME PushAssumption ==
    /\ Null \notin Tokens /\ ExpoTokens \subseteq Tokens
    /\ FirstToken \in [Users -> Tokens \cup {Null}]
    /\ MaxRegistrations \in Nat /\ MaxPushes \in Nat

VARIABLES
    deviceToken,    \* the column of the user rows
    registrations,
    loaded,         \* of each user, the tokens that requests about to save it have read
    push,           \* the notification of each slot
    receipts,       \* tokens of the tickets whose timers are running: how many
                    \* of each, by what Expo found
    \* what happened, for the properties
    wanted,         \* the token each user registered last, Null when it was removed
    absent,         \* users whose token of then was found to have no device
    disturbed       \* users whose token was since changed behind their back: by a
                    \* save, by the UPDATE of another token's removal, or by a bad
                    \* receipt of the same token that was already on its way

columns == <<deviceToken, registrations, loaded, wanted, absent, disturbed>>
pushVars == <<columns, push, receipts>>

NoPush == [pc |-> "none", user |-> Null, token |-> Null]

Push == [pc : {"none", "find", "clear", "send", "sent", "failed"},
         user : Users \cup {Null}, token : Tokens \cup {Null}]

Receipt == [token : Tokens, status : {"ok", "DeviceNotRegistered"}]

PushInit ==
    /\ deviceToken = FirstToken /\ wanted = FirstToken
    /\ registrations = 0
    /\ loaded = [u \in Users |-> {}]
    /\ push = [s \in Senders |-> NoPush]
    /\ receipts = [x \in Receipt |-> 0]
    /\ absent = {} /\ disturbed = {}

-----------------------------------------------------------------------------
(* The column. *)

Gone(t) == [token |-> t, status |-> "DeviceNotRegistered"]

\* A bad receipt that is on its way knows only the token, not when it was registered.
SetToken(u, t) ==
    /\ registrations < MaxRegistrations
    /\ registrations' = registrations + 1
    /\ deviceToken' = [deviceToken EXCEPT ![u] = t]
    /\ wanted' = [wanted EXCEPT ![u] = t]
    /\ absent' = absent \ {u}
    /\ disturbed' = IF t # Null /\ receipts[Gone(t)] > 0 THEN disturbed \cup {u}
                                                         ELSE disturbed \ {u}
    /\ UNCHANGED <<loaded, push, receipts>>

RegisterDeviceToken(u) == \E t \in ExpoTokens : SetToken(u, t)

RemoveDeviceToken(u) == SetToken(u, Null)

\* A request that changes the profile reads the whole user ...
LoadUser(u) ==
    /\ loaded' = [loaded EXCEPT ![u] = @ \cup {deviceToken[u]}]
    /\ UNCHANGED <<deviceToken, registrations, wanted, absent, disturbed, push, receipts>>

\* ... and writes it back, the token it read included.  Others may have read the same.
SaveUser(u) ==
    /\ \E t \in loaded[u] :
           /\ deviceToken' = [deviceToken EXCEPT ![u] = t]
           /\ disturbed' = IF t = deviceToken[u] THEN disturbed ELSE disturbed \cup {u}
    /\ UNCHANGED <<registrations, loaded, wanted, absent, push, receipts>>

-----------------------------------------------------------------------------
(* sendPushNotification, awaited by its caller. *)

SendPushNotification(s, u) ==
    push' = [push EXCEPT ![s] = [NoPush EXCEPT !.pc = "find", !.user = u]]

\* Without a token nothing is sent, and one that is no token of Expo is removed.
FindToken(s) ==
    LET token == deviceToken[push[s].user]
    IN  /\ push[s].pc = "find"
        /\ push' = [push EXCEPT ![s].token = token,
                                ![s].pc = CASE token = Null -> "sent"
                                            [] token \in ExpoTokens -> "send"
                                            [] OTHER -> "clear"]
        /\ UNCHANGED <<columns, receipts>>

\* The UPDATE is by the user's id: it takes whatever the column holds by now.
ClearInvalid(s) ==
    LET u == push[s].user
    IN  /\ push[s].pc = "clear"
        /\ push' = [push EXCEPT ![s].pc = "sent"]
        /\ deviceToken' = [deviceToken EXCEPT ![u] = Null]
        /\ disturbed' = IF deviceToken[u] \in {push[s].token, Null} THEN disturbed
                                                                    ELSE disturbed \cup {u}
        /\ UNCHANGED <<registrations, loaded, wanted, absent, receipts>>

Running == {x \in Receipt : receipts[x] > 0}

\* Expo takes the message, with a ticket that is in order or not.  What the
\* receipt will say depends on the device; it is scheduled before the caller
\* goes on.
ExpoAnswers(s) ==
    /\ push[s].pc = "send"
    /\ push' = [push EXCEPT ![s].pc = "sent"]
    /\ \/ UNCHANGED <<receipts, absent>>
       \/ \E x \in {y \in Receipt : y.token = push[s].token} :
              /\ receipts[x] < MaxPushes
              /\ receipts' = [receipts EXCEPT ![x] = @ + 1]
              /\ absent' = IF x.status = "ok" THEN absent
                           ELSE absent \cup {u \in Users : wanted[u] = x.token}
    /\ UNCHANGED <<deviceToken, registrations, loaded, wanted, disturbed>>

\* The call is rejected, be it that Expo refused it or that its answer was lost.
ExpoFails(s) ==
    /\ push[s].pc = "send"
    /\ push' = [push EXCEPT ![s].pc = "failed"]
    /\ UNCHANGED <<columns, receipts>>

\* Seeded bug: a token is cleared whatever the receipt says.
ClearChecked(x) ==
    [u \in Users |-> IF deviceToken[u] = x.token THEN Null ELSE deviceToken[u]]

\* UPDATE user SET deviceToken = NULL WHERE deviceToken = token
ClearToken(x) ==
    [u \in Users |-> IF deviceToken[u] = x.token /\ x.status = "DeviceNotRegistered"
                     THEN Null ELSE deviceToken[u]]

\* The timer fires and Expo has the receipt, or the check fails and is dropped.
CheckReceipts(x) ==
    /\ receipts[x] > 0
    /\ receipts' = [receipts EXCEPT ![x] = @ - 1]
    /\ deviceToken' \in {deviceToken, ClearToken(x)}
    /\ UNCHANGED <<registrations, loaded, wanted, absent, disturbed, push>>

\* The timers are lost when the process ends, and the requests.
PushCrash ==
    /\ push' = [s \in Senders |-> NoPush]
    /\ receipts' = [x \in Receipt |-> 0]
    /\ loaded' = [u \in Users |-> {}]
    /\ UNCHANGED <<deviceToken, registrations, wanted, absent, disturbed>>

DeviceStep ==
    \E u \in Users :
        RegisterDeviceToken(u) \/ RemoveDeviceToken(u) \/ LoadUser(u) \/ SaveUser(u)

-----------------------------------------------------------------------------
\* A user has the token registered last, unless its device was found gone or it was no
\* token of Expo: a receipt that comes late (:138-158) takes away no token registered
\* meanwhile, be it by the user or by another one on the same device.  Two things of
\* the code excuse it, until the user registers again: whole-entity saves and the
\* UPDATE by id write over a token they have not seen (users.service.ts:342, :44),
\* and a bad receipt does not know that its token was registered anew (:154).
TokensAreKept ==
    \A u \in Users :
        \/ deviceToken[u] = wanted[u]
        \/ u \in disturbed
        \/ deviceToken[u] = Null /\ (u \in absent \/ wanted[u] \notin ExpoTokens)

\* What the receipts on their way may take away.
ReceiptsHaveCause ==
    \A t \in Tokens : receipts[Gone(t)] > 0 =>
        \A u \in Users : wanted[u] = t => u \in absent \cup disturbed

\* A notification is for a user, and only a token that is none of Expo's is removed.
PushesAreSound ==
    \A s \in Senders :
        /\ push[s].pc \in {"find", "clear"} => push[s].user \in Users
        /\ push[s].pc = "clear" => push[s].token \in Tokens \ ExpoTokens
=============================================================================
