---------------------------- MODULE ChatMessages ----------------------------
(***************************************************************************)
(* Sending and reading the messages of one chat: ChatService.sendMessage   *)
(* and getMessages (src/src/chats/chats.service.ts) with the sockets of    *)
(* ChatGateway and the notifications of PushTokens.                        *)
(*                                                                         *)
(* A message is saved in a transaction, which has a connection of the pool *)
(* from Begin to its end and the lock on the chat's row from Touch on.     *)
(* Inside it, the service asks for further connections (it uses the        *)
(* repositories, not the transaction's manager) and sends the push.  After *)
(* the commit the message is broadcast.  createdAt is now() in PostgreSQL, *)
(* the time at which the transaction began, in microseconds; what a client *)
(* sends back as cursor is cut to milliseconds.                            *)
(***************************************************************************)
EXTENDS PushTokens, Sequences, FiniteSetsExt

CONSTANTS
    KeySets,        \* for which members the messages of each user may bring keys
    PoolSize,       \* connections of the pool
    TicksPerMs,     \* microseconds of a millisecond
    MaxTime, MaxMessages, MaxLimit, MaxFailures, MaxCrashes     \* bounds

ASSUME ChatAssumption ==
    /\ IsFiniteSet(Senders)
    /\ KeySets \in [Users -> SUBSET (SUBSET Users)]
    /\ PoolSize \in Nat \ {0} /\ TicksPerMs \in Nat \ {0}
    /\ \A n \in {MaxTime, MaxMessages, MaxLimit, MaxFailures, MaxCrashes} : n \in Nat

VARIABLES
    now,        \* the clock
    msgs,       \* every row ever inserted: when, by whom, with keys for whom, and
                \* open, committed or undone
    keys,       \* the key rows: which message, for whom
    req,        \* sendMessage, one request per slot of Senders
    joined,     \* users with a socket in the chat's socket room
    reader,     \* the answer that each user's request has read the messages of, and
                \* not yet the keys
    view,       \* what each client has: messages, next cursor, pages cut, in sync?
    cut,        \* messages whose transaction was broken off after the push: by a
                \* rejected call of Expo, an error of the commit or a crash
    pushed,     \* messages that were delivered to Expo
    failures, crashes

chatVars == <<now, msgs, keys, req, joined, reader, view, cut, pushed, failures, crashes>>
vars == <<pushVars, chatVars>>

Idle == [pc |-> "idle", by |-> Null, keyed |-> {}, at |-> 0, msg |-> 0]

Request == [pc : {"idle", "begin", "insert", "touch", "lookup", "push", "commit", "broadcast"},
            by : Users \cup {Null}, keyed : SUBSET Users, at : 0..MaxTime, msg : Nat]

Message == [at : 0..MaxTime, by : Users, keyed : SUBSET Users,
            state : {"open", "committed", "undone"}]

NoView == [seen |-> {}, more |-> TRUE, cursor |-> MaxTime + 1, ends |-> {}, synced |-> FALSE]

NoAnswer == [kind |-> "none", answer |-> NoView]

Init ==
    /\ PushInit
    /\ now = 0
    /\ msgs = <<>> /\ keys = {}
    /\ req = [s \in Senders |-> Idle]
    /\ joined = {}
    /\ reader = [u \in Users |-> NoAnswer]
    /\ view = [u \in Users |-> NoView]
    /\ cut = {} /\ pushed = {}
    /\ failures = 0 /\ crashes = 0

-----------------------------------------------------------------------------
(* Connections, locks, rows. *)

Ms(t) == (t \div TicksPerMs) * TicksPerMs

InTransaction == {"insert", "touch", "lookup", "push", "commit"}

Held == {s \in Senders : req[s].pc \in InTransaction}

ConnectionFree == Cardinality(Held) < PoolSize

\* The lock on the chat's row, from the UPDATE of updatedAt to the end.
LockHolders == {s \in Senders : req[s].pc \in {"lookup", "push", "commit"}}

\* Sends whose message is not in the table yet, and those that have it open there.
Unsaved == {s \in Senders : req[s].pc \in {"begin", "insert"}}

Saved(s) == req[s].pc \in InTransaction \ {"insert"}

\* Seeded bug: the row is locked as soon as the message is saved.
LockedEarly == \E s \in Senders : Saved(s)

RoomLocked == LockHolders # {}

Visible == {m \in DOMAIN msgs : msgs[m].state = "committed"}

\* A process of the server waits for a connection or for the lock.
Blocked(s) ==
    \/ req[s].pc \in {"begin", "lookup"} /\ ~ConnectionFree
    \/ req[s].pc = "push" /\ push[s].pc \in {"find", "clear"} /\ ~ConnectionFree
    \/ req[s].pc = "touch" /\ RoomLocked

\* Everything that has a connection waits, and there is none left.
Exhausted == ~ConnectionFree /\ \A s \in Held : Blocked(s)

-----------------------------------------------------------------------------
(* sendMessage *)

SetRequest(s, r) == req' = [req EXCEPT ![s] = r]

\* assertRoomMember lets the members through.  The keys the client sends need not be
\* for every member.
SendMessage(s, u) ==
    /\ req[s] = Idle
    /\ ConnectionFree
    /\ Len(msgs) + Cardinality(Unsaved) < MaxMessages
    /\ \E keyed \in KeySets[u] :
           SetRequest(s, [Idle EXCEPT !.pc = "begin", !.by = u, !.keyed = keyed])
    /\ UNCHANGED <<pushVars, now, msgs, keys, joined, reader, view, cut, pushed,
                   failures, crashes>>

\* Time may have passed since the last transaction began.
Begin(s) ==
    /\ req[s].pc = "begin"
    /\ ConnectionFree
    /\ now' \in now..MaxTime
    /\ SetRequest(s, [req[s] EXCEPT !.pc = "insert", !.at = now'])
    /\ UNCHANGED <<pushVars, msgs, keys, joined, reader, view, cut, pushed,
                   failures, crashes>>

NewMessage(s) ==
    [at |-> req[s].at, by |-> req[s].by, keyed |-> req[s].keyed, state |-> "open"]

\* Seeded bug: the message is saved on a connection of its own.
InsertOutside(s) ==
    /\ req[s].pc = "insert"
    /\ msgs' = Append(msgs, [NewMessage(s) EXCEPT !.state = "committed"])
    /\ SetRequest(s, [req[s] EXCEPT !.pc = "touch", !.msg = Len(msgs')])
    /\ UNCHANGED <<pushVars, now, keys, joined, reader, view, cut, pushed,
                   failures, crashes>>

Insert(s) ==
    /\ req[s].pc = "insert"
    /\ msgs' = Append(msgs, NewMessage(s))
    /\ SetRequest(s, [req[s] EXCEPT !.pc = "touch", !.msg = Len(msgs')])
    /\ UNCHANGED <<pushVars, now, keys, joined, reader, view, cut, pushed,
                   failures, crashes>>

\* The key rows that the DTO brings (two for one user break the unique index:
\* DatabaseError), then the UPDATE of the chat's row.
Touch(s) ==
    /\ req[s].pc = "touch"
    /\ ~RoomLocked
    /\ keys' = keys \cup {<<req[s].msg, u>> : u \in req[s].keyed}
    /\ SetRequest(s, [req[s] EXCEPT !.pc = "lookup"])
    /\ UNCHANGED <<pushVars, now, msgs, joined, reader, view, cut, pushed,
                   failures, crashes>>

\* Seeded bug: the push goes out before the sender is looked up.
LookUpPushed(s) ==
    /\ req[s].pc = "lookup"
    /\ ConnectionFree
    /\ pushed' = pushed \cup {req[s].msg}
    /\ \E u \in Users \ {req[s].by} : SendPushNotification(s, u)
    /\ SetRequest(s, [req[s] EXCEPT !.pc = "push"])
    /\ UNCHANGED <<columns, receipts, now, msgs, keys, joined, reader, view, cut,
                   failures, crashes>>

\* The room, the sender and the picture, each on another connection of the pool;
\* then the other member of the chat is notified.
LookUp(s) ==
    /\ req[s].pc = "lookup"
    /\ ConnectionFree
    /\ \E u \in Users \ {req[s].by} : SendPushNotification(s, u)
    /\ SetRequest(s, [req[s] EXCEPT !.pc = "push"])
    /\ UNCHANGED <<columns, receipts, now, msgs, keys, joined, reader, view, cut,
                   pushed, failures, crashes>>

\* The steps of sendPushNotification that the transaction awaits.
Notify(s) ==
    /\ req[s].pc = "push"
    /\ \/ ConnectionFree /\ FindToken(s) /\ UNCHANGED pushed
       \/ ExpoAnswers(s) /\ pushed' = pushed \cup {req[s].msg}
       \/ ConnectionFree /\ ClearInvalid(s) /\ UNCHANGED pushed
       \/ ExpoFails(s) /\ pushed' \in {pushed, pushed \cup {req[s].msg}}
    /\ UNCHANGED <<now, msgs, keys, req, joined, reader, view, cut, failures, crashes>>

\* Seeded bug: the message is broadcast inside the transaction.
NotifiedEarly(s) ==
    /\ req[s].pc = "push" /\ push[s].pc = "sent"
    /\ push' = [push EXCEPT ![s] = NoPush]
    /\ view' = [u \in Users |-> IF u \in joined
                                THEN [view[u] EXCEPT !.seen = @ \cup {req[s].msg}]
                                ELSE view[u]]
    /\ SetRequest(s, [req[s] EXCEPT !.pc = "commit"])
    /\ UNCHANGED <<columns, receipts, now, msgs, keys, joined, reader, cut, pushed,
                   failures, crashes>>

Notified(s) ==
    /\ req[s].pc = "push" /\ push[s].pc = "sent"
    /\ push' = [push EXCEPT ![s] = NoPush]
    /\ SetRequest(s, [req[s] EXCEPT !.pc = "commit"])
    /\ UNCHANGED <<columns, receipts, now, msgs, keys, joined, reader, view, cut,
                   pushed, failures, crashes>>

Commit(s) ==
    /\ req[s].pc = "commit"
    /\ msgs' = [msgs EXCEPT ![req[s].msg].state = "committed"]
    /\ SetRequest(s, [req[s] EXCEPT !.pc = "broadcast"])
    /\ UNCHANGED <<pushVars, now, keys, joined, reader, view, cut, pushed,
                   failures, crashes>>

\* broadcastNewMessage
Broadcast(s) ==
    /\ req[s].pc = "broadcast"
    /\ view' = [u \in Users |-> IF u \in joined
                                THEN [view[u] EXCEPT !.seen = @ \cup {req[s].msg}]
                                ELSE view[u]]
    /\ SetRequest(s, Idle)
    /\ UNCHANGED <<pushVars, now, msgs, keys, joined, reader, cut, pushed,
                   failures, crashes>>

\* Everything the transaction did is taken back, its keys with it.
Rollback(s) ==
    /\ msgs' = [m \in DOMAIN msgs |-> IF m = req[s].msg THEN [msgs[m] EXCEPT !.state = "undone"]
                                                        ELSE msgs[m]]
    /\ keys' = {k \in keys : k[1] # req[s].msg}
    /\ push' = [push EXCEPT ![s] = NoPush]
    /\ SetRequest(s, Idle)
    /\ UNCHANGED <<columns, receipts, now, joined, reader, view, pushed, crashes>>

\* A push that fails takes the message back, whether it was delivered or not.
PushRollback(s) ==
    /\ req[s].pc = "push" /\ push[s].pc = "failed"
    /\ Rollback(s)
    /\ cut' = cut \cup {req[s].msg}
    /\ UNCHANGED failures

\* A query fails, or the commit.
DatabaseError(s) ==
    /\ failures < MaxFailures
    /\ \/ req[s].pc \in {"insert", "touch", "lookup", "commit"}
       \/ req[s].pc = "push" /\ push[s].pc \in {"find", "clear"}
    /\ Rollback(s)
    /\ cut' = IF req[s].pc = "commit" THEN cut \cup {req[s].msg} ELSE cut
    /\ failures' = failures + 1

-----------------------------------------------------------------------------
(* The clients: join_room, leave_room, getMessages page by page. *)

HandleJoinRoom(u) ==
    /\ u \notin joined
    /\ joined' = joined \cup {u}
    /\ UNCHANGED <<pushVars, now, msgs, keys, req, reader, view, cut, pushed, failures, crashes>>

\* A client that leaves the chat drops the answer it waits for, and reads the chat
\* anew when it comes back.
HandleLeaveRoom(u) ==
    /\ u \in joined
    /\ joined' = joined \ {u}
    /\ view' = [view EXCEPT ![u] = NoView]
    /\ reader' = [reader EXCEPT ![u] = NoAnswer]
    /\ UNCHANGED <<pushVars, now, msgs, keys, req, cut, pushed, failures, crashes>>

Oldest(page) == Min({msgs[m].at : m \in page})

\* The newest messages before the cursor; of those of one time, any.
IsPage(page, cursor, limit) ==
    LET found == {m \in Visible : msgs[m].at < cursor}
    IN  /\ page \subseteq found
        /\ Cardinality(page) = Min({limit, Cardinality(found)})
        /\ \A m \in page : \A n \in found \ page : msgs[m].at >= msgs[n].at

\* Seeded bug: the row that shows that there are more is dropped and not asked for
\* again: the next cursor is that row's time.
CursorOfNext(page, cursor) ==
    Min({msgs[m].at : m \in {n \in Visible : msgs[n].at < cursor}})

\* nextCursor: createdAt.toISOString() of the last message of the page.
NextCursor(page, cursor) == Ms(Oldest(page))

\* The first query of getMessages.  A limit of zero is not sent: with a message in
\* the chat the handler would read the last element of an empty page and throw.
GetMessages(u) ==
    /\ reader[u] = NoAnswer
    /\ u \in joined /\ view[u].more
    /\ \E limit \in 1..MaxLimit : \E page \in SUBSET Visible :
        LET more == Cardinality({m \in Visible : msgs[m].at < view[u].cursor}) > limit
        IN  /\ IsPage(page, view[u].cursor, limit)
            /\ reader' = [reader EXCEPT ![u] = [kind |-> "page", answer |->
                   [seen |-> page, more |-> more, synced |-> TRUE,
                    cursor |-> IF more THEN NextCursor(page, view[u].cursor) ELSE 0,
                    ends |-> IF more THEN view[u].ends \cup {Ms(Oldest(page))}
                                     ELSE view[u].ends]]]
    /\ UNCHANGED <<pushVars, now, msgs, keys, req, joined, view, cut, pushed, failures, crashes>>

\* The first queries of getRoomsWithLastMessage, as far as this chat goes; the
\* names and pictures that are read after the keys are left out.
GetRoomsWithLastMessage(u) ==
    /\ reader[u] = NoAnswer
    /\ \E page \in SUBSET Visible :
           /\ page # {} /\ IsPage(page, MaxTime + 1, 1)
           /\ reader' = [reader EXCEPT ![u] =
                  [kind |-> "list", answer |-> [NoView EXCEPT !.seen = page]]]
    /\ UNCHANGED <<pushVars, now, msgs, keys, req, joined, view, cut, pushed, failures, crashes>>

\* What the client has once it has the answer: what was broadcast meanwhile, too.
Answered(u) == [reader[u].answer EXCEPT !.seen = @ \cup view[u].seen]

\* The query of both for the user's keys of the messages found, and the answer.
GetKeys(u) ==
    /\ reader[u] # NoAnswer
    /\ reader' = [reader EXCEPT ![u] = NoAnswer]
    /\ view' = IF reader[u].kind = "page" THEN [view EXCEPT ![u] = Answered(u)] ELSE view
    /\ UNCHANGED <<pushVars, now, msgs, keys, req, joined, cut, pushed, failures, crashes>>

\* The query for the keys fails, and the request with it.
GetKeysFails(u) ==
    /\ reader[u] # NoAnswer
    /\ reader' = [reader EXCEPT ![u] = NoAnswer]
    /\ UNCHANGED <<pushVars, now, msgs, keys, req, joined, view, cut, pushed, failures, crashes>>

\* The process ends: open transactions are undone, sockets and timers are gone.
Crash ==
    /\ crashes < MaxCrashes
    /\ crashes' = crashes + 1
    /\ PushCrash
    /\ req' = [s \in Senders |-> Idle]
    /\ msgs' = [m \in DOMAIN msgs |-> IF msgs[m].state = "open"
                                      THEN [msgs[m] EXCEPT !.state = "undone"] ELSE msgs[m]]
    /\ keys' = {k \in keys : msgs[k[1]].state # "open"}
    /\ cut' = cut \cup {m \in DOMAIN msgs : msgs[m].state = "open"}
    /\ joined' = {}
    /\ view' = [u \in Users |-> NoView]
    /\ reader' = [u \in Users |-> NoAnswer]
    /\ UNCHANGED <<now, pushed, failures>>

-----------------------------------------------------------------------------
RequestStep(s) ==
    \/ Begin(s) \/ Insert(s) \/ Touch(s) \/ LookUp(s) \/ Notify(s) \/ Notified(s)
    \/ Commit(s) \/ Broadcast(s) \/ PushRollback(s)

ClientStep(u) ==
    HandleJoinRoom(u) \/ HandleLeaveRoom(u)
    \/ GetMessages(u) \/ GetRoomsWithLastMessage(u) \/ GetKeys(u) \/ GetKeysFails(u)

PushStep ==
    /\ DeviceStep \/ \E x \in Receipt : CheckReceipts(x)
    /\ UNCHANGED chatVars

Next ==
    \/ \E s \in Senders : RequestStep(s) \/ DatabaseError(s) \/ \E u \in Users : SendMessage(s, u)
    \/ \E u \in Users : ClientStep(u)
    \/ PushStep
    \/ Crash

Spec == Init /\ [][Next]_vars

\* The event loop, the database and Expo answer; the pool and the row lock serve
\* those who wait in the order in which they came.
FairSpec == Spec /\ \A s \in Senders : SF_vars(RequestStep(s))

-----------------------------------------------------------------------------
(* Properties. *)

\* What a client may have.
View == [seen : SUBSET DOMAIN msgs, more : BOOLEAN, cursor : 0..MaxTime + 1,
         ends : SUBSET (0..MaxTime), synced : BOOLEAN]

\* The type invariant of the rows, the requests and the clients.
TypeOK ==
    /\ deviceToken \in [Users -> Tokens \cup {Null}]
    /\ wanted \in [Users -> Tokens \cup {Null}]
    /\ registrations \in 0..MaxRegistrations
    /\ loaded \in [Users -> SUBSET (Tokens \cup {Null})]
    /\ push \in [Senders -> Push] /\ receipts \in [Receipt -> 0..MaxPushes]
    /\ absent \cup disturbed \subseteq Users
    /\ now \in 0..MaxTime
    /\ msgs \in Seq(Message) /\ Len(msgs) <= MaxMessages
    /\ keys \subseteq (DOMAIN msgs) \X Users
    /\ req \in [Senders -> Request]
    /\ joined \subseteq Users
    /\ reader \in [Users -> [kind : {"none", "page", "list"}, answer : View]]
    /\ view \in [Users -> View]
    /\ cut \cup pushed \subseteq DOMAIN msgs
    /\ failures \in 0..MaxFailures /\ crashes \in 0..MaxCrashes

\* Every stored message is in v, or older than its cursor, or of the very millisecond
\* at which a page of it ended, or about to be broadcast.
Complete(v) ==
    \A m \in Visible \ v.seen :
        \/ v.more /\ msgs[m].at < v.cursor
        \/ Ms(msgs[m].at) \in v.ends
        \/ \E s \in Senders : req[s].pc = "broadcast" /\ req[s].msg = m

\* Nothing is missed: a client that joins the socket room and then reads page by
\* page has every stored message, whatever commits late or in another order, except
\* those it has not paged to, those about to be broadcast, and those of the very
\* millisecond at which a page ended (the cursor is cut, chats.service.ts:246).
NothingIsMissed == \A u \in Users : view[u].synced => Complete(view[u])

\* Who reads messages, of a chat or as the last one of each, finds the keys that were
\* sent to it with them and no other, though the messages and the keys are read one
\* after the other while sends commit and are taken back (:220-233, :100-121).
KeysComeWithMessages ==
    \A u \in Users : \A m \in reader[u].answer.seen :
        <<m, u>> \in keys <=> u \in msgs[m].keyed

\* No notification of a message that was never stored, unless Expo's call was rejected
\* after it had taken the message (notifications.service.ts:59), the commit failed or
\* the process ended between the push and the commit (:313-326).
PushedIsStored == \A m \in pushed : msgs[m].state = "undone" => m \in cut

\* A message that is saved and neither committed nor taken back is that of one send
\* only, with the same keys, and what is broadcast is stored.
SendsAreSound ==
    /\ \A s \in Senders :
          /\ req[s].pc # "idle" => req[s].by \in Users
          /\ s \in Unsaved => req[s].msg = 0
          /\ Saved(s) => /\ req[s].msg \in DOMAIN msgs /\ msgs[req[s].msg].state = "open"
                         /\ msgs[req[s].msg].keyed = req[s].keyed
          /\ req[s].pc = "broadcast" => req[s].msg \in Visible
    /\ \A s, t \in Senders : Saved(s) /\ Saved(t) /\ req[s].msg = req[t].msg => s = t

\* The sends that have no message yet have room for one.
RoomForInserts == Len(msgs) + Cardinality(Unsaved) <= MaxMessages

\* A message that is stored or about to be has the keys that came with it, and there
\* are no others.
StoredHaveKeys ==
    /\ \A m \in Visible \cup {req[s].msg : s \in LockHolders} :
          \A u \in msgs[m].keyed : <<m, u>> \in keys
    /\ \A k \in keys : k[2] \in msgs[k[1]].keyed

ReadersSeeStored == \A u \in Users : reader[u].answer.seen \subseteq Visible

\* Up to the call of Expo nobody was told of the message.
NotPushedYet ==
    \A s \in Senders :
        /\ req[s].pc \in {"touch", "lookup"} => req[s].msg \notin pushed
        /\ req[s].pc = "push" /\ push[s].pc \notin {"sent", "failed"} => req[s].msg \notin pushed

\* Who reads the chat has a socket in its room, and else reads it from the end.
ReadersAreJoined ==
    \A u \in Users :
        /\ IF view[u].synced THEN u \in joined ELSE view[u].cursor = MaxTime + 1
        /\ reader[u].kind = "page" => u \in joined /\ reader[u].answer.synced

\* Nor will anything be missed in the answer that is on its way.
AnswersAreComplete == \A u \in Users : reader[u].kind = "page" => Complete(Answered(u))

\* The inductive invariant: which send a message belongs to, who has keys to it, who
\* was told of it and who has it, through every commit, failure and crash.
ChatInv ==
    /\ TypeOK
    /\ SendsAreSound
    /\ RoomForInserts
    /\ StoredHaveKeys
    /\ ReadersSeeStored
    /\ NotPushedYet
    /\ PushedIsStored
    /\ PushesAreSound
    /\ ReceiptsHaveCause
    /\ TokensAreKept
    /\ ReadersAreJoined
    /\ NothingIsMissed
    /\ AnswersAreComplete

Log == INSTANCE MessageLog
    WITH Messages <- 1..MaxMessages, stored <- Visible, shown <- [u \in Users |-> view[u].seen]

\* The chat is a log: transactions that fail, commit in another order or are broken
\* off by a crash store a message in one step or never, no client is shown one that
\* can still be taken back (:326-338), and none that was stored disappears.
ImplementsLog == Log!Spec

\* Every send is answered, or the pool is exhausted: all its connections are held by
\* sends that each wait for one more (:286) or for a lock another of them holds.
SendsEnd == \A s \in Senders : req[s].pc # "idle" ~> (req[s].pc = "idle" \/ Exhausted)
=============================================================================
