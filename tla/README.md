# Verification of Backend-Elysio

TLA+ models, TLC runs and TLAPS proofs for the back end of a video dating
application: a NestJS server (TypeScript, TypeORM on Postgres, socket.io gateways,
mediasoup for video). Paths below are relative to the repository.

The server is one Node process. Between two `await`s nothing interrupts a handler;
at an `await` every other handler may run. Much of its state lives in the memory of
services (queue, likes, video rooms), the rest in tables that are mostly read in one
query and written in a later one, without locks. So the models have **one action for
the code from one await to the next**, and a variable (`req`, `task`) holding, for each
handler suspended at an await, what it has already read and will use afterwards.

## 1. Inventory

| Component | State it keeps | Operations that change it | Talks to |
|---|---|---|---|
| Matchmaking queue `matchmaking.service.ts` | maps `stateStore`, `activeTickets` (memory); `match_history` rows | activate, search, leave, deactivate, decline, set outcome | users, blocks, streak, the matchmaking and video gateways |
| Weekly streak `streak/streak.service.ts` | streak columns of `users` | `updateStreak` for both users of a match | called by createMatch; the same rows are saved as whole entities elsewhere |
| Likes in a call `video/video.gateway.ts` | `roomLikedBy` (memory); sockets in rooms | connect, disconnect, `send_like`, `send_like_back` | chats (`findOrCreateRoom`), matchmaking (`setRoomOutcome`), media rooms |
| Media rooms `video/media.service.ts` | rooms, peers, transports, producers, consumers, the worker (memory) | create room, join, transports, produce, consume, leave, worker restart | video gateway and controller |
| Chats `chats/*` | chat rooms, messages, keys; sockets in rooms | find or create a room, send, join and leave | crypto, push notifications, chat gateway |
| Push `notifications/*` | device token of a user | register, remove, delayed receipt check | Expo's push service |
| Accounts `auth/*` | users, verification and reset tokens | register, verify, reset and change passwords, Google and Apple sign-in | users, e-mail |
| Users and photos `users/*`, `r2/*` | profile columns, interests, picture rows, object store | update profile and interests, upload, delete and replace pictures | accounts, object store |
| Subscriptions `revenuecat/*` | the plan column of `users` | webhook deliveries | RevenueCat |
| Analytics, interests, e-mail, TURN, token checks, crypto | none of their own | read-only or pure | |
| `matchmaking/streak.service.ts` | – | not imported by any module; an older streak service | |

What is hard in it, and what would make each component correct:

* *Matchmaking.* A search takes its candidates once and then awaits the queries about
  each; meanwhile the candidates are matched, leave, search themselves, or edit the row
  their ticket is a copy of. A rejected query leaves users CONNECTING. A restart forgets
  the maps, not the table. Correct: only pairs that suited each other by the rows they
  queued with and preferences held since are recorded, each under its own room id; nobody hears of
  a call that is not recorded, and both hear of one that is; a ticket belongs to
  somebody in the queue; a search ends; a matched call is never turned into a
  declined one.
* *Streak.* Read, compute, write, with the row changed in between by another match or
  by an entity save; weeks of 167 to 169 hours, years of 52 and 53 weeks. Correct: a
  week counts once, weeks in a row count, a gap spends freezes and never more than
  there are.
* *Likes.* A like-back awaits several queries while likes, disconnects, declines, a
  second press of the button and a crash happen. Correct: who hears of a mutual like
  has a chat room, and the call stays matched.
* *Media rooms.* Two users join a new room at once, leave while a transport is made,
  reconnect before the old socket is gone; the worker dies. Correct: nothing stays open
  for those who left, the room registered can be used, nobody misses a producer and
  nobody's media is cut by somebody else.
* *Chats.* A transaction that asks the pool for more connections; a push inside the
  transaction; pages cut at a timestamp that is not unique; messages that commit late.
  Correct: a client that has joined and paged has every message, with the key that was
  sent for it; a push is of a stored message; a send ends.
* *Push.* A receipt fifteen seconds after the push, when the user may have another
  token; saves of whole entities that write an old token back. Correct: the token
  registered last is not taken away while its device is there.
* *Accounts and subscriptions.* Rows that are read, changed in memory and saved as a
  whole while other requests do the same; saves and inserts that a unique index rejects
  half-way; several tables without a transaction; tokens found and then deleted; webhooks that come late or twice. Correct: who got the mail
  can verify; a Google user has one account; the interests are those asked for; the
  plan is the one paid for.
* *Pictures.* A table and an object store, one of which may fail. Correct: they agree
  but for what broke off, and there is one primary picture.

`PROJECT.json` lists every such hazard at its line, with the properties that cover
it, and a note where a property excludes what the code does not prevent.

## 2. Modules

| Module | What it is |
|---|---|
| `MatchRules` | preferences: gender, age, shared interests (pure operators) |
| `Matchmaking` | the queue, with failing queries and restarts |
| `MatchLedger` | what matchmaking promises: record, then tell; only outcomes change |
| `MatchmakingProofs` | theorems about `Matchmaking`, refinement included |
| `IsoWeek`, `CalendarWalk` | the calendar of the streak service, and a walk through it |
| `Streak`, `StreakProofs` | `updateStreak` overlapping with itself and with profile saves; the proofs begin with the calendar |
| `LikeHandshake`, `LikeHandshakeProofs` | from a like to a chat room and a matched call |
| `Meeting`, `MeetingProofs` | queue and video gateway in one process, on one table of calls |
| `MediaRooms`, `MediaRoomsProofs` | the rooms, peers and media objects of one call |
| `PushTokens` | device tokens, pushes and their receipts |
| `ChatMessages` | sending and reading the messages of one chat, with the pool and the pushes |
| `MessageLog` | what a chat promises: store for good, then show |
| `ChatProofs` | theorems about `ChatMessages` and `PushTokens`, refinement included |
| `Accounts`, `AccountsProofs` | the user table: registration, sign-in, passwords, interests, plans |
| `Photos`, `PhotosProofs` | the pictures of one user in the table and the object store |
| `MCMatchmaking`, `MCStreak`, `MCStreakSaves`, `MCLikeHandshake`, `MCMeeting`, `MCMediaRooms`, `MCChatMessages`, `MCUsers` | instances for TLC |

`Matchmaking` EXTENDS `MatchRules`; `Streak` EXTENDS `IsoWeek`; `ChatMessages` EXTENDS
`PushTokens` and takes its steps inside the transaction; `Matchmaking` implements
`MatchLedger`, and `ChatMessages` implements `MessageLog`, by `INSTANCE ... WITH`.
`LikeHandshake` takes recorded calls as given; `Meeting` EXTENDS `Matchmaking` and takes the
gateway's steps from an `INSTANCE` of `LikeHandshake` whose `outcome` is that column of
`matchHistory`, so that each call is recorded, liked and settled in one table.

Operators whose comment begins with "Seeded bug" are not part of a specification. Each
is a plausible mistake in the definition after it, used to see that a property would
notice it.

### Matchmaking

`stateStore` and `activeTickets` are the two maps; a ticket is `fresh` or `aged` (older
than the threshold of the second pass). A ticket copies gender, wish, age and interests
from the row of the user that `activateCall` has read, and keeps them when the row is
edited: `userRows` holds every row a user has had, a ticket is the number of its row, and
a query reads the last one (`CurrentRow`). `UpdateProfile` edits a row at any moment.
`matchHistory` is the table in the order of
`createdAt`; `sent` holds every (recipient, peer, room) told by `match_found`,
`room_ready` or the answer of the request. A request goes through

    loaded -> lookup -> found -> checking (one candidate) -> creating -> saved -> free

`loaded` has read the user's row and not the maps; `lookup` awaits the last call of a user
who is CONNECTING; `checking` awaits the queries about one candidate, which run side by
side and are answered in any order: `isAgeCompatible` compares the ages of the tickets
with the preferences of the rows as they are by then, the others look for declined and
previous calls. `creating` awaits the insert; `saved` awaits the statistics and the streaks, after
which the notices go out. `Rollback` sets both users back to WAITING as the code does,
whatever became of them meanwhile. `DatabaseError` ends a request at any await,
`Restart` empties both maps and all requests.

Abstracted: blocks do not change, for no code writes them; notices are delivered (an
offline client is not modelled); a user who is not eligible is an action that is not
taken; the two users' preferences are read in one step, since each row is changed by its
own user only; the waiting-time statistics are not modelled.
RESERVED and IN_ROOM are never assigned by the code, and so never here.

### IsoWeek and Streak

A date is a number of days since Monday 1 January 2018. Local midnights are counted in
hours, since the two `Math.round` calls are there because midnights are not 24 hours
apart when clocks change. `GetIsoWeek` and `WeeksDifference` follow the code step by
step; the reference is `WeekIndex(day) = day \div 7`.

`Streak` has one user: users do not share streak columns. An update reads the row
(`Read`), reads the clock and computes (`Count`, `AlreadyCounted`), and writes (`Write`);
the clock may move at any point. The local date gives the week, the UTC date the month
and `lastMatchDate`: on a server on UTC or east of it the UTC date is today or
yesterday, and `Count` takes either. `Load`, `Compare` and `Save` stand for
`updateProfile` and the like: TypeORM's `save` reads the row again, compares, and writes
the differing columns, so an update in between is undone in part. `DatabaseError` rejects
the read or the write of a call. `matched`, `disturbed` and `lost` are history variables:
the weeks with a match, whether a call has written over a row newer than the one it had
read, and whether an update that had counted a match was rejected.

### LikeHandshake

`roomLikedBy` is the gateway's map, `socket` says which user of which call a connection
belongs to, `chats` is the table with its unique pair of users, `outcome` the column.
A like-back goes `find -> save -> outcome -> emit`; `POST /chat/rooms` takes the first
two steps for any pair. The unique index turns a second insert into `SaveRejected`,
which the code only logs; it also meets a like-back whose two users are liking each other
in another of their calls. Connections are those of the two users of a call
(`HandleConnection`); the gateway does not check that. In `Meeting` any user may name any
room, and that none but its two users come to do so is proved there. Alone, the module
leaves its environment free: a decline may come at any time.

### Meeting

The variables of `Matchmaking` and those of `LikeHandshake` but for `outcome`, which is read
off the rows (`outcomes`). `QueueStep` is any step of the queue; since room ids are random, a
room id is named by the two users it will be used for, which picks one name for each. What
the gateway does without the table is taken from `LikeHandshake` (`GatewayStep`);
`MarkMatched` is `setRoomOutcome` on the queue's table, in the place of the free
`SetRoomOutcome` of `Matchmaking`. A client connects with a room it was told of, or that
`getMyRoomId` has answered (`KnowsRoom`): the gateway joins it to whatever room the handshake
names. `RestartBoth` empties both memories at once. `ImplementsParts` says that each part
sees of the other only what its own specification allows for.

### MediaRooms

One call: the entries of the map `rooms` share only the worker. `routers`, `objs` (the
Peer objects), `transports`, `producers` and `consumers` are sequences of everything ever
made, so that what nobody refers to any more is still in sight; `room` is the router of
the entry in the map, 0 if there is none. A handler that finds the room goes on in the
same turn of the event loop; one that does not waits for `createRouter`. `late` marks a
transport made for a Peer that has left, and a producer or consumer on a transport that
has closed meanwhile; `holder` is the Peer object in whose map something was put.
mediasoup is external: closing a transport or a router closes what lives on it.
A client may ask for the list of producers whether it is connected or not; only a
connected one hears of those that are made later.
`connectTransport`, `resumeConsumer` and `getRtpCapabilities` change nothing and are no
actions. The Peer's map does not lose a producer whose transport was closed before the
'transportclose' handler was set.

### PushTokens and ChatMessages

A send goes

    begin -> insert -> touch -> lookup -> push -> commit -> broadcast

and has a connection of the pool from `begin` to `commit`. `begin` is where PostgreSQL
takes the time that `createdAt` will be; `touch` waits for the lock on the chat's row and
has it until the transaction ends; `lookup` and the query of the token need another
connection each. A message comes with keys for those members the client chose
(`keyed`): the server stores what it is sent and asks for no more. A rejected call of Expo
takes the message back, though Expo may have delivered it (`ExpoFails`). Microseconds are
ticks of the clock and `Ms` cuts them as `toISOString` does. A client reads messages and
then their keys (`GetMessages` or `GetRoomsWithLastMessage`, then `GetKeys`), and either
query may fail. `view` is what one client per user has: `seen`, the cursor, and `ends`, the
milliseconds at which its pages ended. A message that is broken off stays in `msgs` as
undone. A crash undoes open transactions and loses the timers of the receipts.
`deviceToken` has five writers: registering, removing, a receipt (every row with its token),
the clearing of a token that is none of Expo's (by the user's id, whatever the column
holds by then), and saves of whole entities (`LoadUser`, `SaveUser`), which put the token
back that they read. `wanted`, `absent` and `disturbed` are their history: the token a
user registered last, whether its device was found gone, and whether something that does
not know of it wrote over it.
Mapped to `MessageLog`, the committed rows are `stored` and `seen` is `shown`: `Commit` is
`Store`, `Broadcast` is `Deliver`, a page is `Read`, leaving and crashing are `Forget`, and
all else stutters.

### Accounts

`users` holds, for an id, the columns that sign-in, passwords and plans are about, and the
phone number, which `updateProfile` changes; the unique indexes on address, number, Google
and Apple user are `Conflicts`, and reject inserts and saves alike. A request that saves a loaded entity goes
`compare -> write`: TypeORM's `save` reads the row once more, compares, and writes the
differing columns, so that a change made since the first read is undone. `putBack` is
the history of that, per column. Verification tokens carry the interests chosen at the
registration; a link that is used twice at the same time is consumed twice. Interests are
inserted all at once, and not at all if the user has one of them already. The history
variables say what the properties speak of: `asked` and `added` record what the user
chose, and whether a verification has since come to add the registration's choice,
whatever the table made of it; `broken`, `late`, `mixed` and `moved` record the
conditions. Mail that was sent arrives or does not; Google's and Apple's answers are taken
as given. Apple sign-in with an address that is registered always fails on the unique
index (`auth.service.ts:240`): unlike Google's it links nothing.

### Photos

`pictures` says of each object key whether its row does not exist yet, is in the gallery,
is primary, or was removed; `objects` are the keys in R2. Uploading writes the store and
then the row, deleting removes from the store and then the row, replacing does the
second and then the first. `torn` and `orphans` are the keys at which a second write
failed. A key is random and never used again.

## 3. Runs

| Run | Instance | Checks |
|---|---|---|
| `queue` | 3 users who suit one another, 2 requests, 2 calls, 1 failure, 1 restart; symmetric | `TicketHolderIsQueued`, `NotifiedRoomsExist`, `MatchedIsFinal`, `ImplementsLedger` |
| `pairs` | 3 users: one too young for the others and blocked by one of them, until an edit of the row changes age, gender and wishes, and again after a second one; 2 requests of 2 users, 2 calls | `PairsSound`, `ConnectingHasCause`, `LedgerInv` |
| `search_ends` | 3 users, one too young for the others, 2 requests of 2 users, 1 call on record, no failures, fair | `RequestsEnd`, `BothAreTold` |
| `streak` | 2 overlapping updates, 7 days around the turn of 2020/21 | `StreakCountsWeeks`, `ConsecutiveWeeksCount` |
| `streak_saves` | 1 update, 1 profile save, 6 days across the same turn; or every day from 2018 to February 2028 against the 40 that follow | `FreezeInv`, `LongGapEndsStreak`, `WeeksAreCounted`, `WeeksAreNamed` |
| `likes` | 2 calls of the same 2 users, 2 connections, 2 requests, one of: a chat opened by hand, a failure, a restart; fair | `LikerIsConnected`, `HandshakeInv`, `LikeBackMatches` |
| `meeting` | 2 users, 1 request to the queue, 2 calls, 2 connections, 1 like-back; two of: call, failure of either part, restart, chat opened by hand; symmetric | `MutualLikeOfCall`, `ChatsAreOfCalls`, `ImplementsParts` |
| `media` | 2 clients, 2 requests, 2 routers, 3 joins, 2 transports, 1 producer, 2 consumers, 2 sockets each, 1 death of the worker | `MediaInv`, `LeaksHaveCause`, `RoomIsUsable`, `ProducersAreKnown`, `MediaIsNotCut` |
| `chat` | 2 sends at a time, one with keys for both and one for its sender only, a pool of 2, 3 messages, pages of 1, 1 failure, 1 crash, 3 tokens of which one is none of Expo's, 2 registrations, 1 slow save, fair | `NothingIsMissed`, `KeysComeWithMessages`, `PushedIsStored`, `TokensAreKept`, `ImplementsLog`, `SendsEnd` |
| `users` | 2 rows, 2 addresses, 1 number, a Google and an Apple user, 2 interests chosen singly or together, 5 requests of which 2 at a time, 3 webhooks, 1 failure; 3 pictures, 2 requests, 1 failure | `VerificationStaysPossible`, `SameAccountForGoogle`, `PlanFollowsEvents`, `InterestsAreChosen`, `StoresAgree`, `OnePrimary` |
| `first_pass` | 2 users, 2 requests | violates `FirstPassIsFresh` |
| `second_pass` | 2 users, 1 request, fair | violates `SecondPassHappens` |

**Bounds.** Two requests are enough for every conflict of two searches; three users let
one candidate be wanted by two searchers; two calls let a pair meet again and one user
have two calls. In `pairs`, the two edits fall while their user is idle, waits, is
being checked or is in a call: the first makes pairs fit that did not, the second undoes
that, and a ticket differs from its row after either (`EditBound`: no ticket is made of the
third row, which is like the first, and no second call follows it). `PairsSoundHolds` covers every profile and any number of
edits. One failure and one restart fall at every await. `RoomBudget` lets a
search begin only if a room id is left for it, so that the bound on calls never stops a
search half-way. Of the days of `Streak`, some share a week, some are a week apart
across the turn of the month and the year, and some are two, three and four weeks
apart, so that gaps are covered, not covered, and add up. The two requests in `likes` are
like-backs of one call or of both, or one of them is a chat opened by hand. `meeting` has one request to the queue and one
like-back at a time, since `queue` and `likes` interleave more of each; what it adds is the
way from one to the other, and its `WorkBound` follows two calls of the same users, or one
call and one thing out of the ordinary. In `search_ends` a search may have two candidates,
the first of whom is rejected for age or an earlier call, so that it goes on to the second
while the other users search, leave and queue again; `WalkBound` names what is left out:
a second call, two requests of one user, and tickets that get old. The walk in `streak_saves` contains every clock change and
two years of 53 weeks; the theorems remove its bounds. Deadlock is checked in the
matchmaking and media runs and off in the others, where the calendar ends or the clients
may simply do nothing more.

In `media`, two clients and two requests are what it takes to make a room twice, to
consume a producer twice, and to leave while a transport is made; the third join is a peer
that comes back. `WorkBound` follows a call of two Peers on one router to the bounds of its
objects and everything else to five objects and deaths together, which is where the last of
the causes of a leak first shows (two routers, a Peer, a transport, a producer);
`SocketBound` lets a client reconnect before its old socket is closed while there is one
router and no more than three other objects. In `chat`, a pool as large as the
number of sends is exhausted as the real one is by ten; a behaviour has either a client
that reads (three messages, so that a page ends between two of one millisecond) or
devices, failures and a crash, which have no state in common with the reader but the
messages. The reader is one client (two have no state in common), each member sends from
one slot, and beside failures two messages and beside devices one are enough: what a
failure or a receipt does is to one message or one token. In `users`, the parts "photos", "sign in", "interests" and "plan" are followed
apart: the first shares no variable with the rest, and the others together exceed the
bounds before anything new happens; saves of whole entities are in each of the others.

**Symmetry** is used for request slots, connections and room ids, which are
interchangeable; for users in `queue` and `meeting`, clients in `media` and row ids in
`users`, where all are alike; never in a liveness run.

**Fairness.** `FairSpec` of `Matchmaking` and `LikeHandshake` assumes only
`WF(Continue(r))`: an awaited query is answered and the event loop resumes its handler.
`FairSpec` of `ChatMessages` assumes `SF(RequestStep(s))`: the pool and the row lock, which
are free again and again, serve those who wait in the order in which they came. Nothing
is assumed of users, failures, restarts, devices or crashes. `search_ends` has no failures: after
one, the code does not retry. In `likes` the property itself speaks of failures, restarts
and chats opened by hand.

**What the two violated statements show.**

* `FirstPassIsFresh`: "First pass: fresh candidates only" (`matchmaking.service.ts:248`).
  The answer of `hasPreviousCall` is used after another request saved a call of that pair.
* `SecondPassHappens`: "Second pass: after threshold, allow previously-called users"
  (`matchmaking.service.ts:252`). The time waited is measured on the ticket made a few
  statements before, and activating while WAITING does not search, so the threshold is
  never reached.

Two more statements of comments do not hold, seen while modelling and not kept as runs:
"Truly stale (no DB record ...) — only then reset" (`matchmaking.service.ts:107`): a user
whom a running search has just made CONNECTING has no row yet, and is reset and queued
again (`ResetStale`); and "userId of the peer who liked first" (`video.gateway.ts:23`): if
both send `send_like`, the second replaces the first (`HandleSendLike`).

**Where a property has a condition, it is needed.** `PairsSound` speaks of the rows of the
tickets and of preferences held since: of the rows at the time of the call it would be
false, for no edit reaches a ticket. `StreakCountsWeeks` fails with profile saves in
flight: a save that puts back some columns of an old row mixes two rows. `FreezeInv` and `FreezeBudget` hold even then. `ConsecutiveWeeksCount` and
`LongGapEndsStreak` end where a call has written over a newer row, and the former where an
update is about to: that update has lost a week, or will undo one; it also ends where the
database rejected an update (`lost`). `LikeBackMatches` excludes failures and restarts and,
where the two have no chat yet, a chat opened by hand and a like-back in another of their
calls: either may create the chat between `find` and `save`, and the like-back ends in a
logged error. `ConnectingHasCause` is about runs without a failed query: after one, both users
stay CONNECTING until one of them activates again. `LeaksHaveCause` names three causes of
media objects that nobody closes, each reachable: a router registered over another, a
transport made for a peer that has left, a duplicate consumer. `SendsEnd` has the exhausted
pool, in which every connection is held by a send that waits for one more: it does not end
by itself. `NothingIsMissed` excepts the millisecond at which a page ended, for the cursor
is cut to milliseconds and the comparison is `<`. `KeysComeWithMessages` speaks of the keys
that were sent: that there is one for every member is up to the clients. `PushedIsStored`
excepts a call of Expo that was rejected after it had delivered, a failing commit and a
crash between push and commit. `TokensAreKept` excepts, until the user registers again,
a save or an UPDATE by id that wrote over the column, and a bad receipt of the same token
that was on its way when it was registered anew. `VerificationStaysPossible` excepts a
verification that broke off after its token was consumed, a save of a row read before the
verification, and a number changed while the verification had the row: its save then puts
the old number back, and is rejected if somebody has taken it. `PlanFollowsEvents` excepts
an event overtaken by a newer one and a save of an older row; `InterestsAreChosen` excepts
overlapping changes, one that broke off between DELETE and INSERT, and a registration's
choice some of which was made again before the verification, none of which is added then; `StoresAgree` excepts keys whose second write failed; `OnePrimary` excepts
overlapping replacements. In each case TLC finds the exception reachable if it is left out.

## 4. Proofs

Checked by TLAPS for all values of the constants; the assumptions are the named
ASSUMEs of the modules and nothing else.

* **Matchmaking.** `LedgerInvHolds`: `LedgerInv` is inductive. The three statements worth
  having are not inductive alone: that a notice names a recorded call needs `ToldIsSaved`
  (a request about to tell has seen its row); that recorded pairs suit needs
  `SearchesSound` (the gender filter holds of the tickets of all candidates left, an age
  that was found compatible fits preferences held since, all checks hold of one being
  created) and `TicketsSound` (the rows behind tickets and requests exist; since rows are
  only appended, what held of them stays true through every edit); all need `RequestsName` (which fields of a request are set at which
  await). From it follow `NotifiedRoomsExistHolds`, `RoomsUniqueHolds`, `PairsSoundHolds`,
  `MatchedIsFinalHolds`, and `ImplementsLedgerHolds`: every step is one `Record`, `Settle`
  or `Tell` of the ledger or a stutter. `TicketHolderIsQueuedHolds` and
  `ConnectingHasCauseHolds` are inductive given `TypeOK` and `RequestsName`. `LedgerInv` is
  itself checked by the run `pairs`.
* **Calendar.** `WeeksDifferenceIsExact` and `WeekNamesAreUnique`: for any dates in the
  calendar, any set of summer days and clock changes of up to two hours, subtracting two
  written weeks counts the Mondays in between, and two dates get the same name exactly if
  they share a week. The argument bounds what rounding must absorb: two midnights are off
  by at most two hours, and a week has 168. `WeeksAreCountedHolds` and
  `WeeksAreNamedHolds` are the two properties of the walk, for a walk of any length; that
  the calendar has every year of the walk is an assumption on the constants
  (`WalkAssumption`).
* **Streak.** `FreezeInvHolds`, for any number of overlapping updates and saves: every row in
  sight (the table's and those held by calls) has its freezes in bounds and a last week
  that is not after today; without the second part a gap could be negative and freezes
  fall below zero. It rests on `WeekNamesAreUnique`. `FreezeBudgetHolds` follows.
  The other three rest on `PlansFit`: the row that an update is about to write `Follows` the
  row it read, that is, it is in a later week and its streak is one more, across a gap the
  freezes cover, or 1 again; a save is about to write what it read. `WriteUndisturbed`
  turns that into what a write does to the table as long as no call has overwritten a newer
  row. From there:
  - `LongGapEndsStreakHolds`, for any number of updates and saves, needs that a row with a
    week has a streak (`StreakStarts`), or a restart at 1 could look like growth;
  - `StreakCountsWeeksHolds`, for any number of overlapping updates and `Saves = {}`: every
    row in sight is counted in the weeks with a match (`CountInv`), and an update adds the
    week it adds to the streak, because its week is later than the one it read;
  - `ConsecutiveWeeksCountHolds`, for any number of updates and saves: `ConsecutiveInv` says
    that the weeks with a match are in the row or about to be, and that a week that was read
    is not later than the row's. An update that has counted its week and not written yet
    lets another see a gap; but once the other has written, the first is about to write over
    a newer row, which is what `NoneOutdated` excludes.
* **Likes.** `HandshakeInvHolds`: a like-back is for the users of its call, has its chat room
  saved before the outcome, and the outcome set before anybody is told; only like-backs
  set outcomes, and only members are connected. `MutualLikeIsKeptHolds`,
  `MatchedHasChatHolds` and `LikerIsConnectedHolds` follow or are proved beside it.
  `HandshakeOnlySettlesHolds` ties the module to `MatchLedger`: what a handshake, a decline
  or a restart does to the rows of the calls is one `Settle` or a stutter, so that the two
  modules that write outcomes keep to one contract.
* **Meeting.** `ImplementsPartsHolds`: queue and gateway together implement the
  specification of each alone, so that all the theorems above hold of the whole;
  `MeetingImplementsLedgerHolds` is one of them. Two things make it true. A step of one part
  must be a step or a stutter of the other: recording a call changes no outcome by room id
  (a new row is `default`, and its room id is new: `RoomsUnique`), a decline is the gateway's
  `DeclineMatch`, a like-back the queue's `SetRoomOutcome`. And the gateway's assumption that
  only users of a call connect with its room must follow from what the queue tells whom:
  notices are of recorded rows of the user (`NotifiedRoomsExist`), whose room is named by its
  users (`RoomsNamed`). Hence the invariant `MeetInv`: `LedgerInv`, `HandshakeInv`,
  `RoomsNamed`, that connections and like-backs are of recorded calls (`CallsRecorded`), and
  that without `POST /chat/rooms` every chat is of a recorded call (`ChatsFromLikes`).
  `MutualLikeOfCallHolds` and `ChatsAreOfCallsHolds` join the two halves: from `PairsSound`,
  that the users suit, and from `MutualLikeIsKept` and `MatchedHasChat`, that they can chat.
* **Media rooms.** `MediaInvHolds`, for any number of clients, requests and media objects.
  Beside the three properties it says whom the maps of a Peer may name (`HoldersExist`: the
  Peers that were made, so that a new Peer begins with empty maps), that the sequences only
  grow, and what each suspended request still knows to be true of its router and its
  transport. `LeaksHaveCauseHolds`, `RoomIsUsableHolds` and `ProducersAreKnownHolds` are
  parts of it. `MediaIsNotCutHolds` goes through every step that closes anything: a
  departure, which closes what the Peer made, and the death of the worker.
* **Chats and push.** `ChatInvHolds`, for any pool, any rate of the clock and any number of
  senders that is finite. A page is cut at a millisecond, so the heart is what `Ms` and the
  least of a page's times have to do with one another: a message not seen is younger than
  the cursor, or shares a millisecond with the end of a page. The rest ties messages to
  sends: a row is committed by the send that inserted it, with exactly the keys it was
  sent with (`StoredHaveKeys`), a push is of a row that its send will commit unless it
  fails. For the tokens it takes that a bad receipt on its way is of a token that nobody
  wants any more or whose user is excepted (`ReceiptsHaveCause`), and that only a token
  which is none of Expo's is cleared by id (`PushesAreSound`). Four properties follow, and `ImplementsLogHolds`: every step is one `Store`, `Deliver`, `Read`
  or `Forget` of `MessageLog`, or a stutter.
* **Accounts.** `AccountInvHolds`, for any users, requests, Google users and webhooks:
  - `RequestsAreSound`: an entity in memory has the address of its row, and the Google user
    of a row without an address, however much else has changed since it was loaded;
  - `RowsAreUnique`: besides the indexes, that a row with a Google user has the address
    Google gave for it. From these two it follows that an old entity meets no index but
    that on numbers (a conflict could only be with a row that has the Google user and
    hence the address, and that row is its own);
  - `NumbersAreKnown`: a verification has the number of its row and will not write it,
    unless the user changed it meanwhile (`moved`). With the two above it gives
    `OnlyNumbersAreRejectedHolds`, which `VerificationGoesOn` needs where a save is rejected;
  - `AnswersAreSound`: a Google user got into the row with its address or, without one, the
    row with its id; `SameAccountForGoogleHolds` is this and uniqueness;
  - `VerificationGoesOn`: whoever consumed the token and has not ended will write, and after
    a comparison that found nothing to write the row is verified already;
  - `LastChangeCounts`: the newest event that changes the plan, delivered or not, is what is
    paid for. It makes `PlanFollowsEvents` inductive for any order and number of deliveries;
  - `ChoicesGoOn`: where changes of interests did not overlap, either a change is alone
    under way between its DELETE and its INSERT and will insert what was asked for, or the
    interests are settled and only verifications are under way.
* **Pictures.** `PhotoInvHolds` needs that a request's key is its own until it is in one of
  the stores (`KeysAreFresh`), and that the keys with a failed second write are remembered.
  `StoresAgreeHolds` and `OnePrimaryHolds` follow.

`AccountInv` and `PhotoInv` were checked by TLC on the instance of `users` before they were
proved, `MeetInv` on that of `meeting`, and `PlansFit`, `StreakStarts`, `CountInv` and
`ConsecutiveInv` on those of `streak` and `streak_saves`, and `ChatInv` on that of `chat`;
`MediaInv` is a property of its run.

**Only model-checked:** the liveness properties (`RequestsEnd`, `BothAreTold`,
`LikeBackMatches`, `SendsEnd`): liveness under fairness and ENABLED are out of the prover's
reach, as is induction over data. No module uses a RECURSIVE operator.

## 5. Not modelled, and the plan

Left out for good: cryptography, e-mail, TURN, token checks, analytics and catalogues
(pure or read-only), migrations and wiring, the unused older streak service,
`changeSubscription` and `sendPushNotificationToMultiple` (no caller).
`updateAvgWaitTime` is left out: the average is a rational number that only analytics
shows. It is a lost-update candidate and divides by zero if a call is declined before it
is counted (`matchmaking.service.ts:556`). Blocks are only made by the seed script.

All components with state of their own are modelled, and every safety and action property
that a passing run checks is stated by a theorem. Open is
`updateAvgWaitTime`, should its average ever decide anything.
