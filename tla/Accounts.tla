------------------------------ MODULE Accounts ------------------------------
(***************************************************************************)
(* The accounts: AuthService with VerificationService and                  *)
(* PasswordResetService (src/src/auth), the account operations of          *)
(* UsersService (src/src/users/users.service.ts), and the subscription     *)
(* webhook of RevenueCatService (src/src/revenuecat).                      *)
(*                                                                         *)
(* Nothing is locked and hardly anything is in a transaction: a request    *)
(* reads the row of a user, awaits other things, and saves the whole       *)
(* entity.  save() reads the row once more, compares, and writes every     *)
(* column in which the entity differs from it: columns changed since the   *)
(* first read are put back.  What protects the table are its unique        *)
(* indexes.  Mail, Google, Apple and RevenueCat are external.              *)
(***************************************************************************)
EXTENDS Naturals, Sequences, FiniteSets

CONSTANTS
    Ids,                    \* ids of user rows
    Emails, Phones, Googles, Apples, Passwords, Interests,
    Selections,             \* sets of interests a client may send
    GoogleEmail,            \* the e-mail address in the token of a Google user, or Null
    ResetTokens,
    Requests,               \* slots for requests in progress
    Null,
    MaxRequests, MaxEvents, MaxFailures     \* bounds

ASSUME AccountAssumption ==
    /\ Null \notin Ids \cup Emails \cup Phones \cup Googles \cup Apples \cup Passwords
    /\ GoogleEmail \in [Googles -> Emails \cup {Null}]
    /\ Selections \subseteq SUBSET Interests
    /\ \A n \in {MaxRequests, MaxEvents, MaxFailures} : n \in Nat

VARIABLES
    users,          \* the user table: the row of an id, or Null
    interests,      \* user_interest: the interests of each user
    tokens,         \* verification tokens stored, by the user id in the payload
    chosen,         \* the interests in the payload
    mailed,         \* verification links that reached the user
    resets,         \* password reset tokens: for which e-mail, how far
    events,         \* RevenueCat's events of each user, not yet delivered
    entitled,       \* what each user has paid for, at RevenueCat
    req,            \* the requests in progress
    requests, eventCount, failures,
    (* history *)
    answered,       \* <<Google user, id>> for which a JWT was given out
    broken,         \* users one of whose requests broke off between two writes
    putBack,        \* columns of each user that an old copy was written over
    newest,         \* number of the newest event delivered
    late,           \* users whose last event was delivered after a newer one
    moved,          \* users whose number was changed while a verification had their row
    asked,          \* the interests of each user's last change of them
    added,          \* users a verification has since come to add the registration's for
    mixed           \* users two of whose changes of interests overlapped

tableVars == <<users, interests, tokens, chosen, mailed, resets>>
eventVars == <<events, entitled, eventCount, newest, late>>
ghostVars == <<answered, broken, putBack, moved, asked, added, mixed>>
accountVars == <<tableVars, eventVars, ghostVars, req, requests, failures>>

Plans == {"free", "premium", "gold"}
Columns == {"email", "phone", "google", "apple", "password", "verified", "plan"}
User == [email : Emails \cup {Null}, phone : Phones \cup {Null},
         google : Googles \cup {Null}, apple : Apples \cup {Null},
         password : Passwords \cup {Null}, verified : BOOLEAN, plan : Plans]

\* No row is none of the rows.
ASSUME RowAssumption == Null \notin User

NewUser == [email |-> Null, phone |-> Null, google |-> Null, apple |-> Null,
            password |-> Null, verified |-> FALSE, plan |-> "free"]

\* The rows of create, createGoogleUser and createAppleUser.
RegisteredUser(e, n, p) == [NewUser EXCEPT !.email = e, !.phone = n, !.password = p]
GoogleUser(g, v) == [NewUser EXCEPT !.google = g, !.verified = v, !.email = GoogleEmail[g]]
AppleUser(a, e, v) == [NewUser EXCEPT !.apple = a, !.email = e, !.verified = v]

Kinds == {"none", "register", "verify", "forgot", "reset", "change", "profile", "google",
          "apple", "interests"}

Idle == [pc |-> "idle", kind |-> "none", id |-> Null, entity |-> Null, seen |-> Null,
         dirty |-> {}, key |-> Null, select |-> {}]

Request == [pc : {"idle", "insert", "token", "mail", "consume", "load", "compare", "write",
                  "select", "link"},
            kind : Kinds,
            id : Ids \cup {Null},
            entity : User \cup {Null},      \* the entity in memory
            seen : User \cup {Null},        \* the row it was loaded from
            dirty : SUBSET Columns,         \* the columns save() will write
            key : Googles \cup Passwords \cup ResetTokens \cup {Null},
            select : SUBSET Interests]

Reset == [email : Emails \cup {Null}, state : {"new", "stored", "mailed", "expired", "used"}]

Event == [type : {"ACTIVATE", "DEACTIVATE", "CANCELLATION"},
          entitlements : SUBSET {"premium", "gold"}, n : Nat]

AccountInit ==
    /\ users = [u \in Ids |-> Null]
    /\ interests = [u \in Ids |-> {}]
    /\ tokens = {} /\ mailed = {}
    /\ chosen = [u \in Ids |-> {}]
    /\ resets = [t \in ResetTokens |-> [email |-> Null, state |-> "new"]]
    /\ events = [u \in Ids |-> <<>>]
    /\ entitled = [u \in Ids |-> {}]
    /\ req = [r \in Requests |-> Idle]
    /\ requests = 0 /\ eventCount = 0 /\ failures = 0
    /\ answered = {} /\ broken = {}
    /\ putBack = [u \in Ids |-> {}]
    /\ newest = [u \in Ids |-> 0] /\ late = {}
    /\ moved = {} /\ added = {} /\ mixed = {}
    /\ asked = [u \in Ids |-> {}]

-----------------------------------------------------------------------------
(* The table. *)

Accounts == {u \in Ids : users[u] # Null}

\* findByEmail, findByGoogleId, findByAppleId: nobody, or the only one.
With(column, value) == {u \in Accounts : users[u][column] = value}

\* Seeded bug: there are no unique indexes.
ConflictsNever(row, others) == FALSE

\* The unique indexes on email, phoneNumber, googleId and appleId.
Conflicts(row, others) ==
    \E u \in others : \E c \in {"email", "phone", "google", "apple"} :
        row[c] # Null /\ users[u][c] = row[c]

Start(r, q) ==
    /\ req[r] = Idle
    /\ requests < MaxRequests
    /\ requests' = requests + 1
    /\ req' = [req EXCEPT ![r] = q]

Continue(r, q) ==
    /\ req' = [req EXCEPT ![r] = q]
    /\ UNCHANGED requests

\* A request that is answered at once.
Answer(r) == req[r] = Idle /\ UNCHANGED <<req, requests>>

\* findOne, and the changes to the entity; what follows is save().
Loaded(q, u, entity) ==
    [q EXCEPT !.pc = "compare", !.id = u, !.seen = users[u], !.entity = entity]

\* Requests that change the interests of a user.
Choosing(u) ==
    {r \in Requests : req[r].id = u /\ req[r].kind \in {"verify", "interests"}}

-----------------------------------------------------------------------------
(* Registration. *)

\* startRegistration, hashing the password.
StartRegistration(r) ==
    /\ \E e \in Emails, n \in Phones, p \in Passwords, s \in Selections :
          Start(r, [Idle EXCEPT !.pc = "insert", !.kind = "register", !.select = s,
                                !.entity = RegisteredUser(e, n, p)])
    /\ UNCHANGED <<tableVars, eventVars, ghostVars, failures>>

\* The INSERT of create, createAppleUser and createGoogleUser, which an index may
\* reject; the social logins are answered with a JWT.
InsertUser(r) ==
    /\ req[r].pc = "insert"
    /\ \/ /\ Conflicts(req[r].entity, Accounts)
          /\ Continue(r, Idle)
          /\ UNCHANGED <<users, answered>>
       \/ /\ ~Conflicts(req[r].entity, Accounts)
          /\ \E u \in Ids \ Accounts :
                /\ users' = [users EXCEPT ![u] = req[r].entity]
                /\ Continue(r, IF req[r].kind = "register"
                               THEN [req[r] EXCEPT !.pc = "token", !.id = u] ELSE Idle)
                /\ answered' = IF req[r].kind = "google"
                               THEN answered \cup {<<req[r].key, u>>} ELSE answered
    /\ UNCHANGED <<interests, tokens, chosen, mailed, resets, eventVars, broken, putBack,
                   moved, asked, added, mixed, failures>>

\* Seeded bug: the mail is sent and then the token is stored.
MailFirst(r) ==
    /\ req[r].pc = "token" /\ req[r].kind = "register"
    /\ mailed' = mailed \cup {req[r].id}
    /\ Continue(r, [req[r] EXCEPT !.pc = "mail"])
    /\ UNCHANGED <<users, interests, tokens, chosen, resets, eventVars, ghostVars, failures>>

\* VerificationService.create
StoreToken(r) ==
    /\ req[r].pc = "token" /\ req[r].kind = "register"
    /\ tokens' = tokens \cup {req[r].id}
    /\ chosen' = [chosen EXCEPT ![req[r].id] = req[r].select]
    /\ Continue(r, [req[r] EXCEPT !.pc = "mail"])
    /\ UNCHANGED <<users, interests, mailed, resets, eventVars, ghostVars, failures>>

SendVerificationEmail(r) ==
    /\ req[r].pc = "mail" /\ req[r].kind = "register"
    /\ mailed' = mailed \cup {req[r].id}
    /\ Continue(r, Idle)
    /\ UNCHANGED <<users, interests, tokens, chosen, resets, eventVars, ghostVars, failures>>

\* verifyEmail finds the token of a mailed link; without one it throws.
VerifyEmail(r) ==
    /\ \E u \in mailed \cap tokens :
          /\ Start(r, [Idle EXCEPT !.pc = "consume", !.kind = "verify", !.id = u])
          /\ mixed' = IF \E q \in Choosing(u) : req[q].kind = "interests"
                      THEN mixed \cup {u} ELSE mixed
    /\ UNCHANGED <<tableVars, eventVars, answered, broken, putBack, moved, asked, added, failures>>

\* The token is deleted; another request may have found it too.
ConsumeToken(r) ==
    /\ req[r].pc = "consume" /\ req[r].kind = "verify"
    /\ tokens' = tokens \ {req[r].id}
    /\ Continue(r, [req[r] EXCEPT !.pc = "load"])
    /\ UNCHANGED <<users, interests, chosen, mailed, resets, eventVars, ghostVars, failures>>

LoadVerified(r) ==
    /\ req[r].pc = "load" /\ req[r].kind = "verify"
    /\ Continue(r, Loaded(req[r], req[r].id, [users[req[r].id] EXCEPT !.verified = TRUE]))
    /\ UNCHANGED <<tableVars, eventVars, ghostVars, failures>>

\* The interests of the registration are added, all of them or, if the user has one
\* of them already, none: the unique index rejects the INSERT.
AddInterests(r) ==
    LET u == req[r].id IN
    /\ req[r].pc = "select" /\ req[r].kind = "verify"
    /\ interests' = IF chosen[u] \cap interests[u] = {}
                    THEN [interests EXCEPT ![u] = @ \cup chosen[u]] ELSE interests
    /\ added' = added \cup {u}
    /\ Continue(r, Idle)
    /\ UNCHANGED <<users, tokens, chosen, mailed, resets, eventVars, answered, broken,
                   putBack, moved, asked, mixed, failures>>

-----------------------------------------------------------------------------
(* save() of a loaded entity. *)

Compare(r) ==
    /\ req[r].pc = "compare"
    /\ Continue(r, [req[r] EXCEPT !.pc = "write",
           !.dirty = {c \in Columns : req[r].entity[c] # users[req[r].id][c]}])
    /\ UNCHANGED <<tableVars, eventVars, ghostVars, failures>>

Written(r) ==
    [c \in Columns |-> IF c \in req[r].dirty THEN req[r].entity[c] ELSE users[req[r].id][c]]

\* The columns this UPDATE sets to what they were when the entity was loaded.
Restored(r) == {c \in req[r].dirty : req[r].entity[c] = req[r].seen[c]}

\* What the request goes on to after save(): a verification inserts interests, a
\* Google login is answered.
AfterSave(r) ==
    IF req[r].kind = "verify" /\ chosen[req[r].id] # {}
    THEN [req[r] EXCEPT !.pc = "select"] ELSE Idle

\* Verifications that have loaded the row of u and not yet saved it.
Verifications(u) ==
    {r \in Requests : /\ req[r].id = u /\ req[r].kind = "verify"
                      /\ req[r].pc \in {"compare", "write"}}

\* An index may reject the UPDATE: of a number that is new, or of an old one put back.
Write(r) ==
    LET u == req[r].id
        row == Written(r)
    IN  /\ req[r].pc = "write"
        /\ \/ /\ Conflicts(row, Accounts \ {u})
              /\ Continue(r, Idle)
              /\ UNCHANGED <<users, putBack, moved, answered>>
           \/ /\ ~Conflicts(row, Accounts \ {u})
              /\ users' = [users EXCEPT ![u] = row]
              /\ putBack' = [putBack EXCEPT ![u] = (@ \ req[r].dirty) \cup Restored(r)]
              /\ moved' = IF "phone" \in req[r].dirty /\ Verifications(u) \ {r} # {}
                          THEN moved \cup {u} ELSE moved
              /\ answered' = IF req[r].kind = "google"
                             THEN answered \cup {<<req[r].key, u>>} ELSE answered
              /\ Continue(r, AfterSave(r))
        /\ UNCHANGED <<interests, tokens, chosen, mailed, resets, eventVars, broken, asked,
                       added, mixed, failures>>

\* updateProfile, with another number or none, or with columns that are left out here.
UpdateProfile(r) ==
    /\ \E u \in Accounts : \E n \in Phones \cup {Null, users[u].phone} :
          Start(r, Loaded([Idle EXCEPT !.kind = "profile"], u, [users[u] EXCEPT !.phone = n]))
    /\ UNCHANGED <<tableVars, eventVars, ghostVars, failures>>

-----------------------------------------------------------------------------
(* Passwords. *)

\* Who knows the password has it changed, unless there is none.
ChangePassword(r) ==
    /\ \E u \in Accounts : \E p \in Passwords :
          /\ users[u].password # Null
          /\ Start(r, Loaded([Idle EXCEPT !.kind = "change"], u,
                             [users[u] EXCEPT !.password = p]))
    /\ UNCHANGED <<tableVars, eventVars, ghostVars, failures>>

\* forgotPassword for an e-mail address that is known.
ForgotPassword(r) ==
    /\ \E u \in Accounts : \E t \in ResetTokens :
          /\ users[u].email # Null /\ resets[t].state = "new"
          /\ Start(r, [Idle EXCEPT !.pc = "token", !.kind = "forgot", !.id = u, !.key = t])
    /\ UNCHANGED <<tableVars, eventVars, ghostVars, failures>>

\* PasswordResetService.createToken
CreateResetToken(r) ==
    LET t == req[r].key IN
    /\ req[r].pc = "token" /\ req[r].kind = "forgot"
    /\ \/ resets[t].state # "new" /\ Continue(r, Idle) /\ UNCHANGED resets
       \/ /\ resets[t].state = "new"
          /\ resets' = [resets EXCEPT ![t] = [email |-> users[req[r].id].email,
                                              state |-> "stored"]]
          /\ Continue(r, [req[r] EXCEPT !.pc = "mail"])
    /\ UNCHANGED <<users, interests, tokens, chosen, mailed, eventVars, ghostVars, failures>>

SendPasswordResetEmail(r) ==
    /\ req[r].pc = "mail" /\ req[r].kind = "forgot"
    /\ resets' = [resets EXCEPT ![req[r].key].state =
                     IF @ = "stored" THEN "mailed" ELSE @]
    /\ Continue(r, Idle)
    /\ UNCHANGED <<users, interests, tokens, chosen, mailed, eventVars, ghostVars, failures>>

\* Fifteen minutes have passed.
ResetExpires(t) ==
    /\ resets[t].state \in {"stored", "mailed"}
    /\ resets' = [resets EXCEPT ![t].state = "expired"]
    /\ UNCHANGED <<users, interests, tokens, chosen, mailed, eventVars, ghostVars, req,
                   requests, failures>>

\* resetPassword: the token is found and has not expired.
ResetPassword(r) ==
    /\ \E t \in ResetTokens :
          /\ resets[t].state = "mailed"
          /\ Start(r, [Idle EXCEPT !.pc = "consume", !.kind = "reset", !.key = t])
    /\ UNCHANGED <<tableVars, eventVars, ghostVars, failures>>

ConsumeResetToken(r) ==
    /\ req[r].pc = "consume" /\ req[r].kind = "reset"
    /\ resets' = [resets EXCEPT ![req[r].key].state = "used"]
    /\ Continue(r, [req[r] EXCEPT !.pc = "load"])
    /\ UNCHANGED <<users, interests, tokens, chosen, mailed, eventVars, ghostVars, failures>>

\* The user is found by the e-mail address of the token.
LoadReset(r) ==
    /\ req[r].pc = "load" /\ req[r].kind = "reset"
    /\ \E u \in With("email", resets[req[r].key].email) : \E p \in Passwords :
          Continue(r, Loaded(req[r], u, [users[u] EXCEPT !.password = p]))
    /\ UNCHANGED <<tableVars, eventVars, ghostVars, failures>>

-----------------------------------------------------------------------------
(* Sign-in with Google and Apple. *)

\* findByGoogleId; whoever is new and has an e-mail address may be linked.
GoogleLogin(r) ==
    /\ \E g \in Googles : \E v \in BOOLEAN :
          \/ /\ \E u \in With("google", g) : answered' = answered \cup {<<g, u>>}
             /\ Answer(r)
          \/ /\ With("google", g) = {}
             /\ Start(r, [Idle EXCEPT !.kind = "google", !.key = g,
                             !.pc = IF GoogleEmail[g] = Null THEN "insert" ELSE "link",
                             !.entity = GoogleUser(g, v)])
             /\ UNCHANGED answered
    /\ UNCHANGED <<tableVars, eventVars, broken, putBack, moved, asked, added, mixed, failures>>

\* The account with the e-mail address is linked, or a new one is made.
LinkGoogle(r) ==
    LET found == With("email", req[r].entity.email) IN
    /\ req[r].pc = "link"
    /\ \/ found = {} /\ Continue(r, [req[r] EXCEPT !.pc = "insert"])
       \/ \E u \in found :
             Continue(r, Loaded(req[r], u,
                 [users[u] EXCEPT !.google = req[r].key,
                                  !.verified = users[u].verified \/ req[r].entity.verified]))
    /\ UNCHANGED <<tableVars, eventVars, ghostVars, failures>>

\* appleLogin: an account that has the e-mail address already is not linked; the
\* insert fails.
AppleLogin(r) ==
    /\ \E a \in Apples : \E e \in Emails \cup {Null} : \E v \in BOOLEAN :
          /\ With("apple", a) = {}
          /\ Start(r, [Idle EXCEPT !.pc = "insert", !.kind = "apple",
                          !.entity = AppleUser(a, e, v)])
    /\ UNCHANGED <<tableVars, eventVars, ghostVars, failures>>

-----------------------------------------------------------------------------
(* Interests. *)

\* Seeded bug: the interests of before stay.
KeepInterests(r) ==
    /\ \E u \in Accounts : \E s \in Selections :
          /\ Start(r, [Idle EXCEPT !.pc = "select", !.kind = "interests", !.id = u, !.select = s])
          /\ asked' = [asked EXCEPT ![u] = s]
          /\ added' = added \ {u}
          /\ mixed' = IF Choosing(u) # {} THEN mixed \cup {u} ELSE mixed
    /\ UNCHANGED <<tableVars, eventVars, answered, broken, putBack, moved, failures>>

\* updateInterests: DELETE first.
UpdateInterests(r) ==
    /\ \E u \in Accounts : \E s \in Selections :
          /\ interests' = [interests EXCEPT ![u] = {}]
          /\ Start(r, [Idle EXCEPT !.pc = "select", !.kind = "interests", !.id = u, !.select = s])
          /\ asked' = [asked EXCEPT ![u] = s]
          /\ added' = added \ {u}
          /\ mixed' = IF Choosing(u) # {} THEN mixed \cup {u} ELSE mixed
    /\ UNCHANGED <<users, tokens, chosen, mailed, resets, eventVars, answered, broken,
                   putBack, moved, failures>>

\* Then the rows are inserted, all of them or, if one is there already, none.
InsertInterests(r) ==
    LET u == req[r].id IN
    /\ req[r].pc = "select" /\ req[r].kind = "interests"
    /\ interests' = IF req[r].select \cap interests[u] = {}
                    THEN [interests EXCEPT ![u] = @ \cup req[r].select] ELSE interests
    /\ Continue(r, Idle)
    /\ UNCHANGED <<users, tokens, chosen, mailed, resets, eventVars, ghostVars, failures>>

-----------------------------------------------------------------------------
(* Subscriptions. *)

\* resolvePlan
ResolvePlan(entitlements) ==
    IF "gold" \in entitlements THEN "gold"
    ELSE IF "premium" \in entitlements THEN "premium" ELSE "free"

NewEvent(u, type, entitlements) ==
    /\ eventCount < MaxEvents
    /\ eventCount' = eventCount + 1
    /\ events' = [events EXCEPT ![u] = Append(@,
                     [type |-> type, entitlements |-> entitlements, n |-> eventCount'])]

\* What happens at RevenueCat: a purchase, renewal or change; a cancellation, which
\* leaves what is paid for; an end.
Purchase(u) ==
    /\ \E e \in SUBSET {"premium", "gold"} : e # {} /\ NewEvent(u, "ACTIVATE", e)
                                                    /\ entitled' = [entitled EXCEPT ![u] = e]
    /\ UNCHANGED <<tableVars, ghostVars, newest, late, req, requests, failures>>

Cancel(u) ==
    /\ entitled[u] # {} /\ NewEvent(u, "CANCELLATION", entitled[u])
    /\ UNCHANGED <<tableVars, ghostVars, entitled, newest, late, req, requests, failures>>

Expire(u) ==
    /\ entitled[u] # {} /\ NewEvent(u, "DEACTIVATE", entitled[u])
    /\ entitled' = [entitled EXCEPT ![u] = {}]
    /\ UNCHANGED <<tableVars, ghostVars, newest, late, req, requests, failures>>

\* Seeded bug: a cancellation ends the subscription.
PlanAfterCancelled(u, e) ==
    IF e.type = "ACTIVATE" THEN ResolvePlan(e.entitlements) ELSE "free"

\* handleEvent: the plan after an event.
PlanAfter(u, e) ==
    IF e.type = "ACTIVATE" THEN ResolvePlan(e.entitlements)
    ELSE IF e.type = "DEACTIVATE" THEN "free" ELSE users[u].plan

\* One UPDATE.  RevenueCat delivers an event again until it is answered: an event may
\* come twice, and one may overtake another.
HandleEvent(u) ==
    \E i \in DOMAIN events[u] :
        LET e == events[u][i] IN
        /\ events' \in {events, [events EXCEPT ![u] = SubSeq(@, 1, i - 1) \o SubSeq(@, i + 1, Len(@))]}
        /\ users' = [users EXCEPT ![u].plan = PlanAfter(u, e)]
        /\ putBack' = [putBack EXCEPT ![u] = IF e.type = "CANCELLATION" THEN @ ELSE @ \ {"plan"}]
        /\ newest' = [newest EXCEPT ![u] = IF e.type # "CANCELLATION" /\ e.n > @ THEN e.n ELSE @]
        /\ late' = IF e.type = "CANCELLATION" THEN late
                   ELSE IF e.n < newest[u] THEN late \cup {u} ELSE late \ {u}
        /\ UNCHANGED <<interests, tokens, chosen, mailed, resets, entitled, eventCount,
                       answered, broken, moved, asked, added, mixed, req, requests, failures>>

-----------------------------------------------------------------------------
\* A call is rejected, or the process ends.
Fails(r) ==
    /\ req[r] # Idle
    /\ failures < MaxFailures
    /\ failures' = failures + 1
    /\ req' = [req EXCEPT ![r] = Idle]
    /\ broken' = IF req[r].kind \in {"verify", "interests"} /\ req[r].pc # "consume"
                 THEN broken \cup {req[r].id} ELSE broken
    /\ UNCHANGED <<tableVars, eventVars, requests, answered, putBack, moved, asked, added, mixed>>

SignIn(r) ==
    \/ StartRegistration(r) \/ VerifyEmail(r) \/ GoogleLogin(r) \/ AppleLogin(r)

Change(r) == UpdateProfile(r) \/ ChangePassword(r) \/ ForgotPassword(r) \/ ResetPassword(r)

RequestStep(r) ==
    \/ InsertUser(r) \/ StoreToken(r) \/ SendVerificationEmail(r)
    \/ ConsumeToken(r) \/ LoadVerified(r) \/ AddInterests(r)
    \/ Compare(r) \/ Write(r)
    \/ CreateResetToken(r) \/ SendPasswordResetEmail(r) \/ ConsumeResetToken(r) \/ LoadReset(r)
    \/ LinkGoogle(r) \/ InsertInterests(r)

Subscription(u) == Purchase(u) \/ Cancel(u) \/ Expire(u) \/ HandleEvent(u)

AccountNext ==
    \/ \E r \in Requests : SignIn(r) \/ Change(r) \/ UpdateInterests(r) \/ RequestStep(r) \/ Fails(r)
    \/ \E u \in Accounts : Subscription(u)
    \/ \E t \in ResetTokens : ResetExpires(t)

AccountSpec == AccountInit /\ [][AccountNext]_accountVars

-----------------------------------------------------------------------------
(* Properties. *)

AccountTypeOK ==
    /\ users \in [Ids -> User \cup {Null}]
    /\ interests \in [Ids -> SUBSET Interests]
    /\ tokens \subseteq Accounts /\ mailed \subseteq Accounts
    /\ chosen \in [Ids -> SUBSET Interests]
    /\ resets \in [ResetTokens -> Reset]
    /\ events \in [Ids -> Seq(Event)] /\ eventCount \in 0..MaxEvents
    /\ entitled \in [Ids -> SUBSET {"premium", "gold"}]
    /\ req \in [Requests -> Request]
    /\ requests \in 0..MaxRequests /\ failures \in 0..MaxFailures
    /\ answered \subseteq Googles \X Accounts
    /\ broken \subseteq Ids /\ putBack \in [Ids -> SUBSET Columns]
    /\ newest \in [Ids -> 0..MaxEvents] /\ late \subseteq Ids
    /\ moved \cup mixed \subseteq Ids /\ added \subseteq mailed
    /\ asked \in [Ids -> SUBSET Interests]

\* Whoever got the mail can verify the address, for there is no second one: until it
\* is verified, the link is good or is being used.  Three things take the token and
\* leave the user unverified: the verification breaks off (verifyEmail, :78-92), a
\* profile, password or Google save of an entity loaded before puts the old
\* emailVerified back (users.service.ts:342), and, if the user changes the phone number
\* while the verification has the row, its save may put back a number that somebody
\* else has taken and be rejected.
VerificationStaysPossible ==
    \A u \in mailed :
        \/ users[u].verified \/ u \in tokens
        \/ \E r \in Requests : req[r].id = u /\ req[r].kind = "verify"
        \/ u \in broken \cup moved \/ "verified" \in putBack[u]

\* A Google user always gets into the same account, also if two logins, a
\* registration with the address and saves of older copies overlap (googleLogin,
\* :296-322): nobody ends up with two accounts.
SameAccountForGoogle == \A a, b \in answered : a[1] = b[1] => a[2] = b[2]

\* Once RevenueCat's events are handled, a user has the plan that is paid for, unless
\* an event was overtaken by a newer one or a save of before put the old plan back.
PlanFollowsEvents ==
    \A u \in Accounts : events[u] = <<>> =>
        \/ users[u].plan = ResolvePlan(entitled[u])
        \/ u \in late \/ "plan" \in putBack[u]

\* What the user wants: the last choice and, verified since, that of the registration.
Wish(u) == asked[u] \cup (IF u \in added THEN chosen[u] ELSE {})

\* A user has exactly the interests asked for, those of the registration included once
\* it is verified: overlapping changes of interests apart (:203-214), neither a link
\* used twice nor a change before the verification mixes or loses any.  One loss is the
\* code's: who before the verification chose again some of the registration's gets none
\* of the rest, the INSERT being rejected (auth.service.ts:94-104).
InterestsAreChosen ==
    \A u \in Accounts : Choosing(u) = {} =>
        \/ interests[u] = Wish(u)
        \/ u \in added /\ asked[u] \cap chosen[u] # {} /\ interests[u] = asked[u]
        \/ u \in mixed \cup broken
=============================================================================
