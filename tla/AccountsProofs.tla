---------------------------- MODULE AccountsProofs ----------------------------
(* AccountInv is an invariant of Accounts for any number of users, requests,   *)
(* Google users and webhooks; from it follow that a Google user has one        *)
(* account, that only phone numbers make a save fail, that who got the mail    *)
(* can verify, that the interests are those asked for and the plan is the one  *)
(* paid for.                                                                   *)
EXTENDS Accounts, Integers, SequenceTheorems, TLAPS

-------------------------------------------------------------------------------
(* What the properties rest on. *)

\* The address says which Google user a row can belong to.
Belongs(row) == row.google # Null => row.email = GoogleEmail[row.google]

\* What a request knows at each of its awaits.
Sound(q) ==
    /\ q.pc = "idle" => q = Idle
    /\ q.pc = "insert" => q.kind \in {"register", "google", "apple"}
    /\ q.pc \in {"insert", "link"} =>
          q.entity \in User /\ Belongs(q.entity) /\ q.entity.plan = "free"
    /\ q.pc \in {"token", "mail"} =>
          /\ q.id \in Accounts
          /\ \/ q.kind = "register"
             \/ q.kind = "forgot" /\ q.key \in ResetTokens
    /\ q.pc \in {"consume", "load"} =>
          \/ q.kind = "verify"
          \/ q.kind = "reset" /\ q.key \in ResetTokens
    /\ q.pc \in {"compare", "write"} =>
          /\ q.kind \in {"verify", "reset", "change", "profile", "google"}
          /\ q.id \in Accounts /\ q.entity \in User /\ q.seen \in User
    /\ q.pc = "select" => q.kind \in {"verify", "interests"}
    /\ q.pc = "link" => q.kind = "google" /\ q.entity.email # Null
    /\ q.kind = "verify" =>
          q.id \in mailed /\ q.pc \in {"consume", "load", "compare", "write", "select"}
    /\ q.kind = "interests" => q.id \in Accounts /\ q.pc = "select"
    /\ q.kind = "google" =>
          /\ q.key \in Googles /\ q.entity \in User
          /\ q.entity.google = q.key /\ q.entity.email = GoogleEmail[q.key]

\* An entity that is saved is its row as far as nobody else may have it: an address
\* never changes, and a row without one keeps its Google user.
OfItsRow(q) ==
    q.pc \in {"compare", "write"} =>
        /\ q.entity.email = users[q.id].email /\ q.entity.apple = users[q.id].apple
        /\ Belongs(q.entity)
        /\ q.entity.email = Null => q.entity.google = users[q.id].google
        /\ q.entity.plan = q.seen.plan
        /\ ~q.entity.verified => q.kind # "verify" /\ ~q.seen.verified

RequestsAreSound == \A r \in Requests : Sound(req[r]) /\ OfItsRow(req[r])

\* A verification has the number of the row it loaded, and will not write it, unless
\* the user has changed it meanwhile.
KnowsNumber(q) ==
    q.kind = "verify" /\ q.pc \in {"compare", "write"} =>
        \/ q.id \in moved
        \/ /\ q.entity.phone = users[q.id].phone
           /\ q.pc = "write" => "phone" \notin q.dirty

NumbersAreKnown == \A r \in Requests : KnowsNumber(req[r])

\* The unique indexes, and rows that belong to their Google users.
RowsAreUnique ==
    /\ \A u, v \in Accounts : \A c \in {"email", "phone", "google", "apple"} :
          users[u][c] # Null /\ users[u][c] = users[v][c] => u = v
    /\ \A u \in Accounts : Belongs(users[u])

\* A Google user got into the row with the address, or else into the one of its own.
AnswersAreSound ==
    \A a \in answered :
        /\ users[a[2]].email = GoogleEmail[a[1]]
        /\ GoogleEmail[a[1]] = Null => users[a[2]].google = a[1]

Registering == {r \in Requests : req[r].kind = "register" /\ req[r].pc \in {"token", "mail"}}

\* One registration per row, whose mail is still to be sent; its token comes first.
RegistrationsAreApart ==
    \A r \in Registering :
        /\ req[r].id \notin mailed
        /\ req[r].pc = "mail" => req[r].id \in tokens
        /\ \A s \in Registering : req[s].id = req[r].id => s = r

\* A verification that found the token and has not ended goes on, and whoever was
\* verified when it compared still is, but for a save of before.
VerificationGoesOn ==
    /\ \A u \in mailed :
          \/ users[u].verified \/ u \in tokens
          \/ \E r \in Requests : req[r].id = u /\ req[r].kind = "verify" /\ req[r].pc # "consume"
          \/ u \in broken \cup moved \/ "verified" \in putBack[u]
    /\ \A r \in Requests :
          /\ req[r].kind = "verify"
          /\ \/ req[r].pc = "select"
             \/ req[r].pc = "write" /\ "verified" \notin req[r].dirty
          => users[req[r].id].verified \/ "verified" \in putBack[req[r].id]

\* The events that change the plan and are still to be delivered, at least once more.
Pending(u) == {events[u][i] : i \in DOMAIN events[u]}
Changes(u) == {e \in Pending(u) : e.type # "CANCELLATION"}

PlanOf(e) == IF e.type = "ACTIVATE" THEN ResolvePlan(e.entitlements) ELSE "free"

\* The last change of the plan is what is paid for; once it is delivered, the plan is.
LastChangeCounts ==
    \A u \in Ids :
        /\ newest[u] <= eventCount /\ \A e \in Pending(u) : e.n <= eventCount
        /\ \A e \in Changes(u) :
              e.n >= newest[u] /\ (\A f \in Changes(u) : f.n <= e.n)
                  => PlanOf(e) = ResolvePlan(entitled[u])
        /\ u \in Accounts /\ (\A e \in Changes(u) : e.n <= newest[u]) =>
              \/ users[u].plan = ResolvePlan(entitled[u])
              \/ u \in late \/ "plan" \in putBack[u]
        /\ u \notin Accounts => events[u] = <<>> /\ entitled[u] = {}

\* What the interests of a user are when nobody is changing them.
Settled(u) ==
    \/ interests[u] = Wish(u)
    \/ u \in added /\ asked[u] \cap chosen[u] # {} /\ interests[u] = asked[u]

\* Where changes of interests did not overlap, one that is under way will insert what
\* was asked for, and a verification adds to what is settled.
ChoiceOf(u) ==
    \/ u \in mixed \cup broken
    \/ Settled(u) /\ \A r \in Choosing(u) : req[r].kind = "verify"
    \/ /\ interests[u] = {} /\ u \notin added
       /\ \E r \in Requests :
             /\ Choosing(u) = {r} /\ req[r].kind = "interests"
             /\ req[r].select = asked[u]

ChoicesGoOn == \A u \in Ids : ChoiceOf(u)

\* The inductive invariant of the accounts.
AccountInv ==
    /\ AccountTypeOK
    /\ RequestsAreSound
    /\ NumbersAreKnown
    /\ RowsAreUnique
    /\ AnswersAreSound
    /\ RegistrationsAreApart
    /\ VerificationGoesOn
    /\ LastChangeCounts
    /\ ChoicesGoOn

\* However old the entity is, an index rejects its save only for a phone number that it
\* writes, and in verifyEmail (auth.service.ts:92) only if that number has changed since.
OnlyNumbersAreRejected ==
    \A r \in Requests :
        req[r].pc = "write" /\ Conflicts(Written(r), Accounts \ {req[r].id}) =>
            /\ "phone" \in req[r].dirty
            /\ req[r].kind = "verify" => req[r].id \in moved

-------------------------------------------------------------------------------
(* Requests and rows. *)

LEMMA IdleFacts ==
    /\ Idle \in Request /\ Idle.pc = "idle" /\ Idle.kind = "none"
    /\ Idle.id = Null /\ Idle.entity = Null
BY DEF Idle, Request, Kinds

\* Slot r holds q now.
Slot(r, q) == req' = [req EXCEPT ![r] = q]

LEMMA SlotFacts ==
    ASSUME AccountTypeOK, NEW r \in Requests, NEW q \in Request, Slot(r, q)
    PROVE  /\ req' \in [Requests -> Request] /\ req'[r] = q
           /\ \A s \in Requests : s # r => req'[s] = req[s]
BY DEF AccountTypeOK, Slot

\* What a step may do to the rows, as far as the entities in memory see it.
RowsKept ==
    \A u \in Accounts :
        /\ u \in Accounts' /\ users'[u].email = users[u].email /\ users'[u].apple = users[u].apple
        /\ users[u].email = Null => users'[u].google = users[u].google

LEMMA SoundStays ==
    ASSUME NEW q \in Request, Sound(q), OfItsRow(q), RowsKept, mailed \subseteq mailed'
    PROVE  Sound(q)' /\ OfItsRow(q)'
<1>1. q.id \in Accounts => q.id \in Accounts'
  BY DEF RowsKept
<1>2. Sound(q)'
  BY <1>1 DEF Sound
<1>3. OfItsRow(q)'
  BY DEF OfItsRow, RowsKept, Sound
<1> QED BY <1>2, <1>3

LEMMA RequestsStay ==
    ASSUME AccountTypeOK, RequestsAreSound, RowsKept, mailed \subseteq mailed',
           NEW r \in Requests, NEW q \in Request, Slot(r, q), Sound(q)', OfItsRow(q)'
    PROVE  RequestsAreSound'
<1>1. ASSUME NEW s \in Requests, s # r PROVE Sound(req[s])' /\ OfItsRow(req[s])'
  <2>1. PICK p \in Request : p = req[s]
    BY DEF AccountTypeOK
  <2>2. Sound(p)' /\ OfItsRow(p)'
    BY <2>1, SoundStays DEF RequestsAreSound
  <2>3. req'[s] = p
    BY <1>1, <2>1, SlotFacts
  <2> QED BY <2>2, <2>3 DEF Sound, OfItsRow
<1>2. Sound(req[r])' /\ OfItsRow(req[r])'
  <2>1. req'[r] = q
    BY SlotFacts
  <2> QED BY <2>1 DEF Sound, OfItsRow
<1> QED BY <1>1, <1>2 DEF RequestsAreSound

LEMMA AnswersStay ==
    ASSUME AccountTypeOK, AnswersAreSound, RowsKept, UNCHANGED answered
    PROVE  AnswersAreSound' /\ answered' \subseteq Googles \X Accounts'
<1>1. ASSUME NEW a \in answered
      PROVE  a \in Googles \X Accounts /\ a[2] \in Accounts /\ a[1] \in Googles
  BY DEF AccountTypeOK
<1>2. answered' \subseteq Googles \X Accounts'
  BY <1>1 DEF RowsKept
<1>3. AnswersAreSound'
  BY <1>1 DEF AnswersAreSound, RowsKept
<1> QED BY <1>2, <1>3

LEMMA RegistrationsStay ==
    ASSUME RegistrationsAreApart, UNCHANGED mailed,
           \A u \in tokens \ mailed : u \in tokens',
           NEW r \in Requests, \A s \in Requests : s # r => req'[s] = req[s],
           req'[r].kind = "register" /\ req'[r].pc \in {"token", "mail"} =>
              /\ r \in Registering /\ req'[r].id = req[r].id
              /\ req'[r].pc = "mail" => req'[r].id \in tokens'
    PROVE  RegistrationsAreApart'
<1>1. \A s \in Registering' : s \in Registering /\ req'[s].id = req[s].id
  BY DEF Registering
<1>2. ASSUME NEW s \in Registering', req'[s].pc = "mail" PROVE req'[s].id \in tokens'
  BY <1>1, <1>2 DEF RegistrationsAreApart, Registering
<1> QED BY <1>1, <1>2 DEF RegistrationsAreApart

LEMMA NumbersStay ==
    ASSUME NumbersAreKnown, RequestsAreSound, moved \subseteq moved',
           NEW r \in Requests, \A s \in Requests : s # r => req'[s] = req[s],
           NEW q, req'[r] = q, KnowsNumber(q)',
           \A u \in Accounts :
              Verifications(u) \ {r} # {} => u \in moved' \/ users'[u].phone = users[u].phone
    PROVE  NumbersAreKnown'
<1> SUFFICES ASSUME NEW s \in Requests PROVE KnowsNumber(req[s])'
  BY DEF NumbersAreKnown
<1>1. CASE s = r
  BY <1>1 DEF KnowsNumber
<1>2. CASE s # r
  <2>1. req'[s] = req[s] /\ KnowsNumber(req[s])
    BY <1>2 DEF NumbersAreKnown
  <2>2. ASSUME req[s].kind = "verify", req[s].pc \in {"compare", "write"}
        PROVE  /\ req[s].id \in Accounts
               /\ \/ req[s].id \in moved'
                  \/ users'[req[s].id].phone = users[req[s].id].phone
    <3>1. req[s].id \in Accounts
      BY <2>2 DEF RequestsAreSound, Sound
    <3>2. s \in Verifications(req[s].id) \ {r}
      BY <1>2, <2>2 DEF Verifications
    <3> QED BY <3>1, <3>2
  <2> QED BY <2>1, <2>2 DEF KnowsNumber
<1> QED BY <1>1, <1>2

\* A verification that is not over: it has the token, or is about to write.
Verifying(q) == q.kind = "verify" /\ q.pc # "consume"

Verified(u) == users[u].verified \/ "verified" \in putBack[u]

HasVerified(q) ==
    /\ q.kind = "verify"
    /\ \/ q.pc = "select"
       \/ q.pc = "write" /\ "verified" \notin q.dirty

\* A link is mailed only when its token is there, and who takes the token goes on as q.
LinksKept(q) ==
    /\ mailed' \subseteq mailed \cup tokens
    /\ \A u \in tokens : u \in tokens' \/ (Verifying(q) /\ q.id = u)

LEMMA VerificationsMove ==
    ASSUME VerificationGoesOn, RequestsAreSound,
           broken \subseteq broken', moved \subseteq moved',
           \A u \in mailed : Verified(u) => Verified(u)',
           NEW r \in Requests, \A s \in Requests : s # r => req'[s] = req[s],
           NEW p, NEW q, req[r] = p, req'[r] = q,
           LinksKept(q),
           Verifying(p) =>
              \/ Verifying(q) /\ q.id = p.id
              \/ p.id \in broken' \cup moved' \/ Verified(p.id)',
           HasVerified(q) => q.id \in mailed /\ Verified(q.id)'
    PROVE  VerificationGoesOn'
<1>1. ASSUME NEW u \in mailed'
      PROVE  \/ Verified(u)' \/ u \in tokens'
             \/ \E s \in Requests : req'[s].id = u /\ Verifying(req'[s])
             \/ u \in broken' \cup moved'
  <2>1. ASSUME Verified(u), u \in mailed PROVE Verified(u)'
    BY <2>1
  <2>2. CASE u \in tokens \/ u \in broken \cup moved
    BY <2>2 DEF LinksKept
  <2>3. ASSUME NEW s \in Requests, req[s].id = u, Verifying(req[s])
        PROVE  \/ \E t \in Requests : req'[t].id = u /\ Verifying(req'[t])
               \/ u \in broken' \cup moved' \/ Verified(u)'
    <3>1. CASE s = r
      <4>1. p.id = u /\ Verifying(p)
        BY <2>3, <3>1
      <4>2. CASE Verified(p.id)'
        BY <4>1, <4>2
      <4> QED BY <4>1, <4>2
    <3>2. CASE s # r
      BY <2>3, <3>2
    <3> QED BY <3>1, <3>2
  <2> QED BY <2>1, <2>2, <2>3 DEF VerificationGoesOn, Verified, Verifying, LinksKept
<1>2. ASSUME NEW s \in Requests, NEW x, req'[s] = x, HasVerified(x) PROVE Verified(x.id)'
  <2>1. CASE s = r
    BY <1>2, <2>1
  <2>2. CASE s # r
    <3>1. x = req[s] /\ x.id \in mailed
      BY <1>2, <2>2 DEF RequestsAreSound, Sound, HasVerified
    <3>2. Verified(x.id)
      BY <1>2, <3>1 DEF VerificationGoesOn, Verified, HasVerified
    <3> QED BY <3>1, <3>2
  <2> QED BY <2>1, <2>2
<1> QED BY <1>1, <1>2 DEF VerificationGoesOn, Verified, Verifying, HasVerified

LEMMA VerificationsStay ==
    ASSUME VerificationGoesOn, RequestsAreSound, UNCHANGED mailed, tokens \subseteq tokens',
           broken \subseteq broken', moved \subseteq moved',
           \A u \in mailed : Verified(u) => Verified(u)',
           NEW r \in Requests, \A s \in Requests : s # r => req'[s] = req[s],
           NEW p, NEW q, req[r] = p, req'[r] = q,
           Verifying(p) =>
              \/ Verifying(q) /\ q.id = p.id
              \/ p.id \in broken' \cup moved' \/ Verified(p.id)',
           HasVerified(q) => q.id \in mailed /\ Verified(q.id)'
    PROVE  VerificationGoesOn'
<1>1. LinksKept(q)
  BY DEF LinksKept
<1> QED BY <1>1, VerificationsMove

LEMMA ChangesStay ==
    ASSUME LastChangeCounts, AccountTypeOK, UNCHANGED eventVars, Accounts \subseteq Accounts',
           \A u \in Accounts : \/ "plan" \in putBack'[u]
                               \/ /\ users'[u].plan = users[u].plan
                                  /\ "plan" \in putBack[u] => "plan" \in putBack'[u],
           \A u \in Accounts' \ Accounts : users'[u].plan = "free"
    PROVE  LastChangeCounts'
<1>1. UNCHANGED <<events, entitled, eventCount, newest, late>>
  BY DEF eventVars
<1>2. \A u \in Ids : Changes(u)' = Changes(u) /\ Pending(u)' = Pending(u)
  BY <1>1 DEF Changes, Pending
<1>3. ASSUME NEW u \in Accounts', \A e \in Changes(u) : e.n <= newest[u]
      PROVE  \/ users'[u].plan = ResolvePlan(entitled[u])
             \/ u \in late \/ "plan" \in putBack'[u]
  <2>1. CASE u \in Accounts
    BY <1>3, <2>1 DEF LastChangeCounts, Accounts
  <2>2. CASE u \notin Accounts
    <3>1. u \in Ids /\ entitled[u] = {}
      BY <2>2 DEF LastChangeCounts, Accounts
    <3> QED BY <1>3, <2>2, <3>1 DEF ResolvePlan
  <2> QED BY <2>1, <2>2
<1>4. \A u \in Ids : u \notin Accounts' => u \notin Accounts
  OBVIOUS
<1> QED BY <1>1, <1>2, <1>3, <1>4 DEF LastChangeCounts

Picks(q) == q.kind \in {"verify", "interests"}

LEMMA ChoicesStay ==
    ASSUME ChoicesGoOn, UNCHANGED <<interests, asked, added>>,
           \A u \in added : chosen'[u] = chosen[u],
           mixed \subseteq mixed', broken \subseteq broken',
           NEW r \in Requests, \A s \in Requests : s # r => req'[s] = req[s],
           NEW p, NEW q, req[r] = p, req'[r] = q,
           \/ Picks(p) /\ q.kind = p.kind /\ q.id = p.id /\ q.select = p.select
           \/ ~Picks(q) /\ (p.kind = "interests" => p.id \in mixed' \cup broken')
           \/ /\ ~Picks(p) /\ q.kind = "verify"
              /\ (\E s \in Choosing(q.id) : req[s].kind = "interests") => q.id \in mixed'
    PROVE  ChoicesGoOn'
<1> SUFFICES ASSUME NEW u \in Ids, u \notin mixed' \cup broken'
             PROVE  \/ /\ Settled(u)'
                       /\ \A s \in Choosing(u)' : req'[s].kind = "verify"
                    \/ /\ interests'[u] = {} /\ u \notin added'
                       /\ \E s \in Requests :
                             /\ Choosing(u)' = {s} /\ req'[s].kind = "interests"
                             /\ req'[s].select = asked'[u]
  BY DEF ChoicesGoOn, ChoiceOf
<1>0. Settled(u) => Settled(u)'
  BY DEF Settled, Wish
<1>1. \A s \in Requests : /\ s \in Choosing(u) <=> Picks(req[s]) /\ req[s].id = u
                          /\ s \in Choosing(u)' <=> Picks(req'[s]) /\ req'[s].id = u
  BY DEF Choosing, Picks
<1>2. Choosing(u) \subseteq Requests /\ Choosing(u)' \subseteq Requests
  BY DEF Choosing
<1>3. CASE Settled(u) /\ \A s \in Choosing(u) : req[s].kind = "verify"
  <2>1. ASSUME NEW s \in Choosing(u)' PROVE req'[s].kind = "verify"
    <3>1. s \in Requests
      BY <1>2
    <3>2. CASE s # r
      BY <1>1, <1>3, <2>1, <3>1, <3>2
    <3>3. CASE s = r
      BY <1>1, <1>3, <2>1, <3>1, <3>3 DEF Picks
    <3> QED BY <3>2, <3>3
  <2> QED BY <1>0, <1>3, <2>1
<1>4. ASSUME NEW x \in Requests, Choosing(u) = {x}, req[x].kind = "interests",
             req[x].select = asked[u]
      PROVE  Choosing(u)' = {x} /\ req'[x].kind = "interests" /\ req'[x].select = asked'[u]
  <2>1. Picks(req[x]) /\ req[x].id = u
    BY <1>1, <1>4
  <2>2. CASE x = r
    <3>1. /\ Picks(p) /\ p.kind = "interests" /\ p.id = u
          /\ q.kind = p.kind /\ q.id = p.id /\ q.select = p.select
      BY <1>4, <2>1, <2>2
    <3> QED BY <1>1, <1>2, <1>4, <2>1, <2>2, <3>1 DEF Picks
  <2>3. CASE x # r
    <3>1. r \notin Choosing(u)
      BY <1>4, <2>3
    <3>2. ~(Picks(q) /\ q.id = u)
      BY <1>1, <1>4, <2>1, <3>1
    <3> QED BY <1>1, <1>2, <1>4, <2>1, <2>3, <3>2
  <2> QED BY <2>2, <2>3
<1> QED BY <1>3, <1>4 DEF ChoicesGoOn, ChoiceOf

-------------------------------------------------------------------------------
(* The steps. *)

LEMMA InitInv == AccountInit => AccountInv
<1> SUFFICES ASSUME AccountInit PROVE AccountInv
  OBVIOUS
<1>1. /\ Accounts = {} /\ \A r \in Requests : req[r] = Idle
  BY DEF AccountInit, Accounts
<1>2. AccountTypeOK
  <2>1. users \in [Ids -> User \cup {Null}] /\ events \in [Ids -> Seq(Event)]
    BY DEF AccountInit
  <2>2. resets \in [ResetTokens -> Reset]
    BY DEF AccountInit, Reset
  <2>3. eventCount \in 0..MaxEvents /\ requests \in 0..MaxRequests /\ failures \in 0..MaxFailures
        /\ newest \in [Ids -> 0..MaxEvents]
    BY AccountAssumption DEF AccountInit
  <2> QED BY <2>1, <2>2, <2>3, IdleFacts DEF AccountInit, AccountTypeOK
<1>3. RequestsAreSound
  BY <1>1, IdleFacts DEF RequestsAreSound, Sound, OfItsRow
<1>4. RowsAreUnique /\ AnswersAreSound
  BY <1>1 DEF AccountInit, RowsAreUnique, AnswersAreSound
<1>5. RegistrationsAreApart /\ VerificationGoesOn
  BY <1>1, IdleFacts DEF AccountInit, RegistrationsAreApart, Registering, VerificationGoesOn
<1>6. LastChangeCounts
  <2>1. \A u \in Ids : Pending(u) = {} /\ Changes(u) = {} /\ u \notin Accounts
                       /\ newest[u] <= eventCount
    BY <1>1 DEF AccountInit, Pending, Changes
  <2> QED BY <2>1 DEF AccountInit, LastChangeCounts
<1>7. ChoicesGoOn
  BY <1>1, IdleFacts DEF AccountInit, ChoicesGoOn, ChoiceOf, Settled, Wish, Choosing
<1>8. NumbersAreKnown
  BY <1>1, IdleFacts DEF NumbersAreKnown, KnowsNumber
<1> QED BY <1>2, <1>3, <1>4, <1>5, <1>6, <1>7, <1>8 DEF AccountInv

\* A step of one request that leaves rows, verification tokens, events and interests
\* alone, and the kind of a verification or of a change of interests with it.
LEMMA QuietStep ==
    ASSUME AccountInv, NEW r \in Requests, NEW p, p = req[r], NEW q \in Request, Slot(r, q),
           UNCHANGED <<users, interests, tokens, chosen, mailed, broken, putBack, moved,
                       asked, added, mixed, failures>>,
           UNCHANGED eventVars,
           resets' \in [ResetTokens -> Reset], requests' \in 0..MaxRequests,
           AnswersAreSound', answered' \subseteq Googles \X Accounts,
           Sound(q), OfItsRow(q), Picks(q) => KnowsNumber(q),
           q.kind = "register" => q.pc \notin {"token", "mail"},
           \/ Picks(p) /\ q.kind = p.kind /\ q.id = p.id /\ q.select = p.select
           \/ ~Picks(p) /\ ~Picks(q),
           Verifying(p) => Verifying(q),
           HasVerified(q) => Verified(q.id)
    PROVE  AccountInv'
<1>1. AccountTypeOK /\ RequestsAreSound
  BY DEF AccountInv
<1>2. Accounts' = Accounts /\ RowsKept
  BY DEF Accounts, RowsKept
<1>3. Sound(q)' /\ OfItsRow(q)'
  BY <1>2, SoundStays
<1>4. req' \in [Requests -> Request] /\ req'[r] = q /\ \A s \in Requests : s # r => req'[s] = req[s]
  BY <1>1, SlotFacts
<1>5. AccountTypeOK'
  BY <1>1, <1>2, <1>4 DEF AccountTypeOK, eventVars
<1>6. RequestsAreSound'
  BY <1>1, <1>2, <1>3, RequestsStay
<1>7. RowsAreUnique'
  BY <1>2 DEF AccountInv, RowsAreUnique
<1>8. RegistrationsAreApart'
  BY <1>4, RegistrationsStay DEF AccountInv
<1>9. VerificationGoesOn'
  <2>1. HasVerified(q) => q.id \in mailed /\ Verified(q.id)'
    BY DEF HasVerified, Sound, Verified
  <2>2. \A u \in mailed : Verified(u) => Verified(u)'
    BY DEF Verified
  <2>3. Verifying(p) => Verifying(q) /\ q.id = p.id
    BY DEF Verifying, Picks
  <2> QED BY <1>1, <1>4, <2>1, <2>2, <2>3, VerificationsStay DEF AccountInv
<1>10. LastChangeCounts'
  BY <1>1, <1>2, ChangesStay DEF AccountInv
<1>12. NumbersAreKnown'
  <2>1. KnowsNumber(q)'
    BY DEF KnowsNumber, Picks
  <2> QED BY <1>1, <1>4, <2>1, NumbersStay DEF AccountInv
<1>11. ChoicesGoOn'
  <2>1. ~Picks(q) => ~Picks(p)
    BY DEF Picks
  <2>2. p.kind = "interests" => Picks(p)
    BY DEF Picks
  <2> QED BY <1>4, <2>1, <2>2, ChoicesStay DEF AccountInv
<1> QED BY <1>5, <1>6, <1>7, <1>8, <1>9, <1>10, <1>11, <1>12 DEF AccountInv

LEMMA UnchangedAnswers ==
    ASSUME AccountInv, UNCHANGED <<users, answered>>
    PROVE  AnswersAreSound' /\ answered' \subseteq Googles \X Accounts
<1>1. RowsKept /\ Accounts' = Accounts
  BY DEF RowsKept, Accounts
<1> QED BY <1>1, AnswersStay DEF AccountInv

\* A request that begins, is no change of interests and no registration yet to mail.
LEMMA StartStep ==
    ASSUME AccountInv, NEW r \in Requests, NEW q \in Request, Start(r, q),
           UNCHANGED <<tableVars, eventVars, ghostVars, failures>>,
           Sound(q), OfItsRow(q), ~Picks(q), q.kind = "register" => q.pc \notin {"token", "mail"}
    PROVE  AccountInv'
<1>1. req[r] = Idle /\ Slot(r, q) /\ requests' \in 0..MaxRequests
  BY AccountAssumption DEF Start, Slot, AccountInv, AccountTypeOK
<1>2. ~Picks(Idle) /\ ~Verifying(Idle) /\ ~HasVerified(q)
  BY IdleFacts DEF Picks, Verifying, HasVerified
<1>3. UNCHANGED <<users, interests, tokens, chosen, mailed, broken, putBack, moved, asked,
                    added, mixed, failures>>
      /\ UNCHANGED resets /\ UNCHANGED answered
  BY DEF tableVars, ghostVars
<1>4. resets' \in [ResetTokens -> Reset]
  BY <1>3 DEF AccountInv, AccountTypeOK
<1> QED BY <1>1, <1>2, <1>3, <1>4, UnchangedAnswers, QuietStep

\* One that goes on or ends likewise.
LEMMA ContinueStep ==
    ASSUME AccountInv, NEW r \in Requests, NEW q \in Request, Continue(r, q),
           UNCHANGED <<users, interests, tokens, chosen, mailed, eventVars, ghostVars, failures>>,
           resets' \in [ResetTokens -> Reset],
           Sound(q), OfItsRow(q), Picks(q) => KnowsNumber(q),
           q.kind = "register" => q.pc \notin {"token", "mail"},
           \/ Picks(req[r]) /\ q.kind = req[r].kind /\ q.id = req[r].id /\ q.select = req[r].select
           \/ ~Picks(req[r]) /\ ~Picks(q),
           Verifying(req[r]) => Verifying(q),
           HasVerified(q) => Verified(q.id)
    PROVE  AccountInv'
<1>1. Slot(r, q) /\ requests' \in 0..MaxRequests
  BY DEF Continue, Slot, AccountInv, AccountTypeOK
<1>2. UNCHANGED <<users, interests, tokens, chosen, mailed, broken, putBack, moved, asked,
                    added, mixed, failures>>
      /\ UNCHANGED answered
  BY DEF ghostVars
<1> QED BY <1>1, <1>2, UnchangedAnswers, QuietStep

LEMMA IdleIsSound == Sound(Idle) /\ OfItsRow(Idle) /\ ~Picks(Idle) /\ ~Verifying(Idle)
BY IdleFacts DEF Sound, OfItsRow, Picks, Verifying

LEMMA RegistrationStep ==
    ASSUME AccountInv, NEW r \in Requests, StartRegistration(r)
    PROVE  AccountInv'
<1>1. PICK e \in Emails, n \in Phones, p \in Passwords, s \in Selections :
         Start(r, [Idle EXCEPT !.pc = "insert", !.kind = "register", !.select = s,
                               !.entity = RegisteredUser(e, n, p)])
  BY DEF StartRegistration
<1> DEFINE q == [Idle EXCEPT !.pc = "insert", !.kind = "register", !.select = s,
                             !.entity = RegisteredUser(e, n, p)]
<1>2. /\ RegisteredUser(e, n, p) \in User /\ Belongs(RegisteredUser(e, n, p))
      /\ RegisteredUser(e, n, p).plan = "free"
  BY DEF RegisteredUser, NewUser, User, Plans, Belongs
<1>3. /\ q \in Request /\ q.pc = "insert" /\ q.kind = "register"
      /\ q.entity \in User /\ Belongs(q.entity) /\ q.entity.plan = "free"
  BY <1>2, AccountAssumption DEF Idle, Request, Kinds
<1> HIDE DEF q
<1>4. Sound(q) /\ OfItsRow(q) /\ ~Picks(q)
  BY <1>3 DEF Sound, OfItsRow, Picks
<1> QED BY <1>1, <1>3, <1>4, StartStep DEF StartRegistration, q

\* The entity of a user, loaded and changed in what others may change too.
LEMMA LoadedFacts ==
    ASSUME AccountInv, NEW p \in Request, NEW u \in Accounts, NEW e \in User,
           e.email = users[u].email, e.apple = users[u].apple, e.plan = users[u].plan,
           Belongs(e), e.email = Null => e.google = users[u].google,
           ~e.verified => p.kind # "verify" /\ ~users[u].verified,
           p.kind = "verify" => e.phone = users[u].phone
    PROVE  /\ Loaded(p, u, e) \in Request
           /\ Loaded(p, u, e).pc = "compare" /\ Loaded(p, u, e).kind = p.kind
           /\ Loaded(p, u, e).id = u /\ Loaded(p, u, e).entity = e
           /\ Loaded(p, u, e).seen = users[u] /\ users[u] \in User
           /\ Loaded(p, u, e).key = p.key /\ Loaded(p, u, e).select = p.select
           /\ OfItsRow(Loaded(p, u, e)) /\ ~HasVerified(Loaded(p, u, e))
           /\ KnowsNumber(Loaded(p, u, e))
<1> DEFINE q == Loaded(p, u, e)
<1>1. users[u] \in User /\ u \in Ids
  BY DEF AccountInv, AccountTypeOK, Accounts
<1>2. /\ q \in Request /\ q.pc = "compare" /\ q.kind = p.kind /\ q.id = u /\ q.entity = e
      /\ q.seen = users[u] /\ q.key = p.key /\ q.select = p.select
  BY <1>1 DEF Loaded, Request
<1> HIDE DEF q
<1>3. OfItsRow(q) /\ ~HasVerified(q) /\ KnowsNumber(q)
  BY <1>2 DEF OfItsRow, HasVerified, KnowsNumber
<1> QED BY <1>1, <1>2, <1>3 DEF q

\* updateProfile and changePassword.
LEMMA ChangeStep ==
    ASSUME AccountInv, NEW r \in Requests, UpdateProfile(r) \/ ChangePassword(r)
    PROVE  AccountInv'
<1>1. PICK kind \in {"profile", "change"}, u \in Accounts, e \in User :
         /\ Start(r, Loaded([Idle EXCEPT !.kind = kind], u, e))
         /\ e.email = users[u].email /\ e.apple = users[u].apple /\ e.google = users[u].google
         /\ e.plan = users[u].plan /\ e.verified = users[u].verified
         /\ UNCHANGED <<tableVars, eventVars, ghostVars, failures>>
  <2>1. \A u \in Accounts : users[u] \in User
    BY DEF AccountInv, AccountTypeOK, Accounts
  <2>2. CASE UpdateProfile(r)
    <3>1. PICK u \in Accounts : \E n \in Phones \cup {Null, users[u].phone} :
             Start(r, Loaded([Idle EXCEPT !.kind = "profile"], u, [users[u] EXCEPT !.phone = n]))
      BY <2>2 DEF UpdateProfile
    <3>2. PICK n \in Phones \cup {Null, users[u].phone} :
             Start(r, Loaded([Idle EXCEPT !.kind = "profile"], u, [users[u] EXCEPT !.phone = n]))
      BY <3>1
    <3> DEFINE e == [users[u] EXCEPT !.phone = n]
    <3>3. users[u].phone \in Phones \cup {Null}
      BY <2>1 DEF User
    <3>4. /\ e \in User /\ e.email = users[u].email /\ e.apple = users[u].apple
          /\ e.google = users[u].google /\ e.plan = users[u].plan /\ e.verified = users[u].verified
      BY <2>1, <3>3 DEF User
    <3> HIDE DEF e
    <3>5. Start(r, Loaded([Idle EXCEPT !.kind = "profile"], u, e))
      BY <3>2 DEF e
    <3> QED BY <2>2, <3>4, <3>5 DEF UpdateProfile
  <2>3. CASE ChangePassword(r)
    <3>1. PICK u \in Accounts, w \in Passwords :
             Start(r, Loaded([Idle EXCEPT !.kind = "change"], u, [users[u] EXCEPT !.password = w]))
      BY <2>3 DEF ChangePassword
    <3> DEFINE e == [users[u] EXCEPT !.password = w]
    <3>2. /\ e \in User /\ e.email = users[u].email /\ e.apple = users[u].apple
          /\ e.google = users[u].google /\ e.plan = users[u].plan /\ e.verified = users[u].verified
      BY <2>1 DEF User
    <3> HIDE DEF e
    <3>3. Start(r, Loaded([Idle EXCEPT !.kind = "change"], u, e))
      BY <3>1 DEF e
    <3> QED BY <2>3, <3>2, <3>3 DEF ChangePassword
  <2> QED BY <2>2, <2>3
<1> DEFINE p == [Idle EXCEPT !.kind = kind]
           q == Loaded(p, u, e)
<1>2. p \in Request /\ p.kind = kind
  BY IdleFacts DEF Idle, Request, Kinds
<1>3. Belongs(e)
  BY <1>1 DEF Belongs, AccountInv, RowsAreUnique
<1>4. /\ q \in Request /\ q.pc = "compare" /\ q.kind = kind /\ q.id = u /\ q.entity = e
      /\ q.seen = users[u] /\ users[u] \in User /\ OfItsRow(q)
  <2> HIDE DEF p
  <2> QED BY <1>1, <1>2, <1>3, LoadedFacts
<1>5. Start(r, q)
  BY <1>1
<1> HIDE DEF q
<1>6. Sound(q) /\ ~Picks(q) /\ q.kind # "register"
  BY <1>4 DEF Sound, Picks
<1> QED BY <1>1, <1>4, <1>5, <1>6, StartStep

LEMMA PasswordStep ==
    ASSUME AccountInv, NEW r \in Requests, ForgotPassword(r) \/ ResetPassword(r)
    PROVE  AccountInv'
<1>1. CASE ForgotPassword(r)
  <2>1. PICK u \in Accounts, t \in ResetTokens :
           Start(r, [Idle EXCEPT !.pc = "token", !.kind = "forgot", !.id = u, !.key = t])
    BY <1>1 DEF ForgotPassword
  <2> DEFINE q == [Idle EXCEPT !.pc = "token", !.kind = "forgot", !.id = u, !.key = t]
  <2>2. /\ q \in Request /\ q.pc = "token" /\ q.kind = "forgot" /\ q.id = u /\ q.key = t
    BY DEF Idle, Request, Kinds, Accounts
  <2>3. Start(r, q)
    BY <2>1
  <2> HIDE DEF q
  <2>4. Sound(q) /\ OfItsRow(q) /\ ~Picks(q)
    BY <2>2 DEF Sound, OfItsRow, Picks
  <2> QED BY <1>1, <2>2, <2>3, <2>4, StartStep DEF ForgotPassword
<1>2. CASE ResetPassword(r)
  <2>1. PICK t \in ResetTokens :
           Start(r, [Idle EXCEPT !.pc = "consume", !.kind = "reset", !.key = t])
    BY <1>2 DEF ResetPassword
  <2> DEFINE q == [Idle EXCEPT !.pc = "consume", !.kind = "reset", !.key = t]
  <2>2. /\ q \in Request /\ q.pc = "consume" /\ q.kind = "reset" /\ q.key = t
    BY DEF Idle, Request, Kinds
  <2>3. Start(r, q)
    BY <2>1
  <2> HIDE DEF q
  <2>4. Sound(q) /\ OfItsRow(q) /\ ~Picks(q)
    BY <2>2 DEF Sound, OfItsRow, Picks
  <2> QED BY <1>2, <2>2, <2>3, <2>4, StartStep DEF ResetPassword
<1> QED BY <1>1, <1>2

LEMMA AppleStep ==
    ASSUME AccountInv, NEW r \in Requests, AppleLogin(r)
    PROVE  AccountInv'
<1>1. PICK a \in Apples, e \in Emails \cup {Null}, v \in BOOLEAN :
         Start(r, [Idle EXCEPT !.pc = "insert", !.kind = "apple", !.entity = AppleUser(a, e, v)])
  BY DEF AppleLogin
<1> DEFINE q == [Idle EXCEPT !.pc = "insert", !.kind = "apple", !.entity = AppleUser(a, e, v)]
<1>2. /\ AppleUser(a, e, v) \in User /\ Belongs(AppleUser(a, e, v))
      /\ AppleUser(a, e, v).plan = "free"
  BY DEF AppleUser, NewUser, User, Plans, Belongs
<1>3. /\ q \in Request /\ q.pc = "insert" /\ q.kind = "apple"
      /\ q.entity \in User /\ Belongs(q.entity) /\ q.entity.plan = "free"
  BY <1>2 DEF Idle, Request, Kinds
<1>4. Start(r, q)
  BY <1>1
<1> HIDE DEF q
<1>5. Sound(q) /\ OfItsRow(q) /\ ~Picks(q)
  BY <1>3 DEF Sound, OfItsRow, Picks
<1> QED BY <1>3, <1>4, <1>5, StartStep DEF AppleLogin

\* What a login is answered with is the row of the Google user.
LEMMA AnswerIsSound ==
    ASSUME AccountInv, NEW g \in Googles, NEW u \in Accounts, users[u].google = g,
           UNCHANGED users, answered' = answered \cup {<<g, u>>}
    PROVE  AnswersAreSound' /\ answered' \subseteq Googles \X Accounts
<1>1. users[u].email = GoogleEmail[g]
  BY AccountAssumption DEF AccountInv, RowsAreUnique, Belongs
<1>2. AnswersAreSound /\ answered \subseteq Googles \X Accounts
  BY DEF AccountInv, AccountTypeOK
<1> QED BY <1>1, <1>2 DEF AnswersAreSound

LEMMA GoogleStep ==
    ASSUME AccountInv, NEW r \in Requests, GoogleLogin(r)
    PROVE  AccountInv'
<1>1. PICK g \in Googles, v \in BOOLEAN :
        \/ /\ \E u \in With("google", g) : answered' = answered \cup {<<g, u>>}
           /\ Answer(r)
        \/ /\ Start(r, [Idle EXCEPT !.kind = "google", !.key = g,
                           !.pc = IF GoogleEmail[g] = Null THEN "insert" ELSE "link",
                           !.entity = GoogleUser(g, v)])
           /\ UNCHANGED answered
  BY DEF GoogleLogin
<1>2. ASSUME NEW u \in With("google", g), answered' = answered \cup {<<g, u>>}, Answer(r)
      PROVE  AccountInv'
  <2>1. u \in Accounts /\ users[u].google = g
    BY DEF With
  <2>2. UNCHANGED <<users, interests, tokens, chosen, mailed, broken, putBack, moved, asked,
                    added, mixed, failures>>
        /\ UNCHANGED eventVars /\ UNCHANGED resets
    BY DEF GoogleLogin, tableVars
  <2>3. AnswersAreSound' /\ answered' \subseteq Googles \X Accounts
    BY <1>2, <2>1, <2>2, AnswerIsSound
  <2>4. /\ req' = [req EXCEPT ![r] = Idle] /\ UNCHANGED requests /\ req[r] = Idle
    BY <1>2 DEF Answer, AccountInv, AccountTypeOK
  <2>5. ~HasVerified(Idle)
    BY IdleFacts DEF HasVerified
  <2> QED BY <2>2, <2>3, <2>4, <2>5, IdleFacts, IdleIsSound, QuietStep
        DEF Slot, AccountInv, AccountTypeOK
<1>3. ASSUME Start(r, [Idle EXCEPT !.kind = "google", !.key = g,
                          !.pc = IF GoogleEmail[g] = Null THEN "insert" ELSE "link",
                          !.entity = GoogleUser(g, v)]),
             UNCHANGED answered
      PROVE  AccountInv'
  <2> DEFINE q == [Idle EXCEPT !.kind = "google", !.key = g,
                      !.pc = IF GoogleEmail[g] = Null THEN "insert" ELSE "link",
                      !.entity = GoogleUser(g, v)]
  <2>1. /\ GoogleUser(g, v) \in User /\ GoogleUser(g, v).google = g
        /\ GoogleUser(g, v).email = GoogleEmail[g] /\ GoogleUser(g, v).plan = "free"
    BY AccountAssumption DEF GoogleUser, NewUser, User, Plans
  <2>2. /\ q \in Request /\ q.kind = "google" /\ q.key = g
        /\ q.pc = IF GoogleEmail[g] = Null THEN "insert" ELSE "link"
        /\ q.entity \in User /\ q.entity.google = g /\ q.entity.email = GoogleEmail[g]
        /\ q.entity.plan = "free"
    <3> HIDE DEF GoogleUser
    <3> QED BY <2>1 DEF Idle, Request, Kinds
  <2>3. Start(r, q)
    BY <1>3
  <2> HIDE DEF q
  <2>4. Sound(q) /\ OfItsRow(q) /\ ~Picks(q)
    BY <2>2 DEF Sound, OfItsRow, Picks, Belongs
  <2>5. UNCHANGED <<tableVars, eventVars, ghostVars, failures>>
    BY <1>3 DEF GoogleLogin, ghostVars
  <2> QED BY <2>2, <2>3, <2>4, <2>5, StartStep
<1> QED BY <1>1, <1>2, <1>3

LEMMA LoadVerifiedStep ==
    ASSUME AccountInv, NEW r \in Requests, LoadVerified(r)
    PROVE  AccountInv'
<1>1. PICK p \in Request : p = req[r]
  BY DEF AccountInv, AccountTypeOK
<1>2. /\ p.pc = "load" /\ p.kind = "verify"
      /\ Continue(r, Loaded(p, p.id, [users[p.id] EXCEPT !.verified = TRUE]))
      /\ UNCHANGED <<tableVars, eventVars, ghostVars, failures>>
  BY <1>1 DEF LoadVerified
<1>3. p.id \in Accounts /\ p.id \in mailed
  BY <1>1, <1>2 DEF AccountInv, AccountTypeOK, RequestsAreSound, Sound
<1>4. PICK u \in Accounts : u = p.id
  BY <1>3
<1>5. users[u] \in User /\ Belongs(users[u])
  BY DEF AccountInv, AccountTypeOK, RowsAreUnique, Accounts
<1>6. PICK e : e = [users[u] EXCEPT !.verified = TRUE]
  OBVIOUS
<1>7. /\ e \in User /\ e.email = users[u].email /\ e.apple = users[u].apple
      /\ e.google = users[u].google /\ e.plan = users[u].plan /\ e.verified
      /\ e.phone = users[u].phone
  BY <1>5, <1>6 DEF User
<1>8. PICK q : q = Loaded(p, u, e)
  OBVIOUS
<1>9. /\ q \in Request /\ q.pc = "compare" /\ q.kind = "verify" /\ q.id = u /\ q.entity = e
      /\ q.seen = users[u] /\ q.select = p.select /\ OfItsRow(q) /\ ~HasVerified(q)
      /\ KnowsNumber(q)
  BY <1>2, <1>5, <1>7, <1>8, LoadedFacts DEF Belongs
<1>10. Sound(q) /\ Picks(p) /\ Verifying(q)
  BY <1>2, <1>3, <1>4, <1>5, <1>7, <1>9 DEF Sound, Picks, Verifying
<1>11. Continue(r, q)
  BY <1>2, <1>4, <1>6, <1>8
<1>12. /\ UNCHANGED <<users, interests, tokens, chosen, mailed, eventVars, ghostVars, failures>>
       /\ resets' \in [ResetTokens -> Reset]
  BY <1>2 DEF tableVars, AccountInv, AccountTypeOK
<1> QED BY <1>1, <1>2, <1>4, <1>9, <1>10, <1>11, <1>12, ContinueStep

LEMMA CompareStep ==
    ASSUME AccountInv, NEW r \in Requests, Compare(r)
    PROVE  AccountInv'
<1>1. PICK p \in Request : p = req[r]
  BY DEF AccountInv, AccountTypeOK
<1> DEFINE d == {c \in Columns : p.entity[c] # users[p.id][c]}
           q == [p EXCEPT !.pc = "write", !.dirty = d]
<1>2. /\ p.pc = "compare" /\ Continue(r, q)
      /\ UNCHANGED <<tableVars, eventVars, ghostVars, failures>>
  BY <1>1 DEF Compare
<1>3. Sound(p) /\ OfItsRow(p) /\ KnowsNumber(p)
  BY <1>1 DEF AccountInv, RequestsAreSound, NumbersAreKnown
<1>4. /\ q \in Request /\ q.pc = "write" /\ q.kind = p.kind /\ q.id = p.id /\ q.entity = p.entity
      /\ q.seen = p.seen /\ q.key = p.key /\ q.select = p.select /\ q.dirty = d
  BY DEF Request
<1>5. /\ "verified" \notin d => p.entity.verified = users[p.id].verified
      /\ p.entity.phone = users[p.id].phone => "phone" \notin d
  BY DEF Columns
<1> HIDE DEF q, d
<1>6. Sound(q) /\ OfItsRow(q)
  BY <1>2, <1>3, <1>4 DEF Sound, OfItsRow
<1>7. HasVerified(q) => Verified(q.id)
  BY <1>2, <1>3, <1>4, <1>5 DEF HasVerified, OfItsRow, Verified
<1>10. KnowsNumber(q)
  BY <1>2, <1>3, <1>4, <1>5 DEF KnowsNumber
<1>8. /\ Verifying(p) => Verifying(q)
      /\ Picks(p) <=> Picks(q)
      /\ q.kind # "register"
  BY <1>2, <1>3, <1>4 DEF Verifying, Picks, Sound
<1>9. /\ UNCHANGED <<users, interests, tokens, chosen, mailed, eventVars, ghostVars, failures>>
      /\ resets' \in [ResetTokens -> Reset]
  BY <1>2 DEF tableVars, AccountInv, AccountTypeOK
<1> QED BY <1>1, <1>2, <1>4, <1>6, <1>7, <1>8, <1>9, <1>10, ContinueStep

LEMMA LoadResetStep ==
    ASSUME AccountInv, NEW r \in Requests, LoadReset(r)
    PROVE  AccountInv'
<1>1. PICK p \in Request : p = req[r]
  BY DEF AccountInv, AccountTypeOK
<1>2. PICK u \in Accounts, w \in Passwords :
         Continue(r, Loaded(p, u, [users[u] EXCEPT !.password = w]))
  BY <1>1 DEF LoadReset, With
<1>3. p.pc = "load" /\ p.kind = "reset" /\ UNCHANGED <<tableVars, eventVars, ghostVars, failures>>
  BY <1>1 DEF LoadReset
<1>4. users[u] \in User /\ Belongs(users[u])
  BY DEF AccountInv, AccountTypeOK, RowsAreUnique, Accounts
<1>5. PICK e : e = [users[u] EXCEPT !.password = w]
  OBVIOUS
<1>6. /\ e \in User /\ e.email = users[u].email /\ e.apple = users[u].apple
      /\ e.google = users[u].google /\ e.plan = users[u].plan /\ e.verified = users[u].verified
  BY <1>4, <1>5 DEF User
<1>7. PICK q : q = Loaded(p, u, e)
  OBVIOUS
<1>8. /\ q \in Request /\ q.pc = "compare" /\ q.kind = "reset" /\ q.id = u /\ q.entity = e
      /\ q.seen = users[u] /\ OfItsRow(q) /\ ~HasVerified(q)
  BY <1>3, <1>4, <1>6, <1>7, LoadedFacts DEF Belongs
<1>9. Sound(q) /\ ~Picks(q) /\ ~Picks(p) /\ ~Verifying(p)
  BY <1>3, <1>4, <1>6, <1>8 DEF Sound, Picks, Verifying
<1>10. /\ UNCHANGED <<users, interests, tokens, chosen, mailed, eventVars, ghostVars, failures>>
       /\ resets' \in [ResetTokens -> Reset]
  BY <1>3 DEF tableVars, AccountInv, AccountTypeOK
<1>11. Continue(r, q)
  BY <1>2, <1>5, <1>7
<1> QED BY <1>1, <1>8, <1>9, <1>10, <1>11, ContinueStep

LEMMA LinkStep ==
    ASSUME AccountInv, NEW r \in Requests, LinkGoogle(r)
    PROVE  AccountInv'
<1>1. PICK p \in Request : p = req[r]
  BY DEF AccountInv, AccountTypeOK
<1>2. /\ p.pc = "link" /\ Sound(p)
      /\ UNCHANGED <<tableVars, eventVars, ghostVars, failures>>
  BY <1>1 DEF LinkGoogle, AccountInv, RequestsAreSound
<1>3. /\ p.kind = "google" /\ p.key \in Googles /\ p.entity \in User /\ p.entity.google = p.key
      /\ p.entity.email = GoogleEmail[p.key] /\ p.entity.email # Null
      /\ Belongs(p.entity) /\ p.entity.plan = "free"
  BY <1>2 DEF Sound
<1>4. /\ UNCHANGED <<users, interests, tokens, chosen, mailed, eventVars, ghostVars, failures>>
      /\ resets' \in [ResetTokens -> Reset]
  BY <1>2 DEF tableVars, AccountInv, AccountTypeOK
<1>5. ~Picks(p) /\ ~Verifying(p)
  BY <1>3 DEF Picks, Verifying
<1>6. CASE Continue(r, [p EXCEPT !.pc = "insert"])
  <2> DEFINE q == [p EXCEPT !.pc = "insert"]
  <2>1. /\ q \in Request /\ q.pc = "insert" /\ q.kind = "google" /\ q.key = p.key
        /\ q.entity = p.entity
    BY <1>3 DEF Request
  <2> HIDE DEF q
  <2>2. Sound(q) /\ OfItsRow(q) /\ ~Picks(q) /\ ~HasVerified(q)
    BY <1>3, <2>1 DEF Sound, OfItsRow, Picks, HasVerified
  <2> QED BY <1>1, <1>4, <1>5, <1>6, <2>1, <2>2, ContinueStep DEF q
<1>7. ASSUME NEW u \in Accounts, users[u].email = p.entity.email,
             Continue(r, Loaded(p, u, [users[u] EXCEPT !.google = p.key,
                                          !.verified = users[u].verified \/ p.entity.verified]))
      PROVE  AccountInv'
  <2>1. users[u] \in User
    BY DEF AccountInv, AccountTypeOK, Accounts
  <2>2. PICK e : e = [users[u] EXCEPT !.google = p.key,
                                      !.verified = users[u].verified \/ p.entity.verified]
    OBVIOUS
  <2>3. /\ e \in User /\ e.email = users[u].email /\ e.apple = users[u].apple
        /\ e.google = p.key /\ e.plan = users[u].plan /\ (~e.verified => ~users[u].verified)
    BY <1>3, <2>1, <2>2 DEF User
  <2>4. Belongs(e) /\ e.email # Null
    BY <1>3, <1>7, <2>3 DEF Belongs
  <2>5. PICK q : q = Loaded(p, u, e)
    OBVIOUS
  <2>6. /\ q \in Request /\ q.pc = "compare" /\ q.kind = "google" /\ q.id = u /\ q.entity = e
        /\ q.seen = users[u] /\ q.key = p.key /\ OfItsRow(q) /\ ~HasVerified(q)
    BY <1>3, <2>3, <2>4, <2>5, LoadedFacts
  <2>7. Sound(q) /\ ~Picks(q)
    BY <1>3, <1>7, <2>1, <2>3, <2>6 DEF Sound, Picks
  <2>8. Continue(r, q)
    BY <1>7, <2>2, <2>5
  <2> QED BY <1>1, <1>4, <1>5, <2>6, <2>7, <2>8, ContinueStep
<1> QED BY <1>1, <1>6, <1>7 DEF LinkGoogle, With

\* createToken, the mail and the use of a reset token.
LEMMA ResetStep ==
    ASSUME AccountInv, NEW r \in Requests,
           CreateResetToken(r) \/ SendPasswordResetEmail(r) \/ ConsumeResetToken(r)
    PROVE  AccountInv'
<1>1. PICK p \in Request : p = req[r]
  BY DEF AccountInv, AccountTypeOK
<1>2. Sound(p) /\ resets \in [ResetTokens -> Reset] /\ users \in [Ids -> User \cup {Null}]
  BY <1>1 DEF AccountInv, RequestsAreSound, AccountTypeOK
<1>3. /\ p.kind \in {"forgot", "reset"} /\ p.key \in ResetTokens
      /\ p.pc \in {"token", "mail", "consume"}
  BY <1>1, <1>2 DEF CreateResetToken, SendPasswordResetEmail, ConsumeResetToken, Sound
<1>4. resets' \in [ResetTokens -> Reset]
  <2>1. CASE CreateResetToken(r)
    <3>1. p.id \in Accounts /\ users[p.id] \in User
      BY <1>1, <1>2, <2>1 DEF CreateResetToken, Sound, Accounts
    <3>2. [email |-> users[p.id].email, state |-> "stored"] \in Reset
      BY <3>1 DEF User, Reset
    <3> QED BY <1>1, <1>2, <2>1, <3>2 DEF CreateResetToken
  <2>2. CASE SendPasswordResetEmail(r)
    BY <1>1, <1>2, <1>3, <2>2 DEF SendPasswordResetEmail, Reset
  <2>3. CASE ConsumeResetToken(r)
    BY <1>1, <1>2, <1>3, <2>3 DEF ConsumeResetToken, Reset
  <2> QED BY <2>1, <2>2, <2>3
<1>5. UNCHANGED <<users, interests, tokens, chosen, mailed, eventVars, ghostVars, failures>>
  BY DEF CreateResetToken, SendPasswordResetEmail, ConsumeResetToken
<1>6. PICK q \in Request :
         /\ Continue(r, q)
         /\ \/ q = Idle
            \/ q.kind = "forgot" /\ q.pc = "mail" /\ q.id = p.id /\ q.key = p.key /\ p.pc = "token"
            \/ q.kind = "reset" /\ q.pc = "load" /\ q.key = p.key
  <2>1. CASE Continue(r, Idle)
    BY <2>1, IdleFacts
  <2>2. CASE CreateResetToken(r) /\ Continue(r, [p EXCEPT !.pc = "mail"])
    <3>1. p.kind = "forgot" /\ p.pc = "token"
      BY <1>1, <2>2 DEF CreateResetToken
    <3>2. PICK q : q = [p EXCEPT !.pc = "mail"]
      OBVIOUS
    <3>3. q \in Request /\ q.kind = "forgot" /\ q.pc = "mail" /\ q.id = p.id /\ q.key = p.key
      BY <3>1, <3>2 DEF Request
    <3> QED BY <2>2, <3>1, <3>2, <3>3
  <2>3. CASE ConsumeResetToken(r)
    <3>1. p.kind = "reset" /\ Continue(r, [p EXCEPT !.pc = "load"])
      BY <1>1, <2>3 DEF ConsumeResetToken
    <3>2. PICK q : q = [p EXCEPT !.pc = "load"]
      OBVIOUS
    <3>3. q \in Request /\ q.kind = "reset" /\ q.pc = "load" /\ q.key = p.key
      BY <3>1, <3>2 DEF Request
    <3> QED BY <3>1, <3>2, <3>3
  <2> QED BY <1>1, <2>1, <2>2, <2>3 DEF CreateResetToken, SendPasswordResetEmail
<1>7. Sound(q) /\ OfItsRow(q) /\ ~Picks(q) /\ ~HasVerified(q) /\ q.kind # "register"
  BY <1>2, <1>3, <1>6, IdleIsSound, IdleFacts DEF Sound, OfItsRow, Picks, HasVerified
<1>8. ~Picks(p) /\ ~Verifying(p)
  BY <1>3 DEF Picks, Verifying
<1> QED BY <1>1, <1>4, <1>5, <1>6, <1>7, <1>8, ContinueStep

-------------------------------------------------------------------------------
(* Steps that end or that write. *)

\* A reset token that expires changes nothing but the token.
LEMMA ResetExpiresStep ==
    ASSUME AccountInv, NEW t \in ResetTokens, ResetExpires(t)
    PROVE  AccountInv'
<1>1. /\ UNCHANGED <<users, interests, tokens, chosen, mailed>> /\ UNCHANGED eventVars
      /\ UNCHANGED ghostVars /\ UNCHANGED <<req, requests, failures>>
      /\ resets' \in [ResetTokens -> Reset]
  BY DEF ResetExpires, AccountInv, AccountTypeOK, Reset
<1>2. UNCHANGED <<events, entitled, eventCount, newest, late, answered, broken, putBack,
                  moved, asked, added, mixed>>
  BY <1>1 DEF eventVars, ghostVars
<1>3. Accounts' = Accounts
  BY <1>1 DEF Accounts
<1>4. AccountTypeOK'
  BY <1>1, <1>2, <1>3 DEF AccountInv, AccountTypeOK
<1>5. RequestsAreSound' /\ RowsAreUnique' /\ AnswersAreSound' /\ NumbersAreKnown'
  BY <1>1, <1>2, <1>3 DEF AccountInv, RequestsAreSound, Sound, OfItsRow, RowsAreUnique,
     AnswersAreSound, NumbersAreKnown, KnowsNumber
<1>6. RegistrationsAreApart' /\ VerificationGoesOn'
  BY <1>1, <1>2 DEF AccountInv, RegistrationsAreApart, Registering, VerificationGoesOn
<1>7. LastChangeCounts'
  BY <1>1, <1>2, <1>3 DEF AccountInv, LastChangeCounts, Changes, Pending
<1>8. ChoicesGoOn'
  BY <1>1, <1>2 DEF AccountInv, ChoicesGoOn, ChoiceOf, Settled, Wish, Choosing
<1> QED BY <1>4, <1>5, <1>6, <1>7, <1>8 DEF AccountInv

\* The INSERT makes an account of its own.
LEMMA InsertUserStep ==
    ASSUME AccountInv, NEW r \in Requests, InsertUser(r)
    PROVE  AccountInv'
<1>1. PICK p \in Request : p = req[r]
  BY DEF AccountInv, AccountTypeOK
<1>2. /\ p.pc = "insert" /\ Sound(p) /\ p.kind \in {"register", "google", "apple"}
      /\ p.entity \in User /\ Belongs(p.entity) /\ p.entity.plan = "free"
      /\ p.kind = "google" => p.key \in Googles /\ p.entity.google = p.key
                              /\ p.entity.email = GoogleEmail[p.key]
  BY <1>1 DEF InsertUser, AccountInv, RequestsAreSound, Sound
<1>3. AccountTypeOK /\ RequestsAreSound
  BY DEF AccountInv
<1>4. ~Picks(p) /\ ~Verifying(p)
  BY <1>2 DEF Picks, Verifying
<1>5. ASSUME Continue(r, Idle), UNCHANGED <<users, answered>> PROVE AccountInv'
  <2>1. /\ UNCHANGED <<users, interests, tokens, chosen, mailed, eventVars, ghostVars, failures>>
        /\ resets' \in [ResetTokens -> Reset]
    BY <1>3, <1>5 DEF InsertUser, ghostVars, AccountTypeOK
  <2>2. ~HasVerified(Idle)
    BY IdleFacts DEF HasVerified
  <2> QED BY <1>1, <1>4, <1>5, <2>1, <2>2, IdleFacts, IdleIsSound, ContinueStep
<1>6. ASSUME ~Conflicts(p.entity, Accounts),
             NEW u \in Ids \ Accounts,
             users' = [users EXCEPT ![u] = p.entity],
             Continue(r, IF p.kind = "register" THEN [p EXCEPT !.pc = "token", !.id = u] ELSE Idle),
             answered' = IF p.kind = "google" THEN answered \cup {<<p.key, u>>} ELSE answered
      PROVE  AccountInv'
  <2>1. PICK q \in Request :
           /\ Continue(r, q)
           /\ \/ q = Idle
              \/ q.kind = "register" /\ q.pc = "token" /\ q.id = u
    <3>1. CASE p.kind = "register"
      <4>1. PICK q : q = [p EXCEPT !.pc = "token", !.id = u]
        OBVIOUS
      <4>2. q \in Request /\ q.kind = "register" /\ q.pc = "token" /\ q.id = u
        BY <3>1, <4>1 DEF Request
      <4> QED BY <1>6, <3>1, <4>1, <4>2
    <3> QED BY <1>6, <3>1, IdleFacts
  <2>2. Slot(r, q) /\ UNCHANGED requests
    BY <2>1 DEF Continue, Slot
  <2>3. /\ req' \in [Requests -> Request] /\ req'[r] = q
        /\ \A s \in Requests : s # r => req'[s] = req[s]
    BY <1>3, <2>2, SlotFacts
  <2>4. /\ UNCHANGED <<interests, tokens, chosen, mailed, resets, broken, putBack, moved, asked,
                       added, mixed, failures>>
        /\ UNCHANGED eventVars
    BY DEF InsertUser
  <2>5. /\ Accounts' = Accounts \cup {u} /\ users'[u] = p.entity
        /\ \A v \in Accounts : users'[v] = users[v] /\ v # u
    BY <1>2, <1>3, <1>6, RowAssumption DEF AccountTypeOK, Accounts
  <2>6. RowsKept
    BY <2>5 DEF RowsKept
  <2>7. Sound(q)' /\ OfItsRow(q)' /\ ~Picks(q) /\ ~HasVerified(q)
    BY <2>1, <2>5, IdleFacts DEF Sound, OfItsRow, Picks, HasVerified
  <2>8. answered' \subseteq Googles \X Accounts' /\ AnswersAreSound'
    <3>1. \A a \in answered : a \in Googles \X Accounts /\ a[2] \in Accounts
      BY <1>3 DEF AccountTypeOK
    <3>2. \A a \in answered : users'[a[2]] = users[a[2]]
      BY <2>5, <3>1
    <3> QED BY <1>2, <1>6, <2>5, <3>1, <3>2 DEF AnswersAreSound, AccountInv
  <2>9. AccountTypeOK'
    <3>1. UNCHANGED <<events, entitled, eventCount, newest, late>>
      BY <2>4 DEF eventVars
    <3>2. users' \in [Ids -> User \cup {Null}]
      BY <1>2, <1>3, <1>6 DEF AccountTypeOK
    <3>3. tokens' \subseteq Accounts' /\ mailed' \subseteq Accounts'
      BY <1>3, <2>4, <2>5 DEF AccountTypeOK
    <3> QED BY <1>3, <2>2, <2>3, <2>4, <2>8, <3>1, <3>2, <3>3 DEF AccountTypeOK
  <2>10. RequestsAreSound'
    BY <1>3, <2>2, <2>4, <2>6, <2>7, RequestsStay
  <2>11. RowsAreUnique'
    <3>1. \A v \in Accounts : \A c \in {"email", "phone", "google", "apple"} :
             p.entity[c] # Null => users[v][c] # p.entity[c]
      BY <1>6 DEF Conflicts
    <3> QED BY <1>2, <2>5, <3>1 DEF RowsAreUnique, AccountInv, Belongs
  <2>12. RegistrationsAreApart'
    <3>1. \A s \in Registering : req[s].id \in Accounts /\ req[s].id # u
      BY <1>3, <2>5 DEF Registering, RequestsAreSound, Sound
    <3>2. \A s \in Registering' : s # r => s \in Registering /\ req'[s] = req[s]
      BY <2>3 DEF Registering
    <3>3. r \in Registering' => req'[r].id = u /\ req'[r].pc = "token"
      BY <2>1, <2>3, IdleFacts DEF Registering
    <3>4. u \notin mailed
      BY <1>3, <1>6 DEF AccountTypeOK
    <3>5. ASSUME NEW s \in Registering', s = r
          PROVE  /\ req'[s].id \notin mailed'
                 /\ req'[s].pc = "mail" => req'[s].id \in tokens'
      BY <2>4, <3>3, <3>4, <3>5
    <3>6. ASSUME NEW s \in Registering', s # r
          PROVE  /\ req'[s].id \notin mailed'
                 /\ req'[s].pc = "mail" => req'[s].id \in tokens'
      BY <2>4, <3>2, <3>6 DEF AccountInv, RegistrationsAreApart
    <3>7. \A s, t \in Registering' : req'[s].id = req'[t].id => s = t
      BY <3>1, <3>2, <3>3 DEF AccountInv, RegistrationsAreApart
    <3> QED BY <3>5, <3>6, <3>7 DEF RegistrationsAreApart
  <2>13. VerificationGoesOn'
    <3>1. \A v \in mailed : Verified(v) => Verified(v)'
      BY <1>3, <2>4, <2>5 DEF Verified, AccountTypeOK
    <3> QED BY <1>1, <1>3, <1>4, <2>3, <2>4, <2>7, <3>1, VerificationsStay DEF AccountInv
  <2>14. LastChangeCounts'
    BY <1>2, <1>3, <2>4, <2>5, ChangesStay DEF AccountInv
  <2>15. ChoicesGoOn'
    <3>1. p.kind # "interests"
      BY <1>2
    <3> QED BY <1>1, <2>3, <2>4, <2>7, <3>1, ChoicesStay DEF AccountInv
  <2>16. NumbersAreKnown'
    <3>1. KnowsNumber(q)'
      BY <2>7 DEF KnowsNumber, Picks
    <3> QED BY <1>3, <2>3, <2>4, <2>5, <3>1, NumbersStay DEF AccountInv
  <2> QED BY <2>8, <2>9, <2>10, <2>11, <2>12, <2>13, <2>14, <2>15, <2>16 DEF AccountInv
<1> QED BY <1>1, <1>5, <1>6 DEF InsertUser

\* VerificationService.create, and the mail.
LEMMA StoreTokenStep ==
    ASSUME AccountInv, NEW r \in Requests, StoreToken(r)
    PROVE  AccountInv'
<1>1. PICK p \in Request : p = req[r]
  BY DEF AccountInv, AccountTypeOK
<1>2. p.pc = "token" /\ p.kind = "register" /\ p.id \in Accounts /\ r \in Registering
  BY <1>1 DEF StoreToken, AccountInv, RequestsAreSound, Sound, Registering
<1>3. AccountTypeOK /\ RequestsAreSound
  BY DEF AccountInv
<1>4. PICK q : q = [p EXCEPT !.pc = "mail"]
  OBVIOUS
<1>5. q \in Request /\ q.pc = "mail" /\ q.kind = "register" /\ q.id = p.id
  BY <1>2, <1>4 DEF Request
<1>6. /\ tokens' = tokens \cup {p.id} /\ chosen' = [chosen EXCEPT ![p.id] = p.select]
      /\ UNCHANGED <<users, interests, mailed, resets, failures, requests>> /\ UNCHANGED eventVars
      /\ UNCHANGED <<answered, broken, putBack, moved, asked, added, mixed>> /\ Slot(r, q)
  BY <1>1, <1>4 DEF StoreToken, Continue, Slot, ghostVars
<1>7. /\ req' \in [Requests -> Request] /\ req'[r] = q
      /\ \A s \in Requests : s # r => req'[s] = req[s]
  BY <1>3, <1>5, <1>6, SlotFacts
<1>8. Accounts' = Accounts /\ RowsKept
  BY <1>6 DEF Accounts, RowsKept
<1>9. /\ Sound(q)' /\ OfItsRow(q)' /\ ~Picks(q) /\ ~HasVerified(q)
      /\ ~Picks(p) /\ ~Verifying(p) /\ p.kind # "interests"
  BY <1>2, <1>5, <1>8 DEF Sound, OfItsRow, Picks, HasVerified, Verifying
<1>10. AccountTypeOK'
  <2>1. chosen' \in [Ids -> SUBSET Interests]
    BY <1>3, <1>6 DEF AccountTypeOK, Request
  <2> QED BY <1>2, <1>3, <1>6, <1>7, <1>8, <2>1 DEF AccountTypeOK, eventVars
<1>11. RequestsAreSound'
  BY <1>3, <1>5, <1>6, <1>8, <1>9, RequestsStay
<1>12. RowsAreUnique' /\ AnswersAreSound'
  BY <1>6, <1>8 DEF AccountInv, RowsAreUnique, AnswersAreSound
<1>13. RegistrationsAreApart'
  BY <1>1, <1>2, <1>5, <1>6, <1>7, RegistrationsStay DEF AccountInv
<1>14. VerificationGoesOn'
  <2>1. \A v \in mailed : Verified(v) => Verified(v)'
    BY <1>6 DEF Verified
  <2> QED BY <1>1, <1>3, <1>6, <1>7, <1>9, <2>1, VerificationsStay DEF AccountInv
<1>15. LastChangeCounts'
  BY <1>3, <1>6, <1>8, ChangesStay DEF AccountInv
<1>16. ChoicesGoOn'
  <2>1. p.id \notin added
    BY <1>1, <1>2, <1>3 DEF AccountInv, RegistrationsAreApart, AccountTypeOK
  <2>2. \A v \in added : chosen'[v] = chosen[v]
    BY <1>3, <1>6, <2>1 DEF AccountTypeOK
  <2> QED BY <1>1, <1>6, <1>7, <1>9, <2>2, ChoicesStay DEF AccountInv
<1>17. NumbersAreKnown'
  <2>1. KnowsNumber(q)'
    BY <1>5 DEF KnowsNumber
  <2> QED BY <1>3, <1>6, <1>7, <2>1, NumbersStay DEF AccountInv
<1> QED BY <1>10, <1>11, <1>12, <1>13, <1>14, <1>15, <1>16, <1>17 DEF AccountInv

LEMMA VerificationEmailStep ==
    ASSUME AccountInv, NEW r \in Requests, SendVerificationEmail(r)
    PROVE  AccountInv'
<1>1. PICK p \in Request : p = req[r]
  BY DEF AccountInv, AccountTypeOK
<1>2. /\ p.pc = "mail" /\ p.kind = "register" /\ p.id \in Accounts /\ r \in Registering
      /\ p.id \in tokens
  BY <1>1 DEF SendVerificationEmail, AccountInv, RequestsAreSound, Sound, Registering,
              RegistrationsAreApart
<1>3. AccountTypeOK /\ RequestsAreSound
  BY DEF AccountInv
<1>6. /\ mailed' = mailed \cup {p.id}
      /\ UNCHANGED <<users, interests, tokens, chosen, resets, failures, requests>>
      /\ UNCHANGED eventVars
      /\ UNCHANGED <<answered, broken, putBack, moved, asked, added, mixed>> /\ Slot(r, Idle)
  BY <1>1 DEF SendVerificationEmail, Continue, Slot, ghostVars
<1>7. /\ req' \in [Requests -> Request] /\ req'[r] = Idle
      /\ \A s \in Requests : s # r => req'[s] = req[s]
  BY <1>3, <1>6, IdleFacts, SlotFacts
<1>8. Accounts' = Accounts /\ RowsKept
  BY <1>6 DEF Accounts, RowsKept
<1>9. /\ Sound(Idle)' /\ OfItsRow(Idle)' /\ ~Picks(Idle) /\ ~HasVerified(Idle)
      /\ ~Picks(p) /\ ~Verifying(p) /\ p.kind # "interests"
  BY <1>2, IdleFacts DEF Sound, OfItsRow, Picks, HasVerified, Verifying
<1>10. AccountTypeOK'
  BY <1>2, <1>3, <1>6, <1>7, <1>8 DEF AccountTypeOK, eventVars
<1>11. RequestsAreSound'
  BY <1>3, <1>6, <1>8, <1>9, IdleFacts, RequestsStay
<1>12. RowsAreUnique' /\ AnswersAreSound'
  BY <1>6, <1>8 DEF AccountInv, RowsAreUnique, AnswersAreSound
<1>13. RegistrationsAreApart'
  <2>1. \A s \in Registering' : s # r /\ s \in Registering /\ req'[s] = req[s]
    BY <1>7, IdleFacts DEF Registering
  <2>2. \A s \in Registering' : req[s].id # p.id
    BY <1>1, <1>2, <2>1 DEF AccountInv, RegistrationsAreApart
  <2> QED BY <1>6, <2>1, <2>2 DEF AccountInv, RegistrationsAreApart
<1>14. VerificationGoesOn'
  <2>1. \A v \in mailed : Verified(v) => Verified(v)'
    BY <1>6 DEF Verified
  <2>2. LinksKept(Idle)
    BY <1>2, <1>6 DEF LinksKept
  <2> QED BY <1>1, <1>3, <1>6, <1>7, <1>9, <2>1, <2>2, VerificationsMove DEF AccountInv
<1>15. LastChangeCounts'
  BY <1>3, <1>6, <1>8, ChangesStay DEF AccountInv
<1>16. ChoicesGoOn'
  BY <1>1, <1>6, <1>7, <1>9, ChoicesStay DEF AccountInv
<1>17. NumbersAreKnown'
  <2>1. KnowsNumber(Idle)'
    BY IdleFacts DEF KnowsNumber
  <2> QED BY <1>3, <1>6, <1>7, <2>1, NumbersStay DEF AccountInv
<1> QED BY <1>10, <1>11, <1>12, <1>13, <1>14, <1>15, <1>16, <1>17 DEF AccountInv

\* verifyEmail finds the token, which another request may have found too.
LEMMA VerifyEmailStep ==
    ASSUME AccountInv, NEW r \in Requests, VerifyEmail(r)
    PROVE  AccountInv'
<1>1. PICK u \in mailed \cap tokens :
         /\ Start(r, [Idle EXCEPT !.pc = "consume", !.kind = "verify", !.id = u])
         /\ mixed' = IF \E s \in Choosing(u) : req[s].kind = "interests"
                     THEN mixed \cup {u} ELSE mixed
  BY DEF VerifyEmail
<1>3. AccountTypeOK /\ RequestsAreSound
  BY DEF AccountInv
<1>2. u \in Ids /\ u \in mailed
  BY <1>3 DEF AccountTypeOK, Accounts
<1>4. PICK q : q = [Idle EXCEPT !.pc = "consume", !.kind = "verify", !.id = u]
  OBVIOUS
<1>5. q \in Request /\ q.pc = "consume" /\ q.kind = "verify" /\ q.id = u
  BY <1>2, <1>4, IdleFacts DEF Request, Idle, Kinds
<1>6. /\ UNCHANGED <<users, interests, tokens, chosen, mailed, resets, failures>>
      /\ UNCHANGED eventVars /\ UNCHANGED <<answered, broken, putBack, moved, asked, added>>
      /\ Slot(r, q) /\ requests' \in 0..MaxRequests /\ req[r] = Idle
      /\ mixed \subseteq mixed' /\ mixed' \subseteq Ids
  <2>1. Start(r, q)
    BY <1>1, <1>4
  <2>2. Slot(r, q) /\ requests' \in 0..MaxRequests /\ req[r] = Idle
    BY <1>3, <2>1, AccountAssumption DEF Start, Slot, AccountTypeOK
  <2>3. mixed \subseteq mixed' /\ mixed' \subseteq Ids
    BY <1>1, <1>2, <1>3 DEF AccountTypeOK
  <2> QED BY <2>2, <2>3 DEF VerifyEmail, tableVars
<1>7. /\ req' \in [Requests -> Request] /\ req'[r] = q
      /\ \A s \in Requests : s # r => req'[s] = req[s]
  BY <1>3, <1>5, <1>6, SlotFacts
<1>8. Accounts' = Accounts /\ RowsKept
  BY <1>6 DEF Accounts, RowsKept
<1>9. /\ Sound(q)' /\ OfItsRow(q)' /\ ~HasVerified(q)
      /\ ~Picks(Idle) /\ ~Verifying(Idle) /\ Idle.kind # "interests"
  BY <1>2, <1>5, <1>6, <1>8, IdleFacts DEF Sound, OfItsRow, Picks, HasVerified, Verifying
<1>10. AccountTypeOK'
  BY <1>3, <1>6, <1>7, <1>8 DEF AccountTypeOK, eventVars
<1>11. RequestsAreSound'
  BY <1>3, <1>5, <1>6, <1>8, <1>9, RequestsStay
<1>12. RowsAreUnique' /\ AnswersAreSound'
  BY <1>6, <1>8 DEF AccountInv, RowsAreUnique, AnswersAreSound
<1>13. RegistrationsAreApart'
  BY <1>5, <1>6, <1>7, RegistrationsStay DEF AccountInv
<1>14. VerificationGoesOn'
  <2>1. \A v \in mailed : Verified(v) => Verified(v)'
    BY <1>6 DEF Verified
  <2> QED BY <1>3, <1>6, <1>7, <1>9, <2>1, VerificationsStay DEF AccountInv
<1>15. LastChangeCounts'
  BY <1>3, <1>6, <1>8, ChangesStay DEF AccountInv
<1>16. ChoicesGoOn'
  BY <1>1, <1>5, <1>6, <1>7, <1>9, ChoicesStay DEF AccountInv
<1>17. NumbersAreKnown'
  <2>1. KnowsNumber(q)'
    BY <1>5 DEF KnowsNumber
  <2> QED BY <1>3, <1>6, <1>7, <2>1, NumbersStay DEF AccountInv
<1> QED BY <1>10, <1>11, <1>12, <1>13, <1>14, <1>15, <1>16, <1>17 DEF AccountInv

\* The token is gone, and the request that deleted it goes on.
LEMMA ConsumeTokenStep ==
    ASSUME AccountInv, NEW r \in Requests, ConsumeToken(r)
    PROVE  AccountInv'
<1>1. PICK p \in Request : p = req[r]
  BY DEF AccountInv, AccountTypeOK
<1>2. p.pc = "consume" /\ p.kind = "verify" /\ p.id \in mailed
  BY <1>1 DEF ConsumeToken, AccountInv, RequestsAreSound, Sound
<1>3. AccountTypeOK /\ RequestsAreSound
  BY DEF AccountInv
<1>4. PICK q : q = [p EXCEPT !.pc = "load"]
  OBVIOUS
<1>5. /\ q \in Request /\ q.pc = "load" /\ q.kind = "verify" /\ q.id = p.id
      /\ q.select = p.select
  BY <1>2, <1>4 DEF Request
<1>6. /\ tokens' = tokens \ {p.id}
      /\ UNCHANGED <<users, interests, chosen, mailed, resets, failures, requests>>
      /\ UNCHANGED eventVars
      /\ UNCHANGED <<answered, broken, putBack, moved, asked, added, mixed>> /\ Slot(r, q)
  BY <1>1, <1>4 DEF ConsumeToken, Continue, Slot, ghostVars
<1>7. /\ req' \in [Requests -> Request] /\ req'[r] = q
      /\ \A s \in Requests : s # r => req'[s] = req[s]
  BY <1>3, <1>5, <1>6, SlotFacts
<1>8. Accounts' = Accounts /\ RowsKept
  BY <1>6 DEF Accounts, RowsKept
<1>9. /\ Sound(q)' /\ OfItsRow(q)' /\ Picks(p) /\ Verifying(q) /\ ~HasVerified(q)
      /\ ~Verifying(p)
  BY <1>2, <1>5, <1>6, <1>8 DEF Sound, OfItsRow, Picks, HasVerified, Verifying
<1>10. AccountTypeOK'
  BY <1>3, <1>6, <1>7, <1>8 DEF AccountTypeOK, eventVars
<1>11. RequestsAreSound'
  BY <1>3, <1>5, <1>6, <1>8, <1>9, RequestsStay
<1>12. RowsAreUnique' /\ AnswersAreSound'
  BY <1>6, <1>8 DEF AccountInv, RowsAreUnique, AnswersAreSound
<1>13. RegistrationsAreApart'
  BY <1>2, <1>5, <1>6, <1>7, RegistrationsStay DEF AccountInv
<1>14. VerificationGoesOn'
  <2>1. \A v \in mailed : Verified(v) => Verified(v)'
    BY <1>6 DEF Verified
  <2>2. LinksKept(q)
    BY <1>5, <1>6, <1>9 DEF LinksKept
  <2> QED BY <1>1, <1>3, <1>6, <1>7, <1>9, <2>1, <2>2, VerificationsMove DEF AccountInv
<1>15. LastChangeCounts'
  BY <1>3, <1>6, <1>8, ChangesStay DEF AccountInv
<1>16. ChoicesGoOn'
  BY <1>1, <1>2, <1>5, <1>6, <1>7, <1>9, ChoicesStay DEF AccountInv
<1>17. NumbersAreKnown'
  <2>1. KnowsNumber(q)'
    BY <1>5 DEF KnowsNumber
  <2> QED BY <1>3, <1>6, <1>7, <2>1, NumbersStay DEF AccountInv
<1> QED BY <1>10, <1>11, <1>12, <1>13, <1>14, <1>15, <1>16, <1>17 DEF AccountInv

\* The interests of one user are kept apart from those of the others.
LEMMA ChoicesOfOthersStay ==
    ASSUME ChoicesGoOn, mixed \subseteq mixed', broken \subseteq broken',
           UNCHANGED chosen, NEW u,
           \A v \in Ids : v # u => /\ interests'[v] = interests[v] /\ asked'[v] = asked[v]
                                  /\ (v \in added' <=> v \in added),
           NEW r \in Requests, \A s \in Requests : s # r => req'[s] = req[s],
           NEW p, NEW q, req[r] = p, req'[r] = q,
           Picks(p) => p.id = u, Picks(q) => q.id = u,
           ChoiceOf(u)'
    PROVE  ChoicesGoOn'
<1> SUFFICES ASSUME NEW v \in Ids, v # u PROVE ChoiceOf(v)'
  BY DEF ChoicesGoOn
<1>1. ChoiceOf(v)
  BY DEF ChoicesGoOn
<1>8. Settled(v) => Settled(v)'
  BY DEF Settled, Wish
<1>2. Choosing(v)' = Choosing(v)
  BY DEF Choosing, Picks
<1>3. \A s \in Choosing(v) : s \in Requests /\ s # r
  BY DEF Choosing, Picks
<1>4. \A s \in Choosing(v) : req'[s] = req[s]
  BY <1>3
<1>5. CASE Settled(v) /\ \A s \in Choosing(v) : req[s].kind = "verify"
  BY <1>2, <1>4, <1>5, <1>8 DEF ChoiceOf
<1>6. ASSUME NEW x \in Requests, interests[v] = {}, v \notin added, Choosing(v) = {x},
             req[x].kind = "interests", req[x].select = asked[v]
      PROVE  ChoiceOf(v)'
  <2>1. req'[x] = req[x]
    BY <1>4, <1>6
  <2> QED BY <1>2, <1>6, <2>1 DEF ChoiceOf
<1>7. CASE v \in mixed \cup broken
  BY <1>7 DEF ChoiceOf
<1> QED BY <1>1, <1>5, <1>6, <1>7 DEF ChoiceOf

\* A verification adds its choices to what was asked for: all, or none if one is there.
LEMMA AddInterestsStep ==
    ASSUME AccountInv, NEW r \in Requests, AddInterests(r)
    PROVE  AccountInv'
<1>1. PICK p \in Request : p = req[r]
  BY DEF AccountInv, AccountTypeOK
<1>2. p.pc = "select" /\ p.kind = "verify" /\ p.id \in mailed
  BY <1>1 DEF AddInterests, AccountInv, RequestsAreSound, Sound
<1>3. AccountTypeOK /\ RequestsAreSound
  BY DEF AccountInv
<1>4. PICK u \in Ids : u = p.id
  BY <1>2, <1>3 DEF AccountTypeOK, Accounts
<1>5. /\ interests' = IF chosen[u] \cap interests[u] = {}
                      THEN [interests EXCEPT ![u] = @ \cup chosen[u]] ELSE interests
      /\ added' = added \cup {u} /\ UNCHANGED asked
  BY <1>1, <1>4 DEF AddInterests
<1>6. /\ UNCHANGED <<users, tokens, chosen, mailed, resets, failures, requests>>
      /\ UNCHANGED eventVars
      /\ UNCHANGED <<answered, broken, putBack, moved, mixed>> /\ Slot(r, Idle)
  BY <1>1 DEF AddInterests, Continue, Slot
<1>7. /\ req' \in [Requests -> Request] /\ req'[r] = Idle
      /\ \A s \in Requests : s # r => req'[s] = req[s]
  BY <1>3, <1>6, IdleFacts, SlotFacts
<1>8. Accounts' = Accounts /\ RowsKept
  BY <1>6 DEF Accounts, RowsKept
<1>9. /\ Sound(Idle)' /\ OfItsRow(Idle)' /\ ~Picks(Idle) /\ ~HasVerified(Idle)
      /\ Verified(p.id)
  <2>1. HasVerified(p)
    BY <1>2 DEF HasVerified
  <2>2. Verified(p.id)
    BY <1>1, <2>1 DEF AccountInv, VerificationGoesOn, HasVerified, Verified
  <2> QED BY <2>2, IdleFacts DEF Sound, OfItsRow, Picks, HasVerified
<1>10. AccountTypeOK'
  <2>1. interests' \in [Ids -> SUBSET Interests] /\ added' \subseteq mailed
    BY <1>2, <1>3, <1>4, <1>5 DEF AccountTypeOK
  <2> QED BY <1>3, <1>5, <1>6, <1>7, <1>8, <2>1 DEF AccountTypeOK, eventVars
<1>11. RequestsAreSound'
  BY <1>3, <1>6, <1>8, <1>9, IdleFacts, RequestsStay
<1>12. RowsAreUnique' /\ AnswersAreSound'
  BY <1>6, <1>8 DEF AccountInv, RowsAreUnique, AnswersAreSound
<1>13. RegistrationsAreApart'
  BY <1>6, <1>7, IdleFacts, RegistrationsStay DEF AccountInv
<1>14. VerificationGoesOn'
  <2>1. \A v \in mailed : Verified(v) => Verified(v)'
    BY <1>6 DEF Verified
  <2>2. Verified(p.id)'
    BY <1>6, <1>9 DEF Verified
  <2> QED BY <1>1, <1>3, <1>6, <1>7, <1>9, <2>1, <2>2, VerificationsStay DEF AccountInv
<1>15. LastChangeCounts'
  BY <1>3, <1>6, <1>8, ChangesStay DEF AccountInv
<1>16. ChoicesGoOn'
  <2>1. r \in Choosing(u)
    BY <1>1, <1>2, <1>4 DEF Choosing
  <2>2. \A s \in Choosing(u)' : s \in Choosing(u) /\ req'[s] = req[s]
    BY <1>7, IdleFacts DEF Choosing
  <2>3. ASSUME u \notin mixed \cup broken
        PROVE  Settled(u) /\ \A s \in Choosing(u) : req[s].kind = "verify"
    BY <1>1, <1>2, <2>1, <2>3 DEF AccountInv, ChoicesGoOn, ChoiceOf
  <2>4. ASSUME Settled(u) PROVE Settled(u)'
    <3>1. /\ interests'[u] = IF chosen[u] \cap interests[u] = {}
                             THEN interests[u] \cup chosen[u] ELSE interests[u]
          /\ u \in added' /\ asked'[u] = asked[u] /\ chosen'[u] = chosen[u]
      BY <1>3, <1>5, <1>6 DEF AccountTypeOK
    <3>2. CASE interests[u] = asked[u]
      BY <3>1, <3>2 DEF Settled, Wish
    <3>3. CASE interests[u] = asked[u] \cup chosen[u]
      BY <3>1, <3>3 DEF Settled, Wish
    <3> QED BY <2>4, <3>2, <3>3 DEF Settled, Wish
  <2>5. ChoiceOf(u)'
    <3>1. CASE u \in mixed \cup broken
      BY <1>6, <3>1 DEF ChoiceOf
    <3>2. CASE u \notin mixed \cup broken
      BY <2>2, <2>3, <2>4, <3>2 DEF ChoiceOf
    <3> QED BY <3>1, <3>2
  <2>6. \A v \in Ids : v # u => /\ interests'[v] = interests[v] /\ asked'[v] = asked[v]
                                /\ (v \in added' <=> v \in added)
    BY <1>3, <1>5 DEF AccountTypeOK
  <2> QED BY <1>1, <1>4, <1>6, <1>7, <1>9, <2>5, <2>6, ChoicesOfOthersStay DEF AccountInv
<1>17. NumbersAreKnown'
  <2>1. KnowsNumber(Idle)'
    BY IdleFacts DEF KnowsNumber
  <2> QED BY <1>3, <1>6, <1>7, <2>1, NumbersStay DEF AccountInv
<1> QED BY <1>10, <1>11, <1>12, <1>13, <1>14, <1>15, <1>16, <1>17 DEF AccountInv

\* The old interests are deleted, whoever else was choosing for the user.
LEMMA UpdateInterestsStep ==
    ASSUME AccountInv, NEW r \in Requests, UpdateInterests(r)
    PROVE  AccountInv'
<1>1. PICK u \in Accounts, i \in Selections :
         /\ interests' = [interests EXCEPT ![u] = {}]
         /\ Start(r, [Idle EXCEPT !.pc = "select", !.kind = "interests", !.id = u, !.select = i])
         /\ asked' = [asked EXCEPT ![u] = i] /\ added' = added \ {u}
         /\ mixed' = IF Choosing(u) # {} THEN mixed \cup {u} ELSE mixed
  BY DEF UpdateInterests
<1>2. u \in Ids /\ i \subseteq Interests
  BY AccountAssumption DEF Accounts
<1>3. AccountTypeOK /\ RequestsAreSound
  BY DEF AccountInv
<1>4. PICK q : q = [Idle EXCEPT !.pc = "select", !.kind = "interests", !.id = u, !.select = i]
  OBVIOUS
<1>5. q \in Request /\ q.pc = "select" /\ q.kind = "interests" /\ q.id = u /\ q.select = i
  BY <1>2, <1>4, IdleFacts DEF Request, Idle, Kinds
<1>6. /\ UNCHANGED <<users, tokens, chosen, mailed, resets, failures>>
      /\ UNCHANGED eventVars /\ UNCHANGED <<answered, broken, putBack, moved>>
      /\ Slot(r, q) /\ requests' \in 0..MaxRequests /\ req[r] = Idle
      /\ mixed \subseteq mixed' /\ mixed' \subseteq Ids
  <2>1. Start(r, q)
    BY <1>1, <1>4
  <2>2. Slot(r, q) /\ requests' \in 0..MaxRequests /\ req[r] = Idle
    BY <1>3, <2>1, AccountAssumption DEF Start, Slot, AccountTypeOK
  <2>3. mixed \subseteq mixed' /\ mixed' \subseteq Ids
    BY <1>1, <1>2, <1>3 DEF AccountTypeOK
  <2> QED BY <2>2, <2>3 DEF UpdateInterests
<1>7. /\ req' \in [Requests -> Request] /\ req'[r] = q
      /\ \A s \in Requests : s # r => req'[s] = req[s]
  BY <1>3, <1>5, <1>6, SlotFacts
<1>8. Accounts' = Accounts /\ RowsKept
  BY <1>6 DEF Accounts, RowsKept
<1>9. /\ Sound(q)' /\ OfItsRow(q)' /\ ~HasVerified(q)
      /\ ~Picks(Idle) /\ ~Verifying(Idle)
  BY <1>5, <1>8, IdleFacts DEF Sound, OfItsRow, Picks, HasVerified, Verifying
<1>10. AccountTypeOK'
  <2>1. /\ interests' \in [Ids -> SUBSET Interests] /\ asked' \in [Ids -> SUBSET Interests]
        /\ added' \subseteq mailed
    BY <1>1, <1>2, <1>3 DEF AccountTypeOK
  <2> QED BY <1>3, <1>6, <1>7, <1>8, <2>1 DEF AccountTypeOK, eventVars
<1>11. RequestsAreSound'
  BY <1>3, <1>5, <1>6, <1>8, <1>9, RequestsStay
<1>12. RowsAreUnique' /\ AnswersAreSound'
  BY <1>6, <1>8 DEF AccountInv, RowsAreUnique, AnswersAreSound
<1>13. RegistrationsAreApart'
  BY <1>5, <1>6, <1>7, RegistrationsStay DEF AccountInv
<1>14. VerificationGoesOn'
  <2>1. \A v \in mailed : Verified(v) => Verified(v)'
    BY <1>6 DEF Verified
  <2> QED BY <1>3, <1>6, <1>7, <1>9, <2>1, VerificationsStay DEF AccountInv
<1>15. LastChangeCounts'
  BY <1>3, <1>6, <1>8, ChangesStay DEF AccountInv
<1>16. ChoicesGoOn'
  <2>1. CASE Choosing(u) # {}
    <3>1. ChoiceOf(u)'
      BY <1>1, <2>1 DEF ChoiceOf
    <3>2. \A v \in Ids : v # u => /\ interests'[v] = interests[v] /\ asked'[v] = asked[v]
                                  /\ (v \in added' <=> v \in added)
      BY <1>1, <1>3 DEF AccountTypeOK
    <3> QED BY <1>5, <1>6, <1>7, <1>9, <3>1, <3>2, ChoicesOfOthersStay DEF AccountInv
  <2>2. CASE Choosing(u) = {}
    <3>1. Choosing(u)' = {r}
      <4>1. \A s \in Requests : s \in Choosing(u)' <=> s = r
        BY <1>5, <1>7, <2>2 DEF Choosing
      <4> QED BY <4>1 DEF Choosing
    <3>2. interests'[u] = {} /\ asked'[u] = i /\ u \notin added'
      BY <1>1, <1>2, <1>3 DEF AccountTypeOK
    <3>3. ChoiceOf(u)'
      BY <1>5, <1>7, <3>1, <3>2 DEF ChoiceOf
    <3>4. \A v \in Ids : v # u => /\ interests'[v] = interests[v] /\ asked'[v] = asked[v]
                                  /\ (v \in added' <=> v \in added)
      BY <1>1, <1>3 DEF AccountTypeOK
    <3> QED BY <1>5, <1>6, <1>7, <1>9, <3>3, <3>4, ChoicesOfOthersStay DEF AccountInv
  <2> QED BY <2>1, <2>2
<1>17. NumbersAreKnown'
  <2>1. KnowsNumber(q)'
    BY <1>5 DEF KnowsNumber
  <2> QED BY <1>3, <1>6, <1>7, <2>1, NumbersStay DEF AccountInv
<1> QED BY <1>10, <1>11, <1>12, <1>13, <1>14, <1>15, <1>16, <1>17 DEF AccountInv

\* Then those asked for are inserted, if nobody else chose.
LEMMA InsertInterestsStep ==
    ASSUME AccountInv, NEW r \in Requests, InsertInterests(r)
    PROVE  AccountInv'
<1>1. PICK p \in Request : p = req[r]
  BY DEF AccountInv, AccountTypeOK
<1>2. p.pc = "select" /\ p.kind = "interests" /\ p.id \in Accounts
  BY <1>1 DEF InsertInterests, AccountInv, RequestsAreSound, Sound
<1>3. AccountTypeOK /\ RequestsAreSound
  BY DEF AccountInv
<1>4. PICK u \in Ids : u = p.id
  BY <1>2 DEF Accounts
<1>5. interests' = IF p.select \cap interests[u] = {}
                   THEN [interests EXCEPT ![u] = @ \cup p.select] ELSE interests
  BY <1>1, <1>4 DEF InsertInterests
<1>6. /\ UNCHANGED <<users, tokens, chosen, mailed, resets, failures, requests>>
      /\ UNCHANGED eventVars
      /\ UNCHANGED <<answered, broken, putBack, moved, asked, added, mixed>> /\ Slot(r, Idle)
  BY <1>1 DEF InsertInterests, Continue, Slot, ghostVars
<1>7. /\ req' \in [Requests -> Request] /\ req'[r] = Idle
      /\ \A s \in Requests : s # r => req'[s] = req[s]
  BY <1>3, <1>6, IdleFacts, SlotFacts
<1>8. Accounts' = Accounts /\ RowsKept
  BY <1>6 DEF Accounts, RowsKept
<1>9. /\ Sound(Idle)' /\ OfItsRow(Idle)' /\ ~Picks(Idle) /\ ~HasVerified(Idle)
      /\ ~Verifying(p)
  BY <1>2, IdleFacts DEF Sound, OfItsRow, Picks, HasVerified, Verifying
<1>10. AccountTypeOK'
  <2>1. interests' \in [Ids -> SUBSET Interests]
    BY <1>3, <1>5 DEF AccountTypeOK, Request
  <2> QED BY <1>3, <1>6, <1>7, <1>8, <2>1 DEF AccountTypeOK, eventVars
<1>11. RequestsAreSound'
  BY <1>3, <1>6, <1>8, <1>9, IdleFacts, RequestsStay
<1>12. RowsAreUnique' /\ AnswersAreSound'
  BY <1>6, <1>8 DEF AccountInv, RowsAreUnique, AnswersAreSound
<1>13. RegistrationsAreApart'
  BY <1>6, <1>7, IdleFacts, RegistrationsStay DEF AccountInv
<1>14. VerificationGoesOn'
  <2>1. \A v \in mailed : Verified(v) => Verified(v)'
    BY <1>6 DEF Verified
  <2> QED BY <1>1, <1>3, <1>6, <1>7, <1>9, <2>1, VerificationsStay DEF AccountInv
<1>15. LastChangeCounts'
  BY <1>3, <1>6, <1>8, ChangesStay DEF AccountInv
<1>16. ChoicesGoOn'
  <2>1. r \in Choosing(u)
    BY <1>1, <1>2, <1>4 DEF Choosing
  <2>2. ASSUME u \in mixed \cup broken PROVE ChoiceOf(u)'
    BY <1>6, <2>2 DEF ChoiceOf
  <2>3. ASSUME u \notin mixed \cup broken PROVE ChoiceOf(u)'
    <3>1. /\ interests[u] = {} /\ u \notin added /\ Choosing(u) = {r} /\ p.select = asked[u]
      BY <1>1, <1>2, <2>1, <2>3 DEF AccountInv, ChoicesGoOn, ChoiceOf
    <3>2. Settled(u)'
      <4>1. interests'[u] = asked'[u] /\ u \notin added'
        BY <1>3, <1>5, <1>6, <3>1 DEF AccountTypeOK
      <4> QED BY <4>1 DEF Settled, Wish
    <3>3. Choosing(u)' = {}
      <4>1. \A s \in Requests : s \notin Choosing(u)'
        BY <1>7, <3>1, IdleFacts DEF Choosing
      <4> QED BY <4>1 DEF Choosing
    <3> QED BY <3>2, <3>3 DEF ChoiceOf
  <2>4. ChoiceOf(u)'
    BY <2>2, <2>3
  <2>5. \A v \in Ids : v # u => /\ interests'[v] = interests[v] /\ asked'[v] = asked[v]
                                /\ (v \in added' <=> v \in added)
    BY <1>3, <1>5, <1>6 DEF AccountTypeOK
  <2> QED BY <1>1, <1>4, <1>6, <1>7, <1>9, <2>4, <2>5, ChoicesOfOthersStay DEF AccountInv
<1>17. NumbersAreKnown'
  <2>1. KnowsNumber(Idle)'
    BY IdleFacts DEF KnowsNumber
  <2> QED BY <1>3, <1>6, <1>7, <2>1, NumbersStay DEF AccountInv
<1> QED BY <1>10, <1>11, <1>12, <1>13, <1>14, <1>15, <1>16, <1>17 DEF AccountInv

\* A request that breaks off: whose it was is known to have been broken off.
LEMMA FailsStep ==
    ASSUME AccountInv, NEW r \in Requests, Fails(r)
    PROVE  AccountInv'
<1>1. PICK p \in Request : p = req[r]
  BY DEF AccountInv, AccountTypeOK
<1>2. AccountTypeOK /\ RequestsAreSound /\ Sound(p)
  BY <1>1 DEF AccountInv, RequestsAreSound
<1>3. broken' = IF Picks(p) /\ p.pc # "consume" THEN broken \cup {p.id} ELSE broken
  BY <1>1 DEF Fails, Picks
<1>4. Picks(p) => p.id \in Ids
  BY <1>2 DEF Sound, Picks, AccountTypeOK, Accounts
<1>5. broken \subseteq broken' /\ broken' \subseteq Ids
  BY <1>2, <1>3, <1>4 DEF AccountTypeOK
<1>6. /\ UNCHANGED <<users, interests, tokens, chosen, mailed, resets, requests>>
      /\ UNCHANGED eventVars /\ failures' \in 0..MaxFailures
      /\ UNCHANGED <<answered, putBack, moved, asked, added, mixed>> /\ Slot(r, Idle)
  BY <1>2, AccountAssumption DEF Fails, Slot, tableVars, AccountTypeOK
<1>7. /\ req' \in [Requests -> Request] /\ req'[r] = Idle
      /\ \A s \in Requests : s # r => req'[s] = req[s]
  BY <1>2, <1>6, IdleFacts, SlotFacts
<1>8. Accounts' = Accounts /\ RowsKept
  BY <1>6 DEF Accounts, RowsKept
<1>9. /\ Sound(Idle)' /\ OfItsRow(Idle)' /\ ~Picks(Idle) /\ ~HasVerified(Idle)
  BY IdleFacts DEF Sound, OfItsRow, Picks, HasVerified
<1>10. AccountTypeOK'
  BY <1>2, <1>5, <1>6, <1>7, <1>8 DEF AccountTypeOK, eventVars
<1>11. RequestsAreSound'
  BY <1>2, <1>6, <1>8, <1>9, IdleFacts, RequestsStay
<1>12. RowsAreUnique' /\ AnswersAreSound'
  BY <1>6, <1>8 DEF AccountInv, RowsAreUnique, AnswersAreSound
<1>13. RegistrationsAreApart'
  BY <1>6, <1>7, IdleFacts, RegistrationsStay DEF AccountInv
<1>14. VerificationGoesOn'
  <2>1. \A v \in mailed : Verified(v) => Verified(v)'
    BY <1>6 DEF Verified
  <2>2. Verifying(p) => p.id \in broken'
    BY <1>3 DEF Verifying, Picks
  <2> QED BY <1>1, <1>2, <1>5, <1>6, <1>7, <1>9, <2>1, <2>2, VerificationsStay DEF AccountInv
<1>15. LastChangeCounts'
  BY <1>2, <1>6, <1>8, ChangesStay DEF AccountInv
<1>16. ChoicesGoOn'
  <2>1. p.kind = "interests" => p.id \in broken'
    BY <1>2, <1>3 DEF Sound, Picks
  <2> QED BY <1>1, <1>5, <1>6, <1>7, <1>9, <2>1, ChoicesStay DEF AccountInv
<1>17. NumbersAreKnown'
  <2>1. KnowsNumber(Idle)'
    BY IdleFacts DEF KnowsNumber
  <2> QED BY <1>2, <1>6, <1>7, <2>1, NumbersStay DEF AccountInv
<1> QED BY <1>10, <1>11, <1>12, <1>13, <1>14, <1>15, <1>16, <1>17 DEF AccountInv

-------------------------------------------------------------------------------
(* save(). *)

\* What an UPDATE leaves of a row: what is unique in it stays, and what it puts back
\* is known.
LEMMA WrittenFacts ==
    ASSUME AccountInv, NEW r \in Requests, NEW p \in Request, p = req[r], p.pc = "write",
           NEW u \in Accounts, u = p.id, NEW row, row = Written(r)
    PROVE  /\ row \in User /\ row.email = users[u].email /\ row.apple = users[u].apple
           /\ row.google \in {users[u].google, p.entity.google}
           /\ users[u].email = Null => row.google = users[u].google
           /\ Belongs(row)
           /\ row.verified = IF "verified" \in p.dirty THEN p.entity.verified ELSE users[u].verified
           /\ row.plan = IF "plan" \in p.dirty THEN p.entity.plan ELSE users[u].plan
           /\ "phone" \notin p.dirty => row.phone = users[u].phone
<1>1. users[u] \in User /\ Belongs(users[u])
  BY DEF AccountInv, AccountTypeOK, RowsAreUnique, Accounts
<1>2. Sound(p) /\ OfItsRow(p)
  BY DEF AccountInv, RequestsAreSound
<1>3. /\ p.entity \in User /\ Belongs(p.entity)
      /\ p.entity.email = users[u].email /\ p.entity.apple = users[u].apple
      /\ p.entity.email = Null => p.entity.google = users[u].google
  BY <1>2 DEF Sound, OfItsRow
<1>4. row = [c \in Columns |-> IF c \in p.dirty THEN p.entity[c] ELSE users[u][c]]
  BY DEF Written
<1>5. /\ row.email = IF "email" \in p.dirty THEN p.entity.email ELSE users[u].email
      /\ row.google = IF "google" \in p.dirty THEN p.entity.google ELSE users[u].google
      /\ row.apple = IF "apple" \in p.dirty THEN p.entity.apple ELSE users[u].apple
      /\ row.verified = IF "verified" \in p.dirty THEN p.entity.verified ELSE users[u].verified
      /\ row.plan = IF "plan" \in p.dirty THEN p.entity.plan ELSE users[u].plan
      /\ "phone" \notin p.dirty => row.phone = users[u].phone
  BY <1>4 DEF Columns
<1>6. row \in User
  BY <1>1, <1>3, <1>4 DEF Columns, User
<1> QED BY <1>1, <1>3, <1>5, <1>6 DEF Belongs

\* The address of a row is its own, and so is its Google user, who would have another row
\* with another address; only a phone number that is written may be somebody else's.
LEMMA OnlyNumbers ==
    ASSUME AccountInv, NEW r \in Requests, req[r].pc = "write",
           Conflicts(Written(r), Accounts \ {req[r].id})
    PROVE  "phone" \in req[r].dirty /\ (req[r].kind = "verify" => req[r].id \in moved)
<1>1. PICK p \in Request : p = req[r]
  BY DEF AccountInv, AccountTypeOK
<1>2. p.id \in Accounts
  BY <1>1 DEF AccountInv, RequestsAreSound, Sound
<1>3. PICK u \in Accounts : u = p.id
  BY <1>2
<1>4. PICK row : row = Written(r)
  OBVIOUS
<1>5. /\ row \in User /\ row.email = users[u].email /\ row.apple = users[u].apple
      /\ users[u].email = Null => row.google = users[u].google
      /\ Belongs(row)
      /\ "phone" \notin p.dirty => row.phone = users[u].phone
  BY <1>1, <1>3, <1>4, WrittenFacts
<1>6. RowsAreUnique
  BY DEF AccountInv
<1>7. ASSUME NEW v \in Accounts, v # u
      PROVE  /\ row.email # Null => users[v].email # row.email
             /\ row.apple # Null => users[v].apple # row.apple
             /\ row.google # Null => users[v].google # row.google
             /\ "phone" \notin p.dirty => (row.phone # Null => users[v].phone # row.phone)
  <2>1. /\ row.email # Null => users[v].email # row.email
        /\ row.apple # Null => users[v].apple # row.apple
        /\ "phone" \notin p.dirty => (row.phone # Null => users[v].phone # row.phone)
    BY <1>5, <1>6, <1>7 DEF RowsAreUnique
  <2>2. ASSUME row.google # Null, users[v].google = row.google PROVE FALSE
    <3>1. users[v].email = row.email
      BY <1>5, <1>6, <2>2 DEF RowsAreUnique, Belongs
    <3>2. CASE row.email = Null
      BY <1>5, <1>6, <1>7, <2>2, <3>2 DEF RowsAreUnique
    <3> QED BY <2>1, <3>1, <3>2
  <2> QED BY <2>1, <2>2
<1>8. "phone" \in p.dirty
  <2>1. Conflicts(row, Accounts \ {u})
    BY <1>1, <1>3, <1>4
  <2> QED BY <1>7, <2>1 DEF Conflicts
<1>9. p.kind = "verify" => p.id \in moved
  <2>1. KnowsNumber(p)
    BY <1>1 DEF AccountInv, NumbersAreKnown
  <2> QED BY <1>1, <1>8, <2>1 DEF KnowsNumber
<1> QED BY <1>1, <1>8, <1>9

\* A save that is rejected leaves everything but its request, which ends.
LEMMA RejectedStep ==
    ASSUME AccountInv, NEW r \in Requests, Write(r),
           Conflicts(Written(r), Accounts \ {req[r].id})
    PROVE  AccountInv'
<1>1. PICK p \in Request : p = req[r]
  BY DEF AccountInv, AccountTypeOK
<1>2. AccountTypeOK /\ RequestsAreSound /\ Sound(p) /\ p.pc = "write"
  BY <1>1 DEF AccountInv, RequestsAreSound, Write
<1>3. /\ UNCHANGED <<users, interests, tokens, chosen, mailed, resets, failures, requests>>
      /\ UNCHANGED eventVars
      /\ UNCHANGED <<answered, broken, putBack, moved, asked, added, mixed>> /\ Slot(r, Idle)
  BY DEF Write, Continue, Slot
<1>4. /\ req' \in [Requests -> Request] /\ req'[r] = Idle
      /\ \A s \in Requests : s # r => req'[s] = req[s]
  BY <1>2, <1>3, IdleFacts, SlotFacts
<1>5. Accounts' = Accounts /\ RowsKept
  BY <1>3 DEF Accounts, RowsKept
<1>6. /\ Sound(Idle)' /\ OfItsRow(Idle)' /\ ~Picks(Idle) /\ ~HasVerified(Idle)
      /\ p.kind # "interests"
  BY <1>2, IdleFacts DEF Sound, OfItsRow, Picks, HasVerified
<1>7. AccountTypeOK'
  BY <1>2, <1>3, <1>4, <1>5 DEF AccountTypeOK, eventVars
<1>8. RequestsAreSound'
  BY <1>2, <1>3, <1>5, <1>6, IdleFacts, RequestsStay
<1>9. NumbersAreKnown'
  <2>1. KnowsNumber(Idle)'
    BY IdleFacts DEF KnowsNumber
  <2> QED BY <1>2, <1>3, <1>4, <2>1, NumbersStay DEF AccountInv
<1>10. RowsAreUnique' /\ AnswersAreSound'
  BY <1>3, <1>5 DEF AccountInv, RowsAreUnique, AnswersAreSound
<1>11. RegistrationsAreApart'
  BY <1>3, <1>4, IdleFacts, RegistrationsStay DEF AccountInv
<1>12. VerificationGoesOn'
  <2>1. \A v \in mailed : Verified(v) => Verified(v)'
    BY <1>3 DEF Verified
  <2>2. Verifying(p) => p.id \in moved'
    BY <1>1, <1>2, <1>3, OnlyNumbers DEF Verifying
  <2> QED BY <1>1, <1>2, <1>3, <1>4, <1>6, <2>1, <2>2, VerificationsStay DEF AccountInv
<1>13. LastChangeCounts'
  BY <1>2, <1>3, <1>5, ChangesStay DEF AccountInv
<1>14. ChoicesGoOn'
  BY <1>1, <1>3, <1>4, <1>6, ChoicesStay DEF AccountInv
<1> QED BY <1>7, <1>8, <1>9, <1>10, <1>11, <1>12, <1>13, <1>14 DEF AccountInv

LEMMA WriteStep ==
    ASSUME AccountInv, NEW r \in Requests, Write(r),
           ~Conflicts(Written(r), Accounts \ {req[r].id})
    PROVE  AccountInv'
<1>1. PICK p \in Request : p = req[r]
  BY DEF AccountInv, AccountTypeOK
<1>2. AccountTypeOK /\ RequestsAreSound /\ Sound(p) /\ OfItsRow(p) /\ p.pc = "write"
  BY <1>1 DEF AccountInv, RequestsAreSound, Write
<1>3. /\ p.kind \in {"verify", "reset", "change", "profile", "google"}
      /\ p.id \in Accounts
      /\ p.kind = "verify" => p.id \in mailed
      /\ p.kind = "google" => /\ p.key \in Googles /\ p.entity.google = p.key
                              /\ p.entity.email = GoogleEmail[p.key]
      /\ p.entity.plan = p.seen.plan
      /\ ~p.entity.verified => p.kind # "verify" /\ ~p.seen.verified
  BY <1>2 DEF Sound, OfItsRow
<1>4. PICK u \in Accounts : u = p.id
  BY <1>3
<1>5. PICK row : row = Written(r)
  OBVIOUS
<1>6. /\ row \in User /\ row.email = users[u].email /\ row.apple = users[u].apple
      /\ row.google \in {users[u].google, p.entity.google}
      /\ users[u].email = Null => row.google = users[u].google
      /\ Belongs(row)
      /\ row.verified = IF "verified" \in p.dirty THEN p.entity.verified ELSE users[u].verified
      /\ row.plan = IF "plan" \in p.dirty THEN p.entity.plan ELSE users[u].plan
      /\ "phone" \notin p.dirty => row.phone = users[u].phone
  BY <1>1, <1>2, <1>4, <1>5, WrittenFacts
<1>7. ~Conflicts(row, Accounts \ {u})
  BY <1>1, <1>4, <1>5
<1>8. PICK d : d = {c \in p.dirty : p.entity[c] = p.seen[c]}
  OBVIOUS
<1>9. /\ users' = [users EXCEPT ![u] = row]
      /\ putBack' = [putBack EXCEPT ![u] = (@ \ p.dirty) \cup d]
      /\ answered' = IF p.kind = "google" THEN answered \cup {<<p.key, u>>} ELSE answered
      /\ moved' = IF "phone" \in p.dirty /\ Verifications(u) \ {r} # {}
                  THEN moved \cup {u} ELSE moved
      /\ Continue(r, AfterSave(r))
  BY <1>1, <1>4, <1>5, <1>7, <1>8 DEF Write, Restored
<1>10. /\ UNCHANGED <<interests, tokens, chosen, mailed, resets, failures, requests>>
       /\ UNCHANGED eventVars
       /\ UNCHANGED <<broken, asked, added, mixed>>
  BY <1>9 DEF Write, Continue
<1>11. PICK q \in Request :
          /\ Slot(r, q)
          /\ \/ q = Idle
             \/ /\ q.pc = "select" /\ q.kind = p.kind /\ q.kind = "verify" /\ q.id = p.id
                /\ q.select = p.select
  <2>1. PICK q : q = [p EXCEPT !.pc = "select"]
    OBVIOUS
  <2>2. q \in Request /\ q.pc = "select" /\ q.kind = p.kind /\ q.id = p.id /\ q.select = p.select
    BY <2>1 DEF Request
  <2> QED BY <1>1, <1>9, <2>1, <2>2, IdleFacts DEF AfterSave, Continue, Slot
<1>12. /\ req' \in [Requests -> Request] /\ req'[r] = q
       /\ \A s \in Requests : s # r => req'[s] = req[s]
  BY <1>2, <1>11, SlotFacts
<1>13. /\ u \in Ids /\ users[u] \in User /\ users'[u] = row
       /\ \A v \in Ids : v # u => users'[v] = users[v]
       /\ Accounts' = Accounts
  <2>1. u \in Ids /\ users[u] \in User
    BY <1>2 DEF AccountTypeOK, Accounts
  <2>2. users'[u] = row /\ \A v \in Ids : v # u => users'[v] = users[v]
    BY <1>2, <1>9, <2>1 DEF AccountTypeOK
  <2> QED BY <1>6, <2>1, <2>2, RowAssumption DEF Accounts
<1>14. RowsKept
  BY <1>6, <1>13 DEF RowsKept, Accounts
<1>15. \A v \in Ids : Verified(v) => Verified(v)'
  <2>1. putBack'[u] = (putBack[u] \ p.dirty) \cup d /\ \A v \in Ids : v # u => putBack'[v] = putBack[v]
    BY <1>2, <1>9, <1>13 DEF AccountTypeOK
  <2>2. "verified" \in p.dirty /\ ~p.entity.verified => "verified" \in d
    <3>1. "verified" \in p.dirty /\ ~p.entity.verified => p.entity["verified"] = p.seen["verified"]
      BY <1>2, <1>3 DEF Sound, User
    <3> QED BY <1>8, <3>1
  <2>3. Verified(u) => Verified(u)'
    BY <1>6, <1>13, <2>1, <2>2 DEF Verified
  <2>4. \A v \in Ids : v # u => (Verified(v) => Verified(v)')
    BY <1>13, <2>1 DEF Verified
  <2> QED BY <2>3, <2>4
<1>16. p.kind = "verify" => Verified(u)'
  <2>1. CASE "verified" \in p.dirty
    BY <1>3, <1>6, <1>13, <2>1 DEF Verified
  <2>2. ASSUME "verified" \notin p.dirty, p.kind = "verify" PROVE Verified(u)'
    <3>1. HasVerified(p)
      BY <1>2, <2>2 DEF HasVerified
    <3>2. Verified(u)
      BY <1>1, <1>4, <3>1 DEF AccountInv, VerificationGoesOn, HasVerified, Verified
    <3> QED BY <1>13, <1>15, <3>2
  <2> QED BY <2>1, <2>2
<1>17. Sound(q)' /\ OfItsRow(q)'
  BY <1>3, <1>10, <1>11, IdleFacts DEF Sound, OfItsRow
<1>18. answered' \subseteq Googles \X Accounts' /\ AnswersAreSound'
  <2>1. \A a \in answered : a \in Googles \X Accounts /\ a[2] \in Accounts /\ a[2] \in Ids
    BY <1>2 DEF AccountTypeOK, Accounts
  <2>2. AnswersAreSound
    BY DEF AccountInv
  <2>3. ASSUME NEW a \in answered
        PROVE  /\ users'[a[2]].email = GoogleEmail[a[1]]
               /\ GoogleEmail[a[1]] = Null => users'[a[2]].google = a[1]
    BY <2>1, <2>2, <1>14 DEF AnswersAreSound, RowsKept
  <2>4. p.kind = "google" => /\ users'[u].email = GoogleEmail[p.key]
                             /\ GoogleEmail[p.key] = Null => users'[u].google = p.key
    BY <1>2, <1>3, <1>4, <1>6, <1>13 DEF OfItsRow
  <2>5. \A a \in answered' : a \in answered \/ (p.kind = "google" /\ a = <<p.key, u>>)
    BY <1>9
  <2>6. AnswersAreSound'
    BY <2>3, <2>4, <2>5 DEF AnswersAreSound
  <2> QED BY <1>3, <1>13, <2>1, <2>5, <2>6
<1>19. AccountTypeOK'
  <2>1. d \in SUBSET Columns /\ users' \in [Ids -> User \cup {Null}]
    BY <1>2, <1>6, <1>8, <1>9 DEF AccountTypeOK, Request
  <2>2. putBack' \in [Ids -> SUBSET Columns]
    BY <1>2, <1>9, <2>1 DEF AccountTypeOK
  <2>3. moved \subseteq moved' /\ moved' \subseteq Ids
    BY <1>2, <1>9, <1>13 DEF AccountTypeOK
  <2> QED BY <1>2, <1>10, <1>12, <1>13, <1>18, <2>1, <2>2, <2>3 DEF AccountTypeOK, eventVars
<1>20. RequestsAreSound'
  BY <1>2, <1>10, <1>11, <1>14, <1>17, RequestsStay
<1>21. RowsAreUnique'
  <2>1. RowsAreUnique
    BY DEF AccountInv
  <2>2. \A v \in Accounts \ {u} : \A c \in {"email", "phone", "google", "apple"} :
           row[c] # Null => users[v][c] # row[c]
    BY <1>7 DEF Conflicts
  <2>3. \A v \in Accounts : v # u => users'[v] = users[v]
    BY <1>13 DEF Accounts
  <2> QED BY <1>6, <1>13, <2>1, <2>2, <2>3 DEF RowsAreUnique, Belongs
<1>22. RegistrationsAreApart'
  <2>1. ~(q.kind = "register")
    BY <1>3, <1>11, IdleFacts
  <2> QED BY <1>10, <1>12, <2>1, RegistrationsStay DEF AccountInv
<1>23. VerificationGoesOn'
  <2>1. \A v \in mailed : Verified(v) => Verified(v)'
    BY <1>2, <1>15 DEF AccountTypeOK, Accounts
  <2>2. Verifying(p) => Verified(p.id)'
    BY <1>4, <1>16 DEF Verifying
  <2>3. HasVerified(q) => q.id \in mailed /\ Verified(q.id)'
    BY <1>3, <1>4, <1>11, <1>16, IdleFacts DEF HasVerified
  <2> QED BY <1>1, <1>2, <1>9, <1>10, <1>12, <2>1, <2>2, <2>3, VerificationsStay DEF AccountInv
<1>24. LastChangeCounts'
  <2>1. "plan" \in p.dirty => "plan" \in d
    <3>1. p.entity["plan"] = p.seen["plan"]
      BY <1>2, <1>3 DEF Sound, User
    <3> QED BY <1>8, <3>1
  <2>2. putBack'[u] = (putBack[u] \ p.dirty) \cup d /\ \A v \in Ids : v # u => putBack'[v] = putBack[v]
    BY <1>2, <1>9, <1>13 DEF AccountTypeOK
  <2>3. ASSUME NEW v \in Accounts
        PROVE  \/ "plan" \in putBack'[v]
               \/ /\ users'[v].plan = users[v].plan
                  /\ "plan" \in putBack[v] => "plan" \in putBack'[v]
    <3>1. CASE v = u
      BY <1>6, <1>13, <2>1, <2>2, <3>1
    <3>2. CASE v # u
      BY <1>13, <2>2, <3>2 DEF Accounts
    <3> QED BY <3>1, <3>2
  <2> QED BY <1>2, <1>10, <1>13, <2>3, ChangesStay DEF AccountInv
<1>25. ChoicesGoOn'
  <2>1. p.kind # "interests" /\ ~Picks(Idle)
    BY <1>3, IdleFacts DEF Picks
  <2>2. \/ Picks(p) /\ q.kind = p.kind /\ q.id = p.id /\ q.select = p.select
        \/ ~Picks(q) /\ (p.kind = "interests" => p.id \in mixed' \cup broken')
    BY <1>11, <2>1 DEF Picks
  <2> QED BY <1>1, <1>10, <1>12, <2>2, ChoicesStay DEF AccountInv
<1>26. NumbersAreKnown'
  <2>1. KnowsNumber(q)'
    BY <1>11, IdleFacts DEF KnowsNumber
  <2>2. ASSUME NEW v \in Accounts, Verifications(v) \ {r} # {}
        PROVE  v \in moved' \/ users'[v].phone = users[v].phone
    <3>1. CASE v = u
      BY <1>6, <1>9, <1>13, <2>2, <3>1
    <3>2. CASE v # u
      BY <1>13, <3>2 DEF Accounts
    <3> QED BY <3>1, <3>2
  <2> QED BY <1>2, <1>9, <1>12, <2>1, <2>2, NumbersStay DEF AccountInv
<1> QED BY <1>18, <1>19, <1>20, <1>21, <1>22, <1>23, <1>24, <1>25, <1>26 DEF AccountInv

-------------------------------------------------------------------------------
(* Subscriptions. *)

LEMMA Shifted ==
    ASSUME NEW n \in Nat, NEW i \in 1..n, NEW j \in 1..(n - 1), ~(j < i)
    PROVE  j - (i - 1) \in 1..(n - i) /\ i + (j - (i - 1)) = j + 1 /\ ~(j <= i - 1)
OBVIOUS

\* A sequence without one of its elements, as SubSeq and \o make it.
Before(a, s, i) == Len(a) = i - 1 /\ \A j \in 1..(i - 1) : a[j] = s[j]

After(b, s, i) == Len(b) = Len(s) - i /\ \A j \in 1..(Len(s) - i) : b[j] = s[i + j]

Without(t, s, i) ==
    /\ \A j \in DOMAIN t : \E k \in DOMAIN s : t[j] = s[k]
    /\ \A k \in DOMAIN s : k # i => \E j \in DOMAIN t : t[j] = s[k]

LEMMA WithoutOne ==
    ASSUME NEW S, NEW s \in Seq(S), NEW i \in DOMAIN s, NEW a \in Seq(S), NEW b \in Seq(S),
           Before(a, s, i), After(b, s, i)
    PROVE  a \o b \in Seq(S) /\ Without(a \o b, s, i)
<1> USE DEF Before, After
<1>1. Len(s) \in Nat /\ DOMAIN s = 1..Len(s) /\ i \in 1..Len(s)
  OBVIOUS
<1>2. PICK t : t = a \o b
  OBVIOUS
<1>3. t \in Seq(S) /\ Len(t) = Len(s) - 1 /\ DOMAIN t = 1..Len(t)
  <2>1. t \in Seq(S) /\ Len(t) = Len(a) + Len(b)
    BY <1>2, ConcatProperties
  <2> QED BY <1>1, <2>1
<1>4. \A j \in 1..(Len(s) - 1) : t[j] = IF j <= i - 1 THEN a[j] ELSE b[j - (i - 1)]
  <2>1. \A j \in 1..(Len(a) + Len(b)) : t[j] = IF j <= Len(a) THEN a[j] ELSE b[j - Len(a)]
    BY <1>2, ConcatProperties
  <2>2. Len(a) + Len(b) = Len(s) - 1
    BY <1>1
  <2> QED BY <2>1, <2>2
<1> DEFINE n == Len(s)
<1>5. n \in Nat /\ i \in 1..n /\ DOMAIN s = 1..n /\ DOMAIN t = 1..(n-1)
  BY <1>1, <1>3
<1>6. ASSUME NEW j \in 1..(n-1)
      PROVE  (j < i => t[j] = s[j]) /\ (~(j < i) => t[j] = s[j + 1])
  <2>1. CASE j < i
    <3>1. j \in 1..(i-1)
      BY <1>5, <2>1
    <3> QED BY <1>4, <1>5, <2>1, <3>1
  <2>2. CASE ~(j < i)
    <3>1. j - (i - 1) \in 1..(n - i) /\ i + (j - (i - 1)) = j + 1 /\ ~(j <= i - 1)
      BY <1>5, <2>2, Shifted
    <3>2. b[j - (i-1)] = s[j+1]
      BY <3>1
    <3> QED BY <1>4, <2>2, <3>1, <3>2
  <2> QED BY <2>1, <2>2
<1>7. ASSUME NEW j \in DOMAIN t PROVE \E k \in DOMAIN s : t[j] = s[k]
  <2>1. j \in DOMAIN s /\ j + 1 \in DOMAIN s /\ j \in 1..(n-1)
    BY <1>5
  <2>2. t[j] = s[j] \/ t[j] = s[j + 1]
    BY <1>6, <2>1
  <2> QED BY <2>1, <2>2
<1>8. ASSUME NEW k \in DOMAIN s, k # i
      PROVE  \E j \in DOMAIN t : t[j] = s[k]
  <2>1. CASE k < i
    <3>1. k \in 1..(n-1)
      BY <1>5, <2>1
    <3> QED BY <1>5, <1>6, <2>1, <3>1
  <2>2. CASE ~(k < i)
    <3>1. k - 1 \in 1..(n-1) /\ ~(k - 1 < i) /\ (k - 1) + 1 = k
      BY <1>5, <1>8, <2>2
    <3> QED BY <1>5, <1>6, <3>1
  <2> QED BY <2>1, <2>2
<1> QED BY <1>2, <1>3, <1>7, <1>8 DEF Without

LEMMA RemovedOne ==
    ASSUME NEW S, NEW s \in Seq(S), NEW i \in DOMAIN s
    PROVE  \E t \in Seq(S) :
              t = SubSeq(s, 1, i - 1) \o SubSeq(s, i + 1, Len(s)) /\ Without(t, s, i)
<1> DEFINE a == SubSeq(s, 1, i - 1)
           b == SubSeq(s, i + 1, Len(s))
<1>1. Len(s) \in Nat /\ DOMAIN s = 1..Len(s) /\ i \in 1..Len(s)
  OBVIOUS
<1>2. a \in Seq(S) /\ Len(a) = i - 1 /\ \A j \in 1..(i - 1) : a[j] = s[j]
  BY <1>1, SubSeqProperties
<1>3. b \in Seq(S) /\ Len(b) = Len(s) - i /\ \A j \in 1..(Len(s) - i) : b[j] = s[i + j]
  <2>1. \A j \in (i+1)..Len(s) : s[j] \in S
    BY <1>1
  <2>2. /\ SubSeq(s, i+1, Len(s)) \in Seq(S)
        /\ Len(b) = IF i + 1 <= Len(s) THEN Len(s) - (i+1) + 1 ELSE 0
        /\ \A j \in 1 .. Len(s) - (i+1) + 1 : b[j] = s[(i+1)+j-1]
    BY <1>1, <2>1, SubSeqProperties
  <2>3. \A j \in 1..(Len(s) - i) : (i+1)+j-1 = i + j
    BY <1>1
  <2>4. Len(s) - (i+1) + 1 = Len(s) - i
    BY <1>1
  <2> QED BY <1>1, <2>2, <2>3, <2>4
<1>4. Before(a, s, i) /\ After(b, s, i)
  BY <1>2, <1>3 DEF Before, After
<1> HIDE DEF a, b
<1>5. a \o b \in Seq(S) /\ Without(a \o b, s, i)
  BY <1>2, <1>3, <1>4, WithoutOne
<1> QED BY <1>5 DEF a, b

\* An event changes no request, and of the rows only the plan.
LEMMA EventStep ==
    ASSUME AccountInv,
           UNCHANGED <<interests, tokens, chosen, mailed, resets, answered, broken, moved, asked,
                       added, mixed, req, requests, failures>>,
           users' \in [Ids -> User \cup {Null}], Accounts' = Accounts,
           \A v \in Accounts :
              /\ users'[v].email = users[v].email /\ users'[v].google = users[v].google
              /\ users'[v].apple = users[v].apple /\ users'[v].verified = users[v].verified
              /\ users'[v].phone = users[v].phone
              /\ "verified" \in putBack[v] => "verified" \in putBack'[v],
           putBack' \in [Ids -> SUBSET Columns], entitled' \in [Ids -> SUBSET {"premium", "gold"}],
           events' \in [Ids -> Seq(Event)], eventCount' \in 0..MaxEvents,
           newest' \in [Ids -> 0..MaxEvents], late' \subseteq Ids,
           LastChangeCounts'
    PROVE  AccountInv'
<1>1. RowsKept
  BY DEF RowsKept
<1>2. AccountTypeOK'
  BY DEF AccountInv, AccountTypeOK
<1>3. RequestsAreSound'
  <2>1. ASSUME NEW s \in Requests PROVE Sound(req[s])' /\ OfItsRow(req[s])'
    <3>1. PICK q \in Request : q = req[s]
      BY DEF AccountInv, AccountTypeOK
    <3>2. Sound(q)' /\ OfItsRow(q)'
      BY <1>1, <3>1, SoundStays DEF AccountInv, RequestsAreSound
    <3>3. req'[s] = q
      BY <3>1
    <3> QED BY <3>2, <3>3 DEF Sound, OfItsRow
  <2> QED BY <2>1 DEF RequestsAreSound
<1>4. RowsAreUnique'
  <2>1. \A v \in Accounts : \A c \in {"email", "phone", "google", "apple"} :
           users'[v][c] = users[v][c]
    BY DEF AccountInv, AccountTypeOK, Accounts, User
  <2>2. \A v \in Accounts : Belongs(users[v]) => Belongs(users'[v])
    BY DEF Belongs
  <2>3. RowsAreUnique
    BY DEF AccountInv
  <2>4. ASSUME NEW v \in Accounts, NEW w \in Accounts,
               NEW c \in {"email", "phone", "google", "apple"},
               users'[v][c] # Null, users'[v][c] = users'[w][c]
        PROVE  v = w
    <3>1. users[v][c] # Null /\ users[v][c] = users[w][c]
      BY <2>1, <2>4
    <3> QED BY <2>3, <3>1 DEF RowsAreUnique
  <2>5. \A v \in Accounts : Belongs(users'[v])
    BY <2>2, <2>3 DEF RowsAreUnique
  <2> QED BY <2>4, <2>5 DEF RowsAreUnique
<1>5. AnswersAreSound'
  BY <1>1, AnswersStay DEF AccountInv
<1>6. RegistrationsAreApart'
  BY DEF AccountInv, RegistrationsAreApart, Registering
<1>7. VerificationGoesOn'
  <2>1. \A v \in mailed : v \in Accounts
    BY DEF AccountInv, AccountTypeOK
  <2>2. \A v \in mailed : Verified(v) => Verified(v)'
    BY <2>1 DEF Verified
  <2>3. \A s \in Requests : req[s].kind = "verify" => req[s].id \in mailed
    BY DEF AccountInv, RequestsAreSound, Sound
  <2>4. ASSUME NEW v \in mailed
        PROVE  \/ Verified(v)' \/ v \in tokens \/ v \in broken \cup moved
               \/ \E s \in Requests : req[s].id = v /\ req[s].kind = "verify" /\ req[s].pc # "consume"
    BY <2>2 DEF AccountInv, VerificationGoesOn, Verified
  <2>5. ASSUME NEW s \in Requests, NEW q, q = req[s], HasVerified(q) PROVE Verified(q.id)'
    <3>1. q.id \in mailed
      BY <2>3, <2>5 DEF HasVerified
    <3>2. Verified(q.id)
      BY <2>5 DEF AccountInv, VerificationGoesOn, Verified, HasVerified
    <3> QED BY <2>2, <3>1, <3>2
  <2>6. ASSUME NEW s \in Requests, HasVerified(req[s]) PROVE Verified(req[s].id)'
    BY <2>5, <2>6
  <2> QED BY <2>4, <2>6 DEF VerificationGoesOn, Verified, HasVerified
<1>8. ChoicesGoOn'
  <2>1. \A v \in Ids : Choosing(v)' = Choosing(v)
    BY DEF Choosing
  <2>2. ASSUME NEW v \in Ids, ChoiceOf(v) PROVE ChoiceOf(v)'
    <3>1. Settled(v)' = Settled(v)
      BY DEF Settled, Wish
    <3> QED BY <2>1, <2>2, <3>1 DEF ChoiceOf
  <2> QED BY <2>2 DEF AccountInv, ChoicesGoOn
<1>9. NumbersAreKnown'
  <2>1. ASSUME NEW s \in Requests, req[s].pc \in {"compare", "write"}
        PROVE  users'[req[s].id].phone = users[req[s].id].phone
    BY <2>1 DEF AccountInv, RequestsAreSound, Sound
  <2> QED BY <2>1 DEF AccountInv, NumbersAreKnown, KnowsNumber
<1> QED BY <1>2, <1>3, <1>4, <1>5, <1>6, <1>7, <1>8, <1>9 DEF AccountInv

LEMMA PendingFacts ==
    ASSUME AccountTypeOK, NEW u \in Ids
    PROVE  /\ Pending(u) \subseteq Event /\ Changes(u) \subseteq Pending(u)
           /\ \A e \in Event : e.n \in Nat
           /\ newest[u] \in Nat /\ eventCount \in Nat
<1>1. events[u] \in Seq(Event)
  BY DEF AccountTypeOK
<1>2. Pending(u) \subseteq Event
  BY <1>1 DEF Pending
<1>3. newest[u] \in Nat /\ eventCount \in Nat
  BY AccountAssumption DEF AccountTypeOK
<1> QED BY <1>2, <1>3 DEF Changes, Event

\* A new event comes last: if it changes the plan, it says what is paid for.
LEMMA NewEventStep ==
    ASSUME AccountInv, NEW u \in Accounts, NEW e \in Event, e.n = eventCount + 1,
           eventCount < MaxEvents, eventCount' = eventCount + 1,
           events' = [events EXCEPT ![u] = Append(@, e)],
           NEW paid \in SUBSET {"premium", "gold"}, entitled' = [entitled EXCEPT ![u] = paid],
           IF e.type = "CANCELLATION" THEN paid = entitled[u] ELSE PlanOf(e) = ResolvePlan(paid),
           UNCHANGED <<tableVars, ghostVars, newest, late, req, requests, failures>>
    PROVE  AccountInv'
<1>1. AccountTypeOK /\ LastChangeCounts /\ u \in Ids
  BY DEF AccountInv, Accounts
<1>2. UNCHANGED <<users, interests, tokens, chosen, mailed, resets, answered, broken, putBack,
                  moved, asked, added, mixed, newest, late, req, requests, failures>>
  BY DEF tableVars, ghostVars
<1>3. Accounts' = Accounts
  BY <1>2 DEF Accounts
<1>4. Pending(u)' = Pending(u) \cup {e}
  <2>1. PICK s \in Seq(Event) : s = events[u]
    BY <1>1 DEF AccountTypeOK
  <2>2. events'[u] = Append(s, e)
    BY <1>1, <2>1 DEF AccountTypeOK
  <2>3. /\ DOMAIN Append(s, e) = 1..(Len(s) + 1) /\ DOMAIN s = 1..Len(s) /\ Len(s) \in Nat
        /\ \A i \in 1..Len(s) : Append(s, e)[i] = s[i]
        /\ Append(s, e)[Len(s) + 1] = e
    OBVIOUS
  <2>4. PICK t : t = Append(s, e)
    OBVIOUS
  <2>5. \A i \in DOMAIN t : i \in DOMAIN s \/ i = Len(s) + 1
    BY <2>3, <2>4
  <2>6. {t[i] : i \in DOMAIN t} = {s[i] : i \in DOMAIN s} \cup {e}
    <3>1. \A i \in DOMAIN s : i \in DOMAIN t /\ t[i] = s[i]
      BY <2>3, <2>4
    <3>2. Len(s) + 1 \in DOMAIN t /\ t[Len(s) + 1] = e
      BY <2>3, <2>4
    <3> QED BY <2>5, <3>1, <3>2
  <2>7. Pending(u) = {s[i] : i \in DOMAIN s}
    BY <2>1 DEF Pending
  <2>8. events'[u] = t
    BY <2>2, <2>4
  <2>9. Pending(u)' = {t[i] : i \in DOMAIN t}
    BY <2>8 DEF Pending
  <2> QED BY <2>6, <2>7, <2>9
<1>5. \A v \in Ids : v # u => events'[v] = events[v] /\ entitled'[v] = entitled[v]
  BY <1>1 DEF AccountTypeOK
<1>6. \A v \in Ids : v # u => Pending(v)' = Pending(v) /\ Changes(v)' = Changes(v)
  BY <1>5 DEF Pending, Changes
<1>7. Changes(u)' = IF e.type = "CANCELLATION" THEN Changes(u) ELSE Changes(u) \cup {e}
  BY <1>4 DEF Changes
<1>8. entitled'[u] = paid
  BY <1>1 DEF AccountTypeOK
<1>9. eventCount \in Nat /\ \A v \in Ids : newest[v] \in Nat /\ \A f \in Pending(v) : f.n \in Nat
  BY <1>1, PendingFacts
<1>10. LastChangeCounts'
  <2>1. ASSUME NEW v \in Ids
        PROVE  newest'[v] <= eventCount' /\ \A f \in Pending(v)' : f.n <= eventCount'
    BY <1>1, <1>2, <1>4, <1>6, <1>9 DEF LastChangeCounts
  <2>2. ASSUME NEW v \in Ids, NEW f \in Changes(v)', f.n >= newest'[v],
               \A g \in Changes(v)' : g.n <= f.n
        PROVE  PlanOf(f) = ResolvePlan(entitled'[v])
    <3>1. CASE v # u
      BY <1>1, <1>2, <1>5, <1>6, <2>2, <3>1 DEF LastChangeCounts
    <3>2. CASE v = u /\ e.type = "CANCELLATION"
      BY <1>1, <1>2, <1>7, <1>8, <2>2, <3>2 DEF LastChangeCounts
    <3>3. CASE v = u /\ e.type # "CANCELLATION"
      <4>1. e \in Changes(u)' /\ eventCount + 1 <= f.n
        BY <1>7, <2>2, <3>3
      <4>2. f \notin Changes(u)
        BY <1>1, <1>9, <4>1 DEF LastChangeCounts, Changes
      <4> QED BY <1>7, <1>8, <2>2, <3>3, <4>2
    <3> QED BY <3>1, <3>2, <3>3
  <2>3. ASSUME NEW v \in Accounts, \A f \in Changes(v)' : f.n <= newest'[v]
        PROVE  \/ users'[v].plan = ResolvePlan(entitled'[v])
               \/ v \in late' \/ "plan" \in putBack'[v]
    <3>1. CASE v # u
      BY <1>1, <1>2, <1>5, <1>6, <2>3, <3>1 DEF LastChangeCounts, Accounts
    <3>2. CASE v = u /\ e.type = "CANCELLATION"
      BY <1>1, <1>2, <1>7, <1>8, <2>3, <3>2 DEF LastChangeCounts
    <3>3. CASE v = u /\ e.type # "CANCELLATION"
      <4>1. eventCount + 1 <= newest[u]
        BY <1>2, <1>7, <2>3, <3>3
      <4> QED BY <1>1, <1>9, <4>1 DEF LastChangeCounts
    <3> QED BY <3>1, <3>2, <3>3
  <2>4. ASSUME NEW v \in Ids, v \notin Accounts PROVE events'[v] = <<>> /\ entitled'[v] = {}
    BY <1>1, <1>5, <2>4 DEF LastChangeCounts
  <2> QED BY <1>3, <2>1, <2>2, <2>3, <2>4 DEF LastChangeCounts
<1>11. /\ events' \in [Ids -> Seq(Event)] /\ entitled' \in [Ids -> SUBSET {"premium", "gold"}]
       /\ eventCount' \in 0..MaxEvents
  <2>1. Append(events[u], e) \in Seq(Event)
    BY <1>1, AppendProperties DEF AccountTypeOK
  <2> QED BY <1>1, <2>1, AccountAssumption DEF AccountTypeOK
<1>12. users' \in [Ids -> User \cup {Null}] /\ putBack' \in [Ids -> SUBSET Columns]
       /\ newest' \in [Ids -> 0..MaxEvents] /\ late' \subseteq Ids
  BY <1>1, <1>2 DEF AccountTypeOK
<1> QED BY <1>2, <1>3, <1>10, <1>11, <1>12, EventStep

LEMMA RevenueCatStep ==
    ASSUME AccountInv, NEW u \in Accounts, Purchase(u) \/ Cancel(u) \/ Expire(u)
    PROVE  AccountInv'
<1>1. eventCount \in Nat /\ eventCount + 1 \in Nat /\ entitled[u] \in SUBSET {"premium", "gold"}
      /\ entitled \in [Ids -> SUBSET {"premium", "gold"}] /\ u \in Ids
  BY AccountAssumption DEF AccountInv, AccountTypeOK, Accounts
<1>2. ASSUME NEW type \in {"ACTIVATE", "DEACTIVATE", "CANCELLATION"},
             NEW paid \in SUBSET {"premium", "gold"}, NewEvent(u, type, paid)
      PROVE  \E e \in Event : /\ e.type = type /\ e.entitlements = paid /\ e.n = eventCount + 1
                              /\ eventCount < MaxEvents /\ eventCount' = eventCount + 1
                              /\ events' = [events EXCEPT ![u] = Append(@, e)]
  <2>1. PICK e : e = [type |-> type, entitlements |-> paid, n |-> eventCount + 1]
    OBVIOUS
  <2>2. e \in Event /\ e.type = type /\ e.entitlements = paid /\ e.n = eventCount + 1
    BY <1>1, <2>1 DEF Event
  <2> QED BY <1>2, <2>1, <2>2 DEF NewEvent
<1>3. CASE Purchase(u)
  <2>1. PICK paid \in SUBSET {"premium", "gold"} :
           NewEvent(u, "ACTIVATE", paid) /\ entitled' = [entitled EXCEPT ![u] = paid]
    BY <1>3 DEF Purchase
  <2>2. PICK e \in Event : /\ e.type = "ACTIVATE" /\ e.entitlements = paid /\ e.n = eventCount + 1
                           /\ eventCount < MaxEvents /\ eventCount' = eventCount + 1
                           /\ events' = [events EXCEPT ![u] = Append(@, e)]
    BY <1>2, <2>1
  <2>3. PlanOf(e) = ResolvePlan(paid) /\ e.type # "CANCELLATION"
    BY <2>2 DEF PlanOf
  <2>4. UNCHANGED <<tableVars, ghostVars, newest, late, req, requests, failures>>
    BY <1>3 DEF Purchase
  <2> QED BY <2>1, <2>2, <2>3, <2>4, NewEventStep
<1>4. CASE Cancel(u)
  <2>1. PICK e \in Event : /\ e.type = "CANCELLATION" /\ e.n = eventCount + 1
                           /\ eventCount < MaxEvents /\ eventCount' = eventCount + 1
                           /\ events' = [events EXCEPT ![u] = Append(@, e)]
    BY <1>1, <1>2, <1>4 DEF Cancel
  <2>2. entitled' = [entitled EXCEPT ![u] = entitled[u]]
    BY <1>1, <1>4 DEF Cancel
  <2>3. UNCHANGED <<tableVars, ghostVars, newest, late, req, requests, failures>>
    BY <1>4 DEF Cancel
  <2> QED BY <1>1, <2>1, <2>2, <2>3, NewEventStep
<1>5. CASE Expire(u)
  <2>1. PICK e \in Event : /\ e.type = "DEACTIVATE" /\ e.n = eventCount + 1
                           /\ eventCount < MaxEvents /\ eventCount' = eventCount + 1
                           /\ events' = [events EXCEPT ![u] = Append(@, e)]
    BY <1>1, <1>2, <1>5 DEF Expire
  <2>2. PICK paid \in SUBSET {"premium", "gold"} : paid = {}
    OBVIOUS
  <2>3. entitled' = [entitled EXCEPT ![u] = paid] /\ PlanOf(e) = ResolvePlan(paid)
        /\ e.type # "CANCELLATION"
    BY <1>5, <2>1, <2>2 DEF Expire, PlanOf, ResolvePlan
  <2>4. UNCHANGED <<tableVars, ghostVars, newest, late, req, requests, failures>>
    BY <1>5 DEF Expire
  <2> QED BY <2>1, <2>3, <2>4, NewEventStep
<1> QED BY <1>3, <1>4, <1>5

\* Pending after an event is delivered, once more or for the last time.
LEMMA DeliveredFacts ==
    ASSUME AccountTypeOK, NEW u \in Ids, NEW i \in DOMAIN events[u], NEW e, e = events[u][i],
           events' \in {events, [events EXCEPT ![u] = SubSeq(@, 1, i - 1) \o SubSeq(@, i + 1, Len(@))]}
    PROVE  /\ events' \in [Ids -> Seq(Event)]
           /\ \A v \in Ids : v # u => events'[v] = events[v]
           /\ Pending(u)' \subseteq Pending(u) /\ Pending(u) \subseteq Pending(u)' \cup {e}
<1>1. PICK s \in Seq(Event) : s = events[u]
  BY DEF AccountTypeOK
<1>2. PICK t \in Seq(Event) :
         t = SubSeq(s, 1, i - 1) \o SubSeq(s, i + 1, Len(s)) /\ Without(t, s, i)
  BY <1>1, RemovedOne
<1>3. CASE events' = events
  <2>1. Pending(u)' = Pending(u)
    BY <1>3 DEF Pending
  <2> QED BY <1>3, <2>1 DEF AccountTypeOK
<1>4. CASE events' = [events EXCEPT ![u] = t]
  <2>1. events'[u] = t
    BY <1>4 DEF AccountTypeOK
  <2>2. Pending(u)' = {t[j] : j \in DOMAIN t}
    BY <2>1 DEF Pending
  <2>3. Pending(u) = {s[j] : j \in DOMAIN s} /\ e = s[i]
    BY <1>1 DEF Pending
  <2>4. /\ {t[j] : j \in DOMAIN t} \subseteq {s[j] : j \in DOMAIN s}
        /\ {s[j] : j \in DOMAIN s} \subseteq {t[j] : j \in DOMAIN t} \cup {s[i]}
    <3>1. \A j \in DOMAIN t : \E k \in DOMAIN s : t[j] = s[k]
      BY <1>2 DEF Without
    <3>2. \A k \in DOMAIN s : k = i \/ \E j \in DOMAIN t : t[j] = s[k]
      BY <1>2 DEF Without
    <3> QED BY <3>1, <3>2
  <2>5. Pending(u)' \subseteq Pending(u) /\ Pending(u) \subseteq Pending(u)' \cup {e}
    BY <2>2, <2>3, <2>4
  <2>6. /\ events' \in [Ids -> Seq(Event)]
        /\ \A v \in Ids : v # u => events'[v] = events[v]
    BY <1>4 DEF AccountTypeOK
  <2> QED BY <2>5, <2>6
<1> QED BY <1>1, <1>2, <1>3, <1>4

\* The plan follows the event, which is the newest change or comes late.
LEMMA HandleEventStep ==
    ASSUME AccountInv, NEW u \in Accounts, HandleEvent(u)
    PROVE  AccountInv'
<1>1. AccountTypeOK /\ LastChangeCounts /\ u \in Ids
  BY DEF AccountInv, Accounts
<1>2. PICK i \in DOMAIN events[u], e \in Pending(u) :
        /\ e = events[u][i]
        /\ events' \in {events, [events EXCEPT ![u] = SubSeq(@, 1, i - 1) \o SubSeq(@, i + 1, Len(@))]}
        /\ users' = [users EXCEPT ![u].plan = PlanAfter(u, e)]
        /\ putBack' = [putBack EXCEPT ![u] = IF e.type = "CANCELLATION" THEN @ ELSE @ \ {"plan"}]
        /\ newest' = [newest EXCEPT ![u] = IF e.type # "CANCELLATION" /\ e.n > @ THEN e.n ELSE @]
        /\ late' = IF e.type = "CANCELLATION" THEN late
                   ELSE IF e.n < newest[u] THEN late \cup {u} ELSE late \ {u}
        /\ UNCHANGED <<interests, tokens, chosen, mailed, resets, entitled, eventCount,
                       answered, broken, moved, asked, added, mixed, req, requests, failures>>
  <2>1. \A i \in DOMAIN events[u] : events[u][i] \in Pending(u)
    BY DEF Pending
  <2> QED BY <2>1 DEF HandleEvent
<1>3. e \in Pending(u)
  OBVIOUS
<1>4. /\ \A v \in Ids : newest[v] \in Nat /\ \A f \in Pending(v) : f \in Event /\ f.n \in Nat
      /\ eventCount \in Nat
  BY <1>1, PendingFacts
<1>5. e \in Event /\ e.n \in Nat /\ e.n <= eventCount /\ eventCount \in 0..MaxEvents
      /\ newest \in [Ids -> 0..MaxEvents] /\ newest[u] \in Nat
  BY <1>1, <1>3, <1>4 DEF LastChangeCounts, AccountTypeOK
<1>6. /\ events' \in [Ids -> Seq(Event)]
      /\ \A v \in Ids : v # u => events'[v] = events[v]
      /\ Pending(u)' \subseteq Pending(u) /\ Pending(u) \subseteq Pending(u)' \cup {e}
  BY <1>1, <1>2, DeliveredFacts
<1>7. \A v \in Ids : v # u => Pending(v)' = Pending(v) /\ Changes(v)' = Changes(v)
  BY <1>6 DEF Pending, Changes
<1>8. /\ \A f \in Changes(u)' : f \in Changes(u)
      /\ \A f \in Changes(u) : f \in Changes(u)' \/ (f = e /\ e.type # "CANCELLATION")
  BY <1>6 DEF Changes
<1>9. PICK plan : plan = PlanAfter(u, e)
  OBVIOUS
<1>10. /\ e.type = "CANCELLATION" => plan = users[u].plan
       /\ e.type # "CANCELLATION" => plan = PlanOf(e)
       /\ plan \in Plans
  <2>1. e.type \in {"ACTIVATE", "DEACTIVATE", "CANCELLATION"}
    BY <1>5 DEF Event
  <2>2. users[u].plan \in Plans
    BY <1>1 DEF AccountTypeOK, Accounts, User
  <2> QED BY <1>9, <2>1, <2>2 DEF PlanAfter, PlanOf, ResolvePlan, Plans
<1>11. PICK row : row = [users[u] EXCEPT !.plan = plan]
  OBVIOUS
<1>12. /\ row \in User /\ row.email = users[u].email /\ row.google = users[u].google
       /\ row.apple = users[u].apple /\ row.verified = users[u].verified /\ row.plan = plan
       /\ row.phone = users[u].phone
  <2>1. users[u] \in User
    BY <1>1 DEF AccountTypeOK, Accounts
  <2> QED BY <1>10, <1>11, <2>1 DEF User
<1>13. /\ users' = [users EXCEPT ![u] = row] /\ users'[u] = row
       /\ \A v \in Ids : v # u => users'[v] = users[v]
  BY <1>1, <1>2, <1>9, <1>11 DEF AccountTypeOK
<1>14. Accounts' = Accounts /\ users' \in [Ids -> User \cup {Null}]
  BY <1>1, <1>12, <1>13, RowAssumption DEF Accounts, AccountTypeOK
<1>15. \A v \in Accounts :
          /\ users'[v].email = users[v].email /\ users'[v].google = users[v].google
          /\ users'[v].apple = users[v].apple /\ users'[v].verified = users[v].verified
          /\ users'[v].phone = users[v].phone
  BY <1>12, <1>13 DEF Accounts
<1>16. /\ putBack' \in [Ids -> SUBSET Columns]
       /\ \A v \in Ids : /\ "verified" \in putBack[v] => "verified" \in putBack'[v]
                         /\ (v # u \/ e.type = "CANCELLATION") => putBack'[v] = putBack[v]
  BY <1>1, <1>2 DEF AccountTypeOK
<1>17. /\ newest' \in [Ids -> 0..MaxEvents] /\ \A v \in Ids : v # u => newest'[v] = newest[v]
       /\ newest'[u] = IF e.type # "CANCELLATION" /\ e.n > newest[u] THEN e.n ELSE newest[u]
  <2>1. e.n \in 0..MaxEvents
    BY <1>5, AccountAssumption
  <2> QED BY <1>1, <1>2, <1>5, <2>1
<1>18. late' \subseteq Ids /\ \A v \in Ids : v # u => (v \in late' <=> v \in late)
  BY <1>1, <1>2 DEF AccountTypeOK
<1>19. LastChangeCounts'
  <2>1. ASSUME NEW v \in Ids
        PROVE  newest'[v] <= eventCount' /\ \A f \in Pending(v)' : f.n <= eventCount'
    <3>1. CASE v # u
      BY <1>1, <1>2, <1>7, <1>17, <3>1 DEF LastChangeCounts
    <3>2. CASE v = u
      BY <1>1, <1>2, <1>5, <1>6, <1>17, <3>2 DEF LastChangeCounts
    <3> QED BY <3>1, <3>2
  <2>2. ASSUME NEW f \in Changes(u)', f.n >= newest'[u], \A g \in Changes(u)' : g.n <= f.n
        PROVE  PlanOf(f) = ResolvePlan(entitled[u])
    <3>1. f \in Changes(u) /\ f.n \in Nat
      <4>1. f \in Changes(u)
        BY <1>8, <2>2
      <4>2. f \in Pending(u)
        BY <4>1 DEF Changes
      <4> QED BY <1>1, <1>4, <4>1, <4>2
    <3>2. f.n >= newest[u] /\ (e.type # "CANCELLATION" => e.n <= f.n)
      <4>1. PICK m \in Nat, n \in Nat, k \in Nat : m = newest[u] /\ n = e.n /\ k = f.n
        BY <1>5, <3>1
      <4>2. k >= IF e.type # "CANCELLATION" /\ n > m THEN n ELSE m
        BY <1>17, <2>2, <4>1
      <4>3. k >= m /\ (e.type # "CANCELLATION" => n <= k)
        BY <4>2
      <4> QED BY <4>1, <4>3
    <3>3. \A g \in Changes(u) : g.n <= f.n
      BY <1>8, <2>2, <3>2
    <3> QED BY <1>1, <3>1, <3>2, <3>3 DEF LastChangeCounts
  <2>3. ASSUME \A f \in Changes(u)' : f.n <= newest'[u]
        PROVE  \/ users'[u].plan = ResolvePlan(entitled[u])
               \/ u \in late' \/ "plan" \in putBack'[u]
    <3>1. CASE e.type = "CANCELLATION"
      <4>1. ASSUME NEW f \in Changes(u) PROVE f.n <= newest[u]
        <5>1. f \in Changes(u)' /\ newest'[u] = newest[u]
          BY <1>8, <1>17, <3>1
        <5> QED BY <2>3, <5>1
      <4>2. \/ users[u].plan = ResolvePlan(entitled[u])
            \/ u \in late \/ "plan" \in putBack[u]
        BY <1>1, <4>1 DEF LastChangeCounts
      <4> QED BY <1>1, <1>2, <1>10, <1>12, <1>13, <1>16, <3>1, <4>2
    <3>2. CASE e.type # "CANCELLATION" /\ e.n < newest[u]
      BY <1>2, <3>2
    <3>3. CASE e.type # "CANCELLATION" /\ ~(e.n < newest[u])
      <4>1. e \in Changes(u) /\ newest'[u] = e.n
        BY <1>3, <1>5, <1>17, <3>3 DEF Changes
      <4>2. \A f \in Changes(u) : f.n <= e.n
        BY <1>5, <1>8, <2>3, <4>1
      <4>3. e.n >= newest[u]
        BY <1>5, <3>3
      <4>4. PlanOf(e) = ResolvePlan(entitled[u])
        BY <1>1, <4>1, <4>2, <4>3 DEF LastChangeCounts
      <4> QED BY <1>10, <1>12, <1>13, <3>3, <4>4
    <3> QED BY <3>1, <3>2, <3>3
  <2>4. ASSUME NEW v \in Ids, v # u
        PROVE  /\ \A f \in Changes(v)' :
                     f.n >= newest'[v] /\ (\A g \in Changes(v)' : g.n <= f.n)
                        => PlanOf(f) = ResolvePlan(entitled'[v])
               /\ v \in Accounts' /\ (\A f \in Changes(v)' : f.n <= newest'[v]) =>
                     \/ users'[v].plan = ResolvePlan(entitled'[v])
                     \/ v \in late' \/ "plan" \in putBack'[v]
               /\ v \notin Accounts' => events'[v] = <<>> /\ entitled'[v] = {}
    BY <1>1, <1>2, <1>6, <1>7, <1>13, <1>14, <1>16, <1>17, <1>18, <2>4 DEF LastChangeCounts
  <2>5. u \in Accounts' /\ UNCHANGED entitled
    BY <1>2, <1>14
  <2> QED BY <2>1, <2>2, <2>3, <2>4, <2>5 DEF LastChangeCounts
<1>20. /\ entitled' \in [Ids -> SUBSET {"premium", "gold"}] /\ eventCount' \in 0..MaxEvents
       /\ UNCHANGED <<interests, tokens, chosen, mailed, resets, answered, broken, moved, asked,
                      added, mixed, req, requests, failures>>
  BY <1>1, <1>2 DEF AccountTypeOK
<1>21. \A v \in Accounts : "verified" \in putBack[v] => "verified" \in putBack'[v]
  BY <1>16 DEF Accounts
<1> QED BY <1>6, <1>14, <1>15, <1>16, <1>17, <1>18, <1>19, <1>20, <1>21, EventStep

-------------------------------------------------------------------------------
(* The theorems. *)

LEMMA NextKeepsInv == AccountInv /\ [AccountNext]_accountVars => AccountInv'
<1> SUFFICES ASSUME AccountInv, [AccountNext]_accountVars PROVE AccountInv'
  OBVIOUS
<1>1. CASE UNCHANGED accountVars
  <2>1. UNCHANGED <<users, interests, tokens, chosen, mailed, resets, answered, broken, putBack,
                    moved, asked, added, mixed, events, entitled, eventCount, newest, late,
                    req, requests, failures>>
    BY <1>1 DEF accountVars, tableVars, eventVars, ghostVars
  <2>2. Accounts' = Accounts /\ \A u \in Ids : Changes(u)' = Changes(u) /\ Pending(u)' = Pending(u)
    BY <2>1 DEF Accounts, Changes, Pending
  <2>3. LastChangeCounts'
    BY <2>1, <2>2 DEF AccountInv, LastChangeCounts
  <2> QED BY <2>1, <2>2, <2>3, EventStep DEF AccountInv, AccountTypeOK
<1>2. ASSUME NEW r \in Requests, SignIn(r) PROVE AccountInv'
  BY <1>2, RegistrationStep, VerifyEmailStep, GoogleStep, AppleStep DEF SignIn
<1>3. ASSUME NEW r \in Requests, Change(r) PROVE AccountInv'
  BY <1>3, ChangeStep, PasswordStep DEF Change
<1>4. ASSUME NEW r \in Requests, RequestStep(r) PROVE AccountInv'
  BY <1>4, InsertUserStep, StoreTokenStep, VerificationEmailStep, ConsumeTokenStep,
     LoadVerifiedStep, AddInterestsStep, CompareStep, WriteStep, RejectedStep,
     ResetStep, LoadResetStep, LinkStep, InsertInterestsStep DEF RequestStep
<1>5. ASSUME NEW r \in Requests, UpdateInterests(r) \/ Fails(r) PROVE AccountInv'
  BY <1>5, UpdateInterestsStep, FailsStep
<1>6. ASSUME NEW u \in Accounts, Subscription(u) PROVE AccountInv'
  BY <1>6, RevenueCatStep, HandleEventStep DEF Subscription
<1>7. ASSUME NEW t \in ResetTokens, ResetExpires(t) PROVE AccountInv'
  BY <1>7, ResetExpiresStep
<1> QED BY <1>1, <1>2, <1>3, <1>4, <1>5, <1>6, <1>7 DEF AccountNext

\* The inductive invariant: requests know what they save, rows are unique, and the
\* verifications, subscriptions and choices that have begun lead where they should.
THEOREM AccountInvHolds == AccountSpec => []AccountInv
<1>1. AccountInit => AccountInv
  BY InitInv
<1>2. AccountInv /\ [AccountNext]_accountVars => AccountInv'
  BY NextKeepsInv
<1> QED BY <1>1, <1>2, PTL DEF AccountSpec

\* A Google user always gets into the same account: by the address, or else by the
\* Google id, there is only one row to get into (googleLogin).
THEOREM SameAccountForGoogleHolds == AccountSpec => []SameAccountForGoogle
<1>1. AccountInv => SameAccountForGoogle
  <2> SUFFICES ASSUME AccountInv, NEW a \in answered, NEW b \in answered, a[1] = b[1]
               PROVE  a[2] = b[2]
    BY DEF SameAccountForGoogle
  <2>1. /\ a[1] \in Googles /\ a[2] \in Accounts /\ b[2] \in Accounts /\ a[1] # Null
    BY AccountAssumption DEF AccountInv, AccountTypeOK
  <2>2. /\ users[a[2]].email = GoogleEmail[a[1]] /\ users[b[2]].email = GoogleEmail[a[1]]
        /\ GoogleEmail[a[1]] = Null => users[a[2]].google = a[1] /\ users[b[2]].google = a[1]
    BY DEF AccountInv, AnswersAreSound
  <2>3. /\ users[a[2]].email # Null /\ users[a[2]].email = users[b[2]].email => a[2] = b[2]
        /\ users[a[2]].google # Null /\ users[a[2]].google = users[b[2]].google => a[2] = b[2]
    BY <2>1 DEF AccountInv, RowsAreUnique
  <2> QED BY <2>1, <2>2, <2>3
<1> QED BY <1>1, AccountInvHolds, PTL

\* However old its entity is, a save is rejected only for a phone number that it writes
\* (updateProfile, or any save that puts an old number back); the save of verifyEmail,
\* whose token is gone by then, only if the user has changed the number meanwhile.
THEOREM OnlyNumbersAreRejectedHolds == AccountSpec => []OnlyNumbersAreRejected
<1>1. AccountInv => OnlyNumbersAreRejected
  BY OnlyNumbers DEF OnlyNumbersAreRejected
<1> QED BY <1>1, AccountInvHolds, PTL

\* Whoever got the mail can verify the address, unless the verification broke off, an
\* older entity was saved over it, or the number it would put back has been changed
\* (verifyEmail).
THEOREM VerificationStaysPossibleHolds == AccountSpec => []VerificationStaysPossible
<1>1. AccountInv => VerificationStaysPossible
  BY DEF AccountInv, VerificationGoesOn, VerificationStaysPossible
<1> QED BY <1>1, AccountInvHolds, PTL

\* Once RevenueCat's events are handled, in any order, a user has the plan that is
\* paid for, unless an event was overtaken or a save put the old plan back.
THEOREM PlanFollowsEventsHolds == AccountSpec => []PlanFollowsEvents
<1>1. AccountInv => PlanFollowsEvents
  <2> SUFFICES ASSUME AccountInv, NEW u \in Accounts, events[u] = <<>>
               PROVE  \/ users[u].plan = ResolvePlan(entitled[u])
                      \/ u \in late \/ "plan" \in putBack[u]
    BY DEF PlanFollowsEvents
  <2>1. Changes(u) = {} /\ u \in Ids
    BY DEF Changes, Pending, Accounts
  <2> QED BY <2>1 DEF AccountInv, LastChangeCounts
<1> QED BY <1>1, AccountInvHolds, PTL

\* A user has the interests asked for and those of the registration, or, where the two
\* overlap, the former, unless two changes of them overlapped or one broke off
\* (updateInterests, verifyEmail).
THEOREM InterestsAreChosenHolds == AccountSpec => []InterestsAreChosen
<1>1. AccountInv => InterestsAreChosen
  <2> SUFFICES ASSUME AccountInv, NEW u \in Accounts, Choosing(u) = {}
               PROVE  Settled(u) \/ u \in mixed \cup broken
    BY DEF InterestsAreChosen, Settled
  <2>1. u \in Ids
    BY DEF Accounts
  <2> QED BY <2>1 DEF AccountInv, ChoicesGoOn, ChoiceOf
<1> QED BY <1>1, AccountInvHolds, PTL
===============================================================================
