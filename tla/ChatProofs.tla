------------------------------ MODULE ChatProofs ------------------------------
(* ChatInv is an invariant of ChatMessages for any number of users, sends and  *)
(* messages; from it follow that nothing is missed, that the keys sent come    *)
(* with their messages, that tokens are kept and that the chat implements      *)
(* MessageLog.                                                                 *)
EXTENDS ChatMessages, FiniteSetTheorems, WellFoundedInduction, TLAPS

-------------------------------------------------------------------------------
(* The oldest of a page, and the millisecond it is cut to. *)

\* A set of natural numbers that is not empty has a least one, which Min finds.
LEMMA MinOfNaturals ==
    ASSUME NEW S \in SUBSET Nat, S # {}
    PROVE  Min(S) \in S /\ \A y \in S : Min(S) <= y
<1> DEFINE R == {ss \in Nat \X Nat : ss[1] < ss[2]}
<1>1. IsWellFoundedOn(R, Nat)
  BY NatLessThanWellFounded DEF OpToRel
<1>2. \A x, y \in Nat : x < y => <<x, y>> \in R
  OBVIOUS
<1> HIDE DEF R
<1>3. PICK x \in S : \A y \in S : ~(<<y, x>> \in R)
  BY <1>1, WFMin
<1>4. ASSUME NEW y \in S PROVE x <= y
  <2>1. ~(y < x)
    BY <1>2, <1>3
  <2> QED BY <2>1
<1> QED BY <1>4 DEF Min

LEMMA MinOfTwo ==
    ASSUME NEW a \in Nat, NEW b \in Nat
    PROVE  Min({a, b}) = IF a <= b THEN a ELSE b
<1>1. \E x \in {a, b} : \A y \in {a, b} : x <= y
  OBVIOUS
<1> QED BY <1>1 DEF Min

\* What lies between a time and its millisecond is of that millisecond.
LEMMA MsFacts ==
    ASSUME NEW t \in Nat
    PROVE  /\ Ms(t) \in Nat /\ Ms(t) <= t
           /\ \A x \in Nat : Ms(t) <= x /\ x <= t => Ms(x) = Ms(t)
<1> DEFINE d == TicksPerMs
           q == t \div d
<1>1. d \in Nat /\ d > 0
  BY ChatAssumption
<1>2. q \in Nat /\ q * d <= t /\ t < (q + 1) * d
  BY <1>1
<1>3. ASSUME NEW x \in Nat, q * d <= x, x <= t PROVE x \div d = q
  BY <1>1, <1>2, <1>3
<1> QED BY <1>1, <1>2, <1>3 DEF Ms

-------------------------------------------------------------------------------
(* When the parts of ChatInv are kept. *)

LEMMA ConstantFacts ==
    /\ \A n \in {MaxTime, MaxMessages, MaxLimit, MaxFailures, MaxCrashes} : n \in Nat
    /\ Idle \in Request /\ Idle.pc = "idle" /\ Idle.msg = 0 /\ Idle.keyed = {}
    /\ NoPush \in Push /\ NoPush.pc = "none"
    /\ NoAnswer.kind = "none" /\ NoAnswer.answer = NoView
    /\ NoView.seen = {} /\ NoView.cursor = MaxTime + 1 /\ NoView.ends = {} /\ NoView.more
    /\ ~NoView.synced
<1>1. MaxTime \in Nat /\ 0 \in 0..MaxTime
  BY ChatAssumption
<1>2. Idle \in Request /\ Idle.pc = "idle" /\ Idle.msg = 0 /\ Idle.keyed = {}
  BY <1>1 DEF Idle, Request
<1>3. NoPush \in Push /\ NoPush.pc = "none"
  BY DEF NoPush, Push
<1> QED BY <1>2, <1>3, ChatAssumption DEF NoAnswer, NoView

\* A function over the domain of a sequence is a sequence of the same length.
LEMMA MappedSeq ==
    ASSUME NEW S, NEW T, NEW q \in Seq(S), NEW f \in [DOMAIN q -> T]
    PROVE  f \in Seq(T) /\ Len(f) = Len(q) /\ DOMAIN f = DOMAIN q
<1>1. DOMAIN q = 1..Len(q) /\ Len(q) \in Nat
  OBVIOUS
<1> QED BY <1>1

\* The parts of ChatInv that are about the clients, and about the tokens.
ClientsInv ==
    ReadersSeeStored /\ ReadersAreJoined /\ NothingIsMissed /\ AnswersAreComplete

TokensInv == PushesAreSound /\ ReceiptsHaveCause /\ TokensAreKept

ColumnsOK ==
    /\ deviceToken \in [Users -> Tokens \cup {Null}]
    /\ wanted \in [Users -> Tokens \cup {Null}]
    /\ registrations \in 0..MaxRegistrations
    /\ loaded \in [Users -> SUBSET (Tokens \cup {Null})]
    /\ receipts \in [Receipt -> 0..MaxPushes]
    /\ absent \cup disturbed \subseteq Users

LEMMA PartsOfInv ==
    ChatInv <=> /\ TypeOK /\ SendsAreSound /\ RoomForInserts /\ StoredHaveKeys
                /\ NotPushedYet /\ PushedIsStored /\ ClientsInv /\ TokensInv
BY DEF ChatInv, ClientsInv, TokensInv

LEMMA NextParts ==
    ASSUME TypeOK', SendsAreSound', RoomForInserts', StoredHaveKeys', NotPushedYet',
           PushedIsStored', ClientsInv', TokensInv'
    PROVE  ChatInv'
BY DEF ChatInv, ClientsInv, TokensInv

LEMMA SlotFacts ==
    ASSUME TypeOK, NEW s \in Senders, NEW q \in Request, req' = [req EXCEPT ![s] = q]
    PROVE  /\ req' \in [Senders -> Request] /\ req'[s] = q
           /\ \A t \in Senders : t # s => req'[t] = req[t]
BY DEF TypeOK

\* What is visible is in the table, and is not the open message of a send.
LEMMA VisibleFacts ==
    /\ \A m \in Visible : m \in DOMAIN msgs /\ msgs[m].state = "committed"
    /\ \A m \in Visible' : m \in DOMAIN msgs' /\ msgs'[m].state = "committed"
    /\ SendsAreSound => \A s \in Senders : Saved(s) => req[s].msg \notin Visible
<1>1. \A m \in Visible : m \in DOMAIN msgs /\ msgs[m].state = "committed"
  BY DEF Visible
<1>2. \A m \in Visible' : m \in DOMAIN msgs' /\ msgs'[m].state = "committed"
  BY DEF Visible
<1> QED BY <1>1, <1>2 DEF SendsAreSound

\* Send s goes on; the messages of the others are left alone.
LEMMA SendsStay ==
    ASSUME SendsAreSound, NEW s \in Senders,
           \A t \in Senders : t # s => req'[t] = req[t],
           \A m \in DOMAIN msgs :
               /\ m \in DOMAIN msgs'
               /\ msgs'[m] = msgs[m] \/ (Saved(s) /\ m = req[s].msg),
           req'[s].pc # "idle" => req'[s].by \in Users,
           req'[s].pc \in {"begin", "insert"} => req'[s].msg = 0,
           Saved(s)' => /\ req'[s].msg \in DOMAIN msgs' /\ msgs'[req'[s].msg].state = "open"
                        /\ msgs'[req'[s].msg].keyed = req'[s].keyed
                        /\ \/ Saved(s) /\ req'[s].msg = req[s].msg
                           \/ req'[s].msg \notin DOMAIN msgs,
           req'[s].pc = "broadcast" => req'[s].msg \in Visible'
    PROVE  SendsAreSound'
<1>1. ASSUME NEW t \in Senders, t # s
      PROVE  /\ req'[t] = req[t]
             /\ Saved(t) => /\ req[t].msg \in DOMAIN msgs'
                            /\ msgs'[req[t].msg] = msgs[req[t].msg]
             /\ req[t].pc = "broadcast" => req[t].msg \in Visible'
  <2>1. Saved(t) => msgs'[req[t].msg] = msgs[req[t].msg]
    BY <1>1 DEF SendsAreSound
  <2>2. req[t].pc = "broadcast" => msgs'[req[t].msg] = msgs[req[t].msg]
    BY VisibleFacts DEF SendsAreSound
  <2> QED BY <1>1, <2>1, <2>2 DEF SendsAreSound, Visible
<1>2. ASSUME NEW t \in Senders
      PROVE  /\ req'[t].pc # "idle" => req'[t].by \in Users
             /\ req'[t].pc \in {"begin", "insert"} => req'[t].msg = 0
             /\ Saved(t)' => /\ req'[t].msg \in DOMAIN msgs'
                             /\ msgs'[req'[t].msg].state = "open"
                             /\ msgs'[req'[t].msg].keyed = req'[t].keyed
             /\ req'[t].pc = "broadcast" => req'[t].msg \in Visible'
  BY <1>1 DEF SendsAreSound, Saved, Unsaved
<1>3. ASSUME NEW t \in Senders, NEW r \in Senders, Saved(t)', Saved(r)',
             req'[t].msg = req'[r].msg
      PROVE  t = r
  <2>1. ASSUME NEW x \in Senders, x # s, Saved(x)'
        PROVE  Saved(x) /\ req'[x].msg = req[x].msg /\ req[x].msg \in DOMAIN msgs
    BY <1>1, <2>1 DEF Saved, SendsAreSound
  <2> QED BY <1>3, <2>1 DEF SendsAreSound
<1> QED BY <1>2, <1>3 DEF SendsAreSound, Unsaved

\* The sends and the messages are left alone.
LEMMA SendsUnchanged ==
    ASSUME SendsAreSound, UNCHANGED <<req, msgs>>
    PROVE  SendsAreSound'
BY DEF SendsAreSound, Saved, Unsaved, Visible

LEMMA RoomStays ==
    ASSUME RoomForInserts, Unsaved' \subseteq Unsaved, Len(msgs') = Len(msgs), TypeOK
    PROVE  RoomForInserts'
<1>1. IsFiniteSet(Unsaved)
  BY ChatAssumption, FS_Subset DEF Unsaved
<1>2. Cardinality(Unsaved') <= Cardinality(Unsaved)
  BY <1>1, FS_Subset
<1>3. IsFiniteSet(Unsaved') /\ Cardinality(Unsaved') \in Nat /\ Cardinality(Unsaved) \in Nat
  BY <1>1, FS_Subset, FS_CardinalityType
<1>4. Len(msgs) \in Nat /\ MaxMessages \in Nat
  BY ConstantFacts DEF TypeOK
<1> QED BY <1>2, <1>3, <1>4 DEF RoomForInserts

\* The same messages are stored, and no send ends that was about to broadcast one.
LEMMA CompleteStays ==
    ASSUME Visible' = Visible, \A m \in Visible : msgs'[m] = msgs[m],
           \A t \in Senders : req[t].pc = "broadcast" => req'[t] = req[t],
           NEW v, Complete(v)
    PROVE  Complete(v)'
<1> SUFFICES ASSUME NEW m \in Visible \ v.seen
             PROVE  \/ v.more /\ msgs'[m].at < v.cursor
                    \/ Ms(msgs'[m].at) \in v.ends
                    \/ \E t \in Senders : req'[t].pc = "broadcast" /\ req'[t].msg = m
  BY DEF Complete, Ms
<1>1. \/ v.more /\ msgs[m].at < v.cursor
      \/ Ms(msgs[m].at) \in v.ends
      \/ \E t \in Senders : req[t].pc = "broadcast" /\ req[t].msg = m
  BY DEF Complete
<1> QED BY <1>1

LEMMA ClientsStay ==
    ASSUME ClientsInv,
           Visible' = Visible, \A m \in Visible : msgs'[m] = msgs[m],
           UNCHANGED <<joined, reader, view>>,
           \A t \in Senders : req[t].pc = "broadcast" => req'[t] = req[t]
    PROVE  ClientsInv'
<1>1. ReadersSeeStored' /\ ReadersAreJoined'
  BY DEF ClientsInv, ReadersSeeStored, ReadersAreJoined
<1>2. ASSUME NEW u \in Users, view'[u].synced PROVE Complete(view[u])'
  <2>1. PICK v : v = view[u]
    OBVIOUS
  <2>2. Complete(v)
    BY <1>2, <2>1 DEF ClientsInv, NothingIsMissed
  <2>3. Complete(v)'
    BY <2>2, CompleteStays
  <2> QED BY <2>1, <2>3 DEF Complete
<1>3. ASSUME NEW u \in Users, reader'[u].kind = "page" PROVE Complete(Answered(u))'
  <2>1. PICK v : v = Answered(u)
    OBVIOUS
  <2>2. Complete(v)
    BY <1>3, <2>1 DEF ClientsInv, AnswersAreComplete
  <2>3. Complete(v)'
    BY <2>2, CompleteStays
  <2>4. Answered(u)' = v
    BY <2>1 DEF Answered
  <2> QED BY <2>3, <2>4 DEF Complete
<1> QED BY <1>1, <1>2, <1>3 DEF ClientsInv, NothingIsMissed, AnswersAreComplete

\* The keys stay, and no message is stored or about to be that was not before.
LEMMA KeysStay ==
    ASSUME StoredHaveKeys, TypeOK, keys' = keys, Visible' \subseteq Visible,
           \A m \in DOMAIN msgs : msgs'[m].keyed = msgs[m].keyed,
           SendsAreSound,
           \A t \in LockHolders' : t \in LockHolders /\ req'[t].msg = req[t].msg
    PROVE  StoredHaveKeys'
<1>1. \A m \in Visible' : m \in DOMAIN msgs
  BY DEF Visible
<1>2. \A t \in LockHolders : req[t].msg \in DOMAIN msgs
  BY DEF LockHolders, SendsAreSound, Saved, InTransaction
<1>3. \A m \in Visible' \cup {req'[t].msg : t \in LockHolders'} :
         m \in DOMAIN msgs /\ \A u \in msgs[m].keyed : <<m, u>> \in keys
  BY <1>1, <1>2 DEF StoredHaveKeys
<1>4. \A k \in keys : k[1] \in DOMAIN msgs /\ k[2] \in msgs[k[1]].keyed
  BY DEF StoredHaveKeys, TypeOK
<1> QED BY <1>3, <1>4 DEF StoredHaveKeys

\* Send s goes on; Expo is told of its message at most.
LEMMA NotPushedStays ==
    ASSUME NotPushedYet, SendsAreSound, NEW s \in Senders,
           \A t \in Senders : t # s => req'[t] = req[t] /\ push'[t] = push[t],
           \A m \in pushed' \ pushed : Saved(s) /\ m = req[s].msg,
           req'[s].pc \in {"touch", "lookup"} => req'[s].msg \notin pushed',
           req'[s].pc = "push" /\ push'[s].pc \notin {"sent", "failed"} =>
               req'[s].msg \notin pushed'
    PROVE  NotPushedYet'
<1>1. ASSUME NEW t \in Senders, t # s, req[t].pc \in {"touch", "lookup", "push"},
             req[t].msg \notin pushed
      PROVE  req[t].msg \notin pushed'
  <2>1. Saved(t)
    BY <1>1 DEF Saved, InTransaction
  <2> QED BY <1>1, <2>1 DEF SendsAreSound
<1> QED BY <1>1 DEF NotPushedYet

LEMMA PushesUnchanged ==
    ASSUME ChatInv, UNCHANGED pushVars
    PROVE  TokensInv'
BY DEF ChatInv, TokensInv, PushesAreSound, ReceiptsHaveCause, TokensAreKept, pushVars, columns

-------------------------------------------------------------------------------
(* The steps. *)

LEMMA InitInv == Init => ChatInv
<1> SUFFICES ASSUME Init PROVE ChatInv
  OBVIOUS
<1>1. /\ msgs = <<>> /\ keys = {} /\ joined = {} /\ cut = {} /\ pushed = {} /\ now = 0
      /\ failures = 0 /\ crashes = 0
      /\ req = [s \in Senders |-> Idle] /\ reader = [u \in Users |-> NoAnswer]
      /\ view = [u \in Users |-> NoView]
      /\ deviceToken = FirstToken /\ wanted = FirstToken /\ registrations = 0
      /\ loaded = [u \in Users |-> {}] /\ absent = {} /\ disturbed = {}
      /\ push = [s \in Senders |-> NoPush] /\ receipts = [x \in Receipt |-> 0]
  BY DEF Init, PushInit
<1>2. \A s \in Senders : req[s].pc = "idle" /\ push[s].pc = "none"
  BY <1>1, ConstantFacts
<1>3. Visible = {} /\ LockHolders = {} /\ Unsaved = {}
  BY <1>1, <1>2 DEF Visible, LockHolders, Unsaved
<1>4. TypeOK
  <2>1. ColumnsOK
    BY <1>1, PushAssumption DEF ColumnsOK
  <2>2. push \in [Senders -> Push] /\ req \in [Senders -> Request]
    BY <1>1, ConstantFacts
  <2>3. NoView \in View
    BY ConstantFacts DEF NoView, View
  <2>4. view \in [Users -> View]
    BY <1>1, <2>3
  <2>5. reader \in [Users -> [kind : {"none", "page", "list"}, answer : View]]
    BY <1>1, <2>3 DEF NoAnswer
  <2>6. /\ msgs \in Seq(Message) /\ Len(msgs) <= MaxMessages /\ now \in 0..MaxTime
        /\ failures \in 0..MaxFailures /\ crashes \in 0..MaxCrashes
    BY <1>1, ConstantFacts
  <2> QED BY <1>1, <2>1, <2>2, <2>4, <2>5, <2>6 DEF TypeOK, ColumnsOK
<1>5. SendsAreSound /\ NotPushedYet
  BY <1>2, <1>3 DEF SendsAreSound, NotPushedYet, Saved, InTransaction
<1>6. RoomForInserts
  BY <1>1, <1>3, ConstantFacts, FS_EmptySet DEF RoomForInserts
<1>7. StoredHaveKeys /\ PushedIsStored
  BY <1>1, <1>3 DEF StoredHaveKeys, PushedIsStored
<1>8. ClientsInv
  BY <1>1, ConstantFacts
     DEF ClientsInv, ReadersSeeStored, ReadersAreJoined, NothingIsMissed, AnswersAreComplete
<1>9. TokensInv
  <2>1. \A t \in Tokens : Gone(t) \in Receipt
    BY DEF Gone, Receipt
  <2>2. PushesAreSound /\ ReceiptsHaveCause
    BY <1>1, <1>2, <2>1 DEF PushesAreSound, ReceiptsHaveCause
  <2>3. TokensAreKept
    BY <1>1 DEF TokensAreKept
  <2> QED BY <2>2, <2>3 DEF TokensInv
<1> QED BY <1>4, <1>5, <1>6, <1>7, <1>8, <1>9, PartsOfInv

\* A step of send s in which the messages and the clients stay as they are.
LEMMA QuietStep ==
    ASSUME ChatInv, NEW s \in Senders, NEW q \in Request, req' = [req EXCEPT ![s] = q],
           req[s].pc # "broadcast", UNCHANGED <<msgs, joined, reader, view>>,
           q.pc # "idle" => q.by \in Users,
           q.pc \in {"begin", "insert"} => q.msg = 0,
           q.pc \notin {"idle", "begin", "insert"} =>
               Saved(s) /\ q.msg = req[s].msg /\ q.keyed = req[s].keyed,
           q.pc # "broadcast"
    PROVE  SendsAreSound' /\ ClientsInv'
<1>1. req'[s] = q /\ \A t \in Senders : t # s => req'[t] = req[t]
  BY SlotFacts DEF ChatInv
<1>2. Saved(s)' => Saved(s) /\ q.msg = req[s].msg /\ q.keyed = req[s].keyed
  BY <1>1 DEF Saved, InTransaction
<1>3. Saved(s) => /\ req[s].msg \in DOMAIN msgs /\ msgs[req[s].msg].state = "open"
                  /\ msgs[req[s].msg].keyed = req[s].keyed
  BY DEF ChatInv, SendsAreSound
<1>4. SendsAreSound'
  BY <1>1, <1>2, <1>3, SendsStay DEF ChatInv
<1>5. Visible' = Visible
  BY DEF Visible
<1> QED BY <1>1, <1>4, <1>5, ClientsStay, PartsOfInv

LEMMA SendStep ==
    ASSUME ChatInv, NEW s \in Senders, NEW u \in Users, SendMessage(s, u)
    PROVE  ChatInv'
<1>0. PICK keyed \in KeySets[u] :
         req' = [req EXCEPT ![s] = [Idle EXCEPT !.pc = "begin", !.by = u, !.keyed = keyed]]
  BY DEF SendMessage, SetRequest
<1> DEFINE q == [Idle EXCEPT !.pc = "begin", !.by = u, !.keyed = keyed]
<1>1. /\ req[s] = Idle /\ Len(msgs) + Cardinality(Unsaved) < MaxMessages
      /\ req' = [req EXCEPT ![s] = q]
      /\ UNCHANGED pushVars
      /\ UNCHANGED <<now, msgs, keys, joined, reader, view, cut, pushed, failures, crashes>>
  BY <1>0 DEF SendMessage, SetRequest
<1>2. q \in Request /\ q.pc = "begin" /\ q.by = u /\ q.msg = 0
  <2>1. keyed \in SUBSET Users
    BY ChatAssumption
  <2> QED BY <2>1, ConstantFacts DEF Idle, Request
<1>3. req[s].pc = "idle"
  BY <1>1, ConstantFacts
<1> HIDE DEF q
<1>4. /\ req' \in [Senders -> Request] /\ req'[s] = q
      /\ \A t \in Senders : t # s => req'[t] = req[t]
  BY <1>1, <1>2, SlotFacts DEF ChatInv
<1>5. SendsAreSound' /\ ClientsInv'
  BY <1>1, <1>2, <1>3, QuietStep
<1>6. TypeOK'
  BY <1>1, <1>4 DEF ChatInv, TypeOK, View, pushVars, columns
<1>7. RoomForInserts'
  <2>1. Unsaved' = Unsaved \cup {s} /\ s \notin Unsaved
    BY <1>2, <1>3, <1>4 DEF Unsaved
  <2>2. IsFiniteSet(Unsaved)
    BY ChatAssumption, FS_Subset DEF Unsaved
  <2>3. Cardinality(Unsaved') = Cardinality(Unsaved) + 1 /\ Cardinality(Unsaved) \in Nat
    BY <2>1, <2>2, FS_AddElement, FS_CardinalityType
  <2> QED BY <1>1, <2>3, ConstantFacts DEF RoomForInserts, ChatInv, TypeOK
<1>8. StoredHaveKeys'
  <2>1. \A t \in LockHolders' : t \in LockHolders /\ req'[t].msg = req[t].msg
    BY <1>2, <1>4 DEF LockHolders
  <2>2. Visible' = Visible
    BY <1>1 DEF Visible
  <2> QED BY <1>1, <2>1, <2>2, KeysStay DEF ChatInv
<1>9. NotPushedYet' /\ PushedIsStored' /\ TokensInv'
  <2>1. NotPushedYet'
    BY <1>1, <1>2, <1>4, NotPushedStays DEF ChatInv, pushVars
  <2>2. PushedIsStored' /\ TokensInv'
    BY <1>1, PushesUnchanged DEF ChatInv, PushedIsStored
  <2> QED BY <2>1, <2>2
<1> QED BY <1>5, <1>6, <1>7, <1>8, <1>9, NextParts

LEMMA BeginStep ==
    ASSUME ChatInv, NEW s \in Senders, Begin(s)
    PROVE  ChatInv'
<1> DEFINE q == [req[s] EXCEPT !.pc = "insert", !.at = now']
<1>1. /\ req[s].pc = "begin" /\ now' \in now..MaxTime /\ req' = [req EXCEPT ![s] = q]
      /\ UNCHANGED pushVars
      /\ UNCHANGED <<msgs, keys, joined, reader, view, cut, pushed, failures, crashes>>
  BY DEF Begin, SetRequest
<1>2. now' \in 0..MaxTime
  BY <1>1 DEF ChatInv, TypeOK
<1>3. req[s] \in Request /\ req[s].by \in Users /\ req[s].msg = 0
  BY <1>1 DEF ChatInv, TypeOK, SendsAreSound, Unsaved
<1>4. q \in Request /\ q.pc = "insert" /\ q.by \in Users /\ q.msg = 0
  BY <1>2, <1>3 DEF Request
<1> HIDE DEF q
<1>5. /\ req' \in [Senders -> Request] /\ req'[s] = q
      /\ \A t \in Senders : t # s => req'[t] = req[t]
  BY <1>1, <1>4, SlotFacts DEF ChatInv
<1>6. SendsAreSound' /\ ClientsInv'
  BY <1>1, <1>4, QuietStep
<1>7. TypeOK'
  BY <1>1, <1>2, <1>5 DEF ChatInv, TypeOK, View, pushVars, columns
<1>8. RoomForInserts'
  <2>1. Unsaved' \subseteq Unsaved
    BY <1>1, <1>5 DEF Unsaved
  <2> QED BY <1>1, <2>1, RoomStays DEF ChatInv
<1>9. StoredHaveKeys'
  <2>1. \A t \in LockHolders' : t \in LockHolders /\ req'[t].msg = req[t].msg
    BY <1>4, <1>5 DEF LockHolders
  <2>2. Visible' = Visible
    BY <1>1 DEF Visible
  <2> QED BY <1>1, <2>1, <2>2, KeysStay DEF ChatInv
<1>10. NotPushedYet' /\ PushedIsStored' /\ TokensInv'
  <2>1. NotPushedYet'
    BY <1>1, <1>4, <1>5, NotPushedStays DEF ChatInv, pushVars
  <2>2. PushedIsStored' /\ TokensInv'
    BY <1>1, PushesUnchanged DEF ChatInv, PushedIsStored
  <2> QED BY <2>1, <2>2
<1> QED BY <1>6, <1>7, <1>8, <1>9, <1>10, NextParts

\* The new message is nobody else's, and nobody was told of it.
LEMMA InsertStep ==
    ASSUME ChatInv, NEW s \in Senders, Insert(s)
    PROVE  ChatInv'
<1> DEFINE e == NewMessage(s)
           n == Len(msgs) + 1
           q == [req[s] EXCEPT !.pc = "touch", !.msg = Len(msgs')]
<1>1. /\ req[s].pc = "insert" /\ msgs' = Append(msgs, e) /\ req' = [req EXCEPT ![s] = q]
      /\ UNCHANGED pushVars
      /\ UNCHANGED <<now, keys, joined, reader, view, cut, pushed, failures, crashes>>
  BY DEF Insert, SetRequest
<1>2. req[s] \in Request /\ req[s].by \in Users /\ msgs \in Seq(Message)
  BY <1>1 DEF ChatInv, TypeOK, SendsAreSound
<1>3. e \in Message /\ e.state = "open" /\ e.keyed = req[s].keyed
  BY <1>2 DEF Message, Request, NewMessage
<1> HIDE DEF e
<1>4. /\ msgs' \in Seq(Message) /\ Len(msgs') = n /\ n \in Nat
      /\ DOMAIN msgs' = DOMAIN msgs \cup {n} /\ n \notin DOMAIN msgs
      /\ \A m \in DOMAIN msgs : msgs'[m] = msgs[m]
      /\ msgs'[n] = e
  BY <1>1, <1>2, <1>3
<1>5. /\ q \in Request /\ q.pc = "touch" /\ q.by \in Users /\ q.msg = n
      /\ q.keyed = req[s].keyed
  BY <1>2, <1>4 DEF Request
<1> HIDE DEF q
<1>6. /\ req' \in [Senders -> Request] /\ req'[s] = q
      /\ \A t \in Senders : t # s => req'[t] = req[t]
  BY <1>1, <1>5, SlotFacts DEF ChatInv
<1>7. RoomForInserts' /\ Len(msgs') <= MaxMessages
  <2>1. Unsaved' = Unsaved \ {s} /\ s \in Unsaved
    BY <1>1, <1>5, <1>6 DEF Unsaved
  <2>2. IsFiniteSet(Unsaved)
    BY ChatAssumption, FS_Subset DEF Unsaved
  <2>3. /\ Cardinality(Unsaved') = Cardinality(Unsaved) - 1 /\ Cardinality(Unsaved) \in Nat
        /\ Cardinality(Unsaved') \in Nat
    BY <2>1, <2>2, FS_RemoveElement, FS_CardinalityType
  <2>4. Len(msgs) + Cardinality(Unsaved) <= MaxMessages /\ MaxMessages \in Nat
        /\ Len(msgs) \in Nat
    BY <1>2, ConstantFacts DEF ChatInv, RoomForInserts
  <2>5. Len(msgs') + Cardinality(Unsaved') <= MaxMessages /\ Len(msgs') <= MaxMessages
    BY <1>4, <2>3, <2>4 DEF n
  <2> QED BY <2>5 DEF RoomForInserts
<1> HIDE DEF n
<1>8. Visible' = Visible
  BY <1>3, <1>4 DEF Visible
<1>9. SendsAreSound'
  <2>1. \A m \in DOMAIN msgs : m \in DOMAIN msgs' /\ msgs'[m] = msgs[m]
    BY <1>4
  <2>2. /\ n \in DOMAIN msgs' /\ msgs'[n].state = "open" /\ n \notin DOMAIN msgs
        /\ msgs'[n].keyed = q.keyed
    BY <1>3, <1>4, <1>5
  <2> QED BY <1>5, <1>6, <2>1, <2>2, SendsStay DEF ChatInv
<1>10. TypeOK'
  <2>1. View \subseteq View'
    BY <1>4 DEF View
  <2>2. keys' \subseteq (DOMAIN msgs') \X Users /\ cut' \cup pushed' \subseteq DOMAIN msgs'
    BY <1>1, <1>4 DEF ChatInv, TypeOK
  <2>3. /\ reader' \in [Users -> [kind : {"none", "page", "list"}, answer : View']]
        /\ view' \in [Users -> View']
    <3> HIDE DEF View
    <3> QED BY <1>1, <2>1 DEF ChatInv, TypeOK
  <2> QED BY <1>1, <1>4, <1>6, <1>7, <2>2, <2>3 DEF ChatInv, TypeOK, pushVars, columns
<1>11. ClientsInv'
  BY <1>1, <1>4, <1>6, <1>8, ClientsStay, VisibleFacts, PartsOfInv
<1>12. StoredHaveKeys'
  <2>1. \A t \in LockHolders' : t \in LockHolders /\ req'[t].msg = req[t].msg
    BY <1>5, <1>6 DEF LockHolders
  <2> QED BY <1>1, <1>8, <2>1, KeysStay DEF ChatInv
<1>13. NotPushedYet' /\ PushedIsStored' /\ TokensInv'
  <2>1. pushed' = pushed /\ pushed \subseteq DOMAIN msgs /\ n \notin pushed
    BY <1>1, <1>4 DEF ChatInv, TypeOK
  <2>2. NotPushedYet'
    BY <1>1, <1>5, <1>6, <2>1, NotPushedStays DEF ChatInv, pushVars
  <2>3. PushedIsStored'
    BY <1>1, <1>4, <2>1 DEF ChatInv, PushedIsStored
  <2> QED BY <1>1, <2>2, <2>3, PushesUnchanged DEF ChatInv
<1> QED BY <1>7, <1>9, <1>10, <1>11, <1>12, <1>13, NextParts

\* A send takes the lock with the keys written.
LEMMA TouchStep ==
    ASSUME ChatInv, NEW s \in Senders, Touch(s)
    PROVE  ChatInv'
<1> DEFINE q == [req[s] EXCEPT !.pc = "lookup"]
<1>1. /\ req[s].pc = "touch" /\ req' = [req EXCEPT ![s] = q]
      /\ keys' = keys \cup {<<req[s].msg, u>> : u \in req[s].keyed}
      /\ UNCHANGED pushVars
      /\ UNCHANGED <<now, msgs, joined, reader, view, cut, pushed, failures, crashes>>
  BY DEF Touch, SetRequest
<1>2. /\ Saved(s) /\ req[s] \in Request /\ req[s].by \in Users /\ req[s].msg \in DOMAIN msgs
      /\ msgs[req[s].msg].keyed = req[s].keyed /\ req[s].keyed \subseteq Users
  BY <1>1 DEF Request, ChatInv, TypeOK, SendsAreSound, Saved, InTransaction
<1>3. /\ q \in Request /\ q.pc = "lookup" /\ q.by \in Users /\ q.msg = req[s].msg
      /\ q.keyed = req[s].keyed
  BY <1>2 DEF Request
<1> HIDE DEF q
<1>4. /\ req' \in [Senders -> Request] /\ req'[s] = q
      /\ \A t \in Senders : t # s => req'[t] = req[t]
  BY <1>1, <1>3, SlotFacts DEF ChatInv
<1>5. SendsAreSound' /\ ClientsInv'
  BY <1>1, <1>2, <1>3, QuietStep
<1>6. TypeOK'
  <2>1. keys' \subseteq (DOMAIN msgs') \X Users
    BY <1>1, <1>2 DEF ChatInv, TypeOK
  <2> QED BY <1>1, <1>4, <2>1 DEF ChatInv, TypeOK, View, pushVars, columns
<1>7. RoomForInserts'
  <2>1. Unsaved' \subseteq Unsaved
    BY <1>3, <1>4 DEF Unsaved
  <2> QED BY <1>1, <2>1, RoomStays DEF ChatInv
<1>8. StoredHaveKeys'
  <2>1. Visible' = Visible
    BY <1>1 DEF Visible
  <2>2. \A t \in LockHolders' : t = s \/ (t \in LockHolders /\ req'[t].msg = req[t].msg)
    BY <1>4 DEF LockHolders
  <2>3. ASSUME NEW t \in LockHolders', NEW u \in msgs[req'[t].msg].keyed
        PROVE  <<req'[t].msg, u>> \in keys'
    <3>1. CASE t = s
      BY <1>1, <1>2, <1>3, <1>4, <2>3, <3>1
    <3>2. CASE t \in LockHolders /\ req'[t].msg = req[t].msg
      BY <1>1, <2>3, <3>2 DEF ChatInv, StoredHaveKeys
    <3> QED BY <2>2, <3>1, <3>2
  <2>4. ASSUME NEW m \in Visible', NEW u \in msgs[m].keyed PROVE <<m, u>> \in keys'
    BY <1>1, <2>1, <2>4 DEF ChatInv, StoredHaveKeys
  <2>5. ASSUME NEW k \in keys' PROVE k[2] \in msgs[k[1]].keyed
    <3>1. CASE k \in keys
      BY <3>1 DEF ChatInv, StoredHaveKeys
    <3>2. CASE k \notin keys
      BY <1>1, <1>2, <2>5, <3>2
    <3> QED BY <3>1, <3>2
  <2> QED BY <1>1, <2>3, <2>4, <2>5 DEF StoredHaveKeys
<1>9. NotPushedYet' /\ PushedIsStored' /\ TokensInv'
  <2>1. req[s].msg \notin pushed
    BY <1>1 DEF ChatInv, NotPushedYet
  <2>2. NotPushedYet'
    BY <1>1, <1>3, <1>4, <2>1, NotPushedStays DEF ChatInv, pushVars
  <2>3. PushedIsStored' /\ TokensInv'
    BY <1>1, PushesUnchanged DEF ChatInv, PushedIsStored
  <2> QED BY <2>2, <2>3
<1> QED BY <1>5, <1>6, <1>7, <1>8, <1>9, NextParts

LEMMA PushSlot ==
    ASSUME TypeOK, NEW s \in Senders, NEW q \in Push, push' = [push EXCEPT ![s] = q]
    PROVE  /\ push' \in [Senders -> Push] /\ push'[s] = q
           /\ \A t \in Senders : t # s => push'[t] = push[t]
BY DEF TypeOK

\* The steps between the lock and the commit: the messages, the clients and the keys
\* stay as they are, and only Expo may be told of the message.
LEMMA LockedStep ==
    ASSUME ChatInv, NEW s \in Senders, s \in LockHolders, NEW q \in Request,
           req' = [req EXCEPT ![s] = q], q.by = req[s].by, q.msg = req[s].msg,
           q.keyed = req[s].keyed, q.pc \in {"lookup", "push", "commit"},
           \A t \in Senders : t # s => push'[t] = push[t],
           push' \in [Senders -> Push], ColumnsOK',
           pushed' = pushed \/ (pushed' = pushed \cup {req[s].msg} /\ q.pc # "lookup"),
           q.pc = "lookup" => req[s].msg \notin pushed,
           q.pc = "push" /\ push'[s].pc \notin {"sent", "failed"} => req[s].msg \notin pushed',
           UNCHANGED <<now, msgs, keys, joined, reader, view, cut, failures, crashes>>,
           TokensInv'
    PROVE  ChatInv'
<1>1. /\ Saved(s) /\ req[s].by \in Users /\ req[s].msg \in DOMAIN msgs
      /\ msgs[req[s].msg].state = "open" /\ req[s].pc \in {"lookup", "push", "commit"}
  BY DEF LockHolders, ChatInv, SendsAreSound, Saved, InTransaction
<1>2. /\ req' \in [Senders -> Request] /\ req'[s] = q
      /\ \A t \in Senders : t # s => req'[t] = req[t]
  BY SlotFacts DEF ChatInv
<1>3. SendsAreSound' /\ ClientsInv'
  BY <1>1, QuietStep
<1>4. TypeOK'
  <2>1. cut' \cup pushed' \subseteq DOMAIN msgs'
    BY <1>1 DEF ChatInv, TypeOK
  <2> QED BY <1>2, <2>1 DEF ChatInv, TypeOK, View, ColumnsOK
<1>5. RoomForInserts'
  <2>1. Unsaved' \subseteq Unsaved
    BY <1>2 DEF Unsaved
  <2> QED BY <2>1, RoomStays DEF ChatInv
<1>6. StoredHaveKeys'
  <2>1. \A t \in LockHolders' : t \in LockHolders /\ req'[t].msg = req[t].msg
    BY <1>2 DEF LockHolders
  <2>2. Visible' = Visible
    BY DEF Visible
  <2> QED BY <2>1, <2>2, KeysStay DEF ChatInv
<1>7. NotPushedYet'
  BY <1>1, <1>2, NotPushedStays DEF ChatInv
<1>8. PushedIsStored'
  BY <1>1 DEF ChatInv, PushedIsStored
<1> QED BY <1>3, <1>4, <1>5, <1>6, <1>7, <1>8, NextParts

\* In all of them the send keeps its row.
LEMMA NextPc ==
    ASSUME ChatInv, NEW s \in Senders, NEW pc \in {"push", "commit"},
           NEW q, q = [req[s] EXCEPT !.pc = pc]
    PROVE  /\ q \in Request /\ q.pc = pc /\ q.by = req[s].by /\ q.msg = req[s].msg
           /\ q.keyed = req[s].keyed
<1>1. req[s] \in Request
  BY DEF ChatInv, TypeOK
<1> QED BY <1>1 DEF Request

\* The columns and the receipts stay, and so do the tokens.
LEMMA ColumnsStay ==
    ASSUME ChatInv, UNCHANGED <<columns, receipts>>
    PROVE  ColumnsOK' /\ ReceiptsHaveCause' /\ TokensAreKept'
<1>1. ColumnsOK'
  BY DEF ColumnsOK, columns, ChatInv, TypeOK
<1>2. ReceiptsHaveCause' /\ TokensAreKept'
  BY DEF columns, ChatInv, ReceiptsHaveCause, TokensAreKept
<1> QED BY <1>1, <1>2

\* A push goes on to where it has a user and, if it is to be removed, an odd token.
LEMMA PushesStay ==
    ASSUME ChatInv, NEW s \in Senders, \A t \in Senders : t # s => push'[t] = push[t],
           push'[s].pc \in {"find", "clear"} => push'[s].user \in Users,
           push'[s].pc = "clear" => push'[s].token \in Tokens \ ExpoTokens
    PROVE  PushesAreSound'
BY DEF ChatInv, PushesAreSound

LEMMA LookUpStep ==
    ASSUME ChatInv, NEW s \in Senders, LookUp(s)
    PROVE  ChatInv'
<1>1. PICK u \in Users : push' = [push EXCEPT ![s] = [NoPush EXCEPT !.pc = "find", !.user = u]]
  BY DEF LookUp, SendPushNotification
<1>2. PICK q : q = [req[s] EXCEPT !.pc = "push"]
  OBVIOUS
<1>3. /\ req[s].pc = "lookup" /\ req' = [req EXCEPT ![s] = q] /\ UNCHANGED <<columns, receipts>>
      /\ UNCHANGED <<now, msgs, keys, joined, reader, view, cut, pushed, failures, crashes>>
  BY <1>2 DEF LookUp, SetRequest
<1> DEFINE x == [NoPush EXCEPT !.pc = "find", !.user = u]
<1>4. x \in Push /\ x.pc = "find" /\ x.user = u
  BY DEF NoPush, Push
<1>5. /\ q \in Request /\ q.pc = "push" /\ q.by = req[s].by /\ q.msg = req[s].msg
      /\ q.keyed = req[s].keyed
  BY <1>2, NextPc
<1> HIDE DEF x
<1>6. /\ push' \in [Senders -> Push] /\ push'[s] = x
      /\ \A t \in Senders : t # s => push'[t] = push[t]
  BY <1>1, <1>4, PushSlot DEF ChatInv, x
<1>7. TokensInv' /\ ColumnsOK'
  <2>1. PushesAreSound'
    BY <1>4, <1>6, PushesStay
  <2> QED BY <1>3, <2>1, ColumnsStay DEF TokensInv
<1>8. s \in LockHolders /\ req[s].msg \notin pushed
  BY <1>3 DEF LockHolders, ChatInv, NotPushedYet
<1> QED BY <1>3, <1>5, <1>6, <1>7, <1>8, LockedStep

LEMMA NotifiedStep ==
    ASSUME ChatInv, NEW s \in Senders, Notified(s)
    PROVE  ChatInv'
<1>1. PICK q : q = [req[s] EXCEPT !.pc = "commit"]
  OBVIOUS
<1>2. /\ req[s].pc = "push" /\ push' = [push EXCEPT ![s] = NoPush]
      /\ req' = [req EXCEPT ![s] = q] /\ UNCHANGED <<columns, receipts>>
      /\ UNCHANGED <<now, msgs, keys, joined, reader, view, cut, pushed, failures, crashes>>
  BY <1>1 DEF Notified, SetRequest
<1>3. /\ q \in Request /\ q.pc = "commit" /\ q.by = req[s].by /\ q.msg = req[s].msg
      /\ q.keyed = req[s].keyed
  BY <1>1, NextPc
<1>4. /\ push' \in [Senders -> Push] /\ push'[s].pc = "none"
      /\ \A t \in Senders : t # s => push'[t] = push[t]
  BY <1>2, ConstantFacts, PushSlot DEF ChatInv
<1>5. TokensInv' /\ ColumnsOK'
  <2>1. PushesAreSound'
    BY <1>4, PushesStay
  <2> QED BY <1>2, <2>1, ColumnsStay DEF TokensInv
<1>6. s \in LockHolders
  BY <1>2 DEF LockHolders
<1> QED BY <1>2, <1>3, <1>4, <1>5, <1>6, LockedStep

\* The UPDATE by the user's id takes an odd token, or one it has not seen.
LEMMA ClearInvalidTokens ==
    ASSUME ChatInv, NEW s \in Senders, ClearInvalid(s)
    PROVE  ColumnsOK' /\ ReceiptsHaveCause' /\ TokensAreKept'
<1> DEFINE u == push[s].user
<1>1. /\ deviceToken' = [deviceToken EXCEPT ![u] = Null]
      /\ disturbed' = IF deviceToken[u] \in {push[s].token, Null} THEN disturbed
                                                                  ELSE disturbed \cup {u}
      /\ UNCHANGED <<registrations, loaded, wanted, absent, receipts>>
  BY DEF ClearInvalid
<1>2. u \in Users /\ push[s].token \in Tokens \ ExpoTokens /\ Null \notin Tokens
  BY PushAssumption DEF ClearInvalid, ChatInv, PushesAreSound
<1> HIDE DEF u
<1>3. deviceToken \in [Users -> Tokens \cup {Null}] /\ absent \cup disturbed \subseteq Users
  BY DEF ChatInv, TypeOK
<1>4. ColumnsOK'
  BY <1>1, <1>2, <1>3 DEF ColumnsOK, ChatInv, TypeOK
<1>5. disturbed \subseteq disturbed'
  BY <1>1
<1>6. ReceiptsHaveCause'
  BY <1>1, <1>5 DEF ChatInv, ReceiptsHaveCause
<1>7. ASSUME NEW v \in Users
      PROVE  \/ deviceToken'[v] = wanted[v]
             \/ v \in disturbed'
             \/ deviceToken'[v] = Null /\ (v \in absent \/ wanted[v] \notin ExpoTokens)
  <2>1. \/ deviceToken[v] = wanted[v]
        \/ v \in disturbed
        \/ deviceToken[v] = Null /\ (v \in absent \/ wanted[v] \notin ExpoTokens)
    BY DEF ChatInv, TokensAreKept
  <2>2. CASE v # u
    BY <1>1, <1>3, <1>5, <2>1, <2>2
  <2>3. CASE v = u
    BY <1>1, <1>2, <1>3, <1>5, <2>1, <2>3
  <2> QED BY <2>2, <2>3
<1> QED BY <1>1, <1>4, <1>6, <1>7 DEF TokensAreKept

\* A bad receipt comes with the users whose token it is.
LEMMA AnswerTokens ==
    ASSUME ChatInv, NEW s \in Senders, ExpoAnswers(s)
    PROVE  ColumnsOK' /\ ReceiptsHaveCause' /\ TokensAreKept'
<1>1. /\ UNCHANGED <<deviceToken, registrations, loaded, wanted, disturbed>>
      /\ receipts \in [Receipt -> 0..MaxPushes] /\ MaxPushes \in Nat
      /\ absent \cup disturbed \subseteq Users
  BY PushAssumption DEF ExpoAnswers, ChatInv, TypeOK
<1>2. CASE UNCHANGED <<receipts, absent>>
  BY <1>1, <1>2, ColumnsStay DEF columns
<1>3. ASSUME NEW x \in Receipt, receipts[x] < MaxPushes,
             receipts' = [receipts EXCEPT ![x] = @ + 1],
             absent' = IF x.status = "ok" THEN absent
                       ELSE absent \cup {u \in Users : wanted[u] = x.token}
      PROVE  ColumnsOK' /\ ReceiptsHaveCause' /\ TokensAreKept'
  <2>1. receipts' \in [Receipt -> 0..MaxPushes]
    <3>1. receipts[x] + 1 \in 0..MaxPushes
      BY <1>1, <1>3
    <3> QED BY <1>1, <1>3, <3>1
  <2>2. absent' \subseteq Users /\ absent \subseteq absent'
    BY <1>1, <1>3
  <2>3. ColumnsOK'
    BY <1>1, <2>1, <2>2 DEF ColumnsOK, ChatInv, TypeOK
  <2>4. TokensAreKept'
    BY <1>1, <2>2 DEF ChatInv, TokensAreKept
  <2>5. ASSUME NEW t \in Tokens, receipts'[Gone(t)] > 0, NEW u \in Users, wanted[u] = t
        PROVE  u \in absent' \cup disturbed
    <3>1. Gone(t) \in Receipt
      BY DEF Gone, Receipt
    <3>2. CASE Gone(t) = x
      BY <1>3, <2>5, <3>2 DEF Gone
    <3>3. CASE Gone(t) # x
      <4>1. receipts[Gone(t)] > 0
        BY <1>1, <1>3, <2>5, <3>1, <3>3
      <4> QED BY <2>2, <2>5, <4>1 DEF ChatInv, ReceiptsHaveCause
    <3> QED BY <3>2, <3>3
  <2> QED BY <1>1, <2>3, <2>4, <2>5 DEF ReceiptsHaveCause
<1> QED BY <1>2, <1>3 DEF ExpoAnswers

\* The steps of sendPushNotification: only a call of Expo counts as a push.
LEMMA NotifyStep ==
    ASSUME ChatInv, NEW s \in Senders, Notify(s)
    PROVE  ChatInv'
<1>1. /\ req[s].pc = "push"
      /\ UNCHANGED <<now, msgs, keys, req, joined, reader, view, cut, failures, crashes>>
  BY DEF Notify
<1>2. /\ req[s] \in Request /\ req' = [req EXCEPT ![s] = req[s]] /\ s \in LockHolders
      /\ push[s] \in Push /\ deviceToken \in [Users -> Tokens \cup {Null}]
  BY <1>1 DEF LockHolders, ChatInv, TypeOK
<1>3. push[s].pc \in {"find", "clear", "send"} => req[s].msg \notin pushed
  BY <1>1 DEF ChatInv, NotPushedYet
<1>4. CASE FindToken(s) /\ UNCHANGED pushed
  <2> DEFINE t == deviceToken[push[s].user]
             x == [push[s] EXCEPT !.token = t,
                                  !.pc = CASE t = Null -> "sent"
                                           [] t \in ExpoTokens -> "send"
                                           [] OTHER -> "clear"]
  <2>1. /\ push[s].pc = "find" /\ UNCHANGED <<columns, receipts>> /\ pushed' = pushed
        /\ push' = [push EXCEPT ![s].token = t,
                                ![s].pc = CASE t = Null -> "sent"
                                            [] t \in ExpoTokens -> "send"
                                            [] OTHER -> "clear"]
    BY <1>4 DEF FindToken
  <2>9. push' = [push EXCEPT ![s] = x]
    <3> HIDE DEF t
    <3> DEFINE c == CASE t = Null -> "sent" [] t \in ExpoTokens -> "send" [] OTHER -> "clear"
    <3>1. x = [push[s] EXCEPT !.token = t, !.pc = c]
      OBVIOUS
    <3>2. push' = [push EXCEPT ![s].token = t, ![s].pc = c]
      BY <2>1
    <3> HIDE DEF c, x
    <3>3. push \in [Senders -> Push]
      BY DEF ChatInv, TypeOK
    <3> QED BY <3>1, <3>2, <3>3 DEF Push
  <2>2. push[s].user \in Users /\ t \in Tokens \cup {Null}
    BY <1>2, <2>1 DEF ChatInv, PushesAreSound
  <2>3. /\ x \in Push /\ x.pc \in {"sent", "send", "clear"} /\ x.user = push[s].user
        /\ x.pc = "clear" => x.token \in Tokens \ ExpoTokens
    <3> HIDE DEF t
    <3> QED BY <1>2, <2>2 DEF Push
  <2> HIDE DEF x, t
  <2>4. /\ push' \in [Senders -> Push] /\ push'[s] = x
        /\ \A r \in Senders : r # s => push'[r] = push[r]
    BY <2>3, <2>9, PushSlot DEF ChatInv
  <2>5. TokensInv' /\ ColumnsOK'
    <3>1. PushesAreSound'
      BY <2>2, <2>3, <2>4, PushesStay
    <3> QED BY <2>1, <3>1, ColumnsStay DEF TokensInv
  <2> QED BY <1>1, <1>2, <1>3, <2>1, <2>4, <2>5, LockedStep
<1>5. CASE ClearInvalid(s) /\ UNCHANGED pushed
  <2> DEFINE x == [push[s] EXCEPT !.pc = "sent"]
  <2>1. push[s].pc = "clear" /\ push' = [push EXCEPT ![s] = x] /\ pushed' = pushed
    BY <1>2, <1>5 DEF ClearInvalid, ChatInv, TypeOK
  <2>2. x \in Push /\ x.pc = "sent"
    BY <1>2 DEF Push
  <2> HIDE DEF x
  <2>3. /\ push' \in [Senders -> Push] /\ push'[s] = x
        /\ \A r \in Senders : r # s => push'[r] = push[r]
    BY <2>1, <2>2, PushSlot DEF ChatInv
  <2>4. PushesAreSound'
    BY <2>2, <2>3, PushesStay
  <2>5. TokensInv' /\ ColumnsOK'
    BY <1>5, <2>4, ClearInvalidTokens DEF TokensInv
  <2> QED BY <1>1, <1>2, <1>3, <2>1, <2>2, <2>3, <2>5, LockedStep
<1>6. CASE ExpoFails(s) /\ pushed' \in {pushed, pushed \cup {req[s].msg}}
  <2> DEFINE x == [push[s] EXCEPT !.pc = "failed"]
  <2>1. /\ push[s].pc = "send" /\ push' = [push EXCEPT ![s] = x]
        /\ UNCHANGED <<columns, receipts>>
    BY <1>6 DEF ExpoFails, ChatInv, TypeOK
  <2>2. x \in Push /\ x.pc = "failed"
    BY <1>2 DEF Push
  <2> HIDE DEF x
  <2>3. /\ push' \in [Senders -> Push] /\ push'[s] = x
        /\ \A r \in Senders : r # s => push'[r] = push[r]
    BY <2>1, <2>2, PushSlot DEF ChatInv
  <2>4. TokensInv' /\ ColumnsOK'
    <3>1. PushesAreSound'
      BY <2>2, <2>3, PushesStay
    <3> QED BY <2>1, <3>1, ColumnsStay DEF TokensInv
  <2> QED BY <1>1, <1>2, <1>6, <2>2, <2>3, <2>4, LockedStep
<1>7. CASE ExpoAnswers(s) /\ pushed' = pushed \cup {req[s].msg}
  <2> DEFINE x == [push[s] EXCEPT !.pc = "sent"]
  <2>1. push[s].pc = "send" /\ push' = [push EXCEPT ![s] = x]
    BY <1>7 DEF ExpoAnswers, ChatInv, TypeOK
  <2>2. x \in Push /\ x.pc = "sent"
    BY <1>2 DEF Push
  <2> HIDE DEF x
  <2>3. /\ push' \in [Senders -> Push] /\ push'[s] = x
        /\ \A r \in Senders : r # s => push'[r] = push[r]
    BY <2>1, <2>2, PushSlot DEF ChatInv
  <2>4. PushesAreSound'
    BY <2>2, <2>3, PushesStay
  <2>5. TokensInv' /\ ColumnsOK'
    BY <1>7, <2>4, AnswerTokens DEF TokensInv
  <2> QED BY <1>1, <1>2, <1>7, <2>2, <2>3, <2>5, LockedStep
<1> QED BY <1>4, <1>5, <1>6, <1>7 DEF Notify

\* The commit stores the message with the keys that came with it; the send is about
\* to broadcast it.
LEMMA CommitStep ==
    ASSUME ChatInv, NEW s \in Senders, Commit(s)
    PROVE  ChatInv'
<1> DEFINE q == [req[s] EXCEPT !.pc = "broadcast"]
           n == req[s].msg
           e == [msgs[n] EXCEPT !.state = "committed"]
<1>1. /\ req[s].pc = "commit" /\ req' = [req EXCEPT ![s] = q]
      /\ msgs' = [msgs EXCEPT ![n].state = "committed"]
      /\ UNCHANGED pushVars
      /\ UNCHANGED <<now, keys, joined, reader, view, cut, pushed, failures, crashes>>
  BY DEF Commit, SetRequest
<1>2. /\ Saved(s) /\ s \in LockHolders /\ req[s] \in Request /\ req[s].by \in Users
      /\ n \in DOMAIN msgs /\ msgs[n].state = "open" /\ msgs \in Seq(Message)
      /\ \A m \in DOMAIN msgs : msgs[m] \in Message
  BY <1>1 DEF ChatInv, TypeOK, SendsAreSound, Saved, InTransaction, LockHolders
<1>3. q \in Request /\ q.pc = "broadcast" /\ q.by \in Users /\ q.msg = n
  BY <1>2 DEF Request
<1>4. e \in Message /\ e.at = msgs[n].at /\ e.state = "committed" /\ e.keyed = msgs[n].keyed
  BY <1>2 DEF Message
<1>5. /\ msgs' \in [DOMAIN msgs -> Message] /\ msgs'[n] = e
      /\ \A m \in DOMAIN msgs : m # n => msgs'[m] = msgs[m]
  BY <1>1, <1>2, <1>4
<1> HIDE DEF q, e
<1>6. /\ msgs' \in Seq(Message) /\ DOMAIN msgs' = DOMAIN msgs /\ Len(msgs') = Len(msgs)
  BY <1>2, <1>5, MappedSeq
<1>7. /\ req' \in [Senders -> Request] /\ req'[s] = q
      /\ \A t \in Senders : t # s => req'[t] = req[t]
  BY <1>1, <1>3, SlotFacts DEF ChatInv
<1>8. Visible' = Visible \cup {n} /\ n \notin Visible
  BY <1>2, <1>4, <1>5, <1>6 DEF Visible
<1>9. SendsAreSound'
  <2>1. ~Saved(s)'
    BY <1>3, <1>7 DEF Saved, InTransaction
  <2> QED BY <1>2, <1>3, <1>5, <1>6, <1>7, <1>8, <2>1, SendsStay DEF ChatInv
<1>10. TypeOK'
  <2>1. View' = View
    BY <1>6 DEF View
  <2> HIDE DEF View
  <2> QED BY <1>1, <1>6, <1>7, <2>1 DEF ChatInv, TypeOK, pushVars, columns
<1>11. RoomForInserts'
  <2>1. Unsaved' \subseteq Unsaved
    BY <1>3, <1>7 DEF Unsaved
  <2> QED BY <1>6, <2>1, RoomStays DEF ChatInv
<1>12. StoredHaveKeys'
  <2>1. \A u \in msgs[n].keyed : <<n, u>> \in keys
    BY <1>2 DEF ChatInv, StoredHaveKeys
  <2>2. \A m \in DOMAIN msgs : msgs'[m].keyed = msgs[m].keyed
    BY <1>4, <1>5
  <2>3. \A t \in LockHolders' :
           t \in LockHolders /\ req'[t].msg = req[t].msg /\ req[t].msg \in DOMAIN msgs
    <3>1. \A t \in LockHolders' : t \in LockHolders /\ req'[t].msg = req[t].msg
      BY <1>3, <1>7 DEF LockHolders
    <3>2. \A t \in LockHolders : req[t].msg \in DOMAIN msgs
      BY DEF LockHolders, ChatInv, SendsAreSound, Saved, InTransaction
    <3> QED BY <3>1, <3>2
  <2>4. ASSUME NEW t \in LockHolders', NEW u \in msgs'[req'[t].msg].keyed
        PROVE  <<req'[t].msg, u>> \in keys
    BY <2>2, <2>3, <2>4 DEF ChatInv, StoredHaveKeys
  <2>5. ASSUME NEW m \in Visible', NEW u \in msgs'[m].keyed PROVE <<m, u>> \in keys
    <3>1. m \in DOMAIN msgs /\ u \in msgs[m].keyed /\ m \in Visible \cup {n}
      BY <1>2, <1>8, <2>2, <2>5 DEF Visible
    <3> QED BY <2>1, <3>1 DEF ChatInv, StoredHaveKeys
  <2>6. ASSUME NEW k \in keys PROVE k[2] \in msgs'[k[1]].keyed
    <3>1. k[1] \in DOMAIN msgs /\ k[2] \in msgs[k[1]].keyed
      BY DEF ChatInv, TypeOK, StoredHaveKeys
    <3> QED BY <2>2, <3>1
  <2> QED BY <1>1, <2>4, <2>5, <2>6 DEF StoredHaveKeys
<1>13. ReadersSeeStored' /\ ReadersAreJoined'
  BY <1>1, <1>8 DEF ChatInv, ReadersSeeStored, ReadersAreJoined
<1>14. NotPushedYet' /\ PushedIsStored' /\ TokensInv'
  <2>1. NotPushedYet'
    BY <1>1, <1>3, <1>7, NotPushedStays DEF ChatInv, pushVars
  <2>2. PushedIsStored'
    BY <1>1, <1>4, <1>5, <1>6 DEF ChatInv, PushedIsStored, TypeOK
  <2> QED BY <1>1, <2>1, <2>2, PushesUnchanged, NextParts, PartsOfInv
<1>15. ASSUME NEW v, Complete(v) PROVE Complete(v)'
  <2> SUFFICES ASSUME NEW m \in Visible' \ v.seen
               PROVE  \/ v.more /\ msgs'[m].at < v.cursor
                      \/ Ms(msgs'[m].at) \in v.ends
                      \/ \E t \in Senders : req'[t].pc = "broadcast" /\ req'[t].msg = m
    BY DEF Complete, Ms
  <2>1. CASE m = n
    BY <1>3, <1>7, <2>1
  <2>2. CASE m # n
    <3>1. m \in Visible \ v.seen /\ msgs'[m] = msgs[m]
      BY <1>5, <1>8, <2>2, VisibleFacts
    <3>2. \/ v.more /\ msgs[m].at < v.cursor
          \/ Ms(msgs[m].at) \in v.ends
          \/ \E t \in Senders : req[t].pc = "broadcast" /\ req[t].msg = m
      BY <1>15, <3>1 DEF Complete
    <3> QED BY <1>1, <1>7, <3>1, <3>2
  <2> QED BY <2>1, <2>2
<1>16. NothingIsMissed' /\ AnswersAreComplete'
  <2>1. ASSUME NEW u \in Users, view'[u].synced PROVE Complete(view[u])'
    <3>1. PICK v : v = view[u]
      OBVIOUS
    <3>2. Complete(v)'
      BY <1>1, <1>15, <2>1, <3>1 DEF ChatInv, NothingIsMissed
    <3> QED BY <1>1, <3>1, <3>2 DEF Complete
  <2>2. ASSUME NEW u \in Users, reader'[u].kind = "page" PROVE Complete(Answered(u))'
    <3>1. PICK v : v = Answered(u)
      OBVIOUS
    <3>2. Complete(v)'
      BY <1>1, <1>15, <2>2, <3>1 DEF ChatInv, AnswersAreComplete
    <3>3. Answered(u)' = v
      BY <1>1, <3>1 DEF Answered
    <3> QED BY <3>2, <3>3 DEF Complete
  <2> QED BY <2>1, <2>2 DEF NothingIsMissed, AnswersAreComplete
<1> QED BY <1>9, <1>10, <1>11, <1>12, <1>13, <1>14, <1>16, NextParts DEF ClientsInv

\* Whoever reads the chat has a socket in the room and gets the message.
LEMMA BroadcastStep ==
    ASSUME ChatInv, NEW s \in Senders, Broadcast(s)
    PROVE  ChatInv'
<1> DEFINE n == req[s].msg
<1>1. /\ req[s].pc = "broadcast" /\ req' = [req EXCEPT ![s] = Idle]
      /\ view' = [u \in Users |-> IF u \in joined THEN [view[u] EXCEPT !.seen = @ \cup {n}]
                                                  ELSE view[u]]
      /\ UNCHANGED pushVars
      /\ UNCHANGED <<now, msgs, keys, joined, reader, cut, pushed, failures, crashes>>
  BY DEF Broadcast, SetRequest
<1>2. n \in Visible /\ n \in DOMAIN msgs /\ ~Saved(s)
  BY <1>1 DEF ChatInv, SendsAreSound, Visible, Saved, InTransaction
<1>3. /\ req' \in [Senders -> Request] /\ req'[s] = Idle
      /\ \A t \in Senders : t # s => req'[t] = req[t]
  BY <1>1, ConstantFacts, SlotFacts DEF ChatInv
<1>4. \A u \in Users :
         /\ view'[u].more = view[u].more /\ view'[u].cursor = view[u].cursor
         /\ view'[u].ends = view[u].ends /\ view'[u].synced = view[u].synced
         /\ view'[u].seen = IF u \in joined THEN view[u].seen \cup {n} ELSE view[u].seen
  BY <1>1 DEF ChatInv, TypeOK
<1>5. view' \in [Users -> View] /\ View' = View
  BY <1>1, <1>2 DEF ChatInv, TypeOK, View
<1>6. TypeOK'
  BY <1>1, <1>3, <1>5 DEF ChatInv, TypeOK, pushVars, columns
<1>7. Visible' = Visible
  BY <1>1 DEF Visible
<1>8. SendsAreSound'
  <2>1. ~Saved(s)' /\ Idle.pc \notin {"begin", "insert", "broadcast"}
    BY <1>3, ConstantFacts DEF Saved, InTransaction
  <2> QED BY <1>1, <1>3, <2>1, ConstantFacts, SendsStay DEF ChatInv
<1>9. RoomForInserts' /\ StoredHaveKeys'
  <2>1. Unsaved' \subseteq Unsaved /\ \A t \in LockHolders' :
            t \in LockHolders /\ req'[t].msg = req[t].msg
    BY <1>3, ConstantFacts DEF Unsaved, LockHolders
  <2> QED BY <1>1, <1>7, <2>1, RoomStays, KeysStay DEF ChatInv
<1>10. NotPushedYet' /\ PushedIsStored' /\ TokensInv'
  <2>1. NotPushedYet'
    BY <1>1, <1>3, ConstantFacts, NotPushedStays DEF ChatInv, pushVars
  <2>2. PushedIsStored'
    BY <1>1 DEF ChatInv, PushedIsStored
  <2> QED BY <1>1, <2>1, <2>2, PushesUnchanged, NextParts, PartsOfInv
<1>11. ReadersSeeStored' /\ ReadersAreJoined'
  BY <1>1, <1>4, <1>7 DEF ChatInv, ReadersSeeStored, ReadersAreJoined
<1>12. ASSUME NEW v, NEW w, Complete(v), w.seen = v.seen \cup {n}, w.more = v.more,
              w.cursor = v.cursor, w.ends = v.ends
       PROVE  Complete(w)'
  <2> SUFFICES ASSUME NEW m \in Visible' \ w.seen
               PROVE  \/ w.more /\ msgs'[m].at < w.cursor
                      \/ Ms(msgs'[m].at) \in w.ends
                      \/ \E t \in Senders : req'[t].pc = "broadcast" /\ req'[t].msg = m
    BY DEF Complete, Ms
  <2>1. m \in Visible \ v.seen /\ m # n
    BY <1>7, <1>12
  <2>2. \/ v.more /\ msgs[m].at < v.cursor
        \/ Ms(msgs[m].at) \in v.ends
        \/ \E t \in Senders : req[t].pc = "broadcast" /\ req[t].msg = m
    BY <1>12, <2>1 DEF Complete
  <2> QED BY <1>1, <1>3, <1>12, <2>1, <2>2
<1>13. NothingIsMissed' /\ AnswersAreComplete'
  <2>1. ASSUME NEW u \in Users, view'[u].synced PROVE Complete(view[u])'
    <3>1. PICK v, w : v = view[u] /\ w = view'[u]
      OBVIOUS
    <3>2. u \in joined /\ Complete(v)
      BY <1>4, <2>1, <3>1 DEF ChatInv, ReadersAreJoined, NothingIsMissed
    <3>3. Complete(w)'
      BY <1>4, <1>12, <3>1, <3>2
    <3> QED BY <3>1, <3>3 DEF Complete
  <2>2. ASSUME NEW u \in Users, reader'[u].kind = "page" PROVE Complete(Answered(u))'
    <3>1. PICK v, w : v = Answered(u) /\ w = Answered(u)'
      OBVIOUS
    <3>2. u \in joined /\ Complete(v)
      BY <1>1, <2>2, <3>1 DEF ChatInv, ReadersAreJoined, AnswersAreComplete
    <3>3. reader[u].answer \in View
      BY DEF ChatInv, TypeOK
    <3>4. /\ w.seen = v.seen \cup {n} /\ w.more = v.more /\ w.cursor = v.cursor
          /\ w.ends = v.ends
      <4>1. PICK a : a = reader[u].answer
        OBVIOUS
      <4>2. a \in View /\ v = [a EXCEPT !.seen = @ \cup view[u].seen]
        BY <3>1, <3>3, <4>1 DEF Answered
      <4>3. w = [a EXCEPT !.seen = @ \cup view'[u].seen]
        BY <1>1, <3>1, <4>1 DEF Answered
      <4>4. view'[u].seen = view[u].seen \cup {n}
        BY <1>4, <3>2
      <4> HIDE DEF n
      <4> QED BY <4>2, <4>3, <4>4 DEF View
    <3>5. Complete(w)'
      BY <1>12, <3>2, <3>4
    <3> QED BY <3>1, <3>5 DEF Complete
  <2> QED BY <2>1, <2>2 DEF NothingIsMissed, AnswersAreComplete
<1> QED BY <1>6, <1>8, <1>9, <1>10, <1>11, <1>13, NextParts DEF ClientsInv

\* A transaction that is taken back takes its message and its keys, and nobody was
\* told of the message unless the transaction was cut.
LEMMA RollbackStep ==
    ASSUME ChatInv, NEW s \in Senders, req[s].pc \in InTransaction, Rollback(s),
           cut \subseteq cut', cut' \subseteq DOMAIN msgs, req[s].msg \in pushed => req[s].msg \in cut',
           failures' \in 0..MaxFailures
    PROVE  ChatInv'
<1> DEFINE n == req[s].msg
<1>1. /\ msgs' = [m \in DOMAIN msgs |-> IF m = n THEN [msgs[m] EXCEPT !.state = "undone"]
                                                 ELSE msgs[m]]
      /\ keys' = {k \in keys : k[1] # n}
      /\ push' = [push EXCEPT ![s] = NoPush] /\ req' = [req EXCEPT ![s] = Idle]
      /\ UNCHANGED <<columns, receipts, now, joined, reader, view, pushed, crashes>>
  BY DEF Rollback, SetRequest
<1>2. /\ msgs \in Seq(Message) /\ \A m \in DOMAIN msgs : msgs[m] \in Message
      /\ req[s].pc # "broadcast"
  BY DEF ChatInv, TypeOK, InTransaction
<1>3. n \in DOMAIN msgs => Saved(s) /\ msgs[n].state = "open"
  BY <1>2 DEF ChatInv, SendsAreSound, Saved, InTransaction, Unsaved
<1>4. /\ msgs' \in [DOMAIN msgs -> Message]
      /\ \A m \in DOMAIN msgs :
            IF m = n THEN msgs'[m].state = "undone" /\ msgs'[m].keyed = msgs[m].keyed
                     ELSE msgs'[m] = msgs[m]
  BY <1>1, <1>2 DEF Message
<1>5. msgs' \in Seq(Message) /\ DOMAIN msgs' = DOMAIN msgs /\ Len(msgs') = Len(msgs)
  BY <1>2, <1>4, MappedSeq
<1>6. /\ req' \in [Senders -> Request] /\ req'[s] = Idle
      /\ \A t \in Senders : t # s => req'[t] = req[t]
  BY <1>1, ConstantFacts, SlotFacts DEF ChatInv
<1>7. /\ push' \in [Senders -> Push] /\ push'[s] = NoPush
      /\ \A t \in Senders : t # s => push'[t] = push[t]
  BY <1>1, ConstantFacts, PushSlot DEF ChatInv
<1>8. n \notin Visible /\ Visible' = Visible
  BY <1>3, <1>4, <1>5 DEF Visible
<1>9. TypeOK'
  <2>1. keys' \subseteq (DOMAIN msgs') \X Users /\ cut' \cup pushed' \subseteq DOMAIN msgs'
    BY <1>1, <1>5 DEF ChatInv, TypeOK
  <2>2. View' = View
    BY <1>5 DEF View
  <2> HIDE DEF View
  <2> QED BY <1>1, <1>5, <1>6, <1>7, <2>1, <2>2 DEF ChatInv, TypeOK, columns
<1>10. SendsAreSound'
  <2>1. ~Saved(s)' /\ Idle.pc \notin {"begin", "insert", "broadcast"}
    BY <1>6, ConstantFacts DEF Saved, InTransaction
  <2>2. \A m \in DOMAIN msgs : m \in DOMAIN msgs' /\ (msgs'[m] = msgs[m] \/ (Saved(s) /\ m = n))
    BY <1>3, <1>4, <1>5
  <2> QED BY <1>6, <2>1, <2>2, ConstantFacts, SendsStay DEF ChatInv
<1>11. RoomForInserts'
  <2>1. Unsaved' \subseteq Unsaved
    BY <1>6, ConstantFacts DEF Unsaved
  <2> QED BY <1>5, <2>1, RoomStays DEF ChatInv
<1>12. StoredHaveKeys'
  <2>1. \A m \in DOMAIN msgs : msgs'[m].keyed = msgs[m].keyed
    BY <1>4
  <2>2. ASSUME NEW t \in LockHolders'
        PROVE  /\ t \in LockHolders /\ req'[t].msg = req[t].msg
               /\ req[t].msg \in DOMAIN msgs /\ req[t].msg # n
    <3>1. t # s /\ t \in LockHolders /\ req'[t].msg = req[t].msg /\ t \in Senders
      BY <1>6, ConstantFacts DEF LockHolders
    <3>2. Saved(t) /\ req[t].msg \in DOMAIN msgs
      BY <3>1 DEF LockHolders, Saved, InTransaction, ChatInv, SendsAreSound
    <3>3. req[t].msg # n
      BY <1>3, <3>1, <3>2 DEF ChatInv, SendsAreSound
    <3> QED BY <3>1, <3>2, <3>3
  <2>3. ASSUME NEW t \in LockHolders', NEW u \in msgs'[req'[t].msg].keyed
        PROVE  <<req'[t].msg, u>> \in keys'
    <3>1. <<req[t].msg, u>> \in keys
      BY <2>1, <2>2, <2>3 DEF ChatInv, StoredHaveKeys
    <3> QED BY <1>1, <2>2, <3>1
  <2>4. ASSUME NEW m \in Visible', NEW u \in msgs'[m].keyed PROVE <<m, u>> \in keys'
    <3>1. m \in Visible /\ m # n /\ m \in DOMAIN msgs
      BY <1>8, VisibleFacts
    <3>2. <<m, u>> \in keys
      BY <2>1, <2>4, <3>1 DEF ChatInv, StoredHaveKeys
    <3> QED BY <1>1, <3>1, <3>2
  <2>5. ASSUME NEW k \in keys' PROVE k[2] \in msgs'[k[1]].keyed
    <3>1. k \in keys
      BY <1>1
    <3>2. k[1] \in DOMAIN msgs /\ k[2] \in msgs[k[1]].keyed
      BY <3>1 DEF ChatInv, TypeOK, StoredHaveKeys
    <3> QED BY <2>1, <3>2
  <2> QED BY <2>3, <2>4, <2>5 DEF StoredHaveKeys
<1>13. ClientsInv'
  <2>1. \A m \in Visible : msgs'[m] = msgs[m]
    BY <1>4, <1>8, VisibleFacts
  <2> QED BY <1>1, <1>2, <1>6, <1>8, <2>1, ClientsStay, PartsOfInv
<1>14. NotPushedYet' /\ TokensInv'
  <2>1. NotPushedYet'
    BY <1>1, <1>6, <1>7, ConstantFacts, NotPushedStays DEF ChatInv
  <2>2. PushesAreSound'
    BY <1>7, ConstantFacts, PushesStay
  <2> QED BY <1>1, <2>1, <2>2, ColumnsStay DEF TokensInv
<1>15. PushedIsStored'
  BY <1>1, <1>4, <1>5 DEF ChatInv, PushedIsStored, TypeOK
<1> QED BY <1>9, <1>10, <1>11, <1>12, <1>13, <1>14, <1>15, NextParts

LEMMA PushRollbackStep ==
    ASSUME ChatInv, NEW s \in Senders, PushRollback(s)
    PROVE  ChatInv'
<1>1. /\ req[s].pc = "push" /\ Rollback(s) /\ cut' = cut \cup {req[s].msg}
      /\ UNCHANGED failures
  BY DEF PushRollback
<1>2. req[s].pc \in InTransaction /\ Saved(s)
  BY <1>1 DEF InTransaction, Saved
<1>3. cut' \subseteq DOMAIN msgs /\ failures' \in 0..MaxFailures
  BY <1>1, <1>2 DEF ChatInv, TypeOK, SendsAreSound
<1> QED BY <1>1, <1>2, <1>3, RollbackStep

LEMMA DatabaseErrorStep ==
    ASSUME ChatInv, NEW s \in Senders, DatabaseError(s)
    PROVE  ChatInv'
<1>1. /\ failures < MaxFailures /\ failures' = failures + 1 /\ Rollback(s)
      /\ \/ req[s].pc \in {"insert", "touch", "lookup", "commit"}
         \/ req[s].pc = "push" /\ push[s].pc \in {"find", "clear"}
      /\ cut' = IF req[s].pc = "commit" THEN cut \cup {req[s].msg} ELSE cut
  BY DEF DatabaseError
<1>2. req[s].pc \in InTransaction
  BY <1>1 DEF InTransaction
<1>3. failures' \in 0..MaxFailures
  BY <1>1, ConstantFacts DEF ChatInv, TypeOK
<1>4. cut \subseteq cut' /\ cut' \subseteq DOMAIN msgs
  <2>1. cut \subseteq DOMAIN msgs /\ (req[s].pc = "commit" => req[s].msg \in DOMAIN msgs)
    BY DEF ChatInv, TypeOK, SendsAreSound, Saved, InTransaction
  <2> QED BY <1>1, <2>1
<1>5. req[s].msg \in pushed => req[s].msg \in cut'
  <2>1. CASE req[s].pc = "insert"
    <3>1. req[s].msg = 0 /\ pushed \subseteq DOMAIN msgs /\ msgs \in Seq(Message)
      BY <2>1 DEF ChatInv, SendsAreSound, Unsaved, TypeOK
    <3> QED BY <3>1
  <2>2. CASE req[s].pc # "insert"
    BY <1>1, <2>2 DEF ChatInv, NotPushedYet
  <2> QED BY <2>1, <2>2
<1> QED BY <1>1, <1>2, <1>3, <1>4, <1>5, RollbackStep

-------------------------------------------------------------------------------
(* The clients. *)

LEMMA VisibleTimes ==
    ASSUME ChatInv
    PROVE  \A m \in Visible : m \in DOMAIN msgs /\ msgs[m].at \in 0..MaxTime
<1>1. msgs \in Seq(Message)
  BY DEF ChatInv, TypeOK
<1>2. \A m \in DOMAIN msgs : msgs[m] \in Message
  BY <1>1
<1> QED BY <1>2, VisibleFacts DEF Message

\* A page leaves messages out only when there are more than the limit, and then it
\* has an oldest one, which is no older than any of those.
LEMMA PageFacts ==
    ASSUME ChatInv, NEW page, NEW c \in Nat, NEW limit \in Nat \ {0}, IsPage(page, c, limit)
    PROVE  LET found == {m \in Visible : msgs[m].at < c}
               more == Cardinality(found) > limit
           IN  /\ page \subseteq Visible
               /\ found \ page # {} => more
               /\ more => /\ Oldest(page) \in 0..MaxTime
                          /\ \A n \in found \ page : msgs[n].at <= Oldest(page)
<1> DEFINE found == {m \in Visible : msgs[m].at < c}
           ages == {msgs[m].at : m \in page}
<1>1. /\ page \subseteq found /\ Cardinality(page) = Min({limit, Cardinality(found)})
      /\ \A m \in page : \A n \in found \ page : msgs[m].at >= msgs[n].at
  BY DEF IsPage
<1>2. found \subseteq Visible /\ Visible \subseteq 1..Len(msgs) /\ Len(msgs) \in Nat
  BY DEF ChatInv, TypeOK, Visible
<1>3. \A m \in Visible : msgs[m].at \in 0..MaxTime
  BY VisibleTimes
<1> HIDE DEF found
<1>4. IsFiniteSet(found)
  <2>1. IsFiniteSet(1..Len(msgs))
    BY <1>2, FS_Interval
  <2> QED BY <1>2, <2>1, FS_Subset
<1>5. /\ IsFiniteSet(page) /\ Cardinality(page) \in Nat /\ Cardinality(found) \in Nat
      /\ Cardinality(found) = Cardinality(page) => found = page
  BY <1>1, <1>4, FS_Subset, FS_CardinalityType
<1>6. ASSUME ~(Cardinality(found) > limit) PROVE found \ page = {}
  <2>1. Cardinality(page) = Cardinality(found)
    BY <1>1, <1>5, <1>6, MinOfTwo
  <2> QED BY <1>5, <2>1
<1>7. ASSUME Cardinality(found) > limit
      PROVE  /\ Oldest(page) \in 0..MaxTime
             /\ \A n \in found \ page : msgs[n].at <= Oldest(page)
  <2>1. Cardinality(page) = limit
    BY <1>1, <1>5, <1>7, MinOfTwo
  <2>2. page # {}
    BY <2>1, FS_EmptySet
  <2>3. ages \subseteq 0..MaxTime /\ ages # {}
    BY <1>1, <1>2, <1>3, <2>2
  <2>4. Min(ages) \in ages
    <3>1. ages \in SUBSET Nat
      BY <2>3
    <3> HIDE DEF ages
    <3> QED BY <2>3, <3>1, MinOfNaturals
  <2>5. PICK m \in page : msgs[m].at = Oldest(page)
    BY <2>4 DEF Oldest
  <2> QED BY <1>1, <2>3, <2>4, <2>5 DEF Oldest
<1> QED BY <1>1, <1>2, <1>6, <1>7 DEF found

\* What the steps of the clients have in common.
LEMMA ClientStepInv ==
    ASSUME ChatInv, UNCHANGED pushVars,
           UNCHANGED <<now, msgs, keys, req, cut, pushed, failures, crashes>>,
           joined' \subseteq Users,
           reader' \in [Users -> [kind : {"none", "page", "list"}, answer : View]],
           view' \in [Users -> View],
           ClientsInv'
    PROVE  ChatInv'
<1>1. TypeOK'
  <2>1. View' = View
    BY DEF View
  <2> HIDE DEF View
  <2> QED BY <2>1 DEF ChatInv, TypeOK, pushVars, columns
<1>2. SendsAreSound' /\ RoomForInserts'
  BY SendsUnchanged DEF ChatInv, RoomForInserts, Unsaved
<1>3. StoredHaveKeys'
  BY DEF ChatInv, StoredHaveKeys, Visible, LockHolders
<1>4. NotPushedYet' /\ PushedIsStored'
  BY DEF ChatInv, NotPushedYet, PushedIsStored, pushVars
<1> QED BY <1>1, <1>2, <1>3, <1>4, PushesUnchanged, NextParts, PartsOfInv

\* Clients leave the messages alone, and what was complete stays so.
LEMMA ClientsKeepMessages ==
    ASSUME UNCHANGED <<msgs, req>>
    PROVE  Visible' = Visible /\ \A v : Complete(v) => Complete(v)'
<1>1. Visible' = Visible
  BY DEF Visible
<1>2. ASSUME NEW v, Complete(v) PROVE Complete(v)'
  BY <1>1, <1>2, CompleteStays
<1> QED BY <1>1, <1>2

\* Client u is left with w, and the request it has under way with a; nothing changes
\* for the others.
LEMMA ClientGoesOn ==
    ASSUME ChatInv, NEW u \in Users, UNCHANGED pushVars,
           UNCHANGED <<now, msgs, keys, req, cut, pushed, failures, crashes>>,
           joined' \subseteq Users, \A v \in Users : v # u => (v \in joined' <=> v \in joined),
           NEW w \in View, view' = [view EXCEPT ![u] = w],
           NEW a \in [kind : {"none", "page", "list"}, answer : View],
           reader' = [reader EXCEPT ![u] = a],
           IF w.synced THEN u \in joined' ELSE w.cursor = MaxTime + 1,
           a.kind = "page" => u \in joined' /\ a.answer.synced,
           a.answer.seen \subseteq Visible,
           w.synced => Complete(w),
           a.kind = "page" => Complete([a.answer EXCEPT !.seen = @ \cup w.seen])
    PROVE  ChatInv'
<1>1. /\ view' \in [Users -> View] /\ view'[u] = w
      /\ reader' \in [Users -> [kind : {"none", "page", "list"}, answer : View]]
      /\ reader'[u] = a
      /\ \A v \in Users : v # u => view'[v] = view[v] /\ reader'[v] = reader[v]
  BY DEF ChatInv, TypeOK
<1>2. Visible' = Visible /\ \A v : Complete(v) => Complete(v)'
  BY ClientsKeepMessages
<1>3. ReadersSeeStored' /\ ReadersAreJoined'
  BY <1>1, <1>2 DEF ChatInv, ReadersSeeStored, ReadersAreJoined
<1>4. ASSUME NEW v \in Users, view'[v].synced PROVE Complete(view[v])'
  <2>1. PICK x : x = view'[v]
    OBVIOUS
  <2>2. Complete(x)
    BY <1>1, <1>4, <2>1 DEF ChatInv, NothingIsMissed
  <2>3. Complete(x)'
    BY <1>2, <2>2
  <2> QED BY <2>1, <2>3 DEF Complete
<1>5. ASSUME NEW v \in Users, reader'[v].kind = "page" PROVE Complete(Answered(v))'
  <2>1. PICK x : x = Answered(v)'
    OBVIOUS
  <2>2. Complete(x)
    <3>1. CASE v = u
      BY <1>1, <1>5, <2>1, <3>1 DEF Answered
    <3>2. CASE v # u
      <4>1. x = Answered(v)
        BY <1>1, <2>1, <3>2 DEF Answered
      <4> QED BY <1>1, <1>5, <3>2, <4>1 DEF ChatInv, AnswersAreComplete
    <3> QED BY <3>1, <3>2
  <2>3. Complete(x)'
    BY <1>2, <2>2
  <2> QED BY <2>1, <2>3 DEF Complete
<1>6. ClientsInv'
  BY <1>3, <1>4, <1>5 DEF ClientsInv, NothingIsMissed, AnswersAreComplete
<1> QED BY <1>1, <1>6, ClientStepInv

\* What clients have and wait for.
LEMMA ClientFacts ==
    ASSUME ChatInv, NEW u \in Users
    PROVE  /\ view = [view EXCEPT ![u] = view[u]] /\ reader = [reader EXCEPT ![u] = reader[u]]
           /\ view[u] \in View
           /\ reader[u] \in [kind : {"none", "page", "list"}, answer : View]
           /\ IF view[u].synced THEN u \in joined ELSE view[u].cursor = MaxTime + 1
           /\ reader[u].kind = "page" => u \in joined /\ reader[u].answer.synced
           /\ reader[u].answer.seen \subseteq Visible
           /\ view[u].synced => Complete(view[u])
           /\ reader[u].kind = "page" => Complete(Answered(u))
           /\ NoView \in View /\ NoAnswer \in [kind : {"none", "page", "list"}, answer : View]
           /\ joined \subseteq Users
<1>1. NoView \in View /\ NoAnswer \in [kind : {"none", "page", "list"}, answer : View]
  BY ConstantFacts DEF NoView, NoAnswer, View
<1>2. /\ view \in [Users -> View] /\ joined \subseteq Users
      /\ reader \in [Users -> [kind : {"none", "page", "list"}, answer : View]]
  BY DEF ChatInv, TypeOK
<1>3. /\ IF view[u].synced THEN u \in joined ELSE view[u].cursor = MaxTime + 1
      /\ reader[u].kind = "page" => u \in joined /\ reader[u].answer.synced
      /\ reader[u].answer.seen \subseteq Visible
  BY DEF ChatInv, ReadersAreJoined, ReadersSeeStored
<1>4. /\ view[u].synced => Complete(view[u])
      /\ reader[u].kind = "page" => Complete(Answered(u))
  BY DEF ChatInv, NothingIsMissed, AnswersAreComplete
<1> QED BY <1>1, <1>2, <1>3, <1>4

LEMMA JoinStep ==
    ASSUME ChatInv, NEW u \in Users, HandleJoinRoom(u)
    PROVE  ChatInv'
<1>1. /\ joined' = joined \cup {u} /\ UNCHANGED pushVars
      /\ UNCHANGED <<now, msgs, keys, req, reader, view, cut, pushed, failures, crashes>>
  BY DEF HandleJoinRoom
<1>2. PICK w, a : w = view[u] /\ a = reader[u]
  OBVIOUS
<1>3. Answered(u) = [a.answer EXCEPT !.seen = @ \cup w.seen]
  BY <1>2 DEF Answered
<1> QED BY <1>1, <1>2, <1>3, ClientFacts, ClientGoesOn

LEMMA LeaveStep ==
    ASSUME ChatInv, NEW u \in Users, HandleLeaveRoom(u)
    PROVE  ChatInv'
<1>1. /\ joined' = joined \ {u} /\ UNCHANGED pushVars
      /\ view' = [view EXCEPT ![u] = NoView] /\ reader' = [reader EXCEPT ![u] = NoAnswer]
      /\ UNCHANGED <<now, msgs, keys, req, cut, pushed, failures, crashes>>
  BY DEF HandleLeaveRoom
<1> QED BY <1>1, ConstantFacts, ClientFacts, ClientGoesOn

\* The first query of the list: what it found is stored.
LEMMA RoomsStep ==
    ASSUME ChatInv, NEW u \in Users, GetRoomsWithLastMessage(u)
    PROVE  ChatInv'
<1>1. /\ UNCHANGED pushVars
      /\ UNCHANGED <<now, msgs, keys, req, joined, view, cut, pushed, failures, crashes>>
  BY DEF GetRoomsWithLastMessage
<1>2. PICK page \in SUBSET Visible :
         reader' = [reader EXCEPT ![u] =
             [kind |-> "list", answer |-> [NoView EXCEPT !.seen = page]]]
  BY DEF GetRoomsWithLastMessage
<1>3. PICK w, a : w = view[u] /\ a = [kind |-> "list", answer |-> [NoView EXCEPT !.seen = page]]
  OBVIOUS
<1>4. page \subseteq DOMAIN msgs
  BY DEF Visible
<1>5. /\ a \in [kind : {"none", "page", "list"}, answer : View]
      /\ a.kind = "list" /\ a.answer.seen = page
  <2>1. PICK z : z = [NoView EXCEPT !.seen = page]
    OBVIOUS
  <2>2. NoView \in View
    BY ConstantFacts DEF NoView, View
  <2>3. z \in View /\ z.seen = page
    BY <1>4, <2>1, <2>2 DEF View
  <2>4. a = [kind |-> "list", answer |-> z]
    BY <1>3, <2>1
  <2> HIDE DEF View
  <2> QED BY <2>3, <2>4
<1> QED BY <1>1, <1>2, <1>3, <1>5, ClientFacts, ClientGoesOn

\* The client gets the answer, or the request fails.
LEMMA KeysStep ==
    ASSUME ChatInv, NEW u \in Users, GetKeys(u) \/ GetKeysFails(u)
    PROVE  ChatInv'
<1>1. /\ UNCHANGED pushVars
      /\ UNCHANGED <<now, msgs, keys, req, joined, cut, pushed, failures, crashes>>
      /\ reader' = [reader EXCEPT ![u] = NoAnswer]
  BY DEF GetKeys, GetKeysFails
<1>2. CASE UNCHANGED view
  <2>1. PICK w : w = view[u]
    OBVIOUS
  <2> QED BY <1>1, <1>2, <2>1, ConstantFacts, ClientFacts, ClientGoesOn
<1>3. CASE reader[u].kind = "page" /\ view' = [view EXCEPT ![u] = Answered(u)]
  <2>1. PICK w : w = Answered(u)
    OBVIOUS
  <2>2. w \in View /\ w.synced = reader[u].answer.synced
    BY <2>1, ClientFacts DEF Answered, View
  <2> QED BY <1>1, <1>3, <2>1, <2>2, ConstantFacts, ClientFacts, ClientGoesOn
<1> QED BY <1>2, <1>3 DEF GetKeys, GetKeysFails

\* getMessages: a message that was neither on this page nor on an earlier one is
\* older than the new cursor, or it is of the millisecond at which a page ended.
LEMMA GetMessagesStep ==
    ASSUME ChatInv, NEW u \in Users, GetMessages(u)
    PROVE  ChatInv'
<1> DEFINE c == view[u].cursor
           found == {m \in Visible : msgs[m].at < c}
<1>1. /\ u \in joined /\ view[u].more /\ UNCHANGED pushVars
      /\ UNCHANGED <<now, msgs, keys, req, joined, view, cut, pushed, failures, crashes>>
  BY DEF GetMessages
<1>2. PICK limit \in 1..MaxLimit, page \in SUBSET Visible :
         LET more == Cardinality(found) > limit
         IN  /\ IsPage(page, c, limit)
             /\ reader' = [reader EXCEPT ![u] = [kind |-> "page", answer |->
                   [seen |-> page, more |-> more, synced |-> TRUE,
                    cursor |-> IF more THEN NextCursor(page, c) ELSE 0,
                    ends |-> IF more THEN view[u].ends \cup {Ms(Oldest(page))}
                                     ELSE view[u].ends]]]
  BY DEF GetMessages
<1> DEFINE more == Cardinality(found) > limit
           o == Oldest(page)
           v == [seen |-> page, more |-> more, synced |-> TRUE,
                 cursor |-> IF more THEN Ms(o) ELSE 0,
                 ends |-> IF more THEN view[u].ends \cup {Ms(o)} ELSE view[u].ends]
<1>3. /\ IsPage(page, c, limit)
      /\ reader' = [reader EXCEPT ![u] = [kind |-> "page", answer |-> v]]
  BY <1>2 DEF NextCursor
<1>4. c \in Nat /\ limit \in Nat \ {0} /\ MaxTime \in Nat /\ view[u] \in View
  BY ConstantFacts DEF ChatInv, TypeOK, View
<1>5. /\ found \ page # {} => more
      /\ more => o \in 0..MaxTime /\ \A n \in found \ page : msgs[n].at <= o
  BY <1>3, <1>4, PageFacts
<1>6. \A m \in Visible : m \in DOMAIN msgs /\ msgs[m].at \in 0..MaxTime
  BY VisibleTimes
<1>7. more => /\ Ms(o) \in 0..MaxTime
              /\ \A x \in 0..MaxTime : Ms(o) <= x /\ x <= o => Ms(x) = Ms(o)
  BY <1>4, <1>5, MsFacts
<1>8. /\ v \in View /\ v.seen = page /\ (v.more <=> more) /\ v.synced
      /\ more => v.cursor = Ms(o) /\ v.ends = view[u].ends \cup {Ms(o)}
      /\ view[u].ends \subseteq v.ends
  <2>1. page \subseteq DOMAIN msgs
    BY <1>6
  <2>2. more \in BOOLEAN
    OBVIOUS
  <2> HIDE DEF more, o
  <2> QED BY <1>4, <1>7, <2>1, <2>2 DEF View
<1> HIDE DEF v, found, more, o
<1>9. PICK w : w = [v EXCEPT !.seen = @ \cup view[u].seen]
  OBVIOUS
<1>10. /\ w.seen = page \cup view[u].seen /\ w.more = v.more /\ w.cursor = v.cursor
       /\ w.ends = v.ends
  BY <1>8, <1>9 DEF View
<1>11. ASSUME NEW m \in Visible \ w.seen
       PROVE  \/ w.more /\ msgs[m].at < w.cursor
              \/ Ms(msgs[m].at) \in w.ends
              \/ \E t \in Senders : req[t].pc = "broadcast" /\ req[t].msg = m
  <2>1. m \in Visible /\ m \notin view[u].seen /\ m \notin page
    BY <1>10, <1>11
  <2>2. CASE m \in found
    <3>1. more /\ msgs[m].at <= o /\ o \in 0..MaxTime /\ msgs[m].at \in 0..MaxTime
      BY <1>5, <1>6, <2>1, <2>2
    <3>2. CASE msgs[m].at < Ms(o)
      BY <1>8, <1>10, <3>1, <3>2
    <3>3. CASE Ms(o) <= msgs[m].at
      <4>1. Ms(msgs[m].at) = Ms(o)
        BY <1>7, <3>1, <3>3
      <4> QED BY <1>8, <1>10, <3>1, <4>1
    <3> QED BY <1>7, <3>1, <3>2, <3>3
  <2>3. CASE m \notin found
    <3>1. ~(msgs[m].at < c)
      BY <2>1, <2>3 DEF found
    <3>2. view[u].synced
      <4>1. c # MaxTime + 1
        BY <1>4, <1>6, <2>1, <3>1
      <4> QED BY <4>1 DEF ChatInv, ReadersAreJoined
    <3>3. Ms(msgs[m].at) \in view[u].ends
             \/ \E t \in Senders : req[t].pc = "broadcast" /\ req[t].msg = m
      BY <2>1, <3>1, <3>2 DEF ChatInv, NothingIsMissed, Complete
    <3> QED BY <1>8, <1>10, <3>3
  <2> QED BY <2>2, <2>3
<1>12. Complete(w)
  BY <1>11 DEF Complete
<1>13. PICK a, x : a = [kind |-> "page", answer |-> v] /\ x = view[u]
  OBVIOUS
<1>14. /\ a \in [kind : {"none", "page", "list"}, answer : View]
       /\ a.kind = "page" /\ a.answer = v
  BY <1>8, <1>13
<1> QED BY <1>1, <1>3, <1>8, <1>9, <1>12, <1>13, <1>14, ClientFacts, ClientGoesOn

-------------------------------------------------------------------------------
(* Devices, receipts, crashes. *)

\* A registration, a save, a receipt: the tokens are kept, or it is recorded why not.
LEMMA SetTokenStep ==
    ASSUME ChatInv, NEW u \in Users, NEW t \in Tokens \cup {Null}, SetToken(u, t)
    PROVE  ColumnsOK' /\ TokensInv'
<1>1. /\ registrations < MaxRegistrations /\ registrations' = registrations + 1
      /\ deviceToken' = [deviceToken EXCEPT ![u] = t] /\ wanted' = [wanted EXCEPT ![u] = t]
      /\ absent' = absent \ {u}
      /\ disturbed' = IF t # Null /\ receipts[Gone(t)] > 0 THEN disturbed \cup {u}
                                                           ELSE disturbed \ {u}
      /\ UNCHANGED <<loaded, push, receipts>>
  BY DEF SetToken
<1>2. /\ deviceToken \in [Users -> Tokens \cup {Null}] /\ wanted \in [Users -> Tokens \cup {Null}]
      /\ registrations \in 0..MaxRegistrations /\ MaxRegistrations \in Nat
      /\ absent \cup disturbed \subseteq Users /\ Null \notin Tokens
  BY PushAssumption DEF ChatInv, TypeOK
<1>3. ColumnsOK'
  BY <1>1, <1>2 DEF ColumnsOK, ChatInv, TypeOK
<1>4. PushesAreSound'
  BY <1>1 DEF ChatInv, PushesAreSound
<1>5. \A v \in Users : v # u => /\ deviceToken'[v] = deviceToken[v] /\ wanted'[v] = wanted[v]
                              /\ (v \in absent') = (v \in absent)
                              /\ (v \in disturbed') = (v \in disturbed)
  BY <1>1, <1>2
<1>6. TokensAreKept'
  <2>1. deviceToken'[u] = wanted'[u]
    BY <1>1, <1>2
  <2> QED BY <1>5, <2>1 DEF ChatInv, TokensAreKept
<1>7. ASSUME NEW r \in Tokens, receipts[Gone(r)] > 0, NEW v \in Users, wanted'[v] = r
      PROVE  v \in absent' \cup disturbed'
  <2>1. CASE v = u
    BY <1>1, <1>2, <1>7, <2>1
  <2>2. CASE v # u
    BY <1>5, <1>7, <2>2 DEF ChatInv, ReceiptsHaveCause
  <2> QED BY <2>1, <2>2
<1>8. ReceiptsHaveCause'
  BY <1>1, <1>7 DEF ReceiptsHaveCause, Gone
<1> QED BY <1>3, <1>4, <1>6, <1>8 DEF TokensInv

LEMMA SaveStep ==
    ASSUME ChatInv, NEW u \in Users, LoadUser(u) \/ SaveUser(u)
    PROVE  ColumnsOK' /\ TokensInv'
<1>1. /\ deviceToken \in [Users -> Tokens \cup {Null}]
      /\ loaded \in [Users -> SUBSET (Tokens \cup {Null})]
      /\ absent \cup disturbed \subseteq Users
  BY DEF ChatInv, TypeOK
<1>2. /\ UNCHANGED <<registrations, wanted, absent, push, receipts>>
      /\ disturbed \subseteq disturbed' /\ disturbed' \subseteq Users
      /\ deviceToken' \in [Users -> Tokens \cup {Null}]
      /\ loaded' \in [Users -> SUBSET (Tokens \cup {Null})]
      /\ \A v \in Users : deviceToken'[v] = deviceToken[v] \/ v \in disturbed'
  <2>1. CASE LoadUser(u)
    BY <1>1, <2>1 DEF LoadUser
  <2>2. CASE SaveUser(u)
    BY <1>1, <2>2 DEF SaveUser
  <2> QED BY <2>1, <2>2
<1>3. ColumnsOK'
  BY <1>2 DEF ColumnsOK, ChatInv, TypeOK
<1>4. PushesAreSound' /\ ReceiptsHaveCause'
  BY <1>2 DEF ChatInv, PushesAreSound, ReceiptsHaveCause
<1>5. TokensAreKept'
  BY <1>2 DEF ChatInv, TokensAreKept
<1> QED BY <1>3, <1>4, <1>5 DEF TokensInv

\* A bad receipt takes a token only from users whose device is gone, or who are excused.
LEMMA ReceiptStep ==
    ASSUME ChatInv, NEW x \in Receipt, CheckReceipts(x)
    PROVE  ColumnsOK' /\ TokensInv'
<1>1. /\ receipts[x] > 0 /\ receipts' = [receipts EXCEPT ![x] = @ - 1]
      /\ deviceToken' \in {deviceToken, ClearToken(x)}
      /\ UNCHANGED <<registrations, loaded, wanted, absent, disturbed, push>>
  BY DEF CheckReceipts
<1>2. /\ deviceToken \in [Users -> Tokens \cup {Null}]
      /\ receipts \in [Receipt -> 0..MaxPushes] /\ MaxPushes \in Nat
      /\ x.token \in Tokens /\ Null \notin Tokens
  BY PushAssumption DEF ChatInv, TypeOK, Receipt
<1>3. receipts' \in [Receipt -> 0..MaxPushes] /\ \A y \in Receipt : receipts'[y] <= receipts[y]
  <2>1. receipts[x] - 1 \in 0..MaxPushes
    BY <1>1, <1>2
  <2> QED BY <1>1, <1>2, <2>1
<1>4. ColumnsOK'
  <2>1. deviceToken' \in [Users -> Tokens \cup {Null}]
    BY <1>1, <1>2 DEF ClearToken
  <2> QED BY <1>1, <1>3, <2>1 DEF ColumnsOK, ChatInv, TypeOK
<1>5. PushesAreSound'
  BY <1>1 DEF ChatInv, PushesAreSound
<1>6. ReceiptsHaveCause'
  <2>1. \A t \in Tokens : Gone(t) \in Receipt
    BY DEF Gone, Receipt
  <2>2. \A t \in Tokens : receipts'[Gone(t)] > 0 => receipts[Gone(t)] > 0
    BY <1>2, <1>3, <2>1
  <2> QED BY <1>1, <2>2 DEF ChatInv, ReceiptsHaveCause, Gone
<1>7. ASSUME NEW v \in Users
      PROVE  \/ deviceToken'[v] = wanted[v]
             \/ v \in disturbed
             \/ deviceToken'[v] = Null /\ (v \in absent \/ wanted[v] \notin ExpoTokens)
  <2>1. \/ deviceToken[v] = wanted[v]
        \/ v \in disturbed
        \/ deviceToken[v] = Null /\ (v \in absent \/ wanted[v] \notin ExpoTokens)
    BY DEF ChatInv, TokensAreKept
  <2>2. CASE deviceToken'[v] = deviceToken[v]
    BY <2>1, <2>2
  <2>3. CASE deviceToken'[v] # deviceToken[v]
    <3>1. deviceToken[v] = x.token /\ x = Gone(x.token) /\ deviceToken'[v] = Null
      BY <1>1, <2>3 DEF ClearToken, Receipt, Gone
    <3>2. wanted[v] = x.token => v \in absent \cup disturbed
      BY <1>1, <1>2, <3>1 DEF ChatInv, ReceiptsHaveCause
    <3> QED BY <1>2, <2>1, <3>1, <3>2
  <2> QED BY <2>2, <2>3
<1>8. TokensAreKept'
  BY <1>1, <1>7 DEF TokensAreKept
<1> QED BY <1>4, <1>5, <1>6, <1>8 DEF TokensInv

LEMMA PushStepInv ==
    ASSUME ChatInv, PushStep
    PROVE  ChatInv'
<1>1. ColumnsOK' /\ TokensInv' /\ UNCHANGED push
  <2>1. ASSUME NEW u \in Users, RegisterDeviceToken(u) \/ RemoveDeviceToken(u)
        PROVE  ColumnsOK' /\ TokensInv' /\ UNCHANGED push
    <3>1. PICK t \in Tokens \cup {Null} : SetToken(u, t)
      BY <2>1, PushAssumption DEF RegisterDeviceToken, RemoveDeviceToken
    <3> QED BY <3>1, SetTokenStep DEF SetToken
  <2>2. ASSUME NEW u \in Users, LoadUser(u) \/ SaveUser(u)
        PROVE  ColumnsOK' /\ TokensInv' /\ UNCHANGED push
    BY <2>2, SaveStep DEF LoadUser, SaveUser
  <2>3. ASSUME NEW x \in Receipt, CheckReceipts(x)
        PROVE  ColumnsOK' /\ TokensInv' /\ UNCHANGED push
    BY <2>3, ReceiptStep DEF CheckReceipts
  <2> QED BY <2>1, <2>2, <2>3 DEF PushStep, DeviceStep
<1>2. UNCHANGED <<now, msgs, keys, req, joined, reader, view, cut, pushed, failures, crashes>>
  BY DEF PushStep, chatVars
<1>3. TypeOK'
  <2>1. View' = View
    BY <1>2 DEF View
  <2> HIDE DEF View
  <2> QED BY <1>1, <1>2, <2>1 DEF ChatInv, TypeOK, ColumnsOK
<1>4. SendsAreSound' /\ RoomForInserts'
  BY <1>2, SendsUnchanged DEF ChatInv, RoomForInserts, Unsaved
<1>5. StoredHaveKeys' /\ NotPushedYet' /\ PushedIsStored'
  BY <1>1, <1>2 DEF ChatInv, StoredHaveKeys, Visible, LockHolders, NotPushedYet, PushedIsStored
<1>6. ClientsInv'
  <2>1. Visible' = Visible
    BY <1>2 DEF Visible
  <2> QED BY <1>2, <2>1, ClientsStay, PartsOfInv
<1> QED BY <1>1, <1>3, <1>4, <1>5, <1>6, NextParts, PartsOfInv

\* A crash cuts every transaction that is open, and what was stored stays.
LEMMA CrashEffects ==
    ASSUME ChatInv, Crash
    PROVE  /\ msgs' \in Seq(Message) /\ DOMAIN msgs' = DOMAIN msgs /\ Len(msgs') = Len(msgs)
           /\ \A m \in DOMAIN msgs :
                 /\ msgs'[m].keyed = msgs[m].keyed
                 /\ IF msgs[m].state = "open" THEN msgs'[m].state = "undone"
                                             ELSE msgs'[m] = msgs[m]
           /\ Visible' = Visible
<1>1. msgs' = [m \in DOMAIN msgs |-> IF msgs[m].state = "open"
                                     THEN [msgs[m] EXCEPT !.state = "undone"] ELSE msgs[m]]
  BY DEF Crash
<1>2. msgs \in Seq(Message) /\ \A m \in DOMAIN msgs : msgs[m] \in Message
  BY DEF ChatInv, TypeOK
<1>3. /\ msgs' \in [DOMAIN msgs -> Message]
      /\ \A m \in DOMAIN msgs :
            /\ msgs'[m].keyed = msgs[m].keyed
            /\ IF msgs[m].state = "open" THEN msgs'[m].state = "undone"
                                        ELSE msgs'[m] = msgs[m]
  BY <1>1, <1>2 DEF Message
<1>4. msgs' \in Seq(Message) /\ DOMAIN msgs' = DOMAIN msgs /\ Len(msgs') = Len(msgs)
  BY <1>2, <1>3, MappedSeq
<1>5. Visible' = Visible
  BY <1>3, <1>4 DEF Visible
<1> QED BY <1>3, <1>4, <1>5

LEMMA CrashStep ==
    ASSUME ChatInv, Crash
    PROVE  ChatInv'
<1>1. /\ crashes < MaxCrashes /\ crashes' = crashes + 1
      /\ push' = [s \in Senders |-> NoPush] /\ receipts' = [x \in Receipt |-> 0]
      /\ loaded' = [u \in Users |-> {}]
      /\ UNCHANGED <<deviceToken, registrations, wanted, absent, disturbed>>
      /\ req' = [s \in Senders |-> Idle]
      /\ keys' = {k \in keys : msgs[k[1]].state # "open"}
      /\ cut' = cut \cup {m \in DOMAIN msgs : msgs[m].state = "open"}
      /\ joined' = {} /\ view' = [u \in Users |-> NoView] /\ reader' = [u \in Users |-> NoAnswer]
      /\ UNCHANGED <<now, pushed, failures>>
  BY DEF Crash, PushCrash
<1>2. \A s \in Senders : req'[s].pc = "idle" /\ push'[s].pc = "none"
  BY <1>1, ConstantFacts
<1>3. LockHolders' = {} /\ Unsaved' = {}
  BY <1>1, <1>2 DEF LockHolders, Unsaved
<1>4. TypeOK'
  <2>1. push' \in [Senders -> Push] /\ req' \in [Senders -> Request]
    BY <1>1, ConstantFacts
  <2>2. ColumnsOK'
    BY <1>1, PushAssumption DEF ColumnsOK, ChatInv, TypeOK
  <2>3. NoView \in View'
    BY ConstantFacts DEF NoView, View
  <2>4. /\ view' \in [Users -> View']
        /\ reader' \in [Users -> [kind : {"none", "page", "list"}, answer : View']]
    <3> HIDE DEF View
    <3> QED BY <1>1, <2>3 DEF NoAnswer
  <2>5. keys' \subseteq (DOMAIN msgs') \X Users /\ cut' \cup pushed' \subseteq DOMAIN msgs'
    BY <1>1, CrashEffects DEF ChatInv, TypeOK
  <2>6. crashes' \in 0..MaxCrashes
    BY <1>1, ConstantFacts DEF ChatInv, TypeOK
  <2>7. Len(msgs') <= MaxMessages /\ msgs' \in Seq(Message)
    BY CrashEffects DEF ChatInv, TypeOK
  <2> HIDE DEF View
  <2> QED BY <1>1, <2>1, <2>2, <2>4, <2>5, <2>6, <2>7 DEF ChatInv, TypeOK, ColumnsOK
<1>5. SendsAreSound' /\ NotPushedYet'
  BY <1>2 DEF SendsAreSound, NotPushedYet, Saved, InTransaction, Unsaved
<1>6. RoomForInserts'
  <2>1. Cardinality(Unsaved') = 0 /\ Len(msgs') <= MaxMessages
    BY <1>3, CrashEffects, FS_EmptySet DEF ChatInv, TypeOK
  <2>2. Len(msgs') \in Nat
    BY CrashEffects
  <2> QED BY <2>1, <2>2 DEF RoomForInserts
<1>7. StoredHaveKeys'
  <2>1. ASSUME NEW m \in Visible', NEW u \in msgs'[m].keyed PROVE <<m, u>> \in keys'
    <3>1. m \in Visible /\ m \in DOMAIN msgs /\ msgs[m].state # "open"
      BY CrashEffects, VisibleFacts
    <3>2. <<m, u>> \in keys
      BY <2>1, <3>1, CrashEffects DEF ChatInv, StoredHaveKeys
    <3> QED BY <1>1, <3>1, <3>2
  <2>2. ASSUME NEW k \in keys' PROVE k[2] \in msgs'[k[1]].keyed
    <3>1. k \in keys /\ k[1] \in DOMAIN msgs
      BY <1>1 DEF ChatInv, TypeOK
    <3> QED BY <3>1, CrashEffects DEF ChatInv, StoredHaveKeys
  <2> QED BY <1>3, <2>1, <2>2 DEF StoredHaveKeys
<1>8. ClientsInv'
  BY <1>1, ConstantFacts
     DEF ClientsInv, ReadersSeeStored, ReadersAreJoined, NothingIsMissed, AnswersAreComplete
<1>9. PushedIsStored'
  <2> SUFFICES ASSUME NEW m \in pushed', msgs'[m].state = "undone" PROVE m \in cut'
    BY DEF PushedIsStored
  <2>1. m \in pushed /\ m \in DOMAIN msgs
    BY <1>1 DEF ChatInv, TypeOK
  <2> QED BY <1>1, <2>1, CrashEffects DEF ChatInv, PushedIsStored
<1>10. TokensInv'
  <2>1. \A t \in Tokens : Gone(t) \in Receipt
    BY DEF Gone, Receipt
  <2>2. PushesAreSound' /\ ReceiptsHaveCause'
    BY <1>1, <1>2, <2>1 DEF PushesAreSound, ReceiptsHaveCause, Gone
  <2>3. TokensAreKept'
    BY <1>1 DEF ChatInv, TokensAreKept
  <2> QED BY <2>2, <2>3 DEF TokensInv
<1> QED BY <1>4, <1>5, <1>6, <1>7, <1>8, <1>9, <1>10, NextParts

LEMMA NextKeepsInv == ChatInv /\ [Next]_vars => ChatInv'
<1> SUFFICES ASSUME ChatInv, [Next]_vars PROVE ChatInv'
  OBVIOUS
<1>1. ASSUME NEW s \in Senders, RequestStep(s) PROVE ChatInv'
  <2>1. CASE Begin(s) \/ Insert(s) \/ Touch(s)
    BY <2>1, BeginStep, InsertStep, TouchStep
  <2>2. CASE LookUp(s) \/ Notify(s) \/ Notified(s)
    BY <2>2, LookUpStep, NotifyStep, NotifiedStep
  <2>3. CASE Commit(s) \/ Broadcast(s) \/ PushRollback(s)
    BY <2>3, CommitStep, BroadcastStep, PushRollbackStep
  <2> QED BY <1>1, <2>1, <2>2, <2>3 DEF RequestStep
<1>2. ASSUME NEW u \in Users, ClientStep(u) PROVE ChatInv'
  BY <1>2, JoinStep, LeaveStep, GetMessagesStep, RoomsStep, KeysStep DEF ClientStep
<1>3. CASE UNCHANGED vars
  <2>1. /\ UNCHANGED pushVars
        /\ UNCHANGED <<now, msgs, keys, req, joined, reader, view, cut, pushed, failures,
                       crashes>>
    BY <1>3 DEF vars, chatVars
  <2>2. Visible' = Visible
    BY <2>1 DEF Visible
  <2>3. ClientsInv'
    BY <2>1, <2>2, ClientsStay, PartsOfInv
  <2> QED BY <2>1, <2>3, ClientStepInv DEF ChatInv, TypeOK
<1> QED BY <1>1, <1>2, <1>3, SendStep, DatabaseErrorStep, PushStepInv, CrashStep DEF Next

-------------------------------------------------------------------------------
(* The theorems. *)

\* ChatInv, with the types of the rows, the requests and the clients, holds in every
\* state, whatever sends, pages, failures and crashes interleave.
THEOREM ChatInvHolds == Spec => []ChatInv
<1>1. Init => ChatInv
  BY InitInv
<1>2. ChatInv /\ [Next]_vars => ChatInv'
  BY NextKeepsInv
<1> QED BY <1>1, <1>2, PTL DEF Spec

\* A client that joined the socket room and reads page by page has every stored
\* message, except those it has not paged to, those about to be broadcast and those of
\* the millisecond to which a cursor was cut (getMessages, chats.service.ts:246).
THEOREM NothingIsMissedHolds == Spec => []NothingIsMissed
<1>1. ChatInv => NothingIsMissed
  BY DEF ChatInv
<1> QED BY <1>1, ChatInvHolds, PTL

\* Who has read messages finds the keys that were sent to it with them, and no other:
\* keys are written before the commit and outlive every rollback of another message,
\* and those of a message that is taken back go with it (chats.service.ts:220-233).
THEOREM KeysComeWithMessagesHolds == Spec => []KeysComeWithMessages
<1>1. ASSUME ChatInv PROVE KeysComeWithMessages
  <2> SUFFICES ASSUME NEW u \in Users, NEW m \in reader[u].answer.seen
               PROVE  <<m, u>> \in keys <=> u \in msgs[m].keyed
    BY DEF KeysComeWithMessages
  <2>1. m \in Visible
    BY <1>1 DEF ChatInv, ReadersSeeStored
  <2>2. u \in msgs[m].keyed => <<m, u>> \in keys
    BY <1>1, <2>1 DEF ChatInv, StoredHaveKeys
  <2>3. <<m, u>> \in keys => u \in msgs[m].keyed
    BY <1>1 DEF ChatInv, StoredHaveKeys
  <2> QED BY <2>2, <2>3
<1> QED BY <1>1, ChatInvHolds, PTL

\* A notification is of a message that is stored or will be, unless Expo's call was
\* rejected although it had taken the message, the commit fails or the process ends
\* between the push and the commit (notifications.service.ts:59, chats.service.ts:313).
THEOREM PushedIsStoredHolds == Spec => []PushedIsStored
<1>1. ChatInv => PushedIsStored
  BY DEF ChatInv
<1> QED BY <1>1, ChatInvHolds, PTL

\* A token goes only when its user removes it, its device is gone or it is none of
\* Expo's: a late receipt does not take away the one registered meanwhile, unless it is
\* the same one or a stale save has put another there (notifications.service.ts:138-158).
THEOREM TokensAreKeptHolds == Spec => []TokensAreKept
<1>1. ChatInv => TokensAreKept
  BY DEF ChatInv
<1> QED BY <1>1, ChatInvHolds, PTL

-------------------------------------------------------------------------------
(* The log. *)

\* What the log sees of a step that stores nothing and shows nothing.
LEMMA LogStutters ==
    ASSUME UNCHANGED view, Visible' = Visible
    PROVE  UNCHANGED Log!vars
BY DEF Log!vars

\* What is taken back was not stored.
LEMMA RollbackStutters ==
    ASSUME ChatInv, NEW s \in Senders, req[s].pc \in InTransaction, Rollback(s)
    PROVE  UNCHANGED Log!vars
<1>1. /\ UNCHANGED view /\ DOMAIN msgs' = DOMAIN msgs
      /\ \A m \in DOMAIN msgs : IF m = req[s].msg THEN msgs'[m] = [msgs[m] EXCEPT !.state = "undone"]
                                                  ELSE msgs'[m] = msgs[m]
  BY DEF Rollback
<1>2. \A m \in DOMAIN msgs : m = req[s].msg => msgs[m].state = "open"
  BY DEF ChatInv, TypeOK, SendsAreSound, Saved, InTransaction, Unsaved
<1>3. \A m \in DOMAIN msgs : m = req[s].msg => msgs'[m].state = "undone"
  <2>1. \A m \in DOMAIN msgs : msgs[m] \in Message
    BY DEF ChatInv, TypeOK
  <2> QED BY <1>1, <2>1 DEF Message
<1>4. Visible' = Visible
  BY <1>1, <1>2, <1>3 DEF Visible
<1> QED BY <1>1, <1>4, LogStutters

LEMMA CommitStores ==
    ASSUME ChatInv, NEW s \in Senders, Commit(s)
    PROVE  Log!Next
<1> DEFINE n == req[s].msg
<1>1. /\ Saved(s) /\ msgs' = [msgs EXCEPT ![n].state = "committed"] /\ UNCHANGED view
  BY DEF Commit, Saved, InTransaction
<1>2. /\ msgs \in Seq(Message) /\ Len(msgs) <= MaxMessages /\ Len(msgs) \in Nat
      /\ MaxMessages \in Nat
      /\ n \in DOMAIN msgs /\ msgs[n].state = "open"
  BY <1>1, ConstantFacts DEF ChatInv, TypeOK, SendsAreSound
<1>3. n \in 1..MaxMessages
  BY <1>2
<1>4. /\ DOMAIN msgs' = DOMAIN msgs
      /\ \A m \in DOMAIN msgs : m # n => msgs'[m] = msgs[m]
  BY <1>1
<1>5. msgs'[n].state = "committed"
  <2>1. msgs[n] \in Message
    BY <1>2
  <2>2. msgs'[n] = [msgs[n] EXCEPT !.state = "committed"]
    BY <1>1, <1>2
  <2> QED BY <2>1, <2>2 DEF Message
<1>6. n \notin Visible /\ Visible' = Visible \cup {n}
  BY <1>2, <1>4, <1>5 DEF Visible
<1> HIDE DEF n
<1>7. Log!Store(n)
  BY <1>1, <1>6 DEF Log!Store
<1> QED BY <1>3, <1>7 DEF Log!Next

LEMMA BroadcastDelivers ==
    ASSUME ChatInv, NEW s \in Senders, Broadcast(s)
    PROVE  Log!Next
<1>1. req[s].msg \in Visible /\ req[s].msg \in 1..MaxMessages
  <2>1. req[s].msg \in Visible
    BY DEF Broadcast, ChatInv, SendsAreSound
  <2>2. req[s].msg \in DOMAIN msgs /\ msgs \in Seq(Message) /\ Len(msgs) <= MaxMessages
    BY <2>1 DEF Visible, ChatInv, TypeOK
  <2> QED BY <2>1, <2>2, ConstantFacts
<1>2. PICK n \in 1..MaxMessages : n = req[s].msg
  BY <1>1
<1>3. /\ UNCHANGED msgs /\ n \in Visible
      /\ view' = [u \in Users |-> IF u \in joined THEN [view[u] EXCEPT !.seen = @ \cup {n}]
                                                  ELSE view[u]]
  BY <1>1, <1>2 DEF Broadcast
<1>4. /\ joined \in SUBSET Users
      /\ \A u \in Users : view'[u].seen = IF u \in joined THEN view[u].seen \cup {n}
                                                          ELSE view[u].seen
  BY <1>3 DEF ChatInv, TypeOK
<1>5. Log!Deliver(n)
  BY <1>3, <1>4 DEF Log!Deliver, Visible
<1> QED BY <1>5 DEF Log!Next

LEMMA PagesAreRead ==
    ASSUME ChatInv, NEW u \in Users, GetKeys(u)
    PROVE  Log!Next \/ UNCHANGED <<msgs, view>>
<1>1. UNCHANGED msgs
  BY DEF GetKeys
<1>2. CASE view' = view
  BY <1>1, <1>2
<1>3. CASE view' = [view EXCEPT ![u] = Answered(u)]
  <2>1. reader[u].answer \in View /\ view \in [Users -> View] /\ reader[u].answer.seen \subseteq Visible
    BY DEF ChatInv, TypeOK, ReadersSeeStored
  <2>2. Answered(u).seen = view[u].seen \cup reader[u].answer.seen
    BY <2>1 DEF Answered, View
  <2>3. PICK page \in SUBSET Visible : page = reader[u].answer.seen
    BY <2>1
  <2>4. \A v \in Users : view'[v].seen = IF v = u THEN view[u].seen \cup page ELSE view[v].seen
    BY <1>3, <2>1, <2>2, <2>3
  <2>5. Log!Read(u)
    BY <1>1, <2>4 DEF Log!Read, Visible
  <2> QED BY <2>5 DEF Log!Next
<1> QED BY <1>2, <1>3 DEF GetKeys

LEMMA ClientsForget ==
    ASSUME ChatInv, Visible' = Visible, NEW away \in SUBSET Users,
           \A u \in Users : view'[u] = IF u \in away THEN NoView ELSE view[u]
    PROVE  Log!Next
<1>1. \A u \in Users : view'[u].seen = IF u \in away THEN {} ELSE view[u].seen
  BY ConstantFacts
<1>2. Log!Forget
  BY <1>1 DEF Log!Forget
<1> QED BY <1>2 DEF Log!Next

\* Every step of the chat is a step of the log or leaves it alone.
LEMMA LogStep ==
    ASSUME ChatInv, [Next]_vars
    PROVE  [Log!Next]_(Log!vars)
<1>1. CASE UNCHANGED <<msgs, view>>
  BY <1>1, LogStutters DEF Visible
<1>2. ASSUME NEW s \in Senders, RequestStep(s) PROVE [Log!Next]_(Log!vars)
  <2>1. CASE Commit(s)
    BY <2>1, CommitStores
  <2>2. CASE Broadcast(s)
    BY <2>2, BroadcastDelivers
  <2>3. CASE Insert(s)
    <3>1. /\ UNCHANGED view /\ msgs \in Seq(Message)
          /\ msgs' = Append(msgs, NewMessage(s)) /\ NewMessage(s).state = "open"
      BY <2>3 DEF Insert, ChatInv, TypeOK, NewMessage
    <3>2. /\ DOMAIN msgs' = DOMAIN msgs \cup {Len(msgs) + 1}
          /\ \A m \in DOMAIN msgs : msgs'[m] = msgs[m]
          /\ msgs'[Len(msgs) + 1].state = "open"
      BY <3>1
    <3>3. Visible' = Visible
      BY <3>2 DEF Visible
    <3> QED BY <3>1, <3>3, LogStutters
  <2>4. CASE PushRollback(s)
    BY <2>4, RollbackStutters DEF PushRollback, InTransaction
  <2>5. CASE Begin(s) \/ Touch(s) \/ LookUp(s) \/ Notify(s) \/ Notified(s)
    BY <1>1, <2>5 DEF Begin, Touch, LookUp, Notify, Notified
  <2> QED BY <1>2, <2>1, <2>2, <2>3, <2>4, <2>5 DEF RequestStep
<1>3. ASSUME NEW s \in Senders, DatabaseError(s) PROVE [Log!Next]_(Log!vars)
  BY <1>3, RollbackStutters DEF DatabaseError, InTransaction
<1>4. ASSUME NEW s \in Senders, NEW u \in Users, SendMessage(s, u) PROVE UNCHANGED <<msgs, view>>
  BY <1>4 DEF SendMessage
<1>5. ASSUME NEW u \in Users, ClientStep(u) PROVE [Log!Next]_(Log!vars)
  <2>1. CASE GetKeys(u)
    BY <1>1, <2>1, PagesAreRead
  <2>2. CASE HandleLeaveRoom(u)
    <3>1. \A v \in Users : view'[v] = IF v \in {u} THEN NoView ELSE view[v]
      BY <2>2 DEF HandleLeaveRoom, ChatInv, TypeOK
    <3>2. Visible' = Visible
      BY <2>2 DEF HandleLeaveRoom, Visible
    <3> QED BY <3>1, <3>2, ClientsForget
  <2>3. CASE HandleJoinRoom(u) \/ GetMessages(u) \/ GetRoomsWithLastMessage(u) \/ GetKeysFails(u)
    BY <1>1, <2>3 DEF HandleJoinRoom, GetMessages, GetRoomsWithLastMessage, GetKeysFails
  <2> QED BY <1>5, <2>1, <2>2, <2>3 DEF ClientStep
<1>6. CASE PushStep
  BY <1>1, <1>6 DEF PushStep, chatVars
<1>7. CASE Crash
  <2>1. \A u \in Users : view'[u] = IF u \in Users THEN NoView ELSE view[u]
    BY <1>7 DEF Crash
  <2> QED BY <1>7, <2>1, CrashEffects, ClientsForget
<1>8. CASE UNCHANGED vars
  BY <1>1, <1>8 DEF vars, chatVars
<1> QED BY <1>1, <1>2, <1>3, <1>4, <1>5, <1>6, <1>7, <1>8 DEF Next

\* The chat implements the log: whatever transactions fail, overtake each other or are
\* broken off, a message is stored in one step or never, and shown only once it is.
THEOREM ImplementsLogHolds == Spec => ImplementsLog
<1>1. Init => Log!Init
  BY DEF Init, Log!Init, Visible, NoView
<1>2. ChatInv /\ [Next]_vars => [Log!Next]_(Log!vars)
  BY LogStep
<1> QED BY <1>1, <1>2, ChatInvHolds, PTL DEF Spec, ImplementsLog, Log!Spec
===============================================================================
