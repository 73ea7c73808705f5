--------------------------- MODULE MediaRoomsProofs ---------------------------
(* MediaInv is an invariant of MediaRooms, for any number of peers, requests   *)
(* and objects, and MediaIsNotCut a property of its steps.  What most steps    *)
(* have in common is Grown: objects are only ever added, and what is closed or *)
(* gone stays so.  For each part of the invariant a lemma says what a step     *)
(* must do beside that to keep it.                                             *)
EXTENDS MediaRooms, TLAPS

LEMMA AppendFacts ==
    ASSUME NEW S, NEW s \in Seq(S), NEW e \in S
    PROVE  /\ Append(s, e) \in Seq(S) /\ Len(Append(s, e)) = Len(s) + 1
           /\ DOMAIN Append(s, e) = DOMAIN s \cup {Len(s) + 1}
           /\ Len(s) + 1 \notin DOMAIN s
           /\ \A i \in DOMAIN s : Append(s, e)[i] = s[i]
           /\ Append(s, e)[Len(s) + 1] = e
OBVIOUS

\* A function over the domain of a sequence is a sequence of the same length.
LEMMA MappedSeq ==
    ASSUME NEW S, NEW T, NEW s \in Seq(S), NEW f \in [DOMAIN s -> T]
    PROVE  f \in Seq(T) /\ Len(f) = Len(s) /\ DOMAIN f = DOMAIN s
<1>1. DOMAIN s = 1..Len(s) /\ Len(s) \in Nat
  OBVIOUS
<1> QED BY <1>1

\* What TypeOK says of the single objects.
Typed ==
    /\ \A r \in DOMAIN routers : routers[r] \in Router
    /\ \A o \in DOMAIN objs : objs[o] \in PeerObj /\ objs[o].router \in DOMAIN routers
    /\ \A t \in DOMAIN transports :
          transports[t] \in Transport /\ transports[t].owner \in DOMAIN objs
    /\ \A x \in DOMAIN producers :
          producers[x] \in Producer /\ producers[x].transport \in DOMAIN transports
    /\ \A c \in DOMAIN consumers :
          /\ consumers[c] \in Consumer
          /\ consumers[c].transport \in DOMAIN transports
          /\ consumers[c].producer \in DOMAIN producers
    /\ 0 \notin DOMAIN objs /\ 0 \notin DOMAIN routers
    /\ room = 0 \/ room \in DOMAIN routers
    /\ \A s \in Requests : req[s] \in Request

LEMMA TypedHolds == (TypeOK => Typed) /\ (TypeOK' => Typed')
<1>1. TypeOK => Typed
  BY DEF TypeOK, Typed
<1>2. TypeOK' => Typed'
  BY DEF TypeOK, Typed
<1> QED BY <1>1, <1>2

\* What every step does: objects are added, and nothing closed opens again.
Grown ==
    /\ \A r \in DOMAIN routers :
          r \in DOMAIN routers' /\ (routers'[r] = "open" => routers[r] = "open")
    /\ replaced \subseteq replaced'
    /\ \A o \in DOMAIN objs :
          /\ o \in DOMAIN objs'
          /\ objs'[o].peer = objs[o].peer /\ objs'[o].router = objs[o].router
          /\ objs'[o].here => objs[o].here
    /\ \A t \in DOMAIN transports :
          /\ t \in DOMAIN transports'
          /\ transports'[t].owner = transports[t].owner
          /\ transports'[t].late = transports[t].late
          /\ transports[t].closed => transports'[t].closed
    /\ \A x \in DOMAIN producers : x \in DOMAIN producers' /\ producers'[x] = producers[x]
    /\ \A c \in DOMAIN consumers : c \in DOMAIN consumers' /\ consumers'[c] = consumers[c]

LEMMA NothingOpens ==
    ASSUME Typed, Grown
    PROVE  /\ \A t \in DOMAIN transports :
                 RouterOf(t)' = RouterOf(t) /\ (TransportOpen(t)' => TransportOpen(t))
           /\ \A x \in DOMAIN producers : ProducerOpen(x)' => ProducerOpen(x)
           /\ \A c \in DOMAIN consumers : ConsumerOpen(c)' => ConsumerOpen(c)
<1>1. ASSUME NEW t \in DOMAIN transports
      PROVE  RouterOf(t)' = RouterOf(t) /\ (TransportOpen(t)' => TransportOpen(t))
  BY DEF Typed, Grown, RouterOf, TransportOpen
<1>2. ASSUME NEW x \in DOMAIN producers PROVE ProducerOpen(x)' => ProducerOpen(x)
  BY <1>1 DEF Typed, Grown, ProducerOpen
<1>3. ASSUME NEW c \in DOMAIN consumers PROVE ConsumerOpen(c)' => ConsumerOpen(c)
  BY <1>1, <1>2 DEF Typed, Grown, ConsumerOpen
<1> QED BY <1>1, <1>2, <1>3

\* The entries of a Peer's maps only go, but for those of new objects.
LEMMA MapsShrink ==
    ASSUME Typed, Grown, NEW o
    PROVE  /\ \A x \in DOMAIN producers : x \in ProducersOf(o)' => x \in ProducersOf(o)
           /\ \A c \in DOMAIN consumers : c \in ConsumersOf(o)' => c \in ConsumersOf(o)
BY NothingOpens DEF Typed, Grown, ProducersOf, ConsumersOf

-------------------------------------------------------------------------------
(* When the parts of MediaInv are kept. *)

\* A request that waits stays sound, whatever is done meanwhile.
LEMMA WaitingStaysSound ==
    ASSUME Typed, Grown, NEW s \in Requests, req'[s] = req[s], Sound(req[s])
    PROVE  Sound(req[s])'
BY NothingOpens DEF Typed, Grown, Sound

LEMMA SoundStays ==
    ASSUME Typed, Grown, RequestsAreSound,
           \A s \in Requests : req'[s] = req[s] \/ Sound(req[s])'
    PROVE  RequestsAreSound'
BY WaitingStaysSound DEF RequestsAreSound

LEMMA HoldersStay ==
    ASSUME Typed, Grown, HoldersExist,
           \A x \in DOMAIN producers' \ DOMAIN producers :
               producers'[x].holder \in DOMAIN objs \cup {0},
           \A c \in DOMAIN consumers' \ DOMAIN consumers :
               consumers'[c].holder \in DOMAIN objs \cup {0}
    PROVE  HoldersExist'
BY DEF HoldersExist, Grown

LEMMA LateStays ==
    ASSUME Typed, Grown, LateIsGone,
           \A t \in DOMAIN transports' \ DOMAIN transports :
               transports'[t].late => ~objs'[transports'[t].owner].here
    PROVE  LateIsGone'
BY DEF LateIsGone, Typed, Grown

LEMMA InRouterStays ==
    ASSUME Typed, Grown, ConsumersStayInRouter,
           \A c \in DOMAIN consumers' \ DOMAIN consumers :
               (RouterOf(consumers[c].transport)
                   = RouterOf(producers[consumers[c].producer].transport))'
    PROVE  ConsumersStayInRouter'
<1> SUFFICES ASSUME NEW c \in DOMAIN consumers
             PROVE  (RouterOf(consumers[c].transport)
                        = RouterOf(producers[consumers[c].producer].transport))'
  BY DEF ConsumersStayInRouter
<1>1. /\ consumers'[c] = consumers[c]
      /\ consumers[c].transport \in DOMAIN transports
      /\ consumers[c].producer \in DOMAIN producers
      /\ producers[consumers[c].producer].transport \in DOMAIN transports
      /\ producers'[consumers[c].producer] = producers[consumers[c].producer]
  BY DEF Typed, Grown
<1>2. RouterOf(consumers[c].transport) = RouterOf(producers[consumers[c].producer].transport)
  BY DEF ConsumersStayInRouter
<1> QED BY <1>1, <1>2 DEF RouterOf, Typed, Grown

LEMMA OneConsumerStays ==
    ASSUME Typed, Typed', Grown, HoldersExist, OneConsumerPerProducer, UNCHANGED consumers
    PROVE  OneConsumerPerProducer'
<1> SUFFICES ASSUME NEW o \in DOMAIN objs',
                    NEW c \in ConsumersOf(o)', NEW d \in ConsumersOf(o)',
                    consumers'[c].producer = consumers'[d].producer
             PROVE  c = d
  BY DEF OneConsumerPerProducer
<1>1. c \in DOMAIN consumers /\ d \in DOMAIN consumers /\ consumers[c].holder = o
  BY DEF ConsumersOf
<1>2. o \in DOMAIN objs
  BY <1>1 DEF HoldersExist, Typed
<1>3. c \in ConsumersOf(o) /\ d \in ConsumersOf(o)
  BY <1>1, MapsShrink
<1> QED BY <1>2, <1>3 DEF OneConsumerPerProducer

LEMMA LeaksStay ==
    ASSUME Typed, Grown, LeaksHaveCause,
           \A r \in DOMAIN routers' : routers'[r] = "open" => r = room' \/ r \in replaced',
           \A t \in DOMAIN transports' : TransportOpen(t)' /\ ~transports'[t].late =>
               objs'[transports'[t].owner].here,
           \A x \in DOMAIN producers' \ DOMAIN producers :
               ProducerOpen(x)' /\ producers'[x].holder = 0 =>
                   (RouterOf(producers[x].transport) \in replaced)',
           \A c \in DOMAIN consumers' \ DOMAIN consumers :
               ConsumerOpen(c)' /\ consumers'[c].holder = 0 =>
                   \/ (RouterOf(consumers[c].transport) \in replaced)'
                   \/ \E d \in DOMAIN consumers' :
                         /\ consumers'[d].holder = transports'[consumers'[c].transport].owner
                         /\ consumers'[d].producer = consumers'[c].producer
    PROVE  LeaksHaveCause'
<1>1. ASSUME NEW x \in DOMAIN producers, ProducerOpen(x)', producers'[x].holder = 0
      PROVE  (RouterOf(producers[x].transport) \in replaced)'
  <2>1. /\ producers'[x] = producers[x] /\ producers[x].transport \in DOMAIN transports
        /\ ProducerOpen(x)
    BY <1>1, NothingOpens DEF Typed, Grown
  <2>2. RouterOf(producers[x].transport) \in replaced
    BY <1>1, <2>1 DEF LeaksHaveCause
  <2> QED BY <2>1, <2>2 DEF RouterOf, Typed, Grown
<1>2. ASSUME NEW c \in DOMAIN consumers, ConsumerOpen(c)', consumers'[c].holder = 0
      PROVE  \/ (RouterOf(consumers[c].transport) \in replaced)'
             \/ \E d \in DOMAIN consumers' :
                   /\ consumers'[d].holder = transports'[consumers'[c].transport].owner
                   /\ consumers'[d].producer = consumers'[c].producer
  <2>1. /\ consumers'[c] = consumers[c] /\ consumers[c].transport \in DOMAIN transports
        /\ ConsumerOpen(c)
    BY <1>2, NothingOpens DEF Typed, Grown
  <2>2. CASE RouterOf(consumers[c].transport) \in replaced
    BY <2>1, <2>2 DEF RouterOf, Typed, Grown
  <2>3. ASSUME NEW d \in DOMAIN consumers,
               consumers[d].holder = transports[consumers[c].transport].owner,
               consumers[d].producer = consumers[c].producer
        PROVE  \E e \in DOMAIN consumers' :
                   /\ consumers'[e].holder = transports'[consumers'[c].transport].owner
                   /\ consumers'[e].producer = consumers'[c].producer
    BY <2>1, <2>3 DEF Grown
  <2> QED BY <1>2, <2>1, <2>2, <2>3 DEF LeaksHaveCause
<1> QED BY <1>1, <1>2 DEF LeaksHaveCause

\* Whom a client has to know does not become more.
LEMMA KnownStays ==
    ASSUME Typed, Typed', Grown, HoldersExist, ProducersAreKnown,
           \A x \in DOMAIN producers' \ DOMAIN producers :
               \/ producers'[x].holder = 0
               \/ \E s \in Requests : req'[s].pc = "notify" /\ req'[s].producer = x,
           fetched \subseteq Peers, fetched' \subseteq fetched,
           \A p \in Peers : known[p] \subseteq known'[p],
           room' = room \/ Here(room)' = {},
           \A s \in Requests : req[s].pc = "notify" => req'[s] = req[s]
    PROVE  ProducersAreKnown'
<1> SUFFICES ASSUME NEW p \in fetched', NEW x \in GetProducers(p)'
             PROVE  \/ x \in known'[p]
                    \/ \E s \in Requests : req'[s].pc = "notify" /\ req'[s].producer = x
  BY DEF ProducersAreKnown
<1>1. PICK o \in Here(room)' : objs'[o].peer # p /\ x \in ProducersOf(o)'
  BY DEF GetProducers
<1>2. x \in DOMAIN producers' /\ producers'[x].holder = o /\ o \in DOMAIN objs' /\ o # 0
  BY <1>1 DEF ProducersOf, Here, Typed
<1>3. CASE x \in DOMAIN producers
  <2>1. o \in DOMAIN objs
    BY <1>2, <1>3 DEF HoldersExist, Grown
  <2>2. o \in Here(room) /\ objs[o].peer # p
    BY <1>1, <2>1 DEF Here, Grown
  <2>3. x \in ProducersOf(o)
    BY <1>1, <1>3, MapsShrink
  <2>4. x \in GetProducers(p)
    BY <2>2, <2>3 DEF GetProducers
  <2> QED BY <2>4 DEF ProducersAreKnown
<1> QED BY <1>2, <1>3

\* A step that changes neither the rooms nor the objects keeps what is said of them.
LEMMA MediaUnchanged ==
    ASSUME MediaInv, UNCHANGED mediaVars
    PROVE  /\ HoldersExist' /\ LateIsGone' /\ OneConsumerPerProducer'
           /\ ConsumersStayInRouter' /\ RoomIsUsable' /\ LeaksHaveCause' /\ Grown
<1> USE DEF mediaVars
<1>1. HoldersExist' /\ LateIsGone' /\ RoomIsUsable' /\ Grown
  BY DEF MediaInv, HoldersExist, LateIsGone, RoomIsUsable, Grown
<1>2. OneConsumerPerProducer' /\ ConsumersStayInRouter'
  BY DEF MediaInv, OneConsumerPerProducer, ConsumersStayInRouter, ConsumersOf, RouterOf,
         TransportOpen
<1>3. LeaksHaveCause'
  BY DEF MediaInv, LeaksHaveCause, ConsumerOpen, ProducerOpen, TransportOpen, RouterOf
<1> QED BY <1>1, <1>2, <1>3

-------------------------------------------------------------------------------
(* The steps. *)

LEMMA InitInv == Init => MediaInv
<1> SUFFICES ASSUME Init PROVE MediaInv
  OBVIOUS
<1>1. /\ routers = <<>> /\ objs = <<>> /\ transports = <<>> /\ producers = <<>>
      /\ consumers = <<>> /\ fetched = {} /\ room = 0 /\ replaced = {}
      /\ \A r \in Requests : req[r] = Idle
  BY DEF Init
<1>2. Idle.pc = "idle" /\ Idle \in Request
  BY DEF Idle, Request
<1>3. TypeOK
  <2>1. worker \in BOOLEAN /\ deaths \in 0..MaxDeaths
    BY BoundsAssumption DEF Init
  <2>2. /\ sockets \in [Peers -> 0..MaxSockets] /\ known \in [Peers -> SUBSET DOMAIN producers]
        /\ req \in [Requests -> Request]
    BY <1>2, BoundsAssumption DEF Init
  <2> QED BY <1>1, <2>1, <2>2 DEF TypeOK
<1>4. RequestsAreSound
  BY <1>1, <1>2 DEF RequestsAreSound, Sound
<1>5. HoldersExist /\ LateIsGone /\ FetchedIsConnected /\ ConsumersStayInRouter /\ RoomIsUsable
  BY <1>1 DEF HoldersExist, LateIsGone, FetchedIsConnected, ConsumersStayInRouter, RoomIsUsable
<1>6. OneConsumerPerProducer /\ LeaksHaveCause /\ ProducersAreKnown
  BY <1>1 DEF OneConsumerPerProducer, LeaksHaveCause, ProducersAreKnown
<1> QED BY <1>3, <1>4, <1>5, <1>6 DEF MediaInv

LEMMA IdleSlot == ASSUME NEW r \in Requests, req[r] = Idle
                  PROVE  req[r].pc \notin {"make", "produce", "notify", "consume"}
<1>1. Idle.pc = "idle"
  BY DEF Idle
<1> QED BY <1>1

\* A step whose only effect is that request r waits for something else.
LEMMA RequestOnly ==
    ASSUME MediaInv, NEW r \in Requests, NEW q \in Request, req[r].pc # "notify",
           req' = [req EXCEPT ![r] = q], UNCHANGED <<mediaVars, socketVars>>, Sound(q)
    PROVE  MediaInv'
<1>1. /\ req' \in [Requests -> Request] /\ req'[r] = q
      /\ \A s \in Requests : s # r => req'[s] = req[s]
  BY DEF MediaInv, TypeOK
<1>2. TypeOK'
  BY <1>1 DEF MediaInv, TypeOK, mediaVars, socketVars
<1>3. Typed /\ Typed' /\ Grown
  BY <1>2, TypedHolds, MediaUnchanged DEF MediaInv
<1>4. RequestsAreSound'
  <2>1. Sound(req[r])'
    BY <1>1 DEF Sound, RouterOf, mediaVars
  <2> QED BY <1>1, <1>3, <2>1, SoundStays DEF MediaInv
<1>5. FetchedIsConnected'
  BY DEF MediaInv, FetchedIsConnected, socketVars
<1>6. ProducersAreKnown'
  BY <1>1, <1>3, KnownStays DEF MediaInv, TypeOK, mediaVars, socketVars
<1> QED BY <1>2, <1>4, <1>5, <1>6, MediaUnchanged DEF MediaInv

LEMMA IdleStep ==
    ASSUME MediaInv, NEW r \in Requests, req[r].pc # "notify",
           req' = [req EXCEPT ![r] = Idle], UNCHANGED <<mediaVars, socketVars>>
    PROVE  MediaInv'
<1>1. Idle \in Request /\ Sound(Idle)
  BY DEF Idle, Request, Sound
<1> QED BY <1>1, RequestOnly

LEMMA CreateRouterStep ==
    ASSUME MediaInv, NEW r \in Requests, NEW p \in Peers,
           NEW then \in {"again", "join", "transport"},
           req[r].pc # "notify", CreateRouter(r, p, then)
    PROVE  MediaInv'
<1> DEFINE q == [Idle EXCEPT !.pc = "create", !.peer = p, !.then = then]
<1>1. q \in Request /\ q.pc = "create" /\ q.peer = p
  BY DEF Idle, Request
<1>2. Sound(q)
  BY <1>1 DEF Sound
<1>3. CASE worker
  BY <1>1, <1>2, <1>3, RequestOnly DEF CreateRouter
<1>4. CASE ~worker
  BY <1>4, IdleStep DEF CreateRouter
<1> QED BY <1>3, <1>4

LEMMA MakeTransportStep ==
    ASSUME MediaInv, NEW r \in Requests, NEW p \in Peers, NEW k \in DOMAIN routers,
           req[r].pc # "notify", MakeTransport(r, p, k)
    PROVE  MediaInv'
<1>1. UNCHANGED <<mediaVars, socketVars>>
  BY DEF MakeTransport
<1>2. CASE req' = [req EXCEPT ![r] = Idle]
  BY <1>1, <1>2, IdleStep
<1>3. ASSUME NEW o \in PeerIn(k, p),
             req' = [req EXCEPT ![r] = [Idle EXCEPT !.pc = "make", !.peer = p,
                                                    !.router = k, !.obj = o]]
      PROVE  MediaInv'
  <2> DEFINE q == [Idle EXCEPT !.pc = "make", !.peer = p, !.router = k, !.obj = o]
  <2>1. /\ o \in DOMAIN objs /\ objs[o].router = k
        /\ DOMAIN objs \subseteq Nat /\ DOMAIN routers \subseteq Nat
    BY DEF PeerIn, Here, MediaInv, TypeOK
  <2>2. q \in Request /\ q.pc = "make" /\ q.peer = p /\ q.router = k /\ q.obj = o
    BY <2>1 DEF Idle, Request
  <2>3. Sound(q)
    BY <2>1, <2>2 DEF Sound
  <2> HIDE DEF q
  <2> QED BY <1>1, <1>3, <2>2, <2>3, RequestOnly DEF q
<1> QED BY <1>2, <1>3 DEF MakeTransport

LEMMA CreateProducerStep ==
    ASSUME MediaInv, NEW r \in Requests, NEW p \in Peers, CreateProducer(r, p)
    PROVE  MediaInv'
<1>1. PICK t \in GetTransport(p) :
         req' = [req EXCEPT ![r] = [Idle EXCEPT !.pc = "produce", !.peer = p, !.transport = t]]
  BY DEF CreateProducer
<1> DEFINE q == [Idle EXCEPT !.pc = "produce", !.peer = p, !.transport = t]
<1>2. /\ t \in DOMAIN transports /\ t \in Nat
      /\ objs[transports[t].owner].here /\ objs[transports[t].owner].peer = p
  BY DEF GetTransport, PeerIn, Here, MediaInv, TypeOK
<1>3. q \in Request /\ q.pc = "produce" /\ q.peer = p /\ q.transport = t
  BY <1>2 DEF Idle, Request
<1>4. Sound(q)
  BY <1>2, <1>3 DEF Sound, MediaInv, LateIsGone
<1> HIDE DEF q
<1>5. req[r].pc # "notify" /\ UNCHANGED <<mediaVars, socketVars>>
  <2>1. req[r] = Idle
    BY DEF CreateProducer
  <2>2. req[r].pc # "notify"
    BY <2>1, IdleSlot
  <2>3. UNCHANGED <<mediaVars, socketVars>>
    BY DEF CreateProducer
  <2> QED BY <2>2, <2>3
<1> QED BY <1>1, <1>3, <1>4, <1>5, RequestOnly DEF q

\* What may be consumed lives on the router of the transport.
LEMMA CreateConsumerStep ==
    ASSUME MediaInv, NEW r \in Requests, NEW p \in Peers, CreateConsumer(r, p)
    PROVE  MediaInv'
<1>1. PICK x \in known[p] : \E t \in GetTransport(p) :
         /\ CanConsume(x)
         /\ req' = [req EXCEPT ![r] = [Idle EXCEPT !.pc = "consume", !.peer = p,
                                          !.transport = t, !.producer = x]]
  BY DEF CreateConsumer
<1>2. PICK t \in GetTransport(p) :
         req' = [req EXCEPT ![r] = [Idle EXCEPT !.pc = "consume", !.peer = p,
                                      !.transport = t, !.producer = x]]
  BY <1>1
<1> DEFINE q == [Idle EXCEPT !.pc = "consume", !.peer = p, !.transport = t, !.producer = x]
<1>3. /\ t \in DOMAIN transports /\ t \in Nat
      /\ objs[transports[t].owner].here /\ objs[transports[t].owner].peer = p
      /\ objs[transports[t].owner].router = room
  BY DEF GetTransport, PeerIn, Here, MediaInv, TypeOK
<1>4. x \in DOMAIN producers /\ x \in Nat /\ RouterOf(producers[x].transport) = room
  BY <1>1 DEF CanConsume, MediaInv, TypeOK
<1>5. q \in Request /\ q.pc = "consume" /\ q.peer = p /\ q.transport = t /\ q.producer = x
  BY <1>3, <1>4 DEF Idle, Request
<1>6. Sound(q)
  BY <1>3, <1>4, <1>5 DEF Sound, MediaInv, LateIsGone, RouterOf
<1> HIDE DEF q
<1>7. req[r].pc # "notify" /\ UNCHANGED <<mediaVars, socketVars>>
  <2>1. req[r] = Idle
    BY DEF CreateConsumer
  <2>2. req[r].pc # "notify"
    BY <2>1, IdleSlot
  <2>3. UNCHANGED <<mediaVars, socketVars>>
    BY DEF CreateConsumer
  <2> QED BY <2>2, <2>3
<1> QED BY <1>2, <1>5, <1>6, <1>7, RequestOnly DEF q

LEMMA SlotStep ==
    ASSUME TypeOK, NEW r \in Requests, NEW q \in Request, req' = [req EXCEPT ![r] = q]
    PROVE  /\ req' \in [Requests -> Request] /\ req'[r] = q
           /\ \A s \in Requests : s # r => req'[s] = req[s]
BY DEF TypeOK

LEMMA RouterCreatedStep ==
    ASSUME MediaInv, NEW r \in Requests, RouterCreated(r)
    PROVE  MediaInv'
<1>1. /\ req[r].pc = "create" /\ routers' = Append(routers, "open") /\ room' = Len(routers')
      /\ replaced' = replaced \cup ({room} \ {0})
      /\ req' = [req EXCEPT ![r].pc = "got", ![r].router = room']
      /\ UNCHANGED <<worker, deaths, objs, transports, producers, consumers>>
      /\ UNCHANGED <<sockets, fetched, known>>
  BY DEF RouterCreated, socketVars
<1>2. TypeOK /\ Typed /\ req[r] \in Request
  BY TypedHolds DEF MediaInv, Typed
<1>3. /\ routers' \in Seq(Router) /\ Len(routers') = Len(routers) + 1
      /\ DOMAIN routers' = DOMAIN routers \cup {room'} /\ room' \notin DOMAIN routers
      /\ \A k \in DOMAIN routers : routers'[k] = routers[k]
      /\ routers'[room'] = "open" /\ room' \in Nat /\ room' # 0
  BY <1>1, <1>2, AppendFacts DEF TypeOK, Router
<1> DEFINE q == [req[r] EXCEPT !.pc = "got", !.router = room']
<1>4. /\ q \in Request /\ q.pc = "got" /\ q.router = room' /\ q.peer = req[r].peer
      /\ req' = [req EXCEPT ![r] = q]
  BY <1>1, <1>2, <1>3 DEF Request, TypeOK
<1> HIDE DEF q
<1>5. /\ req' \in [Requests -> Request] /\ req'[r] = q
      /\ \A s \in Requests : s # r => req'[s] = req[s]
  BY <1>2, <1>4, SlotStep
<1>6. TypeOK'
  <2>1. room' \in 0..Len(routers') /\ replaced' \subseteq DOMAIN routers'
    BY <1>1, <1>2, <1>3 DEF TypeOK
  <2> QED BY <1>1, <1>2, <1>3, <1>5, <2>1 DEF TypeOK
<1>7. Typed' /\ Grown
  BY <1>1, <1>3, <1>6, TypedHolds DEF Grown
<1>8. RequestsAreSound'
  <2>1. req[r].peer \in Peers
    BY <1>1 DEF MediaInv, RequestsAreSound, Sound
  <2>2. Sound(req[r])'
    BY <1>3, <1>4, <1>5, <2>1 DEF Sound
  <2> QED BY <1>2, <1>5, <1>7, <2>2, SoundStays DEF MediaInv
<1>9. HoldersExist' /\ LateIsGone' /\ ConsumersStayInRouter' /\ OneConsumerPerProducer'
  BY <1>1, <1>2, <1>7, HoldersStay, LateStays, InRouterStays, OneConsumerStays DEF MediaInv
<1>10. FetchedIsConnected' /\ RoomIsUsable'
  BY <1>1, <1>3 DEF MediaInv, FetchedIsConnected, RoomIsUsable
<1>11. LeaksHaveCause'
  <2>1. ASSUME NEW k \in DOMAIN routers', routers'[k] = "open" PROVE k = room' \/ k \in replaced'
    BY <1>1, <1>2, <1>3, <2>1 DEF MediaInv, LeaksHaveCause, Typed
  <2>2. ASSUME NEW t \in DOMAIN transports', TransportOpen(t)', ~transports'[t].late
        PROVE  objs'[transports'[t].owner].here
    BY <1>1, <1>2, <1>7, <2>2, NothingOpens DEF MediaInv, LeaksHaveCause
  <2> QED BY <1>1, <1>2, <1>7, <2>1, <2>2, LeaksStay DEF MediaInv
<1>12. ProducersAreKnown'
  <2>1. Here(room)' = {}
    BY <1>1, <1>2, <1>3 DEF Here, Typed
  <2> QED BY <1>1, <1>2, <1>5, <1>7, <2>1, KnownStays DEF MediaInv, TypeOK
<1> QED BY <1>6, <1>8, <1>9, <1>10, <1>11, <1>12 DEF MediaInv

\* joinRoom: the new Peer object has nothing in its maps yet.
LEMMA AddPeerStep ==
    ASSUME MediaInv, NEW r \in Requests, NEW p \in Peers, NEW k \in DOMAIN routers,
           req[r].pc # "notify", AddPeer(r, p, k)
    PROVE  MediaInv'
<1>1. /\ req' = [req EXCEPT ![r] = Idle]
      /\ UNCHANGED <<worker, deaths, routers, room, replaced, transports, producers,
                     consumers>>
      /\ UNCHANGED <<sockets, fetched, known>>
  BY DEF AddPeer, socketVars
<1>2. CASE UNCHANGED objs
  BY <1>1, <1>2, IdleStep DEF mediaVars, socketVars
<1>3. CASE objs' = Append(objs, [peer |-> p, router |-> k, here |-> TRUE])
  <2> DEFINE o == [peer |-> p, router |-> k, here |-> TRUE]
             n == Len(objs) + 1
  <2>1. TypeOK /\ Typed
    BY TypedHolds DEF MediaInv
  <2>2. /\ o \in PeerObj /\ o.router = k /\ objs' = Append(objs, o)
        /\ Idle \in Request /\ Idle.pc = "idle"
    <3>1. k \in Nat
      BY <2>1 DEF TypeOK
    <3> QED BY <1>3, <3>1 DEF PeerObj, Idle, Request
  <2> HIDE DEF o
  <2>3. /\ objs' \in Seq(PeerObj) /\ DOMAIN objs' = DOMAIN objs \cup {n}
        /\ \A i \in DOMAIN objs : objs'[i] = objs[i]
        /\ objs'[n] = o
    BY <2>1, <2>2, AppendFacts DEF TypeOK
  <2> HIDE DEF n
  <2>4. /\ req' \in [Requests -> Request] /\ req'[r] = Idle
        /\ \A s \in Requests : s # r => req'[s] = req[s]
    BY <1>1, <2>1, <2>2, SlotStep
  <2>5. TypeOK'
    BY <1>1, <2>1, <2>2, <2>3, <2>4 DEF TypeOK
  <2>6. Typed' /\ Grown
    BY <1>1, <2>3, <2>5, TypedHolds DEF Grown
  <2>7. RequestsAreSound'
    <3>1. Sound(req[r])'
      BY <2>2, <2>4 DEF Sound
    <3> QED BY <2>1, <2>4, <2>6, <3>1, SoundStays DEF MediaInv
  <2>8. HoldersExist' /\ LateIsGone' /\ ConsumersStayInRouter' /\ OneConsumerPerProducer'
    BY <1>1, <2>1, <2>6, HoldersStay, LateStays, InRouterStays, OneConsumerStays DEF MediaInv
  <2>9. FetchedIsConnected' /\ RoomIsUsable'
    BY <1>1 DEF MediaInv, FetchedIsConnected, RoomIsUsable
  <2>10. LeaksHaveCause'
    <3>1. ASSUME NEW j \in DOMAIN routers', routers'[j] = "open"
          PROVE  j = room' \/ j \in replaced'
      BY <1>1, <3>1 DEF MediaInv, LeaksHaveCause
    <3>2. ASSUME NEW t \in DOMAIN transports', TransportOpen(t)', ~transports'[t].late
          PROVE  objs'[transports'[t].owner].here
      BY <1>1, <2>1, <2>3, <2>6, <3>2, NothingOpens DEF MediaInv, LeaksHaveCause, Typed
    <3> QED BY <1>1, <2>1, <2>6, <3>1, <3>2, LeaksStay DEF MediaInv
  <2>11. ProducersAreKnown'
    BY <1>1, <2>1, <2>4, <2>6, KnownStays DEF MediaInv, TypeOK
  <2> QED BY <2>5, <2>7, <2>8, <2>9, <2>10, <2>11 DEF MediaInv
<1> QED BY <1>2, <1>3 DEF AddPeer

\* createTransport: a transport made for a Peer that has left counts as late.
LEMMA TransportMadeStep ==
    ASSUME MediaInv, NEW r \in Requests, TransportMade(r)
    PROVE  MediaInv'
<1>1. /\ req[r].pc = "make" /\ req' = [req EXCEPT ![r] = Idle]
      /\ UNCHANGED <<worker, deaths, routers, room, replaced, objs, producers, consumers>>
      /\ UNCHANGED <<sockets, fetched, known>>
  BY DEF TransportMade, socketVars
<1> DEFINE x == [owner |-> req[r].obj, closed |-> FALSE, late |-> ~objs[req[r].obj].here]
           n == Len(transports) + 1
<1>2. CASE UNCHANGED transports
  BY <1>1, <1>2, IdleStep DEF mediaVars, socketVars
<1>3. CASE transports' = Append(transports, x)
  <2>1. TypeOK /\ Typed
    BY TypedHolds DEF MediaInv
  <2>2. req[r].obj \in DOMAIN objs
    BY <1>1 DEF MediaInv, RequestsAreSound, Sound
  <2>3. x \in Transport /\ x.owner = req[r].obj /\ x.late = ~objs[req[r].obj].here
    <3>1. req[r].obj \in Nat /\ objs[req[r].obj].here \in BOOLEAN
      BY <2>1, <2>2 DEF TypeOK, Typed, PeerObj
    <3> QED BY <3>1 DEF Transport
  <2>4. Idle \in Request /\ Idle.pc = "idle"
    BY DEF Idle, Request
  <2> HIDE DEF x
  <2>5. /\ transports' \in Seq(Transport) /\ DOMAIN transports' = DOMAIN transports \cup {n}
        /\ \A t \in DOMAIN transports : transports'[t] = transports[t]
        /\ transports'[n] = x
    BY <1>3, <2>1, <2>3, AppendFacts DEF TypeOK
  <2> HIDE DEF n
  <2>6. /\ req' \in [Requests -> Request] /\ req'[r] = Idle
        /\ \A s \in Requests : s # r => req'[s] = req[s]
    BY <1>1, <2>1, <2>4, SlotStep
  <2>7. TypeOK'
    BY <1>1, <2>1, <2>2, <2>3, <2>5, <2>6 DEF TypeOK
  <2>8. Typed' /\ Grown
    BY <1>1, <2>5, <2>7, TypedHolds DEF Grown
  <2>9. RequestsAreSound'
    <3>1. Sound(req[r])'
      BY <2>4, <2>6 DEF Sound
    <3> QED BY <2>1, <2>6, <2>8, <3>1, SoundStays DEF MediaInv
  <2>10. LateIsGone'
    BY <1>1, <2>1, <2>3, <2>5, <2>8, LateStays DEF MediaInv
  <2>11. HoldersExist' /\ ConsumersStayInRouter' /\ OneConsumerPerProducer'
    BY <1>1, <2>1, <2>8, HoldersStay, InRouterStays, OneConsumerStays DEF MediaInv
  <2>12. FetchedIsConnected' /\ RoomIsUsable'
    BY <1>1 DEF MediaInv, FetchedIsConnected, RoomIsUsable
  <2>13. LeaksHaveCause'
    <3>1. ASSUME NEW j \in DOMAIN routers', routers'[j] = "open"
          PROVE  j = room' \/ j \in replaced'
      BY <1>1, <3>1 DEF MediaInv, LeaksHaveCause
    <3>2. ASSUME NEW t \in DOMAIN transports', TransportOpen(t)', ~transports'[t].late
          PROVE  objs'[transports'[t].owner].here
      <4>1. CASE t \in DOMAIN transports
        BY <1>1, <2>1, <2>5, <2>8, <3>2, <4>1, NothingOpens DEF MediaInv, LeaksHaveCause
      <4>2. CASE t = n
        BY <1>1, <2>3, <2>5, <3>2, <4>2
      <4> QED BY <2>5, <4>1, <4>2
    <3> QED BY <1>1, <2>1, <2>8, <3>1, <3>2, LeaksStay DEF MediaInv
  <2>14. ProducersAreKnown'
    BY <1>1, <2>1, <2>6, <2>8, KnownStays DEF MediaInv, TypeOK
  <2> QED BY <2>7, <2>9, <2>10, <2>11, <2>12, <2>13, <2>14 DEF MediaInv
<1> QED BY <1>2, <1>3 DEF TransportMade

\* mediaProduce, once the producer x is made: one that nobody holds is on a
\* transport whose Peer object is no longer in the registered Room, so the Room was
\* replaced while the producer was made.
LEMMA ProducerAdded ==
    ASSUME MediaInv, NEW r \in Requests, req[r].pc = "produce",
           NEW x \in Producer, NEW q \in Request,
           x.transport = req[r].transport, x.late = ~TransportOpen(req[r].transport),
           producers' = Append(producers, x), req' = [req EXCEPT ![r] = q],
           \/ q.pc = "idle" /\ x.holder = 0 /\ PeerIn(room, req[r].peer) = {}
           \/ /\ q.pc = "notify" /\ q.producer = Len(producers) + 1 /\ q.peer \in Peers
              /\ x.holder \in DOMAIN objs,
           UNCHANGED <<worker, deaths, routers, room, replaced, objs, transports, consumers>>,
           UNCHANGED <<sockets, fetched, known>>
    PROVE  MediaInv'
<1> DEFINE n == Len(producers) + 1
<1>1. TypeOK /\ Typed
  BY TypedHolds DEF MediaInv
<1>2. /\ req[r].transport \in DOMAIN transports
      /\ objs[transports[req[r].transport].owner].peer = req[r].peer
      /\ ~transports[req[r].transport].late
  BY DEF MediaInv, RequestsAreSound, Sound
<1>3. /\ producers' \in Seq(Producer) /\ DOMAIN producers' = DOMAIN producers \cup {n}
      /\ \A i \in DOMAIN producers : producers'[i] = producers[i]
      /\ producers'[n] = x /\ n \notin DOMAIN producers
  BY <1>1, AppendFacts DEF TypeOK
<1>4. q.pc = "idle" \/ (q.pc = "notify" /\ q.producer = n /\ q.peer \in Peers)
  OBVIOUS
<1> HIDE DEF n
<1>5. /\ req' \in [Requests -> Request] /\ req'[r] = q
      /\ \A s \in Requests : s # r => req'[s] = req[s]
  BY <1>1, SlotStep
<1>6. TypeOK'
  BY <1>1, <1>2, <1>3, <1>5 DEF TypeOK
<1>7. Typed' /\ Grown
  BY <1>3, <1>6, TypedHolds DEF Grown
<1>8. RequestsAreSound'
  <2>1. Sound(req[r])'
    BY <1>3, <1>4, <1>5 DEF Sound
  <2> QED BY <1>1, <1>5, <1>7, <2>1, SoundStays DEF MediaInv
<1>9. HoldersExist'
  BY <1>1, <1>3, <1>7, HoldersStay DEF MediaInv
<1>10. LateIsGone' /\ ConsumersStayInRouter' /\ OneConsumerPerProducer'
  BY <1>1, <1>7, LateStays, InRouterStays, OneConsumerStays DEF MediaInv
<1>11. FetchedIsConnected' /\ RoomIsUsable'
  BY DEF MediaInv, FetchedIsConnected, RoomIsUsable
<1>12. LeaksHaveCause'
  <2>1. ASSUME NEW j \in DOMAIN routers', routers'[j] = "open"
        PROVE  j = room' \/ j \in replaced'
    BY <2>1 DEF MediaInv, LeaksHaveCause
  <2>2. ASSUME NEW t \in DOMAIN transports', TransportOpen(t)', ~transports'[t].late
        PROVE  objs'[transports'[t].owner].here
    BY <1>1, <1>7, <2>2, NothingOpens DEF MediaInv, LeaksHaveCause
  <2>3. ASSUME NEW i \in DOMAIN producers' \ DOMAIN producers,
               ProducerOpen(i)', producers'[i].holder = 0
        PROVE  (RouterOf(producers[i].transport) \in replaced)'
    <3> DEFINE t == req[r].transport
    <3>1. producers'[i] = x
      BY <1>3
    <3>2. x.holder = 0 /\ ~x.late
      BY <2>3, <3>1 DEF ProducerOpen
    <3>3. PeerIn(room, req[r].peer) = {} /\ TransportOpen(t)
      BY <1>1, <3>2 DEF Typed
    <3>4. objs[transports[t].owner].here /\ transports[t].owner \in DOMAIN objs
      BY <1>1, <1>2, <3>3 DEF MediaInv, LeaksHaveCause, Typed
    <3>5. RouterOf(t) # room
      BY <1>2, <3>3, <3>4 DEF PeerIn, Here, RouterOf
    <3>6. RouterOf(t) \in replaced
      BY <1>1, <3>3, <3>4, <3>5 DEF MediaInv, LeaksHaveCause, TransportOpen, RouterOf, Typed
    <3> QED BY <3>1, <3>6 DEF RouterOf
  <2> QED BY <1>1, <1>7, <2>1, <2>2, <2>3, LeaksStay DEF MediaInv
<1>13. ProducersAreKnown'
  <2>1. x.holder = 0 \/ (q.pc = "notify" /\ q.producer = n)
    BY DEF n
  <2>2. \A i \in DOMAIN producers' \ DOMAIN producers :
           \/ producers'[i].holder = 0
           \/ \E s \in Requests : req'[s].pc = "notify" /\ req'[s].producer = i
    BY <1>3, <1>5, <2>1
  <2> QED BY <1>1, <1>5, <1>7, <2>2, KnownStays DEF MediaInv, TypeOK
<1> QED BY <1>6, <1>8, <1>9, <1>10, <1>11, <1>12, <1>13 DEF MediaInv

LEMMA ProducerMadeStep ==
    ASSUME MediaInv, NEW r \in Requests, ProducerMade(r)
    PROVE  MediaInv'
<1> DEFINE t == req[r].transport
           x(o) == [transport |-> t, holder |-> o, late |-> ~TransportOpen(t)]
<1>1. /\ req[r].pc = "produce"
      /\ UNCHANGED <<worker, deaths, routers, room, replaced, objs, transports, consumers>>
      /\ UNCHANGED <<sockets, fetched, known>>
  BY DEF ProducerMade, socketVars
<1>2. /\ t \in Nat /\ req[r].peer \in Peers /\ req[r] \in Request
      /\ DOMAIN objs \subseteq Nat /\ producers \in Seq(Producer)
  BY <1>1 DEF MediaInv, RequestsAreSound, Sound, TypeOK
<1>3. ASSUME NEW o \in Nat
      PROVE  /\ x(o) \in Producer /\ x(o).transport = t /\ x(o).holder = o
             /\ x(o).late = ~TransportOpen(t)
  <2>1. TransportOpen(t) \in BOOLEAN
    BY DEF TransportOpen
  <2> QED BY <1>2, <1>3, <2>1 DEF Producer
<1>4. \/ /\ PeerIn(room, req[r].peer) = {} /\ producers' = Append(producers, x(0))
         /\ req' = [req EXCEPT ![r] = Idle]
      \/ \E o \in PeerIn(room, req[r].peer) :
         /\ producers' = Append(producers, x(o))
         /\ req' = [req EXCEPT ![r].pc = "notify", ![r].producer = Len(producers')]
  <2>1. \/ /\ PeerIn(room, req[r].peer) = {} /\ producers' = Append(producers, x(0))
           /\ req' = [req EXCEPT ![r] = Idle]
        \/ \E o \in PeerIn(room, req[r].peer) :
           /\ producers' = Append(producers, [x(0) EXCEPT !.holder = o])
           /\ req' = [req EXCEPT ![r].pc = "notify", ![r].producer = Len(producers')]
    BY ZenonT(30) DEF ProducerMade
  <2>2. \A o : [x(0) EXCEPT !.holder = o] = x(o)
    OBVIOUS
  <2> QED BY <2>1, <2>2
<1>5. CASE /\ PeerIn(room, req[r].peer) = {} /\ producers' = Append(producers, x(0))
           /\ req' = [req EXCEPT ![r] = Idle]
  <2>1. Idle \in Request /\ Idle.pc = "idle"
    BY DEF Idle, Request
  <2> HIDE DEF x, t
  <2> QED BY <1>1, <1>3, <1>5, <2>1, ProducerAdded DEF t
<1>6. ASSUME NEW o \in PeerIn(room, req[r].peer), producers' = Append(producers, x(o)),
             req' = [req EXCEPT ![r].pc = "notify", ![r].producer = Len(producers')]
      PROVE  MediaInv'
  <2> DEFINE q == [req[r] EXCEPT !.pc = "notify", !.producer = Len(producers')]
  <2>1. o \in DOMAIN objs
    BY DEF PeerIn, Here
  <2>2. Len(producers') = Len(producers) + 1 /\ Len(producers') \in Nat
    BY <1>2, <1>3, <1>6, <2>1
  <2>3. /\ q \in Request /\ q.pc = "notify" /\ q.producer = Len(producers) + 1
        /\ q.peer = req[r].peer /\ req' = [req EXCEPT ![r] = q]
    BY <1>2, <1>6, <2>2 DEF Request, MediaInv, TypeOK
  <2>4. /\ x(o) \in Producer /\ x(o).transport = t /\ x(o).holder \in DOMAIN objs
        /\ x(o).late = ~TransportOpen(t)
    BY <1>2, <1>3, <2>1
  <2> HIDE DEF x, q
  <2>5. /\ q.pc = "notify" /\ q.producer = Len(producers) + 1 /\ q.peer \in Peers
        /\ req' = [req EXCEPT ![r] = q] /\ q \in Request
    BY <1>2, <2>3
  <2> QED BY <1>1, <1>6, <2>4, <2>5, ProducerAdded
<1> QED BY <1>4, <1>5, <1>6

\* The announcement: a client that asked for the producers has its socket open.
LEMMA NotifyStep ==
    ASSUME MediaInv, NEW r \in Requests, NotifyNewProducer(r)
    PROVE  MediaInv'
<1>1. /\ req[r].pc = "notify" /\ req' = [req EXCEPT ![r] = Idle]
      /\ known' = [p \in Peers |-> IF sockets[p] > 0 THEN known[p] \cup {req[r].producer}
                                                     ELSE known[p]]
      /\ UNCHANGED mediaVars /\ UNCHANGED <<sockets, fetched>>
  BY DEF NotifyNewProducer
<1>2. Idle \in Request /\ Idle.pc = "idle"
  BY DEF Idle, Request
<1>3. TypeOK /\ Typed
  BY TypedHolds DEF MediaInv
<1>4. /\ req' \in [Requests -> Request] /\ req'[r] = Idle
      /\ \A s \in Requests : s # r => req'[s] = req[s]
  BY <1>1, <1>2, <1>3, SlotStep
<1>5. TypeOK'
  <2>1. req[r].producer \in DOMAIN producers
    BY <1>1 DEF MediaInv, RequestsAreSound, Sound
  <2>2. known' \in [Peers -> SUBSET DOMAIN producers]
    BY <1>1, <1>3, <2>1 DEF TypeOK
  <2> QED BY <1>1, <1>3, <1>4, <2>2 DEF TypeOK, mediaVars
<1>6. RequestsAreSound'
  <2>1. Sound(req[r])'
    BY <1>2, <1>4 DEF Sound
  <2> QED BY <1>1, <1>3, <1>4, <2>1, SoundStays, MediaUnchanged DEF MediaInv
<1>7. FetchedIsConnected'
  BY <1>1 DEF MediaInv, FetchedIsConnected
<1>8. ProducersAreKnown'
  <2> SUFFICES ASSUME NEW p \in fetched', NEW x \in GetProducers(p)'
               PROVE  \/ x \in known'[p]
                      \/ \E s \in Requests : req'[s].pc = "notify" /\ req'[s].producer = x
    BY DEF ProducersAreKnown
  <2>1. p \in fetched /\ p \in Peers /\ sockets[p] > 0
    BY <1>1, <1>3 DEF MediaInv, FetchedIsConnected, TypeOK
  <2>2. x \in GetProducers(p)
    BY <1>1 DEF mediaVars, GetProducers, ProducersOf, Here, TransportOpen, RouterOf
  <2>3. known'[p] = known[p] \cup {req[r].producer}
    BY <1>1, <2>1
  <2>4. \/ x \in known[p]
        \/ \E s \in Requests : req[s].pc = "notify" /\ req[s].producer = x
    BY <2>1, <2>2 DEF MediaInv, ProducersAreKnown
  <2> QED BY <1>4, <2>3, <2>4
<1> QED BY <1>1, <1>5, <1>6, <1>7, <1>8, MediaUnchanged DEF MediaInv

\* createConsumer, once the consumer y is made: if nobody holds it, then either the
\* Room was replaced meanwhile or the Peer holds another one of this producer.
LEMMA ConsumerAdded ==
    ASSUME MediaInv, NEW r \in Requests, req[r].pc = "consume", NEW y \in Consumer,
           y.transport = req[r].transport, y.producer = req[r].producer,
           y.late = ~TransportOpen(req[r].transport),
           consumers' = Append(consumers, y), req' = [req EXCEPT ![r] = Idle],
           \/ /\ y.holder = 0
              /\ \A o \in PeerIn(room, req[r].peer) :
                    \E d \in ConsumersOf(o) : consumers[d].producer = req[r].producer
           \/ /\ y.holder \in DOMAIN objs
              /\ \A d \in ConsumersOf(y.holder) : consumers[d].producer # req[r].producer,
           UNCHANGED <<worker, deaths, routers, room, replaced, objs, transports, producers>>,
           UNCHANGED <<sockets, fetched, known>>
    PROVE  MediaInv'
<1> DEFINE n == Len(consumers) + 1
<1>1. TypeOK /\ Typed
  BY TypedHolds DEF MediaInv
<1>2. /\ req[r].transport \in DOMAIN transports /\ req[r].producer \in DOMAIN producers
      /\ objs[transports[req[r].transport].owner].peer = req[r].peer
      /\ ~transports[req[r].transport].late
      /\ RouterOf(req[r].transport) = RouterOf(producers[req[r].producer].transport)
  BY DEF MediaInv, RequestsAreSound, Sound
<1>3. /\ consumers' \in Seq(Consumer) /\ DOMAIN consumers' = DOMAIN consumers \cup {n}
      /\ \A i \in DOMAIN consumers : consumers'[i] = consumers[i]
      /\ consumers'[n] = y /\ n \notin DOMAIN consumers
  BY <1>1, AppendFacts DEF TypeOK
<1> HIDE DEF n
<1>4. Idle \in Request /\ Idle.pc = "idle"
  BY DEF Idle, Request
<1>5. /\ req' \in [Requests -> Request] /\ req'[r] = Idle
      /\ \A s \in Requests : s # r => req'[s] = req[s]
  BY <1>1, <1>4, SlotStep
<1>6. TypeOK'
  BY <1>1, <1>2, <1>3, <1>5 DEF TypeOK
<1>7. Typed' /\ Grown
  BY <1>3, <1>6, TypedHolds DEF Grown
<1>8. RequestsAreSound'
  <2>1. Sound(req[r])'
    BY <1>4, <1>5 DEF Sound
  <2> QED BY <1>1, <1>5, <1>7, <2>1, SoundStays DEF MediaInv
<1>9. HoldersExist' /\ LateIsGone'
  BY <1>1, <1>3, <1>7, HoldersStay, LateStays DEF MediaInv
<1>10. ConsumersStayInRouter'
  <2>1. ASSUME NEW i \in DOMAIN consumers' \ DOMAIN consumers
        PROVE  (RouterOf(consumers[i].transport)
                   = RouterOf(producers[consumers[i].producer].transport))'
    <3>1. consumers'[i].transport = req[r].transport /\ consumers'[i].producer = req[r].producer
      BY <1>3
    <3> QED BY <1>2, <3>1 DEF RouterOf
  <2> QED BY <1>1, <1>7, <2>1, InRouterStays DEF MediaInv
<1>11. OneConsumerPerProducer'
  <2> SUFFICES ASSUME NEW o \in DOMAIN objs',
                      NEW c \in ConsumersOf(o)', NEW d \in ConsumersOf(o)',
                      consumers'[c].producer = consumers'[d].producer
               PROVE  c = d
    BY DEF OneConsumerPerProducer
  <2>1. /\ o \in DOMAIN objs /\ o # 0
        /\ c \in DOMAIN consumers' /\ consumers'[c].holder = o
        /\ d \in DOMAIN consumers' /\ consumers'[d].holder = o
    BY <1>1 DEF ConsumersOf, Typed
  <2>2. \A i \in DOMAIN consumers : i \in ConsumersOf(o)' => i \in ConsumersOf(o)
    BY <1>1, <1>7, MapsShrink
  <2>3. \A i \in DOMAIN consumers' \ DOMAIN consumers, j \in DOMAIN consumers :
           j \in ConsumersOf(o) /\ consumers'[i].holder = o =>
               consumers'[j].producer # consumers'[i].producer
    BY <1>3, <2>1
  <2>4. \A i, j \in DOMAIN consumers' \ DOMAIN consumers : i = j
    BY <1>3
  <2>5. CASE c \in DOMAIN consumers /\ d \in DOMAIN consumers
    BY <1>3, <2>1, <2>2, <2>5 DEF MediaInv, OneConsumerPerProducer
  <2> QED BY <2>1, <2>2, <2>3, <2>4, <2>5
<1>12. FetchedIsConnected' /\ RoomIsUsable'
  BY DEF MediaInv, FetchedIsConnected, RoomIsUsable
<1>13. LeaksHaveCause'
  <2>1. ASSUME NEW j \in DOMAIN routers', routers'[j] = "open"
        PROVE  j = room' \/ j \in replaced'
    BY <2>1 DEF MediaInv, LeaksHaveCause
  <2>2. ASSUME NEW t \in DOMAIN transports', TransportOpen(t)', ~transports'[t].late
        PROVE  objs'[transports'[t].owner].here
    BY <1>1, <1>7, <2>2, NothingOpens DEF MediaInv, LeaksHaveCause
  <2>3. ASSUME NEW i \in DOMAIN consumers' \ DOMAIN consumers,
               ConsumerOpen(i)', consumers'[i].holder = 0
        PROVE  \/ (RouterOf(consumers[i].transport) \in replaced)'
               \/ \E d \in DOMAIN consumers' :
                     /\ consumers'[d].holder = transports'[consumers'[i].transport].owner
                     /\ consumers'[d].producer = consumers'[i].producer
    <3> DEFINE t == req[r].transport
               w == transports[t].owner
    <3>1. consumers'[i] = y
      BY <1>3
    <3>2. y.holder = 0 /\ ~y.late
      BY <2>3, <3>1 DEF ConsumerOpen
    <3>3. /\ TransportOpen(t)
          /\ \A o \in PeerIn(room, req[r].peer) :
                \E d \in ConsumersOf(o) : consumers[d].producer = req[r].producer
      BY <1>1, <3>2 DEF Typed
    <3>4. objs[w].here /\ w \in DOMAIN objs
      BY <1>1, <1>2, <3>3 DEF MediaInv, LeaksHaveCause, Typed
    <3>5. CASE RouterOf(t) = room
      <4>1. w \in PeerIn(room, req[r].peer)
        BY <1>2, <3>4, <3>5 DEF PeerIn, Here, RouterOf
      <4>2. PICK d \in ConsumersOf(w) : consumers[d].producer = req[r].producer
        BY <3>3, <4>1
      <4>3. d \in DOMAIN consumers /\ consumers[d].holder = w
        BY DEF ConsumersOf
      <4> QED BY <1>3, <3>1, <4>2, <4>3
    <3>6. CASE RouterOf(t) # room
      <4>1. RouterOf(t) \in replaced
        BY <1>1, <3>3, <3>4, <3>6 DEF MediaInv, LeaksHaveCause, TransportOpen, RouterOf, Typed
      <4> QED BY <3>1, <4>1 DEF RouterOf
    <3> QED BY <3>5, <3>6
  <2> QED BY <1>1, <1>7, <2>1, <2>2, <2>3, LeaksStay DEF MediaInv
<1>14. ProducersAreKnown'
  BY <1>1, <1>5, <1>7, KnownStays DEF MediaInv, TypeOK
<1> QED BY <1>6, <1>8, <1>9, <1>10, <1>11, <1>12, <1>13, <1>14 DEF MediaInv

LEMMA ConsumerMadeStep ==
    ASSUME MediaInv, NEW r \in Requests, ConsumerMade(r)
    PROVE  MediaInv'
<1> DEFINE y(o) == [transport |-> req[r].transport, producer |-> req[r].producer,
                    holder |-> o, late |-> ~TransportOpen(req[r].transport)]
           free == {o \in PeerIn(room, req[r].peer) :
                       \A c \in ConsumersOf(o) : consumers[c].producer # req[r].producer}
<1>1. /\ req[r].pc = "consume" /\ req' = [req EXCEPT ![r] = Idle]
      /\ UNCHANGED <<worker, deaths, routers, room, replaced, objs, transports, producers>>
      /\ UNCHANGED <<sockets, fetched, known>>
  BY DEF ConsumerMade, socketVars
<1>2. /\ req[r].transport \in Nat /\ req[r].producer \in Nat
      /\ DOMAIN objs \subseteq Nat
  <2>1. req[r] \in Request /\ DOMAIN objs \subseteq Nat
    BY DEF MediaInv, TypeOK
  <2> QED BY <2>1 DEF Request
<1>3. ASSUME NEW o \in Nat
      PROVE  /\ y(o) \in Consumer /\ y(o).transport = req[r].transport
             /\ y(o).producer = req[r].producer /\ y(o).holder = o
             /\ y(o).late = ~TransportOpen(req[r].transport)
  <2>1. TransportOpen(req[r].transport) \in BOOLEAN
    BY DEF TransportOpen
  <2> QED BY <1>2, <1>3, <2>1 DEF Consumer
<1>4. \/ free = {} /\ consumers' = Append(consumers, y(0))
      \/ \E o \in free : consumers' = Append(consumers, y(o))
  <2>1. \/ free = {} /\ consumers' = Append(consumers, y(0))
        \/ \E o \in free : consumers' = Append(consumers, [y(0) EXCEPT !.holder = o])
    BY ZenonT(30) DEF ConsumerMade
  <2>2. \A o : [y(0) EXCEPT !.holder = o] = y(o)
    OBVIOUS
  <2> QED BY <2>1, <2>2
<1>5. CASE free = {} /\ consumers' = Append(consumers, y(0))
  <2>1. \A o \in PeerIn(room, req[r].peer) :
            \E d \in ConsumersOf(o) : consumers[d].producer = req[r].producer
    BY <1>5
  <2>2. /\ y(0) \in Consumer /\ y(0).transport = req[r].transport
        /\ y(0).producer = req[r].producer /\ y(0).holder = 0
        /\ y(0).late = ~TransportOpen(req[r].transport)
    BY <1>3
  <2> HIDE DEF y
  <2> QED BY <1>1, <1>5, <2>1, <2>2, ConsumerAdded
<1>6. ASSUME NEW o \in free, consumers' = Append(consumers, y(o))
      PROVE  MediaInv'
  <2>1. o \in DOMAIN objs
    BY DEF PeerIn, Here
  <2>2. /\ y(o) \in Consumer /\ y(o).transport = req[r].transport
        /\ y(o).producer = req[r].producer /\ y(o).holder = o
        /\ y(o).late = ~TransportOpen(req[r].transport)
    BY <1>2, <1>3, <2>1
  <2>3. \A d \in ConsumersOf(o) : consumers[d].producer # req[r].producer
    OBVIOUS
  <2> HIDE DEF y, free
  <2> QED BY <1>1, <1>6, <2>1, <2>2, <2>3, ConsumerAdded
<1> QED BY <1>4, <1>5, <1>6

\* Request r is refused by mediasoup.
LEMMA RefusedStep ==
    ASSUME MediaInv, NEW r \in Requests, Refused(r)
    PROVE  MediaInv'
<1>1. req[r].pc # "notify"
  BY DEF Refused
<1> QED BY <1>1, IdleStep DEF Refused

\* leaveRoom marks the Peer object as gone, closes its transports, and closes the
\* router of a Room it unregisters.
LEMMA LeaveEffects ==
    ASSUME MediaInv, NEW p \in Peers, LeaveRoom(p)
    PROVE  /\ objs' \in Seq(PeerObj) /\ DOMAIN objs' = DOMAIN objs
           /\ \A o \in DOMAIN objs :
                 /\ objs'[o].peer = objs[o].peer /\ objs'[o].router = objs[o].router
                 /\ objs'[o].here = (objs[o].here /\ o \notin PeerIn(room, p))
           /\ transports' \in Seq(Transport) /\ DOMAIN transports' = DOMAIN transports
           /\ \A t \in DOMAIN transports :
                 /\ transports'[t].owner = transports[t].owner
                 /\ transports'[t].late = transports[t].late
                 /\ transports[t].closed => transports'[t].closed
                 /\ transports[t].owner \in PeerIn(room, p) => transports'[t].closed
           /\ routers' \in Seq(Router) /\ DOMAIN routers' = DOMAIN routers
           /\ Len(routers') = Len(routers)
           /\ \A k \in DOMAIN routers : routers'[k] = "open" => routers[k] = "open"
           /\ \/ room' = room /\ routers' = routers
              \/ /\ room' = 0
                 /\ room \in DOMAIN routers => routers'[room] # "open"
<1> DEFINE gone == PeerIn(room, p)
           empty == Here(room) \subseteq gone
<1> HIDE DEF gone, empty
<1>1. /\ objs' = [o \in DOMAIN objs |->
                    IF o \in gone THEN [objs[o] EXCEPT !.here = FALSE] ELSE objs[o]]
      /\ transports' = [t \in DOMAIN transports |->
                    IF transports[t].owner \in gone
                    THEN [transports[t] EXCEPT !.closed = TRUE] ELSE transports[t]]
      /\ routers' = [r \in DOMAIN routers |->
                    IF r = room /\ empty /\ routers[r] = "open" THEN "closed" ELSE routers[r]]
      /\ room' = IF empty THEN 0 ELSE room
  BY DEF LeaveRoom, gone, empty
<1>2. /\ objs \in Seq(PeerObj) /\ transports \in Seq(Transport) /\ routers \in Seq(Router)
      /\ \A o \in DOMAIN objs : objs[o] \in PeerObj
      /\ \A t \in DOMAIN transports : transports[t] \in Transport
      /\ \A k \in DOMAIN routers : routers[k] \in Router
  BY TypedHolds DEF MediaInv, TypeOK, Typed
<1>3. /\ objs' \in [DOMAIN objs -> PeerObj]
      /\ \A o \in DOMAIN objs :
            /\ objs'[o].peer = objs[o].peer /\ objs'[o].router = objs[o].router
            /\ objs'[o].here = (objs[o].here /\ o \notin gone)
  BY <1>1, <1>2 DEF PeerObj
<1>4. /\ transports' \in [DOMAIN transports -> Transport]
      /\ \A t \in DOMAIN transports :
            /\ transports'[t].owner = transports[t].owner
            /\ transports'[t].late = transports[t].late
            /\ transports[t].closed => transports'[t].closed
            /\ transports[t].owner \in gone => transports'[t].closed
  BY <1>1, <1>2 DEF Transport
<1>5. /\ routers' \in [DOMAIN routers -> Router]
      /\ \A k \in DOMAIN routers : routers'[k] = "open" => routers[k] = "open"
  BY <1>1, <1>2 DEF Router
<1>6. \/ room' = room /\ routers' = routers
      \/ room' = 0 /\ (room \in DOMAIN routers => routers'[room] # "open")
  <2>1. CASE empty
    BY <1>1, <2>1
  <2>2. CASE ~empty
    BY <1>1, <1>2, <2>2
  <2> QED BY <2>1, <2>2
<1>7. /\ objs' \in Seq(PeerObj) /\ DOMAIN objs' = DOMAIN objs
      /\ transports' \in Seq(Transport) /\ DOMAIN transports' = DOMAIN transports
      /\ routers' \in Seq(Router) /\ DOMAIN routers' = DOMAIN routers
      /\ Len(routers') = Len(routers)
  BY <1>2, <1>3, <1>4, <1>5, MappedSeq
<1> QED BY <1>3, <1>4, <1>5, <1>6, <1>7 DEF gone

LEMMA LeaveRoomStep ==
    ASSUME MediaInv, NEW p \in Peers, LeaveRoom(p),
           sockets' \in [Peers -> 0..MaxSockets], fetched' \subseteq fetched,
           known' = known, FetchedIsConnected'
    PROVE  MediaInv'
<1>1. TypeOK /\ Typed
  BY TypedHolds DEF MediaInv
<1>2. UNCHANGED <<worker, deaths, replaced, producers, consumers, req>>
  BY DEF LeaveRoom
<1>3. TypeOK'
  <2>1. /\ objs' \in Seq(PeerObj) /\ \A o \in DOMAIN objs' : objs'[o].router \in DOMAIN routers'
        /\ transports' \in Seq(Transport)
        /\ \A t \in DOMAIN transports' : transports'[t].owner \in DOMAIN objs'
    BY <1>1, LeaveEffects DEF Typed
  <2>2. routers' \in Seq(Router) /\ room' \in 0..Len(routers')
    <3>1. routers' \in Seq(Router) /\ Len(routers') = Len(routers) /\ room' \in {room, 0}
      BY LeaveEffects
    <3> QED BY <1>1, <3>1 DEF TypeOK
  <2>3. /\ replaced' \subseteq DOMAIN routers'
        /\ producers' \in Seq(Producer)
        /\ \A x \in DOMAIN producers' : producers'[x].transport \in DOMAIN transports'
        /\ consumers' \in Seq(Consumer)
        /\ \A c \in DOMAIN consumers' :
              /\ consumers'[c].transport \in DOMAIN transports'
              /\ consumers'[c].producer \in DOMAIN producers'
    BY <1>1, <1>2, LeaveEffects DEF TypeOK
  <2>4. fetched' \subseteq Peers /\ known' \in [Peers -> SUBSET DOMAIN producers']
    BY <1>1, <1>2 DEF TypeOK
  <2> QED BY <1>1, <1>2, <2>1, <2>2, <2>3, <2>4 DEF TypeOK
<1>4. Typed' /\ Grown
  BY <1>2, <1>3, TypedHolds, LeaveEffects DEF Grown
<1>5. RequestsAreSound' /\ HoldersExist' /\ LateIsGone'
  BY <1>1, <1>2, <1>4, SoundStays, HoldersStay, LateStays, LeaveEffects DEF MediaInv
<1>6. ConsumersStayInRouter' /\ OneConsumerPerProducer'
  BY <1>1, <1>2, <1>4, InRouterStays, OneConsumerStays DEF MediaInv
<1>7. RoomIsUsable'
  BY LeaveEffects DEF MediaInv, RoomIsUsable
<1>8. LeaksHaveCause'
  <2>1. ASSUME NEW j \in DOMAIN routers', routers'[j] = "open"
        PROVE  j = room' \/ j \in replaced'
    BY <1>2, <2>1, LeaveEffects DEF MediaInv, LeaksHaveCause
  <2>2. ASSUME NEW t \in DOMAIN transports', TransportOpen(t)', ~transports'[t].late
        PROVE  objs'[transports'[t].owner].here
    <3>1. /\ t \in DOMAIN transports /\ transports[t].owner \in DOMAIN objs
          /\ transports'[t].owner = transports[t].owner
          /\ transports[t].owner \notin PeerIn(room, p)
      BY <1>1, <2>2, LeaveEffects DEF Typed, TransportOpen
    <3>2. objs[transports[t].owner].here
      BY <1>1, <1>4, <2>2, <3>1, NothingOpens, LeaveEffects DEF MediaInv, LeaksHaveCause
    <3> QED BY <3>1, <3>2, LeaveEffects
  <2> QED BY <1>1, <1>2, <1>4, <2>1, <2>2, LeaksStay DEF MediaInv
<1>9. ProducersAreKnown'
  <2>1. room' = room \/ Here(room)' = {}
    BY <1>4, LeaveEffects DEF Here, Typed
  <2> QED BY <1>1, <1>2, <1>4, <2>1, KnownStays DEF MediaInv, TypeOK
<1> QED BY <1>3, <1>5, <1>6, <1>7, <1>8, <1>9 DEF MediaInv

LEMMA LeaveStep ==
    ASSUME MediaInv, NEW p \in Peers, Leave(p)
    PROVE  MediaInv'
<1>1. LeaveRoom(p) /\ sockets' = sockets /\ fetched' = fetched /\ known' = known
  BY DEF Leave, socketVars
<1>2. FetchedIsConnected'
  BY <1>1 DEF MediaInv, FetchedIsConnected
<1> QED BY <1>1, <1>2, LeaveRoomStep DEF MediaInv, TypeOK

LEMMA DisconnectStep ==
    ASSUME MediaInv, NEW p \in Peers, HandleDisconnect(p)
    PROVE  MediaInv'
<1>1. /\ LeaveRoom(p) /\ sockets[p] > 0 /\ sockets' = [sockets EXCEPT ![p] = @ - 1]
      /\ fetched' = IF sockets[p] = 1 THEN fetched \ {p} ELSE fetched
      /\ known' = known
  BY DEF HandleDisconnect
<1>2. sockets \in [Peers -> 0..MaxSockets] /\ MaxSockets \in Nat
  BY BoundsAssumption DEF MediaInv, TypeOK
<1>3. sockets' \in [Peers -> 0..MaxSockets]
  BY <1>1, <1>2
<1>4. FetchedIsConnected'
  BY <1>1, <1>2 DEF MediaInv, FetchedIsConnected, TypeOK
<1> QED BY <1>1, <1>3, <1>4, LeaveRoomStep

\* Steps of the sockets alone.
LEMMA SocketStep ==
    ASSUME MediaInv, UNCHANGED mediaVars, req' = req,
           sockets' \in [Peers -> 0..MaxSockets], fetched' \subseteq Peers,
           known' \in [Peers -> SUBSET DOMAIN producers],
           FetchedIsConnected', ProducersAreKnown'
    PROVE  MediaInv'
<1>1. TypeOK /\ Typed /\ Grown
  BY TypedHolds, MediaUnchanged DEF MediaInv
<1>2. TypeOK'
  BY <1>1 DEF TypeOK, mediaVars
<1>3. RequestsAreSound'
  BY <1>1, SoundStays DEF MediaInv
<1> QED BY <1>2, <1>3, MediaUnchanged DEF MediaInv

LEMMA ConnectionStep ==
    ASSUME MediaInv, NEW p \in Peers, HandleConnection(p)
    PROVE  MediaInv'
<1>1. /\ UNCHANGED mediaVars /\ UNCHANGED <<fetched, known, req>>
      /\ sockets[p] < MaxSockets /\ sockets' = [sockets EXCEPT ![p] = @ + 1]
  BY DEF HandleConnection
<1>2. TypeOK /\ Typed /\ MaxSockets \in Nat
  BY BoundsAssumption, TypedHolds DEF MediaInv
<1>3. sockets' \in [Peers -> 0..MaxSockets] /\ FetchedIsConnected'
  BY <1>1, <1>2 DEF MediaInv, TypeOK, FetchedIsConnected
<1>4. ProducersAreKnown'
  BY <1>1 DEF MediaInv, ProducersAreKnown, mediaVars, GetProducers, ProducersOf, Here,
              TransportOpen, RouterOf
<1> QED BY <1>1, <1>2, <1>3, <1>4, SocketStep DEF TypeOK

LEMMA FetchStep ==
    ASSUME MediaInv, NEW p \in Peers, FetchProducers(p)
    PROVE  MediaInv'
<1>1. /\ UNCHANGED mediaVars /\ UNCHANGED <<sockets, req>>
      /\ fetched' = IF sockets[p] > 0 THEN fetched \cup {p} ELSE fetched
      /\ known' = [known EXCEPT ![p] = @ \cup GetProducers(p)]
  BY DEF FetchProducers
<1>2. TypeOK /\ Typed
  BY TypedHolds DEF MediaInv
<1>3. GetProducers(p) \subseteq DOMAIN producers
  BY DEF GetProducers, ProducersOf
<1>4. /\ fetched' \subseteq Peers /\ known' \in [Peers -> SUBSET DOMAIN producers]
      /\ FetchedIsConnected'
  BY <1>1, <1>2, <1>3 DEF MediaInv, TypeOK, FetchedIsConnected
<1>5. ProducersAreKnown'
  <2> SUFFICES ASSUME NEW q \in fetched', NEW x \in GetProducers(q)'
               PROVE  \/ x \in known'[q]
                      \/ \E s \in Requests : req'[s].pc = "notify" /\ req'[s].producer = x
    BY DEF ProducersAreKnown
  <2>1. x \in GetProducers(q)
    BY <1>1 DEF mediaVars, GetProducers, ProducersOf, Here, TransportOpen, RouterOf
  <2>2. CASE q = p
    BY <1>1, <1>2, <2>1, <2>2 DEF TypeOK
  <2>3. CASE q # p
    <3>1. q \in fetched /\ known'[q] = known[q]
      BY <1>1, <1>2, <2>3 DEF TypeOK
    <3> QED BY <1>1, <2>1, <3>1 DEF MediaInv, ProducersAreKnown
  <2> QED BY <2>2, <2>3
<1> QED BY <1>1, <1>2, <1>4, <1>5, SocketStep DEF TypeOK

LEMMA WorkerDiedStep ==
    ASSUME MediaInv, WorkerDied
    PROVE  MediaInv'
<1>1. /\ worker' = FALSE /\ deaths < MaxDeaths /\ deaths' = deaths + 1
      /\ routers' = [k \in DOMAIN routers |->
                        IF routers[k] = "open" THEN "died" ELSE routers[k]]
      /\ req' = [r \in Requests |->
                    IF req[r].pc \in {"create", "make", "produce", "consume"}
                    THEN Idle ELSE req[r]]
      /\ UNCHANGED <<room, replaced, objs, transports, producers, consumers>>
      /\ UNCHANGED <<sockets, fetched, known>>
  BY DEF WorkerDied, socketVars
<1>2. TypeOK /\ Typed
  BY TypedHolds DEF MediaInv
<1>3. /\ routers' \in Seq(Router) /\ Len(routers') = Len(routers)
      /\ DOMAIN routers' = DOMAIN routers
      /\ \A k \in DOMAIN routers :
            /\ routers'[k] # "open"
            /\ routers'[k] = routers[k] \/ routers'[k] = "died"
  <2>1. routers' \in [DOMAIN routers -> Router]
    BY <1>1, <1>2 DEF Typed, Router
  <2>2. routers \in Seq(Router)
    BY <1>2 DEF TypeOK
  <2> QED BY <1>1, <2>1, <2>2, MappedSeq
<1>4. Idle \in Request /\ Idle.pc = "idle"
  BY DEF Idle, Request
<1>5. /\ req' \in [Requests -> Request]
      /\ \A s \in Requests : req'[s] = req[s] \/ req'[s] = Idle
      /\ \A s \in Requests : req[s].pc = "notify" => req'[s] = req[s]
  BY <1>1, <1>2, <1>4 DEF TypeOK
<1>6. TypeOK'
  <2>1. worker' \in BOOLEAN /\ deaths' \in 0..MaxDeaths
    <3>1. MaxDeaths \in Nat /\ deaths \in 0..MaxDeaths
      BY <1>2, BoundsAssumption DEF TypeOK
    <3>2. deaths < MaxDeaths /\ deaths' = deaths + 1
      BY <1>1
    <3>3. deaths' \in 0..MaxDeaths
      BY <3>1, <3>2
    <3> QED BY <1>1, <3>3
  <2> QED BY <1>1, <1>2, <1>3, <1>5, <2>1 DEF TypeOK
<1>7. Typed' /\ Grown
  BY <1>1, <1>3, <1>6, TypedHolds DEF Grown
<1>8. RequestsAreSound'
  <2>1. ASSUME NEW s \in Requests, req'[s] = Idle PROVE Sound(req[s])'
    BY <1>4, <2>1 DEF Sound
  <2> QED BY <1>2, <1>5, <1>7, <2>1, SoundStays DEF MediaInv
<1>9. HoldersExist' /\ LateIsGone' /\ ConsumersStayInRouter' /\ OneConsumerPerProducer'
  BY <1>1, <1>2, <1>7, HoldersStay, LateStays, InRouterStays, OneConsumerStays DEF MediaInv
<1>10. FetchedIsConnected' /\ RoomIsUsable'
  BY <1>1, <1>2, <1>3 DEF MediaInv, FetchedIsConnected, RoomIsUsable, Typed
<1>11. LeaksHaveCause'
  <2>1. \A t \in DOMAIN transports' : ~TransportOpen(t)'
    BY <1>1, <1>2, <1>3 DEF TransportOpen, RouterOf, Typed
  <2> QED BY <1>1, <1>2, <1>3, <1>7, <2>1, LeaksStay DEF MediaInv
<1>12. ProducersAreKnown'
  BY <1>1, <1>2, <1>5, <1>7, KnownStays DEF MediaInv, TypeOK
<1> QED BY <1>6, <1>8, <1>9, <1>10, <1>11, <1>12 DEF MediaInv

\* No part of the invariant but its type is about the worker itself.
LEMMA StartWorkerStep ==
    ASSUME MediaInv, StartWorker
    PROVE  MediaInv'
<1>1. /\ worker' = TRUE
      /\ UNCHANGED <<deaths, routers, room, replaced, objs, transports, producers, consumers>>
      /\ UNCHANGED <<sockets, fetched, known, req>>
  BY DEF StartWorker, socketVars
<1>2. TypeOK /\ Typed
  BY TypedHolds DEF MediaInv
<1>3. TypeOK'
  BY <1>1, <1>2 DEF TypeOK
<1>4. Typed' /\ Grown
  BY <1>1, <1>3, TypedHolds DEF Grown
<1>5. RequestsAreSound' /\ HoldersExist' /\ LateIsGone' /\ ConsumersStayInRouter'
  BY <1>1, <1>2, <1>4, SoundStays, HoldersStay, LateStays, InRouterStays DEF MediaInv
<1>6. OneConsumerPerProducer' /\ FetchedIsConnected' /\ RoomIsUsable'
  BY <1>1, <1>2, <1>4, OneConsumerStays DEF MediaInv, FetchedIsConnected, RoomIsUsable
<1>7. LeaksHaveCause' /\ ProducersAreKnown'
  <2>1. LeaksHaveCause'
    BY <1>1 DEF MediaInv, LeaksHaveCause, ConsumerOpen, ProducerOpen, TransportOpen, RouterOf
  <2>2. ProducersAreKnown'
    BY <1>1, <1>2, <1>4, KnownStays DEF MediaInv, TypeOK
  <2> QED BY <2>1, <2>2
<1> QED BY <1>3, <1>5, <1>6, <1>7 DEF MediaInv

\* The handlers that await getOrCreateRoom.
LEMMA RoomStep ==
    ASSUME MediaInv, NEW r \in Requests
    PROVE  /\ \A p \in Peers : JoinRoom(r, p) \/ CreateTransport(r, p) => MediaInv'
           /\ JoinAgain(r) \/ JoinCreated(r) \/ TransportInCreated(r) => MediaInv'
<1>1. room = 0 \/ room \in DOMAIN routers
  BY TypedHolds DEF MediaInv, Typed
<1>2. ASSUME NEW p \in Peers, JoinRoom(r, p) \/ CreateTransport(r, p)
      PROVE  MediaInv'
  <2>1. req[r].pc # "notify"
    <3>1. req[r] = Idle
      BY <1>2 DEF JoinRoom, CreateTransport
    <3> QED BY <3>1, IdleSlot
  <2> QED BY <1>1, <1>2, <2>1, CreateRouterStep, AddPeerStep, MakeTransportStep
          DEF JoinRoom, CreateTransport
<1>3. ASSUME JoinAgain(r) \/ JoinCreated(r) \/ TransportInCreated(r)
      PROVE  MediaInv'
  <2>1. req[r].pc = "got"
    BY <1>3 DEF JoinAgain, JoinCreated, TransportInCreated
  <2>2. req[r].peer \in Peers /\ req[r].router \in DOMAIN routers
    BY <2>1 DEF MediaInv, RequestsAreSound, Sound
  <2> QED BY <1>1, <1>3, <2>1, <2>2, CreateRouterStep, AddPeerStep, MakeTransportStep
          DEF JoinAgain, JoinCreated, TransportInCreated
<1> QED BY <1>2, <1>3

LEMMA NextKeepsInv == MediaInv /\ [Next]_vars => MediaInv'
<1> SUFFICES ASSUME MediaInv, [Next]_vars PROVE MediaInv'
  OBVIOUS
<1>1. ASSUME NEW r \in Requests, RequestStep(r) PROVE MediaInv'
  <2>1. CASE JoinAgain(r) \/ JoinCreated(r) \/ TransportInCreated(r)
    BY <2>1, RoomStep
  <2>2. CASE RouterCreated(r) \/ TransportMade(r) \/ ProducerMade(r)
    BY <2>2, RouterCreatedStep, TransportMadeStep, ProducerMadeStep
  <2>3. CASE NotifyNewProducer(r) \/ ConsumerMade(r) \/ Refused(r)
    BY <2>3, NotifyStep, ConsumerMadeStep, RefusedStep
  <2> QED BY <1>1, <2>1, <2>2, <2>3 DEF RequestStep
<1>2. ASSUME NEW r \in Requests, NEW p \in Peers, Call(r, p) PROVE MediaInv'
  BY <1>2, RoomStep, CreateProducerStep, CreateConsumerStep DEF Call
<1>3. ASSUME NEW p \in Peers, ClientStep(p) PROVE MediaInv'
  BY <1>3, LeaveStep, ConnectionStep, DisconnectStep, FetchStep DEF ClientStep
<1>4. CASE UNCHANGED vars
  <2>1. UNCHANGED mediaVars /\ UNCHANGED <<sockets, fetched, known, req>>
    BY <1>4 DEF vars, socketVars
  <2>2. FetchedIsConnected' /\ ProducersAreKnown'
    BY <2>1 DEF MediaInv, FetchedIsConnected, ProducersAreKnown, mediaVars, GetProducers,
                ProducersOf, Here, TransportOpen, RouterOf
  <2> QED BY <2>1, <2>2, SocketStep DEF MediaInv, TypeOK
<1> QED BY <1>1, <1>2, <1>3, <1>4, WorkerDiedStep, StartWorkerStep DEF Next

-------------------------------------------------------------------------------
(* The theorems. *)

\* MediaInv, with the type of the maps and of the requests, holds in every state:
\* whatever requests, departures and deaths of the worker overlap, the maps of the
\* service and the objects of mediasoup agree as far as it says.  In particular a
\* peer never has two entries for one producer (createConsumer asks its map after
\* the await) and a consumer lives on its producer's router.
THEOREM MediaInvHolds == Spec => []MediaInv
<1>1. Init => MediaInv
  BY InitInv
<1>2. MediaInv /\ [Next]_vars => MediaInv'
  BY NextKeepsInv
<1> QED BY <1>1, <1>2, PTL DEF Spec

\* Nothing stays open on mediasoup's side that no map of the service holds, unless
\* the room was registered twice, its peer left while it was made, or the peer
\* consumes the producer already (getOrCreateRoom, createTransport, createConsumer).
THEOREM LeaksHaveCauseHolds == Spec => []LeaksHaveCause
<1>1. MediaInv => LeaksHaveCause
  BY DEF MediaInv
<1> QED BY <1>1, MediaInvHolds, PTL

\* No order of joins and leaves keeps a closed router in the Map `rooms`: leaveRoom
\* unregisters in the step that closes.
THEOREM RoomIsUsableHolds == Spec => []RoomIsUsable
<1>1. MediaInv => RoomIsUsable
  BY DEF MediaInv
<1> QED BY <1>1, MediaInvHolds, PTL

\* A client that connects its socket and then asks for the producers knows every
\* producer the others list, or is about to be told (VideoController.produce).
THEOREM ProducersAreKnownHolds == Spec => []ProducersAreKnown
<1>1. MediaInv => ProducersAreKnown
  BY DEF MediaInv
<1> QED BY <1>1, MediaInvHolds, PTL

-------------------------------------------------------------------------------
(* Only a departure or the death of the worker closes anything. *)

\* A step that leaves the objects there are as they were.
Kept ==
    /\ \A t \in DOMAIN transports : transports'[t] = transports[t]
    /\ \A k \in DOMAIN routers : routers'[k] = routers[k]
    /\ \A o \in DOMAIN objs : objs'[o] = objs[o]

LEMMA KeptStep ==
    ASSUME TypeOK, Next
    PROVE  Kept \/ WorkerDied \/ \E p \in Peers : LeaveRoom(p)
<1>1. /\ routers \in Seq(Router) /\ objs \in Seq(PeerObj) /\ transports \in Seq(Transport)
      /\ \A k \in DOMAIN routers : Append(routers, "open")[k] = routers[k]
  BY DEF TypeOK, Router
<1>2. ASSUME NEW e PROVE /\ \A o \in DOMAIN objs : Append(objs, e)[o] = objs[o]
                         /\ \A t \in DOMAIN transports : Append(transports, e)[t] = transports[t]
  BY <1>1
<1>3. ASSUME NEW r \in Requests, NEW p, NEW q, AddPeer(r, p, q) PROVE Kept
  BY <1>2, <1>3 DEF AddPeer, Kept
<1>4. ASSUME UNCHANGED <<routers, objs, transports>> PROVE Kept
  BY <1>4 DEF Kept
<1>5. ASSUME NEW r \in Requests, NEW p, NEW then, CreateRouter(r, p, then) PROVE Kept
  BY <1>4, <1>5 DEF CreateRouter, mediaVars
<1>6. ASSUME NEW r \in Requests, NEW p, NEW q, MakeTransport(r, p, q) PROVE Kept
  BY <1>4, <1>6 DEF MakeTransport, mediaVars
<1>7. ASSUME NEW r \in Requests, RequestStep(r) PROVE Kept
  <2>1. CASE RouterCreated(r)
    BY <1>1, <2>1 DEF RouterCreated, Kept
  <2>2. CASE JoinAgain(r) \/ JoinCreated(r) \/ TransportInCreated(r)
    BY <1>3, <1>5, <1>6, <2>2 DEF JoinAgain, JoinCreated, TransportInCreated
  <2>3. CASE TransportMade(r)
    BY <1>2, <2>3 DEF TransportMade, Kept
  <2>4. CASE ProducerMade(r) \/ ConsumerMade(r)
    BY <1>4, <2>4 DEF ProducerMade, ConsumerMade
  <2>5. CASE NotifyNewProducer(r) \/ Refused(r)
    BY <1>4, <2>5 DEF NotifyNewProducer, Refused, mediaVars
  <2> QED BY <1>7, <2>1, <2>2, <2>3, <2>4, <2>5 DEF RequestStep
<1>8. ASSUME NEW r \in Requests, NEW p \in Peers, Call(r, p) PROVE Kept
  <2>1. CASE JoinRoom(r, p) \/ CreateTransport(r, p)
    BY <1>3, <1>5, <1>6, <2>1 DEF JoinRoom, CreateTransport
  <2>2. CASE CreateProducer(r, p) \/ CreateConsumer(r, p)
    BY <1>4, <2>2 DEF CreateProducer, CreateConsumer, mediaVars
  <2> QED BY <1>8, <2>1, <2>2 DEF Call
<1>9. ASSUME NEW p \in Peers, ClientStep(p) PROVE Kept \/ LeaveRoom(p)
  BY <1>4, <1>9 DEF ClientStep, Leave, HandleDisconnect, HandleConnection, FetchProducers,
                    mediaVars
<1>10. ASSUME StartWorker PROVE Kept
  BY <1>4, <1>10 DEF StartWorker
<1> QED BY <1>7, <1>8, <1>9, <1>10 DEF Next

\* Nobody's media is cut off by somebody else: while the worker lives, a step
\* closes the open transport of a peer in its Room only if that peer leaves in it.
\* (leaveRoom closes the router only of a Room that it leaves empty.)
THEOREM MediaIsNotCutHolds == Spec => MediaIsNotCut
<1> DEFINE Cut(t) == TransportOpen(t) /\ objs[transports[t].owner].here /\ worker' =>
                        \/ TransportOpen(t)'
                        \/ ~objs'[transports[t].owner].here
<1>1. ASSUME MediaInv, Next, NEW t \in DOMAIN transports,
             TransportOpen(t), objs[transports[t].owner].here, worker'
      PROVE  TransportOpen(t)' \/ ~objs'[transports[t].owner].here
  <2>1. TypeOK /\ Typed
    BY <1>1, TypedHolds DEF MediaInv
  <2>2. CASE Kept
    BY <1>1, <2>1, <2>2 DEF Kept, TransportOpen, RouterOf, Typed
  <2>3. CASE WorkerDied
    BY <1>1, <2>3 DEF WorkerDied
  <2>4. ASSUME NEW p \in Peers, LeaveRoom(p)
        PROVE  TransportOpen(t)' \/ ~objs'[transports[t].owner].here
    <3> DEFINE w == transports[t].owner
    <3>1. CASE w \in PeerIn(room, p)
      BY <1>1, <2>4, <3>1, LeaveEffects DEF PeerIn, Here
    <3>2. CASE w \notin PeerIn(room, p)
      <4>1. w \in DOMAIN objs /\ objs[w].router \in DOMAIN routers
        BY <2>1 DEF Typed
      <4>2. transports'[t] = transports[t] /\ objs'[w] = objs[w]
        BY <2>4, <3>2, <4>1 DEF LeaveRoom
      <4>3. ~(objs[w].router = room /\ Here(room) \subseteq PeerIn(room, p))
        BY <1>1, <3>2, <4>1 DEF Here
      <4>4. routers'[objs[w].router] = routers[objs[w].router]
        BY <2>4, <4>1, <4>3 DEF LeaveRoom
      <4> QED BY <1>1, <4>2, <4>4 DEF TransportOpen, RouterOf
    <3> QED BY <3>1, <3>2
  <2> QED BY <1>1, <2>1, <2>2, <2>3, <2>4, KeptStep
<1>2. MediaInv /\ [Next]_vars => [\A t \in DOMAIN transports : Cut(t)]_vars
  BY <1>1
<1> QED BY <1>2, MediaInvHolds, PTL DEF Spec, MediaIsNotCut
===============================================================================
