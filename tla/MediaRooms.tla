----------------------------- MODULE MediaRooms -----------------------------
(***************************************************************************)
(* The media rooms of MediaService (src/src/video/media.service.ts) with   *)
(* the HTTP handlers of VideoController and the sockets of VideoGateway    *)
(* that call it, for one call id: the entries of the Map `rooms` are       *)
(* independent of each other, only the worker is shared.                   *)
(*                                                                         *)
(* Everything is in memory.  A handler runs alone up to its next await;    *)
(* what it captured before the await (the Room, the Peer, the transport)   *)
(* is kept in its request, and may be gone when it goes on.  mediasoup is  *)
(* external: its calls answer, or fail.  An object is named by its place   *)
(* in the sequence of its kind; 0 stands for undefined.                    *)
(***************************************************************************)
EXTENDS Naturals, Sequences, FiniteSets

CONSTANTS
    Peers,          \* the peerIds of the clients of the call
    Requests,       \* slots for HTTP requests in progress
    MaxRouters, MaxJoins, MaxTransports, MaxProducers, MaxConsumers,
                    \* bounds on the objects ever made
    MaxSockets,     \* bound on the open sockets of one client
    MaxDeaths       \* bound on the deaths of the worker

ASSUME BoundsAssumption ==
    /\ \A m \in {MaxRouters, MaxJoins, MaxTransports, MaxProducers} : m \in Nat
    /\ \A m \in {MaxConsumers, MaxSockets, MaxDeaths} : m \in Nat

VARIABLES
    worker,         \* this.worker: is the process alive?
    deaths,         \* how often it has died
    routers,        \* every router made: open, closed or died with its worker
    room,           \* rooms.get(roomId): its router, or 0
    replaced,       \* the routers another one was registered over
    objs,           \* every Peer object made: of whom, in which Room, still there?
    transports,     \* every transport made: in whose map, closed, made too late?
    producers,      \* every producer made: on which transport, in whose map
    consumers,      \* every consumer made: likewise, and of which producer
    sockets,        \* open sockets of each client in the socket room
    fetched,        \* clients that asked for the producers since they connected
    known,          \* the producers each client was told of
    req             \* the requests in progress

mediaVars == <<worker, deaths, routers, room, replaced, objs, transports,
               producers, consumers>>
socketVars == <<sockets, fetched, known>>
vars == <<mediaVars, socketVars, req>>

Idle == [pc |-> "idle", peer |-> 0, then |-> "", router |-> 0, obj |-> 0,
         transport |-> 0, producer |-> 0]

Request == [pc : {"idle", "create", "got", "make", "produce", "notify", "consume"},
            peer : Peers \cup {0}, then : {"", "again", "join", "transport"},
            router : Nat, obj : Nat, transport : Nat, producer : Nat]

Router == {"open", "closed", "died"}
PeerObj == [peer : Peers, router : Nat, here : BOOLEAN]
Transport == [owner : Nat, closed : BOOLEAN, late : BOOLEAN]
Producer == [transport : Nat, holder : Nat, late : BOOLEAN]
Consumer == [transport : Nat, producer : Nat, holder : Nat, late : BOOLEAN]

Init ==
    /\ worker = TRUE /\ deaths = 0
    /\ routers = <<>> /\ room = 0 /\ replaced = {}
    /\ objs = <<>> /\ transports = <<>> /\ producers = <<>> /\ consumers = <<>>
    /\ sockets = [p \in Peers |-> 0]
    /\ fetched = {}
    /\ known = [p \in Peers |-> {}]
    /\ req = [r \in Requests |-> Idle]

-----------------------------------------------------------------------------
(* What the maps hold. *)

\* room.peers of the Room with router r.
Here(r) == {o \in DOMAIN objs : objs[o].here /\ objs[o].router = r}

\* this.rooms.get(roomId)?.peers.get(p): no Peer object, or the only one.
PeerIn(r, p) == {o \in Here(r) : objs[o].peer = p}

RouterOf(t) == objs[transports[t].owner].router
TransportOpen(t) == ~transports[t].closed /\ routers[RouterOf(t)] = "open"

\* mediasoup closes what lives on a closed transport, and what is closed when
\* it is made never opens.
ProducerOpen(x) == ~producers[x].late /\ TransportOpen(producers[x].transport)
ConsumerOpen(c) ==
    /\ ~consumers[c].late
    /\ TransportOpen(consumers[c].transport)
    /\ ProducerOpen(consumers[c].producer)

\* peer.producers and peer.consumers.  The 'transportclose' handler takes an
\* entry out; on a transport that was closed before the handler was set it
\* never runs.
ProducersOf(o) ==
    {x \in DOMAIN producers :
        /\ producers[x].holder = o
        /\ producers[x].late \/ TransportOpen(producers[x].transport)}
ConsumersOf(o) ==
    {c \in DOMAIN consumers :
        /\ consumers[c].holder = o
        /\ consumers[c].late \/ TransportOpen(consumers[c].transport)}

\* getProducers(roomId, p)
GetProducers(p) ==
    UNION {ProducersOf(o) : o \in {q \in Here(room) : objs[q].peer # p}}

\* getTransport(roomId, p, t), which throws if this is empty.
GetTransport(p) ==
    {t \in DOMAIN transports : transports[t].owner \in PeerIn(room, p)}

-----------------------------------------------------------------------------
(* getOrCreateRoom, and the two handlers that await it.  If the Room exists, *)
(* the promise is resolved already and the handler goes on in the same turn  *)
(* of the event loop; if not, the handler waits for mediasoup.               *)

\* The worker in this.worker refuses at once when it has died.
CreateRouter(r, p, then) ==
    /\ room = 0
    /\ req' = [req EXCEPT ![r] = IF worker
                                 THEN [Idle EXCEPT !.pc = "create", !.peer = p, !.then = then]
                                 ELSE Idle]
    /\ UNCHANGED <<mediaVars, socketVars>>

\* Every request that found no Room registers the one it has made.
RouterCreated(r) ==
    /\ req[r].pc = "create"
    /\ Len(routers) < MaxRouters
    /\ routers' = Append(routers, "open")
    /\ room' = Len(routers')
    /\ replaced' = replaced \cup ({room} \ {0})
    /\ req' = [req EXCEPT ![r].pc = "got", ![r].router = room']
    /\ UNCHANGED <<worker, deaths, objs, transports, producers, consumers, socketVars>>

\* The rest of joinRoom with the Room of router q; the answer, or the error if
\* the Room has been closed meanwhile, changes nothing.
AddPeer(r, p, q) ==
    /\ IF PeerIn(q, p) # {}
       THEN UNCHANGED objs
       ELSE /\ Len(objs) < MaxJoins
            /\ objs' = Append(objs, [peer |-> p, router |-> q, here |-> TRUE])
    /\ req' = [req EXCEPT ![r] = Idle]
    /\ UNCHANGED <<worker, deaths, routers, room, replaced, transports, producers,
                   consumers, socketVars>>

\* createTransport goes on with the Room it has got or made, also with an empty
\* one: then it throws and leaves the Room behind.
MakeTransport(r, p, q) ==
    /\ \/ PeerIn(q, p) = {} /\ req' = [req EXCEPT ![r] = Idle]
       \/ \E o \in PeerIn(q, p) :
              req' = [req EXCEPT ![r] = IF routers[q] = "open"
                                        THEN [Idle EXCEPT !.pc = "make", !.peer = p,
                                                          !.router = q, !.obj = o]
                                        ELSE Idle]
    /\ UNCHANGED <<mediaVars, socketVars>>

\* VideoController.joinRoom asks for the Room twice.
JoinRoom(r, p) ==
    /\ req[r] = Idle
    /\ \/ CreateRouter(r, p, "again")
       \/ room # 0 /\ AddPeer(r, p, room)

JoinAgain(r) ==
    /\ req[r].pc = "got" /\ req[r].then = "again"
    /\ \/ CreateRouter(r, req[r].peer, "join")
       \/ room # 0 /\ AddPeer(r, req[r].peer, room)

JoinCreated(r) ==
    /\ req[r].pc = "got" /\ req[r].then = "join"
    /\ AddPeer(r, req[r].peer, req[r].router)

CreateTransport(r, p) ==
    /\ req[r] = Idle
    /\ \/ CreateRouter(r, p, "transport")
       \/ room # 0 /\ MakeTransport(r, p, room)

TransportInCreated(r) ==
    /\ req[r].pc = "got" /\ req[r].then = "transport"
    /\ MakeTransport(r, req[r].peer, req[r].router)

\* The transport goes into the map of the Peer object of before the await.  (On
\* a router closed meanwhile it is of no use to anybody: it counts as refused.)
TransportMade(r) ==
    /\ req[r].pc = "make"
    /\ IF routers[req[r].router] = "open"
       THEN /\ Len(transports) < MaxTransports
            /\ transports' = Append(transports, [owner |-> req[r].obj, closed |-> FALSE,
                                                 late |-> ~objs[req[r].obj].here])
       ELSE UNCHANGED transports
    /\ req' = [req EXCEPT ![r] = Idle]
    /\ UNCHANGED <<worker, deaths, routers, room, replaced, objs, producers,
                   consumers, socketVars>>

-----------------------------------------------------------------------------
(* Producers and consumers. *)

CreateProducer(r, p) ==
    /\ req[r] = Idle
    /\ \E t \in GetTransport(p) :
           /\ TransportOpen(t)
           /\ req' = [req EXCEPT ![r] = [Idle EXCEPT !.pc = "produce", !.peer = p,
                                                     !.transport = t]]
    /\ UNCHANGED <<mediaVars, socketVars>>

\* The producer goes into the map of the Peer object of after the await, if
\* there is one; then the controller announces it.
ProducerMade(r) ==
    LET holders == PeerIn(room, req[r].peer)
        x == [transport |-> req[r].transport, holder |-> 0,
              late |-> ~TransportOpen(req[r].transport)]
    IN  /\ req[r].pc = "produce"
        /\ Len(producers) < MaxProducers
        /\ \/ /\ holders = {}
              /\ producers' = Append(producers, x)
              /\ req' = [req EXCEPT ![r] = Idle]
           \/ \E o \in holders :
              /\ producers' = Append(producers, [x EXCEPT !.holder = o])
              /\ req' = [req EXCEPT ![r].pc = "notify", ![r].producer = Len(producers')]
        /\ UNCHANGED <<worker, deaths, routers, room, replaced, objs, transports,
                       consumers, socketVars>>

\* Seeded bug: only the peers of the media room are told.
NotifyPeers(r) ==
    /\ req[r].pc = "notify"
    /\ known' = [p \in Peers |-> IF PeerIn(room, p) # {} THEN known[p] \cup {req[r].producer}
                                                         ELSE known[p]]
    /\ req' = [req EXCEPT ![r] = Idle]
    /\ UNCHANGED <<mediaVars, sockets, fetched>>

\* notifyNewProducer: to every socket in the socket room, the peer's own too.
NotifyNewProducer(r) ==
    /\ req[r].pc = "notify"
    /\ known' = [p \in Peers |-> IF sockets[p] > 0 THEN known[p] \cup {req[r].producer}
                                                   ELSE known[p]]
    /\ req' = [req EXCEPT ![r] = Idle]
    /\ UNCHANGED <<mediaVars, sockets, fetched>>

\* router.canConsume: the producer lives on the Room's router.
CanConsume(x) ==
    /\ ProducerOpen(x)
    /\ RouterOf(producers[x].transport) = room

CreateConsumer(r, p) ==
    /\ req[r] = Idle
    /\ \E x \in known[p] : \E t \in GetTransport(p) :
           /\ CanConsume(x)
           /\ TransportOpen(t)
           /\ req' = [req EXCEPT ![r] = [Idle EXCEPT !.pc = "consume", !.peer = p,
                                             !.transport = t, !.producer = x]]
    /\ UNCHANGED <<mediaVars, socketVars>>

\* Seeded bug: the Peer's map is asked before the await, not after it.
ConsumerUnchecked(r) ==
    /\ req[r].pc = "consume"
    /\ Len(consumers) < MaxConsumers
    /\ \E o \in PeerIn(room, req[r].peer) :
           consumers' = Append(consumers, [transport |-> req[r].transport,
                                           producer |-> req[r].producer, holder |-> o,
                                           late |-> ~TransportOpen(req[r].transport)])
    /\ req' = [req EXCEPT ![r] = Idle]
    /\ UNCHANGED <<worker, deaths, routers, room, replaced, objs, transports,
                   producers, socketVars>>

\* The consumer is made before the Peer's map is asked for one of this producer:
\* a second one, or one without a Peer, is on the transport and in no map.
ConsumerMade(r) ==
    LET free == {o \in PeerIn(room, req[r].peer) :
                    \A c \in ConsumersOf(o) : consumers[c].producer # req[r].producer}
        c == [transport |-> req[r].transport, producer |-> req[r].producer, holder |-> 0,
              late |-> ~TransportOpen(req[r].transport)]
    IN  /\ req[r].pc = "consume"
        /\ Len(consumers) < MaxConsumers
        /\ \/ free = {} /\ consumers' = Append(consumers, c)
           \/ \E o \in free : consumers' = Append(consumers, [c EXCEPT !.holder = o])
        /\ req' = [req EXCEPT ![r] = Idle]
        /\ UNCHANGED <<worker, deaths, routers, room, replaced, objs, transports,
                       producers, socketVars>>

\* mediasoup refuses: the handler throws and nothing has changed.
Refused(r) ==
    /\ req[r].pc \in {"produce", "consume"}
    /\ req' = [req EXCEPT ![r] = Idle]
    /\ UNCHANGED <<mediaVars, socketVars>>

-----------------------------------------------------------------------------
(* Leaving, sockets and the worker. *)

\* Seeded bug: the peer's transports stay open.
LeaveOpen(p) ==
    LET gone == PeerIn(room, p)
        empty == Here(room) \subseteq gone
    IN  /\ objs' = [o \in DOMAIN objs |->
                       IF o \in gone THEN [objs[o] EXCEPT !.here = FALSE] ELSE objs[o]]
        /\ routers' = [r \in DOMAIN routers |->
                       IF r = room /\ empty /\ routers[r] = "open"
                       THEN "closed" ELSE routers[r]]
        /\ room' = IF empty THEN 0 ELSE room
        /\ UNCHANGED <<worker, deaths, replaced, transports, producers, consumers, req>>

\* Seeded bug: the router is closed and the Room stays in the Map.
LeaveClosed(p) ==
    LET gone == PeerIn(room, p)
    IN  /\ objs' = [o \in DOMAIN objs |->
                       IF o \in gone THEN [objs[o] EXCEPT !.here = FALSE] ELSE objs[o]]
        /\ transports' = [t \in DOMAIN transports |->
                       IF transports[t].owner \in gone
                       THEN [transports[t] EXCEPT !.closed = TRUE] ELSE transports[t]]
        /\ routers' = [r \in DOMAIN routers |->
                       IF r = room /\ Here(room) \subseteq gone /\ routers[r] = "open"
                       THEN "closed" ELSE routers[r]]
        /\ UNCHANGED <<worker, deaths, room, replaced, producers, consumers, req>>

\* Seeded bug: the room is closed when the first peer leaves.
LeaveAndClose(p) ==
    LET gone == PeerIn(room, p)
    IN  /\ objs' = [o \in DOMAIN objs |->
                       IF o \in gone THEN [objs[o] EXCEPT !.here = FALSE] ELSE objs[o]]
        /\ transports' = [t \in DOMAIN transports |->
                       IF transports[t].owner \in gone
                       THEN [transports[t] EXCEPT !.closed = TRUE] ELSE transports[t]]
        /\ routers' = [r \in DOMAIN routers |->
                       IF r = room /\ routers[r] = "open" THEN "closed" ELSE routers[r]]
        /\ room' = 0
        /\ UNCHANGED <<worker, deaths, replaced, producers, consumers, req>>

\* leaveRoom closes the transports in the Peer's map, and the Room if nobody is
\* in it, whether or not this peer was.
LeaveRoom(p) ==
    LET gone == PeerIn(room, p)
        empty == Here(room) \subseteq gone
    IN  /\ objs' = [o \in DOMAIN objs |->
                       IF o \in gone THEN [objs[o] EXCEPT !.here = FALSE] ELSE objs[o]]
        /\ transports' = [t \in DOMAIN transports |->
                       IF transports[t].owner \in gone
                       THEN [transports[t] EXCEPT !.closed = TRUE] ELSE transports[t]]
        /\ routers' = [r \in DOMAIN routers |->
                       IF r = room /\ empty /\ routers[r] = "open"
                       THEN "closed" ELSE routers[r]]
        /\ room' = IF empty THEN 0 ELSE room
        /\ UNCHANGED <<worker, deaths, replaced, producers, consumers, req>>

\* DELETE room/:roomId/leave
Leave(p) ==
    /\ room # 0
    /\ LeaveRoom(p)
    /\ UNCHANGED socketVars

HandleConnection(p) ==
    /\ sockets[p] < MaxSockets
    /\ sockets' = [sockets EXCEPT ![p] = @ + 1]
    /\ UNCHANGED <<mediaVars, fetched, known, req>>

\* The close of any socket of the client takes the client out of the Room.
HandleDisconnect(p) ==
    /\ sockets[p] > 0
    /\ LeaveRoom(p)
    /\ sockets' = [sockets EXCEPT ![p] = @ - 1]
    /\ fetched' = IF sockets[p] = 1 THEN fetched \ {p} ELSE fetched
    /\ UNCHANGED known

\* GET room/:roomId/producers; a client whose socket is open hears of later ones.
FetchProducers(p) ==
    /\ fetched' = IF sockets[p] > 0 THEN fetched \cup {p} ELSE fetched
    /\ known' = [known EXCEPT ![p] = @ \cup GetProducers(p)]
    /\ UNCHANGED <<mediaVars, sockets, req>>

\* The worker process dies: its routers close, and what was asked of it fails.
WorkerDied ==
    /\ worker /\ deaths < MaxDeaths
    /\ worker' = FALSE /\ deaths' = deaths + 1
    /\ routers' = [r \in DOMAIN routers |->
                      IF routers[r] = "open" THEN "died" ELSE routers[r]]
    /\ req' = [r \in Requests |->
                  IF req[r].pc \in {"create", "make", "produce", "consume"}
                  THEN Idle ELSE req[r]]
    /\ UNCHANGED <<room, replaced, objs, transports, producers, consumers, socketVars>>

StartWorker ==
    /\ ~worker
    /\ worker' = TRUE
    /\ UNCHANGED <<deaths, routers, room, replaced, objs, transports, producers,
                   consumers, socketVars, req>>

-----------------------------------------------------------------------------
RequestStep(r) ==
    \/ RouterCreated(r) \/ JoinAgain(r) \/ JoinCreated(r)
    \/ TransportInCreated(r) \/ TransportMade(r)
    \/ ProducerMade(r) \/ NotifyNewProducer(r)
    \/ ConsumerMade(r) \/ Refused(r)

Call(r, p) ==
    JoinRoom(r, p) \/ CreateTransport(r, p) \/ CreateProducer(r, p) \/ CreateConsumer(r, p)

ClientStep(p) ==
    Leave(p) \/ HandleConnection(p) \/ HandleDisconnect(p) \/ FetchProducers(p)

Next ==
    \/ \E r \in Requests : RequestStep(r) \/ \E p \in Peers : Call(r, p)
    \/ \E p \in Peers : ClientStep(p)
    \/ WorkerDied
    \/ StartWorker

Spec == Init /\ [][Next]_vars

-----------------------------------------------------------------------------
(* Properties. *)

\* The type invariant of the service's maps and of the requests in progress.
TypeOK ==
    /\ worker \in BOOLEAN /\ deaths \in 0..MaxDeaths
    /\ routers \in Seq(Router) /\ room \in 0..Len(routers)
    /\ replaced \subseteq DOMAIN routers
    /\ objs \in Seq(PeerObj) /\ \A o \in DOMAIN objs : objs[o].router \in DOMAIN routers
    /\ transports \in Seq(Transport)
    /\ \A t \in DOMAIN transports : transports[t].owner \in DOMAIN objs
    /\ producers \in Seq(Producer)
    /\ \A x \in DOMAIN producers : producers[x].transport \in DOMAIN transports
    /\ consumers \in Seq(Consumer)
    /\ \A c \in DOMAIN consumers :
           /\ consumers[c].transport \in DOMAIN transports
           /\ consumers[c].producer \in DOMAIN producers
    /\ sockets \in [Peers -> 0..MaxSockets]
    /\ fetched \subseteq Peers
    /\ known \in [Peers -> SUBSET DOMAIN producers]
    /\ req \in [Requests -> Request]

\* What mediasoup keeps open is in a map of the service, or its leak has one of
\* these causes: a router was registered over (getOrCreateRoom, :46-75), a peer
\* left while its transport was made (createTransport, :154), a consumer was made
\* for a producer the same peer consumes already (createConsumer, :268).  In
\* every other order of requests, departures and worker deaths all is closed.
LeaksHaveCause ==
    /\ \A r \in DOMAIN routers : routers[r] = "open" => r = room \/ r \in replaced
    /\ \A t \in DOMAIN transports : TransportOpen(t) /\ ~transports[t].late =>
           objs[transports[t].owner].here
    /\ \A x \in DOMAIN producers : ProducerOpen(x) /\ producers[x].holder = 0 =>
           RouterOf(producers[x].transport) \in replaced
    /\ \A c \in DOMAIN consumers : ConsumerOpen(c) /\ consumers[c].holder = 0 =>
           \/ RouterOf(consumers[c].transport) \in replaced
           \/ \E d \in DOMAIN consumers :
                 /\ consumers[d].holder = transports[consumers[c].transport].owner
                 /\ consumers[d].producer = consumers[c].producer

\* The registered room can be used, unless the worker it lived in has died: no
\* order of joins and leaves leaves a closed router in the Map (leaveRoom, :129).
RoomIsUsable == room # 0 => routers[room] \in {"open", "died"}

\* A peer never has two entries for one producer, however its requests overlap:
\* the map is asked after the await, in the step that adds to it (:268-276).
OneConsumerPerProducer ==
    \A o \in DOMAIN objs : \A c, d \in ConsumersOf(o) :
        consumers[c].producer = consumers[d].producer => c = d

\* A consumer and its producer live on one router, also if the room has been
\* replaced or left between the request and the answer (canConsume, :255).
ConsumersStayInRouter ==
    \A c \in DOMAIN consumers :
        RouterOf(consumers[c].transport) = RouterOf(producers[consumers[c].producer].transport)

\* Nobody misses a producer: a client that connects its socket and then asks for
\* the producers knows every producer another peer of the room lists, or the
\* announcement is about to be made (VideoController.produce, :88-96).
ProducersAreKnown ==
    \A p \in fetched : \A x \in GetProducers(p) :
        \/ x \in known[p]
        \/ \E r \in Requests : req[r].pc = "notify" /\ req[r].producer = x

\* What a request carries over an await: indices of things that exist, a transport
\* of the client who asked, and for a consumer, a producer on the same router.
Sound(q) ==
    /\ q.pc # "idle" => q.peer \in Peers
    /\ q.pc = "got" => q.router \in DOMAIN routers
    /\ q.pc = "make" => q.obj \in DOMAIN objs /\ objs[q.obj].router = q.router
    /\ q.pc \in {"produce", "consume"} =>
           /\ q.transport \in DOMAIN transports
           /\ ~transports[q.transport].late
           /\ objs[transports[q.transport].owner].peer = q.peer
    /\ q.pc \in {"notify", "consume"} => q.producer \in DOMAIN producers
    /\ q.pc = "consume" => RouterOf(q.transport) = RouterOf(producers[q.producer].transport)

RequestsAreSound == \A r \in Requests : Sound(req[r])

\* A producer or consumer that is in a map is in that of a Peer object.
HoldersExist ==
    /\ \A x \in DOMAIN producers : producers[x].holder \in DOMAIN objs \cup {0}
    /\ \A c \in DOMAIN consumers : consumers[c].holder \in DOMAIN objs \cup {0}

\* Only a Peer that has left has a late transport.
LateIsGone == \A t \in DOMAIN transports : transports[t].late => ~objs[transports[t].owner].here

FetchedIsConnected == \A p \in fetched : sockets[p] > 0

\* The inductive invariant: the maps of the service and the objects of mediasoup
\* agree as far as the code can make them, whatever overlaps.  Beside the parts
\* that are checked alone, it says that a peer never has two entries for one
\* producer and that a consumer lives on its producer's router.
MediaInv ==
    /\ TypeOK
    /\ RequestsAreSound
    /\ HoldersExist
    /\ LateIsGone
    /\ FetchedIsConnected
    /\ OneConsumerPerProducer
    /\ ConsumersStayInRouter
    /\ RoomIsUsable
    /\ LeaksHaveCause
    /\ ProducersAreKnown

\* Nobody's media is cut off by somebody else: an open transport of a peer that
\* is in its room closes only when that peer leaves or the worker dies.
MediaIsNotCut ==
    [][\A t \in DOMAIN transports :
          TransportOpen(t) /\ objs[transports[t].owner].here /\ worker' =>
              \/ TransportOpen(t)'
              \/ ~objs'[transports[t].owner].here]_vars
=============================================================================
