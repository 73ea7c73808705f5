\* Two clients of one call and two requests in progress: two rooms for one call,
\* a peer that leaves and comes back, a late disconnect, and a worker that dies.
SPECIFICATION Spec
CONSTANTS
    Peers = {p1, p2}
    Requests = {r1, r2}
    MaxRouters = 2
    MaxJoins = 3
    MaxTransports = 2
    MaxProducers = 1
    MaxConsumers = 2
    MaxSockets = 2
    MaxDeaths = 1
    MaxWork = 5
CONSTRAINTS WorkBound SocketBound
SYMMETRY MediaSymmetry
INVARIANTS
    MediaInv
    LeaksHaveCause
    RoomIsUsable
    ProducersAreKnown
PROPERTIES
    MediaIsNotCut
