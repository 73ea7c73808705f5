---------------------------- MODULE MCMediaRooms ----------------------------
(***************************************************************************)
(* Instances of MediaRooms for TLC.                                        *)
(***************************************************************************)
EXTENDS MediaRooms, TLC

CONSTANT MaxWork    \* bound on the objects made and the deaths together

\* Nothing tells two requests or two clients apart.
MediaSymmetry == Permutations(Requests) \cup Permutations(Peers)

\* A call of two clients with one router is followed to the bounds on its objects,
\* everything else to MaxWork.
WorkBound ==
    \/ deaths + Len(routers) + Len(objs) + Len(transports) + Len(producers) + Len(consumers)
           <= MaxWork
    \/ deaths = 0 /\ Len(routers) = 1 /\ Len(objs) = 2

\* A client has a second socket (it reconnects before its old one is closed) while
\* there is one router and no more than three of the other objects.
SocketBound ==
    \/ \A p \in Peers : sockets[p] < 2
    \/ /\ deaths = 0 /\ Len(routers) <= 1
       /\ Len(objs) + Len(transports) + Len(producers) + Len(consumers) <= 3
=============================================================================
