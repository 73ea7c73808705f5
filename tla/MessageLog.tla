------------------------------ MODULE MessageLog ------------------------------
(* What a chat promises, without its transactions, pool and pushes: messages    *)
(* are stored for good, each becomes stored in one step, and a client is shown  *)
(* stored messages only, delivered one at a time or read together. A client     *)
(* forgets everything it was shown or nothing of it.                            *)
CONSTANTS Users, Messages

VARIABLES stored, shown

vars == <<stored, shown>>

Init == stored = {} /\ shown = [u \in Users |-> {}]

\* A message that was not stored before.
Store(m) ==
    /\ m \notin stored
    /\ stored' = stored \cup {m}
    /\ UNCHANGED shown

Deliver(m) ==
    /\ m \in stored
    /\ \E present \in SUBSET Users :
          shown' = [u \in Users |-> IF u \in present THEN shown[u] \cup {m} ELSE shown[u]]
    /\ UNCHANGED stored

Read(u) ==
    /\ \E page \in SUBSET stored : shown' = [shown EXCEPT ![u] = @ \cup page]
    /\ UNCHANGED stored

Forget ==
    /\ \E gone \in SUBSET Users :
          shown' = [u \in Users |-> IF u \in gone THEN {} ELSE shown[u]]
    /\ UNCHANGED stored

Next ==
    \/ \E m \in Messages : Store(m) \/ Deliver(m)
    \/ \E u \in Users : Read(u)
    \/ Forget

Spec == Init /\ [][Next]_vars
================================================================================
