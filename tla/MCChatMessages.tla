--------------------------- MODULE MCChatMessages ---------------------------
(***************************************************************************)
(* Instances of ChatMessages for TLC.                                      *)
(***************************************************************************)
EXTENDS ChatMessages, TLC

\* What goes on beside the sends: clients read, the database or the server fails, or
\* devices come and go.
VARIABLE beside

CONSTANTS
    \* The clients of two users touch no state in common: one that reads is enough.
    Readers,
    u1, u2, s1, s2, t1, t2, old

\* A client that sends a key for everybody, and one that sends its own only.
MCKeySets == (u1 :> {{u1, u2}}) @@ (u2 :> {{u2}})

\* A column that is in order, and one that holds what is no token of Expo.
MCFirstToken == (u1 :> t1) @@ (u2 :> old)

MCInit == Init /\ beside \in {"clients", "failures", "devices"}

Beside(part) == beside = part /\ UNCHANGED beside

\* Each member sends from one slot.
Sender == (s1 :> u1) @@ (s2 :> u2)

\* Three messages to page through, two beside failures, one beside the devices.
Room ==
    Len(msgs) + Cardinality(Unsaved) <
        CASE beside = "clients" -> 3 [] beside = "failures" -> 2 [] beside = "devices" -> 1

\* The profile is changed in one request that is slower than the rest.
OneSave == Cardinality({<<u, t>> \in Users \X (Tokens \cup {Null}) : t \in loaded[u]}) <= 1

MCNext ==
    \/ UNCHANGED beside /\ \E s \in Senders : RequestStep(s)
    \/ UNCHANGED beside /\ Room /\ \E s \in Senders : SendMessage(s, Sender[s])
    \/ Beside("clients") /\ \E u \in Readers : ClientStep(u)
    \/ Beside("failures") /\ (Crash \/ \E s \in Senders : DatabaseError(s))
    \/ Beside("devices") /\ PushStep

MCSpec ==
    /\ MCInit /\ [][MCNext]_<<vars, beside>>
    /\ \A s \in Senders : SF_vars(RequestStep(s))
=============================================================================
