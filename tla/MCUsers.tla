------------------------------- MODULE MCUsers -------------------------------
(***************************************************************************)
(* Instances of Accounts and Photos for TLC.  A user's pictures share no   *)
(* state with the accounts, so either is followed alone.                   *)
(***************************************************************************)
EXTENDS Accounts, Photos, TLC

\* What the clients of a behaviour do.
VARIABLE part

Parts == {"photos", "sign in", "interests", "plan"}

CONSTANTS e1, e2, g1

OneGoogleUser == g1 :> e1

UserSymmetry == Permutations(Ids) \cup Permutations(Requests)

MCInit == AccountInit /\ PhotoInit /\ part \in Parts

In(p) == part = p /\ UNCHANGED <<part, photoVars>>

MCNext ==
    \/ part = "photos" /\ PhotoNext /\ UNCHANGED <<part, accountVars>>
    \/ part # "photos" /\ UNCHANGED <<part, photoVars>> /\ \E r \in Requests :
           RequestStep(r) \/ Fails(r)
    \/ In("sign in") /\ \E r \in Requests : SignIn(r) \/ Change(r)
    \/ In("sign in") /\ \E t \in ResetTokens : ResetExpires(t)
    \/ In("interests") /\ \E r \in Requests :
           StartRegistration(r) \/ VerifyEmail(r) \/ UpdateInterests(r)
    \/ In("plan") /\ requests < 2 /\ \E r \in Requests : StartRegistration(r) \/ UpdateProfile(r)
    \/ In("plan") /\ \E u \in Accounts : Subscription(u)

MCSpec == MCInit /\ [][MCNext]_<<accountVars, photoVars, part>>
=============================================================================
