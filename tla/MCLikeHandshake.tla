---------------------------- MODULE MCLikeHandshake ----------------------------
(* Instances of LikeHandshake for TLC. *)
EXTENDS LikeHandshake, TLC

CONSTANTS u1, u2, c1, c2

\* Two calls of the same two users, as after a call that was left without a word.
TwoCalls == (c1 :> {u1, u2}) @@ (c2 :> {u1, u2})

\* One thing out of the ordinary: a failure, a restart, or a chat opened by hand.
OneUpset == failures + restarts + opened <= 1
================================================================================
