---------------------------- MODULE MCRateLimiter ----------------------------
(***************************************************************************)
(* Instances of RateLimiter for TLC.                                       *)
(***************************************************************************)
EXTENDS RateLimiter, TLC

CONSTANTS c1, q1, q2

OneClient   == {c1}
TwoRequests == {q1, q2}

MCSymmetry == Permutations(TwoRequests)

=============================================================================
