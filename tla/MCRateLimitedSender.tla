-------------------------- MODULE MCRateLimitedSender --------------------------
(* Instances of RateLimitedSender for TLC. *)
EXTENDS RateLimitedSender

CONSTANTS r1, r2, r3

ThreeRequests == {r1, r2, r3}
TwoRequests   == {r1, r2}
=============================================================================
