---------------------------- MODULE MCRateLimiter ----------------------------
(* Three threads, an interval of three units, five calls in all.           *)
EXTENDS RateLimiter
=============================================================================
