----------------------------- MODULE MCLimiter -----------------------------
(* RateLimiter and its header on a small instance: an address with two     *)
(* requests in flight beside one with a single request.                    *)
EXTENDS LimiterHeader, TLC

CONSTANTS c1, c2, c3, ip1, ip2

TwoAndOne == (c1 :> ip1) @@ (c2 :> ip1) @@ (c3 :> ip2)
Twins     == Permutations({c1, c2})
=============================================================================
