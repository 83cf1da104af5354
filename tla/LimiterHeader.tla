--------------------------- MODULE LimiterHeader ---------------------------
(***************************************************************************)
(* The Retry-After header of RateLimiter, in whole seconds, with a tick of *)
(* the clock that is a part of a second.                                   *)
(***************************************************************************)
EXTENDS RateLimiter

CONSTANT Second   \* the ticks of a second

ASSUME SecondAssumption == Second \in Nat \ {0}

(* Mutant: int(retryAfter.Seconds()) for %.0f.                             *)
Truncated(seconds, rest) == seconds

(* %.0f: to the nearest whole number, and to the even one of two.          *)
Rounded(seconds, rest) ==
  IF 2 * rest < Second \/ (2 * rest = Second /\ seconds % 2 = 0)
  THEN seconds ELSE seconds + 1

(* Retry-After, in seconds.                                                *)
RetryAfterHeader(ip, t) ==
  Rounded(RetryAfter(ip, t) \div Second, RetryAfter(ip, t) % Second)

(* The header may be too short, and is 0 in the last half second of the    *)
(* wait: a client that does what it says may be refused again.  It is too  *)
(* short by half a second at most: a request made that much later than it  *)
(* says is let through, if nothing else is served in the meantime.         *)
HeaderHalfSecondShort ==
  \A c \in Conns :
    LET ip == IpOf[c]
        t  == slot[c].now
        told == Second * RetryAfterHeader(ip, t)
    IN slot[c].pc = "waiting" /\ Cardinality(Valid(ip, t)) >= Limit
         => Cardinality(Valid(ip, t + told + Second \div 2)) < Limit

=============================================================================
