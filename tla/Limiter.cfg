\* Two requests of one address in flight and one of another; handlers end; a window of
\* two thirds of a second, so that the header rounds one wait down and one up.
CONSTANTS
  c1 = c1
  c2 = c2
  c3 = c3
  ip1 = ip1
  ip2 = ip2
  NoConn = NoConn
  Conns = {c1, c2, c3}
  Ips = {ip1, ip2}
  IpOf <- TwoAndOne
  Limit = 2
  Window = 2
  MaxTime = 3
  Second = 3
SPECIFICATION FairSpec
INVARIANTS TypeOK RateBound BodyWaitSuffices HeaderHalfSecondShort OneHandler BoundedVisits OverrunBounded
PROPERTIES ImplementsSlidingWindow EveryRequestAnswered
CHECK_DEADLOCK FALSE
