------------------------ MODULE LimiterHeaderProofs ------------------------
(***************************************************************************)
(* A theorem about the header of LimiterHeader, for any length of a        *)
(* second.                                                                 *)
(***************************************************************************)
EXTENDS LimiterHeader, RateLimiterProofs

(* The seconds of a wait and what is left over.                            *)
LEMMA Divided ==
  ASSUME NEW w \in Nat
  PROVE  /\ w \div Second \in Nat /\ w % Second \in 0..Second - 1
         /\ w = Second * (w \div Second) + (w % Second)
BY SecondAssumption, SMTT(30)

(* What rounding takes from a wait is half a second at most.               *)
LEMMA RoundedNearly ==
  ASSUME NEW w \in Nat
  PROVE  /\ Second * Rounded(w \div Second, w % Second) \in Nat
         /\ w <= Second * Rounded(w \div Second, w % Second) + Second \div 2
<1> DEFINE q == w \div Second
           r == w % Second
           full == Second * q
           half == Second \div 2
<1>1. /\ q \in Nat /\ r \in Nat /\ r < Second /\ w = full + r
  <2>1. q \in Nat /\ r \in 0..Second - 1 /\ w = full + r  BY Divided
  <2> HIDE DEF q, r, full
  <2> QED  BY <2>1, SecondAssumption
<1>2. Second \in Nat /\ half \in Nat /\ Second <= 2 * half + 1
  BY SecondAssumption
<1>3. full \in Nat /\ Second * (q + 1) = full + Second
  BY <1>1, <1>2
<1> HIDE DEF q, r, full, half
<1>4. CASE Rounded(q, r) = q
  <2>1. 2 * r <= Second
    BY <1>1, <1>2, <1>4 DEF Rounded
  <2>2. r <= half  BY <1>1, <1>2, <2>1
  <2>3. Second * Rounded(q, r) = full  BY <1>4 DEF full
  <2> QED  BY <1>1, <1>2, <1>3, <2>2, <2>3 DEF q, r, half
<1>5. CASE Rounded(q, r) = q + 1
  <2>1. Second * Rounded(q, r) = full + Second  BY <1>3, <1>5
  <2> QED  BY <1>1, <1>2, <1>3, <2>1 DEF q, r, half
<1> QED  BY <1>4, <1>5 DEF Rounded

(* Whoever waits longer than the exact wait finds room too: what is out of *)
(* the window stays out.                                                   *)
LEMMA LaterIsEmptier ==
  ASSUME TypeOK, NEW ip \in Ips, NEW t \in Nat, NEW u \in Nat, t <= u
  PROVE  Cardinality(Valid(ip, u)) <= Cardinality(Valid(ip, t))
<1>1. visits[ip] \subseteq Visit /\ IsFiniteSet(visits[ip]) /\ Window \in Nat
  BY LimiterAssumption DEF TypeOK
<1>2. \A v \in visits[ip] : v.at \in Nat  BY <1>1 DEF Visit
<1>3. Valid(ip, u) \subseteq Valid(ip, t)  BY <1>1, <1>2 DEF Valid
<1>4. IsFiniteSet(Valid(ip, t))  BY <1>1, FS_Subset DEF Valid
<1> QED  BY <1>3, <1>4, FS_Subset

(* A request made half a second later than the header says finds room, if  *)
(* nothing else was served meanwhile.                                      *)
THEOREM HeaderIsNearlyEnough == Spec => []HeaderHalfSecondShort
<1>1. ASSUME TypeOK, BodyWaitSuffices  PROVE HeaderHalfSecondShort
  <2> SUFFICES ASSUME NEW c \in Conns, slot[c].pc = "waiting",
                      Cardinality(Valid(IpOf[c], slot[c].now)) >= Limit
               PROVE  LET ip == IpOf[c]
                          t  == slot[c].now
                          told == Second * RetryAfterHeader(ip, t)
                      IN  Cardinality(Valid(ip, t + told + Second \div 2)) < Limit
    BY DEF HeaderHalfSecondShort
  <2> DEFINE ip == IpOf[c]
             t  == slot[c].now
             w  == RetryAfter(ip, t)
             told == Second * RetryAfterHeader(ip, t)
             u  == t + told + Second \div 2
  <2>1. /\ ip \in Ips /\ t \in Nat /\ visits[ip] \subseteq Visit /\ IsFiniteSet(visits[ip])
        /\ Limit \in Nat \ {0} /\ Window \in Nat
    BY <1>1, LimiterAssumption DEF TypeOK, Slot
  <2>2. w \in Nat
    <3> DEFINE v == First(Valid(ip, t))
    <3>1. Valid(ip, t) \subseteq Visit  BY <2>1 DEF Valid
    <3>2. Valid(ip, t) # {}  BY <2>1, FS_EmptySet
    <3>3. v \in Valid(ip, t)  BY <3>1, <3>2, FirstIsOne
    <3>4. v.at \in Nat /\ t - v.at < Window  BY <2>1, <3>3 DEF Valid, Visit
    <3>5. w = Window - (t - v.at)  BY DEF RetryAfter
    <3> HIDE DEF w, v, t, ip
    <3> QED  BY <2>1, <3>4, <3>5
  <2>3. told \in Nat /\ w <= told + Second \div 2
    BY <2>2, RoundedNearly DEF RetryAfterHeader
  <2>4. Second \div 2 \in Nat  BY SecondAssumption
  <2>5. t + w \in Nat /\ u \in Nat /\ t + w <= u
    <3> HIDE DEF t, w, told
    <3> QED  BY <2>1, <2>2, <2>3, <2>4
  <2>6. Cardinality(Valid(ip, t + w)) < Limit
    BY <1>1 DEF BodyWaitSuffices
  <2>7. Cardinality(Valid(ip, u)) <= Cardinality(Valid(ip, t + w))
    BY <1>1, <2>1, <2>5, LaterIsEmptier
  <2>8. /\ IsFiniteSet(Valid(ip, u)) /\ IsFiniteSet(Valid(ip, t + w))
    BY <2>1, FS_Subset DEF Valid
  <2>9. Cardinality(Valid(ip, u)) \in Nat /\ Cardinality(Valid(ip, t + w)) \in Nat
    BY <2>8, FS_CardinalityType
  <2> HIDE DEF u, w, t, ip
  <2>10. Cardinality(Valid(ip, u)) < Limit  BY <2>1, <2>6, <2>7, <2>9
  <2> QED  BY <2>10 DEF u, t, ip
<1> QED  BY <1>1, TypeCorrect, WaitIsLongEnough, PTL

=============================================================================
