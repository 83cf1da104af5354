------------------------- MODULE RateLimiterProofs -------------------------
(***************************************************************************)
(* Theorems about RateLimiter, for any number of slots and addresses, any  *)
(* limit, any window and any bound on the clock.                           *)
(***************************************************************************)
EXTENDS RateLimiter, FiniteSetTheorems, WellFoundedInduction, TLAPS

(* A slice that is below the limit is within it with one more visit.       *)
LEMMA OneMore ==
  ASSUME NEW S, NEW x, IsFiniteSet(S), Cardinality(S) < Limit
  PROVE  IsFiniteSet(S \cup {x}) /\ Cardinality(S \cup {x}) <= Limit
<1>1. Cardinality(S) \in Nat  BY FS_CardinalityType
<1>2. IsFiniteSet(S \cup {x})  BY FS_AddElement
<1>3. CASE x \in S
  <2>1. Cardinality(S \cup {x}) = Cardinality(S)  BY <1>3, FS_AddElement
  <2> QED  BY <1>1, <1>2, <2>1, LimiterAssumption
<1>4. CASE x \notin S
  <2>1. Cardinality(S \cup {x}) = Cardinality(S) + 1  BY <1>4, FS_AddElement
  <2> QED  BY <1>1, <1>2, <2>1, LimiterAssumption
<1> QED  BY <1>3, <1>4

(* What a request that is let through appends, and to what.                *)
LEMMA Appended ==
  ASSUME TypeOK, NEW c \in Conns, LetThrough(c)
  PROVE  LET ip == IpOf[c]
             v  == [at |-> slot[c].now, nth |-> Cardinality(served[ip]) + 1]
         IN /\ ip \in Ips /\ slot[c].now \in Nat /\ v \in Visit
            /\ Valid(ip, slot[c].now) \subseteq visits[ip]
            /\ IsFiniteSet(Valid(ip, slot[c].now))
            /\ Cardinality(Valid(ip, slot[c].now)) < Limit
            /\ visits'[ip] = Valid(ip, slot[c].now) \cup {v}
            /\ served'[ip] = served[ip] \cup {v}
            /\ \A jp \in Ips \ {ip} : visits'[jp] = visits[jp] /\ served'[jp] = served[jp]
<1> DEFINE ip == IpOf[c]
           v  == [at |-> slot[c].now, nth |-> Cardinality(served[ip]) + 1]
<1>1. ip \in Ips  BY LimiterAssumption
<1>2. slot[c].now \in Nat  BY DEF TypeOK, Slot
<1>3. Cardinality(served[ip]) \in Nat  BY <1>1, FS_CardinalityType DEF TypeOK
<1>4. v \in Visit  BY <1>2, <1>3 DEF Visit
<1>5. Valid(ip, slot[c].now) \subseteq visits[ip]  BY DEF Valid
<1>6. IsFiniteSet(Valid(ip, slot[c].now))  BY <1>1, <1>5, FS_Subset DEF TypeOK
<1>7. /\ Cardinality(Valid(ip, slot[c].now)) < Limit
      /\ visits' = [visits EXCEPT ![ip] = Valid(ip, slot[c].now) \cup {v}]
      /\ served' = [served EXCEPT ![ip] = served[ip] \cup {v}]
  BY DEF LetThrough
<1> QED  BY <1>1, <1>2, <1>4, <1>5, <1>6, <1>7 DEF TypeOK

(* Every variable keeps its type, and the sets of visits are finite.       *)
THEOREM TypeCorrect == Spec => []TypeOK
<1>1. Init => TypeOK
  BY FS_EmptySet DEF Init, TypeOK, Slot
<1>2. TypeOK /\ [Next]_vars => TypeOK'
  <2> SUFFICES ASSUME TypeOK, [Next]_vars  PROVE TypeOK'  OBVIOUS
  <2>1. CASE Tick  BY <2>1, LimiterAssumption DEF Tick, TypeOK
  <2>2. ASSUME NEW c \in Conns, Arrive(c)  PROVE TypeOK'
    <3>1. [pc |-> "waiting", now |-> clock] \in Slot  BY DEF Slot, TypeOK
    <3> QED  BY <2>2, <3>1 DEF Arrive, TypeOK
  <2>3. ASSUME NEW c \in Conns, Reject(c)  PROVE TypeOK'
    <3>1. [slot[c] EXCEPT !.pc = "free"] \in Slot  BY DEF Slot, TypeOK
    <3> QED  BY <2>3, <3>1 DEF Reject, TypeOK
  <2>4. ASSUME NEW c \in Conns, Finish(c)  PROVE TypeOK'
    <3>1. [slot[c] EXCEPT !.pc = "free"] \in Slot  BY DEF Slot, TypeOK
    <3> QED  BY <2>4, <3>1 DEF Finish, TypeOK
  <2>5. ASSUME NEW c \in Conns, LetThrough(c)  PROVE TypeOK'
    <3> DEFINE ip == IpOf[c]
               v  == [at |-> slot[c].now, nth |-> Cardinality(served[ip]) + 1]
    <3>1. [slot[c] EXCEPT !.pc = "inside"] \in Slot  BY DEF Slot, TypeOK
    <3>2. slot' \in [Conns -> Slot] /\ mutex' \in Conns /\ clock' = clock
      BY <2>5, <3>1 DEF LetThrough, TypeOK
    <3>3. /\ ip \in Ips /\ v \in Visit
          /\ Valid(ip, slot[c].now) \subseteq visits[ip]
          /\ IsFiniteSet(Valid(ip, slot[c].now))
          /\ visits'[ip] = Valid(ip, slot[c].now) \cup {v}
          /\ served'[ip] = served[ip] \cup {v}
          /\ \A jp \in Ips \ {ip} : visits'[jp] = visits[jp] /\ served'[jp] = served[jp]
      BY <2>5, Appended
    <3>4. IsFiniteSet(visits'[ip]) /\ IsFiniteSet(served'[ip])
      <4>1. IsFiniteSet(served[ip])  BY <3>3 DEF TypeOK
      <4>2. IsFiniteSet(served[ip] \cup {v})  BY <4>1, FS_AddElement
      <4>3. IsFiniteSet(Valid(ip, slot[c].now) \cup {v})  BY <3>3, FS_AddElement
      <4> HIDE DEF v
      <4> QED  BY <3>3, <4>2, <4>3
    <3>5. /\ visits' \in [Ips -> SUBSET Visit]
          /\ served' \in [Ips -> SUBSET Visit]
      <4>1. visits' = [visits EXCEPT ![ip] = Valid(ip, slot[c].now) \cup {v}]
        BY <2>5 DEF LetThrough
      <4>2. served' = [served EXCEPT ![ip] = served[ip] \cup {v}]
        BY <2>5 DEF LetThrough
      <4>3. visits[ip] \subseteq Visit /\ served[ip] \subseteq Visit  BY <3>3 DEF TypeOK
      <4> HIDE DEF v
      <4> QED  BY <3>3, <4>1, <4>2, <4>3 DEF TypeOK
    <3> QED  BY <3>2, <3>3, <3>4, <3>5 DEF TypeOK
  <2>6. CASE UNCHANGED vars  BY <2>6 DEF vars, TypeOK
  <2> QED  BY <2>1, <2>2, <2>3, <2>4, <2>5, <2>6 DEF Next
<1> QED  BY <1>1, <1>2, PTL DEF Spec

(* The slice of an address never outgrows the limit.                       *)
THEOREM SlicesAreBounded == Spec => []BoundedVisits
<1>1. Init => BoundedVisits
  BY FS_EmptySet, LimiterAssumption DEF Init, BoundedVisits
<1>2. TypeOK /\ BoundedVisits /\ [Next]_vars => BoundedVisits'
  <2> SUFFICES ASSUME TypeOK, BoundedVisits, [Next]_vars, NEW jp \in Ips
               PROVE  Cardinality(visits'[jp]) <= Limit
    BY DEF BoundedVisits
  <2>1. ASSUME NEW c \in Conns, LetThrough(c)  PROVE Cardinality(visits'[jp]) <= Limit
    <3> DEFINE ip == IpOf[c]
               v  == [at |-> slot[c].now, nth |-> Cardinality(served[ip]) + 1]
               kept == Valid(ip, slot[c].now)
    <3>1. /\ IsFiniteSet(kept) /\ Cardinality(kept) < Limit
          /\ visits'[ip] = kept \cup {v}
          /\ jp # ip => visits'[jp] = visits[jp]
      BY <2>1, Appended
    <3>2. Cardinality(kept \cup {v}) <= Limit  BY <3>1, OneMore
    <3> HIDE DEF kept, v
    <3>3. CASE jp = ip  BY <3>1, <3>2, <3>3
    <3>4. CASE jp # ip  BY <3>1, <3>4 DEF BoundedVisits
    <3> QED  BY <3>3, <3>4
  <2>2. CASE visits' = visits  BY <2>2 DEF BoundedVisits
  <2> QED  BY <2>1, <2>2 DEF Next, Tick, Arrive, Reject, Finish, vars
<1> QED  BY <1>1, <1>2, TypeCorrect, PTL DEF Spec

(* The request that is inside is the one that holds the mutex.             *)
THEOREM OneAtATime == Spec => []OneHandler
<1>1. Init => OneHandler
  BY LimiterAssumption DEF Init, OneHandler
<1>2. TypeOK /\ OneHandler /\ [Next]_vars => OneHandler'
  <2> SUFFICES ASSUME TypeOK, OneHandler, [Next]_vars  PROVE OneHandler'  OBVIOUS
  <2> USE LimiterAssumption DEF TypeOK, OneHandler, Slot
  <2>1. CASE Tick  BY <2>1 DEF Tick
  <2>2. ASSUME NEW c \in Conns, Arrive(c)  PROVE OneHandler'  BY <2>2 DEF Arrive
  <2>3. ASSUME NEW c \in Conns, Reject(c)  PROVE OneHandler'  BY <2>3 DEF Reject
  <2>4. ASSUME NEW c \in Conns, LetThrough(c)  PROVE OneHandler'  BY <2>4 DEF LetThrough
  <2>5. ASSUME NEW c \in Conns, Finish(c)  PROVE OneHandler'  BY <2>5 DEF Finish
  <2>6. CASE UNCHANGED vars  BY <2>6 DEF vars
  <2> QED  BY <2>1, <2>2, <2>3, <2>4, <2>5, <2>6 DEF Next
<1> QED  BY <1>1, <1>2, TypeCorrect, PTL DEF Spec

-----------------------------------------------------------------------------
(* The limit.                                                              *)

(* What the limiter has forgotten.                                         *)
Purged(ip) == served[ip] \ visits[ip]

(* What RateBound rests on: the visits of an address with one slot come in *)
(* the order of their clocks, and what is purged is out of every window to *)
(* come.                                                                   *)
InOrder ==
  /\ \A c \in Conns : slot[c].pc = "waiting" => slot[c].now <= clock
  /\ \A ip \in Ips :
       Alone(ip) =>
         /\ visits[ip] \subseteq served[ip]
         /\ \A v \in served[ip] :
              /\ v.at <= clock
              /\ \A c \in Conns :
                   IpOf[c] = ip /\ slot[c].pc = "waiting" => v.at <= slot[c].now
         /\ \A v \in Purged(ip) :
              /\ v.at + Window <= clock
              /\ \A c \in Conns :
                   IpOf[c] = ip /\ slot[c].pc = "waiting" => v.at + Window <= slot[c].now

LEMMA OrderKept ==
  ASSUME TypeOK, InOrder, [Next]_vars
  PROVE  InOrder'
<1> USE LimiterAssumption
<1> USE DEF Alone
<1>1. CASE Tick
  BY <1>1 DEF Tick, InOrder, Purged, TypeOK, Visit, Slot
<1>2. ASSUME NEW c \in Conns, Arrive(c)  PROVE InOrder'
  BY <1>2 DEF Arrive, InOrder, Purged, TypeOK, Visit, Slot
<1>3. ASSUME NEW c \in Conns, Reject(c)  PROVE InOrder'
  BY <1>3 DEF Reject, InOrder, Purged, TypeOK, Visit, Slot
<1>4. ASSUME NEW c \in Conns, Finish(c)  PROVE InOrder'
  BY <1>4 DEF Finish, InOrder, Purged, TypeOK, Visit, Slot
<1>5. ASSUME NEW c \in Conns, LetThrough(c)  PROVE InOrder'
  <2> DEFINE ip == IpOf[c]
             s  == slot[c].now
             v  == [at |-> s, nth |-> Cardinality(served[ip]) + 1]
             kept == Valid(ip, s)
             Ordered(jp) ==
               /\ visits'[jp] \subseteq served'[jp]
               /\ \A x \in served'[jp] :
                    /\ x.at <= clock'
                    /\ \A d \in Conns :
                         IpOf[d] = jp /\ slot'[d].pc = "waiting" => x.at <= slot'[d].now
               /\ \A x \in served'[jp] \ visits'[jp] :
                    /\ x.at + Window <= clock'
                    /\ \A d \in Conns :
                         IpOf[d] = jp /\ slot'[d].pc = "waiting"
                           => x.at + Window <= slot'[d].now
  <2>1. /\ ip \in Ips /\ s \in Nat /\ v \in Visit /\ v.at = s
        /\ kept \subseteq visits[ip]
        /\ visits'[ip] = kept \cup {v}
        /\ served'[ip] = served[ip] \cup {v}
        /\ \A jp \in Ips \ {ip} : visits'[jp] = visits[jp] /\ served'[jp] = served[jp]
    BY <1>5, Appended
  <2>2. /\ slot[c].pc = "waiting" /\ clock' = clock
        /\ slot'[c].pc = "inside"
        /\ \A d \in Conns \ {c} : slot'[d] = slot[d]
    BY <1>5 DEF LetThrough, TypeOK, Slot
  <2>3. clock \in Nat /\ s <= clock  BY <2>2 DEF InOrder, TypeOK
  <2>4. \A d \in Conns : slot'[d].pc = "waiting" => d # c /\ slot'[d] = slot[d]
    BY <2>2
  <2>5. \A x \in visits[ip] \ kept : x.at + Window <= s
    BY <2>1 DEF Valid, TypeOK, Visit
  <2>6. \A d \in Conns : slot'[d].pc = "waiting" => slot'[d].now <= clock'
    BY <2>2, <2>4 DEF InOrder
  <2>7. ASSUME Alone(ip)  PROVE Ordered(ip)
    <3>1. \A d \in Conns : ~(IpOf[d] = ip /\ slot'[d].pc = "waiting")  BY <2>2, <2>7
    <3>2. \A x \in served[ip] : x.at <= clock  BY <2>1, <2>7 DEF InOrder
    <3>3. \A x \in served[ip] \ visits[ip] : x.at + Window <= clock
      BY <2>1, <2>7 DEF InOrder, Purged
    <3>4. visits[ip] \subseteq served[ip] /\ served[ip] \subseteq Visit
      BY <2>1, <2>7 DEF InOrder, TypeOK
    <3> HIDE DEF v, kept, s, ip
    <3>5. visits'[ip] \subseteq served'[ip]  BY <2>1, <3>4
    <3>6. \A x \in served'[ip] : x.at <= clock'  BY <2>1, <2>2, <2>3, <3>2
    <3>7. ASSUME NEW x \in served'[ip], x \notin visits'[ip]
          PROVE  x.at + Window <= clock'
      <4>1. x \in served[ip] /\ x \notin kept /\ x.at \in Nat
        BY <2>1, <3>4, <3>7 DEF Visit
      <4>2. CASE x \in visits[ip]
        <5>1. x.at + Window <= s  BY <2>5, <4>1, <4>2
        <5> QED  BY <2>1, <2>2, <2>3, <4>1, <5>1
      <4>3. CASE x \notin visits[ip]  BY <2>2, <3>3, <4>1, <4>3
      <4> QED  BY <4>2, <4>3
    <3> QED  BY <3>1, <3>5, <3>6, <3>7
  <2>8. ASSUME NEW jp \in Ips, jp # ip, Alone(jp)  PROVE Ordered(jp)
    <3>1. visits'[jp] = visits[jp] /\ served'[jp] = served[jp]  BY <2>1, <2>8
    <3> QED  BY <2>2, <2>4, <2>8, <3>1 DEF InOrder, Purged
  <2>9. \A jp \in Ips : Alone(jp) => Ordered(jp)  BY <2>7, <2>8
  <2> QED  BY <2>6, <2>9 DEF InOrder, Purged
<1>6. CASE UNCHANGED vars
  BY <1>6 DEF vars, InOrder, Purged
<1> QED  BY <1>1, <1>2, <1>3, <1>4, <1>5, <1>6 DEF Next

(* The requests of an address that is alone are served in the order of     *)
(* their clocks, and nothing a purge forgot is in a window still to come.  *)
THEOREM OrderIsKept == Spec => []InOrder
<1>1. Init => InOrder  BY DEF Init, InOrder, Purged
<1> QED  BY <1>1, OrderKept, TypeCorrect, PTL DEF Spec

(* RateBound for every window, those to come included.                     *)
AnyWindowBound ==
  \A ip \in Ips, t \in Nat : Alone(ip) => Cardinality(ServedFrom(ip, t)) <= Limit

(* Of a window that holds the new visit, the slice has all that is served. *)
LEMMA WindowKept ==
  ASSUME TypeOK, InOrder, AnyWindowBound, [Next]_vars
  PROVE  AnyWindowBound'
<1> USE LimiterAssumption
<1> SUFFICES ASSUME NEW jp \in Ips, NEW t \in Nat, Alone(jp)
             PROVE  Cardinality(ServedFrom(jp, t)') <= Limit
  BY DEF AnyWindowBound, Alone
<1>1. ASSUME NEW c \in Conns, LetThrough(c)
      PROVE  Cardinality(ServedFrom(jp, t)') <= Limit
  <2> DEFINE ip == IpOf[c]
             s  == slot[c].now
             v  == [at |-> s, nth |-> Cardinality(served[ip]) + 1]
             kept == Valid(ip, s)
  <2>1. /\ ip \in Ips /\ s \in Nat /\ v.at = s
        /\ IsFiniteSet(kept) /\ Cardinality(kept) < Limit
        /\ served'[ip] = served[ip] \cup {v}
        /\ jp # ip => served'[jp] = served[jp]
    BY <1>1, Appended
  <2>2. slot[c].pc = "waiting"  BY <1>1 DEF LetThrough
  <2>3. jp = ip => \A x \in served[ip] : x.at \in Nat /\ x.at <= s
    BY <2>1, <2>2 DEF InOrder, TypeOK, Visit
  <2>4. jp = ip => \A x \in served[ip] \ visits[ip] : x.at + Window <= s
    BY <2>1, <2>2 DEF InOrder, Purged
  <2>5. \A x \in visits[ip] : s - x.at < Window => x \in kept  BY DEF Valid
  <2>6. IsFiniteSet(kept \cup {v}) /\ Cardinality(kept \cup {v}) <= Limit
    BY <2>1, OneMore
  <2> HIDE DEF v, kept, s, ip
  <2>7. CASE jp = ip /\ t <= s /\ s < t + Window
    <3>1. ServedFrom(jp, t)' \subseteq kept \cup {v}
      <4> SUFFICES ASSUME NEW x \in served[ip], t <= x.at, x.at < t + Window
                   PROVE  x \in kept
        BY <2>1, <2>7 DEF ServedFrom
      <4>1. x \in visits[ip]  BY <2>1, <2>3, <2>4, <2>7
      <4> QED  BY <2>1, <2>3, <2>5, <2>7, <4>1
    <3>2. /\ IsFiniteSet(ServedFrom(jp, t)')
          /\ Cardinality(ServedFrom(jp, t)') <= Cardinality(kept \cup {v})
      BY <2>6, <3>1, FS_Subset
    <3>3. Cardinality(kept \cup {v}) \in Nat /\ Cardinality(ServedFrom(jp, t)') \in Nat
      BY <2>6, <3>2, FS_CardinalityType
    <3> QED  BY <2>6, <3>2, <3>3
  <2>8. CASE ~(jp = ip /\ t <= s /\ s < t + Window)
    <3>1. ServedFrom(jp, t)' = ServedFrom(jp, t)  BY <2>1, <2>8 DEF ServedFrom
    <3> QED  BY <3>1 DEF AnyWindowBound
  <2> QED  BY <2>7, <2>8
<1>2. CASE served' = served
  <2>1. ServedFrom(jp, t)' = ServedFrom(jp, t)  BY <1>2 DEF ServedFrom
  <2> QED  BY <2>1 DEF AnyWindowBound
<1> QED  BY <1>1, <1>2 DEF Next, Tick, Arrive, Reject, Finish, vars

(* The rate is bounded, in every window of every address that has one      *)
(* request in flight at a time.                                            *)
THEOREM RateIsBounded == Spec => []RateBound
<1> DEFINE IInv == InOrder /\ AnyWindowBound
<1>1. Init => IInv
  <2> SUFFICES ASSUME Init  PROVE InOrder /\ AnyWindowBound  OBVIOUS
  <2>1. InOrder  BY DEF Init, InOrder, Purged
  <2>2. ASSUME NEW ip \in Ips, NEW t \in Nat
        PROVE  Cardinality(ServedFrom(ip, t)) <= Limit
    <3>1. ServedFrom(ip, t) = {}  BY DEF Init, ServedFrom
    <3> QED  BY <3>1, FS_EmptySet, LimiterAssumption
  <2> QED  BY <2>1, <2>2 DEF AnyWindowBound
<1>2. TypeOK /\ IInv /\ [Next]_vars => IInv'
  BY OrderKept, WindowKept
<1>3. TypeOK /\ IInv => RateBound
  BY DEF AnyWindowBound, RateBound, TypeOK
<1> QED  BY <1>1, <1>2, <1>3, TypeCorrect, PTL DEF Spec

-----------------------------------------------------------------------------

(* A set of natural numbers has a least one.                               *)
LEMMA Least ==
  ASSUME NEW T, T \subseteq Nat, T # {}
  PROVE  \E x \in T : \A y \in T : x <= y
<1>1. PICK x \in T : \A y \in T : ~ (<<y, x>> \in OpToRel(<, Nat))
  BY NatLessThanWellFounded, WFMin
<1>2. \A y \in T : ~(y < x)
  BY <1>1 DEF OpToRel
<1> QED  BY <1>2

(* valid[0] is there, if anything is.                                      *)
LEMMA FirstIsOne ==
  ASSUME NEW S, S \subseteq Visit, S # {}
  PROVE  First(S) \in S
<1> DEFINE T == {v.nth : v \in S}
<1>1. T \subseteq Nat /\ T # {}  BY DEF Visit
<1>2. PICK n \in T : \A m \in T : n <= m  BY <1>1, Least
<1>3. PICK v \in S : v.nth = n  BY <1>2
<1>4. \A x \in S : v.nth <= x.nth  BY <1>2, <1>3
<1> QED  BY <1>3, <1>4 DEF First

(* A request made after the wait that was announced finds room: by then    *)
(* the visit the wait is computed from is out of the window, and nothing   *)
(* has come in that was not counted before.                                *)
THEOREM WaitIsLongEnough == Spec => []BodyWaitSuffices
<1>1. ASSUME TypeOK, BoundedVisits  PROVE BodyWaitSuffices
  <2> SUFFICES ASSUME NEW c \in Conns, Cardinality(Valid(IpOf[c], slot[c].now)) >= Limit
               PROVE  LET ip == IpOf[c]
                          t  == slot[c].now
                      IN  Cardinality(Valid(ip, t + RetryAfter(ip, t))) < Limit
    BY DEF BodyWaitSuffices
  <2> DEFINE ip    == IpOf[c]
             t     == slot[c].now
             before == Valid(ip, t)
             v     == First(before)
             after == Valid(ip, t + RetryAfter(ip, t))
  <2>1. /\ ip \in Ips /\ t \in Nat /\ visits[ip] \subseteq Visit /\ IsFiniteSet(visits[ip])
        /\ Limit \in Nat \ {0} /\ Window \in Nat
    BY <1>1, LimiterAssumption DEF TypeOK, Slot
  <2>2. before \subseteq visits[ip]  BY DEF Valid
  <2>3. IsFiniteSet(before) /\ Cardinality(before) <= Cardinality(visits[ip])
    BY <2>1, <2>2, FS_Subset
  <2>4. before # {}  BY <2>1, FS_EmptySet
  <2>5. v \in before /\ v.at \in Nat /\ t - v.at < Window
    <3>1. v \in before  BY <2>1, <2>2, <2>4, FirstIsOne
    <3>2. v \in visits[ip] /\ t - v.at < Window  BY <3>1 DEF Valid
    <3> QED  BY <2>1, <3>1, <3>2 DEF Visit
  <2>6. RetryAfter(ip, t) = Window - (t - v.at)  BY DEF RetryAfter
  <2>7. after = {x \in visits[ip] : (t + (Window - (t - v.at))) - x.at < Window}
    BY <2>6 DEF Valid
  <2>8. before = {x \in visits[ip] : t - x.at < Window}  BY DEF Valid
  <2>9. \A x \in visits[ip] : x.at \in Nat  BY <2>1 DEF Visit
  <2> HIDE DEF v, t, ip, before, after
  <2>10. after \subseteq before /\ v \notin after
    BY <2>1, <2>5, <2>7, <2>8, <2>9
  <2>11. IsFiniteSet(before \ {v}) /\ Cardinality(before \ {v}) = Cardinality(before) - 1
    BY <2>3, <2>5, FS_RemoveElement
  <2>12. after \subseteq before \ {v}  BY <2>10
  <2>13. IsFiniteSet(after) /\ Cardinality(after) <= Cardinality(before \ {v})
    BY <2>11, <2>12, FS_Subset
  <2>14. /\ Cardinality(after) \in Nat /\ Cardinality(before) \in Nat
         /\ Cardinality(visits[ip]) \in Nat
    BY <2>1, <2>3, <2>13, FS_CardinalityType
  <2>15. Cardinality(visits[ip]) <= Limit  BY <1>1, <2>1 DEF BoundedVisits
  <2>16. Cardinality(after) < Limit
    BY <2>1, <2>3, <2>11, <2>13, <2>14, <2>15
  <2> QED  BY <2>16 DEF after, ip, t
<1> QED  BY <1>1, TypeCorrect, SlicesAreBounded, PTL

-----------------------------------------------------------------------------
(* With several requests of an address in flight.                          *)

Peers(ip) == {c \in Conns : IpOf[c] = ip}

(* The requests still to be decided that have read the clock before the    *)
(* end of a window.                                                        *)
Early(ip, t) == {c \in Peers(ip) : slot[c].pc = "waiting" /\ slot[c].now < t + Window}

(* A purge may have forgotten some of the window.                          *)
Late(ip, t) == \E v \in served[ip] : v.at >= t + Window

(* As long as no purge has come after a window, the slice has all of it.   *)
(* After one, only those requests can be added that are waiting already,   *)
(* and the one that purged is none of them.                                *)
WindowCounted(ip, t) ==
  /\ Late(ip, t) => Cardinality(ServedFrom(ip, t)) + Cardinality(Early(ip, t))
                      <= Limit + Cardinality(Peers(ip)) - 1
  /\ ~Late(ip, t) => ServedFrom(ip, t) \subseteq visits[ip]

OverrunInv ==
  /\ \A c \in Conns : slot[c].pc = "waiting" => slot[c].now <= clock
  /\ \A ip \in Ips : \A v \in served[ip] : v.at <= clock /\ Peers(ip) # {}
  /\ \A ip \in Ips, t \in Nat : WindowCounted(ip, t)

LEMMA PeersCounted ==
  ASSUME TypeOK, IsFiniteSet(Conns), NEW ip \in Ips, NEW t
  PROVE  /\ IsFiniteSet(Peers(ip)) /\ Cardinality(Peers(ip)) \in Nat
         /\ IsFiniteSet(Early(ip, t)) /\ Cardinality(Early(ip, t)) \in Nat
         /\ IsFiniteSet(ServedFrom(ip, t)) /\ Cardinality(ServedFrom(ip, t)) \in Nat
<1>1. Peers(ip) \subseteq Conns /\ Early(ip, t) \subseteq Conns  BY DEF Peers, Early
<1>2. ServedFrom(ip, t) \subseteq served[ip] /\ IsFiniteSet(served[ip])
  BY DEF ServedFrom, TypeOK
<1> QED  BY <1>1, <1>2, FS_Subset, FS_CardinalityType

(* A request that is let through.                                          *)
LEMMA OverrunServed ==
  ASSUME TypeOK, TypeOK', IsFiniteSet(Conns), BoundedVisits, OverrunInv,
         NEW c \in Conns, LetThrough(c), NEW jp \in Ips, NEW t \in Nat
  PROVE  WindowCounted(jp, t)'
<1> DEFINE ip == IpOf[c]
           s  == slot[c].now
           v  == [at |-> s, nth |-> Cardinality(served[ip]) + 1]
           kept == Valid(ip, s)
<1>1. /\ ip \in Ips /\ s \in Nat /\ v.at = s
      /\ visits'[ip] = kept \cup {v} /\ served'[ip] = served[ip] \cup {v}
      /\ jp # ip => visits'[jp] = visits[jp] /\ served'[jp] = served[jp]
  BY Appended
<1>2. /\ slot[c].pc = "waiting" /\ slot'[c].pc = "inside" /\ slot'[c].now = s
      /\ \A d \in Conns \ {c} : slot'[d] = slot[d]
  BY DEF LetThrough, TypeOK, Slot
<1>3. Early(jp, t)' = Early(jp, t) \ {c}  BY <1>2 DEF Early, Peers
<1>4. WindowCounted(jp, t)  BY DEF OverrunInv
<1>0. Cardinality(ServedFrom(jp, t)') \in Nat /\ Cardinality(Early(jp, t)') \in Nat
  <2>1. ServedFrom(jp, t)' \subseteq served'[jp] /\ IsFiniteSet(served'[jp])
    BY DEF ServedFrom, TypeOK
  <2>2. Early(jp, t)' \subseteq Conns  BY DEF Early, Peers
  <2> QED  BY <2>1, <2>2, FS_Subset, FS_CardinalityType
<1>5. /\ Cardinality(ServedFrom(jp, t)) \in Nat /\ Cardinality(Early(jp, t)) \in Nat
      /\ IsFiniteSet(ServedFrom(jp, t)) /\ IsFiniteSet(Early(jp, t))
      /\ IsFiniteSet(Peers(jp)) /\ Cardinality(Peers(jp)) \in Nat
      /\ Limit \in Nat /\ Window \in Nat
  BY PeersCounted, LimiterAssumption
<1>6. Peers(jp)' = Peers(jp)  BY DEF Peers
<1>7. served[jp] \subseteq Visit /\ visits[jp] \subseteq Visit  BY DEF TypeOK
<1>8. \A x \in visits[ip] : s - x.at < Window => x \in kept  BY DEF Valid
<1> HIDE DEF v, kept, s
<1>9. CASE jp # ip
  <2>1. c \notin Early(jp, t)  BY <1>9 DEF Early, Peers
  <2>2. ServedFrom(jp, t)' = ServedFrom(jp, t) /\ (Late(jp, t)' <=> Late(jp, t))
    BY <1>1, <1>9 DEF ServedFrom, Late
  <2> QED  BY <1>1, <1>3, <1>4, <1>6, <1>9, <2>1, <2>2 DEF WindowCounted
<1>10. CASE jp = ip /\ s >= t + Window
  <2>1. ServedFrom(jp, t)' = ServedFrom(jp, t)  BY <1>1, <1>5, <1>10 DEF ServedFrom
  <2>2. Late(jp, t)'  BY <1>1, <1>10 DEF Late
  <2>3. c \notin Early(jp, t)  BY <1>1, <1>5, <1>10 DEF Early, s
  <2>4. CASE Late(jp, t)  BY <1>3, <1>4, <1>6, <2>1, <2>2, <2>3, <2>4 DEF WindowCounted
  <2>5. CASE ~Late(jp, t)
    <3>1. IsFiniteSet(visits[jp]) /\ Cardinality(visits[jp]) <= Limit
      BY DEF TypeOK, BoundedVisits
    <3>2. Cardinality(ServedFrom(jp, t)) <= Cardinality(visits[jp])
      BY <1>4, <2>5, <3>1, FS_Subset DEF WindowCounted
    <3>3. Cardinality(visits[jp]) \in Nat  BY <3>1, FS_CardinalityType
    <3>4. c \in Peers(jp) /\ Early(jp, t) \subseteq Peers(jp) \ {c}
      BY <1>10, <2>3 DEF Early, Peers
    <3>5. /\ IsFiniteSet(Peers(jp) \ {c})
          /\ Cardinality(Peers(jp) \ {c}) = Cardinality(Peers(jp)) - 1
      BY <1>5, <3>4, FS_RemoveElement
    <3>6. Cardinality(Early(jp, t)) <= Cardinality(Peers(jp)) - 1
      BY <3>4, <3>5, FS_Subset
    <3>7. Cardinality(ServedFrom(jp, t)) + Cardinality(Early(jp, t))
            <= Limit + Cardinality(Peers(jp)) - 1
      BY <1>5, <3>1, <3>2, <3>3, <3>6
    <3>8. Early(jp, t)' = Early(jp, t)  BY <1>3, <2>3
    <3> QED  BY <1>6, <2>1, <2>2, <3>7, <3>8 DEF WindowCounted
  <2> QED  BY <2>4, <2>5
<1>11. CASE jp = ip /\ ~(s >= t + Window)
  <2>1. Late(jp, t)' <=> Late(jp, t)  BY <1>1, <1>11 DEF Late
  <2>2. ServedFrom(jp, t)' \subseteq ServedFrom(jp, t) \cup {v}
    BY <1>1, <1>11 DEF ServedFrom
  <2>3. CASE Late(jp, t)
    <3>1. c \in Early(jp, t)  BY <1>1, <1>2, <1>5, <1>11 DEF Early, Peers, s
    <3>2. Cardinality(Early(jp, t)') = Cardinality(Early(jp, t)) - 1
      BY <1>3, <1>5, <3>1, FS_RemoveElement
    <3>3. /\ IsFiniteSet(ServedFrom(jp, t) \cup {v})
          /\ Cardinality(ServedFrom(jp, t) \cup {v}) \in Nat
          /\ Cardinality(ServedFrom(jp, t) \cup {v}) <= Cardinality(ServedFrom(jp, t)) + 1
      <4>1. IsFiniteSet(ServedFrom(jp, t) \cup {v})  BY <1>5, FS_AddElement
      <4>2. \/ Cardinality(ServedFrom(jp, t) \cup {v}) = Cardinality(ServedFrom(jp, t))
            \/ Cardinality(ServedFrom(jp, t) \cup {v}) = Cardinality(ServedFrom(jp, t)) + 1
        BY <1>5, FS_AddElement
      <4> QED  BY <1>5, <4>1, <4>2
    <3>4. Cardinality(ServedFrom(jp, t)') <= Cardinality(ServedFrom(jp, t) \cup {v})
      BY <2>2, <3>3, FS_Subset
    <3>5. Cardinality(ServedFrom(jp, t)) + Cardinality(Early(jp, t))
            <= Limit + Cardinality(Peers(jp)) - 1
      BY <1>4, <2>3 DEF WindowCounted
    <3>6. Cardinality(ServedFrom(jp, t)') + Cardinality(Early(jp, t)')
            <= Limit + Cardinality(Peers(jp)) - 1
      BY <1>0, <1>5, <3>2, <3>3, <3>4, <3>5
    <3> QED  BY <1>6, <2>1, <2>3, <3>6 DEF WindowCounted
  <2>4. CASE ~Late(jp, t)
    <3>1. ASSUME NEW x \in ServedFrom(jp, t)  PROVE x \in kept
      <4>1. x \in visits[ip] /\ t <= x.at /\ x.at \in Nat
        BY <1>4, <1>7, <1>11, <2>4 DEF WindowCounted, ServedFrom, Visit
      <4> QED  BY <1>1, <1>5, <1>8, <1>11, <4>1
    <3>2. ServedFrom(jp, t)' \subseteq visits'[jp]  BY <1>1, <1>11, <2>2, <3>1
    <3> QED  BY <2>1, <2>4, <3>2 DEF WindowCounted
  <2> QED  BY <2>3, <2>4
<1> QED  BY <1>9, <1>10, <1>11

LEMMA OverrunKept ==
  ASSUME TypeOK, TypeOK', IsFiniteSet(Conns), BoundedVisits, OverrunInv, [Next]_vars
  PROVE  OverrunInv'
<1> USE LimiterAssumption
<1>1. \A c \in Conns : slot'[c].pc = "waiting" => slot'[c].now <= clock'
  BY DEF OverrunInv, Next, Tick, Arrive, Reject, LetThrough, Finish, vars, TypeOK, Slot
<1>2. ASSUME NEW ip \in Ips, NEW v \in served'[ip]
      PROVE  v.at <= clock' /\ Peers(ip)' # {}
  <2>1. clock' \in Nat /\ clock \in Nat /\ clock <= clock' /\ Peers(ip)' = Peers(ip)
    BY DEF Next, Tick, Arrive, Reject, LetThrough, Finish, vars, TypeOK, Peers
  <2>2. CASE v \in served[ip]
    <3>1. v.at <= clock /\ v.at \in Nat /\ Peers(ip) # {}
      BY <2>2 DEF OverrunInv, TypeOK, Visit
    <3> QED  BY <2>1, <3>1
  <2>3. CASE v \notin served[ip]
    <3>1. PICK c \in Conns : LetThrough(c)
      BY <1>2, <2>3 DEF Next, Tick, Arrive, Reject, Finish, vars
    <3>2. ip = IpOf[c] /\ v.at = slot[c].now
      <4> DEFINE v1 == [at |-> slot[c].now, nth |-> Cardinality(served[IpOf[c]]) + 1]
      <4>1. /\ served'[IpOf[c]] = served[IpOf[c]] \cup {v1}
            /\ \A jp \in Ips \ {IpOf[c]} : served'[jp] = served[jp]
        BY <3>1, Appended
      <4>2. v1.at = slot[c].now  OBVIOUS
      <4> HIDE DEF v1
      <4> QED  BY <1>2, <2>3, <4>1, <4>2
    <3>3. slot[c].now <= clock /\ slot[c].now \in Nat
      BY <3>1 DEF LetThrough, OverrunInv, TypeOK, Slot
    <3>4. c \in Peers(ip)  BY <3>2 DEF Peers
    <3> QED  BY <2>1, <3>2, <3>3, <3>4
  <2> QED  BY <2>2, <2>3
<1>3. ASSUME NEW jp \in Ips, NEW t \in Nat  PROVE WindowCounted(jp, t)'
  <2>1. ASSUME NEW c \in Conns, LetThrough(c)  PROVE WindowCounted(jp, t)'
    BY <2>1, OverrunServed
  <2>2. CASE /\ visits' = visits /\ served' = served
             /\ Late(jp, t) => Early(jp, t)' \subseteq Early(jp, t)
    <3>1. /\ ServedFrom(jp, t)' = ServedFrom(jp, t) /\ (Late(jp, t)' <=> Late(jp, t))
          /\ Peers(jp)' = Peers(jp) /\ WindowCounted(jp, t)
      BY <2>2 DEF ServedFrom, Late, Peers, OverrunInv
    <3>2. /\ IsFiniteSet(Early(jp, t)) /\ Cardinality(Early(jp, t)) \in Nat
          /\ Cardinality(ServedFrom(jp, t)) \in Nat /\ Cardinality(Peers(jp)) \in Nat
      BY PeersCounted
    <3>3. Late(jp, t) => /\ IsFiniteSet(Early(jp, t)')
                         /\ Cardinality(Early(jp, t)') <= Cardinality(Early(jp, t))
      BY <2>2, <3>2, FS_Subset
    <3>4. Late(jp, t) => Cardinality(Early(jp, t)') \in Nat  BY <3>3, FS_CardinalityType
    <3> QED  BY <2>2, <3>1, <3>2, <3>3, <3>4 DEF WindowCounted
  <2>3. ASSUME NEW c \in Conns, Arrive(c), Late(jp, t)
        PROVE  Early(jp, t)' \subseteq Early(jp, t)
    <3>1. clock >= t + Window
      <4>1. PICK v \in served[jp] : v.at >= t + Window  BY <2>3 DEF Late
      <4>2. v.at <= clock /\ v.at \in Nat  BY DEF OverrunInv, TypeOK, Visit
      <4> QED  BY <4>1, <4>2 DEF TypeOK
    <3>2. slot'[c].now = clock /\ \A d \in Conns \ {c} : slot'[d] = slot[d]
      BY <2>3 DEF Arrive, TypeOK
    <3> QED  BY <3>1, <3>2 DEF Early, Peers, TypeOK
  <2>4. ASSUME NEW c \in Conns, Reject(c) \/ Finish(c)
        PROVE  Early(jp, t)' \subseteq Early(jp, t)
    <3>1. slot' = [slot EXCEPT ![c].pc = "free"]  BY <2>4 DEF Reject, Finish
    <3>2. \A d \in Conns : slot'[d].pc = "waiting" => slot'[d] = slot[d]
      BY <3>1 DEF TypeOK, Slot
    <3> QED  BY <3>2 DEF Early, Peers
  <2>5. CASE Tick \/ UNCHANGED vars
    BY <2>2, <2>5 DEF Tick, vars, Early, Peers
  <2> QED
    BY <2>1, <2>2, <2>3, <2>4, <2>5 DEF Next, Arrive, Reject, Finish
<1> QED  BY <1>1, <1>2, <1>3 DEF OverrunInv

(* With any number of requests of an address in flight, no window holds    *)
(* more than the limit and one for each of them but one.                   *)
THEOREM OverrunIsBounded == IsFiniteSet(Conns) => (Spec => []OverrunBounded)
<1> SUFFICES ASSUME IsFiniteSet(Conns)  PROVE Spec => []OverrunBounded  OBVIOUS
<1>1. Init => OverrunInv
  <2> SUFFICES ASSUME Init  PROVE OverrunInv  OBVIOUS
  <2>1. \A ip \in Ips : served[ip] = {}  BY DEF Init
  <2>2. \A ip \in Ips, t \in Nat : WindowCounted(ip, t)
    BY <2>1 DEF WindowCounted, Late, ServedFrom
  <2> QED  BY <2>1, <2>2 DEF OverrunInv, Init
<1>2. TypeOK /\ TypeOK' /\ BoundedVisits /\ OverrunInv /\ [Next]_vars => OverrunInv'
  BY OverrunKept
<1>3. TypeOK /\ BoundedVisits /\ OverrunInv => OverrunBounded
  <2> SUFFICES ASSUME TypeOK, BoundedVisits, OverrunInv, NEW ip \in Ips, NEW t \in 0..clock
               PROVE  Cardinality(ServedFrom(ip, t)) <= Limit + Cardinality(Peers(ip)) - 1
    BY DEF OverrunBounded, Peers
  <2>1. t \in Nat /\ Limit \in Nat \ {0}  BY LimiterAssumption DEF TypeOK
  <2>2. WindowCounted(ip, t)  BY <2>1 DEF OverrunInv
  <2>3. /\ IsFiniteSet(Peers(ip)) /\ Cardinality(Peers(ip)) \in Nat
        /\ Cardinality(Early(ip, t)) \in Nat /\ Cardinality(ServedFrom(ip, t)) \in Nat
    BY PeersCounted
  <2>4. CASE Late(ip, t)  BY <2>1, <2>2, <2>3, <2>4 DEF WindowCounted
  <2>5. CASE ~Late(ip, t) /\ Peers(ip) # {}
    <3>1. IsFiniteSet(visits[ip]) /\ Cardinality(visits[ip]) <= Limit
      BY DEF TypeOK, BoundedVisits
    <3>2. Cardinality(ServedFrom(ip, t)) <= Cardinality(visits[ip])
      BY <2>2, <2>5, <3>1, FS_Subset DEF WindowCounted
    <3>3. Cardinality(visits[ip]) \in Nat  BY <3>1, FS_CardinalityType
    <3>4. Cardinality(Peers(ip)) # 0  BY <2>3, <2>5, FS_EmptySet
    <3> QED  BY <2>1, <2>3, <3>1, <3>2, <3>3, <3>4
  <2>6. CASE Peers(ip) = {}
    <3>1. ServedFrom(ip, t) = {}  BY <2>6 DEF OverrunInv, ServedFrom
    <3>2. Cardinality(ServedFrom(ip, t)) = 0  BY <3>1, FS_EmptySet
    <3> QED  BY <2>1, <2>3, <3>2
  <2> QED  BY <2>4, <2>5, <2>6
<1> QED  BY <1>1, <1>2, <1>3, TypeCorrect, SlicesAreBounded, PTL DEF Spec

-----------------------------------------------------------------------------
(* The limiter against the log that forgets nothing.                       *)

(* What a purge forgot, of any address: a visit at least a window older    *)
(* than one that was served after it.                                      *)
ForgottenForGood ==
  \A ip \in Ips :
    /\ visits[ip] \subseteq served[ip]
    /\ \A v \in served[ip] : v.nth <= Cardinality(served[ip])
    /\ \A v \in Purged(ip) : \E w \in served[ip] : v.at + Window <= w.at

(* What is purged is out of the window of the visit that is appended, and  *)
(* the places in the log are taken in turn.                                *)
LEMMA ForgottenKept ==
  ASSUME TypeOK, ForgottenForGood, [Next]_vars
  PROVE  ForgottenForGood'
<1>1. ASSUME NEW c \in Conns, LetThrough(c)  PROVE ForgottenForGood'
  <2> DEFINE ip == IpOf[c]
             s  == slot[c].now
             v  == [at |-> s, nth |-> Cardinality(served[ip]) + 1]
             kept == Valid(ip, s)
  <2>1. /\ ip \in Ips /\ s \in Nat /\ v.at = s /\ v.nth = Cardinality(served[ip]) + 1
        /\ visits'[ip] = kept \cup {v} /\ served'[ip] = served[ip] \cup {v}
        /\ \A jp \in Ips \ {ip} : visits'[jp] = visits[jp] /\ served'[jp] = served[jp]
    BY <1>1, Appended
  <2>2. /\ kept \subseteq visits[ip]
        /\ \A x \in visits[ip] \ kept : ~(s - x.at < Window)
    BY DEF Valid
  <2>3. /\ visits[ip] \subseteq served[ip]
        /\ \A x \in served[ip] : x.nth <= Cardinality(served[ip])
        /\ \A x \in served[ip] \ visits[ip] : \E w \in served[ip] : x.at + Window <= w.at
    BY <2>1 DEF ForgottenForGood, Purged
  <2>4. /\ IsFiniteSet(served[ip]) /\ Cardinality(served[ip]) \in Nat
        /\ \A x \in served[ip] : x.at \in Nat /\ x.nth \in Nat
    BY <2>1, FS_CardinalityType DEF TypeOK, Visit
  <2>5. Window \in Nat  BY LimiterAssumption
  <2> HIDE DEF v, kept, s, ip
  <2>6. visits'[ip] \subseteq served'[ip]  BY <2>1, <2>2, <2>3
  <2>7. v \notin served[ip]  BY <2>1, <2>3, <2>4
  <2>8. Cardinality(served'[ip]) = Cardinality(served[ip]) + 1
    BY <2>1, <2>4, <2>7, FS_AddElement, ZenonT(60)
  <2>9. \A x \in served'[ip] : x.nth <= Cardinality(served'[ip])
    BY <2>1, <2>3, <2>4, <2>8
  <2>10. ASSUME NEW x \in served'[ip], x \notin visits'[ip]
         PROVE  \E w \in served'[ip] : x.at + Window <= w.at
    <3>1. x \in served[ip] /\ x \notin kept  BY <2>1, <2>10
    <3>2. CASE x \in visits[ip]
      <4>1. x.at + Window <= v.at  BY <2>1, <2>2, <2>4, <2>5, <3>1, <3>2
      <4> QED  BY <2>1, <4>1
    <3>3. CASE x \notin visits[ip]  BY <2>1, <2>3, <3>1, <3>3
    <3> QED  BY <3>2, <3>3
  <2>11. ASSUME NEW jp \in Ips, jp # ip
         PROVE  /\ visits'[jp] \subseteq served'[jp]
                /\ \A x \in served'[jp] : x.nth <= Cardinality(served'[jp])
                /\ \A x \in served'[jp] \ visits'[jp] :
                     \E w \in served'[jp] : x.at + Window <= w.at
    <3>1. visits'[jp] = visits[jp] /\ served'[jp] = served[jp]  BY <2>1, <2>11
    <3> QED  BY <3>1 DEF ForgottenForGood, Purged
  <2> QED  BY <2>6, <2>9, <2>10, <2>11 DEF ForgottenForGood, Purged
<1>2. CASE visits' = visits /\ served' = served
  BY <1>2 DEF ForgottenForGood, Purged
<1> QED  BY <1>1, <1>2 DEF Next, Tick, Arrive, Reject, Finish, vars

(* A visit is forgotten only when one is served that is a window younger.  *)
THEOREM NothingIsMissed == Spec => []ForgottenForGood
<1>1. Init => ForgottenForGood  BY DEF Init, ForgottenForGood, Purged
<1> QED  BY <1>1, ForgottenKept, TypeCorrect, PTL DEF Spec

(* The instance counts as the limiter does.                                *)
LEMMA SameCardinality == \A S : Sliding!Cardinality(S) = Cardinality(S)
BY DEF Sliding!Cardinality, Sliding!IsFiniteSet, Cardinality, IsFiniteSet

(* The slice of a request that nobody has overtaken holds all that counts  *)
(* against it, and the slice of any request nothing else.                  *)
LEMMA SliceTells ==
  ASSUME TypeOK, ForgottenForGood, NEW ip \in Ips, NEW t \in Nat
  PROVE  /\ Valid(ip, t) \subseteq Sliding!Recent(ip, t)
         /\ ~Sliding!Overtaken(ip, t) => Valid(ip, t) = Sliding!Recent(ip, t)
         /\ IsFiniteSet(Sliding!Recent(ip, t)) /\ IsFiniteSet(Valid(ip, t))
<1>1. visits[ip] \subseteq served[ip] /\ IsFiniteSet(served[ip])
  BY DEF ForgottenForGood, TypeOK
<1>2. Valid(ip, t) \subseteq Sliding!Recent(ip, t)
  BY <1>1 DEF Valid, Sliding!Recent
<1>3. ASSUME ~Sliding!Overtaken(ip, t), NEW v \in served[ip], t - v.at < Window
      PROVE  v \in visits[ip]
  <2>1. \A w \in served[ip] : w.at \in Nat /\ w.at <= t
    BY <1>3 DEF Sliding!Overtaken, TypeOK, Visit
  <2>2. v \notin visits[ip] => \E w \in served[ip] : v.at + Window <= w.at
    BY DEF ForgottenForGood, Purged
  <2> QED  BY <1>3, <2>1, <2>2, LimiterAssumption
<1>4. ~Sliding!Overtaken(ip, t) => Valid(ip, t) = Sliding!Recent(ip, t)
  BY <1>2, <1>3 DEF Valid, Sliding!Recent
<1>5. Sliding!Recent(ip, t) \subseteq served[ip]  BY DEF Sliding!Recent
<1> QED  BY <1>1, <1>2, <1>4, <1>5, FS_Subset

(* The limiter refuses and serves as the log of every request says, for    *)
(* any number of requests of an address in flight.                         *)
THEOREM SlidingWindowImplemented == Spec => ImplementsSlidingWindow
<1> DEFINE Asked(c) == IF slot[c].pc = "waiting" THEN slot[c].now ELSE -1
           asked    == [c \in Conns |-> Asked(c)]
<1>1. Init => Sliding!Init
  BY DEF Init, Sliding!Init, Sliding!Never
<1>2. TypeOK /\ ForgottenForGood /\ [Next]_vars => [Sliding!Next]_(Sliding!vars)
  <2> SUFFICES ASSUME TypeOK, ForgottenForGood, [Next]_vars
               PROVE  [Sliding!Next]_(Sliding!vars)
    OBVIOUS
  <2>1. CASE Tick
    <3>1. Sliding!Pass  BY <2>1 DEF Tick, Sliding!Pass, TypeOK
    <3> QED  BY <3>1 DEF Sliding!Next
  <2>2. ASSUME NEW c \in Conns, \A d \in Conns \ {c} : slot'[d] = slot[d]
        PROVE  asked' = [asked EXCEPT ![c] = Asked(c)']
    BY <2>2
  <2>3. ASSUME NEW c \in Conns, slot[c].pc = "waiting"
        PROVE  /\ slot[c].now \in Nat /\ IpOf[c] \in Ips
               /\ asked[c] = slot[c].now /\ asked[c] # Sliding!Never
    BY <2>3, LimiterAssumption DEF TypeOK, Slot, Sliding!Never
  <2>4. ASSUME NEW c \in Conns, Arrive(c)  PROVE Sliding!Ask(c)
    <3>1. /\ slot[c].pc = "free" /\ \A d \in Conns \ {c} : slot'[d] = slot[d]
          /\ slot'[c] = [pc |-> "waiting", now |-> clock]
          /\ clock' = clock /\ served' = served
      BY <2>4 DEF Arrive, TypeOK
    <3>2. asked[c] = Sliding!Never /\ Asked(c)' = clock
      BY <3>1 DEF Sliding!Never
    <3>3. asked' = [asked EXCEPT ![c] = clock]  BY <2>2, <3>1, <3>2
    <3> QED  BY <3>1, <3>2, <3>3 DEF Sliding!Ask
  <2>5. ASSUME NEW c \in Conns, Reject(c)  PROVE Sliding!Refuse(c)
    <3> DEFINE ip == IpOf[c]
               t  == slot[c].now
    <3>1. /\ slot[c].pc = "waiting" /\ \A d \in Conns \ {c} : slot'[d] = slot[d]
          /\ slot'[c].pc = "free" /\ Cardinality(Valid(ip, t)) >= Limit
          /\ clock' = clock /\ served' = served
      BY <2>5 DEF Reject, TypeOK, Slot
    <3>2. t \in Nat /\ ip \in Ips /\ asked[c] = t /\ asked[c] # Sliding!Never
      BY <2>3, <3>1
    <3>3. asked' = [asked EXCEPT ![c] = Sliding!Never]
      BY <2>2, <3>1 DEF Sliding!Never
    <3>4. /\ Valid(ip, t) \subseteq Sliding!Recent(ip, t)
          /\ IsFiniteSet(Sliding!Recent(ip, t)) /\ IsFiniteSet(Valid(ip, t))
      BY <3>2, SliceTells
    <3>5. /\ Cardinality(Valid(ip, t)) <= Cardinality(Sliding!Recent(ip, t))
          /\ Cardinality(Valid(ip, t)) \in Nat
          /\ Cardinality(Sliding!Recent(ip, t)) \in Nat
      BY <3>4, FS_Subset, FS_CardinalityType
    <3>6. Cardinality(Sliding!Recent(ip, t)) >= Limit
      BY <3>1, <3>5, LimiterAssumption
    <3> QED  BY <3>1, <3>2, <3>3, <3>6, SameCardinality DEF Sliding!Refuse
  <2>6. ASSUME NEW c \in Conns, LetThrough(c)  PROVE Sliding!Admit(c)
    <3> DEFINE ip == IpOf[c]
               t  == slot[c].now
               v  == [at |-> t, nth |-> Cardinality(served[ip]) + 1]
    <3>1. /\ slot[c].pc = "waiting" /\ \A d \in Conns \ {c} : slot'[d] = slot[d]
          /\ slot'[c].pc = "inside" /\ Cardinality(Valid(ip, t)) < Limit
          /\ clock' = clock /\ served' = [served EXCEPT ![ip] = @ \cup {v}]
      BY <2>6 DEF LetThrough, TypeOK, Slot
    <3>2. t \in Nat /\ ip \in Ips /\ asked[c] = t /\ asked[c] # Sliding!Never
      BY <2>3, <3>1
    <3>3. asked' = [asked EXCEPT ![c] = Sliding!Never]
      BY <2>2, <3>1 DEF Sliding!Never
    <3>4. ~Sliding!Overtaken(ip, t) => Valid(ip, t) = Sliding!Recent(ip, t)
      BY <3>2, SliceTells
    <3>5. Sliding!Overtaken(ip, t) \/ Cardinality(Sliding!Recent(ip, t)) < Limit
      BY <3>1, <3>4
    <3>6. v \notin served[ip]
      <4>1. v.nth = Cardinality(served[ip]) + 1 /\ Cardinality(served[ip]) \in Nat
        BY <3>2, FS_CardinalityType DEF TypeOK
      <4>2. \A x \in served[ip] : x.nth <= Cardinality(served[ip])
        BY <3>2 DEF ForgottenForGood
      <4> HIDE DEF v
      <4> QED  BY <4>1, <4>2
    <3> QED  BY <3>1, <3>2, <3>3, <3>5, <3>6, SameCardinality DEF Sliding!Admit
  <2>7. ASSUME NEW c \in Conns, Finish(c)  PROVE UNCHANGED Sliding!vars
    <3>1. /\ slot[c].pc # "waiting" /\ \A d \in Conns \ {c} : slot'[d] = slot[d]
          /\ slot'[c].pc # "waiting" /\ clock' = clock /\ served' = served
      BY <2>7 DEF Finish, TypeOK, Slot
    <3>2. \A d \in Conns : Asked(d)' = Asked(d)  BY <3>1
    <3> QED  BY <3>1, <3>2 DEF Sliding!vars
  <2>8. CASE UNCHANGED vars
    BY <2>8 DEF vars, Sliding!vars
  <2> QED
    BY <2>1, <2>4, <2>5, <2>6, <2>7, <2>8 DEF Next, Sliding!Next
<1> QED
  BY <1>1, <1>2, TypeCorrect, NothingIsMissed, PTL
  DEF Spec, ImplementsSlidingWindow, Sliding!Spec

=============================================================================
