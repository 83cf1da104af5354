------------------------ MODULE ProbedReplicaProofs ------------------------
(***************************************************************************)
(* Which limit the probes of the Deployment can live with, for any limit,  *)
(* window and bound on the clock.  The limiter's own theorems hold of a    *)
(* probed replica, for it is a limiter (LimiterStill).                     *)
(***************************************************************************)
EXTENDS ProbedReplica, RateLimiterProofs

(* The address of the probes.                                              *)
Node == IpOf[Prober]

(* The probes that are made in the window that ends at time t.             *)
ProbesUntil(t) ==
  {x \in (0..t) \X Kinds : t - x[1] < Window /\ x[2] \in DueAt(x[1])}

(* The limiter has room for all of them.                                   *)
Affordable == \A t \in Nat : Cardinality(ProbesUntil(t)) <= Limit

-----------------------------------------------------------------------------
(* What the kubelet does to a limiter is what requests may do.             *)
LEMMA LimiterStill ==
  ASSUME Prober \in Conns
  PROVE  ProbedSpec => Spec
<1>1. ProbedInit => Init  BY DEF ProbedInit
<1>2. [ProbedNext]_probedVars => [Next]_vars
  BY DEF ProbedNext, probedVars, PassTime, Probe, PassedOn, Healthy, Unhealthy, Next
<1> QED  BY <1>1, <1>2, PTL DEF ProbedSpec, Spec

(* f says which probe every visit of the node was: one that was due then,  *)
(* no probe twice, and none that is still to be let through.               *)
Explains(f) ==
  /\ f \in [served[Node] -> Kinds]
  /\ \A v \in served[Node] : v.at \in 0..clock /\ f[v] \in DueAt(v.at)
  /\ \A v, w \in served[Node] : v.at = w.at /\ f[v] = f[w] => v = w
  /\ \A v \in served[Node] : v.at = clock =>
       f[v] \notin due /\ (slot[Prober].pc = "waiting" => f[v] # probing)

(* The probe in progress was due at this time and is made in no time.      *)
OneProbe ==
  /\ due \subseteq DueAt(clock)
  /\ probing = "none" <=> slot[Prober].pc = "free"
  /\ probing # "none" => /\ probing \in DueAt(clock) \ due
                         /\ slot[Prober].now = clock

(* From the first probe on, it is still to be answered or has passed.      *)
SoonReady == clock > 0 => "readiness" \in due \/ probing = "readiness" \/ ready

KubeletInv ==
  /\ OneProbe
  /\ visits[Node] \subseteq served[Node]
  /\ \E f : Explains(f)
  /\ SoonReady
  /\ ReadyForTraffic

-----------------------------------------------------------------------------

(* There are finitely many probes to a window.                             *)
LEMMA ProbesFinite ==
  ASSUME NEW t \in Nat
  PROVE  IsFiniteSet(ProbesUntil(t)) /\ Cardinality(ProbesUntil(t)) \in Nat
<1>1. IsFiniteSet(0..t)  BY FS_Interval
<1>2. IsFiniteSet({} \cup {"liveness"})  BY FS_EmptySet, FS_AddElement
<1>3. IsFiniteSet(({} \cup {"liveness"}) \cup {"readiness"})  BY <1>2, FS_AddElement
<1>4. Kinds = ({} \cup {"liveness"}) \cup {"readiness"}  BY DEF Kinds
<1>5. IsFiniteSet((0..t) \X Kinds)  BY <1>1, <1>3, <1>4, FS_Product
<1>6. ProbesUntil(t) \subseteq (0..t) \X Kinds  BY DEF ProbesUntil
<1> QED  BY <1>5, <1>6, FS_Subset, FS_CardinalityType

(* The visits that count against the probe in progress are other probes of *)
(* the same window: there is room for one more.                            *)
LEMMA ProbeFits ==
  ASSUME Prober \in Conns, Affordable, TypeOK, KubeletInv
  PROVE  ~Reject(Prober)
<1> SUFFICES ASSUME slot[Prober].pc = "waiting"
             PROVE  ~(Cardinality(Valid(Node, slot[Prober].now)) >= Limit)
  BY DEF Reject, Node
<1> DEFINE S == Valid(Node, clock)
           P == ProbesUntil(clock)
           now == <<clock, probing>>
<1>1. PICK f : Explains(f)  BY DEF KubeletInv
<1>2. /\ clock \in Nat /\ slot[Prober].now = clock /\ probing \in DueAt(clock)
      /\ Limit \in Nat /\ Window \in Nat \ {0}
  BY LimiterAssumption DEF KubeletInv, OneProbe, TypeOK
<1>3. /\ S \subseteq served[Node]
      /\ \A v \in S : clock - v.at < Window
  BY DEF Valid, KubeletInv
<1> DEFINE g == [v \in S |-> <<v.at, f[v]>>]
<1>4. ASSUME NEW v \in S  PROVE g[v] \in P \ {now}
  <2>1. /\ v.at \in 0..clock /\ f[v] \in DueAt(v.at) /\ f[v] \in Kinds
        /\ v.at = clock => f[v] # probing
    BY <1>1, <1>3 DEF Explains
  <2>2. g[v] = <<v.at, f[v]>>  OBVIOUS
  <2> QED  BY <1>3, <2>1, <2>2 DEF ProbesUntil
<1>5. ASSUME NEW v \in S, NEW w \in S, g[v] = g[w]  PROVE v = w
  <2>1. v.at = w.at /\ f[v] = f[w]  BY <1>5
  <2> QED  BY <1>1, <1>3, <2>1 DEF Explains
<1>6. g \in Injection(S, P \ {now})
  BY <1>4, <1>5 DEF Injection, IsInjective
<1>7. now \in P  BY <1>2 DEF ProbesUntil, DueAt
<1>8. IsFiniteSet(P) /\ Cardinality(P) \in Nat /\ Cardinality(P) <= Limit
  BY <1>2, ProbesFinite DEF Affordable
<1> HIDE DEF S, P, now, g
<1>9. IsFiniteSet(P \ {now}) /\ Cardinality(P \ {now}) = Cardinality(P) - 1
  BY <1>7, <1>8, FS_RemoveElement
<1>10. IsFiniteSet(S) /\ Cardinality(S) <= Cardinality(P \ {now})
  BY <1>6, <1>9, FS_Injection
<1>11. Cardinality(S) \in Nat  BY <1>10, FS_CardinalityType
<1>12. Cardinality(S) < Limit  BY <1>2, <1>8, <1>9, <1>10, <1>11
<1> QED  BY <1>2, <1>11, <1>12 DEF S

(* What a probe that is let through adds is explained by that probe.       *)
LEMMA PassedExplained ==
  ASSUME Prober \in Conns, TypeOK, KubeletInv, PassedOn
  PROVE  (\E f : Explains(f))' /\ visits'[Node] \subseteq served'[Node]
<1> DEFINE v == [at |-> slot[Prober].now, nth |-> Cardinality(served[Node]) + 1]
<1>1. LetThrough(Prober) /\ UNCHANGED kubelet  BY DEF PassedOn
<1>2. /\ visits'[Node] = Valid(Node, slot[Prober].now) \cup {v}
      /\ served'[Node] = served[Node] \cup {v}
      /\ Valid(Node, slot[Prober].now) \subseteq visits[Node]
  BY <1>1, Appended DEF Node
<1>3. /\ slot[Prober].pc = "waiting" /\ slot'[Prober].pc = "inside"
      /\ clock' = clock /\ due' = due /\ probing' = probing
  BY <1>1 DEF LetThrough, kubelet, TypeOK
<1>4. /\ v.at = clock /\ probing \in DueAt(clock) \ due
      /\ clock \in Nat
  BY <1>3 DEF KubeletInv, OneProbe, TypeOK
<1> HIDE DEF v
<1>5. PICK f : Explains(f)  BY DEF KubeletInv
<1> DEFINE h == [w \in served'[Node] |-> IF w = v THEN probing ELSE f[w]]
<1>6. \A w \in served'[Node] : w # v => w \in served[Node] /\ h[w] = f[w]
  BY <1>2
<1>7. v \in served'[Node] /\ h[v] = probing
  <2>1. v \in served'[Node]  BY <1>2
  <2> QED  BY <2>1
<1> HIDE DEF h
<1>8. h \in [served'[Node] -> Kinds]
  <2>1. probing \in Kinds  BY <1>4 DEF DueAt
  <2>2. \A w \in served[Node] : f[w] \in Kinds  BY <1>5 DEF Explains
  <2>3. \A w \in served'[Node] : h[w] \in Kinds  BY <1>6, <1>7, <2>1, <2>2
  <2>4. h = [w \in served'[Node] |-> h[w]]  BY DEF h
  <2> QED  BY <2>3, <2>4
<1>9. \A w \in served'[Node] : w.at \in 0..clock /\ h[w] \in DueAt(w.at)
  BY <1>4, <1>5, <1>6, <1>7 DEF Explains
<1>10. \A w \in served'[Node] : w # v /\ w.at = clock => h[w] \notin due /\ h[w] # probing
  BY <1>3, <1>5, <1>6 DEF Explains
<1>11. \A w, x \in served'[Node] : w.at = x.at /\ h[w] = h[x] => w = x
  BY <1>4, <1>5, <1>6, <1>7, <1>10 DEF Explains
<1>12. \A w \in served'[Node] : w.at = clock => h[w] \notin due
  BY <1>4, <1>7, <1>10
<1>13. Node' = Node  BY DEF Node
<1>14. PICK k : k = h  OBVIOUS
<1>15. Explains(k)'
  BY <1>3, <1>8, <1>9, <1>11, <1>12, <1>13, <1>14 DEF Explains
<1> QED  BY <1>2, <1>15 DEF KubeletInv

(* The invariant, step by step.                                            *)
LEMMA KubeletKept ==
  ASSUME Prober \in Conns, Affordable, TypeOK, KubeletInv, [ProbedNext]_probedVars
  PROVE  KubeletInv'
<1> USE DEF OneProbe, SoonReady, ReadyForTraffic
<1>0. PICK f : Explains(f)  BY DEF KubeletInv
<1>t. clock \in Nat /\ slot[Prober] \in Slot /\ slot \in [Conns -> Slot]
  BY DEF TypeOK
<1>1. CASE PassTime
  <2>1. /\ clock' = clock + 1 /\ UNCHANGED <<visits, mutex, slot, served, probing, failed, ready>>
        /\ due = {} /\ probing = "none" /\ due' = DueAt(clock')
    BY <1>1 DEF PassTime, Tick
  <2>2. Explains(f)'  BY <1>0, <1>t, <2>1 DEF Explains, Node
  <2>3. "readiness" \in DueAt(clock')  BY <1>t, <2>1 DEF DueAt, Kinds
  <2> QED  BY <1>t, <2>1, <2>2, <2>3 DEF KubeletInv, Node
<1>2. ASSUME NEW p \in Kinds, Probe(p)  PROVE KubeletInv'
  <2>1. /\ UNCHANGED <<clock, visits, mutex, served, failed, ready>>
        /\ p \in due /\ due' = due \ {p} /\ probing = "none" /\ probing' = p
        /\ slot' = [slot EXCEPT ![Prober] = [pc |-> "waiting", now |-> clock]]
    BY <1>2 DEF Probe, Arrive
  <2>2. slot'[Prober].pc = "waiting" /\ slot'[Prober].now = clock  BY <1>t, <2>1
  <2>3. Explains(f)'  BY <1>0, <2>1, <2>2 DEF Explains, Node
  <2>4. p # "none"  BY DEF Kinds
  <2> QED  BY <2>1, <2>2, <2>3, <2>4 DEF KubeletInv, Node
<1>3. CASE PassedOn
  <2>1. /\ slot'[Prober].pc = "inside" /\ slot[Prober].pc = "waiting"
        /\ slot'[Prober].now = slot[Prober].now
        /\ clock' = clock /\ UNCHANGED kubelet
    BY <1>3, <1>t DEF PassedOn, LetThrough, Slot
  <2> QED  BY <1>3, <2>1, PassedExplained DEF KubeletInv, kubelet, Node
<1>4. CASE Healthy
  <2>1. /\ UNCHANGED <<clock, visits, served, due>>
        /\ slot'[Prober].pc = "free" /\ slot[Prober].pc = "inside"
        /\ probing' = "none" /\ ready' = (ready \/ probing = "readiness")
    BY <1>4, <1>t DEF Healthy, Finish
  <2>2. Explains(f)'  BY <1>0, <2>1 DEF Explains, Node
  <2> QED  BY <2>1, <2>2 DEF KubeletInv, Node
<1>5. ~Unhealthy  BY ProbeFits DEF Unhealthy
<1>6. CASE UNCHANGED probedVars
  BY <1>0, <1>6 DEF probedVars, vars, kubelet, KubeletInv, Explains, Node
<1> QED  BY <1>1, <1>2, <1>3, <1>4, <1>5, <1>6 DEF ProbedNext

(* A limiter with room for the probes of a window keeps its replica in     *)
(* service: "ready to take traffic" after the first probe.                 *)
THEOREM ReadyIfAffordable ==
  Prober \in Conns /\ Affordable => (ProbedSpec => []ReadyForTraffic)
<1> SUFFICES ASSUME Prober \in Conns, Affordable
             PROVE  ProbedSpec => []ReadyForTraffic
  OBVIOUS
<1>1. ProbedInit => KubeletInv
  <2> SUFFICES ASSUME ProbedInit  PROVE KubeletInv  OBVIOUS
  <2> DEFINE f == [v \in {} |-> "liveness"]
  <2>1. /\ clock = 0 /\ due = {} /\ probing = "none"
        /\ slot[Prober].pc = "free" /\ served[Node] = {} /\ visits[Node] = {}
    BY LimiterAssumption DEF ProbedInit, Init, Node
  <2>2. Explains(f)  BY <2>1 DEF Explains
  <2> QED  BY <2>1, <2>2 DEF KubeletInv, OneProbe, SoonReady, ReadyForTraffic
<1>2. TypeOK /\ KubeletInv /\ [ProbedNext]_probedVars => KubeletInv'  BY KubeletKept
<1>3. ProbedSpec => []TypeOK  BY LimiterStill, TypeCorrect, PTL
<1>4. KubeletInv => ReadyForTraffic  BY DEF KubeletInv
<1> QED  BY <1>1, <1>2, <1>3, <1>4, PTL DEF ProbedSpec

(* With the periods of the Deployment no minute has more than eighteen     *)
(* probes: twelve for readiness, and six for liveness.                     *)
LEMMA EighteenAMinute ==
  ASSUME Window = 12, NEW t \in Nat
  PROVE  Cardinality(ProbesUntil(t)) <= 18
<1> DEFINE P == ProbesUntil(t)
           place(x) == IF x[2] = "readiness" THEN t - x[1] ELSE 12 + ((t - x[1]) \div 2)
           g == [x \in P |-> place(x)]
<1>1. ASSUME NEW x \in P
      PROVE  /\ x[1] \in Nat /\ t - x[1] \in 0..11 /\ x = <<x[1], x[2]>>
             /\ x[2] = "readiness" \/ (x[2] = "liveness" /\ x[1] % 2 = 0)
  <2>1. /\ x \in (0..t) \X Kinds /\ t - x[1] < 12 /\ x[2] \in DueAt(x[1])
    BY DEF ProbesUntil
  <2>2. x[1] \in 0..t /\ x = <<x[1], x[2]>>  BY <2>1
  <2>3. x[2] = "readiness" \/ (x[2] = "liveness" /\ x[1] % 2 = 0)
    BY <2>1 DEF DueAt, Kinds
  <2>4. x[1] \in Nat /\ t - x[1] \in 0..11
    <3> DEFINE a == x[1]
    <3>1. a \in 0..t /\ t - a < 12  BY <2>1, <2>2
    <3> HIDE DEF a
    <3>2. a \in Nat /\ t - a \in 0..11  BY <3>1
    <3> QED  BY <3>2 DEF a
  <2> QED  BY <2>2, <2>3, <2>4
<1>2. \A n \in 0..11 : n \div 2 \in 0..5  OBVIOUS
<1>3. ASSUME NEW a \in Nat, NEW b \in Nat, a % 2 = 0, b % 2 = 0,
             t - a \in 0..11, t - b \in 0..11, (t - a) \div 2 = (t - b) \div 2
      PROVE  a = b
  BY <1>3
<1>4. ASSUME NEW x \in P  PROVE g[x] \in 0..17
  <2>1. g[x] = place(x)  OBVIOUS
  <2> HIDE DEF P, g
  <2> QED  BY <1>1, <1>2, <2>1
<1>5. ASSUME NEW x \in P, NEW y \in P, g[x] = g[y]  PROVE x = y
  <2>1. place(x) = place(y)  BY <1>5
  <2> HIDE DEF P, g
  <2>2. (t - x[1]) \div 2 \in 0..5 /\ (t - y[1]) \div 2 \in 0..5  BY <1>1, <1>2
  <2>3. x[2] = y[2]  BY <1>1, <2>1, <2>2
  <2>4. x[1] = y[1]
    <3>1. CASE x[2] = "readiness"  BY <1>1, <2>1, <2>3, <3>1
    <3>2. CASE x[2] # "readiness"
      <4>1. (t - x[1]) \div 2 = (t - y[1]) \div 2  BY <2>1, <2>2, <2>3, <3>2
      <4> QED  BY <1>1, <1>3, <2>3, <3>2, <4>1
    <3> QED  BY <3>1, <3>2
  <2> QED  BY <1>1, <2>3, <2>4
<1> HIDE DEF P, place
<1>6. g \in Injection(P, 0..17)  BY <1>4, <1>5 DEF Injection, IsInjective
<1>7. IsFiniteSet(0..17) /\ Cardinality(0..17) = 18
  <2>1. 0 \in Int /\ 17 \in Int  OBVIOUS
  <2>2. /\ IsFiniteSet(0..17)
        /\ Cardinality(0..17) = IF 0 > 17 THEN 0 ELSE 17 - 0 + 1
    BY <2>1, FS_Interval, Zenon
  <2> DEFINE n == Cardinality(0..17)
  <2> HIDE DEF n
  <2>3. n = 18  BY <2>2 DEF n
  <2> QED  BY <2>2, <2>3 DEF n
<1> HIDE DEF g
<1>8. Cardinality(P) <= 18  BY <1>6, <1>7, FS_Injection
<1> QED  BY <1>8 DEF P

(* What the Deployment would need: eighteen requests a minute instead of   *)
(* the ten of the router.                                                  *)
THEOREM EighteenSuffice ==
  Prober \in Conns /\ Window = 12 /\ Limit >= 18 => (ProbedSpec => []ReadyForTraffic)
<1> SUFFICES ASSUME Prober \in Conns, Window = 12, Limit >= 18
             PROVE  ProbedSpec => []ReadyForTraffic
  OBVIOUS
<1>1. Affordable
  <2> SUFFICES ASSUME NEW t \in Nat  PROVE Cardinality(ProbesUntil(t)) <= Limit
    BY DEF Affordable
  <2> QED  BY EighteenAMinute, ProbesFinite, LimiterAssumption
<1> QED  BY <1>1, ReadyIfAffordable

=============================================================================
