---------------------------- MODULE RateLimiter ----------------------------
(***************************************************************************)
(* The rate limiter of one server replica, the middleware every request    *)
(* goes through.  A request reads the clock before it takes the mutex, and *)
(* gives the mutex back only when the rest of the chain has run.           *)
(*                                                                         *)
(* The slice visits[ip] is the set of its elements, each with its place in *)
(* the order of appending: the first of a slice is the one with least nth. *)
(***************************************************************************)
EXTENDS Integers, FiniteSets

CONSTANTS Conns,     \* requests in flight: each slot carries one at a time
          Ips,       \* the client addresses
          IpOf,      \* the address behind each slot
          Limit,     \* 10 in router.go
          Window,    \* a minute in router.go
          MaxTime,   \* bound on the clock
          NoConn     \* no slot

ASSUME LimiterAssumption ==
  /\ IpOf \in [Conns -> Ips]
  /\ Limit \in Nat \ {0} /\ Window \in Nat \ {0} /\ MaxTime \in Nat
  /\ NoConn \notin Conns

VARIABLES
  clock,   \* time.Now()
  visits,  \* rl.visits, by address
  mutex,   \* the slot whose request holds rl.mu, or NoConn
  slot,    \* where the request of each slot is
  served   \* history: every visit ever appended, by address

vars == <<clock, visits, mutex, slot, served>>

Visit == [at: Nat, nth: Nat]

(* "waiting": it has read the clock, as now, and waits for the mutex.      *)
(* "inside": it was let through, and the handler runs.                     *)
Slot == [pc: {"free", "waiting", "inside"}, now: Nat]

TypeOK ==
  /\ clock \in Nat
  /\ visits \in [Ips -> SUBSET Visit]
  /\ mutex \in Conns \cup {NoConn}
  /\ slot \in [Conns -> Slot]
  /\ served \in [Ips -> SUBSET Visit]
  /\ \A ip \in Ips : IsFiniteSet(visits[ip]) /\ IsFiniteSet(served[ip])

Init ==
  /\ clock = 0
  /\ visits = [ip \in Ips |-> {}]
  /\ mutex = NoConn
  /\ slot = [c \in Conns |-> [pc |-> "free", now |-> 0]]
  /\ served = [ip \in Ips |-> {}]

-----------------------------------------------------------------------------

(* Mutant: an off-by-one in what is still within the window.               *)
ValidShort(ip, t) == {v \in visits[ip] : t - v.at < Window - 1}

(* The loop that purges: what is kept of an address's visits at time t.    *)
Valid(ip, t) == {v \in visits[ip] : t - v.at < Window}

(* valid[0] is what the wait is computed from, the first to be appended    *)
(* and not always the oldest.                                              *)
First(S) == CHOOSE v \in S : \A x \in S : v.nth <= x.nth

(* Mutant: a wait that ends before the window does.                        *)
RetryAfterShort(ip, t) == Window - (t - First(Valid(ip, t)).at) - 1

(* retryAfter, the wait as the body of a 429 has it, to the nanosecond.    *)
(* The header has it rounded, see LimiterHeader.                           *)
RetryAfter(ip, t) == Window - (t - First(Valid(ip, t)).at)

(* Mutant: now is taken for the start of the window.                       *)
ArriveEarlier(c) ==
  /\ slot[c].pc = "free"
  /\ slot' = [slot EXCEPT ![c] = [pc |-> "waiting", now |-> clock - Window]]
  /\ UNCHANGED <<clock, visits, mutex, served>>

Arrive(c) ==
  /\ slot[c].pc = "free"
  /\ slot' = [slot EXCEPT ![c] = [pc |-> "waiting", now |-> clock]]
  /\ UNCHANGED <<clock, visits, mutex, served>>

(* 429: the deferred Unlock runs at once, and the purged slice is not      *)
(* written back.                                                           *)
Reject(c) ==
  /\ slot[c].pc = "waiting"
  /\ mutex = NoConn
  /\ Cardinality(Valid(IpOf[c], slot[c].now)) >= Limit
  /\ slot' = [slot EXCEPT ![c].pc = "free"]
  /\ UNCHANGED <<clock, visits, mutex, served>>

(* Mutant: the limit compared with > instead of >=.                        *)
LetThroughOneMore(c) ==
  LET ip   == IpOf[c]
      kept == Valid(ip, slot[c].now)
      v    == [at |-> slot[c].now, nth |-> Cardinality(served[ip]) + 1]
  IN
  /\ slot[c].pc = "waiting"
  /\ mutex = NoConn
  /\ Cardinality(kept) <= Limit
  /\ visits' = [visits EXCEPT ![ip] = kept \cup {v}]
  /\ served' = [served EXCEPT ![ip] = @ \cup {v}]
  /\ mutex' = c
  /\ slot' = [slot EXCEPT ![c].pc = "inside"]
  /\ UNCHANGED clock

LetThrough(c) ==
  LET ip   == IpOf[c]
      kept == Valid(ip, slot[c].now)
      v    == [at |-> slot[c].now, nth |-> Cardinality(served[ip]) + 1]
  IN
  /\ slot[c].pc = "waiting"
  /\ mutex = NoConn
  /\ Cardinality(kept) < Limit
  /\ visits' = [visits EXCEPT ![ip] = kept \cup {v}]
  /\ served' = [served EXCEPT ![ip] = @ \cup {v}]
  /\ mutex' = c
  /\ slot' = [slot EXCEPT ![c].pc = "inside"]
  /\ UNCHANGED clock

(* Mutant: the mutex is not given back by a defer, and the handler panics. *)
FinishLocked(c) ==
  /\ slot[c].pc = "inside"
  /\ slot' = [slot EXCEPT ![c].pc = "free"]
  /\ UNCHANGED <<clock, visits, mutex, served>>

(* c.Next returns, or panics: the deferred Unlock runs.                    *)
Finish(c) ==
  /\ slot[c].pc = "inside"
  /\ mutex' = NoConn
  /\ slot' = [slot EXCEPT ![c].pc = "free"]
  /\ UNCHANGED <<clock, visits, served>>

Tick == /\ clock < MaxTime
        /\ clock' = clock + 1
        /\ UNCHANGED <<visits, mutex, slot, served>>

Next == Tick \/ \E c \in Conns : Arrive(c) \/ Reject(c) \/ LetThrough(c) \/ Finish(c)

Spec == Init /\ [][Next]_vars

(* A sync.RWMutex serves the waiting in turn, so that no request waits for *)
(* ever while others come and go (strong fairness); a handler ends.        *)
Fairness == \A c \in Conns : SF_vars(Reject(c) \/ LetThrough(c)) /\ WF_vars(Finish(c))

FairSpec == Spec /\ Fairness

-----------------------------------------------------------------------------

(* The slice of an address never outgrows the limit, for all the stale     *)
(* clocks it is purged and tested with.                                    *)
BoundedVisits == \A ip \in Ips : Cardinality(visits[ip]) <= Limit

(* A replica handles one request at a time, whoever asks: the one that     *)
(* holds the mutex.  AvatarServer takes a replica for a sequential process *)
(* for this reason.                                                        *)
OneHandler == \A c \in Conns : slot[c].pc = "inside" <=> mutex = c

ServedFrom(ip, t) == {v \in served[ip] : t <= v.at /\ v.at < t + Window}

(* An address with one request in flight at a time.                        *)
Alone(ip) == \A c, d \in Conns : IpOf[c] = ip /\ IpOf[d] = ip => c = d

(* "10 requests a minute per IP": of the requests that arrive within any   *)
(* window, no more than the limit are served, for an address with one      *)
(* request in flight at a time, whatever the others do.                    *)
RateBound ==
  \A ip \in Ips, t \in 0..clock :
    Alone(ip) => Cardinality(ServedFrom(ip, t)) <= Limit

(* With more in flight, one that read the clock before another purged the  *)
(* slice may be served beyond the limit, but never more of them than there *)
(* are other requests in flight.                                           *)
OverrunBounded ==
  \A ip \in Ips, t \in 0..clock :
    Cardinality(ServedFrom(ip, t))
      <= Limit + Cardinality({c \in Conns : IpOf[c] = ip}) - 1

(* The wait in the body of a 429 is long enough, also where stale clocks   *)
(* have put a younger visit first: if nothing else is served in the        *)
(* meantime, a request made after it is let through.                       *)
BodyWaitSuffices ==
  \A c \in Conns :
    LET ip == IpOf[c]
        t  == slot[c].now
    IN slot[c].pc = "waiting" /\ Cardinality(Valid(ip, t)) >= Limit
         => Cardinality(Valid(ip, t + RetryAfter(ip, t))) < Limit

(* The limiter implements SlidingWindow, which forgets nothing.            *)
Sliding == INSTANCE SlidingWindow
             WITH now <- clock, log <- served,
                  asked <- [c \in Conns |->
                             IF slot[c].pc = "waiting" THEN slot[c].now ELSE -1]

(* The slices tell as much as a log of every request would: nobody is      *)
(* refused below the limit, and nobody served above it whom no later       *)
(* request of the same address has overtaken on the way to the mutex.      *)
ImplementsSlidingWindow == Sliding!Spec

(* A request that has arrived is answered, if handlers end.                *)
EveryRequestAnswered == \A c \in Conns : slot[c].pc = "waiting" ~> slot[c].pc = "free"

=============================================================================
