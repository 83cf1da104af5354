---------------------------- MODULE SlidingWindow ----------------------------
(***************************************************************************)
(* What the rate limiter promises, without its slices, its purges and its  *)
(* mutex: a log of every request served, of which nothing is forgotten. A  *)
(* request is judged by the time it was made, and by all that was served   *)
(* of its address in the window before.                                    *)
(***************************************************************************)
EXTENDS Integers, FiniteSets

CONSTANTS Conns, Ips, IpOf, Limit, Window

VARIABLES now,    \* the time
          asked,  \* when the undecided request of each slot was made, or Never
          log     \* what was served, by address

vars == <<now, asked, log>>

Never == -1

(* What counts against a request of an address that was made at time t.    *)
Recent(ip, t) == {v \in log[ip] : t - v.at < Window}

(* A request of the address made later than t was served before.           *)
Overtaken(ip, t) == \E v \in log[ip] : v.at > t

Init == /\ now = 0
        /\ asked = [c \in Conns |-> Never]
        /\ log = [ip \in Ips |-> {}]

Pass == now' > now /\ UNCHANGED <<asked, log>>

Ask(c) == /\ asked[c] = Never
          /\ asked' = [asked EXCEPT ![c] = now]
          /\ UNCHANGED <<now, log>>

(* Below the limit; only a request that was overtaken may be one too many. *)
Admit(c) ==
  LET ip == IpOf[c]
      v  == [at |-> asked[c], nth |-> Cardinality(log[ip]) + 1]
  IN
  /\ asked[c] # Never
  /\ Overtaken(ip, asked[c]) \/ Cardinality(Recent(ip, asked[c])) < Limit
  /\ v \notin log[ip]
  /\ log' = [log EXCEPT ![ip] = @ \cup {v}]
  /\ asked' = [asked EXCEPT ![c] = Never]
  /\ UNCHANGED now

(* Never without reason: the limit was reached.                            *)
Refuse(c) ==
  /\ asked[c] # Never
  /\ Cardinality(Recent(IpOf[c], asked[c])) >= Limit
  /\ asked' = [asked EXCEPT ![c] = Never]
  /\ UNCHANGED <<now, log>>

Next == Pass \/ \E c \in Conns : Ask(c) \/ Admit(c) \/ Refuse(c)

Spec == Init /\ [][Next]_vars

=============================================================================
