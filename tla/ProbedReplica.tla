--------------------------- MODULE ProbedReplica ---------------------------
(***************************************************************************)
(* A replica of the server that nobody uses, under the probes of its       *)
(* Deployment: GET /health goes through the limiter like any other         *)
(* request, and every probe comes from the address of the node.  A tick of *)
(* the clock is 5 seconds.                                                 *)
(***************************************************************************)
EXTENDS RateLimiter

CONSTANTS Prober,           \* one of Conns, which the probes use
          FailureThreshold  \* 3, the default of Kubernetes

VARIABLES
  due,      \* the probes still to be made at this time
  probing,  \* the probe in progress, or "none"
  failed,   \* how often in a row each probe has failed
  ready     \* whether the replica is sent requests

kubelet == <<due, probing, failed, ready>>
probedVars == <<vars, kubelet>>

Kinds == {"liveness", "readiness"}

ProbedInit == /\ Init
              /\ due = {}
              /\ probing = "none"
              /\ failed = [p \in Kinds |-> 0]
              /\ ready = FALSE

(* After 5 seconds every 5, and after 30 seconds every 10.                 *)
DueAt(t) == {p \in Kinds : IF p = "readiness" THEN t >= 1 ELSE t >= 6 /\ t % 2 = 0}

PassTime == /\ due = {} /\ probing = "none"
            /\ Tick
            /\ due' = DueAt(clock')
            /\ UNCHANGED <<probing, failed, ready>>

Probe(p) == /\ p \in due /\ probing = "none"
            /\ Arrive(Prober)
            /\ due' = due \ {p}
            /\ probing' = p
            /\ UNCHANGED <<failed, ready>>

PassedOn == LetThrough(Prober) /\ UNCHANGED kubelet

(* 200 {"status": "ok"}.                                                   *)
Healthy == /\ Finish(Prober)
           /\ failed' = [failed EXCEPT ![probing] = 0]
           /\ ready' = (ready \/ probing = "readiness")
           /\ probing' = "none"
           /\ UNCHANGED due

(* 429 is a failure.                                                       *)
Unhealthy == /\ Reject(Prober)
             /\ failed' = [failed EXCEPT ![probing] = @ + 1]
             /\ ready' = (ready /\ failed'["readiness"] < FailureThreshold)
             /\ probing' = "none"
             /\ UNCHANGED due

ProbedNext == PassTime \/ PassedOn \/ Healthy \/ Unhealthy \/ \E p \in Kinds : Probe(p)

ProbedSpec == ProbedInit /\ [][ProbedNext]_probedVars

(* "initialDelaySeconds: 5 # ready to take traffic": a replica that is     *)
(* healthy, and whose first probe has been answered, is sent requests.     *)
ReadyForTraffic == clock > 1 => ready

=============================================================================
