------------------------------ MODULE MCProbes ------------------------------
(* ProbedReplica with the numbers of the router and of the Deployment.     *)
EXTENDS ProbedReplica

FromNode == [c \in Conns |-> CHOOSE ip \in Ips : TRUE]

=============================================================================
