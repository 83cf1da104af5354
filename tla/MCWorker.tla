------------------------------ MODULE MCWorker ------------------------------
(* WorkerAlone on small instances.                                         *)
EXTENDS WorkerAlone, TLC

Alike == Permutations(Workers)

=============================================================================
