------------------------------ MODULE MCSystem ------------------------------
(* AvatarSystem, with its claims, on small instances.                      *)
EXTENDS AvatarClaims, TLC

(* Replicas are alike, and so are workers and users.                       *)
Alike == Permutations(Replicas) \cup Permutations(Workers) \cup Permutations(Users)

=============================================================================
