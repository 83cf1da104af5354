------------------------------- MODULE MCApi -------------------------------
(* AvatarApi on a small instance: two users, either of whom may upload,    *)
(* read and delete.                                                        *)
EXTENDS AvatarApi, TLC

CONSTANTS u1, u2

TwoUsers == {u1, u2}
Symmetry == Permutations(TwoUsers)

=============================================================================
