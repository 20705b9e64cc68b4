------------------------------- MODULE MCHub --------------------------------
(* Small instances of Hub for TLC. *)
EXTENDS Hub, TLC

CONSTANTS c1, c2, s1

OneSession == [c \in Clients |-> s1]

Symmetry == Permutations(Clients)
=============================================================================
