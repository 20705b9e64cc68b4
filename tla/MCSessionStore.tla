--------------------------- MODULE MCSessionStore ---------------------------
(* A small instance of SessionStore for TLC. *)
EXTENDS SessionStore, TLC

Symmetry == Permutations(Requests)
=============================================================================
