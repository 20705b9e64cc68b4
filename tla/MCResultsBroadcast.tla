------------------------- MODULE MCResultsBroadcast -------------------------
(* Small instances of ResultsBroadcast for TLC. *)
EXTENDS ResultsBroadcast, TLC

OneSession == [c \in Clients |-> CHOOSE s \in Sessions : TRUE]
OnePartition == [s \in Sessions |-> CHOOSE p \in Partitions : TRUE]

NoFaults == {}
=============================================================================
