---------------------------- MODULE MCTimpP4Network ----------------------------
(* Three packets of one flow from switch 1 to 2. *)
EXTENDS TimpP4Network, P4Topology

MCPacket == [from : {1}, to : {2}, hash : {0}, no : 1..3, intact : {TRUE}]
=============================================================================
