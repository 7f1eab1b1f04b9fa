---------------------------- MODULE MCTimpP4Switch ----------------------------
(* Packets of two flows per destination, one of them with the highest bit  *)
(* of the hash set.                                                        *)
EXTENDS TimpP4Switch, P4Topology

MCPacket == [to : Dst, hash : {0, 3}, intact : {TRUE}]
=============================================================================
