----------------------------- MODULE MCTimpSwitch -----------------------------
(***************************************************************************)
(* A switch, id 1, with two ports.  Destination 0 is reached through ports *)
(* 2 and 1 (in this order).  With three switches there is destination 2    *)
(* too, through port 1 only; it is the last one, so the round robin never  *)
(* visits its row.                                                         *)
(***************************************************************************)
EXTENDS TimpSwitch

CONSTANTS
  MinPrice, MaxPrice,   \* bounds on the price of a port, for TLC
  MaxOccupied           \* bound on the entries that hold a flowlet, for TLC

MCRoutes == [d \in Dst |-> CASE d = 0 -> <<2, 1>> [] d = 1 -> <<>> [] d = 2 -> <<1>>]
MCUpstream == [d \in Dst |-> CASE d = 0 -> {1} [] d = 1 -> {1} [] d = 2 -> {2}]

Bounds ==
  /\ \A p \in Port : router.prices_prt[p] \in -MinPrice .. MaxPrice
  /\ Cardinality(Occupied) <= MaxOccupied
=============================================================================
