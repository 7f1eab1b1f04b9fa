------------------------------ MODULE P4Topology ------------------------------
(***************************************************************************)
(* The cables, tables and multicast groups of the four switches in         *)
(* p4/routingmeasuretimp.zip: hosts at 1 and 2, which are joined by 3 and  *)
(* 4; 3 and 4 are also joined to each other.                               *)
(***************************************************************************)
EXTENDS TimpP4, TLC

Cable == { <<<<1, 3>>, <<3, 1>>>>, <<<<1, 4>>, <<4, 2>>>>, <<<<2, 3>>, <<4, 1>>>>,
           <<<<2, 4>>, <<3, 2>>>>, <<<<3, 3>>, <<4, 3>>>> }

MCWire ==
  LET ends == { c[1] : c \in Cable } \cup { c[2] : c \in Cable }
  IN  [i \in ends |-> CHOOSE j \in ends : <<i, j>> \in Cable \/ <<j, i>> \in Cable]

MCLinkPorts == [s \in Switch |-> { p \in Port : <<s, p>> \in DOMAIN MCWire }]

(* A row per switch, a column per destination. *)
MCAltPorts ==
  << <<{}, {3, 4}>>, <<{3, 4}, {}>>, <<{1}, {2, 3}>>, <<{2, 3}, {1}>> >>

MCGroupOffset == << <<0, 4>>, <<0, 4>>, <<0, 4>>, <<0, 4>> >>

MCGroup ==
  << (7 :> {3, 4, Recirc}) @@ (8 :> {3, 4, Recirc}),
     (3 :> {3, 4, Recirc}) @@ (4 :> {3, 4, Recirc}),
     (1 :> {1, 2, 3, Recirc}) @@ (6 :> {1, 2, Recirc}) @@ (7 :> {1, 3, Recirc}),
     (2 :> {1, 2, Recirc}) @@ (3 :> {1, 3, Recirc}) @@ (5 :> {1, 2, 3, Recirc}) >>
=============================================================================
