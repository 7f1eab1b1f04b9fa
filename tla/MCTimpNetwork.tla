---------------------------- MODULE MCTimpNetwork ----------------------------
(***************************************************************************)
(* Two topologies.  With three switches, a triangle in which every switch  *)
(* reaches the other two.  With four, a diamond 0 - {1, 2} - 3 with a      *)
(* cross link 1 - 2 that routes towards 0 may use from 1 and routes        *)
(* towards 3 from 2, so that an update for 0 can make three hops.          *)
(***************************************************************************)
EXTENDS TimpNetwork, TLC

(* The cables, as pairs of interfaces <<switch, port>>. *)
Cable ==
  IF SwCount = 3
  THEN { <<<<0, 1>>, <<1, 1>>>>, <<<<0, 2>>, <<2, 1>>>>, <<<<1, 2>>, <<2, 2>>>> }
  ELSE { <<<<0, 1>>, <<1, 2>>>>, <<<<0, 2>>, <<2, 2>>>>, <<<<1, 3>>, <<2, 3>>>>,
         <<<<3, 1>>, <<1, 1>>>>, <<<<3, 2>>, <<2, 1>>>> }

MCWire ==
  LET ends == { c[1] : c \in Cable } \cup { c[2] : c \in Cable }
  IN  [i \in ends |-> CHOOSE j \in ends : <<i, j>> \in Cable \/ <<j, i>> \in Cable]

(* A row per switch, a column per destination. *)
RouteTable ==
  IF SwCount = 3
  THEN << << <<>>,     <<1>>,    <<1, 2>> >>,
          << <<1>>,    <<>>,     <<2>>    >>,
          << <<1, 2>>, <<2>>,    <<>>     >> >>
  ELSE << << <<>>,     <<1>>,    <<2>>,   <<1, 2>> >>,
          << <<2, 3>>, <<>>,     <<3>>,   <<1>>    >>,
          << <<2>>,    <<3>>,    <<>>,    <<1, 3>> >>,
          << <<1, 2>>, <<1>>,    <<2>>,   <<>>     >> >>

(* A row per destination, a column per switch. *)
RankTable ==
  IF SwCount = 3
  THEN << <<0, 1, 2>>, <<1, 0, 1>>, <<2, 1, 0>> >>
  ELSE << <<0, 2, 1, 3>>, <<1, 0, 1, 2>>, <<1, 1, 0, 2>>, <<3, 1, 2, 0>> >>

MCRoutes == [u \in Dst |-> [d \in Dst |-> RouteTable[u+1][d+1]]]
MCRank   == [d \in Dst |-> [u \in Dst |-> RankTable[d+1][u+1]]]

(* All packets go from the last switch to switch 0 but k4, which goes the  *)
(* other way; k2 belongs to another flow than the others.                  *)
CONSTANTS k1, k2, k3, k4
MCSource == [k \in Packet |-> IF k = k4 THEN 0 ELSE SwCount-1]
MCTarget == [k \in Packet |-> IF k = k4 THEN SwCount-1 ELSE 0]
MCSlotOf == [k \in Packet |-> IF k = k2 THEN 1 ELSE 0]
MCIsSyn  == [k \in Packet |-> k \in {k1, k4}]
=============================================================================
