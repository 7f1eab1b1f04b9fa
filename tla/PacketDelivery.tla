---------------------------- MODULE PacketDelivery ----------------------------
(***************************************************************************)
(* What TIMP promises to the hosts, with prices, flow tables, clocks and   *)
(* queues abstracted away: a packet moves from switch to switch along some *)
(* installed route to its destination, whichever the switches prefer at    *)
(* the time, and is delivered unless it is lost on the way.                *)
(***************************************************************************)
CONSTANTS
  Switch, Packet,
  Source, Target,       \* of each packet
  Hops(_, _),           \* Hops(u, d): the switches after u on routes to d
  Unsent, Delivered, Lost   \* where a packet is before and after its journey

VARIABLE at   \* the switch each packet is on its way to

TypeOK == at \in [Packet -> Switch \cup {Unsent, Delivered, Lost}]

Init == at = [k \in Packet |-> Unsent]

Enter(k) ==
  /\ at[k] = Unsent
  /\ \E v \in Hops(Source[k], Target[k]) : at' = [at EXCEPT ![k] = v]

Hop(k) ==
  /\ at[k] \in Switch \ {Target[k]}
  /\ \E v \in Hops(at[k], Target[k]) : at' = [at EXCEPT ![k] = v]

Arrive(k) ==
  /\ at[k] = Target[k]
  /\ at' = [at EXCEPT ![k] = Delivered]

Vanish(k) ==
  /\ at[k] \in Switch
  /\ at' = [at EXCEPT ![k] = Lost]

Next == \E k \in Packet : Enter(k) \/ Hop(k) \/ Arrive(k) \/ Vanish(k)

Spec == /\ Init /\ [][Next]_at
        /\ \A k \in Packet : WF_at(Hop(k) \/ Arrive(k))
=============================================================================
