----------------------------- MODULE TimpP4Switch -----------------------------
(***************************************************************************)
(* One P4 switch whose hosts and neighbours send any data packets and      *)
(* route updates.  Its local updates queue up at the recirculation port.   *)
(***************************************************************************)
EXTENDS TimpP4, FiniteSets

CONSTANTS
  Packet,      \* the packets that may arrive, [to, hash, intact]
  LinkPorts,   \* of each switch, the ports to other switches
  MaxPrice,    \* bounds the prices of neighbours
  MaxPending   \* and the local updates under way when a message arrives

ASSUME P4SwitchAssumption ==
  /\ Packet \subseteq [to : Dst, hash : HashRange, intact : BOOLEAN]
  /\ LinkPorts \in [Switch -> SUBSET Port]
  /\ MaxPrice \in Price /\ MaxPending \in Nat

(* Every message switch s may send towards destination d is also copied to *)
(* the recirculation port of s.                                            *)
RecirculatesTo(s, d) ==
  \A p \in IF AltPorts[s][d] = {} THEN {NoPort} ELSE AltPorts[s][d] :
    LET g == GroupOffset[s][d] + p IN g # 0 /\ Recirc \in Group[s][g]

(* "max number of flows": a counter can hold the entries of the one table  *)
(* that is used (128 of 256).                                              *)
ASSUME CounterAssumption == TableSize < PriceCount

(* Every data packet a switch forwards is copied there. *)
ASSUME RecirculationAssumption ==
  \A s \in Switch : \A d \in Dst \ {s} : RecirculatesTo(s, d)

VARIABLES
  sw,       \* which switch it is
  reg,      \* its registers
  recirc,   \* the local updates under way
  lost      \* history: of each port, the releases of expired entries that
            \* were not recirculated, modulo PriceCount

vars == <<sw, reg, recirc, lost>>

TypeOK ==
  /\ sw \in Switch
  /\ reg \in Registers
  /\ recirc \in Seq(Local)
  /\ lost \in [Port -> Price]

Init ==
  /\ sw \in Switch
  /\ reg = InitRegisters
  /\ recirc = <<>>
  /\ lost = [p \in Port |-> 0]

----------------------------------------------------------------------------
Count(P(_)) == Cardinality({ j \in DOMAIN recirc : P(recirc[j]) })

(* flows_local of port p once the local updates under way are applied. *)
Charge(p) ==
  LET Adds(u) == u.port1 = p
      Moves(u) == u.port2 = p
      Frees(u) == u.port3 = p
  IN  reg.flows_local[p] + Count(Adds) - Count(Moves) - Count(Frees)

Pipeline(in, m) ==
  /\ Len(recirc) < MaxPending
  /\ \E o \in Outcomes(reg, sw, in, m) :
       /\ reg' = o.reg
       /\ \/ /\ Recirc \in DOMAIN o.sent
             /\ recirc' = Append(recirc, o.sent[Recirc])
             /\ UNCHANGED lost
          \/ /\ Recirc \notin DOMAIN o.sent
             /\ lost' = [p \in Port |-> (lost[p] + If(o.local.port3 = p)) % PriceCount]
             /\ UNCHANGED recirc
  /\ UNCHANGED sw

(* A data packet for another switch; one for the own hosts goes to them    *)
(* before the registers are touched.                                       *)
ReceiveData(m) == m.to # sw /\ Pipeline(NoPort, m)

ReceiveUpdate(p, m) == p \in LinkPorts[sw] /\ Pipeline(p, m)

ReceiveLocal ==
  /\ recirc # <<>>
  /\ reg' = AfterLocal(reg, Head(recirc))
  /\ recirc' = Tail(recirc)
  /\ UNCHANGED <<sw, lost>>

Tick ==
  /\ reg' = Aged(reg)
  /\ UNCHANGED <<sw, recirc, lost>>

Next ==
  \/ \E m \in Packet : ReceiveData(m)
  \/ \E p \in Port, d \in Dst, x \in 0 .. MaxPrice :
       ReceiveUpdate(p, [dst |-> d, price |-> x])
  \/ ReceiveLocal
  \/ Tick

Spec == Init /\ [][Next]_vars

----------------------------------------------------------------------------
Entries(p) == Cardinality({ x \in Table \X Slot : reg.table[x].port = p })

(* Nothing the switch sends lacks the copy.  (Not so at switch 1, which    *)
(* has no multicast group for route updates about itself.)                 *)
Recirculates == \A d \in Dst : RecirculatesTo(sw, d)

(* "number of flows for each port": once the local updates under way are   *)
(* applied, every entry of the flow tables is charged to its port, and     *)
(* nothing else is but the entries whose release was lost - in a counter   *)
(* that wraps when these are too many.                                     *)
ChargesMatchTable ==
  \A p \in Port : /\ (Charge(p) - Entries(p) - lost[p]) % PriceCount = 0
                  /\ Recirculates => Charge(p) = Entries(p)

(* A counter never wraps, where no release can be lost. *)
NoWrap ==
  [][Recirculates => \A p \in Port : reg'.flows_local[p] - reg.flows_local[p] \in -2..1]_vars

(* A flow in use stays on its port. *)
FlowletKeepsPort ==
  [][\A x \in Table \X Slot :
       Live(reg.table[x]) => reg'.table[x].port = reg.table[x].port]_vars

(* "we use multicast in order to generate updates": a packet leaves once,  *)
(* intact or not.                                                          *)
DataIsNotDuplicated ==
  \A m \in Packet : m.to # sw =>
    \A o \in Outcomes(reg, sw, NoPort, m) :
      Cardinality({ p \in DOMAIN o.sent : o.sent[p] \in {m, Spoiled(m)} }) <= 1
=============================================================================
