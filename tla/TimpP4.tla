-------------------------------- MODULE TimpP4 --------------------------------
(***************************************************************************)
(* The P4 version of TIMP (p4/timp.p4): the registers of a v1model switch  *)
(* and what its pipeline does to them, as operators.  The module has no    *)
(* variables: TimpP4Switch gives one switch any environment, TimpP4Network *)
(* connects the four of p4/routingmeasuretimp.zip.                         *)
(*                                                                         *)
(* Time.  The pipeline only compares ct - ftime with MAXTIME; age is that  *)
(* difference, cut off at MaxTime + 1.                                     *)
(***************************************************************************)
EXTENDS Integers, Sequences

CONSTANTS
  Switch,       \* a destination is the switch of its hosts
  Dst,          \* DST_COUNT: the switches that have hosts
  AltPorts,     \* ipv4_altports: of each switch, the ports to each destination,
  GroupOffset,  \* and the destination's multicastGroupOffset
  Group,        \* of each switch, the ports of each multicast group
  PriceCount,   \* 2^ROUTING_PRICE_BITS
  TableSize,    \* SINGLE_TABLE_SIZE
  MaxTime       \* MAXTIME, in ticks of the clock

Port == 1 .. 4
NoPort == 0
Recirc == 254             \* PSA_PORT_RECIRCULATE
Price == 0 .. PriceCount-1
Table == {1, 2}
Slot == 0 .. TableSize-1
HashRange == 0 .. 2*TableSize-1     \* HASH_EXP bits

ASSUME P4Assumption ==
  /\ Dst \subseteq Switch /\ 1 \in Dst
  /\ AltPorts \in [Switch -> [Dst -> SUBSET Port]]
  /\ TableSize \in Nat \ {0} /\ MaxTime \in Nat \ {0}
  /\ PriceCount \in Nat /\ PriceCount > 3

Free == [port |-> NoPort, age |-> 0]       \* outport = 0
Entry == {Free} \cup [port : Port, age : 0 .. MaxTime+1]

Registers ==
  [ table       : [Table \X Slot -> Entry],   \* outports1/2 and ftimes1/2
    pos_hash    : [Table -> Slot],
    flows_local : [Port -> Price],
    flows_rcv   : [Port \X Dst -> Price],
    advertized  : [Dst -> Price] ]            \* advertizedmin_reg

InitRegisters ==
  [ table       |-> [x \in Table \X Slot |-> Free],
    pos_hash    |-> [t \in Table |-> 0],
    flows_local |-> [p \in Port |-> 0],
    flows_rcv   |-> [x \in Port \X Dst |-> 0],
    advertized  |-> [d \in Dst |-> 0] ]

(* A data packet m has the destination m.to, the crc16 m.hash of its flow, *)
(* and is m.intact unless something was put before its payload; the other  *)
(* messages are these.                                                     *)
Update == [dst : Dst, price : Price]
Local == [port1 : Port \cup {NoPort}, port2 : Port \cup {NoPort}, port3 : Port \cup {NoPort}]

NoLocal == [port1 |-> NoPort, port2 |-> NoPort, port3 |-> NoPort]

IsUpdate(m) == "price" \in DOMAIN m
About(m) == IF IsUpdate(m) THEN m.dst ELSE m.to     \* g_Dst

----------------------------------------------------------------------------
(* Ingress of message m: prices.  r: the registers.                        *)

(* The register of a port keeps the price of an update that came in on it. *)
Heard(r, port, m) ==
  IF IsUpdate(m) /\ port \in Port
  THEN [r EXCEPT !.flows_rcv = [r.flows_rcv EXCEPT ![<<port, m.dst>>] = m.price]]
  ELSE r

(* The price of port p, with entry i of the received prices. *)
PricePort(r, p, i) ==
  IF r.flows_local[p] > r.flows_rcv[<<p, i>>]
  THEN r.flows_local[p] ELSE r.flows_rcv[<<p, i>>]

(* The first port with the lowest price among the alternates, 0 if none.   *)
MinPort(r, alts, i) ==
  IF alts = {} THEN NoPort
  ELSE CHOOSE p \in alts : \A q \in alts :
         \/ PricePort(r, p, i) < PricePort(r, q, i)
         \/ PricePort(r, p, i) = PricePort(r, q, i) /\ p <= q

(* The highest bit of the hash selects the table, but HASH_ADR_MASK has    *)
(* cleared it by then.                                                     *)
FlowletHash(m) == m.hash % TableSize
HashTable(m) == IF FlowletHash(m) \div TableSize > 0 THEN 1 ELSE 2
Home(m) == <<HashTable(m), FlowletHash(m)>>

(* The round robin looks at one entry of each table that is not looked up. *)
Scanned(m) == IF IsUpdate(m) THEN Table ELSE Table \ {HashTable(m)}
NextPos(r, t) == IF r.pos_hash[t] < TableSize-1 THEN r.pos_hash[t] + 1 ELSE 0

Expired(r, t) ==
  LET e == r.table[<<t, NextPos(r, t)>>] IN e.port # NoPort /\ e.age > MaxTime

(* localUpdatePort3: the port of the last table that had an expired entry. *)
ScanPort(r, m) ==
  IF \E t \in Scanned(m) : Expired(r, t)
  THEN LET t == CHOOSE t \in Scanned(m) :
                  Expired(r, t) /\ \A o \in Scanned(m) : Expired(r, o) => o <= t
       IN  r.table[<<t, NextPos(r, t)>>].port
  ELSE NoPort

(* Mutant: the entry is not freed. *)
ScanKeepsEntry(r, m) ==
  [r EXCEPT !.pos_hash = [t \in Table |-> IF t \in Scanned(m) THEN NextPos(r, t)
                                          ELSE r.pos_hash[t]]]

(* Mutant: the position is stored one further. *)
ScanSkips(r, m) ==
  [r EXCEPT !.pos_hash = [t \in Table |-> IF t \in Scanned(m) THEN NextPos(r, t) + 1
                                          ELSE r.pos_hash[t]]]

Scan(r, m) ==
  [r EXCEPT
    !.pos_hash = [t \in Table |-> IF t \in Scanned(m) THEN NextPos(r, t) ELSE r.pos_hash[t]],
    !.table = [x \in Table \X Slot |->
      IF x[1] \in Scanned(m) /\ x[2] = NextPos(r, x[1]) /\ Expired(r, x[1])
      THEN Free ELSE r.table[x]]]

(* An entry that is in use keeps its port. *)
Live(e) == e.port # NoPort /\ e.age < MaxTime

(* Mutant: a collision takes the entry over. *)
LookUpCollision(r, x, alts, best) ==
  LET e == r.table[x] IN
  [r EXCEPT !.table = [r.table EXCEPT
     ![x] = [port |-> IF Live(e) /\ e.port \in alts THEN e.port ELSE best, age |-> 0]]]

(* The flow table after a data packet: a live entry is refreshed unless    *)
(* its port does not lead to this destination (a collision of flows), a    *)
(* free or expired one is taken over.                                      *)
LookUp(r, x, alts, best) ==
  LET e == r.table[x] IN
  IF Live(e) /\ e.port \notin alts THEN r
  ELSE [r EXCEPT !.table = [r.table EXCEPT
         ![x] = [port |-> IF Live(e) THEN e.port ELSE best, age |-> 0]]]

(* Mutant: the flow is not removed from its old port. *)
LocalUpdateAddsOnly(r, m, alts, best) ==
  [ port1 |-> IF ~ IsUpdate(m) /\ ~ Live(r.table[Home(m)]) /\ r.table[Home(m)].port # best
              THEN best ELSE NoPort,
    port2 |-> NoPort,
    port3 |-> ScanPort(r, m) ]

(* The local update a packet causes. *)
LocalUpdate(r, m, alts, best) ==
  LET e     == r.table[Home(m)]
      taken == ~ IsUpdate(m) /\ ~ Live(e) /\ e.port # best
  IN  [ port1 |-> IF taken THEN best ELSE NoPort,
        port2 |-> IF taken THEN e.port ELSE NoPort,
        port3 |-> ScanPort(r, m) ]

SendPort(r, m, alts, best) ==
  IF IsUpdate(m) THEN best
  ELSE LET e == r.table[Home(m)]
       IN  IF Live(e) /\ e.port \in alts THEN e.port ELSE best

If(b) == IF b THEN 1 ELSE 0

(* minPrice: that of the best port; a data packet adds what it changed. *)
MinPrice(r, m, i, best, u) ==
  LET price == IF best = NoPort THEN 0 ELSE PricePort(r, best, i)
  IN  IF IsUpdate(m) THEN price
      ELSE (price + If(u.port1 = best) - If(u.port2 = best) - If(u.port3 = best)) % PriceCount

(* "before sending update, check if this price has already been sent" *)
Changed(r, d, price) == r.advertized[d] # price

(* The ports a packet leaves on, when its group number is g. *)
Ports(s, m, send, g, changed, u) ==
  IF (changed \/ u # NoLocal) /\ g # 0 THEN Group[s][g]
  ELSE IF IsUpdate(m) /\ ~ changed THEN {} ELSE {send}

(* The deparser emits a local update between the tcp header and the        *)
(* payload, where no parser looks for it: it is payload from then on.      *)
Spoiled(m) == [m EXCEPT !.intact = FALSE]

(* Mutant: the local update leaves on links, too. *)
CopyLocalUpdate(m, q, send, d, price, changed, u) ==
  IF q = Recirc THEN u
  ELSE IF ~ IsUpdate(m) /\ q = send THEN m
  ELSE IF changed THEN [dst |-> d, price |-> price] ELSE u

(* Mutant: the packet is stripped on its outport. *)
CopyUpdateFirst(m, q, send, d, price, changed, u) ==
  IF q = Recirc THEN u
  ELSE IF changed THEN [dst |-> d, price |-> price] ELSE m

(* Mutant: the local update is not removed on the outport. *)
CopyKeepsLocal(m, q, send, d, price, changed, u) ==
  IF q = Recirc THEN u
  ELSE IF changed /\ (IsUpdate(m) \/ q # send) THEN [dst |-> d, price |-> price]
  ELSE IF IsUpdate(m) THEN [dst |-> u.port1 + 1, price |-> u.port2]
  ELSE IF u # NoLocal THEN Spoiled(m) ELSE m

(* Mutant: the local update is removed on every link. *)
CopyDropsLocal(m, q, send, d, price, changed, u) ==
  IF q = Recirc THEN u
  ELSE IF changed /\ (IsUpdate(m) \/ q # send) THEN [dst |-> d, price |-> price]
  ELSE IF IsUpdate(m) THEN [dst |-> u.port1 + 1, price |-> u.port2] ELSE m

(* What leaves on port q.  On its outport a data packet loses both the     *)
(* route update and the local update; to any other link a route update     *)
(* goes alone, if there is one.  Without one the copy keeps the local      *)
(* update: a data packet is spoiled by it, and a route update is read as   *)
(* one about port1 + 1.                                                    *)
Copy(m, q, send, d, price, changed, u) ==
  LET outport      == ~ IsUpdate(m) /\ q = send
      update       == changed /\ ~ outport
      update_local == u # NoLocal /\ ~ outport
  IN  IF q = Recirc THEN u
      ELSE IF update THEN [dst |-> d, price |-> price]
      ELSE IF IsUpdate(m) THEN [dst |-> u.port1 + 1, price |-> u.port2]
      ELSE IF update_local THEN Spoiled(m) ELSE m

(* What the pipeline makes of m, which came in on port in of switch s: the *)
(* registers, the local update, and what leaves on each port.  i: the      *)
(* entry of the received prices it reads.                                  *)
Outcome(r0, s, in, m, i) ==
  LET d       == About(m)
      r       == Heard(r0, in, m)
      alts    == AltPorts[s][d]
      best    == MinPort(r, alts, i)
      u       == LocalUpdate(r, m, alts, best)
      send    == SendPort(r, m, alts, best)
      price   == MinPrice(r, m, i, best, u)
      changed == Changed(r, d, price)
      ports   == { p \in Ports(s, m, send, GroupOffset[s][d] + send, changed, u) :
                     p # NoPort /\ (p = Recirc => u # NoLocal) }
      scanned == Scan(r, m)
      looked  == IF IsUpdate(m) THEN scanned ELSE LookUp(scanned, Home(m), alts, best)
  IN  [ reg   |-> [looked EXCEPT !.advertized = [r.advertized EXCEPT ![d] = price]],
        local |-> u,
        sent  |-> [p \in ports |-> Copy(m, p, send, d, price, changed, u)] ]

(* A data packet reads them at the dst of the update header it does not    *)
(* have: any.                                                              *)
Outcomes(r, s, in, m) ==
  { Outcome(r, s, in, m, i) : i \in IF IsUpdate(m) THEN {m.dst} ELSE Dst }

(* A recirculated packet changes the counters of the ports. *)
AfterLocal(r, u) ==
  [r EXCEPT !.flows_local = [p \in Port |->
     (r.flows_local[p] + If(u.port1 = p) - If(u.port2 = p) - If(u.port3 = p)) % PriceCount]]

(* The clock advances by a tick. *)
Aged(r) ==
  [r EXCEPT !.table = [x \in Table \X Slot |->
     LET e == r.table[x]
     IN  IF e.port = NoPort THEN e
         ELSE [e EXCEPT !.age = IF @ <= MaxTime THEN @ + 1 ELSE @]]]
=============================================================================
