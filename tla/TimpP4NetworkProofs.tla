-------------------------- MODULE TimpP4NetworkProofs --------------------------
(***************************************************************************)
(* No data packet is lost between P4 switches or arrives intact twice, for *)
(* all topologies and tables that lead packets to links (TablesAssumption). *)
(***************************************************************************)
EXTENDS TimpP4Network, TLAPS

(* A packet on its way stays in a queue of the right type: the types are   *)
(* what NotLost lacks to be inductive, since a switch finds the port of a  *)
(* packet by comparing prices and reading its table.  OneIsIntact lacks    *)
(* that a packet is not delivered before it is sent.                       *)
IInv == TypeOK /\ NotLost /\ OneIsIntact /\ delivered \subseteq injected

----------------------------------------------------------------------------
(* The pipeline.                                                           *)

(* Every non-empty set of ports has a first one with the lowest price. *)
LEMMA BestExists ==
  ASSUME NEW f \in [Port -> Int], NEW S \in SUBSET Port, S # {}
  PROVE  \E p \in S : \A q \in S : f[p] < f[q] \/ (f[p] = f[q] /\ p <= q)
<1>1. Port = {1, 2, 3, 4}
  BY DEF Port
<1>2. f[1] \in Int /\ f[2] \in Int /\ f[3] \in Int /\ f[4] \in Int
  BY <1>1
<1>3. S \subseteq {1, 2, 3, 4} /\ (1 \in S \/ 2 \in S \/ 3 \in S \/ 4 \in S)
  BY <1>1
<1> QED BY <1>2, <1>3

LEMMA PriceType ==
  ASSUME NEW r \in Registers, NEW p \in Port, NEW i \in Dst
  PROVE  PricePort(r, p, i) \in Price
BY DEF Registers, PricePort

(* The best port is one of the alternates. *)
LEMMA MinPortIsAlternate ==
  ASSUME NEW r \in Registers, NEW alts \in SUBSET Port, NEW i \in Dst
  PROVE  MinPort(r, alts, i) \in IF alts = {} THEN {NoPort} ELSE alts
<1> DEFINE f == [p \in Port |-> PricePort(r, p, i)]
<1>1. f \in [Port -> Int]
  BY PriceType DEF Price
<1>2. CASE alts # {}
  <2>1. \E p \in alts : \A q \in alts : f[p] < f[q] \/ (f[p] = f[q] /\ p <= q)
    <3> HIDE DEF f
    <3> QED BY <1>1, <1>2, BestExists
  <2>2. \E p \in alts : \A q \in alts :
           \/ PricePort(r, p, i) < PricePort(r, q, i)
           \/ PricePort(r, p, i) = PricePort(r, q, i) /\ p <= q
    BY <2>1
  <2> QED BY <1>2, <2>2 DEF MinPort
<1>3. CASE alts = {}
  BY <1>3 DEF MinPort
<1> QED BY <1>2, <1>3

(* Data packets, intact and spoiled, and updates are told apart. *)
LEMMA Kinds ==
  /\ \A m \in Data : ~ IsUpdate(m) /\ m.to \in Dst /\ m.hash \in HashRange
  /\ \A m \in Update : IsUpdate(m) /\ m.dst \in Dst
  /\ \A m \in Data : Spoiled(m) \in Data \ Packet
  /\ Packet \subseteq Data
<1> DEFINE Sent == [from : Switch, to : Dst, hash : HashRange, no : Nat, intact : BOOLEAN]
<1>1. \A k \in Packet : k \in Sent /\ k.intact
  BY P4NetworkAssumption
<1>2. \A k \in Sent : Spoiled(k) \in Sent /\ ~ Spoiled(k).intact
  BY DEF Spoiled
<1>3. \A k \in Sent : Spoiled(Spoiled(k)) = Spoiled(k)
  BY DEF Spoiled
<1>4. \A m \in Data : m \in Sent
  BY <1>1, <1>2 DEF Data
<1>5. \A m \in Sent : ~ IsUpdate(m) /\ m.to \in Dst /\ m.hash \in HashRange
  BY DEF IsUpdate
<1>6. \A m \in Update : IsUpdate(m) /\ m.dst \in Dst
  BY DEF IsUpdate, Update
<1>7. ASSUME NEW m \in Data PROVE Spoiled(m) \in Data \ Packet
  <2>1. Spoiled(m) \notin Packet
    BY <1>1, <1>2, <1>4
  <2>2. CASE m \in Packet
    BY <2>1, <2>2 DEF Data
  <2>3. CASE m \notin Packet
    <3>1. PICK k \in Packet : m = Spoiled(k)
      BY <2>3 DEF Data
    <3>2. Spoiled(m) = m
      BY <1>1, <1>3, <3>1
    <3> QED BY <2>1, <3>2
  <2> QED BY <2>2, <2>3
<1>8. Packet \subseteq Data
  BY DEF Data
<1> HIDE DEF Sent
<1> QED BY <1>4, <1>5, <1>6, <1>7, <1>8

LEMMA HomeType ==
  ASSUME NEW m \in Data
  PROVE  Home(m) \in Table \X Slot
<1>1. m.hash \in Nat /\ TableSize \in Nat \ {0}
  BY Kinds, P4Assumption DEF HashRange
<1>2. FlowletHash(m) \in Slot
  BY <1>1 DEF FlowletHash, Slot
<1> QED BY <1>2 DEF Home, HashTable, Table

LEMMA HeardType ==
  ASSUME NEW r \in Registers, NEW in, NEW m, IsUpdate(m) => m \in Update
  PROVE  Heard(r, in, m) \in Registers
<1>1. CASE IsUpdate(m) /\ in \in Port
  <2> DEFINE rcv == [r.flows_rcv EXCEPT ![<<in, m.dst>>] = m.price]
  <2>1. rcv \in [Port \X Dst -> Price]
    BY <1>1 DEF Registers, Update
  <2>2. Heard(r, in, m) = [r EXCEPT !.flows_rcv = rcv]
    BY <1>1 DEF Heard
  <2> HIDE DEF rcv
  <2> QED BY <2>1, <2>2 DEF Registers
<1>2. CASE ~ (IsUpdate(m) /\ in \in Port)
  BY <1>2 DEF Heard
<1> QED BY <1>1, <1>2

(* The port of an entry. *)
LEMMA EntryPort ==
  ASSUME NEW r \in Registers, NEW x \in Table \X Slot
  PROVE  r.table[x] \in Entry /\ r.table[x].port \in Port \cup {NoPort}
BY DEF Registers, Entry, Free

LEMMA ScanType ==
  ASSUME NEW r \in Registers, NEW m
  PROVE  Scan(r, m) \in Registers /\ ScanPort(r, m) \in Port \cup {NoPort}
<1> DEFINE pos == [t \in Table |-> IF t \in Scanned(m) THEN NextPos(r, t) ELSE r.pos_hash[t]]
           tab == [x \in Table \X Slot |->
                    IF x[1] \in Scanned(m) /\ x[2] = NextPos(r, x[1]) /\ Expired(r, x[1])
                    THEN Free ELSE r.table[x]]
<1>1. ASSUME NEW t \in Table PROVE NextPos(r, t) \in Slot
  <2>1. r.pos_hash[t] \in Slot
    BY DEF Registers
  <2> QED BY <2>1, P4Assumption DEF NextPos, Slot
<1>2. pos \in [Table -> Slot]
  BY <1>1 DEF Registers
<1>3. tab \in [Table \X Slot -> Entry]
  BY DEF Registers, Entry
<1>4. Scan(r, m) = [r EXCEPT !.pos_hash = pos, !.table = tab]
  BY DEF Scan
<1> HIDE DEF pos, tab
<1>5. Scan(r, m) \in Registers
  BY <1>2, <1>3, <1>4 DEF Registers
<1>6. Scanned(m) \subseteq {1, 2}
  BY DEF Scanned, Table
<1>7. ScanPort(r, m) \in Port \cup {NoPort}
  <2> DEFINE Last(t) == Expired(r, t) /\ \A o \in Scanned(m) : Expired(r, o) => o <= t
  <2>1. CASE \E t \in Scanned(m) : Expired(r, t)
    <3>1. \E t \in Scanned(m) : Last(t)
      BY <1>6, <2>1
    <3> DEFINE t == CHOOSE t \in Scanned(m) : Last(t)
    <3>2. t \in Table
      BY <1>6, <3>1 DEF Table
    <3>3. ScanPort(r, m) = r.table[<<t, NextPos(r, t)>>].port
      BY <2>1 DEF ScanPort
    <3> HIDE DEF t
    <3> QED BY <1>1, <3>2, <3>3, EntryPort
  <2>2. CASE ~ \E t \in Scanned(m) : Expired(r, t)
    BY <2>2 DEF ScanPort
  <2> QED BY <2>1, <2>2
<1> QED BY <1>5, <1>7

LEMMA LookUpType ==
  ASSUME NEW r \in Registers, NEW x \in Table \X Slot, NEW alts,
         NEW best \in Port \cup {NoPort}
  PROVE  LookUp(r, x, alts, best) \in Registers
<1> DEFINE port == IF Live(r.table[x]) THEN r.table[x].port ELSE best
           tab  == [r.table EXCEPT ![x] = [port |-> port, age |-> 0]]
<1>1. port \in Port \cup {NoPort}
  BY EntryPort
<1> HIDE DEF port
<1>2. [port |-> port, age |-> 0] \in Entry
  BY <1>1, P4Assumption DEF Entry, Free
<1>3. tab \in [Table \X Slot -> Entry]
  BY <1>2 DEF Registers
<1>4. LookUp(r, x, alts, best) \in {r, [r EXCEPT !.table = tab]}
  BY DEF LookUp, port
<1> HIDE DEF tab
<1> QED BY <1>3, <1>4 DEF Registers

(* A counter of ROUTING_PRICE_BITS bits. *)
LEMMA CountType ==
  ASSUME NEW x \in Price, NEW u, NEW p
  PROVE  (x + If(u.port1 = p) - If(u.port2 = p) - If(u.port3 = p)) % PriceCount \in Price
<1> DEFINE n == x + If(u.port1 = p) - If(u.port2 = p) - If(u.port3 = p)
<1>1. n \in Int
  BY P4Assumption DEF Price, If
<1> HIDE DEF n
<1>2. n % PriceCount \in 0 .. PriceCount-1
  BY <1>1, P4Assumption
<1> QED BY <1>2 DEF n, Price

LEMMA AfterLocalType ==
  ASSUME NEW r \in Registers, NEW u
  PROVE  AfterLocal(r, u) \in Registers
<1> DEFINE loc == [p \in Port |->
     (r.flows_local[p] + If(u.port1 = p) - If(u.port2 = p) - If(u.port3 = p)) % PriceCount]
<1>1. \A p \in Port : r.flows_local[p] \in Price
  BY DEF Registers
<1>2. loc \in [Port -> Price]
  BY <1>1, CountType
<1>3. AfterLocal(r, u) = [r EXCEPT !.flows_local = loc]
  BY DEF AfterLocal
<1> HIDE DEF loc
<1> QED BY <1>2, <1>3 DEF Registers

LEMMA AgedType ==
  ASSUME NEW r \in Registers
  PROVE  Aged(r) \in Registers
<1> DEFINE a(e) == IF e.port = NoPort THEN e
                   ELSE [e EXCEPT !.age = IF @ <= MaxTime THEN @ + 1 ELSE @]
           tab  == [x \in Table \X Slot |-> a(r.table[x])]
<1>1. \A e \in Entry : a(e) \in Entry
  BY P4Assumption DEF Entry, Free, Port, NoPort
<1>2. tab \in [Table \X Slot -> Entry]
  BY <1>1 DEF Registers
<1>3. Aged(r) = [r EXCEPT !.table = tab]
  BY DEF Aged
<1> HIDE DEF tab
<1> QED BY <1>2, <1>3 DEF Registers

(* What the pipeline of switch s makes of a message: on links it sends     *)
(* data and updates, what is intact only once, and a packet for another    *)
(* switch is among them.                                                   *)
Forwards(s, m, o) ==
  /\ o.reg \in Registers
  /\ Recirc \in DOMAIN o.sent => o.sent[Recirc] \in Local
  /\ \A p \in DOMAIN o.sent \ {Recirc} : o.sent[p] \in Data \cup Update
  /\ \E send : \A p \in DOMAIN o.sent \ {Recirc} :
       o.sent[p] \in Packet => p = send /\ o.sent[p] = m
  /\ m \in Packet /\ m.to # s =>
       \E p \in DOMAIN o.sent : <<s, p>> \in Link /\ o.sent[p] = m

LEMMA PipelineForwards ==
  ASSUME NEW r0 \in Registers, NEW s \in Switch, NEW in,
         NEW m \in Data \cup Update, NEW i \in Dst
  PROVE  Forwards(s, m, Outcome(r0, s, in, m, i))
<1> DEFINE d       == About(m)
           r       == Heard(r0, in, m)
           alts    == AltPorts[s][d]
           best    == MinPort(r, alts, i)
           u       == LocalUpdate(r, m, alts, best)
           send    == SendPort(r, m, alts, best)
           price   == MinPrice(r, m, i, best, u)
           changed == Changed(r, d, price)
           offered == Ports(s, m, send, GroupOffset[s][d] + send, changed, u)
           ports   == { p \in offered : p # NoPort /\ (p = Recirc => u # NoLocal) }
           scanned == Scan(r, m)
           looked  == IF IsUpdate(m) THEN scanned ELSE LookUp(scanned, Home(m), alts, best)
           reg1    == [looked EXCEPT !.advertized = [r.advertized EXCEPT ![d] = price]]
           sent    == [p \in ports |-> Copy(m, p, send, d, price, changed, u)]
           o       == Outcome(r0, s, in, m, i)
<1>1. o = [reg |-> reg1, local |-> u, sent |-> sent]
  BY DEF Outcome
<1>2. d \in Dst
  BY Kinds DEF About
<1>3. r \in Registers
  BY HeardType, Kinds
<1>4. alts \in SUBSET Port
  BY <1>2, P4Assumption
<1>5. best \in IF alts = {} THEN {NoPort} ELSE alts
  <2> HIDE DEF r, alts
  <2> QED BY <1>3, <1>4, MinPortIsAlternate
<1>6. best \in Port \cup {NoPort}
  BY <1>4, <1>5
<1>7. u \in Local
  <2> HIDE DEF r, best, alts
  <2>1. ScanPort(r, m) \in Port \cup {NoPort}
    BY <1>3, ScanType
  <2>2. ~ IsUpdate(m) => r.table[Home(m)].port \in Port \cup {NoPort}
    BY <1>3, Kinds, HomeType, EntryPort
  <2> QED BY <1>6, <2>1, <2>2 DEF LocalUpdate, Local
<1>8. price \in Price
  <2> HIDE DEF r, best, u
  <2> DEFINE x == IF best = NoPort THEN 0 ELSE PricePort(r, best, i)
             n == x + If(u.port1 = best) - If(u.port2 = best) - If(u.port3 = best)
  <2>1. x \in Price
    BY <1>3, <1>6, PriceType, P4Assumption DEF Price
  <2>2. price = IF IsUpdate(m) THEN x ELSE n % PriceCount
    BY DEF MinPrice
  <2> HIDE DEF x, price
  <2> QED BY <2>1, <2>2, CountType
<1>9. reg1 \in Registers
  <2>1. looked \in Registers
    <3> HIDE DEF r, alts, best
    <3> QED BY <1>3, <1>6, Kinds, ScanType, HomeType, LookUpType
  <2> DEFINE adv == [r.advertized EXCEPT ![d] = price]
  <2>2. adv \in [Dst -> Price]
    <3> HIDE DEF r, d, price
    <3> QED BY <1>2, <1>3, <1>8 DEF Registers
  <2>3. reg1 = [looked EXCEPT !.advertized = adv]
    OBVIOUS
  <2> HIDE DEF looked, adv, reg1
  <2> QED BY <2>1, <2>2, <2>3 DEF Registers
<1>10. Recirc \in ports => sent[Recirc] = u
  <2> HIDE DEF ports, send, d, price, changed, u
  <2> QED BY DEF Copy
<1>11. ASSUME NEW p \in ports, p # Recirc
      PROVE  sent[p] \in Data \cup Update /\ (sent[p] \in Packet => p = send /\ sent[p] = m)
  <2>1. sent[p] = Copy(m, p, send, d, price, changed, u)
    OBVIOUS
  <2>2. \A x \in Update : x \notin Packet
    BY Kinds
  <2>3. CASE IsUpdate(m) /\ ~ changed
    <3>1. u.port1 = NoPort /\ u.port2 = NoPort
      BY <2>3 DEF LocalUpdate
    <3>2. sent[p] = [dst |-> u.port1 + 1, price |-> u.port2]
      <4> HIDE DEF sent, d, price, changed, u, send
      <4> QED BY <1>11, <2>1, <2>3 DEF Copy
    <3>3. [dst |-> 1, price |-> 0] \in Update
      BY P4Assumption DEF Update, Price
    <3> HIDE DEF sent, u
    <3> QED BY <2>2, <3>1, <3>2, <3>3 DEF NoPort
  <2>4. CASE changed /\ (IsUpdate(m) \/ p # send)
    <3>1. sent[p] = [dst |-> d, price |-> price]
      <4> HIDE DEF sent, d, price, changed, u, send
      <4> QED BY <1>11, <2>1, <2>4 DEF Copy
    <3> HIDE DEF sent, d, price, changed
    <3>2. sent[p] \in Update
      BY <1>2, <1>8, <3>1 DEF Update
    <3> QED BY <2>2, <3>2
  <2>5. CASE ~ IsUpdate(m) /\ p = send
    <3>1. sent[p] = m
      <4> HIDE DEF sent, d, price, changed, u, send
      <4> QED BY <1>11, <2>1, <2>5 DEF Copy
    <3> HIDE DEF sent, send
    <3> QED BY <2>5, <3>1
  <2>6. CASE ~ IsUpdate(m) /\ p # send /\ ~ changed
    <3>1. p \in offered
      OBVIOUS
    <3>2. u # NoLocal
      <4> HIDE DEF u, send, changed, d
      <4> QED BY <2>6, <3>1 DEF Ports
    <3>3. sent[p] = Spoiled(m)
      <4> HIDE DEF sent, d, price, changed, u, send
      <4> QED BY <1>11, <2>1, <2>6, <3>2 DEF Copy
    <3>4. m \in Data
      BY <2>6, Kinds
    <3> HIDE DEF sent
    <3> QED BY <3>3, <3>4, Kinds
  <2> HIDE DEF sent, send, changed
  <2> QED BY <2>3, <2>4, <2>5, <2>6
<1>12. ASSUME m \in Packet, m.to # s
      PROVE  \E p \in ports : <<s, p>> \in Link /\ sent[p] = m
  <2>1. ~ IsUpdate(m) /\ d = m.to /\ d \in Dst \ {s}
    BY <1>12, Kinds DEF About
  <2>2. alts # {} /\ best \in alts
    <3>1. alts # {}
      BY <2>1, TablesAssumption
    <3> QED BY <1>5, <3>1
  <2>3. send \in alts
    <3> HIDE DEF r, alts, best
    <3> QED BY <2>1, <2>2 DEF SendPort
  <2>4. /\ <<s, send>> \in Link
        /\ GroupOffset[s][d] + send # 0 => send \in Group[s][GroupOffset[s][d] + send]
    <3> HIDE DEF send, d
    <3> QED BY <2>1, <2>3, TablesAssumption DEF alts
  <2>5. send \in Port /\ send # NoPort /\ send # Recirc
    <3> HIDE DEF send, alts
    <3> QED BY <1>4, <2>3 DEF Port, NoPort, Recirc
  <2>6. send \in offered
    <3> HIDE DEF send, d, changed, u
    <3> QED BY <2>1, <2>4 DEF Ports
  <2>7. send \in ports
    <3> HIDE DEF send, offered, u
    <3> QED BY <2>5, <2>6
  <2>8. sent[send] = m
    <3>1. sent[send] = Copy(m, send, send, d, price, changed, u)
      BY <2>7
    <3> HIDE DEF sent, send, d, price, changed, u
    <3> QED BY <2>1, <2>5, <3>1 DEF Copy
  <2> HIDE DEF ports, sent, send
  <2> QED BY <2>4, <2>7, <2>8
<1>13. DOMAIN sent = ports
  OBVIOUS
<1> HIDE DEF reg1, sent, ports, send, u
<1>14. o.reg = reg1 /\ o.sent = sent
  BY <1>1
<1> HIDE DEF o
<1>15. Forwards(s, m, o)
  BY <1>7, <1>9, <1>10, <1>11, <1>12, <1>13, <1>14 DEF Forwards
<1> QED BY <1>15 DEF o

----------------------------------------------------------------------------
(* Queues.                                                                 *)
In(k, q) == \E j \in DOMAIN q : q[j] = k

LEMMA InAppend ==
  ASSUME NEW S, NEW q \in Seq(S), NEW m, NEW k
  PROVE  In(k, Append(q, m)) <=> In(k, q) \/ k = m
<1>1. Len(Append(q, m)) = Len(q) + 1 /\ Len(q) \in Nat
  OBVIOUS
<1>2. \A j \in 1..Len(q) : Append(q, m)[j] = q[j]
  OBVIOUS
<1>3. Append(q, m)[Len(q) + 1] = m
  OBVIOUS
<1>4. DOMAIN q = 1..Len(q) /\ DOMAIN Append(q, m) = 1..(Len(q) + 1)
  BY <1>1
<1> QED BY <1>1, <1>2, <1>3, <1>4 DEF In

LEMMA InTail ==
  ASSUME NEW S, NEW q \in Seq(S), q # <<>>, NEW k, In(k, q)
  PROVE  k = Head(q) \/ In(k, Tail(q))
<1>1. PICK j \in 1..Len(q) : q[j] = k
  BY DEF In
<1>2. Len(q) \in Nat \ {0} /\ DOMAIN Tail(q) = 1..(Len(q) - 1) /\ Head(q) = q[1]
  OBVIOUS
<1>3. CASE j = 1
  BY <1>1, <1>2, <1>3
<1>4. CASE j # 1
  <2>1. j - 1 \in 1..(Len(q) - 1)
    BY <1>1, <1>2, <1>4
  <2>2. Tail(q)[j-1] = q[(j-1) + 1] /\ (j-1) + 1 = j
    BY <1>1, <1>2, <2>1
  <2> QED BY <1>1, <1>2, <2>1, <2>2 DEF In
<1> QED BY <1>3, <1>4

LEMMA UnderWayIn == \A k : UnderWay(k) <=> \E i \in Link : In(k, queue[i])
BY DEF UnderWay, In

(* The parts of TypeOK and OneIsIntact that are about the queues. *)
Queues(q) ==
  /\ DOMAIN q = Ifc
  /\ \A i \in Link : q[i] \in Seq(Data \cup Update)
  /\ \A s \in Switch : q[<<s, Recirc>>] \in Seq(Local)

Once(q) ==
  \A k \in Packet : \A i, h \in Link : \A a \in DOMAIN q[i], b \in DOMAIN q[h] :
    q[i][a] = k /\ q[h][b] = k => i = h /\ a = b

LEMMA IfcPorts ==
  /\ \A i \in Link : i \in Ifc /\ i[1] \in Switch /\ i[2] # Recirc
  /\ \A s \in Switch : <<s, Recirc>> \in Ifc /\ <<s, Recirc>> \notin Link
BY P4NetworkAssumption DEF Ifc, Port, Recirc

(* The queues after a message is taken, and the packets that remain. *)
LEMMA TakenQueues ==
  ASSUME TypeOK, NEW i \in Ifc, queue[i] # <<>>
  PROVE  /\ Queues(Taken(i))
         /\ \A k : UnderWay(k) =>
              \/ i \in Link /\ k = Head(queue[i])
              \/ \E x \in Link : In(k, Taken(i)[x])
<1>1. DOMAIN Taken(i) = Ifc /\ \A x \in Ifc : Taken(i)[x] = IF x = i THEN Tail(queue[i]) ELSE queue[x]
  BY DEF TypeOK, Taken
<1>2. ASSUME NEW S, queue[i] \in Seq(S) PROVE Tail(queue[i]) \in Seq(S)
  BY <1>2
<1>3. Queues(Taken(i))
  BY <1>1, <1>2, IfcPorts DEF TypeOK, Queues
<1>4. ASSUME NEW k, UnderWay(k), ~ (i \in Link /\ k = Head(queue[i]))
      PROVE  \E x \in Link : In(k, Taken(i)[x])
  <2>1. PICK x \in Link : In(k, queue[x])
    BY <1>4, UnderWayIn
  <2>2. CASE x = i
    BY <1>1, <1>4, <2>1, <2>2, IfcPorts, InTail DEF TypeOK
  <2>3. CASE x # i
    BY <1>1, <2>1, <2>3, IfcPorts
  <2> QED BY <2>2, <2>3
<1> QED BY <1>3, <1>4

(* What was in one place before is so after, and the head in none. *)
LEMMA TakenOnce ==
  ASSUME TypeOK, Once(queue), NEW i \in Ifc, queue[i] # <<>>
  PROVE  /\ Once(Taken(i))
         /\ \A k : \A x \in Link : In(k, Taken(i)[x]) => In(k, queue[x])
         /\ i \in Link /\ Head(queue[i]) \in Packet =>
              \A x \in Link : ~ In(Head(queue[i]), Taken(i)[x])
<1> DEFINE q == Taken(i)
           At(x, a) == IF x = i THEN a + 1 ELSE a
<1>1. \A x \in Ifc : q[x] = IF x = i THEN Tail(queue[i]) ELSE queue[x]
  BY DEF TypeOK, Taken
<1>2. \A x \in Link : x \in Ifc /\ queue[x] \in Seq(Data \cup Update)
  BY IfcPorts DEF TypeOK
<1>3. ASSUME NEW x \in Link, NEW a \in DOMAIN q[x]
      PROVE  /\ a \in Nat \ {0} /\ At(x, a) \in DOMAIN queue[x]
             /\ q[x][a] = queue[x][At(x, a)]
  <2>1. CASE x # i
    BY <1>1, <1>2, <1>3, <2>1
  <2>2. CASE x = i
    <3> DEFINE w == queue[i]
    <3>1. w \in Seq(Data \cup Update) /\ w # <<>> /\ q[x] = Tail(w)
      BY <1>1, <1>2, <2>2
    <3> HIDE DEF w, q
    <3>2. a \in 1 .. Len(w)-1 /\ Len(w) \in Nat /\ Tail(w)[a] = w[a+1]
      BY <1>3, <3>1
    <3> QED BY <2>2, <3>1, <3>2 DEF w
  <2> QED BY <2>1, <2>2
<1> HIDE DEF q
<1>4. Once(q)
  <2> SUFFICES ASSUME NEW k \in Packet, NEW x \in Link, NEW y \in Link,
                      NEW a \in DOMAIN q[x], NEW b \in DOMAIN q[y], q[x][a] = k, q[y][b] = k
               PROVE  x = y /\ a = b
    BY DEF Once
  <2>1. x = y /\ At(x, a) = At(y, b)
    <3> HIDE DEF At
    <3> QED BY <1>3 DEF Once
  <2> QED BY <1>3, <2>1
<1>5. \A k : \A x \in Link : In(k, q[x]) => In(k, queue[x])
  <2> HIDE DEF At
  <2> QED BY <1>3 DEF In
<1>6. ASSUME i \in Link, Head(queue[i]) \in Packet, NEW x \in Link, In(Head(queue[i]), q[x])
      PROVE  FALSE
  <2>1. PICK a \in DOMAIN q[x] : q[x][a] = Head(queue[i])
    BY <1>6 DEF In
  <2>2. 1 \in DOMAIN queue[i] /\ queue[i][1] = Head(queue[i])
    BY <1>2, <1>6
  <2>3. x = i /\ At(x, a) = 1
    <3> HIDE DEF At
    <3> QED BY <1>3, <1>6, <2>1, <2>2 DEF Once
  <2> QED BY <1>3, <2>3
<1> QED BY <1>4, <1>5, <1>6 DEF q

(* A switch adds to its own queues: what is in the others, and in its own, *)
(* stays there, and a packet for another switch is added, in one place.    *)
Grows(s, m, q) ==
  /\ regs' \in [Switch -> Registers]
  /\ Queues(queue')
  /\ \A k, x : x \in Link /\ In(k, q[x]) => In(k, queue'[x])
  /\ m \in Packet /\ m.to # s => \E x \in Link : In(m, queue'[x])
  /\ \E at : \A x \in Link : \A a \in DOMAIN queue'[x] :
       \/ a \in DOMAIN q[x] /\ queue'[x][a] = q[x][a]
       \/ queue'[x][a] \in Packet => <<x, a>> = at /\ queue'[x][a] = m

LEMMA PipelineKeeps ==
  ASSUME TypeOK, NEW s \in Switch, NEW in, NEW m \in Data \cup Update,
         NEW q, Queues(q), Pipeline(s, in, m, q)
  PROVE  Grows(s, m, q)
<1>1. PICK i \in Dst :
        LET o == Outcome(regs[s], s, in, m, i) IN
        /\ regs' = [regs EXCEPT ![s] = o.reg]
        /\ queue' = [x \in Ifc |-> IF x[1] = s /\ x[2] \in DOMAIN o.sent
                                   THEN Append(q[x], o.sent[x[2]]) ELSE q[x]]
  <2>1. PICK o \in Outcomes(regs[s], s, in, m) :
          /\ regs' = [regs EXCEPT ![s] = o.reg]
          /\ queue' = [x \in Ifc |-> IF x[1] = s /\ x[2] \in DOMAIN o.sent
                                     THEN Append(q[x], o.sent[x[2]]) ELSE q[x]]
    BY DEF Pipeline
  <2>2. \E i \in Dst : o = Outcome(regs[s], s, in, m, i)
    BY Kinds DEF Outcomes
  <2> QED BY <2>1, <2>2
<1> DEFINE o == Outcome(regs[s], s, in, m, i)
<1>2. Forwards(s, m, o)
  BY PipelineForwards DEF TypeOK
<1>3. /\ regs' = [regs EXCEPT ![s] = o.reg]
      /\ queue' = [x \in Ifc |-> IF x[1] = s /\ x[2] \in DOMAIN o.sent
                                 THEN Append(q[x], o.sent[x[2]]) ELSE q[x]]
  BY <1>1
<1> HIDE DEF o
<1>4. regs' \in [Switch -> Registers]
  BY <1>2, <1>3 DEF TypeOK, Forwards
<1>5. ASSUME NEW x \in Ifc, ~ (x[1] = s /\ x[2] \in DOMAIN o.sent)
      PROVE  queue'[x] = q[x]
  BY <1>3, <1>5
<1>6. ASSUME NEW x \in Ifc, x[1] = s /\ x[2] \in DOMAIN o.sent
      PROVE  queue'[x] = Append(q[x], o.sent[x[2]])
  BY <1>3, <1>6
<1>7. ASSUME NEW x \in Link
      PROVE  /\ queue'[x] \in Seq(Data \cup Update)
             /\ \A k : In(k, q[x]) => In(k, queue'[x])
  <2>1. x \in Ifc /\ x[2] # Recirc /\ q[x] \in Seq(Data \cup Update)
    BY IfcPorts DEF Queues
  <2>2. CASE x[1] = s /\ x[2] \in DOMAIN o.sent
    <3> DEFINE n == o.sent[x[2]]
    <3>1. n \in Data \cup Update /\ queue'[x] = Append(q[x], n)
      BY <1>2, <1>6, <2>1, <2>2 DEF Forwards
    <3> HIDE DEF n
    <3> QED BY <2>1, <3>1, InAppend
  <2>3. CASE ~ (x[1] = s /\ x[2] \in DOMAIN o.sent)
    BY <1>5, <2>1, <2>3
  <2> QED BY <2>2, <2>3
<1>8. ASSUME NEW t \in Switch PROVE queue'[<<t, Recirc>>] \in Seq(Local)
  <2>1. <<t, Recirc>> \in Ifc /\ q[<<t, Recirc>>] \in Seq(Local)
    BY IfcPorts DEF Queues
  <2>2. CASE t = s /\ Recirc \in DOMAIN o.sent
    <3>1. queue'[<<t, Recirc>>] = Append(q[<<t, Recirc>>], o.sent[Recirc])
      BY <1>6, <2>1, <2>2
    <3>2. o.sent[Recirc] \in Local
      BY <1>2, <2>2 DEF Forwards
    <3> QED BY <2>1, <3>1, <3>2
  <2>3. CASE ~ (t = s /\ Recirc \in DOMAIN o.sent)
    BY <1>5, <2>1, <2>3
  <2> QED BY <2>2, <2>3
<1>9. ASSUME m \in Packet, m.to # s PROVE \E x \in Link : In(m, queue'[x])
  <2>1. PICK p \in DOMAIN o.sent : <<s, p>> \in Link /\ o.sent[p] = m
    BY <1>2, <1>9 DEF Forwards
  <2>2. queue'[<<s, p>>] = Append(q[<<s, p>>], m)
    BY <1>6, <2>1, IfcPorts
  <2>3. q[<<s, p>>] \in Seq(Data \cup Update)
    BY <2>1 DEF Queues
  <2>4. In(m, queue'[<<s, p>>])
    BY <2>2, <2>3, InAppend
  <2> QED BY <2>1, <2>4
<1>10. PICK send : \A p \in DOMAIN o.sent \ {Recirc} :
         o.sent[p] \in Packet => p = send /\ o.sent[p] = m
  BY <1>2 DEF Forwards
<1>11. ASSUME NEW x \in Link, NEW a \in DOMAIN queue'[x]
       PROVE  \/ a \in DOMAIN q[x] /\ queue'[x][a] = q[x][a]
              \/ /\ queue'[x][a] \in Packet
                    => <<x, a>> = <<<<s, send>>, Len(q[<<s, send>>]) + 1>> /\ queue'[x][a] = m
  <2>1. x \in Ifc /\ x[2] # Recirc /\ q[x] \in Seq(Data \cup Update) /\ x = <<x[1], x[2]>>
    BY IfcPorts, P4NetworkAssumption DEF Queues
  <2>2. CASE x[1] = s /\ x[2] \in DOMAIN o.sent
    <3> DEFINE n == o.sent[x[2]]
    <3>1. queue'[x] = Append(q[x], n) /\ (n \in Packet => x[2] = send /\ n = m)
      BY <1>6, <1>10, <2>1, <2>2
    <3> HIDE DEF n
    <3>2. a \in 1 .. Len(q[x]) + 1 /\ Len(q[x]) \in Nat /\ DOMAIN q[x] = 1 .. Len(q[x])
      BY <1>11, <2>1, <3>1
    <3>3. CASE a \in 1 .. Len(q[x])
      BY <2>1, <3>1, <3>2, <3>3
    <3>4. CASE a = Len(q[x]) + 1
      <4>1. queue'[x][a] = n
        BY <2>1, <3>1, <3>2, <3>4
      <4> QED BY <2>1, <2>2, <3>1, <3>4, <4>1
    <3> QED BY <3>2, <3>3, <3>4
  <2>3. CASE ~ (x[1] = s /\ x[2] \in DOMAIN o.sent)
    BY <1>5, <1>11, <2>1, <2>3
  <2> QED BY <2>2, <2>3
<1>12. Queues(queue')
  BY <1>3, <1>7, <1>8 DEF Queues
<1> QED BY <1>4, <1>7, <1>9, <1>11, <1>12 DEF Grows

(* A packet that was nowhere in the other queues is in one place then. *)
LEMMA GrowsOnce ==
  ASSUME NEW s, NEW m, NEW q, Grows(s, m, q), Once(q),
         m \in Packet => \A x \in Link : ~ In(m, q[x])
  PROVE  /\ Once(queue')
         /\ \A k \in Packet : \A x \in Link :
              In(k, queue'[x]) => k = m \/ \E y \in Link : In(k, q[y])
<1>1. PICK at : \A x \in Link : \A a \in DOMAIN queue'[x] :
        \/ a \in DOMAIN q[x] /\ queue'[x][a] = q[x][a]
        \/ queue'[x][a] \in Packet => <<x, a>> = at /\ queue'[x][a] = m
  BY DEF Grows
<1>2. ASSUME NEW k \in Packet, NEW x \in Link, NEW y \in Link,
             NEW a \in DOMAIN queue'[x], NEW b \in DOMAIN queue'[y],
             queue'[x][a] = k, queue'[y][b] = k
      PROVE  x = y /\ a = b
  <2> DEFINE Old(z, c) == c \in DOMAIN q[z] /\ queue'[z][c] = q[z][c]
             New(z, c) == <<z, c>> = at /\ queue'[z][c] = m
  <2>1. (Old(x, a) \/ New(x, a)) /\ (Old(y, b) \/ New(y, b))
    BY <1>1, <1>2
  <2>2. k = m => ~ Old(x, a) /\ ~ Old(y, b)
    BY <1>2 DEF In
  <2>3. CASE k = m
    BY <2>1, <2>2, <2>3
  <2>4. CASE k # m
    BY <1>2, <2>1, <2>4 DEF Once
  <2> QED BY <2>3, <2>4
<1>3. Once(queue')
  BY <1>2 DEF Once
<1>4. \A k \in Packet : \A x \in Link :
        In(k, queue'[x]) => k = m \/ \E y \in Link : In(k, q[y])
  BY <1>1 DEF In
<1> QED BY <1>3, <1>4

----------------------------------------------------------------------------
(* Every step.                                                             *)

(* OneIsIntact, in the terms of the lemmas. *)
LEMMA OneIsIntactIn ==
  OneIsIntact <=> /\ Once(queue)
                  /\ \A k \in Packet : \A x \in Link : In(k, queue[x]) => k \in injected \ delivered
BY DEF OneIsIntact, Once, UnderWay, In

LEMMA InitOk == Init => IInv
<1> SUFFICES ASSUME Init PROVE IInv
  OBVIOUS
<1>1. InitRegisters \in Registers
  <2>1. 0 \in Slot /\ 0 \in Price /\ Free \in Entry
    BY P4Assumption DEF Slot, Price, Entry
  <2> QED BY <2>1 DEF InitRegisters, Registers
<1>2. \A i \in Ifc : queue[i] = <<>>
  BY DEF Init
<1>3. 0 \in 0 .. MaxTicks
  BY P4NetworkAssumption
<1>4. TypeOK
  BY <1>1, <1>2, <1>3, IfcPorts DEF Init, TypeOK
<1>5. NotLost
  BY DEF Init, NotLost
<1>6. OneIsIntact
  BY <1>2, IfcPorts DEF OneIsIntact, UnderWay
<1> QED BY <1>4, <1>5, <1>6 DEF IInv, Init

(* A new packet leaves its switch. *)
LEMMA InjectStep ==
  ASSUME IInv, NEW m \in Packet, Inject(m)
  PROVE  IInv'
<1>1. /\ TypeOK /\ NotLost /\ OneIsIntact /\ delivered \subseteq injected /\ Queues(queue)
      /\ m \notin injected /\ injected' = injected \cup {m} /\ delivered' = delivered
  BY DEF IInv, TypeOK, Queues, Inject
<1>2. m.from \in Switch /\ m.to # m.from /\ m \in Data
  BY P4NetworkAssumption, Kinds
<1>3. Grows(m.from, m, queue)
  BY <1>1, <1>2, PipelineKeeps DEF Inject
<1>4. TypeOK'
  BY <1>1, <1>3 DEF TypeOK, Queues, Grows, Inject
<1>5. \A k \in injected' : k \in delivered' \/ UnderWay(k)'
  BY <1>1, <1>2, <1>3, UnderWayIn DEF Grows, Inject, NotLost, UnderWay, In
<1>6. /\ Once(queue')
      /\ \A k \in Packet : \A x \in Link :
           In(k, queue'[x]) => k = m \/ \E y \in Link : In(k, queue[y])
  BY <1>1, <1>3, OneIsIntactIn, GrowsOnce
<1>7. \A k \in Packet : \A x \in Link : In(k, queue'[x]) => k \in injected' \ delivered'
  BY <1>1, <1>6, OneIsIntactIn
<1>8. OneIsIntact'
  BY <1>6, <1>7 DEF OneIsIntact, Once, UnderWay, In
<1> QED BY <1>1, <1>4, <1>5, <1>8 DEF IInv, NotLost

(* A packet that has arrived is delivered, if it is intact. *)
LEMMA DeliverStep ==
  ASSUME IInv, NEW i \in Link, Deliver(i)
  PROVE  IInv'
<1> DEFINE m == Head(queue[i])
<1>1. /\ TypeOK /\ NotLost /\ OneIsIntact /\ delivered \subseteq injected
      /\ i \in Ifc /\ queue[i] # <<>> /\ queue[i] \in Seq(Data \cup Update)
      /\ queue' = Taken(i) /\ injected' = injected /\ delivered' = delivered \cup ({m} \cap Packet)
  BY IfcPorts DEF IInv, TypeOK, Deliver
<1>2. /\ Queues(queue')
      /\ \A k : UnderWay(k) => k = m \/ \E x \in Link : In(k, queue'[x])
  BY <1>1, TakenQueues
<1>3. /\ Once(queue')
      /\ \A k : \A x \in Link : In(k, queue'[x]) => In(k, queue[x])
      /\ m \in Packet => \A x \in Link : ~ In(m, queue'[x])
  BY <1>1, OneIsIntactIn, TakenOnce
<1>4. In(m, queue[i])
  <2>1. 1 \in DOMAIN queue[i] /\ queue[i][1] = m
    BY <1>1
  <2> QED BY <2>1 DEF In
<1> HIDE DEF m
<1>5. delivered' \subseteq injected'
  BY <1>1, <1>4, OneIsIntactIn
<1>6. TypeOK'
  BY <1>1, <1>2 DEF Deliver, TypeOK, Queues
<1>7. ASSUME NEW k \in injected PROVE k \in delivered' \/ \E x \in Link : In(k, queue'[x])
  <2>1. k \in Packet /\ (k \in delivered \/ UnderWay(k))
    BY <1>1 DEF TypeOK, NotLost
  <2> QED BY <1>1, <1>2, <2>1
<1>8. NotLost'
  BY <1>1, <1>7 DEF NotLost, UnderWay, In
<1>9. \A k \in Packet : \A x \in Link : In(k, queue'[x]) => k \in injected' \ delivered'
  BY <1>1, <1>3, OneIsIntactIn
<1>10. OneIsIntact'
  BY <1>3, <1>9 DEF OneIsIntact, Once, UnderWay, In
<1> QED BY <1>5, <1>6, <1>8, <1>10 DEF IInv

(* A packet or an update is taken in. *)
LEMMA ReceiveStep ==
  ASSUME IInv, NEW i \in Link, ReceiveData(i) \/ ReceiveUpdate(i)
  PROVE  IInv'
<1> DEFINE m == Head(queue[i])
           q == Taken(i)
<1>1. /\ TypeOK /\ NotLost /\ OneIsIntact /\ delivered \subseteq injected
      /\ i \in Ifc /\ queue[i] # <<>> /\ queue[i] \in Seq(Data \cup Update)
  BY IfcPorts DEF IInv, TypeOK, ReceiveData, ReceiveUpdate
<1>2. m \in Data \cup Update /\ (m \in Packet => m.to # Wire[i][1])
  BY <1>1, Kinds DEF ReceiveData, ReceiveUpdate
<1>3. Wire[i][1] \in Switch
  BY P4NetworkAssumption
<1>4. /\ Queues(q)
      /\ \A k : UnderWay(k) => k = m \/ \E x \in Link : In(k, q[x])
  BY <1>1, TakenQueues
<1>5. /\ Once(q)
      /\ \A k : \A x \in Link : In(k, q[x]) => In(k, queue[x])
      /\ m \in Packet => \A x \in Link : ~ In(m, q[x])
  BY <1>1, OneIsIntactIn, TakenOnce
<1>6. In(m, queue[i])
  <2>1. 1 \in DOMAIN queue[i] /\ queue[i][1] = m
    BY <1>1
  <2> QED BY <2>1 DEF In
<1>7. Pipeline(Wire[i][1], Wire[i][2], m, q)
  BY DEF ReceiveData, ReceiveUpdate
<1> HIDE DEF m, q
<1>8. Grows(Wire[i][1], m, q)
  BY <1>1, <1>2, <1>3, <1>4, <1>7, PipelineKeeps
<1>9. injected' = injected /\ delivered' = delivered /\ ticks' = ticks
  BY DEF ReceiveData, ReceiveUpdate
<1>10. TypeOK'
  BY <1>1, <1>8, <1>9 DEF TypeOK, Queues, Grows
<1>11. ASSUME NEW k \in injected PROVE k \in delivered \/ \E x \in Link : In(k, queue'[x])
  <2>1. k \in Packet /\ (k \in delivered \/ UnderWay(k))
    BY <1>1 DEF TypeOK, NotLost
  <2> QED BY <1>2, <1>4, <1>8, <2>1 DEF Grows
<1>12. NotLost'
  BY <1>9, <1>11 DEF NotLost, UnderWay, In
<1>13. /\ Once(queue')
       /\ \A k \in Packet : \A x \in Link :
            In(k, queue'[x]) => k = m \/ \E y \in Link : In(k, q[y])
  BY <1>5, <1>8, GrowsOnce
<1>14. \A k \in Packet : \A x \in Link : In(k, queue'[x]) => k \in injected' \ delivered'
  BY <1>1, <1>5, <1>6, <1>9, <1>13, OneIsIntactIn
<1>15. OneIsIntact'
  BY <1>13, <1>14 DEF OneIsIntact, Once, UnderWay, In
<1> QED BY <1>1, <1>9, <1>10, <1>12, <1>15 DEF IInv

(* A local update changes the counters only. *)
LEMMA LocalStep ==
  ASSUME IInv, NEW s \in Switch, ReceiveLocal(s)
  PROVE  IInv'
<1> DEFINE i == <<s, Recirc>>
<1>1. /\ TypeOK /\ NotLost /\ OneIsIntact /\ delivered \subseteq injected
      /\ i \in Ifc /\ i \notin Link /\ queue[i] # <<>> /\ queue' = Taken(i)
      /\ injected' = injected /\ delivered' = delivered
  BY IfcPorts DEF IInv, ReceiveLocal
<1>2. /\ Queues(queue')
      /\ \A k : UnderWay(k) => \E x \in Link : In(k, queue'[x])
      /\ Once(queue')
      /\ \A k : \A x \in Link : In(k, queue'[x]) => In(k, queue[x])
  <2> HIDE DEF i
  <2> QED BY <1>1, OneIsIntactIn, TakenQueues, TakenOnce
<1>3. regs' \in [Switch -> Registers]
  BY <1>1, AfterLocalType DEF ReceiveLocal, TypeOK
<1>4. TypeOK'
  BY <1>1, <1>2, <1>3 DEF ReceiveLocal, TypeOK, Queues
<1>5. NotLost'
  BY <1>1, <1>2 DEF NotLost, UnderWay, In
<1>6. \A k \in Packet : \A x \in Link : In(k, queue'[x]) => k \in injected' \ delivered'
  BY <1>1, <1>2, OneIsIntactIn
<1>7. OneIsIntact'
  BY <1>2, <1>6 DEF OneIsIntact, Once, UnderWay, In
<1> QED BY <1>1, <1>4, <1>5, <1>7 DEF IInv

LEMMA TickStep ==
  ASSUME IInv, Tick
  PROVE  IInv'
<1>1. regs' = [s \in Switch |-> Aged(regs[s])]
  BY DEF Tick
<1>2. regs' \in [Switch -> Registers]
  BY <1>1, AgedType DEF IInv, TypeOK
<1>3. ticks' \in 0 .. MaxTicks
  BY P4NetworkAssumption DEF Tick, IInv, TypeOK
<1>4. TypeOK'
  BY <1>2, <1>3 DEF Tick, IInv, TypeOK
<1> QED BY <1>4 DEF Tick, IInv, NotLost, OneIsIntact, UnderWay

LEMMA Step == IInv /\ [Next]_vars => IInv'
<1> SUFFICES ASSUME IInv, [Next]_vars PROVE IInv'
  OBVIOUS
<1>1. CASE \E m \in Packet : Inject(m)
  BY <1>1, InjectStep
<1>2. CASE Receive
  BY <1>2, DeliverStep, ReceiveStep, LocalStep DEF Receive
<1>3. CASE Tick
  BY <1>3, TickStep
<1>4. CASE UNCHANGED vars
  BY <1>4 DEF vars, IInv, TypeOK, NotLost, OneIsIntact, UnderWay
<1> QED BY <1>1, <1>2, <1>3, <1>4 DEF Next

THEOREM Invariance == Spec => []IInv
BY InitOk, Step, PTL DEF Spec

(* Registers keep their widths, links carry packets, spoiled or not, and   *)
(* updates only, and the recirculation ports local updates only: what a    *)
(* pipeline leaves unstripped on an update is read as an update about a    *)
(* destination that exists.                                                *)
THEOREM TypeCorrect == Spec => []TypeOK
<1>1. IInv => TypeOK
  BY DEF IInv
<1> QED BY <1>1, Invariance, PTL

(* Whatever the pipelines copy, strip, spoil or drop, and however long     *)
(* local and route updates wait, a packet a host has sent is under way     *)
(* intact or has arrived intact.                                           *)
THEOREM NotLostHolds == Spec => []NotLost
<1>1. IInv => NotLost
  BY DEF IInv
<1> QED BY <1>1, Invariance, PTL

(* However often a packet is copied, the copy on its outport is the only   *)
(* one the next switches and the host can take for the packet.             *)
THEOREM OneIsIntactHolds == Spec => []OneIsIntact
<1>1. IInv => OneIsIntact
  BY DEF IInv
<1> QED BY <1>1, Invariance, PTL
=============================================================================
