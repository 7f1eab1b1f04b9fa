-------------------------- MODULE TimpP4SwitchProofs --------------------------
(***************************************************************************)
(* Theorems about one P4 switch, for all route tables and multicast        *)
(* groups, table sizes and expiration times.                               *)
(***************************************************************************)
EXTENDS TimpP4Switch, FiniteSetTheorems, TLAPS

DataMessage == [to : Dst, hash : HashRange, intact : BOOLEAN]

(* Numbers modulo PriceCount, the range of a counter.                      *)
LEMMA ModType ==
  ASSUME NEW a \in Int
  PROVE  a % PriceCount \in Price
BY P4Assumption DEF Price

LEMMA Unique ==
  ASSUME NEW N \in Nat \ {0}, NEW q \in Int, NEW s \in Int, NEW x \in 0..N-1, NEW y \in 0..N-1,
         N*q + x = N*s + y
  PROVE  x = y
<1>1. N * (q - s) = y - x
  OBVIOUS
<1>2. CASE q - s >= 1
  <2>1. N * (q - s) >= N
    BY <1>2
  <2> QED BY <1>1, <2>1
<1>3. CASE q - s <= -1
  <2>1. N * (q - s) <= -N
    BY <1>3
  <2> QED BY <1>1, <2>1
<1> QED BY <1>1, <1>2, <1>3

LEMMA Euclid ==
  ASSUME NEW a \in Int
  PROVE  a = PriceCount * (a \div PriceCount) + (a % PriceCount) /\ a \div PriceCount \in Int
BY P4Assumption

LEMMA ModIs ==
  ASSUME NEW a \in Int, NEW q \in Int, NEW x \in Price, a = PriceCount * q + x
  PROVE  a % PriceCount = x
<1> DEFINE y == a % PriceCount
           s == a \div PriceCount
<1>1. PriceCount \in Nat \ {0}
  BY P4Assumption
<1>2. x \in 0 .. PriceCount-1 /\ y \in 0 .. PriceCount-1
  BY ModType DEF Price
<1>3. s \in Int /\ PriceCount * q + x = PriceCount * s + y
  BY Euclid
<1> HIDE DEF y, s
<1>4. x = y
  BY <1>1, <1>2, <1>3, Unique
<1> QED BY <1>4 DEF y

(* A counter wraps once at most when one local update is applied. *)
LEMMA ModNear ==
  ASSUME NEW a \in -2 .. PriceCount
  PROVE  /\ a \in Price => a % PriceCount = a
         /\ a % PriceCount \in {a, a + PriceCount, a - PriceCount}
<1>1. CASE a \in Price
  <2>1. a \in Int /\ a = PriceCount*0 + a
    BY <1>1, P4Assumption DEF Price
  <2> QED BY <1>1, <2>1, ModIs
<1>2. CASE a = PriceCount
  <2>1. a = PriceCount*1 + 0 /\ 0 \in Price
    BY <1>2, P4Assumption DEF Price
  <2> QED BY <1>2, <2>1, P4Assumption, ModIs DEF Price
<1>3. CASE a < 0
  <2>1. a = PriceCount*(-1) + (a + PriceCount) /\ a + PriceCount \in Price
    BY <1>3, P4Assumption DEF Price
  <2>2. a % PriceCount = a + PriceCount
    BY <2>1, ModIs
  <2> QED BY <1>3, <2>2 DEF Price
<1>4. a \in Price \/ a = PriceCount \/ a < 0
  BY P4Assumption DEF Price
<1> QED BY <1>1, <1>2, <1>3, <1>4

LEMMA ModStep ==
  ASSUME NEW a \in Int, a % PriceCount = 0
  PROVE  /\ (a + PriceCount) % PriceCount = 0
         /\ (a - PriceCount) % PriceCount = 0
<1> DEFINE q == a \div PriceCount
<1>1. q \in Int /\ a = PriceCount * q
  BY P4Assumption, Euclid
<1> HIDE DEF q
<1>2. a + PriceCount = PriceCount * (q+1) + 0 /\ a - PriceCount = PriceCount * (q-1) + 0
  BY <1>1, P4Assumption
<1>3. 0 \in Price
  BY P4Assumption DEF Price
<1> QED BY <1>1, <1>2, <1>3, P4Assumption, ModIs

(* Every non-empty set of ports has a first one with the lowest price. *)
LEMMA BestExists ==
  ASSUME NEW f \in [Port -> Int], NEW S \in SUBSET Port, S # {}
  PROVE  \E p \in S : \A q \in S : f[p] < f[q] \/ (f[p] = f[q] /\ p <= q)
<1>1. Port = {1, 2, 3, 4}
  BY DEF Port
<1>2. f[1] \in Int /\ f[2] \in Int /\ f[3] \in Int /\ f[4] \in Int
  BY <1>1
<1>3. S \subseteq {1, 2, 3, 4} /\ (1 \in S \/ 2 \in S \/ 3 \in S \/ 4 \in S)
  BY <1>1
<1> QED BY <1>2, <1>3

LEMMA PriceType ==
  ASSUME NEW r \in Registers, NEW p \in Port, NEW i \in Dst
  PROVE  PricePort(r, p, i) \in Price
BY DEF Registers, PricePort

LEMMA MinPortType ==
  ASSUME NEW r \in Registers, NEW alts \in SUBSET Port, NEW i \in Dst
  PROVE  /\ MinPort(r, alts, i) \in alts \cup {NoPort}
         /\ MinPort(r, alts, i) \in Port \cup {NoPort}
<1> DEFINE f == [p \in Port |-> PricePort(r, p, i)]
<1>1. f \in [Port -> Int]
  BY PriceType DEF Price
<1>2. CASE alts # {}
  <2>1. \E p \in alts : \A q \in alts : f[p] < f[q] \/ (f[p] = f[q] /\ p <= q)
    <3> HIDE DEF f
    <3> QED BY <1>1, <1>2, BestExists
  <2>2. \E p \in alts : \A q \in alts :
           \/ PricePort(r, p, i) < PricePort(r, q, i)
           \/ PricePort(r, p, i) = PricePort(r, q, i) /\ p <= q
    BY <2>1
  <2> QED BY <1>2, <2>2 DEF MinPort
<1>3. CASE alts = {}
  BY <1>3 DEF MinPort
<1> QED BY <1>2, <1>3

(* The entry of a packet is in the table. *)
LEMMA HomeType ==
  ASSUME NEW m \in DataMessage
  PROVE  Home(m) \in Table \X Slot /\ HashTable(m) \in Table
<1>1. m.hash \in Nat /\ TableSize \in Nat \ {0}
  BY P4Assumption DEF DataMessage, HashRange
<1>2. FlowletHash(m) \in Slot
  BY <1>1 DEF FlowletHash, Slot
<1> QED BY <1>2 DEF Home, HashTable, Table

LEMMA NextPosType ==
  ASSUME NEW r \in Registers, NEW t \in Table
  PROVE  NextPos(r, t) \in Slot
<1>1. r.pos_hash[t] \in Slot
  BY DEF Registers
<1> QED BY <1>1, P4Assumption DEF NextPos, Slot

LEMMA HeardType ==
  ASSUME NEW r \in Registers, NEW in, NEW m, IsUpdate(m) => m \in Update
  PROVE  Heard(r, in, m) \in Registers /\ Heard(r, in, m).table = r.table
<1>1. CASE IsUpdate(m) /\ in \in Port
  <2> DEFINE rcv == [r.flows_rcv EXCEPT ![<<in, m.dst>>] = m.price]
  <2>1. rcv \in [Port \X Dst -> Price]
    BY <1>1 DEF Registers, Update
  <2>2. Heard(r, in, m) = [r EXCEPT !.flows_rcv = rcv]
    BY <1>1 DEF Heard
  <2> HIDE DEF rcv
  <2> QED BY <2>1, <2>2 DEF Registers
<1>2. CASE ~ (IsUpdate(m) /\ in \in Port)
  BY <1>2 DEF Heard
<1> QED BY <1>1, <1>2

(* The scan frees entries that are not live. *)
LEMMA ScanType ==
  ASSUME NEW r \in Registers, NEW m
  PROVE  /\ Scan(r, m) \in Registers
         /\ ScanPort(r, m) \in Port \cup {NoPort}
         /\ \A x \in Table \X Slot : Live(r.table[x]) => Scan(r, m).table[x] = r.table[x]
<1> DEFINE pos == [t \in Table |-> IF t \in Scanned(m) THEN NextPos(r, t) ELSE r.pos_hash[t]]
           tab == [x \in Table \X Slot |->
                    IF x[1] \in Scanned(m) /\ x[2] = NextPos(r, x[1]) /\ Expired(r, x[1])
                    THEN Free ELSE r.table[x]]
<1>1. pos \in [Table -> Slot]
  BY NextPosType DEF Registers
<1>2. tab \in [Table \X Slot -> Entry]
  BY DEF Registers, Entry
<1>3. Scan(r, m) = [r EXCEPT !.pos_hash = pos, !.table = tab]
  BY DEF Scan
<1>4. \A x \in Table \X Slot : Live(r.table[x]) => tab[x] = r.table[x]
  <2> SUFFICES ASSUME NEW x \in Table \X Slot, Live(r.table[x]),
                      x[2] = NextPos(r, x[1]), Expired(r, x[1])
               PROVE  FALSE
    OBVIOUS
  <2>1. r.table[x].age > MaxTime /\ r.table[x].age < MaxTime
    BY DEF Expired, Live
  <2>2. r.table[x].age \in Int
    BY P4Assumption DEF Registers, Entry, Free
  <2> QED BY <2>1, <2>2, P4Assumption
<1> HIDE DEF pos, tab
<1>5. Scan(r, m) \in Registers /\ Scan(r, m).table = tab
  BY <1>1, <1>2, <1>3 DEF Registers
<1>6. ScanPort(r, m) \in Port \cup {NoPort}
  <2>1. Scanned(m) \subseteq Table
    BY DEF Scanned
  <2>2. ASSUME NEW t \in Table PROVE r.table[<<t, NextPos(r, t)>>].port \in Port \cup {NoPort}
    <3>1. <<t, NextPos(r, t)>> \in Table \X Slot
      BY NextPosType
    <3>2. r.table \in [Table \X Slot -> Entry]
      BY DEF Registers
    <3>3. r.table[<<t, NextPos(r, t)>>] \in Entry
      BY <3>1, <3>2
    <3> QED BY <3>3 DEF Entry, Free
  <2>3. CASE \E t \in Scanned(m) : Expired(r, t)
    <3> DEFINE P(t) == Expired(r, t) /\ \A o \in Scanned(m) : Expired(r, o) => o <= t
    <3>1. \E t \in Scanned(m) : P(t)
      <4>1. \A t \in Scanned(m) : t = 1 \/ t = 2
        BY <2>1 DEF Table
      <4>2. PICK t \in Scanned(m) : Expired(r, t)
        BY <2>3
      <4>3. CASE 2 \in Scanned(m) /\ Expired(r, 2)
        BY <4>1, <4>3
      <4>4. CASE ~ (2 \in Scanned(m) /\ Expired(r, 2))
        BY <4>1, <4>2, <4>4
      <4> QED BY <4>3, <4>4
    <3>2. (CHOOSE t \in Scanned(m) : P(t)) \in Table
      BY <2>1, <3>1
    <3> QED BY <2>2, <2>3, <3>2 DEF ScanPort
  <2>4. CASE ~ \E t \in Scanned(m) : Expired(r, t)
    BY <2>4 DEF ScanPort
  <2> QED BY <2>3, <2>4
<1> QED BY <1>4, <1>5, <1>6

(* A live entry is refreshed or left, never moved. *)
LEMMA LookUpType ==
  ASSUME NEW r \in Registers, NEW y \in Table \X Slot, NEW alts,
         NEW best \in Port \cup {NoPort}
  PROVE  /\ LookUp(r, y, alts, best) \in Registers
         /\ \A x \in Table \X Slot : Live(r.table[x]) =>
              LookUp(r, y, alts, best).table[x].port = r.table[x].port
<1> DEFINE e == r.table[y]
           n == [port |-> IF Live(e) THEN e.port ELSE best, age |-> 0]
           tab == [r.table EXCEPT ![y] = n]
<1>1. CASE Live(e) /\ e.port \notin alts
  BY <1>1 DEF LookUp
<1>2. CASE ~ (Live(e) /\ e.port \notin alts)
  <2>1. e \in Entry /\ e.port \in Port \cup {NoPort}
    BY DEF Registers, Entry, Free
  <2>2. n.port \in Port \cup {NoPort} /\ (Live(e) => n.port = e.port)
    BY <2>1
  <2>3. n \in Entry
    <3>1. n = [port |-> n.port, age |-> 0] /\ 0 \in 0 .. MaxTime+1
      BY P4Assumption
    <3> HIDE DEF n
    <3> QED BY <2>2, <3>1 DEF Entry, Free
  <2>4. LookUp(r, y, alts, best) = [r EXCEPT !.table = tab]
    BY <1>2 DEF LookUp
  <2> HIDE DEF n
  <2>5. tab \in [Table \X Slot -> Entry]
    BY <2>3 DEF Registers
  <2>6. \A x \in Table \X Slot : Live(r.table[x]) => tab[x].port = r.table[x].port
    BY <2>2 DEF Registers
  <2> HIDE DEF tab
  <2> QED BY <2>4, <2>5, <2>6 DEF Registers
<1> QED BY <1>1, <1>2

----------------------------------------------------------------------------
(* A run of the pipeline: registers stay registers, what is recirculated   *)
(* is a local update, and live entries keep their ports.                   *)
LEMMA PipelineType ==
  ASSUME NEW r0 \in Registers, NEW s \in Switch, NEW in, NEW m,
         m \in DataMessage \cup Update, NEW i \in Dst
  PROVE  LET o == Outcome(r0, s, in, m, i) IN
         /\ o.reg \in Registers
         /\ Recirc \in DOMAIN o.sent => o.sent[Recirc] \in Local
         /\ \A x \in Table \X Slot : Live(r0.table[x]) => o.reg.table[x].port = r0.table[x].port
<1> DEFINE d       == About(m)
           r       == Heard(r0, in, m)
           alts    == AltPorts[s][d]
           best    == MinPort(r, alts, i)
           u       == LocalUpdate(r, m, alts, best)
           send    == SendPort(r, m, alts, best)
           price   == MinPrice(r, m, i, best, u)
           changed == Changed(r, d, price)
           ports   == { p \in Ports(s, m, send, GroupOffset[s][d] + send, changed, u) :
                          p # NoPort /\ (p = Recirc => u # NoLocal) }
           scanned == Scan(r, m)
           looked  == IF IsUpdate(m) THEN scanned ELSE LookUp(scanned, Home(m), alts, best)
           o       == Outcome(r0, s, in, m, i)
<1>1. (IsUpdate(m) <=> m \in Update) /\ (~ IsUpdate(m) <=> m \in DataMessage)
  BY DEF IsUpdate, Update, DataMessage
<1>2. d \in Dst
  BY <1>1 DEF About, Update, DataMessage
<1>3. r \in Registers /\ r.table = r0.table
  BY <1>1, HeardType
<1>4. alts \in SUBSET Port
  BY <1>2, P4Assumption
<1> HIDE DEF d, r, alts
<1>5. best \in Port \cup {NoPort}
  BY <1>3, <1>4, MinPortType
<1> HIDE DEF best
<1>6. u \in Local
  <2>1. ScanPort(r, m) \in Port \cup {NoPort}
    BY <1>3, ScanType
  <2>2. CASE IsUpdate(m)
    BY <2>1, <2>2 DEF LocalUpdate, Local
  <2>3. CASE ~ IsUpdate(m)
    <3>1. Home(m) \in Table \X Slot
      BY <1>1, <2>3, HomeType
    <3>2. r.table[Home(m)].port \in Port \cup {NoPort}
      BY <1>3, <3>1 DEF Registers, Entry, Free
    <3> QED BY <1>5, <2>1, <3>2 DEF LocalUpdate, Local
  <2> QED BY <2>2, <2>3
<1> HIDE DEF u
<1>7. price \in Price
  <2>1. best # NoPort => PricePort(r, best, i) \in Price
    BY <1>3, <1>5, PriceType
  <2>2. \A a \in Int : a % PriceCount \in Price
    BY ModType
  <2> DEFINE base == IF best = NoPort THEN 0 ELSE PricePort(r, best, i)
             c == base + If(u.port1 = best) - If(u.port2 = best) - If(u.port3 = best)
  <2>3. base \in Price
    BY <2>1, P4Assumption DEF Price
  <2>4. c \in Int
    BY <2>3, P4Assumption DEF Price, If
  <2>5. price = IF IsUpdate(m) THEN base ELSE c % PriceCount
    BY DEF MinPrice
  <2> HIDE DEF base, c, price
  <2> QED BY <2>2, <2>3, <2>4, <2>5
<1> HIDE DEF price, send
<1>8. scanned \in Registers /\ \A x \in Table \X Slot : Live(r.table[x]) => scanned.table[x] = r.table[x]
  BY <1>3, ScanType
<1> HIDE DEF scanned
<1>9. /\ looked \in Registers
      /\ \A x \in Table \X Slot : Live(r.table[x]) => looked.table[x].port = r.table[x].port
  <2>1. CASE IsUpdate(m)
    BY <1>8, <2>1
  <2>2. CASE ~ IsUpdate(m)
    <3>1. Home(m) \in Table \X Slot
      BY <1>1, <2>2, HomeType
    <3> QED BY <1>5, <1>8, <2>2, <3>1, LookUpType
  <2> QED BY <2>1, <2>2
<1> HIDE DEF looked, changed
<1>10. o = [ reg   |-> [looked EXCEPT !.advertized = [r.advertized EXCEPT ![d] = price]],
             local |-> u,
             sent  |-> [p \in ports |-> Copy(m, p, send, d, price, changed, u)] ]
  BY DEF Outcome, d, r, alts, best, u, send, price, changed, scanned, looked
<1> HIDE DEF o, ports
<1>11. o.reg \in Registers /\ o.reg.table = looked.table
  <2> DEFINE adv == [r.advertized EXCEPT ![d] = price]
  <2>1. adv \in [Dst -> Price]
    BY <1>2, <1>3, <1>7 DEF Registers
  <2>2. o.reg = [looked EXCEPT !.advertized = adv]
    BY <1>10
  <2> HIDE DEF adv
  <2> QED BY <1>9, <2>1, <2>2 DEF Registers
<1>12. Recirc \in DOMAIN o.sent => o.sent[Recirc] = u
  BY <1>10 DEF Copy
<1> QED BY <1>3, <1>6, <1>9, <1>11, <1>12 DEF o

(* A local update. *)
LEMMA LocalType ==
  ASSUME NEW r \in Registers, NEW u \in Local
  PROVE  AfterLocal(r, u) \in Registers /\ AfterLocal(r, u).table = r.table
<1> DEFINE c(p) == r.flows_local[p] + If(u.port1 = p) - If(u.port2 = p) - If(u.port3 = p)
           counts == [p \in Port |-> c(p) % PriceCount]
<1>1. ASSUME NEW p \in Port PROVE c(p) % PriceCount \in Price
  <2>1. r.flows_local[p] \in Int
    <3>1. r.flows_local \in [Port -> Price]
      BY DEF Registers
    <3>2. r.flows_local[p] \in Price
      BY <3>1
    <3> QED BY <3>2, P4Assumption DEF Price
  <2>2. c(p) \in Int
    BY <2>1 DEF If
  <2> HIDE DEF c
  <2> QED BY <2>2, ModType
<1>2. counts \in [Port -> Price]
  BY <1>1
<1>3. AfterLocal(r, u) = [r EXCEPT !.flows_local = counts]
  BY DEF AfterLocal
<1> HIDE DEF counts
<1> QED BY <1>2, <1>3 DEF Registers

(* The clock. *)
LEMMA AgedType ==
  ASSUME NEW r \in Registers
  PROVE  /\ Aged(r) \in Registers
         /\ \A x \in Table \X Slot : Aged(r).table[x].port = r.table[x].port
<1> DEFINE a(e) == IF e.port = NoPort THEN e
                   ELSE [e EXCEPT !.age = IF @ <= MaxTime THEN @ + 1 ELSE @]
           tab == [x \in Table \X Slot |-> a(r.table[x])]
<1>1. ASSUME NEW e \in Entry PROVE a(e) \in Entry /\ a(e).port = e.port
  BY P4Assumption DEF Entry, Free, Port, NoPort
<1>2. tab \in [Table \X Slot -> Entry] /\ \A x \in Table \X Slot : tab[x].port = r.table[x].port
  BY <1>1 DEF Registers
<1>3. Aged(r) = [r EXCEPT !.table = tab]
  BY DEF Aged
<1> HIDE DEF tab
<1> QED BY <1>2, <1>3 DEF Registers

----------------------------------------------------------------------------
(* Every step keeps the types and the ports of live entries. *)
Keeps ==
  \A x \in Table \X Slot : Live(reg.table[x]) => reg'.table[x].port = reg.table[x].port

(* Pipeline, with the outcome written out. *)
Runs(o) ==
  /\ reg' = o.reg
  /\ \/ /\ Recirc \in DOMAIN o.sent
        /\ recirc' = Append(recirc, o.sent[Recirc])
        /\ UNCHANGED lost
     \/ /\ Recirc \notin DOMAIN o.sent
        /\ lost' = [p \in Port |-> (lost[p] + If(o.local.port3 = p)) % PriceCount]
        /\ UNCHANGED recirc

LEMMA PipelineRuns ==
  ASSUME NEW in, NEW m \in DataMessage \cup Update, Pipeline(in, m)
  PROVE  \E i \in Dst : Runs(Outcome(reg, sw, in, m, i))
<1>1. PICK o \in Outcomes(reg, sw, in, m) : Runs(o)
  BY DEF Pipeline, Runs
<1>2. \E i \in Dst : o = Outcome(reg, sw, in, m, i)
  BY P4Assumption DEF Outcomes, IsUpdate, Update, DataMessage
<1> QED BY <1>1, <1>2

LEMMA LostType ==
  ASSUME lost \in [Port -> Price], NEW u
  PROVE  [p \in Port |-> (lost[p] + If(u.port3 = p)) % PriceCount] \in [Port -> Price]
<1> SUFFICES ASSUME NEW p \in Port PROVE (lost[p] + If(u.port3 = p)) % PriceCount \in Price
  OBVIOUS
<1>1. lost[p] \in Price
  OBVIOUS
<1>2. lost[p] + If(u.port3 = p) \in Int
  BY <1>1, P4Assumption DEF Price, If
<1> QED BY <1>2, ModType

LEMMA PipelineStep ==
  ASSUME TypeOK, NEW in, NEW m, m \in DataMessage \cup Update, Pipeline(in, m)
  PROVE  TypeOK' /\ Keeps
<1>1. PICK i \in Dst : Runs(Outcome(reg, sw, in, m, i))
  BY PipelineRuns
<1> DEFINE o == Outcome(reg, sw, in, m, i)
<1>2. /\ o.reg \in Registers
      /\ Recirc \in DOMAIN o.sent => o.sent[Recirc] \in Local
      /\ \A x \in Table \X Slot : Live(reg.table[x]) => o.reg.table[x].port = reg.table[x].port
  <2>1. reg \in Registers /\ sw \in Switch
    BY DEF TypeOK
  <2> QED BY <2>1, PipelineType
<1>3. Runs(o)
  BY <1>1
<1> HIDE DEF o
<1>4. sw' = sw
  BY DEF Pipeline
<1>5. recirc' \in Seq(Local)
  BY <1>2, <1>3 DEF Runs, TypeOK
<1>6. lost' \in [Port -> Price]
  BY <1>3, LostType DEF Runs, TypeOK
<1> QED BY <1>2, <1>3, <1>4, <1>5, <1>6 DEF Runs, TypeOK, Keeps

LEMMA UpdateType ==
  ASSUME NEW d \in Dst, NEW x \in 0 .. MaxPrice
  PROVE  [dst |-> d, price |-> x] \in Update
<1>1. x \in Price
  BY P4Assumption, P4SwitchAssumption DEF Price
<1> QED BY <1>1 DEF Update

LEMMA Step == TypeOK /\ [Next]_vars => TypeOK' /\ Keeps
<1> SUFFICES ASSUME TypeOK, [Next]_vars PROVE TypeOK' /\ Keeps
  OBVIOUS
<1>1. ASSUME NEW m \in Packet, ReceiveData(m) PROVE TypeOK' /\ Keeps
  BY <1>1, PipelineStep, P4SwitchAssumption DEF ReceiveData, DataMessage
<1>2. ASSUME NEW p \in Port, NEW d \in Dst, NEW x \in 0 .. MaxPrice,
             ReceiveUpdate(p, [dst |-> d, price |-> x])
      PROVE  TypeOK' /\ Keeps
  <2>1. [dst |-> d, price |-> x] \in Update
    BY UpdateType
  <2> QED BY <1>2, <2>1, PipelineStep DEF ReceiveUpdate
<1>3. CASE ReceiveLocal
  <2>1. Head(recirc) \in Local /\ Tail(recirc) \in Seq(Local)
    BY <1>3 DEF ReceiveLocal, TypeOK
  <2> QED BY <1>3, <2>1, LocalType DEF ReceiveLocal, TypeOK, Keeps
<1>4. CASE Tick
  BY <1>4, AgedType DEF Tick, TypeOK, Keeps
<1>5. CASE UNCHANGED vars
  BY <1>5 DEF vars, TypeOK, Keeps
<1> QED BY <1>1, <1>2, <1>3, <1>4, <1>5 DEF Next

LEMMA InitType == Init => TypeOK
<1> SUFFICES ASSUME Init PROVE TypeOK
  OBVIOUS
<1>1. InitRegisters \in Registers
  <2>1. 0 \in Slot /\ 0 \in Price /\ Free \in Entry
    BY P4Assumption DEF Slot, Price, Entry
  <2> QED BY <2>1 DEF InitRegisters, Registers
<1>2. 0 \in Price
  BY P4Assumption DEF Price
<1> QED BY <1>1, <1>2 DEF Init, TypeOK

(* Registers hold what their widths and the tables admit: no pipeline run  *)
(* indexes a table beyond its end, and every local update names ports.     *)
THEOREM TypeCorrect == Spec => []TypeOK
BY InitType, Step, PTL DEF Spec

(* A flow in use stays on its port, whatever its slot is looked up for and *)
(* whatever the round robin finds.                                         *)
THEOREM FlowletKeepsPortHolds == Spec => FlowletKeepsPort
<1>1. TypeOK /\ [Next]_vars => [Keeps]_vars
  BY Step
<1>2. Spec => [][Keeps]_vars
  BY <1>1, TypeCorrect, PTL DEF Spec
<1> QED BY <1>2, PTL DEF Spec, FlowletKeepsPort, Keeps

----------------------------------------------------------------------------
(* Charges.  The local updates under way are counted in every prefix of    *)
(* the queue: Net is what the counter of a port will be when that many of  *)
(* them are applied.                                                       *)
Adds(q, p)  == { j \in DOMAIN q : q[j].port1 = p }
Moves(q, p) == { j \in DOMAIN q : q[j].port2 = p }
Frees(q, p) == { j \in DOMAIN q : q[j].port3 = p }

Upto(H, n) == Cardinality(H \cap (1..n))

Net(r, q, n, p) ==
  r.flows_local[p] + Upto(Adds(q, p), n) - Upto(Moves(q, p), n) - Upto(Frees(q, p), n)

(* The hash never selects table 1. *)
Table1Free == \A i \in Slot : reg.table[<<1, i>>].port = NoPort

(* Where nothing is lost, it is never negative and never more than the     *)
(* entries of table 2.                                                     *)
NetBounded ==
  Recirculates => \A p \in Port : \A n \in 0..Len(recirc) : Net(reg, recirc, n, p) \in 0..TableSize

(* The entries of a table with port p. *)
EntriesOf(t, p) == Cardinality({ x \in Table \X Slot : t[x].port = p })

(* The whole queue pays for the entries of the table and for those whose   *)
(* release was lost, modulo PriceCount, and exactly for the entries if     *)
(* every local update is recirculated.                                     *)
Surplus(p) == Net(reg, recirc, Len(recirc), p) - EntriesOf(reg.table, p) - lost[p]

TableCharged ==
  \A p \in Port :
    /\ Surplus(p) % PriceCount = 0
    /\ Recirculates => Net(reg, recirc, Len(recirc), p) = EntriesOf(reg.table, p)

ChargeInv == TypeOK /\ Table1Free /\ NetBounded /\ TableCharged

(* Counting in prefixes. *)
LEMMA UptoType ==
  ASSUME NEW H, NEW n \in Nat
  PROVE  Upto(H, n) \in Nat /\ IsFiniteSet(H \cap (1..n))
<1>1. IsFiniteSet(1..n)
  BY FS_Interval
<1>2. H \cap (1..n) \in SUBSET (1..n)
  OBVIOUS
<1>3. IsFiniteSet(H \cap (1..n))
  BY <1>1, <1>2, FS_Subset
<1> QED BY <1>3, FS_CardinalityType DEF Upto

(* A hit more at the end, or none. *)
LEMMA UptoExtend ==
  ASSUME NEW L \in Nat, NEW H, NEW K,
         \A j \in 1..L : j \in K <=> j \in H
  PROVE  /\ \A n \in 0..L : Upto(K, n) = Upto(H, n)
         /\ Upto(K, L+1) = Upto(H, L) + If(L+1 \in K)
<1> DEFINE A == H \cap (1..L)
           B == K \cap (1..(L+1))
<1>1. \A n \in 0..L : K \cap (1..n) = H \cap (1..n)
  <2> SUFFICES ASSUME NEW n \in 0..L PROVE K \cap (1..n) = H \cap (1..n)
    OBVIOUS
  <2>1. \A j \in 1..n : j \in 1..L
    OBVIOUS
  <2> QED BY <2>1
<1>2. IsFiniteSet(A) /\ Cardinality(A) \in Nat
  <2>1. IsFiniteSet(A)
    BY UptoType
  <2> HIDE DEF A
  <2> QED BY <2>1, FS_CardinalityType
<1>3. L+1 \notin A /\ B = A \cup (IF L+1 \in K THEN {L+1} ELSE {})
  <2>1. \A j : j \in 1..(L+1) <=> j \in 1..L \/ j = L+1
    OBVIOUS
  <2>2. L+1 \notin 1..L
    OBVIOUS
  <2> QED BY <2>1, <2>2
<1>4. Upto(K, L+1) = Cardinality(B) /\ Upto(H, L) = Cardinality(A)
  BY DEF Upto
<1>5. (\A n \in 0..L : Upto(K, n) = Upto(H, n))
  BY <1>1 DEF Upto
<1> HIDE DEF A, B
<1>6. CASE L+1 \in K
  <2>1. B = A \cup {L+1}
    BY <1>3, <1>6
  <2>2. Cardinality(B) = Cardinality(A) + 1
    BY <1>2, <1>3, <2>1, FS_AddElement
  <2> QED BY <1>4, <1>5, <1>6, <2>2 DEF If
<1>7. CASE L+1 \notin K
  <2>1. B = A
    BY <1>3, <1>7
  <2> QED BY <1>2, <1>4, <1>5, <1>7, <2>1 DEF If
<1> QED BY <1>6, <1>7

(* The hits of a queue whose head is gone. *)
LEMMA UptoShift ==
  ASSUME NEW n \in Nat, NEW H, NEW K,
         \A j \in 1..n : j \in K <=> j+1 \in H
  PROVE  Upto(K, n) + If(1 \in H) = Upto(H, n+1)
<1> DEFINE A == H \cap (1..(n+1))
           B == K \cap (1..n)
           C == A \ {1}
           f == [j \in B |-> j+1]
<1>1. IsFiniteSet(A) /\ Cardinality(A) \in Nat /\ IsFiniteSet(B)
  <2>1. IsFiniteSet(A) /\ IsFiniteSet(B)
    BY UptoType
  <2> HIDE DEF A
  <2> QED BY <2>1, FS_CardinalityType
<1>2. IsFiniteSet(C) /\ Cardinality(C) = IF 1 \in A THEN Cardinality(A) - 1 ELSE Cardinality(A)
  BY <1>1, FS_RemoveElement
<1>3. 1 \in A <=> 1 \in H
  OBVIOUS
<1>4. f \in Bijection(B, C)
  <2>1. \A j \in B : j \in 1..n /\ j+1 \in C
    OBVIOUS
  <2>2. \A k \in C : k \in 2..(n+1) /\ k-1 \in B /\ (k-1)+1 = k
    <3> SUFFICES ASSUME NEW k \in C PROVE k \in 2..(n+1) /\ k-1 \in B /\ (k-1)+1 = k
      OBVIOUS
    <3>1. k \in 2..(n+1) /\ k \in H
      OBVIOUS
    <3>2. k-1 \in 1..n /\ (k-1)+1 = k
      BY <3>1
    <3>3. k-1 \in K
      BY <3>1, <3>2
    <3> QED BY <3>1, <3>2, <3>3
  <2> HIDE DEF B, C
  <2>3. f \in [B -> C]
    BY <2>1
  <2>4. f \in Injection(B, C)
    <3>1. \A j, k \in B : f[j] = f[k] => j = k
      BY <2>1
    <3> HIDE DEF f
    <3> QED BY <2>3, <3>1 DEF Injection, IsInjective
  <2>5. f \in Surjection(B, C)
    <3>1. \A k \in C : f[k-1] = k
      BY <2>2
    <3>2. \A k \in C : \E j \in B : f[j] = k
      BY <2>2, <3>1
    <3> HIDE DEF f
    <3> QED BY <2>3, <3>2 DEF Surjection
  <2> QED BY <2>4, <2>5 DEF Bijection
<1>5. Cardinality(C) = Cardinality(B)
  <2> HIDE DEF f, B, C
  <2>1. ExistsBijection(B, C)
    BY <1>4 DEF ExistsBijection
  <2> QED BY <1>1, <2>1, FS_Bijection
<1>6. Upto(K, n) = Cardinality(B) /\ Upto(H, n+1) = Cardinality(A)
  BY DEF Upto
<1> HIDE DEF A, B, C
<1> QED BY <1>1, <1>2, <1>3, <1>5, <1>6 DEF If

LEMMA FlowsType ==
  ASSUME NEW r \in Registers, NEW p \in Port
  PROVE  r.flows_local[p] \in Price /\ r.flows_local[p] \in Int
<1>1. r.flows_local[p] \in Price
  BY DEF Registers
<1> QED BY <1>1, P4Assumption DEF Price

(* The counts of a queue are numbers. *)
LEMMA CountsType ==
  ASSUME NEW q, NEW n \in Nat, NEW p
  PROVE  /\ Upto(Adds(q, p), n) \in Int
         /\ Upto(Moves(q, p), n) \in Int
         /\ Upto(Frees(q, p), n) \in Int
<1>1. \A H : Upto(H, n) \in Nat
  BY UptoType
<1>2. \A k \in Nat : k \in Int
  OBVIOUS
<1> QED BY <1>1, <1>2

LEMMA NetType ==
  ASSUME NEW r \in Registers, NEW q, NEW n \in Nat, NEW p \in Port
  PROVE  Net(r, q, n, p) \in Int
<1>1. r.flows_local[p] \in Int
  BY FlowsType
<1>2. /\ Upto(Adds(q, p), n) \in Int /\ Upto(Moves(q, p), n) \in Int
      /\ Upto(Frees(q, p), n) \in Int
  BY CountsType
<1> QED BY <1>1, <1>2 DEF Net

LEMMA NetAppend ==
  ASSUME NEW r \in Registers, NEW q \in Seq(Local), NEW u \in Local, NEW p \in Port
  PROVE  /\ \A n \in 0..Len(q) : Net(r, Append(q, u), n, p) = Net(r, q, n, p)
         /\ Net(r, Append(q, u), Len(q)+1, p)
              = Net(r, q, Len(q), p) + If(u.port1 = p) - If(u.port2 = p) - If(u.port3 = p)
<1> DEFINE L == Len(q)
           w == Append(q, u)
<1>1. L \in Nat /\ DOMAIN q = 1..L /\ DOMAIN w = 1..(L+1)
  OBVIOUS
<1>2. \A j \in 1..L : w[j] = q[j]
  OBVIOUS
<1>3. w[L+1] = u
  OBVIOUS
<1> HIDE DEF L, w
<1>4. \A j \in 1..L : j \in 1..(L+1)
  BY <1>1
<1>5. L+1 \in 1..(L+1)
  BY <1>1
<1>6. /\ \A j \in 1..L : j \in Adds(w, p) <=> j \in Adds(q, p)
      /\ \A j \in 1..L : j \in Moves(w, p) <=> j \in Moves(q, p)
      /\ \A j \in 1..L : j \in Frees(w, p) <=> j \in Frees(q, p)
  BY <1>1, <1>2, <1>4 DEF Adds, Moves, Frees
<1>7. /\ L+1 \in Adds(w, p) <=> u.port1 = p
      /\ L+1 \in Moves(w, p) <=> u.port2 = p
      /\ L+1 \in Frees(w, p) <=> u.port3 = p
  BY <1>1, <1>3, <1>5 DEF Adds, Moves, Frees
<1>8. /\ If(L+1 \in Adds(w, p)) = If(u.port1 = p)
      /\ If(L+1 \in Moves(w, p)) = If(u.port2 = p)
      /\ If(L+1 \in Frees(w, p)) = If(u.port3 = p)
  BY <1>7 DEF If
<1>9. \A H, K : (\A j \in 1..L : j \in K <=> j \in H) =>
        /\ \A n \in 0..L : Upto(K, n) = Upto(H, n)
        /\ Upto(K, L+1) = Upto(H, L) + If(L+1 \in K)
  BY <1>1, UptoExtend
<1>10. ASSUME NEW n \in 0..L
       PROVE  /\ Upto(Adds(w, p), n) = Upto(Adds(q, p), n)
              /\ Upto(Moves(w, p), n) = Upto(Moves(q, p), n)
              /\ Upto(Frees(w, p), n) = Upto(Frees(q, p), n)
  <2>1. Upto(Adds(w, p), n) = Upto(Adds(q, p), n)
    BY <1>6, <1>9, Zenon
  <2>2. Upto(Moves(w, p), n) = Upto(Moves(q, p), n)
    BY <1>6, <1>9, Zenon
  <2>3. Upto(Frees(w, p), n) = Upto(Frees(q, p), n)
    BY <1>6, <1>9, Zenon
  <2> QED BY <2>1, <2>2, <2>3
<1>11. /\ Upto(Adds(w, p), L+1) = Upto(Adds(q, p), L) + If(u.port1 = p)
       /\ Upto(Moves(w, p), L+1) = Upto(Moves(q, p), L) + If(u.port2 = p)
       /\ Upto(Frees(w, p), L+1) = Upto(Frees(q, p), L) + If(u.port3 = p)
  BY <1>6, <1>8, <1>9
<1>12. \A n \in 0..L : Net(r, w, n, p) = Net(r, q, n, p)
  BY <1>10 DEF Net
<1>13. Net(r, w, L+1, p) = Net(r, q, L, p) + If(u.port1 = p) - If(u.port2 = p) - If(u.port3 = p)
  <2>1. /\ Upto(Adds(q, p), L) \in Int /\ Upto(Moves(q, p), L) \in Int
        /\ Upto(Frees(q, p), L) \in Int /\ r.flows_local[p] \in Int
    BY <1>1, CountsType, FlowsType
  <2>2. \A b : If(b) \in Int
    BY DEF If
  <2>3. If(u.port1 = p) \in Int /\ If(u.port2 = p) \in Int /\ If(u.port3 = p) \in Int
    BY <2>2
  <2>4. Net(r, w, L+1, p) = r.flows_local[p] + (Upto(Adds(q, p), L) + If(u.port1 = p))
                              - (Upto(Moves(q, p), L) + If(u.port2 = p))
                              - (Upto(Frees(q, p), L) + If(u.port3 = p))
    BY <1>11 DEF Net
  <2>5. Net(r, q, L, p) = r.flows_local[p] + Upto(Adds(q, p), L)
                              - Upto(Moves(q, p), L) - Upto(Frees(q, p), L)
    BY DEF Net
  <2> DEFINE x == If(u.port1 = p)
             y == If(u.port2 = p)
             z == If(u.port3 = p)
  <2>6. x \in Int /\ y \in Int /\ z \in Int
    BY <2>3
  <2>7. Net(r, w, L+1, p) = r.flows_local[p] + (Upto(Adds(q, p), L) + x)
                              - (Upto(Moves(q, p), L) + y) - (Upto(Frees(q, p), L) + z)
    BY <2>4
  <2>8. Net(r, w, L+1, p) = Net(r, q, L, p) + x - y - z
    <3> HIDE DEF x, y, z
    <3> QED BY <2>1, <2>5, <2>6, <2>7
  <2> QED BY <2>8
<1> QED BY <1>12, <1>13 DEF w, L

(* Applying the first local update: the counter may wrap, and does not if  *)
(* the net count is in its range.                                          *)
LEMMA NetLocal ==
  ASSUME NEW r \in Registers, NEW q \in Seq(Local), q # <<>>, NEW p \in Port
  PROVE  LET a == AfterLocal(r, Head(q)) IN
         \E c \in {0, PriceCount, -PriceCount} :
           /\ Net(r, q, 1, p) \in Price => c = 0
           /\ a.flows_local[p] = Net(r, q, 1, p) + c
           /\ \A n \in 0..(Len(q)-1) : Net(a, Tail(q), n, p) = Net(r, q, n+1, p) + c
<1> DEFINE u == Head(q)
           w == Tail(q)
           a == AfterLocal(r, u)
<1>1. /\ u \in Local /\ w \in Seq(Local) /\ u = q[1]
      /\ Len(q) \in Nat \ {0} /\ DOMAIN q = 1..Len(q) /\ DOMAIN w = 1..(Len(q)-1)
      /\ \A j \in 1..(Len(q)-1) : w[j] = q[j+1]
  OBVIOUS
<1>2. a \in Registers
  BY <1>1, LocalType
<1>3. /\ 1 \in Adds(q, p) <=> u.port1 = p
      /\ 1 \in Moves(q, p) <=> u.port2 = p
      /\ 1 \in Frees(q, p) <=> u.port3 = p
  BY <1>1 DEF Adds, Moves, Frees
<1> HIDE DEF u, w
<1>4. /\ \A j \in 1..(Len(q)-1) : j \in Adds(w, p) <=> j+1 \in Adds(q, p)
      /\ \A j \in 1..(Len(q)-1) : j \in Moves(w, p) <=> j+1 \in Moves(q, p)
      /\ \A j \in 1..(Len(q)-1) : j \in Frees(w, p) <=> j+1 \in Frees(q, p)
  <2>1. \A j \in 1..(Len(q)-1) : j+1 \in 1..Len(q)
    BY <1>1
  <2> QED BY <1>1, <2>1 DEF Adds, Moves, Frees
<1>5. ASSUME NEW n \in 0..(Len(q)-1)
      PROVE  /\ Upto(Adds(w, p), n) + If(u.port1 = p) = Upto(Adds(q, p), n+1)
             /\ Upto(Moves(w, p), n) + If(u.port2 = p) = Upto(Moves(q, p), n+1)
             /\ Upto(Frees(w, p), n) + If(u.port3 = p) = Upto(Frees(q, p), n+1)
  <2>1. n \in Nat /\ \A j \in 1..n : j \in 1..(Len(q)-1)
    BY <1>1
  <2>2. Upto(Adds(w, p), n) + If(1 \in Adds(q, p)) = Upto(Adds(q, p), n+1)
    BY <1>4, <2>1, UptoShift
  <2>3. Upto(Moves(w, p), n) + If(1 \in Moves(q, p)) = Upto(Moves(q, p), n+1)
    BY <1>4, <2>1, UptoShift
  <2>4. Upto(Frees(w, p), n) + If(1 \in Frees(q, p)) = Upto(Frees(q, p), n+1)
    BY <1>4, <2>1, UptoShift
  <2> QED BY <1>3, <2>2, <2>3, <2>4 DEF If
<1>6. \A H : Upto(H, 0) = 0
  <2>1. \A H : H \cap (1..0) = {}
    OBVIOUS
  <2> QED BY <2>1, FS_EmptySet DEF Upto
<1>7. \A n \in Nat : /\ Upto(Adds(w, p), n) \in Int /\ Upto(Moves(w, p), n) \in Int
                     /\ Upto(Frees(w, p), n) \in Int /\ r.flows_local[p] \in Int
  BY CountsType, FlowsType
<1>8. If(u.port1 = p) \in Int /\ If(u.port2 = p) \in Int /\ If(u.port3 = p) \in Int
  BY DEF If
<1>9. r.flows_local[p] + If(u.port1 = p) - If(u.port2 = p) - If(u.port3 = p) = Net(r, q, 1, p)
  <2>1. 0 \in 0..(Len(q)-1) /\ 0+1 = 1
    BY <1>1
  <2>2. If(u.port1 = p) = Upto(Adds(q, p), 1) /\ If(u.port2 = p) = Upto(Moves(q, p), 1)
        /\ If(u.port3 = p) = Upto(Frees(q, p), 1)
    <3>1. /\ Upto(Adds(w, p), 0) + If(u.port1 = p) = Upto(Adds(q, p), 1)
          /\ Upto(Moves(w, p), 0) + If(u.port2 = p) = Upto(Moves(q, p), 1)
          /\ Upto(Frees(w, p), 0) + If(u.port3 = p) = Upto(Frees(q, p), 1)
      BY <1>5, <2>1
    <3>2. Upto(Adds(w, p), 0) = 0 /\ Upto(Moves(w, p), 0) = 0 /\ Upto(Frees(w, p), 0) = 0
      BY <1>6
    <3> QED BY <1>8, <3>1, <3>2
  <2> QED BY <2>2 DEF Net
<1>10. \E c \in {0, PriceCount, -PriceCount} :
         /\ Net(r, q, 1, p) \in Price => c = 0
         /\ a.flows_local[p] = Net(r, q, 1, p) + c
  <2>1. a.flows_local[p] =
          (r.flows_local[p] + If(u.port1 = p) - If(u.port2 = p) - If(u.port3 = p)) % PriceCount
    BY DEF AfterLocal, Registers
  <2>2. Net(r, q, 1, p) \in -2 .. PriceCount
    <3> DEFINE x == If(u.port1 = p)
               y == If(u.port2 = p)
               z == If(u.port3 = p)
               f == r.flows_local[p]
    <3>1. x \in {0, 1} /\ y \in {0, 1} /\ z \in {0, 1}
      BY DEF If
    <3>2. f \in Price
      BY FlowsType
    <3>3. Net(r, q, 1, p) = f + x - y - z
      BY <1>9
    <3> HIDE DEF x, y, z, f
    <3> QED BY <3>1, <3>2, <3>3, P4Assumption DEF Price
  <2> DEFINE N == Net(r, q, 1, p)
             M == a.flows_local[p]
  <2>3. N \in -2 .. PriceCount /\ M = N % PriceCount
    BY <1>9, <2>1, <2>2
  <2> HIDE DEF N, M
  <2>4. /\ N \in Price => M = N
        /\ M \in {N, N + PriceCount, N - PriceCount}
    BY <2>3, ModNear
  <2>5. \E c \in {0, PriceCount, -PriceCount} : (N \in Price => c = 0) /\ M = N + c
    <3>1. N \in Int /\ PriceCount \in Int
      BY <2>3, P4Assumption
    <3>2. CASE M = N
      BY <3>1, <3>2
    <3>3. CASE M # N
      <4>1. N \notin Price
        BY <2>4, <3>3
      <4> QED BY <2>4, <3>1, <3>3, <4>1
    <3> QED BY <3>2, <3>3
  <2> QED BY <2>5 DEF N, M
<1>11. PICK c \in {0, PriceCount, -PriceCount} :
         /\ Net(r, q, 1, p) \in Price => c = 0
         /\ a.flows_local[p] = Net(r, q, 1, p) + c
  BY <1>10
<1>12. ASSUME NEW n \in 0..(Len(q)-1) PROVE Net(a, w, n, p) = Net(r, q, n+1, p) + c
  <2>0. c \in Int
    BY P4Assumption
  <2>1. n \in Nat
    BY <1>1
  <2>2. Net(a, w, n, p) = (r.flows_local[p] + If(u.port1 = p) - If(u.port2 = p) - If(u.port3 = p) + c)
                            + Upto(Adds(w, p), n) - Upto(Moves(w, p), n) - Upto(Frees(w, p), n)
    BY <1>9, <1>11 DEF Net
  <2>3. Net(r, q, n+1, p) = r.flows_local[p] + (Upto(Adds(w, p), n) + If(u.port1 = p))
                                - (Upto(Moves(w, p), n) + If(u.port2 = p))
                                - (Upto(Frees(w, p), n) + If(u.port3 = p))
    BY <1>5 DEF Net
  <2>4. /\ Upto(Adds(w, p), n) \in Int /\ Upto(Moves(w, p), n) \in Int
        /\ Upto(Frees(w, p), n) \in Int /\ r.flows_local[p] \in Int
    BY <1>7, <2>1
  <2> DEFINE x == If(u.port1 = p)
             y == If(u.port2 = p)
             z == If(u.port3 = p)
  <2>5. x \in Int /\ y \in Int /\ z \in Int
    BY <1>8
  <2>6. /\ Net(a, w, n, p) = (r.flows_local[p] + x - y - z + c)
                            + Upto(Adds(w, p), n) - Upto(Moves(w, p), n) - Upto(Frees(w, p), n)
        /\ Net(r, q, n+1, p) = r.flows_local[p] + (Upto(Adds(w, p), n) + x)
                                - (Upto(Moves(w, p), n) + y) - (Upto(Frees(w, p), n) + z)
    BY <2>2, <2>3
  <2> HIDE DEF x, y, z
  <2> DEFINE added  == Upto(Adds(w, p), n)
             moved  == Upto(Moves(w, p), n)
             freed  == Upto(Frees(w, p), n)
             flows  == r.flows_local[p]
             after  == Net(a, w, n, p)
             before == Net(r, q, n+1, p)
  <2>7. /\ after = (flows + x - y - z + c) + added - moved - freed
        /\ before = flows + (added + x) - (moved + y) - (freed + z)
    BY <2>6
  <2>8. added \in Int /\ moved \in Int /\ freed \in Int /\ flows \in Int
    BY <2>4
  <2> HIDE DEF a, added, moved, freed, flows, after, before
  <2>9. after = before + c
    BY <2>0, <2>5, <2>7, <2>8, SMTT(30)
  <2> QED BY <2>9 DEF after, before
<1> QED BY <1>11, <1>12 DEF u, w

(* Charge is the net count of the whole queue. *)
LEMMA ChargeIsNet ==
  ASSUME TypeOK, NEW p \in Port
  PROVE  Charge(p) = Net(reg, recirc, Len(recirc), p)
<1>1. DOMAIN recirc = 1..Len(recirc)
  BY DEF TypeOK
<1>2. /\ Adds(recirc, p) \cap (1..Len(recirc)) = Adds(recirc, p)
      /\ Moves(recirc, p) \cap (1..Len(recirc)) = Moves(recirc, p)
      /\ Frees(recirc, p) \cap (1..Len(recirc)) = Frees(recirc, p)
  BY <1>1 DEF Adds, Moves, Frees
<1>3. /\ Upto(Adds(recirc, p), Len(recirc)) = Cardinality(Adds(recirc, p))
      /\ Upto(Moves(recirc, p), Len(recirc)) = Cardinality(Moves(recirc, p))
      /\ Upto(Frees(recirc, p), Len(recirc)) = Cardinality(Frees(recirc, p))
  BY <1>2 DEF Upto
<1>4. Charge(p) = reg.flows_local[p] + Cardinality(Adds(recirc, p))
                    - Cardinality(Moves(recirc, p)) - Cardinality(Frees(recirc, p))
  BY DEF Charge, Count, Adds, Moves, Frees
<1> QED BY <1>3, <1>4 DEF Net

LEMMA EntriesOfType ==
  ASSUME NEW t, NEW p
  PROVE  /\ IsFiniteSet({ x \in Table \X Slot : t[x].port = p })
         /\ EntriesOf(t, p) \in Nat
<1>1. IsFiniteSet(Table) /\ IsFiniteSet(Slot)
  <2>1. Table = 1..2
    BY DEF Table
  <2>2. IsFiniteSet(1..2)
    <3>1. 1 \in Int /\ 2 \in Int
      OBVIOUS
    <3> QED BY <3>1, FS_Interval, Zenon
  <2>3. 0 \in Int /\ TableSize-1 \in Int
    BY P4Assumption
  <2>4. IsFiniteSet(0..(TableSize-1))
    BY <2>3, FS_Interval
  <2> QED BY <2>1, <2>2, <2>4 DEF Slot
<1>2. IsFiniteSet(Table \X Slot)
  BY <1>1, FS_Product
<1> DEFINE S == { x \in Table \X Slot : t[x].port = p }
<1>3. S \in SUBSET (Table \X Slot)
  OBVIOUS
<1>4. EntriesOf(t, p) = Cardinality(S)
  BY DEF EntriesOf
<1> HIDE DEF S
<1>5. IsFiniteSet(S)
  BY <1>2, <1>3, FS_Subset
<1>6. Cardinality(S) \in Nat
  BY <1>5, FS_CardinalityType
<1> QED BY <1>4, <1>5, <1>6 DEF S

Places == Table \X Slot

(* If table 1 is free, table 2 bounds the entries of a port. *)
LEMMA EntriesBound ==
  ASSUME NEW t, \A i \in Slot : t[<<1, i>>].port = NoPort, NEW p \in Port
  PROVE  EntriesOf(t, p) \in 0..TableSize
<1> DEFINE S == { x \in Table \X Slot : t[x].port = p }
<1>1. S \in SUBSET ({2} \X Slot)
  <2>1. p # NoPort
    BY DEF Port, NoPort
  <2> QED BY <2>1 DEF Table
<1>2. IsFiniteSet(Slot) /\ Cardinality(Slot) = TableSize
  <2>1. 0 \in Int /\ TableSize-1 \in Int /\ ~ (0 > TableSize-1) /\ (TableSize-1) - 0 + 1 = TableSize
    BY P4Assumption
  <2> HIDE DEF S
  <2> QED BY <2>1, FS_Interval DEF Slot
<1>3. IsFiniteSet({2}) /\ Cardinality({2}) = 1
  BY FS_Singleton
<1>4. IsFiniteSet({2} \X Slot) /\ Cardinality({2} \X Slot) = TableSize
  <2>1. IsFiniteSet({2} \X Slot) /\ Cardinality({2} \X Slot) = 1 * TableSize
    BY <1>2, <1>3, FS_Product
  <2> QED BY <2>1, P4Assumption
<1>5. EntriesOf(t, p) = Cardinality(S) /\ EntriesOf(t, p) \in Nat
  BY EntriesOfType DEF EntriesOf
<1> HIDE DEF S
<1>6. Cardinality(S) <= TableSize
  BY <1>1, <1>4, FS_Subset
<1> QED BY <1>5, <1>6, P4Assumption

(* Two tables that differ in one entry. *)
LEMMA EntriesChange ==
  ASSUME NEW t, NEW w, NEW y \in Places, NEW p,
         \A x \in Places : x # y => w[x].port = t[x].port
  PROVE  EntriesOf(w, p) = EntriesOf(t, p) + If(w[y].port = p) - If(t[y].port = p)
<1> DEFINE A == { x \in Places : t[x].port = p }
           B == { x \in Places : w[x].port = p }
<1>1. IsFiniteSet(A) /\ Cardinality(A) \in Nat /\ Cardinality(A) = EntriesOf(t, p)
      /\ Cardinality(B) = EntriesOf(w, p)
  <2>1. IsFiniteSet(A) /\ EntriesOf(t, p) \in Nat
    BY EntriesOfType DEF Places
  <2>2. Cardinality(A) = EntriesOf(t, p) /\ Cardinality(B) = EntriesOf(w, p)
    BY DEF EntriesOf, Places
  <2> QED BY <2>1, <2>2
<1>2. /\ y \in A <=> t[y].port = p
      /\ y \in B <=> w[y].port = p
      /\ \A x : x # y => (x \in A <=> x \in B)
  OBVIOUS
<1> HIDE DEF A, B
<1>3. CASE t[y].port = p /\ w[y].port = p
  <2>0. \A x : x \in A <=> x \in B
    BY <1>2, <1>3
  <2>1. A = B
    BY <2>0
  <2> QED BY <1>1, <1>3, <2>1 DEF If
<1>4. CASE t[y].port = p /\ w[y].port # p
  <2>1. B = A \ {y} /\ y \in A
    BY <1>2, <1>4
  <2>2. Cardinality(B) = Cardinality(A) - 1
    BY <1>1, <2>1, FS_RemoveElement
  <2> QED BY <1>1, <1>4, <2>2 DEF If
<1>5. CASE t[y].port # p /\ w[y].port = p
  <2>1. B = A \cup {y} /\ y \notin A
    BY <1>2, <1>5
  <2>2. Cardinality(B) = Cardinality(A) + 1
    BY <1>1, <2>1, FS_AddElement
  <2> QED BY <1>1, <1>5, <2>2 DEF If
<1>6. CASE t[y].port # p /\ w[y].port # p
  <2>1. A = B
    BY <1>2, <1>6
  <2> QED BY <1>1, <1>6, <2>1 DEF If
<1> QED BY <1>3, <1>4, <1>5, <1>6

(* The hash selects table 2. *)
LEMMA HomeInTable2 ==
  ASSUME NEW m \in DataMessage
  PROVE  HashTable(m) = 2 /\ Home(m) \in Table \X Slot /\ Home(m)[1] = 2 /\ Scanned(m) = {1}
<1>1. m.hash \in Nat /\ TableSize \in Nat \ {0} /\ ~ IsUpdate(m)
  BY P4Assumption DEF DataMessage, HashRange, IsUpdate
<1>2. FlowletHash(m) \in 0..TableSize-1
  BY <1>1 DEF FlowletHash
<1>3. \A a \in 0..TableSize-1 : a \div TableSize = 0
  BY <1>1
<1>4. HashTable(m) = 2
  BY <1>2, <1>3 DEF HashTable
<1> QED BY <1>1, <1>2, <1>4 DEF Home, Scanned, Table, Slot

(* The round robin finds expired entries in table 2 only, if table 1 is    *)
(* free, and frees the one it finds.                                       *)
LEMMA ScanCharge ==
  ASSUME NEW r \in Registers, \A i \in Slot : r.table[<<1, i>>].port = NoPort,
         NEW m \in DataMessage \cup Update
  PROVE  /\ Scan(r, m).flows_local = r.flows_local
         /\ \A i \in Slot : Scan(r, m).table[<<1, i>>].port = NoPort
         /\ m \in DataMessage => Scan(r, m).table = r.table /\ ScanPort(r, m) = NoPort
         /\ \A p \in Port : EntriesOf(Scan(r, m).table, p)
                              = EntriesOf(r.table, p) - If(ScanPort(r, m) = p)
<1> DEFINE tab == [x \in Table \X Slot |->
                    IF x[1] \in Scanned(m) /\ x[2] = NextPos(r, x[1]) /\ Expired(r, x[1])
                    THEN Free ELSE r.table[x]]
           y   == <<2, NextPos(r, 2)>>
<1>1. Scan(r, m).table = tab /\ Scan(r, m).flows_local = r.flows_local
  BY DEF Scan, Registers
<1>2. 1 \in Table /\ 2 \in Table /\ Scanned(m) \subseteq Table
      /\ \A t \in Table : t = 1 \/ t = 2
  BY DEF Table, Scanned
<1>3. ~ Expired(r, 1)
  BY <1>2, NextPosType DEF Expired
<1>4. \A i \in Slot : tab[<<1, i>>].port = NoPort
  <2>1. \A i \in Slot : <<1, i>> \in Table \X Slot
    BY <1>2
  <2> QED BY <1>2, <1>3, <2>1
<1>5. y \in Table \X Slot /\ \A x \in Table \X Slot : x # y => tab[x] = r.table[x]
  <2>1. y \in Table \X Slot
    BY <1>2, NextPosType
  <2>2. \A x \in Table \X Slot : (x[1] = 1 \/ x[1] = 2) /\ x = <<x[1], x[2]>>
    BY <1>2
  <2> QED BY <1>3, <2>1, <2>2
<1>6. CASE 2 \in Scanned(m) /\ Expired(r, 2)
  <2>1. ~ (m \in DataMessage)
    BY <1>6, HomeInTable2
  <2>2. tab[y].port = NoPort
    BY <1>5, <1>6 DEF Free
  <2>3. ScanPort(r, m) = r.table[y].port
    <3>1. \A t \in Scanned(m) : Expired(r, t) <=> t = 2
      BY <1>2, <1>3, <1>6
    <3>2. (CHOOSE t \in Scanned(m) :
             Expired(r, t) /\ \A o \in Scanned(m) : Expired(r, o) => o <= t) = 2
      BY <1>6, <3>1
    <3> QED BY <1>6, <3>2 DEF ScanPort
  <2>4. ASSUME NEW p \in Port
        PROVE  EntriesOf(tab, p) = EntriesOf(r.table, p) - If(ScanPort(r, m) = p)
    <3> DEFINE old == r.table
    <3>0. \A x \in Places : x # y => tab[x].port = old[x].port
      BY <1>5 DEF Places
    <3>a. y \in Places
      BY <1>5 DEF Places
    <3> HIDE DEF tab, y, old
    <3>b. EntriesOf(tab, p) = EntriesOf(old, p) + If(tab[y].port = p) - If(old[y].port = p)
      BY <3>0, <3>a, EntriesChange DEF If
    <3>1. EntriesOf(tab, p) = EntriesOf(r.table, p) + If(tab[y].port = p) - If(r.table[y].port = p)
      BY <3>b DEF old
    <3>2. If(tab[y].port = p) = 0
      BY <2>2 DEF If, Port, NoPort
    <3>3. EntriesOf(r.table, p) \in Int /\ If(r.table[y].port = p) \in Int
      <4>1. EntriesOf(r.table, p) \in Nat
        BY EntriesOfType
      <4> QED BY <4>1 DEF If
    <3> QED BY <2>3, <3>1, <3>2, <3>3
  <2> QED BY <1>1, <1>4, <2>1, <2>4
<1>7. CASE ~ (2 \in Scanned(m) /\ Expired(r, 2))
  <2>1. \A t \in Scanned(m) : ~ Expired(r, t)
    BY <1>2, <1>3, <1>7
  <2>2. ScanPort(r, m) = NoPort
    BY <2>1 DEF ScanPort
  <2>3. tab = r.table
    <3>1. r.table = [x \in Table \X Slot |-> r.table[x]]
      BY DEF Registers
    <3>2. \A x \in Table \X Slot : tab[x] = r.table[x]
      BY <2>1
    <3> QED BY <3>1, <3>2
  <2>4. \A p \in Port : If(ScanPort(r, m) = p) = 0
    BY <2>2 DEF If, Port, NoPort
  <2>5. ASSUME NEW p \in Port PROVE EntriesOf(r.table, p) - 0 = EntriesOf(r.table, p)
    <3>1. EntriesOf(r.table, p) \in Nat
      BY EntriesOfType
    <3> QED BY <3>1
  <2> QED BY <1>1, <1>4, <2>2, <2>3, <2>4, <2>5
<1> QED BY <1>6, <1>7

(* Looking up moves one entry of table 2 from its port to the best one, or *)
(* none.                                                                   *)
LEMMA LookUpCharge ==
  ASSUME NEW r \in Registers, NEW y \in Places, y[1] = 2, NEW alts,
         NEW best \in Port \cup {NoPort}
  PROVE  LET e     == r.table[y]
             taken == ~ Live(e) /\ e.port # best
             w     == LookUp(r, y, alts, best)
         IN  /\ w.flows_local = r.flows_local
             /\ \A i \in Slot : w.table[<<1, i>>] = r.table[<<1, i>>]
             /\ taken \/ \A p \in Port : EntriesOf(w.table, p) = EntriesOf(r.table, p)
             /\ taken => \A p \in Port : EntriesOf(w.table, p)
                           = EntriesOf(r.table, p) + If(best = p) - If(e.port = p)
<1> DEFINE e     == r.table[y]
           taken == ~ Live(e) /\ e.port # best
           w     == LookUp(r, y, alts, best)
           old   == r.table
           new   == w.table
           n     == [port |-> IF Live(e) THEN e.port ELSE best, age |-> 0]
<1>0. old \in [Places -> Entry]
  BY DEF Registers, Places
<1>1. /\ w.flows_local = r.flows_local
      /\ \A x \in Places : x # y => new[x] = old[x]
      /\ new[y].port = IF taken THEN best ELSE old[y].port
  <2>1. CASE Live(e) /\ e.port \notin alts
    BY <2>1 DEF LookUp
  <2>2. CASE ~ (Live(e) /\ e.port \notin alts)
    <3>1. w = [r EXCEPT !.table = [old EXCEPT ![y] = n]]
      BY <2>2 DEF LookUp
    <3>2. n.port = IF taken THEN best ELSE e.port
      OBVIOUS
    <3> HIDE DEF w, n, taken, old
    <3>3. w.table = [old EXCEPT ![y] = n] /\ w.flows_local = r.flows_local
      BY <3>1 DEF Registers
    <3> HIDE DEF e
    <3>4. \A x \in Places : new[x] = IF x = y THEN n ELSE old[x]
      BY <1>0, <3>3
    <3> QED BY <3>2, <3>3, <3>4 DEF e, old
  <2> QED BY <2>1, <2>2
<1>2. \A i \in Slot : new[<<1, i>>] = old[<<1, i>>]
  <2>1. \A i \in Slot : <<1, i>> \in Places /\ <<1, i>> # y
    BY DEF Places, Table
  <2> HIDE DEF new, old
  <2> QED BY <1>1, <2>1
<1>3. ASSUME NEW p \in Port
      PROVE  /\ taken \/ EntriesOf(new, p) = EntriesOf(old, p)
             /\ taken => EntriesOf(new, p) = EntriesOf(old, p) + If(best = p) - If(old[y].port = p)
  <2> HIDE DEF new, old, taken
  <2>1. EntriesOf(new, p) = EntriesOf(old, p) + If(new[y].port = p) - If(old[y].port = p)
    BY <1>1, EntriesChange DEF If
  <2>2. EntriesOf(old, p) \in Nat
    BY EntriesOfType
  <2>3. CASE taken
    BY <1>1, <2>1, <2>3 DEF If
  <2>4. CASE ~ taken
    <3>1. new[y].port = old[y].port
      BY <1>1, <2>4
    <3> QED BY <2>1, <2>2, <2>4, <3>1 DEF If
  <2> QED BY <2>3, <2>4
<1>4. w.flows_local = r.flows_local
  BY <1>1
<1> QED BY <1>2, <1>3, <1>4

LEMMA HeardFlows ==
  ASSUME NEW r \in Registers, NEW in, NEW m
  PROVE  Heard(r, in, m).flows_local = r.flows_local
BY DEF Heard, Registers

(* The outcome o of a run of the pipeline of switch s on registers r0:     *)
(* it leaves the counters, frees and takes entries of table 2 only, and    *)
(* its local update says what it did.  Only the release of an expired      *)
(* entry by a route update may be lost, where the switch has no group for  *)
(* updates about that destination.                                         *)
Accounts(r0, s, o) ==
  /\ o.reg.flows_local = r0.flows_local
  /\ \A j \in Slot : o.reg.table[<<1, j>>].port = NoPort
  /\ o.local \in Local
  /\ \A p \in Port : EntriesOf(o.reg.table, p) = EntriesOf(r0.table, p)
       + If(o.local.port1 = p) - If(o.local.port2 = p) - If(o.local.port3 = p)
  /\ Recirc \in DOMAIN o.sent => o.sent[Recirc] = o.local
  /\ Recirc \notin DOMAIN o.sent =>
       \/ o.local = NoLocal
       \/ /\ o.local.port1 = NoPort /\ o.local.port2 = NoPort
          /\ ~ \A d \in Dst : RecirculatesTo(s, d)

LEMMA PipelineCharge ==
  ASSUME NEW r0 \in Registers, \A i \in Slot : r0.table[<<1, i>>].port = NoPort,
         NEW s \in Switch, NEW in, NEW m \in DataMessage \cup Update,
         m \in DataMessage => m.to # s, NEW i \in Dst
  PROVE  Accounts(r0, s, Outcome(r0, s, in, m, i))
<1> DEFINE d       == About(m)
           r       == Heard(r0, in, m)
           alts    == AltPorts[s][d]
           best    == MinPort(r, alts, i)
           u       == LocalUpdate(r, m, alts, best)
           send    == SendPort(r, m, alts, best)
           price   == MinPrice(r, m, i, best, u)
           changed == Changed(r, d, price)
           ports   == { p \in Ports(s, m, send, GroupOffset[s][d] + send, changed, u) :
                          p # NoPort /\ (p = Recirc => u # NoLocal) }
           scanned == Scan(r, m)
           looked  == IF IsUpdate(m) THEN scanned ELSE LookUp(scanned, Home(m), alts, best)
           o       == Outcome(r0, s, in, m, i)
<1>1. (IsUpdate(m) <=> m \in Update) /\ (~ IsUpdate(m) <=> m \in DataMessage)
  BY DEF IsUpdate, Update, DataMessage
<1>2. d \in Dst /\ (~ IsUpdate(m) => d # s)
  BY <1>1 DEF About, Update, DataMessage
<1>3. r \in Registers /\ r.table = r0.table /\ r.flows_local = r0.flows_local
  BY <1>1, HeardType, HeardFlows
<1>4. alts \in SUBSET Port
  BY <1>2, P4Assumption
<1> HIDE DEF r
<1>5. best \in Port \cup {NoPort} /\ best \in alts \cup {NoPort} /\ (alts # {} => best \in alts)
  <2>1. best \in Port \cup {NoPort} /\ best \in alts \cup {NoPort}
    <3> HIDE DEF alts
    <3> QED BY <1>3, <1>4, MinPortType
  <2>2. NoPort \notin Port
    BY DEF NoPort, Port
  <2>3. alts # {} => best \in alts
    <3> DEFINE f == [p \in Port |-> PricePort(r, p, i)]
    <3>1. f \in [Port -> Int]
      BY <1>3, PriceType DEF Price
    <3>2. ASSUME alts # {}
          PROVE  \E p \in alts : \A q \in alts : f[p] < f[q] \/ (f[p] = f[q] /\ p <= q)
      <4> HIDE DEF f, alts
      <4> QED BY <1>4, <3>1, <3>2, BestExists
    <3>3. ASSUME alts # {}
          PROVE  \E p \in alts : \A q \in alts :
                   \/ PricePort(r, p, i) < PricePort(r, q, i)
                   \/ PricePort(r, p, i) = PricePort(r, q, i) /\ p <= q
      <4> HIDE DEF alts
      <4> QED BY <1>4, <3>2, <3>3
    <3> HIDE DEF alts
    <3> QED BY <3>3 DEF MinPort
  <2> QED BY <2>1, <2>3
<1> HIDE DEF alts, best, d
<1>6. /\ scanned.flows_local = r.flows_local /\ scanned \in Registers
      /\ \A j \in Slot : scanned.table[<<1, j>>].port = NoPort
      /\ m \in DataMessage => scanned.table = r.table /\ ScanPort(r, m) = NoPort
      /\ \A p \in Port : EntriesOf(scanned.table, p) = EntriesOf(r.table, p) - If(ScanPort(r, m) = p)
      /\ ScanPort(r, m) \in Port \cup {NoPort}
  BY <1>3, ScanCharge, ScanType
<1> HIDE DEF scanned
<1>7. NoPort \notin Port
  BY DEF NoPort, Port
<1>8. /\ u \in Local
      /\ IsUpdate(m) => u.port1 = NoPort /\ u.port2 = NoPort
      /\ looked.flows_local = r.flows_local
      /\ \A j \in Slot : looked.table[<<1, j>>].port = NoPort
      /\ \A p \in Port : EntriesOf(looked.table, p) = EntriesOf(r.table, p)
                           + If(u.port1 = p) - If(u.port2 = p) - If(u.port3 = p)
  <2>1. CASE IsUpdate(m)
    <3>1. u = [port1 |-> NoPort, port2 |-> NoPort, port3 |-> ScanPort(r, m)]
      BY <2>1 DEF LocalUpdate
    <3>2. u \in Local /\ u.port1 = NoPort /\ u.port2 = NoPort /\ u.port3 = ScanPort(r, m)
      BY <1>6, <3>1 DEF Local
    <3>3. looked = scanned
      BY <2>1
    <3> HIDE DEF u, looked
    <3>4. ASSUME NEW p \in Port
          PROVE  EntriesOf(looked.table, p) = EntriesOf(r.table, p)
                   + If(u.port1 = p) - If(u.port2 = p) - If(u.port3 = p)
      <4>1. EntriesOf(r.table, p) \in Nat
        BY EntriesOfType
      <4>2. EntriesOf(scanned.table, p) = EntriesOf(r.table, p) - If(ScanPort(r, m) = p)
        BY <1>6
      <4> QED BY <1>7, <3>2, <3>3, <4>1, <4>2 DEF If
    <3> QED BY <1>6, <3>2, <3>3, <3>4
  <2>2. CASE ~ IsUpdate(m)
    <3> DEFINE y     == Home(m)
               e     == r.table[y]
               taken == ~ Live(e) /\ e.port # best
    <3>1. m \in DataMessage
      BY <1>1, <2>2
    <3>2. y \in Places /\ y[1] = 2
      BY <3>1, HomeInTable2 DEF Places
    <3>3. e.port \in Port \cup {NoPort}
      BY <1>3, <3>2 DEF Registers, Entry, Free, Places
    <3>4. scanned.table = r.table /\ ScanPort(r, m) = NoPort
      BY <1>6, <3>1
    <3>5. u = [ port1 |-> IF taken THEN best ELSE NoPort,
                port2 |-> IF taken THEN e.port ELSE NoPort,
                port3 |-> NoPort ]
      BY <2>2, <3>4 DEF LocalUpdate
    <3>6. looked = LookUp(scanned, y, alts, best)
      BY <2>2
    <3> HIDE DEF u, looked, y
    <3>7. /\ looked.flows_local = scanned.flows_local
          /\ \A j \in Slot : looked.table[<<1, j>>] = scanned.table[<<1, j>>]
          /\ taken \/ \A p \in Port : EntriesOf(looked.table, p) = EntriesOf(scanned.table, p)
          /\ taken => \A p \in Port : EntriesOf(looked.table, p)
                        = EntriesOf(scanned.table, p) + If(best = p) - If(e.port = p)
      BY <1>5, <1>6, <3>2, <3>4, <3>6, LookUpCharge
    <3> HIDE DEF taken, e
    <3>8. /\ u \in Local /\ u.port3 = NoPort
          /\ taken => u.port1 = best /\ u.port2 = e.port
          /\ ~ taken => u.port1 = NoPort /\ u.port2 = NoPort
      BY <1>5, <3>3, <3>5 DEF Local
    <3>9. ASSUME NEW p \in Port
          PROVE  EntriesOf(looked.table, p) = EntriesOf(r.table, p)
                   + If(u.port1 = p) - If(u.port2 = p) - If(u.port3 = p)
      <4>1. EntriesOf(r.table, p) \in Nat /\ NoPort # p
        BY <1>7, EntriesOfType
      <4>2. CASE taken
        <5>1. EntriesOf(looked.table, p) = EntriesOf(r.table, p) + If(best = p) - If(e.port = p)
          BY <3>4, <3>7, <4>2
        <5> QED BY <3>8, <4>1, <4>2, <5>1 DEF If
      <4>3. CASE ~ taken
        <5>1. EntriesOf(looked.table, p) = EntriesOf(r.table, p)
          BY <3>4, <3>7, <4>3
        <5> QED BY <3>8, <4>1, <4>3, <5>1 DEF If
      <4> QED BY <4>2, <4>3
    <3> QED BY <1>6, <2>2, <3>7, <3>8, <3>9
  <2> QED BY <2>1, <2>2
<1>9. send \in IF alts = {} THEN {NoPort} ELSE alts
  <2>1. best \in IF alts = {} THEN {NoPort} ELSE alts
    BY <1>5
  <2>2. send = best \/ send \in alts
    BY DEF SendPort
  <2> QED BY <2>1, <2>2
<1> HIDE DEF u, looked, send, price, changed
<1>10. ASSUME RecirculatesTo(s, d), u # NoLocal PROVE Recirc \in ports
  <2>1. GroupOffset[s][d] + send # 0 /\ Recirc \in Group[s][GroupOffset[s][d] + send]
    BY <1>9, <1>10 DEF RecirculatesTo, alts
  <2>2. Recirc \in Ports(s, m, send, GroupOffset[s][d] + send, changed, u)
    BY <1>10, <2>1 DEF Ports
  <2> QED BY <1>10, <2>2 DEF Recirc, NoPort
<1> HIDE DEF ports
<1>11. o = [ reg   |-> [looked EXCEPT !.advertized = [r.advertized EXCEPT ![d] = price]],
             local |-> u,
             sent  |-> [p \in ports |-> Copy(m, p, send, d, price, changed, u)] ]
  BY DEF Outcome, d, r, alts, best, u, send, price, changed, scanned, looked, ports
<1>12. o.local = u /\ (Recirc \in DOMAIN o.sent => o.sent[Recirc] = u)
  BY <1>11 DEF Copy
<1>13. Recirc \notin DOMAIN o.sent => Recirc \notin ports
  BY <1>11
<1>14. o.reg.table = looked.table /\ o.reg.flows_local = looked.flows_local
  <2>1. looked \in Registers
    <3>1. CASE IsUpdate(m)
      BY <1>6, <3>1 DEF looked
    <3>2. CASE ~ IsUpdate(m)
      <4>1. Home(m) \in Table \X Slot
        BY <1>1, <3>2, HomeType
      <4> QED BY <1>5, <1>6, <3>2, <4>1, LookUpType DEF looked
    <3> QED BY <3>1, <3>2
  <2> QED BY <1>11, <2>1 DEF Registers
<1> HIDE DEF o
<1>15. ASSUME Recirc \notin DOMAIN o.sent, u # NoLocal
       PROVE  u.port1 = NoPort /\ u.port2 = NoPort /\ ~ \A c \in Dst : RecirculatesTo(s, c)
  <2>1. ~ RecirculatesTo(s, d)
    BY <1>10, <1>13, <1>15
  <2>2. IsUpdate(m)
    BY <1>2, <2>1, RecirculationAssumption
  <2> QED BY <1>2, <1>8, <2>1, <2>2
<1> SUFFICES Accounts(r0, s, o)
  BY DEF o
<1>16. \A p \in Port : EntriesOf(o.reg.table, p) = EntriesOf(r0.table, p)
                         + If(u.port1 = p) - If(u.port2 = p) - If(u.port3 = p)
  BY <1>3, <1>8, <1>14
<1> QED BY <1>3, <1>8, <1>12, <1>14, <1>15, <1>16 DEF Accounts

----------------------------------------------------------------------------
(* Every step keeps the charges, and no counter wraps where nothing is     *)
(* lost.                                                                   *)
CountersRise ==
  Recirculates => \A p \in Port : reg'.flows_local[p] - reg.flows_local[p] \in -2..1

LEMMA LostInt ==
  ASSUME TypeOK, NEW p \in Port
  PROVE  lost[p] \in Price /\ lost[p] \in Int
BY P4Assumption DEF TypeOK, Price

LEMMA InitCharge == Init => ChargeInv
<1> SUFFICES ASSUME Init PROVE ChargeInv
  OBVIOUS
<1>1. TypeOK /\ reg = InitRegisters /\ recirc = <<>>
  BY InitType DEF Init
<1>2. \A x \in Table \X Slot : reg.table[x].port = NoPort
  BY <1>1 DEF InitRegisters, Free
<1>3. \A p \in Port : EntriesOf(reg.table, p) = 0
  <2>1. \A p \in Port : { x \in Table \X Slot : reg.table[x].port = p } = {}
    BY <1>2 DEF Port, NoPort
  <2> QED BY <2>1, FS_EmptySet DEF EntriesOf
<1>4. ASSUME NEW p \in Port, NEW n \in 0..Len(recirc) PROVE Net(reg, recirc, n, p) = 0
  <2>1. Adds(recirc, p) = {} /\ Moves(recirc, p) = {} /\ Frees(recirc, p) = {}
    BY <1>1 DEF Adds, Moves, Frees
  <2>2. Upto({}, n) = 0
    <3>1. {} \cap (1..n) = {}
      OBVIOUS
    <3> QED BY <3>1, FS_EmptySet DEF Upto
  <2>3. reg.flows_local[p] = 0
    BY <1>1 DEF InitRegisters
  <2> QED BY <2>1, <2>2, <2>3 DEF Net
<1>5. NetBounded
  <2>1. 0 \in 0..TableSize
    BY P4Assumption
  <2> QED BY <1>4, <2>1 DEF NetBounded
<1>6. TableCharged
  <2>1. Len(recirc) \in 0..Len(recirc)
    BY <1>1
  <2>2. \A p \in Port : lost[p] = 0
    BY DEF Init
  <2>3. 0 % PriceCount = 0
    <3>1. 0 \in -2 .. PriceCount /\ 0 \in Price
      BY P4Assumption DEF Price
    <3> QED BY <3>1, ModNear
  <2>4. \A p \in Port : Surplus(p) = 0
    BY <1>3, <1>4, <2>1, <2>2 DEF Surplus
  <2> QED BY <1>3, <1>4, <2>1, <2>3, <2>4 DEF TableCharged
<1>7. Table1Free
  BY <1>2 DEF Table1Free, Table
<1> QED BY <1>1, <1>5, <1>6, <1>7 DEF ChargeInv

(* The surplus of a port changes by multiples of PriceCount only. *)
LEMMA SurplusStep ==
  ASSUME TypeOK, TypeOK', NEW p \in Port, Surplus(p) % PriceCount = 0,
         Surplus(p)' \in {Surplus(p), Surplus(p) + PriceCount, Surplus(p) - PriceCount}
  PROVE  (Surplus(p) % PriceCount = 0)'
<1>1. Surplus(p) \in Int
  <2>1. Net(reg, recirc, Len(recirc), p) \in Int
    BY NetType DEF TypeOK
  <2>2. EntriesOf(reg.table, p) \in Nat
    BY EntriesOfType
  <2> QED BY <2>1, <2>2, LostInt DEF Surplus
<1> QED BY <1>1, ModStep

LEMMA ChargePipeline ==
  ASSUME ChargeInv, NEW in, NEW m \in DataMessage \cup Update,
         m \in DataMessage => m.to # sw, Pipeline(in, m)
  PROVE  ChargeInv' /\ CountersRise
<1>1. PICK i \in Dst : Runs(Outcome(reg, sw, in, m, i))
  BY PipelineRuns
<1> DEFINE o == Outcome(reg, sw, in, m, i)
           u == o.local
<1>2. Runs(o)
  BY <1>1
<1>3. Accounts(reg, sw, o)
  <2>1. reg \in Registers /\ sw \in Switch /\ \A j \in Slot : reg.table[<<1, j>>].port = NoPort
    BY DEF ChargeInv, TypeOK, Table1Free
  <2> QED BY <2>1, PipelineCharge
<1> HIDE DEF o
<1>4. /\ u \in Local
      /\ \A p \in Port : EntriesOf(reg'.table, p) = EntriesOf(reg.table, p)
                           + If(u.port1 = p) - If(u.port2 = p) - If(u.port3 = p)
      /\ Recirc \in DOMAIN o.sent => o.sent[Recirc] = u
      /\ Recirc \notin DOMAIN o.sent =>
           \/ u = NoLocal
           \/ u.port1 = NoPort /\ u.port2 = NoPort /\ ~ Recirculates
  BY <1>2, <1>3 DEF Runs, Accounts, Recirculates
<1>5. reg'.flows_local = reg.flows_local /\ Table1Free'
  BY <1>2, <1>3 DEF Runs, Accounts, Table1Free
<1>6. TypeOK' /\ TypeOK
  BY PipelineStep DEF ChargeInv
<1>7. /\ recirc \in Seq(Local) /\ Len(recirc) \in Nat /\ reg \in Registers /\ reg' \in Registers
      /\ PriceCount \in Int /\ TableSize \in Nat
  BY <1>6, P4Assumption DEF TypeOK
<1>8. CountersRise
  <2>1. \A p \in Port : reg.flows_local[p] \in Int
    BY <1>7, FlowsType
  <2> QED BY <1>5, <2>1 DEF CountersRise
<1>9. \A q, n, p : Net(reg', q, n, p) = Net(reg, q, n, p)
  BY <1>5 DEF Net
<1>10. ASSUME NEW p \in Port
       PROVE  /\ Net(reg, recirc, Len(recirc), p) \in Int
              /\ EntriesOf(reg.table, p) \in Int /\ EntriesOf(reg'.table, p) \in 0..TableSize
              /\ lost[p] \in Price /\ lost[p] \in Int
              /\ If(u.port1 = p) \in {0, 1} /\ If(u.port2 = p) \in {0, 1} /\ If(u.port3 = p) \in {0, 1}
  <2>1. Net(reg, recirc, Len(recirc), p) \in Int
    BY <1>7, NetType
  <2>2. EntriesOf(reg.table, p) \in Nat
    BY EntriesOfType
  <2>3. EntriesOf(reg'.table, p) \in 0..TableSize
    BY <1>5, EntriesBound DEF Table1Free
  <2> QED BY <1>6, <2>1, <2>2, <2>3, LostInt DEF If
<1>11. Recirculates' <=> Recirculates
  BY DEF Recirculates, Pipeline
<1>12. CASE Recirc \in DOMAIN o.sent
  <2>1. recirc' = Append(recirc, u) /\ Len(recirc') = Len(recirc) + 1 /\ lost' = lost
    <3>1. recirc' = Append(recirc, u) /\ lost' = lost
      BY <1>2, <1>4, <1>12 DEF Runs
    <3> QED BY <1>7, <3>1
  <2>2. ASSUME NEW p \in Port
        PROVE  /\ \A n \in 0..Len(recirc) : Net(reg', recirc', n, p) = Net(reg, recirc, n, p)
               /\ Net(reg', recirc', Len(recirc'), p)
                    = Net(reg, recirc, Len(recirc), p)
                        + If(u.port1 = p) - If(u.port2 = p) - If(u.port3 = p)
    <3> HIDE DEF u
    <3> QED BY <1>4, <1>7, <1>9, <2>1, NetAppend DEF If
  <2>3. TableCharged'
    <3> SUFFICES ASSUME NEW p \in Port
                 PROVE  /\ (Surplus(p) % PriceCount = 0)'
                        /\ Recirculates =>
                             Net(reg', recirc', Len(recirc'), p) = EntriesOf(reg'.table, p)
      BY <1>11 DEF TableCharged
    <3> DEFINE x == If(u.port1 = p)
               y == If(u.port2 = p)
               z == If(u.port3 = p)
    <3>1. Net(reg', recirc', Len(recirc'), p) = Net(reg, recirc, Len(recirc), p) + x - y - z
      BY <2>2
    <3>2. EntriesOf(reg'.table, p) = EntriesOf(reg.table, p) + x - y - z
      BY <1>4
    <3>3. /\ Surplus(p) % PriceCount = 0
          /\ Recirculates => Net(reg, recirc, Len(recirc), p) = EntriesOf(reg.table, p)
      BY DEF ChargeInv, TableCharged
    <3>4. x \in {0, 1} /\ y \in {0, 1} /\ z \in {0, 1}
      BY <1>10
    <3> HIDE DEF x, y, z
    <3>5. Surplus(p)' = Surplus(p)
      BY <1>10, <2>1, <3>1, <3>2, <3>4 DEF Surplus
    <3> QED BY <1>6, <1>10, <3>1, <3>2, <3>3, <3>4, <3>5, SurplusStep
  <2>4. NetBounded'
    <3> SUFFICES ASSUME Recirculates, NEW p \in Port, NEW n \in 0..Len(recirc')
                 PROVE  Net(reg', recirc', n, p) \in 0..TableSize
      BY <1>11 DEF NetBounded
    <3>1. CASE n \in 0..Len(recirc)
      <4>1. Net(reg, recirc, n, p) \in 0..TableSize
        BY <3>1 DEF ChargeInv, NetBounded
      <4> QED BY <2>2, <3>1, <4>1
    <3>2. CASE n = Len(recirc')
      <4>1. Net(reg', recirc', n, p) = EntriesOf(reg'.table, p)
        BY <1>11, <2>3, <3>2 DEF TableCharged
      <4> QED BY <1>10, <4>1
    <3>3. n \in 0..Len(recirc) \/ n = Len(recirc')
      BY <1>7, <2>1
    <3> QED BY <3>1, <3>2, <3>3
  <2> QED BY <1>5, <1>6, <1>8, <2>3, <2>4 DEF ChargeInv
<1>13. CASE Recirc \notin DOMAIN o.sent
  <2>1. /\ recirc' = recirc
        /\ lost' = [p \in Port |-> (lost[p] + If(u.port3 = p)) % PriceCount]
    BY <1>2, <1>13 DEF Runs
  <2>2. NetBounded'
    BY <1>9, <1>11, <2>1 DEF ChargeInv, NetBounded
  <2>3. ASSUME NEW p \in Port
        PROVE  /\ u.port1 # p /\ u.port2 # p
               /\ u.port3 = p => ~ Recirculates
    BY <1>4, <1>13 DEF NoLocal, NoPort, Port
  <2>4. TableCharged'
    <3> SUFFICES ASSUME NEW p \in Port
                 PROVE  /\ (Surplus(p) % PriceCount = 0)'
                        /\ Recirculates =>
                             Net(reg', recirc', Len(recirc'), p) = EntriesOf(reg'.table, p)
      BY <1>11 DEF TableCharged
    <3> DEFINE x == If(u.port1 = p)
               y == If(u.port2 = p)
               z == If(u.port3 = p)
               l == lost[p] + z
    <3>1. Net(reg', recirc', Len(recirc'), p) = Net(reg, recirc, Len(recirc), p)
      BY <1>9, <2>1
    <3>2. EntriesOf(reg'.table, p) = EntriesOf(reg.table, p) + x - y - z
      BY <1>4
    <3>3. /\ Surplus(p) % PriceCount = 0
          /\ Recirculates => Net(reg, recirc, Len(recirc), p) = EntriesOf(reg.table, p)
      BY DEF ChargeInv, TableCharged
    <3>4. x = 0 /\ y = 0 /\ z \in {0, 1} /\ (Recirculates => z = 0)
      BY <2>3 DEF If
    <3>5. lost'[p] = l % PriceCount
      BY <2>1
    <3> HIDE DEF x, y, z
    <3>6. l \in 0 .. PriceCount /\ l \in -2 .. PriceCount
      BY <1>7, <1>10, <3>4 DEF Price
    <3>7. lost'[p] \in {l, l - PriceCount}
      <4>1. CASE l \in Price
        BY <3>5, <3>6, <4>1, ModNear
      <4>2. CASE l \notin Price
        <5>1. l = PriceCount
          BY <1>7, <3>6, <4>2 DEF Price
        <5>2. l % PriceCount \in Price
          BY <1>7, <5>1, ModType
        <5>3. l % PriceCount \in {l, l + PriceCount, l - PriceCount}
          BY <3>6, ModNear
        <5> HIDE DEF l
        <5> QED BY <1>7, <3>5, <5>1, <5>2, <5>3, P4Assumption DEF Price
      <4> QED BY <4>1, <4>2
    <3>8. Surplus(p)' \in {Surplus(p), Surplus(p) + PriceCount}
      <4>1. Surplus(p)' = Net(reg, recirc, Len(recirc), p) - (EntriesOf(reg.table, p) - z) - lost'[p]
        BY <1>10, <3>1, <3>2, <3>4 DEF Surplus
      <4> DEFINE n == Net(reg, recirc, Len(recirc), p)
                 e == EntriesOf(reg.table, p)
      <4>2. /\ Surplus(p)' = n - (e - z) - lost'[p] /\ Surplus(p) = n - e - lost[p]
            /\ n \in Int /\ e \in Int /\ lost[p] \in Int
        BY <1>10, <4>1 DEF Surplus
      <4> HIDE DEF n, e
      <4> QED BY <1>7, <3>4, <3>7, <4>2
    <3> QED BY <1>6, <1>10, <3>1, <3>2, <3>3, <3>4, <3>8, SurplusStep
  <2> QED BY <1>5, <1>6, <1>8, <2>2, <2>4 DEF ChargeInv
<1> QED BY <1>12, <1>13

LEMMA ChargeLocal ==
  ASSUME ChargeInv, ReceiveLocal
  PROVE  ChargeInv' /\ CountersRise
<1>1. /\ recirc \in Seq(Local) /\ recirc # <<>> /\ reg \in Registers
      /\ Len(recirc) \in Nat \ {0}
      /\ reg' = AfterLocal(reg, Head(recirc)) /\ recirc' = Tail(recirc)
      /\ sw' = sw /\ lost' = lost
      /\ Head(recirc) \in Local /\ Tail(recirc) \in Seq(Local)
      /\ Len(recirc') = Len(recirc) - 1
  BY DEF ChargeInv, TypeOK, ReceiveLocal
<1>2. \A k \in 0..TableSize : k \in Price
  BY P4Assumption, CounterAssumption DEF Price
<1>3. reg' \in Registers /\ reg'.table = reg.table
  BY <1>1, LocalType
<1>4. TypeOK /\ TypeOK' /\ Table1Free'
  BY <1>1, <1>3 DEF ChargeInv, TypeOK, Table1Free
<1>5. Recirculates' <=> Recirculates
  BY <1>1 DEF Recirculates
<1>6. ASSUME NEW p \in Port
      PROVE  \E c \in {0, PriceCount, -PriceCount} :
               /\ Recirculates => c = 0
               /\ reg'.flows_local[p] = Net(reg, recirc, 1, p) + c
               /\ \A n \in 0..(Len(recirc)-1) : Net(reg', recirc', n, p) = Net(reg, recirc, n+1, p) + c
  <2>1. 1 \in 0..Len(recirc)
    BY <1>1
  <2>2. Recirculates => Net(reg, recirc, 1, p) \in Price
    BY <1>2, <2>1 DEF ChargeInv, NetBounded
  <2> QED BY <1>1, <2>2, NetLocal
<1>7. \A p \in Port, n \in Nat : Net(reg, recirc, n, p) \in Int
  BY <1>1, NetType
<1>8. NetBounded'
  <2> SUFFICES ASSUME Recirculates, NEW p \in Port, NEW n \in 0..(Len(recirc)-1)
               PROVE  Net(reg', recirc', n, p) \in 0..TableSize
    BY <1>1, <1>5 DEF NetBounded
  <2>1. n+1 \in 0..Len(recirc)
    BY <1>1
  <2>2. Net(reg', recirc', n, p) = Net(reg, recirc, n+1, p) + 0
    BY <1>6
  <2>3. Net(reg, recirc, n+1, p) \in 0..TableSize
    BY <2>1 DEF ChargeInv, NetBounded
  <2> QED BY <2>2, <2>3
<1>9. TableCharged'
  <2>1. Len(recirc)-1 \in 0..(Len(recirc)-1) /\ (Len(recirc)-1)+1 = Len(recirc)
    BY <1>1
  <2> SUFFICES ASSUME NEW p \in Port
               PROVE  /\ (Surplus(p) % PriceCount = 0)'
                      /\ Recirculates =>
                           Net(reg', recirc', Len(recirc'), p) = EntriesOf(reg'.table, p)
    BY <1>5 DEF TableCharged
  <2>2. PICK c \in {0, PriceCount, -PriceCount} :
          /\ Recirculates => c = 0
          /\ Net(reg', recirc', Len(recirc'), p) = Net(reg, recirc, Len(recirc), p) + c
    <3>1. PICK c \in {0, PriceCount, -PriceCount} :
            /\ Recirculates => c = 0
            /\ \A n \in 0..(Len(recirc)-1) :
                 Net(reg', recirc', n, p) = Net(reg, recirc, n+1, p) + c
      BY <1>6
    <3>2. Net(reg', recirc', Len(recirc'), p) = Net(reg, recirc, Len(recirc), p) + c
      BY <1>1, <2>1, <3>1
    <3> QED BY <3>1, <3>2
  <2>3. /\ Surplus(p) % PriceCount = 0
        /\ Recirculates => Net(reg, recirc, Len(recirc), p) = EntriesOf(reg.table, p)
    BY DEF ChargeInv, TableCharged
  <2>4. /\ Net(reg, recirc, Len(recirc), p) \in Int /\ lost[p] \in Int /\ PriceCount \in Int
        /\ EntriesOf(reg.table, p) \in Int
    <3>1. EntriesOf(reg.table, p) \in Nat
      BY EntriesOfType
    <3>2. Net(reg, recirc, Len(recirc), p) \in Int
      BY <1>1, <1>7
    <3> QED BY <1>4, <3>1, <3>2, LostInt, P4Assumption
  <2>5. EntriesOf(reg'.table, p) = EntriesOf(reg.table, p) /\ lost'[p] = lost[p]
    BY <1>1, <1>3
  <2>6. Surplus(p)' \in {Surplus(p), Surplus(p) + PriceCount, Surplus(p) - PriceCount}
    <3> DEFINE n == Net(reg, recirc, Len(recirc), p)
               e == EntriesOf(reg.table, p)
    <3>1. /\ Surplus(p)' = (n + c) - e - lost[p] /\ Surplus(p) = n - e - lost[p]
          /\ n \in Int /\ e \in Int /\ lost[p] \in Int
      BY <2>2, <2>4, <2>5 DEF Surplus
    <3> HIDE DEF n, e
    <3> QED BY <2>4, <3>1
  <2> QED BY <1>4, <2>2, <2>3, <2>4, <2>5, <2>6, SurplusStep
<1>10. CountersRise
  <2> SUFFICES ASSUME Recirculates, NEW p \in Port
               PROVE  reg'.flows_local[p] - reg.flows_local[p] \in -2..1
    BY DEF CountersRise
  <2>1. reg'.flows_local[p] = Net(reg, recirc, 1, p) + 0
    BY <1>6
  <2>2. Net(reg, recirc, 1, p) = reg.flows_local[p] + Upto(Adds(recirc, p), 1)
           - Upto(Moves(recirc, p), 1) - Upto(Frees(recirc, p), 1)
    BY DEF Net
  <2>3. \A H : Upto(H, 1) \in {0, 1}
    <3> SUFFICES ASSUME NEW H PROVE Upto(H, 1) \in {0, 1}
      OBVIOUS
    <3>1. H \cap (1..1) = {} \/ H \cap (1..1) = {1}
      OBVIOUS
    <3>2. Cardinality({1}) = 1 /\ Cardinality({}) = 0
      BY FS_EmptySet, FS_Singleton
    <3> QED BY <3>1, <3>2 DEF Upto
  <2>4. reg.flows_local[p] \in Int
    BY <1>1, FlowsType
  <2>5. /\ Upto(Adds(recirc, p), 1) \in {0, 1} /\ Upto(Moves(recirc, p), 1) \in {0, 1}
        /\ Upto(Frees(recirc, p), 1) \in {0, 1}
    BY <2>3
  <2> QED BY <2>1, <2>2, <2>4, <2>5
<1> QED BY <1>4, <1>8, <1>9, <1>10 DEF ChargeInv

(* The clock moves no entry. *)
LEMMA ChargeTick ==
  ASSUME ChargeInv, Tick
  PROVE  ChargeInv' /\ CountersRise
<1>1. reg \in Registers /\ reg' = Aged(reg) /\ recirc' = recirc /\ sw' = sw /\ lost' = lost
  BY DEF ChargeInv, TypeOK, Tick
<1>2. /\ reg' \in Registers
      /\ \A x \in Table \X Slot : reg'.table[x].port = reg.table[x].port
  BY <1>1, AgedType
<1>3. reg'.flows_local = reg.flows_local
  BY <1>1 DEF Aged, Registers
<1>4. \A p : EntriesOf(reg'.table, p) = EntriesOf(reg.table, p)
  <2>1. \A p : { x \in Table \X Slot : reg'.table[x].port = p }
                 = { x \in Table \X Slot : reg.table[x].port = p }
    BY <1>2
  <2> QED BY <2>1 DEF EntriesOf
<1>5. \A n, p : Net(reg', recirc', n, p) = Net(reg, recirc, n, p)
  BY <1>1, <1>3 DEF Net
<1>6. Table1Free'
  BY <1>2 DEF ChargeInv, Table1Free, Table
<1>7. TypeOK'
  BY <1>1, <1>2 DEF ChargeInv, TypeOK
<1>8. NetBounded'
  BY <1>1, <1>5 DEF ChargeInv, NetBounded, Recirculates
<1>9. TableCharged'
  <2>1. \A p : Surplus(p)' = Surplus(p)
    BY <1>1, <1>4, <1>5 DEF Surplus
  <2> QED BY <1>1, <1>4, <1>5, <2>1 DEF ChargeInv, TableCharged, Recirculates
<1>10. CountersRise
  BY <1>1, <1>3, FlowsType DEF CountersRise
<1> QED BY <1>6, <1>7, <1>8, <1>9, <1>10 DEF ChargeInv

LEMMA ChargeNext == ChargeInv /\ [Next]_vars => ChargeInv' /\ [CountersRise]_vars
<1> SUFFICES ASSUME ChargeInv, [Next]_vars PROVE ChargeInv' /\ [CountersRise]_vars
  OBVIOUS
<1>1. ASSUME NEW m \in Packet, ReceiveData(m) PROVE ChargeInv' /\ CountersRise
  <2>1. m \in DataMessage /\ m.to # sw /\ Pipeline(NoPort, m)
    BY <1>1, P4SwitchAssumption DEF ReceiveData, DataMessage
  <2> QED BY <2>1, ChargePipeline
<1>2. ASSUME NEW p \in Port, NEW d \in Dst, NEW x \in 0 .. MaxPrice,
             ReceiveUpdate(p, [dst |-> d, price |-> x])
      PROVE  ChargeInv' /\ CountersRise
  <2> DEFINE m == [dst |-> d, price |-> x]
  <2>1. m \in Update /\ m \notin DataMessage
    BY UpdateType DEF DataMessage
  <2>2. Pipeline(p, m)
    BY <1>2 DEF ReceiveUpdate
  <2> HIDE DEF m
  <2> QED BY <2>1, <2>2, ChargePipeline
<1>3. CASE ReceiveLocal
  BY <1>3, ChargeLocal
<1>4. CASE Tick
  BY <1>4, ChargeTick
<1>5. CASE UNCHANGED vars
  BY <1>5 DEF vars, ChargeInv, TypeOK, Table1Free, NetBounded, TableCharged, Surplus, Recirculates
<1> QED BY <1>1, <1>2, <1>3, <1>4, <1>5 DEF Next

THEOREM ChargeInvariance == Spec => []ChargeInv
BY InitCharge, ChargeNext, PTL DEF Spec

(* Once the local updates under way are applied, every entry of the flow   *)
(* tables is charged to its port.  A switch that copies every message to   *)
(* its recirculation port charges nothing else; at one that does not, a    *)
(* counter drifts by the releases that were lost, modulo its range.        *)
THEOREM ChargesMatchTableHolds == Spec => []ChargesMatchTable
<1>1. ChargeInv => ChargesMatchTable
  <2> SUFFICES ASSUME ChargeInv, NEW p \in Port
               PROVE  /\ (Charge(p) - Entries(p) - lost[p]) % PriceCount = 0
                      /\ Recirculates => Charge(p) = Entries(p)
    BY DEF ChargesMatchTable
  <2>1. Charge(p) = Net(reg, recirc, Len(recirc), p)
    BY ChargeIsNet DEF ChargeInv
  <2>2. Entries(p) = EntriesOf(reg.table, p)
    BY DEF Entries, EntriesOf
  <2> QED BY <2>1, <2>2 DEF ChargeInv, TableCharged, Surplus
<1> QED BY <1>1, ChargeInvariance, PTL

(* However local updates are delayed, at a switch that copies every        *)
(* message to its recirculation port the counter of a port goes neither    *)
(* from 0 to its highest value nor back, provided it can hold the entries  *)
(* of the one table that is used (CounterAssumption).                      *)
THEOREM NoWrapHolds == Spec => NoWrap
<1>1. Spec => [][CountersRise]_vars
  BY ChargeNext, ChargeInvariance, PTL DEF Spec
<1> QED BY <1>1 DEF NoWrap, CountersRise
=============================================================================
