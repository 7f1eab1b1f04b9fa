--------------------------- MODULE TimpNetworkProofs ---------------------------
(***************************************************************************)
(* Theorems about TimpNetwork, for every topology whose routes are acyclic *)
(* and every number of packets and losses.                                 *)
(***************************************************************************)
EXTENDS TimpNetwork, TimpRouterTheorems, SequenceTheorems

(* The messages link i may carry: updates against a route, and packets     *)
(* that come nearer to their target than all switches they left.           *)
GoodCost(i) ==
  { m \in [dst : Dst, price : Nat] : Wire[i][2] \in Range(Routes[Wire[i][1]][m.dst]) }

Nearer(d, v, seen) == \A w \in seen : Rank[d][v] < Rank[d][w]

GoodData(i) == { m \in Data : Nearer(Target[m.pkt], Wire[i][1], m.seen) }

GoodLinks(l) ==
  /\ DOMAIN l = Ifc /\ l = [i \in Ifc |-> l[i]]
  /\ \A i \in Ifc : l[i] \in Seq(GoodCost(i) \cup GoodData(i))

IInv ==
  /\ DOMAIN router = Switch /\ router = [u \in Switch |-> router[u]]
  /\ \A u \in Switch : RouterInv(router[u], Routes[u])
  /\ GoodLinks(link)
  /\ injected \subseteq Packet
  /\ losses \in 0 .. MaxLosses
  /\ lost \subseteq Packet

----------------------------------------------------------------------------
(* Ends of links are interfaces of switches. *)
LEMMA Topology ==
  \A i \in Ifc : /\ i = <<i[1], i[2]>> /\ i[1] \in Switch /\ i[2] \in Port
                 /\ Wire[i] \in Ifc /\ Wire[i][1] \in Switch /\ Wire[i][2] \in Port
                 /\ Wire[Wire[i]] = i
BY TopologyAssumption DEF Ifc

(* What previousPorts holds. *)
LEMMA UpstreamPorts ==
  ASSUME NEW u \in Switch, NEW d \in Dst, NEW q \in Upstream(u, d)
  PROVE  /\ q \in Port /\ <<u, q>> \in Ifc
         /\ Wire[<<u, q>>][2] \in Range(Routes[Wire[<<u, q>>][1]][d])
BY DEF Upstream, previousPorts

(* Updates and packets are told apart by their fields. *)
LEMMA Kinds ==
  ASSUME NEW i \in Ifc
  PROVE  /\ \A m \in GoodCost(i) : IsCost(m)
         /\ \A m \in GoodData(i) : ~ IsCost(m)
BY DEF GoodCost, GoodData, Data, IsCost

(* Sending the updates of a handler keeps the links good. *)
LEMMA UpdatesGood ==
  ASSUME NEW l, GoodLinks(l), NEW u \in Switch, NEW d \in Dst, NEW updates,
         Sendable(updates, d, Upstream(u, d))
  PROVE  GoodLinks(WithUpdates(l, u, updates))
<1> DEFINE k == WithUpdates(l, u, updates)
<1>1. DOMAIN k = Ifc /\ k = [i \in Ifc |-> k[i]]
  BY DEF WithUpdates
<1>2. ASSUME NEW i \in Ifc
      PROVE  k[i] \in Seq(GoodCost(i) \cup GoodData(i))
  <2>1. CASE \E m \in updates : i = <<u, m.port>>
    <3> DEFINE m == CHOOSE m \in updates : i = <<u, m.port>>
               c == [dst |-> m.dst, price |-> m.price]
    <3>1. m \in updates /\ i = <<u, m.port>>
      BY <2>1
    <3>2. k[i] = Append(l[i], c)
      BY <2>1 DEF WithUpdates
    <3> HIDE DEF m, k
    <3>3. m.port \in Upstream(u, d) /\ m.dst = d /\ m.price \in Nat
      BY <3>1 DEF Sendable
    <3>4. Wire[i][2] \in Range(Routes[Wire[i][1]][d])
      BY <3>1, <3>3, UpstreamPorts
    <3>5. c \in GoodCost(i)
      BY <3>3, <3>4 DEF GoodCost
    <3> HIDE DEF c
    <3> QED BY <3>2, <3>5 DEF GoodLinks
  <2>2. CASE ~ \E m \in updates : i = <<u, m.port>>
    <3>1. k[i] = l[i]
      BY <2>2 DEF WithUpdates
    <3> QED BY <3>1 DEF GoodLinks
  <2> QED BY <2>1, <2>2
<1> HIDE DEF k
<1>3. GoodLinks(k)
  BY <1>1, <1>2 DEF GoodLinks
<1> QED BY <1>3 DEF k

(* A longer alphabet. *)
LEMMA SeqOfSubset ==
  ASSUME NEW S, NEW T, S \subseteq T, NEW s \in Seq(S)
  PROVE  s \in Seq(T)
OBVIOUS

(* Every queued message is good. *)
LEMMA QueuedIsGood ==
  ASSUME GoodLinks(link), NEW i \in Ifc, NEW j \in DOMAIN link[i]
  PROVE  link[i][j] \in GoodCost(i) \cup GoodData(i)
<1> DEFINE G == GoodCost(i) \cup GoodData(i)
<1>1. link[i] \in Seq(G)
  BY DEF GoodLinks
<1> HIDE DEF G
<1>2. link[i][j] \in G
  BY <1>1
<1> QED BY <1>2 DEF G

(* Taking a message off a link. *)
LEMMA TakeGood ==
  ASSUME NEW i \in Ifc, GoodLinks(link), link[i] # <<>>
  PROVE  /\ Head(link[i]) \in GoodCost(i) \cup GoodData(i)
         /\ GoodLinks(Received(i))
<1>1. link[i] \in Seq(GoodCost(i) \cup GoodData(i))
  BY DEF GoodLinks
<1>2. Tail(link[i]) \in Seq(GoodCost(i) \cup GoodData(i))
  BY <1>1
<1>3. Head(link[i]) \in GoodCost(i) \cup GoodData(i)
  BY <1>1
<1>4. Received(i) = [j \in Ifc |-> IF j = i THEN Tail(link[i]) ELSE link[j]]
  BY DEF Received, GoodLinks
<1>5. GoodLinks(Received(i))
  BY <1>2, <1>4 DEF GoodLinks
<1> QED BY <1>3, <1>5

(* The state of one router changes. *)
LEMMA RouterBecomes ==
  ASSUME IInv, NEW u \in Switch, NEW s, RouterInv(s, Routes[u]),
         router' = [router EXCEPT ![u] = s]
  PROVE  /\ DOMAIN router' = Switch /\ router' = [v \in Switch |-> router'[v]]
         /\ \A v \in Switch : RouterInv(router'[v], Routes[v])
BY DEF IInv

(* The tables of routes are rows as the lemmas on routers want them. *)
LEMMA RoutesAreRows == \A u \in Switch : Routes[u] \in Rows
BY RoutesAssumption DEF Rows

----------------------------------------------------------------------------
(* Forwarding a packet that is nearer than all switches it left. *)
LEMMA ForwardInv ==
  ASSUME IInv, NEW u \in Switch, NEW k \in Packet, NEW seen \in SUBSET Switch, NEW l,
         GoodLinks(l), Nearer(Target[k], u, seen), Forward(u, k, seen, l)
  PROVE  /\ DOMAIN router' = Switch /\ router' = [v \in Switch |-> router'[v]]
         /\ \A v \in Switch : RouterInv(router'[v], Routes[v])
         /\ GoodLinks(link')
<1> DEFINE d == Target[k]
           e == <<d, SlotOf[k]>>
<1>1. d \in Dst /\ e \in Entry /\ e[1] = d
  BY PacketAssumption DEF Entry
<1>2. PICK o \in Lookup(router[u], e, Routes[u][d], Upstream(u, d)) :
        /\ router' = [router EXCEPT ![u] = o.router]
        /\ link' = [WithUpdates(l, u, o.updates) EXCEPT
                      ![<<u, o.port>>] = Append(@, [pkt |-> k, seen |-> seen \cup {u}])]
  BY DEF Forward
<1> HIDE DEF e
<1>3. /\ RouterInv(o.router, Routes[u])
      /\ o.port \in Range(Routes[u][d])
      /\ Sendable(o.updates, d, Upstream(u, d))
  BY <1>1, <1>2, RoutesAreRows, LookupInv DEF IInv
<1>4. GoodLinks(WithUpdates(l, u, o.updates))
  BY <1>1, <1>3, UpdatesGood
<1> DEFINE i == <<u, o.port>>
           x == [pkt |-> k, seen |-> seen \cup {u}]
           m == WithUpdates(l, u, o.updates)
<1>5. i \in Ifc /\ Rank[d][Wire[i][1]] < Rank[d][u]
  BY <1>1, <1>3, RoutesAssumption
<1>6. x \in GoodData(i)
  <2>1. x \in Data /\ x.pkt = k /\ x.seen = seen \cup {u}
    BY DEF Data
  <2>2. \A w \in Switch : Rank[d][w] \in Nat
    BY <1>1, RoutesAssumption
  <2>3. Wire[i][1] \in Switch
    BY <1>5, Topology
  <2> HIDE DEF i, x
  <2>4. \A w \in seen \cup {u} : Rank[d][Wire[i][1]] < Rank[d][w]
    BY <1>5, <2>2, <2>3 DEF Nearer
  <2> QED BY <2>1, <2>4 DEF GoodData, Nearer
<1> HIDE DEF m, x, i
<1>7. link' = [m EXCEPT ![i] = Append(@, x)]
  BY <1>2 DEF m, x, i
<1>8. link' = [j \in Ifc |-> IF j = i THEN Append(m[i], x) ELSE m[j]]
  BY <1>4, <1>7 DEF GoodLinks, m
<1>9. Append(m[i], x) \in Seq(GoodCost(i) \cup GoodData(i))
  BY <1>4, <1>5, <1>6 DEF GoodLinks, m
<1>10. GoodLinks(link')
  BY <1>4, <1>8, <1>9 DEF GoodLinks, m
<1> QED BY <1>2, <1>3, <1>10, RouterBecomes

(* The initial state. *)
LEMMA InitInv == Init => IInv
<1> SUFFICES ASSUME Init PROVE IInv
  OBVIOUS
<1>1. \A u \in Switch : RouterInv(InitRouter, Routes[u])
  BY InitRouterInv, RoutesAreRows
<1>2. GoodLinks(link)
  BY DEF Init, GoodLinks
<1> QED BY <1>1, <1>2, PacketAssumption DEF Init, IInv

(* A host sends a packet. *)
LEMMA InjectInv == ASSUME IInv, NEW k \in Packet, Inject(k) PROVE IInv'
<1>1. Source[k] \in Switch
  BY PacketAssumption DEF Switch
<1>2. Nearer(Target[k], Source[k], {}) /\ GoodLinks(link)
  BY DEF Nearer, IInv
<1>3. Forward(Source[k], k, {}, link) /\ injected' = injected \cup {k}
      /\ UNCHANGED <<losses, lost>>
  BY DEF Inject
<1>4. {} \in SUBSET Switch
  OBVIOUS
<1>5. /\ DOMAIN router' = Switch /\ router' = [v \in Switch |-> router'[v]]
      /\ \A v \in Switch : RouterInv(router'[v], Routes[v])
      /\ GoodLinks(link')
  BY <1>1, <1>2, <1>3, <1>4, ForwardInv
<1> QED BY <1>3, <1>5 DEF IInv

(* A handler that sends no packet leaves the invariant. *)
LEMMA HandlerInv ==
  ASSUME IInv, NEW i \in Ifc, link[i] # <<>>, NEW v \in Switch, NEW d \in Dst, NEW o,
         RouterInv(o.router, Routes[v]), Sendable(o.updates, d, Upstream(v, d)),
         router' = [router EXCEPT ![v] = o.router],
         link' = WithUpdates(Received(i), v, o.updates),
         UNCHANGED <<injected, losses, lost>>
  PROVE  IInv'
<1>1. GoodLinks(link')
  BY TakeGood, UpdatesGood DEF IInv
<1>2. /\ DOMAIN router' = Switch /\ router' = [u \in Switch |-> router'[u]]
      /\ \A u \in Switch : RouterInv(router'[u], Routes[u])
  BY RouterBecomes
<1> QED BY <1>1, <1>2 DEF IInv

(* A packet arrives at the next switch. *)
LEMMA ReceiveDataInv == ASSUME IInv, NEW i \in Ifc, ReceiveData(i) PROVE IInv'
<1> DEFINE v == Wire[i][1]
           m == Head(link[i])
<1>1. link[i] # <<>> /\ ~ IsCost(m) /\ UNCHANGED <<injected, losses, lost>>
  BY DEF ReceiveData
<1>2. v \in Switch
  BY Topology
<1>3. m \in GoodData(i) /\ GoodLinks(Received(i))
  BY <1>1, TakeGood, Kinds DEF IInv
<1>4. m.pkt \in Packet /\ m.seen \in SUBSET Switch /\ Nearer(Target[m.pkt], v, m.seen)
  BY <1>3 DEF GoodData, Data
<1>5. CASE v = Target[m.pkt]
  <2> DEFINE o == IF IsSyn[m.pkt] THEN HandleSyn(router[v], v, Upstream(v, v))
                                  ELSE Outcome(router[v], NoPort, {})
  <2>1. router' = [router EXCEPT ![v] = o.router]
        /\ link' = WithUpdates(Received(i), v, o.updates)
    BY <1>5 DEF ReceiveData
  <2>2. RouterInv(o.router, Routes[v]) /\ Sendable(o.updates, v, Upstream(v, v))
    <3>1. RouterInv(router[v], Routes[v]) /\ v \in Dst
      BY <1>2 DEF IInv, Switch
    <3>2. CASE IsSyn[m.pkt]
      BY <1>2, <3>1, <3>2, HandleSynInv, RoutesAreRows
    <3>3. CASE ~ IsSyn[m.pkt]
      BY <3>1, <3>3 DEF Outcome, Sendable
    <3> QED BY <3>2, <3>3
  <2> HIDE DEF o, v
  <2> QED BY <1>1, <1>2, <2>1, <2>2, HandlerInv DEF Switch
<1>6. CASE v # Target[m.pkt]
  <2>1. Forward(v, m.pkt, m.seen, Received(i))
    BY <1>6 DEF ReceiveData
  <2>2. /\ DOMAIN router' = Switch /\ router' = [u \in Switch |-> router'[u]]
        /\ \A u \in Switch : RouterInv(router'[u], Routes[u])
        /\ GoodLinks(link')
    BY <1>2, <1>3, <1>4, <2>1, ForwardInv
  <2> QED BY <1>1, <2>2 DEF IInv
<1> QED BY <1>5, <1>6

(* An update arrives. *)
LEMMA ReceiveCostInv == ASSUME IInv, NEW i \in Ifc, ReceiveCost(i) PROVE IInv'
<1> DEFINE v == Wire[i][1]
           m == Head(link[i])
           o == HandleUpdate(router[v], Wire[i][2], m.dst, m.price,
                             Routes[v][m.dst], Upstream(v, m.dst))
<1>1. /\ link[i] # <<>> /\ IsCost(m) /\ UNCHANGED <<injected, losses, lost>>
      /\ router' = [router EXCEPT ![v] = o.router]
      /\ link' = WithUpdates(Received(i), v, o.updates)
  BY DEF ReceiveCost
<1>2. v \in Switch /\ Wire[i][2] \in Port
  BY Topology
<1>3. m \in GoodCost(i)
  BY <1>1, TakeGood, Kinds DEF IInv
<1>4. m.dst \in Dst /\ m.price \in Nat
  BY <1>3 DEF GoodCost
<1>5. RouterInv(o.router, Routes[v]) /\ Sendable(o.updates, m.dst, Upstream(v, m.dst))
  BY <1>2, <1>4, RoutesAreRows, HandleUpdateInv DEF IInv
<1> HIDE DEF o, v, m
<1> QED BY <1>1, <1>2, <1>4, <1>5, HandlerInv

LEMMA StepInv == IInv /\ [Next]_vars => IInv'
<1> SUFFICES ASSUME IInv, [Next]_vars PROVE IInv'
  OBVIOUS
<1>1. ASSUME NEW k \in Packet, Inject(k) PROVE IInv'
  BY <1>1, InjectInv
<1>2. ASSUME NEW i \in Ifc, ReceiveData(i) PROVE IInv'
  BY <1>2, ReceiveDataInv
<1>3. ASSUME NEW i \in Ifc, ReceiveCost(i) PROVE IInv'
  BY <1>3, ReceiveCostInv
<1>4. ASSUME NEW i \in Ifc, Lose(i) PROVE IInv'
  <2>1. Head(link[i]) \in GoodCost(i) \cup GoodData(i) /\ GoodLinks(link')
    BY <1>4, TakeGood DEF Lose, IInv
  <2>2. lost' \subseteq Packet
    BY <1>4, <2>1, Kinds DEF Lose, IInv, GoodData, Data
  <2>3. losses' \in 0 .. MaxLosses
    BY <1>4, PacketAssumption DEF Lose, IInv
  <2> QED BY <1>4, <2>1, <2>2, <2>3 DEF Lose, IInv
<1>5. CASE Tick
  <2>1. \A u \in Switch : RouterInv(router'[u], Routes[u])
    BY <1>5, AgedInv, RoutesAreRows DEF Tick, IInv
  <2> QED BY <1>5, <2>1 DEF Tick, IInv
<1>6. CASE UNCHANGED vars
  BY <1>6 DEF IInv, vars
<1> QED BY <1>1, <1>2, <1>3, <1>4, <1>5, <1>6 DEF Next

THEOREM Invariance == Spec => []IInv
BY InitInv, StepInv, PTL DEF Spec

(* Types of the network's state. *)
THEOREM TypeCorrect == Spec => []TypeOK
<1>1. IInv => TypeOK
  <2> SUFFICES ASSUME IInv PROVE TypeOK
    OBVIOUS
  <2>1. \A i \in Ifc : GoodCost(i) \cup GoodData(i) \subseteq Data \cup Cost
    BY DEF GoodCost, GoodData, Cost
  <2>2. \A i \in Ifc : link[i] \in Seq(Data \cup Cost)
    BY <2>1, SeqOfSubset DEF IInv, GoodLinks
  <2>3. router \in [Switch -> RouterState]
    BY DEF IInv, RouterInv
  <2> QED BY <2>2, <2>3 DEF IInv, GoodLinks, TypeOK
<1> QED BY <1>1, Invariance, PTL

(* An update about d only travels against a route to d, whatever is lost.  *)
THEOREM UpdatesGoUpTheTreeHolds == Spec => []UpdatesGoUpTheTree
<1>1. IInv => UpdatesGoUpTheTree
  <2> SUFFICES ASSUME IInv, NEW i \in Ifc, NEW j \in DOMAIN link[i], IsCost(link[i][j])
               PROVE  Wire[i][2] \in Range(Routes[Wire[i][1]][link[i][j].dst])
    BY DEF UpdatesGoUpTheTree
  <2>1. link[i][j] \in GoodCost(i) \cup GoodData(i)
    BY QueuedIsGood DEF IInv
  <2> QED BY <2>1, Kinds DEF GoodCost
<1> QED BY <1>1, Invariance, PTL

(* No packet comes back to a switch it left, whatever the switches prefer  *)
(* while it is under way.                                                  *)
THEOREM NoForwardingLoopHolds == Spec => []NoForwardingLoop
<1>1. IInv => NoForwardingLoop
  <2> SUFFICES ASSUME IInv, NEW i \in Ifc, NEW j \in DOMAIN link[i], ~ IsCost(link[i][j]),
                      Wire[i][1] \in link[i][j].seen
               PROVE  FALSE
    BY DEF NoForwardingLoop
  <2>1. link[i][j] \in GoodCost(i) \cup GoodData(i)
    BY QueuedIsGood DEF IInv
  <2>2. link[i][j] \in GoodData(i)
    BY <2>1, Kinds
  <2> DEFINE d == Target[link[i][j].pkt]
             v == Wire[i][1]
  <2>3. Rank[d][v] < Rank[d][v] /\ d \in Dst /\ v \in Switch
    BY <2>2, Topology, PacketAssumption DEF GoodData, Data, Nearer
  <2> HIDE DEF d, v
  <2>4. Rank[d][v] \in Nat
    BY <2>3, RoutesAssumption
  <2> QED BY <2>3, <2>4
<1> QED BY <1>1, Invariance, PTL

----------------------------------------------------------------------------
(* Refinement.  Packet k is the j-th message of link i of l.               *)
Slotted(l, i, j, k) == j \in DOMAIN l[i] /\ ~ IsCost(l[i][j]) /\ l[i][j].pkt = k

On(l, i, k) == \E j \in DOMAIN l[i] : ~ IsCost(l[i][j]) /\ l[i][j].pkt = k

(* A packet is on one link, once, and then it was sent and not lost. *)
Single(l) ==
  \A k \in Packet : \A i1, i2 \in Ifc : \A j1, j2 \in Nat :
    Slotted(l, i1, j1, k) /\ Slotted(l, i2, j2, k) => i1 = i2 /\ j1 = j2

Once(l, sent, gone) ==
  /\ Single(l)
  /\ \A i \in Ifc, k \in Packet : On(l, i, k) => k \in sent \ gone
  /\ gone \subseteq sent

(* Whereabouts of a packet, for any links. *)
At(l, sent, gone, k) ==
  IF k \notin sent THEN -1
  ELSE IF \E i \in Ifc : On(l, i, k) THEN Wire[CHOOSE i \in Ifc : On(l, i, k)][1]
  ELSE IF k \in gone THEN -3 ELSE -2

LEMMA WhereaboutsAt ==
  /\ Whereabouts = [k \in Packet |-> At(link, injected, lost, k)]
  /\ Whereabouts' = [k \in Packet |-> At(link', injected', lost', k)]
BY DEF Whereabouts, At, Carries, On

(* Positions are natural numbers. *)
LEMMA OnSlotted ==
  ASSUME NEW l, GoodLinks(l), NEW i \in Ifc, NEW k
  PROVE  On(l, i, k) <=> \E j \in Nat : Slotted(l, i, j, k)
<1>1. l[i] \in Seq(GoodCost(i) \cup GoodData(i))
  BY DEF GoodLinks
<1>2. DOMAIN l[i] \subseteq Nat
  BY <1>1
<1> QED BY <1>2 DEF On, Slotted

(* Where a packet is on a link, it is on its way to the link's end. *)
LEMMA AtLink ==
  ASSUME NEW l, GoodLinks(l), NEW sent, NEW gone, Once(l, sent, gone),
         NEW i \in Ifc, NEW k \in Packet, On(l, i, k)
  PROVE  At(l, sent, gone, k) = Wire[i][1]
<1> DEFINE c == CHOOSE h \in Ifc : On(l, h, k)
<1>1. c \in Ifc /\ On(l, c, k)
  OBVIOUS
<1>2. At(l, sent, gone, k) = Wire[c][1]
  BY DEF At, Once
<1> HIDE DEF c
<1>3. c = i
  BY <1>1, OnSlotted DEF Once, Single
<1> QED BY <1>2, <1>3

(* A packet that is on the same link as before is where it was. *)
LEMMA AtSame ==
  ASSUME NEW l, NEW sent, NEW gone, GoodLinks(l), Once(l, sent, gone),
         NEW l2, NEW sent2, NEW gone2, GoodLinks(l2), Once(l2, sent2, gone2),
         NEW k \in Packet,
         k \in sent2 <=> k \in sent, k \in gone2 <=> k \in gone,
         \A i \in Ifc : On(l2, i, k) <=> On(l, i, k)
  PROVE  At(l2, sent2, gone2, k) = At(l, sent, gone, k)
<1>1. CASE \E i \in Ifc : On(l, i, k)
  BY <1>1, AtLink
<1>2. CASE ~ \E i \in Ifc : On(l, i, k)
  BY <1>2 DEF At
<1> QED BY <1>1, <1>2

(* Updates do not move packets. *)
LEMMA UpdatesKeepPackets ==
  ASSUME NEW l, GoodLinks(l), NEW u, NEW updates, NEW i \in Ifc, NEW j \in Nat, NEW k
  PROVE  Slotted(WithUpdates(l, u, updates), i, j, k) <=> Slotted(l, i, j, k)
<1> DEFINE w == WithUpdates(l, u, updates)
<1>1. l[i] \in Seq(GoodCost(i) \cup GoodData(i))
  BY DEF GoodLinks
<1>2. CASE \E m \in updates : i = <<u, m.port>>
  <2> DEFINE m == CHOOSE m \in updates : i = <<u, m.port>>
             c == [dst |-> m.dst, price |-> m.price]
  <2>1. w[i] = Append(l[i], c)
    BY <1>2 DEF WithUpdates
  <2>2. IsCost(c)
    BY DEF IsCost
  <2> HIDE DEF c, m, w
  <2>3. /\ Len(l[i]) \in Nat /\ DOMAIN l[i] = 1 .. Len(l[i])
        /\ DOMAIN w[i] = 1 .. Len(l[i]) + 1
        /\ w[i][Len(l[i]) + 1] = c
        /\ \A n \in 1 .. Len(l[i]) : w[i][n] = l[i][n]
    BY <1>1, <2>1
  <2> QED BY <2>2, <2>3 DEF Slotted, w
<1>3. CASE ~ \E m \in updates : i = <<u, m.port>>
  BY <1>3 DEF WithUpdates, Slotted
<1> QED BY <1>2, <1>3

(* Taking the head moves the others up. *)
LEMMA TakeShifts ==
  ASSUME NEW h \in Ifc, GoodLinks(link), link[h] # <<>>,
         NEW i \in Ifc, NEW j \in Nat, NEW k
  PROVE  Slotted(Received(h), i, j, k) <=>
           IF i = h THEN j > 0 /\ Slotted(link, i, j+1, k) ELSE Slotted(link, i, j, k)
<1>1. link[h] \in Seq(GoodCost(h) \cup GoodData(h))
  BY DEF GoodLinks
<1>2. Received(h) = [n \in Ifc |-> IF n = h THEN Tail(link[h]) ELSE link[n]]
  BY DEF Received, GoodLinks
<1>3. CASE i = h
  <2>1. Received(h)[i] = Tail(link[h])
    BY <1>2, <1>3
  <2>2. /\ Len(link[h]) \in Nat \ {0} /\ DOMAIN link[h] = 1 .. Len(link[h])
        /\ DOMAIN Tail(link[h]) = 1 .. Len(link[h]) - 1
        /\ \A n \in 1 .. Len(link[h]) - 1 : Tail(link[h])[n] = link[h][n+1]
    BY <1>1
  <2> QED BY <1>3, <2>1, <2>2 DEF Slotted
<1>4. CASE i # h
  BY <1>2, <1>4 DEF Slotted
<1> QED BY <1>3, <1>4

(* Putting a packet at the end of a link. *)
Put(l, h, p, seen) == [l EXCEPT ![h] = Append(@, [pkt |-> p, seen |-> seen])]

LEMMA PutAdds ==
  ASSUME NEW l, GoodLinks(l), NEW h \in Ifc, NEW p, NEW seen,
         NEW i \in Ifc, NEW j \in Nat, NEW k
  PROVE  Slotted(Put(l, h, p, seen), i, j, k) <=>
           Slotted(l, i, j, k) \/ (i = h /\ j = Len(l[h]) + 1 /\ k = p)
<1> DEFINE x == [pkt |-> p, seen |-> seen]
           w == Put(l, h, p, seen)
<1>1. l[h] \in Seq(GoodCost(h) \cup GoodData(h))
  BY DEF GoodLinks
<1>2. ~ IsCost(x) /\ x.pkt = p
  BY DEF IsCost
<1>3. w = [n \in Ifc |-> IF n = h THEN Append(l[h], x) ELSE l[n]]
  BY DEF GoodLinks, Put
<1> HIDE DEF x, w
<1>4. CASE i = h
  <2>1. w[i] = Append(l[h], x)
    BY <1>3, <1>4
  <2>2. /\ Len(l[h]) \in Nat /\ DOMAIN l[h] = 1 .. Len(l[h])
        /\ DOMAIN w[i] = 1 .. Len(l[h]) + 1
        /\ w[i][Len(l[h]) + 1] = x
        /\ \A n \in 1 .. Len(l[h]) : w[i][n] = l[h][n]
    BY <1>1, <2>1
  <2>3. Slotted(w, i, j, k) <=> Slotted(l, i, j, k) \/ (i = h /\ j = Len(l[h]) + 1 /\ k = p)
    BY <1>2, <1>4, <2>2 DEF Slotted
  <2> QED BY <2>3 DEF w, x
<1>5. CASE i # h
  <2>1. w[i] = l[i]
    BY <1>3, <1>5
  <2>2. Slotted(w, i, j, k) <=> Slotted(l, i, j, k)
    BY <2>1 DEF Slotted
  <2> QED BY <1>5, <2>2 DEF w, x
<1> QED BY <1>4, <1>5

(* What sending updates, taking and putting make of the packets on links. *)
LEMMA UpdatesKeepOn ==
  ASSUME NEW l, GoodLinks(l), Single(l), NEW u \in Switch, NEW d \in Dst, NEW updates,
         Sendable(updates, d, Upstream(u, d))
  PROVE  /\ Single(WithUpdates(l, u, updates))
         /\ \A i \in Ifc, k \in Packet : On(WithUpdates(l, u, updates), i, k) <=> On(l, i, k)
<1>1. GoodLinks(WithUpdates(l, u, updates))
  BY UpdatesGood
<1>2. \A i \in Ifc, j \in Nat, k \in Packet :
        Slotted(WithUpdates(l, u, updates), i, j, k) <=> Slotted(l, i, j, k)
  BY UpdatesKeepPackets
<1> QED BY <1>1, <1>2, OnSlotted DEF Single

LEMMA TakeOff ==
  ASSUME GoodLinks(link), Single(link), NEW h \in Ifc, link[h] # <<>>
  PROVE  /\ Single(Received(h))
         /\ \A i \in Ifc, k \in Packet :
              On(Received(h), i, k) <=>
                On(link, i, k) /\ (IsCost(Head(link[h])) \/ k # Head(link[h]).pkt)
         /\ ~ IsCost(Head(link[h])) => On(link, h, Head(link[h]).pkt)
<1> DEFINE r == Received(h)
           m == Head(link[h])
<1>1. link[h] \in Seq(GoodCost(h) \cup GoodData(h))
  BY DEF GoodLinks
<1>2. 1 \in DOMAIN link[h] /\ m = link[h][1] /\ DOMAIN link[h] \subseteq Nat \ {0}
  BY <1>1
<1>3. \A k : Slotted(link, h, 1, k) <=> (~ IsCost(m) /\ k = m.pkt)
  BY <1>2 DEF Slotted
<1>4. GoodLinks(r)
  BY TakeGood
<1>5. \A i \in Ifc, j \in Nat, k \in Packet :
        Slotted(r, i, j, k) <=>
          IF i = h THEN j > 0 /\ Slotted(link, i, j+1, k) ELSE Slotted(link, i, j, k)
  BY TakeShifts
<1> HIDE DEF r, m
<1>6. Single(r)
  <2> SUFFICES ASSUME NEW k \in Packet, NEW i1 \in Ifc, NEW i2 \in Ifc,
                      NEW j1 \in Nat, NEW j2 \in Nat,
                      Slotted(r, i1, j1, k), Slotted(r, i2, j2, k)
               PROVE  i1 = i2 /\ j1 = j2
    BY DEF Single
  <2> DEFINE n1 == IF i1 = h THEN j1+1 ELSE j1
             n2 == IF i2 = h THEN j2+1 ELSE j2
  <2>1. /\ n1 \in Nat /\ n2 \in Nat
        /\ Slotted(link, i1, n1, k) /\ Slotted(link, i2, n2, k)
    BY <1>5
  <2> HIDE DEF n1, n2
  <2>2. i1 = i2 /\ n1 = n2
    BY <2>1 DEF Single
  <2> QED BY <2>2 DEF n1, n2
<1>7. ASSUME NEW i \in Ifc, NEW k \in Packet
      PROVE  On(r, i, k) <=> On(link, i, k) /\ (IsCost(m) \/ k # m.pkt)
  <2>1. ASSUME On(r, i, k) PROVE On(link, i, k) /\ (IsCost(m) \/ k # m.pkt)
    <3>1. PICK j \in Nat : Slotted(r, i, j, k)
      BY <1>4, <2>1, OnSlotted
    <3> DEFINE n == IF i = h THEN j+1 ELSE j
    <3>2. n \in Nat /\ Slotted(link, i, n, k) /\ (i = h => n # 1)
      BY <1>5, <3>1
    <3> HIDE DEF n
    <3>3. On(link, i, k)
      BY <3>2, OnSlotted
    <3>4. ~ Slotted(link, h, 1, k)
      BY <3>2 DEF Single
    <3> QED BY <1>3, <3>3, <3>4
  <2>2. ASSUME On(link, i, k), IsCost(m) \/ k # m.pkt PROVE On(r, i, k)
    <3>1. PICK j \in Nat : Slotted(link, i, j, k)
      BY <2>2, OnSlotted
    <3>2. CASE i = h
      <4>1. j # 1 /\ j # 0
        BY <1>2, <1>3, <2>2, <3>1, <3>2 DEF Slotted
      <4>2. j - 1 \in Nat /\ j - 1 > 0 /\ (j - 1) + 1 = j
        BY <4>1
      <4>3. Slotted(r, i, j - 1, k)
        BY <1>5, <3>1, <3>2, <4>2
      <4> QED BY <1>4, <4>2, <4>3, OnSlotted
    <3>3. CASE i # h
      BY <1>4, <1>5, <3>1, <3>3, OnSlotted
    <3> QED BY <3>2, <3>3
  <2> QED BY <2>1, <2>2
<1>8. ~ IsCost(m) => On(link, h, m.pkt)
  BY <1>2, <1>3 DEF On, Slotted
<1> QED BY <1>6, <1>7, <1>8 DEF r, m

LEMMA PutOn ==
  ASSUME NEW l, GoodLinks(l), Single(l), NEW h \in Ifc, NEW p \in Packet, NEW seen,
         \A i \in Ifc : ~ On(l, i, p), NEW w, GoodLinks(w),
         w = Put(l, h, p, seen)
  PROVE  /\ Single(w)
         /\ \A i \in Ifc, k \in Packet :
              On(w, i, k) <=> On(l, i, k) \/ (i = h /\ k = p)
<1>1. \A i \in Ifc, j \in Nat, k \in Packet :
        Slotted(w, i, j, k) <=> Slotted(l, i, j, k) \/ (i = h /\ j = Len(l[h]) + 1 /\ k = p)
  BY PutAdds
<1>2. Len(l[h]) + 1 \in Nat
  <2>1. l[h] \in Seq(GoodCost(h) \cup GoodData(h))
    BY DEF GoodLinks
  <2> QED BY <2>1
<1>3. \A i \in Ifc, j \in Nat : ~ Slotted(l, i, j, p)
  BY OnSlotted
<1>4. Single(w)
  <2> SUFFICES ASSUME NEW k \in Packet, NEW i1 \in Ifc, NEW i2 \in Ifc,
                      NEW j1 \in Nat, NEW j2 \in Nat,
                      Slotted(w, i1, j1, k), Slotted(w, i2, j2, k)
               PROVE  i1 = i2 /\ j1 = j2
    BY DEF Single
  <2>1. CASE k = p
    <3>1. ~ Slotted(l, i1, j1, k) /\ ~ Slotted(l, i2, j2, k)
      BY <1>3, <2>1
    <3>2. i1 = h /\ j1 = Len(l[h]) + 1
      BY <1>1, <3>1
    <3>3. i2 = h /\ j2 = Len(l[h]) + 1
      BY <1>1, <3>1
    <3> QED BY <3>2, <3>3
  <2>2. CASE k # p
    <3>1. Slotted(l, i1, j1, k) /\ Slotted(l, i2, j2, k)
      BY <1>1, <2>2
    <3> QED BY <3>1 DEF Single
  <2> QED BY <2>1, <2>2
<1>5. ASSUME NEW i \in Ifc, NEW k \in Packet
      PROVE  On(w, i, k) <=> On(l, i, k) \/ (i = h /\ k = p)
  <2>1. On(w, i, k) <=> \E j \in Nat : Slotted(w, i, j, k)
    BY OnSlotted
  <2>2. On(l, i, k) <=> \E j \in Nat : Slotted(l, i, j, k)
    BY OnSlotted
  <2> QED BY <1>1, <1>2, <2>1, <2>2
<1> QED BY <1>4, <1>5

(* Forwarding puts a packet on a link that is on a route. *)
LEMMA ForwardMoves ==
  ASSUME IInv, NEW u \in Switch, NEW k \in Packet, NEW seen \in SUBSET Switch, NEW l,
         GoodLinks(l), Single(l), \A i \in Ifc : ~ On(l, i, k),
         Forward(u, k, seen, l), GoodLinks(link')
  PROVE  \E h \in Ifc :
           /\ Wire[h][1] \in NextSwitches(u, Target[k])
           /\ Single(link')
           /\ \A i \in Ifc, c \in Packet :
                On(link', i, c) <=> On(l, i, c) \/ (i = h /\ c = k)
<1> DEFINE d == Target[k]
           e == <<d, SlotOf[k]>>
<1>1. d \in Dst /\ e \in Entry /\ e[1] = d
  BY PacketAssumption DEF Entry
<1>2. PICK o \in Lookup(router[u], e, Routes[u][d], Upstream(u, d)) :
        link' = [WithUpdates(l, u, o.updates) EXCEPT
                   ![<<u, o.port>>] = Append(@, [pkt |-> k, seen |-> seen \cup {u}])]
  BY DEF Forward
<1> HIDE DEF e
<1>3. o.port \in Range(Routes[u][d]) /\ Sendable(o.updates, d, Upstream(u, d))
  BY <1>1, <1>2, RoutesAreRows, LookupInv DEF IInv
<1> DEFINE m == WithUpdates(l, u, o.updates)
           h == <<u, o.port>>
           left == seen \cup {u}
<1>4. h \in Ifc /\ Wire[h][1] \in NextSwitches(u, d)
  BY <1>1, <1>3, RoutesAssumption DEF NextSwitches
<1>5. /\ GoodLinks(m) /\ Single(m)
      /\ \A i \in Ifc, c \in Packet : On(m, i, c) <=> On(l, i, c)
  BY <1>1, <1>3, UpdatesGood, UpdatesKeepOn
<1> HIDE DEF m, h, d, left
<1>6. link' = Put(m, h, k, left)
  BY <1>2 DEF Put, m, h, d, left
<1>7. \A i \in Ifc : ~ On(m, i, k)
  BY <1>5
<1>8. /\ Single(link')
      /\ \A i \in Ifc, c \in Packet : On(link', i, c) <=> On(m, i, c) \/ (i = h /\ c = k)
  BY <1>4, <1>5, <1>6, <1>7, PutOn
<1> QED BY <1>4, <1>5, <1>8 DEF d

----------------------------------------------------------------------------
(* A step that concerns packet k only changes its whereabouts only. *)
LEMMA OthersStay ==
  ASSUME GoodLinks(link), Once(link, injected, lost),
         GoodLinks(link'), Once(link', injected', lost'), NEW k \in Packet,
         \A c \in Packet \ {k} :
           /\ c \in injected' <=> c \in injected
           /\ c \in lost' <=> c \in lost
           /\ \A i \in Ifc : On(link', i, c) <=> On(link, i, c)
  PROVE  Whereabouts' = [Whereabouts EXCEPT ![k] = At(link', injected', lost', k)]
<1>1. \A c \in Packet \ {k} : At(link', injected', lost', c) = At(link, injected, lost, c)
  BY AtSame
<1> QED BY <1>1, WhereaboutsAt

LEMMA AllStay ==
  ASSUME GoodLinks(link), Once(link, injected, lost),
         GoodLinks(link'), Once(link', injected', lost'),
         UNCHANGED <<injected, lost>>,
         \A c \in Packet, i \in Ifc : On(link', i, c) <=> On(link, i, c)
  PROVE  UNCHANGED Whereabouts
<1>1. \A c \in Packet : At(link', injected', lost', c) = At(link, injected, lost, c)
  BY AtSame
<1> QED BY <1>1, WhereaboutsAt

(* A host sends a packet: Enter. *)
LEMMA InjectMoves ==
  ASSUME IInv, IInv', Once(link, injected, lost), NEW k \in Packet, Inject(k)
  PROVE  Once(link', injected', lost') /\ Service!Enter(k)
<1>1. /\ Forward(Source[k], k, {}, link) /\ k \notin injected
      /\ injected' = injected \cup {k} /\ lost' = lost
  BY DEF Inject
<1>2. Source[k] \in Switch /\ {} \in SUBSET Switch
  BY PacketAssumption DEF Switch
<1>3. \A i \in Ifc : ~ On(link, i, k)
  BY <1>1 DEF Once
<1>4. PICK h \in Ifc :
        /\ Wire[h][1] \in NextSwitches(Source[k], Target[k])
        /\ Single(link')
        /\ \A i \in Ifc, c \in Packet : On(link', i, c) <=> On(link, i, c) \/ (i = h /\ c = k)
  BY <1>1, <1>2, <1>3, ForwardMoves DEF IInv, Once
<1>5. k \notin lost /\ k \in injected'
  BY <1>1 DEF Once
<1>6. Once(link', injected', lost')
  BY <1>1, <1>4, <1>5 DEF Once
<1>7. Whereabouts' = [Whereabouts EXCEPT ![k] = At(link', injected', lost', k)]
  BY <1>1, <1>4, <1>6, OthersStay DEF IInv
<1>8. At(link', injected', lost', k) = Wire[h][1]
  BY <1>4, <1>6, AtLink DEF IInv
<1>9. Whereabouts[k] = -1
  BY <1>1, WhereaboutsAt DEF At
<1> QED BY <1>4, <1>6, <1>7, <1>8, <1>9 DEF Service!Enter

(* A packet leaves link h and, if it goes on, is on one other link. *)
LEMMA ReceiveDataMoves ==
  ASSUME IInv, IInv', Once(link, injected, lost), NEW h \in Ifc, ReceiveData(h)
  PROVE  /\ Once(link', injected', lost')
         /\ \E k \in Packet : Service!Hop(k) \/ Service!Arrive(k)
<1> DEFINE m == Head(link[h])
           v == Wire[h][1]
           k == m.pkt
<1>1. link[h] # <<>> /\ ~ IsCost(m) /\ UNCHANGED <<injected, lost>>
  BY DEF ReceiveData
<1>2. v \in Switch
  BY Topology
<1>3. m \in GoodData(h) /\ GoodLinks(Received(h))
  BY <1>1, TakeGood, Kinds DEF IInv
<1>4. k \in Packet /\ m.seen \in SUBSET Switch
  BY <1>3 DEF GoodData, Data
<1>5. /\ Single(Received(h))
      /\ \A i \in Ifc, c \in Packet : On(Received(h), i, c) <=> On(link, i, c) /\ c # k
      /\ On(link, h, k)
  BY <1>1, TakeOff DEF IInv, Once
<1>6. Whereabouts[k] = v
  BY <1>4, <1>5, AtLink, WhereaboutsAt DEF IInv
<1>7. k \in injected /\ k \notin lost
  BY <1>4, <1>5 DEF Once
<1>8. CASE v = Target[k]
  <2> DEFINE o == IF IsSyn[k] THEN HandleSyn(router[v], v, Upstream(v, v))
                              ELSE Outcome(router[v], NoPort, {})
  <2>1. link' = WithUpdates(Received(h), v, o.updates)
    BY <1>8 DEF ReceiveData
  <2>2. Sendable(o.updates, v, Upstream(v, v))
    <3>1. RouterInv(router[v], Routes[v]) /\ v \in Dst
      BY <1>2 DEF IInv, Switch
    <3>2. CASE IsSyn[k]
      BY <1>2, <3>1, <3>2, HandleSynInv, RoutesAreRows
    <3>3. CASE ~ IsSyn[k]
      BY <3>1, <3>3 DEF Outcome, Sendable
    <3> QED BY <3>2, <3>3
  <2> HIDE DEF o, v, m, k
  <2>3. /\ Single(link')
        /\ \A i \in Ifc, c \in Packet : On(link', i, c) <=> On(link, i, c) /\ c # k
    BY <1>2, <1>3, <1>5, <2>1, <2>2, UpdatesKeepOn DEF Switch
  <2>4. Once(link', injected', lost')
    BY <1>1, <2>3 DEF Once
  <2>5. Whereabouts' = [Whereabouts EXCEPT ![k] = At(link', injected', lost', k)]
    BY <1>1, <1>4, <2>3, <2>4, OthersStay DEF IInv
  <2>6. At(link', injected', lost', k) = -2
    BY <1>1, <1>4, <1>7, <2>3 DEF At
  <2>7. Service!Arrive(k)
    BY <1>6, <1>8, <2>5, <2>6 DEF Service!Arrive
  <2> QED BY <1>4, <2>4, <2>7
<1>9. CASE v # Target[k]
  <2>1. Forward(v, k, m.seen, Received(h))
    BY <1>9 DEF ReceiveData
  <2> HIDE DEF v, m, k
  <2>2. PICK g \in Ifc :
          /\ Wire[g][1] \in NextSwitches(v, Target[k])
          /\ Single(link')
          /\ \A i \in Ifc, c \in Packet :
               On(link', i, c) <=> On(Received(h), i, c) \/ (i = g /\ c = k)
    BY <1>2, <1>3, <1>4, <1>5, <2>1, ForwardMoves DEF IInv
  <2>3. Once(link', injected', lost')
    BY <1>1, <1>5, <1>7, <2>2 DEF Once
  <2>4. Whereabouts' = [Whereabouts EXCEPT ![k] = At(link', injected', lost', k)]
    BY <1>1, <1>4, <1>5, <2>2, <2>3, OthersStay DEF IInv
  <2>5. At(link', injected', lost', k) = Wire[g][1]
    BY <1>4, <2>2, <2>3, AtLink DEF IInv
  <2>6. Service!Hop(k)
    BY <1>2, <1>6, <1>9, <2>2, <2>4, <2>5 DEF Service!Hop
  <2> QED BY <1>4, <2>3, <2>6
<1> QED BY <1>8, <1>9

(* Updates move no packet. *)
LEMMA ReceiveCostStays ==
  ASSUME IInv, IInv', Once(link, injected, lost), NEW h \in Ifc, ReceiveCost(h)
  PROVE  Once(link', injected', lost') /\ UNCHANGED Whereabouts
<1> DEFINE v == Wire[h][1]
           m == Head(link[h])
           o == HandleUpdate(router[v], Wire[h][2], m.dst, m.price,
                             Routes[v][m.dst], Upstream(v, m.dst))
<1>1. /\ link[h] # <<>> /\ IsCost(m) /\ UNCHANGED <<injected, lost>>
      /\ link' = WithUpdates(Received(h), v, o.updates)
  BY DEF ReceiveCost
<1>2. v \in Switch /\ Wire[h][2] \in Port
  BY Topology
<1>3. m \in GoodCost(h) /\ GoodLinks(Received(h))
  BY <1>1, TakeGood, Kinds DEF IInv
<1>4. m.dst \in Dst /\ m.price \in Nat
  BY <1>3 DEF GoodCost
<1>5. Sendable(o.updates, m.dst, Upstream(v, m.dst))
  BY <1>2, <1>4, RoutesAreRows, HandleUpdateInv DEF IInv
<1>6. /\ Single(Received(h))
      /\ \A i \in Ifc, c \in Packet : On(Received(h), i, c) <=> On(link, i, c)
  BY <1>1, TakeOff DEF IInv, Once
<1> HIDE DEF o, v, m
<1>7. /\ Single(link')
      /\ \A i \in Ifc, c \in Packet : On(link', i, c) <=> On(link, i, c)
  BY <1>1, <1>2, <1>3, <1>4, <1>5, <1>6, UpdatesKeepOn
<1>8. Once(link', injected', lost')
  BY <1>1, <1>7 DEF Once
<1> QED BY <1>1, <1>7, <1>8, AllStay DEF IInv

(* A queue drops a packet, or an update, which moves none. *)
LEMMA LoseMoves ==
  ASSUME IInv, IInv', Once(link, injected, lost), NEW h \in Ifc, Lose(h)
  PROVE  /\ Once(link', injected', lost')
         /\ (\E k \in Packet : Service!Vanish(k)) \/ UNCHANGED Whereabouts
<1> DEFINE m == Head(link[h])
           k == m.pkt
<1>1. /\ link[h] # <<>> /\ injected' = injected /\ link' = Received(h)
      /\ lost' = IF IsCost(m) THEN lost ELSE lost \cup {k}
  BY DEF Lose
<1>2. /\ Single(link')
      /\ \A i \in Ifc, c \in Packet :
           On(link', i, c) <=> On(link, i, c) /\ (IsCost(m) \/ c # k)
      /\ ~ IsCost(m) => On(link, h, k)
  BY <1>1, TakeOff DEF IInv, Once
<1>3. CASE IsCost(m)
  <2>1. Once(link', injected', lost')
    BY <1>1, <1>2, <1>3 DEF Once
  <2> QED BY <1>1, <1>2, <1>3, <2>1, AllStay DEF IInv
<1>4. CASE ~ IsCost(m)
  <2>1. m \in GoodData(h)
    BY <1>1, <1>4, TakeGood, Kinds DEF IInv
  <2>2. k \in Packet /\ Wire[h][1] \in Switch
    BY <2>1, Topology DEF GoodData, Data
  <2> HIDE DEF m, k
  <2>3. k \in injected /\ Whereabouts[k] = Wire[h][1]
    BY <1>2, <1>4, <2>2, AtLink, WhereaboutsAt DEF IInv, Once
  <2>4. Once(link', injected', lost')
    BY <1>1, <1>2, <1>4, <2>3 DEF Once
  <2>5. Whereabouts' = [Whereabouts EXCEPT ![k] = At(link', injected', lost', k)]
    BY <1>1, <1>2, <1>4, <2>2, <2>4, OthersStay DEF IInv
  <2>6. At(link', injected', lost', k) = -3
    BY <1>1, <1>2, <1>4, <2>2, <2>3 DEF At
  <2>7. Service!Vanish(k)
    BY <2>2, <2>3, <2>5, <2>6 DEF Service!Vanish
  <2> QED BY <2>2, <2>4, <2>7
<1> QED BY <1>3, <1>4

(* Every step of the network is a step of the delivery service, or none. *)
LEMMA StepMoves ==
  ASSUME IInv, IInv', Once(link, injected, lost), [Next]_vars
  PROVE  Once(link', injected', lost') /\ [Service!Next]_Whereabouts
<1>1. ASSUME NEW k \in Packet, Inject(k)
      PROVE  Once(link', injected', lost') /\ Service!Next
  BY <1>1, InjectMoves DEF Service!Next
<1>2. ASSUME NEW i \in Ifc, ReceiveData(i)
      PROVE  Once(link', injected', lost') /\ Service!Next
  BY <1>2, ReceiveDataMoves DEF Service!Next
<1>3. ASSUME NEW i \in Ifc, ReceiveCost(i)
      PROVE  Once(link', injected', lost') /\ UNCHANGED Whereabouts
  BY <1>3, ReceiveCostStays
<1>4. ASSUME NEW i \in Ifc, Lose(i)
      PROVE  Once(link', injected', lost') /\ [Service!Next]_Whereabouts
  BY <1>4, LoseMoves DEF Service!Next
<1>5. ASSUME UNCHANGED <<link, injected, lost>>
      PROVE  Once(link', injected', lost') /\ UNCHANGED Whereabouts
  <2>1. Once(link', injected', lost')
    BY <1>5
  <2> QED BY <1>5, <2>1, AllStay DEF IInv
<1>6. CASE Tick \/ UNCHANGED vars
  BY <1>5, <1>6 DEF Tick, vars
<1> QED BY <1>1, <1>2, <1>3, <1>4, <1>6 DEF Next

(* The network implements the delivery service (all of it but fairness):   *)
(* in every topology a packet moves along installed routes only, from      *)
(* where it is, is on one link at a time, and is delivered at its target   *)
(* or lost by a queue, once.                                               *)
THEOREM DeliverySteps == Spec => Service!Init /\ [][Service!Next]_Whereabouts
<1> DEFINE O == Once(link, injected, lost)
<1>1. Init => O /\ Service!Init
  <2> SUFFICES ASSUME Init PROVE O /\ Service!Init
    OBVIOUS
  <2>1. \A i \in Ifc : link[i] = <<>>
    BY DEF Init
  <2>2. \A i \in Ifc, j \in Nat, k \in Packet : ~ Slotted(link, i, j, k) /\ ~ On(link, i, k)
    BY <2>1 DEF Slotted, On
  <2>3. O
    BY <2>2 DEF Init, Once, Single
  <2>4. Whereabouts = [k \in Packet |-> -1]
    BY WhereaboutsAt DEF Init, At
  <2> QED BY <2>3, <2>4 DEF Service!Init
<1>2. IInv /\ IInv' /\ O /\ [Next]_vars => O' /\ [Service!Next]_Whereabouts
  BY StepMoves
<1> HIDE DEF O
<1> QED BY <1>1, <1>2, Invariance, PTL DEF Spec

----------------------------------------------------------------------------
(***************************************************************************)
(* Both ends of every route agree on its price, up to what is under way:   *)
(* HeardIsLastSent.                                                        *)
(***************************************************************************)
(* The queue s leads from a price the sender remembers for d to a price    *)
(* the receiver has stored.                                                *)
IsLast(s, d, j) == About(s[j], d) /\ \A k \in DOMAIN s : About(s[k], d) => k <= j

Leads(s, d, sent, heard) ==
  /\ \A j \in DOMAIN s : IsLast(s, d, j) => s[j].price = sent
  /\ (\A j \in DOMAIN s : ~ About(s[j], d)) => heard = sent

Agreement(l, r) ==
  \A i \in Ifc, d \in Dst :
    i[2] \in Upstream(i[1], d) =>
      Leads(l[i], d, r[i[1]].pricessent[d], r[Wire[i][1]].prices_nbr[<<Wire[i][2], d>>])

(* An update that is sent is the last one. *)
LEMMA AppendAbout ==
  ASSUME NEW S, NEW s \in Seq(S), NEW m \in S, NEW d, About(m, d), NEW heard
  PROVE  Leads(Append(s, m), d, m.price, heard)
<1> DEFINE t == Append(s, m)
           n == Len(s) + 1
<1>1. DOMAIN t = 1..n /\ t[n] = m /\ n \in DOMAIN t /\ n \in Nat
  BY AppendProperties
<1> HIDE DEF t, n
<1>2. ASSUME NEW j \in DOMAIN t, IsLast(t, d, j) PROVE t[j].price = m.price
  <2>1. n <= j /\ j \in 1..n
    BY <1>1, <1>2 DEF IsLast
  <2>2. j = n
    BY <1>1, <2>1
  <2> QED BY <1>1, <2>2
<1>3. ~ \A j \in DOMAIN t : ~ About(t[j], d)
  BY <1>1
<1> QED BY <1>2, <1>3 DEF Leads, t

(* Any other message makes no difference. *)
LEMMA AppendOther ==
  ASSUME NEW S, NEW s \in Seq(S), NEW m \in S, NEW d, ~ About(m, d),
         NEW sent, NEW heard, Leads(s, d, sent, heard)
  PROVE  Leads(Append(s, m), d, sent, heard)
<1> DEFINE t == Append(s, m)
           n == Len(s) + 1
<1>1. /\ DOMAIN t = 1..n /\ DOMAIN s = 1..(n-1) /\ t[n] = m /\ n \in Nat
      /\ \A j \in DOMAIN s : t[j] = s[j] /\ j \in DOMAIN t
  BY AppendProperties
<1> HIDE DEF t, n
<1>2. ASSUME NEW j \in DOMAIN t, IsLast(t, d, j) PROVE t[j].price = sent
  <2>1. j \in DOMAIN s
    BY <1>1, <1>2 DEF IsLast
  <2>2. IsLast(s, d, j)
    BY <1>1, <1>2, <2>1 DEF IsLast
  <2> QED BY <1>1, <2>1, <2>2 DEF Leads
<1>3. ASSUME \A j \in DOMAIN t : ~ About(t[j], d) PROVE heard = sent
  BY <1>1, <1>3 DEF Leads
<1> QED BY <1>2, <1>3 DEF Leads, t

(* Taking the first message: an update about d becomes the stored price. *)
LEMMA TakeLeads ==
  ASSUME NEW S, NEW s \in Seq(S), s # <<>>, NEW d,
         NEW sent, NEW heard, Leads(s, d, sent, heard), NEW now,
         IF About(Head(s), d) THEN now = Head(s).price ELSE now = heard
  PROVE  Leads(Tail(s), d, sent, now)
<1> DEFINE t == Tail(s)
           n == Len(s)
<1>1. /\ n \in Nat \ {0} /\ DOMAIN s = 1..n /\ DOMAIN t = 1..(n-1) /\ Head(s) = s[1]
      /\ \A j \in DOMAIN t : t[j] = s[j+1] /\ j + 1 \in DOMAIN s /\ j \in Nat
  BY HeadTailProperties
<1>2. \A j \in DOMAIN s : j = 1 \/ (j - 1 \in DOMAIN t /\ j \in Nat)
  BY <1>1
<1> HIDE DEF t, n
<1>3. ASSUME NEW j \in DOMAIN t, IsLast(t, d, j) PROVE t[j].price = sent
  <2>1. ASSUME NEW k \in DOMAIN s, About(s[k], d) PROVE k <= j + 1
    <3>1. CASE k = 1
      BY <1>1, <3>1
    <3>2. CASE k - 1 \in DOMAIN t /\ k \in Nat
      <4>1. t[k - 1] = s[k]
        BY <1>1, <3>2
      <4>2. k - 1 <= j
        BY <1>3, <2>1, <3>2, <4>1 DEF IsLast
      <4> QED BY <1>1, <3>2, <4>2
    <3> QED BY <1>2, <3>1, <3>2
  <2>2. IsLast(s, d, j + 1)
    BY <1>1, <1>3, <2>1 DEF IsLast
  <2> QED BY <1>1, <2>2 DEF Leads
<1>4. ASSUME \A j \in DOMAIN t : ~ About(t[j], d) PROVE now = sent
  <2>1. \A k \in DOMAIN s : About(s[k], d) => k = 1
    <3> SUFFICES ASSUME NEW k \in DOMAIN s, About(s[k], d), k # 1 PROVE FALSE
      OBVIOUS
    <3>1. k - 1 \in DOMAIN t /\ k \in Nat
      BY <1>2
    <3>2. t[k - 1] = s[k]
      BY <1>1, <3>1
    <3> QED BY <1>4, <3>1, <3>2
  <2>2. 1 \in DOMAIN s
    BY <1>1
  <2>3. CASE About(Head(s), d)
    <3>1. IsLast(s, d, 1)
      BY <1>1, <2>1, <2>2, <2>3 DEF IsLast
    <3> QED BY <1>1, <2>2, <2>3, <3>1 DEF Leads
  <2>4. CASE ~ About(Head(s), d)
    <3>1. \A k \in DOMAIN s : ~ About(s[k], d)
      BY <1>1, <2>1, <2>4
    <3> QED BY <2>4, <3>1 DEF Leads
  <2> QED BY <2>3, <2>4
<1> QED BY <1>3, <1>4 DEF Leads, t

----------------------------------------------------------------------------
(* How a handler's outcome o relates to the router s before: it tells      *)
(* everybody upstream the price it remembers, or nobody anything.          *)
Tells(s, o, d, prev) ==
  /\ o.router.prices_nbr = s.prices_nbr
  /\ \/ o.updates = {} /\ o.router.pricessent = s.pricessent
     \/ \E x \in Nat : /\ o.updates = Updates(d, x, prev)
                       /\ o.router.pricessent = [s.pricessent EXCEPT ![d] = x]

(* sendcost does. *)
LEMMA SentTells ==
  ASSUME NEW s \in RouterState, NEW d \in Dst, NEW x \in Nat, NEW prev, NEW port
  PROVE  Tells(s, Outcome(Sent(s, d, x, prev), port, Updates(d, x, prev)), d, prev)
<1>1. CASE prev = {}
  BY <1>1 DEF Tells, Outcome, Sent, Updates
<1>2. CASE prev # {}
  BY <1>2 DEF Tells, Outcome, Sent, RouterState
<1> QED BY <1>1, <1>2

(* So does a lookup. *)
LEMMA LookupTells ==
  ASSUME NEW rows \in Rows, NEW s, RouterInv(s, rows), NEW e \in Entry, NEW prev,
         NEW o \in Lookup(s, e, rows[e[1]], prev)
  PROVE  Tells(s, o, e[1], prev)
<1> DEFINE t == CheckSecond(s, e)
<1>1. RouterInv(t, rows) /\ s \in RouterState
  BY CheckSecondInv DEF RouterInv
<1>2. t.prices_nbr = s.prices_nbr /\ t.pricessent = s.pricessent
  BY <1>1 DEF CheckSecond, RouterState
<1>3. \/ o = HitOutcome(t, e)
      \/ \E sel \in NextHop(t, e[1], rows[e[1]]) : o = MissOutcome(t, e, sel, prev)
  BY DEF Lookup
<1> HIDE DEF t
<1>4. CASE o = HitOutcome(t, e)
  BY <1>1, <1>2, <1>4 DEF HitOutcome, Outcome, Tells, RouterInv, RouterState
<1>5. ASSUME NEW sel \in NextHop(t, e[1], rows[e[1]]), o = MissOutcome(t, e, sel, prev)
      PROVE  Tells(s, o, e[1], prev)
  <2> DEFINE new == Reassign(t, e, sel)
             c == LocalPrice(t, e, sel)
  <2>1. sel \in Range(rows[e[1]]) /\ sel \in Port /\ e[1] \in Dst
    BY NextHopIsAlternate, RangeOfRow DEF Entry
  <2>2. c \in Nat /\ RouterInv(new, rows) /\ new \in RouterState
    BY <1>1, <2>1, LocalPriceNat, ReassignInv DEF RouterInv
  <2>3. new.prices_nbr = s.prices_nbr /\ new.pricessent = s.pricessent
    BY <1>1, <1>2 DEF Reassign, RouterInv, RouterState
  <2> HIDE DEF new, c
  <2>4. CASE MustAdvertise(t, e, sel)
    <3>1. o = Outcome(Sent(new, e[1], c, prev), sel, Updates(e[1], c, prev))
      BY <1>5, <2>4 DEF MissOutcome, new, c
    <3>2. Tells(new, o, e[1], prev)
      BY <2>1, <2>2, <3>1, SentTells
    <3> QED BY <2>3, <3>2 DEF Tells
  <2>5. CASE ~ MustAdvertise(t, e, sel)
    <3>1. o = Outcome(new, sel, {})
      BY <1>5, <2>5 DEF MissOutcome, new, c
    <3> QED BY <2>3, <3>1 DEF Outcome, Tells
  <2> QED BY <2>4, <2>5
<1> QED BY <1>3, <1>4, <1>5

(* What sending an update does to each queue. *)
LEMMA QueueAfterUpdates ==
  ASSUME NEW l, NEW u \in Switch, NEW d \in Dst, NEW x \in Nat, NEW prev \in SUBSET Port,
         NEW i \in Ifc
  PROVE  WithUpdates(l, u, Updates(d, x, prev))[i] =
           IF i[1] = u /\ i[2] \in prev THEN Append(l[i], [dst |-> d, price |-> x]) ELSE l[i]
<1> DEFINE ms == Updates(d, x, prev)
<1>0. /\ \A m \in ms : m.port \in prev /\ m.dst = d /\ m.price = x
      /\ \A q \in prev : \E m \in ms : m.port = q
  <2>1. ASSUME NEW m \in ms PROVE m.port \in prev /\ m.dst = d /\ m.price = x
    BY <2>1 DEF Updates
  <2>2. ASSUME NEW q \in prev PROVE \E m \in ms : m.port = q
    <3> DEFINE m == [port |-> q, dst |-> d, price |-> x]
    <3>1. m \in ms /\ m.port = q
      BY DEF Updates
    <3> HIDE DEF m, ms
    <3> QED BY <3>1
  <2> QED BY <2>1, <2>2
<1> HIDE DEF ms
<1>1. (\E m \in ms : i = <<u, m.port>>) <=> (i[1] = u /\ i[2] \in prev)
  <2>1. i = <<i[1], i[2]>>
    BY Topology
  <2>2. ASSUME NEW m \in ms, i = <<u, m.port>> PROVE i[1] = u /\ i[2] \in prev
    BY <1>0, <2>2
  <2>3. ASSUME i[1] = u, i[2] \in prev PROVE \E m \in ms : i = <<u, m.port>>
    BY <1>0, <2>1, <2>3
  <2> QED BY <2>2, <2>3
<1>2. CASE \E m \in ms : i = <<u, m.port>>
  <2> DEFINE m == CHOOSE m \in ms : i = <<u, m.port>>
  <2>1. m \in ms
    BY <1>2
  <2>2. m.dst = d /\ m.price = x
    BY <2>1, <1>0
  <2>3. WithUpdates(l, u, ms)[i] = Append(l[i], [dst |-> m.dst, price |-> m.price])
    BY <1>2 DEF WithUpdates
  <2> HIDE DEF m
  <2> QED BY <1>1, <1>2, <2>2, <2>3 DEF ms
<1>3. CASE ~ \E m \in ms : i = <<u, m.port>>
  <2>1. WithUpdates(l, u, ms)[i] = l[i]
    BY <1>3 DEF WithUpdates
  <2> QED BY <1>1, <1>3, <2>1 DEF ms
<1> QED BY <1>2, <1>3

(* A handler that tells everybody or nobody keeps the agreement. *)
LEMMA TellingAgrees ==
  ASSUME NEW l, GoodLinks(l), NEW r, DOMAIN r = Switch, r = [u \in Switch |-> r[u]],
         Agreement(l, r), NEW v \in Switch, NEW d \in Dst, NEW o,
         r[v] \in RouterState, Tells(r[v], o, d, Upstream(v, d))
  PROVE  Agreement(WithUpdates(l, v, o.updates), [r EXCEPT ![v] = o.router])
<1> DEFINE k == WithUpdates(l, v, o.updates)
           q == [r EXCEPT ![v] = o.router]
<1>1. \A u \in Switch : /\ q[u].prices_nbr = r[u].prices_nbr
                        /\ u # v => q[u] = r[u]
  BY DEF Tells
<1>2. q[v].pricessent = o.router.pricessent
  OBVIOUS
<1> HIDE DEF k, q
<1> SUFFICES ASSUME NEW i \in Ifc, NEW c \in Dst, i[2] \in Upstream(i[1], c)
             PROVE  Leads(k[i], c, q[i[1]].pricessent[c],
                          q[Wire[i][1]].prices_nbr[<<Wire[i][2], c>>])
  BY DEF Agreement, k, q
<1> DEFINE heard == r[Wire[i][1]].prices_nbr[<<Wire[i][2], c>>]
           sent == r[i[1]].pricessent[c]
<1>3. /\ q[Wire[i][1]].prices_nbr[<<Wire[i][2], c>>] = heard
      /\ Leads(l[i], c, sent, heard)
  BY <1>1, Topology DEF Agreement
<1>4. CASE o.updates = {} /\ o.router.pricessent = r[v].pricessent
  <2>1. k[i] = l[i]
    BY <1>4 DEF k, WithUpdates
  <2>2. q[i[1]].pricessent[c] = sent
    BY <1>1, <1>2, <1>4, Topology
  <2> HIDE DEF heard, sent
  <2> QED BY <1>3, <2>1, <2>2
<1>5. ASSUME NEW x \in Nat, o.updates = Updates(d, x, Upstream(v, d)),
             o.router.pricessent = [r[v].pricessent EXCEPT ![d] = x]
      PROVE  Leads(k[i], c, q[i[1]].pricessent[c], heard)
  <2> DEFINE m == [dst |-> d, price |-> x]
             G == GoodCost(i) \cup GoodData(i) \cup {m}
  <2>1. Upstream(v, d) \in SUBSET Port
    BY UpstreamPorts
  <2>2. k[i] = IF i[1] = v /\ i[2] \in Upstream(v, d) THEN Append(l[i], m) ELSE l[i]
    BY <1>5, <2>1, QueueAfterUpdates DEF k
  <2>3. l[i] \in Seq(G) /\ m \in G
    BY SeqOfSubset DEF GoodLinks
  <2>4. m.price = x /\ \A b \in Dst : About(m, b) <=> b = d
    BY DEF About, IsCost
  <2>5. q[i[1]].pricessent[c] = IF i[1] = v /\ c = d THEN x ELSE sent
    <3>1. r[v].pricessent \in [Dst -> Int]
      BY DEF RouterState
    <3> QED BY <1>1, <1>2, <1>5, <3>1, Topology
  <2> HIDE DEF heard, sent, m, G
  <2>6. CASE i[1] = v /\ c = d
    BY <2>2, <2>3, <2>4, <2>5, <2>6, AppendAbout
  <2>7. CASE ~ (i[1] = v /\ c = d)
    <3>1. CASE i[1] = v /\ i[2] \in Upstream(v, d)
      BY <1>3, <2>2, <2>3, <2>4, <2>5, <2>7, <3>1, AppendOther
    <3>2. CASE ~ (i[1] = v /\ i[2] \in Upstream(v, d))
      BY <1>3, <2>2, <2>5, <2>7, <3>2
    <3> QED BY <3>1, <3>2
  <2> QED BY <2>6, <2>7
<1> QED BY <1>3, <1>4, <1>5 DEF Tells

(* A packet in a queue makes no difference. *)
LEMMA PacketAgrees ==
  ASSUME NEW l, GoodLinks(l), NEW r, Agreement(l, r), NEW i \in Ifc, NEW m, ~ IsCost(m)
  PROVE  Agreement([l EXCEPT ![i] = Append(@, m)], r)
<1> DEFINE k == [l EXCEPT ![i] = Append(@, m)]
<1> SUFFICES ASSUME NEW j \in Ifc, NEW d \in Dst, j[2] \in Upstream(j[1], d)
             PROVE  Leads(k[j], d, r[j[1]].pricessent[d],
                          r[Wire[j][1]].prices_nbr[<<Wire[j][2], d>>])
  BY DEF Agreement
<1>1. Leads(l[j], d, r[j[1]].pricessent[d], r[Wire[j][1]].prices_nbr[<<Wire[j][2], d>>])
  BY DEF Agreement
<1>2. k[j] = IF j = i THEN Append(l[j], m) ELSE l[j]
  BY DEF GoodLinks
<1> DEFINE G == GoodCost(j) \cup GoodData(j) \cup {m}
<1>3. l[j] \in Seq(G) /\ m \in G /\ ~ About(m, d)
  <2>1. l[j] \in Seq(GoodCost(j) \cup GoodData(j))
    BY DEF GoodLinks
  <2>2. GoodCost(j) \cup GoodData(j) \subseteq G /\ m \in G
    OBVIOUS
  <2> HIDE DEF G
  <2> QED BY <2>1, <2>2, SeqMonotonic DEF About
<1> HIDE DEF k, G
<1>4. CASE j = i
  BY <1>1, <1>2, <1>3, <1>4, AppendOther
<1>5. CASE j # i
  BY <1>1, <1>2, <1>5
<1> QED BY <1>4, <1>5

(* Router t has taken the first message of link i, and stored its price if *)
(* it is an update.                                                        *)
Takes(t, s, p, m) ==
  /\ t.pricessent = s.pricessent
  /\ t.prices_nbr = IF IsCost(m) THEN [s.prices_nbr EXCEPT ![<<p, m.dst>>] = m.price]
                                 ELSE s.prices_nbr

LEMMA TakingAgrees ==
  ASSUME NEW l, GoodLinks(l), NEW r, DOMAIN r = Switch, r = [u \in Switch |-> r[u]],
         \A u \in Switch : r[u] \in RouterState,
         Agreement(l, r), NEW i \in Ifc, l[i] # <<>>, NEW t,
         Takes(t, r[Wire[i][1]], Wire[i][2], Head(l[i]))
  PROVE  Agreement([l EXCEPT ![i] = Tail(@)], [r EXCEPT ![Wire[i][1]] = t])
<1> DEFINE k == [l EXCEPT ![i] = Tail(@)]
           q == [r EXCEPT ![Wire[i][1]] = t]
           m == Head(l[i])
<1> SUFFICES ASSUME NEW j \in Ifc, NEW d \in Dst, j[2] \in Upstream(j[1], d)
             PROVE  Leads(k[j], d, q[j[1]].pricessent[d],
                          q[Wire[j][1]].prices_nbr[<<Wire[j][2], d>>])
  BY DEF Agreement
<1> DEFINE sent == r[j[1]].pricessent[d]
           heard == r[Wire[j][1]].prices_nbr[<<Wire[j][2], d>>]
           now == q[Wire[j][1]].prices_nbr[<<Wire[j][2], d>>]
<1>1. Leads(l[j], d, sent, heard)
  BY DEF Agreement
<1>2. k[j] = IF j = i THEN Tail(l[j]) ELSE l[j]
  BY DEF GoodLinks
<1>3. q[j[1]].pricessent[d] = sent
  BY Topology DEF Takes
<1>4. CASE j = i
  <2>1. IF About(m, d) THEN now = m.price ELSE now = heard
    <3>1. /\ q[Wire[j][1]] = t /\ <<Wire[j][2], d>> \in Port \X Dst
          /\ r[Wire[j][1]].prices_nbr \in [Port \X Dst -> Int]
      BY <1>4, Topology DEF RouterState
    <3>2. Takes(t, r[Wire[j][1]], Wire[j][2], m)
      BY <1>4
    <3> HIDE DEF m, q
    <3>3. CASE IsCost(m) /\ m.dst = d
      BY <3>1, <3>2, <3>3 DEF Takes, About
    <3>4. CASE IsCost(m) /\ m.dst # d
      BY <3>1, <3>2, <3>4 DEF Takes, About
    <3>5. CASE ~ IsCost(m)
      BY <3>1, <3>2, <3>5 DEF Takes, About
    <3> QED BY <3>3, <3>4, <3>5
  <2> DEFINE G == GoodCost(j) \cup GoodData(j)
  <2>2. l[j] \in Seq(G) /\ l[j] # <<>> /\ Head(l[j]) = m
    BY <1>4 DEF GoodLinks
  <2> HIDE DEF sent, heard, now, m, G, k, q
  <2>3. Leads(Tail(l[j]), d, sent, now)
    BY <1>1, <2>1, <2>2, TakeLeads
  <2> QED BY <1>2, <1>3, <1>4, <2>3 DEF now
<1>5. CASE j # i
  <2>1. Wire[j][1] # Wire[i][1] \/ Wire[j][2] # Wire[i][2]
    BY <1>5, Topology
  <2>2. now = heard
    <3>1. CASE Wire[j][1] # Wire[i][1]
      BY <3>1, Topology
    <3>2. CASE Wire[j][1] = Wire[i][1] /\ Wire[j][2] # Wire[i][2]
      <4>1. /\ q[Wire[j][1]] = t /\ <<Wire[j][2], d>> \in Port \X Dst
            /\ r[Wire[i][1]].prices_nbr \in [Port \X Dst -> Int]
        BY <3>2, Topology DEF RouterState
      <4> QED BY <3>2, <4>1 DEF Takes
    <3> QED BY <2>1, <3>1, <3>2
  <2> HIDE DEF sent, heard, k, q
  <2> QED BY <1>1, <1>2, <1>3, <1>5, <2>2
<1> QED BY <1>4, <1>5

----------------------------------------------------------------------------
(* The steps of the network. *)
Agreed == losses = 0 => Agreement(link, router)

(* Forwarding a packet, from any links that agree. *)
LEMMA ForwardAgrees ==
  ASSUME IInv, NEW u \in Switch, NEW k \in Packet, NEW seen \in SUBSET Switch, NEW l,
         GoodLinks(l), Agreement(l, router), Forward(u, k, seen, l)
  PROVE  Agreement(link', router')
<1> DEFINE d == Target[k]
           e == <<d, SlotOf[k]>>
<1>1. d \in Dst /\ e \in Entry /\ e[1] = d
  BY PacketAssumption DEF Entry
<1>2. PICK o \in Lookup(router[u], e, Routes[u][d], Upstream(u, d)) :
        /\ router' = [router EXCEPT ![u] = o.router]
        /\ link' = [WithUpdates(l, u, o.updates) EXCEPT
                      ![<<u, o.port>>] = Append(@, [pkt |-> k, seen |-> seen \cup {u}])]
  BY DEF Forward
<1> HIDE DEF e
<1>3. RouterInv(router[u], Routes[u]) /\ router[u] \in RouterState
  BY DEF IInv, RouterInv
<1>4. /\ o.port \in Range(Routes[u][d]) /\ Sendable(o.updates, d, Upstream(u, d))
      /\ Tells(router[u], o, d, Upstream(u, d))
  BY <1>1, <1>2, <1>3, RoutesAreRows, LookupInv, LookupTells
<1> DEFINE w == WithUpdates(l, u, o.updates)
           m == [pkt |-> k, seen |-> seen \cup {u}]
<1>5. Agreement(w, router')
  BY <1>1, <1>2, <1>3, <1>4, TellingAgrees DEF IInv
<1>6. GoodLinks(w)
  BY <1>1, <1>4, UpdatesGood
<1>7. <<u, o.port>> \in Ifc /\ ~ IsCost(m)
  BY <1>1, <1>4, RoutesAssumption DEF IsCost
<1> HIDE DEF w, m
<1>8. link' = [w EXCEPT ![<<u, o.port>>] = Append(@, m)]
  BY <1>2 DEF w, m
<1> QED BY <1>5, <1>6, <1>7, <1>8, PacketAgrees

(* A message is taken off link i, then the handler's outcome relates to    *)
(* the router t that has stored what the message said.                     *)
LEMMA HandlerAgrees ==
  ASSUME IInv, Agreement(link, router), NEW i \in Ifc, link[i] # <<>>,
         NEW t \in RouterState, Takes(t, router[Wire[i][1]], Wire[i][2], Head(link[i])),
         NEW d \in Dst, NEW o, Tells(t, o, d, Upstream(Wire[i][1], d)),
         router' = [router EXCEPT ![Wire[i][1]] = o.router],
         link' = WithUpdates(Received(i), Wire[i][1], o.updates)
  PROVE  Agreement(link', router')
<1> DEFINE v == Wire[i][1]
           r == [router EXCEPT ![v] = t]
<1>1. v \in Switch
  BY Topology
<1>2. GoodLinks(link) /\ \A u \in Switch : router[u] \in RouterState
  BY DEF IInv, RouterInv
<1>3. Agreement(Received(i), r)
  BY <1>2, TakingAgrees DEF IInv, Received
<1>4. DOMAIN r = Switch /\ r = [u \in Switch |-> r[u]] /\ r[v] = t
  BY <1>1 DEF IInv
<1>5. router' = [r EXCEPT ![v] = o.router]
  BY <1>1 DEF IInv
<1>6. GoodLinks(Received(i))
  BY <1>2, TakeGood
<1> HIDE DEF r, v
<1>7. r[v] \in RouterState /\ Tells(r[v], o, d, Upstream(v, d))
  BY <1>4 DEF v
<1>8. Agreement(WithUpdates(Received(i), v, o.updates), [r EXCEPT ![v] = o.router])
  BY <1>1, <1>3, <1>4, <1>6, <1>7, TellingAgrees
<1> QED BY <1>5, <1>8 DEF v

LEMMA ReceiveDataAgrees ==
  ASSUME IInv, Agreement(link, router), NEW i \in Ifc, ReceiveData(i)
  PROVE  Agreement(link', router')
<1> DEFINE v == Wire[i][1]
           m == Head(link[i])
<1>1. link[i] # <<>> /\ ~ IsCost(m)
  BY DEF ReceiveData
<1>2. v \in Switch /\ v \in Dst /\ router[v] \in RouterState
  BY Topology DEF IInv, RouterInv, Switch
<1>3. m \in GoodData(i) /\ GoodLinks(Received(i))
  BY <1>1, TakeGood, Kinds DEF IInv
<1>4. m.pkt \in Packet /\ m.seen \in SUBSET Switch
  BY <1>3 DEF GoodData, Data
<1>5. Takes(router[v], router[v], Wire[i][2], m)
  BY <1>1 DEF Takes
<1>6. CASE v = Target[m.pkt]
  <2> DEFINE o == IF IsSyn[m.pkt] THEN HandleSyn(router[v], v, Upstream(v, v))
                                  ELSE Outcome(router[v], NoPort, {})
  <2>1. router' = [router EXCEPT ![v] = o.router]
        /\ link' = WithUpdates(Received(i), v, o.updates)
    BY <1>6 DEF ReceiveData
  <2>2. Tells(router[v], o, v, Upstream(v, v))
    <3>1. CASE IsSyn[m.pkt]
      BY <1>2, <3>1, SentTells DEF HandleSyn
    <3>2. CASE ~ IsSyn[m.pkt]
      BY <3>2 DEF Outcome, Tells
    <3> QED BY <3>1, <3>2
  <2> HIDE DEF o
  <2> QED BY <1>1, <1>2, <1>5, <2>1, <2>2, HandlerAgrees
<1>7. CASE v # Target[m.pkt]
  <2>1. Forward(v, m.pkt, m.seen, Received(i))
    BY <1>7 DEF ReceiveData
  <2>2. Agreement(Received(i), router)
    <3>1. /\ [router EXCEPT ![v] = router[v]] = router
          /\ GoodLinks(link) /\ \A u \in Switch : router[u] \in RouterState
      BY DEF IInv, RouterInv
    <3>2. Agreement([link EXCEPT ![i] = Tail(@)], [router EXCEPT ![v] = router[v]])
      <4> HIDE DEF m
      <4> QED BY <1>1, <1>5, <3>1, TakingAgrees DEF IInv, m
    <3> QED BY <3>1, <3>2 DEF Received
  <2> QED BY <1>2, <1>3, <1>4, <2>1, <2>2, ForwardAgrees
<1> QED BY <1>6, <1>7

LEMMA ReceiveCostAgrees ==
  ASSUME IInv, Agreement(link, router), NEW i \in Ifc, ReceiveCost(i)
  PROVE  Agreement(link', router')
<1> DEFINE v == Wire[i][1]
           m == Head(link[i])
           row == Routes[v][m.dst]
           prev == Upstream(v, m.dst)
           t == Heard(router[v], Wire[i][2], m.dst, m.price)
           o == HandleUpdate(router[v], Wire[i][2], m.dst, m.price, row, prev)
<1>1. /\ link[i] # <<>> /\ IsCost(m)
      /\ router' = [router EXCEPT ![v] = o.router]
      /\ link' = WithUpdates(Received(i), v, o.updates)
  BY DEF ReceiveCost
<1>2. v \in Switch /\ Wire[i][2] \in Port /\ router[v] \in RouterState
  BY Topology DEF IInv, RouterInv
<1>3. m.dst \in Dst /\ m.price \in Nat
  <2>1. m \in GoodCost(i)
    BY <1>1, TakeGood, Kinds DEF IInv
  <2> QED BY <2>1 DEF GoodCost
<1> HIDE DEF v, m, row, prev
<1>4. t \in RouterState
  <2> DEFINE nbr == [router[v].prices_nbr EXCEPT ![<<Wire[i][2], m.dst>>] = m.price]
  <2>1. nbr \in [Port \X Dst -> Int]
    BY <1>2, <1>3 DEF RouterState
  <2>2. t = [router[v] EXCEPT !.prices_nbr = nbr]
    BY DEF Heard
  <2> HIDE DEF nbr, t
  <2> QED BY <1>2, <2>1, <2>2 DEF RouterState
<1>5. Takes(t, router[v], Wire[i][2], m)
  BY <1>1, <1>2 DEF Takes, Heard, RouterState
<1>6. Tells(t, o, m.dst, prev)
  <2>1. CASE IsMinPrice(t, m.dst, row, t.pricessent[m.dst])
    <3>1. o = Outcome(t, NoPort, {})
      BY <2>1 DEF HandleUpdate
    <3> HIDE DEF t, o
    <3> QED BY <3>1 DEF Outcome, Tells
  <2>2. CASE ~ IsMinPrice(t, m.dst, row, t.pricessent[m.dst])
    <3>1. o = Outcome(Sent(t, m.dst, m.price, prev), NoPort, Updates(m.dst, m.price, prev))
      BY <2>2 DEF HandleUpdate
    <3> HIDE DEF t, o
    <3> QED BY <1>3, <1>4, <3>1, SentTells
  <2> QED BY <2>1, <2>2
<1> HIDE DEF t, o
<1> QED BY <1>1, <1>3, <1>4, <1>5, <1>6, HandlerAgrees DEF v, m, prev

LEMMA StepAgrees == IInv /\ Agreed /\ [Next]_vars => Agreed'
<1> SUFFICES ASSUME IInv, Agreed, [Next]_vars, losses' = 0
             PROVE  Agreement(link', router')
  BY DEF Agreed
<1>1. ASSUME NEW k \in Packet, Inject(k) PROVE Agreement(link', router')
  <2>1. Forward(Source[k], k, {}, link) /\ Agreement(link, router) /\ GoodLinks(link)
    BY <1>1 DEF Inject, Agreed, IInv
  <2>2. Source[k] \in Switch /\ {} \in SUBSET Switch
    BY PacketAssumption
  <2> QED BY <2>1, <2>2, ForwardAgrees
<1>2. ASSUME NEW i \in Ifc, ReceiveData(i) PROVE Agreement(link', router')
  <2>1. Agreement(link, router)
    BY <1>2 DEF ReceiveData, Agreed
  <2> QED BY <1>2, <2>1, ReceiveDataAgrees
<1>3. ASSUME NEW i \in Ifc, ReceiveCost(i) PROVE Agreement(link', router')
  <2>1. Agreement(link, router)
    BY <1>3 DEF ReceiveCost, Agreed
  <2> QED BY <1>3, <2>1, ReceiveCostAgrees
<1>4. ASSUME NEW i \in Ifc, Lose(i) PROVE FALSE
  BY <1>4, PacketAssumption DEF Lose, IInv
<1>5. CASE Tick
  <2>1. Agreement(link, router)
    BY <1>5 DEF Tick, Agreed
  <2>2. \A u \in Switch : /\ router'[u].pricessent = router[u].pricessent
                          /\ router'[u].prices_nbr = router[u].prices_nbr
    BY <1>5 DEF Tick, Aged, IInv, RouterInv, RouterState
  <2>3. link' = link
    BY <1>5 DEF Tick
  <2> QED BY <2>1, <2>2, <2>3, Topology DEF Agreement
<1>6. CASE UNCHANGED vars
  BY <1>6 DEF vars, Agreed
<1> QED BY <1>1, <1>2, <1>3, <1>4, <1>5, <1>6 DEF Next

LEMMA InitAgrees == Init => Agreed
<1> SUFFICES ASSUME Init, NEW i \in Ifc, NEW d \in Dst
             PROVE  Leads(link[i], d, router[i[1]].pricessent[d],
                          router[Wire[i][1]].prices_nbr[<<Wire[i][2], d>>])
  BY DEF Agreed, Agreement
<1>1. link[i] = <<>> /\ DOMAIN link[i] = {}
  BY DEF Init
<1>2. router[i[1]].pricessent[d] = 0 /\ router[Wire[i][1]].prices_nbr[<<Wire[i][2], d>>] = 0
  BY Topology DEF Init, InitRouter
<1> QED BY <1>1, <1>2 DEF Leads

(* For every route of u towards d over v, while nothing is lost: the price *)
(* v last advertised is the one u has stored, or the last one under way.   *)
THEOREM HeardIsLastSentHolds == Spec => []HeardIsLastSent
<1>1. Spec => []Agreed
  BY InitAgrees, StepAgrees, Invariance, PTL DEF Spec
<1>2. Agreed => HeardIsLastSent
  BY DEF Agreed, Agreement, Leads, IsLast, LastAbout, HeardIsLastSent
<1> QED BY <1>1, <1>2, PTL
=============================================================================
