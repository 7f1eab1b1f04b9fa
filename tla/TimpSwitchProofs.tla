--------------------------- MODULE TimpSwitchProofs ---------------------------
(***************************************************************************)
(* The invariants of a switch hold for every number of switches, ports and *)
(* hash slots, every table of routes and every environment.                *)
(***************************************************************************)
EXTENDS TimpSwitch, TimpRouterTheorems, FiniteSetTheorems

(* The inductive invariant: the router's own, and that every update is a   *)
(* message with a natural price.                                           *)
IInv ==
  /\ RouterInv(router, Routes)
  /\ outPort \in Port \cup {NoPort}
  /\ outbox \subseteq [port : Port, dst : Dst, price : Nat]

(* The fields of the step's outcome carry the invariant over. *)
LEMMA BecomesInv ==
  ASSUME NEW o, Becomes(o), RouterInv(o.router, Routes),
         o.port \in Port \cup {NoPort},
         NEW d \in Dst, Sendable(o.updates, d, Upstream[d])
  PROVE  IInv'
<1>1. Upstream[d] \subseteq Port
  BY SwitchAssumption
<1>2. o.updates \subseteq [port : Port, dst : Dst, price : Nat]
  BY <1>1 DEF Sendable
<1>. QED  BY <1>2 DEF IInv, Becomes, RouterInv, FollowsRoutes, NonNegative

(* The initial state satisfies it. *)
LEMMA InitInv == Init => IInv
<1>1. Routes \in Rows
  BY SwitchAssumption DEF Rows
<1>. QED  BY <1>1, InitRouterInv DEF Init, IInv

(* Every step preserves it. *)
LEMMA StepInv == IInv /\ [Next]_vars => IInv'
<1>. SUFFICES ASSUME IInv, [Next]_vars
              PROVE  IInv'
  OBVIOUS
<1>1. Routes \in Rows /\ RouterInv(router, Routes)
  BY SwitchAssumption DEF Rows, IInv
<1>2. ASSUME NEW d \in Dst, NEW h \in Slot, Packet(d, h)
      PROVE  IInv'
  <2>. DEFINE e == <<d, h>>
  <2>1. e \in Entry /\ e[1] = d
    BY DEF Entry
  <2>2. PICK o \in Lookup(router, e, Routes[e[1]], Upstream[d]) : Becomes(o)
    BY <1>2, <2>1 DEF Packet
  <2>3. /\ RouterInv(o.router, Routes)
        /\ o.port \in Range(Routes[d])
        /\ Sendable(o.updates, d, Upstream[d])
    BY <1>1, <2>1, <2>2, LookupInv
  <2>4. o.port \in Port
    BY <1>1, <2>3, RangeOfRow
  <2>. QED  BY <2>2, <2>3, <2>4, BecomesInv
<1>3. CASE LocalSyn
  <2>. DEFINE o == HandleSyn(router, Self, Upstream[Self])
  <2>1. Becomes(o) /\ Self \in Dst
    BY <1>3, SwitchAssumption DEF LocalSyn
  <2>2. /\ RouterInv(o.router, Routes)
        /\ o.port = NoPort
        /\ Sendable(o.updates, Self, Upstream[Self])
    BY <1>1, <2>1, HandleSynInv
  <2>. HIDE DEF o
  <2>. QED  BY <2>1, <2>2, BecomesInv
<1>4. ASSUME NEW p \in Port, NEW d \in Dst, NEW x \in HeardPrice, Update(p, d, x)
      PROVE  IInv'
  <2>. DEFINE o == HandleUpdate(router, p, d, x, Routes[d], Upstream[d])
  <2>1. Becomes(o) /\ x \in Nat
    BY <1>4, SwitchAssumption DEF Update
  <2>2. /\ RouterInv(o.router, Routes)
        /\ o.port = NoPort
        /\ Sendable(o.updates, d, Upstream[d])
    BY <1>1, <2>1, HandleUpdateInv
  <2>. HIDE DEF o
  <2>. QED  BY <2>1, <2>2, BecomesInv
<1>5. CASE Tick
  <2>. DEFINE o == Outcome(Aged(router), NoPort, {})
  <2>1. RouterInv(Aged(router), Routes)
    BY <1>1, AgedInv
  <2>2. /\ o.router = Aged(router)
        /\ o.port = NoPort
        /\ Sendable(o.updates, Self, Upstream[Self])
    BY DEF Outcome, Sendable
  <2>3. Becomes(o) /\ Self \in Dst
    BY <1>5, SwitchAssumption DEF Tick
  <2>. HIDE DEF o
  <2>. QED  BY <2>1, <2>2, <2>3, BecomesInv
<1>6. CASE UNCHANGED vars
  BY <1>6 DEF vars, IInv, RouterInv, FollowsRoutes, NonNegative
<1>. QED  BY <1>2, <1>3, <1>4, <1>5, <1>6 DEF Next

(* The inductive invariant holds of every behaviour. *)
THEOREM Invariance == Spec => []IInv
BY InitInv, StepInv, PTL DEF Spec

(* Types: no handler writes outside the tables or forwards to no port. *)
THEOREM TypeCorrect == Spec => []TypeOK
<1>1. IInv => TypeOK
  BY DEF IInv, RouterInv, TypeOK, Message
<1>. QED  BY <1>1, Invariance, PTL

(* A flowlet is only pinned to a port that routes to its destination, and  *)
(* an entry with a time stamp has a port (LookupTimp's releases index the  *)
(* price of a real port).                                                  *)
THEOREM FlowletsFollowRoutesHolds == Spec => []FlowletsFollowRoutes
<1>1. IInv => FlowletsFollowRoutes
  BY DEF IInv, RouterInv, FlowletsFollowRoutes
<1>. QED  BY <1>1, Invariance, PTL

(* No handler advertises or remembers a negative price, although the       *)
(* charge of a port can become negative.                                   *)
THEOREM AdvertisedPricesHold == Spec => []AdvertisedPricesNonNegative
<1>1. IInv => AdvertisedPricesNonNegative
  BY DEF IInv, RouterInv, AdvertisedPricesNonNegative
<1>. QED  BY <1>1, Invariance, PTL

(* Whenever a packet (re)assigns a flowlet, whether or not the lookup      *)
(* advertises, what the switches upstream were told is between the best    *)
(* price of the router and 2 above it.                                     *)
THEOREM ReassignmentIsToldHolds == Spec => ReassignmentIsTold
<1>1. ASSUME IInv, NEW d \in Dst, NEW h \in Slot,
             Packet(d, h), Misses(d, h), Upstream[d] # {}
      PROVE  ToldNearBest(d)'
  <2>. DEFINE e == <<d, h>>
              t == CheckSecond(router, e)
  <2>1. e \in Entry /\ e[1] = d /\ Routes \in Rows
    BY SwitchAssumption DEF Entry, Rows
  <2>2. RouterInv(t, Routes)
    BY <1>1, <2>1, CheckSecondInv DEF IInv
  <2>3. PICK o \in Lookup(router, e, Routes[d], Upstream[d]) : Becomes(o)
    BY <1>1 DEF Packet
  <2>4. ~ Live(t, e)
    BY <1>1 DEF Misses
  <2>5. PICK sel \in NextHop(t, d, Routes[d]) : o = MissOutcome(t, e, sel, Upstream[d])
    BY <2>1, <2>3, <2>4 DEF Lookup
  <2>. HIDE DEF t, e
  <2>6. router' = MissOutcome(t, e, sel, Upstream[d]).router
    BY <2>3, <2>5 DEF Becomes
  <2>7. /\ Price(router', d, sel) <= router'.pricessent[d]
        /\ \A p \in Range(Routes[d]) : router'.pricessent[d] <= Price(router', d, p) + 2
    BY <1>1, <2>1, <2>2, <2>5, <2>6, MissIsTold
  <2>8. sel \in Range(Routes[d])
    BY NextHopIsAlternate
  <2>. QED  BY <2>7, <2>8 DEF ToldNearBest, Price
<1>2. IInv /\ [Next]_vars =>
        [\A d \in Dst, h \in Slot :
           Packet(d, h) /\ Misses(d, h) /\ Upstream[d] # {} => ToldNearBest(d)']_vars
  BY <1>1
<1>. QED  BY <1>2, Invariance, PTL DEF Spec, ReassignmentIsTold

----------------------------------------------------------------------------
(* The ports together are charged for between 0 flowlets and as many as    *)
(* the table holds.                                                        *)

FiniteUnits(f) == IsFiniteSet(UnitsAbove(f)) /\ IsFiniteSet(UnitsBelow(f))
Total(f) == Cardinality(UnitsAbove(f)) - Cardinality(UnitsBelow(f))

HeldEntries(s) == { e \in Entry : Held(s, e) }

(* Prices g charge port p for one flowlet more than prices f. *)
OneMore(f, g, p) ==
  /\ g[p] = f[p] + 1
  /\ \A q \in Port \ {p} : g[q] = f[q]

(* Membership in the units of a table of prices. *)
LEMMA UnitsElements ==
  ASSUME NEW f \in [Port -> Int]
  PROVE  /\ UnitsAbove(f) \subseteq Port \X Int /\ UnitsBelow(f) \subseteq Port \X Int
         /\ \A q \in Port, n \in Int :
              /\ <<q, n>> \in UnitsAbove(f) <=> 1 <= n /\ n <= f[q]
              /\ <<q, n>> \in UnitsBelow(f) <=> f[q] + 1 <= n /\ n <= 0
<1>1. \A q \in Port : f[q] \in Int
  OBVIOUS
<1>2. UnitsAbove(f) \subseteq Port \X Int /\ UnitsBelow(f) \subseteq Port \X Int
  BY <1>1 DEF UnitsAbove, UnitsBelow
<1>3. ASSUME NEW q \in Port, NEW n \in Int
      PROVE  /\ <<q, n>> \in UnitsAbove(f) <=> 1 <= n /\ n <= f[q]
             /\ <<q, n>> \in UnitsBelow(f) <=> f[q] + 1 <= n /\ n <= 0
  <2>1. <<q, n>> \in UnitsAbove(f) <=> n \in 1 .. f[q]
    BY DEF UnitsAbove
  <2>2. <<q, n>> \in UnitsBelow(f) <=> n \in f[q]+1 .. 0
    BY DEF UnitsBelow
  <2>. QED  BY <1>1, <2>1, <2>2
<1>. QED  BY <1>2, <1>3

(* Two sets of pairs with the same pairs are equal. *)
LEMMA PairsEqual ==
  ASSUME NEW S \in SUBSET (Port \X Int), NEW T \in SUBSET (Port \X Int),
         \A q \in Port, n \in Int : <<q, n>> \in S <=> <<q, n>> \in T
  PROVE  S = T
OBVIOUS

(* One flowlet more on a port adds a unit above or removes one below. *)
LEMMA UnitsOneMore ==
  ASSUME NEW f \in [Port -> Int], NEW g \in [Port -> Int], NEW p \in Port, OneMore(f, g, p)
  PROVE  LET u == <<p, g[p]>> IN
         \/ /\ UnitsAbove(g) = UnitsAbove(f) \cup {u} /\ u \notin UnitsAbove(f)
            /\ UnitsBelow(g) = UnitsBelow(f)
         \/ /\ UnitsAbove(g) = UnitsAbove(f)
            /\ UnitsBelow(f) = UnitsBelow(g) \cup {u} /\ u \notin UnitsBelow(g)
<1>. DEFINE u == <<p, g[p]>>
<1>1. /\ g[p] = f[p] + 1 /\ \A q \in Port : q # p => g[q] = f[q]
      /\ \A q \in Port : f[q] \in Int /\ g[q] \in Int
  BY DEF OneMore
<1>2. \A q \in Port, n \in Int :
        /\ <<q, n>> \in UnitsAbove(f) <=> 1 <= n /\ n <= f[q]
        /\ <<q, n>> \in UnitsBelow(f) <=> f[q] + 1 <= n /\ n <= 0
        /\ <<q, n>> \in UnitsAbove(g) <=> 1 <= n /\ n <= g[q]
        /\ <<q, n>> \in UnitsBelow(g) <=> g[q] + 1 <= n /\ n <= 0
        /\ <<q, n>> \in {u} <=> q = p /\ n = g[p]
  BY UnitsElements
<1>3. /\ UnitsAbove(f) \in SUBSET (Port \X Int) /\ UnitsBelow(f) \in SUBSET (Port \X Int)
      /\ UnitsAbove(g) \in SUBSET (Port \X Int) /\ UnitsBelow(g) \in SUBSET (Port \X Int)
      /\ {u} \in SUBSET (Port \X Int)
  BY <1>1, UnitsElements
<1>. HIDE DEF u
<1>4. CASE f[p] >= 0
  <2>1. UnitsBelow(g) = UnitsBelow(f)
    <3>1. \A q \in Port, n \in Int : <<q, n>> \in UnitsBelow(g) <=> <<q, n>> \in UnitsBelow(f)
      <4>. TAKE q \in Port, n \in Int
      <4>1. CASE q = p
        BY <1>1, <1>2, <1>4, <4>1
      <4>2. CASE q # p
        BY <1>1, <1>2, <4>2
      <4>. QED  BY <4>1, <4>2
    <3>. QED  BY <1>3, <3>1, PairsEqual
  <2>2. u \notin UnitsAbove(f)
    BY <1>1, <1>2 DEF u
  <2>3. UnitsAbove(g) = UnitsAbove(f) \cup {u}
    <3>1. \A q \in Port, n \in Int :
            <<q, n>> \in UnitsAbove(g) <=> <<q, n>> \in UnitsAbove(f) \/ <<q, n>> \in {u}
      <4>. TAKE q \in Port, n \in Int
      <4>1. CASE q = p
        BY <1>1, <1>2, <1>4, <4>1
      <4>2. CASE q # p
        BY <1>1, <1>2, <4>2
      <4>. QED  BY <4>1, <4>2
    <3>. QED  BY <1>3, <3>1, PairsEqual
  <2>. QED  BY <2>1, <2>2, <2>3 DEF u
<1>5. CASE f[p] < 0
  <2>1. UnitsAbove(g) = UnitsAbove(f)
    <3>1. \A q \in Port, n \in Int : <<q, n>> \in UnitsAbove(g) <=> <<q, n>> \in UnitsAbove(f)
      <4>. TAKE q \in Port, n \in Int
      <4>1. CASE q = p
        BY <1>1, <1>2, <1>5, <4>1
      <4>2. CASE q # p
        BY <1>1, <1>2, <4>2
      <4>. QED  BY <4>1, <4>2
    <3>. QED  BY <1>3, <3>1, PairsEqual
  <2>2. u \notin UnitsBelow(g)
    BY <1>1, <1>2 DEF u
  <2>3. UnitsBelow(f) = UnitsBelow(g) \cup {u}
    <3>1. \A q \in Port, n \in Int :
            <<q, n>> \in UnitsBelow(f) <=> <<q, n>> \in UnitsBelow(g) \/ <<q, n>> \in {u}
      <4>. TAKE q \in Port, n \in Int
      <4>1. CASE q = p
        BY <1>1, <1>2, <1>5, <4>1
      <4>2. CASE q # p
        BY <1>1, <1>2, <4>2
      <4>. QED  BY <4>1, <4>2
    <3>. QED  BY <1>3, <3>1, PairsEqual
  <2>. QED  BY <2>1, <2>2, <2>3 DEF u
<1>. QED  BY <1>1, <1>4, <1>5

(* So it makes the total one more, and keeps the units finite either way. *)
LEMMA TotalOneMore ==
  ASSUME NEW f \in [Port -> Int], NEW g \in [Port -> Int], NEW p \in Port, OneMore(f, g, p),
         FiniteUnits(f) \/ FiniteUnits(g)
  PROVE  /\ FiniteUnits(f) /\ FiniteUnits(g)
         /\ Total(f) \in Int /\ Total(g) = Total(f) + 1
<1>. DEFINE u == <<p, g[p]>>
<1>1. ASSUME NEW S, NEW T, T = S \cup {u}, u \notin S, IsFiniteSet(S) \/ IsFiniteSet(T)
      PROVE  /\ IsFiniteSet(S) /\ IsFiniteSet(T)
             /\ Cardinality(S) \in Nat /\ Cardinality(T) = Cardinality(S) + 1
  <2>1. S = T \ {u}
    BY <1>1
  <2>2. IsFiniteSet(S)
    BY <1>1, <2>1, FS_RemoveElement
  <2>. QED  BY <1>1, <2>2, FS_AddElement, FS_CardinalityType
<1>2. CASE /\ UnitsAbove(g) = UnitsAbove(f) \cup {u} /\ u \notin UnitsAbove(f)
           /\ UnitsBelow(g) = UnitsBelow(f)
  <2>1. /\ IsFiniteSet(UnitsAbove(f)) /\ IsFiniteSet(UnitsAbove(g))
        /\ Cardinality(UnitsAbove(f)) \in Nat
        /\ Cardinality(UnitsAbove(g)) = Cardinality(UnitsAbove(f)) + 1
    BY <1>1, <1>2 DEF FiniteUnits
  <2>2. IsFiniteSet(UnitsBelow(f)) /\ Cardinality(UnitsBelow(f)) \in Nat
    BY <1>2, FS_CardinalityType DEF FiniteUnits
  <2>. QED  BY <1>2, <2>1, <2>2 DEF FiniteUnits, Total
<1>3. CASE /\ UnitsAbove(g) = UnitsAbove(f)
           /\ UnitsBelow(f) = UnitsBelow(g) \cup {u} /\ u \notin UnitsBelow(g)
  <2>1. /\ IsFiniteSet(UnitsBelow(f)) /\ IsFiniteSet(UnitsBelow(g))
        /\ Cardinality(UnitsBelow(g)) \in Nat
        /\ Cardinality(UnitsBelow(f)) = Cardinality(UnitsBelow(g)) + 1
    BY <1>1, <1>3 DEF FiniteUnits
  <2>2. IsFiniteSet(UnitsAbove(f)) /\ Cardinality(UnitsAbove(f)) \in Nat
    BY <1>3, FS_CardinalityType DEF FiniteUnits
  <2>. QED  BY <1>3, <2>1, <2>2 DEF FiniteUnits, Total
<1>. QED  BY <1>2, <1>3, UnitsOneMore

(* Charging a port adds 1 to the total, releasing one takes 1 away. *)
LEMMA TotalCharged ==
  ASSUME NEW f \in [Port -> Int], NEW p \in Port, FiniteUnits(f)
  PROVE  /\ Total(f) \in Int
         /\ FiniteUnits(Charged(f, p)) /\ Total(Charged(f, p)) = Total(f) + 1
         /\ FiniteUnits(Released(f, p)) /\ Total(Released(f, p)) = Total(f) - 1
<1>1. Charged(f, p) \in [Port -> Int] /\ Released(f, p) \in [Port -> Int]
  BY ChargedType
<1>2. OneMore(f, Charged(f, p), p)
  BY DEF OneMore, Charged
<1>3. OneMore(Released(f, p), f, p)
  BY DEF OneMore, Released
<1>4. Total(f) \in Int /\ FiniteUnits(Charged(f, p)) /\ Total(Charged(f, p)) = Total(f) + 1
  BY <1>1, <1>2, TotalOneMore
<1>5. /\ FiniteUnits(Released(f, p)) /\ Total(Released(f, p)) \in Int
      /\ Total(f) = Total(Released(f, p)) + 1
  BY <1>1, <1>3, TotalOneMore
<1>. QED  BY <1>4, <1>5

(* The prices and the entries that hold a flowlet, from router s to n: the *)
(* same, or one more flowlet charged and e held, or a flowlet released and *)
(* one charged while e, if it was not held already, is held now.           *)
Balanced(s, n, e) ==
  \/ n.prices_prt = s.prices_prt /\ HeldEntries(n) = HeldEntries(s)
  \/ /\ HeldEntries(n) = HeldEntries(s) \cup {e}
     /\ \E p \in Port :
          \/ e \notin HeldEntries(s) /\ n.prices_prt = Charged(s.prices_prt, p)
          \/ \E q \in Port : n.prices_prt = Charged(Released(s.prices_prt, q), p)

(* The check of the second entry releases a price or not; if it does, the  *)
(* entry of the packet is not held afterwards.                             *)
LEMMA CheckSecondBalance ==
  ASSUME NEW s, RouterInv(s, Routes), NEW e \in Entry
  PROVE  LET t == CheckSecond(s, e) IN
         /\ t.flowhash = s.flowhash
         /\ \/ t.prices_prt = s.prices_prt /\ HeldEntries(t) = HeldEntries(s)
            \/ /\ ~ Held(t, e) /\ HeldEntries(t) = HeldEntries(s) \ {e}
               /\ \E q \in Port : t.prices_prt = Released(s.prices_prt, q)
<1>. DEFINE q == SecondEntry(s, e)
            t == CheckSecond(s, e)
<1>0. s \in RouterState /\ q \in Entry
  BY SecondEntryInTable DEF RouterInv
<1>. HIDE DEF q
<1>1. CASE Expired(s, q)
  <2>1. t = [s EXCEPT !.hashRr = q, !.age = [s.age EXCEPT ![e] = Idle],
                      !.prices_prt = Released(s.prices_prt, s.flowhash[q])]
    BY <1>1 DEF CheckSecond, q
  <2>. HIDE DEF t
  <2>2. /\ t.flowhash = s.flowhash
        /\ t.age = [s.age EXCEPT ![e] = Idle]
        /\ t.prices_prt = Released(s.prices_prt, s.flowhash[q])
    BY <1>0, <2>1 DEF RouterState
  <2>3. s.flowhash[q] \in Port
    BY <1>0, <1>1 DEF Expired, RouterState
  <2>4. ~ Held(t, e) /\ HeldEntries(t) = HeldEntries(s) \ {e}
    BY <1>0, <2>2 DEF Held, HeldEntries, RouterState
  <2>. QED  BY <2>2, <2>3, <2>4 DEF t
<1>2. CASE ~ Expired(s, q)
  <2>1. t = [s EXCEPT !.hashRr = q]
    BY <1>2 DEF CheckSecond, q
  <2>2. t.flowhash = s.flowhash /\ t.age = s.age /\ t.prices_prt = s.prices_prt
    BY <1>0, <2>1 DEF RouterState
  <2>. QED  BY <2>2 DEF Held, HeldEntries
<1>. QED  BY <1>1, <1>2

(* A miss releases the entry's flowlet, if it holds one, and charges one. *)
LEMMA MissBalance ==
  ASSUME NEW s, RouterInv(s, Routes), NEW e \in Entry, NEW sel \in Range(Routes[e[1]]), NEW prev
  PROVE  LET n == MissOutcome(s, e, sel, prev).router IN
         /\ HeldEntries(n) = HeldEntries(s) \cup {e}
         /\ n.prices_prt = Charged(IF Held(s, e) THEN Released(s.prices_prt, s.flowhash[e])
                                                 ELSE s.prices_prt, sel)
<1>. DEFINE new == Reassign(s, e, sel)
            n   == MissOutcome(s, e, sel, prev).router
            rel == IF Held(s, e) THEN Released(s.prices_prt, s.flowhash[e]) ELSE s.prices_prt
<1>0. s \in RouterState /\ Routes \in Rows
  BY SwitchAssumption DEF RouterInv, Rows
<1>1. new \in RouterState
  BY <1>0, ReassignInv DEF RouterInv
<1>2. new.age = [s.age EXCEPT ![e] = 0] /\ new.prices_prt = Charged(rel, sel)
  <2>1. new = [s EXCEPT !.flowhash = [s.flowhash EXCEPT ![e] = sel],
                        !.age = [s.age EXCEPT ![e] = 0],
                        !.prices_prt = Charged(rel, sel)]
    BY DEF Reassign
  <2>. HIDE DEF new, rel
  <2>. QED  BY <1>0, <2>1 DEF RouterState
<1>. HIDE DEF new, rel
<1>3. n.age = new.age /\ n.prices_prt = new.prices_prt
  <2>1. n = new \/ \E c : n = Sent(new, e[1], c, prev)
    BY DEF MissOutcome, Outcome, new
  <2>. HIDE DEF n
  <2>2. \A c : Sent(new, e[1], c, prev).age = new.age
               /\ Sent(new, e[1], c, prev).prices_prt = new.prices_prt
    BY <1>1 DEF Sent, RouterState
  <2>. QED  BY <2>1, <2>2
<1>4. HeldEntries(n) = HeldEntries(s) \cup {e}
  BY <1>0, <1>2, <1>3 DEF HeldEntries, Held, RouterState, Idle
<1>. QED  BY <1>2, <1>3, <1>4 DEF rel

(* A lookup keeps charges and entries in balance. *)
LEMMA LookupBalance ==
  ASSUME NEW s, RouterInv(s, Routes), NEW e \in Entry, NEW prev,
         NEW o \in Lookup(s, e, Routes[e[1]], prev)
  PROVE  Balanced(s, o.router, e)
<1>. DEFINE t == CheckSecond(s, e)
<1>0. Routes \in Rows /\ s \in RouterState
  BY SwitchAssumption DEF Rows, RouterInv
<1>1. RouterInv(t, Routes) /\ t \in RouterState
  BY <1>0, CheckSecondInv DEF RouterInv
<1>2. /\ t.flowhash = s.flowhash
      /\ \/ t.prices_prt = s.prices_prt /\ HeldEntries(t) = HeldEntries(s)
         \/ /\ ~ Held(t, e) /\ HeldEntries(t) = HeldEntries(s) \ {e}
            /\ \E q \in Port : t.prices_prt = Released(s.prices_prt, q)
  BY CheckSecondBalance
<1>3. \/ Live(t, e) /\ o = HitOutcome(t, e)
      \/ \E sel \in NextHop(t, e[1], Routes[e[1]]) : o = MissOutcome(t, e, sel, prev)
  BY DEF Lookup
<1>. HIDE DEF t
<1>4. CASE Live(t, e) /\ o = HitOutcome(t, e)
  <2>1. Held(t, e)
    BY <1>4, RouterAssumption DEF Live, Held, Idle
  <2>2. o.router = [t EXCEPT !.age = [t.age EXCEPT ![e] = 0]]
    BY <1>4 DEF HitOutcome, Outcome
  <2>3. o.router.prices_prt = t.prices_prt /\ o.router.age = [t.age EXCEPT ![e] = 0]
    BY <1>1, <2>2 DEF RouterState
  <2>4. HeldEntries(o.router) = HeldEntries(t)
    BY <1>1, <2>1, <2>3 DEF HeldEntries, Held, RouterState, Idle
  <2>. QED  BY <1>2, <2>1, <2>3, <2>4 DEF Balanced
<1>5. CASE \E sel \in NextHop(t, e[1], Routes[e[1]]) : o = MissOutcome(t, e, sel, prev)
  <2>1. PICK sel \in Range(Routes[e[1]]) : o = MissOutcome(t, e, sel, prev)
    BY <1>5, NextHopIsAlternate
  <2>. DEFINE n == o.router
  <2>2. /\ HeldEntries(n) = HeldEntries(t) \cup {e}
        /\ n.prices_prt = Charged(IF Held(t, e) THEN Released(t.prices_prt, t.flowhash[e])
                                                ELSE t.prices_prt, sel)
    BY <1>1, <2>1, MissBalance
  <2>3. sel \in Port
    BY <1>0, <2>1, RangeOfRow DEF Entry
  <2>. HIDE DEF n
  <2>4. HeldEntries(n) = HeldEntries(s) \cup {e}
    BY <1>2, <2>2
  <2>5. CASE Held(t, e)
    <3>1. t.flowhash[e] \in Port
      BY <1>1, <2>5 DEF Held, RouterInv, FollowsRoutes, RouterState
    <3>. QED  BY <1>2, <2>2, <2>3, <2>4, <2>5, <3>1 DEF Balanced, n
  <2>6. CASE ~ Held(t, e)
    <3>1. n.prices_prt = Charged(t.prices_prt, sel)
      BY <2>2, <2>6
    <3>2. CASE t.prices_prt = s.prices_prt /\ HeldEntries(t) = HeldEntries(s)
      <4>1. e \notin HeldEntries(s)
        BY <2>6, <3>2 DEF HeldEntries
      <4>. QED  BY <2>3, <2>4, <3>1, <3>2, <4>1 DEF Balanced, n
    <3>3. CASE \E q \in Port : t.prices_prt = Released(s.prices_prt, q)
      BY <2>3, <2>4, <3>1, <3>3 DEF Balanced, n
    <3>. QED  BY <1>2, <3>2, <3>3
  <2>. QED  BY <2>5, <2>6
<1>. QED  BY <1>3, <1>4, <1>5

(* The total charge is bounded and its units finite. *)
ChargeInv ==
  /\ IInv
  /\ FiniteUnits(router.prices_prt)
  /\ TotalChargeBounded

(* The table is finite, and with it the entries that hold a flowlet. *)
LEMMA HeldFinite ==
  ASSUME NEW s
  PROVE  IsFiniteSet(HeldEntries(s)) /\ Cardinality(HeldEntries(s)) \in Nat
<1>1. IsFiniteSet(Dst) /\ IsFiniteSet(Slot)
  BY FS_Interval, RouterAssumption DEF Dst, Slot
<1>2. IsFiniteSet(Entry)
  BY <1>1, FS_Product DEF Entry
<1>. QED  BY <1>2, FS_Subset, FS_CardinalityType DEF HeldEntries

(* A step in balance keeps the bound. *)
LEMMA BalancedCharge ==
  ASSUME ChargeInv, NEW e \in Entry, Balanced(router, router', e)
  PROVE  FiniteUnits(router'.prices_prt) /\ TotalChargeBounded'
<1>. DEFINE f == router.prices_prt
            g == router'.prices_prt
            H == HeldEntries(router)
            G == HeldEntries(router')
<1>1. f \in [Port -> Int] /\ FiniteUnits(f) /\ Total(f) \in 0 .. Cardinality(H)
  BY DEF ChargeInv, IInv, RouterInv, RouterState, TotalChargeBounded, TotalCharge, Total,
         Occupied, HeldEntries
<1>2. IsFiniteSet(H) /\ Cardinality(H) \in Nat
  BY HeldFinite
<1>. SUFFICES FiniteUnits(g) /\ Total(g) \in 0 .. Cardinality(G)
  BY DEF TotalChargeBounded, TotalCharge, Total, Occupied, HeldEntries
<1>3. Balanced(router, router', e) <=>
        \/ g = f /\ G = H
        \/ /\ G = H \cup {e}
           /\ \E p \in Port : \/ e \notin H /\ g = Charged(f, p)
                              \/ \E q \in Port : g = Charged(Released(f, q), p)
  BY DEF Balanced
<1>. HIDE DEF f, g, H, G
<1>4. CASE g = f /\ G = H
  BY <1>1, <1>4
<1>5. ASSUME NEW p \in Port, G = H \cup {e}, e \notin H, g = Charged(f, p)
      PROVE  FiniteUnits(g) /\ Total(g) \in 0 .. Cardinality(G)
  <2>1. Cardinality(G) = Cardinality(H) + 1
    BY <1>2, <1>5, FS_AddElement
  <2>2. FiniteUnits(g) /\ Total(g) = Total(f) + 1
    BY <1>1, <1>5, TotalCharged
  <2>. QED  BY <1>1, <1>2, <2>1, <2>2
<1>6. ASSUME NEW p \in Port, NEW q \in Port, G = H \cup {e}, g = Charged(Released(f, q), p)
      PROVE  FiniteUnits(g) /\ Total(g) \in 0 .. Cardinality(G)
  <2>1. Cardinality(G) \in Nat /\ Cardinality(G) >= Cardinality(H)
    <3>1. CASE e \in H
      <4>1. G = H
        BY <1>6, <3>1
      <4>. QED  BY <1>2, <4>1
    <3>2. CASE e \notin H
      <4>1. Cardinality(G) = Cardinality(H) + 1
        BY <1>2, <1>6, <3>2, FS_AddElement
      <4>. QED  BY <1>2, <4>1
    <3>. QED  BY <3>1, <3>2
  <2>2. /\ Released(f, q) \in [Port -> Int] /\ FiniteUnits(Released(f, q))
        /\ Total(Released(f, q)) = Total(f) - 1
    BY <1>1, TotalCharged, ChargedType
  <2>3. FiniteUnits(g) /\ Total(g) = Total(f) - 1 + 1
    BY <1>6, <2>2, TotalCharged
  <2>. QED  BY <1>1, <1>2, <2>1, <2>3
<1>. QED  BY <1>3, <1>4, <1>5, <1>6

(* Updates, SYNs and time leave prices and held entries alone. *)
LEMMA OthersBalance ==
  ASSUME IInv, NEW d \in Dst, NEW o, Becomes(o),
         \/ o.router = Aged(router)
         \/ \E x, prev : o.router = Sent(router, d, x, prev)
         \/ \E p \in Port : \E x : o.router = Heard(router, p, d, x)
         \/ \E p \in Port : \E x, prev : o.router = Sent(Heard(router, p, d, x), d, x, prev)
  PROVE  router'.prices_prt = router.prices_prt /\ HeldEntries(router') = HeldEntries(router)
<1>0. router \in RouterState /\ router' = o.router
  BY DEF IInv, RouterInv, Becomes
<1>1. ASSUME NEW s, s = router \/ \E p \in Port : \E x : s = Heard(router, p, d, x), NEW x, NEW prev
      PROVE  /\ s.age = router.age /\ s.prices_prt = router.prices_prt
             /\ Sent(s, d, x, prev).age = s.age /\ Sent(s, d, x, prev).prices_prt = s.prices_prt
  <2>1. s.age = router.age /\ s.prices_prt = router.prices_prt
    BY <1>0, <1>1 DEF Heard, RouterState
  <2>2. DOMAIN s = DOMAIN router
    BY <1>0, <1>1 DEF Heard, RouterState
  <2>3. DOMAIN router = {"flowhash", "age", "prices_prt", "prices_nbr", "pricessent", "hashRr"}
    BY <1>0 DEF RouterState
  <2>. QED  BY <2>1, <2>2, <2>3 DEF Sent
<1>2. CASE o.router = Aged(router)
  <2>1. Aged(router).prices_prt = router.prices_prt
    BY <1>0 DEF Aged, RouterState
  <2>2. \A e \in Entry : Aged(router).age[e] # Idle <=> router.age[e] # Idle
    BY <1>0, RouterAssumption DEF Aged, RouterState, Age, Idle
  <2>. QED  BY <1>0, <1>2, <2>1, <2>2 DEF HeldEntries, Held
<1>3. ASSUME o.router # Aged(router)
      PROVE  router'.prices_prt = router.prices_prt /\ router'.age = router.age
  BY <1>0, <1>1, <1>3
<1>. QED  BY <1>2, <1>3 DEF HeldEntries, Held

LEMMA ChargeNext == ChargeInv /\ [Next]_vars => ChargeInv'
<1>. SUFFICES ASSUME ChargeInv, [Next]_vars
              PROVE  FiniteUnits(router'.prices_prt) /\ TotalChargeBounded'
  BY StepInv DEF ChargeInv
<1>0. IInv /\ RouterInv(router, Routes)
  BY DEF ChargeInv, IInv
<1>a. ASSUME router'.prices_prt = router.prices_prt, HeldEntries(router') = HeldEntries(router)
      PROVE  FiniteUnits(router'.prices_prt) /\ TotalChargeBounded'
  BY <1>a DEF ChargeInv, TotalChargeBounded, TotalCharge, Occupied, HeldEntries
<1>1. ASSUME NEW d \in Dst, NEW h \in Slot, Packet(d, h)
      PROVE  \E e \in Entry : Balanced(router, router', e)
  <2>. DEFINE e == <<d, h>>
  <2>1. e \in Entry /\ e[1] = d
    BY DEF Entry
  <2>2. PICK o \in Lookup(router, e, Routes[e[1]], Upstream[d]) : Becomes(o)
    BY <1>1, <2>1 DEF Packet
  <2>. HIDE DEF e
  <2>3. Balanced(router, o.router, e)
    BY <1>0, <2>1, <2>2, LookupBalance
  <2>. QED  BY <2>1, <2>2, <2>3 DEF Becomes
<1>2. CASE LocalSyn
  <2>. DEFINE o == HandleSyn(router, Self, Upstream[Self])
  <2>1. Becomes(o) /\ Self \in Dst
    BY <1>2, SwitchAssumption DEF LocalSyn
  <2>2. o.router = Sent(router, Self, 0, Upstream[Self])
    BY DEF HandleSyn, Outcome
  <2>. HIDE DEF o
  <2>. QED  BY <1>0, <1>a, <2>1, <2>2, OthersBalance
<1>3. ASSUME NEW p \in Port, NEW d \in Dst, NEW x \in HeardPrice, Update(p, d, x)
      PROVE  FiniteUnits(router'.prices_prt) /\ TotalChargeBounded'
  <2>. DEFINE o == HandleUpdate(router, p, d, x, Routes[d], Upstream[d])
  <2>1. Becomes(o)
    BY <1>3 DEF Update
  <2>2. \/ o.router = Heard(router, p, d, x)
        \/ o.router = Sent(Heard(router, p, d, x), d, x, Upstream[d])
    BY DEF HandleUpdate, Outcome
  <2>. HIDE DEF o
  <2>. QED  BY <1>0, <1>a, <2>1, <2>2, OthersBalance
<1>4. CASE Tick
  <2>. DEFINE o == Outcome(Aged(router), NoPort, {})
  <2>1. Becomes(o) /\ o.router = Aged(router) /\ Self \in Dst
    BY <1>4, SwitchAssumption DEF Tick, Outcome
  <2>. HIDE DEF o
  <2>. QED  BY <1>0, <1>a, <2>1, OthersBalance
<1>5. CASE UNCHANGED vars
  BY <1>5, <1>a DEF vars
<1>. QED  BY <1>1, <1>2, <1>3, <1>4, <1>5, BalancedCharge DEF Next

LEMMA ChargeInit == Init => ChargeInv
<1>. SUFFICES ASSUME Init PROVE FiniteUnits(router.prices_prt) /\ TotalChargeBounded
  BY InitInv DEF ChargeInv
<1>1. router.prices_prt = [p \in Port |-> 0]
  BY DEF Init, InitRouter
<1>2. UnitsAbove(router.prices_prt) = {} /\ UnitsBelow(router.prices_prt) = {}
  <2>1. \A p \in Port : 1 .. router.prices_prt[p] = {} /\ router.prices_prt[p]+1 .. 0 = {}
    BY <1>1
  <2>. QED  BY <2>1 DEF UnitsAbove, UnitsBelow
<1>3. Cardinality(Occupied) \in Nat
  BY HeldFinite DEF Occupied, HeldEntries
<1>. QED  BY <1>2, <1>3, FS_EmptySet DEF FiniteUnits, TotalChargeBounded, TotalCharge

(* However releases go astray (the round robin clears the time stamp of    *)
(* the wrong entry), the ports together are never charged for more         *)
(* flowlets than the table holds, nor for a negative number: a release     *)
(* that the round robin makes is always made up by the charge of the       *)
(* packet's own flowlet, in the same run of LookupTimp.                    *)
THEOREM TotalChargeHolds == Spec => []TotalChargeBounded
<1>1. Spec => []ChargeInv
  BY ChargeInit, ChargeNext, PTL DEF Spec
<1>2. ChargeInv => TotalChargeBounded
  BY DEF ChargeInv
<1>. QED  BY <1>1, <1>2, PTL
=============================================================================
