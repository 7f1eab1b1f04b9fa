-------------------------- MODULE TimpRouterTheorems --------------------------
(***************************************************************************)
(* Each handler of a router preserves the router's type and invariants.    *)
(* TimpSwitchProofs and TimpNetworkProofs cite these lemmas.               *)
(***************************************************************************)
EXTENDS TimpRouter, TLAPS

(* The type and the invariants of a router, as one inductive predicate. *)
RouterInv(s, rows) ==
  /\ s \in RouterState
  /\ FollowsRoutes(s, rows)
  /\ NonNegative(s)

Rows == [Dst -> Seq(Port)]

(* The round robin stays inside the table. *)
LEMMA IncHashRrInTable ==
  ASSUME NEW q \in Entry
  PROVE  IncHashRr(q) \in Entry
BY RouterAssumption DEF Entry, Dst, Slot, IncHashRr

(* The second entry is another entry of the table. *)
LEMMA SecondEntryInTable ==
  ASSUME NEW s \in RouterState, NEW e \in Entry
  PROVE  SecondEntry(s, e) \in Entry /\ SecondEntry(s, e) # e
<1>1. s.hashRr \in Entry
  BY DEF RouterState
<1>2. ASSUME NEW q \in Entry
      PROVE  IncHashRr(q) # q
  BY RouterAssumption DEF Entry, Dst, Slot, IncHashRr
<1>. QED  BY <1>1, <1>2, IncHashRrInTable DEF SecondEntry

(* Every port a row lists is a port. *)
LEMMA RangeOfRow ==
  ASSUME NEW rows \in Rows, NEW d \in Dst
  PROVE  Range(rows[d]) \subseteq Port
BY DEF Rows, Range

(* The next hop is one of the alternates. *)
LEMMA NextHopIsAlternate ==
  ASSUME NEW s, NEW d, NEW row
  PROVE  NextHop(s, d, row) \subseteq Range(row)
BY DEF NextHop, Range

(* Charging or releasing a port leaves a table of integer prices. *)
LEMMA ChargedType ==
  ASSUME NEW prices \in [Port -> Int], NEW p \in Port
  PROVE  /\ Charged(prices, p) \in [Port -> Int]
         /\ Released(prices, p) \in [Port -> Int]
BY DEF Charged, Released

(* The initial state has the invariants. *)
LEMMA InitRouterInv ==
  ASSUME NEW rows \in Rows
  PROVE  RouterInv(InitRouter, rows)
<1>1. InitRouter \in RouterState
  BY RouterAssumption DEF InitRouter, RouterState, Entry, Dst, Slot, Age, Idle, NoPort
<1>2. FollowsRoutes(InitRouter, rows)
  BY DEF InitRouter, FollowsRoutes
<1>3. NonNegative(InitRouter)
  BY DEF InitRouter, NonNegative
<1>. QED  BY <1>1, <1>2, <1>3 DEF RouterInv

(* Time passing preserves the invariants. *)
LEMMA AgedInv ==
  ASSUME NEW rows \in Rows, NEW s, RouterInv(s, rows)
  PROVE  RouterInv(Aged(s), rows)
<1>. USE DEF RouterInv
<1>1. \A e \in Entry : IF s.age[e] \in {Idle, Timeout} THEN s.age[e] \in Age
                                                       ELSE s.age[e] + 1 \in Age
  BY RouterAssumption DEF RouterState, Age, Idle
<1>2. Aged(s) \in RouterState
  BY <1>1 DEF Aged, RouterState
<1>3. FollowsRoutes(Aged(s), rows)
  BY RouterAssumption DEF Aged, FollowsRoutes, RouterState, Age, Idle
<1>4. NonNegative(Aged(s))
  BY DEF Aged, NonNegative, RouterState
<1>. QED  BY <1>2, <1>3, <1>4

(* The check of the second entry preserves the invariants. *)
LEMMA CheckSecondInv ==
  ASSUME NEW rows \in Rows, NEW s, RouterInv(s, rows), NEW e \in Entry
  PROVE  RouterInv(CheckSecond(s, e), rows)
<1>. DEFINE q == SecondEntry(s, e)
            t == CheckSecond(s, e)
<1>. USE DEF RouterInv
<1>0. q \in Entry
  BY SecondEntryInTable
<1>. HIDE DEF q
<1>1. CASE Expired(s, q)
  <2>0. s \in RouterState
    OBVIOUS
  <2>1. t = [flowhash |-> s.flowhash, age |-> [s.age EXCEPT ![e] = Idle],
             prices_prt |-> Released(s.prices_prt, s.flowhash[q]),
             prices_nbr |-> s.prices_nbr, pricessent |-> s.pricessent, hashRr |-> q]
    BY <1>1, <2>0 DEF CheckSecond, q, RouterState
  <2>a. Released(s.prices_prt, s.flowhash[q]) \in [Port -> Int]
    BY <1>1, <2>0, <1>0, ChargedType DEF RouterState, Expired
  <2>2. t \in RouterState
    BY <2>0, <2>1, <2>a, <1>0, RouterAssumption DEF RouterState, Age, Idle
  <2>3. FollowsRoutes(t, rows)
    BY <2>1 DEF FollowsRoutes, RouterState
  <2>4. NonNegative(t)
    BY <2>1 DEF NonNegative, RouterState
  <2>. QED  BY <2>2, <2>3, <2>4
<1>2. CASE ~ Expired(s, q)
  <2>1. t = [s EXCEPT !.hashRr = q]
    BY <1>2 DEF CheckSecond, q
  <2>2. t \in RouterState
    BY <2>1, <1>0 DEF RouterState
  <2>3. FollowsRoutes(t, rows)
    BY <2>1 DEF FollowsRoutes, RouterState
  <2>4. NonNegative(t)
    BY <2>1 DEF NonNegative, RouterState
  <2>. QED  BY <2>2, <2>3, <2>4
<1>. QED  BY <1>1, <1>2

(* A router's price for a port is at least what it heard there. *)
LEMMA PriceNat ==
  ASSUME NEW rows \in Rows, NEW s, RouterInv(s, rows), NEW d \in Dst, NEW p \in Port
  PROVE  Price(s, d, p) \in Nat
BY DEF Price, RouterInv, RouterState, NonNegative

(* What a router advertises for a port is a natural number. *)
LEMMA LocalPriceNat ==
  ASSUME NEW rows \in Rows, NEW s, RouterInv(s, rows), NEW e \in Entry, NEW sel \in Port
  PROVE  LocalPrice(s, e, sel) \in Nat
<1>1. e[1] \in Dst
  BY DEF Entry
<1>. QED  BY <1>1, PriceNat DEF LocalPrice

(* Recording an advertised price preserves the invariants. *)
LEMMA SentInv ==
  ASSUME NEW rows \in Rows, NEW s, RouterInv(s, rows), NEW d \in Dst,
         NEW price \in Nat, NEW prev
  PROVE  RouterInv(Sent(s, d, price, prev), rows)
<1>. USE DEF RouterInv
<1>1. CASE prev = {}
  BY <1>1 DEF Sent
<1>2. CASE prev # {}
  <2>. DEFINE t == Sent(s, d, price, prev)
  <2>0. s \in RouterState
    OBVIOUS
  <2>1. t = [flowhash |-> s.flowhash, age |-> s.age, prices_prt |-> s.prices_prt,
             prices_nbr |-> s.prices_nbr,
             pricessent |-> [s.pricessent EXCEPT ![d] = price], hashRr |-> s.hashRr]
    BY <1>2, <2>0 DEF Sent, RouterState
  <2>2. t \in RouterState
    BY <2>0, <2>1 DEF RouterState
  <2>3. FollowsRoutes(t, rows)
    BY <2>1 DEF FollowsRoutes
  <2>4. NonNegative(t)
    BY <2>0, <2>1 DEF NonNegative, RouterState
  <2>. QED  BY <2>2, <2>3, <2>4
<1>. QED  BY <1>1, <1>2

(* A hit refreshes the entry and preserves the invariants. *)
LEMMA HitInv ==
  ASSUME NEW rows \in Rows, NEW s, RouterInv(s, rows), NEW e \in Entry, Live(s, e)
  PROVE  /\ RouterInv(HitOutcome(s, e).router, rows)
         /\ HitOutcome(s, e).port \in Range(rows[e[1]])
         /\ HitOutcome(s, e).updates = {}
<1>. USE DEF RouterInv
<1>. DEFINE t == HitOutcome(s, e).router
<1>0. s \in RouterState
  OBVIOUS
<1>1. t = [flowhash |-> s.flowhash, age |-> [s.age EXCEPT ![e] = 0],
           prices_prt |-> s.prices_prt, prices_nbr |-> s.prices_nbr,
           pricessent |-> s.pricessent, hashRr |-> s.hashRr]
  BY <1>0 DEF HitOutcome, Outcome, RouterState
<1>2. t \in RouterState
  BY <1>0, <1>1, RouterAssumption DEF RouterState, Age, Idle
<1>3. FollowsRoutes(t, rows)
  BY <1>0, <1>1 DEF FollowsRoutes, Live, RouterState
<1>4. NonNegative(t)
  BY <1>0, <1>1 DEF NonNegative
<1>5. /\ HitOutcome(s, e).port = s.flowhash[e]
      /\ HitOutcome(s, e).updates = {}
  BY DEF HitOutcome, Outcome
<1>. QED  BY <1>2, <1>3, <1>4, <1>5 DEF FollowsRoutes, Live

(* Moving a flowlet to an alternate preserves the invariants. *)
LEMMA ReassignInv ==
  ASSUME NEW rows \in Rows, NEW s, RouterInv(s, rows), NEW e \in Entry,
         NEW sel \in Range(rows[e[1]])
  PROVE  RouterInv(Reassign(s, e, sel), rows)
<1>. USE DEF RouterInv
<1>. DEFINE t == Reassign(s, e, sel)
            released == IF Held(s, e) THEN Released(s.prices_prt, s.flowhash[e])
                                      ELSE s.prices_prt
<1>0. s \in RouterState
  OBVIOUS
<1>1. sel \in Port /\ e[1] \in Dst
  BY RangeOfRow DEF Entry
<1>2. released \in [Port -> Int]
  <2>1. CASE Held(s, e)
    <3>1. s.flowhash[e] \in Port
      BY <1>0, <2>1 DEF Held, FollowsRoutes, RouterState
    <3>. QED  BY <1>0, <2>1, <3>1, ChargedType DEF RouterState
  <2>2. CASE ~ Held(s, e)
    BY <1>0, <2>2 DEF RouterState
  <2>. QED  BY <2>1, <2>2
<1>3. Charged(released, sel) \in [Port -> Int]
  BY <1>1, <1>2, ChargedType
<1>4. t = [flowhash |-> [s.flowhash EXCEPT ![e] = sel], age |-> [s.age EXCEPT ![e] = 0],
           prices_prt |-> Charged(released, sel), prices_nbr |-> s.prices_nbr,
           pricessent |-> s.pricessent, hashRr |-> s.hashRr]
  <2>1. t = [s EXCEPT !.flowhash = [s.flowhash EXCEPT ![e] = sel],
                      !.age = [s.age EXCEPT ![e] = 0],
                      !.prices_prt = Charged(released, sel)]
    BY DEF Reassign
  <2>. HIDE DEF t, released
  <2>. QED  BY <1>0, <2>1 DEF RouterState
<1>. HIDE DEF t, released
<1>5. t \in RouterState
  BY <1>0, <1>1, <1>3, <1>4, RouterAssumption DEF RouterState, Age, Idle
<1>6. FollowsRoutes(t, rows)
  BY <1>0, <1>1, <1>4 DEF FollowsRoutes, RouterState, NoPort, Port
<1>7. NonNegative(t)
  BY <1>0, <1>4 DEF NonNegative
<1>. QED  BY <1>5, <1>6, <1>7 DEF t

(* Updates for d that a handler may send: natural prices, to ports of prev. *)
Sendable(updates, d, prev) ==
  updates \subseteq [port : prev, dst : {d}, price : Nat]

(* What sendcost sends is that. *)
LEMMA UpdatesSendable ==
  ASSUME NEW d, NEW price \in Nat, NEW prev
  PROVE  Sendable(Updates(d, price, prev), d, prev)
BY DEF Sendable, Updates

(* A miss preserves the invariants, whichever alternate was selected. *)
LEMMA MissInv ==
  ASSUME NEW rows \in Rows, NEW s, RouterInv(s, rows), NEW e \in Entry,
         NEW sel \in Range(rows[e[1]]), NEW prev
  PROVE  LET o == MissOutcome(s, e, sel, prev) IN
         /\ RouterInv(o.router, rows)
         /\ o.port = sel
         /\ Sendable(o.updates, e[1], prev)
<1>. DEFINE new == Reassign(s, e, sel)
            c == LocalPrice(s, e, sel)
<1>1. sel \in Port /\ e[1] \in Dst
  BY RangeOfRow DEF Entry
<1>2. c \in Nat
  BY <1>1, LocalPriceNat
<1>3. RouterInv(new, rows)
  BY ReassignInv
<1>. HIDE DEF new, c
<1>4. RouterInv(Sent(new, e[1], c, prev), rows)
  BY <1>1, <1>2, <1>3, SentInv
<1>5. Sendable(Updates(e[1], c, prev), e[1], prev) /\ Sendable({}, e[1], prev)
  BY <1>2, UpdatesSendable DEF Sendable
<1>. QED  BY <1>3, <1>4, <1>5 DEF MissOutcome, Outcome, new, c

(* A lookup preserves the invariants and forwards to an alternate. *)
LEMMA LookupInv ==
  ASSUME NEW rows \in Rows, NEW s, RouterInv(s, rows), NEW e \in Entry, NEW prev,
         NEW o \in Lookup(s, e, rows[e[1]], prev)
  PROVE  /\ RouterInv(o.router, rows)
         /\ o.port \in Range(rows[e[1]])
         /\ Sendable(o.updates, e[1], prev)
<1>. DEFINE t == CheckSecond(s, e)
<1>1. RouterInv(t, rows)
  BY CheckSecondInv
<1>2. \/ Live(t, e) /\ o = HitOutcome(t, e)
      \/ \E sel \in NextHop(t, e[1], rows[e[1]]) : o = MissOutcome(t, e, sel, prev)
  BY DEF Lookup
<1>. HIDE DEF t
<1>3. CASE Live(t, e) /\ o = HitOutcome(t, e)
  BY <1>1, <1>3, HitInv DEF Sendable
<1>4. CASE \E sel \in NextHop(t, e[1], rows[e[1]]) : o = MissOutcome(t, e, sel, prev)
  <2>1. PICK sel \in Range(rows[e[1]]) : o = MissOutcome(t, e, sel, prev)
    BY <1>4, NextHopIsAlternate
  <2>. QED  BY <1>1, <2>1, MissInv
<1>. QED  BY <1>2, <1>3, <1>4

(* No alternate is cheaper than the next hop. *)
LEMMA NextHopIsCheapest ==
  ASSUME NEW rows \in Rows, NEW s, RouterInv(s, rows), NEW d \in Dst,
         NEW sel \in NextHop(s, d, rows[d]), NEW p \in Range(rows[d])
  PROVE  Price(s, d, sel) <= Price(s, d, p)
<1>1. sel \in Port /\ p \in Port
  BY NextHopIsAlternate, RangeOfRow
<1>2. Price(s, d, sel) \in Nat /\ Price(s, d, p) \in Nat
  BY <1>1, PriceNat
<1>3. ~ Beats(s, d, p, sel)
  BY DEF NextHop, Range
<1>. QED  BY <1>2, <1>3 DEF Beats

(* After a miss the router remembers having advertised a price that its    *)
(* new next hop does not exceed and that is at most 2 above the cheapest   *)
(* alternate, also when it kept silent.                                    *)
LEMMA MissIsTold ==
  ASSUME NEW rows \in Rows, NEW s, RouterInv(s, rows), NEW e \in Entry,
         NEW sel \in NextHop(s, e[1], rows[e[1]]), NEW prev, prev # {}
  PROVE  LET n == MissOutcome(s, e, sel, prev).router IN
         /\ Price(n, e[1], sel) <= n.pricessent[e[1]]
         /\ \A p \in Range(rows[e[1]]) : n.pricessent[e[1]] <= Price(n, e[1], p) + 2
<1>. DEFINE d == e[1]
            n == MissOutcome(s, e, sel, prev).router
            new == Reassign(s, e, sel)
            c == LocalPrice(s, e, sel)
            stays == Held(s, e) /\ s.flowhash[e] = sel
            released == IF Held(s, e) THEN Released(s.prices_prt, s.flowhash[e])
                                      ELSE s.prices_prt
<1>0. s \in RouterState /\ d \in Dst /\ sel \in Port /\ c \in Nat
  <2>1. d \in Dst /\ sel \in Port
    BY NextHopIsAlternate, RangeOfRow DEF Entry
  <2>. QED  BY <2>1, LocalPriceNat DEF RouterInv
<1>1. /\ new.prices_nbr = s.prices_nbr
      /\ new.prices_prt = Charged(released, sel)
      /\ new.pricessent = s.pricessent
      /\ new \in RouterState
  <2>1. new \in RouterState
    BY ReassignInv, NextHopIsAlternate DEF RouterInv
  <2>2. new = [s EXCEPT !.flowhash = [s.flowhash EXCEPT ![e] = sel],
                        !.age = [s.age EXCEPT ![e] = 0],
                        !.prices_prt = Charged(released, sel)]
    BY DEF Reassign
  <2>. HIDE DEF new, released
  <2>. QED  BY <1>0, <2>1, <2>2 DEF RouterState
<1>2. /\ n.prices_nbr = s.prices_nbr
      /\ n.prices_prt = Charged(released, sel)
      /\ n.pricessent[d] = c
  <2>1. CASE MustAdvertise(s, e, sel)
    <3>1. n = [new EXCEPT !.pricessent = [new.pricessent EXCEPT ![d] = c]]
      BY <2>1 DEF MissOutcome, Outcome, Sent
    <3>. HIDE DEF n, new, c, released, d
    <3>. QED  BY <1>0, <1>1, <3>1 DEF RouterState
  <2>2. CASE ~ MustAdvertise(s, e, sel)
    <3>1. n = new /\ s.pricessent[d] = c
      BY <2>2 DEF MissOutcome, Outcome, MustAdvertise
    <3>. HIDE DEF n, new, c, released, d
    <3>. QED  BY <1>1, <3>1
  <2>. QED  BY <2>1, <2>2
<1>3. c = Price(s, d, sel) + (IF stays THEN 0 ELSE 1)
  BY DEF LocalPrice
<1>4. /\ \A p \in Port : n.prices_prt[p] \in Int /\ n.prices_prt[p] >= s.prices_prt[p] - 1
      /\ n.prices_prt[sel] <= s.prices_prt[sel] + (IF stays THEN 0 ELSE 1)
  <2>1. Held(s, e) => s.flowhash[e] \in Port
    BY <1>0 DEF Held, RouterInv, FollowsRoutes, RouterState
  <2>. HIDE DEF n
  <2>2. s.prices_prt \in [Port -> Int]
    BY <1>0 DEF RouterState
  <2>3. CASE Held(s, e)
    BY <1>0, <1>2, <2>1, <2>2, <2>3 DEF Charged, Released
  <2>4. CASE ~ Held(s, e)
    BY <1>0, <1>2, <2>2, <2>4 DEF Charged
  <2>. QED  BY <2>3, <2>4
<1>. HIDE DEF n, c, d, stays, released, new
<1>5. \A p \in Port : s.prices_nbr[<<p, d>>] \in Int /\ s.prices_prt[p] \in Int
  BY <1>0 DEF RouterState
<1>6. Price(n, d, sel) <= c
  BY <1>0, <1>2, <1>3, <1>4, <1>5 DEF Price
<1>7. ASSUME NEW p \in Range(rows[d])
      PROVE  c <= Price(n, d, p) + 2
  <2>1. p \in Port
    BY <1>0, RangeOfRow
  <2>2. Price(s, d, sel) <= Price(s, d, p)
    BY <1>0, NextHopIsCheapest DEF d
  <2>3. Price(s, d, p) <= Price(n, d, p) + 1
    BY <1>2, <1>4, <1>5, <2>1 DEF Price
  <2>4. Price(s, d, sel) \in Int /\ Price(s, d, p) \in Int /\ Price(n, d, p) \in Int
    BY <1>0, <1>2, <1>4, <1>5, <2>1 DEF Price
  <2>. QED  BY <1>3, <2>2, <2>3, <2>4
<1>. QED  BY <1>2, <1>6, <1>7 DEF n, d

(* Storing a heard price preserves the invariants. *)
LEMMA HeardInv ==
  ASSUME NEW rows \in Rows, NEW s, RouterInv(s, rows), NEW p \in Port, NEW d \in Dst,
         NEW x \in Nat
  PROVE  RouterInv(Heard(s, p, d, x), rows)
<1>. USE DEF RouterInv
<1>. DEFINE t == Heard(s, p, d, x)
<1>0. s \in RouterState
  OBVIOUS
<1>1. t = [flowhash |-> s.flowhash, age |-> s.age, prices_prt |-> s.prices_prt,
           prices_nbr |-> [s.prices_nbr EXCEPT ![<<p, d>>] = x],
           pricessent |-> s.pricessent, hashRr |-> s.hashRr]
  <2>. DEFINE nbr == [s.prices_nbr EXCEPT ![<<p, d>>] = x]
  <2>1. t = [s EXCEPT !.prices_nbr = nbr]
    BY DEF Heard
  <2>. HIDE DEF t, nbr
  <2>2. t = [flowhash |-> s.flowhash, age |-> s.age, prices_prt |-> s.prices_prt,
             prices_nbr |-> nbr, pricessent |-> s.pricessent, hashRr |-> s.hashRr]
    BY <1>0, <2>1 DEF RouterState
  <2>. QED  BY <2>2 DEF nbr
<1>2. t \in RouterState
  BY <1>0, <1>1 DEF RouterState
<1>3. FollowsRoutes(t, rows)
  BY <1>1 DEF FollowsRoutes
<1>4. NonNegative(t)
  BY <1>0, <1>1 DEF NonNegative, RouterState
<1>. QED  BY <1>2, <1>3, <1>4

(* An update preserves the invariants. *)
LEMMA HandleUpdateInv ==
  ASSUME NEW rows \in Rows, NEW s, RouterInv(s, rows), NEW p \in Port, NEW d \in Dst,
         NEW x \in Nat, NEW row, NEW prev
  PROVE  LET o == HandleUpdate(s, p, d, x, row, prev) IN
         /\ RouterInv(o.router, rows)
         /\ o.port = NoPort
         /\ Sendable(o.updates, d, prev)
<1>. DEFINE t == Heard(s, p, d, x)
<1>1. RouterInv(t, rows)
  BY HeardInv
<1>2. RouterInv(Sent(t, d, x, prev), rows)
  BY <1>1, SentInv
<1>3. Sendable(Updates(d, x, prev), d, prev) /\ Sendable({}, d, prev)
  BY UpdatesSendable DEF Sendable
<1>. HIDE DEF t
<1>. QED  BY <1>1, <1>2, <1>3 DEF HandleUpdate, Outcome, t

(* A local SYN preserves the invariants. *)
LEMMA HandleSynInv ==
  ASSUME NEW rows \in Rows, NEW s, RouterInv(s, rows), NEW d \in Dst, NEW prev
  PROVE  LET o == HandleSyn(s, d, prev) IN
         /\ RouterInv(o.router, rows)
         /\ o.port = NoPort
         /\ Sendable(o.updates, d, prev)
BY SentInv, UpdatesSendable DEF HandleSyn, Outcome
=============================================================================
