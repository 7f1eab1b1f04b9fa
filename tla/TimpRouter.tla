------------------------------ MODULE TimpRouter ------------------------------
(***************************************************************************)
(* The state of one TIMP router (class Timp, ns3/timp/model/timp.cc) and   *)
(* the effect of each of its handlers, as operators on that state.  The    *)
(* module has no variables: TimpSwitch gives one router an arbitrary       *)
(* environment, TimpNetwork connects several by links.                     *)
(*                                                                         *)
(* Time.  The code keeps flowtime[e] = the time of the last packet of      *)
(* entry e, 0 when the entry is free, and only ever compares               *)
(* curtime - flowtime[e] with FLOWLET_TIMEOUT.  The model keeps that       *)
(* difference, cut off at Timeout: age[e] = Idle stands for flowtime = 0,  *)
(* age[e] = Timeout for "at least the timeout ago".  (A free entry fails   *)
(* the comparison of line 525 once the clock is past the first 200us; the  *)
(* simulation starts its first flow at 1ms.)                               *)
(***************************************************************************)
EXTENDS Integers, Sequences, Functions

CONSTANTS
  SwCount,    \* m_swcount: the number of switches; their ids are the dstids
  HashSize,   \* DST_HASH_SIZE: hash slots per destination
  MaxPort,    \* the switch interfaces are 1..MaxPort
  Timeout     \* FLOWLET_TIMEOUT, in ticks of the clock

ASSUME RouterAssumption ==
  /\ SwCount \in Nat /\ SwCount >= 2
  /\ HashSize \in Nat /\ HashSize >= 2
  /\ MaxPort \in Nat /\ MaxPort >= 1
  /\ Timeout \in Nat /\ Timeout >= 1

Dst   == 0 .. SwCount-1
Slot  == 0 .. HashSize-1
Port  == 1 .. MaxPort
Entry == Dst \X Slot       \* index dstid*DST_HASH_SIZE + fh of the flow tables

NoPort == 0                \* flowhash of an entry that never had a flowlet
Idle   == -1               \* flowtime = 0
Age    == Idle .. Timeout

RouterState ==
  [ flowhash   : [Entry -> Port \cup {NoPort}],  \* port of the entry's flowlet
    age        : [Entry -> Age],                 \* flowtime, see above
    prices_prt : [Port -> Int],                  \* flowlets charged to a port
    prices_nbr : [Port \X Dst -> Int],           \* last price heard on a port
    pricessent : [Dst -> Int],                   \* last price advertised
    hashRr     : Entry ]                         \* m_hashRoundRobin

InitRouter ==
  [ flowhash   |-> [e \in Entry |-> NoPort],
    age        |-> [e \in Entry |-> Idle],
    prices_prt |-> [p \in Port |-> 0],
    prices_nbr |-> [pd \in Port \X Dst |-> 0],
    pricessent |-> [d \in Dst |-> 0],
    hashRr     |-> <<0, 0>> ]

(* The clock advances by one tick. *)
Aged(s) ==
  [s EXCEPT !.age = [e \in Entry |->
     IF s.age[e] \in {Idle, Timeout} THEN s.age[e] ELSE s.age[e] + 1]]

(* incHashRr: one step of the round robin.  It wraps after the row of      *)
(* destination SwCount-2, so the last destination's row is never visited.  *)
IncHashRr(q) ==
  IF q[2] < HashSize-1 THEN <<q[1], q[2]+1>>
  ELSE IF q[1] < SwCount-2 THEN <<q[1]+1, 0>>
  ELSE <<0, 0>>

(* The "second hash table entry" a packet of entry e looks at. *)
SecondEntry(s, e) ==
  LET q == IncHashRr(s.hashRr) IN IF q = e THEN IncHashRr(q) ELSE q

(* The prices of ports with one flowlet more, or one less, on port p. *)
Charged(prices, p)  == [prices EXCEPT ![p] = @ + 1]
Released(prices, p) == [prices EXCEPT ![p] = @ - 1]

Expired(s, q) == s.age[q] = Timeout /\ s.flowhash[q] # NoPort

(* Mutant: the index is stored incremented past the row's end. *)
CheckSecondNoWrap(s, e) ==
  LET q == SecondEntry(s, e) IN [s EXCEPT !.hashRr = <<q[1], q[2] + 1>>]

(* Mutant: no flowtime is cleared when a price is released. *)
CheckSecondNoClear(s, e) ==
  LET q == SecondEntry(s, e) IN
  IF Expired(s, q)
  THEN [s EXCEPT !.hashRr = q, !.prices_prt = Released(s.prices_prt, s.flowhash[q])]
  ELSE [s EXCEPT !.hashRr = q]

(* Every lookup of entry e first checks the second entry for expiration:   *)
(* its port's price is released, and the flowtime of e (not of the second  *)
(* entry) is cleared.                                                      *)
CheckSecond(s, e) ==
  LET q == SecondEntry(s, e) IN
  IF Expired(s, q)
  THEN [s EXCEPT !.hashRr = q,
                 !.age = [s.age EXCEPT ![e] = Idle],
                 !.prices_prt = Released(s.prices_prt, s.flowhash[q])]
  ELSE [s EXCEPT !.hashRr = q]

----------------------------------------------------------------------------
(* Route selection.  row is the destination's row of alternaterutes: the   *)
(* ports towards it in the order AddTorRouteTo appended them.              *)

Price(s, d, p) ==
  IF s.prices_nbr[<<p, d>>] >= s.prices_prt[p]
  THEN s.prices_nbr[<<p, d>>] ELSE s.prices_prt[p]

(* Port p beats port q: a lower price or, at equal prices, a lower price   *)
(* of the local link.                                                      *)
Beats(s, d, p, q) ==
  \/ Price(s, d, p) < Price(s, d, q)
  \/ Price(s, d, p) = Price(s, d, q) /\ s.prices_prt[p] < s.prices_prt[q]

(* Mutant: the loop runs over all ports, not over the alternates. *)
NextHopOfAllPorts(s, d, row) ==
  { p \in Port : \A q \in Port : /\ ~ Beats(s, d, q, p)
                                 /\ q < p => Beats(s, d, p, q) }

(* The next hop the selection loop ends with, as a set of one port: the    *)
(* first port of the row that no other port beats.                         *)
NextHop(s, d, row) ==
  { row[i] : i \in { i \in DOMAIN row :
      \A j \in DOMAIN row : /\ ~ Beats(s, d, row[j], row[i])
                            /\ j < i => Beats(s, d, row[i], row[j]) } }

----------------------------------------------------------------------------
(* sendcost: the update goes to every port of prev, the destination's row  *)
(* of previousPorts; pricessent records it only if it was sent.            *)

Updates(d, price, prev) == { [port |-> q, dst |-> d, price |-> price] : q \in prev }

(* Mutant: pricessent is not recorded. *)
SentForgotten(s, d, price, prev) == s

Sent(s, d, price, prev) ==
  IF prev = {} THEN s ELSE [s EXCEPT !.pricessent = [s.pricessent EXCEPT ![d] = price]]

----------------------------------------------------------------------------
(* LookupTimp, from line 451: a packet of entry e.                         *)

Live(s, e) == s.flowhash[e] # NoPort /\ s.age[e] \in 0 .. Timeout-1

Held(s, e) == s.age[e] # Idle

(* Mutant: the price of the local link alone, not of the path. *)
LocalPriceOfPort(s, e, sel) ==
  s.prices_prt[sel] + IF Held(s, e) /\ s.flowhash[e] = sel THEN 0 ELSE 1

(* What the router will claim to cost once port sel takes the flowlet. *)
LocalPrice(s, e, sel) ==
  Price(s, e[1], sel) + IF Held(s, e) /\ s.flowhash[e] = sel THEN 0 ELSE 1

(* Mutant: only a change of the port is advertised. *)
AdvertiseMoves(s, e, sel) == s.flowhash[e] # sel

MustAdvertise(s, e, sel) ==
  s.flowhash[e] # sel \/ s.pricessent[e[1]] # LocalPrice(s, e, sel)

(* Mutant: the entry keeps its old port. *)
ReassignKeepsPort(s, e, sel) ==
  [s EXCEPT !.age = [s.age EXCEPT ![e] = 0], !.prices_prt = Charged(s.prices_prt, sel)]

(* The entry's old flowlet, if any, is released; the new one is charged. *)
Reassign(s, e, sel) ==
  LET released == IF Held(s, e) THEN Released(s.prices_prt, s.flowhash[e])
                                ELSE s.prices_prt
  IN  [s EXCEPT !.flowhash = [s.flowhash EXCEPT ![e] = sel],
                !.age = [s.age EXCEPT ![e] = 0],
                !.prices_prt = Charged(released, sel)]

Outcome(s, port, updates) == [router |-> s, port |-> port, updates |-> updates]

HitOutcome(s, e) == Outcome([s EXCEPT !.age = [s.age EXCEPT ![e] = 0]], s.flowhash[e], {})

MissOutcome(s, e, sel, prev) ==
  LET new == Reassign(s, e, sel)
      c   == LocalPrice(s, e, sel)
  IN  IF MustAdvertise(s, e, sel)
      THEN Outcome(Sent(new, e[1], c, prev), sel, Updates(e[1], c, prev))
      ELSE Outcome(new, sel, {})

(* All outcomes of a lookup; there is exactly one. *)
Lookup(s, e, row, prev) ==
  LET t == CheckSecond(s, e) IN
  IF Live(t, e) THEN { HitOutcome(t, e) }
  ELSE { MissOutcome(t, e, sel, prev) : sel \in NextHop(t, e[1], row) }

----------------------------------------------------------------------------
(* HandleUpdate: price x for destination d arrives on port p.              *)

Heard(s, p, d, x) == [s EXCEPT !.prices_nbr = [s.prices_nbr EXCEPT ![<<p, d>>] = x]]

PathSum(s, d, p) == s.prices_nbr[<<p, d>>] + s.prices_prt[p]

(* v is the minimum price over the alternates that HandleUpdate computes. *)
IsMinPrice(s, d, row, v) ==
  /\ \E p \in Range(row) : PathSum(s, d, p) = v
  /\ \A p \in Range(row) : v <= PathSum(s, d, p)

(* Mutant: every update is sent back to the port it came from. *)
HandleUpdateEcho(s, p, d, x, row, prev) ==
  Outcome(Sent(Heard(s, p, d, x), d, x, {p}), NoPort, Updates(d, x, {p}))

HandleUpdate(s, p, d, x, row, prev) ==
  LET t == Heard(s, p, d, x) IN
  IF IsMinPrice(t, d, row, t.pricessent[d])
  THEN Outcome(t, NoPort, {})
  ELSE Outcome(Sent(t, d, x, prev), NoPort, Updates(d, x, prev))

(* A TCP SYN for a server of switch d itself advertises price 0. *)
HandleSyn(s, d, prev) == Outcome(Sent(s, d, 0, prev), NoPort, Updates(d, 0, prev))

----------------------------------------------------------------------------
(* Invariants of one router; rows is its table of alternates.              *)

(* A flowlet is only ever pinned to a port that routes to its destination, *)
(* and an entry with a time stamp has a port, so that the releases         *)
(* prices_prt[port-1]-- never index below the array.                       *)
FollowsRoutes(s, rows) ==
  \A e \in Entry :
    /\ s.flowhash[e] \in Range(rows[e[1]]) \cup {NoPort}
    /\ s.age[e] # Idle => s.flowhash[e] # NoPort

(* Prices heard and advertised are never negative (prices_prt can be).     *)
NonNegative(s) ==
  /\ \A d \in Dst : s.pricessent[d] >= 0
  /\ \A pd \in Port \X Dst : s.prices_nbr[pd] >= 0
=============================================================================
