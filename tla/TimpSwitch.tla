------------------------------ MODULE TimpSwitch ------------------------------
(***************************************************************************)
(* One TIMP switch in an arbitrary environment: packets of any flow,       *)
(* updates with any price on the routes, SYN segments for local servers    *)
(* and the passage of time, in any order.  Each action is one run of a     *)
(* handler of class Timp; ns-3 runs handlers one at a time.                *)
(***************************************************************************)
EXTENDS TimpRouter, FiniteSets

CONSTANTS
  Self,       \* id of this switch
  Routes,     \* alternaterutes: for each destination, the ports towards it
  Upstream,   \* previousPorts: for each destination, the ports updates go to
  HeardPrice  \* the prices neighbours advertise

ASSUME SwitchAssumption ==
  /\ Self \in Dst
  /\ Routes \in [Dst -> Seq(Port)]
  /\ Upstream \in [Dst -> SUBSET Port]
  /\ HeardPrice \subseteq Nat

VARIABLES
  router,     \* the state of the router
  outPort,    \* the port the last step sent its packet to, NoPort if none
  outbox      \* the updates the last step sent

vars == <<router, outPort, outbox>>

Message == [port : Port, dst : Dst, price : Int]

TypeOK ==
  /\ router \in RouterState
  /\ outPort \in Port \cup {NoPort}
  /\ outbox \subseteq Message

Init ==
  /\ router = InitRouter
  /\ outPort = NoPort
  /\ outbox = {}

Becomes(o) ==
  /\ router' = o.router
  /\ outPort' = o.port
  /\ outbox' = o.updates

(* A packet for a server behind another switch; the controller has given   *)
(* every such destination a route.                                         *)
Packet(d, h) ==
  /\ d # Self
  /\ Routes[d] # <<>>
  /\ \E o \in Lookup(router, <<d, h>>, Routes[d], Upstream[d]) : Becomes(o)

(* A packet for a server of this switch: only a SYN has an effect. *)
LocalSyn == Becomes(HandleSyn(router, Self, Upstream[Self]))

(* Updates about d come from the next hops towards d. *)
Update(p, d, x) ==
  /\ p \in Range(Routes[d])
  /\ Becomes(HandleUpdate(router, p, d, x, Routes[d], Upstream[d]))

Tick == Becomes(Outcome(Aged(router), NoPort, {}))

Next ==
  \/ \E d \in Dst, h \in Slot : Packet(d, h)
  \/ LocalSyn
  \/ \E p \in Port, d \in Dst, x \in HeardPrice : Update(p, d, x)
  \/ Tick

Spec == Init /\ [][Next]_vars

----------------------------------------------------------------------------
(* A flowlet is only ever pinned to a port that routes to its destination, *)
(* and an entry with a time stamp has a port, so that the three releases   *)
(* prices_prt[port-1]-- of LookupTimp never index below the array, whatever*)
(* the round robin scan clears in between.                                 *)
FlowletsFollowRoutes == FollowsRoutes(router, Routes)

(* The price in an update is an unsigned 32-bit field: no handler may ever *)
(* advertise or remember a negative price, although the price of a port    *)
(* can become negative.                                                    *)
AdvertisedPricesNonNegative ==
  /\ NonNegative(router)
  /\ \A m \in outbox : m.price >= 0

(* The ports together are never charged for more flowlets than the table   *)
(* holds, nor for a negative number of them, however releases go astray.   *)
(* Each port counts its price in units: those above 0 for, those missing   *)
(* below 0 against.                                                        *)
UnitsAbove(prices) == UNION { {p} \X (1 .. prices[p]) : p \in Port }
UnitsBelow(prices) == UNION { {p} \X (prices[p]+1 .. 0) : p \in Port }
TotalCharge == Cardinality(UnitsAbove(router.prices_prt))
                 - Cardinality(UnitsBelow(router.prices_prt))
Occupied == { e \in Entry : Held(router, e) }
TotalChargeBounded == TotalCharge \in 0 .. Cardinality(Occupied)

(* After a packet (re)assigns a flowlet, what the switches upstream have   *)
(* been told is not lower than the router's best price and at most 2 above *)
(* it, whether the lookup advertised or found the price already sent.      *)
ToldNearBest(d) ==
  /\ \E p \in Range(Routes[d]) : Price(router, d, p) <= router.pricessent[d]
  /\ \A p \in Range(Routes[d]) : router.pricessent[d] <= Price(router, d, p) + 2

Misses(d, h) == ~ Live(CheckSecond(router, <<d, h>>), <<d, h>>)

ReassignmentIsTold ==
  [][\A d \in Dst, h \in Slot :
       Packet(d, h) /\ Misses(d, h) /\ Upstream[d] # {} => ToldNearBest(d)']_vars

----------------------------------------------------------------------------
(* What comments of the code say and the code does not do.                 *)

(* Line 524, "flowlet gap 200us as in Contra paper": a packet that follows *)
(* its flowlet within the gap leaves on the flowlet's port.                *)
FlowletKeepsPort ==
  [][\A d \in Dst, h \in Slot :
       Packet(d, h) /\ Live(router, <<d, h>>) =>
         outPort' = router.flowhash[<<d, h>>]]_vars

(* Line 840, "send change if it happens": an update that repeats both the  *)
(* price stored for its port and the price this router last advertised     *)
(* changes nothing and is not passed on.                                   *)
RepeatsAreNotForwarded ==
  [][\A p \in Port, d \in Dst, x \in HeardPrice :
       /\ Update(p, d, x)
       /\ router.prices_nbr[<<p, d>>] = x
       /\ router.pricessent[d] = x
       => outbox' = {}]_vars
=============================================================================
