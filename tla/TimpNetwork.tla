------------------------------ MODULE TimpNetwork ------------------------------
(***************************************************************************)
(* TIMP switches connected by point-to-point links.  A link carries data   *)
(* packets and price updates in one FIFO queue per direction (the ns-3     *)
(* point-to-point device); a full drop-tail queue loses messages.  The     *)
(* controller has installed, at every switch, the rows of alternaterutes   *)
(* and previousPorts computed from routes1.txt.                            *)
(***************************************************************************)
EXTENDS TimpRouter

CONSTANTS
  Wire,      \* for each connected interface <<switch, port>>, the other end
  Routes,    \* alternaterutes of each switch
  Rank,      \* for each destination, a witness that its routes are acyclic
  Packet,    \* the packets hosts will send
  Source, Target, SlotOf, IsSyn,   \* of each packet: the hosts' switches,
             \* the hash slot of its flow, whether it is a TCP SYN
  MaxLosses  \* bounds the messages lost to full queues

Switch == Dst
Ifc == DOMAIN Wire

ASSUME TopologyAssumption ==
  /\ Wire \in [Ifc -> Ifc]
  /\ Ifc \subseteq Switch \X Port
  /\ \A i \in Ifc : Wire[Wire[i]] = i

(* What the path search of the controller guarantees: routes leave on      *)
(* links between switches, every switch has one to every other, and the    *)
(* routes to one destination form no cycle.                                *)
ASSUME RoutesAssumption ==
  /\ Routes \in [Switch -> [Dst -> Seq(Port)]]
  /\ Rank \in [Dst -> [Switch -> Nat]]
  /\ \A u \in Switch, d \in Dst :
       /\ Routes[u][d] = <<>> <=> u = d
       /\ \A p \in Range(Routes[u][d]) :
            /\ <<u, p>> \in Ifc
            /\ Rank[d][Wire[<<u, p>>][1]] < Rank[d][u]

ASSUME PacketAssumption ==
  /\ Source \in [Packet -> Switch]
  /\ Target \in [Packet -> Dst]
  /\ SlotOf \in [Packet -> Slot]
  /\ IsSyn \in [Packet -> BOOLEAN]
  /\ \A k \in Packet : Source[k] # Target[k]
  /\ MaxLosses \in Nat

(* Mutant: updates flood to all neighbours. *)
UpstreamFlood(v, d) == { q \in Port : <<v, q>> \in Ifc }

(* previousPorts of switch v as TimpGlobal::Initialize fills it: for each  *)
(* route of a neighbour u towards d over v, the interface of v towards u.  *)
previousPorts ==
  [v \in Switch |-> [d \in Dst |->
     { q \in Port : /\ <<v, q>> \in Ifc
                    /\ Wire[<<v, q>>][2] \in Range(Routes[Wire[<<v, q>>][1]][d]) }]]

Upstream(v, d) == previousPorts[v][d]

VARIABLES
  router,     \* the state of each switch's router
  link,       \* for each interface, what it has sent and was not received
  injected,   \* the packets the hosts have sent
  losses,     \* how many messages were lost
  lost        \* the packets among them

vars == <<router, link, injected, losses, lost>>

Data == [pkt : Packet, seen : SUBSET Switch]    \* seen: the switches it left
Cost == [dst : Dst, price : Int]

IsCost(m) == "price" \in DOMAIN m

TypeOK ==
  /\ router \in [Switch -> RouterState]
  /\ link \in [Ifc -> Seq(Data \cup Cost)]
  /\ injected \subseteq Packet
  /\ losses \in 0 .. MaxLosses
  /\ lost \subseteq Packet

Init ==
  /\ router = [u \in Switch |-> InitRouter]
  /\ link = [i \in Ifc |-> <<>>]
  /\ injected = {}
  /\ losses = 0
  /\ lost = {}

----------------------------------------------------------------------------
(* The links after switch u has sent the updates of a handler's outcome.   *)
WithUpdates(l, u, updates) ==
  [i \in Ifc |->
    IF \E m \in updates : i = <<u, m.port>>
    THEN Append(l[i], LET m == CHOOSE m \in updates : i = <<u, m.port>>
                      IN  [dst |-> m.dst, price |-> m.price])
    ELSE l[i]]

(* Switch u looks up packet k and sends it to the next hop. *)
Forward(u, k, seen, l) ==
  LET d == Target[k] IN
  \E o \in Lookup(router[u], <<d, SlotOf[k]>>, Routes[u][d], Upstream(u, d)) :
    /\ router' = [router EXCEPT ![u] = o.router]
    /\ link' = [WithUpdates(l, u, o.updates) EXCEPT
                  ![<<u, o.port>>] = Append(@, [pkt |-> k, seen |-> seen \cup {u}])]

Received(i) == [link EXCEPT ![i] = Tail(@)]

(* A host sends its packet to its switch. *)
Inject(k) ==
  /\ k \notin injected
  /\ injected' = injected \cup {k}
  /\ Forward(Source[k], k, {}, link)
  /\ UNCHANGED <<losses, lost>>

(* RouteInput at the far end of link i: the packet is looked up again, or, *)
(* at its target's switch, handed to the server.                           *)
ReceiveData(i) ==
  /\ link[i] # <<>>
  /\ ~ IsCost(Head(link[i]))
  /\ LET v == Wire[i][1]
         m == Head(link[i])
     IN  IF v = Target[m.pkt]
         THEN LET o == IF IsSyn[m.pkt] THEN HandleSyn(router[v], v, Upstream(v, v))
                                       ELSE Outcome(router[v], NoPort, {})
              IN  /\ router' = [router EXCEPT ![v] = o.router]
                  /\ link' = WithUpdates(Received(i), v, o.updates)
         ELSE Forward(v, m.pkt, m.seen, Received(i))
  /\ UNCHANGED <<injected, losses, lost>>

(* Receive: a price update reaches the far end of link i. *)
ReceiveCost(i) ==
  /\ link[i] # <<>>
  /\ IsCost(Head(link[i]))
  /\ LET v == Wire[i][1]
         m == Head(link[i])
         o == HandleUpdate(router[v], Wire[i][2], m.dst, m.price,
                           Routes[v][m.dst], Upstream(v, m.dst))
     IN  /\ router' = [router EXCEPT ![v] = o.router]
         /\ link' = WithUpdates(Received(i), v, o.updates)
  /\ UNCHANGED <<injected, losses, lost>>

(* A full queue drops a message. *)
Lose(i) ==
  /\ losses < MaxLosses
  /\ link[i] # <<>>
  /\ losses' = losses + 1
  /\ lost' = IF IsCost(Head(link[i])) THEN lost ELSE lost \cup {Head(link[i]).pkt}
  /\ link' = Received(i)
  /\ UNCHANGED <<router, injected>>

Tick ==
  /\ router' = [u \in Switch |-> Aged(router[u])]
  /\ UNCHANGED <<link, injected, losses, lost>>

Next ==
  \/ \E k \in Packet : Inject(k)
  \/ \E i \in Ifc : ReceiveData(i) \/ ReceiveCost(i) \/ Lose(i)
  \/ Tick

(* The simulator runs the next arrival: while messages are queued, one of  *)
(* them (whichever) is eventually received.  Hosts need not send.          *)
Deliver == \E i \in Ifc : ReceiveData(i) \/ ReceiveCost(i)
Fairness == WF_vars(Deliver)

Spec == Init /\ [][Next]_vars
FairSpec == Spec /\ Fairness

----------------------------------------------------------------------------
(* "send only up the tree to avoid loops": an update about d only travels  *)
(* against a route to d, so the price a router stores belongs to one of    *)
(* its alternates.                                                         *)
UpdatesGoUpTheTree ==
  \A i \in Ifc : \A j \in DOMAIN link[i] :
    IsCost(link[i][j]) =>
      Wire[i][2] \in Range(Routes[Wire[i][1]][link[i][j].dst])

(* However the switches re-route a flow while its packets are under way,   *)
(* no packet comes back to a switch it left.                               *)
NoForwardingLoop ==
  \A i \in Ifc : \A j \in DOMAIN link[i] :
    ~ IsCost(link[i][j]) => Wire[i][1] \notin link[i][j].seen

(* For every route of u towards d over v: the price v last advertised is   *)
(* the one u has stored for the port, or the last one under way to it, as  *)
(* long as nothing is lost.                                                *)
About(m, d) == IsCost(m) /\ m.dst = d

LastAbout(i, d, j) ==
  /\ About(link[i][j], d)
  /\ \A k \in DOMAIN link[i] : About(link[i][k], d) => k <= j

HeardIsLastSent == losses = 0 =>
  \A i \in Ifc, d \in Dst :
    i[2] \in Upstream(i[1], d) =>
      LET sent  == router[i[1]].pricessent[d]
          heard == router[Wire[i][1]].prices_nbr[<<Wire[i][2], d>>]
      IN  /\ \A j \in DOMAIN link[i] : LastAbout(i, d, j) => link[i][j].price = sent
          /\ (\A j \in DOMAIN link[i] : ~ About(link[i][j], d)) => heard = sent

(* Once the hosts stop, the updates that trigger each other die out and    *)
(* every packet leaves the network.                                        *)
Settles == <>[](\A i \in Ifc : link[i] = <<>>)

(* The network implements the delivery service: every packet a host sends  *)
(* moves along installed routes only, and arrives unless a queue drops it. *)
Carries(i, k) == \E j \in DOMAIN link[i] :
                   ~ IsCost(link[i][j]) /\ link[i][j].pkt = k

Whereabouts ==
  [k \in Packet |->
    IF k \notin injected THEN -1
    ELSE IF \E i \in Ifc : Carries(i, k)
    THEN Wire[CHOOSE i \in Ifc : Carries(i, k)][1]
    ELSE IF k \in lost THEN -3 ELSE -2]

NextSwitches(u, d) == { Wire[<<u, p>>][1] : p \in Range(Routes[u][d]) }

Service == INSTANCE PacketDelivery WITH
             at <- Whereabouts, Hops <- NextSwitches,
             Unsent <- -1, Delivered <- -2, Lost <- -3

ImplementsDelivery == Service!Spec
=============================================================================
