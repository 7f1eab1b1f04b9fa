----------------------------- MODULE TimpP4Network -----------------------------
(***************************************************************************)
(* P4 switches joined by links.  A switch runs a packet through its        *)
(* pipeline before it takes the next one; every link, and the              *)
(* recirculation port of every switch, is a FIFO queue.                    *)
(***************************************************************************)
EXTENDS TimpP4, FiniteSets, Functions

CONSTANTS
  Wire,        \* for each connected interface <<switch, port>>, the other end
  Packet,      \* the packets hosts will send, [from, to, hash, no, intact]
  MaxTicks,    \* bounds how far the clock goes
  MaxBacklog   \* bounds what is under way when a host sends

Link == DOMAIN Wire
Ifc == Link \cup (Switch \X {Recirc})

(* A data packet may arrive spoiled. *)
Data == Packet \cup { Spoiled(k) : k \in Packet }

ASSUME P4NetworkAssumption ==
  /\ Link \subseteq Switch \X Port /\ Wire \in [Link -> Link]
  /\ \A i \in Link : Wire[Wire[i]] = i
  /\ Packet \subseteq [from : Switch, to : Dst, hash : HashRange, no : Nat, intact : {TRUE}]
  /\ \A k \in Packet : k.from # k.to
  /\ MaxTicks \in Nat /\ MaxBacklog \in Nat

(* The tables lead every packet to a link, and a multicast group that may  *)
(* replace the link holds it as well.                                      *)
ASSUME TablesAssumption ==
  \A s \in Switch : \A d \in Dst \ {s} :
    /\ AltPorts[s][d] # {}
    /\ \A p \in AltPorts[s][d] :
         /\ <<s, p>> \in Link
         /\ LET g == GroupOffset[s][d] + p IN g # 0 => p \in Group[s][g]

VARIABLES
  regs,       \* the registers of each switch
  queue,      \* what is under way on each link and recirculation port
  injected,   \* the packets the hosts have sent
  delivered,  \* the packets that reached their host intact
  ticks       \* how often the clock went on

vars == <<regs, queue, injected, delivered, ticks>>

TypeOK ==
  /\ regs \in [Switch -> Registers]
  /\ DOMAIN queue = Ifc
  /\ \A i \in Link : queue[i] \in Seq(Data \cup Update)
  /\ \A s \in Switch : queue[<<s, Recirc>>] \in Seq(Local)
  /\ injected \subseteq Packet /\ delivered \subseteq Packet
  /\ ticks \in 0 .. MaxTicks

Init ==
  /\ regs = [s \in Switch |-> InitRegisters]
  /\ queue = [i \in Ifc |-> <<>>]
  /\ injected = {} /\ delivered = {} /\ ticks = 0

----------------------------------------------------------------------------
(* Switch s, whose queues are q, makes m, from port in, into other messages. *)
Pipeline(s, in, m, q) ==
  \E o \in Outcomes(regs[s], s, in, m) :
    /\ regs' = [regs EXCEPT ![s] = o.reg]
    /\ queue' = [i \in Ifc |-> IF i[1] = s /\ i[2] \in DOMAIN o.sent
                               THEN Append(q[i], o.sent[i[2]]) ELSE q[i]]

Taken(i) == [queue EXCEPT ![i] = Tail(@)]

Backlog == FoldFunction(LAMBDA q, n : Len(q) + n, 0, queue)

(* A host sends a packet; they are numbered in the order of sending. *)
Inject(k) ==
  /\ k \notin injected
  /\ \A n \in Packet : n.no < k.no => n \in injected
  /\ Backlog <= MaxBacklog
  /\ injected' = injected \cup {k}
  /\ Pipeline(k.from, NoPort, k, queue)
  /\ UNCHANGED <<delivered, ticks>>

(* A data packet, intact or spoiled, arrives at its switch, or at another  *)
(* one.                                                                    *)
Deliver(i) ==
  /\ queue[i] # <<>>
  /\ Head(queue[i]) \in { k \in Data : k.to = Wire[i][1] }
  /\ delivered' = delivered \cup ({Head(queue[i])} \cap Packet)
  /\ queue' = Taken(i)
  /\ UNCHANGED <<regs, injected, ticks>>

ReceiveData(i) ==
  /\ queue[i] # <<>>
  /\ Head(queue[i]) \in { k \in Data : k.to # Wire[i][1] }
  /\ Pipeline(Wire[i][1], Wire[i][2], Head(queue[i]), Taken(i))
  /\ UNCHANGED <<injected, delivered, ticks>>

ReceiveUpdate(i) ==
  /\ queue[i] # <<>>
  /\ IsUpdate(Head(queue[i]))
  /\ Pipeline(Wire[i][1], Wire[i][2], Head(queue[i]), Taken(i))
  /\ UNCHANGED <<injected, delivered, ticks>>

ReceiveLocal(s) ==
  /\ queue[<<s, Recirc>>] # <<>>
  /\ regs' = [regs EXCEPT ![s] = AfterLocal(@, Head(queue[<<s, Recirc>>]))]
  /\ queue' = Taken(<<s, Recirc>>)
  /\ UNCHANGED <<injected, delivered, ticks>>

Tick ==
  /\ ticks < MaxTicks /\ Backlog <= MaxBacklog
  /\ ticks' = ticks + 1
  /\ regs' = [s \in Switch |-> Aged(regs[s])]
  /\ UNCHANGED <<queue, injected, delivered>>

Receive == \/ \E i \in Link : Deliver(i) \/ ReceiveData(i) \/ ReceiveUpdate(i)
           \/ \E s \in Switch : ReceiveLocal(s)

Next == \/ \E k \in Packet : Inject(k)
        \/ Receive
        \/ Tick

Spec == Init /\ [][Next]_vars

(* Some switch goes on while a message is queued: WF_vars(Receive), with   *)
(* ENABLED Receive and the steps of Receive written out.                   *)
FairSpec ==
  /\ Spec
  /\ \/ []<>(\A i \in Ifc : queue[i] = <<>>)
     \/ []<><<UNCHANGED <<injected, ticks>>>>_vars

----------------------------------------------------------------------------
UnderWay(k) == \E i \in Link : \E j \in DOMAIN queue[i] : queue[i][j] = k

(* Whatever is copied, stripped or dropped, a packet is not lost: it has   *)
(* arrived intact, or is under way intact.                                 *)
NotLost == \A k \in injected : k \in delivered \/ UnderWay(k)

(* However often a packet is copied, one of the copies is intact: it is in *)
(* one place, and once it has arrived in none.                             *)
OneIsIntact ==
  /\ \A k \in Packet : UnderWay(k) => k \in injected \ delivered
  /\ \A k \in Packet : \A i, h \in Link : \A a \in DOMAIN queue[i], b \in DOMAIN queue[h] :
       queue[i][a] = k /\ queue[h][b] = k => i = h /\ a = b

(* Local updates, route updates and the copies of packets that they cause  *)
(* die out, and every packet arrives intact.                               *)
Settles == <>[](delivered = injected /\ \A i \in Ifc : queue[i] = <<>>)
=============================================================================
