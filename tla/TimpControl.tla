------------------------------ MODULE TimpControl ------------------------------
(***************************************************************************)
(* The controller.  For every destination it searches the paths that lead  *)
(* there (class Nodes, ns3/timp/model/dfs.cc), keeps them greedily,        *)
(* shortest first, as long as the kept ones form no cycle, turns them into *)
(* routes, writes these to routes1.txt, and finally installs the file's    *)
(* records in the switches one by one (TimpGlobal::Initialize).            *)
(*                                                                         *)
(* The search runs on a graph in which every link is a node of its own     *)
(* between its two switches.  The model drops the link nodes: a path of n  *)
(* switches has 2n-1 nodes there, and has a cycle there iff it has one     *)
(* here.                                                                   *)
(***************************************************************************)
EXTENDS Integers, Sequences, FiniteSets, Functions

CONSTANTS
  SwCount,    \* number of switches
  MaxLen,     \* maxlen: bound on the depth of the search, in nodes
  Cablings,   \* the topologies: sequences of connectsw(i, j) calls
  Dests       \* the destinations, in the order they are searched

Switch == 0 .. SwCount-1
Ifc    == Nat \ {0}        \* interface 0 is the loopback

ASSUME ControlAssumption ==
  /\ SwCount \in Nat /\ MaxLen \in Nat
  /\ Dests \in Seq(Switch) /\ IsInjective(Dests)
  /\ Cablings \subseteq Seq(Switch \X Switch)
  /\ \A c \in Cablings : \A i \in DOMAIN c :
       /\ c[i][1] # c[i][2]
       /\ \A j \in DOMAIN c : j # i => c[j] \notin {c[i], <<c[i][2], c[i][1]>>}

VARIABLES
  ends,       \* linkends: every link, seen from either of its ends
  next,       \* how many of Dests have been searched
  todo,       \* finishedPaths, from nextPath on
  kept,       \* finishedPaths1
  routemap,   \* for each switch, its routes in the order they were found
  file,       \* the records of routes1.txt not installed yet, by switch
  written,    \* whether routes1.txt has been written
  alternates, \* alternaterutes of each switch: for each destination, a row
  previous    \* previousPorts of each switch

search == <<next, todo, kept, routemap>>
install == <<file, written, alternates, previous>>
vars == <<ends, search, install>>

----------------------------------------------------------------------------
(* Mutant: interfaces are numbered from 0. *)
IfcFromZero(c, i, v) == Cardinality({ j \in 1 .. i-1 : v \in {c[j][1], c[j][2]} })

(* ns-3 numbers the interfaces of a node from 1 in the order of the calls. *)
IfcOf(c, i, v) == Cardinality({ j \in 1 .. i : v \in {c[j][1], c[j][2]} })

End(c, i, v, w) == [self |-> v, ifc |-> IfcOf(c, i, v), nbr |-> w, nbrifc |-> IfcOf(c, i, w)]

LinkEnds(c) == { End(c, i, c[i][1], c[i][2]) : i \in DOMAIN c }
          \cup { End(c, i, c[i][2], c[i][1]) : i \in DOMAIN c }

(* getlinkends and getifcnbr; getnbr. *)
IfcTo(v, w)  == (CHOOSE e \in ends : e.self = v /\ e.nbr = w).ifc
GetNbr(v, p) == (CHOOSE e \in ends : e.self = v /\ e.ifc = p).nbr
Linked(v, w) == \E e \in ends : e.self = v /\ e.nbr = w

(* depthFirstSearch from every switch: the loop-free paths to d; a path is *)
(* not extended once its depth exceeds MaxLen.                             *)
Paths(d) ==
  { p \in UNION { [1 .. n -> Switch] : n \in 2 .. SwCount } :
      /\ p[Len(p)] = d
      /\ 2 * Len(p) - 3 <= MaxLen
      /\ IsInjective(p)
      /\ \A i \in 1 .. Len(p)-1 : Linked(p[i], p[i+1]) }

(* Mutant: the comparison of the sort is the wrong way round. *)
Longest(paths) == { p \in paths : \A q \in paths : Len(p) >= Len(q) }

(* The order of finishedPaths: std::sort by length, equal ones anyhow. *)
Shortest(paths) == { p \in paths : \A q \in paths : Len(p) <= Len(q) }

(* checkpaths, with isCyclic by its meaning (TimpCycle models its search). *)
PathEdges(p) == { <<p[i], p[i+1]>> : i \in 1 .. Len(p)-1 }
Edges(paths) == UNION { PathEdges(paths[i]) : i \in DOMAIN paths }

HasCycle(E) == \E S \in (SUBSET Switch) \ {{}} : \A v \in S : \E w \in S : <<v, w>> \in E

CheckPaths(paths, p) == ~ HasCycle(Edges(paths) \cup PathEdges(p))

(* AddTorRouteTo, AddPreviousPort and the lists of routes: append unless   *)
(* it is there.                                                            *)
Added(row, x) == IF x \in Range(row) THEN row ELSE Append(row, x)

(* Mutant: the destination is read one switch too early. *)
RouteTooShort(p, j) ==
  LET d == p[Len(p)-1]
  IN  [dstaddress |-> IfcTo(p[Len(p)], d), interface |-> IfcTo(p[j], p[j+1]), dstnode |-> d]

(* The route of the j-th switch of a path, through the next one. *)
Route(p, j) ==
  LET d == p[Len(p)]
  IN  [dstaddress |-> IfcTo(d, p[Len(p)-1]), interface |-> IfcTo(p[j], p[j+1]), dstnode |-> d]

(* setkoeficijentidfs, for one path: every switch of it but the last gets  *)
(* its route, once.                                                        *)
WithRoutes(map, p) ==
  [ v \in Switch |->
      IF \E j \in 1 .. Len(p)-1 : p[j] = v
      THEN Added(map[v], Route(p, CHOOSE j \in 1 .. Len(p)-1 : p[j] = v))
      ELSE map[v] ]

(* Mutant: the record repeats the switch's own interface. *)
RecordsOwnIfc(v) ==
  [ j \in DOMAIN routemap[v] |->
      LET rt == routemap[v][j]
      IN  [nodeid |-> v, interface |-> rt.interface, nbr |-> GetNbr(v, rt.interface),
           nbrifc |-> rt.interface, dst |-> rt.dstnode] ]

(* writeroutes1: a record per route, with the neighbour it leads to and    *)
(* that neighbour's interface back.                                        *)
Records(v) ==
  [ j \in DOMAIN routemap[v] |->
      LET rt == routemap[v][j]
          w  == GetNbr(v, rt.interface)
      IN  [nodeid |-> v, interface |-> rt.interface, nbr |-> w,
           nbrifc |-> IfcTo(w, v), dst |-> rt.dstnode] ]

----------------------------------------------------------------------------
Init ==
  /\ \E c \in Cablings : ends = LinkEnds(c)
  /\ next = 0
  /\ todo = {}
  /\ kept = <<>>
  /\ routemap = [v \in Switch |-> <<>>]
  /\ file = [v \in Switch |-> <<>>]
  /\ written = FALSE
  /\ alternates = [v \in Switch |-> [d \in Switch |-> <<>>]]
  /\ previous = [v \in Switch |-> [d \in Switch |-> <<>>]]

(* nDepthFirstSearch begins the next destination. *)
SearchNext ==
  /\ todo = {} /\ kept = <<>>
  /\ next < Len(Dests)
  /\ next' = next + 1
  /\ todo' = Paths(Dests[next'])
  /\ UNCHANGED <<ends, kept, routemap, install>>

Consider ==
  /\ \E p \in Shortest(todo) :
       /\ todo' = todo \ {p}
       /\ kept' = IF CheckPaths(kept, p) THEN Append(kept, p) ELSE kept
  /\ UNCHANGED <<ends, next, routemap, install>>

(* All paths of a destination have been considered: the next kept one. *)
AddRoutes ==
  /\ todo = {} /\ kept # <<>>
  /\ routemap' = WithRoutes(routemap, Head(kept))
  /\ kept' = Tail(kept)
  /\ UNCHANGED <<ends, next, todo, install>>

WriteRoutes ==
  /\ todo = {} /\ kept = <<>> /\ next = Len(Dests)
  /\ ~ written
  /\ written' = TRUE
  /\ file' = [v \in Switch |-> Records(v)]
  /\ UNCHANGED <<ends, search, alternates, previous>>

(* Initialize: one iteration of its loop over the file. *)
Install ==
  /\ \E v \in Switch :
       /\ file[v] # <<>> /\ \A u \in 0 .. v-1 : file[u] = <<>>
       /\ LET r == Head(file[v]) IN
            /\ alternates' = [alternates EXCEPT ![r.nodeid][r.dst] = Added(@, r.interface)]
            /\ previous' = [previous EXCEPT ![r.nbr][r.dst] = Added(@, r.nbrifc)]
       /\ file' = [file EXCEPT ![v] = Tail(@)]
  /\ UNCHANGED <<ends, search, written>>

Next == SearchNext \/ Consider \/ AddRoutes \/ WriteRoutes \/ Install

Spec == Init /\ [][Next]_vars

----------------------------------------------------------------------------
RouteType == [dstaddress : Ifc, interface : Ifc, dstnode : Switch]
Record == [nodeid : Switch, interface : Ifc, nbr : Switch, nbrifc : Ifc, dst : Switch]

TypeOK ==
  /\ next \in 0 .. Len(Dests)
  /\ todo \subseteq Seq(Switch)
  /\ kept \in Seq(Seq(Switch))
  /\ routemap \in [Switch -> Seq(RouteType)]
  /\ file \in [Switch -> Seq(Record)]
  /\ written \in BOOLEAN
  /\ alternates \in [Switch -> [Switch -> Seq(Ifc)]]
  /\ previous \in [Switch -> [Switch -> Seq(Ifc)]]

Installed == written /\ \A v \in Switch : file[v] = <<>>

NextHops(v, d) == { GetNbr(v, p) : p \in Range(alternates[v][d]) }

(* Packets cannot be forwarded in a circle whichever alternates the        *)
(* switches prefer, not even while only part of the file is installed      *)
(* (what checkpaths is for; TimpNetwork assumes it as Rank).               *)
InstalledAcyclic ==
  \A d \in Switch :
    ~ HasCycle({ x \in Switch \X Switch : x[2] \in NextHops(x[1], d) })

(* The walks of n hops from v to d; v is n hops from d if it has one and   *)
(* none is shorter.                                                        *)
Walks(v, d, n) ==
  { x \in [0 .. n -> Switch] : /\ x[0] = v /\ x[n] = d
                               /\ \A k \in 0 .. n-1 : Linked(x[k], x[k+1]) }

Hops(v, d, n) == Walks(v, d, n) # {} /\ \A m \in 0 .. n-1 : Walks(v, d, m) = {}

(* Greedy pruning never costs a switch a shortest route: once all is       *)
(* installed, each neighbour nearer to a destination is an alternate, so   *)
(* every switch within the depth of the search has one.                    *)
ShortestRoutesInstalled ==
  Installed =>
    \A i \in DOMAIN Dests, v, w \in Switch, n \in 1 .. SwCount-1 :
      /\ Linked(v, w) /\ 2 * n - 1 <= MaxLen
      /\ Hops(v, Dests[i], n) /\ Hops(w, Dests[i], n-1)
      => w \in NextHops(v, Dests[i])

(* At every moment of the installation a switch will send its updates      *)
(* about d to exactly the neighbours that have an alternate to d through   *)
(* it (TimpNetwork derives Upstream from Routes this way).                 *)
PreviousMirrorsAlternates ==
  \A e \in ends : \A d \in Switch :
    e.ifc \in Range(previous[e.self][d]) <=> e.nbrifc \in Range(alternates[e.nbr][d])
=============================================================================
