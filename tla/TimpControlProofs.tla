--------------------------- MODULE TimpControlProofs ---------------------------
(***************************************************************************)
(* What the controller installs, for every number of switches, every       *)
(* topology without parallel links and every list of destinations: types,  *)
(* absence of cycles and ranks, complete shortest routes, mirrored rows.   *)
(***************************************************************************)
EXTENDS TimpControl, FiniteSetTheorems, TLAPS

End4 == [self : Switch, ifc : Ifc, nbr : Switch, nbrifc : Ifc]
Reverse(e) == [self |-> e.nbr, ifc |-> e.nbrifc, nbr |-> e.self, nbrifc |-> e.ifc]

(* linkends: every link is there from both ends, and a switch has at most  *)
(* one link with an interface number, and one to a neighbour.              *)
GoodEnds(E) ==
  /\ E \subseteq End4
  /\ \A e \in E : Reverse(e) \in E
  /\ \A e, f \in E : e.self = f.self /\ e.ifc = f.ifc => e = f
  /\ \A e, f \in E : e.self = f.self /\ e.nbr = f.nbr => e = f

(* A path the search finds to d. *)
GoodPath(p, d) ==
  /\ p \in Seq(Switch) /\ Len(p) >= 2
  /\ IsInjective(p)
  /\ p[Len(p)] = d
  /\ \A i \in 1 .. Len(p)-1 : Linked(p[i], p[i+1])

Searching(d) == next > 0 /\ d = Dests[next]

PathsInv ==
  /\ next = 0 => todo = {} /\ kept = <<>>
  /\ \A p \in todo : GoodPath(p, Dests[next])
  /\ \A i \in DOMAIN kept : GoodPath(kept[i], Dests[next])

(* The edges of the routes to d found so far. *)
RouteEdges(d) ==
  { x \in Switch \X Switch :
      \E rt \in Range(routemap[x[1]]) :
        rt.dstnode = d /\ GetNbr(x[1], rt.interface) = x[2] }

KeptEdges(d) == IF Searching(d) THEN Edges(kept) ELSE {}

(* The routes to a destination form no cycle, with the kept paths whose    *)
(* routes are not added yet.                                               *)
RoutesInv ==
  /\ \A v \in Switch : \A rt \in Range(routemap[v]) :
       \E e \in ends : e.self = v /\ e.ifc = rt.interface
  /\ \A d \in Switch : ~ HasCycle(RouteEdges(d) \cup KeptEdges(d))
  /\ todo # {} => RouteEdges(Dests[next]) = {}
  /\ \A i \in DOMAIN Dests : i > next => RouteEdges(Dests[i]) = {}

(* The file and the installed rows say what routemap says. *)
HasRoute(v, d, p) ==
  \E rt \in Range(routemap[v]) : rt.dstnode = d /\ rt.interface = p

FileInv ==
  \A v \in Switch : \A r \in Range(file[v]) :
    /\ r.nodeid = v
    /\ HasRoute(v, r.dst, r.interface)
    /\ [self |-> v, ifc |-> r.interface, nbr |-> r.nbr, nbrifc |-> r.nbrifc] \in ends

RowsInv ==
  \A v, d \in Switch : \A p \in Range(alternates[v][d]) : HasRoute(v, d, p)

IInv ==
  /\ TypeOK
  /\ GoodEnds(ends)
  /\ PathsInv
  /\ RoutesInv
  /\ FileInv
  /\ RowsInv
  /\ PreviousMirrorsAlternates

----------------------------------------------------------------------------
(* The interface numbers of a switch count its calls: the number of a link *)
(* is positive and different from that of an earlier one.                  *)
LEMMA IfcOfPositive ==
  ASSUME NEW c \in Cablings, NEW i \in DOMAIN c, NEW v \in {c[i][1], c[i][2]}
  PROVE  IfcOf(c, i, v) \in Ifc
<1> DEFINE S == { j \in 1 .. i : v \in {c[j][1], c[j][2]} }
<1>1. i \in Nat \ {0} /\ i \in S
  BY ControlAssumption
<1>2. IsFiniteSet(1 .. i) /\ S \in SUBSET (1 .. i)
  BY <1>1, FS_Interval
<1>3. IsFiniteSet(S)
  BY <1>2, FS_Subset
<1>4. Cardinality(S) \in Nat /\ Cardinality(S) # 0
  BY <1>1, <1>3, FS_CardinalityType, FS_EmptySet
<1> QED BY <1>4 DEF IfcOf, Ifc

LEMMA IfcOfIncreases ==
  ASSUME NEW c \in Cablings, NEW i \in DOMAIN c, NEW k \in DOMAIN c, i < k,
         NEW v \in {c[k][1], c[k][2]}
  PROVE  IfcOf(c, i, v) # IfcOf(c, k, v)
<1> DEFINE S == { j \in 1 .. i : v \in {c[j][1], c[j][2]} }
           T == { j \in 1 .. k : v \in {c[j][1], c[j][2]} }
<1>1. i \in Nat /\ k \in Nat
  BY ControlAssumption
<1>2. k \in T /\ k \notin S /\ S \in SUBSET T
  BY <1>1
<1>3. IsFiniteSet(1 .. k) /\ T \in SUBSET (1 .. k)
  BY <1>1, FS_Interval
<1>4. IsFiniteSet(T)
  BY <1>3, FS_Subset
<1>5. Cardinality(S) # Cardinality(T)
  BY <1>2, <1>4, FS_Subset
<1> QED BY <1>5 DEF IfcOf

(* A switch numbers its links apart. *)
LEMMA IfcOfInjective ==
  ASSUME NEW c \in Cablings, NEW i \in DOMAIN c, NEW k \in DOMAIN c,
         NEW v \in {c[i][1], c[i][2]}, v \in {c[k][1], c[k][2]},
         IfcOf(c, i, v) = IfcOf(c, k, v)
  PROVE  i = k
<1>1. i \in Nat /\ k \in Nat
  BY ControlAssumption
<1> QED BY <1>1, IfcOfIncreases

LEMMA LinkEndsGood ==
  ASSUME NEW c \in Cablings
  PROVE  GoodEnds(LinkEnds(c))
<1> DEFINE E == LinkEnds(c)
<1>1. \A i \in DOMAIN c : c[i][1] \in Switch /\ c[i][2] \in Switch /\ c[i][1] # c[i][2]
  BY ControlAssumption
<1>2. ASSUME NEW e \in E
      PROVE  \E i \in DOMAIN c : /\ e.self \in {c[i][1], c[i][2]} /\ e.nbr \in {c[i][1], c[i][2]}
                                 /\ e.self # e.nbr
                                 /\ e = End(c, i, e.self, e.nbr)
                                 /\ Reverse(e) \in E
  BY <1>1 DEF LinkEnds, End, Reverse
<1>3. E \subseteq End4
  <2> SUFFICES ASSUME NEW e \in E PROVE e \in End4
    OBVIOUS
  <2>1. PICK i \in DOMAIN c : /\ e.self \in {c[i][1], c[i][2]} /\ e.nbr \in {c[i][1], c[i][2]}
                              /\ e = End(c, i, e.self, e.nbr)
    BY <1>2
  <2>2. IfcOf(c, i, e.self) \in Ifc /\ IfcOf(c, i, e.nbr) \in Ifc
    BY <2>1, IfcOfPositive
  <2> QED BY <1>1, <2>1, <2>2 DEF End, End4
<1>4. ASSUME NEW e \in E, NEW f \in E, e.self = f.self, e.ifc = f.ifc
      PROVE  e = f
  <2>1. PICK i \in DOMAIN c : /\ e.self \in {c[i][1], c[i][2]} /\ e.nbr \in {c[i][1], c[i][2]}
                              /\ e.self # e.nbr /\ e = End(c, i, e.self, e.nbr)
    BY <1>2
  <2>2. PICK k \in DOMAIN c : /\ f.self \in {c[k][1], c[k][2]} /\ f.nbr \in {c[k][1], c[k][2]}
                              /\ f.self # f.nbr /\ f = End(c, k, f.self, f.nbr)
    BY <1>2
  <2>3. IfcOf(c, i, e.self) = IfcOf(c, k, e.self)
    BY <1>4, <2>1, <2>2 DEF End
  <2>4. i = k
    BY <1>4, <2>1, <2>2, <2>3, IfcOfInjective
  <2>5. e.nbr = f.nbr
    BY <1>4, <2>1, <2>2, <2>4
  <2> QED BY <1>4, <2>1, <2>2, <2>4, <2>5
<1>5. ASSUME NEW e \in E, NEW f \in E, e.self = f.self, e.nbr = f.nbr
      PROVE  e = f
  <2>1. PICK i \in DOMAIN c : /\ e.self \in {c[i][1], c[i][2]} /\ e.nbr \in {c[i][1], c[i][2]}
                              /\ e.self # e.nbr /\ e = End(c, i, e.self, e.nbr)
    BY <1>2
  <2>2. PICK k \in DOMAIN c : /\ f.self \in {c[k][1], c[k][2]} /\ f.nbr \in {c[k][1], c[k][2]}
                              /\ f.self # f.nbr /\ f = End(c, k, f.self, f.nbr)
    BY <1>2
  <2>3. c[k] = <<c[k][1], c[k][2]>> /\ c[i] = <<c[i][1], c[i][2]>>
    BY ControlAssumption
  <2>4. c[k] \in {c[i], <<c[i][2], c[i][1]>>}
    BY <1>5, <2>1, <2>2, <2>3
  <2>5. i = k
    BY <2>4, ControlAssumption
  <2> QED BY <1>5, <2>1, <2>2, <2>5
<1> QED BY <1>2, <1>3, <1>4, <1>5 DEF GoodEnds

(* The interface of a switch to a neighbour leads there. *)
LEMMA IfcToLeads ==
  ASSUME GoodEnds(ends), NEW v, NEW w, Linked(v, w)
  PROVE  /\ \E e \in ends : e.self = v /\ e.nbr = w /\ e.ifc = IfcTo(v, w)
         /\ IfcTo(v, w) \in Ifc
         /\ GetNbr(v, IfcTo(v, w)) = w
<1>1. PICK e \in ends : e.self = v /\ e.nbr = w
  BY DEF Linked
<1>2. IfcTo(v, w) = e.ifc
  <2> DEFINE f == CHOOSE f \in ends : f.self = v /\ f.nbr = w
  <2>1. f \in ends /\ f.self = v /\ f.nbr = w
    BY <1>1
  <2> HIDE DEF f
  <2>2. f = e
    BY <1>1, <2>1 DEF GoodEnds
  <2> QED BY <2>2 DEF IfcTo, f
<1>3. GetNbr(v, e.ifc) = w
  <2> DEFINE f == CHOOSE f \in ends : f.self = v /\ f.ifc = e.ifc
  <2>1. f \in ends /\ f.self = v /\ f.ifc = e.ifc
    BY <1>1
  <2> HIDE DEF f
  <2>2. f = e
    BY <1>1, <2>1 DEF GoodEnds
  <2> QED BY <1>1, <2>2 DEF GetNbr, f
<1>4. e.ifc \in Ifc
  BY <1>1 DEF GoodEnds, End4
<1> QED BY <1>1, <1>2, <1>3, <1>4

(* What is at the other end of an interface, and the interface back. *)
LEMMA GetNbrLeads ==
  ASSUME GoodEnds(ends), NEW e \in ends
  PROVE  /\ GetNbr(e.self, e.ifc) = e.nbr
         /\ IfcTo(e.nbr, e.self) = e.nbrifc
<1>1. Linked(e.self, e.nbr) /\ Linked(e.nbr, e.self)
  BY DEF Linked, GoodEnds, Reverse
<1>2. PICK f \in ends : f.self = e.self /\ f.nbr = e.nbr /\ f.ifc = IfcTo(e.self, e.nbr)
  BY <1>1, IfcToLeads
<1>3. f = e
  BY <1>2 DEF GoodEnds
<1>4. PICK g \in ends : g.self = e.nbr /\ g.nbr = e.self /\ g.ifc = IfcTo(e.nbr, e.self)
  BY <1>1, IfcToLeads
<1>5. Reverse(e) \in ends /\ Reverse(e).self = e.nbr /\ Reverse(e).nbr = e.self
  BY DEF GoodEnds, Reverse
<1>6. g = Reverse(e)
  BY <1>4, <1>5 DEF GoodEnds
<1> QED BY <1>1, <1>2, <1>3, <1>4, <1>6, IfcToLeads DEF Reverse

----------------------------------------------------------------------------
(* Rows and sequences. *)
LEMMA AddedRange ==
  ASSUME NEW S, NEW row \in Seq(S), NEW x \in S
  PROVE  Added(row, x) \in Seq(S) /\ Range(Added(row, x)) = Range(row) \cup {x}
<1>1. CASE x \in Range(row)
  BY <1>1 DEF Added
<1>2. CASE x \notin Range(row)
  <2>1. Added(row, x) = Append(row, x)
    BY <1>2 DEF Added
  <2> DEFINE n == Len(row)
             app == Append(row, x)
  <2>2. /\ DOMAIN row = 1 .. n /\ DOMAIN app = 1 .. n+1 /\ n \in Nat
        /\ \A i \in 1 .. n : app[i] = row[i]
        /\ app[n+1] = x
    OBVIOUS
  <2> HIDE DEF n, app
  <2>3. \A y \in Range(row) \cup {x} : \E i \in DOMAIN app : app[i] = y
    BY <2>2 DEF Range
  <2>4. \A i \in 1 .. n+1 : i = n+1 \/ i \in 1 .. n
    BY <2>2
  <2>5. \A i \in DOMAIN app : app[i] \in Range(row) \cup {x}
    BY <2>2, <2>4 DEF Range
  <2>6. Range(app) = Range(row) \cup {x}
    BY <2>3, <2>5 DEF Range
  <2> QED BY <2>1, <2>6 DEF app
<1> QED BY <1>1, <1>2

LEMMA TailRange ==
  ASSUME NEW S, NEW s \in Seq(S), s # <<>>
  PROVE  /\ Tail(s) \in Seq(S) /\ Range(Tail(s)) \subseteq Range(s)
         /\ Head(s) \in S /\ Head(s) \in Range(s)
BY DEF Range

LEMMA CycleMonotone ==
  ASSUME NEW E, NEW F, E \subseteq F, HasCycle(E)
  PROVE  HasCycle(F)
BY DEF HasCycle

----------------------------------------------------------------------------
LEMMA InitInv == Init => IInv
<1> SUFFICES ASSUME Init PROVE IInv
  OBVIOUS
<1>1. TypeOK
  <2>1. next \in 0 .. Len(Dests) /\ todo \subseteq Seq(Switch) /\ kept \in Seq(Seq(Switch))
    BY ControlAssumption DEF Init
  <2>2. routemap \in [Switch -> Seq(RouteType)] /\ file \in [Switch -> Seq(Record)]
    BY DEF Init
  <2>3. /\ alternates \in [Switch -> [Switch -> Seq(Ifc)]]
        /\ previous \in [Switch -> [Switch -> Seq(Ifc)]]
    BY DEF Init
  <2>4. written \in BOOLEAN
    BY DEF Init
  <2> QED BY <2>1, <2>2, <2>3, <2>4 DEF TypeOK
<1>2. GoodEnds(ends)
  BY LinkEndsGood DEF Init
<1>3. PathsInv
  BY DEF Init, PathsInv
<1>4. \A v \in Switch : Range(routemap[v]) = {}
  BY DEF Init, Range
<1>5. \A d \in Switch : RouteEdges(d) = {} /\ KeptEdges(d) = {}
  BY <1>4 DEF Init, RouteEdges, KeptEdges, Searching
<1>6. ~ HasCycle({})
  <2> SUFFICES ASSUME NEW S \in (SUBSET Switch) \ {{}},
                      \A v \in S : \E w \in S : <<v, w>> \in {}
               PROVE  FALSE
    BY DEF HasCycle
  <2> QED OBVIOUS
<1>7. RoutesInv
  <2>1. \A i \in DOMAIN Dests : Dests[i] \in Switch
    BY ControlAssumption
  <2>2. todo = {}
    BY DEF Init
  <2> QED BY <1>4, <1>5, <1>6, <2>1, <2>2 DEF RoutesInv
<1>8. FileInv /\ RowsInv
  BY DEF Init, FileInv, RowsInv, Range
<1>9. PreviousMirrorsAlternates
  <2>1. \A e \in ends : e.self \in Switch /\ e.nbr \in Switch
    BY <1>2 DEF GoodEnds, End4
  <2> QED BY <2>1 DEF Init, PreviousMirrorsAlternates, Range
<1> QED BY <1>1, <1>2, <1>3, <1>7, <1>8, <1>9 DEF IInv

(* What depends on the links and the routes found does not change with     *)
(* the rest of the state.                                                  *)
LEMMA SameRoutes ==
  ASSUME ends' = ends, routemap' = routemap
  PROVE  /\ \A d : RouteEdges(d)' = RouteEdges(d)
         /\ \A v, d, p : HasRoute(v, d, p)' <=> HasRoute(v, d, p)
BY DEF RouteEdges, GetNbr, HasRoute

LEMMA SamePaths ==
  ASSUME ends' = ends
  PROVE  /\ \A p, d : GoodPath(p, d)' <=> GoodPath(p, d)
         /\ GoodEnds(ends) => GoodEnds(ends)'
BY DEF GoodPath, Linked, GoodEnds

(* While nothing is installed or written, the rows and the file keep.      *)
LEMMA SameRows ==
  ASSUME ends' = ends, UNCHANGED <<file, alternates, previous>>,
         FileInv, RowsInv, PreviousMirrorsAlternates,
         \A v \in Switch : Range(routemap[v]) \subseteq Range(routemap[v])'
  PROVE  FileInv' /\ RowsInv' /\ PreviousMirrorsAlternates'
<1>1. \A v \in Switch : \A d, p : HasRoute(v, d, p) => HasRoute(v, d, p)'
  BY DEF HasRoute
<1>2. FileInv'
  BY <1>1 DEF FileInv
<1>3. RowsInv'
  BY <1>1 DEF RowsInv
<1>4. PreviousMirrorsAlternates'
  BY DEF PreviousMirrorsAlternates
<1> QED BY <1>2, <1>3, <1>4

(* The paths that are found are good. *)
LEMMA PathsGood ==
  ASSUME NEW d, NEW p \in Paths(d)
  PROVE  GoodPath(p, d)
<1>1. PICK n \in 2 .. SwCount : p \in [1 .. n -> Switch]
  BY DEF Paths
<1>2. p \in Seq(Switch) /\ Len(p) = n
  BY <1>1, ControlAssumption
<1>3. p[Len(p)] = d /\ IsInjective(p) /\ \A i \in 1 .. Len(p)-1 : Linked(p[i], p[i+1])
  BY DEF Paths
<1> QED BY <1>1, <1>2, <1>3 DEF GoodPath

LEMMA SearchNextInv == IInv /\ SearchNext => IInv'
<1> SUFFICES ASSUME IInv, SearchNext PROVE IInv'
  OBVIOUS
<1> USE DEF SearchNext, install
<1>1. next \in Nat /\ next < Len(Dests) /\ next' = next + 1 /\ next' \in DOMAIN Dests
  BY ControlAssumption DEF IInv, TypeOK
<1>2. \A p \in todo' : GoodPath(p, Dests[next'])
  BY PathsGood
<1>3. TypeOK'
  <2>1. todo' \subseteq Seq(Switch)
    BY <1>2 DEF GoodPath
  <2>2. next' \in 0 .. Len(Dests)
    BY <1>1, ControlAssumption
  <2> QED BY <2>1, <2>2 DEF IInv, TypeOK
<1>4. PathsInv'
  BY <1>1, <1>2, SamePaths DEF PathsInv
<1>5. RoutesInv'
  <2>1. \A d : RouteEdges(d)' = RouteEdges(d)
    BY SameRoutes
  <2>2. \A d : KeptEdges(d)' = {}
    BY DEF KeptEdges, Edges
  <2>3. ASSUME NEW d \in Switch PROVE ~ HasCycle(RouteEdges(d)' \cup KeptEdges(d)')
    <3>1. RouteEdges(d)' \cup KeptEdges(d)' \subseteq RouteEdges(d) \cup KeptEdges(d)
      BY <2>1, <2>2
    <3>2. ~ HasCycle(RouteEdges(d) \cup KeptEdges(d))
      BY DEF IInv, RoutesInv
    <3> QED BY <3>1, <3>2, CycleMonotone
  <2>4. PICK n \in DOMAIN Dests : n = next'
    BY <1>1
  <2>5. \A i \in DOMAIN Dests : i > n => RouteEdges(Dests[i])' = {}
    BY <1>1, <2>1, <2>4, ControlAssumption DEF IInv, RoutesInv
  <2>6. RouteEdges(Dests[n])' = {}
    BY <1>1, <2>1, <2>4 DEF IInv, RoutesInv
  <2>7. (\A v \in Switch : \A rt \in Range(routemap[v]) :
          \E e \in ends : e.self = v /\ e.ifc = rt.interface)'
    BY DEF IInv, RoutesInv
  <2>8. (\A d \in Switch : ~ HasCycle(RouteEdges(d) \cup KeptEdges(d)))'
    BY <2>3 DEF HasCycle
  <2> QED BY <2>4, <2>5, <2>6, <2>7, <2>8 DEF RoutesInv
<1>6. FileInv' /\ RowsInv' /\ PreviousMirrorsAlternates'
  BY SameRows DEF IInv
<1> QED BY <1>3, <1>4, <1>5, <1>6, SamePaths DEF IInv

(* The edges of a list of paths. *)
LEMMA EdgesAppend ==
  ASSUME NEW s \in Seq(Seq(Switch)), NEW p \in Seq(Switch)
  PROVE  Edges(Append(s, p)) = Edges(s) \cup PathEdges(p)
<1> DEFINE app == Append(s, p)
<1>1. /\ DOMAIN app = DOMAIN s \cup {Len(s)+1}
      /\ \A i \in DOMAIN s : app[i] = s[i]
      /\ app[Len(s)+1] = p
  OBVIOUS
<1> HIDE DEF app
<1>2. Edges(app) = Edges(s) \cup PathEdges(p)
  BY <1>1 DEF Edges
<1> QED BY <1>2 DEF app

LEMMA ConsiderInv == IInv /\ Consider => IInv'
<1> SUFFICES ASSUME IInv, Consider PROVE IInv'
  OBVIOUS
<1> USE DEF Consider, install
<1>1. PICK p \in todo : /\ todo' = todo \ {p}
                        /\ kept' = IF CheckPaths(kept, p) THEN Append(kept, p) ELSE kept
  BY DEF Shortest
<1> DEFINE d == Dests[next]
<1>2. next \in Nat /\ next > 0 /\ next \in DOMAIN Dests /\ d \in Switch
  BY ControlAssumption DEF IInv, TypeOK, PathsInv
<1>3. GoodPath(p, d) /\ p \in Seq(Switch)
  BY DEF IInv, PathsInv, GoodPath
<1>4. kept \in Seq(Seq(Switch))
  BY DEF IInv, TypeOK
<1>5. TypeOK'
  BY <1>1, <1>3, <1>4 DEF IInv, TypeOK
<1>6. PathsInv'
  <2>1. \A q \in todo' : GoodPath(q, d)
    BY <1>1 DEF IInv, PathsInv
  <2>2. \A i \in DOMAIN kept' : kept'[i] = p \/ (i \in DOMAIN kept /\ kept'[i] = kept[i])
    BY <1>1, <1>3, <1>4
  <2>3. \A i \in DOMAIN kept' : GoodPath(kept'[i], d)
    BY <1>3, <2>2 DEF IInv, PathsInv
  <2> QED BY <1>2, <2>1, <2>3, SamePaths DEF PathsInv
<1>7. RoutesInv'
  <2>1. \A c : RouteEdges(c)' = RouteEdges(c)
    BY SameRoutes
  <2>2. RouteEdges(d) = {}
    BY DEF IInv, RoutesInv
  <2>3. Edges(kept') = Edges(kept) \/ ~ HasCycle(Edges(kept'))
    <3>1. CASE CheckPaths(kept, p)
      <4>1. Edges(kept') = Edges(kept) \cup PathEdges(p)
        BY <1>1, <1>3, <1>4, <3>1, EdgesAppend
      <4> QED BY <3>1, <4>1 DEF CheckPaths
    <3>2. CASE ~ CheckPaths(kept, p)
      BY <1>1, <3>2
    <3> QED BY <3>1, <3>2
  <2>4. \A c : KeptEdges(c)' = IF Searching(c) THEN Edges(kept') ELSE {}
    BY DEF KeptEdges, Searching, Edges, PathEdges
  <2>5. ASSUME NEW c \in Switch PROVE ~ HasCycle(RouteEdges(c)' \cup KeptEdges(c)')
    <3>1. ~ HasCycle(RouteEdges(c) \cup KeptEdges(c))
      BY DEF IInv, RoutesInv
    <3>2. CASE Searching(c)
      <4>1. c = d
        BY <3>2 DEF Searching
      <4>2. RouteEdges(c)' \cup KeptEdges(c)' = Edges(kept')
        BY <2>1, <2>2, <2>4, <3>2, <4>1
      <4>3. RouteEdges(c) \cup KeptEdges(c) = Edges(kept)
        BY <2>2, <3>2, <4>1 DEF KeptEdges
      <4> QED BY <2>3, <3>1, <4>2, <4>3
    <3>3. CASE ~ Searching(c)
      BY <2>1, <2>4, <3>1, <3>3 DEF KeptEdges
    <3> QED BY <3>2, <3>3
  <2>6. (\A c \in Switch : ~ HasCycle(RouteEdges(c) \cup KeptEdges(c)))'
    BY <2>5 DEF HasCycle
  <2>7. (\A v \in Switch : \A rt \in Range(routemap[v]) :
          \E e \in ends : e.self = v /\ e.ifc = rt.interface)'
    BY DEF IInv, RoutesInv
  <2>8. \A i \in DOMAIN Dests : i > next => RouteEdges(Dests[i]) = {}
    BY DEF IInv, RoutesInv
  <2> QED BY <2>1, <2>2, <2>6, <2>7, <2>8 DEF RoutesInv
<1>8. FileInv' /\ RowsInv' /\ PreviousMirrorsAlternates'
  BY SameRows DEF IInv
<1> QED BY <1>5, <1>6, <1>7, <1>8, SamePaths DEF IInv

(* The route of a switch on a path leads to the next switch of the path. *)
LEMMA RouteGood ==
  ASSUME GoodEnds(ends), NEW d \in Switch, NEW p, GoodPath(p, d), NEW j \in 1 .. Len(p)-1
  PROVE  /\ Route(p, j) \in RouteType
         /\ Route(p, j).dstnode = d
         /\ \E e \in ends : e.self = p[j] /\ e.ifc = Route(p, j).interface
         /\ <<p[j], GetNbr(p[j], Route(p, j).interface)>> \in PathEdges(p)
<1>1. Len(p) \in Nat /\ Len(p) >= 2 /\ p[Len(p)] = d
  BY DEF GoodPath
<1>2. Linked(p[j], p[j+1])
  BY DEF GoodPath
<1>3. /\ \E e \in ends : e.self = p[j] /\ e.ifc = IfcTo(p[j], p[j+1])
      /\ IfcTo(p[j], p[j+1]) \in Ifc
      /\ GetNbr(p[j], IfcTo(p[j], p[j+1])) = p[j+1]
  BY <1>2, IfcToLeads
<1>4. IfcTo(d, p[Len(p)-1]) \in Ifc
  <2>1. Linked(p[Len(p)-1], p[Len(p)-1+1])
    BY <1>1 DEF GoodPath
  <2>2. Linked(p[Len(p)-1], d)
    BY <1>1, <2>1
  <2>3. Linked(d, p[Len(p)-1])
    BY <2>2 DEF Linked, GoodEnds, Reverse
  <2> QED BY <2>3, IfcToLeads
<1> QED BY <1>1, <1>3, <1>4 DEF Route, RouteType, PathEdges

(* The rows of routemap after the routes of a path are added. *)
LEMMA WithRoutesGood ==
  ASSUME GoodEnds(ends), NEW d \in Switch, NEW p, GoodPath(p, d),
         NEW map \in [Switch -> Seq(RouteType)], NEW v \in Switch
  PROVE  /\ WithRoutes(map, p)[v] \in Seq(RouteType)
         /\ Range(map[v]) \subseteq Range(WithRoutes(map, p)[v])
         /\ \A rt \in Range(WithRoutes(map, p)[v]) :
              \/ rt \in Range(map[v])
              \/ /\ rt.dstnode = d
                 /\ \E e \in ends : e.self = v /\ e.ifc = rt.interface
                 /\ <<v, GetNbr(v, rt.interface)>> \in PathEdges(p)
<1>1. CASE \E j \in 1 .. Len(p)-1 : p[j] = v
  <2> DEFINE j == CHOOSE j \in 1 .. Len(p)-1 : p[j] = v
  <2>1. j \in 1 .. Len(p)-1 /\ p[j] = v
    BY <1>1
  <2>2. WithRoutes(map, p)[v] = Added(map[v], Route(p, j))
    BY <1>1 DEF WithRoutes
  <2> HIDE DEF j
  <2>3. /\ Route(p, j) \in RouteType
        /\ Route(p, j).dstnode = d
        /\ \E e \in ends : e.self = v /\ e.ifc = Route(p, j).interface
        /\ <<v, GetNbr(v, Route(p, j).interface)>> \in PathEdges(p)
    BY <2>1, RouteGood
  <2>4. /\ Added(map[v], Route(p, j)) \in Seq(RouteType)
        /\ Range(Added(map[v], Route(p, j))) = Range(map[v]) \cup {Route(p, j)}
    BY <2>3, AddedRange
  <2> QED BY <2>2, <2>3, <2>4
<1>2. CASE ~ \E j \in 1 .. Len(p)-1 : p[j] = v
  <2>1. WithRoutes(map, p)[v] = map[v]
    BY <1>2 DEF WithRoutes
  <2> QED BY <2>1
<1> QED BY <1>1, <1>2

LEMMA AddRoutesInv == IInv /\ AddRoutes => IInv'
<1> SUFFICES ASSUME IInv, AddRoutes PROVE IInv'
  OBVIOUS
<1> USE DEF AddRoutes, install
<1> DEFINE p == Head(kept)
           d == Dests[next]
<1>1. next \in Nat /\ next > 0 /\ next \in DOMAIN Dests /\ d \in Switch
  BY ControlAssumption DEF IInv, TypeOK, PathsInv
<1>2. /\ kept \in Seq(Seq(Switch)) /\ kept # <<>>
      /\ GoodEnds(ends) /\ routemap \in [Switch -> Seq(RouteType)]
  BY DEF IInv, TypeOK
<1>3. 1 \in DOMAIN kept /\ kept[1] = p
  BY <1>2
<1>4. GoodPath(p, d)
  BY <1>3 DEF IInv, PathsInv
<1>5. /\ kept' \in Seq(Seq(Switch))
      /\ \A i \in DOMAIN kept' : i+1 \in DOMAIN kept /\ kept'[i] = kept[i+1]
  BY <1>2
<1>6. ASSUME NEW v \in Switch
      PROVE  /\ routemap'[v] \in Seq(RouteType)
             /\ Range(routemap[v]) \subseteq Range(routemap'[v])
             /\ \A rt \in Range(routemap'[v]) :
                  \/ rt \in Range(routemap[v])
                  \/ /\ rt.dstnode = d
                     /\ \E e \in ends : e.self = v /\ e.ifc = rt.interface
                     /\ <<v, GetNbr(v, rt.interface)>> \in PathEdges(p)
  <2>1. routemap' = WithRoutes(routemap, p)
    OBVIOUS
  <2> HIDE DEF p, d, AddRoutes
  <2> QED BY <1>1, <1>2, <1>4, <2>1, WithRoutesGood
<1>7. DOMAIN routemap' = Switch /\ routemap' = [v \in Switch |-> routemap'[v]]
  BY DEF WithRoutes
<1>8. TypeOK'
  <2>1. routemap' \in [Switch -> Seq(RouteType)]
    BY <1>6, <1>7
  <2> QED BY <1>5, <2>1 DEF IInv, TypeOK
<1>9. PathsInv'
  <2>1. \A i \in DOMAIN kept' : GoodPath(kept'[i], d)
    BY <1>5 DEF IInv, PathsInv
  <2> QED BY <1>1, <2>1, SamePaths DEF PathsInv
<1>10. PathEdges(p) \subseteq Edges(kept)
  BY <1>3 DEF Edges
<1>11. Edges(kept') \subseteq Edges(kept)
  BY <1>5 DEF Edges
<1>12. ASSUME NEW c \in Switch
       PROVE  RouteEdges(c)' \subseteq RouteEdges(c) \cup IF c = d THEN PathEdges(p) ELSE {}
  <2> SUFFICES ASSUME NEW x \in Switch \X Switch, NEW rt \in Range(routemap'[x[1]]),
                      rt.dstnode = c, GetNbr(x[1], rt.interface) = x[2]
               PROVE  x \in RouteEdges(c) \/ (c = d /\ x \in PathEdges(p))
    BY DEF RouteEdges, GetNbr
  <2>1. CASE rt \in Range(routemap[x[1]])
    BY <2>1 DEF RouteEdges
  <2>2. CASE rt \notin Range(routemap[x[1]])
    <3>1. rt.dstnode = d /\ <<x[1], GetNbr(x[1], rt.interface)>> \in PathEdges(p)
      BY <1>6, <2>2
    <3> QED BY <3>1
  <2> QED BY <2>1, <2>2
<1> HIDE DEF p
<1>13. RoutesInv'
  <2>1. \A c : KeptEdges(c)' = IF Searching(c) THEN Edges(kept') ELSE {}
    BY DEF KeptEdges, Searching, Edges, PathEdges
  <2>2. ASSUME NEW c \in Switch PROVE ~ HasCycle(RouteEdges(c)' \cup KeptEdges(c)')
    <3>1. ~ HasCycle(RouteEdges(c) \cup KeptEdges(c))
      BY DEF IInv, RoutesInv
    <3>2. RouteEdges(c)' \cup KeptEdges(c)' \subseteq RouteEdges(c) \cup KeptEdges(c)
      <4>1. CASE c = d
        <5>1. KeptEdges(c) = Edges(kept) /\ KeptEdges(c)' = Edges(kept')
          BY <1>1, <2>1, <4>1 DEF KeptEdges, Searching
        <5> QED BY <1>10, <1>11, <1>12, <4>1, <5>1
      <4>2. CASE c # d
        <5>1. KeptEdges(c)' = {}
          BY <2>1, <4>2 DEF Searching
        <5> QED BY <1>12, <4>2, <5>1
      <4> QED BY <4>1, <4>2
    <3> QED BY <3>1, <3>2, CycleMonotone
  <2>3. (\A c \in Switch : ~ HasCycle(RouteEdges(c) \cup KeptEdges(c)))'
    BY <2>2 DEF HasCycle
  <2>4. (\A v \in Switch : \A rt \in Range(routemap[v]) :
          \E e \in ends : e.self = v /\ e.ifc = rt.interface)'
    <3>1. \A v \in Switch : \A rt \in Range(routemap[v]) :
            \E e \in ends : e.self = v /\ e.ifc = rt.interface
      BY DEF IInv, RoutesInv
    <3> QED BY <1>6, <3>1
  <2>5. ASSUME NEW i \in DOMAIN Dests, i > next PROVE RouteEdges(Dests[i])' = {}
    <3>1. Dests[i] # d /\ Dests[i] \in Switch
      BY <1>1, <2>5, ControlAssumption DEF IsInjective
    <3>2. RouteEdges(Dests[i]) = {}
      BY <2>5 DEF IInv, RoutesInv
    <3> QED BY <1>12, <3>1, <3>2
  <2> QED BY <2>3, <2>4, <2>5 DEF RoutesInv
<1>14. FileInv' /\ RowsInv' /\ PreviousMirrorsAlternates'
  BY <1>6, SameRows DEF IInv
<1> QED BY <1>8, <1>9, <1>13, <1>14, SamePaths DEF IInv

(* A step that leaves the search alone. *)
LEMMA SearchKept ==
  ASSUME IInv, UNCHANGED <<ends, search>>
  PROVE  GoodEnds(ends)' /\ PathsInv' /\ RoutesInv'
<1> USE DEF search
<1>1. PathsInv'
  BY SamePaths DEF IInv, PathsInv
<1>2. RoutesInv'
  <2>1. \A d : RouteEdges(d)' = RouteEdges(d)
    BY SameRoutes
  <2>2. \A d : KeptEdges(d)' = KeptEdges(d)
    BY DEF KeptEdges, Searching, Edges, PathEdges
  <2>3. (\A d \in Switch : ~ HasCycle(RouteEdges(d) \cup KeptEdges(d)))'
    BY <2>1, <2>2 DEF IInv, RoutesInv, HasCycle
  <2> QED BY <2>1, <2>3 DEF IInv, RoutesInv
<1> QED BY <1>1, <1>2, SamePaths DEF IInv

LEMMA WriteRoutesInv == IInv /\ WriteRoutes => IInv'
<1> SUFFICES ASSUME IInv, WriteRoutes PROVE IInv'
  OBVIOUS
<1> USE DEF WriteRoutes
<1>1. GoodEnds(ends)' /\ PathsInv' /\ RoutesInv'
  BY SearchKept
<1>2. ASSUME NEW v \in Switch, NEW j \in DOMAIN routemap[v]
      PROVE  /\ Records(v)[j] \in Record
             /\ Records(v)[j].nodeid = v
             /\ HasRoute(v, Records(v)[j].dst, Records(v)[j].interface)
             /\ [self |-> v, ifc |-> Records(v)[j].interface, nbr |-> Records(v)[j].nbr,
                 nbrifc |-> Records(v)[j].nbrifc] \in ends
  <2> DEFINE rt == routemap[v][j]
             r == Records(v)[j]
  <2>1. rt \in Range(routemap[v]) /\ rt \in RouteType
    BY DEF Range, IInv, TypeOK
  <2>2. PICK e \in ends : e.self = v /\ e.ifc = rt.interface
    BY <2>1 DEF IInv, RoutesInv
  <2>3. GetNbr(v, rt.interface) = e.nbr /\ IfcTo(e.nbr, v) = e.nbrifc
    BY <2>2, GetNbrLeads DEF IInv
  <2>4. r = [nodeid |-> v, interface |-> e.ifc, nbr |-> e.nbr, nbrifc |-> e.nbrifc,
             dst |-> rt.dstnode]
    BY <2>2, <2>3 DEF Records
  <2>5. e \in End4 /\ e = [self |-> v, ifc |-> e.ifc, nbr |-> e.nbr, nbrifc |-> e.nbrifc]
    BY <2>2 DEF IInv, GoodEnds, End4
  <2>6. HasRoute(v, rt.dstnode, e.ifc)
    BY <2>1, <2>2 DEF HasRoute
  <2> HIDE DEF rt, r
  <2>7. r \in Record
    BY <2>1, <2>4, <2>5 DEF Record, RouteType, End4
  <2>8. [self |-> v, ifc |-> r.interface, nbr |-> r.nbr, nbrifc |-> r.nbrifc] \in ends
    BY <2>2, <2>4, <2>5
  <2> QED BY <2>4, <2>6, <2>7, <2>8 DEF r
<1>3. \A v \in Switch : DOMAIN Records(v) = DOMAIN routemap[v]
  BY DEF Records
<1>4. ASSUME NEW v \in Switch PROVE Records(v) \in Seq(Record)
  <2>1. routemap[v] \in Seq(RouteType)
    BY DEF IInv, TypeOK
  <2>2. DOMAIN Records(v) = 1 .. Len(routemap[v]) /\ Len(routemap[v]) \in Nat
    BY <1>3, <2>1
  <2>3. Records(v) = [j \in 1 .. Len(routemap[v]) |-> Records(v)[j]]
    BY <2>1 DEF Records
  <2>4. \A j \in 1 .. Len(routemap[v]) : Records(v)[j] \in Record
    <3>1. DOMAIN routemap[v] = 1 .. Len(routemap[v])
      BY <2>1
    <3> HIDE DEF WriteRoutes
    <3> QED BY <1>2, <3>1
  <2> QED BY <2>2, <2>3, <2>4
<1>5. file' = [v \in Switch |-> Records(v)]
  OBVIOUS
<1> HIDE DEF WriteRoutes
<1>6. UNCHANGED <<ends, search, alternates, previous>> /\ written' \in BOOLEAN
  BY DEF WriteRoutes
<1>7. TypeOK'
  <2>1. file' \in [Switch -> Seq(Record)]
    BY <1>4, <1>5
  <2> QED BY <1>6, <2>1 DEF IInv, TypeOK, search
<1>8. \A v, d, p : HasRoute(v, d, p)' <=> HasRoute(v, d, p)
  BY <1>6, SameRoutes DEF search
<1>9. FileInv'
  <2> SUFFICES ASSUME NEW v \in Switch, NEW r \in Range(Records(v))
               PROVE  /\ r.nodeid = v
                      /\ HasRoute(v, r.dst, r.interface)
                      /\ [self |-> v, ifc |-> r.interface, nbr |-> r.nbr, nbrifc |-> r.nbrifc]
                           \in ends
    BY <1>5, <1>6, <1>8 DEF FileInv
  <2>1. PICK j \in DOMAIN routemap[v] : r = Records(v)[j]
    BY <1>3 DEF Range
  <2> QED BY <1>2, <2>1
<1>10. RowsInv'
  BY <1>6, <1>8 DEF IInv, RowsInv
<1>11. PreviousMirrorsAlternates'
  BY <1>6 DEF IInv, PreviousMirrorsAlternates
<1> QED BY <1>1, <1>7, <1>9, <1>10, <1>11 DEF IInv

LEMMA InstallInv == IInv /\ Install => IInv'
<1> SUFFICES ASSUME IInv, Install PROVE IInv'
  OBVIOUS
<1>1. PICK u \in Switch :
        LET r == Head(file[u]) IN
        /\ file[u] # <<>>
        /\ alternates' = [alternates EXCEPT ![r.nodeid][r.dst] = Added(@, r.interface)]
        /\ previous' = [previous EXCEPT ![r.nbr][r.dst] = Added(@, r.nbrifc)]
        /\ file' = [file EXCEPT ![u] = Tail(@)]
  BY DEF Install
<1> DEFINE r == Head(file[u])
<1>2. UNCHANGED <<ends, search, written>>
  BY DEF Install
<1>3. GoodEnds(ends)' /\ PathsInv' /\ RoutesInv'
  BY <1>2, SearchKept
<1>4. file[u] \in Seq(Record) /\ file \in [Switch -> Seq(Record)]
  BY DEF IInv, TypeOK
<1>5. /\ Tail(file[u]) \in Seq(Record) /\ Range(Tail(file[u])) \subseteq Range(file[u])
      /\ r \in Record /\ r \in Range(file[u])
  BY <1>1, <1>4, TailRange
<1> DEFINE e0 == [self |-> u, ifc |-> r.interface, nbr |-> r.nbr, nbrifc |-> r.nbrifc]
<1>6. r.nodeid = u /\ HasRoute(u, r.dst, r.interface) /\ e0 \in ends
  BY <1>5 DEF IInv, FileInv
<1>7. /\ file' = [file EXCEPT ![u] = Tail(@)]
      /\ alternates' = [alternates EXCEPT ![u][r.dst] = Added(@, r.interface)]
      /\ previous' = [previous EXCEPT ![r.nbr][r.dst] = Added(@, r.nbrifc)]
  BY <1>1, <1>6
<1>8. r.nbr \in Switch /\ r.dst \in Switch /\ r.interface \in Ifc /\ r.nbrifc \in Ifc
  BY <1>5 DEF Record
<1> HIDE DEF r
<1>9. /\ alternates \in [Switch -> [Switch -> Seq(Ifc)]]
      /\ previous \in [Switch -> [Switch -> Seq(Ifc)]]
  BY DEF IInv, TypeOK
<1>10. /\ Added(alternates[u][r.dst], r.interface) \in Seq(Ifc)
       /\ Range(Added(alternates[u][r.dst], r.interface))
            = Range(alternates[u][r.dst]) \cup {r.interface}
  <2>1. alternates[u][r.dst] \in Seq(Ifc)
    BY <1>8, <1>9
  <2> QED BY <1>8, <2>1, AddedRange
<1>11. /\ Added(previous[r.nbr][r.dst], r.nbrifc) \in Seq(Ifc)
       /\ Range(Added(previous[r.nbr][r.dst], r.nbrifc))
            = Range(previous[r.nbr][r.dst]) \cup {r.nbrifc}
  <2>1. previous[r.nbr][r.dst] \in Seq(Ifc)
    BY <1>8, <1>9
  <2> QED BY <1>8, <2>1, AddedRange
<1>12. TypeOK'
  <2>1. alternates' \in [Switch -> [Switch -> Seq(Ifc)]]
    BY <1>7, <1>8, <1>9, <1>10
  <2>2. previous' \in [Switch -> [Switch -> Seq(Ifc)]]
    BY <1>7, <1>8, <1>9, <1>11
  <2>3. file' \in [Switch -> Seq(Record)]
    BY <1>4, <1>5, <1>7
  <2> QED BY <1>2, <2>1, <2>2, <2>3 DEF IInv, TypeOK, search
<1>13. ASSUME NEW v \in Switch, NEW d \in Switch
       PROVE  /\ Range(alternates'[v][d]) = Range(alternates[v][d])
                    \cup IF v = u /\ d = r.dst THEN {r.interface} ELSE {}
              /\ Range(previous'[v][d]) = Range(previous[v][d])
                    \cup IF v = r.nbr /\ d = r.dst THEN {r.nbrifc} ELSE {}
  <2>1. alternates'[v][d] = IF v = u /\ d = r.dst
                            THEN Added(alternates[u][r.dst], r.interface)
                            ELSE alternates[v][d]
    BY <1>7, <1>8, <1>9
  <2>2. previous'[v][d] = IF v = r.nbr /\ d = r.dst
                          THEN Added(previous[r.nbr][r.dst], r.nbrifc)
                          ELSE previous[v][d]
    BY <1>7, <1>8, <1>9
  <2> QED BY <1>10, <1>11, <2>1, <2>2
<1>14. \A v, d, p : HasRoute(v, d, p)' <=> HasRoute(v, d, p)
  BY <1>2, SameRoutes DEF search
<1>15. FileInv'
  <2>1. \A v \in Switch : Range(file'[v]) \subseteq Range(file[v])
    BY <1>4, <1>5, <1>7
  <2> QED BY <1>2, <1>14, <2>1 DEF IInv, FileInv
<1>16. RowsInv'
  BY <1>6, <1>13, <1>14 DEF IInv, RowsInv
<1>17. PreviousMirrorsAlternates'
  <2> SUFFICES ASSUME NEW e \in ends, NEW d \in Switch
               PROVE  e.ifc \in Range(previous'[e.self][d])
                        <=> e.nbrifc \in Range(alternates'[e.nbr][d])
    BY <1>2 DEF PreviousMirrorsAlternates
  <2>1. e \in End4 /\ GoodEnds(ends)
    BY DEF IInv, GoodEnds
  <2>2. e.self = r.nbr /\ e.ifc = r.nbrifc <=> e.nbr = u /\ e.nbrifc = r.interface
    <3>1. Reverse(e0) \in ends /\ Reverse(e) \in ends
      BY <1>6, <2>1 DEF GoodEnds
    <3>2. e.self = r.nbr /\ e.ifc = r.nbrifc => e = Reverse(e0)
      BY <2>1, <3>1 DEF GoodEnds, Reverse
    <3>3. e.nbr = u /\ e.nbrifc = r.interface => Reverse(e) = e0
      BY <1>6, <2>1, <3>1 DEF GoodEnds, Reverse
    <3> QED BY <3>2, <3>3 DEF Reverse
  <2>3. e.ifc \in Range(previous[e.self][d]) <=> e.nbrifc \in Range(alternates[e.nbr][d])
    BY DEF IInv, PreviousMirrorsAlternates
  <2> QED BY <1>13, <2>1, <2>2, <2>3 DEF End4
<1> QED BY <1>3, <1>12, <1>15, <1>16, <1>17 DEF IInv

LEMMA StepInv == IInv /\ [Next]_vars => IInv'
<1>1. IInv /\ UNCHANGED vars => IInv'
  <2> SUFFICES ASSUME IInv, UNCHANGED vars PROVE IInv'
    OBVIOUS
  <2>1. UNCHANGED <<ends, search>> /\ UNCHANGED <<file, alternates, previous, written>>
    BY DEF vars, install
  <2>2. GoodEnds(ends)' /\ PathsInv' /\ RoutesInv'
    BY <2>1, SearchKept
  <2>3. FileInv' /\ RowsInv' /\ PreviousMirrorsAlternates'
    BY <2>1, SameRows DEF search, IInv
  <2>4. TypeOK'
    BY <2>1 DEF search, IInv, TypeOK
  <2> QED BY <2>2, <2>3, <2>4 DEF IInv
<1> QED BY <1>1, SearchNextInv, ConsiderInv, AddRoutesInv, WriteRoutesInv, InstallInv DEF Next

THEOREM Invariance == Spec => []IInv
BY InitInv, StepInv, PTL DEF Spec

(* Every interface a record or a row names exists: the searches, the file  *)
(* and the rows keep their types.                                          *)
THEOREM TypeCorrect == Spec => []TypeOK
<1>1. IInv => TypeOK
  BY DEF IInv
<1> QED BY <1>1, Invariance, PTL

(* On every topology, at every moment of the installation, the installed   *)
(* routes to a destination form no cycle: they are among those found, and  *)
(* checkpaths has kept these free of cycles.                               *)
THEOREM InstalledAcyclicHolds == Spec => []InstalledAcyclic
<1>1. IInv => InstalledAcyclic
  <2> SUFFICES ASSUME IInv, NEW d \in Switch
               PROVE  ~ HasCycle({ x \in Switch \X Switch : x[2] \in NextHops(x[1], d) })
    BY DEF InstalledAcyclic
  <2> DEFINE E == { x \in Switch \X Switch : x[2] \in NextHops(x[1], d) }
  <2>1. E \subseteq RouteEdges(d) \cup KeptEdges(d)
    <3> SUFFICES ASSUME NEW x \in Switch \X Switch, NEW p \in Range(alternates[x[1]][d]),
                        x[2] = GetNbr(x[1], p)
                 PROVE  x \in RouteEdges(d)
      BY DEF NextHops
    <3>1. HasRoute(x[1], d, p)
      BY DEF IInv, RowsInv
    <3> QED BY <3>1 DEF HasRoute, RouteEdges
  <2>2. ~ HasCycle(RouteEdges(d) \cup KeptEdges(d))
    BY DEF IInv, RoutesInv
  <2> HIDE DEF E
  <2>3. ~ HasCycle(E)
    BY <2>1, <2>2, CycleMonotone
  <2> QED BY <2>3 DEF E
<1> QED BY <1>1, Invariance, PTL

(* On every topology, at every moment of the installation, a switch sends  *)
(* its updates to exactly the neighbours that route through it.            *)
THEOREM PreviousMirrorsAlternatesHolds == Spec => []PreviousMirrorsAlternates
<1>1. IInv => PreviousMirrorsAlternates
  BY DEF IInv
<1> QED BY <1>1, Invariance, PTL

----------------------------------------------------------------------------
(* Shortest paths, and why greedy pruning keeps every one of them.         *)

(* A path of the search that no walk undercuts. *)
ShortestPath(p, d) == p \in Paths(d) /\ Hops(p[1], d, Len(p)-1)

(* What a path of the search is, and when a function is one. *)
LEMMA PathShape ==
  ASSUME NEW d, NEW p \in Paths(d)
  PROVE  /\ Len(p) \in 2 .. SwCount /\ p \in [1 .. Len(p) -> Switch]
         /\ p[Len(p)] = d /\ 2 * Len(p) - 3 <= MaxLen
         /\ \A i, j \in 1 .. Len(p) : p[i] = p[j] => i = j
         /\ \A i \in 1 .. Len(p)-1 : Linked(p[i], p[i+1])
<1>1. PICK n \in 2 .. SwCount : p \in [1 .. n -> Switch]
  BY DEF Paths
<1>2. Len(p) = n
  BY <1>1, ControlAssumption
<1>3. /\ p[Len(p)] = d /\ 2 * Len(p) - 3 <= MaxLen /\ IsInjective(p)
      /\ \A i \in 1 .. Len(p)-1 : Linked(p[i], p[i+1])
  BY DEF Paths
<1> QED BY <1>1, <1>2, <1>3 DEF IsInjective

LEMMA PathIntro ==
  ASSUME NEW d, NEW n \in 2 .. SwCount, NEW p \in [1 .. n -> Switch],
         p[n] = d, 2 * n - 3 <= MaxLen,
         \A i, j \in 1 .. n : p[i] = p[j] => i = j,
         \A i \in 1 .. n-1 : Linked(p[i], p[i+1])
  PROVE  p \in Paths(d) /\ Len(p) = n
<1>1. Len(p) = n /\ n \in Nat
  BY ControlAssumption
<1>2. IsInjective(p)
  BY DEF IsInjective
<1> QED BY <1>1, <1>2 DEF Paths

(* The rest of a path is a walk. *)
LEMMA WalkFrom ==
  ASSUME NEW d, NEW p, GoodPath(p, d), NEW j \in 1 .. Len(p)
  PROVE  Walks(p[j], d, Len(p)-j) # {}
<1> DEFINE n == Len(p)-j
           x == [k \in 0 .. n |-> p[j+k]]
<1>1. /\ Len(p) \in Nat /\ j \in Nat /\ n \in Nat
      /\ \A i \in 1 .. Len(p) : p[i] \in Switch
      /\ p[Len(p)] = d /\ \A i \in 1 .. Len(p)-1 : Linked(p[i], p[i+1])
  BY DEF GoodPath
<1>2. \A k \in 0 .. n : j+k \in 1 .. Len(p)
  BY <1>1
<1>3. x \in [0 .. n -> Switch]
  BY <1>1, <1>2
<1>4. x[0] = p[j] /\ x[n] = d
  <2>1. 0 \in 0 .. n /\ n \in 0 .. n /\ j+0 = j /\ j+n = Len(p)
    BY <1>1
  <2> QED BY <1>1, <2>1
<1>5. ASSUME NEW k \in 0 .. n-1 PROVE Linked(x[k], x[k+1])
  <2>1. k \in 0 .. n /\ k+1 \in 0 .. n /\ j+k \in 1 .. Len(p)-1 /\ (j+k)+1 = j+(k+1)
    BY <1>1
  <2> QED BY <1>1, <2>1
<1> HIDE DEF n, x
<1>6. x \in Walks(p[j], d, n)
  BY <1>3, <1>4, <1>5 DEF Walks
<1> QED BY <1>6 DEF n

(* A walk is prolonged at its beginning. *)
LEMMA WalkLonger ==
  ASSUME NEW v \in Switch, NEW w, NEW d, NEW n \in Nat, NEW x \in Walks(w, d, n), Linked(v, w)
  PROVE  [k \in 0 .. n+1 |-> IF k = 0 THEN v ELSE x[k-1]] \in Walks(v, d, n+1)
<1> DEFINE y == [k \in 0 .. n+1 |-> IF k = 0 THEN v ELSE x[k-1]]
<1>1. /\ x \in [0 .. n -> Switch] /\ x[0] = w /\ x[n] = d
      /\ \A k \in 0 .. n-1 : Linked(x[k], x[k+1])
  BY DEF Walks
<1>2. y \in [0 .. n+1 -> Switch]
  BY <1>1
<1>3. y[0] = v /\ y[n+1] = d
  BY <1>1
<1>4. ASSUME NEW k \in 0 .. (n+1)-1 PROVE Linked(y[k], y[k+1])
  <2>1. CASE k = 0
    <3>1. y[k] = v /\ y[k+1] = w
      BY <1>1, <2>1
    <3> QED BY <3>1
  <2>2. CASE k # 0
    <3>1. k-1 \in 0 .. n-1 /\ (k-1)+1 = k /\ k \in 0 .. n+1 /\ k+1 \in 0 .. n+1 /\ (k+1)-1 = k
      BY <2>2
    <3>2. y[k] = x[k-1] /\ y[k+1] = x[k]
      BY <2>2, <3>1
    <3>3. Linked(x[k-1], x[(k-1)+1])
      BY <1>1, <3>1
    <3> QED BY <3>1, <3>2, <3>3
  <2> QED BY <2>1, <2>2
<1> HIDE DEF y
<1>5. y \in Walks(v, d, n+1)
  BY <1>2, <1>3, <1>4 DEF Walks
<1> QED BY <1>5 DEF y

(* A walk that comes back to a switch is shortened by the detour. *)
LEMMA WalkCut ==
  ASSUME NEW v, NEW d, NEW n \in Nat, NEW x \in Walks(v, d, n),
         NEW i \in 0 .. n, NEW j \in 0 .. n, i < j, x[i] = x[j]
  PROVE  Walks(v, d, n-(j-i)) # {}
<1> DEFINE l == n-(j-i)
           y == [k \in 0 .. l |-> IF k <= i THEN x[k] ELSE x[k+(j-i)]]
<1>1. /\ x \in [0 .. n -> Switch] /\ x[0] = v /\ x[n] = d
      /\ \A k \in 0 .. n-1 : Linked(x[k], x[k+1])
  BY DEF Walks
<1>2. l \in Nat /\ i <= l /\ l < n /\ i \in Nat /\ j \in Nat
  OBVIOUS
<1>3. ASSUME NEW k \in 0 .. l
      PROVE  k \in 0 .. n /\ k+(j-i) \in 0 .. n
  BY <1>2
<1>4. y \in [0 .. l -> Switch]
  BY <1>1, <1>3
<1>5. y[0] = v /\ y[l] = d
  <2>1. y[0] = v
    BY <1>1, <1>2
  <2>2. CASE l <= i
    <3>1. l = i /\ j = n
      BY <1>2, <2>2
    <3> QED BY <1>1, <1>2, <2>1, <3>1
  <2>3. CASE ~ l <= i
    <3>1. l+(j-i) = n
      BY <1>2
    <3> QED BY <1>1, <1>2, <2>1, <2>3, <3>1
  <2> QED BY <2>2, <2>3
<1>6. ASSUME NEW k \in 0 .. l-1 PROVE Linked(y[k], y[k+1])
  <2>1. k \in 0 .. l /\ k+1 \in 0 .. l
    BY <1>2
  <2>2. CASE k+1 <= i
    <3>1. y[k] = x[k] /\ y[k+1] = x[k+1] /\ k \in 0 .. n-1
      BY <1>2, <2>1, <2>2
    <3> QED BY <1>1, <3>1
  <2>3. CASE k = i
    <3>1. y[k] = x[j] /\ y[k+1] = x[j+1] /\ j \in 0 .. n-1
      <4>1. (k+1)+(j-i) = j+1 /\ ~ k+1 <= i /\ k <= i /\ j \in 0 .. n-1
        BY <1>2, <2>1, <2>3
      <4>2. y[k] = x[i] /\ y[k+1] = x[(k+1)+(j-i)]
        BY <2>1, <2>3, <4>1
      <4> QED BY <4>1, <4>2
    <3> QED BY <1>1, <3>1
  <2>4. CASE k > i
    <3>1. /\ ~ k <= i /\ ~ k+1 <= i /\ k+(j-i) \in 0 .. n-1
          /\ (k+1)+(j-i) = (k+(j-i))+1
      BY <1>2, <2>1, <2>4
    <3>2. y[k] = x[k+(j-i)] /\ y[k+1] = x[(k+1)+(j-i)]
      BY <2>1, <3>1
    <3> QED BY <1>1, <3>1, <3>2
  <2> QED BY <1>2, <2>1, <2>2, <2>3, <2>4
<1> HIDE DEF y, l
<1>7. y \in Walks(v, d, l)
  BY <1>4, <1>5, <1>6 DEF Walks
<1> QED BY <1>7 DEF l

(* From a switch n hops away, a neighbour with a walk of n-1 is n-1 away. *)
LEMMA HopsDown ==
  ASSUME NEW v \in Switch, NEW w, NEW d, NEW n \in Nat, n > 0,
         Hops(v, d, n), Linked(v, w), Walks(w, d, n-1) # {}
  PROVE  Hops(w, d, n-1)
<1> SUFFICES ASSUME NEW m \in 0 .. (n-1)-1, NEW x \in Walks(w, d, m) PROVE FALSE
  BY DEF Hops
<1>1. m \in Nat /\ m+1 \in 0 .. n-1
  OBVIOUS
<1>2. Walks(v, d, m+1) # {}
  BY <1>1, WalkLonger
<1> QED BY <1>1, <1>2 DEF Hops

(* Without its first switch, a shortest path is a shortest path. *)
LEMMA ShortestSuffix ==
  ASSUME NEW d, NEW p, ShortestPath(p, d), Len(p) >= 3
  PROVE  \E q : /\ ShortestPath(q, d) /\ Len(q) = Len(p)-1
                /\ PathEdges(p) = PathEdges(q) \cup {<<p[1], p[2]>>}
<1> DEFINE n == Len(p)-1
           q == [k \in 1 .. n |-> p[k+1]]
<1>1. /\ Len(p) \in 2 .. SwCount /\ p \in [1 .. Len(p) -> Switch]
      /\ p[Len(p)] = d /\ 2 * Len(p) - 3 <= MaxLen
      /\ \A i, j \in 1 .. Len(p) : p[i] = p[j] => i = j
      /\ \A i \in 1 .. Len(p)-1 : Linked(p[i], p[i+1])
      /\ GoodPath(p, d) /\ SwCount \in Nat /\ MaxLen \in Nat
  BY PathShape, PathsGood, ControlAssumption DEF ShortestPath
<1>2. n \in 2 .. SwCount /\ n+1 = Len(p) /\ 2 * n - 3 <= MaxLen
  BY <1>1
<1>3. q \in Paths(d) /\ Len(q) = n
  <2>1. q \in [1 .. n -> Switch] /\ q[n] = d
    BY <1>1, <1>2
  <2>2. \A i \in 1 .. n : i+1 \in 1 .. Len(p) /\ q[i] = p[i+1]
    BY <1>1, <1>2
  <2>3. ASSUME NEW i \in 1 .. n, NEW j \in 1 .. n, q[i] = q[j] PROVE i = j
    <3>1. i+1 = j+1
      BY <1>1, <2>2, <2>3
    <3> QED BY <1>2, <3>1
  <2>4. ASSUME NEW i \in 1 .. n-1 PROVE Linked(q[i], q[i+1])
    <3>1. i \in 1 .. n /\ i+1 \in 1 .. n /\ i+1 \in 1 .. Len(p)-1
      BY <1>2
    <3>2. Linked(p[i+1], p[(i+1)+1])
      BY <1>1, <3>1
    <3> QED BY <2>2, <3>1, <3>2
  <2> HIDE DEF q, n
  <2> QED BY <1>2, <2>1, <2>3, <2>4, PathIntro
<1>4. q[1] = p[2] /\ p[1] \in Switch /\ Linked(p[1], p[2])
  <2>1. 1 \in 1 .. n /\ 1 \in 1 .. Len(p)-1 /\ 1 \in 1 .. Len(p) /\ 1+1 = 2
    BY <1>1, <1>2
  <2>2. Linked(p[1], p[1+1])
    BY <1>1, <2>1
  <2> QED BY <1>1, <2>1, <2>2
<1>5. Hops(q[1], d, n-1)
  <2>1. Walks(p[2], d, Len(p)-2) # {}
    <3>1. 2 \in 1 .. Len(p)
      BY <1>1
    <3> QED BY <1>1, <3>1, WalkFrom
  <2>2. Len(p)-2 = n-1 /\ n \in Nat /\ n > 0 /\ Hops(p[1], d, n)
    BY <1>1, <1>2 DEF ShortestPath
  <2> HIDE DEF n, q
  <2> QED BY <1>4, <2>1, <2>2, HopsDown
<1>6. PathEdges(p) = PathEdges(q) \cup {<<p[1], p[2]>>}
  <2>1. ASSUME NEW i \in 1 .. Len(p)-1
        PROVE  <<p[i], p[i+1]>> \in PathEdges(q) \cup {<<p[1], p[2]>>}
    <3>1. CASE i = 1
      BY <3>1
    <3>2. CASE i # 1
      <4>1. i-1 \in 1 .. n-1 /\ i-1 \in 1 .. n /\ (i-1)+1 \in 1 .. n /\ (i-1)+1 = i
        BY <1>2, <3>2
      <4>2. q[i-1] = p[i] /\ q[(i-1)+1] = p[i+1]
        BY <4>1
      <4>3. <<q[i-1], q[(i-1)+1]>> \in PathEdges(q)
        BY <1>3, <4>1 DEF PathEdges
      <4> QED BY <4>2, <4>3
    <3> QED BY <3>1, <3>2
  <2>2. ASSUME NEW i \in 1 .. n-1 PROVE <<q[i], q[i+1]>> \in PathEdges(p)
    <3>1. i+1 \in 1 .. Len(p)-1 /\ i \in 1 .. n /\ i+1 \in 1 .. n
      BY <1>2
    <3>2. q[i] = p[i+1] /\ q[i+1] = p[(i+1)+1]
      BY <3>1
    <3> QED BY <3>1, <3>2 DEF PathEdges
  <2>3. <<p[1], p[2]>> \in PathEdges(p)
    <3>1. 1 \in 1 .. Len(p)-1 /\ 1+1 = 2
      BY <1>1
    <3> QED BY <3>1 DEF PathEdges
  <2> HIDE DEF q, n
  <2> QED BY <1>3, <2>1, <2>2, <2>3 DEF PathEdges
<1> QED BY <1>2, <1>3, <1>5, <1>6 DEF ShortestPath

(* Every link to a neighbour nearer to d begins a shortest path. *)
LEMMA ShortestBegins ==
  ASSUME NEW v \in Switch, NEW w \in Switch, NEW d, NEW n \in 1 .. SwCount-1,
         Linked(v, w), 2 * n - 1 <= MaxLen, Hops(v, d, n), Hops(w, d, n-1)
  PROVE  \E p : ShortestPath(p, d) /\ <<v, w>> \in PathEdges(p)
<1>0. n \in Nat /\ n >= 1 /\ n-1 \in Nat /\ SwCount \in Nat /\ (n-1)+1 = n
  BY ControlAssumption
<1>1. PICK x : x \in Walks(w, d, n-1)
  BY DEF Hops
<1> DEFINE y == [k \in 0 .. (n-1)+1 |-> IF k = 0 THEN v ELSE x[k-1]]
           p == [k \in 1 .. n+1 |-> y[k-1]]
<1>2. y \in Walks(v, d, n)
  BY <1>0, <1>1, WalkLonger
<1>3. x[0] = w /\ y[0] = v /\ y[1] = w
  <2>1. x[0] = w
    BY <1>1 DEF Walks
  <2> QED BY <1>0, <2>1
<1> HIDE DEF y
<1>4. /\ y \in [0 .. n -> Switch] /\ y[n] = d
      /\ \A k \in 0 .. n-1 : Linked(y[k], y[k+1])
  BY <1>2 DEF Walks
<1>5. ASSUME NEW i \in 0 .. n, NEW j \in 0 .. n, i < j PROVE y[i] # y[j]
  <2>1. n-(j-i) \in 0 .. n-1
    BY <1>0, <1>5
  <2>2. Walks(v, d, n-(j-i)) = {}
    BY <2>1 DEF Hops
  <2> QED BY <1>0, <1>2, <1>5, <2>2, WalkCut
<1>6. \A k \in 1 .. n+1 : k-1 \in 0 .. n /\ p[k] = y[k-1]
  BY <1>0
<1>7. p \in [1 .. n+1 -> Switch] /\ p[n+1] = d /\ n+1 \in 2 .. SwCount /\ 2 * (n+1) - 3 <= MaxLen
  <2>1. 2 * (n+1) - 3 = 2 * n - 1
    BY <1>0
  <2> QED BY <1>0, <1>4, <2>1
<1>8. ASSUME NEW i \in 1 .. n+1, NEW j \in 1 .. n+1, p[i] = p[j] PROVE i = j
  <2>1. ~ (i-1 < j-1) /\ ~ (j-1 < i-1)
    BY <1>5, <1>6, <1>8
  <2> QED BY <1>0, <2>1
<1>9. ASSUME NEW i \in 1 .. (n+1)-1 PROVE Linked(p[i], p[i+1])
  <2>1. i \in 1 .. n+1 /\ i+1 \in 1 .. n+1 /\ i-1 \in 0 .. n-1 /\ (i-1)+1 = (i+1)-1
    BY <1>0
  <2> QED BY <1>4, <1>6, <2>1
<1>10. p[1] = v /\ p[1+1] = w
  <2>1. 1 \in 1 .. n+1 /\ 1+1 \in 1 .. n+1 /\ 1-1 = 0 /\ (1+1)-1 = 1
    BY <1>0
  <2> QED BY <1>3, <1>6, <2>1
<1> HIDE DEF p
<1>11. p \in Paths(d) /\ Len(p) = n+1
  BY <1>7, <1>8, <1>9, PathIntro
<1>12. <<v, w>> \in PathEdges(p)
  <2>1. 1 \in 1 .. Len(p)-1
    BY <1>0, <1>11
  <2> QED BY <1>10, <2>1 DEF PathEdges
<1>13. Len(p)-1 = n
  BY <1>0, <1>11
<1> QED BY <1>10, <1>11, <1>12, <1>13 DEF ShortestPath

(* No path that is not longer leads into the first switch of a shortest    *)
(* one.                                                                    *)
LEMMA NoWayBack ==
  ASSUME NEW d, NEW p, ShortestPath(p, d), NEW q, GoodPath(q, d), Len(q) <= Len(p), NEW v
  PROVE  <<v, p[1]>> \notin PathEdges(q)
<1> SUFFICES ASSUME NEW i \in 1 .. Len(q)-1, q[i+1] = p[1] PROVE FALSE
  BY DEF PathEdges
<1>1. Len(p) \in Nat /\ Len(q) \in Nat
  BY PathsGood DEF ShortestPath, GoodPath
<1>2. i+1 \in 1 .. Len(q) /\ Len(q)-(i+1) \in 0 .. (Len(p)-1)-1
  BY <1>1
<1>3. Walks(p[1], d, Len(q)-(i+1)) # {}
  BY <1>2, WalkFrom
<1> QED BY <1>2, <1>3 DEF ShortestPath, Hops

(* So a shortest path is compatible with the paths kept before it, once    *)
(* the shorter shortest paths are among them.                              *)
LEMMA ShortestCloses ==
  ASSUME NEW d, NEW p, ShortestPath(p, d), NEW E, ~ HasCycle(E),
         \A v : <<v, p[1]>> \notin E,
         \A q : ShortestPath(q, d) /\ Len(q) = Len(p)-1 => PathEdges(q) \subseteq E
  PROVE  ~ HasCycle(E \cup PathEdges(p))
<1>1. /\ Len(p) \in Nat /\ Len(p) >= 2 /\ 1 \in 1 .. Len(p)-1
      /\ GoodPath(p, d) /\ PathEdges(p) = { <<p[i], p[i+1]>> : i \in 1 .. Len(p)-1 }
  BY PathsGood DEF ShortestPath, GoodPath, PathEdges
<1>2. PathEdges(p) \subseteq E \cup {<<p[1], p[2]>>}
  <2>1. CASE Len(p) >= 3
    BY <2>1, ShortestSuffix
  <2>2. CASE ~ Len(p) >= 3
    <3>1. Len(p) - 1 = 1
      BY <1>1, <2>2
    <3>2. \A i \in 1 .. 1 : i = 1 /\ i+1 = 2
      OBVIOUS
    <3> QED BY <1>1, <3>1, <3>2
  <2> QED BY <2>1, <2>2
<1>3. ASSUME NEW v PROVE <<v, p[1]>> \notin PathEdges(p)
  <2>1. Len(p) <= Len(p)
    BY <1>1
  <2> QED BY <1>1, <2>1, NoWayBack
<1> SUFFICES ASSUME NEW S \in (SUBSET Switch) \ {{}},
                    \A v \in S : \E w \in S : <<v, w>> \in E \cup PathEdges(p)
             PROVE  FALSE
  BY DEF HasCycle
<1> DEFINE T == S \ {p[1]}
<1>4. ASSUME NEW v \in S PROVE \E w \in T : <<v, w>> \in E \cup PathEdges(p)
  <2>1. PICK w \in S : <<v, w>> \in E \cup PathEdges(p)
    OBVIOUS
  <2>2. w # p[1]
    BY <1>3, <2>1
  <2> QED BY <2>1, <2>2
<1>5. T # {}
  BY <1>4
<1>6. ASSUME NEW v \in T PROVE \E w \in T : <<v, w>> \in E
  <2>1. PICK w \in T : <<v, w>> \in E \cup PathEdges(p)
    BY <1>4
  <2>2. <<v, w>> # <<p[1], p[2]>>
    OBVIOUS
  <2> QED BY <1>2, <2>1, <2>2
<1>7. T \in (SUBSET Switch) \ {{}}
  BY <1>5
<1> HIDE DEF T
<1>8. HasCycle(E)
  BY <1>6, <1>7 DEF HasCycle
<1> QED BY <1>8

----------------------------------------------------------------------------
(* Every shortest path is kept, its routes found, written and installed.   *)

(* Kept paths are not longer than those still to be considered. *)
KeptFirst == \A i \in DOMAIN kept : \A q \in todo : Len(kept[i]) <= Len(q)

(* The routes found so far for the i-th destination, with the paths kept   *)
(* for it whose routes are still to be added.                              *)
Covered(i) == RouteEdges(Dests[i]) \cup IF i = next THEN Edges(kept) ELSE {}

(* They contain the shortest paths that have been considered. *)
CoveredInv ==
  \A i \in 1 .. next : \A p :
    ShortestPath(p, Dests[i]) /\ ~ (i = next /\ p \in todo) => PathEdges(p) \subseteq Covered(i)

(* Once the file is written, every route is in it or installed. *)
FoundInv ==
  written =>
    /\ next = Len(Dests) /\ todo = {} /\ kept = <<>>
    /\ \A v \in Switch : \A rt \in Range(routemap[v]) :
         \/ rt.interface \in Range(alternates[v][rt.dstnode])
         \/ \E r \in Range(file[v]) : r.dst = rt.dstnode /\ r.interface = rt.interface

ShortestInv ==
  /\ IInv
  /\ KeptFirst
  /\ CoveredInv
  /\ FoundInv

LEMMA SameShortest ==
  ASSUME ends' = ends
  PROVE  \A p, d : ShortestPath(p, d)' <=> ShortestPath(p, d)
BY DEF ShortestPath, Paths, Hops, Walks, Linked

(* What is left when the first path is taken. *)
LEMMA EdgesTail ==
  ASSUME NEW s \in Seq(Seq(Switch)), s # <<>>
  PROVE  Edges(s) \subseteq Edges(Tail(s)) \cup PathEdges(Head(s))
<1>1. ASSUME NEW i \in DOMAIN s
      PROVE  PathEdges(s[i]) \subseteq Edges(Tail(s)) \cup PathEdges(Head(s))
  <2>1. CASE i = 1
    <3>1. s[i] = Head(s)
      BY <2>1
    <3> QED BY <3>1
  <2>2. CASE i # 1
    <3>1. i-1 \in DOMAIN Tail(s) /\ Tail(s)[i-1] = s[i]
      BY <2>2
    <3> QED BY <3>1 DEF Edges
  <2> QED BY <2>1, <2>2
<1> QED BY <1>1 DEF Edges

LEMMA EdgesNone == Edges(<<>>) = {}
BY DEF Edges

(* The routes of a path are among those of its switches afterwards. *)
LEMMA WithRoutesHas ==
  ASSUME GoodEnds(ends), NEW d \in Switch, NEW p, GoodPath(p, d),
         NEW map \in [Switch -> Seq(RouteType)], NEW j \in 1 .. Len(p)-1
  PROVE  Route(p, j) \in Range(WithRoutes(map, p)[p[j]])
<1> DEFINE v == p[j]
           k == CHOOSE k \in 1 .. Len(p)-1 : p[k] = v
<1>1. k \in 1 .. Len(p)-1 /\ p[k] = v
  OBVIOUS
<1>2. Len(p) \in Nat /\ DOMAIN p = 1 .. Len(p) /\ \A i \in 1 .. Len(p) : p[i] \in Switch
  BY DEF GoodPath
<1>3. v \in Switch
  BY <1>2
<1>4. WithRoutes(map, p)[v] = Added(map[v], Route(p, k))
  BY <1>1, <1>3 DEF WithRoutes
<1> HIDE DEF k
<1>5. k = j
  <2>1. \A a, b \in 1 .. Len(p) : p[a] = p[b] => a = b
    BY <1>2 DEF GoodPath, IsInjective
  <2>2. k \in 1 .. Len(p) /\ j \in 1 .. Len(p)
    BY <1>1, <1>2
  <2> QED BY <1>1, <2>1, <2>2
<1> HIDE DEF v
<1>6. Route(p, j) \in RouteType
  BY RouteGood
<1>7. Range(Added(map[v], Route(p, j))) = Range(map[v]) \cup {Route(p, j)}
  BY <1>3, <1>6, AddedRange
<1> QED BY <1>4, <1>5, <1>7 DEF v

LEMMA InitShortest == Init => ShortestInv
<1> SUFFICES ASSUME Init PROVE ShortestInv
  OBVIOUS
<1>1. KeptFirst
  BY DEF Init, KeptFirst
<1>2. CoveredInv
  BY DEF Init, CoveredInv
<1>3. FoundInv
  BY DEF Init, FoundInv
<1> QED BY <1>1, <1>2, <1>3, InitInv DEF ShortestInv

LEMMA SearchNextShortest == ShortestInv /\ SearchNext => ShortestInv'
<1> SUFFICES ASSUME ShortestInv, SearchNext PROVE KeptFirst' /\ CoveredInv' /\ FoundInv'
  BY SearchNextInv DEF ShortestInv
<1> USE DEF SearchNext, install
<1>0. next \in Nat /\ next < Len(Dests)
  BY ControlAssumption DEF ShortestInv, IInv, TypeOK
<1>1. KeptFirst'
  BY DEF KeptFirst
<1>2. FoundInv'
  BY <1>0 DEF ShortestInv, FoundInv
<1>3. CoveredInv'
  <2> SUFFICES ASSUME NEW i \in 1 .. next', NEW p, ShortestPath(p, Dests[i]),
                      ~ (i = next' /\ p \in todo')
               PROVE  PathEdges(p) \subseteq Covered(i)'
    BY SameShortest DEF CoveredInv, PathEdges
  <2>1. i # next'
    BY DEF ShortestPath
  <2>2. i \in 1 .. next /\ todo = {}
    BY <1>0, <2>1
  <2>3. PathEdges(p) \subseteq Covered(i)
    BY <2>2 DEF ShortestInv, CoveredInv
  <2>4. Covered(i) \subseteq RouteEdges(Dests[i])
    BY EdgesNone DEF Covered
  <2>5. RouteEdges(Dests[i])' = RouteEdges(Dests[i])
    BY SameRoutes
  <2> QED BY <2>3, <2>4, <2>5 DEF Covered
<1> QED BY <1>1, <1>2, <1>3

LEMMA ConsiderShortest == ShortestInv /\ Consider => ShortestInv'
<1> SUFFICES ASSUME ShortestInv, Consider PROVE KeptFirst' /\ CoveredInv' /\ FoundInv'
  BY ConsiderInv DEF ShortestInv
<1> USE DEF Consider, install
<1>1. PICK p \in Shortest(todo) :
        /\ todo' = todo \ {p}
        /\ kept' = IF CheckPaths(kept, p) THEN Append(kept, p) ELSE kept
  OBVIOUS
<1> DEFINE d == Dests[next]
<1>2. p \in todo /\ \A q \in todo : Len(p) <= Len(q)
  BY DEF Shortest
<1>3. next \in Nat /\ next > 0 /\ next \in DOMAIN Dests /\ next \in 1 .. next
  BY <1>2, ControlAssumption DEF ShortestInv, IInv, TypeOK, PathsInv
<1>4. GoodPath(p, d) /\ p \in Seq(Switch) /\ kept \in Seq(Seq(Switch))
  BY <1>2 DEF ShortestInv, IInv, TypeOK, PathsInv, GoodPath
<1>5. KeptFirst'
  <2>1. \A i \in DOMAIN kept' : kept'[i] = p \/ (i \in DOMAIN kept /\ kept'[i] = kept[i])
    BY <1>1, <1>4
  <2>2. \A i \in DOMAIN kept : \A q \in todo : Len(kept[i]) <= Len(q)
    BY DEF ShortestInv, KeptFirst
  <2> QED BY <1>1, <1>2, <2>1, <2>2 DEF KeptFirst
<1>6. FoundInv'
  BY <1>2 DEF ShortestInv, FoundInv
<1>7. RouteEdges(d) = {} /\ \A c : RouteEdges(c)' = RouteEdges(c)
  BY <1>2, SameRoutes DEF ShortestInv, IInv, RoutesInv
<1>8. Edges(kept') = IF CheckPaths(kept, p) THEN Edges(kept) \cup PathEdges(p) ELSE Edges(kept)
  BY <1>1, <1>4, EdgesAppend
<1>9. ASSUME ShortestPath(p, d) PROVE CheckPaths(kept, p)
  <2>1. ~ HasCycle(Edges(kept))
    <3>1. d \in Switch /\ KeptEdges(d) = Edges(kept)
      BY <1>3, ControlAssumption DEF KeptEdges, Searching
    <3>2. ~ HasCycle(RouteEdges(d) \cup KeptEdges(d))
      BY <3>1 DEF ShortestInv, IInv, RoutesInv
    <3> QED BY <1>7, <3>1, <3>2
  <2>2. ASSUME NEW v PROVE <<v, p[1]>> \notin Edges(kept)
    <3>1. ASSUME NEW i \in DOMAIN kept PROVE <<v, p[1]>> \notin PathEdges(kept[i])
      <4>1. GoodPath(kept[i], d) /\ Len(kept[i]) <= Len(p)
        BY <1>2 DEF ShortestInv, IInv, PathsInv, KeptFirst
      <4> QED BY <1>9, <4>1, NoWayBack
    <3> QED BY <3>1 DEF Edges
  <2>3. ASSUME NEW q, ShortestPath(q, d), Len(q) = Len(p)-1 PROVE PathEdges(q) \subseteq Edges(kept)
    <3>1. q \notin todo
      <4>1. Len(p) \in Nat
        BY <1>4
      <4> QED BY <1>2, <2>3, <4>1
    <3>2. PathEdges(q) \subseteq Covered(next)
      BY <1>3, <2>3, <3>1 DEF ShortestInv, CoveredInv
    <3> QED BY <1>7, <3>2 DEF Covered
  <2> HIDE DEF d
  <2> QED BY <1>9, <2>1, <2>2, <2>3, ShortestCloses DEF CheckPaths
<1>10. CoveredInv'
  <2> SUFFICES ASSUME NEW i \in 1 .. next, NEW q, ShortestPath(q, Dests[i]),
                      ~ (i = next /\ q \in todo')
               PROVE  PathEdges(q) \subseteq Covered(i)'
    BY SameShortest DEF CoveredInv, PathEdges
  <2>1. Covered(i)' = RouteEdges(Dests[i]) \cup IF i = next THEN Edges(kept') ELSE {}
    BY <1>7 DEF Covered, Edges, PathEdges
  <2>2. CASE i = next /\ q = p
    BY <1>8, <1>9, <2>1, <2>2
  <2>3. CASE ~ (i = next /\ q = p)
    <3>1. ~ (i = next /\ q \in todo)
      BY <1>1, <2>3
    <3>2. PathEdges(q) \subseteq Covered(i)
      BY <3>1 DEF ShortestInv, CoveredInv
    <3> QED BY <1>8, <2>1, <3>2 DEF Covered
  <2> QED BY <2>2, <2>3
<1> QED BY <1>5, <1>6, <1>10

LEMMA AddRoutesShortest == ShortestInv /\ AddRoutes => ShortestInv'
<1> SUFFICES ASSUME ShortestInv, AddRoutes PROVE KeptFirst' /\ CoveredInv' /\ FoundInv'
  BY AddRoutesInv DEF ShortestInv
<1> USE DEF AddRoutes, install
<1> DEFINE p == Head(kept)
<1>0. /\ next \in Nat /\ next > 0 /\ next \in DOMAIN Dests
      /\ kept \in Seq(Seq(Switch)) /\ kept # <<>> /\ GoodEnds(ends)
      /\ routemap \in [Switch -> Seq(RouteType)]
  <2>1. next \in 0 .. Len(Dests) /\ next # 0
    BY DEF ShortestInv, IInv, TypeOK, PathsInv
  <2>2. Len(Dests) \in Nat /\ DOMAIN Dests = 1 .. Len(Dests)
    BY ControlAssumption
  <2>3. next \in Nat /\ next > 0 /\ next \in DOMAIN Dests
    BY <2>1, <2>2
  <2> QED BY <2>3 DEF ShortestInv, IInv, TypeOK
<1>1. PICK d \in Switch : d = Dests[next]
  BY <1>0, ControlAssumption
<1>2. GoodPath(p, d)
  <2>1. 1 \in DOMAIN kept /\ kept[1] = p
    BY <1>0
  <2> QED BY <1>1, <2>1 DEF ShortestInv, IInv, PathsInv
<1>3. KeptFirst'
  BY DEF KeptFirst
<1>4. FoundInv'
  BY DEF ShortestInv, FoundInv
<1>5. /\ routemap' = WithRoutes(routemap, p)
      /\ kept' = Tail(kept) /\ ends' = ends /\ next' = next /\ todo' = {} /\ todo = {}
  OBVIOUS
<1> HIDE DEF p, AddRoutes
<1>6. \A v \in Switch : Range(routemap[v]) \subseteq Range(routemap'[v])
  BY <1>0, <1>2, <1>5, WithRoutesGood
<1>7. ASSUME NEW c PROVE RouteEdges(c) \subseteq RouteEdges(c)'
  <2> SUFFICES ASSUME NEW x \in Switch \X Switch, NEW rt \in Range(routemap[x[1]]),
                      rt.dstnode = c, GetNbr(x[1], rt.interface) = x[2]
               PROVE  x \in RouteEdges(c)'
    BY DEF RouteEdges
  <2>1. rt \in Range(routemap'[x[1]])
    BY <1>6
  <2> QED BY <1>5, <2>1 DEF RouteEdges, GetNbr
<1>8. PathEdges(p) \subseteq RouteEdges(d)'
  <2> SUFFICES ASSUME NEW j \in 1 .. Len(p)-1 PROVE <<p[j], p[j+1]>> \in RouteEdges(d)'
    BY DEF PathEdges
  <2>1. p[j] \in Switch /\ p[j+1] \in Switch /\ Linked(p[j], p[j+1]) /\ p[Len(p)] = d
    BY <1>2 DEF GoodPath
  <2>2. Route(p, j) \in Range(routemap'[p[j]])
    BY <1>0, <1>2, <1>5, WithRoutesHas
  <2>3. Route(p, j).dstnode = d /\ Route(p, j).interface = IfcTo(p[j], p[j+1])
    BY <2>1 DEF Route
  <2>4. GetNbr(p[j], Route(p, j).interface) = p[j+1]
    BY <1>0, <2>1, <2>3, IfcToLeads
  <2> QED BY <1>5, <2>1, <2>2, <2>3, <2>4 DEF RouteEdges, GetNbr
<1>9. Edges(kept) \subseteq Edges(kept') \cup PathEdges(p)
  BY <1>0, <1>5, EdgesTail DEF p
<1>10. CoveredInv'
  <2> SUFFICES ASSUME NEW i \in 1 .. next, NEW q, ShortestPath(q, Dests[i])
               PROVE  PathEdges(q) \subseteq Covered(i)'
    BY <1>5, SameShortest DEF CoveredInv, PathEdges
  <2>1. PathEdges(q) \subseteq Covered(i)
    BY <1>5 DEF ShortestInv, CoveredInv
  <2>2. Covered(i)' = RouteEdges(Dests[i])' \cup IF i = next THEN Edges(kept') ELSE {}
    BY <1>5 DEF Covered, Edges, PathEdges
  <2>3. CASE i = next
    BY <1>1, <1>7, <1>8, <1>9, <2>1, <2>2, <2>3 DEF Covered
  <2>4. CASE i # next
    BY <1>7, <2>1, <2>2, <2>4 DEF Covered
  <2> QED BY <2>3, <2>4
<1> QED BY <1>3, <1>4, <1>10

(* Steps that leave the search alone keep what it has covered. *)
LEMMA SearchCovered ==
  ASSUME ShortestInv, UNCHANGED <<ends, search>>
  PROVE  KeptFirst' /\ CoveredInv'
<1> USE DEF search
<1>1. KeptFirst'
  BY DEF ShortestInv, KeptFirst
<1>2. CoveredInv'
  <2>1. \A i : Covered(i)' = Covered(i)
    BY SameRoutes DEF Covered, Edges, PathEdges
  <2>2. \A p : PathEdges(p)' = PathEdges(p)
    BY DEF PathEdges
  <2> QED BY <2>1, <2>2, SameShortest DEF ShortestInv, CoveredInv
<1> QED BY <1>1, <1>2

LEMMA WriteRoutesShortest == ShortestInv /\ WriteRoutes => ShortestInv'
<1> SUFFICES ASSUME ShortestInv, WriteRoutes PROVE FoundInv'
  BY WriteRoutesInv, SearchCovered DEF ShortestInv, WriteRoutes
<1>1. UNCHANGED <<ends, search>> /\ next = Len(Dests) /\ todo = {} /\ kept = <<>>
  BY DEF WriteRoutes
<1>2. ASSUME NEW v \in Switch, NEW rt \in Range(routemap[v])
      PROVE  \E r \in Range(file'[v]) : r.dst = rt.dstnode /\ r.interface = rt.interface
  <2>1. file'[v] = Records(v)
    BY DEF WriteRoutes
  <2>2. PICK j \in DOMAIN routemap[v] : rt = routemap[v][j]
    BY DEF Range
  <2>3. /\ DOMAIN Records(v) = DOMAIN routemap[v]
        /\ Records(v)[j].dst = rt.dstnode /\ Records(v)[j].interface = rt.interface
    BY <2>2 DEF Records
  <2> QED BY <2>1, <2>2, <2>3 DEF Range
<1> QED BY <1>1, <1>2 DEF FoundInv, search

LEMMA InstallShortest == ShortestInv /\ Install => ShortestInv'
<1> SUFFICES ASSUME ShortestInv, Install PROVE FoundInv'
  BY InstallInv, SearchCovered DEF ShortestInv, Install
<1>1. PICK u \in Switch :
        LET r == Head(file[u]) IN
        /\ file[u] # <<>>
        /\ alternates' = [alternates EXCEPT ![r.nodeid][r.dst] = Added(@, r.interface)]
        /\ file' = [file EXCEPT ![u] = Tail(@)]
  BY DEF Install
<1> DEFINE r == Head(file[u])
<1>2. UNCHANGED <<ends, search, written>>
  BY DEF Install
<1>3. /\ file[u] \in Seq(Record) /\ file \in [Switch -> Seq(Record)]
      /\ alternates \in [Switch -> [Switch -> Seq(Ifc)]]
  BY DEF ShortestInv, IInv, TypeOK
<1>4. /\ r \in Record /\ r \in Range(file[u])
      /\ Range(file[u]) \subseteq Range(Tail(file[u])) \cup {r}
  <2>1. r \in Record /\ r \in Range(file[u])
    BY <1>1, <1>3, TailRange
  <2>2. ASSUME NEW i \in DOMAIN file[u] PROVE file[u][i] \in Range(Tail(file[u])) \cup {r}
    <3>1. CASE i = 1
      BY <1>3, <3>1
    <3>2. CASE i # 1
      <4>1. i-1 \in DOMAIN Tail(file[u]) /\ Tail(file[u])[i-1] = file[u][i]
        BY <1>1, <1>3, <3>2
      <4> QED BY <4>1 DEF Range
    <3> QED BY <3>1, <3>2
  <2> QED BY <2>1, <2>2 DEF Range
<1>5. r.nodeid = u /\ r.dst \in Switch /\ r.interface \in Ifc
  BY <1>4 DEF ShortestInv, IInv, FileInv, Record
<1>6. /\ file' = [file EXCEPT ![u] = Tail(@)]
      /\ alternates' = [alternates EXCEPT ![u][r.dst] = Added(@, r.interface)]
  BY <1>1, <1>5
<1> HIDE DEF r
<1>7. Range(Added(alternates[u][r.dst], r.interface))
        = Range(alternates[u][r.dst]) \cup {r.interface}
  <2>1. alternates[u][r.dst] \in Seq(Ifc)
    BY <1>3, <1>5
  <2> QED BY <1>5, <2>1, AddedRange
<1>8. ASSUME NEW v \in Switch, NEW c \in Switch
      PROVE  Range(alternates'[v][c]) = Range(alternates[v][c])
               \cup IF v = u /\ c = r.dst THEN {r.interface} ELSE {}
  <2>1. alternates'[v][c] = IF v = u /\ c = r.dst THEN Added(alternates[u][r.dst], r.interface)
                            ELSE alternates[v][c]
    BY <1>3, <1>5, <1>6
  <2> QED BY <1>7, <2>1
<1>9. \A v \in Switch : file'[v] = IF v = u THEN Tail(file[u]) ELSE file[v]
  BY <1>3, <1>6
<1>10. ASSUME written, NEW v \in Switch, NEW rt \in Range(routemap[v])
       PROVE  \/ rt.interface \in Range(alternates'[v][rt.dstnode])
              \/ \E q \in Range(file'[v]) : q.dst = rt.dstnode /\ q.interface = rt.interface
  <2>0. rt.dstnode \in Switch
    <3>1. routemap[v] \in Seq(RouteType)
      BY DEF ShortestInv, IInv, TypeOK
    <3>2. \A i \in DOMAIN routemap[v] : routemap[v][i] \in RouteType
      BY <3>1
    <3>3. rt \in RouteType
      BY <3>2 DEF Range
    <3> QED BY <3>3 DEF RouteType
  <2>1. CASE rt.interface \in Range(alternates[v][rt.dstnode])
    BY <1>8, <2>0, <2>1
  <2>2. CASE \E q \in Range(file[v]) : q.dst = rt.dstnode /\ q.interface = rt.interface
    <3>1. PICK q \in Range(file[v]) : q.dst = rt.dstnode /\ q.interface = rt.interface
      BY <2>2
    <3>2. CASE v = u /\ q = r
      BY <1>8, <2>0, <3>1, <3>2
    <3>3. CASE ~ (v = u /\ q = r)
      <4>1. q \in Range(file'[v])
        BY <1>4, <1>9, <3>3
      <4> QED BY <3>1, <4>1
    <3> QED BY <3>2, <3>3
  <2> QED BY <1>10, <2>1, <2>2 DEF ShortestInv, FoundInv
<1> QED BY <1>2, <1>10 DEF ShortestInv, FoundInv, search

LEMMA ShortestStep == ShortestInv /\ [Next]_vars => ShortestInv'
<1>1. ShortestInv /\ UNCHANGED vars => ShortestInv'
  <2> SUFFICES ASSUME ShortestInv, UNCHANGED vars PROVE ShortestInv'
    OBVIOUS
  <2>1. UNCHANGED <<ends, search>> /\ UNCHANGED <<file, alternates, previous, written>>
    BY DEF vars, install
  <2>2. KeptFirst' /\ CoveredInv'
    BY <2>1, SearchCovered
  <2>3. FoundInv'
    BY <2>1 DEF ShortestInv, FoundInv, search
  <2>4. IInv'
    BY StepInv DEF ShortestInv
  <2> QED BY <2>2, <2>3, <2>4 DEF ShortestInv
<1> QED BY <1>1, SearchNextShortest, ConsiderShortest, AddRoutesShortest,
           WriteRoutesShortest, InstallShortest DEF Next

(* On every topology and for every depth of the search, the greedy pruning *)
(* of checkpaths loses no shortest path: taken shortest first, such a path *)
(* starts at a switch that no kept path leads into, and the rest of it is  *)
(* kept already.                                                           *)
THEOREM ShortestRoutesInstalledHolds == Spec => []ShortestRoutesInstalled
<1>1. ShortestInv => ShortestRoutesInstalled
  <2> SUFFICES ASSUME ShortestInv, Installed,
                      NEW i \in DOMAIN Dests, NEW v \in Switch, NEW w \in Switch,
                      NEW n \in 1 .. SwCount-1, Linked(v, w), 2 * n - 1 <= MaxLen,
                      Hops(v, Dests[i], n), Hops(w, Dests[i], n-1)
               PROVE  w \in NextHops(v, Dests[i])
    BY DEF ShortestRoutesInstalled
  <2> DEFINE d == Dests[i]
  <2>1. written /\ \A u \in Switch : file[u] = <<>>
    BY DEF Installed
  <2>2. next = Len(Dests) /\ todo = {} /\ kept = <<>>
    BY <2>1 DEF ShortestInv, FoundInv
  <2>3. PICK p : ShortestPath(p, d) /\ <<v, w>> \in PathEdges(p)
    BY ShortestBegins
  <2>4. <<v, w>> \in RouteEdges(d)
    <3>1. i \in 1 .. next
      BY <2>2, ControlAssumption
    <3>2. PathEdges(p) \subseteq Covered(i)
      BY <2>2, <2>3, <3>1 DEF ShortestInv, CoveredInv
    <3> QED BY <2>2, <2>3, <3>2, EdgesNone DEF Covered
  <2>5. PICK rt \in Range(routemap[v]) : rt.dstnode = d /\ GetNbr(v, rt.interface) = w
    BY <2>4 DEF RouteEdges
  <2>6. rt.interface \in Range(alternates[v][d])
    <3>1. Range(file[v]) = {}
      BY <2>1 DEF Range
    <3> QED BY <2>1, <2>5, <3>1 DEF ShortestInv, FoundInv
  <2> QED BY <2>5, <2>6 DEF NextHops
<1>2. Spec => []ShortestInv
  BY InitShortest, ShortestStep, PTL DEF Spec
<1> QED BY <1>1, <1>2, PTL

----------------------------------------------------------------------------
(* Edges that form no cycle can be ranked.  The rank of a switch is the    *)
(* number of switches below it, itself included.                           *)
Closed(S, E) == \A x \in S, y \in Switch : <<x, y>> \in E => y \in S

Below(v, E) == { x \in Switch : \A S \in SUBSET Switch : v \in S /\ Closed(S, E) => x \in S }

LEMMA BelowClosed ==
  ASSUME NEW E, NEW v \in Switch
  PROVE  /\ v \in Below(v, E) /\ Below(v, E) \in SUBSET Switch
         /\ Closed(Below(v, E), E)
         /\ \A w \in Below(v, E) : Below(w, E) \subseteq Below(v, E)
<1>1. v \in Below(v, E) /\ Below(v, E) \in SUBSET Switch
  BY DEF Below
<1>2. Closed(Below(v, E), E)
  BY DEF Below, Closed
<1>3. ASSUME NEW w \in Below(v, E), NEW x \in Below(w, E) PROVE x \in Below(v, E)
  BY <1>1, <1>2 DEF Below
<1> QED BY <1>1, <1>2, <1>3

(* The end of an edge is not above its start: otherwise the switches below *)
(* the end from which the start can be reached are a cycle.                *)
LEMMA NotBelow ==
  ASSUME NEW E, ~ HasCycle(E), NEW v \in Switch, NEW w \in Switch, <<v, w>> \in E
  PROVE  v \notin Below(w, E)
<1> SUFFICES ASSUME v \in Below(w, E) PROVE FALSE
  OBVIOUS
<1> DEFINE S == { x \in Below(w, E) : v \in Below(x, E) }
<1>1. S \in (SUBSET Switch) \ {{}} /\ w \in S
  BY BelowClosed
<1>2. ASSUME NEW x \in S PROVE \E y \in S : <<x, y>> \in E
  <2>1. x \in Switch /\ x \in Below(w, E) /\ v \in Below(x, E)
    BY <1>1
  <2>2. CASE x = v
    BY <1>1, <2>2
  <2>3. CASE x # v
    <3> SUFFICES ASSUME \A y \in S : <<x, y>> \notin E PROVE FALSE
      OBVIOUS
    <3> DEFINE T == { z \in Below(x, E) : v \notin Below(z, E) } \cup {x}
    <3>1. ASSUME NEW y \in Switch, <<x, y>> \in E PROVE y \in T
      <4>1. y \in Below(w, E) /\ y \in Below(x, E)
        BY <2>1, <3>1, BelowClosed DEF Closed
      <4> QED BY <3>1, <4>1
    <3>2. ASSUME NEW z \in Below(x, E), v \notin Below(z, E), NEW y \in Switch, <<z, y>> \in E
          PROVE  y \in T
      <4>1. z \in Switch /\ y \in Below(x, E) /\ y \in Below(z, E)
        BY <2>1, <3>2, BelowClosed DEF Closed
      <4>2. Below(y, E) \subseteq Below(z, E)
        BY <4>1, BelowClosed
      <4> QED BY <3>2, <4>1, <4>2
    <3>3. T \in SUBSET Switch /\ x \in T /\ Closed(T, E)
      BY <2>1, <3>1, <3>2, BelowClosed DEF Closed
    <3> HIDE DEF T
    <3>4. v \in T
      BY <2>1, <3>3 DEF Below
    <3> QED BY <2>3, <3>4, BelowClosed DEF T
  <2> QED BY <2>2, <2>3
<1> HIDE DEF S
<1> QED BY <1>1, <1>2 DEF HasCycle

LEMMA RankExists ==
  ASSUME NEW E, E \subseteq Switch \X Switch, ~ HasCycle(E)
  PROVE  \E rank \in [Switch -> Nat] : \A e \in E : rank[e[2]] < rank[e[1]]
<1> DEFINE rank == [v \in Switch |-> Cardinality(Below(v, E))]
<1>1. IsFiniteSet(Switch)
  BY ControlAssumption, FS_Interval DEF Switch
<1>2. ASSUME NEW v \in Switch
      PROVE  IsFiniteSet(Below(v, E)) /\ Cardinality(Below(v, E)) \in Nat
  BY <1>1, BelowClosed, FS_Subset, FS_CardinalityType
<1>3. rank \in [Switch -> Nat]
  BY <1>2
<1>4. ASSUME NEW v \in Switch, NEW w \in Switch, <<v, w>> \in E PROVE rank[w] < rank[v]
  <2>1. w \in Below(v, E) /\ v \in Below(v, E)
    BY <1>4, BelowClosed DEF Closed
  <2>2. Below(w, E) \subseteq Below(v, E) /\ Below(w, E) # Below(v, E)
    BY <1>4, <2>1, BelowClosed, NotBelow
  <2>3. /\ Cardinality(Below(w, E)) <= Cardinality(Below(v, E))
        /\ Cardinality(Below(w, E)) # Cardinality(Below(v, E))
    BY <1>2, <2>2, FS_Subset
  <2> QED BY <1>2, <2>3
<1> HIDE DEF rank
<1> QED BY <1>3, <1>4

(* What TimpNetwork takes from the controller (its RoutesAssumption): at   *)
(* every moment of the installation the alternates leave on links, and     *)
(* there are ranks that every one of them lowers.                          *)
RoutesAreRanked ==
  \A d \in Switch : \E rank \in [Switch -> Nat] :
    \A v \in Switch : \A p \in Range(alternates[v][d]) :
      /\ \E e \in ends : e.self = v /\ e.ifc = p /\ e.nbr = GetNbr(v, p)
      /\ rank[GetNbr(v, p)] < rank[v]

THEOREM RoutesAreRankedHolds == Spec => []RoutesAreRanked
<1>1. IInv /\ InstalledAcyclic => RoutesAreRanked
  <2> SUFFICES ASSUME IInv, InstalledAcyclic, NEW d \in Switch
               PROVE  \E rank \in [Switch -> Nat] :
                        \A v \in Switch : \A p \in Range(alternates[v][d]) :
                          /\ \E e \in ends : e.self = v /\ e.ifc = p /\ e.nbr = GetNbr(v, p)
                          /\ rank[GetNbr(v, p)] < rank[v]
    BY DEF RoutesAreRanked
  <2> DEFINE E == { x \in Switch \X Switch : x[2] \in NextHops(x[1], d) }
  <2>1. ~ HasCycle(E) /\ E \subseteq Switch \X Switch
    BY DEF InstalledAcyclic
  <2>2. ASSUME NEW v \in Switch, NEW p \in Range(alternates[v][d])
        PROVE  /\ \E e \in ends : e.self = v /\ e.ifc = p /\ e.nbr = GetNbr(v, p)
               /\ <<v, GetNbr(v, p)>> \in E
    <3>1. \E e \in ends : e.self = v /\ e.ifc = p
      BY DEF IInv, RowsInv, RoutesInv, HasRoute
    <3>2. \E e \in ends : e.self = v /\ e.ifc = p /\ e.nbr = GetNbr(v, p)
      BY <3>1 DEF GetNbr
    <3>3. GetNbr(v, p) \in Switch
      BY <3>2 DEF IInv, TypeOK, GoodEnds, End4
    <3> QED BY <3>2, <3>3 DEF NextHops
  <2> HIDE DEF E
  <2>3. PICK rank \in [Switch -> Nat] : \A e \in E : rank[e[2]] < rank[e[1]]
    BY <2>1, RankExists
  <2>4. ASSUME NEW v \in Switch, NEW p \in Range(alternates[v][d])
        PROVE  rank[GetNbr(v, p)] < rank[v]
    <3> DEFINE e == <<v, GetNbr(v, p)>>
    <3>1. e \in E /\ e[1] = v /\ e[2] = GetNbr(v, p)
      BY <2>2
    <3> HIDE DEF e
    <3> QED BY <2>3, <3>1
  <2> WITNESS rank \in [Switch -> Nat]
  <2> QED BY <2>2, <2>4
<1> QED BY <1>1, Invariance, InstalledAcyclicHolds, PTL
=============================================================================
