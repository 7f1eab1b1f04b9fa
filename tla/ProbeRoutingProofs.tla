--------------------------- MODULE ProbeRoutingProofs ---------------------------
(***************************************************************************)
(* Theorems about ProbeRouting, for every topology, metric and number of   *)
(* rounds and losses.                                                      *)
(***************************************************************************)
EXTENDS ProbeRouting, SequenceTheorems, WellFoundedInduction, TLAPS

Queues == [Ifc -> Seq(Probe)]
Tables == [Ifc -> Nat \cup {NoEntry}]

(* All probes in the queues l are of rounds their senders know of. *)
Bounded(l, r) == \A i \in Ifc : \A n \in 1..Len(l[i]) : l[i][n].version <= r[i[1]]

Rounds == [u \in Switch |-> Round(u)]

(* What the version variables say about one another: the version of the    *)
(* last probe, dropped or not, and those taken on the interfaces are never *)
(* newer than the newest round of the switch; what a switch has taken on   *)
(* an interface, the neighbour there has known; the origin routes nothing. *)
Versions ==
  /\ \A u \in Switch : lastProbeVer[u] <= lastProbeId[u]
  /\ \A i \in Ifc : lastProbeVersion[i] <= lastProbeId[i[1]]
  /\ \A i \in Ifc : lastProbeVersion[i] <= Round(Wire[i][1])
  /\ Bounded(link, Rounds)
  /\ \A i \in Ifc : i[1] = Origin => fwd[i] = NoEntry

IInv == TypeOK /\ Versions /\ EntriesAreCurrent

----------------------------------------------------------------------------
(* Interfaces belong to switches, and cables join two of them. *)
LEMMA Topology ==
  /\ Origin \in Switch
  /\ \A i \in Ifc : i[1] \in Switch /\ Wire[i] \in Ifc /\ Wire[i][1] \in Switch
                    /\ Wire[Wire[i]] = i
BY ProbeAssumption DEF Switch, Ifc

(* Sending keeps the queues well-typed. *)
LEMMA SendType ==
  ASSUME NEW l \in Queues, NEW to, NEW p \in Probe
  PROVE  Send(l, to, p) \in Queues
<1>1. \A i \in Ifc : Append(l[i], p) \in Seq(Probe)
  BY DEF Queues
<1> QED BY <1>1 DEF Queues, Send

(* A switch that sends a version it knows of keeps the queues bounded. *)
LEMMA SendBounded ==
  ASSUME NEW l \in Queues, NEW p \in Probe, NEW u \in Switch, NEW to \in SUBSET Ports(u),
         NEW r \in [Switch -> Nat], Bounded(l, r), p.version <= r[u]
  PROVE  Bounded(Send(l, to, p), r)
<1> SUFFICES ASSUME NEW i \in Ifc, NEW n \in 1..Len(Send(l, to, p)[i])
             PROVE  Send(l, to, p)[i][n].version <= r[i[1]]
  BY DEF Bounded
<1>0. l[i] \in Seq(Probe)
  BY DEF Queues
<1>1. CASE i \in to
  <2>1. Send(l, to, p)[i] = Append(l[i], p)
    BY <1>1 DEF Send
  <2>2. i[1] = u
    BY <1>1 DEF Ports
  <2>3. CASE n = Len(l[i]) + 1
    <3>1. Append(l[i], p)[n] = p
      BY <1>0, <2>3
    <3> QED BY <2>1, <2>2, <3>1
  <2>4. CASE n # Len(l[i]) + 1
    <3>1. n \in 1..Len(l[i]) /\ Append(l[i], p)[n] = l[i][n]
      BY <1>0, <2>1, <2>4
    <3> QED BY <2>1, <3>1 DEF Bounded
  <2> QED BY <2>3, <2>4
<1>2. CASE i \notin to
  <2>1. Send(l, to, p)[i] = l[i]
    BY <1>2 DEF Send
  <2> QED BY <2>1 DEF Bounded
<1> QED BY <1>1, <1>2

(* Taking the first probe out of a queue. *)
LEMMA TakeFirst ==
  ASSUME NEW l \in Queues, NEW i \in Ifc, l[i] # <<>>, NEW r, Bounded(l, r)
  PROVE  /\ Head(l[i]) \in Probe
         /\ Head(l[i]).version <= r[i[1]]
         /\ [l EXCEPT ![i] = Tail(@)] \in Queues
         /\ Bounded([l EXCEPT ![i] = Tail(@)], r)
<1> DEFINE m == [l EXCEPT ![i] = Tail(@)]
<1>1. l[i] \in Seq(Probe) /\ Len(l[i]) \in Nat \ {0}
  BY DEF Queues
<1>2. Head(l[i]) = l[i][1] /\ 1 \in 1..Len(l[i]) /\ Head(l[i]) \in Probe
  BY <1>1
<1>3. Tail(l[i]) \in Seq(Probe)
  BY <1>1
<1>4. m \in Queues
  BY <1>3 DEF Queues
<1>5. ASSUME NEW j \in Ifc, NEW n \in 1..Len(m[j])
      PROVE  m[j][n].version <= r[j[1]]
  <2>1. CASE j = i
    <3>1. m[j] = Tail(l[i])
      BY <2>1 DEF Queues
    <3> HIDE DEF m
    <3>2. Len(m[j]) = Len(l[i]) - 1 /\ n \in 1..(Len(l[i]) - 1)
      BY <3>1, <1>1, HeadTailProperties
    <3>3. n + 1 \in 1..Len(l[i]) /\ m[j][n] = l[i][n + 1]
      BY <3>1, <3>2, <1>1, HeadTailProperties
    <3> QED BY <2>1, <3>3 DEF Bounded
  <2>2. CASE j # i
    <3>1. m[j] = l[j]
      BY <2>2 DEF Queues
    <3> QED BY <3>1 DEF Bounded
  <2> QED BY <2>1, <2>2
<1> HIDE DEF m
<1>6. Bounded(m, r)
  BY <1>5 DEF Bounded
<1>7. Head(l[i]).version <= r[i[1]]
  BY <1>2 DEF Bounded
<1> QED BY <1>2, <1>4, <1>6, <1>7 DEF m

(* A probe only changes entries of the switch it arrives at, adds at most  *)
(* the interface it came by, and if it is the first of its round leaves    *)
(* no other.                                                               *)
LEMMA TableStep ==
  ASSUME fwd \in Tables, NEW in \in Ifc, NEW mv \in Nat, NEW first \in BOOLEAN
  PROVE  /\ TableAfter(in, mv, first) \in Tables
         /\ \A i \in Ifc : i[1] # in[1] => TableAfter(in, mv, first)[i] = fwd[i]
         /\ \A i \in Ifc \ {in} :
              TableAfter(in, mv, first)[i] # NoEntry =>
                fwd[i] # NoEntry /\ (i[1] = in[1] => ~ first)
<1>1. OnlyVia(in, mv) \in Tables
  BY DEF OnlyVia, Tables
<1>2. WithPath(in, mv) \in Tables
  BY DEF WithPath, Tables
<1>3. \A i \in Ifc \ {in} :
        /\ OnlyVia(in, mv)[i] = IF i[1] = in[1] THEN NoEntry ELSE fwd[i]
        /\ WithPath(in, mv)[i] = fwd[i]
  BY DEF OnlyVia, WithPath, Tables
<1>4. \/ TableAfter(in, mv, first) = OnlyVia(in, mv)
      \/ ~ first /\ TableAfter(in, mv, first) \in {fwd, WithPath(in, mv)}
  BY DEF TableAfter
<1> QED BY <1>1, <1>2, <1>3, <1>4

----------------------------------------------------------------------------
(* Queues stay bounded when switches learn of newer rounds. *)
LEMMA BoundedGrows ==
  ASSUME NEW l \in Queues, NEW r \in [Switch -> Nat], NEW q \in [Switch -> Nat],
         Bounded(l, r), \A u \in Switch : r[u] <= q[u]
  PROVE  Bounded(l, q)
<1> SUFFICES ASSUME NEW i \in Ifc, NEW n \in 1..Len(l[i])
             PROVE  l[i][n].version <= q[i[1]]
  BY DEF Bounded
<1>1. l[i][n] \in Probe
  BY DEF Queues
<1>2. l[i][n].version \in Nat /\ i[1] \in Switch
  <2>1. l[i][n].version \in 1..MaxVersion
    BY <1>1 DEF Probe
  <2>2. i[1] \in Switch
    BY Topology
  <2>3. \A k \in 1..MaxVersion : k \in Nat
    BY ProbeAssumption
  <2> QED BY <2>1, <2>2, <2>3
<1>3. l[i][n].version <= r[i[1]] /\ r[i[1]] <= q[i[1]] /\ r[i[1]] \in Nat /\ q[i[1]] \in Nat
  BY <1>2 DEF Bounded
<1> QED BY <1>2, <1>3

LEMMA InitInv == Init => IInv
<1> SUFFICES ASSUME Init PROVE IInv
  OBVIOUS
<1>1. TypeOK
  <2>1. 0 \in 0..MaxVersion /\ 0 \in 0..MaxLosses /\ <<>> \in Seq(Probe)
    BY ProbeAssumption
  <2>2. link \in [Ifc -> Seq(Probe)] /\ fwd \in [Ifc -> Nat \cup {NoEntry}]
    BY <2>1 DEF Init
  <2> QED BY <2>1, <2>2 DEF Init, TypeOK
<1>2. Versions
  <2>1. Bounded(link, Rounds)
    BY DEF Init, Bounded
  <2>2. \A u \in Switch : Round(u) = 0
    BY DEF Init, Round
  <2>3. \A i \in Ifc : lastProbeVersion[i] <= Round(Wire[i][1])
    BY <2>2, Topology DEF Init
  <2> QED BY <2>1, <2>3, Topology DEF Init, Versions
<1> QED BY <1>1, <1>2 DEF IInv, Init, EntriesAreCurrent

(* The rounds that the switches know of, as a typed function. *)
LEMMA RoundsType == TypeOK => Rounds \in [Switch -> Nat]
BY Topology, ProbeAssumption DEF TypeOK, Rounds, Round

(* The origin starts a round. *)
LEMMA GenerateInv == IInv /\ GenerateProbe => IInv'
<1> SUFFICES ASSUME IInv, GenerateProbe PROVE IInv'
  OBVIOUS
<1> USE DEF IInv
<1> DEFINE p  == [version |-> counter + 1, mv |-> 0]
           to == Receivers(Origin, <<>>, counter + 1, fwd)
<1>1. p \in Probe /\ to \subseteq Ports(Origin) /\ link \in Queues
  <2>1. counter \in Nat /\ counter + 1 \in 1..MaxVersion
    BY ProbeAssumption DEF TypeOK, GenerateProbe
  <2>2. to \subseteq Ports(Origin)
    BY DEF Receivers
  <2> QED BY <2>1, <2>2 DEF Probe, TypeOK, Queues
<1>2. link' = Send(link, to, p)
  BY DEF GenerateProbe
<1>3. /\ Rounds' \in [Switch -> Nat]
      /\ Rounds'[Origin] = counter + 1
      /\ \A u \in Switch : Rounds[u] <= Rounds'[u] /\ Round(u) <= Round(u)'
  BY ProbeAssumption, Topology DEF GenerateProbe, state, Rounds, Round, TypeOK
<1>4. Bounded(link, Rounds')
  BY <1>1, <1>3, RoundsType, BoundedGrows DEF Versions
<1> HIDE DEF p, to
<1>5. Bounded(link', Rounds')
  <2>1. p.version <= Rounds'[Origin]
    BY <1>3, ProbeAssumption DEF p, TypeOK
  <2> QED BY <1>1, <1>2, <1>3, <1>4, <2>1, SendBounded, Topology
<1>6. link' \in Queues
  BY <1>1, <1>2, SendType
<1>7. TypeOK'
  BY <1>6, ProbeAssumption DEF GenerateProbe, state, TypeOK, Queues
<1>8. Versions'
  <2>1. \A i \in Ifc : lastProbeVersion'[i] <= Round(Wire[i][1])'
    <3> SUFFICES ASSUME NEW i \in Ifc PROVE lastProbeVersion'[i] <= Round(Wire[i][1])'
      OBVIOUS
    <3>1. Round(Wire[i][1]) \in Nat /\ Round(Wire[i][1])' \in Nat
      BY <1>7, Topology, ProbeAssumption DEF TypeOK, Round
    <3> QED BY <3>1, <1>3, Topology DEF Versions, GenerateProbe, state, TypeOK
  <2> QED BY <2>1, <1>5 DEF Versions, GenerateProbe, state
<1>9. EntriesAreCurrent'
  BY DEF EntriesAreCurrent, GenerateProbe, state
<1> QED BY <1>7, <1>8, <1>9

(* A probe is lost. *)
LEMMA LoseInv == ASSUME NEW i \in Ifc, IInv, Lose(i) PROVE IInv'
<1> USE DEF IInv
<1>1. link \in Queues /\ Bounded(link, Rounds) /\ link[i] # <<>>
  BY DEF TypeOK, Queues, Versions, Lose
<1>2. link' \in Queues /\ Bounded(link', Rounds)
  BY <1>1, TakeFirst DEF Lose
<1>3. TypeOK'
  BY <1>2, ProbeAssumption DEF TypeOK, Queues, Lose, state
<1>4. Rounds' = Rounds /\ \A u \in Switch : Round(u)' = Round(u)
  BY DEF Lose, state, Rounds, Round
<1>5. Versions' /\ EntriesAreCurrent'
  BY <1>2, <1>4, Topology DEF Versions, EntriesAreCurrent, Lose, state
<1> QED BY <1>3, <1>5

(* A probe arrives. *)
LEMMA ReceiveInv == ASSUME NEW i \in Ifc, IInv, Receive(i) PROVE IInv'
<1> USE DEF IInv
<1> DEFINE in      == Wire[i]
           u       == in[1]
           probe   == Head(link[i])
           version == probe.version
           l       == [link EXCEPT ![i] = Tail(@)]
<1>1. /\ link \in Queues /\ fwd \in Tables /\ link[i] # <<>>
      /\ Bounded(link, Rounds) /\ Rounds \in [Switch -> Nat]
  BY RoundsType DEF TypeOK, Queues, Tables, Versions, Receive
<1>2. /\ in \in Ifc /\ u \in Switch /\ Wire[in] = i /\ i[1] \in Switch
  BY Topology
<1>3. /\ probe \in Probe /\ version \in 1..MaxVersion
      /\ version <= Rounds[i[1]]
      /\ l \in Queues /\ Bounded(l, Rounds)
  BY <1>1, TakeFirst DEF Probe
<1>4. UNCHANGED <<routing, counter, losses>>
  BY DEF Receive
<1>5. version <= Round(i[1])
  BY <1>2, <1>3 DEF Rounds
<1>6. CASE u = Origin
  <2>1. link' = l /\ UNCHANGED <<state, late>>
    BY <1>6 DEF Receive
  <2>2. TypeOK'
    BY <1>3, <1>4, <2>1 DEF TypeOK, Queues, state
  <2>3. Rounds' = Rounds /\ \A v \in Switch : Round(v)' = Round(v)
    BY <1>4, <2>1 DEF Rounds, Round, state
  <2>4. Versions' /\ EntriesAreCurrent'
    BY <1>3, <2>1, <2>3, Topology DEF Versions, EntriesAreCurrent, state
  <2> QED BY <2>2, <2>4
<1>7. CASE u # Origin /\ (AlreadyReceived(in, version) \/ Outdated(u, version))
  <2>1. /\ lastProbeVer' = [lastProbeVer EXCEPT ![u] = version]
        /\ lastProbeVersion' = [lastProbeVersion EXCEPT ![in] =
                                 IF AlreadyReceived(in, version) THEN @ ELSE version]
        /\ link' = l /\ UNCHANGED <<lastProbeId, fwd>>
        /\ late' = (late \/ version < lastProbeId[u])
    BY <1>7 DEF Receive
  <2>2. TypeOK'
    <3>1. late' \in BOOLEAN
      BY <2>1 DEF TypeOK
    <3>2. version \in 0..MaxVersion
      BY <1>3
    <3>3. /\ lastProbeVer' \in [Switch -> 0..MaxVersion]
          /\ lastProbeVersion' \in [Ifc -> 0..MaxVersion]
      BY <2>1, <3>2 DEF TypeOK
    <3>4. link' \in [Ifc -> Seq(Probe)]
      BY <1>3, <2>1 DEF Queues
    <3> QED BY <1>4, <2>1, <3>1, <3>3, <3>4 DEF TypeOK
  <2>3. Rounds' = Rounds /\ \A v \in Switch : Round(v)' = Round(v)
    BY <1>4, <2>1 DEF Rounds, Round
  <2>4. version <= lastProbeId[u]
    BY <1>2, <1>3, <1>7, ProbeAssumption
       DEF AlreadyReceived, Outdated, Versions, TypeOK
  <2>5. \A v \in Switch : lastProbeVer'[v] <= lastProbeId'[v]
    BY <1>2, <2>1, <2>4 DEF Versions, TypeOK
  <2>6. \A j \in Ifc : /\ lastProbeVersion'[j] <= lastProbeId'[j[1]]
                       /\ lastProbeVersion'[j] <= Round(Wire[j][1])'
    BY <1>2, <1>5, <2>1, <2>3, <2>4, Topology DEF Versions, TypeOK
  <2>7. EntriesAreCurrent'
    <3> SUFFICES ASSUME NEW j \in Ifc, fwd[j] # NoEntry
                 PROVE  lastProbeVersion'[j] = lastProbeId[j[1]]
      BY <2>1 DEF EntriesAreCurrent
    <3>1. lastProbeVersion[j] = lastProbeId[j[1]]
      BY DEF EntriesAreCurrent
    <3>2. CASE j = in
      <4>1. version <= lastProbeVersion[in]
        BY <2>4, <3>1, <3>2
      <4> QED BY <1>2, <2>1, <3>1, <3>2, <4>1 DEF AlreadyReceived, TypeOK
    <3>3. CASE j # in
      BY <2>1, <3>1, <3>3 DEF TypeOK
    <3> QED BY <3>2, <3>3
  <2>8. Versions'
    BY <1>3, <2>1, <2>3, <2>5, <2>6 DEF Versions
  <2> QED BY <2>2, <2>7, <2>8
<1>8. CASE u # Origin /\ ~ AlreadyReceived(in, version) /\ ~ Outdated(u, version)
  <2>0. /\ lastProbeVer' = [lastProbeVer EXCEPT ![u] = version]
        /\ lastProbeVersion' = [lastProbeVersion EXCEPT ![in] = version]
        /\ lastProbeId' = [lastProbeId EXCEPT ![u] = IF version > @ THEN version ELSE @]
        /\ late' = (late \/ version < lastProbeId[u])
        /\ \E util \in Util : Process(in, probe, IsFirst(u, version), util, l)
    BY <1>8 DEF Receive
  <2>1. PICK util \in Util : Process(in, probe, IsFirst(u, version), util, l)
    BY <2>0
  <2> DEFINE first == IsFirst(u, version)
             mv    == IF util > probe.mv THEN util ELSE probe.mv
             to    == Receivers(u, in, version, TableAfter(in, mv, first))
             p     == [version |-> version, mv |-> mv]
  <2>2. /\ fwd' = TableAfter(in, mv, first)
        /\ link' = l \/ link' = Send(l, to, p)
    BY <2>1 DEF Process
  <2>3. mv \in Nat /\ first \in BOOLEAN /\ p \in Probe /\ to \in SUBSET Ports(u)
    BY <1>3, ProbeAssumption DEF Probe, IsFirst, Receivers
  <2>4. version >= lastProbeId[u] /\ lastProbeId[u] \in Nat /\ version \in Nat
    <3>1. version \in 1..MaxVersion /\ lastProbeId[u] \in 0..MaxVersion
      BY <1>2, <1>3 DEF TypeOK
    <3>2. ~ (version < lastProbeId[u])
      BY <1>8 DEF Outdated
    <3> HIDE DEF version, u
    <3> QED BY <3>1, <3>2, ProbeAssumption
  <2> HIDE DEF in, u, probe, version, l, first, mv, to, p
  <2>5. lastProbeId' = [lastProbeId EXCEPT ![u] = version]
    <3>1. (IF version > lastProbeId[u] THEN version ELSE lastProbeId[u]) = version
      BY <2>4
    <3>2. lastProbeId' = [lastProbeId EXCEPT ![u] =
                            IF version > lastProbeId[u] THEN version ELSE lastProbeId[u]]
      BY <2>0
    <3> QED BY <3>1, <3>2
  <2>6. /\ Rounds' \in [Switch -> Nat] /\ Rounds'[u] = version
        /\ \A v \in Switch : Rounds[v] <= Rounds'[v] /\ Round(v) <= Round(v)'
    <3>1. \A v \in Switch : Round(v)' = IF v = u THEN version ELSE Round(v)
      BY <1>2, <1>4, <1>8, <2>5 DEF Round, TypeOK
    <3>2. Round(u) = lastProbeId[u]
      BY <1>8 DEF Round
    <3>3. \A v \in Switch : Round(v) \in Nat
      BY <1>1 DEF Rounds
    <3>4. \A v \in Switch : Round(v) <= Round(v)' /\ Round(v)' \in Nat
      BY <2>4, <3>1, <3>2, <3>3
    <3>5. Rounds' = [v \in Switch |-> Round(v)'] /\ Rounds = [v \in Switch |-> Round(v)]
      BY DEF Rounds
    <3> QED BY <1>2, <3>1, <3>4, <3>5
  <2>7. link' \in Queues /\ Bounded(link', Rounds')
    <3>1. Bounded(l, Rounds')
      BY <1>1, <1>3, <2>6, BoundedGrows
    <3>2. p.version <= Rounds'[u]
      BY <2>4, <2>6 DEF p
    <3>3. Send(l, to, p) \in Queues
      BY <1>3, <2>3, SendType
    <3>4. Bounded(Send(l, to, p), Rounds')
      BY <1>2, <1>3, <2>3, <2>6, <3>1, <3>2, SendBounded
    <3> QED BY <1>3, <2>2, <3>1, <3>3, <3>4
  <2>8. /\ fwd' \in Tables
        /\ \A j \in Ifc : j[1] # u => fwd'[j] = fwd[j]
        /\ \A j \in Ifc \ {in} : fwd'[j] # NoEntry =>
                                     fwd[j] # NoEntry /\ (j[1] = u => ~ first)
    BY <1>1, <1>2, <2>2, <2>3, TableStep DEF u
  <2>9. TypeOK'
    <3>1. late' \in BOOLEAN
      BY <2>0 DEF TypeOK
    <3>2. version \in 0..MaxVersion
      BY <1>3
    <3>3. /\ lastProbeVer' \in [Switch -> 0..MaxVersion]
          /\ lastProbeVersion' \in [Ifc -> 0..MaxVersion]
          /\ lastProbeId' \in [Switch -> 0..MaxVersion]
      BY <2>0, <2>5, <3>2 DEF TypeOK
    <3> QED BY <1>4, <2>7, <2>8, <3>1, <3>3 DEF TypeOK, Queues, Tables
  <2>10. EntriesAreCurrent'
    <3> SUFFICES ASSUME NEW j \in Ifc, fwd'[j] # NoEntry
                 PROVE  lastProbeVersion'[j] = lastProbeId'[j[1]]
      BY DEF EntriesAreCurrent
    <3>1. CASE j = in
      BY <1>2, <2>0, <2>5, <3>1 DEF TypeOK, u
    <3>2. CASE j # in /\ j[1] # u
      BY <2>0, <2>5, <2>8, <3>2, Topology DEF EntriesAreCurrent, TypeOK
    <3>3. CASE j # in /\ j[1] = u
      <4>1. fwd[j] # NoEntry /\ version = lastProbeVer[u]
        BY <2>8, <3>3 DEF first, IsFirst
      <4>2. version = lastProbeId[u]
        BY <1>2, <2>4, <4>1 DEF Versions
      <4> QED BY <1>2, <2>0, <2>5, <3>3, <4>1, <4>2 DEF EntriesAreCurrent, TypeOK
    <3> QED BY <3>1, <3>2, <3>3
  <2>11. \A v \in Switch : lastProbeVer'[v] <= lastProbeId'[v]
    BY <1>2, <2>0, <2>4, <2>5 DEF Versions, TypeOK
  <2>12. \A j \in Ifc : lastProbeVersion'[j] <= lastProbeId'[j[1]]
    <3> SUFFICES ASSUME NEW j \in Ifc PROVE lastProbeVersion'[j] <= lastProbeId'[j[1]]
      OBVIOUS
    <3>1. lastProbeVersion[j] \in Int /\ lastProbeId[j[1]] \in Int
          /\ lastProbeVersion[j] <= lastProbeId[j[1]]
      BY Topology DEF Versions, TypeOK
    <3>2. lastProbeVersion'[j] = IF j = in THEN version ELSE lastProbeVersion[j]
      BY <1>2, <2>0 DEF TypeOK
    <3>3. lastProbeId'[j[1]] = IF j[1] = u THEN version ELSE lastProbeId[j[1]]
      BY <1>2, <2>5, Topology DEF TypeOK
    <3> QED BY <2>4, <3>1, <3>2, <3>3 DEF u
  <2>13. \A j \in Ifc : lastProbeVersion'[j] <= Round(Wire[j][1])'
    <3> SUFFICES ASSUME NEW j \in Ifc PROVE lastProbeVersion'[j] <= Round(Wire[j][1])'
      OBVIOUS
    <3>1. lastProbeVersion'[j] = IF j = in THEN version ELSE lastProbeVersion[j]
      BY <1>2, <2>0 DEF TypeOK
    <3>2. Round(Wire[j][1]) \in Nat /\ Round(Wire[j][1])' \in Nat
          /\ Round(Wire[j][1]) <= Round(Wire[j][1])'
      BY <1>1, <2>6, Topology DEF Rounds
    <3>3. lastProbeVersion[j] \in Int /\ lastProbeVersion[j] <= Round(Wire[j][1])
      BY DEF Versions, TypeOK
    <3> QED BY <1>2, <1>5, <2>4, <3>1, <3>2, <3>3
  <2>14. \A j \in Ifc : j[1] = Origin => fwd'[j] = NoEntry
    BY <1>8, <2>8 DEF Versions
  <2> QED BY <2>7, <2>9, <2>10, <2>11, <2>12, <2>13, <2>14 DEF Versions
<1> QED BY <1>6, <1>7, <1>8

LEMMA NextInv == IInv /\ [Next]_vars => IInv'
<1> SUFFICES ASSUME IInv, [Next]_vars PROVE IInv'
  OBVIOUS
<1>1. CASE GenerateProbe
  BY <1>1, GenerateInv
<1>2. ASSUME NEW i \in Ifc, Receive(i) PROVE IInv'
  BY <1>2, ReceiveInv
<1>3. ASSUME NEW i \in Ifc, Lose(i) PROVE IInv'
  BY <1>3, LoseInv
<1>4. CASE UNCHANGED vars
  BY <1>4 DEF IInv, TypeOK, Versions, EntriesAreCurrent, Bounded, Rounds, Round, vars, state
<1> QED BY <1>1, <1>2, <1>3, <1>4 DEF Next

THEOREM Invariance == Spec => []IInv
BY InitInv, NextInv, PTL DEF Spec

(* The types of the probe state, for both protocols on any topology. *)
THEOREM TypeCorrect == Spec => []TypeOK
<1>1. IInv => TypeOK
  BY DEF IInv
<1> QED BY <1>1, Invariance, PTL

(* However probes interleave, arrive late or are lost, the entries of a    *)
(* forwarding table come from the switch's newest round.                   *)
THEOREM EntriesAreCurrentHolds == Spec => []EntriesAreCurrent
<1>1. IInv => EntriesAreCurrent
  BY DEF IInv
<1> QED BY <1>1, Invariance, PTL

(* Along the next hops rounds only get newer.                              *)
THEOREM NextHopIsNoOlderHolds == Spec => []NextHopIsNoOlder
<1>1. IInv => NextHopIsNoOlder
  <2> SUFFICES ASSUME IInv, NEW i \in Ifc, fwd[i] # NoEntry
               PROVE  Round(Wire[i][1]) >= Round(i[1])
    BY DEF NextHopIsNoOlder
  <2>1. Round(i[1]) = lastProbeId[i[1]]
    BY DEF IInv, Versions, Round
  <2>2. lastProbeVersion[i] = lastProbeId[i[1]]
    BY DEF IInv, EntriesAreCurrent
  <2>3. Round(Wire[i][1]) \in Nat /\ lastProbeVersion[i] \in Int
    BY RoundsType, Topology DEF IInv, TypeOK, Rounds
  <2> QED BY <2>1, <2>2, <2>3 DEF IInv, Versions
<1> QED BY <1>1, Invariance, PTL

----------------------------------------------------------------------------
(* Loops.  As long as no probe is more than a round late, the probes a     *)
(* switch has sent in its current round are no better than the route it    *)
(* has now, so along the next hops of one round metrics never fall.        *)

(* The probes that may be queued on interface i. *)
NoBetter(i) ==
  { p \in Probe : i[1] # Origin =>
      /\ p.version <= lastProbeId[i[1]]
      /\ p.version = lastProbeId[i[1]] => \A j \in Entries(i[1]) : fwd[j] <= p.mv }

(* Both protocols: the first probe of a round is one of a newer version,   *)
(* and from then on a switch has a route.                                  *)
FirstIsNewer == late \/ \A u \in Switch \ {Origin} : lastProbeVer[u] = lastProbeId[u]
HasRoute     == \A u \in Switch \ {Origin} : lastProbeId[u] > 0 => Entries(u) # {}

(* Contra: a switch has one route, no worse than what it has sent, and     *)
(* no better than that of the next hop.                                    *)
SingleRoute == \A u \in Switch : \A i, j \in Entries(u) : i = j
SentNoBetter == \A i \in Ifc : link[i] \in Seq(NoBetter(i))
Rising ==
  \A i \in Ifc :
    LET v == Wire[i][1]
    IN  fwd[i] # NoEntry /\ v # Origin /\ lastProbeId[v] = lastProbeId[i[1]] =>
          \A j \in Entries(v) : fwd[j] <= fwd[i]

ContraInv ==
  routing = "contra" =>
    SingleRoute /\ (late \/ (SentNoBetter /\ Rising /\ ~ \E S \in SUBSET Switch : LoopIn(S)))

(* Dash: probes go down from the origin and from the switches that are not *)
(* leaves, so next hops go up and then to the origin.                      *)
Down(i) ==
  \/ i[1] = Origin /\ Origin \in Leaf /\ Wire[i][1] \notin Leaf
  \/ i[1] \notin Leaf /\ Wire[i][1] \in Leaf \ {Origin}

DashInv ==
  routing = "dash" =>
    \A i \in Ifc : link[i] # <<>> \/ fwd[Wire[i]] # NoEntry => Down(i)

RouteInv == FirstIsNewer /\ HasRoute /\ ContraInv /\ DashInv

(* What a probe from interface i does: it is dropped, or the switch at the *)
(* far end takes it with the metric mv.                                    *)
Pop(i) == [link EXCEPT ![i] = Tail(@)]

Dropped(i) == link' = Pop(i) /\ fwd' = fwd /\ lastProbeId' = lastProbeId

Took(i, mv) ==
  LET in      == Wire[i]
      u       == in[1]
      version == Head(link[i]).version
      first   == IsFirst(u, version)
      to      == Receivers(u, in, version, TableAfter(in, mv, first))
  IN  /\ u # Origin
      /\ Head(link[i]).mv <= mv
      /\ lastProbeVersion[in] < version
      /\ lastProbeId[u] <= version
      /\ lastProbeId' = [lastProbeId EXCEPT ![u] = version]
      /\ fwd' = TableAfter(in, mv, first)
      /\ link' = IF Forwards(in, mv, first)
                 THEN Send(Pop(i), to, [version |-> version, mv |-> mv])
                 ELSE Pop(i)

LEMMA HeadType ==
  ASSUME IInv, NEW i \in Ifc, link[i] # <<>>
  PROVE  /\ Head(link[i]) \in Probe
         /\ Head(link[i]).version \in 1..MaxVersion
         /\ Head(link[i]).version \in Nat \ {0}
         /\ Head(link[i]).mv \in Nat
         /\ Head(link[i]).version <= Round(i[1])
<1>1. link \in Queues /\ Bounded(link, Rounds)
  BY DEF IInv, TypeOK, Queues, Versions
<1>2. Head(link[i]) \in Probe /\ Head(link[i]).version <= Rounds[i[1]]
  BY <1>1, TakeFirst
<1>3. \A n \in 1..MaxVersion : n \in Nat \ {0}
  BY ProbeAssumption
<1> QED BY <1>2, <1>3, Topology DEF Probe, Rounds

LEMMA ReceiveCases ==
  ASSUME IInv, FirstIsNewer, NEW i \in Ifc, Receive(i)
  PROVE  /\ link[i] # <<>> /\ UNCHANGED <<routing, counter>> /\ (late => late')
         /\ FirstIsNewer'
         /\ Dropped(i) \/ \E mv \in Nat : Took(i, mv)
<1> DEFINE in      == Wire[i]
           u       == in[1]
           probe   == Head(link[i])
           version == probe.version
<1>1. link[i] # <<>> /\ UNCHANGED <<routing, counter>>
  BY DEF Receive
<1>2. in \in Ifc /\ u \in Switch
  BY Topology
<1>3. probe \in Probe /\ version \in Nat \ {0} /\ probe.mv \in Nat
  BY <1>1, HeadType
<1>4. /\ lastProbeVer \in [Switch -> Nat] /\ lastProbeId \in [Switch -> Nat]
      /\ lastProbeVersion \in [Ifc -> Nat]
  BY ProbeAssumption DEF IInv, TypeOK
<1>5. CASE u = Origin
  <2>1. link' = Pop(i) /\ UNCHANGED <<state, late>>
    BY <1>5 DEF Receive, Pop
  <2> QED BY <1>1, <2>1 DEF state, Dropped, FirstIsNewer
<1>6. CASE u # Origin /\ (AlreadyReceived(in, version) \/ Outdated(u, version))
  <2>1. /\ lastProbeVer' = [lastProbeVer EXCEPT ![u] = version]
        /\ link' = Pop(i) /\ UNCHANGED <<lastProbeId, fwd>>
        /\ late' = (late \/ version < lastProbeId[u])
    BY <1>6 DEF Receive, Pop
  <2>2. late' \/ version = lastProbeId[u]
    <3>1. lastProbeVersion[in] <= lastProbeId[u]
      BY <1>2 DEF IInv, Versions
    <3>2. version <= lastProbeId[u]
      BY <1>2, <1>3, <1>4, <1>6, <3>1 DEF AlreadyReceived, Outdated
    <3>3. lastProbeId[u] \in Nat
      BY <1>2, <1>4
    <3>4. version < lastProbeId[u] => late'
      BY <2>1, Zenon
    <3>5. version < lastProbeId[u] \/ version = lastProbeId[u]
      BY <1>3, <3>2, <3>3
    <3> QED BY <3>4, <3>5
  <2>3. FirstIsNewer'
    BY <1>2, <1>4, <2>1, <2>2 DEF FirstIsNewer
  <2> QED BY <1>1, <2>1, <2>3 DEF Dropped
<1>7. CASE u # Origin /\ ~ AlreadyReceived(in, version) /\ ~ Outdated(u, version)
  <2>1. /\ lastProbeVer' = [lastProbeVer EXCEPT ![u] = version]
        /\ lastProbeId' = [lastProbeId EXCEPT ![u] = IF version > @ THEN version ELSE @]
        /\ late' = (late \/ version < lastProbeId[u])
        /\ \E util \in Util : Process(in, probe, IsFirst(u, version), util, Pop(i))
    BY <1>7 DEF Receive, Pop
  <2>2. lastProbeId[u] <= version /\ lastProbeVersion[in] < version
    BY <1>2, <1>3, <1>4, <1>7 DEF AlreadyReceived, Outdated
  <2>3. lastProbeId' = [lastProbeId EXCEPT ![u] = version]
    <3>1. (IF version > lastProbeId[u] THEN version ELSE lastProbeId[u]) = version
      BY <1>2, <1>3, <1>4, <2>2
    <3>2. lastProbeId' = [lastProbeId EXCEPT ![u] =
                            IF version > lastProbeId[u] THEN version ELSE lastProbeId[u]]
      BY <2>1
    <3> QED BY <3>1, <3>2
  <2>4. FirstIsNewer'
    BY <1>2, <1>4, <2>1, <2>3 DEF FirstIsNewer
  <2>5. PICK util \in Util : Process(in, probe, IsFirst(u, version), util, Pop(i))
    BY <2>1
  <2> DEFINE mv == IF util > probe.mv THEN util ELSE probe.mv
  <2>6. mv \in Nat /\ probe.mv <= mv
    BY <1>3, ProbeAssumption
  <2>7. Took(i, mv)
    BY <1>7, <2>2, <2>3, <2>5, <2>6 DEF Took, Process
  <2> QED BY <1>1, <2>1, <2>4, <2>6, <2>7
<1> QED BY <1>5, <1>6, <1>7

(* What becomes of the table of a switch that takes a probe in time.       *)
LEMMA TookTable ==
  ASSUME IInv, FirstIsNewer, HasRoute, NEW i \in Ifc, link[i] # <<>>,
         NEW mv \in Nat, Took(i, mv), ~ late
  PROVE  LET in      == Wire[i]
             u       == in[1]
             version == Head(link[i]).version
         IN  \/ lastProbeId[u] < version /\ fwd' = OnlyVia(in, mv)
             \/ /\ lastProbeId[u] = version
                /\ routing = "contra"
                /\ \/ fwd' = fwd /\ link' = Pop(i)
                   \/ fwd' = OnlyVia(in, mv) /\ \E j \in Entries(u) : mv < fwd[j]
             \/ /\ lastProbeId[u] = version
                /\ routing = "dash"
                /\ fwd' = WithPath(in, mv)
<1> DEFINE in      == Wire[i]
           u       == in[1]
           version == Head(link[i]).version
<1> SUFFICES \/ lastProbeId[u] < version /\ fwd' = OnlyVia(in, mv)
             \/ /\ lastProbeId[u] = version
                /\ routing = "contra"
                /\ \/ fwd' = fwd /\ link' = Pop(i)
                   \/ fwd' = OnlyVia(in, mv) /\ \E j \in Entries(u) : mv < fwd[j]
             \/ /\ lastProbeId[u] = version
                /\ routing = "dash"
                /\ fwd' = WithPath(in, mv)
  OBVIOUS
<1>1. /\ in \in Ifc /\ u \in Switch /\ u # Origin
      /\ version \in Nat \ {0} /\ lastProbeId[u] \in Nat /\ lastProbeId[u] <= version
      /\ routing \in {"contra", "dash"}
  <2>1. u # Origin /\ lastProbeId[u] <= version
    BY DEF Took
  <2>2. in \in Ifc /\ u \in Switch /\ version \in Nat \ {0}
    BY Topology, HeadType
  <2>3. lastProbeId[u] \in Nat /\ routing \in {"contra", "dash"}
    BY <2>2, ProbeAssumption DEF IInv, TypeOK
  <2> QED BY <2>1, <2>2, <2>3
<1>2. IsFirst(u, version) <=> lastProbeId[u] < version
  BY <1>1 DEF FirstIsNewer, IsFirst
<1>3. fwd' = TableAfter(in, mv, IsFirst(u, version))
  BY DEF Took
<1>4. CASE lastProbeId[u] < version
  BY <1>2, <1>3, <1>4 DEF TableAfter
<1>5. CASE lastProbeId[u] = version /\ routing = "dash"
  BY <1>2, <1>3, <1>5 DEF TableAfter
<1>6. CASE lastProbeId[u] = version /\ routing = "contra" /\ ~ Better(in, mv)
  <2>1. ~ IsFirst(u, version)
    BY <1>1, <1>2, <1>6
  <2>2. fwd' = fwd
    BY <1>3, <1>6, <2>1 DEF TableAfter
  <2>3. link' = Pop(i)
    BY <1>6, <2>1 DEF Took, Forwards
  <2> QED BY <1>6, <2>2, <2>3
<1>7. CASE lastProbeId[u] = version /\ routing = "contra" /\ Better(in, mv)
  <2>1. Entries(u) # {}
    BY <1>1, <1>7 DEF HasRoute
  <2>2. in \notin Entries(u)
    <3> SUFFICES ASSUME in \in Entries(u) PROVE FALSE
      OBVIOUS
    <3>1. lastProbeVersion[in] = lastProbeId[u]
      BY <1>1 DEF IInv, EntriesAreCurrent, Entries, Ports
    <3>2. lastProbeVersion[in] < version
      BY DEF Took
    <3>3. lastProbeId[u] < version
      BY <3>1, <3>2
    <3> QED BY <1>1, <1>7, <3>3
  <2>3. \E j \in Entries(u) : mv < fwd[j]
    BY <1>7, <2>1, <2>2 DEF Better
  <2>4. fwd' = OnlyVia(in, mv)
    BY <1>3, <1>7 DEF TableAfter
  <2> QED BY <1>7, <2>3, <2>4
<1> QED BY <1>1, <1>4, <1>5, <1>6, <1>7

LEMMA SeqMonotone ==
  ASSUME NEW A, NEW B, A \subseteq B, NEW q \in Seq(A)
  PROVE  q \in Seq(B)
<1>1. q \in [1..Len(q) -> A] /\ Len(q) \in Nat
  BY SeqDef
<1>2. q \in [1..Len(q) -> B]
  BY <1>1
<1> QED BY <1>1, <1>2, SeqDef

(* Popping and sending keep every queue within a set of probes.            *)
LEMMA QueuesWithin ==
  ASSUME link \in Queues, NEW i \in Ifc, link[i] # <<>>, NEW j \in Ifc,
         NEW A, NEW B, A \subseteq B, link[j] \in Seq(A), NEW to, NEW p, j \in to => p \in B
  PROVE  Pop(i)[j] \in Seq(B) /\ Send(Pop(i), to, p)[j] \in Seq(B)
<1>1. Pop(i)[j] \in Seq(A)
  <2>1. CASE j = i
    <3>1. Pop(i)[j] = Tail(link[j])
      BY <2>1 DEF Pop, Queues
    <3>2. link[j] # <<>>
      BY <2>1
    <3> QED BY <3>1, <3>2
  <2>2. CASE j # i
    BY <2>2 DEF Pop, Queues
  <2> QED BY <2>1, <2>2
<1>2. Pop(i)[j] \in Seq(B)
  BY <1>1, SeqMonotone
<1>3. Send(Pop(i), to, p)[j] = IF j \in to THEN Append(Pop(i)[j], p) ELSE Pop(i)[j]
  BY DEF Send
<1> QED BY <1>2, <1>3

(* Entries of the table after a step. *)
LEMMA ViaEntries ==
  ASSUME fwd \in Tables, NEW in \in Ifc, NEW mv \in Nat, fwd' = OnlyVia(in, mv)
  PROVE  /\ fwd'[in] = mv /\ Entries(in[1])' = {in}
         /\ \A u : u # in[1] => Entries(u)' = Entries(u)
         /\ \A j \in Ifc : j[1] # in[1] => fwd'[j] = fwd[j]
<1>1. \A j \in Ifc : fwd'[j] = IF j = in THEN mv ELSE IF j[1] = in[1] THEN NoEntry ELSE fwd[j]
  BY DEF OnlyVia
<1>2. mv # NoEntry
  BY DEF NoEntry
<1> QED BY <1>1, <1>2 DEF Entries, Ports

LEMMA PathEntries ==
  ASSUME fwd \in Tables, NEW in \in Ifc, NEW mv \in Nat, fwd' = WithPath(in, mv)
  PROVE  /\ \A u : Entries(u) \subseteq Entries(u)' /\ Entries(u)' \subseteq Entries(u) \cup {in}
         /\ \A j \in Ifc : fwd[j] # NoEntry => fwd'[j] <= fwd[j]
         /\ \A j \in Ifc : j[1] # in[1] => fwd'[j] = fwd[j]
<1>1. \A j \in Ifc : fwd'[j] =
        IF j = in THEN IF fwd[in] = NoEntry \/ mv < fwd[in] THEN mv ELSE fwd[in] ELSE fwd[j]
  BY DEF WithPath, Tables
<1>2. mv # NoEntry
  BY DEF NoEntry
<1>3. \A j \in Ifc : fwd[j] # NoEntry => fwd[j] \in Nat
  BY DEF Tables
<1> QED BY <1>1, <1>2, <1>3 DEF Entries, Ports

LEMMA TookHasRoute ==
  ASSUME IInv, FirstIsNewer, HasRoute, NEW i \in Ifc, link[i] # <<>>,
         NEW mv \in Nat, Took(i, mv)
  PROVE  HasRoute'
<1> DEFINE in      == Wire[i]
           u       == in[1]
           version == Head(link[i]).version
<1>1. in \in Ifc /\ u \in Switch /\ version \in Nat \ {0}
  BY Topology, HeadType
<1>2. /\ fwd \in Tables /\ lastProbeVer \in [Switch -> Nat] /\ lastProbeId \in [Switch -> Nat]
      /\ lastProbeVer[u] <= lastProbeId[u] /\ routing \in {"contra", "dash"}
  BY <1>1, ProbeAssumption DEF IInv, TypeOK, Tables, Versions
<1>3. /\ fwd' = TableAfter(in, mv, IsFirst(u, version))
      /\ lastProbeId' = [lastProbeId EXCEPT ![u] = version]
      /\ lastProbeId[u] <= version /\ u # Origin
  BY DEF Took
<1>4. IsFirst(u, version) \/ Entries(u) # {}
  <2>1. CASE lastProbeId[u] = 0
    BY <1>1, <1>2, <2>1 DEF IsFirst
  <2>2. CASE lastProbeId[u] > 0
    BY <1>1, <1>3, <2>2 DEF HasRoute
  <2> QED BY <1>1, <1>2, <2>1, <2>2
<1>5. \/ fwd' = OnlyVia(in, mv)
      \/ Entries(u) # {} /\ fwd' \in {fwd, WithPath(in, mv)}
  BY <1>2, <1>3, <1>4 DEF TableAfter
<1>6. Entries(u)' # {} /\ \A w \in Switch : w # u => Entries(w)' = Entries(w)
  <2>1. CASE fwd' = OnlyVia(in, mv)
    BY <1>1, <1>2, <2>1, ViaEntries
  <2>2. CASE Entries(u) # {} /\ fwd' = WithPath(in, mv)
    <3>1. \A w \in Switch : w # u => Entries(w)' = Entries(w)
      BY <1>1, <1>2, <2>2, PathEntries DEF Entries, Ports
    <3> QED BY <1>1, <1>2, <2>2, <3>1, PathEntries
  <2>3. CASE Entries(u) # {} /\ fwd' = fwd
    BY <2>3 DEF Entries, Ports
  <2> QED BY <1>5, <2>1, <2>2, <2>3
<1>7. \A w \in Switch : w # u => lastProbeId'[w] = lastProbeId[w]
  BY <1>2, <1>3
<1> QED BY <1>6, <1>7 DEF HasRoute

(* The names the next lemmas share: switch u takes a probe of switch v.    *)
(* Contra either replaces the routes of u by the interface in, for the     *)
(* first probe of a round or for a better metric, or ignores the probe.    *)
ContraTook(in, version, mv) ==
  LET u == in[1]
  IN  \/ lastProbeId[u] < version /\ fwd' = OnlyVia(in, mv)
      \/ /\ lastProbeId[u] = version
         /\ fwd' = OnlyVia(in, mv) /\ \E j \in Entries(u) : mv < fwd[j]

LEMMA ContraTookOrIgnored ==
  ASSUME IInv, FirstIsNewer, HasRoute, routing = "contra", ~ late,
         NEW i \in Ifc, link[i] # <<>>, NEW mv \in Nat, Took(i, mv)
  PROVE  \/ fwd' = fwd /\ lastProbeId' = lastProbeId /\ link' = Pop(i)
         \/ ContraTook(Wire[i], Head(link[i]).version, mv)
<1> DEFINE in      == Wire[i]
           u       == in[1]
           version == Head(link[i]).version
<1>1. \/ lastProbeId[u] < version /\ fwd' = OnlyVia(in, mv)
      \/ /\ lastProbeId[u] = version
         /\ \/ fwd' = fwd /\ link' = Pop(i)
            \/ fwd' = OnlyVia(in, mv) /\ \E j \in Entries(u) : mv < fwd[j]
  BY TookTable
<1>2. lastProbeId' = [lastProbeId EXCEPT ![u] = version]
  BY DEF Took
<1>3. lastProbeId[u] = version => lastProbeId' = lastProbeId
  BY <1>2, Topology DEF IInv, TypeOK
<1> QED BY <1>1, <1>3 DEF ContraTook

LEMMA TookSingle ==
  ASSUME IInv, SingleRoute, NEW in \in Ifc, NEW version, NEW mv \in Nat,
         ContraTook(in, version, mv)
  PROVE  SingleRoute'
<1>1. fwd' = OnlyVia(in, mv) /\ fwd \in Tables
  BY DEF ContraTook, IInv, TypeOK, Tables
<1>2. Entries(in[1])' = {in} /\ \A u \in Switch : u # in[1] => Entries(u)' = Entries(u)
  BY <1>1, ViaEntries
<1> QED BY <1>2 DEF SingleRoute

(* Queued probes stay no better than the route of their sender. *)
LEMMA TookSent ==
  ASSUME IInv, SentNoBetter, NEW i \in Ifc, link[i] # <<>>, NEW mv \in Nat, Took(i, mv),
         ContraTook(Wire[i], Head(link[i]).version, mv)
  PROVE  SentNoBetter'
<1> DEFINE in      == Wire[i]
           u       == in[1]
           version == Head(link[i]).version
           first   == IsFirst(u, version)
           to      == Receivers(u, in, version, TableAfter(in, mv, first))
           p       == [version |-> version, mv |-> mv]
<1>1. /\ in \in Ifc /\ u \in Switch /\ version \in 1..MaxVersion /\ version \in Nat
      /\ p \in Probe
  BY Topology, HeadType DEF Probe
<1>2. link \in Queues /\ fwd \in Tables /\ lastProbeId \in [Switch -> Nat]
  BY ProbeAssumption DEF IInv, TypeOK, Queues, Tables
<1>3. /\ lastProbeId' = [lastProbeId EXCEPT ![u] = version]
      /\ lastProbeId[u] <= version
      /\ link' \in {Pop(i), Send(Pop(i), to, p)}
  BY DEF Took
<1>4. /\ fwd' = OnlyVia(in, mv)
      /\ lastProbeId[u] < version \/ (lastProbeId[u] = version /\ \E k \in Entries(u) : mv < fwd[k])
  BY DEF ContraTook
<1>5. to \subseteq Ports(u)
  BY DEF Receivers
<1> HIDE DEF in, u, version, first, to, p
<1>6. /\ fwd'[in] = mv /\ Entries(u)' = {in}
      /\ \A w : w # u => Entries(w)' = Entries(w)
      /\ \A j \in Ifc : j[1] # u => fwd'[j] = fwd[j]
  BY <1>1, <1>2, <1>4, ViaEntries DEF u
<1> SUFFICES ASSUME NEW j \in Ifc PROVE link'[j] \in Seq(NoBetter(j)')
  BY DEF SentNoBetter
<1>7. NoBetter(j) \subseteq NoBetter(j)'
  <2> SUFFICES ASSUME NEW q \in NoBetter(j), j[1] # Origin
               PROVE  /\ q.version <= lastProbeId'[j[1]]
                      /\ q.version = lastProbeId'[j[1]] => \A k \in Entries(j[1])' : fwd'[k] <= q.mv
    BY DEF NoBetter
  <2>1. /\ q.version <= lastProbeId[j[1]] /\ q.version \in Nat /\ q.mv \in Nat
        /\ q.version = lastProbeId[j[1]] => \A k \in Entries(j[1]) : fwd[k] <= q.mv
    BY ProbeAssumption DEF NoBetter, Probe
  <2>2. CASE j[1] # u
    <3>1. lastProbeId'[j[1]] = lastProbeId[j[1]] /\ Entries(j[1])' = Entries(j[1])
      BY <1>2, <1>3, <1>6, <2>2, Topology
    <3>2. \A k \in Entries(j[1]) : fwd'[k] = fwd[k]
      BY <1>6, <2>2 DEF Entries, Ports
    <3> QED BY <2>1, <3>1, <3>2
  <2>3. CASE j[1] = u
    <3>1. lastProbeId'[j[1]] = version
      BY <1>1, <1>2, <1>3, <2>3
    <3>2. q.version <= lastProbeId[u] /\ lastProbeId[u] \in Nat
      BY <1>1, <1>2, <2>1, <2>3
    <3>3. q.version <= version
      BY <1>1, <1>3, <2>1, <3>2
    <3>4. ASSUME q.version = version PROVE mv <= q.mv
      <4>1. lastProbeId[u] = version
        BY <1>1, <1>3, <2>1, <3>2, <3>4
      <4>2. PICK k \in Entries(u) : mv < fwd[k]
        BY <1>1, <1>4, <4>1
      <4>3. fwd[k] <= q.mv /\ fwd[k] \in Nat
        BY <2>1, <2>3, <3>4, <4>1, <1>2 DEF Entries, Ports, Tables
      <4> QED BY <2>1, <4>2, <4>3
    <3> QED BY <1>6, <2>3, <3>1, <3>3, <3>4
  <2> QED BY <2>2, <2>3
<1>8. j \in to => p \in NoBetter(j)'
  <2> SUFFICES ASSUME j \in to PROVE p \in NoBetter(j)'
    OBVIOUS
  <2>1. j[1] = u
    BY <1>5 DEF Ports
  <2>2. lastProbeId'[u] = version /\ p.version = version /\ p.mv = mv
    BY <1>1, <1>2, <1>3 DEF p
  <2> QED BY <1>1, <1>6, <2>1, <2>2 DEF NoBetter
<1>9. link[j] \in Seq(NoBetter(j))
  BY DEF SentNoBetter
<1>10. Pop(i)[j] \in Seq(NoBetter(j)') /\ Send(Pop(i), to, p)[j] \in Seq(NoBetter(j)')
  BY <1>2, <1>7, <1>8, <1>9, QueuesWithin
<1> QED BY <1>3, <1>10

(* Next hops know no older round; in terms of lastProbeId.                 *)
LEMMA NextHopKnows ==
  ASSUME IInv, NEW j \in Ifc, fwd[j] # NoEntry, Wire[j][1] # Origin
  PROVE  /\ lastProbeId[j[1]] \in Nat /\ lastProbeId[Wire[j][1]] \in Nat
         /\ lastProbeId[j[1]] <= lastProbeId[Wire[j][1]]
<1>1. lastProbeVersion[j] <= lastProbeId[Wire[j][1]] /\ lastProbeVersion[j] = lastProbeId[j[1]]
  BY Topology DEF IInv, Versions, EntriesAreCurrent, Round
<1>2. lastProbeId[j[1]] \in Nat /\ lastProbeId[Wire[j][1]] \in Nat
  BY Topology, ProbeAssumption DEF IInv, TypeOK
<1> QED BY <1>1, <1>2

LEMMA TookRising ==
  ASSUME IInv, SentNoBetter, Rising, NEW i \in Ifc, link[i] # <<>>, NEW mv \in Nat,
         Took(i, mv), ContraTook(Wire[i], Head(link[i]).version, mv)
  PROVE  Rising'
<1> DEFINE in      == Wire[i]
           u       == in[1]
           version == Head(link[i]).version
<1>1. /\ in \in Ifc /\ u \in Switch /\ version \in Nat /\ Wire[in] = i /\ i[1] # u
  BY Topology, HeadType, ProbeAssumption
<1>2. fwd \in Tables /\ lastProbeId \in [Switch -> Nat]
  BY ProbeAssumption DEF IInv, TypeOK, Tables
<1>3. /\ lastProbeId' = [lastProbeId EXCEPT ![u] = version]
      /\ Head(link[i]).mv <= mv /\ u # Origin
  BY DEF Took
<1>4. /\ fwd' = OnlyVia(in, mv)
      /\ lastProbeId[u] < version \/ (lastProbeId[u] = version /\ \E k \in Entries(u) : mv < fwd[k])
  BY DEF ContraTook
<1>5. /\ fwd'[in] = mv /\ Entries(u)' = {in}
      /\ \A w : w # u => Entries(w)' = Entries(w)
      /\ \A j \in Ifc : j[1] # u => fwd'[j] = fwd[j]
  BY <1>1, <1>2, <1>4, ViaEntries
<1>6. \A w \in Switch : lastProbeId'[w] = IF w = u THEN version ELSE lastProbeId[w]
  BY <1>2, <1>3
<1>7. Head(link[i]).mv \in Nat /\ Head(link[i]) \in NoBetter(i)
  <2>1. link[i] \in Seq(NoBetter(i))
    BY DEF SentNoBetter
  <2> QED BY <2>1, HeadType
<1> SUFFICES ASSUME NEW j \in Ifc, fwd'[j] # NoEntry, Wire[j][1] # Origin,
                    lastProbeId'[Wire[j][1]] = lastProbeId'[j[1]],
                    NEW k \in Entries(Wire[j][1])'
             PROVE  fwd'[k] <= fwd'[j]
  BY DEF Rising
<1> DEFINE v == Wire[j][1]
<1>8. v \in Switch /\ j[1] \in Switch /\ v # j[1]
  BY Topology, ProbeAssumption
<1>9. k \in Ifc /\ k[1] = v
  BY DEF Entries, Ports
<1>10. CASE j[1] = u
  <2>1. j = in
    BY <1>5, <1>10 DEF Entries, Ports
  <2>2. v = i[1] /\ lastProbeId[v] = version
    BY <1>1, <1>6, <1>8, <2>1
  <2>3. fwd[k] <= Head(link[i]).mv
    BY <1>1, <1>5, <1>7, <2>2 DEF NoBetter
  <2>4. fwd'[k] = fwd[k] /\ fwd[k] \in Nat
    <3>1. k \in Entries(v)
      BY <1>1, <1>5, <2>2
    <3> QED BY <1>1, <1>2, <1>5, <1>9, <2>2, <3>1 DEF Tables, Entries
  <2> QED BY <1>3, <1>5, <1>7, <2>1, <2>3, <2>4
<1>11. CASE j[1] # u /\ v = u
  <2>1. k = in /\ fwd'[k] = mv /\ fwd'[j] = fwd[j] /\ fwd[j] \in Nat
    BY <1>2, <1>5, <1>11 DEF Tables
  <2>2. lastProbeId[j[1]] = version /\ lastProbeId[j[1]] <= lastProbeId[u] /\ lastProbeId[u] \in Nat
    BY <1>6, <1>8, <1>11, <2>1, NextHopKnows
  <2>3. PICK m \in Entries(u) : mv < fwd[m]
    BY <1>1, <1>4, <2>2
  <2>4. fwd[m] <= fwd[j] /\ fwd[m] \in Nat
    <3>1. lastProbeId[u] = lastProbeId[j[1]]
      BY <1>1, <1>4, <2>2
    <3>2. fwd[m] <= fwd[j]
      BY <1>3, <1>11, <2>1, <3>1 DEF Rising
    <3> QED BY <1>2, <3>2 DEF Entries, Ports, Tables
  <2> QED BY <2>1, <2>3, <2>4
<1>12. CASE j[1] # u /\ v # u
  <2>1. fwd'[j] = fwd[j] /\ k \in Entries(v) /\ fwd'[k] = fwd[k]
    BY <1>5, <1>9, <1>12
  <2>2. lastProbeId[v] = lastProbeId[j[1]]
    BY <1>6, <1>8, <1>12
  <2> QED BY <2>1, <2>2 DEF Rising
<1> QED BY <1>10, <1>11, <1>12

(* A new route closes no loop: one through it would have been a loop       *)
(* before, of the switches that know a newer round, or that have the same  *)
(* and a better route than the one replaced.                               *)
LEMMA TookNoLoop ==
  ASSUME IInv, SentNoBetter, Rising, ~ \E S \in SUBSET Switch : LoopIn(S),
         NEW i \in Ifc, link[i] # <<>>, NEW mv \in Nat,
         Took(i, mv), ContraTook(Wire[i], Head(link[i]).version, mv)
  PROVE  ~ \E S \in SUBSET Switch : LoopIn(S)'
<1> DEFINE in      == Wire[i]
           u       == in[1]
           version == Head(link[i]).version
<1>1. /\ in \in Ifc /\ u \in Switch /\ version \in Nat /\ Wire[in] = i /\ i[1] # u /\ i[1] \in Switch
      /\ version <= Round(i[1])
  BY Topology, HeadType, ProbeAssumption
<1>2. fwd \in Tables /\ lastProbeId \in [Switch -> Nat]
  BY ProbeAssumption DEF IInv, TypeOK, Tables
<1>3. Head(link[i]).mv <= mv /\ u # Origin
  BY DEF Took
<1>4. /\ fwd' = OnlyVia(in, mv)
      /\ lastProbeId[u] < version \/ (lastProbeId[u] = version /\ \E k \in Entries(u) : mv < fwd[k])
  BY DEF ContraTook
<1>5. /\ Entries(u)' = {in}
      /\ \A w : w # u => Entries(w)' = Entries(w)
  BY <1>1, <1>2, <1>4, ViaEntries
<1>6. Head(link[i]).mv \in Nat /\ Head(link[i]) \in NoBetter(i)
  <2>1. link[i] \in Seq(NoBetter(i))
    BY DEF SentNoBetter
  <2> QED BY <2>1, HeadType
<1> SUFFICES ASSUME NEW S \in SUBSET Switch, LoopIn(S)' PROVE FALSE
  OBVIOUS
<1>7. S # {} /\ \A w \in S : \E j \in Entries(w)' : Wire[j][1] \in S
  BY DEF LoopIn
<1>8. \A w \in S : w # u => \E j \in Entries(w) : Wire[j][1] \in S
  BY <1>5, <1>7
<1>9. u \in S
  <2> SUFFICES ASSUME u \notin S PROVE FALSE
    OBVIOUS
  <2>1. LoopIn(S)
    BY <1>7, <1>8 DEF LoopIn
  <2> QED BY <2>1
<1>10. i[1] \in S
  BY <1>1, <1>5, <1>7, <1>9
<1>11. Origin \notin S
  <2>1. Entries(Origin) = {}
    BY DEF IInv, Versions, Entries, Ports
  <2> QED BY <1>3, <1>8, <2>1
<1>12. version <= lastProbeId[i[1]]
  BY <1>1, <1>10, <1>11 DEF Round
<1>13. \A w \in S : lastProbeId[w] \in Nat
  BY <1>2
<1>14. \A w \in S : \A j \in Entries(w) : Wire[j][1] \in S =>
         /\ j \in Ifc /\ fwd[j] \in Nat
         /\ lastProbeId[w] <= lastProbeId[Wire[j][1]]
         /\ lastProbeId[Wire[j][1]] = lastProbeId[w] => \A k \in Entries(Wire[j][1]) : fwd[k] <= fwd[j]
  <2> SUFFICES ASSUME NEW w \in S, NEW j \in Entries(w), Wire[j][1] \in S
               PROVE  /\ j \in Ifc /\ fwd[j] \in Nat
                      /\ lastProbeId[w] <= lastProbeId[Wire[j][1]]
                      /\ lastProbeId[Wire[j][1]] = lastProbeId[w] =>
                           \A k \in Entries(Wire[j][1]) : fwd[k] <= fwd[j]
    OBVIOUS
  <2>1. j \in Ifc /\ fwd[j] # NoEntry /\ j[1] = w /\ Wire[j][1] # Origin
    BY <1>11 DEF Entries, Ports
  <2> QED BY <1>2, <2>1, NextHopKnows DEF Rising, Tables
<1>15. CASE lastProbeId[u] < version
  <2> DEFINE T == { w \in S : w # u /\ version <= lastProbeId[w] }
  <2>1. i[1] \in T
    BY <1>1, <1>10, <1>12
  <2>2. ASSUME NEW w \in T PROVE \E j \in Entries(w) : Wire[j][1] \in T
    <3>1. PICK j \in Entries(w) : Wire[j][1] \in S
      BY <1>8
    <3>2. version <= lastProbeId[Wire[j][1]]
      BY <1>1, <1>13, <1>14, <3>1
    <3>3. Wire[j][1] # u
      BY <1>1, <1>2, <1>15, <3>2
    <3> QED BY <3>1, <3>2, <3>3
  <2>3. T \in SUBSET Switch /\ LoopIn(T)
    BY <2>1, <2>2 DEF LoopIn
  <2> QED BY <2>3
<1>16. CASE lastProbeId[u] = version /\ \E k \in Entries(u) : mv < fwd[k]
  <2>1. PICK old \in Entries(u) : mv < fwd[old]
    BY <1>16
  <2>2. fwd[old] \in Nat
    BY <1>2 DEF Entries, Ports, Tables
  <2> DEFINE T == { w \in S : /\ w # u /\ version <= lastProbeId[w]
                              /\ lastProbeId[w] = version => \A k \in Entries(w) : fwd[k] < fwd[old] }
  <2>3. i[1] \in T
    <3>1. ASSUME lastProbeId[i[1]] = version, NEW k \in Entries(i[1]) PROVE fwd[k] < fwd[old]
      <4>1. fwd[k] <= Head(link[i]).mv /\ fwd[k] \in Nat
        BY <1>2, <1>6, <1>10, <1>11, <3>1 DEF NoBetter, Entries, Ports, Tables
      <4> QED BY <1>3, <1>6, <2>1, <2>2, <4>1
    <3> QED BY <1>1, <1>10, <1>12, <3>1
  <2>4. ASSUME NEW w \in T PROVE \E j \in Entries(w) : Wire[j][1] \in T
    <3>1. PICK j \in Entries(w) : Wire[j][1] \in S
      BY <1>8
    <3> DEFINE x == Wire[j][1]
    <3>2. /\ lastProbeId[w] <= lastProbeId[x] /\ fwd[j] \in Nat
          /\ lastProbeId[x] = lastProbeId[w] => \A k \in Entries(x) : fwd[k] <= fwd[j]
      BY <1>14, <3>1
    <3>3. /\ lastProbeId[w] \in Nat /\ lastProbeId[x] \in Nat /\ version <= lastProbeId[w]
          /\ version <= lastProbeId[x]
      BY <1>1, <1>13, <3>1, <3>2
    <3>4. ASSUME lastProbeId[x] = version PROVE x # u /\ \A k \in Entries(x) : fwd[k] < fwd[old]
      <4>1. lastProbeId[w] = version
        BY <1>1, <3>2, <3>3, <3>4
      <4>2. fwd[j] < fwd[old]
        BY <4>1
      <4>3. \A k \in Entries(x) : fwd[k] \in Nat /\ fwd[k] <= fwd[j]
        BY <1>2, <3>2, <3>4, <4>1 DEF Entries, Ports, Tables
      <4>4. \A k \in Entries(x) : fwd[k] < fwd[old]
        BY <2>2, <3>2, <4>2, <4>3
      <4>5. ~ (fwd[old] < fwd[old])
        BY <2>2
      <4> QED BY <2>1, <4>4, <4>5
    <3>5. x # u
      BY <1>16, <3>4
    <3> QED BY <3>1, <3>3, <3>4, <3>5
  <2>5. T \in SUBSET Switch /\ LoopIn(T)
    BY <2>3, <2>4 DEF LoopIn
  <2> QED BY <2>5
<1> QED BY <1>4, <1>15, <1>16

LEMMA TookContra ==
  ASSUME IInv, FirstIsNewer, HasRoute, ContraInv, routing = "contra", routing' = routing,
         late => late', NEW i \in Ifc, link[i] # <<>>, NEW mv \in Nat, Took(i, mv)
  PROVE  ContraInv'
<1> DEFINE in == Wire[i]
           version == Head(link[i]).version
<1>1. SingleRoute /\ in \in Ifc /\ fwd \in Tables /\ link \in Queues
  BY Topology DEF ContraInv, IInv, TypeOK, Tables, Queues
<1>2. SingleRoute'
  <2>1. fwd' \in {fwd, OnlyVia(in, mv)}
    BY DEF Took, TableAfter
  <2>2. CASE fwd' = fwd
    BY <1>1, <2>2 DEF SingleRoute, Entries
  <2>3. CASE fwd' = OnlyVia(in, mv)
    <3>1. Entries(in[1])' = {in} /\ \A u \in Switch : u # in[1] => Entries(u)' = Entries(u)
      BY <1>1, <2>3, ViaEntries
    <3> QED BY <1>1, <3>1 DEF SingleRoute
  <2> QED BY <2>1, <2>2, <2>3
<1>3. ASSUME ~ late'
      PROVE  SentNoBetter' /\ Rising' /\ ~ \E S \in SUBSET Switch : LoopIn(S)'
  <2>1. /\ ~ late
        /\ SentNoBetter /\ Rising /\ ~ \E S \in SUBSET Switch : LoopIn(S)
    BY <1>3 DEF ContraInv
  <2>2. CASE fwd' = fwd /\ lastProbeId' = lastProbeId /\ link' = Pop(i)
    <3>1. /\ \A u : Entries(u)' = Entries(u)
          /\ \A j : NoBetter(j)' = NoBetter(j)
          /\ \A S : LoopIn(S)' <=> LoopIn(S)
      BY <2>2 DEF Entries, NoBetter, LoopIn
    <3>2. ASSUME NEW j \in Ifc PROVE link'[j] \in Seq(NoBetter(j))
      <4>1. link[j] \in Seq(NoBetter(j))
        BY <2>1 DEF SentNoBetter
      <4>2. \A p : Pop(i)[j] \in Seq(NoBetter(j))
        BY <1>1, <4>1, QueuesWithin, Zenon
      <4> QED BY <2>2, <4>2
    <3>3. Rising'
      BY <2>1, <2>2, <3>1 DEF Rising
    <3> QED BY <2>1, <3>1, <3>2, <3>3 DEF SentNoBetter
  <2>3. CASE ContraTook(in, version, mv)
    BY <2>1, <2>3, TookSent, TookRising, TookNoLoop
  <2> QED BY <2>1, <2>2, <2>3, ContraTookOrIgnored
<1> QED BY <1>2, <1>3 DEF ContraInv

(* Dash sends probes down only. *)
LEMMA SentDown ==
  ASSUME routing = "dash", NEW u \in Switch, NEW in, NEW version, NEW table,
         NEW i \in Receivers(u, in, version, table)
  PROVE  i \in Ifc /\ Down(i)
<1>1. /\ i \in Ifc /\ i[1] = u /\ Origin \in Leaf /\ Wire[i][1] \in updateforward(u)
  BY DEF Receivers, Ports
<1> QED BY <1>1 DEF updateforward, Down

LEMMA TookDash ==
  ASSUME IInv, DashInv, routing = "dash", routing' = routing,
         NEW i \in Ifc, link[i] # <<>>, NEW mv \in Nat, Took(i, mv)
  PROVE  DashInv'
<1> DEFINE in      == Wire[i]
           u       == in[1]
           version == Head(link[i]).version
           first   == IsFirst(u, version)
           to      == Receivers(u, in, version, TableAfter(in, mv, first))
           p       == [version |-> version, mv |-> mv]
<1>1. /\ in \in Ifc /\ u \in Switch /\ first \in BOOLEAN
      /\ fwd \in Tables /\ link \in Queues
  BY Topology DEF IInv, TypeOK, Tables, Queues, IsFirst
<1>2. fwd' = TableAfter(in, mv, first) /\ link' \in {Pop(i), Send(Pop(i), to, p)}
  BY DEF Took
<1>3. \A j \in to : Down(j)
  BY <1>1, SentDown
<1> HIDE DEF to, p, version, first
<1>4. \A j \in Ifc \ {in} : fwd'[j] # NoEntry => fwd[j] # NoEntry
  BY <1>1, <1>2, TableStep
<1>5. \A j \in Ifc : link'[j] # <<>> => link[j] # <<>> \/ j \in to
  <2> SUFFICES ASSUME NEW j \in Ifc, link[j] = <<>>, j \notin to PROVE link'[j] = <<>>
    OBVIOUS
  <2>1. Pop(i)[j] = <<>>
    BY <1>1 DEF Pop, Queues
  <2> QED BY <1>2, <2>1 DEF Send
<1> SUFFICES ASSUME NEW j \in Ifc, link'[j] # <<>> \/ fwd'[Wire[j]] # NoEntry PROVE Down(j)
  BY DEF DashInv, Down
<1>6. CASE link'[j] # <<>>
  BY <1>3, <1>5, <1>6 DEF DashInv
<1>7. CASE fwd'[Wire[j]] # NoEntry /\ Wire[j] # in
  BY <1>4, <1>7, Topology DEF DashInv
<1>8. CASE Wire[j] = in
  <2>1. j = i
    BY <1>8, Topology
  <2> QED BY <2>1 DEF DashInv
<1> QED BY <1>6, <1>7, <1>8

LEMMA InitRoute == Init => RouteInv
<1> SUFFICES ASSUME Init PROVE RouteInv
  OBVIOUS
<1>1. /\ \A i \in Ifc : fwd[i] = NoEntry /\ link[i] = <<>> /\ fwd[Wire[i]] = NoEntry
      /\ \A u \in Switch : Entries(u) = {} /\ lastProbeId[u] = 0 /\ lastProbeVer[u] = 0
  BY Topology DEF Init, Entries, Ports
<1>2. SentNoBetter /\ Rising /\ SingleRoute
  <2>1. \A A : <<>> \in Seq(A)
    OBVIOUS
  <2>2. SentNoBetter
    BY <1>1, <2>1 DEF SentNoBetter
  <2>3. Rising
    BY <1>1 DEF Rising
  <2>4. SingleRoute
    BY <1>1 DEF SingleRoute
  <2> QED BY <2>2, <2>3, <2>4
<1>3. \A S \in SUBSET Switch : ~ LoopIn(S)
  BY <1>1 DEF LoopIn
<1>4. FirstIsNewer /\ HasRoute /\ DashInv
  BY <1>1 DEF FirstIsNewer, HasRoute, DashInv
<1> QED BY <1>2, <1>3, <1>4 DEF RouteInv, ContraInv

(* Steps that touch only the queues. *)
LEMMA QueueStep ==
  ASSUME RouteInv, UNCHANGED <<routing, state, late>>,
         ~ late => \A i \in Ifc : link[i] \in Seq(NoBetter(i)) => link'[i] \in Seq(NoBetter(i)),
         routing = "dash" => \A i \in Ifc : link'[i] # <<>> => link[i] # <<>> \/ Down(i)
  PROVE  RouteInv'
<1>1. UNCHANGED <<routing, lastProbeVer, lastProbeVersion, lastProbeId, fwd, late>>
  BY DEF state
<1>2. /\ \A u : Entries(u)' = Entries(u)
      /\ \A j : NoBetter(j)' = NoBetter(j)
      /\ \A S : LoopIn(S)' <=> LoopIn(S)
      /\ \A j : Down(j)' <=> Down(j)
  BY <1>1 DEF Entries, NoBetter, LoopIn, Down
<1>3. FirstIsNewer' /\ HasRoute'
  BY <1>1, <1>2 DEF RouteInv, FirstIsNewer, HasRoute
<1>4. ContraInv'
  <2> SUFFICES ASSUME routing = "contra" PROVE ContraInv'
    BY <1>1 DEF ContraInv
  <2>1. SingleRoute'
    BY <1>2 DEF RouteInv, ContraInv, SingleRoute
  <2>2. CASE late
    BY <1>1, <2>1, <2>2 DEF ContraInv
  <2>3. CASE ~ late
    <3>1. SentNoBetter /\ Rising /\ ~ \E S \in SUBSET Switch : LoopIn(S)
      BY <2>3 DEF RouteInv, ContraInv
    <3>2. SentNoBetter'
      BY <1>2, <2>3, <3>1 DEF SentNoBetter
    <3>3. Rising'
      BY <1>1, <1>2, <3>1 DEF Rising
    <3> QED BY <1>2, <2>1, <3>1, <3>2, <3>3 DEF ContraInv
  <2> QED BY <2>2, <2>3
<1>5. DashInv'
  BY <1>1, <1>2 DEF RouteInv, DashInv
<1> QED BY <1>3, <1>4, <1>5 DEF RouteInv

LEMMA RouteNext == IInv /\ RouteInv /\ [Next]_vars => RouteInv'
<1> SUFFICES ASSUME IInv, RouteInv, [Next]_vars PROVE RouteInv'
  OBVIOUS
<1>1. link \in Queues /\ IInv' /\ routing \in {"contra", "dash"}
  BY NextInv DEF IInv, TypeOK, Queues
<1>2. CASE GenerateProbe
  <2> DEFINE to == Receivers(Origin, <<>>, counter + 1, fwd)
             p  == [version |-> counter + 1, mv |-> 0]
  <2>1. link' = Send(link, to, p) /\ UNCHANGED <<routing, state, late>>
    BY <1>2 DEF GenerateProbe
  <2>2. ASSUME NEW i \in Ifc, link[i] \in Seq(NoBetter(i)) PROVE link'[i] \in Seq(NoBetter(i))
    <3>1. CASE i \in to
      <4>1. NoBetter(i) = Probe
        BY <3>1 DEF Receivers, Ports, NoBetter
      <4>2. link'[i] \in Seq(Probe)
        BY <1>1 DEF IInv, TypeOK
      <4> QED BY <4>1, <4>2
    <3>2. CASE i \notin to
      BY <2>1, <2>2, <3>2 DEF Send
    <3> QED BY <3>1, <3>2
  <2>3. ASSUME routing = "dash", NEW i \in Ifc, link'[i] # <<>> PROVE link[i] # <<>> \/ Down(i)
    <3>1. CASE i \in to
      BY <2>3, <3>1, SentDown, Topology
    <3>2. CASE i \notin to
      BY <2>1, <2>3, <3>2 DEF Send
    <3> QED BY <3>1, <3>2
  <2> QED BY <2>1, <2>2, <2>3, QueueStep
<1>3. ASSUME NEW i \in Ifc, Lose(i) PROVE RouteInv'
  <2>1. link' = Pop(i) /\ UNCHANGED <<routing, state, late>> /\ link[i] # <<>>
    BY <1>3 DEF Lose, Pop
  <2>2. ASSUME NEW j \in Ifc, link[j] \in Seq(NoBetter(j)) PROVE link'[j] \in Seq(NoBetter(j))
    <3>1. \A p : Pop(i)[j] \in Seq(NoBetter(j))
      BY <1>1, <2>1, <2>2, QueuesWithin, Zenon
    <3> QED BY <2>1, <3>1
  <2>3. \A j \in Ifc : link'[j] # <<>> => link[j] # <<>>
    BY <1>1, <2>1 DEF Pop, Queues
  <2> QED BY <2>1, <2>2, <2>3, QueueStep
<1>4. ASSUME NEW i \in Ifc, Receive(i) PROVE RouteInv'
  <2>0. FirstIsNewer /\ HasRoute /\ ContraInv /\ DashInv
    BY DEF RouteInv
  <2>1. /\ link[i] # <<>> /\ UNCHANGED <<routing, counter>> /\ (late => late')
        /\ FirstIsNewer'
        /\ Dropped(i) \/ \E mv \in Nat : Took(i, mv)
    BY <1>4, <2>0, ReceiveCases
  <2>2. CASE Dropped(i)
    <3>1. link' = Pop(i) /\ fwd' = fwd /\ lastProbeId' = lastProbeId
      BY <2>2 DEF Dropped
    <3>2. /\ \A u : Entries(u)' = Entries(u)
          /\ \A j : NoBetter(j)' = NoBetter(j)
          /\ \A S : LoopIn(S)' <=> LoopIn(S)
          /\ \A j : Down(j)' <=> Down(j)
      BY <3>1 DEF Entries, NoBetter, LoopIn, Down
    <3>3. HasRoute'
      BY <2>0, <3>1, <3>2 DEF HasRoute
    <3>4. ContraInv'
      <4>1. routing = "contra" => SingleRoute'
        BY <2>0, <3>2 DEF ContraInv, SingleRoute
      <4>2. ASSUME NEW j \in Ifc, link[j] \in Seq(NoBetter(j)) PROVE link'[j] \in Seq(NoBetter(j))'
        <5>1. \A p : Pop(i)[j] \in Seq(NoBetter(j))
          BY <1>1, <2>1, <4>2, QueuesWithin, Zenon
        <5> QED BY <3>1, <3>2, <5>1
      <4>3. SentNoBetter => SentNoBetter'
        BY <4>2 DEF SentNoBetter
      <4>4. Rising => Rising'
        BY <3>1, <3>2 DEF Rising
      <4> QED BY <2>0, <2>1, <3>2, <4>1, <4>3, <4>4 DEF ContraInv
    <3>5. DashInv'
      <4>1. \A j \in Ifc : link'[j] # <<>> => link[j] # <<>>
        BY <1>1, <2>1, <3>1 DEF Pop, Queues
      <4> QED BY <2>0, <2>1, <3>1, <3>2, <4>1 DEF DashInv
    <3> QED BY <2>1, <3>3, <3>4, <3>5 DEF RouteInv
  <2>3. ASSUME NEW mv \in Nat, Took(i, mv) PROVE RouteInv'
    <3>1. HasRoute'
      BY <2>0, <2>1, <2>3, TookHasRoute
    <3>2. ContraInv'
      <4>1. CASE routing = "contra"
        BY <2>0, <2>1, <2>3, <4>1, TookContra
      <4>2. CASE routing # "contra"
        BY <2>1, <4>2 DEF ContraInv
      <4> QED BY <4>1, <4>2
    <3>3. DashInv'
      <4>1. CASE routing = "dash"
        BY <2>0, <2>1, <2>3, <4>1, TookDash
      <4>2. CASE routing # "dash"
        BY <2>1, <4>2 DEF DashInv
      <4> QED BY <4>1, <4>2
    <3> QED BY <2>1, <3>1, <3>2, <3>3 DEF RouteInv
  <2> QED BY <2>1, <2>2, <2>3
<1>5. CASE UNCHANGED vars
  <2>1. UNCHANGED <<routing, state, late, link>>
    BY <1>5 DEF vars
  <2> QED BY <2>1, QueueStep
<1> QED BY <1>2, <1>3, <1>4, <1>5 DEF Next

THEOREM RouteInvariance == Spec => [](IInv /\ RouteInv)
<1>1. Init => IInv /\ RouteInv
  BY InitInv, InitRoute
<1>2. (IInv /\ RouteInv) /\ [Next]_vars => (IInv /\ RouteInv)'
  BY NextInv, RouteNext
<1> QED BY <1>1, <1>2, PTL DEF Spec

(* No loops: neither protocol ever has next hops that form one, on any     *)
(* topology, unless a probe is more than a round late.  For Dash they lead *)
(* up to a switch that is no leaf and from there to the origin.            *)
THEOREM LoopFreeHolds == Spec => []LoopFree
<1>1. IInv /\ RouteInv => LoopFree
  <2> SUFFICES ASSUME IInv, RouteInv, ~ late, NEW S \in SUBSET Switch, LoopIn(S) PROVE FALSE
    BY DEF LoopFree
  <2>1. routing \in {"contra", "dash"}
    BY DEF IInv, TypeOK
  <2>2. CASE routing = "contra"
    BY <2>2 DEF RouteInv, ContraInv
  <2>3. CASE routing = "dash"
    <3>1. \A u \in S : \E j \in Ifc : j[1] = u /\ fwd[j] # NoEntry /\ Wire[j][1] \in S
      BY DEF LoopIn, Entries, Ports
    <3>2. ASSUME NEW j \in Ifc, fwd[j] # NoEntry PROVE Down(Wire[j]) /\ Wire[Wire[j]] = j
      BY <2>3, <3>2, Topology DEF RouteInv, DashInv
    <3>3. Origin \notin S
      BY <3>1 DEF IInv, Versions
    <3>4. \A u \in S : u \in Leaf /\ \E j \in Ifc : Wire[j][1] \in S /\ Wire[j][1] \notin Leaf
      BY <3>1, <3>2, <3>3 DEF Down
    <3> QED BY <3>4 DEF LoopIn
  <2> QED BY <2>1, <2>2, <2>3
<1> QED BY <1>1, RouteInvariance, PTL

----------------------------------------------------------------------------
(* Routes within a round.                                                  *)
LEMMA SmallestNumber ==
  ASSUME NEW T, T \subseteq Nat, T # {}
  PROVE  \E m \in T : \A n \in T : m <= n
<1> DEFINE R == OpToRel(<, Nat)
<1>1. IsWellFoundedOn(R, Nat)
  BY NatLessThanWellFounded, Zenon
<1>2. \A m, n \in Nat : m < n => <<m, n>> \in R
  BY DEF OpToRel
<1> HIDE DEF R
<1>3. PICK m \in T : \A n \in T : ~ (<<n, m>> \in R)
  BY <1>1, WFMin
<1>4. \A n \in T : m \in Nat /\ n \in Nat /\ ~ (n < m)
  BY <1>2, <1>3
<1> QED BY <1>4

(* Among entries E of a table f there is a best one, and Best finds it.    *)
LEMMA SmallestEntry ==
  ASSUME NEW f, NEW E, E # {}, \A j \in E : f[j] \in Nat
  PROVE  \E i \in E : \A j \in E : f[i] <= f[j]
<1> DEFINE T == { f[j] : j \in E }
<1>1. T \subseteq Nat /\ T # {}
  OBVIOUS
<1>2. \E m \in T : \A n \in T : m <= n
  <2> HIDE DEF T
  <2> QED BY <1>1, SmallestNumber
<1> QED BY <1>2

(* The route of a switch whose table kept its entries or got a better one. *)
LEMMA KeepsBestIf ==
  ASSUME fwd \in Tables, fwd' \in Tables, NEW u, Entries(u) # {},
         \A i \in Entries(u) : \E j \in Entries(u)' : fwd'[j] <= fwd[i],
         routing = "dash" => Entries(u) \subseteq Entries(u)'
  PROVE  KeepsBest(u)
<1>0. /\ \A k \in Entries(u) : fwd[k] \in Nat
      /\ \A k \in Entries(u)' : fwd'[k] \in Nat
  BY DEF Entries, Ports, Tables
<1>1. Best(u) \in Entries(u)
  <2>1. \E i \in Entries(u) : \A j \in Entries(u) : fwd[i] <= fwd[j]
    BY <1>0, SmallestEntry
  <2> QED BY <2>1 DEF Best
<1>2. PICK j \in Entries(u)' : fwd'[j] <= fwd[Best(u)]
  BY <1>1
<1>3. Best(u)' \in Entries(u)' /\ \A k \in Entries(u)' : fwd'[Best(u)'] <= fwd'[k]
  <2>1. \E i \in Entries(u)' : \A k \in Entries(u)' : fwd'[i] <= fwd'[k]
    BY <1>0, <1>2, SmallestEntry
  <2> QED BY <2>1 DEF Best
<1>4. fwd'[Best(u)'] \in Nat /\ fwd'[j] \in Nat /\ fwd[Best(u)] \in Nat
  BY <1>0, <1>1, <1>2, <1>3
<1>5. fwd'[Best(u)'] <= fwd[Best(u)]
  BY <1>2, <1>3, <1>4
<1> QED BY <1>5 DEF KeepsBest

LEMMA RoundsImproveStep ==
  ASSUME IInv, RouteInv, Next
  PROVE  late' \/ \A w \in Switch \ {Origin} : KeepsBest(w)
<1> SUFFICES ASSUME ~ late', NEW w \in Switch \ {Origin},
                    lastProbeId[w] > 0, lastProbeId'[w] = lastProbeId[w]
             PROVE  KeepsBest(w)
  BY DEF KeepsBest
<1>1. Entries(w) # {} /\ fwd \in Tables /\ fwd' \in Tables
  BY NextInv DEF RouteInv, HasRoute, IInv, TypeOK, Tables
<1>2. \A j \in Entries(w) : j \in Ifc /\ j[1] = w /\ fwd[j] \in Nat
  BY <1>1 DEF Entries, Ports, Tables
<1>3. SUFFICES /\ \A j \in Entries(w) : \E k \in Entries(w)' : fwd'[k] <= fwd[j]
               /\ routing = "dash" => Entries(w) \subseteq Entries(w)'
  BY <1>1, KeepsBestIf
<1>4. CASE \A j \in Ifc : j[1] = w => fwd'[j] = fwd[j]
  <2>1. \A j \in Entries(w) : j \in Entries(w)' /\ fwd'[j] <= fwd[j]
    BY <1>2, <1>4 DEF Entries, Ports
  <2> QED BY <2>1
<1>5. CASE GenerateProbe
  BY <1>4, <1>5 DEF GenerateProbe, state
<1>6. ASSUME NEW i \in Ifc, Lose(i)
      PROVE  \A j \in Ifc : j[1] = w => fwd'[j] = fwd[j]
  BY <1>6 DEF Lose, state
<1>7. ASSUME NEW i \in Ifc, Receive(i), ~ \A j \in Ifc : j[1] = w => fwd'[j] = fwd[j]
      PROVE  /\ \A j \in Entries(w) : \E k \in Entries(w)' : fwd'[k] <= fwd[j]
             /\ routing = "dash" => Entries(w) \subseteq Entries(w)'
  <2> DEFINE in      == Wire[i]
             u       == in[1]
             version == Head(link[i]).version
  <2>0. FirstIsNewer /\ HasRoute
    BY DEF RouteInv
  <2>1. /\ link[i] # <<>> /\ ~ late
        /\ Dropped(i) \/ \E mv \in Nat : Took(i, mv)
    BY <1>7, <2>0, ReceiveCases
  <2>2. ~ Dropped(i)
    BY <1>7 DEF Dropped
  <2>3. PICK mv \in Nat : Took(i, mv)
    BY <2>1, <2>2
  <2>4. /\ in \in Ifc /\ u \in Switch /\ version \in Nat /\ lastProbeId \in [Switch -> Nat]
    BY <2>1, HeadType, Topology, ProbeAssumption DEF IInv, TypeOK
  <2>5. lastProbeId' = [lastProbeId EXCEPT ![u] = version]
    BY <2>3 DEF Took
  <2>6. \/ lastProbeId[u] < version /\ fwd' = OnlyVia(in, mv)
        \/ /\ lastProbeId[u] = version
           /\ routing = "contra"
           /\ \/ fwd' = fwd /\ link' = Pop(i)
              \/ fwd' = OnlyVia(in, mv) /\ \E j \in Entries(u) : mv < fwd[j]
        \/ /\ lastProbeId[u] = version
           /\ routing = "dash"
           /\ fwd' = WithPath(in, mv)
    BY <2>0, <2>1, <2>3, TookTable
  <2>7. w = u
    <3> SUFFICES ASSUME w # u PROVE \A j \in Ifc : j[1] = w => fwd'[j] = fwd[j]
      BY <1>7
    <3> QED BY <1>1, <2>4, <2>6, ViaEntries, PathEntries
  <2>8. ~ (lastProbeId[u] < version) /\ fwd' # fwd
    <3>1. lastProbeId[u] = version /\ version \in Nat
      BY <2>4, <2>5, <2>7
    <3>2. ~ (version < version)
      BY <3>1
    <3> QED BY <1>7, <3>1, <3>2
  <2>9. CASE routing = "contra" /\ fwd' = OnlyVia(in, mv) /\ \E j \in Entries(u) : mv < fwd[j]
    <3>1. PICK old \in Entries(w) : mv < fwd[old]
      BY <2>7, <2>9
    <3>2. \A j \in Entries(w) : j = old
      BY <2>9 DEF RouteInv, ContraInv, SingleRoute
    <3>3. in \in Entries(w)' /\ fwd'[in] = mv
      BY <1>1, <2>4, <2>7, <2>9, ViaEntries
    <3>4. mv <= fwd[old]
      BY <1>2, <3>1
    <3> QED BY <2>9, <3>2, <3>3, <3>4
  <2>10. CASE fwd' = WithPath(in, mv)
    <3>1. \A j \in Entries(w) : j \in Entries(w)' /\ fwd'[j] <= fwd[j]
      BY <1>1, <2>4, <2>10, PathEntries DEF Entries, Ports
    <3> QED BY <3>1
  <2> QED BY <2>6, <2>8, <2>9, <2>10
<1> QED BY <1>4, <1>5, <1>6, <1>7 DEF Next

(* Once a round a table only gets better, and Dash loses no path, unless a *)
(* probe is more than a round late.                                        *)
THEOREM RoundsImproveHolds == Spec => RoundsImprove
<1> DEFINE A == late' \/ \A u \in Switch \ {Origin} : KeepsBest(u)
<1>1. IInv /\ RouteInv /\ [Next]_vars => [A]_vars
  BY RoundsImproveStep
<1>2. Spec => [][A]_vars
  <2> HIDE DEF A
  <2> QED BY <1>1, RouteInvariance, PTL DEF Spec
<1> QED BY <1>2 DEF RoundsImprove
=============================================================================
