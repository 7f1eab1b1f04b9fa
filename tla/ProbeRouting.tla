------------------------------ MODULE ProbeRouting ------------------------------
(***************************************************************************)
(* The probe flooding of the two baselines, Contra and Dash, for the       *)
(* routes to one switch, the origin of the probes.  Every probe period     *)
(* (round) the origin sends a probe with a new version; a switch that      *)
(* takes a probe over sets its forwarding table and passes the probe on    *)
(* with the worse of its metric and the utilisation of the port.           *)
(***************************************************************************)
EXTENDS Integers, Sequences, FiniteSets

CONSTANTS
  Wire,        \* for each connected interface <<switch, port>>, the other end
  Origin,      \* the switch the routes lead to
  Leaf,        \* the leaf switches; Dash runs on leaf-spine fabrics
  Util,        \* port utilisations
  MaxVersion,  \* bounds the rounds
  MaxLosses    \* bounds the probes lost to a full queue

Ifc == DOMAIN Wire
Switch == { i[1] : i \in Ifc }
Ports(u) == { i \in Ifc : i[1] = u }

ASSUME ProbeAssumption ==
  /\ Wire \in [Ifc -> Ifc]
  /\ \A i \in Ifc : i = <<i[1], i[2]>>
  /\ \A i \in Ifc : Wire[Wire[i]] = i /\ Wire[i][1] # i[1]
  /\ Origin \in Switch
  /\ Leaf \subseteq Switch
  /\ Util \subseteq Nat
  /\ MaxVersion \in Nat
  /\ MaxLosses \in Nat

VARIABLES
  routing,           \* the protocol the simulation was started with
  counter,           \* m_probeVersionCounter of the origin
  lastProbeVer,      \* the version of the last probe of each switch, 0: none
  lastProbeVersion,  \* the version last taken on each interface, 0: none
  lastProbeId,       \* the newest version each switch has taken, 0: none
  fwd,               \* the metric of each interface in the forwarding table
  link,              \* the probes under way from each interface
  losses,
  late               \* history: some switch was sent a probe of a past round

state == <<lastProbeVer, lastProbeVersion, lastProbeId, fwd>>
vars == <<routing, counter, state, link, losses, late>>

NoEntry == -1
Probe == [version : 1..MaxVersion, mv : Nat]

TypeOK ==
  /\ routing \in {"contra", "dash"}
  /\ counter \in 0..MaxVersion
  /\ lastProbeVer \in [Switch -> 0..MaxVersion]
  /\ lastProbeVersion \in [Ifc -> 0..MaxVersion]
  /\ lastProbeId \in [Switch -> 0..MaxVersion]
  /\ fwd \in [Ifc -> Nat \cup {NoEntry}]
  /\ link \in [Ifc -> Seq(Probe)]
  /\ losses \in 0..MaxLosses
  /\ late \in BOOLEAN

Init ==
  /\ routing \in {"contra", "dash"}
  /\ counter = 0
  /\ lastProbeVer = [u \in Switch |-> 0]
  /\ lastProbeVersion = [i \in Ifc |-> 0]
  /\ lastProbeId = [u \in Switch |-> 0]
  /\ fwd = [i \in Ifc |-> NoEntry]
  /\ link = [i \in Ifc |-> <<>>]
  /\ losses = 0
  /\ late = FALSE

----------------------------------------------------------------------------
(* The neighbours Dash lets switch u forward probes to.  A leaf passes     *)
(* nobody else's probes on, a spine passes them to the other leaves.       *)
updateforward(u) ==
  IF u \in Leaf THEN IF u = Origin THEN Switch \ Leaf ELSE {}
  ELSE Leaf \ {Origin}

(* sendcost: switch u sends the probe on every interface but the one it    *)
(* came by, unless this or a newer version has been taken there.  Dash     *)
(* also leaves out the interfaces in its table.                            *)
Receivers(u, in, version, table) ==
  { i \in Ports(u) \ {in} :
      /\ version > lastProbeVersion[i]
      /\ routing = "dash" =>
           /\ Origin \in Leaf
           /\ Wire[i][1] \in updateforward(u)
           /\ table[i] = NoEntry }

Send(l, to, probe) ==
  [i \in Ifc |-> IF i \in to THEN Append(l[i], probe) ELSE l[i]]

(* Mutant: the version is counted after the probe is sent. *)
GenerateProbeThenCount ==
  /\ counter < MaxVersion
  /\ counter' = counter + 1
  /\ link' = Send(link, Receivers(Origin, <<>>, counter + 1, fwd),
                  [version |-> counter, mv |-> 0])
  /\ UNCHANGED <<routing, state, losses, late>>

(* Every probe period, the origin starts a round. *)
GenerateProbe ==
  /\ counter < MaxVersion
  /\ counter' = counter + 1
  /\ link' = Send(link, Receivers(Origin, <<>>, counter + 1, fwd),
                  [version |-> counter + 1, mv |-> 0])
  /\ UNCHANGED <<routing, state, losses, late>>

Entries(u) == { i \in Ports(u) : fwd[i] # NoEntry }

(* The table of a switch reduced to the interface a probe came by. *)
OnlyVia(in, mv) ==
  [i \in Ifc |-> IF i = in THEN mv ELSE IF i[1] = in[1] THEN NoEntry ELSE fwd[i]]

(* Mutant: a route is also given up for an equal one. *)
BetterOrEqual(in, mv) ==
  \/ Entries(in[1]) = {}
  \/ in \in Entries(in[1]) /\ mv # fwd[in]
  \/ \E i \in Entries(in[1]) \ {in} : mv <= fwd[i]

(* Mutant: any change is taken, better or not. *)
BetterOrWorse(in, mv) == Entries(in[1]) = {} \/ \A i \in Entries(in[1]) : mv # fwd[i]

(* Whether Contra takes a probe over: the first of a round in any case,    *)
(* others if they change the metric of the route or give a better one.     *)
Better(in, mv) ==
  \/ Entries(in[1]) = {}
  \/ in \in Entries(in[1]) /\ mv # fwd[in]
  \/ \E i \in Entries(in[1]) \ {in} : mv < fwd[i]

(* Dash keeps every interface by which a probe of the round came. *)
WithPath(in, mv) ==
  [fwd EXCEPT ![in] = IF @ = NoEntry \/ mv < @ THEN mv ELSE @]

TableAfter(in, mv, first) ==
  IF routing = "contra" THEN IF first \/ Better(in, mv) THEN OnlyVia(in, mv) ELSE fwd
  ELSE IF first THEN OnlyVia(in, mv) ELSE WithPath(in, mv)

(* Mutant: probes are passed on only if they make a difference. *)
ForwardsBetter(in, mv, first) == Better(in, mv)

(* Contra passes a probe on when it takes it over, Dash always. *)
Forwards(in, mv, first) == routing = "contra" => first \/ Better(in, mv)

(* Mutant: only the very first probe clears the table. *)
IsFirstOnce(u, version) == lastProbeVer[u] = 0

(* Which probe counts as the first of a round.  The version is remembered  *)
(* before the probe may be dropped.                                        *)
IsFirst(u, version) == version # lastProbeVer[u]

(* "drop probe if already received on this port" *)
AlreadyReceived(in, version) == version <= lastProbeVersion[in]

(* Mutant: a probe of a past round is processed. *)
NeverOutdated(u, version) == FALSE

(* "drop probe if newer probe received on any port" *)
Outdated(u, version) == version < lastProbeId[u]

(* Process a probe that is not dropped. *)
Process(in, probe, first, util, l) ==
  LET u  == in[1]
      mv == IF util > probe.mv THEN util ELSE probe.mv
      to == Receivers(u, in, probe.version, TableAfter(in, mv, first))
  IN  /\ fwd' = TableAfter(in, mv, first)
      /\ link' = IF Forwards(in, mv, first)
                 THEN Send(l, to, [version |-> probe.version, mv |-> mv])
                 ELSE l

(* HandleUpdate at the far end of link i. *)
Receive(i) ==
  LET in      == Wire[i]
      u       == in[1]
      probe   == Head(link[i])
      version == probe.version
      l       == [link EXCEPT ![i] = Tail(@)]
      known   == AlreadyReceived(in, version)
  IN  /\ link[i] # <<>>
      /\ UNCHANGED <<routing, counter, losses>>
      /\ IF u = Origin
         THEN link' = l /\ UNCHANGED <<state, late>>
         ELSE /\ lastProbeVer' = [lastProbeVer EXCEPT ![u] = version]
              /\ lastProbeVersion' =
                   [lastProbeVersion EXCEPT ![in] = IF known THEN @ ELSE version]
              /\ IF known \/ Outdated(u, version)
                 THEN link' = l /\ UNCHANGED <<lastProbeId, fwd>>
                 ELSE /\ lastProbeId' =
                           [lastProbeId EXCEPT ![u] = IF version > @ THEN version ELSE @]
                      /\ \E util \in Util :
                           Process(in, probe, IsFirst(u, version), util, l)
              /\ late' = (late \/ version < lastProbeId[u])

(* A full queue drops a probe. *)
Lose(i) ==
  /\ losses < MaxLosses
  /\ link[i] # <<>>
  /\ link' = [link EXCEPT ![i] = Tail(@)]
  /\ losses' = losses + 1
  /\ UNCHANGED <<routing, counter, state, late>>

Next ==
  \/ GenerateProbe
  \/ \E i \in Ifc : Receive(i) \/ Lose(i)

(* The origin's timer fires every period, and devices transmit what they   *)
(* have queued.                                                            *)
Deliver == \E i \in Ifc : Receive(i)
Fairness == WF_vars(GenerateProbe) /\ WF_vars(Deliver)

Spec == Init /\ [][Next]_vars
FairSpec == Spec /\ Fairness

----------------------------------------------------------------------------
(* The newest round a switch knows of. *)
Round(u) == IF u = Origin THEN counter ELSE lastProbeId[u]

(* Although the versions are filtered by three variables, two of them      *)
(* written before the probe may be dropped, every entry of a forwarding    *)
(* table comes from the newest round of the switch.                        *)
EntriesAreCurrent ==
  \A i \in Ifc : fwd[i] # NoEntry => lastProbeVersion[i] = lastProbeId[i[1]]

(* A packet never moves to a switch that knows less: along the next hops   *)
(* rounds only get newer.  Loops are then within one round.                *)
NextHopIsNoOlder ==
  \A i \in Ifc : fwd[i] # NoEntry => Round(Wire[i][1]) >= Round(i[1])

(* The next hops form a loop through the switches of some set. *)
LoopIn(S) == S # {} /\ \A u \in S : \E i \in Entries(u) : Wire[i][1] \in S

(* Next hops form no loop, at any moment of any round, although metrics    *)
(* may be equal and every switch replaces its route when it meets the      *)
(* first probe of a round - unless a link is more than a round late.       *)
LoopFree == late \/ ~ \E S \in SUBSET Switch : LoopIn(S)

(* Once a round, the table only gets better: a probe on another interface  *)
(* changes Contra's route only if its metric is smaller, and takes no path *)
(* from Dash - unless a link is more than a round late.                    *)
Best(u) == CHOOSE i \in Entries(u) : \A j \in Entries(u) : fwd[i] <= fwd[j]

KeepsBest(u) ==
  (lastProbeId[u] > 0 /\ lastProbeId'[u] = lastProbeId[u]) =>
    /\ fwd'[Best(u)'] <= fwd[Best(u)]
    /\ routing = "dash" => Entries(u) \subseteq Entries(u)'

RoundsImprove == [][late' \/ \A u \in Switch \ {Origin} : KeepsBest(u)]_vars

(* The same without the exception, as "drop probe if newer probe received  *)
(* on any port" (contra.cc, line 703) suggests: a dropped probe leaves no  *)
(* trace, and after the first of a round only a better one "changes route" *)
(* (line 756).                                                             *)
RoundsAlwaysImprove == [][\A u \in Switch \ {Origin} : KeepsBest(u)]_vars

(* Every round reaches every switch that can use it, whatever metrics stop *)
(* Contra from passing probes on; only a lost probe can prevent it.        *)
Served == { u \in Switch : routing = "contra" \/ Origin \in Leaf }

RoundReachesAll ==
  \A n \in 1..MaxVersion :
    counter >= n ~> (losses > 0 \/ \A u \in Served : Round(u) >= n)
=============================================================================
