# TIMP in TLA+

TIMP is a load-balancing routing protocol for data-centre networks. The repository holds an
ns-3 implementation (`ns3/timp`), two baselines it is compared with (`ns3/contra`, `ns3/dash`),
a P4 program for the same switch (`p4`), ns-2 patches (`ns2`) and the simulation scenario
(`ns3/timpsim.cc`). It has no tests. This directory holds specifications of the protocols - the
ns-3 router and its network, the controller, the P4 program, and the probes of the baselines -
with their model-checking configurations and proofs.

## The system

**Router** (`ns3/timp/model/timp.cc`). A switch keeps, for each destination switch,

- a row of *alternates* (`alternaterutes`): the ports that lead there;
- a row of *previous ports* (`previousPorts`): the ports its updates about it go to;
- a *flow table* of `DST_HASH_SIZE` slots: the port (`flowhash`) and the time of the last packet
  (`flowtime`) of a flowlet;
- the price its neighbour on each port advertised (`prices_nbr`), and the price it last advertised
  itself (`pricessent`);

and for each port a price, the number of flowlets charged to it (`prices_prt`). `LookupTimp`
handles a packet: it inspects one other slot of the table, found by a round robin, for expiry;
keeps the packet on its flowlet's port within 200us; and otherwise assigns the cheapest alternate
and advertises the new price upstream if it changed. `HandleUpdate` stores a received price and
may forward it. A TCP SYN for a local server advertises price 0.

**Links** (`timpsim.cc`). Point-to-point devices with a FIFO queue per direction, shared by data
and updates, which drops what does not fit into 1000 packets.

**Controller** (`dfs.cc`, `timp-global.cc`). Before traffic starts: for every destination, search
all loop-free paths up to a depth, sort them by length, keep each one that closes no cycle with
those kept before, derive routes, write `routes1.txt`, and install it record by record - a record
adds an alternate at one switch and a previous port at its neighbour.

**P4 switch** (`p4/timp.p4`, `p4/routingmeasuretimp.zip`). The same protocol as a v1model pipeline.
Registers replace the router's arrays. The pipeline cannot charge a port and choose by its price
in one pass, so a packet that starts or ends a flowlet is also copied to the recirculation port,
with a *local update* that changes the counters (`flows_local`) when it comes round; the packets in
between choose by the old ones. One multicast group makes both copies and route updates.

**Contra and Dash** (`ns3/contra/model/contra.cc`, `ns3/dash/model/dash.cc`). Every probe period a
switch sends a probe with a new version on its interfaces. A switch that receives one takes the
worse of the probe's metric and the utilisation of the port, drops old versions by three different
records, sets its forwarding table - one interface in Contra, every one of the round in Dash - and
passes the probe on.

**Interaction.** ns-3 runs one event handler at a time, and a P4 switch one packet, so a handler is
atomic; everything else interleaves: packets of many flows at different switches, updates crossing
packets and one another on different links, time passing between any two. The switches share no
state but what messages carry. The hard behaviours are therefore stale prices, decisions of several
switches that do not fit together, updates that trigger updates, lost or late messages, and long
legal sequences that make the charges of the ports drift. `PROJECT.json` lists these hazards line
by line.

Components, their operations and what makes each of them correct:

| component | state | operations | correct if |
|---|---|---|---|
| router | flow table, prices, round robin index | lookup, SYN, update, (interfaces up/down) | flowlets follow routes; charges bounded; told prices near the truth |
| network | routers, queues | send, receive, lose | no loop, updates climb the trees, cascade ends, packets arrive |
| controller | paths, routes, file, installed rows | search, select, write, install | installed routes acyclic and shortest ones complete; both ends agree |
| `Graph` | visited, recStack, the call stack | isCyclic | answers exactly whether there is a cycle |
| P4 switch | registers, recirculation queue | data, route update, local update, clock | charges match the flow tables up to lost releases, counters wrap only by those, flowlets keep their port |
| P4 network | switches, queues | send, receive | every packet gets through intact and once, what packets cause dies out |
| Contra, Dash | probe versions, forwarding table | probe generation, probe handling, (lookup) | newest round wins, no loop, a round reaches everybody |
| `Edge`, `Links` | coefficient matrices | set, get, reset | indices inside the matrix |
| `PriQ` | leftist heap with parent pointers | add, merge, delete, rmhead | heap order, leftist distances, no element lost |

## The modules

| module | models |
|---|---|
| `TimpRouter` | state of class `Timp`, every handler as an operator on it; no variables |
| `TimpSwitch` | one router in an arbitrary environment; its properties |
| `TimpNetwork` | routers connected by links, with hosts that send packets |
| `PacketDelivery` | abstract service: a packet moves along installed routes and arrives |
| `TimpControl` | path search, selection, route file, installation |
| `TimpCycle` | `Graph::isCyclic` step by step |
| `TimpP4` | registers and pipeline of the P4 switch, as operators; no variables |
| `TimpP4Switch` | one P4 switch in an arbitrary environment |
| `TimpP4Network` | P4 switches with links and recirculation queues |
| `P4Topology` | the cables, tables and multicast groups of the four switches in `routingmeasuretimp.zip` |
| `ProbeRouting` | the probes of Contra and Dash about one origin |
| `TimpRouterTheorems`, `TimpSwitchProofs` | lemmas on the router's handlers; theorems about `TimpSwitch` |
| `TimpNetworkProofs`, `TimpControlProofs`, `TimpCycleProofs`, `TimpP4SwitchProofs`, `TimpP4NetworkProofs`, `ProbeRoutingProofs` | theorems about the module they are named after |
| `MC...` | instances for TLC |

*Correspondence: router and network.* `TimpRouter!Lookup` is `LookupTimp` from line 451 on:
`CheckSecond` the round robin check (with the source's index mistake at line 463: the cleared time
is that of the packet's entry), `NextHop` the selection loop, `HitOutcome` and `MissOutcome` its two
endings. It is an operator from a router state to the resulting state, the output port and the
updates sent, so that a whole handler is one step. `TimpSwitch` and `TimpNetwork` have one action
per handler: `Packet`/`Inject`/`ReceiveData` (`RouteInput`), `LocalSyn`, `Update`/`ReceiveCost`
(`Receive`), `Tick` (the clock), `Lose` (the queue). `TimpNetwork` derives `Upstream` from the
routes as `Initialize` does.

*Correspondence: controller.* `TimpControl` has one action per destination, per path considered,
per kept path whose routes are added, for the file, and per record installed. In `TimpCycle` the
recursion of `isCyclicUtil` is a stack of (node, iterator) frames.

*Correspondence: P4.* `TimpP4!Outcome` is one pass through ingress and egress: `Heard` stores a
received price, `MinPort` is the cheapest port, `Scan` the round robin, `LookUp` the flow table,
`LocalUpdate` and `MinPrice` what the packet changes, `Ports` the multicast decision, `Copy` the
egress. The actions are `ReceiveData`, `ReceiveUpdate`, `ReceiveLocal` (`AfterLocal`) and `Tick`.
The model keeps what the code does, also where it was hardly meant:

- the address mask clears the bit that selects the table, so a lookup only ever uses table 2, and
  the round robin alone looks at table 1;
- `localUpdatePort3` has room for one expired entry; when a route update finds one in each table
  the second overwrites the first (with table 1 unused this cannot happen yet);
- a data packet reads the received prices at the `dst` of the update header it does not have, which
  may be any entry;
- a copy that carries only a local update is not stripped. A route update that meets an expired
  entry goes on as a route update with the local update's bits. A data packet leaves on every link of
  its group: clean on its outport, where the egress removes both updates, and on the others with the
  three bytes of the local update between tcp header and payload. Such a copy is routed like the
  packet but is no longer the packet: it is `Spoiled`, its field `intact` is false, and it does not
  count as delivered;
- a route update that is not multicast has no recirculated copy, so the release of the expired entry
  it met is lost (switch 1 has no group for updates about itself); and a route update is multicast
  by the group of the best port, so it may go back where it came from;
- the counters of a port are added to and subtracted from without a check, modulo 2^8
  (`PriceCount`), whatever they hold.

`TimpP4Switch` has one variable that the program lacks: `lost` counts, for each port and modulo
`PriceCount`, the releases that were lost in this way. No guard reads it; it is there to say what the
counters hold.

*Correspondence: probes.* `GenerateProbe` is the timer, `Receive` is `HandleUpdate` with the three
filters in the source's order (`IsFirst` and `AlreadyReceived` record the version before `Outdated`
may drop the probe), `Process` sets the table and `Receivers` is `sendcost`. The variable `routing`
says which of the protocols the simulation was started with.

*Abstractions.* Time is an age per entry, cut off at the timeout, since the code only compares
differences with it; an entry of the router with `flowtime` 0 is `Idle`. Flows are hash slots: which
packets collide is left open. Addresses, packet contents and the statistics counters are left out,
and TTL and checksums of the P4 program. The arrays of a router start at zero: the constructor does
not initialise them, but the object is larger than a megabyte and the allocator maps zero pages for
it. In `TimpControl` the nodes that stand for links are dropped, which changes neither paths nor
cycles, and depths are converted; the paths of a destination are the set the recursive search
yields, taken in any order of equal lengths. Prices of the router are unbounded integers: they count
flowlets, and stay far below the 32-bit range; those of the P4 switch wrap at `PriceCount`.
`TimpControl` installs every record, where the program keeps at most `ALTRT_MAX` (50) alternates to a
destination (`timp.cc` line 762), a cut that only a switch with more ports meets. Contra and Dash
keep a metric in 64 bits and pass it on in 32; the model leaves it whole. In
`ProbeRouting` version 0 stands for a missing entry (the counter starts at 1), the routes to
different origins are independent and one is modelled, and utilisations are any values.

## The runs

| run | instance | question |
|---|---|---|
| `switch` | 3 switches, this one is 1; 2 slots, 2 ports, timeout 1 tick, neighbours advertise 1 (their price is 0 until they do) | do flow table, charges and advertisements stay consistent? |
| `switch_flowlet_moves` | 2 switches, 3 slots, timeout 2 | fails: a packet inside the gap changes ports (finding) |
| `switch_repeats_forwarded` | same | fails: an update without news is forwarded (finding) |
| `network` | diamond 0-{1,2}-3 with cross link 1-2; 3 packets both ways, a SYN each way | loops? misdirected updates? do both ends of a route agree on the price? |
| `network_live` | triangle, 3 packets, any one message may be dropped | do loops stay impossible with stale prices, does the update cascade end, is every packet not dropped delivered? |
| `control` | all 38 connected topologies of 4 switches and a leaf-spine fabric of 5, destinations 0 and 1, search depth 5 nodes | acyclic, complete, mirrored routes for every sort order? |
| `cycle` | all graphs of 3 nodes, up to 3 list entries per node | right answer, termination |
| `probes` | ring of 2 leaves and 2 spines, 2 rounds, utilisations 0 and 1, 1 probe lost; both protocols | current tables, no loops, better routes only, every round everywhere? |
| `probes_late` | same, nothing lost | fails: a late probe makes a route worse (finding) |
| `p4_switch` | each of the four switches, 2 slots, counters modulo 4, timeout 1, 2 flows per destination | do the counters agree with the flow tables and the lost releases? do they wrap? do flowlets stay? |
| `p4_duplicates` | same | fails: a data packet leaves on two links (finding) |
| `p4_network` | the four switches with one slot, 3 packets of one flow from 1 to 2, 2 ticks of the clock | does each packet arrive intact, and once? does what packets cause die out? |

*Bounds: router.* `Bounds` in `MCTimpSwitch` limits port prices (-1..2) and the occupied entries
(3). With four slots in the rows of the two remote destinations, and one row that the round robin
visits and one that it does not, this covers every case distinction of the lookup: second entry
free, live, expired, of the same or the other destination, own entry free, live, expired; releases
at the right and at the wrong time; price ties. Adding a tick to the timeout or a third price
multiplies the states and meets no other branch. In the network runs every packet is sent at most
once, which bounds the prices; both packets of one flow and packets of different flows are present,
and a cross link gives an update for switch 0 a path of three hops.

*Bounds: controller.* Four switches give every shape of a small network: trees, rings, a full mesh,
with up to five paths per pair of switches, in every order the sort may leave equal lengths in. A
depth of 5 nodes lets paths of four switches through and cuts off those of five, which only the
fabric has; its switches are at most two links apart, so none loses its shortest routes. The 15
nodes of `timpsim.cc` cut off nothing in networks of this size.

*Bounds: P4.* Two slots with one flow each, and one flow whose hash has the highest bit, meet every
case of lookup and scan; a neighbour's price of 0 and port counters up to 3 give ties and
differences. `MaxPending` keeps the queue at the recirculation port finite: two local updates under
way are enough for charges and releases of one port to pass one another (a bound of 3 has been
checked too), and the proofs do not use the bound. Nothing bounds the counters but their width. The
program's 8 bits would take 256 lost releases to wrap; with `PriceCount` 4, against the 2 slots of the
table as 256 is against 128, TLC reaches the wrap at switch 1 (without its condition `NoWrap`
fails there, after 17 steps). The network run has the 8 bits. It lets a host send, and the clock tick,
only when nothing is under way (`MaxBacklog` 0), since every packet already causes a storm of
copies; a flowlet is new, live and expired in turn, and spoiled copies occur and are routed on.

*Bounds: probes.* The ring has two paths of equal length to every switch, so probes of one round
arrive out of order and meet; two rounds in which a link may be a round late, and one lost probe,
let all filters fire. Three rounds have been checked for the safety properties.

Deadlock checking is off for `control`, `cycle`, the probe runs and the P4 runs: the first two end,
in the others the bounds stop everything at last.

*Fairness.* Only runs with a liveness property assume any. `cycle`: the sequential code runs on (weak
fairness of `Next`). `network_live`: while messages are queued, some one of them is received
eventually - the event scheduler always runs the next arrival. `p4_network`: the same, written out
as "either the queues are empty again and again, or a step that takes a message happens again and
again", which is weak fairness of `Receive` without `ENABLED` of an action with many outcomes.
`probes`: the same for probes, and the origin's timer fires. Nothing is assumed about which queue,
about hosts or about the clock.

*What the failing runs show.*

- `switch_flowlet_moves`: `CheckSecond` clears the time of the wrong entry (line 463). So a flowlet
  loses its time stamp while its packets are less than 200us apart, and is then assigned anew
  without its old port being released, while the expired entry stays time-stamped, and its port is
  released again at the next visits of the round robin. The total charge survives this: every
  release through the round robin is paid for by a clearing, so that it stays between 0 and the
  number of occupied entries (`TotalChargeBounded`), but single ports drift, below zero too.
- `switch_repeats_forwarded`: `HandleUpdate` compares the last advertised price with a sum that is
  never advertised, and passes on the price it received rather than its own minimum; so it forwards
  updates that say nothing new.
- `probes_late`: `lastProbeVer` is written before the probe may be dropped (`contra.cc` line 674,
  `dash.cc` line 776). A probe of a past round that arrives late is dropped, but the next probe of
  the current round then counts as its first: it replaces Contra's route though it is worse, and
  clears Dash's table, so that a path of the round is forgotten. The two counterexamples have the same
  length and TLC reports either. `LoopFree` and `RoundsImprove` in the run `probes` except the histories in
  which some link was more than a round late; without the exception `LoopFree` fails as well, with
  two switches that route to each other.
- `p4_duplicates`: a data packet that starts a flowlet without a change of the advertised price is
  multicast for its local update, and the egress only strips copies of packets with a route update;
  it leaves on every link of the group, spoiled on all but its outport. `TimpP4Network!NotLost` and
  `OneIsIntact` show that the intact one always gets through and is never multiplied, `Settles` that
  the copies die out.

## What is proved

**Router** (`TimpSwitchProofs`; any number of switches, ports and slots, every timeout, all routes
and update ports; from `RouterAssumption`, `SwitchAssumption`):

- `TypeCorrect`: the type invariant, with the round robin index inside the table;
- `FlowletsFollowRoutesHolds`: flowlets are pinned to routes, and an entry with a time has a port;
- `AdvertisedPricesHold`: prices heard, sent and remembered are never negative;
- `ReassignmentIsToldHolds`: after a miss, what was told is between the best price and 2 above it.

- `TotalChargeHolds`: the ports together are charged for at least 0 flowlets, and for at most as many
  as entries hold one.

The inductive invariant `IInv` joins the type invariant and the two state properties. They need
each other: that an advertised price is not negative rests on `prices_nbr` not being negative
(`Price` is a maximum, so it is non-negative although `prices_prt` is not), and that a reassigned
entry keeps a routed port rests on the selection loop returning a port of the row. The work is in
`TimpRouterTheorems`: one lemma per operator of `TimpRouter` saying what it returns and preserves.

The total charge is a sum over ports that are as many as one likes. It is stated as the number of
*units* of positive prices less that of negative ones (`UnitsAbove`, `UnitsBelow`), so that charging a
port adds one unit or takes one away, and facts on cardinalities replace an induction over the ports.
`ChargeInv` adds to `IInv` that the units are finite and the bound itself; each handler is shown to be
*balanced* (`Balanced`): it leaves prices and held entries alone, or holds one more entry and charges
one port, or releases a price and charges another while the packet's entry ends up held.

**Network** (`TimpNetworkProofs`; every topology, packets, losses; from
`TopologyAssumption`, `RoutesAssumption`, `PacketAssumption`):

- `TypeCorrect`, `UpdatesGoUpTheTreeHolds`, `NoForwardingLoopHolds`: the inductive invariant says
  that every router satisfies the invariant of `TimpSwitchProofs`, that an update on a link runs
  against a route, and that a packet is on its way to a switch of a lower rank than all it left
  (`Nearer`). The last is what `NoForwardingLoop` lacks to be inductive: nothing about prices is
  needed, since every alternate lowers the rank.
- `HeardIsLastSentHolds`: added to the above, for every route the queue *leads* from the price the
  sender remembers to the one the receiver has stored (`Leads`). It is inductive because an update
  is remembered and sent in one handler, in FIFO order, to the ports that mirror the route; lemmas
  say what `Append`, `Head` and `Tail` do to `Leads`.
- `DeliverySteps`: every step of the network is a step of `PacketDelivery` or none, the safety half of
  `ImplementsDelivery`. It rests on `Once`: a packet is on one link, at one place of its queue, and
  then was sent and is not lost; without it `Whereabouts` would not be determined.

**Controller** (`TimpControlProofs`; every topology without parallel links, every depth, every list
of different destinations; from `ControlAssumption`):

- `TypeCorrect`, `InstalledAcyclicHolds`, `PreviousMirrorsAlternatesHolds`. The inductive invariant
  `IInv` says that a switch has at most one link per interface and neighbour (`GoodEnds`); that paths
  are loop-free and linked (`PathsInv`); that the routes of a destination, together with the kept
  paths whose routes are still to be added, form no cycle (`RoutesInv`: acyclicity of the routes
  alone would not survive `AddRoutes`); and that records and installed rows are among the routes,
  over links that exist (`FileInv`, `RowsInv`). A part of an acyclic set of edges is acyclic, so
  what is installed is, at every moment.
- `ShortestRoutesInstalledHolds`: distances are stated by the walks of the topology (`Walks`,
  `Hops`), not by the search. `ShortestInv` adds to `IInv` that kept paths are no longer than those
  still to come (`KeptFirst`), that the routes of a destination with the kept paths contain every
  shortest path already considered (`CoveredInv`), and that once the file is written every route is in
  it or installed (`FoundInv`). The step that matters is that a shortest path never closes a cycle
  with the paths kept before it (`ShortestCloses`). All its edges but the first belong to a shorter
  shortest path, which has been kept; and the first one closes no cycle, because no kept path leads
  into the path's first switch: being no longer, it would bring that switch nearer to the destination
  than it is (`NoWayBack`). That the selection goes by length is what makes this true.
- `RoutesAreRankedHolds`: the alternates installed so far leave on links, and there is a rank that
  each of them lowers, namely the number of switches that can be reached. This turns
  `InstalledAcyclic` into the form in which `TimpNetwork` uses it.

**Cycle detection** (`TimpCycleProofs`; every graph; from `GraphAssumption`): `TypeCorrect`,
`CorrectHolds`, `DoneIsAcyclicHolds`. The inductive invariant says that the frames are the nodes of
a path in the graph, all flagged and different; that what a frame has looked at is done, except the
node it is waiting for; and that done nodes lead only to done nodes and carry no cycle. A node
returns when all it leads to is done, so adding it closes no cycle among done nodes; a flagged
neighbour closes a cycle with the frames above it.

**P4 switch** (`TimpP4SwitchProofs`; all route tables, multicast groups, table sizes, timeouts; from
`P4Assumption`, `P4SwitchAssumption` and, for the last two, `RecirculationAssumption` and
`CounterAssumption`):

- `TypeCorrect`, with scan positions inside the tables and ports in every local update, and
  `FlowletKeepsPortHolds`, that no pass of any message moves a flow that is in use. The type invariant
  is inductive; the work is in the lemmas about the operators of `TimpP4`, down to the unbounded
  choice of a cheapest port.
- `ChargesMatchTableHolds`: a counter with the local updates under way holds, modulo `PriceCount`,
  the entries of its port and the releases that were lost; exactly the entries where the switch
  recirculates everything it may send (`Recirculates`: switches 2 to 4). `NoWrapHolds`: there, no
  counter wraps. At switch 1 it does in a long enough run, and the theorem does not cover it.
  Neither is inductive: what a counter will be when the queue of local updates has been applied says
  nothing about what it is after half of them. `ChargeInv` therefore looks at every prefix of the
  queue: where everything is recirculated, applying the first *n* local updates leaves each counter
  between 0 and `TableSize` (`NetBounded`); and everywhere, applying all of them leaves a `Surplus` over
  entries and lost releases that is a multiple of `PriceCount` (`TableCharged`). It is inductive because
  an update that releases a port is queued behind the one that charged it, and because only releases
  are ever lost. It also needs that table 1 is unused (`Table1Free`): two expired entries in one scan
  would share one release.

`RecirculationAssumption` says that every multicast group a data packet may use includes the
recirculation port. Without it charges of new flowlets could be lost. It leaves out messages about the
switch itself, which are route updates only: there the tables of `routingmeasuretimp.zip` violate it
(switch 1). `CounterAssumption` says that a counter can hold the entries of the one table in use, 128
of 256 in the program. TLC evaluates both.

**P4 network** (`TimpP4NetworkProofs`; every topology, tables and packets; from `P4Assumption`,
`P4NetworkAssumption`, `TablesAssumption`): `TypeCorrect`, `NotLostHolds` (an intact copy of every
packet sent has arrived or is under way) and `OneIsIntactHolds` (never two). They are inductive
together, with `delivered \subseteq injected`: an intact packet that leaves a queue is put on another
because the port read from the flow table or found by comparing prices is one of the alternates, and
the group that may replace that port holds it; and on no other link, because a copy elsewhere is a
route update or spoiled.
`TablesAssumption` says that alternates are links and are in their groups; TLC evaluates it for the
tables in `routingmeasuretimp.zip`. In `TypeCorrect` the case to look at is the unstripped copy of a
route update: it is read as an update about destination `port1 + 1`, and `port1` is 0 there.

**Probes** (`ProbeRoutingProofs`; every topology, metric, number of rounds and losses, both
protocols; from `ProbeAssumption`):

- `TypeCorrect`, `EntriesAreCurrentHolds`, `NextHopIsNoOlderHolds`. The inductive invariant
  (`Versions`) orders the records of versions: those of an interface and of the last probe are never
  ahead of the newest round of the switch, and neither is a probe ahead of its sender nor what was
  taken on an interface ahead of the neighbour there.
- `LoopFreeHolds`, `RoundsImproveHolds`. `RouteInv` adds that a switch that has heard a round has a
  route (`HasRoute`), and that a probe of a new version is the first of its round (`FirstIsNewer`: this
  is what a late probe destroys). For Contra, a switch has one route; no probe under way is better than
  the route of its sender (`SentNoBetter`), so within a round the metric of a route is at least that
  of its next hop (`Rising`). Metrics may be equal, so this alone does not exclude loops; that there is
  none is part of the invariant. A new route is taken for a newer round or for a strictly smaller
  metric; if it closed a loop, the switches on it that know a newer round, or that round with a smaller
  metric, than the switch had before would have been a loop already (`TookNoLoop`).
  For Dash, probes go from the origin to spines and from spines to other leaves (`DashInv`), so next
  hops cannot turn back.

*Only model-checked.* Everything that needs fairness (`Settles` of both networks, the liveness half of
`ImplementsDelivery`, `Terminates`, `RoundReachesAll`), which is out of the prover's reach. All
invariants and action properties of the passing runs are theorems.

*How the parts fit.* `TimpNetwork` takes from the controller that routes to a destination are
acyclic, as a rank (`RoutesAssumption`), and that update ports mirror routes (`Upstream`).
`RoutesAreRankedHolds` and `PreviousMirrorsAlternatesHolds` are where `TimpControl` provides them, and
`ShortestRoutesInstalled` gives every switch within the depth of the search a route; the constants of
the two modules are not identified formally. `TimpControl` in turn uses cycle detection by its
meaning; `TimpCycle!Correct` is what justifies it.

## Plan

Done: `TimpRouter`, `TimpSwitch`, `TimpNetwork`, `PacketDelivery`, `TimpControl`, `TimpCycle`,
`TimpP4` with `TimpP4Switch` and `TimpP4Network`, `ProbeRouting`, and the proofs above.

Left, in this order:

1. Interfaces of a router going down and up, if a simulation ever uses them.
2. The data lookup of Contra and Dash, which keeps flowlets as TIMP does.

## Not modelled

- *Generated bindings* (`ns3/modulegen__gcc_ILP32.py`, `ns3/modulegen__gcc_LP64.py`, 97% of the
  repository's Python): registrations of classes and methods for pybindgen, without any state of the
  protocols. The other Python programs and scripts parse and plot simulation output. All protocol
  logic is in C++ and P4, and that is what the modules stand for.
- *Parts of modelled components:* `NotifyInterfaceUp`/`Down` (no simulation changes an interface
  after the start), the longest prefix match of `getdstid`, packets a switch generates itself; the
  data lookups of Contra and Dash, the weighted random choice of Dash, a matter of probabilities, and
  Dash's removal of a path for packets with a ttl below 35, which two or three hops do not reach.
- *`PriQ`* was taken over from an OSPF implementation and is never called. Of *`Edge` and `Links`*
  only `reset()` is used; the coefficients are never read.
- *ns-2 patches* repeat the router as changes to ns-2 sources that are not in the repository.
- *The simulation scenario, helpers, statistics* and the *changed copies of ns-3 files* build
  topologies and traffic, count and print; none takes part in the protocols.
