# Verification of the intradomain routing protocols

TLA+ models of the routing program in `src/project3`: a discrete-event simulator in
which every router runs a link-state (LS) or a distance-vector (DV) protocol. The
models are checked with TLC on small instances. The shortest-path computation and what it
returns, the flooding of advertisements, the timers, the neighbours and the tables a router
keeps are proved correct with TLAPS for every network; that distance-vector routers never send
a packet round in a circle is proved for networks whose links only get faster.

## The system

| component | state | operations | interacts through |
|---|---|---|---|
| Simulator (`Simulator`, `Event`, `Node`, `Link`) | the clock, a heap of events, links (alive, delay, loss) | dispatch of the next event; links die, come up, change delay; transmission and loss; `set_alarm` | calls `recv` and `handle_alarm` of the routers; they call `send` and `set_alarm`, which push events |
| Router (`RoutingProtocolImpl`) | `portStatus`, `adjacencyList`, `forwardingTable` | `init`, PING and PONG, three alarms, forwarding of data | owns the tables the protocol below shares by pointer |
| Link state (`LinkState`) | `nodeTable`, `costTable`, `seqTable`, `seqNum` | `SendUpdates`, `HandlePacket`, `FloodUpdates`, `UpdateTable`, `FindNextHop`, `PortExpiredCheck`, `NodeTableExpiredCheck` | called by the router's handlers |
| Distance vector (`DistanceVector`, `dvUtils`) | `forwardingTable`: the next hop, cost and age of each route in use; `bigTable`: the cost over each neighbour that offers one | `sendUpdates` with poison reverse, `handleDVPacket`, `handleCostChange` on each PONG, two expiry checks | called by the router's handlers |
| Packet formats (`sharedUtils`) | none | `serializePacket`, `deserializePacket` | every packet between routers |
| Configuration parser (`Simulator::init`) | none | reads nodes, links and events | fills the simulator |

The program has one thread: `Simulator::run` takes the event of the least time, moves
the clock to it and calls its handler, which runs to the end. All the concurrency is in
the order of events: the heap compares times only, so events of one millisecond (the
alarms of all routers fall together) come in no particular order; packets on different
ways overtake one another, and do so on one link when its delay drops; links lose
packets, die and come back while packets are on their way; a router notices a dead link
only by the PONGs that do not come.

What makes each part correct:

* **shortest paths**: the loop of `UpdateTable` finds shortest paths whatever the hash
  tables' order, no stored cost wraps at 16 bits, the walk of `FindNextHop` ends;
* **simulator**: time does not run backwards, no event is lost or dispatched twice;
* **router**: alarms live for ever, a port is up only on a fresh PONG, the table of ports
  and the table of neighbours agree;
* **flooding**: a router only moves to newer advertisements, one number stands for one
  content, and nobody is left out;
* **distance vectors**: the two tables of a router agree, each cost in them is the sum of the
  link's and of what the neighbour said last, the routes in use are the best ones known, and
  no packet goes round in a circle;
* **routing**: when the network has been left alone, data takes the path of the least
  delay to every router that can be reached, and is dropped for the others; lost packets
  are made up for.

## Modules

| module | models | state and actions |
|---|---|---|
| `Costs` | costs, infinity, 16 bits, entries of a table | operators |
| `Dijkstra` | the pieces of `UpdateTable`: starting distances, choice of the next router, relaxation; the whole loop; `FindNextHop` | operators, no state |
| `UpdateTable` | `LinkState::UpdateTable` and `FindNextHop`, one iteration per step | `activeDistances`, `toVisit` and the tables are the code's variables; `Visit` is one iteration of the `while` loop, `StopVisiting` its exit, `NextDestination`/`Hop`/`WriteEntry` the last loop with the walk inside; `settledAt` and `tick` are history |
| `Wire` | what the LS format makes of a 16-bit field | operators |
| `Topology` | routers, links, ports (a link's index in the `link_vector` of a router is the number of the router's links on earlier lines), `link_table` | constants and operators |
| `Simulator` | clock, heap, links; `Event::dispatch` of the simulator's own events | `global_time`, `event_q` (a bag of event records), `link`, `losses` (for a bound); `LinkDie`, `LinkComeUp`, `ChangeDelay`, `Transmit`, `LosePacket`; `Dispatch` is one iteration of `run` |
| `RoutingProtocol` | the part of `RoutingProtocolImpl` that both protocols share: ports, PINGs, round-trip times, the lookup of a next hop | functions from the record of a router's tables to what a handler can leave |
| `LinkState` | every handler of a router under `P_LS` with the functions of `LinkState` it calls | as above, a set where the order of a hash table matters |
| `DistanceVector` | every handler of a router under `P_DV` with the functions of `DistanceVector`, `DVForwardingTable` and `DVBigTable` it calls | as above |
| `RouterNetwork` | routers in the simulator, whatever the protocol; the way a packet takes (`Way`), least delays (`TrueCost`), when a network has been left alone (`Settled`) | `router`; `Handle`, `RecvPing`, `PingPongAlarm` |
| `LSNetwork`, `DVNetwork` | `RouterNetwork` composed with one protocol | one action per event a router handles: `RecvPing`, `RecvPong`, `RecvLS` or `RecvDV`, `RecvData`, `XmitEndToEnd`, three alarms; `told` and `poisonedBy` in `DVNetwork` are history: the last finite cost each neighbour told of each destination, and what its last vector poisoned |
| `Flooding` | what flooding promises: numbered advertisements, heard in increasing order | abstract specification, implemented by `LSNetwork` (`ImplementsFlooding`) |
| `HopByHop` | what distance vectors promise while links only get faster: a router takes a route over a neighbour if that is cheaper, at no less than the neighbour has left to go | abstract specification, implemented by `DVNetwork` on such scripts (`ImplementsHopByHop`) |
| `DijkstraProofs` | lemmas about the operators of `Dijkstra`: relaxation, and the values of the two recursive ones | |
| `UpdateTableProofs` | theorems about `UpdateTable`: the invariants of its loops, what it returns, and that `Dijkstra` says the same at once | |
| `RouterNetworkProofs` | lemmas about `Simulator` and `RouterNetwork`, for both protocols: ports, the heap, packets on their way, PINGs and PONGs, alarms | |
| `LSNetworkProofs` | each handler of `LinkState` on its own; theorems about `LSNetwork`: time, sequence numbers, the refinement of `Flooding`, what an advertisement says and whom it reaches, alarms, ports, neighbours, advertised costs, types | |
| `DVNetworkProofs` | each handler of `DistanceVector` on its own; theorems about `DVNetwork`: types, time, alarms, the consistency of its tables | |
| `HopByHopProofs` | theorems about `HopByHop` | |
| `GettingFasterProofs` | theorems about `DVNetwork` while links only get faster: the refinement of `HopByHop`, no circles | |
| `NumberFacts` | facts about sets of natural numbers and their sizes | |
| `MCUpdateTable`, `MCLSNetwork`, `MCDVNetwork`, `MCDVNetworkFaster`, `Instances` | instances for TLC; the second of `DVNetwork` has the assumption that links only get faster | tables; topologies, scripts and orders of events for both protocols |

A handler runs to the end before the next event, so one action is one handler, with its
trailing `UpdateTable`, `SendUpdates` and flooding. `UpdateTable` appears twice: step
by step in `UpdateTable`, where its loops are the subject, and run to the end inside the
handlers of `LinkState`, from the same pieces; that the two agree is checked and proved
(`SameAtOnce`).

Abstractions. A packet is a record of what its handler reads. A router without an entry
in `costTable` has the empty entry: `NeedCostUpdated` and `UpdateTable` treat the two
alike. A destination without a next hop has no row in the model's `bigTable`, as every use of
it treats the empty row. Where several next hops are cheapest, `getBestRoute` takes any of
them, each time it is called; the code takes the one its hash table meets first, which need
not be the same after an insertion. The scripts of the DV runs have no paths that tie. The byte order conversions cancel and are left out; the widths are kept. Links
carry loss as tenths, because `rand() % 10` only takes ten values. Memory is left out
(packets leaked by `handleData` when no next hop is known, buffers that are copied).
Ids are at most 127, as in every configuration of `tests/`, which makes their low byte
the id. Sequence numbers are natural numbers: a router uses one per check, per update and per
PONG at most, and the 32 bits of `seqNum` last for decades of simulated time. `CharIsSigned` is TRUE, as on x86 and for the Darwin/arm64 binary in the repository;
where `char` is unsigned, costs of 256 and more are truncated instead of 128 and more.

The operators marked `BUG (mutant)` are variants of the definition below them with a
plausible bug. They are not used: putting one in the place of the definition makes the
property listed with it in `PROJECT.json` fail, which shows that the property sees that
part of the code.

## Runs

`tlc -config X.cfg M`; times are with two workers.

| run | cfg | question | distinct states |
|---|---|---|---|
| `paths` | `MCUpdateTable_paths` | is `UpdateTable` right on every network of four routers, with ties, links of cost 0 and sums past 65535, and does it always return? | 1 358 000, 2 min |
| `orders` | `MCLSNetwork_orders` | a line of three LS routers until after the first periodic updates, events of one time in every order | 18 000, 25 s |
| `failures` | `MCLSNetwork_failures` | LS: links of a triangle die, come back, change delay, advertisements overtake each other (40 scripts, `tests/test3` among them) | 117 000, 2.5 min |
| `losses` | `MCLSNetwork_losses` | LS: one packet of a line, any of the first 31 s, is lost, while nothing happens or the last router dies for good | 50 000, 2 min |
| `dv_failures` | `MCDVNetwork_failures` | DV: the failures of `failures`, and a vector that is overtaken by a newer one of other content (29 scripts) | 53 000, 45 s |
| `dv_getting_faster` | `MCDVNetworkFaster_faster` | DV: a delay drops before, while and after vectors are sent (18 scripts), until after the second periodic updates | 19 000, 1 min |
| `dv_losses` | `MCDVNetwork_losses` | DV: one packet of a triangle, any of the first 31 s, is lost | 16 000, 80 s |

What the less obvious properties say:

* `CorrectAtReturn` compares the result of `UpdateTable` with a reference definition
  (`LeastCosts`: Bellman's recursion on the number of links) that shares nothing with the loop.
* `SameAtOnce` compares it with the recursive operators `ShortestPaths` and `FindNextHop` of
  `Dijkstra`, which the handlers of `LinkState` use: the walk of the code, broken off by nothing,
  and theirs must end at the same neighbour whatever order the routers were visited in.
* `LeastDelayRoutes` and `Stabilizes` compare the way a data packet would really take, by
  `handleData` at each router and the links alive (`Route`), with the least delays of the
  real network (`TrueCost`).
* `DeadForgotten`: `UpdateTable` stamps every router as fresh, those it cannot reach too, so
  `NodeTableExpiredCheck` may never find a dead one; the neighbours' advertisements must give
  it away, with `costTable`. In `losses` that check does fire, for a router that is up: its
  advertisement is lost, its entry is 45 s old, it is forgotten and comes back (`Stabilizes`).
* `CostsAddUp` is what makes `handleCostChange` right: it adds differences to sums, and every
  place that changes a link's cost or a sum must leave them consistent. Every row, without
  exception, is the cost of the link now and the last *finite* cost the neighbour told. That is
  not the neighbour's last word where that was poison: `handleDVPacket` skips poison
  (`DistanceVector.cpp:111`) and the row stands, which `PoisonKept` and the run `dv_poison`
  are about.
* `CostsFit`: the sum of a link and a route is compared as an `int` but stored in 16 bits. Every
  row of `bigTable` is a finite cost, no less than the last finite one the neighbour told, so it was
  not cut, and it is not 0 (`NothingIsFree`): with a best route of 0 `handleDVPacket` would take
  poison for a route. One of 65534 or 65535 would count as none. It holds with the delays of the configurations, and would not where round trips add up
  to more than 65 s.
* `BestRouteKept`: the forwarding table has the best routes of `bigTable`. It is so at every moment
  where links only get faster (`dv_getting_faster`). In general a vector that makes a route dearer
  does not touch the forwarding table; the next PONGs must bring it up to date, and
  `BestRouteUsed` (`BestRouteKept` once `Settled`) says they have.
* `RoutesRenewed`: an entry of the forwarding table is renewed by PONGs of its best next hop.
  If one expired, its link would cost nothing in `adjacencyList`, but not in `bigTable`, and the
  next PONG would count it twice. The property says that the check never finds one. The
  scripts have no ties; where two routes of a router tie, `getBestRoute` may name, at each
  PONG, the one that goes over the other neighbour, and neither is renewed.
* `ImplementsHopByHop` and `NoCircles`: vectors carry no numbers, yet while links only get faster
  no router ever claims a route for less than its next hop has left to go, at any moment. It is not
  so when links fail: see `dv_one_failure`.
* `NoBadNews`: no vector that arrives takes back a route or makes it dearer. Where links only get
  faster, only a vector that was overtaken could, and with the scripts of `dv_getting_faster` none
  does. It is not true of every script whose delays only drop: on a line of three
  (`{ChangesTo(29990, 2, 3, 1), ChangesTo(30001, 1, 2, 1)}`) a vector sent before the link it
  crosses got faster is overtaken by a newer one, raises a route again, and breaks
  `ImplementsHopByHop`. That script is one of `dv_failures` (`OvertakenVectors`). On the triangle
  too it breaks `NoBadNews`, `BestRouteKept` and `ImplementsHopByHop` for some time; the tables stay
  consistent with each other, and the routes are the shortest again once the network has been left
  alone.

Bounds, and why they are enough:

* Four routers in `UpdateTable` are `me` and three others: enough for a path of two
  advertised links with a competing one, for ties, and for via links to form a cycle of
  two or three if they could. The proofs cover every size. Every link can cost 0 or 65534, every
  port 1 or 65533. Of the instances that differ only by the names of the others, one whose
  ports are sorted is taken (`SortedPorts`); all their names for the rest remain.
* Three routers in the networks give a line and a way round, the two shapes a message can
  meet. `dv_one_failure` has a ring of four, on which distance vectors first go wrong.
* `StopTime` bounds the runs, as `end` does in every configuration: 31 s takes in the first
  updates at 30 s; 111 s takes in a failure, its expiry after 15 to 16 s, the periodic
  updates after it and the return of the link; 85 s in `losses` leaves a lost update at 30 s,
  the expiry at 45 s and the updates at 60 s; 77 s in `dv_getting_faster` has two rounds of updates
  after the last drop, and is longer than the 45 s an entry of the forwarding table lives, so that
  `RoutesRenewed` says something.
* `SettleTime`, 47 s: 16 s until a dead port is found, 30 s until every router has
  advertised again, and the time of flight. With 17.5 s `LeastDelayRoutes` fails under LS:
  see the finding `rerouting`. In `dv_one_failure` it is 80 s, which shows that the
  circle stays.
* `TieRank`: `AnyOrder` dispatches simultaneous events in every order. `ByRouter` takes
  simultaneous events of different routers in the order of their ids, events at links
  first. Handlers of different routers read and write different tables and only add
  events, so their order does not change the state after all of them; within a router
  every order remains. `orders` needs no such bound, and checks the properties where
  the order matters.
* `MaxLosses` and `LossUntil`: one loss on live links, in the first 31 s; that includes
  every PING and PONG of four rounds, every triggered update and the first periodic ones. A
  link that is down loses everything, without bound.
* Scripts fall between alarms and on them (29990 is 10 ms before all of them). Those of
  `failures` cut router 3 off for good and for a while, kill each link before and after it is
  used for updates, and bring it back before and after it is missed.

`CHECK_DEADLOCK FALSE` everywhere: the simulator ends at `StopTime`, and the call of
`UpdateTable` returns.

Fairness. `FairSpec` is weak fairness of `Next` and nothing more: the main loop takes the
next event as long as there is one, and the loops of `UpdateTable` run on one thread.
Losses are bounded, never fair or unfair. `Stabilizes` is `<>[]`, up to the end of the run.

### Disagreements with the documentation

Five runs end in a counterexample; the texts they contradict are quoted in
`PROJECT.json`.

* `truncated_costs`: `serializePacket` reads LS costs through one `char`. With default
  delays (100 ms, round trip 200) a cost is advertised as 65480.
* `data_while_cut_off`: destinations that cannot be reached get a next hop too, and looking it
  up for a data packet makes a neighbour of it, at port 0 and no cost, which is advertised and
  never removed: after the link is back the destination remains unreachable. (Before that, on
  a line, the packet itself goes round in a circle between the two routers that are left.)
* `rerouting`: a dead link is taken for a dead router; until the third router advertises
  again, up to 30 s, the two ends cannot reach each other over it.
* `dv_poison`: a poisoned route is stored only if the best route costs 0, that is never.
* `dv_one_failure`: what follows from it. When a router turns to a neighbour for a
  destination, that neighbour skips the poison, keeps the finite cost it was told before, and
  falls back on it if it is the cheaper one: one link of a ring dies, and two routers
  send packets to each other for ever, renewing the route with each PONG.

`failures` and `dv_failures` show that on a triangle, without data sent to unreachable routers
and with delays below 64 ms, these do not bite once 47 s have passed.

Two more cases can be seen by giving a run other values from `Instances`. With `TwoLinks` and
`TwinFailure`, two routers joined by two links lose each other when one of them dies, under
both protocols: the check that finds the dead port forgets the neighbour, every second
again (`ReroutesOnceDetected`, `LeastDelayRoutes`). With `FarTriangle`, whose round-trip
times fit 16 bits while their sums do not, `bigTable` takes a way of 68000 for one of
2464, and packets circle on links that never change (`NoCircles`). With `Ring` and
`Partition`, the events of `tests/test4`, DV routes are right 35 s after the ring is whole
again, although packets circle while it is parted (`UnreachableDropped`).

## Proofs

All proofs hold for every set of routers with ids up to 127, every set of links between them
(parallel ones included), every `[events]` section, loss rate, bound of a run and order of
simultaneous events. The assumptions say what the parser accepts: `RouterAssumption`,
`LinksAssumption`, `ScriptsAssumption`, `SimulatorAssumption`, `SettleAssumption`, and
`CharAssumption` (`char` is signed or not); in `UpdateTable`, `MeAssumption` (this router is one
of them), `InputAssumption` (tables are maps from routers to 16-bit costs) and
`RoutersAssumption` (there are finitely many routers). `INFINITY_COST` is kept opaque,
known only as the greatest cost. The theorems of `GettingFasterProofs` assume `OnlyFaster(D)` of
the configuration, besides, and `RoutesRenewed` and `NoBadNews` of the behaviour; TLC evaluates
the first of the instance, and checks the other two in the run that checks the conclusions.

| theorem | property | holds |
|---|---|---|
| `UpdateTableProofs`: `TypeCorrect`, `VisitsInOrder`, `CostsAreOfPaths`, `PathsAreShortest`, `ViaTree`, `NextHops`, `WalkGoesDown` | `TypeOK`, `ClosestFirst`, `PathBacked`, `NoShortcut`, `ViaVisitedBefore`, `NextHopIsNeighbour`, `WalkDescends` | always |
| `UpdateTableProofs`: `ShortestAtReturn`, `LoopsAsOneStep` | `CorrectAtReturn`, `SameAtOnce` | always |
| `LSNetworkProofs`: `TablesWellFormed`, `ClockMovesForward`, `NumbersFromOrigin`, `FloodingImplemented` | `TypeOK`, `NoEventInThePast`, `SeqFromOrigin`, `ImplementsFlooding` | always |
| `LSNetworkProofs`: `ContentIsUnique`, `NobodyLeftOut` | `OneContentPerSeq`, `FloodingCovers` | always |
| `LSNetworkProofs`: `AlarmsKeepRinging`, `SilentPortsGoDown` | `OneAlarmEach`, `UpPortsFresh` | always |
| `LSNetworkProofs`: `NeighboursAgree` | `AdjacencyBacked` | until `forwardTo` makes up a neighbour |
| `LSNetworkProofs`: `AdvertisedFinite` | `AdvertisedCostsFinite` | if no delay exceeds 32767 ms |
| `DVNetworkProofs`: `TablesWellFormed`, `ClockMovesForward`, `AlarmsKeepRinging` | `TypeOK`, `NoEventInThePast`, `OneAlarmEach` | always |
| `DVNetworkProofs`: `BigTableAddsUp` | `CostsAddUp` | while no entry expires (`RoutesRenewed`) and no row is free (`NothingIsFree`) |
| `DVNetworkProofs`: `TablesStayTogether` | `TablesAgree` | while, besides, no sum is cut (`CostsFit`) |
| `GettingFasterProofs`: `FasterRoutesFit`, `FasterRoutesAreBest`, `FasterImplementsHopByHop`, `FasterNeverCircles` | `CostsFit`, `BestRouteKept`, `ImplementsHopByHop`, `NoCircles` | if delays only drop (`OnlyFaster`), while no entry expires (`RoutesRenewed`) and no vector is bad news (`NoBadNews`) |
| `HopByHopProofs`: `RoutesStayBacked`, `NeverACircle`, `NeverTooCheap` | `RoutesBacked`, `NoTrap`, `NotTooCheap` of `HopByHop` | always, if links cost at least 1 |

### Shortest paths

The invariants of the run `paths` are not inductive one by one. `ClosestFirst` needs that
relaxation only touches routers still to visit and only makes them cheaper (`RelaxFacts`), and
that the chosen router is closest; `NoShortcut` then needs `ClosestFirst`, since a visited router
must never get cheaper. `ViaVisitedBefore` needs `Ticks`: the numbers given to visits are
exactly those of the visited routers, in order. `NextHopIsNeighbour` needs `WalkCheaper`:
the walk never gets more expensive, so it ends at a neighbour that is no further away.
`IInv` is their conjunction; `StepInv` has one step per action, `VisitInv` takes the one
that changes the distances. Each step of the walk lowers a number between 0 and the number of
routers (`WalkGoesDown`), so it ends; that last conclusion, and termination under fairness
(`Terminates`), is left to TLC.

`ShortestAtReturn` needs more than `IInv` keeps: `ReturnInv` adds that every destination has a first
router on the path found to it, from which the walk never strays (`WalkLeadsBack`), that what is
written is that router and the cost found (`Written`), and that visits are counted (`Bounded`). What
is left is a comparison of two definitions. `LeastCosts` is recursive, and no induction over data is to be had from
the library's theorems; `CountUp` (a set that holds 0 and all successors holds all numbers), with
the set of the numbers for which the claim holds, takes its place, and the function that
`LeastCosts` is defined by is shown to exist as the union of its beginnings (`UptoExists`,
`UptoUnique`). Bellman's costs are then bounded from both sides. No iterate is ever below the
distances found, which are a fixed point (`NeverBelow`, from `NoShortcut`). And the distance of
each visited router is among the iterates after as many links as routers were visited before it
(`FoundToo`, from `PathBacked` and `Ticks`), which are fewer than there are routers.

`LoopsAsOneStep` compares the loops with the recursive functions inside `ShortestPaths` and
`FindNextHop`. `OnTheWay` says that what the loop may still end with, by that recursion, is part of
what it may have ended with from the start; the next hops are those of `ReturnInv`. That the two
recursive functions exist, and have the values their recursion says, is proved in `DijkstraProofs`
(`LoopFinishes`, from the runs of the loop, each of which ends because it takes a router out of
`toVisit` every time; `WalkEnds`, because the via links form a tree, `VisitsTree`).

### The simulator and what is common to routers

`SimInv` says that every pending event is due now or later and goes to a port its router has,
behind which is the link the packet is on (`EventFits`). It is needed whole: a delay must
be a natural number for time to move forward, and a data packet may be sent to port 0 of a
router by an entry of `adjacencyList` that looking it up has made, so that every router must
have a port 0 (`PortZero`). Different links of a router are behind different ports
(`PortUnique`), so a packet on its way names its sender. `OneAlarmEach` counts copies in the
heap (`DispatchCopies`): the alarm that rings is the only one of its kind, so popping it and
setting it again leaves one. `ProbesOK` and `ProbesInTime` follow PINGs and PONGs: every stamp is
of the past, and no older than the way it has come.

### Link state

The argument has two layers. Of each handler, alone: an outcome either issues at most one
advertisement, with the number it uses up (`Own`; `SendUpdates` runs at most once in a
handler), or ignores an advertisement (`Ignores`), or takes and passes on one with a higher
number (`Takes`), and either way the tables keep their shape (`IsRouter`). Of the network:
`NetInv` is `SimInv` and that what is on its way has been issued, and that whoever put it on the
link issued it or had heard it. A step of a router is then one step of `Flooding` or none
(`NextFlooding`).

`OneContentPerSeq` is inductive with `NetInv`: a new number is larger than every one that has been
heard or is on its way (`SeqFromOrigin`), a copy that is passed on is the one that arrived, and
the expiry of tables only takes links away from what a number stands for. `FloodingCovers` is
inductive too: a router that gets ahead of a neighbour on some origin passes the advertisement on
to every port but the one it came from, and the router behind that one has it, as it issued it
or had heard it.

`UpPortsFresh` needs that a check is on its way. `TimerInv` adds `OneAlarmEach` and
`ChecksTimely`, that the pending check of a router comes no more than 16 s after the last PONG of
each port that is up. The check takes down what is older than 15 s and comes again in one; a
PONG starts 15 s again.

`AdjacencyBacked` is not true of every network: a data packet for a next hop that is not a
neighbour makes one up, at port 0 and no cost (finding `data_while_cut_off`). `Neighbours` is
what is inductive: every entry is either that one (`MadeUp`) or backed by a port that is up. An
expired port takes its neighbour away; a PONG over another link to the same neighbour writes the
entry anew. `AdvertisedCostsFinite` follows from `CostsWithin`: no PONG measures more than two
crossings of a link. The bound is tight: a link whose delay changes from 32767 to 32768
ms can show a round trip of 65535 ms, which is the infinite cost.

`TypeOK` is the conjunction of the types of one router's tables (`Typed`), with the links on their
way (`LinksTold`). Each handler keeps them (`HandledTyped`); the one thing that is not a matter of
its assignments is that a next hop is a router, and not this one, which is what `FindNextHop`
ends at (`PathsFound` of `DijkstraProofs`).

### Distance vectors

`DVInv` has the types of all tables and vectors, `SimInv`, `ProbesOK`, and that a vector on its
way was sent by the router it names (`VectorsOK`), from which follows that what a
router has heard of a neighbour never has the neighbour itself in it.

`AddsUp` is `CostsAddUp` of a router with two facts that make it inductive: a neighbour
over which `bigTable` has no row to itself costs nothing in `adjacencyList` (it was made by a
vector that came before the first PONG, or its port expired), and every row over a neighbour is
of a destination it has named at a finite cost. Poison that is skipped changes neither the row nor
that cost. It is stored only if the best route costs 0, and then a row is infinite that no
finite cost accounts for: hence the hypothesis `NothingIsFree`. So a PONG, which adds the change of the link to all rows over it,
finds them at the cost it replaces; 16-bit sums keep adding up because all of it is
modulo 65536 (`AsCostFacts`). The other place that breaks it is
`dvEntryExpiredCheck`, which forgets the cost of a link but not of the rows over it: hence
`RoutesRenewed`.

`Agree` is `TablesAgree` of a router. A vector is compared with the forwarding table before its
costs are cut to 16 bits, and stored after that: if the sum does not fit, `bigTable` gets a row and
the forwarding table none. Poison is stored where the best route costs 0. `CostsFit`, which contains
`NothingIsFree`, excludes both, and best routes that count as none; it is assumed of the states before and after a
step, not proved, because it depends on the delays and on how far routers count up. Of
every handler there is one lemma that it keeps all three (`Follows`); `StepFollows` puts
them together.

### Hop by hop

Here the invariant is inductive with the types alone, because it compares a route with what
its next hop has *now*: improving a route, or a link, only lowers the right-hand side of
those that use it. `NoTrap` (no set of routers passes packets for somebody outside it only
among themselves) follows without induction on the length of a path: in such a set the router
with the least to go (`LeastExists`) hands packets to one with less. `NotTooCheap` (no route
costs less than any bound that the links respect) takes the cheapest of the routes that are too
cheap in the same way. Links that cost nothing would break the first argument, and so they do
in the program, whose delays may be 0: that is an assumption of `HopByHop` (`IsCosts`).

### Distance vectors while links only get faster

`GettingFasterProofs` shows that `DVNetwork` implements `HopByHop` where configurations only ever
lower delays. It explains a part of the design (distance vectors need neither numbers nor poison as
long as nothing gets worse) and puts the findings where they belong: failures and dearer links.

What has to be shown is that a router never claims less for a route than the real link and what the
next hop has left to go *now*, although it goes by a measurement of the link that is up to 10 s old
and by a vector that was under way. Both are of the past, and in the past both were greater. So
`FasterInv` follows everything a cost can be in: links are no slower than configured and have only
scheduled changes that lower them (`LinksFaster`, `ChangesFaster`); a PING or PONG on its way has
been under way for at least as long as its link takes now, and so a port and `adjacencyList` never
say less than a round trip over the link as it is; a vector on its way, and what was heard last,
say no less than their sender has left to go; every row of `bigTable`, and with it every route, is
backed by its next hop. Two more parts keep the sums in 16 bits and the tables together: no cost of a
route exceeds twice `D` for each of the routers it may pass, and the forwarding table has the best of
`bigTable` at every moment, so that a poisoned route is always one that would not be used.

The hypotheses, and why each is needed:

* `OnlyFaster(D)`: one link between two routers, no losses, delays between 1 and `D`, whose sum over all
  routers fits 16 bits, and changes that lower a delay after the first PING has crossed the link and
  come back. Before that, a cost in `adjacencyList` may be the 0 of a neighbour not measured yet. The
  delays of the configurations in `tests/` are far below the bound.
* `RoutesRenewed`: an entry that expired would forget the cost of its link (see `CostsAddUp`). It is
  not true of every such network: of two routes that tie, neither may be renewed.
* `NoBadNews`: a vector that takes a route back, or makes it dearer, leaves the forwarding table as it
  is until the next PONG. Only a vector that was overtaken by a newer one can do so, when a delay drops
  while it is on its way; the script above shows that then `ImplementsHopByHop` fails.

The last two speak of the behaviour and not of the configuration; `dv_getting_faster` checks them
together with what the theorems conclude, so they are met. `FasterNeverCircles` takes the argument of
`NoTrap` to the ports that data is sent on and the links alive there: of any set of routers,
the one with the least to go hands packets to its next hop, which has less.

### Only model-checked

* Liveness (`Terminates`, `Stabilizes`): out of the prover's reach.
* `LeastDelayRoutes`, `UnreachableDropped`, `DeadForgotten`: they say what is so after some time of
  quiet, a bounded form of liveness, which would need to be followed from timer to timer through a
  whole network. They are not true of every network besides (see the findings).
* `BestRouteUsed` and `NoCircles` where links fail: the first is of the same kind, and proved as
  `BestRouteKept`, at every moment, where links only get faster; the second is false there
  (`dv_one_failure`), and proved where links only get faster.
* `RoutesRenewed`, `NoBadNews` and `CostsFit` are not true of every network (ties; overtaken vectors;
  long delays); they are hypotheses of theorems, and the runs `dv_failures` and `dv_getting_faster`
  show that they hold, together with what is concluded from them. `CostsFit`, and
  `NothingIsFree` with it, is proved where links only get faster.

## Not modelled

* The text of configurations: `Simulator::init` scans a file; what it makes of it (links,
  ports, queued events) is modelled, the scanning is input parsing.
* Byte layouts: headers and byte order conversions cancel between sender and receiver. What
  does not (the LS costs) is modelled.
* Printing: `VariadicTable`, `verbose`, `printTable`. It has no state of the protocols.
* Allocation: packets that `handleData` leaks, buffers that are copied.
* `Link`, `Node` and `Event` objects as objects: constructors, destructors and virtual calls.

## Plan

1. (done) `Dijkstra`, `UpdateTable` with proofs; `Simulator`, `LinkState`, `LSNetwork`;
   `Flooding` as abstract specification.
2. (done) `DistanceVector`, `DVNetwork` on the same `Simulator`, with failures, delays that
   drop while vectors are on their way, lost packets, poison; `HopByHop` as abstract
   specification, with proofs.
3. (done) Routers that die far away, entries that expire although their router is up, a ring
   of four.
4. (done) Proofs about `LSNetwork`: time, sequence numbers, the refinement of `Flooding`,
   alarms and the age of ports, the content and the reach of advertisements, neighbours and
   advertised costs.
5. (done) Proofs about `DVNetwork`: types, time, alarms, `CostsAddUp` and `TablesAgree` with the
   hypotheses they need.
6. (done) What `UpdateTable` returns, and that its loops are the one step `LinkState` takes them for;
   types of `LSNetwork`; that `DVNetwork` implements `HopByHop`, and never sends packets round in a
   circle, while links only get faster.
7. Open: `NoBadNews` follows from the order of vectors on one link; where no delay drops by more than
   the time between two vectors, it could be proved from the configuration. A bound on the time
   until `LeastDelayRoutes` holds after a quiet moment would have to be followed through the timers.
