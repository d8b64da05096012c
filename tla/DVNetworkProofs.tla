-------------------------- MODULE DVNetworkProofs ---------------------------
(***************************************************************************)
(* What holds of a distance-vector network whatever its routers, its       *)
(* links, its [events] section and the bounds of a run: every table is     *)
(* well formed, however often 16-bit costs wrap; and as long as no entry   *)
(* of a forwarding table expires, every cost in bigTable is that of the    *)
(* link and the vector it comes from, and, as long as no sum wraps, the    *)
(* two tables have the same destinations.                                  *)
(***************************************************************************)
EXTENDS RouterNetworkProofs, DVNetwork

-----------------------------------------------------------------------------
\* Costs.

\* A cost is itself, and changes add up although each is cut to 16 bits.
LEMMA AsCostFacts ==
  /\ \A c \in Cost : AsCost(c) = c
  /\ \A i, k \in Int : AsCost(AsCost(i) + k) = AsCost(i + k)
<1>1. ASSUME NEW m \in Int
      PROVE  /\ m % 65536 \in Int /\ 0 <= m % 65536 /\ m % 65536 < 65536
             /\ m \div 65536 \in Int
             /\ m = 65536 * (m \div 65536) + (m % 65536)
  BY SMT
<1>2. ASSUME NEW i \in Int, NEW k \in Int, NEW a \in Int, NEW b \in Int, NEW c \in Int,
             NEW p \in Int, NEW q \in Int, NEW r \in Int,
             i = 65536 * q + a, i + k = 65536 * p + b, a + k = 65536 * r + c,
             0 <= b, b < 65536, 0 <= c, c < 65536
      PROVE  c = b
  BY <1>2, SMT
<1>3. ASSUME NEW i \in Int, NEW k \in Int
      PROVE  ((i % 65536) + k) % 65536 = (i + k) % 65536
  <2>1. i % 65536 \in Int /\ (i % 65536) + k \in Int /\ i + k \in Int
    BY <1>1, SMT
  <2> QED
    BY <1>1, <1>2, <2>1, SMT
<1>4. ASSUME NEW c \in Nat, c <= 65535 PROVE c % 65536 = c
  BY <1>4
<1> QED
  BY <1>3, <1>4, CostRange DEF AsCost

\* A sum that is no less than one of its parts when it is cut to 16 bits was not cut.
LEMMA NotCut ==
  ASSUME NEW c \in Cost, NEW v \in Cost, v <= AsCost(c + v), AsCost(c + v) < NoRoute
  PROVE  c + v < INFINITY_COST
<1>1. c \in Nat /\ c <= 65535 /\ v \in Nat /\ v <= 65535
  BY CostRange
<1>2. CASE c + v <= 65535
  <2>1. AsCost(c + v) = c + v
    BY <1>1, <1>2 DEF AsCost
  <2> QED
    BY <1>1, <2>1 DEF NoRoute, INFINITY_COST
<1>3. CASE c + v > 65535
  <2>1. AsCost(c + v) = c + v - 65536
    BY <1>1, <1>3 DEF AsCost
  <2> QED
    BY <1>1, <2>1
<1> QED
  BY <1>1, <1>2, <1>3

LEMMA CostNumbers ==
  /\ Cost \subseteq Nat /\ 0 \in Cost /\ INFINITY_COST \in Cost /\ NoRoute \in Cost
  /\ \A c \in Cost : c \in Nat /\ c \in Int /\ c <= INFINITY_COST
  /\ \A i \in Nat : i < INFINITY_COST => i \in Cost
<1>1. \A c \in Cost : c \in Nat /\ c <= INFINITY_COST
  BY DEF Cost
<1>2. \A i \in Nat : i <= INFINITY_COST => i \in Cost
  BY DEF Cost
<1>3. 0 \in Nat /\ INFINITY_COST \in Nat /\ NoRoute \in Nat /\ NoRoute < INFINITY_COST
  BY DEF INFINITY_COST, NoRoute
<1> HIDE DEF INFINITY_COST
<1> QED
  BY <1>1, <1>2, <1>3

-----------------------------------------------------------------------------
\* The state of a router.

RouterFields == {"id", "portStatus", "adjacencyList", "forwardingTable", "bigTable"}

Others(r)          == Router \ {r}
PortEntry(now)     == [destRouterID : Router, isUp : BOOLEAN, lastUpdate : 0 .. now, timeCost : Cost]
NeighbourEntry(r)  == [port : Ports[r], timeCost : Cost]
RouteEntry(r, now) == [nextHop : NextHop(r), routeCost : Cost, lastUpdate : 0 .. now]

\* What the handlers need of the state of router r at time now, and keep.
IsRouter(s, r, now) ==
  /\ DOMAIN s = RouterFields /\ s.id = r
  /\ IsMap(s.portStatus, Ports[r], PortEntry(now))
  /\ \A p \in DOMAIN s.portStatus : s.portStatus[p].destRouterID # r
  /\ IsMap(s.adjacencyList, NextHop(r), NeighbourEntry(r))
  /\ IsMap(s.forwardingTable, Others(r), RouteEntry(r, now))
  /\ IsMap(s.bigTable, Others(r) \X Others(r), Cost)

\* Time passes.
LEMMA RouterLater ==
  ASSUME NEW s, NEW r, NEW now \in Nat, NEW later \in Nat, now <= later, IsRouter(s, r, now)
  PROVE  IsRouter(s, r, later)
<1>1. PortEntry(now) \subseteq PortEntry(later)
  BY DEF PortEntry
<1>2. RouteEntry(r, now) \subseteq RouteEntry(r, later)
  BY DEF RouteEntry
<1> QED
  BY <1>1, <1>2 DEF IsRouter, IsMap

\* A vector that router n sends.
IsVector(pkt, n) ==
  /\ pkt.type = "DV" /\ pkt.sourceID = n
  /\ IsMap(pkt.routes, Others(n), Cost)

\* What router r may put out when it handles e.
Sends(e, r, out) ==
  /\ \A m \in out : /\ m.port \in Ports[r]
                    /\ m.pkt.type = "DV" => IsVector(m.pkt, r)
  /\ ProbesSent(e, r, out)

\* What it does when it sends its vector.
LEMMA SendUpdatesSends ==
  ASSUME NEW r \in Router, NEW s, NEW now, IsRouter(s, r, now), NEW e
  PROVE  Sends(e, r, sendUpdates(s))
<1>1. ASSUME NEW nbr PROVE IsVector(createDVPacket(s, nbr), r)
  <2>1. \A d \in DOMAIN s.forwardingTable : d \in Others(r) /\ s.forwardingTable[d].routeCost \in Cost
    BY DEF IsRouter, IsMap, RouteEntry
  <2> QED
    BY <2>1, CostNumbers DEF IsVector, createDVPacket, IsMap, IsRouter
<1>2. \A m \in sendUpdates(s) : /\ m.port \in DOMAIN s.portStatus
                               /\ \E nbr : m.pkt = createDVPacket(s, nbr)
  BY DEF sendUpdates, UpPorts, To
<1>3. \A m \in sendUpdates(s) : m.port \in Ports[r] /\ IsVector(m.pkt, r)
  BY <1>1, <1>2 DEF IsRouter, IsMap
<1> QED
  BY <1>3 DEF Sends, ProbesSent, IsVector

-----------------------------------------------------------------------------
\* Next hops.

LEMMA ZeroIsNoRouter == 0 \notin Router
BY RouterAssumption

\* The rows of a table of rows, by destination and by next hop.
LEMMA RowFacts ==
  ASSUME NEW S, NEW big, DOMAIN big \subseteq S \X S
  PROVE  /\ \A d, n : d \in DestsOver(big, n) <=> <<d, n>> \in DOMAIN big
         /\ \A d, n : n \in NextHops(big, d) <=> <<d, n>> \in DOMAIN big
         /\ \A d : d \in {x[1] : x \in DOMAIN big} <=> \E n \in S : <<d, n>> \in DOMAIN big
         /\ \A x \in DOMAIN big : x = <<x[1], x[2]>> /\ x[1] \in S /\ x[2] \in S
<1>1. \A x \in DOMAIN big : x = <<x[1], x[2]>> /\ x[1] \in S /\ x[2] \in S
  OBVIOUS
<1>2. \A d, n : <<d, n>>[1] = d /\ <<d, n>>[2] = n
  OBVIOUS
<1>3. \A d, n : d \in DestsOver(big, n) <=> \E x \in DOMAIN big : x[1] = d /\ x[2] = n
  BY DEF DestsOver
<1>4. \A d, n : n \in NextHops(big, d) <=> \E x \in DOMAIN big : x[1] = d /\ x[2] = n
  BY DEF NextHops
<1>5. \A d, n : (\E x \in DOMAIN big : x[1] = d /\ x[2] = n) <=> <<d, n>> \in DOMAIN big
  BY <1>1, <1>2
<1>6. \A d : d \in {x[1] : x \in DOMAIN big} <=> \E n \in S : <<d, n>> \in DOMAIN big
  <2>1. \A d : d \in {x[1] : x \in DOMAIN big} <=> \E x \in DOMAIN big : x[1] = d
    BY Zenon
  <2>2. ASSUME NEW d, NEW x \in DOMAIN big, x[1] = d
        PROVE  \E n \in S : <<d, n>> \in DOMAIN big
    <3>1. x = <<d, x[2]>> /\ x[2] \in S
      BY <1>1, <2>2
    <3> QED
      BY <3>1
  <2>3. ASSUME NEW d, NEW n, <<d, n>> \in DOMAIN big
        PROVE  \E x \in DOMAIN big : x[1] = d
    BY <1>2, <2>3
  <2> QED
    BY <2>1, <2>2, <2>3, Zenon
<1>7. ASSUME NEW d, NEW n PROVE d \in DestsOver(big, n) <=> <<d, n>> \in DOMAIN big
  BY <1>3, <1>5
<1>8. ASSUME NEW d, NEW n PROVE n \in NextHops(big, d) <=> <<d, n>> \in DOMAIN big
  BY <1>4, <1>5
<1> QED
  BY <1>1, <1>6, <1>7, <1>8, Zenon

\* A best route is a row, or next hop 0.
LEMMA BestRouteCases ==
  ASSUME NEW big, NEW d, NEW b \in getBestRoute(big, d)
  PROVE  \/ b.nextHop = 0 /\ b.routeCost \in {NoRoute, INFINITY_COST}
         \/ b.nextHop \in NextHops(big, d) /\ b.routeCost = big[<<d, b.nextHop>>]
<1> DEFINE hops  == NextHops(big, d)
           least == {h \in hops : /\ big[<<d, h>>] < INFINITY_COST
                                  /\ \A g \in hops : big[<<d, h>>] <= big[<<d, g>>]}
<1>1. CASE hops = {}
  BY <1>1 DEF getBestRoute
<1>2. CASE hops # {} /\ least = {}
  BY <1>2 DEF getBestRoute
<1>3. CASE hops # {} /\ least # {}
  <2>1. getBestRoute(big, d) = {[nextHop |-> h, routeCost |-> big[<<d, h>>]] : h \in least}
    BY <1>3 DEF getBestRoute
  <2>2. PICK h \in least : b = [nextHop |-> h, routeCost |-> big[<<d, h>>]]
    BY <2>1
  <2> QED
    BY <2>2
<1> QED
  BY <1>1, <1>2, <1>3

LEMMA BestRouteFacts ==
  ASSUME NEW r \in Router, NEW big, IsMap(big, Others(r) \X Others(r), Cost),
         NEW d, NEW b \in getBestRoute(big, d)
  PROVE  /\ b.nextHop \in NextHop(r) /\ b.routeCost \in Cost
         /\ b.nextHop # 0 => <<d, b.nextHop>> \in DOMAIN big
<1>1. DOMAIN big \subseteq Others(r) \X Others(r) /\ \A x \in DOMAIN big : big[x] \in Cost
  BY DEF IsMap
<1>2. \/ b.nextHop = 0 /\ b.routeCost \in {NoRoute, INFINITY_COST}
      \/ b.nextHop \in NextHops(big, d) /\ b.routeCost = big[<<d, b.nextHop>>]
  BY BestRouteCases
<1>3. CASE b.nextHop = 0 /\ b.routeCost \in {NoRoute, INFINITY_COST}
  BY <1>3, CostNumbers DEF NextHop
<1>4. CASE b.nextHop \in NextHops(big, d) /\ b.routeCost = big[<<d, b.nextHop>>]
  <2>1. <<d, b.nextHop>> \in DOMAIN big
    BY <1>1, <1>4, RowFacts
  <2> QED
    BY <1>1, <1>4, <2>1 DEF NextHop, Others
<1> QED
  BY <1>2, <1>3, <1>4

\* Where every row is below infinity, the best route is a row if there is one, and none
\* costs less.
LEMMA BestRouteExists ==
  ASSUME NEW r \in Router, NEW big, IsMap(big, Others(r) \X Others(r), Cost),
         NEW d, NEW h, <<d, h>> \in DOMAIN big,
         \A g : <<d, g>> \in DOMAIN big => big[<<d, g>>] < INFINITY_COST,
         NEW b \in getBestRoute(big, d)
  PROVE  /\ <<d, b.nextHop>> \in DOMAIN big /\ b.routeCost = big[<<d, b.nextHop>>]
         /\ \A g : <<d, g>> \in DOMAIN big => b.routeCost <= big[<<d, g>>]
<1> DEFINE hops  == NextHops(big, d)
           costs == {big[<<d, g>>] : g \in hops}
           least == {g \in hops : /\ big[<<d, g>>] < INFINITY_COST
                                  /\ \A k \in hops : big[<<d, g>>] <= big[<<d, k>>]}
<1>1. /\ DOMAIN big \subseteq Others(r) \X Others(r)
      /\ \A x \in DOMAIN big : big[x] \in Nat
  BY CostNumbers DEF IsMap
<1>2. \A g : g \in hops <=> <<d, g>> \in DOMAIN big
  BY <1>1, RowFacts
<1> HIDE DEF hops
<1>3. costs # {} /\ costs \subseteq Nat
  BY <1>1, <1>2
<1>4. PICK c \in costs : \A k \in costs : ~(k < c)
  BY <1>3, LeastExists
<1>5. PICK g \in hops : c = big[<<d, g>>]
  BY <1>4
<1>6. \A k \in hops : big[<<d, k>>] \in costs /\ big[<<d, k>>] \in Nat
  BY <1>1, <1>2
<1>7. g \in least
  BY <1>2, <1>4, <1>5, <1>6
<1>8. getBestRoute(big, d) = {[nextHop |-> k, routeCost |-> big[<<d, k>>]] : k \in least}
  BY <1>5, <1>7 DEF getBestRoute, hops
<1>9. PICK k \in least : b = [nextHop |-> k, routeCost |-> big[<<d, k>>]]
  BY <1>8
<1> QED
  BY <1>2, <1>9

\* Where there is none, there is no route.
LEMMA BestRouteNone ==
  ASSUME NEW S, NEW big, DOMAIN big \subseteq S \X S,
         NEW d, \A g : <<d, g>> \notin DOMAIN big, NEW b \in getBestRoute(big, d)
  PROVE  b.nextHop = 0 /\ b.routeCost = NoRoute
<1>1. NextHops(big, d) = {}
  BY RowFacts
<1> QED
  BY <1>1 DEF getBestRoute

\* Routes as they may be written to the forwarding table of r.
AreRoutes(routes, r) ==
  /\ DOMAIN routes \subseteq Others(r)
  /\ \A d \in DOMAIN routes : routes[d].nextHop \in NextHop(r) /\ routes[d].routeCost \in Cost

LEMMA BestRoutesFacts ==
  ASSUME NEW r \in Router, NEW big, IsMap(big, Others(r) \X Others(r), Cost),
         NEW dests, dests \subseteq Others(r), NEW best \in BestRoutes(big, dests)
  PROVE  /\ DOMAIN best = dests /\ AreRoutes(best, r)
         /\ \A d \in dests : best[d] \in getBestRoute(big, d)
<1>1. DOMAIN best = dests /\ \A d \in dests : best[d] \in getBestRoute(big, d)
  BY DEF BestRoutes
<1> QED
  BY <1>1, BestRouteFacts DEF AreRoutes

\* t is s with routes written to the forwarding table now, after all of lost were removed.
Rewritten(s, t, lost, routes, now) ==
  /\ t.id = s.id /\ t.portStatus = s.portStatus
  /\ t.adjacencyList = s.adjacencyList /\ t.bigTable = s.bigTable
  /\ DOMAIN t.forwardingTable = (DOMAIN s.forwardingTable \ lost) \cup DOMAIN routes
  /\ \A d \in DOMAIN routes : /\ t.forwardingTable[d].nextHop = routes[d].nextHop
                             /\ t.forwardingTable[d].routeCost = routes[d].routeCost
                             /\ t.forwardingTable[d].lastUpdate = now
  /\ \A d \in DOMAIN s.forwardingTable \ lost :
       d \notin DOMAIN routes => t.forwardingTable[d] = s.forwardingTable[d]

LEMMA UpdateRoutesFacts ==
  ASSUME NEW r \in Router, NEW now \in Nat, NEW s, IsRouter(s, r, now),
         NEW routes, AreRoutes(routes, r)
  PROVE  LET t == updateRoutes(s, routes, now)
         IN  IsRouter(t, r, now) /\ Rewritten(s, t, {}, routes, now)
<1> DEFINE new == [d \in DOMAIN routes |-> [nextHop    |-> routes[d].nextHop,
                                           routeCost  |-> routes[d].routeCost,
                                           lastUpdate |-> now]]
           t == updateRoutes(s, routes, now)
<1>1. IsMap(new, Others(r), RouteEntry(r, now))
  BY DEF AreRoutes, IsMap, RouteEntry
<1>2. /\ DOMAIN new = DOMAIN routes
      /\ \A d \in DOMAIN routes : /\ new[d].nextHop = routes[d].nextHop
                                 /\ new[d].routeCost = routes[d].routeCost
                                 /\ new[d].lastUpdate = now
  OBVIOUS
<1>3. t = [s EXCEPT !.forwardingTable = StoreAll(@, new)]
  BY DEF updateRoutes
<1> HIDE DEF new, t
<1>4. IsMap(StoreAll(s.forwardingTable, new), Others(r), RouteEntry(r, now))
  BY <1>1, StoreAllMap DEF IsRouter
<1>5. /\ DOMAIN t = RouterFields
      /\ t.forwardingTable = StoreAll(s.forwardingTable, new)
      /\ t.id = s.id /\ t.portStatus = s.portStatus
      /\ t.adjacencyList = s.adjacencyList /\ t.bigTable = s.bigTable
  BY <1>3 DEF IsRouter, RouterFields
<1>6. IsRouter(t, r, now)
  BY <1>4, <1>5 DEF IsRouter
<1>7. Rewritten(s, t, {}, routes, now)
  BY <1>2, <1>5 DEF Rewritten, StoreAll
<1> QED
  BY <1>6, <1>7 DEF t

LEMMA RerouteFacts ==
  ASSUME NEW r \in Router, NEW now \in Nat, NEW s, IsRouter(s, r, now),
         NEW best, AreRoutes(best, r), NEW usable \in SUBSET DOMAIN best
  PROVE  LET u == Reroute(s, best, usable, now)
         IN  IsRouter(u, r, now) /\ Rewritten(s, u, DOMAIN best, Restrict(best, usable), now)
<1> DEFINE kept == DOMAIN s.forwardingTable \ DOMAIN best
           t == [s EXCEPT !.forwardingTable = Restrict(@, DOMAIN @ \ DOMAIN best)]
           u == Reroute(s, best, usable, now)
<1>1. /\ DOMAIN t = RouterFields
      /\ t.forwardingTable = Restrict(s.forwardingTable, kept)
      /\ t.id = s.id /\ t.portStatus = s.portStatus
      /\ t.adjacencyList = s.adjacencyList /\ t.bigTable = s.bigTable
  BY DEF IsRouter, RouterFields
<1>2. u = updateRoutes(t, Restrict(best, usable), now)
  BY DEF Reroute
<1>3. IsMap(Restrict(s.forwardingTable, kept), Others(r), RouteEntry(r, now))
  BY RestrictMap DEF IsRouter
<1> HIDE DEF t, u
<1>4. IsRouter(t, r, now)
  BY <1>1, <1>3 DEF IsRouter
<1>5. AreRoutes(Restrict(best, usable), r)
  BY DEF AreRoutes, Restrict
<1>6. IsRouter(u, r, now) /\ Rewritten(t, u, {}, Restrict(best, usable), now)
  BY <1>2, <1>4, <1>5, UpdateRoutesFacts
<1>7. /\ DOMAIN t.forwardingTable = kept
      /\ \A d \in kept : t.forwardingTable[d] = s.forwardingTable[d]
  BY <1>1 DEF Restrict
<1>8. Rewritten(s, u, DOMAIN best, Restrict(best, usable), now)
  BY <1>1, <1>6, <1>7 DEF Rewritten
<1> QED
  BY <1>6, <1>8 DEF u

-----------------------------------------------------------------------------
\* What every handler keeps.

\* CostsAddUp of one router, which last heard the finite costs heard, and what makes it
\* inductive: a neighbour that is no destination over itself was never measured.
AddsUp(s, heard) ==
  /\ \A n : <<n, n>> \in DOMAIN s.bigTable =>
       n \in DOMAIN s.adjacencyList /\ s.bigTable[<<n, n>>] = s.adjacencyList[n].timeCost
  /\ \A d, n : <<d, n>> \in DOMAIN s.bigTable /\ d # n =>
       /\ d \in DOMAIN heard[n]
       /\ n \in DOMAIN s.adjacencyList
       /\ s.bigTable[<<d, n>>] = AsCost(s.adjacencyList[n].timeCost + heard[n][d])
  /\ \A n \in DOMAIN s.adjacencyList :
       <<n, n>> \notin DOMAIN s.bigTable => s.adjacencyList[n].timeCost = 0

\* TablesAgree of one router.
Agree(s) ==
  /\ \A d : d \in DOMAIN s.forwardingTable <=> \E n : <<d, n>> \in DOMAIN s.bigTable
  /\ \A d \in DOMAIN s.forwardingTable :
       <<d, s.forwardingTable[d].nextHop>> \in DOMAIN s.bigTable

\* CostsFit of one router.
Fits(s, heard) ==
  \A d, n : <<d, n>> \in DOMAIN s.bigTable =>
    /\ s.bigTable[<<d, n>>] > 0 /\ s.bigTable[<<d, n>>] < NoRoute
    /\ d # n /\ d \in DOMAIN heard[n] => heard[n][d] <= s.bigTable[<<d, n>>]

\* NothingIsFree of one router.
NoneFree(s) == \A d, n : <<d, n>> \in DOMAIN s.bigTable => s.bigTable[<<d, n>>] > 0

\* A state t that router r may come to from s when it handles e, after which it last heard
\* the finite costs later: well formed, and as consistent as s was.
Follows(s, t, r, heard, later, now) ==
  /\ IsRouter(t, r, now)
  /\ NoneFree(s) /\ AddsUp(s, heard) => AddsUp(t, later)
  /\ Agree(s) /\ Fits(s, heard) /\ Fits(t, later) => Agree(t)

LEMMA SameFollows ==
  ASSUME NEW s, NEW r, NEW heard, NEW now, IsRouter(s, r, now)
  PROVE  Follows(s, s, r, heard, heard, now)
BY DEF Follows

\* One neighbour more, which is no row and costs nothing.
LEMMA NeighbourFollows ==
  ASSUME NEW r \in Router, NEW s, NEW heard, NEW now, IsRouter(s, r, now),
         NEW n \in NextHop(r), n \notin DOMAIN s.adjacencyList,
         NEW t, t = [s EXCEPT !.adjacencyList = Store(@, n, [port |-> 0, timeCost |-> 0])]
  PROVE  /\ Follows(s, t, r, heard, heard, now)
         /\ t.adjacencyList[n].port \in Ports[r]
<1> DEFINE adj == Store(s.adjacencyList, n, [port |-> 0, timeCost |-> 0])
<1>1. [port |-> 0, timeCost |-> 0] \in NeighbourEntry(r)
  BY PortZero, CostNumbers DEF NeighbourEntry
<1>2. IsMap(adj, NextHop(r), NeighbourEntry(r))
  BY <1>1, StoreMap DEF IsRouter
<1>3. /\ DOMAIN adj = DOMAIN s.adjacencyList \cup {n}
      /\ adj[n].port = 0 /\ adj[n].timeCost = 0
      /\ \A k \in DOMAIN s.adjacencyList : k # n => adj[k] = s.adjacencyList[k]
  BY DEF Store
<1> HIDE DEF adj
<1>4. /\ DOMAIN t = RouterFields /\ t.adjacencyList = adj
      /\ t.id = s.id /\ t.portStatus = s.portStatus
      /\ t.forwardingTable = s.forwardingTable /\ t.bigTable = s.bigTable
  BY DEF IsRouter, RouterFields, adj
<1>5. IsRouter(t, r, now)
  BY <1>2, <1>4 DEF IsRouter
<1>6. ASSUME AddsUp(s, heard) PROVE AddsUp(t, heard)
  BY <1>3, <1>4, <1>6 DEF AddsUp
<1>7. ASSUME Agree(s) PROVE Agree(t)
  BY <1>4, <1>7 DEF Agree
<1> QED
  BY <1>3, <1>4, <1>5, <1>6, <1>7, PortZero DEF Follows

\* Data is sent on to the next hop, made a neighbour if it is none.
LEMMA DataKeeps ==
  ASSUME NEW r \in Router, NEW s, NEW heard, NEW now, IsRouter(s, r, now), NEW e,
         NEW pkt, pkt.type = "DATA", NEW o \in handleData(s, pkt)
  PROVE  Follows(s, o.s, r, heard, heard, now) /\ Sends(e, r, o.out)
<1>1. CASE pkt.dst = s.id \/ pkt.dst \notin DOMAIN s.forwardingTable
  <2>1. o.s = s /\ o.out = {}
    BY <1>1 DEF handleData, Keep
  <2> QED
    BY <2>1, SameFollows DEF Sends, ProbesSent
<1>2. CASE pkt.dst \in DOMAIN s.forwardingTable /\ pkt.dst # s.id
  <2> DEFINE hop == s.forwardingTable[pkt.dst].nextHop
             t == IF hop \in DOMAIN s.adjacencyList THEN s
                  ELSE [s EXCEPT !.adjacencyList = Store(@, hop, [port |-> 0, timeCost |-> 0])]
  <2>1. o.s = t /\ o.out = {To(t.adjacencyList[hop].port, pkt)}
    BY <1>2 DEF handleData, forwardTo
  <2>2. hop \in NextHop(r)
    BY <1>2 DEF IsRouter, IsMap, RouteEntry
  <2>3. Follows(s, t, r, heard, heard, now) /\ t.adjacencyList[hop].port \in Ports[r]
    <3>1. CASE hop \in DOMAIN s.adjacencyList
      BY <3>1, SameFollows DEF IsRouter, IsMap, NeighbourEntry
    <3>2. CASE hop \notin DOMAIN s.adjacencyList
      BY <2>2, <3>2, NeighbourFollows
    <3> QED
      BY <3>1, <3>2
  <2> HIDE DEF t, hop
  <2>4. \A m \in o.out : m.port \in Ports[r] /\ m.pkt.type = "DATA"
    BY <2>1, <2>3 DEF To
  <2> QED
    BY <2>1, <2>3, <2>4, SMTT(30) DEF Sends, ProbesSent
<1> QED
  BY <1>1, <1>2

\* What handleCostChange makes of bigTable.
Changed(s, n, change) ==
  StoreAll(s.bigTable,
    [x \in (DestsOver(s.bigTable, n) \cup {n}) \X {n} |->
      AsCost((IF x \in DOMAIN s.bigTable THEN s.bigTable[x] ELSE 0) + change)])

ChangeAdded(old, big, n, change) ==
  /\ \A d, k : <<d, k>> \in DOMAIN big <=> <<d, k>> \in DOMAIN old \/ (d = n /\ k = n)
  /\ \A d, k : <<d, k>> \in DOMAIN old =>
       big[<<d, k>>] = IF k = n THEN AsCost(old[<<d, k>>] + change) ELSE old[<<d, k>>]
  /\ <<n, n>> \notin DOMAIN old => big[<<n, n>>] = AsCost(change)

LEMMA ChangedFacts ==
  ASSUME NEW r \in Router, NEW s, NEW now, IsRouter(s, r, now), NEW n \in Others(r), NEW change \in Int
  PROVE  /\ IsMap(Changed(s, n, change), Others(r) \X Others(r), Cost)
         /\ ChangeAdded(s.bigTable, Changed(s, n, change), n, change)
<1> DEFINE dests == DestsOver(s.bigTable, n) \cup {n}
           new   == [x \in dests \X {n} |->
                      AsCost((IF x \in DOMAIN s.bigTable THEN s.bigTable[x] ELSE 0) + change)]
           big   == Changed(s, n, change)
<1>1. /\ DOMAIN s.bigTable \subseteq Others(r) \X Others(r)
      /\ \A x \in DOMAIN s.bigTable : s.bigTable[x] \in Nat
  BY CostNumbers DEF IsRouter, IsMap
<1>2. \A d : d \in DestsOver(s.bigTable, n) <=> <<d, n>> \in DOMAIN s.bigTable
  BY <1>1, RowFacts
<1>3. \A d : d \in dests <=> <<d, n>> \in DOMAIN s.bigTable \/ d = n
  BY <1>2
<1> HIDE DEF dests
<1>4. \A d : d \in dests => d \in Others(r)
  <2>1. \A d : <<d, n>> \in DOMAIN s.bigTable => d \in Others(r)
    BY <1>1
  <2> QED
    BY <1>3, <2>1
<1>5. \A x \in dests \X {n} :
        (IF x \in DOMAIN s.bigTable THEN s.bigTable[x] ELSE 0) + change \in Int
  BY <1>1
<1>6. IsMap(new, Others(r) \X Others(r), Cost)
  <2>1. \A x \in dests \X {n} : x \in Others(r) \X Others(r)
    BY <1>4
  <2>2. \A x \in dests \X {n} : new[x] \in Cost
    BY <1>5, AsCostType
  <2> QED
    BY <2>1, <2>2 DEF IsMap
<1>7. /\ \A d, k : <<d, k>> \in DOMAIN new <=> k = n /\ d \in dests
      /\ \A d \in dests : new[<<d, n>>] =
           AsCost((IF <<d, n>> \in DOMAIN s.bigTable THEN s.bigTable[<<d, n>>] ELSE 0) + change)
  OBVIOUS
<1>8. big = StoreAll(s.bigTable, new)
  BY DEF Changed, dests
<1> HIDE DEF new, big
<1>9. IsMap(big, Others(r) \X Others(r), Cost)
  BY <1>6, <1>8, StoreAllMap DEF IsRouter
<1>10. /\ DOMAIN big = DOMAIN s.bigTable \cup DOMAIN new
       /\ \A x \in DOMAIN big : big[x] = IF x \in DOMAIN new THEN new[x] ELSE s.bigTable[x]
  BY <1>8 DEF StoreAll
<1>11. \A d, k : <<d, k>> \in DOMAIN big <=> <<d, k>> \in DOMAIN s.bigTable \/ (d = n /\ k = n)
  BY <1>3, <1>7, <1>10
<1>12. \A d, k : <<d, k>> \in DOMAIN s.bigTable =>
          big[<<d, k>>] = IF k = n THEN AsCost(s.bigTable[<<d, k>>] + change)
                          ELSE s.bigTable[<<d, k>>]
  BY <1>3, <1>7, <1>10
<1>13. <<n, n>> \notin DOMAIN s.bigTable => big[<<n, n>>] = AsCost(change)
  BY <1>3, <1>7, <1>10
<1> QED
  BY <1>9, <1>11, <1>12, <1>13 DEF big, ChangeAdded

\* What it makes of the rest: routes over n are written to the forwarding table where they
\* are the best ones, and one to n if there is none.
RoutesRenewedOver(table, u, n) ==
  /\ DOMAIN table \cup {n} \subseteq DOMAIN u.forwardingTable
  /\ \A d \in DOMAIN u.forwardingTable :
       LET entry == u.forwardingTable[d]
           over  == <<d, n>> \in DOMAIN u.bigTable
       IN \/ /\ d \in DOMAIN table /\ entry = table[d]
             /\ over => \E b \in getBestRoute(u.bigTable, d) : b.nextHop # n
          \/ /\ over /\ entry.nextHop = n
             /\ \E b \in getBestRoute(u.bigTable, d) :
                  IF b.nextHop = n THEN entry.routeCost = b.routeCost
                  ELSE d = n /\ n \notin DOMAIN table

LEMMA CostChangeFacts ==
  ASSUME NEW r \in Router, NEW now \in Nat, NEW t, IsRouter(t, r, now), NEW n \in Others(r),
         NEW change \in Int, NEW o \in handleCostChange(t, n, change, now)
  PROVE  /\ IsRouter(o.s, r, now)
         /\ o.out = {} \/ o.out = sendUpdates(o.s)
         /\ o.s.portStatus = t.portStatus /\ o.s.adjacencyList = t.adjacencyList
         /\ o.s.bigTable = Changed(t, n, change)
         /\ RoutesRenewedOver(t.forwardingTable, o.s, n)
<1> DEFINE dests == DestsOver(t.bigTable, n) \cup {n}
           big   == Changed(t, n, change)
           end(best) ==
             LET mine == Renewed(best, n)
                 t1   == updateRoutes([t EXCEPT !.bigTable = big], Restrict(best, mine), now)
                 u    == IF n \in DOMAIN t1.forwardingTable THEN t1
                         ELSE updateRoutes(t1, [d \in {n} |-> [nextHop |-> n, routeCost |-> 0]], now)
             IN [s |-> u, out |-> IF mine = {} /\ u = t1 THEN {} ELSE sendUpdates(u)]
<1>1. handleCostChange(t, n, change, now) = {end(best) : best \in BestRoutes(big, dests)}
  BY DEF handleCostChange, Changed
<1>2. PICK best \in BestRoutes(big, dests) : o = end(best)
  BY <1>1
<1> DEFINE mine == Renewed(best, n)
           b    == [t EXCEPT !.bigTable = big]
           t1   == updateRoutes(b, Restrict(best, mine), now)
           self == [d \in {n} |-> [nextHop |-> n, routeCost |-> 0]]
           u    == IF n \in DOMAIN t1.forwardingTable THEN t1 ELSE updateRoutes(t1, self, now)
<1>3. o.s = u /\ (o.out = {} \/ o.out = sendUpdates(u))
  BY <1>2
<1>4. /\ IsMap(big, Others(r) \X Others(r), Cost)
      /\ \A d, k : <<d, k>> \in DOMAIN big <=> <<d, k>> \in DOMAIN t.bigTable \/ (d = n /\ k = n)
  <2>1. IsMap(big, Others(r) \X Others(r), Cost) /\ ChangeAdded(t.bigTable, big, n, change)
    BY ChangedFacts
  <2> QED
    BY <2>1 DEF ChangeAdded
<1>5. /\ \A d : d \in dests <=> <<d, n>> \in DOMAIN big
      /\ \A d \in dests : d \in Others(r)
  <2>1. DOMAIN t.bigTable \subseteq Others(r) \X Others(r)
    BY DEF IsRouter, IsMap
  <2>2. \A d : d \in DestsOver(t.bigTable, n) <=> <<d, n>> \in DOMAIN t.bigTable
    BY <2>1, RowFacts
  <2>3. \A d : <<d, n>> \in DOMAIN t.bigTable => d \in Others(r)
    BY <2>1
  <2>4. \A d : d \in dests <=> <<d, n>> \in DOMAIN t.bigTable \/ d = n
    BY <2>2
  <2> HIDE DEF dests, big
  <2> QED
    BY <1>4, <2>3, <2>4
<1> HIDE DEF big, dests
<1>6. /\ DOMAIN b = RouterFields /\ b.bigTable = big
      /\ b.id = t.id /\ b.portStatus = t.portStatus
      /\ b.adjacencyList = t.adjacencyList /\ b.forwardingTable = t.forwardingTable
  BY DEF IsRouter, RouterFields
<1> HIDE DEF b
<1>7. IsRouter(b, r, now)
  BY <1>4, <1>6 DEF IsRouter
<1>8. /\ DOMAIN best = dests /\ AreRoutes(best, r)
      /\ \A d \in dests : best[d] \in getBestRoute(big, d)
  BY <1>4, <1>5, BestRoutesFacts
<1>9. /\ DOMAIN Restrict(best, mine) = mine /\ AreRoutes(Restrict(best, mine), r)
      /\ \A d : d \in mine <=> d \in dests /\ best[d].nextHop = n
      /\ \A d \in mine : Restrict(best, mine)[d] = best[d]
  BY <1>8 DEF Restrict, AreRoutes, Renewed
<1> HIDE DEF mine
<1>10. IsRouter(t1, r, now) /\ Rewritten(b, t1, {}, Restrict(best, mine), now)
  BY <1>7, <1>9, UpdateRoutesFacts
<1>11. AreRoutes(self, r)
  BY CostNumbers DEF AreRoutes, NextHop, Others
<1>12. DOMAIN self = {n} /\ self[n].nextHop = n
  OBVIOUS
<1> DEFINE renewed(entry, d) ==
             \/ /\ d \in DOMAIN t.forwardingTable /\ entry = t.forwardingTable[d]
                /\ d \in dests => \E k \in getBestRoute(big, d) : k.nextHop # n
             \/ /\ d \in dests /\ entry.nextHop = n
                /\ \E k \in getBestRoute(big, d) :
                     IF k.nextHop = n THEN entry.routeCost = k.routeCost
                     ELSE d = n /\ n \notin DOMAIN t.forwardingTable
<1> HIDE DEF t1, self
<1>13. ASSUME NEW d \in DOMAIN t1.forwardingTable
       PROVE  renewed(t1.forwardingTable[d], d)
  <2>1. CASE d \in mine
    <3>1. /\ d \in dests /\ best[d] \in getBestRoute(big, d) /\ best[d].nextHop = n
          /\ t1.forwardingTable[d].nextHop = n
          /\ t1.forwardingTable[d].routeCost = best[d].routeCost
      BY <1>8, <1>9, <1>10, <2>1 DEF Rewritten
    <3> QED
      BY <3>1
  <2>2. CASE d \notin mine
    <3>1. /\ d \in DOMAIN t.forwardingTable /\ t1.forwardingTable[d] = t.forwardingTable[d]
          /\ d \in dests => best[d] \in getBestRoute(big, d) /\ best[d].nextHop # n
      BY <1>6, <1>8, <1>9, <1>10, <2>2 DEF Rewritten
    <3> QED
      BY <3>1
  <2> QED
    BY <2>1, <2>2
<1>14. /\ o.s.portStatus = t.portStatus /\ o.s.adjacencyList = t.adjacencyList
       /\ IsRouter(o.s, r, now) /\ o.s.bigTable = big
       /\ DOMAIN o.s.forwardingTable = DOMAIN t1.forwardingTable \cup {n}
       /\ \A d \in DOMAIN t1.forwardingTable : o.s.forwardingTable[d] = t1.forwardingTable[d]
       /\ n \notin DOMAIN t1.forwardingTable => o.s.forwardingTable[n].nextHop = n
  <2>1. CASE n \in DOMAIN t1.forwardingTable
    <3>1. o.s = t1
      BY <1>3, <2>1
    <3> QED
      BY <1>6, <1>10, <2>1, <3>1 DEF Rewritten
  <2>2. CASE n \notin DOMAIN t1.forwardingTable
    <3>1. o.s = updateRoutes(t1, self, now)
      BY <1>3, <2>2
    <3>2. IsRouter(o.s, r, now) /\ Rewritten(t1, o.s, {}, self, now)
      BY <1>10, <1>11, <3>1, UpdateRoutesFacts
    <3> QED
      BY <1>6, <1>10, <1>12, <2>2, <3>2 DEF Rewritten
  <2> QED
    BY <2>1, <2>2
<1>15. /\ DOMAIN t.forwardingTable \subseteq DOMAIN t1.forwardingTable
       /\ n \in dests
  BY <1>6, <1>10 DEF Rewritten, dests
<1>16. ASSUME NEW d \in DOMAIN o.s.forwardingTable
       PROVE  renewed(o.s.forwardingTable[d], d)
  <2>1. CASE d \in DOMAIN t1.forwardingTable
    BY <1>13, <1>14, <2>1
  <2>2. CASE d \notin DOMAIN t1.forwardingTable
    <3>1. d = n /\ n \notin DOMAIN t.forwardingTable /\ o.s.forwardingTable[d].nextHop = n
      BY <1>14, <1>15, <2>2
    <3>2. best[n] \in getBestRoute(big, n) /\ best[n].nextHop # n
      BY <1>8, <1>9, <1>10, <1>15, <2>2, <3>1 DEF Rewritten
    <3> QED
      BY <1>15, <3>1, <3>2
  <2> QED
    BY <2>1, <2>2
<1>17. RoutesRenewedOver(t.forwardingTable, o.s, n)
  BY <1>5, <1>14, <1>15, <1>16 DEF RoutesRenewedOver
<1> QED
  BY <1>3, <1>14, <1>17 DEF big

\* u is what a PONG of nbr over the port makes of s when the round trip took rtt.
Learned(s, u, port, nbr, rtt, now) ==
  /\ u.portStatus = Store(s.portStatus, port,
       [destRouterID |-> nbr, isUp |-> TRUE, lastUpdate |-> now, timeCost |-> rtt])
  /\ u.adjacencyList = Store(s.adjacencyList, nbr, [port |-> port, timeCost |-> rtt])

LEMMA PongTaken ==
  ASSUME NEW r \in Router, NEW s, NEW now \in Nat, IsRouter(s, r, now),
         NEW port \in Ports[r], NEW pkt, pkt.sourceID \in Others(r), pkt.stamp \in Nat,
         NEW o \in handlePongs(s, port, pkt, now)
  PROVE  LET nbr == pkt.sourceID
             rtt == RoundTripCost(now, pkt.stamp)
         IN  /\ IsRouter(o.s, r, now)
             /\ o.out = {} \/ o.out = sendUpdates(o.s)
             /\ rtt \in Cost /\ rtt \in Int /\ KnownCost(s, nbr) \in Nat
             /\ Learned(s, o.s, port, nbr, rtt, now)
             /\ ChangeAdded(s.bigTable, o.s.bigTable, nbr, rtt - KnownCost(s, nbr))
             /\ RoutesRenewedOver(s.forwardingTable, o.s, nbr)
<1> DEFINE nbr    == pkt.sourceID
           rtt    == RoundTripCost(now, pkt.stamp)
           change == rtt - KnownCost(s, nbr)
           t      == [s EXCEPT
                       !.portStatus = Store(@, port, [destRouterID |-> nbr, isUp |-> TRUE,
                                                      lastUpdate |-> now, timeCost |-> rtt]),
                       !.adjacencyList = Store(@, nbr, [port |-> port, timeCost |-> rtt])]
<1>1. o \in handleCostChange(t, nbr, change, now)
  BY DEF handlePongs
<1>2. rtt \in Cost /\ rtt \in Int
  <2>1. now - pkt.stamp \in Int
    OBVIOUS
  <2>2. rtt \in Cost
    BY <2>1, AsCostType DEF RoundTripCost
  <2> HIDE DEF rtt
  <2> QED
    BY <2>2, CostNumbers
<1>3. KnownCost(s, nbr) \in Nat
  BY CostNumbers DEF KnownCost, IsRouter, IsMap, NeighbourEntry
<1>4. nbr \in NextHop(r) /\ nbr \in Router /\ nbr # r
  BY DEF NextHop, Others
<1> HIDE DEF rtt
<1>5. change \in Int
  BY <1>2, <1>3
<1>6. IsMap(Store(s.adjacencyList, nbr, [port |-> port, timeCost |-> rtt]), NextHop(r), NeighbourEntry(r))
  <2>1. [port |-> port, timeCost |-> rtt] \in NeighbourEntry(r)
    BY <1>2 DEF NeighbourEntry
  <2> QED
    BY <1>4, <2>1, StoreMap DEF IsRouter
<1> DEFINE entry == [destRouterID |-> nbr, isUp |-> TRUE, lastUpdate |-> now, timeCost |-> rtt]
<1>7. IsMap(Store(s.portStatus, port, entry), Ports[r], PortEntry(now))
  <2>1. entry \in PortEntry(now)
    BY <1>2, <1>4 DEF PortEntry
  <2> QED
    BY <2>1, StoreMap DEF IsRouter
<1>8. /\ DOMAIN t = RouterFields
      /\ t.portStatus = Store(s.portStatus, port, entry)
      /\ t.adjacencyList = Store(s.adjacencyList, nbr, [port |-> port, timeCost |-> rtt])
      /\ t.id = s.id /\ t.forwardingTable = s.forwardingTable /\ t.bigTable = s.bigTable
  BY DEF IsRouter, RouterFields
<1> HIDE DEF t
<1>9. \A p \in DOMAIN t.portStatus : t.portStatus[p].destRouterID # r
  BY <1>4, <1>8 DEF Store, IsRouter
<1>10. IsRouter(t, r, now)
  BY <1>6, <1>7, <1>8, <1>9 DEF IsRouter
<1>11. nbr \in Others(r)
  BY DEF nbr
<1> HIDE DEF change
<1>12. /\ IsRouter(o.s, r, now)
       /\ o.out = {} \/ o.out = sendUpdates(o.s)
       /\ o.s.portStatus = t.portStatus /\ o.s.adjacencyList = t.adjacencyList
       /\ o.s.bigTable = Changed(t, nbr, change) /\ RoutesRenewedOver(t.forwardingTable, o.s, nbr)
  BY <1>1, <1>5, <1>10, <1>11, CostChangeFacts
<1>13. ChangeAdded(s.bigTable, o.s.bigTable, nbr, change)
  BY <1>5, <1>8, <1>10, <1>11, <1>12, ChangedFacts
<1>14. Learned(s, o.s, port, nbr, rtt, now) /\ RoutesRenewedOver(s.forwardingTable, o.s, nbr)
  BY <1>8, <1>12 DEF Learned
<1> QED
  BY <1>2, <1>3, <1>12, <1>13, <1>14 DEF rtt, change

\* A PONG: the new cost of the link is in adjacencyList and in every row over the neighbour.
LEMMA PongKeeps ==
  ASSUME NEW r \in Router, NEW s, NEW heard, NEW now \in Nat, IsRouter(s, r, now), NEW e,
         NEW port \in Ports[r], NEW pkt, pkt.sourceID \in Others(r), pkt.stamp \in Nat,
         \A n \in Others(r) : \A d \in DOMAIN heard[n] : heard[n][d] \in Cost,
         NEW o \in handlePongs(s, port, pkt, now)
  PROVE  Follows(s, o.s, r, heard, heard, now) /\ Sends(e, r, o.out)
<1> DEFINE nbr    == pkt.sourceID
           rtt    == RoundTripCost(now, pkt.stamp)
           change == rtt - KnownCost(s, nbr)
<1>1. /\ IsRouter(o.s, r, now)
      /\ o.out = {} \/ o.out = sendUpdates(o.s)
      /\ rtt \in Cost /\ rtt \in Int /\ KnownCost(s, nbr) \in Nat
      /\ Learned(s, o.s, port, nbr, rtt, now)
      /\ ChangeAdded(s.bigTable, o.s.bigTable, nbr, change)
      /\ RoutesRenewedOver(s.forwardingTable, o.s, nbr)
  BY PongTaken
<1>2. nbr \in Others(r)
  OBVIOUS
<1> HIDE DEF nbr, rtt
<1>3. change \in Int
  BY <1>1
<1> HIDE DEF change
<1>4. ChangeAdded(s.bigTable, o.s.bigTable, nbr, change)
  BY <1>1
<1>5. Sends(e, r, o.out)
  <2>1. CASE o.out = {}
    BY <2>1 DEF Sends, ProbesSent
  <2>2. CASE o.out = sendUpdates(o.s)
    BY <1>1, <2>2, SendUpdatesSends
  <2> QED
    BY <1>1, <2>1, <2>2
<1>6. ASSUME Agree(s) PROVE Agree(o.s)
  BY <1>1, <1>4, <1>6, ZenonT(90) DEF Agree, ChangeAdded, RoutesRenewedOver
<1>7. ASSUME AddsUp(s, heard) PROVE AddsUp(o.s, heard)
  <2>1. /\ DOMAIN o.s.adjacencyList = DOMAIN s.adjacencyList \cup {nbr}
        /\ o.s.adjacencyList[nbr].timeCost = rtt
        /\ \A n \in DOMAIN s.adjacencyList : n # nbr => o.s.adjacencyList[n] = s.adjacencyList[n]
    BY <1>1 DEF Learned, Store
  <2>2. <<nbr, nbr>> \in DOMAIN o.s.bigTable /\ o.s.bigTable[<<nbr, nbr>>] = rtt
    <3>1. CASE <<nbr, nbr>> \in DOMAIN s.bigTable
      <4>1. s.bigTable[<<nbr, nbr>>] = KnownCost(s, nbr)
        BY <1>7, <3>1 DEF AddsUp, KnownCost
      <4>2. KnownCost(s, nbr) + change = rtt
        BY <1>1 DEF change
      <4>3. AsCost(rtt) = rtt
        BY <1>1, AsCostFacts
      <4> QED
        BY <1>4, <3>1, <4>1, <4>2, <4>3 DEF ChangeAdded
    <3>2. CASE <<nbr, nbr>> \notin DOMAIN s.bigTable
      <4>1. KnownCost(s, nbr) = 0
        BY <1>7, <3>2 DEF AddsUp, KnownCost
      <4>2. change = rtt
        BY <1>1, <4>1 DEF change
      <4>3. AsCost(rtt) = rtt
        BY <1>1, AsCostFacts
      <4> QED
        BY <1>4, <3>2, <4>2, <4>3 DEF ChangeAdded
    <3> QED
      BY <3>1, <3>2
  <2>3. ASSUME NEW d, <<d, nbr>> \in DOMAIN s.bigTable, d # nbr
        PROVE  o.s.bigTable[<<d, nbr>>] = AsCost(rtt + heard[nbr][d])
    <3>1. /\ d \in DOMAIN heard[nbr] /\ nbr \in DOMAIN s.adjacencyList
          /\ s.bigTable[<<d, nbr>>] = AsCost(s.adjacencyList[nbr].timeCost + heard[nbr][d])
      BY <1>7, <2>3 DEF AddsUp
    <3> DEFINE known == KnownCost(s, nbr)
               told1 == heard[nbr][d]
    <3>2. told1 \in Int /\ known \in Int
      <4>1. told1 \in Cost
        BY <1>2, <3>1
      <4> HIDE DEF told1
      <4> QED
        BY <1>1, <4>1, CostNumbers
    <3>3. s.bigTable[<<d, nbr>>] = AsCost(known + told1)
      BY <3>1 DEF KnownCost
    <3>4. o.s.bigTable[<<d, nbr>>] = AsCost(AsCost(known + told1) + change)
      BY <1>4, <2>3, <3>3 DEF ChangeAdded
    <3> HIDE DEF known, told1
    <3>5. known + told1 \in Int
      BY <3>2
    <3>6. AsCost(AsCost(known + told1) + change) = AsCost((known + told1) + change)
      BY <1>3, <3>5, AsCostFacts
    <3>7. (known + told1) + change = rtt + told1
      BY <1>1, <3>2 DEF change, known
    <3> QED
      BY <3>4, <3>6, <3>7 DEF told1
  <2> QED
    BY <1>4, <1>7, <2>1, <2>2, <2>3 DEF AddsUp, ChangeAdded
<1> QED
  BY <1>1, <1>5, <1>6, <1>7 DEF Follows

\* The entry for the sender that a vector may make, as DataKeeps does for a next hop.
Known(adj, n, wanted) ==
  IF wanted = {} \/ n \in DOMAIN adj THEN adj ELSE Store(adj, n, [port |-> 0, timeCost |-> 0])

LEMMA KnownFacts ==
  ASSUME NEW r \in Router, NEW adj, IsMap(adj, NextHop(r), NeighbourEntry(r)),
         NEW n \in Others(r), NEW wanted
  PROVE  /\ IsMap(Known(adj, n, wanted), NextHop(r), NeighbourEntry(r))
         /\ DOMAIN Known(adj, n, wanted) \subseteq DOMAIN adj \cup {n}
         /\ \A k \in DOMAIN adj : k \in DOMAIN Known(adj, n, wanted) /\ Known(adj, n, wanted)[k] = adj[k]
         /\ wanted # {} => n \in DOMAIN Known(adj, n, wanted)
         /\ n \in DOMAIN Known(adj, n, wanted) /\ n \notin DOMAIN adj =>
              Known(adj, n, wanted)[n].timeCost = 0
<1>1. [port |-> 0, timeCost |-> 0] \in NeighbourEntry(r)
  BY PortZero, CostNumbers DEF NeighbourEntry
<1>2. n \in NextHop(r)
  BY DEF NextHop, Others
<1>3. IsMap(Store(adj, n, [port |-> 0, timeCost |-> 0]), NextHop(r), NeighbourEntry(r))
  BY <1>1, <1>2, StoreMap
<1> QED
  BY <1>3 DEF Known, Store

\* The rows of bigTable after the vector pkt, with finite and poisoned its routes that are
\* taken, and over the costs of the finite ones.
Heard(big, pkt, finite, poisoned, over) ==
  LET n     == pkt.sourceID
      taken == StoreAll(big, [x \in (finite \cup poisoned) \X {n} |->
                               IF x[1] \in finite THEN AsCost(over[x[1]]) ELSE INFINITY_COST])
  IN removeRoute(taken, Withdrawn(taken, pkt), n)

\* What the vector leaves: other rows are as they were, those over its sender are in it.
RowsHeard(big, left, pkt, finite, poisoned, over) ==
  LET n == pkt.sourceID IN
  /\ \A d, k : <<d, k>> \in DOMAIN left <=>
       IF k # n \/ d = n THEN <<d, k>> \in DOMAIN big
       ELSE d \in finite \cup poisoned \/ (<<d, k>> \in DOMAIN big /\ d \in DOMAIN pkt.routes)
  /\ \A d, k : <<d, k>> \in DOMAIN left /\ (k # n \/ d \notin finite \cup poisoned) =>
       left[<<d, k>>] = big[<<d, k>>]
  /\ \A d \in finite : left[<<d, n>>] = AsCost(over[d])

LEMMA HeardFacts ==
  ASSUME NEW r \in Router, NEW big, IsMap(big, Others(r) \X Others(r), Cost),
         NEW pkt, pkt.sourceID \in Others(r),
         NEW finite, NEW poisoned,
         \A d \in finite \cup poisoned : d \in Others(r) /\ d # pkt.sourceID /\ d \in DOMAIN pkt.routes,
         NEW over, \A d \in finite : over[d] \in Int
  PROVE  /\ IsMap(Heard(big, pkt, finite, poisoned, over), Others(r) \X Others(r), Cost)
         /\ RowsHeard(big, Heard(big, pkt, finite, poisoned, over), pkt, finite, poisoned, over)
<1> DEFINE n     == pkt.sourceID
           both  == finite \cup poisoned
           new   == [x \in both \X {n} |->
                      IF x[1] \in finite THEN AsCost(over[x[1]]) ELSE INFINITY_COST]
           taken == StoreAll(big, new)
           gone  == Withdrawn(taken, pkt)
           left  == removeRoute(taken, gone, n)
<1>1. IsMap(new, Others(r) \X Others(r), Cost)
  <2>1. ASSUME NEW x \in both \X {n} PROVE x \in Others(r) \X Others(r) /\ new[x] \in Cost
    <3>1. x[1] \in both /\ x = <<x[1], n>>
      OBVIOUS
    <3>2. x[1] \in finite => AsCost(over[x[1]]) \in Cost
      BY AsCostType
    <3> QED
      BY <3>1, <3>2, CostNumbers
  <2> QED
    BY <2>1 DEF IsMap
<1>2. /\ \A d, k : <<d, k>> \in DOMAIN new <=> k = n /\ d \in both
      /\ \A d \in finite : new[<<d, n>>] = AsCost(over[d])
  OBVIOUS
<1> HIDE DEF new
<1>3. IsMap(taken, Others(r) \X Others(r), Cost)
  BY <1>1, StoreAllMap
<1>4. /\ DOMAIN taken = DOMAIN big \cup DOMAIN new
      /\ \A x \in DOMAIN taken : taken[x] = IF x \in DOMAIN new THEN new[x] ELSE big[x]
  BY DEF StoreAll
<1> HIDE DEF taken, both
<1>5. \A d : d \in gone <=> <<d, n>> \in DOMAIN taken /\ d \notin DOMAIN pkt.routes /\ d # n
  <2>1. DOMAIN taken \subseteq Others(r) \X Others(r)
    BY <1>3 DEF IsMap
  <2>2. \A d : d \in DestsOver(taken, n) <=> <<d, n>> \in DOMAIN taken
    BY <2>1, RowFacts
  <2> QED
    BY <2>2 DEF Withdrawn
<1>6. left = Restrict(taken, DOMAIN taken \ (gone \X {n}))
  BY DEF removeRoute
<1> HIDE DEF gone, left
<1>7. IsMap(left, Others(r) \X Others(r), Cost)
  BY <1>3, <1>6, RestrictMap
<1>8. /\ \A d, k : <<d, k>> \in DOMAIN left <=> <<d, k>> \in DOMAIN taken /\ ~(d \in gone /\ k = n)
      /\ \A x \in DOMAIN left : left[x] = taken[x]
  BY <1>6 DEF Restrict
<1>9. /\ \A d, k : <<d, k>> \in DOMAIN taken <=> <<d, k>> \in DOMAIN big \/ (k = n /\ d \in both)
      /\ \A d, k : <<d, k>> \in DOMAIN taken /\ ~(k = n /\ d \in both) => taken[<<d, k>>] = big[<<d, k>>]
      /\ \A d \in finite : taken[<<d, n>>] = AsCost(over[d])
  BY <1>2, <1>4 DEF both
<1>10. \A d \in both : d # n /\ d \in DOMAIN pkt.routes
  BY DEF both
<1>11. \A d, k : <<d, k>> \in DOMAIN left <=>
         IF k # n \/ d = n THEN <<d, k>> \in DOMAIN big
         ELSE d \in both \/ (<<d, k>> \in DOMAIN big /\ d \in DOMAIN pkt.routes)
  BY <1>5, <1>8, <1>9, <1>10
<1>12. \A d, k : <<d, k>> \in DOMAIN left /\ (k # n \/ d \notin both) => left[<<d, k>>] = big[<<d, k>>]
  BY <1>8, <1>9
<1>13. \A d \in finite : left[<<d, n>>] = AsCost(over[d])
  BY <1>8, <1>9, <1>10, <1>11 DEF both
<1>14. RowsHeard(big, left, pkt, finite, poisoned, over)
  BY <1>11, <1>12, <1>13 DEF RowsHeard, both
<1>15. left = Heard(big, pkt, finite, poisoned, over)
  BY DEF left, gone, taken, new, both, Heard
<1> QED
  BY <1>7, <1>14, <1>15

\* The routes of vector pkt that s takes: finite ones, and poisoned ones where the best
\* route costs nothing.
FiniteOf(s, pkt) == {d \in Rows(s, pkt) : pkt.routes[d] # INFINITY_COST}
PoisonedOf(s, pkt) == {d \in Rows(s, pkt) \ FiniteOf(s, pkt) :
                        \E best \in getBestRoute(s.bigTable, d) : best.routeCost = 0}
CostOver(s, pkt) ==
  LET finite == FiniteOf(s, pkt)
  IN [d \in finite |-> Known(s.adjacencyList, pkt.sourceID, finite)[pkt.sourceID].timeCost + pkt.routes[d]]

\* u follows s when the vector pkt is heard: the link to the sender is known, the rows are
\* heard, the cheaper routes written to the forwarding table, and those withdrawn replaced.
VectorTaken(s, u, pkt) ==
  LET n      == pkt.sourceID
      finite == FiniteOf(s, pkt)
      over   == CostOver(s, pkt)
      better == Better(s, over)
      table  == s.forwardingTable
      gone(d) == <<d, n>> \in DOMAIN s.bigTable /\ d # n /\ d \notin DOMAIN pkt.routes
      found(d) == \E best \in getBestRoute(u.bigTable, d) :
                    best.routeCost # NoRoute /\ u.forwardingTable[d].nextHop = best.nextHop
  IN
  /\ u.portStatus = s.portStatus /\ u.adjacencyList = Known(s.adjacencyList, n, finite)
  /\ RowsHeard(s.bigTable, u.bigTable, pkt, finite, PoisonedOf(s, pkt), over)
  /\ \A d : gone(d) =>
       /\ d \in DOMAIN u.forwardingTable => found(d)
       /\ d \notin DOMAIN u.forwardingTable =>
            \E best \in getBestRoute(u.bigTable, d) : best.routeCost = NoRoute
  /\ \A d : ~gone(d) =>
       /\ d \in DOMAIN u.forwardingTable <=> d \in DOMAIN table \/ d \in better
       /\ d \in better => /\ u.forwardingTable[d].nextHop = n
                          /\ u.forwardingTable[d].routeCost = over[d]
       /\ d \in DOMAIN table /\ d \notin better => u.forwardingTable[d] = table[d]

LEMMA VectorFacts ==
  ASSUME NEW r \in Router, NEW s, NEW now \in Nat, IsRouter(s, r, now),
         NEW pkt, pkt.sourceID \in Others(r), IsVector(pkt, pkt.sourceID),
         NEW o \in handleDVPacket(s, pkt, now)
  PROVE  /\ IsRouter(o.s, r, now)
         /\ o.out = {} \/ o.out = sendUpdates(o.s)
         /\ VectorTaken(s, o.s, pkt)
<1>1. IsMap(pkt.routes, Others(pkt.sourceID), Cost)
  BY DEF IsVector
<1> DEFINE n        == pkt.sourceID
           finite   == FiniteOf(s, pkt)
           poisoned == PoisonedOf(s, pkt)
           adj      == Known(s.adjacencyList, n, finite)
           over     == CostOver(s, pkt)
           taken    == StoreAll(s.bigTable, [x \in (finite \cup poisoned) \X {n} |->
                          IF x[1] \in finite THEN AsCost(over[x[1]]) ELSE INFINITY_COST])
           better   == Better(s, over)
           gone     == Withdrawn(taken, pkt)
           left     == removeRoute(taken, gone, n)
           base     == [s EXCEPT !.adjacencyList = adj, !.bigTable = left]
           new      == [d \in better |-> [nextHop |-> n, routeCost |-> over[d]]]
           t        == updateRoutes(base, new, now)
           usable(best) == {d \in gone : best[d].routeCost # NoRoute}
           ends     == {Reroute(t, best, usable(best), now) : best \in BestRoutes(left, gone)}
<1>2. handleDVPacket(s, pkt, now) =
        {[s |-> u, out |-> IF better \cup gone = {} THEN {} ELSE sendUpdates(u)] : u \in ends}
  BY Zenon DEF handleDVPacket, FiniteOf, PoisonedOf, CostOver, Known
<1>3. PICK best \in BestRoutes(left, gone) :
        /\ o.s = Reroute(t, best, usable(best), now)
        /\ o.out = {} \/ o.out = sendUpdates(o.s)
  <2> HIDE DEF t, left, gone, better, usable
  <2>1. PICK u \in ends :
          o = [s |-> u, out |-> IF better \cup gone = {} THEN {} ELSE sendUpdates(u)]
    BY <1>2
  <2>2. o.s = u /\ (o.out = {} \/ o.out = sendUpdates(u))
    BY <2>1
  <2>3. \E best \in BestRoutes(left, gone) : u = Reroute(t, best, usable(best), now)
    OBVIOUS
  <2> HIDE DEF ends
  <2> QED
    BY <2>2, <2>3
<1>4. \A d \in finite \cup poisoned :
        d \in Others(r) /\ d # n /\ d \in DOMAIN pkt.routes
  <2>1. \A d \in Rows(s, pkt) : d \in Others(n) /\ d # r /\ d \in DOMAIN pkt.routes
    BY <1>1 DEF Rows, IsRouter, IsMap
  <2>2. finite \cup poisoned \subseteq Rows(s, pkt)
    BY DEF FiniteOf, PoisonedOf
  <2> QED
    BY <2>1, <2>2 DEF Others
<1>5. /\ DOMAIN over = finite
      /\ \A d \in finite : over[d] = adj[n].timeCost + pkt.routes[d] /\ over[d] \in Nat
  <2>1. /\ IsMap(adj, NextHop(r), NeighbourEntry(r))
        /\ finite # {} => n \in DOMAIN adj
    BY KnownFacts DEF IsRouter
  <2>2. finite # {} => adj[n].timeCost \in Nat
    <3> HIDE DEF adj, finite
    <3>1. finite # {} => adj[n] \in NeighbourEntry(r)
      BY <2>1 DEF IsMap
    <3> QED
      BY <3>1, CostNumbers DEF NeighbourEntry
  <2>3. \A d \in finite : pkt.routes[d] \in Nat
    <3>1. \A d \in finite : pkt.routes[d] \in Cost
      BY <1>1, <1>4 DEF IsMap
    <3> HIDE DEF finite
    <3> QED
      BY <3>1, CostNumbers
  <2>4. over = [d \in finite |-> adj[n].timeCost + pkt.routes[d]]
    BY DEF CostOver
  <2> HIDE DEF over, adj, finite
  <2> QED
    BY <2>2, <2>3, <2>4
<1>6. left = Heard(s.bigTable, pkt, finite, poisoned, over)
  BY DEF Heard
<1> HIDE DEF finite, poisoned, adj, over, left
<1>7. /\ IsMap(left, Others(r) \X Others(r), Cost)
      /\ RowsHeard(s.bigTable, left, pkt, finite, poisoned, over)
  <2>1. \A d \in finite : over[d] \in Int
    BY <1>5
  <2> QED
    BY <1>4, <1>6, <2>1, HeardFacts DEF IsRouter
<1>8. /\ DOMAIN base = RouterFields
      /\ base.adjacencyList = adj /\ base.bigTable = left
      /\ base.id = s.id /\ base.portStatus = s.portStatus
      /\ base.forwardingTable = s.forwardingTable
  BY DEF IsRouter, RouterFields
<1> HIDE DEF base
<1>9. IsRouter(base, r, now)
  <2>1. IsMap(adj, NextHop(r), NeighbourEntry(r))
    BY KnownFacts DEF adj, IsRouter
  <2> QED
    BY <1>7, <1>8, <2>1 DEF IsRouter
<1>10. /\ DOMAIN new = better /\ AreRoutes(new, r)
       /\ \A d \in better : new[d].nextHop = n /\ new[d].routeCost = over[d]
  <2>1. \A d \in better : d \in finite /\ over[d] < getRouteCost(s, d)
    BY <1>5 DEF Better
  <2>2. \A d : getRouteCost(s, d) \in Cost
    BY CostNumbers DEF getRouteCost, IsRouter, IsMap, RouteEntry
  <2>3. \A c \in Cost, i \in Nat : i < c => i \in Cost
    <3>1. INFINITY_COST \in Nat
      BY CostNumbers
    <3> QED
      BY <3>1, CostNumbers
  <2>4. \A d \in better : over[d] \in Cost
    BY <1>5, <2>1, <2>2, <2>3
  <2>5. n \in NextHop(r)
    BY DEF NextHop, Others
  <2> HIDE DEF better
  <2> QED
    BY <1>4, <2>1, <2>4, <2>5 DEF AreRoutes
<1> HIDE DEF new, better, t
<1>11. IsRouter(t, r, now) /\ Rewritten(base, t, {}, new, now)
  BY <1>9, <1>10, UpdateRoutesFacts DEF t
<1>12. \A d : d \in gone <=> <<d, n>> \in DOMAIN s.bigTable /\ d # n /\ d \notin DOMAIN pkt.routes
  <2> DEFINE rows == [x \in (finite \cup poisoned) \X {n} |->
                       IF x[1] \in finite THEN AsCost(over[x[1]]) ELSE INFINITY_COST]
  <2>1. /\ DOMAIN s.bigTable \subseteq Others(r) \X Others(r)
        /\ \A x \in DOMAIN rows : x \in Others(r) \X Others(r)
    BY <1>4 DEF IsRouter, IsMap
  <2>2. \A d : <<d, n>> \in DOMAIN rows <=> d \in finite \cup poisoned
    OBVIOUS
  <2>3. taken = StoreAll(s.bigTable, rows)
    OBVIOUS
  <2> HIDE DEF rows, taken
  <2>4. DOMAIN taken = DOMAIN s.bigTable \cup DOMAIN rows
    BY <2>3 DEF StoreAll
  <2>5. DOMAIN taken \subseteq Others(r) \X Others(r)
    BY <2>1, <2>4
  <2>6. \A d : d \in DestsOver(taken, n) <=> <<d, n>> \in DOMAIN taken
    BY <2>5, RowFacts
  <2> QED
    BY <1>4, <2>2, <2>4, <2>6 DEF Withdrawn
<1> HIDE DEF gone
<1>13. gone \subseteq Others(r)
  <2>1. DOMAIN s.bigTable \subseteq Others(r) \X Others(r)
    BY DEF IsRouter, IsMap
  <2>2. \A d : <<d, n>> \in DOMAIN s.bigTable => d \in Others(r)
    BY <2>1
  <2> QED
    BY <1>12, <2>2
<1>14. /\ DOMAIN best = gone /\ AreRoutes(best, r)
       /\ \A d \in gone : best[d] \in getBestRoute(left, d)
  BY <1>7, <1>13, BestRoutesFacts
<1>15. /\ IsRouter(o.s, r, now)
       /\ Rewritten(t, o.s, gone, Restrict(best, usable(best)), now)
  BY <1>3, <1>11, <1>14, RerouteFacts
<1>16. /\ DOMAIN Restrict(best, usable(best)) = usable(best)
       /\ \A d \in usable(best) : Restrict(best, usable(best))[d] = best[d]
  BY DEF Restrict
<1>17. o.s.portStatus = s.portStatus /\ o.s.adjacencyList = adj /\ o.s.bigTable = left
  BY <1>8, <1>11, <1>15 DEF Rewritten
<1>18. \A d \in gone :
         /\ d \in DOMAIN o.s.forwardingTable <=> best[d].routeCost # NoRoute
         /\ d \in DOMAIN o.s.forwardingTable => o.s.forwardingTable[d].nextHop = best[d].nextHop
  BY <1>15, <1>16 DEF Rewritten
<1>19. \A d : d \notin gone =>
         /\ d \in DOMAIN o.s.forwardingTable <=> d \in DOMAIN s.forwardingTable \/ d \in better
         /\ d \in better => /\ o.s.forwardingTable[d].nextHop = n
                            /\ o.s.forwardingTable[d].routeCost = over[d]
         /\ d \in DOMAIN s.forwardingTable /\ d \notin better =>
              o.s.forwardingTable[d] = s.forwardingTable[d]
  BY <1>8, <1>10, <1>11, <1>15, <1>16, ZenonT(40) DEF Rewritten
<1>20. VectorTaken(s, o.s, pkt)
  BY <1>7, <1>12, <1>14, <1>17, <1>18, <1>19
  DEF VectorTaken, finite, poisoned, adj, over, better
<1> QED
  BY <1>3, <1>15, <1>20

\* What the routes that are taken are.
LEMMA TakenRoutes ==
  ASSUME NEW r \in Router, NEW s, NEW now, IsRouter(s, r, now),
         NEW pkt, pkt.sourceID \in Others(r), IsVector(pkt, pkt.sourceID)
  PROVE  LET n == pkt.sourceID IN
         /\ \A d : d \in FiniteOf(s, pkt) <=>
              d \in DOMAIN pkt.routes /\ d # r /\ pkt.routes[d] # INFINITY_COST
         /\ \A d \in PoisonedOf(s, pkt) :
              /\ d \in DOMAIN pkt.routes /\ pkt.routes[d] = INFINITY_COST
              /\ \E best \in getBestRoute(s.bigTable, d) : best.routeCost = 0
         /\ n \notin DOMAIN pkt.routes
         /\ \A d \in DOMAIN pkt.routes : pkt.routes[d] \in Cost
BY DEF IsRouter, IsVector, IsMap, Others, FiniteOf, PoisonedOf, Rows

\* What is heard of a destination the vector has: its cost, or if it is poisoned what was
\* heard before.
LEMMA LastCostsFacts ==
  ASSUME NEW old, NEW routes
  PROVE  /\ \A d : d \in DOMAIN LastCosts(old, routes) <=>
              d \in DOMAIN routes /\ (routes[d] # INFINITY_COST \/ d \in DOMAIN old)
         /\ \A d \in DOMAIN routes :
              /\ routes[d] # INFINITY_COST => LastCosts(old, routes)[d] = routes[d]
              /\ routes[d] = INFINITY_COST /\ d \in DOMAIN old => LastCosts(old, routes)[d] = old[d]
BY DEF LastCosts, PoisonedIn

LEMMA LastCostsMap ==
  ASSUME NEW S, NEW old, IsMap(old, S, 0 .. NoRoute), NEW routes, IsMap(routes, S, Cost)
  PROVE  IsMap(LastCosts(old, routes), S, 0 .. NoRoute)
<1> DEFINE last == LastCosts(old, routes)
<1>1. ASSUME NEW d \in DOMAIN last PROVE d \in S /\ last[d] \in 0 .. NoRoute
  <2>1. d \in DOMAIN routes /\ (routes[d] # INFINITY_COST \/ d \in DOMAIN old)
    BY <1>1, LastCostsFacts
  <2>2. \A c \in Cost : c # INFINITY_COST => c \in 0 .. NoRoute
    BY CostNumbers DEF NoRoute
  <2>3. CASE routes[d] # INFINITY_COST
    BY <2>1, <2>2, <2>3, LastCostsFacts DEF IsMap
  <2>4. CASE routes[d] = INFINITY_COST
    BY <2>1, <2>4, LastCostsFacts DEF IsMap
  <2> QED
    BY <2>3, <2>4
<1>2. last = [d \in DOMAIN last |-> last[d]]
  BY DEF LastCosts
<1> HIDE DEF last
<1>3. DOMAIN last \subseteq S /\ last \in [DOMAIN last -> 0 .. NoRoute]
  BY <1>1, <1>2
<1> QED
  BY <1>3 DEF IsMap, last

\* Where no row is free, no best route costs nothing.
LEMMA NoFreeRoute ==
  ASSUME NEW r \in Router, NEW s, NEW now, IsRouter(s, r, now), NoneFree(s),
         NEW d, NEW best \in getBestRoute(s.bigTable, d)
  PROVE  best.routeCost # 0
<1> DEFINE big == s.bigTable
<1>1. DOMAIN big \subseteq Others(r) \X Others(r)
  BY DEF IsRouter, IsMap
<1>2. \A h : <<d, h>> \in DOMAIN big => big[<<d, h>>] # 0
  BY DEF NoneFree
<1>3. best \in getBestRoute(big, d)
  OBVIOUS
<1> HIDE DEF big
<1>4. CASE best.nextHop = 0 /\ best.routeCost \in {NoRoute, INFINITY_COST}
  BY <1>4 DEF NoRoute, INFINITY_COST
<1>5. CASE best.nextHop \in NextHops(big, d) /\ best.routeCost = big[<<d, best.nextHop>>]
  <2>1. <<d, best.nextHop>> \in DOMAIN big
    BY <1>1, <1>5, RowFacts
  <2> QED
    BY <1>2, <1>5, <2>1
<1> QED
  BY <1>3, <1>4, <1>5, BestRouteCases

\* The finite costs r heard last, before and after vector pkt.
HeardOf(r, heard, later, pkt) ==
  /\ later[pkt.sourceID] = LastCosts(heard[pkt.sourceID], pkt.routes)
  /\ \A k \in Others(r) : k # pkt.sourceID => later[k] = heard[k]

\* The vector of a neighbour: its rows say what it says, or said last if it poisons them,
\* and the tables stay together as long as no sum wraps.
LEMMA VectorKeeps ==
  ASSUME NEW r \in Router, NEW s, NEW heard, NEW later, NEW now \in Nat, IsRouter(s, r, now), NEW e,
         NEW pkt, pkt.sourceID \in Others(r), IsVector(pkt, pkt.sourceID),
         HeardOf(r, heard, later, pkt),
         NEW o \in handleDVPacket(s, pkt, now)
  PROVE  Follows(s, o.s, r, heard, later, now) /\ Sends(e, r, o.out)
<1> DEFINE n        == pkt.sourceID
           finite   == FiniteOf(s, pkt)
           poisoned == PoisonedOf(s, pkt)
           over     == CostOver(s, pkt)
           big      == s.bigTable
           left     == o.s.bigTable
           adj      == o.s.adjacencyList
           gone(d)  == <<d, n>> \in DOMAIN s.bigTable /\ d # n /\ d \notin DOMAIN pkt.routes
<1>0. /\ later[n] = LastCosts(heard[n], pkt.routes)
      /\ \A k \in Others(r) : k # n => later[k] = heard[k]
  BY DEF HeardOf
<1>1. /\ IsRouter(o.s, r, now)
      /\ o.out = {} \/ o.out = sendUpdates(o.s)
      /\ VectorTaken(s, o.s, pkt)
  BY VectorFacts
<1>2. /\ \A d : d \in finite <=> d \in DOMAIN pkt.routes /\ d # r /\ pkt.routes[d] # INFINITY_COST
      /\ \A d \in poisoned : /\ d \in DOMAIN pkt.routes /\ pkt.routes[d] = INFINITY_COST
                             /\ \E best \in getBestRoute(s.bigTable, d) : best.routeCost = 0
      /\ n \notin DOMAIN pkt.routes
      /\ \A d \in DOMAIN pkt.routes : pkt.routes[d] \in Cost
  BY TakenRoutes
<1>3. Sends(e, r, o.out)
  <2>1. CASE o.out = {}
    BY <2>1 DEF Sends, ProbesSent
  <2>2. CASE o.out = sendUpdates(o.s)
    BY <1>1, <2>2, SendUpdatesSends
  <2> QED
    BY <1>1, <2>1, <2>2
<1>4. /\ DOMAIN adj \subseteq DOMAIN s.adjacencyList \cup {n}
      /\ \A k \in DOMAIN s.adjacencyList : k \in DOMAIN adj /\ adj[k] = s.adjacencyList[k]
      /\ finite # {} => n \in DOMAIN adj
      /\ n \in DOMAIN adj /\ n \notin DOMAIN s.adjacencyList => adj[n].timeCost = 0
  <2>1. adj = Known(s.adjacencyList, n, finite)
    BY <1>1 DEF VectorTaken
  <2>2. IsMap(s.adjacencyList, NextHop(r), NeighbourEntry(r))
    BY DEF IsRouter
  <2> HIDE DEF adj
  <2> QED
    BY <2>1, <2>2, KnownFacts
<1>5. RowsHeard(big, left, pkt, finite, poisoned, over)
  BY <1>1 DEF VectorTaken
<1>6. \A d, k : <<d, k>> \in DOMAIN left => d # r /\ k \in Others(r)
  BY <1>1 DEF IsRouter, IsMap, Others
<1>7. \A d \in finite : over[d] = adj[n].timeCost + pkt.routes[d]
  BY <1>1 DEF VectorTaken, CostOver
<1> HIDE DEF finite, poisoned, over, left, adj, big
<1>8. ASSUME NEW d, <<d, n>> \in DOMAIN left, d # n
      PROVE  /\ d \in DOMAIN pkt.routes
             /\ pkt.routes[d] < INFINITY_COST => d \in finite
  <2>1. d \in DOMAIN pkt.routes
    BY <1>2, <1>5, <1>8 DEF RowsHeard
  <2>2. pkt.routes[d] < INFINITY_COST => pkt.routes[d] # INFINITY_COST
    BY CostNumbers
  <2> QED
    BY <1>2, <1>6, <1>8, <2>1, <2>2
<1>8a. ASSUME NoneFree(s) PROVE \A d : d \notin poisoned
  <2>1. \A d : \A best \in getBestRoute(s.bigTable, d) : best.routeCost # 0
    BY <1>8a, NoFreeRoute
  <2> QED
    BY <1>2, <2>1
<1>9. ASSUME NoneFree(s), AddsUp(s, heard) PROVE AddsUp(o.s, later)
  <2>0. \A d : d \notin poisoned
    BY <1>8a, <1>9
  <2>1. ASSUME NEW k, <<k, k>> \in DOMAIN left
        PROVE  k \in DOMAIN adj /\ left[<<k, k>>] = adj[k].timeCost
    <3>1. k = n => k \notin finite \cup poisoned
      BY <1>2
    <3>2. <<k, k>> \in DOMAIN big /\ left[<<k, k>>] = big[<<k, k>>]
      BY <1>5, <2>1, <3>1 DEF RowsHeard
    <3> QED
      BY <1>4, <1>9, <3>2 DEF AddsUp, big
  <2>2. ASSUME NEW d, NEW k, <<d, k>> \in DOMAIN left, d # k
        PROVE  /\ d \in DOMAIN later[k] /\ k \in DOMAIN adj
               /\ left[<<d, k>>] = AsCost(adj[k].timeCost + later[k][d])
    <3>1. CASE k # n
      <4>1. <<d, k>> \in DOMAIN big /\ left[<<d, k>>] = big[<<d, k>>] /\ later[k] = heard[k]
        BY <1>0, <1>5, <1>6, <2>2, <3>1 DEF RowsHeard
      <4> QED
        BY <1>4, <1>9, <2>2, <4>1 DEF AddsUp, big
    <3>2. CASE k = n /\ d \in finite
      <4>1. d \in DOMAIN later[n] /\ later[n][d] = pkt.routes[d]
        BY <1>0, <1>2, <3>2, LastCostsFacts
      <4> QED
        BY <1>4, <1>5, <1>7, <3>2, <4>1 DEF RowsHeard
    <3>3. CASE k = n /\ d \notin finite
      <4>1. /\ <<d, n>> \in DOMAIN big /\ d \in DOMAIN pkt.routes
            /\ left[<<d, n>>] = big[<<d, n>>]
        BY <1>5, <2>0, <2>2, <3>3 DEF RowsHeard
      <4>2. pkt.routes[d] = INFINITY_COST
        BY <1>2, <1>6, <2>2, <3>3, <4>1
      <4>3. /\ d \in DOMAIN heard[n] /\ n \in DOMAIN s.adjacencyList
            /\ big[<<d, n>>] = AsCost(s.adjacencyList[n].timeCost + heard[n][d])
        BY <1>9, <2>2, <3>3, <4>1 DEF AddsUp, big
      <4>4. d \in DOMAIN later[n] /\ later[n][d] = heard[n][d]
        BY <1>0, <4>1, <4>2, <4>3, LastCostsFacts
      <4> QED
        BY <1>4, <3>3, <4>1, <4>3, <4>4
    <3> QED
      BY <3>1, <3>2, <3>3
  <2>3. ASSUME NEW k \in DOMAIN adj, <<k, k>> \notin DOMAIN left
        PROVE  adj[k].timeCost = 0
    <3>1. <<k, k>> \notin DOMAIN big
      BY <1>5, <2>3 DEF RowsHeard
    <3> QED
      BY <1>4, <1>9, <2>3, <3>1 DEF AddsUp, big
  <2> QED
    BY <2>1, <2>2, <2>3 DEF AddsUp, left, adj
<1>10. ASSUME Agree(s), Fits(s, heard), Fits(o.s, later) PROVE Agree(o.s)
  <2> DEFINE better == Better(s, over)
             table  == s.forwardingTable
  <2>1. \A c \in Nat : c < NoRoute => c < INFINITY_COST /\ c # NoRoute
    BY DEF NoRoute, INFINITY_COST
  <2>2. /\ \A d, k : <<d, k>> \in DOMAIN big => big[<<d, k>>] > 0 /\ big[<<d, k>>] < INFINITY_COST
        /\ \A d, k : <<d, k>> \in DOMAIN left => left[<<d, k>>] < NoRoute /\ left[<<d, k>>] < INFINITY_COST
    <3>1. /\ \A x \in DOMAIN big : big[x] \in Nat
          /\ \A x \in DOMAIN left : left[x] \in Nat
      BY <1>1, CostNumbers DEF IsRouter, IsMap, big, left
    <3> QED
      BY <1>10, <2>1, <3>1 DEF Fits, big, left
  <2>3. /\ IsMap(big, Others(r) \X Others(r), Cost) /\ DOMAIN big \subseteq Others(r) \X Others(r)
        /\ IsMap(left, Others(r) \X Others(r), Cost) /\ DOMAIN left \subseteq Others(r) \X Others(r)
    BY <1>1 DEF IsRouter, IsMap, big, left
  <2>4. \A d : d \notin poisoned
    BY <1>8a, <2>2 DEF NoneFree, big
  <2>5. \A d \in finite : <<d, n>> \in DOMAIN left /\ d # n
    BY <1>2, <1>5 DEF RowsHeard
  <2>6. ASSUME NEW d \in finite PROVE over[d] < INFINITY_COST
    <3>1. left[<<d, n>>] = AsCost(over[d]) /\ over[d] = adj[n].timeCost + pkt.routes[d]
      BY <1>5, <1>7 DEF RowsHeard
    <3>2. pkt.routes[d] \in Cost /\ pkt.routes[d] < INFINITY_COST
      <4>1. pkt.routes[d] \in Cost /\ pkt.routes[d] # INFINITY_COST
        BY <1>2
      <4>2. \A c \in Cost : c # INFINITY_COST => c < INFINITY_COST
        BY CostNumbers
      <4> QED
        BY <4>1, <4>2
    <3>3. adj[n].timeCost \in Cost
      BY <1>1, <1>4 DEF IsRouter, IsMap, NeighbourEntry, adj
    <3>4. pkt.routes[d] <= left[<<d, n>>] /\ left[<<d, n>>] < NoRoute
      <4>1. d \in DOMAIN later[n] /\ later[n][d] = pkt.routes[d]
        BY <1>0, <1>2, LastCostsFacts
      <4> QED
        BY <1>10, <2>5, <4>1 DEF Fits, left
    <3> QED
      BY <3>1, <3>2, <3>3, <3>4, NotCut
  <2>7. DOMAIN over = finite
    BY DEF over, CostOver, finite
  <2>8. /\ \A d \in better : d \in finite
        /\ \A d \in finite : d \in DOMAIN table \/ d \in better
    BY <2>6, <2>7 DEF Better, getRouteCost
  <2>9. /\ \A d : d \in DOMAIN table <=> \E k : <<d, k>> \in DOMAIN big
        /\ \A d \in DOMAIN table : <<d, table[d].nextHop>> \in DOMAIN big
    BY <1>10 DEF Agree, big
  <2> HIDE DEF better, table
  <2>10. ASSUME NEW d, ~gone(d)
         PROVE  /\ d \in DOMAIN o.s.forwardingTable <=> \E k : <<d, k>> \in DOMAIN left
                /\ d \in DOMAIN o.s.forwardingTable => <<d, o.s.forwardingTable[d].nextHop>> \in DOMAIN left
    <3>1. /\ d \in DOMAIN o.s.forwardingTable <=> d \in DOMAIN table \/ d \in better
          /\ d \in better => o.s.forwardingTable[d].nextHop = n
          /\ d \in DOMAIN table /\ d \notin better => o.s.forwardingTable[d] = table[d]
      BY <1>1, <2>10 DEF VectorTaken, table, better, over
    <3>2. \A k : <<d, k>> \in DOMAIN big => <<d, k>> \in DOMAIN left
      BY <1>5, <2>10 DEF RowsHeard, big
    <3>3. \A k : <<d, k>> \in DOMAIN left => <<d, k>> \in DOMAIN big \/ d \in finite
      BY <1>5, <2>4 DEF RowsHeard
    <3>4. d \in finite => <<d, n>> \in DOMAIN left
      BY <2>5
    <3> QED
      BY <2>8, <2>9, <3>1, <3>2, <3>3, <3>4
  <2>11. ASSUME NEW d, gone(d)
         PROVE  /\ d \in DOMAIN o.s.forwardingTable <=> \E k : <<d, k>> \in DOMAIN left
                /\ d \in DOMAIN o.s.forwardingTable => <<d, o.s.forwardingTable[d].nextHop>> \in DOMAIN left
    <3>1. ASSUME NEW best \in getBestRoute(left, d), NEW k, <<d, k>> \in DOMAIN left
          PROVE  best.routeCost # NoRoute /\ <<d, best.nextHop>> \in DOMAIN left
      <4>1. <<d, best.nextHop>> \in DOMAIN left /\ best.routeCost = left[<<d, best.nextHop>>]
        BY <2>2, <2>3, <3>1, BestRouteExists
      <4>2. left[<<d, best.nextHop>>] \in Nat
        BY <2>3, <4>1, CostNumbers DEF IsMap
      <4> QED
        BY <2>1, <2>2, <4>1, <4>2
    <3>2. ASSUME NEW best \in getBestRoute(left, d), \A k : <<d, k>> \notin DOMAIN left
          PROVE  best.routeCost = NoRoute
      BY <2>3, <3>2, BestRouteNone, ZenonT(40)
    <3>3. /\ d \in DOMAIN o.s.forwardingTable =>
               \E best \in getBestRoute(left, d) :
                 best.routeCost # NoRoute /\ o.s.forwardingTable[d].nextHop = best.nextHop
          /\ d \notin DOMAIN o.s.forwardingTable =>
               \E best \in getBestRoute(left, d) : best.routeCost = NoRoute
      BY <1>1, <2>11 DEF VectorTaken, left
    <3> QED
      BY <3>1, <3>2, <3>3
  <2> QED
    BY <2>10, <2>11 DEF Agree, left
<1> QED
  BY <1>1, <1>3, <1>9, <1>10 DEF Follows

\* The cost of the link to every neighbour behind a dead port is reset.
LEMMA ZeroCostsFacts ==
  ASSUME NEW r \in Router, NEW adj, IsMap(adj, NextHop(r), NeighbourEntry(r)),
         NEW nbrs, nbrs \subseteq NextHop(r)
  PROVE  /\ IsMap(ZeroCosts(adj, nbrs), NextHop(r), NeighbourEntry(r))
         /\ DOMAIN ZeroCosts(adj, nbrs) = DOMAIN adj \cup nbrs
         /\ \A n \in nbrs : ZeroCosts(adj, nbrs)[n].timeCost = 0
         /\ \A n \in DOMAIN adj : n \notin nbrs => ZeroCosts(adj, nbrs)[n] = adj[n]
<1> DEFINE zero == [n \in nbrs |-> [port |-> IF n \in DOMAIN adj THEN adj[n].port ELSE 0,
                                   timeCost |-> 0]]
<1>1. ZeroCosts(adj, nbrs) = StoreAll(adj, zero)
  BY DEF ZeroCosts
<1>2. \A n \in nbrs : zero[n] \in NeighbourEntry(r) /\ zero[n].timeCost = 0
  BY PortZero, CostNumbers DEF IsMap, NeighbourEntry
<1>3. DOMAIN zero = nbrs
  OBVIOUS
<1>4. IsMap(zero, NextHop(r), NeighbourEntry(r))
  BY <1>2 DEF IsMap
<1> HIDE DEF zero
<1>5. IsMap(StoreAll(adj, zero), NextHop(r), NeighbourEntry(r))
  BY <1>4, StoreAllMap
<1> QED
  BY <1>1, <1>2, <1>3, <1>5 DEF StoreAll

\* Dead ports: what lies behind them is taken from the tables, and no entry that is kept
\* is made older.
LEMMA ExpirePortsKeeps ==
  ASSUME NEW r \in Router, NEW s, NEW heard, NEW now \in Nat, IsRouter(s, r, now),
         NEW dead \in SUBSET DOMAIN s.portStatus, NEW u \in expirePorts(s, dead, now)
  PROVE  /\ Follows(s, u, r, heard, heard, now)
         /\ StaleEntries(s, now) = {} => StaleEntries(u, now) = {}
<1> DEFINE gone == {s.portStatus[p].destRouterID : p \in dead}
           lost == RoutesOver(s.forwardingTable, gone)
           left == removeRoutesWithNextHop(s.bigTable, gone)
           down == TakeDown(s, dead)
           t    == [down EXCEPT !.bigTable = left, !.adjacencyList = ZeroCosts(@, gone)]
           usable(best) == {d \in lost : best[d].nextHop # 0}
<1>1. PICK best \in BestRoutes(left, lost) : u = Reroute(t, best, usable(best), now)
  BY DEF expirePorts
<1>2. \A n \in gone : n \in Others(r) /\ n \in NextHop(r)
  BY DEF IsRouter, IsMap, PortEntry, NextHop, Others
<1>3. \A d : d \in lost <=> d \in DOMAIN s.forwardingTable /\ s.forwardingTable[d].nextHop \in gone
  BY DEF RoutesOver
<1>4. /\ DOMAIN s.bigTable \subseteq Others(r) \X Others(r)
      /\ \A x \in DOMAIN s.bigTable : s.bigTable[x] \in Cost
  BY DEF IsRouter, IsMap
<1> HIDE DEF gone, lost
<1>5. /\ IsMap(left, Others(r) \X Others(r), Cost)
      /\ \A d, k : <<d, k>> \in DOMAIN left <=> <<d, k>> \in DOMAIN s.bigTable /\ k \notin gone
      /\ \A x \in DOMAIN left : left[x] = s.bigTable[x]
  <2>1. left = Restrict(s.bigTable, {x \in DOMAIN s.bigTable : x[2] \notin gone})
    BY DEF removeRoutesWithNextHop
  <2>2. IsMap(left, Others(r) \X Others(r), Cost)
    BY <2>1, RestrictMap DEF IsRouter
  <2>3. \A d, k : <<d, k>>[2] = k
    OBVIOUS
  <2> HIDE DEF left
  <2> QED
    BY <2>1, <2>2, <2>3 DEF Restrict
<1> HIDE DEF left
<1> DEFINE ports == [p \in DOMAIN s.portStatus |->
                      IF p \in dead
                      THEN [s.portStatus[p] EXCEPT !.timeCost = INFINITY_COST, !.isUp = FALSE]
                      ELSE s.portStatus[p]]
<1>6. /\ DOMAIN t = RouterFields /\ t.id = s.id
      /\ t.portStatus = ports /\ t.bigTable = left
      /\ t.adjacencyList = ZeroCosts(s.adjacencyList, gone)
      /\ t.forwardingTable = s.forwardingTable
  BY DEF IsRouter, RouterFields, TakeDown
<1>7. IsMap(ports, Ports[r], PortEntry(now)) /\ \A p \in DOMAIN ports : ports[p].destRouterID # r
  <2>1. \A p \in DOMAIN s.portStatus :
          ports[p] \in PortEntry(now) /\ ports[p].destRouterID = s.portStatus[p].destRouterID
    BY CostNumbers, ZenonT(40) DEF IsRouter, IsMap, PortEntry
  <2>2. DOMAIN ports = DOMAIN s.portStatus
    OBVIOUS
  <2>3. ports \in [DOMAIN ports -> PortEntry(now)]
    BY <2>1
  <2> HIDE DEF ports
  <2> QED
    BY <2>1, <2>2, <2>3 DEF IsRouter, IsMap
<1> DEFINE adj == ZeroCosts(s.adjacencyList, gone)
<1>8. /\ IsMap(adj, NextHop(r), NeighbourEntry(r))
      /\ DOMAIN adj = DOMAIN s.adjacencyList \cup gone
      /\ \A n \in gone : adj[n].timeCost = 0
      /\ \A n \in DOMAIN s.adjacencyList : n \notin gone => adj[n] = s.adjacencyList[n]
  <2>1. IsMap(s.adjacencyList, NextHop(r), NeighbourEntry(r)) /\ gone \subseteq NextHop(r)
    BY <1>2 DEF IsRouter
  <2> QED
    BY <2>1, ZeroCostsFacts, ZenonT(40)
<1> HIDE DEF t, adj, ports
<1>9. IsRouter(t, r, now)
  BY <1>5, <1>6, <1>7, <1>8 DEF IsRouter, adj
<1>10. lost \subseteq Others(r)
  BY <1>3 DEF IsRouter, IsMap
<1>11. /\ DOMAIN best = lost /\ AreRoutes(best, r)
       /\ \A d \in lost : best[d] \in getBestRoute(left, d)
  BY <1>5, <1>10, BestRoutesFacts
<1>12. IsRouter(u, r, now) /\ Rewritten(t, u, lost, Restrict(best, usable(best)), now)
  BY <1>1, <1>9, <1>11, RerouteFacts
<1>13. /\ DOMAIN Restrict(best, usable(best)) = usable(best)
       /\ \A d \in usable(best) : Restrict(best, usable(best))[d] = best[d]
  BY DEF Restrict
<1>14. /\ u.bigTable = left /\ u.adjacencyList = adj
       /\ \A d \in lost : /\ d \in DOMAIN u.forwardingTable <=> best[d].nextHop # 0
                          /\ d \in DOMAIN u.forwardingTable =>
                               /\ u.forwardingTable[d].nextHop = best[d].nextHop
                               /\ u.forwardingTable[d].lastUpdate = now
       /\ \A d : d \notin lost =>
            /\ d \in DOMAIN u.forwardingTable <=> d \in DOMAIN s.forwardingTable
            /\ d \in DOMAIN u.forwardingTable => u.forwardingTable[d] = s.forwardingTable[d]
  BY <1>6, <1>12, <1>13 DEF Rewritten, adj
<1> HIDE DEF usable
<1>15. ASSUME AddsUp(s, heard) PROVE AddsUp(u, heard)
  BY <1>5, <1>8, <1>14, <1>15 DEF AddsUp
<1>16. ASSUME Agree(s), Fits(s, heard) PROVE Agree(u)
  <2>1. \A d, k : <<d, k>> \in DOMAIN left => left[<<d, k>>] < INFINITY_COST
    <3>1. \A c \in Cost : c < NoRoute => c < INFINITY_COST
      BY CostRange DEF NoRoute, INFINITY_COST
    <3>2. \A d, k : <<d, k>> \in DOMAIN s.bigTable => s.bigTable[<<d, k>>] < NoRoute
      BY <1>16 DEF Fits
    <3> QED
      BY <1>4, <1>5, <3>1, <3>2
  <2>2. DOMAIN left \subseteq Others(r) \X Others(r)
    BY <1>5 DEF IsMap
  <2>3. ASSUME NEW d \in lost, NEW k, <<d, k>> \in DOMAIN left
        PROVE  best[d].nextHop # 0 /\ <<d, best[d].nextHop>> \in DOMAIN left
    <3>1. best[d] \in getBestRoute(left, d)
      BY <1>11
    <3>2. <<d, best[d].nextHop>> \in DOMAIN left
      BY <1>5, <2>1, <2>3, <3>1, BestRouteExists
    <3>3. best[d].nextHop \in Others(r)
      BY <2>2, <3>2
    <3> QED
      BY <3>2, <3>3, ZeroIsNoRouter DEF Others
  <2>4. ASSUME NEW d \in lost, \A k : <<d, k>> \notin DOMAIN left
        PROVE  best[d].nextHop = 0
    <3>1. best[d] \in getBestRoute(left, d)
      BY <1>11
    <3> QED
      BY <2>2, <2>4, <3>1, BestRouteNone
  <2>5. ASSUME NEW d, d \notin lost
        PROVE  /\ d \in DOMAIN u.forwardingTable <=> \E k : <<d, k>> \in DOMAIN left
               /\ d \in DOMAIN u.forwardingTable => <<d, u.forwardingTable[d].nextHop>> \in DOMAIN left
    BY <1>3, <1>5, <1>14, <1>16, <2>5 DEF Agree
  <2>6. ASSUME NEW d \in lost
        PROVE  /\ d \in DOMAIN u.forwardingTable <=> \E k : <<d, k>> \in DOMAIN left
               /\ d \in DOMAIN u.forwardingTable => <<d, u.forwardingTable[d].nextHop>> \in DOMAIN left
    BY <1>14, <2>3, <2>4, <2>6
  <2> QED
    BY <1>14, <2>5, <2>6 DEF Agree
<1>17. ASSUME StaleEntries(s, now) = {} PROVE StaleEntries(u, now) = {}
  <2>1. \A d \in DOMAIN s.forwardingTable : ~(now - s.forwardingTable[d].lastUpdate > EntryLifetime)
    BY <1>17 DEF StaleEntries
  <2>2. ~(now - now > EntryLifetime)
    BY DEF EntryLifetime
  <2>3. \A d \in DOMAIN u.forwardingTable : ~(now - u.forwardingTable[d].lastUpdate > EntryLifetime)
    BY <1>14, <2>1, <2>2
  <2> QED
    BY <2>3 DEF StaleEntries
<1> QED
  BY <1>12, <1>15, <1>16, <1>17, SMTT(30) DEF Follows

\* The freshness alarm.  Expired entries are the ones that leave the tables apart.
LEMMA FreshnessKeeps ==
  ASSUME NEW r \in Router, NEW s, NEW heard, NEW now \in Nat, IsRouter(s, r, now), NEW e,
         NEW o \in checkFreshness(s, now)
  PROVE  /\ IsRouter(o.s, r, now) /\ Sends(e, r, o.out)
         /\ StaleEntries(s, now) = {} => Follows(s, o.s, r, heard, heard, now)
<1> DEFINE dead == DeadPorts(s, now)
           afterPorts == IF dead = {} THEN Keep(s)
                         ELSE {[s |-> t, out |-> sendUpdates(t)] : t \in expirePorts(s, dead, now)}
           u(o1) == expireEntries(o1.s, StaleEntries(o1.s, now))
           withEntries(o1) == IF StaleEntries(o1.s, now) = {} THEN o1
                              ELSE [s |-> u(o1), out |-> o1.out \cup sendUpdates(u(o1))]
<1>1. checkFreshness(s, now) = {withEntries(o1) : o1 \in afterPorts}
  BY DEF checkFreshness
<1>2. PICK o1 \in afterPorts : o = withEntries(o1)
  BY <1>1
<1>3. /\ Follows(s, o1.s, r, heard, heard, now) /\ Sends(e, r, o1.out)
      /\ StaleEntries(s, now) = {} => StaleEntries(o1.s, now) = {}
  <2>1. CASE dead = {}
    <3>1. o1.s = s /\ o1.out = {}
      BY <2>1 DEF Keep
    <3> QED
      BY <3>1, SameFollows DEF Sends, ProbesSent
  <2>2. CASE dead # {}
    <3>1. PICK t \in expirePorts(s, dead, now) : o1 = [s |-> t, out |-> sendUpdates(t)]
      BY <2>2
    <3>2. dead \in SUBSET DOMAIN s.portStatus
      BY DEF DeadPorts
    <3>3. /\ Follows(s, t, r, heard, heard, now)
          /\ StaleEntries(s, now) = {} => StaleEntries(t, now) = {}
      BY <3>2, ExpirePortsKeeps
    <3>4. Sends(e, r, sendUpdates(t))
      BY <3>3, SendUpdatesSends DEF Follows
    <3> QED
      BY <3>1, <3>3, <3>4
  <2> QED
    BY <2>1, <2>2
<1>4. CASE StaleEntries(o1.s, now) = {}
  <2>1. o = o1
    BY <1>2, <1>4
  <2> QED
    BY <1>3, <2>1 DEF Follows
<1>5. CASE StaleEntries(o1.s, now) # {}
  <2> DEFINE stale == StaleEntries(o1.s, now)
             table == Restrict(o1.s.forwardingTable, DOMAIN o1.s.forwardingTable \ stale)
             adj   == ZeroCosts(o1.s.adjacencyList, stale)
  <2>1. o.s = expireEntries(o1.s, stale) /\ o.out = o1.out \cup sendUpdates(o.s)
    BY <1>2, <1>5
  <2>2. IsRouter(o1.s, r, now)
    BY <1>3 DEF Follows
  <2>3. stale \subseteq NextHop(r)
    BY <2>2 DEF StaleEntries, IsRouter, IsMap, NextHop, Others
  <2> HIDE DEF stale
  <2>4. IsMap(table, Others(r), RouteEntry(r, now)) /\ IsMap(adj, NextHop(r), NeighbourEntry(r))
    <3>1. IsMap(adj, NextHop(r), NeighbourEntry(r))
      BY <2>2, <2>3, ZeroCostsFacts DEF IsRouter
    <3> QED
      BY <2>2, <3>1, RestrictMap DEF IsRouter
  <2>5. /\ DOMAIN o.s = RouterFields /\ o.s.id = o1.s.id
        /\ o.s.portStatus = o1.s.portStatus /\ o.s.bigTable = o1.s.bigTable
        /\ o.s.forwardingTable = table /\ o.s.adjacencyList = adj
    BY <2>1, <2>2 DEF expireEntries, IsRouter, RouterFields
  <2> HIDE DEF table, adj
  <2>6. IsRouter(o.s, r, now)
    BY <2>2, <2>4, <2>5 DEF IsRouter
  <2>7. Sends(e, r, sendUpdates(o.s))
    BY <2>6, SendUpdatesSends
  <2>8. Sends(e, r, o.out)
    BY <1>3, <2>1, <2>7 DEF Sends, ProbesSent
  <2> QED
    BY <1>3, <1>5, <2>6, <2>8
<1> QED
  BY <1>4, <1>5

\* PINGs and answers to them.
LEMMA SendPingsSends ==
  ASSUME NEW r \in Router, NEW s, NEW e, s.id = r
  PROVE  Sends(e, r, sendPings(s, e.time))
BY DEF Sends, ProbesSent, sendPings, To

LEMMA PingSends ==
  ASSUME NEW r \in Router, NEW s, NEW e, s.id = r,
         e.kind = "Recv", e.pkt.type = "PING", e.dport \in Ports[r],
         NEW o \in handlePings(s, e.dport, e.pkt)
  PROVE  o.s = s /\ Sends(e, r, o.out)
BY DEF Sends, ProbesSent, handlePings, To

-----------------------------------------------------------------------------
\* The network.

\* The inductive invariant behind the type invariant: every router is well formed, and so
\* are the vectors in flight, each sent by the router it names, and those heard.
StatesOK ==
  /\ DOMAIN router = Router
  /\ \A r \in Router : IsRouter(router[r], r, global_time)

HeardOK ==
  /\ DOMAIN told = Router
  /\ \A r \in Router : DOMAIN told[r] = Router
  /\ \A r, n \in Router : IsMap(told[r][n], Others(n), 0 .. NoRoute)
  /\ poisonedBy \in [Router -> [Router -> SUBSET Router]]

VectorsOK == \A f \in InFlight : f.pkt.type = "DV" => IsVector(f.pkt, Sender(f))

DVInv == SimInv /\ ProbesOK /\ StatesOK /\ HeardOK /\ VectorsOK

\* Event e is handled by router r in state s with outcome o.
Handled(s, e, r, o) ==
  \/ /\ e.kind = "XmitEndToEnd" /\ r = e.src
     /\ o \in handleData(s, [type |-> "DATA", src |-> e.src, dst |-> e.dst])
  \/ /\ e.kind = "Recv" /\ r = e.dest
     /\ \/ e.pkt.type = "PING" /\ o \in handlePings(s, e.dport, e.pkt)
        \/ e.pkt.type = "PONG" /\ o \in handlePongs(s, e.dport, e.pkt, e.time)
        \/ e.pkt.type = "DATA" /\ o \in handleData(s, e.pkt)
        \/ e.pkt.type = "DV" /\ o \in handleDVPacket(s, e.pkt, e.time)
  \/ /\ e.kind = "Alarm" /\ r = e.router
     /\ \/ e.type = "PingPong" /\ o = [s |-> s, out |-> sendPings(s, e.time)]
        \/ e.type = "Update" /\ o = [s |-> s, out |-> sendUpdates(s)]
        \/ e.type = "Freshness" /\ o \in checkFreshness(s, e.time)

\* Only the arrival of a vector adds to what has been heard.
Tells(e) ==
  IF e.kind = "Recv" /\ e.pkt.type = "DV"
  THEN /\ told' = [told EXCEPT ![e.dest][e.pkt.sourceID] = LastCosts(@, e.pkt.routes)]
       /\ poisonedBy' = [poisonedBy EXCEPT ![e.dest][e.pkt.sourceID] = PoisonedIn(e.pkt.routes)]
  ELSE UNCHANGED <<told, poisonedBy>>

RouterStep(e, r, o) == Turn(e, r, o) /\ Handled(router[r], e, r, o) /\ Tells(e)

RouterNext ==
  \/ /\ XmitEndToEnd \/ RecvPing \/ RecvPong \/ RecvData
        \/ PingPongAlarm \/ UpdateAlarm \/ FreshnessAlarm
     /\ UNCHANGED <<told, poisonedBy>>
  \/ RecvDV

\* Every action of a router is a step of this kind.
LEMMA RouterNextSteps ==
  ASSUME SimInv, RouterNext
  PROVE  \E e, r, o : RouterStep(e, r, o)
<1>1. \A e \in Top(event_q) : EventFits(e, global_time)
  BY TopFacts DEF SimInv
<1>2. ASSUME NEW e \in Top(event_q), e.kind # "Alarm", NEW r \in Router, NEW outcomes,
             Handle(e, r, outcomes, {}), \A o \in outcomes : Handled(router[r], e, r, o), Tells(e)
      PROVE  \E f, q, o : RouterStep(f, q, o)
  <2>1. {} = SetAgain(e)
    BY <1>2 DEF SetAgain
  <2>2. PICK o \in outcomes : Turn(e, r, o)
    BY <1>2, <2>1, HandleTurn
  <2> QED
    BY <1>2, <2>2 DEF RouterStep
<1>3. ASSUME NEW type, NEW e \in Arrivals(type), NEW outcomes, Handle(e, e.dest, outcomes, {}),
             \A o \in outcomes : Handled(router[e.dest], e, e.dest, o), Tells(e)
      PROVE  \E f, q, o : RouterStep(f, q, o)
  BY <1>1, <1>2, <1>3 DEF EventFits, Arrivals
<1>4. ASSUME NEW type, NEW e \in Alarms(type), NEW outcomes, Handle(e, e.router, outcomes, Again(e)),
             \A o \in outcomes : Handled(router[e.router], e, e.router, o), UNCHANGED <<told, poisonedBy>>
      PROVE  \E f, q, o : RouterStep(f, q, o)
  <2>1. e \in Top(event_q) /\ e.kind = "Alarm" /\ e.router \in Router /\ Again(e) = SetAgain(e)
    BY <1>1 DEF EventFits, Alarms, SetAgain
  <2>2. PICK o \in outcomes : Turn(e, e.router, o)
    BY <1>4, <2>1, HandleTurn
  <2>3. Tells(e)
    BY <1>4, <2>1 DEF Tells
  <2> QED
    BY <1>4, <2>2, <2>3 DEF RouterStep
<1>5. CASE XmitEndToEnd /\ UNCHANGED <<told, poisonedBy>>
  <2> DEFINE pkt(e) == [type |-> "DATA", src |-> e.src, dst |-> e.dst]
  <2>1. PICK e \in Top(event_q) :
          e.kind = "XmitEndToEnd" /\ Handle(e, e.src, handleData(router[e.src], pkt(e)), {})
    BY <1>5 DEF XmitEndToEnd
  <2>2. \A o \in handleData(router[e.src], pkt(e)) : Handled(router[e.src], e, e.src, o)
    BY <2>1 DEF Handled
  <2>3. Tells(e) /\ e.src \in Router
    BY <1>1, <1>5, <2>1 DEF Tells, EventFits
  <2> QED
    BY <1>2, <2>1, <2>2, <2>3
<1>6. CASE RecvPing /\ UNCHANGED <<told, poisonedBy>>
  <2>1. PICK e \in Arrivals("PING") : Handle(e, e.dest, handlePings(router[e.dest], e.dport, e.pkt), {})
    BY <1>6 DEF RecvPing
  <2>2. \A o \in handlePings(router[e.dest], e.dport, e.pkt) : Handled(router[e.dest], e, e.dest, o)
    BY <2>1 DEF Handled, Arrivals
  <2>3. Tells(e)
    BY <1>6 DEF Tells, Arrivals
  <2> QED
    BY <1>3, <2>1, <2>2, <2>3
<1>7. CASE RecvPong /\ UNCHANGED <<told, poisonedBy>>
  <2>1. PICK e \in Arrivals("PONG") :
          Handle(e, e.dest, handlePongs(router[e.dest], e.dport, e.pkt, e.time), {})
    BY <1>7 DEF RecvPong
  <2>2. \A o \in handlePongs(router[e.dest], e.dport, e.pkt, e.time) : Handled(router[e.dest], e, e.dest, o)
    BY <2>1 DEF Handled, Arrivals
  <2>3. Tells(e)
    BY <1>7 DEF Tells, Arrivals
  <2> QED
    BY <1>3, <2>1, <2>2, <2>3
<1>8. CASE RecvData /\ UNCHANGED <<told, poisonedBy>>
  <2>1. PICK e \in Arrivals("DATA") : Handle(e, e.dest, handleData(router[e.dest], e.pkt), {})
    BY <1>8 DEF RecvData
  <2>2. \A o \in handleData(router[e.dest], e.pkt) : Handled(router[e.dest], e, e.dest, o)
    BY <2>1 DEF Handled, Arrivals
  <2>3. Tells(e)
    BY <1>8 DEF Tells, Arrivals
  <2> QED
    BY <1>3, <2>1, <2>2, <2>3
<1>9. CASE RecvDV
  <2>1. PICK e \in Arrivals("DV") :
          /\ Handle(e, e.dest, handleDVPacket(router[e.dest], e.pkt, e.time), {})
          /\ told' = [told EXCEPT ![e.dest][e.pkt.sourceID] = LastCosts(@, e.pkt.routes)]
          /\ poisonedBy' = [poisonedBy EXCEPT ![e.dest][e.pkt.sourceID] = PoisonedIn(e.pkt.routes)]
    BY <1>9 DEF RecvDV
  <2>2. \A o \in handleDVPacket(router[e.dest], e.pkt, e.time) : Handled(router[e.dest], e, e.dest, o)
    BY <2>1 DEF Handled, Arrivals
  <2>3. Tells(e)
    BY <2>1 DEF Tells, Arrivals
  <2> QED
    BY <1>3, <2>1, <2>2, <2>3
<1>10. CASE PingPongAlarm /\ UNCHANGED <<told, poisonedBy>>
  <2>1. PICK e \in Alarms("PingPong") :
          Handle(e, e.router, {[s |-> router[e.router], out |-> sendPings(router[e.router], e.time)]}, Again(e))
    BY <1>10 DEF PingPongAlarm
  <2>2. \A o \in {[s |-> router[e.router], out |-> sendPings(router[e.router], e.time)]} :
          Handled(router[e.router], e, e.router, o)
    BY <2>1 DEF Handled, Alarms
  <2> QED
    BY <1>4, <1>10, <2>1, <2>2
<1>11. CASE UpdateAlarm /\ UNCHANGED <<told, poisonedBy>>
  <2>1. PICK e \in Alarms("Update") :
          Handle(e, e.router, {[s |-> router[e.router], out |-> sendUpdates(router[e.router])]}, Again(e))
    BY <1>11 DEF UpdateAlarm
  <2>2. \A o \in {[s |-> router[e.router], out |-> sendUpdates(router[e.router])]} :
          Handled(router[e.router], e, e.router, o)
    BY <2>1 DEF Handled, Alarms
  <2> QED
    BY <1>4, <1>11, <2>1, <2>2
<1>12. CASE FreshnessAlarm /\ UNCHANGED <<told, poisonedBy>>
  <2>1. PICK e \in Alarms("Freshness") :
          Handle(e, e.router, checkFreshness(router[e.router], e.time), Again(e))
    BY <1>12 DEF FreshnessAlarm
  <2>2. \A o \in checkFreshness(router[e.router], e.time) : Handled(router[e.router], e, e.router, o)
    BY <2>1 DEF Handled, Alarms
  <2> QED
    BY <1>4, <1>12, <2>1, <2>2
<1> QED
  BY <1>5, <1>6, <1>7, <1>8, <1>9, <1>10, <1>11, <1>12 DEF RouterNext

\* What a router does with an event keeps it well formed, and consistent where no entry of
\* its forwarding table expires.
LEMMA StepFollows ==
  ASSUME DVInv, NEW e, NEW r, NEW o, RouterStep(e, r, o)
  PROVE  /\ IsRouter(o.s, r, e.time) /\ Sends(e, r, o.out)
         /\ RoutesRenewed => Follows(router[r], o.s, r, told[r], told'[r], e.time)
         /\ HeardOK' /\ \A q \in Router : q # r => told'[q] = told[q]
<1>1. /\ e \in Top(event_q) /\ e \in Pending /\ r \in Router /\ EventFits(e, global_time)
      /\ e.time \in Nat /\ global_time \in Nat /\ global_time <= e.time
      /\ Handled(router[r], e, r, o) /\ Tells(e)
  BY TopFacts DEF RouterStep, Turn, DVInv, SimInv, SimTypeOK, EventFits
<1> DEFINE s == router[r]
<1>2. IsRouter(s, r, e.time) /\ s.id = r
  BY <1>1, RouterLater DEF DVInv, StatesOK, IsRouter
<1>3. e.kind = "Recv" =>
        /\ e \in InFlight /\ e.dport \in Ports[e.dest]
        /\ Sender(e) \in Others(e.dest)
  BY <1>1, SenderFacts DEF InFlight, EventFits, Others
<1>4. ASSUME ~(e.kind = "Recv" /\ e.pkt.type = "DV")
      PROVE  told' = told /\ HeardOK'
  BY <1>1, <1>4 DEF Tells, DVInv, HeardOK
<1> HIDE DEF s
<1>5. CASE e.kind = "XmitEndToEnd"
  <2>1. o \in handleData(s, [type |-> "DATA", src |-> e.src, dst |-> e.dst])
    BY <1>1, <1>5 DEF Handled, s
  <2>2. Follows(s, o.s, r, told[r], told[r], e.time) /\ Sends(e, r, o.out)
    <3>1. [type |-> "DATA", src |-> e.src, dst |-> e.dst].type = "DATA"
      OBVIOUS
    <3> QED
      BY <1>1, <1>2, <2>1, <3>1, DataKeeps
  <2> QED
    BY <1>4, <1>5, <2>2 DEF Follows, s
<1>6. CASE e.kind = "Recv" /\ e.pkt.type = "PING"
  <2>1. o \in handlePings(s, e.dport, e.pkt) /\ r = e.dest
    BY <1>1, <1>6 DEF Handled, s
  <2>2. o.s = s /\ Sends(e, r, o.out)
    BY <1>1, <1>2, <1>3, <1>6, <2>1, PingSends
  <2>3. Follows(s, o.s, r, told[r], told[r], e.time)
    BY <1>2, <2>2, SameFollows
  <2> QED
    BY <1>4, <1>6, <2>2, <2>3 DEF Follows, s
<1>7. CASE e.kind = "Recv" /\ e.pkt.type = "PONG"
  <2>1. o \in handlePongs(s, e.dport, e.pkt, e.time) /\ r = e.dest
    BY <1>1, <1>7 DEF Handled, s
  <2>2. e.pkt.sourceID \in Others(r) /\ e.pkt.stamp \in Nat
    BY <1>3, <1>7, <2>1 DEF DVInv, ProbesOK, ProbeOK
  <2>3. \A n \in Others(r) : \A d \in DOMAIN told[r][n] : told[r][n][d] \in Cost
    <3>1. \A c \in 0 .. NoRoute : c \in Cost
      BY CostNumbers DEF NoRoute
    <3> QED
      BY <1>1, <3>1 DEF DVInv, HeardOK, IsMap, Others
  <2>4. Follows(s, o.s, r, told[r], told[r], e.time) /\ Sends(e, r, o.out)
    BY <1>1, <1>2, <1>3, <1>7, <2>1, <2>2, <2>3, PongKeeps
  <2> QED
    BY <1>4, <1>7, <2>4 DEF Follows, s
<1>8. CASE e.kind = "Recv" /\ e.pkt.type = "DATA"
  <2>1. o \in handleData(s, e.pkt)
    BY <1>1, <1>8 DEF Handled, s
  <2>2. Follows(s, o.s, r, told[r], told[r], e.time) /\ Sends(e, r, o.out)
    BY <1>1, <1>2, <1>8, <2>1, DataKeeps
  <2> QED
    BY <1>4, <1>8, <2>2 DEF Follows, s
<1>9. CASE e.kind = "Recv" /\ e.pkt.type = "DV"
  <2>1. o \in handleDVPacket(s, e.pkt, e.time) /\ r = e.dest
    BY <1>1, <1>9 DEF Handled, s
  <2>2. e.pkt.sourceID \in Others(r) /\ IsVector(e.pkt, e.pkt.sourceID)
    BY <1>3, <1>9, <2>1 DEF DVInv, VectorsOK, IsVector
  <2> DEFINE n == e.pkt.sourceID
  <2>3. n \in Router /\ IsMap(e.pkt.routes, Others(n), Cost)
    BY <2>2 DEF IsVector, Others
  <2>4. /\ told' = [told EXCEPT ![r][n] = LastCosts(@, e.pkt.routes)]
        /\ poisonedBy' = [poisonedBy EXCEPT ![r][n] = PoisonedIn(e.pkt.routes)]
    BY <1>1, <1>9, <2>1 DEF Tells
  <2>5. /\ DOMAIN told = Router /\ DOMAIN told[r] = Router
        /\ \A q, k \in Router : IsMap(told[q][k], Others(k), 0 .. NoRoute)
        /\ poisonedBy \in [Router -> [Router -> SUBSET Router]]
    BY <1>1 DEF DVInv, HeardOK
  <2> HIDE DEF n
  <2>6. /\ told'[r][n] = LastCosts(told[r][n], e.pkt.routes)
        /\ \A k \in Router : k # n => told'[r][k] = told[r][k]
        /\ \A q \in Router : q # r => told'[q] = told[q]
    BY <1>1, <2>3, <2>4, <2>5
  <2>7. HeardOK'
    <3>1. DOMAIN told' = Router /\ \A q \in Router : DOMAIN told'[q] = Router
      BY <2>4, <2>5 DEF DVInv, HeardOK
    <3>2. IsMap(told'[r][n], Others(n), 0 .. NoRoute)
      BY <1>1, <2>3, <2>5, <2>6, LastCostsMap
    <3>3. \A q, k \in Router : IsMap(told'[q][k], Others(k), 0 .. NoRoute)
      BY <2>3, <2>5, <2>6, <3>2
    <3>4. PoisonedIn(e.pkt.routes) \subseteq Router
      BY <2>3 DEF PoisonedIn, IsMap, Others
    <3>5. poisonedBy' \in [Router -> [Router -> SUBSET Router]]
      BY <1>1, <2>3, <2>4, <2>5, <3>4
    <3> QED
      BY <3>1, <3>3, <3>5 DEF HeardOK
  <2>8. Follows(s, o.s, r, told[r], told'[r], e.time) /\ Sends(e, r, o.out)
    <3> DEFINE heard == told[r]
               later == told'[r]
    <3>1. \A k \in Others(r) : k # e.pkt.sourceID => later[k] = heard[k]
      BY <2>6 DEF Others, n
    <3>2. HeardOf(r, heard, later, e.pkt)
      BY <2>6, <3>1 DEF n, HeardOf
    <3>3. r \in Router /\ e.time \in Nat
      BY <1>1
    <3> HIDE DEF heard, later
    <3>4. Follows(s, o.s, r, heard, later, e.time) /\ Sends(e, r, o.out)
      BY <1>2, <2>1, <2>2, <3>2, <3>3, VectorKeeps
    <3> QED
      BY <3>4 DEF heard, later
  <2> QED
    BY <2>6, <2>7, <2>8 DEF Follows, s
<1>10. CASE e.kind = "Alarm"
  <2>0. told' = told /\ HeardOK' /\ e.router = r
    BY <1>1, <1>4, <1>10 DEF Handled
  <2>1. CASE o = [s |-> s, out |-> sendPings(s, e.time)]
    <3>1. Sends(e, r, sendPings(s, e.time))
      BY <1>1, <1>2, SendPingsSends DEF IsRouter
    <3>2. o.s = s /\ Sends(e, r, o.out)
      BY <2>1, <3>1
    <3>3. Follows(s, o.s, r, told[r], told[r], e.time)
      BY <1>2, <3>2, SameFollows
    <3> QED
      BY <2>0, <3>2, <3>3 DEF Follows, s
  <2>2. CASE o = [s |-> s, out |-> sendUpdates(s)]
    <3>1. o.s = s /\ Sends(e, r, o.out)
      BY <1>1, <1>2, <2>2, SendUpdatesSends
    <3>2. Follows(s, o.s, r, told[r], told[r], e.time)
      BY <1>2, <3>1, SameFollows
    <3> QED
      BY <2>0, <3>1, <3>2 DEF Follows, s
  <2>3. CASE e.type = "Freshness" /\ o \in checkFreshness(s, e.time)
    <3>1. RoutesRenewed => StaleEntries(s, e.time) = {}
      <4>1. e \in Top(event_q) /\ s = router[e.router]
        BY <1>1, <2>0 DEF s
      <4>2. e \in Alarms("Freshness")
        BY <1>10, <2>3, <4>1 DEF Alarms
      <4> QED
        BY <4>1, <4>2 DEF RoutesRenewed
    <3>2. /\ IsRouter(o.s, r, e.time) /\ Sends(e, r, o.out)
          /\ StaleEntries(s, e.time) = {} => Follows(s, o.s, r, told[r], told[r], e.time)
      BY <1>1, <1>2, <2>3, FreshnessKeeps
    <3> QED
      BY <2>0, <3>1, <3>2 DEF s
  <2> QED
    BY <1>1, <1>10, <2>1, <2>2, <2>3 DEF Handled, s
<1> QED
  BY <1>1, <1>5, <1>6, <1>7, <1>8, <1>9, <1>10 DEF Handled

\* A step of a router keeps the invariant.
LEMMA StepDVInv ==
  ASSUME DVInv, NEW e, NEW r, NEW o, RouterStep(e, r, o)
  PROVE  DVInv'
<1>1. /\ Turn(e, r, o) /\ r \in Router
      /\ e.time \in Nat /\ global_time \in Nat /\ global_time <= e.time /\ global_time' = e.time
      /\ router' = [router EXCEPT ![r] = o.s]
  BY LinkFitsLater DEF RouterStep, Turn, Dispatch, DVInv
<1>2. /\ IsRouter(o.s, r, e.time) /\ Sends(e, r, o.out)
      /\ HeardOK'
  BY StepFollows
<1>3. SimInv' /\ ProbesOK'
  <2>1. (\A m \in o.out : m.port \in Ports[r]) /\ ProbesSent(e, r, o.out)
    BY <1>2 DEF Sends
  <2> QED
    BY <1>1, <2>1, TurnInv, TurnProbes DEF DVInv
<1>4. StatesOK'
  <2>1. DOMAIN router' = Router /\ router'[r] = o.s
    BY <1>1 DEF DVInv, StatesOK
  <2>2. ASSUME NEW q \in Router PROVE IsRouter(router'[q], q, global_time')
    <3>1. CASE q = r
      BY <1>1, <1>2, <2>1, <3>1
    <3>2. CASE q # r
      <4>1. router'[q] = router[q] /\ IsRouter(router[q], q, global_time)
        BY <1>1, <3>2 DEF DVInv, StatesOK
      <4> QED
        BY <1>1, <4>1, RouterLater
    <3> QED
      BY <3>1, <3>2
  <2> QED
    BY <2>1, <2>2 DEF StatesOK
<1>5. ASSUME NEW f \in InFlight', f.pkt.type = "DV"
      PROVE  IsVector(f.pkt, Sender(f))
  <2>1. CASE f \in InFlight
    BY <1>5, <2>1 DEF DVInv, VectorsOK
  <2>2. CASE f \notin InFlight
    <3>1. PICK m \in o.out : Carries(f, r, m)
      BY <1>1, <1>5, <2>2, TurnPackets DEF DVInv
    <3>2. f.pkt = m.pkt /\ Sender(f) = r
      BY <1>1, <1>2, <3>1, CarriesFacts DEF Carries, Sends
    <3> QED
      BY <1>2, <1>5, <3>2 DEF Sends
  <2> QED
    BY <2>1, <2>2
<1>6. VectorsOK'
  BY <1>5 DEF VectorsOK, Sender
<1> QED
  BY <1>2, <1>3, <1>4, <1>6 DEF DVInv

\* So do the simulator's own events.
LEMMA SimDVInv ==
  ASSUME DVInv, SimNext, UNCHANGED <<router, told, poisonedBy>>
  PROVE  DVInv'
<1>1. SimInv' /\ ProbesOK'
  BY SimNextInv, SimProbes DEF DVInv
<1>2. global_time \in Nat /\ global_time' \in Nat /\ global_time <= global_time'
  <2>1. \E e \in Top(event_q) : global_time' = e.time
    BY DEF SimNext, LinkDie, LinkComeUp, ChangeDelay, Transmit, LosePacket, Dispatch
  <2> QED
    BY <2>1, LinkFitsLater DEF DVInv
<1>3. StatesOK'
  BY <1>2, RouterLater DEF DVInv, StatesOK
<1>4. ASSUME NEW f \in InFlight', f.pkt.type = "DV"
      PROVE  IsVector(f.pkt, Sender(f))
  <2>1. PICK e \in InFlight : SamePacket(e, f)
    BY SimPackets DEF DVInv
  <2>2. e.pkt = f.pkt /\ Sender(e) = Sender(f)
    BY <2>1 DEF SamePacket, Sender
  <2> QED
    BY <1>4, <2>2 DEF DVInv, VectorsOK
<1>5. VectorsOK' /\ HeardOK'
  BY <1>4 DEF VectorsOK, Sender, DVInv, HeardOK
<1> QED
  BY <1>1, <1>3, <1>5 DEF DVInv

\* A network starts in order, and no router knows anything.
LEMMA InitDVInv ==
  Init => /\ DVInv /\ OneAlarmEach
          /\ \A r \in Router : AddsUp(router[r], told[r]) /\ Agree(router[r])
<1> SUFFICES ASSUME Init
             PROVE  /\ DVInv /\ OneAlarmEach
                    /\ \A r \in Router : AddsUp(router[r], told[r]) /\ Agree(router[r])
  OBVIOUS
<1> DEFINE pings == UNION {XmitEvents(r, sendPings(InitRouter(r), 0), 0) : r \in Router}
<1>1. \A f \in pings : f.kind = "Xmit" /\ f.pkt.type = "PING" /\ EventFits(f, 0) /\ ProbeOK(f)
  <2> SUFFICES ASSUME NEW r \in Router, NEW f \in XmitEvents(r, sendPings(InitRouter(r), 0), 0)
               PROVE  f.kind = "Xmit" /\ f.pkt.type = "PING" /\ EventFits(f, 0) /\ ProbeOK(f)
    OBVIOUS
  <2>1. InitRouter(r).id = r
    BY DEF InitRouter
  <2> QED
    BY <2>1, FirstPings
<1>2. SimInit(pings \cup FirstAlarms)
  BY DEF Init, FirstAlarms
<1> HIDE DEF pings
<1>3. SimInv /\ OneAlarmEach /\ InFlight = pings /\ global_time = 0
  BY <1>1, <1>2, StartFacts
<1>4. ProbesOK /\ VectorsOK
  BY <1>1, <1>3 DEF ProbesOK, VectorsOK
<1>5. \A r \in Router : IsRouter(InitRouter(r), r, 0)
  BY DEF IsRouter, InitRouter, RouterFields, IsMap
<1>6. StatesOK /\ HeardOK
  BY <1>3, <1>5 DEF Init, StatesOK, HeardOK, IsMap
<1>7. ASSUME NEW r \in Router PROVE AddsUp(InitRouter(r), told[r]) /\ Agree(InitRouter(r))
  <2> DEFINE s == InitRouter(r)
  <2>1. /\ \A x : x \notin DOMAIN s.adjacencyList /\ x \notin DOMAIN s.forwardingTable
        /\ \A x : x \notin DOMAIN s.bigTable
    BY DEF InitRouter
  <2> HIDE DEF s
  <2>2. AddsUp(s, told[r])
    BY <2>1 DEF AddsUp
  <2>3. Agree(s)
    BY <2>1 DEF Agree
  <2> QED
    BY <2>2, <2>3 DEF s
<1>8. \A r \in Router : router[r] = InitRouter(r)
  BY DEF Init
<1> QED
  BY <1>3, <1>4, <1>6, <1>7, <1>8 DEF DVInv

LEMMA NextDVInv ==
  ASSUME DVInv, [Next]_dvVars
  PROVE  DVInv' /\ (OneAlarmEach => OneAlarmEach')
<1>1. CASE SimNext /\ UNCHANGED <<router, told, poisonedBy>>
  BY <1>1, SimDVInv, SimAlarms DEF DVInv
<1>2. CASE RouterNext
  <2>1. PICK e, r, o : RouterStep(e, r, o)
    BY <1>2, RouterNextSteps DEF DVInv
  <2> QED
    BY <2>1, StepDVInv, TurnAlarms DEF RouterStep, DVInv
<1>3. CASE UNCHANGED dvVars
  BY <1>3 DEF dvVars, vars, simVars, DVInv, SimInv, SimTypeOK, EventFits, StatesOK, HeardOK, VectorsOK,
              ProbesOK, ProbeOK, Sender, InFlight, Pending, OneAlarmEach
<1> QED
  BY <1>1, <1>2, <1>3 DEF Next, RouterNext

LEMMA DVInvHolds == Spec => [](DVInv /\ OneAlarmEach)
<1>1. Init => DVInv /\ OneAlarmEach
  BY InitDVInv
<1>2. DVInv /\ OneAlarmEach /\ [Next]_dvVars => (DVInv /\ OneAlarmEach)'
  BY NextDVInv
<1> QED
  BY <1>1, <1>2, PTL DEF Spec

-----------------------------------------------------------------------------
\* Every table of every router is well formed, and no key, next hop or cost is ever out
\* of its range, whatever wraps around; a router has nothing on itself, and no next hop
\* but another router, or 0.
THEOREM TablesWellFormed == Spec => []TypeOK
<1>1. DVInv => TypeOK
  <2> SUFFICES ASSUME DVInv PROVE TypeOK
    OBVIOUS
  <2>1. ASSUME NEW r \in Router PROVE RouterOK(r)
    <3>1. IsRouter(router[r], r, global_time)
      BY DEF DVInv, StatesOK
    <3> QED
      BY <3>1 DEF IsRouter, RouterOK, PortEntry, NeighbourEntry, RouteEntry, Others
  <2>2. ASSUME NEW r \in Router, NEW n \in Router PROVE IsMap(told[r][n], Router, 0 .. NoRoute)
    BY DEF DVInv, HeardOK, IsMap, Others
  <2> QED
    BY <2>1, <2>2 DEF TypeOK, DVInv, SimInv, HeardOK
<1> QED
  BY <1>1, DVInvHolds, PTL

\* No event is pending for a time already past, as in a link-state network.
THEOREM ClockMovesForward == Spec => []NoEventInThePast
<1>1. DVInv => NoEventInThePast
  BY DEF DVInv, SimInv, EventFits, NoEventInThePast
<1> QED
  BY <1>1, DVInvHolds, PTL

\* Nor is an alarm lost or set twice.
THEOREM AlarmsKeepRinging == Spec => []OneAlarmEach
BY DVInvHolds, PTL

\* Every router is consistent with what it has heard, and its tables with each other.
NetAddsUp == \A r \in Router : AddsUp(router[r], told[r])
NetAgrees == \A r \in Router : Agree(router[r])

LEMMA FitsFacts ==
  ASSUME NEW s, NEW heard,
         \A x \in DOMAIN s.bigTable :
           LET cost == s.bigTable[x]
               said == heard[x[2]]
           IN /\ cost > 0 /\ cost < NoRoute
              /\ x[1] # x[2] /\ x[1] \in DOMAIN said => said[x[1]] <= cost
  PROVE  Fits(s, heard)
<1>1. ASSUME NEW d, NEW n, <<d, n>> \in DOMAIN s.bigTable
      PROVE  LET cost == s.bigTable[<<d, n>>] IN
             /\ cost > 0 /\ cost < NoRoute
             /\ d # n /\ d \in DOMAIN heard[n] => heard[n][d] <= cost
  <2> DEFINE x == <<d, n>>
  <2>1. x[1] = d /\ x[2] = n
    OBVIOUS
  <2> HIDE DEF x
  <2>2. LET cost == s.bigTable[x] IN
        /\ cost > 0 /\ cost < NoRoute
        /\ x[1] # x[2] /\ x[1] \in DOMAIN heard[x[2]] => heard[x[2]][x[1]] <= cost
    BY <1>1 DEF x
  <2> QED
    BY <2>1, <2>2 DEF x
<1> QED
  BY <1>1 DEF Fits

\* Every step keeps the routers consistent with what they have heard.
LEMMA NextConsistent ==
  ASSUME DVInv, RoutesRenewed, [Next]_dvVars
  PROVE  /\ NothingIsFree /\ NetAddsUp => NetAddsUp'
         /\ NetAgrees /\ CostsFit /\ CostsFit' => NetAgrees'
<1>1. CASE UNCHANGED <<router, told, poisonedBy>>
  BY <1>1 DEF NetAddsUp, NetAgrees
<1>2. CASE RouterNext
  <2>1. PICK e, r, o : RouterStep(e, r, o)
    BY <1>2, RouterNextSteps DEF DVInv
  <2>2. /\ Follows(router[r], o.s, r, told[r], told'[r], e.time)
        /\ \A q \in Router : q # r => told'[q] = told[q]
    BY <2>1, StepFollows
  <2>3. /\ r \in Router /\ router'[r] = o.s
        /\ \A q \in Router : q # r => router'[q] = router[q]
    BY <2>1 DEF RouterStep, Turn, DVInv, StatesOK
  <2>4. ASSUME NothingIsFree, NetAddsUp PROVE NetAddsUp'
    <3>1. NoneFree(router[r])
      BY <2>3, <2>4 DEF NothingIsFree, NoneFree
    <3> QED
      BY <2>2, <2>3, <2>4, <3>1 DEF NetAddsUp, Follows
  <2>5. ASSUME NetAgrees, CostsFit, CostsFit' PROVE NetAgrees'
    <3>1. Fits(router[r], told[r])
      BY <2>3, <2>5, FitsFacts DEF CostsFit, NothingIsFree
    <3>2. Fits(router'[r], told'[r])
      BY <2>3, <2>5, FitsFacts DEF CostsFit, NothingIsFree
    <3>3. Fits(o.s, told'[r])
      BY <2>3, <3>2
    <3>4. Agree(o.s)
      BY <2>2, <2>3, <2>5, <3>1, <3>3 DEF Follows, NetAgrees
    <3> QED
      BY <2>3, <2>5, <3>4 DEF NetAgrees
  <2> QED
    BY <2>4, <2>5
<1> QED
  BY <1>1, <1>2 DEF Next, RouterNext, dvVars, vars

\* As long as PONGs renew every entry before it expires, and no row is free, every cost in
\* every bigTable is that of the link now plus the last finite cost the neighbour told, in
\* 16 bits, whatever changes of delay, poison, withdrawals, expired ports, lost packets and
\* overtaken vectors came between the two.
THEOREM BigTableAddsUp == Spec /\ []RoutesRenewed /\ []NothingIsFree => []CostsAddUp
<1>1. Init => NetAddsUp
  BY InitDVInv DEF NetAddsUp
<1>2. DVInv /\ RoutesRenewed /\ NothingIsFree /\ NetAddsUp /\ [Next]_dvVars => NetAddsUp'
  BY NextConsistent
<1>3. DVInv /\ NetAddsUp => CostsAddUp
  <2> SUFFICES ASSUME DVInv, NetAddsUp, NEW r \in Router, NEW x \in DOMAIN router[r].bigTable
               PROVE  LET linkCost == router[r].adjacencyList[x[2]].timeCost IN
                      IF x[1] = x[2] THEN router[r].bigTable[x] = linkCost
                      ELSE /\ x[1] \in DOMAIN told[r][x[2]]
                           /\ router[r].bigTable[x] = AsCost(linkCost + told[r][x[2]][x[1]])
    BY DEF CostsAddUp
  <2>1. DOMAIN router[r].bigTable \subseteq Others(r) \X Others(r) /\ AddsUp(router[r], told[r])
    BY DEF DVInv, StatesOK, IsRouter, IsMap, NetAddsUp
  <2> DEFINE d == x[1]
             n == x[2]
  <2>2. x = <<d, n>>
    BY <2>1
  <2> HIDE DEF d, n
  <2>3. LET linkCost == router[r].adjacencyList[n].timeCost IN
        IF d = n THEN router[r].bigTable[x] = linkCost
        ELSE /\ d \in DOMAIN told[r][n]
             /\ router[r].bigTable[x] = AsCost(linkCost + told[r][n][d])
    BY <2>1, <2>2 DEF AddsUp
  <2> QED
    BY <2>3 DEF d, n
<1> QED
  BY <1>1, <1>2, <1>3, DVInvHolds, PTL DEF Spec

\* As long as, besides, no sum of a link and a route wraps around, the forwarding table and
\* bigTable have the same destinations, and each next hop of the one is in the other: no
\* vector, withdrawal, expired port or new neighbour leaves a route behind in one of them.
THEOREM TablesStayTogether == Spec /\ []RoutesRenewed /\ []CostsFit => []TablesAgree
<1>1. Init => NetAgrees
  BY InitDVInv DEF NetAgrees
<1>2. DVInv /\ RoutesRenewed /\ CostsFit /\ CostsFit' /\ NetAgrees /\ [Next]_dvVars => NetAgrees'
  BY NextConsistent
<1>3. DVInv /\ NetAgrees => TablesAgree
  <2> SUFFICES ASSUME DVInv, NetAgrees, NEW r \in Router
               PROVE  LET s == router[r] IN
                      /\ DOMAIN s.forwardingTable = {x[1] : x \in DOMAIN s.bigTable}
                      /\ \A d \in DOMAIN s.forwardingTable :
                           <<d, s.forwardingTable[d].nextHop>> \in DOMAIN s.bigTable
    BY DEF TablesAgree
  <2> DEFINE dests == {x[1] : x \in DOMAIN router[r].bigTable}
  <2>1. DOMAIN router[r].bigTable \subseteq Others(r) \X Others(r) /\ Agree(router[r])
    BY DEF DVInv, StatesOK, IsRouter, IsMap, NetAgrees
  <2>2. \A d : d \in dests <=> \E n \in Others(r) : <<d, n>> \in DOMAIN router[r].bigTable
    BY <2>1, RowFacts
  <2>3. \A d, n : <<d, n>> \in DOMAIN router[r].bigTable => n \in Others(r)
    BY <2>1
  <2> HIDE DEF dests
  <2>4. \A d : d \in DOMAIN router[r].forwardingTable <=> d \in dests
    BY <2>1, <2>2, <2>3 DEF Agree
  <2>5. DOMAIN router[r].forwardingTable = dests
    BY <2>4
  <2> QED
    BY <2>1, <2>5 DEF Agree, dests
<1> QED
  BY <1>1, <1>2, <1>3, DVInvHolds, PTL DEF Spec
=============================================================================
