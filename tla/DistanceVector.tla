--------------------------- MODULE DistanceVector ---------------------------
(***************************************************************************)
(* A distance-vector router: the handlers of RoutingProtocolImpl for P_DV  *)
(* and the functions of DistanceVector, DVForwardingTable and DVBigTable   *)
(* they call, as in RoutingProtocol.                                       *)
(*                                                                         *)
(* Further fields of the state of a router:                                *)
(*   forwardingTable  destination -> [nextHop, routeCost, lastUpdate]      *)
(*   bigTable         <<destination, next hop>> -> routeCost; a            *)
(*                    destination without a next hop has no row, as every  *)
(*                    use of bigTable treats it                            *)
(***************************************************************************)
EXTENDS RoutingProtocol, Functions

EntryLifetime == 45 * 1000              \* ms
NoRoute       == INFINITY_COST - 1

InitRouter(r) ==
  [id |-> r, portStatus |-> <<>>, adjacencyList |-> <<>>,
   forwardingTable |-> <<>>, bigTable |-> <<>>]

-----------------------------------------------------------------------------
\* The tables

NextHops(big, d) == {x[2] : x \in {y \in DOMAIN big : y[1] = d}}
DestsOver(big, n) == {x[1] : x \in {y \in DOMAIN big : y[2] = n}}

\* The loop runs over an unordered_map, so any of several cheapest next hops can be the
\* one it keeps.  No next hop has the id 0.
getBestRoute(big, d) ==
  LET hops  == NextHops(big, d)
      least == {h \in hops : /\ big[<<d, h>>] < INFINITY_COST
                             /\ \A g \in hops : big[<<d, h>>] <= big[<<d, g>>]}
  IN CASE hops = {}  -> {[nextHop |-> 0, routeCost |-> NoRoute]}
       [] hops # {} /\ least = {} -> {[nextHop |-> 0, routeCost |-> INFINITY_COST]}
       [] OTHER -> {[nextHop |-> h, routeCost |-> big[<<d, h>>]] : h \in least}

\* The best routes of several destinations, one choice for each.
BestRoutes(big, dests) ==
  {best \in [dests -> UNION {getBestRoute(big, d) : d \in dests}] :
    \A d \in dests : best[d] \in getBestRoute(big, d)}

getRouteCost(s, d) ==
  IF d \in DOMAIN s.forwardingTable THEN s.forwardingTable[d].routeCost ELSE INFINITY_COST

\* DVForwardingTable::updateRoute, for every destination of routes.
updateRoutes(s, routes, now) ==
  [s EXCEPT !.forwardingTable = StoreAll(@,
     [d \in DOMAIN routes |-> [nextHop    |-> routes[d].nextHop,
                               routeCost  |-> routes[d].routeCost,
                               lastUpdate |-> now]])]

\* DVBigTable::removeRoute for each of dests.
removeRoute(big, dests, n) == Restrict(big, DOMAIN big \ (dests \X {n}))

\* DVBigTable::removeRoutesWithNextHop for each of gone.
removeRoutesWithNextHop(big, gone) == Restrict(big, {x \in DOMAIN big : x[2] \notin gone})

\* BUG (mutant): the routes to the gone neighbours, not those over them.
RoutesOverTo(table, gone) == DOMAIN table \cap gone

\* What DVForwardingTable::removeRoutesWithNextHop removes for each of gone.
RoutesOver(table, gone) == {d \in DOMAIN table : table[d].nextHop \in gone}

\* Destinations that lost their route get the best one left, if it is one of usable.
Reroute(s, best, usable, now) ==
  updateRoutes([s EXCEPT !.forwardingTable = Restrict(@, DOMAIN @ \ DOMAIN best)],
               Restrict(best, usable), now)

\* The cost of the link to n so far, 0 if n is a new neighbour.
KnownCost(s, n) == IF n \in DOMAIN s.adjacencyList THEN s.adjacencyList[n].timeCost ELSE 0

\* BUG (mutant): the cost of the link is not reset.
ZeroCostsNot(adjacencyList, nbrs) == adjacencyList

\* (*adjacencyList)[n].timeCost = 0, which makes an entry where there is none.
ZeroCosts(adjacencyList, nbrs) ==
  StoreAll(adjacencyList,
    [n \in nbrs |-> [port |-> IF n \in DOMAIN adjacencyList THEN adjacencyList[n].port ELSE 0,
                     timeCost |-> 0]])

-----------------------------------------------------------------------------
\* DistanceVector: sending

\* BUG (mutant): a route is told to the neighbour it leads over too.
PoisonNone(s, nbr) == {}

\* Destinations whose route leads over nbr, nbr itself apart.
Poison(s, nbr) == {d \in DOMAIN s.forwardingTable \ {nbr} : s.forwardingTable[d].nextHop = nbr}

\* The whole forwarding table, with poison on the routes that lead over nbr itself.
createDVPacket(s, nbr) ==
  [type |-> "DV", sourceID |-> s.id,
   routes |-> [d \in DOMAIN s.forwardingTable |->
     IF d \in Poison(s, nbr) THEN INFINITY_COST ELSE s.forwardingTable[d].routeCost]]

sendUpdates(s) == {To(p, createDVPacket(s, s.portStatus[p].destRouterID)) : p \in UpPorts(s)}

-----------------------------------------------------------------------------
\* DistanceVector: receiving, changes of a link, expiry

\* BUG (mutant): a vector's route to the router itself is taken like any other.
RowsAll(s, pkt) == DOMAIN pkt.routes

Rows(s, pkt) == DOMAIN pkt.routes \ {s.id}

\* BUG (mutant): the last vector heard is always taken.
BetterAlways(s, routeCost) == DOMAIN routeCost

\* Destinations that cost less, at the given costs, than in the forwarding table.
Better(s, routeCost) == {d \in DOMAIN routeCost : routeCost[d] < getRouteCost(s, d)}

\* BUG (mutant): what a vector no longer has is not looked for.
WithdrawnNever(big, pkt) == {}

\* Destinations bigTable has over the sender that its vector no longer has.
Withdrawn(big, pkt) == DestsOver(big, pkt.sourceID) \ (DOMAIN pkt.routes \cup {pkt.sourceID})

\* The vector of neighbour n.  A finite cost is added to the cost of the link, which is 0
\* if no PONG has come over it; it always goes into bigTable, cut to 16 bits, but into
\* the forwarding table only if it is less than the cost there.  A poisoned route is
\* skipped, unless the best route costs nothing.  Routes over n that the vector no
\* longer has are removed and replaced.
handleDVPacket(s, pkt, now) ==
  LET n        == pkt.sourceID
      finite   == {d \in Rows(s, pkt) : pkt.routes[d] # INFINITY_COST}
      poisoned == {d \in Rows(s, pkt) \ finite :
                    \E best \in getBestRoute(s.bigTable, d) : best.routeCost = 0}
      adj      == IF finite = {} \/ n \in DOMAIN s.adjacencyList THEN s.adjacencyList
                  ELSE Store(s.adjacencyList, n, [port |-> 0, timeCost |-> 0])
      over     == [d \in finite |-> adj[n].timeCost + pkt.routes[d]]
      told     == StoreAll(s.bigTable,
                    [x \in (finite \cup poisoned) \X {n} |->
                      IF x[1] \in finite THEN AsCost(over[x[1]]) ELSE INFINITY_COST])
      better   == Better(s, over)
      gone     == Withdrawn(told, pkt)
      left     == removeRoute(told, gone, n)
      t        == updateRoutes([s EXCEPT !.adjacencyList = adj, !.bigTable = left],
                    [d \in better |-> [nextHop |-> n, routeCost |-> over[d]]], now)
      ends     == {Reroute(t, best, {d \in gone : best[d].routeCost # NoRoute}, now) :
                    best \in BestRoutes(left, gone)}
  IN {[s |-> u, out |-> IF better \cup gone = {} THEN {} ELSE sendUpdates(u)] : u \in ends}

\* BUG (mutant): only the route to n itself is written again.
RenewedSelf(best, n) == {d \in {n} : best[d].nextHop = n}

\* The destinations whose best route leads over n.
Renewed(best, n) == {d \in DOMAIN best : best[d].nextHop = n}

\* A new round-trip time to neighbour n: the change is added to every route over n, and
\* those that are the best ones are written to the forwarding table again.
handleCostChange(s, n, change, now) ==
  LET dests == DestsOver(s.bigTable, n) \cup {n}
      big   == StoreAll(s.bigTable,
                 [x \in dests \X {n} |->
                   AsCost((IF x \in DOMAIN s.bigTable THEN s.bigTable[x] ELSE 0) + change)])
      end(best) ==
        LET mine == Renewed(best, n)
            t    == updateRoutes([s EXCEPT !.bigTable = big], Restrict(best, mine), now)
            u    == IF n \in DOMAIN t.forwardingTable THEN t
                    ELSE updateRoutes(t, [d \in {n} |-> [nextHop |-> n, routeCost |-> 0]], now)
        IN [s |-> u, out |-> IF mine = {} /\ u = t THEN {} ELSE sendUpdates(u)]
  IN {end(best) : best \in BestRoutes(big, dests)}

\* portExpiredCheck, when there are dead ports: routes over the neighbours of all of
\* them go, and those of the forwarding table are replaced.
expirePorts(s, dead, now) ==
  LET gone == {s.portStatus[p].destRouterID : p \in dead}
      lost == RoutesOver(s.forwardingTable, gone)
      left == removeRoutesWithNextHop(s.bigTable, gone)
      t    == [TakeDown(s, dead) EXCEPT !.bigTable = left,
                                        !.adjacencyList = ZeroCosts(@, gone)]
  IN {Reroute(t, best, {d \in lost : best[d].nextHop # 0}, now) : best \in BestRoutes(left, lost)}

StaleEntries(s, now) ==
  {d \in DOMAIN s.forwardingTable : now - s.forwardingTable[d].lastUpdate > EntryLifetime}

\* dvEntryExpiredCheck: bigTable keeps its routes to them.
expireEntries(s, stale) ==
  [s EXCEPT !.forwardingTable = Restrict(@, DOMAIN @ \ stale),
            !.adjacencyList = ZeroCosts(@, stale)]

-----------------------------------------------------------------------------
\* RoutingProtocolImpl: the handlers

\* A PONG measures the port and names the neighbour; whatever the round-trip time, the
\* change goes to the tables, which also renews the routes over it.
handlePongs(s, port, pkt, now) ==
  LET nbr == pkt.sourceID
      rtt == RoundTripCost(now, pkt.stamp)
      t   == [s EXCEPT
               !.portStatus = Store(@, port, [destRouterID |-> nbr, isUp |-> TRUE,
                                              lastUpdate |-> now, timeCost |-> rtt]),
               !.adjacencyList = Store(@, nbr, [port |-> port, timeCost |-> rtt])]
  IN handleCostChange(t, nbr, rtt - KnownCost(s, nbr), now)

handleData(s, pkt) ==
  IF pkt.dst = s.id \/ pkt.dst \notin DOMAIN s.forwardingTable THEN Keep(s)
  ELSE {forwardTo(s, s.forwardingTable[pkt.dst].nextHop, pkt)}

\* The freshness alarm: updates go out on every check while some port is dead, and once
\* more when an entry has expired.
checkFreshness(s, now) ==
  LET dead     == DeadPorts(s, now)
      afterPorts == IF dead = {} THEN Keep(s)
                    ELSE {[s |-> t, out |-> sendUpdates(t)] : t \in expirePorts(s, dead, now)}
      withEntries(o) ==
        LET stale == StaleEntries(o.s, now)
            u     == expireEntries(o.s, stale)
        IN IF stale = {} THEN o ELSE [s |-> u, out |-> o.out \cup sendUpdates(u)]
  IN {withEntries(o) : o \in afterPorts}
=============================================================================
