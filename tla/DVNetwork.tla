----------------------------- MODULE DVNetwork ------------------------------
(***************************************************************************)
(* A network of distance-vector routers in the simulator: RouterNetwork    *)
(* composed with DistanceVector.                                           *)
(***************************************************************************)
EXTENDS RouterNetwork, DistanceVector

VARIABLES
  told,        \* history: told[r][n] is the last finite cost that n has told r of each
             \* destination, one that n's last vector no longer has apart
  poisonedBy   \* history: poisonedBy[r][n] is what n's last vector to r poisoned

dvVars == <<vars, told, poisonedBy>>

\* init of every router: PINGs at once, and one alarm of each type.
Init ==
  /\ router = [r \in Router |-> InitRouter(r)]
  /\ told = [r \in Router |-> [n \in Router |-> <<>>]]
  /\ poisonedBy = [r \in Router |-> [n \in Router |-> {}]]
  /\ SimInit((UNION {XmitEvents(r, sendPings(InitRouter(r), 0), 0) : r \in Router})
             \cup {AlarmEvent(r, type, 0, Period[type]) : r \in Router, type \in AlarmTypes})

\* A data packet that originates at a router arrives from its SPECIAL_PORT.
XmitEndToEnd ==
  \E e \in Top(event_q) :
    /\ e.kind = "XmitEndToEnd"
    /\ Handle(e, e.src, handleData(router[e.src], [type |-> "DATA", src |-> e.src, dst |-> e.dst]), {})

RecvPong == \E e \in Arrivals("PONG") :
              Handle(e, e.dest, handlePongs(router[e.dest], e.dport, e.pkt, e.time), {})
RecvData == \E e \in Arrivals("DATA") :
              Handle(e, e.dest, handleData(router[e.dest], e.pkt), {})

\* The destinations that a vector with these routes poisons.
PoisonedIn(routes) == {d \in DOMAIN routes : routes[d] = INFINITY_COST}

\* The last finite costs after a vector with these routes: a poisoned one stays as it was.
LastCosts(old, routes) ==
  [d \in (DOMAIN routes \ PoisonedIn(routes)) \cup (DOMAIN routes \cap DOMAIN old) |->
    IF d \in PoisonedIn(routes) THEN old[d] ELSE routes[d]]

RecvDV == \E e \in Arrivals("DV") :
  /\ Handle(e, e.dest, handleDVPacket(router[e.dest], e.pkt, e.time), {})
  /\ told' = [told EXCEPT ![e.dest][e.pkt.sourceID] = LastCosts(@, e.pkt.routes)]
  /\ poisonedBy' = [poisonedBy EXCEPT ![e.dest][e.pkt.sourceID] = PoisonedIn(e.pkt.routes)]

UpdateAlarm == \E e \in Alarms("Update") :
  LET s == router[e.router] IN
  Handle(e, e.router, {[s |-> s, out |-> sendUpdates(s)]}, Again(e))

FreshnessAlarm == \E e \in Alarms("Freshness") :
  Handle(e, e.router, checkFreshness(router[e.router], e.time), Again(e))

Next ==
  \/ SimNext /\ UNCHANGED <<router, told, poisonedBy>>
  \/ /\ XmitEndToEnd \/ RecvPing \/ RecvPong \/ RecvData
        \/ PingPongAlarm \/ UpdateAlarm \/ FreshnessAlarm
     /\ UNCHANGED <<told, poisonedBy>>
  \/ RecvDV

Spec     == Init /\ [][Next]_dvVars
FairSpec == Spec /\ WF_dvVars(Next)

-----------------------------------------------------------------------------
\* getBestRoute says 0 for the next hop when every row is at infinity, forwardTo
\* then makes a neighbour 0.
NextHop(r) == (Router \ {r}) \cup {0}

RouterOK(r) ==
  LET s == router[r] IN
  /\ s.id = r
  /\ IsMap(s.portStatus, Ports[r], [destRouterID : Router, isUp : BOOLEAN,
                                    lastUpdate : 0 .. global_time, timeCost : Cost])
  /\ IsMap(s.adjacencyList, NextHop(r), [port : Ports[r], timeCost : Cost])
  /\ IsMap(s.forwardingTable, Router \ {r},
           [nextHop : NextHop(r), routeCost : Cost, lastUpdate : 0 .. global_time])
  /\ IsMap(s.bigTable, (Router \ {r}) \X (Router \ {r}), Cost)

TypeOK ==
  /\ SimTypeOK
  /\ \A r \in Router : RouterOK(r)
  /\ \A r, n \in Router : IsMap(told[r][n], Router, 0 .. NoRoute)
  /\ poisonedBy \in [Router -> [Router -> SUBSET Router]]

\* The two tables agree on what can be reached: the forwarding table has the
\* destinations of bigTable and no other, and its next hop is one of those in bigTable.
TablesAgree ==
  \A r \in Router : LET s == router[r] IN
    /\ DOMAIN s.forwardingTable = {x[1] : x \in DOMAIN s.bigTable}
    /\ \A d \in DOMAIN s.forwardingTable :
         <<d, s.forwardingTable[d].nextHop>> \in DOMAIN s.bigTable

\* Every cost in bigTable, without exception, is the cost of the link now and the last
\* finite cost the neighbour told, however often the one or the other changed in between.
\* That is not the neighbour's last word where that was poison: handleDVPacket skips it,
\* and the row stands at the sum it had (see PoisonKept).
CostsAddUp ==
  \A r \in Router : LET s == router[r] IN
    \A x \in DOMAIN s.bigTable :
      LET linkCost == s.adjacencyList[x[2]].timeCost IN
      IF x[1] = x[2] THEN s.bigTable[x] = linkCost
      ELSE /\ x[1] \in DOMAIN told[r][x[2]]
           /\ s.bigTable[x] = AsCost(linkCost + told[r][x[2]][x[1]])

\* No row of bigTable is free: a cost of 0 makes handleDVPacket take poison for a route.
NothingIsFree == \A r \in Router : \A x \in DOMAIN router[r].bigTable : router[r].bigTable[x] > 0

\* The sum of a link and a route, compared as an int but stored in 16 bits, loses nothing:
\* every row is a cost a route may have, and no less than the last finite cost the
\* neighbour told.
CostsFit ==
  /\ NothingIsFree
  /\ \A r \in Router : \A x \in DOMAIN router[r].bigTable :
       LET cost  == router[r].bigTable[x]
           heard == told[r][x[2]]
       IN cost < NoRoute /\ (x[1] # x[2] /\ x[1] \in DOMAIN heard => heard[x[1]] <= cost)

\* A neighbour that has poisoned a route is not used for it: bigTable has the route, if at
\* all, at infinity.
PoisonKept ==
  \A r, n \in Router : \A d \in poisonedBy[r][n] :
    <<d, n>> \in DOMAIN router[r].bigTable => router[r].bigTable[<<d, n>>] = INFINITY_COST

\* What HopByHop sees of a router: the round-trip times to its neighbours over the links as
\* they are now, whether it has measured them or not, and its routes.
linkCosts  == [r \in Router |->
               [n \in {Peer(r, l) : l \in LinksOf(r)} |->
                 Min({2 * link[l].delay : l \in {k \in LinksOf(r) : Peer(r, k) = n}})]]
routeTable == [r \in Router |->
               [d \in DOMAIN router[r].forwardingTable |->
                 [nextHop   |-> router[r].forwardingTable[d].nextHop,
                  routeCost |-> router[r].forwardingTable[d].routeCost]]]

Routing == INSTANCE HopByHop WITH cost <- linkCosts, table <- routeTable

\* While links only get faster and no vector is bad news, the routes are what HopByHop
\* promises: no measurement of a delay that changed on the way and no vector that is
\* out of date makes a router claim less for a route than its next hop has left to go.
ImplementsHopByHop == Routing!Spec

\* A configuration in which links only get faster: there is one link at most between two
\* routers, none loses packets or takes longer than D, none ever gets slower, or faster
\* before it has been measured, and no way through all routers is too long for 16 bits.
OnlyFaster(D) ==
  /\ D <= 2500 /\ 2 * D * RouterCount < NoRoute
  /\ \A l \in DOMAIN Links :
       Links[l].lossTenths = 0 /\ Links[l].delay >= 1 /\ Links[l].delay <= D
  /\ \A r \in Router : \A k, l \in LinksOf(r) : Peer(r, k) = Peer(r, l) => k = l
  /\ \A script \in Scripts : \A c \in script :
       /\ c.cmd \in {"changedelay", "xmit"}
       /\ c.cmd = "changedelay" =>
            LET l == LinkBetween(c.a, c.b) IN
            /\ l \in DOMAIN Links
            /\ 1 <= c.delay /\ c.delay <= Links[l].delay /\ c.time >= 2 * Links[l].delay
            /\ \A b \in script :
                 b.cmd = "changedelay" /\ LinkBetween(b.a, b.b) = l /\ c.time <= b.time =>
                   b.delay <= c.delay

\* No vector that arrives takes back a route or makes it more expensive: where links only
\* get faster, only a vector that was overtaken by a newer one can.
NoBadNews ==
  \A e \in Arrivals("DV") :
    LET s == router[e.dest]
        n == e.pkt.sourceID
    IN \A d \in DestsOver(s.bigTable, n) \ {n} :
         /\ d \in DOMAIN e.pkt.routes
         /\ e.pkt.routes[d] < INFINITY_COST =>
              s.adjacencyList[n].timeCost + e.pkt.routes[d] <= s.bigTable[<<d, n>>]

-----------------------------------------------------------------------------
\* The ports a router puts a packet for d out on.
Hops(q, d) ==
  {m.port : m \in UNION {o.out :
                 o \in handleData(router[q], [type |-> "DATA", src |-> q, dst |-> d])}}

Route(r, d) == Way(Hops, r, d)

RoutesAreShortest == ShortestWays(Hops)

\* Once the network has been left alone for a while, data reaches every router that can
\* be reached, on a path of the least total delay.
LeastDelayRoutes == Settled => RoutesAreShortest

\* Once the network has been left alone for a while, data for a router that cannot be
\* reached is dropped, not sent round in a circle.
UnreachableDropped ==
  Settled => \A d \in Router : LET best == TrueCost(d) IN
    \A r \in Router : best[r] = INFINITY_COST => Route(r, d).ends = "dropped"

\* Where r's packets for d go over the links that are alive.
HandsTo(r, d) == {Peer(r, l) : l \in {k \in {LinkAt(r, p) : p \in Hops(r, d)} : link[k].is_alive}}

\* At no time, settled or not, is a packet sent round in a circle: of any routers on the way
\* to d, one drops the packet or hands it to a router that is not one of them.
NoCircles ==
  \A d \in Router : \A S \in SUBSET (Router \ {d}) :
    S # {} => \E r \in S : HandsTo(r, d) = {} \/ ~(HandsTo(r, d) \subseteq S)

\* The forwarding table has the best routes of bigTable, although it is only ever written
\* where a vector brings less or a PONG renews a route.
BestRouteKept ==
  \A r \in Router : LET s == router[r] IN
    \A d \in DOMAIN s.forwardingTable : LET e == s.forwardingTable[d] IN
      [nextHop |-> e.nextHop, routeCost |-> e.routeCost] \in getBestRoute(s.bigTable, d)

\* Once the network has been left alone for a while, it has, even if links failed or got
\* slower before.
BestRouteUsed == Settled => BestRouteKept

\* PONGs renew every route, whoever's vector it came from, before dvEntryExpiredCheck finds
\* it: that check would forget the cost of the link in adjacencyList but not in bigTable,
\* and the next PONG would count it twice.
RoutesRenewed ==
  \A e \in Alarms("Freshness") : StaleEntries(router[e.router], e.time) = {}

\* Lost packets are made up for: in the end every router has the shortest path to every
\* other, for good.
Stabilizes == <>[]RoutesAreShortest
=============================================================================
