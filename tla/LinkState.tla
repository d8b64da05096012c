----------------------------- MODULE LinkState ------------------------------
(***************************************************************************)
(* A link-state router: the handlers of RoutingProtocolImpl for P_LS and   *)
(* the functions of LinkState they call, as in RoutingProtocol.            *)
(*                                                                         *)
(* Further fields of the state of a router:                                *)
(*   forwardingTable  destination -> next hop                              *)
(*   nodeTable        router -> [lastUpdate, timeCost]                     *)
(*   costTable        router -> neighbour -> cost, as last advertised; a   *)
(*                    router without an entry has no links, as every use   *)
(*                    of costTable treats it                               *)
(*   seqTable         router -> sequence number last accepted, NoSeq if    *)
(*                    there is no entry                                    *)
(*   seqNum           the next sequence number of its own                  *)
(***************************************************************************)
EXTENDS RoutingProtocol, Dijkstra, Wire, Functions

NodeLifetime == 45 * 1000       \* ms

NoSeq   == -1
NoLinks == [n \in {} |-> 0]

InitRouter(r) ==
  [id |-> r, portStatus |-> <<>>, adjacencyList |-> <<>>, forwardingTable |-> <<>>,
   nodeTable |-> <<>>, costTable |-> [o \in Router |-> NoLinks],
   seqTable |-> [o \in Router |-> NoSeq], seqNum |-> 0]

-----------------------------------------------------------------------------
\* LinkState: sending

\* CreatePacket and serializePacket: everything this router has adjacent, at the
\* costs the wire makes of them.
CreatePacket(s) ==
  [type |-> "LS", sourceID |-> s.id, seqNum |-> s.seqNum,
   costTable |-> [n \in DOMAIN s.adjacencyList |-> LSShort(s.adjacencyList[n].timeCost)]]

\* BUG (mutant): the sequence number is not advanced.
SendUpdatesSameSeq(s) ==
  [s |-> s, out |-> {To(p, CreatePacket(s)) : p \in UpPorts(s)}]

\* To every port that is up; the sequence number moves on even if there is none.
SendUpdates(s) ==
  [s   |-> [s EXCEPT !.seqNum = @ + 1],
   out |-> {To(p, CreatePacket(s)) : p \in UpPorts(s)}]

\* To every other port, those of dead links included.
FloodUpdates(s, port, pkt) == {To(p, pkt) : p \in Ports[s.id] \ {port}}

-----------------------------------------------------------------------------
\* LinkState: the tables

RefreshNodeEntry(s, d, now) ==
  [s EXCEPT !.nodeTable =
    Store(@, d, [lastUpdate |-> now,
                 timeCost |-> IF d \in DOMAIN @ THEN @[d].timeCost ELSE 0])]

\* Forget what the gone routers advertised and every advertised link to them.
RemoveNodes(costTable, gone) ==
  [o \in Router |-> IF o \in gone THEN NoLinks
                    ELSE Restrict(costTable[o], DOMAIN costTable[o] \ gone)]

\* The costs UpdateTable starts from: for each neighbour in adjacencyList, that of a
\* port that is up.  When two links lead to it, the port iterated last.
DirectCosts(s) ==
  LET up   == {p \in UpPorts(s) : s.portStatus[p].destRouterID \in DOMAIN s.adjacencyList}
      nbrs == {s.portStatus[p].destRouterID : p \in up}
      last == {f \in [nbrs -> up] : \A n \in nbrs : s.portStatus[f[n]].destRouterID = n}
  IN {[n \in nbrs |-> s.portStatus[f[n]].timeCost] : f \in last}

\* BUG (mutant): a destination that has a next hop keeps it.
UpdateTableKeepsHops(s, now) ==
  {[s EXCEPT
     !.nodeTable = StoreAll(@, [d \in DOMAIN dist |-> [lastUpdate |-> now, timeCost |-> dist[d].cost]]),
     !.forwardingTable = StoreAll([d \in DOMAIN dist |-> FindNextHop(s.id, dist, d)], @)] :
   dist \in UNION {ShortestPaths(s.id, s.costTable, direct, DOMAIN s.nodeTable) :
                   direct \in DirectCosts(s)}}

\* UpdateTable: shortest paths over costTable to the routers of nodeTable; then all
\* of them, reachable or not, are stamped fresh and given a next hop.
UpdateTable(s, now) ==
  {[s EXCEPT
     !.nodeTable = StoreAll(@, [d \in DOMAIN dist |-> [lastUpdate |-> now, timeCost |-> dist[d].cost]]),
     !.forwardingTable = StoreAll(@, [d \in DOMAIN dist |-> FindNextHop(s.id, dist, d)])] :
   dist \in UNION {ShortestPaths(s.id, s.costTable, direct, DOMAIN s.nodeTable) :
                   direct \in DirectCosts(s)}}

-----------------------------------------------------------------------------
\* LinkState: receiving and expiry

\* BUG (mutant): the sequence number is not looked at.
HandlePacketAnySeq(s, port, pkt, now) ==
  LET t == RefreshNodeEntry([s EXCEPT !.seqTable[pkt.sourceID] = pkt.seqNum], pkt.sourceID, now)
  IN {[s |-> u, out |-> FloodUpdates(s, port, pkt)] :
       u \in UpdateTable([t EXCEPT !.costTable[pkt.sourceID] = pkt.costTable], now)}

\* BUG (mutant): an advertisement of the same links as before is not flooded.
HandlePacketQuiet(s, port, pkt, now) ==
  IF pkt.seqNum <= s.seqTable[pkt.sourceID] THEN Keep(s)
  ELSE LET t == RefreshNodeEntry([s EXCEPT !.seqTable[pkt.sourceID] = pkt.seqNum],
                                 pkt.sourceID, now)
       IN IF pkt.costTable = t.costTable[pkt.sourceID] THEN Keep(t)
          ELSE {[s |-> u, out |-> FloodUpdates(s, port, pkt)] :
                 u \in UpdateTable([t EXCEPT !.costTable[pkt.sourceID] = pkt.costTable], now)}

\* Only a sequence number above the last one from that source is news.  Paths are
\* computed again if the links differ (NeedCostUpdated); the packet is flooded even
\* if they do not.
HandlePacket(s, port, pkt, now) ==
  IF pkt.seqNum <= s.seqTable[pkt.sourceID] THEN Keep(s)
  ELSE LET t == RefreshNodeEntry([s EXCEPT !.seqTable[pkt.sourceID] = pkt.seqNum],
                                 pkt.sourceID, now)
       IN {[s |-> u, out |-> FloodUpdates(s, port, pkt)] :
            u \in IF pkt.costTable = t.costTable[pkt.sourceID] THEN {t}
                  ELSE UpdateTable([t EXCEPT !.costTable[pkt.sourceID] = pkt.costTable], now)}

\* BUG (mutant): the neighbour stays adjacent.
ExpirePortsKeepNeighbour(s, now) ==
  TakeDown(s, DeadPorts(s, now))

\* BUG (mutant): the neighbour stays adjacent, at infinity.
ExpirePortsInfinite(s, now) ==
  LET gone == {s.portStatus[p].destRouterID : p \in DeadPorts(s, now)} IN
  [ExpirePortsKeepNeighbour(s, now) EXCEPT
    !.adjacencyList = [n \in DOMAIN @ |->
       IF n \in gone THEN [@[n] EXCEPT !.timeCost = INFINITY_COST] ELSE @[n]]]

\* PortExpiredCheck: a port without a PONG for too long goes down, on every check
\* again, and its neighbour, if adjacent, is forgotten.  The forwarding table stays.
ExpirePorts(s, now) ==
  LET dead == DeadPorts(s, now)
      gone == {s.portStatus[p].destRouterID : p \in dead} \cap DOMAIN s.adjacencyList
  IN [TakeDown(s, dead) EXCEPT
       !.adjacencyList = Restrict(@, DOMAIN @ \ gone),
       !.costTable = RemoveNodes(@, gone),
       !.nodeTable = [d \in DOMAIN @ |->
          IF d \in gone THEN [@[d] EXCEPT !.timeCost = INFINITY_COST] ELSE @[d]]]

StaleNodes(s, now) ==
  {d \in DOMAIN s.nodeTable : /\ now - s.nodeTable[d].lastUpdate >= NodeLifetime
                              /\ s.nodeTable[d].timeCost # INFINITY_COST}

\* NodeTableExpiredCheck.
ExpireNodes(s, stale) ==
  [s EXCEPT
    !.costTable = RemoveNodes(@, stale),
    !.nodeTable = [d \in DOMAIN @ |->
       IF d \in stale THEN [@[d] EXCEPT !.timeCost = INFINITY_COST] ELSE @[d]]]

-----------------------------------------------------------------------------
\* RoutingProtocolImpl: the handlers

\* A PONG measures the port and names the neighbour.  If the neighbour is new, the
\* port was down or the cost changed, paths are computed again and everybody is told;
\* only a neighbour known already is refreshed in nodeTable.
handlePongs(s, port, pkt, now) ==
  LET nbr   == pkt.sourceID
      rtt   == RoundTripCost(now, pkt.stamp)
      wasUp == port \in UpPorts(s) /\ nbr \in DOMAIN s.adjacencyList
      t     == [s EXCEPT
                 !.portStatus = Store(@, port, [destRouterID |-> nbr, isUp |-> TRUE,
                                                lastUpdate |-> now, timeCost |-> rtt]),
                 !.adjacencyList = Store(@, nbr, [port |-> port, timeCost |-> rtt])]
      u     == IF wasUp THEN RefreshNodeEntry(t, nbr, now) ELSE t
  IN IF wasUp /\ s.adjacencyList[nbr].timeCost = rtt
     THEN Keep(u)
     ELSE {SendUpdates(v) : v \in UpdateTable(u, now)}

handleData(s, pkt) ==
  IF pkt.dst = s.id \/ pkt.dst \notin DOMAIN s.forwardingTable THEN Keep(s)
  ELSE {forwardTo(s, s.forwardingTable[pkt.dst], pkt)}

\* The freshness alarm.  SendUpdates runs on every check while some port is dead.
checkFreshness(s, now) ==
  LET dead  == DeadPorts(s, now)
      sent  == IF dead = {} THEN [s |-> s, out |-> {}] ELSE SendUpdates(ExpirePorts(s, now))
      stale == StaleNodes(sent.s, now)
  IN IF stale = {} THEN {sent}
     ELSE {[s |-> u, out |-> sent.out] : u \in UpdateTable(ExpireNodes(sent.s, stale), now)}
=============================================================================
