----------------------------- MODULE LSNetwork ------------------------------
(***************************************************************************)
(* A network of link-state routers in the simulator: Simulator composed    *)
(* with LinkState.  One action per kind of event a router handles, each    *)
(* the whole handler.                                                      *)
(***************************************************************************)
EXTENDS RouterNetwork, LinkState

\* init of every router: PINGs at once, and one alarm of each type.
Init ==
  /\ router = [r \in Router |-> InitRouter(r)]
  /\ SimInit((UNION {XmitEvents(r, sendPings(InitRouter(r), 0), 0) : r \in Router})
             \cup {AlarmEvent(r, type, 0, Period[type]) : r \in Router, type \in AlarmTypes})

\* A data packet that originates at a router arrives from its SPECIAL_PORT.
XmitEndToEnd ==
  \E e \in Top(event_q) :
    /\ e.kind = "XmitEndToEnd"
    /\ Handle(e, e.src, handleData(router[e.src], [type |-> "DATA", src |-> e.src, dst |-> e.dst]), {})

RecvPong == \E e \in Arrivals("PONG") :
              Handle(e, e.dest, handlePongs(router[e.dest], e.dport, e.pkt, e.time), {})
RecvData == \E e \in Arrivals("DATA") :
              Handle(e, e.dest, handleData(router[e.dest], e.pkt), {})
RecvLS   == \E e \in Arrivals("LS") :
              Handle(e, e.dest, HandlePacket(router[e.dest], e.dport, e.pkt, e.time), {})

\* BUG (mutant): updates are only sent when something changes.
UpdateAlarmSilent == \E e \in Alarms("Update") :
  Handle(e, e.router, Keep(router[e.router]), Again(e))

UpdateAlarm == \E e \in Alarms("Update") :
  Handle(e, e.router, {SendUpdates(router[e.router])}, Again(e))

FreshnessAlarm == \E e \in Alarms("Freshness") :
  Handle(e, e.router, checkFreshness(router[e.router], e.time), Again(e))

Next ==
  \/ SimNext /\ UNCHANGED router
  \/ XmitEndToEnd \/ RecvPing \/ RecvPong \/ RecvData \/ RecvLS
  \/ PingPongAlarm \/ UpdateAlarm \/ FreshnessAlarm

Spec     == Init /\ [][Next]_vars
FairSpec == Spec /\ WF_vars(Next)

-----------------------------------------------------------------------------
LSInFlight == {e \in InFlight : e.pkt.type = "LS"}

RouterOK(r) ==
  LET s == router[r] IN
  /\ s.id = r
  /\ IsMap(s.portStatus, Ports[r], [destRouterID : Router, isUp : BOOLEAN,
                                    lastUpdate : 0 .. global_time, timeCost : Cost])
  /\ IsMap(s.adjacencyList, Router \ {r}, [port : Ports[r], timeCost : Cost])
  /\ IsMap(s.forwardingTable, Router \ {r}, Router \ {r})
  /\ IsMap(s.nodeTable, Router, [lastUpdate : 0 .. global_time, timeCost : Cost])
  /\ \A o \in Router : IsMap(s.costTable[o], Router, Cost)
  /\ s.seqTable \in [Router -> Nat \cup {NoSeq}]
  /\ s.seqNum \in Nat

TypeOK ==
  /\ SimTypeOK
  /\ \A r \in Router : RouterOK(r)

\* adjacencyList agrees with portStatus: each neighbour has a port that is up, leads to
\* it, and has the cost that is advertised.
AdjacencyBacked ==
  \A r \in Router : \A n \in DOMAIN router[r].adjacencyList :
    LET a == router[r].adjacencyList[n] IN
    /\ a.port \in UpPorts(router[r])
    /\ router[r].portStatus[a.port].destRouterID = n
    /\ router[r].portStatus[a.port].timeCost = a.timeCost

\* CreatePacket asserts that no cost it advertises is infinite.
AdvertisedCostsFinite ==
  \A r \in Router : \A n \in DOMAIN router[r].adjacencyList :
    router[r].adjacencyList[n].timeCost # INFINITY_COST

\* Nobody has heard, or is about to hear, a sequence number its origin has yet to use:
\* otherwise the origin's next advertisements would be dropped as old.
SeqFromOrigin ==
  /\ \A e \in LSInFlight : e.pkt.seqNum < router[e.pkt.sourceID].seqNum
  /\ \A r, o \in Router : router[r].seqTable[o] < router[o].seqNum

\* An origin and a sequence number stand for one advertisement: copies in flight agree,
\* and a router that accepted it holds its links, less those to routers it has since
\* declared gone.
OneContentPerSeq ==
  \A e \in LSInFlight :
    /\ \A f \in LSInFlight :
         f.pkt.sourceID = e.pkt.sourceID /\ f.pkt.seqNum = e.pkt.seqNum => f.pkt = e.pkt
    /\ \A r \in Router :
         router[r].seqTable[e.pkt.sourceID] = e.pkt.seqNum =>
           LET held == router[r].costTable[e.pkt.sourceID] IN
           \A n \in DOMAIN held : n \in DOMAIN e.pkt.costTable /\ held[n] = e.pkt.costTable[n]

\* Sequence numbers do what flooding promises: a router never goes back to an older
\* advertisement of any origin, however they overtake one another, and never takes one
\* that its origin has not issued.
Flood == INSTANCE Flooding WITH
           issued <- [r \in Router |-> router[r].seqNum],
           heard  <- [r \in Router |-> router[r].seqTable]

ImplementsFlooding == Flood!Spec

\* Flooding leaves nobody out: over a link that has been alive all along, a router is
\* behind its neighbour on an origin only while the newer advertisement is on its way
\* to it on that link.
FloodingCovers ==
  losses = 0 =>
  \A l \in DOMAIN Links : link[l].is_alive /\ link[l].since = NeverChanged =>
    \A a \in {Links[l].node1, Links[l].node2} :
      LET b == Peer(a, l) IN
      \A o \in Router \ {a, b} :
        router[b].seqTable[o] < router[a].seqTable[o] =>
          \E e \in LSInFlight :
            /\ e.dest = b /\ e.dport = get_link_port(b, l)
            /\ e.pkt.sourceID = o /\ e.pkt.seqNum >= router[a].seqTable[o]

-----------------------------------------------------------------------------
\* The ports a router puts a packet for d out on.
Hops(q, d) ==
  {m.port : m \in UNION {o.out :
                 o \in handleData(router[q], [type |-> "DATA", src |-> q, dst |-> d])}}

Route(r, d) == Way(Hops, r, d)

RoutesAreShortest == ShortestWays(Hops)

\* Once the network has been left alone for a while, data reaches every router that can
\* be reached, on a path of the least total delay.
LeastDelayRoutes == Settled => RoutesAreShortest

\* Once the network has been left alone for a while, nobody counts a router that cannot
\* be reached as reachable, however often its entry was stamped as fresh since it died:
\* its neighbours' advertisements, not its own silence, must give it away.
DeadForgotten ==
  Settled => \A d \in Router : LET best == TrueCost(d) IN
    \A r \in Router : best[r] = INFINITY_COST /\ d \in DOMAIN router[r].nodeTable =>
      router[r].nodeTable[d].timeCost = INFINITY_COST

\* Once a failure has been noticed and told, data reaches every router that can still
\* be reached.
ReroutesOnceDetected ==
  Detected => \A d \in Router : LET best == TrueCost(d) IN
    \A r \in Router : best[r] < INFINITY_COST => Route(r, d).ends = "arrives"

\* Lost packets are made up for: in the end every router has the shortest path to every
\* other, for good.
Stabilizes == <>[]RoutesAreShortest
=============================================================================
