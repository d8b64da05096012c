-------------------------- MODULE RoutingProtocol --------------------------
(***************************************************************************)
(* What a router does whichever protocol it runs (RoutingProtocolImpl):    *)
(* PINGs and their answers, the age of a port, the port a data packet      *)
(* leaves on.  A handler maps the state s of a router to the set of        *)
(* [s, out] it may end with: the state after it, and the packets it sends, *)
(* each on a port.  There is more than one outcome only where the order of *)
(* a hash table decides.                                                   *)
(*                                                                         *)
(* The state of a router is a record; here its fields are                  *)
(*   id               routerID                                             *)
(*   portStatus       port -> [destRouterID, isUp, lastUpdate, timeCost]   *)
(*   adjacencyList    neighbour -> [port, timeCost]                        *)
(***************************************************************************)
EXTENDS Topology, Costs

\* Milliseconds.
PingPeriod      == 10 * 1000
UpdatePeriod    == 30 * 1000
FreshnessPeriod == 1 * 1000
PortLifetime    == 15 * 1000

Keep(s)    == {[s |-> s, out |-> {}]}
To(p, pkt) == [port |-> p, pkt |-> pkt]

\* A round-trip time in milliseconds, assigned to an unsigned short.
RoundTripCost(now, stamp) == AsCost(now - stamp)

UpPorts(s) == {p \in DOMAIN s.portStatus : s.portStatus[p].isUp}

\* BUG (mutant): a port is given the lifetime of an entry of a table.
DeadPortsLate(s, now) ==
  {p \in DOMAIN s.portStatus : now - s.portStatus[p].lastUpdate > 3 * PortLifetime}

\* Ports without a PONG for too long, those found dead before included.
DeadPorts(s, now) ==
  {p \in DOMAIN s.portStatus : now - s.portStatus[p].lastUpdate > PortLifetime}

TakeDown(s, dead) ==
  [s EXCEPT !.portStatus = [p \in DOMAIN @ |->
     IF p \in dead THEN [@[p] EXCEPT !.timeCost = INFINITY_COST, !.isUp = FALSE] ELSE @[p]]]

sendPings(s, now) ==
  {To(p, [type |-> "PING", sourceID |-> s.id, stamp |-> now]) : p \in Ports[s.id]}

\* BUG (mutant): the answer still names the sender of the PING.
handlePingsSameSource(s, port, pkt) ==
  {[s |-> s, out |-> {To(port, [type |-> "PONG", sourceID |-> pkt.sourceID,
                                stamp |-> pkt.stamp])}]}

\* A PING is answered on the port it came from, with its own time stamp.
handlePings(s, port, pkt) ==
  {[s |-> s, out |-> {To(port, [type |-> "PONG", sourceID |-> s.id, stamp |-> pkt.stamp])}]}

\* A packet goes to the port of the next hop.  adjacencyList[hop] makes an entry, port 0
\* at no cost, when the next hop is not a neighbour.
forwardTo(s, hop, pkt) ==
  LET t == IF hop \in DOMAIN s.adjacencyList THEN s
           ELSE [s EXCEPT !.adjacencyList = Store(@, hop, [port |-> 0, timeCost |-> 0])]
  IN [s |-> t, out |-> {To(t.adjacencyList[hop].port, pkt)}]
=============================================================================
