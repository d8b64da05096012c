------------------------------ MODULE Dijkstra ------------------------------
(***************************************************************************)
(* The three pieces of the shortest-path computation of                    *)
(* LinkState::UpdateTable (LinkState.cpp): the distances it starts from,   *)
(* the choice of the next router to visit, and the relaxation of that      *)
(* router's links.  UpdateTable steps through them one iteration at a      *)
(* time; LinkState runs them to the end inside one handler.                *)
(*                                                                         *)
(* A distance is a record [via, cost]: the router the path last leaves     *)
(* from, and what the whole path costs.                                    *)
(***************************************************************************)
EXTENDS Costs

Distance(Router) == [via : Router, cost : Cost]

\* Neighbours whose port is up start at the cost of their link, and every other
\* router of the node table at infinity; all of them "via" this router.
ActiveDistances(me, direct, known) ==
  [d \in DOMAIN direct \cup (known \ {me}) |->
    [via |-> me, cost |-> IF d \in DOMAIN direct THEN direct[d] ELSE INFINITY_COST]]

\* BUG (mutant): any reachable router is visited, not a closest one.
ClosestAnyReachable(toVisit, dist) ==
  {c \in toVisit : dist[c].cost < INFINITY_COST}

\* The routers the linear scan may pick.  It runs over an unordered_set, so any
\* of several closest routers can be the one it keeps; none when all are at
\* infinity.
Closest(toVisit, dist) ==
  {c \in toVisit : /\ dist[c].cost < INFINITY_COST
                   /\ \A o \in toVisit : dist[c].cost <= dist[o].cost}

\* BUG (mutant): routers already visited are relaxed too, and on a tie.
RelaxVisitedToo(links, toVisit, dist, curr) ==
  [d \in DOMAIN dist |->
    IF d \in DOMAIN links /\ links[d] + dist[curr].cost <= dist[d].cost
    THEN [via |-> curr, cost |-> links[d] + dist[curr].cost]
    ELSE dist[d]]

\* BUG (mutant): the comparison is forgotten, and the sum of two costs stored.
RelaxUnguarded(links, toVisit, dist, curr) ==
  [d \in DOMAIN dist |->
    IF d \in toVisit /\ d \in DOMAIN links
    THEN [via |-> curr, cost |-> links[d] + dist[curr].cost]
    ELSE dist[d]]

\* BUG (mutant): only routers not reached yet are improved, as in a search by
\* number of hops.
RelaxUnreachedOnly(links, toVisit, dist, curr) ==
  [d \in DOMAIN dist |->
    IF /\ d \in toVisit /\ d \in DOMAIN links
       /\ dist[d].cost = INFINITY_COST
       /\ links[d] + dist[curr].cost < dist[d].cost
    THEN [via |-> curr, cost |-> links[d] + dist[curr].cost]
    ELSE dist[d]]

\* One visit of curr, no longer in toVisit: every router still to visit is
\* improved over curr's links when the sum, computed as an int, is strictly less.
\* (This router is never in toVisit, so the code's test for it changes nothing.)
Relax(links, toVisit, dist, curr) ==
  [d \in DOMAIN dist |->
    IF /\ d \in toVisit
       /\ d \in DOMAIN links
       /\ links[d] + dist[curr].cost < dist[d].cost
    THEN [via |-> curr, cost |-> links[d] + dist[curr].cost]
    ELSE dist[d]]

\* What one iteration of the loop may make of the routers still to visit and the
\* distances x = <<toVisit, dist>>, one outcome for each router it may visit.
Visits(costTable, x) ==
  {<<x[1] \ {c}, Relax(costTable[c], x[1] \ {c}, x[2], c)>> : c \in Closest(x[1], x[2])}

\* The whole loop: the distances it may end with.
ShortestPaths(me, costTable, direct, known) ==
  LET start == ActiveDistances(me, direct, known)
      finish[x \in (SUBSET (known \ {me})) \X [DOMAIN start -> [via : known \cup {me}, cost : Cost]]] ==
        LET next == Visits(costTable, x) IN
        IF next = {} THEN {x[2]} ELSE UNION {finish[y] : y \in next}
  IN finish[<<known \ {me}, start>>]

\* Follow the via links back from dest to the router reached directly.
FindNextHop(me, dist, dest) ==
  LET walk[d \in DOMAIN dist] == IF dist[d].via = me THEN d ELSE walk[dist[d].via]
  IN walk[dest]
=============================================================================
