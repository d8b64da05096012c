---------------------------- MODULE UpdateTable -----------------------------
(***************************************************************************)
(* LinkState::UpdateTable and LinkState::FindNextHop (LinkState.cpp), one  *)
(* iteration of their loops per step, started from any contents of the     *)
(* tables they read: the cost of the link to each neighbour whose port is  *)
(* up (direct), the routers of the node table (known), and what each       *)
(* router advertised of its links (costTable).                             *)
(*                                                                         *)
(* Two things are easily got wrong here.  The walk of FindNextHop has no   *)
(* bound: it ends only because the via links form a tree rooted at this    *)
(* router, also when links cost nothing.  And costs are 16 bits wide, so a *)
(* sum that passes 65535 must never be stored.                             *)
(***************************************************************************)
EXTENDS Dijkstra, FiniteSets, FiniteSetsExt

CONSTANTS Router,        \* all routers
          me,            \* myRouterID
          CostTables,    \* the contents of costTable the call may find
          Directs,       \* the costs of the ports that may be up
          NodeTables     \* the keys nodeTable may have

ASSUME MeAssumption == me \in Router
ASSUME RoutersAssumption == IsFiniteSet(Router)
ASSUME InputAssumption ==
  /\ \A d \in Directs : IsMap(d, Router \ {me}, Cost)
  /\ \A k \in NodeTables : k \subseteq Router
  /\ \A t \in CostTables : /\ DOMAIN t = Router \ {me}
                          /\ \A r \in DOMAIN t : IsMap(t[r], Router, Cost)

VARIABLES
  direct,           \* port cost of each neighbour with a port up
  known,            \* keys of nodeTable
  costTable,        \* advertised links of each router
  activeDistances,  \* best path found so far
  toVisit,          \* routers whose links have not been relaxed
  pc,               \* the loop the call is in
  pending,          \* entries of activeDistances not yet copied out
  destId,           \* the entry being copied out
  currDest,         \* where the walk of FindNextHop stands
  nodeCost,         \* nodeTable[..].timeCost, as written by this call
  forwardingTable,  \* as written by this call
  settledAt,        \* history: when each router was visited, 0 if not
  tick              \* history: the number of the next visit

inputs == <<direct, known, costTable>>
tables == <<pending, destId, currDest, nodeCost, forwardingTable>>
vars   == <<inputs, tables, activeDistances, toVisit, pc, settledAt, tick>>

Init ==
  /\ direct \in Directs /\ known \in NodeTables /\ costTable \in CostTables
  /\ activeDistances = ActiveDistances(me, direct, known)
  /\ toVisit = known \ {me}
  /\ pc = "visit"
  /\ pending = {} /\ destId = me /\ currDest = me
  /\ nodeCost = [d \in {} |-> 0] /\ forwardingTable = [d \in {} |-> me]
  /\ settledAt = [r \in Router |-> 0] /\ tick = 1

\* One iteration of the while loop: a closest router leaves toVisit and its links
\* are relaxed.
Visit ==
  /\ pc = "visit"
  /\ \E curr \in Closest(toVisit, activeDistances) :
       /\ toVisit' = toVisit \ {curr}
       /\ activeDistances' =
            Relax(costTable[curr], toVisit \ {curr}, activeDistances, curr)
       /\ settledAt' = [settledAt EXCEPT ![curr] = tick]
  /\ tick' = tick + 1
  /\ UNCHANGED <<inputs, tables, pc>>

\* Nothing left to visit, or nothing left that can be reached: the scan leaves
\* minCost at infinity.
StopVisiting ==
  /\ pc = "visit"
  /\ \A u \in toVisit : activeDistances[u].cost = INFINITY_COST
  /\ pc' = "copy"
  /\ pending' = DOMAIN activeDistances \ {me}
  /\ UNCHANGED <<inputs, destId, currDest, nodeCost, forwardingTable,
                 activeDistances, toVisit, settledAt, tick>>

\* The final loop takes its next entry and calls FindNextHop for it.
NextDestination ==
  /\ pc = "copy"
  /\ \E d \in pending : destId' = d /\ currDest' = d
  /\ pc' = "walk"
  /\ UNCHANGED <<inputs, pending, nodeCost, forwardingTable, activeDistances,
                 toVisit, settledAt, tick>>

\* One iteration of the walk of FindNextHop.
Hop ==
  /\ pc = "walk"
  /\ activeDistances[currDest].via # me
  /\ currDest' = activeDistances[currDest].via
  /\ UNCHANGED <<inputs, pending, destId, nodeCost, forwardingTable,
                 activeDistances, toVisit, pc, settledAt, tick>>

\* BUG (mutant): what is stored is the router before the destination, not the one
\* after this router.
WriteEntryLast ==
  /\ pc = "walk"
  /\ activeDistances[currDest].via = me
  /\ nodeCost' = Store(nodeCost, destId, activeDistances[destId].cost)
  /\ forwardingTable' = Store(forwardingTable, destId, activeDistances[destId].via)
  /\ pending' = pending \ {destId}
  /\ pc' = "copy"
  /\ UNCHANGED <<inputs, destId, currDest, activeDistances, toVisit, settledAt,
                 tick>>

\* FindNextHop returns and both tables are written.
WriteEntry ==
  /\ pc = "walk"
  /\ activeDistances[currDest].via = me
  /\ nodeCost' = Store(nodeCost, destId, activeDistances[destId].cost)
  /\ forwardingTable' = Store(forwardingTable, destId, currDest)
  /\ pending' = pending \ {destId}
  /\ pc' = "copy"
  /\ UNCHANGED <<inputs, destId, currDest, activeDistances, toVisit, settledAt,
                 tick>>

Return ==
  /\ pc = "copy"
  /\ pending = {}
  /\ pc' = "done"
  /\ UNCHANGED <<inputs, tables, activeDistances, toVisit, settledAt, tick>>

Next == Visit \/ StopVisiting \/ NextDestination \/ Hop \/ WriteEntry \/ Return

\* The call runs on one thread and nothing preempts it for good.
Spec     == Init /\ [][Next]_vars
FairSpec == Spec /\ WF_vars(Next)

-----------------------------------------------------------------------------
Expanded == (known \ {me}) \ toVisit

TypeOK ==
  /\ direct \in Directs /\ known \in NodeTables /\ costTable \in CostTables
  /\ activeDistances \in [DOMAIN direct \cup (known \ {me}) -> Distance(Router)]
  /\ toVisit \in SUBSET (known \ {me})
  /\ pc \in {"visit", "copy", "walk", "done"}
  /\ pending \in SUBSET DOMAIN activeDistances
  /\ destId \in Router /\ currDest \in Router
  /\ pc = "walk" => {destId, currDest} \subseteq DOMAIN activeDistances
  /\ IsMap(nodeCost, Router, Cost)
  /\ IsMap(forwardingTable, Router, Router)
  /\ settledAt \in [Router -> Nat] /\ tick \in Nat \ {0}

\* No router still to visit is closer than one already visited: what makes it
\* right that the loop never goes back to a visited router.
ClosestFirst ==
  \A v \in Expanded, u \in toVisit :
    activeDistances[v].cost <= activeDistances[u].cost

\* Every cost the loop holds is the cost of a real path: the link measured on a
\* port, or a visited router's cost plus a link that router advertised, and the sum
\* never wrapped at 16 bits.
PathBacked ==
  \A d \in DOMAIN activeDistances :
    LET v == activeDistances[d].via IN
    IF v = me
    THEN activeDistances[d].cost = IF d \in DOMAIN direct THEN direct[d]
                                   ELSE INFINITY_COST
    ELSE /\ v \in Expanded
         /\ d \in DOMAIN costTable[v]
         /\ activeDistances[d].cost = activeDistances[v].cost + costTable[v][d]
         /\ activeDistances[d].cost < INFINITY_COST

\* No advertised link of a visited router would still shorten a path, so the
\* distances are a fixed point of Bellman's equation when the loop ends.
NoShortcut ==
  \A v \in Expanded :
    \A d \in DOMAIN costTable[v] \cap (known \ {me}) :
      activeDistances[d].cost <= activeDistances[v].cost + costTable[v][d]

\* The order that makes the via links a tree: what a router is reached through was
\* visited before it.
ViaVisitedBefore ==
  \A d \in DOMAIN activeDistances :
    LET v == activeDistances[d].via IN
    v # me => /\ settledAt[v] > 0
              /\ d \notin toVisit => settledAt[v] < settledAt[d]

\* A next hop written for a router that can be reached is a neighbour with a port
\* up, on a path that costs no more than the one found.
NextHopIsNeighbour ==
  \A d \in DOMAIN forwardingTable :
    activeDistances[d].cost < INFINITY_COST =>
      /\ forwardingTable[d] \in DOMAIN direct
      /\ direct[forwardingTable[d]] <= activeDistances[d].cost

\* The walk of FindNextHop only ever moves to a router visited earlier, so it visits
\* no router twice and cannot run for ever.
WalkDescends ==
  [][currDest' # currDest /\ pc = "walk" =>
       settledAt[currDest'] < settledAt[currDest]]_vars

\* The call returns.
Terminates == <>(pc = "done")

-----------------------------------------------------------------------------
\* Bellman's recursion: what a destination costs, or less over one more of the links that
\* routers of the node table have advertised.
Extended(cost) ==
  [d \in DOMAIN cost |->
    Min({cost[d]} \cup {cost[v] + costTable[v][d] :
           v \in {r \in known \ {me} : d \in known /\ d \in DOMAIN costTable[r]}})]

\* The least cost of a path of at most one link per router that starts at a destination
\* with the given cost.
LeastCosts(start) ==
  LET costs[k \in Nat] == IF k = 0 THEN start ELSE Extended(costs[k - 1])
  IN costs[Cardinality(Router)]

\* When the call returns, every destination has the cost of a shortest path, over
\* routers of the node table, from a neighbour whose port is up, and a destination
\* that can be reached has as next hop a neighbour such a path starts with.
CorrectAtReturn ==
  LET targets  == DOMAIN activeDistances
      at(hops) == [d \in targets |-> IF d \in hops THEN direct[d] ELSE INFINITY_COST]
      least    == LeastCosts(at(DOMAIN direct))
  IN pc = "done" =>
       \A d \in targets :
         /\ nodeCost[d] = least[d]
         /\ least[d] < INFINITY_COST =>
              /\ forwardingTable[d] \in DOMAIN direct
              /\ LeastCosts(at({forwardingTable[d]}))[d] = least[d]

\* When the call returns, its loops have come, one iteration after the other, to what
\* Dijkstra says of them at once: LinkState takes the whole call for one step of a handler.
SameAtOnce ==
  pc = "done" =>
    /\ activeDistances \in ShortestPaths(me, costTable, direct, known)
    /\ \A d \in DOMAIN activeDistances : forwardingTable[d] = FindNextHop(me, activeDistances, d)
=============================================================================
