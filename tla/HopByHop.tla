------------------------------ MODULE HopByHop ------------------------------
(***************************************************************************)
(* What distance-vector routers promise as long as no link fails or gets   *)
(* slower, without packets, costs of 16 bits, poison or timers: a router   *)
(* only ever improves its routes, and claims for a route no less than the  *)
(* link to the next hop costs and the next hop itself has left to go.      *)
(* DVNetwork implements this.                                              *)
(***************************************************************************)
EXTENDS Integers

CONSTANT Router

VARIABLES cost,    \* cost[r][n]: what the link from r to its neighbour n costs
          table    \* table[r][d]: r's route to d, a [nextHop, routeCost]

vars == <<cost, table>>

IsCosts(c) ==
  \A r \in Router : DOMAIN c[r] \subseteq Router \ {r} /\ c[r] \in [DOMAIN c[r] -> Nat \ {0}]

\* A route of r to d that the link and the next hop stand behind.
Backed(r, d, route) ==
  LET hop == route.nextHop IN
  /\ route \in [nextHop : DOMAIN cost[r], routeCost : Nat]
  /\ IF hop = d THEN route.routeCost >= cost[r][d]
     ELSE d \in DOMAIN table[hop] /\ route.routeCost >= cost[r][hop] + table[hop][d].routeCost

Init == /\ DOMAIN cost = Router /\ IsCosts(cost)
        /\ table = [r \in Router |-> <<>>]

\* r finds routes, or better ones.
Improve(r) ==
  LET t == table'[r] IN
  /\ table' = [table EXCEPT ![r] = t]
  /\ DOMAIN table[r] \subseteq DOMAIN t /\ DOMAIN t \subseteq Router \ {r}
  /\ \A d \in DOMAIN t : Backed(r, d, t[d])
  /\ \A d \in DOMAIN table[r] : t[d].routeCost <= table[r][d].routeCost
  /\ UNCHANGED cost

\* Links get faster.
Faster ==
  /\ DOMAIN cost' = Router /\ IsCosts(cost')
  /\ \A r \in Router : /\ DOMAIN cost'[r] = DOMAIN cost[r]
                       /\ \A n \in DOMAIN cost[r] : cost'[r][n] <= cost[r][n]
  /\ UNCHANGED table

Next == Faster \/ \E r \in Router : Improve(r)

Spec == Init /\ [][Next]_vars

-----------------------------------------------------------------------------
\* Every route is backed.
RoutesBacked == \A r \in Router : \A d \in DOMAIN table[r] : Backed(r, d, table[r][d])

\* No packet goes round in a circle: there are no routers that only ever hand a packet
\* for d to one another.
NoTrap ==
  \A d \in Router : \A S \in SUBSET (Router \ {d}) :
    ~ /\ S # {}
      /\ \A r \in S : d \in DOMAIN table[r] /\ table[r][d].nextHop \in S

\* No route is cheaper than the network allows: whatever bound the links respect (the
\* true distances to d among them), the routes to d respect.
NotTooCheap ==
  \A d \in Router : \A bound \in [Router -> Nat] :
    /\ bound[d] = 0
    /\ \A r \in Router : \A n \in DOMAIN cost[r] : bound[r] <= cost[r][n] + bound[n]
    => \A r \in Router : d \in DOMAIN table[r] => table[r][d].routeCost >= bound[r]
=============================================================================
