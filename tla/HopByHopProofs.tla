--------------------------- MODULE HopByHopProofs ---------------------------
(***************************************************************************)
(* Proofs about HopByHop, for any routers, links and costs: routes stay    *)
(* backed whatever the order in which routers improve them, and backed     *)
(* routes neither lead in a circle nor promise too much.                   *)
(***************************************************************************)
EXTENDS HopByHop, NumberFacts

TypeInv == /\ DOMAIN cost = Router /\ IsCosts(cost)
           /\ table = [r \in Router |-> table[r]]
           /\ \A r \in Router : DOMAIN table[r] \subseteq Router \ {r}

Inv == TypeInv /\ RoutesBacked

LEMMA InitInv == Init => Inv
BY DEF Init, Inv, TypeInv, RoutesBacked

\* A faster link backs the routes over it all the more.
LEMMA FasterInv == Inv /\ Faster => Inv'
<1> SUFFICES ASSUME Inv, Faster PROVE Inv'
  OBVIOUS
<1>1. TypeInv'
  BY DEF Inv, TypeInv, Faster
<1>2. ASSUME NEW r \in Router, NEW d \in DOMAIN table'[r]
      PROVE  Backed(r, d, table[r][d])'
  <2> DEFINE route == table[r][d]
             hop == route.nextHop
  <2>1. d \in DOMAIN table[r] /\ table' = table
    BY <1>2 DEF Faster
  <2>2. Backed(r, d, route)
    BY <2>1 DEF Inv, RoutesBacked
  <2>3. /\ DOMAIN cost'[r] = DOMAIN cost[r]
        /\ \A n \in DOMAIN cost[r] : cost'[r][n] <= cost[r][n] /\ cost'[r][n] \in Nat /\ cost[r][n] \in Nat
    BY DEF Inv, TypeInv, Faster, IsCosts
  <2>4. hop \in DOMAIN cost[r] /\ route.routeCost \in Nat
    BY <2>2 DEF Backed
  <2>5. CASE hop = d
    BY <2>1, <2>2, <2>3, <2>4, <2>5 DEF Backed
  <2>6. CASE hop # d
    <3>1. hop \in Router /\ d \in DOMAIN table[hop]
      BY <2>2, <2>4, <2>6 DEF Backed, Inv, TypeInv, IsCosts
    <3>2. Backed(hop, d, table[hop][d])
      BY <3>1, SMTT(30) DEF Inv, RoutesBacked
    <3>3. table[hop][d].routeCost \in Nat
      BY <3>2, Zenon DEF Backed
    <3> QED
      BY <2>1, <2>2, <2>3, <2>4, <2>6, <3>1, <3>3 DEF Backed
  <2> QED
    BY <2>5, <2>6
<1> QED
  BY <1>1, <1>2 DEF Inv, RoutesBacked

\* When r improves its routes, those of the others that lead over r are backed by more.
LEMMA ImproveInv == ASSUME NEW q \in Router PROVE Inv /\ Improve(q) => Inv'
<1> SUFFICES ASSUME Inv, Improve(q) PROVE Inv'
  OBVIOUS
<1>1. \A r \in Router : r # q => table'[r] = table[r]
  BY DEF Inv, TypeInv, Improve
<1>2. TypeInv'
  <2>1. table' = [r \in Router |-> table'[r]]
    BY DEF Inv, TypeInv, Improve
  <2>2. \A r \in Router : DOMAIN table'[r] \subseteq Router \ {r}
    BY <1>1 DEF Inv, TypeInv, Improve
  <2> QED
    BY <2>1, <2>2 DEF Inv, TypeInv, Improve
<1>3. ASSUME NEW h \in Router, NEW d \in DOMAIN table[h]
      PROVE  /\ d \in DOMAIN table'[h]
             /\ table[h][d].routeCost \in Nat /\ table'[h][d].routeCost \in Nat
             /\ table'[h][d].routeCost <= table[h][d].routeCost
  <2>1. table[h][d].routeCost \in Nat
    BY DEF Inv, RoutesBacked, Backed
  <2>2. CASE h = q
    BY <2>1, <2>2 DEF Improve, Backed
  <2>3. CASE h # q
    BY <1>1, <2>1, <2>3
  <2> QED
    BY <2>2, <2>3
<1>4. ASSUME NEW r \in Router, NEW d \in DOMAIN table'[r]
      PROVE  Backed(r, d, table[r][d])'
  <2> DEFINE route == table'[r][d]
             hop == route.nextHop
  <2>1. Backed(r, d, route)
    BY <1>1, <1>4 DEF Inv, RoutesBacked, Improve
  <2>2. hop \in DOMAIN cost[r] /\ route.routeCost \in Nat /\ cost[r][hop] \in Nat /\ cost' = cost
    BY <2>1 DEF Backed, Inv, TypeInv, IsCosts, Improve
  <2>3. CASE hop = d
    BY <2>1, <2>2, <2>3 DEF Backed
  <2>4. CASE hop # d
    <3>1. hop \in Router /\ d \in DOMAIN table[hop]
      BY <2>1, <2>2, <2>4 DEF Backed, Inv, TypeInv, IsCosts
    <3> QED
      BY <2>1, <2>2, <2>4, <3>1, <1>3 DEF Backed
  <2> QED
    BY <2>3, <2>4
<1> QED
  BY <1>2, <1>4 DEF Inv, RoutesBacked

LEMMA StepInv == Inv /\ [Next]_vars => Inv'
<1> SUFFICES ASSUME Inv, [Next]_vars PROVE Inv'
  OBVIOUS
<1>1. CASE Faster
  BY <1>1, FasterInv
<1>2. ASSUME NEW r \in Router, Improve(r) PROVE Inv'
  BY <1>2, ImproveInv
<1>3. CASE UNCHANGED vars
  BY <1>3 DEF Inv, TypeInv, RoutesBacked, Backed, IsCosts, vars
<1> QED
  BY <1>1, <1>2, <1>3 DEF Next

\* What a route of r leads to: its end, or a router whose own route is cheaper.
LEMMA NextHopCheaper ==
  ASSUME Inv, NEW r \in Router, NEW d \in DOMAIN table[r]
  PROVE  LET route == table[r][d]
             hop == route.nextHop IN
         /\ hop \in DOMAIN cost[r] /\ hop \in Router
         /\ route.routeCost \in Nat /\ cost[r][hop] \in Nat \ {0}
         /\ hop = d => route.routeCost >= cost[r][hop]
         /\ hop # d => /\ d \in DOMAIN table[hop] /\ table[hop][d].routeCost \in Nat
                       /\ route.routeCost >= cost[r][hop] + table[hop][d].routeCost
<1> DEFINE route == table[r][d]
           hop == route.nextHop
<1>1. Backed(r, d, route)
  BY DEF Inv, RoutesBacked
<1>2. hop \in DOMAIN cost[r] /\ hop \in Router /\ route.routeCost \in Nat /\ cost[r][hop] \in Nat \ {0}
  BY <1>1, SMTT(30) DEF Backed, Inv, TypeInv, IsCosts
<1>3. ASSUME hop # d PROVE d \in DOMAIN table[hop] /\ table[hop][d].routeCost \in Nat
  <2>1. d \in DOMAIN table[hop]
    BY <1>1, <1>3 DEF Backed
  <2>2. Backed(hop, d, table[hop][d])
    BY <1>2, <2>1 DEF Inv, RoutesBacked
  <2> QED
    BY <2>1, <2>2, Zenon DEF Backed
<1> QED
  BY <1>1, <1>2, <1>3 DEF Backed

\* Along a route the cost goes down, so there is a last router on it, and its next hop
\* is the destination.
LEMMA InvNoTrap == Inv => NoTrap
<1> SUFFICES ASSUME Inv, NEW d \in Router, NEW S \in SUBSET (Router \ {d}), S # {},
                    \A r \in S : d \in DOMAIN table[r] /\ table[r][d].nextHop \in S
             PROVE  FALSE
  BY DEF NoTrap
<1> DEFINE left(r) == table[r][d].routeCost
           costs == {left(r) : r \in S}
<1>1. \A r \in S : /\ left(r) \in Nat
                   /\ left(table[r][d].nextHop) < left(r)
  <2> SUFFICES ASSUME NEW r \in S PROVE left(r) \in Nat /\ left(table[r][d].nextHop) < left(r)
    OBVIOUS
  <2> DEFINE hop == table[r][d].nextHop
  <2>1. r \in Router /\ d \in DOMAIN table[r] /\ hop # d
    OBVIOUS
  <2>2. /\ left(r) \in Nat /\ cost[r][hop] \in Nat \ {0} /\ left(hop) \in Nat
        /\ left(r) >= cost[r][hop] + left(hop)
    BY <2>1, NextHopCheaper
  <2> QED
    BY <2>2
<1>2. PICK least \in costs : \A k \in costs : ~(k < least)
  <2>1. costs \subseteq Nat /\ costs # {}
    BY <1>1
  <2> QED
    BY <2>1, LeastExists
<1>3. PICK r \in S : least = left(r)
  BY <1>2
<1>4. left(table[r][d].nextHop) \in costs
  BY <1>3
<1> QED
  BY <1>1, <1>2, <1>3, <1>4

\* The cheapest of the routes that cost less than the bound would lead over a cheaper one.
LEMMA InvNotTooCheap == Inv => NotTooCheap
<1> SUFFICES ASSUME Inv, NEW d \in Router, NEW bound \in [Router -> Nat], bound[d] = 0,
                    \A r \in Router : \A n \in DOMAIN cost[r] : bound[r] <= cost[r][n] + bound[n]
             PROVE  \A r \in Router : d \in DOMAIN table[r] => table[r][d].routeCost >= bound[r]
  BY DEF NotTooCheap
<1> DEFINE left(r) == table[r][d].routeCost
           cheap == {r \in Router : d \in DOMAIN table[r] /\ left(r) < bound[r]}
           costs == {left(r) : r \in cheap}
<1>1. ASSUME NEW r \in cheap
      PROVE  /\ left(r) \in Nat
             /\ \E hop \in cheap : left(hop) < left(r)
  <2> DEFINE hop == table[r][d].nextHop
  <2>1. r \in Router /\ d \in DOMAIN table[r] /\ left(r) < bound[r] /\ bound[r] \in Nat
    OBVIOUS
  <2>2. /\ hop \in DOMAIN cost[r] /\ hop \in Router
        /\ left(r) \in Nat /\ cost[r][hop] \in Nat \ {0}
        /\ hop = d => left(r) >= cost[r][hop]
        /\ hop # d => /\ d \in DOMAIN table[hop] /\ left(hop) \in Nat
                      /\ left(r) >= cost[r][hop] + left(hop)
    BY <2>1, NextHopCheaper
  <2>3. bound[r] <= cost[r][hop] + bound[hop] /\ bound[hop] \in Nat
    BY <2>1, <2>2
  <2>4. hop # d
    BY <2>1, <2>2, <2>3
  <2>5. left(hop) < left(r) /\ left(hop) < bound[hop]
    BY <2>1, <2>2, <2>3, <2>4
  <2> QED
    BY <2>2, <2>4, <2>5
<1>2. ASSUME cheap # {} PROVE FALSE
  <2>1. costs \subseteq Nat /\ costs # {}
    BY <1>1, <1>2
  <2>2. PICK least \in costs : \A k \in costs : ~(k < least)
    BY <2>1, LeastExists
  <2>3. PICK r \in cheap : least = left(r)
    BY <2>2
  <2>4. PICK hop \in cheap : left(hop) < left(r)
    BY <1>1
  <2> QED
    BY <2>2, <2>3, <2>4
<1>3. \A r \in Router : d \in DOMAIN table[r] => left(r) \in Nat /\ bound[r] \in Nat
  BY NextHopCheaper
<1> QED
  BY <1>2, <1>3

\* As long as links do not fail or get slower, every route is backed by its next hop, at
\* every moment and in any order of events.
THEOREM RoutesStayBacked == Spec => []RoutesBacked
<1>1. Inv => RoutesBacked
  BY DEF Inv
<1> QED
  BY <1>1, InitInv, StepInv, PTL DEF Spec

\* Distance-vector routers never send a packet round in a circle as long as links do not
\* fail or get slower; poison reverse is not needed for it.
THEOREM NeverACircle == Spec => []NoTrap
  BY InitInv, StepInv, InvNoTrap, PTL DEF Spec

\* And no route ever costs less than the least that the network can offer.
THEOREM NeverTooCheap == Spec => []NotTooCheap
  BY InitInv, StepInv, InvNotTooCheap, PTL DEF Spec
=============================================================================
