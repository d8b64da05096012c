------------------------- MODULE UpdateTableProofs --------------------------
(***************************************************************************)
(* UpdateTable is correct for every set of routers, every graph of         *)
(* advertised links and every set of port costs that fit in 16 bits: it    *)
(* returns the least cost of each destination and a next hop on such a     *)
(* path, and that is what the operators of Dijkstra say at once.           *)
(***************************************************************************)
EXTENDS UpdateTable, DijkstraProofs

\* A map that is written at one key stays a map.
LEMMA StoreMap ==
  ASSUME NEW S, NEW T, NEW f, IsMap(f, S, T), NEW k \in S, NEW v \in T
  PROVE  IsMap(Store(f, k, v), S, T)
BY DEF IsMap, Store

-----------------------------------------------------------------------------
\* What holds of the clock of the visits: each visited router has a number of its
\* own, in the order of the visits.
Ticks ==
  /\ \A r \in Router : settledAt[r] < tick
  /\ \A v \in Expanded : settledAt[v] > 0

\* What the end of the loop leaves behind.
LoopEnded == pc # "visit" => \A u \in toVisit : activeDistances[u].cost = INFINITY_COST

\* The walk never climbs to a costlier router.
WalkCheaper ==
  pc = "walk" => activeDistances[currDest].cost <= activeDistances[destId].cost

\* The tables are only written after the loop.
WrittenAfterLoop ==
  /\ pc = "visit" => DOMAIN forwardingTable = {}
  /\ DOMAIN forwardingTable \subseteq DOMAIN activeDistances

IInv ==
  /\ TypeOK
  /\ ClosestFirst
  /\ PathBacked
  /\ NoShortcut
  /\ ViaVisitedBefore
  /\ Ticks
  /\ LoopEnded
  /\ WalkCheaper
  /\ WrittenAfterLoop
  /\ NextHopIsNeighbour

-----------------------------------------------------------------------------
\* The loop starts with a typed state.
LEMMA InitInv == Init => IInv
<1> SUFFICES ASSUME Init PROVE IInv
  OBVIOUS
<1> USE DEF Init
<1>1. IsMap(direct, Router \ {me}, Cost) /\ known \subseteq Router
  BY InputAssumption
<1>2. TypeOK
  <2>1. activeDistances \in [DOMAIN direct \cup (known \ {me}) -> Distance(Router)]
    BY <1>1, InfinityNat, MeAssumption DEF ActiveDistances, Distance, IsMap
  <2> QED
    BY <1>1, <2>1, MeAssumption DEF TypeOK, IsMap
<1>3. \A d \in DOMAIN activeDistances : activeDistances[d].via = me
  BY DEF ActiveDistances
<1>4. Expanded = {}
  BY DEF Expanded
<1>5. ClosestFirst /\ NoShortcut
  BY <1>4 DEF ClosestFirst, NoShortcut
<1>6. PathBacked
  BY <1>3 DEF PathBacked, ActiveDistances
<1>7. ViaVisitedBefore
  BY <1>3 DEF ViaVisitedBefore
<1>8. Ticks
  BY <1>4 DEF Ticks
<1>9. LoopEnded /\ WalkCheaper /\ WrittenAfterLoop /\ NextHopIsNeighbour
  BY DEF LoopEnded, WalkCheaper, WrittenAfterLoop, NextHopIsNeighbour
<1> QED
  BY <1>2, <1>5, <1>6, <1>7, <1>8, <1>9 DEF IInv

-----------------------------------------------------------------------------
\* The inductive step for a visit, the only action that changes the distances.
LEMMA VisitInv == IInv /\ Visit => IInv'
<1> SUFFICES ASSUME IInv, Visit PROVE IInv'
  OBVIOUS
<1> USE DEF IInv
<1> DEFINE dist == activeDistances
           others == known \ {me}
<1>1. PICK curr \in Closest(toVisit, dist) :
        /\ toVisit' = toVisit \ {curr}
        /\ dist' = Relax(costTable[curr], toVisit \ {curr}, dist, curr)
        /\ settledAt' = [settledAt EXCEPT ![curr] = tick]
  BY DEF Visit
<1>2. /\ tick' = tick + 1 /\ pc = "visit" /\ pc' = "visit"
      /\ UNCHANGED inputs /\ UNCHANGED tables
  BY DEF Visit, inputs, tables
<1>3. /\ direct' = direct /\ known' = known /\ costTable' = costTable
      /\ forwardingTable' = forwardingTable
  BY <1>2 DEF inputs, tables
<1>4. /\ curr \in toVisit /\ curr \in others /\ curr \in Router /\ curr # me
      /\ dist[curr].cost < INFINITY_COST
      /\ \A o \in toVisit : dist[curr].cost <= dist[o].cost
  <2>1. known \subseteq Router
    BY InputAssumption DEF TypeOK
  <2> QED
    BY <2>1, <1>1 DEF Closest, TypeOK
<1>5. Expanded' = Expanded \cup {curr} /\ curr \notin Expanded /\ others' = others
  BY <1>1, <1>3, <1>4 DEF Expanded
<1>6. IsMap(costTable[curr], Router, Cost) /\ known \subseteq Router
  BY <1>4, InputAssumption DEF TypeOK
<1> DEFINE D == DOMAIN direct \cup others
<1>7. /\ dist \in [D -> Distance(Router)] /\ DOMAIN dist = D
      /\ toVisit \subseteq others /\ others \subseteq D /\ D' = D
      /\ toVisit \ {curr} \subseteq D /\ curr \in D
  BY <1>3, <1>4 DEF TypeOK
<1>8. /\ dist' \in [D -> Distance(Router)] /\ DOMAIN dist' = D
      /\ \A d \in D \ toVisit' : dist'[d] = dist[d]
      /\ \A d \in D : dist'[d].cost <= dist[d].cost
      /\ \A d \in D : dist'[d] # dist[d] =>
            /\ d \in DOMAIN costTable[curr]
            /\ dist'[d].via = curr
            /\ dist'[d].cost = dist[curr].cost + costTable[curr][d]
            /\ dist'[d].cost < INFINITY_COST
      /\ \A d \in toVisit' \cap DOMAIN costTable[curr] :
            dist'[d].cost <= dist[curr].cost + costTable[curr][d]
  <2> HIDE DEF IInv, dist, D, others
  <2> DEFINE rest == toVisit \ {curr}
             new  == Relax(costTable[curr], rest, dist, curr)
  <2>1. /\ new \in [D -> Distance(Router)]
        /\ \A d \in D \ rest : new[d] = dist[d]
        /\ \A d \in D : new[d].cost <= dist[d].cost
        /\ \A d \in D : new[d] # dist[d] =>
              /\ d \in DOMAIN costTable[curr]
              /\ new[d].via = curr
              /\ new[d].cost = dist[curr].cost + costTable[curr][d]
              /\ new[d].cost < INFINITY_COST
        /\ \A d \in rest \cap DOMAIN costTable[curr] :
              new[d].cost <= dist[curr].cost + costTable[curr][d]
    <3>1. /\ dist \in [D -> Distance(Router)] /\ rest \subseteq D
          /\ curr \in D /\ curr \in Router
      BY <1>4, <1>7
    <3>2. \A n \in DOMAIN costTable[curr] : costTable[curr][n] \in Cost
      BY <1>6 DEF IsMap
    <3> HIDE DEF rest
    <3> QED
      BY ONLY <3>1, <3>2, RelaxFacts, SMTT(60)
  <2>2. toVisit' = rest /\ dist' = new
    BY <1>1
  <2> HIDE DEF rest, new
  <2> QED
    BY <2>1, <2>2
<1>9. /\ \A d \in D : dist[d].cost \in 0 .. INFINITY_COST /\ dist'[d].cost \in 0 .. INFINITY_COST
      /\ \A d \in DOMAIN costTable[curr] : costTable[curr][d] \in 0 .. INFINITY_COST
      /\ \A v \in others : \A d \in DOMAIN costTable[v] : costTable[v][d] \in 0 .. INFINITY_COST
  <2>1. \A d \in D : dist[d] \in Distance(Router) /\ dist'[d] \in Distance(Router)
    BY <1>7, <1>8
  <2>2. \A v \in others : IsMap(costTable[v], Router, Cost)
    BY <1>6, InputAssumption DEF TypeOK
  <2> QED
    BY <1>4, <2>1, <2>2, InfinityNat DEF Distance, IsMap
<1> HIDE DEF dist, D, others
\* A router reached now costs at least as much as the one visited.
<1>10. \A u \in toVisit' : dist[curr].cost <= dist'[u].cost
  <2> TAKE u \in toVisit'
  <2>1. u \in toVisit /\ u \in D
    BY <1>1, <1>7
  <2>2. CASE dist'[u] = dist[u]
    BY <1>4, <2>1, <2>2
  <2>3. CASE dist'[u] # dist[u]
    BY <1>7, <1>8, <1>9, <2>1, <2>3, InfinityNat
  <2> QED
    BY <2>2, <2>3
<1>11. Expanded' \subseteq D \ toVisit' /\ Expanded' \subseteq others
  BY <1>1, <1>4, <1>5, <1>7 DEF Expanded, others
<1>12. TypeOK'
  <2>1. settledAt' \in [Router -> Nat] /\ tick' \in Nat \ {0}
    BY <1>1, <1>2, <1>4 DEF TypeOK
  <2>2. dist' \in [(DOMAIN direct \cup (known \ {me}))' -> Distance(Router)]
    BY <1>3, <1>8 DEF D, others
  <2>3. toVisit' \in SUBSET (known \ {me})'
    BY <1>1, <1>3 DEF TypeOK
  <2>4. pending' \in SUBSET DOMAIN activeDistances'
    BY <1>2, <1>7, <1>8 DEF TypeOK, tables, dist
  <2> QED
    BY <1>2, <1>3, <2>1, <2>2, <2>3, <2>4 DEF TypeOK, dist, tables
<1>13. ClosestFirst'
  <2> SUFFICES ASSUME NEW v \in Expanded', NEW u \in toVisit'
               PROVE  dist'[v].cost <= dist'[u].cost
    BY DEF ClosestFirst, dist
  <2>1. dist'[v] = dist[v] /\ v \in D /\ u \in D /\ u \in toVisit
    BY <1>1, <1>7, <1>8, <1>11
  <2>2. CASE v = curr
    BY <1>10, <2>1, <2>2
  <2>3. CASE v \in Expanded
    <3>1. dist[v].cost <= dist[curr].cost
      BY <1>4, <2>3 DEF ClosestFirst, dist
    <3> QED
      BY <1>7, <1>9, <1>10, <2>1, <3>1, InfinityNat
  <2> QED
    BY <1>5, <2>2, <2>3
<1>14. PathBacked'
  <2> SUFFICES ASSUME NEW d \in D
               PROVE  LET v == dist'[d].via IN
                      IF v = me
                      THEN dist'[d].cost = IF d \in DOMAIN direct THEN direct[d] ELSE INFINITY_COST
                      ELSE /\ v \in Expanded' /\ d \in DOMAIN costTable[v]
                           /\ dist'[d].cost = dist'[v].cost + costTable[v][d]
                           /\ dist'[d].cost < INFINITY_COST
    BY <1>3, <1>8 DEF PathBacked, dist
  <2>1. CASE dist'[d] = dist[d]
    <3>1. CASE dist[d].via = me
      BY <1>7, <2>1, <3>1 DEF PathBacked, dist
    <3>2. CASE dist[d].via # me
      <4> DEFINE v == dist[d].via
      <4>1. /\ v \in Expanded /\ d \in DOMAIN costTable[v]
            /\ dist[d].cost = dist[v].cost + costTable[v][d]
            /\ dist[d].cost < INFINITY_COST
        BY <1>7, <3>2 DEF PathBacked, dist
      <4>2. dist'[v] = dist[v] /\ v \in Expanded'
        BY <1>5, <1>8, <1>11, <4>1
      <4> QED
        BY <2>1, <3>2, <4>1, <4>2
    <3> QED
      BY <3>1, <3>2
  <2>2. CASE dist'[d] # dist[d]
    <3>1. dist'[curr] = dist[curr] /\ curr \in Expanded'
      BY <1>5, <1>8, <1>11
    <3> QED
      BY <1>4, <1>8, <2>2, <3>1
  <2> QED
    BY <2>1, <2>2
<1>15. NoShortcut'
  <2> SUFFICES ASSUME NEW v \in Expanded', NEW d \in DOMAIN costTable[v] \cap others
               PROVE  dist'[d].cost <= dist'[v].cost + costTable[v][d]
    BY <1>3 DEF NoShortcut, dist, others
  <2>1. /\ dist'[v] = dist[v] /\ v \in D /\ d \in D /\ v \in others
        /\ dist'[d].cost <= dist[d].cost
    BY <1>7, <1>8, <1>11
  <2>2. /\ costTable[v][d] \in 0 .. INFINITY_COST /\ dist[d].cost \in 0 .. INFINITY_COST
        /\ dist'[d].cost \in 0 .. INFINITY_COST /\ dist[v].cost \in 0 .. INFINITY_COST
        /\ dist[curr].cost \in 0 .. INFINITY_COST
    BY <1>7, <1>9, <2>1
  <2>3. CASE v \in Expanded
    <3>1. dist[d].cost <= dist[v].cost + costTable[v][d]
      BY <2>3 DEF NoShortcut, dist, others
    <3> QED
      BY <2>1, <2>2, <3>1, InfinityNat
  <2>4. CASE v = curr /\ d \in toVisit'
    BY <1>8, <2>1, <2>4
  <2>5. CASE v = curr /\ d \notin toVisit'
    <3>1. d = curr \/ d \in Expanded
      BY <1>1, <2>5 DEF Expanded, others
    <3>2. dist[d].cost <= dist[curr].cost
      BY <1>4, <2>2, <3>1, InfinityNat DEF ClosestFirst, dist
    <3> QED
      BY <2>1, <2>2, <2>5, <3>2, InfinityNat
  <2> QED
    BY <1>5, <2>3, <2>4, <2>5
<1>16. ViaVisitedBefore'
  <2> SUFFICES ASSUME NEW d \in D, dist'[d].via # me
               PROVE  /\ settledAt'[dist'[d].via] > 0
                      /\ d \notin toVisit' => settledAt'[dist'[d].via] < settledAt'[d]
    BY <1>8 DEF ViaVisitedBefore, dist
  <2>1. settledAt \in [Router -> Nat] /\ tick \in Nat \ {0}
    BY DEF TypeOK
  <2>2. CASE dist'[d] # dist[d]
    <3>1. dist'[d].via = curr /\ d \in toVisit'
      BY <1>8, <2>2
    <3> QED
      BY <1>1, <1>4, <2>1, <3>1
  <2>3. CASE dist'[d] = dist[d]
    <3> DEFINE v == dist[d].via
    <3>1. v \in Expanded /\ v \in Router /\ v # curr
      BY <1>5, <1>7, <2>3, <1>6 DEF PathBacked, dist, Expanded
    <3>2. settledAt'[v] = settledAt[v] /\ settledAt[v] > 0 /\ settledAt[v] < tick
      BY <1>1, <2>1, <3>1 DEF Ticks
    <3>3. CASE d = curr
      BY <1>1, <1>4, <2>1, <2>3, <3>2, <3>3
    <3>4. CASE d # curr
      <4>1. d \notin toVisit' => settledAt[v] < settledAt[d]
        BY <1>1, <1>7, <2>3, <3>4 DEF ViaVisitedBefore, dist
      <4>2. settledAt'[d] = settledAt[d]
        BY <1>1, <3>4, <2>1
      <4> QED
        BY <2>3, <3>2, <4>1, <4>2
    <3> QED
      BY <3>3, <3>4
  <2> QED
    BY <2>2, <2>3
<1>17. Ticks'
  BY <1>1, <1>2, <1>4, <1>5 DEF Ticks, TypeOK
<1>18. (LoopEnded /\ WalkCheaper)'
  BY <1>2 DEF LoopEnded, WalkCheaper
<1>19. (WrittenAfterLoop /\ NextHopIsNeighbour)'
  BY <1>2, <1>3 DEF WrittenAfterLoop, NextHopIsNeighbour
<1> QED
  BY <1>12, <1>13, <1>14, <1>15, <1>16, <1>17, <1>18, <1>19

\* The steps after the loop leave the distances, and with them most of the
\* invariant, alone.
LEMMA LoopFactsKept ==
  ASSUME IInv, UNCHANGED <<inputs, activeDistances, toVisit, settledAt, tick>>
  PROVE  /\ (ClosestFirst /\ PathBacked /\ NoShortcut /\ ViaVisitedBefore /\ Ticks)'
         /\ direct' = direct /\ known' = known /\ costTable' = costTable
BY DEF IInv, inputs, ClosestFirst, PathBacked, NoShortcut, ViaVisitedBefore, Ticks,
       Expanded

\* The distances are 16-bit costs, and their via links are routers.
LEMMA DistancesTyped ==
  ASSUME TypeOK
  PROVE  /\ DOMAIN activeDistances = DOMAIN direct \cup (known \ {me})
         /\ DOMAIN activeDistances \subseteq Router
         /\ \A d \in DOMAIN activeDistances :
              /\ activeDistances[d].cost \in 0 .. INFINITY_COST
              /\ activeDistances[d].via \in Router
         /\ \A v \in Expanded : v \in DOMAIN activeDistances /\ v # me
         /\ \A v \in Expanded : \A d \in DOMAIN costTable[v] :
              costTable[v][d] \in 0 .. INFINITY_COST
<1>1. /\ activeDistances \in [DOMAIN direct \cup (known \ {me}) -> Distance(Router)]
      /\ DOMAIN direct \subseteq Router /\ known \subseteq Router
  BY InputAssumption DEF TypeOK, IsMap
<1>2. \A d \in DOMAIN activeDistances : activeDistances[d] \in Distance(Router)
  BY <1>1
<1>3. \A v \in Expanded : IsMap(costTable[v], Router, Cost)
  BY <1>1, InputAssumption DEF TypeOK, Expanded
<1> QED
  BY <1>1, <1>2, <1>3, InfinityNat DEF Distance, IsMap, Expanded

\* The step by which the walk moves: the router it moves to was visited before the
\* one it leaves, and costs no more to reach.
LEMMA HopDown ==
  ASSUME IInv, Hop
  PROVE  /\ currDest' \in DOMAIN activeDistances
         /\ settledAt[currDest'] < settledAt[currDest]
         /\ activeDistances[currDest'].cost <= activeDistances[currDest].cost
<1> USE DEF IInv
<1> DEFINE v == activeDistances[currDest].via
<1>1. pc = "walk" /\ v # me /\ currDest' = v /\ currDest \in DOMAIN activeDistances
  BY DEF Hop, TypeOK
<1>2. /\ v \in Expanded /\ currDest \in DOMAIN costTable[v]
      /\ activeDistances[currDest].cost = activeDistances[v].cost + costTable[v][currDest]
      /\ activeDistances[currDest].cost < INFINITY_COST
  BY <1>1 DEF PathBacked
<1>3. currDest \notin toVisit
  BY <1>1, <1>2, InfinityNat DEF LoopEnded
<1>4. settledAt[v] < settledAt[currDest]
  BY <1>1, <1>3 DEF ViaVisitedBefore
<1>5. /\ v \in DOMAIN activeDistances /\ costTable[v][currDest] \in 0 .. INFINITY_COST
      /\ activeDistances[v].cost \in 0 .. INFINITY_COST
  BY <1>2, DistancesTyped
<1> QED
  BY <1>1, <1>2, <1>4, <1>5, InfinityNat

\* The inductive step for the actions after the loop.
LEMMA CopyInv ==
  IInv /\ (StopVisiting \/ NextDestination \/ Hop \/ WriteEntry \/ Return) => IInv'
<1> SUFFICES ASSUME IInv, StopVisiting \/ NextDestination \/ Hop \/ WriteEntry \/ Return
             PROVE  IInv'
  OBVIOUS
<1>1. UNCHANGED <<inputs, activeDistances, toVisit, settledAt, tick>>
  BY DEF StopVisiting, NextDestination, Hop, WriteEntry, Return
<1>2. /\ (ClosestFirst /\ PathBacked /\ NoShortcut /\ ViaVisitedBefore /\ Ticks)'
      /\ direct' = direct /\ known' = known /\ costTable' = costTable
  BY <1>1, LoopFactsKept
<1> USE DEF IInv
<1>3. CASE StopVisiting
  <2>1. TypeOK'
    BY <1>1, <1>2, <1>3 DEF StopVisiting, TypeOK, IsMap
  <2>2. LoopEnded'
    BY <1>1, <1>3 DEF StopVisiting, LoopEnded
  <2>3. (WalkCheaper /\ WrittenAfterLoop /\ NextHopIsNeighbour)'
    BY <1>1, <1>2, <1>3
    DEF StopVisiting, WalkCheaper, WrittenAfterLoop, NextHopIsNeighbour
  <2> QED
    BY <1>2, <2>1, <2>2, <2>3
<1>4. CASE NextDestination
  <2>1. PICK d \in pending : destId' = d /\ currDest' = d
    BY <1>4 DEF NextDestination
  <2>2. pc' = "walk" /\ pc = "copy" /\ UNCHANGED <<pending, nodeCost, forwardingTable>>
    BY <1>4 DEF NextDestination
  <2>3. d \in DOMAIN activeDistances /\ d \in Router
    BY DistancesTyped DEF TypeOK
  <2>4. TypeOK'
    BY <1>1, <1>2, <2>1, <2>2, <2>3 DEF TypeOK, IsMap
  <2>5. WalkCheaper'
    BY <1>1, <2>1, <2>3, DistancesTyped, InfinityNat DEF WalkCheaper
  <2>6. (LoopEnded /\ WrittenAfterLoop /\ NextHopIsNeighbour)'
    BY <1>1, <1>2, <2>2 DEF LoopEnded, WrittenAfterLoop, NextHopIsNeighbour
  <2> QED
    BY <1>2, <2>4, <2>5, <2>6
<1>5. CASE Hop
  <2>1. /\ UNCHANGED <<pending, destId, nodeCost, forwardingTable, pc>>
        /\ pc = "walk"
    BY <1>5 DEF Hop
  <2>2. /\ currDest' \in DOMAIN activeDistances /\ currDest' \in Router
        /\ activeDistances[currDest'].cost <= activeDistances[currDest].cost
    BY <1>5, HopDown, DistancesTyped
  <2>3. TypeOK'
    BY <1>1, <1>2, <2>1, <2>2 DEF TypeOK, IsMap
  <2>4. WalkCheaper'
    <3>1. {destId, currDest, currDest'} \subseteq DOMAIN activeDistances
      BY <2>1, <2>2 DEF TypeOK
    <3> QED
      BY <1>1, <2>1, <2>2, <3>1, DistancesTyped, InfinityNat DEF WalkCheaper
  <2>5. (LoopEnded /\ WrittenAfterLoop /\ NextHopIsNeighbour)'
    BY <1>1, <1>2, <2>1 DEF LoopEnded, WrittenAfterLoop, NextHopIsNeighbour
  <2> QED
    BY <1>2, <2>3, <2>4, <2>5
<1>6. CASE WriteEntry
  <2>1. /\ pc = "walk" /\ pc' = "copy" /\ UNCHANGED <<destId, currDest>>
        /\ activeDistances[currDest].via = me
        /\ nodeCost' = Store(nodeCost, destId, activeDistances[destId].cost)
        /\ forwardingTable' = Store(forwardingTable, destId, currDest)
        /\ pending' = pending \ {destId}
    BY <1>6 DEF WriteEntry
  <2>2. /\ destId \in DOMAIN activeDistances /\ currDest \in DOMAIN activeDistances
        /\ destId \in Router /\ currDest \in Router
        /\ activeDistances[destId].cost \in Cost
        /\ activeDistances[destId].cost \in 0 .. INFINITY_COST
        /\ activeDistances[currDest].cost \in 0 .. INFINITY_COST
    BY <2>1, DistancesTyped, InfinityNat DEF TypeOK
  <2>3. IsMap(nodeCost', Router, Cost) /\ IsMap(forwardingTable', Router, Router)
    BY <2>1, <2>2, StoreMap DEF TypeOK
  <2>4. TypeOK'
    BY <1>1, <1>2, <2>1, <2>2, <2>3 DEF TypeOK
  <2>5. WrittenAfterLoop'
    BY <1>1, <2>1, <2>2 DEF WrittenAfterLoop, Store
  <2>6. NextHopIsNeighbour'
    <3> SUFFICES ASSUME NEW d \in DOMAIN forwardingTable',
                        activeDistances[d].cost < INFINITY_COST
                 PROVE  /\ forwardingTable'[d] \in DOMAIN direct
                        /\ direct[forwardingTable'[d]] <= activeDistances[d].cost
      BY <1>1, <1>2 DEF NextHopIsNeighbour
    <3>1. CASE d = destId
      <4>1. forwardingTable'[d] = currDest
        BY <2>1, <3>1 DEF Store
      <4>2. activeDistances[currDest].cost <= activeDistances[d].cost
        BY <2>1, <3>1 DEF WalkCheaper
      <4>3. activeDistances[currDest].cost < INFINITY_COST
        BY <2>2, <3>1, <4>2, InfinityNat
      <4>4. currDest \in DOMAIN direct /\ direct[currDest] = activeDistances[currDest].cost
        BY <2>1, <2>2, <4>3, InfinityNat DEF PathBacked
      <4> QED
        BY <4>1, <4>2, <4>4
    <3>2. CASE d # destId
      <4>1. d \in DOMAIN forwardingTable /\ forwardingTable'[d] = forwardingTable[d]
        BY <2>1, <3>2 DEF Store
      <4> QED
        BY <4>1 DEF NextHopIsNeighbour
    <3> QED
      BY <3>1, <3>2
  <2>7. (LoopEnded /\ WalkCheaper)'
    BY <1>1, <2>1 DEF LoopEnded, WalkCheaper
  <2> QED
    BY <1>2, <2>4, <2>5, <2>6, <2>7
<1>7. CASE Return
  BY <1>1, <1>2, <1>7
  DEF Return, tables, TypeOK, LoopEnded, WalkCheaper, WrittenAfterLoop,
      NextHopIsNeighbour, IsMap
<1> QED
  BY <1>3, <1>4, <1>5, <1>6, <1>7

\* The whole call preserves the invariant.
LEMMA StepInv == IInv /\ [Next]_vars => IInv'
<1> SUFFICES ASSUME IInv, [Next]_vars PROVE IInv'
  OBVIOUS
<1>1. CASE Visit
  BY <1>1, VisitInv
<1>2. CASE StopVisiting \/ NextDestination \/ Hop \/ WriteEntry \/ Return
  BY <1>2, CopyInv
<1>3. CASE UNCHANGED vars
  BY <1>3
  DEF vars, inputs, tables, IInv, TypeOK, ClosestFirst, PathBacked, NoShortcut,
      ViaVisitedBefore, Ticks, LoopEnded, WalkCheaper, WrittenAfterLoop,
      NextHopIsNeighbour, Expanded, IsMap
<1> QED
  BY <1>1, <1>2, <1>3 DEF Next

-----------------------------------------------------------------------------
\* The invariant holds throughout every call.
THEOREM Invariance == Spec => []IInv
<1> QED
  BY InitInv, StepInv, PTL DEF Spec

\* Every table of the call stays well typed: in particular no cost the loop stores
\* ever leaves 16 bits.
THEOREM TypeCorrect == Spec => []TypeOK
<1>1. IInv => TypeOK
  BY DEF IInv
<1> QED
  BY Invariance, <1>1, PTL

\* Visiting the closest router first makes visited distances final, whatever the
\* tables contain.
THEOREM VisitsInOrder == Spec => []ClosestFirst
<1>1. IInv => ClosestFirst
  BY DEF IInv
<1> QED
  BY Invariance, <1>1, PTL

\* Every cost the loop holds is the cost of a real path, and no sum of 16-bit costs
\* ever wraps.
THEOREM CostsAreOfPaths == Spec => []PathBacked
<1>1. IInv => PathBacked
  BY DEF IInv
<1> QED
  BY Invariance, <1>1, PTL

\* No advertised link of a visited router shortens any path: with the two above, the
\* loop computes shortest paths whatever the tables contain.
THEOREM PathsAreShortest == Spec => []NoShortcut
<1>1. IInv => NoShortcut
  BY DEF IInv
<1> QED
  BY Invariance, <1>1, PTL

\* What a router is reached through was visited before it, so the via links are a
\* tree.
THEOREM ViaTree == Spec => []ViaVisitedBefore
<1>1. IInv => ViaVisitedBefore
  BY DEF IInv
<1> QED
  BY Invariance, <1>1, PTL

\* A next hop written for a reachable router is a neighbour whose port is up.
THEOREM NextHops == Spec => []NextHopIsNeighbour
<1>1. IInv => NextHopIsNeighbour
  BY DEF IInv
<1> QED
  BY Invariance, <1>1, PTL

\* FindNextHop moves only to routers visited earlier, so it makes fewer steps than
\* there are routers.
THEOREM WalkGoesDown == Spec => WalkDescends
<1> DEFINE Down == currDest' # currDest /\ pc = "walk" =>
                     settledAt[currDest'] < settledAt[currDest]
<1>1. IInv /\ [Next]_vars => [Down]_vars
  <2> SUFFICES ASSUME IInv, Next, currDest' # currDest, pc = "walk"
               PROVE  settledAt[currDest'] < settledAt[currDest]
    BY DEF vars, tables
  <2>1. Hop
    BY DEF Next, Visit, StopVisiting, NextDestination, WriteEntry, Return, tables
  <2> QED
    BY <2>1, HopDown
<1> QED
  BY Invariance, <1>1, PTL DEF Spec, WalkDescends

-----------------------------------------------------------------------------
\* The reference definition.

\* g is a solution of Bellman's recursion for paths of up to n links.
Upto(start, n, g) == g = [k \in 0 .. n |-> IF k = 0 THEN start ELSE Extended(g[k - 1])]

LEMMA UptoUnfolds ==
  ASSUME NEW start, NEW n \in Nat, NEW g, Upto(start, n, g), NEW k \in 0 .. n
  PROVE  /\ k = 0 => g[k] = start
         /\ k # 0 => g[k] = Extended(g[k - 1])
BY DEF Upto

LEMMA UptoExtends ==
  ASSUME NEW start, NEW n \in Nat, NEW g, Upto(start, n, g)
  PROVE  \E h : Upto(start, n + 1, h)
<1> DEFINE h == [k \in 0 .. n + 1 |-> IF k = 0 THEN start ELSE Extended(g[k - 1])]
<1>1. ASSUME NEW k \in 0 .. n PROVE h[k] = g[k]
  <2>1. (k = 0 => g[k] = start) /\ (k # 0 => g[k] = Extended(g[k - 1]))
    BY UptoUnfolds, SMTT(30)
  <2> QED
    BY <2>1
<1>2. \A k \in 0 .. n + 1 : k # 0 => k - 1 \in 0 .. n
  OBVIOUS
<1>3. \A k \in 0 .. n + 1 : k # 0 => h[k - 1] = g[k - 1]
  <2> HIDE DEF h
  <2> QED
    BY <1>1, <1>2
<1>4. h = [k \in 0 .. n + 1 |-> IF k = 0 THEN start ELSE Extended(h[k - 1])]
  BY <1>3
<1> QED
  BY <1>4 DEF Upto

LEMMA UptoExists ==
  ASSUME NEW start, NEW i \in Nat
  PROVE  \E g : Upto(start, i, g)
<1> DEFINE good == {n \in Nat : \E g : Upto(start, n, g)}
<1>1. 0 \in good
  <2> DEFINE g == [k \in 0 .. 0 |-> start]
  <2>1. g = [k \in 0 .. 0 |-> IF k = 0 THEN start ELSE Extended(g[k - 1])]
    OBVIOUS
  <2>2. Upto(start, 0, g)
    BY <2>1 DEF Upto
  <2> QED
    BY <2>2
<1>2. \A n \in good : n + 1 \in good
  BY UptoExtends
<1>3. i \in good
  <2>1. good \subseteq Nat
    OBVIOUS
  <2> HIDE DEF good
  <2> QED
    BY <1>1, <1>2, <2>1, CountUp
<1> QED
  BY <1>3

LEMMA UptoUnique ==
  ASSUME NEW start, NEW n \in Nat, NEW m \in Nat, NEW g, NEW h, Upto(start, n, g), Upto(start, m, h),
         NEW i \in Nat, i <= n, i <= m
  PROVE  g[i] = h[i]
<1> DEFINE apart == {k \in Nat : k <= i /\ g[k] # h[k]}
<1> SUFFICES ASSUME apart # {} PROVE FALSE
  <2>1. g[i] # h[i] => i \in apart
    OBVIOUS
  <2> QED
    BY <2>1
<1>1. PICK k \in apart : \A j \in apart : ~(j < k)
  <2>1. apart \subseteq Nat
    OBVIOUS
  <2> HIDE DEF apart
  <2> QED
    BY <2>1, LeastExists
<1>2. k \in Nat /\ k <= i /\ g[k] # h[k]
  OBVIOUS
<1>3. /\ k \in 0 .. n /\ k \in 0 .. m
      /\ k # 0 => k - 1 \in Nat /\ k - 1 < k /\ k - 1 <= i
  BY <1>2
<1>4. k # 0 => g[k - 1] = h[k - 1]
  BY <1>1, <1>3
<1>5. /\ k = 0 => g[k] = start /\ h[k] = start
      /\ k # 0 => g[k] = Extended(g[k - 1]) /\ h[k] = Extended(h[k - 1])
  <2>1. k \in 0 .. n /\ k \in 0 .. m
    BY <1>3
  <2> HIDE DEF apart
  <2>2. (k = 0 => g[k] = start) /\ (k # 0 => g[k] = Extended(g[k - 1]))
    BY ONLY <2>1, UptoUnfolds, Upto(start, n, g), n \in Nat, SMTT(30)
  <2>3. (k = 0 => h[k] = start) /\ (k # 0 => h[k] = Extended(h[k - 1]))
    BY ONLY <2>1, UptoUnfolds, Upto(start, m, h), m \in Nat, SMTT(30)
  <2> QED
    BY <2>2, <2>3
<1> QED
  BY <1>2, <1>4, <1>5

\* Bellman's recursion has a solution.
LEMMA LeastCostsFacts ==
  ASSUME NEW start
  PROVE  \E costs : /\ costs[0] = start
                    /\ \A k \in Nat : costs[k + 1] = Extended(costs[k])
                    /\ LeastCosts(start) = costs[Cardinality(Router)]
<1> DEFINE g(k)      == CHOOSE h : Upto(start, k, h)
           f         == [k \in Nat |-> g(k)[k]]
           Solves(c) == c = [k \in Nat |-> IF k = 0 THEN start ELSE Extended(c[k - 1])]
<1>1. \A k \in Nat : Upto(start, k, g(k))
  BY UptoExists
<1> HIDE DEF g
<1>2. ASSUME NEW k \in Nat
      PROVE  f[k] = IF k = 0 THEN start ELSE Extended(f[k - 1])
  <2>1. Upto(start, k, g(k)) /\ f[k] = g(k)[k] /\ k \in 0 .. k
    BY <1>1
  <2>2. g(k)[k] = IF k = 0 THEN start ELSE Extended(g(k)[k - 1])
    BY <2>1, UptoUnfolds
  <2>3. CASE k = 0
    BY <2>1, <2>2, <2>3
  <2>4. CASE k # 0
    <3>1. k - 1 \in Nat /\ k - 1 <= k
      BY <2>4
    <3>2. Upto(start, k - 1, g(k - 1)) /\ f[k - 1] = g(k - 1)[k - 1]
      BY <1>1, <3>1
    <3> HIDE DEF f
    <3>3. g(k)[k - 1] = g(k - 1)[k - 1]
      BY <2>1, <3>1, <3>2, UptoUnique
    <3> QED
      BY <2>1, <2>2, <2>4, <3>2, <3>3
  <2> QED
    BY <2>3, <2>4
<1>3. Solves(f)
  <2>1. f = [k \in Nat |-> f[k]]
    OBVIOUS
  <2> HIDE DEF f
  <2> QED
    BY <1>2, <2>1
<1> DEFINE costs == CHOOSE c : Solves(c)
<1>4. Solves(costs)
  <2> HIDE DEF f, Solves
  <2> QED
    BY <1>3
<1>5. LeastCosts(start) = costs[Cardinality(Router)]
  BY DEF LeastCosts
<1> HIDE DEF costs
<1>6. costs[0] = start /\ \A k \in Nat : costs[k + 1] = Extended(costs[k])
  <2>1. \A k \in Nat : k + 1 \in Nat /\ k + 1 # 0 /\ (k + 1) - 1 = k
    OBVIOUS
  <2> QED
    BY <1>4, <2>1
<1> QED
  BY <1>5, <1>6

-----------------------------------------------------------------------------
\* What the tables hold at the return.

\* The cost of a neighbour's own link bounds what the loop finds for it, a router reached
\* through another is one of the node table, and the visits are numbered from 1.
Bounded ==
  /\ \A d \in DOMAIN direct : activeDistances[d].cost <= direct[d]
  /\ \A d \in DOMAIN activeDistances : activeDistances[d].via # me => d \in known
  /\ tick = Cardinality(Expanded) + 1

\* first[d] is the router after this one on the path found to d: one that has been
\* visited, or d.
Leads(first) ==
  \A d \in DOMAIN activeDistances :
    /\ first[d] \in DOMAIN activeDistances
    /\ activeDistances[first[d]].via = me
    /\ first[d] = d \/ first[d] \notin toVisit
    /\ activeDistances[d].via = me => first[d] = d
    /\ activeDistances[d].via # me => first[d] = first[activeDistances[d].via]

\* The walk stays on the path to the destination it started from, so what is written is
\* the first router of that path.
WalkLeadsBack ==
  \E first \in [DOMAIN activeDistances -> DOMAIN activeDistances] :
    /\ Leads(first)
    /\ pc = "walk" => first[destId] = first[currDest]
    /\ \A d \in DOMAIN forwardingTable : forwardingTable[d] = first[d]

\* Every destination not pending any more has been written.
Written ==
  /\ pc = "visit" => DOMAIN nodeCost = {}
  /\ pc # "visit" => /\ DOMAIN nodeCost = DOMAIN activeDistances \ pending
                     /\ DOMAIN forwardingTable = DOMAIN nodeCost
  /\ \A d \in DOMAIN nodeCost : nodeCost[d] = activeDistances[d].cost
  /\ pc = "walk" => destId \in pending
  /\ pc = "done" => pending = {}

ReturnInv == Bounded /\ WalkLeadsBack /\ Written

LEMMA InitReturnInv == Init => ReturnInv
<1> SUFFICES ASSUME Init PROVE ReturnInv
  OBVIOUS
<1>1. TypeOK
  BY InitInv DEF IInv
<1> DEFINE D == DOMAIN activeDistances
<1>2. /\ D = DOMAIN direct \cup (known \ {me})
      /\ \A d \in D : activeDistances[d].via = me
      /\ \A d \in DOMAIN direct : activeDistances[d].cost = direct[d]
  BY DEF Init, ActiveDistances
<1>3. Expanded = {} /\ tick = 1
  BY DEF Init, Expanded
<1>4. Cardinality(Expanded) = 0
  BY <1>3, FS_EmptySet
<1>5. \A d \in DOMAIN direct : direct[d] \in Nat
  BY <1>1, <1>2, DistancesTyped, InfinityNat
<1>6. Bounded
  BY <1>2, <1>3, <1>4, <1>5 DEF Bounded
<1>7. WalkLeadsBack
  <2> DEFINE first == [d \in D |-> d]
  <2>1. Leads(first)
    BY <1>2 DEF Leads
  <2>2. first \in [D -> D] /\ pc # "walk" /\ DOMAIN forwardingTable = {}
    BY DEF Init
  <2> QED
    BY <2>1, <2>2 DEF WalkLeadsBack
<1>8. Written
  BY DEF Init, Written
<1> QED
  BY <1>6, <1>7, <1>8 DEF ReturnInv

\* A visit changes the paths of routers still to visit only, and nothing is reached
\* through those.
LEMMA VisitReturnInv == IInv /\ ReturnInv /\ Visit => ReturnInv'
<1> SUFFICES ASSUME IInv, ReturnInv, Visit PROVE ReturnInv'
  OBVIOUS
<1> DEFINE dist == activeDistances
           D    == DOMAIN activeDistances
<1>1. PICK curr \in Closest(toVisit, dist) :
        /\ toVisit' = toVisit \ {curr}
        /\ dist' = Relax(costTable[curr], toVisit \ {curr}, dist, curr)
        /\ settledAt' = [settledAt EXCEPT ![curr] = tick]
  BY DEF Visit
<1>2. /\ tick' = tick + 1 /\ pc = "visit" /\ pc' = "visit"
      /\ direct' = direct /\ known' = known
      /\ forwardingTable' = forwardingTable /\ nodeCost' = nodeCost /\ pending' = pending
  BY DEF Visit, inputs, tables
<1>3. /\ curr \in toVisit /\ curr \in known \ {me} /\ toVisit \subseteq known \ {me}
      /\ TypeOK /\ PathBacked
  BY <1>1 DEF Closest, TypeOK, IInv
<1>4. /\ known \subseteq Router /\ D = DOMAIN direct \cup (known \ {me})
      /\ dist \in [D -> Distance(Router)] /\ IsMap(costTable[curr], Router, Cost)
  BY <1>3, InputAssumption DEF TypeOK
<1> DEFINE rest == toVisit \ {curr}
<1>5. /\ DOMAIN dist' = D
      /\ \A d \in D \ rest : dist'[d] = dist[d]
      /\ \A d \in D : dist'[d].cost <= dist[d].cost
      /\ \A d \in D : dist'[d] # dist[d] => dist'[d].via = curr
      /\ \A d \in D : dist'[d].cost \in Nat /\ dist[d].cost \in Nat
  <2> DEFINE new == Relax(costTable[curr], rest, dist, curr)
  <2>1. rest \subseteq D /\ curr \in D /\ curr \in Router
    BY <1>3, <1>4
  <2> HIDE DEF rest
  <2>2. /\ new \in [D -> Distance(Router)]
        /\ \A d \in D \ rest : new[d] = dist[d]
        /\ \A d \in D : new[d].cost <= dist[d].cost
        /\ \A d \in D : new[d] # dist[d] =>
              /\ d \in DOMAIN costTable[curr]
              /\ new[d].via = curr
              /\ new[d].cost = dist[curr].cost + costTable[curr][d]
              /\ new[d].cost < INFINITY_COST
        /\ \A d \in rest \cap DOMAIN costTable[curr] :
              new[d].cost <= dist[curr].cost + costTable[curr][d]
    <3>1. \A n \in DOMAIN costTable[curr] : costTable[curr][n] \in Cost
      BY <1>4 DEF IsMap
    <3>2. dist \in [D -> Distance(Router)]
      BY <1>4
    <3> QED
      BY ONLY <2>1, <3>1, <3>2, RelaxFacts, SMTT(60)
  <2> HIDE DEF D, dist
  <2>3. dist' = new
    BY <1>1 DEF rest
  <2> HIDE DEF new
  <2>4. DOMAIN dist' = D
    BY <2>2, <2>3
  <2>5. \A d \in D : dist'[d] \in Distance(Router) /\ dist[d] \in Distance(Router)
    BY <1>4, <2>2, <2>3
  <2>6. \A d \in D : dist'[d].cost \in Nat /\ dist[d].cost \in Nat
    BY <2>5, InfinityNat DEF Distance
  <2> QED
    BY <2>2, <2>3, <2>4, <2>6
<1> HIDE DEF dist, D, rest
<1>6. Expanded' = Expanded \cup {curr} /\ curr \notin Expanded /\ Expanded \subseteq Router
  BY <1>1, <1>2, <1>3, <1>4 DEF Expanded
<1>7. Bounded'
  <2>1. IsFiniteSet(Expanded)
    BY <1>6, RoutersAssumption, FS_Subset
  <2>2. Cardinality(Expanded') = Cardinality(Expanded) + 1 /\ Cardinality(Expanded) \in Nat
    BY <1>6, <2>1, FS_AddElement, FS_CardinalityType
  <2>3. tick' = Cardinality(Expanded') + 1
    BY <1>2, <2>2 DEF ReturnInv, Bounded
  <2>4. ASSUME NEW d \in DOMAIN direct PROVE dist'[d].cost <= direct[d]
    <3>1. d \in D /\ dist[d].cost <= direct[d] /\ direct[d] \in Nat
      BY <1>3, <1>4, InputAssumption, InfinityNat DEF ReturnInv, Bounded, dist, TypeOK, IsMap
    <3> QED
      BY <1>5, <3>1
  <2>5. ASSUME NEW d \in D, dist'[d].via # me PROVE d \in known
    <3>1. CASE dist'[d] = dist[d]
      BY <2>5, <3>1 DEF ReturnInv, Bounded, dist, D
    <3>2. CASE dist'[d] # dist[d]
      BY <1>3, <1>5, <3>2 DEF rest
    <3> QED
      BY <3>1, <3>2
  <2> QED
    BY <1>2, <1>5, <2>3, <2>4, <2>5 DEF Bounded, dist
<1>8. WalkLeadsBack'
  <2>1. PICK first \in [D -> D] : Leads(first)
    BY DEF ReturnInv, WalkLeadsBack, D
  <2> DEFINE moved == [d \in D |-> IF dist'[d] = dist[d] THEN first[d] ELSE first[curr]]
  <2>2. curr \in D /\ curr \notin rest /\ dist'[curr] = dist[curr] /\ curr # me
    BY <1>3, <1>4, <1>5 DEF rest
  <2>3. ASSUME NEW d \in D, dist[d].via # me
        PROVE  dist[d].via \in D /\ dist'[dist[d].via] = dist[dist[d].via]
    <3>1. dist[d].via \in Expanded
      BY <1>3, <2>3 DEF PathBacked, dist, D
    <3>2. dist[d].via \in D \ rest
      BY <1>3, <1>4, <3>1 DEF Expanded, rest
    <3> QED
      BY <1>5, <3>2
  <2>4. \A d \in D : first[d] \in D
    OBVIOUS
  <2>5. \A d \in D \ rest : dist'[d] = dist[d]
    BY <1>5
  <2>6. toVisit' = rest /\ rest \subseteq toVisit
    BY <1>1 DEF rest
  <2>7. ASSUME NEW d \in D
        PROVE  /\ first[d] \in D /\ dist[first[d]].via = me
               /\ first[d] = d \/ first[d] \notin rest
               /\ dist[d].via = me => first[d] = d
               /\ dist[d].via # me => first[d] = first[dist[d].via]
    BY <2>1, <2>4, <2>6 DEF Leads, dist, D
  <2>8. moved \in [D -> D]
    BY <2>2, <2>4
  <2>9. ASSUME NEW d \in D
        PROVE  /\ moved[d] \in D
               /\ dist'[moved[d]].via = me
               /\ moved[d] = d \/ moved[d] \notin rest
               /\ dist'[d].via = me => moved[d] = d
               /\ dist'[d].via # me => moved[d] = moved[dist'[d].via]
    <3>1. CASE dist'[d] # dist[d]
      <4>1. moved[d] = first[curr] /\ moved[curr] = first[curr]
        BY <2>2, <3>1
      <4>2. first[curr] \in D \ rest /\ dist[first[curr]].via = me
        BY <2>2, <2>7
      <4> HIDE DEF moved
      <4> QED
        BY <1>5, <2>2, <2>5, <3>1, <4>1, <4>2
    <3>2. CASE dist'[d] = dist[d]
      <4>1. moved[d] = first[d]
        BY <3>2
      <4>2. dist[d].via # me => moved[dist[d].via] = first[dist[d].via]
        BY <2>3
      <4> HIDE DEF moved
      <4> QED
        BY <2>5, <2>7, <3>2, <4>1, <4>2
    <3> QED
      BY <3>1, <3>2
  <2> HIDE DEF moved
  <2>10. \E f : f = moved
    OBVIOUS
  <2>11. PICK f : f = moved
    BY <2>10, Zenon
  <2>12. /\ f \in [DOMAIN dist' -> DOMAIN dist']
         /\ \A d \in DOMAIN dist' :
              /\ f[d] \in DOMAIN dist'
              /\ dist'[f[d]].via = me
              /\ f[d] = d \/ f[d] \notin toVisit'
              /\ dist'[d].via = me => f[d] = d
              /\ dist'[d].via # me => f[d] = f[dist'[d].via]
    BY <1>5, <2>6, <2>8, <2>9, <2>11
  <2>13. Leads(f)'
    BY <2>12 DEF Leads, dist
  <2>14. DOMAIN forwardingTable' = {} /\ pc' # "walk"
    BY <1>2 DEF IInv, WrittenAfterLoop
  <2> QED
    BY <2>12, <2>13, <2>14 DEF WalkLeadsBack, dist
<1>9. Written'
  <2>1. DOMAIN nodeCost = {}
    BY <1>2 DEF ReturnInv, Written
  <2> QED
    BY <1>2, <2>1 DEF Written
<1> QED
  BY <1>7, <1>8, <1>9 DEF ReturnInv

\* After the loop the paths stay as they are, and the walk of FindNextHop ends at the
\* first router of one.
LEMMA CopyReturnInv ==
  IInv /\ ReturnInv /\ (StopVisiting \/ NextDestination \/ Hop \/ WriteEntry \/ Return)
    => ReturnInv'
<1> SUFFICES ASSUME IInv, ReturnInv,
                    StopVisiting \/ NextDestination \/ Hop \/ WriteEntry \/ Return
             PROVE  ReturnInv'
  OBVIOUS
<1> DEFINE dist == activeDistances
           D    == DOMAIN activeDistances
<1>1. /\ activeDistances' = activeDistances /\ toVisit' = toVisit /\ tick' = tick
      /\ direct' = direct /\ known' = known
  BY DEF StopVisiting, NextDestination, Hop, WriteEntry, Return, inputs
<1>2. Bounded'
  BY <1>1 DEF ReturnInv, Bounded, Expanded
<1>3. PICK first \in [D -> D] :
        /\ Leads(first)
        /\ pc = "walk" => first[destId] = first[currDest]
        /\ \A d \in DOMAIN forwardingTable : forwardingTable[d] = first[d]
  BY DEF ReturnInv, WalkLeadsBack
<1>4. Leads(first)'
  BY <1>1, <1>3 DEF Leads
<1>5. TypeOK /\ Written
  BY DEF IInv, ReturnInv
<1>6. SUFFICES /\ pc' = "walk" => first[destId'] = first[currDest']
               /\ \A d \in DOMAIN forwardingTable' : forwardingTable'[d] = first[d]
               /\ Written'
  BY <1>1, <1>2, <1>3, <1>4 DEF ReturnInv, WalkLeadsBack
<1>7. CASE StopVisiting
  <2>1. /\ pc = "visit" /\ pc' = "copy" /\ pending' = D \ {me}
        /\ nodeCost' = nodeCost /\ forwardingTable' = forwardingTable
    BY <1>7 DEF StopVisiting
  <2>2. me \notin D
    BY <1>5, InputAssumption DEF TypeOK, IsMap
  <2>3. DOMAIN nodeCost = {} /\ DOMAIN forwardingTable = {}
    BY <1>5, <2>1 DEF Written, IInv, WrittenAfterLoop
  <2> QED
    BY <1>1, <1>3, <2>1, <2>2, <2>3 DEF Written
<1>8. CASE NextDestination
  BY <1>1, <1>3, <1>5, <1>8 DEF NextDestination, Written
<1>9. CASE Hop
  <2>1. /\ pc = "walk" /\ pc' = "walk" /\ dist[currDest].via # me
        /\ currDest' = dist[currDest].via
        /\ UNCHANGED <<pending, destId, nodeCost, forwardingTable>>
    BY <1>9 DEF Hop
  <2>2. currDest \in D
    BY <1>5, <2>1 DEF TypeOK
  <2>3. first[currDest] = first[currDest']
    BY <1>3, <2>1, <2>2 DEF Leads
  <2>4. Written'
    BY <1>1, <1>5, <2>1 DEF Written
  <2> QED
    BY <1>3, <2>1, <2>3, <2>4
<1>10. CASE WriteEntry
  <2>1. /\ pc = "walk" /\ pc' = "copy"
        /\ dist[currDest].via = me
        /\ nodeCost' = Store(nodeCost, destId, dist[destId].cost)
        /\ forwardingTable' = Store(forwardingTable, destId, currDest)
        /\ pending' = pending \ {destId}
    BY <1>10 DEF WriteEntry
  <2>2. currDest \in D /\ destId \in D /\ destId \in pending
    BY <1>5, <2>1 DEF TypeOK, Written
  <2>3. first[destId] = currDest
    BY <1>3, <2>1, <2>2 DEF Leads
  <2>4. \A d \in DOMAIN forwardingTable' : forwardingTable'[d] = first[d]
    BY <1>3, <2>1, <2>3 DEF Store
  <2>5. /\ DOMAIN nodeCost' = DOMAIN nodeCost \cup {destId}
        /\ DOMAIN forwardingTable' = DOMAIN forwardingTable \cup {destId}
        /\ \A d \in DOMAIN nodeCost' :
             nodeCost'[d] = IF d = destId THEN dist[destId].cost ELSE nodeCost[d]
    BY <2>1 DEF Store
  <2>6. Written'
    BY <1>1, <1>5, <2>1, <2>2, <2>5 DEF Written
  <2> QED
    BY <2>1, <2>4, <2>6
<1>11. CASE Return
  BY <1>1, <1>3, <1>5, <1>11 DEF Return, tables, Written
<1> QED
  BY <1>7, <1>8, <1>9, <1>10, <1>11

LEMMA ReturnInvariance == Spec => [](IInv /\ ReturnInv)
<1>1. Init => IInv /\ ReturnInv
  BY InitInv, InitReturnInv
<1>2. ASSUME IInv, ReturnInv, [Next]_vars PROVE ReturnInv'
  <2>1. CASE Visit
    BY <1>2, <2>1, VisitReturnInv
  <2>2. CASE StopVisiting \/ NextDestination \/ Hop \/ WriteEntry \/ Return
    BY <1>2, <2>2, CopyReturnInv
  <2>3. CASE UNCHANGED vars
    BY <1>2, <2>3
    DEF vars, inputs, tables, ReturnInv, Bounded, Expanded, WalkLeadsBack, Leads, Written
  <2> QED
    BY <1>2, <2>1, <2>2, <2>3 DEF Next
<1>3. IInv /\ ReturnInv /\ [Next]_vars => (IInv /\ ReturnInv)'
  BY <1>2, StepInv
<1> QED
  BY <1>1, <1>3, PTL DEF Spec

-----------------------------------------------------------------------------
\* The reference definition bounds what the loop finds from both sides.
LEMMA MinFacts ==
  ASSUME NEW S, S \subseteq Nat, S # {}
  PROVE  Min(S) \in S /\ \A n \in S : Min(S) <= n
<1>1. PICK n \in S : \A k \in S : ~(k < n)
  BY LeastExists
<1>2. \A k \in S : n <= k
  BY <1>1
<1> QED
  BY <1>2 DEF Min

\* One step of Bellman's recursion never raises a cost, takes every advertised link into
\* account, and makes nothing up.
LEMMA ExtendedFacts ==
  ASSUME TypeOK, NEW c \in [DOMAIN activeDistances -> Nat]
  PROVE  LET D == DOMAIN activeDistances IN
         /\ Extended(c) \in [D -> Nat]
         /\ \A d \in D : Extended(c)[d] <= c[d]
         /\ \A v \in known \ {me} : \A d \in D :
              d \in known /\ d \in DOMAIN costTable[v] => Extended(c)[d] <= c[v] + costTable[v][d]
         /\ \A d \in D :
              \/ Extended(c)[d] = c[d]
              \/ \E v \in known \ {me} :
                   /\ d \in known /\ d \in DOMAIN costTable[v]
                   /\ Extended(c)[d] = c[v] + costTable[v][d]
<1> DEFINE D       == DOMAIN activeDistances
           over(d) == {r \in known \ {me} : d \in known /\ d \in DOMAIN costTable[r]}
           S(d)    == {c[d]} \cup {c[v] + costTable[v][d] : v \in over(d)}
<1>1. known \ {me} \subseteq D /\ known \subseteq Router
  BY DistancesTyped, InputAssumption DEF TypeOK
<1>2. ASSUME NEW v \in known \ {me} PROVE IsMap(costTable[v], Router, Cost)
  BY <1>1, InputAssumption DEF TypeOK
<1>3. ASSUME NEW v \in known \ {me}, NEW d \in DOMAIN costTable[v]
      PROVE  costTable[v][d] \in Nat
  <2>1. IsMap(costTable[v], Router, Cost)
    BY <1>2
  <2> QED
    BY <2>1, InfinityNat DEF IsMap
<1>4. ASSUME NEW d \in D
      PROVE  Min(S(d)) \in S(d) /\ Min(S(d)) \in Nat /\ \A n \in S(d) : Min(S(d)) <= n
  <2>1. \A v \in over(d) : v \in D /\ c[v] + costTable[v][d] \in Nat
    BY <1>1, <1>3
  <2>2. S(d) \subseteq Nat /\ S(d) # {}
    <3> HIDE DEF D, over
    <3>1. c[d] \in Nat
      BY DEF D
    <3> QED
      BY <2>1, <3>1
  <2> HIDE DEF S
  <2> QED
    BY <2>2, MinFacts
<1>5. Extended(c) = [d \in D |-> Min(S(d))]
  BY Zenon DEF Extended
<1> HIDE DEF D
<1>6. Extended(c) \in [D -> Nat] /\ \A d \in D : Extended(c)[d] = Min(S(d))
  <2> HIDE DEF S
  <2> QED
    BY <1>4, <1>5
<1>7. ASSUME NEW d \in D PROVE Extended(c)[d] <= c[d]
  <2>1. c[d] \in S(d)
    OBVIOUS
  <2> HIDE DEF S
  <2> QED
    BY <1>4, <1>6, <2>1
<1>8. ASSUME NEW v \in known \ {me}, NEW d \in D, d \in known, d \in DOMAIN costTable[v]
      PROVE  Extended(c)[d] <= c[v] + costTable[v][d]
  <2>1. v \in over(d)
    BY <1>8
  <2>2. c[v] + costTable[v][d] \in S(d)
    <3> HIDE DEF over
    <3> QED
      BY <2>1
  <2> HIDE DEF S, over
  <2> QED
    BY <1>4, <1>6, <2>2
<1>9. ASSUME NEW d \in D, Extended(c)[d] # c[d]
      PROVE  \E v \in known \ {me} : /\ d \in known /\ d \in DOMAIN costTable[v]
                                     /\ Extended(c)[d] = c[v] + costTable[v][d]
  <2>1. Extended(c)[d] \in S(d)
    <3> HIDE DEF S
    <3> QED
      BY <1>4, <1>6
  <2>2. PICK v \in over(d) : Extended(c)[d] = c[v] + costTable[v][d]
    <3> HIDE DEF over
    <3> QED
      BY <1>9, <2>1
  <2> QED
    BY <2>2
<1> QED
  BY <1>6, <1>7, <1>8, <1>9 DEF D

\* costs[k] is what Bellman's recursion gives for paths of up to k links.
Iterates(start, costs) ==
  costs[0] = start /\ \A k \in Nat : costs[k + 1] = Extended(costs[k])

LEMMA IteratesGoDown ==
  ASSUME TypeOK, NEW start \in [DOMAIN activeDistances -> Nat],
         NEW costs, Iterates(start, costs), NEW i \in Nat
  PROVE  /\ costs[i] \in [DOMAIN activeDistances -> Nat]
         /\ \A d \in DOMAIN activeDistances : costs[i][d] <= start[d]
<1> DEFINE D    == DOMAIN activeDistances
           good == {k \in Nat : /\ costs[k] \in [D -> Nat]
                                /\ \A d \in D : costs[k][d] <= start[d]}
<1>1. 0 \in good
  BY DEF Iterates
<1>2. ASSUME NEW k \in good PROVE k + 1 \in good
  <2>1. /\ costs[k] \in [D -> Nat] /\ costs[k + 1] = Extended(costs[k]) /\ k + 1 \in Nat
        /\ \A d \in D : costs[k][d] <= start[d]
    BY DEF Iterates
  <2>2. /\ Extended(costs[k]) \in [D -> Nat]
        /\ \A d \in D : Extended(costs[k])[d] <= costs[k][d]
    BY <2>1, ExtendedFacts
  <2> HIDE DEF D
  <2>3. \A d \in D : start[d] \in Nat /\ costs[k][d] \in Nat /\ Extended(costs[k])[d] \in Nat
    BY <2>1, <2>2 DEF D
  <2>4. \A d \in D : costs[k + 1][d] <= start[d]
    BY <2>1, <2>2, <2>3
  <2> QED
    BY <2>1, <2>2, <2>4
<1>3. i \in good
  <2>1. good \subseteq Nat
    OBVIOUS
  <2> HIDE DEF good
  <2> QED
    BY <1>1, <1>2, <2>1, CountUp
<1> QED
  BY <1>3

\* At the return no path costs less than what the loop found: the distances are a fixed
\* point of Bellman's equation.
LEMMA NeverBelow ==
  ASSUME IInv, pc = "done",
         NEW start \in [DOMAIN activeDistances -> Nat],
         \A d \in DOMAIN activeDistances : activeDistances[d].cost <= start[d],
         NEW costs, Iterates(start, costs), NEW i \in Nat
  PROVE  \A d \in DOMAIN activeDistances : activeDistances[d].cost <= costs[i][d]
<1> DEFINE dist == activeDistances
           D    == DOMAIN activeDistances
           good == {k \in Nat : \A d \in D : dist[d].cost <= costs[k][d]}
<1>1. TypeOK /\ NoShortcut /\ LoopEnded
  BY DEF IInv
<1>2. 0 \in good
  BY DEF Iterates
<1>3. ASSUME NEW k \in good PROVE k + 1 \in good
  <2>1. costs[k + 1] = Extended(costs[k]) /\ k \in Nat /\ k + 1 \in Nat
    BY DEF Iterates
  <2>2. costs[k] \in [D -> Nat] /\ \A d \in D : dist[d].cost <= costs[k][d]
    BY <1>1, <2>1, IteratesGoDown
  <2>3. \A d \in D :
           \/ Extended(costs[k])[d] = costs[k][d]
           \/ \E v \in known \ {me} :
                /\ d \in known /\ d \in DOMAIN costTable[v]
                /\ Extended(costs[k])[d] = costs[k][v] + costTable[v][d]
    BY <1>1, <2>2, ExtendedFacts
  <2>4. /\ known \ {me} \subseteq D /\ me \notin D
        /\ \A d \in D : dist[d].cost \in 0 .. INFINITY_COST
        /\ \A v \in known \ {me} : IsMap(costTable[v], Router, Cost)
    BY <1>1, DistancesTyped, InputAssumption DEF TypeOK, IsMap
  <2>5. ASSUME NEW d \in D PROVE dist[d].cost <= Extended(costs[k])[d]
    <3>1. CASE Extended(costs[k])[d] = costs[k][d]
      BY <2>2, <3>1
    <3>2. ASSUME NEW v \in known \ {me}, d \in known, d \in DOMAIN costTable[v],
                 Extended(costs[k])[d] = costs[k][v] + costTable[v][d]
          PROVE  dist[d].cost <= Extended(costs[k])[d]
      <4>1. v \in D /\ dist[v].cost <= costs[k][v] /\ costs[k][v] \in Nat
        BY <2>2, <2>4
      <4>2. costTable[v][d] \in Nat /\ d \in known \ {me}
        BY <2>4, <3>2, InfinityNat DEF IsMap
      <4>3. CASE v \in toVisit
        <5>1. dist[v].cost = INFINITY_COST
          BY <1>1, <4>3 DEF LoopEnded
        <5> QED
          BY <2>4, <3>2, <4>1, <4>2, <5>1, InfinityNat
      <4>4. CASE v \notin toVisit
        <5>1. v \in Expanded
          BY <4>4 DEF Expanded
        <5>2. dist[d].cost <= dist[v].cost + costTable[v][d]
          BY <1>1, <3>2, <4>2, <5>1 DEF NoShortcut
        <5> QED
          BY <2>4, <3>2, <4>1, <4>2, <5>2, InfinityNat
      <4> QED
        BY <4>3, <4>4
    <3> QED
      BY <2>3, <3>1, <3>2
  <2> QED
    BY <2>1, <2>5
<1>4. i \in good
  <2>1. good \subseteq Nat
    OBVIOUS
  <2> HIDE DEF good
  <2> QED
    BY <1>2, <1>3, <2>1, CountUp
<1> QED
  BY <1>4

\* A path found that starts at s has fewer links than there were visits before its last
\* router was visited, so Bellman's recursion finds it too in as many steps.
LEMMA FoundToo ==
  ASSUME IInv, ReturnInv, pc = "done", NEW first, Leads(first),
         NEW start \in [DOMAIN activeDistances -> Nat],
         NEW s \in DOMAIN activeDistances, start[s] <= activeDistances[s].cost,
         NEW costs, Iterates(start, costs), NEW i \in Nat
  PROVE  \A d \in DOMAIN activeDistances :
           first[d] = s /\ settledAt[d] <= i + 1 => costs[i][d] <= activeDistances[d].cost
<1> DEFINE dist == activeDistances
           D    == DOMAIN activeDistances
           good == {k \in Nat : \A d \in D :
                      first[d] = s /\ settledAt[d] <= k + 1 => costs[k][d] <= dist[d].cost}
<1>1. TypeOK /\ PathBacked /\ LoopEnded /\ ViaVisitedBefore /\ Bounded
  BY DEF IInv, ReturnInv
<1>2. /\ known \ {me} \subseteq D /\ D \subseteq Router
      /\ \A d \in D : dist[d].cost \in Nat /\ settledAt[d] \in Nat
      /\ \A v \in Expanded : v \in D /\ v \in known \ {me}
  <2>1. \A d \in D : dist[d].cost \in 0 .. INFINITY_COST /\ d \in Router
    BY <1>1, DistancesTyped
  <2> QED
    BY <1>1, <2>1, DistancesTyped, InfinityNat DEF TypeOK, Expanded
\* Reached over its own link.
<1>3. ASSUME NEW k \in Nat, NEW d \in D, first[d] = s, dist[d].via = me
      PROVE  costs[k][d] <= dist[d].cost
  <2>1. d = s
    BY <1>3 DEF Leads
  <2>2. costs[k] \in [D -> Nat] /\ costs[k][d] <= start[d]
    BY <1>1, IteratesGoDown
  <2>3. costs[k][d] \in Nat /\ start[d] \in Nat /\ dist[d].cost \in Nat
    BY <1>2, <2>2
  <2> QED
    BY <2>1, <2>2, <2>3
\* Reached through a router visited earlier.
<1>4. ASSUME NEW d \in D, dist[d].via # me
      PROVE  LET v == dist[d].via IN
             /\ v \in Expanded /\ d \in known /\ d \in DOMAIN costTable[v]
             /\ dist[d].cost = dist[v].cost + costTable[v][d]
             /\ 0 < settledAt[v] /\ settledAt[v] < settledAt[d]
  <2>1. dist[d].cost < INFINITY_COST
    BY <1>1, <1>4 DEF PathBacked
  <2>2. d \notin toVisit
    BY <1>1, <2>1, InfinityNat DEF LoopEnded
  <2> QED
    BY <1>1, <1>4, <2>2 DEF PathBacked, Bounded, ViaVisitedBefore
<1>5. 0 \in good
  <2> SUFFICES ASSUME NEW d \in D, first[d] = s, settledAt[d] <= 0 + 1
               PROVE  costs[0][d] <= dist[d].cost
    OBVIOUS
  <2>1. dist[d].via # me => dist[d].via \in D
    BY <1>2, <1>4
  <2>2. dist[d].via # me => FALSE
    BY <1>2, <1>4, <2>1
  <2> QED
    BY <1>3, <2>2
<1>6. ASSUME NEW k \in good PROVE k + 1 \in good
  <2>1. k \in Nat /\ k + 1 \in Nat /\ costs[k + 1] = Extended(costs[k])
    BY DEF Iterates
  <2> SUFFICES ASSUME NEW d \in D, first[d] = s, settledAt[d] <= (k + 1) + 1
               PROVE  costs[k + 1][d] <= dist[d].cost
    BY <2>1
  <2>2. CASE dist[d].via = me
    BY <1>3, <2>1, <2>2
  <2>3. CASE dist[d].via # me
    <3> DEFINE v == dist[d].via
    <3>1. /\ v \in Expanded /\ v \in D /\ v \in known \ {me} /\ d \in known
          /\ d \in DOMAIN costTable[v]
          /\ dist[d].cost = dist[v].cost + costTable[v][d]
          /\ settledAt[v] < settledAt[d] /\ settledAt[v] \in Nat /\ settledAt[d] \in Nat
      BY <1>2, <1>4, <2>3
    <3>2. first[v] = s /\ settledAt[v] <= k + 1
      BY <2>1, <2>3, <3>1 DEF Leads
    <3>3. costs[k][v] <= dist[v].cost
      BY <3>1, <3>2
    <3>4. costs[k] \in [D -> Nat]
      BY <1>1, <2>1, IteratesGoDown
    <3>5. /\ Extended(costs[k])[d] <= costs[k][v] + costTable[v][d]
          /\ Extended(costs[k]) \in [D -> Nat]
      BY <1>1, <3>1, <3>4, ExtendedFacts
    <3>6. /\ Extended(costs[k])[d] \in Nat /\ costs[k][v] \in Nat /\ dist[v].cost \in Nat
          /\ costTable[v][d] \in Int
      <4>1. costTable[v][d] \in 0 .. INFINITY_COST
        BY <1>1, <3>1, DistancesTyped
      <4> QED
        BY <1>2, <3>1, <3>4, <3>5, <4>1, InfinityNat
    <3> QED
      BY <2>1, <3>1, <3>3, <3>5, <3>6
  <2> QED
    BY <2>2, <2>3
<1>7. i \in good
  <2>1. good \subseteq Nat
    OBVIOUS
  <2> HIDE DEF good
  <2> QED
    BY <1>5, <1>6, <2>1, CountUp
<1> QED
  BY <1>7

\* What the loop found to d is the least cost of a path to it from any set of starts that
\* are no cheaper than the links to neighbours, and that holds the first router of d's path.
LEMMA LeastIsFound ==
  ASSUME IInv, ReturnInv, pc = "done", NEW first, Leads(first),
         NEW start \in [DOMAIN activeDistances -> Nat],
         \A d \in DOMAIN activeDistances : activeDistances[d].cost <= start[d],
         NEW d \in DOMAIN activeDistances,
         start[first[d]] <= activeDistances[first[d]].cost
  PROVE  LeastCosts(start)[d] = activeDistances[d].cost
<1>1. PICK costs : Iterates(start, costs) /\ LeastCosts(start) = costs[Cardinality(Router)]
  BY LeastCostsFacts DEF Iterates
<1>2. Cardinality(Router) \in Nat
  BY RoutersAssumption, FS_CardinalityType
<1>3. activeDistances[d].cost <= costs[Cardinality(Router)][d]
  BY <1>1, <1>2, NeverBelow
<1>4. settledAt[d] <= Cardinality(Router) + 1
  <2>1. /\ TypeOK /\ Expanded \subseteq Router /\ d \in Router
        /\ tick = Cardinality(Expanded) + 1 /\ settledAt[d] < tick
    BY DistancesTyped DEF IInv, ReturnInv, Bounded, Ticks
  <2>2. Cardinality(Expanded) <= Cardinality(Router) /\ Cardinality(Expanded) \in Nat
    BY <2>1, RoutersAssumption, FS_Subset, FS_CardinalityType
  <2> QED
    BY <1>2, <2>1, <2>2 DEF TypeOK
<1>5. first[d] \in DOMAIN activeDistances
  BY DEF Leads
<1>6. costs[Cardinality(Router)][d] <= activeDistances[d].cost
  BY <1>1, <1>2, <1>4, <1>5, FoundToo
<1>7. /\ costs[Cardinality(Router)][d] \in Nat
      /\ activeDistances[d].cost \in Nat
  <2>1. TypeOK
    BY DEF IInv
  <2>2. costs[Cardinality(Router)] \in [DOMAIN activeDistances -> Nat]
    BY <1>1, <1>2, <2>1, IteratesGoDown
  <2> QED
    BY <2>1, <2>2, DistancesTyped, InfinityNat
<1> QED
  BY <1>1, <1>3, <1>6, <1>7

\* When the call returns, nodeTable holds for every destination the cost of a shortest path
\* over the links advertised, and forwardingTable a neighbour at which such a path starts,
\* whatever the tables contained.
THEOREM ShortestAtReturn == Spec => []CorrectAtReturn
<1>1. ASSUME IInv, ReturnInv PROVE CorrectAtReturn
  <2> DEFINE dist     == activeDistances
             D        == DOMAIN activeDistances
             at(hops) == [d \in D |-> IF d \in hops THEN direct[d] ELSE INFINITY_COST]
  <2> SUFFICES ASSUME pc = "done", NEW d \in D
               PROVE  /\ nodeCost[d] = LeastCosts(at(DOMAIN direct))[d]
                      /\ LeastCosts(at(DOMAIN direct))[d] < INFINITY_COST =>
                           /\ forwardingTable[d] \in DOMAIN direct
                           /\ LeastCosts(at({forwardingTable[d]}))[d] =
                                LeastCosts(at(DOMAIN direct))[d]
    BY Zenon DEF CorrectAtReturn
  <2>1. TypeOK /\ PathBacked /\ NextHopIsNeighbour /\ Bounded /\ Written
    BY <1>1 DEF IInv, ReturnInv
  <2>2. PICK first \in [D -> D] :
          Leads(first) /\ \A r \in DOMAIN forwardingTable : forwardingTable[r] = first[r]
    BY <1>1 DEF ReturnInv, WalkLeadsBack
  <2>3. /\ d \in DOMAIN nodeCost /\ nodeCost[d] = dist[d].cost
        /\ d \in DOMAIN forwardingTable /\ forwardingTable[d] = first[d]
    BY <2>1, <2>2 DEF Written
  <2>4. /\ \A r \in D : dist[r].cost \in 0 .. INFINITY_COST
        /\ \A r \in DOMAIN direct : r \in D /\ direct[r] \in Nat /\ dist[r].cost <= direct[r]
    BY <2>1, DistancesTyped, InputAssumption, InfinityNat DEF TypeOK, IsMap, Bounded
  <2>5. first[d] \in D /\ dist[first[d]].via = me
    BY <2>2 DEF Leads
  <2>6. dist[first[d]].cost =
          IF first[d] \in DOMAIN direct THEN direct[first[d]] ELSE INFINITY_COST
    BY <2>1, <2>5 DEF PathBacked
  <2>7. ASSUME NEW hops, hops \subseteq DOMAIN direct,
               first[d] \in DOMAIN direct => first[d] \in hops
        PROVE  LeastCosts(at(hops))[d] = dist[d].cost
    <3>1. \A r \in D : at(hops)[r] \in Nat /\ dist[r].cost <= at(hops)[r]
      BY <2>4, <2>7, InfinityNat
    <3>2. at(hops) \in [D -> Nat]
      <4>1. at(hops) = [r \in D |-> at(hops)[r]]
        OBVIOUS
      <4> HIDE DEF at
      <4> QED
        BY <3>1, <4>1
    <3>3. at(hops)[first[d]] <= dist[first[d]].cost
      BY <2>4, <2>5, <2>6, <2>7, InfinityNat
    <3> HIDE DEF at
    <3> QED
      BY <1>1, <2>2, <3>1, <3>2, <3>3, LeastIsFound
  <2>8. LeastCosts(at(DOMAIN direct))[d] = dist[d].cost
    <3> HIDE DEF at
    <3> QED
      BY <2>7
  <2>9. ASSUME dist[d].cost < INFINITY_COST
        PROVE  /\ forwardingTable[d] \in DOMAIN direct
               /\ LeastCosts(at({forwardingTable[d]}))[d] = dist[d].cost
    <3>1. forwardingTable[d] \in DOMAIN direct
      BY <2>1, <2>3, <2>9 DEF NextHopIsNeighbour
    <3> HIDE DEF at
    <3> QED
      BY <2>3, <2>7, <3>1
  <2> HIDE DEF at
  <2> QED
    BY <2>3, <2>8, <2>9
<1>2. IInv /\ ReturnInv => CorrectAtReturn
  BY <1>1
<1> QED
  BY ReturnInvariance, <1>2, PTL

-----------------------------------------------------------------------------
\* The loop, an iteration at a time and all at once.

\* What the loop may still end with is some of what it may have ended with from the start.
OnTheWay ==
  LET A == known \ {me}
      B == known \cup {me}
      D == DOMAIN direct \cup A
      from == <<A, ActiveDistances(me, direct, known)>>
  IN \A f : Finishes(costTable, A, B, D, f) =>
       IF pc = "visit" THEN f[<<toVisit, activeDistances>>] \subseteq f[from]
       ELSE activeDistances \in f[from]

LEMMA PlaceFits ==
  ASSUME TypeOK, PathBacked
  PROVE  LET A == known \ {me}
             B == known \cup {me}
             D == DOMAIN direct \cup A
         IN <<toVisit, activeDistances>> \in Places(A, B, D)
<1> DEFINE D == DOMAIN direct \cup (known \ {me})
<1>1. /\ activeDistances \in [D -> Distance(Router)] /\ DOMAIN activeDistances = D
      /\ toVisit \in SUBSET (known \ {me})
  BY DEF TypeOK
<1>2. \A d \in D : activeDistances[d].via \in known \cup {me}
  BY <1>1 DEF PathBacked, Expanded
<1> HIDE DEF D
<1>3. \A d \in D : activeDistances[d] \in Distance(known \cup {me})
  BY <1>1, <1>2 DEF Distance
<1>4. activeDistances \in [D -> Distance(known \cup {me})]
  BY <1>1, <1>3
<1> QED
  BY <1>1, <1>4 DEF Places, D

LEMMA StepOnTheWay == IInv /\ OnTheWay /\ [Next]_vars => OnTheWay'
<1> SUFFICES ASSUME IInv, OnTheWay, [Next]_vars PROVE OnTheWay'
  OBVIOUS
<1> DEFINE A == known \ {me}
           B == known \cup {me}
           D == DOMAIN direct \cup A
           from == <<A, ActiveDistances(me, direct, known)>>
           x    == <<toVisit, activeDistances>>
<1>1. x \in Places(A, B, D)
  BY PlaceFits DEF IInv
<1>2. /\ direct' = direct /\ known' = known /\ costTable' = costTable
  BY DEF Next, Visit, StopVisiting, NextDestination, Hop, WriteEntry, Return, vars, inputs
<1> SUFFICES ASSUME NEW f, Finishes(costTable, A, B, D, f)
             PROVE  IF pc' = "visit" THEN f[<<toVisit', activeDistances'>>] \subseteq f[from]
                    ELSE activeDistances' \in f[from]
  BY <1>2 DEF OnTheWay
<1>3. IF pc = "visit" THEN f[x] \subseteq f[from] ELSE activeDistances \in f[from]
  BY DEF OnTheWay
<1> HIDE DEF A, B, D, from
<1>4. f[x] = IF Visits(costTable, x) = {} THEN {x[2]}
             ELSE UNION {f[y] : y \in Visits(costTable, x)}
  <2> HIDE DEF x
  <2> QED
    BY <1>1 DEF Finishes
<1>5. CASE Visit
  <2>1. PICK c \in Closest(toVisit, activeDistances) :
          /\ toVisit' = toVisit \ {c}
          /\ activeDistances' = Relax(costTable[c], toVisit \ {c}, activeDistances, c)
    BY <1>5 DEF Visit
  <2> DEFINE y == <<toVisit', activeDistances'>>
  <2>2. y \in Visits(costTable, x)
    BY <2>1 DEF Visits
  <2>3. pc = "visit" /\ pc' = "visit"
    BY <1>5 DEF Visit
  <2> HIDE DEF x, y
  <2>4. f[y] \subseteq f[x]
    BY <1>4, <2>2
  <2> QED
    BY <1>3, <2>3, <2>4 DEF y
<1>6. CASE StopVisiting
  <2>1. /\ pc = "visit" /\ pc' = "copy" /\ activeDistances' = activeDistances
        /\ \A u \in toVisit : activeDistances[u].cost = INFINITY_COST
    BY <1>6 DEF StopVisiting
  <2>2. Closest(toVisit, activeDistances) = {}
    BY <2>1, InfinityNat DEF Closest
  <2>3. Visits(costTable, x) = {}
    BY <2>2 DEF Visits
  <2>4. x[2] \in f[x]
    <3> HIDE DEF x
    <3> QED
      BY <1>4, <2>3
  <2> QED
    BY <1>3, <2>1, <2>4
<1>7. CASE NextDestination \/ Hop \/ WriteEntry \/ Return \/ UNCHANGED vars
  <2>1. /\ activeDistances' = activeDistances /\ toVisit' = toVisit
        /\ pc' = "visit" <=> pc = "visit"
    BY <1>7 DEF NextDestination, Hop, WriteEntry, Return, vars, inputs, tables
  <2> QED
    BY <1>3, <2>1
<1> QED
  BY <1>5, <1>6, <1>7 DEF Next

\* The call, one iteration of its loops after the other, does what LinkState makes of it
\* in one step of a handler, whatever the tables contain.
THEOREM LoopsAsOneStep == Spec => []SameAtOnce
<1>1. Init => OnTheWay
  <2> SUFFICES ASSUME Init PROVE OnTheWay
    OBVIOUS
  <2>1. /\ pc = "visit" /\ toVisit = known \ {me}
        /\ activeDistances = ActiveDistances(me, direct, known)
    BY DEF Init
  <2> QED
    BY <2>1 DEF OnTheWay
<1>2. ASSUME IInv, ReturnInv, OnTheWay, pc = "done"
      PROVE  /\ activeDistances \in ShortestPaths(me, costTable, direct, known)
             /\ \A d \in DOMAIN activeDistances :
                  forwardingTable[d] = FindNextHop(me, activeDistances, d)
  <2> DEFINE A == known \ {me}
             B == known \cup {me}
             D == DOMAIN direct \cup A
             from == <<A, ActiveDistances(me, direct, known)>>
  <2>1. TypeOK /\ Written
    BY <1>2 DEF IInv, ReturnInv
  <2>2. /\ direct \in [DOMAIN direct -> Cost] /\ me \notin DOMAIN direct
        /\ IsFiniteSet(known)
        /\ \A r \in known \ {me} : \A n \in DOMAIN costTable[r] : costTable[r][n] \in Cost
    <3>1. IsMap(direct, Router \ {me}, Cost) /\ known \subseteq Router
      BY <2>1, InputAssumption DEF TypeOK
    <3>2. IsFiniteSet(known)
      BY <3>1, RoutersAssumption, FS_Subset
    <3> QED
      BY <2>1, <3>1, <3>2, InputAssumption DEF TypeOK, IsMap
  <2>3. DOMAIN activeDistances = D
    BY <2>1 DEF TypeOK
  <2>4. \E f : /\ Finishes(costTable, A, B, D, f)
               /\ ShortestPaths(me, costTable, direct, known) = f[from]
    <3>1. /\ Fits(costTable, A, B, D)
          /\ \E f : /\ Finishes(costTable, A, B, D, f)
                    /\ ShortestPaths(me, costTable, direct, known) = f[from]
      BY ONLY <2>2, ShortestPathsFinish, Zenon
    <3> QED
      BY ONLY <3>1
  <2>5. activeDistances \in ShortestPaths(me, costTable, direct, known)
    BY <1>2, <2>4 DEF OnTheWay
  <2>6. /\ activeDistances \in [D -> Distance(B)]
        /\ Tree(me, D, <<{}, activeDistances>>)
    BY <2>2, <2>5, PathsTree
  <2>7. PICK first \in [D -> D] :
          Leads(first) /\ \A r \in DOMAIN forwardingTable : forwardingTable[r] = first[r]
    BY <1>2, <2>3 DEF ReturnInv, WalkLeadsBack
  <2> HIDE DEF A, B, D, from
  <2>8. ASSUME NEW d \in D PROVE forwardingTable[d] = FindNextHop(me, activeDistances, d)
    <3>1. d \in DOMAIN forwardingTable
      BY <1>2, <2>1, <2>3 DEF Written
    <3>2. \A r \in D : /\ activeDistances[r].via = me => first[r] = r
                       /\ activeDistances[r].via # me => first[r] = first[activeDistances[r].via]
      BY <2>3, <2>7 DEF Leads
    <3>3. FindNextHop(me, activeDistances, d) = first[d]
      BY <2>6, <3>2, WalkEnds
    <3> QED
      BY <2>7, <3>1, <3>3
  <2> QED
    BY <2>5, <2>8, <2>3
<1>3. IInv /\ ReturnInv /\ OnTheWay => SameAtOnce
  BY <1>2 DEF SameAtOnce
<1> QED
  BY <1>1, <1>3, StepOnTheWay, ReturnInvariance, PTL DEF Spec
=============================================================================
