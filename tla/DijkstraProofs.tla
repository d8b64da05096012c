--------------------------- MODULE DijkstraProofs ---------------------------
(***************************************************************************)
(* The operators of Dijkstra, for any routers and any tables: what a       *)
(* relaxation does, that the loop and the walk of FindNextHop, which are   *)
(* defined by recursion, have the values their recursion says, and that    *)
(* the walk ends at one of the destinations.                               *)
(***************************************************************************)
EXTENDS Dijkstra, NumberFacts

\* The one thing the proofs need of the 16-bit infinity.
LEMMA InfinityNat == INFINITY_COST \in Nat /\ Cost = 0 .. INFINITY_COST
BY DEF INFINITY_COST, Cost

\* What one relaxation does: it touches only routers still to visit, replaces an
\* entry only by a strictly cheaper one over an advertised link, and leaves no link
\* of the visited router that would still help one of them.
LEMMA RelaxFacts ==
  ASSUME NEW D, NEW R, NEW dist \in [D -> Distance(R)], NEW S, S \subseteq D,
         NEW curr \in D, curr \in R,
         NEW links, \A n \in DOMAIN links : links[n] \in Cost
  PROVE  LET new == Relax(links, S, dist, curr) IN
         /\ new \in [D -> Distance(R)]
         /\ \A d \in D \ S : new[d] = dist[d]
         /\ \A d \in D : new[d].cost <= dist[d].cost
         /\ \A d \in D : new[d] # dist[d] =>
               /\ d \in DOMAIN links
               /\ new[d].via = curr
               /\ new[d].cost = dist[curr].cost + links[d]
               /\ new[d].cost < INFINITY_COST
         /\ \A d \in S \cap DOMAIN links : new[d].cost <= dist[curr].cost + links[d]
<1> DEFINE new == Relax(links, S, dist, curr)
<1>1. \A d \in D : dist[d].cost \in 0 .. INFINITY_COST /\ dist[d] \in Distance(R)
  BY InfinityNat DEF Distance
<1>2. \A d \in DOMAIN links : links[d] \in 0 .. INFINITY_COST
  BY InfinityNat
<1>3. ASSUME NEW d \in D
      PROVE  /\ new[d] \in Distance(R)
             /\ d \notin S => new[d] = dist[d]
             /\ new[d].cost <= dist[d].cost
             /\ new[d] # dist[d] =>
                  /\ d \in DOMAIN links
                  /\ new[d].via = curr
                  /\ new[d].cost = dist[curr].cost + links[d]
                  /\ new[d].cost < INFINITY_COST
             /\ d \in S \cap DOMAIN links => new[d].cost <= dist[curr].cost + links[d]
  <2>1. CASE d \in S /\ d \in DOMAIN links /\ links[d] + dist[curr].cost < dist[d].cost
    <3>1. new[d] = [via |-> curr, cost |-> links[d] + dist[curr].cost]
      BY <2>1 DEF Relax
    <3>2. links[d] + dist[curr].cost \in 0 .. INFINITY_COST
      BY <1>1, <1>2, <2>1, InfinityNat
    <3> QED
      BY <1>1, <1>2, <2>1, <3>1, <3>2, InfinityNat DEF Distance
  <2>2. CASE ~(d \in S /\ d \in DOMAIN links /\ links[d] + dist[curr].cost < dist[d].cost)
    <3>1. new[d] = dist[d]
      BY <2>2 DEF Relax
    <3> QED
      BY <1>1, <1>2, <2>2, <3>1, InfinityNat
  <2> QED
    BY <2>1, <2>2
<1>4. new = [d \in D |-> new[d]]
  BY DEF Relax
<1> HIDE DEF new
<1>5. new \in [D -> Distance(R)]
  BY <1>3, <1>4
<1> QED
  BY <1>3, <1>5 DEF new

-----------------------------------------------------------------------------
\* The loop.

\* Where the loop can be: routers of A still to visit, distances to D over routers of B.
Places(A, B, D) == (SUBSET A) \X [D -> Distance(B)]

\* What routers of A have advertised can be relaxed.
Fits(costTable, A, B, D) ==
  /\ A \subseteq D /\ A \subseteq B
  /\ \A r \in A : \A n \in DOMAIN costTable[r] : costTable[r][n] \in Cost

LEMMA VisitsTyped ==
  ASSUME NEW costTable, NEW A, NEW B, NEW D, Fits(costTable, A, B, D),
         NEW x \in Places(A, B, D), NEW y \in Visits(costTable, x)
  PROVE  /\ y \in Places(A, B, D)
         /\ \E c \in x[1] : /\ y[1] = x[1] \ {c}
                            /\ \A d \in D \ y[1] : y[2][d] = x[2][d]
                            /\ \A d \in D : y[2][d] # x[2][d] => y[2][d].via = c
<1> DEFINE T == x[1]
           dist == x[2]
<1>1. T \subseteq A /\ dist \in [D -> Distance(B)]
  BY DEF Places
<1>2. PICK c \in Closest(T, dist) : y = <<T \ {c}, Relax(costTable[c], T \ {c}, dist, c)>>
  BY DEF Visits
<1>3. c \in T /\ c \in D /\ c \in B
      /\ \A n \in DOMAIN costTable[c] : costTable[c][n] \in Cost
  BY <1>1, <1>2 DEF Closest, Fits
<1> DEFINE rest == T \ {c}
           new  == Relax(costTable[c], rest, dist, c)
<1>4. rest \subseteq D
  BY <1>1 DEF Fits
<1>5. y = <<rest, new>>
  BY <1>2
<1> HIDE DEF T, dist
<1>6. /\ new \in [D -> Distance(B)]
      /\ \A d \in D \ rest : new[d] = dist[d]
      /\ \A d \in D : new[d] # dist[d] => new[d].via = c
  <2> HIDE DEF rest
  <2>1. dist \in [D -> Distance(B)] /\ rest \subseteq D /\ c \in D /\ c \in B
    BY <1>1, <1>3, <1>4
  <2>2. \A n \in DOMAIN costTable[c] : costTable[c][n] \in Cost
    BY <1>3
  <2> QED
    BY ONLY <2>1, <2>2, RelaxFacts, SMTT(60)
<1>7. rest \in SUBSET A
  BY <1>1
<1> HIDE DEF rest, new
<1>8. y[1] = rest /\ y[2] = new /\ y \in Places(A, B, D)
  BY <1>5, <1>6, <1>7 DEF Places
<1> QED
  BY <1>3, <1>6, <1>8 DEF rest, T, dist

\* f gives, for each place, the distances the loop may end with from there.
Finishes(costTable, A, B, D, f) ==
  f = [x \in Places(A, B, D) |->
        IF Visits(costTable, x) = {} THEN {x[2]} ELSE UNION {f[y] : y \in Visits(costTable, x)}]

\* run takes the loop from x to the end, in n iterations.
Runs(costTable, X, x, n, run) ==
  /\ run \in [0 .. n -> X]
  /\ run[0] = x
  /\ \A i \in 1 .. n : run[i] \in Visits(costTable, run[i - 1])
  /\ Visits(costTable, run[n]) = {}

Reached(costTable, X, x) ==
  {z \in X : \E n \in Nat : \E run : Runs(costTable, X, x, n, run) /\ z = run[n]}

LEMMA ReachedAtEnd ==
  ASSUME NEW costTable, NEW X, NEW x \in X, Visits(costTable, x) = {}
  PROVE  Reached(costTable, X, x) = {x}
<1>1. x \in Reached(costTable, X, x)
  <2> DEFINE run == [i \in 0 .. 0 |-> x]
  <2>1. run \in [0 .. 0 -> X] /\ run[0] = x /\ 1 .. 0 = {}
    OBVIOUS
  <2> HIDE DEF run
  <2>2. Runs(costTable, X, x, 0, run)
    BY <2>1 DEF Runs
  <2>3. \E n \in Nat : \E r : Runs(costTable, X, x, n, r) /\ x = r[n]
    BY <2>1, <2>2
  <2> QED
    BY <2>3 DEF Reached
<1>2. ASSUME NEW z \in Reached(costTable, X, x) PROVE z = x
  <2>0. PICK n \in Nat : \E run : Runs(costTable, X, x, n, run) /\ z = run[n]
    BY DEF Reached
  <2>1. PICK run : Runs(costTable, X, x, n, run) /\ z = run[n]
    BY <2>0
  <2>2. n = 0
    <3>1. n # 0 => 1 \in 1 .. n /\ 1 - 1 = 0
      BY <2>1
    <3>2. n # 0 => run[1] \in Visits(costTable, run[0])
      BY <2>1, <3>1 DEF Runs
    <3> QED
      BY <2>1, <3>2 DEF Runs
  <2> QED
    BY <2>1, <2>2 DEF Runs
<1> QED
  BY <1>1, <1>2

\* A run that does not end at once goes on from one of the places one iteration away.
LEMMA ReachedFurther ==
  ASSUME NEW costTable, NEW X, NEW x \in X, Visits(costTable, x) # {},
         Visits(costTable, x) \subseteq X
  PROVE  Reached(costTable, X, x) = UNION {Reached(costTable, X, y) : y \in Visits(costTable, x)}
<1>1. ASSUME NEW z \in Reached(costTable, X, x)
      PROVE  \E y \in Visits(costTable, x) : z \in Reached(costTable, X, y)
  <2>0. PICK n \in Nat : \E run : Runs(costTable, X, x, n, run) /\ z = run[n]
    BY DEF Reached
  <2>1. PICK run : Runs(costTable, X, x, n, run) /\ z = run[n]
    BY <2>0
  <2>2. n # 0
    BY <2>1 DEF Runs
  <2> DEFINE m    == n - 1
             tail == [i \in 0 .. m |-> run[i + 1]]
  <2>3. m \in Nat /\ m + 1 = n /\ 1 \in 1 .. n /\ 1 - 1 = 0
    BY <2>1, <2>2
  <2>4. run[1] \in Visits(costTable, x)
    BY <2>1, <2>3 DEF Runs
  <2>5. \A i \in 0 .. m : i + 1 \in 0 .. n /\ i + 1 \in 1 .. n
    BY <2>3
  <2>6. \A i \in 1 .. m : i - 1 \in 0 .. m /\ i \in 0 .. m /\ (i - 1) + 1 = i /\ (i + 1) - 1 = i
    BY <2>3
  <2> HIDE DEF m
  <2>7. \A i \in 0 .. m : tail[i] = run[i + 1] /\ run[i + 1] \in X
    BY <2>1, <2>5 DEF Runs
  <2>8. tail \in [0 .. m -> X]
    BY <2>7
  <2> HIDE DEF tail
  <2>9. 0 \in 0 .. m /\ m \in 0 .. m /\ 0 + 1 = 1
    BY <2>3
  <2>10. tail[0] = run[1] /\ tail[m] = run[n]
    BY <2>3, <2>7, <2>9
  <2>11. ASSUME NEW i \in 1 .. m PROVE tail[i] \in Visits(costTable, tail[i - 1])
    <3>1. tail[i] = run[i + 1] /\ tail[i - 1] = run[i]
      BY <2>6, <2>7
    <3>2. run[i + 1] \in Visits(costTable, run[(i + 1) - 1])
      BY <2>1, <2>5, <2>6 DEF Runs
    <3> QED
      BY <2>6, <3>1, <3>2
  <2>12. Runs(costTable, X, run[1], m, tail)
    BY <2>1, <2>8, <2>10, <2>11 DEF Runs
  <2>13. z \in Reached(costTable, X, run[1])
    BY <2>1, <2>3, <2>10, <2>12 DEF Reached
  <2> QED
    BY <2>4, <2>13
<1>2. ASSUME NEW y \in Visits(costTable, x), NEW z \in Reached(costTable, X, y)
      PROVE  z \in Reached(costTable, X, x)
  <2>0. PICK n \in Nat : \E run : Runs(costTable, X, y, n, run) /\ z = run[n]
    BY DEF Reached
  <2>1. PICK run : Runs(costTable, X, y, n, run) /\ z = run[n]
    BY <2>0
  <2> DEFINE m    == n + 1
             more == [i \in 0 .. m |-> IF i = 0 THEN x ELSE run[i - 1]]
  <2>2. m \in Nat /\ m - 1 = n /\ m # 0
    BY <2>1
  <2>3. \A i \in 1 .. m : i # 0 /\ i \in 0 .. m /\ i - 1 \in 0 .. m /\ i - 1 \in 0 .. n
                          /\ (i - 1 # 0 => i - 1 \in 1 .. n)
    BY <2>2
  <2>4. \A i \in 0 .. m : i # 0 => i \in 1 .. m
    BY <2>2
  <2> HIDE DEF m
  <2>5. \A i \in 0 .. m : more[i] \in X
    BY <2>1, <2>3, <2>4 DEF Runs
  <2>6. more \in [0 .. m -> X]
    BY <2>5
  <2>7. /\ more[0] = x
        /\ \A i \in 1 .. m : more[i] = run[i - 1]
    <3>1. 0 \in 0 .. m
      BY <2>2
    <3> QED
      BY <2>3, <3>1
  <2> HIDE DEF more
  <2>8. m \in 1 .. m
    BY <2>2
  <2>9. more[m] = run[n]
    BY <2>2, <2>7, <2>8
  <2>10. ASSUME NEW i \in 1 .. m PROVE more[i] \in Visits(costTable, more[i - 1])
    <3>1. CASE i - 1 = 0
      <4>1. more[i] = y
        BY <2>1, <2>7, <3>1 DEF Runs
      <4> QED
        BY <2>7, <3>1, <4>1
    <3>2. CASE i - 1 # 0
      <4>1. i - 1 \in 1 .. n /\ i - 1 \in 1 .. m
        BY <2>2, <2>3, <3>2
      <4>2. run[i - 1] \in Visits(costTable, run[(i - 1) - 1])
        BY <2>1, <4>1 DEF Runs
      <4> QED
        BY <2>7, <4>1, <4>2
    <3> QED
      BY <3>1, <3>2
  <2>11. Runs(costTable, X, x, m, more)
    BY <2>1, <2>6, <2>7, <2>9, <2>10 DEF Runs
  <2> QED
    BY <2>1, <2>2, <2>9, <2>11 DEF Reached
<1> QED
  BY <1>1, <1>2

\* The recursion of the loop has a solution, so it says what the loop may end with.
LEMMA LoopFinishes ==
  ASSUME NEW costTable, NEW A, NEW B, NEW D, Fits(costTable, A, B, D)
  PROVE  \E f : Finishes(costTable, A, B, D, f)
<1> DEFINE X == Places(A, B, D)
           f == [x \in X |-> {z[2] : z \in Reached(costTable, X, x)}]
<1>1. ASSUME NEW x \in X PROVE Visits(costTable, x) \subseteq X
  BY VisitsTyped
<1> HIDE DEF X
<1>2. ASSUME NEW x \in X
      PROVE  f[x] = IF Visits(costTable, x) = {} THEN {x[2]}
                    ELSE UNION {f[y] : y \in Visits(costTable, x)}
  <2>1. f[x] = {z[2] : z \in Reached(costTable, X, x)}
    OBVIOUS
  <2>2. \A y \in Visits(costTable, x) : f[y] = {z[2] : z \in Reached(costTable, X, y)}
    BY <1>1
  <2> HIDE DEF f
  <2>3. CASE Visits(costTable, x) = {}
    <3>1. Reached(costTable, X, x) = {x}
      BY <2>3, ReachedAtEnd
    <3> QED
      BY <2>1, <2>3, <3>1
  <2>4. CASE Visits(costTable, x) # {}
    <3>1. Reached(costTable, X, x) = UNION {Reached(costTable, X, y) : y \in Visits(costTable, x)}
      BY <1>1, <2>4, ReachedFurther
    <3>2. UNION {f[y] : y \in Visits(costTable, x)} = {z[2] : z \in Reached(costTable, X, x)}
      BY <2>2, <3>1
    <3> QED
      BY <2>1, <2>4, <3>2
  <2> QED
    BY <2>3, <2>4
<1>3. f = [x \in X |-> f[x]]
  OBVIOUS
<1> HIDE DEF f
<1>4. f = [x \in X |-> IF Visits(costTable, x) = {} THEN {x[2]}
                       ELSE UNION {f[y] : y \in Visits(costTable, x)}]
  BY <1>2, <1>3
<1> QED
  BY <1>4 DEF Finishes, X

-----------------------------------------------------------------------------
\* The via links.

\* first[d] is the first router after me on the way to d, and what a router is reached through
\* is in D, no longer to be visited, and of a lower rank.
Branches(me, D, x, n, rank, first) ==
  /\ rank \in [D -> 0 .. n] /\ first \in [D -> D]
  /\ \A d \in D : LET v == x[2][d].via IN
       /\ v = me => first[d] = d
       /\ v # me => v \in D \ x[1] /\ rank[v] < rank[d] /\ first[d] = first[v]

\* The via links from x = <<toVisit, dist>> form a tree.
Tree(me, D, x) == \E n \in Nat : \E rank, first : Branches(me, D, x, n, rank, first)

LEMMA VisitsTree ==
  ASSUME NEW costTable, NEW A, NEW B, NEW D, Fits(costTable, A, B, D),
         NEW me, me \notin D,
         NEW x \in Places(A, B, D), Tree(me, D, x), NEW y \in Visits(costTable, x)
  PROVE  Tree(me, D, y)
<1>0. PICK n \in Nat : \E rank, first : Branches(me, D, x, n, rank, first)
  BY DEF Tree
<1>1. PICK rank, first : Branches(me, D, x, n, rank, first)
  BY <1>0
<1>2. PICK c \in x[1] : /\ y[1] = x[1] \ {c}
                        /\ \A d \in D \ y[1] : y[2][d] = x[2][d]
                        /\ \A d \in D : y[2][d] # x[2][d] => y[2][d].via = c
  BY VisitsTyped
<1>3. x[1] \subseteq D /\ c \in D
  BY DEF Places, Fits
<1> DEFINE rank1  == [d \in D |-> IF d \in y[1] THEN n + 1 ELSE rank[d]]
           first1 == [d \in D |-> IF y[2][d] = x[2][d] THEN first[d] ELSE first[c]]
<1>4. /\ rank \in [D -> 0 .. n] /\ first \in [D -> D]
      /\ \A d \in D : LET v == x[2][d].via IN
           /\ v = me => first[d] = d
           /\ v # me => v \in D \ x[1] /\ rank[v] < rank[d] /\ first[d] = first[v]
  BY <1>1 DEF Branches
<1>5. /\ \A d \in D : rank[d] \in 0 .. n
      /\ \A d \in D : rank1[d] = IF d \in y[1] THEN n + 1 ELSE rank[d]
      /\ \A d \in D : first1[d] = IF y[2][d] = x[2][d] THEN first[d] ELSE first[c]
  BY <1>4
<1>6. rank1 \in [D -> 0 .. n + 1] /\ first1 \in [D -> D]
  <2>1. \A d \in D : rank1[d] \in 0 .. n + 1 /\ first1[d] \in D
    <3> HIDE DEF rank1, first1
    <3> QED
      BY <1>3, <1>4, <1>5
  <2> QED
    BY <2>1
<1> HIDE DEF rank1, first1
<1>7. ASSUME NEW d \in D
      PROVE  LET v == y[2][d].via IN
             /\ v = me => first1[d] = d
             /\ v # me => v \in D \ y[1] /\ rank1[v] < rank1[d] /\ first1[d] = first1[v]
  <2>1. CASE y[2][d] # x[2][d]
    <3>1. d \in y[1] /\ y[2][d].via = c /\ c \notin y[1] /\ c # me
      BY <1>2, <1>3, <2>1
    <3>2. y[2][c] = x[2][c]
      BY <1>2, <1>3
    <3>3. rank1[c] = rank[c] /\ rank1[d] = n + 1 /\ first1[c] = first[c] /\ first1[d] = first[c]
      BY <1>3, <1>5, <2>1, <3>1, <3>2
    <3> QED
      BY <1>3, <1>5, <3>1, <3>3
  <2>2. CASE y[2][d] = x[2][d]
    <3> DEFINE v == x[2][d].via
    <3>1. v = me => first[d] = d
      BY <1>4
    <3>2. v # me => v \in D \ x[1] /\ rank[v] < rank[d] /\ first[d] = first[v]
      BY <1>4
    <3> HIDE DEF v
    <3>3. first1[d] = first[d]
      BY <1>5, <2>2
    <3>4. v # me => /\ v \in D \ y[1] /\ first1[v] = first[v]
                    /\ rank1[v] = rank[v]
      BY <1>2, <1>5, <3>2
    <3>5. v # me => rank1[v] < rank1[d]
      BY <1>5, <3>2, <3>4
    <3> QED
      BY <2>2, <3>1, <3>2, <3>3, <3>4, <3>5 DEF v
  <2> QED
    BY <2>1, <2>2
<1>8. Branches(me, D, y, n + 1, rank1, first1) /\ n + 1 \in Nat
  BY <1>6, <1>7 DEF Branches
<1> QED
  BY <1>8 DEF Tree

\* Whatever the loop may end with is a tree.
LEMMA EndsInTree ==
  ASSUME NEW costTable, NEW A, NEW B, NEW D, Fits(costTable, A, B, D), IsFiniteSet(A),
         NEW me, me \notin D, NEW f, Finishes(costTable, A, B, D, f),
         NEW start \in Places(A, B, D), Tree(me, D, start), NEW dist \in f[start]
  PROVE  dist \in [D -> Distance(B)] /\ Tree(me, D, <<{}, dist>>)
<1> DEFINE X       == Places(A, B, D)
           Good(z) == z \in [D -> Distance(B)] /\ Tree(me, D, <<{}, z>>)
           good    == {k \in Nat : \A x \in X :
                        Cardinality(x[1]) <= k /\ Tree(me, D, x) => \A z \in f[x] : Good(z)}
<1>1. ASSUME NEW x \in X PROVE /\ IsFiniteSet(x[1]) /\ Cardinality(x[1]) \in Nat
                               /\ f[x] = IF Visits(costTable, x) = {} THEN {x[2]}
                                         ELSE UNION {f[y] : y \in Visits(costTable, x)}
  <2>1. x[1] \in SUBSET A
    BY DEF Places
  <2> HIDE DEF X
  <2>2. f[x] = IF Visits(costTable, x) = {} THEN {x[2]}
               ELSE UNION {f[y] : y \in Visits(costTable, x)}
    BY DEF Finishes, X
  <2> QED
    BY <2>1, <2>2, FS_Subset, FS_CardinalityType
<1>2. ASSUME NEW x \in X, Tree(me, D, x), Visits(costTable, x) = {}
      PROVE  \A z \in f[x] : Good(z)
  <2>1. f[x] = {x[2]}
    BY <1>1, <1>2
  <2>2. x[2] \in [D -> Distance(B)]
    BY DEF Places
  <2>3. Tree(me, D, <<{}, x[2]>>)
    <3>0. PICK n \in Nat : \E rank, first : Branches(me, D, x, n, rank, first)
      BY <1>2 DEF Tree
    <3>1. PICK rank, first : Branches(me, D, x, n, rank, first)
      BY <3>0
    <3>2. Branches(me, D, <<{}, x[2]>>, n, rank, first)
      BY <3>1 DEF Branches
    <3> QED
      BY <3>2 DEF Tree
  <2> QED
    BY <2>1, <2>2, <2>3
<1>3. ASSUME NEW x \in X, Tree(me, D, x), NEW y \in Visits(costTable, x)
      PROVE  /\ y \in X /\ Tree(me, D, y)
             /\ Cardinality(y[1]) + 1 = Cardinality(x[1])
             /\ Cardinality(y[1]) \in Nat
  <2>1. y \in X /\ \E c \in x[1] : y[1] = x[1] \ {c}
    BY VisitsTyped
  <2>2. Tree(me, D, y)
    BY <1>3, VisitsTree
  <2>3. PICK c \in x[1] : y[1] = x[1] \ {c}
    BY <2>1
  <2>4. Cardinality(y[1]) = Cardinality(x[1]) - 1 /\ Cardinality(x[1]) \in Nat
    <3>1. IsFiniteSet(x[1]) /\ Cardinality(x[1]) \in Nat /\ c \in x[1]
      BY <1>1
    <3> HIDE DEF X, Good
    <3>2. Cardinality(x[1] \ {c}) = Cardinality(x[1]) - 1
      BY <3>1, FS_RemoveElement
    <3> QED
      BY <2>3, <3>1, <3>2
  <2>5. Cardinality(y[1]) \in Nat
    BY <1>1, <2>1
  <2> QED
    BY <2>1, <2>2, <2>4, <2>5
<1> HIDE DEF X, Good
<1>4. 0 \in good
  <2> SUFFICES ASSUME NEW x \in X, Cardinality(x[1]) <= 0, Tree(me, D, x), NEW z \in f[x]
               PROVE  Good(z)
    OBVIOUS
  <2>1. \A y \in Visits(costTable, x) : FALSE
    BY <1>1, <1>3
  <2> QED
    BY <1>2, <2>1
<1>5. ASSUME NEW k \in good PROVE k + 1 \in good
  <2> SUFFICES ASSUME NEW x \in X, Cardinality(x[1]) <= k + 1, Tree(me, D, x), NEW z \in f[x]
               PROVE  Good(z)
    OBVIOUS
  <2>1. CASE Visits(costTable, x) = {}
    BY <1>2, <2>1
  <2>2. CASE Visits(costTable, x) # {}
    <3>1. PICK y \in Visits(costTable, x) : z \in f[y]
      <4>1. f[x] = UNION {f[y] : y \in Visits(costTable, x)}
        BY <1>1, <2>2
      <4> HIDE DEF good
      <4> QED
        BY <4>1
    <3>2. y \in X /\ Tree(me, D, y) /\ Cardinality(y[1]) <= k
      BY <1>1, <1>3
    <3> QED
      BY <3>1, <3>2
  <2> QED
    BY <2>1, <2>2
<1>6. Cardinality(start[1]) \in Nat /\ start \in X
  BY <1>1 DEF X
<1>7. Cardinality(start[1]) \in good
  <2>1. good \subseteq Nat
    OBVIOUS
  <2> HIDE DEF good
  <2> QED
    BY <1>4, <1>5, <1>6, <2>1, CountUp
<1> QED
  BY <1>6, <1>7 DEF Good

\* The recursion of the walk has one solution on a tree: it ends at a router of D.
Walks(me, dist, w) ==
  w = [d \in DOMAIN dist |-> IF dist[d].via = me THEN d ELSE w[dist[d].via]]

LEMMA WalkEnds ==
  ASSUME NEW me, NEW D, NEW B, NEW dist \in [D -> Distance(B)], Tree(me, D, <<{}, dist>>),
         NEW dest \in D
  PROVE  /\ FindNextHop(me, dist, dest) \in D
         /\ \A first \in [D -> D] :
              (\A d \in D : /\ dist[d].via = me => first[d] = d
                            /\ dist[d].via # me => first[d] = first[dist[d].via])
              => FindNextHop(me, dist, dest) = first[dest]
<1>0. PICK n \in Nat : \E rank, first : Branches(me, D, <<{}, dist>>, n, rank, first)
  BY DEF Tree
<1>1. PICK rank, first : Branches(me, D, <<{}, dist>>, n, rank, first)
  BY <1>0
<1>2. /\ rank \in [D -> 0 .. n] /\ first \in [D -> D] /\ DOMAIN dist = D
      /\ \A d \in D : LET v == dist[d].via IN
           /\ v = me => first[d] = d
           /\ v # me => v \in D /\ rank[v] < rank[d] /\ first[d] = first[v]
  BY <1>1 DEF Branches
<1>3. Walks(me, dist, first)
  <2>1. first = [d \in D |-> first[d]]
    BY <1>2
  <2>2. \A d \in D : first[d] = IF dist[d].via = me THEN d ELSE first[dist[d].via]
    BY <1>2
  <2> QED
    BY <1>2, <2>1, <2>2 DEF Walks
<1> DEFINE w == CHOOSE g : Walks(me, dist, g)
<1>4. FindNextHop(me, dist, dest) = w[dest]
  BY Zenon DEF FindNextHop, Walks
<1>5. Walks(me, dist, w)
  BY <1>3
<1> HIDE DEF w
<1>6. \A d \in D : w[d] = IF dist[d].via = me THEN d ELSE w[dist[d].via]
  BY <1>2, <1>5 DEF Walks
\* Any two solutions agree, the routers of least rank first.
<1>7. ASSUME NEW g \in [D -> D],
             \A d \in D : /\ dist[d].via = me => g[d] = d
                          /\ dist[d].via # me => g[d] = g[dist[d].via]
      PROVE  w[dest] = g[dest]
  <2> DEFINE apart == {rank[d] : d \in {x \in D : w[x] # g[x]}}
  <2>1. SUFFICES apart = {}
    OBVIOUS
  <2>2. apart \subseteq Nat
    BY <1>2
  <2> SUFFICES ASSUME apart # {} PROVE FALSE
    OBVIOUS
  <2>3. PICK k \in apart : \A j \in apart : ~(j < k)
    <3> HIDE DEF apart
    <3> QED
      BY <2>2, LeastExists
  <2>4. PICK d \in D : w[d] # g[d] /\ k = rank[d]
    OBVIOUS
  <2>5. dist[d].via # me
    BY <1>6, <1>7, <2>4
  <2>6. dist[d].via \in D /\ rank[dist[d].via] < rank[d]
    BY <1>2, <2>5
  <2>7. w[dist[d].via] # g[dist[d].via]
    BY <1>6, <1>7, <2>4, <2>5
  <2>8. rank[dist[d].via] \in apart
    BY <2>6, <2>7
  <2> QED
    BY <2>3, <2>4, <2>6, <2>8
<1>8. w[dest] = first[dest]
  BY <1>2, <1>7
<1> QED
  BY <1>2, <1>4, <1>7, <1>8

-----------------------------------------------------------------------------
\* The computation.
LEMMA StartTree ==
  ASSUME NEW me, NEW direct, direct \in [DOMAIN direct -> Cost], me \notin DOMAIN direct, NEW known
  PROVE  LET A == known \ {me}
             B == known \cup {me}
             D == DOMAIN direct \cup A
             x == <<A, ActiveDistances(me, direct, known)>>
         IN /\ DOMAIN ActiveDistances(me, direct, known) = D /\ me \notin D
            /\ x \in Places(A, B, D) /\ Tree(me, D, x)
<1> DEFINE A    == known \ {me}
           B    == known \cup {me}
           D    == DOMAIN direct \cup A
           dist == ActiveDistances(me, direct, known)
<1>1. \A d \in D : dist[d] \in Distance(B) /\ dist[d].via = me
  BY InfinityNat DEF ActiveDistances, Distance
<1>2. DOMAIN dist = D /\ dist = [d \in D |-> dist[d]]
  BY DEF ActiveDistances
<1> HIDE DEF dist, D, A, B
<1>3. dist \in [D -> Distance(B)]
  BY <1>1, <1>2
<1>4. me \notin D
  BY DEF D, A
<1>5. Branches(me, D, <<A, dist>>, 0, [d \in D |-> 0], [d \in D |-> d])
  BY <1>1 DEF Branches
<1>6. Tree(me, D, <<A, dist>>)
  BY <1>5 DEF Tree
<1> QED
  BY <1>2, <1>3, <1>4, <1>6 DEF Places, dist, D, A, B

\* ShortestPaths is what its recursion says.
LEMMA ShortestPathsFinish ==
  ASSUME NEW me, NEW costTable, NEW direct, direct \in [DOMAIN direct -> Cost],
         me \notin DOMAIN direct, NEW known,
         \A r \in known \ {me} : \A n \in DOMAIN costTable[r] : costTable[r][n] \in Cost
  PROVE  LET A == known \ {me}
             B == known \cup {me}
             D == DOMAIN direct \cup A
         IN /\ Fits(costTable, A, B, D)
            /\ \E f : /\ Finishes(costTable, A, B, D, f)
                      /\ ShortestPaths(me, costTable, direct, known) =
                           f[<<A, ActiveDistances(me, direct, known)>>]
<1> DEFINE A     == known \ {me}
           B     == known \cup {me}
           D     == DOMAIN direct \cup A
           start == ActiveDistances(me, direct, known)
           f     == CHOOSE g : Finishes(costTable, A, B, D, g)
<1>1. DOMAIN start = D
  BY DEF ActiveDistances
<1>2. Fits(costTable, A, B, D)
  BY DEF Fits
<1>3. Finishes(costTable, A, B, D, f)
  <2>1. \E g : Finishes(costTable, A, B, D, g)
    BY <1>2, LoopFinishes
  <2> QED
    BY <2>1
<1>4. ShortestPaths(me, costTable, direct, known) =
        (CHOOSE g : g = [x \in (SUBSET A) \X [DOMAIN start -> [via : B, cost : Cost]] |->
           IF Visits(costTable, x) = {} THEN {x[2]}
           ELSE UNION {g[y] : y \in Visits(costTable, x)}])[<<A, start>>]
  BY Zenon DEF ShortestPaths
<1>5. ShortestPaths(me, costTable, direct, known) = f[<<A, start>>]
  BY <1>1, <1>4, Zenon DEF Finishes, Places, Distance
<1> HIDE DEF f
<1> QED
  BY <1>2, <1>3, <1>5

\* Whatever order the loop takes, it ends in a tree over the neighbours and the other
\* routers of the node table.
LEMMA PathsTree ==
  ASSUME NEW me, NEW costTable, NEW direct, direct \in [DOMAIN direct -> Cost],
         me \notin DOMAIN direct, NEW known, IsFiniteSet(known),
         \A r \in known \ {me} : \A n \in DOMAIN costTable[r] : costTable[r][n] \in Cost,
         NEW dist \in ShortestPaths(me, costTable, direct, known)
  PROVE  /\ dist \in [DOMAIN direct \cup (known \ {me}) -> Distance(known \cup {me})]
         /\ Tree(me, DOMAIN direct \cup (known \ {me}), <<{}, dist>>)
<1> DEFINE A     == known \ {me}
           B     == known \cup {me}
           D     == DOMAIN direct \cup A
           start == <<A, ActiveDistances(me, direct, known)>>
<1>1. me \notin D /\ start \in Places(A, B, D) /\ Tree(me, D, start)
  BY StartTree
<1>2. IsFiniteSet(A)
  BY FS_Subset
<1>3. /\ Fits(costTable, A, B, D)
      /\ \E f : /\ Finishes(costTable, A, B, D, f)
                /\ ShortestPaths(me, costTable, direct, known) = f[start]
  BY ShortestPathsFinish
<1>4. PICK f : /\ Finishes(costTable, A, B, D, f)
               /\ ShortestPaths(me, costTable, direct, known) = f[start]
  BY <1>3
<1> HIDE DEF A, B, D, start
<1>5. dist \in [D -> Distance(B)] /\ Tree(me, D, <<{}, dist>>)
  BY <1>1, <1>2, <1>3, <1>4, EndsInTree
<1> QED
  BY <1>5 DEF D, A, B

\* Routers with numbers up to some n.
Numbered(known) == \E n \in Nat : known \subseteq 1 .. n

\* So each of them has a 16-bit cost, and a next hop among them.
LEMMA PathsFound ==
  ASSUME NEW me, NEW costTable, NEW direct, direct \in [DOMAIN direct -> Cost],
         me \notin DOMAIN direct, NEW known, Numbered(known),
         \A r \in known \ {me} : \A n \in DOMAIN costTable[r] : costTable[r][n] \in Cost,
         NEW dist \in ShortestPaths(me, costTable, direct, known)
  PROVE  /\ DOMAIN dist = DOMAIN direct \cup (known \ {me})
         /\ \A d \in DOMAIN dist : /\ dist[d].cost \in Cost
                                   /\ FindNextHop(me, dist, d) \in DOMAIN dist
<1> DEFINE B == known \cup {me}
           D == DOMAIN direct \cup (known \ {me})
<1>0. IsFiniteSet(known)
  BY FS_Interval, FS_Subset DEF Numbered
<1>1. dist \in [D -> Distance(B)] /\ Tree(me, D, <<{}, dist>>)
  BY <1>0, PathsTree
<1> HIDE DEF B, D
<1>2. \A d \in D : dist[d].cost \in Cost /\ FindNextHop(me, dist, d) \in D
  BY <1>1, WalkEnds DEF Distance
<1> QED
  BY <1>1, <1>2 DEF D
=============================================================================
