---------------------------- MODULE NumberFacts -----------------------------
(***************************************************************************)
(* Facts about sets of natural numbers that the library only states of     *)
(* well-founded relations, or of sets known to be finite.                  *)
(***************************************************************************)
EXTENDS Integers, WellFoundedInduction, FiniteSetTheorems, TLAPS

\* Every set of natural numbers that is not empty has a least element: it is what makes
\* the first link of a router the one behind its port 0.
LEMMA LeastExists ==
  ASSUME NEW S, S \subseteq Nat, S # {}
  PROVE  \E n \in S : \A k \in S : ~(k < n)
<1>1. PICK n \in S : \A k \in S : <<k, n>> \notin OpToRel(<, Nat)
  BY NatLessThanWellFounded, WFMin, Zenon
<1> QED
  BY <1>1, Zenon DEF OpToRel

\* A set that holds 0, and the successor of each of its elements, holds every natural
\* number: induction on the number of steps of a recursion.
LEMMA CountUp ==
  ASSUME NEW S, S \subseteq Nat, 0 \in S, \A k \in S : k + 1 \in S, NEW i \in Nat
  PROVE  i \in S
<1> DEFINE missed == {n \in Nat : n \notin S}
<1> SUFFICES ASSUME missed # {} PROVE FALSE
  OBVIOUS
<1>1. PICK n \in missed : \A k \in missed : ~(k < n)
  <2>1. missed \subseteq Nat
    OBVIOUS
  <2> HIDE DEF missed
  <2> QED
    BY <2>1, LeastExists
<1>2. n \in Nat /\ n \notin S /\ n # 0
  OBVIOUS
<1>3. n - 1 \in Nat /\ n - 1 < n /\ (n - 1) + 1 = n
  BY <1>2
<1>4. n - 1 \in S
  BY <1>1, <1>3
<1>5. (n - 1) + 1 \in S
  BY <1>4
<1> QED
  BY <1>2, <1>3, <1>5

\* A larger element of a set of natural numbers has more of them below it: it is what
\* makes the ports of a router, which count its earlier links, different.
LEMMA MoreBelow ==
  ASSUME NEW S, S \subseteq Nat, NEW k \in S, NEW l \in S, k < l
  PROVE  Cardinality({n \in S : n < k}) # Cardinality({n \in S : n < l})
<1> DEFINE below(m) == {n \in S : n < m}
<1>1. \A n \in S : n \in Nat
  OBVIOUS
<1>2. \A n \in below(l) : n \in 0 .. l
  BY <1>1
<1>3. \A n \in below(k) : n \in below(l)
  BY <1>1
<1>4. k \in below(l) /\ k \notin below(k)
  BY <1>1
<1>5. l \in Int /\ 0 \in Int
  BY <1>1
<1> HIDE DEF below
<1>6. IsFiniteSet(0 .. l)
  BY <1>5, FS_Interval
<1>7. below(l) \in SUBSET (0 .. l)
  BY <1>2, Zenon
<1>8. IsFiniteSet(below(l))
  BY <1>6, <1>7, FS_Subset
<1>9. below(k) \in SUBSET below(l) /\ below(k) # below(l)
  BY <1>3, <1>4, Zenon
<1>10. Cardinality(below(k)) # Cardinality(below(l))
  BY <1>8, <1>9, FS_Subset
<1> QED
  BY <1>10, Zenon DEF below

Size(S) == Cardinality(S)

\* How many of the first n numbers are in a set.
LEMMA SizeFacts ==
  ASSUME NEW n \in Nat, NEW T, T \subseteq 1 .. n, NEW S, S \subseteq T
  PROVE  /\ Size(S) \in Nat /\ Size(T) \in Nat /\ Size(S) <= Size(T)
         /\ S # T => Size(S) < Size(T)
<1>1. IsFiniteSet(1 .. n)
  BY FS_Interval
<1>2. T \in SUBSET (1 .. n) /\ S \in SUBSET T
  OBVIOUS
<1>3. IsFiniteSet(T) /\ IsFiniteSet(S)
  BY <1>1, <1>2, FS_Subset
<1>4. Cardinality(S) \in Nat /\ Cardinality(T) \in Nat
  BY <1>3, FS_CardinalityType
<1>5. Cardinality(S) <= Cardinality(T) /\ (Cardinality(S) = Cardinality(T) => S = T)
  BY <1>2, <1>3, FS_Subset
<1> QED
  BY <1>4, <1>5 DEF Size
=============================================================================
