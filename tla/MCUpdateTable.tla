--------------------------- MODULE MCUpdateTable ----------------------------
(***************************************************************************)
(* UpdateTable over every network of a few routers.                        *)
(***************************************************************************)
EXTENDS UpdateTable

Others == Router \ {me}

PartialMap(S, T) == UNION {[D -> T] : D \in SUBSET S}

\* The links two other routers may have advertised of each other: links that cost
\* nothing, so that paths tie, and links whose cost makes sums reach and pass 65535.
AnyTables ==
  {t \in [Others -> PartialMap(Others, {0, 65534})] : \A r \in Others : r \notin DOMAIN t[r]}

\* Neighbours, near or nearly out of reach.  Renaming the others turns every instance
\* into one in which the neighbours come first and the nearer ones before the farther.
SortedPorts ==
  {p \in PartialMap(Others, {1, 65533}) : \A i, j \in Others :
     i < j /\ j \in DOMAIN p => i \in DOMAIN p /\ p[i] <= p[j]}

\* At most one router is not in the node table yet; this router may be.
MostKnown == {K \cup {me} : K \in {S \in SUBSET Others : Cardinality(Others \ S) <= 1}}
=============================================================================
