------------------------------- MODULE Costs -------------------------------
(***************************************************************************)
(* The 16-bit cost of a link or route (global.h, sharedUtils.h), and the   *)
(* hash maps from ports, routers and pairs of routers that hold them.      *)
(***************************************************************************)
EXTENDS Integers

INFINITY_COST == 65535          \* 0xffff of a 16-bit unsigned short
Cost == 0 .. INFINITY_COST

\* A difference or sum, computed as an int, assigned to a cost.
AsCost(i) == i % 65536

\* f is a hash map with keys in S and values in T.
IsMap(f, S, T) == DOMAIN f \subseteq S /\ f \in [DOMAIN f -> T]

\* f[k] = v for an unordered_map.
Store(f, k, v) == [x \in DOMAIN f \cup {k} |-> IF x = k THEN v ELSE f[x]]

\* The same for every key of g, which holds the values.
StoreAll(f, g) == [x \in DOMAIN f \cup DOMAIN g |-> IF x \in DOMAIN g THEN g[x] ELSE f[x]]
=============================================================================
