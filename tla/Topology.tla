------------------------------ MODULE Topology ------------------------------
(***************************************************************************)
(* The configured network (Simulator::init, Node, Link): routers, links,   *)
(* and the numbering of a router's ports.                                  *)
(***************************************************************************)
EXTENDS Integers, FiniteSets, FiniteSetsExt

CONSTANTS Router,  \* node_table: the router ids
          Links    \* the lines of [links], in order: records
                   \* [node1, node2, delay (ms), lossTenths]; a transmission is
                   \* lost on lossTenths of the ten rolls of rand() % 10

\* Ids of at most 127, as in every configuration of tests/: they are the ones whose
\* low byte, which is what an LS packet carries of an id, is the id itself.
ASSUME RouterAssumption == Router \subseteq 1 .. 127
ASSUME LinksAssumption ==
  /\ \A i \in DOMAIN Links :
       /\ {Links[i].node1, Links[i].node2} \subseteq Router
       /\ Links[i].node1 # Links[i].node2
       /\ Links[i].delay \in Nat /\ Links[i].lossTenths \in 0 .. 10
  /\ \A r \in Router : \E i \in DOMAIN Links : r \in {Links[i].node1, Links[i].node2}
  /\ DOMAIN Links \subseteq Nat

\* Every link line pushes its link onto the link_vector of both ends, so the index of a
\* link there, its port, is the number of the router's links on earlier lines.
LinksOf(r) == {l \in DOMAIN Links : r \in {Links[l].node1, Links[l].node2}}
get_link_port(r, l) == Cardinality({k \in LinksOf(r) : k < l})

Ports == [r \in Router |-> {get_link_port(r, l) : l \in LinksOf(r)}]
LinkAt(r, port) == CHOOSE l \in LinksOf(r) : get_link_port(r, l) = port

\* How many routers there are.
RouterCount == Cardinality(Router)

\* The other end of r's link l.
Peer(r, l) == IF Links[l].node1 = r THEN Links[l].node2 ELSE Links[l].node1

\* link_table finds the link of an event line by its two ends in either order; of
\* several links between the same routers it holds the last.
LinkBetween(a, b) ==
  Max({i \in DOMAIN Links : {Links[i].node1, Links[i].node2} = {a, b}})
=============================================================================
