------------------------- MODULE MCDVNetworkFaster --------------------------
(* Distance-vector networks in which links only get faster. *)
EXTENDS MCDVNetwork

ASSUME FasterAssumption == OnlyFaster(50)
=============================================================================
