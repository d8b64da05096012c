---------------------------- MODULE MCDVNetwork -----------------------------
(* Distance-vector networks with the links and scripts of Instances. *)
EXTENDS DVNetwork, Instances
=============================================================================
