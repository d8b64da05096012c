---------------------------- MODULE MCLSNetwork -----------------------------
(* Link-state networks with the links and scripts of Instances. *)
EXTENDS LSNetwork, Instances
=============================================================================
