------------------------------ MODULE MCTopology ------------------------------
(* Topology for TLC: instances and services are model values. *)
EXTENDS Topology
==============================================================================
