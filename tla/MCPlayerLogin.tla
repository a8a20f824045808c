---------------------------- MODULE MCPlayerLogin ----------------------------
(* PlayerLogin for TLC: the calls are model values. *)
EXTENDS PlayerLogin
==============================================================================
