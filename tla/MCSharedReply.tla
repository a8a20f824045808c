---------------------------- MODULE MCSharedReply ----------------------------
(* SharedReply for TLC: the calls are model values. *)
EXTENDS SharedReply
==============================================================================
