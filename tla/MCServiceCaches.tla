--------------------------- MODULE MCServiceCaches ---------------------------
(* ServiceCaches for TLC. *)
EXTENDS ServiceCaches
==============================================================================
