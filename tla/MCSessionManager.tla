--------------------------- MODULE MCSessionManager ---------------------------
(* SessionManager for TLC: clients, tickets and senders are model values. *)
EXTENDS SessionManager, TLC

Symmetric == Permutations(Clients) \union Permutations(Tickets)
==============================================================================
