--------------------------- MODULE MCConnections ---------------------------
(* TLC instances of Connections. *)
EXTENDS Connections, TLC

Interchangeable == Permutations(Clients) \cup Permutations(Ports)
=============================================================================
