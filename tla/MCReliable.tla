---------------------------- MODULE MCReliable ----------------------------
(* TLC instances of ReliableCommands. The ring holds 2 or 3 commands instead *)
(* of 64; the bounds on how far each side runs ahead of the other's          *)
(* acknowledgements select the question a run asks.                          *)
EXTENDS ReliableCommands
=============================================================================
