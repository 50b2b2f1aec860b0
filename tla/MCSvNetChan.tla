--------------------------- MODULE MCSvNetChan ---------------------------
(* TLC instance of SvNetChan: enough messages for two of them to wait in the *)
(* queue behind a fragmented one, and for one to overtake them.              *)
EXTENDS SvNetChan
=============================================================================
