------------------------------ MODULE Allocator ------------------------------
(***************************************************************************)
(* What the engine's allocators promise: memory that was handed out belongs *)
(* to its user alone until it is given back, one piece at a time or all of  *)
(* a kind together. Nothing is said of where a piece comes from.            *)
(***************************************************************************)
CONSTANTS Pointers, Places

VARIABLE piece          \* by pointer: the places that are its user's, or none

Init == piece = [p \in Pointers |-> {}]

\* p is given some memory, all of which is free.
Allocate(p) ==
    /\ piece[p] = {}
    /\ piece'[p] \subseteq Places
    /\ piece' = [piece EXCEPT ![p] = piece'[p]]
    /\ \A q \in Pointers \ {p} : piece[q] \cap piece'[p] = {}

Release == \E S \in SUBSET Pointers : piece' = [p \in Pointers |-> IF p \in S THEN {} ELSE piece[p]]

Next == Release \/ \E p \in Pointers : Allocate(p)

Spec == Init /\ [][Next]_piece
=============================================================================
