------------------------------ MODULE MCMemory ------------------------------
(* Instances of Memory for TLC: the pointers are interchangeable.            *)
EXTENDS Memory, TLC

CONSTANTS p1, p2, p3

Alike == Permutations(Pointers)
=============================================================================
