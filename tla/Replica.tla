------------------------------ MODULE Replica ------------------------------
(***************************************************************************)
(* What the server promises the cgame of its client about a config string:   *)
(* the copy is always a value the original has had, and it never turns back  *)
(* to an older one. Values are numbered in the order they are set.           *)
(***************************************************************************)
EXTENDS Naturals

VARIABLES original, copy

Init == original = 1 /\ copy = 0

Set == original' = original + 1 /\ UNCHANGED copy

Follow == copy' \in copy .. original /\ UNCHANGED original

Next == Set \/ Follow

Spec == Init /\ [][Next]_<<original, copy>>
=============================================================================
