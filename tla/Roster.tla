------------------------------- MODULE Roster -------------------------------
(***************************************************************************)
(* What the server promises the game module about its players: a client     *)
(* number belongs to one player until the game is told that he has left,    *)
(* and no player has two of them. The game keeps scores, bodies and flags   *)
(* by client number and relies on both.                                     *)
(*                                                                          *)
(* Players whom the server may take for each other are an exception: one    *)
(* may be given the number of the other, who has not left, and may have     *)
(* another number himself.                                                  *)
(***************************************************************************)
CONSTANTS Slots, Players, Nobody

VARIABLES player,       \* by client number: who plays under it
          alike         \* pairs of players who may be taken for each other

Init == player = [s \in Slots |-> Nobody] /\ alike = {}

\* No other number is p's, or p has been taken for somebody.
OnlyNumber(s, p) ==
    \/ \A t \in Slots : player[t] = p => t = s
    \/ \E q \in Players : <<p, q>> \in alike

Enter(s, p) ==
    /\ player[s] = Nobody \/ <<player[s], p>> \in alike
    /\ OnlyNumber(s, p)
    /\ player' = [player EXCEPT ![s] = p]
    /\ UNCHANGED alike

Leave(s) ==
    /\ player[s] # Nobody
    /\ player' = [player EXCEPT ![s] = Nobody]
    /\ UNCHANGED alike

\* The server process ends and is started again.
Restart == player' = [s \in Slots |-> Nobody] /\ UNCHANGED alike

\* Players become alike, and stay so.
Mix == alike \subseteq alike' /\ UNCHANGED player

Next == Restart \/ Mix \/ \E s \in Slots : Leave(s) \/ \E p \in Players : Enter(s, p)

Spec == Init /\ [][Next]_<<player, alike>>
=============================================================================
