---------------------------- MODULE SochiPromise ----------------------------
(***************************************************************************)
(* What Sochi's protocol promises each player about the moves and chat     *)
(* lines it types: they reach the game exactly once and in order, and the  *)
(* player's program forgets one only after the game has it.                *)
(***************************************************************************)
EXTENDS Naturals

CONSTANT Clients

VARIABLES
    issued,     \* actions the player has queued
    done,       \* actions the game has applied for the player
    shown       \* actions the player's program knows to be applied

vars == <<issued, done, shown>>

Init == issued = [c \in Clients |-> 0] /\ done = issued /\ shown = issued

Issue(c) == issued' = [issued EXCEPT ![c] = @ + 1] /\ UNCHANGED <<done, shown>>

Apply(c) ==
    /\ done[c] < issued[c]
    /\ done' = [done EXCEPT ![c] = @ + 1]
    /\ UNCHANGED <<issued, shown>>

Learn(c) ==
    /\ \E n \in (shown[c] + 1)..done[c] : shown' = [shown EXCEPT ![c] = n]
    /\ UNCHANGED <<issued, done>>

Next == \E c \in Clients : Issue(c) \/ Apply(c) \/ Learn(c)

Spec == Init /\ [][Next]_vars
=============================================================================
