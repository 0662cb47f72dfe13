-------------------------- MODULE CorridorInterlock --------------------------
(***************************************************************************)
(* What a shared corridor promises: FORWARD and REVERSE are two directions *)
(* of one physical track, so a corridor is free or set for one direction,  *)
(* and it is set for the other one only after it has become free.          *)
(***************************************************************************)
CONSTANTS Corridor, Directions

VARIABLE setFor   \* [Corridor -> Directions \cup {"FREE"}]

Init == setFor = [c \in Corridor |-> "FREE"]

Set(c, d) ==
    /\ setFor[c] = "FREE"
    /\ setFor' = [setFor EXCEPT ![c] = d]

Free(c) ==
    /\ setFor[c] # "FREE"
    /\ setFor' = [setFor EXCEPT ![c] = "FREE"]

Next == \E c \in Corridor : Free(c) \/ \E d \in Directions : Set(c, d)

Spec == Init /\ [][Next]_setFor
=============================================================================
