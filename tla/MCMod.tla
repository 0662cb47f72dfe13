-------------------------------- MODULE MCMod --------------------------------
(***************************************************************************)
(* The mod on the game's side: the execution of commands, and the set of   *)
(* held vehicles behind it.  A behaviour of this run exercises one of them *)
(* and leaves the other alone.                                             *)
(*                                                                         *)
(* One train may get commands for two resources, one of them again under   *)
(* a new topology.  The consists are a train of two vehicles with a single *)
(* one behind it, a train of three, and three vehicles coupled to a ring.  *)
(***************************************************************************)
EXTENDS ModRuntime, TrainMotionController

CONSTANTS t1, ra, rb, red, blue

MCCommandOf ==
    << [id |-> 1, train |-> t1, resource |-> ra, line |-> red, rev |-> 1],
       [id |-> 2, train |-> t1, resource |-> rb, line |-> red, rev |-> 1],
       [id |-> 3, train |-> t1, resource |-> ra, line |-> red, rev |-> 2] >>

OneTrain == <<t1>>

MCConsists ==
    {[lead |-> <<0, 1, 0>>, trail |-> <<2, 0, 0>>],
     [lead |-> <<0, 1, 2>>, trail |-> <<2, 3, 0>>],
     [lead |-> <<3, 1, 2>>, trail |-> <<2, 3, 1>>]}

VARIABLE part

observedVars == <<runtimeVars, reported>>
modVars == <<part, observedVars, motionVars>>

ModInit ==
    /\ part \in {"runtime", "motion"}
    /\ RuntimeAndReportsInit
    /\ MotionInit
    /\ part = "runtime" => lead = <<0, 1, 0>>   \* any one, it does not matter

ModNext ==
    \/ part = "runtime" /\ RuntimeNext /\ UNCHANGED <<part, motionVars>>
    \/ part = "motion" /\ MotionNext /\ UNCHANGED <<part, observedVars>>

ModSpec == ModInit /\ [][ModNext]_modVars
=============================================================================
