------------------------- MODULE TrainMotionController -------------------------
(***************************************************************************)
(* The set of held vehicles (TrainMotionController.cs).  Every frame the   *)
(* runtime fills a new set, walking the consist of each held train, and    *)
(* publishes it; the simulation thread asks for it in the Harmony postfix  *)
(* without a lock.  A set is an object: it has an address, and a thread    *)
(* that read the reference goes on using the object behind it.             *)
(*                                                                         *)
(* The simulation changes the vehicles while the walk reads them, so each  *)
(* step of the walk is an action.  Vehicle 0 is the null id of the game.   *)
(***************************************************************************)
EXTENDS Naturals, FiniteSets

CONSTANTS
    Vehicle,                 \* vehicle ids without the null id 0
    Consists,                \* the couplings the game may start with: [lead, trail]
    MaximumConsistVehicles,  \* the limit of one walk
    Address,                 \* of set objects
    NoAddress,
    MaxFrame                 \* bound on frames

ASSUME MotionAssumptions ==
    /\ Vehicle \subseteq Nat \ {0} /\ MaximumConsistVehicles \in Nat
    /\ Consists \subseteq [lead : [Vehicle -> Vehicle \cup {0}],
                           trail : [Vehicle -> Vehicle \cup {0}]]
    /\ NoAddress \notin Address /\ MaxFrame \in Nat
    /\ \A a, b, c \in Address \cup {NoAddress} : Address \ {a, b, c} # {}   \* never out of memory

VARIABLES
    created, lead, trail,  \* Flags.Created, m_leadingVehicle, m_trailingVehicle
    active, building,      \* activeHeldVehicles, buildingHeldVehicles
    content,               \* of the set objects
    phase,                 \* of the frame: none, open, failed (an exception), head, tail
    current, visited,      \* of the walk
    reading,               \* the object the postfix is looking at
    wanted,                \* the vehicles HoldTrain was called for in this frame
    disturbed,             \* the game has changed a consist during this frame
    frames

gameVars == <<created, lead, trail>>
walkVars == <<current, visited>>
setVars == <<active, building, content>>
motionVars == <<gameVars, setVars, phase, walkVars, reading, wanted, disturbed, frames>>

MotionInit ==
    /\ created = Vehicle
    /\ \E c \in Consists : lead = c.lead /\ trail = c.trail
    /\ active = CHOOSE a \in Address : TRUE
    /\ building = CHOOSE a \in Address : a # active
    /\ content = [a \in Address |-> {}]
    /\ phase = "none" /\ current = 0 /\ visited = {} /\ reading = NoAddress
    /\ wanted = {} /\ disturbed = FALSE /\ frames = 0

\* An object that nobody refers to: the next one to be allocated.
Fresh == CHOOSE a \in Address : a \notin {active, building, reading}

-----------------------------------------------------------------------------
(* The frame (DispatchRuntime.Tick).                                       *)

BeginFrame ==
    /\ phase = "none" /\ frames < MaxFrame
    /\ frames' = frames + 1
    /\ content' = [content EXCEPT ![building] = {}]
    /\ phase' = "open" /\ wanted' = {} /\ disturbed' = FALSE
    /\ UNCHANGED <<gameVars, active, building, walkVars, reading>>

\* Faulty variant: the vehicle is taken for the head of its train.
HoldFromVehicle(v) ==
    /\ phase = "open" /\ v \in created
    /\ current' = v /\ visited' = {} /\ phase' = "tail"
    /\ wanted' = wanted \cup {v}
    /\ UNCHANGED <<gameVars, setVars, reading, disturbed, frames>>

\* A vehicle that is not created is not walked.
HoldTrain(v) ==
    /\ phase = "open" /\ v \in created
    /\ current' = v /\ visited' = {} /\ phase' = "head"
    /\ wanted' = wanted \cup {v}
    /\ UNCHANGED <<gameVars, setVars, reading, disturbed, frames>>

\* One round of the first loop.  Every round visits a new vehicle, so the
\* number of rounds is that of the visited vehicles.
FindHead ==
    /\ phase = "head"
    /\ LET seen == visited \cup {current}
           goesOn == /\ Cardinality(visited) < MaximumConsistVehicles
                     /\ current \notin visited /\ current \in created
                     /\ lead[current] \in created
       IN IF goesOn THEN current' = lead[current] /\ visited' = seen /\ UNCHANGED phase
                    ELSE phase' = "tail" /\ visited' = {} /\ UNCHANGED current
    /\ UNCHANGED <<gameVars, setVars, reading, wanted, disturbed, frames>>

\* One round of the second loop.
AddVehicle ==
    /\ phase = "tail"
    /\ IF /\ Cardinality(visited) < MaximumConsistVehicles
          /\ current \in created /\ current \notin visited
       THEN /\ content' = [content EXCEPT ![building] = @ \cup {current}]
            /\ IF trail[current] = 0
                 THEN phase' = "open" /\ UNCHANGED walkVars
                 ELSE /\ visited' = visited \cup {current} /\ current' = trail[current]
                      /\ UNCHANGED phase
       ELSE phase' = "open" /\ UNCHANGED <<content, walkVars>>
    /\ UNCHANGED <<gameVars, active, building, reading, wanted, disturbed, frames>>

\* An exception ends TickCore; Tick catches it.
TickFails ==
    /\ phase \in {"open", "head", "tail"}
    /\ phase' = "failed"
    /\ UNCHANGED <<gameVars, setVars, walkVars, reading, wanted, disturbed, frames>>

\* Faulty variant: the two sets are exchanged instead of allocating a new one.
SwapSets ==
    /\ phase \in {"open", "failed"}
    /\ active' = building /\ building' = active
    /\ phase' = "none"
    /\ UNCHANGED <<gameVars, content, walkVars, reading, wanted, disturbed, frames>>

\* Also reached when the frame has failed (finally).
CommitFrame ==
    /\ phase \in {"open", "failed"}
    /\ active' = building /\ building' = Fresh
    /\ content' = [content EXCEPT ![Fresh] = {}]
    /\ phase' = "none"
    /\ UNCHANGED <<gameVars, walkVars, reading, wanted, disturbed, frames>>

\* The mod is disabled or a level is loaded, between two frames.
ResetHolds ==
    /\ phase = "none"
    /\ active' = Fresh
    /\ content' = [content EXCEPT ![building] = {}, ![Fresh] = {}]
    /\ wanted' = {}
    /\ UNCHANGED <<gameVars, building, phase, walkVars, reading, disturbed, frames>>

-----------------------------------------------------------------------------
(* The simulation thread.                                                  *)

\* ShouldHold: the reference is read, then the object.
ShouldHold ==
    /\ reading = NoAddress
    /\ reading' = active
    /\ UNCHANGED <<gameVars, setVars, phase, walkVars, wanted, disturbed, frames>>

Answered ==
    /\ reading # NoAddress
    /\ reading' = NoAddress
    /\ UNCHANGED <<gameVars, setVars, phase, walkVars, wanted, disturbed, frames>>

\* The game removes a vehicle and uncouples it.
ReleaseVehicle(v) ==
    /\ v \in created
    /\ created' = created \ {v}
    /\ lead' = [w \in Vehicle |-> IF w = v \/ lead[w] = v THEN 0 ELSE lead[w]]
    /\ trail' = [w \in Vehicle |-> IF w = v \/ trail[w] = v THEN 0 ELSE trail[w]]
    /\ disturbed' = TRUE
    /\ UNCHANGED <<setVars, phase, walkVars, reading, wanted, frames>>

MotionNext ==
    \/ BeginFrame \/ FindHead \/ AddVehicle \/ TickFails \/ CommitFrame \/ ResetHolds
    \/ ShouldHold \/ Answered
    \/ \E v \in Vehicle : HoldTrain(v) \/ ReleaseVehicle(v)

MotionSpec == MotionInit /\ [][MotionNext]_motionVars

-----------------------------------------------------------------------------
(* Properties.                                                             *)

Published == content[active]

\* Type invariant of the controller: the set under construction is never the
\* one the simulation can see.
MotionTypeOK ==
    /\ created \subseteq Vehicle
    /\ lead \in [Vehicle -> Vehicle \cup {0}] /\ trail \in [Vehicle -> Vehicle \cup {0}]
    /\ active \in Address /\ building \in Address \ {active}
    /\ content \in [Address -> SUBSET Vehicle]
    /\ phase \in {"none", "open", "failed", "head", "tail"}
    /\ current \in Vehicle \cup {0} /\ visited \subseteq Vehicle
    /\ reading \in Address \cup {NoAddress}
    /\ wanted \subseteq Vehicle /\ disturbed \in BOOLEAN /\ frames \in 0..MaxFrame

\* The postfix never looks at a set that changes: neither the published set
\* nor one that was published when it read the reference (the comment on
\* TrainMotionController: no half-built set is ever read).
ReadersSeeWholeFrames ==
    [][reading # NoAddress => content'[reading] = content[reading]]_motionVars

\* When a frame that did not fail is published, all vehicles of a held train
\* stop, whichever of its vehicles HoldTrain was given, also when the
\* couplings form a ring; unless the game has changed a train meanwhile.
WholeTrainsHeld ==
    [][(phase = "open" /\ phase' = "none" /\ ~disturbed) =>
          /\ wanted \subseteq Published'
          /\ \A v \in Published' : {lead[v], trail[v]} \ {0} \subseteq Published']_motionVars

-----------------------------------------------------------------------------
(* A statement of the source that the code does not keep.                  *)

\* "When the construction of a frame fails, an empty HOLD set is still
\* published" (DispatchRuntime.Tick).
FailedFramesHoldNothing == [][(phase = "failed" /\ phase' = "none") => Published' = {}]_motionVars
=============================================================================
