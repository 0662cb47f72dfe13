--------------------------- MODULE DispatchManager ---------------------------
(***************************************************************************)
(* The dispatch manager (src/server/src/DispatchManager.cpp): one resource *)
(* per corridor and direction with its occupancy and at most one RELEASE   *)
(* waiting for its ACK, on top of the intersection reservations.           *)
(*                                                                         *)
(* A manager is built by rebuildDispatchManagerLocked, which registers     *)
(* every movement and both directions of every corridor before anybody     *)
(* uses it.  The recovery operations run before the server starts          *)
(* (serving = FALSE), all others afterwards.  Every operation holds the    *)
(* manager's mutex_ and is one step; a refused one changes nothing.        *)
(***************************************************************************)
EXTENDS IntersectionReservations, DynamicPriorityPolicy

CONSTANTS
    Corridor,    \* corridor ids
    Line,        \* line ids
    Candidate,   \* what the candidate builder may offer
    Restorable,  \* what the database may hold when the server starts
    NoLine,      \* "" in last_released_line_
    NoDecision   \* no entry in pending_decisions_

Directions == {"FORWARD", "REVERSE"}
Resource == Corridor \X Directions
Opposite(r) == <<r[1], IF r[2] = "FORWARD" THEN "REVERSE" ELSE "FORWARD">>

\* A decision: whom it releases, over which movements, at which simulation
\* time.  planned tells decisions of this process from restored ones.
Decision == [train : Train, movements : SUBSET Movement, at : Time, planned : BOOLEAN]

ASSUME ManagerAssumptions ==
    /\ LineOf \in [Train -> Line]
    /\ NoLine \notin Line
    /\ NoDecision \notin Decision
    /\ Candidate \subseteq [resource : Resource, train : Train,
                            movements : SUBSET Movement, arrived : Time, fresh : BOOLEAN]
    /\ Restorable \subseteq [train : Train, movements : SUBSET Movement, at : Time,
                             planned : {FALSE}]

VARIABLES
    occupancy,        \* corridor.occupancy
    commandPending,   \* corridor.command_pending
    lastEntry,        \* corridor.last_entry_simulation_ms; 0 for none
    candidates,       \* corridor.candidates
    pendingDecision,  \* pending_decisions_
    lastReleasedLine, \* last_released_line_
    consecutive,      \* consecutive_release_count_
    serving           \* the server has started: recovery is over

corridorVars == <<occupancy, commandPending, lastEntry, candidates, pendingDecision,
                  lastReleasedLine, consecutive>>
managerVars == <<reservationVars, corridorVars, serving>>

\* rebuildDispatchManagerLocked: a new manager with the whole topology.
ManagerInit ==
    /\ registered = Movement
    /\ holder = NoHolders
    /\ reservedAt = NoReservationTimes
    /\ lastClear = NoClearings
    /\ occupancy = [r \in Resource |-> 0]
    /\ commandPending = [r \in Resource |-> FALSE]
    /\ lastEntry = [r \in Resource |-> 0]
    /\ candidates = [r \in Resource |-> {}]
    /\ pendingDecision = [r \in Resource |-> NoDecision]
    /\ lastReleasedLine = [r \in Resource |-> NoLine]
    /\ consecutive = [r \in Resource |-> 0]
    /\ serving = FALSE

-----------------------------------------------------------------------------
(* Planning.                                                               *)

\* A train is inside, or may be about to enter.
Busy(r) == occupancy[r] > 0 \/ commandPending[r]

\* Faulty variant: only trains inside block the other direction.
OpposingOccupied(r) == occupancy[Opposite(r)] > 0

OpposingBusy(r) == Busy(Opposite(r))

\* The candidates whose whole path can be reserved now.
Offered(r, now) == {c \in candidates[r] : CanReserve(c.movements, now)}

\* The candidates planNext may release at time now; none when it holds.
Releasable(r, now) ==
    IF OpposingBusy(r)
         \/ ~HardConstraintsMet(commandPending[r], occupancy[r], lastEntry[r], now)
      THEN {}
      ELSE Selectable(Offered(r, now), lastReleasedLine[r], consecutive[r], now)

\* A new telemetry round replaces what was offered before.
ReplaceCandidates(r, C) ==
    /\ serving
    /\ candidates' = [candidates EXCEPT ![r] = C]
    /\ UNCHANGED <<reservationVars, occupancy, commandPending, lastEntry, pendingDecision,
                   lastReleasedLine, consecutive, serving>>

\* planNext returning RELEASE for candidate c: its movements are reserved
\* and the resource waits for the ACK.
PlanNext(r, c, now) ==
    /\ serving
    /\ c \in Releasable(r, now)
    /\ TryReserveAtomically(c.train, c.movements, now)
    /\ commandPending' = [commandPending EXCEPT ![r] = TRUE]
    /\ pendingDecision' = [pendingDecision EXCEPT
          ![r] = [train |-> c.train, movements |-> c.movements, at |-> now, planned |-> TRUE]]
    /\ UNCHANGED <<occupancy, lastEntry, candidates, lastReleasedLine, consecutive, serving>>

-----------------------------------------------------------------------------
(* The answers of the game.                                                *)

PendingFor(r, t) == pendingDecision[r] # NoDecision /\ pendingDecision[r].train = t

\* The run counter, saturated where the policy stops telling values apart.
Increment(run) == IF run < MaxConsecutive THEN run + 1 ELSE run

\* The part of confirmEntry that admits train t to resource r.
Enter(r, t, now) ==
    /\ commandPending' = [commandPending EXCEPT ![r] = FALSE]
    /\ lastEntry' = [lastEntry EXCEPT ![r] = now]
    /\ occupancy' = [occupancy EXCEPT ![r] = IF @ < Capacity THEN @ + 1 ELSE @]
    /\ candidates' = [candidates EXCEPT ![r] = {c \in @ : c.train # t}]
    /\ lastReleasedLine' = [lastReleasedLine EXCEPT ![r] = LineOf[t]]
    /\ consecutive' = [consecutive EXCEPT
          ![r] = IF lastReleasedLine[r] = LineOf[t] THEN Increment(@) ELSE 1]

\* The game confirms that the released train has started to enter.
ConfirmEntry(r, t, now) ==
    /\ serving
    /\ PendingFor(r, t)
    /\ Enter(r, t, now)
    /\ pendingDecision' = [pendingDecision EXCEPT ![r] = NoDecision]
    /\ UNCHANGED <<reservationVars, serving>>

\* Withdraw the RELEASE of r: drop the reservations of its train and let
\* the resource plan again.
CancelPending(r) ==
    /\ serving
    /\ pendingDecision[r] # NoDecision
    /\ CancelTrain(pendingDecision[r].train)
    /\ commandPending' = [commandPending EXCEPT ![r] = FALSE]
    /\ pendingDecision' = [pendingDecision EXCEPT ![r] = NoDecision]
    /\ UNCHANGED <<occupancy, lastEntry, candidates, lastReleasedLine, consecutive, serving>>

\* Faulty variant: the count is taken down without looking at it.
ExitUnchecked(r) ==
    /\ serving
    /\ occupancy' = [occupancy EXCEPT ![r] = @ - 1]
    /\ UNCHANGED <<reservationVars, commandPending, lastEntry, candidates, pendingDecision,
                   lastReleasedLine, consecutive, serving>>

\* A tail has left the corridor.
MarkCorridorExited(r) ==
    /\ serving
    /\ occupancy[r] > 0
    /\ occupancy' = [occupancy EXCEPT ![r] = @ - 1]
    /\ UNCHANGED <<reservationVars, commandPending, lastEntry, candidates, pendingDecision,
                   lastReleasedLine, consecutive, serving>>

\* A tail has left an intersection.
MarkIntersectionCleared(I, t, now) ==
    /\ serving
    /\ MarkCleared(I, t, now)
    /\ UNCHANGED <<corridorVars, serving>>

-----------------------------------------------------------------------------
(* Recovery, before the server starts.                                     *)

\* A command without ACK: its path is reserved again.
RestorePending(r, d) ==
    /\ ~serving
    /\ ~commandPending[r]
    /\ ~OpposingBusy(r)
    /\ TryReserveAtomically(d.train, d.movements, d.at)
    /\ commandPending' = [commandPending EXCEPT ![r] = TRUE]
    /\ pendingDecision' = [pendingDecision EXCEPT ![r] = d]
    /\ UNCHANGED <<occupancy, lastEntry, candidates, lastReleasedLine, consecutive, serving>>

\* Faulty variant: an accepted command is restored whatever the other
\* direction holds.
RestoreActiveUnchecked(r, d) ==
    /\ ~serving
    /\ TryReserveAtomically(d.train, d.movements, d.at)
    /\ occupancy' = [occupancy EXCEPT ![r] = IF @ < Capacity THEN @ + 1 ELSE @]
    /\ lastEntry' = [lastEntry EXCEPT ![r] = IF d.at > @ THEN d.at ELSE @]
    /\ UNCHANGED <<commandPending, candidates, pendingDecision, lastReleasedLine, consecutive,
                   serving>>

\* An accepted command: its train may still be inside.
RestoreActive(r, d) ==
    /\ ~serving
    /\ ~OpposingBusy(r)
    /\ TryReserveAtomically(d.train, d.movements, d.at)
    /\ occupancy' = [occupancy EXCEPT ![r] = IF @ < Capacity THEN @ + 1 ELSE @]
    /\ lastEntry' = [lastEntry EXCEPT ![r] = IF d.at > @ THEN d.at ELSE @]
    /\ UNCHANGED <<commandPending, candidates, pendingDecision, lastReleasedLine, consecutive,
                   serving>>

StartServing ==
    /\ ~serving
    /\ serving' = TRUE
    /\ UNCHANGED <<reservationVars, corridorVars>>

-----------------------------------------------------------------------------
(* Callers are arbitrary, except that an ACK carries a game time not       *)
(* before the snapshot that its RELEASE was planned from: the game must    *)
(* have seen the command first.                                            *)

ManagerNext ==
    \/ StartServing
    \/ \E r \in Resource, d \in Restorable : RestorePending(r, d) \/ RestoreActive(r, d)
    \/ \E r \in Resource : \E C \in SUBSET {c \in Candidate : c.resource = r} :
          ReplaceCandidates(r, C)
    \/ \E r \in Resource, now \in Time : \E c \in candidates[r] : PlanNext(r, c, now)
    \/ \E r \in Resource : \E t \in Train, now \in Time :
          PendingFor(r, t) /\ now >= pendingDecision[r].at /\ ConfirmEntry(r, t, now)
    \/ \E r \in Resource : CancelPending(r) \/ MarkCorridorExited(r)
    \/ \E i \in Intersection, t \in Train, now \in Time : MarkIntersectionCleared({i}, t, now)

ManagerSpec == ManagerInit /\ [][ManagerNext]_managerVars

-----------------------------------------------------------------------------
(* Properties.                                                             *)

\* Type invariant of the manager.
ManagerTypeOK ==
    /\ ReservationTypeOK
    /\ occupancy \in [Resource -> 0..Capacity]
    /\ commandPending \in [Resource -> BOOLEAN]
    /\ lastEntry \in [Resource -> Nat]
    /\ candidates \in [Resource -> SUBSET Candidate]
    /\ pendingDecision \in [Resource -> Decision \cup {NoDecision}]
    /\ lastReleasedLine \in [Resource -> Line \cup {NoLine}]
    /\ consecutive \in [Resource -> Nat]
    /\ serving \in BOOLEAN

\* The two directions of a corridor are never both occupied or promised,
\* through any order of planning, ACKs, cancellations, exits and recovery
\* (the opposing-direction check of planNext and of both restore calls).
DirectionInterlock ==
    \A r \in Resource : ~(Busy(r) /\ Busy(Opposite(r)))

\* The two records of an outstanding command agree: a resource waits for an
\* ACK exactly when pending_decisions_ knows which train may send it, so no
\* resource can wait for an ACK that nobody is able to give.
PendingMatchesDecision ==
    \A r \in Resource : commandPending[r] <=> pendingDecision[r] # NoDecision

\* A planned release still has room when it is confirmed, so confirmEntry,
\* which silently saturates at the capacity, never loses count of a train.
PlannedEntryHasRoom ==
    \A r \in Resource :
        (pendingDecision[r] # NoDecision /\ pendingDecision[r].planned) =>
            occupancy[r] < Capacity

\* Confirmed entries of planned releases into one resource are at least
\* the minimum headway apart, although headway is checked when planning and
\* the entry happens at an unrelated later time.
EntriesKeepHeadway ==
    [][\A r \in Resource :
          (/\ serving /\ lastEntry'[r] # lastEntry[r] /\ lastEntry[r] # 0
           /\ pendingDecision[r] # NoDecision /\ pendingDecision[r].planned) =>
                lastEntry'[r] - lastEntry[r] >= MinimumHeadway]_managerVars

\* The direction a corridor is set for, as CorridorInterlock sees it.
SetFor == [c \in Corridor |-> IF Busy(<<c, "FORWARD">>) THEN "FORWARD"
                              ELSE IF Busy(<<c, "REVERSE">>) THEN "REVERSE" ELSE "FREE"]

Interlock == INSTANCE CorridorInterlock WITH setFor <- SetFor

\* The manager implements the single-track interlock: a corridor changes
\* direction only by becoming free first.
ImplementsInterlock == Interlock!Spec
=============================================================================
