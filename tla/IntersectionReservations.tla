----------------------- MODULE IntersectionReservations -----------------------
(***************************************************************************)
(* The reservation table for line intersections                            *)
(* (src/server/src/IntersectionReservationManager.cpp).                    *)
(*                                                                         *)
(* An intersection is crossed along movements.  A train reserves all the   *)
(* movements of its path in one critical section or none of them, keeps    *)
(* them until the game reports its tail clear of the intersection, and a   *)
(* conflicting movement is refused until a clearance interval has elapsed  *)
(* since that report.  Every public operation holds mutex_ throughout, so  *)
(* each one is a single step.                                              *)
(*                                                                         *)
(* A call that fails (unknown movement, conflict, clearance not met)       *)
(* returns false and writes nothing: it is a stuttering step here.  The    *)
(* simulation time is an argument of every call.  It comes from different  *)
(* game messages and is NOT assumed to be monotonic.                       *)
(***************************************************************************)
EXTENDS Integers

CONSTANTS
    Train,             \* train ids
    Movement,          \* movement ids
    Intersection,      \* intersection ids
    IntersectionOf,    \* movement.intersection_id
    Declared,          \* pairs <<m, n>> with n in m.conflict_movement_ids
    ClearanceTime,     \* movement.clearance_time_ms; 0 asks for the default
    DefaultClearance,  \* default_clearance_ms_
    Time,              \* the simulation times that calls may carry
    NoTrain            \* "no reservation" in active_by_movement

ASSUME ReservationAssumptions ==
    /\ NoTrain \notin Train
    /\ IntersectionOf \in [Movement -> Intersection]
    /\ Declared \subseteq Movement \X Movement
    /\ ClearanceTime \in [Movement -> Nat]
    /\ DefaultClearance \in Nat \ {0}
    /\ Time \subseteq Nat

VARIABLES
    registered,  \* keys of movements_
    holder,      \* active_by_movement[m].train_id, or NoTrain
    reservedAt,  \* active_by_movement[m].reserved_at_simulation_ms
    lastClear    \* last_clear_by_movement[m], or Never

reservationVars == <<registered, holder, reservedAt, lastClear>>

\* "No entry" of last_clear_by_movement.
Never == -1

\* A freshly constructed manager: empty tables.
NoHolders == [m \in Movement |-> NoTrain]
NoReservationTimes == [m \in Movement |-> 0]
NoClearings == [m \in Movement |-> Never]

ReservationInit ==
    /\ registered = {}
    /\ holder = NoHolders
    /\ reservedAt = NoReservationTimes
    /\ lastClear = NoClearings

-----------------------------------------------------------------------------
(* Conflict and clearance.                                                 *)

\* The clearance a movement asks for itself.
ClearanceFor(m) ==
    IF ClearanceTime[m] = 0 THEN DefaultClearance ELSE ClearanceTime[m]

\* Faulty variant: only the left movement's own list is consulted.
OneSidedConflict(m, n) == m = n \/ <<m, n>> \in Declared

\* Either side may declare the conflict; a movement conflicts with itself.
MovementsConflict(m, n) ==
    \/ m = n
    \/ <<m, n>> \in Declared
    \/ <<n, m>> \in Declared

\* The tables are kept per intersection: movements of different
\* intersections are never compared.
Excludes(m, n) ==
    /\ IntersectionOf[m] = IntersectionOf[n]
    /\ MovementsConflict(m, n)

\* Faulty variant: only the requested movement's own clearance is waited for.
OwnClearanceOnly(m, n, now) ==
    now >= lastClear[n] /\ now - lastClear[n] >= ClearanceFor(m)

\* now is at least the larger of both clearances after n was cleared.
ClearanceMet(m, n, now) ==
    /\ now >= lastClear[n]
    /\ now - lastClear[n] >= ClearanceFor(m)
    /\ now - lastClear[n] >= ClearanceFor(n)

\* The three checks made under the lock: the request against itself,
\* against the active reservations, and against the recent clearings.
CanReserve(M, now) ==
    /\ M \subseteq registered
    /\ \A m, n \in M : m # n => ~Excludes(m, n)
    /\ \A m \in M, n \in registered :
          Excludes(m, n) =>
             /\ holder[n] = NoTrain
             /\ lastClear[n] # Never => ClearanceMet(m, n, now)

-----------------------------------------------------------------------------
(* Operations.                                                             *)

RegisterMovement(m) ==
    /\ registered' = registered \cup {m}
    /\ UNCHANGED <<holder, reservedAt, lastClear>>

\* The successful outcome: every movement of the request is written.
TryReserveAtomically(t, M, now) ==
    /\ CanReserve(M, now)
    /\ holder' = [m \in Movement |-> IF m \in M THEN t ELSE holder[m]]
    /\ reservedAt' = [m \in Movement |-> IF m \in M THEN now ELSE reservedAt[m]]
    /\ UNCHANGED <<registered, lastClear>>

\* The movements train t holds in intersection i.
HeldIn(i, t) == {m \in Movement : IntersectionOf[m] = i /\ holder[m] = t}

\* The tail of t has left every intersection of I: its reservations there
\* end and their clearance intervals start.
MarkCleared(I, t, now) ==
    LET gone == UNION {HeldIn(i, t) : i \in I}
    IN  /\ holder' = [m \in Movement |-> IF m \in gone THEN NoTrain ELSE holder[m]]
        /\ reservedAt' = [m \in Movement |-> IF m \in gone THEN 0 ELSE reservedAt[m]]
        /\ lastClear' = [m \in Movement |-> IF m \in gone THEN now ELSE lastClear[m]]
        /\ UNCHANGED registered

\* t never entered: everything it holds, in every intersection, is dropped
\* and no clearance interval starts.
CancelTrain(t) ==
    /\ holder' = [m \in Movement |-> IF holder[m] = t THEN NoTrain ELSE holder[m]]
    /\ reservedAt' = [m \in Movement |-> IF holder[m] = t THEN 0 ELSE reservedAt[m]]
    /\ UNCHANGED <<registered, lastClear>>

\* Any caller, in any order, with any arguments.
ReservationNext ==
    \/ \E m \in Movement : RegisterMovement(m)
    \/ \E t \in Train, M \in SUBSET Movement, now \in Time :
          TryReserveAtomically(t, M, now)
    \/ \E i \in Intersection, t \in Train, now \in Time : MarkCleared({i}, t, now)
    \/ \E t \in Train : CancelTrain(t)

ReservationSpec == ReservationInit /\ [][ReservationNext]_reservationVars

-----------------------------------------------------------------------------
(* Properties.                                                             *)

\* Type invariant of the reservation table.
ReservationTypeOK ==
    /\ registered \subseteq Movement
    /\ holder \in [Movement -> Train \cup {NoTrain}]
    /\ reservedAt \in [Movement -> Nat]
    /\ lastClear \in [Movement -> Nat \cup {Never}]

\* Mutual exclusion: whatever the order of requests, cancellations and
\* clearings, two conflicting movements of one intersection are never
\* reserved together, even by one train (canReserveLocked, whose conflict
\* relation is symmetric although the game may upload it one-sidedly).
NoConflictingReservations ==
    \A m, n \in Movement :
        (m # n /\ Excludes(m, n)) => (holder[m] = NoTrain \/ holder[n] = NoTrain)

\* A live reservation began at least the larger clearance after the last
\* time a conflicting movement was reported clear, although the two times
\* were carried by unrelated calls that may arrive with times out of order.
ClearanceSeparatesReservations ==
    \A m, n \in Movement :
        (holder[m] # NoTrain /\ Excludes(m, n) /\ lastClear[n] # Never) =>
            /\ reservedAt[m] - lastClear[n] >= ClearanceFor(m)
            /\ reservedAt[m] - lastClear[n] >= ClearanceFor(n)

\* A reserved movement is never taken over: it first becomes free, also for
\* the train that holds it (its reservation time is never refreshed).
NeverTakenOver ==
    [][\A m \in Movement :
          holder[m] # NoTrain =>
             \/ holder'[m] = NoTrain
             \/ holder'[m] = holder[m] /\ reservedAt'[m] = reservedAt[m]
      ]_reservationVars

\* Only registered movements are reserved or carry a clear time, because
\* canReserveLocked refuses an unknown id; the inductive invariant of the
\* proofs needs it.
OnlyRegisteredReserved ==
    \A m \in Movement : (holder[m] # NoTrain \/ lastClear[m] # Never) => m \in registered
=============================================================================
