------------------------ MODULE DispatchManagerProofs ------------------------
(***************************************************************************)
(* Proofs about IntersectionReservations and DispatchManager, for every    *)
(* network and conflict declaration, every set of trains, movements and    *)
(* candidates, every database content and every order of calls.            *)
(***************************************************************************)
EXTENDS DispatchManager, TLAPS

-----------------------------------------------------------------------------
(* The reservations of the intersections.                                  *)

\* The inductive invariant.  Mutual exclusion only sees registered
\* movements (canReserveLocked looks up each one), so it needs
\* OnlyRegisteredReserved; the clearance property needs mutual exclusion,
\* because clearing a movement must not disturb a conflicting reservation.
ReservationInv ==
    /\ ReservationTypeOK
    /\ OnlyRegisteredReserved
    /\ NoConflictingReservations
    /\ ClearanceSeparatesReservations

\* The conflict relation is symmetric, whichever side declared it.
LEMMA ExcludesSymmetric ==
    \A m, n : Excludes(m, n) <=> Excludes(n, m)
BY DEF Excludes, MovementsConflict

\* A new manager satisfies the invariant.
LEMMA ReservationInitInv == ReservationInit => ReservationInv
BY ReservationAssumptions
   DEF ReservationInit, NoHolders, NoReservationTimes, NoClearings, ReservationInv, ReservationTypeOK, OnlyRegisteredReserved,
       NoConflictingReservations, ClearanceSeparatesReservations, Never

\* Registering a movement keeps the invariant.
LEMMA RegisterInv ==
    ASSUME ReservationInv, NEW m \in Movement, RegisterMovement(m)
    PROVE  ReservationInv'
BY DEF RegisterMovement, ReservationInv, ReservationTypeOK, OnlyRegisteredReserved,
       NoConflictingReservations, ClearanceSeparatesReservations

\* A successful atomic reservation keeps the invariant.
LEMMA ReserveInv ==
    ASSUME ReservationInv, NEW t \in Train, NEW M \in SUBSET Movement, NEW now \in Nat,
           TryReserveAtomically(t, M, now)
    PROVE  ReservationInv'
<1> USE DEF ReservationInv
<1>1. ReservationTypeOK'
  BY DEF TryReserveAtomically, ReservationTypeOK
<1>2. OnlyRegisteredReserved'
  BY DEF TryReserveAtomically, CanReserve, OnlyRegisteredReserved, ReservationTypeOK
<1>3. NoConflictingReservations'
  <2> SUFFICES ASSUME NEW m \in Movement, NEW n \in Movement, m # n, Excludes(m, n),
                      holder'[m] # NoTrain, holder'[n] # NoTrain
               PROVE  FALSE
    BY DEF NoConflictingReservations
  <2>1. CASE m \in M /\ n \in M
    BY <2>1 DEF TryReserveAtomically, CanReserve
  <2>2. CASE m \in M /\ n \notin M
    BY <2>2 DEF TryReserveAtomically, CanReserve, OnlyRegisteredReserved
  <2>3. CASE m \notin M /\ n \in M
    BY <2>3, ExcludesSymmetric DEF TryReserveAtomically, CanReserve, OnlyRegisteredReserved
  <2>4. CASE m \notin M /\ n \notin M
    BY <2>4 DEF TryReserveAtomically, NoConflictingReservations
  <2> QED BY <2>1, <2>2, <2>3, <2>4
<1>4. ClearanceSeparatesReservations'
  <2> SUFFICES ASSUME NEW m \in Movement, NEW n \in Movement,
                      holder'[m] # NoTrain, Excludes(m, n), lastClear'[n] # Never
               PROVE  /\ reservedAt'[m] - lastClear'[n] >= ClearanceFor(m)
                      /\ reservedAt'[m] - lastClear'[n] >= ClearanceFor(n)
    BY DEF ClearanceSeparatesReservations
  <2>0. n \in registered /\ lastClear' = lastClear
    BY DEF TryReserveAtomically, OnlyRegisteredReserved
  <2>1. CASE m \in M
    BY <2>0, <2>1 DEF TryReserveAtomically, CanReserve, ClearanceMet
  <2>2. CASE m \notin M
    BY <2>0, <2>2 DEF TryReserveAtomically, ClearanceSeparatesReservations
  <2> QED BY <2>1, <2>2
<1> QED BY <1>1, <1>2, <1>3, <1>4

\* A clearing keeps the invariant: what it timestamps was reserved, so no
\* conflicting movement was.
LEMMA ClearInv ==
    ASSUME ReservationInv, NEW I \in SUBSET Intersection, NEW t \in Train, NEW now \in Nat,
           MarkCleared(I, t, now)
    PROVE  ReservationInv'
<1> USE DEF ReservationInv
<1> DEFINE gone == UNION {HeldIn(i, t) : i \in I}
<1>0. /\ \A m \in gone : m \in Movement /\ holder[m] # NoTrain
      /\ \A m \in Movement : holder'[m] = IF m \in gone THEN NoTrain ELSE holder[m]
      /\ \A m \in Movement : reservedAt'[m] = IF m \in gone THEN 0 ELSE reservedAt[m]
      /\ \A m \in Movement : lastClear'[m] = IF m \in gone THEN now ELSE lastClear[m]
      /\ registered' = registered
  BY ReservationAssumptions DEF MarkCleared, HeldIn
<1>1. ReservationTypeOK'
  BY DEF MarkCleared, ReservationTypeOK
<1> HIDE DEF gone
<1>2. OnlyRegisteredReserved'
  BY <1>0 DEF OnlyRegisteredReserved
<1>3. NoConflictingReservations'
  BY <1>0 DEF NoConflictingReservations
<1>4. ClearanceSeparatesReservations'
  <2> SUFFICES ASSUME NEW m \in Movement, NEW n \in Movement,
                      holder'[m] # NoTrain, Excludes(m, n), lastClear'[n] # Never
               PROVE  /\ reservedAt'[m] - lastClear'[n] >= ClearanceFor(m)
                      /\ reservedAt'[m] - lastClear'[n] >= ClearanceFor(n)
    BY DEF ClearanceSeparatesReservations
  <2>1. m \notin gone /\ holder[m] # NoTrain
    BY <1>0
  <2>2. n \notin gone
    BY <1>0, <2>1 DEF NoConflictingReservations
  <2> QED BY <1>0, <2>1, <2>2 DEF ClearanceSeparatesReservations
<1> QED BY <1>1, <1>2, <1>3, <1>4

\* A cancellation keeps the invariant.
LEMMA CancelInv ==
    ASSUME ReservationInv, NEW t \in Train, CancelTrain(t)
    PROVE  ReservationInv'
<1> USE DEF ReservationInv
<1>1. ReservationTypeOK'
  BY DEF CancelTrain, ReservationTypeOK
<1>2. OnlyRegisteredReserved' /\ NoConflictingReservations'
  BY DEF CancelTrain, OnlyRegisteredReserved, NoConflictingReservations
<1>3. ClearanceSeparatesReservations'
  BY ReservationAssumptions
     DEF CancelTrain, ClearanceSeparatesReservations
<1> QED BY <1>1, <1>2, <1>3

\* The invariant is inductive.
LEMMA ReservationStepInv ==
    ReservationInv /\ [ReservationNext]_reservationVars => ReservationInv'
<1> SUFFICES ASSUME ReservationInv, [ReservationNext]_reservationVars
             PROVE  ReservationInv'
  OBVIOUS
<1>1. ASSUME NEW m \in Movement, RegisterMovement(m) PROVE ReservationInv'
  BY <1>1, RegisterInv
<1>2. ASSUME NEW t \in Train, NEW M \in SUBSET Movement, NEW now \in Time,
             TryReserveAtomically(t, M, now)
      PROVE  ReservationInv'
  BY <1>2, ReserveInv, ReservationAssumptions
<1>3. ASSUME NEW i \in Intersection, NEW t \in Train, NEW now \in Time,
             MarkCleared({i}, t, now)
      PROVE  ReservationInv'
  <2>1. {i} \in SUBSET Intersection /\ now \in Nat
    BY ReservationAssumptions
  <2> QED BY <1>3, <2>1, ClearInv
<1>4. ASSUME NEW t \in Train, CancelTrain(t) PROVE ReservationInv'
  BY <1>4, CancelInv
<1>5. CASE UNCHANGED reservationVars
  BY <1>5 DEF reservationVars, ReservationInv, ReservationTypeOK, OnlyRegisteredReserved,
              NoConflictingReservations, ClearanceSeparatesReservations
<1> QED BY <1>1, <1>2, <1>3, <1>4, <1>5 DEF ReservationNext

\* The reservation table is always well typed.
THEOREM ReservationTypeCorrect == ReservationSpec => []ReservationTypeOK
<1>1. ReservationInv => ReservationTypeOK
  BY DEF ReservationInv
<1> QED BY <1>1, ReservationInitInv, ReservationStepInv, PTL DEF ReservationSpec

\* Conflicting movements are never reserved together (canReserveLocked).
THEOREM MutualExclusion == ReservationSpec => []NoConflictingReservations
<1>1. ReservationInv => NoConflictingReservations
  BY DEF ReservationInv
<1> QED BY <1>1, ReservationInitInv, ReservationStepInv, PTL DEF ReservationSpec

\* Every live reservation respects the clearance interval after the last
\* conflicting clearing (canReserveLocked, markCleared).
THEOREM ClearanceHolds == ReservationSpec => []ClearanceSeparatesReservations
<1>1. ReservationInv => ClearanceSeparatesReservations
  BY DEF ReservationInv
<1> QED BY <1>1, ReservationInitInv, ReservationStepInv, PTL DEF ReservationSpec

\* A reservation is never handed from one train to another without being
\* freed in between (tryReserveAtomically).
THEOREM ReservationsNeverTakenOver == ReservationSpec => NeverTakenOver
<1> DEFINE Kept == \A m \in Movement :
                      holder[m] # NoTrain =>
                         \/ holder'[m] = NoTrain
                         \/ holder'[m] = holder[m] /\ reservedAt'[m] = reservedAt[m]
<1>1. ReservationInv /\ [ReservationNext]_reservationVars => [Kept]_reservationVars
  <2> SUFFICES ASSUME ReservationInv, ReservationNext, NEW m \in Movement,
                      holder[m] # NoTrain
               PROVE  \/ holder'[m] = NoTrain
                      \/ holder'[m] = holder[m] /\ reservedAt'[m] = reservedAt[m]
    BY DEF reservationVars
  <2>1. ASSUME NEW n \in Movement, RegisterMovement(n)
        PROVE  holder' = holder /\ reservedAt' = reservedAt
    BY <2>1 DEF RegisterMovement
  <2>2. ASSUME NEW t \in Train, NEW M \in SUBSET Movement, NEW now \in Time,
               TryReserveAtomically(t, M, now)
        PROVE  holder'[m] = holder[m] /\ reservedAt'[m] = reservedAt[m]
    <3>1. m \notin M
      BY <2>2 DEF TryReserveAtomically, CanReserve, Excludes, MovementsConflict
    <3> QED BY <2>2, <3>1 DEF TryReserveAtomically
  <2>3. ASSUME NEW i \in Intersection, NEW t \in Train, NEW now \in Time,
               MarkCleared({i}, t, now)
        PROVE  \/ holder'[m] = NoTrain
               \/ holder'[m] = holder[m] /\ reservedAt'[m] = reservedAt[m]
    BY <2>3 DEF MarkCleared
  <2>4. ASSUME NEW t \in Train, CancelTrain(t)
        PROVE  \/ holder'[m] = NoTrain
               \/ holder'[m] = holder[m] /\ reservedAt'[m] = reservedAt[m]
    BY <2>4 DEF CancelTrain
  <2> QED BY <2>1, <2>2, <2>3, <2>4 DEF ReservationNext
<1> QED BY <1>1, ReservationInitInv, ReservationStepInv, PTL DEF ReservationSpec, NeverTakenOver

-----------------------------------------------------------------------------
(* The corridors.                                                          *)

\* The headway checked by planNext still holds when the ACK arrives: the
\* last entry cannot change while a planned release is outstanding.
HeadwayReserved ==
    \A r \in Resource :
        (pendingDecision[r] # NoDecision /\ pendingDecision[r].planned /\ lastEntry[r] # 0) =>
            pendingDecision[r].at - lastEntry[r] >= MinimumHeadway

\* Recovery precedes planning.
NothingPlannedYet ==
    ~serving => \A r \in Resource :
        pendingDecision[r] # NoDecision => ~pendingDecision[r].planned

\* The inductive invariant.
ManagerInv ==
    /\ ManagerTypeOK
    /\ ReservationInv
    /\ DirectionInterlock
    /\ PendingMatchesDecision
    /\ PlannedEntryHasRoom
    /\ HeadwayReserved
    /\ NothingPlannedYet

\* The corridor part of the invariant, which no reservation can disturb.
CorridorInv ==
    /\ DirectionInterlock
    /\ PendingMatchesDecision
    /\ PlannedEntryHasRoom
    /\ HeadwayReserved
    /\ NothingPlannedYet

\* Opposite is an involution without fixed point on the resources.
LEMMA OppositeFacts ==
    \A r \in Resource : /\ Opposite(r) \in Resource
                        /\ Opposite(r) # r
                        /\ Opposite(Opposite(r)) = r
                        /\ \A q \in Resource : q[1] = r[1] => q = r \/ q = Opposite(r)
BY DEF Resource, Opposite, Directions

\* A new manager satisfies the invariant.
LEMMA ManagerInitInv == ManagerInit => ManagerInv
<1> SUFFICES ASSUME ManagerInit PROVE ManagerInv
  OBVIOUS
<1>1. ReservationInv
  BY ReservationAssumptions
     DEF ManagerInit, NoHolders, NoReservationTimes, NoClearings, ReservationInv,
         ReservationTypeOK, OnlyRegisteredReserved, NoConflictingReservations,
         ClearanceSeparatesReservations, Never
<1>2. ManagerTypeOK
  <2>1. occupancy \in [Resource -> 0..Capacity] /\ lastEntry \in [Resource -> Nat]
        /\ consecutive \in [Resource -> Nat]
    BY PolicyAssumptions DEF ManagerInit
  <2>2. commandPending \in [Resource -> BOOLEAN] /\ serving \in BOOLEAN
    BY Zenon DEF ManagerInit
  <2>3. /\ candidates \in [Resource -> SUBSET Candidate]
        /\ pendingDecision \in [Resource -> Decision \cup {NoDecision}]
        /\ lastReleasedLine \in [Resource -> Line \cup {NoLine}]
    BY DEF ManagerInit
  <2> QED BY <1>1, <2>1, <2>2, <2>3 DEF ManagerTypeOK, ReservationInv
<1>3. CorridorInv
  BY PolicyAssumptions, OppositeFacts
     DEF ManagerInit, CorridorInv, DirectionInterlock, Busy, PendingMatchesDecision,
         PlannedEntryHasRoom, HeadwayReserved, NothingPlannedYet
<1> QED BY <1>1, <1>2, <1>3 DEF ManagerInv, CorridorInv

\* A release keeps the invariant.
LEMMA PlanNextInv ==
    ASSUME ManagerInv, NEW r \in Resource, NEW now \in Time, NEW c \in candidates[r],
           PlanNext(r, c, now)
    PROVE  ManagerInv'
<1> USE DEF ManagerInv
<1>0. /\ c \in Candidate /\ c.train \in Train /\ c.movements \in SUBSET Movement /\ now \in Nat
      /\ ~OpposingBusy(r) /\ ~commandPending[r] /\ occupancy[r] < Capacity
      /\ lastEntry[r] # 0 => ElapsedSince(now, lastEntry[r]) >= MinimumHeadway
      /\ serving
  BY ManagerAssumptions, ReservationAssumptions
     DEF PlanNext, Releasable, HardConstraintsMet, ManagerTypeOK
<1> DEFINE d == [train |-> c.train, movements |-> c.movements, at |-> now, planned |-> TRUE]
<1>1. /\ d \in Decision /\ d # NoDecision /\ d.planned /\ d.at = now
      /\ lastEntry[r] # 0 => now - lastEntry[r] >= MinimumHeadway
  <2>1. d \in Decision
    BY <1>0 DEF Decision
  <2>2. lastEntry[r] # 0 => now - lastEntry[r] >= MinimumHeadway
    BY <1>0, PolicyAssumptions DEF ElapsedSince, ManagerTypeOK
  <2> QED BY <2>1, <2>2, ManagerAssumptions
<1>2. /\ pendingDecision' = [pendingDecision EXCEPT ![r] = d]
      /\ commandPending' = [commandPending EXCEPT ![r] = TRUE]
      /\ UNCHANGED <<occupancy, lastEntry, candidates, lastReleasedLine, consecutive, serving>>
  BY DEF PlanNext
<1> HIDE DEF d
<1>3. ReservationInv'
  BY <1>0, ReserveInv DEF PlanNext
<1>4. ManagerTypeOK'
  BY <1>1, <1>2, <1>3 DEF ManagerTypeOK, ReservationInv
<1>5. DirectionInterlock'
  BY <1>0, <1>2, OppositeFacts DEF DirectionInterlock, Busy, OpposingBusy, ManagerTypeOK
<1>6. PendingMatchesDecision' /\ PlannedEntryHasRoom' /\ HeadwayReserved' /\ NothingPlannedYet'
  BY <1>0, <1>1, <1>2
     DEF PendingMatchesDecision, PlannedEntryHasRoom, HeadwayReserved, NothingPlannedYet,
         ManagerTypeOK
<1> QED BY <1>3, <1>4, <1>5, <1>6

\* A confirmed entry keeps the invariant.
LEMMA ConfirmEntryInv ==
    ASSUME ManagerInv, NEW r \in Resource, NEW t \in Train, NEW now \in Time,
           ConfirmEntry(r, t, now)
    PROVE  ManagerInv'
<1> USE DEF ManagerInv
<1>1. /\ pendingDecision' = [pendingDecision EXCEPT ![r] = NoDecision]
      /\ commandPending' = [commandPending EXCEPT ![r] = FALSE]
      /\ lastEntry' = [lastEntry EXCEPT ![r] = now]
      /\ occupancy' = [occupancy EXCEPT ![r] =
                          IF occupancy[r] < Capacity THEN occupancy[r] + 1 ELSE occupancy[r]]
      /\ candidates' = [candidates EXCEPT ![r] = {c \in candidates[r] : c.train # t}]
      /\ pendingDecision[r] # NoDecision
      /\ now \in Nat
      /\ serving /\ serving' = serving
  BY ReservationAssumptions DEF ConfirmEntry, Enter, PendingFor
<1>2. ReservationInv'
  BY DEF ConfirmEntry, ReservationInv, reservationVars, ReservationTypeOK,
         OnlyRegisteredReserved, NoConflictingReservations, ClearanceSeparatesReservations
<1>3. ManagerTypeOK'
  <2>1. lastReleasedLine' \in [Resource -> Line \cup {NoLine}]
    BY ManagerAssumptions DEF ConfirmEntry, Enter, ManagerTypeOK
  <2>2. consecutive' \in [Resource -> Nat]
    BY PolicyAssumptions DEF ConfirmEntry, Enter, Increment, ManagerTypeOK
  <2>3. occupancy' \in [Resource -> 0..Capacity]
    BY <1>1, PolicyAssumptions DEF ManagerTypeOK
  <2>4. candidates' \in [Resource -> SUBSET Candidate]
    BY <1>1 DEF ManagerTypeOK
  <2> QED BY <1>1, <1>2, <2>1, <2>2, <2>3, <2>4 DEF ManagerTypeOK, ReservationInv
<1>4. DirectionInterlock'
  <2>1. commandPending[r] /\ ~Busy(Opposite(r))
    BY <1>1 DEF PendingMatchesDecision, DirectionInterlock, Busy
  <2> QED BY <1>1, <2>1, OppositeFacts DEF DirectionInterlock, Busy, ManagerTypeOK
<1>5. PendingMatchesDecision' /\ PlannedEntryHasRoom' /\ HeadwayReserved' /\ NothingPlannedYet'
  BY <1>1 DEF PendingMatchesDecision, PlannedEntryHasRoom, HeadwayReserved, NothingPlannedYet,
              ManagerTypeOK
<1> QED BY <1>2, <1>3, <1>4, <1>5

\* A withdrawn release keeps the invariant.
LEMMA CancelPendingInv ==
    ASSUME ManagerInv, NEW r \in Resource, CancelPending(r)
    PROVE  ManagerInv'
<1> USE DEF ManagerInv
<1>1. /\ pendingDecision[r].train \in Train
      /\ pendingDecision' = [pendingDecision EXCEPT ![r] = NoDecision]
      /\ commandPending' = [commandPending EXCEPT ![r] = FALSE]
      /\ UNCHANGED <<occupancy, lastEntry, candidates, lastReleasedLine, consecutive, serving>>
  BY DEF CancelPending, ManagerTypeOK, Decision
<1>2. ReservationInv'
  BY <1>1, CancelInv DEF CancelPending
<1>3. ManagerTypeOK'
  BY <1>1, <1>2 DEF ManagerTypeOK, ReservationInv
<1>4. DirectionInterlock'
  BY <1>1, OppositeFacts DEF DirectionInterlock, Busy, ManagerTypeOK
<1>5. PendingMatchesDecision' /\ PlannedEntryHasRoom' /\ HeadwayReserved' /\ NothingPlannedYet'
  BY <1>1 DEF PendingMatchesDecision, PlannedEntryHasRoom, HeadwayReserved, NothingPlannedYet,
              ManagerTypeOK
<1> QED BY <1>2, <1>3, <1>4, <1>5

\* An exit keeps the invariant.
LEMMA MarkCorridorExitedInv ==
    ASSUME ManagerInv, NEW r \in Resource, MarkCorridorExited(r)
    PROVE  ManagerInv'
<1> USE DEF ManagerInv
<1>1. /\ occupancy[r] > 0
      /\ occupancy' = [occupancy EXCEPT ![r] = occupancy[r] - 1]
      /\ UNCHANGED <<reservationVars, commandPending, lastEntry, candidates, pendingDecision,
                     lastReleasedLine, consecutive, serving>>
  BY DEF MarkCorridorExited
<1>2. ReservationInv'
  BY <1>1 DEF ReservationInv, reservationVars, ReservationTypeOK, OnlyRegisteredReserved,
              NoConflictingReservations, ClearanceSeparatesReservations
<1>3. ManagerTypeOK'
  BY <1>1, <1>2, PolicyAssumptions DEF ManagerTypeOK, ReservationInv
<1>4. DirectionInterlock'
  BY <1>1, PolicyAssumptions, OppositeFacts DEF DirectionInterlock, Busy, ManagerTypeOK
<1>5. PendingMatchesDecision' /\ PlannedEntryHasRoom' /\ HeadwayReserved' /\ NothingPlannedYet'
  BY <1>1, PolicyAssumptions
     DEF PendingMatchesDecision, PlannedEntryHasRoom, HeadwayReserved, NothingPlannedYet,
         ManagerTypeOK
<1> QED BY <1>2, <1>3, <1>4, <1>5

\* Restoring a command without ACK keeps the invariant.
LEMMA RestorePendingInv ==
    ASSUME ManagerInv, NEW r \in Resource, NEW d \in Decision, ~d.planned, RestorePending(r, d)
    PROVE  ManagerInv'
<1> USE DEF ManagerInv
<1>1. /\ d.train \in Train /\ d.movements \in SUBSET Movement /\ d.at \in Nat
      /\ d # NoDecision
  BY ManagerAssumptions, ReservationAssumptions DEF Decision
<1>2. /\ ~serving /\ serving' = serving
      /\ ~Busy(Opposite(r))
      /\ pendingDecision' = [pendingDecision EXCEPT ![r] = d]
      /\ commandPending' = [commandPending EXCEPT ![r] = TRUE]
      /\ UNCHANGED <<occupancy, lastEntry, candidates, lastReleasedLine, consecutive>>
  BY DEF RestorePending, OpposingBusy
<1>3. ReservationInv'
  BY <1>1, ReserveInv DEF RestorePending
<1>4. ManagerTypeOK'
  BY <1>1, <1>2, <1>3 DEF ManagerTypeOK, ReservationInv
<1>5. DirectionInterlock'
  BY <1>2, OppositeFacts DEF DirectionInterlock, Busy, ManagerTypeOK
<1>6. PendingMatchesDecision' /\ PlannedEntryHasRoom' /\ HeadwayReserved' /\ NothingPlannedYet'
  BY <1>1, <1>2
     DEF PendingMatchesDecision, PlannedEntryHasRoom, HeadwayReserved, NothingPlannedYet,
         ManagerTypeOK
<1> QED BY <1>3, <1>4, <1>5, <1>6

\* Restoring an accepted command keeps the invariant.
LEMMA RestoreActiveInv ==
    ASSUME ManagerInv, NEW r \in Resource, NEW d \in Decision, ~d.planned, RestoreActive(r, d)
    PROVE  ManagerInv'
<1> USE DEF ManagerInv
<1>1. d.train \in Train /\ d.movements \in SUBSET Movement /\ d.at \in Nat
  BY ReservationAssumptions DEF Decision
<1>2. /\ ~serving /\ serving' = serving
      /\ ~Busy(Opposite(r))
      /\ occupancy' = [occupancy EXCEPT ![r] =
                          IF occupancy[r] < Capacity THEN occupancy[r] + 1 ELSE occupancy[r]]
      /\ lastEntry' = [lastEntry EXCEPT ![r] =
                          IF d.at > lastEntry[r] THEN d.at ELSE lastEntry[r]]
      /\ UNCHANGED <<commandPending, candidates, pendingDecision, lastReleasedLine, consecutive>>
  BY DEF RestoreActive, OpposingBusy
<1>3. ReservationInv'
  BY <1>1, ReserveInv DEF RestoreActive
<1>4. ManagerTypeOK'
  BY <1>1, <1>2, <1>3, PolicyAssumptions DEF ManagerTypeOK, ReservationInv
<1>5. DirectionInterlock'
  BY <1>2, PolicyAssumptions, OppositeFacts DEF DirectionInterlock, Busy, ManagerTypeOK
<1>6. PendingMatchesDecision' /\ PlannedEntryHasRoom' /\ HeadwayReserved' /\ NothingPlannedYet'
  BY <1>2
     DEF PendingMatchesDecision, PlannedEntryHasRoom, HeadwayReserved, NothingPlannedYet,
         ManagerTypeOK
<1> QED BY <1>3, <1>4, <1>5, <1>6

\* Steps that leave every corridor and every reservation alone.
LEMMA HarmlessInv ==
    ASSUME ManagerInv, UNCHANGED <<reservationVars, occupancy, commandPending, lastEntry,
                                   pendingDecision, lastReleasedLine, consecutive>>,
           candidates' \in [Resource -> SUBSET Candidate],
           serving' \in BOOLEAN, serving => serving'
    PROVE  ManagerInv'
<1>1. ReservationInv'
  BY DEF ManagerInv, ReservationInv, reservationVars, ReservationTypeOK,
         OnlyRegisteredReserved, NoConflictingReservations, ClearanceSeparatesReservations
<1> QED
  BY <1>1 DEF ManagerInv, ManagerTypeOK, ReservationInv, DirectionInterlock, Busy,
              PendingMatchesDecision, PlannedEntryHasRoom, HeadwayReserved, NothingPlannedYet

\* The invariant is inductive.
LEMMA ManagerStepInv == ManagerInv /\ [ManagerNext]_managerVars => ManagerInv'
<1> SUFFICES ASSUME ManagerInv, [ManagerNext]_managerVars PROVE ManagerInv'
  OBVIOUS
<1>1. CASE StartServing
  BY <1>1, HarmlessInv DEF StartServing, corridorVars, ManagerInv, ManagerTypeOK
<1>2. ASSUME NEW r \in Resource, NEW d \in Restorable, RestorePending(r, d) \/ RestoreActive(r, d)
      PROVE  ManagerInv'
  <2>1. d \in Decision /\ ~d.planned
    BY ManagerAssumptions DEF Decision
  <2> QED BY <1>2, <2>1, RestorePendingInv, RestoreActiveInv
<1>3. ASSUME NEW r \in Resource, NEW C \in SUBSET {c \in Candidate : c.resource = r},
             ReplaceCandidates(r, C)
      PROVE  ManagerInv'
  <2>1. candidates' \in [Resource -> SUBSET Candidate]
    BY <1>3 DEF ReplaceCandidates, ManagerInv, ManagerTypeOK
  <2> QED BY <1>3, <2>1, HarmlessInv DEF ReplaceCandidates, ManagerInv, ManagerTypeOK
<1>4. ASSUME NEW r \in Resource, NEW now \in Time, NEW c \in candidates[r], PlanNext(r, c, now)
      PROVE  ManagerInv'
  BY <1>4, PlanNextInv
<1>5. ASSUME NEW r \in Resource, NEW t \in Train, NEW now \in Time, ConfirmEntry(r, t, now)
      PROVE  ManagerInv'
  BY <1>5, ConfirmEntryInv
<1>6. ASSUME NEW r \in Resource, CancelPending(r) \/ MarkCorridorExited(r)
      PROVE  ManagerInv'
  BY <1>6, CancelPendingInv, MarkCorridorExitedInv
<1>7. ASSUME NEW i \in Intersection, NEW t \in Train, NEW now \in Time,
             MarkIntersectionCleared({i}, t, now)
      PROVE  ManagerInv'
  <2>1. {i} \in SUBSET Intersection /\ now \in Nat
    BY ReservationAssumptions
  <2>2. ReservationInv'
    BY <1>7, <2>1, ClearInv DEF MarkIntersectionCleared, ManagerInv
  <2> QED
    BY <1>7, <2>2
       DEF MarkIntersectionCleared, corridorVars, ManagerInv, ManagerTypeOK, ReservationInv,
           DirectionInterlock, Busy, PendingMatchesDecision, PlannedEntryHasRoom,
           HeadwayReserved, NothingPlannedYet
<1>8. CASE UNCHANGED managerVars
  BY <1>8, HarmlessInv DEF managerVars, corridorVars, ManagerInv, ManagerTypeOK
<1> QED BY <1>1, <1>2, <1>3, <1>4, <1>5, <1>6, <1>7, <1>8 DEF ManagerNext

\* The manager's state is always well typed; in particular no occupancy
\* exceeds the capacity.
THEOREM ManagerTypeCorrect == ManagerSpec => []ManagerTypeOK
<1>1. ManagerInv => ManagerTypeOK
  BY DEF ManagerInv
<1> QED BY <1>1, ManagerInitInv, ManagerStepInv, PTL DEF ManagerSpec

\* Opposite directions of a corridor are never both busy (planNext,
\* restorePending, restoreActive).
THEOREM InterlockHolds == ManagerSpec => []DirectionInterlock
<1>1. ManagerInv => DirectionInterlock
  BY DEF ManagerInv
<1> QED BY <1>1, ManagerInitInv, ManagerStepInv, PTL DEF ManagerSpec

\* command_pending and pending_decisions_ always agree, and confirmEntry
\* never saturates on a planned release.
THEOREM OutstandingCommandsSound ==
    ManagerSpec => [](PendingMatchesDecision /\ PlannedEntryHasRoom)
<1>1. ManagerInv => PendingMatchesDecision /\ PlannedEntryHasRoom
  BY DEF ManagerInv
<1> QED BY <1>1, ManagerInitInv, ManagerStepInv, PTL DEF ManagerSpec

\* Crossing movements stay mutually exclusive under the manager as well.
THEOREM CrossingsExclusive == ManagerSpec => []NoConflictingReservations
<1>1. ManagerInv => NoConflictingReservations
  BY DEF ManagerInv, ReservationInv
<1> QED BY <1>1, ManagerInitInv, ManagerStepInv, PTL DEF ManagerSpec

\* Entries of planned releases into one resource are a headway apart
\* (planNext checks, confirmEntry records).
THEOREM HeadwayKept == ManagerSpec => EntriesKeepHeadway
<1> DEFINE Spaced == \A r \in Resource :
          (/\ serving /\ lastEntry'[r] # lastEntry[r] /\ lastEntry[r] # 0
           /\ pendingDecision[r] # NoDecision /\ pendingDecision[r].planned) =>
                lastEntry'[r] - lastEntry[r] >= MinimumHeadway
<1>1. ManagerInv /\ [ManagerNext]_managerVars => [Spaced]_managerVars
  <2> SUFFICES ASSUME ManagerInv, ManagerNext, NEW r \in Resource,
                      serving, lastEntry'[r] # lastEntry[r], lastEntry[r] # 0,
                      pendingDecision[r] # NoDecision, pendingDecision[r].planned
               PROVE  lastEntry'[r] - lastEntry[r] >= MinimumHeadway
    OBVIOUS
  <2>1. \E q \in Resource : \E t \in Train, now \in Time :
           PendingFor(q, t) /\ now >= pendingDecision[q].at /\ ConfirmEntry(q, t, now)
    BY DEF ManagerNext, StartServing, RestorePending, RestoreActive, ReplaceCandidates,
           PlanNext, CancelPending, MarkCorridorExited, MarkIntersectionCleared, corridorVars
  <2>2. PICK q \in Resource, t \in Train, now \in Time :
           now >= pendingDecision[q].at /\ ConfirmEntry(q, t, now)
    BY <2>1
  <2>3. lastEntry' = [lastEntry EXCEPT ![q] = now]
    BY <2>2 DEF ConfirmEntry, Enter
  <2>4. q = r /\ lastEntry'[r] = now
    BY <2>3 DEF ManagerInv, ManagerTypeOK
  <2>5. now \in Nat /\ pendingDecision[r].at \in Nat /\ lastEntry[r] \in Nat
    BY ReservationAssumptions DEF ManagerInv, ManagerTypeOK, Decision
  <2> QED
    BY <2>2, <2>4, <2>5, PolicyAssumptions DEF ManagerInv, HeadwayReserved
<1> QED BY <1>1, ManagerInitInv, ManagerStepInv, PTL DEF ManagerSpec, EntriesKeepHeadway

-----------------------------------------------------------------------------
(* Refinement of the single-track interlock.                               *)

\* A step that changes whether resources are busy for at most the resource
\* r, from a state with the interlock to one with it, is a step of the
\* abstract corridor r[1].
LEMMA OneResourceStep ==
    ASSUME DirectionInterlock, DirectionInterlock', NEW r \in Resource,
           \A q \in Resource : q # r => (Busy(q) <=> Busy(q)')
    PROVE  [Interlock!Next]_SetFor
<1> DEFINE c == r[1]
           d == r[2]
<1>1. c \in Corridor /\ d \in Directions /\ r = <<c, d>>
  BY DEF Resource
<1>2. \A e \in Corridor : e # c => SetFor'[e] = SetFor[e]
  <2> SUFFICES ASSUME NEW e \in Corridor, e # c PROVE SetFor'[e] = SetFor[e]
    OBVIOUS
  <2>1. /\ <<e, "FORWARD">> \in Resource /\ <<e, "FORWARD">> # r
        /\ <<e, "REVERSE">> \in Resource /\ <<e, "REVERSE">> # r
    BY <1>1 DEF Resource, Directions
  <2> QED BY <2>1 DEF SetFor
<1>3. /\ SetFor[c] = IF Busy(r) THEN d ELSE IF Busy(Opposite(r)) THEN Opposite(r)[2] ELSE "FREE"
      /\ SetFor'[c] = IF Busy(r)' THEN d
                      ELSE IF Busy(Opposite(r))' THEN Opposite(r)[2] ELSE "FREE"
  <2>1. Opposite(r) = <<c, Opposite(r)[2]>> /\ Opposite(r) \in Resource
    BY <1>1 DEF Opposite, Resource, Directions
  <2>2. ~(Busy(r) /\ Busy(Opposite(r))) /\ ~(Busy(r)' /\ Busy(Opposite(r))')
    BY DEF DirectionInterlock
  <2>3. CASE d = "FORWARD"
    <3>1. r = <<c, "FORWARD">> /\ Opposite(r) = <<c, "REVERSE">>
      BY <1>1, <2>3 DEF Opposite
    <3> QED BY <1>1, <2>2, <2>3, <3>1 DEF SetFor
  <2>4. CASE d = "REVERSE"
    <3>1. r = <<c, "REVERSE">> /\ Opposite(r) = <<c, "FORWARD">>
      BY <1>1, <2>4 DEF Opposite
    <3> QED BY <1>1, <2>2, <2>4, <3>1 DEF SetFor
  <2> QED BY <1>1, <2>3, <2>4 DEF Directions
<1>4. Busy(Opposite(r)) <=> Busy(Opposite(r))'
  BY OppositeFacts
<1>5. d # "FREE"
  BY <1>1 DEF Directions
<1>6. SetFor = [e \in Corridor |-> SetFor[e]] /\ SetFor' = [e \in Corridor |-> SetFor'[e]]
  BY DEF SetFor
<1> HIDE DEF c, d
<1>7. CASE Busy(r) <=> Busy(r)'
  <2>1. SetFor'[c] = SetFor[c]
    BY <1>3, <1>4, <1>7
  <2>2. \A e \in Corridor : SetFor'[e] = SetFor[e]
    BY <1>2, <2>1
  <2> QED BY <1>6, <2>2
<1>8. CASE ~Busy(r) /\ Busy(r)'
  <2>1. ~Busy(Opposite(r))
    BY <1>4, <1>8 DEF DirectionInterlock
  <2>2. SetFor[c] = "FREE" /\ SetFor'[c] = d
    BY <1>3, <1>8, <2>1
  <2>3. SetFor' = [SetFor EXCEPT ![c] = d]
    BY <1>2, <1>6, <2>2
  <2>4. Interlock!Set(c, d)
    BY <2>2, <2>3 DEF Interlock!Set
  <2> QED BY <1>1, <2>4 DEF Interlock!Next
<1>9. CASE Busy(r) /\ ~Busy(r)'
  <2>1. ~Busy(Opposite(r))'
    BY <1>4, <1>9 DEF DirectionInterlock
  <2>2. SetFor[c] = d /\ SetFor'[c] = "FREE"
    BY <1>3, <1>9, <2>1
  <2>3. SetFor' = [SetFor EXCEPT ![c] = "FREE"]
    BY <1>2, <1>6, <2>2
  <2>4. Interlock!Free(c)
    BY <1>5, <2>2, <2>3 DEF Interlock!Free
  <2> QED BY <1>1, <2>4 DEF Interlock!Next
<1> QED BY <1>7, <1>8, <1>9

\* The manager implements CorridorInterlock under the mapping SetFor: every
\* operation changes the direction of at most one corridor, and never from
\* one direction straight to the other.
THEOREM ManagerImplementsInterlock == ManagerSpec => ImplementsInterlock
<1>1. ManagerInit => Interlock!Init
  BY DEF ManagerInit, Interlock!Init, SetFor, Busy, Resource, Directions
<1>2. ManagerInv /\ ManagerInv' /\ [ManagerNext]_managerVars => [Interlock!Next]_SetFor
  <2> SUFFICES ASSUME ManagerInv, ManagerInv', [ManagerNext]_managerVars
               PROVE  [Interlock!Next]_SetFor
    OBVIOUS
  <2>0. DirectionInterlock /\ DirectionInterlock' /\ ManagerTypeOK
    BY DEF ManagerInv
  <2>1. ASSUME NEW r \in Resource, NEW d \in Restorable,
               RestorePending(r, d) \/ RestoreActive(r, d)
        PROVE  [Interlock!Next]_SetFor
    <3>1. \A q \in Resource : q # r => (Busy(q) <=> Busy(q)')
      BY <2>0, <2>1 DEF RestorePending, RestoreActive, Busy, ManagerTypeOK
    <3> QED BY <2>0, <3>1, OneResourceStep
  <2>2. ASSUME NEW r \in Resource, NEW now \in Time, NEW c \in candidates[r], PlanNext(r, c, now)
        PROVE  [Interlock!Next]_SetFor
    <3>1. \A q \in Resource : q # r => (Busy(q) <=> Busy(q)')
      BY <2>0, <2>2 DEF PlanNext, Busy, ManagerTypeOK
    <3> QED BY <2>0, <3>1, OneResourceStep
  <2>3. ASSUME NEW r \in Resource, NEW t \in Train, NEW now \in Time, ConfirmEntry(r, t, now)
        PROVE  [Interlock!Next]_SetFor
    <3>1. \A q \in Resource : q # r => (Busy(q) <=> Busy(q)')
      BY <2>0, <2>3 DEF ConfirmEntry, Enter, Busy, ManagerTypeOK
    <3> QED BY <2>0, <3>1, OneResourceStep
  <2>4. ASSUME NEW r \in Resource, CancelPending(r) \/ MarkCorridorExited(r)
        PROVE  [Interlock!Next]_SetFor
    <3>1. \A q \in Resource : q # r => (Busy(q) <=> Busy(q)')
      BY <2>0, <2>4 DEF CancelPending, MarkCorridorExited, Busy, ManagerTypeOK
    <3> QED BY <2>0, <3>1, OneResourceStep
  <2>5. CASE UNCHANGED <<occupancy, commandPending>>
    BY <2>5 DEF SetFor, Busy
  <2>6. \/ \E r \in Resource, d \in Restorable : RestorePending(r, d) \/ RestoreActive(r, d)
        \/ \E r \in Resource, now \in Time : \E c \in candidates[r] : PlanNext(r, c, now)
        \/ \E r \in Resource, t \in Train, now \in Time : ConfirmEntry(r, t, now)
        \/ \E r \in Resource : CancelPending(r) \/ MarkCorridorExited(r)
        \/ UNCHANGED <<occupancy, commandPending>>
    BY DEF ManagerNext, StartServing, ReplaceCandidates, MarkIntersectionCleared, corridorVars,
           managerVars
  <2> QED BY <2>1, <2>2, <2>3, <2>4, <2>5, <2>6
<1> QED
  BY <1>1, <1>2, ManagerInitInv, ManagerStepInv, PTL
     DEF ManagerSpec, ImplementsInterlock, Interlock!Spec
=============================================================================
