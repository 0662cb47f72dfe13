-------------------------- MODULE AffectedLinePlanner --------------------------
(***************************************************************************)
(* The rolling plan of one corridor resource (AffectedLinePlanner.cpp).    *)
(* plan() predicts when each train reaches the entry and then picks one    *)
(* train after the other from a window above the earliest arrival; every   *)
(* turn of that loop is a step.  The geometry that gives the arrival times *)
(* is an input.  Trains are numbered in the order of their ids.            *)
(*                                                                         *)
(* Scores are scaled by 20 * Horizon * Headway to be integers: the weights *)
(* 0.6 and 0.4 become 12 and 8, the penalty 0.25 becomes 5.                *)
(***************************************************************************)
EXTENDS Integers, FiniteSets

CONSTANTS
    TrainCount,   \* number of trains heading for the resource
    Line,
    Horizon,      \* planning_horizon_ms
    Tolerance,    \* reorder_tolerance_ms
    Spacing,      \* planned_minimum_spacing_ms
    Headway,      \* target_headway_ms, the same for all lines
    ArrivalTime,         \* simulation times considered
    MaxTime       \* the largest uint64_t

ASSUME PlannerAssumptions ==
    /\ TrainCount \in Nat /\ MaxTime \in Nat /\ ArrivalTime \subseteq 0..MaxTime
    /\ {Horizon, Tolerance, Spacing, Headway} \subseteq Nat \ {0}

PlannedTrain == 1..TrainCount
NoLine == "none"
NoRank == TrainCount     \* stands for size_t(-1)

VARIABLES
    now,       \* simulation_now_ms
    eta,       \* estimated_arrival_simulation_ms
    line,      \* line_id
    selected, rank, planned,
    lastLine, lastPlanned,
    done

inputs == <<now, eta, line>>
plannerVars == <<inputs, selected, rank, planned, lastLine, lastPlanned, done>>

\* The first stage of plan(), for any telemetry.
PlanInit ==
    /\ now \in ArrivalTime
    /\ eta \in [PlannedTrain -> {t \in ArrivalTime : t >= now}]
    /\ line \in [PlannedTrain -> Line]
    /\ selected = {} /\ done = FALSE
    /\ rank = [t \in PlannedTrain |-> NoRank] /\ planned = [t \in PlannedTrain |-> 0]
    /\ lastLine = NoLine /\ lastPlanned = 0

Larger(a, b) == IF a > b THEN a ELSE b
Smaller(a, b) == IF a > b THEN b ELSE a

AddSaturated(a, b) == IF b > MaxTime - a THEN MaxTime ELSE a + b

WithinHorizon(t) == eta[t] - now <= Horizon

\* The order of the sorted vector.
Before(s, t) == eta[s] < eta[t] \/ (eta[s] = eta[t] /\ s < t)

-----------------------------------------------------------------------------
(* line_distribution_need, scaled by Headway: positive for a train that    *)
(* another one of its line follows too closely, negative for the follower. *)

Neighbours(t) == {s \in PlannedTrain \ {t} : line[s] = line[t]}

\* The share of the headway that is missing between two trains of a line.
Missing(s, t) ==
    LET gap == eta[t] - eta[s]
    IN  IF gap < Headway THEN Headway - gap ELSE 0

Need(t) ==
    LET ahead == {s \in Neighbours(t) : Before(s, t)}
        behind == {s \in Neighbours(t) : Before(t, s)}
        previous == CHOOSE s \in ahead : \A r \in ahead : r = s \/ Before(r, s)
        next == CHOOSE s \in behind : \A r \in behind : r = s \/ Before(s, r)
        need == (IF behind = {} THEN 0 ELSE Missing(t, next))
                - (IF ahead = {} THEN 0 ELSE Missing(previous, t))
    IN  Larger(-Headway, Smaller(Headway, need))

Score(t) ==
    LET urgency == Horizon - Smaller(Horizon, eta[t] - now)
    IN  12 * urgency * Headway + 8 * Need(t) * Horizon
        - (IF line[t] = lastLine THEN 5 * Horizon * Headway ELSE 0)

-----------------------------------------------------------------------------
(* The selection.                                                          *)

Waiting == {t \in PlannedTrain : t \notin selected /\ WithinHorizon(t)}

\* Faulty variant: no cutoff.
WholeHorizon(trains) == trains

\* The trains that may be next: from the earliest arrival to the cutoff.
Window(trains) ==
    LET earliest == CHOOSE t \in trains : \A s \in trains : s = t \/ Before(t, s)
        cutoff == AddSaturated(eta[earliest], Tolerance)
    IN  {t \in trains : eta[t] <= cutoff}

\* The best score; among equals the smaller id.
Best ==
    LET scored == {[train |-> t, score |-> Score(t)] : t \in Window(Waiting)}
        best == CHOOSE p \in scored : \A q \in scored :
                    p.score > q.score \/ (p.score = q.score /\ p.train <= q.train)
    IN  best.train

\* Faulty variant: entries are only kept in order.
SlotAtLast(t) == Larger(eta[t], lastPlanned)

\* planned_entry_simulation_ms: 0 stands for "no train before".
EntrySlot(t) ==
    Larger(eta[t], IF lastPlanned = 0 THEN eta[t] ELSE AddSaturated(lastPlanned, Spacing))

NextRank == Cardinality(selected)

SelectNext ==
    /\ Waiting # {}
    /\ LET t == Best
       IN  /\ selected' = selected \cup {t}
           /\ rank' = [rank EXCEPT ![t] = NextRank]
           /\ planned' = [planned EXCEPT ![t] = EntrySlot(t)]
           /\ lastPlanned' = EntrySlot(t)
           /\ lastLine' = line[t]
    /\ UNCHANGED <<inputs, done>>

Publish == Waiting = {} /\ ~done /\ done' = TRUE
           /\ UNCHANGED <<inputs, selected, rank, planned, lastLine, lastPlanned>>

PlanNext == SelectNext \/ Publish

PlanSpec == PlanInit /\ [][PlanNext]_plannerVars

-----------------------------------------------------------------------------
(* Properties.                                                             *)

\* Type invariant of the planner; no train is planned before it arrives.
PlannerTypeOK ==
    /\ selected \subseteq PlannedTrain
    /\ rank \in [PlannedTrain -> 0..TrainCount]
    /\ planned \in [PlannedTrain -> 0..MaxTime]
    /\ \A t \in selected : WithinHorizon(t) /\ planned[t] >= eta[t]

\* A train is put before one that arrives earlier only if their arrivals are
\* no more than the tolerance apart, however the scores of a long queue fall.
BoundedOvertaking ==
    \A s, t \in selected : rank[s] < rank[t] => eta[s] <= AddSaturated(eta[t], Tolerance)

\* Planned entries follow the ranks with the minimum spacing, for a running
\* simulation clock and times that do not saturate.
SpacedEntries ==
    \A s, t \in selected :
        (now > 0 /\ rank[s] < rank[t] /\ planned[t] < MaxTime) => planned[t] >= planned[s] + Spacing

=============================================================================
