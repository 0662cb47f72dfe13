----------------------------- MODULE TrainMonitor -----------------------------
(***************************************************************************)
(* The train monitor (src/server/src/TrainMonitor.cpp) under concurrent    *)
(* HTTP requests.  A worker thread reads the server's clock when it        *)
(* handles a request and takes the service lock later, so requests execute *)
(* in any order, each with the clock reading it took before.               *)
(*                                                                         *)
(* Two kinds of request reach the monitor: a telemetry batch               *)
(* (handleTrainSnapshot: upsertBatch, then removeStale) and a command poll *)
(* (handleDispatchCommandQuery: removeStale only, a batch without trains). *)
(* Telemetry itself is reduced to the time it was received at.             *)
(***************************************************************************)
EXTENDS Integers, FiniteSets

CONSTANTS
    Train,
    StaleAfter,    \* config_.train_stale_wall_ms
    MaxClock,      \* bound on the clock
    LastReport,    \* bound: no telemetry is sent after this time
    Workers        \* worker threads of the server

ASSUME MonitorAssumptions ==
    /\ StaleAfter \in Nat \ {0}
    /\ MaxClock \in Nat \ {0} /\ LastReport \in Nat
    /\ Workers \in Nat \ {0}

VARIABLES
    clock,     \* steady_clock in milliseconds
    received,  \* trains_[t].telemetry.received_at_wall_ms, 0 when not monitored
    inflight   \* requests that have read the clock and wait for the lock

monitorVars == <<clock, received, inflight>>

Request == [trains : SUBSET Train, wall : 1..MaxClock]

MonitorInit ==
    /\ clock = 1
    /\ received = [t \in Train |-> 0]
    /\ inflight = {}

Tick ==
    /\ clock < MaxClock
    /\ clock' = clock + 1
    /\ UNCHANGED <<received, inflight>>

\* A worker picks up a request and reads the clock.
Arrive(B) ==
    /\ Cardinality(inflight) < Workers
    /\ B # {} => clock <= LastReport
    /\ inflight' = inflight \cup {[trains |-> B, wall |-> clock]}
    /\ UNCHANGED <<clock, received>>

\* Faulty variant: the batch always wins.
UpsertUnordered(known, q) ==
    [t \in Train |-> IF t \in q.trains THEN q.wall ELSE known[t]]

\* upsertBatch: a packet older than the one stored is ignored.
Upsert(known, q) ==
    [t \in Train |-> IF t \in q.trains /\ q.wall >= known[t] THEN q.wall ELSE known[t]]

\* Faulty variant: only entries from the future are removed.
NeverStale(at, wall) == at > wall

\* The stale test of removeStale.
Stale(at, wall) == at > wall \/ wall - at > StaleAfter

RemoveStale(known, wall) ==
    [t \in Train |-> IF known[t] # 0 /\ Stale(known[t], wall) THEN 0 ELSE known[t]]

\* The request gets the service lock.
Execute(q) ==
    /\ q \in inflight
    /\ received' = RemoveStale(Upsert(received, q), q.wall)
    /\ inflight' = inflight \ {q}
    /\ UNCHANGED clock

MonitorNext ==
    \/ Tick
    \/ \E B \in SUBSET Train : Arrive(B)
    \/ \E q \in inflight : Execute(q)

\* The clock runs, of the workers that wait for the lock one gets it, and the mod
\* polls for commands again and again while it is loaded.
MonitorFairness ==
    /\ WF_monitorVars(Tick)
    /\ WF_monitorVars(Arrive({}))
    /\ WF_monitorVars(\E q \in inflight : Execute(q))

MonitorSpec == MonitorInit /\ [][MonitorNext]_monitorVars /\ MonitorFairness

-----------------------------------------------------------------------------
(* Properties.                                                             *)

\* Type invariant of the monitor.
MonitorTypeOK ==
    /\ clock \in 1..MaxClock
    /\ received \in [Train -> 0..MaxClock]
    /\ inflight \subseteq Request

\* An older packet never overwrites the newer telemetry of a train that is
\* monitored, in whatever order the workers get the lock (upsertBatch).
NoOlderTelemetry ==
    [][\A t \in Train : (received[t] # 0 /\ received'[t] # 0) =>
          received'[t] >= received[t]]_monitorVars

\* A train that sends no more telemetry does not stay in the monitor, and
\* with it its unanswered command: the polls remove it (runMaintenance).
SilentTrainsForgotten == <>[](\A t \in Train : received[t] = 0)

\* "Removes disconnected trains by the server's wall clock" (removeStale):
\* a train that is removed has been silent for longer than the limit.  The
\* code does not keep this when a request with an older clock reading gets
\* the lock after a newer batch.
RemovedTrainsWereSilent ==
    [][\A t \in Train : (received[t] # 0 /\ received'[t] = 0) =>
          clock - received[t] > StaleAfter]_monitorVars
=============================================================================
