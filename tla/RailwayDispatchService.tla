------------------------ MODULE RailwayDispatchService ------------------------
(***************************************************************************)
(* The dispatch service (src/server/src/RailwayDispatchService.cpp) with   *)
(* the phases of its train monitor and the command table of its database.  *)
(*                                                                         *)
(* Every public operation holds the service's mutex_.  The short ones are  *)
(* one step.  updateTrains and the recovery are loops over manager calls:  *)
(* they are several steps, with job naming the loop that holds the lock,   *)
(* and only a crash interleaves with them.  With AnyReport the inputs of   *)
(* the HTTP handlers are arbitrary: lost, late, duplicated and reordered   *)
(* requests are all included; without it the cleared reports are only the  *)
(* first ones that the mod sends for a passage.  A crash between a         *)
(* database commit and the following memory writes leaves what a crash     *)
(* after them leaves.                                                      *)
(*                                                                         *)
(* Wall clocks and positions are abstracted to their verdicts: any set of  *)
(* monitored trains may be found stale, whatever was reported before, and  *)
(* a train may be near any entry, or none, whenever candidates are built.  *)
(***************************************************************************)
EXTENDS DispatchManager, Sequences, FiniteSets, FiniteSetsExt

CONSTANTS
    PlanOrder,        \* the resources in the order the planning loop visits them
    Persistent,       \* enablePersistence was called with MySQL
    CommandRecovery,  \* command_recovery_enabled
    CommitOutcome,    \* how a transaction may end
    AnyReport,        \* FALSE: a train reports clear once, of its own passage
    MaxCommand,       \* bound on command ids
    MaxRevision,      \* bound on topology revisions
    NoCommand, NoRow, NoResource

Outcomes == {"committed", "rolledBack", "inDoubt"}

CommandIds == 1..MaxCommand
Command == [id : CommandIds, train : Train, resource : Resource,
            movements : SUBSET Movement, at : Time, rev : Nat]
Statuses == {"PENDING", "ACCEPTED", "REJECTED", "CLEARED"}
Row == [command : Command, status : Statuses]

ASSUME ServiceAssumptions ==
    /\ PlanOrder \in Seq(Resource) /\ IsFiniteSet(Corridor)
    /\ Persistent \in BOOLEAN /\ CommandRecovery \in BOOLEAN /\ AnyReport \in BOOLEAN
    /\ CommitOutcome \subseteq Outcomes
    /\ MaxCommand \in Nat /\ MaxRevision \in Nat
    /\ NoCommand \notin Command /\ NoRow \notin Row /\ NoResource \notin Resource

VARIABLES
    phase,      \* MonitoredTrain.phase; WATCHED: one of the three build() recomputes
    cmd,        \* commands_by_train_
    act,        \* active_by_train_
    nextId,     \* next_command_id_
    revision,   \* topology revision in memory
    stored,     \* newest topology revision in the database
    rows,       \* dispatch_commands: the payload and the status column
    job,        \* the loop that holds mutex_, or idle
    cursor,     \* its position
    cycleTime,  \* simulation_now_ms of the cycle
    handling    \* the trains the loop still has to handle

commandVars == <<cmd, act, nextId>>
databaseVars == <<stored, rows>>
jobVars == <<job, cursor, cycleTime, handling>>
serviceVars == <<managerVars, phase, commandVars, revision, databaseVars, jobVars>>

Idle == serving /\ job = "idle"
Monitored == {t \in Train : phase[t] # "ABSENT"}

\* The lock is given back; the loop variables are dead.
Unlock ==
    /\ job' = "idle" /\ cursor' = 0 /\ cycleTime' = 0 /\ handling' = {}

-----------------------------------------------------------------------------
(* The database: a transaction commits, rolls back, or commits although    *)
(* the connection is lost before the answer arrives.                       *)

DatabaseOutcome == IF Persistent THEN CommitOutcome ELSE {"committed"}
Applied(o) == Persistent /\ o # "rolledBack"
Succeeded(o) == o = "committed"

\* persistDispatchCycle: a duplicate key only replaces the payload.
InsertCommands(C) ==
    [i \in CommandIds |->
        IF \E c \in C : c.id = i
          THEN [command |-> CHOOSE c \in C : c.id = i,
                status |-> IF rows[i] = NoRow THEN "PENDING" ELSE rows[i].status]
          ELSE rows[i]]

PersistTopology(rev, o) == IF Applied(o) THEN rev ELSE stored

\* UPDATE ... WHERE command_id = i AND status IN From
UpdateStatus(i, From, to) ==
    [rows EXCEPT ![i] = IF @ # NoRow /\ @.status \in From
                          THEN [@ EXCEPT !.status = to] ELSE @]

\* Faulty variant: only unanswered commands are loaded.
PendingRowsOnly(status) ==
    {i \in CommandIds : status = "PENDING" /\ rows[i] # NoRow /\ rows[i].status = status}

\* The rows loadRecoveryState returns with a given status.
RecoveredIds(status) ==
    IF Persistent /\ CommandRecovery
      THEN {i \in CommandIds : rows[i] # NoRow /\ rows[i].status = status}
      ELSE {}

StoredIds == {i \in CommandIds : rows[i] # NoRow}

-----------------------------------------------------------------------------
(* Start and restart.                                                      *)

\* Empty memory, the topology that the database holds (without one, the
\* topology the game uploads again), and a newly built manager.
FreshProcess ==
    /\ phase' = [t \in Train |-> "ABSENT"]
    /\ cmd' = [t \in Train |-> NoCommand]
    /\ act' = [t \in Train |-> NoCommand]
    /\ nextId' = 1
    /\ revision' = IF Persistent THEN stored ELSE 1

\* rebuildDispatchManagerLocked.
RebuildDispatchManager ==
    /\ registered' = Movement
    /\ holder' = NoHolders
    /\ reservedAt' = NoReservationTimes
    /\ lastClear' = NoClearings
    /\ occupancy' = [r \in Resource |-> 0]
    /\ commandPending' = [r \in Resource |-> FALSE]
    /\ lastEntry' = [r \in Resource |-> 0]
    /\ candidates' = [r \in Resource |-> {}]
    /\ pendingDecision' = [r \in Resource |-> NoDecision]
    /\ lastReleasedLine' = [r \in Resource |-> NoLine]
    /\ consecutive' = [r \in Resource |-> 0]

\* The process dies at any point and is started again.
Restart ==
    /\ FreshProcess
    /\ RebuildDispatchManager
    /\ serving' = FALSE
    /\ job' = "restorePending" /\ cursor' = 0 /\ cycleTime' = 0 /\ handling' = {}
    /\ UNCHANGED databaseVars

\* The rows the current recovery loop has not handled yet.
Unrestored ==
    {i \in RecoveredIds(IF job = "restorePending" THEN "PENDING" ELSE "ACCEPTED") : i > cursor}

Restoring == job \in {"restorePending", "restoreActive"}

RestoredDecision(c) ==
    [train |-> c.train, movements |-> c.movements, at |-> c.at, planned |-> FALSE]

\* One round of a recovery loop, in the order of the command sequence.
RestoreCommand ==
    /\ Restoring /\ Unrestored # {}
    /\ LET i == Min(Unrestored)
           c == rows[i].command
           d == RestoredDecision(c)
       IN  /\ c.rev = revision
           /\ \/ /\ job = "restorePending"
                 /\ RestorePending(c.resource, d)
                 /\ cmd' = [cmd EXCEPT ![c.train] = c]
                 /\ UNCHANGED act
              \/ /\ job = "restoreActive"
                 /\ RestoreActive(c.resource, d)
                 /\ act' = [act EXCEPT ![c.train] = c]
                 /\ UNCHANGED cmd
           /\ cursor' = i
    /\ UNCHANGED <<phase, nextId, revision, databaseVars, job, cycleTime, handling>>

\* A command that cannot be rebuilt: the process exits.
RefuseToStart ==
    /\ Restoring /\ Unrestored # {}
    /\ LET c == rows[Min(Unrestored)].command
       IN  \/ c.rev # revision
           \/ OpposingBusy(c.resource)
           \/ job = "restorePending" /\ commandPending[c.resource]
           \/ ~CanReserve(c.movements, c.at)
    /\ job' = "refused" /\ cursor' = 0
    /\ UNCHANGED <<managerVars, phase, commandVars, revision, databaseVars, cycleTime, handling>>

\* All pending commands are restored: go on with the accepted ones.
PendingRestored ==
    /\ job = "restorePending" /\ Unrestored = {}
    /\ job' = "restoreActive" /\ cursor' = 0
    /\ UNCHANGED <<managerVars, phase, commandVars, revision, databaseVars, cycleTime, handling>>

\* Faulty variant: the command sequence starts again with every process.
SequenceFromOne == nextId

\* The next command id: behind every id the database has ever stored.
RecoveredSequence == Max({nextId} \cup {i + 1 : i \in StoredIds})

RecoveryDone ==
    /\ job = "restoreActive" /\ Unrestored = {}
    /\ StartServing
    /\ nextId' = RecoveredSequence
    /\ Unlock
    /\ UNCHANGED <<phase, cmd, act, revision, databaseVars>>

-----------------------------------------------------------------------------
(* Telemetry: updateTrains and the maintenance run of the command poll.    *)

\* The trains of B report; the trains of gone are found stale, also when a
\* newer packet of theirs was overtaken by this one.  Commands of stale
\* trains are cancelled next.
Observe(B, gone) ==
    /\ phase' = [t \in Train |-> IF t \in gone THEN "ABSENT"
                                 ELSE IF t \in B /\ phase[t] = "ABSENT" THEN "WATCHED"
                                 ELSE phase[t]]
    /\ handling' = {t \in gone : cmd[t] # NoCommand}

UpdateTrains(B, gone, now) ==
    /\ Idle
    /\ nextId + Cardinality(Corridor) <= MaxCommand + 1
    /\ Observe(B, gone)
    /\ job' = "cleanup" /\ cycleTime' = now
    /\ UNCHANGED <<managerVars, commandVars, revision, databaseVars, cursor>>

RunMaintenance(gone) ==
    /\ Idle
    /\ Observe({}, gone)
    /\ job' = "maintain"
    /\ UNCHANGED <<managerVars, commandVars, revision, databaseVars, cursor, cycleTime>>

\* cancelPending by resource: false, and nothing done, without a decision.
Withdraw(r) ==
    IF pendingDecision[r] # NoDecision THEN CancelPending(r) ELSE UNCHANGED managerVars

\* Faulty variant: the command stays queryable after its release is withdrawn.
KeepStaleCommand(t) ==
    /\ job \in {"cleanup", "maintain"}
    /\ t \in handling
    /\ Withdraw(cmd[t].resource)
    /\ handling' = handling \ {t}
    /\ UNCHANGED <<phase, commandVars, revision, databaseVars, job, cursor, cycleTime>>

\* cleanupStaleLocked for a removed train with a command.  Its passage, if
\* it has one, and its row in the database are left alone.
CancelStale(t) ==
    /\ job \in {"cleanup", "maintain"}
    /\ t \in handling
    /\ Withdraw(cmd[t].resource)
    /\ cmd' = [cmd EXCEPT ![t] = NoCommand]
    /\ handling' = handling \ {t}
    /\ UNCHANGED <<phase, act, nextId, revision, databaseVars, job, cursor, cycleTime>>

MaintenanceDone ==
    /\ job = "maintain" /\ handling = {}
    /\ Unlock
    /\ UNCHANGED <<managerVars, phase, commandVars, revision, databaseVars>>

\* build: trains whose phase is driven by ACK and cleared are no candidates,
\* and a train is a candidate at its nearest entry only.
Buildable == {C \in SUBSET Candidate :
                 \A c \in C : /\ phase[c.train] = "WATCHED"
                              /\ \A d \in C : d.train = c.train => d = c}

\* The candidates of every resource are replaced, also by none.
RefreshCandidates(C) ==
    /\ job = "cleanup" /\ handling = {}
    /\ candidates' = [r \in Resource |-> {c \in C : c.resource = r}]
    /\ job' = "plan" /\ cursor' = 1
    /\ UNCHANGED <<reservationVars, occupancy, commandPending, lastEntry, pendingDecision,
                   lastReleasedLine, consecutive, serving, phase, commandVars, revision,
                   databaseVars, cycleTime, handling>>

Planning == job = "plan" /\ cursor <= Len(PlanOrder)

\* planNext holds: nobody may be released into this resource.
PlanHold ==
    /\ Planning
    /\ Releasable(PlanOrder[cursor], cycleTime) = {}
    /\ cursor' = cursor + 1
    /\ UNCHANGED <<managerVars, phase, commandVars, revision, databaseVars, job,
                   cycleTime, handling>>

\* planNext releases candidate c.  Its command gets the next id, unless the
\* train has a command already: then the decision is not kept.
PlanRelease(c) ==
    /\ Planning
    /\ PlanNext(PlanOrder[cursor], c, cycleTime)
    /\ \/ /\ cmd[c.train] = NoCommand
          /\ cmd' = [cmd EXCEPT ![c.train] =
                [id |-> nextId, train |-> c.train, resource |-> c.resource,
                 movements |-> c.movements, at |-> cycleTime, rev |-> revision]]
          /\ nextId' = nextId + 1
          /\ phase' = [phase EXCEPT ![c.train] = "RELEASE_PENDING"]
          /\ handling' = handling \cup {c.train}
       \/ /\ cmd[c.train] # NoCommand
          /\ UNCHANGED <<cmd, nextId, phase, handling>>
    /\ cursor' = cursor + 1
    /\ UNCHANGED <<act, revision, databaseVars, job, cycleTime>>

\* Faulty variant: a failed write is ignored.
IgnorePersistenceFailure(o) ==
    /\ job = "plan" /\ cursor > Len(PlanOrder)
    /\ rows' = IF Applied(o) THEN InsertCommands({cmd[t] : t \in handling}) ELSE rows
    /\ Unlock
    /\ UNCHANGED <<managerVars, phase, commandVars, revision, stored>>

\* The issued commands are written; without an answer they are withdrawn.
PersistCycle(o) ==
    /\ job = "plan" /\ cursor > Len(PlanOrder)
    /\ rows' = IF Applied(o) THEN InsertCommands({cmd[t] : t \in handling}) ELSE rows
    /\ \/ Succeeded(o) /\ Unlock
       \/ ~Succeeded(o) /\ job' = "rollback" /\ UNCHANGED <<cursor, cycleTime, handling>>
    /\ UNCHANGED <<managerVars, phase, commandVars, revision, stored>>

\* A command that was not written must not reach the game.
RollbackCommand(t) ==
    /\ job = "rollback" /\ t \in handling
    /\ Withdraw(cmd[t].resource)
    /\ cmd' = [cmd EXCEPT ![t] = NoCommand]
    /\ handling' = handling \ {t}
    /\ UNCHANGED <<phase, act, nextId, revision, databaseVars, job, cursor, cycleTime>>

RollbackDone ==
    /\ job = "rollback" /\ handling = {}
    /\ Unlock
    /\ UNCHANGED <<managerVars, phase, commandVars, revision, databaseVars>>

-----------------------------------------------------------------------------
(* The reports of the game.                                                *)

\* setPhase does nothing for a train that is not monitored.
SetPhase(t, p) ==
    phase' = IF t \in Monitored THEN [phase EXCEPT ![t] = p] ELSE phase

\* Nothing in memory changes.
MemoryUnchanged == UNCHANGED <<managerVars, phase, commandVars>>

\* An ACK for the command of t.  The database is written first.
AcceptCommand(t, now, o) ==
    /\ Idle /\ cmd[t] # NoCommand
    /\ rows' = IF Applied(o) THEN UpdateStatus(cmd[t].id, {"PENDING"}, "ACCEPTED") ELSE rows
    /\ \/ /\ Succeeded(o) /\ PendingFor(cmd[t].resource, t)
          /\ ConfirmEntry(cmd[t].resource, t, now)
          /\ act' = [act EXCEPT ![t] = cmd[t]]
          /\ cmd' = [cmd EXCEPT ![t] = NoCommand]
          /\ SetPhase(t, "INSIDE_RESOURCE")
          /\ UNCHANGED nextId
       \/ ~(Succeeded(o) /\ PendingFor(cmd[t].resource, t)) /\ MemoryUnchanged
    /\ UNCHANGED <<revision, stored, jobVars>>

RejectCommand(t, o) ==
    /\ Idle /\ cmd[t] # NoCommand
    /\ rows' = IF Applied(o) THEN UpdateStatus(cmd[t].id, {"PENDING"}, "REJECTED") ELSE rows
    /\ \/ /\ Succeeded(o)
          /\ CancelPending(cmd[t].resource)
          /\ cmd' = [cmd EXCEPT ![t] = NoCommand]
          /\ SetPhase(t, "WATCHED")
          /\ UNCHANGED <<act, nextId>>
       \/ ~(Succeeded(o) /\ pendingDecision[cmd[t].resource] # NoDecision) /\ MemoryUnchanged
    /\ UNCHANGED <<revision, stored, jobVars>>

\* markCorridorExited takes a train off the count of r.
Exits(r) == r # NoResource /\ occupancy[r] > 0

\* The tail of t has left resource r, if one is named, and the crossings I;
\* what is not named is taken from the active passage.  The exit is counted
\* whether or not t has an active passage, and whichever resource that is.
ResourceCleared(t, r, I, now, o) ==
    LET passing == act[t] # NoCommand
        left == IF r = NoResource /\ passing THEN act[t].resource ELSE r
        crossed == IF I = {} /\ passing THEN {IntersectionOf[m] : m \in act[t].movements} ELSE I
        changed == Exits(left) \/ \E i \in crossed : HeldIn(i, t) # {}
    IN  /\ Idle
        /\ passing \/ Succeeded(o)
        /\ rows' = IF passing /\ Applied(o)
                     THEN UpdateStatus(act[t].id, {"ACCEPTED", "CLEARED"}, "CLEARED") ELSE rows
        /\ \/ /\ Succeeded(o) /\ changed
              /\ occupancy' = IF Exits(left) THEN [occupancy EXCEPT ![left] = @ - 1] ELSE occupancy
              /\ MarkCleared(crossed, t, now)
              /\ SetPhase(t, "WATCHED")
              /\ act' = [act EXCEPT ![t] = NoCommand]
              /\ UNCHANGED <<commandPending, lastEntry, candidates, pendingDecision,
                             lastReleasedLine, consecutive, serving, cmd, nextId>>
           \/ ~(Succeeded(o) /\ changed) /\ MemoryUnchanged
        /\ UNCHANGED <<revision, stored, jobVars>>

\* A changed set of routes.  It is refused while a command or a passage is
\* known; a failed write of the new topology is reported but not undone.
ReplaceRoutes(o) ==
    /\ Idle
    /\ \A t \in Train : cmd[t] = NoCommand /\ act[t] = NoCommand
    /\ revision < MaxRevision
    /\ revision' = revision + 1
    /\ phase' = [t \in Train |-> IF t \in Monitored THEN "WATCHED" ELSE "ABSENT"]
    /\ RebuildDispatchManager
    /\ stored' = PersistTopology(revision + 1, o)
    /\ UNCHANGED <<serving, commandVars, rows, jobVars>>

-----------------------------------------------------------------------------
\* A process that starts on a database with the first topology and no commands.
ServiceInit ==
    /\ ManagerInit
    /\ phase = [t \in Train |-> "ABSENT"]
    /\ cmd = [t \in Train |-> NoCommand]
    /\ act = [t \in Train |-> NoCommand]
    /\ nextId = 1 /\ revision = 1 /\ stored = 1
    /\ rows = [i \in CommandIds |-> NoRow]
    /\ job = "restorePending" /\ cursor = 0 /\ cycleTime = 0 /\ handling = {}

\* The cleared report of the mod names the train and the resource only.
OwnPassage(t, r, I) == act[t] # NoCommand /\ r = act[t].resource /\ I = {}

ServiceNext ==
    \/ Restart \/ RestoreCommand \/ RefuseToStart \/ PendingRestored \/ RecoveryDone
    \/ \E gone \in SUBSET Monitored : \E B \in SUBSET (Train \ gone), now \in Time :
          UpdateTrains(B, gone, now)
    \/ \E gone \in SUBSET Monitored : gone # {} /\ RunMaintenance(gone)
    \/ \E t \in Train : CancelStale(t) \/ RollbackCommand(t)
    \/ MaintenanceDone \/ RollbackDone
    \/ job = "cleanup" /\ \E C \in Buildable : RefreshCandidates(C)
    \/ PlanHold
    \/ Planning /\ \E c \in candidates[PlanOrder[cursor]] : PlanRelease(c)
    \/ \E o \in DatabaseOutcome :
          \/ PersistCycle(o)
          \/ ReplaceRoutes(o)
          \/ \E t \in Train, now \in Time :
                \/ cmd[t] # NoCommand /\ now >= cmd[t].at /\ AcceptCommand(t, now, o)
                \/ RejectCommand(t, o)
                \/ \E r \in Resource \cup {NoResource}, I \in SUBSET Intersection :
                      /\ AnyReport \/ OwnPassage(t, r, I)
                      /\ ResourceCleared(t, r, I, now, o)

ServiceSpec == ServiceInit /\ [][ServiceNext]_serviceVars

-----------------------------------------------------------------------------
(* Properties.                                                             *)

\* Type invariant of the service.
ServiceTypeOK ==
    /\ ManagerTypeOK
    /\ phase \in [Train -> {"ABSENT", "WATCHED", "RELEASE_PENDING", "INSIDE_RESOURCE"}]
    /\ cmd \in [Train -> Command \cup {NoCommand}]
    /\ act \in [Train -> Command \cup {NoCommand}]
    /\ nextId \in 1..(MaxCommand + 1)
    /\ revision \in Nat /\ stored \in Nat
    /\ rows \in [CommandIds -> Row \cup {NoRow}]
    /\ job \in {"idle", "cleanup", "maintain", "plan", "rollback", "restorePending",
                "restoreActive", "refused"}
    /\ cursor \in Nat
    /\ cycleTime \in Time \cup {0}
    /\ handling \subseteq Train

\* A command the service offers can still be answered: the manager waits
\* for exactly this train and path, so confirmEntry and cancelPending cannot
\* fail after acknowledge has committed the ACK to the database.  Stale
\* cleanup, rollback, duplicate reports and recovery all cancel by resource
\* or by train and could hit somebody else's command.
CommandsAnswerable ==
    \A t \in Train : cmd[t] # NoCommand =>
        LET d == pendingDecision[cmd[t].resource]
        IN  d # NoDecision /\ d.train = t /\ d.movements = cmd[t].movements

\* A command that the game can see is in the database with the same
\* content, so that a restart can rebuild it ("commands MySQL has not
\* committed must not be exposed", updateTrains).
ExposedCommandsDurable ==
    (Persistent /\ Idle) => \A t \in Train : cmd[t] # NoCommand =>
        /\ rows[cmd[t].id] # NoRow
        /\ rows[cmd[t].id].command = cmd[t]
        /\ rows[cmd[t].id].status # "CLEARED"

\* A stored command is never rewritten into another one, also not by a
\* process that restarts its command sequence, and its status only moves
\* from PENDING to an answer and from ACCEPTED to CLEARED, whatever
\* transactions were left in doubt.
RowsOnlyAdvance ==
    [][\A i \in CommandIds : (rows[i] # NoRow /\ rows'[i] # rows[i]) =>
          /\ rows'[i] # NoRow
          /\ rows'[i].command = rows[i].command
          /\ <<rows[i].status, rows'[i].status>> \in
                {<<"PENDING", "ACCEPTED">>, <<"PENDING", "REJECTED">>, <<"ACCEPTED", "CLEARED">>}
      ]_serviceVars

\* After a restart no passage the database knows of is unprotected: when
\* the server starts to serve, every unanswered command blocks its resource
\* and every accepted one is counted in it, and their paths are reserved.
RestartKeepsPromises ==
    [][(Persistent /\ CommandRecovery /\ ~serving /\ serving') =>
          \A i \in StoredIds : rows[i].status \in {"PENDING", "ACCEPTED"} =>
              LET c == rows[i].command
              IN  /\ IF rows[i].status = "PENDING" THEN commandPending'[c.resource]
                                                   ELSE occupancy'[c.resource] > 0
                  /\ \A m \in c.movements : holder'[m] = c.train]_serviceVars

-----------------------------------------------------------------------------
(* Statements of the source that the code does not keep.                   *)

\* "Trains that were sent a command or are inside a resource ... must not
\* rejoin the candidate set" (DispatchCandidateBuilder::build).
ControlledTrainsNotCandidates ==
    (job = "plan" /\ cursor = 1) => \A r \in Resource : \A c \in candidates[r] :
        cmd[c.train] = NoCommand /\ act[c.train] = NoCommand

\* "Commands can be queried until their ACK" (RailwayDispatchService.h): a
\* resource that waits for an ACK has a command the game can query.
PendingCommandsQueryable ==
    Idle => \A r \in Resource : commandPending[r] =>
        \E t \in Train : cmd[t] # NoCommand /\ cmd[t].resource = r

\* A train in phase RELEASE_PENDING is "driven by ACK/clear events"
\* (DispatchCandidateBuilder::build), so it has a command to be ACKed.
PendingPhaseHasCommand ==
    Idle => \A t \in Train : phase[t] = "RELEASE_PENDING" => cmd[t] # NoCommand
=============================================================================
