-------------------- MODULE RailwayDispatchServiceProofs --------------------
(***************************************************************************)
(* Proofs about RailwayDispatchService, for every network, every set of    *)
(* trains, every outcome of the transactions and every order of requests   *)
(* and restarts.                                                           *)
(***************************************************************************)
EXTENDS RailwayDispatchService, DispatchManagerProofs, FiniteSetTheorems

-----------------------------------------------------------------------------
(* The inductive invariant.                                                *)

\* A candidate is filed under its own resource, and a command or passage
\* under its own train.
FiledByKey ==
    /\ \A r \in Resource : \A c \in candidates[r] : c.resource = r
    /\ \A t \in Train : /\ cmd[t] # NoCommand => cmd[t].train = t
                        /\ act[t] # NoCommand => act[t].train = t
    /\ \A i \in CommandIds : rows[i] # NoRow => rows[i].command.id = i

\* Where the loops stand.
JobOK ==
    /\ serving <=> job \notin {"restorePending", "restoreActive", "refused"}
    /\ job \in {"cleanup", "plan"} => cycleTime \in Time
    /\ job = "plan" => cursor # 0
    /\ job \notin {"cleanup", "maintain", "plan", "rollback"} => handling = {}
    /\ \A t \in handling : cmd[t] # NoCommand

\* The corridors into which the planning loop may still release a train.
Unpromised ==
    {c \in Corridor : ~commandPending[<<c, "FORWARD">>] /\ ~commandPending[<<c, "REVERSE">>]}

\* The bound on command ids is only met between two cycles: one cycle
\* releases at most one train into each corridor.
SequenceBounded ==
    /\ job = "cleanup" => nextId + Cardinality(Corridor) <= MaxCommand + 1
    /\ job = "plan" => nextId + Cardinality(Unpromised) <= MaxCommand + 1

\* While the server runs, its next command id is behind every id in use.
SequenceAhead ==
    serving => /\ \A t \in Train : /\ cmd[t] # NoCommand => cmd[t].id < nextId
                                   /\ act[t] # NoCommand => act[t].id < nextId
               /\ \A i \in StoredIds : i < nextId

\* No id is used twice.
IdsUnique ==
    \A t, u \in Train : cmd[t] # NoCommand =>
        /\ cmd[u] # NoCommand /\ cmd[u].id = cmd[t].id => u = t
        /\ act[u] # NoCommand => act[u].id # cmd[t].id

\* Commands that are not being issued right now are in the database; those
\* that are will get a new row.
CommandsStored ==
    /\ Persistent => \A t \in Train :
          (cmd[t] # NoCommand /\ ~(job \in {"plan", "rollback"} /\ t \in handling)) =>
              /\ rows[cmd[t].id] # NoRow
              /\ rows[cmd[t].id].command = cmd[t]
              /\ rows[cmd[t].id].status # "CLEARED"
    /\ job = "plan" => \A t \in handling : rows[cmd[t].id] = NoRow

\* A row with its promise kept by the manager.
Protected(i) ==
    LET c == rows[i].command
    IN  /\ rows[i].status = "PENDING" => commandPending[c.resource]
        /\ rows[i].status = "ACCEPTED" => occupancy[c.resource] > 0
        /\ \A m \in c.movements : holder[m] = c.train

\* How far the recovery has come: it has only taken over what the database
\* says, and every row it has passed is protected.
RecoveryProgress ==
    ~serving =>
        /\ \A t \in Train :
              /\ cmd[t] # NoCommand => /\ rows[cmd[t].id] # NoRow
                                       /\ rows[cmd[t].id].command = cmd[t]
                                       /\ rows[cmd[t].id].status = "PENDING"
              /\ act[t] # NoCommand => /\ rows[act[t].id] # NoRow
                                       /\ rows[act[t].id].command = act[t]
                                       /\ rows[act[t].id].status = "ACCEPTED"
        /\ (Persistent /\ CommandRecovery) => \A i \in StoredIds :
              (\/ job = "restorePending" /\ rows[i].status = "PENDING" /\ i <= cursor
               \/ job = "restoreActive" /\ rows[i].status = "PENDING"
               \/ job = "restoreActive" /\ rows[i].status = "ACCEPTED" /\ i <= cursor)
              => Protected(i)

\* The inductive invariant.
ServiceInv ==
    /\ ServiceTypeOK
    /\ ManagerInv
    /\ CommandsAnswerable
    /\ FiledByKey
    /\ JobOK
    /\ SequenceBounded
    /\ SequenceAhead
    /\ IdsUnique
    /\ CommandsStored
    /\ RecoveryProgress

-----------------------------------------------------------------------------
(* Numbers.                                                                *)

\* Every set of naturals that is not empty has a least element.
LEMMA NatMinExists ==
    ASSUME NEW S \in SUBSET Nat, S # {}
    PROVE  \E x \in S : \A y \in S : x <= y
<1> DEFINE Less == {p \in Nat \X Nat : p[1] < p[2]}
<1>1. IsWellFoundedOn(Less, Nat)
  BY NatLessThanWellFounded DEF OpToRel
<1> HIDE DEF Less
<1>2. PICK x \in S : \A y \in S : ~(<<y, x>> \in Less)
  BY <1>1, WFMin
<1>3. ASSUME NEW y \in S PROVE x <= y
  <2>1. x \in Nat /\ y \in Nat /\ <<y, x>> \in Nat \X Nat
    OBVIOUS
  <2>2. ~(y < x)
    BY <1>2, <2>1 DEF Less
  <2> QED BY <2>1, <2>2
<1> QED BY <1>3

\* What Min returns for the ids that are left to restore.
LEMMA MinFacts ==
    ASSUME NEW S \in SUBSET Nat, S # {}
    PROVE  Min(S) \in S /\ \A y \in S : Min(S) <= y
BY NatMinExists DEF Min

\* What Max returns for the ids the next command has to follow.
LEMMA MaxFacts ==
    ASSUME NEW n \in Nat, NEW S \in SUBSET 0..n, S # {}
    PROVE  Max(S) \in S /\ \A y \in S : Max(S) >= y
<1> DEFINE Above == {m \in Nat : \A y \in S : y <= m}
<1>1. Above \in SUBSET Nat /\ n \in Above
  OBVIOUS
<1>2. PICK m \in Above : \A k \in Above : m <= k
  BY <1>1, NatMinExists
<1>3. m \in S
  <2> SUFFICES ASSUME m \notin S PROVE FALSE
    OBVIOUS
  <2>1. PICK s \in S : TRUE
    OBVIOUS
  <2>2. m \in Nat /\ m # 0
    BY <2>1
  <2>3. m - 1 \in Above
    BY <2>2
  <2> QED BY <1>2, <2>2, <2>3
<1>4. \A y \in S : m >= y
  OBVIOUS
<1> QED BY <1>3, <1>4 DEF Max

-----------------------------------------------------------------------------
(* Facts about the state.                                                  *)

\* The fields of a command.
LEMMA CommandFacts ==
    \A c \in Command : /\ c.id \in CommandIds /\ c.train \in Train /\ c.resource \in Resource
                       /\ c.movements \in SUBSET Movement /\ c.at \in Time /\ c.rev \in Nat
                       /\ c # NoCommand
BY ServiceAssumptions DEF Command

\* A row has a command and a status and can be told from no row.
LEMMA RowFacts ==
    \A w \in Row : w.command \in Command /\ w.status \in Statuses /\ w # NoRow
BY ServiceAssumptions DEF Row

\* What a step leaves true that touches neither the manager nor the
\* commands nor the database.
LEMMA FrameInv ==
    ASSUME ServiceInv, UNCHANGED <<managerVars, commandVars, revision, databaseVars>>
    PROVE  /\ ManagerInv' /\ CommandsAnswerable' /\ FiledByKey' /\ SequenceAhead' /\ IdsUnique'
           /\ Unpromised' = Unpromised /\ StoredIds' = StoredIds
           /\ \A i \in StoredIds : Protected(i)' <=> Protected(i)
<1>0. /\ UNCHANGED <<reservationVars, occupancy, commandPending, lastEntry, candidates,
                     pendingDecision, lastReleasedLine, consecutive, serving>>
      /\ UNCHANGED <<holder, cmd, act, nextId, rows>>
  BY DEF managerVars, corridorVars, commandVars, databaseVars, reservationVars
<1>1. ManagerInv'
  BY <1>0, HarmlessInv DEF ServiceInv, ManagerInv, ManagerTypeOK
<1>2. CommandsAnswerable' /\ FiledByKey' /\ IdsUnique'
  BY <1>0 DEF ServiceInv, CommandsAnswerable, FiledByKey, IdsUnique
<1>3. SequenceAhead' /\ StoredIds' = StoredIds /\ Unpromised' = Unpromised
  BY <1>0 DEF ServiceInv, SequenceAhead, StoredIds, Unpromised
<1>4. \A i \in StoredIds : Protected(i)' <=> Protected(i)
  BY <1>0 DEF Protected
<1> QED BY <1>1, <1>2, <1>3, <1>4

-----------------------------------------------------------------------------
(* The loops, as far as they only move on.                                 *)

\* The start of a telemetry cycle or a maintenance run keeps the invariant.
LEMMA ObserveInv ==
    ASSUME ServiceInv, NEW B \in SUBSET Train, NEW gone \in SUBSET Train, NEW now,
           (now \in Time /\ UpdateTrains(B, gone, now)) \/ RunMaintenance(gone)
    PROVE  ServiceInv'
<1> USE DEF ServiceInv
<1>0. /\ UNCHANGED <<managerVars, commandVars, revision, databaseVars, cursor>>
      /\ serving /\ job = "idle" /\ serving' = serving
      /\ job' \in {"cleanup", "maintain"}
      /\ handling' = {t \in gone : cmd[t] # NoCommand}
      /\ job' = "cleanup" => cycleTime' \in Time /\ nextId + Cardinality(Corridor) <= MaxCommand + 1
      /\ cycleTime' \in Time \cup {0}
      /\ UNCHANGED <<cmd, act, nextId, stored, rows>>
  BY DEF UpdateTrains, RunMaintenance, Observe, Idle, managerVars, commandVars, databaseVars,
         ServiceTypeOK
<1>1. ManagerInv' /\ CommandsAnswerable' /\ FiledByKey' /\ SequenceAhead' /\ IdsUnique'
  BY <1>0, FrameInv
<1>2. ServiceTypeOK'
  <2>1. phase' \in [Train -> {"ABSENT", "WATCHED", "RELEASE_PENDING", "INSIDE_RESOURCE"}]
    BY DEF UpdateTrains, RunMaintenance, Observe, ServiceTypeOK
  <2>2. handling' \subseteq Train
    BY <1>0
  <2> QED BY <1>0, <1>1, <2>1, <2>2 DEF ServiceTypeOK, ManagerInv
<1>3. JobOK' /\ SequenceBounded'
  BY <1>0 DEF JobOK, SequenceBounded
<1>4. CommandsStored' /\ RecoveryProgress'
  BY <1>0 DEF CommandsStored, RecoveryProgress
<1> QED BY <1>1, <1>2, <1>3, <1>4

\* The end of a loop keeps the invariant.
LEMMA LoopEndInv ==
    ASSUME ServiceInv, MaintenanceDone \/ RollbackDone
    PROVE  ServiceInv'
<1> USE DEF ServiceInv
<1>0. /\ UNCHANGED <<managerVars, phase, commandVars, revision, databaseVars>>
      /\ job \in {"maintain", "rollback"} /\ handling = {} /\ serving' = serving
      /\ job' = "idle" /\ handling' = {} /\ cursor' = 0 /\ cycleTime' = 0
      /\ UNCHANGED <<cmd, act, nextId, stored, rows>>
  BY DEF MaintenanceDone, RollbackDone, Unlock, managerVars, commandVars, databaseVars
<1>1. ManagerInv' /\ CommandsAnswerable' /\ FiledByKey' /\ SequenceAhead' /\ IdsUnique'
  BY <1>0, FrameInv
<1>2. ServiceTypeOK'
  BY <1>0, <1>1 DEF ServiceTypeOK, ManagerInv
<1>3. JobOK' /\ SequenceBounded'
  BY <1>0 DEF JobOK, SequenceBounded
<1>4. CommandsStored' /\ RecoveryProgress'
  BY <1>0 DEF CommandsStored, RecoveryProgress, JobOK
<1> QED BY <1>1, <1>2, <1>3, <1>4

\* A resource into which nobody may be released keeps the invariant.
LEMMA PlanHoldInv ==
    ASSUME ServiceInv, PlanHold
    PROVE  ServiceInv'
<1> USE DEF ServiceInv
<1>0. /\ UNCHANGED <<managerVars, phase, commandVars, revision, databaseVars, job, cycleTime,
                     handling>>
      /\ job = "plan" /\ cursor' = cursor + 1 /\ cursor \in Nat /\ serving' = serving
      /\ UNCHANGED <<cmd, act, nextId, stored, rows>>
  BY DEF PlanHold, Planning, managerVars, commandVars, databaseVars, ServiceTypeOK
<1>1. /\ ManagerInv' /\ CommandsAnswerable' /\ FiledByKey' /\ SequenceAhead' /\ IdsUnique'
      /\ Unpromised' = Unpromised
  BY <1>0, FrameInv
<1>2. ServiceTypeOK'
  BY <1>0, <1>1 DEF ServiceTypeOK, ManagerInv
<1>3. JobOK' /\ SequenceBounded'
  BY <1>0, <1>1 DEF JobOK, SequenceBounded
<1>4. CommandsStored' /\ RecoveryProgress'
  BY <1>0 DEF CommandsStored, RecoveryProgress, JobOK
<1> QED BY <1>1, <1>2, <1>3, <1>4

\* A refused start keeps the invariant.
LEMMA RefuseToStartInv ==
    ASSUME ServiceInv, RefuseToStart
    PROVE  ServiceInv'
<1> USE DEF ServiceInv
<1>0. /\ UNCHANGED <<managerVars, phase, commandVars, revision, databaseVars, cycleTime, handling>>
      /\ job \in {"restorePending", "restoreActive"} /\ job' = "refused" /\ cursor' = 0
      /\ serving' = serving
      /\ UNCHANGED <<cmd, act, nextId, stored, rows>>
  BY DEF RefuseToStart, Restoring, managerVars, commandVars, databaseVars
<1>1. ManagerInv' /\ CommandsAnswerable' /\ FiledByKey' /\ SequenceAhead' /\ IdsUnique'
  BY <1>0, FrameInv
<1>2. ServiceTypeOK'
  BY <1>0, <1>1 DEF ServiceTypeOK, ManagerInv
<1>3. JobOK' /\ SequenceBounded'
  BY <1>0 DEF JobOK, SequenceBounded
<1>4. CommandsStored' /\ RecoveryProgress'
  BY <1>0 DEF CommandsStored, RecoveryProgress, JobOK
<1> QED BY <1>1, <1>2, <1>3, <1>4

\* The end of the first recovery loop keeps the invariant: no unanswered
\* command is left behind.
LEMMA PendingRestoredInv ==
    ASSUME ServiceInv, PendingRestored
    PROVE  ServiceInv'
<1> USE DEF ServiceInv
<1>0. /\ UNCHANGED <<managerVars, phase, commandVars, revision, databaseVars, cycleTime, handling>>
      /\ job = "restorePending" /\ job' = "restoreActive" /\ cursor' = 0 /\ Unrestored = {}
      /\ serving' = serving /\ ~serving
      /\ UNCHANGED <<cmd, act, nextId, stored, rows>>
  BY DEF PendingRestored, managerVars, commandVars, databaseVars, JobOK
<1>1. /\ ManagerInv' /\ CommandsAnswerable' /\ FiledByKey' /\ SequenceAhead' /\ IdsUnique'
      /\ StoredIds' = StoredIds /\ \A i \in StoredIds : Protected(i)' <=> Protected(i)
  BY <1>0, FrameInv
<1>2. ServiceTypeOK'
  BY <1>0, <1>1 DEF ServiceTypeOK, ManagerInv
<1>3. JobOK' /\ SequenceBounded'
  BY <1>0 DEF JobOK, SequenceBounded
<1>4. CommandsStored'
  BY <1>0 DEF CommandsStored, JobOK
<1>5. RecoveryProgress'
  <2>1. ASSUME Persistent, CommandRecovery, NEW i \in StoredIds, rows[i].status = "PENDING"
        PROVE  Protected(i)
    <3>1. i \in Nat /\ cursor \in Nat /\ ~(i > cursor)
      BY <1>0, <2>1, ServiceAssumptions
         DEF Unrestored, RecoveredIds, StoredIds, CommandIds, ServiceTypeOK
    <3> QED BY <1>0, <2>1, <3>1 DEF RecoveryProgress
  <2>2. \A i \in StoredIds : i > 0 /\ i \in Nat
    BY ServiceAssumptions DEF StoredIds, CommandIds
  <2> QED BY <1>0, <1>1, <2>1, <2>2 DEF RecoveryProgress
<1> QED BY <1>1, <1>2, <1>3, <1>4, <1>5

-----------------------------------------------------------------------------
(* Commands that are withdrawn.                                            *)

\* cancelPending by resource takes back the release of that resource and
\* nothing else, whether or not there is one.
LEMMA WithdrawFacts ==
    ASSUME ManagerInv, NEW r \in Resource, Withdraw(r)
    PROVE  /\ ManagerInv'
           /\ pendingDecision' = [pendingDecision EXCEPT ![r] = NoDecision]
           /\ commandPending' = [commandPending EXCEPT ![r] = FALSE]
           /\ UNCHANGED <<occupancy, candidates, serving>>
<1>1. CASE pendingDecision[r] # NoDecision
  <2>1. CancelPending(r)
    BY <1>1 DEF Withdraw
  <2>2. ManagerInv'
    BY <2>1, CancelPendingInv
  <2> QED BY <2>1, <2>2 DEF CancelPending
<1>2. CASE pendingDecision[r] = NoDecision
  <2>1. UNCHANGED managerVars
    BY <1>2 DEF Withdraw
  <2>2. ManagerInv'
    BY <2>1, HarmlessInv DEF managerVars, corridorVars, ManagerInv, ManagerTypeOK
  <2>3. commandPending[r] = FALSE
    BY <1>2 DEF ManagerInv, PendingMatchesDecision, ManagerTypeOK
  <2>4. UNCHANGED <<pendingDecision, commandPending, occupancy, candidates, serving>>
    BY <2>1 DEF managerVars, corridorVars
  <2> QED BY <1>2, <2>2, <2>3, <2>4 DEF ManagerInv, ManagerTypeOK
<1> QED BY <1>1, <1>2

\* What remains true of the commands when the one of train t is taken out
\* together with the pending release of its resource.
LEMMA TakenOutFacts ==
    ASSUME ServiceInv, NEW t \in Train, cmd[t] # NoCommand,
           pendingDecision' = [pendingDecision EXCEPT ![cmd[t].resource] = NoDecision],
           cmd' = [cmd EXCEPT ![t] = NoCommand]
    PROVE  /\ CommandsAnswerable'
           /\ cmd' \in [Train -> Command \cup {NoCommand}]
           /\ \A u \in Train : cmd'[u] # NoCommand => u # t /\ cmd'[u] = cmd[u]
           /\ cmd'[t] = NoCommand
<1>1. cmd \in [Train -> Command \cup {NoCommand}]
  BY DEF ServiceInv, ServiceTypeOK
<1>2. \A u \in Train : cmd[u] # NoCommand => cmd[u].resource \in Resource
  BY <1>1, CommandFacts
<1>3. \A u \in Train : (u # t /\ cmd[u] # NoCommand) => cmd[u].resource # cmd[t].resource
  BY DEF ServiceInv, CommandsAnswerable
<1>4. pendingDecision \in [Resource -> Decision \cup {NoDecision}]
  BY DEF ServiceInv, ServiceTypeOK, ManagerTypeOK
<1>5. \A u \in Train : cmd'[u] # NoCommand => u # t /\ cmd'[u] = cmd[u]
  BY <1>1
<1>6. CommandsAnswerable'
  BY <1>2, <1>3, <1>4, <1>5 DEF ServiceInv, CommandsAnswerable
<1> QED BY <1>1, <1>5, <1>6

\* The cleanup after a stale train and the rollback of a command that was
\* not written keep the invariant.
LEMMA WithdrawCommandInv ==
    ASSUME ServiceInv, NEW t \in Train, CancelStale(t) \/ RollbackCommand(t)
    PROVE  ServiceInv'
<1> USE DEF ServiceInv
<1>0. /\ job \in {"cleanup", "maintain", "rollback"} /\ t \in handling
      /\ cmd[t] # NoCommand /\ cmd[t].resource \in Resource
      /\ Withdraw(cmd[t].resource)
      /\ cmd' = [cmd EXCEPT ![t] = NoCommand]
      /\ handling' = handling \ {t}
      /\ UNCHANGED <<phase, act, nextId, revision, stored, rows, job, cursor, cycleTime>>
  BY CommandFacts DEF CancelStale, RollbackCommand, databaseVars, JobOK, ServiceTypeOK
<1>1. /\ ManagerInv'
      /\ pendingDecision' = [pendingDecision EXCEPT ![cmd[t].resource] = NoDecision]
      /\ UNCHANGED <<occupancy, candidates, serving>>
  BY <1>0, WithdrawFacts
<1>2. /\ CommandsAnswerable'
      /\ cmd' \in [Train -> Command \cup {NoCommand}]
      /\ \A u \in Train : cmd'[u] # NoCommand => u # t /\ cmd'[u] = cmd[u]
  BY <1>0, <1>1, TakenOutFacts
<1>3. ServiceTypeOK'
  BY <1>0, <1>1, <1>2 DEF ServiceTypeOK, ManagerInv
<1>4. FiledByKey' /\ IdsUnique'
  BY <1>0, <1>1, <1>2 DEF FiledByKey, IdsUnique
<1>5. SequenceAhead' /\ SequenceBounded'
  BY <1>0, <1>1, <1>2 DEF SequenceAhead, SequenceBounded, StoredIds
<1>6. JobOK'
  <2>1. \A u \in handling' : cmd'[u] # NoCommand
    BY <1>0 DEF JobOK, ServiceTypeOK
  <2> QED BY <1>0, <1>1, <2>1 DEF JobOK
<1>7. CommandsStored'
  BY <1>0, <1>2 DEF CommandsStored
<1>8. RecoveryProgress'
  BY <1>0, <1>1 DEF RecoveryProgress, JobOK
<1> QED BY <1>1, <1>2, <1>3, <1>4, <1>5, <1>6, <1>7, <1>8

-----------------------------------------------------------------------------
(* The reports of the game.                                                *)

\* What an UPDATE of the status column changes.
LEMMA UpdateStatusFacts ==
    ASSUME rows \in [CommandIds -> Row \cup {NoRow}], NEW i \in CommandIds,
           NEW From \in SUBSET Statuses, NEW to \in Statuses,
           NEW w, w = UpdateStatus(i, From, to)
    PROVE  /\ w \in [CommandIds -> Row \cup {NoRow}]
           /\ \A j \in CommandIds : w[j] = NoRow <=> rows[j] = NoRow
           /\ \A j \in CommandIds : rows[j] # NoRow => w[j].command = rows[j].command
           /\ \A j \in CommandIds : w[j] # rows[j] =>
                 j = i /\ rows[j].status \in From /\ w[j].status = to
<1>1. CASE rows[i] # NoRow /\ rows[i].status \in From
  <2> DEFINE new == [rows[i] EXCEPT !.status = to]
  <2>1. rows[i] \in Row
    BY <1>1
  <2>2. new \in Row /\ new.command = rows[i].command /\ new.status = to
    BY <2>1 DEF Row
  <2>3. new # NoRow
    BY <2>2, RowFacts
  <2>4. w = [rows EXCEPT ![i] = new]
    BY <1>1 DEF UpdateStatus
  <2> HIDE DEF new
  <2> QED BY <1>1, <2>2, <2>3, <2>4
<1>2. CASE ~(rows[i] # NoRow /\ rows[i].status \in From)
  <2>1. w = rows
    BY <1>2 DEF UpdateStatus
  <2> QED BY <2>1
<1> QED BY <1>1, <1>2

\* What is common to all reports: they run between the loops, and the only
\* change of the database is the status of one command.
LEMMA ReportFrame ==
    ASSUME ServiceInv, Idle, NEW i, NEW From \in SUBSET Statuses, NEW to \in Statuses,
           rows' = rows \/ (i \in CommandIds /\ rows' = UpdateStatus(i, From, to)),
           UNCHANGED <<jobVars, serving>>
    PROVE  /\ rows' \in [CommandIds -> Row \cup {NoRow}]
           /\ StoredIds' = StoredIds
           /\ \A j \in CommandIds : rows'[j] = NoRow <=> rows[j] = NoRow
           /\ \A j \in CommandIds : rows[j] # NoRow => rows'[j].command = rows[j].command
           /\ \A j \in CommandIds : rows'[j] # rows[j] =>
                 j = i /\ rows[j].status \in From /\ rows'[j].status = to
           /\ SequenceBounded' /\ RecoveryProgress'
           /\ job' = "idle" /\ handling' = {} /\ serving /\ serving' /\ handling = {}
<1>1. rows \in [CommandIds -> Row \cup {NoRow}]
  BY DEF ServiceInv, ServiceTypeOK
<1>2. /\ rows' \in [CommandIds -> Row \cup {NoRow}]
      /\ \A j \in CommandIds : rows'[j] = NoRow <=> rows[j] = NoRow
      /\ \A j \in CommandIds : rows[j] # NoRow => rows'[j].command = rows[j].command
      /\ \A j \in CommandIds : rows'[j] # rows[j] =>
            j = i /\ rows[j].status \in From /\ rows'[j].status = to
  <2>1. CASE rows' = rows
    BY <1>1, <2>1
  <2>2. CASE i \in CommandIds /\ rows' = UpdateStatus(i, From, to)
    BY <1>1, <2>2, UpdateStatusFacts
  <2> QED BY <2>1, <2>2
<1>3. StoredIds' = StoredIds
  BY <1>2 DEF StoredIds
<1>4. job' = "idle" /\ job = "idle" /\ handling' = handling /\ serving /\ serving'
  BY DEF Idle, jobVars
<1>5. handling = {}
  BY <1>4 DEF ServiceInv, JobOK
<1>6. SequenceBounded' /\ RecoveryProgress'
  BY <1>4 DEF SequenceBounded, RecoveryProgress
<1> QED BY <1>2, <1>3, <1>4, <1>5, <1>6

\* The parts of the invariant about the command table, after a report that
\* leaves the commands alone or takes that of train t out.
LEMMA ReportCommands ==
    ASSUME ServiceInv, Idle, NEW i, NEW From \in SUBSET Statuses, NEW to \in Statuses,
           rows' = rows \/ (i \in CommandIds /\ rows' = UpdateStatus(i, From, to)),
           UNCHANGED <<jobVars, serving, nextId>>,
           ManagerInv',
           \A r \in Resource : candidates'[r] \subseteq candidates[r],
           \A u \in Train : cmd'[u] # NoCommand => cmd'[u] = cmd[u],
           \A u \in Train : act'[u] # NoCommand =>
               act'[u] = act[u] \/ (act'[u] = cmd[u] /\ cmd'[u] = NoCommand),
           \A u \in Train : cmd[u] # NoCommand => cmd[u].id # i \/ to # "CLEARED"
    PROVE  /\ FiledByKey' /\ IdsUnique' /\ SequenceAhead' /\ CommandsStored' /\ JobOK'
           /\ SequenceBounded' /\ RecoveryProgress'
<1> USE DEF ServiceInv
<1>1. /\ rows' \in [CommandIds -> Row \cup {NoRow}]
      /\ StoredIds' = StoredIds
      /\ \A j \in CommandIds : rows'[j] = NoRow <=> rows[j] = NoRow
      /\ \A j \in CommandIds : rows[j] # NoRow => rows'[j].command = rows[j].command
      /\ \A j \in CommandIds : rows'[j] # rows[j] =>
            j = i /\ rows[j].status \in From /\ rows'[j].status = to
      /\ SequenceBounded' /\ RecoveryProgress'
      /\ job' = "idle" /\ handling' = {} /\ serving /\ serving' /\ handling = {}
  BY ReportFrame
<1>2. \A u \in Train : cmd[u] # NoCommand => cmd[u].id \in CommandIds
  BY CommandFacts DEF ServiceTypeOK
<1>3. FiledByKey'
  BY <1>1 DEF FiledByKey
<1>4. IdsUnique'
  BY DEF IdsUnique
<1>5. SequenceAhead'
  BY <1>1 DEF SequenceAhead
<1>6. CommandsStored'
  BY <1>1, <1>2 DEF CommandsStored, Idle
<1>7. JobOK'
  BY <1>1 DEF JobOK
<1> QED BY <1>1, <1>3, <1>4, <1>5, <1>6, <1>7

\* setPhase keeps the phases well typed.
LEMMA SetPhaseType ==
    ASSUME ServiceInv, NEW t \in Train, SetPhase(t, "WATCHED") \/ SetPhase(t, "INSIDE_RESOURCE")
    PROVE  phase' \in [Train -> {"ABSENT", "WATCHED", "RELEASE_PENDING", "INSIDE_RESOURCE"}]
BY DEF ServiceInv, ServiceTypeOK, SetPhase

\* A report that is refused, or whose transaction was not confirmed, keeps
\* the invariant, whatever has become of its transaction.
LEMMA RefusedReportInv ==
    ASSUME ServiceInv, Idle, NEW i, NEW From \in SUBSET Statuses, NEW to \in Statuses,
           rows' = rows \/ (i \in CommandIds /\ rows' = UpdateStatus(i, From, to)),
           \A u \in Train : cmd[u] # NoCommand => cmd[u].id # i \/ to # "CLEARED",
           MemoryUnchanged, UNCHANGED <<revision, stored, jobVars>>
    PROVE  ServiceInv'
<1> USE DEF ServiceInv
<1>1. UNCHANGED <<reservationVars, occupancy, commandPending, lastEntry, candidates,
                  pendingDecision, lastReleasedLine, consecutive, serving, cmd, act, nextId, phase>>
  BY DEF MemoryUnchanged, managerVars, corridorVars, commandVars
<1>2. ManagerInv'
  BY <1>1, HarmlessInv DEF ManagerInv, ManagerTypeOK
<1>3. CommandsAnswerable'
  BY <1>1 DEF CommandsAnswerable
<1>4. /\ FiledByKey' /\ IdsUnique' /\ SequenceAhead' /\ CommandsStored' /\ JobOK'
      /\ SequenceBounded' /\ RecoveryProgress'
  BY <1>1, <1>2, ReportCommands
<1>5. rows' \in [CommandIds -> Row \cup {NoRow}]
  BY <1>1, ReportFrame
<1>6. ServiceTypeOK'
  BY <1>1, <1>2, <1>5 DEF ServiceTypeOK, ManagerInv, jobVars
<1> QED BY <1>2, <1>3, <1>4, <1>6

\* A rejecting ACK keeps the invariant.
LEMMA RejectCommandInv ==
    ASSUME ServiceInv, NEW t \in Train, NEW o \in DatabaseOutcome, RejectCommand(t, o)
    PROVE  ServiceInv'
<1> USE DEF ServiceInv
<1>0. /\ Idle /\ cmd[t] # NoCommand /\ cmd[t].id \in CommandIds /\ cmd[t].resource \in Resource
      /\ rows' = rows \/ rows' = UpdateStatus(cmd[t].id, {"PENDING"}, "REJECTED")
      /\ UNCHANGED <<revision, stored, jobVars>>
  BY CommandFacts DEF RejectCommand, ServiceTypeOK
<1>1. CASE CancelPending(cmd[t].resource) /\ cmd' = [cmd EXCEPT ![t] = NoCommand]
           /\ SetPhase(t, "WATCHED") /\ UNCHANGED <<act, nextId>>
  <2>1. /\ ManagerInv'
        /\ pendingDecision' = [pendingDecision EXCEPT ![cmd[t].resource] = NoDecision]
        /\ UNCHANGED <<candidates, serving>>
    BY <1>0, <1>1, CancelPendingInv DEF CancelPending
  <2>2. /\ CommandsAnswerable'
        /\ cmd' \in [Train -> Command \cup {NoCommand}]
        /\ \A u \in Train : cmd'[u] # NoCommand => u # t /\ cmd'[u] = cmd[u]
    BY <1>0, <1>1, <2>1, TakenOutFacts
  <2>3. /\ FiledByKey' /\ IdsUnique' /\ SequenceAhead' /\ CommandsStored' /\ JobOK'
        /\ SequenceBounded' /\ RecoveryProgress'
    BY <1>0, <1>1, <2>1, <2>2, ReportCommands DEF Statuses
  <2>4. rows' \in [CommandIds -> Row \cup {NoRow}]
    BY <1>0, <2>1, ReportFrame DEF Statuses
  <2>5. ServiceTypeOK'
    BY <1>0, <1>1, <2>1, <2>2, <2>4, SetPhaseType DEF ServiceTypeOK, ManagerInv, jobVars
  <2> QED BY <2>1, <2>2, <2>3, <2>5
<1>2. CASE MemoryUnchanged
  BY <1>0, <1>2, RefusedReportInv DEF Statuses
<1> QED BY <1>1, <1>2 DEF RejectCommand

\* An accepting ACK keeps the invariant: the command becomes a passage.
LEMMA AcceptCommandInv ==
    ASSUME ServiceInv, NEW t \in Train, NEW now \in Time, NEW o \in DatabaseOutcome,
           AcceptCommand(t, now, o)
    PROVE  ServiceInv'
<1> USE DEF ServiceInv
<1>0. /\ Idle /\ cmd[t] # NoCommand /\ cmd[t] \in Command
      /\ cmd[t].id \in CommandIds /\ cmd[t].resource \in Resource
      /\ rows' = rows \/ rows' = UpdateStatus(cmd[t].id, {"PENDING"}, "ACCEPTED")
      /\ UNCHANGED <<revision, stored, jobVars>>
  BY CommandFacts DEF AcceptCommand, ServiceTypeOK
<1>1. CASE /\ ConfirmEntry(cmd[t].resource, t, now)
           /\ act' = [act EXCEPT ![t] = cmd[t]] /\ cmd' = [cmd EXCEPT ![t] = NoCommand]
           /\ SetPhase(t, "INSIDE_RESOURCE") /\ UNCHANGED nextId
  <2>1. /\ ManagerInv'
        /\ pendingDecision' = [pendingDecision EXCEPT ![cmd[t].resource] = NoDecision]
        /\ serving' = serving
    BY <1>0, <1>1, ConfirmEntryInv DEF ConfirmEntry
  <2>2. \A r \in Resource : candidates'[r] \subseteq candidates[r]
    BY <1>1 DEF ConfirmEntry, Enter, ServiceTypeOK, ManagerTypeOK
  <2>3. /\ CommandsAnswerable'
        /\ cmd' \in [Train -> Command \cup {NoCommand}]
        /\ \A u \in Train : cmd'[u] # NoCommand => u # t /\ cmd'[u] = cmd[u]
        /\ cmd'[t] = NoCommand
    BY <1>0, <1>1, <2>1, TakenOutFacts
  <2>4. /\ act' \in [Train -> Command \cup {NoCommand}]
        /\ \A u \in Train : act'[u] # NoCommand =>
              act'[u] = act[u] \/ (act'[u] = cmd[u] /\ cmd'[u] = NoCommand)
    BY <1>0, <1>1, <2>3 DEF ServiceTypeOK
  <2>5. /\ FiledByKey' /\ IdsUnique' /\ SequenceAhead' /\ CommandsStored' /\ JobOK'
        /\ SequenceBounded' /\ RecoveryProgress'
    BY <1>0, <1>1, <2>1, <2>2, <2>3, <2>4, ReportCommands DEF Statuses
  <2>6. rows' \in [CommandIds -> Row \cup {NoRow}]
    BY <1>0, <2>1, ReportFrame DEF Statuses
  <2>7. ServiceTypeOK'
    BY <1>0, <1>1, <2>1, <2>3, <2>4, <2>6, SetPhaseType DEF ServiceTypeOK, ManagerInv, jobVars
  <2> QED BY <2>1, <2>3, <2>5, <2>7
<1>2. CASE MemoryUnchanged
  BY <1>0, <1>2, RefusedReportInv DEF Statuses
<1> QED BY <1>1, <1>2 DEF AcceptCommand

\* A counted exit together with the clearing of crossings keeps the
\* invariant of the manager.
LEMMA ExitAndClearInv ==
    ASSUME ManagerInv, NEW r \in Resource \cup {NoResource}, NEW I \in SUBSET Intersection,
           NEW t \in Train, NEW now \in Time,
           occupancy' = IF Exits(r) THEN [occupancy EXCEPT ![r] = @ - 1] ELSE occupancy,
           MarkCleared(I, t, now),
           UNCHANGED <<commandPending, lastEntry, candidates, pendingDecision, lastReleasedLine,
                       consecutive, serving>>
    PROVE  ManagerInv'
<1> USE DEF ManagerInv
<1>1. ReservationInv'
  <2>1. now \in Nat
    BY ReservationAssumptions
  <2> QED BY <2>1, ClearInv
<1>2. /\ occupancy' \in [Resource -> 0..Capacity]
      /\ \A q \in Resource : occupancy'[q] <= occupancy[q]
  <2>0. occupancy \in [Resource -> 0..Capacity]
    BY DEF ManagerTypeOK
  <2>1. CASE Exits(r)
    BY <2>0, <2>1, PolicyAssumptions DEF Exits
  <2>2. CASE ~Exits(r)
    BY <2>0, <2>2, PolicyAssumptions
  <2> QED BY <2>1, <2>2
<1>3. ManagerTypeOK'
  BY <1>1, <1>2 DEF ManagerTypeOK, ReservationInv
<1>4. \A q \in Resource : Busy(q)' => Busy(q)
  <2>1. \A q \in Resource : occupancy[q] \in Int /\ occupancy'[q] \in Int
    BY <1>2, PolicyAssumptions DEF ManagerTypeOK
  <2> QED BY <1>2, <2>1 DEF Busy
<1>5. DirectionInterlock'
  BY <1>4, OppositeFacts DEF DirectionInterlock
<1>6. PlannedEntryHasRoom'
  <2>1. \A q \in Resource : occupancy[q] \in Int /\ occupancy'[q] \in Int
    BY <1>2, PolicyAssumptions DEF ManagerTypeOK
  <2> QED BY <1>2, <2>1, PolicyAssumptions DEF PlannedEntryHasRoom
<1>7. PendingMatchesDecision' /\ HeadwayReserved' /\ NothingPlannedYet'
  BY DEF PendingMatchesDecision, HeadwayReserved, NothingPlannedYet
<1> QED BY <1>1, <1>3, <1>5, <1>6, <1>7

\* A cleared report keeps the invariant.
LEMMA ResourceClearedInv ==
    ASSUME ServiceInv, NEW t \in Train, NEW r \in Resource \cup {NoResource},
           NEW I \in SUBSET Intersection, NEW now \in Time, NEW o \in DatabaseOutcome,
           ResourceCleared(t, r, I, now, o)
    PROVE  ServiceInv'
<1> USE DEF ServiceInv
<1> DEFINE passing == act[t] # NoCommand
           left == IF r = NoResource /\ passing THEN act[t].resource ELSE r
           crossed == IF I = {} /\ passing THEN {IntersectionOf[m] : m \in act[t].movements} ELSE I
<1>0. passing => /\ act[t] \in Command /\ act[t].id \in CommandIds
                 /\ act[t].resource \in Resource /\ act[t].movements \in SUBSET Movement
  BY CommandFacts DEF ServiceTypeOK
<1>1. left \in Resource \cup {NoResource} /\ crossed \in SUBSET Intersection
  BY <1>0, ReservationAssumptions
<1>2. /\ Idle /\ UNCHANGED <<revision, stored, jobVars>>
      /\ rows' = rows \/ (/\ act[t].id \in CommandIds
                          /\ rows' = UpdateStatus(act[t].id, {"ACCEPTED", "CLEARED"}, "CLEARED"))
  BY <1>0 DEF ResourceCleared
<1>3. \A u \in Train : cmd[u] # NoCommand => cmd[u].id # act[t].id \/ ~passing
  BY DEF IdsUnique
<1>4. rows' = rows \/ passing
  BY DEF ResourceCleared
<1>5. CASE MemoryUnchanged
  <2>1. CASE passing
    BY <1>2, <1>3, <1>5, <2>1, RefusedReportInv DEF Statuses
  <2>2. CASE ~passing
    BY <1>2, <1>4, <1>5, <2>2, RefusedReportInv DEF Statuses
  <2> QED BY <2>1, <2>2
<1>6. CASE /\ occupancy' = IF Exits(left) THEN [occupancy EXCEPT ![left] = @ - 1] ELSE occupancy
           /\ MarkCleared(crossed, t, now)
           /\ SetPhase(t, "WATCHED")
           /\ act' = [act EXCEPT ![t] = NoCommand]
           /\ UNCHANGED <<commandPending, lastEntry, candidates, pendingDecision,
                          lastReleasedLine, consecutive, serving, cmd, nextId>>
  <2> HIDE DEF left, crossed
  <2>1. ManagerInv'
    BY <1>1, <1>6, ExitAndClearInv
  <2>2. CommandsAnswerable'
    BY <1>6 DEF CommandsAnswerable
  <2>3. /\ act' \in [Train -> Command \cup {NoCommand}]
        /\ \A u \in Train : act'[u] # NoCommand => act'[u] = act[u]
    BY <1>6 DEF ServiceTypeOK
  <2>4. /\ FiledByKey' /\ IdsUnique' /\ SequenceAhead' /\ CommandsStored' /\ JobOK'
        /\ SequenceBounded' /\ RecoveryProgress'
    <3>1. CASE passing
      BY <1>2, <1>3, <1>6, <2>1, <2>3, <3>1, ReportCommands DEF Statuses
    <3>2. CASE ~passing
      BY <1>2, <1>4, <1>6, <2>1, <2>3, <3>2, ReportCommands DEF Statuses
    <3> QED BY <3>1, <3>2
  <2>5. rows' \in [CommandIds -> Row \cup {NoRow}]
    BY <1>2, <1>6, ReportFrame DEF Statuses
  <2>6. ServiceTypeOK'
    BY <1>2, <1>6, <2>1, <2>3, <2>5, SetPhaseType DEF ServiceTypeOK, ManagerInv, jobVars
  <2> QED BY <2>1, <2>2, <2>4, <2>6
<1> QED BY <1>5, <1>6 DEF ResourceCleared

-----------------------------------------------------------------------------
(* The planning loop.                                                      *)

\* New candidates keep the invariant.
LEMMA RefreshCandidatesInv ==
    ASSUME ServiceInv, NEW C \in Buildable, RefreshCandidates(C)
    PROVE  ServiceInv'
<1> USE DEF ServiceInv
<1>0. /\ job = "cleanup" /\ handling = {} /\ job' = "plan" /\ cursor' = 1
      /\ candidates' = [r \in Resource |-> {c \in C : c.resource = r}]
      /\ UNCHANGED <<reservationVars, occupancy, commandPending, lastEntry, pendingDecision,
                     lastReleasedLine, consecutive, serving, phase, cmd, act, nextId, revision,
                     stored, rows, cycleTime, handling>>
  BY DEF RefreshCandidates, commandVars, databaseVars
<1>1. ManagerInv'
  <2>1. candidates' \in [Resource -> SUBSET Candidate]
    BY <1>0 DEF Buildable
  <2> QED BY <1>0, <2>1, HarmlessInv DEF ManagerInv, ManagerTypeOK
<1>2. CommandsAnswerable' /\ IdsUnique' /\ SequenceAhead'
  BY <1>0 DEF CommandsAnswerable, IdsUnique, SequenceAhead, StoredIds
<1>3. FiledByKey'
  BY <1>0 DEF FiledByKey
<1>4. ServiceTypeOK'
  BY <1>0, <1>1 DEF ServiceTypeOK, ManagerInv
<1>5. JobOK' /\ CommandsStored' /\ RecoveryProgress'
  BY <1>0 DEF JobOK, CommandsStored, RecoveryProgress
<1>6. SequenceBounded'
  <2>1. /\ IsFiniteSet(Corridor) /\ Unpromised' \in SUBSET Corridor
        /\ nextId + Cardinality(Corridor) <= MaxCommand + 1
    BY <1>0, ServiceAssumptions DEF SequenceBounded, Unpromised
  <2>2. /\ Cardinality(Unpromised') \in Nat /\ Cardinality(Corridor) \in Nat
        /\ Cardinality(Unpromised') <= Cardinality(Corridor)
    BY <2>1, FS_Subset, FS_CardinalityType
  <2>3. nextId \in Nat /\ nextId' = nextId /\ MaxCommand \in Nat
    BY <1>0, ServiceAssumptions DEF ServiceTypeOK
  <2>4. nextId' + Cardinality(Unpromised') <= MaxCommand + 1
    BY <2>1, <2>2, <2>3
  <2> QED BY <1>0, <2>4 DEF SequenceBounded
<1> QED BY <1>1, <1>2, <1>3, <1>4, <1>5, <1>6

\* A release takes its corridor from those that can still be promised, so a
\* cycle never runs out of command ids.
LEMMA ReleaseUsesCorridor ==
    ASSUME ServiceInv, job = "plan", NEW r \in Resource,
           ~commandPending[r], ~commandPending[Opposite(r)],
           commandPending' = [commandPending EXCEPT ![r] = TRUE]
    PROVE  /\ nextId <= MaxCommand
           /\ nextId + 1 + Cardinality(Unpromised') <= MaxCommand + 1
           /\ nextId + Cardinality(Unpromised') <= MaxCommand + 1
<1> DEFINE c == r[1]
<1>1. c \in Corridor /\ r[2] \in Directions /\ r = <<c, r[2]>>
  BY DEF Resource
<1>2. commandPending \in [Resource -> BOOLEAN]
  BY DEF ServiceInv, ServiceTypeOK, ManagerTypeOK
<1>3. /\ <<c, "FORWARD">> \in Resource /\ <<c, "REVERSE">> \in Resource
      /\ {r, Opposite(r)} = {<<c, "FORWARD">>, <<c, "REVERSE">>}
  BY <1>1 DEF Resource, Directions, Opposite
<1>4. c \in Unpromised
  <2>1. ~commandPending[<<c, "FORWARD">>] /\ ~commandPending[<<c, "REVERSE">>]
    BY <1>3
  <2> QED BY <1>1, <2>1 DEF Unpromised
<1>5. Unpromised' = Unpromised \ {c}
  <2>1. ASSUME NEW e \in Corridor, e # c
        PROVE  e \in Unpromised' <=> e \in Unpromised
    <3>1. /\ <<e, "FORWARD">> \in Resource /\ <<e, "FORWARD">> # r
          /\ <<e, "REVERSE">> \in Resource /\ <<e, "REVERSE">> # r
      BY <1>1, <2>1 DEF Resource, Directions
    <3>2. /\ commandPending'[<<e, "FORWARD">>] = commandPending[<<e, "FORWARD">>]
          /\ commandPending'[<<e, "REVERSE">>] = commandPending[<<e, "REVERSE">>]
      BY <1>2, <3>1
    <3> QED BY <2>1, <3>2 DEF Unpromised
  <2>2. c \notin Unpromised'
    <3>1. commandPending'[r] = TRUE
      BY <1>2
    <3>2. r = <<c, "FORWARD">> \/ r = <<c, "REVERSE">>
      BY <1>1 DEF Directions
    <3>3. commandPending'[<<c, "FORWARD">>] = TRUE \/ commandPending'[<<c, "REVERSE">>] = TRUE
      BY <3>1, <3>2
    <3> QED BY <3>3 DEF Unpromised
  <2>3. Unpromised \subseteq Corridor /\ Unpromised' \subseteq Corridor
    BY DEF Unpromised
  <2> QED BY <1>1, <2>1, <2>2, <2>3
<1>6. IsFiniteSet(Unpromised)
  <2>1. Unpromised \in SUBSET Corridor /\ IsFiniteSet(Corridor)
    BY ServiceAssumptions DEF Unpromised
  <2> QED BY <2>1, FS_Subset
<1>7. /\ Cardinality(Unpromised') = Cardinality(Unpromised) - 1
      /\ Cardinality(Unpromised') \in Nat /\ Cardinality(Unpromised) \in Nat
  <2>1. IsFiniteSet(Unpromised \ {c})
        /\ Cardinality(Unpromised \ {c}) = Cardinality(Unpromised) - 1
    BY <1>4, <1>6, FS_RemoveElement
  <2>2. Cardinality(Unpromised \ {c}) \in Nat /\ Cardinality(Unpromised) \in Nat
    BY <1>6, <2>1, FS_CardinalityType
  <2> QED BY <1>5, <2>1, <2>2
<1>8. nextId + Cardinality(Unpromised) <= MaxCommand + 1 /\ nextId \in Nat /\ MaxCommand \in Nat
  BY ServiceAssumptions DEF ServiceInv, SequenceBounded, ServiceTypeOK
<1> QED BY <1>7, <1>8

\* A release keeps the invariant, with a new command or without one.
LEMMA PlanReleaseInv ==
    ASSUME ServiceInv, Planning, NEW c \in candidates[PlanOrder[cursor]], PlanRelease(c)
    PROVE  ServiceInv'
<1> USE DEF ServiceInv
<1> DEFINE r == PlanOrder[cursor]
           new == [id |-> nextId, train |-> c.train, resource |-> c.resource,
                   movements |-> c.movements, at |-> cycleTime, rev |-> revision]
           d == [train |-> c.train, movements |-> c.movements, at |-> cycleTime, planned |-> TRUE]
<1>0. /\ job = "plan" /\ r \in Resource /\ cycleTime \in Time /\ serving /\ cursor \in Nat
      /\ PlanNext(r, c, cycleTime)
      /\ UNCHANGED <<act, revision, stored, rows, job, cycleTime>> /\ cursor' = cursor + 1
  <2>1. job = "plan" /\ cursor \in Nat /\ cursor # 0 /\ cursor <= Len(PlanOrder)
    BY DEF Planning, JobOK, ServiceTypeOK
  <2>2. r \in Resource
    BY <2>1, ServiceAssumptions
  <2> QED BY <2>1, <2>2 DEF PlanRelease, databaseVars, JobOK
<1> HIDE DEF r
<1>1. /\ c \in candidates[r] /\ c \in Candidate /\ c.train \in Train /\ c.movements \in SUBSET Movement
      /\ c.resource = r
  BY <1>0, ManagerAssumptions DEF FiledByKey, ServiceTypeOK, ManagerTypeOK, r
<1>2. /\ ~commandPending[r] /\ ~commandPending[Opposite(r)] /\ pendingDecision[r] = NoDecision
      /\ pendingDecision' = [pendingDecision EXCEPT ![r] = d]
      /\ commandPending' = [commandPending EXCEPT ![r] = TRUE]
      /\ UNCHANGED <<candidates, serving>>
  BY <1>0 DEF PlanNext, Releasable, OpposingBusy, Busy, HardConstraintsMet, ManagerInv,
              PendingMatchesDecision
<1>3. ManagerInv'
  BY <1>0, <1>1, PlanNextInv
<1>4. /\ nextId <= MaxCommand
      /\ nextId + 1 + Cardinality(Unpromised') <= MaxCommand + 1
      /\ nextId + Cardinality(Unpromised') <= MaxCommand + 1
  BY <1>0, <1>2, ReleaseUsesCorridor
<1>5. d # NoDecision /\ d.train = c.train /\ d.movements = c.movements
  <2>1. d \in Decision
    BY <1>0, <1>1 DEF Decision
  <2> QED BY <2>1, ManagerAssumptions
<1>6. \A t \in Train : cmd[t] # NoCommand => cmd[t].resource # r
  BY <1>2 DEF CommandsAnswerable
<1>7. /\ new \in Command /\ new # NoCommand /\ new.train = c.train /\ new.resource = r
      /\ new.movements = c.movements /\ new.id = nextId /\ nextId \in CommandIds
  <2>1. nextId \in CommandIds /\ revision \in Nat
    BY <1>4, ServiceAssumptions DEF ServiceTypeOK, CommandIds
  <2>2. new \in Command
    BY <1>0, <1>1, <2>1 DEF Command
  <2> QED BY <1>1, <2>1, <2>2, CommandFacts
<1>8. \A t \in Train : cmd[t] # NoCommand => cmd[t].resource \in Resource /\ cmd[t].id \in CommandIds
  BY CommandFacts DEF ServiceTypeOK
<1>9. pendingDecision \in [Resource -> Decision \cup {NoDecision}]
  BY DEF ServiceTypeOK, ManagerTypeOK
<1>10. RecoveryProgress'
  BY <1>0, <1>2 DEF RecoveryProgress
<1>11. rows[nextId] = NoRow
  BY <1>0, <1>7, ServiceAssumptions DEF SequenceAhead, StoredIds, CommandIds
<1> HIDE DEF d, new
<1>12. CASE /\ cmd[c.train] = NoCommand /\ cmd' = [cmd EXCEPT ![c.train] = new]
            /\ nextId' = nextId + 1
            /\ phase' = [phase EXCEPT ![c.train] = "RELEASE_PENDING"]
            /\ handling' = handling \cup {c.train}
  <2>0. nextId \in Nat /\ cmd \in [Train -> Command \cup {NoCommand}] /\ handling \subseteq Train
    BY <1>7, ServiceAssumptions DEF ServiceTypeOK, CommandIds
  <2>1. /\ cmd'[c.train] = new
        /\ \A t \in Train : t # c.train => cmd'[t] = cmd[t]
        /\ cmd' \in [Train -> Command \cup {NoCommand}]
    BY <1>1, <1>7, <1>12, <2>0
  <2>2. CommandsAnswerable'
    BY <1>0, <1>1, <1>2, <1>5, <1>6, <1>7, <1>8, <1>9, <2>1 DEF CommandsAnswerable
  <2>3. FiledByKey'
    BY <1>0, <1>1, <1>2, <1>7, <2>1 DEF FiledByKey
  <2>4. SequenceAhead' /\ IdsUnique'
    <3>1. \A t \in Train : /\ cmd[t] # NoCommand => cmd[t].id < nextId /\ cmd[t].id \in Nat
                           /\ act[t] # NoCommand => act[t].id < nextId /\ act[t].id \in Nat
      BY <1>0, CommandFacts, ServiceAssumptions DEF SequenceAhead, ServiceTypeOK, CommandIds
    <3>2. \A i \in StoredIds : i < nextId /\ i \in Nat
      BY <1>0, ServiceAssumptions DEF SequenceAhead, StoredIds, CommandIds
    <3>3. SequenceAhead'
      BY <1>0, <1>7, <1>12, <2>0, <2>1, <3>1, <3>2 DEF SequenceAhead, StoredIds
    <3>4. IdsUnique'
      BY <1>0, <1>7, <2>0, <2>1, <3>1 DEF IdsUnique
    <3> QED BY <3>3, <3>4
  <2>5. JobOK'
    <3>1. \A t \in handling' : cmd'[t] # NoCommand
      BY <1>7, <1>12, <2>0, <2>1 DEF JobOK
    <3> QED BY <1>0, <1>2, <2>0, <3>1 DEF JobOK
  <2>6. SequenceBounded'
    BY <1>0, <1>4, <1>12 DEF SequenceBounded
  <2>7. CommandsStored'
    BY <1>0, <1>7, <1>11, <1>12, <2>0, <2>1 DEF CommandsStored
  <2>8. ServiceTypeOK'
    <3>1. nextId' \in 1..(MaxCommand + 1)
      BY <1>4, <1>12, ServiceAssumptions DEF ServiceTypeOK
    <3>2. phase' \in [Train -> {"ABSENT", "WATCHED", "RELEASE_PENDING", "INSIDE_RESOURCE"}]
      BY <1>12 DEF ServiceTypeOK
    <3> QED BY <1>0, <1>1, <1>3, <1>12, <2>1, <3>1, <3>2 DEF ServiceTypeOK, ManagerInv
  <2> QED BY <1>3, <1>10, <2>2, <2>3, <2>4, <2>5, <2>6, <2>7, <2>8
<1>13. CASE UNCHANGED <<cmd, nextId, phase, handling>>
  <2>1. CommandsAnswerable'
    BY <1>0, <1>2, <1>6, <1>8, <1>9, <1>13 DEF CommandsAnswerable
  <2>2. FiledByKey' /\ SequenceAhead' /\ IdsUnique'
    BY <1>0, <1>2, <1>13 DEF FiledByKey, SequenceAhead, IdsUnique, StoredIds
  <2>3. JobOK' /\ CommandsStored'
    BY <1>0, <1>2, <1>13 DEF JobOK, CommandsStored
  <2>4. SequenceBounded'
    BY <1>0, <1>4, <1>13 DEF SequenceBounded
  <2>5. ServiceTypeOK'
    BY <1>0, <1>3, <1>13 DEF ServiceTypeOK, ManagerInv
  <2> QED BY <1>3, <1>10, <2>1, <2>2, <2>3, <2>4, <2>5
<1> QED BY <1>12, <1>13 DEF PlanRelease, new

\* The commands of a cycle get new rows of their own, and no other row
\* changes.
LEMMA InsertFacts ==
    ASSUME ServiceInv, job = "plan", NEW w, w = InsertCommands({cmd[t] : t \in handling})
    PROVE  /\ w \in [CommandIds -> Row \cup {NoRow}]
           /\ \A t \in handling : w[cmd[t].id] = [command |-> cmd[t], status |-> "PENDING"]
           /\ \A i \in CommandIds : (\A t \in handling : cmd[t].id # i) => w[i] = rows[i]
<1> DEFINE C == {cmd[t] : t \in handling}
<1>1. /\ \A t \in handling : /\ t \in Train /\ cmd[t] \in Command /\ cmd[t].id \in CommandIds
                             /\ rows[cmd[t].id] = NoRow
      /\ rows \in [CommandIds -> Row \cup {NoRow}]
  BY CommandFacts DEF ServiceInv, ServiceTypeOK, JobOK, CommandsStored
<1>2. ASSUME NEW t \in handling
      PROVE  w[cmd[t].id] = [command |-> cmd[t], status |-> "PENDING"]
  <2>1. \A c \in C : c.id = cmd[t].id => c = cmd[t]
    BY <1>1 DEF ServiceInv, IdsUnique, JobOK
  <2>2. cmd[t] \in C
    BY <1>2
  <2>3. (CHOOSE c \in C : c.id = cmd[t].id) = cmd[t]
    BY <2>1, <2>2
  <2>4. \E c \in C : c.id = cmd[t].id
    BY <2>2
  <2>5. w[cmd[t].id] = [command |-> CHOOSE c \in C : c.id = cmd[t].id, status |-> "PENDING"]
    BY <1>1, <2>4 DEF InsertCommands
  <2> QED BY <2>3, <2>5
<1>3. ASSUME NEW i \in CommandIds, \A t \in handling : cmd[t].id # i
      PROVE  w[i] = rows[i]
  BY <1>3 DEF InsertCommands
<1>4. w \in [CommandIds -> Row \cup {NoRow}]
  <2>1. ASSUME NEW i \in CommandIds PROVE w[i] \in Row \cup {NoRow}
    <3>1. CASE \E t \in handling : cmd[t].id = i
      <4>1. PICK t \in handling : cmd[t].id = i
        BY <3>1
      <4>2. w[i] = [command |-> cmd[t], status |-> "PENDING"]
        BY <1>2, <4>1
      <4> QED BY <1>1, <4>2 DEF Row, Statuses
    <3>2. CASE ~\E t \in handling : cmd[t].id = i
      BY <1>1, <1>3, <3>2
    <3> QED BY <3>1, <3>2
  <2>2. w = [i \in CommandIds |-> w[i]]
    BY DEF InsertCommands
  <2> QED BY <2>1, <2>2
<1> QED BY <1>2, <1>3, <1>4

\* Writing a cycle keeps the invariant, also when its outcome is unknown.
LEMMA PersistCycleInv ==
    ASSUME ServiceInv, NEW o \in DatabaseOutcome, PersistCycle(o)
    PROVE  ServiceInv'
<1> USE DEF ServiceInv
<1>0. /\ job = "plan" /\ serving /\ serving' = serving
      /\ UNCHANGED <<managerVars, phase, cmd, act, nextId, revision, stored>>
      /\ rows' = IF Applied(o) THEN InsertCommands({cmd[t] : t \in handling}) ELSE rows
      /\ \/ job' = "idle" /\ cursor' = 0 /\ cycleTime' = 0 /\ handling' = {}
            /\ (Persistent => Applied(o))
         \/ job' = "rollback" /\ UNCHANGED <<cursor, cycleTime, handling>>
  BY DEF PersistCycle, Unlock, Succeeded, Applied, JobOK, commandVars, managerVars
<1>1. /\ handling \subseteq Train
      /\ \A t \in handling : cmd[t] # NoCommand
      /\ \A t \in Train : cmd[t] # NoCommand => cmd[t] \in Command /\ cmd[t].id \in CommandIds
      /\ rows \in [CommandIds -> Row \cup {NoRow}]
  BY CommandFacts DEF ServiceTypeOK, JobOK
<1>2. /\ rows' \in [CommandIds -> Row \cup {NoRow}]
      /\ Applied(o) => \A t \in handling :
            rows'[cmd[t].id] = [command |-> cmd[t], status |-> "PENDING"]
      /\ \A i \in CommandIds : rows'[i] = rows[i] \/
            \E t \in handling : cmd[t].id = i
                                /\ rows'[i] = [command |-> cmd[t], status |-> "PENDING"]
  <2>1. CASE Applied(o)
    <3>1. rows' = InsertCommands({cmd[t] : t \in handling})
      BY <1>0, <2>1
    <3>2. /\ rows' \in [CommandIds -> Row \cup {NoRow}]
          /\ \A t \in handling : rows'[cmd[t].id] = [command |-> cmd[t], status |-> "PENDING"]
          /\ \A i \in CommandIds : (\A t \in handling : cmd[t].id # i) => rows'[i] = rows[i]
      BY <1>0, <3>1, InsertFacts
    <3> QED BY <3>2
  <2>2. CASE ~Applied(o)
    BY <1>0, <1>1, <2>2
  <2> QED BY <2>1, <2>2
<1>3. /\ UNCHANGED <<reservationVars, occupancy, commandPending, lastEntry, candidates,
                     pendingDecision, lastReleasedLine, consecutive>>
  BY <1>0 DEF managerVars, corridorVars
<1>4. ManagerInv' /\ CommandsAnswerable' /\ IdsUnique'
  <2>1. ManagerInv'
    BY <1>0, <1>3, HarmlessInv DEF ManagerInv, ManagerTypeOK
  <2> QED BY <1>0, <1>3, <2>1 DEF CommandsAnswerable, IdsUnique
<1>5. FiledByKey'
  <2>1. ASSUME NEW i \in CommandIds, rows'[i] # NoRow PROVE rows'[i].command.id = i
    BY <1>2, <2>1 DEF FiledByKey
  <2> QED BY <1>0, <1>3, <2>1 DEF FiledByKey
<1>6. SequenceAhead'
  <2>1. ASSUME NEW i \in CommandIds, rows'[i] # NoRow PROVE i < nextId
    <3>1. CASE rows'[i] = rows[i]
      BY <1>0, <2>1, <3>1 DEF SequenceAhead, StoredIds
    <3>2. CASE \E t \in handling : cmd[t].id = i
      BY <1>0, <1>1, <3>2 DEF SequenceAhead
    <3> QED BY <1>2, <3>1, <3>2
  <2> QED BY <1>0, <2>1 DEF SequenceAhead, StoredIds
<1>7. ServiceTypeOK'
  BY <1>0, <1>2, <1>4 DEF ServiceTypeOK, ManagerInv
<1>8. JobOK' /\ SequenceBounded' /\ RecoveryProgress'
  BY <1>0 DEF JobOK, SequenceBounded, RecoveryProgress
<1>9. CommandsStored'
  <2>1. ASSUME Persistent, NEW t \in Train, cmd[t] # NoCommand,
               ~(job' = "rollback" /\ t \in handling)
        PROVE  /\ rows'[cmd[t].id] # NoRow /\ rows'[cmd[t].id].command = cmd[t]
               /\ rows'[cmd[t].id].status # "CLEARED"
    <3>1. CASE t \in handling
      <4>1. rows'[cmd[t].id] = [command |-> cmd[t], status |-> "PENDING"]
        BY <1>0, <1>2, <2>1, <3>1
      <4>2. rows'[cmd[t].id] \in Row
        BY <1>1, <2>1, <4>1 DEF Row, Statuses
      <4> QED BY <4>1, <4>2, RowFacts
    <3>2. CASE t \notin handling
      <4>1. \A u \in handling : cmd[u].id # cmd[t].id
        BY <1>1, <2>1, <3>2 DEF IdsUnique
      <4>2. rows'[cmd[t].id] = rows[cmd[t].id]
        BY <1>1, <1>2, <2>1, <4>1
      <4> QED BY <1>0, <2>1, <3>2, <4>2 DEF CommandsStored
    <3> QED BY <3>1, <3>2
  <2> QED BY <1>0, <2>1 DEF CommandsStored
<1> QED BY <1>4, <1>5, <1>6, <1>7, <1>8, <1>9

-----------------------------------------------------------------------------
(* Restart, recovery and a new topology.                                   *)

\* A newly built manager satisfies the invariant of the manager, whether it
\* is built before the server starts or while it serves.
LEMMA RebuiltManagerInv ==
    ASSUME RebuildDispatchManager, serving' \in BOOLEAN
    PROVE  ManagerInv'
<1>1. ReservationInv'
  BY ReservationAssumptions
     DEF RebuildDispatchManager, NoHolders, NoReservationTimes, NoClearings, ReservationInv,
         ReservationTypeOK, OnlyRegisteredReserved, NoConflictingReservations,
         ClearanceSeparatesReservations, Never
<1>2. ManagerTypeOK'
  <2>1. occupancy' \in [Resource -> 0..Capacity] /\ lastEntry' \in [Resource -> Nat]
        /\ consecutive' \in [Resource -> Nat]
    BY PolicyAssumptions DEF RebuildDispatchManager
  <2>2. commandPending' \in [Resource -> BOOLEAN]
    BY Zenon DEF RebuildDispatchManager
  <2>3. /\ candidates' \in [Resource -> SUBSET Candidate]
        /\ pendingDecision' \in [Resource -> Decision \cup {NoDecision}]
        /\ lastReleasedLine' \in [Resource -> Line \cup {NoLine}]
    BY DEF RebuildDispatchManager
  <2> QED BY <1>1, <2>1, <2>2, <2>3 DEF ManagerTypeOK, ReservationInv
<1>3. DirectionInterlock' /\ PendingMatchesDecision' /\ PlannedEntryHasRoom'
  BY PolicyAssumptions, OppositeFacts
     DEF RebuildDispatchManager, DirectionInterlock, Busy, PendingMatchesDecision,
         PlannedEntryHasRoom
<1>4. HeadwayReserved' /\ NothingPlannedYet'
  BY DEF RebuildDispatchManager, HeadwayReserved, NothingPlannedYet
<1> QED BY <1>1, <1>2, <1>3, <1>4 DEF ManagerInv

\* A restart keeps the invariant: nothing is taken over yet.
LEMMA RestartInv ==
    ASSUME ServiceInv, Restart
    PROVE  ServiceInv'
<1> USE DEF ServiceInv
<1>0. /\ phase' = [t \in Train |-> "ABSENT"]
      /\ cmd' = [t \in Train |-> NoCommand] /\ act' = [t \in Train |-> NoCommand]
      /\ nextId' = 1 /\ revision' \in Nat /\ ~serving' /\ serving' = FALSE
      /\ job' = "restorePending" /\ cursor' = 0 /\ cycleTime' = 0 /\ handling' = {}
      /\ candidates' = [r \in Resource |-> {}]
      /\ UNCHANGED <<stored, rows>>
      /\ RebuildDispatchManager
  BY DEF Restart, FreshProcess, databaseVars, ServiceTypeOK, RebuildDispatchManager
<1>1. ManagerInv'
  BY <1>0, RebuiltManagerInv
<1>2. ServiceTypeOK'
  <2>1. 1 \in 1..(MaxCommand + 1) /\ 0 \in Nat
    BY ServiceAssumptions
  <2> QED BY <1>0, <1>1, <2>1 DEF ServiceTypeOK, ManagerInv
<1>3. CommandsAnswerable' /\ FiledByKey' /\ IdsUnique' /\ SequenceAhead'
  BY <1>0 DEF CommandsAnswerable, FiledByKey, IdsUnique, SequenceAhead
<1>4. JobOK' /\ SequenceBounded' /\ CommandsStored'
  BY <1>0 DEF JobOK, SequenceBounded, CommandsStored
<1>5. RecoveryProgress'
  <2>1. \A i \in StoredIds' : ~(i <= 0)
    BY ServiceAssumptions DEF StoredIds, CommandIds
  <2> QED BY <1>0, <2>1 DEF RecoveryProgress
<1> QED BY <1>1, <1>2, <1>3, <1>4, <1>5

\* A new set of routes keeps the invariant: it finds no command and no
\* passage that the new manager would have to know.
LEMMA ReplaceRoutesInv ==
    ASSUME ServiceInv, NEW o \in DatabaseOutcome, ReplaceRoutes(o)
    PROVE  ServiceInv'
<1> USE DEF ServiceInv
<1>0. /\ serving /\ serving' = serving /\ job = "idle"
      /\ revision' \in Nat /\ stored' \in Nat
      /\ \A t \in Train : cmd[t] = NoCommand /\ act[t] = NoCommand
      /\ candidates' = [r \in Resource |-> {}]
      /\ phase' \in [Train -> {"ABSENT", "WATCHED", "RELEASE_PENDING", "INSIDE_RESOURCE"}]
      /\ UNCHANGED <<cmd, act, nextId, rows, job, cursor, cycleTime, handling>>
      /\ RebuildDispatchManager
  BY DEF ReplaceRoutes, Idle, PersistTopology, commandVars, jobVars, ServiceTypeOK,
         RebuildDispatchManager
<1>1. ManagerInv'
  BY <1>0, RebuiltManagerInv DEF ServiceTypeOK, ManagerTypeOK
<1>2. ServiceTypeOK'
  BY <1>0, <1>1 DEF ServiceTypeOK, ManagerInv
<1>3. CommandsAnswerable' /\ FiledByKey' /\ IdsUnique' /\ SequenceAhead'
  BY <1>0 DEF CommandsAnswerable, FiledByKey, IdsUnique, SequenceAhead, StoredIds
<1>4. JobOK' /\ SequenceBounded' /\ CommandsStored' /\ RecoveryProgress'
  BY <1>0 DEF JobOK, SequenceBounded, CommandsStored, RecoveryProgress
<1> QED BY <1>1, <1>2, <1>3, <1>4

\* The next row of a recovery loop, and which rows the loop has then passed.
LEMMA NextRowFacts ==
    ASSUME ServiceInv, Restoring, Unrestored # {}, NEW i, i = Min(Unrestored)
    PROVE  /\ i \in StoredIds /\ i \in CommandIds /\ i \in Nat
           /\ rows[i].command \in Command /\ rows[i].command.id = i
           /\ rows[i].status = IF job = "restorePending" THEN "PENDING" ELSE "ACCEPTED"
           /\ \A j \in StoredIds : (j <= i /\ rows[j].status = rows[i].status) => j <= cursor \/ j = i
<1>1. Unrestored \in SUBSET Nat
  BY ServiceAssumptions DEF Unrestored, RecoveredIds, CommandIds
<1>2. i \in Unrestored /\ \A j \in Unrestored : i <= j
  BY <1>1, MinFacts
<1>3. /\ i \in CommandIds /\ rows[i] # NoRow /\ Persistent /\ CommandRecovery
      /\ rows[i].status = IF job = "restorePending" THEN "PENDING" ELSE "ACCEPTED"
  BY <1>2 DEF Unrestored, RecoveredIds
<1>4. rows[i] \in Row
  BY <1>3 DEF ServiceInv, ServiceTypeOK
<1>5. rows[i].command \in Command /\ rows[i].command.id = i
  BY <1>3, <1>4, RowFacts DEF ServiceInv, FiledByKey
<1>6. ASSUME NEW j \in StoredIds, j <= i, rows[j].status = rows[i].status, ~(j <= cursor)
      PROVE  j = i
  <2>1. j \in CommandIds /\ rows[j] # NoRow /\ j \in Nat /\ cursor \in Nat /\ i \in Nat
    BY <1>3, ServiceAssumptions DEF StoredIds, CommandIds, ServiceInv, ServiceTypeOK
  <2>2. j > cursor
    BY <1>6, <2>1
  <2>3. j \in Unrestored
    BY <1>3, <1>6, <2>1, <2>2 DEF Unrestored, RecoveredIds
  <2> QED BY <1>2, <1>6, <2>1, <2>3
<1>7. i \in Nat
  BY <1>3, ServiceAssumptions DEF CommandIds
<1> QED BY <1>3, <1>5, <1>6, <1>7 DEF StoredIds

\* A reservation during the recovery takes nothing from a row that is
\* already protected.
LEMMA ReservationKeepsHolders ==
    ASSUME ManagerInv, NEW t \in Train, NEW M \in SUBSET Movement, NEW now,
           TryReserveAtomically(t, M, now)
    PROVE  /\ \A m \in Movement : holder[m] # NoTrain => holder'[m] = holder[m]
           /\ \A m \in M : holder'[m] = t
<1>1. \A m \in M : holder[m] = NoTrain
  <2> SUFFICES ASSUME NEW m \in M PROVE holder[m] = NoTrain
    OBVIOUS
  <2>1. m \in registered /\ Excludes(m, m)
    BY DEF TryReserveAtomically, CanReserve, Excludes, MovementsConflict
  <2> QED BY <2>1 DEF TryReserveAtomically, CanReserve
<1> QED BY <1>1 DEF TryReserveAtomically

\* One round of the recovery, as far as the manager is concerned: it keeps
\* its invariant, and the row it has rebuilt and every earlier one are
\* protected.
LEMMA RestoreCommandFacts ==
    ASSUME ServiceInv, RestoreCommand, NEW i, i = Min(Unrestored)
    PROVE  /\ ManagerInv'
           /\ \A j \in StoredIds : (j = i \/ Protected(j)) => Protected(j)'
           /\ UNCHANGED <<candidates, serving>>
           /\ ~serving
<1> USE DEF ServiceInv
<1> DEFINE c == rows[i].command
           d == RestoredDecision(c)
<1>1. /\ i \in StoredIds /\ i \in CommandIds
      /\ rows[i].command \in Command
      /\ rows[i].status = IF job = "restorePending" THEN "PENDING" ELSE "ACCEPTED"
  BY NextRowFacts DEF RestoreCommand
<1>2. /\ c.train \in Train /\ c.resource \in Resource /\ c.movements \in SUBSET Movement
      /\ c.at \in Time
  BY <1>1, CommandFacts
<1>3. d \in Decision /\ ~d.planned /\ d.train = c.train /\ d.movements = c.movements
  BY <1>2 DEF RestoredDecision, Decision
<1>4. /\ \/ job = "restorePending" /\ RestorePending(c.resource, d)
         \/ job = "restoreActive" /\ RestoreActive(c.resource, d)
      /\ UNCHANGED rows
  BY DEF RestoreCommand, databaseVars
<1> HIDE DEF d
<1>5. ManagerInv'
  BY <1>2, <1>3, <1>4, RestorePendingInv, RestoreActiveInv
<1>6. TryReserveAtomically(c.train, c.movements, d.at)
  BY <1>3, <1>4 DEF RestorePending, RestoreActive
<1>7. /\ \A m \in Movement : holder[m] # NoTrain => holder'[m] = holder[m]
      /\ \A m \in c.movements : holder'[m] = c.train
  BY <1>2, <1>6, ReservationKeepsHolders
<1>8. /\ commandPending \in [Resource -> BOOLEAN] /\ occupancy \in [Resource -> 0..Capacity]
      /\ Capacity \in Nat \ {0}
  BY PolicyAssumptions DEF ServiceTypeOK, ManagerTypeOK
<1>9. \A r \in Resource : /\ commandPending[r] => commandPending'[r]
                          /\ occupancy[r] > 0 => occupancy'[r] > 0
  <2>1. CASE RestorePending(c.resource, d)
    BY <1>2, <1>8, <2>1 DEF RestorePending
  <2>2. CASE RestoreActive(c.resource, d)
    BY <1>2, <1>8, <2>2 DEF RestoreActive
  <2> QED BY <1>4, <2>1, <2>2
<1>10. Protected(i)'
  <2>1. CASE job = "restorePending" /\ RestorePending(c.resource, d)
    <3>1. commandPending'[c.resource] /\ rows[i].status = "PENDING"
      BY <1>1, <1>2, <1>8, <2>1 DEF RestorePending
    <3> QED BY <1>4, <1>7, <3>1 DEF Protected
  <2>2. CASE job = "restoreActive" /\ RestoreActive(c.resource, d)
    <3>1. occupancy'[c.resource] > 0 /\ rows[i].status = "ACCEPTED"
      BY <1>1, <1>2, <1>8, <2>2 DEF RestoreActive
    <3> QED BY <1>4, <1>7, <3>1 DEF Protected
  <2> QED BY <1>4, <2>1, <2>2
<1>11. ASSUME NEW j \in StoredIds, Protected(j) PROVE Protected(j)'
  <2>1. rows[j].command \in Command
    BY <1>11, RowFacts DEF StoredIds, ServiceTypeOK
  <2>2. /\ rows[j].command.resource \in Resource /\ rows[j].command.train # NoTrain
        /\ rows[j].command.movements \in SUBSET Movement
    BY <2>1, CommandFacts, ReservationAssumptions
  <2>3. \A m \in rows[j].command.movements : holder'[m] = rows[j].command.train
    BY <1>7, <1>11, <2>2 DEF Protected
  <2> QED BY <1>4, <1>9, <1>11, <2>2, <2>3 DEF Protected
<1>12. UNCHANGED <<candidates, serving>> /\ ~serving
  BY <1>4 DEF RestorePending, RestoreActive
<1> QED BY <1>5, <1>10, <1>11, <1>12

\* One round of the recovery keeps the invariant.
LEMMA RestoreCommandInv ==
    ASSUME ServiceInv, RestoreCommand
    PROVE  ServiceInv'
<1> USE DEF ServiceInv
<1> DEFINE i == Min(Unrestored)
           c == rows[i].command
           d == RestoredDecision(c)
<1>0. /\ Restoring /\ Unrestored # {}
      /\ cursor' = i
      /\ UNCHANGED <<phase, nextId, revision, stored, rows, job, cycleTime, handling>>
      /\ \/ /\ job = "restorePending" /\ RestorePending(c.resource, d)
            /\ cmd' = [cmd EXCEPT ![c.train] = c] /\ UNCHANGED act
         \/ /\ job = "restoreActive" /\ RestoreActive(c.resource, d)
            /\ act' = [act EXCEPT ![c.train] = c] /\ UNCHANGED cmd
  BY DEF RestoreCommand, databaseVars
<1>1. /\ i \in StoredIds /\ i \in CommandIds /\ i \in Nat
      /\ c \in Command /\ c.id = i
      /\ rows[i].status = IF job = "restorePending" THEN "PENDING" ELSE "ACCEPTED"
      /\ \A j \in StoredIds : (j <= i /\ rows[j].status = rows[i].status) => j <= cursor \/ j = i
  BY <1>0, NextRowFacts
<1>2. /\ ManagerInv'
      /\ \A j \in StoredIds : (j = i \/ Protected(j)) => Protected(j)'
      /\ UNCHANGED <<candidates, serving>> /\ ~serving
  BY RestoreCommandFacts
<1>3. /\ c.train \in Train /\ c.resource \in Resource /\ c # NoCommand /\ rows[i] # NoRow
      /\ d # NoDecision /\ d.train = c.train /\ d.movements = c.movements
  <2>1. c.train \in Train /\ c.resource \in Resource /\ c # NoCommand /\ rows[i] # NoRow
        /\ c.movements \in SUBSET Movement /\ c.at \in Time
    BY <1>1, CommandFacts DEF StoredIds
  <2>2. d \in Decision
    BY <2>1 DEF RestoredDecision, Decision
  <2> QED BY <2>1, <2>2, ManagerAssumptions DEF RestoredDecision
<1>4. /\ cmd \in [Train -> Command \cup {NoCommand}] /\ act \in [Train -> Command \cup {NoCommand}]
      /\ pendingDecision \in [Resource -> Decision \cup {NoDecision}]
      /\ \A t \in Train : cmd[t] # NoCommand => cmd[t].resource \in Resource
  BY CommandFacts DEF ServiceTypeOK, ManagerTypeOK
<1> HIDE DEF i, c, d
<1>5. /\ cmd' \in [Train -> Command \cup {NoCommand}]
      /\ act' \in [Train -> Command \cup {NoCommand}]
      /\ \A t \in Train : /\ cmd'[t] = cmd[t] \/ (/\ t = c.train /\ cmd'[t] = c
                                                  /\ job = "restorePending")
                          /\ act'[t] = act[t] \/ (/\ t = c.train /\ act'[t] = c
                                                  /\ job = "restoreActive")
  BY <1>0, <1>1, <1>3, <1>4
<1>6. CommandsAnswerable'
  <2>1. CASE RestorePending(c.resource, d) /\ cmd' = [cmd EXCEPT ![c.train] = c]
    <3>1. pendingDecision' = [pendingDecision EXCEPT ![c.resource] = d] /\ ~commandPending[c.resource]
      BY <2>1 DEF RestorePending
    <3>2. pendingDecision[c.resource] = NoDecision
      BY <1>3, <3>1 DEF ManagerInv, PendingMatchesDecision
    <3>3. \A t \in Train : cmd[t] # NoCommand => cmd[t].resource # c.resource
      BY <3>2 DEF CommandsAnswerable
    <3> QED BY <1>3, <1>4, <2>1, <3>1, <3>3 DEF CommandsAnswerable
  <2>2. CASE RestoreActive(c.resource, d) /\ UNCHANGED cmd
    BY <2>2 DEF RestoreActive, CommandsAnswerable
  <2> QED BY <1>0, <2>1, <2>2
<1>7. FiledByKey'
  BY <1>0, <1>2, <1>5 DEF FiledByKey
<1>8. ServiceTypeOK'
  BY <1>0, <1>1, <1>2, <1>5 DEF ServiceTypeOK, ManagerInv
<1>9. JobOK'
  BY <1>0, <1>2 DEF JobOK, Restoring
<1>10. SequenceBounded' /\ SequenceAhead'
  BY <1>0, <1>2 DEF SequenceBounded, SequenceAhead, Restoring
<1>11. /\ \A t \in Train :
             /\ cmd'[t] # NoCommand => /\ rows[cmd'[t].id] # NoRow
                                       /\ rows[cmd'[t].id].command = cmd'[t]
                                       /\ rows[cmd'[t].id].status = "PENDING"
             /\ act'[t] # NoCommand => /\ rows[act'[t].id] # NoRow
                                       /\ rows[act'[t].id].command = act'[t]
                                       /\ rows[act'[t].id].status = "ACCEPTED"
  BY <1>1, <1>2, <1>3, <1>5 DEF RecoveryProgress, c
<1>12. IdsUnique'
  <2>1. ASSUME NEW t \in Train, NEW u \in Train, cmd'[t] # NoCommand, cmd'[u] # NoCommand,
               cmd'[u].id = cmd'[t].id
        PROVE  u = t
    BY <1>7, <1>11, <2>1 DEF FiledByKey
  <2>2. ASSUME NEW t \in Train, NEW u \in Train, cmd'[t] # NoCommand, act'[u] # NoCommand
        PROVE  act'[u].id # cmd'[t].id
    BY <1>11, <2>2
  <2> QED BY <2>1, <2>2 DEF IdsUnique
<1>13. CommandsStored'
  BY <1>0, <1>11 DEF CommandsStored, Restoring
<1>14. RecoveryProgress'
  <2>1. StoredIds' = StoredIds /\ rows' = rows /\ job' = job /\ cursor' = i
    BY <1>0 DEF StoredIds
  <2>2. ASSUME Persistent, CommandRecovery, NEW j \in StoredIds,
               \/ job = "restorePending" /\ rows[j].status = "PENDING" /\ j <= i
               \/ job = "restoreActive" /\ rows[j].status = "PENDING"
               \/ job = "restoreActive" /\ rows[j].status = "ACCEPTED" /\ j <= i
        PROVE  j = i \/ Protected(j)
    <3>1. CASE job = "restoreActive" /\ rows[j].status = "PENDING"
      BY <1>2, <2>2, <3>1 DEF RecoveryProgress
    <3>2. CASE rows[j].status = rows[i].status /\ j <= i
      <4>1. j = i \/ j <= cursor
        BY <1>1, <3>2
      <4> QED BY <1>1, <1>2, <2>2, <3>2, <4>1 DEF RecoveryProgress
    <3> QED BY <1>1, <2>2, <3>1, <3>2
  <2>3. ASSUME Persistent, CommandRecovery, NEW j \in StoredIds,
               \/ job = "restorePending" /\ rows[j].status = "PENDING" /\ j <= i
               \/ job = "restoreActive" /\ rows[j].status = "PENDING"
               \/ job = "restoreActive" /\ rows[j].status = "ACCEPTED" /\ j <= i
        PROVE  Protected(j)'
    BY <1>2, <2>2, <2>3
  <2> QED BY <1>11, <2>1, <2>3 DEF RecoveryProgress
<1> QED BY <1>2, <1>6, <1>7, <1>8, <1>9, <1>10, <1>12, <1>13, <1>14

\* The end of the recovery keeps the invariant: the command sequence is
\* behind every id that was ever stored.
LEMMA RecoveryDoneInv ==
    ASSUME ServiceInv, RecoveryDone
    PROVE  ServiceInv'
<1> USE DEF ServiceInv
<1> DEFINE S == {nextId} \cup {i + 1 : i \in StoredIds}
<1>0. /\ job = "restoreActive" /\ ~serving /\ serving' = TRUE /\ serving'
      /\ UNCHANGED <<reservationVars, occupancy, commandPending, lastEntry, candidates,
                     pendingDecision, lastReleasedLine, consecutive>>
      /\ nextId' = Max(S)
      /\ job' = "idle" /\ cursor' = 0 /\ cycleTime' = 0 /\ handling' = {}
      /\ UNCHANGED <<phase, cmd, act, revision, stored, rows>>
  BY DEF RecoveryDone, StartServing, corridorVars, databaseVars, Unlock, RecoveredSequence
<1>1. /\ S \in SUBSET (0..(MaxCommand + 1)) /\ S # {} /\ MaxCommand + 1 \in Nat
      /\ \A x \in S : x \in 1..(MaxCommand + 1)
  BY ServiceAssumptions DEF ServiceTypeOK, StoredIds, CommandIds
<1>2. Max(S) \in S /\ \A x \in S : Max(S) >= x
  BY <1>1, MaxFacts
<1> HIDE DEF S
<1>3. nextId' \in 1..(MaxCommand + 1) /\ \A x \in S : nextId' >= x
  BY <1>0, <1>1, <1>2
<1>4. \A j \in StoredIds : j < nextId'
  <2> SUFFICES ASSUME NEW j \in StoredIds PROVE j < nextId'
    OBVIOUS
  <2>1. j + 1 \in S /\ j \in Nat
    BY ServiceAssumptions DEF S, StoredIds, CommandIds
  <2>2. nextId' >= j + 1 /\ nextId' \in Nat
    BY <1>3, <2>1, ServiceAssumptions
  <2> QED BY <2>1, <2>2
<1>5. \A t \in Train : /\ cmd[t] # NoCommand => cmd[t].id \in StoredIds
                       /\ act[t] # NoCommand => act[t].id \in StoredIds
  BY <1>0, CommandFacts DEF RecoveryProgress, StoredIds, ServiceTypeOK
<1>6. ManagerInv'
  BY <1>0, HarmlessInv DEF ManagerInv, ManagerTypeOK
<1>7. ServiceTypeOK'
  BY <1>0, <1>3, <1>6 DEF ServiceTypeOK, ManagerInv
<1>8. CommandsAnswerable' /\ FiledByKey' /\ IdsUnique'
  BY <1>0 DEF CommandsAnswerable, FiledByKey, IdsUnique
<1>9. SequenceAhead'
  BY <1>0, <1>4, <1>5 DEF SequenceAhead, StoredIds
<1>10. JobOK' /\ SequenceBounded' /\ RecoveryProgress'
  BY <1>0 DEF JobOK, SequenceBounded, RecoveryProgress
<1>11. CommandsStored'
  BY <1>0 DEF CommandsStored, RecoveryProgress
<1> QED BY <1>6, <1>7, <1>8, <1>9, <1>10, <1>11

-----------------------------------------------------------------------------
(* The invariant.                                                          *)

\* A process that starts on an empty database satisfies the invariant.
LEMMA ServiceInitInv == ServiceInit => ServiceInv
<1> SUFFICES ASSUME ServiceInit PROVE ServiceInv
  OBVIOUS
<1>0. /\ phase = [t \in Train |-> "ABSENT"]
      /\ cmd = [t \in Train |-> NoCommand] /\ act = [t \in Train |-> NoCommand]
      /\ nextId = 1 /\ revision = 1 /\ stored = 1
      /\ rows = [i \in CommandIds |-> NoRow]
      /\ job = "restorePending" /\ cursor = 0 /\ cycleTime = 0 /\ handling = {}
      /\ ManagerInit
  BY DEF ServiceInit
<1>1. ManagerInv
  BY <1>0, ManagerInitInv
<1>2. ~serving /\ candidates = [r \in Resource |-> {}]
  BY <1>0 DEF ManagerInit
<1>3. ServiceTypeOK
  <2>1. 1 \in 1..(MaxCommand + 1)
    BY ServiceAssumptions
  <2> QED BY <1>0, <1>1, <2>1 DEF ServiceTypeOK, ManagerInv
<1>4. CommandsAnswerable /\ FiledByKey /\ IdsUnique /\ SequenceAhead
  BY <1>0, <1>2 DEF CommandsAnswerable, FiledByKey, IdsUnique, SequenceAhead
<1>5. JobOK /\ SequenceBounded /\ CommandsStored
  BY <1>0, <1>2 DEF JobOK, SequenceBounded, CommandsStored
<1>6. RecoveryProgress
  BY <1>0 DEF RecoveryProgress, StoredIds
<1> QED BY <1>1, <1>3, <1>4, <1>5, <1>6 DEF ServiceInv

\* A step that changes nothing keeps the invariant.
LEMMA StutterInv ==
    ASSUME ServiceInv, UNCHANGED serviceVars
    PROVE  ServiceInv'
<1> USE DEF ServiceInv
<1>0. /\ UNCHANGED <<managerVars, commandVars, revision, databaseVars>>
      /\ UNCHANGED <<phase, cmd, act, nextId, stored, rows, serving>>
      /\ UNCHANGED <<job, cursor, cycleTime, handling>>
  BY DEF serviceVars, managerVars, commandVars, databaseVars, jobVars
<1>1. /\ ManagerInv' /\ CommandsAnswerable' /\ FiledByKey' /\ SequenceAhead' /\ IdsUnique'
      /\ Unpromised' = Unpromised /\ StoredIds' = StoredIds
      /\ \A i \in StoredIds : Protected(i)' <=> Protected(i)
  BY <1>0, FrameInv
<1>2. ServiceTypeOK'
  BY <1>0, <1>1 DEF ServiceTypeOK, ManagerInv
<1>3. JobOK' /\ SequenceBounded' /\ CommandsStored' /\ RecoveryProgress'
  BY <1>0, <1>1 DEF JobOK, SequenceBounded, CommandsStored, RecoveryProgress
<1> QED BY <1>1, <1>2, <1>3

\* A step of the service whatever requests it gets: reports of any train on
\* any resource, with any time stamp.
ServerStep ==
    \/ Restart \/ RestoreCommand \/ RefuseToStart \/ PendingRestored \/ RecoveryDone
    \/ \E gone \in SUBSET Monitored, B \in SUBSET Train, now \in Time : UpdateTrains(B, gone, now)
    \/ \E gone \in SUBSET Monitored : RunMaintenance(gone)
    \/ \E t \in Train : CancelStale(t) \/ RollbackCommand(t)
    \/ MaintenanceDone \/ RollbackDone
    \/ job = "cleanup" /\ \E C \in Buildable : RefreshCandidates(C)
    \/ PlanHold
    \/ Planning /\ \E c \in candidates[PlanOrder[cursor]] : PlanRelease(c)
    \/ \E o \in DatabaseOutcome :
          \/ PersistCycle(o)
          \/ ReplaceRoutes(o)
          \/ \E t \in Train, now \in Time :
                \/ AcceptCommand(t, now, o)
                \/ RejectCommand(t, o)
                \/ \E r \in Resource \cup {NoResource}, I \in SUBSET Intersection :
                      ResourceCleared(t, r, I, now, o)

\* The steps of the specification are among them.
LEMMA NextIsServerStep == [ServiceNext]_serviceVars => [ServerStep]_serviceVars
BY DEF ServiceNext, ServerStep

\* Every step keeps the invariant.
LEMMA ServerStepInv == ServiceInv /\ [ServerStep]_serviceVars => ServiceInv'
<1> SUFFICES ASSUME ServiceInv, [ServerStep]_serviceVars PROVE ServiceInv'
  OBVIOUS
<1>1. CASE Restart \/ RestoreCommand \/ RefuseToStart \/ PendingRestored \/ RecoveryDone
  BY <1>1, RestartInv, RestoreCommandInv, RefuseToStartInv, PendingRestoredInv, RecoveryDoneInv
<1>2. ASSUME NEW gone \in SUBSET Monitored, NEW B \in SUBSET Train, NEW now \in Time,
             UpdateTrains(B, gone, now)
      PROVE  ServiceInv'
  BY <1>2, ObserveInv DEF Monitored
<1>3. ASSUME NEW gone \in SUBSET Monitored, RunMaintenance(gone)
      PROVE  ServiceInv'
  <2>1. gone \in SUBSET Train
    BY DEF Monitored
  <2>2. {} \in SUBSET Train
    OBVIOUS
  <2> QED BY <1>3, <2>1, <2>2, ObserveInv
<1>4. ASSUME NEW t \in Train, CancelStale(t) \/ RollbackCommand(t)
      PROVE  ServiceInv'
  BY <1>4, WithdrawCommandInv
<1>5. CASE MaintenanceDone \/ RollbackDone
  BY <1>5, LoopEndInv
<1>6. ASSUME NEW C \in Buildable, RefreshCandidates(C)
      PROVE  ServiceInv'
  BY <1>6, RefreshCandidatesInv
<1>7. CASE PlanHold
  BY <1>7, PlanHoldInv
<1>8. ASSUME Planning, NEW c \in candidates[PlanOrder[cursor]], PlanRelease(c)
      PROVE  ServiceInv'
  BY <1>8, PlanReleaseInv
<1>9. ASSUME NEW o \in DatabaseOutcome, PersistCycle(o) \/ ReplaceRoutes(o)
      PROVE  ServiceInv'
  BY <1>9, PersistCycleInv, ReplaceRoutesInv
<1>10. ASSUME NEW o \in DatabaseOutcome, NEW t \in Train, NEW now \in Time,
              AcceptCommand(t, now, o) \/ RejectCommand(t, o)
       PROVE  ServiceInv'
  BY <1>10, AcceptCommandInv, RejectCommandInv
<1>11. ASSUME NEW o \in DatabaseOutcome, NEW t \in Train, NEW now \in Time,
              NEW r \in Resource \cup {NoResource}, NEW I \in SUBSET Intersection,
              ResourceCleared(t, r, I, now, o)
       PROVE  ServiceInv'
  BY <1>11, ResourceClearedInv
<1>12. CASE UNCHANGED serviceVars
  BY <1>12, StutterInv
<1> QED BY <1>1, <1>2, <1>3, <1>4, <1>5, <1>6, <1>7, <1>8, <1>9, <1>10, <1>11, <1>12
        DEF ServerStep

\* So do those of the specification.
LEMMA ServiceStepInv == ServiceInv /\ [ServiceNext]_serviceVars => ServiceInv'
BY ServerStepInv, NextIsServerStep

\* The state of the service is well typed; in particular no cycle runs out
\* of the ids that UpdateTrains has found to be free.
THEOREM ServiceTypeCorrect == ServiceSpec => []ServiceTypeOK
<1>1. ServiceInv => ServiceTypeOK
  BY DEF ServiceInv
<1> QED BY <1>1, ServiceInitInv, ServiceStepInv, PTL DEF ServiceSpec

\* Every command the service offers is one the manager waits for, through
\* stale cleanups, rollbacks, duplicate reports, crashes and recovery: an
\* acknowledge never commits what confirmEntry then refuses.
THEOREM CommandsStayAnswerable == ServiceSpec => []CommandsAnswerable
<1>1. ServiceInv => CommandsAnswerable
  BY DEF ServiceInv
<1> QED BY <1>1, ServiceInitInv, ServiceStepInv, PTL DEF ServiceSpec

\* No command is visible to the game that the database does not hold
\* (updateTrains: "commands MySQL has not committed must not be exposed").
THEOREM ExposedCommandsAreDurable == ServiceSpec => []ExposedCommandsDurable
<1>1. ServiceInv => ExposedCommandsDurable
  BY DEF ServiceInv, CommandsStored, ExposedCommandsDurable, Idle
<1> QED BY <1>1, ServiceInitInv, ServiceStepInv, PTL DEF ServiceSpec

\* The safety of the tracks survives what the service does with the
\* manager, restarts and replaced topologies included: no head-on release,
\* no two trains on conflicting movements, no crossing before its clearance,
\* and no planned release into a full resource.
THEOREM ServiceKeepsTracksSafe ==
    ServiceSpec => [](/\ DirectionInterlock /\ NoConflictingReservations
                      /\ ClearanceSeparatesReservations
                      /\ PendingMatchesDecision /\ PlannedEntryHasRoom)
<1>1. ServiceInv => /\ DirectionInterlock /\ NoConflictingReservations
                    /\ ClearanceSeparatesReservations
                    /\ PendingMatchesDecision /\ PlannedEntryHasRoom
  BY DEF ServiceInv, ManagerInv, ReservationInv
<1> QED BY <1>1, ServiceInitInv, ServiceStepInv, PTL DEF ServiceSpec

-----------------------------------------------------------------------------
(* Action properties.                                                      *)

\* An UPDATE of the status column moves the row of its command forward.
LEMMA UpdateAdvances ==
    ASSUME ServiceInv, NEW i \in CommandIds, NEW j \in CommandIds,
           NEW From \in SUBSET Statuses, NEW to \in Statuses,
           rows' = UpdateStatus(i, From, to),
           \A s \in From : s # to =>
               <<s, to>> \in {<<"PENDING", "ACCEPTED">>, <<"PENDING", "REJECTED">>,
                              <<"ACCEPTED", "CLEARED">>},
           rows[j] # NoRow, rows'[j] # rows[j]
    PROVE  /\ rows'[j] # NoRow
           /\ rows'[j].command = rows[j].command
           /\ <<rows[j].status, rows'[j].status>> \in
                {<<"PENDING", "ACCEPTED">>, <<"PENDING", "REJECTED">>, <<"ACCEPTED", "CLEARED">>}
<1>1. rows \in [CommandIds -> Row \cup {NoRow}]
  BY DEF ServiceInv, ServiceTypeOK
<1>2. /\ rows' \in [CommandIds -> Row \cup {NoRow}]
      /\ rows'[j] # NoRow /\ rows'[j].command = rows[j].command
      /\ rows[j].status \in From /\ rows'[j].status = to
  BY <1>1, UpdateStatusFacts
<1>3. rows[j] \in Row /\ rows'[j] \in Row
  BY <1>1, <1>2
<1>4. rows[j].status # rows'[j].status
  BY <1>2, <1>3 DEF Row
<1> QED BY <1>2, <1>4

\* A cycle never writes over a row.
LEMMA InsertKeepsRows ==
    ASSUME ServiceInv, job = "plan", NEW j \in CommandIds, rows[j] # NoRow,
           rows' = InsertCommands({cmd[t] : t \in handling})
    PROVE  rows'[j] = rows[j]
<1>1. \A t \in handling : rows[cmd[t].id] = NoRow
  BY DEF ServiceInv, CommandsStored
<1>2. \A t \in handling : cmd[t].id # j
  BY <1>1
<1> QED BY <1>2, InsertFacts

\* A row that a step changes keeps its content and moves forward.
RowAdvances(i) ==
    (rows[i] # NoRow /\ rows'[i] # rows[i]) =>
        /\ rows'[i] # NoRow
        /\ rows'[i].command = rows[i].command
        /\ <<rows[i].status, rows'[i].status>> \in
              {<<"PENDING", "ACCEPTED">>, <<"PENDING", "REJECTED">>, <<"ACCEPTED", "CLEARED">>}

\* Every step of the service moves the rows forward.
LEMMA StepAdvancesRows ==
    ASSUME ServiceInv, ServerStep, NEW j \in CommandIds, rows[j] # NoRow, rows'[j] # rows[j]
    PROVE  /\ rows'[j] # NoRow
           /\ rows'[j].command = rows[j].command
           /\ <<rows[j].status, rows'[j].status>> \in
                {<<"PENDING", "ACCEPTED">>, <<"PENDING", "REJECTED">>, <<"ACCEPTED", "CLEARED">>}
<1>0. \A t \in Train : /\ cmd[t] # NoCommand => cmd[t].id \in CommandIds
                       /\ act[t] # NoCommand => act[t].id \in CommandIds
  BY CommandFacts DEF ServiceInv, ServiceTypeOK
<1>1. ASSUME NEW o \in DatabaseOutcome, PersistCycle(o) PROVE FALSE
  <2>1. job = "plan" /\ rows' = InsertCommands({cmd[t] : t \in handling})
    BY <1>1 DEF PersistCycle
  <2> QED BY <2>1, InsertKeepsRows
<1>2. ASSUME NEW o \in DatabaseOutcome, NEW t \in Train, NEW now \in Time,
             AcceptCommand(t, now, o)
      PROVE  /\ rows'[j] # NoRow
             /\ rows'[j].command = rows[j].command
             /\ <<rows[j].status, rows'[j].status>> \in
                   {<<"PENDING", "ACCEPTED">>, <<"PENDING", "REJECTED">>,
                    <<"ACCEPTED", "CLEARED">>}
  <2>1. cmd[t].id \in CommandIds /\ rows' = UpdateStatus(cmd[t].id, {"PENDING"}, "ACCEPTED")
    BY <1>0, <1>2 DEF AcceptCommand
  <2> QED BY <2>1, UpdateAdvances DEF Statuses
<1>3. ASSUME NEW o \in DatabaseOutcome, NEW t \in Train, RejectCommand(t, o)
      PROVE  /\ rows'[j] # NoRow
             /\ rows'[j].command = rows[j].command
             /\ <<rows[j].status, rows'[j].status>> \in
                   {<<"PENDING", "ACCEPTED">>, <<"PENDING", "REJECTED">>,
                    <<"ACCEPTED", "CLEARED">>}
  <2>1. cmd[t].id \in CommandIds /\ rows' = UpdateStatus(cmd[t].id, {"PENDING"}, "REJECTED")
    BY <1>0, <1>3 DEF RejectCommand
  <2> QED BY <2>1, UpdateAdvances DEF Statuses
<1>4. ASSUME NEW o \in DatabaseOutcome, NEW t \in Train, NEW now \in Time,
             NEW r \in Resource \cup {NoResource}, NEW I \in SUBSET Intersection,
             ResourceCleared(t, r, I, now, o)
      PROVE  /\ rows'[j] # NoRow
             /\ rows'[j].command = rows[j].command
             /\ <<rows[j].status, rows'[j].status>> \in
                   {<<"PENDING", "ACCEPTED">>, <<"PENDING", "REJECTED">>,
                    <<"ACCEPTED", "CLEARED">>}
  <2>1. /\ act[t].id \in CommandIds
        /\ rows' = UpdateStatus(act[t].id, {"ACCEPTED", "CLEARED"}, "CLEARED")
    BY <1>0, <1>4 DEF ResourceCleared
  <2> QED BY <2>1, UpdateAdvances DEF Statuses
<1>5. rows' = rows \/ (\E o \in DatabaseOutcome :
           \/ PersistCycle(o)
           \/ \E t \in Train, now \in Time :
                 \/ AcceptCommand(t, now, o) \/ RejectCommand(t, o)
                 \/ \E r \in Resource \cup {NoResource}, I \in SUBSET Intersection :
                       ResourceCleared(t, r, I, now, o))
  BY DEF ServerStep, Restart, RestoreCommand, RefuseToStart, PendingRestored, RecoveryDone,
         UpdateTrains, RunMaintenance, CancelStale, RollbackCommand, MaintenanceDone,
         RollbackDone, RefreshCandidates, PlanHold, PlanRelease, ReplaceRoutes, databaseVars
<1> QED BY <1>1, <1>2, <1>3, <1>4, <1>5

\* The content of a stored command never changes and its status only
\* advances (InsertCommands, UpdateStatus): no process, whatever it lost in
\* a crash and whatever transactions were left in doubt, issues an id again
\* or answers a command twice.
THEOREM RowsAdvance == ServiceSpec => RowsOnlyAdvance
<1>1. ServiceInv /\ [ServiceNext]_serviceVars => [\A i \in CommandIds : RowAdvances(i)]_serviceVars
  BY StepAdvancesRows, NextIsServerStep DEF RowAdvances
<1> QED BY <1>1, ServiceInitInv, ServiceStepInv, PTL DEF ServiceSpec, RowsOnlyAdvance, RowAdvances

\* The server starts to serve by ending its recovery and in no other way.
LEMMA OnlyRecoveryServes ==
    ASSUME ServiceInv, [ServerStep]_serviceVars, ~serving, serving'
    PROVE  RecoveryDone
<1>1. job \in {"restorePending", "restoreActive", "refused"} /\ ~Idle
  BY DEF ServiceInv, JobOK, Idle
<1>2. ~(Restart \/ RestoreCommand \/ RefuseToStart \/ PendingRestored \/ UNCHANGED serviceVars)
  BY DEF Restart, RestoreCommand, RestorePending, RestoreActive, RefuseToStart, PendingRestored,
         serviceVars, managerVars
<1>3. /\ \A B, gone, now : ~UpdateTrains(B, gone, now) /\ ~RunMaintenance(gone)
      /\ \A t : ~CancelStale(t) /\ ~RollbackCommand(t)
      /\ ~MaintenanceDone /\ ~RollbackDone /\ job # "cleanup" /\ ~PlanHold /\ ~Planning
  BY <1>1 DEF UpdateTrains, RunMaintenance, CancelStale, RollbackCommand, MaintenanceDone,
              RollbackDone, PlanHold, Planning
<1>4. \A o : ~PersistCycle(o) /\ ~ReplaceRoutes(o)
  BY <1>1 DEF PersistCycle, ReplaceRoutes
<1>5. \A o, t, now : ~AcceptCommand(t, now, o) /\ ~RejectCommand(t, o)
  BY <1>1 DEF AcceptCommand, RejectCommand
<1>6. ASSUME NEW o, NEW t, NEW now, NEW r, NEW I, ResourceCleared(t, r, I, now, o)
      PROVE  FALSE
  <2>1. Idle
    BY <1>6 DEF ResourceCleared
  <2> QED BY <1>1, <2>1
<1> QED BY <1>2, <1>3, <1>4, <1>5, <1>6 DEF ServerStep

\* The promises that the database holds are kept by a server that starts to
\* serve.
PromisesKept ==
    (Persistent /\ CommandRecovery /\ ~serving /\ serving') =>
        \A i \in StoredIds : rows[i].status \in {"PENDING", "ACCEPTED"} =>
            LET c == rows[i].command
            IN  /\ IF rows[i].status = "PENDING" THEN commandPending'[c.resource]
                                                 ELSE occupancy'[c.resource] > 0
                /\ \A m \in c.movements : holder'[m] = c.train

\* Every step of the service keeps them.
LEMMA StepKeepsPromises ==
    ASSUME ServiceInv, [ServerStep]_serviceVars
    PROVE  PromisesKept
<1> SUFFICES ASSUME Persistent, CommandRecovery, ~serving, serving',
                    NEW i \in StoredIds, rows[i].status \in {"PENDING", "ACCEPTED"}
             PROVE  /\ IF rows[i].status = "PENDING" THEN commandPending'[rows[i].command.resource]
                                                     ELSE occupancy'[rows[i].command.resource] > 0
                    /\ \A m \in rows[i].command.movements : holder'[m] = rows[i].command.train
  BY DEF PromisesKept
<1>1. RecoveryDone
  BY OnlyRecoveryServes
<1>2. /\ job = "restoreActive" /\ Unrestored = {}
      /\ UNCHANGED <<commandPending, occupancy, holder>>
  BY <1>1 DEF RecoveryDone, StartServing, corridorVars, reservationVars
<1>3. rows[i].status = "ACCEPTED" => i <= cursor
  <2>1. i \in CommandIds /\ rows[i] # NoRow /\ i \in Nat /\ cursor \in Nat
    BY ServiceAssumptions DEF StoredIds, CommandIds, ServiceInv, ServiceTypeOK
  <2>2. rows[i].status = "ACCEPTED" => ~(i > cursor)
    BY <1>2, <2>1 DEF Unrestored, RecoveredIds
  <2> QED BY <2>1, <2>2
<1>4. Protected(i)
  BY <1>2, <1>3 DEF ServiceInv, RecoveryProgress
<1> QED BY <1>2, <1>4 DEF Protected

\* When a restarted server starts to serve, every stored command that may
\* still be answered blocks its resource, every accepted one is counted, and
\* both hold their paths (recoverDispatchState).
THEOREM RestartProtects == ServiceSpec => RestartKeepsPromises
<1>1. ServiceInv /\ [ServiceNext]_serviceVars => [PromisesKept]_serviceVars
  BY StepKeepsPromises, NextIsServerStep
<1> QED BY <1>1, ServiceInitInv, ServiceStepInv, PTL
        DEF ServiceSpec, RestartKeepsPromises, PromisesKept

\* A serving server that issues a command gives it an id no row has.
LEMMA NewCommandsHaveNewIds ==
    ASSUME ServiceInv, [ServerStep]_serviceVars, serving,
           NEW t \in Train, cmd[t] = NoCommand, cmd'[t] # NoCommand
    PROVE  cmd'[t].id \notin StoredIds
<1>0. cmd \in [Train -> Command \cup {NoCommand}] /\ cmd' # cmd /\ ~Restoring
  BY DEF ServiceInv, ServiceTypeOK, JobOK, Restoring
<1>1. ASSUME NEW c \in candidates[PlanOrder[cursor]], PlanRelease(c)
      PROVE  cmd'[t].id = nextId
  <2>1. cmd[c.train] = NoCommand /\ c.train = t
    BY <1>0, <1>1 DEF PlanRelease
  <2>2. cmd' = [cmd EXCEPT ![c.train] =
                  [id |-> nextId, train |-> c.train, resource |-> c.resource,
                   movements |-> c.movements, at |-> cycleTime, rev |-> revision]]
    BY <1>1, <2>1 DEF PlanRelease
  <2> QED BY <1>0, <2>1, <2>2
<1>2. \A i \in StoredIds : i < nextId /\ i \in Nat /\ nextId \in Nat
  BY ServiceAssumptions
     DEF ServiceInv, ServiceTypeOK, SequenceAhead, StoredIds, CommandIds
<1>3. ~(Restart \/ RestoreCommand \/ RefuseToStart \/ PendingRestored \/ RecoveryDone)
  BY <1>0 DEF Restart, FreshProcess, RestoreCommand, RefuseToStart, PendingRestored, RecoveryDone,
              Restoring
<1>4. /\ \A B, gone, now : ~UpdateTrains(B, gone, now) /\ ~RunMaintenance(gone)
      /\ ~MaintenanceDone /\ ~RollbackDone /\ ~PlanHold /\ \A C : ~RefreshCandidates(C)
      /\ \A o : ~PersistCycle(o) /\ ~ReplaceRoutes(o)
      /\ ~UNCHANGED serviceVars
  BY <1>0 DEF UpdateTrains, RunMaintenance, MaintenanceDone, RollbackDone, PlanHold,
              RefreshCandidates, PersistCycle, ReplaceRoutes, commandVars, serviceVars
<1>5. ASSUME NEW u \in Train, cmd' = [cmd EXCEPT ![u] = NoCommand] PROVE FALSE
  BY <1>0, <1>5
<1>6. \A u \in Train : ~CancelStale(u) /\ ~RollbackCommand(u)
  BY <1>5 DEF CancelStale, RollbackCommand
<1>7. \A o, now : \A u \in Train : ~AcceptCommand(u, now, o) /\ ~RejectCommand(u, o)
  BY <1>0, <1>5 DEF AcceptCommand, RejectCommand, MemoryUnchanged, commandVars
<1>8. ASSUME NEW o, NEW u, NEW now, NEW r, NEW I, ResourceCleared(u, r, I, now, o) PROVE FALSE
  <2>1. UNCHANGED cmd
    BY <1>8 DEF ResourceCleared, MemoryUnchanged, commandVars
  <2> QED BY <1>0, <2>1
<1> QED BY <1>1, <1>2, <1>3, <1>4, <1>6, <1>7, <1>8 DEF ServerStep

\* No row disappears.
LEMMA RowsStay ==
    ASSUME ServiceInv, [ServerStep]_serviceVars
    PROVE  StoredIds \subseteq StoredIds'
<1> SUFFICES ASSUME NEW i \in CommandIds, rows[i] # NoRow PROVE rows'[i] # NoRow
  BY DEF StoredIds
<1>1. CASE ServerStep
  BY <1>1, StepAdvancesRows
<1>2. CASE UNCHANGED serviceVars
  BY <1>2 DEF serviceVars, databaseVars
<1> QED BY <1>1, <1>2

=============================================================================
