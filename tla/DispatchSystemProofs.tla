-------------------------- MODULE DispatchSystemProofs --------------------------
(***************************************************************************)
(* Proofs about the whole loop of DispatchSystem, for any number of trains *)
(* and corridors, any faults and any bounds: the server in the loop, and   *)
(* how a frame of the mod keeps what stands behind its passages and its    *)
(* reports, on which TrainSafetyProofs builds.                             *)
(***************************************************************************)
EXTENDS DispatchSystem, RailwayDispatchServiceProofs, TLAPS

Frames == INSTANCE ModRuntimeProofs WITH CommandOf <- <<>>, MaxInbox <- 1, reported <- 0

-----------------------------------------------------------------------------
(* The frames of the mod.                                                  *)

\* The frames of the system are those that ModRuntimeProofs is about: finishing
\* a command,
LEMMA SameFinish ==
    ASSUME NEW w, NEW p
    PROVE  Mod!Finish(w, p) = Frames!Finish(w, p)
BY DEF Mod!Finish, Frames!Finish, Mod!Cardinality, Frames!Cardinality

\* a report,
LEMMA SameReport ==
    ASSUME NEW kind, NEW c
    PROVE  Mod!Report(kind, c) = Frames!Report(kind, c)
BY DEF Mod!Report, Frames!Report

\* a rejection,
LEMMA SameReject ==
    ASSUME NEW w, NEW p
    PROVE  Mod!RejectAndFinish(w, p) = Frames!RejectAndFinish(w, p)
BY SameFinish, SameReport DEF Mod!RejectAndFinish, Frames!RejectAndFinish

\* one command of the queue,
LEMMA SameDrain ==
    ASSUME NEW w, NEW c
    PROVE  Mod!DrainCommand(w, c) = Frames!DrainCommand(w, c)
BY SameReject DEF Mod!DrainCommand, Frames!DrainCommand, Mod!NewPassage, Frames!NewPassage

\* all of them,
LEMMA SameDrains ==  Mod!DrainCommands = Frames!DrainCommands
BY SameDrain DEF Mod!DrainCommands, Frames!DrainCommands

\* a passage,
LEMMA SameUpdate ==
    ASSUME NEW w, NEW t, NEW v, NEW elapsed
    PROVE  Mod!UpdatePassage(w, t, v, elapsed) = Frames!UpdatePassage(w, t, v, elapsed)
BY SameFinish, SameReport DEF Mod!UpdatePassage, Frames!UpdatePassage

\* one train,
LEMMA SameTickTrain ==
    ASSUME NEW w, NEW t, NEW v, NEW elapsed
    PROVE  Mod!TickTrain(w, t, v, elapsed) = Frames!TickTrain(w, t, v, elapsed)
BY SameReject, SameUpdate DEF Mod!TickTrain, Frames!TickTrain, Mod!Outdated, Frames!Outdated

\* all of them,
LEMMA SameTrains ==
    ASSUME NEW w, NEW gone, NEW elapsed
    PROVE  Mod!TickTrains(w, gone, elapsed) = Frames!TickTrains(w, gone, elapsed)
BY SameTickTrain DEF Mod!TickTrains, Frames!TickTrains

\* one train that is missing,
LEMMA SameMissing ==
    ASSUME NEW w, NEW t
    PROVE  Mod!RemoveMissing(w, t) = Frames!RemoveMissing(w, t)
BY SameReject, SameFinish, SameReport DEF Mod!RemoveMissing, Frames!RemoveMissing

\* all of them,
LEMMA SameMissings ==
    ASSUME NEW w
    PROVE  Mod!RemoveMissingPassages(w) = Frames!RemoveMissingPassages(w)
BY SameMissing DEF Mod!RemoveMissingPassages, Frames!RemoveMissingPassages

\* and so the whole frame.
LEMMA SameFrame ==
    ASSUME NEW gone, NEW elapsed
    PROVE  Mod!TickCore(gone, elapsed) = Frames!TickCore(gone, elapsed)
BY SameDrains, SameTrains, SameMissings DEF Mod!TickCore, Frames!TickCore

\* The mod of the system is one that ModRuntimeProofs is about.
LEMMA FramesAssumed == Frames!RuntimeAssumptions /\ Frames!GameTrain = Train
<1>1. Frames!GameTrain = Train
  BY SystemAssumptions DEF Frames!GameTrain, Frames!Range
<1>2. Frames!Ids = {} /\ Frames!Commands = {}
  BY DEF Frames!Ids, Frames!Commands
<1>3. NoPassage \notin Frames!Passage(Frames!Commands)
  BY <1>2 DEF Frames!Passage
<1>4. TrainOrder \in Seq(Frames!GameTrain)
  BY <1>1, SystemAssumptions
<1>5. MaxFinished \in Nat /\ MaxRevision \in Nat /\ 1 \in Nat
  BY SystemAssumptions, ServiceAssumptions
<1> QED BY <1>1, <1>2, <1>3, <1>4, <1>5 DEF Frames!RuntimeAssumptions

\* One frame turns the commands C the mod has into reports on them.
LEMMA FrameFacts ==
    ASSUME NEW C, \A c \in C : c.train \in Train, NEW elapsed,
           inbox \in Seq(C), passages \in Frames!PassagesOf(C), finished \subseteq Frames!IdsOf(C)
    PROVE  Mod!TickCore({}, elapsed) \in Frames!Work(C)
<1>1. \A c \in C : c.train \in Frames!GameTrain
  BY FramesAssumed
<1>2. Frames!TickCore({}, elapsed) \in Frames!Work(C)
  BY <1>1, FramesAssumed, Frames!FrameTyped
<1> QED BY <1>2, SameFrame

-----------------------------------------------------------------------------
(* The inductive invariant.                                                *)

\* The commands as they are sent to the game; with a database, the game
\* only gets to know commands whose rows are there.
ModCommands == [id : CommandIds, train : Train, resource : Resource, line : Line, rev : Nat]
KnownCommands == {c \in ModCommands : Persistent => c.id \in StoredIds}

\* All that the mod works on, and all that it reports, is about these.
ModKnows ==
    /\ inbox \in Seq(KnownCommands)
    /\ passages \in Frames!PassagesOf(KnownCommands)
    /\ finished \subseteq Frames!IdsOf(KnownCommands)
    /\ queue \in Seq(Frames!PostsOf(KnownCommands))

SystemInv == ServiceInv /\ ModKnows

\* More commands, more passages, ids and reports.
LEMMA Monotone ==
    ASSUME NEW C, NEW D, C \subseteq D
    PROVE  /\ Seq(C) \subseteq Seq(D)
           /\ Frames!PassagesOf(C) \subseteq Frames!PassagesOf(D)
           /\ Frames!IdsOf(C) \subseteq Frames!IdsOf(D)
           /\ Seq(Frames!PostsOf(C)) \subseteq Seq(Frames!PostsOf(D))
<1>1. Seq(C) \subseteq Seq(D)
  OBVIOUS
<1>2. Frames!Passage(C) \subseteq Frames!Passage(D)
  BY DEF Frames!Passage
<1>3. Frames!PassagesOf(C) \subseteq Frames!PassagesOf(D)
  BY <1>2 DEF Frames!PassagesOf
<1>4. Frames!IdsOf(C) \subseteq Frames!IdsOf(D)
  BY DEF Frames!IdsOf
<1>5. Frames!PostsOf(C) \subseteq Frames!PostsOf(D)
  BY DEF Frames!PostsOf
<1>6. Seq(Frames!PostsOf(C)) \subseteq Seq(Frames!PostsOf(D))
  BY <1>5
<1> QED BY <1>1, <1>3, <1>4, <1>6

\* While no row disappears, what the mod knows stays known.
LEMMA KnowledgeKept ==
    ASSUME ModKnows, StoredIds \subseteq StoredIds',
           UNCHANGED <<inbox, passages, finished>>, queue' \in Seq(Frames!PostsOf(KnownCommands))
    PROVE  ModKnows'
<1>1. KnownCommands \subseteq KnownCommands'
  BY DEF KnownCommands
<1>2. PICK C : C = KnownCommands
  OBVIOUS
<1>3. PICK D : D = KnownCommands'
  OBVIOUS
<1>4. /\ Seq(C) \subseteq Seq(D)
      /\ Frames!PassagesOf(C) \subseteq Frames!PassagesOf(D)
      /\ Frames!IdsOf(C) \subseteq Frames!IdsOf(D)
      /\ Seq(Frames!PostsOf(C)) \subseteq Seq(Frames!PostsOf(D))
  BY <1>1, <1>2, <1>3, Monotone
<1>5. /\ inbox' \in Seq(D) /\ passages' \in Frames!PassagesOf(D)
      /\ finished' \subseteq Frames!IdsOf(D) /\ queue' \in Seq(Frames!PostsOf(D))
  BY <1>2, <1>4 DEF ModKnows
<1> QED BY <1>3, <1>5 DEF ModKnows

-----------------------------------------------------------------------------
(* Every step of the system is one of the service, or none.                *)

\* A report is about a train and a resource.
LEMMA ReportFacts ==
    ASSUME ModKnows, queue # <<>>
    PROVE  /\ Head(queue).train \in Train /\ Head(queue).resource \in Resource
           /\ Tail(queue) \in Seq(Frames!PostsOf(KnownCommands))
<1>1. Head(queue) \in Frames!PostsOf(KnownCommands)
  BY DEF ModKnows
<1>2. Tail(queue) \in Seq(Frames!PostsOf(KnownCommands))
  BY DEF ModKnows
<1>3. PICK kind \in {"accept", "reject", "cleared"}, c \in KnownCommands :
         Head(queue) = Frames!Report(kind, c)
  BY <1>1 DEF Frames!PostsOf
<1> QED BY <1>2, <1>3 DEF Frames!Report, KnownCommands, ModCommands

\* What the server does with a report.
LEMMA HandleReportStep ==
    ASSUME NEW p, p.train \in Train, p.resource \in Resource, NEW now \in Time,
           NEW o \in Ending, HandleReport(p, now, o)
    PROVE  [ServerStep]_serviceVars
<1>1. o \in DatabaseOutcome
  BY DEF Ending
<1>2. CASE AcceptCommand(p.train, now, o) \/ RejectCommand(p.train, o)
  BY <1>1, <1>2 DEF ServerStep
<1>3. CASE ResourceCleared(p.train, p.resource, {}, now, o)
  <2>1. p.resource \in Resource \cup {NoResource} /\ {} \in SUBSET Intersection
    OBVIOUS
  <2> QED BY <1>1, <1>3, <2>1 DEF ServerStep
<1>4. CASE UNCHANGED serviceVars
  BY <1>4
<1> QED BY <1>2, <1>3, <1>4 DEF HandleReport

\* The loops of the service.
LEMMA ServiceLoopStep ==
    ASSUME ServiceLoop
    PROVE  [ServerStep]_serviceVars
<1>1. Ending \subseteq DatabaseOutcome
  BY DEF Ending
<1>2. \A C \in Buildable : Build(C) => RefreshCandidates(C)
  BY DEF Build
<1> QED BY <1>1, <1>2 DEF ServiceLoop, ServerStep

\* The requests that the mod or the game sends, and the restart.
LEMMA RequestStep ==
    /\ \A gone \in SUBSET Monitored : Maintenance(gone) => ServerStep
    /\ \A gone \in SUBSET Monitored : \A now \in Time : Upload(gone, now) => ServerStep
    /\ \A o \in Ending : UploadRoutes(o) => ServerStep
    /\ SystemRestart => ServerStep
<1>1. ASSUME NEW gone \in SUBSET Monitored, Maintenance(gone) PROVE ServerStep
  BY <1>1 DEF Maintenance, ServerStep
<1>2. ASSUME NEW gone \in SUBSET Monitored, NEW now \in Time, Upload(gone, now) PROVE ServerStep
  <2>1. PICK B : B = {t \in Train : snapshot[t] # Absent} \ gone
    OBVIOUS
  <2>2. B \in SUBSET Train /\ UpdateTrains(B, gone, now)
    BY <1>2, <2>1 DEF Upload
  <2> QED BY <2>2 DEF ServerStep
<1>3. ASSUME NEW o \in Ending, UploadRoutes(o) PROVE ServerStep
  BY <1>3 DEF UploadRoutes, Ending, ServerStep
<1>4. ASSUME SystemRestart PROVE ServerStep
  BY <1>4 DEF SystemRestart, ServerStep
<1> QED BY <1>1, <1>2, <1>3, <1>4

\* A step of the whole system is a step of the service on some request, or
\* leaves the service alone.
LEMMA SystemStepServes ==
    ASSUME SystemInv, [SystemNext]_systemVars
    PROVE  [ServerStep]_serviceVars
<1>1. CASE \/ \E t \in Train : Move(t) \/ Vanish(t) \/ Poll(t)
           \/ Sample \/ PollTopology \/ \E elapsed \in BOOLEAN : Frame(elapsed)
           \/ UNCHANGED systemVars
  BY <1>1 DEF Move, Vanish, Poll, Sample, PollTopology, Frame, GameTurn, systemVars, stepVars
<1>2. ASSUME NEW now \in Time, NEW o \in Ending, Deliver(now, o) \/ DeliverUnanswered(now, o)
      PROVE  [ServerStep]_serviceVars
  <2>1. queue # <<>> /\ HandleReport(Head(queue), now, o)
    BY <1>2 DEF Deliver, DeliverUnanswered
  <2> QED BY <2>1, ReportFacts, HandleReportStep DEF SystemInv
<1>3. CASE \/ \E now \in Time, gone \in SUBSET Monitored : Upload(gone, now)
           \/ \E gone \in SUBSET Monitored : Maintenance(gone)
           \/ \E o \in Ending : UploadRoutes(o)
           \/ SystemRestart
  BY <1>3, RequestStep
<1>4. CASE ServiceLoop
  BY <1>4, ServiceLoopStep
<1> QED BY <1>1, <1>2, <1>3, <1>4 DEF SystemNext, SystemStep

-----------------------------------------------------------------------------
(* What the mod knows.                                                     *)

\* A command the game is sent is one whose row is there.
LEMMA PollKnows ==
    ASSUME SystemInv, NEW t \in Train, Poll(t), StoredIds' = StoredIds
    PROVE  ModKnows'
<1>1. /\ cmd[t] \in Command /\ cmd[t] # NoCommand /\ Idle
      /\ inbox' = inbox \o <<Sent(cmd[t])>>
      /\ UNCHANGED <<passages, finished, queue>>
  BY DEF Poll, Mod!AcceptCommandResponse, SystemInv, ServiceInv, ServiceTypeOK
<1>2. Sent(cmd[t]) \in ModCommands
  BY <1>1, CommandFacts, ManagerAssumptions DEF Sent, ModCommands
<1>3. Persistent => Sent(cmd[t]).id \in StoredIds
  BY <1>1, CommandFacts DEF Sent, StoredIds, SystemInv, ServiceInv, CommandsStored, Idle
<1>4. Sent(cmd[t]) \in KnownCommands /\ KnownCommands' = KnownCommands
  BY <1>2, <1>3 DEF KnownCommands
<1>5. PICK C : C = KnownCommands
  OBVIOUS
<1>6. inbox' \in Seq(C)
  BY <1>1, <1>4, <1>5 DEF SystemInv, ModKnows
<1> QED BY <1>1, <1>4, <1>5, <1>6 DEF SystemInv, ModKnows

\* A frame reports on nothing else.
LEMMA FrameKnows ==
    ASSUME SystemInv, NEW elapsed \in BOOLEAN, Frame(elapsed), StoredIds' = StoredIds
    PROVE  ModKnows'
<1>1. PICK w : w = Mod!TickCore({}, elapsed)
  OBVIOUS
<1>2. PICK C : C = KnownCommands
  OBVIOUS
<1>3. /\ inbox' = <<>> /\ passages' = w.passages /\ finished' = w.finished
      /\ queue' = queue \o w.posts
  BY <1>1 DEF Frame, Mod!Tick
<1>4. \A c \in C : c.train \in Train
  BY <1>2 DEF KnownCommands, ModCommands
<1>5. /\ inbox \in Seq(C) /\ passages \in Frames!PassagesOf(C) /\ finished \subseteq Frames!IdsOf(C)
      /\ queue \in Seq(Frames!PostsOf(C))
  BY <1>2 DEF SystemInv, ModKnows
<1>6. w \in Frames!Work(C)
  BY <1>1, <1>4, <1>5, FrameFacts
<1>7. /\ w.passages \in Frames!PassagesOf(C) /\ w.finished \subseteq Frames!IdsOf(C)
      /\ w.posts \in Seq(Frames!PostsOf(C))
  BY <1>6 DEF Frames!Work
<1>8. queue' \in Seq(Frames!PostsOf(C)) /\ inbox' \in Seq(C)
  BY <1>3, <1>5, <1>7
<1>9. KnownCommands' = C
  BY <1>2 DEF KnownCommands
<1> QED BY <1>3, <1>7, <1>8, <1>9 DEF ModKnows

\* Every step keeps what the mod knows.
LEMMA SystemStepKnows ==
    ASSUME SystemInv, [SystemNext]_systemVars
    PROVE  ModKnows'
<1>1. StoredIds \subseteq StoredIds'
  BY SystemStepServes, RowsStay DEF SystemInv
<1>2. ModKnows /\ queue \in Seq(Frames!PostsOf(KnownCommands))
  BY DEF SystemInv, ModKnows
<1>3. ASSUME NEW t \in Train, Poll(t) PROVE ModKnows'
  <2>1. StoredIds' = StoredIds
    BY <1>3 DEF Poll, GameTurn, serviceVars, databaseVars, StoredIds
  <2> QED BY <1>3, <2>1, PollKnows
<1>4. ASSUME NEW elapsed \in BOOLEAN, Frame(elapsed) PROVE ModKnows'
  <2>1. StoredIds' = StoredIds
    BY <1>4 DEF Frame, GameTurn, serviceVars, databaseVars, StoredIds
  <2> QED BY <1>4, <2>1, FrameKnows
<1>5. ASSUME NEW now \in Time, NEW o \in Ending, Deliver(now, o) PROVE ModKnows'
  <2>1. queue # <<>> /\ queue' = Tail(queue) /\ UNCHANGED <<inbox, passages, finished>>
    BY <1>5 DEF Deliver, modVars
  <2> QED BY <1>1, <1>2, <2>1, ReportFacts, KnowledgeKept
<1>6. CASE UNCHANGED <<inbox, passages, finished, queue>>
  BY <1>1, <1>2, <1>6, KnowledgeKept
<1>7. CASE \/ \E t \in Train : Move(t) \/ Vanish(t)
           \/ Sample \/ PollTopology
           \/ UNCHANGED systemVars
  <2>1. UNCHANGED <<inbox, passages, finished, queue>>
    BY <1>7 DEF Move, Vanish, Sample, PollTopology, Mod!UpdateTrainSnapshot,
                Mod!AcceptTopologyResponse, systemVars, stepVars, gameVars, modVars
  <2> QED BY <1>6, <2>1
<1>8. CASE \/ \E now \in Time, o \in Ending : DeliverUnanswered(now, o)
           \/ \E now \in Time, gone \in SUBSET Monitored : Upload(gone, now)
           \/ \E gone \in SUBSET Monitored : Maintenance(gone)
           \/ ServiceLoop
           \/ \E o \in Ending : UploadRoutes(o)
           \/ SystemRestart
  <2>1. UNCHANGED gameVars
    BY <1>8 DEF DeliverUnanswered, Upload, Maintenance, ServiceLoop, UploadRoutes, SystemRestart
  <2>2. UNCHANGED <<inbox, passages, finished, queue>>
    BY <2>1 DEF gameVars, modVars
  <2> QED BY <1>6, <2>2
<1> QED BY <1>3, <1>4, <1>5, <1>7, <1>8 DEF SystemNext, SystemStep

\* Every step keeps the invariant.
LEMMA SystemStepInv == SystemInv /\ [SystemNext]_systemVars => SystemInv'
BY SystemStepServes, SystemStepKnows, ServerStepInv DEF SystemInv

\* The first state satisfies it.
LEMMA SystemInitInv == SystemInit => SystemInv
<1> SUFFICES ASSUME SystemInit PROVE SystemInv
  OBVIOUS
<1>1. /\ inbox = <<>> /\ finished = {} /\ queue = <<>>
      /\ passages = [t \in Train |-> NoPassage]
  BY DEF SystemInit
<1>2. passages \in Frames!PassagesOf(KnownCommands)
  BY <1>1, FramesAssumed DEF Frames!PassagesOf
<1>3. ModKnows
  BY <1>1, <1>2 DEF ModKnows
<1> QED BY <1>3, ServiceInitInv DEF SystemInit, SystemInv

-----------------------------------------------------------------------------
(* The server in the loop: the theorems.                                   *)

\* The tracks stay safe in the whole loop, whichever of the faults happen:
\* the server never lets trains into both directions of a corridor or onto
\* conflicting movements, and every command it offers is one it can still
\* confirm and the database holds.
THEOREM SystemKeepsTracksSafe ==
    SystemSpec => [](/\ DirectionInterlock /\ NoConflictingReservations
                     /\ ClearanceSeparatesReservations
                     /\ CommandsAnswerable /\ ExposedCommandsDurable)
<1>1. SystemInv => /\ DirectionInterlock /\ NoConflictingReservations
                   /\ ClearanceSeparatesReservations
                   /\ CommandsAnswerable /\ ExposedCommandsDurable
  BY DEF SystemInv, ServiceInv, ManagerInv, ReservationInv, CommandsStored,
         ExposedCommandsDurable, Idle
<1> QED BY <1>1, SystemInitInv, SystemStepInv, PTL DEF SystemSpec

\* With a database, a command is never issued under an id the mod has
\* finished with and would ignore (DispatchRuntime.Finish), whatever was
\* lost, repeated or restarted before.
THEOREM IdsStayFresh == Persistent => (SystemSpec => NewCommandsNotFinished)
<1> SUFFICES ASSUME Persistent PROVE SystemSpec => NewCommandsNotFinished
  OBVIOUS
<1> DEFINE Fresh == \A t \in Train : (serving /\ cmd[t] = NoCommand /\ cmd'[t] # NoCommand)
                       => cmd'[t].id \notin finished
<1>1. ASSUME SystemInv, [SystemNext]_systemVars
      PROVE  Fresh
  <2> SUFFICES ASSUME NEW t \in Train, serving, cmd[t] = NoCommand, cmd'[t] # NoCommand
               PROVE  cmd'[t].id \notin finished
    OBVIOUS
  <2>1. cmd'[t].id \notin StoredIds
    BY <1>1, SystemStepServes, NewCommandsHaveNewIds DEF SystemInv
  <2>2. finished \subseteq StoredIds
    BY <1>1 DEF SystemInv, ModKnows, Frames!IdsOf, KnownCommands
  <2> QED BY <2>1, <2>2
<1>2. SystemInv /\ [SystemNext]_systemVars => [Fresh]_systemVars
  BY <1>1
<1> QED BY <1>2, SystemInitInv, SystemStepInv, PTL DEF SystemSpec, NewCommandsNotFinished

\* Nor does anything in the whole loop rewrite a stored command, answer it
\* twice, or let a restarted server forget a train that it has let in.
THEOREM SystemKeepsPromises == SystemSpec => RowsOnlyAdvance /\ RestartKeepsPromises
<1>1. SystemInv /\ [SystemNext]_systemVars => [\A i \in CommandIds : RowAdvances(i)]_serviceVars
  BY SystemStepServes, StepAdvancesRows DEF RowAdvances, SystemInv
<1>2. SystemInv /\ [SystemNext]_systemVars => [PromisesKept]_serviceVars
  BY SystemStepServes, StepKeepsPromises DEF SystemInv
<1>3. SystemSpec => RowsOnlyAdvance
  BY <1>1, SystemInitInv, SystemStepInv, PTL DEF SystemSpec, RowsOnlyAdvance, RowAdvances
<1>4. SystemSpec => RestartKeepsPromises
  BY <1>2, SystemInitInv, SystemStepInv, PTL DEF SystemSpec, RestartKeepsPromises, PromisesKept
<1> QED BY <1>3, <1>4

-----------------------------------------------------------------------------
(* What stands behind the passages and the reports.                        *)

\* The rows of the database by their status, and the train of a row.
Pending(i) == rows[i] # NoRow /\ rows[i].status = "PENDING"
Accepted(i) == rows[i] # NoRow /\ rows[i].status = "ACCEPTED"
RowTrain(i) == rows[i].command.train

\* Train t has not been seen to be gone.
Present(t) == snapshot = NoSnapshot \/ snapshot[t] # Absent

\* Command i of t waits for its ACK: so says the database and, while it
\* runs, the server.
Pend(t, i) ==
    /\ i \in CommandIds /\ Pending(i) /\ RowTrain(i) = t
    /\ serving => cmd[t] # NoCommand /\ cmd[t].id = i

\* Command i is the latest that t was let in with, and the passage the
\* server knows of.
Actv(t, i) ==
    /\ i \in CommandIds /\ Accepted(i) /\ RowTrain(i) = t
    /\ \A j \in CommandIds : Accepted(j) /\ RowTrain(j) = t => j <= i
    /\ serving => act[t] # NoCommand /\ act[t].id = i

\* The passages P, the finished ids F and the reports q[1..n] of the mod.

\* Passages and reports are about stored commands, under their trains.
Filed(P, q, n) ==
    /\ \A t \in Train : P[t] # NoPassage =>
          P[t].command.id \in StoredIds /\ RowTrain(P[t].command.id) = t
    /\ \A k \in 1..n : /\ q[k].train \in Train /\ q[k].id \in StoredIds
                       /\ RowTrain(q[k].id) = q[k].train

\* Train t has reported its entry.
Entry(P, t) == P[t] # NoPassage /\ P[t].acknowledged
EntryNoted(P) == \A t \in Train : P[t] # NoPassage => (P[t].acknowledged <=> P[t].wasInside)

\* A report is about a finished command, or it is the ACK of one under way,
\* which is not finished.
ReportsFinal(P, F, q, n) ==
    \A k \in 1..n : \/ q[k].id \in F
                    \/ /\ q[k].kind = "accept" /\ Entry(P, q[k].train)
                       /\ P[q[k].train].command.id = q[k].id
NotFinished(P, F) == \A t \in Train : P[t] # NoPassage => P[t].command.id \notin F

\* The reports of a train are in the order of its commands, ...
InOrder(P, q, n) ==
    /\ \A k, l \in 1..n : k <= l /\ q[k].train = q[l].train => q[k].id <= q[l].id
    /\ \A k \in 1..n : P[q[k].train] # NoPassage => q[k].id <= P[q[k].train].command.id

\* ... and two of the same command are its ACK and its cleared report.
OneEach(q, n) ==
    \A k, l \in 1..n : k < l /\ q[k].id = q[l].id => q[k].kind = "accept" /\ q[l].kind = "cleared"

\* The server waits for every ACK that is under way, or has already got it.
AcceptsBacked(q, n) ==
    \A k \in 1..n : q[k].kind = "accept" => Pend(q[k].train, q[k].id) \/ Actv(q[k].train, q[k].id)

AcceptBefore(q, n, i) == \E k \in 1..n : q[k].kind = "accept" /\ q[k].id = i

\* A cleared report comes after the ACK of its command, and finds its
\* passage counted.
ClearsBacked(q, n) ==
    \A k \in 1..n : q[k].kind = "cleared" =>
        Actv(q[k].train, q[k].id) \/ AcceptBefore(q, k - 1, q[k].id)

\* A train that has reported its entry is counted, or its ACK is under way.
EntriesBacked(P, q, n) ==
    \A t \in Train : Entry(P, t) =>
        Actv(t, P[t].command.id) \/ AcceptBefore(q, n, P[t].command.id)

\* A train that may enter has a command the server waits for.
ReleasesBacked(P) ==
    \A t \in Train : (P[t] # NoPassage /\ ~P[t].acknowledged /\ Present(t)) =>
        Pend(t, P[t].command.id)

Reports(P, F, q, n) ==
    /\ Filed(P, q, n) /\ EntryNoted(P)
    /\ ReportsFinal(P, F, q, n) /\ NotFinished(P, F)
    /\ InOrder(P, q, n) /\ OneEach(q, n)
    /\ AcceptsBacked(q, n) /\ ClearsBacked(q, n)
    /\ EntriesBacked(P, q, n) /\ ReleasesBacked(P)

\* The passage of t ends, with its last report or, after its entry, without
\* one.
PassageEnds(t, P, F, q, n, P2, F2, q2, n2) ==
    /\ P[t] # NoPassage /\ P2[t] = NoPassage /\ \A u \in Train : u # t => P2[u] = P[u]
    /\ F2 = F \cup {P[t].command.id}
    /\ \A k \in 1..n : q2[k] = q[k]
    /\ \/ n2 = n /\ P[t].acknowledged
       \/ /\ n2 = n + 1 /\ q2[n + 1].train = t /\ q2[n + 1].id = P[t].command.id
          /\ q2[n + 1].kind = IF P[t].acknowledged THEN "cleared" ELSE "reject"

\* A command begins a passage of t.
PassageBegins(t, P, F, q, n, P2) ==
    /\ P[t] = NoPassage /\ P2[t] # NoPassage /\ \A u \in Train : u # t => P2[u] = P[u]
    /\ P2[t].command.id \in StoredIds /\ RowTrain(P2[t].command.id) = t
    /\ P2[t].command.id \notin F
    /\ ~P2[t].acknowledged /\ ~P2[t].wasInside
    /\ \A k \in 1..n : q[k].train = t => q[k].id <= P2[t].command.id
    /\ Present(t) => Pend(t, P2[t].command.id)

\* The entry of t is reported, or noted again.
PassageEnters(t, P, q, n, P2, q2, n2) ==
    /\ Present(t) /\ P[t] # NoPassage /\ P2[t] # NoPassage
    /\ \A u \in Train : u # t => P2[u] = P[u]
    /\ P2[t].command.id = P[t].command.id /\ P2[t].acknowledged /\ P2[t].wasInside
    /\ \A k \in 1..n : q2[k] = q[k]
    /\ \/ P[t].acknowledged /\ n2 = n
       \/ /\ ~P[t].acknowledged /\ n2 = n + 1 /\ q2[n + 1].train = t
          /\ q2[n + 1].id = P[t].command.id /\ q2[n + 1].kind = "accept"

\* The end of a passage keeps the reports backed,
LEMMA EndKeepsReports ==
    ASSUME NEW P, NEW F, NEW q, NEW n \in Nat, Reports(P, F, q, n), NEW t \in Train,
           NEW P2, NEW F2, NEW q2, NEW n2, PassageEnds(t, P, F, q, n, P2, F2, q2, n2)
    PROVE  Reports(P2, F2, q2, n2)
<1>a. PICK i : i = P[t].command.id
  OBVIOUS
<1>0. /\ P[t] # NoPassage /\ P2[t] = NoPassage /\ \A u \in Train : u # t => P2[u] = P[u]
      /\ F2 = F \cup {i} /\ i = P[t].command.id
      /\ \A k \in 1..n : q2[k] = q[k]
      /\ \/ n2 = n /\ P[t].acknowledged
         \/ /\ n2 = n + 1 /\ q2[n + 1].train = t /\ q2[n + 1].id = i
            /\ q2[n + 1].kind = IF P[t].acknowledged THEN "cleared" ELSE "reject"
  BY <1>a DEF PassageEnds
<1> USE <1>0
<1>1. /\ Filed(P, q, n) /\ EntryNoted(P) /\ ReportsFinal(P, F, q, n) /\ NotFinished(P, F)
      /\ InOrder(P, q, n) /\ OneEach(q, n) /\ AcceptsBacked(q, n) /\ ClearsBacked(q, n)
      /\ EntriesBacked(P, q, n) /\ ReleasesBacked(P)
  BY DEF Reports
<1>2. i \in StoredIds /\ RowTrain(i) = t /\ i \notin F
  BY <1>1 DEF Filed, NotFinished
<1>3. \A k \in 1..n2 : (k \in 1..n /\ q2[k] = q[k]) \/ k = n + 1
  OBVIOUS
<1>4. n2 \in Nat /\ n <= n2
  OBVIOUS
<1>5. Filed(P2, q2, n2)
  BY <1>1, <1>2, <1>3 DEF Filed
<1>6. EntryNoted(P2)
  BY <1>1 DEF EntryNoted
<1>7. ReportsFinal(P2, F2, q2, n2)
  <2> SUFFICES ASSUME NEW k \in 1..n2
               PROVE  \/ q2[k].id \in F2
                      \/ /\ q2[k].kind = "accept" /\ Entry(P2, q2[k].train)
                         /\ P2[q2[k].train].command.id = q2[k].id
    BY DEF ReportsFinal
  <2>1. CASE k \in 1..n /\ q2[k] = q[k]
    <3>1. CASE q[k].id \in F
      BY <2>1, <3>1
    <3>2. CASE /\ q[k].kind = "accept" /\ Entry(P, q[k].train)
               /\ P[q[k].train].command.id = q[k].id
      <4>1. q[k].train \in Train
        BY <1>1, <2>1 DEF Filed
      <4>2. CASE q[k].train = t
        BY <2>1, <3>2, <4>2
      <4>3. CASE q[k].train # t
        BY <2>1, <3>2, <4>1, <4>3 DEF Entry
      <4> QED BY <4>2, <4>3
    <3> QED BY <1>1, <2>1, <3>1, <3>2 DEF ReportsFinal
  <2>2. CASE k = n + 1
    BY <2>2
  <2> QED BY <1>3, <2>1, <2>2
<1>8. NotFinished(P2, F2)
  <2> SUFFICES ASSUME NEW u \in Train, P2[u] # NoPassage PROVE P2[u].command.id \notin F2
    BY DEF NotFinished
  <2>1. u # t /\ P2[u] = P[u]
    OBVIOUS
  <2>2. P[u].command.id \notin F /\ RowTrain(P[u].command.id) = u
    BY <1>1, <2>1 DEF NotFinished, Filed
  <2> QED BY <1>2, <2>1, <2>2
<1>9. InOrder(P2, q2, n2)
  <2>1. \A k \in 1..n : q[k].train = t => q[k].id <= i
    BY <1>1 DEF InOrder
  <2>2. ASSUME NEW k \in 1..n2, NEW l \in 1..n2, k <= l, q2[k].train = q2[l].train
        PROVE  q2[k].id <= q2[l].id
    <3>1. CASE l \in 1..n
      BY <1>1, <1>3, <2>2, <3>1 DEF InOrder
    <3>2. CASE l = n + 1 /\ k \in 1..n
      BY <1>3, <2>1, <2>2, <3>2
    <3>3. CASE l = n + 1 /\ k = n + 1
      BY <1>2, <2>2, <3>3 DEF StoredIds, CommandIds
    <3> QED BY <1>3, <2>2, <3>1, <3>2, <3>3
  <2>3. ASSUME NEW k \in 1..n2, P2[q2[k].train] # NoPassage
        PROVE  q2[k].id <= P2[q2[k].train].command.id
    <3>1. q2[k].train # t /\ q2[k].train \in Train
      BY <1>5, <2>3 DEF Filed
    <3>2. k \in 1..n /\ q2[k] = q[k]
      BY <1>3, <3>1
    <3> QED BY <1>1, <2>3, <3>1, <3>2 DEF InOrder
  <2> QED BY <2>2, <2>3 DEF InOrder
<1>10. \A k \in 1..n : q[k].id = i => q[k].kind = "accept" /\ P[t].acknowledged
  BY <1>1, <1>2 DEF ReportsFinal, Entry, Filed
<1>11. OneEach(q2, n2)
  <2> SUFFICES ASSUME NEW k \in 1..n2, NEW l \in 1..n2, k < l, q2[k].id = q2[l].id
               PROVE  q2[k].kind = "accept" /\ q2[l].kind = "cleared"
    BY DEF OneEach
  <2>1. CASE l \in 1..n
    BY <1>1, <1>3, <2>1 DEF OneEach
  <2>2. CASE l = n + 1
    <3>1. k \in 1..n /\ q2[k] = q[k]
      BY <1>3, <2>2
    <3> QED BY <1>10, <2>2, <3>1
  <2> QED BY <1>3, <2>1, <2>2
<1>12. AcceptsBacked(q2, n2)
  BY <1>1, <1>3 DEF AcceptsBacked
<1>13. \A m \in 0..n : \A j : AcceptBefore(q, m, j) => AcceptBefore(q2, m, j)
  BY DEF AcceptBefore
<1>14. ClearsBacked(q2, n2)
  <2> SUFFICES ASSUME NEW k \in 1..n2, q2[k].kind = "cleared"
               PROVE  Actv(q2[k].train, q2[k].id) \/ AcceptBefore(q2, k - 1, q2[k].id)
    BY DEF ClearsBacked
  <2>1. CASE k \in 1..n /\ q2[k] = q[k]
    <3>1. Actv(q[k].train, q[k].id) \/ AcceptBefore(q, k - 1, q[k].id)
      BY <1>1, <2>1 DEF ClearsBacked
    <3>2. k - 1 \in 0..n
      BY <2>1
    <3> QED BY <1>13, <2>1, <3>1, <3>2
  <2>2. CASE k = n + 1
    <3>1. Entry(P, t) /\ q2[k].train = t /\ q2[k].id = i
      BY <2>2 DEF Entry
    <3>2. Actv(t, i) \/ AcceptBefore(q, n, i)
      BY <1>1, <3>1 DEF EntriesBacked
    <3>3. k - 1 = n /\ n \in 0..n
      BY <2>2
    <3> QED BY <1>13, <3>1, <3>2, <3>3
  <2> QED BY <1>3, <2>1, <2>2
<1>15. EntriesBacked(P2, q2, n2)
  <2> SUFFICES ASSUME NEW u \in Train, Entry(P2, u)
               PROVE  Actv(u, P2[u].command.id) \/ AcceptBefore(q2, n2, P2[u].command.id)
    BY DEF EntriesBacked
  <2>1. u # t /\ P2[u] = P[u] /\ Entry(P, u)
    BY DEF Entry
  <2>2. Actv(u, P[u].command.id) \/ AcceptBefore(q, n, P[u].command.id)
    BY <1>1, <2>1 DEF EntriesBacked
  <2> QED BY <1>4, <2>1, <2>2 DEF AcceptBefore
<1>16. ReleasesBacked(P2)
  BY <1>1 DEF ReleasesBacked
<1> QED BY <1>5, <1>6, <1>7, <1>8, <1>9, <1>11, <1>12, <1>14, <1>15, <1>16 DEF Reports

\* so does its begin,
LEMMA BeginKeepsReports ==
    ASSUME NEW P, NEW F, NEW q, NEW n \in Nat, Reports(P, F, q, n), NEW t \in Train,
           NEW P2, PassageBegins(t, P, F, q, n, P2)
    PROVE  Reports(P2, F, q, n)
<1>0. /\ P[t] = NoPassage /\ P2[t] # NoPassage /\ \A u \in Train : u # t => P2[u] = P[u]
      /\ P2[t].command.id \in StoredIds /\ RowTrain(P2[t].command.id) = t
      /\ P2[t].command.id \notin F
      /\ ~P2[t].acknowledged /\ ~P2[t].wasInside
      /\ \A k \in 1..n : q[k].train = t => q[k].id <= P2[t].command.id
      /\ Present(t) => Pend(t, P2[t].command.id)
  BY DEF PassageBegins
<1> USE <1>0
<1>1. /\ Filed(P, q, n) /\ EntryNoted(P) /\ ReportsFinal(P, F, q, n) /\ NotFinished(P, F)
      /\ InOrder(P, q, n) /\ OneEach(q, n) /\ AcceptsBacked(q, n) /\ ClearsBacked(q, n)
      /\ EntriesBacked(P, q, n) /\ ReleasesBacked(P)
  BY DEF Reports
<1>2. Filed(P2, q, n)
  BY <1>1 DEF Filed
<1>3. EntryNoted(P2)
  BY <1>1 DEF EntryNoted
<1>4. \A u \in Train : Entry(P2, u) => u # t /\ P2[u] = P[u] /\ Entry(P, u)
  BY DEF Entry
<1>5. \A u \in Train : Entry(P, u) => u # t /\ P2[u] = P[u] /\ Entry(P2, u)
  BY DEF Entry
<1>6. ReportsFinal(P2, F, q, n)
  BY <1>1, <1>5 DEF ReportsFinal, Filed
<1>7. NotFinished(P2, F)
  BY <1>1 DEF NotFinished
<1>8. InOrder(P2, q, n)
  BY <1>1 DEF InOrder, Filed
<1>9. EntriesBacked(P2, q, n)
  BY <1>1, <1>4 DEF EntriesBacked
<1>10. ReleasesBacked(P2)
  BY <1>1 DEF ReleasesBacked
<1> QED BY <1>1, <1>2, <1>3, <1>6, <1>7, <1>8, <1>9, <1>10 DEF Reports

\* and so does an entry.
LEMMA EntryKeepsReports ==
    ASSUME NEW P, NEW F, NEW q, NEW n \in Nat, Reports(P, F, q, n), NEW t \in Train,
           NEW P2, NEW q2, NEW n2, PassageEnters(t, P, q, n, P2, q2, n2)
    PROVE  Reports(P2, F, q2, n2)
<1>a. PICK i : i = P[t].command.id
  OBVIOUS
<1>0. /\ Present(t) /\ P[t] # NoPassage /\ i = P[t].command.id
      /\ P2[t] # NoPassage /\ \A u \in Train : u # t => P2[u] = P[u]
      /\ P2[t].command.id = i /\ P2[t].acknowledged /\ P2[t].wasInside
      /\ \A k \in 1..n : q2[k] = q[k]
      /\ \/ P[t].acknowledged /\ n2 = n
         \/ /\ ~P[t].acknowledged /\ n2 = n + 1 /\ q2[n + 1].train = t
            /\ q2[n + 1].id = i /\ q2[n + 1].kind = "accept"
  BY <1>a DEF PassageEnters
<1> USE <1>0
<1>1. /\ Filed(P, q, n) /\ EntryNoted(P) /\ ReportsFinal(P, F, q, n) /\ NotFinished(P, F)
      /\ InOrder(P, q, n) /\ OneEach(q, n) /\ AcceptsBacked(q, n) /\ ClearsBacked(q, n)
      /\ EntriesBacked(P, q, n) /\ ReleasesBacked(P)
  BY DEF Reports
<1>2. i \in StoredIds /\ RowTrain(i) = t /\ i \notin F
  BY <1>1 DEF Filed, NotFinished
<1>3. \A k \in 1..n2 : (k \in 1..n /\ q2[k] = q[k]) \/ (k = n + 1 /\ ~P[t].acknowledged)
  OBVIOUS
<1>4. n2 \in Nat /\ n <= n2
  OBVIOUS
<1>5. Filed(P2, q2, n2)
  BY <1>1, <1>2, <1>3 DEF Filed
<1>6. EntryNoted(P2)
  BY <1>1 DEF EntryNoted
<1>7. \A u \in Train : P2[u] # NoPassage => P[u] # NoPassage /\ P2[u].command.id = P[u].command.id
  OBVIOUS
<1>8. \A u \in Train : Entry(P, u) => Entry(P2, u) /\ P2[u].command.id = P[u].command.id
  BY DEF Entry
<1>9. ReportsFinal(P2, F, q2, n2)
  <2> SUFFICES ASSUME NEW k \in 1..n2
               PROVE  \/ q2[k].id \in F
                      \/ /\ q2[k].kind = "accept" /\ Entry(P2, q2[k].train)
                         /\ P2[q2[k].train].command.id = q2[k].id
    BY DEF ReportsFinal
  <2>1. CASE k \in 1..n /\ q2[k] = q[k]
    BY <1>1, <1>8, <2>1 DEF ReportsFinal, Filed
  <2>2. CASE k = n + 1 /\ ~P[t].acknowledged
    BY <2>2 DEF Entry
  <2> QED BY <1>3, <2>1, <2>2
<1>10. NotFinished(P2, F)
  BY <1>1, <1>7 DEF NotFinished
<1>11. InOrder(P2, q2, n2)
  <2>1. \A k \in 1..n : q[k].train = t => q[k].id <= i
    BY <1>1 DEF InOrder
  <2>2. ASSUME NEW k \in 1..n2, NEW l \in 1..n2, k <= l, q2[k].train = q2[l].train
        PROVE  q2[k].id <= q2[l].id
    <3>1. CASE l \in 1..n
      BY <1>1, <1>3, <2>2, <3>1 DEF InOrder
    <3>2. CASE l = n + 1 /\ k \in 1..n
      BY <1>3, <2>1, <2>2, <3>2
    <3>3. CASE l = n + 1 /\ k = n + 1
      BY <1>2, <2>2, <3>3 DEF StoredIds, CommandIds
    <3> QED BY <1>3, <2>2, <3>1, <3>2, <3>3
  <2>3. ASSUME NEW k \in 1..n2, P2[q2[k].train] # NoPassage
        PROVE  q2[k].id <= P2[q2[k].train].command.id
    <3>1. q2[k].train \in Train
      BY <1>5 DEF Filed
    <3>2. CASE k \in 1..n /\ q2[k] = q[k]
      BY <1>1, <1>7, <2>3, <3>1, <3>2 DEF InOrder
    <3>3. CASE k = n + 1 /\ ~P[t].acknowledged
      BY <1>2, <3>3 DEF StoredIds, CommandIds
    <3> QED BY <1>3, <3>2, <3>3
  <2> QED BY <2>2, <2>3 DEF InOrder
<1>12. \A k \in 1..n : q[k].id = i => P[t].acknowledged
  BY <1>1, <1>2 DEF ReportsFinal, Entry, Filed
<1>13. OneEach(q2, n2)
  <2> SUFFICES ASSUME NEW k \in 1..n2, NEW l \in 1..n2, k < l, q2[k].id = q2[l].id
               PROVE  q2[k].kind = "accept" /\ q2[l].kind = "cleared"
    BY DEF OneEach
  <2>1. CASE l \in 1..n
    BY <1>1, <1>3, <2>1 DEF OneEach
  <2>2. CASE l = n + 1 /\ ~P[t].acknowledged
    <3>1. k \in 1..n /\ q2[k] = q[k]
      BY <1>3, <2>2
    <3> QED BY <1>12, <2>2, <3>1
  <2> QED BY <1>3, <2>1, <2>2
<1>14. AcceptsBacked(q2, n2)
  <2>1. ~P[t].acknowledged => Pend(t, i)
    BY <1>1 DEF ReleasesBacked
  <2> QED BY <1>1, <1>3, <2>1 DEF AcceptsBacked
<1>15. ClearsBacked(q2, n2)
  <2> SUFFICES ASSUME NEW k \in 1..n2, q2[k].kind = "cleared"
               PROVE  Actv(q2[k].train, q2[k].id) \/ AcceptBefore(q2, k - 1, q2[k].id)
    BY DEF ClearsBacked
  <2>1. k \in 1..n /\ q2[k] = q[k]
    BY <1>3
  <2>2. Actv(q[k].train, q[k].id) \/ AcceptBefore(q, k - 1, q[k].id)
    BY <1>1, <2>1 DEF ClearsBacked
  <2> QED BY <2>1, <2>2 DEF AcceptBefore
<1>16. EntriesBacked(P2, q2, n2)
  <2> SUFFICES ASSUME NEW u \in Train, Entry(P2, u)
               PROVE  Actv(u, P2[u].command.id) \/ AcceptBefore(q2, n2, P2[u].command.id)
    BY DEF EntriesBacked
  <2>1. CASE Entry(P, u)
    <3>1. Actv(u, P[u].command.id) \/ AcceptBefore(q, n, P[u].command.id)
      BY <1>1, <2>1 DEF EntriesBacked
    <3> QED BY <1>4, <1>8, <2>1, <3>1 DEF AcceptBefore
  <2>2. CASE ~Entry(P, u)
    <3>1. u = t /\ ~P[t].acknowledged
      BY <2>2 DEF Entry
    <3>2. n + 1 \in 1..n2
      BY <3>1
    <3> QED BY <3>1, <3>2 DEF AcceptBefore
  <2> QED BY <2>1, <2>2
<1>17. ReleasesBacked(P2)
  BY <1>1 DEF ReleasesBacked
<1> QED BY <1>5, <1>6, <1>9, <1>10, <1>11, <1>13, <1>14, <1>15, <1>16, <1>17 DEF Reports

\* What the server does, after it has taken d reports off the queue, keeps
\* the reports backed as long as it keeps what stands behind them.
BackingKept(P, q, n, d) ==
    /\ \A i \in StoredIds : i \in StoredIds' /\ RowTrain(i)' = RowTrain(i)
    /\ \A t \in Train : Present(t)' => Present(t)
    /\ \A k \in (1 + d)..n : q[k].kind = "accept" =>
          Pend(q[k].train, q[k].id)' \/ Actv(q[k].train, q[k].id)'
    /\ \A k \in 1..d : q[k].kind = "accept" => Actv(q[k].train, q[k].id)'
    /\ \A k \in (1 + d)..n : (q[k].kind = "cleared" /\ Actv(q[k].train, q[k].id)) =>
          Actv(q[k].train, q[k].id)'
    /\ \A t \in Train : (Entry(P, t) /\ Actv(t, P[t].command.id)) => Actv(t, P[t].command.id)'
    /\ \A t \in Train : (P[t] # NoPassage /\ ~P[t].acknowledged /\ Present(t)') =>
          Pend(t, P[t].command.id)'

\* What stands behind the reports is carried over such a step.
LEMMA ReportsCarried ==
    ASSUME NEW P, NEW F, NEW q, NEW n \in Nat, Reports(P, F, q, n),
           NEW d \in Nat, d <= n, BackingKept(P, q, n, d),
           NEW q2, \A k \in 1..(n - d) : q2[k] = q[k + d]
    PROVE  Reports(P, F, q2, n - d)'
<1>0. PICK m \in Nat : m = n - d
  OBVIOUS
<1>1. /\ Filed(P, q, n) /\ EntryNoted(P) /\ ReportsFinal(P, F, q, n) /\ NotFinished(P, F)
      /\ InOrder(P, q, n) /\ OneEach(q, n) /\ AcceptsBacked(q, n) /\ ClearsBacked(q, n)
      /\ EntriesBacked(P, q, n) /\ ReleasesBacked(P)
  BY DEF Reports
<1>2. /\ \A i \in StoredIds : i \in StoredIds' /\ RowTrain(i)' = RowTrain(i)
      /\ \A t \in Train : Present(t)' => Present(t)
      /\ \A k \in (1 + d)..n : q[k].kind = "accept" =>
            Pend(q[k].train, q[k].id)' \/ Actv(q[k].train, q[k].id)'
      /\ \A k \in 1..d : q[k].kind = "accept" => Actv(q[k].train, q[k].id)'
      /\ \A k \in (1 + d)..n : (q[k].kind = "cleared" /\ Actv(q[k].train, q[k].id)) =>
            Actv(q[k].train, q[k].id)'
      /\ \A t \in Train : (Entry(P, t) /\ Actv(t, P[t].command.id)) => Actv(t, P[t].command.id)'
      /\ \A t \in Train : (P[t] # NoPassage /\ ~P[t].acknowledged /\ Present(t)') =>
            Pend(t, P[t].command.id)'
  BY DEF BackingKept
<1>3. \A k \in 1..m : k + d \in (1 + d)..n /\ k + d \in 1..n /\ q2[k] = q[k + d]
  BY <1>0
<1>4. Filed(P, q2, m)'
  BY <1>1, <1>2, <1>3 DEF Filed
<1>5. \A t : Entry(P, t)' <=> Entry(P, t)
  BY DEF Entry
<1>6. EntryNoted(P)' /\ NotFinished(P, F)'
  BY <1>1 DEF EntryNoted, NotFinished
<1>7. ReportsFinal(P, F, q2, m)'
  BY <1>1, <1>3, <1>5 DEF ReportsFinal
<1>8. InOrder(P, q2, m)'
  <2>1. ASSUME NEW k \in 1..m, NEW l \in 1..m, k <= l, q2[k].train = q2[l].train
        PROVE  q2[k].id <= q2[l].id
    <3>1. k + d <= l + d
      BY <2>1
    <3> QED BY <1>1, <1>3, <2>1, <3>1 DEF InOrder
  <2>2. \A k \in 1..m : P[q2[k].train] # NoPassage => q2[k].id <= P[q2[k].train].command.id
    BY <1>1, <1>3 DEF InOrder
  <2> QED BY <2>1, <2>2 DEF InOrder
<1>9. OneEach(q2, m)'
  <2>1. ASSUME NEW k \in 1..m, NEW l \in 1..m, k < l, q2[k].id = q2[l].id
        PROVE  q2[k].kind = "accept" /\ q2[l].kind = "cleared"
    <3>1. k + d < l + d
      BY <2>1
    <3> QED BY <1>1, <1>3, <2>1, <3>1 DEF OneEach
  <2> QED BY <2>1 DEF OneEach
<1>10. AcceptsBacked(q2, m)'
  BY <1>2, <1>3 DEF AcceptsBacked
<1>11. ASSUME NEW k \in 0..m, NEW j, NEW t, AcceptBefore(q, k + d, j),
              \A l \in 1..n : q[l].id = j => q[l].train = t
       PROVE  AcceptBefore(q2, k, j)' \/ Actv(t, j)'
  <2>1. PICK l \in 1..(k + d) : q[l].kind = "accept" /\ q[l].id = j
    BY <1>11 DEF AcceptBefore
  <2>2. l \in 1..n /\ q[l].train = t
    BY <1>0, <1>11, <2>1
  <2>3. CASE l \in 1..d
    BY <1>2, <2>1, <2>2, <2>3
  <2>4. CASE l \notin 1..d
    <3>1. l - d \in 1..k /\ l - d \in 1..m /\ (l - d) + d = l
      BY <1>0, <2>1, <2>4
    <3>2. q2[l - d] = q[l]
      BY <1>3, <3>1
    <3> QED BY <2>1, <3>1, <3>2 DEF AcceptBefore
  <2> QED BY <2>3, <2>4
<1>12. \A k, l \in 1..n : q[k].id = q[l].id => q[k].train = q[l].train
  BY <1>1 DEF Filed
<1>13. ClearsBacked(q2, m)'
  <2> SUFFICES ASSUME NEW k \in 1..m, q2[k].kind = "cleared"
               PROVE  Actv(q2[k].train, q2[k].id)' \/ AcceptBefore(q2, k - 1, q2[k].id)'
    BY DEF ClearsBacked
  <2>1. PICK l \in 1..n : l = k + d /\ q2[k] = q[l] /\ l \in (1 + d)..n
    BY <1>3
  <2>2. Actv(q[l].train, q[l].id) \/ AcceptBefore(q, l - 1, q[l].id)
    BY <1>1, <2>1 DEF ClearsBacked
  <2>3. CASE Actv(q[l].train, q[l].id)
    BY <1>2, <2>1, <2>3
  <2>4. CASE AcceptBefore(q, l - 1, q[l].id)
    <3>1. k - 1 \in 0..m /\ l - 1 = (k - 1) + d
      BY <2>1
    <3>2. AcceptBefore(q, (k - 1) + d, q[l].id)
      BY <2>4, <3>1
    <3>3. \A x \in 1..n : q[x].id = q[l].id => q[x].train = q[l].train
      BY <1>12
    <3> QED BY <1>11, <2>1, <3>1, <3>2, <3>3
  <2> QED BY <2>2, <2>3, <2>4
<1>14. EntriesBacked(P, q2, m)'
  <2> SUFFICES ASSUME NEW t \in Train, Entry(P, t)
               PROVE  Actv(t, P[t].command.id)' \/ AcceptBefore(q2, m, P[t].command.id)'
    BY <1>5 DEF EntriesBacked
  <2>1. Actv(t, P[t].command.id) \/ AcceptBefore(q, n, P[t].command.id)
    BY <1>1 DEF EntriesBacked
  <2>2. CASE Actv(t, P[t].command.id)
    BY <1>2, <2>2
  <2>3. CASE AcceptBefore(q, n, P[t].command.id)
    <3>1. m \in 0..m /\ n = m + d
      BY <1>0
    <3>2. AcceptBefore(q, m + d, P[t].command.id)
      BY <2>3, <3>1
    <3>3. \A x \in 1..n : q[x].id = P[t].command.id => q[x].train = t
      BY <1>1 DEF Filed, Entry
    <3> QED BY <1>11, <3>1, <3>2, <3>3
  <2> QED BY <2>1, <2>2, <2>3
<1>15. ReleasesBacked(P)'
  BY <1>2 DEF ReleasesBacked
<1> QED BY <1>0, <1>4, <1>6, <1>7, <1>8, <1>9, <1>10, <1>13, <1>14, <1>15 DEF Reports

-----------------------------------------------------------------------------
(* Where the trains are, and what the mod knows of them.                   *)

\* The commands as they were sent, of all rows.
SentCommands == {Sent(rows[i].command) : i \in StoredIds}

\* A command is for the resource on the way of its train.
RowsOnWay == \A i \in CommandIds : rows[i] # NoRow =>
                 rows[i].command.resource = Way[RowTrain(i)] /\ rows[i].command.rev <= revision

\* All that the mod works on, and all that it reports, is about these.
KnowsSent ==
    /\ inbox \in Seq(SentCommands) /\ Len(inbox) <= 1
    /\ passages \in Frames!PassagesOf(SentCommands)
    /\ finished \subseteq Frames!IdsOf(SentCommands)
    /\ queue \in Seq(Frames!PostsOf(SentCommands))

\* What a snapshot shows of a train in a zone.
ViewIn(t, zone) ==
    [line |-> LineOf[t], at |-> IF zone = "inside" THEN Way[t] ELSE NoResource,
     near |-> IF zone = "near" THEN Way[t] ELSE NoResource]
SeenIn(t, zone) == snapshot # NoSnapshot /\ snapshot[t] = ViewIn(t, zone)

\* The snapshot is at most one zone behind.
SnapshotFits ==
    \A t \in Train :
        /\ snapshot = NoSnapshot => place[t] \in {"away", "gone"}
        /\ snapshot # NoSnapshot =>
             /\ \/ snapshot[t] = Absent
                \/ SeenIn(t, "away") \/ SeenIn(t, "near") \/ SeenIn(t, "inside")
             /\ snapshot[t] = Absent => place[t] = "gone"
             /\ place[t] = "near" => SeenIn(t, "away") \/ SeenIn(t, "near")
             /\ place[t] = "inside" => SeenIn(t, "near") \/ SeenIn(t, "inside")
             /\ place[t] = "away" => SeenIn(t, "inside") \/ SeenIn(t, "away")

\* A train inside is on a passage, of the command the server waits for if
\* there is one; a train near its entry has not reported it; and a passage
\* that has begun fits the topology, so that it is not given up.
PlaceFits(P, t) ==
    /\ place[t] = "inside" => P[t] # NoPassage
    /\ \A j \in CommandIds : place[t] = "inside" /\ Pend(t, j) => P[t].command.id = j
    /\ Entry(P, t) => place[t] # "near" /\ ~SeenIn(t, "near")
    /\ (P[t] # NoPassage /\ Present(t) /\ (P[t].acknowledged \/ place[t] = "inside")) =>
          P[t].command.rev = topology

\* Train t may be inside.
Claim(P, t) ==
    \/ Present(t) /\ \E i \in CommandIds : Pending(i) /\ RowTrain(i) = t
    \/ Entry(P, t)

\* A command in the inbox is newer than what its train has done, and if the
\* train is there, the server waits for it or the mod already knows it.
InboxBacked(P, F, q, n) ==
    \A m \in 1..Len(inbox) :
        LET c == inbox[m]
        IN  /\ P[c.train] # NoPassage => P[c.train].command.id <= c.id
            /\ \A k \in 1..n : q[k].train = c.train => q[k].id <= c.id
            /\ Present(c.train) => \/ Pend(c.train, c.id) \/ c.id \in F
                                   \/ P[c.train] # NoPassage /\ P[c.train].command.id = c.id

\* The commands the mod knows.
LEMMA SentFacts ==
    ASSUME ServiceInv, RowsOnWay, NEW c \in SentCommands
    PROVE  /\ c.id \in StoredIds /\ c.id \in CommandIds /\ c.train \in Train
           /\ c.resource = Way[c.train] /\ c.line = LineOf[c.train]
           /\ RowTrain(c.id) = c.train /\ c.rev = rows[c.id].command.rev
           /\ c \in ModCommands
<1>1. PICK i \in StoredIds : c = Sent(rows[i].command)
  BY DEF SentCommands
<1>2. i \in CommandIds /\ rows[i] # NoRow /\ rows[i] \in Row
  BY <1>1 DEF StoredIds, ServiceInv, ServiceTypeOK
<1>3. rows[i].command \in Command /\ rows[i].command.id = i
  BY <1>2, RowFacts DEF ServiceInv, FiledByKey
<1>4. PICK d \in Command : d = rows[i].command
  BY <1>3
<1>5. /\ d.id \in CommandIds /\ d.train \in Train /\ d.resource \in Resource /\ d.rev \in Nat
  BY CommandFacts
<1>6. d.resource = Way[d.train]
  BY <1>2, <1>4 DEF RowsOnWay, RowTrain
<1>7. c = [id |-> d.id, train |-> d.train, resource |-> d.resource, line |-> LineOf[d.train],
           rev |-> d.rev]
  BY <1>1, <1>4 DEF Sent
<1>8. LineOf[d.train] \in Line
  BY <1>5, ManagerAssumptions
<1>9. d.id = i
  BY <1>3, <1>4
<1>10. c \in ModCommands
  BY <1>5, <1>7, <1>8 DEF ModCommands
<1> QED BY <1>1, <1>2, <1>4, <1>5, <1>6, <1>7, <1>9, <1>10 DEF RowTrain

\* Views of different zones differ, and none of them says that a train is gone.
LEMMA ViewFacts ==
    ASSUME NEW t \in Train
    PROVE  /\ ViewIn(t, "away") # Absent /\ ViewIn(t, "near") # Absent
           /\ ViewIn(t, "inside") # Absent
           /\ ViewIn(t, "away") # ViewIn(t, "near") /\ ViewIn(t, "away") # ViewIn(t, "inside")
           /\ ViewIn(t, "near") # ViewIn(t, "inside")
           /\ \A zone : ViewIn(t, zone).line = LineOf[t]
           /\ \A zone : ViewIn(t, zone).at = Way[t] <=> zone = "inside"
           /\ \A zone : ViewIn(t, zone).near # NoResource <=> zone = "near"
<1>1. Way[t] \in Resource /\ Way[t] # NoResource /\ LineOf[t] \in Line
  BY SystemAssumptions, ServiceAssumptions, ManagerAssumptions
<1>2. \A zone : ViewIn(t, zone) \in Mod!View
  BY <1>1 DEF ViewIn, Mod!View
<1>3. \A zone : ViewIn(t, zone) # Absent
  BY <1>2, MarkerAssumptions
<1> QED BY <1>1, <1>3 DEF ViewIn

\* The mod is one that ModRuntimeProofs is about; it forgets no command.
LEMMA SentFrames ==
    ASSUME ServiceInv, RowsOnWay, MaxCommand <= MaxFinished,
           NEW w \in Frames!Work(SentCommands), NEW p \in Frames!Passage(SentCommands)
    PROVE  /\ p # NoPassage /\ p.command \in SentCommands
           /\ Frames!Finish(w, p).finished = w.finished \cup {p.command.id}
<1>1. PICK C : C = SentCommands
  OBVIOUS
<1>2. p.command \in C /\ C \subseteq ModCommands
  BY <1>1, SentFacts DEF Frames!Passage
<1>3. p # NoPassage
  <2>1. Frames!Passage(C) \subseteq Mod!Passage(ModCommands)
    BY <1>2 DEF Frames!Passage, Mod!Passage
  <2> QED BY <1>1, <2>1, MarkerAssumptions DEF ModCommands
<1>4. Frames!IdsOf(C) \subseteq 1..MaxCommand /\ MaxCommand \in Nat
  BY <1>1, SentFacts, ServiceAssumptions DEF Frames!IdsOf, CommandIds
<1>5. Frames!Finish(w, p).finished = w.finished \cup {p.command.id}
  BY <1>1, <1>4, FramesAssumed, Frames!FinishAdds
<1> QED BY <1>1, <1>2, <1>3, <1>5

-----------------------------------------------------------------------------
(* A frame keeps the reports backed.                                       *)

\* The queue with the reports of the frame so far.
Queued(w) == queue \o w.posts
QueuedLen(w) == Len(queue) + Len(w.posts)

\* A state of a frame in which the reports are backed, the passages fit the
\* places of the trains, only trains that had a claim have reported an entry,
\* and only trains that are there report one.
FrameOK(w) ==
    /\ w \in Frames!Work(SentCommands)
    /\ Reports(w.passages, w.finished, Queued(w), QueuedLen(w))
    /\ \A t \in Train : PlaceFits(w.passages, t)
    /\ \A t \in Train : Entry(w.passages, t) => Claim(passages, t)
    /\ \A k \in 1..Len(w.posts) : w.posts[k].kind = "accept" => Present(w.posts[k].train)

\* What a frame starts from.
FrameReady ==
    /\ ServiceInv /\ RowsOnWay /\ KnowsSent /\ SnapshotFits
    /\ topology # 0 /\ MaxCommand <= MaxFinished

\* One more report.
LEMMA QueueGrows ==
    ASSUME NEW A, queue \in Seq(A), NEW w, NEW v, w.posts \in Seq(A), NEW x \in A,
           v.posts = Append(w.posts, x)
    PROVE  /\ QueuedLen(w) \in Nat /\ QueuedLen(v) = QueuedLen(w) + 1
           /\ \A k \in 1..QueuedLen(w) : Queued(v)[k] = Queued(w)[k]
           /\ Queued(v)[QueuedLen(w) + 1] = x
           /\ Len(v.posts) = Len(w.posts) + 1 /\ Len(w.posts) \in Nat
           /\ \A k \in 1..Len(w.posts) : v.posts[k] = w.posts[k]
           /\ v.posts[Len(w.posts) + 1] = x
<1>1. PICK a \in Seq(A) : a = queue
  OBVIOUS
<1>2. PICK b \in Seq(A) : b = w.posts
  OBVIOUS
<1>3. PICK c : c = Append(b, x)
  OBVIOUS
<1>4. /\ Len(a) \in Nat /\ Len(b) \in Nat /\ c \in Seq(A) /\ Len(c) = Len(b) + 1
      /\ \A k \in 1..Len(b) : c[k] = b[k]
      /\ c[Len(b) + 1] = x
  BY <1>3
<1>5. \A k \in 1..(Len(a) + Len(b)) : (a \o c)[k] = (a \o b)[k]
  <2> TAKE k \in 1..(Len(a) + Len(b))
  <2>1. (a \o b)[k] = IF k <= Len(a) THEN a[k] ELSE b[k - Len(a)]
    BY <1>4
  <2>2. (a \o c)[k] = IF k <= Len(a) THEN a[k] ELSE c[k - Len(a)]
    BY <1>4
  <2>3. k > Len(a) => k - Len(a) \in 1..Len(b)
    BY <1>4
  <2>4. k > Len(a) => c[k - Len(a)] = b[k - Len(a)]
    BY <1>4, <2>3
  <2> QED BY <1>4, <2>1, <2>2, <2>4
<1>6. (a \o c)[Len(a) + Len(b) + 1] = x
  BY <1>4
<1> QED BY <1>1, <1>2, <1>3, <1>4, <1>5, <1>6 DEF Queued, QueuedLen

\* A report names what its command names.
LEMMA ReportNames ==
    ASSUME NEW kind, NEW c
    PROVE  LET x == Frames!Report(kind, c)
           IN  x.kind = kind /\ x.id = c.id /\ x.train = c.train
BY DEF Frames!Report

\* A round that only holds the train.
LEMMA KeptOK ==
    ASSUME NEW w, FrameOK(w), NEW v \in Frames!Work(SentCommands), Frames!Kept(w, v)
    PROVE  FrameOK(v)
<1>1. v.passages = w.passages /\ v.finished = w.finished /\ v.posts = w.posts
  BY DEF Frames!Kept
<1>2. Queued(v) = Queued(w) /\ QueuedLen(v) = QueuedLen(w)
  BY <1>1 DEF Queued, QueuedLen
<1> QED BY <1>1, <1>2 DEF FrameOK

\* A passage ends of a train that is not inside.
LEMMA EndedOK ==
    ASSUME FrameReady, NEW w, FrameOK(w), NEW v \in Frames!Work(SentCommands),
           NEW t \in Train, place[t] # "inside",
           Frames!Rejected(w, v, t) \/ Frames!Left(w, v, t)
    PROVE  FrameOK(v)
<1>1. PICK P : P = w.passages
  OBVIOUS
<1>2. PICK P2 : P2 = v.passages
  OBVIOUS
<1>3. PICK C : C = SentCommands
  OBVIOUS
<1>4. w \in Frames!Work(C) /\ v \in Frames!Work(C)
  BY <1>3 DEF FrameOK
<1>5. P[t] # NoPassage /\ P2 = [P EXCEPT ![t] = NoPassage]
  BY <1>1, <1>2 DEF Frames!Rejected, Frames!Left
<1>6. P \in [Train -> Frames!Passage(C) \cup {NoPassage}]
  BY <1>1, <1>4, FramesAssumed DEF Frames!Work, Frames!PassagesOf
<1>7. P2[t] = NoPassage /\ \A u \in Train : u # t => P2[u] = P[u]
  BY <1>5, <1>6
<1>8. PICK p \in Frames!Passage(C) : p = P[t]
  BY <1>5, <1>6
<1>9. PICK i : i = p.command.id
  OBVIOUS
<1>10. p.command \in C /\ v.finished = w.finished \cup {i}
  <2>1. p.command \in C /\ Frames!Finish(w, p).finished = w.finished \cup {i}
    BY <1>3, <1>4, <1>8, <1>9, SentFrames DEF FrameReady
  <2>2. v.finished = Frames!Finish(w, p).finished
    BY <1>1, <1>8 DEF Frames!Rejected, Frames!Left
  <2> QED BY <2>1, <2>2
<1>11. p.command.train = t
  BY <1>3, <1>5, <1>6, <1>8, <1>1, <1>4, FramesAssumed
     DEF Frames!Work, Frames!PassagesOf, Frames!PassageOf
<1>12. \/ p.acknowledged /\ v.posts = w.posts
       \/ ~p.acknowledged /\ v.posts = Append(w.posts, Frames!Report("reject", p.command))
       \/ p.acknowledged /\ v.posts = Append(w.posts, Frames!Report("cleared", p.command))
  BY <1>1, <1>8 DEF Frames!Rejected, Frames!Left
<1>13. w.posts \in Seq(Frames!PostsOf(C)) /\ queue \in Seq(Frames!PostsOf(C))
  BY <1>3, <1>4 DEF Frames!Work, FrameReady, KnowsSent
<1>14. QueuedLen(w) \in Nat
  BY <1>13 DEF QueuedLen
<1>15. Reports(P, w.finished, Queued(w), QueuedLen(w))
  BY <1>1 DEF FrameOK
<1>16. /\ Reports(P2, v.finished, Queued(v), QueuedLen(v))
       /\ \A k \in 1..Len(v.posts) : v.posts[k].kind = "accept" => Present(v.posts[k].train)
  <2>1. PICK n \in Nat : n = QueuedLen(w)
    BY <1>14
  <2>2. PICK q : q = Queued(w)
    OBVIOUS
  <2>3. PICK q2 : q2 = Queued(v)
    OBVIOUS
  <2>4. PICK n2 : n2 = QueuedLen(v)
    OBVIOUS
  <2>5. PICK F : F = w.finished
    OBVIOUS
  <2>6. PICK F2 : F2 = v.finished
    OBVIOUS
  <2>7. F2 = F \cup {i} /\ i = P[t].command.id /\ Reports(P, F, q, n)
    BY <1>8, <1>9, <1>10, <1>15, <2>1, <2>2, <2>5, <2>6
  <2>8. CASE p.acknowledged /\ v.posts = w.posts
    <3>1. q2 = q /\ n2 = n
      BY <2>1, <2>2, <2>3, <2>4, <2>8 DEF Queued, QueuedLen
    <3>2. \A k \in 1..n : q2[k] = q[k]
      BY <3>1
    <3>3. PassageEnds(t, P, F, q, n, P2, F2, q2, n2)
      BY <1>5, <1>7, <1>8, <2>7, <2>8, <3>1, <3>2 DEF PassageEnds
    <3>4. Reports(P2, F2, q2, n2)
      BY <2>7, <3>3, EndKeepsReports
    <3> QED BY <2>3, <2>4, <2>6, <2>8, <3>4 DEF FrameOK
  <2>9. ASSUME NEW kind \in {"reject", "cleared"},
               kind = IF p.acknowledged THEN "cleared" ELSE "reject",
               v.posts = Append(w.posts, Frames!Report(kind, p.command))
        PROVE  /\ Reports(P2, F2, q2, n2)
               /\ \A k \in 1..Len(v.posts) : v.posts[k].kind = "accept" => Present(v.posts[k].train)
    <3>1. PICK x : x = Frames!Report(kind, p.command)
      OBVIOUS
    <3>2. x \in Frames!PostsOf(C)
      BY <1>10, <3>1 DEF Frames!PostsOf
    <3>3. x.kind = kind /\ x.id = i /\ x.train = t
      BY <1>9, <1>11, <3>1, ReportNames
    <3>4. /\ n2 = n + 1 /\ \A k \in 1..n : q2[k] = q[k]
          /\ q2[n + 1] = x
          /\ Len(v.posts) = Len(w.posts) + 1 /\ Len(w.posts) \in Nat
          /\ \A k \in 1..Len(w.posts) : v.posts[k] = w.posts[k]
          /\ v.posts[Len(w.posts) + 1] = x
      BY <1>13, <2>1, <2>2, <2>3, <2>4, <2>9, <3>1, <3>2, QueueGrows
    <3>5. PassageEnds(t, P, F, q, n, P2, F2, q2, n2)
      BY <1>5, <1>7, <1>8, <2>7, <2>9, <3>3, <3>4 DEF PassageEnds
    <3>6. Reports(P2, F2, q2, n2)
      BY <2>7, <3>5, EndKeepsReports
    <3>7. \A k \in 1..Len(w.posts) : w.posts[k].kind = "accept" => Present(w.posts[k].train)
      BY DEF FrameOK
    <3>8. ASSUME NEW k \in 1..Len(v.posts), v.posts[k].kind = "accept"
          PROVE  Present(v.posts[k].train)
      <4>1. k \in 1..Len(w.posts) \/ k = Len(w.posts) + 1
        BY <3>4
      <4>2. k # Len(w.posts) + 1
        BY <2>9, <3>3, <3>4, <3>8
      <4> QED BY <3>4, <3>7, <3>8, <4>1, <4>2
    <3> QED BY <3>6, <3>8
  <2> QED BY <1>12, <2>3, <2>4, <2>6, <2>8, <2>9
<1>17. \A u \in Train : PlaceFits(P2, u)
  <2> SUFFICES ASSUME NEW u \in Train PROVE PlaceFits(P2, u)
    OBVIOUS
  <2>1. CASE u = t
    BY <1>7, <2>1 DEF PlaceFits, Entry
  <2>2. CASE u # t
    <3>1. P2[u] = P[u] /\ PlaceFits(P, u)
      BY <1>1, <1>7, <2>2 DEF FrameOK
    <3> QED BY <3>1 DEF PlaceFits, Entry
  <2> QED BY <2>1, <2>2
<1>18. \A u \in Train : Entry(P2, u) => Claim(passages, u)
  <2>1. \A u \in Train : Entry(P2, u) => Entry(P, u)
    BY <1>7 DEF Entry
  <2> QED BY <1>1, <2>1 DEF FrameOK
<1> QED BY <1>2, <1>3, <1>4, <1>16, <1>17, <1>18 DEF FrameOK

\* An entry is noted.
LEMMA EnteredOK ==
    ASSUME FrameReady, NEW w, FrameOK(w), NEW v \in Frames!Work(SentCommands),
           NEW t \in Train, snapshot # NoSnapshot, snapshot[t] # Absent,
           Frames!Entered(SentCommands, w, v, t),
           w.passages[t].command.rev = topology,
           w.passages[t].acknowledged \/ SeenIn(t, "inside")
    PROVE  FrameOK(v)
<1>1. PICK P : P = w.passages
  OBVIOUS
<1>2. PICK P2 : P2 = v.passages
  OBVIOUS
<1>3. PICK C : C = SentCommands
  OBVIOUS
<1>4. w \in Frames!Work(C) /\ v \in Frames!Work(C)
  BY <1>3 DEF FrameOK
<1>5. PICK q \in Frames!Passage(C) :
         /\ P[t] # NoPassage /\ q.command = P[t].command /\ q.acknowledged /\ q.wasInside
         /\ P2 = [P EXCEPT ![t] = q]
  BY <1>1, <1>2, <1>3 DEF Frames!Entered
<1>6. P \in [Train -> Frames!Passage(C) \cup {NoPassage}]
  BY <1>1, <1>4, FramesAssumed DEF Frames!Work, Frames!PassagesOf
<1>7. P2[t] = q /\ \A u \in Train : u # t => P2[u] = P[u]
  BY <1>5, <1>6
<1>8. PICK p \in Frames!Passage(C) : p = P[t]
  BY <1>5, <1>6
<1>9. PICK i : i = p.command.id
  OBVIOUS
<1>10. p.command \in C /\ q # NoPassage /\ q.command = p.command
  BY <1>3, <1>4, <1>5, <1>8, SentFrames DEF FrameReady
<1>11. p.command.train = t
  BY <1>3, <1>5, <1>6, <1>8, <1>1, <1>4, FramesAssumed
     DEF Frames!Work, Frames!PassagesOf, Frames!PassageOf
<1>12. \/ p.acknowledged /\ v.posts = w.posts
       \/ ~p.acknowledged /\ v.posts = Append(w.posts, Frames!Report("accept", p.command))
  BY <1>1, <1>8 DEF Frames!Entered
<1>13. w.posts \in Seq(Frames!PostsOf(C)) /\ queue \in Seq(Frames!PostsOf(C))
  BY <1>3, <1>4 DEF Frames!Work, FrameReady, KnowsSent
<1>14. QueuedLen(w) \in Nat
  BY <1>13 DEF QueuedLen
<1>15. Reports(P, w.finished, Queued(w), QueuedLen(w))
  BY <1>1 DEF FrameOK
<1>a. Present(t)
  BY DEF Present
<1>b. v.finished = w.finished
  BY DEF Frames!Entered
<1>16. /\ Reports(P2, v.finished, Queued(v), QueuedLen(v))
       /\ \A k \in 1..Len(v.posts) : v.posts[k].kind = "accept" => Present(v.posts[k].train)
  <2>1. PICK n \in Nat : n = QueuedLen(w)
    BY <1>14
  <2>2. PICK qq : qq = Queued(w)
    OBVIOUS
  <2>3. PICK q2 : q2 = Queued(v)
    OBVIOUS
  <2>4. PICK n2 : n2 = QueuedLen(v)
    OBVIOUS
  <2>5. PICK F : F = w.finished
    OBVIOUS
  <2>6. Reports(P, F, qq, n) /\ F = v.finished
    BY <1>15, <1>b, <2>1, <2>2, <2>5
  <2>7. CASE p.acknowledged /\ v.posts = w.posts
    <3>1. q2 = qq /\ n2 = n
      BY <2>1, <2>2, <2>3, <2>4, <2>7 DEF Queued, QueuedLen
    <3>2. \A k \in 1..n : q2[k] = qq[k]
      BY <3>1
    <3>3. PassageEnters(t, P, qq, n, P2, q2, n2)
      BY <1>5, <1>7, <1>8, <1>10, <1>a, <2>7, <3>1, <3>2 DEF PassageEnters
    <3>4. Reports(P2, F, q2, n2)
      BY <2>6, <3>3, EntryKeepsReports
    <3> QED BY <2>3, <2>4, <2>6, <2>7, <3>4 DEF FrameOK
  <2>8. CASE ~p.acknowledged /\ v.posts = Append(w.posts, Frames!Report("accept", p.command))
    <3>1. PICK x : x = Frames!Report("accept", p.command)
      OBVIOUS
    <3>2. x \in Frames!PostsOf(C)
      BY <1>10, <3>1 DEF Frames!PostsOf
    <3>3. x.kind = "accept" /\ x.id = i /\ x.train = t
      BY <1>9, <1>11, <3>1, ReportNames
    <3>4. /\ n2 = n + 1 /\ \A k \in 1..n : q2[k] = qq[k]
          /\ q2[n + 1] = x
          /\ Len(v.posts) = Len(w.posts) + 1 /\ Len(w.posts) \in Nat
          /\ \A k \in 1..Len(w.posts) : v.posts[k] = w.posts[k]
          /\ v.posts[Len(w.posts) + 1] = x
      BY <1>13, <2>1, <2>2, <2>3, <2>4, <2>8, <3>1, <3>2, QueueGrows
    <3>5. PassageEnters(t, P, qq, n, P2, q2, n2)
      BY <1>5, <1>7, <1>8, <1>9, <1>10, <1>a, <2>8, <3>3, <3>4 DEF PassageEnters
    <3>6. Reports(P2, F, q2, n2)
      BY <2>6, <3>5, EntryKeepsReports
    <3>7. \A k \in 1..Len(w.posts) : w.posts[k].kind = "accept" => Present(w.posts[k].train)
      BY DEF FrameOK
    <3>8. ASSUME NEW k \in 1..Len(v.posts), v.posts[k].kind = "accept"
          PROVE  Present(v.posts[k].train)
      <4>1. k \in 1..Len(w.posts) \/ k = Len(w.posts) + 1
        BY <3>4
      <4>2. k = Len(w.posts) + 1 => v.posts[k].train = t
        BY <3>3, <3>4
      <4> QED BY <1>a, <3>4, <3>7, <3>8, <4>1, <4>2
    <3> QED BY <2>3, <2>4, <2>6, <3>6, <3>8
  <2> QED BY <1>12, <2>7, <2>8
<1>17. place[t] # "near" /\ ~SeenIn(t, "near")
  <2>1. CASE SeenIn(t, "inside")
    <3>1. ~SeenIn(t, "near") /\ ~SeenIn(t, "away")
      BY <2>1, ViewFacts DEF SeenIn
    <3> QED BY <3>1 DEF FrameReady, SnapshotFits
  <2>2. CASE p.acknowledged
    <3>1. PlaceFits(P, t) /\ Entry(P, t)
      BY <1>1, <1>5, <1>8, <2>2 DEF FrameOK, Entry
    <3> QED BY <3>1 DEF PlaceFits
  <2> QED BY <1>1, <1>8, <2>1, <2>2
<1>18. \A u \in Train : PlaceFits(P2, u)
  <2> SUFFICES ASSUME NEW u \in Train PROVE PlaceFits(P2, u)
    OBVIOUS
  <2>1. CASE u = t
    <3>1. PlaceFits(P, t)
      BY <1>1 DEF FrameOK
    <3>2. P2[t] # NoPassage /\ P2[t].command = P[t].command
      BY <1>7, <1>8, <1>10
    <3>3. P2[t].command.rev = topology
      BY <1>1, <3>2
    <3> QED BY <1>17, <2>1, <3>1, <3>2, <3>3 DEF PlaceFits
  <2>2. CASE u # t
    <3>1. P2[u] = P[u] /\ PlaceFits(P, u)
      BY <1>1, <1>7, <2>2 DEF FrameOK
    <3> QED BY <3>1 DEF PlaceFits, Entry
  <2> QED BY <2>1, <2>2
<1>19. \A u \in Train : Entry(P2, u) => Claim(passages, u)
  <2>1. \A u \in Train : Entry(P, u) => Claim(passages, u)
    BY <1>1 DEF FrameOK
  <2>2. \A u \in Train : u # t => (Entry(P2, u) => Entry(P, u))
    BY <1>7 DEF Entry
  <2>3. p.acknowledged => Entry(P, t)
    BY <1>5, <1>8 DEF Entry
  <2>4. ~p.acknowledged => Claim(passages, t)
    <3>1. ReleasesBacked(P)
      BY <1>15 DEF Reports
    <3>2. ~p.acknowledged => Pend(t, P[t].command.id)
      BY <1>5, <1>8, <1>a, <3>1 DEF ReleasesBacked
    <3> QED BY <1>a, <3>2 DEF Pend, Claim
  <2> QED BY <2>1, <2>2, <2>3, <2>4
<1> QED BY <1>2, <1>3, <1>4, <1>16, <1>18, <1>19 DEF FrameOK

\* What the round of a train leaves of it: a passage that fits the topology,
\* and one at all, unless it is held, if it is near its entry.
Settled(w, t) ==
    /\ w.passages[t] # NoPassage => w.passages[t].command.rev = topology
    /\ SeenIn(t, "near") /\ t \notin w.held => w.passages[t] # NoPassage

\* A round is about one train only.
LEMMA RoundOfOne ==
    ASSUME NEW C, NEW w \in Frames!Work(C), NEW v, NEW t \in Train, NEW u \in Train, u # t,
           Frames!RoundOutcome(C, w, v, t)
    PROVE  v.passages[u] = w.passages[u]
<1>1. w.passages \in [Train -> Frames!Passage(C) \cup {NoPassage}]
  BY FramesAssumed DEF Frames!Work, Frames!PassagesOf
<1>2. \/ v.passages = w.passages
      \/ \E q : v.passages = [w.passages EXCEPT ![t] = q]
  BY DEF Frames!RoundOutcome, Frames!Kept, Frames!Rejected, Frames!Entered, Frames!Left
<1> QED BY <1>1, <1>2

\* A round that keeps the frame in order, and settles its train.
RoundOK(w, v, t) ==
    /\ FrameOK(v) /\ Settled(v, t) /\ w.held \subseteq v.held
    /\ \A u \in Train : u # t => v.passages[u] = w.passages[u]

\* One train of the snapshot.
LEMMA TickOK ==
    ASSUME FrameReady, NEW w, FrameOK(w), NEW t \in Train, snapshot # NoSnapshot,
           snapshot[t] # Absent, NEW elapsed,
           NEW v, v = Frames!TickTrain(w, t, snapshot[t], elapsed)
    PROVE  RoundOK(w, v, t)
<1> SUFFICES /\ FrameOK(v) /\ Settled(v, t) /\ w.held \subseteq v.held
             /\ \A u \in Train : u # t => v.passages[u] = w.passages[u]
  BY DEF RoundOK
<1>1. PICK P : P = w.passages
  OBVIOUS
<1>2. PICK C : C = SentCommands
  OBVIOUS
<1>3. PICK view : view = snapshot[t]
  OBVIOUS
<1>4. w \in Frames!Work(C)
  BY <1>2 DEF FrameOK
<1>5. Frames!RoundOutcome(C, w, v, t) /\ Frames!TickOutcomes(C, w, v, t, view)
  BY <1>3, <1>4, FramesAssumed, Frames!TickOutcome
<1>6. \A u \in Train : u # t => v.passages[u] = P[u]
  BY <1>1, <1>4, <1>5, RoundOfOne
<1>7. /\ v \in Frames!Work(C) /\ w.held \subseteq v.held
      /\ \/ P[t] = NoPassage /\ Frames!Kept(w, v)
         \/ P[t] # NoPassage /\ Frames!Outdated(P[t], view) /\ Frames!Rejected(w, v, t)
         \/ /\ P[t] # NoPassage /\ ~Frames!Outdated(P[t], view)
            /\ \/ Frames!Kept(w, v)
               \/ /\ Frames!Entered(C, w, v, t)
                  /\ P[t].acknowledged \/ view.at = P[t].command.resource
               \/ Frames!Left(w, v, t) /\ view.at # P[t].command.resource
      /\ (topology # 0 /\ view.near # NoResource /\ t \notin v.held) =>
            P[t] # NoPassage /\ ~Frames!Outdated(P[t], view)
  BY <1>1, <1>5 DEF Frames!TickOutcomes
<1>8. PlaceFits(P, t) /\ Present(t)
  BY <1>1 DEF FrameOK, Present
<1>9. topology # 0 /\ SnapshotFits
  BY DEF FrameReady
<1>10. view.line = LineOf[t] /\ (SeenIn(t, "near") <=> view.near # NoResource)
       /\ (SeenIn(t, "inside") <=> view.at = Way[t])
  <2>1. \/ view = ViewIn(t, "away") \/ view = ViewIn(t, "near") \/ view = ViewIn(t, "inside")
    BY <1>3, <1>9 DEF SnapshotFits, SeenIn
  <2> QED BY <1>3, <2>1, ViewFacts DEF SeenIn
<1>11. P \in [Train -> Frames!Passage(C) \cup {NoPassage}]
  BY <1>1, <1>4, FramesAssumed DEF Frames!Work, Frames!PassagesOf
<1>12. ASSUME P[t] # NoPassage
       PROVE  /\ P[t].command.resource = Way[t] /\ P[t].command.line = LineOf[t]
              /\ Frames!Outdated(P[t], view) <=> P[t].command.rev # topology
  <2>1. P[t].command \in SentCommands
    BY <1>2, <1>11, <1>12 DEF Frames!Passage
  <2>2. P[t].command.train = t
    BY <1>1, <1>4, <1>12, FramesAssumed DEF Frames!Work, Frames!PassagesOf, Frames!PassageOf
  <2>3. P[t].command.resource = Way[t] /\ P[t].command.line = LineOf[t]
    BY <2>1, <2>2, SentFacts DEF FrameReady
  <2> QED BY <1>9, <1>10, <2>3 DEF Frames!Outdated
<1>13. CASE Frames!Kept(w, v) /\ (P[t] # NoPassage => ~Frames!Outdated(P[t], view))
  <2>1. FrameOK(v)
    BY <1>2, <1>7, <1>13, KeptOK
  <2>2. v.passages[t] = P[t]
    BY <1>1, <1>13 DEF Frames!Kept
  <2>3. Settled(v, t)
    BY <1>7, <1>9, <1>10, <1>12, <1>13, <2>2 DEF Settled
  <2> QED BY <1>1, <1>6, <1>7, <2>1, <2>3
<1>14. CASE P[t] # NoPassage /\ Frames!Outdated(P[t], view) /\ Frames!Rejected(w, v, t)
  <2>1. place[t] # "inside"
    BY <1>8, <1>12, <1>14 DEF PlaceFits
  <2>2. FrameOK(v)
    BY <1>2, <1>7, <1>14, <2>1, EndedOK
  <2>3. v.passages[t] = NoPassage
    BY <1>1, <1>11, <1>14 DEF Frames!Rejected
  <2>4. Settled(v, t)
    BY <1>7, <1>9, <1>10, <1>14, <2>3 DEF Settled
  <2> QED BY <1>1, <1>6, <1>7, <2>2, <2>4
<1>15. CASE /\ P[t] # NoPassage /\ ~Frames!Outdated(P[t], view)
            /\ Frames!Entered(C, w, v, t)
            /\ P[t].acknowledged \/ view.at = P[t].command.resource
  <2>1. P[t].command.rev = topology /\ (P[t].acknowledged \/ SeenIn(t, "inside"))
    BY <1>10, <1>12, <1>15
  <2>2. FrameOK(v)
    BY <1>1, <1>2, <1>7, <1>15, <2>1, EnteredOK
  <2>3. PICK q \in Frames!Passage(C) : q.command = P[t].command /\ v.passages = [P EXCEPT ![t] = q]
    BY <1>1, <1>15 DEF Frames!Entered
  <2>4. q # NoPassage
    BY <1>2, <1>4, SentFrames DEF FrameReady
  <2>5. v.passages[t] = q
    BY <1>11, <2>3
  <2>6. Settled(v, t)
    BY <2>1, <2>3, <2>4, <2>5 DEF Settled
  <2> QED BY <1>1, <1>6, <1>7, <2>2, <2>6
<1>16. CASE /\ P[t] # NoPassage /\ ~Frames!Outdated(P[t], view)
            /\ Frames!Left(w, v, t) /\ view.at # P[t].command.resource
  <2>1. Entry(P, t)
    BY <1>1, <1>16 DEF Entry, Frames!Left
  <2>2. ~SeenIn(t, "near") /\ ~SeenIn(t, "inside")
    BY <1>8, <1>10, <1>12, <1>16, <2>1 DEF PlaceFits
  <2>3. place[t] # "inside"
    BY <1>9, <2>2 DEF SnapshotFits
  <2>4. FrameOK(v)
    BY <1>2, <1>7, <1>16, <2>3, EndedOK
  <2>5. v.passages[t] = NoPassage
    BY <1>1, <1>11, <1>16 DEF Frames!Left
  <2>6. Settled(v, t)
    BY <2>2, <2>5 DEF Settled
  <2> QED BY <1>1, <1>6, <1>7, <2>4, <2>6
<1> QED BY <1>7, <1>13, <1>14, <1>15, <1>16

\* A train that is missing in the snapshot.
LEMMA MissingOK ==
    ASSUME FrameReady, NEW w, FrameOK(w), NEW t \in Train, snapshot # NoSnapshot,
           snapshot[t] = Absent, NEW v, v = Frames!RemoveMissing(w, t)
    PROVE  /\ FrameOK(v) /\ v.held = w.held
           /\ \A u \in Train : u # t => v.passages[u] = w.passages[u]
<1>1. PICK C : C = SentCommands
  OBVIOUS
<1>2. w \in Frames!Work(C)
  BY <1>1 DEF FrameOK
<1>3. /\ Frames!RoundOutcome(C, w, v, t) /\ v.held = w.held
      /\ Frames!Kept(w, v) \/ Frames!Rejected(w, v, t) \/ Frames!Left(w, v, t)
  BY <1>2, FramesAssumed, Frames!MissingOutcome
<1>4. \A u \in Train : u # t => v.passages[u] = w.passages[u]
  BY <1>2, <1>3, RoundOfOne
<1>5. v \in Frames!Work(SentCommands)
  BY <1>1, <1>3 DEF Frames!RoundOutcome
<1>6. place[t] # "inside"
  BY DEF FrameReady, SnapshotFits
<1>7. FrameOK(v)
  BY <1>3, <1>5, <1>6, KeptOK, EndedOK
<1> QED BY <1>3, <1>4, <1>7

\* A command begins a passage.
LEMMA BeginOK ==
    ASSUME FrameReady, NEW w, FrameOK(w), NEW v \in Frames!Work(SentCommands),
           NEW c \in SentCommands, NEW t, t = c.train, w.passages[t] = NoPassage,
           c.id \notin w.finished,
           v.passages = [w.passages EXCEPT ![t] = Frames!NewPassage(c)],
           v.finished = w.finished, v.posts = w.posts,
           \A k \in 1..QueuedLen(w) : Queued(w)[k].train = t => Queued(w)[k].id <= c.id,
           Present(t) => Pend(t, c.id)
    PROVE  FrameOK(v)
<1>1. PICK P : P = w.passages
  OBVIOUS
<1>2. PICK P2 : P2 = v.passages
  OBVIOUS
<1>3. PICK C : C = SentCommands
  OBVIOUS
<1>4. w \in Frames!Work(C) /\ v \in Frames!Work(C)
  BY <1>3 DEF FrameOK
<1>a. PICK p : p = Frames!NewPassage(c)
  OBVIOUS
<1>b. p = [command |-> c, acknowledged |-> FALSE, wasInside |-> FALSE, exitSeen |-> FALSE]
  BY <1>a DEF Frames!NewPassage
<1>c. p \in [command : C, acknowledged : BOOLEAN, wasInside : BOOLEAN, exitSeen : BOOLEAN]
  BY <1>3, <1>b
<1>5. /\ p \in Frames!Passage(C) /\ p = Frames!NewPassage(c)
      /\ p.command = c /\ p.acknowledged = FALSE /\ p.wasInside = FALSE
  BY <1>a, <1>b, <1>c DEF Frames!Passage
<1>6. P \in [Train -> Frames!Passage(C) \cup {NoPassage}]
  BY <1>1, <1>4, FramesAssumed DEF Frames!Work, Frames!PassagesOf
<1>7. /\ t \in Train /\ c.id \in StoredIds /\ RowTrain(c.id) = t
  BY SentFacts DEF FrameReady
<1>8. P2[t] = p /\ \A u \in Train : u # t => P2[u] = P[u]
  BY <1>1, <1>2, <1>5, <1>6, <1>7
<1>9. p # NoPassage
  BY <1>3, <1>4, <1>5, SentFrames DEF FrameReady
<1>10. Queued(v) = Queued(w) /\ QueuedLen(v) = QueuedLen(w)
  BY DEF Queued, QueuedLen
<1>11. QueuedLen(w) \in Nat
  BY <1>3, <1>4 DEF Frames!Work, FrameReady, KnowsSent, QueuedLen
<1>12. Reports(P2, v.finished, Queued(v), QueuedLen(v))
  <2>1. PICK n \in Nat : n = QueuedLen(w)
    BY <1>11
  <2>2. PICK q : q = Queued(w)
    OBVIOUS
  <2>3. PICK F : F = w.finished
    OBVIOUS
  <2>4. Reports(P, F, q, n)
    BY <1>1, <2>1, <2>2, <2>3 DEF FrameOK
  <2>5. PassageBegins(t, P, F, q, n, P2)
    BY <1>1, <1>5, <1>7, <1>8, <1>9, <2>1, <2>2, <2>3 DEF PassageBegins
  <2>6. Reports(P2, F, q, n)
    BY <1>7, <2>4, <2>5, BeginKeepsReports
  <2> QED BY <1>10, <2>1, <2>2, <2>3, <2>6
<1>13. place[t] # "inside"
  BY <1>7 DEF FrameOK, PlaceFits
<1>14. ~Entry(P2, t)
  BY <1>5, <1>8 DEF Entry
<1>15. \A u \in Train : PlaceFits(P2, u)
  <2> SUFFICES ASSUME NEW u \in Train PROVE PlaceFits(P2, u)
    OBVIOUS
  <2>1. CASE u = t
    BY <1>5, <1>8, <1>13, <1>14, <2>1 DEF PlaceFits
  <2>2. CASE u # t
    <3>1. P2[u] = P[u] /\ PlaceFits(P, u)
      BY <1>1, <1>8, <2>2 DEF FrameOK
    <3> QED BY <3>1 DEF PlaceFits, Entry
  <2> QED BY <2>1, <2>2
<1>16. \A u \in Train : Entry(P2, u) => Claim(passages, u)
  <2>1. \A u \in Train : Entry(P2, u) => Entry(P, u)
    BY <1>8, <1>14 DEF Entry
  <2> QED BY <1>1, <2>1 DEF FrameOK
<1>17. \A k \in 1..Len(v.posts) : v.posts[k].kind = "accept" => Present(v.posts[k].train)
  BY DEF FrameOK
<1> QED BY <1>2, <1>3, <1>4, <1>12, <1>15, <1>16, <1>17 DEF FrameOK

\* The commands of the inbox are newer than all in the frame.
DrainBacked(w) == InboxBacked(w.passages, w.finished, Queued(w), QueuedLen(w))

\* What a command does to a frame.
Drained(w, v, c) ==
    LET p == w.passages[c.train]
    IN  \/ v = w
        \/ /\ p = NoPassage /\ c.id \notin w.finished
           /\ v.passages = [w.passages EXCEPT ![c.train] = Frames!NewPassage(c)]
           /\ v.finished = w.finished /\ v.posts = w.posts
        \/ /\ p # NoPassage /\ c.id \notin w.finished /\ p.command.id # c.id
           /\ v.passages = [w.passages EXCEPT ![c.train] = Frames!NewPassage(c)]
           /\ v.finished = Frames!Finish(w, p).finished
           /\ v.posts = IF p.acknowledged THEN w.posts
                        ELSE Append(w.posts, Frames!Report("reject", p.command))

\* A command of the inbox keeps the frame in order.
LEMMA DrainedOK ==
    ASSUME FrameReady, NEW w, FrameOK(w), DrainBacked(w), NEW c \in SentCommands,
           Len(inbox) = 1, inbox[1] = c,
           NEW v \in Frames!Work(SentCommands), Drained(w, v, c)
    PROVE  FrameOK(v) /\ DrainBacked(v)
<1>1. PICK P : P = w.passages
  OBVIOUS
<1>3. PICK C : C = SentCommands
  OBVIOUS
<1>4. w \in Frames!Work(C)
  BY <1>3 DEF FrameOK
<1>5. c \in C
  BY <1>3
<1>6. PICK t \in Train : /\ t = c.train /\ c.id \in StoredIds /\ RowTrain(c.id) = t
                         /\ c.id \in CommandIds
  BY SentFacts DEF FrameReady
<1>7. /\ P[t] # NoPassage => P[t].command.id <= c.id
      /\ \A k \in 1..QueuedLen(w) : Queued(w)[k].train = t => Queued(w)[k].id <= c.id
      /\ Present(t) => \/ Pend(t, c.id) \/ c.id \in w.finished
                       \/ P[t] # NoPassage /\ P[t].command.id = c.id
  <2>1. 1 \in 1..Len(inbox)
    OBVIOUS
  <2> QED BY <1>1, <1>6, <2>1 DEF DrainBacked, InboxBacked
<1>8. PICK p : p = P[t]
  OBVIOUS
<1>10. /\ v \in Frames!Work(C)
       /\ \/ v = w
          \/ /\ p = NoPassage /\ c.id \notin w.finished
             /\ v.passages = [P EXCEPT ![t] = Frames!NewPassage(c)]
             /\ v.finished = w.finished /\ v.posts = w.posts
          \/ /\ p # NoPassage /\ c.id \notin w.finished /\ p.command.id # c.id
             /\ v.passages = [P EXCEPT ![t] = Frames!NewPassage(c)]
             /\ v.finished = Frames!Finish(w, p).finished
             /\ v.posts = IF p.acknowledged THEN w.posts
                          ELSE Append(w.posts, Frames!Report("reject", p.command))
  BY <1>1, <1>3, <1>6, <1>8 DEF Drained
<1>11. P \in [Train -> Frames!Passage(C) \cup {NoPassage}]
  BY <1>1, <1>4, FramesAssumed DEF Frames!Work, Frames!PassagesOf
<1>12. Frames!NewPassage(c) \in Frames!Passage(C) /\ Frames!NewPassage(c).command = c
  BY <1>5 DEF Frames!NewPassage, Frames!Passage
<1>13. ASSUME v.passages = [P EXCEPT ![t] = Frames!NewPassage(c)],
              \A k \in 1..QueuedLen(v) : Queued(v)[k].train = t => Queued(v)[k].id <= c.id
       PROVE  DrainBacked(v)
  <2>1. Frames!NewPassage(c) # NoPassage
    BY <1>3, <1>4, <1>12, SentFrames DEF FrameReady
  <2>2. v.passages[t] # NoPassage /\ v.passages[t].command.id = c.id
    BY <1>11, <1>12, <1>13, <2>1
  <2>3. c.id <= c.id
    BY <1>6 DEF CommandIds
  <2>4. \A k \in 1..Len(inbox) : inbox[k] = c
    OBVIOUS
  <2> QED BY <1>6, <1>13, <2>2, <2>3, <2>4 DEF DrainBacked, InboxBacked
<1>14. CASE /\ p = NoPassage /\ c.id \notin w.finished
            /\ v.passages = [P EXCEPT ![t] = Frames!NewPassage(c)]
            /\ v.finished = w.finished /\ v.posts = w.posts
  <2>1. Present(t) => Pend(t, c.id)
    BY <1>7, <1>8, <1>14
  <2>2. FrameOK(v)
    <3>1. /\ v \in Frames!Work(SentCommands) /\ c \in SentCommands /\ w.passages[t] = NoPassage
          /\ v.passages = [w.passages EXCEPT ![t] = Frames!NewPassage(c)]
      BY <1>1, <1>3, <1>5, <1>8, <1>10, <1>14
    <3>2. /\ t = c.train /\ c.id \notin w.finished
          /\ v.finished = w.finished /\ v.posts = w.posts
          /\ \A k \in 1..QueuedLen(w) : Queued(w)[k].train = t => Queued(w)[k].id <= c.id
      BY <1>6, <1>7, <1>14
    <3> QED BY <2>1, <3>1, <3>2, BeginOK
  <2>3. Queued(v) = Queued(w) /\ QueuedLen(v) = QueuedLen(w)
    BY <1>14 DEF Queued, QueuedLen
  <2> QED BY <1>7, <1>13, <1>14, <2>2, <2>3
<1>15. CASE /\ p # NoPassage /\ c.id \notin w.finished /\ p.command.id # c.id
            /\ v.passages = [P EXCEPT ![t] = Frames!NewPassage(c)]
            /\ v.finished = Frames!Finish(w, p).finished
            /\ v.posts = IF p.acknowledged THEN w.posts
                         ELSE Append(w.posts, Frames!Report("reject", p.command))
  <2>1. Present(t) => Pend(t, c.id)
    BY <1>7, <1>8, <1>15
  <2>2. place[t] # "inside"
    <3>1. PlaceFits(P, t)
      BY <1>1 DEF FrameOK
    <3>2. place[t] = "inside" => Present(t)
      BY DEF FrameReady, SnapshotFits, Present
    <3> QED BY <1>6, <1>8, <1>15, <2>1, <3>1, <3>2 DEF PlaceFits
  <2>3. PICK u : u = [passages |-> [P EXCEPT ![t] = NoPassage], finished |-> v.finished,
                      posts |-> v.posts, held |-> v.held]
    OBVIOUS
  <2>4. u \in Frames!Work(C)
    <3>1. [P EXCEPT ![t] = NoPassage] \in Frames!PassagesOf(C)
      BY <1>1, <1>4, FramesAssumed DEF Frames!Work, Frames!PassagesOf
    <3> QED BY <1>10, <2>3, <3>1 DEF Frames!Work
  <2>5. Frames!Rejected(w, u, t)
    BY <1>1, <1>8, <1>15, <2>3 DEF Frames!Rejected
  <2>6. FrameOK(u)
    BY <1>3, <2>2, <2>4, <2>5, EndedOK
  <2>7. u.passages[t] = NoPassage /\ u.finished = v.finished /\ u.posts = v.posts
    BY <1>11, <2>3
  <2>8. v.passages = [u.passages EXCEPT ![t] = Frames!NewPassage(c)]
    BY <1>11, <1>15, <2>3
  <2>9. p \in Frames!Passage(C) /\ p.command \in C /\ v.finished = w.finished \cup {p.command.id}
    <3>1. p \in Frames!Passage(C)
      BY <1>8, <1>11, <1>15
    <3> QED BY <1>3, <1>4, <1>15, <3>1, SentFrames DEF FrameReady
  <2>10. c.id \notin u.finished
    BY <1>15, <2>7, <2>9
  <2>11. \A k \in 1..QueuedLen(v) : Queued(v)[k].train = t => Queued(v)[k].id <= c.id
    <3>1. CASE v.posts = w.posts
      <4>1. Queued(v) = Queued(w) /\ QueuedLen(v) = QueuedLen(w)
        BY <3>1 DEF Queued, QueuedLen
      <4> QED BY <1>7, <4>1
    <3>2. CASE v.posts = Append(w.posts, Frames!Report("reject", p.command))
      <4>1. PICK x : x = Frames!Report("reject", p.command)
        OBVIOUS
      <4>2. x \in Frames!PostsOf(C) /\ x.id = p.command.id
        BY <2>9, <4>1, ReportNames DEF Frames!PostsOf
      <4>3. w.posts \in Seq(Frames!PostsOf(C)) /\ queue \in Seq(Frames!PostsOf(C))
        BY <1>3, <1>4 DEF Frames!Work, FrameReady, KnowsSent
      <4>4. /\ QueuedLen(w) \in Nat /\ QueuedLen(v) = QueuedLen(w) + 1
            /\ \A k \in 1..QueuedLen(w) : Queued(v)[k] = Queued(w)[k]
            /\ Queued(v)[QueuedLen(w) + 1] = x
        <5>1. v.posts = Append(w.posts, x)
          BY <3>2, <4>1
        <5>2. PICK A : A = Frames!PostsOf(C)
          OBVIOUS
        <5>3. queue \in Seq(A) /\ w.posts \in Seq(A) /\ x \in A
          BY <4>2, <4>3, <5>2
        <5> QED BY <5>1, <5>3, QueueGrows
      <4>5. x.id <= c.id
        BY <1>7, <1>8, <1>15, <4>2
      <4> QED BY <1>7, <4>4, <4>5
    <3> QED BY <1>15, <3>1, <3>2
  <2>12. Queued(u) = Queued(v) /\ QueuedLen(u) = QueuedLen(v)
    BY <2>7 DEF Queued, QueuedLen
  <2>13. \A k \in 1..QueuedLen(u) : Queued(u)[k].train = t => Queued(u)[k].id <= c.id
    BY <2>11, <2>12
  <2>14. FrameOK(v)
    BY <1>3, <1>5, <1>6, <1>10, <2>1, <2>6, <2>7, <2>8, <2>10, <2>13, BeginOK
  <2> QED BY <1>13, <1>15, <2>11, <2>14
<1> QED BY <1>10, <1>14, <1>15

\* One command of the inbox.
LEMMA DrainOK ==
    ASSUME FrameReady, NEW w, FrameOK(w), DrainBacked(w), NEW m \in 1..Len(inbox),
           NEW v, v = Frames!DrainCommand(w, inbox[m])
    PROVE  FrameOK(v) /\ DrainBacked(v)
<1>1. PICK C : C = SentCommands
  OBVIOUS
<1>2. inbox \in Seq(C) /\ Len(inbox) <= 1 /\ w \in Frames!Work(C)
  BY <1>1 DEF FrameReady, KnowsSent, FrameOK
<1>3. inbox[m] \in C /\ Len(inbox) = 1 /\ m = 1
  <2>1. PICK n \in Nat : n = Len(inbox)
    BY <1>2
  <2>2. m \in 1..n /\ n <= 1
    BY <1>2, <2>1
  <2>3. m = 1 /\ n = 1
    BY <2>2
  <2>4. inbox[m] \in C
    BY <1>2
  <2> QED BY <2>1, <2>3, <2>4
<1>4. PICK c \in C : c = inbox[1] /\ v = Frames!DrainCommand(w, c)
  BY <1>3
<1>5. c.train \in Frames!GameTrain
  BY <1>1, <1>4, SentFacts, FramesAssumed DEF FrameReady
<1>6. v \in Frames!Work(C) /\ Drained(w, v, c)
  BY <1>2, <1>4, <1>5, FramesAssumed, Frames!DrainOutcome DEF Drained
<1> QED BY <1>1, <1>3, <1>4, <1>6, DrainedOK

\* The frame begins in order.
LEMMA StartOK ==
    ASSUME FrameReady, Reports(passages, finished, queue, Len(queue)),
           \A t \in Train : PlaceFits(passages, t),
           InboxBacked(passages, finished, queue, Len(queue)),
           NEW w, w = Frames!FrameStart
    PROVE  FrameOK(w) /\ DrainBacked(w)
<1>1. PICK C : C = SentCommands
  OBVIOUS
<1>2. /\ w.passages = passages /\ w.finished = finished /\ w.posts = <<>> /\ w.held = {}
      /\ w = [passages |-> passages, finished |-> finished, posts |-> <<>>, held |-> {}]
  BY DEF Frames!FrameStart
<1>3. /\ passages \in Frames!PassagesOf(C) /\ finished \subseteq Frames!IdsOf(C)
      /\ queue \in Seq(Frames!PostsOf(C))
  BY <1>1 DEF FrameReady, KnowsSent
<1>4. w \in Frames!Work(C)
  BY <1>2, <1>3 DEF Frames!Work
<1>5. Queued(w) = queue /\ QueuedLen(w) = Len(queue) /\ Len(w.posts) = 0
  <2>1. PICK A : A = Frames!PostsOf(C)
    OBVIOUS
  <2>2. queue \o <<>> = queue /\ Len(queue) + Len(<<>>) = Len(queue)
    BY <1>3, <2>1
  <2>3. Len(<<>>) = 0
    OBVIOUS
  <2> QED BY <1>2, <2>2, <2>3 DEF Queued, QueuedLen
<1>6. \A t \in Train : Entry(passages, t) => Claim(passages, t)
  BY DEF Claim
<1>7. FrameOK(w)
  BY <1>1, <1>2, <1>4, <1>5, <1>6 DEF FrameOK
<1> QED BY <1>2, <1>5, <1>7 DEF DrainBacked

\* A settled train stays so.
LEMMA SettledStays ==
    ASSUME NEW w, NEW v, NEW t, Settled(w, t), v.passages[t] = w.passages[t],
           w.held \subseteq v.held
    PROVE  Settled(v, t)
BY DEF Settled

\* The frame ends in order, and settles every train of the snapshot.
LEMMA FrameEnds ==
    ASSUME FrameReady, FrameOK(Frames!FrameStart), DrainBacked(Frames!FrameStart), NEW elapsed,
           NEW v, v = Frames!TickCore({}, elapsed)
    PROVE  /\ FrameOK(v)
           /\ snapshot # NoSnapshot => \A t \in Train : snapshot[t] # Absent => Settled(v, t)
<1>1. PICK C : C = SentCommands
  OBVIOUS
<1>2. PICK S : \A w : w \in S <=> w \in Frames!Work(C) /\ FrameOK(w) /\ DrainBacked(w)
  <2>1. \A w : w \in {x \in Frames!Work(C) : FrameOK(x) /\ DrainBacked(x)} <=>
                   w \in Frames!Work(C) /\ FrameOK(w) /\ DrainBacked(w)
    OBVIOUS
  <2> QED BY <2>1
<1>3. PICK W : \A w : w \in W <=> w \in Frames!Work(C) /\ FrameOK(w)
  <2>1. \A w : w \in {x \in Frames!Work(C) : FrameOK(x)} <=> w \in Frames!Work(C) /\ FrameOK(w)
    OBVIOUS
  <2> QED BY <2>1
<1>4. \A w : FrameOK(w) => w \in Frames!Work(C)
  BY <1>1 DEF FrameOK
<1>5. Frames!KeptByDrain(S)
  <2>1. Len(inbox) \in Nat
    <3>1. inbox \in Seq(C)
      BY <1>1 DEF FrameReady, KnowsSent
    <3> QED BY <3>1
  <2>2. Frames!FrameStart \in S
    BY <1>2, <1>4
  <2>3. ASSUME NEW w \in S, NEW k \in 1..Len(inbox)
        PROVE  Frames!DrainCommand(w, inbox[k]) \in S
    <3>1. FrameOK(w) /\ DrainBacked(w)
      BY <1>2
    <3>2. PICK x : x = Frames!DrainCommand(w, inbox[k])
      OBVIOUS
    <3>3. FrameOK(x) /\ DrainBacked(x)
      BY <3>1, <3>2, DrainOK
    <3> QED BY <1>2, <1>4, <3>2, <3>3
  <2> QED BY <2>1, <2>2, <2>3 DEF Frames!KeptByDrain
<1>6. Frames!DrainCommands \in W
  <2>1. Frames!DrainCommands \in S
    BY <1>5, FramesAssumed, Frames!DrainIn
  <2> QED BY <1>2, <1>3, <2>1
<1>7. CASE snapshot = NoSnapshot
  <2>1. v = Frames!DrainCommands
    BY <1>7 DEF Frames!TickCore
  <2> QED BY <1>3, <1>6, <1>7, <2>1
<1>8. CASE snapshot # NoSnapshot
  <2>1. PICK d \in W : d = Frames!DrainCommands
    BY <1>6
  <2>2. PICK e : e = Frames!TickTrains(d, {}, elapsed)
    OBVIOUS
  <2>3. v = Frames!RemoveMissingPassages(e)
    BY <1>8, <2>1, <2>2 DEF Frames!TickCore
  <2>4. ASSUME NEW w, FrameOK(w), NEW t \in Train, snapshot[t] # Absent
        PROVE  RoundOK(w, Frames!TickTrain(w, t, snapshot[t], elapsed), t)
    BY <1>8, <2>4, TickOK
  <2>5. ASSUME NEW w, FrameOK(w), NEW t \in Train, snapshot[t] = Absent, NEW x,
               x = Frames!RemoveMissing(w, t)
        PROVE  /\ FrameOK(x) /\ x.held = w.held
               /\ \A u \in Train : u # t => x.passages[u] = w.passages[u]
    BY <1>8, <2>5, MissingOK
  <2>6. Frames!KeptByTrains(W, elapsed)
    <3>1. ASSUME NEW w \in W, NEW t \in Train, snapshot[t] # Absent
          PROVE  Frames!TickTrain(w, t, snapshot[t], elapsed) \in W
      BY <1>3, <1>4, <2>4, <3>1 DEF RoundOK
    <3> QED BY <3>1, FramesAssumed DEF Frames!KeptByTrains
  <2>7. Frames!KeptByMissing(W)
    <3>1. ASSUME NEW w \in W, NEW t \in Train, snapshot[t] = Absent
          PROVE  Frames!RemoveMissing(w, t) \in W
      BY <1>3, <1>4, <2>5, <3>1
    <3> QED BY <3>1, FramesAssumed DEF Frames!KeptByMissing
  <2>8. e \in W
    BY <2>2, <2>6, FramesAssumed, Frames!TrainsIn
  <2>9. v \in W
    BY <2>3, <2>7, <2>8, FramesAssumed, Frames!MissingIn
  <2>10. ASSUME NEW t \in Train, snapshot[t] # Absent PROVE Settled(v, t)
    <3>1. PICK T : \A w : w \in T <=> w \in W /\ Settled(w, t)
      <4>1. \A w : w \in {x \in W : Settled(x, t)} <=> w \in W /\ Settled(w, t)
        OBVIOUS
      <4> QED BY <4>1
    <3>2. Frames!KeptByTrains(T, elapsed)
      <4>1. ASSUME NEW w \in T, NEW u \in Train, snapshot[u] # Absent
            PROVE  Frames!TickTrain(w, u, snapshot[u], elapsed) \in T
        <5>1. PICK x : x = Frames!TickTrain(w, u, snapshot[u], elapsed)
          OBVIOUS
        <5>2. w \in W /\ FrameOK(w) /\ Settled(w, t)
          BY <1>3, <3>1
        <5>3. /\ FrameOK(x) /\ Settled(x, u) /\ w.held \subseteq x.held
              /\ u # t => x.passages[t] = w.passages[t]
          BY <2>4, <4>1, <5>1, <5>2 DEF RoundOK
        <5>4. Settled(x, t)
          BY <5>2, <5>3, SettledStays
        <5> QED BY <1>3, <1>4, <3>1, <5>1, <5>3, <5>4
      <4> QED BY <4>1, FramesAssumed DEF Frames!KeptByTrains
    <3>3. Frames!KeptByMissing(T)
      <4>1. ASSUME NEW w \in T, NEW u \in Train, snapshot[u] = Absent
            PROVE  Frames!RemoveMissing(w, u) \in T
        <5>1. PICK x : x = Frames!RemoveMissing(w, u)
          OBVIOUS
        <5>2. w \in W /\ FrameOK(w) /\ Settled(w, t) /\ u # t
          BY <1>3, <2>10, <3>1, <4>1
        <5>3. FrameOK(x) /\ x.held = w.held /\ x.passages[t] = w.passages[t]
          BY <2>5, <4>1, <5>1, <5>2
        <5>4. Settled(x, t)
          BY <5>2, <5>3, SettledStays
        <5> QED BY <1>3, <1>4, <3>1, <5>1, <5>3, <5>4
      <4> QED BY <4>1, FramesAssumed DEF Frames!KeptByMissing
    <3>4. \A w \in W : Frames!TickTrain(w, t, snapshot[t], elapsed) \in T
      <4> SUFFICES ASSUME NEW w \in W PROVE Frames!TickTrain(w, t, snapshot[t], elapsed) \in T
        OBVIOUS
      <4>1. PICK x : x = Frames!TickTrain(w, t, snapshot[t], elapsed)
        OBVIOUS
      <4>2. FrameOK(x) /\ Settled(x, t)
        BY <1>3, <2>4, <2>10, <4>1 DEF RoundOK
      <4> QED BY <1>3, <1>4, <3>1, <4>1, <4>2
    <3>5. e \in T
      BY <2>2, <2>6, <2>10, <3>2, <3>4, FramesAssumed, Frames!TrainReached
    <3>6. v \in T
      BY <2>3, <3>3, <3>5, FramesAssumed, Frames!MissingIn
    <3> QED BY <3>1, <3>6
  <2> QED BY <1>3, <2>9, <2>10
<1> QED BY <1>7, <1>8

=============================================================================
