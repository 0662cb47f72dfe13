------------------------------- MODULE ModRuntime -------------------------------
(***************************************************************************)
(* The execution of commands in the game (DispatchRuntime.cs).  The poller *)
(* thread puts commands into a queue and replaces the topology; everything *)
(* else happens on the game thread, in one Tick per frame: drain the       *)
(* queue, update the passage of every train of the latest snapshot, hold   *)
(* the trains that are near an entry without a release, and give up the    *)
(* passages of trains that are gone.                                       *)
(*                                                                         *)
(* A train in the snapshot is abstracted to its line, the resource it is   *)
(* inside of and the resource whose entry it is near to.  elapsed says     *)
(* whether the simulation time of the snapshot is at least the tail        *)
(* clearance delay later than the exit.  What an exception inside TickCore  *)
(* does to the holds is modelled in TrainMotionController.                 *)
(***************************************************************************)
EXTENDS Naturals, Sequences, FiniteSets, Functions

CONSTANTS
    TrainOrder,     \* the trains in the order of the snapshot
    Resource, Line,
    CommandOf,      \* the content of each command id
    MaxFinished,    \* finished command ids that are remembered (4096)
    MaxRevision, MaxInbox,
    NoPassage, NoResource, NoSnapshot, Absent

GameTrain == Range(TrainOrder)
Ids == DOMAIN CommandOf

\* PassageState, of a train that is to carry out one of the commands C.
Passage(C) == [command : C, acknowledged : BOOLEAN, wasInside : BOOLEAN, exitSeen : BOOLEAN]

Commands == {CommandOf[i] : i \in Ids}

ASSUME RuntimeAssumptions ==
    /\ TrainOrder \in Seq(GameTrain)
    /\ \A i \in Ids : /\ CommandOf[i].id = i
                      /\ CommandOf[i].train \in GameTrain /\ CommandOf[i].resource \in Resource
                      /\ CommandOf[i].line \in Line /\ CommandOf[i].rev \in 1..MaxRevision
    /\ NoPassage \notin Passage(Commands)
    /\ MaxFinished \in Nat /\ MaxRevision \in Nat /\ MaxInbox \in Nat

View == [line : Line, at : Resource \cup {NoResource}, near : Resource \cup {NoResource}]

VARIABLES
    inbox,       \* PendingCommands
    passages,    \* PassagesByTrain
    finished,    \* FinishedCommandIds
    topology,    \* topologyRevision; 0 before the first answer
    snapshot,    \* latestSnapshot
    held,        \* the trains that TrainMotionController holds
    reported     \* what the reports on each command add up to

runtimeVars == <<inbox, passages, finished, topology, snapshot, held>>

RuntimeInit ==
    /\ inbox = <<>> /\ finished = {} /\ topology = 0 /\ snapshot = NoSnapshot /\ held = {}
    /\ passages = [t \in GameTrain |-> NoPassage]

-----------------------------------------------------------------------------
(* The work of one frame, as functions on its state: the passages, the     *)
(* finished commands and the reports queued so far.                        *)

Report(kind, c) == [kind |-> kind, id |-> c.id, train |-> c.train, resource |-> c.resource]

Finish(w, p) ==
    LET ids == w.finished \cup {p.command.id}
    IN  [w EXCEPT !.finished = IF Cardinality(ids) > MaxFinished THEN {} ELSE ids]

\* Nothing is sent about a passage whose entry was reported.
RejectAndFinish(w, p) ==
    Finish(IF p.acknowledged THEN w
           ELSE [w EXCEPT !.posts = Append(@, Report("reject", p.command))], p)

NewPassage(c) == [command |-> c, acknowledged |-> FALSE, wasInside |-> FALSE, exitSeen |-> FALSE]

\* Faulty variant: finished commands are not remembered.
DrainRepeated(w, c) ==
    LET p == w.passages[c.train]
    IN  IF p # NoPassage /\ p.command.id = c.id THEN w
        ELSE [(IF p = NoPassage THEN w ELSE RejectAndFinish(w, p))
                 EXCEPT !.passages[c.train] = NewPassage(c)]

\* DrainCommands, one command: known ones are skipped, another command of
\* the same train supersedes the one before.
DrainCommand(w, c) ==
    LET p == w.passages[c.train]
    IN  IF c.id \in w.finished \/ (p # NoPassage /\ p.command.id = c.id) THEN w
        ELSE [(IF p = NoPassage THEN w ELSE RejectAndFinish(w, p))
                 EXCEPT !.passages[c.train] = NewPassage(c)]

\* The passage does not fit the topology or the line of the train any more.
Outdated(p, v) ==
    (topology # 0 /\ p.command.rev # topology) \/ p.command.line # v.line

\* The entry is reported when the train is first seen inside; the exit when
\* it is seen outside again and its tail has had time to follow.
UpdatePassage(w, t, v, elapsed) ==
    LET p == w.passages[t]
        inside == v.at = p.command.resource
    IN  IF inside
          THEN [w EXCEPT
                 !.passages[t] = [p EXCEPT !.acknowledged = TRUE, !.wasInside = TRUE,
                                           !.exitSeen = FALSE],
                 !.posts = IF p.acknowledged THEN @ ELSE Append(@, Report("accept", p.command))]
        ELSE IF ~p.acknowledged \/ ~p.wasInside THEN w
        ELSE IF ~p.exitSeen THEN [w EXCEPT !.passages[t].exitSeen = TRUE]
        ELSE IF ~elapsed THEN w
        ELSE [Finish(w, p) EXCEPT !.passages[t] = NoPassage,
                                  !.posts = Append(@, Report("cleared", p.command))]

\* One train of the snapshot.  Its gate stays open for the resource of the
\* passage it had when the frame got to it.
TickTrain(w, t, v, elapsed) ==
    LET p == w.passages[t]
        u == IF p # NoPassage /\ Outdated(p, v)
               THEN [RejectAndFinish(w, p) EXCEPT !.passages[t] = NoPassage] ELSE w
        q == u.passages[t]
        gated == topology # 0 /\ v.near # NoResource
    IN  [(IF q = NoPassage THEN u ELSE UpdatePassage(u, t, v, elapsed))
            EXCEPT !.held = IF gated /\ (q = NoPassage \/ q.command.resource # v.near)
                              THEN @ \cup {t} ELSE @]

\* RemoveMissingPassages for a train that is not in the snapshot.
RemoveMissing(w, t) ==
    LET p == w.passages[t]
    IN  IF p = NoPassage THEN w
        ELSE [(IF p.acknowledged
                 THEN [Finish(w, p) EXCEPT !.posts = Append(@, Report("cleared", p.command))]
                 ELSE RejectAndFinish(w, p)) EXCEPT !.passages[t] = NoPassage]

\* DrainCommands: the state of the frame after the whole queue.
DrainCommands ==
    LET after[k \in 0..Len(inbox)] ==
            IF k = 0 THEN [passages |-> passages, finished |-> finished, posts |-> <<>>, held |-> {}]
            ELSE DrainCommand(after[k - 1], inbox[k])
    IN  after[Len(inbox)]

\* The loop over the trains of the snapshot.  gone are trains whose vehicle
\* does not exist any more: they are skipped, but not missing.
TickTrains(w, gone, elapsed) ==
    LET after[k \in 0..Len(TrainOrder)] ==
            IF k = 0 THEN w
            ELSE LET t == TrainOrder[k]
                 IN  IF snapshot[t] = Absent \/ t \in gone THEN after[k - 1]
                     ELSE TickTrain(after[k - 1], t, snapshot[t], elapsed)
    IN  after[Len(TrainOrder)]

RemoveMissingPassages(w) ==
    LET after[k \in 0..Len(TrainOrder)] ==
            IF k = 0 THEN w
            ELSE IF snapshot[TrainOrder[k]] = Absent THEN RemoveMissing(after[k - 1], TrainOrder[k])
            ELSE after[k - 1]
    IN  after[Len(TrainOrder)]

TickCore(gone, elapsed) ==
    IF snapshot = NoSnapshot THEN DrainCommands
    ELSE RemoveMissingPassages(TickTrains(DrainCommands, gone, elapsed))

-----------------------------------------------------------------------------
\* Tick: the hold set of this frame replaces the one before.
Tick(gone, elapsed) ==
    LET w == TickCore(gone, elapsed)
    IN  /\ passages' = w.passages /\ finished' = w.finished /\ held' = w.held
        /\ inbox' = <<>>
        /\ UNCHANGED <<topology, snapshot>>

UpdateTrainSnapshot(s) ==
    /\ snapshot' = s
    /\ UNCHANGED <<inbox, passages, finished, topology, held>>

\* The commands of one answer, in the poller thread.
AcceptCommandResponse(C) ==
    /\ inbox' = inbox \o C
    /\ UNCHANGED <<passages, finished, topology, snapshot, held>>

AcceptTopologyResponse(rev) ==
    /\ topology' = rev
    /\ UNCHANGED <<inbox, passages, finished, snapshot, held>>

\* A level is loaded or left.
Reset ==
    /\ inbox' = <<>> /\ finished' = {} /\ topology' = 0 /\ snapshot' = NoSnapshot /\ held' = {}
    /\ passages' = [t \in GameTrain |-> NoPassage]

-----------------------------------------------------------------------------
(* The runtime on its own: any commands in any order and repetition, any   *)
(* topology, any movement of the trains.  reported observes the reports.   *)

Observed(state, kind) ==
    CASE <<state, kind>> = <<"none", "accept">> -> "accepted"
      [] <<state, kind>> = <<"none", "reject">> -> "rejected"
      [] <<state, kind>> = <<"accepted", "cleared">> -> "cleared"
      [] OTHER -> "broken"

ReportedAfter(posts) ==
    LET after[k \in 0..Len(posts)] ==
            IF k = 0 THEN reported
            ELSE [after[k - 1] EXCEPT ![posts[k].id] = Observed(@, posts[k].kind)]
    IN  after[Len(posts)]

RuntimeAndReportsInit == RuntimeInit /\ reported = [i \in Ids |-> "none"]

Snapshots == [GameTrain -> View \cup {Absent}]

RuntimeNext ==
    \/ \E gone \in SUBSET GameTrain, elapsed \in BOOLEAN :
          Tick(gone, elapsed) /\ reported' = ReportedAfter(TickCore(gone, elapsed).posts)
    \/ \E s \in Snapshots : UpdateTrainSnapshot(s) /\ UNCHANGED reported
    \/ \E i \in Ids : /\ Len(inbox) < MaxInbox
                      /\ AcceptCommandResponse(<<CommandOf[i]>>) /\ UNCHANGED reported
    \/ \E rev \in 1..MaxRevision : AcceptTopologyResponse(rev) /\ UNCHANGED reported
    \/ Reset /\ reported' = [i \in Ids |-> "none"]

RuntimeSpec == RuntimeAndReportsInit /\ [][RuntimeNext]_<<runtimeVars, reported>>

-----------------------------------------------------------------------------
(* Properties.                                                             *)

\* p is filed under the train t of its command, and its exit comes after
\* its entry.
PassageOf(p, t) == p.command.train = t /\ (p.exitSeen => p.wasInside)

\* Type invariant of the runtime.
RuntimeTypeOK ==
    /\ inbox \in Seq(Commands)
    /\ passages \in [GameTrain -> Passage(Commands) \cup {NoPassage}]
    /\ \A t \in GameTrain : passages[t] # NoPassage => PassageOf(passages[t], t)
    /\ finished \subseteq Ids
    /\ topology \in 0..MaxRevision
    /\ held \subseteq GameTrain
    /\ reported \in [Ids -> {"none", "accepted", "rejected", "cleared", "broken"}]

\* The reports on one command follow the protocol the server counts on: one
\* ACK, and at most one cleared report, only after an accepting ACK.
\* Commands are answered repeatedly until their ACK arrives, and old
\* answers come late, so a finished command keeps turning up.
ReportsFollowProtocol == \A i \in Ids : reported[i] # "broken"

-----------------------------------------------------------------------------
(* Statements of the source that the code does not keep.                   *)

\* "The server must release the occupancy ... otherwise the resource is
\* locked for ever" (RemoveMissingPassages): a reported entry is followed up
\* until it is reported cleared.
EnteredPassagesFollowedUp ==
    \A i \in Ids : reported[i] = "accepted" =>
        \E t \in GameTrain : passages[t] # NoPassage /\ passages[t].command.id = i
=============================================================================
