----------------------------- MODULE DispatchSystem -----------------------------
(***************************************************************************)
(* The whole loop: the dispatch service, the mod runtime, the channel      *)
(* between them and the trains themselves, on their way through one        *)
(* corridor each.                                                          *)
(*                                                                         *)
(* The control channel is the queue of one sending thread: its head is     *)
(* repeated until it is answered (ControlInOrder and ControlEventsArrive   *)
(* of TelemetrySender).  A copy of a report that was given up and is       *)
(* processed only after its repetition is not a step here: an ACK then     *)
(* finds no command under its id, unless the database refused the          *)
(* repetition, and a cleared report is counted again as with               *)
(* "clearedLost", only later.                                              *)
(*                                                                         *)
(* A train moves from away to near (within 300 m of the entry), inside,    *)
(* and away again.  It does not cross a whole zone between two snapshots,  *)
(* and the frame after a snapshot puts its hold into force before the      *)
(* train can reach the entry: this is what the hold distance is for.  A    *)
(* train that left is not back at the entry before its tail delay is over. *)
(*                                                                         *)
(* faults names what may go wrong: "ackLost" and "clearedLost" (the server *)
(* processes the report, its answer is lost), "stale" (a train that is     *)
(* alive goes silent for longer than the stale limit), "restart" (of the   *)
(* server), "vanish" (the game removes a vehicle), "late" (reports are     *)
(* delayed beyond the stale limit), "database" (transactions end as        *)
(* CommitOutcome allows, otherwise they commit), "routes" (the game        *)
(* uploads changed routes).  The steps of a service loop hold the mutex    *)
(* and touch nothing of the game, so the game moves only between loops.    *)
(***************************************************************************)
EXTENDS RailwayDispatchService

CONSTANTS
    Way,         \* the resource on the way of each train
    Scenarios,   \* records of the trains that run and the faults that may happen
    TrainOrder,
    MaxFinished, NoPassage, NoSnapshot, Absent

ASSUME SystemAssumptions ==
    /\ TrainOrder \in Seq(Train) /\ Train = {TrainOrder[i] : i \in DOMAIN TrainOrder}
    /\ MaxFinished \in Nat
    /\ Way \in [Train -> Resource]

VARIABLES
    faults,      \* the faults of this behaviour
    place,       \* where each train really is
    ticked,      \* a frame has run since the last snapshot
    queue,       \* PendingControlPosts, its head being sent
    inbox, passages, finished, topology, snapshot, held

modVars == <<inbox, passages, finished, topology, snapshot, held>>
gameVars == <<place, ticked, queue, modVars>>
stepVars == <<serviceVars, gameVars>>
systemVars == <<stepVars, faults>>

Mod == INSTANCE ModRuntime WITH CommandOf <- <<>>, MaxInbox <- 1, reported <- 0

\* The markers differ from what they stand in for.
ASSUME MarkerAssumptions ==
    /\ Absent \notin Mod!View
    /\ NoSnapshot \notin [Train -> Mod!View \cup {Absent}]
    /\ NoPassage \notin Mod!Passage([id : CommandIds, train : Train, resource : Resource,
                                     line : Line, rev : Nat])

\* What a snapshot shows of train t.
Seen(t) ==
    IF place[t] = "gone" THEN Absent
    ELSE [line |-> LineOf[t],
          at |-> IF place[t] = "inside" THEN Way[t] ELSE NoResource,
          near |-> IF place[t] = "near" THEN Way[t] ELSE NoResource]

\* How a transaction may end in this behaviour.
Ending == {o \in DatabaseOutcome : Succeeded(o) \/ "database" \in faults}

GameTurn == job \in {"idle", "refused"} /\ UNCHANGED serviceVars

-----------------------------------------------------------------------------
(* The game.                                                               *)

\* The tail of t is taken to be still inside.
Leaving(t) == passages[t] # NoPassage /\ passages[t].wasInside

\* A train goes on to the next zone once the last one was noticed; at the
\* entry the hold applies.
Move(t) ==
    /\ GameTurn
    /\ snapshot # NoSnapshot /\ snapshot[t] = Seen(t)
    /\ \/ place[t] = "away" /\ ~Leaving(t) /\ place' = [place EXCEPT ![t] = "near"]
       \/ /\ place[t] = "near" /\ ticked /\ t \notin held
          /\ place' = [place EXCEPT ![t] = "inside"]
       \/ place[t] = "inside" /\ place' = [place EXCEPT ![t] = "away"]
    /\ UNCHANGED <<ticked, queue, modVars>>

\* The game removes a vehicle.
Vanish(t) ==
    /\ GameTurn
    /\ "vanish" \in faults /\ place[t] # "gone"
    /\ place' = [place EXCEPT ![t] = "gone"]
    /\ UNCHANGED <<ticked, queue, modVars>>

\* OnUpdate: every snapshot is used by at least one frame.
Sample ==
    /\ GameTurn
    /\ ticked
    /\ Mod!UpdateTrainSnapshot([t \in Train |-> Seen(t)])
    /\ ticked' = FALSE
    /\ UNCHANGED <<place, queue>>

\* One frame.  The tail delay can only have passed on a new snapshot.
Frame(elapsed) ==
    /\ GameTurn
    /\ elapsed => ~ticked
    /\ Mod!Tick({}, elapsed)
    /\ ticked' = TRUE
    /\ queue' = queue \o Mod!TickCore({}, elapsed).posts
    /\ UNCHANGED place

-----------------------------------------------------------------------------
(* The requests of the mod.                                                *)

\* The command as it is sent to the game.
Sent(c) == [id |-> c.id, train |-> c.train, resource |-> c.resource, line |-> LineOf[c.train],
            rev |-> c.rev]

\* The answer to a command query holds all commands (one train's at a time
\* here); it may be delayed until the next frame, or get lost.
Poll(t) ==
    /\ GameTurn /\ Idle
    /\ inbox = <<>> /\ cmd[t] # NoCommand
    /\ Mod!AcceptCommandResponse(<<Sent(cmd[t])>>)
    /\ UNCHANGED <<place, ticked, queue>>

PollTopology ==
    /\ GameTurn /\ Idle
    /\ topology # revision
    /\ Mod!AcceptTopologyResponse(revision)
    /\ UNCHANGED <<place, ticked, queue>>

Matches(p) == LET c == cmd[p.train] IN c # NoCommand /\ c.id = p.id /\ c.resource = p.resource

\* What the server does with a report; a refused one changes nothing.
HandleReport(p, now, o) ==
    \/ p.kind = "accept" /\ Matches(p) /\ AcceptCommand(p.train, now, o)
    \/ p.kind = "reject" /\ Matches(p) /\ RejectCommand(p.train, o)
    \/ p.kind # "cleared" /\ ~Matches(p) /\ Idle /\ UNCHANGED serviceVars
    \/ p.kind = "cleared" /\ ResourceCleared(p.train, p.resource, {}, now, o)

AnswerMayBeLost(p) ==
    IF p.kind = "cleared" THEN "clearedLost" \in faults ELSE "ackLost" \in faults

\* The head of the queue reaches the server.  Any answer, 409 and 404
\* included, takes it off the queue; without one it is sent again.
Deliver(now, o) ==
    /\ queue # <<>>
    /\ HandleReport(Head(queue), now, o)
    /\ queue' = Tail(queue)
    /\ UNCHANGED <<place, ticked, modVars>>

\* Faulty variant: a report that got lost is not sent again.
GiveUp(now, o) ==
    /\ queue # <<>> /\ AnswerMayBeLost(Head(queue))
    /\ GameTurn /\ Idle
    /\ queue' = Tail(queue)
    /\ UNCHANGED <<place, ticked, modVars>>

DeliverUnanswered(now, o) ==
    /\ queue # <<>> /\ AnswerMayBeLost(Head(queue))
    /\ HandleReport(Head(queue), now, o)
    /\ UNCHANGED gameVars

\* Telemetry: all trains of the snapshot are reported.
Upload(gone, now) ==
    /\ snapshot # NoSnapshot
    /\ gone = {} \/ "stale" \in faults
    /\ UpdateTrains({t \in Train : snapshot[t] # Absent} \ gone, gone, now)
    /\ UNCHANGED gameVars

\* A train that was removed is forgotten by the server when it is silent for
\* long enough: with the fault "late" even before its last reports arrive.
\* A living train is forgotten only with the fault "stale".
Maintenance(gone) ==
    /\ gone # {} /\ snapshot # NoSnapshot
    /\ \A t \in gone :
          \/ "stale" \in faults
          \/ /\ snapshot[t] = Absent
             /\ "late" \in faults \/ \A i \in DOMAIN queue : queue[i].train # t
    /\ RunMaintenance(gone)
    /\ UNCHANGED gameVars

\* A candidate was reported outside of its resource.
Build(C) ==
    /\ job = "cleanup" /\ snapshot # NoSnapshot
    /\ \A c \in C : /\ c.resource = Way[c.train]
                    /\ snapshot[c.train] # Absent /\ snapshot[c.train].at = NoResource
    /\ RefreshCandidates(C)

\* The loops of the service.
ServiceLoop ==
    /\ \/ RestoreCommand \/ RefuseToStart \/ PendingRestored \/ RecoveryDone
       \/ \E t \in Train : CancelStale(t) \/ RollbackCommand(t)
       \/ MaintenanceDone \/ RollbackDone \/ PlanHold
       \/ job = "cleanup" /\ \E C \in Buildable : Build(C)
       \/ Planning /\ \E c \in candidates[PlanOrder[cursor]] : PlanRelease(c)
       \/ \E o \in Ending : PersistCycle(o)
    /\ UNCHANGED gameVars

\* The game uploads changed routes.
UploadRoutes(o) == "routes" \in faults /\ ReplaceRoutes(o) /\ UNCHANGED gameVars

SystemRestart == "restart" \in faults /\ Idle /\ Restart /\ UNCHANGED gameVars

\* The mod has loaded and knows the topology; the trains are on open track.
SystemInit ==
    /\ ServiceInit
    /\ \E s \in Scenarios :
          /\ faults = s.faults
          /\ place = [t \in Train |-> IF t \in s.trains THEN "away" ELSE "gone"]
    /\ ticked = TRUE /\ queue = <<>>
    /\ inbox = <<>> /\ finished = {} /\ topology = 1 /\ snapshot = NoSnapshot /\ held = {}
    /\ passages = [t \in Train |-> NoPassage]

SystemStep ==
    \/ \E t \in Train : Move(t) \/ Vanish(t) \/ Poll(t)
    \/ Sample \/ PollTopology
    \/ \E elapsed \in BOOLEAN : Frame(elapsed)
    \/ \E now \in Time : \/ \E o \in Ending : Deliver(now, o) \/ DeliverUnanswered(now, o)
                         \/ \E gone \in SUBSET Monitored : Upload(gone, now)
    \/ \E gone \in SUBSET Monitored : Maintenance(gone)
    \/ ServiceLoop
    \/ \E o \in Ending : UploadRoutes(o)
    \/ SystemRestart

SystemNext == SystemStep /\ UNCHANGED faults

SystemSpec == SystemInit /\ [][SystemNext]_systemVars

\* The mod samples, ticks, polls and sends again and again, answers get
\* through in the end, trains that may go on do so, and the loops of the
\* service run to their end.  Strong fairness, because the requests compete
\* for the mutex of the service.
SystemFairness ==
    /\ WF_stepVars(ServiceLoop)
    /\ SF_stepVars(Sample)
    /\ \A elapsed \in BOOLEAN : SF_stepVars(Frame(elapsed))
    /\ \A t \in Train : SF_stepVars(Move(t)) /\ SF_stepVars(Poll(t))
    /\ SF_stepVars(\E now \in Time, o \in Ending : Deliver(now, o))

FairSystemSpec == SystemSpec /\ SystemFairness

-----------------------------------------------------------------------------
(* Properties.                                                             *)

\* Two trains never meet head-on: the trains really inside a corridor are
\* there in one direction.
NoHeadOn ==
    \A t, u \in Train : (place[t] = "inside" /\ place[u] = "inside") => Way[t] # Opposite(Way[u])

\* Every train that is really inside a resource blocks it while the server
\* serves: it is counted, or its ACK is still awaited.
TrainsInsideAccounted ==
    serving => \A r \in Resource :
        Cardinality({t \in Train : place[t] = "inside" /\ Way[t] = r})
            <= occupancy[r] + IF commandPending[r] THEN 1 ELSE 0

\* No resource stays blocked: a released train goes through, its reports
\* arrive, and the corridor is free again.
ResourcesComeFree == \A r \in Resource : Busy(r) ~> ~Busy(r)

\* "Command ids increase" (DispatchRuntime.Finish): with a database, a
\* command is never issued under an id that the mod has already finished
\* with and would ignore, whatever restarts there were in between.
NewCommandsNotFinished ==
    [][\A t \in Train : (serving /\ cmd[t] = NoCommand /\ cmd'[t] # NoCommand)
          => cmd'[t].id \notin finished]_systemVars
=============================================================================
