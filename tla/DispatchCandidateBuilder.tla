------------------------ MODULE DispatchCandidateBuilder ------------------------
(***************************************************************************)
(* DispatchCandidateBuilder: which trains compete for which corridor, which *)
(* crossings they need, and since when they have waited.                   *)
(*                                                                         *)
(* All trains run on one line: a polyline of Segments segments with Ticks  *)
(* positions each, open or closed to a loop.  A route position is a number *)
(* of ticks, the distance of a tick depends on its segment.  The           *)
(* manager's choice of releases and the mod's reports are arbitrary.       *)
(***************************************************************************)
EXTENDS Integers, FiniteSets, FiniteSetsExt

CONSTANTS
    RouteTrain, Corridor, Crossing,
    Segments, Ticks,
    TickLength,           \* length of a tick of each segment
    IsLoop,               \* route.is_loop: the last point repeats the first
    Low, High,            \* position bounds of each corridor on the line
    SameDirection,        \* corridors whose direction_relation is SAME
    CrossingSegment,      \* segment of each crossing
    ApproachDistance, ControlPointDistance,
    SimTime                  \* simulation times; 0 stands for no record

End == Segments * Ticks
Forward == "FORWARD"
Reverse == "REVERSE"

ASSUME BuilderAssumptions ==
    /\ Segments \in Nat \ {0} /\ Ticks \in Nat \ {0}
    /\ TickLength \in [0..(Segments - 1) -> Nat \ {0}]
    /\ Low \in [Corridor -> 0..End] /\ High \in [Corridor -> 0..End]
    /\ \A c \in Corridor : Low[c] < High[c]
    /\ SameDirection \subseteq Corridor /\ IsLoop \in BOOLEAN
    /\ CrossingSegment \in [Crossing -> 0..(Segments - 1)]
    /\ ControlPointDistance \in Nat /\ ApproachDistance \in Nat
    /\ ControlPointDistance <= ApproachDistance
    /\ SimTime \subseteq Nat \ {0}

Directions == {Forward, Reverse}
Resource == Corridor \X Directions
Telemetry == [pos : 0..End, dir : Directions, time : SimTime]
Absent == [pos |-> 0, dir |-> Forward, time |-> 0]
Phases == {"MONITORED", "APPROACHING", "WAITING_PERMISSION", "RELEASE_PENDING", "INSIDE_RESOURCE"}

VARIABLES
    monitored,    \* the telemetry of each train, Absent without one
    phase,
    waiting,      \* waiting_by_train_resource_: arrival times, 0 for none
    candidates,   \* of the last build
    inZoneSince   \* history: since when a train has been before its corridor

builderVars == <<monitored, phase, waiting, candidates, inZoneSince>>

NotInZone == [resource |-> <<>>, since |-> 0]

BuilderInit ==
    /\ monitored = [t \in RouteTrain |-> Absent] /\ phase = [t \in RouteTrain |-> "MONITORED"]
    /\ waiting = [t \in RouteTrain |-> [r \in Resource |-> 0]]
    /\ candidates = {} /\ inZoneSince = [t \in RouteTrain |-> NotInZone]

-----------------------------------------------------------------------------
(* Distances along the route.                                              *)

Entry(c, dir) == IF dir = Forward THEN Low[c] ELSE High[c]

\* Positions left to the entry; negative when it lies behind the train.
Delta(c, m) ==
    LET d == IF m.dir = Forward THEN Entry(c, m.dir) - m.pos ELSE m.pos - Entry(c, m.dir)
    IN  IF d < 0 /\ IsLoop THEN d + End ELSE d

\* The segment the walk is in, and how far it is to the end of it.
SegmentAt(dir, pos) ==
    IF dir = Reverse /\ pos % Ticks = 0 /\ pos > 0 THEN pos \div Ticks - 1
    ELSE Min({Segments - 1, pos \div Ticks})
TicksLeft(dir, pos) ==
    IF dir = Reverse /\ pos % Ticks # 0 THEN pos % Ticks ELSE Ticks - (pos % Ticks)

\* Where the walk continues, with rest positions still to go.
Continue(pos, rest) ==
    IF rest > 0 /\ pos >= End THEN 0
    ELSE IF rest > 0 /\ pos <= 0 THEN End
    ELSE pos

Place == [pos : 0..End, dir : Directions]
At(m) == [pos |-> m.pos, dir |-> m.dir]

\* The length of the next delta positions from each place.
Walk[delta \in 0..End] == [p \in Place |->
    IF delta = 0 THEN 0
    ELSE LET step == Min({delta, TicksLeft(p.dir, p.pos)})
             next == IF p.dir = Forward THEN p.pos + step ELSE p.pos - step
             then == [pos |-> Continue(next, delta - step), dir |-> p.dir]
         IN  step * TickLength[SegmentAt(p.dir, p.pos)]
                 + (IF delta = step THEN 0 ELSE Walk[delta - step][then])]

\* Faulty variant: the number of positions instead of their length.
PositionsToEntry(c, m) == Delta(c, m)

DistanceToEntry(c, m) == Walk[Delta(c, m)][At(m)]

\* Corridors a train at a place approaches, and the nearest of them.  These
\* are functions of the place, so that TLC computes them once.
ApproachedFrom == [p \in Place |->
    {c \in Corridor : Delta(c, p) >= 0 /\ DistanceToEntry(c, p) <= ApproachDistance}]
NearestFrom == [p \in Place |-> CHOOSE c \in Corridor :
    \/ ApproachedFrom[p] = {}
    \/ /\ c \in ApproachedFrom[p]
       /\ \A d \in ApproachedFrom[p] : DistanceToEntry(c, p) <= DistanceToEntry(d, p)]
ControlZone == {p \in Place : ApproachedFrom[p] # {}
                               /\ DistanceToEntry(NearestFrom[p], p) <= ControlPointDistance}

Approached(m) == ApproachedFrom[At(m)]
Nearest(m) == NearestFrom[At(m)]
InZone(m) == At(m) \in ControlZone

CorridorDirection(c, dir) == IF (dir = Forward) = (c \in SameDirection) THEN Forward ELSE Reverse
ResourceOf(m) == <<Nearest(m), CorridorDirection(Nearest(m), m.dir)>>

LowSegment(c) == Low[c] \div Ticks
HighSegment(c) == (High[c] - 1) \div Ticks

\* Faulty variant: a crossing in the segment of the train is left out.
LiesStrictlyAhead(x, c, m) ==
    IF m.dir = Forward
      THEN CrossingSegment[x] > m.pos \div Ticks /\ CrossingSegment[x] <= HighSegment(c)
      ELSE CrossingSegment[x] < m.pos \div Ticks /\ CrossingSegment[x] >= LowSegment(c)

LiesAheadThroughCorridor(x, c, m) ==
    IF m.dir = Forward
      THEN CrossingSegment[x] >= m.pos \div Ticks /\ CrossingSegment[x] <= HighSegment(c)
      ELSE CrossingSegment[x] <= m.pos \div Ticks /\ CrossingSegment[x] >= LowSegment(c)

RequiredFrom == [p \in Place |-> {x \in Crossing : LiesAheadThroughCorridor(x, NearestFrom[p], p)}]

\* The tables of a line with corridors.  No proof uses this: what they rest
\* on is derived from BuilderAssumptions.  TLC fills the tables here.
ASSUME TablesComplete ==
    Corridor # {} =>
        /\ ApproachedFrom \in [Place -> SUBSET Corridor] /\ NearestFrom \in [Place -> Corridor]
        /\ RequiredFrom \in [Place -> SUBSET Crossing]

-----------------------------------------------------------------------------
(* build, for the trains with telemetry M in phases P; the trains C compete. *)

Controlled(P, t) == P[t] \in {"RELEASE_PENDING", "INSIDE_RESOURCE"}
Competing(M, P) == {t \in RouteTrain : M[t] # Absent /\ ~Controlled(P, t) /\ InZone(M[t])}

\* Faulty variant: every batch starts the wait again.
ArrivedNow(t, m) == m.time

\* The time in the waiting record after this batch; a time that goes back
\* means that the game was loaded again.
Arrived(t, m) ==
    LET old == waiting[t][ResourceOf(m)]
    IN  IF old = 0 \/ m.time < old THEN m.time ELSE old

\* Records of trains that do not compete in this batch are dropped.
UpdateWaiting(M, C) ==
    waiting' = [t \in RouteTrain |-> [r \in Resource |->
        IF t \in C /\ r = ResourceOf(M[t]) THEN Arrived(t, M[t]) ELSE 0]]

CandidateFor(t, m) ==
    [train |-> t, resource |-> ResourceOf(m), arrived |-> Arrived(t, m),
     crossings |-> RequiredFrom[At(m)]]

PhaseFor(M, P, t) ==
    CASE Controlled(P, t) -> P[t]
      [] ~Controlled(P, t) /\ (M[t] = Absent \/ Approached(M[t]) = {}) -> "MONITORED"
      [] OTHER -> IF InZone(M[t]) THEN "WAITING_PERMISSION" ELSE "APPROACHING"

Build(M, C) ==
    /\ UpdateWaiting(M, C)
    /\ candidates' = {CandidateFor(t, M[t]) : t \in C}

\* What the history says after the batch: whatever its phase, a train that
\* stays before the same corridor keeps its time.
Since(M, t) ==
    IF M[t] = Absent \/ ~InZone(M[t]) THEN NotInZone
    ELSE [resource |-> ResourceOf(M[t]),
          since |-> IF inZoneSince[t].resource = ResourceOf(M[t]) /\ inZoneSince[t].since <= M[t].time
                      THEN inZoneSince[t].since ELSE M[t].time]

-----------------------------------------------------------------------------
(* The operations of the service that use the builder.                     *)

\* updateTrains: a report of train t, the trains found stale, the build and
\* the releases of the cycle, one per resource.
UpdateTrains(t, m, stale) ==
    LET M == [u \in RouteTrain |->
                 IF u = t THEN m ELSE IF u \in stale THEN Absent ELSE monitored[u]]
        P == [u \in RouteTrain |-> IF u \in stale THEN "MONITORED" ELSE phase[u]]
        C == Competing(M, P)
    IN  /\ monitored' = M
        /\ Build(M, C)
        /\ inZoneSince' = [u \in RouteTrain |-> Since(M, u)]
        /\ \E released \in SUBSET C :
              /\ \A u, v \in released : ResourceOf(M[u]) = ResourceOf(M[v]) => u = v
              /\ phase' = [u \in RouteTrain |-> IF u \in released THEN "RELEASE_PENDING"
                                           ELSE PhaseFor(M, P, u)]

\* runMaintenance: a poll without telemetry removes stale trains only.
RunMaintenance(stale) ==
    /\ stale # {} /\ \A t \in stale : monitored[t] # Absent
    /\ monitored' = [t \in RouteTrain |-> IF t \in stale THEN Absent ELSE monitored[t]]
    /\ phase' = [t \in RouteTrain |-> IF t \in stale THEN "MONITORED" ELSE phase[t]]
    /\ waiting' = [t \in RouteTrain |-> IF t \in stale THEN [r \in Resource |-> 0] ELSE waiting[t]]
    /\ inZoneSince' = [t \in RouteTrain |-> IF t \in stale THEN NotInZone ELSE inZoneSince[t]]
    /\ UNCHANGED candidates

\* acknowledge.  An accepted train is no candidate of the manager any more.
Acknowledge(t, accepted) ==
    /\ phase[t] = "RELEASE_PENDING"
    /\ \/ /\ accepted
          /\ phase' = [phase EXCEPT ![t] = "INSIDE_RESOURCE"]
          /\ candidates' = {c \in candidates : c.train # t}
       \/ /\ ~accepted
          /\ phase' = [phase EXCEPT ![t] = "MONITORED"]
          /\ UNCHANGED candidates
    /\ UNCHANGED <<monitored, waiting, inZoneSince>>

\* markCleared, with forgetTrain.
MarkCleared(t) ==
    /\ phase[t] = "INSIDE_RESOURCE"
    /\ phase' = [phase EXCEPT ![t] = "MONITORED"]
    /\ waiting' = [waiting EXCEPT ![t] = [r \in Resource |-> 0]]
    /\ inZoneSince' = [inZoneSince EXCEPT ![t] = NotInZone]
    /\ UNCHANGED <<monitored, candidates>>

\* replaceRoutes, with clear; the change is in a line without trains here.
ReplaceRoutes ==
    /\ \A t \in RouteTrain : ~Controlled(phase, t)
    /\ phase' = [t \in RouteTrain |-> "MONITORED"]
    /\ waiting' = [t \in RouteTrain |-> [r \in Resource |-> 0]]
    /\ candidates' = {} /\ inZoneSince' = [t \in RouteTrain |-> NotInZone]
    /\ UNCHANGED monitored

BuilderNext ==
    \/ ReplaceRoutes
    \/ \E t \in RouteTrain, m \in Telemetry : \E stale \in SUBSET (RouteTrain \ {t}) :
          UpdateTrains(t, m, stale)
    \/ \E stale \in SUBSET RouteTrain : RunMaintenance(stale)
    \/ \E t \in RouteTrain : MarkCleared(t) \/ \E accepted \in BOOLEAN : Acknowledge(t, accepted)

BuilderSpec == BuilderInit /\ [][BuilderNext]_builderVars

-----------------------------------------------------------------------------
(* The line itself: the ticks a train still has to travel.                 *)

Between(m, entry) ==
    CASE m.dir = Forward /\ entry >= m.pos -> m.pos..(entry - 1)
      [] m.dir = Forward /\ entry < m.pos -> m.pos..(End - 1) \cup 0..(entry - 1)
      [] m.dir = Reverse /\ entry <= m.pos -> entry..(m.pos - 1)
      [] OTHER -> 0..(m.pos - 1) \cup entry..(End - 1)
LengthOfTick(i) == TickLength[i \div Ticks]
Ahead(c, m) == IsLoop \/ (IF m.dir = Forward THEN Low[c] >= m.pos ELSE High[c] <= m.pos)
TicksToExit(c, m) == Between(m, Entry(c, m.dir)) \cup Low[c]..(High[c] - 1)
TrueDistance == [c \in Corridor, p \in Place |->
    MapThenSumSet(LengthOfTick, Between(p, Entry(c, p.dir)))]
TrueNearest == [p \in Place |->
    Min({TrueDistance[c, p] : c \in {d \in Corridor : Ahead(d, p)}} \cup {ApproachDistance + 1})]

\* Type invariant of the builder.  A train has at most one waiting record, and
\* only while it is monitored.
BuilderTypeOK ==
    /\ monitored \in [RouteTrain -> Telemetry \cup {Absent}]
    /\ phase \in [RouteTrain -> Phases]
    /\ waiting \in [RouteTrain -> [Resource -> SimTime \cup {0}]]
    /\ candidates \subseteq [train : RouteTrain, resource : Resource, arrived : SimTime,
                               crossings : SUBSET Crossing]
    /\ \A t \in RouteTrain : \A r, s \in Resource :
          (waiting[t][r] # 0 /\ waiting[t][s] # 0) => r = s /\ monitored[t] # Absent

\* A train competes for the corridor that is nearest along the track, and does
\* so exactly inside the control distance: sampling does not move the zone.
ZoneByTrackLength ==
    /\ \A c \in candidates : LET m == monitored[c.train] IN
          m # Absent => /\ TrueDistance[c.resource[1], At(m)] = TrueNearest[At(m)]
                        /\ TrueNearest[At(m)] <= ControlPointDistance
    /\ \A t \in RouteTrain : phase[t] = "APPROACHING" =>
          TrueNearest[At(monitored[t])] \in (ControlPointDistance + 1)..ApproachDistance

\* A candidate asks for every crossing between the train and the exit of its
\* corridor, so that no release lets a train over a crossing nobody reserved.
CrossingsToExitRequired ==
    \A c \in candidates : LET m == monitored[c.train] IN
        m # Absent => \A x \in Crossing :
            (\E i \in TicksToExit(c.resource[1], m) : i \div Ticks = CrossingSegment[x])
                => x \in c.crossings

\* While a train keeps waiting before a resource, no later batch of any train
\* starts its wait again.
WaitNotRestarted ==
    [][\A c \in candidates, d \in candidates' :
          (c.train = d.train /\ c.resource = d.resource /\ phase[c.train] = "WAITING_PERMISSION")
              => d.arrived <= c.arrived]_builderVars

-----------------------------------------------------------------------------
(* A statement of the source that the code does not keep.                  *)

\* The first time in the control zone "is kept across batches, so that no
\* telemetry update resets the wait" (DispatchCandidateBuilder.h).
WaitKeptInZone ==
    \A c \in candidates :
        (phase[c.train] = "WAITING_PERMISSION" /\ inZoneSince[c.train].resource = c.resource)
            => c.arrived = inZoneSince[c.train].since
=============================================================================
