---------------------------- MODULE TrainSafetyProofs ----------------------------
(***************************************************************************)
(* Proofs about the trains themselves, for any number of trains and        *)
(* corridors and any bounds.  They follow each command from the database   *)
(* through the mod and its reports back to the server, and name the faults *)
(* the loop can bear (SafeConditions).                                     *)
(***************************************************************************)
EXTENDS DispatchSystemProofs

-----------------------------------------------------------------------------
(* The inductive invariant of the trains.                                  *)

\* The command of t is being issued in this cycle.
Issuing(t) == job = "plan" /\ t \in handling

\* Row i, if it is accepted, is known to the server.
Taken(i) == serving \/ (job = "restoreActive" /\ i <= cursor)

\* The database holds the topology of the server.
RevisionStored == stored = revision /\ revision >= 1

\* A command the server waits for is of this topology, and its row waits.
CommandsFiled ==
    \A t \in Train : cmd[t] # NoCommand =>
        /\ cmd[t].rev = revision /\ cmd[t].resource = Way[t]
        /\ ~Issuing(t) => rows[cmd[t].id] = [command |-> cmd[t], status |-> "PENDING"]

\* The passage the server knows of a train is the latest accepted one.
ActivesFiled ==
    \A t \in Train : act[t] # NoCommand =>
        /\ act[t].rev = revision
        /\ rows[act[t].id] = [command |-> act[t], status |-> "ACCEPTED"]
        /\ \A j \in CommandIds : (Accepted(j) /\ RowTrain(j) = t /\ Taken(j)) => j <= act[t].id

\* A row that waits is the latest of its train.
PendingLast ==
    \A i, j \in CommandIds : (Pending(i) /\ rows[j] # NoRow /\ RowTrain(j) = RowTrain(i)) => j <= i

\* What the recovery has taken over so far.
RestoredSoFar ==
    /\ \A i \in CommandIds :
          Pending(i) /\ (job = "restoreActive" \/ (job = "restorePending" /\ i <= cursor))
              => cmd[RowTrain(i)] # NoCommand
    /\ \A i \in CommandIds :
          Accepted(i) /\ job = "restoreActive" /\ i <= cursor => act[RowTrain(i)] # NoCommand

FileInv ==
    /\ RowsOnWay /\ RevisionStored /\ CommandsFiled /\ ActivesFiled /\ PendingLast
    /\ RestoredSoFar

\* The server waits for the command of every row that waits, unless the
\* train is gone.
PendingKnown ==
    \A i \in CommandIds : (serving /\ Pending(i) /\ Present(RowTrain(i))) =>
        cmd[RowTrain(i)] # NoCommand /\ cmd[RowTrain(i)].id = i

\* Only trains that are gone, and about which nothing is reported any more,
\* are forgotten, and only trains outside of their resource get a command.
Outside(t) == SeenIn(t, "away") \/ SeenIn(t, "near")
Forgotten ==
    job = "maintain" => \A u \in handling : /\ ~Present(u)
                                           /\ \A k \in 1..Len(queue) : queue[k].train # u
Planned ==
    job = "plan" =>
        /\ \A r \in Resource : \A c \in candidates[r] : c.resource = Way[c.train] /\ Outside(c.train)
        /\ \A t \in handling : /\ Outside(t) /\ occupancy[Way[t]] < Capacity
                               /\ \A i \in StoredIds : i < cmd[t].id
LoopsFit == job # "rollback" /\ (job = "cleanup" => handling = {}) /\ Forgotten /\ Planned

\* The accepted rows of resource r, and those the server has counted.
AcceptedIn(r) ==
    {i \in CommandIds : /\ Accepted(i) /\ rows[i].command.resource = r
                        /\ rows[i].command.rev = revision}
Counted(r) == {i \in AcceptedIn(r) : Taken(i)}

\* Every accepted row counts; there is room for them, and for one more where
\* a train may still enter.
AllCounted == \A r \in Resource : Cardinality(Counted(r)) <= occupancy[r]
AcceptedFit == \A r \in Resource : Cardinality(AcceptedIn(r)) <= Capacity
RoomToEnter ==
    \A i \in CommandIds :
        (Pending(i) /\ (Present(RowTrain(i)) \/ AcceptBefore(queue, Len(queue), i))) =>
            Cardinality(AcceptedIn(Way[RowTrain(i)])) < Capacity
CountInv == AllCounted /\ AcceptedFit /\ RoomToEnter

\* After a frame the passages fit the topology, and a train that is not held
\* at its entry has one.
PassagesFit ==
    \A t \in Train : (passages[t] # NoPassage /\ Present(t) /\ ticked /\ snapshot # NoSnapshot) =>
        passages[t].command.rev = topology
HeldAtEntry ==
    \A t \in Train : (ticked /\ SeenIn(t, "near") /\ t \notin held) => passages[t] # NoPassage

\* While the server is down, no two trains that may be inside are opposed.
ClaimsApart ==
    ~serving => \A t, u \in Train :
        Claim(passages, t) /\ Claim(passages, u) => Way[t] # Opposite(Way[u])

Zones == {"away", "near", "inside", "gone"}

ModInv ==
    /\ place \in [Train -> Zones] /\ topology # 0
    /\ KnowsSent /\ SnapshotFits
    /\ Reports(passages, finished, queue, Len(queue))
    /\ InboxBacked(passages, finished, queue, Len(queue))
    /\ \A t \in Train : PlaceFits(passages, t)
    /\ PassagesFit /\ HeldAtEntry /\ ClaimsApart

\* What may go wrong: lost answers to ACKs, removed vehicles, new routes and
\* restarts.  The server has a database it recovers from, which does not
\* fail, and the mod remembers the ids of all commands.
SafeFaults == {"ackLost", "vanish", "routes", "restart"}
SafeConditions ==
    /\ Persistent /\ CommandRecovery /\ MaxCommand <= MaxFinished
    /\ \A s \in Scenarios : s.faults \subseteq SafeFaults

ServerInv == FileInv /\ PendingKnown /\ LoopsFit /\ CountInv
SafetyInv == SystemInv /\ faults \subseteq SafeFaults /\ ServerInv /\ ModInv

-----------------------------------------------------------------------------
(* The game.                                                               *)

\* A step of the game leaves the server alone.
LEMMA GameKeepsServer ==
    ASSUME ServerInv, GameTurn, \A t \in Train : Present(t)' => Present(t),
           \A i \in CommandIds : (Pending(i) /\ AcceptBefore(queue, Len(queue), i)') =>
               AcceptBefore(queue, Len(queue), i) \/ Present(RowTrain(i)),
           \A i \in CommandIds : Pending(i) => RowTrain(i) \in Train
    PROVE  ServerInv'
<1>1. /\ UNCHANGED <<stored, rows, cmd, act, nextId, revision, job, cursor, handling, serving>>
      /\ UNCHANGED <<occupancy, candidates>> /\ job \in {"idle", "refused"}
  BY DEF GameTurn, serviceVars, managerVars, corridorVars, commandVars, databaseVars, jobVars
<1>2. /\ \A i : Pending(i)' <=> Pending(i)
      /\ \A i : Accepted(i)' <=> Accepted(i)
      /\ \A i : RowTrain(i)' = RowTrain(i)
      /\ \A i : Taken(i)' <=> Taken(i)
      /\ \A t : Issuing(t)' <=> Issuing(t)
  BY <1>1 DEF Pending, Accepted, RowTrain, Taken, Issuing
<1>3. FileInv'
  <2>1. RowsOnWay' /\ RevisionStored'
    BY <1>1, <1>2 DEF ServerInv, FileInv, RowsOnWay, RevisionStored
  <2>2. CommandsFiled'
    BY <1>1, <1>2 DEF ServerInv, FileInv, CommandsFiled
  <2>3. ActivesFiled'
    BY <1>1, <1>2 DEF ServerInv, FileInv, ActivesFiled
  <2>4. PendingLast' /\ RestoredSoFar'
    BY <1>1, <1>2 DEF ServerInv, FileInv, PendingLast, RestoredSoFar
  <2> QED BY <2>1, <2>2, <2>3, <2>4 DEF FileInv
<1>4. PendingKnown'
  BY <1>1, <1>2 DEF ServerInv, PendingKnown
<1>5. LoopsFit'
  BY <1>1 DEF LoopsFit, Forgotten, Planned
<1>6. \A r : AcceptedIn(r)' = AcceptedIn(r) /\ Counted(r)' = Counted(r)
  BY <1>1, <1>2 DEF AcceptedIn, Counted
<1>7. AllCounted' /\ AcceptedFit'
  BY <1>1, <1>6 DEF ServerInv, CountInv, AllCounted, AcceptedFit
<1>8. RoomToEnter'
  BY <1>2, <1>6 DEF ServerInv, CountInv, RoomToEnter
<1> QED BY <1>3, <1>4, <1>5, <1>7, <1>8 DEF ServerInv, CountInv

\* What a step leaves alone that does not change the server.
SameServer ==
    /\ \A i : Pending(i)' <=> Pending(i)
    /\ \A i : RowTrain(i)' = RowTrain(i)
    /\ \A t, i : Pend(t, i)' <=> Pend(t, i)
    /\ \A t, i : Actv(t, i)' <=> Actv(t, i)
    /\ StoredIds' = StoredIds /\ SentCommands' = SentCommands /\ serving' = serving
    /\ revision' = revision

\* A step of the game is such a step.
LEMMA GameLeavesServer ==
    ASSUME GameTurn
    PROVE  SameServer
<1>1. UNCHANGED <<rows, cmd, act, serving, revision>>
  BY DEF GameTurn, serviceVars, managerVars, corridorVars, commandVars, databaseVars, jobVars
<1>2. /\ \A i : Pending(i)' <=> Pending(i)
      /\ \A i : RowTrain(i)' = RowTrain(i)
  BY <1>1 DEF Pending, RowTrain
<1>3. \A t, i : Pend(t, i)' <=> Pend(t, i)
  BY <1>1, <1>2 DEF Pend
<1>4. \A t, i : Actv(t, i)' <=> Actv(t, i)
  BY <1>1, <1>2 DEF Actv, Accepted
<1>5. StoredIds' = StoredIds /\ SentCommands' = SentCommands
  BY <1>1 DEF StoredIds, SentCommands
<1> QED BY <1>1, <1>2, <1>3, <1>4, <1>5 DEF SameServer

\* The reports stay backed when neither they nor the server change.
LEMMA ReportsStay ==
    ASSUME SameServer, Reports(passages, finished, queue, Len(queue)),
           queue \in Seq(Frames!PostsOf(SentCommands)),
           \A t \in Train : Present(t)' => Present(t),
           UNCHANGED <<passages, finished, queue>>
    PROVE  Reports(passages, finished, queue, Len(queue))'
<1>1. PICK n \in Nat : n = Len(queue)
  OBVIOUS
<1>2. PICK P : P = passages
  OBVIOUS
<1>3. PICK F : F = finished
  OBVIOUS
<1>4. PICK q : q = queue
  OBVIOUS
<1>5. Reports(P, F, q, n)
  BY <1>1, <1>2, <1>3, <1>4
<1>6. BackingKept(P, q, n, 0)
  BY <1>5 DEF SameServer, BackingKept, Reports, AcceptsBacked, ReleasesBacked
<1>7. Reports(P, F, q, n - 0)'
  BY <1>5, <1>6, ReportsCarried
<1> QED BY <1>1, <1>2, <1>3, <1>4, <1>7

\* A train has one command the server waits for at most.
LEMMA PendOnce ==
    ASSUME FileInv, NEW t, NEW i, NEW j, Pend(t, i), Pend(t, j)
    PROVE  i = j
<1>1. /\ i \in CommandIds /\ j \in CommandIds /\ Pending(i) /\ Pending(j)
      /\ RowTrain(i) = RowTrain(j) /\ rows[i] # NoRow /\ rows[j] # NoRow
  BY DEF Pend, Pending
<1>2. i <= j /\ j <= i
  BY <1>1 DEF FileInv, PendingLast
<1> QED BY <1>1, <1>2 DEF CommandIds

\* A step that only moves trains.
LEMMA PlacesChange ==
    ASSUME ModInv, GameTurn, UNCHANGED <<ticked, queue, modVars>>,
           place' \in [Train -> Zones], SnapshotFits', \A t \in Train : PlaceFits(passages, t)'
    PROVE  ModInv'
<1>1. SameServer /\ UNCHANGED <<ticked, queue, inbox, passages, finished, topology, snapshot, held>>
  BY GameLeavesServer DEF modVars
<1>2. \A t : Present(t)' <=> Present(t)
  BY <1>1 DEF Present
<1>3. \A t, z : SeenIn(t, z)' <=> SeenIn(t, z)
  BY <1>1 DEF SeenIn, ViewIn
<1>4. KnowsSent'
  BY <1>1 DEF ModInv, KnowsSent, SameServer
<1>5. Reports(passages, finished, queue, Len(queue))'
  BY <1>1, <1>2, ReportsStay DEF ModInv, KnowsSent
<1>6. InboxBacked(passages, finished, queue, Len(queue))'
  BY <1>1, <1>2 DEF ModInv, InboxBacked, SameServer
<1>7. PassagesFit' /\ HeldAtEntry'
  BY <1>1, <1>2, <1>3 DEF ModInv, PassagesFit, HeldAtEntry
<1>8. \A t : Claim(passages, t)' <=> Claim(passages, t)
  BY <1>1, <1>2 DEF Claim, SameServer, Entry
<1>9. ClaimsApart'
  BY <1>1, <1>8 DEF ModInv, ClaimsApart, SameServer
<1> QED BY <1>1, <1>4, <1>5, <1>6, <1>7, <1>9 DEF ModInv

\* A train goes on.
LEMMA MoveKeepsMod ==
    ASSUME SafetyInv, NEW t \in Train, Move(t)
    PROVE  ModInv'
<1>1. /\ GameTurn /\ UNCHANGED <<ticked, queue, modVars>> /\ snapshot # NoSnapshot
      /\ snapshot[t] = Seen(t)
      /\ \/ place[t] = "away" /\ ~Leaving(t) /\ place' = [place EXCEPT ![t] = "near"]
         \/ place[t] = "near" /\ ticked /\ t \notin held /\ place' = [place EXCEPT ![t] = "inside"]
         \/ place[t] = "inside" /\ place' = [place EXCEPT ![t] = "away"]
  BY DEF Move
<1>2. /\ SameServer /\ UNCHANGED <<passages, topology, snapshot>>
  BY <1>1, GameLeavesServer DEF modVars
<1>3. place \in [Train -> Zones] /\ SnapshotFits /\ \A u \in Train : PlaceFits(passages, u)
  BY DEF SafetyInv, ModInv
<1>4. SeenIn(t, place[t]) /\ place[t] \in {"away", "near", "inside"}
  BY <1>1 DEF Seen, SeenIn, ViewIn
<1>5. /\ \A u : Present(u)' <=> Present(u)
      /\ \A u, z : SeenIn(u, z)' <=> SeenIn(u, z)
      /\ \A u : Entry(passages, u)' <=> Entry(passages, u)
  BY <1>2 DEF Present, SeenIn, ViewIn, Entry
<1>6. place' \in [Train -> Zones] /\ \A u \in Train : u # t => place'[u] = place[u]
  BY <1>1, <1>3 DEF Zones
<1>7. snapshot[t] # Absent
  BY <1>4, ViewFacts DEF SeenIn
<1>8. SnapshotFits'
  <2> SUFFICES ASSUME NEW u \in Train
               PROVE /\ snapshot' = NoSnapshot => place'[u] \in {"away", "gone"}
                     /\ snapshot' # NoSnapshot =>
                          /\ \/ snapshot'[u] = Absent
                             \/ SeenIn(u, "away")' \/ SeenIn(u, "near")' \/ SeenIn(u, "inside")'
                          /\ snapshot'[u] = Absent => place'[u] = "gone"
                          /\ place'[u] = "near" => SeenIn(u, "away")' \/ SeenIn(u, "near")'
                          /\ place'[u] = "inside" => SeenIn(u, "near")' \/ SeenIn(u, "inside")'
                          /\ place'[u] = "away" => SeenIn(u, "inside")' \/ SeenIn(u, "away")'
    BY DEF SnapshotFits
  <2>1. CASE u # t
    BY <1>2, <1>3, <1>5, <1>6, <2>1 DEF SnapshotFits
  <2>2. CASE u = t
    <3>1. \/ place[t] = "away" /\ place'[t] = "near"
          \/ place[t] = "near" /\ place'[t] = "inside"
          \/ place[t] = "inside" /\ place'[t] = "away"
      BY <1>1, <1>3
    <3> QED BY <1>1, <1>2, <1>4, <1>5, <1>7, <2>2, <3>1
  <2> QED BY <2>1, <2>2
<1>9. ASSUME NEW u \in Train, u # t PROVE PlaceFits(passages, u)'
  BY <1>2, <1>3, <1>5, <1>6, <1>9 DEF PlaceFits, SameServer
<1>10. PlaceFits(passages, t)'
  <2>1. CASE place[t] = "away" /\ ~Leaving(t) /\ place' = [place EXCEPT ![t] = "near"]
    <3>1. ~Entry(passages, t)
      BY <2>1 DEF Leaving, Entry, SafetyInv, ModInv, Reports, EntryNoted
    <3>2. place'[t] = "near"
      BY <1>3, <2>1
    <3> QED BY <1>2, <1>5, <3>1, <3>2 DEF PlaceFits, Entry
  <2>2. CASE /\ place[t] = "near" /\ ticked /\ t \notin held
             /\ place' = [place EXCEPT ![t] = "inside"]
    <3>1. SeenIn(t, "near") /\ Present(t)
      BY <1>4, <1>7, <2>2 DEF Present
    <3>2. passages[t] # NoPassage /\ ~Entry(passages, t)
      BY <1>3, <2>2, <3>1 DEF SafetyInv, ModInv, HeldAtEntry, PlaceFits
    <3>3. Pend(t, passages[t].command.id)
      BY <3>1, <3>2 DEF Entry, SafetyInv, ModInv, Reports, ReleasesBacked
    <3>4. \A j : Pend(t, j) => passages[t].command.id = j
      BY <3>3, PendOnce DEF SafetyInv, ServerInv
    <3>5. passages[t].command.rev = topology
      BY <1>1, <2>2, <3>1, <3>2 DEF SafetyInv, ModInv, PassagesFit
    <3> QED BY <1>2, <1>5, <3>2, <3>4, <3>5 DEF PlaceFits, SameServer
  <2>3. CASE place[t] = "inside" /\ place' = [place EXCEPT ![t] = "away"]
    <3>1. place'[t] = "away"
      BY <1>3, <2>3
    <3>2. PlaceFits(passages, t)
      BY <1>3
    <3> QED BY <1>2, <1>5, <3>1, <3>2 DEF PlaceFits
  <2> QED BY <1>1, <2>1, <2>2, <2>3
<1> QED BY <1>1, <1>6, <1>8, <1>9, <1>10, PlacesChange DEF SafetyInv

\* The game removes a train.
LEMMA VanishKeepsMod ==
    ASSUME SafetyInv, NEW t \in Train, Vanish(t)
    PROVE  ModInv'
<1>1. /\ GameTurn /\ UNCHANGED <<ticked, queue, modVars>> /\ place' = [place EXCEPT ![t] = "gone"]
  BY DEF Vanish
<1>2. /\ SameServer /\ UNCHANGED <<passages, topology, snapshot>>
  BY <1>1, GameLeavesServer DEF modVars
<1>3. place \in [Train -> Zones] /\ SnapshotFits /\ \A u \in Train : PlaceFits(passages, u)
  BY DEF SafetyInv, ModInv
<1>4. /\ \A u : Present(u)' <=> Present(u)
      /\ \A u, z : SeenIn(u, z)' <=> SeenIn(u, z)
      /\ \A u : Entry(passages, u)' <=> Entry(passages, u)
  BY <1>2 DEF Present, SeenIn, ViewIn, Entry
<1>5. /\ place' \in [Train -> Zones]
      /\ \A u \in Train : place'[u] = place[u] \/ place'[u] = "gone"
  BY <1>1, <1>3 DEF Zones
<1>6. SnapshotFits'
  BY <1>2, <1>3, <1>4, <1>5 DEF SnapshotFits
<1>7. ASSUME NEW u \in Train PROVE PlaceFits(passages, u)'
  <2>1. PlaceFits(passages, u)
    BY <1>3
  <2> QED BY <1>2, <1>4, <1>5, <2>1 DEF PlaceFits, SameServer
<1> QED BY <1>1, <1>5, <1>6, <1>7, PlacesChange DEF SafetyInv

\* A snapshot is taken.
LEMMA SampleKeepsMod ==
    ASSUME SafetyInv, Sample
    PROVE  ModInv' /\ \A t \in Train : Present(t)' => Present(t)
<1>1. /\ GameTurn /\ snapshot' = [t \in Train |-> Seen(t)] /\ ticked' = FALSE
      /\ UNCHANGED <<place, queue, inbox, passages, finished, topology, held>>
  BY DEF Sample, Mod!UpdateTrainSnapshot
<1>2. SameServer
  BY <1>1, GameLeavesServer
<1>3. /\ place \in [Train -> Zones] /\ SnapshotFits /\ \A u \in Train : PlaceFits(passages, u)
      /\ topology # 0 /\ KnowsSent /\ ClaimsApart
      /\ Reports(passages, finished, queue, Len(queue))
      /\ InboxBacked(passages, finished, queue, Len(queue))
  BY DEF SafetyInv, ModInv
<1>4. ASSUME NEW t \in Train
      PROVE  /\ place[t] = "gone" => Seen(t) = Absent
             /\ place[t] # "gone" => Seen(t) = ViewIn(t, place[t])
             /\ Seen(t) \in Mod!View \cup {Absent}
  <2>1. Way[t] \in Resource /\ LineOf[t] \in Line
    BY SystemAssumptions, ManagerAssumptions
  <2> QED BY <2>1 DEF Seen, ViewIn, Mod!View
<1>5. snapshot' # NoSnapshot
  BY <1>1, <1>4, MarkerAssumptions
<1>6. \A t \in Train : Present(t)' <=> place[t] # "gone"
  BY <1>1, <1>3, <1>4, <1>5, ViewFacts DEF Present, Zones
<1>7. \A t \in Train : /\ SeenIn(t, "away")' <=> place[t] = "away"
                       /\ SeenIn(t, "near")' <=> place[t] = "near"
                       /\ SeenIn(t, "inside")' <=> place[t] = "inside"
  <2> SUFFICES ASSUME NEW t \in Train
               PROVE  /\ SeenIn(t, "away")' <=> place[t] = "away"
                      /\ SeenIn(t, "near")' <=> place[t] = "near"
                      /\ SeenIn(t, "inside")' <=> place[t] = "inside"
    OBVIOUS
  <2>1. \A z : SeenIn(t, z)' <=> Seen(t) = ViewIn(t, z)
    BY <1>1, <1>5 DEF SeenIn, ViewIn
  <2>2. place[t] \in Zones
    BY <1>3
  <2> QED BY <1>4, <2>1, <2>2, ViewFacts DEF Zones
<1>8. \A t \in Train : Present(t)' => Present(t)
  BY <1>3, <1>6 DEF SnapshotFits, Present
<1>9. SnapshotFits'
  <2>1. \A t \in Train : snapshot'[t] = Absent <=> place[t] = "gone"
    BY <1>5, <1>6 DEF Present
  <2>2. \A t \in Train : place[t] \in Zones
    BY <1>3
  <2> QED BY <1>1, <1>5, <1>7, <2>1, <2>2 DEF SnapshotFits, Zones
<1>10. KnowsSent'
  BY <1>1, <1>2, <1>3 DEF KnowsSent, SameServer
<1>11. Reports(passages, finished, queue, Len(queue))'
  BY <1>1, <1>2, <1>3, <1>8, ReportsStay DEF KnowsSent
<1>12. InboxBacked(passages, finished, queue, Len(queue))'
  <2>1. \A m \in 1..Len(inbox) : inbox[m].train \in Train
    <3>1. PICK C : C = SentCommands
      OBVIOUS
    <3>2. inbox \in Seq(C) /\ \A c \in C : c.train \in Train
      BY <1>3, <3>1, SentFacts DEF KnowsSent, SafetyInv, SystemInv, ServerInv, FileInv
    <3> QED BY <3>2
  <2> QED BY <1>1, <1>2, <1>3, <1>8, <2>1 DEF InboxBacked, SameServer
<1>13. \A t \in Train : PlaceFits(passages, t)'
  BY <1>1, <1>2, <1>3, <1>7, <1>8 DEF PlaceFits, SameServer, Entry
<1>14. PassagesFit' /\ HeldAtEntry'
  BY <1>1 DEF PassagesFit, HeldAtEntry
<1>15. \A t \in Train : Claim(passages, t)' => Claim(passages, t)
  BY <1>1, <1>2, <1>8 DEF Claim, SameServer, Entry
<1>16. ClaimsApart'
  BY <1>2, <1>3, <1>15 DEF ClaimsApart, SameServer
<1> QED BY <1>1, <1>3, <1>8, <1>9, <1>10, <1>11, <1>12, <1>13, <1>14, <1>16 DEF ModInv

\* Behind the passage of a train that is there, or has reported its entry,
\* is a command the server waits for or has counted.
LEMMA PassageBacked ==
    ASSUME NEW P, NEW F, NEW q, NEW n, Reports(P, F, q, n), NEW t \in Train, P[t] # NoPassage,
           Present(t) \/ Entry(P, t)
    PROVE  Pend(t, P[t].command.id) \/ Actv(t, P[t].command.id)
<1>1. CASE Entry(P, t)
  <2>1. CASE AcceptBefore(q, n, P[t].command.id)
    <3>1. PICK k \in 1..n : q[k].kind = "accept" /\ q[k].id = P[t].command.id
      BY <2>1 DEF AcceptBefore
    <3>2. q[k].train = t
      BY <3>1 DEF Reports, Filed
    <3> QED BY <3>1, <3>2 DEF Reports, AcceptsBacked
  <2> QED BY <1>1, <2>1 DEF Reports, EntriesBacked
<1>2. CASE ~Entry(P, t)
  BY <1>2 DEF Entry, Reports, ReleasesBacked
<1> QED BY <1>1, <1>2

\* What the server waits for, or has counted, is of its topology.
LEMMA BackedRevision ==
    ASSUME FileInv, Idle, NEW t \in Train, NEW i, Pend(t, i) \/ Actv(t, i)
    PROVE  rows[i].command.rev = revision
<1>1. ~Issuing(t) /\ serving
  BY DEF Idle, Issuing
<1>2. CASE Pend(t, i)
  <2>1. cmd[t] # NoCommand /\ cmd[t].id = i
    BY <1>1, <1>2 DEF Pend
  <2>2. PICK d : d = cmd[t]
    OBVIOUS
  <2>3. d.rev = revision /\ rows[i] = [command |-> d, status |-> "PENDING"]
    BY <1>1, <2>1, <2>2 DEF FileInv, CommandsFiled
  <2> QED BY <2>3
<1>3. CASE Actv(t, i)
  <2>1. act[t] # NoCommand /\ act[t].id = i
    BY <1>1, <1>3 DEF Actv
  <2>2. PICK d : d = act[t]
    OBVIOUS
  <2>3. d.rev = revision /\ rows[i] = [command |-> d, status |-> "ACCEPTED"]
    BY <1>1, <2>1, <2>2 DEF FileInv, ActivesFiled
  <2> QED BY <2>3
<1> QED BY <1>2, <1>3

\* A command of the server is one the mod may be sent.
LEMMA CommandSent ==
    ASSUME SafetyInv, Idle, NEW t \in Train, cmd[t] # NoCommand, NEW c, c = Sent(cmd[t])
    PROVE  c \in SentCommands /\ c.id = cmd[t].id /\ c.train = t /\ Pend(t, c.id)
<1>1. PICK d : d = cmd[t]
  OBVIOUS
<1>2. d \in Command /\ d.train = t /\ d.id \in CommandIds
  BY <1>1, CommandFacts DEF SafetyInv, SystemInv, ServiceInv, ServiceTypeOK, FiledByKey
<1>3. rows[d.id] = [command |-> d, status |-> "PENDING"]
  BY <1>1 DEF Idle, Issuing, SafetyInv, ServerInv, FileInv, CommandsFiled
<1>4. rows[d.id] # NoRow /\ rows[d.id].command = d /\ rows[d.id].status = "PENDING"
  BY <1>2, <1>3, RowFacts DEF Row, Statuses
<1>5. c.id = d.id /\ c.train = d.train
  BY <1>1 DEF Sent
<1>6. c \in SentCommands
  BY <1>1, <1>2, <1>4 DEF SentCommands, StoredIds
<1>7. Pend(t, d.id)
  BY <1>1, <1>2, <1>4 DEF Pend, Pending, RowTrain
<1> QED BY <1>1, <1>2, <1>5, <1>6, <1>7

\* The mod gets a command.
LEMMA PollKeepsMod ==
    ASSUME SafetyInv, NEW t \in Train, Poll(t)
    PROVE  ModInv'
<1>1. PICK c : c = Sent(cmd[t])
  OBVIOUS
<1>2. /\ GameTurn /\ Idle /\ inbox = <<>> /\ cmd[t] # NoCommand /\ inbox' = inbox \o <<c>>
      /\ UNCHANGED <<place, ticked, queue, passages, finished, topology, snapshot, held>>
  BY <1>1 DEF Poll, Mod!AcceptCommandResponse
<1>3. SameServer
  BY <1>2, GameLeavesServer
<1>4. c \in SentCommands /\ c.train = t /\ Pend(t, c.id)
  BY <1>1, <1>2, CommandSent
<1>5. inbox' = <<c>> /\ Len(inbox') = 1 /\ inbox'[1] = c
  BY <1>2
<1>6. KnowsSent'
  <2>1. PICK C : C = SentCommands
    OBVIOUS
  <2>2. inbox' \in Seq(C)
    BY <1>4, <1>5, <2>1
  <2> QED BY <1>2, <1>3, <1>5, <2>1, <2>2 DEF SafetyInv, ModInv, KnowsSent, SameServer
<1>7. /\ \A u : Present(u)' <=> Present(u)
      /\ \A u, z : SeenIn(u, z)' <=> SeenIn(u, z)
      /\ \A u : Entry(passages, u)' <=> Entry(passages, u)
  BY <1>2 DEF Present, SeenIn, ViewIn, Entry
<1>8. Reports(passages, finished, queue, Len(queue))'
  BY <1>2, <1>3, <1>7, ReportsStay DEF SafetyInv, ModInv, KnowsSent
<1>9. Filed(passages, queue, Len(queue))
  BY DEF SafetyInv, ModInv, Reports
<1>10. \A j \in StoredIds : RowTrain(j) = t => j <= c.id
  <2>1. c.id \in CommandIds /\ Pending(c.id) /\ RowTrain(c.id) = t
    BY <1>4 DEF Pend
  <2> QED BY <2>1 DEF SafetyInv, ServerInv, FileInv, PendingLast, StoredIds
<1>11. InboxBacked(passages, finished, queue, Len(queue))'
  <2>1. passages[t] # NoPassage => passages[t].command.id <= c.id
    BY <1>9, <1>10 DEF Filed
  <2>2. \A k \in 1..Len(queue) : queue[k].train = t => queue[k].id <= c.id
    BY <1>9, <1>10 DEF Filed
  <2>3. Pend(t, c.id)'
    BY <1>3, <1>4 DEF SameServer
  <2>4. \A m \in 1..Len(inbox') : inbox'[m] = c
    BY <1>5
  <2> QED BY <1>2, <1>4, <2>1, <2>2, <2>3, <2>4 DEF InboxBacked
<1>12. SnapshotFits' /\ \A u \in Train : PlaceFits(passages, u)'
  <2>1. SnapshotFits /\ \A u \in Train : PlaceFits(passages, u)
    BY DEF SafetyInv, ModInv
  <2>2. SnapshotFits'
    BY <1>2, <1>7, <2>1 DEF SnapshotFits
  <2>3. \A u \in Train : PlaceFits(passages, u)'
    BY <1>2, <1>3, <1>7, <2>1 DEF PlaceFits, SameServer
  <2> QED BY <2>2, <2>3
<1>13. PassagesFit' /\ HeldAtEntry'
  BY <1>2, <1>7 DEF SafetyInv, ModInv, PassagesFit, HeldAtEntry
<1>14. ClaimsApart'
  BY <1>2, <1>3 DEF ClaimsApart, SameServer, Idle
<1> QED BY <1>2, <1>6, <1>8, <1>11, <1>12, <1>13, <1>14 DEF SafetyInv, ModInv

\* The mod gets the topology.
LEMMA TopologyKeepsMod ==
    ASSUME SafetyInv, PollTopology
    PROVE  ModInv'
<1>2. /\ GameTurn /\ Idle /\ topology' = revision
      /\ UNCHANGED <<place, ticked, queue, inbox, passages, finished, snapshot, held>>
  BY DEF PollTopology, Mod!AcceptTopologyResponse
<1>3. SameServer
  BY <1>2, GameLeavesServer
<1>4. topology' # 0
  BY <1>2 DEF SafetyInv, ServerInv, FileInv, RevisionStored
<1>5. ASSUME NEW t \in Train, passages[t] # NoPassage, Present(t)
      PROVE  passages[t].command.rev = revision
  <2>1. PICK C : C = SentCommands
    OBVIOUS
  <2>2. passages[t].command \in C
    BY <1>5, <2>1, FramesAssumed
       DEF SafetyInv, ModInv, KnowsSent, Frames!PassagesOf, Frames!Passage
  <2>3. passages[t].command.rev = rows[passages[t].command.id].command.rev
    BY <2>1, <2>2, SentFacts DEF SafetyInv, SystemInv, ServerInv, FileInv
  <2>4. Pend(t, passages[t].command.id) \/ Actv(t, passages[t].command.id)
    BY <1>5, PassageBacked DEF SafetyInv, ModInv
  <2> QED BY <1>2, <2>3, <2>4, BackedRevision DEF SafetyInv, ServerInv
<1>6. KnowsSent'
  BY <1>2, <1>3 DEF SafetyInv, ModInv, KnowsSent, SameServer
<1>7. /\ \A u : Present(u)' <=> Present(u)
      /\ \A u, z : SeenIn(u, z)' <=> SeenIn(u, z)
      /\ \A u : Entry(passages, u)' <=> Entry(passages, u)
  BY <1>2 DEF Present, SeenIn, ViewIn, Entry
<1>8. Reports(passages, finished, queue, Len(queue))'
  BY <1>2, <1>3, <1>7, ReportsStay DEF SafetyInv, ModInv, KnowsSent
<1>11. InboxBacked(passages, finished, queue, Len(queue))'
  BY <1>2, <1>3, <1>7 DEF SafetyInv, ModInv, InboxBacked, SameServer
<1>12. SnapshotFits' /\ \A u \in Train : PlaceFits(passages, u)'
  <2>1. SnapshotFits /\ \A u \in Train : PlaceFits(passages, u)
    BY DEF SafetyInv, ModInv
  <2>2. SnapshotFits'
    BY <1>2, <1>7, <2>1 DEF SnapshotFits
  <2>3. \A u \in Train : PlaceFits(passages, u)'
    BY <1>2, <1>3, <1>5, <1>7, <2>1 DEF PlaceFits, SameServer
  <2> QED BY <2>2, <2>3
<1>13. PassagesFit' /\ HeldAtEntry'
  BY <1>2, <1>5, <1>7 DEF SafetyInv, ModInv, PassagesFit, HeldAtEntry
<1>14. ClaimsApart'
  BY <1>2, <1>3 DEF ClaimsApart, SameServer, Idle
<1> QED BY <1>2, <1>4, <1>6, <1>8, <1>11, <1>12, <1>13, <1>14 DEF SafetyInv, ModInv


\* A frame.
LEMMA FrameKeepsMod ==
    ASSUME SafetyInv, MaxCommand <= MaxFinished, NEW elapsed, Frame(elapsed)
    PROVE  /\ ModInv'
           /\ \A t : Present(t)' <=> Present(t)
           /\ \A i : AcceptBefore(queue, Len(queue), i)' =>
                 AcceptBefore(queue, Len(queue), i) \/ Present(RowTrain(i))
<1>1. PICK v : v = Frames!TickCore({}, elapsed)
  OBVIOUS
<1>2. /\ GameTurn /\ ticked' = TRUE /\ queue' = queue \o v.posts /\ inbox' = <<>>
      /\ passages' = v.passages /\ finished' = v.finished /\ held' = v.held
      /\ UNCHANGED <<place, topology, snapshot>>
  BY <1>1, SameFrame DEF Frame, Mod!Tick
<1>3. SameServer
  BY <1>2, GameLeavesServer
<1>4. /\ place \in [Train -> Zones] /\ SnapshotFits /\ \A u \in Train : PlaceFits(passages, u)
      /\ topology # 0 /\ KnowsSent /\ ClaimsApart
      /\ Reports(passages, finished, queue, Len(queue))
      /\ InboxBacked(passages, finished, queue, Len(queue))
  BY DEF SafetyInv, ModInv
<1>5. FrameReady
  BY <1>4 DEF FrameReady, SafetyInv, SystemInv, ServerInv, FileInv
<1>6. FrameOK(Frames!FrameStart) /\ DrainBacked(Frames!FrameStart)
  BY <1>4, <1>5, StartOK
<1>7. /\ FrameOK(v)
      /\ snapshot # NoSnapshot => \A t \in Train : snapshot[t] # Absent => Settled(v, t)
  BY <1>1, <1>5, <1>6, FrameEnds
<1>8. PICK C : C = SentCommands
  OBVIOUS
<1>9. /\ v.passages \in Frames!PassagesOf(C) /\ v.finished \subseteq Frames!IdsOf(C)
      /\ v.posts \in Seq(Frames!PostsOf(C)) /\ queue \in Seq(Frames!PostsOf(C))
  BY <1>4, <1>7, <1>8 DEF FrameOK, Frames!Work, KnowsSent
<1>a. PICK A : A = Frames!PostsOf(C)
  OBVIOUS
<1>10. PICK a \in Seq(A) : a = queue
  BY <1>9, <1>a
<1>11. PICK b \in Seq(A) : b = v.posts
  BY <1>9, <1>a
<1>12. PICK q \in Seq(A) : q = a \o b
  <2>1. a \o b \in Seq(A)
    OBVIOUS
  <2> QED BY <2>1
<1>13. PICK n \in Nat : n = Len(a) + Len(b)
  OBVIOUS
<1>14. /\ Len(q) = n /\ \A k \in 1..Len(a) : q[k] = a[k]
       /\ \A k \in 1..n : k \notin 1..Len(a) => k - Len(a) \in 1..Len(b) /\ q[k] = b[k - Len(a)]
  BY <1>12, <1>13
<1>15. queue' = q /\ Len(queue') = n /\ Queued(v) = q /\ QueuedLen(v) = n
  BY <1>2, <1>10, <1>11, <1>12, <1>13, <1>14 DEF Queued, QueuedLen
<1>16. PICK P : P = v.passages
  OBVIOUS
<1>17. PICK F : F = v.finished
  OBVIOUS
<1>18. Reports(P, F, q, n) /\ \A t \in Train : PlaceFits(P, t)
  BY <1>7, <1>15, <1>16, <1>17 DEF FrameOK
<1>19. /\ \A u : Present(u)' <=> Present(u)
       /\ \A u, z : SeenIn(u, z)' <=> SeenIn(u, z)
       /\ \A u : Entry(P, u)' <=> Entry(P, u)
  BY <1>2 DEF Present, SeenIn, ViewIn, Entry
<1>20. Reports(passages, finished, queue, Len(queue))'
  <2>1. BackingKept(P, q, n, 0)
    BY <1>3, <1>18, <1>19 DEF SameServer, BackingKept, Reports, AcceptsBacked, ReleasesBacked
  <2>2. Reports(P, F, q, n - 0)'
    BY <1>18, <2>1, ReportsCarried
  <2> QED BY <1>2, <1>15, <1>16, <1>17, <2>2
<1>21. KnowsSent'
  BY <1>2, <1>3, <1>8, <1>9, <1>a, <1>12, <1>15 DEF KnowsSent, SameServer
<1>22. InboxBacked(passages, finished, queue, Len(queue))'
  <2>1. \A m : m \notin 1..Len(inbox')
    BY <1>2
  <2> QED BY <2>1 DEF InboxBacked
<1>23. SnapshotFits'
  BY <1>2, <1>4, <1>19 DEF SnapshotFits
<1>24. \A t \in Train : PlaceFits(passages, t)'
  <2>1. \A t \in Train : PlaceFits(P, t)'
    BY <1>2, <1>3, <1>18, <1>19 DEF PlaceFits, SameServer
  <2> QED BY <1>2, <1>16, <2>1
<1>25. PassagesFit'
  BY <1>2, <1>7 DEF PassagesFit, Settled, Present
<1>26. HeldAtEntry'
  <2>1. \A t \in Train : SeenIn(t, "near") => snapshot # NoSnapshot /\ snapshot[t] # Absent
    BY ViewFacts DEF SeenIn
  <2> QED BY <1>2, <1>7, <1>19, <2>1 DEF HeldAtEntry, Settled
<1>27. ClaimsApart'
  <2>1. \A t \in Train : Claim(passages, t)' => Claim(passages, t)
    <3>1. \A t \in Train : Entry(P, t) => Claim(passages, t)
      BY <1>7, <1>16 DEF FrameOK
    <3> QED BY <1>2, <1>3, <1>16, <1>19, <3>1 DEF Claim, SameServer, Entry
  <2> QED BY <1>3, <1>4, <2>1 DEF ClaimsApart, SameServer
<1>28. \A i : AcceptBefore(queue, Len(queue), i)' =>
                 AcceptBefore(queue, Len(queue), i) \/ Present(RowTrain(i))
  <2> SUFFICES ASSUME NEW i, AcceptBefore(queue, Len(queue), i)',
                      ~AcceptBefore(queue, Len(queue), i)
               PROVE  Present(RowTrain(i))
    OBVIOUS
  <2>1. PICK k \in 1..n : q[k].kind = "accept" /\ q[k].id = i
    BY <1>15 DEF AcceptBefore
  <2>2. k \notin 1..Len(a)
    BY <1>10, <1>14, <2>1 DEF AcceptBefore
  <2>3. PICK m \in 1..Len(b) : q[k] = b[m]
    BY <1>14, <2>2
  <2>4. Present(q[k].train)
    BY <1>7, <1>11, <2>1, <2>3 DEF FrameOK
  <2>5. RowTrain(i) = q[k].train
    BY <1>18, <2>1 DEF Reports, Filed
  <2> QED BY <2>4, <2>5
<1>29. place' \in [Train -> Zones] /\ topology' # 0
  BY <1>2, <1>4
<1> QED BY <1>19, <1>20, <1>21, <1>22, <1>23, <1>24, <1>25, <1>26, <1>27, <1>28, <1>29 DEF ModInv

\* What happens in the game, or between the game and the server, keeps the
\* invariant.
LEMMA GameKeepsSafety ==
    ASSUME SafetyInv, SystemInv', UNCHANGED faults, MaxCommand <= MaxFinished,
           \/ \E t \in Train : Move(t) \/ Vanish(t) \/ Poll(t)
           \/ Sample \/ PollTopology
           \/ \E elapsed \in BOOLEAN : Frame(elapsed)
    PROVE  SafetyInv'
<1>1. \A i \in CommandIds : Pending(i) => RowTrain(i) \in Train
  <2>1. \A i \in CommandIds : rows[i] # NoRow => rows[i] \in Row
    BY DEF SafetyInv, SystemInv, ServiceInv, ServiceTypeOK
  <2> QED BY <2>1, RowFacts, CommandFacts DEF Pending, RowTrain
<1>2. GameTurn /\ ServerInv
  BY DEF Move, Vanish, Poll, Sample, PollTopology, Frame, SafetyInv
<1>3. CASE \E elapsed \in BOOLEAN : Frame(elapsed)
  <2>1. /\ ModInv' /\ \A t : Present(t)' <=> Present(t)
        /\ \A i : AcceptBefore(queue, Len(queue), i)' =>
              AcceptBefore(queue, Len(queue), i) \/ Present(RowTrain(i))
    BY <1>3, FrameKeepsMod
  <2>2. ServerInv'
    BY <1>1, <1>2, <2>1, GameKeepsServer
  <2> QED BY <2>1, <2>2 DEF SafetyInv
<1>4. CASE Sample
  <2>1. ModInv' /\ \A t \in Train : Present(t)' => Present(t)
    BY <1>4, SampleKeepsMod
  <2>2. queue' = queue
    BY <1>4 DEF Sample
  <2>3. \A i : AcceptBefore(queue, Len(queue), i)' <=> AcceptBefore(queue, Len(queue), i)
    BY <2>2 DEF AcceptBefore
  <2>4. ServerInv'
    BY <1>1, <1>2, <2>1, <2>3, GameKeepsServer
  <2> QED BY <2>1, <2>4 DEF SafetyInv
<1>5. CASE PollTopology \/ \E t \in Train : Move(t) \/ Vanish(t) \/ Poll(t)
  <2>1. ModInv'
    BY <1>5, MoveKeepsMod, VanishKeepsMod, PollKeepsMod, TopologyKeepsMod
  <2>2. queue' = queue /\ snapshot' = snapshot
    BY <1>5 DEF Move, Vanish, Poll, PollTopology, Mod!AcceptCommandResponse,
                Mod!AcceptTopologyResponse, modVars
  <2>3. /\ \A i : AcceptBefore(queue, Len(queue), i)' <=> AcceptBefore(queue, Len(queue), i)
        /\ \A t : Present(t)' <=> Present(t)
    BY <2>2 DEF AcceptBefore, Present
  <2>4. ServerInv'
    BY <1>1, <1>2, <2>3, GameKeepsServer
  <2> QED BY <2>1, <2>4 DEF SafetyInv
<1> QED BY <1>3, <1>4, <1>5

-----------------------------------------------------------------------------
(* What the server may do without the mod noticing.                        *)

\* d reports have been taken off the queue.
Shifted(d) ==
    /\ d \in Nat /\ d <= Len(queue) /\ Len(queue') = Len(queue) - d
    /\ \A k \in 1..(Len(queue) - d) : queue'[k] = queue[k + d]
    /\ queue' \in Seq(Frames!PostsOf(SentCommands))

\* No row is lost or rewritten.
RowsKept == \A i \in StoredIds : i \in StoredIds' /\ rows'[i].command = rows[i].command

\* A command the server stops waiting for is one the mod knows; and it waits
\* for no new one of a train inside.
InboxKept ==
    \A t \in Train : \A i : (Pend(t, i) /\ Present(t)) =>
        \/ Pend(t, i)' \/ i \in finished
        \/ passages[t] # NoPassage /\ passages[t].command.id = i
PlacesKept == \A t \in Train, j \in CommandIds : (place[t] = "inside" /\ Pend(t, j)') => Pend(t, j)

ServerKeeps(d) ==
    /\ UNCHANGED <<place, ticked, modVars>> /\ Shifted(d) /\ RowsKept
    /\ BackingKept(passages, queue, Len(queue), d)
    /\ InboxKept /\ PlacesKept /\ ClaimsApart'

\* Such a step keeps the invariant of the mod.
LEMMA ServerKeepsMod ==
    ASSUME SafetyInv, NEW d, ServerKeeps(d)
    PROVE  ModInv'
<1>1. /\ UNCHANGED <<place, ticked, inbox, passages, finished, topology, snapshot, held>>
      /\ Shifted(d) /\ RowsKept /\ BackingKept(passages, queue, Len(queue), d)
      /\ InboxKept /\ PlacesKept /\ ClaimsApart'
  BY DEF ServerKeeps, modVars
<1>2. /\ \A u : Present(u)' <=> Present(u)
      /\ \A u, z : SeenIn(u, z)' <=> SeenIn(u, z)
      /\ \A u : Entry(passages, u)' <=> Entry(passages, u)
  BY <1>1 DEF Present, SeenIn, ViewIn, Entry
<1>3. /\ place \in [Train -> Zones] /\ SnapshotFits /\ \A u \in Train : PlaceFits(passages, u)
      /\ topology # 0 /\ KnowsSent /\ PassagesFit /\ HeldAtEntry
      /\ Reports(passages, finished, queue, Len(queue))
      /\ InboxBacked(passages, finished, queue, Len(queue))
  BY DEF SafetyInv, ModInv
<1>4. Len(queue) \in Nat /\ d \in Nat /\ d <= Len(queue) /\ Len(queue') = Len(queue) - d
  <2>1. PICK A : A = Frames!PostsOf(SentCommands)
    OBVIOUS
  <2>2. queue \in Seq(A)
    BY <1>3, <2>1 DEF KnowsSent
  <2>3. Len(queue) \in Nat
    BY <2>2
  <2> QED BY <1>1, <2>3 DEF Shifted
<1>5. KnowsSent'
  <2>1. PICK C : C = SentCommands
    OBVIOUS
  <2>2. PICK D : D = SentCommands'
    OBVIOUS
  <2>3. C \subseteq D
    <3> SUFFICES ASSUME NEW c \in C PROVE c \in D
      OBVIOUS
    <3>1. PICK i \in StoredIds : c = Sent(rows[i].command)
      BY <2>1 DEF SentCommands
    <3>2. i \in StoredIds' /\ rows'[i].command = rows[i].command
      BY <1>1 DEF RowsKept
    <3>3. c = Sent(rows[i].command)'
      BY <3>1, <3>2 DEF Sent
    <3> QED BY <2>2, <3>2, <3>3 DEF SentCommands
  <2>4. /\ Seq(C) \subseteq Seq(D)
        /\ Frames!PassagesOf(C) \subseteq Frames!PassagesOf(D)
        /\ Frames!IdsOf(C) \subseteq Frames!IdsOf(D)
        /\ Seq(Frames!PostsOf(C)) \subseteq Seq(Frames!PostsOf(D))
    BY <2>3, Monotone
  <2>5. /\ inbox' \in Seq(D) /\ Len(inbox') <= 1 /\ passages' \in Frames!PassagesOf(D)
        /\ finished' \subseteq Frames!IdsOf(D) /\ queue' \in Seq(Frames!PostsOf(D))
    BY <1>1, <1>3, <2>1, <2>4 DEF KnowsSent, Shifted
  <2> QED BY <2>2, <2>5 DEF KnowsSent
<1>6. Reports(passages, finished, queue, Len(queue))'
  <2>1. PICK n \in Nat : n = Len(queue)
    BY <1>4
  <2>2. PICK P : P = passages
    OBVIOUS
  <2>3. PICK F : F = finished
    OBVIOUS
  <2>4. PICK q : q = queue
    OBVIOUS
  <2>5. PICK q2 : q2 = queue'
    OBVIOUS
  <2>6. Reports(P, F, q, n) /\ BackingKept(P, q, n, d)
    BY <1>1, <1>3, <2>1, <2>2, <2>3, <2>4
  <2>7. d \in Nat /\ d <= n /\ \A k \in 1..(n - d) : q2[k] = q[k + d]
    BY <1>1, <2>1, <2>4, <2>5 DEF Shifted
  <2>8. Reports(P, F, q2, n - d)'
    BY <2>6, <2>7, ReportsCarried
  <2>9. Len(queue') = n - d
    BY <1>4, <2>1
  <2> QED BY <1>1, <2>2, <2>3, <2>5, <2>8, <2>9
<1>7. InboxBacked(passages, finished, queue, Len(queue))'
  <2>1. \A k \in 1..Len(queue') : \E l \in 1..Len(queue) : queue'[k] = queue[l]
    BY <1>1, <1>4 DEF Shifted
  <2>2. \A m \in 1..Len(inbox) : inbox[m].train \in Train
    <3>1. PICK C : C = SentCommands
      OBVIOUS
    <3>2. inbox \in Seq(C) /\ \A c \in C : c.train \in Train
      BY <1>3, <3>1, SentFacts DEF KnowsSent, SafetyInv, SystemInv, ServerInv, FileInv
    <3> QED BY <3>2
  <2> SUFFICES ASSUME NEW m \in 1..Len(inbox), NEW c, c = inbox[m]
               PROVE  /\ passages[c.train] # NoPassage => passages[c.train].command.id <= c.id
                      /\ \A k \in 1..Len(queue') : queue'[k].train = c.train => queue'[k].id <= c.id
                      /\ Present(c.train) =>
                            \/ Pend(c.train, c.id)' \/ c.id \in finished
                            \/ passages[c.train] # NoPassage /\ passages[c.train].command.id = c.id
    BY <1>1, <1>2 DEF InboxBacked
  <2>3. /\ passages[c.train] # NoPassage => passages[c.train].command.id <= c.id
        /\ \A k \in 1..Len(queue) : queue[k].train = c.train => queue[k].id <= c.id
        /\ Present(c.train) =>
              \/ Pend(c.train, c.id) \/ c.id \in finished
              \/ passages[c.train] # NoPassage /\ passages[c.train].command.id = c.id
    BY <1>3 DEF InboxBacked
  <2>4. c.train \in Train
    BY <2>2
  <2>5. \A k \in 1..Len(queue') : queue'[k].train = c.train => queue'[k].id <= c.id
    BY <2>1, <2>3
  <2> QED BY <1>1, <2>3, <2>4, <2>5 DEF InboxKept
<1>8. SnapshotFits'
  BY <1>1, <1>2, <1>3 DEF SnapshotFits
<1>9. ASSUME NEW u \in Train PROVE PlaceFits(passages, u)'
  <2>1. PlaceFits(passages, u)
    BY <1>3
  <2> QED BY <1>1, <1>2, <2>1 DEF PlaceFits, PlacesKept
<1>10. PassagesFit' /\ HeldAtEntry'
  BY <1>1, <1>2, <1>3 DEF PassagesFit, HeldAtEntry
<1> QED BY <1>1, <1>3, <1>5, <1>6, <1>7, <1>8, <1>9, <1>10 DEF ModInv

\* Nothing is taken off the queue.
LEMMA NothingShifted ==
    ASSUME KnowsSent, UNCHANGED queue
    PROVE  Shifted(0) /\ Len(queue) \in Nat
<1>1. PICK A : A = Frames!PostsOf(SentCommands)
  OBVIOUS
<1>2. queue \in Seq(A)
  BY <1>1 DEF KnowsSent
<1>3. Len(queue) \in Nat
  BY <1>2
<1> QED BY <1>1, <1>2, <1>3 DEF Shifted

\* A step that changes neither the rows nor what the server waits for or
\* has counted.
Quiet ==
    /\ UNCHANGED <<rows, serving>>
    /\ \A t \in Train : \A i : Pend(t, i)' <=> Pend(t, i)
    /\ \A t \in Train : \A i : Actv(t, i)' <=> Actv(t, i)

\* Such a step keeps the invariant of the mod, too.
LEMMA QuietKeepsMod ==
    ASSUME SafetyInv, Quiet, UNCHANGED gameVars
    PROVE  ModInv'
<1>1. UNCHANGED <<place, ticked, modVars, queue>> /\ UNCHANGED <<passages, snapshot>>
  BY DEF gameVars, modVars
<1>2. \A u : Present(u)' <=> Present(u)
  BY <1>1 DEF Present
<1>3. RowsKept /\ \A i : RowTrain(i)' = RowTrain(i)
  BY DEF Quiet, RowsKept, StoredIds, RowTrain
<1>4. Reports(passages, finished, queue, Len(queue)) /\ KnowsSent /\ ClaimsApart
  BY DEF SafetyInv, ModInv
<1>5. Shifted(0) /\ Len(queue) \in Nat
  BY <1>1, <1>4, NothingShifted
<1>6. BackingKept(passages, queue, Len(queue), 0)
  <2>1. PICK n \in Nat : n = Len(queue)
    BY <1>5
  <2>2. PICK P : P = passages
    OBVIOUS
  <2>3. PICK q : q = queue
    OBVIOUS
  <2>4. Filed(P, q, n) /\ AcceptsBacked(q, n) /\ ReleasesBacked(P)
    BY <1>4, <2>1, <2>2, <2>3 DEF Reports
  <2>5. \A k \in 1..n : q[k].train \in Train
    BY <2>4 DEF Filed
  <2>6. BackingKept(P, q, n, 0)
    BY <1>2, <1>3, <2>4, <2>5 DEF Quiet, RowsKept, BackingKept, AcceptsBacked, ReleasesBacked
  <2> QED BY <2>1, <2>2, <2>3, <2>6
<1>7. InboxKept /\ PlacesKept
  BY DEF Quiet, InboxKept, PlacesKept
<1>8. ClaimsApart'
  <2>1. \A i : Pending(i)' <=> Pending(i)
    BY DEF Quiet, Pending
  <2>2. \A t \in Train : Claim(passages, t)' <=> Claim(passages, t)
    BY <1>1, <1>2, <1>3, <2>1 DEF Claim, Entry
  <2> QED BY <1>4, <2>2 DEF ClaimsApart, Quiet
<1> QED BY <1>1, <1>3, <1>5, <1>6, <1>7, <1>8, ServerKeepsMod DEF ServerKeeps

-----------------------------------------------------------------------------
(* The count of the accepted rows.                                         *)

\* The accepted rows of a resource can be counted.
LEMMA AcceptedFinite ==
    ASSUME NEW r
    PROVE  /\ IsFiniteSet(AcceptedIn(r)) /\ IsFiniteSet(Counted(r))
           /\ Cardinality(Counted(r)) <= Cardinality(AcceptedIn(r))
           /\ Cardinality(AcceptedIn(r)) \in Nat /\ Cardinality(Counted(r)) \in Nat
<1>1. IsFiniteSet(CommandIds)
  BY FS_Interval, ServiceAssumptions DEF CommandIds
<1>2. AcceptedIn(r) \subseteq CommandIds /\ Counted(r) \subseteq AcceptedIn(r)
  BY DEF AcceptedIn, Counted
<1>3. IsFiniteSet(AcceptedIn(r))
  BY <1>1, <1>2, FS_Subset
<1>4. IsFiniteSet(Counted(r)) /\ Cardinality(Counted(r)) <= Cardinality(AcceptedIn(r))
  BY <1>2, <1>3, FS_Subset
<1> QED BY <1>3, <1>4, FS_CardinalityType

\* What a step that leaves the rows, the queue and the trains alone keeps.
LEMMA RowsSame ==
    ASSUME ServerInv, UNCHANGED <<rows, revision, stored, snapshot, queue>>
    PROVE  /\ RowsOnWay' /\ RevisionStored' /\ PendingLast' /\ AcceptedFit' /\ RoomToEnter'
           /\ \A i : /\ Pending(i)' <=> Pending(i)
                     /\ Accepted(i)' <=> Accepted(i)
                     /\ RowTrain(i)' = RowTrain(i)
           /\ \A r : AcceptedIn(r)' = AcceptedIn(r)
           /\ \A t : Present(t)' <=> Present(t)
           /\ \A t, z : SeenIn(t, z)' <=> SeenIn(t, z)
<1>1. /\ \A i : /\ Pending(i)' <=> Pending(i)
                /\ Accepted(i)' <=> Accepted(i)
                /\ RowTrain(i)' = RowTrain(i)
      /\ \A t : Present(t)' <=> Present(t)
      /\ \A t, z : SeenIn(t, z)' <=> SeenIn(t, z)
  BY DEF Pending, Accepted, RowTrain, Present, SeenIn, ViewIn
<1>2. \A r : AcceptedIn(r)' = AcceptedIn(r)
  BY <1>1 DEF AcceptedIn
<1>3. RowsOnWay' /\ RevisionStored'
  BY <1>1 DEF ServerInv, FileInv, RowsOnWay, RevisionStored
<1>4. PendingLast'
  BY <1>1 DEF ServerInv, FileInv, PendingLast
<1>5. AcceptedFit'
  BY <1>2 DEF ServerInv, CountInv, AcceptedFit
<1>6. \A i : AcceptBefore(queue, Len(queue), i)' <=> AcceptBefore(queue, Len(queue), i)
  BY DEF AcceptBefore
<1>7. RoomToEnter'
  BY <1>1, <1>2, <1>6 DEF ServerInv, CountInv, RoomToEnter
<1> QED BY <1>1, <1>2, <1>3, <1>4, <1>5, <1>7

-----------------------------------------------------------------------------
(* The loops of the server.                                                *)

\* A step that only moves a loop on.
LEMMA LoopKeeps ==
    ASSUME SafetyInv, UNCHANGED <<cmd, act, serving, occupancy, rows, revision, stored>>,
           UNCHANGED gameVars,
           \A t \in Train : Issuing(t) => Issuing(t)',
           \A i \in CommandIds : Taken(i)' => Taken(i),
           RestoredSoFar', LoopsFit'
    PROVE  ServerInv' /\ ModInv'
<1>1. ServerInv /\ UNCHANGED <<snapshot, queue>>
  BY DEF SafetyInv, gameVars, modVars
<1>2. /\ RowsOnWay' /\ RevisionStored' /\ PendingLast' /\ AcceptedFit' /\ RoomToEnter'
      /\ \A i : /\ Pending(i)' <=> Pending(i)
                /\ Accepted(i)' <=> Accepted(i)
                /\ RowTrain(i)' = RowTrain(i)
      /\ \A r : AcceptedIn(r)' = AcceptedIn(r)
      /\ \A t : Present(t)' <=> Present(t)
  BY <1>1, RowsSame
<1>3. CommandsFiled'
  BY <1>1 DEF ServerInv, FileInv, CommandsFiled
<1>4. ActivesFiled'
  BY <1>1, <1>2 DEF ServerInv, FileInv, ActivesFiled
<1>5. PendingKnown'
  BY <1>1, <1>2 DEF ServerInv, PendingKnown
<1>6. AllCounted'
  <2> SUFFICES ASSUME NEW r \in Resource PROVE Cardinality(Counted(r)') <= occupancy'[r]
    BY DEF AllCounted
  <2>1. Counted(r)' \subseteq Counted(r)
    BY <1>2 DEF Counted, AcceptedIn
  <2>2. Cardinality(Counted(r)') <= Cardinality(Counted(r)) /\ Cardinality(Counted(r)) \in Nat
        /\ Cardinality(Counted(r)') \in Nat
    BY <2>1, AcceptedFinite, FS_Subset, FS_CardinalityType
  <2>3. Cardinality(Counted(r)) <= occupancy[r] /\ occupancy[r] \in Nat
    BY <1>1, PolicyAssumptions
       DEF ServerInv, CountInv, AllCounted, SafetyInv, SystemInv, ServiceInv, ManagerInv, ManagerTypeOK
  <2> QED BY <2>2, <2>3
<1>7. ServerInv'
  BY <1>2, <1>3, <1>4, <1>5, <1>6 DEF ServerInv, FileInv, CountInv
<1>8. Quiet
  BY <1>2 DEF Quiet, Pend, Actv
<1> QED BY <1>7, <1>8, QuietKeepsMod

\* A telemetry round begins.
LEMMA UploadKeeps ==
    ASSUME SafetyInv, NEW gone, NEW now, Upload(gone, now)
    PROVE  ServerInv' /\ ModInv'
<1>1. /\ UNCHANGED gameVars /\ job = "idle" /\ serving /\ job' = "cleanup" /\ handling' = {}
      /\ UNCHANGED <<cmd, act, serving, occupancy, rows, revision, stored>>
  <2>1. gone = {}
    BY DEF Upload, SafetyInv, SafeFaults
  <2> QED BY <2>1 DEF Upload, UpdateTrains, Observe, Idle, managerVars, corridorVars,
                      commandVars, databaseVars
<1>2. /\ \A t \in Train : Issuing(t) => Issuing(t)'
      /\ \A i \in CommandIds : Taken(i)' => Taken(i)
  BY <1>1 DEF Issuing, Taken
<1>3. RestoredSoFar' /\ LoopsFit'
  BY <1>1 DEF RestoredSoFar, LoopsFit, Forgotten, Planned
<1> QED BY <1>1, <1>2, <1>3, LoopKeeps

\* A maintenance run begins.
LEMMA MaintenanceKeeps ==
    ASSUME SafetyInv, NEW gone, Maintenance(gone)
    PROVE  ServerInv' /\ ModInv'
<1>1. /\ UNCHANGED gameVars /\ job = "idle" /\ serving /\ job' = "maintain"
      /\ handling' \subseteq gone
      /\ UNCHANGED <<cmd, act, serving, occupancy, rows, revision, stored>>
  BY DEF Maintenance, RunMaintenance, Observe, Idle, managerVars, corridorVars,
         commandVars, databaseVars
<1>2. /\ \A t \in Train : Issuing(t) => Issuing(t)'
      /\ \A i \in CommandIds : Taken(i)' => Taken(i)
  BY <1>1 DEF Issuing, Taken
<1>3. \A u \in gone : ~Present(u) /\ \A k \in 1..Len(queue) : queue[k].train # u
  <2>1. "stale" \notin faults /\ "late" \notin faults
    BY DEF SafetyInv, SafeFaults
  <2>2. snapshot # NoSnapshot
        /\ \A t \in gone : snapshot[t] = Absent /\ \A i \in DOMAIN queue : queue[i].train # t
    BY <2>1 DEF Maintenance
  <2>3. DOMAIN queue = 1..Len(queue)
    <3>1. PICK A : A = Frames!PostsOf(SentCommands)
      OBVIOUS
    <3>2. queue \in Seq(A)
      BY <3>1 DEF SafetyInv, ModInv, KnowsSent
    <3> QED BY <3>2
  <2> QED BY <2>2, <2>3 DEF Present
<1>4. RestoredSoFar' /\ LoopsFit'
  <2>1. queue' = queue /\ \A u : Present(u)' <=> Present(u)
    BY <1>1 DEF Present, gameVars, modVars
  <2> QED BY <1>1, <1>3, <2>1 DEF RestoredSoFar, LoopsFit, Forgotten, Planned
<1> QED BY <1>1, <1>2, <1>4, LoopKeeps

\* It ends.
LEMMA MaintenanceDoneKeeps ==
    ASSUME SafetyInv, MaintenanceDone, UNCHANGED gameVars
    PROVE  ServerInv' /\ ModInv'
<1>1. /\ job = "maintain" /\ job' = "idle" /\ handling' = {}
      /\ UNCHANGED <<cmd, act, serving, occupancy, rows, revision, stored>>
  BY DEF MaintenanceDone, Unlock, managerVars, corridorVars, commandVars, databaseVars
<1>2. /\ \A t \in Train : Issuing(t) => Issuing(t)'
      /\ \A i \in CommandIds : Taken(i)' => Taken(i)
  BY <1>1 DEF Issuing, Taken
<1>3. RestoredSoFar' /\ LoopsFit'
  BY <1>1 DEF RestoredSoFar, LoopsFit, Forgotten, Planned
<1> QED BY <1>1, <1>2, <1>3, LoopKeeps

\* No train may be released into a resource.
LEMMA PlanHoldKeeps ==
    ASSUME SafetyInv, PlanHold, UNCHANGED gameVars
    PROVE  ServerInv' /\ ModInv'
<1>1. /\ job = "plan" /\ job' = job
      /\ UNCHANGED <<cmd, act, serving, occupancy, candidates, rows, revision, stored, handling>>
  BY DEF PlanHold, Planning, managerVars, corridorVars, commandVars, databaseVars
<1>2. /\ \A t \in Train : Issuing(t) => Issuing(t)'
      /\ \A i \in CommandIds : Taken(i)' => Taken(i)
  BY <1>1 DEF Issuing, Taken
<1>3. \A u : Outside(u)' <=> Outside(u)
  BY DEF Outside, SeenIn, ViewIn, gameVars, modVars
<1>4. RestoredSoFar' /\ LoopsFit'
  <2>1. Planned'
    BY <1>1, <1>3 DEF Planned, SafetyInv, ServerInv, LoopsFit, StoredIds
  <2> QED BY <1>1, <2>1 DEF RestoredSoFar, LoopsFit, Forgotten
<1> QED BY <1>1, <1>2, <1>4, LoopKeeps

\* The candidates of a round.
LEMMA BuildKeeps ==
    ASSUME SafetyInv, NEW C \in Buildable, Build(C), UNCHANGED gameVars
    PROVE  ServerInv' /\ ModInv'
<1>1. /\ job = "cleanup" /\ job' = "plan" /\ handling' = {} /\ snapshot # NoSnapshot
      /\ candidates' = [r \in Resource |-> {c \in C : c.resource = r}]
      /\ UNCHANGED <<cmd, act, serving, occupancy, rows, revision, stored>>
      /\ \A c \in C : /\ c.resource = Way[c.train]
                      /\ snapshot[c.train] # Absent /\ snapshot[c.train].at = NoResource
  BY DEF Build, RefreshCandidates, commandVars, databaseVars
<1>2. /\ \A t \in Train : Issuing(t) => Issuing(t)'
      /\ \A i \in CommandIds : Taken(i)' => Taken(i)
  BY <1>1 DEF Issuing, Taken
<1>3. \A c \in C : Outside(c.train)
  <2> SUFFICES ASSUME NEW c \in C PROVE Outside(c.train)
    OBVIOUS
  <2>1. c.train \in Train
    BY ManagerAssumptions DEF Buildable
  <2>2. Way[c.train] # NoResource
    BY <2>1, SystemAssumptions, ServiceAssumptions
  <2>3. ~SeenIn(c.train, "inside")
    BY <1>1, <2>1, <2>2, ViewFacts DEF SeenIn
  <2> QED BY <1>1, <2>1, <2>3 DEF SafetyInv, ModInv, SnapshotFits, Outside
<1>4. \A u : Outside(u)' <=> Outside(u)
  BY DEF Outside, SeenIn, ViewIn, gameVars, modVars
<1>5. RestoredSoFar' /\ LoopsFit'
  BY <1>1, <1>3, <1>4 DEF RestoredSoFar, LoopsFit, Forgotten, Planned
<1> QED BY <1>1, <1>2, <1>5, LoopKeeps

\* The recovery goes on with the accepted rows, or gives up.
LEMMA PendingRestoredKeeps ==
    ASSUME SafetyInv, SafeConditions, PendingRestored \/ RefuseToStart, UNCHANGED gameVars
    PROVE  ServerInv' /\ ModInv'
<1>1. /\ job \in {"restorePending", "restoreActive"} /\ job' \in {"restoreActive", "refused"}
      /\ cursor' = 0
      /\ job' = "restoreActive" => job = "restorePending" /\ Unrestored = {}
      /\ UNCHANGED <<cmd, act, serving, occupancy, rows, revision, stored>>
  BY DEF PendingRestored, RefuseToStart, Restoring, managerVars, corridorVars, commandVars,
         databaseVars
<1>2. /\ \A t \in Train : Issuing(t) => Issuing(t)'
      /\ \A i \in CommandIds : Taken(i)' => Taken(i)
  BY <1>1 DEF Issuing, Taken, CommandIds
<1>3. RestoredSoFar'
  <2>1. ASSUME job' = "restoreActive", NEW i \in CommandIds, Pending(i)
        PROVE  cmd[RowTrain(i)] # NoCommand
    <3>1. i \in RecoveredIds("PENDING") /\ ~(i > cursor)
      BY <1>1, <2>1 DEF Unrestored, RecoveredIds, SafeConditions, Pending
    <3>2. i <= cursor
      BY <3>1 DEF SafetyInv, SystemInv, ServiceInv, ServiceTypeOK, CommandIds
    <3> QED BY <1>1, <2>1, <3>2 DEF SafetyInv, ServerInv, FileInv, RestoredSoFar
  <2>2. \A i : (Pending(i)' <=> Pending(i)) /\ RowTrain(i)' = RowTrain(i)
    BY <1>1 DEF Pending, RowTrain
  <2> QED BY <1>1, <2>1, <2>2 DEF RestoredSoFar, CommandIds
<1>4. LoopsFit'
  BY <1>1 DEF LoopsFit, Forgotten, Planned
<1> QED BY <1>1, <1>2, <1>3, <1>4, LoopKeeps

\* A candidate is released: what the release finds and does.
ReleaseOf(c, t) ==
    /\ t = c.train /\ t \in Train /\ job = "plan" /\ serving
    /\ c.resource = Way[t] /\ Outside(t) /\ occupancy[Way[t]] < Capacity
    /\ UNCHANGED <<act, revision, stored, rows, job, occupancy, candidates, serving>>
    /\ \/ /\ cmd[t] = NoCommand /\ handling' = handling \cup {t}
          /\ cmd' = [cmd EXCEPT ![t] = cmd'[t]]
          /\ cmd'[t].id = nextId /\ cmd'[t].rev = revision /\ cmd'[t].resource = c.resource
       \/ cmd[t] # NoCommand /\ UNCHANGED <<cmd, handling>>

\* This is what a release by planNext does in a round.
LEMMA ReleaseFacts ==
    ASSUME SafetyInv, Planning, NEW c \in candidates[PlanOrder[cursor]], PlanRelease(c)
    PROVE  ReleaseOf(c, c.train)
<1>1. PICK r : r = PlanOrder[cursor]
  OBVIOUS
<1>2. ServiceInv
  BY DEF SafetyInv, SystemInv
<1>3. job = "plan" /\ r \in Resource /\ serving
  <2>1. job = "plan" /\ cursor \in Nat /\ cursor # 0 /\ cursor <= Len(PlanOrder)
    BY <1>2 DEF Planning, ServiceInv, JobOK, ServiceTypeOK
  <2>2. r \in Resource
    BY <1>1, <2>1, ServiceAssumptions
  <2> QED BY <1>2, <2>1, <2>2 DEF ServiceInv, JobOK
<1>4. c.resource = Way[c.train] /\ Outside(c.train) /\ c.resource = r
  BY <1>1, <1>2, <1>3 DEF ServiceInv, FiledByKey, SafetyInv, ServerInv, LoopsFit, Planned
<1>5. c.train \in Train
  BY <1>1, <1>2, <1>3, ManagerAssumptions DEF ServiceInv, ServiceTypeOK, ManagerTypeOK
<1>6. PlanNext(r, c, cycleTime)
  BY <1>1 DEF PlanRelease
<1>7. occupancy[r] < Capacity /\ UNCHANGED <<occupancy, candidates, serving>>
  BY <1>6 DEF PlanNext, Releasable, HardConstraintsMet
<1>8. UNCHANGED <<act, revision, stored, rows, job>>
  BY DEF PlanRelease, databaseVars
<1>9. PICK n : n = [id |-> nextId, train |-> c.train, resource |-> c.resource,
                    movements |-> c.movements, at |-> cycleTime, rev |-> revision]
  OBVIOUS
<1>10. n.id = nextId /\ n.rev = revision /\ n.resource = c.resource
  BY <1>9
<1>11. PICK t : t = c.train
  OBVIOUS
<1>12. \/ /\ cmd[t] = NoCommand /\ handling' = handling \cup {t} /\ cmd' = [cmd EXCEPT ![t] = n]
       \/ cmd[t] # NoCommand /\ UNCHANGED <<cmd, handling>>
  BY <1>9, <1>11 DEF PlanRelease
<1>13. cmd' = [cmd EXCEPT ![t] = n] => cmd'[t] = n
  BY <1>2, <1>5, <1>11 DEF ServiceInv, ServiceTypeOK
<1>14. \/ /\ cmd[t] = NoCommand /\ handling' = handling \cup {t}
          /\ cmd' = [cmd EXCEPT ![t] = cmd'[t]]
          /\ cmd'[t].id = nextId /\ cmd'[t].rev = revision /\ cmd'[t].resource = c.resource
       \/ cmd[t] # NoCommand /\ UNCHANGED <<cmd, handling>>
  BY <1>10, <1>12, <1>13
<1> QED BY <1>3, <1>4, <1>5, <1>7, <1>8, <1>11, <1>14 DEF ReleaseOf

\* A release keeps the invariant.
LEMMA PlanReleaseKeeps ==
    ASSUME SafetyInv, NEW c, NEW t, ReleaseOf(c, t), UNCHANGED gameVars
    PROVE  ServerInv' /\ ModInv'
<1>1. /\ ServerInv /\ UNCHANGED <<snapshot, queue>> /\ ServiceInv
  BY DEF SafetyInv, SystemInv, gameVars, modVars
<1>2. /\ t \in Train /\ job = "plan" /\ serving
      /\ Outside(t) /\ occupancy[Way[t]] < Capacity
      /\ UNCHANGED <<act, revision, stored, rows, job, occupancy, candidates, serving>>
  BY DEF ReleaseOf
<1>3. /\ \A u \in Train : u # t => cmd'[u] = cmd[u]
      /\ \/ /\ cmd[t] = NoCommand /\ handling' = handling \cup {t}
            /\ cmd'[t].id = nextId /\ cmd'[t].rev = revision /\ cmd'[t].resource = Way[t]
         \/ cmd[t] # NoCommand /\ UNCHANGED <<cmd, handling>>
  BY <1>1 DEF ReleaseOf, ServiceInv, ServiceTypeOK
<1>4. /\ RowsOnWay' /\ RevisionStored' /\ PendingLast' /\ AcceptedFit' /\ RoomToEnter'
      /\ \A i : /\ Pending(i)' <=> Pending(i)
                /\ Accepted(i)' <=> Accepted(i)
                /\ RowTrain(i)' = RowTrain(i)
      /\ \A r : AcceptedIn(r)' = AcceptedIn(r)
      /\ \A u : Present(u)' <=> Present(u)
      /\ \A u, z : SeenIn(u, z)' <=> SeenIn(u, z)
  BY <1>1, <1>2, RowsSame
<1>5. CommandsFiled'
  <2> SUFFICES ASSUME NEW u \in Train, cmd'[u] # NoCommand
               PROVE  /\ cmd'[u].rev = revision' /\ cmd'[u].resource = Way[u]
                      /\ ~Issuing(u)' =>
                            rows'[cmd'[u].id] = [command |-> cmd'[u], status |-> "PENDING"]
    BY DEF CommandsFiled
  <2>1. CASE u = t /\ cmd[t] = NoCommand
    BY <1>2, <1>3, <2>1 DEF Issuing
  <2>2. CASE cmd'[u] = cmd[u] /\ (Issuing(u) => Issuing(u)')
    BY <1>1, <1>2, <2>2 DEF ServerInv, FileInv, CommandsFiled
  <2>3. Issuing(u) => Issuing(u)'
    BY <1>2, <1>3 DEF Issuing
  <2> QED BY <1>3, <2>1, <2>2, <2>3
<1>6. ActivesFiled'
  BY <1>1, <1>2, <1>4 DEF ServerInv, FileInv, ActivesFiled, Taken
<1>7. RestoredSoFar'
  BY <1>2 DEF RestoredSoFar
<1>8. PendingKnown'
  <2>1. \A i \in CommandIds : Pending(i) => RowTrain(i) \in Train
    <3>1. \A i \in CommandIds : rows[i] # NoRow => rows[i] \in Row
      BY <1>1 DEF ServiceInv, ServiceTypeOK
    <3> QED BY <3>1, RowFacts, CommandFacts DEF Pending, RowTrain
  <2> QED BY <1>1, <1>2, <1>3, <1>4, <2>1 DEF ServerInv, PendingKnown
<1>9. LoopsFit'
  <2>1. \A i \in StoredIds : i < nextId
    BY <1>1, <1>2 DEF ServiceInv, SequenceAhead
  <2>2. handling \subseteq Train
    BY <1>1 DEF ServiceInv, ServiceTypeOK
  <2>3. StoredIds' = StoredIds
    BY <1>2 DEF StoredIds
  <2>4. Planned
    BY <1>1 DEF ServerInv, LoopsFit
  <2>5. \A u : Outside(u)' <=> Outside(u)
    BY <1>4 DEF Outside
  <2>6. \A u \in handling' : /\ Outside(u)' /\ occupancy'[Way[u]] < Capacity
                             /\ \A i \in StoredIds' : i < cmd'[u].id
    <3> SUFFICES ASSUME NEW u \in handling'
                 PROVE  /\ Outside(u)' /\ occupancy'[Way[u]] < Capacity
                        /\ \A i \in StoredIds' : i < cmd'[u].id
      OBVIOUS
    <3>1. CASE u = t /\ cmd[t] = NoCommand
      BY <1>2, <1>3, <2>1, <2>3, <2>5, <3>1
    <3>2. CASE u \in handling /\ cmd'[u] = cmd[u]
      BY <1>2, <2>3, <2>4, <2>5, <3>2 DEF Planned
    <3> QED BY <1>3, <2>2, <3>1, <3>2
  <2>7. Planned'
    BY <1>2, <2>4, <2>5, <2>6 DEF Planned
  <2> QED BY <1>2, <2>7 DEF LoopsFit, Forgotten
<1>10. AllCounted'
  BY <1>1, <1>2, <1>4 DEF ServerInv, CountInv, AllCounted, Counted, Taken
<1>11. ServerInv'
  BY <1>4, <1>5, <1>6, <1>7, <1>8, <1>9, <1>10 DEF ServerInv, FileInv, CountInv
<1>12. Quiet
  <2>1. \A u \in Train : \A i : Actv(u, i)' <=> Actv(u, i)
    BY <1>2, <1>4 DEF Actv
  <2>2. ASSUME NEW u \in Train, NEW i PROVE Pend(u, i)' <=> Pend(u, i)
    <3>1. CASE cmd'[u] = cmd[u]
      BY <1>2, <1>4, <3>1 DEF Pend
    <3>2. CASE u = t /\ cmd[t] = NoCommand /\ cmd'[t].id = nextId
      <4>1. \A j \in StoredIds : j < nextId
        BY <1>1, <1>2 DEF ServiceInv, SequenceAhead
      <4>2. nextId \notin StoredIds
        BY <4>1 DEF StoredIds, CommandIds
      <4> QED BY <1>2, <1>4, <3>2, <4>2 DEF Pend, Pending, StoredIds
    <3> QED BY <1>3, <3>1, <3>2
  <2> QED BY <1>2, <2>1, <2>2 DEF Quiet
<1> QED BY <1>11, <1>12, QuietKeepsMod

\* The command of a train that is gone is withdrawn.
LEMMA CancelStaleKeeps ==
    ASSUME SafetyInv, NEW t \in Train, CancelStale(t), UNCHANGED gameVars
    PROVE  ServerInv' /\ ModInv'
<1>1. /\ ServerInv /\ UNCHANGED <<snapshot, queue, passages>> /\ ServiceInv
      /\ UNCHANGED <<place, ticked, modVars>>
  BY DEF SafetyInv, SystemInv, gameVars, modVars
<1>2. /\ job = "maintain" /\ t \in handling /\ handling' = handling \ {t}
      /\ cmd' = [cmd EXCEPT ![t] = NoCommand] /\ Withdraw(cmd[t].resource)
      /\ UNCHANGED <<act, revision, stored, rows, job>>
  BY <1>1 DEF CancelStale, databaseVars, ServerInv, LoopsFit
<1>3. UNCHANGED <<occupancy, candidates, serving>> /\ serving
  <2>1. cmd[t] # NoCommand /\ cmd[t].resource \in Resource
    BY <1>1, <1>2, CommandFacts DEF ServiceInv, JobOK, ServiceTypeOK
  <2> QED BY <1>1, <1>2, <2>1, WithdrawFacts DEF ServiceInv, JobOK
<1>4. /\ \A u \in Train : u # t => cmd'[u] = cmd[u]
      /\ cmd'[t] = NoCommand
  BY <1>1, <1>2 DEF ServiceInv, ServiceTypeOK
<1>5. ~Present(t) /\ \A k \in 1..Len(queue) : queue[k].train # t
  BY <1>1, <1>2 DEF ServerInv, LoopsFit, Forgotten
<1>6. /\ RowsOnWay' /\ RevisionStored' /\ PendingLast' /\ AcceptedFit' /\ RoomToEnter'
      /\ \A i : /\ Pending(i)' <=> Pending(i)
                /\ Accepted(i)' <=> Accepted(i)
                /\ RowTrain(i)' = RowTrain(i)
      /\ \A r : AcceptedIn(r)' = AcceptedIn(r)
      /\ \A u : Present(u)' <=> Present(u)
  BY <1>1, <1>2, RowsSame
<1>7. CommandsFiled' /\ ActivesFiled'
  <2>1. CommandsFiled'
    BY <1>1, <1>2, <1>4 DEF ServerInv, FileInv, CommandsFiled, Issuing
  <2>2. ActivesFiled'
    BY <1>1, <1>2, <1>3, <1>6 DEF ServerInv, FileInv, ActivesFiled, Taken
  <2> QED BY <2>1, <2>2
<1>8. RestoredSoFar'
  BY <1>2 DEF RestoredSoFar
<1>9. PendingKnown'
  <2>1. \A i \in CommandIds : Pending(i) => RowTrain(i) \in Train
    <3>1. \A i \in CommandIds : rows[i] # NoRow => rows[i] \in Row
      BY <1>1 DEF ServiceInv, ServiceTypeOK
    <3> QED BY <3>1, RowFacts, CommandFacts DEF Pending, RowTrain
  <2> QED BY <1>1, <1>3, <1>4, <1>5, <1>6, <2>1 DEF ServerInv, PendingKnown
<1>10. LoopsFit'
  BY <1>1, <1>2, <1>6 DEF ServerInv, LoopsFit, Forgotten, Planned
<1>11. AllCounted'
  BY <1>1, <1>2, <1>3, <1>6 DEF ServerInv, CountInv, AllCounted, Counted, Taken
<1>12. ServerInv'
  BY <1>6, <1>7, <1>8, <1>9, <1>10, <1>11 DEF ServerInv, FileInv, CountInv
<1>13. /\ \A u \in Train : \A i : Actv(u, i)' <=> Actv(u, i)
       /\ \A u \in Train : \A i : u # t => (Pend(u, i)' <=> Pend(u, i))
       /\ \A i : ~Pend(t, i)'
  BY <1>2, <1>3, <1>4, <1>6 DEF Actv, Pend
<1>14. Reports(passages, finished, queue, Len(queue)) /\ KnowsSent
  BY DEF SafetyInv, ModInv
<1>15. Shifted(0) /\ Len(queue) \in Nat
  BY <1>1, <1>14, NothingShifted
<1>16. RowsKept
  BY <1>2 DEF RowsKept, StoredIds
<1>17. BackingKept(passages, queue, Len(queue), 0)
  <2>1. PICK n \in Nat : n = Len(queue)
    BY <1>15
  <2>2. PICK P : P = passages
    OBVIOUS
  <2>3. PICK q : q = queue
    OBVIOUS
  <2>4. Filed(P, q, n) /\ AcceptsBacked(q, n) /\ ReleasesBacked(P)
    BY <1>14, <2>1, <2>2, <2>3 DEF Reports
  <2>5. \A k \in 1..n : q[k].train \in Train /\ q[k].train # t
    BY <1>5, <2>1, <2>3, <2>4 DEF Filed
  <2>6. BackingKept(P, q, n, 0)
    BY <1>5, <1>6, <1>13, <1>16, <2>4, <2>5 DEF RowsKept, BackingKept, AcceptsBacked, ReleasesBacked
  <2> QED BY <2>1, <2>2, <2>3, <2>6
<1>18. InboxKept /\ PlacesKept /\ ClaimsApart'
  BY <1>3, <1>5, <1>13 DEF InboxKept, PlacesKept, ClaimsApart
<1> QED BY <1>1, <1>12, <1>15, <1>16, <1>17, <1>18, ServerKeepsMod DEF ServerKeeps

\* A transaction commits.
LEMMA Commits ==
    ASSUME SafetyInv, SafeConditions, NEW o \in Ending
    PROVE  o = "committed" /\ Succeeded(o) /\ Applied(o)
<1>1. Succeeded(o)
  BY DEF Ending, SafetyInv, SafeFaults
<1> QED BY <1>1 DEF Succeeded, Applied, SafeConditions

\* The train of a row.
LEMMA RowTrains ==
    ASSUME ServiceInv
    PROVE  \A i \in StoredIds : RowTrain(i) \in Train /\ i \in CommandIds /\ rows[i] \in Row
<1>1. \A i \in StoredIds : rows[i] \in Row /\ i \in CommandIds
  BY DEF ServiceInv, ServiceTypeOK, StoredIds
<1> QED BY <1>1, RowFacts, CommandFacts DEF RowTrain

\* The rows behind what the server knows.
LEMMA KnownRows ==
    ASSUME SafetyInv
    PROVE  /\ \A t \in Train : (cmd[t] # NoCommand /\ ~Issuing(t)) =>
                 /\ cmd[t].id \in CommandIds /\ cmd[t].id \in StoredIds /\ Pending(cmd[t].id)
                 /\ RowTrain(cmd[t].id) = t /\ rows[cmd[t].id].command = cmd[t]
           /\ \A t \in Train : act[t] # NoCommand =>
                 /\ act[t].id \in CommandIds /\ act[t].id \in StoredIds /\ Accepted(act[t].id)
                 /\ RowTrain(act[t].id) = t /\ rows[act[t].id].command = act[t]
<1>1. ServiceInv /\ FileInv
  BY DEF SafetyInv, SystemInv, ServerInv
<1>2. ASSUME NEW t \in Train, cmd[t] # NoCommand, ~Issuing(t)
      PROVE  /\ cmd[t].id \in CommandIds /\ cmd[t].id \in StoredIds /\ Pending(cmd[t].id)
             /\ RowTrain(cmd[t].id) = t /\ rows[cmd[t].id].command = cmd[t]
  <2>1. PICK d : d = cmd[t]
    OBVIOUS
  <2>2. d \in Command /\ d.train = t /\ d.id \in CommandIds
    BY <1>1, <1>2, <2>1, CommandFacts DEF ServiceInv, ServiceTypeOK, FiledByKey
  <2>3. PICK x : x = [command |-> d, status |-> "PENDING"]
    OBVIOUS
  <2>4. x \in Row /\ x.command = d /\ x.status = "PENDING"
    BY <2>2, <2>3 DEF Row, Statuses
  <2>5. rows[d.id] = x
    BY <1>1, <1>2, <2>1, <2>3 DEF FileInv, CommandsFiled
  <2>6. rows[d.id] # NoRow /\ rows[d.id].command = d /\ rows[d.id].status = "PENDING"
    BY <2>4, <2>5, RowFacts
  <2> QED BY <2>1, <2>2, <2>6 DEF Pending, StoredIds, RowTrain
<1>3. ASSUME NEW t \in Train, act[t] # NoCommand
      PROVE  /\ act[t].id \in CommandIds /\ act[t].id \in StoredIds /\ Accepted(act[t].id)
             /\ RowTrain(act[t].id) = t /\ rows[act[t].id].command = act[t]
  <2>1. PICK d : d = act[t]
    OBVIOUS
  <2>2. d \in Command /\ d.train = t /\ d.id \in CommandIds
    BY <1>1, <1>3, <2>1, CommandFacts DEF ServiceInv, ServiceTypeOK, FiledByKey
  <2>3. PICK x : x = [command |-> d, status |-> "ACCEPTED"]
    OBVIOUS
  <2>4. x \in Row /\ x.command = d /\ x.status = "ACCEPTED"
    BY <2>2, <2>3 DEF Row, Statuses
  <2>5. rows[d.id] = x
    BY <1>1, <1>3, <2>1, <2>3 DEF FileInv, ActivesFiled
  <2>6. rows[d.id] # NoRow /\ rows[d.id].command = d /\ rows[d.id].status = "ACCEPTED"
    BY <2>4, <2>5, RowFacts
  <2> QED BY <2>1, <2>2, <2>6 DEF Accepted, StoredIds, RowTrain
<1> QED BY <1>2, <1>3

\* The commands of a cycle are stored: what becomes of the rows.
CycleStored ==
    /\ job = "plan" /\ serving /\ job' = "idle" /\ handling' = {}
    /\ UNCHANGED <<cmd, act, serving, occupancy, revision, stored>>
    /\ \A i \in StoredIds : rows'[i] = rows[i] /\ i \in StoredIds'
    /\ \A i \in StoredIds' : i \notin StoredIds =>
          \E t \in handling : /\ i = cmd[t].id /\ rows'[i].command = cmd[t]
                              /\ rows'[i].status = "PENDING"
    /\ \A t \in handling : /\ cmd[t].id \in StoredIds' /\ cmd[t].id \notin StoredIds
                           /\ rows'[cmd[t].id] = [command |-> cmd[t], status |-> "PENDING"]

\* This is what the transaction at the end of a round does.
LEMMA PersistFacts ==
    ASSUME SafetyInv, SafeConditions, NEW o \in Ending, PersistCycle(o)
    PROVE  CycleStored
<1>1. Succeeded(o) /\ Applied(o) /\ ServiceInv
  BY Commits DEF SafetyInv, SystemInv
<1>2. PICK w : w = InsertCommands({cmd[t] : t \in handling})
  OBVIOUS
<1>3. /\ job = "plan" /\ job' = "idle" /\ handling' = {} /\ rows' = w
      /\ UNCHANGED <<cmd, act, serving, occupancy, revision, stored>>
  BY <1>1, <1>2 DEF PersistCycle, Unlock, managerVars, corridorVars, commandVars
<1>4. serving /\ handling \subseteq Train /\ \A t \in handling : cmd[t] # NoCommand
  BY <1>1, <1>3 DEF ServiceInv, JobOK, ServiceTypeOK
<1>5. /\ w \in [CommandIds -> Row \cup {NoRow}]
      /\ \A t \in handling : w[cmd[t].id] = [command |-> cmd[t], status |-> "PENDING"]
      /\ \A i \in CommandIds : (\A t \in handling : cmd[t].id # i) => w[i] = rows[i]
  BY <1>1, <1>2, <1>3, InsertFacts
<1>6. \A t \in handling : cmd[t] \in Command /\ cmd[t].id \in CommandIds /\ rows[cmd[t].id] = NoRow
  BY <1>1, <1>3, <1>4, CommandFacts DEF ServiceInv, ServiceTypeOK, CommandsStored
<1>7. \A t \in handling : /\ w[cmd[t].id] # NoRow /\ w[cmd[t].id].command = cmd[t]
                          /\ w[cmd[t].id].status = "PENDING"
  <2> SUFFICES ASSUME NEW t \in handling
               PROVE  /\ w[cmd[t].id] # NoRow /\ w[cmd[t].id].command = cmd[t]
                      /\ w[cmd[t].id].status = "PENDING"
    OBVIOUS
  <2>1. PICK d \in Command : d = cmd[t]
    BY <1>6
  <2>2. PICK x : x = [command |-> d, status |-> "PENDING"]
    OBVIOUS
  <2>3. x \in Row /\ x.command = d /\ x.status = "PENDING"
    BY <2>2 DEF Row, Statuses
  <2>4. w[cmd[t].id] = x
    BY <1>5, <2>1, <2>2
  <2> QED BY <2>1, <2>3, <2>4, RowFacts
<1>8. \A i \in StoredIds : rows'[i] = rows[i] /\ i \in StoredIds'
  BY <1>3, <1>5, <1>6 DEF StoredIds
<1>9. \A i \in StoredIds' : i \notin StoredIds =>
          \E t \in handling : /\ i = cmd[t].id /\ rows'[i].command = cmd[t]
                              /\ rows'[i].status = "PENDING"
  BY <1>3, <1>5, <1>7 DEF StoredIds
<1>10. \A t \in handling : /\ cmd[t].id \in StoredIds' /\ cmd[t].id \notin StoredIds
                           /\ rows'[cmd[t].id] = [command |-> cmd[t], status |-> "PENDING"]
  BY <1>3, <1>5, <1>6, <1>7 DEF StoredIds
<1> QED BY <1>3, <1>4, <1>8, <1>9, <1>10 DEF CycleStored

\* A train that gets a command now is seen outside, and the server waited
\* for no other command of it.
LEMMA IssuedTrain ==
    ASSUME SafetyInv, job = "plan", serving, NEW t \in handling
    PROVE  /\ t \in Train /\ cmd[t] # NoCommand /\ cmd[t].train = t /\ Present(t)
           /\ cmd[t].rev = revision /\ cmd[t].resource = Way[t]
           /\ SeenIn(t, "away") \/ SeenIn(t, "near")
           /\ occupancy[Way[t]] < Capacity
           /\ \A i \in StoredIds : i < cmd[t].id
           /\ \A i \in CommandIds : Pending(i) => RowTrain(i) # t
           /\ cmd[t].id \in CommandIds
<1>1. t \in Train /\ cmd[t] # NoCommand /\ cmd[t].train = t /\ cmd[t].id \in CommandIds
  BY CommandFacts DEF SafetyInv, SystemInv, ServiceInv, ServiceTypeOK, JobOK, FiledByKey
<1>2. /\ Outside(t) /\ occupancy[Way[t]] < Capacity /\ \A i \in StoredIds : i < cmd[t].id
  BY DEF SafetyInv, ServerInv, LoopsFit, Planned
<1>3. SeenIn(t, "away") \/ SeenIn(t, "near")
  BY <1>2 DEF Outside
<1>4. Present(t)
  BY <1>1, <1>3, ViewFacts DEF SeenIn, Present
<1>5. cmd[t].rev = revision /\ cmd[t].resource = Way[t]
  BY <1>1 DEF SafetyInv, ServerInv, FileInv, CommandsFiled
<1>6. ASSUME NEW i \in CommandIds, Pending(i), RowTrain(i) = t PROVE FALSE
  <2>1. cmd[t].id = i
    BY <1>4, <1>6 DEF SafetyInv, ServerInv, PendingKnown
  <2>2. i \in StoredIds
    BY <1>6 DEF Pending, StoredIds
  <2>3. i < i
    BY <1>2, <2>1, <2>2
  <2> QED BY <2>3 DEF CommandIds
<1> QED BY <1>1, <1>2, <1>3, <1>4, <1>5, <1>6

\* The rows after the cycle.
LEMMA CycleRows ==
    ASSUME SafetyInv, CycleStored
    PROVE  /\ \A i \in CommandIds : Accepted(i)' <=> Accepted(i)
           /\ \A i \in CommandIds : Accepted(i) => rows'[i] = rows[i]
           /\ \A i \in CommandIds : Pending(i) => Pending(i)' /\ rows'[i] = rows[i]
           /\ \A i \in CommandIds : Pending(i)' =>
                 Pending(i) \/ \E t \in handling : i = cmd[t].id /\ RowTrain(i)' = t
           /\ \A i \in StoredIds' : i \in CommandIds /\ (i \in StoredIds \/
                 \E t \in handling : i = cmd[t].id /\ RowTrain(i)' = t)
           /\ \A i \in StoredIds : RowTrain(i)' = RowTrain(i)
<1>1. /\ job = "plan" /\ serving
      /\ \A i \in StoredIds : rows'[i] = rows[i] /\ i \in StoredIds'
      /\ \A i \in StoredIds' : i \notin StoredIds =>
            \E t \in handling : /\ i = cmd[t].id /\ rows'[i].command = cmd[t]
                                /\ rows'[i].status = "PENDING"
  BY DEF CycleStored
<1>2. \A t \in handling : cmd[t].train = t
  BY <1>1, IssuedTrain
<1>3. \A i \in StoredIds' : i \notin StoredIds =>
            \E t \in handling : i = cmd[t].id /\ RowTrain(i)' = t /\ rows'[i].status = "PENDING"
  BY <1>1, <1>2 DEF RowTrain
<1>4. \A i \in CommandIds : /\ i \in StoredIds <=> rows[i] # NoRow
                            /\ i \in StoredIds' <=> rows'[i] # NoRow
  BY DEF StoredIds
<1>5. /\ \A i \in CommandIds : Accepted(i)' <=> Accepted(i)
      /\ \A i \in CommandIds : Accepted(i) => rows'[i] = rows[i]
  BY <1>1, <1>3, <1>4 DEF Accepted
<1>6. /\ \A i \in CommandIds : Pending(i) => Pending(i)' /\ rows'[i] = rows[i]
      /\ \A i \in CommandIds : Pending(i)' =>
            Pending(i) \/ \E t \in handling : i = cmd[t].id /\ RowTrain(i)' = t
  BY <1>1, <1>3, <1>4 DEF Pending
<1>7. \A i \in StoredIds : RowTrain(i)' = RowTrain(i)
  BY <1>1 DEF RowTrain
<1>8. StoredIds' \subseteq CommandIds
  BY DEF StoredIds
<1> QED BY <1>3, <1>5, <1>6, <1>7, <1>8

\* The files after the cycle.
LEMMA CycleKeepsFiles ==
    ASSUME SafetyInv, CycleStored, UNCHANGED gameVars
    PROVE  FileInv' /\ PendingKnown' /\ LoopsFit'
<1>1. /\ job = "plan" /\ serving /\ job' = "idle" /\ handling' = {} /\ serving'
      /\ UNCHANGED <<cmd, act, serving, occupancy, revision, stored>>
      /\ \A i \in StoredIds : rows'[i] = rows[i] /\ i \in StoredIds'
      /\ \A t \in handling : /\ cmd[t].id \in StoredIds' /\ cmd[t].id \notin StoredIds
                             /\ rows'[cmd[t].id] = [command |-> cmd[t], status |-> "PENDING"]
      /\ \A i \in StoredIds' : i \notin StoredIds =>
            \E t \in handling : /\ i = cmd[t].id /\ rows'[i].command = cmd[t]
                                /\ rows'[i].status = "PENDING"
  BY DEF CycleStored
<1>2. ServiceInv /\ ServerInv
  BY DEF SafetyInv, SystemInv
<1>3. /\ \A i \in CommandIds : Accepted(i)' <=> Accepted(i)
      /\ \A i \in CommandIds : Pending(i) => Pending(i)' /\ rows'[i] = rows[i]
      /\ \A i \in CommandIds : Pending(i)' =>
            Pending(i) \/ \E t \in handling : i = cmd[t].id /\ RowTrain(i)' = t
      /\ \A i \in StoredIds' : i \in CommandIds /\ (i \in StoredIds \/
            \E t \in handling : i = cmd[t].id /\ RowTrain(i)' = t)
      /\ \A i \in StoredIds : RowTrain(i)' = RowTrain(i)
  BY CycleRows
<1>4. \A t \in handling : /\ t \in Train /\ cmd[t] # NoCommand /\ cmd[t].train = t
                          /\ cmd[t].rev = revision /\ cmd[t].resource = Way[t]
                          /\ \A i \in StoredIds : i < cmd[t].id
                          /\ \A i \in CommandIds : Pending(i) => RowTrain(i) # t
                          /\ cmd[t].id \in CommandIds
  BY <1>1, IssuedTrain
<1>5. \A i \in CommandIds : /\ i \in StoredIds <=> rows[i] # NoRow
                            /\ i \in StoredIds' <=> rows'[i] # NoRow
  BY DEF StoredIds
<1>6. \A i \in CommandIds : Pending(i) => i \in StoredIds
  BY DEF Pending, StoredIds
<1>7. RowsOnWay' /\ RevisionStored'
  <2>1. RevisionStored'
    BY <1>1, <1>2 DEF ServerInv, FileInv, RevisionStored
  <2>2. ASSUME NEW i \in CommandIds, rows'[i] # NoRow
        PROVE  rows'[i].command.resource = Way[RowTrain(i)'] /\ rows'[i].command.rev <= revision
    <3>1. CASE i \in StoredIds
      BY <1>1, <1>2, <1>3, <1>5, <3>1 DEF ServerInv, FileInv, RowsOnWay
    <3>2. CASE i \notin StoredIds
      <4>1. PICK t \in handling : i = cmd[t].id /\ rows'[i].command = cmd[t]
        BY <1>1, <1>5, <2>2, <3>2
      <4>2. revision \in Nat
        BY <1>2 DEF ServiceInv, ServiceTypeOK
      <4> QED BY <1>4, <4>1, <4>2 DEF RowTrain
    <3> QED BY <3>1, <3>2
  <2> QED BY <1>1, <2>1, <2>2 DEF RowsOnWay
<1>8. CommandsFiled'
  <2> SUFFICES ASSUME NEW t \in Train, cmd[t] # NoCommand
               PROVE  /\ cmd[t].rev = revision /\ cmd[t].resource = Way[t]
                      /\ rows'[cmd[t].id] = [command |-> cmd[t], status |-> "PENDING"]
    BY <1>1 DEF CommandsFiled
  <2>1. CASE t \in handling
    BY <1>1, <1>4, <2>1
  <2>2. CASE t \notin handling
    <3>1. /\ cmd[t].rev = revision /\ cmd[t].resource = Way[t]
          /\ rows[cmd[t].id] = [command |-> cmd[t], status |-> "PENDING"]
      BY <1>2, <2>2 DEF ServerInv, FileInv, CommandsFiled, Issuing
    <3>2. cmd[t].id \in StoredIds
      BY <2>2, KnownRows DEF Issuing
    <3> QED BY <1>1, <3>1, <3>2
  <2> QED BY <2>1, <2>2
<1>9. ActivesFiled'
  <2> SUFFICES ASSUME NEW t \in Train, act[t] # NoCommand
               PROVE  /\ act[t].rev = revision
                      /\ rows'[act[t].id] = [command |-> act[t], status |-> "ACCEPTED"]
                      /\ \A j \in CommandIds : (Accepted(j)' /\ RowTrain(j)' = t) => j <= act[t].id
    BY <1>1 DEF ActivesFiled
  <2>1. act[t].id \in StoredIds
    BY KnownRows
  <2>2. act[t].rev = revision /\ rows[act[t].id] = [command |-> act[t], status |-> "ACCEPTED"]
    BY <1>2 DEF ServerInv, FileInv, ActivesFiled
  <2>3. ASSUME NEW j \in CommandIds, Accepted(j)', RowTrain(j)' = t PROVE j <= act[t].id
    <3>1. Accepted(j) /\ j \in StoredIds /\ RowTrain(j) = t
      BY <1>3, <2>3 DEF Accepted, StoredIds
    <3> QED BY <1>1, <1>2, <3>1 DEF ServerInv, FileInv, ActivesFiled, Taken
  <2> QED BY <1>1, <2>1, <2>2, <2>3
<1>10. PendingLast'
  <2> SUFFICES ASSUME NEW i \in CommandIds, NEW j \in CommandIds, Pending(i)', rows'[j] # NoRow,
                      RowTrain(j)' = RowTrain(i)'
               PROVE  j <= i
    BY DEF PendingLast
  <2>1. j \in StoredIds'
    BY <1>5
  <2>2. i \in Nat /\ j \in Nat
    BY DEF CommandIds
  <2>3. CASE Pending(i)
    <3>1. RowTrain(i)' = RowTrain(i) /\ i \in StoredIds
      BY <1>3, <1>6, <2>3
    <3>2. CASE j \in StoredIds
      <4>1. RowTrain(j) = RowTrain(i) /\ rows[j] # NoRow
        BY <1>3, <1>5, <3>1, <3>2
      <4> QED BY <1>2, <2>3, <4>1 DEF ServerInv, FileInv, PendingLast
    <3>3. CASE \E t \in handling : j = cmd[t].id /\ RowTrain(j)' = t
      BY <1>4, <2>3, <3>1, <3>3
    <3> QED BY <1>3, <2>1, <3>2, <3>3
  <2>4. CASE \E t \in handling : i = cmd[t].id /\ RowTrain(i)' = t
    <3>1. PICK t \in handling : i = cmd[t].id /\ RowTrain(i)' = t
      BY <2>4
    <3>2. CASE j \in StoredIds
      <4>1. j < i
        BY <1>4, <3>1, <3>2
      <4> QED BY <2>2, <4>1
    <3>3. CASE \E u \in handling : j = cmd[u].id /\ RowTrain(j)' = u
      BY <2>2, <3>1, <3>3
    <3> QED BY <1>3, <2>1, <3>2, <3>3
  <2> QED BY <1>3, <2>3, <2>4
<1>11. PendingKnown'
  <2>1. \A u : Present(u)' <=> Present(u)
    BY DEF Present, gameVars, modVars
  <2> SUFFICES ASSUME NEW i \in CommandIds, Pending(i)', Present(RowTrain(i)')
               PROVE  cmd[RowTrain(i)'] # NoCommand /\ cmd[RowTrain(i)'].id = i
    BY <1>1, <2>1 DEF PendingKnown
  <2>2. CASE Pending(i)
    <3>1. RowTrain(i)' = RowTrain(i)
      BY <1>3, <1>6, <2>2
    <3> QED BY <1>1, <1>2, <2>2, <3>1 DEF ServerInv, PendingKnown
  <2>3. CASE \E t \in handling : i = cmd[t].id /\ RowTrain(i)' = t
    BY <1>4, <2>3
  <2> QED BY <1>3, <2>2, <2>3
<1>12. RestoredSoFar' /\ LoopsFit'
  BY <1>1 DEF RestoredSoFar, LoopsFit, Forgotten, Planned
<1> QED BY <1>7, <1>8, <1>9, <1>10, <1>11, <1>12 DEF FileInv

\* The count after the cycle: nothing is accepted by it, and there is room
\* for the trains it lets in.
LEMMA CycleKeepsCount ==
    ASSUME SafetyInv, CycleStored, UNCHANGED gameVars
    PROVE  CountInv'
<1>1. /\ job = "plan" /\ serving /\ serving' /\ UNCHANGED <<occupancy, revision, queue, snapshot>>
  BY DEF CycleStored, gameVars, modVars
<1>2. /\ \A i \in CommandIds : Accepted(i)' <=> Accepted(i)
      /\ \A i \in CommandIds : Accepted(i) => rows'[i] = rows[i]
      /\ \A i \in CommandIds : Pending(i) => Pending(i)' /\ rows'[i] = rows[i]
      /\ \A i \in CommandIds : Pending(i)' =>
            Pending(i) \/ \E t \in handling : i = cmd[t].id /\ RowTrain(i)' = t
  BY CycleRows
<1>3. \A r : AcceptedIn(r)' = AcceptedIn(r)
  BY <1>1, <1>2 DEF AcceptedIn
<1>4. \A r : Counted(r) = AcceptedIn(r) /\ Counted(r)' = AcceptedIn(r)'
  BY <1>1 DEF Counted, AcceptedIn, Taken
<1>5. CountInv
  BY DEF SafetyInv, ServerInv
<1>6. AllCounted' /\ AcceptedFit'
  BY <1>1, <1>3, <1>4, <1>5 DEF CountInv, AllCounted, AcceptedFit
<1>7. /\ \A u : Present(u)' <=> Present(u)
      /\ \A i : AcceptBefore(queue, Len(queue), i)' <=> AcceptBefore(queue, Len(queue), i)
  BY <1>1 DEF Present, AcceptBefore
<1>8. RoomToEnter'
  <2> SUFFICES ASSUME NEW i \in CommandIds, Pending(i)',
                      Present(RowTrain(i)') \/ AcceptBefore(queue, Len(queue), i)
               PROVE  Cardinality(AcceptedIn(Way[RowTrain(i)'])) < Capacity
    BY <1>3, <1>7 DEF RoomToEnter
  <2>1. CASE Pending(i)
    <3>1. RowTrain(i)' = RowTrain(i)
      BY <1>2, <2>1 DEF RowTrain
    <3> QED BY <1>5, <2>1, <3>1 DEF CountInv, RoomToEnter
  <2>2. CASE \E t \in handling : i = cmd[t].id /\ RowTrain(i)' = t
    <3>1. PICK t \in handling : RowTrain(i)' = t
      BY <2>2
    <3>2. t \in Train /\ occupancy[Way[t]] < Capacity
      BY <1>1, IssuedTrain
    <3>3. Way[t] \in Resource
      BY <3>2, SystemAssumptions
    <3>4. Cardinality(AcceptedIn(Way[t])) <= occupancy[Way[t]]
      BY <1>4, <1>5, <3>3 DEF CountInv, AllCounted
    <3>5. /\ Cardinality(AcceptedIn(Way[t])) \in Nat /\ occupancy[Way[t]] \in Nat
          /\ Capacity \in Nat
      BY <3>3, AcceptedFinite, PolicyAssumptions
         DEF SafetyInv, SystemInv, ServiceInv, ManagerInv, ManagerTypeOK
    <3> QED BY <3>1, <3>2, <3>4, <3>5
  <2> QED BY <1>2, <2>1, <2>2
<1> QED BY <1>6, <1>8 DEF CountInv

\* The mod after the cycle: the server waits for more commands than before,
\* but for none of a train inside.
LEMMA CycleKeepsMod ==
    ASSUME SafetyInv, CycleStored, UNCHANGED gameVars
    PROVE  ModInv'
<1>1. /\ job = "plan" /\ serving /\ serving' /\ UNCHANGED <<cmd, act>>
      /\ UNCHANGED <<place, ticked, modVars, queue, snapshot, passages>>
      /\ \A i \in StoredIds : rows'[i] = rows[i] /\ i \in StoredIds'
  BY DEF CycleStored, gameVars, modVars
<1>2. /\ \A i \in CommandIds : Accepted(i)' <=> Accepted(i)
      /\ \A i \in CommandIds : Accepted(i) => rows'[i] = rows[i]
      /\ \A i \in CommandIds : Pending(i) => Pending(i)' /\ rows'[i] = rows[i]
      /\ \A i \in CommandIds : Pending(i)' =>
            Pending(i) \/ \E t \in handling : i = cmd[t].id /\ RowTrain(i)' = t
      /\ \A i \in StoredIds : RowTrain(i)' = RowTrain(i)
  BY CycleRows
<1>3. \A i \in CommandIds : Accepted(i) \/ Pending(i) => RowTrain(i)' = RowTrain(i)
  BY <1>2 DEF RowTrain
<1>4. /\ \A t, i : Pend(t, i) => Pend(t, i)'
      /\ \A t, i : Actv(t, i)' <=> Actv(t, i)
  BY <1>1, <1>2, <1>3 DEF Pend, Actv
<1>5. Reports(passages, finished, queue, Len(queue)) /\ KnowsSent /\ SnapshotFits
      /\ \A t \in Train : PlaceFits(passages, t)
  BY DEF SafetyInv, ModInv
<1>6. Shifted(0) /\ Len(queue) \in Nat /\ RowsKept
  BY <1>1, <1>5, NothingShifted DEF RowsKept
<1>7. BackingKept(passages, queue, Len(queue), 0)
  <2>1. PICK n \in Nat : n = Len(queue)
    BY <1>6
  <2>2. PICK P : P = passages
    OBVIOUS
  <2>3. PICK q : q = queue
    OBVIOUS
  <2>4. AcceptsBacked(q, n) /\ ReleasesBacked(P)
    BY <1>5, <2>1, <2>2, <2>3 DEF Reports
  <2>5. \A u : Present(u)' <=> Present(u)
    BY <1>1 DEF Present
  <2>6. BackingKept(P, q, n, 0)
    BY <1>1, <1>2, <1>4, <2>4, <2>5 DEF BackingKept, AcceptsBacked, ReleasesBacked
  <2> QED BY <2>1, <2>2, <2>3, <2>6
<1>8. InboxKept
  BY <1>4 DEF InboxKept
<1>9. PlacesKept
  <2> SUFFICES ASSUME NEW t \in Train, NEW j \in CommandIds, place[t] = "inside", Pend(t, j)'
               PROVE  Pend(t, j)
    BY DEF PlacesKept
  <2>1. Pending(j)' /\ RowTrain(j)' = t /\ cmd[t] # NoCommand /\ cmd[t].id = j
    BY <1>1 DEF Pend
  <2>2. CASE Pending(j)
    BY <1>3, <2>1, <2>2 DEF Pend
  <2>3. CASE t \in handling
    <3>1. /\ Present(t) /\ t \in Train
          /\ SeenIn(t, "away") \/ SeenIn(t, "near")
          /\ \A i \in CommandIds : Pending(i) => RowTrain(i) # t
      BY <1>1, <2>3, IssuedTrain
    <3>2. SeenIn(t, "near")
      <4>1. SeenIn(t, "near") \/ SeenIn(t, "inside")
        BY <1>5 DEF SnapshotFits
      <4> QED BY <3>1, <4>1, ViewFacts DEF SeenIn
    <3>3. passages[t] # NoPassage /\ ~Entry(passages, t)
      BY <1>5, <3>2 DEF PlaceFits
    <3>4. ReleasesBacked(passages)
      BY <1>5 DEF Reports
    <3>5. Pend(t, passages[t].command.id)
      BY <3>1, <3>3, <3>4 DEF ReleasesBacked, Entry
    <3> QED BY <3>1, <3>5 DEF Pend
  <2> QED BY <1>2, <2>1, <2>2, <2>3
<1>10. ClaimsApart'
  BY <1>1 DEF ClaimsApart
<1> QED BY <1>1, <1>6, <1>7, <1>8, <1>9, <1>10, ServerKeepsMod DEF ServerKeeps

\* The commands of a cycle are stored.
LEMMA PersistCycleKeeps ==
    ASSUME SafetyInv, SafeConditions, NEW o \in Ending, PersistCycle(o), UNCHANGED gameVars
    PROVE  ServerInv' /\ ModInv'
BY PersistFacts, CycleKeepsFiles, CycleKeepsCount, CycleKeepsMod DEF ServerInv

-----------------------------------------------------------------------------
(* Recovery, restarts and new routes.                                      *)

\* A step that takes nothing back keeps what the mod relies on.
LEMMA MoreBackedKeepsMod ==
    ASSUME SafetyInv, UNCHANGED gameVars, UNCHANGED rows,
           \A t \in Train : \A i : Pend(t, i) => Pend(t, i)',
           \A t \in Train : \A i : Actv(t, i) => Actv(t, i)',
           PlacesKept, ClaimsApart'
    PROVE  ModInv'
<1>1. UNCHANGED <<place, ticked, modVars, queue>> /\ UNCHANGED <<passages, snapshot>>
  BY DEF gameVars, modVars
<1>2. \A u : Present(u)' <=> Present(u)
  BY <1>1 DEF Present
<1>3. RowsKept /\ \A i : RowTrain(i)' = RowTrain(i)
  BY DEF RowsKept, StoredIds, RowTrain
<1>4. Reports(passages, finished, queue, Len(queue)) /\ KnowsSent
  BY DEF SafetyInv, ModInv
<1>5. Shifted(0) /\ Len(queue) \in Nat
  BY <1>1, <1>4, NothingShifted
<1>6. BackingKept(passages, queue, Len(queue), 0)
  <2>1. PICK n \in Nat : n = Len(queue)
    BY <1>5
  <2>2. PICK P : P = passages
    OBVIOUS
  <2>3. PICK q : q = queue
    OBVIOUS
  <2>4. Filed(P, q, n) /\ AcceptsBacked(q, n) /\ ReleasesBacked(P)
    BY <1>4, <2>1, <2>2, <2>3 DEF Reports
  <2>5. \A k \in 1..n : q[k].train \in Train
    BY <2>4 DEF Filed
  <2>6. BackingKept(P, q, n, 0)
    BY <1>2, <1>3, <2>4, <2>5 DEF RowsKept, BackingKept, AcceptsBacked, ReleasesBacked
  <2> QED BY <2>1, <2>2, <2>3, <2>6
<1>7. InboxKept
  BY DEF InboxKept
<1> QED BY <1>1, <1>3, <1>5, <1>6, <1>7, ServerKeepsMod DEF ServerKeeps

\* The recovery is over: all rows are taken over, and the server knows of
\* each train what the database says.
LEMMA RecoveryDoneKeeps ==
    ASSUME SafetyInv, SafeConditions, RecoveryDone, UNCHANGED gameVars
    PROVE  ServerInv' /\ ModInv'
<1>1. /\ job = "restoreActive" /\ job' = "idle" /\ handling' = {} /\ ~serving /\ serving'
      /\ UNCHANGED <<cmd, act, occupancy, rows, revision, stored, snapshot, queue>>
      /\ Unrestored = {}
  BY DEF RecoveryDone, Unlock, StartServing, corridorVars, databaseVars, gameVars, modVars
<1>2. ServerInv /\ ServiceInv /\ FileInv
  BY DEF SafetyInv, SystemInv, ServerInv
<1>3. \A i \in CommandIds : Accepted(i) => i <= cursor
  <2> SUFFICES ASSUME NEW i \in CommandIds, Accepted(i) PROVE i <= cursor
    OBVIOUS
  <2>1. i \in RecoveredIds("ACCEPTED")
    BY DEF RecoveredIds, SafeConditions, Accepted
  <2>2. ~(i > cursor)
    BY <1>1, <2>1 DEF Unrestored
  <2> QED BY <1>2, <2>2 DEF ServiceInv, ServiceTypeOK, CommandIds
<1>4. /\ \A i \in CommandIds : Accepted(i) => Taken(i)
      /\ \A i : Taken(i)' /\ \A t : ~Issuing(t) /\ ~Issuing(t)'
  BY <1>1, <1>3 DEF Taken, Issuing
<1>5. /\ \A i \in CommandIds : Pending(i) => cmd[RowTrain(i)] # NoCommand
      /\ \A i \in CommandIds : Accepted(i) => act[RowTrain(i)] # NoCommand
  BY <1>1, <1>2, <1>3 DEF FileInv, RestoredSoFar
<1>6. \A i \in CommandIds : Pending(i) \/ Accepted(i) => RowTrain(i) \in Train
  BY <1>2, RowTrains DEF Pending, Accepted, StoredIds
<1>7. \A i \in CommandIds : Pending(i) => cmd[RowTrain(i)].id = i
  <2> SUFFICES ASSUME NEW i \in CommandIds, Pending(i), NEW t, t = RowTrain(i)
               PROVE  cmd[t].id = i
    OBVIOUS
  <2>1. cmd[t] # NoCommand /\ t \in Train
    BY <1>5, <1>6
  <2>2. PICK j : j = cmd[t].id
    OBVIOUS
  <2>3. j \in CommandIds /\ Pending(j) /\ RowTrain(j) = t
    BY <1>4, <2>1, <2>2, KnownRows
  <2>4. i <= j /\ j <= i
    BY <1>2, <2>3 DEF FileInv, PendingLast, Pending
  <2> QED BY <2>2, <2>3, <2>4 DEF CommandIds
<1>8. ASSUME NEW t \in Train, NEW i, Actv(t, i) PROVE act[t] # NoCommand /\ act[t].id = i
  <2>1. i \in CommandIds /\ Accepted(i) /\ RowTrain(i) = t
    BY <1>8 DEF Actv
  <2>2. act[t] # NoCommand
    BY <1>5, <2>1
  <2>3. PICK j : j = act[t].id
    OBVIOUS
  <2>4. j \in CommandIds /\ Accepted(j) /\ RowTrain(j) = t
    BY <2>2, <2>3, KnownRows
  <2>5. i <= j
    BY <1>2, <1>4, <2>1, <2>2, <2>3 DEF FileInv, ActivesFiled
  <2>6. j <= i
    BY <1>8, <2>4 DEF Actv
  <2> QED BY <2>1, <2>2, <2>3, <2>4, <2>5, <2>6 DEF CommandIds
<1>9. /\ RowsOnWay' /\ RevisionStored' /\ PendingLast' /\ AcceptedFit' /\ RoomToEnter'
      /\ \A i : /\ Pending(i)' <=> Pending(i)
                /\ Accepted(i)' <=> Accepted(i)
                /\ RowTrain(i)' = RowTrain(i)
      /\ \A r : AcceptedIn(r)' = AcceptedIn(r)
  BY <1>1, <1>2, RowsSame
<1>10. CommandsFiled'
  BY <1>1, <1>2, <1>4 DEF FileInv, CommandsFiled
<1>11. ActivesFiled'
  BY <1>1, <1>2, <1>4, <1>9 DEF FileInv, ActivesFiled
<1>12. RestoredSoFar' /\ LoopsFit'
  BY <1>1 DEF RestoredSoFar, LoopsFit, Forgotten, Planned
<1>13. PendingKnown'
  BY <1>1, <1>5, <1>7, <1>9 DEF PendingKnown
<1>14. AllCounted'
  <2>1. \A r : Counted(r)' = Counted(r)
    BY <1>4, <1>9 DEF Counted, AcceptedIn
  <2> QED BY <1>1, <1>2, <2>1 DEF ServerInv, CountInv, AllCounted
<1>15. ServerInv'
  BY <1>9, <1>10, <1>11, <1>12, <1>13, <1>14 DEF ServerInv, FileInv, CountInv
<1>16. \A t \in Train : \A i : Pend(t, i)' <=> Pend(t, i)
  BY <1>1, <1>5, <1>7, <1>9 DEF Pend
<1>17. \A t \in Train : \A i : Actv(t, i) => Actv(t, i)'
  BY <1>1, <1>8, <1>9 DEF Actv
<1>18. PlacesKept /\ ClaimsApart'
  BY <1>1, <1>16 DEF PlacesKept, ClaimsApart
<1> QED BY <1>1, <1>15, <1>16, <1>17, <1>18, MoreBackedKeepsMod

\* What the server waits for, or has counted, blocks the resource on the way
\* of the train.
LEMMA BackedBusy ==
    ASSUME SafetyInv, serving, NEW t \in Train, NEW i, Pend(t, i) \/ Actv(t, i)
    PROVE  Busy(Way[t])
<1>1. Way[t] \in Resource
  BY SystemAssumptions
<1>2. ServiceInv /\ FileInv /\ CountInv
  BY DEF SafetyInv, SystemInv, ServerInv
<1>3. CASE Pend(t, i)
  <2>1. cmd[t] # NoCommand /\ cmd[t].resource = Way[t]
    BY <1>2, <1>3 DEF Pend, FileInv, CommandsFiled
  <2>2. pendingDecision[Way[t]] # NoDecision
    BY <1>2, <2>1 DEF ServiceInv, CommandsAnswerable
  <2>3. commandPending[Way[t]]
    BY <1>1, <1>2, <2>2 DEF ServiceInv, ManagerInv, PendingMatchesDecision
  <2> QED BY <2>3 DEF Busy
<1>4. CASE Actv(t, i)
  <2>1. act[t] # NoCommand /\ act[t].id = i
    BY <1>4 DEF Actv
  <2>2. i \in CommandIds /\ Accepted(i) /\ RowTrain(i) = t /\ rows[i].command = act[t]
    BY <2>1, KnownRows
  <2>3. rows[i].command.resource = Way[t] /\ rows[i].command.rev = revision
    BY <1>2, <2>1, <2>2 DEF FileInv, RowsOnWay, ActivesFiled, Accepted
  <2>4. i \in Counted(Way[t])
    BY <2>2, <2>3 DEF Counted, AcceptedIn, Taken
  <2>5. Cardinality(Counted(Way[t])) # 0 /\ Cardinality(Counted(Way[t])) \in Nat
    BY <2>4, AcceptedFinite, FS_EmptySet
  <2>6. Cardinality(Counted(Way[t])) <= occupancy[Way[t]] /\ occupancy[Way[t]] \in Nat
    BY <1>1, <1>2, PolicyAssumptions DEF CountInv, AllCounted, ServiceInv, ManagerInv, ManagerTypeOK
  <2>7. occupancy[Way[t]] > 0
    BY <2>5, <2>6
  <2> QED BY <2>7 DEF Busy
<1> QED BY <1>3, <1>4

\* A train that is inside has been seen.
LEMMA InsidePresent ==
    ASSUME SnapshotFits, NEW t \in Train, place[t] = "inside"
    PROVE  Present(t)
<1>1. CASE snapshot # NoSnapshot
  <2>1. SeenIn(t, "near") \/ SeenIn(t, "inside")
    BY <1>1 DEF SnapshotFits
  <2> QED BY <2>1, ViewFacts DEF SeenIn, Present
<1> QED BY <1>1 DEF Present

\* No two trains that may be inside are opposed.
LEMMA ServingClaimsApart ==
    ASSUME SafetyInv, serving, NEW t \in Train, NEW u \in Train,
           Claim(passages, t), Claim(passages, u)
    PROVE  Way[t] # Opposite(Way[u])
<1>1. ASSUME NEW v \in Train, Claim(passages, v) PROVE Busy(Way[v])
  <2>1. CASE Entry(passages, v)
    <3>1. Reports(passages, finished, queue, Len(queue)) /\ passages[v] # NoPassage
      BY <2>1 DEF SafetyInv, ModInv, Entry
    <3>2. PICK i : i = passages[v].command.id
      OBVIOUS
    <3>3. Pend(v, i) \/ Actv(v, i)
      BY <2>1, <3>1, <3>2, PassageBacked
    <3> QED BY <3>3, BackedBusy
  <2>2. CASE Present(v) /\ \E i \in CommandIds : Pending(i) /\ RowTrain(i) = v
    <3>1. PICK i \in CommandIds : Pending(i) /\ RowTrain(i) = v
      BY <2>2
    <3>2. Pend(v, i)
      BY <2>2, <3>1 DEF SafetyInv, ServerInv, PendingKnown, Pend
    <3> QED BY <3>2, BackedBusy
  <2> QED BY <1>1, <2>1, <2>2 DEF Claim
<1>2. Busy(Way[t]) /\ Busy(Way[u]) /\ Way[u] \in Resource
  BY <1>1, SystemAssumptions
<1>3. ~(Busy(Way[u]) /\ Busy(Opposite(Way[u])))
  BY <1>2 DEF SafetyInv, SystemInv, ServiceInv, ManagerInv, DirectionInterlock
<1> QED BY <1>2, <1>3

\* The server restarts: it knows nothing, and the database everything.
LEMMA RestartKeeps ==
    ASSUME SafetyInv, SafeConditions, SystemRestart
    PROVE  ServerInv' /\ ModInv'
<1>1. ServerInv /\ ServiceInv /\ FileInv
  BY DEF SafetyInv, SystemInv, ServerInv
<1>2. /\ serving /\ job = "idle" /\ ~serving' /\ job' = "restorePending" /\ cursor' = 0
      /\ handling' = {} /\ UNCHANGED gameVars
      /\ UNCHANGED <<rows, stored, snapshot, queue, passages, place>>
      /\ \A t \in Train : cmd'[t] = NoCommand /\ act'[t] = NoCommand
      /\ \A r \in Resource : occupancy'[r] = 0
  BY DEF SystemRestart, Idle, Restart, FreshProcess, RebuildDispatchManager, databaseVars,
         gameVars, modVars
<1>3. revision' = revision
  BY <1>1 DEF SystemRestart, Restart, FreshProcess, SafeConditions, FileInv, RevisionStored
<1>4. /\ RowsOnWay' /\ RevisionStored' /\ PendingLast' /\ AcceptedFit' /\ RoomToEnter'
      /\ \A i : /\ Pending(i)' <=> Pending(i)
                /\ Accepted(i)' <=> Accepted(i)
                /\ RowTrain(i)' = RowTrain(i)
      /\ \A r : AcceptedIn(r)' = AcceptedIn(r)
      /\ \A u : Present(u)' <=> Present(u)
  BY <1>1, <1>2, <1>3, RowsSame
<1>5. CommandsFiled' /\ ActivesFiled'
  BY <1>2 DEF CommandsFiled, ActivesFiled
<1>6. RestoredSoFar' /\ LoopsFit' /\ PendingKnown'
  BY <1>2 DEF RestoredSoFar, LoopsFit, Forgotten, Planned, PendingKnown, CommandIds
<1>7. AllCounted'
  <2>1. \A r : Counted(r)' = {}
    BY <1>2 DEF Counted, Taken
  <2> QED BY <1>2, <2>1, FS_EmptySet DEF AllCounted
<1>8. ServerInv'
  BY <1>4, <1>5, <1>6, <1>7 DEF ServerInv, FileInv, CountInv
<1>9. /\ \A t \in Train : \A i : Pend(t, i) => Pend(t, i)'
      /\ \A t \in Train : \A i : Actv(t, i) => Actv(t, i)'
  BY <1>2, <1>4 DEF Pend, Actv
<1>10. PlacesKept
  <2> SUFFICES ASSUME NEW t \in Train, NEW j \in CommandIds, place[t] = "inside", Pend(t, j)'
               PROVE  Pend(t, j)
    BY DEF PlacesKept
  <2>1. Pending(j) /\ RowTrain(j) = t
    BY <1>4 DEF Pend
  <2>2. Present(t)
    BY InsidePresent DEF SafetyInv, ModInv
  <2> QED BY <1>1, <1>2, <2>1, <2>2 DEF ServerInv, PendingKnown, Pend
<1>11. ClaimsApart'
  <2>1. \A t \in Train : Claim(passages, t)' <=> Claim(passages, t)
    BY <1>2, <1>4 DEF Claim, Entry
  <2> QED BY <1>2, <2>1, ServingClaimsApart DEF ClaimsApart
<1> QED BY <1>2, <1>8, <1>9, <1>10, <1>11, MoreBackedKeepsMod

\* The routes are replaced while nothing is under way: no row counts any more.
LEMMA UploadRoutesKeeps ==
    ASSUME SafetyInv, SafeConditions, NEW o \in Ending, UploadRoutes(o)
    PROVE  ServerInv' /\ ModInv'
<1>1. ServerInv /\ ServiceInv /\ FileInv
  BY DEF SafetyInv, SystemInv, ServerInv
<1>2. Applied(o)
  BY Commits
<1>3. /\ serving /\ job = "idle" /\ job' = "idle" /\ handling' = handling
      /\ revision' = revision + 1 /\ stored' = revision + 1
      /\ UNCHANGED gameVars /\ UNCHANGED <<rows, cmd, act, serving, snapshot, queue>>
      /\ \A t \in Train : cmd[t] = NoCommand /\ act[t] = NoCommand
      /\ \A r \in Resource : occupancy'[r] = 0
  BY <1>2 DEF UploadRoutes, Idle, ReplaceRoutes, RebuildDispatchManager, PersistTopology,
              commandVars, jobVars, gameVars, modVars
<1>4. /\ \A i : Pending(i)' <=> Pending(i)
      /\ \A i : Accepted(i)' <=> Accepted(i)
      /\ \A i : RowTrain(i)' = RowTrain(i)
      /\ \A u : Present(u)' <=> Present(u)
  BY <1>3 DEF Pending, Accepted, RowTrain, Present
<1>5. revision \in Nat /\ \A i \in StoredIds : rows[i].command.rev \in Nat
  <2>1. \A i \in StoredIds : rows[i].command \in Command
    BY <1>1, RowTrains, RowFacts
  <2> QED BY <1>1, <2>1, CommandFacts DEF ServiceInv, ServiceTypeOK
<1>6. RowsOnWay' /\ RevisionStored'
  <2>1. RevisionStored'
    BY <1>1, <1>3, <1>5 DEF FileInv, RevisionStored
  <2>2. ASSUME NEW i \in CommandIds, rows[i] # NoRow
        PROVE  rows[i].command.resource = Way[RowTrain(i)] /\ rows[i].command.rev <= revision + 1
    <3>1. rows[i].command.rev \in Nat
      BY <1>5, <2>2 DEF StoredIds
    <3> QED BY <1>1, <1>5, <2>2, <3>1 DEF FileInv, RowsOnWay
  <2> QED BY <1>3, <1>4, <2>1, <2>2 DEF RowsOnWay
<1>7. CommandsFiled' /\ ActivesFiled'
  BY <1>3 DEF CommandsFiled, ActivesFiled
<1>8. PendingLast'
  BY <1>1, <1>3, <1>4 DEF FileInv, PendingLast
<1>9. RestoredSoFar' /\ LoopsFit'
  BY <1>3 DEF RestoredSoFar, LoopsFit, Forgotten, Planned
<1>10. PendingKnown'
  BY <1>1, <1>3, <1>4 DEF ServerInv, PendingKnown
<1>11. \A r : AcceptedIn(r)' = {}
  <2> SUFFICES ASSUME NEW r, NEW i \in CommandIds, Accepted(i), rows[i].command.rev = revision + 1
               PROVE  FALSE
    BY <1>3, <1>4 DEF AcceptedIn
  <2>1. rows[i].command.rev <= revision
    BY <1>1 DEF FileInv, RowsOnWay, Accepted
  <2> QED BY <1>5, <2>1
<1>12. \A r : Counted(r)' = {}
  BY <1>11 DEF Counted
<1>13. CountInv'
  <2>1. Capacity \in Nat /\ Capacity # 0 /\ Cardinality({}) = 0
    BY PolicyAssumptions, FS_EmptySet
  <2>2. AllCounted'
    BY <1>3, <1>12, <2>1 DEF AllCounted
  <2>3. \A r : Cardinality(AcceptedIn(r)') = 0 /\ 0 < Capacity /\ 0 <= Capacity
    BY <1>11, <2>1
  <2>4. AcceptedFit'
    BY <2>3 DEF AcceptedFit
  <2>5. \A i : Cardinality(AcceptedIn(Way[RowTrain(i)])') < Capacity
    BY <2>3, <1>4
  <2>6. RoomToEnter'
    BY <2>5 DEF RoomToEnter
  <2> QED BY <2>2, <2>4, <2>6 DEF CountInv
<1>14. Quiet
  BY <1>3, <1>4 DEF Quiet, Pend, Actv
<1> QED BY <1>3, <1>6, <1>7, <1>8, <1>9, <1>10, <1>13, <1>14, QuietKeepsMod DEF ServerInv, FileInv

\* One row is taken over by the recovery: what is done.
Takes(i, c, t) ==
    /\ i \in CommandIds /\ rows[i] # NoRow /\ rows[i].command = c /\ c.id = i /\ c.train = t
    /\ t \in Train /\ c.resource = Way[t] /\ c.rev = revision /\ cursor' = i
    /\ ~serving /\ ~serving' /\ job' = job /\ handling = {}
    /\ UNCHANGED <<rows, revision, stored, handling>>
    /\ \A j \in StoredIds : (j <= i /\ rows[j].status = rows[i].status) => j <= cursor \/ j = i
    /\ rows[i] = [command |-> c, status |-> rows[i].status]
    /\ \/ /\ job = "restorePending" /\ rows[i].status = "PENDING"
          /\ cmd' = [cmd EXCEPT ![t] = c] /\ UNCHANGED <<act, occupancy>>
       \/ /\ job = "restoreActive" /\ rows[i].status = "ACCEPTED"
          /\ act' = [act EXCEPT ![t] = c] /\ UNCHANGED cmd
          /\ occupancy' = [occupancy EXCEPT ![Way[t]] = IF @ < Capacity THEN @ + 1 ELSE @]

\* This is what the recovery does with the next row.
LEMMA RestoreFacts ==
    ASSUME SafetyInv, RestoreCommand
    PROVE  \E i, c, t : Takes(i, c, t)
<1>1. ServiceInv /\ FileInv
  BY DEF SafetyInv, SystemInv, ServerInv
<1>2. PICK i : i = Min(Unrestored)
  OBVIOUS
<1>3. Restoring /\ Unrestored # {}
  BY DEF RestoreCommand
<1>4. /\ i \in StoredIds /\ i \in CommandIds
      /\ rows[i].command \in Command /\ rows[i].command.id = i
      /\ rows[i].status = IF job = "restorePending" THEN "PENDING" ELSE "ACCEPTED"
      /\ \A j \in StoredIds : (j <= i /\ rows[j].status = rows[i].status) => j <= cursor \/ j = i
  BY <1>1, <1>2, <1>3, NextRowFacts
<1>5. PICK c : c = rows[i].command
  OBVIOUS
<1>6. PICK t : t = c.train
  OBVIOUS
<1>7. c \in Command /\ c.id = i /\ t \in Train
  BY <1>4, <1>5, <1>6, CommandFacts
<1>8. rows[i] # NoRow /\ rows[i] \in Row
  BY <1>1, <1>4 DEF StoredIds, ServiceInv, ServiceTypeOK
<1>9. c.resource = Way[t]
  BY <1>1, <1>4, <1>5, <1>6, <1>8 DEF FileInv, RowsOnWay, RowTrain
<1>10. rows[i] = [command |-> c, status |-> rows[i].status]
  BY <1>5, <1>8 DEF Row
<1>11. PICK d : d = RestoredDecision(c)
  OBVIOUS
<1>12. /\ c.rev = revision /\ cursor' = i /\ job' = job
       /\ UNCHANGED <<rows, revision, stored, handling>>
       /\ \/ /\ job = "restorePending" /\ RestorePending(c.resource, d)
             /\ cmd' = [cmd EXCEPT ![t] = c] /\ UNCHANGED act
          \/ /\ job = "restoreActive" /\ RestoreActive(c.resource, d)
             /\ act' = [act EXCEPT ![t] = c] /\ UNCHANGED cmd
  BY <1>2, <1>5, <1>6, <1>11 DEF RestoreCommand, databaseVars
<1>13. /\ RestorePending(c.resource, d) => UNCHANGED <<occupancy, serving>> /\ ~serving
       /\ RestoreActive(c.resource, d) =>
             /\ UNCHANGED serving /\ ~serving
             /\ occupancy' = [occupancy EXCEPT ![c.resource] = IF @ < Capacity THEN @ + 1 ELSE @]
  BY DEF RestorePending, RestoreActive
<1>14. handling = {}
  BY <1>1, <1>3 DEF Restoring, ServiceInv, JobOK
<1>15. Takes(i, c, t)
  BY <1>4, <1>5, <1>6, <1>7, <1>8, <1>9, <1>10, <1>12, <1>13, <1>14 DEF Takes
<1> QED BY <1>15

\* The files after the row.
LEMMA TakesKeepsFiles ==
    ASSUME SafetyInv, NEW i, NEW c, NEW t, Takes(i, c, t), UNCHANGED gameVars
    PROVE  FileInv' /\ PendingKnown' /\ LoopsFit' /\ AcceptedFit' /\ RoomToEnter'
<1>1. ServerInv /\ ServiceInv /\ FileInv /\ UNCHANGED <<snapshot, queue>>
  BY DEF SafetyInv, SystemInv, ServerInv, gameVars, modVars
<1>2. /\ i \in CommandIds /\ rows[i] # NoRow /\ rows[i].command = c /\ c.id = i /\ c.train = t
      /\ t \in Train /\ c.resource = Way[t] /\ c.rev = revision /\ cursor' = i
      /\ ~serving /\ ~serving' /\ job' = job
      /\ UNCHANGED <<rows, revision, stored>>
      /\ job \in {"restorePending", "restoreActive"} /\ c # NoCommand
  <2>1. rows[i] # NoRow /\ i \in CommandIds /\ rows[i].command = c
    BY DEF Takes
  <2>2. c \in Command
    BY <1>1, <2>1, RowFacts DEF ServiceInv, ServiceTypeOK
  <2>3. c # NoCommand
    BY <2>2, CommandFacts
  <2> QED BY <2>1, <2>3 DEF Takes
<1>3. /\ RowsOnWay' /\ RevisionStored' /\ PendingLast' /\ AcceptedFit' /\ RoomToEnter'
      /\ \A j : /\ Pending(j)' <=> Pending(j)
                /\ Accepted(j)' <=> Accepted(j)
                /\ RowTrain(j)' = RowTrain(j)
  BY <1>1, <1>2, RowsSame
<1>4. \A u : ~Issuing(u) /\ ~Issuing(u)'
  BY <1>2 DEF Issuing
<1>5. cmd \in [Train -> Command \cup {NoCommand}] /\ act \in [Train -> Command \cup {NoCommand}]
  BY <1>1 DEF ServiceInv, ServiceTypeOK
<1>6. /\ \A u \in Train : cmd[u] # NoCommand => cmd'[u] # NoCommand
      /\ \A u \in Train : act[u] # NoCommand => act'[u] # NoCommand
      /\ \A u \in Train : u # t => cmd'[u] = cmd[u] /\ act'[u] = act[u]
  BY <1>2, <1>5 DEF Takes
<1>7. \A j \in CommandIds : rows[j] # NoRow => RowTrain(j) \in Train
  BY <1>1, RowTrains DEF StoredIds
<1>8. RowTrain(i) = t
  BY <1>2 DEF RowTrain
<1>9. /\ \A j \in CommandIds : (rows[j] # NoRow /\ rows[j].status = rows[i].status /\ j <= i) =>
            j <= cursor \/ j = i
      /\ rows[i] = [command |-> c, status |-> rows[i].status]
  BY DEF Takes, StoredIds
<1>10. ASSUME job = "restorePending", rows[i].status = "PENDING",
              cmd' = [cmd EXCEPT ![t] = c], UNCHANGED act
       PROVE  CommandsFiled' /\ ActivesFiled' /\ RestoredSoFar'
  <2>1. cmd'[t] = c
    BY <1>2, <1>5, <1>10
  <2>2. CommandsFiled'
    <3> SUFFICES ASSUME NEW u \in Train, cmd'[u] # NoCommand
                 PROVE  /\ cmd'[u].rev = revision /\ cmd'[u].resource = Way[u]
                        /\ rows[cmd'[u].id] = [command |-> cmd'[u], status |-> "PENDING"]
      BY <1>2 DEF CommandsFiled
    <3>1. CASE u = t
      BY <1>2, <1>9, <1>10, <2>1, <3>1
    <3>2. CASE u # t
      BY <1>1, <1>4, <1>6, <3>2 DEF FileInv, CommandsFiled
    <3> QED BY <3>1, <3>2
  <2>3. ActivesFiled'
    <3>1. \A j : ~Taken(j) /\ ~Taken(j)'
      BY <1>2, <1>10 DEF Taken
    <3> QED BY <1>1, <1>2, <1>10, <3>1 DEF FileInv, ActivesFiled
  <2>4. RestoredSoFar'
    <3> SUFFICES ASSUME NEW j \in CommandIds, Pending(j), j <= i
                 PROVE  cmd'[RowTrain(j)] # NoCommand
      BY <1>2, <1>3, <1>10 DEF RestoredSoFar
    <3>1. j <= cursor \/ j = i
      BY <1>9, <1>10 DEF Pending
    <3>2. CASE j <= cursor
      BY <1>1, <1>6, <1>7, <1>10, <3>2 DEF FileInv, RestoredSoFar, Pending
    <3> QED BY <1>2, <1>8, <2>1, <3>1, <3>2
  <2> QED BY <2>2, <2>3, <2>4
<1>11. ASSUME job = "restoreActive", rows[i].status = "ACCEPTED",
              act' = [act EXCEPT ![t] = c], UNCHANGED cmd
       PROVE  CommandsFiled' /\ ActivesFiled' /\ RestoredSoFar'
  <2>1. act'[t] = c
    BY <1>2, <1>5, <1>11
  <2>2. CommandsFiled'
    BY <1>1, <1>2, <1>4, <1>11 DEF FileInv, CommandsFiled
  <2>3. \A j : Taken(j)' <=> j <= i
    BY <1>2, <1>11 DEF Taken
  <2>4. ActivesFiled'
    <3> SUFFICES ASSUME NEW u \in Train, act'[u] # NoCommand
                 PROVE  /\ act'[u].rev = revision
                        /\ rows[act'[u].id] = [command |-> act'[u], status |-> "ACCEPTED"]
                        /\ \A j \in CommandIds : (Accepted(j) /\ RowTrain(j) = u /\ j <= i) =>
                               j <= act'[u].id
      BY <1>2, <1>3, <2>3 DEF ActivesFiled
    <3>1. CASE u = t
      BY <1>2, <1>9, <1>11, <2>1, <3>1
    <3>2. CASE u # t
      <4>1. act'[u] = act[u]
        BY <1>6, <3>2
      <4>2. ASSUME NEW j \in CommandIds, Accepted(j), RowTrain(j) = u, j <= i
            PROVE  j <= act[u].id
        <5>1. j <= cursor
          BY <1>8, <1>9, <1>11, <3>2, <4>2 DEF Accepted
        <5>2. Taken(j)
          BY <1>11, <5>1 DEF Taken
        <5> QED BY <1>1, <4>1, <4>2, <5>2 DEF FileInv, ActivesFiled
      <4> QED BY <1>1, <4>1, <4>2 DEF FileInv, ActivesFiled
    <3> QED BY <3>1, <3>2
  <2>5. RestoredSoFar'
    <3>1. ASSUME NEW j \in CommandIds, Pending(j) PROVE cmd'[RowTrain(j)] # NoCommand
      BY <1>1, <1>6, <1>7, <1>11, <3>1 DEF FileInv, RestoredSoFar, Pending
    <3>2. ASSUME NEW j \in CommandIds, Accepted(j), j <= i PROVE act'[RowTrain(j)] # NoCommand
      <4>1. j <= cursor \/ j = i
        BY <1>9, <1>11, <3>2 DEF Accepted
      <4>2. CASE j <= cursor
        BY <1>1, <1>6, <1>7, <1>11, <3>2, <4>2 DEF FileInv, RestoredSoFar, Accepted
      <4> QED BY <1>2, <1>8, <2>1, <4>1, <4>2
    <3> QED BY <1>2, <1>3, <1>11, <3>1, <3>2 DEF RestoredSoFar
  <2> QED BY <2>2, <2>4, <2>5
<1>12. CommandsFiled' /\ ActivesFiled' /\ RestoredSoFar'
  <2>1. \/ /\ job = "restorePending" /\ rows[i].status = "PENDING"
           /\ cmd' = [cmd EXCEPT ![t] = c] /\ UNCHANGED act
        \/ /\ job = "restoreActive" /\ rows[i].status = "ACCEPTED"
           /\ act' = [act EXCEPT ![t] = c] /\ UNCHANGED cmd
    BY DEF Takes
  <2> QED BY <1>10, <1>11, <2>1
<1>13. PendingKnown' /\ LoopsFit'
  BY <1>2 DEF PendingKnown, LoopsFit, Forgotten, Planned
<1> QED BY <1>3, <1>12, <1>13 DEF FileInv

\* The count after the row, and the mod, which notices nothing.
LEMMA RestoreCommandKeeps ==
    ASSUME SafetyInv, RestoreCommand, UNCHANGED gameVars
    PROVE  ServerInv' /\ ModInv'
<1>1. PICK i, c, t : Takes(i, c, t)
  BY RestoreFacts
<1>2. /\ i \in CommandIds /\ rows[i] # NoRow /\ rows[i].command = c /\ c.id = i /\ c.train = t
      /\ t \in Train /\ c.resource = Way[t] /\ c.rev = revision /\ cursor' = i
      /\ ~serving /\ ~serving' /\ job' = job
      /\ UNCHANGED <<rows, revision, stored>>
      /\ \A j \in StoredIds : (j <= i /\ rows[j].status = rows[i].status) => j <= cursor \/ j = i
      /\ \/ job = "restorePending" /\ UNCHANGED occupancy
         \/ /\ job = "restoreActive" /\ rows[i].status = "ACCEPTED"
            /\ occupancy' = [occupancy EXCEPT ![Way[t]] = IF @ < Capacity THEN @ + 1 ELSE @]
  BY <1>1 DEF Takes
<1>3. FileInv' /\ PendingKnown' /\ LoopsFit' /\ AcceptedFit' /\ RoomToEnter'
  BY <1>1, TakesKeepsFiles
<1>4. /\ occupancy \in [Resource -> 0..Capacity] /\ Capacity \in Nat /\ Way[t] \in Resource
      /\ CountInv
  BY <1>2, PolicyAssumptions, SystemAssumptions
     DEF SafetyInv, SystemInv, ServiceInv, ManagerInv, ManagerTypeOK, ServerInv
<1>5. \A r : AcceptedIn(r)' = AcceptedIn(r)
  BY <1>2 DEF AcceptedIn, Accepted
<1>6. AllCounted'
  <2> SUFFICES ASSUME NEW r \in Resource PROVE Cardinality(Counted(r)') <= occupancy'[r]
    BY DEF AllCounted
  <2>1. CASE job = "restorePending" /\ UNCHANGED occupancy
    <3>1. Counted(r)' = {}
      BY <1>2, <2>1 DEF Counted, Taken
    <3>2. occupancy'[r] \in Nat
      BY <1>4, <2>1
    <3> QED BY <3>1, <3>2, FS_EmptySet
  <2>2. CASE /\ job = "restoreActive" /\ rows[i].status = "ACCEPTED"
             /\ occupancy' = [occupancy EXCEPT ![Way[t]] = IF @ < Capacity THEN @ + 1 ELSE @]
    <3>1. \A j \in AcceptedIn(r) : Taken(j)' => Taken(j) \/ j = i
      BY <1>2, <2>2 DEF Taken, AcceptedIn, Accepted, StoredIds
    <3>2. Counted(r)' \subseteq Counted(r) \cup {i}
      BY <1>5, <3>1 DEF Counted
    <3>3. PICK A : A = Counted(r)'
      OBVIOUS
    <3>4. PICK B : B = Counted(r)
      OBVIOUS
    <3>5. A \subseteq B \cup {i} /\ IsFiniteSet(B) /\ Cardinality(B) \in Nat
          /\ Cardinality(B) <= occupancy[r] /\ occupancy[r] \in 0..Capacity
      BY <1>4, <3>2, <3>3, <3>4, AcceptedFinite DEF CountInv, AllCounted
    <3>6. CASE r = Way[t]
      <4>1. Cardinality(A) <= Cardinality(B) + 1 /\ Cardinality(A) \in Nat
        <5>1. /\ IsFiniteSet(B \cup {i})
              /\ Cardinality(B \cup {i}) = IF i \in B THEN Cardinality(B) ELSE Cardinality(B) + 1
          BY <3>5, FS_AddElement
        <5>2. IsFiniteSet(B \cup {i}) /\ Cardinality(B \cup {i}) <= Cardinality(B) + 1
          BY <3>5, <5>1
        <5>3. IsFiniteSet(A) /\ Cardinality(A) <= Cardinality(B \cup {i})
          BY <3>5, <5>2, FS_Subset
        <5>4. Cardinality(A) \in Nat /\ Cardinality(B \cup {i}) \in Nat
          BY <5>2, <5>3, FS_CardinalityType
        <5> QED BY <3>5, <5>2, <5>3, <5>4
      <4>2. Cardinality(A) <= Capacity
        <5>1. A \subseteq AcceptedIn(r)
          BY <1>5, <3>3 DEF Counted
        <5>2. IsFiniteSet(AcceptedIn(r)) /\ Cardinality(AcceptedIn(r)) \in Nat
          BY AcceptedFinite
        <5>3. Cardinality(A) <= Cardinality(AcceptedIn(r))
          BY <5>1, <5>2, FS_Subset
        <5>4. Cardinality(AcceptedIn(r)) <= Capacity
          BY <1>4 DEF CountInv, AcceptedFit
        <5> QED BY <1>4, <4>1, <5>2, <5>3, <5>4
      <4>3. occupancy'[r] = IF occupancy[r] < Capacity THEN occupancy[r] + 1 ELSE occupancy[r]
        BY <1>4, <2>2, <3>6
      <4> QED BY <1>4, <3>3, <3>5, <4>1, <4>2, <4>3
    <3>7. CASE r # Way[t]
      <4>1. i \notin AcceptedIn(r)
        BY <1>2, <3>7 DEF AcceptedIn
      <4>2. A \subseteq B
        BY <1>5, <3>3, <3>5, <4>1 DEF Counted
      <4>3. Cardinality(A) <= Cardinality(B) /\ IsFiniteSet(A)
        BY <3>5, <4>2, FS_Subset
      <4>4. occupancy'[r] = occupancy[r] /\ Cardinality(A) \in Nat
        BY <1>4, <2>2, <3>7, <4>3, FS_CardinalityType
      <4> QED BY <3>3, <3>5, <4>3, <4>4
    <3> QED BY <3>6, <3>7
  <2> QED BY <1>2, <2>1, <2>2
<1>7. Quiet
  <2>1. /\ \A j : Pending(j)' <=> Pending(j)
        /\ \A j : Accepted(j)' <=> Accepted(j)
        /\ \A j : RowTrain(j)' = RowTrain(j)
    BY <1>2 DEF Pending, Accepted, RowTrain
  <2>2. serving' = serving
    BY <1>2 DEF SafetyInv, SystemInv, ServiceInv, ManagerInv, ManagerTypeOK, RestoreCommand,
                RestorePending, RestoreActive
  <2>3. ~serving /\ ~serving' /\ UNCHANGED rows
    BY <1>2
  <2>4. \A u \in Train : \A j : Pend(u, j)' <=> Pend(u, j)
    BY <2>1, <2>3 DEF Pend
  <2>5. \A u \in Train : \A j : Actv(u, j)' <=> Actv(u, j)
    BY <2>1, <2>3 DEF Actv
  <2> QED BY <2>2, <2>3, <2>4, <2>5 DEF Quiet
<1> QED BY <1>3, <1>6, <1>7, QuietKeepsMod DEF ServerInv, CountInv

-----------------------------------------------------------------------------
(* The reports.                                                            *)

\* The report p of train t about its command i is at the head of the queue
\* and is taken off it (d = 1), or not (d = 0).
AtHead(p, t, i, d) ==
    /\ Idle /\ p = queue[1] /\ t = p.train /\ i = p.id /\ p.resource = Way[t]
    /\ Len(queue) \in Nat /\ 1 <= Len(queue)
    /\ t \in Train /\ i \in StoredIds /\ i \in CommandIds /\ RowTrain(i) = t
    /\ d \in {0, 1} /\ Shifted(d) /\ (d = 0 => p.kind # "cleared")
    /\ UNCHANGED <<place, ticked, modVars>>

\* Somebody hands in the report.
Handed(p, now, o, d) ==
    /\ queue # <<>> /\ p = Head(queue) /\ HandleReport(p, now, o)
    /\ \/ d = 1 /\ queue' = Tail(queue)
       \/ d = 0 /\ UNCHANGED queue /\ p.kind # "cleared"
    /\ UNCHANGED <<place, ticked, modVars>>

\* A report is handed in, whether or not its answer gets back.
LEMMA DeliveryFacts ==
    ASSUME SafetyInv, NEW now, NEW o, Deliver(now, o) \/ DeliverUnanswered(now, o)
    PROVE  \E p, d : Handed(p, now, o, d)
<1>1. PICK p : p = Head(queue)
  OBVIOUS
<1>2. CASE Deliver(now, o)
  <2>1. Handed(p, now, o, 1)
    BY <1>1, <1>2 DEF Deliver, Handed
  <2> QED BY <2>1
<1>3. CASE DeliverUnanswered(now, o)
  <2>1. p.kind # "cleared"
    BY <1>1, <1>3 DEF DeliverUnanswered, AnswerMayBeLost, SafetyInv, SafeFaults
  <2>2. Handed(p, now, o, 0)
    BY <1>1, <1>3, <2>1 DEF DeliverUnanswered, Handed, gameVars
  <2> QED BY <2>2
<1> QED BY <1>2, <1>3

\* Such a report is at the head of the queue, and about a stored command.
LEMMA HeadFacts ==
    ASSUME SafetyInv, NEW p, NEW now, NEW o, NEW d, Handed(p, now, o, d),
           NEW t, t = p.train, NEW i, i = p.id
    PROVE  AtHead(p, t, i, d)
<1>1. ServiceInv /\ FileInv /\ KnowsSent /\ Reports(passages, finished, queue, Len(queue))
  BY DEF SafetyInv, SystemInv, ServerInv, ModInv
<1>2. PICK C : C = SentCommands
  OBVIOUS
<1>3. PICK A : A = Frames!PostsOf(C)
  OBVIOUS
<1>4. queue \in Seq(A) /\ queue # <<>> /\ p = Head(queue)
  BY <1>1, <1>2, <1>3 DEF KnowsSent, Handed
<1>5. /\ Len(queue) \in Nat /\ 1 <= Len(queue) /\ p = queue[1] /\ p \in A
      /\ Tail(queue) \in Seq(A) /\ Len(Tail(queue)) = Len(queue) - 1
      /\ \A k \in 1..(Len(queue) - 1) : Tail(queue)[k] = queue[k + 1]
  BY <1>4
<1>6. PICK kind \in {"accept", "reject", "cleared"}, c \in C : p = Frames!Report(kind, c)
  BY <1>3, <1>5 DEF Frames!PostsOf
<1>7. p.train = c.train /\ p.id = c.id /\ p.resource = c.resource
  BY <1>6 DEF Frames!Report
<1>8. /\ c.id \in StoredIds /\ c.id \in CommandIds /\ c.train \in Train
      /\ c.resource = Way[c.train] /\ RowTrain(c.id) = c.train
  BY <1>1, <1>2, SentFacts DEF FileInv
<1>9. d \in {0, 1} /\ (d = 0 => p.kind # "cleared") /\ UNCHANGED <<place, ticked, modVars>>
  BY DEF Handed
<1>10. Shifted(d)
  <2>1. CASE d = 1 /\ queue' = Tail(queue)
    BY <1>2, <1>3, <1>5, <2>1 DEF Shifted
  <2>2. CASE d = 0 /\ UNCHANGED queue
    BY <1>1, <2>2, NothingShifted
  <2> QED BY <2>1, <2>2 DEF Handed
<1>11. Idle
  BY DEF Handed, HandleReport, AcceptCommand, RejectCommand, ResourceCleared
<1> QED BY <1>5, <1>7, <1>8, <1>9, <1>10, <1>11 DEF AtHead

\* An ACK that is still in the queue was there before.
LEMMA AcceptsWereThere ==
    ASSUME NEW d, Shifted(d), Len(queue) \in Nat, NEW i, AcceptBefore(queue, Len(queue), i)'
    PROVE  AcceptBefore(queue, Len(queue), i)
<1>1. PICK k \in 1..Len(queue') : queue'[k].kind = "accept" /\ queue'[k].id = i
  BY DEF AcceptBefore
<1>2. /\ d \in Nat /\ d <= Len(queue) /\ Len(queue') = Len(queue) - d
      /\ \A l \in 1..(Len(queue) - d) : queue'[l] = queue[l + d]
  BY DEF Shifted
<1>3. k + d \in 1..Len(queue) /\ queue'[k] = queue[k + d]
  BY <1>1, <1>2
<1> QED BY <1>1, <1>3 DEF AcceptBefore

\* Row i gets status s, and nothing else of the database changes.
RowSet(i, s) ==
    /\ rows'[i] = [command |-> rows[i].command, status |-> s]
    /\ rows'[i] # NoRow /\ rows'[i].command = rows[i].command /\ rows'[i].status = s
    /\ \A j \in CommandIds : j # i => rows'[j] = rows[j]

\* This is what an update of the status does to a row that may change.
LEMMA StatusSet ==
    ASSUME ServiceInv, NEW i \in StoredIds, NEW From, NEW s \in Statuses, rows[i].status \in From,
           rows' = UpdateStatus(i, From, s)
    PROVE  RowSet(i, s)
<1>1. i \in CommandIds /\ rows[i] # NoRow /\ rows[i] \in Row
      /\ rows \in [CommandIds -> Row \cup {NoRow}]
  BY DEF StoredIds, ServiceInv, ServiceTypeOK
<1>2. PICK c : c = rows[i].command
  OBVIOUS
<1>3. PICK x : x = [rows[i] EXCEPT !.status = s]
  OBVIOUS
<1>4. c \in Command
  BY <1>1, <1>2, RowFacts
<1>5. x = [command |-> c, status |-> s] /\ x.command = c /\ x.status = s /\ x \in Row
  BY <1>1, <1>2, <1>3, <1>4 DEF Row
<1>6. x # NoRow
  BY <1>5, RowFacts
<1>7. rows' = [rows EXCEPT ![i] = x]
  BY <1>1, <1>3 DEF UpdateStatus
<1>8. rows'[i] = x /\ \A j \in CommandIds : j # i => rows'[j] = rows[j]
  BY <1>1, <1>7
<1> QED BY <1>2, <1>5, <1>6, <1>8 DEF RowSet

\* The rows by their status then.
LEMMA RowSetFacts ==
    ASSUME NEW i \in StoredIds, NEW s, RowSet(i, s)
    PROVE  /\ StoredIds' = StoredIds /\ RowsKept
           /\ \A j \in StoredIds : RowTrain(j)' = RowTrain(j)
           /\ \A j \in CommandIds : j # i => /\ Pending(j)' <=> Pending(j)
                                             /\ Accepted(j)' <=> Accepted(j)
                                             /\ rows'[j] = rows[j]
           /\ Pending(i)' <=> s = "PENDING"
           /\ Accepted(i)' <=> s = "ACCEPTED"
<1>1. /\ rows'[i] # NoRow /\ rows'[i].command = rows[i].command /\ rows'[i].status = s
      /\ \A j \in CommandIds : j # i => rows'[j] = rows[j]
      /\ i \in CommandIds /\ rows[i] # NoRow
  BY DEF RowSet, StoredIds
<1>2. StoredIds' = StoredIds
  BY <1>1 DEF StoredIds
<1>3. \A j \in StoredIds : rows'[j].command = rows[j].command
  BY <1>1 DEF StoredIds
<1>4. RowsKept /\ \A j \in StoredIds : RowTrain(j)' = RowTrain(j)
  BY <1>2, <1>3 DEF RowsKept, RowTrain
<1>5. \A j \in CommandIds : j # i => /\ Pending(j)' <=> Pending(j)
                                     /\ Accepted(j)' <=> Accepted(j)
  BY <1>1 DEF Pending, Accepted
<1>6. /\ Pending(i)' <=> s = "PENDING"
      /\ Accepted(i)' <=> s = "ACCEPTED"
  BY <1>1 DEF Pending, Accepted
<1> QED BY <1>1, <1>2, <1>4, <1>5, <1>6

\* What is common to all answers.
Answered(i, s) ==
    /\ serving /\ serving' /\ job = "idle" /\ job' = "idle" /\ handling' = {}
    /\ UNCHANGED <<revision, stored, snapshot>>
    /\ i \in StoredIds /\ RowSet(i, s) /\ s # "PENDING"

\* An answer keeps what the database says of the other commands.
LEMMA AnsweredFiles ==
    ASSUME SafetyInv, NEW i, NEW s, Answered(i, s)
    PROVE  RowsOnWay' /\ RevisionStored' /\ PendingLast' /\ RestoredSoFar' /\ LoopsFit'
<1>1. FileInv
  BY DEF SafetyInv, ServerInv
<1>2. /\ serving /\ serving' /\ job' = "idle" /\ handling' = {}
      /\ UNCHANGED <<revision, stored>> /\ s # "PENDING" /\ i \in StoredIds
  BY DEF Answered
<1>3. /\ StoredIds' = StoredIds /\ RowsKept
      /\ \A j \in StoredIds : RowTrain(j)' = RowTrain(j)
      /\ \A j \in CommandIds : j # i => (Pending(j)' <=> Pending(j))
      /\ ~Pending(i)'
  BY <1>2, RowSetFacts DEF Answered
<1>4. \A j \in CommandIds : /\ j \in StoredIds <=> rows[j] # NoRow
                            /\ j \in StoredIds' <=> rows'[j] # NoRow
  BY DEF StoredIds
<1>5. RowsOnWay'
  BY <1>1, <1>2, <1>3, <1>4 DEF FileInv, RowsOnWay, RowsKept
<1>6. PendingLast'
  <2> SUFFICES ASSUME NEW k \in CommandIds, NEW j \in CommandIds, Pending(k)', rows'[j] # NoRow,
                      RowTrain(j)' = RowTrain(k)'
               PROVE  j <= k
    BY DEF PendingLast
  <2>1. Pending(k)
    BY <1>3
  <2>2. k \in StoredIds /\ j \in StoredIds
    BY <1>3, <1>4, <2>1 DEF Pending
  <2>3. RowTrain(j) = RowTrain(k) /\ rows[j] # NoRow
    BY <1>3, <1>4, <2>2
  <2> QED BY <1>1, <2>1, <2>3 DEF FileInv, PendingLast
<1>7. RevisionStored' /\ RestoredSoFar' /\ LoopsFit'
  BY <1>1, <1>2 DEF FileInv, RevisionStored, RestoredSoFar, LoopsFit, Forgotten, Planned
<1> QED BY <1>5, <1>6, <1>7

\* Train t is let in with command i.
Admits(t, i) ==
    /\ Answered(i, "ACCEPTED") /\ Pend(t, i) /\ t \in Train
    /\ rows'[i] = [command |-> cmd[t], status |-> "ACCEPTED"]
    /\ cmd[t] # NoCommand /\ cmd[t].id = i /\ act'[t] = cmd[t] /\ cmd'[t] = NoCommand
    /\ \A u \in Train : u # t => cmd'[u] = cmd[u] /\ act'[u] = act[u]
    /\ occupancy'[Way[t]] = IF occupancy[Way[t]] < Capacity THEN occupancy[Way[t]] + 1
                                                             ELSE occupancy[Way[t]]
    /\ \A r \in Resource : r # Way[t] => occupancy'[r] = occupancy[r]

\* The command that a report answers.
LEMMA MatchFacts ==
    ASSUME SafetyInv, NEW p, NEW t, NEW i, NEW d, AtHead(p, t, i, d), Matches(p)
    PROVE  /\ cmd[t] # NoCommand /\ cmd[t].id = i /\ cmd[t].resource = Way[t]
           /\ Pend(t, i) /\ rows[i].command = cmd[t] /\ rows[i].status = "PENDING"
           /\ serving /\ job = "idle" /\ handling = {} /\ Way[t] \in Resource
           /\ PendingFor(Way[t], t) /\ i \in StoredIds /\ i \in CommandIds /\ t \in Train
<1>1. ServiceInv /\ FileInv
  BY DEF SafetyInv, SystemInv, ServerInv
<1>2. /\ Idle /\ t = p.train /\ i = p.id /\ p.resource = Way[t] /\ t \in Train
      /\ i \in StoredIds /\ i \in CommandIds
  BY DEF AtHead
<1>3. serving /\ job = "idle" /\ handling = {} /\ ~Issuing(t)
  BY <1>1, <1>2 DEF Idle, Issuing, ServiceInv, JobOK
<1>4. cmd[t] # NoCommand /\ cmd[t].id = i /\ cmd[t].resource = Way[t]
  BY <1>2 DEF Matches
<1>5. Pending(i) /\ RowTrain(i) = t /\ rows[i].command = cmd[t]
  BY <1>2, <1>3, <1>4, KnownRows
<1>6. Pend(t, i) /\ rows[i].status = "PENDING"
  BY <1>2, <1>4, <1>5 DEF Pend, Pending
<1>7. PendingFor(Way[t], t)
  BY <1>1, <1>2, <1>4 DEF ServiceInv, CommandsAnswerable, PendingFor
<1> QED BY <1>2, <1>3, <1>4, <1>5, <1>6, <1>7, SystemAssumptions

\* An ACK that answers the awaited command admits its train.
LEMMA AdmitFacts ==
    ASSUME SafetyInv, SafeConditions, NEW p, NEW t, NEW i, NEW d, AtHead(p, t, i, d), Matches(p),
           NEW now, NEW o \in Ending, AcceptCommand(t, now, o)
    PROVE  Admits(t, i)
<1>1. ServiceInv /\ Succeeded(o) /\ Applied(o) /\ UNCHANGED modVars
  BY Commits DEF SafetyInv, SystemInv, AtHead
<1>2. /\ cmd[t] # NoCommand /\ cmd[t].id = i /\ cmd[t].resource = Way[t]
      /\ Pend(t, i) /\ rows[i].command = cmd[t] /\ rows[i].status = "PENDING"
      /\ serving /\ job = "idle" /\ handling = {} /\ Way[t] \in Resource
      /\ PendingFor(Way[t], t) /\ i \in StoredIds /\ t \in Train
  BY MatchFacts
<1>3. /\ rows' = UpdateStatus(i, {"PENDING"}, "ACCEPTED")
      /\ ConfirmEntry(Way[t], t, now) /\ UNCHANGED <<revision, stored, jobVars>>
      /\ act' = [act EXCEPT ![t] = cmd[t]] /\ cmd' = [cmd EXCEPT ![t] = NoCommand]
  BY <1>1, <1>2 DEF AcceptCommand
<1>4. RowSet(i, "ACCEPTED")
  BY <1>1, <1>2, <1>3, StatusSet DEF Statuses
<1>5. /\ occupancy' = [occupancy EXCEPT ![Way[t]] = IF @ < Capacity THEN @ + 1 ELSE @]
      /\ serving'
  BY <1>3 DEF ConfirmEntry, Enter
<1>6. Answered(i, "ACCEPTED")
  BY <1>1, <1>2, <1>3, <1>4, <1>5 DEF Answered, jobVars, modVars
<1>7. rows'[i] = [command |-> cmd[t], status |-> "ACCEPTED"]
  BY <1>2, <1>4 DEF RowSet
<1>8. /\ act'[t] = cmd[t] /\ cmd'[t] = NoCommand
      /\ \A u \in Train : u # t => cmd'[u] = cmd[u] /\ act'[u] = act[u]
  BY <1>1, <1>2, <1>3 DEF ServiceInv, ServiceTypeOK
<1>9. /\ occupancy'[Way[t]] = IF occupancy[Way[t]] < Capacity THEN occupancy[Way[t]] + 1
                                                              ELSE occupancy[Way[t]]
      /\ \A r \in Resource : r # Way[t] => occupancy'[r] = occupancy[r]
  BY <1>1, <1>2, <1>5 DEF ServiceInv, ManagerInv, ManagerTypeOK
<1> QED BY <1>2, <1>6, <1>7, <1>8, <1>9 DEF Admits

\* The rows and the commands after the admission.
LEMMA AdmitRows ==
    ASSUME SafetyInv, NEW t, NEW i, Admits(t, i)
    PROVE  /\ StoredIds' = StoredIds /\ RowsKept /\ Pending(i) /\ RowTrain(i) = t
           /\ i \in CommandIds /\ i \in StoredIds
           /\ \A j \in StoredIds : RowTrain(j)' = RowTrain(j)
           /\ \A j \in CommandIds : Pending(j)' <=> Pending(j) /\ j # i
           /\ \A j \in CommandIds : Accepted(j)' <=> Accepted(j) \/ j = i
           /\ \A j \in CommandIds : (Accepted(j) /\ RowTrain(j) = t) => j < i
           /\ \A u \in Train : u # t => cmd'[u] = cmd[u] /\ act'[u] = act[u]
           /\ \A u \in Train : (u # t /\ cmd[u] # NoCommand) => cmd[u].id \in CommandIds /\ cmd[u].id # i
           /\ \A u \in Train : act[u] # NoCommand => act[u].id \in CommandIds /\ act[u].id # i
           /\ \A j \in CommandIds : j # i => rows'[j] = rows[j]
<1>1. /\ i \in CommandIds /\ Pending(i) /\ RowTrain(i) = t /\ i \in StoredIds
      /\ t \in Train /\ job = "idle"
      /\ RowSet(i, "ACCEPTED")
      /\ \A u \in Train : u # t => cmd'[u] = cmd[u] /\ act'[u] = act[u]
  BY DEF Admits, Answered, Pend
<1>2. /\ StoredIds' = StoredIds /\ RowsKept
      /\ \A j \in StoredIds : RowTrain(j)' = RowTrain(j)
      /\ \A j \in CommandIds : j # i => /\ Pending(j)' <=> Pending(j)
                                        /\ Accepted(j)' <=> Accepted(j)
                                        /\ rows'[j] = rows[j]
      /\ ~Pending(i)' /\ Accepted(i)'
  BY <1>1, RowSetFacts
<1>3. ~Accepted(i)
  BY <1>1 DEF Pending, Accepted
<1>4. ASSUME NEW j \in CommandIds, Accepted(j), RowTrain(j) = t PROVE j < i
  <2>1. j <= i
    BY <1>1, <1>4 DEF SafetyInv, ServerInv, FileInv, PendingLast, Accepted
  <2>2. j # i
    BY <1>3, <1>4
  <2> QED BY <1>1, <2>1, <2>2 DEF CommandIds
<1>5. \A u : ~Issuing(u)
  BY <1>1 DEF Issuing
<1>6. \A u \in Train : (u # t /\ cmd[u] # NoCommand) => cmd[u].id \in CommandIds /\ cmd[u].id # i
  BY <1>1, <1>5, KnownRows
<1>7. \A u \in Train : act[u] # NoCommand => act[u].id \in CommandIds /\ act[u].id # i
  BY <1>3, KnownRows
<1> QED BY <1>1, <1>2, <1>4, <1>6, <1>7

\* The files after the admission.
LEMMA AdmitKeepsFiles ==
    ASSUME SafetyInv, NEW t, NEW i, Admits(t, i)
    PROVE  FileInv' /\ PendingKnown' /\ LoopsFit'
<1>1. FileInv /\ PendingKnown /\ ServiceInv
  BY DEF SafetyInv, SystemInv, ServerInv
<1>2. /\ Answered(i, "ACCEPTED") /\ t \in Train /\ serving /\ serving' /\ job = "idle" /\ job' = "idle"
      /\ UNCHANGED <<revision, snapshot>>
      /\ rows'[i] = [command |-> cmd[t], status |-> "ACCEPTED"]
      /\ cmd[t] # NoCommand /\ cmd[t].id = i /\ act'[t] = cmd[t] /\ cmd'[t] = NoCommand
  BY DEF Admits, Answered
<1>3. /\ Pending(i) /\ RowTrain(i) = t /\ i \in CommandIds
      /\ StoredIds' = StoredIds
      /\ \A j \in StoredIds : RowTrain(j)' = RowTrain(j)
      /\ \A j \in CommandIds : Pending(j)' <=> Pending(j) /\ j # i
      /\ \A j \in CommandIds : Accepted(j)' <=> Accepted(j) \/ j = i
      /\ \A j \in CommandIds : (Accepted(j) /\ RowTrain(j) = t) => j < i
      /\ \A u \in Train : u # t => cmd'[u] = cmd[u] /\ act'[u] = act[u]
      /\ \A u \in Train : (u # t /\ cmd[u] # NoCommand) => cmd[u].id \in CommandIds /\ cmd[u].id # i
      /\ \A u \in Train : act[u] # NoCommand => act[u].id \in CommandIds /\ act[u].id # i
      /\ \A j \in CommandIds : j # i => rows'[j] = rows[j]
  BY AdmitRows
<1>4. \A j \in CommandIds : Pending(j) \/ Accepted(j) => j \in StoredIds
  BY DEF Pending, Accepted, StoredIds
<1>5. RowsOnWay' /\ RevisionStored' /\ PendingLast' /\ RestoredSoFar' /\ LoopsFit'
  BY <1>2, AnsweredFiles
<1>6. CommandsFiled'
  <2> SUFFICES ASSUME NEW u \in Train, cmd'[u] # NoCommand
               PROVE  /\ cmd'[u].rev = revision /\ cmd'[u].resource = Way[u]
                      /\ rows'[cmd'[u].id] = [command |-> cmd'[u], status |-> "PENDING"]
    BY <1>2 DEF CommandsFiled
  <2>1. u # t /\ cmd'[u] = cmd[u] /\ cmd[u].id \in CommandIds /\ cmd[u].id # i
    BY <1>2, <1>3
  <2>2. /\ cmd[u].rev = revision /\ cmd[u].resource = Way[u]
        /\ rows[cmd[u].id] = [command |-> cmd[u], status |-> "PENDING"]
    BY <1>1, <1>2, <2>1 DEF FileInv, CommandsFiled, Issuing
  <2> QED BY <1>3, <2>1, <2>2
<1>7. ActivesFiled'
  <2> SUFFICES ASSUME NEW u \in Train, act'[u] # NoCommand
               PROVE  /\ act'[u].rev = revision
                      /\ rows'[act'[u].id] = [command |-> act'[u], status |-> "ACCEPTED"]
                      /\ \A j \in CommandIds : (Accepted(j)' /\ RowTrain(j)' = u) => j <= act'[u].id
    BY <1>2 DEF ActivesFiled
  <2>1. CASE u = t
    <3>1. cmd[t].rev = revision
      BY <1>1, <1>2 DEF FileInv, CommandsFiled
    <3>2. ASSUME NEW j \in CommandIds, Accepted(j)', RowTrain(j)' = t PROVE j <= i
      <4>1. j = i \/ (Accepted(j) /\ RowTrain(j) = t)
        BY <1>3, <1>4, <3>2
      <4> QED BY <1>3, <4>1 DEF CommandIds
    <3> QED BY <1>2, <2>1, <3>1, <3>2
  <2>2. CASE u # t
    <3>1. act'[u] = act[u] /\ act[u].id \in CommandIds /\ act[u].id # i
      BY <1>3, <2>2
    <3>2. /\ act[u].rev = revision
          /\ rows[act[u].id] = [command |-> act[u], status |-> "ACCEPTED"]
          /\ \A j \in CommandIds : (Accepted(j) /\ RowTrain(j) = u) => j <= act[u].id
      BY <1>1, <1>2, <3>1 DEF FileInv, ActivesFiled, Taken
    <3>3. ASSUME NEW j \in CommandIds, Accepted(j)', RowTrain(j)' = u
          PROVE  Accepted(j) /\ RowTrain(j) = u
      <4>1. i \in StoredIds
        BY <1>3, <1>4
      <4>2. j # i
        BY <1>3, <2>2, <3>3, <4>1
      <4> QED BY <1>3, <1>4, <3>3, <4>2
    <3> QED BY <1>3, <3>1, <3>2, <3>3
  <2> QED BY <2>1, <2>2
<1>8. PendingKnown'
  <2> SUFFICES ASSUME NEW j \in CommandIds, Pending(j)', Present(RowTrain(j))'
               PROVE  cmd'[RowTrain(j)'] # NoCommand /\ cmd'[RowTrain(j)'].id = j
    BY DEF PendingKnown
  <2>1. Pending(j) /\ j # i /\ RowTrain(j)' = RowTrain(j)
    BY <1>3, <1>4
  <2>2. Present(RowTrain(j)) /\ RowTrain(j) \in Train
    BY <1>1, <1>2, <1>4, <2>1, RowTrains DEF Present
  <2>3. cmd[RowTrain(j)] # NoCommand /\ cmd[RowTrain(j)].id = j
    BY <1>1, <1>2, <2>1, <2>2 DEF PendingKnown
  <2>4. RowTrain(j) # t
    BY <1>2, <2>1, <2>3
  <2> QED BY <1>3, <2>1, <2>2, <2>3, <2>4
<1> QED BY <1>5, <1>6, <1>7, <1>8 DEF FileInv

\* The server waits for one train at most on each resource.
LEMMA OneAwaited ==
    ASSUME SafetyInv, NEW u \in Train, NEW v \in Train, cmd[u] # NoCommand, cmd[v] # NoCommand,
           Way[u] = Way[v]
    PROVE  u = v
<1>1. cmd[u].resource = Way[u] /\ cmd[v].resource = Way[v]
  BY DEF SafetyInv, ServerInv, FileInv, CommandsFiled
<1> QED BY <1>1 DEF SafetyInv, SystemInv, ServiceInv, CommandsAnswerable

\* A row that waits, of a train that is there or whose ACK is under way, is
\* known to the server.
LEMMA WaitingKnown ==
    ASSUME SafetyInv, serving, NEW j \in CommandIds, Pending(j),
           Present(RowTrain(j)) \/ AcceptBefore(queue, Len(queue), j)
    PROVE  cmd[RowTrain(j)] # NoCommand /\ cmd[RowTrain(j)].id = j
<1>1. CASE Present(RowTrain(j))
  BY <1>1 DEF SafetyInv, ServerInv, PendingKnown
<1>2. CASE AcceptBefore(queue, Len(queue), j)
  <2>1. PICK k \in 1..Len(queue) : queue[k].kind = "accept" /\ queue[k].id = j
    BY <1>2 DEF AcceptBefore
  <2>2. Reports(passages, finished, queue, Len(queue))
    BY DEF SafetyInv, ModInv
  <2>3. queue[k].train = RowTrain(j)
    BY <2>1, <2>2 DEF Reports, Filed
  <2>4. Pend(RowTrain(j), j) \/ Actv(RowTrain(j), j)
    BY <2>1, <2>2, <2>3 DEF Reports, AcceptsBacked
  <2>5. ~Accepted(j)
    BY DEF Pending, Accepted
  <2>6. Pend(RowTrain(j), j)
    BY <2>4, <2>5 DEF Actv
  <2> QED BY <2>6 DEF Pend
<1> QED BY <1>1, <1>2

\* The count after the admission.
LEMMA AdmitKeepsCount ==
    ASSUME SafetyInv, NEW p, NEW t, NEW i, NEW d, AtHead(p, t, i, d), p.kind = "accept", Admits(t, i)
    PROVE  CountInv'
<1>1. FileInv /\ CountInv /\ ServiceInv
  BY DEF SafetyInv, SystemInv, ServerInv
<1>2. /\ t \in Train /\ serving /\ serving' /\ UNCHANGED <<revision, snapshot>>
      /\ cmd[t] # NoCommand /\ cmd[t].id = i /\ RowSet(i, "ACCEPTED")
      /\ occupancy'[Way[t]] = IF occupancy[Way[t]] < Capacity THEN occupancy[Way[t]] + 1
                                                              ELSE occupancy[Way[t]]
      /\ \A r \in Resource : r # Way[t] => occupancy'[r] = occupancy[r]
  BY DEF Admits, Answered
<1>3. /\ Pending(i) /\ RowTrain(i) = t /\ i \in CommandIds /\ i \in StoredIds
      /\ \A j \in StoredIds : RowTrain(j)' = RowTrain(j)
      /\ \A j \in CommandIds : Pending(j)' <=> Pending(j) /\ j # i
      /\ \A j \in CommandIds : Accepted(j)' <=> Accepted(j) \/ j = i
      /\ \A j \in CommandIds : j # i => rows'[j] = rows[j]
  BY AdmitRows
<1>4. /\ rows'[i].command = rows[i].command /\ rows[i].command.resource = Way[t]
      /\ rows[i].command.rev = revision
  <2>1. rows[i].command.resource = Way[t]
    BY <1>1, <1>3 DEF FileInv, RowsOnWay, Pending
  <2>2. rows[i].command = cmd[t] /\ cmd[t].rev = revision
    <3>1. ~Issuing(t)
      BY DEF Admits, Answered, Issuing
    <3> QED BY <1>1, <1>2, <3>1, KnownRows DEF FileInv, CommandsFiled
  <2> QED BY <1>2, <2>1, <2>2 DEF RowSet
<1>5. \A r : r # Way[t] => AcceptedIn(r)' = AcceptedIn(r)
  BY <1>2, <1>3, <1>4 DEF AcceptedIn
<1>6. AcceptedIn(Way[t])' = AcceptedIn(Way[t]) \cup {i} /\ i \notin AcceptedIn(Way[t])
  BY <1>2, <1>3, <1>4 DEF AcceptedIn, Pending, Accepted
<1>7. \A r : Counted(r)' = AcceptedIn(r)' /\ Counted(r) = AcceptedIn(r)
  BY <1>2 DEF Counted, AcceptedIn, Taken
<1>8. /\ Cardinality(AcceptedIn(Way[t])) < Capacity
  <2>1. AcceptBefore(queue, Len(queue), i)
    BY DEF AtHead, AcceptBefore
  <2> QED BY <1>1, <1>3, <2>1 DEF CountInv, RoomToEnter
<1>9. Cardinality(AcceptedIn(Way[t])') = Cardinality(AcceptedIn(Way[t])) + 1
  BY <1>6, AcceptedFinite, FS_AddElement
<1>10. /\ Capacity \in Nat /\ Way[t] \in Resource /\ occupancy[Way[t]] \in 0..Capacity
       /\ Cardinality(AcceptedIn(Way[t])) \in Nat
  BY <1>1, <1>2, SystemAssumptions, PolicyAssumptions, AcceptedFinite
     DEF ServiceInv, ManagerInv, ManagerTypeOK
<1>11. AllCounted'
  <2> SUFFICES ASSUME NEW r \in Resource PROVE Cardinality(AcceptedIn(r)') <= occupancy'[r]
    BY <1>7 DEF AllCounted
  <2>1. Cardinality(AcceptedIn(r)) <= occupancy[r]
    BY <1>1, <1>7 DEF CountInv, AllCounted
  <2>2. CASE r = Way[t]
    BY <1>2, <1>8, <1>9, <1>10, <2>1, <2>2
  <2>3. CASE r # Way[t]
    BY <1>2, <1>5, <2>1, <2>3
  <2> QED BY <2>2, <2>3
<1>12. AcceptedFit'
  <2> SUFFICES ASSUME NEW r \in Resource PROVE Cardinality(AcceptedIn(r)') <= Capacity
    BY DEF AcceptedFit
  <2>1. CASE r = Way[t]
    BY <1>8, <1>9, <1>10, <2>1
  <2>2. CASE r # Way[t]
    BY <1>1, <1>5, <2>2 DEF CountInv, AcceptedFit
  <2> QED BY <2>1, <2>2
<1>13. RoomToEnter'
  <2> SUFFICES ASSUME NEW j \in CommandIds, Pending(j)',
                      Present(RowTrain(j))' \/ AcceptBefore(queue, Len(queue), j)'
               PROVE  Cardinality(AcceptedIn(Way[RowTrain(j)])') < Capacity
    BY DEF RoomToEnter
  <2>1. Pending(j) /\ j # i /\ j \in StoredIds /\ RowTrain(j)' = RowTrain(j)
    BY <1>3 DEF Pending, StoredIds
  <2>2. PICK u : u = RowTrain(j)
    OBVIOUS
  <2>3. u \in Train
    BY <1>1, <2>1, <2>2, RowTrains
  <2>4. Present(u) \/ AcceptBefore(queue, Len(queue), j)
    <3>1. CASE Present(RowTrain(j))'
      BY <1>2, <2>1, <2>2, <3>1 DEF Present
    <3>2. CASE AcceptBefore(queue, Len(queue), j)'
      <4>1. Shifted(d) /\ Len(queue) \in Nat
        BY DEF AtHead
      <4> QED BY <3>2, <4>1, AcceptsWereThere
    <3> QED BY <3>1, <3>2
  <2>5. cmd[u] # NoCommand /\ cmd[u].id = j
    BY <1>2, <2>1, <2>2, <2>4, WaitingKnown
  <2>6. Way[u] # Way[t]
    BY <1>2, <2>1, <2>3, <2>5, OneAwaited
  <2>7. AcceptedIn(Way[u])' = AcceptedIn(Way[u])
    BY <1>5, <2>6
  <2>8. Cardinality(AcceptedIn(Way[u])) < Capacity
    BY <1>1, <2>1, <2>2, <2>4 DEF CountInv, RoomToEnter
  <2>9. AcceptedIn(Way[RowTrain(j)])' = AcceptedIn(Way[u])'
    BY <2>1, <2>2
  <2> QED BY <2>7, <2>8, <2>9
<1> QED BY <1>11, <1>12, <1>13 DEF CountInv

\* What stands behind the head of the queue.
LEMMA HeadReports ==
    ASSUME SafetyInv, NEW p, NEW t, NEW i, NEW d, AtHead(p, t, i, d),
           NEW P, P = passages, NEW F, F = finished, NEW q, q = queue, NEW n, n = Len(queue)
    PROVE  /\ n \in Nat /\ 1 <= n /\ 1 \in 1..n /\ q[1] = p /\ p.train = t /\ p.id = i /\ t \in Train
           /\ Reports(P, F, q, n)
           /\ \A k \in 1..n : q[k].train \in Train
           /\ \A k \in 1..n : q[k].id \in CommandIds
           /\ \A k \in 1..n : q[k].train = t => i <= q[k].id
           /\ \A k \in 1..n : (q[k].id = i /\ k # 1) => p.kind = "accept"
           /\ i \in F \/ (p.kind = "accept" /\ Entry(P, t) /\ P[t].command.id = i)
           /\ \A u \in Train : P[u] # NoPassage =>
                 P[u].command.id \in CommandIds /\ P[u].command.id \notin F
           /\ P[t] # NoPassage => i <= P[t].command.id
           /\ d \in {0, 1} /\ Shifted(d) /\ UNCHANGED <<place, ticked, modVars>>
           /\ \A u : Present(u)' <=> Present(u)
<1>1. /\ n \in Nat /\ 1 <= n /\ 1 \in 1..n /\ q[1] = p /\ p.train = t /\ p.id = i /\ t \in Train
      /\ d \in {0, 1} /\ Shifted(d) /\ UNCHANGED <<place, ticked, modVars>>
  BY DEF AtHead
<1>2. Reports(P, F, q, n)
  BY DEF SafetyInv, ModInv
<1>3. /\ Filed(P, q, n) /\ ReportsFinal(P, F, q, n) /\ NotFinished(P, F) /\ InOrder(P, q, n)
      /\ OneEach(q, n)
  BY <1>2 DEF Reports
<1>4. StoredIds \subseteq CommandIds
  BY DEF StoredIds
<1>5. \A k \in 1..n : q[k].train \in Train /\ q[k].id \in CommandIds
  BY <1>3, <1>4 DEF Filed
<1>6. \A k \in 1..n : q[k].train = t => i <= q[k].id
  <2> SUFFICES ASSUME NEW k \in 1..n, q[k].train = t PROVE i <= q[k].id
    OBVIOUS
  <2>1. 1 <= k
    OBVIOUS
  <2> QED BY <1>1, <1>3, <2>1 DEF InOrder
<1>7. \A k \in 1..n : (q[k].id = i /\ k # 1) => p.kind = "accept"
  <2> SUFFICES ASSUME NEW k \in 1..n, q[k].id = i, k # 1 PROVE p.kind = "accept"
    OBVIOUS
  <2>1. 1 < k
    BY <1>1
  <2> QED BY <1>1, <1>3, <2>1 DEF OneEach
<1>8. i \in F \/ (p.kind = "accept" /\ Entry(P, t) /\ P[t].command.id = i)
  BY <1>1, <1>3 DEF ReportsFinal
<1>9. \A u \in Train : P[u] # NoPassage => P[u].command.id \in CommandIds /\ P[u].command.id \notin F
  BY <1>3, <1>4 DEF Filed, NotFinished
<1>10. P[t] # NoPassage => i <= P[t].command.id
  BY <1>1, <1>3 DEF InOrder
<1>11. \A u : Present(u)' <=> Present(u)
  BY <1>1 DEF Present, modVars
<1> QED BY <1>1, <1>2, <1>5, <1>6, <1>7, <1>8, <1>9, <1>10, <1>11

\* What the server waits for and has counted after the admission.
LEMMA AdmitBacking ==
    ASSUME SafetyInv, NEW t, NEW i, Admits(t, i)
    PROVE  /\ \A u \in Train : \A j : u # t =>
                 (Pend(u, j)' <=> Pend(u, j)) /\ (Actv(u, j)' <=> Actv(u, j))
           /\ Actv(t, i)' /\ \A j : ~Pend(t, j)'
           /\ \A j : Pend(t, j) => j = i
           /\ \A j : Actv(t, j) => j < i /\ j \in CommandIds
<1>1. /\ serving /\ serving' /\ t \in Train /\ cmd[t].id = i /\ cmd[t] # NoCommand
      /\ act'[t] = cmd[t] /\ cmd'[t] = NoCommand
  BY DEF Admits, Answered
<1>2. /\ Pending(i) /\ RowTrain(i) = t /\ i \in CommandIds /\ i \in StoredIds
      /\ \A j \in StoredIds : RowTrain(j)' = RowTrain(j)
      /\ \A j \in CommandIds : Pending(j)' <=> Pending(j) /\ j # i
      /\ \A j \in CommandIds : Accepted(j)' <=> Accepted(j) \/ j = i
      /\ \A j \in CommandIds : (Accepted(j) /\ RowTrain(j) = t) => j < i
      /\ \A u \in Train : u # t => cmd'[u] = cmd[u] /\ act'[u] = act[u]
  BY AdmitRows
<1>3. \A j \in CommandIds : Pending(j) \/ Accepted(j) => j \in StoredIds
  BY DEF Pending, Accepted, StoredIds
<1>4. \A j \in CommandIds : Pending(j) \/ Accepted(j) => RowTrain(j)' = RowTrain(j)
  BY <1>2, <1>3
<1>5. ASSUME NEW u \in Train, NEW j, u # t PROVE Pend(u, j)' <=> Pend(u, j)
  <2>1. cmd'[u] = cmd[u]
    BY <1>2, <1>5
  <2> QED BY <1>1, <1>2, <1>4, <1>5, <2>1 DEF Pend
<1>6. ASSUME NEW u \in Train, NEW j, u # t PROVE Actv(u, j)' <=> Actv(u, j)
  <2>1. act'[u] = act[u]
    BY <1>2, <1>6
  <2>2. \A k \in CommandIds : (Accepted(k)' /\ RowTrain(k)' = u) <=> (Accepted(k) /\ RowTrain(k) = u)
    BY <1>2, <1>4, <1>6
  <2> QED BY <1>1, <2>1, <2>2 DEF Actv
<1>7. Actv(t, i)'
  <2>1. \A k \in CommandIds : (Accepted(k)' /\ RowTrain(k)' = t) => k <= i
    BY <1>2, <1>4 DEF CommandIds
  <2> QED BY <1>1, <1>2, <2>1 DEF Actv
<1>8. /\ \A j : ~Pend(t, j)'
      /\ \A j : Pend(t, j) => j = i
  BY <1>1 DEF Pend
<1>9. \A j : Actv(t, j) => j < i /\ j \in CommandIds
  BY <1>2 DEF Actv
<1> QED BY <1>5, <1>6, <1>7, <1>8, <1>9

\* The mod after the admission.
LEMMA AdmitKeepsMod ==
    ASSUME SafetyInv, NEW p, NEW t, NEW i, NEW d, AtHead(p, t, i, d), p.kind = "accept", Admits(t, i)
    PROVE  ModInv'
<1>1. PICK P : P = passages
  OBVIOUS
<1>2. PICK F : F = finished
  OBVIOUS
<1>3. PICK q : q = queue
  OBVIOUS
<1>4. PICK n : n = Len(queue)
  OBVIOUS
<1>5. /\ n \in Nat /\ 1 <= n /\ q[1] = p /\ p.train = t /\ p.id = i /\ t \in Train
      /\ Reports(P, F, q, n)
      /\ \A k \in 1..n : q[k].train \in Train
      /\ \A k \in 1..n : q[k].id \in CommandIds
      /\ \A k \in 1..n : q[k].train = t => i <= q[k].id
      /\ i \in F \/ (Entry(P, t) /\ P[t].command.id = i)
      /\ \A u \in Train : P[u] # NoPassage => P[u].command.id \in CommandIds /\ P[u].command.id \notin F
      /\ P[t] # NoPassage => i <= P[t].command.id
      /\ d \in {0, 1} /\ Shifted(d) /\ UNCHANGED <<place, ticked, modVars>>
      /\ \A u : Present(u)' <=> Present(u)
  BY <1>1, <1>2, <1>3, <1>4, HeadReports
<1>6. /\ \A u \in Train : \A j : u # t => (Pend(u, j)' <=> Pend(u, j)) /\ (Actv(u, j)' <=> Actv(u, j))
      /\ Actv(t, i)' /\ \A j : ~Pend(t, j)'
      /\ \A j : Pend(t, j) => j = i
      /\ \A j : Actv(t, j) => j < i /\ j \in CommandIds
  BY AdmitBacking
<1>7. /\ RowsKept /\ StoredIds' = StoredIds /\ i \in CommandIds
      /\ \A j \in StoredIds : RowTrain(j)' = RowTrain(j)
  BY AdmitRows
<1>8. AcceptsBacked(q, n) /\ ReleasesBacked(P)
  BY <1>5 DEF Reports
<1>9. \A k \in 1..n : q[k].train = t => ~Actv(t, q[k].id)
  <2> SUFFICES ASSUME NEW k \in 1..n, q[k].train = t, Actv(t, q[k].id) PROVE FALSE
    OBVIOUS
  <2>1. i <= q[k].id /\ q[k].id < i /\ q[k].id \in CommandIds
    BY <1>5, <1>6
  <2> QED BY <1>7, <2>1 DEF CommandIds
<1>10. \A k \in 1..n : q[k].kind = "accept" => Pend(q[k].train, q[k].id)' \/ Actv(q[k].train, q[k].id)'
  <2> SUFFICES ASSUME NEW k \in 1..n, q[k].kind = "accept"
               PROVE  Pend(q[k].train, q[k].id)' \/ Actv(q[k].train, q[k].id)'
    OBVIOUS
  <2>1. Pend(q[k].train, q[k].id) \/ Actv(q[k].train, q[k].id)
    BY <1>8 DEF AcceptsBacked
  <2>2. CASE q[k].train = t
    <3>1. q[k].id = i
      BY <1>6, <1>9, <2>1, <2>2
    <3> QED BY <1>6, <2>2, <3>1
  <2>3. CASE q[k].train # t
    BY <1>5, <1>6, <2>1, <2>3
  <2> QED BY <2>2, <2>3
<1>11. \A k \in 1..n : Actv(q[k].train, q[k].id) => Actv(q[k].train, q[k].id)'
  BY <1>5, <1>6, <1>9
<1>12. \A u \in Train : (Entry(P, u) /\ Actv(u, P[u].command.id)) => Actv(u, P[u].command.id)'
  <2> SUFFICES ASSUME NEW u \in Train, Entry(P, u), Actv(u, P[u].command.id)
               PROVE  Actv(u, P[u].command.id)'
    OBVIOUS
  <2>1. CASE u = t
    <3>1. i <= P[t].command.id /\ P[t].command.id < i /\ P[t].command.id \in CommandIds
      BY <1>5, <1>6, <2>1 DEF Entry
    <3> QED BY <1>7, <3>1 DEF CommandIds
  <2>2. CASE u # t
    BY <1>6, <2>2
  <2> QED BY <2>1, <2>2
<1>13. \A u \in Train : (P[u] # NoPassage /\ ~P[u].acknowledged /\ Present(u)') =>
          Pend(u, P[u].command.id)'
  <2> SUFFICES ASSUME NEW u \in Train, P[u] # NoPassage, ~P[u].acknowledged, Present(u)'
               PROVE  Pend(u, P[u].command.id)'
    OBVIOUS
  <2>1. Pend(u, P[u].command.id)
    BY <1>5, <1>8 DEF ReleasesBacked
  <2>2. u # t
    <3> SUFFICES ASSUME u = t PROVE FALSE
      OBVIOUS
    <3>1. P[t].command.id = i
      BY <1>6, <2>1
    <3> QED BY <1>5, <3>1 DEF Entry
  <2> QED BY <1>6, <2>1, <2>2
<1>14. d \in Nat /\ (1 + d)..n \subseteq 1..n /\ \A k \in 1..d : k = 1
  BY <1>5
<1>15. BackingKept(P, q, n, d)
  <2>1. \A k \in 1..d : Actv(q[k].train, q[k].id)'
    BY <1>5, <1>6, <1>14
  <2> QED BY <1>5, <1>7, <1>10, <1>11, <1>12, <1>13, <1>14, <2>1 DEF BackingKept
<1>16. InboxKept
  BY <1>1, <1>2, <1>5, <1>6 DEF InboxKept, Entry
<1>17. PlacesKept /\ ClaimsApart'
  BY <1>6 DEF PlacesKept, ClaimsApart, Admits, Answered
<1>18. BackingKept(passages, queue, Len(queue), d)
  BY <1>1, <1>3, <1>4, <1>15
<1> QED BY <1>5, <1>7, <1>16, <1>17, <1>18, ServerKeepsMod DEF ServerKeeps

\* Command i of train t is over: it was refused, or its train has left.
Refused(t) == cmd'[t] = NoCommand /\ act'[t] = act[t] /\ UNCHANGED occupancy
Left(t) ==
    /\ act'[t] = NoCommand /\ cmd'[t] = cmd[t]
    /\ occupancy'[Way[t]] = occupancy[Way[t]] - 1
    /\ \A r \in Resource : r # Way[t] => occupancy'[r] = occupancy[r]
Ends(t, i, s) ==
    /\ Answered(i, s) /\ s # "ACCEPTED" /\ t \in Train
    /\ \A u \in Train : u # t => cmd'[u] = cmd[u] /\ act'[u] = act[u]
    /\ (Pend(t, i) /\ Refused(t)) \/ (Actv(t, i) /\ Left(t))

\* A refused command is over.
LEMMA RefusalFacts ==
    ASSUME SafetyInv, SafeConditions, NEW p, NEW t, NEW i, NEW d, AtHead(p, t, i, d), Matches(p),
           NEW o \in Ending, RejectCommand(t, o)
    PROVE  Ends(t, i, "REJECTED")
<1>1. ServiceInv /\ Succeeded(o) /\ Applied(o) /\ UNCHANGED modVars
  BY Commits DEF SafetyInv, SystemInv, AtHead
<1>2. /\ cmd[t] # NoCommand /\ cmd[t].id = i /\ cmd[t].resource = Way[t]
      /\ Pend(t, i) /\ rows[i].status = "PENDING"
      /\ serving /\ job = "idle" /\ handling = {} /\ Way[t] \in Resource
      /\ PendingFor(Way[t], t) /\ i \in StoredIds /\ t \in Train
  BY MatchFacts
<1>3. pendingDecision[Way[t]] # NoDecision
  BY <1>2 DEF PendingFor
<1>4. /\ rows' = UpdateStatus(i, {"PENDING"}, "REJECTED")
      /\ CancelPending(Way[t]) /\ UNCHANGED <<revision, stored, jobVars>>
      /\ cmd' = [cmd EXCEPT ![t] = NoCommand] /\ act' = act
  BY <1>1, <1>2, <1>3 DEF RejectCommand
<1>5. RowSet(i, "REJECTED")
  BY <1>1, <1>2, <1>4, StatusSet DEF Statuses
<1>6. UNCHANGED occupancy /\ serving'
  BY <1>4 DEF CancelPending
<1>7. Answered(i, "REJECTED")
  BY <1>1, <1>2, <1>4, <1>5, <1>6 DEF Answered, jobVars, modVars
<1>8. /\ cmd'[t] = NoCommand /\ act'[t] = act[t]
      /\ \A u \in Train : u # t => cmd'[u] = cmd[u] /\ act'[u] = act[u]
  BY <1>1, <1>2, <1>4 DEF ServiceInv, ServiceTypeOK
<1> QED BY <1>2, <1>6, <1>7, <1>8 DEF Ends, Refused

\* A train that reports its exit is counted.
LEMMA ClearedCounted ==
    ASSUME SafetyInv, NEW p, NEW t, NEW i, NEW d, AtHead(p, t, i, d), p.kind = "cleared"
    PROVE  /\ Actv(t, i) /\ act[t] # NoCommand /\ act[t].id = i /\ rows[i].status = "ACCEPTED"
           /\ Way[t] \in Resource /\ occupancy[Way[t]] > 0 /\ t \in Train
           /\ serving /\ job = "idle" /\ handling = {} /\ i \in StoredIds
<1>1. ServiceInv /\ FileInv /\ CountInv /\ Reports(passages, finished, queue, Len(queue))
  BY DEF SafetyInv, SystemInv, ServerInv, ModInv
<1>2. /\ Idle /\ p = queue[1] /\ t = p.train /\ i = p.id /\ t \in Train
      /\ i \in StoredIds /\ Len(queue) \in Nat /\ 1 <= Len(queue)
  BY DEF AtHead
<1>3. serving /\ job = "idle" /\ handling = {}
  BY <1>1, <1>2 DEF Idle, ServiceInv, JobOK
<1>4. Actv(t, i)
  <2>1. PICK q : q = queue
    OBVIOUS
  <2>2. PICK n \in Nat : n = Len(queue) /\ 1 <= n
    BY <1>2
  <2>3. ClearsBacked(q, n) /\ 1 \in 1..n
    BY <1>1, <2>1, <2>2 DEF Reports
  <2>4. q[1].kind = "cleared" /\ q[1].train = t /\ q[1].id = i
    BY <1>2, <2>1
  <2>5. Actv(t, i) \/ AcceptBefore(q, 1 - 1, i)
    BY <2>3, <2>4 DEF ClearsBacked
  <2> QED BY <2>5 DEF AcceptBefore
<1>5. act[t] # NoCommand /\ act[t].id = i
  BY <1>3, <1>4 DEF Actv
<1>6. i \in CommandIds /\ Accepted(i) /\ RowTrain(i) = t /\ rows[i].command = act[t]
  BY <1>2, <1>5, KnownRows
<1>7. rows[i].command.resource = Way[t] /\ rows[i].command.rev = revision
  BY <1>1, <1>2, <1>5, <1>6 DEF FileInv, RowsOnWay, ActivesFiled, Accepted
<1>8. i \in Counted(Way[t]) /\ Way[t] \in Resource
  BY <1>2, <1>3, <1>6, <1>7, SystemAssumptions DEF Counted, AcceptedIn, Taken
<1>9. Cardinality(Counted(Way[t])) # 0 /\ Cardinality(Counted(Way[t])) \in Nat
  BY <1>8, AcceptedFinite, FS_EmptySet
<1>10. Cardinality(Counted(Way[t])) <= occupancy[Way[t]] /\ occupancy[Way[t]] \in Nat
  BY <1>1, <1>8, PolicyAssumptions DEF CountInv, AllCounted, ServiceInv, ManagerInv, ManagerTypeOK
<1>11. occupancy[Way[t]] > 0
  BY <1>9, <1>10
<1> QED BY <1>2, <1>3, <1>4, <1>5, <1>6, <1>8, <1>11 DEF Accepted

\* The passage of a train that has left is over.
LEMMA ExitFacts ==
    ASSUME SafetyInv, SafeConditions, NEW p, NEW t, NEW i, NEW d, AtHead(p, t, i, d),
           p.kind = "cleared", NEW now, NEW o \in Ending, ResourceCleared(t, Way[t], {}, now, o)
    PROVE  Ends(t, i, "CLEARED")
<1>1. ServiceInv /\ Succeeded(o) /\ Applied(o) /\ UNCHANGED modVars
  BY Commits DEF SafetyInv, SystemInv, AtHead
<1>2. /\ Actv(t, i) /\ act[t] # NoCommand /\ act[t].id = i /\ rows[i].status = "ACCEPTED"
      /\ Way[t] \in Resource /\ occupancy[Way[t]] > 0 /\ t \in Train
      /\ serving /\ job = "idle" /\ handling = {} /\ i \in StoredIds
  BY ClearedCounted
<1>3. Way[t] # NoResource
  BY <1>2, ServiceAssumptions
<1>4. Exits(Way[t])
  BY <1>2, <1>3 DEF Exits
<1>5. /\ rows' = UpdateStatus(i, {"ACCEPTED", "CLEARED"}, "CLEARED")
      /\ occupancy' = [occupancy EXCEPT ![Way[t]] = @ - 1]
      /\ act' = [act EXCEPT ![t] = NoCommand]
      /\ UNCHANGED <<serving, cmd, revision, stored, jobVars>>
  BY <1>1, <1>2, <1>3, <1>4 DEF ResourceCleared
<1>6. RowSet(i, "CLEARED")
  BY <1>1, <1>2, <1>5, StatusSet DEF Statuses
<1>7. Answered(i, "CLEARED")
  BY <1>1, <1>2, <1>5, <1>6 DEF Answered, jobVars, modVars
<1>8. /\ act'[t] = NoCommand /\ cmd'[t] = cmd[t]
      /\ \A u \in Train : u # t => cmd'[u] = cmd[u] /\ act'[u] = act[u]
  BY <1>1, <1>2, <1>5 DEF ServiceInv, ServiceTypeOK
<1>9. /\ occupancy'[Way[t]] = occupancy[Way[t]] - 1
      /\ \A r \in Resource : r # Way[t] => occupancy'[r] = occupancy[r]
  BY <1>1, <1>2, <1>5 DEF ServiceInv, ManagerInv, ManagerTypeOK
<1> QED BY <1>2, <1>7, <1>8, <1>9 DEF Ends, Left

\* The rows and the commands when one is over.
LEMMA EndRows ==
    ASSUME SafetyInv, NEW t, NEW i, NEW s, Ends(t, i, s)
    PROVE  /\ StoredIds' = StoredIds /\ RowsKept /\ i \in CommandIds /\ i \in StoredIds
           /\ RowTrain(i) = t
           /\ \A j \in StoredIds : RowTrain(j)' = RowTrain(j)
           /\ \A j \in CommandIds : Pending(j)' <=> Pending(j) /\ j # i
           /\ \A j \in CommandIds : Accepted(j)' <=> Accepted(j) /\ j # i
           /\ \A j \in CommandIds : j # i => rows'[j] = rows[j]
           /\ \A u \in Train : cmd'[u] # NoCommand =>
                 cmd'[u] = cmd[u] /\ cmd[u].id \in CommandIds /\ cmd[u].id # i
           /\ \A u \in Train : act'[u] # NoCommand =>
                 act'[u] = act[u] /\ act[u].id \in CommandIds /\ act[u].id # i
           /\ \A u \in Train : (cmd[u] # NoCommand /\ cmd[u].id # i) => cmd'[u] = cmd[u]
           /\ \A u \in Train : (act[u] # NoCommand /\ act[u].id # i) => act'[u] = act[u]
<1>1. /\ serving /\ job = "idle" /\ t \in Train /\ i \in StoredIds /\ s # "PENDING" /\ s # "ACCEPTED"
      /\ RowSet(i, s)
      /\ \A u \in Train : u # t => cmd'[u] = cmd[u] /\ act'[u] = act[u]
  BY DEF Ends, Answered
<1>2. /\ StoredIds' = StoredIds /\ RowsKept
      /\ \A j \in StoredIds : RowTrain(j)' = RowTrain(j)
      /\ \A j \in CommandIds : j # i => /\ Pending(j)' <=> Pending(j)
                                        /\ Accepted(j)' <=> Accepted(j)
                                        /\ rows'[j] = rows[j]
      /\ ~Pending(i)' /\ ~Accepted(i)'
  BY <1>1, RowSetFacts
<1>3. i \in CommandIds /\ RowTrain(i) = t
  BY DEF Ends, Pend, Actv
<1>4. \A u : ~Issuing(u)
  BY <1>1 DEF Issuing
<1>5. /\ \A u \in Train : cmd[u] # NoCommand =>
            cmd[u].id \in CommandIds /\ Pending(cmd[u].id) /\ RowTrain(cmd[u].id) = u
      /\ \A u \in Train : act[u] # NoCommand =>
            act[u].id \in CommandIds /\ Accepted(act[u].id) /\ RowTrain(act[u].id) = u
  BY <1>4, KnownRows
<1>6. ~(Pending(i) /\ Accepted(i))
  BY DEF Pending, Accepted
<1>7. CASE Pend(t, i) /\ Refused(t)
  <2>1. /\ cmd'[t] = NoCommand /\ act'[t] = act[t] /\ Pending(i)
        /\ cmd[t].id = i
    BY <1>1, <1>7 DEF Pend, Refused
  <2> QED BY <1>1, <1>2, <1>3, <1>5, <1>6, <2>1
<1>8. CASE Actv(t, i) /\ Left(t)
  <2>1. /\ act'[t] = NoCommand /\ cmd'[t] = cmd[t] /\ Accepted(i)
        /\ act[t].id = i
    BY <1>1, <1>8 DEF Actv, Left
  <2> QED BY <1>1, <1>2, <1>3, <1>5, <1>6, <2>1
<1> QED BY <1>7, <1>8 DEF Ends

\* The files when a command is over.
LEMMA EndKeepsFiles ==
    ASSUME SafetyInv, NEW t, NEW i, NEW s, Ends(t, i, s)
    PROVE  FileInv' /\ PendingKnown' /\ LoopsFit'
<1>1. FileInv /\ PendingKnown /\ ServiceInv
  BY DEF SafetyInv, SystemInv, ServerInv
<1>2. /\ Answered(i, s) /\ serving /\ serving' /\ job = "idle" /\ job' = "idle"
      /\ UNCHANGED <<revision, snapshot>>
  BY DEF Ends, Answered
<1>3. /\ \A j \in StoredIds : RowTrain(j)' = RowTrain(j)
      /\ \A j \in CommandIds : Pending(j)' <=> Pending(j) /\ j # i
      /\ \A j \in CommandIds : Accepted(j)' <=> Accepted(j) /\ j # i
      /\ \A j \in CommandIds : j # i => rows'[j] = rows[j]
      /\ \A u \in Train : cmd'[u] # NoCommand =>
            cmd'[u] = cmd[u] /\ cmd[u].id \in CommandIds /\ cmd[u].id # i
      /\ \A u \in Train : act'[u] # NoCommand =>
            act'[u] = act[u] /\ act[u].id \in CommandIds /\ act[u].id # i
      /\ \A u \in Train : (cmd[u] # NoCommand /\ cmd[u].id # i) => cmd'[u] = cmd[u]
  BY EndRows
<1>4. \A j \in CommandIds : Pending(j) \/ Accepted(j) => j \in StoredIds
  BY DEF Pending, Accepted, StoredIds
<1>5. RowsOnWay' /\ RevisionStored' /\ PendingLast' /\ RestoredSoFar' /\ LoopsFit'
  BY <1>2, AnsweredFiles
<1>6. CommandsFiled'
  <2> SUFFICES ASSUME NEW u \in Train, cmd'[u] # NoCommand
               PROVE  /\ cmd'[u].rev = revision /\ cmd'[u].resource = Way[u]
                      /\ rows'[cmd'[u].id] = [command |-> cmd'[u], status |-> "PENDING"]
    BY <1>2 DEF CommandsFiled
  <2>1. cmd'[u] = cmd[u] /\ cmd[u].id \in CommandIds /\ cmd[u].id # i
    BY <1>3
  <2>2. /\ cmd[u].rev = revision /\ cmd[u].resource = Way[u]
        /\ rows[cmd[u].id] = [command |-> cmd[u], status |-> "PENDING"]
    BY <1>1, <1>2, <2>1 DEF FileInv, CommandsFiled, Issuing
  <2> QED BY <1>3, <2>1, <2>2
<1>7. ActivesFiled'
  <2> SUFFICES ASSUME NEW u \in Train, act'[u] # NoCommand
               PROVE  /\ act'[u].rev = revision
                      /\ rows'[act'[u].id] = [command |-> act'[u], status |-> "ACCEPTED"]
                      /\ \A j \in CommandIds : (Accepted(j)' /\ RowTrain(j)' = u) => j <= act'[u].id
    BY <1>2 DEF ActivesFiled
  <2>1. act'[u] = act[u] /\ act[u].id \in CommandIds /\ act[u].id # i
    BY <1>3
  <2>2. /\ act[u].rev = revision
        /\ rows[act[u].id] = [command |-> act[u], status |-> "ACCEPTED"]
        /\ \A j \in CommandIds : (Accepted(j) /\ RowTrain(j) = u) => j <= act[u].id
    BY <1>1, <1>2, <2>1 DEF FileInv, ActivesFiled, Taken
  <2>3. ASSUME NEW j \in CommandIds, Accepted(j)', RowTrain(j)' = u
        PROVE  Accepted(j) /\ RowTrain(j) = u
    BY <1>3, <1>4, <2>3
  <2> QED BY <1>3, <2>1, <2>2, <2>3
<1>8. PendingKnown'
  <2> SUFFICES ASSUME NEW j \in CommandIds, Pending(j)', Present(RowTrain(j))'
               PROVE  cmd'[RowTrain(j)'] # NoCommand /\ cmd'[RowTrain(j)'].id = j
    BY DEF PendingKnown
  <2>1. Pending(j) /\ j # i /\ RowTrain(j)' = RowTrain(j)
    BY <1>3, <1>4
  <2>2. Present(RowTrain(j)) /\ RowTrain(j) \in Train
    BY <1>1, <1>2, <1>4, <2>1, RowTrains DEF Present
  <2>3. cmd[RowTrain(j)] # NoCommand /\ cmd[RowTrain(j)].id = j
    BY <1>1, <1>2, <2>1, <2>2 DEF PendingKnown
  <2> QED BY <1>3, <2>1, <2>2, <2>3
<1> QED BY <1>5, <1>6, <1>7, <1>8 DEF FileInv

\* A train whose command waits, and whose ACK may come, was waiting before.
LEMMA StillWaits ==
    ASSUME NEW p, NEW t, NEW i, NEW d, AtHead(p, t, i, d), NEW j, RowTrain(j)' = RowTrain(j),
           Present(RowTrain(j))' \/ AcceptBefore(queue, Len(queue), j)'
    PROVE  Present(RowTrain(j)) \/ AcceptBefore(queue, Len(queue), j)
<1>1. Shifted(d) /\ Len(queue) \in Nat /\ snapshot' = snapshot
  BY DEF AtHead, modVars
<1>2. CASE Present(RowTrain(j))'
  BY <1>1, <1>2 DEF Present
<1>3. CASE AcceptBefore(queue, Len(queue), j)'
  BY <1>1, <1>3, AcceptsWereThere
<1> QED BY <1>2, <1>3

\* The count when a command is over.
LEMMA EndKeepsCount ==
    ASSUME SafetyInv, NEW p, NEW t, NEW i, NEW d, NEW s, AtHead(p, t, i, d), Ends(t, i, s)
    PROVE  CountInv'
<1>1. FileInv /\ CountInv /\ ServiceInv
  BY DEF SafetyInv, SystemInv, ServerInv
<1>2. t \in Train /\ serving /\ serving' /\ UNCHANGED revision /\ job = "idle"
  BY DEF Ends, Answered
<1>3. /\ i \in CommandIds /\ i \in StoredIds /\ RowTrain(i) = t
      /\ \A j \in StoredIds : RowTrain(j)' = RowTrain(j)
      /\ \A j \in CommandIds : Pending(j)' <=> Pending(j) /\ j # i
      /\ \A j \in CommandIds : Accepted(j)' <=> Accepted(j) /\ j # i
      /\ \A j \in CommandIds : j # i => rows'[j] = rows[j]
  BY EndRows
<1>4. \A r : AcceptedIn(r)' = AcceptedIn(r) \ {i}
  BY <1>2, <1>3 DEF AcceptedIn
<1>5. \A r : Counted(r)' = AcceptedIn(r)' /\ Counted(r) = AcceptedIn(r)
  BY <1>2 DEF Counted, AcceptedIn, Taken
<1>6. ASSUME NEW r
      PROVE  /\ Cardinality(AcceptedIn(r)') <= Cardinality(AcceptedIn(r))
             /\ Cardinality(AcceptedIn(r)') \in Nat /\ Cardinality(AcceptedIn(r)) \in Nat
             /\ i \in AcceptedIn(r) => Cardinality(AcceptedIn(r)') = Cardinality(AcceptedIn(r)) - 1
  <2>1. PICK A : A = AcceptedIn(r)
    OBVIOUS
  <2>2. IsFiniteSet(A) /\ A \ {i} \subseteq A
    BY <2>1, AcceptedFinite
  <2>3. IsFiniteSet(A \ {i}) /\ Cardinality(A \ {i}) <= Cardinality(A)
    BY <2>2, FS_Subset
  <2>4. Cardinality(A \ {i}) \in Nat /\ Cardinality(A) \in Nat
    BY <2>2, <2>3, FS_CardinalityType
  <2>5. i \in A => Cardinality(A \ {i}) = Cardinality(A) - 1
    BY <2>2, FS_RemoveElement
  <2>6. AcceptedIn(r)' = A \ {i}
    BY <1>4, <2>1
  <2> QED BY <2>1, <2>3, <2>4, <2>5, <2>6
<1>7. Capacity \in Nat /\ Way[t] \in Resource /\ \A r \in Resource : occupancy[r] \in Nat
  BY <1>1, <1>2, SystemAssumptions, PolicyAssumptions DEF ServiceInv, ManagerInv, ManagerTypeOK
<1>8. AllCounted'
  <2> SUFFICES ASSUME NEW r \in Resource PROVE Cardinality(AcceptedIn(r)') <= occupancy'[r]
    BY <1>5 DEF AllCounted
  <2>1. Cardinality(AcceptedIn(r)) <= occupancy[r]
    BY <1>1, <1>5 DEF CountInv, AllCounted
  <2>2. CASE occupancy'[r] = occupancy[r]
    BY <1>6, <1>7, <2>1, <2>2
  <2>3. CASE Actv(t, i) /\ Left(t) /\ r = Way[t]
    <3>1. act[t] # NoCommand /\ act[t].id = i /\ Accepted(i)
      BY <1>2, <2>3 DEF Actv
    <3>2. rows[i].command.resource = Way[t] /\ rows[i].command.rev = revision
      <4>1. rows[i].command = act[t]
        BY <1>2, <3>1, KnownRows
      <4>2. act[t].rev = revision
        BY <1>1, <1>2, <3>1 DEF FileInv, ActivesFiled
      <4>3. rows[i].command.resource = Way[t]
        BY <1>1, <1>3, <3>1 DEF FileInv, RowsOnWay, Accepted
      <4> QED BY <4>1, <4>2, <4>3
    <3>3. i \in AcceptedIn(r)
      BY <1>3, <2>3, <3>1, <3>2 DEF AcceptedIn
    <3>4. occupancy'[r] = occupancy[r] - 1
      BY <2>3 DEF Left
    <3> QED BY <1>6, <1>7, <2>1, <3>3, <3>4
  <2>4. occupancy'[r] = occupancy[r] \/ (Actv(t, i) /\ Left(t) /\ r = Way[t])
    BY DEF Ends, Refused, Left
  <2> QED BY <2>2, <2>3, <2>4
<1>9. AcceptedFit'
  <2> SUFFICES ASSUME NEW r \in Resource PROVE Cardinality(AcceptedIn(r)') <= Capacity
    BY DEF AcceptedFit
  <2>1. Cardinality(AcceptedIn(r)) <= Capacity
    BY <1>1 DEF CountInv, AcceptedFit
  <2> QED BY <1>6, <1>7, <2>1
<1>10. RoomToEnter'
  <2> SUFFICES ASSUME NEW j \in CommandIds, Pending(j)',
                      Present(RowTrain(j))' \/ AcceptBefore(queue, Len(queue), j)'
               PROVE  Cardinality(AcceptedIn(Way[RowTrain(j)])') < Capacity
    BY DEF RoomToEnter
  <2>1. Pending(j) /\ j \in StoredIds /\ RowTrain(j)' = RowTrain(j)
    BY <1>3 DEF Pending, StoredIds
  <2>2. Present(RowTrain(j)) \/ AcceptBefore(queue, Len(queue), j)
    BY <2>1, StillWaits
  <2>3. PICK r : r = Way[RowTrain(j)]
    OBVIOUS
  <2>4. Cardinality(AcceptedIn(r)) < Capacity
    BY <1>1, <2>1, <2>2, <2>3 DEF CountInv, RoomToEnter
  <2>5. AcceptedIn(Way[RowTrain(j)])' = AcceptedIn(r)'
    BY <2>1, <2>3
  <2>6. Cardinality(AcceptedIn(r)') < Capacity
    BY <1>6, <1>7, <2>4
  <2> QED BY <2>5, <2>6
<1> QED BY <1>8, <1>9, <1>10 DEF CountInv

\* What the server waits for and has counted when command i is over.
LEMMA EndBacking ==
    ASSUME SafetyInv, NEW t, NEW i, NEW s, Ends(t, i, s)
    PROVE  /\ \A u \in Train : \A j : Pend(u, j)' <=> Pend(u, j) /\ j # i
           /\ \A u \in Train : \A j : (Actv(u, j) /\ j # i) => Actv(u, j)'
<1>1. serving /\ serving'
  BY DEF Ends, Answered
<1>2. /\ StoredIds' = StoredIds
      /\ \A j \in StoredIds : RowTrain(j)' = RowTrain(j)
      /\ \A j \in CommandIds : Pending(j)' <=> Pending(j) /\ j # i
      /\ \A j \in CommandIds : Accepted(j)' <=> Accepted(j) /\ j # i
      /\ \A u \in Train : cmd'[u] # NoCommand => cmd'[u] = cmd[u] /\ cmd[u].id # i
      /\ \A u \in Train : (cmd[u] # NoCommand /\ cmd[u].id # i) => cmd'[u] = cmd[u]
      /\ \A u \in Train : (act[u] # NoCommand /\ act[u].id # i) => act'[u] = act[u]
  BY EndRows
<1>3. \A j \in CommandIds : Pending(j) \/ Accepted(j) => RowTrain(j)' = RowTrain(j)
  BY <1>2 DEF Pending, Accepted, StoredIds
<1>4. ASSUME NEW u \in Train, NEW j PROVE Pend(u, j)' <=> Pend(u, j) /\ j # i
  <2>1. ASSUME Pend(u, j)' PROVE Pend(u, j) /\ j # i
    BY <1>1, <1>2, <1>3, <2>1 DEF Pend
  <2>2. ASSUME Pend(u, j), j # i PROVE Pend(u, j)'
    <3>1. cmd'[u] = cmd[u]
      BY <1>1, <1>2, <2>2 DEF Pend
    <3> QED BY <1>1, <1>2, <1>3, <2>2, <3>1 DEF Pend
  <2> QED BY <2>1, <2>2
<1>5. ASSUME NEW u \in Train, NEW j, Actv(u, j), j # i PROVE Actv(u, j)'
  <2>1. act'[u] = act[u]
    BY <1>1, <1>2, <1>5 DEF Actv
  <2>2. \A k \in CommandIds : (Accepted(k)' /\ RowTrain(k)' = u) => Accepted(k) /\ RowTrain(k) = u
    BY <1>2, <1>3
  <2> QED BY <1>1, <1>2, <1>3, <1>5, <2>1, <2>2 DEF Actv
<1> QED BY <1>4, <1>5

\* The mod when a command is over.
LEMMA EndKeepsMod ==
    ASSUME SafetyInv, NEW p, NEW t, NEW i, NEW d, NEW s, AtHead(p, t, i, d), p.kind # "accept",
           Ends(t, i, s)
    PROVE  ModInv'
<1>1. PICK P : P = passages
  OBVIOUS
<1>2. PICK F : F = finished
  OBVIOUS
<1>3. PICK q : q = queue
  OBVIOUS
<1>4. PICK n : n = Len(queue)
  OBVIOUS
<1>5. /\ n \in Nat /\ 1 <= n /\ q[1] = p /\ i \in F
      /\ Reports(P, F, q, n)
      /\ \A k \in 1..n : q[k].train \in Train
      /\ \A k \in 1..n : k # 1 => q[k].id # i
      /\ \A u \in Train : P[u] # NoPassage => P[u].command.id \notin F
      /\ d \in {0, 1} /\ Shifted(d) /\ UNCHANGED <<place, ticked, modVars>>
      /\ \A u : Present(u)' <=> Present(u)
  BY <1>1, <1>2, <1>3, <1>4, HeadReports
<1>6. /\ \A u \in Train : \A j : Pend(u, j)' <=> Pend(u, j) /\ j # i
      /\ \A u \in Train : \A j : (Actv(u, j) /\ j # i) => Actv(u, j)'
  BY EndBacking
<1>7. /\ RowsKept /\ StoredIds' = StoredIds
      /\ \A j \in StoredIds : RowTrain(j)' = RowTrain(j)
  BY EndRows
<1>8. AcceptsBacked(q, n) /\ ReleasesBacked(P)
  BY <1>5 DEF Reports
<1>9. d \in Nat /\ (1 + d)..n \subseteq 1..n /\ \A k \in 1..d : k = 1
  BY <1>5
<1>10. \A k \in 1..n : q[k].kind = "accept" => Pend(q[k].train, q[k].id)' \/ Actv(q[k].train, q[k].id)'
  <2> SUFFICES ASSUME NEW k \in 1..n, q[k].kind = "accept"
               PROVE  Pend(q[k].train, q[k].id)' \/ Actv(q[k].train, q[k].id)'
    OBVIOUS
  <2>1. Pend(q[k].train, q[k].id) \/ Actv(q[k].train, q[k].id)
    BY <1>8 DEF AcceptsBacked
  <2>2. k # 1
    BY <1>5
  <2> QED BY <1>5, <1>6, <2>1, <2>2
<1>11. \A k \in (1 + d)..n : (q[k].kind = "cleared" /\ Actv(q[k].train, q[k].id)) =>
          Actv(q[k].train, q[k].id)'
  <2> SUFFICES ASSUME NEW k \in (1 + d)..n, q[k].kind = "cleared", Actv(q[k].train, q[k].id)
               PROVE  Actv(q[k].train, q[k].id)'
    OBVIOUS
  <2>1. k \in 1..n
    BY <1>9
  <2>2. k # 1
    <3>1. CASE d = 1
      BY <3>1
    <3>2. CASE d = 0
      BY <1>5, <3>2 DEF AtHead
    <3> QED BY <1>5, <3>1, <3>2
  <2> QED BY <1>5, <1>6, <2>1, <2>2
<1>12. \A u \in Train : P[u] # NoPassage => P[u].command.id # i
  BY <1>5
<1>13. \A u \in Train : (Entry(P, u) /\ Actv(u, P[u].command.id)) => Actv(u, P[u].command.id)'
  BY <1>6, <1>12 DEF Entry
<1>14. \A u \in Train : (P[u] # NoPassage /\ ~P[u].acknowledged /\ Present(u)') =>
          Pend(u, P[u].command.id)'
  BY <1>5, <1>6, <1>8, <1>12 DEF ReleasesBacked
<1>15. \A k \in 1..d : q[k].kind # "accept"
  BY <1>5, <1>9
<1>16. BackingKept(P, q, n, d)
  BY <1>5, <1>7, <1>9, <1>10, <1>11, <1>13, <1>14, <1>15 DEF BackingKept
<1>17. InboxKept /\ PlacesKept /\ ClaimsApart'
  <2>1. InboxKept /\ PlacesKept
    BY <1>2, <1>5, <1>6 DEF InboxKept, PlacesKept
  <2> QED BY <2>1 DEF ClaimsApart, Ends, Answered
<1>18. BackingKept(passages, queue, Len(queue), d)
  BY <1>1, <1>3, <1>4, <1>16
<1> QED BY <1>5, <1>7, <1>17, <1>18, ServerKeepsMod DEF ServerKeeps

\* A report that the server has no command for changes nothing.
LEMMA IgnoredKeeps ==
    ASSUME SafetyInv, NEW p, NEW t, NEW i, NEW d, AtHead(p, t, i, d), p.kind # "cleared",
           ~Matches(p), UNCHANGED serviceVars
    PROVE  ServerInv' /\ ModInv'
<1>1. FileInv /\ CountInv /\ ServiceInv /\ PendingKnown
  BY DEF SafetyInv, SystemInv, ServerInv
<1>2. /\ UNCHANGED <<rows, stored, cmd, act, revision, job, cursor, handling, serving, occupancy>>
      /\ UNCHANGED <<snapshot, passages, place, finished>>
      /\ serving /\ job = "idle"
  BY DEF AtHead, Idle, modVars, serviceVars, managerVars, corridorVars, commandVars, databaseVars,
         jobVars
<1>3. /\ \A j : Pending(j)' <=> Pending(j)
      /\ \A j : Accepted(j)' <=> Accepted(j)
      /\ \A j : RowTrain(j)' = RowTrain(j)
      /\ \A u : Present(u)' <=> Present(u)
      /\ \A j : Taken(j)' <=> Taken(j)
      /\ \A u : Issuing(u)' <=> Issuing(u)
  BY <1>2 DEF Pending, Accepted, RowTrain, Present, Taken, Issuing
<1>4. /\ \A u, j : Pend(u, j)' <=> Pend(u, j)
      /\ \A u, j : Actv(u, j)' <=> Actv(u, j)
      /\ RowsKept
  BY <1>2, <1>3 DEF Pend, Actv, RowsKept, StoredIds
<1>5. FileInv'
  <2>1. RowsOnWay' /\ RevisionStored'
    BY <1>1, <1>2, <1>3 DEF FileInv, RowsOnWay, RevisionStored
  <2>2. CommandsFiled'
    BY <1>1, <1>2, <1>3 DEF FileInv, CommandsFiled
  <2>3. ActivesFiled'
    BY <1>1, <1>2, <1>3 DEF FileInv, ActivesFiled
  <2>4. PendingLast' /\ RestoredSoFar'
    BY <1>1, <1>2, <1>3 DEF FileInv, PendingLast, RestoredSoFar
  <2> QED BY <2>1, <2>2, <2>3, <2>4 DEF FileInv
<1>6. PendingKnown' /\ LoopsFit'
  BY <1>1, <1>2, <1>3 DEF PendingKnown, LoopsFit, Forgotten, Planned
<1>7. \A r : AcceptedIn(r)' = AcceptedIn(r) /\ Counted(r)' = Counted(r)
  BY <1>2, <1>3 DEF AcceptedIn, Counted
<1>8. AllCounted' /\ AcceptedFit'
  BY <1>1, <1>2, <1>7 DEF CountInv, AllCounted, AcceptedFit
<1>9. RoomToEnter'
  <2> SUFFICES ASSUME NEW j \in CommandIds, Pending(j)',
                      Present(RowTrain(j))' \/ AcceptBefore(queue, Len(queue), j)'
               PROVE  Cardinality(AcceptedIn(Way[RowTrain(j)])') < Capacity
    BY DEF RoomToEnter
  <2>1. Present(RowTrain(j)) \/ AcceptBefore(queue, Len(queue), j)
    BY <1>3, StillWaits
  <2>2. Cardinality(AcceptedIn(Way[RowTrain(j)])) < Capacity
    BY <1>1, <1>3, <2>1 DEF CountInv, RoomToEnter
  <2> QED BY <1>3, <1>7, <2>2
<1>10. PICK P : P = passages
  OBVIOUS
<1>11. PICK q : q = queue
  OBVIOUS
<1>12. PICK n : n = Len(queue)
  OBVIOUS
<1>13. PICK F : F = finished
  OBVIOUS
<1>14. /\ n \in Nat /\ 1 <= n /\ 1 \in 1..n /\ q[1] = p /\ p.train = t /\ p.id = i
       /\ Reports(P, F, q, n)
       /\ d \in {0, 1} /\ Shifted(d) /\ UNCHANGED <<place, ticked, modVars>>
  BY <1>10, <1>11, <1>12, <1>13, HeadReports
<1>15. AcceptsBacked(q, n) /\ ReleasesBacked(P)
  BY <1>14 DEF Reports
<1>16. ~Pend(t, i)
  <2> SUFFICES ASSUME Pend(t, i) PROVE FALSE
    OBVIOUS
  <2>1. t \in Train /\ t = p.train /\ i = p.id /\ p.resource = Way[t]
    BY DEF AtHead
  <2>2. cmd[t] # NoCommand /\ cmd[t].id = i
    BY <1>2 DEF Pend
  <2>3. cmd[t].resource = Way[t]
    BY <1>1, <2>1, <2>2 DEF FileInv, CommandsFiled
  <2> QED BY <2>1, <2>2, <2>3 DEF Matches
<1>17. d \in Nat /\ (1 + d)..n \subseteq 1..n /\ \A k \in 1..d : k = 1
  BY <1>14
<1>18. \A k \in 1..d : q[k].kind = "accept" => Actv(q[k].train, q[k].id)'
  BY <1>4, <1>14, <1>15, <1>16, <1>17 DEF AcceptsBacked
<1>19. BackingKept(P, q, n, d)
  <2>1. \A j \in StoredIds : j \in StoredIds' /\ RowTrain(j)' = RowTrain(j)
    BY <1>3, <1>4 DEF RowsKept
  <2> QED BY <1>3, <1>4, <1>15, <1>17, <1>18, <2>1 DEF BackingKept, AcceptsBacked, ReleasesBacked
<1>20. InboxKept /\ PlacesKept /\ ClaimsApart'
  BY <1>2, <1>4 DEF InboxKept, PlacesKept, ClaimsApart
<1>21. BackingKept(passages, queue, Len(queue), d)
  BY <1>10, <1>11, <1>12, <1>19
<1>22. ModInv'
  BY <1>4, <1>14, <1>20, <1>21, ServerKeepsMod DEF ServerKeeps
<1> QED BY <1>5, <1>6, <1>8, <1>9, <1>22 DEF ServerInv, CountInv

\* A report reaches the server.
LEMMA ReportKeeps ==
    ASSUME SafetyInv, SafeConditions, NEW now, NEW o \in Ending,
           Deliver(now, o) \/ DeliverUnanswered(now, o)
    PROVE  ServerInv' /\ ModInv'
<1>1. PICK p, d : Handed(p, now, o, d)
  BY DeliveryFacts
<1>2. PICK t : t = p.train
  OBVIOUS
<1>3. PICK i : i = p.id
  OBVIOUS
<1>4. AtHead(p, t, i, d)
  BY <1>1, <1>2, <1>3, HeadFacts
<1>5. HandleReport(p, now, o) /\ p.resource = Way[t]
  BY <1>1, <1>4 DEF Handed, AtHead
<1>6. CASE p.kind = "accept" /\ Matches(p) /\ AcceptCommand(t, now, o)
  <2>1. Admits(t, i)
    BY <1>4, <1>6, AdmitFacts
  <2> QED BY <1>4, <1>6, <2>1, AdmitKeepsFiles, AdmitKeepsCount, AdmitKeepsMod DEF ServerInv
<1>7. CASE p.kind = "reject" /\ Matches(p) /\ RejectCommand(t, o)
  <2>1. Ends(t, i, "REJECTED")
    BY <1>4, <1>7, RefusalFacts
  <2>2. p.kind # "accept"
    BY <1>7
  <2> QED BY <1>4, <2>1, <2>2, EndKeepsFiles, EndKeepsCount, EndKeepsMod DEF ServerInv
<1>8. CASE p.kind = "cleared" /\ ResourceCleared(t, Way[t], {}, now, o)
  <2>1. Ends(t, i, "CLEARED")
    BY <1>4, <1>8, ExitFacts
  <2>2. p.kind # "accept"
    BY <1>8
  <2> QED BY <1>4, <2>1, <2>2, EndKeepsFiles, EndKeepsCount, EndKeepsMod DEF ServerInv
<1>9. CASE p.kind # "cleared" /\ ~Matches(p) /\ UNCHANGED serviceVars
  BY <1>4, <1>9, IgnoredKeeps
<1> QED BY <1>2, <1>5, <1>6, <1>7, <1>8, <1>9 DEF HandleReport

-----------------------------------------------------------------------------
(* The whole loop.                                                         *)

\* The loops of the server keep the invariant.
LEMMA ServiceLoopKeeps ==
    ASSUME SafetyInv, SafeConditions, ServiceLoop
    PROVE  ServerInv' /\ ModInv'
<1>1. UNCHANGED gameVars
  BY DEF ServiceLoop
<1>2. job # "rollback"
  BY DEF SafetyInv, ServerInv, LoopsFit
<1>3. CASE RestoreCommand
  BY <1>1, <1>3, RestoreCommandKeeps
<1>4. CASE RefuseToStart \/ PendingRestored
  BY <1>1, <1>4, PendingRestoredKeeps
<1>5. CASE RecoveryDone
  BY <1>1, <1>5, RecoveryDoneKeeps
<1>6. CASE \E t \in Train : CancelStale(t)
  BY <1>1, <1>6, CancelStaleKeeps
<1>7. CASE MaintenanceDone
  BY <1>1, <1>7, MaintenanceDoneKeeps
<1>8. CASE PlanHold
  BY <1>1, <1>8, PlanHoldKeeps
<1>9. CASE \E C \in Buildable : Build(C)
  BY <1>1, <1>9, BuildKeeps
<1>10. CASE Planning /\ \E c \in candidates[PlanOrder[cursor]] : PlanRelease(c)
  <2>1. PICK c \in candidates[PlanOrder[cursor]] : PlanRelease(c)
    BY <1>10
  <2>2. ReleaseOf(c, c.train)
    BY <1>10, <2>1, ReleaseFacts
  <2> QED BY <1>1, <2>2, PlanReleaseKeeps
<1>11. CASE \E o \in Ending : PersistCycle(o)
  BY <1>1, <1>11, PersistCycleKeeps
<1>12. /\ ~RollbackDone
       /\ \A t \in Train : ~RollbackCommand(t)
  BY <1>2 DEF RollbackDone, RollbackCommand
<1> QED BY <1>3, <1>4, <1>5, <1>6, <1>7, <1>8, <1>9, <1>10, <1>11, <1>12 DEF ServiceLoop

\* Nothing happens.
LEMMA StutterKeeps ==
    ASSUME SafetyInv, UNCHANGED systemVars
    PROVE  ServerInv' /\ ModInv'
<1>1. /\ UNCHANGED <<cmd, act, serving, occupancy, candidates, rows, revision, stored>>
      /\ UNCHANGED <<job, cursor, handling, snapshot, queue>>
  BY DEF systemVars, stepVars, serviceVars, managerVars, corridorVars, commandVars, databaseVars,
         jobVars, gameVars, modVars
<1>2. UNCHANGED gameVars
  BY DEF systemVars, stepVars
<1>3. /\ \A t \in Train : Issuing(t) => Issuing(t)'
      /\ \A i \in CommandIds : Taken(i)' => Taken(i)
      /\ \A i : Pending(i)' <=> Pending(i)
      /\ \A i : Accepted(i)' <=> Accepted(i)
      /\ \A i : RowTrain(i)' = RowTrain(i)
      /\ \A t : Present(t)' <=> Present(t)
      /\ \A t : Outside(t)' <=> Outside(t)
  BY <1>1 DEF Issuing, Taken, Pending, Accepted, RowTrain, Present, Outside, SeenIn, ViewIn
<1>4. RestoredSoFar'
  BY <1>1, <1>3 DEF SafetyInv, ServerInv, FileInv, RestoredSoFar
<1>5. LoopsFit'
  <2>1. LoopsFit
    BY DEF SafetyInv, ServerInv
  <2>2. Planned'
    BY <1>1, <1>3, <2>1 DEF LoopsFit, Planned, StoredIds
  <2>3. Forgotten'
    BY <1>1, <1>3, <2>1 DEF LoopsFit, Forgotten
  <2> QED BY <1>1, <2>1, <2>2, <2>3 DEF LoopsFit
<1> QED BY <1>1, <1>2, <1>3, <1>4, <1>5, LoopKeeps

\* Every step keeps the invariant.
LEMMA SafetyStepInv ==
    ASSUME SafeConditions
    PROVE  SafetyInv /\ [SystemNext]_systemVars => SafetyInv'
<1> SUFFICES ASSUME SafetyInv, [SystemNext]_systemVars PROVE SafetyInv'
  OBVIOUS
<1>1. SystemInv'
  BY SystemStepInv DEF SafetyInv
<1>2. UNCHANGED faults
  BY DEF SystemNext, systemVars
<1>3. CASE \/ \E t \in Train : Move(t) \/ Vanish(t) \/ Poll(t)
           \/ Sample \/ PollTopology
           \/ \E elapsed \in BOOLEAN : Frame(elapsed)
  BY <1>1, <1>2, <1>3, GameKeepsSafety DEF SafeConditions
<1>4. ASSUME ServerInv' /\ ModInv' PROVE SafetyInv'
  BY <1>1, <1>2, <1>4 DEF SafetyInv
<1>5. CASE \E now \in Time, o \in Ending : Deliver(now, o) \/ DeliverUnanswered(now, o)
  BY <1>4, <1>5, ReportKeeps
<1>6. CASE \E now \in Time, gone \in SUBSET Monitored : Upload(gone, now)
  BY <1>4, <1>6, UploadKeeps
<1>7. CASE \E gone \in SUBSET Monitored : Maintenance(gone)
  BY <1>4, <1>7, MaintenanceKeeps
<1>8. CASE ServiceLoop
  BY <1>4, <1>8, ServiceLoopKeeps
<1>9. CASE \E o \in Ending : UploadRoutes(o)
  BY <1>4, <1>9, UploadRoutesKeeps
<1>10. CASE SystemRestart
  BY <1>4, <1>10, RestartKeeps
<1>11. CASE UNCHANGED systemVars
  BY <1>4, <1>11, StutterKeeps
<1>12. CASE SystemStep
  BY <1>3, <1>5, <1>6, <1>7, <1>8, <1>9, <1>10, <1>12 DEF SystemStep
<1> QED BY <1>11, <1>12 DEF SystemNext

\* The first state satisfies it.
LEMMA SafetyInitInv ==
    ASSUME SafeConditions
    PROVE  SystemInit => SafetyInv
<1> SUFFICES ASSUME SystemInit PROVE SafetyInv
  OBVIOUS
<1>1. SystemInv
  BY SystemInitInv
<1>2. /\ cmd = [t \in Train |-> NoCommand] /\ act = [t \in Train |-> NoCommand]
      /\ revision = 1 /\ stored = 1 /\ rows = [i \in CommandIds |-> NoRow]
      /\ job = "restorePending" /\ cursor = 0 /\ handling = {} /\ ~serving
      /\ occupancy = [r \in Resource |-> 0]
      /\ queue = <<>> /\ inbox = <<>> /\ finished = {} /\ topology = 1 /\ snapshot = NoSnapshot
      /\ passages = [t \in Train |-> NoPassage]
  BY DEF SystemInit, ServiceInit, ManagerInit
<1>3. PICK s \in Scenarios : /\ faults = s.faults
                             /\ place = [t \in Train |-> IF t \in s.trains THEN "away" ELSE "gone"]
  BY DEF SystemInit
<1>4. faults \subseteq SafeFaults
  BY <1>3 DEF SafeConditions
<1>5. \A i \in CommandIds : rows[i] = NoRow
  BY <1>2
<1>6. StoredIds = {} /\ \A i \in CommandIds : ~Pending(i) /\ ~Accepted(i)
  BY <1>5 DEF StoredIds, Pending, Accepted
<1>7. FileInv
  <2>1. RowsOnWay /\ RevisionStored
    BY <1>2, <1>5 DEF RowsOnWay, RevisionStored
  <2>2. CommandsFiled /\ ActivesFiled
    BY <1>2 DEF CommandsFiled, ActivesFiled
  <2>3. PendingLast /\ RestoredSoFar
    BY <1>6 DEF PendingLast, RestoredSoFar
  <2> QED BY <2>1, <2>2, <2>3 DEF FileInv
<1>8. PendingKnown /\ LoopsFit
  BY <1>2 DEF PendingKnown, LoopsFit, Forgotten, Planned
<1>9. CountInv
  <2>1. \A r : AcceptedIn(r) = {} /\ Counted(r) = {}
    BY <1>6 DEF AcceptedIn, Counted
  <2>2. Cardinality({}) = 0 /\ Capacity \in Nat /\ 0 <= Capacity
    BY FS_EmptySet, PolicyAssumptions
  <2>3. \A r : Cardinality(AcceptedIn(r)) = 0 /\ Cardinality(Counted(r)) = 0
    BY <2>1, <2>2
  <2>4. \A r \in Resource : occupancy[r] = 0
    BY <1>2
  <2>5. AllCounted /\ AcceptedFit
    BY <2>2, <2>3, <2>4 DEF AllCounted, AcceptedFit
  <2>6. RoomToEnter
    BY <1>6 DEF RoomToEnter
  <2> QED BY <2>5, <2>6 DEF CountInv
<1>10. /\ place \in [Train -> Zones] /\ topology # 0 /\ SnapshotFits
  BY <1>2, <1>3 DEF Zones, SnapshotFits
<1>11. KnowsSent
  <2>1. passages \in Frames!PassagesOf(SentCommands)
    BY <1>2, FramesAssumed DEF Frames!PassagesOf
  <2> QED BY <1>2, <2>1 DEF KnowsSent
<1>12. Len(queue) = 0 /\ Len(inbox) = 0 /\ \A t \in Train : passages[t] = NoPassage
  BY <1>2
<1>13. Reports(passages, finished, queue, Len(queue))
  BY <1>12 DEF Reports, Filed, EntryNoted, Entry, ReportsFinal, NotFinished, InOrder, OneEach,
               AcceptsBacked, ClearsBacked, EntriesBacked, ReleasesBacked
<1>14. InboxBacked(passages, finished, queue, Len(queue))
  BY <1>12 DEF InboxBacked
<1>15. ASSUME NEW t \in Train PROVE PlaceFits(passages, t)
  <2>1. place[t] # "inside"
    BY <1>3
  <2> QED BY <1>12, <2>1 DEF PlaceFits, Entry
<1>16. PassagesFit /\ HeldAtEntry
  BY <1>2, <1>12 DEF PassagesFit, HeldAtEntry, SeenIn
<1>17. ClaimsApart
  BY <1>6, <1>12 DEF ClaimsApart, Claim, Entry
<1>18. ModInv
  BY <1>10, <1>11, <1>13, <1>14, <1>15, <1>16, <1>17 DEF ModInv
<1> QED BY <1>1, <1>4, <1>7, <1>8, <1>9, <1>18 DEF SafetyInv, ServerInv

\* A train inside has a command that is counted or awaited.
LEMMA InsideBacked ==
    ASSUME SafetyInv, NEW t \in Train, place[t] = "inside"
    PROVE  /\ Claim(passages, t)
           /\ \E i : Pend(t, i) \/ Actv(t, i)
<1>1. /\ Reports(passages, finished, queue, Len(queue)) /\ SnapshotFits
      /\ PlaceFits(passages, t)
  BY DEF SafetyInv, ModInv
<1>2. passages[t] # NoPassage /\ Present(t)
  BY <1>1, InsidePresent DEF PlaceFits
<1>3. PICK i : i = passages[t].command.id
  OBVIOUS
<1>4. Pend(t, i) \/ Actv(t, i)
  BY <1>1, <1>2, <1>3, PassageBacked
<1>5. Claim(passages, t)
  <2>1. CASE passages[t].acknowledged
    BY <1>2, <2>1 DEF Claim, Entry
  <2>2. CASE ~passages[t].acknowledged
    <3>1. Pend(t, i)
      BY <1>1, <1>2, <1>3, <2>2 DEF Reports, ReleasesBacked
    <3> QED BY <1>2, <3>1 DEF Pend, Claim
  <2> QED BY <2>1, <2>2
<1> QED BY <1>4, <1>5

\* The trains inside are never opposed.
LEMMA InsideApart ==
    ASSUME SafetyInv
    PROVE  NoHeadOn
<1> SUFFICES ASSUME NEW t \in Train, NEW u \in Train, place[t] = "inside", place[u] = "inside"
             PROVE  Way[t] # Opposite(Way[u])
  BY DEF NoHeadOn
<1>1. Claim(passages, t) /\ Claim(passages, u)
  BY InsideBacked
<1>2. CASE serving
  BY <1>1, <1>2, ServingClaimsApart
<1>3. CASE ~serving
  BY <1>1, <1>3 DEF SafetyInv, ModInv, ClaimsApart
<1> QED BY <1>2, <1>3

\* The trains inside are counted, but for one whose ACK is awaited.
LEMMA InsideCounted ==
    ASSUME SafetyInv
    PROVE  TrainsInsideAccounted
<1> SUFFICES ASSUME serving, NEW r \in Resource, NEW S,
                    S = {t \in Train : place[t] = "inside" /\ Way[t] = r}
             PROVE  Cardinality(S) <= occupancy[r] + IF commandPending[r] THEN 1 ELSE 0
  BY DEF TrainsInsideAccounted
<1>1. ServiceInv /\ FileInv /\ CountInv
  BY DEF SafetyInv, SystemInv, ServerInv
<1>2. PICK A : A = {t \in S : \E i : Actv(t, i)}
  OBVIOUS
<1>3. PICK K : K = Counted(r)
  OBVIOUS
<1>4. PICK f : f = [t \in A |-> act[t].id]
  OBVIOUS
<1>5. ASSUME NEW t \in A PROVE f[t] \in K /\ RowTrain(f[t]) = t
  <2>1. t \in Train /\ Way[t] = r /\ act[t] # NoCommand
    BY <1>2 DEF Actv
  <2>2. /\ act[t].id \in CommandIds /\ Accepted(act[t].id) /\ RowTrain(act[t].id) = t
        /\ rows[act[t].id].command = act[t]
    BY <2>1, KnownRows
  <2>3. act[t].rev = revision /\ rows[act[t].id].command.resource = r
    BY <1>1, <2>1, <2>2 DEF FileInv, ActivesFiled, RowsOnWay, Accepted
  <2>4. act[t].id \in K
    BY <1>3, <2>2, <2>3 DEF Counted, AcceptedIn, Taken
  <2>5. f[t] = act[t].id
    BY <1>4
  <2> QED BY <2>2, <2>4, <2>5
<1>6. f \in Injection(A, K)
  <2>1. f \in [A -> K] /\ DOMAIN f = A
    BY <1>4, <1>5
  <2>2. \A t, u \in A : f[t] = f[u] => t = u
    BY <1>5
  <2> QED BY <2>1, <2>2 DEF Injection, IsInjective
<1>7. /\ IsFiniteSet(A) /\ Cardinality(A) <= Cardinality(K)
  BY <1>3, <1>6, AcceptedFinite, FS_Injection
<1>8. /\ Cardinality(A) \in Nat /\ Cardinality(K) \in Nat /\ occupancy[r] \in Nat
      /\ Cardinality(K) <= occupancy[r]
  BY <1>1, <1>3, <1>7, AcceptedFinite, FS_CardinalityType, PolicyAssumptions
     DEF CountInv, AllCounted, ServiceInv, ManagerInv, ManagerTypeOK
<1>9. ASSUME NEW t \in S, t \notin A PROVE cmd[t] # NoCommand /\ t \in Train /\ Way[t] = r
  <2>1. t \in Train /\ place[t] = "inside" /\ Way[t] = r
    OBVIOUS
  <2>2. \E i : Pend(t, i)
    BY <1>2, <1>9, <2>1, InsideBacked
  <2> QED BY <2>1, <2>2 DEF Pend
<1>10. CASE S = A
  BY <1>7, <1>8, <1>10
<1>11. CASE S # A
  <2>1. PICK u \in S : u \notin A
    BY <1>2, <1>11
  <2>2. S = A \cup {u}
    BY <1>2, <1>9, <2>1, OneAwaited
  <2>3. Cardinality(S) = Cardinality(A) + 1
    BY <1>7, <2>1, <2>2, FS_AddElement
  <2>4. commandPending[r]
    <3>1. cmd[u] # NoCommand /\ cmd[u].resource = r
      BY <1>1, <1>9, <2>1 DEF FileInv, CommandsFiled
    <3>2. pendingDecision[r] # NoDecision
      BY <1>1, <1>9, <2>1, <3>1 DEF ServiceInv, CommandsAnswerable
    <3> QED BY <1>1, <3>2 DEF ServiceInv, ManagerInv, PendingMatchesDecision
  <2> QED BY <1>7, <1>8, <2>3, <2>4
<1> QED BY <1>10, <1>11

\* Two trains never meet head-on, for any number of trains and corridors and
\* whichever of the lost answers to ACKs, removed vehicles, new routes and
\* restarts happen, and in whatever order, as long as the server has its
\* database and recovers from it, and there are not more commands than
\* DispatchRuntime.Finish remembers (4096, then it forgets them all).
THEOREM SystemKeepsTrainsApart == SafeConditions => (SystemSpec => []NoHeadOn)
<1> SUFFICES ASSUME SafeConditions PROVE SystemSpec => []NoHeadOn
  OBVIOUS
<1>1. SystemInit => SafetyInv
  BY SafetyInitInv
<1>2. SafetyInv /\ [SystemNext]_systemVars => SafetyInv'
  BY SafetyStepInv
<1>3. SafetyInv => NoHeadOn
  BY InsideApart
<1> QED BY <1>1, <1>2, <1>3, PTL DEF SystemSpec

\* Under the same conditions a serving server accounts for every train that
\* is really inside: RailwayDispatchService has counted it, or waits for its
\* ACK, so no capacity is given away twice.
THEOREM SystemAccountsForTrains == SafeConditions => (SystemSpec => []TrainsInsideAccounted)
<1> SUFFICES ASSUME SafeConditions PROVE SystemSpec => []TrainsInsideAccounted
  OBVIOUS
<1>1. SystemInit => SafetyInv
  BY SafetyInitInv
<1>2. SafetyInv /\ [SystemNext]_systemVars => SafetyInv'
  BY SafetyStepInv
<1>3. SafetyInv => TrainsInsideAccounted
  BY InsideCounted
<1> QED BY <1>1, <1>2, <1>3, PTL DEF SystemSpec

=============================================================================
