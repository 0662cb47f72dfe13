# Railway dispatch: a TLA+ model

The repository is a dispatch system for trains of Cities: Skylines. A C++
server decides which train may enter a shared stretch of track (a *corridor*)
or cross another line (an *intersection*), and a C# mod inside the game reports
trains, polls for commands, lets released trains go and reports when they have
entered and when their tail is clear. This directory models the server, the
mod and the two together, checks them with TLC and proves most of the safety
properties with TLAPS.

## 1. Inventory

| Component | State | Operations | Interacts with |
|---|---|---|---|
| Intersection reservations (`IntersectionReservationManager.cpp`) | movements, active reservations, last clear times | register, reserve atomically, mark cleared, cancel a train | called by the manager under its own mutex |
| Release policy (`DynamicPriorityPolicy.cpp`) | none | `decide` | called by `planNext` |
| Dispatch manager (`DispatchManager.cpp`) | per corridor direction: occupancy, command pending, last entry, candidates; pending decisions; last line and run length | replace candidates, `planNext`, `confirmEntry`, `cancelPending`, exits, restore | reservations, policy |
| Dispatch service (`RailwayDispatchService.cpp`) | commands and active passages by train, next command id | telemetry cycle, maintenance, ACK, cleared, route replacement, recovery | everything below, one mutex |
| Train monitor (`TrainMonitor.cpp`) | last telemetry and phase of each train | upsert, set phase, remove stale | service |
| Candidate builder (`DispatchCandidateBuilder.cpp`) | since when each train waits | build, forget | service; reads routes and telemetry |
| Rolling planner (`AffectedLinePlanner.cpp`) | none | plan | feeds the scores |
| Persistence (`DispatchPersistence.cpp`) | MySQL: commands, topology; Redis mirror | one transaction per service operation, load at start | service, holding its mutex |
| Connections and event loop (`WebServer.cpp`, `TcpConn.cpp`, `Epoller.cpp`) | connection table, sockets, oneshot arming | accept, read, write, close | thread pool, timers, parser |
| Idle timers (`TimerManager.cpp`) | heap with old nodes, valid id per descriptor | add, update, expire | event loop |
| Thread pool (`ThreadPool.cpp`) | task queue, stop flag | enqueue, shutdown | event loop |
| HTTP handlers (`HttpConn.cpp`) | parser fields of a connection | parse, vehicle and dispatch endpoints | service, vehicle manager, cache |
| Database pool (`DBConnectionPool.cpp`) | queue and count of connections | borrow, return, stop | persistence, vehicle manager |
| Redis cache (`RedisCache.cpp`) | client pool, enabled flag | get, set, remove | handlers |
| Vehicle manager (`VehicleManager.cpp`) | vehicle table, its image in MySQL | register, update, remove, replace, load, save | handlers, `main` |
| Logger (`Logger.cpp`) | queue, current file | log, write, destroy | everything |
| Mod runtime (`DispatchRuntime.cs`, `TrainMotionController.cs`) | passages, finished commands, holds | tick, accept answers, hold | sender, poller, simulation thread |
| Mod sender and poller (`TelemetrySender.cs`, `DispatchCommandPoller.cs`) | control queue, latest telemetry | send, retry at the head, poll | HTTP |
| Route analyzer, topology registry | geometry, revision | analyse, replace | service |

What is hard here: two directions of one track are two records; checks are made
when a release is planned and used when it is acknowledged; the database is
written before memory; commands are cancelled by resource and by train; phases
are lost when a train is stale or the process restarts; reports are repeated
until they are answered; requests read the clock before they take the lock;
descriptors are reused while tasks of their last owner are queued; the
simulation reads the holds without a lock. `PROJECT.json` lists these hazards
with the line where each bites.

## 2. Modules

| Module | Models |
|---|---|
| `IntersectionReservations` | the reservation table |
| `DynamicPriorityPolicy` | hard constraints and the candidates `decide` may select |
| `DispatchManager` (extends both) | the manager, with recovery before serving |
| `CorridorInterlock` | abstract: a corridor is free or set for one direction and changes direction only through free |
| `RailwayDispatchService` (extends `DispatchManager`) | the service, the phases of the monitor, the command table |
| `TrainMonitor` | telemetry and stale removal under concurrent requests |
| `DispatchCandidateBuilder` | zones, crossings and waiting times along a route |
| `AffectedLinePlanner` | the planning loop of one resource |
| `ModRuntime` | one tick of the mod, its inbox, passages and reports |
| `TrainMotionController` | the held set as an object that is built, published and read |
| `TelemetrySender` | control queue, telemetry, the sending thread, Start and Stop |
| `DispatchSystem` (extends `RailwayDispatchService`, instantiates `ModRuntime`) | server, channel, mod and the trains themselves |
| `WebServer`, `TimerManager`, `HttpParser`, `ThreadPool` | a connection from accept to answer |
| `DBConnectionPool`, `VehicleApi`, `VehicleStore`, `Logger` | resources shared by the handlers |
| `DispatchManagerProofs` | proofs about the reservations and the manager |
| `RailwayDispatchServiceProofs`, `ModRuntimeProofs`, `DispatchSystemProofs` | proofs about the module they are named after; the last instantiates `ModRuntimeProofs` |
| `TrainSafetyProofs` (extends `DispatchSystemProofs`) | proofs about where the trains of `DispatchSystem` really are |
| `PlanningProofs` | proofs about the rolling planner and the candidate builder |
| `ThreadsProofs` | proofs about the event loop, the thread pool, the monitor, the mod's sender and the held vehicles |
| `RequestsProofs` | proofs about the parser, timers, vehicle endpoints and cache, stored vehicles and the database pool |
| `MC*` | instances for TLC |

Correspondence with the code:

* An operation under a mutex is one action. One that returns false without
  writing is a stuttering step, so its guard is the conjunction of the code's
  early returns. Where a handler gives up a lock, calls a library or is read by
  another thread, it is split there.
* `updateTrains` and the recovery are loops of manager calls. They are several
  steps; `job` names the loop that holds the service mutex, and only `Restart`
  interleaves with it. A crash between a database commit and the memory writes
  behind it leaves the same state as a crash after both, so ACK and cleared are
  single steps.
* A transaction commits, rolls back, or is in doubt: committed although the
  caller sees an error (`CommitOutcome`).
* Simulation time is an argument of every call and may go backwards. The only
  ordering assumed is that an ACK carries a time not before the snapshot its
  release was planned from.
* The double-valued release score is a free choice among eligible candidates.
  In the planner the scores are scaled to integers. Positions are free in the
  service and exact in the candidate builder.
* `TelemetrySender`: a request is answered, or given up after the timeout of 2
  seconds. One that was given up stays in `abandoned`, and the server may process
  it at any later time, also after its repetition, or never. `Stop` waits 2.5
  seconds at most; the wait may end at any time (`Joined`), and the old thread
  goes on.
* `WebServer`: idle time is the round of the event loop in which it ends.
  `epoll_wait` returns without an event of the connection (`TimerRunsOut`), and
  the `handleExpired` at the end of the round closes it, whatever has arrived in
  between (`Timeout`). An answer may fill the send buffer (`outgoing`), and the
  client may never take from it.
* `DispatchSystem` composes the service with the mod. Its control channel is
  the queue of one sending thread of `TelemetrySender`, whose head is repeated
  until it is answered (`ControlInOrder`, `ControlEventsArrive`). Left out are
  copies of a report that are processed later than its repetition: an ACK then
  finds no command under its id (unless the database refused the repetition), and
  a cleared report is counted once more, which is the fault `clearedLost` at a
  later time (section 6). A train is
  away, near an entry, inside or gone; it enters only when the mod does not hold
  it. `faults` says what may go wrong in a behaviour and is chosen at the start
  from the scenarios of the run: lost answers, failing transactions, restarts,
  vanishing vehicles, changed routes.
* Operators called "Faulty variant" are plausible mistakes in the definition
  that follows them. No specification uses them; each one is substituted to
  confirm that the property it threatens is really violated.
* Every module states a type invariant. Those of the manager are among the
  checked properties; the others are the base of the proofs and can be checked
  by naming them in the cfg of the module's run.

## 3. Runs

`planning`, `mod`, `requests` and `threads` put several components that share no
state into one run: the variable `part` is chosen in the initial state, the
component it names is exercised and the others stay as they are. The states are
the sum, not the product, of the components' states.

| Run | Instance | What it shows |
|---|---|---|
| `manager` | one corridor, a crossing with two movements, three trains on two lines, capacity 2, headway 1, times 1 to 3 | exclusion and clearance of crossings, interlock, capacity, headway, refinement of `CorridorInterlock` |
| `service_recovery` | one corridor, two trains head-on over one crossing, two commands, two topology revisions, all commit outcomes, arbitrary reports | exposed commands are durable, rows only advance, a restart protects all known passages |
| `service_two_corridors` | two corridors, one train that may be released into both and one that follows it, three commands | commands stay answerable although cancellation goes by resource and by train |
| `system` | one corridor and three scenarios: two opposing trains with lost ACK answers, failing transactions and restarts; two following trains that may vanish; one train with route changes, restarts and removal | trains never meet head-on; every train inside is counted or awaited; no command id comes back after the mod has finished with it |
| `system_progress` | two opposing trains, lost ACK answers, two commands | a taken corridor comes free again (liveness) |
| `planning` | an open line of two segments of different length, two corridors, two crossings, two trains; plans over three trains with six arrival times around the horizon | the zone follows the track and not the number of points; every crossing up to the exit is asked for; batches do not restart a wait; overtaking is bounded and entries are spaced |
| `mod` | one train, two resources, three commands, two topology revisions; three vehicles in changing consists, two frames, four set objects | reports follow the protocol through repeated and late answers; readers of the held set see whole frames; whole trains are held |
| `requests` | two sending threads of the mod, one for each session, three control events, a telemetry payload and two requests given up; three requests in any pieces from thirteen shapes; two descriptors and four timers; two workers and a cache with failing commands; saving with two faults; three borrowers of two connections | control events are processed in order and arrive; each answer is made from its own request; only idle connections expire and all that are due do; why the cache may be out of date; the stored image is whole; connections are conserved and no wake-up is lost |
| `threads` | event loop with two workers in both modes, two connections of up to two requests, a reused descriptor; clients that half-close, reset and leave a full send buffer; timers during tasks or not; three pool workers and four tasks; five log lines; two trains at the monitor | the connection table names the owner of every open descriptor, a buffer has one user, complete requests are answered; tasks are run and shutdown ends; logged lines are written in order; newer telemetry wins and silent trains are forgotten |
| `orphan_release`, `system_cleared_lost`, `builder_loop_crossings` | | expected violations, see section 6 |

Bounds. The constants called `Max...` (and `LastReport`) only cut behaviours
off. Two commands are enough for a cancelled row and its successor, a row of the
old and one of the new revision, and an accepted row with a pending one.
Headway, clearance, wait and tolerance are one or two time units, so that each
limit is met, just missed and exceeded. Capacity 2 lets trains follow each other
and fill a corridor. One more worker than tasks in progress lets a worker sleep
while another is woken; two descriptors with two connection ids let one be
reused, and one full send buffer per answer is enough, because the loop comes
back to the same state when it is drained. Three control events are an ACK and
its cleared report with one of the session before or behind them, and two requests
given up are the same one twice or two of different events. Trains are symmetric
in `planning`, which checks no liveness.

Deadlock checking is off in `planning`, `requests` and `threads` only: a plan is
finished, a process that was stopped stays stopped, and the bounded clients and
clocks run out.

## 4. Fairness

* `ThreadPool`, `Logger`, `WebServer`, `TelemetrySender`: weak fairness of each
  thread's own steps. The operating system runs the threads, and each step needs
  at most a mutex that is held for a short time. In `WebServer` the timers are
  fair too (`TimerOn`): a round of the loop ends, and an idle connection comes to
  the end of its time. A control event is sent or given up; nothing says that a
  request that was given up is ever processed.
* `TrainMonitor`: the clock runs, a worker that waits for the mutex gets it, and
  the mod polls again and again (`DispatchCommandPoller.WorkerLoop`).
* `DispatchSystem`: weak fairness of the loops of the service, which hold its
  mutex and cannot be disabled; strong fairness of sampling, ticking, polling,
  delivery and movement, because these compete with other requests for the
  mutex, which is free again and again. Delivery is fair only in the sense that
  answers get through in the end (`RetryControlPost` has no limit).
* Faults are never fair: nothing has to fail.

`RequestsAnswered` and `BufferHasOneUser` hold as long as no timer runs out on a
connection with a task (`setup.slow = FALSE`), with section 6 for the others. In
the reactor this means tasks that take less than the idle timeout. In the
proactor the loop does not refresh the timer when it queues a task, only the task
does after its read, so a task queued just before the timeout is enough.
`RequestsAnswered` makes two more exceptions, which the code makes as well: a
request that is complete only in the round in which its timer runs out, and a
client that leaves a full send buffer and closes its side or lets the time pass.

## 5. Proofs

All theorems hold for every value of the constants that satisfies the named
assumptions: any sets of trains, movements, corridors, descriptors and times,
and any of the bounds. Each rests on an inductive invariant, which holds
initially, is kept by every step and implies the property. TLC checked each of
them on a run before it was proved.

**Reservations** (`DispatchManagerProofs`, first part). `ReservationInv` is the type
invariant, exclusion, the clearance property and `OnlyRegisteredReserved`. The
last part makes it inductive: `canReserveLocked` only looks at registered
movements, so an unregistered one must never hold a reservation or a clear time.
Theorems: `ReservationTypeCorrect`, `MutualExclusion`, `ClearanceHolds`,
`ReservationsNeverTakenOver`.

**Manager** (`DispatchManagerProofs`). `ManagerInv` adds the interlock, the
agreement of `command_pending` with `pending_decisions_`, room for planned
entries, and that a planned decision was made a headway after the last entry;
the last part carries the check at planning time over to the ACK. Theorems:
`ManagerTypeCorrect`, `InterlockHolds`, `OutstandingCommandsSound`,
`CrossingsExclusive`, `HeadwayKept`, and `ManagerImplementsInterlock` (each step
maps to a step or a stutter of `CorridorInterlock` under `SetFor`).

**Service** (`RailwayDispatchServiceProofs`). `ServiceInv` is `ManagerInv` and

* `FiledByKey`, `JobOK`: commands are filed under their train, and a loop that
  holds the mutex works only on commands there are;
* `SequenceBounded`: one cycle releases at most one train into each corridor
  that has no command yet (`Unpromised`), so the bound on ids is never met
  inside a cycle and the model does not cut a loop short;
* `SequenceAhead`, `IdsUnique`: the next id is behind all ids in memory and in
  the database, hence a row is written by one command only;
* `CommandsStored`: what is not being issued at this moment is in the database,
  and what is being issued has no row yet. Rows are written before memory, and a
  transaction in doubt leaves exactly the difference this part allows;
* `RecoveryProgress`: what recovery has taken over so far is what the rows say,
  and every row it has passed is `Protected` (its resource blocked or counted,
  its movements held). Restart destroys memory, so nothing else links the two.

Theorems: `ServiceTypeCorrect`, `CommandsStayAnswerable`,
`ExposedCommandsAreDurable`, `ServiceKeepsTracksSafe`, `RowsAdvance`,
`RestartProtects`. The proof is made for `ServerStep`, the steps of the server
with any inputs; `ServiceNext` is one use of them and `DispatchSystem` another.

**Mod** (`ModRuntimeProofs`). A frame is three loops over commands and trains,
each a recursive function. `RecursionExists` shows that such a function exists
and `InductionUpTo` that a set of states kept by every round contains the
result; `FrameIn` combines them into an invariant rule for whole frames. The
invariant says of each command what its reports add up to: nothing is broken,
a finished command is over, an entered passage was accepted and is not yet
cleared, and a passage that has not entered has no report. Theorems:
`RuntimeTypeCorrect` and `ReportsKeepProtocol`, under `FewCommands`: the number
of commands does not exceed `MaxFinished` (4096 in the code). This is needed: `Finish`
empties the set of remembered ids when it is full, and TLC refutes the property
with `MaxFinished = 1`.

**Whole loop** (`DispatchSystemProofs`). `SystemInv` is `ServiceInv` and
`ModKnows`: everything the mod, its inbox and the queue hold is a command, and
with a database one that has a row. Every step of the system is a `ServerStep`
with the inputs that the mod and the channel provide, or leaves the server
alone. Theorems, with every fault at once: `SystemKeepsTracksSafe` (interlock,
exclusion and clearance of crossings, answerable and durable commands),
`SystemKeepsPromises` (`RowsOnlyAdvance`, `RestartKeepsPromises`) and
`IdsStayFresh` (`NewCommandsNotFinished`). The last needs `Persistent`: without a
database ids start again at one after a restart.

**The trains** (`TrainSafetyProofs`). `SystemKeepsTrainsApart` is `NoHeadOn` and
`SystemAccountsForTrains` is `TrainsInsideAccounted`, for any trains, corridors,
capacity and bounds, under `SafeConditions`:

* the faults are among `ackLost`, `vanish`, `routes` and `restart`, in any
  combination and order. `clearedLost`, `stale` and `vanish` with `late` really
  break the count (section 6), and so does `database` with `vanish`, where an ACK
  answered 409 is dropped while its train is inside and a second train of the
  same direction is let in after it. Other combinations with `database` are only
  model-checked (`system`);
* the server has a database and recovers commands from it; otherwise it forgets
  the trains inside when it restarts;
* `MaxCommand <= MaxFinished`, a session of at most 4096 commands. `Finish`
  empties its set beyond that, the id it has just added included, and a command
  whose reject is still in the queue could be carried out again.

The invariant `SafetyInv` follows a command through four places that no mutex
spans: the row, the memory of the server, the passage of the mod and the reports
in the queue.

* `FileInv`: what the server awaits has the row `PENDING`, what it counts has the
  latest row `ACCEPTED` of its train, and recovery has taken over the rows up to
  its cursor.
* `Reports`: every ACK in the queue is backed by a command that is awaited
  (`Pend`) or was already counted (`Actv`: its answer was lost), every cleared
  report by a counted one or by its ACK before it, every passage by one of these;
  reports of a train are in the order of its commands; and what was reported
  last is finished, so the mod ignores the command when it is polled again
  (`InboxBacked`).
* `PlaceFits`, `SnapshotFits`: a train inside has a passage, the snapshot is at
  most one zone behind, and a passage that has begun fits the topology, so that
  new routes do not end it. Routes are replaced only when nothing is awaited or
  counted, hence when nobody is inside.
* `LoopsFit`: between two steps of a loop of the server, the trains it is about to
  release are outside, and those it forgets are gone and have no report left.
* `CountInv`: the accepted rows of a resource are at most its count, and where a
  train may still enter there is room, so `confirmEntry` does not saturate.
* `ClaimsApart`: while the server is down nothing in its memory blocks a corridor,
  so this part alone says that the trains that may be inside are not opposed.

A serving server blocks the resource of each such train (`BackedBusy`), and the
interlock does the rest. For the count, the trains inside that are counted are
mapped to their accepted rows, one to one, and at most one is awaited
(`OneAwaited`). The proof has one lemma for each kind of step; a report is an
admission (`Admits`), an end (`Ends`: a reject or a cleared report) or ignored.
`MarkerAssumptions` says that the model values for a missing snapshot, view or
passage are none of these.

**Planner and builder** (`PlanningProofs`). `PlanInv` adds to the two properties
that whoever waits may still be overtaken by nobody but those within the
tolerance (`NobodyOvertakenTooFar`) and that the next rank and slot are behind
all taken ones. A plan step takes a best train, which exists because a finite set
with a total comparison has a first element (`FirstExists`; the comparison is by
score, arrival and id). Theorems: `PlannerTypeCorrect`, `OvertakingStaysBounded`,
`EntriesStaySpaced`. For the builder, `CourseOfValues` gives the existence of the
walk along the segments, `WalkTyped` that it has a length from every place, and
`NearestAhead` that the nearest corridor exists and lies ahead. `BuilderInv` says
that a candidate is still true of its train (`CandidatesCurrent`), that a train
has one of them, and that the record of a waiting train holds the time of its
candidate (`WaitsRecorded`). Theorems: `BuilderTypeCorrect`, `WaitsNeverRestart`
and, for open lines, `OpenLineCrossingsRequired`; on loops TLC refutes it
(`builder_loop_crossings`).

**Threads** (`ThreadsProofs`).

* `WebInv`: a task that is queued or run belongs to a connection whose
  descriptor is disarmed and whose time is not over, so the loop starts no second
  one and does not expire it (`TasksHoldTheirConnections`); connections not yet
  accepted are blank. Theorems
  `WebTypeCorrect`, `TableStaysTrue`, `BufferUsedByOne`; the last for
  `~setup.slow`, which the property itself states. `ReuseGuardedInTime` adds that
  in this case a worker arms and closes only its own connection's descriptor;
  otherwise TLC refutes that (section 6).
* `TasksAccounted`: each submitted task is in the queue, in one worker's hands or
  done, and in one of these once. Theorems `ThreadPoolTypeCorrect`,
  `TasksRunOnce`.
* The type invariant of the monitor is inductive; `TelemetryNeverOlder` follows,
  because `upsertBatch` stores nothing older and `removeStale` only deletes.
* `SenderInv`: an event that is taken, and every request that was given up, was
  sent in its turn: all that comes before it in its session has been processed
  (`SentInTurn`), so a late copy cannot be ahead of anything. For the next event
  this follows from the queue, in which whatever comes before an event is ahead of
  it, in the hands of the thread or processed (`QueueFollows`), and from there being
  one thread (`OneSender`). The last two are claimed when the last `Start` has
  found no older thread alive (`alone`), which `ControlInOrder` itself states;
  otherwise TLC refutes the order (`SessionInOrder`, section 6). `ControlStaysInOrder` and
  `SenderTypeCorrect` need no hypothesis on the constants: the wait of `Stop` may
  always end early.
* `MotionInv`: the set under construction is neither published nor being read;
  `MotionTypeCorrect` and `ReadersSeeFrames` follow. `HoldInv` describes the two
  walks of `HoldTrain`: the vehicles visited are a chain in which nobody is
  coupled to the last one but the current one (`WalkedUp`, `WalkedDown`), so a
  walk that meets a visited vehicle has met its first one; and every wanted
  vehicle lies on the way down from where the second walk begins
  (`WantedFrom`, `HeadOrRing`). `WholeTrainsStayHeld` assumes `TrainsAsInGame`:
  couplings are mutual and no train is longer than `MaximumConsistVehicles`,
  beyond which the code stops on purpose.

**Requests** (`RequestsProofs`).

* `ParserInv`: the type invariant and `AnswersOwnRequest`, with the facts that an
  answer is written only after parsing and that only a request under way is
  parsed. The weight is in what `parse` computes: the head of the buffer ends
  where the head of the request ends (`HeadOfBuffer`), so parsing again after
  every piece reads the same lines; after each line the state is the one
  described by `AfterLines` (`ParseLinesFacts`, with `LoopRuns` for the existence
  of the loop's states and `UpTo` for the induction, both from the
  well-foundedness of the naturals). `ParserAssumptions` says that requests begin
  with a request line or an empty line and contain all of the body they announce,
  unless its length is refused; a client
  that stops before is a behaviour in which the last pieces never arrive.
  Theorems `ParserTypeCorrect`, `AnswersStayOwn`.
* `TimerInv`: the valid node of an open connection expires a timeout after its
  last activity and is in the heap. New ids are above all ids in the heap, so a
  new node is the only valid one. Theorems `TimerSafety`, `ExpiryIsIdle`,
  `ExpiryIsComplete`.
* `StoreInv`: a transaction under way has changed its own image only
  (`TransactionUnderWay`). Theorem `StoredImageStaysWhole`.
* `ApiInv`: connections lent to requests and those in the client pool together
  are at most `redis_pool_size`, and a request between reading and storing knows
  whether a change has overtaken it. Theorems `ApiTypeCorrect`,
  `StaleCacheExplained`.
* `PoolInv`: a thread has a connection exactly in the stages that use one
  (`StageTellsConn`), queued, used and to be replaced connections are at most
  `max_conn` (`WithinCapacity`), and a stopped pool is empty. Theorems
  `PoolTypeCorrect`, `ConnectionsStayConserved`, `WakeupsNotLost`.

Only model-checked:

* all liveness (`ResourcesComeFree`, `RequestsAnswered`, `TasksAreRun` and the
  like): fairness is out of the prover's reach;
* `NoHeadOn` and `TrainsInsideAccounted` with failing transactions (fault
  `database`): the row and the memory of the server then differ;
* `ZoneByTrackLength`: it compares the walk with a sum over a set, which is
  defined by recursion over the set.

## 6. Disagreements between the code and its comments

Three are runs that expect a violation:

1. `orphan_release`: a train whose phase was lost (restart, or stale for one
   poll) is a candidate again although it has a command; its second release is
   dropped after the manager has reserved it, and that corridor waits for an ACK
   to a command nobody can query (`RailwayDispatchService.h:66`).
2. `system_cleared_lost`: `markCleared` counts an exit for a train that has no
   passage. A cleared report repeated because its answer was lost takes the
   train that followed off the count (`RailwayDispatchService.cpp:493`). A copy
   that was given up after 2 seconds and is processed after its repetition does
   the same, at any later time.
3. `builder_loop_crossings`: `liesAheadThroughCorridor` does not wrap around on
   loop lines, so a train before the seam does not ask for the crossings behind
   it (`DispatchCandidateBuilder.cpp:71`).

The modules also keep statements of the source that the code does not keep and
no run lists. TLC refutes each when it is named in the cfg of the given run,
with the change in brackets:

| Statement | Run | What happens |
|---|---|---|
| `ControlledTrainsNotCandidates` | `orphan_release` | a train inside a corridor that loses its phase is a candidate again (`DispatchCandidateBuilder.cpp:119`) |
| `PendingPhaseHasCommand` | `orphan_release` | a failed database write leaves a train in `RELEASE_PENDING` without a command (`RailwayDispatchService.cpp:370`) |
| `TrainsInsideAccounted` | `system` [fault `stale`, or `vanish` with `late`] | a command is cancelled after its train was let go; a late cleared report of a cancelled command takes another train off the count (`RailwayDispatchService.cpp:256`, `:493`) |
| `NewCommandsNotFinished` | `system` [`Persistent = FALSE`] | without a database ids start again at one (`DispatchRuntime.cs:401`) |
| `ResourcesComeFree` | `system_progress` [fault `database`, outcome `rolledBack`] | an ACK answered 409 because the database failed is dropped for good (`TelemetrySender.cs:249`) |
| `RemovedTrainsWereSilent` | `threads` | a poll that read the clock before a batch and runs after it removes trains that have just reported (`TrainMonitor.cpp:97`) |
| `WaitKeptInZone` | `planning` | a train whose release is refused waits from zero again (`DispatchCandidateBuilder.cpp:192`) |
| `ZoneByTrackLength` | `planning` [`IsLoop = TRUE` as in `MCBuilderLoopCrossings.cfg`] | the walk from the very end of a loop counts the wrong segment first (`DispatchCandidateBuilder.cpp:44`) |
| `EnteredPassagesFollowedUp` | `mod` | an acknowledged passage that becomes outdated is dropped without a report (`DispatchRuntime.cs:387`) |
| `ReportsFollowProtocol` | `mod` [`MaxFinished = 1`] | the finished ids are forgotten all at once, and a repeated answer is carried out again (`DispatchRuntime.cs:401`) |
| `FailedFramesHoldNothing` | `mod` | a frame that fails publishes what it had collected (`DispatchRuntime.cs:154`) |
| `SessionInOrder` | `requests` | `Join(2500)` returns while the old thread is in a request or its backoff; if the sender is started again before the thread looks at `running`, two threads send the events of the new session side by side and a cleared report passes an ACK (`TelemetrySender.cs:156`, against `:209`) |
| `RepetitionsInOrder` | `requests` | a copy of an ACK that was given up is processed after the cleared report (`TelemetrySender.cs:391`) |
| `HalfClosedAnswered` | `threads` | a client half-closes its side after a complete request and its answer fills the send buffer; the end of the stream is then reported alone, and the loop closes the connection in the middle of the answer (`WebServer.cpp:96`, against `TcpConn.cpp:71`) |
| `ArmedForOwnConnection`, `WorkersCloseTheirOwn` | `threads` | a task that outlasts the timer arms or closes the descriptor that the next connection has reused (`WebServer.cpp:204`, `:242`) |
| `NoLeakedSockets` | `threads` | a connection marked `CLOSED` before it is closed keeps its socket (`WebServer.cpp:323`) |
| `ClosedClientsDropped` | `threads` | a half-closed client with part of a request is never dropped (`TcpConn.cpp:73`) |
| `IllegalLinesRejected` | `requests` [shapes with `ShortLines`] | a short request line is completed from the previous request (`HttpConn.cpp:470`) |
| `WaitersServed` | `requests` [with `PoolFairness`] | connections that could not be replaced at once are never replaced (`DBConnectionPool.cpp:99`) |
| `WritesVisible` | `requests` | a reader stores what it read before a change after its invalidation (`HttpConn.cpp:1115`) |
| `EnabledHasConnection` | `requests` | failed commands use up the Redis pool (`RedisCache.cpp:109`) |

In proactor mode workers call `timer_.update` without a lock
(`WebServer.cpp:246`): a data race on the containers, after which nothing about
the timers can be said. `TimerManager` models the reactor, where all calls come
from the event loop.

## 7. Plan

Done: all components above, their composition, faults, liveness, and proofs of
the safety properties listed in section 5. Left are proofs, in this order:

1. `DispatchSystem`: `NoHeadOn` with the fault `database`.
2. `DispatchCandidateBuilder`: `ZoneByTrackLength`, by splitting the sum over a
   stretch of track at the end of a segment.

Not modelled: route geometry (`LineRouteAnalyzer`, floating point; its result is
a constant of the models), the indexes of the topology registry, arrival
predictions of the planner, configuration files, JSON contents and static
files, the Redis wire protocol and the mirror written by the persistence, the
web page, start scripts, and the mod's collectors and patches, which read game
state.
