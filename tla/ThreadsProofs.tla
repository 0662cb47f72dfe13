----------------------------- MODULE ThreadsProofs -----------------------------
(***************************************************************************)
(* Proofs about the parts in which several threads share state without a   *)
(* lock that spans the whole operation: the connections of the server with *)
(* event loop and workers, the thread pool, the requests at the train      *)
(* monitor, the sending thread of the mod, and the held vehicles that the  *)
(* simulation reads.  Each holds for any number of descriptors, workers,   *)
(* connections, tasks, trains, vehicles, events and failures.              *)
(***************************************************************************)
EXTENDS WebServer, ThreadPool, TrainMonitor, TelemetrySender, TrainMotionController,
        FiniteSetTheorems, SequenceTheorems, TLAPS

-----------------------------------------------------------------------------
(* Connections and event loop: the inductive invariant.                    *)

WorkPcs == {"idle", "reading", "read", "processing", "closing", "armIn", "armOut"}
QueuedTask == [pc : {"queued"}, id : Id, fd : Fd]
WorkerTask == [pc : WorkPcs, id : Id \cup {NoConnection}, fd : Fd \cup {NoFd}]

\* What the type invariant leaves open: the tasks and the settings.
TasksTyped ==
    /\ setup \in [proactor : BOOLEAN, slow : BOOLEAN, fds : SUBSET Fd, requests : Nat]
    /\ tasks \in Seq(QueuedTask)
    /\ work \in [Worker -> WorkerTask]

\* A connection object that was not accepted yet has neither socket nor data.
UnbornIsBlank == \A i \in Id : state[i] = "unborn" => sock[i] = NoFd /\ got[i] = 0

\* A task that is under way still has the connection it was created for
\* under its number, and that number is disarmed and has time left.
HeldBy(t) == conns[t.fd] = t.id /\ armed[t.fd] = "off" /\ ~due[t.fd]

\* The tasks are on their own connections, and no two on the same: what the
\* loop relies on when it is the only one to re-arm or close a descriptor
\* without a task.  Only a timer that runs out during a task breaks this.
TasksHoldTheirConnections ==
    ~setup.slow =>
        /\ \A k \in DOMAIN tasks : HeldBy(tasks[k])
        /\ \A w \in Worker : work[w].pc # "idle" => HeldBy(work[w])
        /\ \A k, l \in DOMAIN tasks : tasks[k].fd = tasks[l].fd => k = l
        /\ \A k \in DOMAIN tasks : \A w \in Worker :
              work[w].pc # "idle" => work[w].fd # tasks[k].fd
        /\ \A v, w \in Worker :
              (work[v].pc # "idle" /\ work[w].pc # "idle" /\ work[v].fd = work[w].fd) => v = w

WebInv ==
    /\ WebTypeOK
    /\ TasksTyped
    /\ UnbornIsBlank
    /\ TableMatchesSockets
    /\ TasksHoldTheirConnections

-----------------------------------------------------------------------------
(* Steps that several actions share.                                       *)

\* What the invariant says of a number in the table.
LEMMA InTable ==
    ASSUME WebInv, NEW f \in Fd, conns[f] # NoConnection
    PROVE  /\ conns[f] \in Id /\ owner[f] = conns[f] /\ sock[conns[f]] = f
           /\ state[conns[f]] # "unborn"
BY WebServerAssumptions DEF WebInv, WebTypeOK, TableMatchesSockets, UnbornIsBlank

\* What closing the connection under number f changes (closeConncl): the
\* number leaves the table, and at most this connection loses its socket.
LEMMA CloseEffect ==
    ASSUME WebInv, NEW f \in Fd, conns[f] # NoConnection, NEW s, Close(f, conns[f], s)
    PROVE  /\ conns' = [conns EXCEPT ![f] = NoConnection]
           /\ armed' = [armed EXCEPT ![f] = "none"] /\ due' = [due EXCEPT ![f] = FALSE]
           /\ owner' \in [Fd -> Id \cup {NoConnection}]
           /\ \A g \in Fd : g # f => owner'[g] = owner[g]
           /\ sock' \in [Id -> Fd \cup {NoFd}]
           /\ \A j \in Id : j # conns[f] => sock'[j] = sock[j] /\ state'[j] = state[j]
           /\ sock'[conns[f]] \in {NoFd, sock[conns[f]]}
           /\ s \notin {"CLOSED", "CLOSING"} => sock'[conns[f]] = NoFd
           /\ state' \in [Id -> {"unborn", "IDLE", "READING", "PROCESSING", "WRITING",
                                 "CLOSING", "CLOSED"}]
           /\ state'[conns[f]] # "unborn"
<1>1. /\ conns[f] \in Id /\ sock[conns[f]] = f /\ f # NoFd
  BY InTable, WebServerAssumptions
<1> QED BY <1>1 DEF Close, Forget, SocketClosed, WebInv, WebTypeOK, NoConnection

\* A connection without a socket gets none by a close.
LEMMA ClosedStaysClosed ==
    ASSUME WebInv, NEW f \in Fd, conns[f] # NoConnection, NEW s, Close(f, conns[f], s)
    PROVE  \A j \in Id : sock'[j] # NoFd => sock[j] # NoFd
<1>1. conns[f] \in Id
  BY InTable
<1>2. /\ \A j \in Id : j # conns[f] => sock'[j] = sock[j]
      /\ sock'[conns[f]] \in {NoFd, sock[conns[f]]}
  BY CloseEffect
<1> QED BY <1>1, <1>2

\* A task on number f is queued or running.
TaskOn(f) ==
    \/ \E k \in DOMAIN tasks : tasks[k].fd = f
    \/ \E w \in Worker : work[w].pc # "idle" /\ work[w].fd = f

\* An armed number has no task on it, nor has one whose time is over or
\* whose connection has none.
LEMMA NoTaskOn ==
    ASSUME WebInv, ~setup.slow, NEW f \in Fd, armed[f] # "off" \/ due[f] \/ ~InTask(conns[f])
    PROVE  ~TaskOn(f)
BY DEF WebInv, TasksHoldTheirConnections, HeldBy, TaskOn, InTask

\* The numbers tasks refer to.
LEMMA TaskFields ==
    ASSUME WebInv
    PROVE  /\ \A k \in DOMAIN tasks :
                 /\ tasks[k] \in QueuedTask /\ tasks[k].id \in Id /\ tasks[k].fd \in Fd
           /\ \A w \in Worker : work[w].pc # "idle" => work[w].id \in Id /\ work[w].fd \in Fd
<1>1. tasks \in Seq(QueuedTask)
  BY DEF WebInv, TasksTyped
<1>2. \A k \in DOMAIN tasks : tasks[k] \in QueuedTask
  BY <1>1
<1>3. \A t \in QueuedTask : t.id \in Id /\ t.fd \in Fd
  BY DEF QueuedTask
<1> QED BY <1>2, <1>3 DEF WebInv, WebTypeOK

\* Closing keeps the table true to the sockets.
LEMMA CloseKeepsTable ==
    ASSUME WebInv, NEW f \in Fd, conns[f] # NoConnection, NEW s, Close(f, conns[f], s)
    PROVE  /\ TableMatchesSockets'
           /\ \A i \in Id : state'[i] = "unborn" => state[i] = "unborn" /\ sock'[i] = sock[i]
<1>1. conns[f] \in Id /\ sock[conns[f]] = f
  BY InTable
<1>2. \A i \in Id : state'[i] = "unborn" => state[i] = "unborn" /\ sock'[i] = sock[i]
  BY CloseEffect
<1>3. ASSUME NEW g \in Fd, conns'[g] # NoConnection
      PROVE  owner'[g] = conns'[g] /\ sock'[conns'[g]] = g
  <2>1. conns' = [conns EXCEPT ![f] = NoConnection] /\ conns \in [Fd -> Id \cup {NoConnection}]
    BY CloseEffect DEF WebInv, WebTypeOK
  <2>2. g # f /\ conns'[g] = conns[g]
    BY <1>3, <2>1
  <2>3. conns[g] \in Id /\ owner[g] = conns[g] /\ sock[conns[g]] = g
    BY <1>3, <2>2, InTable
  <2>4. conns[g] # conns[f]
    BY <1>1, <2>2, <2>3
  <2> QED BY <2>2, <2>3, <2>4, CloseEffect
<1> QED BY <1>2, <1>3 DEF TableMatchesSockets

\* Closing a number without a task disturbs no task.
LEMMA CloseKeepsTasks ==
    ASSUME WebInv, NEW f \in Fd, conns[f] # NoConnection, NEW s, Close(f, conns[f], s),
           ~setup.slow => ~TaskOn(f), UNCHANGED <<setup, tasks, work>>
    PROVE  TasksHoldTheirConnections'
<1>1. /\ conns' = [conns EXCEPT ![f] = NoConnection] /\ conns \in [Fd -> Id \cup {NoConnection}]
      /\ armed' = [armed EXCEPT ![f] = "none"]
      /\ armed \in [Fd -> {"none", "off", "in", "out"}]
      /\ due' = [due EXCEPT ![f] = FALSE] /\ due \in [Fd -> BOOLEAN]
  BY CloseEffect DEF WebInv, WebTypeOK
<1>2. SUFFICES ASSUME ~setup.slow PROVE TasksHoldTheirConnections'
  BY DEF TasksHoldTheirConnections
<1>3. \A g \in Fd : g # f => conns'[g] = conns[g] /\ armed'[g] = armed[g] /\ due'[g] = due[g]
  BY <1>1
<1>4. \A k \in DOMAIN tasks : tasks[k].fd \in Fd
  BY TaskFields
<1>5. \A w \in Worker : work[w].pc # "idle" => work[w].fd \in Fd
  BY TaskFields
<1> QED BY <1>2, <1>3, <1>4, <1>5
        DEF WebInv, TasksHoldTheirConnections, HeldBy, TaskOn

\* A worker that goes on with its task or ends it leaves the tasks on their
\* connections.
LEMMA WorkerMoves ==
    ASSUME WebInv, NEW w \in Worker, work[w].pc # "idle",
           (\E pc0 \in WorkPcs \ {"idle"} : Step(w, pc0)) \/ Done(w),
           UNCHANGED <<setup, tasks>>
    PROVE  /\ TasksTyped'
           /\ \A v \in Worker : work'[v].pc # "idle" => work'[v].id \in Id /\ work'[v].fd \in Fd
           /\ UNCHANGED <<conns, armed, due>> => TasksHoldTheirConnections'
<1>1. work \in [Worker -> WorkerTask] /\ work[w] \in WorkerTask
  BY DEF WebInv, TasksTyped
<1>2. \A v \in Worker : v # w => work'[v] = work[v]
  BY <1>1 DEF Step, Done
<1>3. /\ work' \in [Worker -> WorkerTask]
      /\ work'[w].pc # "idle" => work'[w].id = work[w].id /\ work'[w].fd = work[w].fd
  BY <1>1 DEF Step, Done, WorkerTask, NoTask, WorkPcs, NoConnection
<1>4. TasksTyped'
  BY <1>3 DEF WebInv, TasksTyped
<1>5. \A v \in Worker : work'[v].pc # "idle" =>
          /\ work[v].pc # "idle" /\ work'[v].id = work[v].id /\ work'[v].fd = work[v].fd
  BY <1>2, <1>3
<1>6. ASSUME UNCHANGED <<conns, armed, due>> PROVE TasksHoldTheirConnections'
  BY <1>5, <1>6 DEF WebInv, TasksHoldTheirConnections, HeldBy
<1> QED BY <1>4, <1>5, <1>6, TaskFields

-----------------------------------------------------------------------------
(* One lemma per operation.                                                *)

\* Clients send and go as they like.
LEMMA ClientInv ==
    ASSUME WebInv, NEW i \in Id, ClientSends(i) \/ ClientReads(i) \/ ClientCloses(i),
           UNCHANGED setup
    PROVE  WebInv'
<1>1. /\ UNCHANGED <<setup, owner, armed, due, conns, state, sock, got, tasks, work>>
      /\ sent' = sent \/ (sent[i] < 2 /\ sent' = [sent EXCEPT ![i] = @ + 1])
  BY DEF ClientSends, ClientReads, ClientCloses, kernelVars, connVars, taskVars
<1>2. WebTypeOK'
  <2>1. sent' \in [Id -> 0..2] /\ \A j \in Id : sent[j] <= sent'[j]
    BY <1>1 DEF WebInv, WebTypeOK
  <2>2. \A j \in Id : Open(j)' => got'[j] <= sent'[j]
    BY <1>1, <2>1 DEF WebInv, WebTypeOK, Open
  <2> QED BY <1>1, <2>1, <2>2 DEF WebInv, WebTypeOK
<1> QED BY <1>1, <1>2
        DEF WebInv, TasksTyped, UnbornIsBlank, TableMatchesSockets,
            TasksHoldTheirConnections, HeldBy

\* handleAccept: a free number has no entry in the table, and no task
\* (tasks hold their entries), so the new connection disturbs nobody.
LEMMA AcceptInv ==
    ASSUME WebInv, NEW i \in Id, NEW f \in Fd, HandleAccept(i, f), UNCHANGED setup
    PROVE  WebInv'
<1> USE DEF WebInv
<1>0. /\ state[i] = "unborn" /\ owner[f] = NoConnection
      /\ owner' = [owner EXCEPT ![f] = i] /\ sock' = [sock EXCEPT ![i] = f]
      /\ state' = [state EXCEPT ![i] = "IDLE"] /\ conns' = [conns EXCEPT ![f] = i]
      /\ armed' = [armed EXCEPT ![f] = "in"]
      /\ UNCHANGED <<setup, due, got, sent, tasks, work>>
  BY DEF HandleAccept, clientVars, taskVars
<1>1. sock[i] = NoFd /\ got[i] = 0 /\ i # NoConnection /\ f # NoFd /\ conns[f] = NoConnection
  BY <1>0, WebServerAssumptions DEF UnbornIsBlank, Id, NoConnection, TableMatchesSockets
<1>2. WebTypeOK'
  BY <1>0, <1>1 DEF WebTypeOK, Open
<1>3. TasksTyped' /\ UnbornIsBlank'
  BY <1>0 DEF TasksTyped, UnbornIsBlank, WebTypeOK
<1>4. TableMatchesSockets'
  BY <1>0, <1>1, WebServerAssumptions DEF TableMatchesSockets, WebTypeOK
<1>5. TasksHoldTheirConnections'
  <2>1. SUFFICES ASSUME ~setup.slow PROVE TasksHoldTheirConnections'
    BY <1>0 DEF TasksHoldTheirConnections
  <2>2. \A g \in Fd : g # f => conns'[g] = conns[g] /\ armed'[g] = armed[g]
    BY <1>0 DEF WebTypeOK
  <2>3. /\ \A k \in DOMAIN tasks : tasks[k].fd \in Fd \ {f}
        /\ \A w \in Worker : work[w].pc # "idle" => work[w].fd \in Fd \ {f}
    BY <1>1, <2>1, TaskFields DEF TasksHoldTheirConnections, HeldBy, Id, NoConnection
  <2> QED BY <1>0, <2>1, <2>2, <2>3 DEF TasksHoldTheirConnections, HeldBy
<1> QED BY <1>2, <1>3, <1>4, <1>5

\* Closing a number without a task, nothing else being changed but what has
\* been read, keeps the invariant.
LEMMA CloseInv ==
    ASSUME WebInv, NEW f \in Fd, conns[f] # NoConnection, NEW s, Close(f, conns[f], s),
           ~setup.slow => ~TaskOn(f), UNCHANGED <<setup, tasks, work>>,
           got' \in [Id -> 0..2], sent' \in [Id -> 0..2],
           \A j \in Id : state[j] = "unborn" => got'[j] = got[j],
           \A j \in Id : sock'[j] # NoFd => got'[j] <= sent'[j]
    PROVE  WebInv'
<1> USE DEF WebInv
<1>1. TableMatchesSockets' /\ TasksHoldTheirConnections'
  BY CloseKeepsTable, CloseKeepsTasks
<1>2. UnbornIsBlank'
  BY CloseKeepsTable DEF UnbornIsBlank
<1>3. WebTypeOK'
  <2>1. /\ conns' = [conns EXCEPT ![f] = NoConnection]
        /\ armed' = [armed EXCEPT ![f] = "none"] /\ due' = [due EXCEPT ![f] = FALSE]
        /\ owner' \in [Fd -> Id \cup {NoConnection}] /\ sock' \in [Id -> Fd \cup {NoFd}]
        /\ state' \in [Id -> {"unborn", "IDLE", "READING", "PROCESSING", "WRITING",
                              "CLOSING", "CLOSED"}]
    BY CloseEffect
  <2> QED BY <2>1 DEF WebTypeOK, Open
<1>4. TasksTyped'
  BY DEF TasksTyped
<1> QED BY <1>1, <1>2, <1>3, <1>4

\* The timer runs out on a connection without a task only, or tasks may be
\* slow.
LEMMA TimerInv ==
    ASSUME WebInv, NEW f \in Fd, TimerRunsOut(f), UNCHANGED setup
    PROVE  WebInv'
<1>1. /\ due' = [due EXCEPT ![f] = TRUE]
      /\ InTask(conns[f]) => setup.slow
      /\ UNCHANGED <<setup, owner, armed, conns, state, sock, got, sent, tasks, work>>
  BY DEF TimerRunsOut, connVars, clientVars, taskVars
<1>2. WebTypeOK'
  <2>1. due' \in [Fd -> BOOLEAN]
    BY <1>1 DEF WebInv, WebTypeOK
  <2> QED BY <1>1, <2>1 DEF WebInv, WebTypeOK, Open
<1>3. TasksHoldTheirConnections'
  <2>1. SUFFICES ASSUME ~setup.slow PROVE TasksHoldTheirConnections'
    BY <1>1 DEF TasksHoldTheirConnections
  <2>2. ~TaskOn(f)
    BY <1>1, <2>1, NoTaskOn
  <2>3. /\ \A k \in DOMAIN tasks : tasks[k].fd \in Fd \ {f}
        /\ \A w \in Worker : work[w].pc # "idle" => work[w].fd \in Fd \ {f}
    BY <2>2, TaskFields DEF TaskOn
  <2>4. \A g \in Fd : g # f => due'[g] = due[g]
    BY <1>1 DEF WebInv, WebTypeOK
  <2> QED BY <1>1, <2>1, <2>3, <2>4 DEF WebInv, TasksHoldTheirConnections, HeldBy
<1> QED BY <1>1, <1>2, <1>3 DEF WebInv, TasksTyped, UnbornIsBlank, TableMatchesSockets

\* handleExpired and the events that report an error or the end of the
\* stream close the connection.
LEMMA DropInv ==
    ASSUME WebInv, NEW f \in Fd, HandleError(f) \/ HandleHangUp(f) \/ Timeout(f),
           UNCHANGED setup
    PROVE  WebInv'
<1>1. /\ conns[f] # NoConnection /\ Close(f, conns[f], state[conns[f]])
      /\ UNCHANGED <<setup, got, sent, tasks, work>>
  BY DEF HandleError, HandleHangUp, Timeout, clientVars, taskVars
<1>2. ~setup.slow => ~TaskOn(f)
  BY NoTaskOn DEF HandleError, HandleHangUp, Timeout
<1>3. \A j \in Id : sock'[j] # NoFd => sock[j] # NoFd
  BY <1>1, ClosedStaysClosed
<1>4. got' \in [Id -> 0..2] /\ sent' \in [Id -> 0..2]
  BY <1>1 DEF WebInv, WebTypeOK
<1>5. /\ \A j \in Id : state[j] = "unborn" => got'[j] = got[j]
      /\ \A j \in Id : sock'[j] # NoFd => got'[j] <= sent'[j]
  BY <1>1, <1>3 DEF WebInv, WebTypeOK, Open
<1> QED BY <1>1, <1>2, <1>4, <1>5, CloseInv

\* What a read leaves in the buffers.
LEMMA ReceivedBounded ==
    ASSUME WebInv, NEW i \in Id
    PROVE  /\ Received(i) \in [Id -> 0..2]
           /\ \A j \in Id : sock[j] # NoFd => Received(i)[j] <= sent[j]
           /\ \A j \in Id : state[j] = "unborn" => Received(i)[j] = got[j]
<1>1. /\ got \in [Id -> 0..2] /\ sent \in [Id -> 0..2]
      /\ \A j \in Id : sock[j] # NoFd => got[j] <= sent[j]
  BY DEF WebInv, WebTypeOK, Open
<1>2. CASE Open(i) /\ ~broken[i]
  <2>1. Received(i) = [got EXCEPT ![i] = sent[i]]
    BY <1>2 DEF Received
  <2>2. state[i] # "unborn"
    BY <1>2 DEF Open, WebInv, UnbornIsBlank
  <2> QED BY <1>1, <2>1, <2>2
<1>3. CASE ~(Open(i) /\ ~broken[i])
  BY <1>1, <1>3 DEF Received
<1> QED BY <1>2, <1>3

\* Handing an idle connection to the workers keeps the invariant: its number
\* was armed, so no task is on it, and it is disarmed before the task exists.
LEMMA HandOver ==
    ASSUME WebInv, NEW f \in Fd, conns[f] # NoConnection, armed[f] = "in", ~due[f], Disarm(f),
           NEW s \in {"READING", "PROCESSING"},
           \/ state' = [state EXCEPT ![conns[f]] = s] /\ EnqueueTask(conns[f], f)
           \/ UNCHANGED <<state, tasks>>,
           UNCHANGED <<setup, owner, due, conns, sock, sent, work>>,
           got' \in [Id -> 0..2],
           \A j \in Id : state[j] = "unborn" => got'[j] = got[j],
           \A j \in Id : sock[j] # NoFd => got'[j] <= sent[j]
    PROVE  WebInv'
<1> USE DEF WebInv
<1>1. conns[f] \in Id /\ state[conns[f]] # "unborn"
  BY InTable
<1>2. /\ armed' = [armed EXCEPT ![f] = "off"] /\ armed' \in [Fd -> {"none", "off", "in", "out"}]
      /\ armed'[f] = "off" /\ \A g \in Fd : g # f => armed'[g] = armed[g]
  BY DEF Disarm, WebTypeOK
<1>3. /\ state' \in [Id -> {"unborn", "IDLE", "READING", "PROCESSING", "WRITING", "CLOSING",
                            "CLOSED"}]
      /\ \A j \in Id : state'[j] = "unborn" => state[j] = "unborn"
  BY <1>1 DEF WebTypeOK
<1>4. WebTypeOK'
  BY <1>2, <1>3 DEF WebTypeOK, Open
<1>5. UnbornIsBlank' /\ TableMatchesSockets'
  BY <1>3 DEF UnbornIsBlank, TableMatchesSockets
<1> DEFINE new == [pc |-> "queued", id |-> conns[f], fd |-> f]
<1>6. new \in QueuedTask /\ new.fd = f /\ new.id = conns[f]
  BY <1>1 DEF QueuedTask
<1> HIDE DEF new
<1>7. tasks' = tasks \/ tasks' = Append(tasks, new)
  BY DEF EnqueueTask, new
<1>8. TasksTyped'
  <2>1. tasks' \in Seq(QueuedTask)
    <3>1. tasks \in Seq(QueuedTask)
      BY DEF TasksTyped
    <3> HIDE DEF WebInv
    <3>2. Append(tasks, new) \in Seq(QueuedTask)
      BY <1>6, <3>1
    <3> QED BY <1>7, <3>1, <3>2
  <2> QED BY <2>1 DEF TasksTyped
<1>9. TasksHoldTheirConnections'
  <2>1. SUFFICES ASSUME ~setup.slow PROVE TasksHoldTheirConnections'
    BY DEF TasksHoldTheirConnections
  <2>2. ~TaskOn(f)
    BY <2>1, NoTaskOn
  <2>3. /\ \A k \in DOMAIN tasks : tasks[k].fd \in Fd \ {f}
        /\ \A w \in Worker : work[w].pc # "idle" => work[w].fd \in Fd \ {f}
    BY <2>2, TaskFields DEF TaskOn
  <2>4. CASE tasks' = tasks
    BY <1>2, <2>1, <2>3, <2>4 DEF TasksHoldTheirConnections, HeldBy
  <2>5. CASE tasks' = Append(tasks, new)
    <3>1. tasks \in Seq(QueuedTask)
      BY DEF TasksTyped
    <3>2. /\ DOMAIN tasks = 1..Len(tasks) /\ Len(tasks) \in Nat
          /\ DOMAIN tasks' = 1..(Len(tasks) + 1)
          /\ tasks'[Len(tasks) + 1] = new
          /\ \A k \in DOMAIN tasks : tasks'[k] = tasks[k]
      BY <1>6, <2>5, <3>1
    <3>3. \A k \in DOMAIN tasks' : k \in DOMAIN tasks \/ k = Len(tasks) + 1
      BY <3>2
    <3>4. /\ \A k \in DOMAIN tasks : HeldBy(tasks[k])' /\ tasks'[k].fd # f
          /\ \A w \in Worker : work[w].pc # "idle" => HeldBy(work[w])' /\ work[w].fd # f
      BY <1>2, <2>1, <2>3, <3>2 DEF TasksHoldTheirConnections, HeldBy
    <3>5. \A k \in DOMAIN tasks' : HeldBy(tasks[k])'
      BY <1>2, <1>6, <3>2, <3>3, <3>4 DEF HeldBy
    <3>6. \A k, l \in DOMAIN tasks' : tasks'[k].fd = tasks'[l].fd => k = l
      BY <1>6, <2>1, <3>2, <3>3, <3>4 DEF TasksHoldTheirConnections
    <3>7. \A k \in DOMAIN tasks' : \A w \in Worker :
              work[w].pc # "idle" => work[w].fd # tasks'[k].fd
      BY <1>6, <2>1, <3>2, <3>3, <3>4 DEF TasksHoldTheirConnections
    <3> QED BY <2>1, <3>4, <3>5, <3>6, <3>7 DEF TasksHoldTheirConnections
  <2> QED BY <1>7, <2>4, <2>5
<1> QED BY <1>4, <1>5, <1>8, <1>9

\* handleRead keeps the invariant, whoever reads.
LEMMA ReadInv ==
    ASSUME WebInv, NEW f \in Fd, ~due[f], HandleReadReactor(f) \/ HandleReadProactor(f),
           UNCHANGED setup
    PROVE  WebInv'
<1>0. /\ conns[f] # NoConnection /\ armed[f] = "in" /\ UNCHANGED <<setup, sent, work>>
  BY DEF HandleReadReactor, HandleReadProactor, clientVars
<1>1. conns[f] \in Id
  BY <1>0, InTable
<1>2. CASE HandleReadProactor(f)
  <2>1. /\ Disarm(f) /\ UNCHANGED <<owner, due, conns, sock, got>>
        /\ \/ state' = [state EXCEPT ![conns[f]] = "READING"] /\ EnqueueTask(conns[f], f)
           \/ UNCHANGED <<state, tasks>>
    BY <1>2 DEF HandleReadProactor
  <2>2. /\ got' \in [Id -> 0..2]
        /\ \A j \in Id : state[j] = "unborn" => got'[j] = got[j]
        /\ \A j \in Id : sock[j] # NoFd => got'[j] <= sent[j]
    BY <2>1 DEF WebInv, WebTypeOK, Open
  <2> QED BY <1>0, <2>1, <2>2, HandOver
<1>3. CASE HandleReadReactor(f)
  <2>1. /\ got' \in [Id -> 0..2]
        /\ \A j \in Id : state[j] = "unborn" => got'[j] = got[j]
        /\ \A j \in Id : sock[j] # NoFd => got'[j] <= sent[j]
    BY <1>1, <1>3, ReceivedBounded DEF HandleReadReactor
  <2>2. CASE ReadOk(conns[f])
    <3>1. /\ Disarm(f) /\ UNCHANGED <<owner, due, conns, sock>>
          /\ \/ state' = [state EXCEPT ![conns[f]] = "PROCESSING"] /\ EnqueueTask(conns[f], f)
             \/ UNCHANGED <<state, tasks>>
      BY <1>3, <2>2 DEF HandleReadReactor
    <3> QED BY <1>0, <2>1, <3>1, HandOver
  <2>3. CASE ~ReadOk(conns[f])
    <3>1. Close(f, conns[f], state[conns[f]]) /\ UNCHANGED tasks
      BY <1>3, <2>3 DEF HandleReadReactor
    <3>2. ~setup.slow => ~TaskOn(f)
      BY <1>0, NoTaskOn
    <3>3. \A j \in Id : sock'[j] # NoFd => sock[j] # NoFd
      BY <1>0, <3>1, ClosedStaysClosed
    <3>4. sent' \in [Id -> 0..2] /\ \A j \in Id : sock'[j] # NoFd => got'[j] <= sent'[j]
      BY <1>0, <2>1, <3>3 DEF WebInv, WebTypeOK
    <3> QED BY <1>0, <2>1, <3>1, <3>2, <3>4, CloseInv
  <2> QED BY <2>2, <2>3
<1> QED BY <1>2, <1>3

\* Re-arming or disarming a number without a task disturbs no task.
LEMMA ArmKeepsTasks ==
    ASSUME WebInv, NEW f \in Fd, ~setup.slow => ~TaskOn(f),
           \A g \in Fd : g # f => armed'[g] = armed[g],
           UNCHANGED <<setup, due, conns, tasks, work>>
    PROVE  TasksHoldTheirConnections'
<1>1. SUFFICES ASSUME ~setup.slow PROVE TasksHoldTheirConnections'
  BY DEF TasksHoldTheirConnections
<1>2. /\ \A k \in DOMAIN tasks : tasks[k].fd \in Fd \ {f}
      /\ \A w \in Worker : work[w].pc # "idle" => work[w].fd \in Fd \ {f}
  BY <1>1, TaskFields DEF TaskOn
<1> QED BY <1>1, <1>2 DEF WebInv, TasksHoldTheirConnections, HeldBy

\* handleWrite: the answer is out, and the connection is closed or waits for
\* the next request with an empty buffer.
LEMMA WriteInv ==
    ASSUME WebInv, NEW f \in Fd, NEW keepAlive \in BOOLEAN, HandleWrite(f, keepAlive),
           UNCHANGED setup
    PROVE  WebInv'
<1> DEFINE i == conns[f]
<1>0. /\ i # NoConnection /\ armed[f] = "out" /\ UNCHANGED <<setup, tasks, work>>
  BY DEF HandleWrite, taskVars
<1>1. i \in Id /\ state[i] # "unborn" /\ sock[i] = f
  BY <1>0, InTable
<1>2. ~setup.slow => ~TaskOn(f)
  BY <1>0, NoTaskOn
<1>3. /\ got \in [Id -> 0..2] /\ sent \in [Id -> 0..2]
      /\ \A j \in Id : sock[j] # NoFd => got[j] <= sent[j]
  BY DEF WebInv, WebTypeOK, Open
<1>4. CASE state[i] # "WRITING"
  <2>1. /\ armed' = [armed EXCEPT ![f] = "off"]
        /\ UNCHANGED <<owner, due, conns, state, sock, got, sent>>
    BY <1>4 DEF HandleWrite, Disarm, connVars, clientVars
  <2>2. TasksHoldTheirConnections'
    BY <1>0, <1>2, <2>1, ArmKeepsTasks DEF WebInv, WebTypeOK
  <2>3. WebTypeOK'
    BY <1>0, <2>1 DEF WebInv, WebTypeOK, Open
  <2> QED BY <1>0, <2>1, <2>2, <2>3 DEF WebInv, TasksTyped, UnbornIsBlank, TableMatchesSockets
<1>5. CASE state[i] = "WRITING" /\ broken[i]
  <2>1. Close(f, i, "CLOSED") /\ UNCHANGED <<got, sent>>
    BY <1>5 DEF HandleWrite, clientVars
  <2>2. \A j \in Id : sock'[j] # NoFd => sock[j] # NoFd
    BY <1>0, <1>1, <2>1, CloseEffect
  <2>3. \A j \in Id : sock'[j] # NoFd => got'[j] <= sent'[j]
    BY <1>3, <2>1, <2>2
  <2> QED BY <1>0, <1>2, <1>3, <2>1, <2>3, CloseInv
<1>6. CASE /\ state[i] = "WRITING" /\ ~broken[i]
           /\ UNCHANGED <<kernelVars, connVars, sent>>
  <2>1. UNCHANGED <<setup, owner, armed, due, conns, state, sock, got, sent, tasks, work>>
    BY <1>0, <1>6 DEF kernelVars, connVars
  <2> QED BY <2>1 DEF WebInv, WebTypeOK, Open, TasksTyped, UnbornIsBlank, TableMatchesSockets,
                      TasksHoldTheirConnections, HeldBy
<1>7. CASE /\ state[i] = "WRITING" /\ ~broken[i]
           /\ ~UNCHANGED <<kernelVars, connVars, sent>>
  <2>0. /\ sent' = [sent EXCEPT ![i] = 0]
        /\ \/ /\ ResetReadState(i) /\ state' = [state EXCEPT ![i] = "IDLE"]
              /\ armed' = [armed EXCEPT ![f] = "in"] /\ UNCHANGED <<conns, owner, due, sock>>
           \/ Close(f, i, state[i]) /\ UNCHANGED got
    BY <1>7 DEF HandleWrite
  <2>1. sent' = [sent EXCEPT ![i] = 0] /\ sent' \in [Id -> 0..2]
    BY <1>1, <1>3, <2>0
  <2>2. CASE Close(f, i, state[i]) /\ UNCHANGED got
    <3>1. /\ sock'[i] = NoFd
          /\ \A j \in Id : sock'[j] # NoFd => j # i /\ sock[j] # NoFd
      BY <1>0, <1>1, <1>7, <2>2, CloseEffect
    <3>2. \A j \in Id : sock'[j] # NoFd => got'[j] <= sent'[j]
      BY <1>3, <2>1, <2>2, <3>1
    <3> QED BY <1>0, <1>2, <1>3, <2>1, <2>2, <3>2, CloseInv
  <2>3. CASE /\ got' = [got EXCEPT ![i] = 0] /\ state' = [state EXCEPT ![i] = "IDLE"]
             /\ armed' = [armed EXCEPT ![f] = "in"] /\ UNCHANGED <<conns, owner, due, sock>>
    <3>1. TasksHoldTheirConnections'
      BY <1>0, <1>2, <2>3, ArmKeepsTasks DEF WebInv, WebTypeOK
    <3>2. got' \in [Id -> 0..2] /\ \A j \in Id : Open(j)' => got'[j] <= sent'[j]
      BY <1>1, <1>3, <2>1, <2>3 DEF Open
    <3>3. WebTypeOK'
      BY <1>0, <1>1, <2>1, <2>3, <3>2 DEF WebInv, WebTypeOK
    <3>4. UnbornIsBlank'
      BY <1>1, <1>3, <2>3 DEF WebInv, WebTypeOK, UnbornIsBlank
    <3> QED BY <1>0, <2>3, <3>1, <3>3, <3>4 DEF WebInv, TasksTyped, TableMatchesSockets
  <2> QED BY <2>0, <2>2, <2>3 DEF ResetReadState
<1> QED BY <1>4, <1>5, <1>6, <1>7

\* A worker takes the first task: it stays the only one on its number.
LEMMA TakeTaskInv ==
    ASSUME WebInv, NEW w \in Worker, TakeTask(w), UNCHANGED setup
    PROVE  WebInv'
<1> DEFINE t == Head(tasks)
           p == IF setup.proactor THEN "reading" ELSE "processing"
<1>0. /\ work[w].pc = "idle" /\ tasks # <<>> /\ tasks' = Tail(tasks)
      /\ work' = IF conns[t.fd] = t.id THEN [work EXCEPT ![w] = [t EXCEPT !.pc = p]] ELSE work
      /\ UNCHANGED <<setup, owner, armed, due, conns, state, sock, got, sent>>
  BY DEF TakeTask, kernelVars, connVars, clientVars
<1>1. /\ tasks \in Seq(QueuedTask) /\ work \in [Worker -> WorkerTask]
  BY DEF WebInv, TasksTyped
<1>2. /\ DOMAIN tasks = 1..Len(tasks) /\ Len(tasks) \in Nat /\ Len(tasks) >= 1
      /\ t = tasks[1] /\ tasks' \in Seq(QueuedTask)
      /\ DOMAIN tasks' = 1..(Len(tasks) - 1)
      /\ \A k \in DOMAIN tasks' : tasks'[k] = tasks[k + 1]
  BY <1>0, <1>1
<1>3. t \in QueuedTask /\ t.id \in Id /\ t.fd \in Fd
  BY <1>2, TaskFields
<1> DEFINE new == [t EXCEPT !.pc = p]
<1>4. /\ new \in WorkerTask /\ new.id = t.id /\ new.fd = t.fd /\ new.pc # "idle"
  BY <1>3 DEF QueuedTask, WorkerTask, WorkPcs
<1>5. work' = [work EXCEPT ![w] = new] \/ work' = work
  BY <1>0
<1> HIDE DEF new, t, p
<1>6. work' \in [Worker -> WorkerTask] /\ \A v \in Worker : v # w => work'[v] = work[v]
  BY <1>1, <1>4, <1>5
<1>7. work'[w] = new \/ work'[w].pc = "idle"
  BY <1>0, <1>1, <1>5
<1>8. WebTypeOK'
  <2>1. \A v \in Worker : work'[v].pc # "idle" => work'[v].id \in Id /\ work'[v].fd \in Fd
    BY <1>3, <1>4, <1>6, <1>7, TaskFields
  <2> QED BY <1>0, <2>1 DEF WebInv, WebTypeOK, Open
<1>9. TasksTyped' /\ UnbornIsBlank' /\ TableMatchesSockets'
  BY <1>0, <1>2, <1>6 DEF WebInv, TasksTyped, UnbornIsBlank, TableMatchesSockets
<1>10. TasksHoldTheirConnections'
  <2>1. SUFFICES ASSUME ~setup.slow PROVE TasksHoldTheirConnections'
    BY <1>0 DEF TasksHoldTheirConnections
  <2>2. /\ \A k \in DOMAIN tasks : HeldBy(tasks[k])
        /\ \A v \in Worker : work[v].pc # "idle" => HeldBy(work[v])
        /\ \A k, l \in DOMAIN tasks : tasks[k].fd = tasks[l].fd => k = l
        /\ \A k \in DOMAIN tasks : \A v \in Worker :
              work[v].pc # "idle" => work[v].fd # tasks[k].fd
        /\ \A v, u \in Worker :
              (work[v].pc # "idle" /\ work[u].pc # "idle" /\ work[v].fd = work[u].fd) => v = u
    BY <2>1 DEF WebInv, TasksHoldTheirConnections
  <2>3. /\ \A k \in DOMAIN tasks' : k + 1 \in DOMAIN tasks /\ k + 1 # 1 /\ k \in Nat
        /\ 1 \in DOMAIN tasks
    BY <1>2
  <2>4. \A k \in DOMAIN tasks' : HeldBy(tasks[k])' /\ tasks'[k].fd # t.fd
    BY <1>0, <1>2, <2>2, <2>3 DEF HeldBy
  <2>5. \A k, l \in DOMAIN tasks' : tasks'[k].fd = tasks'[l].fd => k = l
    BY <1>2, <2>2, <2>3
  <2>6. /\ \A v \in Worker : work'[v].pc # "idle" => HeldBy(work[v])'
        /\ \A v \in Worker : v # w => (work'[v].pc # "idle" => work'[v].fd # t.fd)
        /\ work'[w].pc # "idle" => work'[w].fd = t.fd
    BY <1>0, <1>2, <1>4, <1>6, <1>7, <2>2, <2>3 DEF HeldBy
  <2>7. \A k \in DOMAIN tasks' : \A v \in Worker :
            work'[v].pc # "idle" => work'[v].fd # tasks'[k].fd
    BY <1>2, <1>6, <2>2, <2>3, <2>4, <2>6
  <2>8. \A v, u \in Worker :
            (work'[v].pc # "idle" /\ work'[u].pc # "idle" /\ work'[v].fd = work'[u].fd) => v = u
    BY <1>6, <2>2, <2>6
  <2> QED BY <1>0, <2>1, <2>4, <2>5, <2>6, <2>7, <2>8 DEF TasksHoldTheirConnections
<1> QED BY <1>8, <1>9, <1>10 DEF WebInv

\* A worker changes the state of its connection and goes on or ends: nothing
\* that the others rely on.
LEMMA WorkerStateInv ==
    ASSUME WebInv, NEW w \in Worker, work[w].pc # "idle",
           (\E pc0 \in WorkPcs \ {"idle"} : Step(w, pc0)) \/ Done(w),
           NEW s \in {"IDLE", "PROCESSING", "WRITING", "CLOSED"},
           state' = state \/ (state[work[w].id] # "unborn"
                                /\ state' = [state EXCEPT ![work[w].id] = s]),
           got' \in [Id -> 0..2],
           \A j \in Id : state[j] = "unborn" => got'[j] = got[j],
           \A j \in Id : sock[j] # NoFd => got'[j] <= sent[j],
           UNCHANGED <<setup, owner, armed, due, conns, sock, sent, tasks>>
    PROVE  WebInv'
<1>1. work[w].id \in Id
  BY TaskFields
<1>2. /\ state' \in [Id -> {"unborn", "IDLE", "READING", "PROCESSING", "WRITING", "CLOSING",
                            "CLOSED"}]
      /\ \A j \in Id : state'[j] = "unborn" => state[j] = "unborn"
  BY <1>1 DEF WebInv, WebTypeOK
<1>3. /\ TasksTyped' /\ TasksHoldTheirConnections'
      /\ \A v \in Worker : work'[v].pc # "idle" => work'[v].id \in Id /\ work'[v].fd \in Fd
  BY WorkerMoves
<1>4. WebTypeOK'
  BY <1>2, <1>3 DEF WebInv, WebTypeOK, Open
<1>5. UnbornIsBlank' /\ TableMatchesSockets'
  BY <1>2 DEF WebInv, UnbornIsBlank, TableMatchesSockets
<1> QED BY <1>3, <1>4, <1>5 DEF WebInv

\* The worker's read, the step to PROCESSING, and process itself.
LEMMA WorkerInv ==
    ASSUME WebInv, NEW w \in Worker, WorkerRead(w) \/ StartProcessing(w) \/ Process(w),
           UNCHANGED setup
    PROVE  WebInv'
<1> DEFINE i == work[w].id
<1>1. /\ UNCHANGED <<owner, armed, due, conns, sock, sent, tasks>>
      /\ work[w].pc \in {"reading", "read", "processing"}
  BY DEF WorkerRead, StartProcessing, Process, kernelVars, clientVars
<1>2. i \in Id
  BY <1>1, TaskFields
<1>3. /\ got' \in [Id -> 0..2]
      /\ \A j \in Id : state[j] = "unborn" => got'[j] = got[j]
      /\ \A j \in Id : sock[j] # NoFd => got'[j] <= sent[j]
  <2>1. got' = Received(i) \/ got' = got
    BY DEF WorkerRead, StartProcessing, Process
  <2> QED BY <1>2, <2>1, ReceivedBounded DEF WebInv, WebTypeOK, Open
<1>4. (\E pc0 \in WorkPcs \ {"idle"} : Step(w, pc0)) \/ Done(w)
  <2>1. \/ Step(w, "closing") \/ Step(w, "read") \/ Step(w, "processing")
        \/ Step(w, "armIn") \/ Step(w, "armOut") \/ Done(w)
    BY DEF WorkerRead, StartProcessing, Process
  <2> QED BY <2>1 DEF WorkPcs
<1>5. CASE state' = state
  BY <1>1, <1>3, <1>4, <1>5, WorkerStateInv
<1>6. CASE WorkerRead(w) /\ state[i] = "READING"
  <2>1. state' = state \/ state' = [state EXCEPT ![i] = "CLOSED"]
    BY <1>6 DEF WorkerRead
  <2> QED BY <1>1, <1>3, <1>4, <1>6, <2>1, WorkerStateInv
<1>7. CASE StartProcessing(w) /\ state[i] = "READING"
  <2>1. state' = state \/ state' = [state EXCEPT ![i] = "PROCESSING"]
    BY <1>7 DEF StartProcessing
  <2> QED BY <1>1, <1>3, <1>4, <1>7, <2>1, WorkerStateInv
<1>8. CASE Process(w) /\ state[i] = "PROCESSING"
  <2>1. state' = [state EXCEPT ![i] = "WRITING"] \/ state' = [state EXCEPT ![i] = "IDLE"]
    BY <1>8 DEF Process
  <2> QED BY <1>1, <1>3, <1>4, <1>8, <2>1, WorkerStateInv
<1> QED BY <1>5, <1>6, <1>7, <1>8 DEF WorkerRead, StartProcessing, Process

\* closeConncl in a worker: with tasks in time it closes its own connection
\* and ends; with slow ones it may close that of another, which the
\* invariant then says nothing about.
LEMMA WorkerCloseInv ==
    ASSUME WebInv, NEW w \in Worker, WorkerClose(w), UNCHANGED setup
    PROVE  WebInv'
<1> DEFINE f == work[w].fd
<1>0. /\ work[w].pc = "closing" /\ Done(w) /\ UNCHANGED <<setup, got, sent, tasks>>
      /\ \/ conns[f] # NoConnection /\ Close(f, conns[f], state[conns[f]])
         \/ UNCHANGED <<owner, armed, due, conns, state, sock>>
  BY DEF WorkerClose, clientVars, kernelVars
<1>1. f \in Fd
  BY <1>0, TaskFields
<1>2. /\ TasksTyped'
      /\ \A v \in Worker : work'[v].pc # "idle" => work'[v].id \in Id /\ work'[v].fd \in Fd
      /\ UNCHANGED <<conns, armed, due>> => TasksHoldTheirConnections'
  BY <1>0, WorkerMoves
<1>3. CASE UNCHANGED <<owner, armed, due, conns, state, sock>>
  <2>1. WebTypeOK'
    BY <1>0, <1>2, <1>3 DEF WebInv, WebTypeOK, Open
  <2> QED BY <1>0, <1>2, <1>3, <2>1 DEF WebInv, UnbornIsBlank, TableMatchesSockets
<1>4. CASE conns[f] # NoConnection /\ Close(f, conns[f], state[conns[f]])
  <2>1. /\ conns' = [conns EXCEPT ![f] = NoConnection]
        /\ armed' = [armed EXCEPT ![f] = "none"] /\ due' = [due EXCEPT ![f] = FALSE]
        /\ owner' \in [Fd -> Id \cup {NoConnection}] /\ sock' \in [Id -> Fd \cup {NoFd}]
        /\ state' \in [Id -> {"unborn", "IDLE", "READING", "PROCESSING", "WRITING",
                              "CLOSING", "CLOSED"}]
        /\ \A j \in Id : sock'[j] # NoFd => sock[j] # NoFd
    <3> PICK s, g : s = state[conns[f]] /\ g = f
      OBVIOUS
    <3>1. g \in Fd /\ conns[g] # NoConnection /\ Close(g, conns[g], s)
      BY <1>1, <1>4
    <3> HIDE DEF f
    <3>2. /\ conns' = [conns EXCEPT ![g] = NoConnection] /\ armed' = [armed EXCEPT ![g] = "none"]
          /\ due' = [due EXCEPT ![g] = FALSE]
          /\ owner' \in [Fd -> Id \cup {NoConnection}] /\ sock' \in [Id -> Fd \cup {NoFd}]
          /\ state' \in [Id -> {"unborn", "IDLE", "READING", "PROCESSING", "WRITING",
                                "CLOSING", "CLOSED"}]
      BY <3>1, CloseEffect
    <3>3. \A j \in Id : sock'[j] # NoFd => sock[j] # NoFd
      BY <3>1, ClosedStaysClosed
    <3> QED BY <3>2, <3>3
  <2>2. WebTypeOK'
    BY <1>0, <1>2, <2>1 DEF WebInv, WebTypeOK, Open
  <2>3. TableMatchesSockets' /\ UnbornIsBlank'
    BY <1>0, <1>1, <1>4, CloseKeepsTable DEF WebInv, UnbornIsBlank
  <2>4. TasksHoldTheirConnections'
    <3>1. SUFFICES ASSUME ~setup.slow PROVE TasksHoldTheirConnections'
      BY <1>0 DEF TasksHoldTheirConnections
    <3>2. \A g \in Fd : g # f => conns'[g] = conns[g] /\ armed'[g] = armed[g] /\ due'[g] = due[g]
      BY <2>1 DEF WebInv, WebTypeOK
    <3>3. \A v \in Worker : work'[v].pc # "idle" => work'[v] = work[v] /\ v # w
      BY <1>0 DEF WebInv, TasksTyped, Done, NoTask
    <3>4. /\ \A k \in DOMAIN tasks : tasks[k].fd \in Fd \ {f}
          /\ \A v \in Worker : work'[v].pc # "idle" => work[v].fd \in Fd \ {f}
      BY <1>0, <3>1, <3>3, TaskFields DEF WebInv, TasksHoldTheirConnections
    <3> QED BY <1>0, <3>1, <3>2, <3>3, <3>4 DEF WebInv, TasksHoldTheirConnections, HeldBy
  <2> QED BY <1>2, <2>2, <2>3, <2>4 DEF WebInv
<1> QED BY <1>0, <1>3, <1>4

\* modFd at the end of a task: the task is gone when its number is armed.
LEMMA RearmInv ==
    ASSUME WebInv, NEW w \in Worker, Rearm(w), UNCHANGED setup
    PROVE  WebInv'
<1> DEFINE f == work[w].fd
<1>0. /\ work[w].pc # "idle" /\ Done(w)
      /\ UNCHANGED <<setup, owner, due, conns, state, sock, got, sent, tasks>>
  BY DEF Rearm, connVars, clientVars
<1>1. f \in Fd
  BY <1>0, TaskFields
<1>2. /\ armed' \in [Fd -> {"none", "off", "in", "out"}]
      /\ \A g \in Fd : g # f => armed'[g] = armed[g]
  BY <1>1 DEF Rearm, Arm, WebInv, WebTypeOK
<1>3. /\ TasksTyped'
      /\ \A v \in Worker : work'[v].pc # "idle" => work'[v].id \in Id /\ work'[v].fd \in Fd
  BY <1>0, WorkerMoves
<1>4. WebTypeOK'
  BY <1>0, <1>2, <1>3 DEF WebInv, WebTypeOK, Open
<1>5. TasksHoldTheirConnections'
  <2>1. SUFFICES ASSUME ~setup.slow PROVE TasksHoldTheirConnections'
    BY <1>0 DEF TasksHoldTheirConnections
  <2>2. \A v \in Worker : work'[v].pc # "idle" => work'[v] = work[v] /\ v # w
    BY <1>0 DEF WebInv, TasksTyped, Done, NoTask
  <2>3. /\ \A k \in DOMAIN tasks : tasks[k].fd \in Fd \ {f}
        /\ \A v \in Worker : work'[v].pc # "idle" => work[v].fd \in Fd \ {f}
    BY <1>0, <2>1, <2>2, TaskFields DEF WebInv, TasksHoldTheirConnections
  <2> QED BY <1>0, <1>2, <2>1, <2>2, <2>3 DEF WebInv, TasksHoldTheirConnections, HeldBy
<1> QED BY <1>0, <1>3, <1>4, <1>5 DEF WebInv, UnbornIsBlank, TableMatchesSockets

\* A server without connections satisfies the invariant.
LEMMA WebInitInv == WebInit => WebInv
<1> SUFFICES ASSUME WebInit PROVE WebInv
  OBVIOUS
<1> USE DEF WebInit
<1>1. WebTypeOK
  BY DEF WebTypeOK, Open, NoTask
<1>2. TasksTyped
  <2>1. NoTask \in WorkerTask
    BY DEF NoTask, WorkerTask, WorkPcs
  <2> QED BY <2>1, WebServerAssumptions DEF TasksTyped
<1>3. UnbornIsBlank /\ TableMatchesSockets
  BY DEF UnbornIsBlank, TableMatchesSockets
<1>4. TasksHoldTheirConnections
  BY DEF TasksHoldTheirConnections, NoTask
<1> QED BY <1>1, <1>2, <1>3, <1>4 DEF WebInv

\* Every step of event loop, workers and clients keeps the invariant.
LEMMA WebStep == WebInv /\ [WebNext]_webVars => WebInv'
<1> SUFFICES ASSUME WebInv, [WebNext]_webVars PROVE WebInv'
  OBVIOUS
<1>1. CASE UNCHANGED webVars
  <2>1. UNCHANGED <<setup, owner, armed, due, conns, state, sock, got, sent, tasks, work>>
    BY <1>1 DEF webVars, runVars, kernelVars, connVars, clientVars, taskVars
  <2> QED BY <2>1 DEF WebInv, WebTypeOK, Open, TasksTyped, UnbornIsBlank,
                      TableMatchesSockets, TasksHoldTheirConnections, HeldBy
<1>2. CASE WebNext
  <2>0. UNCHANGED setup
    BY <1>2 DEF WebNext
  <2>1. CASE \E f \in Fd : EventOn(f) \/ TimerOn(f)
    BY <2>0, <2>1, TimerInv, DropInv, ReadInv, WriteInv DEF EventOn, TimerOn
  <2>2. CASE \E w \in Worker : ServeTask(w)
    BY <2>0, <2>2, TakeTaskInv, WorkerInv, WorkerCloseInv, RearmInv DEF ServeTask
  <2>3. CASE \E i \in Id : \/ ClientSends(i) \/ ClientReads(i) \/ ClientCloses(i)
                           \/ \E f \in Fd : HandleAccept(i, f)
    BY <2>0, <2>3, ClientInv, AcceptInv
  <2> QED BY <1>2, <2>1, <2>2, <2>3 DEF WebNext
<1> QED BY <1>1, <1>2

\* What follows from the invariant: the buffer has one user.
LEMMA OneUser == WebInv => BufferHasOneUser
<1> SUFFICES ASSUME WebInv, NEW f \in Fd, ~setup.slow, conns[f] # NoConnection, armed[f] = "in"
             PROVE  /\ \A k \in DOMAIN tasks : tasks[k].id # conns[f]
                    /\ \A w \in Worker : work[w].id = conns[f] =>
                          work[w].pc \notin {"reading", "read", "processing"}
  BY DEF BufferHasOneUser
<1>1. ~TaskOn(f) /\ sock[conns[f]] = f
  BY NoTaskOn, InTable
<1>2. ASSUME NEW t, t.fd \in Fd, t.id = conns[f], HeldBy(t) PROVE t.fd = f
  BY <1>1, <1>2, InTable DEF HeldBy
<1>3. ASSUME NEW k \in DOMAIN tasks, tasks[k].id = conns[f] PROVE FALSE
  BY <1>1, <1>2, <1>3, TaskFields DEF WebInv, TasksHoldTheirConnections, TaskOn
<1>4. ASSUME NEW w \in Worker, work[w].id = conns[f], work[w].pc # "idle" PROVE FALSE
  BY <1>1, <1>2, <1>4, TaskFields DEF WebInv, TasksHoldTheirConnections, TaskOn
<1> QED BY <1>3, <1>4

\* The type invariant of the server holds, for any number of descriptors,
\* workers and connections, in the reactor and in the proactor.
THEOREM WebTypeCorrect == WebSpec => []WebTypeOK
<1>1. WebInv => WebTypeOK
  BY DEF WebInv
<1> QED BY <1>1, WebInitInv, WebStep, PTL DEF WebSpec

\* A number in the connection table is always the live socket of that very
\* connection, although the kernel gives numbers out again and workers and
\* event loop both close: closeConncl takes the entry out before the socket
\* is closed, and handleAccept puts it in under a number that was free.
THEOREM TableStaysTrue == WebSpec => []TableMatchesSockets
<1>1. WebInv => TableMatchesSockets
  BY DEF WebInv
<1> QED BY <1>1, WebInitInv, WebStep, PTL DEF WebSpec

\* As long as no timer runs out on a connection with a task, the read buffer of
\* a connection, which parse uses without a lock, has one user at a time:
\* EPOLLONESHOT keeps the number disarmed from the event to the modFd of the
\* task.
THEOREM BufferUsedByOne == WebSpec => []BufferHasOneUser
BY WebInitInv, WebStep, OneUser, PTL DEF WebSpec

-----------------------------------------------------------------------------
(* The guard against the reuse of descriptors, with tasks in time.         *)

\* As long as no timer runs out on a connection with a task, only a connection
\* that has its response is armed for writing, and a task about to arm has one.
ResponseReady ==
    ~setup.slow =>
        /\ ArmedForOwnConnection
        /\ \A w \in Worker : work[w].pc = "armOut" => response[work[w].id]

\* Every step keeps responses ready for the descriptors armed for writing.
LEMMA ResponseStep ==
    ASSUME WebInv, response \in [Id -> BOOLEAN], ResponseReady, [WebNext]_webVars
    PROVE  response' \in [Id -> BOOLEAN] /\ ResponseReady'
<1> USE DEF ResponseReady, ArmedForOwnConnection
<1>0. setup' = setup
  BY DEF WebNext, webVars
<1>t. /\ armed \in [Fd -> {"none", "off", "in", "out"}]
      /\ conns \in [Fd -> Id \cup {NoConnection}] /\ work \in [Worker -> WorkerTask]
  BY DEF WebInv, WebTypeOK, TasksTyped
\* Nothing is armed for writing and no task gets that far.
<1>a. ASSUME response' = response, work' = work,
             \A f \in Fd : armed'[f] = "out" =>
                 armed[f] = "out" /\ conns'[f] \in {conns[f], NoConnection}
      PROVE  response' \in [Id -> BOOLEAN] /\ ResponseReady'
  BY <1>0, <1>a
<1>b. ASSUME UNCHANGED <<response, armed, conns>>, NEW w \in Worker,
             \A v \in Worker : work'[v].pc = "armOut" => work'[v] = work[v]
      PROVE  response' \in [Id -> BOOLEAN] /\ ResponseReady'
  BY <1>0, <1>b
<1>1. CASE UNCHANGED webVars
  BY <1>a, <1>1 DEF webVars, runVars, kernelVars, connVars, taskVars
<1>2. ASSUME NEW i \in Id, ClientSends(i) \/ ClientReads(i) \/ ClientCloses(i)
      PROVE  response' \in [Id -> BOOLEAN] /\ ResponseReady'
  BY <1>a, <1>2 DEF ClientSends, ClientReads, ClientCloses, kernelVars, connVars, taskVars
<1>3. ASSUME NEW i \in Id, NEW f \in Fd, HandleAccept(i, f)
      PROVE  response' \in [Id -> BOOLEAN] /\ ResponseReady'
  BY <1>a, <1>t, <1>3 DEF HandleAccept, taskVars
<1>4. ASSUME NEW f \in Fd, HandleError(f) \/ HandleHangUp(f) \/ TimerOn(f)
      PROVE  response' \in [Id -> BOOLEAN] /\ ResponseReady'
  <2>1. CASE TimerRunsOut(f)
    BY <1>a, <2>1 DEF TimerRunsOut, connVars, taskVars
  <2>2. CASE HandleError(f) \/ HandleHangUp(f) \/ Timeout(f)
    <3>1. response' = response /\ work' = work /\ Forget(f)
      BY <2>2 DEF HandleError, HandleHangUp, Timeout, Close, taskVars
    <3> QED BY <1>a, <1>t, <3>1 DEF Forget
  <2> QED BY <1>4, <2>1, <2>2 DEF TimerOn
<1>5. ASSUME NEW f \in Fd, HandleReadReactor(f) \/ HandleReadProactor(f)
      PROVE  response' \in [Id -> BOOLEAN] /\ ResponseReady'
  <2>1. /\ response' = response /\ work' = work
        /\ Forget(f) \/ (Disarm(f) /\ conns' = conns)
    BY <1>5 DEF HandleReadReactor, HandleReadProactor, Close
  <2> QED BY <1>a, <1>t, <2>1 DEF Forget, Disarm
<1>6. ASSUME NEW f \in Fd, NEW k \in BOOLEAN, HandleWrite(f, k)
      PROVE  response' \in [Id -> BOOLEAN] /\ ResponseReady'
  <2>0. CASE UNCHANGED <<response, armed, conns, work>>
    BY <1>a, <2>0
  <2>1. /\ work' = work /\ conns[f] # NoConnection /\ armed[f] = "out"
        /\ response' = response \/ response' = [response EXCEPT ![conns[f]] = FALSE]
        /\ \/ Forget(f) \/ (Disarm(f) /\ conns' = conns)
           \/ armed' = [armed EXCEPT ![f] = "in"] /\ conns' = conns
           \/ UNCHANGED <<response, armed, conns>>
    BY <1>6 DEF HandleWrite, Close, kernelVars, connVars, taskVars
  <2> SUFFICES ASSUME ~UNCHANGED <<response, armed, conns, work>>
               PROVE  response' \in [Id -> BOOLEAN] /\ ResponseReady'
    BY <2>0
  <2>2. /\ \A g \in Fd : armed'[g] = "out" => g # f /\ armed[g] = "out" /\ conns'[g] = conns[g]
        /\ armed'[f] # "out"
    BY <1>t, <2>1 DEF Forget, Disarm
  <2>3. \A g \in Fd : (g # f /\ conns[g] # NoConnection) => conns[g] # conns[f]
    BY <2>1, InTable
  <2>4. ASSUME ~setup.slow PROVE \A w \in Worker : work[w].pc = "armOut" => work[w].id # conns[f]
    <3>1. ~TaskOn(f) /\ sock[conns[f]] = f
      BY <2>1, <2>4, NoTaskOn, InTable
    <3>2. ASSUME NEW w \in Worker, work[w].pc = "armOut", work[w].id = conns[f] PROVE FALSE
      <4>1. work[w].fd \in Fd /\ conns[work[w].fd] = conns[f]
        BY <2>4, <3>2, TaskFields DEF WebInv, TasksHoldTheirConnections, HeldBy
      <4>2. work[w].fd = f
        <5>1. sock[conns[work[w].fd]] = work[w].fd
          BY <2>1, <4>1, InTable
        <5> QED BY <3>1, <4>1, <5>1
      <4> QED BY <3>1, <3>2, <4>2 DEF TaskOn
    <3> QED BY <3>2
  <2>5. conns[f] \in Id /\ response' \in [Id -> BOOLEAN]
        /\ \A i \in Id : i # conns[f] => response'[i] = response[i]
    <3>1. conns[f] \in Id
      BY <2>1, InTable
    <3> QED BY <2>1, <3>1
  <2>6. ASSUME ~setup.slow PROVE ArmedForOwnConnection'
    BY <1>t, <2>2, <2>3, <2>5, <2>6
  <2>7. ASSUME ~setup.slow, NEW w \in Worker, work[w].pc = "armOut" PROVE response'[work[w].id]
    BY <2>4, <2>5, <2>7, TaskFields
  <2> QED BY <1>0, <2>1, <2>5, <2>6, <2>7
<1>7. ASSUME NEW w \in Worker, TakeTask(w) \/ WorkerRead(w) \/ StartProcessing(w)
      PROVE  response' \in [Id -> BOOLEAN] /\ ResponseReady'
  <2>1. UNCHANGED <<response, armed, conns>>
    BY <1>7 DEF TakeTask, WorkerRead, StartProcessing, kernelVars, connVars
  <2>2. work'[w].pc # "armOut" /\ \A v \in Worker : v # w => work'[v] = work[v]
    <3>1. CASE TakeTask(w)
      <4>1. Head(tasks) \in QueuedTask
        BY <3>1 DEF TakeTask, WebInv, TasksTyped
      <4>2. \A p \in STRING : [Head(tasks) EXCEPT !.pc = p].pc = p
        BY <4>1 DEF QueuedTask
      <4> QED BY <1>t, <3>1, <4>2 DEF TakeTask
    <3>2. CASE WorkerRead(w) \/ StartProcessing(w)
      <4>1. Step(w, "closing") \/ Step(w, "read") \/ Step(w, "processing") \/ Done(w)
        BY <3>2 DEF WorkerRead, StartProcessing
      <4> QED BY <1>t, <4>1 DEF Step, Done, NoTask, WorkerTask
    <3> QED BY <1>7, <3>1, <3>2
  <2> QED BY <1>b, <2>1, <2>2
<1>8. ASSUME NEW w \in Worker, WorkerClose(w)
      PROVE  response' \in [Id -> BOOLEAN] /\ ResponseReady'
  <2>1. /\ response' = response /\ Done(w)
        /\ Forget(work[w].fd) \/ UNCHANGED <<armed, conns>>
    BY <1>8 DEF WorkerClose, Close, kernelVars
  <2>2. \A v \in Worker : work'[v].pc = "armOut" => work'[v] = work[v]
    BY <1>t, <2>1 DEF Done, NoTask
  <2>3. work[w].fd \in Fd
    BY <1>8, TaskFields DEF WorkerClose
  <2>4. \A f \in Fd : armed'[f] = "out" =>
            armed[f] = "out" /\ conns'[f] \in {conns[f], NoConnection}
    BY <1>t, <2>1, <2>3 DEF Forget
  <2> QED BY <1>0, <2>1, <2>2, <2>4
<1>9. ASSUME NEW w \in Worker, Process(w)
      PROVE  response' \in [Id -> BOOLEAN] /\ ResponseReady'
  <2> DEFINE i == work[w].id
  <2>1. /\ work[w].pc = "processing" /\ UNCHANGED <<armed, conns>>
        /\ response' = [response EXCEPT ![i] = (got[i] = 2)]
        /\ (got[i] = 2 /\ Step(w, "armOut")) \/ Step(w, "armIn") \/ Done(w)
    BY <1>9 DEF Process, kernelVars
  <2>2. /\ i \in Id /\ response' \in [Id -> BOOLEAN] /\ response'[i] = (got[i] = 2)
        /\ \A j \in Id : j # i => response'[j] = response[j]
    <3>1. i \in Id
      BY <2>1, TaskFields
    <3>2. (got[i] = 2) \in BOOLEAN
      OBVIOUS
    <3> QED BY <2>1, <3>1, <3>2, Zenon
  <2>3. ASSUME ~setup.slow
        PROVE  /\ \A f \in Fd : (conns[f] # NoConnection /\ armed[f] = "out") => conns[f] # i
               /\ \A v \in Worker : (v # w /\ work[v].pc # "idle") => work[v].id # i
    <3>1. /\ work[w].fd \in Fd /\ HeldBy(work[w]) /\ i # NoConnection
      BY <2>1, <2>2, <2>3, TaskFields DEF WebInv, TasksHoldTheirConnections, Id, NoConnection
    <3>2. sock[i] = work[w].fd
      BY <3>1, InTable DEF HeldBy
    <3>3. \A f \in Fd : conns[f] = i => f = work[w].fd
      BY <3>1, <3>2, InTable
    <3>4. \A f \in Fd : (conns[f] # NoConnection /\ armed[f] = "out") => conns[f] # i
      BY <3>1, <3>3 DEF HeldBy
    <3>5. ASSUME NEW v \in Worker, v # w, work[v].pc # "idle" PROVE work[v].id # i
      <4>1. HeldBy(work[v]) /\ work[v].fd \in Fd /\ work[v].fd # work[w].fd
        BY <2>1, <2>3, <3>5, TaskFields DEF WebInv, TasksHoldTheirConnections
      <4> QED BY <3>3, <4>1 DEF HeldBy
    <3> QED BY <3>4, <3>5
  <2>4. ASSUME ~setup.slow PROVE ArmedForOwnConnection'
    BY <1>t, <2>1, <2>2, <2>3, <2>4
  <2>5. ASSUME ~setup.slow, NEW v \in Worker, work'[v].pc = "armOut" PROVE response'[work'[v].id]
    <3>1. CASE v # w
      <4>1. work'[v] = work[v]
        BY <1>t, <2>1, <3>1 DEF Step, Done
      <4> QED BY <2>2, <2>3, <2>5, <3>1, <4>1, TaskFields
    <3>2. CASE v = w
      <4>1. work[w] \in WorkerTask
        BY <1>t
      <4>2. got[i] = 2 /\ work'[w].id = i
        BY <1>t, <2>1, <2>5, <3>2, <4>1 DEF Step, Done, NoTask, WorkerTask
      <4> QED BY <2>2, <3>2, <4>2
    <3> QED BY <3>1, <3>2
  <2> QED BY <1>0, <2>2, <2>4, <2>5
<1>10. ASSUME NEW w \in Worker, Rearm(w)
       PROVE  response' \in [Id -> BOOLEAN] /\ ResponseReady'
  <2>1. /\ work[w].pc \in {"armIn", "armOut"} /\ Done(w) /\ UNCHANGED <<response, conns>>
        /\ Arm(work[w].fd, IF work[w].pc = "armIn" THEN "in" ELSE "out")
    BY <1>10 DEF Rearm, connVars
  <2>2. \A v \in Worker : work'[v].pc = "armOut" => work'[v] = work[v]
    BY <1>t, <2>1 DEF Done, NoTask
  <2>3. work[w].fd \in Fd
    BY <2>1, TaskFields
  <2>4. \A f \in Fd : armed'[f] = "out" =>
            armed[f] = "out" \/ (f = work[w].fd /\ work[w].pc = "armOut")
    BY <1>t, <2>1, <2>3 DEF Arm
  <2>5. ASSUME ~setup.slow, work[w].pc = "armOut" PROVE response[conns[work[w].fd]]
    BY <2>5 DEF WebInv, TasksHoldTheirConnections, HeldBy
  <2> QED BY <1>0, <2>1, <2>2, <2>4, <2>5
<1> QED BY <1>1, <1>2, <1>3, <1>4, <1>5, <1>6, <1>7, <1>8, <1>9, <1>10
        DEF WebNext, EventOn, TimerOn, ServeTask

\* The comments of the source say that connection ids guard against the
\* reuse of descriptors.  As long as no timer runs out on a connection with a
\* task they do: a worker that gives up closes its own connection or none, and a
\* connection is armed for writing only when it has a response itself.
THEOREM ReuseGuardedInTime ==
    WebSpec => [](~setup.slow => WorkersCloseTheirOwn /\ ArmedForOwnConnection)
<1> DEFINE Ready == response \in [Id -> BOOLEAN] /\ ResponseReady
<1>1. WebInit => Ready
  BY DEF WebInit, ResponseReady, ArmedForOwnConnection, NoTask
<1>2. WebInv /\ Ready /\ [WebNext]_webVars => Ready'
  BY ResponseStep
<1>3. WebInv /\ Ready => (~setup.slow => WorkersCloseTheirOwn /\ ArmedForOwnConnection)
  BY DEF WebInv, TasksHoldTheirConnections, HeldBy, WorkersCloseTheirOwn, ResponseReady
<1> HIDE DEF Ready
<1> QED BY <1>1, <1>2, <1>3, WebInitInv, WebStep, PTL DEF WebSpec

-----------------------------------------------------------------------------
(* The thread pool.                                                        *)

\* The tasks in the hands of the workers.
InHand == {task[w] : w \in {v \in PoolWorker : doing[v] = "running"}}

\* Every task that left the queue was run or is being run; no two workers
\* have the same; a worker ends, and the feeder gets to the join, only after
\* the stop, and an ended worker leaves no queue behind.
TasksAccounted ==
    /\ ThreadPoolTypeOK
    /\ ran \cup InHand = 1..dequeued
    /\ \A w \in PoolWorker : doing[w] = "running" => task[w] \notin ran
    /\ \A v, w \in PoolWorker : (doing[v] = "running" /\ task[v] = task[w]) => v = w
    /\ feeder \in {"stopping", "joining", "joined"} <=> stop
    /\ \A w \in PoolWorker : doing[w] = "ended" => stop /\ dequeued = queued
    /\ feeder = "joined" => \A w \in PoolWorker : doing[w] = "ended"

\* Every step of the pool keeps the tasks accounted for.
LEMMA AccountedStep ==
    ASSUME TasksAccounted, [ThreadPoolNext]_threadPoolVars
    PROVE  TasksAccounted'
<1> USE DEF TasksAccounted
<1>1. CASE UNCHANGED threadPoolVars
  BY <1>1 DEF threadPoolVars, ThreadPoolTypeOK, InHand
<1>2. CASE Enqueue
  <2>1. ThreadPoolTypeOK'
    BY <1>2 DEF Enqueue, ThreadPoolTypeOK
  <2>2. InHand' = InHand
    BY <1>2 DEF Enqueue, InHand
  <2> QED BY <1>2, <2>1, <2>2 DEF Enqueue
<1>3. CASE NotifyOne
  <2>1. /\ UNCHANGED <<task, queued, dequeued, ran, stop>> /\ feeder = "notifying"
        /\ feeder' = "serving" /\ doing' \in [PoolWorker -> {"ready", "asleep", "running", "ended"}]
        /\ \A w \in PoolWorker : doing[w] # "asleep" => doing'[w] = doing[w]
        /\ \A w \in PoolWorker : doing[w] = "asleep" => doing'[w] \in {"asleep", "ready"}
    BY <1>3 DEF NotifyOne, Sleepers, ThreadPoolTypeOK
  <2>2. InHand' = InHand
    BY <2>1 DEF InHand, ThreadPoolTypeOK
  <2>3. ThreadPoolTypeOK'
    BY <2>1 DEF ThreadPoolTypeOK
  <2> QED BY <2>1, <2>2, <2>3 DEF ThreadPoolTypeOK
<1>4. CASE NotifyAll
  <2>1. /\ UNCHANGED <<task, queued, dequeued, ran, stop>> /\ feeder = "stopping"
        /\ feeder' = "joining" /\ doing' \in [PoolWorker -> {"ready", "asleep", "running", "ended"}]
        /\ \A w \in PoolWorker : doing[w] # "asleep" => doing'[w] = doing[w]
        /\ \A w \in PoolWorker : doing[w] = "asleep" => doing'[w] = "ready"
    BY <1>4 DEF NotifyAll, ThreadPoolTypeOK
  <2>2. InHand' = InHand
    BY <2>1 DEF InHand, ThreadPoolTypeOK
  <2>3. ThreadPoolTypeOK'
    BY <2>1 DEF ThreadPoolTypeOK
  <2> QED BY <2>1, <2>2, <2>3 DEF ThreadPoolTypeOK
<1>5. CASE Join \/ Shutdown
  <2>1. InHand' = InHand
    BY <1>5 DEF Join, Shutdown, InHand
  <2>2. ThreadPoolTypeOK'
    BY <1>5 DEF Join, Shutdown, ThreadPoolTypeOK
  <2> QED BY <1>5, <2>1, <2>2 DEF Join, Shutdown
<1>6. ASSUME NEW w \in PoolWorker, Sleep(w) \/ End(w) PROVE TasksAccounted'
  <2>1. InHand' = InHand
    BY <1>6 DEF Sleep, End, InHand, ThreadPoolTypeOK
  <2>2. ThreadPoolTypeOK'
    BY <1>6 DEF Sleep, End, ThreadPoolTypeOK
  <2> QED BY <1>6, <2>1, <2>2 DEF Sleep, End, ThreadPoolTypeOK
<1>7. ASSUME NEW w \in PoolWorker, Take(w) PROVE TasksAccounted'
  <2>1. /\ doing[w] = "ready" /\ dequeued < queued /\ task' = [task EXCEPT ![w] = dequeued + 1]
        /\ dequeued' = dequeued + 1 /\ doing' = [doing EXCEPT ![w] = "running"]
        /\ UNCHANGED <<queued, ran, stop, feeder>>
        /\ dequeued \in Nat /\ queued \in Nat
    BY <1>7 DEF Take, ThreadPoolTypeOK
  <2>2. /\ task'[w] = dequeued + 1 /\ doing'[w] = "running"
        /\ \A v \in PoolWorker : v # w => task'[v] = task[v] /\ doing'[v] = doing[v]
    BY <2>1 DEF ThreadPoolTypeOK
  <2>3. InHand' = InHand \cup {dequeued + 1}
    BY <2>1, <2>2 DEF InHand
  <2>4. ran' \cup InHand' = 1..dequeued'
    BY <2>1, <2>3
  <2>5. ThreadPoolTypeOK'
    BY <2>1 DEF ThreadPoolTypeOK
  <2>6. \A v \in PoolWorker : doing[v] = "running" => task[v] \in 1..dequeued
    BY DEF InHand
  <2>7. /\ \A v \in PoolWorker : doing'[v] = "running" => task'[v] \notin ran'
        /\ \A v, u \in PoolWorker : (doing'[v] = "running" /\ task'[v] = task'[u]) => v = u
    <3>1. dequeued + 1 \notin ran
      BY <2>1
    <3>2. \A v \in PoolWorker : v # w => task[v] # dequeued + 1
      BY <2>1, <2>6 DEF ThreadPoolTypeOK
    <3> QED BY <2>1, <2>2, <3>1, <3>2
  <2> QED BY <2>1, <2>2, <2>4, <2>5, <2>7
<1>8. ASSUME NEW w \in PoolWorker, Run(w) PROVE TasksAccounted'
  <2>1. /\ doing[w] = "running" /\ ran' = ran \cup {task[w]} /\ task' = [task EXCEPT ![w] = 0]
        /\ doing' = [doing EXCEPT ![w] = "ready"] /\ UNCHANGED <<queued, dequeued, stop, feeder>>
    BY <1>8 DEF Run
  <2>2. /\ task'[w] = 0 /\ doing'[w] = "ready"
        /\ \A v \in PoolWorker : v # w => task'[v] = task[v] /\ doing'[v] = doing[v]
    BY <2>1 DEF ThreadPoolTypeOK
  <2>3. InHand = InHand' \cup {task[w]}
    BY <2>1, <2>2 DEF InHand
  <2>4. ran' \cup InHand' = 1..dequeued'
    BY <2>1, <2>3
  <2>5. ThreadPoolTypeOK'
    BY <2>1, <2>4 DEF ThreadPoolTypeOK
  <2>6. /\ \A v \in PoolWorker : doing'[v] = "running" => task'[v] \notin ran'
        /\ \A v, u \in PoolWorker : (doing'[v] = "running" /\ task'[v] = task'[u]) => v = u
    BY <2>1, <2>2 DEF ThreadPoolTypeOK
  <2> QED BY <2>1, <2>2, <2>4, <2>5, <2>6
<1> QED BY <1>1, <1>2, <1>3, <1>4, <1>5, <1>6, <1>7, <1>8
        DEF ThreadPoolNext, FeederStep, WorkerStep

\* What a pool owes its callers: no task is run twice or by two workers, and
\* when the shutdown has joined the workers every task that was accepted has
\* been run.
PoolKeepsTasks ==
    /\ \A w \in PoolWorker : doing[w] = "running" => task[w] \notin ran
    /\ \A v, w \in PoolWorker : (doing[v] = "running" /\ task[v] = task[w]) => v = w
    /\ feeder = "joined" => ran = 1..queued

\* A pool that has not started satisfies the invariant.
LEMMA AccountedInit == ThreadPoolInit => TasksAccounted
<1> SUFFICES ASSUME ThreadPoolInit PROVE TasksAccounted
  OBVIOUS
<1>1. InHand = {}
  BY DEF ThreadPoolInit, InHand
<1>2. ThreadPoolTypeOK
  <2>1. stop \in BOOLEAN
    BY Zenon DEF ThreadPoolInit
  <2>2. /\ doing \in [PoolWorker -> {"ready", "asleep", "running", "ended"}]
        /\ task \in [PoolWorker -> Nat]
        /\ \A w \in PoolWorker : task[w] = 0 /\ doing[w] = "ready"
    BY DEF ThreadPoolInit
  <2>3. /\ queued \in Nat /\ dequeued \in Nat /\ dequeued <= queued /\ ran \subseteq 1..queued
        /\ feeder \in {"serving", "notifying", "stopping", "joining", "joined"}
    BY DEF ThreadPoolInit
  <2> QED BY <2>1, <2>2, <2>3 DEF ThreadPoolTypeOK
<1>3. ran \cup InHand = 1..dequeued
  BY <1>1 DEF ThreadPoolInit
<1> QED BY <1>2, <1>3 DEF ThreadPoolInit, TasksAccounted

\* The type invariant of the pool.
THEOREM ThreadPoolTypeCorrect == ThreadPoolSpec => []ThreadPoolTypeOK
<1>1. TasksAccounted => ThreadPoolTypeOK
  BY DEF TasksAccounted
<1>2. TasksAccounted /\ [ThreadPoolNext]_threadPoolVars => TasksAccounted'
  BY AccountedStep
<1> QED BY <1>1, <1>2, AccountedInit, PTL DEF ThreadPoolSpec

\* The thread pool runs each task at most once, and has run all it accepted
\* when shutdown has joined its workers (the loop of a worker ends only on an
\* empty queue): for any number of workers and tasks.
THEOREM TasksRunOnce == ThreadPoolSpec => []PoolKeepsTasks
<1>1. TasksAccounted => PoolKeepsTasks
  <2> SUFFICES ASSUME TasksAccounted PROVE PoolKeepsTasks
    OBVIOUS
  <2> USE DEF TasksAccounted
  <2>1. ASSUME feeder = "joined" PROVE ran = 1..queued
    <3>1. InHand = {} /\ dequeued = queued
      BY <2>1, ThreadPoolAssumptions DEF InHand
    <3> QED BY <3>1
  <2> QED BY <2>1 DEF PoolKeepsTasks
<1>2. TasksAccounted /\ [ThreadPoolNext]_threadPoolVars => TasksAccounted'
  BY AccountedStep
<1> QED BY <1>1, <1>2, AccountedInit, PTL DEF ThreadPoolSpec

-----------------------------------------------------------------------------
(* The train monitor: the ordering guarantee of upsertBatch.               *)

\* A batch stores its own time or leaves a newer one, and the stale test
\* then removes an entry or keeps it: no entry is replaced by an older one.
LEMMA ExecuteKeepsOrder ==
    ASSUME MonitorTypeOK, NEW q \in Request, Execute(q), NEW t \in Train
    PROVE  /\ received'[t] \in 0..MaxClock
           /\ received'[t] # 0 => received'[t] >= received[t]
<1>1. received[t] \in 0..MaxClock /\ q.wall \in 1..MaxClock
  BY DEF MonitorTypeOK, Request
<1>2. Upsert(received, q)[t] \in 0..MaxClock /\ Upsert(received, q)[t] >= received[t]
  BY <1>1, MonitorAssumptions DEF Upsert
<1>3. received'[t] = 0 \/ received'[t] = Upsert(received, q)[t]
  BY DEF Execute, RemoveStale
<1> QED BY <1>2, <1>3, MonitorAssumptions

\* A monitor that has heard of no train is well typed.
LEMMA MonitorInitType == MonitorInit => MonitorTypeOK
  BY MonitorAssumptions DEF MonitorInit, MonitorTypeOK

\* Every step keeps entries, requests and clock in their ranges.
LEMMA MonitorStepType == MonitorTypeOK /\ [MonitorNext]_monitorVars => MonitorTypeOK'
<1> SUFFICES ASSUME MonitorTypeOK, [MonitorNext]_monitorVars PROVE MonitorTypeOK'
  OBVIOUS
<1>1. CASE Tick
  BY <1>1, MonitorAssumptions DEF Tick, MonitorTypeOK
<1>2. ASSUME NEW B \in SUBSET Train, Arrive(B) PROVE MonitorTypeOK'
  BY <1>2 DEF Arrive, MonitorTypeOK, Request
<1>3. ASSUME NEW q \in inflight, Execute(q) PROVE MonitorTypeOK'
  <2>1. q \in Request
    BY DEF MonitorTypeOK
  <2>2. received' \in [Train -> 0..MaxClock]
    <3>1. \A t \in Train : received'[t] \in 0..MaxClock
      BY <1>3, <2>1, ExecuteKeepsOrder
    <3>2. received' = [t \in Train |-> received'[t]]
      BY <1>3 DEF Execute, RemoveStale
    <3> QED BY <3>1, <3>2
  <2> QED BY <1>3, <2>2 DEF Execute, MonitorTypeOK
<1>4. CASE UNCHANGED monitorVars
  BY <1>4 DEF monitorVars, MonitorTypeOK
<1> QED BY <1>1, <1>2, <1>3, <1>4 DEF MonitorNext

\* Every entry, request and clock value of the monitor stays in its range,
\* whatever the order in which the workers get the lock.
THEOREM MonitorTypeCorrect == MonitorSpec => []MonitorTypeOK
  BY MonitorInitType, MonitorStepType, PTL DEF MonitorSpec

\* upsertBatch never lets an older packet overwrite the newer telemetry of
\* a monitored train.
THEOREM TelemetryNeverOlder == MonitorSpec => NoOlderTelemetry
<1>1. ASSUME MonitorTypeOK, [MonitorNext]_monitorVars
      PROVE  [\A t \in Train : (received[t] # 0 /\ received'[t] # 0) =>
                 received'[t] >= received[t]]_monitorVars
  <2> SUFFICES ASSUME MonitorNext, NEW t \in Train, received'[t] # 0
               PROVE  received'[t] >= received[t]
    BY <1>1
  <2>1. received[t] \in Nat
    BY <1>1, MonitorAssumptions DEF MonitorTypeOK
  <2>2. CASE received' = received
    BY <2>1, <2>2
  <2>3. ASSUME NEW q \in inflight, Execute(q) PROVE received'[t] >= received[t]
    BY <1>1, <2>3, ExecuteKeepsOrder DEF MonitorTypeOK
  <2> QED BY <2>2, <2>3 DEF MonitorNext, Tick, Arrive
<1> QED BY <1>1, MonitorTypeCorrect, PTL DEF MonitorSpec, NoOlderTelemetry

-----------------------------------------------------------------------------
(* The sending thread of the mod.                                          *)

\* Whatever is queued, taken or given up is a control event that was created.
EventsKnown ==
    /\ \A k \in 1..Len(queue) : queue[k] \in 1..posted
    /\ \A w \in SenderThread : taken[w] \in 0..posted
    /\ \A r \in abandoned : r.event \in 1..posted

OneSender == \A v, w \in SenderThread : Living(v) /\ Living(w) => v = w

\* Event e is with the server, in the hands of a thread, or among the first
\* n of the queue.
Accounted(e, n) ==
    \/ e \in handled
    \/ \E w \in SenderThread : taken[w] = e
    \/ \E j \in 1..n : queue[j] = e

\* No event of the session is missing, and the queue is in the order of
\* creation: what comes before an event is ahead of it.
QueueFollows ==
    running =>
        /\ \A k \in 1..Len(queue) : \A e \in Before(queue[k]) : Accounted(e, k - 1)
        /\ \A e \in (sessionStart + 1)..posted : Accounted(e, Len(queue))

\* An event that is taken has nothing left before it, neither while it is
\* being sent nor after it was given up: a late copy finds the server past
\* all that comes before it.
SentInTurn ==
    /\ \A w \in SenderThread : taken[w] # 0 => Before(taken[w]) \subseteq handled
    /\ \A r \in abandoned : Before(r.event) \subseteq handled

SenderInv ==
    /\ SenderTypeOK
    /\ EventsKnown
    /\ alone => OneSender /\ QueueFollows /\ SentInTurn

SenderPcs == {"unborn", "waiting", "woken", "uploading", "sending", "failed", "backoff", "ended"}

\* The steps of a thread, as far as the types of what it holds are concerned.
LEMMA ThreadMoves ==
    ASSUME SenderTypeOK, NEW w \in SenderThread, NEW p \in SenderPcs, NEW n \in Nat,
           round' = [round EXCEPT ![w] = p], taken' = [taken EXCEPT ![w] = n],
           p \in {"sending", "failed"} => n # 0,
           n # 0 => p \in {"uploading", "sending", "failed"}
    PROVE  /\ round' \in [SenderThread -> SenderPcs] /\ taken' \in [SenderThread -> Nat]
           /\ \A v \in SenderThread :
                /\ round'[v] \in {"sending", "failed"} => taken'[v] # 0
                /\ taken'[v] # 0 => round'[v] \in {"uploading", "sending", "failed"}
           /\ round'[w] = p /\ taken'[w] = n
           /\ \A v \in SenderThread : v # w => round'[v] = round[v] /\ taken'[v] = taken[v]
BY DEF SenderTypeOK, SenderPcs

\* The operations of the game thread and of every thread, seen from one
\* place: what they do to the events, and that the types stay.
LEMMA StartInv ==
    ASSUME SenderInv, NEW w \in SenderThread, StartSender(w)
    PROVE  SenderInv'
<1>0. /\ round[w] = "unborn" /\ running' = TRUE /\ worker' = w /\ queue' = <<>> /\ latest' = 0
      /\ round' = [round EXCEPT ![w] = "waiting"] /\ sessionStart' = posted
      /\ alone' = (\A v \in SenderThread : ~Living(v))
      /\ UNCHANGED <<signal, taken, payload, joining, posted, sampled, handled, abandoned, givenUp>>
  BY DEF StartSender, networkVars
<1>t. /\ posted \in Nat /\ taken \in [SenderThread -> Nat] /\ round \in [SenderThread -> SenderPcs]
      /\ \A v \in SenderThread : taken[v] # 0 => Living(v)
  BY DEF SenderInv, SenderTypeOK, SenderPcs, Living
<1>1. SenderTypeOK'
  <2>1. alone' \in BOOLEAN /\ running' \in BOOLEAN
    BY <1>0, Zenon
  <2>2. taken[w] = 0
    BY <1>0, <1>t DEF Living
  <2>3. /\ round' \in [SenderThread -> SenderPcs]
        /\ \A v \in SenderThread :
             /\ round'[v] \in {"sending", "failed"} => taken[v] # 0
             /\ taken[v] # 0 => round'[v] \in {"uploading", "sending", "failed"}
    BY <1>0, <2>2 DEF SenderInv, SenderTypeOK, SenderPcs
  <2> QED BY <1>0, <2>1, <2>3 DEF SenderInv, SenderTypeOK, SenderPcs
<1>2. EventsKnown'
  BY <1>0 DEF SenderInv, EventsKnown
<1>3. ASSUME alone' PROVE OneSender' /\ QueueFollows' /\ SentInTurn'
  <2>1. \A v \in SenderThread : ~Living(v) /\ taken[v] = 0
    BY <1>0, <1>3, <1>t
  <2>2. OneSender'
    BY <1>0, <1>t, <2>1 DEF OneSender, Living
  <2>3. QueueFollows'
    BY <1>0, <1>t DEF QueueFollows
  <2>4. \A r \in abandoned' : Before(r.event)' \subseteq handled'
    BY <1>0, <1>t DEF SenderInv, EventsKnown, Before
  <2> QED BY <1>0, <2>1, <2>2, <2>3, <2>4 DEF SentInTurn
<1> QED BY <1>1, <1>2, <1>3 DEF SenderInv

\* A new control event goes to the end, behind all that are accounted for.
LEMMA EnqueueInv ==
    ASSUME SenderInv, EnqueueControlPost
    PROVE  SenderInv'
<1>0. /\ running /\ posted' = posted + 1 /\ queue' = Append(queue, posted + 1) /\ signal' = TRUE
      /\ UNCHANGED <<round, taken, payload, running, worker, latest, joining, sampled, sessionStart,
                     alone, handled, abandoned, givenUp>>
  BY DEF EnqueueControlPost, networkVars
<1>t. posted \in Nat /\ sessionStart \in Nat /\ queue \in Seq(Nat)
  BY DEF SenderInv, SenderTypeOK
<1>q. /\ Len(queue) \in Nat /\ Len(queue') = Len(queue) + 1 /\ queue' \in Seq(Nat)
      /\ queue'[Len(queue) + 1] = posted + 1
      /\ \A k \in 1..Len(queue) : queue'[k] = queue[k]
  BY <1>0, <1>t
<1>c. \A k \in 1..Len(queue') : k \in 1..Len(queue) \/ k = Len(queue) + 1
  BY <1>q
<1>1. SenderTypeOK'
  <2>1. signal' \in BOOLEAN
    BY <1>0, Zenon
  <2>2. posted' \in Nat
    BY <1>0, <1>t
  <2> QED BY <1>0, <1>q, <2>1, <2>2 DEF SenderInv, SenderTypeOK
<1>2. EventsKnown'
  <2>1. \A k \in 1..Len(queue') : queue'[k] \in 1..posted'
    BY <1>0, <1>t, <1>q, <1>c DEF SenderInv, EventsKnown
  <2>2. /\ \A w \in SenderThread : taken[w] \in 0..posted'
        /\ \A r \in abandoned : r.event \in 1..posted'
    BY <1>0, <1>t DEF SenderInv, EventsKnown
  <2> QED BY <1>0, <2>1, <2>2 DEF EventsKnown
<1>3. ASSUME alone PROVE OneSender' /\ QueueFollows' /\ SentInTurn'
  <2>1. /\ OneSender /\ SentInTurn
        /\ \A k \in 1..Len(queue) : \A e \in Before(queue[k]) : Accounted(e, k - 1)
        /\ \A e \in (sessionStart + 1)..posted : Accounted(e, Len(queue))
    BY <1>0, <1>3 DEF SenderInv, QueueFollows
  <2>2. OneSender' /\ SentInTurn'
    BY <1>0, <2>1 DEF OneSender, SentInTurn, Living, Before
  <2>3. ASSUME NEW e, NEW n \in 0..Len(queue), Accounted(e, n) PROVE Accounted(e, n)'
    <3>1. \A j \in 1..n : j \in 1..Len(queue) /\ queue'[j] = queue[j]
      BY <1>q
    <3> QED BY <1>0, <2>3, <3>1 DEF Accounted
  <2>4. ASSUME NEW k \in 1..Len(queue'), NEW e \in Before(queue[k])'
        PROVE  Accounted(e, k - 1)'
    <3>1. CASE k \in 1..Len(queue)
      <4>1. e \in Before(queue[k]) /\ k - 1 \in 0..Len(queue)
        BY <1>0, <1>q, <2>4, <3>1 DEF Before
      <4> QED BY <2>1, <2>3, <3>1, <4>1
    <3>2. CASE k = Len(queue) + 1
      <4>1. e \in (sessionStart + 1)..posted /\ k - 1 = Len(queue)
        BY <1>0, <1>t, <1>q, <2>4, <3>2 DEF Before
      <4>2. Accounted(e, Len(queue)) /\ Len(queue) \in 0..Len(queue)
        BY <1>q, <2>1, <4>1
      <4> QED BY <2>3, <4>1, <4>2
    <3> QED BY <1>c, <3>1, <3>2
  <2>5. ASSUME NEW e \in ((sessionStart + 1)..posted)' PROVE Accounted(e, Len(queue))'
    <3>1. CASE e = posted + 1
      <4>1. Len(queue) + 1 \in 1..Len(queue')
        BY <1>q
      <4> QED BY <1>q, <3>1, <4>1 DEF Accounted
    <3>2. CASE e # posted + 1
      <4>1. e \in (sessionStart + 1)..posted
        BY <1>0, <1>t, <2>5, <3>2
      <4>2. \A j \in 1..Len(queue) : j \in 1..Len(queue') /\ queue'[j] = queue[j]
        BY <1>q
      <4> QED BY <1>0, <2>1, <4>1, <4>2 DEF Accounted
    <3> QED BY <3>1, <3>2
  <2> QED BY <2>2, <2>4, <2>5 DEF QueueFollows
<1> QED BY <1>0, <1>1, <1>2, <1>3 DEF SenderInv

\* The other operations of the game thread: a payload, the stop, and the end
\* of its wait, be the thread at its end or not.
LEMMA GameThreadInv ==
    ASSUME SenderInv, EnqueueJson \/ Stop \/ Joined
    PROVE  SenderInv'
<1>0. /\ UNCHANGED <<round, taken, payload, posted, sessionStart, alone, handled, abandoned, givenUp>>
      /\ (running' = running /\ queue' = queue) \/ (running' = FALSE /\ queue' = <<>>)
  BY DEF EnqueueJson, Stop, Joined, senderThreadVars, postVars, networkVars
<1>1. SenderTypeOK'
  <2>1. signal' \in {TRUE, signal} /\ running' \in {FALSE, running}
    BY DEF EnqueueJson, Stop, Joined, senderThreadVars
  <2>2. signal' \in BOOLEAN /\ running' \in BOOLEAN
    BY <2>1, Zenon DEF SenderInv, SenderTypeOK
  <2>3. /\ worker' \in SenderThread \cup {NoThread} /\ joining' \in SenderThread \cup {NoThread}
        /\ latest' \in Nat /\ sampled' \in Nat
    BY DEF EnqueueJson, Stop, Joined, postVars, SenderInv, SenderTypeOK
  <2>4. queue' \in Seq(Nat)
    <3>1. queue \in Seq(Nat) /\ <<>> \in Seq(Nat)
      BY DEF SenderInv, SenderTypeOK
    <3> QED BY <1>0, <3>1
  <2> QED BY <1>0, <2>2, <2>3, <2>4 DEF SenderInv, SenderTypeOK
<1>2. EventsKnown'
  BY <1>0 DEF SenderInv, EventsKnown
<1>3. ASSUME alone PROVE OneSender' /\ QueueFollows' /\ SentInTurn'
  BY <1>0, <1>3 DEF SenderInv, OneSender, QueueFollows, SentInTurn, Accounted, Before, Living
<1> QED BY <1>0, <1>1, <1>2, <1>3 DEF SenderInv

\* A thread that leaves the events alone.
LEMMA IdleRoundInv ==
    ASSUME SenderInv, NEW w \in SenderThread,
           Wake(w) \/ EndThread(w) \/ Upload(w) \/ Backoff(w)
    PROVE  SenderInv'
<1>0. /\ UNCHANGED <<taken, running, worker, queue, latest, joining, posted, sampled, sessionStart,
                     alone, handled, abandoned, givenUp>>
      /\ Living(w) /\ \A v \in SenderThread : v # w => round'[v] = round[v]
  BY DEF Wake, EndThread, Upload, Backoff, queueVars, postVars, networkVars, Living, SenderInv,
         SenderTypeOK
<1>1. SenderTypeOK'
  <2>1. signal' \in {TRUE, FALSE, signal}
    BY DEF Wake, EndThread, Upload, Backoff
  <2>2. signal' \in BOOLEAN
    BY <2>1, Zenon DEF SenderInv, SenderTypeOK
  <2>3. payload' \in [SenderThread -> Nat]
    <3>1. payload' = payload \/ payload' = [payload EXCEPT ![w] = 0]
      BY DEF Wake, EndThread, Upload, Backoff
    <3>2. payload \in [SenderThread -> Nat]
      BY DEF SenderInv, SenderTypeOK
    <3> QED BY <3>1, <3>2
  <2>4. round' \in [SenderThread -> SenderPcs]
    BY DEF Wake, EndThread, Upload, Backoff, SenderInv, SenderTypeOK, SenderPcs
  <2>5. /\ round'[w] \in {"sending", "failed"} => taken[w] # 0
        /\ taken[w] # 0 => round'[w] \in {"uploading", "sending", "failed"}
    BY DEF Wake, EndThread, Upload, Backoff, SenderInv, SenderTypeOK
  <2> QED BY <1>0, <2>2, <2>3, <2>4, <2>5 DEF SenderInv, SenderTypeOK, SenderPcs
<1>2. EventsKnown'
  BY <1>0 DEF SenderInv, EventsKnown
<1>3. ASSUME alone PROVE OneSender' /\ QueueFollows' /\ SentInTurn'
  <2>1. OneSender'
    BY <1>0, <1>3 DEF SenderInv, OneSender, Living
  <2> QED BY <1>0, <1>3, <2>1 DEF SenderInv, QueueFollows, SentInTurn, Accounted, Before
<1> QED BY <1>0, <1>1, <1>2, <1>3 DEF SenderInv

\* The head of the queue has nothing before it: nobody else has taken anything.
LEMMA TakeWorkInv ==
    ASSUME SenderInv, NEW w \in SenderThread, TakeWork(w)
    PROVE  SenderInv'
<1> DEFINE n == IF queue = <<>> THEN 0 ELSE Head(queue)
           After(e, m) == \/ e \in handled'
                          \/ \E v \in SenderThread : taken'[v] = e
                          \/ \E j \in 1..m : queue'[j] = e
<1>0. /\ round[w] = "woken" /\ running /\ latest' = 0 /\ payload' = [payload EXCEPT ![w] = latest]
      /\ taken' = [taken EXCEPT ![w] = n] /\ queue' = (IF queue = <<>> THEN <<>> ELSE Tail(queue))
      /\ round' = [round EXCEPT ![w] = "uploading"]
      /\ UNCHANGED <<signal, running, worker, joining, posted, sampled, sessionStart, alone,
                     handled, abandoned, givenUp>>
  BY DEF TakeWork, postVars, networkVars
<1>t. /\ queue \in Seq(Nat) /\ taken \in [SenderThread -> Nat] /\ taken[w] = 0
      /\ posted \in Nat /\ sessionStart \in Nat /\ latest \in Nat
      /\ \A v \in SenderThread : taken[v] # 0 => Living(v)
      /\ Living(w)
  BY <1>0 DEF SenderInv, SenderTypeOK, Living
<1>q. CASE queue # <<>>
  <2>1. /\ Len(queue) \in Nat /\ Len(queue) >= 1 /\ n = queue[1] /\ queue[1] \in Nat
        /\ queue' \in Seq(Nat) /\ Len(queue') = Len(queue) - 1
        /\ \A k \in 1..Len(queue') : queue'[k] = queue[k + 1]
    BY <1>0, <1>t, <1>q
  <2>2. \A k \in 1..Len(queue') : k \in Nat /\ k + 1 \in 1..Len(queue)
    BY <2>1
  <2>3. 1 \in 1..Len(queue)
    BY <2>1
  <2> HIDE DEF n
  <2>4. /\ round' \in [SenderThread -> SenderPcs] /\ taken' \in [SenderThread -> Nat]
        /\ \A v \in SenderThread :
             /\ round'[v] \in {"sending", "failed"} => taken'[v] # 0
             /\ taken'[v] # 0 => round'[v] \in {"uploading", "sending", "failed"}
        /\ round'[w] = "uploading" /\ taken'[w] = n
        /\ \A v \in SenderThread : v # w => round'[v] = round[v] /\ taken'[v] = taken[v]
    BY <1>0, <2>1, ThreadMoves DEF SenderInv, SenderPcs
  <2>5. SenderTypeOK'
    <3>1. payload' \in [SenderThread -> Nat] /\ latest' \in Nat
      BY <1>0, <1>t DEF SenderInv, SenderTypeOK
    <3> QED BY <1>0, <2>1, <2>4, <3>1 DEF SenderInv, SenderTypeOK, SenderPcs
  <2>6. EventsKnown'
    <3>1. \A k \in 1..Len(queue') : queue'[k] \in 1..posted
      BY <2>1, <2>2 DEF SenderInv, EventsKnown
    <3>2. n \in 0..posted
      BY <1>t, <2>1, <2>3 DEF SenderInv, EventsKnown
    <3>3. \A v \in SenderThread : taken'[v] \in 0..posted
      BY <2>4, <3>2 DEF SenderInv, EventsKnown
    <3> QED BY <1>0, <3>1, <3>3 DEF SenderInv, EventsKnown
  <2>7. ASSUME alone PROVE OneSender' /\ QueueFollows' /\ SentInTurn'
    <3>1. /\ OneSender /\ SentInTurn
          /\ \A k \in 1..Len(queue) : \A e \in Before(queue[k]) : Accounted(e, k - 1)
          /\ \A e \in (sessionStart + 1)..posted : Accounted(e, Len(queue))
      BY <1>0, <2>7 DEF SenderInv, QueueFollows
    <3>2. \A v \in SenderThread : taken[v] = 0
      BY <1>t, <3>1 DEF OneSender
    <3>3. OneSender'
      BY <1>t, <2>4, <3>1 DEF OneSender, Living
    <3>4. \A e \in Before(n) : e \in handled
      <4>1. ASSUME NEW e \in Before(n) PROVE e \in handled
        <5>1. Accounted(e, 1 - 1) /\ e # 0
          BY <1>t, <2>1, <2>3, <3>1, <4>1 DEF Before
        <5> QED BY <3>2, <5>1 DEF Accounted
      <4> QED BY <4>1
    <3>5. SentInTurn'
      BY <1>0, <2>4, <3>1, <3>4 DEF SentInTurn, Before
    <3>6. ASSUME NEW e \in Nat \ {0}, NEW m \in 1..Len(queue), Accounted(e, m)
          PROVE  After(e, m - 1)
      <4>1. CASE e \in handled
        BY <1>0, <4>1 DEF Accounted
      <4>2. ASSUME NEW j \in 1..m, queue[j] = e PROVE After(e, m - 1)
        <5>1. CASE j = 1
          BY <2>1, <2>4, <4>2, <5>1 DEF Accounted
        <5>2. CASE j # 1
          <6>1. j - 1 \in 1..(m - 1) /\ j - 1 \in 1..Len(queue') /\ (j - 1) + 1 = j
            BY <2>1, <4>2, <5>2
          <6>2. queue'[j - 1] = e
            BY <2>1, <4>2, <6>1
          <6> QED BY <6>1, <6>2 DEF Accounted
        <5> QED BY <5>1, <5>2
      <4> QED BY <3>2, <3>6, <4>1, <4>2 DEF Accounted
    <3>7. \A k \in 1..Len(queue') : \A e \in Before(queue'[k]) : After(e, k - 1)
      <4>1. ASSUME NEW k \in 1..Len(queue'), NEW e \in Before(queue'[k])
            PROVE  After(e, k - 1)
        <5>1. /\ k \in 1..Len(queue) /\ k + 1 \in 1..Len(queue) /\ (k + 1) - 1 = k
              /\ queue'[k] = queue[k + 1] /\ e \in Nat \ {0}
          BY <1>t, <2>1, <2>2, <4>1 DEF Before
        <5>2. Accounted(e, k)
          BY <3>1, <4>1, <5>1
        <5> QED BY <3>6, <5>1, <5>2
      <4> QED BY <4>1
    <3>8. \A e \in (sessionStart + 1)..posted : After(e, Len(queue'))
      <4>1. ASSUME NEW e \in (sessionStart + 1)..posted PROVE After(e, Len(queue) - 1)
        <5>1. e \in Nat \ {0} /\ Len(queue) \in 1..Len(queue)
          BY <1>t, <2>1, <4>1
        <5> QED BY <3>1, <3>6, <4>1, <5>1
      <4>2. Len(queue') = Len(queue) - 1
        BY <2>1
      <4> QED BY <4>1, <4>2
    <3> QED BY <1>0, <3>3, <3>5, <3>7, <3>8 DEF QueueFollows, Before, Accounted
  <2> QED BY <1>0, <2>5, <2>6, <2>7 DEF SenderInv
<1>e. CASE queue = <<>>
  <2>1. queue' = queue /\ taken' = taken
    BY <1>0, <1>t, <1>e
  <2>2. SenderTypeOK'
    BY <1>0, <1>t, <2>1 DEF SenderInv, SenderTypeOK
  <2>3. EventsKnown'
    BY <1>0, <2>1 DEF SenderInv, EventsKnown
  <2>4. ASSUME alone PROVE OneSender' /\ QueueFollows' /\ SentInTurn'
    <3>1. OneSender'
      BY <1>0, <1>t, <2>4 DEF SenderInv, SenderTypeOK, OneSender, Living
    <3> QED BY <1>0, <2>1, <2>4, <3>1 DEF SenderInv, QueueFollows, SentInTurn, Accounted, Before
  <2> QED BY <1>0, <2>2, <2>3, <2>4 DEF SenderInv
<1> QED BY <1>q, <1>e

\* The server has the event: it stays accounted for.
LEMMA SendInv ==
    ASSUME SenderInv, NEW w \in SenderThread, SendControlPost(w)
    PROVE  SenderInv'
<1>0. /\ round[w] = "sending" /\ handled' = handled \cup {taken[w]}
      /\ taken' = [taken EXCEPT ![w] = 0] /\ signal' = TRUE /\ round' = [round EXCEPT ![w] = "waiting"]
      /\ UNCHANGED <<payload, running, worker, queue, latest, joining, posted, sampled,
                     sessionStart, alone, abandoned, givenUp>>
  BY DEF SendControlPost, Processed, queueVars, postVars
<1>1. /\ round' \in [SenderThread -> SenderPcs] /\ taken' \in [SenderThread -> Nat]
      /\ \A v \in SenderThread :
           /\ round'[v] \in {"sending", "failed"} => taken'[v] # 0
           /\ taken'[v] # 0 => round'[v] \in {"uploading", "sending", "failed"}
      /\ round'[w] = "waiting" /\ taken'[w] = 0
      /\ \A v \in SenderThread : v # w => round'[v] = round[v] /\ taken'[v] = taken[v]
  BY <1>0, ThreadMoves DEF SenderInv, SenderPcs
<1>2. SenderTypeOK'
  <2>1. signal' \in BOOLEAN
    BY <1>0, Zenon
  <2>2. handled' \subseteq Nat
    BY <1>0 DEF SenderInv, SenderTypeOK
  <2> QED BY <1>0, <1>1, <2>1, <2>2 DEF SenderInv, SenderTypeOK, SenderPcs
<1>3. EventsKnown'
  BY <1>0, <1>1 DEF SenderInv, EventsKnown, SenderTypeOK
<1>4. ASSUME alone PROVE OneSender' /\ QueueFollows' /\ SentInTurn'
  <2>1. OneSender'
    BY <1>0, <1>1, <1>4 DEF SenderInv, OneSender, Living
  <2>2. SentInTurn'
    BY <1>0, <1>1, <1>4 DEF SenderInv, SentInTurn, Before
  <2>3. ASSUME NEW e, NEW n, Accounted(e, n) PROVE Accounted(e, n)'
    BY <1>0, <1>1, <2>3 DEF Accounted
  <2>4. QueueFollows'
    BY <1>0, <1>4, <2>3 DEF SenderInv, QueueFollows, Before
  <2> QED BY <2>1, <2>2, <2>4
<1> QED BY <1>0, <1>2, <1>3, <1>4 DEF SenderInv

\* A request that is given up was sent in its turn.
LEMMA SendFailsInv ==
    ASSUME SenderInv, NEW w \in SenderThread, SendFails(w)
    PROVE  SenderInv'
<1> DEFINE r == [event |-> taken[w], attempt |-> givenUp]
<1>0. /\ round[w] = "sending" /\ givenUp' = givenUp + 1 /\ abandoned' = abandoned \cup {r}
      /\ round' = [round EXCEPT ![w] = "failed"]
      /\ UNCHANGED <<signal, taken, payload, running, worker, queue, latest, joining, posted,
                     sampled, sessionStart, alone, handled>>
  BY DEF SendFails, queueVars, postVars
<1>t. taken[w] # 0 /\ taken[w] \in Nat /\ givenUp \in Nat
  BY <1>0 DEF SenderInv, SenderTypeOK
<1>1. r.event = taken[w] /\ r \in [event : Nat, attempt : Nat]
  BY <1>t
<1> HIDE DEF r
<1>2. SenderTypeOK'
  <2>1. abandoned' \subseteq [event : Nat, attempt : Nat] /\ givenUp' \in Nat
    BY <1>0, <1>t, <1>1 DEF SenderInv, SenderTypeOK
  <2>2. /\ round' \in [SenderThread -> SenderPcs]
        /\ \A v \in SenderThread :
             /\ round'[v] \in {"sending", "failed"} => taken[v] # 0
             /\ taken[v] # 0 => round'[v] \in {"uploading", "sending", "failed"}
    BY <1>0, <1>t DEF SenderInv, SenderTypeOK, SenderPcs
  <2> QED BY <1>0, <2>1, <2>2 DEF SenderInv, SenderTypeOK, SenderPcs
<1>3. EventsKnown'
  <2>1. r.event \in 1..posted
    BY <1>t, <1>1 DEF SenderInv, SenderTypeOK, EventsKnown
  <2> QED BY <1>0, <2>1 DEF SenderInv, EventsKnown
<1>4. ASSUME alone PROVE OneSender' /\ QueueFollows' /\ SentInTurn'
  <2>1. OneSender'
    BY <1>0, <1>4 DEF SenderInv, SenderTypeOK, OneSender, Living
  <2>2. QueueFollows'
    BY <1>0, <1>4 DEF SenderInv, QueueFollows, Accounted, Before
  <2>3. Before(r.event) \subseteq handled
    BY <1>t, <1>1, <1>4 DEF SenderInv, SentInTurn
  <2>4. SentInTurn'
    BY <1>0, <1>4, <2>3 DEF SenderInv, SentInTurn, Before
  <2> QED BY <2>1, <2>2, <2>4
<1> QED BY <1>0, <1>2, <1>3, <1>4 DEF SenderInv

\* A late copy adds to what the server has processed, and nothing else.
LEMMA ProcessAbandonedInv ==
    ASSUME SenderInv, NEW r \in abandoned, ProcessAbandoned(r)
    PROVE  SenderInv'
<1>0. /\ handled' = handled \cup {r.event} /\ abandoned' = abandoned \ {r}
      /\ UNCHANGED <<signal, round, taken, payload, running, worker, queue, latest, joining, posted,
                     sampled, sessionStart, alone, givenUp>>
  BY DEF ProcessAbandoned, Processed, senderThreadVars, queueVars, postVars
<1>1. r.event \in Nat
  BY DEF SenderInv, SenderTypeOK
<1>2. SenderTypeOK'
  BY <1>0, <1>1 DEF SenderInv, SenderTypeOK
<1>3. EventsKnown'
  BY <1>0 DEF SenderInv, EventsKnown
<1>4. ASSUME alone PROVE OneSender' /\ QueueFollows' /\ SentInTurn'
  <2>1. OneSender' /\ SentInTurn'
    BY <1>0, <1>4 DEF SenderInv, OneSender, SentInTurn, Living, Before
  <2>2. ASSUME NEW e, NEW n, Accounted(e, n) PROVE Accounted(e, n)'
    BY <1>0, <2>2 DEF Accounted
  <2>3. QueueFollows'
    BY <1>0, <1>4, <2>2 DEF SenderInv, QueueFollows, Before
  <2> QED BY <2>1, <2>3
<1> QED BY <1>0, <1>2, <1>3, <1>4 DEF SenderInv

\* A failed event goes back to the head, where everything before it has been
\* processed; after a stop it is dropped.
LEMMA RetryInv ==
    ASSUME SenderInv, NEW w \in SenderThread, RetryControlPost(w)
    PROVE  SenderInv'
<1> DEFINE After(e, n) == \/ e \in handled'
                          \/ \E v \in SenderThread : taken'[v] = e
                          \/ \E j \in 1..n : queue'[j] = e
<1>0. /\ round[w] = "failed" /\ taken' = [taken EXCEPT ![w] = 0]
      /\ \/ /\ running /\ queue' = <<taken[w]>> \o queue /\ signal' = signal
            /\ round' = [round EXCEPT ![w] = "backoff"]
         \/ ~running /\ queue' = queue /\ signal' = TRUE /\ round' = [round EXCEPT ![w] = "waiting"]
      /\ UNCHANGED <<payload, running, worker, latest, joining, posted, sampled, sessionStart,
                     alone, handled, abandoned, givenUp>>
  BY DEF RetryControlPost, postVars, networkVars
<1>t. /\ taken[w] # 0 /\ taken[w] \in Nat /\ queue \in Seq(Nat)
      /\ posted \in Nat /\ sessionStart \in Nat
  BY <1>0 DEF SenderInv, SenderTypeOK
<1>1. /\ round' \in [SenderThread -> SenderPcs] /\ taken' \in [SenderThread -> Nat]
      /\ \A v \in SenderThread :
           /\ round'[v] \in {"sending", "failed"} => taken'[v] # 0
           /\ taken'[v] # 0 => round'[v] \in {"uploading", "sending", "failed"}
      /\ round'[w] \in {"backoff", "waiting"} /\ taken'[w] = 0
      /\ \A v \in SenderThread : v # w => round'[v] = round[v] /\ taken'[v] = taken[v]
  BY <1>0, ThreadMoves DEF SenderInv, SenderPcs
<1>2. queue' \in Seq(Nat)
  <2>1. <<taken[w]>> \o queue \in Seq(Nat)
    BY <1>t
  <2> QED BY <1>0, <1>t, <2>1
<1>3. SenderTypeOK'
  <2>1. signal' \in {TRUE, signal}
    BY <1>0
  <2>2. signal' \in BOOLEAN
    BY <2>1, Zenon DEF SenderInv, SenderTypeOK
  <2> QED BY <1>0, <1>1, <1>2, <2>2 DEF SenderInv, SenderTypeOK, SenderPcs
<1>4. ASSUME alone PROVE OneSender' /\ SentInTurn'
  <2>1. OneSender'
    BY <1>0, <1>1, <1>4 DEF SenderInv, OneSender, Living
  <2> QED BY <1>0, <1>1, <1>4, <2>1 DEF SenderInv, SentInTurn, Before
<1>5. CASE ~running
  <2>1. queue' = queue
    BY <1>0, <1>5
  <2>2. EventsKnown'
    BY <1>0, <1>1, <1>t, <2>1 DEF SenderInv, EventsKnown
  <2>3. QueueFollows'
    BY <1>0, <1>5 DEF QueueFollows
  <2> QED BY <1>0, <1>3, <1>4, <2>2, <2>3 DEF SenderInv
<1>6. CASE running
  <2>0. queue' = <<taken[w]>> \o queue
    BY <1>0, <1>6
  <2>1. /\ Len(queue) \in Nat /\ Len(queue') = Len(queue) + 1 /\ queue'[1] = taken[w]
        /\ \A k \in 1..Len(queue) : queue'[k + 1] = queue[k]
    BY <1>t, <2>0
  <2>2. \A k \in 1..Len(queue') : k = 1 \/ (k - 1 \in 1..Len(queue) /\ (k - 1) + 1 = k)
    BY <2>1
  <2>3. EventsKnown'
    <3>1. taken[w] \in 1..posted
      BY <1>t DEF SenderInv, EventsKnown
    <3>2. \A k \in 1..Len(queue') : queue'[k] \in 1..posted
      <4>1. ASSUME NEW k \in 1..Len(queue'), k # 1 PROVE queue'[k] = queue[k - 1] /\ k - 1 \in 1..Len(queue)
        BY <2>1, <2>2, <4>1
      <4> QED BY <2>1, <3>1, <4>1 DEF SenderInv, EventsKnown
    <3>3. \A v \in SenderThread : taken'[v] \in 0..posted
      BY <1>1, <1>t DEF SenderInv, EventsKnown
    <3> QED BY <1>0, <3>2, <3>3 DEF SenderInv, EventsKnown
  <2>4. ASSUME alone PROVE QueueFollows'
    <3>1. /\ Before(taken[w]) \subseteq handled
          /\ \A k \in 1..Len(queue) : \A e \in Before(queue[k]) : Accounted(e, k - 1)
          /\ \A e \in (sessionStart + 1)..posted : Accounted(e, Len(queue))
      BY <1>t, <1>6, <2>4 DEF SenderInv, QueueFollows, SentInTurn
    <3>2. ASSUME NEW e, NEW n \in 0..Len(queue), Accounted(e, n) PROVE After(e, n + 1)
      <4>1. CASE e \in handled
        BY <1>0, <4>1 DEF Accounted
      <4>2. ASSUME NEW v \in SenderThread, taken[v] = e PROVE After(e, n + 1)
        <5>1. CASE v = w
          <6>1. 1 \in 1..(n + 1)
            OBVIOUS
          <6> QED BY <2>1, <4>2, <5>1, <6>1 DEF Accounted
        <5>2. CASE v # w
          BY <1>1, <4>2, <5>2 DEF Accounted
        <5> QED BY <5>1, <5>2
      <4>3. ASSUME NEW j \in 1..n, queue[j] = e PROVE After(e, n + 1)
        <5>1. j \in 1..Len(queue) /\ j + 1 \in 1..(n + 1)
          BY <2>1
        <5>2. queue'[j + 1] = e
          BY <2>1, <4>3, <5>1
        <5> QED BY <5>1, <5>2 DEF Accounted
      <4> QED BY <3>2, <4>1, <4>2, <4>3 DEF Accounted
    <3>3. ASSUME NEW k \in 1..Len(queue'), NEW e \in Before(queue'[k]) PROVE After(e, k - 1)
      <4>1. CASE k = 1
        BY <1>0, <2>1, <3>1, <3>3, <4>1 DEF Accounted
      <4>2. CASE k # 1
        <5>1. /\ k - 1 \in 1..Len(queue) /\ queue'[k] = queue[k - 1]
              /\ (k - 1) - 1 \in 0..Len(queue) /\ ((k - 1) - 1) + 1 = k - 1
          BY <2>1, <2>2, <4>2
        <5>2. Accounted(e, (k - 1) - 1)
          BY <3>1, <3>3, <5>1
        <5> HIDE DEF After
        <5>3. After(e, ((k - 1) - 1) + 1)
          BY <3>2, <5>1, <5>2
        <5> QED BY <5>1, <5>3
      <4> QED BY <4>1, <4>2
    <3>4. \A e \in (sessionStart + 1)..posted : After(e, Len(queue) + 1)
      <4>1. ASSUME NEW e \in (sessionStart + 1)..posted PROVE After(e, Len(queue) + 1)
        <5>1. Accounted(e, Len(queue)) /\ Len(queue) \in 0..Len(queue)
          BY <2>1, <3>1
        <5> HIDE DEF After
        <5> QED BY <3>2, <5>1
      <4> QED BY <4>1
    <3> QED BY <1>0, <2>1, <3>3, <3>4 DEF QueueFollows, Before, Accounted
  <2> QED BY <1>0, <1>3, <1>4, <2>3, <2>4 DEF SenderInv
<1> QED BY <1>5, <1>6 DEF SenderInv, SenderTypeOK

\* A sender that was never started satisfies the invariant.
LEMMA SenderInitInv == SenderInit => SenderInv
<1> SUFFICES ASSUME SenderInit PROVE SenderInv
  OBVIOUS
<1>1. SenderTypeOK
  <2>1. running \in BOOLEAN /\ signal \in BOOLEAN /\ alone \in BOOLEAN
    BY Zenon DEF SenderInit
  <2>2. queue \in Seq(Nat) /\ \A w \in SenderThread : round[w] = "unborn" /\ taken[w] = 0
    BY DEF SenderInit
  <2> QED BY <2>1, <2>2 DEF SenderInit, SenderTypeOK
<1>2. EventsKnown /\ OneSender /\ QueueFollows /\ SentInTurn
  BY DEF SenderInit, EventsKnown, OneSender, QueueFollows, SentInTurn, Living
<1> QED BY <1>1, <1>2 DEF SenderInv

\* Every step keeps the invariant.
LEMMA SenderStep == SenderInv /\ [SenderNext]_senderVars => SenderInv'
<1> SUFFICES ASSUME SenderInv, [SenderNext]_senderVars PROVE SenderInv'
  OBVIOUS
<1>1. CASE UNCHANGED senderVars
  <2>1. UNCHANGED <<signal, round, taken, payload, running, worker, queue, latest, joining, posted,
                    sampled, sessionStart, alone, handled, abandoned, givenUp>>
    BY <1>1 DEF senderVars, senderThreadVars, queueVars, postVars, networkVars
  <2>2. SenderTypeOK'
    BY <2>1 DEF SenderInv, SenderTypeOK
  <2>3. EventsKnown'
    BY <2>1 DEF SenderInv, EventsKnown
  <2>4. ASSUME alone PROVE OneSender' /\ QueueFollows' /\ SentInTurn'
    BY <2>1, <2>4 DEF SenderInv, OneSender, QueueFollows, SentInTurn, Accounted, Before, Living
  <2> QED BY <2>1, <2>2, <2>3, <2>4 DEF SenderInv
<1>2. CASE EnqueueControlPost \/ EnqueueJson \/ Stop \/ Joined
  BY <1>2, EnqueueInv, GameThreadInv
<1>3. ASSUME NEW w \in SenderThread, StartSender(w) \/ WorkerLoop(w) \/ SendFails(w)
      PROVE  SenderInv'
  BY <1>3, StartInv, IdleRoundInv, TakeWorkInv, SendInv, RetryInv, SendFailsInv DEF WorkerLoop
<1>4. ASSUME NEW r \in abandoned, ProcessAbandoned(r) PROVE SenderInv'
  BY <1>4, ProcessAbandonedInv
<1> QED BY <1>1, <1>2, <1>3, <1>4 DEF SenderNext

\* What is new to the server was sent, now or long ago, in its turn.
LEMMA NewInTurn ==
    ASSUME SenderInv, [SenderNext]_senderVars
    PROVE  [alone => \A e \in handled' \ handled : Before(e) \subseteq handled]_senderVars
<1> SUFFICES ASSUME SenderNext, alone, NEW e \in handled' \ handled
             PROVE  Before(e) \subseteq handled
  OBVIOUS
<1>1. SentInTurn
  BY DEF SenderInv
<1>2. CASE handled' = handled
  BY <1>2
<1>3. ASSUME NEW w \in SenderThread, SendControlPost(w) PROVE Before(e) \subseteq handled
  <2>1. e = taken[w] /\ taken[w] # 0
    BY <1>3 DEF SendControlPost, Processed, SenderInv, SenderTypeOK
  <2> QED BY <1>1, <2>1 DEF SentInTurn
<1>4. ASSUME NEW r \in abandoned, ProcessAbandoned(r) PROVE Before(e) \subseteq handled
  <2>1. e = r.event
    BY <1>4 DEF ProcessAbandoned, Processed
  <2> QED BY <1>1, <2>1 DEF SentInTurn
<1>5. ASSUME NEW w \in SenderThread,
             \/ StartSender(w) \/ Wake(w) \/ EndThread(w) \/ TakeWork(w) \/ Upload(w)
             \/ RetryControlPost(w) \/ Backoff(w) \/ SendFails(w)
      PROVE  handled' = handled
  BY <1>5 DEF StartSender, Wake, EndThread, TakeWork, Upload, RetryControlPost, Backoff, SendFails,
              networkVars
<1>6. ASSUME EnqueueControlPost \/ EnqueueJson \/ Stop \/ Joined PROVE handled' = handled
  BY <1>6 DEF EnqueueControlPost, EnqueueJson, Stop, Joined, networkVars
<1> QED BY <1>2, <1>3, <1>4, <1>5, <1>6 DEF SenderNext, WorkerLoop

\* No control event of a session reaches the server ahead of an earlier one,
\* however often requests fail, are repeated and are processed late, before
\* or after their repetition, and however long the thread that Stop waits for
\* goes on, as long as the last Start has found no thread of an earlier
\* session alive.
THEOREM ControlStaysInOrder == SenderSpec => ControlInOrder
BY SenderInitInv, SenderStep, NewInTurn, PTL DEF SenderSpec, ControlInOrder

\* The type invariant of the sender, for any number of threads side by side.
THEOREM SenderTypeCorrect == SenderSpec => []SenderTypeOK
<1>1. SenderInv => SenderTypeOK
  BY DEF SenderInv
<1> QED BY <1>1, SenderInitInv, SenderStep, PTL DEF SenderSpec

-----------------------------------------------------------------------------
(* The held vehicles: what the simulation thread can see.                  *)

\* The set that is being built is one that nobody can see.
BuildsUnseen == reading # building

MotionInv == MotionTypeOK /\ BuildsUnseen

\* A new set object is none of those in use.
LEMMA FreshFacts ==
    ASSUME MotionInv
    PROVE  Fresh \in Address /\ Fresh \notin {active, building, reading}
<1>1. \E a \in Address : a \notin {active, building, reading}
  BY MotionAssumptions DEF MotionInv, MotionTypeOK
<1> QED BY <1>1 DEF Fresh

\* The invariant holds in the initial states.
LEMMA MotionInitInv == MotionInit => MotionInv
<1> SUFFICES ASSUME MotionInit PROVE MotionInv
  OBVIOUS
<1>1. (\E a \in Address : TRUE) /\ NoAddress \notin Address
  BY MotionAssumptions
<1>2. active \in Address
  BY <1>1 DEF MotionInit
<1>3. \E a \in Address : a # active
  BY <1>2, MotionAssumptions
<1>4. building \in Address /\ building # active
  BY <1>3 DEF MotionInit
<1>5. lead \in [Vehicle -> Vehicle \cup {0}] /\ trail \in [Vehicle -> Vehicle \cup {0}]
  BY MotionAssumptions DEF MotionInit
<1> QED BY <1>1, <1>2, <1>4, <1>5, MotionAssumptions DEF MotionInit, MotionInv, MotionTypeOK, BuildsUnseen

\* Every step keeps it, and changes no set that is being read.
LEMMA MotionStepInv ==
    ASSUME MotionInv, [MotionNext]_motionVars
    PROVE  MotionInv' /\ (reading # NoAddress => content'[reading] = content[reading])
<1> USE MotionAssumptions DEF MotionInv, MotionTypeOK, BuildsUnseen, gameVars, walkVars, setVars
<1>0. Fresh \in Address /\ Fresh \notin {active, building, reading}
  BY FreshFacts
<1>1. CASE BeginFrame
  <2>1. frames' \in 0..MaxFrame
    BY <1>1 DEF BeginFrame
  <2>2. content' \in [Address -> SUBSET Vehicle] /\ phase' = "open"
    BY <1>1 DEF BeginFrame
  <2> QED BY <1>1, <2>1, <2>2 DEF BeginFrame
<1>2. CASE FindHead
  <2>1. current' \in Vehicle \cup {0} /\ visited' \subseteq Vehicle
    BY <1>2 DEF FindHead
  <2> QED BY <1>2, <2>1 DEF FindHead
<1>3. CASE AddVehicle
  <2>1. /\ content' \in [Address -> SUBSET Vehicle] /\ visited' \subseteq Vehicle
        /\ current' \in Vehicle \cup {0} /\ phase' \in {"open", "tail"}
        /\ reading # NoAddress => content'[reading] = content[reading]
    <3>1. CASE content' = content
      BY <1>3, <3>1 DEF AddVehicle
    <3>2. CASE content' = [content EXCEPT ![building] = @ \cup {current}] /\ current \in created
      BY <1>3, <3>2 DEF AddVehicle
    <3> QED BY <1>3, <3>1, <3>2 DEF AddVehicle
  <2> QED BY <1>3, <2>1 DEF AddVehicle
<1>4. CASE TickFails
  BY <1>4 DEF TickFails
<1>5. CASE CommitFrame
  BY <1>0, <1>5 DEF CommitFrame
<1>6. CASE ResetHolds
  BY <1>0, <1>6 DEF ResetHolds
<1>7. CASE ShouldHold \/ Answered
  BY <1>7 DEF ShouldHold, Answered
<1>8. CASE \E v \in Vehicle : HoldTrain(v)
  BY <1>8 DEF HoldTrain
<1>9. CASE \E v \in Vehicle : ReleaseVehicle(v)
  <2>1. PICK v \in Vehicle : ReleaseVehicle(v)
    BY <1>9
  <2>2. lead' \in [Vehicle -> Vehicle \cup {0}] /\ trail' \in [Vehicle -> Vehicle \cup {0}]
    BY <2>1 DEF ReleaseVehicle
  <2>3. created' \subseteq Vehicle /\ disturbed' \in BOOLEAN
    BY <2>1 DEF ReleaseVehicle
  <2>4. UNCHANGED <<active, building, content, phase, current, visited, reading, wanted, frames>>
    BY <2>1 DEF ReleaseVehicle
  <2> QED BY <2>2, <2>3, <2>4
<1>10. CASE UNCHANGED motionVars
  BY <1>10 DEF motionVars
<1> QED BY <1>1, <1>2, <1>3, <1>4, <1>5, <1>6, <1>7, <1>8, <1>9, <1>10 DEF MotionNext

\* The types of the controller are kept, and the set under construction is
\* never the published one.
THEOREM MotionTypeCorrect == MotionSpec => []MotionTypeOK
<1>1. MotionInv => MotionTypeOK
  BY DEF MotionInv
<1> QED BY <1>1, MotionInitInv, MotionStepInv, PTL DEF MotionSpec

\* The Harmony postfix never sees a set change, although it reads it without
\* a lock (CommitFrame allocates, ShouldHold keeps its reference): for any
\* vehicles, any number of frames and failures.
THEOREM ReadersSeeFrames == MotionSpec => ReadersSeeWholeFrames
<1>1. MotionInv /\ [MotionNext]_motionVars =>
          [reading # NoAddress => content'[reading] = content[reading]]_motionVars
  BY MotionStepInv
<1> QED BY <1>1, MotionInitInv, MotionStepInv, PTL DEF MotionSpec, ReadersSeeWholeFrames

-----------------------------------------------------------------------------
(* The held vehicles: whole trains.  The first walk goes up the leading    *)
(* vehicles, to the head or once around a ring; the second goes down the   *)
(* trailing ones.  Neither visits a vehicle twice, because couplings are   *)
(* mutual, so the second ends at the tail or where it began.               *)

\* Couplings are mutual, and no train has more vehicles than a walk may
\* visit: train gives each vehicle the vehicles of its train.
Mutual(l, t) ==
    \A v \in Vehicle : /\ l[v] # 0 => t[l[v]] = v
                       /\ t[v] # 0 => l[t[v]] = v
Fits(l, t, train) ==
    \A v \in Vehicle :
        /\ v \in train[v] /\ IsFiniteSet(train[v])
        /\ Cardinality(train[v]) <= MaximumConsistVehicles
        /\ l[v] # 0 => train[l[v]] = train[v]
        /\ t[v] # 0 => train[t[v]] = train[v]
TrainsAsInGame ==
    \A c \in Consists :
        /\ Mutual(c.lead, c.trail)
        /\ \E train \in [Vehicle -> SUBSET Vehicle] : Fits(c.lead, c.trail, train)

\* Only vehicles that exist are coupled.
Couplings ==
    /\ Mutual(lead, trail)
    /\ \A v \in Vehicle : lead[v] # 0 \/ trail[v] # 0 => v \in created

\* S goes on to the tail of each of its vehicles; S is a ring; S is a set of
\* whole trains.
Follows(S) == \A v \in S : trail[v] # 0 => trail[v] \in S
Ring(S) == \A v \in S : lead[v] \in S /\ trail[v] \in S
Whole(S) == \A v \in S : {lead[v], trail[v]} \ {0} \subseteq S

\* Every vehicle to be held is already in the set, or comes up on the way
\* down from v.
WantedFrom(v, held) ==
    \A w \in wanted : w \in held \/ \A S \in SUBSET Vehicle : (v \in S /\ Follows(S)) => w \in S

\* The first walk has gone up from s.
WalkedUp(s) ==
    /\ visited = {} => current = s
    /\ visited # {} =>
          /\ s \in visited /\ trail[current] \in visited
          /\ \A u \in visited : lead[u] \in visited \cup {current}
          /\ \A u \in visited \ {s} : trail[u] \in visited \ {trail[current]}

\* The second walk has gone down from h.
WalkedDown(h) ==
    /\ visited = {} => current = h
    /\ visited # {} =>
          /\ h \in visited /\ lead[current] \in visited
          /\ \A u \in visited : trail[u] \in visited \cup {current}
          /\ \A u \in visited \ {h} : lead[u] \in visited \ {lead[current]}
    /\ \A S \in SUBSET Vehicle : (h \in S /\ Follows(S)) => visited \cup {current} \subseteq S

\* Where the second walk may begin.
HeadOrRing(h) == lead[h] = 0 \/ \E S \in SUBSET Vehicle : h \in S /\ Ring(S)

\* The phases of a frame in which the game has not changed a train.
OpenOK == Whole(content[building]) /\ wanted \subseteq content[building]
HeadOK ==
    /\ current \in created /\ Whole(content[building]) /\ WantedFrom(current, content[building])
    /\ \E s \in Vehicle : WalkedUp(s)
TailOK ==
    /\ current \in created
    /\ \E h \in Vehicle : \E held \in SUBSET Vehicle :
          /\ Whole(held) /\ content[building] = held \cup visited
          /\ HeadOrRing(h) /\ WantedFrom(h, held) /\ WalkedDown(h)
WalkStaysInTrain ==
    \E train \in [Vehicle -> SUBSET Vehicle] :
        /\ Fits(lead, trail, train)
        /\ (~disturbed /\ phase \in {"head", "tail"}) => visited \subseteq train[current]

\* The inductive invariant.
HoldInv ==
    /\ MotionInv /\ Couplings /\ WalkStaysInTrain
    /\ ~disturbed => /\ phase = "open" => OpenOK
                     /\ phase = "head" => HeadOK
                     /\ phase = "tail" => TailOK

\* It holds in the initial states.
LEMMA HoldInitInv == TrainsAsInGame /\ MotionInit => HoldInv
<1> SUFFICES ASSUME TrainsAsInGame, MotionInit PROVE HoldInv
  OBVIOUS
<1>1. MotionInv
  BY MotionInitInv
<1>2. PICK c \in Consists : lead = c.lead /\ trail = c.trail
  BY DEF MotionInit
<1>3. PICK train \in [Vehicle -> SUBSET Vehicle] : Fits(c.lead, c.trail, train)
  BY DEF TrainsAsInGame
<1>4. Couplings
  BY <1>2 DEF TrainsAsInGame, Couplings, MotionInit
<1>5. WalkStaysInTrain
  BY <1>2, <1>3 DEF WalkStaysInTrain, MotionInit
<1> QED BY <1>1, <1>4, <1>5 DEF HoldInv, MotionInit

\* A walk that goes on has room for one more vehicle.
LEMMA RoomForOneMore ==
    ASSUME HoldInv, ~disturbed, phase \in {"head", "tail"}, current \in Vehicle, current \notin visited
    PROVE  Cardinality(visited) < MaximumConsistVehicles
<1>1. PICK train \in [Vehicle -> SUBSET Vehicle] :
          Fits(lead, trail, train) /\ visited \subseteq train[current]
  BY DEF HoldInv, WalkStaysInTrain
<1>2. /\ current \in train[current] /\ IsFiniteSet(train[current])
      /\ Cardinality(train[current]) <= MaximumConsistVehicles
  BY <1>1 DEF Fits
<1>3. visited \cup {current} \subseteq train[current]
  BY <1>1, <1>2
<1>4. IsFiniteSet(visited) /\ IsFiniteSet(visited \cup {current})
  BY <1>2, <1>3, FS_Subset
<1>5. Cardinality(visited \cup {current}) = Cardinality(visited) + 1
  BY <1>4, FS_AddElement
<1>6. Cardinality(visited \cup {current}) <= Cardinality(train[current])
  BY <1>2, <1>3, FS_Subset
<1>7. /\ Cardinality(visited) \in Nat /\ Cardinality(train[current]) \in Nat
      /\ MaximumConsistVehicles \in Nat
  BY <1>2, <1>4, FS_CardinalityType, MotionAssumptions
<1> QED BY <1>2, <1>5, <1>6, <1>7

\* The couplings of a vehicle.
LEMMA CouplingFacts ==
    ASSUME HoldInv, NEW v \in Vehicle
    PROVE  /\ lead[v] # 0 => lead[v] \in Vehicle /\ lead[v] \in created /\ trail[lead[v]] = v
           /\ trail[v] # 0 => trail[v] \in Vehicle /\ trail[v] \in created /\ lead[trail[v]] = v
           /\ 0 \notin Vehicle /\ v # 0
<1>1. /\ lead[v] \in Vehicle \cup {0} /\ trail[v] \in Vehicle \cup {0} /\ 0 \notin Vehicle
  BY MotionAssumptions DEF HoldInv, MotionInv, MotionTypeOK
<1>2. lead[v] # 0 => trail[lead[v]] = v /\ lead[v] \in created
  BY <1>1 DEF HoldInv, Couplings, Mutual
<1>3. trail[v] # 0 => lead[trail[v]] = v /\ trail[v] \in created
  BY <1>1 DEF HoldInv, Couplings, Mutual
<1> QED BY <1>1, <1>2, <1>3

\* A walk that stays in the train of its vehicle.
LEMMA WalkStaysInv ==
    ASSUME HoldInv, FindHead \/ AddVehicle
    PROVE  WalkStaysInTrain'
<1>1. PICK train \in [Vehicle -> SUBSET Vehicle] :
          /\ Fits(lead, trail, train)
          /\ (~disturbed /\ phase \in {"head", "tail"}) => visited \subseteq train[current]
  BY DEF HoldInv, WalkStaysInTrain
<1>2. UNCHANGED <<lead, trail, disturbed>> /\ phase \in {"head", "tail"}
  BY DEF FindHead, AddVehicle, gameVars
<1>3. ASSUME ~disturbed, phase' \in {"head", "tail"} PROVE visited' \subseteq train[current']
  <2>1. current \in created /\ created \subseteq Vehicle
    BY <1>2, <1>3 DEF HoldInv, HeadOK, TailOK, MotionInv, MotionTypeOK
  <2>2. current \in Vehicle /\ current \in train[current] /\ visited \subseteq train[current]
    BY <1>1, <1>2, <1>3, <2>1 DEF Fits
  <2>3. /\ lead[current] # 0 => train[lead[current]] = train[current]
        /\ trail[current] # 0 => train[trail[current]] = train[current]
    BY <1>1, <2>2 DEF Fits
  <2>4. lead[current] \in created => lead[current] # 0
    BY <2>1, <2>2, CouplingFacts
  <2>5. CASE FindHead
    BY <1>3, <2>2, <2>3, <2>4, <2>5 DEF FindHead
  <2>6. CASE AddVehicle
    BY <1>3, <2>2, <2>3, <2>6 DEF AddVehicle, walkVars
  <2> QED BY <2>5, <2>6
<1>4. Fits(lead', trail', train)
  BY <1>1, <1>2
<1> QED BY <1>1, <1>2, <1>3, <1>4 DEF WalkStaysInTrain

\* One round of the first walk.
LEMMA FindHeadInv ==
    ASSUME HoldInv, FindHead
    PROVE  HoldInv'
<1>1. MotionInv'
  BY MotionStepInv DEF HoldInv, MotionNext
<1>2. Couplings' /\ WalkStaysInTrain'
  BY WalkStaysInv DEF HoldInv, Couplings, Mutual, FindHead, gameVars
<1>3. phase' \in {"head", "tail"} /\ phase = "head"
  BY DEF FindHead
<1>4. UNCHANGED <<created, lead, trail, content, building, wanted, disturbed>>
  BY DEF FindHead, gameVars, setVars
<1>5. ASSUME ~disturbed PROVE (phase' = "head" => HeadOK') /\ (phase' = "tail" => TailOK')
  <2>1. HeadOK
    BY <1>3, <1>5 DEF HoldInv
  <2>2. PICK s \in Vehicle : WalkedUp(s)
    BY <2>1 DEF HeadOK
  <2>3. /\ current \in created /\ current \in Vehicle /\ visited \subseteq Vehicle
        /\ created \subseteq Vehicle /\ 0 \notin Vehicle
    BY <2>1, MotionAssumptions DEF HeadOK, HoldInv, MotionInv, MotionTypeOK
  <2>4. content[building] \in SUBSET Vehicle
    BY DEF HoldInv, MotionInv, MotionTypeOK
  <2>5. CASE current \notin visited /\ lead[current] \in created
    <3> PICK up : up = lead[current]
      OBVIOUS
    <3>1. Cardinality(visited) < MaximumConsistVehicles
      BY <1>3, <1>5, <2>3, <2>5, RoomForOneMore
    <3>2. current' = up /\ visited' = visited \cup {current} /\ phase' = "head"
      BY <1>3, <2>3, <2>5, <3>1 DEF FindHead
    <3>3. up \in created /\ up \in Vehicle /\ trail[up] = current /\ current # 0
      BY <2>3, <2>5, CouplingFacts
    <3>4. WantedFrom(up, content[building])
      <4>1. WantedFrom(current, content[building])
        BY <2>1 DEF HeadOK
      <4>2. \A S \in SUBSET Vehicle : (up \in S /\ Follows(S)) => current \in S
        BY <3>3 DEF Follows
      <4> QED BY <4>1, <4>2 DEF WantedFrom
    <3>5. WalkedUp(s)'
      <4>1. CASE visited = {}
        BY <1>4, <2>2, <3>2, <3>3, <4>1 DEF WalkedUp
      <4>2. CASE visited # {}
        <5>1. /\ s \in visited /\ trail[current] \in visited
              /\ \A u \in visited : lead[u] \in visited \cup {current}
              /\ \A u \in visited \ {s} : trail[u] \in visited
          BY <2>2, <4>2 DEF WalkedUp
        <5>2. \A u \in visited' : lead[u] \in visited' \cup {up}
          BY <3>2, <5>1
        <5>3. \A u \in visited' \ {s} : trail[u] \in visited' \ {current}
          BY <2>5, <3>2, <5>1
        <5> QED BY <1>4, <3>2, <3>3, <5>1, <5>2, <5>3 DEF WalkedUp
      <4> QED BY <4>1, <4>2
    <3>6. HeadOK'
      <4>1. Whole(content[building])' /\ WantedFrom(current, content[building])'
        BY <1>4, <2>1, <3>2, <3>4 DEF HeadOK, Whole, WantedFrom, Follows
      <4> QED BY <1>4, <3>2, <3>3, <3>5, <4>1 DEF HeadOK
    <3> QED BY <3>2, <3>6
  <2>6. CASE ~(current \notin visited /\ lead[current] \in created)
    <3>1. phase' = "tail" /\ visited' = {} /\ current' = current
      BY <1>3, <2>6 DEF FindHead
    <3>2. HeadOrRing(current)
      <4>1. CASE current \notin visited
        <5>1. lead[current] = 0
          BY <2>3, <2>6, <4>1, CouplingFacts
        <5> QED BY <5>1 DEF HeadOrRing
      <4>2. CASE current \in visited
        <5>1. /\ s \in visited /\ trail[current] \in visited
              /\ \A u \in visited : lead[u] \in visited
              /\ \A u \in visited \ {s} : trail[u] \in visited \ {trail[current]}
          BY <2>2, <4>2 DEF WalkedUp
        <5>2. current = s
          BY <4>2, <5>1
        <5>3. Ring(visited)
          BY <5>1, <5>2 DEF Ring
        <5> QED BY <2>3, <4>2, <5>3 DEF HeadOrRing
      <4> QED BY <4>1, <4>2
    <3>3. WalkedDown(current)'
      BY <3>1 DEF WalkedDown
    <3>4. TailOK'
      <4> PICK h, held : h = current /\ held = content[building]
        OBVIOUS
      <4>1. /\ h \in Vehicle /\ held \in SUBSET Vehicle /\ Whole(held)' /\ WantedFrom(h, held)'
        BY <1>4, <2>1, <2>3, <2>4 DEF HeadOK, Whole, WantedFrom, Follows
      <4>2. HeadOrRing(h)'
        BY <1>4, <3>2 DEF HeadOrRing, Ring
      <4>3. content'[building'] = held \cup visited' /\ WalkedDown(h)' /\ current' \in created'
        BY <1>4, <2>3, <3>1, <3>3 DEF WalkedDown
      <4> QED BY <4>1, <4>2, <4>3 DEF TailOK
    <3> QED BY <3>1, <3>4
  <2> QED BY <2>5, <2>6
<1> QED BY <1>1, <1>2, <1>3, <1>4, <1>5 DEF HoldInv

\* One round of the second walk.
LEMMA AddVehicleInv ==
    ASSUME HoldInv, AddVehicle
    PROVE  HoldInv'
<1>1. MotionInv'
  BY MotionStepInv DEF HoldInv, MotionNext
<1>2. Couplings' /\ WalkStaysInTrain'
  BY WalkStaysInv DEF HoldInv, Couplings, Mutual, AddVehicle, gameVars
<1>3. phase' \in {"open", "tail"} /\ phase = "tail"
  BY DEF AddVehicle
<1>4. UNCHANGED <<created, lead, trail, building, wanted, disturbed>>
  BY DEF AddVehicle, gameVars
<1>5. ASSUME ~disturbed PROVE (phase' = "open" => OpenOK') /\ (phase' = "tail" => TailOK')
  <2>1. PICK h \in Vehicle, held \in SUBSET Vehicle :
            /\ current \in created /\ Whole(held) /\ content[building] = held \cup visited
            /\ HeadOrRing(h) /\ WantedFrom(h, held) /\ WalkedDown(h)
    BY <1>3, <1>5 DEF HoldInv, TailOK
  <2>2. /\ current \in created /\ current \in Vehicle /\ visited \subseteq Vehicle
        /\ created \subseteq Vehicle /\ 0 \notin Vehicle /\ building \in Address
        /\ content \in [Address -> SUBSET Vehicle]
    BY <2>1, MotionAssumptions DEF HoldInv, MotionInv, MotionTypeOK
  <2>3. /\ visited = {} => current = h
        /\ visited # {} =>
              /\ h \in visited /\ lead[current] \in visited
              /\ \A u \in visited : trail[u] \in visited \cup {current}
              /\ \A u \in visited \ {h} : lead[u] \in visited \ {lead[current]}
        /\ \A S \in SUBSET Vehicle : (h \in S /\ Follows(S)) => visited \cup {current} \subseteq S
    BY <2>1 DEF WalkedDown
  <2>4. ASSUME NEW F \in SUBSET Vehicle, h \in F, Follows(F), Whole(held \cup F),
               content'[building] = held \cup F
        PROVE  OpenOK'
    <3>1. wanted \subseteq held \cup F
      BY <2>1, <2>4 DEF WantedFrom
    <3> QED BY <1>4, <2>4, <3>1 DEF OpenOK, Whole
  <2>5. CASE current \in visited
    <3>1. phase' = "open" /\ content' = content
      BY <1>3, <2>5 DEF AddVehicle
    <3>2. h = current /\ lead[h] \in visited
      BY <2>3, <2>5
    <3>3. Follows(visited) /\ Whole(held \cup visited)
      BY <2>1, <2>3, <2>5, <3>2 DEF Follows, Whole
    <3> QED BY <2>1, <2>2, <2>4, <2>5, <3>1, <3>2, <3>3
  <2>6. CASE current \notin visited /\ trail[current] = 0
    <3> PICK F : F = visited \cup {current}
      OBVIOUS
    <3>1. Cardinality(visited) < MaximumConsistVehicles
      BY <1>3, <1>5, <2>2, <2>6, RoomForOneMore
    <3>2. phase' = "open" /\ content'[building] = held \cup F
      BY <1>3, <2>1, <2>2, <2>6, <3>1 DEF AddVehicle
    <3>3. h \in F /\ Follows(F) /\ F \in SUBSET Vehicle
      BY <2>2, <2>3, <2>6 DEF Follows
    <3>4. lead[h] = 0
      <4>1. ASSUME NEW S \in SUBSET Vehicle, h \in S, Ring(S) PROVE FALSE
        <5>1. Follows(S)
          BY <4>1 DEF Ring, Follows
        <5>2. current \in S
          BY <2>3, <4>1, <5>1
        <5> QED BY <2>2, <2>6, <4>1, <5>2 DEF Ring
      <4> QED BY <2>1, <4>1 DEF HeadOrRing
    <3>5. \A u \in F : {lead[u], trail[u]} \ {0} \subseteq F
      BY <2>3, <2>6, <3>4
    <3>6. Whole(held \cup F)
      BY <2>1, <3>5 DEF Whole
    <3> QED BY <2>4, <3>2, <3>3, <3>6
  <2>7. CASE current \notin visited /\ trail[current] # 0
    <3> PICK down : down = trail[current]
      OBVIOUS
    <3>1. Cardinality(visited) < MaximumConsistVehicles
      BY <1>3, <1>5, <2>2, <2>7, RoomForOneMore
    <3>2. /\ phase' = "tail" /\ current' = down /\ visited' = visited \cup {current}
          /\ content'[building] = held \cup visited'
      BY <1>3, <2>1, <2>2, <2>7, <3>1 DEF AddVehicle
    <3>3. down \in created /\ down \in Vehicle /\ lead[down] = current /\ current # 0
      BY <2>2, <2>7, CouplingFacts
    <3>4. WalkedDown(h)'
      <4>1. visited' # {} /\ h \in visited' /\ lead[down] \in visited'
        BY <2>3, <3>2, <3>3
      <4>2. \A u \in visited' : trail[u] \in visited' \cup {down}
        BY <2>3, <3>2
      <4>3. \A u \in visited' \ {h} : lead[u] \in visited' \ {current}
        BY <2>3, <2>7, <3>2
      <4>4. \A S \in SUBSET Vehicle : (h \in S /\ Follows(S)) => visited' \cup {down} \subseteq S
        BY <2>3, <2>7, <3>2 DEF Follows
      <4> QED BY <1>4, <3>2, <3>3, <4>1, <4>2, <4>3, <4>4 DEF WalkedDown, Follows
    <3>5. Whole(held)' /\ HeadOrRing(h)' /\ WantedFrom(h, held)'
      <4>1. Whole(held)' /\ WantedFrom(h, held)'
        BY <1>4, <2>1 DEF Whole, WantedFrom, Follows
      <4>2. HeadOrRing(h)'
        BY <1>4, <2>1 DEF HeadOrRing, Ring
      <4> QED BY <4>1, <4>2
    <3>6. TailOK'
      BY <1>4, <3>2, <3>3, <3>4, <3>5 DEF TailOK
    <3> QED BY <3>2, <3>6
  <2> QED BY <2>5, <2>6, <2>7
<1> QED BY <1>1, <1>2, <1>3, <1>4, <1>5 DEF HoldInv

\* The steps that neither walk nor change a train.
LEMMA HoldFrame ==
    ASSUME HoldInv, MotionInv', UNCHANGED <<created, lead, trail>>,
           WalkStaysInTrain',
           ~disturbed' => /\ phase' = "open" => OpenOK'
                          /\ phase' = "head" => HeadOK'
                          /\ phase' = "tail" => TailOK'
    PROVE  HoldInv'
BY DEF HoldInv, Couplings, Mutual

\* Every step keeps the invariant.
LEMMA HoldStepInv == HoldInv /\ [MotionNext]_motionVars => HoldInv'
<1> SUFFICES ASSUME HoldInv, [MotionNext]_motionVars PROVE HoldInv'
  OBVIOUS
<1>0. MotionInv' /\ MotionInv
  BY MotionStepInv DEF HoldInv
<1>1. PICK train \in [Vehicle -> SUBSET Vehicle] :
          /\ Fits(lead, trail, train)
          /\ (~disturbed /\ phase \in {"head", "tail"}) => visited \subseteq train[current]
  BY DEF HoldInv, WalkStaysInTrain
<1>2. CASE BeginFrame
  <2>1. /\ phase' = "open" /\ wanted' = {} /\ content'[building'] = {}
        /\ UNCHANGED <<created, lead, trail>>
    BY <1>0, <1>2 DEF BeginFrame, gameVars, MotionInv, MotionTypeOK
  <2>2. WalkStaysInTrain' /\ OpenOK'
    BY <1>1, <2>1 DEF WalkStaysInTrain, OpenOK, Whole
  <2> QED BY <1>0, <2>1, <2>2, HoldFrame
<1>3. CASE FindHead
  BY <1>3, FindHeadInv
<1>4. CASE AddVehicle
  BY <1>4, AddVehicleInv
<1>5. CASE TickFails \/ CommitFrame \/ ResetHolds
  <2>1. phase' \in {"failed", "none"} /\ UNCHANGED <<created, lead, trail>>
    BY <1>5 DEF TickFails, CommitFrame, ResetHolds, gameVars
  <2>2. WalkStaysInTrain'
    BY <1>1, <2>1 DEF WalkStaysInTrain
  <2> QED BY <1>0, <2>1, <2>2, HoldFrame
<1>6. CASE ShouldHold \/ Answered \/ UNCHANGED motionVars
  <2>1. UNCHANGED <<created, lead, trail, building, content, phase, current, visited, wanted, disturbed>>
    BY <1>6 DEF ShouldHold, Answered, motionVars, gameVars, setVars, walkVars
  <2>2. WalkStaysInTrain'
    BY <1>1, <2>1 DEF WalkStaysInTrain
  <2>3. /\ OpenOK => OpenOK'
        /\ HeadOK => HeadOK'
    BY <2>1 DEF OpenOK, HeadOK, Whole, WantedFrom, Follows, WalkedUp
  <2>4. TailOK => TailOK'
    BY <2>1 DEF TailOK, Whole, WantedFrom, Follows, WalkedDown, HeadOrRing, Ring
  <2> QED BY <1>0, <2>1, <2>2, <2>3, <2>4, HoldFrame DEF HoldInv
<1>7. CASE \E v \in Vehicle : HoldTrain(v)
  <2>1. PICK v \in Vehicle : HoldTrain(v)
    BY <1>7
  <2>2. /\ phase = "open" /\ phase' = "head" /\ current' = v /\ visited' = {} /\ v \in created
        /\ wanted' = wanted \cup {v} /\ UNCHANGED <<created, lead, trail, building, content, disturbed>>
    BY <2>1 DEF HoldTrain, gameVars, setVars
  <2>3. WalkStaysInTrain'
    BY <1>1, <2>2 DEF WalkStaysInTrain
  <2>4. ASSUME ~disturbed PROVE HeadOK'
    <3>1. OpenOK
      BY <2>2, <2>4 DEF HoldInv
    <3>2. WantedFrom(current, content[building])'
      BY <2>2, <3>1 DEF OpenOK, WantedFrom
    <3>3. Whole(content[building])' /\ WalkedUp(v)'
      BY <2>2, <3>1 DEF OpenOK, Whole, WalkedUp
    <3> QED BY <2>2, <3>2, <3>3 DEF HeadOK
  <2> QED BY <1>0, <2>2, <2>3, <2>4, HoldFrame
<1>8. CASE \E v \in Vehicle : ReleaseVehicle(v)
  <2>1. PICK v \in Vehicle : ReleaseVehicle(v)
    BY <1>8
  <2>2. /\ created' = created \ {v} /\ disturbed' = TRUE
        /\ lead' = [w \in Vehicle |-> IF w = v \/ lead[w] = v THEN 0 ELSE lead[w]]
        /\ trail' = [w \in Vehicle |-> IF w = v \/ trail[w] = v THEN 0 ELSE trail[w]]
    BY <2>1 DEF ReleaseVehicle
  <2>3. \A w \in Vehicle : /\ lead[w] \in Vehicle \cup {0} /\ trail[w] \in Vehicle \cup {0}
                           /\ lead[w] # 0 => trail[lead[w]] = w
                           /\ trail[w] # 0 => lead[trail[w]] = w
                           /\ lead[w] # 0 \/ trail[w] # 0 => w \in created
    BY <1>0 DEF HoldInv, Couplings, Mutual, MotionInv, MotionTypeOK
  <2>4. Couplings'
    <3>1. ASSUME NEW w \in Vehicle, lead'[w] # 0 PROVE trail'[lead'[w]] = w /\ w \in created'
      <4>1. lead'[w] = lead[w] /\ w # v /\ lead[w] # v /\ lead[w] \in Vehicle
        BY <2>2, <2>3, <3>1
      <4> QED BY <2>2, <2>3, <3>1, <4>1
    <3>2. ASSUME NEW w \in Vehicle, trail'[w] # 0 PROVE lead'[trail'[w]] = w /\ w \in created'
      <4>1. trail'[w] = trail[w] /\ w # v /\ trail[w] # v /\ trail[w] \in Vehicle
        BY <2>2, <2>3, <3>2
      <4> QED BY <2>2, <2>3, <3>2, <4>1
    <3> QED BY <3>1, <3>2 DEF Couplings, Mutual
  <2>5. Fits(lead', trail', train)
    BY <1>1, <2>2 DEF Fits
  <2>6. WalkStaysInTrain'
    BY <2>2, <2>5 DEF WalkStaysInTrain
  <2> QED BY <1>0, <2>2, <2>4, <2>6 DEF HoldInv
<1> QED BY <1>2, <1>3, <1>4, <1>5, <1>6, <1>7, <1>8 DEF MotionNext

\* When trains are coupled as in the game, every frame that is built without
\* a failure and without a change of trains holds whole trains (HoldTrain):
\* for any number of trains of any length up to MaximumConsistVehicles, rings
\* included, whichever vehicle of a train HoldTrain is given.
THEOREM WholeTrainsStayHeld == TrainsAsInGame => (MotionSpec => WholeTrainsHeld)
<1> SUFFICES ASSUME TrainsAsInGame PROVE MotionSpec => WholeTrainsHeld
  OBVIOUS
<1>1. ASSUME HoldInv, [MotionNext]_motionVars, phase = "open", phase' = "none", ~disturbed
      PROVE  /\ wanted \subseteq Published'
             /\ \A v \in Published' : {lead[v], trail[v]} \ {0} \subseteq Published'
  <2>1. CommitFrame
    BY <1>1 DEF MotionNext, BeginFrame, FindHead, AddVehicle, TickFails, ResetHolds, ShouldHold,
                Answered, HoldTrain, ReleaseVehicle, motionVars
  <2>2. Fresh # building /\ building \in Address
    BY <1>1, FreshFacts DEF HoldInv, MotionInv, MotionTypeOK
  <2>3. Published' = content[building]
    BY <1>1, <2>1, <2>2 DEF CommitFrame, Published, HoldInv, MotionInv, MotionTypeOK
  <2>4. OpenOK
    BY <1>1 DEF HoldInv
  <2> QED BY <2>3, <2>4 DEF OpenOK, Whole
<1>2. HoldInv /\ [MotionNext]_motionVars =>
          [(phase = "open" /\ phase' = "none" /\ ~disturbed) =>
              /\ wanted \subseteq Published'
              /\ \A v \in Published' : {lead[v], trail[v]} \ {0} \subseteq Published']_motionVars
  BY <1>1
<1>3. MotionInit => HoldInv
  BY HoldInitInv
<1> QED BY <1>2, <1>3, HoldStepInv, PTL DEF MotionSpec, WholeTrainsHeld

=============================================================================
