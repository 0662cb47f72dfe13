------------------------------- MODULE WebServer -------------------------------
(***************************************************************************)
(* Connections of the HTTP server (WebServer.cpp, TcpConn.cpp,             *)
(* ThreadPool.cpp): one event loop, a pool of worker threads and file      *)
(* descriptors that the kernel gives out again after a close.              *)
(*                                                                         *)
(* A connection object is named by its connection id and is never reused;  *)
(* tasks refer to it by a weak pointer and to the socket by its number.    *)
(* The event loop is the only thread that accepts, writes and times        *)
(* connections out, so each of its handlers is one step; a worker's task   *)
(* is split where another thread can get in between.  EPOLLONESHOT         *)
(* disarms a descriptor with every event until modFd arms it again.        *)
(*                                                                         *)
(* A request arrives in two segments; a client sends the next one after    *)
(* the answer.  It may half-close its side or reset the connection.  An    *)
(* answer may fill the send buffer once (WriteStatus AGAIN); the client    *)
(* takes from it when it likes, or never.                                  *)
(*                                                                         *)
(* Idle time is abstracted to the round of the event loop in which it      *)
(* ends: epoll_wait returns without an event of the connection, and the    *)
(* handleExpired at the end of the round closes it, whatever has arrived   *)
(* in between.  A timer can run out when no event is ready and no task is  *)
(* under way, or, when setup says so, also on a connection with a task:    *)
(* one that takes longer than the timeout, or, in the proactor, one that   *)
(* was queued just before the end, because only the task itself refreshes  *)
(* the timer.                                                              *)
(***************************************************************************)
EXTENDS Naturals, Sequences, FiniteSets

CONSTANTS
    Fd, Worker, NoFd,
    Setup,          \* the setups considered
    MaxConnection   \* bound on accepted connections

ASSUME WebServerAssumptions ==
    /\ NoFd \notin Fd /\ MaxConnection \in Nat
    /\ Setup \subseteq [proactor : BOOLEAN, slow : BOOLEAN, fds : SUBSET Fd, requests : Nat]

Id == 1..MaxConnection
NoConnection == 0
NoTask == [pc |-> "idle", id |-> NoConnection, fd |-> NoFd]

VARIABLES
    setup,     \* proactor: actor_model = 1, workers read; slow: timers may run out
               \* on connections with a task; fds, requests: bounds on free
               \* descriptors and on requests per connection
    owner,     \* kernel: the connection whose socket has this number
    armed,     \* epoll: none (not registered), off (disarmed), in, out
    due,       \* the timer runs out before the end of this round of the loop
    conns,     \* conns_
    state,     \* ConnState of each connection object, unborn before accept
    sock,      \* fd_
    got,       \* segments in the read buffer
    response,  \* response_ is set
    peerClosed, \* peer_closed_write_
    sent,      \* segments of the current request the client has sent
    fin,       \* the client has closed its side
    broken,    \* the client has reset the connection
    outgoing,  \* the send buffer during an answer: unused, full, or drained again
    answered,  \* requests answered
    tasks,     \* the queue of the thread pool
    work       \* the task of each worker

kernelVars == <<owner, armed, due>>
connVars == <<conns, state, sock, got, response, peerClosed>>
clientVars == <<sent, fin, broken, outgoing, answered>>
taskVars == <<tasks, work>>
runVars == <<kernelVars, connVars, clientVars, taskVars>>
webVars == <<setup, runVars>>

WebInit ==
    /\ setup \in Setup
    /\ owner = [f \in Fd |-> NoConnection] /\ conns = [f \in Fd |-> NoConnection]
    /\ armed = [f \in Fd |-> "none"] /\ due = [f \in Fd |-> FALSE]
    /\ state = [i \in Id |-> "unborn"] /\ sock = [i \in Id |-> NoFd]
    /\ got = [i \in Id |-> 0] /\ response = [i \in Id |-> FALSE]
    /\ peerClosed = [i \in Id |-> FALSE]
    /\ sent = [i \in Id |-> 0] /\ fin = [i \in Id |-> FALSE] /\ broken = [i \in Id |-> FALSE]
    /\ outgoing = [i \in Id |-> "unused"] /\ answered = [i \in Id |-> 0]
    /\ tasks = <<>> /\ work = [w \in Worker |-> NoTask]

-----------------------------------------------------------------------------
(* Sockets.                                                                *)

Open(i) == sock[i] # NoFd
Readable(i) == sent[i] > got[i] \/ fin[i] \/ broken[i]
Writable(i) == outgoing[i] # "full"

\* The outcome of TcpConn::read: everything that has arrived; FALSE when the
\* connection is broken or ends without any data.
ReadOk(i) == Open(i) /\ ~broken[i] /\ (fin[i] => sent[i] > 0)
Received(i) == IF Open(i) /\ ~broken[i] THEN [got EXCEPT ![i] = sent[i]] ELSE got
EndSeen(i) == IF Open(i) /\ ~broken[i] /\ fin[i] THEN [peerClosed EXCEPT ![i] = TRUE]
              ELSE peerClosed

\* TcpConn::closeConn on connection i whose state was changed to s before:
\* the socket is closed unless the state says that this was done already.
SocketClosed(i, s) ==
    IF s \in {"CLOSED", "CLOSING"} \/ sock[i] = NoFd
      THEN /\ state' = [state EXCEPT ![i] = "CLOSING"]
           /\ UNCHANGED <<sock, owner>>
      ELSE /\ state' = [state EXCEPT ![i] = "CLOSED"]
           /\ owner' = [owner EXCEPT ![sock[i]] = NoConnection]
           /\ sock' = [sock EXCEPT ![i] = NoFd]

\* Faulty variant: the entry of the table is kept.
KeepInTable(f) ==
    /\ armed' = [armed EXCEPT ![f] = "none"] /\ due' = [due EXCEPT ![f] = FALSE]
    /\ UNCHANGED conns

\* closeConncl up to the unlock of connMutex_.
Forget(f) ==
    /\ conns' = [conns EXCEPT ![f] = NoConnection]
    /\ armed' = [armed EXCEPT ![f] = "none"]
    /\ due' = [due EXCEPT ![f] = FALSE]

\* The whole of closeConncl, for connection i in state s.
Close(f, i, s) == Forget(f) /\ SocketClosed(i, s)

\* modFd: nothing happens to a number that is not registered.
Arm(f, events) ==
    armed' = IF armed[f] = "none" THEN armed ELSE [armed EXCEPT ![f] = events]

-----------------------------------------------------------------------------
(* The clients.                                                            *)

ClientSends(i) ==
    /\ Open(i) /\ ~fin[i] /\ ~broken[i]
    /\ sent[i] < 2 /\ answered[i] < setup.requests
    /\ sent' = [sent EXCEPT ![i] = @ + 1]
    /\ UNCHANGED <<kernelVars, connVars, fin, broken, outgoing, answered, taskVars>>

\* The client takes what it has been sent.
ClientReads(i) ==
    /\ Open(i) /\ ~broken[i] /\ outgoing[i] = "full"
    /\ outgoing' = [outgoing EXCEPT ![i] = "drained"]
    /\ UNCHANGED <<kernelVars, connVars, sent, fin, broken, answered, taskVars>>

\* It closes its side, or resets the connection.
ClientCloses(i) ==
    /\ Open(i) /\ ~broken[i]
    /\ \/ ~fin[i] /\ fin' = [fin EXCEPT ![i] = TRUE] /\ UNCHANGED broken
       \/ broken' = [broken EXCEPT ![i] = TRUE] /\ UNCHANGED fin
    /\ UNCHANGED <<kernelVars, connVars, sent, outgoing, answered, taskVars>>

-----------------------------------------------------------------------------
(* The event loop.                                                         *)

\* handleAccept: the kernel hands out any free number.
HandleAccept(i, f) ==
    /\ state[i] = "unborn" /\ \A j \in Id : j < i => state[j] # "unborn"
    /\ f \in setup.fds /\ owner[f] = NoConnection
    /\ owner' = [owner EXCEPT ![f] = i]
    /\ sock' = [sock EXCEPT ![i] = f]
    /\ state' = [state EXCEPT ![i] = "IDLE"]
    /\ conns' = [conns EXCEPT ![f] = i]
    /\ armed' = [armed EXCEPT ![f] = "in"]
    /\ UNCHANGED <<due, got, response, peerClosed, clientVars, taskVars>>

EnqueueTask(i, f) == tasks' = Append(tasks, [pc |-> "queued", id |-> i, fd |-> f])

\* EPOLLERR.
HandleError(f) ==
    /\ conns[f] # NoConnection /\ armed[f] # "off" /\ broken[conns[f]]
    /\ Close(f, conns[f], state[conns[f]])
    /\ UNCHANGED <<got, response, peerClosed, clientVars, taskVars>>

\* EPOLLRDHUP alone: the end of the stream on a connection that waits for
\* room in its send buffer.  (Waiting to read, the end comes with EPOLLIN.)
HandleHangUp(f) ==
    LET i == conns[f]
    IN  /\ i # NoConnection /\ armed[f] = "out"
        /\ fin[i] /\ ~broken[i] /\ ~Writable(i)
        /\ Close(f, i, state[i])
        /\ UNCHANGED <<got, response, peerClosed, clientVars, taskVars>>

\* Faulty variant: without EPOLLONESHOT.
StayArmed(f) == UNCHANGED armed

\* EPOLLONESHOT: an event disarms its descriptor.
Disarm(f) == armed' = [armed EXCEPT ![f] = "off"]

\* handleRead in the reactor: the loop reads, a worker processes.
HandleReadReactor(f) ==
    LET i == conns[f]
    IN  /\ ~setup.proactor
        /\ i # NoConnection /\ armed[f] = "in" /\ Readable(i)
        /\ got' = Received(i) /\ peerClosed' = EndSeen(i)
        /\ \/ /\ ~ReadOk(i)
              /\ Close(f, i, state[i])
              /\ UNCHANGED tasks
           \/ /\ ReadOk(i)
              /\ Disarm(f)
              /\ \/ /\ state[i] = "IDLE"
                    /\ state' = [state EXCEPT ![i] = "PROCESSING"]
                    /\ EnqueueTask(i, f)
                 \/ state[i] # "IDLE" /\ UNCHANGED <<state, tasks>>
              /\ UNCHANGED <<conns, owner, due, sock>>
        /\ UNCHANGED <<response, clientVars, work>>

\* handleRead in the simulated proactor: a worker reads as well.
HandleReadProactor(f) ==
    LET i == conns[f]
    IN  /\ setup.proactor
        /\ i # NoConnection /\ armed[f] = "in" /\ Readable(i)
        /\ Disarm(f)
        /\ \/ /\ state[i] = "IDLE"
              /\ state' = [state EXCEPT ![i] = "READING"]
              /\ EnqueueTask(i, f)
           \/ state[i] # "IDLE" /\ UNCHANGED <<state, tasks>>
        /\ UNCHANGED <<owner, due, conns, sock, got, response, peerClosed, clientVars, work>>

ResetReadState(i) == got' = [got EXCEPT ![i] = 0]

\* handleWrite.  A connection that is not WRITING is left alone, disarmed.
\* The write fails, fills the send buffer (and waits for EPOLLOUT again) or
\* completes the answer.  keepAlive is what the request asked for.
HandleWrite(f, keepAlive) ==
    LET i == conns[f]
        reuse == keepAlive /\ ~peerClosed[i]
    IN  /\ i # NoConnection /\ armed[f] = "out" /\ Writable(i)
        /\ \/ /\ state[i] # "WRITING"
              /\ Disarm(f)
              /\ UNCHANGED <<owner, due, connVars, clientVars>>
           \/ /\ state[i] = "WRITING" /\ broken[i]
              /\ Close(f, i, "CLOSED")
              /\ UNCHANGED <<got, response, peerClosed, clientVars>>
           \/ /\ state[i] = "WRITING" /\ ~broken[i] /\ outgoing[i] = "unused"
              /\ outgoing' = [outgoing EXCEPT ![i] = "full"]
              /\ UNCHANGED <<kernelVars, connVars, sent, fin, broken, answered>>
           \/ /\ state[i] = "WRITING" /\ ~broken[i]
              /\ outgoing' = [outgoing EXCEPT ![i] = "unused"]
              /\ response' = [response EXCEPT ![i] = FALSE]
              /\ answered' = [answered EXCEPT ![i] = @ + 1]
              /\ sent' = [sent EXCEPT ![i] = 0]
              /\ \/ /\ reuse
                    /\ ResetReadState(i)
                    /\ state' = [state EXCEPT ![i] = "IDLE"]
                    /\ armed' = [armed EXCEPT ![f] = "in"]
                    /\ UNCHANGED <<conns, owner, due, sock>>
                 \/ ~reuse /\ Close(f, i, state[i]) /\ UNCHANGED got
              /\ UNCHANGED <<fin, broken, peerClosed>>
        /\ UNCHANGED taskVars

\* A task of connection i is queued or running.
InTask(i) ==
    \/ \E k \in DOMAIN tasks : tasks[k].id = i
    \/ \E w \in Worker : work[w].id = i

\* No event of f is ready when epoll_wait returns.
Quiet(f) ==
    LET i == conns[f]
    IN  CASE armed[f] = "in"  -> ~Readable(i)
          [] armed[f] = "out" -> ~Writable(i) /\ ~fin[i] /\ ~broken[i]
          [] OTHER -> TRUE

\* The last return of epoll_wait before the timer of f runs out.  A round of
\* the loop is short: with a task in time the timer is refreshed before.
TimerRunsOut(f) ==
    /\ conns[f] # NoConnection /\ ~due[f]
    /\ Quiet(f) /\ (InTask(conns[f]) => setup.slow)
    /\ due' = [due EXCEPT ![f] = TRUE]
    /\ UNCHANGED <<owner, armed, connVars, clientVars, taskVars>>

\* handleExpired at the end of the round calls closeConncl.
Timeout(f) ==
    /\ conns[f] # NoConnection /\ due[f]
    /\ Close(f, conns[f], state[conns[f]])
    /\ UNCHANGED <<got, response, peerClosed, clientVars, taskVars>>

-----------------------------------------------------------------------------
(* The workers.                                                            *)

Step(w, pc) == work' = [work EXCEPT ![w].pc = pc]
Done(w) == work' = [work EXCEPT ![w] = NoTask]

\* getConn(fd) is the same connection, not closed.
Alive(i, f) == conns[f] = i /\ state[i] \notin {"CLOSED", "CLOSING"}

\* A worker takes the next task.  Its weak pointer can be locked as long as
\* the table holds the connection.
TakeTask(w) ==
    /\ work[w].pc = "idle" /\ tasks # <<>>
    /\ tasks' = Tail(tasks)
    /\ LET t == Head(tasks)
       IN  work' = IF conns[t.fd] = t.id
                     THEN [work EXCEPT ![w] = [t EXCEPT !.pc =
                              IF setup.proactor THEN "reading" ELSE "processing"]]
                     ELSE work
    /\ UNCHANGED <<kernelVars, connVars, clientVars>>

\* The proactor's read.  The connection may have been closed meanwhile; a
\* failed read closes the number, not the connection.
WorkerRead(w) ==
    LET i == work[w].id
    IN  /\ work[w].pc = "reading"
        /\ got' = Received(i) /\ peerClosed' = EndSeen(i)
        /\ \/ /\ ~ReadOk(i)
              /\ state' = IF state[i] = "READING" THEN [state EXCEPT ![i] = "CLOSED"] ELSE state
              /\ Step(w, "closing")
           \/ ReadOk(i) /\ Step(w, "read") /\ UNCHANGED state
        /\ UNCHANGED <<kernelVars, conns, sock, response, clientVars, tasks>>

\* READING -> PROCESSING, unless the connection was closed since the read.
StartProcessing(w) ==
    LET i == work[w].id
    IN  /\ work[w].pc = "read"
        /\ \/ /\ state[i] = "READING"
              /\ state' = [state EXCEPT ![i] = "PROCESSING"]
              /\ Step(w, "processing")
           \/ state[i] # "READING" /\ UNCHANGED state /\ Done(w)
        /\ UNCHANGED <<kernelVars, conns, sock, got, response, peerClosed, clientVars, tasks>>

\* closeConncl(fd) in a worker: whatever connection has the number now.
WorkerClose(w) ==
    /\ work[w].pc = "closing"
    /\ LET f == work[w].fd
           i == conns[f]
       IN  \/ i # NoConnection /\ Close(f, i, state[i])
           \/ i = NoConnection /\ UNCHANGED <<kernelVars, conns, state, sock>>
    /\ Done(w)
    /\ UNCHANGED <<got, response, peerClosed, clientVars, tasks>>

\* Faulty variant: the state is not given back after an incomplete request.
ProcessKeepsState(w) ==
    LET i == work[w].id
        f == work[w].fd
        complete == got[i] = 2
    IN  /\ work[w].pc = "processing"
        /\ response' = [response EXCEPT ![i] = complete]
        /\ state' = IF state[i] = "PROCESSING" /\ complete
                      THEN [state EXCEPT ![i] = "WRITING"] ELSE state
        /\ IF Alive(i, f) THEN Step(w, IF complete THEN "armOut" ELSE "armIn") ELSE Done(w)
        /\ UNCHANGED <<kernelVars, conns, sock, got, peerClosed, clientVars, tasks>>

\* process, the state change behind it and the check that the connection is
\* still the one of this number.  An incomplete request goes back to IDLE.
Process(w) ==
    LET i == work[w].id
        f == work[w].fd
        complete == got[i] = 2
        next == IF complete THEN "WRITING" ELSE "IDLE"
        mine == state[i] = "PROCESSING"
        living == conns[f] = i /\ (mine \/ Alive(i, f))
    IN  /\ work[w].pc = "processing"
        /\ response' = [response EXCEPT ![i] = complete]
        /\ state' = IF mine THEN [state EXCEPT ![i] = next] ELSE state
        /\ IF living /\ (mine \/ (complete /\ ~setup.proactor))
             THEN Step(w, IF complete THEN "armOut" ELSE "armIn")
             ELSE Done(w)
        /\ UNCHANGED <<kernelVars, conns, sock, got, peerClosed, clientVars, tasks>>

\* modFd, after the check.
Rearm(w) ==
    /\ work[w].pc \in {"armIn", "armOut"}
    /\ Arm(work[w].fd, IF work[w].pc = "armIn" THEN "in" ELSE "out")
    /\ Done(w)
    /\ UNCHANGED <<owner, due, connVars, clientVars, tasks>>

\* An event on descriptor f; there is none in the round in which its timer
\* runs out.
EventOn(f) ==
    /\ ~due[f]
    /\ \/ HandleError(f) \/ HandleHangUp(f)
       \/ HandleReadReactor(f) \/ HandleReadProactor(f)
       \/ \E k \in BOOLEAN : HandleWrite(f, k)

TimerOn(f) == TimerRunsOut(f) \/ Timeout(f)

ServeTask(w) ==
    \/ TakeTask(w) \/ WorkerRead(w) \/ StartProcessing(w) \/ WorkerClose(w)
    \/ Process(w) \/ Rearm(w)

WebNext ==
    /\ \/ \E f \in Fd : EventOn(f) \/ TimerOn(f)
       \/ \E w \in Worker : ServeTask(w)
       \/ \E i \in Id : \/ ClientSends(i) \/ ClientReads(i) \/ ClientCloses(i)
                        \/ \E f \in Fd : HandleAccept(i, f)
    /\ UNCHANGED setup

\* The event loop serves every descriptor and its timer, the workers run.
\* Clients need not do anything.
WebFairness ==
    /\ \A f \in Fd : WF_runVars(EventOn(f)) /\ WF_runVars(TimerOn(f))
    /\ \A w \in Worker : WF_runVars(ServeTask(w))

WebSpec == WebInit /\ [][WebNext]_webVars /\ WebFairness

-----------------------------------------------------------------------------
(* Properties.                                                             *)

\* Type invariant of the server; the buffer of an open connection holds no
\* more than its client has sent of the current request.
WebTypeOK ==
    /\ owner \in [Fd -> Id \cup {NoConnection}] /\ conns \in [Fd -> Id \cup {NoConnection}]
    /\ armed \in [Fd -> {"none", "off", "in", "out"}] /\ due \in [Fd -> BOOLEAN]
    /\ state \in [Id -> {"unborn", "IDLE", "READING", "PROCESSING", "WRITING", "CLOSING",
                         "CLOSED"}]
    /\ sock \in [Id -> Fd \cup {NoFd}]
    /\ got \in [Id -> 0..2] /\ sent \in [Id -> 0..2]
    /\ \A i \in Id : Open(i) => got[i] <= sent[i]
    /\ \A w \in Worker : work[w].pc # "idle" => work[w].id \in Id /\ work[w].fd \in Fd

\* A number in the connection table is the live socket of that connection:
\* nothing is read from or written to a socket that another connection has
\* inherited, although numbers are reused and several threads close.
TableMatchesSockets ==
    \A f \in Fd : conns[f] # NoConnection => owner[f] = conns[f] /\ sock[conns[f]] = f

\* The read buffer has one user: no read event can come in while a task of
\* the connection reads or parses it (parse takes no lock), as long as tasks
\* are faster than the idle timeout.
BufferHasOneUser ==
    \A f \in Fd : (~setup.slow /\ conns[f] # NoConnection /\ armed[f] = "in") =>
        /\ \A k \in DOMAIN tasks : tasks[k].id # conns[f]
        /\ \A w \in Worker :
              work[w].id = conns[f] => work[w].pc \notin {"reading", "read", "processing"}

\* A request that has arrived completely before the idle timeout is answered,
\* unless the client breaks off, or leaves a full send buffer unread and closes
\* its side or lets the timeout pass: no event of an EPOLLONESHOT descriptor is
\* lost between the loop and the workers, an incomplete request is taken up
\* again, and the timer hits nobody who waits for the server (as long as no
\* timer runs out on a connection with a task).
RequestsAnswered ==
    \A i \in Id :
        (~setup.slow /\ Open(i) /\ sent[i] = 2 /\ ~due[sock[i]])
          ~> \/ sent[i] # 2 \/ broken[i]
             \/ outgoing[i] = "full" /\ (fin[i] \/ (Open(i) /\ due[sock[i]]))

-----------------------------------------------------------------------------
(* Statements of the source that the code does not keep.                   *)

\* The connection id "guards against the reuse of descriptors" (BaseConn.h):
\* only a connection that has a response is armed for writing.
ArmedForOwnConnection ==
    \A f \in Fd : (conns[f] # NoConnection /\ armed[f] = "out") => response[conns[f]]

\* The same in the proactor: a worker that gives up closes its own
\* connection or none.
WorkersCloseTheirOwn ==
    \A w \in Worker : work[w].pc = "closing" => conns[work[w].fd] \in {NoConnection, work[w].id}

\* A client "may half-close its side after a complete request"; the HTTP layer
\* shall "finish parsing and answering" it (TcpConn::read): an answer that is
\* being written is not cut off while the client is there and in time.
HalfClosedAnswered ==
    [][\A i \in Id :
         (state[i] = "WRITING" /\ Open(i) /\ ~broken[i] /\ ~due[sock[i]] /\ ~Open(i)')
           => answered'[i] = answered[i] + 1]_webVars

\* closeConn "closes the socket" (TcpConn.h): a socket that is open belongs
\* to a connection that the server still knows.
NoLeakedSockets == \A f \in Fd : owner[f] # NoConnection => conns[f] = owner[f]

\* TimerManager "manages the idle timeouts of connections": a connection
\* whose client has closed its side is closed in the end.
ClosedClientsDropped == \A i \in Id : (Open(i) /\ fin[i]) ~> ~Open(i)
=============================================================================
