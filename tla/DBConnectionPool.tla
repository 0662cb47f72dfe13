--------------------------- MODULE DBConnectionPool ---------------------------
(***************************************************************************)
(* The pool of MySQL connections (DBConnectionPool.cpp) and the threads    *)
(* that borrow from it.  Waiting on the condition variable is modelled     *)
(* with its wake-ups: a thread that sleeps moves only when it is notified. *)
(* The check of a returned connection and the opening of a replacement run *)
(* outside the mutex and are steps of their own.                           *)
(*                                                                         *)
(* External: the database can be unreachable, which ends every session,    *)
(* and a single session can be ended by the server.                        *)
(***************************************************************************)
EXTENDS Integers, Sequences, FiniteSets, SequencesExt

CONSTANTS
    Thread,
    Conn,       \* handles; more than can be open at once
    NoConn,
    MaxConn     \* max_conn

ASSUME PoolAssumptions ==
    /\ NoConn \notin Conn /\ IsFiniteSet(Conn) /\ IsFiniteSet(Thread)
    /\ MaxConn \in 1..Cardinality(Conn)

VARIABLES
    up,           \* the database can be reached
    open, dead,   \* connections not closed yet; those whose session is lost
    initialized, connQueue, curConn,
    stage, conn,     \* each thread and the connection it has
    healthy       \* what its last mysql_ping said

poolVars == <<initialized, connQueue, curConn>>
dbVars == <<up, open, dead>>
borrowerVars == <<stage, conn, healthy>>
dbPoolVars == <<poolVars, dbVars, borrowerVars>>

PoolInit ==
    /\ up = TRUE /\ open = {} /\ dead = {}
    /\ initialized = FALSE /\ connQueue = <<>> /\ curConn = 0
    /\ stage = [t \in Thread |-> "idle"]
    /\ conn = [t \in Thread |-> NoConn]
    /\ healthy = [t \in Thread |-> FALSE]

Asleep == {t \in Thread : stage[t] = "asleep"}

-----------------------------------------------------------------------------
(* The database.                                                           *)

DatabaseDown == up /\ up' = FALSE /\ dead' = open /\ UNCHANGED <<open, poolVars, borrowerVars>>
DatabaseUp == ~up /\ up' = TRUE /\ UNCHANGED <<open, dead, poolVars, borrowerVars>>
SessionLost(c) ==
    /\ c \in open \ dead
    /\ dead' = dead \cup {c}
    /\ UNCHANGED <<up, open, poolVars, borrowerVars>>

\* Faulty variant: the handle is dropped without mysql_close.
ForgetHandle(C) == UNCHANGED <<open, dead>>

MysqlClose(C) == open' = open \ C /\ dead' = dead \ C

-----------------------------------------------------------------------------
(* The pool.                                                               *)

\* init, called before the threads use the pool; when one connection cannot
\* be opened those opened before are closed again and nothing has changed.
InitPool ==
    /\ ~initialized /\ up /\ open = {} /\ \A t \in Thread : stage[t] = "idle"
    /\ \E q \in [1..MaxConn -> Conn] :
           /\ IsInjective(q)
           /\ connQueue' = q
           /\ open' = Range(q)
    /\ curConn' = MaxConn /\ initialized' = TRUE
    /\ UNCHANGED <<up, dead, borrowerVars>>

\* getConnection: the predicate of the wait is evaluated under the mutex.
GetConnection(t) ==
    /\ stage[t] \in {"idle", "woken"}
    /\ \/ /\ connQueue = <<>> /\ initialized
          /\ stage' = [stage EXCEPT ![t] = "asleep"]
          /\ UNCHANGED <<connQueue, conn>>
       \/ /\ ~initialized
          /\ stage' = [stage EXCEPT ![t] = "idle"]
          /\ UNCHANGED <<connQueue, conn>>
       \/ /\ initialized /\ connQueue # <<>>
          /\ conn' = [conn EXCEPT ![t] = Head(connQueue)]
          /\ connQueue' = Tail(connQueue)
          /\ stage' = [stage EXCEPT ![t] = "using"]
    /\ UNCHANGED <<initialized, curConn, dbVars, healthy>>

\* Thread t becomes to, and notify_one wakes one sleeper.
NotifyOneThread(t, to) ==
    IF Asleep = {} THEN stage' = [stage EXCEPT ![t] = to]
    ELSE \E s \in Asleep : stage' = [stage EXCEPT ![t] = to, ![s] = "woken"]

\* Faulty variant: nobody is told.
PushSilently(t, c) ==
    /\ connQueue' = Append(connQueue, c)
    /\ stage' = [stage EXCEPT ![t] = "idle"]

\* A connection goes into the queue.
PushConnection(t, c) ==
    /\ connQueue' = Append(connQueue, c)
    /\ NotifyOneThread(t, "idle")

DropCount == curConn' = IF curConn > 0 THEN curConn - 1 ELSE 0

\* releaseConnection up to the mutex: rollback, autocommit, ping.
PingReturned(t) ==
    /\ stage[t] = "using"
    /\ healthy' = [healthy EXCEPT ![t] = conn[t] \notin dead]
    /\ stage' = [stage EXCEPT ![t] = "pinged"]
    /\ UNCHANGED <<poolVars, dbVars, conn>>

ReleaseConnection(t) ==
    /\ stage[t] = "pinged"
    /\ conn' = [conn EXCEPT ![t] = NoConn]
    /\ \/ /\ ~initialized
          /\ MysqlClose({conn[t]}) /\ DropCount
          /\ stage' = [stage EXCEPT ![t] = "idle"]
          /\ UNCHANGED connQueue
       \/ /\ initialized /\ healthy[t]
          /\ PushConnection(t, conn[t])
          /\ UNCHANGED <<open, dead, curConn>>
       \/ /\ initialized /\ ~healthy[t]
          /\ MysqlClose({conn[t]}) /\ DropCount
          /\ stage' = [stage EXCEPT ![t] = "replacing"]
          /\ UNCHANGED connQueue
    /\ UNCHANGED <<up, initialized, healthy>>

\* createConnection for the replacement: a single attempt.
CreateConnection(t) ==
    /\ stage[t] = "replacing"
    /\ \/ /\ ~up
          /\ stage' = [stage EXCEPT ![t] = "idle"]
          /\ UNCHANGED <<open, conn>>
       \/ /\ up
          /\ \E c \in Conn \ open :
                 open' = open \cup {c} /\ conn' = [conn EXCEPT ![t] = c]
          /\ stage' = [stage EXCEPT ![t] = "replaced"]
    /\ UNCHANGED <<up, dead, poolVars, healthy>>

PushReplacement(t) ==
    /\ stage[t] = "replaced"
    /\ conn' = [conn EXCEPT ![t] = NoConn]
    /\ \/ /\ initialized
          /\ PushConnection(t, conn[t])
          /\ curConn' = curConn + 1
          /\ UNCHANGED <<open, dead>>
       \/ /\ ~initialized
          /\ MysqlClose({conn[t]})
          /\ stage' = [stage EXCEPT ![t] = "idle"]
          /\ UNCHANGED <<connQueue, curConn>>
    /\ UNCHANGED <<up, initialized, healthy>>

NotifyAllThreads == stage' = [t \in Thread |-> IF stage[t] = "asleep" THEN "woken" ELSE stage[t]]

DestroyPool ==
    /\ initialized
    /\ initialized' = FALSE
    /\ MysqlClose(Range(connQueue))
    /\ connQueue' = <<>> /\ curConn' = 0
    /\ NotifyAllThreads
    /\ UNCHANGED <<up, conn, healthy>>

ThreadStep(t) ==
    \/ PingReturned(t) \/ ReleaseConnection(t) \/ CreateConnection(t) \/ PushReplacement(t)
    \/ stage[t] = "woken" /\ GetConnection(t)

PoolNext ==
    \/ DatabaseDown \/ DatabaseUp \/ \E c \in Conn : SessionLost(c)
    \/ InitPool \/ DestroyPool
    \/ \E t \in Thread : GetConnection(t) \/ ThreadStep(t)

\* Threads that have begun an operation go on with it.
PoolFairness == \A t \in Thread : WF_dbPoolVars(ThreadStep(t))

PoolSpec == PoolInit /\ [][PoolNext]_dbPoolVars /\ PoolFairness

-----------------------------------------------------------------------------
(* Properties.                                                             *)

\* Type invariant of the pool.
PoolTypeOK ==
    /\ up \in BOOLEAN /\ initialized \in BOOLEAN
    /\ open \subseteq Conn /\ dead \subseteq open
    /\ Range(connQueue) \subseteq Conn
    /\ curConn \in 0..MaxConn
    /\ stage \in [Thread -> {"idle", "asleep", "woken", "using", "pinged", "replacing",
                             "replaced"}]
    /\ conn \in [Thread -> Conn \cup {NoConn}]
    /\ healthy \in [Thread -> BOOLEAN]

\* An open connection is in exactly one place, in the queue once or with one
\* thread, and nothing else is there: no connection is leaked, shared by two
\* threads or used after mysql_close, whatever fails or stops in between.
\* curConn counts them, except one that is being replaced.
ConnectionsConserved ==
    LET held == {t \in Thread : conn[t] # NoConn}
    IN  /\ IsInjective(connQueue)
        /\ \A s, t \in held : conn[s] = conn[t] => s = t
        /\ \A t \in held : conn[t] \notin Range(connQueue)
        /\ open = Range(connQueue) \cup {conn[t] : t \in held}
        /\ initialized => curConn = Len(connQueue)
               + Cardinality({t \in Thread : stage[t] \in {"using", "pinged"}})

\* No wake-up is lost: while somebody sleeps, a thread that has been woken is
\* on its way to every connection in the queue, and nobody sleeps on a pool
\* that was stopped.
NoLostWakeup ==
    Asleep # {} => /\ initialized
                   /\ Len(connQueue) <= Cardinality({t \in Thread : stage[t] = "woken"})

-----------------------------------------------------------------------------
(* A statement of the source that the code does not keep.                  *)

\* "A dead connection is closed and replaced when it is given back": with
\* the database in reach a waiting thread gets a connection in the end.
WaitersServed ==
    \A t \in Thread : (stage[t] = "asleep" /\ up) ~> (stage[t] # "asleep" \/ ~up)
=============================================================================
