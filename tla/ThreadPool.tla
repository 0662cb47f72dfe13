------------------------------- MODULE ThreadPool -------------------------------
(***************************************************************************)
(* The thread pool of the web server (ThreadPool.cpp, ThreadPool.h): a     *)
(* FIFO queue under a mutex, a condition variable the workers sleep on,    *)
(* and an orderly shutdown by the thread that feeds the pool.              *)
(*                                                                         *)
(* Tasks are numbered in the order they are enqueued; the queue holds      *)
(* dequeued + 1 to queued.  The mutex is given up between the change of    *)
(* the queue and the notification, so these are two steps.  A worker tests *)
(* its condition and falls asleep in one step, because wait does both      *)
(* under the mutex.                                                        *)
(***************************************************************************)
EXTENDS Naturals

CONSTANTS
    PoolWorker,
    MaxTask      \* bound on tasks

ASSUME ThreadPoolAssumptions == PoolWorker # {} /\ MaxTask \in Nat

VARIABLES
    doing,         \* of each worker: ready (about to test), asleep, running, ended
    task,       \* the task it runs, 0 for none
    queued, dequeued,
    ran,        \* the tasks that have been run
    stop,
    feeder       \* the feeding thread: serving, notifying, stopping, joining, joined

threadPoolVars == <<doing, task, queued, dequeued, ran, stop, feeder>>

ThreadPoolInit ==
    /\ doing = [w \in PoolWorker |-> "ready"] /\ task = [w \in PoolWorker |-> 0]
    /\ queued = 0 /\ dequeued = 0 /\ ran = {}
    /\ stop = FALSE /\ feeder = "serving"

Sleepers == {w \in PoolWorker : doing[w] = "asleep"}

-----------------------------------------------------------------------------
(* The feeding thread.                                                     *)

Enqueue ==
    /\ feeder = "serving" /\ ~stop /\ queued < MaxTask
    /\ queued' = queued + 1
    /\ feeder' = "notifying"
    /\ UNCHANGED <<doing, task, dequeued, ran, stop>>

\* Faulty variant: no notification.
EnqueueSilently ==
    /\ feeder = "notifying"
    /\ feeder' = "serving"
    /\ UNCHANGED <<doing, task, queued, dequeued, ran, stop>>

\* notify_one wakes one of the sleepers, if there is one.
NotifyOne ==
    /\ feeder = "notifying"
    /\ feeder' = "serving"
    /\ \/ Sleepers = {} /\ UNCHANGED doing
       \/ \E w \in Sleepers : doing' = [doing EXCEPT ![w] = "ready"]
    /\ UNCHANGED <<task, queued, dequeued, ran, stop>>

Shutdown ==
    /\ feeder = "serving" /\ ~stop
    /\ stop' = TRUE
    /\ feeder' = "stopping"
    /\ UNCHANGED <<doing, task, queued, dequeued, ran>>

\* Faulty variant: only one sleeper learns of the shutdown.
NotifyOneOnStop ==
    /\ feeder = "stopping"
    /\ feeder' = "joining"
    /\ \/ Sleepers = {} /\ UNCHANGED doing
       \/ \E w \in Sleepers : doing' = [doing EXCEPT ![w] = "ready"]
    /\ UNCHANGED <<task, queued, dequeued, ran, stop>>

NotifyAll ==
    /\ feeder = "stopping"
    /\ feeder' = "joining"
    /\ doing' = [w \in PoolWorker |-> IF doing[w] = "asleep" THEN "ready" ELSE doing[w]]
    /\ UNCHANGED <<task, queued, dequeued, ran, stop>>

Join ==
    /\ feeder = "joining"
    /\ \A w \in PoolWorker : doing[w] = "ended"
    /\ feeder' = "joined"
    /\ UNCHANGED <<doing, task, queued, dequeued, ran, stop>>

-----------------------------------------------------------------------------
(* A worker.                                                               *)

Sleep(w) ==
    /\ doing[w] = "ready" /\ ~stop /\ dequeued = queued
    /\ doing' = [doing EXCEPT ![w] = "asleep"]
    /\ UNCHANGED <<task, queued, dequeued, ran, stop, feeder>>

End(w) ==
    /\ doing[w] = "ready" /\ stop /\ dequeued = queued
    /\ doing' = [doing EXCEPT ![w] = "ended"]
    /\ UNCHANGED <<task, queued, dequeued, ran, stop, feeder>>

Take(w) ==
    /\ doing[w] = "ready" /\ dequeued < queued
    /\ task' = [task EXCEPT ![w] = dequeued + 1]
    /\ dequeued' = dequeued + 1
    /\ doing' = [doing EXCEPT ![w] = "running"]
    /\ UNCHANGED <<queued, ran, stop, feeder>>

Run(w) ==
    /\ doing[w] = "running"
    /\ ran' = ran \cup {task[w]}
    /\ task' = [task EXCEPT ![w] = 0]
    /\ doing' = [doing EXCEPT ![w] = "ready"]
    /\ UNCHANGED <<queued, dequeued, stop, feeder>>

WorkerStep(w) == Sleep(w) \/ End(w) \/ Take(w) \/ Run(w)
FeederStep == NotifyOne \/ NotifyAll \/ Join

ThreadPoolNext ==
    \/ Enqueue \/ Shutdown \/ FeederStep
    \/ \E w \in PoolWorker : WorkerStep(w)

\* The threads run and tasks end; nobody has to enqueue or to shut down.
ThreadPoolFairness ==
    /\ WF_threadPoolVars(FeederStep)
    /\ \A w \in PoolWorker : WF_threadPoolVars(WorkerStep(w))

ThreadPoolSpec == ThreadPoolInit /\ [][ThreadPoolNext]_threadPoolVars /\ ThreadPoolFairness

-----------------------------------------------------------------------------
(* Properties.                                                             *)

\* Type invariant of the pool: a worker has a task exactly while it runs.
ThreadPoolTypeOK ==
    /\ doing \in [PoolWorker -> {"ready", "asleep", "running", "ended"}]
    /\ task \in [PoolWorker -> Nat]
    /\ \A w \in PoolWorker : task[w] # 0 <=> doing[w] = "running"
    /\ queued \in Nat /\ dequeued \in Nat /\ dequeued <= queued
    /\ ran \subseteq 1..queued /\ stop \in BOOLEAN
    /\ feeder \in {"serving", "notifying", "stopping", "joining", "joined"}

\* Every task is run, also when workers fall asleep or the pool is shut down
\* while it is being enqueued.
TasksAreRun == (ran # 1..queued) ~> (ran = 1..queued)

\* A shutdown comes to its end: no worker sleeps through it.
ShutdownEnds == stop ~> (feeder = "joined")
=============================================================================
