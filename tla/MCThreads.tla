------------------------------ MODULE MCThreads ------------------------------
(***************************************************************************)
(* The parts of the server in which something must happen in the end while *)
(* threads wait for one another: connections and event loop, thread pool,  *)
(* logger and the requests at the train monitor.  They share no state      *)
(* here, so a behaviour of this run exercises one of them and leaves the   *)
(* others alone.                                                           *)
(*                                                                         *)
(* The connections: one descriptor that is used again while tasks of its   *)
(* last owner are on their way, and two descriptors at a time with tasks   *)
(* in time, in both modes.                                                 *)
(***************************************************************************)
EXTENDS WebServer, ThreadPool, Logger, TrainMonitor

CONSTANTS f1, f2

MCSetup ==
    {[proactor |-> p, slow |-> TRUE, fds |-> {f1}, requests |-> 1] : p \in BOOLEAN}
    \cup {[proactor |-> TRUE, slow |-> FALSE, fds |-> {f1, f2}, requests |-> 1],
          [proactor |-> FALSE, slow |-> FALSE, fds |-> {f1, f2}, requests |-> 1],
          [proactor |-> FALSE, slow |-> FALSE, fds |-> {f1}, requests |-> 2]}

VARIABLE part

threadsVars == <<part, webVars, threadPoolVars, loggerVars, monitorVars>>

\* The setting of a part does not matter while it is left alone.
AnySettings ==
    /\ part # "logger" => async = TRUE
    /\ part # "web" => setup = CHOOSE s \in Setup : TRUE

ThreadsInit ==
    /\ part \in {"web", "pool", "logger", "monitor"}
    /\ WebInit /\ ThreadPoolInit /\ LoggerInit /\ MonitorInit
    /\ AnySettings

ThreadsNext ==
    /\ \/ part = "web" /\ WebNext /\ UNCHANGED <<threadPoolVars, loggerVars, monitorVars>>
       \/ part = "pool" /\ ThreadPoolNext /\ UNCHANGED <<webVars, loggerVars, monitorVars>>
       \/ part = "logger" /\ LoggerNext /\ UNCHANGED <<webVars, threadPoolVars, monitorVars>>
       \/ part = "monitor" /\ MonitorNext /\ UNCHANGED <<webVars, threadPoolVars, loggerVars>>
    /\ UNCHANGED part

\* The fairness of each part, while it is the one that is exercised (the
\* connections have nothing to do before the first client comes).
ThreadsFairness ==
    /\ WebFairness
    /\ WF_threadPoolVars(part = "pool" /\ FeederStep)
    /\ \A w \in PoolWorker : WF_threadPoolVars(part = "pool" /\ WorkerStep(w))
    /\ WF_loggerVars(part = "logger" /\ AsyncWrite)
    /\ WF_loggerVars(part = "logger" /\ NotifyWriter)
    /\ WF_loggerVars(part = "logger" /\ JoinWriter)
    /\ WF_monitorVars(part = "monitor" /\ Tick)
    /\ WF_monitorVars(part = "monitor" /\ Arrive({}))
    /\ WF_monitorVars(part = "monitor" /\ \E q \in inflight : Execute(q))

ThreadsSpec == ThreadsInit /\ [][ThreadsNext]_threadsVars /\ ThreadsFairness
=============================================================================
