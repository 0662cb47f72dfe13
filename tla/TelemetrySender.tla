---------------------------- MODULE TelemetrySender ----------------------------
(***************************************************************************)
(* The sending thread of the mod (TelemetrySender.cs).  Telemetry is       *)
(* coalesced, the newest payload wins; control events (ACK, cleared) are   *)
(* queued one by one, and one that fails goes back to the head.            *)
(*                                                                         *)
(* Control events and payloads are numbered in the order the game thread   *)
(* creates them.  All upload paths are treated alike, so one is modelled.  *)
(* An HTTP request is answered (any HTTP status, 4xx included, is final),  *)
(* or given up after a timeout of 2 seconds or an error.  A request that   *)
(* was given up may still be on its way, in the task queue of the server   *)
(* or behind its mutex, and be processed at any later time, also after its *)
(* repetition, or never.  Stop waits at most 2.5 seconds for the thread,   *)
(* while one round of the loop may take several timeouts and a backoff of  *)
(* up to 5 seconds, so the wait may end with the thread alive.             *)
(***************************************************************************)
EXTENDS Naturals, Sequences

CONSTANTS
    SenderThread,        \* one thread for every call of Start
    NoThread,
    MaxPost,       \* bound on control events
    MaxSample,     \* bound on telemetry payloads
    MaxGivenUp     \* bound on requests that are given up

ASSUME SenderAssumptions ==
    /\ NoThread \notin SenderThread
    /\ MaxPost \in Nat /\ MaxSample \in Nat /\ MaxGivenUp \in Nat

VARIABLES
    running, worker,   \* the fields of that name
    queue,             \* PendingControlPosts
    latest,            \* LatestPayloadByPath: the newest payload, 0 for none
    signal,            \* PayloadReady is set (an AutoResetEvent)
    round,             \* where each thread is in its round of WorkerLoop
    taken, payload,    \* what it has taken from the queue and the table; 0 for nothing
    joining,           \* the thread Stop waits for
    posted, sampled,   \* control events and payloads created so far
    handled,           \* the control events the server has processed
    abandoned,         \* requests given up that the server may yet process
    sessionStart,      \* the number of control events of earlier sessions
    alone,             \* no thread of an earlier session was left at the last Start
    givenUp            \* number of requests given up

senderThreadVars == <<signal, round, taken, payload>>
queueVars == <<running, worker, queue, latest, joining>>
postVars == <<posted, sampled, sessionStart, alone>>
networkVars == <<handled, abandoned, givenUp>>
senderVars == <<senderThreadVars, queueVars, postVars, networkVars>>

SenderInit ==
    /\ running = FALSE /\ worker = NoThread /\ joining = NoThread
    /\ queue = <<>> /\ latest = 0 /\ signal = FALSE
    /\ round = [w \in SenderThread |-> "unborn"]
    /\ taken = [w \in SenderThread |-> 0] /\ payload = [w \in SenderThread |-> 0]
    /\ posted = 0 /\ sampled = 0 /\ sessionStart = 0 /\ alone = TRUE
    /\ handled = {} /\ abandoned = {} /\ givenUp = 0

-----------------------------------------------------------------------------
(* The game thread.  It does nothing else while Stop waits for the worker. *)

Living(w) == round[w] \notin {"unborn", "ended"}

StartSender(w) ==
    /\ joining = NoThread /\ ~running
    /\ round[w] = "unborn"
    /\ running' = TRUE /\ worker' = w
    /\ queue' = <<>> /\ latest' = 0
    /\ round' = [round EXCEPT ![w] = "waiting"]
    /\ sessionStart' = posted /\ alone' = (\A v \in SenderThread : ~Living(v))
    /\ UNCHANGED <<signal, taken, payload, joining, posted, sampled, networkVars>>

EnqueueControlPost ==
    /\ joining = NoThread /\ running
    /\ posted < MaxPost
    /\ posted' = posted + 1
    /\ queue' = Append(queue, posted + 1)
    /\ signal' = TRUE
    /\ UNCHANGED <<round, taken, payload, running, worker, latest, joining, sampled,
                   sessionStart, alone, networkVars>>

EnqueueJson ==
    /\ joining = NoThread /\ running
    /\ sampled < MaxSample
    /\ sampled' = sampled + 1
    /\ latest' = sampled + 1
    /\ signal' = TRUE
    /\ UNCHANGED <<round, taken, payload, running, worker, queue, joining, posted,
                   sessionStart, alone, networkVars>>

Stop ==
    /\ joining = NoThread /\ running
    /\ running' = FALSE
    /\ queue' = <<>> /\ latest' = 0
    /\ joining' = worker /\ worker' = NoThread
    /\ signal' = TRUE
    /\ UNCHANGED <<round, taken, payload, postVars, networkVars>>

\* Join(2500) returns: the thread has ended, or the time is over.
Joined ==
    /\ joining # NoThread
    /\ joining' = NoThread
    /\ UNCHANGED <<senderThreadVars, running, worker, queue, latest, postVars, networkVars>>

-----------------------------------------------------------------------------
(* WorkerLoop.                                                             *)

\* WaitOne: one waiting thread consumes the signal.
Wake(w) ==
    /\ round[w] = "waiting" /\ signal
    /\ signal' = FALSE
    /\ round' = [round EXCEPT ![w] = "woken"]
    /\ UNCHANGED <<taken, payload, queueVars, postVars, networkVars>>

EndThread(w) ==
    /\ round[w] = "woken" /\ ~running
    /\ round' = [round EXCEPT ![w] = "ended"]
    /\ UNCHANGED <<signal, taken, payload, queueVars, postVars, networkVars>>

\* The newest payload and the head of the queue, if there are any.
TakeWork(w) ==
    /\ round[w] = "woken" /\ running
    /\ payload' = [payload EXCEPT ![w] = latest]
    /\ latest' = 0
    /\ taken' = [taken EXCEPT ![w] = IF queue = <<>> THEN 0 ELSE Head(queue)]
    /\ queue' = IF queue = <<>> THEN <<>> ELSE Tail(queue)
    /\ round' = [round EXCEPT ![w] = "uploading"]
    /\ UNCHANGED <<signal, running, worker, joining, postVars, networkVars>>

\* The payload is sent once, whether or not that works.
Upload(w) ==
    /\ round[w] = "uploading"
    /\ payload' = [payload EXCEPT ![w] = 0]
    /\ round' = [round EXCEPT ![w] = IF taken[w] = 0 THEN "waiting" ELSE "sending"]
    /\ UNCHANGED <<signal, taken, queueVars, postVars, networkVars>>

\* The server processes control event e, for the first time or again.
Processed(e) == handled' = handled \cup {e}

\* Faulty variant: the thread goes back to wait without signalling itself.
SendAndWait(w) ==
    /\ round[w] = "sending"
    /\ Processed(taken[w])
    /\ taken' = [taken EXCEPT ![w] = 0]
    /\ round' = [round EXCEPT ![w] = "waiting"]
    /\ UNCHANGED <<signal, payload, queueVars, postVars, abandoned, givenUp>>

\* SendControlPost is answered; the next round is started at once.
SendControlPost(w) ==
    /\ round[w] = "sending"
    /\ Processed(taken[w])
    /\ taken' = [taken EXCEPT ![w] = 0]
    /\ signal' = TRUE
    /\ round' = [round EXCEPT ![w] = "waiting"]
    /\ UNCHANGED <<payload, queueVars, postVars, abandoned, givenUp>>

\* No answer within the timeout, or no connection: the request is given up.
SendFails(w) ==
    /\ round[w] = "sending"
    /\ givenUp < MaxGivenUp /\ givenUp' = givenUp + 1
    /\ abandoned' = abandoned \cup {[event |-> taken[w], attempt |-> givenUp]}
    /\ round' = [round EXCEPT ![w] = "failed"]
    /\ UNCHANGED <<signal, taken, payload, queueVars, postVars, handled>>

\* The server gets to a request that was given up, be it before the failure
\* is dealt with or long after.
ProcessAbandoned(r) ==
    /\ r \in abandoned
    /\ Processed(r.event)
    /\ abandoned' = abandoned \ {r}
    /\ UNCHANGED <<senderThreadVars, queueVars, postVars, givenUp>>

\* Faulty variant: a failed event goes to the end of the queue.
RetryLast(w) ==
    /\ round[w] = "failed"
    /\ \/ running /\ queue' = Append(queue, taken[w]) /\ round' = [round EXCEPT ![w] = "backoff"]
             /\ UNCHANGED signal
       \/ ~running /\ UNCHANGED queue /\ signal' = TRUE /\ round' = [round EXCEPT ![w] = "waiting"]
    /\ taken' = [taken EXCEPT ![w] = 0]
    /\ UNCHANGED <<payload, running, worker, latest, joining, postVars, networkVars>>

\* Back to the head of the queue; dropped when the sender has been stopped.
RetryControlPost(w) ==
    /\ round[w] = "failed"
    /\ \/ running /\ queue' = <<taken[w]>> \o queue /\ round' = [round EXCEPT ![w] = "backoff"]
             /\ UNCHANGED signal
       \/ ~running /\ UNCHANGED queue /\ signal' = TRUE /\ round' = [round EXCEPT ![w] = "waiting"]
    /\ taken' = [taken EXCEPT ![w] = 0]
    /\ UNCHANGED <<payload, running, worker, latest, joining, postVars, networkVars>>

\* The sleep is over.
Backoff(w) ==
    /\ round[w] = "backoff"
    /\ signal' = TRUE
    /\ round' = [round EXCEPT ![w] = "waiting"]
    /\ UNCHANGED <<taken, payload, queueVars, postVars, networkVars>>

WorkerLoop(w) ==
    \/ Wake(w) \/ EndThread(w) \/ TakeWork(w) \/ Upload(w)
    \/ SendControlPost(w) \/ RetryControlPost(w) \/ Backoff(w)

SenderNext ==
    \/ EnqueueControlPost \/ EnqueueJson \/ Stop \/ Joined
    \/ \E w \in SenderThread : StartSender(w) \/ WorkerLoop(w) \/ SendFails(w)
    \/ \E r \in abandoned : ProcessAbandoned(r)

\* The threads run; a request that is not given up is answered.  Nothing
\* says that a request that was given up is ever processed.
SenderFairness == \A w \in SenderThread : WF_senderVars(WorkerLoop(w))

SenderSpec == SenderInit /\ [][SenderNext]_senderVars /\ SenderFairness

-----------------------------------------------------------------------------
(* Properties.                                                             *)

\* Type invariant of the sender: a thread sends or retries exactly when it
\* has a control event in its hands.
SenderTypeOK ==
    /\ running \in BOOLEAN /\ signal \in BOOLEAN
    /\ worker \in SenderThread \cup {NoThread} /\ joining \in SenderThread \cup {NoThread}
    /\ queue \in Seq(Nat) /\ latest \in Nat
    /\ round \in [SenderThread -> {"unborn", "waiting", "woken", "uploading", "sending", "failed",
                          "backoff", "ended"}]
    /\ taken \in [SenderThread -> Nat] /\ payload \in [SenderThread -> Nat]
    /\ posted \in Nat /\ sampled \in Nat /\ sessionStart \in Nat /\ alone \in BOOLEAN
    /\ handled \subseteq Nat /\ abandoned \subseteq [event : Nat, attempt : Nat]
    /\ givenUp \in Nat
    /\ \A w \in SenderThread :
        /\ round[w] \in {"sending", "failed"} => taken[w] # 0
        /\ taken[w] # 0 => round[w] \in {"uploading", "sending", "failed"}

\* The control events that were queued before e in its session.
Before(e) == (sessionStart + 1)..(e - 1)

\* Nothing reaches the server ahead of an earlier event of its session: when
\* a cleared report is processed for the first time, the ACK before it has been,
\* although requests are given up, repeated and processed late in any order
\* (WorkerLoop takes the next event only after an answer, RetryControlPost
\* puts a failed one back to the head).  It takes one sending thread: the
\* last Start has found no thread of an earlier session.
ControlInOrder ==
    [][alone => \A e \in handled' \ handled : Before(e) \subseteq handled]_senderVars

\* Every control event of a session reaches the server, or the sender is
\* stopped: PayloadReady remembers one Set only, and neither an enqueue
\* during a request nor a failed one may leave the queue without a thread.
ControlEventsArrive ==
    LET arrived == (sessionStart + 1)..posted \subseteq handled
    IN  (running /\ ~arrived) ~> (arrived \/ ~running)

-----------------------------------------------------------------------------
(* Statements of the source that the code does not keep.                   *)

\* "A cleared report behind an ACK that has not succeeded does not pass it
\* on its way to the server" (WorkerLoop), whatever was before the session.
SessionInOrder ==
    [][\A e \in handled' \ handled : Before(e) \subseteq handled]_senderVars

\* "The entry ACK must come before the cleared report" (RetryControlPost):
\* no repetition of an event is processed after a later event.
RepetitionsInOrder ==
    [][\A r \in abandoned \ abandoned' : \A e \in handled : e <= r.event]_senderVars
=============================================================================
