----------------------------- MODULE TimerManager -----------------------------
(***************************************************************************)
(* Idle timeouts of connections (TimerManager.cpp, used by the event loop  *)
(* of WebServer.cpp).  The heap keeps old nodes: add pushes a new node and *)
(* only idMap_ says which node of a descriptor is the valid one.           *)
(* closeConncl does not call remove, so the node of a closed connection    *)
(* is still valid when the kernel gives the descriptor to the next one.    *)
(*                                                                         *)
(* One turn of WebServer::start handles events, then runs handleExpired    *)
(* with the time it began at; no event is handled between two iterations   *)
(* of its loop, but time passes.  Every timer has the same length, the     *)
(* server's TIMEOUT_MS.  In the reactor all calls come from this thread.   *)
(***************************************************************************)
EXTENDS Naturals, FiniteSets

CONSTANTS
    Fd,
    Timeout,    \* TIMEOUT_MS
    MaxTime,    \* bound on the clock
    MaxTimer    \* bound on idGen_

ASSUME TimerAssumptions ==
    /\ Timeout \in Nat \ {0} /\ MaxTime \in Nat /\ MaxTimer \in Nat

NoTimer == 0
Closed == 0

VARIABLES
    now,       \* the monotonic clock
    heap,      \* heap_: nodes [fd, id, expire]
    idMap,     \* idMap_, NoTimer where there is no entry
    idGen,     \* idGen_
    expiring,  \* handleExpired is running
    nowTime,   \* now_time of handleExpired
    active     \* 1 + the time of the last activity of the open connection
               \* of each descriptor, Closed if there is none

timerVars == <<now, heap, idMap, idGen, expiring, nowTime, active>>

Node == [fd : Fd, id : 1..MaxTimer, expire : Nat]

TimerInit ==
    /\ now = 0 /\ nowTime = 0 /\ expiring = FALSE
    /\ heap = {} /\ idGen = 0
    /\ idMap = [f \in Fd |-> NoTimer]
    /\ active = [f \in Fd |-> Closed]

\* Time passes at any moment.
Tick ==
    /\ now < MaxTime
    /\ now' = now + 1
    /\ UNCHANGED <<heap, idMap, idGen, expiring, nowTime, active>>

\* add and update.
Add(f) ==
    /\ idGen < MaxTimer
    /\ idGen' = idGen + 1
    /\ idMap' = [idMap EXCEPT ![f] = idGen + 1]
    /\ heap' = heap \cup {[fd |-> f, id |-> idGen + 1, expire |-> now + Timeout]}

-----------------------------------------------------------------------------
(* The events of a turn.                                                   *)

Accept(f) ==
    /\ ~expiring /\ active[f] = Closed
    /\ Add(f)
    /\ active' = [active EXCEPT ![f] = now + 1]
    /\ UNCHANGED <<now, expiring, nowTime>>

\* A successful read or write.
Activity(f) ==
    /\ ~expiring /\ active[f] # Closed
    /\ Add(f)
    /\ active' = [active EXCEPT ![f] = now + 1]
    /\ UNCHANGED <<now, expiring, nowTime>>

\* closeConncl for any other reason: the timer stays.
CloseConn(f) ==
    /\ ~expiring /\ active[f] # Closed
    /\ active' = [active EXCEPT ![f] = Closed]
    /\ UNCHANGED <<now, heap, idMap, idGen, expiring, nowTime>>

-----------------------------------------------------------------------------
(* handleExpired and getNextTimeout.                                       *)

Top(n) == n \in heap /\ \A m \in heap : n.expire <= m.expire
Valid(n) == idMap[n.fd] = n.id

BeginExpiry ==
    /\ ~expiring
    /\ expiring' = TRUE /\ nowTime' = now
    /\ UNCHANGED <<now, heap, idMap, idGen, active>>

DropStale(n) ==
    /\ Top(n) /\ ~Valid(n)
    /\ heap' = heap \ {n}
    /\ UNCHANGED <<idMap, active>>

\* Faulty variant: any node of the descriptor counts.
ExpireAny(n) ==
    /\ Top(n) /\ n.expire <= nowTime
    /\ active' = [active EXCEPT ![n.fd] = Closed]
    /\ idMap' = [idMap EXCEPT ![n.fd] = NoTimer]
    /\ heap' = heap \ {n}

\* The callback is closeConncl.
Expire(n) ==
    /\ Top(n) /\ Valid(n) /\ n.expire <= nowTime
    /\ active' = [active EXCEPT ![n.fd] = Closed]
    /\ idMap' = [idMap EXCEPT ![n.fd] = NoTimer]
    /\ heap' = heap \ {n}

ExpiryStep ==
    /\ expiring
    /\ \E n \in heap : DropStale(n) \/ Expire(n)
    /\ UNCHANGED <<now, idGen, expiring, nowTime>>

\* Faulty variant: the loop stops at the first node that is not due.
StopWhenNotDue ==
    /\ expiring
    /\ heap = {} \/ \E n \in heap : Top(n) /\ (n.expire > nowTime \/ ~Valid(n))
    /\ expiring' = FALSE
    /\ UNCHANGED <<now, heap, idMap, idGen, nowTime, active>>

EndExpiry ==
    /\ expiring
    /\ heap = {} \/ \E n \in heap : Top(n) /\ Valid(n) /\ n.expire > nowTime
    /\ expiring' = FALSE
    /\ UNCHANGED <<now, heap, idMap, idGen, nowTime, active>>

\* getNextTimeout drops the same stale nodes before the loop waits.
GetNextTimeout ==
    /\ ~expiring
    /\ \E n \in heap : DropStale(n)
    /\ UNCHANGED <<now, idGen, expiring, nowTime>>

TimerNext ==
    \/ Tick \/ BeginExpiry \/ ExpiryStep \/ EndExpiry \/ GetNextTimeout
    \/ \E f \in Fd : Accept(f) \/ Activity(f) \/ CloseConn(f)

\* The event loop never stops turning while it waits with a finite timeout;
\* handleExpired is called in every turn.
TimerSpec == TimerInit /\ [][TimerNext]_timerVars

-----------------------------------------------------------------------------
(* Properties.                                                             *)

\* Type invariant of the timers; ids are unique.
TimerTypeOK ==
    /\ now \in Nat /\ nowTime \in Nat /\ nowTime <= now /\ expiring \in BOOLEAN
    /\ idGen \in 0..MaxTimer
    /\ heap \subseteq Node
    /\ idMap \in [Fd -> 0..MaxTimer]
    /\ active \in [Fd -> Nat]
    /\ \A n \in heap : n.id <= idGen
    /\ \A m, n \in heap : m.id = n.id => m = n

\* A valid timer of an open connection runs from the last activity of this
\* connection: the node of an earlier connection on the same descriptor, or
\* of earlier activity, never counts.
TimerOfConnection ==
    \A n \in heap : (Valid(n) /\ active[n.fd] # Closed) => n.expire = active[n.fd] - 1 + Timeout

\* Every open connection has a valid timer, whatever was closed before it:
\* a silent client is always found.
OpenConnectionsTimed ==
    \A f \in Fd : active[f] # Closed => \E n \in heap : n.fd = f /\ Valid(n)

\* handleExpired closes a connection only when it has been idle for the
\* whole timeout.
OnlyIdleExpire ==
    [][\A f \in Fd : (expiring /\ active[f] # Closed /\ active'[f] = Closed) =>
           now >= active[f] - 1 + Timeout]_timerVars

\* When handleExpired returns no connection is overdue by its clock, and the
\* heap holds no node older than that: refreshed timers do not pile up.
NothingOverdue ==
    [][(expiring /\ ~expiring') =>
           /\ \A f \in Fd : active[f] # Closed => active[f] - 1 + Timeout > nowTime
           /\ \A n \in heap : n.expire > nowTime]_timerVars
=============================================================================
