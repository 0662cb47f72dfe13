------------------------------ MODULE VehicleApi ------------------------------
(***************************************************************************)
(* The vehicle endpoints (HttpConn.cpp) over the vehicle table             *)
(* (VehicleManager.cpp) and the Redis response cache (RedisCache.cpp).     *)
(* The endpoints of the dispatch use the cache in the same way, with other *)
(* keys.                                                                   *)
(*                                                                         *)
(* Several workers handle requests at once.  A handler is split where it   *)
(* gives up a lock: hasVehicle, the change of the table, and every Redis   *)
(* command, for which a connection is borrowed from the client pool.  A    *)
(* command that fails may or may not have been executed by the server      *)
(* (timeout of the reply).  A vehicle is its version, 0 if it is absent.   *)
(***************************************************************************)
EXTENDS Naturals, FiniteSets

CONSTANTS
    Worker, Vehicle,
    PoolSize,     \* redis_pool_size
    RedisFails,   \* Redis may become unreachable
    MaxVersion    \* bound on changes

ASSUME ApiAssumptions ==
    /\ PoolSize \in Nat /\ MaxVersion \in Nat /\ RedisFails \in BOOLEAN
    /\ IsFiniteSet(Worker)

Table == [Vehicle -> 0..MaxVersion]
NoEntry == [stored |-> FALSE]
NoBody == [v \in Vehicle |-> 0]
Idle == [pc |-> "idle", op |-> "none", id |-> CHOOSE v \in Vehicle : TRUE,
         body |-> NoBody, late |-> FALSE, holding |-> FALSE]

VARIABLES
    vehicles,    \* vehicles_
    version,     \* number of changes so far
    cache,       \* the value of kVehiclesCache in Redis
    redisUp,     \* Redis can be reached
    enabled, available,   \* of the client pool
    work,        \* the request of each worker; late: a change was made since
                 \* the body was read
    dropped      \* an invalidation of the present entry was not carried out

apiVars == <<vehicles, version, cache, redisUp, enabled, available, work, dropped>>
redisVars == <<cache, redisUp, enabled, available>>

\* RedisCache::init has connected some of its connections, or failed.
ApiInit ==
    /\ vehicles = NoBody /\ version = 0 /\ cache = NoEntry /\ redisUp = TRUE
    /\ available \in 0..PoolSize
    /\ enabled = (available > 0)
    /\ work = [w \in Worker |-> Idle] /\ dropped = FALSE

Go(w, pc) == work' = [work EXCEPT ![w].pc = pc]
Answer(w) == work' = [work EXCEPT ![w] = Idle]

-----------------------------------------------------------------------------
(* Redis.                                                                  *)

\* The entry reaches its time to live, or is lost by the server.
EntryExpires == cache.stored /\ cache' = NoEntry /\ dropped' = FALSE
          /\ UNCHANGED <<vehicles, version, redisUp, enabled, available, work>>

RedisDown == RedisFails /\ redisUp /\ redisUp' = FALSE
             /\ UNCHANGED <<vehicles, version, cache, enabled, available, work, dropped>>
RedisBack == ~redisUp /\ redisUp' = TRUE
             /\ UNCHANGED <<vehicles, version, cache, enabled, available, work, dropped>>

CanAcquire == enabled /\ available > 0

\* release: a connection that failed is closed and one attempt is made to
\* replace it; after shutdown it is closed.
Release(healthy) ==
    available' = IF enabled /\ (healthy \/ redisUp) THEN available + 1 ELSE available

\* acquire, or the request goes on without Redis at pc without.
Acquire(w, with, without) ==
    /\ \/ /\ CanAcquire
          /\ available' = available - 1
          /\ work' = [work EXCEPT ![w].pc = with, ![w].holding = TRUE]
       \/ /\ ~CanAcquire
          /\ UNCHANGED available
          /\ IF without = "idle" THEN Answer(w) ELSE Go(w, without)

Shutdown ==
    /\ enabled
    /\ enabled' = FALSE /\ available' = 0
    /\ UNCHANGED <<vehicles, version, cache, redisUp, work, dropped>>

-----------------------------------------------------------------------------
(* GET /api/vehicles.                                                      *)

BeginGet(w) ==
    /\ work[w].pc = "idle"
    /\ \/ /\ CanAcquire
          /\ available' = available - 1
          /\ work' = [work EXCEPT ![w] = [Idle EXCEPT !.pc = "get", !.op = "get", !.holding = TRUE]]
       \/ /\ ~CanAcquire
          /\ UNCHANGED available
          /\ work' = [work EXCEPT ![w] = [Idle EXCEPT !.pc = "read", !.op = "get"]]
    /\ UNCHANGED <<vehicles, version, cache, redisUp, enabled, dropped>>

\* tryBuildCachedJsonResponse: a hit is the answer.
CacheGet(w) ==
    /\ work[w].pc = "get"
    /\ Release(redisUp)
    /\ IF redisUp /\ cache.stored THEN Answer(w)
       ELSE work' = [work EXCEPT ![w].pc = "read", ![w].holding = FALSE]
    /\ UNCHANGED <<vehicles, version, cache, redisUp, enabled, dropped>>

\* getSnapshot.
ReadTable(w) ==
    /\ work[w].pc = "read"
    /\ work' = [work EXCEPT ![w].pc = "store", ![w].body = vehicles, ![w].late = FALSE]
    /\ UNCHANGED <<vehicles, version, redisVars, dropped>>

\* cacheJsonResponse; the request is answered from the body in any case.
BeginStore(w) ==
    /\ work[w].pc = "store"
    /\ Acquire(w, "set", "idle")
    /\ UNCHANGED <<vehicles, version, cache, redisUp, enabled, dropped>>

Entry(w) == [stored |-> TRUE, body |-> work[w].body, late |-> work[w].late]

CacheSet(w) ==
    /\ work[w].pc = "set"
    /\ \/ cache' = Entry(w) /\ dropped' = FALSE
       \/ ~redisUp /\ UNCHANGED <<cache, dropped>>
    /\ Release(redisUp) /\ Answer(w)
    /\ UNCHANGED <<vehicles, version, redisUp, enabled>>

-----------------------------------------------------------------------------
(* The changes.                                                            *)

Present(v) == vehicles[v] # 0

\* hasVehicle, where register, update and delete refuse.
CheckVehicle(w, op, v) ==
    /\ work[w].pc = "idle"
    /\ work' = [work EXCEPT ![w] =
           IF (op = "register") = Present(v) THEN Idle
           ELSE [Idle EXCEPT !.pc = "apply", !.op = op, !.id = v]]
    /\ UNCHANGED <<vehicles, version, redisVars, dropped>>

\* A change of the table: readers that are under way carry an old body.
Changed(table, w) ==
    /\ version < MaxVersion
    /\ vehicles' = table /\ version' = version + 1
    /\ work' = [u \in Worker |->
           IF u = w THEN [work[w] EXCEPT !.pc = "invalidate"]
           ELSE [work[u] EXCEPT !.late = @ \/ work[u].pc \in {"store", "set"}]]

RegisterVehicle(w, v) ==
    IF Present(v) THEN Answer(w) /\ UNCHANGED <<vehicles, version>>
    ELSE Changed([vehicles EXCEPT ![v] = version + 1], w)

UpdateVehicle(w, v) ==
    IF Present(v) THEN Changed([vehicles EXCEPT ![v] = version + 1], w)
    ELSE Answer(w) /\ UNCHANGED <<vehicles, version>>

\* Faulty variant: a removal does not invalidate the cache.
RemoveQuietly(w, v) ==
    IF Present(v)
      THEN /\ version < MaxVersion
           /\ vehicles' = [vehicles EXCEPT ![v] = 0] /\ version' = version + 1
           /\ Answer(w)
      ELSE Answer(w) /\ UNCHANGED <<vehicles, version>>

RemoveVehicle(w, v) ==
    IF Present(v) THEN Changed([vehicles EXCEPT ![v] = 0], w)
    ELSE Answer(w) /\ UNCHANGED <<vehicles, version>>

Apply(w) ==
    /\ work[w].pc = "apply"
    /\ \/ work[w].op = "register" /\ RegisterVehicle(w, work[w].id)
       \/ work[w].op = "update" /\ UpdateVehicle(w, work[w].id)
       \/ work[w].op = "delete" /\ RemoveVehicle(w, work[w].id)
    /\ UNCHANGED <<redisVars, dropped>>

\* handleGameVehicleSnapshot: the table is replaced by what the game sent.
HandleGameVehicleSnapshot(w, S) ==
    /\ work[w].pc = "idle"
    /\ Changed([v \in Vehicle |-> IF v \in S THEN version + 1 ELSE 0], w)
    /\ UNCHANGED <<redisVars, dropped>>

\* invalidateRedisCaches: nothing is done when no connection is free.
BeginInvalidate(w) ==
    /\ work[w].pc = "invalidate"
    /\ Acquire(w, "del", "idle")
    /\ dropped' = (dropped \/ ~CanAcquire)
    /\ UNCHANGED <<vehicles, version, cache, redisUp, enabled>>

CacheRemove(w) ==
    /\ work[w].pc = "del"
    /\ \/ cache' = NoEntry /\ dropped' = FALSE
       \/ ~redisUp /\ dropped' = TRUE /\ UNCHANGED cache
    /\ Release(redisUp) /\ Answer(w)
    /\ UNCHANGED <<vehicles, version, redisUp, enabled>>

ApiNext ==
    \/ EntryExpires \/ RedisDown \/ RedisBack \/ Shutdown
    \/ \E w \in Worker :
         \/ BeginGet(w) \/ CacheGet(w) \/ ReadTable(w) \/ BeginStore(w) \/ CacheSet(w)
         \/ Apply(w) \/ BeginInvalidate(w) \/ CacheRemove(w)
         \/ \E v \in Vehicle, op \in {"register", "update", "delete"} : CheckVehicle(w, op, v)
         \/ \E S \in SUBSET Vehicle : HandleGameVehicleSnapshot(w, S)

ApiSpec == ApiInit /\ [][ApiNext]_apiVars

-----------------------------------------------------------------------------
(* Properties.                                                             *)

Holding == Cardinality({w \in Worker : work[w].holding})

\* Type invariant; the pool never has more connections than were opened,
\* lent ones included, and none is left in it after shutdown.
ApiTypeOK ==
    /\ vehicles \in Table /\ version \in 0..MaxVersion
    /\ enabled \in BOOLEAN /\ redisUp \in BOOLEAN /\ dropped \in BOOLEAN
    /\ enabled => available + Holding <= PoolSize
    /\ available \in 0..PoolSize
    /\ ~enabled => available = 0

\* The cache is out of date only for a known reason: a change whose
\* invalidation is still to come, one that was dropped, or an entry written
\* by a reader that a change overtook.
StaleOnlyByRace ==
    (cache.stored /\ cache.body # vehicles) =>
        \/ cache.late \/ dropped
        \/ \E w \in Worker : work[w].pc \in {"invalidate", "del"}

-----------------------------------------------------------------------------
(* Statements of the source that the code does not keep.                   *)

\* invalidateRedisCaches "deletes the response caches that a write concerns"
\* (HttpConn.h): when every change has been answered, the cache is not older
\* than the table.
WritesVisible ==
    (cache.stored /\ \A w \in Worker : work[w].pc = "idle") => cache.body = vehicles

\* isEnabled "tells whether the client has at least one connection it can
\* use" (RedisCache.h).
EnabledHasConnection == enabled => available + Holding > 0
=============================================================================
