---------------------------- MODULE RequestsProofs ----------------------------
(***************************************************************************)
(* Proofs about what a request meets besides the dispatch: the parser of   *)
(* its connection, the idle timers, the vehicle endpoints with their       *)
(* response cache, the vehicle table on disk and the pool of database      *)
(* connections.  Each holds for any requests, cut into any pieces, any     *)
(* number of descriptors, workers, vehicles, threads and connections, any  *)
(* timeout and any size of the client pool.                                *)
(***************************************************************************)
EXTENDS HttpParser, TimerManager, VehicleApi, VehicleStore, DBConnectionPool, FiniteSetTheorems,
        SequenceTheorems, NaturalsInduction, WellFoundedInduction, TLAPS

-----------------------------------------------------------------------------
(* The idle timers.  TimerTypeOK, TimerOfConnection and                    *)
(* OpenConnectionsTimed are inductive together: a new node gets an id      *)
(* above every id in the heap, so it is the only valid one of its          *)
(* descriptor, and only nodes that are not valid leave the heap without    *)
(* their connection being closed.                                          *)

TimerInv == TimerTypeOK /\ TimerOfConnection /\ OpenConnectionsTimed

\* A timer that is added is the only valid one of its descriptor.
LEMMA AddPreserves ==
    ASSUME TimerInv, NEW f \in Fd, Add(f), active' = [active EXCEPT ![f] = now + 1],
           UNCHANGED <<now, expiring, nowTime>>
    PROVE  TimerInv'
<1> DEFINE node == [fd |-> f, id |-> idGen + 1, expire |-> now + Timeout]
<1>1. node \in Node /\ idGen' \in 0..MaxTimer /\ idMap' \in [Fd -> 0..MaxTimer]
  BY TimerAssumptions DEF TimerInv, TimerTypeOK, Add, Node
<1>2. TimerTypeOK'
  <2>1. \A n \in heap' : n.id <= idGen'
    BY <1>1 DEF TimerInv, TimerTypeOK, Add, Node
  <2>2. \A m, n \in heap' : m.id = n.id => m = n
    <3>1. \A n \in heap : n.id # node.id
      BY DEF TimerInv, TimerTypeOK, Node
    <3> QED BY <3>1 DEF TimerInv, TimerTypeOK, Add
  <2> QED BY <1>1, <2>1, <2>2 DEF TimerInv, TimerTypeOK, Add
<1>3. \A n \in heap : n.fd = f => ~(Valid(n))'
  BY DEF TimerInv, TimerTypeOK, Add, Valid, Node
<1>4. \A n \in heap : n.fd # f => (Valid(n)' <=> Valid(n)) /\ active'[n.fd] = active[n.fd]
  BY DEF TimerInv, TimerTypeOK, Add, Valid, Node
<1>5. active'[f] = now + 1 /\ idMap'[f] = node.id /\ node \in heap'
  BY DEF TimerInv, TimerTypeOK, Add
<1>6. TimerOfConnection'
  <2> SUFFICES ASSUME NEW n \in heap', Valid(n)', active'[n.fd] # Closed
               PROVE  n.expire = active'[n.fd] - 1 + Timeout
    BY DEF TimerOfConnection
  <2>1. CASE n = node
    BY <2>1, <1>5, TimerAssumptions DEF TimerInv, TimerTypeOK
  <2>2. CASE n \in heap
    BY <2>2, <1>3, <1>4 DEF TimerInv, TimerOfConnection
  <2> QED BY <2>1, <2>2 DEF Add
<1>7. OpenConnectionsTimed'
  <2> SUFFICES ASSUME NEW g \in Fd, active'[g] # Closed
               PROVE  \E n \in heap' : n.fd = g /\ Valid(n)'
    BY DEF OpenConnectionsTimed
  <2>1. CASE g = f
    BY <2>1, <1>5 DEF Valid
  <2>2. CASE g # f
    <3>1. active[g] # Closed
      BY <2>2 DEF TimerInv, TimerTypeOK
    <3>2. PICK n \in heap : n.fd = g /\ Valid(n)
      BY <3>1 DEF TimerInv, OpenConnectionsTimed
    <3> QED BY <3>2, <2>2, <1>4 DEF Add
  <2> QED BY <2>1, <2>2
<1> QED BY <1>2, <1>6, <1>7 DEF TimerInv

\* Removing a node that is not valid keeps the invariant.
LEMMA DropPreserves ==
    ASSUME TimerInv, NEW n \in heap, DropStale(n), UNCHANGED <<now, idGen, expiring, nowTime>>
    PROVE  TimerInv'
<1>1. TimerTypeOK'
  BY DEF TimerInv, TimerTypeOK, DropStale
<1>2. \A m \in heap' : m \in heap /\ (Valid(m)' <=> Valid(m))
  BY DEF DropStale, Valid
<1>3. TimerOfConnection'
  BY <1>2 DEF TimerInv, TimerOfConnection, DropStale
<1>4. OpenConnectionsTimed'
  BY <1>2 DEF TimerInv, OpenConnectionsTimed, DropStale, Valid
<1> QED BY <1>1, <1>3, <1>4 DEF TimerInv

\* An expiry closes the connection together with its timer.
LEMMA ExpirePreserves ==
    ASSUME TimerInv, NEW n \in heap, Expire(n), UNCHANGED <<now, idGen, expiring, nowTime>>
    PROVE  TimerInv'
<1>0. n.fd \in Fd
  BY DEF TimerInv, TimerTypeOK, Node
<1>1. TimerTypeOK'
  <2>1. idMap' \in [Fd -> 0..MaxTimer] /\ active' \in [Fd -> Nat]
    BY <1>0, TimerAssumptions DEF TimerInv, TimerTypeOK, Expire, NoTimer, Closed
  <2>2. heap' \subseteq heap
    BY DEF Expire
  <2> QED BY <2>1, <2>2 DEF TimerInv, TimerTypeOK
<1>2. \A m \in heap' : m \in heap /\ (m.fd # n.fd => (Valid(m)' <=> Valid(m)) /\ active'[m.fd] = active[m.fd])
  BY DEF TimerInv, TimerTypeOK, Expire, Valid, Node
<1>3. active'[n.fd] = Closed
  BY <1>0 DEF TimerInv, TimerTypeOK, Expire
<1>4. TimerOfConnection'
  BY <1>2, <1>3 DEF TimerInv, TimerOfConnection
<1>5. OpenConnectionsTimed'
  <2> SUFFICES ASSUME NEW g \in Fd, active'[g] # Closed
               PROVE  \E m \in heap' : m.fd = g /\ Valid(m)'
    BY DEF OpenConnectionsTimed
  <2>1. g # n.fd
    BY <1>3
  <2>2. active[g] # Closed
    BY <2>1, <1>0 DEF TimerInv, TimerTypeOK, Expire
  <2>3. PICK m \in heap : m.fd = g /\ Valid(m)
    BY <2>2 DEF TimerInv, OpenConnectionsTimed
  <2>4. m \in heap'
    BY <2>1, <2>3 DEF Expire
  <2> QED BY <2>1, <2>3, <2>4, <1>2
<1> QED BY <1>1, <1>4, <1>5 DEF TimerInv

\* The invariant is kept by every step.
LEMMA TimerInvInductive == TimerInv /\ [TimerNext]_timerVars => TimerInv'
<1> SUFFICES ASSUME TimerInv, [TimerNext]_timerVars PROVE TimerInv'
  OBVIOUS
<1>1. CASE Tick
  BY <1>1 DEF TimerInv, TimerTypeOK, TimerOfConnection, OpenConnectionsTimed, Valid, Tick
<1>2. CASE BeginExpiry
  BY <1>2 DEF TimerInv, TimerTypeOK, TimerOfConnection, OpenConnectionsTimed, Valid, BeginExpiry
<1>3. CASE ExpiryStep
  BY <1>3, DropPreserves, ExpirePreserves DEF ExpiryStep
<1>4. CASE EndExpiry
  BY <1>4 DEF TimerInv, TimerTypeOK, TimerOfConnection, OpenConnectionsTimed, Valid, EndExpiry
<1>5. CASE GetNextTimeout
  BY <1>5, DropPreserves DEF GetNextTimeout
<1>6. ASSUME NEW f \in Fd, Accept(f) PROVE TimerInv'
  BY <1>6, AddPreserves DEF Accept
<1>7. ASSUME NEW f \in Fd, Activity(f) PROVE TimerInv'
  BY <1>7, AddPreserves DEF Activity
<1>8. ASSUME NEW f \in Fd, CloseConn(f) PROVE TimerInv'
  <2>1. TimerTypeOK'
    BY <1>8 DEF TimerInv, TimerTypeOK, CloseConn, Closed
  <2>2. \A g \in Fd : active'[g] # Closed => active'[g] = active[g]
    BY <1>8 DEF TimerInv, TimerTypeOK, CloseConn
  <2>3. heap' = heap /\ idMap' = idMap /\ \A n \in heap : n.fd \in Fd
    BY <1>8 DEF TimerInv, TimerTypeOK, CloseConn, Node
  <2>4. TimerOfConnection'
    BY <2>2, <2>3 DEF TimerInv, TimerOfConnection, Valid
  <2>5. OpenConnectionsTimed'
    BY <2>2, <2>3 DEF TimerInv, OpenConnectionsTimed, Valid
  <2> QED BY <2>1, <2>4, <2>5 DEF TimerInv
<1>9. CASE UNCHANGED timerVars
  BY <1>9 DEF TimerInv, TimerTypeOK, TimerOfConnection, OpenConnectionsTimed, Valid, timerVars
<1> QED BY <1>1, <1>2, <1>3, <1>4, <1>5, <1>6, <1>7, <1>8, <1>9 DEF TimerNext

\* The invariant holds at the start.
LEMMA TimerInvInit == TimerInit => TimerInv
<1> SUFFICES ASSUME TimerInit PROVE TimerInv
  OBVIOUS
<1>1. idMap \in [Fd -> 0..MaxTimer] /\ active \in [Fd -> Nat] /\ idGen \in 0..MaxTimer
  BY TimerAssumptions DEF TimerInit, NoTimer, Closed
<1>2. TimerTypeOK
  <2>1. expiring \in BOOLEAN /\ heap = {}
    BY DEF TimerInit
  <2>2. now \in Nat /\ nowTime \in Nat /\ nowTime <= now
    BY DEF TimerInit
  <2> QED BY <1>1, <2>1, <2>2 DEF TimerTypeOK
<1>3. TimerOfConnection /\ OpenConnectionsTimed
  BY DEF TimerInit, TimerOfConnection, OpenConnectionsTimed
<1> QED BY <1>2, <1>3 DEF TimerInv

\* Types are kept, a valid timer of an open connection runs from its own last
\* activity, and every open connection has one.
THEOREM TimerSafety == TimerSpec => [](TimerTypeOK /\ TimerOfConnection /\ OpenConnectionsTimed)
<1>1. TimerInv => TimerTypeOK /\ TimerOfConnection /\ OpenConnectionsTimed
  BY DEF TimerInv
<1> QED BY TimerInvInit, TimerInvInductive, <1>1, PTL DEF TimerSpec

\* A connection that handleExpired closes has been idle for the timeout.
THEOREM ExpiryIsIdle == TimerSpec => OnlyIdleExpire
<1>1. TimerInv /\ [TimerNext]_timerVars =>
        [\A f \in Fd : (expiring /\ active[f] # Closed /\ active'[f] = Closed) =>
             now >= active[f] - 1 + Timeout]_timerVars
  <2> SUFFICES ASSUME TimerInv, TimerNext, NEW f \in Fd,
                      expiring, active[f] # Closed, active'[f] = Closed
               PROVE  now >= active[f] - 1 + Timeout
    BY DEF timerVars
  <2>1. ExpiryStep
    BY DEF TimerNext, Tick, BeginExpiry, EndExpiry, GetNextTimeout, Accept, Activity, CloseConn
  <2>2. PICK n \in heap : Expire(n)
    BY <2>1 DEF ExpiryStep, DropStale
  <2>3. n.fd = f
    BY <2>2 DEF TimerInv, TimerTypeOK, Expire
  <2>4. n.expire = active[f] - 1 + Timeout
    BY <2>2, <2>3 DEF TimerInv, TimerOfConnection, Expire
  <2>5. n.expire <= nowTime /\ nowTime <= now /\ n.expire \in Nat /\ nowTime \in Nat /\ now \in Nat
    BY <2>2 DEF TimerInv, TimerTypeOK, Expire, Node
  <2> QED BY <2>4, <2>5
<1> QED BY <1>1, TimerInvInit, TimerInvInductive, PTL DEF TimerSpec, OnlyIdleExpire

\* When handleExpired returns, nothing is overdue and no old node is left.
THEOREM ExpiryIsComplete == TimerSpec => NothingOverdue
<1>1. TimerInv /\ [TimerNext]_timerVars =>
        [(expiring /\ ~expiring') =>
           /\ \A f \in Fd : active[f] # Closed => active[f] - 1 + Timeout > nowTime
           /\ \A n \in heap : n.expire > nowTime]_timerVars
  <2> SUFFICES ASSUME TimerInv, TimerNext, expiring, ~expiring'
               PROVE  /\ \A f \in Fd : active[f] # Closed => active[f] - 1 + Timeout > nowTime
                      /\ \A n \in heap : n.expire > nowTime
    BY DEF timerVars
  <2>1. EndExpiry
    BY DEF TimerNext, Tick, BeginExpiry, ExpiryStep, GetNextTimeout, Accept, Activity, CloseConn
  <2>2. \A n \in heap : n.expire > nowTime
    <3>1. \A n \in heap : n.expire \in Nat
      BY DEF TimerInv, TimerTypeOK, Node
    <3> QED BY <2>1, <3>1 DEF EndExpiry, Top, TimerInv, TimerTypeOK
  <2>3. \A f \in Fd : active[f] # Closed => active[f] - 1 + Timeout > nowTime
    BY <2>2 DEF TimerInv, TimerOfConnection, OpenConnectionsTimed
  <2> QED BY <2>2, <2>3
<1> QED BY <1>1, TimerInvInit, TimerInvInductive, PTL DEF TimerSpec, NothingOverdue

-----------------------------------------------------------------------------
(* The vehicle table on disk.                                              *)

Images == [table : [StoredVehicle -> Nat], stamp : 0..MaxStamp]

\* What saveAll has done so far of its transaction: the copy is the state the
\* server stopped with, and the rows are those of the copy that are not still
\* to come.
TransactionUnderWay ==
    /\ pc \in {"begin", "insert", "commit"} => copy = memory
    /\ pc = "insert" => txRows = [v \in StoredVehicle |-> IF v \in todo THEN 0 ELSE copy.table[v]]

StoreInv ==
    /\ StoreTypeOK
    /\ memory \in Images /\ served \subseteq Images
    /\ rows \in [StoredVehicle -> Nat] /\ changes \in 0..MaxStamp
    /\ TransactionUnderWay
    /\ StoredImageWhole

\* What the server does while it serves keeps the invariant.
LEMMA ServingInv ==
    ASSUME StoreInv,
           \/ EnablePersistence \/ SaveAll
           \/ \E v \in StoredVehicle, p \in BOOLEAN : ChangeVehicle(v, p)
           \/ \E S \in SUBSET StoredVehicle : ReplaceSnapshot(S)
    PROVE  StoreInv'
<1> USE DEF StoreInv
<1>1. CASE EnablePersistence
  <2>1. Image(rows, meta) \in Images
    BY DEF StoreTypeOK, Image, Images
  <2> QED BY <1>1, <2>1
          DEF EnablePersistence, StoreTypeOK, TransactionUnderWay, StoredImageWhole
<1>2. CASE SaveAll
  BY <1>2 DEF SaveAll, tableVars, StoreTypeOK, TransactionUnderWay, StoredImageWhole
<1>3. ASSUME NEW v \in StoredVehicle, NEW p \in BOOLEAN, ChangeVehicle(v, p) PROVE StoreInv'
  <2>1. memory' \in Images /\ changes' \in 0..MaxStamp
    <3>1. memory \in Images /\ changes \in Nat /\ changes < MaxStamp /\ MaxStamp \in Nat
      BY <1>3, StoreAssumptions DEF ChangeVehicle
    <3>2. (IF p THEN changes + 1 ELSE 0) \in Nat
      BY <3>1
    <3>3. memory' \in Images
      BY <1>3, <3>1, <3>2 DEF ChangeVehicle, Images
    <3> QED BY <1>3, <3>1, <3>3 DEF ChangeVehicle
  <2> QED BY <1>3, <2>1
          DEF ChangeVehicle, tableVars, StoreTypeOK, TransactionUnderWay, StoredImageWhole
<1>4. ASSUME NEW S \in SUBSET StoredVehicle, ReplaceSnapshot(S) PROVE StoreInv'
  <2>1. memory' \in Images /\ changes' \in 0..MaxStamp
    BY <1>4, StoreAssumptions DEF ReplaceSnapshot, Images, Image
  <2> QED BY <1>4, <2>1
          DEF ReplaceSnapshot, tableVars, StoreTypeOK, TransactionUnderWay, StoredImageWhole
<1> QED BY <1>1, <1>2, <1>3, <1>4

\* The statements of saveAll keep the invariant.
LEMMA SavingInv ==
    ASSUME StoreInv,
           \/ BeginTransaction \/ ReplaceMetadata \/ Commit
           \/ \E v \in StoredVehicle : InsertVehicle(v)
    PROVE  StoreInv'
<1> USE DEF StoreInv
<1>1. CASE BeginTransaction
  <2>1. copy = memory /\ copy.table \in [StoredVehicle -> Nat]
    BY <1>1 DEF BeginTransaction, TransactionUnderWay, Images
  <2>2. TransactionUnderWay'
    BY <1>1, <2>1 DEF BeginTransaction, TransactionUnderWay, Empty
  <2> QED BY <1>1, <2>1, <2>2 DEF BeginTransaction, StoreTypeOK, StoredImageWhole
<1>2. ASSUME NEW v \in StoredVehicle, InsertVehicle(v) PROVE StoreInv'
  <2>1. TransactionUnderWay'
    BY <1>2 DEF InsertVehicle, TransactionUnderWay
  <2> QED BY <1>2, <2>1 DEF InsertVehicle, StoreTypeOK, StoredImageWhole
<1>3. CASE ReplaceMetadata
  <2>1. copy = memory /\ copy \in Images
    BY <1>3 DEF ReplaceMetadata, TransactionUnderWay
  <2>2. txRows = copy.table
    BY <1>3, <2>1 DEF ReplaceMetadata, TransactionUnderWay, Images
  <2>3. Image(txRows, txMeta)' = copy
    BY <1>3, <2>1, <2>2 DEF ReplaceMetadata, Image, Images
  <2>4. UNCHANGED <<memory, copy, todo, rows, meta, served, changes>> /\ pc' = "commit"
    BY <1>3 DEF ReplaceMetadata, memVars
  <2> QED BY <2>1, <2>3, <2>4 DEF StoreTypeOK, TransactionUnderWay, StoredImageWhole
<1>4. CASE Commit
  <2>1. /\ Image(txRows, txMeta) = memory /\ rows' = txRows /\ meta' = txMeta /\ pc' = "exit0"
        /\ UNCHANGED <<memory, copy, todo, served, changes>>
    BY <1>4 DEF Commit, StoreTypeOK, memVars
  <2>2. rows' \in [StoredVehicle -> Nat] /\ meta' \in 0..MaxStamp
        /\ Image(rows, meta)' = memory'
    BY <2>1 DEF Image, Images
  <2> QED BY <2>1, <2>2 DEF StoreTypeOK, TransactionUnderWay, StoredImageWhole
<1> QED BY <1>1, <1>2, <1>3, <1>4

\* Failures and restarts keep the invariant: the tables are those of before,
\* or, when the answer to COMMIT is lost, those of the whole copy.
LEMMA FailureInv ==
    ASSUME StoreInv, StatementFails \/ CommitFails \/ Killed \/ Restart
    PROVE  StoreInv'
<1> USE DEF StoreInv
<1>1. /\ UNCHANGED <<memory, copy, todo, served, changes>> /\ pc' \in {"exit1", "down"}
  BY DEF StatementFails, CommitFails, Killed, Restart, memVars
<1>2. CASE UNCHANGED <<rows, meta>>
  BY <1>1, <1>2 DEF StoreTypeOK, TransactionUnderWay, StoredImageWhole
<1>3. CASE pc = "commit" /\ rows' = txRows /\ meta' = txMeta
  <2>1. Image(txRows, txMeta) = memory
    BY <1>3 DEF StoreTypeOK
  <2>2. rows' \in [StoredVehicle -> Nat] /\ meta' \in 0..MaxStamp
        /\ Image(rows, meta)' \in served'
    BY <1>1, <1>3, <2>1 DEF Image, Images, StoreTypeOK
  <2> QED BY <1>1, <2>2 DEF StoreTypeOK, TransactionUnderWay, StoredImageWhole
<1> QED BY <1>2, <1>3 DEF StatementFails, CommitFails, Killed, Restart, tableVars

\* Rows and metadata in the database always belong together, wherever the
\* process was killed and whichever statement of saveAll failed; a server
\* that ended without an error has stored its last state.
THEOREM StoredImageStaysWhole == StoreSpec => [](StoreTypeOK /\ StoredImageWhole)
<1>1. StoreInit => StoreInv
  <2> SUFFICES ASSUME StoreInit PROVE StoreInv
    OBVIOUS
  <2>1. Image(Empty, 0) \in Images /\ Empty \in [StoredVehicle -> Nat] /\ 0 \in 0..MaxStamp
    BY StoreAssumptions DEF Image, Images, Empty
  <2> QED BY <2>1 DEF StoreInit, StoreInv, StoreTypeOK, TransactionUnderWay, StoredImageWhole
<1>2. StoreInv /\ [StoreNext]_storeVars => StoreInv'
  <2> SUFFICES ASSUME StoreInv, [StoreNext]_storeVars PROVE StoreInv'
    OBVIOUS
  <2>1. CASE UNCHANGED storeVars
    BY <2>1 DEF storeVars, memVars, tableVars, StoreInv, StoreTypeOK, TransactionUnderWay,
                StoredImageWhole
  <2>2. CASE StoreNext
    BY <2>2, ServingInv, SavingInv, FailureInv DEF StoreNext
  <2> QED BY <2>1, <2>2
<1>3. StoreInv => StoreTypeOK /\ StoredImageWhole
  BY DEF StoreInv
<1> QED BY <1>1, <1>2, <1>3, PTL DEF StoreSpec

-----------------------------------------------------------------------------
(* The vehicle endpoints and their response cache.                         *)

RequestPcs == {"idle", "get", "read", "store", "set", "apply", "invalidate", "del"}
ApiRequest ==
    [pc : RequestPcs, op : {"none", "get", "register", "update", "delete"},
     id : Vehicle \cup {Idle.id}, body : Table, late : BOOLEAN, holding : BOOLEAN]

\* A worker has a client connection exactly during a Redis command.
HoldingTold(r) == r.holding <=> r.pc \in {"get", "set", "del"}

\* A body that was read is the table, unless a change has overtaken it.
BodyCurrent(r, table) == r.pc \in {"store", "set"} => r.late \/ r.body = table

ApiInv ==
    /\ ApiTypeOK
    /\ work \in [Worker -> ApiRequest]
    /\ \A w \in Worker : HoldingTold(work[w]) /\ BodyCurrent(work[w], vehicles)
    /\ cache = NoEntry \/ cache \in [stored : {TRUE}, body : Table, late : BOOLEAN]
    /\ StaleOnlyByRace

\* An idle worker is a request like any other.
LEMMA IdleTyped ==
    Idle \in ApiRequest /\ Idle.pc = "idle" /\ ~Idle.holding /\ HoldingTold(Idle)
    /\ \A table : BodyCurrent(Idle, table)
<1>1. NoBody \in Table
  BY ApiAssumptions DEF NoBody, Table
<1> QED BY <1>1 DEF Idle, ApiRequest, RequestPcs, HoldingTold, BodyCurrent

\* How the number of lent connections follows the step of one worker.
LEMMA HoldingNext ==
    ASSUME ApiInv, NEW w \in Worker, NEW r \in ApiRequest, work' = [work EXCEPT ![w] = r]
    PROVE  /\ Holding \in Nat /\ Holding' \in Nat
           /\ (r.holding /\ ~work[w].holding) => Holding' = Holding + 1
           /\ (~r.holding /\ work[w].holding) => Holding' = Holding - 1
           /\ (r.holding <=> work[w].holding) => Holding' = Holding
<1> DEFINE H == {u \in Worker : work[u].holding}
           G == {u \in Worker : work'[u].holding}
<1>1. IsFiniteSet(H) /\ IsFiniteSet(G)
  <2>1. IsFiniteSet(Worker) /\ H \subseteq Worker /\ G \subseteq Worker
    BY ApiAssumptions
  <2> QED BY <2>1, FS_Subset
<1>2. work'[w] = r /\ \A u \in Worker : u # w => work'[u] = work[u]
  BY DEF ApiInv
<1>3. /\ r.holding \in BOOLEAN /\ work[w].holding \in BOOLEAN
  BY DEF ApiInv, ApiRequest
<1>4. Cardinality(H) \in Nat /\ Cardinality(G) \in Nat
  BY <1>1, FS_CardinalityType
<1>5. CASE r.holding /\ ~work[w].holding
  <2>1. G = H \cup {w} /\ w \notin H
    BY <1>2, <1>5
  <2>2. Cardinality(G) = Cardinality(H) + 1
    BY <1>1, <2>1, FS_AddElement
  <2> QED BY <1>4, <1>5, <2>2 DEF Holding
<1>6. CASE ~r.holding /\ work[w].holding
  <2>1. G = H \ {w} /\ w \in H
    BY <1>2, <1>6
  <2>2. Cardinality(G) = Cardinality(H) - 1
    BY <1>1, <2>1, FS_RemoveElement
  <2> QED BY <1>4, <1>6, <2>2 DEF Holding
<1>7. CASE r.holding <=> work[w].holding
  <2>1. G = H
    BY <1>2, <1>7
  <2> QED BY <1>4, <1>7, <2>1 DEF Holding
<1> QED BY <1>3, <1>5, <1>6, <1>7

\* What is left to show for a step of one worker that leaves the table: its
\* new request, the pool, and that a stale cache keeps its reason.
LEMMA WorkerChanges ==
    ASSUME ApiInv, NEW w \in Worker, NEW r \in ApiRequest, work' = [work EXCEPT ![w] = r],
           HoldingTold(r), BodyCurrent(r, vehicles),
           UNCHANGED <<vehicles, version, redisUp, enabled>>, dropped' \in BOOLEAN,
           available' \in Nat, ~enabled => available' = 0,
           enabled => available' + Holding' <= PoolSize,
           cache' = NoEntry \/ cache' \in [stored : {TRUE}, body : Table, late : BOOLEAN],
           \/ cache' = cache /\ (dropped => dropped')
                /\ (work[w].pc \in {"invalidate", "del"} =>
                       r.pc \in {"invalidate", "del"} \/ dropped')
           \/ cache'.stored => cache'.late \/ cache'.body = vehicles
    PROVE  ApiInv'
<1> USE DEF ApiInv
<1>1. work'[w] = r /\ \A u \in Worker : u # w => work'[u] = work[u]
  OBVIOUS
<1>2. work' \in [Worker -> ApiRequest]
  OBVIOUS
<1>3. ASSUME NEW u \in Worker PROVE HoldingTold(work[u])' /\ BodyCurrent(work[u], vehicles)'
  <2>1. CASE u = w
    BY <1>1, <2>1
  <2>2. CASE u # w
    BY <1>1, <2>2 DEF HoldingTold, BodyCurrent
  <2> QED BY <2>1, <2>2
<1>4. ApiTypeOK'
  <2>1. Holding' \in Nat /\ PoolSize \in Nat
    BY HoldingNext, ApiAssumptions
  <2>2. available' \in 0..PoolSize
    <3>0. \A m, n, k \in Nat : m + n <= k => m \in 0..k
      OBVIOUS
    <3>1. CASE enabled
      <4>1. available' + Holding' <= PoolSize
        BY <3>1
      <4> QED BY <2>1, <3>0, <4>1
    <3>2. CASE ~enabled
      BY <2>1, <3>2
    <3> QED BY <3>1, <3>2
  <2>3. /\ vehicles' \in Table /\ version' \in 0..MaxVersion
        /\ enabled' \in BOOLEAN /\ redisUp' \in BOOLEAN
    BY DEF ApiTypeOK
  <2> QED BY <2>2, <2>3 DEF ApiTypeOK
<1>5. StaleOnlyByRace'
  <2> SUFFICES ASSUME cache'.stored, cache'.body # vehicles', ~cache'.late, ~dropped'
               PROVE  \E u \in Worker : work'[u].pc \in {"invalidate", "del"}
    BY DEF StaleOnlyByRace
  <2>1. /\ cache' = cache /\ ~dropped
        /\ work[w].pc \in {"invalidate", "del"} => r.pc \in {"invalidate", "del"}
    OBVIOUS
  <2>2. PICK u \in Worker : work[u].pc \in {"invalidate", "del"}
    BY <2>1 DEF StaleOnlyByRace
  <2> QED BY <1>1, <2>1, <2>2
<1> QED BY <1>2, <1>3, <1>4, <1>5

\* A change of the table leaves its maker with the invalidation to do, and
\* marks the bodies that were read before it.
LEMMA ChangedInv ==
    ASSUME ApiInv, NEW w \in Worker, work[w].pc \in {"idle", "apply"},
           NEW table \in Table, Changed(table, w), UNCHANGED <<redisVars, dropped>>
    PROVE  ApiInv'
<1> USE DEF ApiInv
<1> DEFINE new(u) == IF u = w THEN [work[w] EXCEPT !.pc = "invalidate"]
                     ELSE [work[u] EXCEPT !.late = @ \/ work[u].pc \in {"store", "set"}]
<1>0. /\ version < MaxVersion /\ vehicles' = table /\ version' = version + 1
      /\ work' = [u \in Worker |-> new(u)]
      /\ UNCHANGED <<cache, redisUp, enabled, available, dropped>>
  BY DEF Changed, redisVars
<1>1. ASSUME NEW u \in Worker
      PROVE  /\ new(u) \in ApiRequest /\ HoldingTold(new(u)) /\ BodyCurrent(new(u), table)
             /\ new(u).holding = work[u].holding
  <2>1. work[u] \in ApiRequest /\ work[w] \in ApiRequest /\ HoldingTold(work[u])
    OBVIOUS
  <2>2. (work[u].late \/ work[u].pc \in {"store", "set"}) \in BOOLEAN
    BY Zenon
  <2>3. CASE u = w
    BY <2>1, <2>3 DEF ApiRequest, RequestPcs, HoldingTold, BodyCurrent
  <2>4. CASE u # w
    <3> DEFINE b == work[u].late \/ work[u].pc \in {"store", "set"}
    <3>1. b \in BOOLEAN /\ (work[u].pc \in {"store", "set"} => b)
      BY <2>2
    <3>2. new(u) = [work[u] EXCEPT !.late = b]
      BY <2>4
    <3> HIDE DEF b, new
    <3> QED BY <2>1, <3>1, <3>2 DEF ApiRequest, HoldingTold, BodyCurrent
  <2> QED BY <2>3, <2>4
<1> HIDE DEF new
<1>2. work' \in [Worker -> ApiRequest] /\ \A u \in Worker : work'[u] = new(u)
  BY <1>0, <1>1
<1>3. \A u \in Worker : HoldingTold(work[u])' /\ BodyCurrent(work[u], vehicles)'
  <2>1. \A u \in Worker : HoldingTold(work'[u]) /\ BodyCurrent(work'[u], table)
    BY <1>1, <1>2
  <2> QED BY <1>0, <2>1 DEF HoldingTold, BodyCurrent
<1>4. Holding' = Holding
  BY <1>1, <1>2 DEF Holding
<1>5. ApiTypeOK'
  BY <1>0, <1>4, ApiAssumptions DEF ApiTypeOK
<1>6. StaleOnlyByRace'
  <2>1. work'[w].pc = "invalidate"
    BY <1>0 DEF new, ApiRequest
  <2> QED BY <2>1 DEF StaleOnlyByRace
<1> QED BY <1>0, <1>2, <1>3, <1>5, <1>6

\* The requests after worker w has gone on to p, with a connection or without.
WithClient(w, p) == [work EXCEPT ![w].pc = p, ![w].holding = TRUE]
WithoutClient(w, p) == [work EXCEPT ![w].pc = p, ![w].holding = FALSE]

\* A request that got a connection keeps its body.
LEMMA GoesOnWith ==
    ASSUME ApiInv, NEW w \in Worker, NEW p \in RequestPcs, work' = WithClient(w, p)
    PROVE  \E r \in ApiRequest :
               /\ work' = [work EXCEPT ![w] = r] /\ r.pc = p /\ r.holding
               /\ r.body = work[w].body /\ r.late = work[w].late
<1> DEFINE r == [work[w] EXCEPT !.pc = p, !.holding = TRUE]
<1>1. work[w] \in ApiRequest /\ work \in [Worker -> ApiRequest]
  BY DEF ApiInv
<1>2. /\ r \in ApiRequest /\ r.pc = p /\ r.holding
      /\ r.body = work[w].body /\ r.late = work[w].late
  BY <1>1 DEF ApiRequest
<1>3. work' = [work EXCEPT ![w] = r]
  BY <1>1 DEF ApiRequest, WithClient
<1> QED BY <1>2, <1>3

\* So does one that gave it back.
LEMMA GoesOnWithout ==
    ASSUME ApiInv, NEW w \in Worker, NEW p \in RequestPcs, work' = WithoutClient(w, p)
    PROVE  \E r \in ApiRequest :
               /\ work' = [work EXCEPT ![w] = r] /\ r.pc = p /\ ~r.holding
               /\ r.body = work[w].body /\ r.late = work[w].late
<1> DEFINE r == [work[w] EXCEPT !.pc = p, !.holding = FALSE]
<1>1. work[w] \in ApiRequest /\ work \in [Worker -> ApiRequest]
  BY DEF ApiInv
<1>2. /\ r \in ApiRequest /\ r.pc = p /\ ~r.holding
      /\ r.body = work[w].body /\ r.late = work[w].late
  BY <1>1 DEF ApiRequest
<1>3. work' = [work EXCEPT ![w] = r]
  BY <1>1 DEF ApiRequest, WithoutClient
<1> QED BY <1>2, <1>3

\* What release does to the pool of clients.
LEMMA ReleaseEffect ==
    ASSUME ApiInv, NEW w \in Worker, work[w].holding, NEW r \in ApiRequest, ~r.holding,
           work' = [work EXCEPT ![w] = r], NEW h \in BOOLEAN, Release(h)
    PROVE  /\ available' \in Nat /\ (~enabled => available' = 0)
           /\ enabled => available' + Holding' <= PoolSize
<1>1. Holding \in Nat /\ Holding' = Holding - 1
  BY HoldingNext
<1>2. /\ available \in Nat /\ PoolSize \in Nat /\ (~enabled => available = 0)
      /\ enabled => available + Holding <= PoolSize
  BY ApiAssumptions DEF ApiInv, ApiTypeOK
<1>3. available' = available \/ (enabled /\ available' = available + 1)
  BY DEF Release
<1> QED BY <1>1, <1>2, <1>3

\* The pool when no connection is lent or given back.
LEMMA PoolAsBefore ==
    ASSUME ApiInv, NEW w \in Worker, NEW r \in ApiRequest, r.holding <=> work[w].holding,
           work' = [work EXCEPT ![w] = r], UNCHANGED available
    PROVE  /\ available' \in Nat /\ (~enabled => available' = 0)
           /\ enabled => available' + Holding' <= PoolSize
<1>1. Holding' = Holding
  BY HoldingNext
<1> QED BY <1>1, ApiAssumptions DEF ApiInv, ApiTypeOK

\* The pool when a connection is lent.
LEMMA AcquireEffect ==
    ASSUME ApiInv, NEW w \in Worker, ~work[w].holding, NEW r \in ApiRequest, r.holding,
           work' = [work EXCEPT ![w] = r], CanAcquire, available' = available - 1
    PROVE  /\ available' \in Nat /\ (~enabled => available' = 0)
           /\ enabled => available' + Holding' <= PoolSize
<1>1. Holding \in Nat /\ Holding' = Holding + 1
  BY HoldingNext
<1>2. /\ available \in Nat /\ PoolSize \in Nat /\ available > 0 /\ enabled
      /\ available + Holding <= PoolSize
  BY ApiAssumptions DEF ApiInv, ApiTypeOK, CanAcquire
<1> QED BY <1>1, <1>2

\* GET /api/vehicles keeps the invariant: what it stores is the table, or is
\* marked as overtaken.
LEMMA GetInv ==
    ASSUME ApiInv, NEW w \in Worker,
           BeginGet(w) \/ CacheGet(w) \/ ReadTable(w) \/ BeginStore(w) \/ CacheSet(w)
    PROVE  ApiInv'
<1>0. /\ UNCHANGED <<vehicles, version, redisUp, enabled>>
      /\ HoldingTold(work[w]) /\ BodyCurrent(work[w], vehicles)
      /\ work[w] \in ApiRequest /\ work \in [Worker -> ApiRequest]
      /\ redisUp \in BOOLEAN /\ dropped \in BOOLEAN
      /\ cache = NoEntry \/ cache \in [stored : {TRUE}, body : Table, late : BOOLEAN]
  BY DEF BeginGet, CacheGet, ReadTable, BeginStore, CacheSet, redisVars, ApiInv, ApiTypeOK
<1>1. CASE BeginGet(w)
  <2>0. /\ work[w].pc = "idle" /\ ~work[w].holding /\ UNCHANGED <<cache, dropped>>
    BY <1>0, <1>1 DEF BeginGet, HoldingTold
  <2>1. ASSUME NEW p \in {"get", "read"}, NEW h \in BOOLEAN, h <=> p = "get",
               work' = [work EXCEPT ![w] = [Idle EXCEPT !.pc = p, !.op = "get", !.holding = h]],
               \/ h /\ CanAcquire /\ available' = available - 1
               \/ ~h /\ UNCHANGED available
        PROVE  ApiInv'
    <3> DEFINE r == [Idle EXCEPT !.pc = p, !.op = "get", !.holding = h]
    <3>1. r \in ApiRequest /\ r.pc = p /\ r.holding = h
      BY IdleTyped DEF ApiRequest, RequestPcs
    <3> HIDE DEF r
    <3>2. HoldingTold(r) /\ BodyCurrent(r, vehicles)
      BY <2>1, <3>1 DEF HoldingTold, BodyCurrent
    <3>3. work' = [work EXCEPT ![w] = r]
      BY <2>1 DEF r
    <3>4. /\ available' \in Nat /\ (~enabled => available' = 0)
          /\ enabled => available' + Holding' <= PoolSize
      BY <2>0, <2>1, <3>1, <3>3, AcquireEffect, PoolAsBefore
    <3> QED BY <1>0, <2>0, <3>1, <3>2, <3>3, <3>4, WorkerChanges
  <2>2. CASE CanAcquire
    <3>1. /\ work' = [work EXCEPT ![w] = [Idle EXCEPT !.pc = "get", !.op = "get",
                                                      !.holding = TRUE]]
          /\ available' = available - 1
      BY <1>1, <2>2 DEF BeginGet
    <3> QED BY <2>1, <2>2, <3>1
  <2>3. CASE ~CanAcquire
    <3>1. /\ work' = [work EXCEPT ![w] = [Idle EXCEPT !.pc = "read", !.op = "get"]]
          /\ UNCHANGED available
      BY <1>1, <2>3 DEF BeginGet
    <3>2. [Idle EXCEPT !.pc = "read", !.op = "get"]
            = [Idle EXCEPT !.pc = "read", !.op = "get", !.holding = FALSE]
      <4>1. Idle \in ApiRequest /\ Idle.holding = FALSE
        BY IdleTyped DEF ApiRequest
      <4> QED BY <4>1 DEF ApiRequest
    <3> QED BY <2>1, <3>1, <3>2
  <2> QED BY <2>2, <2>3
<1>2. CASE CacheGet(w)
  <2>0. /\ work[w].pc = "get" /\ work[w].holding /\ UNCHANGED <<cache, dropped>>
        /\ Release(redisUp)
    BY <1>0, <1>2 DEF CacheGet, HoldingTold
  <2>1. PICK r \in ApiRequest : /\ work' = [work EXCEPT ![w] = r] /\ ~r.holding
                                /\ r.pc \in {"idle", "read"}
    <3>1. CASE work' = [work EXCEPT ![w] = Idle]
      BY <3>1, IdleTyped
    <3>2. CASE work' = [work EXCEPT ![w].pc = "read", ![w].holding = FALSE]
      <4>1. "read" \in RequestPcs /\ work' = WithoutClient(w, "read")
        BY <3>2 DEF RequestPcs, WithoutClient
      <4>2. PICK r \in ApiRequest : /\ work' = [work EXCEPT ![w] = r] /\ r.pc = "read"
                                    /\ ~r.holding
        BY <4>1, GoesOnWithout
      <4> QED BY <4>2
    <3> QED BY <1>2, <3>1, <3>2 DEF CacheGet, Answer
  <2>2. HoldingTold(r) /\ BodyCurrent(r, vehicles)
    BY <2>1 DEF HoldingTold, BodyCurrent
  <2>3. /\ available' \in Nat /\ (~enabled => available' = 0)
        /\ enabled => available' + Holding' <= PoolSize
    BY <1>0, <2>0, <2>1, ReleaseEffect
  <2> QED BY <1>0, <2>0, <2>1, <2>2, <2>3, WorkerChanges
<1>3. CASE ReadTable(w)
  <2> DEFINE r == [work[w] EXCEPT !.pc = "store", !.body = vehicles, !.late = FALSE]
  <2>0. /\ work[w].pc = "read" /\ UNCHANGED <<cache, available, dropped>>
        /\ work' = [work EXCEPT ![w].pc = "store", ![w].body = vehicles, ![w].late = FALSE]
    BY <1>3 DEF ReadTable, redisVars
  <2>1. vehicles \in Table
    BY DEF ApiInv, ApiTypeOK
  <2>2. /\ r \in ApiRequest /\ r.pc = "store" /\ r.body = vehicles
        /\ r.holding = work[w].holding /\ work' = [work EXCEPT ![w] = r]
    BY <1>0, <2>0, <2>1 DEF ApiRequest, RequestPcs
  <2> HIDE DEF r
  <2>3. HoldingTold(r) /\ BodyCurrent(r, vehicles)
    BY <1>0, <2>0, <2>2 DEF HoldingTold, BodyCurrent
  <2>4. /\ available' \in Nat /\ (~enabled => available' = 0)
        /\ enabled => available' + Holding' <= PoolSize
    BY <2>0, <2>2, PoolAsBefore
  <2> QED BY <1>0, <2>0, <2>2, <2>3, <2>4, WorkerChanges
<1>4. CASE BeginStore(w)
  <2>0. /\ work[w].pc = "store" /\ ~work[w].holding /\ UNCHANGED <<cache, dropped>>
        /\ Acquire(w, "set", "idle")
    BY <1>0, <1>4 DEF BeginStore, HoldingTold
  <2>1. CASE CanAcquire
    <3>1. /\ available' = available - 1
          /\ work' = [work EXCEPT ![w].pc = "set", ![w].holding = TRUE]
      BY <2>0, <2>1 DEF Acquire
    <3>2. PICK r \in ApiRequest : /\ work' = [work EXCEPT ![w] = r] /\ r.pc = "set" /\ r.holding
                                  /\ r.body = work[w].body /\ r.late = work[w].late
      <4>1. "set" \in RequestPcs /\ work' = WithClient(w, "set")
        BY <3>1 DEF RequestPcs, WithClient
      <4>2. PICK r \in ApiRequest : /\ work' = [work EXCEPT ![w] = r] /\ r.pc = "set"
                                    /\ r.holding
                                    /\ r.body = work[w].body /\ r.late = work[w].late
        BY <4>1, GoesOnWith
      <4> QED BY <4>2
    <3>3. HoldingTold(r) /\ BodyCurrent(r, vehicles)
      BY <1>0, <2>0, <3>2 DEF HoldingTold, BodyCurrent
    <3>4. /\ available' \in Nat /\ (~enabled => available' = 0)
          /\ enabled => available' + Holding' <= PoolSize
      BY <2>0, <2>1, <3>1, <3>2, AcquireEffect
    <3> QED BY <1>0, <2>0, <3>2, <3>3, <3>4, WorkerChanges
  <2>2. CASE ~CanAcquire
    <3>1. work' = [work EXCEPT ![w] = Idle] /\ UNCHANGED available
      BY <2>0, <2>2 DEF Acquire, Answer
    <3>2. /\ available' \in Nat /\ (~enabled => available' = 0)
          /\ enabled => available' + Holding' <= PoolSize
      BY <2>0, <3>1, IdleTyped, PoolAsBefore
    <3> QED BY <1>0, <2>0, <3>1, <3>2, IdleTyped, WorkerChanges
  <2> QED BY <2>1, <2>2
<1>5. CASE CacheSet(w)
  <2>0. /\ work[w].pc = "set" /\ work[w].holding /\ Release(redisUp)
        /\ work' = [work EXCEPT ![w] = Idle]
        /\ \/ cache' = Entry(w) /\ dropped' = FALSE
           \/ UNCHANGED <<cache, dropped>>
    BY <1>0, <1>5 DEF CacheSet, HoldingTold, Answer
  <2>1. /\ available' \in Nat /\ (~enabled => available' = 0)
        /\ enabled => available' + Holding' <= PoolSize
    BY <1>0, <2>0, IdleTyped, ReleaseEffect
  <2>2. CASE cache' = Entry(w) /\ dropped' = FALSE
    <3>1. /\ cache' \in [stored : {TRUE}, body : Table, late : BOOLEAN]
          /\ cache'.late \/ cache'.body = vehicles
      BY <1>0, <2>0, <2>2 DEF Entry, ApiRequest, BodyCurrent
    <3>2. dropped' \in BOOLEAN
      BY <2>2, Zenon
    <3> QED BY <1>0, <2>0, <2>1, <3>1, <3>2, IdleTyped, WorkerChanges
  <2>3. CASE UNCHANGED <<cache, dropped>>
    BY <1>0, <2>0, <2>1, <2>3, IdleTyped, WorkerChanges
  <2> QED BY <2>0, <2>2, <2>3
<1> QED BY <1>1, <1>2, <1>3, <1>4, <1>5

\* register, update and delete, and the snapshot of the game: a change of
\* the table is followed by its invalidation.
LEMMA ChangeInv ==
    ASSUME ApiInv, NEW w \in Worker,
           \/ Apply(w)
           \/ \E v \in Vehicle, op \in {"register", "update", "delete"} : CheckVehicle(w, op, v)
           \/ \E S \in SUBSET Vehicle : HandleGameVehicleSnapshot(w, S)
    PROVE  ApiInv'
<1>0. /\ HoldingTold(work[w]) /\ work[w] \in ApiRequest /\ work \in [Worker -> ApiRequest]
      /\ vehicles \in Table /\ version \in 0..MaxVersion /\ MaxVersion \in Nat
      /\ dropped \in BOOLEAN
      /\ cache = NoEntry \/ cache \in [stored : {TRUE}, body : Table, late : BOOLEAN]
  BY ApiAssumptions DEF ApiInv, ApiTypeOK
<1>1. ASSUME NEW r \in ApiRequest, r.pc \in {"idle", "apply"}, ~r.holding,
             work[w].pc \in {"idle", "apply"}, work' = [work EXCEPT ![w] = r],
             UNCHANGED <<vehicles, version, redisVars, dropped>>
      PROVE  ApiInv'
  <2>1. HoldingTold(r) /\ BodyCurrent(r, vehicles) /\ ~work[w].holding
    BY <1>0, <1>1 DEF HoldingTold, BodyCurrent
  <2>2. UNCHANGED <<cache, redisUp, enabled, available>>
    BY <1>1 DEF redisVars
  <2>3. /\ available' \in Nat /\ (~enabled => available' = 0)
        /\ enabled => available' + Holding' <= PoolSize
    BY <1>1, <2>1, <2>2, PoolAsBefore
  <2> QED BY <1>0, <1>1, <2>1, <2>2, <2>3, WorkerChanges
<1>2. ASSUME NEW v \in Vehicle, NEW op \in {"register", "update", "delete"},
             CheckVehicle(w, op, v)
      PROVE  ApiInv'
  <2> DEFINE r == IF (op = "register") = Present(v) THEN Idle
                  ELSE [Idle EXCEPT !.pc = "apply", !.op = op, !.id = v]
  <2>1. r \in ApiRequest /\ r.pc \in {"idle", "apply"} /\ ~r.holding
    BY IdleTyped DEF ApiRequest, RequestPcs
  <2>2. /\ work[w].pc = "idle" /\ work' = [work EXCEPT ![w] = r]
        /\ UNCHANGED <<vehicles, version, redisVars, dropped>>
    BY <1>2 DEF CheckVehicle
  <2> HIDE DEF r
  <2> QED BY <1>1, <2>1, <2>2
<1>3. ASSUME NEW S \in SUBSET Vehicle, HandleGameVehicleSnapshot(w, S) PROVE ApiInv'
  <2> DEFINE table == [v \in Vehicle |-> IF v \in S THEN version + 1 ELSE 0]
  <2>1. /\ work[w].pc = "idle" /\ Changed(table, w) /\ UNCHANGED <<redisVars, dropped>>
        /\ version < MaxVersion
    BY <1>3 DEF HandleGameVehicleSnapshot, Changed
  <2>2. table \in Table
    BY <1>0, <2>1 DEF Table
  <2> HIDE DEF table
  <2> QED BY <2>1, <2>2, ChangedInv
<1>4. CASE Apply(w)
  <2>0. work[w].pc = "apply" /\ UNCHANGED <<redisVars, dropped>>
    BY <1>4 DEF Apply
  <2>1. CASE work' = [work EXCEPT ![w] = Idle] /\ UNCHANGED <<vehicles, version>>
    BY <1>1, <2>0, <2>1, IdleTyped
  <2>2. ASSUME NEW v, NEW n \in 0..MaxVersion, Changed([vehicles EXCEPT ![v] = n], w)
        PROVE  ApiInv'
    <3> DEFINE table == [vehicles EXCEPT ![v] = n]
    <3>1. table \in Table
      BY <1>0 DEF Table
    <3>2. Changed(table, w)
      BY <2>2
    <3> HIDE DEF table
    <3> QED BY <2>0, <3>1, <3>2, ChangedInv
  <2>3. 0 \in 0..MaxVersion /\ (version < MaxVersion => version + 1 \in 0..MaxVersion)
    BY <1>0
  <2>4. \/ work' = [work EXCEPT ![w] = Idle] /\ UNCHANGED <<vehicles, version>>
        \/ Changed([vehicles EXCEPT ![work[w].id] = version + 1], w)
        \/ Changed([vehicles EXCEPT ![work[w].id] = 0], w)
    BY <1>4 DEF Apply, RegisterVehicle, UpdateVehicle, RemoveVehicle, Answer
  <2>5. CASE Changed([vehicles EXCEPT ![work[w].id] = version + 1], w)
    <3>1. version < MaxVersion
      BY <2>5 DEF Changed
    <3> QED BY <2>2, <2>3, <2>5, <3>1
  <2>6. CASE Changed([vehicles EXCEPT ![work[w].id] = 0], w)
    BY <2>2, <2>3, <2>6
  <2> QED BY <2>1, <2>4, <2>5, <2>6
<1> QED BY <1>2, <1>3, <1>4

\* invalidateRedisCaches: it removes the entry, or leaves word that it did
\* not.
LEMMA InvalidateInv ==
    ASSUME ApiInv, NEW w \in Worker, BeginInvalidate(w) \/ CacheRemove(w)
    PROVE  ApiInv'
<1>0. /\ UNCHANGED <<vehicles, version, redisUp, enabled>>
      /\ HoldingTold(work[w]) /\ work[w] \in ApiRequest
      /\ redisUp \in BOOLEAN /\ dropped \in BOOLEAN
      /\ cache = NoEntry \/ cache \in [stored : {TRUE}, body : Table, late : BOOLEAN]
  BY DEF BeginInvalidate, CacheRemove, ApiInv, ApiTypeOK
<1>1. CASE BeginInvalidate(w)
  <2>0. /\ work[w].pc = "invalidate" /\ ~work[w].holding /\ UNCHANGED cache
        /\ Acquire(w, "del", "idle") /\ dropped' = (dropped \/ ~CanAcquire)
    BY <1>0, <1>1 DEF BeginInvalidate, HoldingTold
  <2>1. dropped' \in BOOLEAN
    BY <2>0, Zenon
  <2>2. CASE CanAcquire
    <3>1. /\ available' = available - 1 /\ "del" \in RequestPcs /\ work' = WithClient(w, "del")
      BY <2>0, <2>2 DEF Acquire, WithClient, RequestPcs
    <3>2. PICK r \in ApiRequest : work' = [work EXCEPT ![w] = r] /\ r.pc = "del" /\ r.holding
      BY <3>1, GoesOnWith
    <3>3. HoldingTold(r) /\ BodyCurrent(r, vehicles)
      BY <3>2 DEF HoldingTold, BodyCurrent
    <3>4. /\ available' \in Nat /\ (~enabled => available' = 0)
          /\ enabled => available' + Holding' <= PoolSize
      BY <2>0, <2>2, <3>1, <3>2, AcquireEffect
    <3>5. dropped => dropped'
      BY <2>0
    <3> QED BY <1>0, <2>0, <2>1, <3>2, <3>3, <3>4, <3>5, WorkerChanges
  <2>3. CASE ~CanAcquire
    <3>1. work' = [work EXCEPT ![w] = Idle] /\ UNCHANGED available /\ dropped'
      BY <2>0, <2>3 DEF Acquire, Answer
    <3>2. /\ available' \in Nat /\ (~enabled => available' = 0)
          /\ enabled => available' + Holding' <= PoolSize
      BY <2>0, <3>1, IdleTyped, PoolAsBefore
    <3> QED BY <1>0, <2>0, <2>1, <3>1, <3>2, IdleTyped, WorkerChanges
  <2> QED BY <2>2, <2>3
<1>2. CASE CacheRemove(w)
  <2>0. /\ work[w].pc = "del" /\ work[w].holding /\ Release(redisUp)
        /\ work' = [work EXCEPT ![w] = Idle]
        /\ \/ cache' = NoEntry /\ dropped' = FALSE
           \/ UNCHANGED cache /\ dropped' = TRUE
    BY <1>0, <1>2 DEF CacheRemove, HoldingTold, Answer
  <2>1. /\ available' \in Nat /\ (~enabled => available' = 0)
        /\ enabled => available' + Holding' <= PoolSize
    BY <1>0, <2>0, IdleTyped, ReleaseEffect
  <2>2. dropped' \in BOOLEAN
    BY <2>0, Zenon
  <2>3. CASE cache' = NoEntry
    <3>1. ~cache'.stored
      BY <2>3 DEF NoEntry
    <3> QED BY <1>0, <2>0, <2>1, <2>2, <2>3, <3>1, IdleTyped, WorkerChanges
  <2>4. CASE UNCHANGED cache /\ dropped' = TRUE
    BY <1>0, <2>0, <2>1, <2>2, <2>4, IdleTyped, WorkerChanges
  <2> QED BY <2>0, <2>3, <2>4
<1> QED BY <1>1, <1>2

\* Redis and the shutdown of its client pool keep the invariant.
LEMMA RedisInv ==
    ASSUME ApiInv, EntryExpires \/ RedisDown \/ RedisBack \/ Shutdown
    PROVE  ApiInv'
<1> USE DEF ApiInv
<1>0. UNCHANGED <<vehicles, version, work>>
  BY DEF EntryExpires, RedisDown, RedisBack, Shutdown
<1>1. Holding' = Holding
  BY <1>0 DEF Holding
<1>2. /\ work' \in [Worker -> ApiRequest]
      /\ \A w \in Worker : HoldingTold(work[w])' /\ BodyCurrent(work[w], vehicles)'
  BY <1>0 DEF HoldingTold, BodyCurrent
<1>3. CASE EntryExpires
  <2>1. dropped' \in BOOLEAN /\ cache' = NoEntry /\ UNCHANGED <<redisUp, enabled, available>>
    BY <1>3, Zenon DEF EntryExpires
  <2>2. ~cache'.stored
    BY <2>1 DEF NoEntry
  <2>3. ApiTypeOK'
    BY <1>0, <1>1, <2>1 DEF ApiTypeOK
  <2> QED BY <1>2, <2>1, <2>2, <2>3 DEF StaleOnlyByRace
<1>4. CASE RedisDown \/ RedisBack
  <2>1. UNCHANGED <<cache, enabled, available, dropped>>
    BY <1>4 DEF RedisDown, RedisBack
  <2>2. redisUp' \in BOOLEAN
    BY <1>4, Zenon DEF RedisDown, RedisBack
  <2>3. ApiTypeOK'
    BY <1>0, <1>1, <2>1, <2>2 DEF ApiTypeOK
  <2> QED BY <1>0, <1>2, <2>1, <2>3 DEF StaleOnlyByRace
<1>5. CASE Shutdown
  <2>1. /\ UNCHANGED <<cache, redisUp, dropped>> /\ available' = 0 /\ ~enabled'
        /\ enabled' \in BOOLEAN
    <3>1. enabled' \in BOOLEAN
      BY <1>5, Zenon DEF Shutdown
    <3> QED BY <1>5, <3>1 DEF Shutdown
  <2>2. ApiTypeOK'
    BY <1>0, <2>1, ApiAssumptions DEF ApiTypeOK
  <2> QED BY <1>0, <1>2, <2>1, <2>2 DEF StaleOnlyByRace
<1> QED BY <1>3, <1>4, <1>5

\* Before the first request, with whatever connections init could open.
LEMMA ApiInitInv == ApiInit => ApiInv
<1> SUFFICES ASSUME ApiInit PROVE ApiInv
  OBVIOUS
<1>1. \A w \in Worker : work[w] = Idle
  BY DEF ApiInit
<1>2. Holding = 0
  <2>1. {w \in Worker : work[w].holding} = {}
    BY <1>1, IdleTyped
  <2> QED BY <2>1, FS_EmptySet DEF Holding
<1>3. /\ redisUp \in BOOLEAN /\ dropped \in BOOLEAN /\ enabled \in BOOLEAN
  <2>1. redisUp = TRUE /\ dropped = FALSE
    BY DEF ApiInit
  <2>2. enabled \in BOOLEAN
    BY DEF ApiInit
  <2> QED BY <2>1, <2>2, Zenon
<1>4. vehicles \in Table /\ version \in 0..MaxVersion
  BY ApiAssumptions DEF ApiInit, NoBody, Table
<1>5. /\ available \in 0..PoolSize /\ (enabled <=> available > 0) /\ PoolSize \in Nat
  BY ApiAssumptions DEF ApiInit
<1>6. ApiTypeOK
  BY <1>2, <1>3, <1>4, <1>5 DEF ApiTypeOK
<1>7. work \in [Worker -> ApiRequest]
  BY IdleTyped DEF ApiInit
<1>8. StaleOnlyByRace
  BY DEF ApiInit, NoEntry, StaleOnlyByRace
<1> QED BY <1>1, <1>6, <1>7, <1>8, IdleTyped DEF ApiInv, ApiInit

\* Every step keeps the invariant.
LEMMA ApiStep == ApiInv /\ [ApiNext]_apiVars => ApiInv'
<1> SUFFICES ASSUME ApiInv, [ApiNext]_apiVars PROVE ApiInv'
  OBVIOUS
<1>1. CASE UNCHANGED apiVars
  BY <1>1 DEF apiVars, ApiInv, ApiTypeOK, Holding, HoldingTold, BodyCurrent, StaleOnlyByRace
<1>2. CASE ApiNext
  BY <1>2, RedisInv, GetInv, ChangeInv, InvalidateInv DEF ApiNext
<1> QED BY <1>1, <1>2

\* The type invariant of the endpoints: lent connections included, the client
\* pool never has more than redis_pool_size, and is empty after shutdown.
THEOREM ApiTypeCorrect == ApiSpec => []ApiTypeOK
<1>1. ApiInv => ApiTypeOK
  BY DEF ApiInv
<1> QED BY <1>1, ApiInitInv, ApiStep, PTL DEF ApiSpec

\* The cached vehicle list is out of date only for a known reason: an
\* invalidation under way or not carried out, or an entry written by a reader
\* that a change overtook.  For any number of workers, vehicles and changes,
\* and whatever Redis does.
THEOREM StaleCacheExplained == ApiSpec => []StaleOnlyByRace
<1>1. ApiInv => StaleOnlyByRace
  BY DEF ApiInv
<1> QED BY <1>1, ApiInitInv, ApiStep, PTL DEF ApiSpec

-----------------------------------------------------------------------------
(* The database connection pool, whatever the database does: threads       *)
(* borrow, wait, are woken, replace dead connections and give back.        *)

Stages == {"idle", "asleep", "woken", "using", "pinged", "replacing", "replaced"}

\* The threads whose stage is in S.
At(S) == {t \in Thread : stage[t] \in S}

-----------------------------------------------------------------------------
(* The inductive invariant.                                                *)

\* A thread has a connection exactly in the stages that use one.
StageTellsConn ==
    \A t \in Thread : conn[t] # NoConn <=> stage[t] \in {"using", "pinged", "replaced"}

\* The pool and the replacements under way never exceed max_conn: the count
\* is taken down when a dead connection is closed and up again when its
\* replacement is put into the queue.
WithinCapacity ==
    initialized => Len(connQueue) + Cardinality(At({"using", "pinged"}))
                       + Cardinality(At({"replacing", "replaced"})) <= MaxConn

\* A stopped pool is empty.
StoppedPoolEmpty == ~initialized => connQueue = <<>> /\ curConn = 0

\* The inductive invariant.
PoolInv ==
    /\ PoolTypeOK
    /\ connQueue \in Seq(Conn)
    /\ StageTellsConn
    /\ ConnectionsConserved
    /\ WithinCapacity
    /\ StoppedPoolEmpty
    /\ NoLostWakeup

-----------------------------------------------------------------------------
(* Counting threads.                                                       *)

\* Two sets of threads that differ in thread t at most.
LEMMA CountMove ==
    ASSUME NEW F \in SUBSET Thread, NEW G \in SUBSET Thread, NEW t \in Thread,
           F \ {t} = G \ {t}
    PROVE  /\ Cardinality(F) \in Nat /\ Cardinality(G) \in Nat
           /\ (t \in F <=> t \in G) => Cardinality(G) = Cardinality(F)
           /\ (t \in F /\ t \notin G) => Cardinality(G) = Cardinality(F) - 1
           /\ (t \notin F /\ t \in G) => Cardinality(G) = Cardinality(F) + 1
<1>1. IsFiniteSet(F) /\ IsFiniteSet(G)
  BY PoolAssumptions, FS_Subset
<1>2. Cardinality(F) \in Nat /\ Cardinality(G) \in Nat
  BY <1>1, FS_CardinalityType
<1>3. CASE t \in F <=> t \in G
  <2>1. G = F
    BY <1>3
  <2> QED BY <1>2, <1>3, <2>1
<1>4. CASE t \in F /\ t \notin G
  <2>1. G = F \ {t}
    BY <1>4
  <2>2. Cardinality(F \ {t}) = Cardinality(F) - 1
    BY <1>1, <1>4, FS_RemoveElement
  <2> QED BY <1>2, <1>4, <2>1, <2>2
<1>5. CASE t \notin F /\ t \in G
  <2>1. G = F \cup {t}
    BY <1>5
  <2>2. Cardinality(F \cup {t}) = Cardinality(F) + 1
    BY <1>1, <1>5, FS_AddElement
  <2> QED BY <1>2, <1>5, <2>1, <2>2
<1> QED BY <1>3, <1>4, <1>5

-----------------------------------------------------------------------------
(* The queue of free connections.                                          *)

\* A connection that is put behind the others.
LEMMA AppendFacts ==
    ASSUME NEW q \in Seq(Conn), IsInjective(q), NEW c \in Conn, c \notin Range(q),
           NEW p, p = Append(q, c)
    PROVE  /\ p \in Seq(Conn) /\ IsInjective(p) /\ Range(p) = Range(q) \cup {c}
           /\ Len(q) \in Nat /\ Len(p) = Len(q) + 1
<1>1. /\ p \in Seq(Conn) /\ Len(q) \in Nat /\ Len(p) = Len(q) + 1
      /\ \A i \in 1..Len(q) : p[i] = q[i]
      /\ p[Len(q) + 1] = c
  OBVIOUS
<1>2. DOMAIN q = 1..Len(q) /\ DOMAIN p = 1..(Len(q) + 1)
  BY <1>1
<1>3. \A i \in 1..Len(q) : q[i] \in Range(q)
  BY <1>2 DEF Range
<1>4. IsInjective(p)
  BY <1>1, <1>2, <1>3 DEF IsInjective
<1>5. Range(p) = Range(q) \cup {c}
  BY <1>1, <1>2 DEF Range
<1> QED BY <1>1, <1>4, <1>5

\* The first connection is taken.
LEMMA TailFacts ==
    ASSUME NEW q \in Seq(Conn), IsInjective(q), q # <<>>, NEW p, p = Tail(q)
    PROVE  /\ p \in Seq(Conn) /\ IsInjective(p) /\ Range(p) = Range(q) \ {Head(q)}
           /\ Head(q) \in Range(q) /\ Head(q) \in Conn
           /\ Len(q) \in Nat \ {0} /\ Len(p) = Len(q) - 1
<1>1. /\ p \in Seq(Conn) /\ Len(q) \in Nat \ {0} /\ Len(p) = Len(q) - 1
      /\ \A i \in 1..Len(p) : p[i] = q[i + 1]
      /\ Head(q) = q[1] /\ Head(q) \in Conn
  BY HeadTailProperties, EmptySeq
<1>2. DOMAIN q = 1..Len(q) /\ DOMAIN p = 1..(Len(q) - 1)
  BY <1>1
<1>3. IsInjective(p)
  <2> SUFFICES ASSUME NEW a \in DOMAIN p, NEW b \in DOMAIN p, p[a] = p[b] PROVE a = b
    BY DEF IsInjective
  <2>1. a + 1 \in DOMAIN q /\ b + 1 \in DOMAIN q /\ q[a + 1] = q[b + 1]
    BY <1>1, <1>2
  <2>2. a + 1 = b + 1
    BY <2>1 DEF IsInjective
  <2> QED BY <1>1, <1>2, <2>2
<1>4. Range(p) = Range(q) \ {Head(q)}
  <2>1. ASSUME NEW x \in Range(p) PROVE x \in Range(q) /\ x # Head(q)
    <3>1. PICK a \in DOMAIN p : x = p[a]
      BY <2>1 DEF Range
    <3>2. a + 1 \in DOMAIN q /\ x = q[a + 1] /\ a + 1 # 1 /\ 1 \in DOMAIN q
      BY <1>1, <1>2, <3>1
    <3> QED BY <1>1, <3>2 DEF Range, IsInjective
  <2>2. ASSUME NEW x \in Range(q), x # Head(q) PROVE x \in Range(p)
    <3>1. PICK a \in DOMAIN q : x = q[a]
      BY <2>2 DEF Range
    <3>2. a # 1 /\ a \in 1..Len(q)
      BY <1>1, <1>2, <2>2, <3>1
    <3>3. a - 1 \in DOMAIN p /\ p[a - 1] = x
      BY <1>1, <1>2, <3>1, <3>2
    <3> QED BY <3>3 DEF Range
  <2> QED BY <2>1, <2>2
<1>5. Head(q) \in Range(q)
  BY <1>1, <1>2 DEF Range
<1> QED BY <1>1, <1>3, <1>4, <1>5

-----------------------------------------------------------------------------
(* Borrowed connections.                                                   *)

Borrowed == {conn[t] : t \in {u \in Thread : conn[u] # NoConn}}

\* ConnectionsConserved, part by part.
LEMMA Conserved ==
    ConnectionsConserved <=>
        /\ IsInjective(connQueue)
        /\ \A s, t \in Thread : (conn[s] # NoConn /\ conn[s] = conn[t]) => s = t
        /\ \A t \in Thread : conn[t] # NoConn => conn[t] \notin Range(connQueue)
        /\ open = Range(connQueue) \cup Borrowed
        /\ initialized => curConn = Len(connQueue) + Cardinality(At({"using", "pinged"}))
BY DEF ConnectionsConserved, Borrowed, At

\* The same of the next state.
LEMMA ConservedNext ==
    ConnectionsConserved' <=>
        /\ IsInjective(connQueue')
        /\ \A s, t \in Thread : (conn'[s] # NoConn /\ conn'[s] = conn'[t]) => s = t
        /\ \A t \in Thread : conn'[t] # NoConn => conn'[t] \notin Range(connQueue')
        /\ open' = Range(connQueue') \cup Borrowed'
        /\ initialized' => curConn' = Len(connQueue') + Cardinality(At({"using", "pinged"})')
BY DEF ConnectionsConserved, Borrowed, At

\* What is borrowed after thread t has given its connection away.
LEMMA GivenAway ==
    ASSUME PoolInv, NEW t \in Thread, conn[t] # NoConn, conn' = [conn EXCEPT ![t] = NoConn]
    PROVE  /\ conn' \in [Thread -> Conn \cup {NoConn}]
           /\ conn[t] \in Conn /\ conn[t] \in open /\ conn[t] \notin Range(connQueue)
           /\ conn'[t] = NoConn /\ \A u \in Thread : u # t => conn'[u] = conn[u]
           /\ \A u \in Thread : u # t => conn[u] # conn[t]
           /\ Borrowed' = Borrowed \ {conn[t]}
           /\ \A s, u \in Thread : (conn'[s] # NoConn /\ conn'[s] = conn'[u]) => s = u
           /\ open \ {conn[t]} = Range(connQueue) \cup Borrowed'
<1>1. conn \in [Thread -> Conn \cup {NoConn}]
  BY DEF PoolInv, PoolTypeOK
<1>2. /\ \A s, u \in Thread : (conn[s] # NoConn /\ conn[s] = conn[u]) => s = u
      /\ conn[t] \notin Range(connQueue) /\ open = Range(connQueue) \cup Borrowed
  BY Conserved DEF PoolInv
<1>3. /\ conn' \in [Thread -> Conn \cup {NoConn}] /\ conn[t] \in Conn
      /\ conn'[t] = NoConn /\ \A u \in Thread : u # t => conn'[u] = conn[u]
  BY <1>1
<1>4. \A u \in Thread : u # t => conn[u] # conn[t]
  BY <1>2
<1>5. Borrowed' = Borrowed \ {conn[t]} /\ conn[t] \in Borrowed
  BY <1>3, <1>4 DEF Borrowed
<1>6. \A s, u \in Thread : (conn'[s] # NoConn /\ conn'[s] = conn'[u]) => s = u
  BY <1>2, <1>3
<1> QED BY <1>2, <1>3, <1>4, <1>5, <1>6

\* What is borrowed after thread t has got connection c.
LEMMA Obtained ==
    ASSUME PoolInv, NEW t \in Thread, conn[t] = NoConn, NEW c \in Conn, c \notin Borrowed,
           conn' = [conn EXCEPT ![t] = c]
    PROVE  /\ conn' \in [Thread -> Conn \cup {NoConn}]
           /\ conn'[t] = c /\ \A u \in Thread : u # t => conn'[u] = conn[u]
           /\ Borrowed' = Borrowed \cup {c}
           /\ \A s, u \in Thread : (conn'[s] # NoConn /\ conn'[s] = conn'[u]) => s = u
<1>1. conn \in [Thread -> Conn \cup {NoConn}] /\ c # NoConn
  BY PoolAssumptions DEF PoolInv, PoolTypeOK
<1>2. \A s, u \in Thread : (conn[s] # NoConn /\ conn[s] = conn[u]) => s = u
  BY Conserved DEF PoolInv
<1>3. /\ conn' \in [Thread -> Conn \cup {NoConn}]
      /\ conn'[t] = c /\ \A u \in Thread : u # t => conn'[u] = conn[u]
  BY <1>1
<1>4. \A u \in Thread : conn[u] # c
  BY <1>1 DEF Borrowed
<1>5. Borrowed' = Borrowed \cup {c}
  BY <1>1, <1>3 DEF Borrowed
<1>6. \A s, u \in Thread : (conn'[s] # NoConn /\ conn'[s] = conn'[u]) => s = u
  BY <1>2, <1>3, <1>4
<1> QED BY <1>3, <1>5, <1>6

\* The counts after the stage of one thread has changed.
LEMMA StageMove ==
    ASSUME PoolInv, NEW t \in Thread, NEW to \in Stages, stage' = [stage EXCEPT ![t] = to], NEW S
    PROVE  /\ stage' \in [Thread -> Stages]
           /\ stage'[t] = to /\ \A u \in Thread : u # t => stage'[u] = stage[u]
           /\ Cardinality(At(S)) \in Nat /\ Cardinality(At(S)') \in Nat
           /\ (stage[t] \in S <=> to \in S) => Cardinality(At(S)') = Cardinality(At(S))
           /\ (stage[t] \in S /\ to \notin S) => Cardinality(At(S)') = Cardinality(At(S)) - 1
           /\ (stage[t] \notin S /\ to \in S) => Cardinality(At(S)') = Cardinality(At(S)) + 1
<1>1. stage \in [Thread -> Stages]
  BY DEF PoolInv, PoolTypeOK, Stages
<1>2. stage' \in [Thread -> Stages] /\ stage'[t] = to
      /\ \A u \in Thread : u # t => stage'[u] = stage[u]
  BY <1>1
<1>3. /\ At(S) \in SUBSET Thread /\ At(S)' \in SUBSET Thread
      /\ At(S) \ {t} = At(S)' \ {t}
      /\ t \in At(S) <=> stage[t] \in S
      /\ t \in At(S)' <=> to \in S
  BY <1>2 DEF At
<1>4. /\ Cardinality(At(S)) \in Nat /\ Cardinality(At(S)') \in Nat
      /\ (stage[t] \in S <=> to \in S) => Cardinality(At(S)') = Cardinality(At(S))
      /\ (stage[t] \in S /\ to \notin S) => Cardinality(At(S)') = Cardinality(At(S)) - 1
      /\ (stage[t] \notin S /\ to \in S) => Cardinality(At(S)') = Cardinality(At(S)) + 1
  BY <1>3, CountMove
<1> QED BY <1>2, <1>4

\* NoLostWakeup in terms of At.
LEMMA WakeupNext ==
    NoLostWakeup' <=> (At({"asleep"})' # {} =>
        initialized' /\ Len(connQueue') <= Cardinality(At({"woken"})'))
BY DEF NoLostWakeup, Asleep, At

\* NoLostWakeup of this state.
LEMMA WakeupNow ==
    NoLostWakeup <=> (At({"asleep"}) # {} =>
        initialized /\ Len(connQueue) <= Cardinality(At({"woken"})))
BY DEF NoLostWakeup, Asleep, At

-----------------------------------------------------------------------------
(* The steps.                                                              *)

\* Whatever the database does to sessions keeps the invariant.
LEMMA SessionInv ==
    ASSUME PoolInv, UNCHANGED <<open, poolVars, borrowerVars>>, up' \in BOOLEAN, dead' \subseteq open
    PROVE  PoolInv'
<1> USE DEF PoolInv
<1>0. UNCHANGED <<open, initialized, connQueue, curConn, stage, conn, healthy>>
  BY DEF poolVars, borrowerVars
<1>1. \A S : At(S)' = At(S)
  BY <1>0 DEF At
<1>2. ConnectionsConserved' /\ NoLostWakeup'
  BY <1>0 DEF ConnectionsConserved, NoLostWakeup, Asleep
<1>3. PoolTypeOK' /\ StageTellsConn' /\ StoppedPoolEmpty'
  BY <1>0 DEF PoolTypeOK, StageTellsConn, StoppedPoolEmpty
<1>4. WithinCapacity'
  BY <1>0, <1>1 DEF WithinCapacity
<1> QED BY <1>0, <1>2, <1>3, <1>4

\* A thread that only changes between stages that are not counted.
LEMMA StageOnlyInv ==
    ASSUME PoolInv, NEW t \in Thread, NEW to \in Stages, stage' = [stage EXCEPT ![t] = to],
           \/ stage[t] \in {"idle", "woken"} /\ to = "asleep" /\ initialized /\ connQueue = <<>>
           \/ stage[t] \in {"idle", "woken"} /\ to = "idle" /\ ~initialized
           \/ stage[t] = "using" /\ to = "pinged",
           UNCHANGED <<up, open, dead, poolVars, conn>>, healthy' \in [Thread -> BOOLEAN]
    PROVE  PoolInv'
<1> USE DEF PoolInv
<1>0. UNCHANGED <<up, open, dead, initialized, connQueue, curConn, conn>>
  BY DEF poolVars
<1>1. /\ stage' \in [Thread -> Stages] /\ stage'[t] = to
      /\ \A u \in Thread : u # t => stage'[u] = stage[u]
      /\ Cardinality(At({"using", "pinged"})') = Cardinality(At({"using", "pinged"}))
      /\ Cardinality(At({"woken"})') \in Nat
      /\ (stage[t] = "using") => Cardinality(At({"woken"})') = Cardinality(At({"woken"}))
      /\ Cardinality(At({"replacing", "replaced"})') = Cardinality(At({"replacing", "replaced"}))
  BY StageMove
<1>2. PoolTypeOK' /\ StoppedPoolEmpty'
  BY <1>0, <1>1 DEF PoolTypeOK, StoppedPoolEmpty, Stages
<1>3. StageTellsConn'
  BY <1>0, <1>1 DEF StageTellsConn
<1>4. ConnectionsConserved'
  <2>1. Borrowed' = Borrowed
    BY <1>0 DEF Borrowed
  <2> QED BY <1>0, <1>1, <2>1, Conserved, ConservedNext
<1>5. WithinCapacity'
  BY <1>0, <1>1 DEF WithinCapacity
<1>6. NoLostWakeup'
  <2>1. CASE to = "asleep"
    BY <1>0, <1>1, <2>1, WakeupNext, EmptySeq
  <2>2. CASE to # "asleep"
    <3>1. At({"asleep"})' = At({"asleep"})
      BY <1>1, <2>2 DEF At
    <3> QED BY <1>0, <1>1, <2>2, <3>1, WakeupNow, WakeupNext
  <2> QED BY <2>1, <2>2
<1> QED BY <1>0, <1>2, <1>3, <1>4, <1>5, <1>6

\* Taking the first free connection keeps the invariant.
LEMMA TakeInv ==
    ASSUME PoolInv, NEW t \in Thread, stage[t] \in {"idle", "woken"},
           initialized, connQueue # <<>>,
           conn' = [conn EXCEPT ![t] = Head(connQueue)], connQueue' = Tail(connQueue),
           stage' = [stage EXCEPT ![t] = "using"],
           UNCHANGED <<initialized, curConn, up, open, dead, healthy>>
    PROVE  PoolInv'
<1> USE DEF PoolInv
<1>0. "using" \in Stages
  BY DEF Stages
<1>1. /\ stage' \in [Thread -> Stages] /\ stage'[t] = "using"
      /\ \A u \in Thread : u # t => stage'[u] = stage[u]
      /\ Cardinality(At({"using", "pinged"})) \in Nat
      /\ Cardinality(At({"using", "pinged"})') = Cardinality(At({"using", "pinged"})) + 1
      /\ Cardinality(At({"replacing", "replaced"})') = Cardinality(At({"replacing", "replaced"}))
      /\ Cardinality(At({"replacing", "replaced"})) \in Nat
      /\ Cardinality(At({"woken"})) \in Nat /\ Cardinality(At({"woken"})') \in Nat
      /\ Cardinality(At({"woken"})') >= Cardinality(At({"woken"})) - 1
  <2>1. /\ stage' \in [Thread -> Stages] /\ stage'[t] = "using"
        /\ \A u \in Thread : u # t => stage'[u] = stage[u]
        /\ Cardinality(At({"using", "pinged"})) \in Nat
        /\ Cardinality(At({"using", "pinged"})') = Cardinality(At({"using", "pinged"})) + 1
    BY <1>0, StageMove
  <2>2. /\ Cardinality(At({"replacing", "replaced"})') = Cardinality(At({"replacing", "replaced"}))
        /\ Cardinality(At({"replacing", "replaced"})) \in Nat
    BY <1>0, StageMove
  <2>3. /\ Cardinality(At({"woken"})) \in Nat /\ Cardinality(At({"woken"})') \in Nat
        /\ \/ Cardinality(At({"woken"})') = Cardinality(At({"woken"}))
           \/ Cardinality(At({"woken"})') = Cardinality(At({"woken"})) - 1
    BY <1>0, StageMove
  <2> QED BY <2>1, <2>2, <2>3
<1>2. IsInjective(connQueue) /\ open = Range(connQueue) \cup Borrowed
      /\ (\A u \in Thread : conn[u] # NoConn => conn[u] \notin Range(connQueue))
      /\ curConn = Len(connQueue) + Cardinality(At({"using", "pinged"}))
  BY Conserved
<1>3. /\ connQueue' \in Seq(Conn) /\ IsInjective(connQueue')
      /\ Range(connQueue') = Range(connQueue) \ {Head(connQueue)}
      /\ Head(connQueue) \in Range(connQueue) /\ Head(connQueue) \in Conn
      /\ Len(connQueue) \in Nat \ {0} /\ Len(connQueue') = Len(connQueue) - 1
  BY <1>2, TailFacts
<1>4. conn[t] = NoConn /\ Head(connQueue) \notin Borrowed /\ Head(connQueue) # NoConn
  BY <1>2, <1>3, PoolAssumptions DEF StageTellsConn, Borrowed
<1>5. /\ conn' \in [Thread -> Conn \cup {NoConn}]
      /\ conn'[t] = Head(connQueue) /\ \A u \in Thread : u # t => conn'[u] = conn[u]
      /\ Borrowed' = Borrowed \cup {Head(connQueue)}
      /\ \A s, u \in Thread : (conn'[s] # NoConn /\ conn'[s] = conn'[u]) => s = u
  BY <1>3, <1>4, Obtained
<1>6. ConnectionsConserved'
  <2>1. \A u \in Thread : conn'[u] # NoConn => conn'[u] \notin Range(connQueue')
    BY <1>2, <1>3, <1>5
  <2>2. open' = Range(connQueue') \cup Borrowed'
    BY <1>2, <1>3, <1>5
  <2>3. curConn' = Len(connQueue') + Cardinality(At({"using", "pinged"})')
    BY <1>1, <1>2, <1>3
  <2> QED BY <1>3, <1>5, <2>1, <2>2, <2>3, ConservedNext
<1>7. PoolTypeOK' /\ StageTellsConn' /\ StoppedPoolEmpty'
  BY <1>1, <1>3, <1>4, <1>5 DEF PoolTypeOK, Stages, StageTellsConn, StoppedPoolEmpty
<1>8. WithinCapacity'
  BY <1>1, <1>3, PoolAssumptions DEF WithinCapacity
<1>9. NoLostWakeup'
  <2>1. At({"asleep"})' = At({"asleep"})
    BY <1>1 DEF At
  <2> QED BY <1>1, <1>3, <2>1, WakeupNow, WakeupNext
<1> QED BY <1>3, <1>6, <1>7, <1>8, <1>9

\* getConnection keeps the invariant.
LEMMA GetConnectionInv ==
    ASSUME PoolInv, NEW t \in Thread, GetConnection(t)
    PROVE  PoolInv'
<1>1. /\ stage[t] \in {"idle", "woken"} /\ UNCHANGED <<initialized, curConn, up, open, dead, healthy>>
      /\ healthy \in [Thread -> BOOLEAN]
  BY DEF GetConnection, dbVars, PoolInv, PoolTypeOK
<1>2. CASE connQueue = <<>> /\ initialized /\ stage' = [stage EXCEPT ![t] = "asleep"]
           /\ UNCHANGED <<connQueue, conn>>
  BY <1>1, <1>2, StageOnlyInv DEF Stages, poolVars
<1>3. CASE ~initialized /\ stage' = [stage EXCEPT ![t] = "idle"] /\ UNCHANGED <<connQueue, conn>>
  BY <1>1, <1>3, StageOnlyInv DEF Stages, poolVars
<1>4. CASE /\ initialized /\ connQueue # <<>>
           /\ conn' = [conn EXCEPT ![t] = Head(connQueue)] /\ connQueue' = Tail(connQueue)
           /\ stage' = [stage EXCEPT ![t] = "using"]
  BY <1>1, <1>4, TakeInv
<1> QED BY <1>2, <1>3, <1>4 DEF GetConnection

\* A connection put into the queue wakes a sleeper, if there is one, and
\* changes no other thread.
LEMMA NotifyFacts ==
    ASSUME PoolInv, NEW t \in Thread, stage[t] \in {"pinged", "replaced"},
           NotifyOneThread(t, "idle")
    PROVE  /\ stage' \in [Thread -> Stages] /\ stage'[t] = "idle"
           /\ \A u \in Thread : u # t => \/ stage'[u] = stage[u]
                                         \/ stage[u] = "asleep" /\ stage'[u] = "woken"
           /\ Cardinality(At({"woken"})) \in Nat
           /\ At({"asleep"})' # {} => /\ At({"asleep"}) # {}
                                      /\ Cardinality(At({"woken"})') = Cardinality(At({"woken"})) + 1
<1>1. stage \in [Thread -> Stages] /\ {"idle", "woken"} \subseteq Stages
  BY DEF PoolInv, PoolTypeOK, Stages
<1>2. At({"woken"}) \in SUBSET Thread /\ At({"woken"})' \in SUBSET Thread
  BY DEF At
<1>3. Cardinality(At({"woken"})) \in Nat
  BY <1>2, CountMove
<1>4. CASE Asleep = {}
  <2>1. stage' = [stage EXCEPT ![t] = "idle"]
    BY <1>4 DEF NotifyOneThread
  <2>2. At({"asleep"})' = {}
    BY <1>1, <1>4, <2>1 DEF At, Asleep
  <2> QED BY <1>1, <1>3, <2>1, <2>2
<1>5. CASE Asleep # {}
  <2>1. PICK s \in Asleep : stage' = [stage EXCEPT ![t] = "idle", ![s] = "woken"]
    BY <1>5 DEF NotifyOneThread
  <2>2. s \in Thread /\ stage[s] = "asleep" /\ s # t
    BY <2>1 DEF Asleep
  <2>3. /\ stage' \in [Thread -> Stages] /\ stage'[t] = "idle" /\ stage'[s] = "woken"
        /\ \A u \in Thread : (u # t /\ u # s) => stage'[u] = stage[u]
    BY <1>1, <2>1, <2>2
  <2>4. At({"woken"}) \ {s} = At({"woken"})' \ {s} /\ s \notin At({"woken"}) /\ s \in At({"woken"})'
    BY <2>2, <2>3 DEF At
  <2>5. Cardinality(At({"woken"})') = Cardinality(At({"woken"})) + 1
    BY <1>2, <2>2, <2>4, CountMove
  <2>6. At({"asleep"}) # {}
    BY <2>2 DEF At
  <2> QED BY <1>3, <2>2, <2>3, <2>5, <2>6
<1> QED BY <1>4, <1>5

\* Putting a connection into the queue keeps the invariant, whether it is
\* one that is given back or a replacement.
LEMMA PushInv ==
    ASSUME PoolInv, NEW t \in Thread, initialized,
           \/ stage[t] = "pinged" /\ curConn' = curConn
           \/ stage[t] = "replaced" /\ curConn' = curConn + 1,
           conn' = [conn EXCEPT ![t] = NoConn], PushConnection(t, conn[t]),
           UNCHANGED <<open, dead, up, initialized, healthy>>
    PROVE  PoolInv'
<1> USE DEF PoolInv
<1>0. connQueue' = Append(connQueue, conn[t]) /\ NotifyOneThread(t, "idle")
      /\ stage[t] \in {"pinged", "replaced"} /\ conn[t] # NoConn
  BY DEF PushConnection, StageTellsConn
<1>1. /\ stage' \in [Thread -> Stages] /\ stage'[t] = "idle"
      /\ \A u \in Thread : u # t => \/ stage'[u] = stage[u]
                                    \/ stage[u] = "asleep" /\ stage'[u] = "woken"
      /\ Cardinality(At({"woken"})) \in Nat
      /\ At({"asleep"})' # {} => /\ At({"asleep"}) # {}
                                 /\ Cardinality(At({"woken"})') = Cardinality(At({"woken"})) + 1
  BY <1>0, NotifyFacts
<1>2. /\ conn' \in [Thread -> Conn \cup {NoConn}]
      /\ conn[t] \in Conn /\ conn[t] \in open /\ conn[t] \notin Range(connQueue)
      /\ conn'[t] = NoConn /\ \A u \in Thread : u # t => conn'[u] = conn[u]
      /\ \A u \in Thread : u # t => conn[u] # conn[t]
      /\ Borrowed' = Borrowed \ {conn[t]}
      /\ \A s, u \in Thread : (conn'[s] # NoConn /\ conn'[s] = conn'[u]) => s = u
      /\ open \ {conn[t]} = Range(connQueue) \cup Borrowed'
  BY <1>0, GivenAway
<1>3. /\ IsInjective(connQueue)
      /\ \A u \in Thread : conn[u] # NoConn => conn[u] \notin Range(connQueue)
      /\ curConn = Len(connQueue) + Cardinality(At({"using", "pinged"}))
  BY Conserved
<1>4. /\ connQueue' \in Seq(Conn) /\ IsInjective(connQueue')
      /\ Range(connQueue') = Range(connQueue) \cup {conn[t]}
      /\ Len(connQueue) \in Nat /\ Len(connQueue') = Len(connQueue) + 1
  BY <1>0, <1>2, <1>3, AppendFacts
<1>5. /\ Cardinality(At({"using", "pinged"})) \in Nat
      /\ Cardinality(At({"using", "pinged"})') \in Nat
      /\ stage[t] = "pinged" =>
            Cardinality(At({"using", "pinged"})') = Cardinality(At({"using", "pinged"})) - 1
      /\ stage[t] = "replaced" =>
            Cardinality(At({"using", "pinged"})') = Cardinality(At({"using", "pinged"}))
  <2>1. /\ At({"using", "pinged"}) \in SUBSET Thread /\ At({"using", "pinged"})' \in SUBSET Thread
        /\ At({"using", "pinged"}) \ {t} = At({"using", "pinged"})' \ {t}
        /\ t \notin At({"using", "pinged"})'
        /\ t \in At({"using", "pinged"}) <=> stage[t] = "pinged"
    BY <1>0, <1>1 DEF At
  <2> QED BY <1>0, <2>1, CountMove
<1>6. /\ Cardinality(At({"replacing", "replaced"})) \in Nat
      /\ Cardinality(At({"replacing", "replaced"})') \in Nat
      /\ stage[t] = "pinged" =>
            Cardinality(At({"replacing", "replaced"})') = Cardinality(At({"replacing", "replaced"}))
      /\ stage[t] = "replaced" =>
            Cardinality(At({"replacing", "replaced"})') = Cardinality(At({"replacing", "replaced"})) - 1
  <2>1. /\ At({"replacing", "replaced"}) \in SUBSET Thread
        /\ At({"replacing", "replaced"})' \in SUBSET Thread
        /\ At({"replacing", "replaced"}) \ {t} = At({"replacing", "replaced"})' \ {t}
        /\ t \notin At({"replacing", "replaced"})'
        /\ t \in At({"replacing", "replaced"}) <=> stage[t] = "replaced"
    BY <1>0, <1>1 DEF At
  <2> QED BY <1>0, <2>1, CountMove
<1>7. curConn' = Len(connQueue') + Cardinality(At({"using", "pinged"})')
  <2>1. CASE stage[t] = "pinged" /\ curConn' = curConn
    BY <1>3, <1>4, <1>5, <2>1
  <2>2. CASE stage[t] = "replaced" /\ curConn' = curConn + 1
    BY <1>3, <1>4, <1>5, <2>2
  <2> QED BY <2>1, <2>2
<1>8. ConnectionsConserved'
  <2>1. \A u \in Thread : conn'[u] # NoConn => conn'[u] \notin Range(connQueue')
    BY <1>2, <1>3, <1>4
  <2>2. open' = Range(connQueue') \cup Borrowed'
    BY <1>2, <1>4
  <2> QED BY <1>2, <1>4, <1>7, <2>1, <2>2, ConservedNext
<1>9. WithinCapacity'
  BY <1>4, <1>5, <1>6, PoolAssumptions DEF WithinCapacity
<1>10. PoolTypeOK'
  <2>1. curConn' \in 0..MaxConn
    <3>1. MaxConn \in Int /\ initialized'
      BY PoolAssumptions
    <3>2. Len(connQueue') + Cardinality(At({"using", "pinged"})')
            + Cardinality(At({"replacing", "replaced"})') <= MaxConn
      BY <1>9, <3>1 DEF WithinCapacity
    <3> QED BY <1>4, <1>5, <1>6, <1>7, <3>1, <3>2
  <2> QED BY <1>1, <1>2, <1>4, <2>1 DEF PoolTypeOK, Stages
<1>11. StageTellsConn' /\ StoppedPoolEmpty'
  BY <1>1, <1>2 DEF StageTellsConn, StoppedPoolEmpty
<1>12. NoLostWakeup'
  BY <1>1, <1>4, WakeupNow, WakeupNext
<1> QED BY <1>4, <1>8, <1>9, <1>10, <1>11, <1>12

\* Closing the connection of a thread keeps the invariant: one that is dead
\* and will be replaced, or any one of a pool that was stopped.
LEMMA CloseInv ==
    ASSUME PoolInv, NEW t \in Thread, NEW to \in Stages, stage' = [stage EXCEPT ![t] = to],
           \/ initialized /\ stage[t] = "pinged" /\ to = "replacing" /\ DropCount
           \/ ~initialized /\ stage[t] = "pinged" /\ to = "idle" /\ DropCount
           \/ ~initialized /\ stage[t] = "replaced" /\ to = "idle" /\ curConn' = curConn,
           conn' = [conn EXCEPT ![t] = NoConn], MysqlClose({conn[t]}),
           UNCHANGED <<connQueue, up, initialized, healthy>>
    PROVE  PoolInv'
<1> USE DEF PoolInv
<1>0. /\ stage[t] \in {"pinged", "replaced"} /\ conn[t] # NoConn
      /\ open' = open \ {conn[t]} /\ dead' = dead \ {conn[t]}
  BY DEF MysqlClose, StageTellsConn
<1>1. /\ stage' \in [Thread -> Stages] /\ stage'[t] = to
      /\ \A u \in Thread : u # t => stage'[u] = stage[u]
  BY StageMove
<1>2. /\ conn' \in [Thread -> Conn \cup {NoConn}]
      /\ conn'[t] = NoConn /\ \A u \in Thread : u # t => conn'[u] = conn[u]
      /\ Borrowed' = Borrowed \ {conn[t]}
      /\ \A s, u \in Thread : (conn'[s] # NoConn /\ conn'[s] = conn'[u]) => s = u
      /\ open \ {conn[t]} = Range(connQueue) \cup Borrowed'
  BY <1>0, GivenAway
<1>3. /\ IsInjective(connQueue) /\ Len(connQueue) \in Nat
      /\ \A u \in Thread : conn[u] # NoConn => conn[u] \notin Range(connQueue)
      /\ initialized => curConn = Len(connQueue) + Cardinality(At({"using", "pinged"}))
  BY Conserved, LenProperties
<1>4. initialized =>
        /\ curConn' = curConn - 1
        /\ Cardinality(At({"using", "pinged"})) \in Nat
        /\ Cardinality(At({"using", "pinged"})') = Cardinality(At({"using", "pinged"})) - 1
        /\ Cardinality(At({"replacing", "replaced"})) \in Nat
        /\ Cardinality(At({"replacing", "replaced"})') = Cardinality(At({"replacing", "replaced"})) + 1
  <2> SUFFICES ASSUME initialized
               PROVE  /\ curConn' = curConn - 1
                      /\ Cardinality(At({"using", "pinged"})) \in Nat
                      /\ Cardinality(At({"using", "pinged"})')
                             = Cardinality(At({"using", "pinged"})) - 1
                      /\ Cardinality(At({"replacing", "replaced"})) \in Nat
                      /\ Cardinality(At({"replacing", "replaced"})')
                             = Cardinality(At({"replacing", "replaced"})) + 1
    OBVIOUS
  <2>0. stage[t] = "pinged" /\ to = "replacing" /\ DropCount
    OBVIOUS
  <2>1. /\ Cardinality(At({"using", "pinged"})) \in Nat
        /\ Cardinality(At({"using", "pinged"})') \in Nat
        /\ Cardinality(At({"using", "pinged"})') = Cardinality(At({"using", "pinged"})) - 1
    BY <2>0, StageMove
  <2>2. /\ Cardinality(At({"replacing", "replaced"})) \in Nat
        /\ Cardinality(At({"replacing", "replaced"})') = Cardinality(At({"replacing", "replaced"})) + 1
    BY <2>0, StageMove
  <2>3. curConn' = curConn - 1
    <3>1. curConn > 0
      BY <1>3, <2>1
    <3> QED BY <2>0, <3>1 DEF DropCount
  <2> QED BY <2>1, <2>2, <2>3
<1>5. curConn' \in 0..MaxConn /\ (~initialized => curConn' = 0)
  <2>1. CASE DropCount
    BY <2>1, PoolAssumptions DEF DropCount, PoolTypeOK, StoppedPoolEmpty
  <2>2. CASE curConn' = curConn
    BY <2>2 DEF PoolTypeOK, StoppedPoolEmpty
  <2> QED BY <2>1, <2>2
<1>6. ConnectionsConserved'
  <2>1. \A u \in Thread : conn'[u] # NoConn => conn'[u] \notin Range(connQueue)
    BY <1>2, <1>3
  <2>2. initialized => curConn' = Len(connQueue) + Cardinality(At({"using", "pinged"})')
    BY <1>3, <1>4
  <2>3. connQueue' = connQueue /\ initialized' = initialized
    OBVIOUS
  <2> QED BY <1>0, <1>2, <1>3, <2>1, <2>2, <2>3, ConservedNext
<1>7. PoolTypeOK'
  BY <1>0, <1>1, <1>2, <1>5 DEF PoolTypeOK, Stages
<1>8. StageTellsConn' /\ StoppedPoolEmpty'
  BY <1>1, <1>2, <1>5 DEF StageTellsConn, StoppedPoolEmpty
<1>9. WithinCapacity'
  BY <1>3, <1>4, PoolAssumptions DEF WithinCapacity
<1>10. NoLostWakeup'
  <2>1. At({"asleep"})' = At({"asleep"}) /\ At({"woken"})' = At({"woken"})
    BY <1>0, <1>1 DEF At
  <2> QED BY <2>1, WakeupNow, WakeupNext
<1> QED BY <1>6, <1>7, <1>8, <1>9, <1>10

\* releaseConnection keeps the invariant.
LEMMA ReleaseConnectionInv ==
    ASSUME PoolInv, NEW t \in Thread, ReleaseConnection(t)
    PROVE  PoolInv'
<1>1. /\ stage[t] = "pinged" /\ conn' = [conn EXCEPT ![t] = NoConn]
      /\ UNCHANGED <<up, initialized, healthy>>
  BY DEF ReleaseConnection
<1>2. CASE /\ ~initialized /\ MysqlClose({conn[t]}) /\ DropCount
           /\ stage' = [stage EXCEPT ![t] = "idle"] /\ UNCHANGED connQueue
  BY <1>1, <1>2, CloseInv DEF Stages
<1>3. CASE initialized /\ PushConnection(t, conn[t]) /\ UNCHANGED <<open, dead, curConn>>
  BY <1>1, <1>3, PushInv
<1>4. CASE /\ initialized /\ MysqlClose({conn[t]}) /\ DropCount
           /\ stage' = [stage EXCEPT ![t] = "replacing"] /\ UNCHANGED connQueue
  BY <1>1, <1>4, CloseInv DEF Stages
<1> QED BY <1>2, <1>3, <1>4 DEF ReleaseConnection

\* The end of a replacement keeps the invariant.
LEMMA PushReplacementInv ==
    ASSUME PoolInv, NEW t \in Thread, PushReplacement(t)
    PROVE  PoolInv'
<1>1. /\ stage[t] = "replaced" /\ conn' = [conn EXCEPT ![t] = NoConn]
      /\ UNCHANGED <<up, initialized, healthy>>
  BY DEF PushReplacement
<1>2. CASE /\ initialized /\ PushConnection(t, conn[t]) /\ curConn' = curConn + 1
           /\ UNCHANGED <<open, dead>>
  BY <1>1, <1>2, PushInv
<1>3. CASE /\ ~initialized /\ MysqlClose({conn[t]}) /\ stage' = [stage EXCEPT ![t] = "idle"]
           /\ UNCHANGED <<connQueue, curConn>>
  BY <1>1, <1>3, CloseInv DEF Stages
<1> QED BY <1>2, <1>3 DEF PushReplacement

\* Opening a replacement, or failing to, keeps the invariant.
LEMMA CreateConnectionInv ==
    ASSUME PoolInv, NEW t \in Thread, CreateConnection(t)
    PROVE  PoolInv'
<1> USE DEF PoolInv
<1>0. /\ stage[t] = "replacing" /\ conn[t] = NoConn
      /\ UNCHANGED <<up, dead, initialized, connQueue, curConn, healthy>>
  BY DEF CreateConnection, poolVars, StageTellsConn
<1>1. ASSUME NEW to \in {"idle", "replaced"}, stage' = [stage EXCEPT ![t] = to]
      PROVE  /\ stage' \in [Thread -> Stages] /\ stage'[t] = to
             /\ \A u \in Thread : u # t => stage'[u] = stage[u]
             /\ At({"using", "pinged"})' = At({"using", "pinged"})
             /\ NoLostWakeup' /\ WithinCapacity'
  <2>1. /\ stage' \in [Thread -> Stages] /\ stage'[t] = to
        /\ \A u \in Thread : u # t => stage'[u] = stage[u]
        /\ Cardinality(At({"replacing", "replaced"})) \in Nat
        /\ Cardinality(At({"replacing", "replaced"})') \in Nat
        /\ \/ Cardinality(At({"replacing", "replaced"})') = Cardinality(At({"replacing", "replaced"}))
           \/ Cardinality(At({"replacing", "replaced"})') = Cardinality(At({"replacing", "replaced"})) - 1
    BY <1>0, <1>1, StageMove DEF Stages
  <2>2. /\ At({"asleep"})' = At({"asleep"}) /\ At({"woken"})' = At({"woken"})
        /\ At({"using", "pinged"})' = At({"using", "pinged"})
    BY <1>0, <2>1, <1>1 DEF At
  <2>3. NoLostWakeup'
    BY <1>0, <2>2, WakeupNow, WakeupNext
  <2>4. /\ Len(connQueue) \in Nat /\ MaxConn \in Nat
        /\ Cardinality(At({"using", "pinged"})) \in Nat
    <3>1. At({"using", "pinged"}) \in SUBSET Thread
      BY DEF At
    <3>2. MaxConn \in Nat
      BY PoolAssumptions
    <3> QED BY <3>1, <3>2, CountMove, LenProperties
  <2>5. WithinCapacity'
    BY <1>0, <2>1, <2>2, <2>4 DEF WithinCapacity
  <2> QED BY <2>1, <2>2, <2>3, <2>5
<1>2. CASE stage' = [stage EXCEPT ![t] = "idle"] /\ UNCHANGED <<open, conn>>
  <2>1. /\ stage' \in [Thread -> Stages] /\ stage'[t] = "idle"
        /\ \A u \in Thread : u # t => stage'[u] = stage[u]
        /\ At({"using", "pinged"})' = At({"using", "pinged"})
        /\ NoLostWakeup' /\ WithinCapacity'
    BY <1>1, <1>2
  <2>2. PoolTypeOK' /\ StageTellsConn' /\ StoppedPoolEmpty'
    BY <1>0, <1>2, <2>1 DEF PoolTypeOK, Stages, StageTellsConn, StoppedPoolEmpty
  <2>3. ConnectionsConserved'
    <3>1. Borrowed' = Borrowed
      BY <1>2 DEF Borrowed
    <3> QED BY <1>0, <1>2, <2>1, <3>1, Conserved, ConservedNext
  <2> QED BY <1>0, <2>1, <2>2, <2>3
<1>3. ASSUME NEW c \in Conn \ open, open' = open \cup {c}, conn' = [conn EXCEPT ![t] = c],
             stage' = [stage EXCEPT ![t] = "replaced"]
      PROVE  PoolInv'
  <2>1. /\ stage' \in [Thread -> Stages] /\ stage'[t] = "replaced"
        /\ \A u \in Thread : u # t => stage'[u] = stage[u]
        /\ At({"using", "pinged"})' = At({"using", "pinged"})
        /\ NoLostWakeup' /\ WithinCapacity'
    BY <1>1, <1>3
  <2>2. /\ IsInjective(connQueue) /\ open = Range(connQueue) \cup Borrowed
        /\ \A u \in Thread : conn[u] # NoConn => conn[u] \notin Range(connQueue)
        /\ initialized => curConn = Len(connQueue) + Cardinality(At({"using", "pinged"}))
    BY Conserved
  <2>3. c \notin Borrowed /\ c \notin Range(connQueue) /\ c # NoConn
    BY <2>2, PoolAssumptions
  <2>4. /\ conn' \in [Thread -> Conn \cup {NoConn}]
        /\ conn'[t] = c /\ \A u \in Thread : u # t => conn'[u] = conn[u]
        /\ Borrowed' = Borrowed \cup {c}
        /\ \A s, u \in Thread : (conn'[s] # NoConn /\ conn'[s] = conn'[u]) => s = u
    BY <1>0, <1>3, <2>3, Obtained
  <2>5. ConnectionsConserved'
    <3>1. \A u \in Thread : conn'[u] # NoConn => conn'[u] \notin Range(connQueue)
      BY <2>2, <2>3, <2>4
    <3> QED BY <1>0, <1>3, <2>1, <2>2, <2>4, <3>1, ConservedNext
  <2>6. PoolTypeOK' /\ StageTellsConn' /\ StoppedPoolEmpty'
    BY <1>0, <1>3, <2>1, <2>3, <2>4 DEF PoolTypeOK, Stages, StageTellsConn, StoppedPoolEmpty
  <2> QED BY <1>0, <2>1, <2>5, <2>6
<1> QED BY <1>2, <1>3 DEF CreateConnection

\* Stopping the pool keeps the invariant: all sleepers are woken, and what
\* is borrowed stays with its borrower.
LEMMA DestroyPoolInv ==
    ASSUME PoolInv, DestroyPool
    PROVE  PoolInv'
<1> USE DEF PoolInv
<1>0. /\ initialized' = FALSE /\ open' = open \ Range(connQueue) /\ dead' = dead \ Range(connQueue)
      /\ connQueue' = <<>> /\ curConn' = 0 /\ UNCHANGED <<up, conn, healthy>>
      /\ stage' = [t \in Thread |-> IF stage[t] = "asleep" THEN "woken" ELSE stage[t]]
  BY DEF DestroyPool, MysqlClose, NotifyAllThreads
<1>1. /\ IsInjective(connQueue) /\ open = Range(connQueue) \cup Borrowed
      /\ \A u \in Thread : conn[u] # NoConn => conn[u] \notin Range(connQueue)
      /\ \A s, u \in Thread : (conn[s] # NoConn /\ conn[s] = conn[u]) => s = u
  BY Conserved
<1>2. Range(connQueue') = {} /\ IsInjective(connQueue') /\ connQueue' \in Seq(Conn)
  BY <1>0 DEF Range, IsInjective
<1>3. Borrowed' = Borrowed /\ open' = Borrowed
  BY <1>0, <1>1 DEF Borrowed
<1>4. ConnectionsConserved'
  BY <1>0, <1>1, <1>2, <1>3, ConservedNext
<1>5. stage' \in [Thread -> Stages]
  BY <1>0 DEF PoolTypeOK, Stages
<1>6. PoolTypeOK'
  <2>1. curConn' \in 0..MaxConn
    BY <1>0, PoolAssumptions
  <2>2. initialized' \in BOOLEAN /\ up' \in BOOLEAN
    BY <1>0, Zenon DEF PoolTypeOK
  <2>3. open' \subseteq Conn /\ dead' \subseteq open'
    BY <1>0 DEF PoolTypeOK
  <2>4. conn' \in [Thread -> Conn \cup {NoConn}] /\ healthy' \in [Thread -> BOOLEAN]
    BY <1>0, Zenon DEF PoolTypeOK
  <2> QED BY <1>2, <1>5, <2>1, <2>2, <2>3, <2>4 DEF PoolTypeOK, Stages
<1>7. StageTellsConn' /\ StoppedPoolEmpty' /\ WithinCapacity'
  BY <1>0 DEF StageTellsConn, StoppedPoolEmpty, WithinCapacity, PoolTypeOK
<1>8. NoLostWakeup'
  BY <1>0 DEF NoLostWakeup, Asleep, PoolTypeOK
<1> QED BY <1>2, <1>4, <1>6, <1>7, <1>8

\* Filling the pool establishes the invariant again.
LEMMA InitPoolInv ==
    ASSUME PoolInv, InitPool
    PROVE  PoolInv'
<1> USE DEF PoolInv
<1>0. /\ open = {} /\ \A t \in Thread : stage[t] = "idle"
      /\ curConn' = MaxConn /\ initialized' = TRUE
      /\ UNCHANGED <<up, dead, stage, conn, healthy>>
  BY DEF InitPool, borrowerVars
<1>1. PICK q \in [1..MaxConn -> Conn] : IsInjective(q) /\ connQueue' = q /\ open' = Range(q)
  BY DEF InitPool
<1>2. MaxConn \in Nat
  BY PoolAssumptions
<1>3. /\ connQueue' \in Seq(Conn) /\ Len(connQueue') = MaxConn /\ IsInjective(connQueue')
      /\ Range(connQueue') \subseteq Conn
  <2>1. q \in Seq(Conn)
    BY <1>2, SeqDef
  <2>2. Len(q) = MaxConn
    BY <1>2, <2>1
  <2> QED BY <1>1, <2>1, <2>2 DEF Range
<1>4. /\ At({"using", "pinged"})' = {} /\ At({"replacing", "replaced"})' = {}
      /\ At({"asleep"})' = {} /\ \A t \in Thread : conn[t] = NoConn
  BY <1>0 DEF At, StageTellsConn
<1>5. /\ Cardinality(At({"using", "pinged"})') = 0
      /\ Cardinality(At({"replacing", "replaced"})') = 0
  BY <1>4, FS_EmptySet
<1>6. ConnectionsConserved'
  <2>1. Borrowed' = {}
    BY <1>0, <1>4 DEF Borrowed
  <2>2. \A t \in Thread : conn'[t] = NoConn
    BY <1>0, <1>4
  <2>3. curConn' = Len(connQueue') + Cardinality(At({"using", "pinged"})')
    BY <1>0, <1>2, <1>3, <1>5
  <2> QED BY <1>1, <1>3, <2>1, <2>2, <2>3, ConservedNext
<1>7. PoolTypeOK' /\ StageTellsConn' /\ StoppedPoolEmpty'
  BY <1>0, <1>1, <1>2, <1>3 DEF PoolTypeOK, StageTellsConn, StoppedPoolEmpty
<1>8. WithinCapacity'
  BY <1>2, <1>3, <1>5 DEF WithinCapacity
<1>9. NoLostWakeup'
  BY <1>4, WakeupNext
<1> QED BY <1>3, <1>6, <1>7, <1>8, <1>9

-----------------------------------------------------------------------------
(* The theorems.                                                           *)

\* An unfilled pool satisfies the invariant.
LEMMA PoolInitInv == PoolInit => PoolInv
<1> SUFFICES ASSUME PoolInit PROVE PoolInv
  OBVIOUS
<1> USE DEF PoolInit
<1>1. /\ connQueue \in Seq(Conn) /\ Range(connQueue) = {} /\ IsInjective(connQueue)
      /\ \A t \in Thread : conn[t] = NoConn
  BY DEF Range, IsInjective
<1>2. PoolTypeOK
  <2>1. healthy \in [Thread -> BOOLEAN] /\ up \in BOOLEAN /\ initialized \in BOOLEAN
    BY Zenon
  <2>2. curConn \in 0..MaxConn
    BY PoolAssumptions
  <2> QED BY <1>1, <2>1, <2>2 DEF PoolTypeOK
<1>3. ConnectionsConserved
  <2>1. Borrowed = {}
    BY <1>1 DEF Borrowed
  <2> QED BY <1>1, <2>1, Conserved
<1>4. StageTellsConn /\ WithinCapacity /\ StoppedPoolEmpty /\ NoLostWakeup
  BY DEF StageTellsConn, WithinCapacity, StoppedPoolEmpty, NoLostWakeup, Asleep
<1> QED BY <1>1, <1>2, <1>3, <1>4 DEF PoolInv

\* Every step keeps the invariant.
LEMMA PoolStepInv == PoolInv /\ [PoolNext]_dbPoolVars => PoolInv'
<1> SUFFICES ASSUME PoolInv, [PoolNext]_dbPoolVars PROVE PoolInv'
  OBVIOUS
<1>0. up \in BOOLEAN /\ dead \subseteq open /\ healthy \in [Thread -> BOOLEAN]
  BY DEF PoolInv, PoolTypeOK
<1>1. CASE DatabaseDown \/ DatabaseUp \/ \E c \in Conn : SessionLost(c)
  BY <1>0, <1>1, SessionInv DEF DatabaseDown, DatabaseUp, SessionLost
<1>2. CASE InitPool \/ DestroyPool
  BY <1>2, InitPoolInv, DestroyPoolInv
<1>3. ASSUME NEW t \in Thread, GetConnection(t) \/ ThreadStep(t)
      PROVE  PoolInv'
  <2>1. CASE PingReturned(t)
    <3>1. /\ stage[t] = "using" /\ stage' = [stage EXCEPT ![t] = "pinged"]
          /\ UNCHANGED <<up, open, dead, poolVars, conn>>
          /\ healthy' \in [Thread -> BOOLEAN]
      BY <1>0, <2>1 DEF PingReturned, dbVars
    <3> QED BY <3>1, StageOnlyInv DEF Stages
  <2>2. CASE GetConnection(t) \/ ReleaseConnection(t) \/ CreateConnection(t) \/ PushReplacement(t)
    BY <2>2, GetConnectionInv, ReleaseConnectionInv, CreateConnectionInv, PushReplacementInv
  <2> QED BY <1>3, <2>1, <2>2 DEF ThreadStep
<1>4. CASE UNCHANGED dbPoolVars
  BY <1>0, <1>4, SessionInv DEF dbPoolVars, dbVars
<1> QED BY <1>1, <1>2, <1>3, <1>4 DEF PoolNext

\* The state of the pool is well typed: curConn stays within max_conn, also
\* while connections are being replaced.
THEOREM PoolTypeCorrect == PoolSpec => []PoolTypeOK
<1>1. PoolInv => PoolTypeOK
  BY DEF PoolInv
<1> QED BY <1>1, PoolInitInv, PoolStepInv, PTL DEF PoolSpec

\* Every open connection is in exactly one place and counted
\* (getConnection, releaseConnection, destroyPool): none is leaked, shared
\* or used after it was closed, however threads, failures and a shutdown
\* interleave.
THEOREM ConnectionsStayConserved == PoolSpec => []ConnectionsConserved
<1>1. PoolInv => ConnectionsConserved
  BY DEF PoolInv
<1> QED BY <1>1, PoolInitInv, PoolStepInv, PTL DEF PoolSpec

\* No notification of the condition variable is lost, and nobody is left
\* asleep on a stopped pool (releaseConnection, destroyPool).
THEOREM WakeupsNotLost == PoolSpec => []NoLostWakeup
<1>1. PoolInv => NoLostWakeup
  BY DEF PoolInv
<1> QED BY <1>1, PoolInitInv, PoolStepInv, PTL DEF PoolSpec

-----------------------------------------------------------------------------
(* The parser.  Parsing a buffer again from its beginning gives the same   *)
(* as parsing it once: the head ends where the head of the request ends,   *)
(* and the lines before it are read one by one.                            *)

\* Every set of naturals that is not empty has a least element.
LEMMA LeastOf ==
    ASSUME NEW S \in SUBSET Nat, S # {}
    PROVE  \E m \in S : \A k \in S : m <= k
<1> DEFINE Less == {p \in Nat \X Nat : p[1] < p[2]}
<1>1. IsWellFoundedOn(Less, Nat)
  BY NatLessThanWellFounded DEF OpToRel
<1> HIDE DEF Less
<1>2. PICK m \in S : \A k \in S : ~(<<k, m>> \in Less)
  BY <1>1, WFMin
<1>3. ASSUME NEW k \in S PROVE m <= k
  <2>1. m \in Nat /\ k \in Nat /\ <<k, m>> \in Nat \X Nat
    OBVIOUS
  <2>2. ~(k < m)
    BY <1>2, <2>1 DEF Less
  <2> QED BY <2>1, <2>2
<1> QED BY <1>3

\* The states of a loop of n rounds.
RunOf(f, base, n, round) == f[0] = base /\ \A k \in 1..n : f[k] = round[k][f[k - 1]]

\* A loop of n rounds has a result: there is a sequence of its states.
LEMMA LoopRuns ==
    ASSUME NEW S, NEW base \in S, NEW n \in Nat, NEW round \in [1..n -> [S -> S]]
    PROVE  \E f \in [0..n -> S] : RunOf(f, base, n, round)
<1> USE DEF RunOf
<1> DEFINE Runs(f, m) == f[0] = base /\ \A k \in 1..m : f[k] = round[k][f[k - 1]]
           Bad == {m \in 0..n : \A f \in [0..n -> S] : ~Runs(f, m)}
<1>1. ASSUME Bad # {} PROVE FALSE
  <2>1. PICK m \in Bad : \A j \in Bad : m <= j
    <3>1. Bad \in SUBSET Nat
      OBVIOUS
    <3> HIDE DEF Bad
    <3> QED BY <1>1, <3>1, LeastOf
  <2>2. m \in 0..n /\ \A f \in [0..n -> S] : ~Runs(f, m)
    BY <2>1
  <2>3. CASE m = 0
    <3> DEFINE f == [k \in 0..n |-> base]
    <3>1. f \in [0..n -> S] /\ Runs(f, m)
      BY <2>3
    <3> QED BY <2>2, <3>1
  <2>4. CASE m # 0
    <3>1. m \in 1..n /\ m - 1 \in 0..n /\ ~(m <= m - 1)
      BY <2>2, <2>4
    <3>2. m - 1 \notin Bad
      <4> HIDE DEF Bad
      <4> QED BY <2>1, <3>1
    <3>3. PICK f \in [0..n -> S] : Runs(f, m - 1)
      <4> HIDE DEF Runs
      <4> QED BY <3>1, <3>2
    <3> DEFINE g == [f EXCEPT ![m] = round[m][f[m - 1]]]
    <3>4. round[m][f[m - 1]] \in S /\ g \in [0..n -> S]
      BY <3>1, <3>3
    <3>5. ASSUME NEW k \in 1..m PROVE g[k] = round[k][g[k - 1]]
      <4>1. k \in 1..n /\ k - 1 \in 0..n /\ k \in 0..n /\ k - 1 # m
        BY <3>1
      <4>2. g[k - 1] = f[k - 1]
        BY <3>3, <4>1
      <4>3. CASE k = m
        BY <3>1, <3>3, <4>1, <4>2, <4>3
      <4>4. CASE k # m
        <5>1. k \in 1..(m - 1) /\ g[k] = f[k]
          BY <3>1, <3>3, <4>1, <4>4
        <5> QED BY <3>3, <4>2, <5>1
      <4> QED BY <4>3, <4>4
    <3>6. g[0] = base
      BY <3>1, <3>3
    <3> HIDE DEF g
    <3> QED BY <2>2, <3>4, <3>5, <3>6
  <2> QED BY <2>3, <2>4
<1>2. n \notin Bad
  BY <1>1
<1> QED BY <1>2

\* The head of a sequence ends at its first empty line.
LEMMA EndOfHeadFacts ==
    ASSUME NEW s \in Seq(Piece)
    PROVE  /\ EndOfHead(s) \in 0..Len(s)
           /\ EndOfHead(s) = 0 => \A j \in 1..Len(s) : s[j].k # "end"
           /\ EndOfHead(s) # 0 => /\ s[EndOfHead(s)].k = "end"
                                  /\ \A j \in 1..(EndOfHead(s) - 1) : s[j].k # "end"
<1> DEFINE I == {i \in 1..Len(s) : s[i].k = "end"}
<1>0. Len(s) \in Nat
  OBVIOUS
<1>1. EndOfHead(s) = IF I # {} THEN Min(I) ELSE 0
  BY DEF EndOfHead, SelectInSeq
<1>2. CASE I = {}
  BY <1>0, <1>1, <1>2
<1>3. CASE I # {}
  <2>1. PICK m \in I : \A k \in I : m <= k
    <3>1. I \in SUBSET Nat
      BY <1>0
    <3> HIDE DEF I
    <3> QED BY <1>3, <3>1, LeastOf
  <2>2. Min(I) \in I /\ \A k \in I : Min(I) <= k
    <3> HIDE DEF I
    <3> QED BY <2>1 DEF Min
  <2>3. EndOfHead(s) \in I /\ \A k \in I : EndOfHead(s) <= k
    BY <1>1, <1>3, <2>2
  <2> QED BY <1>0, <2>3
<1> QED BY <1>2, <1>3

\* What has arrived of a request has the same head, once that is complete.
LEMMA HeadOfBuffer ==
    ASSUME NEW s \in Seq(Piece), NEW n \in 0..Len(s), EndOfHead(SubSeq(s, 1, n)) # 0
    PROVE  EndOfHead(s) = EndOfHead(SubSeq(s, 1, n)) /\ EndOfHead(s) \in 1..n
<1> PICK b : b = SubSeq(s, 1, n)
  OBVIOUS
<1>1. b \in Seq(Piece) /\ Len(b) = n /\ \A j \in 1..n : b[j] = s[j]
  OBVIOUS
<1>2. /\ EndOfHead(b) \in 1..n /\ s[EndOfHead(b)].k = "end"
      /\ \A j \in 1..(EndOfHead(b) - 1) : s[j].k # "end"
  <2> PICK e : e = EndOfHead(b)
    OBVIOUS
  <2>1. /\ e \in 0..n /\ e # 0 /\ b[e].k = "end" /\ \A j \in 1..(e - 1) : b[j].k # "end"
    BY <1>1, EndOfHeadFacts
  <2>2. e \in 1..n /\ \A j \in 1..(e - 1) : j \in 1..n
    BY <2>1
  <2> QED BY <1>1, <2>1, <2>2
<1>3. /\ EndOfHead(s) \in 0..Len(s)
      /\ EndOfHead(s) = 0 => \A j \in 1..Len(s) : s[j].k # "end"
      /\ EndOfHead(s) # 0 => /\ s[EndOfHead(s)].k = "end"
                             /\ \A j \in 1..(EndOfHead(s) - 1) : s[j].k # "end"
  BY EndOfHeadFacts
<1> PICK d, e, l : d = EndOfHead(b) /\ e = EndOfHead(s) /\ l = Len(s)
  OBVIOUS
<1>4. l \in Nat /\ n \in 0..l
  OBVIOUS
<1>5. e # 0
  BY <1>2, <1>3, <1>4
<1>6. ~(e < d) /\ ~(d < e)
  BY <1>2, <1>3, <1>4, <1>5
<1> QED BY <1>2, <1>3, <1>4, <1>6

\* The announced length after one more line.
LEMMA LengthGrows ==
    ASSUME NEW s, NEW k \in Nat, k # 0
    PROVE  LastLength(s, k) = IF s[k].k = "length" THEN s[k].n ELSE LastLength(s, k - 1)
<1> DEFINE last(m) == CHOOSE j \in LengthLines(s, m) : \A l \in LengthLines(s, m) : l <= j
<1>1. CASE s[k].k # "length"
  <2>1. LengthLines(s, k) = LengthLines(s, k - 1)
    BY <1>1 DEF LengthLines
  <2> QED BY <1>1, <2>1 DEF LastLength
<1>2. CASE s[k].k = "length"
  <2>1. k \in LengthLines(s, k) /\ \A l \in LengthLines(s, k) : l \in Nat /\ l <= k
    BY <1>2 DEF LengthLines
  <2>2. last(k) \in LengthLines(s, k) /\ \A l \in LengthLines(s, k) : l <= last(k)
    BY <2>1
  <2>3. last(k) = k
    <3> HIDE DEF last
    <3> QED BY <2>1, <2>2
  <2> QED BY <1>2, <2>1, <2>3 DEF LastLength
<1> QED BY <1>1, <1>2

\* The states of parse.
FieldSet == [method : 0..Requests, path : 0..Requests, version : 0..Requests]
ParseState ==
    [state : {"REQUEST_LINE", "HEADERS", "ERROR"}, fields : FieldSet, keep : BOOLEAN, length : Nat,
     body : {0}]

\* What the first k lines of s leave behind.
WellFormedUpTo(s, k) ==
    /\ s[1].n = 3
    /\ \A j \in 2..k : s[j].k \notin {"bad", "request", "request10"}
    /\ \A j \in LengthLines(s, k) : s[j].n <= MaxBuffer
AfterLines(s, k) ==
    {p \in ParseState :
        /\ k = 0 => p.state = "REQUEST_LINE" /\ p.length = 0
        /\ k > 0 => /\ p.state # "REQUEST_LINE"
                    /\ p.state = "HEADERS" => /\ p.length = LastLength(s, k)
                                              /\ \A j \in LengthLines(s, k) : s[j].n <= MaxBuffer
                    /\ WellFormedUpTo(s, k) => p.state = "HEADERS" /\ p.fields.path = current}

\* The parser's state, and what a client gets.
ParserInv ==
    /\ ParserTypeOK /\ AnswersOwnRequest
    /\ status = "writing" => ~fresh /\ current <= Requests
    /\ fresh => current <= Requests

\* The request line.
LEMMA RequestLineFacts ==
    ASSUME current \in 1..Requests, Requests \in Nat, NEW s \in Seq(Piece), 1 <= Len(s),
           s[1].k # "length", NEW p \in AfterLines(s, 0)
    PROVE  ParseLine(p, s[1]) \in AfterLines(s, 1)
<1> PICK n : n = s[1].n
  OBVIOUS
<1>1. n \in Nat
  <2>1. s[1] \in Piece
    OBVIOUS
  <2> QED BY <2>1 DEF Piece
<1> PICK f : f = ParseRequestLine(p.fields, n)
  OBVIOUS
<1>2. f \in FieldSet
  BY <1>1 DEF ParseRequestLine, FieldSet, AfterLines, ParseState
<1>3. n = 3 => f.method = current /\ f.path = current /\ f.version = current
  BY DEF ParseRequestLine
<1>4. n = 3 => RequestLineOk(f, n)
  BY <1>3 DEF RequestLineOk
<1>5. p \in ParseState /\ p.state = "REQUEST_LINE" /\ p.length = 0
  BY DEF AfterLines
<1> PICK q : q = ParseLine(p, s[1])
  OBVIOUS
<1>6. q = [p EXCEPT !.fields = f, !.keep = ~IsHttp10(f.version),
                    !.state = IF RequestLineOk(f, n) THEN "HEADERS" ELSE "ERROR"]
  BY <1>5 DEF ParseLine
<1>7. /\ q \in ParseState /\ q.state # "REQUEST_LINE" /\ q.length = 0
      /\ n = 3 => q.state = "HEADERS" /\ q.fields.path = current
  <2>1. (~IsHttp10(f.version)) \in BOOLEAN
    OBVIOUS
  <2>2. /\ q.state \in {"HEADERS", "ERROR"} /\ q.fields = f /\ q.length = 0
        /\ RequestLineOk(f, n) => q.state = "HEADERS"
    BY <1>5, <1>6 DEF ParseState
  <2>3. q \in ParseState
    BY <1>2, <1>5, <1>6, <2>1 DEF ParseState
  <2> QED BY <1>3, <1>4, <2>2, <2>3
<1>8. LengthLines(s, 1) = {} /\ LastLength(s, 1) = 0
  BY DEF LengthLines, LastLength
<1> QED BY <1>7, <1>8 DEF AfterLines, WellFormedUpTo

\* A line of the header.
LEMMA HeaderFacts ==
    ASSUME NEW s \in Seq(Piece), NEW k \in 2..Len(s), s[k].k # "end", NEW p \in AfterLines(s, k - 1),
           MaxBuffer \in Nat
    PROVE  ParseLine(p, s[k]) \in AfterLines(s, k)
<1>1. s[k] \in Piece /\ Len(s) \in Nat
  OBVIOUS
<1>2. k \in Nat /\ k # 0 /\ k - 1 > 0 /\ k > 0
  BY <1>1
<1>3. /\ p \in ParseState /\ p.state \in {"HEADERS", "ERROR"}
      /\ p.state = "HEADERS" => /\ p.length = LastLength(s, k - 1)
                                /\ \A j \in LengthLines(s, k - 1) : s[j].n <= MaxBuffer
      /\ WellFormedUpTo(s, k - 1) => p.state = "HEADERS" /\ p.fields.path = current
  BY <1>2 DEF AfterLines, ParseState
<1>4. WellFormedUpTo(s, k) =>
          /\ WellFormedUpTo(s, k - 1) /\ s[k].k \notin {"bad", "request", "request10"}
          /\ s[k].k = "length" => s[k].n <= MaxBuffer
  BY <1>1, <1>2 DEF WellFormedUpTo, LengthLines
<1>5. LengthLines(s, k) = IF s[k].k = "length" THEN LengthLines(s, k - 1) \cup {k} ELSE LengthLines(s, k - 1)
  BY <1>2 DEF LengthLines
<1>6. LastLength(s, k) = IF s[k].k = "length" THEN s[k].n ELSE LastLength(s, k - 1)
  BY <1>2, LengthGrows
<1>7. CASE p.state = "ERROR"
  <2>1. ParseLine(p, s[k]) = p
    BY <1>7 DEF ParseLine
  <2> QED BY <1>2, <1>3, <1>4, <1>7, <2>1 DEF AfterLines
<1>8. CASE p.state = "HEADERS"
  <2> PICK q, line : line = s[k] /\ q = ParseHeader(p, line)
    OBVIOUS
  <2>1. ParseLine(p, s[k]) = q
    BY <1>8 DEF ParseLine
  <2>2. line \in Piece
    BY <1>1
  <2>3. CASE line.k \in {"bad", "request", "request10"}
    <3>1. q = [p EXCEPT !.state = "ERROR"]
      BY <2>3 DEF ParseHeader
    <3>2. q \in ParseState /\ q.state = "ERROR"
      BY <1>3, <3>1 DEF ParseState
    <3> QED BY <1>2, <1>4, <2>1, <2>3, <3>2 DEF AfterLines
  <2>4. CASE line.k = "length" /\ line.n > MaxBuffer
    <3>1. q = [p EXCEPT !.state = "ERROR"]
      BY <2>2, <2>4 DEF ParseHeader, Piece
    <3>2. q \in ParseState /\ q.state = "ERROR"
      BY <1>3, <3>1 DEF ParseState
    <3>3. ~WellFormedUpTo(s, k)
      BY <1>4, <2>2, <2>4 DEF Piece
    <3> QED BY <1>2, <2>1, <3>2, <3>3 DEF AfterLines
  <2>5. CASE line.k = "length" /\ line.n <= MaxBuffer
    <3>1. q = [p EXCEPT !.length = line.n]
      BY <2>2, <2>5 DEF ParseHeader, Piece
    <3>2. q \in ParseState /\ q.state = "HEADERS" /\ q.length = line.n /\ q.fields = p.fields
      BY <1>3, <1>8, <2>2, <3>1 DEF ParseState, Piece
    <3> QED BY <1>2, <1>3, <1>4, <1>5, <1>6, <1>8, <2>1, <2>5, <3>2 DEF AfterLines
  <2>6. CASE line.k \notin {"bad", "request", "request10", "length"}
    <3>1. /\ q \in ParseState /\ q.state = "HEADERS" /\ q.length = p.length /\ q.fields = p.fields
      BY <1>3, <1>8, <2>6 DEF ParseHeader, ParseState
    <3> QED BY <1>2, <1>3, <1>4, <1>5, <1>6, <1>8, <2>1, <2>6, <3>1 DEF AfterLines
  <2> QED BY <2>2, <2>3, <2>4, <2>5, <2>6, <1>1 DEF Piece
<1> QED BY <1>3, <1>7, <1>8

\* Induction up to n.
LEMMA UpTo ==
    ASSUME NEW n \in Nat, NEW T, 0 \in T, \A k \in 1..n : k - 1 \in T => k \in T
    PROVE  \A k \in 0..n : k \in T
<1> DEFINE Bad == {k \in 0..n : k \notin T}
<1>1. ASSUME Bad # {} PROVE FALSE
  <2>1. PICK m \in Bad : \A j \in Bad : m <= j
    <3>1. Bad \in SUBSET Nat
      OBVIOUS
    <3> HIDE DEF Bad
    <3> QED BY <1>1, <3>1, LeastOf
  <2>2. m \in 1..n /\ m - 1 \in 0..n /\ ~(m <= m - 1)
    BY <2>1
  <2>3. m - 1 \in T
    BY <2>1, <2>2
  <2> QED BY <2>1, <2>2, <2>3
<1> QED BY <1>1

\* Where parse begins.
LEMMA StartFacts ==
    ASSUME NEW keep \in BOOLEAN, fields \in FieldSet
    PROVE  Start(keep) \in ParseState /\ Start(keep).state = "REQUEST_LINE" /\ Start(keep).length = 0
BY DEF Start, ParseState

\* The loop over the lines of the head.
LEMMA ParseLinesFacts ==
    ASSUME ParserAssumptions, ParserTypeOK, current \in 1..Requests,
           NEW e, e = EndOfHead(script[current]), e \in 1..arrived
    PROVE  ParseLines(e - 1) \in AfterLines(script[current], e - 1)
<1> PICK s, n : s = script[current] /\ n = e - 1
  OBVIOUS
<1>1. s \in Seq(Piece) /\ s[1].k # "length" /\ SentInFull(s)
  BY DEF ParserAssumptions, ParserTypeOK, SentInFull
<1>2. /\ Requests \in Nat /\ MaxBuffer \in Nat /\ Len(s) \in Nat /\ arrived \in Nat /\ arrived <= Len(s)
      /\ current <= Requests
  BY <1>1 DEF ParserAssumptions, ParserTypeOK
<1>3. n \in Nat /\ n <= arrived /\ n <= Len(s) /\ e \in Nat
  BY <1>2
<1>4. \A k \in 1..n : Buffer[k] = s[k] /\ s[k].k # "end"
  <2>1. \A k \in 1..n : s[k].k # "end"
    BY <1>1, <1>3, EndOfHeadFacts
  <2>2. \A k \in 1..n : k \in 1..arrived
    BY <1>2, <1>3
  <2> QED BY <1>1, <1>2, <1>3, <2>1, <2>2 DEF Buffer
<1> DEFINE base == Start(TRUE)
<1>5. base \in AfterLines(s, 0) /\ base \in ParseState
  <2>1. fields \in FieldSet
    BY DEF FieldSet, ParserTypeOK
  <2>2. \A keep \in BOOLEAN : Start(keep) \in ParseState /\ Start(keep) \in AfterLines(s, 0)
    BY <2>1, StartFacts DEF AfterLines
  <2> QED BY <2>2, Zenon
<1> HIDE DEF base
<1>6. ASSUME NEW k \in 1..n, NEW p \in AfterLines(s, k - 1) PROVE ParseLine(p, s[k]) \in AfterLines(s, k)
  <2>1. CASE k = 1
    BY <1>1, <1>2, <1>3, <1>6, <2>1, RequestLineFacts
  <2>2. CASE k # 1
    <3>1. k \in 2..Len(s) /\ s[k].k # "end"
      BY <1>2, <1>3, <1>4, <2>2
    <3> QED BY <1>1, <1>2, <1>6, <3>1, HeaderFacts
  <2> QED BY <2>1, <2>2
<1> DEFINE round == [k \in 1..n |-> [p \in ParseState |->
                        IF p \in AfterLines(s, k - 1) THEN ParseLine(p, s[k]) ELSE base]]
           After(f) == f = [k \in 0..n |-> IF k = 0 THEN base
                                           ELSE ParseLine(f[k - 1], Buffer[k])]
<1>7. \E f : After(f)
  <2>1. round \in [1..n -> [ParseState -> ParseState]]
    <3>1. \A k : AfterLines(s, k) \subseteq ParseState
      BY DEF AfterLines
    <3> QED BY <1>5, <1>6, <3>1
  <2> PICK r : r = round
    OBVIOUS
  <2>2. PICK f \in [0..n -> ParseState] : f[0] = base /\ \A k \in 1..n : f[k] = r[k][f[k - 1]]
    <3>1. r \in [1..n -> [ParseState -> ParseState]]
      BY <2>1
    <3> HIDE DEF round, After
    <3>2. \E f \in [0..n -> ParseState] : RunOf(f, base, n, r)
      BY <1>3, <1>5, <3>1, LoopRuns
    <3> QED BY <3>2 DEF RunOf
  <2>3. ASSUME NEW k \in 1..n PROVE k - 1 \in 0..n /\ f[k - 1] \in ParseState
    BY <1>3, <2>2
  <2> DEFINE T == {k \in 0..n : f[k] \in AfterLines(s, k)}
  <2>4. \A k \in 1..n : k - 1 \in T => /\ f[k] = ParseLine(f[k - 1], s[k])
                                       /\ k \in T
    <3> TAKE k \in 1..n
    <3> HAVE k - 1 \in T
    <3>1. f[k - 1] \in AfterLines(s, k - 1) /\ k \in 0..n
      BY <1>3
    <3>2. f[k] = ParseLine(f[k - 1], s[k])
      BY <2>2, <2>3, <3>1
    <3> QED BY <1>6, <3>1, <3>2
  <2>5. \A k \in 0..n : k \in T
    <3>1. 0 \in T
      <4>1. 0 \in 0..n /\ f[0] \in AfterLines(s, 0)
        BY <1>3, <1>5, <2>2
      <4> QED BY <4>1
    <3> HIDE DEF T
    <3> QED BY <1>3, <2>4, <3>1, UpTo
  <2>6. ASSUME NEW k \in 0..n
        PROVE  f[k] = IF k = 0 THEN base ELSE ParseLine(f[k - 1], Buffer[k])
    <3>1. CASE k = 0
      BY <2>2, <3>1
    <3>2. CASE k # 0
      <4>1. k \in 1..n /\ k - 1 \in 0..n
        BY <1>3, <3>2
      <4>2. f[k] = ParseLine(f[k - 1], s[k])
        <5> HIDE DEF T
        <5> QED BY <2>4, <2>5, <4>1
      <4> QED BY <1>4, <3>2, <4>1, <4>2
    <3> QED BY <3>1, <3>2
  <2>7. After(f)
    BY <2>2, <2>6
  <2> QED BY <2>7
<1> DEFINE g == CHOOSE f : After(f)
<1>8. After(g)
  BY <1>7
<1>9. ParseLines(n) = g[n]
  BY DEF ParseLines, base
<1> PICK h : h = g
  OBVIOUS
<1>10. After(h)
  BY <1>8
<1> HIDE DEF g
<1>11. h[0] = base /\ \A k \in 1..n : h[k] = ParseLine(h[k - 1], s[k])
  <2>1. \A k \in 0..n : h[k] = IF k = 0 THEN base
                               ELSE ParseLine(h[k - 1], Buffer[k])
    BY <1>10
  <2>2. 0 \in 0..n /\ \A k \in 1..n : k \in 0..n /\ k # 0
    BY <1>3
  <2> QED BY <1>4, <2>1, <2>2
<1> HIDE DEF After
<1> DEFINE T == {k \in 0..n : h[k] \in AfterLines(s, k)}
<1>12. 0 \in T /\ \A k \in 1..n : k - 1 \in T => k \in T
  BY <1>3, <1>5, <1>6, <1>11
<1>13. n \in T
  <2> HIDE DEF T
  <2>1. \A k \in 0..n : k \in T
    BY <1>3, <1>12, UpTo
  <2> QED BY <1>3, <2>1
<1> QED BY <1>9, <1>13

\* The result of parse: a well-formed request is never refused, and it is
\* finished with its own path and body; all of a request is enough.
LEMMA ParseFacts ==
    ASSUME ParserAssumptions, ParserTypeOK, current \in 1..Requests
    PROVE  /\ Parse.fields \in FieldSet /\ Parse.keep \in BOOLEAN /\ Parse.body \in Nat
           /\ ~Malformed(current) => Parse.state # "ERROR"
           /\ (~Malformed(current) /\ Parse.state = "FINISH")
                 => Parse.fields.path = current /\ Parse.body = BodyLength(current)
           /\ arrived = Len(script[current]) => Parse.state \in {"ERROR", "FINISH"}
<1> PICK s, b, e : s = script[current] /\ b = Buffer /\ e = EndOfHead(b)
  OBVIOUS
<1>1. s \in Seq(Piece) /\ SentInFull(s)
  BY DEF ParserAssumptions, ParserTypeOK
<1>2. /\ Requests \in Nat /\ MaxBuffer \in Nat /\ Len(s) \in Nat /\ arrived \in 0..Len(s)
      /\ keepAlive \in BOOLEAN /\ fields \in FieldSet
  BY <1>1 DEF ParserAssumptions, ParserTypeOK, FieldSet
<1>3. b = SubSeq(s, 1, arrived) /\ b \in Seq(Piece) /\ Len(b) = arrived
  BY <1>1, <1>2 DEF Buffer
<1>4. CASE e = 0
  <2>1. Parse = Start(keepAlive)
    BY <1>4 DEF Parse
  <2>2. Start(keepAlive) \in ParseState /\ Start(keepAlive).state = "REQUEST_LINE"
    BY <1>2, StartFacts
  <2> PICK p : p = Start(keepAlive)
    OBVIOUS
  <2>3. p.fields \in FieldSet /\ p.keep \in BOOLEAN /\ p.body \in Nat /\ p.state = "REQUEST_LINE"
    BY <2>2 DEF ParseState
  <2>4. arrived # Len(s)
    <3>1. SUFFICES ASSUME arrived = Len(s) PROVE FALSE
      OBVIOUS
    <3>2. b = s
      BY <1>1, <1>2, <1>3, <3>1
    <3> QED BY <1>1, <1>4, <3>2 DEF SentInFull
  <2> QED BY <2>1, <2>3, <2>4
<1>5. CASE e # 0
  <2>1. EndOfHead(s) = e /\ e \in 1..arrived
    BY <1>1, <1>2, <1>3, <1>5, HeadOfBuffer
  <2> PICK q, bytes : q = ParseLines(e - 1) /\ bytes = arrived - e
    OBVIOUS
  <2>2. q \in AfterLines(s, e - 1)
    BY <2>1, ParseLinesFacts
  <2>3. Parse = ParseBody(q, bytes)
    BY <1>3, <1>5 DEF Parse
  <2>4. e \in Nat /\ e - 1 \in Nat /\ bytes \in Nat /\ (e # 1 => e - 1 > 0) /\ e \in 1..Len(s)
    BY <1>2, <2>1
  <2>5. /\ s[e].k = "end" /\ LastLength(s, e) = LastLength(s, e - 1)
        /\ LengthLines(s, e) = LengthLines(s, e - 1)
    <3>1. s[e].k = "end"
      BY <1>1, <1>5, <2>1, EndOfHeadFacts
    <3>2. LastLength(s, e) = LastLength(s, e - 1)
      BY <1>5, <2>4, <3>1, LengthGrows
    <3>3. LengthLines(s, e) = LengthLines(s, e - 1)
      BY <2>4, <3>1 DEF LengthLines
    <3> QED BY <3>1, <3>2, <3>3
  <2>6. /\ q \in ParseState
        /\ e = 1 => q.state = "REQUEST_LINE" /\ q.length = 0
        /\ e # 1 => /\ q.state = "HEADERS" => /\ q.length = LastLength(s, e - 1)
                                              /\ \A j \in LengthLines(s, e - 1) : s[j].n <= MaxBuffer
                    /\ q.state \in {"HEADERS", "ERROR"}
                    /\ WellFormedUpTo(s, e - 1) => q.state = "HEADERS" /\ q.fields.path = current
    BY <2>2, <2>4 DEF AfterLines, ParseState
  <2>7. ~Malformed(current) => e # 1 /\ WellFormedUpTo(s, e - 1)
    <3>1. SUFFICES ASSUME ~Malformed(current) PROVE e # 1 /\ WellFormedUpTo(s, e - 1)
      OBVIOUS
    <3>2. /\ e # 1 /\ s[1].n = 3
          /\ \A j \in 2..e : s[j].k \notin {"bad", "request", "request10"}
          /\ \A j \in LengthLines(s, e) : ~(s[j].n > MaxBuffer)
      BY <2>1, <3>1 DEF Malformed, HeadEnd
    <3>3. \A j \in LengthLines(s, e - 1) : s[j].n \in Nat
      <4>1. \A j \in LengthLines(s, e - 1) : j \in 1..Len(s)
        BY <2>4 DEF LengthLines
      <4>2. \A j \in 1..Len(s) : s[j] \in Piece
        BY <1>1
      <4> QED BY <4>1, <4>2 DEF Piece
    <3>4. \A j \in LengthLines(s, e - 1) : s[j].n <= MaxBuffer
      BY <1>2, <2>5, <3>2, <3>3
    <3>5. \A j \in 2..(e - 1) : j \in 2..e
      BY <2>4
    <3> QED BY <3>2, <3>4, <3>5 DEF WellFormedUpTo
  <2>8. q.fields \in FieldSet /\ q.keep \in BOOLEAN /\ q.length \in Nat /\ q.body = 0
    BY <2>6 DEF ParseState
  <2> PICK p : p = Parse
    OBVIOUS
  <2>9. CASE q.state = "ERROR"
    <3>1. p = q
      BY <2>3, <2>9 DEF ParseBody
    <3> QED BY <2>6, <2>7, <2>8, <2>9, <3>1
  <2>10. CASE q.state # "ERROR" /\ bytes < q.length
    <3>1. p = [q EXCEPT !.state = "BODY"]
      BY <2>3, <2>10 DEF ParseBody
    <3>2. p.state = "BODY" /\ p.fields = q.fields /\ p.keep = q.keep /\ p.body = 0
      BY <2>6, <2>8, <3>1 DEF ParseState
    <3>3. arrived # Len(s)
      <4>1. SUFFICES ASSUME arrived = Len(s) PROVE FALSE
        OBVIOUS
      <4>2. e # 1 /\ q.state = "HEADERS"
        BY <2>4, <2>6, <2>10
      <4>3. ~(\E j \in LengthLines(s, e) : s[j].n > MaxBuffer)
        <5>1. \A j \in LengthLines(s, e) : s[j].n \in Nat
          <6>1. \A j \in LengthLines(s, e) : j \in 1..Len(s)
            BY <2>4 DEF LengthLines
          <6>2. \A j \in 1..Len(s) : s[j] \in Piece
            BY <1>1
          <6> QED BY <6>1, <6>2 DEF Piece
        <5>2. \A j \in LengthLines(s, e) : s[j].n <= MaxBuffer
          BY <2>5, <2>6, <4>2
        <5> QED BY <1>2, <5>1, <5>2
      <4>4. LastLength(s, e) <= Len(s) - e
        BY <1>1, <2>1, <4>3 DEF SentInFull
      <4>5. q.length <= bytes
        BY <2>5, <2>6, <4>1, <4>2, <4>4
      <4> QED BY <2>4, <2>8, <2>10, <4>5
    <3> QED BY <2>8, <3>2, <3>3
  <2>11. CASE q.state # "ERROR" /\ ~(bytes < q.length)
    <3>1. p = [q EXCEPT !.state = "FINISH", !.body = q.length]
      BY <2>3, <2>11 DEF ParseBody
    <3>2. p.state = "FINISH" /\ p.fields = q.fields /\ p.keep = q.keep /\ p.body = q.length
      BY <2>6, <2>8, <3>1 DEF ParseState
    <3>3. ~Malformed(current) => p.fields.path = current /\ p.body = BodyLength(current)
      BY <2>1, <2>5, <2>6, <2>7, <3>2 DEF BodyLength, HeadEnd
    <3> QED BY <2>8, <3>2, <3>3
  <2> QED BY <2>9, <2>10, <2>11
<1> QED BY <1>4, <1>5

\* A request has at least its empty line.
LEMMA NeverEmpty ==
    ASSUME ParserAssumptions, ParserTypeOK
    PROVE  \A i \in 1..Requests : Len(script[i]) \in Nat /\ Len(script[i]) # 0
<1> TAKE i \in 1..Requests
<1>1. script[i] \in Seq(Piece) /\ EndOfHead(script[i]) # 0
  BY DEF ParserAssumptions, ParserTypeOK, SentInFull
<1>2. EndOfHead(script[i]) \in 0..Len(script[i]) /\ Len(script[i]) \in Nat
  BY <1>1, EndOfHeadFacts
<1> QED BY <1>1, <1>2

\* The client and the connection before the first request.
LEMMA ParserStarts ==
    ASSUME ParserAssumptions, ParserInit PROVE ParserInv
<1>1. Requests \in Nat /\ MaxBuffer \in Nat
  BY DEF ParserAssumptions
<1>2. ParserTypeOK
  <2>1. \A i \in 1..Requests : response[i] = NoAnswer
    BY DEF ParserInit
  <2>2. response \in [1..Requests -> [code : {0, 200, 400}, from : 0..Requests, body : Nat]]
    BY <1>1 DEF ParserInit, NoAnswer
  <2>3. current <= Requests => arrived <= Len(script[current])
    <3>1. SUFFICES ASSUME current <= Requests PROVE arrived <= Len(script[current])
      OBVIOUS
    <3>2. script[current] \in Seq(Piece)
      BY <1>1, <3>1 DEF ParserInit, ParserAssumptions
    <3>3. Len(script[current]) \in Nat
      BY <3>2
    <3> QED BY <3>3 DEF ParserInit
  <2>4. fields \in [method : 0..Requests, path : 0..Requests, version : 0..Requests]
    BY <1>1 DEF ParserInit
  <2>5. fresh \in BOOLEAN /\ keepAlive \in BOOLEAN
    BY DEF ParserInit
  <2>6. /\ script \in [1..Requests -> Shape] /\ current \in 1..(Requests + 1)
        /\ arrived \in 0..MaxBuffer /\ status \in {"open", "writing", "closed"}
    BY <1>1 DEF ParserInit
  <2> QED BY <2>1, <2>2, <2>3, <2>4, <2>5, <2>6 DEF ParserTypeOK
<1>3. \A i \in 1..Requests : Len(script[i]) # 0
  BY <1>2, NeverEmpty
<1>4. AnswersOwnRequest
  BY <1>3 DEF AnswersOwnRequest, ParserInit
<1> QED BY <1>2, <1>4 DEF ParserInv, ParserInit

\* Pieces arrive.
LEMMA ReceiveStep ==
    ASSUME ParserAssumptions, ParserInv, NEW n \in 1..MaxBuffer, Receive(n) PROVE ParserInv'
<1>1. Requests \in Nat /\ MaxBuffer \in Nat /\ n \in Nat
  BY DEF ParserAssumptions
<1>2. /\ arrived \in Nat /\ current \in 1..Requests /\ arrived' = arrived + n
      /\ arrived' <= Len(script[current]) /\ arrived' \in 0..MaxBuffer
      /\ UNCHANGED <<script, current, fields, keepAlive, response>>
  BY <1>1 DEF Receive, ParserInv, ParserTypeOK
<1>3. \/ fresh' /\ fresh' \in BOOLEAN /\ status' = "open"
      \/ status' = "closed" /\ arrived' >= MaxBuffer /\ fresh' = fresh
  BY DEF Receive
<1>4. ParserTypeOK'
  BY <1>2, <1>3 DEF ParserInv, ParserTypeOK
<1>5. AnswersOwnRequest'
  <2>1. \A i : Malformed(i)' = Malformed(i) /\ BodyLength(i)' = BodyLength(i)
    BY <1>2 DEF Malformed, BodyLength, HeadEnd
  <2>2. ASSUME NEW i \in 1..Requests, i = current, Len(script[i]) < MaxBuffer, arrived' = Len(script[i]), ~fresh'
        PROVE  FALSE
    BY <1>1, <1>2, <1>3, <2>2
  <2> QED BY <1>2, <2>1, <2>2 DEF ParserInv, AnswersOwnRequest
<1> QED BY <1>2, <1>3, <1>4, <1>5 DEF ParserInv, ParserTypeOK

\* A worker parses what is there.
LEMMA ProcessStep ==
    ASSUME ParserAssumptions, ParserInv, Process PROVE ParserInv'
<1>1. Requests \in Nat /\ MaxBuffer \in Nat /\ ParserTypeOK /\ AnswersOwnRequest
  BY DEF ParserAssumptions, ParserInv
<1>2. current \in 1..Requests
  BY <1>1 DEF Process, ParserInv, ParserTypeOK
<1> PICK p : p = Parse
  OBVIOUS
<1>3. /\ p.fields \in FieldSet /\ p.keep \in BOOLEAN /\ p.body \in Nat
      /\ ~Malformed(current) => p.state # "ERROR"
      /\ (~Malformed(current) /\ p.state = "FINISH") => p.fields.path = current /\ p.body = BodyLength(current)
      /\ arrived = Len(script[current]) => p.state \in {"ERROR", "FINISH"}
  BY <1>1, <1>2, ParseFacts
<1>4. /\ status = "open" /\ fresh' = FALSE /\ fields' = p.fields
      /\ UNCHANGED <<script, current, arrived>>
      /\ \/ /\ p.state = "ERROR" /\ response' = [response EXCEPT ![current] = BadRequest]
            /\ keepAlive' = FALSE /\ status' = "writing"
         \/ /\ p.state = "FINISH" /\ response' = [response EXCEPT ![current] = Ok(p.fields.path, p.body)]
            /\ keepAlive' = p.keep /\ status' = "writing"
         \/ /\ p.state \notin {"ERROR", "FINISH"} /\ keepAlive' = p.keep
            /\ response' = response /\ status' = status
  BY DEF Process
<1> PICK a : a = response'[current]
  OBVIOUS
<1>5. /\ \A i \in 1..Requests : i # current => response'[i] = response[i]
      /\ response' \in [1..Requests -> [code : {0, 200, 400}, from : 0..Requests, body : Nat]]
      /\ \/ p.state = "ERROR" /\ a = BadRequest
         \/ p.state = "FINISH" /\ a = Ok(p.fields.path, p.body)
         \/ p.state \notin {"ERROR", "FINISH"} /\ a = response[current]
  <2>1. p.fields.path \in 0..Requests
    BY <1>3 DEF FieldSet
  <2>2. /\ BadRequest \in [code : {0, 200, 400}, from : 0..Requests, body : Nat]
        /\ Ok(p.fields.path, p.body) \in [code : {0, 200, 400}, from : 0..Requests, body : Nat]
    BY <1>1, <1>3, <2>1 DEF BadRequest, Ok
  <2> PICK A, bad, ok : /\ A = [code : {0, 200, 400}, from : 0..Requests, body : Nat]
                        /\ bad = BadRequest /\ ok = Ok(p.fields.path, p.body)
    OBVIOUS
  <2>3. response \in [1..Requests -> A] /\ bad \in A /\ ok \in A
    BY <1>1, <2>2 DEF ParserTypeOK
  <2>4. CASE p.state = "ERROR" /\ response' = [response EXCEPT ![current] = bad]
    BY <1>2, <2>3, <2>4
  <2>5. CASE p.state = "FINISH" /\ response' = [response EXCEPT ![current] = ok]
    BY <1>2, <2>3, <2>5
  <2>6. CASE p.state \notin {"ERROR", "FINISH"} /\ response' = response
    BY <1>2, <2>3, <2>6
  <2> QED BY <1>4, <2>4, <2>5, <2>6
<1>6. ParserTypeOK'
  <2>1. keepAlive' \in BOOLEAN /\ status' \in {"open", "writing", "closed"} /\ fresh' \in BOOLEAN
    BY <1>3, <1>4
  <2>2. \A i \in 1..Requests : i > current => response'[i] = NoAnswer
    BY <1>1, <1>2, <1>5 DEF ParserTypeOK
  <2> QED BY <1>1, <1>3, <1>4, <1>5, <2>1, <2>2 DEF ParserTypeOK, FieldSet
<1>7. AnswersOwnRequest'
  <2>1. \A i : Malformed(i)' = Malformed(i) /\ BodyLength(i)' = BodyLength(i)
    BY <1>4 DEF Malformed, BodyLength, HeadEnd
  <2>2. BadRequest # NoAnswer /\ \A f, b : Ok(f, b) # NoAnswer
    BY DEF BadRequest, NoAnswer, Ok
  <2>3. (a # NoAnswer /\ ~Malformed(current)) => a = Ok(current, BodyLength(current))
    BY <1>1, <1>2, <1>3, <1>5 DEF AnswersOwnRequest
  <2>4. arrived = Len(script[current]) => a # NoAnswer
    BY <1>3, <1>5, <2>2
  <2>5. ASSUME NEW i \in 1..Requests
        PROVE  /\ (response'[i] # NoAnswer /\ ~Malformed(i)) => response'[i] = Ok(i, BodyLength(i))
               /\ (i = current /\ arrived = Len(script[i])) => response'[i] # NoAnswer
    BY <1>1, <1>5, <2>3, <2>4 DEF AnswersOwnRequest
  <2> QED BY <1>4, <2>1, <2>5 DEF AnswersOwnRequest
<1> QED BY <1>2, <1>4, <1>6, <1>7 DEF ParserInv

\* The answer is on its way.
LEMMA WriteStep ==
    ASSUME ParserAssumptions, ParserInv, Write PROVE ParserInv'
<1>1. Requests \in Nat /\ MaxBuffer \in Nat /\ ParserTypeOK /\ AnswersOwnRequest
  BY DEF ParserAssumptions, ParserInv
<1>2. current \in 1..Requests /\ ~fresh
  BY <1>1 DEF Write, ParserInv, ParserTypeOK
<1>3. UNCHANGED <<script, fresh, fields, keepAlive, response>>
  BY DEF Write
<1>4. \A i : Malformed(i)' = Malformed(i) /\ BodyLength(i)' = BodyLength(i)
  BY <1>3 DEF Malformed, BodyLength, HeadEnd
<1>5. CASE status' = "open" /\ current' = current + 1 /\ arrived' = 0
  <2>1. \A i \in 1..Requests : Len(script[i]) \in Nat /\ Len(script[i]) # 0
    BY <1>1, NeverEmpty
  <2>2. current' \in 1..(Requests + 1) /\ (\A i \in 1..Requests : i > current' => i > current)
    BY <1>1, <1>2, <1>5
  <2>3. current' <= Requests => arrived' <= Len(script'[current'])
    BY <1>1, <1>3, <1>5, <2>1, <2>2
  <2>4. ParserTypeOK'
    BY <1>1, <1>3, <1>5, <2>2, <2>3 DEF ParserTypeOK
  <2>5. AnswersOwnRequest'
    BY <1>1, <1>3, <1>4, <1>5, <2>1 DEF AnswersOwnRequest
  <2> QED BY <1>2, <1>3, <1>5, <2>4, <2>5 DEF ParserInv
<1>6. CASE status' = "closed" /\ UNCHANGED <<current, arrived>>
  <2>1. ParserTypeOK'
    BY <1>1, <1>3, <1>6 DEF ParserTypeOK
  <2>2. AnswersOwnRequest'
    BY <1>1, <1>3, <1>4, <1>6 DEF AnswersOwnRequest
  <2> QED BY <1>2, <1>3, <1>6, <2>1, <2>2 DEF ParserInv
<1> QED BY <1>5, <1>6 DEF Write

\* The parser's invariant holds always.
LEMMA ParserInvariant == ParserSpec => []ParserInv
<1>1. ParserInit => ParserInv
  BY ParserAssumptions, ParserStarts
<1>2. ParserInv /\ [ParserNext]_parserVars => ParserInv'
  <2>1. SUFFICES ASSUME ParserInv, [ParserNext]_parserVars PROVE ParserInv'
    OBVIOUS
  <2>2. CASE Process
    BY <2>1, <2>2, ParserAssumptions, ProcessStep
  <2>3. CASE Write
    BY <2>1, <2>3, ParserAssumptions, WriteStep
  <2>4. ASSUME NEW n \in 1..MaxBuffer, Receive(n) PROVE ParserInv'
    BY <2>1, <2>4, ParserAssumptions, ReceiveStep
  <2>5. CASE UNCHANGED parserVars
    <3>1. \A i : Malformed(i)' = Malformed(i) /\ BodyLength(i)' = BodyLength(i)
      BY <2>5 DEF parserVars, Malformed, BodyLength, HeadEnd
    <3> QED BY <2>1, <2>5, <3>1 DEF parserVars, ParserInv, ParserTypeOK, AnswersOwnRequest
  <2> QED BY <2>1, <2>2, <2>3, <2>4, <2>5 DEF ParserNext
<1> QED BY <1>1, <1>2, PTL DEF ParserSpec

\* HttpConn::process keeps the fields of a connection and its answers within
\* their types, and nothing is answered before it is asked.
THEOREM ParserTypeCorrect == ParserSpec => []ParserTypeOK
<1>1. ParserInv => ParserTypeOK
  BY DEF ParserInv
<1> QED BY <1>1, ParserInvariant, PTL

\* However the requests of a keep-alive connection are cut into pieces,
\* HttpConn::parse and process answer each well-formed one from its own
\* request line and its whole body, and none that fits is left waiting.
THEOREM AnswersStayOwn == ParserSpec => []AnswersOwnRequest
<1>1. ParserInv => AnswersOwnRequest
  BY DEF ParserInv
<1> QED BY <1>1, ParserInvariant, PTL
=============================================================================
