----------------------------- MODULE VehicleStore -----------------------------
(***************************************************************************)
(* What VehicleManager.cpp keeps over restarts: the vehicle table and the  *)
(* metadata of its snapshot are loaded by enablePersistence before the     *)
(* server starts and written by saveAll after it has stopped, as main.cpp  *)
(* arranges.  The process may be killed between any two statements; the    *)
(* database then rolls an open transaction back.  A statement may fail,    *)
(* and when COMMIT fails the client does not know what became of it.       *)
(***************************************************************************)
EXTENDS Naturals, FiniteSets

CONSTANTS
    StoredVehicle,
    MaxStamp,    \* bound on snapshots, and on changes between them
    MaxFault     \* bound on kills and failed statements

ASSUME StoreAssumptions == MaxStamp \in Nat /\ MaxFault \in Nat

Empty == [v \in StoredVehicle |-> 0]
Image(table, stamp) == [table |-> table, stamp |-> stamp]

VARIABLES
    pc,         \* what main is doing
    memory,     \* vehicles_ and snapshot_timestamp_
    copy,       \* what saveAll has taken of them
    todo,       \* vehicles whose INSERT is still to come
    rows, meta, \* the two tables, committed
    txRows, txMeta,  \* as the open transaction sees them
    served,     \* images the running server has had, since the last start
    changes, faults

memVars == <<memory, copy, todo>>
tableVars == <<rows, meta, txRows, txMeta>>
storeVars == <<pc, memVars, tableVars, served, changes, faults>>

StoreInit ==
    /\ pc = "down" /\ memory = Image(Empty, 0) /\ copy = Image(Empty, 0) /\ todo = {}
    /\ rows = Empty /\ meta = 0 /\ txRows = Empty /\ txMeta = 0
    /\ served = {Image(Empty, 0)} /\ changes = 0 /\ faults = 0

\* enablePersistence: the tables are created if need be and read.
EnablePersistence ==
    /\ pc = "down"
    /\ memory' = Image(rows, meta)
    /\ served' = {Image(rows, meta)}
    /\ txRows' = rows /\ txMeta' = meta
    /\ pc' = "serving"
    /\ UNCHANGED <<copy, todo, rows, meta, changes, faults>>

\* A vehicle is registered, updated or removed.
ChangeVehicle(v, present) ==
    /\ pc = "serving" /\ changes < MaxStamp
    /\ changes' = changes + 1
    /\ memory' = [memory EXCEPT !.table[v] = IF present THEN changes + 1 ELSE 0]
    /\ served' = served \cup {memory'}
    /\ UNCHANGED <<pc, copy, todo, tableVars, faults>>

ReplaceSnapshot(S) ==
    /\ pc = "serving" /\ changes < MaxStamp
    /\ changes' = changes + 1
    /\ memory' = Image([v \in StoredVehicle |-> IF v \in S THEN changes + 1 ELSE 0], changes + 1)
    /\ served' = served \cup {memory'}
    /\ UNCHANGED <<pc, copy, todo, tableVars, faults>>

-----------------------------------------------------------------------------
(* saveAll.                                                                *)

\* The server has stopped; the state is copied under the lock.
SaveAll ==
    /\ pc = "serving"
    /\ copy' = memory
    /\ pc' = "begin"
    /\ UNCHANGED <<memory, todo, tableVars, served, changes, faults>>

\* Faulty variant: every statement commits by itself.
DeleteAutocommit ==
    /\ pc = "begin"
    /\ rows' = Empty /\ txRows' = Empty /\ txMeta' = meta
    /\ todo' = {v \in StoredVehicle : copy.table[v] # 0}
    /\ pc' = "insert"
    /\ UNCHANGED <<memory, copy, meta, served, changes, faults>>

\* START TRANSACTION and DELETE.
BeginTransaction ==
    /\ pc = "begin"
    /\ txRows' = Empty /\ txMeta' = meta
    /\ todo' = {v \in StoredVehicle : copy.table[v] # 0}
    /\ pc' = "insert"
    /\ UNCHANGED <<memory, copy, rows, meta, served, changes, faults>>

InsertVehicle(v) ==
    /\ pc = "insert" /\ v \in todo
    /\ txRows' = [txRows EXCEPT ![v] = copy.table[v]]
    /\ todo' = todo \ {v}
    /\ UNCHANGED <<pc, memory, copy, rows, meta, txMeta, served, changes, faults>>

ReplaceMetadata ==
    /\ pc = "insert" /\ todo = {}
    /\ txMeta' = copy.stamp
    /\ pc' = "commit"
    /\ UNCHANGED <<memVars, rows, meta, txRows, served, changes, faults>>

Commit ==
    /\ pc = "commit"
    /\ rows' = txRows /\ meta' = txMeta
    /\ pc' = "exit0"
    /\ UNCHANGED <<memVars, txRows, txMeta, served, changes, faults>>

Rollback == txRows' = rows' /\ txMeta' = meta'

\* A statement fails: ROLLBACK and exit with 1.
StatementFails ==
    /\ pc \in {"begin", "insert"} /\ faults < MaxFault
    /\ faults' = faults + 1
    /\ UNCHANGED <<rows, meta>> /\ Rollback
    /\ pc' = "exit1"
    /\ UNCHANGED <<memVars, served, changes>>

CommitFails ==
    /\ pc = "commit" /\ faults < MaxFault
    /\ faults' = faults + 1
    /\ \/ UNCHANGED <<rows, meta>>
       \/ rows' = txRows /\ meta' = txMeta
    /\ Rollback
    /\ pc' = "exit1"
    /\ UNCHANGED <<memVars, served, changes>>

Killed ==
    /\ pc \notin {"down", "exit0", "exit1"} /\ faults < MaxFault
    /\ faults' = faults + 1
    /\ UNCHANGED <<rows, meta>> /\ Rollback
    /\ pc' = "exit1"
    /\ UNCHANGED <<memVars, served, changes>>

Restart ==
    /\ pc \in {"exit0", "exit1"}
    /\ pc' = "down"
    /\ UNCHANGED <<memVars, tableVars, served, changes, faults>>

StoreNext ==
    \/ EnablePersistence \/ SaveAll \/ BeginTransaction \/ ReplaceMetadata \/ Commit
    \/ StatementFails \/ CommitFails \/ Killed \/ Restart
    \/ \E v \in StoredVehicle : InsertVehicle(v) \/ \E p \in BOOLEAN : ChangeVehicle(v, p)
    \/ \E S \in SUBSET StoredVehicle : ReplaceSnapshot(S)

StoreSpec == StoreInit /\ [][StoreNext]_storeVars

-----------------------------------------------------------------------------
(* Properties.                                                             *)

\* Type invariant of the store; a transaction that is ready to be committed
\* holds the whole copy.
StoreTypeOK ==
    /\ pc \in {"down", "serving", "begin", "insert", "commit", "exit0", "exit1"}
    /\ memory \in served
    /\ todo \subseteq StoredVehicle /\ meta \in 0..MaxStamp
    /\ pc \in {"insert", "commit"} => copy = memory
    /\ pc = "commit" => Image(txRows, txMeta) = copy

\* Rows and metadata in the database always belong together: they are what
\* the server had at one moment of its last run or what it started from,
\* wherever it was killed and whichever statement failed.  A server that
\* ended without an error has stored its last state.
StoredImageWhole ==
    /\ Image(rows, meta) \in served
    /\ pc = "exit0" => Image(rows, meta) = memory

=============================================================================
