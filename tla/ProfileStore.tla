---------------------------- MODULE ProfileStore ----------------------------
(***************************************************************************)
(* How query profiles are restored from pwb.query_profile, persisted to    *)
(* it, and reset (src/shmem/profiles.rs, src/profile.rs,                   *)
(* src/profile_store.rs, src/catalog.rs, src/stats.rs).                    *)
(*                                                                         *)
(* The array and its restore state are shared by every backend of the      *)
(* server and disappear with it.  The rows belong to one database, and are *)
(* read and written by whichever statement finds it due, inside that       *)
(* statement's own transaction, which may abort, wait for the row locks of *)
(* another one, or be cancelled by an ERROR that unwinds through the       *)
(* extension.  The shared-memory lock is not held during SQL.              *)
(***************************************************************************)
EXTENDS ProfileTable

CONSTANTS
  Backends,
  Databases,   \* the databases of the server
  Home,        \* the database of each backend
  Installed,   \* the databases that have the table
  StaleAfter,  \* PROFILE_RESTORE_STALE_MS
  Interval,    \* PROFILE_PERSIST_INTERVAL_MS
  InitialRows, \* the rows that a database may hold when the server starts
  MaxClock,    \* bound on the clock
  MaxErrors,   \* bound on the errors in SQL
  MaxRestarts, \* bound on restarts of the server
  Tasks        \* what backends do: "predict", "observe", "flush", "reset"

ASSUME StoreAssumption ==
  /\ Scopes \subseteq Nat \ {0} /\ Global = 0  \* a null hash is sorted first
  /\ IsFiniteSet(Scopes) /\ IsFiniteSet(Queries)  \* numbers of 64 bits
  /\ Capacity > 0
  /\ Home \in [Backends -> Databases] /\ Installed \subseteq Databases
  /\ StaleAfter \in Nat \ {0} /\ Interval \in Nat
  /\ MaxClock \in Nat /\ MaxErrors \in Nat /\ MaxRestarts \in Nat
  /\ Tasks \subseteq {"predict", "observe", "flush", "reset"}

VARIABLES
  array,       \* the array of profiles
  restore,     \* profile_restore_state
  started,     \* profile_restore_started_epoch_ms
  lastPersist, \* last_profile_persist_epoch_ms
  marks,       \* profile_dirty_count
  durable,     \* pwb.query_profile of each database, as committed
  pending,     \* what the open transaction of each backend wrote
  task,        \* what each backend is doing
  pc,          \* and how far it is
  reading,     \* the time an observation was made
  batch,       \* the rows a backend has loaded, or has still to write
  clock,
  errors,
  restarts,
  overlapped,  \* history: the array changed since a backend's snapshot
  resetAt      \* history: when the last reset finished

shared == <<array, restore, started, lastPersist, marks>>
local == <<task, pc, reading, batch>>
history == <<overlapped, resetAt>>
bounds == <<clock, errors, restarts>>
storeVars == <<shared, durable, pending, local, bounds, history>>

Missing == [row |-> "missing"]
Kept == [row |-> "kept"]
NoRows == [key \in Keys |-> Missing]
ASSUME RowsAssumption == InitialRows \subseteq [Keys -> Profile \cup {Missing}]
NoChanges == [key \in Keys |-> Kept]

\* A transaction sees what is committed and what it wrote itself.
Visible(b) ==
  [key \in Keys |-> IF pending[b][key] = Kept THEN durable[Home[b]][key]
                                              ELSE pending[b][key]]

HasTable(b) == Home[b] \in Installed

\* order by last_seen_epoch_ms desc, query_id, scope_hash nulls first
LoadsBefore(row, other) ==
  \/ row.profile.lastSeen > other.profile.lastSeen
  \/ /\ row.profile.lastSeen = other.profile.lastSeen
     /\ \/ row.key[2] < other.key[2]
        \/ row.key[2] = other.key[2] /\ row.key[1] < other.key[1]

\* The rows that SQL of backend b finds.
FoundRows(b) ==
  {[key |-> key, profile |-> Visible(b)[key]] :
     key \in {k \in Keys : Visible(b)[k] # Missing}}

LoadProfiles(b) ==
  LET all == InOrder(FoundRows(b), LoadsBefore)
  IN  IF HasTable(b) THEN SubSeq(all, 1, Smaller(Len(all), Capacity)) ELSE <<>>

\* Another open transaction changed the row: it is locked.
Locked(b, key) ==
  \E other \in Backends \ {b} :
    Home[other] = Home[b] /\ pending[other][key] # Kept

\* A persist, or the DELETE of a reset, is at its next row.
Writing(b) == pc[b] = "write" /\ batch[b] # <<>> /\ HasTable(b)
Deleting(b) == pc[b] = "delete" /\ batch[b] # <<>>

\* It waits until the transaction that changed the row ends, and keeps the rows
\* that its own transaction has changed before.
WaitsFor(b, other) ==
  /\ Writing(b) \/ Deleting(b)
  /\ b # other /\ Home[b] = Home[other]
  /\ pending[other][Head(batch[b]).key] # Kept

\* Transactions wait for each other in a ring that b belongs to.
Deadlocked(b) ==
  \E ring \in SUBSET Backends :
    /\ b \in ring
    /\ \A one \in ring : /\ \E other \in ring : WaitsFor(one, other)
                         /\ \E other \in ring : WaitsFor(other, one)

-----------------------------------------------------------------------------

StoreInit ==
  /\ array = EmptyTable
  /\ restore = "not attempted" /\ started = 0 /\ lastPersist = 0 /\ marks = 0
  /\ durable \in [Databases -> InitialRows \cup {NoRows}]
  /\ \A d \in Databases : durable[d] \in (IF d \in Installed THEN InitialRows
                                                          ELSE {NoRows})
  /\ pending = [b \in Backends |-> NoChanges]
  /\ task = [b \in Backends |-> "none"]
  /\ pc = [b \in Backends |-> "idle"]
  /\ reading = [b \in Backends |-> 0]
  /\ batch = [b \in Backends |-> <<>>]
  /\ clock = 0 /\ errors = 0 /\ restarts = 0
  /\ overlapped = [b \in Backends |-> FALSE]
  /\ resetAt = 0

Goto(b, label, rowsOfBatch) ==
  /\ pc' = [pc EXCEPT ![b] = label]
  /\ batch' = [batch EXCEPT ![b] = rowsOfBatch]

\* The backend is done with its task, inside its transaction.
Finished(b) ==
  /\ task' = [task EXCEPT ![b] = "none"]
  /\ reading' = [reading EXCEPT ![b] = 0]
  /\ overlapped' = [overlapped EXCEPT ![b] = FALSE]
  /\ Goto(b, "idle", <<>>)

\* An ERROR unwinds through the extension, which notices nothing; PostgreSQL
\* aborts the transaction.
Unwind(b) ==
  /\ Finished(b)
  /\ pending' = [pending EXCEPT ![b] = NoChanges]
  /\ UNCHANGED <<shared, durable, resetAt>>

Touched == overlapped' = [b \in Backends |-> pc[b] = "write"]

-----------------------------------------------------------------------------
(* Restoring: ensure_profiles_loaded, the first thing every task but a     *)
(* reset does.                                                             *)

\* Mutant: a restore is never taken over.
NeedsRestoreUntilBegun(now) == restore \in {"not attempted", "failed"}

NeedsRestore(now) ==
  \/ restore \in {"not attempted", "failed"}
  \/ restore = "in progress" /\ now >= started /\ now - started >= StaleAfter


\* While another backend restores, tasks go on without the profiles.
EntryLabel == IF NeedsRestore(clock) THEN "load" ELSE "ready"

\* begin_profile_restore; an observation took its own reading before it.
BeginTask(b, kind) ==
  /\ pc[b] = "idle" /\ kind # "reset"
  /\ task' = [task EXCEPT ![b] = kind]
  /\ reading' = [reading EXCEPT ![b] = IF kind = "observe" THEN clock ELSE 0]
  /\ Goto(b, EntryLabel, <<>>)
  /\ IF NeedsRestore(clock)
       THEN restore' = "in progress" /\ started' = clock
       ELSE UNCHANGED <<restore, started>>
  /\ UNCHANGED <<array, lastPersist, marks, durable, pending, bounds, history>>

\* load_profiles
Load(b) ==
  /\ pc[b] = "load"
  /\ Goto(b, "finish", LoadProfiles(b))
  /\ UNCHANGED <<shared, durable, pending, task, reading, bounds, history>>

\* load_profiles returns an error, for instance for a value it cannot decode.
LoadFails(b) ==
  /\ pc[b] = "load" /\ HasTable(b) /\ errors < MaxErrors
  /\ errors' = errors + 1
  /\ Goto(b, "failed", <<>>)
  /\ UNCHANGED <<shared, durable, pending, task, reading, clock, restarts, history>>

\* Mutant: a failed restore is marked whatever another backend made of it.
MarkRestoreFailedAlways ==
  restore' = "failed" /\ started' = 0

MarkRestoreFailed ==
  IF restore = "in progress" THEN restore' = "failed" /\ started' = 0
                             ELSE UNCHANGED <<restore, started>>

\* mark_profile_restore_failed; a prediction falls back and an observation is
\* dropped, while a flush raises the error.
RestoreFailed(b) ==
  /\ pc[b] = "failed"
  /\ MarkRestoreFailed
  /\ Finished(b)
  /\ pending' = IF task[b] = "flush" THEN [pending EXCEPT ![b] = NoChanges]
                                     ELSE pending
  /\ UNCHANGED <<array, lastPersist, marks, durable, bounds, resetAt>>

\* finish_profile_restore
FinishRestore(b) ==
  /\ pc[b] = "finish"
  /\ array' = RestoreAll(array, batch[b])
  /\ restore' = "loaded" /\ started' = 0
  /\ Goto(b, "ready", <<>>)
  /\ Touched
  /\ UNCHANGED <<lastPersist, marks, durable, pending, task, reading, bounds, resetAt>>

-----------------------------------------------------------------------------
(* The tasks, once profiles are loaded or another backend loads them.      *)

Marked == Smaller(marks + 1, MaxU64)

\* record_query_observation; every statement writes the same number of bytes.
RecordQueryObservation(b, scope, query) ==
  /\ pc[b] = "ready" /\ task[b] = "observe"
  /\ array' = UpsertScopedAndGlobal(array, scope, query, 1, reading[b])
  /\ marks' = Marked
  /\ task' = [task EXCEPT ![b] = "none"]
  /\ reading' = [reading EXCEPT ![b] = 0]
  /\ Goto(b, "idle", <<>>)
  /\ Touched
  /\ UNCHANGED <<restore, started, lastPersist, durable, pending, bounds, resetAt>>

PersistDue == marks # 0 /\ clock >= lastPersist /\ clock - lastPersist >= Interval

\* The snapshot is taken and the time is moved under the lock; the marks stay.
TakeSnapshot(b) ==
  /\ lastPersist' = clock
  /\ Goto(b, "write", SnapshotOf(array))
  /\ UNCHANGED <<array, restore, started, marks, durable, pending, task, reading,
                 bounds, history>>

\* lookup_prediction_profile has its profile; persist_profiles_if_due
ReservePersist(b) ==
  /\ pc[b] = "ready" /\ task[b] = "predict" /\ PersistDue
  /\ TakeSnapshot(b)

PersistNotDue(b) ==
  /\ pc[b] = "ready" /\ task[b] = "predict" /\ ~PersistDue
  /\ Finished(b)
  /\ UNCHANGED <<shared, durable, pending, bounds, resetAt>>

\* persist_profiles_now
Flush(b) ==
  /\ pc[b] = "ready" /\ task[b] = "flush"
  /\ TakeSnapshot(b)

\* Mutant: ON CONFLICT DO NOTHING.
WriteRowOfNewKey(b) ==
  /\ Writing(b) /\ ~Locked(b, Head(batch[b]).key)
  /\ pending' = [pending EXCEPT ![b][Head(batch[b]).key] =
                   IF Visible(b)[Head(batch[b]).key] = Missing
                     THEN Head(batch[b]).profile ELSE @]
  /\ batch' = [batch EXCEPT ![b] = Tail(@)]
  /\ UNCHANGED <<shared, durable, task, pc, reading, bounds, history>>

\* persist_profiles: one INSERT ... ON CONFLICT DO UPDATE after the other,
\* each waiting for the row; last_seen is not compared.
WriteRow(b) ==
  /\ Writing(b) /\ ~Locked(b, Head(batch[b]).key)
  /\ pending' = [pending EXCEPT ![b][Head(batch[b]).key] = Head(batch[b]).profile]
  /\ batch' = [batch EXCEPT ![b] = Tail(@)]
  /\ UNCHANGED <<shared, durable, task, pc, reading, bounds, history>>

\* All rows are written; without the table there is nothing to write to.
Written(b) == batch[b] = <<>> \/ ~HasTable(b)

\* complete_profile_persist
CompletePersist(b) ==
  /\ pc[b] = "write" /\ Written(b)
  /\ marks' = 0
  /\ Finished(b)
  /\ UNCHANGED <<array, restore, started, lastPersist, durable, pending, bounds,
                 resetAt>>

\* persist_profiles returns an error: a prediction ignores it, a flush raises
\* it; the marks stay.
PersistFails(b) ==
  /\ Writing(b) /\ errors < MaxErrors
  /\ errors' = errors + 1
  /\ Finished(b)
  /\ pending' = IF task[b] = "flush" THEN [pending EXCEPT ![b] = NoChanges]
                                     ELSE pending
  /\ UNCHANGED <<shared, durable, clock, restarts, resetAt>>

\* reset_profiles_impl: the rows first, in the transaction of the caller.  The
\* DELETE finds the rows of its snapshot, in the order of the table.
BeginReset(b) ==
  /\ pc[b] = "idle"
  /\ task' = [task EXCEPT ![b] = "reset"]
  /\ \E rows \in SetToSeqs(FoundRows(b)) : Goto(b, "delete", rows)
  /\ UNCHANGED <<shared, durable, pending, reading, bounds, history>>

\* It waits for each row, and passes over one that is gone by then.  (A row is
\* its key: one that was deleted and inserted anew meanwhile counts as the same.)
DeleteRow(b) ==
  /\ Deleting(b) /\ ~Locked(b, Head(batch[b]).key)
  /\ pending' = [pending EXCEPT ![b][Head(batch[b]).key] =
                   IF Visible(b)[Head(batch[b]).key] = Missing THEN @ ELSE Missing]
  /\ batch' = [batch EXCEPT ![b] = Tail(@)]
  /\ UNCHANGED <<shared, durable, task, pc, reading, bounds, history>>

\* shmem::reset_profiles: the array at once, whatever becomes of the caller.
ClearProfiles(b) ==
  /\ pc[b] = "delete" /\ batch[b] = <<>>
  /\ array' = EmptyTable
  /\ restore' = "loaded" /\ started' = 0 /\ lastPersist' = 0 /\ marks' = 0
  /\ task' = [task EXCEPT ![b] = "none"]
  /\ Goto(b, "idle", <<>>)
  /\ Touched
  /\ resetAt' = clock
  /\ UNCHANGED <<durable, pending, reading, bounds>>

-----------------------------------------------------------------------------
(* PostgreSQL and time. *)

Commit(b) ==
  /\ pc[b] = "idle" /\ pending[b] # NoChanges
  /\ durable' = [durable EXCEPT ![Home[b]] = Visible(b)]
  /\ pending' = [pending EXCEPT ![b] = NoChanges]
  /\ UNCHANGED <<shared, local, bounds, history>>

Abort(b) ==
  /\ pc[b] = "idle" /\ pending[b] # NoChanges
  /\ pending' = [pending EXCEPT ![b] = NoChanges]
  /\ UNCHANGED <<shared, durable, local, bounds, history>>

\* SQL raises an ERROR: a cancelled statement, a lock timeout.
Raise(b) ==
  /\ pc[b] \in {"load", "write", "delete"} /\ errors < MaxErrors
  /\ errors' = errors + 1
  /\ Unwind(b)
  /\ UNCHANGED <<clock, restarts>>

\* The deadlock detector cancels one of the transactions that wait for rows of
\* each other.
Deadlock(b) ==
  /\ Deadlocked(b)
  /\ Unwind(b)
  /\ UNCHANGED bounds

Restart ==
  /\ restarts < MaxRestarts /\ restarts' = restarts + 1
  /\ array' = EmptyTable
  /\ restore' = "not attempted" /\ started' = 0 /\ lastPersist' = 0 /\ marks' = 0
  /\ pending' = [b \in Backends |-> NoChanges]
  /\ task' = [b \in Backends |-> "none"]
  /\ pc' = [b \in Backends |-> "idle"]
  /\ reading' = [b \in Backends |-> 0]
  /\ batch' = [b \in Backends |-> <<>>]
  /\ overlapped' = [b \in Backends |-> FALSE]
  /\ UNCHANGED <<durable, clock, errors, resetAt>>

Tick ==
  /\ clock < MaxClock /\ clock' = clock + 1
  /\ UNCHANGED <<shared, durable, pending, local, errors, restarts, history>>

Restoring(b) == Load(b) \/ FinishRestore(b) \/ RestoreFailed(b)
Persisting(b) == WriteRow(b) \/ CompletePersist(b)
Ready(b) ==
  \/ \E scope \in Scopes, query \in Queries : RecordQueryObservation(b, scope, query)
  \/ ReservePersist(b) \/ PersistNotDue(b) \/ Flush(b)

StoreNext ==
  \/ \E b \in Backends :
       \/ \E kind \in Tasks : BeginTask(b, kind)
       \/ "reset" \in Tasks /\ BeginReset(b)
       \/ DeleteRow(b) \/ ClearProfiles(b)
       \/ Restoring(b) \/ LoadFails(b)
       \/ Ready(b)
       \/ Persisting(b) \/ PersistFails(b)
       \/ Commit(b) \/ Abort(b) \/ Raise(b) \/ Deadlock(b)
  \/ Restart
  \/ Tick

StoreSpec == StoreInit /\ [][StoreNext]_storeVars

-----------------------------------------------------------------------------
(* Properties. *)

\* The values of the state; the times are in the past.
StoreTypeOK ==
  /\ array \in [Slots -> Entry \cup {Free}]
  /\ restore \in {"not attempted", "in progress", "loaded", "failed"}
  /\ started \in 0..clock /\ lastPersist \in 0..clock /\ marks \in 0..MaxU64
  /\ durable \in [Databases -> [Keys -> Profile \cup {Missing}]]
  /\ pending \in [Backends -> [Keys -> Profile \cup {Missing, Kept}]]
  /\ \A b \in Backends : pc[b] = "idle" <=> task[b] = "none"

\* A finished restore is final: a backend whose load was taken over and then
\* failed does not send the profiles back to be restored again.
LoadedIsFinal ==
  [][restore = "loaded" /\ restarts' = restarts => restore' = "loaded"]_storeVars

LastSeen(table, key) ==
  {table[slot].profile.lastSeen : slot \in SlotsOfKey(table, key)}

\* What was observed while a restore was under way, or after it was taken over
\* and finished by another backend, is not overwritten by the older row that
\* a slow restore still merges.
RestoreKeepsNewer ==
  [][\A b \in Backends : pc[b] = "finish" /\ pc'[b] = "ready" =>
       \A key \in KeysOf(array) \cap KeysOf(array') :
         \A before \in LastSeen(array, key), after \in LastSeen(array', key) :
           before <= after]_storeVars

\* A persist that no change of the array overlapped leaves every live profile in
\* its transaction as it is in the array, whatever earlier persists lost in an
\* abort, missed because their marks were cleared, or overwrote with older rows:
\* it repairs them all.  (Rows of profiles that were evicted since stay as they
\* are: persist_profiles deletes nothing.)
UndisturbedPersistIsComplete ==
  [][\A b \in Backends :
       CompletePersist(b) /\ HasTable(b) /\ ~overlapped[b] =>
         \A slot \in Occupied(array) :
           Visible(b)[array[slot].key] = array[slot].profile]_storeVars

\* After a reset no live profile stems from before it
\* (tests/pg_regress/sql/durable_profiles.sql:43).
ResetForgets ==
  \A slot \in Occupied(array) : array[slot].profile.lastSeen >= resetAt

-----------------------------------------------------------------------------
(* Liveness.  Statements that predict or observe are run again and again   *)
(* by some backend, SQL returns unless it waits for a row, a row that is   *)
(* free again and again is granted in turn, the deadlock detector runs,    *)
(* and the clock goes on.  Nothing is assumed of when a client ends its    *)
(* transaction, or runs another statement.                                 *)

Fairness ==
  /\ WF_clock(Tick)
  /\ SF_storeVars(\E b \in Backends, kind \in Tasks : BeginTask(b, kind))
  /\ \A b \in Backends :
       /\ WF_storeVars(Restoring(b) \/ Ready(b) \/ CompletePersist(b) \/ ClearProfiles(b))
       /\ SF_storeVars(WriteRow(b) \/ DeleteRow(b))
       /\ WF_storeVars(Deadlock(b))

FairSpec == StoreInit /\ [][StoreNext]_storeVars /\ Fairness

\* A backend is carrying out a restore.
Carried == \E b \in Backends : pc[b] \in {"load", "failed", "finish"}

\* The profiles are restored in the end, although a backend that began to may
\* vanish in an ERROR without saying so: another takes its restore over
\* (begin_profile_restore).  (Only a restore that was given up within the last
\* StaleAfter of the modelled time cannot be taken over in it.)
RestoreCompletes ==
  <>[](restore = "loaded" \/ (started + StaleAfter > MaxClock /\ ~Carried))

\* Backend b waits, directly or through others, for the transaction of a client
\* that runs nothing.
HeldUp(b) ==
  LET Closed(set) == \A one \in set : \A other \in Backends \ set : ~WaitsFor(one, other)
  IN  \A waiting \in SUBSET Backends :
        b \in waiting /\ Closed(waiting) => \E other \in waiting \ {b} : pc[other] = "idle"


=============================================================================
