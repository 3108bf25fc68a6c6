----------------------------- MODULE SchemaSync -----------------------------
(***************************************************************************)
(* How the vector store follows the schema of the database: the startup    *)
(* task of api/app.py and the monitor of services/schema_monitor.py, one   *)
(* of each per server process, both ingesting the whole schema with        *)
(* services/schema_ingestion.py into the shared chunks of one Qdrant       *)
(* collection (infrastructure/vector_store/qdrant_store.py).               *)
(*                                                                         *)
(* A table is the version of what both hashes cover of it, the names,      *)
(* types and nullability of its columns, 0 when it does not exist; no two  *)
(* changes make the same version.  A schema, its reflection, its hash and  *)
(* the chunks embedded from it are one version per table.                  *)
(***************************************************************************)
EXTENDS Integers, FiniteSets, AdvisoryLock

CONSTANTS
    Processes,     \* server processes (WEB_CONCURRENCY)
    Deployments,   \* choices of the tasks that the settings enable
    Tables,        \* names of tables that can ever exist
    FirstTables,   \* the tables that exist at first
    PoolSize,      \* connections in the pool of a process
    MaxChanges,    \* bound: changes of the schema
    MaxFaults,     \* bound: failures and crashes
    NoHash         \* no schema hash

Schema == [Tables -> Nat]
Roles  == {"startup", "monitor"}
Tasks  == Processes \X Roles
Conns  == Processes \X (1..PoolSize)
Empty  == [t \in Tables |-> 0]

ASSUME ConstantsAssumption ==
    /\ NoHash \notin Schema
    /\ Deployments \subseteq SUBSET Tasks
    /\ PoolSize \in Nat \ {0} /\ MaxChanges \in Nat /\ MaxFaults \in Nat

VARIABLES
    db,        \* the schema of the database
    store,     \* the shared chunks of the collection
    sentinel,  \* the hash persisted in the collection
    mem,       \* per process: the hash its client of the store keeps in memory
    ready,     \* per process: whether that client is initialised; both are
               \* followed until the startup task, their only reader, has read
    pending,   \* background tasks that persist a hash
    pc,        \* where each task is
    cur,       \* per process: the hashes its monitor compares and will remember
    last,      \* per process: _last_schema_hash
    snap,      \* the schema each task reflected last
    todo,      \* the tables whose chunks it has still to upsert
    locks,     \* the server's lock table of each key, one for either kind of task
    changes, faults,
    missed,    \* history: an ingestion failed, and its task went on
    stale,     \* history: a startup task wrote a schema that had changed
    cut        \* history: processes that crashed as their startup task was writing

vars == <<db, store, sentinel, mem, ready, pending, pc, cur, last, snap, todo, locks,
          changes, faults, missed, stale, cut>>
hashes  == <<sentinel, mem, ready, pending>>
history == <<changes, faults, missed, stale, cut>>

Phases == {"reflect", "compare", "count", "lock", "reset", "upsert", "unlock",
           "asleep", "done", "down", "off"}

IsStartup(i) == i[2] = "startup"
TasksOf(p) == {i \in Tasks : i[1] = p}
IsDown(p)  == \E i \in TasksOf(p) : pc[i] = "down"
Present(s) == {t \in Tables : s[t] # 0}
Go(i, phase) == pc' = [pc EXCEPT ![i] = phase]

-----------------------------------------------------------------------------
Begin(i) == IF IsStartup(i) THEN "reflect" ELSE "asleep"

\* A collection that was never filled, and processes that have just started.
Init ==
    /\ db = [t \in Tables |-> IF t \in FirstTables THEN 1 ELSE 0]
    /\ store = Empty /\ sentinel = NoHash
    /\ mem = [p \in Processes |-> NoHash] /\ ready = [p \in Processes |-> FALSE]
    /\ pending = {}
    /\ \E on \in Deployments : pc = [i \in Tasks |-> IF i \in on THEN Begin(i) ELSE "off"]
    /\ cur = [p \in Processes |-> Empty] /\ last = [p \in Processes |-> Empty]
    /\ snap = [i \in Tasks |-> Empty] /\ todo = [i \in Tasks |-> {}]
    /\ locks = [role \in Roles |-> NoLock(Conns)]
    /\ changes = 0 /\ faults = 0 /\ missed = FALSE /\ stale = FALSE
    /\ cut = {}

\* A table is created, altered or dropped.
Change(t, version) ==
    /\ changes < MaxChanges /\ changes' = changes + 1
    /\ version \in {0, changes + 2} /\ version # db[t]
    /\ db' = [db EXCEPT ![t] = version]
    /\ UNCHANGED <<store, hashes, pc, cur, last, snap, todo, locks, faults, missed, stale, cut>>

-----------------------------------------------------------------------------
(* The client of the vector store. *)

HashIsRead(p) == \E i \in TasksOf(p) : IsStartup(i) /\ pc[i] \in {"reflect", "compare"}

\* _ensure_initialized: the first operation of a process loads the hash.
EnsureInitialized(p) ==
    /\ ready' = [ready EXCEPT ![p] = HashIsRead(p)]
    /\ mem' = IF HashIsRead(p) /\ ~ready[p] THEN [mem EXCEPT ![p] = sentinel] ELSE mem
    /\ UNCHANGED <<sentinel, pending>>

\* A request searches the store.
Search(p) ==
    /\ HashIsRead(p) /\ ~ready[p]
    /\ EnsureInitialized(p)
    /\ UNCHANGED <<db, store, pc, cur, last, snap, todo, locks, history>>

\* The task created by update_schema_hash.
Persist(p, hash) ==
    /\ <<p, hash>> \in pending
    /\ pending' = pending \ {<<p, hash>>}
    /\ sentinel' = hash
    /\ UNCHANGED <<db, store, mem, ready, pc, cur, last, snap, todo, locks, history>>

-----------------------------------------------------------------------------
(* Both tasks: the lock, and ingest(reset=True). *)

\* The reflection of the startup task, and that of _reingest_schema under the lock.
Reflect(i) ==
    /\ pc[i] = "reflect"
    /\ snap' = [snap EXCEPT ![i] = db]
    /\ Go(i, IF IsStartup(i) THEN "compare" ELSE "reset")
    /\ UNCHANGED <<db, store, hashes, cur, last, todo, locks, history>>

\* What a task does with the lock: the monitor reflects again, the startup task
\* ingests what it reflected before.
Granted(i) == IF IsStartup(i) THEN "reset" ELSE "reflect"

\* A task ends, or sleeps until its next check; its local variables are gone.
Exit(i) ==
    IF IsStartup(i)
    THEN Go(i, "done") /\ snap' = [snap EXCEPT ![i] = Empty] /\ UNCHANGED cur
    ELSE Go(i, "asleep") /\ cur' = [cur EXCEPT ![i[1]] = Empty] /\ UNCHANGED snap

TryLock(i, c) ==
    /\ pc[i] = "lock"
    /\ IF Grantable(locks[i[2]], c)
       THEN /\ locks' = [locks EXCEPT ![i[2]] = Locked(@, c)]
            /\ Go(i, Granted(i)) /\ UNCHANGED <<cur, snap>>
       ELSE Exit(i) /\ UNCHANGED locks
    /\ UNCHANGED <<db, store, hashes, last, todo, history>>

Outdated(i) == stale' = (stale \/ (IsStartup(i) /\ snap[i] # db))

\* delete_shared keeps the sentinel and swallows its own failure.
Reset(i, deleted) ==
    /\ pc[i] = "reset"
    /\ EnsureInitialized(i[1])
    /\ IF deleted THEN store' = Empty /\ UNCHANGED faults
       ELSE faults < MaxFaults /\ faults' = faults + 1 /\ UNCHANGED store
    /\ todo' = [todo EXCEPT ![i] = Present(snap[i])]
    /\ Outdated(i)
    /\ Go(i, "upsert")
    /\ UNCHANGED <<db, cur, last, snap, locks, changes, missed, cut>>

\* Mutant of Leave: the hashes are computed again after the ingestion.
LeaveRecomputes(i) ==
    /\ last' = IF IsStartup(i) THEN last ELSE [last EXCEPT ![i[1]] = db]
    /\ todo' = [todo EXCEPT ![i] = {}]
    /\ Go(i, "unlock")

\* The monitor remembers the hashes it compared, whatever became of them.
Leave(i) ==
    /\ last' = IF IsStartup(i) THEN last ELSE [last EXCEPT ![i[1]] = cur[i[1]]]
    /\ todo' = [todo EXCEPT ![i] = {}]
    /\ Go(i, "unlock")

\* Mutant of UpdateHash: the task is created before the new hash is in place.
UpdateHashPersistsOld(i) ==
    /\ mem' = IF HashIsRead(i[1]) THEN [mem EXCEPT ![i[1]] = snap[i]] ELSE mem
    /\ pending' = pending \cup {<<i[1], mem[i[1]]>>}
    /\ UNCHANGED <<sentinel, ready>>

\* update_schema_hash: the hash is in memory at once, in the collection later.
UpdateHash(i) ==
    /\ mem' = IF HashIsRead(i[1]) THEN [mem EXCEPT ![i[1]] = snap[i]] ELSE mem
    /\ pending' = pending \cup {<<i[1], snap[i]>>}
    /\ UNCHANGED <<sentinel, ready>>

\* Once embedded, the chunks are written in batches, and last the hash.
Upsert(i, batch) ==
    /\ pc[i] = "upsert"
    /\ batch \subseteq todo[i]
    /\ store' = [t \in Tables |-> IF t \in batch THEN snap[i][t] ELSE store[t]]
    /\ Outdated(i)
    /\ \/ /\ batch = todo[i] /\ UpdateHash(i) /\ Leave(i)
          /\ cut' = IF IsStartup(i) THEN cut \ {i[1]} ELSE cut
       \/ /\ batch \notin {{}, todo[i]}
          /\ todo' = [todo EXCEPT ![i] = @ \ batch]
          /\ UNCHANGED <<hashes, pc, last, cut>>
    /\ UNCHANGED <<db, cur, snap, locks, changes, faults, missed>>

\* The finally clause, on whichever connection it checks out.
Unlock(i, c) ==
    /\ pc[i] = "unlock"
    /\ locks' = [locks EXCEPT ![i[2]] = Unlocked(@, c)]
    /\ Exit(i)
    /\ UNCHANGED <<db, store, hashes, last, todo, history>>

-----------------------------------------------------------------------------
(* The startup task alone. *)

\* The hash in memory decides, which is none until something else used the store.
Compare(i) ==
    /\ pc[i] = "compare"
    /\ Go(i, IF mem[i[1]] = snap[i] THEN "count" ELSE "lock")
    /\ mem' = [mem EXCEPT ![i[1]] = NoHash] /\ ready' = [ready EXCEPT ![i[1]] = FALSE]
    /\ UNCHANGED <<db, store, sentinel, pending, cur, last, snap, todo, locks, history>>

\* One chunk is taken for the sentinel, which count has already left out.
Count(i) ==
    /\ pc[i] = "count"
    /\ IF Cardinality(Present(store)) <= 1 THEN Go(i, "lock") /\ UNCHANGED <<cur, snap>>
       ELSE Exit(i)
    /\ UNCHANGED <<db, store, hashes, last, todo, locks, history>>

(* The monitor alone. *)

\* Mutant of Detect: only the names of the tables are compared.
DetectNewTables(i) ==
    /\ ~IsStartup(i) /\ pc[i] = "asleep"
    /\ \E t \in Present(db) : last[i[1]][t] = 0
    /\ cur' = [cur EXCEPT ![i[1]] = db]
    /\ Go(i, "lock")
    /\ UNCHANGED <<db, store, hashes, last, snap, todo, locks, history>>

\* _check_for_changes compares the tables that exist: a dropped one is no change.
Detect(i) ==
    /\ ~IsStartup(i) /\ pc[i] = "asleep"
    /\ \E t \in Present(db) : db[t] # last[i[1]][t]
    /\ cur' = [cur EXCEPT ![i[1]] = db]
    /\ Go(i, "lock")
    /\ UNCHANGED <<db, store, hashes, last, snap, todo, locks, history>>

-----------------------------------------------------------------------------
(* Failures, crashes and the connection pool. *)

Fail == faults < MaxFaults /\ faults' = faults + 1

\* Locking raises: both tasks proceed without.
LockUnavailable(i) ==
    /\ pc[i] = "lock" /\ Fail
    /\ Go(i, Granted(i))
    /\ UNCHANGED <<db, store, hashes, cur, last, snap, todo, locks, changes, missed, stale, cut>>

\* So does unlocking: the key stays with the connection.
UnlockFails(i) ==
    /\ pc[i] = "unlock" /\ Fail
    /\ Exit(i)
    /\ UNCHANGED <<db, store, hashes, last, todo, locks, changes, missed, stale, cut>>

\* The startup task fails before it has the lock.
StartupFails(i) ==
    /\ IsStartup(i) /\ pc[i] \in {"reflect", "count"} /\ Fail
    /\ Exit(i)
    /\ UNCHANGED <<db, store, hashes, last, todo, locks, changes, missed, stale, cut>>

\* Reflection, embedding or the store raises under the lock: the startup task
\* gives up, _reingest_schema swallows the exception and the monitor goes on.
IngestFails(i) ==
    /\ pc[i] \in {"reset", "upsert"} \/ (pc[i] = "reflect" /\ ~IsStartup(i))
    /\ Fail /\ missed' = TRUE
    /\ Leave(i)
    /\ UNCHANGED <<db, store, hashes, cur, snap, locks, changes, stale, cut>>

PersistFails(p, hash) ==
    /\ <<p, hash>> \in pending /\ Fail
    /\ pending' = pending \ {<<p, hash>>}
    /\ UNCHANGED <<db, store, sentinel, mem, ready, pc, cur, last, snap, todo, locks,
                   changes, missed, stale, cut>>

CloseLocks(C) == [role \in DOMAIN locks |->
                    [c \in Conns |-> IF c \in C THEN 0 ELSE locks[role][c]]]

\* pool_recycle, pool_pre_ping or overflow: a connection that held a lock ends.
CloseConnection(c) ==
    /\ \E role \in DOMAIN locks : locks[role][c] > 0
    /\ locks' = CloseLocks({c})
    /\ UNCHANGED <<db, store, hashes, pc, cur, last, snap, todo, history>>

Crash(p) ==
    /\ Fail /\ \E i \in TasksOf(p) : pc[i] \notin {"down", "off"}
    /\ pc' = [i \in Tasks |-> IF i \in TasksOf(p) /\ pc[i] # "off" THEN "down" ELSE pc[i]]
    /\ snap' = [i \in Tasks |-> IF i \in TasksOf(p) THEN Empty ELSE snap[i]]
    /\ todo' = [i \in Tasks |-> IF i \in TasksOf(p) THEN {} ELSE todo[i]]
    /\ cur' = [cur EXCEPT ![p] = Empty] /\ last' = [last EXCEPT ![p] = Empty]
    /\ mem' = [mem EXCEPT ![p] = NoHash] /\ ready' = [ready EXCEPT ![p] = FALSE]
    /\ pending' = {w \in pending : w[1] # p}
    /\ locks' = CloseLocks({c \in Conns : c[1] = p})
    /\ cut' = IF pc[<<p, "startup">>] = "upsert" THEN cut \cup {p} ELSE cut
    /\ UNCHANGED <<db, store, sentinel, changes, missed, stale>>

Restart(p) ==
    /\ IsDown(p)
    /\ pc' = [i \in Tasks |-> IF i \in TasksOf(p) /\ pc[i] = "down" THEN Begin(i) ELSE pc[i]]
    /\ UNCHANGED <<db, store, hashes, cur, last, snap, todo, locks, history>>

-----------------------------------------------------------------------------
ConnsOf(p) == {p} \X (1..PoolSize)

Run(i) ==
    \/ Reflect(i) \/ Reset(i, TRUE)
    \/ Compare(i) \/ Count(i) \/ Detect(i)
    \/ \E c \in ConnsOf(i[1]) : TryLock(i, c) \/ Unlock(i, c)
    \/ \E batch \in SUBSET todo[i] : Upsert(i, batch)

Fault ==
    \/ \E i \in Tasks : LockUnavailable(i) \/ UnlockFails(i) \/ StartupFails(i)
                        \/ IngestFails(i) \/ Reset(i, FALSE)
    \/ \E w \in pending : PersistFails(w[1], w[2])
    \/ \E p \in Processes : Crash(p) \/ Restart(p)

Next ==
    \/ \E t \in Tables : Change(t, 0) \/ Change(t, changes + 2)
    \/ \E i \in Tasks : Run(i)
    \/ \E p \in Processes : Search(p)
    \/ \E w \in pending : Persist(w[1], w[2])
    \/ \E c \in Conns : CloseConnection(c)
    \/ Fault

Spec == Init /\ [][Next]_vars

\* Tasks that can run do, the monitor's timer fires, and the pool recycles.
FairSpec ==
    /\ Spec
    /\ \A i \in Tasks : WF_vars(Run(i))
    /\ \A c \in Conns : WF_vars(CloseConnection(c))

-----------------------------------------------------------------------------
\* Type invariant.
TypeOK ==
    /\ db \in Schema /\ store \in Schema /\ sentinel \in Schema \cup {NoHash}
    /\ mem \in [Processes -> Schema \cup {NoHash}] /\ ready \in [Processes -> BOOLEAN]
    /\ pending \subseteq Processes \X Schema
    /\ pc \in [Tasks -> Phases]
    /\ cur \in [Processes -> Schema] /\ last \in [Processes -> Schema]
    /\ snap \in [Tasks -> Schema] /\ todo \in [Tasks -> SUBSET Tables]
    /\ locks \in [Roles -> LockTables(Conns)]
    /\ changes \in Nat /\ faults \in Nat /\ missed \in BOOLEAN /\ stale \in BOOLEAN
    /\ cut \subseteq Processes

\* What a monitor remembers of a table is never newer than what its last
\* ingestion read of it, unless that ingestion failed: a change that arrives
\* between its two reads of the schema is found by the next check.
RemembersNoMore ==
    \A i \in Tasks, t \in Tables :
        missed \/ IsStartup(i) \/ snap[i][t] = 0 \/ last[i[1]][t] <= snap[i][t]

\* No ingestion failed, no process is down, a monitor runs, no startup task wrote
\* what it had reflected before the schema changed, and none that a crash stopped
\* between its reset and its last batch is still to be made good, by its next run
\* or by a monitor of its process, which starts anew.
Undisturbed ==
    /\ ~missed /\ ~stale
    /\ \A p \in Processes : ~IsDown(p)
    /\ \A p \in cut : pc[<<p, "monitor">>] # "off"
    /\ \E i \in Tasks : ~IsStartup(i) /\ pc[i] # "off"

\* Once the schema stops changing, every table of it is, undisturbed, in the
\* store at its present version and stays there, whichever tasks overlapped and
\* whatever became of their locks.
Mirrors == \A t \in Tables : <>[](Undisturbed => db[t] \in {0, store[t]})
=============================================================================
