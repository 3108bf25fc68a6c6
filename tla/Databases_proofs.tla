-------------------------- MODULE Databases_proofs --------------------------
(***************************************************************************)
(* Proofs about the databases users connect to: SchemaSync, for any        *)
(* processes, tables, deployments, pools and bounds, and Connections, for  *)
(* any rows, clients, cache sizes and requests.  The two share no state    *)
(* and no constant; those of Connections' names that SchemaSync has too    *)
(* begin with Conn there.                                                  *)
(***************************************************************************)
EXTENDS SchemaSync, Connections, FiniteSetTheorems, WellFoundedInduction, TLAPS

-----------------------------------------------------------------------------
(* SchemaSync: types. *)

LEMMA EmptyType == Empty \in Schema
BY DEF Empty, Schema

LEMMA SnapType ==
    ASSUME TypeOK, NEW i \in Tasks, NEW s \in Schema
    PROVE  [snap EXCEPT ![i] = s] \in [Tasks -> Schema]
BY DEF TypeOK

LEMMA TaskType ==
    ASSUME NEW i \in Tasks
    PROVE  i[1] \in Processes /\ i[2] \in Roles
BY DEF Tasks

LEMMA LockedType ==
    ASSUME NEW table \in LockTables(Conns), NEW c \in Conns
    PROVE  Locked(table, c) \in LockTables(Conns)
BY DEF LockTables, Locked

LEMMA UnlockedType ==
    ASSUME NEW table \in LockTables(Conns), NEW c
    PROVE  Unlocked(table, c) \in LockTables(Conns)
<1>1. CASE c \in Conns
  <2>1. (IF table[c] > 0 THEN table[c] - 1 ELSE 0) \in Nat
    BY <1>1 DEF LockTables
  <2> QED
    BY <2>1 DEF LockTables, Unlocked
<1>2. CASE c \notin Conns
  BY <1>2 DEF LockTables, Unlocked
<1> QED
  BY <1>1, <1>2

LEMMA CloseType ==
    ASSUME TypeOK, NEW C
    PROVE  CloseLocks(C) \in [Roles -> LockTables(Conns)]
BY DEF TypeOK, CloseLocks, LockTables

LEMMA ExitType ==
    ASSUME TypeOK, NEW i \in Tasks, Exit(i)
    PROVE  /\ pc' \in [Tasks -> Phases] /\ cur' \in [Processes -> Schema]
           /\ snap' \in [Tasks -> Schema]
BY EmptyType, TaskType DEF TypeOK, Exit, Go, Phases

LEMMA LeaveType ==
    ASSUME TypeOK, NEW i \in Tasks, Leave(i)
    PROVE  /\ pc' \in [Tasks -> Phases] /\ last' \in [Processes -> Schema]
           /\ todo' \in [Tasks -> SUBSET Tables]
BY TaskType DEF TypeOK, Leave, Go, Phases

LEMMA ClientType ==
    ASSUME TypeOK, NEW p \in Processes, EnsureInitialized(p)
    PROVE  /\ sentinel' \in Schema \cup {NoHash} /\ pending' \subseteq Processes \X Schema
           /\ mem' \in [Processes -> Schema \cup {NoHash}] /\ ready' \in [Processes -> BOOLEAN]
<1>1. HashIsRead(p) \in BOOLEAN
  BY DEF HashIsRead
<1> HIDE DEF HashIsRead
<1>2. mem' = mem \/ mem' = [mem EXCEPT ![p] = sentinel]
  BY DEF EnsureInitialized
<1> QED
  BY <1>1, <1>2 DEF TypeOK, EnsureInitialized

LEMMA HashType ==
    ASSUME TypeOK, NEW i \in Tasks, UpdateHash(i)
    PROVE  /\ sentinel' \in Schema \cup {NoHash} /\ pending' \subseteq Processes \X Schema
           /\ mem' \in [Processes -> Schema \cup {NoHash}] /\ ready' \in [Processes -> BOOLEAN]
<1>1. mem' = mem \/ mem' = [mem EXCEPT ![i[1]] = snap[i]]
  BY DEF UpdateHash
<1>2. i[1] \in Processes /\ snap[i] \in Schema
  BY TaskType DEF TypeOK
<1> QED
  BY <1>1, <1>2 DEF TypeOK, UpdateHash

LEMMA TypeInit == Init => TypeOK
<1> SUFFICES ASSUME Init PROVE TypeOK
  OBVIOUS
<1>1. db \in Schema
  BY DEF Init, Schema
<1>2. pc \in [Tasks -> Phases]
  BY DEF Init, Begin, Phases
<1>3. locks \in [Roles -> LockTables(Conns)]
  BY DEF Init, NoLock, LockTables
<1> QED
  BY <1>1, <1>2, <1>3, EmptyType DEF Init, TypeOK

LEMMA TypeRun ==
    ASSUME TypeOK, NEW i \in Tasks, Run(i) PROVE TypeOK'
<1>0. i[1] \in Processes /\ i[2] \in Roles
  BY TaskType
<1> USE <1>0
<1>1. CASE Reflect(i)
  BY <1>1, SnapType DEF TypeOK, Reflect, Go, Phases, hashes, history
<1>2. CASE Reset(i, TRUE)
  <2>1. Present(snap[i]) \in SUBSET Tables
    BY DEF Present
  <2>2. stale' \in BOOLEAN
    BY <1>2 DEF Reset, Outdated, TypeOK, IsStartup
  <2> QED
    BY <1>2, <2>1, <2>2, EmptyType, ClientType DEF TypeOK, Reset, Go, Phases
<1>3. CASE Compare(i)
  BY <1>3 DEF TypeOK, Compare, Go, Phases, history
<1>4. CASE Count(i)
  <2>1. CASE Exit(i)
    BY <1>4, <2>1, ExitType DEF TypeOK, Count, hashes, history
  <2>2. CASE Go(i, "lock") /\ UNCHANGED <<cur, snap>>
    BY <1>4, <2>2 DEF TypeOK, Count, Go, Phases, hashes, history
  <2> QED
    BY <1>4, <2>1, <2>2 DEF Count
<1>5. CASE Detect(i)
  BY <1>5 DEF TypeOK, Detect, Go, Phases, hashes, history
<1>6. ASSUME NEW c \in ConnsOf(i[1]), TryLock(i, c) PROVE TypeOK'
  <2>1. CASE Grantable(locks[i[2]], c)
    <3>0. c \in Conns /\ locks[i[2]] \in LockTables(Conns)
      BY <1>0 DEF TypeOK, ConnsOf, Conns
    <3>1. locks' \in [Roles -> LockTables(Conns)]
      <4>1. locks' = [locks EXCEPT ![i[2]] = Locked(locks[i[2]], c)]
        BY <1>6, <2>1 DEF TryLock
      <4> QED
        BY <1>0, <3>0, <4>1, LockedType DEF TypeOK
    <3>2. pc' \in [Tasks -> Phases]
      BY <1>6, <2>1 DEF TypeOK, TryLock, Go, Granted, Phases
    <3>3. UNCHANGED <<db, store, hashes, cur, snap, last, todo, history>>
      BY <1>6, <2>1 DEF TryLock
    <3> QED
      BY <3>1, <3>2, <3>3 DEF TypeOK, hashes, history
  <2>2. CASE ~Grantable(locks[i[2]], c)
    BY <1>6, <2>2, ExitType DEF TypeOK, TryLock, hashes, history
  <2> QED
    BY <2>1, <2>2
<1>7. ASSUME NEW c \in ConnsOf(i[1]), Unlock(i, c) PROVE TypeOK'
  <2>1. locks' \in [Roles -> LockTables(Conns)]
    BY <1>7, UnlockedType DEF TypeOK, Unlock
  <2> QED
    BY <1>7, <2>1, ExitType DEF TypeOK, Unlock, hashes, history
<1>8. ASSUME NEW batch \in SUBSET todo[i], Upsert(i, batch) PROVE TypeOK'
  <2>1. store' \in Schema
    BY <1>8 DEF TypeOK, Upsert, Schema
  <2>2. stale' \in BOOLEAN
    BY <1>8 DEF Upsert, Outdated, TypeOK, IsStartup
  <2>3. CASE UpdateHash(i) /\ Leave(i)
    BY <1>8, <2>1, <2>2, <2>3, HashType, LeaveType DEF TypeOK, Upsert
  <2>4. CASE todo' = [todo EXCEPT ![i] = @ \ batch] /\ UNCHANGED <<hashes, pc, last>>
    BY <1>8, <2>1, <2>2, <2>4 DEF TypeOK, Upsert, hashes
  <2> QED
    BY <1>8, <2>3, <2>4 DEF Upsert
<1> QED
  BY <1>1, <1>2, <1>3, <1>4, <1>5, <1>6, <1>7, <1>8 DEF Run

LEMMA TypeFault ==
    ASSUME TypeOK, Fault PROVE TypeOK'
<1>0. Fail => faults' \in Nat
  BY DEF Fail, TypeOK
<1>1. ASSUME NEW i \in Tasks, LockUnavailable(i) PROVE TypeOK'
  BY <1>0, <1>1 DEF TypeOK, LockUnavailable, Go, Granted, Phases, hashes
<1>2. ASSUME NEW i \in Tasks, UnlockFails(i) PROVE TypeOK'
  BY <1>0, <1>2, ExitType DEF TypeOK, UnlockFails, hashes
<1>3. ASSUME NEW i \in Tasks, StartupFails(i) PROVE TypeOK'
  BY <1>0, <1>3, ExitType DEF TypeOK, StartupFails, hashes
<1>4. ASSUME NEW i \in Tasks, IngestFails(i) PROVE TypeOK'
  BY <1>0, <1>4, LeaveType DEF TypeOK, IngestFails, hashes
<1>5. ASSUME NEW i \in Tasks, Reset(i, FALSE) PROVE TypeOK'
  <2>1. Present(snap[i]) \in SUBSET Tables /\ i[1] \in Processes
    BY TaskType DEF Present
  <2>2. stale' \in BOOLEAN /\ faults' \in Nat
    BY <1>5 DEF Reset, Outdated, TypeOK, IsStartup
  <2> QED
    BY <1>5, <2>1, <2>2, ClientType DEF TypeOK, Reset, Go, Phases
<1>6. ASSUME NEW w \in pending, PersistFails(w[1], w[2]) PROVE TypeOK'
  BY <1>0, <1>6 DEF TypeOK, PersistFails
<1>7. ASSUME NEW p \in Processes, Crash(p) PROVE TypeOK'
  <2>1. pc' \in [Tasks -> Phases]
    BY <1>7 DEF TypeOK, Crash, Phases
  <2>2. snap' \in [Tasks -> Schema] /\ todo' \in [Tasks -> SUBSET Tables]
    BY <1>7, EmptyType DEF TypeOK, Crash
  <2>3. cur' \in [Processes -> Schema] /\ last' \in [Processes -> Schema]
    BY <1>7, EmptyType DEF TypeOK, Crash
  <2>4. mem' \in [Processes -> Schema \cup {NoHash}] /\ ready' \in [Processes -> BOOLEAN]
    BY <1>7 DEF TypeOK, Crash
  <2>5. locks' \in [Roles -> LockTables(Conns)]
    BY <1>7, CloseType DEF Crash
  <2>6. /\ pending' \subseteq Processes \X Schema /\ faults' \in Nat
        /\ UNCHANGED <<db, store, sentinel, changes, missed, stale>>
    BY <1>0, <1>7 DEF TypeOK, Crash
  <2>7. cut' \subseteq Processes
    BY <1>7 DEF TypeOK, Crash
  <2> QED
    BY <2>1, <2>2, <2>3, <2>4, <2>5, <2>6, <2>7 DEF TypeOK
<1>8. ASSUME NEW p \in Processes, Restart(p) PROVE TypeOK'
  BY <1>8 DEF TypeOK, Restart, Begin, Phases, hashes, history
<1> QED
  BY <1>1, <1>2, <1>3, <1>4, <1>5, <1>6, <1>7, <1>8 DEF Fault

LEMMA TypeStep == TypeOK /\ [Next]_vars => TypeOK'
<1> SUFFICES ASSUME TypeOK, [Next]_vars PROVE TypeOK'
  OBVIOUS
<1>1. ASSUME NEW t \in Tables, NEW version \in {0, changes + 2}, Change(t, version)
      PROVE  TypeOK'
  <2>1. version \in Nat
    BY DEF TypeOK
  <2>2. db' \in Schema
    BY <1>1, <2>1 DEF Change, TypeOK, Schema
  <2> QED
    BY <1>1, <2>2 DEF TypeOK, Change, hashes
<1>2. ASSUME NEW p \in Processes, Search(p) PROVE TypeOK'
  BY <1>2, ClientType DEF TypeOK, Search, history
<1>3. ASSUME NEW w \in pending, Persist(w[1], w[2]) PROVE TypeOK'
  BY <1>3 DEF TypeOK, Persist, history
<1>4. ASSUME NEW c \in Conns, CloseConnection(c) PROVE TypeOK'
  BY <1>4, CloseType DEF TypeOK, CloseConnection, hashes, history
<1>5. CASE UNCHANGED vars
  BY <1>5 DEF TypeOK, vars
<1> QED
  BY <1>1, <1>2, <1>3, <1>4, <1>5, TypeRun, TypeFault DEF Next

\* Type correctness of SchemaSync, the invariant TypeOK.
THEOREM TypeCorrect == Spec => []TypeOK
BY TypeInit, TypeStep, PTL DEF Spec

-----------------------------------------------------------------------------
(***************************************************************************)
(* RemembersNoMore.  Versions only grow, a dropped table aside, so what a  *)
(* monitor compared before it took the lock is not newer than what it      *)
(* reflects afterwards, and it remembers the former.                       *)
(***************************************************************************)

\* The version v of table t was read at some time.
Old(v, t) == v <= changes + 1 /\ (db[t] = 0 \/ v <= db[t])

\* An ingestion in progress covers what its monitor compared.
Covered(i) ==
    pc[i] \in {"reset", "upsert"} =>
        \A t \in Tables : snap[i][t] = 0 \/ cur[i[1]][t] <= snap[i][t]

MemoryInv ==
    /\ \A t \in Tables : db[t] <= changes + 1
    /\ \A p \in Processes, t \in Tables : Old(cur[p][t], t) /\ Old(last[p][t], t)
    /\ \A i \in Tasks : ~IsStartup(i) => Covered(i)
    /\ RemembersNoMore

LEMMA MemoryInit == Init => MemoryInv
<1> SUFFICES ASSUME Init PROVE MemoryInv
  OBVIOUS
<1>1. \A t \in Tables : Empty[t] = 0
  BY DEF Empty
<1>2. \A t \in Tables : db[t] <= 1 /\ (db[t] = 0 \/ 0 <= db[t])
  BY DEF Init
<1> QED
  BY <1>1, <1>2 DEF Init, MemoryInv, Old, Covered, RemembersNoMore

\* What the invariant is about, and a step that touches none of it but the pc.
memory == <<db, changes, cur, last, snap, missed>>

LEMMA MemoryFrame ==
    ASSUME TypeOK, MemoryInv, UNCHANGED memory,
           \A i \in Tasks : ~IsStartup(i) /\ pc'[i] \in {"reset", "upsert"}
                            => pc[i] \in {"reset", "upsert"}
    PROVE  MemoryInv'
BY DEF memory, MemoryInv, Old, Covered, RemembersNoMore, IsStartup

LEMMA MemoryExit ==
    ASSUME TypeOK, TypeOK', MemoryInv, NEW i \in Tasks, Exit(i),
           UNCHANGED <<db, changes, last, missed>>
    PROVE  MemoryInv'
<1>0. i[1] \in Processes
  BY TaskType
<1>1. CASE IsStartup(i)
  <2>1. /\ cur' = cur /\ pc' = [pc EXCEPT ![i] = "done"]
        /\ \A j \in Tasks : ~IsStartup(j) => snap'[j] = snap[j] /\ pc'[j] = pc[j]
    BY <1>1 DEF Exit, Go, TypeOK
  <2> QED
    BY <2>1 DEF MemoryInv, Old, Covered, RemembersNoMore, IsStartup
<1>2. CASE ~IsStartup(i)
  <2>1. /\ snap' = snap /\ cur' = [cur EXCEPT ![i[1]] = Empty]
        /\ pc' = [pc EXCEPT ![i] = "asleep"]
    BY <1>2 DEF Exit, Go
  <2>2. \A p \in Processes, t \in Tables :
            /\ cur'[p][t] \in Nat /\ cur[p][t] \in Nat
            /\ cur'[p][t] = 0 \/ cur'[p][t] = cur[p][t]
    BY <2>1 DEF TypeOK, Schema, Empty
  <2>3. \A j \in Tasks, t \in Tables : snap[j][t] \in Nat
    BY DEF TypeOK, Schema
  <2>4. changes \in Nat /\ \A t \in Tables : db[t] \in Nat
    BY DEF TypeOK, Schema
  <2>5. \A p \in Processes, t \in Tables : Old(cur[p][t], t)'
    BY <2>2, <2>4 DEF MemoryInv, Old
  <2>6. ASSUME NEW j \in Tasks, ~IsStartup(j) PROVE Covered(j)'
    <3>1. j[1] \in Processes
      BY TaskType
    <3>2. pc'[j] \in {"reset", "upsert"} => pc[j] \in {"reset", "upsert"}
      BY <2>1 DEF TypeOK
    <3> QED
      BY <2>1, <2>2, <2>3, <2>6, <3>1, <3>2 DEF MemoryInv, Covered
  <2>7. /\ \A t \in Tables : db'[t] <= changes' + 1
        /\ \A p \in Processes, t \in Tables : Old(last[p][t], t)'
        /\ RemembersNoMore'
    BY <2>1 DEF MemoryInv, Old, RemembersNoMore, IsStartup
  <2> QED
    BY <2>5, <2>6, <2>7 DEF MemoryInv, IsStartup
<1> QED
  BY <1>1, <1>2

\* A monitor that is done with its ingestion, which covered what it compared
\* or failed.
LEMMA MemoryLeave ==
    ASSUME TypeOK, MemoryInv, NEW i \in Tasks, Leave(i), UNCHANGED <<db, changes, cur, snap>>,
           missed => missed', pc[i] = "upsert" \/ missed', missed' \in BOOLEAN
    PROVE  MemoryInv'
<1>0. i[1] \in Processes
  BY TaskType
<1>1. \A j \in Tasks : pc'[j] \in {"reset", "upsert"} => pc[j] = pc'[j]
  BY DEF Leave, Go, TypeOK
<1>2. /\ \A t \in Tables : db'[t] <= changes' + 1
      /\ \A p \in Processes, t \in Tables : Old(cur[p][t], t)'
      /\ \A j \in Tasks : ~IsStartup(j) => Covered(j)'
  BY <1>1 DEF MemoryInv, Old, Covered
<1>3. \A p \in Processes, t \in Tables : Old(last[p][t], t)'
  BY <1>0 DEF MemoryInv, Old, Leave, TypeOK
<1>4. RemembersNoMore'
  <2>1. CASE missed'
    BY <2>1 DEF RemembersNoMore
  <2>2. CASE ~missed' /\ pc[i] = "upsert"
    <3> SUFFICES ASSUME NEW j \in Tasks, NEW t \in Tables, ~IsStartup(j), snap[j][t] # 0
                 PROVE  last'[j[1]][t] <= snap[j][t]
      BY DEF RemembersNoMore, IsStartup
    <3>1. CASE last'[j[1]] = last[j[1]]
      BY <2>2, <3>1 DEF MemoryInv, RemembersNoMore
    <3>2. CASE last'[j[1]] # last[j[1]]
      <4>1. j[1] = i[1] /\ ~IsStartup(i) /\ last'[i[1]] = cur[i[1]]
        BY <1>0, <3>2, TaskType DEF Leave, TypeOK
      <4>2. j = i
        BY <4>1 DEF Tasks, Roles, IsStartup
      <4> QED
        BY <2>2, <4>1, <4>2 DEF MemoryInv, Covered
    <3> QED
      BY <3>1, <3>2
  <2> QED
    BY <2>1, <2>2
<1> QED
  BY <1>2, <1>3, <1>4 DEF MemoryInv, IsStartup

LEMMA MemoryReflect ==
    ASSUME TypeOK, MemoryInv, NEW i \in Tasks, Reflect(i)
    PROVE  MemoryInv'
<1>0. i[1] \in Processes
  BY TaskType
<1>1. /\ snap' = [snap EXCEPT ![i] = db] /\ UNCHANGED <<db, changes, cur, last, missed>>
      /\ \A j \in Tasks \ {i} : pc'[j] = pc[j] /\ snap'[j] = snap[j]
      /\ snap'[i] = db
  BY DEF Reflect, Go, TypeOK, history
<1>2. \A j \in Tasks : ~IsStartup(j) => Covered(j)'
  BY <1>0, <1>1 DEF MemoryInv, Covered, Old
<1>3. RemembersNoMore'
  BY <1>0, <1>1 DEF MemoryInv, RemembersNoMore, Old, IsStartup
<1> QED
  BY <1>1, <1>2, <1>3 DEF MemoryInv, Old, IsStartup

LEMMA MemoryDetect ==
    ASSUME TypeOK, MemoryInv, NEW i \in Tasks, Detect(i)
    PROVE  MemoryInv'
<1>0. i[1] \in Processes
  BY TaskType
<1>1. /\ cur' = [cur EXCEPT ![i[1]] = db] /\ pc' = [pc EXCEPT ![i] = "lock"]
      /\ UNCHANGED <<db, changes, snap, last, missed>>
  BY DEF Detect, Go, history
<1>2. ASSUME NEW j \in Tasks, ~IsStartup(j) PROVE Covered(j)'
  <2>1. CASE j[1] # i[1]
    BY <1>1, <1>2, <2>1 DEF MemoryInv, Covered, TypeOK
  <2>2. CASE j[1] = i[1]
    <3>1. j = i
      BY <1>2, <2>2 DEF Tasks, Roles, IsStartup, Detect
    <3> QED
      BY <1>1, <3>1 DEF Covered, TypeOK
  <2> QED
    BY <2>1, <2>2
<1>3. changes \in Nat /\ \A t \in Tables : db[t] \in Nat
  BY DEF TypeOK, Schema
<1>4. \A p \in Processes, t \in Tables : Old(cur[p][t], t)'
  BY <1>0, <1>1, <1>3 DEF MemoryInv, Old, TypeOK
<1> QED
  BY <1>1, <1>2, <1>4 DEF MemoryInv, Old, RemembersNoMore, IsStartup

LEMMA MemoryChange ==
    ASSUME TypeOK, MemoryInv, NEW t \in Tables, NEW version \in {0, changes + 2},
           Change(t, version)
    PROVE  MemoryInv'
<1>0. changes \in Nat /\ changes' = changes + 1
  BY DEF TypeOK, Change
<1>1. \A u \in Tables : /\ db[u] \in Nat /\ db'[u] \in {db[u], version}
  BY DEF TypeOK, Schema, Change
<1>2. \A p \in Processes, u \in Tables : cur[p][u] \in Nat /\ last[p][u] \in Nat
  BY DEF TypeOK, Schema
<1>3. UNCHANGED <<pc, cur, last, snap, missed>>
  BY DEF Change
<1>4. \A u \in Tables : db'[u] <= changes' + 1
  BY <1>0, <1>1 DEF MemoryInv
<1>5. \A p \in Processes, u \in Tables : Old(cur[p][u], u)' /\ Old(last[p][u], u)'
  BY <1>0, <1>1, <1>2, <1>3 DEF MemoryInv, Old
<1>6. \A i \in Tasks : ~IsStartup(i) => Covered(i)'
  BY <1>3 DEF MemoryInv, Covered
<1> QED
  BY <1>3, <1>4, <1>5, <1>6 DEF MemoryInv, RemembersNoMore, IsStartup

LEMMA MemoryCrash ==
    ASSUME TypeOK, MemoryInv, NEW p \in Processes, Crash(p)
    PROVE  MemoryInv'
<1>0. \A t \in Tables : Empty[t] = 0
  BY DEF Empty
<1>1. /\ cur' = [cur EXCEPT ![p] = Empty] /\ last' = [last EXCEPT ![p] = Empty]
      /\ snap' = [i \in Tasks |-> IF i[1] = p THEN Empty ELSE snap[i]]
      /\ \A i \in Tasks : i[1] # p => pc'[i] = pc[i]
      /\ UNCHANGED <<db, changes, missed>>
  BY DEF Crash, TasksOf
<1>2. changes \in Nat /\ \A t \in Tables : db[t] \in Nat
  BY DEF TypeOK, Schema
<1>3. /\ \A t \in Tables : db'[t] <= changes' + 1
      /\ \A q \in Processes, t \in Tables : Old(cur[q][t], t)' /\ Old(last[q][t], t)'
  BY <1>0, <1>1, <1>2 DEF MemoryInv, Old, TypeOK
<1>4. \A i \in Tasks : ~IsStartup(i) => Covered(i)'
  BY <1>0, <1>1, TaskType DEF MemoryInv, Covered, TypeOK
<1>5. RemembersNoMore'
  BY <1>0, <1>1, TaskType DEF MemoryInv, RemembersNoMore, IsStartup, TypeOK
<1> QED
  BY <1>3, <1>4, <1>5 DEF MemoryInv, IsStartup

LEMMA MemoryRun ==
    ASSUME TypeOK, TypeOK', MemoryInv, NEW i \in Tasks, Run(i)
    PROVE  MemoryInv'
<1>1. CASE Reset(i, TRUE)
  BY <1>1, MemoryFrame DEF Reset, Go, memory, TypeOK
<1>2. CASE Compare(i)
  BY <1>2, MemoryFrame DEF Compare, Go, memory, history, TypeOK
<1>3. CASE Count(i)
  <2>1. CASE Exit(i)
    BY <1>3, <2>1, MemoryExit DEF Count, history
  <2>2. CASE Go(i, "lock") /\ UNCHANGED <<cur, snap>>
    BY <1>3, <2>2, MemoryFrame DEF Count, Go, memory, history, TypeOK
  <2> QED
    BY <1>3, <2>1, <2>2 DEF Count
<1>4. ASSUME NEW c, TryLock(i, c) PROVE MemoryInv'
  <2>1. CASE Exit(i)
    BY <1>4, <2>1, MemoryExit DEF TryLock, history
  <2>2. CASE Go(i, Granted(i)) /\ UNCHANGED <<cur, snap>>
    <3>1. \A j \in Tasks : ~IsStartup(j) /\ pc'[j] \in {"reset", "upsert"}
                            => pc[j] \in {"reset", "upsert"}
      BY <2>2 DEF Go, Granted, TypeOK
    <3> QED
      BY <1>4, <2>2, <3>1, MemoryFrame DEF TryLock, memory, history
  <2> QED
    BY <1>4, <2>1, <2>2 DEF TryLock
<1>5. ASSUME NEW c, Unlock(i, c) PROVE MemoryInv'
  BY <1>5, MemoryExit DEF Unlock, history
<1>6. ASSUME NEW batch, Upsert(i, batch) PROVE MemoryInv'
  <2>1. CASE Leave(i)
    BY <1>6, <2>1, MemoryLeave DEF Upsert, TypeOK
  <2>2. CASE UNCHANGED <<pc, last>>
    BY <1>6, <2>2, MemoryFrame DEF Upsert, memory
  <2> QED
    BY <1>6, <2>1, <2>2 DEF Upsert
<1> QED
  BY <1>1, <1>2, <1>3, <1>4, <1>5, <1>6, MemoryReflect, MemoryDetect DEF Run

LEMMA MemoryFault ==
    ASSUME TypeOK, TypeOK', MemoryInv, Fault
    PROVE  MemoryInv'
<1>1. ASSUME NEW i \in Tasks, LockUnavailable(i) PROVE MemoryInv'
  <2>1. \A j \in Tasks : ~IsStartup(j) /\ pc'[j] \in {"reset", "upsert"}
                          => pc[j] \in {"reset", "upsert"}
    BY <1>1 DEF LockUnavailable, Go, Granted, TypeOK
  <2> QED
    BY <1>1, <2>1, MemoryFrame DEF LockUnavailable, memory
<1>2. ASSUME NEW i \in Tasks, UnlockFails(i) PROVE MemoryInv'
  BY <1>2, MemoryExit DEF UnlockFails
<1>3. ASSUME NEW i \in Tasks, StartupFails(i) PROVE MemoryInv'
  BY <1>3, MemoryExit DEF StartupFails
<1>4. ASSUME NEW i \in Tasks, IngestFails(i) PROVE MemoryInv'
  BY <1>4, MemoryLeave DEF IngestFails
<1>5. ASSUME NEW i \in Tasks, Reset(i, FALSE) PROVE MemoryInv'
  BY <1>5, MemoryFrame DEF Reset, Go, memory, TypeOK
<1>6. ASSUME NEW w \in pending, PersistFails(w[1], w[2]) PROVE MemoryInv'
  BY <1>6, MemoryFrame DEF PersistFails, memory
<1>7. ASSUME NEW p \in Processes, Restart(p) PROVE MemoryInv'
  BY <1>7, MemoryFrame DEF Restart, Begin, memory, history, TypeOK
<1> QED
  BY <1>1, <1>2, <1>3, <1>4, <1>5, <1>6, <1>7, MemoryCrash DEF Fault

LEMMA MemoryStep == TypeOK /\ MemoryInv /\ [Next]_vars => MemoryInv'
<1> SUFFICES ASSUME TypeOK, MemoryInv, [Next]_vars PROVE MemoryInv'
  OBVIOUS
<1>0. TypeOK'
  BY TypeStep
<1>1. ASSUME NEW p \in Processes, Search(p) PROVE MemoryInv'
  BY <1>1, MemoryFrame DEF Search, memory, history
<1>2. ASSUME NEW w \in pending, Persist(w[1], w[2]) PROVE MemoryInv'
  BY <1>2, MemoryFrame DEF Persist, memory, history
<1>3. ASSUME NEW c \in Conns, CloseConnection(c) PROVE MemoryInv'
  BY <1>3, MemoryFrame DEF CloseConnection, memory, history
<1>4. CASE UNCHANGED vars
  BY <1>4, MemoryFrame DEF vars, memory
<1> QED
  BY <1>0, <1>1, <1>2, <1>3, <1>4, MemoryChange, MemoryRun, MemoryFault DEF Next

\* A monitor never remembers a version of a table newer than the one its last
\* ingestion read: the invariant RemembersNoMore.
THEOREM RemembersNoMoreHolds == Spec => []RemembersNoMore
<1>1. MemoryInv => RemembersNoMore
  BY DEF MemoryInv
<1> QED
  BY <1>1, TypeInit, TypeStep, MemoryInit, MemoryStep, PTL DEF Spec

-----------------------------------------------------------------------------
(* Connections: the invariant, in layers.                                  *)

\* Where a request is tells what it is about and what it has read.
Placed(q) ==
    /\ q.at # "idle" => q.proc \in Procs
    /\ q.at \in {"read", "snap", "commit", "client", "opening", "evict"} => q.row \in Ids
    /\ q.at \in {"read", "snap"} => q.seen = {}
    /\ q.at = "commit" /\ ~q.held => q.seen = {}
    /\ q.at = "snap" => q.held /\ q.op \in {"create", "select"}
    /\ q.op = "select" /\ q.at = "commit" => q.held
    /\ q.at = "opening" => q.dsn \in Dsns

ConnTyped == ConnTypeOK /\ \A r \in Requests : Placed(req[r])

\* What a transaction has read and no commit has made out of date still holds.
Current(q) ==
    ~q.stale =>
        /\ q.at = "ensuring" => q.seen = Existing /\ q.was = Active
        /\ q.at = "commit" /\ q.op \in {"create", "select"} /\ q.held => q.seen = Existing
        /\ q.at = "commit" /\ q.op = "create" /\ ~q.held => Existing # {}
        /\ q.at = "commit" /\ q.op = "delete" => (q.held <=> q.row \in Active)
        /\ q.at = "opening" => rows[q.row].st = "row" /\ rows[q.row].dsn = q.dsn

\* One row is active: OneDefault without a cardinality.
SoleActive == ~skewed /\ Existing # {} => \E a \in Ids : Active = {a}

Settled == SoleActive /\ \A r \in Requests : Current(req[r])

\* A process has one entry per connection, no two entries are one client, and every
\* client is accounted for.
Cached == UNION {{e.id : e \in cache[p]} : p \in Procs}

Accounted ==
    /\ \A p \in Procs : \A e, f \in cache[p] : e.row = f.row => e = f
    /\ \A p, q \in Procs : \A e \in cache[p], f \in cache[q] : e.id = f.id => p = q /\ e = f
    /\ Cached \cap disposed = {}
    /\ 1..made = Cached \cup disposed \cup lost

ConnectionsInv == ConnTyped /\ Settled /\ Accounted /\ StaleOnlyBehind

-----------------------------------------------------------------------------
(* Requests. *)

\* The request w is q, which a commit may have overtaken.
Kept(q, w) ==
    /\ w.op = q.op /\ w.at = q.at /\ w.proc = q.proc /\ w.row = q.row /\ w.dsn = q.dsn
    /\ w.seen = q.seen /\ w.was = q.was /\ w.held = q.held /\ (q.stale => w.stale)

\* A step of one request leaves the others as they were, or overtaken.
Leaves(r) ==
    /\ req' \in [Requests -> Request]
    /\ \A q \in Requests \ {r} : Kept(req[q], req'[q])

\* ... and overtakes every open transaction.
Overtakes(r) ==
    \A q \in Requests \ {r} : req[q].at \in {"ensuring", "snap", "commit"} => req'[q].stale

LEMMA FreeTyped == Free \in Request /\ Placed(Free) /\ Free.at = "idle"
BY DEF Free, Request, Placed

\* A request that has only been told what to do.
Told(op, p, c, d, phase) ==
    [Free EXCEPT !.op = op, !.proc = p, !.row = c, !.dsn = d, !.at = phase]

LEMMA Fresh ==
    ASSUME NEW op \in {"none", "list", "resolve", "create", "rename", "update", "save", "clear",
                       "delete", "select"},
           NEW p \in Procs, NEW c \in Ids \cup {NoRow}, NEW d \in Dsns \cup {NoDsn},
           NEW phase \in {"ensure", "read", "client"}, phase # "ensure" => c \in Ids
    PROVE  LET w == Told(op, p, c, d, phase)
           IN  w \in Request /\ w.at = phase /\ Placed(w)
<1> DEFINE w == Told(op, p, c, d, phase)
<1>1. w \in Request /\ w.at = phase /\ w.proc = p /\ w.row = c /\ w.seen = {}
  BY FreeTyped DEF Request, Free, Told
<1> HIDE DEF w
<1>2. Placed(w)
  BY <1>1 DEF Placed
<1> QED
  BY <1>1, <1>2 DEF w

\* One request is replaced.
LEMMA Replacing ==
    ASSUME ConnTyped, NEW r \in Requests, NEW w \in Request, req' = [req EXCEPT ![r] = w]
    PROVE  Leaves(r) /\ req'[r] = w
BY DEF ConnTyped, ConnTypeOK, Leaves, Kept

LEMMA OthersTyped ==
    ASSUME ConnTyped, NEW r \in Requests
    PROVE  /\ Others(r) \in [Requests -> Request]
           /\ \A q \in Requests : /\ Kept(req[q], Others(r)[q])
                                  /\ Overtaken(q, r) => Others(r)[q].stale
<1> SUFFICES ASSUME NEW q \in Requests
             PROVE  /\ Others(r)[q] \in Request /\ Kept(req[q], Others(r)[q])
                    /\ Overtaken(q, r) => Others(r)[q].stale
  BY DEF Others
<1>1. req[q] \in Request
  BY DEF ConnTyped, ConnTypeOK
<1>2. CASE Overtaken(q, r)
  <2>1. Others(r)[q] = [req[q] EXCEPT !.stale = TRUE]
    BY <1>2 DEF Others
  <2> QED
    BY <1>1, <2>1 DEF Request, Kept
<1>3. CASE ~Overtaken(q, r)
  <2>1. Others(r)[q] = req[q]
    BY <1>3 DEF Others
  <2> QED
    BY <1>1, <1>3, <2>1 DEF Kept
<1> QED
  BY <1>2, <1>3

\* One request is replaced by a commit.
LEMMA Committed ==
    ASSUME ConnTyped, NEW r \in Requests, NEW w \in Request,
           req' = [Others(r) EXCEPT ![r] = w]
    PROVE  Leaves(r) /\ Overtakes(r) /\ req'[r] = w
BY OthersTyped DEF Leaves, Overtakes, Overtaken

\* ... and by one that changes a DSN.
LEMMA DsnMoves ==
    ASSUME ConnTyped, NEW r \in Requests, NEW c, DsnChanged(r, c), req[r].at = "commit"
    PROVE  /\ Leaves(r) /\ Overtakes(r)
           /\ req'[r].at = "evict" /\ req'[r].proc = req[r].proc /\ req'[r].row = req[r].row
           /\ Placed(req'[r])
           /\ \A q \in Requests \ {r} : req[q].at = "opening" /\ req[q].row = c => req'[q].stale
<1> DEFINE w == [req[r] EXCEPT !.at = "evict", !.stale = FALSE]
<1>1. /\ req[r] \in Request /\ Placed(req[r])
      /\ req' = [q \in Requests |->
                    IF q = r THEN w
                    ELSE IF req[q].at = "opening" /\ req[q].row = c
                         THEN [req[q] EXCEPT !.stale = TRUE] ELSE Others(r)[q]]
  BY DEF ConnTyped, ConnTypeOK, DsnChanged
<1>2. w \in Request /\ w.at = "evict" /\ w.proc = req[r].proc /\ w.row = req[r].row
  BY <1>1 DEF Request
<1> HIDE DEF w
<1>3. ASSUME NEW q \in Requests \ {r}
      PROVE  /\ req'[q] \in Request /\ Kept(req[q], req'[q])
             /\ Overtaken(q, r) => req'[q].stale
             /\ req[q].at = "opening" /\ req[q].row = c => req'[q].stale
  <2>1. req[q] \in Request
    BY DEF ConnTyped, ConnTypeOK
  <2>2. CASE req[q].at = "opening" /\ req[q].row = c
    <3>1. req'[q] = [req[q] EXCEPT !.stale = TRUE]
      BY <1>1, <2>2
    <3> QED
      BY <2>1, <3>1 DEF Request, Kept
  <2>3. CASE ~(req[q].at = "opening" /\ req[q].row = c)
    BY <1>1, <2>3, OthersTyped
  <2> QED
    BY <2>2, <2>3
<1>4. req'[r] = w
  BY <1>1
<1>5. req' \in [Requests -> Request]
  BY <1>1, <1>2, <1>3, <1>4
<1>6. Placed(w)
  BY <1>1, <1>2 DEF Placed
<1> QED
  BY <1>2, <1>3, <1>4, <1>5, <1>6 DEF Leaves, Overtakes, Overtaken

\* The types of everything else.
ConnStores ==
    /\ rows \in [Ids -> Row]
    /\ cache \in [Procs -> SUBSET Client]
    /\ disposed \subseteq Nat /\ lost \subseteq Nat /\ made \in Nat
    /\ skewed \in BOOLEAN
    /\ behind \subseteq Procs \X Ids
    /\ count \in Nat

LEMMA ConnTypedMoves ==
    ASSUME ConnTyped, ConnStores', NEW r \in Requests, Leaves(r), Placed(req'[r])
    PROVE  ConnTyped'
<1>1. ASSUME NEW q \in Requests \ {r} PROVE Placed(req'[q])
  BY DEF Leaves, Kept, ConnTyped, Placed
<1> QED
  BY <1>1 DEF ConnTyped, ConnTypeOK, ConnStores, Leaves, Placed

LEMMA ConnTypedInit == ConnInit => ConnTyped
<1> SUFFICES ASSUME ConnInit PROVE ConnTyped
  OBVIOUS
<1>1. Unborn \in Row
  BY DEF Unborn, Row
<1> QED
  BY <1>1, FreeTyped DEF ConnInit, ConnTyped, ConnTypeOK

-----------------------------------------------------------------------------
(* Each action keeps the types, and leaves its request as its lemma says.  *)

\* What a step of a request, and only of it, leaves alone.
Aside == UNCHANGED <<rows, clients, skewed, behind>>

LEMMA AsideTyped == ASSUME ConnTyped, Aside, count' \in Nat PROVE ConnStores'
BY DEF ConnTyped, ConnTypeOK, Aside, clients, ConnStores

LEMMA AnswerConn ==
    ASSUME ConnTyped, NEW r \in Requests, Answer(r)
    PROVE  ConnTyped' /\ Leaves(r) /\ req'[r].at = "idle" /\ Aside
<1>1. req' = [req EXCEPT ![r] = Free] /\ Aside /\ count' = count
  BY DEF Answer, Aside
<1>2. Leaves(r) /\ req'[r] = Free
  BY <1>1, FreeTyped, Replacing
<1>3. ConnStores'
  BY <1>1, AsideTyped DEF ConnTyped, ConnTypeOK
<1> QED
  BY <1>1, <1>2, <1>3, FreeTyped, ConnTypedMoves

LEMMA StartConn ==
    ASSUME ConnTyped, NEW r \in Requests, NEW op \in {"list", "resolve", "clear", "create", "save",
                                                    "rename", "delete", "select", "update"},
           NEW p \in Procs, NEW c \in Ids \cup {NoRow}, NEW d \in Dsns \cup {NoDsn},
           NEW phase \in {"ensure", "read"}, phase = "read" => c \in Ids,
           Start(r, op, p, c, d, phase)
    PROVE  ConnTyped' /\ Leaves(r) /\ req'[r].at = phase /\ Aside
<1> DEFINE w == Told(op, p, c, d, phase)
<1>1. req' = [req EXCEPT ![r] = w] /\ Aside /\ count' = count + 1
  BY DEF Start, Aside, Told
<1>2. w \in Request /\ w.at = phase /\ Placed(w)
  BY Fresh
<1> HIDE DEF w
<1>3. Leaves(r) /\ req'[r] = w
  BY <1>1, <1>2, Replacing
<1>4. ConnStores'
  BY <1>1, AsideTyped DEF ConnTyped, ConnTypeOK
<1> QED
  BY <1>1, <1>2, <1>3, <1>4, ConnTypedMoves

LEMMA BeginConn ==
    ASSUME ConnTyped, NEW r \in Requests, BeginRequest(r)
    PROVE  ConnTyped' /\ Leaves(r) /\ req'[r].at \in {"ensure", "read"} /\ Aside
<1>1. PICK p \in Procs :
        \/ \E op \in {"list", "resolve", "clear"} : Start(r, op, p, NoRow, NoDsn, "ensure")
        \/ \E op \in {"create", "save"}, d \in Dsns : Start(r, op, p, NoRow, d, "ensure")
        \/ \E c \in {i \in Ids : rows[i].st # "unborn"} :
              \/ \E op \in {"rename", "delete", "select"} : Start(r, op, p, c, NoDsn, "read")
              \/ \E d \in Dsns : Start(r, "update", p, c, d, "read")
  BY DEF BeginRequest
<1>2. ASSUME NEW op \in {"list", "resolve", "clear"}, Start(r, op, p, NoRow, NoDsn, "ensure")
      PROVE  ConnTyped' /\ Leaves(r) /\ req'[r].at \in {"ensure", "read"} /\ Aside
  BY <1>2, StartConn
<1>3. ASSUME NEW op \in {"create", "save"}, NEW d \in Dsns, Start(r, op, p, NoRow, d, "ensure")
      PROVE  ConnTyped' /\ Leaves(r) /\ req'[r].at \in {"ensure", "read"} /\ Aside
  BY <1>3, StartConn
<1>4. ASSUME NEW c \in Ids, NEW op \in {"rename", "delete", "select"},
             Start(r, op, p, c, NoDsn, "read")
      PROVE  ConnTyped' /\ Leaves(r) /\ req'[r].at \in {"ensure", "read"} /\ Aside
  BY <1>4, StartConn
<1>5. ASSUME NEW c \in Ids, NEW d \in Dsns, Start(r, "update", p, c, d, "read")
      PROVE  ConnTyped' /\ Leaves(r) /\ req'[r].at \in {"ensure", "read"} /\ Aside
  BY <1>5, StartConn
<1> QED
  BY <1>1, <1>2, <1>3, <1>4, <1>5

LEMMA EnsureReadConn ==
    ASSUME ConnTyped, NEW r \in Requests, EnsureRead(r)
    PROVE  /\ ConnTyped' /\ Leaves(r) /\ Aside
           /\ req'[r].at = "ensuring" /\ req'[r].seen = Existing /\ req'[r].was = Active
<1> DEFINE w == [req[r] EXCEPT !.at = "ensuring", !.seen = Existing, !.was = Active]
<1>1. /\ req' = [req EXCEPT ![r] = w] /\ Aside /\ count' = count
      /\ req[r] \in Request /\ Placed(req[r]) /\ req[r].at = "ensure"
  BY DEF EnsureRead, Aside, ConnTyped, ConnTypeOK
<1>2. Existing \subseteq Ids /\ Active \subseteq Ids
  BY DEF Existing, Active
<1>3. /\ w \in Request /\ w.at = "ensuring" /\ w.proc = req[r].proc
      /\ w.seen = Existing /\ w.was = Active
  <2> HIDE DEF Existing, Active
  <2> QED
    BY <1>1, <1>2 DEF Request
<1> HIDE DEF w
<1>4. Leaves(r) /\ req'[r] = w
  BY <1>1, <1>3, Replacing
<1>5. ConnStores'
  BY <1>1, AsideTyped DEF ConnTyped, ConnTypeOK
<1>6. Placed(w)
  BY <1>1, <1>3 DEF Placed
<1> QED
  BY <1>1, <1>3, <1>4, <1>5, <1>6, ConnTypedMoves

\* What the second transaction concludes from what it has read.
Held(r) ==
    /\ req[r].op = "create" => (req'[r].held <=> WithDsn = {})
    /\ req[r].op = "delete" => (req'[r].held <=> req[r].row \in Active)
    /\ req[r].op = "create" \/ req[r].row \in Existing

LEMMA ReadRowsConn ==
    ASSUME ConnTyped, NEW r \in Requests, ReadRows(r)
    PROVE  /\ ConnTyped' /\ Leaves(r) /\ Aside
           /\ req'[r].at \in {"snap", "commit"} /\ req'[r].op = req[r].op
           /\ req'[r].row = req[r].row
           /\ req'[r].at = "commit" => req'[r].op # "select" /\ (req'[r].op = "create" => ~req'[r].held)
           /\ Held(r)
<1> DEFINE op == req[r].op
           c  == req[r].row
           held == CASE op = "create" -> WithDsn = {}
                     [] op = "clear"  -> c \in WithDsn
                     [] op = "delete" -> c \in Active
                     [] OTHER         -> op = "select"
           at == IF held /\ op \in {"create", "select"} THEN "snap" ELSE "commit"
           w == [req[r] EXCEPT !.held = held, !.at = at]
<1>1. /\ req' = [req EXCEPT ![r] = w] /\ Aside /\ count' = count
      /\ req[r] \in Request /\ Placed(req[r]) /\ req[r].at = "read"
      /\ op = "create" \/ c \in Existing
  BY DEF ReadRows, Aside, ConnTyped, ConnTypeOK
<1>2. /\ held \in BOOLEAN
      /\ op = "create" => (held <=> WithDsn = {})
      /\ op = "delete" => (held <=> c \in Active)
      /\ op = "select" => held
  <2>1. CASE op = "create"
    <3>1. held = (WithDsn = {})
      BY <2>1
    <3> QED
      BY <2>1, <3>1
  <2>2. CASE op = "clear"
    <3>1. held = (c \in WithDsn)
      BY <2>2
    <3> QED
      BY <2>2, <3>1
  <2>3. CASE op = "delete"
    <3>1. held = (c \in Active)
      BY <2>3
    <3> QED
      BY <2>3, <3>1
  <2>4. CASE op \notin {"create", "clear", "delete"}
    <3>1. held = (op = "select")
      BY <2>4
    <3> QED
      BY <2>4, <3>1
  <2> QED
    BY <2>1, <2>2, <2>3, <2>4
<1>3. at \in {"snap", "commit"} /\ (at = "snap" => held /\ op \in {"create", "select"})
      /\ (at = "commit" => ~held \/ op \notin {"create", "select"})
  OBVIOUS
<1> HIDE DEF held, at
<1>4. /\ w \in Request /\ w.at = at /\ w.held = held /\ w.op = op /\ w.row = c
      /\ w.proc = req[r].proc /\ w.seen = req[r].seen
  BY <1>1, <1>2, <1>3 DEF Request
<1> HIDE DEF w
<1>5. Leaves(r) /\ req'[r] = w
  BY <1>1, <1>4, Replacing
<1>6. ConnStores'
  BY <1>1, AsideTyped DEF ConnTyped, ConnTypeOK
<1>7. Placed(w)
  BY <1>1, <1>2, <1>3, <1>4 DEF Placed
<1>8. Held(r)
  BY <1>1, <1>2, <1>4, <1>5 DEF Held
<1> QED
  BY <1>1, <1>2, <1>3, <1>4, <1>5, <1>6, <1>7, <1>8, ConnTypedMoves

-----------------------------------------------------------------------------
(* Rows. *)

LEMMA FirstIn == ASSUME NEW S \in SUBSET Ids, S # {} PROVE First(S) \in S
<1>1. S \subseteq Nat
  BY DEF Ids
<1>2. PICK x \in S : \A y \in S : ~(<<y, x>> \in OpToRel(<, Nat))
  BY <1>1, NatLessThanWellFounded, WFMin, Zenon
<1>3. \A y \in S : ~(y < x)
  BY <1>1, <1>2, Zenon DEF OpToRel
<1>4. \A y \in S : x <= y
  BY <1>1, <1>3
<1> QED
  BY <1>4 DEF First

LEMMA MarkedRows ==
    ASSUME ConnTyped, NEW S, NEW active \in BOOLEAN
    PROVE  /\ Marked(S, active) \in [Ids -> Row]
           /\ \A b \in Ids : /\ Marked(S, active)[b].st = rows[b].st
                             /\ Marked(S, active)[b].dsn = rows[b].dsn
                             /\ b \in S => Marked(S, active)[b].active = active
                             /\ b \notin S => Marked(S, active)[b] = rows[b]
<1> SUFFICES ASSUME NEW b \in Ids
             PROVE  /\ Marked(S, active)[b] \in Row
                    /\ Marked(S, active)[b].st = rows[b].st
                    /\ Marked(S, active)[b].dsn = rows[b].dsn
                    /\ b \in S => Marked(S, active)[b].active = active
                    /\ b \notin S => Marked(S, active)[b] = rows[b]
  BY DEF Marked
<1>1. rows[b] \in Row
  BY DEF ConnTyped, ConnTypeOK
<1>2. CASE b \in S
  <2>1. Marked(S, active)[b] = [rows[b] EXCEPT !.active = active]
    BY <1>2 DEF Marked
  <2> QED
    BY <1>1, <1>2, <2>1 DEF Row
<1>3. CASE b \notin S
  BY <1>1, <1>3 DEF Marked
<1> QED
  BY <1>2, <1>3

LEMMA Unmarked ==
    ASSUME ConnTyped, NEW S
    PROVE  /\ Marked(S, FALSE) \in [Ids -> Row]
           /\ \A b \in Ids : /\ Marked(S, FALSE)[b].st = rows[b].st
                             /\ Marked(S, FALSE)[b].dsn = rows[b].dsn
                             /\ b \in S => Marked(S, FALSE)[b].active = FALSE
                             /\ b \notin S => Marked(S, FALSE)[b] = rows[b]
BY MarkedRows

\* A row is inserted as the code does, under the next id.
LEMMA InsertedRow ==
    ASSUME ConnTyped, NEW d \in Dsns \cup {NoDsn}, NEW active \in BOOLEAN, NEW server \in BOOLEAN
    PROVE  [st |-> "row", dsn |-> d, active |-> active, server |-> server] \in Row
BY DEF Row

\* No row that is there goes or changes its DSN.
DsnsKept ==
    \A c \in Ids : rows[c].st = "row" => rows'[c].st = "row" /\ rows'[c].dsn = rows[c].dsn

\* The types kept, when only rows and the flag have changed.
LEMMA RowsTyped ==
    ASSUME ConnTyped, rows' \in [Ids -> Row], UNCHANGED <<clients, behind, count>>,
           skewed' \in BOOLEAN
    PROVE  ConnStores'
BY DEF ConnTyped, ConnTypeOK, ConnStores, clients

LEMMA EnsuredConn ==
    ASSUME ConnTyped, NEW r \in Requests, NEW c \in Ids, rows' \in [Ids -> Row], Ensured(r, c),
           req[r].at = "ensuring"
    PROVE  /\ ConnTyped' /\ Leaves(r) /\ Overtakes(r) /\ req'[r].at \in {"idle", "client", "read"}
           /\ skewed' = req[r].stale /\ UNCHANGED <<clients, behind>>
<1> DEFINE phase == IF req[r].op = "resolve" THEN "client" ELSE "read"
           v == Told(req[r].op, req[r].proc, c, req[r].dsn, phase)
           w == IF req[r].op = "list" THEN Free ELSE v
<1>1. /\ req' = [Others(r) EXCEPT ![r] = w] /\ UNCHANGED <<clients, behind, count>>
      /\ skewed' = req[r].stale /\ req[r] \in Request /\ Placed(req[r])
  BY DEF Ensured, Told, ConnTyped, ConnTypeOK
<1>2. v \in Request /\ v.at \in {"client", "read"} /\ Placed(v)
  <2>1. /\ req[r].proc \in Procs /\ phase \in {"read", "client"}
        /\ req[r].dsn \in Dsns \cup {NoDsn}
        /\ req[r].op \in {"none", "list", "resolve", "create", "rename", "update", "save", "clear",
                         "delete", "select"}
    BY <1>1 DEF Placed, Request
  <2> HIDE DEF phase
  <2> QED
    BY <2>1, Fresh
<1> HIDE DEF v
<1>3. w \in Request /\ w.at \in {"idle", "client", "read"} /\ Placed(w)
  BY <1>2, FreeTyped
<1> HIDE DEF w
<1>4. Leaves(r) /\ Overtakes(r) /\ req'[r] = w
  BY <1>1, <1>3, Committed
<1>5. skewed' \in BOOLEAN
  BY <1>1 DEF Request
<1>6. ConnStores'
  BY <1>1, <1>5, RowsTyped
<1> QED
  BY <1>1, <1>3, <1>4, <1>6, ConnTypedMoves

LEMMA EnsureCommitConn ==
    ASSUME ConnTyped, NEW r \in Requests, EnsureCommit(r)
    PROVE  /\ ConnTyped' /\ Leaves(r) /\ Overtakes(r) /\ req'[r].at \in {"idle", "client", "read"}
           /\ skewed' = req[r].stale /\ UNCHANGED <<clients, behind>> /\ DsnsKept
           /\ Current(req[r]) => SoleActive'
<1> DEFINE seen == req[r].seen
           was  == req[r].was
           Outcome == /\ ConnTyped' /\ Leaves(r) /\ Overtakes(r)
                      /\ req'[r].at \in {"idle", "client", "read"}
                      /\ skewed' = req[r].stale /\ UNCHANGED <<clients, behind>> /\ DsnsKept
                      /\ Current(req[r]) => SoleActive'
<1>1. /\ req[r].at = "ensuring" /\ seen \in SUBSET Ids /\ was \in SUBSET Ids
      /\ rows \in [Ids -> Row]
      /\ \/ /\ seen = {} /\ \E c \in Ids : /\ NextId(c)
                                           /\ rows' = Inserted(c, NoDsn, TRUE, TRUE)
                                           /\ Ensured(r, c)
         \/ /\ seen # {} /\ was = {} /\ First(seen) \in Existing
            /\ rows' = Marked({First(seen)}, TRUE)
            /\ Ensured(r, First(seen))
         \/ /\ was # {} /\ was \ {First(was)} \subseteq Existing
            /\ rows' = Marked(was \ {First(was)}, FALSE)
            /\ Ensured(r, First(was))
  BY DEF EnsureCommit, ConnTyped, ConnTypeOK, Request
<1>2. Current(req[r]) /\ ~req[r].stale => seen = Existing /\ was = Active
  BY <1>1 DEF Current
<1>3. ASSUME seen = {}, NEW c \in Ids, NextId(c), rows' = Inserted(c, NoDsn, TRUE, TRUE),
             Ensured(r, c)
      PROVE  Outcome
  <2>1. rows' \in [Ids -> Row] /\ rows'[c].st = "row" /\ rows'[c].active
        /\ \A b \in Ids \ {c} : rows'[b] = rows[b]
    BY <1>1, <1>3, InsertedRow DEF Inserted
  <2>2. DsnsKept
    BY <1>3, <2>1 DEF DsnsKept, NextId
  <2>3. ASSUME Existing = {} PROVE Active' = {c}
    BY <2>1, <2>3 DEF Existing, Active
  <2> QED
    BY <1>1, <1>2, <1>3, <2>1, <2>2, <2>3, EnsuredConn DEF SoleActive
<1>4. ASSUME seen # {}, was = {}, First(seen) \in Existing, rows' = Marked({First(seen)}, TRUE),
             Ensured(r, First(seen))
      PROVE  Outcome
  <2> DEFINE c == First(seen)
  <2>1. c \in Ids /\ rows[c].st = "row" /\ rows' = Marked({c}, TRUE) /\ Ensured(r, c)
    BY <1>4 DEF Existing
  <2> HIDE DEF c
  <2>2. /\ rows' \in [Ids -> Row]
        /\ \A b \in Ids : /\ rows'[b].st = rows[b].st /\ rows'[b].dsn = rows[b].dsn
                          /\ b = c => rows'[b].active = TRUE
                          /\ b # c => rows'[b] = rows[b]
    <3>1. \A b \in Ids : b \in {c} <=> b = c
      OBVIOUS
    <3> QED
      BY <2>1, <3>1, MarkedRows
  <2>3. DsnsKept
    BY <2>2 DEF DsnsKept
  <2>4. ASSUME Active = {} PROVE Active' = {c}
    <3>1. c \in Active'
      BY <2>1, <2>2 DEF Existing, Active
    <3>2. ASSUME NEW b \in Active', b # c PROVE b \in Active
      BY <2>2, <3>2 DEF Existing, Active
    <3> QED
      BY <2>4, <3>1, <3>2
  <2> QED
    BY <1>1, <1>2, <1>4, <2>1, <2>2, <2>3, <2>4, EnsuredConn DEF SoleActive
<1>5. ASSUME was # {}, was \ {First(was)} \subseteq Existing,
             rows' = Marked(was \ {First(was)}, FALSE), Ensured(r, First(was))
      PROVE  Outcome
  <2> DEFINE c == First(was)
  <2>1. c \in was /\ c \in Ids
    BY <1>1, <1>5, FirstIn
  <2>2. /\ rows' \in [Ids -> Row]
        /\ \A b \in Ids : /\ rows'[b].st = rows[b].st /\ rows'[b].dsn = rows[b].dsn
                          /\ b \in was \ {c} => ~rows'[b].active
                          /\ b \notin was \ {c} => rows'[b] = rows[b]
    BY <1>5, MarkedRows
  <2>3. DsnsKept
    BY <2>2 DEF DsnsKept
  <2> HIDE DEF c
  <2>4. ASSUME was = Active PROVE Active' = {c}
    BY <2>1, <2>2, <2>4 DEF Existing, Active
  <2>5. Ensured(r, c)
    BY <1>5 DEF c
  <2> QED
    BY <1>1, <1>2, <2>1, <2>2, <2>3, <2>4, <2>5, EnsuredConn DEF SoleActive
<1> QED
  BY <1>1, <1>3, <1>4, <1>5

LEMMA SnapshotConn ==
    ASSUME ConnTyped, NEW r \in Requests, Snapshot(r)
    PROVE  /\ ConnTyped' /\ Leaves(r) /\ Aside
           /\ req'[r].at = "commit" /\ req'[r].seen = Existing
           /\ req'[r].held /\ req'[r].op \in {"create", "select"}
<1> DEFINE w == [req[r] EXCEPT !.seen = Existing, !.at = "commit"]
<1>1. /\ req' = [req EXCEPT ![r] = w] /\ Aside /\ count' = count
      /\ req[r] \in Request /\ Placed(req[r]) /\ req[r].at = "snap"
  BY DEF Snapshot, Aside, ConnTyped, ConnTypeOK
<1>2. Existing \subseteq Ids
  BY DEF Existing
<1>3. /\ w \in Request /\ w.at = "commit" /\ w.proc = req[r].proc /\ w.row = req[r].row
      /\ w.seen = Existing /\ w.held = req[r].held /\ w.op = req[r].op
  <2> HIDE DEF Existing
  <2> QED
    BY <1>1, <1>2 DEF Request
<1> HIDE DEF w
<1>4. Leaves(r) /\ req'[r] = w
  BY <1>1, <1>3, Replacing
<1>5. ConnStores'
  BY <1>1, AsideTyped DEF ConnTyped, ConnTypeOK
<1>6. Placed(w) /\ w.held /\ w.op \in {"create", "select"}
  BY <1>1, <1>3 DEF Placed
<1> QED
  BY <1>1, <1>3, <1>4, <1>5, <1>6, ConnTypedMoves

\* A commit that ends its request.
LEMMA CommitConn ==
    ASSUME ConnTyped, NEW r \in Requests, rows' \in [Ids -> Row], skewed' \in BOOLEAN,
           req' = [Others(r) EXCEPT ![r] = Free], UNCHANGED <<clients, behind, count>>
    PROVE  ConnTyped' /\ Leaves(r) /\ Overtakes(r) /\ req'[r].at = "idle"
<1>1. Leaves(r) /\ Overtakes(r) /\ req'[r] = Free
  BY FreeTyped, Committed
<1>2. ConnStores'
  BY RowsTyped
<1> QED
  BY <1>1, <1>2, FreeTyped, ConnTypedMoves

LEMMA SkewTyped ==
    ASSUME ConnTyped, NEW r \in Requests, Skewing(r)
    PROVE  skewed' \in BOOLEAN /\ (~skewed' => ~skewed /\ ~req[r].stale)
<1>1. req[r] \in Request /\ skewed \in BOOLEAN
  BY DEF ConnTyped, ConnTypeOK
<1>2. CASE skewed
  BY <1>2 DEF Skewing
<1>3. CASE ~skewed
  <2>1. skewed' = req[r].stale
    BY <1>1, <1>3 DEF Skewing, Request
  <2> QED
    BY <1>1, <1>3, <2>1 DEF Request
<1> QED
  BY <1>2, <1>3

LEMMA CreateConn ==
    ASSUME ConnTyped, NEW r \in Requests, Create(r)
    PROVE  /\ ConnTyped' /\ Leaves(r) /\ Overtakes(r) /\ req'[r].at = "idle"
           /\ UNCHANGED <<clients, behind>> /\ DsnsKept
           /\ Current(req[r]) /\ SoleActive => SoleActive'
<1>1. PICK c \in Ids :
          /\ NextId(c)
          /\ rows' = [Marked(req[r].seen, FALSE) EXCEPT
                        ![c] = [st |-> "row", dsn |-> req[r].dsn, active |-> req[r].held,
                                server |-> FALSE]]
  BY DEF Create
<1>2. /\ req[r] \in Request /\ Placed(req[r]) /\ req[r].at = "commit" /\ req[r].op = "create"
      /\ req' = [Others(r) EXCEPT ![r] = Free] /\ Skewing(r)
      /\ UNCHANGED <<clients, behind, count>>
  BY DEF Create, Committing, ConnTyped, ConnTypeOK
<1> DEFINE seen == req[r].seen
           held == req[r].held
           cleared == Marked(seen, FALSE)
           new == [st |-> "row", dsn |-> req[r].dsn, active |-> held, server |-> FALSE]
<1>3. new \in Row /\ new.st = "row" /\ new.active = held
  BY <1>2 DEF Request, Row
<1> HIDE DEF new
<1>4. /\ cleared \in [Ids -> Row]
      /\ \A b \in Ids : /\ cleared[b].st = rows[b].st /\ cleared[b].dsn = rows[b].dsn
                        /\ b \in seen => cleared[b].active = FALSE
                        /\ b \notin seen => cleared[b] = rows[b]
  BY Unmarked
<1>10. rows' = [cleared EXCEPT ![c] = new]
  BY <1>1 DEF new
<1> HIDE DEF cleared
<1>5. /\ rows' \in [Ids -> Row] /\ rows'[c] = new
      /\ \A b \in Ids \ {c} : rows'[b] = cleared[b]
  BY <1>3, <1>4, <1>10
<1>6. \A b \in Ids \ {c} : /\ rows'[b].st = rows[b].st /\ rows'[b].dsn = rows[b].dsn
                           /\ b \in seen => rows'[b].active = FALSE
                           /\ b \notin seen => rows'[b] = rows[b]
  BY <1>4, <1>5
<1>7. DsnsKept
  BY <1>1, <1>6 DEF DsnsKept, NextId
<1>8. ConnTyped' /\ Leaves(r) /\ Overtakes(r) /\ req'[r].at = "idle"
  BY <1>2, <1>5, SkewTyped, CommitConn
<1>9. ASSUME Current(req[r]), SoleActive, ~skewed' PROVE \E a \in Ids : Active' = {a}
  <2>1. ~skewed /\ ~req[r].stale
    BY <1>2, <1>9, SkewTyped
  <2>2. CASE held
    <3>1. seen = Existing
      BY <1>2, <1>9, <2>1, <2>2 DEF Current
    <3>2. c \in Active'
      BY <1>3, <1>5, <2>2 DEF Existing, Active
    <3>3. \A b \in Active' : b = c
      BY <1>6, <3>1 DEF Existing, Active
    <3> QED
      BY <3>2, <3>3
  <2>3. CASE ~held
    <3>1. Existing # {} /\ seen = {}
      BY <1>2, <1>9, <2>1, <2>3 DEF Current, Placed
    <3>2. c \notin Active' /\ c \notin Active
      BY <1>1, <1>3, <1>5, <2>3 DEF Existing, Active, NextId
    <3>3. \A b \in Ids \ {c} : b \in Active' <=> b \in Active
      BY <1>6, <3>1 DEF Existing, Active
    <3>4. Active' = Active
      BY <3>2, <3>3 DEF Existing, Active
    <3> QED
      BY <1>9, <2>1, <3>1, <3>4 DEF SoleActive
  <2> QED
    BY <2>2, <2>3
<1> QED
  BY <1>2, <1>7, <1>8, <1>9 DEF SoleActive

LEMMA SetDefaultConn ==
    ASSUME ConnTyped, NEW r \in Requests, SetDefault(r)
    PROVE  /\ ConnTyped' /\ Leaves(r) /\ Overtakes(r) /\ req'[r].at = "idle"
           /\ UNCHANGED <<clients, behind>> /\ DsnsKept
           /\ Current(req[r]) /\ SoleActive => SoleActive'
<1> DEFINE seen == req[r].seen
           c    == req[r].row
           cleared == Marked(seen, FALSE)
<1>1. /\ req[r] \in Request /\ Placed(req[r]) /\ req[r].at = "commit" /\ req[r].op = "select"
      /\ c \in Ids /\ c \in Existing
      /\ rows' = [cleared EXCEPT ![c].active = TRUE]
      /\ req' = [Others(r) EXCEPT ![r] = Free] /\ Skewing(r)
      /\ UNCHANGED <<clients, behind, count>>
  BY DEF SetDefault, Committing, ConnTyped, ConnTypeOK, Existing
<1> HIDE DEF c
<1>2. /\ cleared \in [Ids -> Row]
      /\ \A b \in Ids : /\ cleared[b].st = rows[b].st /\ cleared[b].dsn = rows[b].dsn
                        /\ b \in seen => cleared[b].active = FALSE
                        /\ b \notin seen => cleared[b] = rows[b]
  BY Unmarked
<1> HIDE DEF cleared
<1>3. /\ rows' \in [Ids -> Row] /\ rows'[c] = [cleared[c] EXCEPT !.active = TRUE]
      /\ \A b \in Ids \ {c} : rows'[b] = cleared[b]
  BY <1>1, <1>2 DEF Row
<1>4. /\ rows'[c].st = rows[c].st /\ rows'[c].dsn = rows[c].dsn /\ rows'[c].active = TRUE
      /\ \A b \in Ids \ {c} : /\ rows'[b].st = rows[b].st /\ rows'[b].dsn = rows[b].dsn
                              /\ b \in seen => rows'[b].active = FALSE
  <2>1. cleared[c] \in Row
    BY <1>1, <1>2
  <2>2. /\ rows'[c].st = cleared[c].st /\ rows'[c].dsn = cleared[c].dsn
        /\ rows'[c].active = TRUE
    BY <1>1, <1>3, <2>1 DEF Row
  <2>3. rows'[c].st = rows[c].st /\ rows'[c].dsn = rows[c].dsn
    BY <1>1, <1>2, <2>2
  <2> QED
    BY <1>2, <1>3, <2>2, <2>3
<1>5. DsnsKept
  BY <1>4 DEF DsnsKept
<1>6. ConnTyped' /\ Leaves(r) /\ Overtakes(r) /\ req'[r].at = "idle"
  BY <1>1, <1>3, SkewTyped, CommitConn
<1>7. ASSUME Current(req[r]), ~skewed' PROVE \E a \in Ids : Active' = {a}
  <2>1. seen = Existing
    BY <1>1, <1>7, SkewTyped DEF Current, Placed
  <2>2. c \in Active'
    BY <1>1, <1>4 DEF Existing, Active
  <2>3. \A b \in Active' : b = c
    BY <1>4, <2>1 DEF Existing, Active
  <2> QED
    BY <1>1, <2>2, <2>3
<1> QED
  BY <1>1, <1>5, <1>6, <1>7 DEF SoleActive

LEMMA RenameConn ==
    ASSUME ConnTyped, NEW r \in Requests, Rename(r)
    PROVE  /\ ConnTyped' /\ Leaves(r) /\ Overtakes(r) /\ req'[r].at = "idle"
           /\ UNCHANGED <<clients, behind>> /\ DsnsKept
           /\ SoleActive => SoleActive'
<1> DEFINE c == req[r].row
<1>1. PICK s \in BOOLEAN : rows' = [rows EXCEPT ![c].server = s]
  BY DEF Rename
<1>2. /\ req' = [Others(r) EXCEPT ![r] = Free] /\ skewed' = skewed
      /\ UNCHANGED <<clients, behind, count>> /\ skewed \in BOOLEAN /\ rows \in [Ids -> Row]
  BY DEF Rename, ConnTyped, ConnTypeOK
<1> HIDE DEF c
<1>3. \A b \in Ids : /\ rows'[b] \in Row /\ rows'[b].st = rows[b].st
                     /\ rows'[b].dsn = rows[b].dsn /\ rows'[b].active = rows[b].active
  BY <1>1, <1>2 DEF Row
<1>4. rows' \in [Ids -> Row]
  BY <1>1, <1>2, <1>3
<1>5. DsnsKept
  BY <1>3 DEF DsnsKept
<1>6. ConnTyped' /\ Leaves(r) /\ Overtakes(r) /\ req'[r].at = "idle"
  BY <1>2, <1>4, CommitConn
<1>7. Existing' = Existing /\ Active' = Active
  BY <1>3 DEF Existing, Active
<1> QED
  BY <1>2, <1>5, <1>6, <1>7 DEF SoleActive

\* Only the row c goes or changes its DSN.
Elsewhere(c) ==
    \A b \in Ids \ {c} : rows'[b].st = rows[b].st /\ rows'[b].dsn = rows[b].dsn

\* Once the DSN of c has changed, the request is about to evict its clients, the other
\* processes that have one are behind, and a lookup that has read c is overtaken.
LEMMA DsnChangedConn ==
    ASSUME ConnTyped, NEW r \in Requests, NEW c \in Ids, DsnChanged(r, c), c = req[r].row,
           req[r].at = "commit", rows' \in [Ids -> Row], skewed' \in BOOLEAN, Elsewhere(c)
    PROVE  /\ ConnTyped' /\ Leaves(r) /\ Overtakes(r) /\ req'[r].at = "evict"
           /\ UNCHANGED clients
           /\ \A q \in Requests \ {r} : req[q].at = "opening" /\ req[q].row = c => req'[q].stale
           /\ StaleOnlyBehind => StaleOnlyBehind'
<1>1. /\ req[r] \in Request /\ Placed(req[r]) /\ UNCHANGED <<clients, count>>
      /\ behind' = behind \cup Missed(req[r].proc, c)
  BY DEF ConnTyped, ConnTypeOK, DsnChanged
<1>2. req[r].proc \in Procs
  BY <1>1 DEF Placed
<1>3. /\ Leaves(r) /\ Overtakes(r)
      /\ req'[r].at = "evict" /\ req'[r].proc = req[r].proc /\ req'[r].row = c
      /\ Placed(req'[r])
      /\ \A q \in Requests \ {r} : req[q].at = "opening" /\ req[q].row = c => req'[q].stale
  BY DsnMoves
<1>4. ConnTyped'
  <2>1. Missed(req[r].proc, c) \subseteq Procs \X Ids
    BY DEF Missed
  <2>2. ConnStores'
    BY <1>1, <2>1 DEF ConnTyped, ConnTypeOK, ConnStores, clients
  <2> QED
    BY <1>3, <2>2, ConnTypedMoves
<1>5. ASSUME StaleOnlyBehind, NEW p \in Procs, NEW e \in cache[p]
      PROVE  \/ rows'[e.row].st = "row" /\ rows'[e.row].dsn = e.dsn
             \/ <<p, e.row>> \in behind'
             \/ \E s \in Requests : req'[s].at = "evict" /\ req'[s].proc = p /\ req'[s].row = e.row
  <2>1. e.row \in Ids /\ e \in Client
    BY DEF ConnTyped, ConnTypeOK, Client
  <2>2. CASE e.row = c /\ p = req[r].proc
    BY <1>3, <2>2
  <2>3. CASE e.row = c /\ p # req[r].proc
    <3>1. Entries(p, c) # {}
      BY <2>3 DEF Entries
    <3> QED
      BY <1>1, <2>3, <3>1 DEF Missed
  <2>4. CASE e.row # c
    <3>1. CASE rows[e.row].st = "row" /\ rows[e.row].dsn = e.dsn
      BY <2>1, <2>4, <3>1 DEF Elsewhere
    <3>2. CASE <<p, e.row>> \in behind
      BY <1>1, <3>2
    <3>3. ASSUME NEW s \in Requests, req[s].at = "evict", req[s].proc = p, req[s].row = e.row
          PROVE  req'[s].at = "evict" /\ req'[s].proc = p /\ req'[s].row = e.row
      BY <1>3, <3>3 DEF Leaves, Kept
    <3> QED
      BY <1>5, <3>1, <3>2, <3>3 DEF StaleOnlyBehind
  <2> QED
    BY <2>2, <2>3, <2>4
<1>6. StaleOnlyBehind => StaleOnlyBehind'
  BY <1>1, <1>5 DEF StaleOnlyBehind, clients
<1> QED
  BY <1>1, <1>3, <1>4, <1>6

LEMMA UpdateConn ==
    ASSUME ConnTyped, NEW r \in Requests, Update(r)
    PROVE  /\ ConnTyped' /\ Leaves(r) /\ Overtakes(r) /\ req'[r].at = "evict"
           /\ UNCHANGED clients /\ Elsewhere(req[r].row)
           /\ \A q \in Requests \ {r} :
                 req[q].at = "opening" /\ req[q].row = req[r].row => req'[q].stale
           /\ StaleOnlyBehind => StaleOnlyBehind'
           /\ SoleActive => SoleActive'
<1> DEFINE c == req[r].row
<1>1. /\ c \in Ids /\ rows' = [rows EXCEPT ![c].dsn = req[r].dsn] /\ DsnChanged(r, c)
      /\ skewed' = skewed /\ req[r].at = "commit"
      /\ skewed \in BOOLEAN /\ rows \in [Ids -> Row] /\ req[r] \in Request
  BY DEF Update, Committing, Existing, ConnTyped, ConnTypeOK
<1>2. req[r].dsn \in Dsns \cup {NoDsn}
  BY <1>1 DEF Request
<1>3. c = req[r].row
  OBVIOUS
<1> HIDE DEF c
<1>4. \A b \in Ids : /\ rows'[b] \in Row /\ rows'[b].st = rows[b].st
                     /\ rows'[b].active = rows[b].active
                     /\ b # c => rows'[b].dsn = rows[b].dsn
  BY <1>1, <1>2 DEF Row
<1>5. rows' \in [Ids -> Row]
  BY <1>1, <1>4
<1>6. Elsewhere(c)
  BY <1>4 DEF Elsewhere
<1>7. Existing' = Existing /\ Active' = Active
  BY <1>4 DEF Existing, Active
<1>8. SoleActive => SoleActive'
  BY <1>1, <1>7 DEF SoleActive
<1> QED
  BY <1>1, <1>3, <1>5, <1>6, <1>8, DsnChangedConn

LEMMA ClearNothingConn ==
    ASSUME ConnTyped, NEW r \in Requests, ClearNothing(r)
    PROVE  ConnTyped' /\ Leaves(r) /\ Overtakes(r) /\ req'[r].at = "evict" /\ Aside
<1> DEFINE w == [req[r] EXCEPT !.at = "evict"]
<1>1. /\ req' = [Others(r) EXCEPT ![r].at = "evict"] /\ Aside /\ count' = count
      /\ req[r] \in Request /\ Placed(req[r]) /\ req[r].at = "commit" /\ Others(r)[r] = req[r]
  BY DEF ClearNothing, Committing, Aside, ConnTyped, ConnTypeOK, Others, Overtaken
<1>2. req' = [Others(r) EXCEPT ![r] = w]
  BY <1>1
<1>3. w \in Request /\ w.at = "evict" /\ w.proc = req[r].proc /\ w.row = req[r].row
  BY <1>1 DEF Request
<1> HIDE DEF w
<1>4. Leaves(r) /\ Overtakes(r) /\ req'[r] = w
  BY <1>2, <1>3, Committed
<1>5. ConnStores'
  BY <1>1, AsideTyped DEF ConnTyped, ConnTypeOK
<1>6. Placed(w)
  BY <1>1, <1>3 DEF Placed
<1> QED
  BY <1>1, <1>3, <1>4, <1>5, <1>6, ConnTypedMoves

LEMMA DeleteConn ==
    ASSUME ConnTyped, NEW r \in Requests, Delete(r)
    PROVE  /\ ConnTyped' /\ Leaves(r) /\ Overtakes(r) /\ req'[r].at = "evict"
           /\ UNCHANGED clients /\ Elsewhere(req[r].row)
           /\ \A q \in Requests \ {r} :
                 req[q].at = "opening" /\ req[q].row = req[r].row => req'[q].stale
           /\ StaleOnlyBehind => StaleOnlyBehind'
           /\ Current(req[r]) /\ SoleActive => SoleActive'
<1> DEFINE c == req[r].row
           cleared == Marked({c}, FALSE)
           left == [cleared EXCEPT ![c].st = "gone"]
           promotes == req[r].held /\ Existing \ {c} # {}
<1>1. /\ DsnChanged(r, c) /\ Skewing(r) /\ req[r].at = "commit" /\ req[r].op = "delete"
      /\ rows \in [Ids -> Row] /\ req[r] \in Request /\ Placed(req[r])
      /\ IF promotes THEN \E b \in Existing \ {c} : rows' = [left EXCEPT ![b].active = TRUE]
         ELSE rows' = left
  BY DEF Delete, Committing, ConnTyped, ConnTypeOK
<1>2. c \in Ids /\ c = req[r].row
  BY <1>1 DEF Placed
<1> HIDE DEF c
<1>3. /\ cleared \in [Ids -> Row]
      /\ \A b \in Ids : /\ cleared[b].st = rows[b].st /\ cleared[b].dsn = rows[b].dsn
                        /\ b # c => cleared[b] = rows[b]
  <2>1. \A b \in Ids : b # c => b \notin {c}
    OBVIOUS
  <2> QED
    BY <2>1, Unmarked
<1> HIDE DEF cleared
<1>4. left \in [Ids -> Row] /\ left[c].st = "gone" /\ \A b \in Ids \ {c} : left[b] = rows[b]
  BY <1>2, <1>3 DEF Row
<1> HIDE DEF left
<1>5. CASE promotes
  <2>1. PICK b \in Existing \ {c} : rows' = [left EXCEPT ![b].active = TRUE]
    BY <1>1, <1>5
  <2>2. b \in Ids /\ b # c /\ rows[b].st = "row"
    BY <2>1 DEF Existing
  <2>3. rows'[b] = [left[b] EXCEPT !.active = TRUE] /\ \A d \in Ids \ {b} : rows'[d] = left[d]
    BY <1>4, <2>1, <2>2
  <2>4. /\ rows'[b] \in Row /\ rows'[b].st = "row" /\ rows'[b].dsn = rows[b].dsn
        /\ rows'[b].active = TRUE
    <3>1. left[b] \in Row /\ left[b].st = "row" /\ left[b].dsn = rows[b].dsn
      BY <1>4, <2>2
    <3> QED
      BY <2>3, <3>1 DEF Row
  <2>5. rows' \in [Ids -> Row] /\ rows'[c].st = "gone" /\ \A d \in Ids \ {b, c} : rows'[d] = rows[d]
    BY <1>2, <1>4, <2>1, <2>2, <2>3, <2>4
  <2>6. Elsewhere(c)
    BY <2>2, <2>4, <2>5 DEF Elsewhere
  <2>7. ASSUME Current(req[r]), SoleActive, ~skewed' PROVE \E a \in Ids : Active' = {a}
    <3>1. ~skewed /\ ~req[r].stale
      BY <1>1, <2>7, SkewTyped
    <3>2. c \in Active
      BY <1>1, <1>2, <1>5, <2>7, <3>1 DEF Current
    <3>3. Active = {c}
      BY <2>7, <3>1, <3>2 DEF SoleActive, Active
    <3>4. b \in Active'
      BY <2>2, <2>4 DEF Existing, Active
    <3>5. ASSUME NEW d \in Active' PROVE d = b
      <4>1. d \in Ids /\ rows'[d].st = "row" /\ rows'[d].active /\ d # c
        BY <2>5 DEF Existing, Active
      <4>2. d # b => d \in Active
        BY <2>5, <4>1 DEF Existing, Active
      <4> QED
        BY <3>3, <4>1, <4>2
    <3> QED
      BY <2>2, <3>4, <3>5
  <2> QED
    BY <1>1, <1>2, <2>5, <2>6, <2>7, SkewTyped, DsnChangedConn DEF SoleActive
<1>6. CASE ~promotes
  <2>1. rows' = left
    BY <1>1, <1>6
  <2>2. Elsewhere(c)
    BY <1>4, <2>1 DEF Elsewhere
  <2>3. ASSUME Current(req[r]), SoleActive, ~skewed', Existing' # {}
        PROVE  \E a \in Ids : Active' = {a}
    <3>1. ~skewed /\ ~req[r].stale
      BY <1>1, <2>3, SkewTyped
    <3>2. PICK b \in Ids : rows'[b].st = "row"
      BY <2>3 DEF Existing
    <3>3. b # c /\ b \in Existing
      BY <1>4, <2>1, <3>2 DEF Existing
    <3>4. c \notin Active
      BY <1>1, <1>2, <1>6, <2>3, <3>1, <3>3 DEF Current
    <3>5. Active' = Active
      <4>1. c \notin Active'
        BY <1>4, <2>1 DEF Existing, Active
      <4>2. \A d \in Ids \ {c} : d \in Active' <=> d \in Active
        BY <1>4, <2>1 DEF Existing, Active
      <4> QED
        BY <3>4, <4>1, <4>2 DEF Existing, Active
    <3> QED
      BY <2>3, <3>1, <3>3, <3>5 DEF SoleActive
  <2> QED
    BY <1>1, <1>2, <1>4, <2>1, <2>2, <2>3, SkewTyped, DsnChangedConn DEF SoleActive
<1> QED
  BY <1>5, <1>6

-----------------------------------------------------------------------------
(* The client cache. *)

LEMMA MissConn ==
    ASSUME ConnTyped, NEW r \in Requests, Miss(r)
    PROVE  /\ ConnTyped' /\ Leaves(r) /\ Aside /\ req'[r].at = "opening"
           /\ rows[req'[r].row].st = "row" /\ rows[req'[r].row].dsn = req'[r].dsn
<1> DEFINE c == req[r].row
           d == rows[c].dsn
           w == [req[r] EXCEPT !.at = "opening", !.dsn = d]
<1>1. /\ req' = [req EXCEPT ![r] = w] /\ Aside /\ count' = count
      /\ req[r] \in Request /\ Placed(req[r]) /\ req[r].at = "client"
      /\ c \in Ids /\ rows[c].st = "row" /\ rows[c] \in Row /\ d # NoDsn
  BY DEF Miss, Aside, ConnTyped, ConnTypeOK, WithDsn, Existing
<1>2. d \in Dsns
  BY <1>1 DEF Row
<1>3. d = rows[c].dsn /\ c = req[r].row
  OBVIOUS
<1> HIDE DEF d
<1>4. w \in Request /\ w.at = "opening" /\ w.proc = req[r].proc /\ w.row = c /\ w.dsn = d
  BY <1>1, <1>2 DEF Request
<1> HIDE DEF w
<1>5. Leaves(r) /\ req'[r] = w
  BY <1>1, <1>4, Replacing
<1>6. ConnStores'
  BY <1>1, AsideTyped DEF ConnTyped, ConnTypeOK
<1>7. Placed(w)
  BY <1>1, <1>2, <1>4 DEF Placed
<1> QED
  BY <1>1, <1>3, <1>4, <1>5, <1>6, <1>7, ConnTypedMoves

\* A process disposes of the clients D, leaves the clients L to their users, and may
\* take one new client, for a connection it then has no other entry of.
LEMMA AccountedMoves ==
    ASSUME ConnTyped, Accounted, NEW p \in Procs,
           NEW D \in SUBSET cache[p], NEW L \in SUBSET cache[p], NEW N \in SUBSET Client,
           cache' = [cache EXCEPT ![p] = (@ \ (L \cup D)) \cup N],
           disposed' = disposed \cup {e.id : e \in D}, lost' = lost \cup {e.id : e \in L},
           \/ N = {} /\ made' = made
           \/ \E n \in Client : /\ N = {n} /\ made' = made + 1 /\ n.id = made'
                                /\ \A e \in cache[p] \ (L \cup D) : e.row # n.row
    PROVE  Accounted'
<1>1. /\ cache \in [Procs -> SUBSET Client] /\ made \in Nat
      /\ \A q \in Procs : \A e, f \in cache[q] : e.row = f.row => e = f
      /\ \A q, s \in Procs : \A e \in cache[q], f \in cache[s] : e.id = f.id => q = s /\ e = f
      /\ Cached \cap disposed = {}
      /\ 1..made = Cached \cup disposed \cup lost
  BY DEF ConnTyped, ConnTypeOK, Accounted
<1>2. /\ cache' \in [Procs -> SUBSET Client]
      /\ cache'[p] = (cache[p] \ (L \cup D)) \cup N
      /\ \A q \in Procs \ {p} : cache'[q] = cache[q]
  BY <1>1
<1>3. \A q \in Procs : \A e \in cache[q] : e.id \in 1..made /\ e.id \notin disposed
  BY <1>1 DEF Cached
<1>4. /\ made' \in Nat /\ 1..made \subseteq 1..made'
      /\ \A e \in N : e.id \notin 1..made /\ e.id \in 1..made'
      /\ \A e, f \in N : e = f
      /\ \A x \in 1..made' : x \in 1..made \/ \E e \in N : e.id = x
      /\ \A n \in N : \A e \in cache[p] \ (L \cup D) : e.row # n.row
  <2>1. CASE N = {} /\ made' = made
    BY <1>1, <2>1
  <2>2. CASE \E n \in Client : /\ N = {n} /\ made' = made + 1 /\ n.id = made'
                               /\ \A e \in cache[p] \ (L \cup D) : e.row # n.row
    BY <1>1, <2>2
  <2> QED
    BY <2>1, <2>2
<1>5. \A q \in Procs : \A e, f \in cache'[q] : e.row = f.row => e = f
  BY <1>1, <1>2, <1>4
<1>6. ASSUME NEW q \in Procs, NEW s \in Procs, NEW e \in cache'[q], NEW f \in cache'[s], e.id = f.id
      PROVE  q = s /\ e = f
  <2>1. \/ e \in cache[q] /\ f \in cache[s]
        \/ q = p /\ e \in N /\ f \in cache[s]
        \/ s = p /\ f \in N /\ e \in cache[q]
        \/ q = p /\ s = p /\ e \in N /\ f \in N
    BY <1>2
  <2> QED
    BY <1>1, <1>3, <1>4, <1>6, <2>1
<1>7. \A q \in Procs : \A e \in cache'[q] : e.id \notin disposed'
  <2> SUFFICES ASSUME NEW q \in Procs, NEW e \in cache'[q] PROVE e.id \notin disposed'
    OBVIOUS
  <2>1. CASE e \in cache[q] /\ ~(q = p /\ e \in D)
    <3>1. \A f \in D : f.id # e.id
      BY <1>1, <2>1
    <3> QED
      BY <1>3, <2>1, <3>1
  <2>2. CASE q = p /\ e \in N
    <3>1. disposed \subseteq 1..made /\ \A f \in D : f.id \in 1..made
      BY <1>1, <1>3
    <3> QED
      BY <1>4, <2>2, <3>1
  <2> QED
    BY <1>2, <2>1, <2>2
<1>8. ASSUME NEW x \in 1..made' PROVE x \in Cached' \cup disposed' \cup lost'
  <2>1. CASE \E e \in N : e.id = x
    BY <1>2, <2>1 DEF Cached
  <2>2. CASE x \in disposed \cup lost
    BY <2>2
  <2>3. ASSUME NEW q \in Procs, NEW e \in cache[q], e.id = x
        PROVE  x \in Cached' \cup disposed' \cup lost'
    <3>1. CASE e \in cache'[q]
      BY <2>3, <3>1 DEF Cached
    <3>2. CASE e \notin cache'[q]
      <4>1. e \in L \/ e \in D
        BY <1>2, <2>3, <3>2
      <4> QED
        BY <2>3, <4>1
    <3> QED
      BY <3>1, <3>2
  <2> QED
    BY <1>1, <1>4, <2>1, <2>2, <2>3 DEF Cached
<1>9. Cached' \cup disposed' \cup lost' \subseteq 1..made'
  <2>1. \A q \in Procs : \A e \in cache'[q] : e.id \in 1..made'
    BY <1>2, <1>3, <1>4
  <2>2. disposed' \subseteq 1..made' /\ lost' \subseteq 1..made'
    <3>1. disposed \subseteq 1..made /\ lost \subseteq 1..made
      BY <1>1
    <3>2. \A e \in L \cup D : e.id \in 1..made
      BY <1>3
    <3> QED
      BY <1>4, <3>1, <3>2
  <2> QED
    BY <2>1, <2>2 DEF Cached
<1>10. Cached' \cap disposed' = {}
  BY <1>7 DEF Cached
<1>11. 1..made' = Cached' \cup disposed' \cup lost'
  BY <1>8, <1>9
<1> QED
  BY <1>5, <1>6, <1>10, <1>11 DEF Accounted

\* An eviction that is about to happen in another request still is.
LEMMA EvictingKept ==
    ASSUME NEW r \in Requests, Leaves(r), NEW s \in Requests \ {r}, NEW p, NEW c,
           req[s].at = "evict", req[s].proc = p, req[s].row = c
    PROVE  req'[s].at = "evict" /\ req'[s].proc = p /\ req'[s].row = c
BY DEF Leaves, Kept

LEMMA PutConn ==
    ASSUME ConnTyped, NEW r \in Requests, Put(r), Current(req[r]), Accounted, StaleOnlyBehind
    PROVE  /\ ConnTyped' /\ Leaves(r) /\ req'[r].at = "idle" /\ UNCHANGED <<rows, skewed>>
           /\ Accounted' /\ StaleOnlyBehind'
<1> DEFINE p == req[r].proc
           c == req[r].row
           L == Entries(p, c)
           client == [id |-> made + 1, row |-> c, dsn |-> req[r].dsn]
<1>1. PICK D \in Displaced(p, c) :
        /\ cache' = [cache EXCEPT ![p] = (@ \ (L \cup D)) \cup {client}]
        /\ disposed' = disposed \cup {e.id : e \in D}
        /\ behind' = (behind \ ({p} \X {e.row : e \in D \cup {client}}))
                     \cup (IF req[r].stale THEN {<<p, c>>} ELSE {})
  BY DEF Put
<1>2. /\ req[r].at = "opening" /\ made' = made + 1 /\ lost' = lost \cup {e.id : e \in L}
      /\ req' = [req EXCEPT ![r] = Free] /\ UNCHANGED <<rows, skewed, count>>
      /\ req[r] \in Request /\ Placed(req[r])
      /\ cache \in [Procs -> SUBSET Client] /\ made \in Nat /\ behind \subseteq Procs \X Ids
  BY DEF Put, ConnTyped, ConnTypeOK
<1>3. p \in Procs /\ c \in Ids
  BY <1>2 DEF Placed
<1>4. Current(req[r]) /\ ~req[r].stale => rows[c].st = "row" /\ rows[c].dsn = req[r].dsn
  BY <1>2 DEF Current
<1>5. /\ client \in Client /\ client.id = made + 1 /\ client.row = c /\ client.dsn = req[r].dsn
  <2>1. req[r].dsn \in Dsns
    BY <1>2 DEF Placed
  <2> QED
    BY <1>2, <1>3, <2>1 DEF Client
<1>6. p = req[r].proc /\ c = req[r].row
  OBVIOUS
<1>7. /\ D \in SUBSET cache[p] /\ L \in SUBSET cache[p]
      /\ \A e \in cache[p] \ (L \cup D) : e.row # c
  BY DEF Displaced, Entries
<1>8. {client} \in SUBSET Client
  BY <1>5
<1> HIDE DEF p, c, L, client
<1>9. Leaves(r) /\ req'[r] = Free
  BY <1>2, FreeTyped, Replacing
<1>10. Accounted'
  <2>1. \E n \in Client : /\ {client} = {n} /\ made' = made + 1 /\ n.id = made'
                          /\ \A e \in cache[p] \ (L \cup D) : e.row # n.row
    BY <1>2, <1>5, <1>7
  <2> QED
    BY <1>1, <1>2, <1>3, <1>7, <1>8, <2>1, AccountedMoves
<1>11. ConnTyped'
  <2>1. cache' \in [Procs -> SUBSET Client]
    BY <1>1, <1>2, <1>3, <1>8
  <2>2. \A e \in cache[p] : e.id \in Nat
    BY <1>2, <1>3 DEF Client
  <2>3. disposed' \subseteq Nat /\ lost' \subseteq Nat
    BY <1>1, <1>2, <1>7, <2>2 DEF ConnTyped, ConnTypeOK
  <2>4. behind' \subseteq Procs \X Ids
    BY <1>1, <1>2, <1>3
  <2>5. rows' \in [Ids -> Row] /\ skewed' \in BOOLEAN /\ count' \in Nat /\ made' \in Nat
    BY <1>2 DEF ConnTyped, ConnTypeOK
  <2>6. ConnStores'
    BY <2>1, <2>3, <2>4, <2>5 DEF ConnStores
  <2> QED
    BY <1>9, <2>6, FreeTyped, ConnTypedMoves
<1>12. ASSUME NEW q \in Procs, NEW e \in cache'[q]
       PROVE  \/ rows'[e.row].st = "row" /\ rows'[e.row].dsn = e.dsn
              \/ <<q, e.row>> \in behind'
              \/ \E s \in Requests : req'[s].at = "evict" /\ req'[s].proc = q /\ req'[s].row = e.row
  <2>1. CASE q = p /\ e = client
    <3>1. CASE req[r].stale
      BY <1>1, <1>5, <2>1, <3>1
    <3>2. CASE ~req[r].stale
      BY <1>2, <1>4, <1>5, <1>6, <2>1, <3>2
    <3> QED
      BY <3>1, <3>2
  <2>2. CASE ~(q = p /\ e = client)
    <3>1. e \in cache[q] /\ (q = p => e \notin L \cup D)
      BY <1>1, <1>2, <1>3, <2>2
    <3>2. q = p => e.row \notin {f.row : f \in D \cup {client}}
      <4>1. q = p => e.row # client.row
        BY <1>5, <1>7, <3>1
      <4>2. q = p => \A f \in D : e.row # f.row
        BY <1>7, <3>1 DEF Accounted
      <4> QED
        BY <4>1, <4>2
    <3>3. CASE rows[e.row].st = "row" /\ rows[e.row].dsn = e.dsn
      BY <1>2, <3>3
    <3>4. CASE <<q, e.row>> \in behind
      <4>1. <<q, e.row>> \notin {p} \X {f.row : f \in D \cup {client}}
        BY <3>2
      <4> QED
        BY <1>1, <3>4, <4>1
    <3>5. ASSUME NEW s \in Requests, req[s].at = "evict", req[s].proc = q, req[s].row = e.row
          PROVE  req'[s].at = "evict" /\ req'[s].proc = q /\ req'[s].row = e.row
      BY <1>2, <1>9, <3>5, EvictingKept
    <3> QED
      BY <3>1, <3>3, <3>4, <3>5 DEF StaleOnlyBehind
  <2> QED
    BY <2>1, <2>2
<1> QED
  BY <1>2, <1>9, <1>10, <1>11, <1>12, FreeTyped DEF StaleOnlyBehind

LEMMA EvictConn ==
    ASSUME ConnTyped, NEW r \in Requests, Evict(r), Accounted, StaleOnlyBehind
    PROVE  /\ ConnTyped' /\ Leaves(r) /\ req'[r].at = "idle" /\ UNCHANGED <<rows, skewed>>
           /\ Accounted' /\ StaleOnlyBehind'
<1> DEFINE p == req[r].proc
           c == req[r].row
           D == Entries(p, c)
<1>1. /\ req[r].at = "evict" /\ UNCHANGED <<rows, made, lost, skewed, count>>
      /\ cache' = [cache EXCEPT ![p] = @ \ D]
      /\ disposed' = disposed \cup {e.id : e \in D} /\ behind' = behind \ {<<p, c>>}
      /\ req' = [req EXCEPT ![r] = Free] /\ req[r] \in Request /\ Placed(req[r])
      /\ cache \in [Procs -> SUBSET Client] /\ made \in Nat /\ behind \subseteq Procs \X Ids
  BY DEF Evict, ConnTyped, ConnTypeOK
<1>2. p \in Procs /\ c \in Ids
  BY <1>1 DEF Placed
<1>3. D \in SUBSET cache[p] /\ \A e \in cache[p] : e \in D <=> e.row = c
  BY DEF Entries
<1>4. p = req[r].proc /\ c = req[r].row
  OBVIOUS
<1> HIDE DEF p, c, D
<1>5. Leaves(r) /\ req'[r] = Free
  BY <1>1, FreeTyped, Replacing
<1>6. Accounted'
  <2> DEFINE None == {}
  <2>1. /\ cache' = [cache EXCEPT ![p] = (@ \ (None \cup D)) \cup None]
        /\ lost' = lost \cup {e.id : e \in None}
        /\ None \in SUBSET cache[p] /\ None \in SUBSET Client /\ None = {}
    BY <1>1
  <2>2. D \in SUBSET cache[p] /\ made' = made /\ disposed' = disposed \cup {e.id : e \in D}
    BY <1>1, <1>3
  <2> HIDE DEF None
  <2> QED
    BY <1>2, <2>1, <2>2, AccountedMoves
<1>7. ConnTyped'
  <2>1. cache' \in [Procs -> SUBSET Client]
    BY <1>1, <1>2
  <2>2. \A e \in cache[p] : e.id \in Nat
    BY <1>1, <1>2 DEF Client
  <2>3. disposed' \subseteq Nat
    BY <1>1, <1>3, <2>2 DEF ConnTyped, ConnTypeOK
  <2>4. ConnStores'
    BY <1>1, <2>1, <2>3 DEF ConnStores, ConnTyped, ConnTypeOK
  <2> QED
    BY <1>5, <2>4, FreeTyped, ConnTypedMoves
<1>8. ASSUME NEW q \in Procs, NEW e \in cache'[q]
      PROVE  \/ rows'[e.row].st = "row" /\ rows'[e.row].dsn = e.dsn
             \/ <<q, e.row>> \in behind'
             \/ \E s \in Requests : req'[s].at = "evict" /\ req'[s].proc = q /\ req'[s].row = e.row
  <2>1. e \in cache[q] /\ ~(q = p /\ e.row = c)
    BY <1>1, <1>2, <1>3
  <2>2. CASE rows[e.row].st = "row" /\ rows[e.row].dsn = e.dsn
    BY <1>1, <2>2
  <2>3. CASE <<q, e.row>> \in behind
    BY <1>1, <2>1, <2>3
  <2>4. ASSUME NEW s \in Requests, req[s].at = "evict", req[s].proc = q, req[s].row = e.row
        PROVE  req'[s].at = "evict" /\ req'[s].proc = q /\ req'[s].row = e.row
    BY <1>4, <1>5, <2>1, <2>4, EvictingKept
  <2> QED
    BY <2>1, <2>2, <2>3, <2>4 DEF StaleOnlyBehind
<1> QED
  BY <1>1, <1>5, <1>6, <1>7, <1>8, FreeTyped DEF StaleOnlyBehind

LEMMA RefreshFailsConn ==
    ASSUME ConnTyped, NEW r \in Requests, RefreshFails(r), StaleOnlyBehind
    PROVE  /\ ConnTyped' /\ Leaves(r) /\ req'[r].at = "idle" /\ UNCHANGED <<rows, clients, skewed>>
           /\ StaleOnlyBehind'
<1> DEFINE p == req[r].proc
           c == req[r].row
<1>1. /\ req[r].at = "evict" /\ UNCHANGED <<rows, clients, skewed, count>>
      /\ behind' = behind \cup {<<p, c>>}
      /\ req' = [req EXCEPT ![r] = Free] /\ req[r] \in Request /\ Placed(req[r])
  BY DEF RefreshFails, ConnTyped, ConnTypeOK
<1>2. p \in Procs /\ c \in Ids
  BY <1>1 DEF Placed
<1>3. p = req[r].proc /\ c = req[r].row
  OBVIOUS
<1> HIDE DEF p, c
<1>4. Leaves(r) /\ req'[r] = Free
  BY <1>1, FreeTyped, Replacing
<1>5. ConnTyped'
  <2>1. behind' \subseteq Procs \X Ids
    BY <1>1, <1>2 DEF ConnTyped, ConnTypeOK
  <2>2. ConnStores'
    BY <1>1, <2>1 DEF ConnStores, ConnTyped, ConnTypeOK, clients
  <2> QED
    BY <1>4, <2>2, FreeTyped, ConnTypedMoves
<1>6. ASSUME NEW q \in Procs, NEW e \in cache[q]
      PROVE  \/ rows[e.row].st = "row" /\ rows[e.row].dsn = e.dsn
             \/ <<q, e.row>> \in behind'
             \/ \E s \in Requests : req'[s].at = "evict" /\ req'[s].proc = q /\ req'[s].row = e.row
  <2>1. ASSUME NEW s \in Requests, req[s].at = "evict", req[s].proc = q, req[s].row = e.row
        PROVE  \/ <<q, e.row>> \in behind'
               \/ req'[s].at = "evict" /\ req'[s].proc = q /\ req'[s].row = e.row
    BY <1>1, <1>3, <1>4, <2>1, EvictingKept
  <2> QED
    BY <1>1, <2>1 DEF StaleOnlyBehind
<1>7. StaleOnlyBehind'
  BY <1>1, <1>6 DEF StaleOnlyBehind, clients
<1> QED
  BY <1>1, <1>4, <1>5, <1>7, FreeTyped

-----------------------------------------------------------------------------
(* The rest of the invariant, by the kinds of step.                        *)

\* What another request has read still holds when the rows are as they were,
LEMMA CurrentAside ==
    ASSUME NEW r \in Requests, Leaves(r), rows' = rows, NEW q \in Requests \ {r}, Current(req[q])
    PROVE  Current(req[q])'
<1>1. Existing' = Existing /\ Active' = Active
  BY DEF Existing, Active
<1>2. Kept(req[q], req'[q])
  BY DEF Leaves
<1> QED
  BY <1>1, <1>2 DEF Kept, Current

\* ... and when they are not, of those that a commit does not overtake.
LEMMA CurrentOvertaken ==
    ASSUME NEW r \in Requests, Leaves(r), Overtakes(r), NEW q \in Requests \ {r}, Current(req[q]),
           req[q].at = "opening" /\ ~req'[q].stale =>
              rows'[req[q].row].st = rows[req[q].row].st /\ rows'[req[q].row].dsn = rows[req[q].row].dsn
    PROVE  Current(req[q])'
<1>1. Kept(req[q], req'[q])
  BY DEF Leaves
<1>2. CASE req'[q].stale
  BY <1>2 DEF Current
<1>3. CASE ~req'[q].stale
  <2>1. ~req[q].stale /\ req[q].at \notin {"ensuring", "snap", "commit"}
    BY <1>1, <1>3 DEF Kept, Overtakes
  <2>2. /\ req'[q].at = req[q].at /\ req'[q].row = req[q].row /\ req'[q].dsn = req[q].dsn
    BY <1>1 DEF Kept
  <2> QED
    BY <1>3, <2>1, <2>2 DEF Current
<1> QED
  BY <1>2, <1>3

\* Requests that are here have read nothing that could change.
LEMMA CurrentElsewhere ==
    ASSUME NEW r \in Requests, req'[r].at \in {"idle", "ensure", "read", "client", "evict"}
    PROVE  Current(req[r])'
BY DEF Current

\* The clients that are cached stay as good as they were.
LEMMA ClientsKept ==
    ASSUME ConnTyped, NEW r \in Requests, Leaves(r), UNCHANGED <<clients, behind>>, DsnsKept,
           req[r].at # "evict", Accounted, StaleOnlyBehind
    PROVE  Accounted' /\ StaleOnlyBehind'
<1>1. cache' = cache /\ disposed' = disposed /\ made' = made /\ lost' = lost /\ behind' = behind
  BY DEF clients
<1>2. Accounted'
  BY <1>1 DEF Accounted, Cached
<1>3. ASSUME NEW p \in Procs, NEW e \in cache[p]
      PROVE  \/ rows'[e.row].st = "row" /\ rows'[e.row].dsn = e.dsn
             \/ <<p, e.row>> \in behind
             \/ \E s \in Requests : req'[s].at = "evict" /\ req'[s].proc = p /\ req'[s].row = e.row
  <2>1. e.row \in Ids
    BY DEF ConnTyped, ConnTypeOK, Client
  <2>2. CASE rows[e.row].st = "row" /\ rows[e.row].dsn = e.dsn
    BY <2>1, <2>2 DEF DsnsKept
  <2>3. ASSUME NEW s \in Requests, req[s].at = "evict", req[s].proc = p, req[s].row = e.row
        PROVE  req'[s].at = "evict" /\ req'[s].proc = p /\ req'[s].row = e.row
    BY <2>3, EvictingKept
  <2> QED
    BY <2>2, <2>3 DEF StaleOnlyBehind
<1> QED
  BY <1>1, <1>2, <1>3 DEF StaleOnlyBehind

\* A step that changes nothing but its request.
LEMMA QuietStep ==
    ASSUME ConnectionsInv, NEW r \in Requests, ConnTyped', Leaves(r), Aside, req[r].at # "evict",
           Current(req[r])'
    PROVE  ConnectionsInv'
<1>1. UNCHANGED <<clients, behind>> /\ rows' = rows /\ skewed' = skewed
  BY DEF Aside
<1>2. DsnsKept
  BY <1>1 DEF DsnsKept
<1>3. Accounted' /\ StaleOnlyBehind'
  BY <1>1, <1>2, ClientsKept DEF ConnectionsInv
<1>4. SoleActive'
  <2>1. Existing' = Existing /\ Active' = Active
    BY <1>1 DEF Existing, Active
  <2> QED
    BY <1>1, <2>1 DEF ConnectionsInv, Settled, SoleActive
<1>5. \A q \in Requests \ {r} : Current(req[q])'
  BY <1>1, CurrentAside DEF ConnectionsInv, Settled
<1> QED
  BY <1>3, <1>4, <1>5 DEF ConnectionsInv, Settled

\* A commit that changes no DSN.
LEMMA CommitStep ==
    ASSUME ConnectionsInv, NEW r \in Requests, ConnTyped', Leaves(r), Overtakes(r),
           UNCHANGED <<clients, behind>>, DsnsKept, req[r].at # "evict", SoleActive',
           req'[r].at \in {"idle", "client", "read", "evict"}
    PROVE  ConnectionsInv'
<1>1. Accounted' /\ StaleOnlyBehind'
  BY ClientsKept DEF ConnectionsInv
<1>2. Current(req[r])'
  BY CurrentElsewhere
<1>3. ASSUME NEW q \in Requests \ {r} PROVE Current(req[q])'
  <2>1. Current(req[q]) /\ Kept(req[q], req'[q])
    BY DEF ConnectionsInv, Settled, Leaves
  <2>2. CASE req[q].at = "opening" /\ ~req'[q].stale
    <3>1. rows[req[q].row].st = "row" /\ req[q].row \in Ids
      BY <2>1, <2>2 DEF Current, Kept, ConnectionsInv, ConnTyped, Placed
    <3> QED
      BY <2>1, <3>1, CurrentOvertaken DEF DsnsKept
  <2>3. CASE ~(req[q].at = "opening" /\ ~req'[q].stale)
    BY <2>1, <2>3, CurrentOvertaken
  <2> QED
    BY <2>2, <2>3
<1> QED
  BY <1>1, <1>2, <1>3 DEF ConnectionsInv, Settled

\* A commit that changes a DSN, or deletes the row.
LEMMA DsnStep ==
    ASSUME ConnectionsInv, NEW r \in Requests, NEW c \in Ids, ConnTyped', Leaves(r), Overtakes(r),
           UNCHANGED clients, Elsewhere(c), StaleOnlyBehind', SoleActive', req'[r].at = "evict",
           \A q \in Requests \ {r} : req[q].at = "opening" /\ req[q].row = c => req'[q].stale
    PROVE  ConnectionsInv'
<1>1. Accounted'
  <2>1. cache' = cache /\ disposed' = disposed /\ made' = made /\ lost' = lost
    BY DEF clients
  <2> QED
    BY <2>1 DEF ConnectionsInv, Accounted, Cached
<1>2. Current(req[r])'
  BY CurrentElsewhere
<1>3. ASSUME NEW q \in Requests \ {r} PROVE Current(req[q])'
  <2>1. Current(req[q])
    BY DEF ConnectionsInv, Settled
  <2>2. CASE req[q].at = "opening" /\ ~req'[q].stale
    <3>1. req[q].row \in Ids \ {c}
      BY <2>2 DEF ConnectionsInv, ConnTyped, Placed
    <3> QED
      BY <2>1, <3>1, CurrentOvertaken DEF Elsewhere
  <2>3. CASE ~(req[q].at = "opening" /\ ~req'[q].stale)
    BY <2>1, <2>3, CurrentOvertaken
  <2> QED
    BY <2>2, <2>3
<1> QED
  BY <1>1, <1>2, <1>3 DEF ConnectionsInv, Settled

-----------------------------------------------------------------------------
(* The invariant and what follows from it. *)

LEMMA ConnectionsInvInit == ConnInit => ConnectionsInv
<1> SUFFICES ASSUME ConnInit PROVE ConnectionsInv
  OBVIOUS
<1>1. /\ \A c \in Ids : rows[c].st = "unborn"
      /\ \A p \in Procs : cache[p] = {}
      /\ disposed = {} /\ lost = {} /\ made = 0
      /\ \A r \in Requests : req[r].at = "idle"
  BY FreeTyped DEF ConnInit, Unborn
<1>2. ConnTyped
  BY ConnTypedInit
<1>3. Existing = {}
  BY <1>1 DEF Existing
<1>4. Settled
  BY <1>1, <1>3 DEF Settled, SoleActive, Current
<1>5. Cached = {}
  BY <1>1 DEF Cached
<1>6. Accounted
  BY <1>1, <1>5 DEF Accounted
<1>7. StaleOnlyBehind
  BY <1>1 DEF StaleOnlyBehind
<1> QED
  BY <1>2, <1>4, <1>6, <1>7 DEF ConnectionsInv

\* What a request does to the rows of the user.
LEMMA RowsStep ==
    ASSUME ConnectionsInv, NEW r \in Requests, Rows(r)
    PROVE  ConnectionsInv'
<1>1. /\ ConnTyped /\ SoleActive /\ Current(req[r]) /\ StaleOnlyBehind
      /\ req[r] \in Request /\ Placed(req[r])
  BY DEF ConnectionsInv, Settled, ConnTyped, ConnTypeOK
<1>2. ASSUME Answer(r), req[r].at # "evict" PROVE ConnectionsInv'
  BY <1>1, <1>2, AnswerConn, CurrentElsewhere, QuietStep
<1>3. CASE EnsureRead(r)
  <2>1. Existing' = Existing /\ Active' = Active
    BY <1>1, <1>3, EnsureReadConn DEF Aside, Existing, Active
  <2>2. Current(req[r])'
    BY <1>1, <1>3, <2>1, EnsureReadConn DEF Current
  <2>3. req[r].at = "ensure"
    BY <1>3 DEF EnsureRead
  <2> QED
    BY <1>1, <1>3, <2>2, <2>3, EnsureReadConn, QuietStep
<1>4. CASE EnsureCommit(r)
  <2>1. req[r].at = "ensuring"
    BY <1>4 DEF EnsureCommit
  <2> QED
    BY <1>1, <1>4, <2>1, EnsureCommitConn, CommitStep
<1>5. CASE EnsureFails(r) \/ ReadFails(r) \/ CreateRefused(r) \/ CommitFails(r)
  BY <1>2, <1>5 DEF EnsureFails, ReadFails, CreateRefused, CommitFails, Committing
<1>6. CASE ReadRows(r)
  <2>1. req[r].at = "read" /\ Existing' = Existing /\ Active' = Active
    BY <1>1, <1>6, ReadRowsConn DEF ReadRows, Aside, Existing, Active
  <2>2. /\ req'[r].at \in {"snap", "commit"} /\ req'[r].op = req[r].op /\ req'[r].row = req[r].row
        /\ req'[r].at = "commit" => req'[r].op # "select" /\ (req'[r].op = "create" => ~req'[r].held)
        /\ Held(r)
    BY <1>1, <1>6, ReadRowsConn
  <2>3. req'[r].op = "create" /\ ~req'[r].held => Existing # {}
    BY <2>2 DEF Held, WithDsn
  <2>4. req'[r].op = "delete" => (req'[r].held <=> req'[r].row \in Active)
    BY <2>2 DEF Held
  <2>5. Current(req[r])'
    BY <2>1, <2>2, <2>3, <2>4 DEF Current
  <2> QED
    BY <1>1, <1>6, <2>1, <2>5, ReadRowsConn, QuietStep
<1>7. CASE Snapshot(r)
  <2>1. req[r].at = "snap" /\ Existing' = Existing
    BY <1>1, <1>7, SnapshotConn DEF Snapshot, Aside, Existing
  <2>2. Current(req[r])'
    BY <1>1, <1>7, <2>1, SnapshotConn DEF Current
  <2> QED
    BY <1>1, <1>7, <2>1, <2>2, SnapshotConn, QuietStep
<1>8. CASE Create(r)
  <2>1. req[r].at = "commit"
    BY <1>8 DEF Create, Committing
  <2> QED
    BY <1>1, <1>8, <2>1, CreateConn, CommitStep
<1>9. CASE SetDefault(r)
  <2>1. req[r].at = "commit"
    BY <1>9 DEF SetDefault, Committing
  <2> QED
    BY <1>1, <1>9, <2>1, SetDefaultConn, CommitStep
<1>10. CASE Rename(r)
  <2>1. req[r].at = "commit"
    BY <1>10 DEF Rename, Committing
  <2> QED
    BY <1>1, <1>10, <2>1, RenameConn, CommitStep
<1>11. CASE Update(r)
  <2>1. req[r].row \in Ids
    BY <1>11 DEF Update, Existing
  <2> QED
    BY <1>1, <1>11, <2>1, UpdateConn, DsnStep
<1>12. CASE ClearNothing(r)
  <2>1. req[r].at = "commit"
    BY <1>12 DEF ClearNothing, Committing
  <2>2. Current(req[r])'
    BY <1>1, <1>12, ClearNothingConn, CurrentElsewhere
  <2> QED
    BY <1>1, <1>12, <2>1, <2>2, ClearNothingConn, QuietStep
<1>13. CASE Delete(r)
  <2>1. req[r].row \in Ids
    BY <1>1, <1>13 DEF Delete, Committing, Placed
  <2> QED
    BY <1>1, <1>13, <2>1, DeleteConn, DsnStep
<1> QED
  BY <1>3, <1>4, <1>5, <1>6, <1>7, <1>8, <1>9, <1>10, <1>11, <1>12, <1>13 DEF Rows

\* ... and to the clients that are cached.
LEMMA ClientsStep ==
    ASSUME ConnectionsInv, NEW r \in Requests, Clients(r)
    PROVE  ConnectionsInv'
<1>1. /\ ConnTyped /\ SoleActive /\ Current(req[r]) /\ Accounted /\ StaleOnlyBehind
      /\ \A q \in Requests : Current(req[q])
  BY DEF ConnectionsInv, Settled
<1>2. CASE Hit(r) \/ NoClient(r)
  <2>1. Answer(r) /\ req[r].at = "client"
    BY <1>2 DEF Hit, NoClient
  <2> QED
    BY <1>1, <2>1, AnswerConn, CurrentElsewhere, QuietStep
<1>3. CASE Miss(r)
  <2>1. req[r].at = "client" /\ rows' = rows
    BY <1>1, <1>3, MissConn DEF Miss, Aside
  <2>2. Current(req[r])'
    BY <1>1, <1>3, <2>1, MissConn DEF Current
  <2> QED
    BY <1>1, <1>3, <2>1, <2>2, MissConn, QuietStep
<1>4. ASSUME ConnTyped', Leaves(r), req'[r].at = "idle", UNCHANGED <<rows, skewed>>,
             Accounted', StaleOnlyBehind'
      PROVE  ConnectionsInv'
  <2>1. Existing' = Existing /\ Active' = Active
    BY <1>4 DEF Existing, Active
  <2>2. SoleActive'
    BY <1>1, <1>4, <2>1 DEF SoleActive
  <2>3. Current(req[r])'
    BY <1>4, CurrentElsewhere
  <2>4. \A q \in Requests \ {r} : Current(req[q])'
    BY <1>1, <1>4, CurrentAside
  <2> QED
    BY <1>4, <2>2, <2>3, <2>4 DEF ConnectionsInv, Settled
<1>5. CASE Put(r)
  BY <1>1, <1>4, <1>5, PutConn
<1>6. CASE Evict(r)
  BY <1>1, <1>4, <1>6, EvictConn
<1>7. CASE RefreshFails(r)
  <2>1. UNCHANGED clients
    BY <1>1, <1>7, RefreshFailsConn
  <2>2. Accounted'
    <3>1. cache' = cache /\ disposed' = disposed /\ made' = made /\ lost' = lost
      BY <2>1 DEF clients
    <3> QED
      BY <1>1, <3>1 DEF Accounted, Cached
  <2> QED
    BY <1>1, <1>4, <1>7, <2>2, RefreshFailsConn
<1> QED
  BY <1>2, <1>3, <1>5, <1>6, <1>7 DEF Clients

LEMMA ConnectionsInvStep == ConnectionsInv /\ [ConnNext]_connVars => ConnectionsInv'
<1> SUFFICES ASSUME ConnectionsInv, [ConnNext]_connVars PROVE ConnectionsInv'
  OBVIOUS
<1>1. ASSUME NEW r \in Requests, BeginRequest(r) PROVE ConnectionsInv'
  <2>1. ConnTyped /\ req[r].at = "idle"
    BY <1>1 DEF ConnectionsInv, BeginRequest, Start
  <2>2. Current(req[r])'
    BY <1>1, <2>1, BeginConn, CurrentElsewhere
  <2> QED
    BY <1>1, <2>1, <2>2, BeginConn, QuietStep
<1>2. CASE UNCHANGED connVars
  <2>1. /\ rows' = rows /\ cache' = cache /\ disposed' = disposed /\ made' = made /\ req' = req
        /\ skewed' = skewed /\ lost' = lost /\ behind' = behind /\ count' = count
    BY <1>2 DEF connVars
  <2>2. Existing' = Existing /\ Active' = Active /\ Cached' = Cached
    BY <2>1 DEF Existing, Active, Cached
  <2>3. ConnTyped'
    BY <2>1 DEF ConnectionsInv, ConnTyped, ConnTypeOK
  <2>4. Settled'
    BY <2>1, <2>2 DEF ConnectionsInv, Settled, SoleActive, Current
  <2>5. Accounted'
    BY <2>1, <2>2 DEF ConnectionsInv, Accounted
  <2>6. StaleOnlyBehind'
    <3>1. ASSUME NEW p \in Procs, NEW e \in cache[p]
          PROVE  \/ rows'[e.row].st = "row" /\ rows'[e.row].dsn = e.dsn
                 \/ <<p, e.row>> \in behind'
                 \/ \E r \in Requests : req'[r].at = "evict" /\ req'[r].proc = p /\ req'[r].row = e.row
      BY <2>1 DEF ConnectionsInv, StaleOnlyBehind
    <3> QED
      BY <2>1, <3>1 DEF StaleOnlyBehind
  <2> QED
    BY <2>3, <2>4, <2>5, <2>6 DEF ConnectionsInv
<1> QED
  BY <1>1, <1>2, RowsStep, ClientsStep DEF ConnNext

THEOREM ConnectionsInvariance == ConnSpec => []ConnectionsInv
<1> QED
  BY ConnectionsInvInit, ConnectionsInvStep, PTL DEF ConnSpec

\* The rows of a user, the clients cached and the requests under way have the types the
\* model gives them, whatever the requests do.
THEOREM ConnectionsTypeCorrect == ConnSpec => []ConnTypeOK
<1>1. ConnectionsInv => ConnTypeOK
  BY DEF ConnectionsInv, ConnTyped
<1> QED
  BY <1>1, ConnectionsInvariance, PTL

\* However create, select, delete and ensure_default_connection interleave, exactly one
\* row of a user who has any is active, as long as no transaction wrote from rows it had
\* read before another one changed them.
THEOREM OneDefaultHolds == ConnSpec => []OneDefault
<1>1. ConnectionsInv => OneDefault
  <2> SUFFICES ASSUME ConnectionsInv, ~skewed, Existing # {} PROVE Cardinality(Active) = 1
    BY DEF OneDefault
  <2>1. PICK a \in Ids : Active = {a}
    BY DEF ConnectionsInv, Settled, SoleActive
  <2> QED
    BY <2>1, FS_Singleton
<1> QED
  BY <1>1, ConnectionsInvariance, PTL

\* A cached client whose connection points elsewhere is one that evict_client is about to
\* drop, or one whose process was not told or had read the old DSN.
THEOREM StaleOnlyBehindHolds == ConnSpec => []StaleOnlyBehind
<1>1. ConnectionsInv => StaleOnlyBehind
  BY DEF ConnectionsInv
<1> QED
  BY <1>1, ConnectionsInvariance, PTL

\* Every client that get_client has opened is cached, disposed of or replaced by another
\* lookup of the same key; none is disposed of while it is cached, and a process caches
\* one per connection.
THEOREM ClientsAccountedHolds == ConnSpec => []ClientsAccounted
<1>1. ConnectionsInv => ClientsAccounted
  <2> SUFFICES ASSUME ConnectionsInv PROVE ClientsAccounted
    OBVIOUS
  <2>1. Accounted
    BY DEF ConnectionsInv
  <2>2. ASSUME NEW p \in Procs, NEW c \in Ids PROVE Cardinality(Entries(p, c)) <= 1
    <3>1. \A e, f \in Entries(p, c) : e = f
      BY <2>1 DEF Accounted, Entries
    <3>2. CASE Entries(p, c) = {}
      BY <3>2, FS_EmptySet
    <3>3. ASSUME NEW e \in Entries(p, c) PROVE Cardinality(Entries(p, c)) <= 1
      <4>1. Entries(p, c) = {e}
        BY <3>1
      <4>2. Cardinality(Entries(p, c)) = 1
        BY <4>1, FS_Singleton
      <4> QED
        BY <4>2
    <3> QED
      BY <3>2, <3>3
  <2> QED
    BY <2>1, <2>2 DEF Accounted, Cached, ClientsAccounted
<1> QED
  BY <1>1, ConnectionsInvariance, PTL
=============================================================================
