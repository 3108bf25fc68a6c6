----------------------- MODULE ScheduledQueries_proofs -----------------------
(***************************************************************************)
(* Proofs about ScheduledQueries for every number of schedules, processes, *)
(* requests, connections, and every bound.                                 *)
(***************************************************************************)
EXTENDS ScheduledQueries, TLAPS

\* compute_next_run answers a time strictly after its argument.
LEMMA NextRunLater ==
    ASSUME NEW cron \in Crons, NEW after \in Nat
    PROVE  compute_next_run(cron, after) \in Nat /\ compute_next_run(cron, after) > after
<1>1. cron \in Nat /\ cron > 0
  BY ConstantsAssumption
<1>2. after % cron \in 0..(cron - 1)
  BY <1>1, SMT
<1> QED
  BY <1>1, <1>2 DEF compute_next_run

LEMMA Defaults ==
    /\ NoRow("unborn") \in Row /\ NoRow("gone") \in Row
    /\ NoSnapshot \in Snapshot /\ NoOutcome \in Outcome
    /\ NoTransaction \in Transaction
<1>1. AnyCron \in Crons
  BY ConstantsAssumption DEF AnyCron
<1>2. NoRow("unborn") \in Row /\ NoRow("gone") \in Row
  BY <1>1 DEF NoRow, Row, Times, NoRun
<1>3. NoTransaction \in Transaction
  BY <1>2 DEF NoTransaction, Transaction, Operations
<1> QED
  BY <1>1, <1>2, <1>3 DEF NoSnapshot, NoOutcome, Snapshot, Outcome, Times, NoRun

\* What the operations make of the row they load.
LEMMA MarkedRow ==
    ASSUME NEW row \in Row, NEW t \in Times, NEW n \in Nat, NEW b \in BOOLEAN
    PROVE  LET new == [row EXCEPT !.next = t, !.cf = n, !.paused = b]
           IN  new \in Row /\ new.next = t /\ new.cf = n /\ new.paused = b
BY DEF Row

LEMMA UpdatedRow ==
    ASSUME NEW row \in Row, NEW cron \in Crons, NEW t \in Nat
    PROVE  LET new == [row EXCEPT !.cron = cron, !.next = t]
           IN  /\ new \in Row /\ new.next # NoRun
               /\ new.cf = row.cf /\ new.paused = row.paused
<1>1. t \in Times /\ t # NoRun
  BY DEF Times, NoRun
<1> QED
  BY <1>1 DEF Row

LEMMA PausedRow ==
    ASSUME NEW row \in Row
    PROVE  LET new == [row EXCEPT !.paused = TRUE]
           IN  new \in Row /\ new.next = row.next /\ new.cf = row.cf /\ new.paused = TRUE
BY DEF Row

LEMMA ResumedRow ==
    ASSUME NEW row \in Row, NEW t \in Nat
    PROVE  LET new == [row EXCEPT !.paused = FALSE, !.next = t]
           IN  new \in Row /\ new.next # NoRun /\ new.cf = row.cf
<1>1. t \in Times /\ t # NoRun
  BY DEF Times, NoRun
<1> QED
  BY <1>1 DEF Row

\* A commit writes a column of its own or leaves it.
LEMMA FlushedRow ==
    ASSUME NEW row \in Row, NEW old \in Row, NEW new \in Row
    PROVE  LET flushed == Flushed(row, old, new)
           IN  /\ flushed \in Row /\ flushed.st = row.st
               /\ flushed.paused = Written(old.paused, new.paused, row.paused)
               /\ flushed.next = Written(old.next, new.next, row.next)
               /\ flushed.cf \in {new.cf, row.cf}
BY DEF Flushed, Written, Row

LEMMA LoadType ==
    ASSUME TypeOK, NEW r \in Runners, NEW op \in Operations, NEW s \in Schedules,
           NEW new \in Row, Load(r, op, s, new)
    PROVE  /\ pc' \in [Runners -> Phases] /\ tx' \in [Runners -> Transaction]
           /\ tx'[r] = [op |-> op, id |-> s, old |-> rows[s], new |-> new, late |-> FALSE]
           /\ pc'[r] = "commit"
           /\ \A q \in Runners \ {r} : pc'[q] = pc[q] /\ tx'[q] = tx[q]
<1> DEFINE t == [op |-> op, id |-> s, old |-> rows[s], new |-> new, late |-> FALSE]
<1>1. t \in Transaction
  BY DEF TypeOK, Transaction
<1>2. tx' = [tx EXCEPT ![r] = t] /\ pc' = [pc EXCEPT ![r] = "commit"]
  BY DEF Load
<1>3. "commit" \in Phases
  BY DEF Phases
<1> HIDE DEF t
<1>4. /\ pc' \in [Runners -> Phases] /\ tx' \in [Runners -> Transaction]
      /\ tx'[r] = t /\ pc'[r] = "commit"
      /\ \A q \in Runners \ {r} : pc'[q] = pc[q] /\ tx'[q] = tx[q]
  BY <1>1, <1>2, <1>3 DEF TypeOK
<1> QED
  BY <1>4 DEF t

LEMMA LeaveType ==
    ASSUME TypeOK, NEW r \in Runners, NEW phase \in Phases, Leave(r, phase)
    PROVE  /\ pc' \in [Runners -> Phases] /\ tx' \in [Runners -> Transaction]
           /\ out' \in [Runners -> Outcome] /\ snap' \in [Runners -> Snapshot]
<1>1. "idle" \in Phases
  BY DEF Phases
<1> QED
  BY <1>1, Defaults DEF TypeOK, Leave

LEMMA LockTypes ==
    ASSUME NEW table \in LockTables(Conns), NEW c \in Conns
    PROVE  /\ Locked(table, c) \in LockTables(Conns)
           /\ Unlocked(table, c) \in LockTables(Conns)
BY DEF LockTables, Locked, Unlocked

LEMMA SnapshotType ==
    ASSUME TypeOK, NEW s \in Schedules
    PROVE  TakeSnapshot(s) \in Snapshot
BY DEF TypeOK, TakeSnapshot, Snapshot, Row

LEMMA ConnsOfProcess == \A p \in Procs : ConnsOf(p) \subseteq Conns
BY DEF ConnsOf, Conns

-----------------------------------------------------------------------------
(* The failure counter travels through detached snapshots, so the invariant    *)
(* follows it there: a copy, wherever it waits, never exceeds the number of    *)
(* failed runs recorded, with the failure about to be recorded included.  What *)
(* a transaction is about to write withdraws a next run only together with a   *)
(* pause, and only a resume ends a pause.                                      *)

RowOk(s) ==
    /\ rows[s].cf <= failed[s]
    /\ Live(s) /\ rows[s].next = NoRun => failed[s] >= MaxFailures

DueOk(p) == \A x \in due[p] : x.id \in Schedules /\ x.cf <= failed[x.id]

HoldsSnapshot(r) ==
    \/ pc[r] \in {"run", "record", "trim", "mark", "unlock", "unwind"}
    \/ pc[r] = "commit" /\ r \in Procs

RunnerOk(r) ==
    /\ HoldsSnapshot(r) => snap[r].id \in Schedules
    /\ pc[r] = "run" => snap[r].cf <= failed[snap[r].id]
    /\ pc[r] = "record" => out[r].cf <= failed[snap[r].id] + (IF out[r].ok THEN 0 ELSE 1)
    /\ pc[r] \in {"trim", "mark"} => out[r].cf <= failed[snap[r].id]
    /\ /\ pc[r] \in {"record", "trim", "mark"} /\ out[r].next = NoRun
       => out[r].pause /\ out[r].cf >= MaxFailures

\* What transaction t writes, where n failed runs have been recorded.
WritesOk(t, n) ==
    t.op # "delete" =>
      /\ t.new.cf <= n
      /\ t.new.next = NoRun => n >= MaxFailures /\ t.new.paused
      /\ t.new.next = NoRun /\ t.op # "mark" => t.old.next = NoRun
      /\ t.old.paused /\ t.op # "resume" => t.new.paused

TxOk(r) ==
    pc[r] = "commit" =>
      /\ tx[r].id \in Schedules /\ WritesOk(tx[r], failed[tx[r].id])
      /\ tx[r].op = "resume" => r \in Requests

Counted ==
    /\ \A s \in Schedules : RowOk(s)
    /\ \A p \in Procs : DueOk(p)
    /\ \A r \in Runners : RunnerOk(r)

CounterInv == Counted /\ \A r \in Runners : TxOk(r)

\* Type correctness of ScheduledQueries, the invariant TypeOK.
LEMMA TypeInit == Init => TypeOK
<1>1. NoLock(Conns) \in LockTables(Conns)
  BY DEF NoLock, LockTables
<1> QED
  BY <1>1, Defaults DEF Init, TypeOK, Phases

LEMMA TypeStep == TypeOK /\ CounterInv /\ [Next]_vars => TypeOK'
<1> SUFFICES ASSUME TypeOK, CounterInv, [Next]_vars PROVE TypeOK'
  OBVIOUS
<1> USE DEF TypeOK
<1>1. CASE Tick
  BY <1>1 DEF Tick
<1>2. ASSUME NEW s \in Schedules, NEW cron \in Crons, NEW paused \in BOOLEAN,
             Create(s, cron, paused)
      PROVE  TypeOK'
  <2>1. compute_next_run(cron, now) \in Times
    BY NextRunLater DEF Times
  <2>2. [st |-> "live", cron |-> cron, paused |-> paused,
         next |-> compute_next_run(cron, now), cf |-> 0] \in Row
    BY <2>1 DEF Row
  <2> QED
    BY <1>2, <2>2 DEF Create, UnchangedByUser
<1>3. ASSUME NEW s \in Schedules, NEW r \in Requests, NEW op \in Operations,
             NEW new \in Row, Begin(r, op, s, new)
      PROVE  TypeOK'
  <2>1. r \in Runners
    BY DEF Runners
  <2>2. pc' \in [Runners -> Phases] /\ tx' \in [Runners -> Transaction]
    BY <1>3, <2>1, LoadType DEF Begin
  <2> QED
    BY <1>3, <2>2 DEF Begin, Edit, UnchangedByUser
<1>4. ASSUME NEW s \in Schedules, NEW r \in Requests,
             \/ \E cron \in Crons : Update(r, s, cron)
             \/ Pause(r, s) \/ Resume(r, s) \/ Delete(r, s)
      PROVE  TypeOK'
  <2>1. ASSUME NEW cron \in Crons, Update(r, s, cron) PROVE TypeOK'
    BY <1>3, <2>1, NextRunLater, UpdatedRow DEF Update, Operations
  <2>2. CASE Pause(r, s)
    BY <1>3, <2>2, PausedRow DEF Pause, Operations
  <2>3. CASE Resume(r, s)
    <3>1. compute_next_run(rows[s].cron, now) \in Nat
      BY NextRunLater DEF Row
    <3> QED
      BY <1>3, <2>3, <3>1, ResumedRow DEF Resume, Operations
  <2>4. CASE Delete(r, s)
    BY <1>3, <2>4, Defaults DEF Delete, Operations
  <2> QED
    BY <1>4, <2>1, <2>2, <2>3, <2>4
<1>7. ASSUME NEW s \in Schedules, NEW r \in Requests, RunNow(r, s) PROVE TypeOK'
  BY <1>7, SnapshotType DEF RunNow, Edit, UnchangedByUser, Runners, Phases
<1>8. ASSUME NEW r \in Runners, NEW ok \in BOOLEAN, FinishRun(r, ok) PROVE TypeOK'
  <2> DEFINE cf    == IF ok THEN 0 ELSE snap[r].cf + 1
             pause == cf >= MaxFailures
             next  == IF pause THEN NoRun ELSE compute_next_run(snap[r].cron, now)
  <2>1. cf \in Nat /\ pause \in BOOLEAN
    BY ConstantsAssumption DEF Snapshot
  <2>2. next \in Times
    BY NextRunLater DEF Snapshot, Times
  <2>3. [ok |-> ok, cf |-> cf, pause |-> pause, next |-> next] \in Outcome
    BY <2>1, <2>2 DEF Outcome
  <2>4. out' = [out EXCEPT ![r] = [ok |-> ok, cf |-> cf, pause |-> pause, next |-> next]]
    BY <1>8 DEF FinishRun
  <2> HIDE DEF cf, pause, next
  <2> QED
    BY <1>8, <2>3, <2>4 DEF FinishRun, world, Phases
<1>9. ASSUME NEW r \in Runners, RecordRun(r) PROVE TypeOK'
  <2> DEFINE s == snap[r].id
             count == IF out[r].ok THEN failed[s] ELSE failed[s] + 1
  <2>1. runs' \in [Schedules -> Nat]
    <3>1. s \in Schedules => runs[s] + 1 \in Nat
      OBVIOUS
    <3>2. runs' = [runs EXCEPT ![s] = runs[s] + 1]
      BY <1>9 DEF RecordRun
    <3> HIDE DEF s
    <3> QED
      BY <3>1, <3>2
  <2>2. failed' = [failed EXCEPT ![s] = count]
    BY <1>9 DEF RecordRun
  <2>3. s \in Schedules => count \in Nat
    OBVIOUS
  <2>4. failed' \in [Schedules -> Nat]
    <3> HIDE DEF count, s
    <3> QED
      BY <2>2, <2>3
  <2>5. tx' \in [Runners -> Transaction]
    BY <1>9 DEF RecordRun, Transaction
  <2> QED
    BY <1>9, <2>1, <2>4, <2>5 DEF RecordRun, world, Phases
<1>10. ASSUME NEW r \in Runners, TrimHistory(r) PROVE TypeOK'
  BY <1>10, ConstantsAssumption DEF TrimHistory, world, Phases
<1>11. ASSUME NEW r \in Runners, MarkRun(r) PROVE TypeOK'
  <2> DEFINE s == snap[r].id
             new == [rows[s] EXCEPT !.next = out[r].next, !.cf = out[r].cf,
                                    !.paused = rows[s].paused \/ out[r].pause]
  <2>1. s \in Schedules
    BY <1>11 DEF MarkRun, CounterInv, Counted, RunnerOk, HoldsSnapshot
  <2>2. /\ out[r].next \in Times /\ out[r].cf \in Nat
        /\ (rows[s].paused \/ out[r].pause) \in BOOLEAN /\ rows[s] \in Row
    BY <2>1 DEF Outcome
  <2>3. new \in Row
    BY <2>2, MarkedRow
  <2>4. Load(r, "mark", s, new)
    BY <1>11, <2>2 DEF MarkRun, Row
  <2>5. "mark" \in Operations
    BY DEF Operations
  <2> HIDE DEF new, s
  <2>6. pc' \in [Runners -> Phases] /\ tx' \in [Runners -> Transaction]
    BY <2>1, <2>3, <2>4, <2>5, LoadType
  <2> QED
    BY <1>11, <2>6 DEF MarkRun, world
<1>12. ASSUME NEW r \in Runners,
              MarkNothing(r) \/ RaiseDeleted(r) \/ CommitRaises(r) \/ RaiseDatabase(r)
       PROVE  TypeOK'
  <2>1. Leave(r, "unlock") \/ Leave(r, "unwind")
    BY <1>12 DEF MarkNothing, RaiseDeleted, CommitRaises, RaiseDatabase
  <2>2. /\ pc' \in [Runners -> Phases] /\ tx' \in [Runners -> Transaction]
        /\ out' \in [Runners -> Outcome] /\ snap' \in [Runners -> Snapshot]
    BY <2>1, LeaveType DEF Phases
  <2> QED
    BY <1>12, <2>2 DEF MarkNothing, RaiseDeleted, CommitRaises, RaiseDatabase, world
<1>13. ASSUME NEW r \in Runners, Commit(r) \/ CommitDelete(r) PROVE TypeOK'
  <2>1. /\ pc' \in [Runners -> Phases] /\ tx' \in [Runners -> Transaction]
        /\ out' \in [Runners -> Outcome] /\ snap' \in [Runners -> Snapshot]
    BY <1>13, LeaveType DEF Commit, CommitDelete, Phases
  <2>2. tx[r].old \in Row /\ tx[r].new \in Row
    BY DEF Transaction
  <2>3. CASE Commit(r)
    <3>1. ASSUME NEW t \in Schedules PROVE Flushed(rows[t], tx[r].old, tx[r].new) \in Row
      BY <2>2, FlushedRow
    <3>2. rows' = [rows EXCEPT ![tx[r].id] = Flushed(rows[tx[r].id], tx[r].old, tx[r].new)]
      BY <2>3 DEF Commit
    <3>3. rows' \in [Schedules -> Row]
      BY <3>1, <3>2
    <3> QED
      BY <2>1, <2>3, <3>3 DEF Commit, world
  <2>4. CASE CommitDelete(r)
    BY <2>1, <2>4, Defaults DEF CommitDelete, world
  <2> QED
    BY <1>13, <2>3, <2>4
<1>14. ASSUME NEW r \in Runners, Crash(r) PROVE TypeOK'
  <2>1. locks' \in [Schedules -> LockTables(Conns)]
    BY <1>14 DEF Crash, CloseLocks, LockTables
  <2> QED
    BY <1>14, <2>1, Defaults DEF Crash, Phases
<1>15. ASSUME NEW p \in Procs, ListDue(p) PROVE TypeOK'
  <2>1. {TakeSnapshot(s) : s \in {t \in Schedules : IsDue(t)}} \subseteq Snapshot
    BY SnapshotType
  <2> QED
    BY <1>15, <2>1 DEF ListDue, world, Runners, Phases
<1>16. ASSUME NEW p \in Procs, EndCycle(p) PROVE TypeOK'
  BY <1>16 DEF EndCycle, world, Runners, Phases
<1>17. ASSUME NEW p \in Procs, NEW x \in due[p], NEW c \in ConnsOf(p), TryLock(p, x, c)
       PROVE  TypeOK'
  <2>1. c \in Conns /\ x \in Snapshot
    BY ConnsOfProcess
  <2>2. locks' \in [Schedules -> LockTables(Conns)]
    BY <1>17, <2>1, LockTypes DEF TryLock
  <2>3. due' \in [Procs -> SUBSET Snapshot]
    BY <1>17 DEF TryLock
  <2>5. via' \in [Procs -> SUBSET Conns]
    BY <1>17, <2>1 DEF TryLock
  <2> QED
    BY <1>17, <2>1, <2>2, <2>3, <2>5 DEF TryLock, StartLocked, world, Runners, Phases
<1>18. ASSUME NEW p \in Procs, NEW c \in ConnsOf(p), Unlock(p, c) PROVE TypeOK'
  <2>1. c \in Conns
    BY ConnsOfProcess
  <2>2. locks' \in [Schedules -> LockTables(Conns)]
    BY <1>18, <2>1, LockTypes DEF Unlock
  <2> QED
    BY <1>18, <2>2, Defaults DEF Unlock, world, Runners, Phases
<1>19. ASSUME NEW p \in Procs, ListDueFails(p) PROVE TypeOK'
  BY <1>19 DEF ListDueFails, Runners, Phases
<1>20. ASSUME NEW p \in Procs, Restart(p) PROVE TypeOK'
  BY <1>20 DEF Restart, world, Runners, Phases
<1>21. ASSUME NEW p \in Procs, NEW x \in due[p], LockUnavailable(p, x) PROVE TypeOK'
  <2>1. x \in Snapshot
    OBVIOUS
  <2> QED
    BY <1>21, <2>1 DEF LockUnavailable, StartLocked, Runners, Phases
<1>22. ASSUME NEW c \in Conns, CloseConnection(c) PROVE TypeOK'
  <2>1. locks' \in [Schedules -> LockTables(Conns)]
    BY <1>22 DEF CloseConnection, CloseLocks, LockTables
  <2> QED
    BY <1>22, <2>1 DEF CloseConnection, world
<1>23. CASE UNCHANGED vars
  BY <1>23 DEF vars
<1> QED
  BY <1>1, <1>2, <1>4, <1>7, <1>8, <1>9, <1>10, <1>11, <1>12, <1>13,
     <1>14, <1>15, <1>16, <1>17, <1>18, <1>19, <1>20, <1>21, <1>22, <1>23
  DEF Next, User, Fault, Execute, Loop

-----------------------------------------------------------------------------
LEMMA CounterImplies == TypeOK /\ CounterInv => AutoPauseEarned
BY DEF CounterInv, Counted, RowOk, AutoPauseEarned

LEMMA CounterInit == Init => CounterInv
BY DEF Init, CounterInv, Counted, RowOk, DueOk, RunnerOk, HoldsSnapshot, TxOk, NoRow, Live

\* Steps that begin no transaction and record no run.
LEMMA TxFrame ==
    ASSUME CounterInv, failed' = failed,
           \A q \in Runners : pc'[q] = "commit" => pc[q] = "commit" /\ tx'[q] = tx[q]
    PROVE  \A q \in Runners : TxOk(q)'
BY DEF CounterInv, TxOk, WritesOk

\* A step that begins one.
LEMMA TxLoad ==
    ASSUME TypeOK, CounterInv, failed' = failed,
           NEW r \in Runners, NEW op \in Operations, NEW s \in Schedules, NEW new \in Row,
           Load(r, op, s, new), op = "resume" => r \in Requests,
           WritesOk([op |-> op, id |-> s, old |-> rows[s], new |-> new, late |-> FALSE],
                    failed[s])
    PROVE  \A q \in Runners : TxOk(q)'
<1> DEFINE t == [op |-> op, id |-> s, old |-> rows[s], new |-> new, late |-> FALSE]
<1>1. /\ tx'[r] = t /\ \A q \in Runners \ {r} : pc'[q] = pc[q] /\ tx'[q] = tx[q]
  BY LoadType
<1>2. t.id = s /\ t.op = op /\ WritesOk(t, failed[s])
  OBVIOUS
<1> HIDE DEF t
<1>3. TxOk(r)'
  BY <1>1, <1>2 DEF TxOk, WritesOk
<1>4. \A q \in Runners \ {r} : TxOk(q)'
  BY <1>1 DEF CounterInv, TxOk, WritesOk
<1> QED
  BY <1>3, <1>4

LEMMA TxStep ==
    TypeOK /\ CounterInv /\ [Next]_vars => \A q \in Runners : TxOk(q)'
<1> SUFFICES ASSUME TypeOK, CounterInv, [Next]_vars
             PROVE  \A q \in Runners : TxOk(q)'
  OBVIOUS
<1>0. /\ pc \in [Runners -> Phases] /\ tx \in [Runners -> Transaction] /\ now \in Nat
      /\ \A s \in Schedules : rows[s] \in Row /\ rows[s].cf <= failed[s] /\ failed[s] \in Nat
      /\ \A s \in Schedules :
            Live(s) => (rows[s].next = NoRun => failed[s] >= MaxFailures)
      /\ Procs \subseteq Runners /\ Requests \subseteq Runners
      /\ Procs \cap Requests = {}
  BY ConstantsAssumption DEF TypeOK, CounterInv, Counted, RowOk, Runners
<1>1. ASSUME NEW s \in Schedules, NEW r \in Requests, NEW cron \in Crons, Update(r, s, cron)
      PROVE  \A q \in Runners : TxOk(q)'
  <2> DEFINE new == [rows[s] EXCEPT !.cron = cron, !.next = compute_next_run(cron, now)]
  <2>0. compute_next_run(cron, now) \in Nat
    BY <1>0, NextRunLater
  <2>1. new \in Row /\ new.next # NoRun /\ new.cf = rows[s].cf /\ new.paused = rows[s].paused
    <3> HIDE DEF compute_next_run
    <3>1. compute_next_run(cron, now) \in Times /\ compute_next_run(cron, now) # NoRun
      BY <2>0 DEF Times, NoRun
    <3> QED
      BY <1>0, <3>1 DEF Row
  <2>2. Load(r, "update", s, new) /\ failed' = failed
    BY <1>1 DEF Update, Begin, UnchangedByUser
  <2>3. "update" \in Operations
    BY DEF Operations
  <2> HIDE DEF new
  <2>4. WritesOk([op |-> "update", id |-> s, old |-> rows[s], new |-> new, late |-> FALSE],
                 failed[s])
    BY <1>0, <2>1 DEF WritesOk
  <2> QED
    BY <1>0, <2>1, <2>2, <2>3, <2>4, TxLoad
<1>2. ASSUME NEW s \in Schedules, NEW r \in Requests, Pause(r, s)
      PROVE  \A q \in Runners : TxOk(q)'
  <2> DEFINE new == [rows[s] EXCEPT !.paused = TRUE]
  <2>1. new \in Row /\ new.next = rows[s].next /\ new.cf = rows[s].cf /\ new.paused = TRUE
    BY <1>0, PausedRow
  <2>2. Load(r, "pause", s, new) /\ failed' = failed /\ Live(s)
    BY <1>2 DEF Pause, Begin, Edit, UnchangedByUser
  <2>3. "pause" \in Operations
    BY DEF Operations
  <2> HIDE DEF new
  <2>4. WritesOk([op |-> "pause", id |-> s, old |-> rows[s], new |-> new, late |-> FALSE],
                 failed[s])
    BY <1>0, <2>1, <2>2 DEF WritesOk
  <2> QED
    BY <1>0, <2>1, <2>2, <2>3, <2>4, TxLoad
<1>3. ASSUME NEW s \in Schedules, NEW r \in Requests, Resume(r, s)
      PROVE  \A q \in Runners : TxOk(q)'
  <2> DEFINE new == [rows[s] EXCEPT !.paused = FALSE,
                                    !.next = compute_next_run(rows[s].cron, now)]
  <2>0. compute_next_run(rows[s].cron, now) \in Nat
    BY <1>0, NextRunLater DEF Row
  <2>1. new \in Row /\ new.next # NoRun /\ new.cf = rows[s].cf
    BY <1>0, <2>0, ResumedRow
  <2>2. Load(r, "resume", s, new) /\ failed' = failed
    BY <1>3 DEF Resume, Begin, UnchangedByUser
  <2>3. "resume" \in Operations
    BY DEF Operations
  <2> HIDE DEF new
  <2>4. WritesOk([op |-> "resume", id |-> s, old |-> rows[s], new |-> new, late |-> FALSE],
                 failed[s])
    BY <1>0, <2>1 DEF WritesOk
  <2> QED
    BY <1>0, <2>1, <2>2, <2>3, <2>4, TxLoad
<1>4. ASSUME NEW s \in Schedules, NEW r \in Requests, Delete(r, s)
      PROVE  \A q \in Runners : TxOk(q)'
  <2>1. Load(r, "delete", s, NoRow("gone")) /\ failed' = failed
    BY <1>4 DEF Delete, Begin, UnchangedByUser
  <2>2. "delete" \in Operations
    BY DEF Operations
  <2>3. WritesOk([op |-> "delete", id |-> s, old |-> rows[s], new |-> NoRow("gone"),
                  late |-> FALSE], failed[s])
    BY DEF WritesOk
  <2> QED
    BY <1>0, <2>1, <2>2, <2>3, Defaults, TxLoad
<1>5. ASSUME NEW r \in Runners, MarkRun(r) PROVE \A q \in Runners : TxOk(q)'
  <2>0. pc[r] = "mark"
    BY <1>5 DEF MarkRun
  <2> PICK s \in Schedules : s = snap[r].id
    BY <2>0 DEF CounterInv, Counted, RunnerOk, HoldsSnapshot
  <2>1. /\ out[r].cf <= failed[s]
        /\ (out[r].next = NoRun => out[r].pause /\ out[r].cf >= MaxFailures)
        /\ out[r].next \in Times /\ out[r].cf \in Nat /\ out[r].pause \in BOOLEAN
    BY <2>0 DEF CounterInv, Counted, RunnerOk, TypeOK, Outcome
  <2> DEFINE paused == rows[s].paused \/ out[r].pause
             new == [rows[s] EXCEPT !.next = out[r].next, !.cf = out[r].cf, !.paused = paused]
  <2>2. rows[s] \in Row /\ rows[s].paused \in BOOLEAN /\ paused \in BOOLEAN
    BY <1>0, <2>1 DEF Row
  <2>3. Load(r, "mark", s, new) /\ failed' = failed
    BY <1>5 DEF MarkRun, world
  <2>4. (out[r].pause => paused) /\ (rows[s].paused => paused)
    OBVIOUS
  <2> HIDE DEF paused
  <2>5. new \in Row /\ new.next = out[r].next /\ new.cf = out[r].cf /\ new.paused = paused
    BY <2>1, <2>2 DEF Row
  <2>6. "mark" \in Operations
    BY DEF Operations
  <2> HIDE DEF new
  <2>7. out[r].next = NoRun => failed[s] >= MaxFailures
    BY <1>0, <2>1, ConstantsAssumption
  <2>8. WritesOk([op |-> "mark", id |-> s, old |-> rows[s], new |-> new, late |-> FALSE],
                 failed[s])
    BY <2>1, <2>4, <2>5, <2>7 DEF WritesOk
  <2> QED
    BY <1>0, <2>3, <2>5, <2>6, <2>8, TxLoad
<1>6. ASSUME NEW r \in Runners, RecordRun(r) PROVE \A q \in Runners : TxOk(q)'
  <2>1. \A s \in Schedules : failed[s] <= failed'[s] /\ failed'[s] \in Nat
    BY <1>0, <1>6 DEF RecordRun, TypeOK
  <2>2. ASSUME NEW q \in Runners, pc'[q] = "commit"
        PROVE  /\ pc[q] = "commit" /\ tx[q] \in Transaction
               /\ tx'[q] = tx[q] \/ (tx[q].op = "delete" /\ tx'[q] = [tx[q] EXCEPT !.late = TRUE])
    BY <1>0, <1>6, <2>2 DEF RecordRun
  <2>3. ASSUME NEW q \in Runners, pc'[q] = "commit"
        PROVE  tx'[q].op = tx[q].op /\ tx'[q].id = tx[q].id
               /\ tx'[q].new = tx[q].new /\ tx'[q].old = tx[q].old
    BY <2>2, <2>3 DEF Transaction
  <2>4. ASSUME NEW q \in Runners, pc'[q] = "commit"
        PROVE  /\ tx[q].id \in Schedules /\ WritesOk(tx[q], failed[tx[q].id])
               /\ tx[q].op = "resume" => q \in Requests
    BY <2>2, <2>4 DEF CounterInv, TxOk
  <2>5. ASSUME NEW q \in Runners, pc'[q] = "commit" PROVE tx[q].new.cf \in Nat
    BY <2>2, <2>5 DEF Transaction, Row
  <2>6. ASSUME NEW q \in Runners, pc'[q] = "commit"
        PROVE  WritesOk(tx'[q], failed'[tx[q].id])
    BY <1>0, <2>1, <2>3, <2>4, <2>5, <2>6, ConstantsAssumption DEF WritesOk
  <2> QED
    BY <2>3, <2>4, <2>6 DEF TxOk, WritesOk
<1>7. ASSUME NEW s \in Schedules,
             \/ \E cron \in Crons, paused \in BOOLEAN : Create(s, cron, paused)
             \/ \E r \in Requests : RunNow(r, s)
      PROVE  \A q \in Runners : TxOk(q)'
  BY <1>0, <1>7, TxFrame DEF Create, RunNow, UnchangedByUser
<1>8. ASSUME NEW r \in Runners,
             \/ \E ok \in BOOLEAN : FinishRun(r, ok)
             \/ TrimHistory(r) \/ MarkNothing(r) \/ RaiseDeleted(r) \/ CommitRaises(r)
             \/ Commit(r) \/ CommitDelete(r) \/ RaiseDatabase(r) \/ Crash(r)
      PROVE  \A q \in Runners : TxOk(q)'
  <2>1. /\ failed' = failed /\ \E x \in Phases \ {"commit"} : pc' = [pc EXCEPT ![r] = x]
        /\ tx' = tx \/ tx' = [tx EXCEPT ![r] = NoTransaction]
    BY <1>8 DEF FinishRun, TrimHistory, MarkNothing, RaiseDeleted, CommitRaises, Commit,
                CommitDelete, RaiseDatabase, Crash, Leave, Phases
  <2> QED
    BY <1>0, <2>1, TxFrame
<1>9. ASSUME NEW p \in Procs,
             \/ ListDue(p) \/ EndCycle(p) \/ ListDueFails(p) \/ Restart(p)
             \/ \E x \in due[p] : LockUnavailable(p, x) \/ \E c \in ConnsOf(p) : TryLock(p, x, c)
             \/ \E c \in ConnsOf(p) : Unlock(p, c)
      PROVE  \A q \in Runners : TxOk(q)'
  <2>1. /\ failed' = failed /\ tx' = tx
        /\ pc' = pc \/ \E x \in Phases \ {"commit"} : pc' = [pc EXCEPT ![p] = x]
    BY <1>9 DEF ListDue, EndCycle, ListDueFails, Restart, LockUnavailable, TryLock, StartLocked,
                Unlock, Phases
  <2> QED
    BY <1>0, <2>1, TxFrame
<1>10. CASE Tick \/ UNCHANGED vars \/ \E c \in Conns : CloseConnection(c)
  BY <1>10, TxFrame DEF Tick, vars, CloseConnection
<1> QED
  BY <1>1, <1>2, <1>3, <1>4, <1>5, <1>6, <1>7, <1>8, <1>9, <1>10
  DEF Next, User, Fault, Execute, Loop

LEMMA CounterStep == TypeOK /\ CounterInv /\ [Next]_vars => CounterInv'
<1> SUFFICES ASSUME TypeOK, CounterInv, [Next]_vars PROVE Counted'
  BY TxStep DEF CounterInv
<1> USE DEF CounterInv, Counted
<1>0. /\ \A r \in Runners : snap[r] \in Snapshot /\ out[r] \in Outcome
      /\ \A s \in Schedules : rows[s] \in Row /\ failed[s] \in Nat
      /\ now \in Nat /\ rows \in [Schedules -> Row] /\ failed \in [Schedules -> Nat]
      /\ pc \in [Runners -> Phases] /\ snap \in [Runners -> Snapshot]
      /\ out \in [Runners -> Outcome] /\ due \in [Procs -> SUBSET Snapshot]
  BY DEF TypeOK
<1>1. CASE Tick
  BY <1>1 DEF Tick, RowOk, DueOk, RunnerOk, HoldsSnapshot, Live
<1>2. ASSUME NEW s \in Schedules, NEW cron \in Crons, NEW paused \in BOOLEAN,
             Create(s, cron, paused)
      PROVE  Counted'
  <2>1. compute_next_run(cron, now) # NoRun
    BY <1>0, NextRunLater DEF NoRun
  <2>2. \A t \in Schedules : RowOk(t)'
    BY <1>0, <1>2, <2>1 DEF Create, UnchangedByUser, RowOk, Live
  <2> QED
    BY <1>2, <2>2 DEF Create, UnchangedByUser, DueOk, RunnerOk, HoldsSnapshot
<1>3. ASSUME NEW s \in Schedules, NEW r \in Requests,
             \/ \E cron \in Crons : Update(r, s, cron)
             \/ Pause(r, s) \/ Resume(r, s) \/ Delete(r, s)
      PROVE  Counted'
  <2>1. /\ pc' = [pc EXCEPT ![r] = "commit"] /\ UNCHANGED <<rows, failed, due, snap, out>>
        /\ r \in Runners /\ r \notin Procs
    BY <1>3, ConstantsAssumption DEF Update, Pause, Resume, Delete, Begin, Load, UnchangedByUser, Runners
  <2>2. \A q \in Runners : RunnerOk(q)'
    BY <1>0, <2>1 DEF RunnerOk, HoldsSnapshot
  <2> QED
    BY <2>1, <2>2 DEF RowOk, DueOk, Live
<1>7. ASSUME NEW s \in Schedules, NEW r \in Requests, RunNow(r, s) PROVE Counted'
  <2>1. \A q \in Runners : RunnerOk(q)'
    BY <1>0, <1>7 DEF RunNow, UnchangedByUser, RunnerOk, HoldsSnapshot, RowOk,
                      TakeSnapshot, Runners
  <2> QED
    BY <1>7, <2>1 DEF RunNow, UnchangedByUser, DueOk, RowOk, Live
<1>8. ASSUME NEW r \in Runners, NEW ok \in BOOLEAN, FinishRun(r, ok) PROVE Counted'
  <2> DEFINE cf    == IF ok THEN 0 ELSE snap[r].cf + 1
             pause == cf >= MaxFailures
             next  == IF pause THEN NoRun ELSE compute_next_run(snap[r].cron, now)
  <2>1. /\ out' = [out EXCEPT ![r] = [ok |-> ok, cf |-> cf, pause |-> pause, next |-> next]]
        /\ pc' = [pc EXCEPT ![r] = "record"] /\ pc[r] = "run"
        /\ UNCHANGED <<snap, rows, failed, due>>
    BY <1>8 DEF FinishRun
  <2>2. snap[r].id \in Schedules /\ snap[r].cf <= failed[snap[r].id]
    BY <2>1 DEF RunnerOk, HoldsSnapshot
  <2>3. cf <= failed[snap[r].id] + (IF ok THEN 0 ELSE 1)
    BY <1>0, <2>2 DEF Snapshot
  <2>4. next = NoRun => pause /\ cf >= MaxFailures
    BY <1>0, NextRunLater DEF NoRun, Snapshot
  <2> HIDE DEF cf, pause, next
  <2>5. RunnerOk(r)'
    BY <1>0, <2>1, <2>2, <2>3, <2>4 DEF RunnerOk, HoldsSnapshot
  <2>6. \A q \in Runners \ {r} : RunnerOk(q)'
    BY <1>0, <2>1 DEF RunnerOk, HoldsSnapshot
  <2> QED
    BY <2>1, <2>5, <2>6 DEF DueOk, RowOk, Live
<1>9. ASSUME NEW r \in Runners, RecordRun(r) PROVE Counted'
  <2> DEFINE s == snap[r].id
             count == IF out[r].ok THEN failed[s] ELSE failed[s] + 1
  <2>1. /\ pc[r] = "record" /\ pc' = [pc EXCEPT ![r] = "trim"]
        /\ failed' = [failed EXCEPT ![s] = count]
        /\ UNCHANGED <<rows, due, snap, out>>
    BY <1>9 DEF RecordRun
  <2>2. s \in Schedules /\ out[r].cf <= failed[s] + (IF out[r].ok THEN 0 ELSE 1)
    BY <2>1 DEF RunnerOk, HoldsSnapshot
  <2>3. failed'[s] = count /\ out[r].cf <= count
    BY <1>0, <2>1, <2>2
  <2>4. \A t \in Schedules : failed[t] <= failed'[t] /\ failed'[t] \in Nat
    BY <1>0, <2>1, <2>2
  <2> HIDE DEF count, s
  <2>5. RunnerOk(r)'
    BY <1>0, <2>1, <2>2, <2>3 DEF RunnerOk, HoldsSnapshot, s
  <2>6. \A q \in Runners \ {r} : RunnerOk(q)'
    BY <1>0, <2>1, <2>4 DEF RunnerOk, HoldsSnapshot, Snapshot, Outcome
  <2>7. \A p \in Procs : DueOk(p)'
    BY <1>0, <2>1, <2>4 DEF DueOk, Snapshot
  <2>8. \A t \in Schedules : RowOk(t)'
    BY <1>0, <2>1, <2>4, ConstantsAssumption DEF RowOk, Live, Row
  <2> QED
    BY <2>5, <2>6, <2>7, <2>8
<1>10. ASSUME NEW r \in Runners, TrimHistory(r) PROVE Counted'
  BY <1>0, <1>10 DEF TrimHistory, RowOk, DueOk, RunnerOk, HoldsSnapshot, Live
<1>11. ASSUME NEW r \in Runners, MarkRun(r) PROVE Counted'
  <2>1. /\ pc' = [pc EXCEPT ![r] = "commit"] /\ pc[r] = "mark"
        /\ UNCHANGED <<rows, failed, due, snap, out>>
    BY <1>11 DEF MarkRun, Load, world
  <2>2. \A q \in Runners : RunnerOk(q)'
    BY <1>0, <2>1 DEF RunnerOk, HoldsSnapshot
  <2> QED
    BY <2>1, <2>2 DEF RowOk, DueOk, Live
<1>12. ASSUME NEW r \in Runners,
              MarkNothing(r) \/ RaiseDeleted(r) \/ CommitRaises(r) \/ RaiseDatabase(r)
       PROVE  Counted'
  <2>1. /\ Leave(r, "unlock") \/ Leave(r, "unwind")
        /\ pc[r] \in {"record", "trim", "mark", "commit"} /\ UNCHANGED <<rows, failed, due>>
    BY <1>12 DEF MarkNothing, RaiseDeleted, CommitRaises, RaiseDatabase
  <2>2. \A q \in Runners : RunnerOk(q)'
    BY <1>0, <2>1 DEF Leave, RunnerOk, HoldsSnapshot
  <2> QED
    BY <2>1, <2>2 DEF DueOk, RowOk, Live
<1>13. ASSUME NEW r \in Runners, Commit(r) \/ CommitDelete(r) PROVE Counted'
  <2>1. /\ Leave(r, "unlock") /\ pc[r] = "commit" /\ UNCHANGED <<failed, due>>
    BY <1>13 DEF Commit, CommitDelete
  <2>2. \A q \in Runners : RunnerOk(q)'
    BY <1>0, <2>1 DEF Leave, RunnerOk, HoldsSnapshot
  <2> PICK s \in Schedules : s = tx[r].id
    BY <2>1 DEF TxOk
  <2>3. \A t \in Schedules \ {s} : rows'[t] = rows[t]
    BY <1>0, <1>13 DEF Commit, CommitDelete
  <2>4. RowOk(s)'
    <3>1. CASE Commit(r)
      <4> DEFINE t == tx[r]
      <4>1. WritesOk(t, failed[s]) /\ t.op # "delete" /\ Live(s)
        BY <2>1, <3>1 DEF TxOk, Commit
      <4>2. t.old \in Row /\ t.new \in Row
        BY DEF TypeOK, Transaction
      <4>3. rows'[s] = Flushed(rows[s], t.old, t.new)
        BY <1>0, <3>1 DEF Commit
      <4>4. /\ rows'[s].cf \in {t.new.cf, rows[s].cf}
            /\ rows'[s].next \in {t.new.next, rows[s].next}
        BY <1>0, <4>2, <4>3, FlushedRow DEF Written
      <4> HIDE DEF t
      <4>5. /\ t.new.cf <= failed[s] /\ (t.new.next = NoRun => failed[s] >= MaxFailures)
            /\ rows[s].cf <= failed[s] /\ (rows[s].next = NoRun => failed[s] >= MaxFailures)
        BY <4>1 DEF WritesOk, RowOk
      <4> QED
        BY <2>1, <4>4, <4>5 DEF RowOk
    <3>2. CASE CommitDelete(r)
      BY <1>0, <2>1, <3>2 DEF CommitDelete, RowOk, NoRow, Live
    <3> QED
      BY <1>13, <3>1, <3>2
  <2>5. \A t \in Schedules : RowOk(t)'
    BY <2>1, <2>3, <2>4 DEF RowOk, Live
  <2> QED
    BY <2>1, <2>2, <2>5 DEF DueOk
<1>14. ASSUME NEW r \in Runners, Crash(r) PROVE Counted'
  <2>1. \A q \in Runners : RunnerOk(q)'
    BY <1>0, <1>14 DEF Crash, RunnerOk, HoldsSnapshot
  <2>2. \A p \in Procs : DueOk(p)'
    BY <1>14 DEF Crash, DueOk
  <2> QED
    BY <1>14, <2>1, <2>2 DEF Crash, RowOk, Live
<1>15. ASSUME NEW p \in Procs, ListDue(p) PROVE Counted'
  <2>1. due'[p] = {TakeSnapshot(s) : s \in {t \in Schedules : IsDue(t)}}
    BY <1>0, <1>15 DEF ListDue
  <2>2. DueOk(p)'
    BY <1>0, <1>15, <2>1 DEF ListDue, DueOk, TakeSnapshot, RowOk
  <2>3. \A q \in Procs \ {p} : DueOk(q)'
    BY <1>0, <1>15 DEF ListDue, DueOk
  <2>4. \A q \in Runners : RunnerOk(q)'
    BY <1>0, <1>15 DEF ListDue, RunnerOk, HoldsSnapshot
  <2> QED
    BY <1>15, <2>2, <2>3, <2>4 DEF ListDue, RowOk, Live
<1>16. ASSUME NEW p \in Procs, EndCycle(p) PROVE Counted'
  BY <1>0, <1>16 DEF EndCycle, RowOk, DueOk, RunnerOk, HoldsSnapshot, Live
<1>17. ASSUME NEW p \in Procs, NEW x \in due[p], NEW c \in ConnsOf(p), TryLock(p, x, c)
       PROVE  Counted'
  <2>1. \A q \in Runners : RunnerOk(q)'
    <3>1. x.id \in Schedules /\ x.cf <= failed[x.id]
      BY DEF DueOk
    <3>2. p \in Runners
      BY DEF Runners
    <3> QED
      BY <1>0, <1>17, <3>1, <3>2 DEF TryLock, StartLocked, RunnerOk, HoldsSnapshot
  <2>2. \A q \in Procs : DueOk(q)'
    BY <1>0, <1>17 DEF TryLock, DueOk
  <2> QED
    BY <1>17, <2>1, <2>2 DEF TryLock, RowOk, Live
<1>18. ASSUME NEW p \in Procs, NEW c \in ConnsOf(p), Unlock(p, c) PROVE Counted'
  <2>1. \A q \in Runners : RunnerOk(q)'
    BY <1>0, <1>18 DEF Unlock, RunnerOk, HoldsSnapshot
  <2>2. \A q \in Procs : DueOk(q)'
    BY <1>0, <1>18 DEF Unlock, DueOk
  <2> QED
    BY <1>18, <2>1, <2>2 DEF Unlock, RowOk, Live
<1>19. ASSUME NEW p \in Procs, ListDueFails(p) PROVE Counted'
  BY <1>0, <1>19 DEF ListDueFails, RowOk, DueOk, RunnerOk, HoldsSnapshot, Live
<1>20. ASSUME NEW p \in Procs, Restart(p) PROVE Counted'
  BY <1>0, <1>20 DEF Restart, RowOk, DueOk, RunnerOk, HoldsSnapshot, Live
<1>21. ASSUME NEW p \in Procs, NEW x \in due[p], LockUnavailable(p, x) PROVE Counted'
  <2>1. \A q \in Runners : RunnerOk(q)'
    <3>1. x.id \in Schedules /\ x.cf <= failed[x.id]
      BY DEF DueOk
    <3>2. p \in Runners
      BY DEF Runners
    <3> QED
      BY <1>0, <1>21, <3>1, <3>2 DEF LockUnavailable, StartLocked, RunnerOk, HoldsSnapshot
  <2>2. \A q \in Procs : DueOk(q)'
    BY <1>0, <1>21 DEF LockUnavailable, DueOk
  <2> QED
    BY <1>21, <2>1, <2>2 DEF LockUnavailable, RowOk, Live
<1>22. ASSUME NEW c \in Conns, CloseConnection(c) PROVE Counted'
  BY <1>22 DEF CloseConnection, RowOk, DueOk, RunnerOk, HoldsSnapshot, Live
<1>23. CASE UNCHANGED vars
  BY <1>23 DEF vars, RowOk, DueOk, RunnerOk, HoldsSnapshot, Live
<1> QED
  BY <1>1, <1>2, <1>3, <1>7, <1>8, <1>9, <1>10, <1>11, <1>12, <1>13,
     <1>14, <1>15, <1>16, <1>17, <1>18, <1>19, <1>20, <1>21, <1>22, <1>23
  DEF Next, User, Fault, Execute, Loop

\* Every reachable state is well typed, whatever the constants.
THEOREM TypeCorrect == Spec => []TypeOK
<1>1. Spec => [](TypeOK /\ CounterInv)
  BY TypeInit, TypeStep, CounterInit, CounterStep, PTL DEF Spec
<1> QED
  BY <1>1, PTL

\* Auto-pause is always earned by enough recorded failures, in any deployment.
THEOREM AutoPauseEarnedHolds == Spec => []AutoPauseEarned
<1>1. Spec => [](TypeOK /\ CounterInv)
  BY TypeInit, TypeStep, CounterInit, CounterStep, PTL DEF Spec
<1> QED
  BY <1>1, CounterImplies, PTL

-----------------------------------------------------------------------------
(* Mutual exclusion, as far as the advisory lock provides it: a loop whose     *)
(* connection is still open holds the key on it, and one connection at most    *)
(* holds a key.                                                                *)

HoldsKey(p) ==
    via[p] # {} => /\ HoldsSnapshot(p)
                   /\ \E c \in ConnsOf(p) : via[p] = {c} /\ locks[snap[p].id][c] > 0

OneHolder(s) == \A c, d \in Conns : locks[s][c] > 0 /\ locks[s][d] > 0 => c = d

LockInv == /\ \A p \in Procs : HoldsKey(p)
           /\ \A s \in Schedules : OneHolder(s)

LEMMA LockImplies == TypeOK /\ CounterInv /\ LockInv => GuardedRunsExclusive
<1> SUFFICES ASSUME TypeOK, CounterInv, LockInv, NEW s \in Schedules,
                    NEW p \in Procs, NEW q \in Procs, p # q,
                    ExecutesIn(p, s), ExecutesIn(q, s), via[p] # {}, via[q] # {}
             PROVE  FALSE
  BY DEF GuardedRunsExclusive
<1>1. PICK c \in ConnsOf(p) : locks[s][c] > 0
  BY DEF LockInv, HoldsKey, ExecutesIn
<1>2. PICK d \in ConnsOf(q) : locks[s][d] > 0
  BY DEF LockInv, HoldsKey, ExecutesIn
<1>3. c = d
  BY <1>1, <1>2, ConnsOfProcess DEF LockInv, OneHolder
<1> QED
  BY <1>3 DEF ConnsOf

LEMMA LockInit == Init => LockInv
BY DEF Init, LockInv, HoldsKey, OneHolder, NoLock

\* A step that leaves the locks alone and every loop that holds one where it is.
LEMMA LockFrame ==
    ASSUME LockInv, UNCHANGED <<locks, via>>,
           \A p \in Procs : via[p] # {} /\ HoldsSnapshot(p) =>
              HoldsSnapshot(p)' /\ snap'[p].id = snap[p].id
    PROVE  LockInv'
BY DEF LockInv, HoldsKey, OneHolder

LEMMA LockStep == TypeOK /\ CounterInv /\ LockInv /\ [Next]_vars => LockInv'
<1> SUFFICES ASSUME TypeOK, CounterInv, LockInv, [Next]_vars PROVE LockInv'
  OBVIOUS
<1>0. /\ pc \in [Runners -> Phases] /\ snap \in [Runners -> Snapshot]
      /\ locks \in [Schedules -> LockTables(Conns)] /\ via \in [Procs -> SUBSET Conns]
      /\ due \in [Procs -> SUBSET Snapshot]
      /\ Procs \cap Requests = {} /\ Procs \subseteq Runners /\ Requests \subseteq Runners
      /\ \A q \in Procs : via[q] # {} => HoldsSnapshot(q)
      /\ \A r \in Runners : HoldsSnapshot(r) => snap[r].id \in Schedules
  BY ConstantsAssumption DEF TypeOK, Runners, LockInv, HoldsKey, CounterInv, Counted, RunnerOk
<1>1. CASE Tick \/ UNCHANGED vars
  BY <1>1, LockFrame DEF Tick, vars, HoldsSnapshot
<1>2. ASSUME NEW s \in Schedules,
             \E cron \in Crons, paused \in BOOLEAN : Create(s, cron, paused)
      PROVE  LockInv'
  BY <1>2, LockFrame DEF Create, UnchangedByUser, HoldsSnapshot
<1>3. ASSUME NEW s \in Schedules, NEW r \in Requests,
             \/ \E cron \in Crons : Update(r, s, cron)
             \/ Pause(r, s) \/ Resume(r, s) \/ Delete(r, s) \/ RunNow(r, s)
      PROVE  LockInv'
  <2>1. /\ UNCHANGED <<locks, via>> /\ \E x \in {"commit", "run"} : pc' = [pc EXCEPT ![r] = x]
        /\ \A p \in Procs : snap'[p] = snap[p]
    BY <1>0, <1>3 DEF Update, Pause, Resume, Delete, RunNow, Begin, Load, UnchangedByUser
  <2>2. \A p \in Procs : pc'[p] = pc[p]
    BY <1>0, <2>1
  <2> QED
    BY <2>1, <2>2, LockFrame DEF HoldsSnapshot
<1>4. ASSUME NEW r \in Runners, NEW ok \in BOOLEAN,
             FinishRun(r, ok) \/ RecordRun(r) \/ TrimHistory(r) \/ MarkRun(r)
      PROVE  LockInv'
  <2>1. /\ UNCHANGED <<locks, via, snap>>
        /\ \E x \in {"record", "trim", "mark", "commit"} : pc' = [pc EXCEPT ![r] = x]
    BY <1>4 DEF FinishRun, RecordRun, TrimHistory, MarkRun, Load
  <2> QED
    BY <1>0, <2>1, LockFrame DEF HoldsSnapshot
<1>5. ASSUME NEW r \in Runners,
             \/ Commit(r) \/ CommitDelete(r) \/ CommitRaises(r) \/ MarkNothing(r)
             \/ RaiseDeleted(r) \/ RaiseDatabase(r)
      PROVE  LockInv'
  <2>1. /\ UNCHANGED <<locks, via>>
        /\ Leave(r, "unlock") \/ Leave(r, "unwind")
    BY <1>5 DEF Commit, CommitDelete, CommitRaises, MarkNothing, RaiseDeleted, RaiseDatabase
  <2>2. \A p \in Procs : HoldsSnapshot(p) => HoldsSnapshot(p)' /\ snap'[p].id = snap[p].id
    BY <1>0, <2>1 DEF Leave, HoldsSnapshot
  <2> QED
    BY <2>1, <2>2, LockFrame
<1>6. ASSUME NEW p \in Procs, ListDue(p) \/ EndCycle(p) \/ ListDueFails(p) \/ Restart(p)
      PROVE  LockInv'
  <2>1. /\ UNCHANGED <<locks, via, snap>> /\ ~HoldsSnapshot(p)
        /\ \E x \in Phases : pc' = [pc EXCEPT ![p] = x]
    BY <1>6 DEF ListDue, EndCycle, ListDueFails, Restart, HoldsSnapshot, Phases
  <2>2. \A q \in Procs : HoldsSnapshot(q) => HoldsSnapshot(q)'
    BY <1>0, <2>1 DEF HoldsSnapshot
  <2> QED
    BY <2>1, <2>2, LockFrame
<1>7. ASSUME NEW p \in Procs, NEW x \in due[p], LockUnavailable(p, x) PROVE LockInv'
  <2>1. via[p] = {}
    BY <1>0, <1>7 DEF LockUnavailable, HoldsSnapshot
  <2> QED
    BY <1>0, <1>7, <2>1, LockFrame DEF LockUnavailable, StartLocked, HoldsSnapshot
<1>8. ASSUME NEW p \in Procs, NEW x \in due[p], NEW c \in ConnsOf(p), TryLock(p, x, c)
      PROVE  LockInv'
  <2>1. CASE ~Grantable(locks[x.id], c)
    BY <1>0, <1>8, <2>1, LockFrame DEF TryLock, HoldsSnapshot
  <2>2. CASE Grantable(locks[x.id], c)
    <3>0. c \in Conns /\ x.id \in Schedules
      BY ConnsOfProcess DEF CounterInv, Counted, DueOk
    <3>1. /\ locks' = [locks EXCEPT ![x.id] = Locked(@, c)]
          /\ via' = [via EXCEPT ![p] = {c}]
          /\ pc' = [pc EXCEPT ![p] = "run"] /\ snap' = [snap EXCEPT ![p] = x]
      BY <1>8, <2>2 DEF TryLock, StartLocked
    <3>2. /\ \A d \in Conns \ {c} : locks[x.id][d] = 0 /\ locks'[x.id][d] = 0
          /\ locks'[x.id][c] > 0
          /\ \A s \in Schedules \ {x.id} : locks'[s] = locks[s]
      BY <1>0, <2>2, <3>0, <3>1 DEF Grantable, Locked, LockTables
    <3>3. \A s \in Schedules : OneHolder(s)'
      BY <3>0, <3>2 DEF OneHolder, LockInv
    <3>4. HoldsKey(p)'
      BY <1>0, <3>0, <3>1, <3>2 DEF HoldsKey, HoldsSnapshot
    <3>5. ASSUME NEW q \in Procs, q # p PROVE HoldsKey(q)'
      <4>1. /\ via'[q] = via[q] /\ snap'[q] = snap[q] /\ pc'[q] = pc[q]
        BY <1>0, <3>1, <3>5
      <4>2. \A d \in ConnsOf(q) : d \in Conns /\ d # c
        BY <3>5, ConnsOfProcess DEF ConnsOf
      <4>3. \A s \in Schedules, d \in ConnsOf(q) : locks[s][d] > 0 => locks'[s][d] > 0
        BY <3>2, <4>2
      <4> QED
        BY <1>0, <4>1, <4>3 DEF HoldsKey, HoldsSnapshot, LockInv
    <3> QED
      BY <3>3, <3>4, <3>5 DEF LockInv
  <2> QED
    BY <2>1, <2>2
<1>9. ASSUME NEW p \in Procs, NEW c \in ConnsOf(p), Unlock(p, c) PROVE LockInv'
  <2>0. c \in Conns /\ snap[p].id \in Schedules
    BY <1>0, <1>9, ConnsOfProcess DEF Unlock, HoldsSnapshot
  <2>1. \A s \in Schedules, d \in Conns :
          /\ locks'[s][d] > 0 => locks[s][d] > 0
          /\ d # c => locks'[s][d] = locks[s][d]
    BY <1>0, <1>9, <2>0 DEF Unlock, Unlocked, LockTables
  <2>2. \A s \in Schedules : OneHolder(s)'
    BY <2>1 DEF OneHolder, LockInv
  <2>3. HoldsKey(p)'
    BY <1>0, <1>9 DEF Unlock, HoldsKey
  <2>4. ASSUME NEW q \in Procs, q # p PROVE HoldsKey(q)'
    <3>1. via'[q] = via[q] /\ snap'[q] = snap[q] /\ pc'[q] = pc[q]
      BY <1>0, <1>9, <2>4 DEF Unlock
    <3>2. \A d \in ConnsOf(q) : d \in Conns /\ d # c
      BY <2>4, ConnsOfProcess DEF ConnsOf
    <3> QED
      BY <1>0, <2>1, <3>1, <3>2 DEF HoldsKey, HoldsSnapshot, LockInv
  <2> QED
    BY <2>2, <2>3, <2>4 DEF LockInv
<1>10. ASSUME NEW c \in Conns, CloseConnection(c) PROVE LockInv'
  <2>1. \A s \in Schedules, d \in Conns :
          locks'[s][d] = IF d = c THEN 0 ELSE locks[s][d]
    BY <1>10 DEF CloseConnection, CloseLocks
  <2>2. \A s \in Schedules : OneHolder(s)'
    BY <2>1 DEF OneHolder, LockInv
  <2>3. ASSUME NEW q \in Procs PROVE HoldsKey(q)'
    <3>1. via'[q] = via[q] \ {c} /\ snap'[q] = snap[q] /\ pc'[q] = pc[q]
      BY <1>10 DEF CloseConnection
    <3> QED
      BY <1>0, <2>1, <3>1, ConnsOfProcess DEF HoldsKey, HoldsSnapshot, LockInv
  <2> QED
    BY <2>2, <2>3 DEF LockInv
<1>11. ASSUME NEW r \in Runners, Crash(r) PROVE LockInv'
  <2>1. \A s \in Schedules, d \in Conns :
          locks'[s][d] = IF d[1] = r THEN 0 ELSE locks[s][d]
    BY <1>11 DEF Crash, CloseLocks
  <2>2. \A s \in Schedules : OneHolder(s)'
    BY <2>1 DEF OneHolder, LockInv
  <2>3. ASSUME NEW q \in Procs PROVE HoldsKey(q)'
    <3>1. CASE q = r
      BY <1>11, <3>1 DEF Crash, HoldsKey
    <3>2. CASE q # r
      <4>1. via'[q] = via[q] /\ snap'[q] = snap[q] /\ pc'[q] = pc[q]
        BY <1>0, <1>11, <3>2 DEF Crash
      <4>2. \A d \in ConnsOf(q) : d \in Conns /\ d[1] # r
        BY <3>2, ConnsOfProcess DEF ConnsOf
      <4> QED
        BY <1>0, <2>1, <4>1, <4>2 DEF HoldsKey, HoldsSnapshot, LockInv
    <3> QED
      BY <3>1, <3>2
  <2> QED
    BY <2>2, <2>3 DEF LockInv
<1>12. CASE User
  BY <1>2, <1>3, <1>12 DEF User
<1>13. ASSUME NEW r \in Runners, Execute(r) PROVE LockInv'
  BY <1>4, <1>5, <1>13 DEF Execute
<1>14. CASE Fault
  BY <1>0, <1>5, <1>6, <1>7, <1>11, <1>14 DEF Fault
<1>15. ASSUME NEW p \in Procs, Loop(p) PROVE LockInv'
  BY <1>6, <1>8, <1>9, <1>15 DEF Loop
<1> QED
  BY <1>1, <1>10, <1>12, <1>13, <1>14, <1>15 DEF Next

\* Overlapping executions of a schedule need a lost lock, in any deployment.
THEOREM GuardedRunsExclusiveHolds == Spec => []GuardedRunsExclusive
<1>1. Spec => [](TypeOK /\ CounterInv /\ LockInv)
  BY TypeInit, TypeStep, CounterInit, CounterStep, LockInit, LockStep, PTL DEF Spec
<1> QED
  BY <1>1, LockImplies, PTL

-----------------------------------------------------------------------------
(* What the steps that write a row do to it: a pause is ended by the user      *)
(* only, and a next run withdrawn from an active schedule takes two            *)
(* transactions that cross.                                                    *)

\* The only steps that change a schedule that exists and leave it there.
LEMMA RowWritten ==
    ASSUME TypeOK, CounterInv, [Next]_vars, NEW s \in Schedules,
           Live(s), Live(s)', rows'[s] # rows[s]
    PROVE  \E r \in Runners :
              /\ Commit(r) /\ tx[r].id = s /\ tx[r].op # "delete"
              /\ rows'[s] = Flushed(rows[s], tx[r].old, tx[r].new)
<1>0. rows \in [Schedules -> Row] /\ rows' # rows
  BY DEF TypeOK
<1>1. ASSUME NEW r \in Runners, Commit(r)
      PROVE  /\ tx[r].id = s /\ tx[r].op # "delete"
             /\ rows'[s] = Flushed(rows[s], tx[r].old, tx[r].new)
  <2>1. rows' = [rows EXCEPT ![tx[r].id] = Flushed(rows[tx[r].id], tx[r].old, tx[r].new)]
        /\ tx[r].op # "delete"
    BY <1>1 DEF Commit
  <2>2. tx[r].id = s
    BY <1>0, <2>1
  <2> QED
    BY <1>0, <2>1, <2>2
<1>2. ASSUME NEW r \in Runners, CommitDelete(r) PROVE FALSE
  <2>1. rows' = [rows EXCEPT ![tx[r].id] = NoRow("gone")]
    BY <1>2 DEF CommitDelete
  <2> QED
    BY <1>0, <2>1 DEF Live, NoRow
<1>3. ASSUME NEW t \in Schedules, NEW cron \in Crons, NEW paused \in BOOLEAN,
             Create(t, cron, paused)
      PROVE  FALSE
  BY <1>0, <1>3 DEF Create, Live
<1>4. CASE User
  BY <1>0, <1>3, <1>4 DEF User, Update, Pause, Resume, Delete, RunNow, Begin
<1>5. ASSUME NEW r \in Runners, Execute(r), ~Commit(r) PROVE FALSE
  BY <1>0, <1>2, <1>5 DEF Execute, FinishRun, RecordRun, TrimHistory, MarkRun, MarkNothing,
                          RaiseDeleted, CommitRaises
<1>6. CASE Fault
  BY <1>0, <1>6 DEF Fault, RaiseDatabase, Crash, ListDueFails, Restart, LockUnavailable
<1>7. ASSUME NEW p \in Procs, Loop(p) PROVE FALSE
  BY <1>0, <1>7 DEF Loop, ListDue, EndCycle, TryLock, Unlock
<1>8. CASE Tick \/ UNCHANGED vars \/ \E c \in Conns : CloseConnection(c)
  BY <1>0, <1>8 DEF Tick, vars, CloseConnection
<1> QED
  BY <1>1, <1>4, <1>5, <1>6, <1>7, <1>8 DEF Next

\* A commit on the row is that of a transaction that keeps WritesOk.
LEMMA RowFlushed ==
    ASSUME TypeOK, CounterInv, [Next]_vars, NEW s \in Schedules,
           Live(s), Live(s)', rows'[s] # rows[s]
    PROVE  \E r \in Runners :
              /\ Commit(r) /\ tx[r].id = s /\ tx[r].op # "delete"
              /\ WritesOk(tx[r], failed[s]) /\ (tx[r].op = "resume" => r \in Requests)
              /\ tx[r].old \in Row /\ tx[r].new \in Row /\ rows[s] \in Row
              /\ rows'[s].paused = Written(tx[r].old.paused, tx[r].new.paused, rows[s].paused)
              /\ rows'[s].next = Written(tx[r].old.next, tx[r].new.next, rows[s].next)
<1>1. PICK r \in Runners : /\ Commit(r) /\ tx[r].id = s /\ tx[r].op # "delete"
                           /\ rows'[s] = Flushed(rows[s], tx[r].old, tx[r].new)
  BY RowWritten
<1>2. WritesOk(tx[r], failed[s]) /\ (tx[r].op = "resume" => r \in Requests)
  BY <1>1 DEF Commit, CounterInv, TxOk
<1>3. tx[r].old \in Row /\ tx[r].new \in Row /\ rows[s] \in Row
  BY DEF TypeOK, Transaction
<1> QED
  BY <1>1, <1>2, <1>3, FlushedRow

LEMMA PauseStep ==
    ASSUME TypeOK, CounterInv, [Next]_vars, NEW s \in Schedules,
           Live(s), rows[s].paused, Live(s)', ~rows'[s].paused
    PROVE  \E r \in Requests : tx[r].id = s /\ tx[r].op = "resume" /\ Commit(r)
<1>1. PICK r \in Runners :
        /\ Commit(r) /\ tx[r].id = s /\ tx[r].op # "delete"
        /\ WritesOk(tx[r], failed[s]) /\ (tx[r].op = "resume" => r \in Requests)
        /\ tx[r].old \in Row /\ tx[r].new \in Row
        /\ rows'[s].paused = Written(tx[r].old.paused, tx[r].new.paused, rows[s].paused)
  BY RowFlushed
<1>2. tx[r].old.paused /\ ~tx[r].new.paused
  BY <1>1 DEF Written, Row
<1> QED
  BY <1>1, <1>2 DEF WritesOk

\* A schedule comes to life with a next run.
LEMMA BornScheduled ==
    ASSUME TypeOK, CounterInv, [Next]_vars, NEW s \in Schedules, ~Live(s), Live(s)'
    PROVE  rows'[s].next # NoRun
<1>0. rows \in [Schedules -> Row] /\ rows' # rows /\ now \in Nat
  BY DEF TypeOK, Live
<1>1. ASSUME NEW r \in Runners, Commit(r) \/ CommitDelete(r) PROVE FALSE
  <2> PICK t \in Schedules : t = tx[r].id
    BY <1>1 DEF Commit, CommitDelete, CounterInv, TxOk
  <2>1. Live(t) /\ \A u \in Schedules \ {t} : rows'[u] = rows[u]
    BY <1>0, <1>1 DEF Commit, CommitDelete
  <2> QED
    BY <2>1 DEF Live
<1>2. ASSUME NEW t \in Schedules, NEW cron \in Crons, NEW paused \in BOOLEAN,
             Create(t, cron, paused)
      PROVE  rows'[s].next # NoRun
  <2>1. compute_next_run(cron, now) # NoRun
    BY <1>0, NextRunLater DEF NoRun
  <2> HIDE DEF compute_next_run
  <2>2. t = s
    BY <1>0, <1>2 DEF Create, Live
  <2> QED
    BY <1>0, <1>2, <2>1, <2>2 DEF Create
<1>3. CASE User
  BY <1>0, <1>2, <1>3 DEF User, Update, Pause, Resume, Delete, RunNow, Begin
<1>4. ASSUME NEW r \in Runners, Execute(r) PROVE FALSE
  BY <1>0, <1>1, <1>4 DEF Execute, FinishRun, RecordRun, TrimHistory, MarkRun, MarkNothing,
                          RaiseDeleted, CommitRaises
<1>5. CASE Fault
  BY <1>0, <1>5 DEF Fault, RaiseDatabase, Crash, ListDueFails, Restart, LockUnavailable
<1>6. ASSUME NEW p \in Procs, Loop(p) PROVE FALSE
  BY <1>0, <1>6 DEF Loop, ListDue, EndCycle, TryLock, Unlock
<1>7. CASE Tick \/ UNCHANGED vars \/ \E c \in Conns : CloseConnection(c)
  BY <1>0, <1>7 DEF Tick, vars, CloseConnection
<1> QED
  BY <1>3, <1>4, <1>5, <1>6, <1>7 DEF Next

LEMMA StrandedStep ==
    ASSUME TypeOK, CounterInv, [Next]_vars, NEW s \in Schedules, ~Stranded(s), Stranded(s)'
    PROVE  \E r \in Runners : tx[r].id = s /\ Crossed(tx[r]) /\ Commit(r)
<1>1. CASE Live(s)
  <2>0. rows'[s] # rows[s] /\ Live(s)' /\ rows'[s].next = NoRun /\ ~rows'[s].paused
    BY <1>1 DEF Stranded, Live
  <2>1. PICK r \in Runners :
          /\ Commit(r) /\ tx[r].id = s /\ tx[r].op # "delete" /\ WritesOk(tx[r], failed[s])
          /\ tx[r].old \in Row /\ tx[r].new \in Row /\ rows[s] \in Row
          /\ rows'[s].paused = Written(tx[r].old.paused, tx[r].new.paused, rows[s].paused)
          /\ rows'[s].next = Written(tx[r].old.next, tx[r].new.next, rows[s].next)
    BY <1>1, <2>0, RowFlushed
  <2> DEFINE t == tx[r]
  <2>2. CASE rows[s].next # NoRun
    <3>1. t.new.next = NoRun /\ t.old.next # NoRun
      BY <2>0, <2>1, <2>2 DEF Written
    <3>2. t.op = "mark" /\ t.new.paused
      BY <2>1, <3>1 DEF WritesOk
    <3>3. t.old.paused /\ ~rows[s].paused
      BY <2>0, <2>1, <3>2 DEF Written, Row
    <3> QED
      BY <2>1, <3>1, <3>2, <3>3 DEF Crossed
  <2>3. CASE rows[s].next = NoRun
    <3>1. rows[s].paused
      BY <1>1, <2>3 DEF Stranded
    <3>2. t.old.paused /\ ~t.new.paused
      BY <2>0, <2>1, <3>1 DEF Written, Row
    <3>3. t.op = "resume" /\ t.new.next # NoRun
      BY <2>1, <3>2 DEF WritesOk
    <3>4. t.old.next # NoRun
      BY <2>0, <2>1, <3>3 DEF Written
    <3> QED
      BY <2>1, <2>3, <3>3, <3>4 DEF Crossed
  <2> QED
    BY <2>2, <2>3
<1>2. CASE ~Live(s)
  BY <1>2, BornScheduled DEF Stranded
<1> QED
  BY <1>1, <1>2

\* No execution and no other edit ends a user's pause, in any deployment.
THEOREM PauseSticksHolds == Spec => PauseSticks
<1>1. TypeOK /\ CounterInv /\ [Next]_vars =>
        [\A s \in Schedules :
           Live(s) /\ rows[s].paused /\ Live(s)' /\ ~rows'[s].paused =>
              \E r \in Requests : tx[r].id = s /\ tx[r].op = "resume" /\ Commit(r)]_vars
  BY PauseStep
<1> QED
  BY <1>1, TypeInit, TypeStep, CounterInit, CounterStep, PTL DEF Spec, PauseSticks

\* A schedule is left active without a next run only where a resume and an
\* auto-pause cross, in any deployment.
THEOREM StrandedByCrossingHolds == Spec => StrandedByCrossing
<1>1. TypeOK /\ CounterInv /\ [Next]_vars =>
        [\A s \in Schedules :
           ~Stranded(s) /\ Stranded(s)' =>
              \E r \in Runners : tx[r].id = s /\ Crossed(tx[r]) /\ Commit(r)]_vars
  BY StrandedStep
<1> QED
  BY <1>1, TypeInit, TypeStep, CounterInit, CounterStep, PTL DEF Spec, StrandedByCrossing
=============================================================================
