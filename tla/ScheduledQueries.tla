-------------------------- MODULE ScheduledQueries --------------------------
(***************************************************************************)
(* Scheduled queries: the rows of scheduled_queries, the users' operations *)
(* on them (services/scheduled_query_service.py, api/routes/schedules.py)  *)
(* and the executions of execute_schedule, by the scheduler loop of every  *)
(* server process (workers/scheduled_query_worker.py) and by run-now       *)
(* requests.                                                               *)
(*                                                                         *)
(* A cron expression with its timezone is abstracted to its period: it     *)
(* fires at the multiples of it.  The result rows, the alert e-mail and    *)
(* the descriptive columns are left out.  An operation on an existing row  *)
(* is two steps, the SELECT that loads it and the COMMIT that writes the   *)
(* columns it changed; every other database transaction is one.            *)
(* Everything between two steps may interleave, as READ COMMITTED allows.  *)
(***************************************************************************)
EXTENDS Integers, AdvisoryLock

CONSTANTS
    Schedules,     \* ids of schedules that can ever be created
    Procs,         \* server processes, each with one scheduler loop
    Requests,      \* slots for concurrent requests of the users
    PoolSize,      \* connections in the session pool of a process
    Crons,         \* cron expressions, each the period it fires with
    MaxFailures,   \* scheduled_query_max_consecutive_failures
    MaxHistory,    \* _MAX_HISTORY_PER_SCHEDULE
    MaxNow,        \* bound: the clock stops here
    MaxEdits,      \* bound: user operations after creation, run-now included
    MaxFaults,     \* bound: crashes and database errors
    NoSchedule     \* the id of no schedule

Runners == Procs \cup Requests
Conns   == Procs \X (1..PoolSize)
NoRun   == -1      \* next_run_at IS NULL

ASSUME ConstantsAssumption ==
    /\ NoSchedule \notin Schedules
    /\ Procs \cap Requests = {}
    /\ PoolSize \in Nat /\ MaxNow \in Nat /\ MaxHistory \in Nat
    /\ MaxEdits \in Nat /\ MaxFaults \in Nat
    /\ MaxFailures \in Nat \ {0}
    /\ Crons # {} /\ Crons \subseteq Nat \ {0}

VARIABLES
    now,      \* the wall clock, in ticks
    rows,     \* table scheduled_queries, and whether the row exists
    runs,     \* rows of scheduled_query_runs per schedule
    locks,    \* the server's advisory lock table of each key sq:<id>
    pc,       \* where each runner is
    due,      \* the rest of the snapshot list of a scheduler cycle
    snap,     \* the detached row a runner executes
    out,      \* the outcome of its orchestrator run
    tx,       \* its transaction on a row it has loaded
    via,      \* {the connection through which its lock was taken, while open}
    failed,   \* history: failed runs ever recorded, per schedule
    edits, faults

vars == <<now, rows, runs, locks, pc, due, snap, out, tx, via, failed,
          edits, faults>>
world == <<now, edits, faults>>

-----------------------------------------------------------------------------
\* compute_next_run: the first time the cron expression fires after `after`.
compute_next_run(cron, after) == after + cron - (after % cron)

Times == Nat \cup {NoRun}

Row == [st : {"unborn", "live", "gone"}, cron : Crons, paused : BOOLEAN,
        next : Times, cf : Nat]

Snapshot == [id : Schedules \cup {NoSchedule}, cron : Crons, cf : Nat,
             next : Times]

Outcome == [ok : BOOLEAN, cf : Nat, pause : BOOLEAN, next : Times]

Operations == {"none", "update", "pause", "resume", "delete", "mark"}

\* A row as its transaction loaded it and as the transaction leaves it; late, if
\* a run has been recorded since a deletion loaded the history.
Transaction == [op : Operations, id : Schedules \cup {NoSchedule}, old : Row,
                new : Row, late : BOOLEAN]

AnyCron == CHOOSE c \in Crons : TRUE

NoRow(st)  == [st |-> st, cron |-> AnyCron, paused |-> FALSE, next |-> NoRun,
               cf |-> 0]
NoSnapshot == [id |-> NoSchedule, cron |-> AnyCron, cf |-> 0, next |-> NoRun]
NoOutcome  == [ok |-> TRUE, cf |-> 0, pause |-> FALSE, next |-> NoRun]

NoTransaction == [op |-> "none", id |-> NoSchedule, old |-> NoRow("gone"),
                  new |-> NoRow("gone"), late |-> FALSE]

\* "idle" is a loop asleep between cycles, or a free request slot; in "commit" a
\* transaction has loaded its row; "unwind" is a cycle leaving through an
\* exception, "dead" a scheduler task that ended with it, "down" a process that
\* is not running.
Phases == {"idle", "cycle", "run", "record", "trim", "mark", "commit",
           "unlock", "unwind", "dead", "down"}

Live(s) == rows[s].st = "live"

TakeSnapshot(s) == [id |-> s, cron |-> rows[s].cron, cf |-> rows[s].cf,
                    next |-> rows[s].next]

\* The WHERE clause of list_due.
IsDue(s) == /\ Live(s)
            /\ ~rows[s].paused
            /\ rows[s].next # NoRun
            /\ rows[s].next <= now

Executing(r) == pc[r] \in {"run", "record", "trim", "mark", "commit"}
ExecutesIn(r, s) == Executing(r) /\ snap[r].id = s
ConnsOf(p) == {p} \X (1..PoolSize)

-----------------------------------------------------------------------------
Init ==
    /\ now = 0
    /\ rows = [s \in Schedules |-> NoRow("unborn")]
    /\ runs = [s \in Schedules |-> 0]
    /\ locks = [s \in Schedules |-> NoLock(Conns)]
    /\ pc = [r \in Runners |-> "idle"]
    /\ due = [p \in Procs |-> {}]
    /\ snap = [r \in Runners |-> NoSnapshot]
    /\ out = [r \in Runners |-> NoOutcome]
    /\ tx = [r \in Runners |-> NoTransaction]
    /\ via = [p \in Procs |-> {}]
    /\ failed = [s \in Schedules |-> 0]
    /\ edits = 0 /\ faults = 0

Tick ==
    /\ now < MaxNow
    /\ now' = now + 1
    /\ UNCHANGED <<rows, runs, locks, pc, due, snap, out, tx, via, failed,
                   edits, faults>>

-----------------------------------------------------------------------------
(* Transactions on a row. *)

\* The SELECT, and what the code assigns before the COMMIT.
Load(r, op, s, new) ==
    /\ pc' = [pc EXCEPT ![r] = "commit"]
    /\ tx' = [tx EXCEPT ![r] = [op |-> op, id |-> s, old |-> rows[s], new |-> new,
                                late |-> FALSE]]

\* The UPDATE names a column only where the transaction changed what it loaded.
Written(was, becomes, is) == IF becomes # was THEN becomes ELSE is

Flushed(row, old, new) ==
    [st |-> row.st,
     cron |-> Written(old.cron, new.cron, row.cron),
     paused |-> Written(old.paused, new.paused, row.paused),
     next |-> Written(old.next, new.next, row.next),
     cf |-> Written(old.cf, new.cf, row.cf)]

\* The runner leaves its request or execute_schedule, for good or through an
\* exception.
Leave(r, phase) ==
    /\ pc' = [pc EXCEPT ![r] = IF r \in Procs THEN phase ELSE "idle"]
    /\ out' = [out EXCEPT ![r] = NoOutcome]
    /\ tx' = [tx EXCEPT ![r] = NoTransaction]
    /\ snap' = IF r \in Procs THEN snap ELSE [snap EXCEPT ![r] = NoSnapshot]

Commit(r) ==
    LET t == tx[r]
    IN  /\ pc[r] = "commit" /\ t.op # "delete" /\ Live(t.id)
        /\ rows' = [rows EXCEPT ![t.id] = Flushed(@, t.old, t.new)]
        /\ Leave(r, "unlock")
        /\ UNCHANGED <<runs, locks, due, via, failed, world>>

\* The ORM cascade deletes the history it loaded with the row.  A run recorded
\* since is gone only if the trimming of a full history took it.
CommitDelete(r) ==
    LET t == tx[r]
    IN  /\ pc[r] = "commit" /\ t.op = "delete" /\ Live(t.id)
        /\ t.late => runs[t.id] >= MaxHistory
        /\ rows' = [rows EXCEPT ![t.id] = NoRow("gone")]
        /\ runs' = [runs EXCEPT ![t.id] = 0]
        /\ Leave(r, "unlock")
        /\ UNCHANGED <<locks, due, via, failed, world>>

\* The row is gone (StaleDataError), or its deletion violates the foreign key of
\* a run recorded since.
CommitRaises(r) ==
    /\ pc[r] = "commit"
    /\ ~Live(tx[r].id) \/ tx[r].late
    /\ Leave(r, "unwind")
    /\ UNCHANGED <<rows, runs, locks, due, via, failed, world>>

-----------------------------------------------------------------------------
(* The users' operations. *)

UnchangedByUser == UNCHANGED <<now, runs, locks, due, out, via, failed, faults>>

Create(s, cron, paused) ==
    /\ rows[s].st = "unborn"
    /\ rows' = [rows EXCEPT ![s] =
                  [st |-> "live", cron |-> cron, paused |-> paused,
                   next |-> compute_next_run(cron, now), cf |-> 0]]
    /\ UNCHANGED <<pc, snap, tx, edits>> /\ UnchangedByUser

\* A request finds the user's row.
Edit(r, s) == pc[r] = "idle" /\ Live(s) /\ edits < MaxEdits /\ edits' = edits + 1

Begin(r, op, s, new) ==
    /\ Edit(r, s) /\ Load(r, op, s, new)
    /\ UNCHANGED <<rows, snap>> /\ UnchangedByUser

\* A new schedule_text or timezone; the other columns are not modelled.
Update(r, s, cron) ==
    Begin(r, "update", s, [rows[s] EXCEPT !.cron = cron,
                                          !.next = compute_next_run(cron, now)])

Pause(r, s) == Begin(r, "pause", s, [rows[s] EXCEPT !.paused = TRUE])

\* consecutive_failures is left as it was.
Resume(r, s) ==
    Begin(r, "resume", s, [rows[s] EXCEPT !.paused = FALSE,
                                          !.next = compute_next_run(rows[s].cron, now)])

Delete(r, s) == Begin(r, "delete", s, NoRow("gone"))

\* run-now: no due test, no pause test and no lock.
RunNow(r, s) ==
    /\ Edit(r, s)
    /\ pc' = [pc EXCEPT ![r] = "run"]
    /\ snap' = [snap EXCEPT ![r] = TakeSnapshot(s)]
    /\ UNCHANGED <<rows, tx>> /\ UnchangedByUser

-----------------------------------------------------------------------------
(* The scheduler loop of a process. *)

\* A tick that finds nothing due changes nothing.
ListDue(p) ==
    /\ pc[p] = "idle"
    /\ \E s \in Schedules : IsDue(s)
    /\ due' = [due EXCEPT ![p] = {TakeSnapshot(s) : s \in {t \in Schedules : IsDue(t)}}]
    /\ pc' = [pc EXCEPT ![p] = "cycle"]
    /\ UNCHANGED <<rows, runs, locks, snap, out, tx, via, failed, world>>

StartLocked(p, x) ==
    /\ pc' = [pc EXCEPT ![p] = "run"]
    /\ snap' = [snap EXCEPT ![p] = x]

\* Mutant of TryLock: a key hash that differs between processes, so that each
\* sees only its own locks.
TryLockHashedPerProcess(p, x, c) ==
    /\ pc[p] = "cycle"
    /\ due' = [due EXCEPT ![p] = @ \ {x}]
    /\ Grantable([d \in ConnsOf(p) |-> locks[x.id][d]], c)
    /\ locks' = [locks EXCEPT ![x.id] = Locked(@, c)]
    /\ via' = [via EXCEPT ![p] = {c}]
    /\ StartLocked(p, x)
    /\ UNCHANGED <<rows, runs, out, tx, failed, world>>

\* try_advisory_lock on whichever pooled connection the session checks out.
TryLock(p, x, c) ==
    /\ pc[p] = "cycle"
    /\ due' = [due EXCEPT ![p] = @ \ {x}]
    /\ \/ /\ Grantable(locks[x.id], c)
          /\ locks' = [locks EXCEPT ![x.id] = Locked(@, c)]
          /\ via' = [via EXCEPT ![p] = {c}]
          /\ StartLocked(p, x)
       \/ /\ ~Grantable(locks[x.id], c)
          /\ UNCHANGED <<locks, via, pc, snap>>
    /\ UNCHANGED <<rows, runs, out, tx, failed, world>>

\* The except branch of try_advisory_lock: proceed without the lock.
LockUnavailable(p, x) ==
    /\ pc[p] = "cycle"
    /\ faults < MaxFaults /\ faults' = faults + 1
    /\ due' = [due EXCEPT ![p] = @ \ {x}]
    /\ StartLocked(p, x)
    /\ UNCHANGED <<rows, runs, locks, tx, via, out, failed, now, edits>>

EndCycle(p) ==
    /\ pc[p] = "cycle" /\ due[p] = {}
    /\ pc' = [pc EXCEPT ![p] = "idle"]
    /\ UNCHANGED <<rows, runs, locks, due, snap, out, tx, via, failed, world>>

-----------------------------------------------------------------------------
(* execute_schedule, by a loop or by a request. *)

\* Mutant of FinishRun: the threshold is off by one.
FinishRunOffByOne(r, ok) ==
    LET cf    == IF ok THEN 0 ELSE snap[r].cf + 1
        pause == cf + 1 >= MaxFailures
        next  == IF pause THEN NoRun ELSE compute_next_run(snap[r].cron, now)
    IN  /\ pc[r] = "run"
        /\ out' = [out EXCEPT ![r] =
                     [ok |-> ok, cf |-> cf, pause |-> pause, next |-> next]]
        /\ pc' = [pc EXCEPT ![r] = "record"]
        /\ UNCHANGED <<rows, runs, locks, due, snap, tx, via, failed, world>>

\* The orchestrator run ends, in time or not, and the outcome is computed from
\* the snapshot.
FinishRun(r, ok) ==
    LET cf    == IF ok THEN 0 ELSE snap[r].cf + 1
        pause == cf >= MaxFailures
        next  == IF pause THEN NoRun ELSE compute_next_run(snap[r].cron, now)
    IN  /\ pc[r] = "run"
        /\ out' = [out EXCEPT ![r] =
                     [ok |-> ok, cf |-> cf, pause |-> pause, next |-> next]]
        /\ pc' = [pc EXCEPT ![r] = "record"]
        /\ UNCHANGED <<rows, runs, locks, due, snap, tx, via, failed, world>>

\* First transaction of record_run.
RecordRun(r) ==
    LET s == snap[r].id
    IN  /\ pc[r] = "record" /\ Live(s)
        /\ runs' = [runs EXCEPT ![s] = @ + 1]
        /\ failed' = [failed EXCEPT ![s] = IF out[r].ok THEN @ ELSE @ + 1]
        /\ tx' = [q \in Runners |-> IF tx[q].op = "delete" /\ tx[q].id = s
                                    THEN [tx[q] EXCEPT !.late = TRUE] ELSE tx[q]]
        /\ pc' = [pc EXCEPT ![r] = "trim"]
        /\ UNCHANGED <<rows, locks, due, snap, out, via, world>>

\* Mutant of TrimHistory: the oldest row is deleted without looking at how many
\* there are.
TrimHistoryUnconditional(r) ==
    /\ pc[r] = "trim"
    /\ runs' = [runs EXCEPT ![snap[r].id] = @ - 1]
    /\ pc' = [pc EXCEPT ![r] = "mark"]
    /\ UNCHANGED <<rows, locks, due, snap, out, tx, via, failed, world>>

\* Second transaction of record_run.
TrimHistory(r) ==
    LET s == snap[r].id
    IN  /\ pc[r] = "trim"
        /\ runs' = [runs EXCEPT ![s] = IF @ > MaxHistory THEN MaxHistory ELSE @]
        /\ pc' = [pc EXCEPT ![r] = "mark"]
        /\ UNCHANGED <<rows, locks, due, snap, out, tx, via, failed, world>>

\* Mutants of MarkRun: the auto-pause is not written, is written over the user's
\* own pause, or the next run is not written.
MarkRunWith(r, pausing(_), next(_)) ==
    LET s == snap[r].id
    IN  /\ pc[r] = "mark" /\ Live(s)
        /\ Load(r, "mark", s, [rows[s] EXCEPT !.next = next(@), !.cf = out[r].cf,
                                              !.paused = pausing(@)])
        /\ UNCHANGED <<rows, runs, locks, due, snap, out, via, failed, world>>

MarkRunForgetsPause(r) ==
    MarkRunWith(r, LAMBDA was : was, LAMBDA was : out[r].next)
MarkRunOverwritesPause(r) ==
    MarkRunWith(r, LAMBDA was : out[r].pause, LAMBDA was : out[r].next)
MarkRunForgetsNext(r) ==
    MarkRunWith(r, LAMBDA was : was \/ out[r].pause, LAMBDA was : was)

\* mark_run_result: everything but is_paused comes from the snapshot's outcome,
\* whatever happened to the row since.
MarkRun(r) ==
    LET s == snap[r].id
    IN  /\ pc[r] = "mark" /\ Live(s)
        /\ Load(r, "mark", s, [rows[s] EXCEPT !.next = out[r].next, !.cf = out[r].cf,
                                              !.paused = @ \/ out[r].pause])
        /\ UNCHANGED <<rows, runs, locks, due, snap, out, via, failed, world>>

\* mark_run_result finds no row.
MarkNothing(r) ==
    /\ pc[r] = "mark" /\ ~Live(snap[r].id)
    /\ Leave(r, "unlock")
    /\ UNCHANGED <<rows, runs, locks, due, via, failed, world>>

\* record_run violates its foreign key, or fails to refresh what it inserted,
\* once the schedule is deleted.
RaiseDeleted(r) ==
    /\ pc[r] \in {"record", "trim"} /\ ~Live(snap[r].id)
    /\ Leave(r, "unwind")
    /\ UNCHANGED <<rows, runs, locks, due, via, failed, world>>

\* A transaction of an execution, or of a user's operation, fails.
RaiseDatabase(r) ==
    /\ pc[r] \in {"record", "trim", "mark", "commit"}
    /\ faults < MaxFaults /\ faults' = faults + 1
    /\ Leave(r, "unwind")
    /\ UNCHANGED <<rows, runs, locks, due, via, failed, now, edits>>

\* list_due fails: nothing above it catches the exception.
ListDueFails(p) ==
    /\ pc[p] = "idle"
    /\ faults < MaxFaults /\ faults' = faults + 1
    /\ pc' = [pc EXCEPT ![p] = "dead"]
    /\ UNCHANGED <<rows, runs, locks, due, snap, out, tx, via, failed, now, edits>>

\* The finally clause of the cycle, on whichever connection it checks out.
Unlock(p, c) ==
    /\ pc[p] \in {"unlock", "unwind"}
    /\ locks' = [locks EXCEPT ![snap[p].id] = Unlocked(@, c)]
    /\ via' = [via EXCEPT ![p] = {}]
    /\ snap' = [snap EXCEPT ![p] = NoSnapshot]
    /\ \/ pc[p] = "unlock" /\ pc' = [pc EXCEPT ![p] = "cycle"] /\ UNCHANGED due
       \/ /\ pc[p] = "unwind" /\ pc' = [pc EXCEPT ![p] = "dead"]
          /\ due' = [due EXCEPT ![p] = {}]
    /\ UNCHANGED <<rows, runs, out, tx, failed, world>>

-----------------------------------------------------------------------------
(* The connection pool, crashes and restarts. *)

CloseLocks(C) == [s \in Schedules |->
                    [c \in Conns |-> IF c \in C THEN 0 ELSE locks[s][c]]]

\* The pool closes a connection that holds a lock: it was an overflow
\* connection, or pool_recycle or pool_pre_ping replaced it.
CloseConnection(c) ==
    /\ \E s \in Schedules : locks[s][c] > 0
    /\ locks' = CloseLocks({c})
    /\ via' = [p \in Procs |-> via[p] \ {c}]
    /\ UNCHANGED <<rows, runs, pc, due, snap, out, tx, failed, world>>

Crash(r) ==
    /\ faults < MaxFaults /\ faults' = faults + 1
    /\ pc[r] # "down" /\ (r \in Requests => pc[r] # "idle")
    /\ pc' = [pc EXCEPT ![r] = IF r \in Procs THEN "down" ELSE "idle"]
    /\ snap' = [snap EXCEPT ![r] = NoSnapshot]
    /\ out' = [out EXCEPT ![r] = NoOutcome]
    /\ tx' = [tx EXCEPT ![r] = NoTransaction]
    /\ due' = [p \in Procs |-> IF p = r THEN {} ELSE due[p]]
    /\ via' = [p \in Procs |-> IF p = r THEN {} ELSE via[p]]
    /\ locks' = CloseLocks({c \in Conns : c[1] = r})
    /\ UNCHANGED <<rows, runs, failed, now, edits>>

Restart(p) ==
    /\ pc[p] = "down"
    /\ pc' = [pc EXCEPT ![p] = "idle"]
    /\ UNCHANGED <<rows, runs, locks, due, snap, out, tx, via, failed, world>>

-----------------------------------------------------------------------------
User ==
    \E s \in Schedules :
       \/ \E cron \in Crons, paused \in BOOLEAN : Create(s, cron, paused)
       \/ \E r \in Requests :
             \/ \E cron \in Crons : Update(r, s, cron)
             \/ Pause(r, s) \/ Resume(r, s) \/ Delete(r, s) \/ RunNow(r, s)

Execute(r) ==
    \/ \E ok \in BOOLEAN : FinishRun(r, ok)
    \/ RecordRun(r) \/ TrimHistory(r) \/ MarkRun(r) \/ MarkNothing(r) \/ RaiseDeleted(r)
    \/ Commit(r) \/ CommitDelete(r) \/ CommitRaises(r)

Loop(p) ==
    \/ ListDue(p) \/ EndCycle(p)
    \/ \E x \in due[p], c \in ConnsOf(p) : TryLock(p, x, c)
    \/ \E c \in ConnsOf(p) : Unlock(p, c)

Fault ==
    \/ \E r \in Runners : RaiseDatabase(r) \/ Crash(r)
    \/ \E p \in Procs : \/ ListDueFails(p) \/ Restart(p)
                        \/ \E x \in due[p] : LockUnavailable(p, x)

Next ==
    \/ Tick \/ User \/ Fault
    \/ \E r \in Runners : Execute(r)
    \/ \E p \in Procs : Loop(p)
    \/ \E c \in Conns : CloseConnection(c)

Spec == Init /\ [][Next]_vars

\* What the code gives every runner: an asyncio task keeps running, and the
\* pool replaces each connection after pool_recycle seconds.
Fairness == /\ \A r \in Runners : WF_vars(Execute(r))
            /\ \A p \in Procs : WF_vars(Loop(p))
            /\ \A c \in Conns : WF_vars(CloseConnection(c))

FairSpec == Spec /\ Fairness

-----------------------------------------------------------------------------
(* Properties that hold. *)

\* Type invariant.
TypeOK ==
    /\ now \in Nat /\ edits \in Nat /\ faults \in Nat
    /\ rows \in [Schedules -> Row]
    /\ runs \in [Schedules -> Nat] /\ failed \in [Schedules -> Nat]
    /\ locks \in [Schedules -> LockTables(Conns)]
    /\ pc \in [Runners -> Phases]
    /\ due \in [Procs -> SUBSET Snapshot]
    /\ snap \in [Runners -> Snapshot]
    /\ out \in [Runners -> Outcome]
    /\ tx \in [Runners -> Transaction]
    /\ via \in [Procs -> SUBSET Conns]

Stranded(s) == Live(s) /\ ~rows[s].paused /\ rows[s].next = NoRun

\* A resume whose row has lost its next run, or an auto-pause whose row has been
\* resumed, since the transaction loaded it.
Crossed(t) ==
    \/ t.op = "resume" /\ t.old.next # NoRun /\ rows[t.id].next = NoRun
    \/ t.op = "mark" /\ t.new.next = NoRun /\ t.old.paused /\ ~rows[t.id].paused

\* A schedule becomes active and invisible to list_due in one way only: a resume
\* and the auto-pause of mark_run_result have both loaded the row before either
\* commits, and the second omits the column it found as it wants it.  No edit,
\* pause, crash, failed write or other overlap of executions does that.
StrandedByCrossing ==
    [][\A s \in Schedules :
          ~Stranded(s) /\ Stranded(s)' =>
             \E r \in Runners : tx[r].id = s /\ Crossed(tx[r]) /\ Commit(r)]_vars

\* A schedule whose next run was withdrawn by auto-pause has had at least
\* scheduled_query_max_consecutive_failures failed runs recorded: the counter,
\* carried through detached snapshots, never runs ahead of the history.
AutoPauseEarned ==
    \A s \in Schedules : Live(s) /\ rows[s].next = NoRun => failed[s] >= MaxFailures

\* Two scheduler loops execute one schedule at the same time only if at least
\* one of them has lost, or never got, its advisory lock: neither the release
\* of another process nor an earlier leaked grant undoes a held lock.
GuardedRunsExclusive ==
    \A s \in Schedules : \A p, q \in Procs :
        /\ p # q /\ ExecutesIn(p, s) /\ ExecutesIn(q, s)
        => via[p] = {} \/ via[q] = {}

\* Only the user's resume ends a pause: the result of a run in flight, written
\* after the pause, does not, and no other commit that loaded the row before it.
PauseSticks ==
    [][\A s \in Schedules :
          Live(s) /\ rows[s].paused /\ Live(s)' /\ ~rows'[s].paused =>
             \E r \in Requests : tx[r].id = s /\ tx[r].op = "resume" /\ Commit(r)]_vars

\* A due schedule is executed, paused or rescheduled after a finite time, even
\* through leaked locks, as long as one scheduler loop is alive.
DueServed ==
    \A s \in Schedules :
        IsDue(s) ~> (~IsDue(s) \/ \A p \in Procs : pc[p] \in {"dead", "down"})
=============================================================================
