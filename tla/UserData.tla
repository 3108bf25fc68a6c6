------------------------------ MODULE UserData ------------------------------
(***************************************************************************)
(* What a user leaves in the database, and the maintenance loop that takes *)
(* it away: chat sessions, their messages and the edited versions of their *)
(* SQL (services/chat_session_service.py, api/routes/sessions.py,          *)
(* history.py, query.py), the account rows (account.py,                    *)
(* notification_prefs.py), and the three jobs that every server process    *)
(* runs one after the other under an advisory lock each                    *)
(* (workers/scheduler.py): the account purge, the retention clean-up and   *)
(* the e-mail digest.                                                      *)
(*                                                                         *)
(* No foreign key of the schema is declared ON DELETE CASCADE, so a DELETE *)
(* of a row that another one references fails.  Every database transaction *)
(* is a step; a message stands for one that holds SQL.                     *)
(***************************************************************************)
EXTENDS Integers, Sequences, FiniteSets, AdvisoryLock

CONSTANTS
    Users, Sessions, Messages,   \* ids that can ever be used
    Procs,                       \* server processes
    PoolSize,                    \* connections in the session pool of a process
    Windows,                     \* retention periods, zero for "none"
    Forever,                     \* the retention setting that deletes nothing
    Interval,                    \* email_digest_interval_days
    Grace,                       \* DELETION_GRACE_DAYS
    MaxTime,                     \* bound: the clock stops here
    MaxHolds,                    \* bound: grants of a lock a connection leaks
    MaxEdits,                    \* bound: user operations
    MaxFaults,                   \* bound: crashes and failures
    NoUser, NoSession

Jobs  == {"purge", "retention", "digest"}
Conns == Procs \X (1..PoolSize)
Never == -1                      \* a NULL timestamp
Settings == Windows \cup {Forever}

ASSUME ConstantsAssumption ==
    /\ NoUser \notin Users /\ NoSession \notin Sessions
    /\ Windows \subseteq Nat /\ Forever \notin Windows
    /\ Interval \in Nat /\ Grace \in Nat /\ PoolSize \in Nat
    /\ MaxTime \in Nat /\ MaxHolds \in Nat /\ MaxEdits \in Nat /\ MaxFaults \in Nat

VARIABLES
    now,         \* the wall clock, in days
    accounts,    \* rows of users
    deletion,    \* account_deletions: status and purge_after
    retention,   \* user_settings.data_retention, or its default
    prefs,       \* notification_preferences: email_digest, last_digest_sent_at
    sessions,    \* the owner of each row of chat_sessions
    messages,    \* rows of chat_messages
    edited,      \* messages with rows of sql_versions
    locks,       \* the server's lock table of each job's key
    work,        \* where the maintenance loop of each process is
    mailed,      \* history: the cycle in which a user was last mailed
    doubtful,    \* history: users mailed in an overlapping cycle, or unmarked
    overlap,     \* history: processes whose digest cycle met another one
    edits, faults

vars == <<now, accounts, deletion, retention, prefs, sessions, messages,
          edited, locks, work, mailed, doubtful, overlap, edits,
          faults>>
world    == <<now, edits, faults>>
history  == <<mailed, doubtful, overlap>>
chat     == <<sessions, messages, edited>>
settings == <<accounts, deletion, retention, prefs>>

-----------------------------------------------------------------------------
\* "try" on the first job is also the sleep between two cycles.
Asleep == [at |-> "try", job |-> "purge", todo |-> {}, done |-> {},
          start |-> 0, seen |-> [u \in Users |-> Forever]]

Work == [at : {"try", "list", "run", "mark", "unlock", "down"}, job : Jobs,
         todo : SUBSET Users, done : SUBSET Users, start : Nat,
         seen : [Users -> Settings]]

Row == [st : {"unborn", "stored", "gone"}, session : Sessions \cup {NoSession},
        at : Nat, cleared : BOOLEAN]
NoRow(st) == [st |-> st, session |-> NoSession, at |-> 0, cleared |-> FALSE]
Written(s) == [st |-> "stored", session |-> s, at |-> now, cleared |-> FALSE]

Stored(m)     == messages[m].st = "stored"
SessionsOf(u) == {s \in Sessions : sessions[s] = u}
Within(S)     == {m \in Messages : Stored(m) /\ messages[m].session \in S}
MessagesOf(u) == Within(SessionsOf(u))

\* Every other row of a user references it, its account_deletions row included.
Referenced(u) == \/ deletion[u].status # "none"
                 \/ SessionsOf(u) # {}

Init ==
    /\ now = 0
    /\ accounts = Users
    /\ deletion = [u \in Users |-> [status |-> "none", due |-> 0]]
    /\ retention \in [Users -> Settings]
    /\ prefs \in [Users -> [digest : BOOLEAN, last : {Never}]]
    /\ sessions \in [Sessions -> Users \cup {NoUser}]
    /\ messages \in [Messages -> {NoRow("unborn")} \cup
                     {Written(s) : s \in {t \in Sessions : sessions[t] # NoUser}}]
    /\ edited = {}
    /\ locks = [j \in Jobs |-> NoLock(Conns)]
    /\ work = [p \in Procs |-> Asleep]
    /\ mailed = [u \in Users |-> Never]
    /\ doubtful = {} /\ overlap = {}
    /\ edits = 0 /\ faults = 0

Tick ==
    /\ now < MaxTime
    /\ now' = now + 1
    /\ UNCHANGED <<settings, chat, locks, work, history, edits, faults>>

-----------------------------------------------------------------------------
(* The user's chat. *)

Edit == edits < MaxEdits /\ edits' = edits + 1

UnchangedByChat == UNCHANGED <<now, settings, locks, work, history, faults>>

CreateSession(u, s) ==
    /\ Edit
    /\ u \in accounts /\ sessions[s] = NoUser
    /\ sessions' = [sessions EXCEPT ![s] = u]
    /\ UNCHANGED <<messages, edited>> /\ UnchangedByChat

\* The session is looked up again in the transaction that inserts.
AddMessage(s, m) ==
    /\ Edit
    /\ sessions[s] # NoUser /\ messages[m].st = "unborn"
    /\ messages' = [messages EXCEPT ![m] = Written(s)]
    /\ UNCHANGED <<sessions, edited>> /\ UnchangedByChat

\* A core DELETE, which the foreign key of the messages refuses while the session
\* has any.
DeleteSession(s) ==
    /\ Edit
    /\ sessions[s] # NoUser /\ Within({s}) = {}
    /\ sessions' = [sessions EXCEPT ![s] = NoUser]
    /\ UNCHANGED <<messages, edited>> /\ UnchangedByChat

Without(M) == [m \in Messages |-> IF m \in M THEN NoRow("gone") ELSE messages[m]]

\* Does the foreign key of sql_versions refuse the DELETE of these messages?
Pinned(M) == M \cap edited # {}

\* Messages, then sessions, in one transaction.
DeleteAllSessions(u) ==
    /\ Edit
    /\ SessionsOf(u) # {} /\ ~Pinned(MessagesOf(u))
    /\ messages' = Without(MessagesOf(u))
    /\ sessions' = [s \in Sessions |-> IF sessions[s] = u THEN NoUser ELSE sessions[s]]
    /\ UNCHANGED edited /\ UnchangedByChat

\* The messages are only stamped with deleted_at; who reads them decides.
ClearHistory(u) ==
    /\ Edit
    /\ MessagesOf(u) # {}
    /\ messages' = [m \in Messages |-> IF m \in MessagesOf(u)
                                       THEN [messages[m] EXCEPT !.cleared = TRUE]
                                       ELSE messages[m]]
    /\ UNCHANGED <<sessions, edited>> /\ UnchangedByChat

\* save_sql_version inserts a row that references the message.
SaveVersion(m) ==
    /\ Edit
    /\ Stored(m) /\ m \notin edited
    /\ edited' = edited \cup {m}
    /\ UNCHANGED <<sessions, messages>> /\ UnchangedByChat

-----------------------------------------------------------------------------
(* The user's settings. *)

UnchangedBySettings == UNCHANGED <<now, chat, locks, work, history, faults, accounts>>

UpdateRetention(u, w) ==
    /\ Edit
    /\ u \in accounts
    /\ retention' = [retention EXCEPT ![u] = w]
    /\ UNCHANGED <<deletion, prefs>> /\ UnchangedBySettings

\* patch_notification_prefs, and the unsubscribe link for FALSE.
SetDigest(u, on) ==
    /\ Edit
    /\ u \in accounts
    /\ prefs' = [prefs EXCEPT ![u].digest = on]
    /\ UNCHANGED <<deletion, retention>> /\ UnchangedBySettings

\* A request while one is scheduled changes nothing; one after a cancellation
\* fails on the primary key.
RequestDeletion(u) ==
    /\ Edit
    /\ u \in accounts /\ deletion[u].status = "none"
    /\ deletion' = [deletion EXCEPT ![u] = [status |-> "scheduled", due |-> now + Grace]]
    /\ UNCHANGED <<retention, prefs>> /\ UnchangedBySettings

CancelDeletion(u) ==
    /\ Edit
    /\ u \in accounts /\ deletion[u].status = "scheduled"
    /\ deletion' = [deletion EXCEPT ![u].status = "cancelled"]
    /\ UNCHANGED <<retention, prefs>> /\ UnchangedBySettings

-----------------------------------------------------------------------------
(* The maintenance loop: each job under its advisory lock, one after the      *)
(* other.                                                                     *)

ConnsOf(p) == {p} \X (1..PoolSize)
At(p, phase) == work[p].at = phase
In(p, job, phase) == work[p].at = phase /\ work[p].job = job

Following == [purge |-> "retention", retention |-> "digest", digest |-> "purge"]

NextJob(p) == [Asleep EXCEPT !.job = Following[work[p].job]]

\* try_advisory_lock on whichever connection the session checks out.
TryLock(p, c) ==
    LET j == work[p].job
    IN  /\ At(p, "try")
        /\ \/ /\ Grantable(locks[j], c) /\ locks[j][c] < MaxHolds
              /\ locks' = [locks EXCEPT ![j] = Locked(@, c)]
              /\ work' = [work EXCEPT ![p].at = "list"]
           \/ /\ ~Grantable(locks[j], c)
              /\ work' = [work EXCEPT ![p] = NextJob(p)]
              /\ UNCHANGED locks
        /\ UNCHANGED <<settings, chat, history, world>>

\* Its except branch: proceed anyway.
LockUnavailable(p) ==
    /\ At(p, "try")
    /\ faults < MaxFaults /\ faults' = faults + 1
    /\ work' = [work EXCEPT ![p].at = "list"]
    /\ UNCHANGED <<now, edits, settings, chat, locks, history>>

\* advisory_unlock, in the finally clause, on whichever connection.
Unlock(p, c) ==
    /\ At(p, "unlock")
    /\ locks' = [locks EXCEPT ![work[p].job] = Unlocked(@, c)]
    /\ work' = [work EXCEPT ![p] = NextJob(p)]
    /\ UNCHANGED <<settings, chat, history, world>>

Leaving(p) == [Asleep EXCEPT !.job = work[p].job, !.at = "unlock"]
Listed(p, U) == [work[p] EXCEPT !.at = "run", !.todo = U]

EndJob(p) ==
    /\ At(p, "run") /\ work[p].todo = {}
    /\ work' = [work EXCEPT ![p] = Leaving(p)]
    /\ deletion' = [u \in Users |-> IF u \in work[p].done
                                    THEN [deletion[u] EXCEPT !.status = "purged"]
                                    ELSE deletion[u]]
    /\ UNCHANGED <<accounts, retention, prefs, chat, locks, history, world>>

\* A transaction of a job fails, or its lists: _run_with_advisory_lock logs it.
JobFails(p) ==
    /\ work[p].at \in {"list", "run"}
    /\ faults < MaxFaults /\ faults' = faults + 1
    /\ work' = [work EXCEPT ![p] = Leaving(p)]
    /\ UNCHANGED <<now, edits, settings, chat, locks, history>>

-----------------------------------------------------------------------------
(* The account purge. *)

\* FOR UPDATE SKIP LOCKED, but the rows are released with the session.
ListDeletions(p) ==
    /\ In(p, "purge", "list")
    /\ LET pending == {u \in Users : deletion[u].status = "scheduled" /\ deletion[u].due <= now}
       IN  work' = [work EXCEPT ![p] = Listed(p, pending)]
    /\ UNCHANGED <<settings, chat, locks, history, world>>

\* _hard_delete_user; a refused DELETE is logged and the next account is tried.
HardDelete(p, u) ==
    /\ In(p, "purge", "run") /\ u \in work[p].todo
    /\ accounts' = IF Referenced(u) THEN accounts ELSE accounts \ {u}
    /\ work' = [work EXCEPT ![p].todo = @ \ {u},
                            ![p].done = IF Referenced(u) THEN @ ELSE @ \cup {u}]
    /\ UNCHANGED <<deletion, retention, prefs, chat, locks, history, world>>

-----------------------------------------------------------------------------
(* The retention clean-up. *)

ListRetention(p) ==
    /\ In(p, "retention", "list")
    /\ LET limited == {u \in accounts : retention[u] # Forever}
       IN  work' = [work EXCEPT ![p] = [Listed(p, limited) EXCEPT !.seen = retention]]
    /\ UNCHANGED <<settings, chat, locks, history, world>>

OlderThan(u, w) == {m \in MessagesOf(u) : messages[m].at < now - w}

\* Mutant of PurgeHistory: the cutoff included.
PurgeHistoryTooEarly(p, u) ==
    LET old == {m \in MessagesOf(u) : messages[m].at <= now - work[p].seen[u]}
    IN  /\ In(p, "retention", "run") /\ u \in work[p].todo
        /\ messages' = IF Pinned(old) THEN messages ELSE Without(old)
        /\ work' = IF Pinned(old) THEN [work EXCEPT ![p] = Leaving(p)]
                   ELSE [work EXCEPT ![p].todo = @ \ {u}]
        /\ UNCHANGED <<settings, sessions, edited, locks, history, world>>

\* _purge_user_history, with the setting the list returned.  A refused DELETE
\* leaves the job, and the users after this one unserved.
PurgeHistory(p, u) ==
    LET old == OlderThan(u, work[p].seen[u])
    IN  /\ In(p, "retention", "run") /\ u \in work[p].todo
        /\ messages' = IF Pinned(old) THEN messages ELSE Without(old)
        /\ work' = IF Pinned(old) THEN [work EXCEPT ![p] = Leaving(p)]
                   ELSE [work EXCEPT ![p].todo = @ \ {u}]
        /\ UNCHANGED <<settings, sessions, edited, locks, history, world>>

-----------------------------------------------------------------------------
(* The e-mail digest. *)

InDigest(q) == work[q].job = "digest" /\ work[q].at \in {"run", "mark"}

Wants(u, t) == prefs[u].digest /\ (prefs[u].last = Never \/ prefs[u].last < t - Interval)

ListDigests(p) ==
    LET others == {q \in Procs \ {p} : InDigest(q)}
    IN  /\ In(p, "digest", "list")
        /\ LET candidates == {u \in accounts : Wants(u, now)}
           IN  work' = [work EXCEPT ![p] = [Listed(p, candidates) EXCEPT !.start = now]]
        /\ overlap' = IF others = {} THEN overlap \ {p} ELSE overlap \cup others \cup {p}
        /\ UNCHANGED <<settings, chat, locks, mailed, doubtful, world>>

\* build_user_digest: a message of the window that the user has not cleared.
Activity(u, since) ==
    \E m \in MessagesOf(u) : ~messages[m].cleared /\ messages[m].at >= since

\* No activity in the window, or no mail: the user is left for the next cycle.
SkipDigest(p, u) ==
    /\ In(p, "digest", "run") /\ u \in work[p].todo
    /\ \/ ~Activity(u, work[p].start - Interval) /\ UNCHANGED faults
       \/ faults < MaxFaults /\ faults' = faults + 1
    /\ work' = [work EXCEPT ![p].todo = @ \ {u}]
    /\ UNCHANGED <<now, edits, settings, chat, locks, history>>

SendDigest(p, u) ==
    /\ In(p, "digest", "run") /\ u \in work[p].todo
    /\ Activity(u, work[p].start - Interval)
    /\ work' = [work EXCEPT ![p].at = "mark", ![p].todo = @ \ {u}, ![p].done = {u}]
    /\ mailed' = [mailed EXCEPT ![u] = work[p].start]
    /\ doubtful' = IF p \in overlap THEN doubtful \cup {u} ELSE doubtful
    /\ UNCHANGED <<settings, chat, locks, overlap, world>>

Sent(p) == CHOOSE u \in work[p].done : TRUE

\* Mutant of MarkDigest: the mark is not written.
MarkDigestForgets(p) ==
    /\ At(p, "mark")
    /\ work' = [work EXCEPT ![p].at = "run", ![p].done = {}]
    /\ UNCHANGED <<settings, chat, locks, history, world>>

\* last_digest_sent_at becomes the start of the cycle.
MarkDigest(p) ==
    /\ At(p, "mark")
    /\ prefs' = [prefs EXCEPT ![Sent(p)].last = work[p].start]
    /\ work' = [work EXCEPT ![p].at = "run", ![p].done = {}]
    /\ UNCHANGED <<accounts, deletion, retention, chat, locks, history, world>>

\* The transaction of the mark fails, and the failure is logged as a skip.
MarkFails(p) ==
    /\ At(p, "mark")
    /\ faults < MaxFaults /\ faults' = faults + 1
    /\ work' = [work EXCEPT ![p].at = "run", ![p].done = {}]
    /\ doubtful' = doubtful \cup work[p].done
    /\ UNCHANGED <<now, edits, settings, chat, locks, mailed, overlap>>

-----------------------------------------------------------------------------
(* The pool and the processes. *)

\* pool_recycle or pool_pre_ping replaces a connection that holds a lock.
CloseConnection(c) ==
    /\ \E j \in Jobs : locks[j][c] > 0
    /\ locks' = [j \in Jobs |-> Dropped(locks[j], c)]
    /\ UNCHANGED <<settings, chat, work, history, world>>

Crash(p) ==
    /\ ~At(p, "down")
    /\ faults < MaxFaults /\ faults' = faults + 1
    /\ work' = [work EXCEPT ![p] = [Asleep EXCEPT !.at = "down"]]
    /\ doubtful' = IF At(p, "mark") THEN doubtful \cup work[p].done ELSE doubtful
    /\ locks' = [j \in Jobs |-> [c \in Conns |-> IF c \in ConnsOf(p) THEN 0
                                                 ELSE locks[j][c]]]
    /\ UNCHANGED <<now, edits, settings, chat, mailed, overlap>>

Restart(p) ==
    /\ At(p, "down")
    /\ work' = [work EXCEPT ![p] = Asleep]
    /\ UNCHANGED <<settings, chat, locks, history, world>>

-----------------------------------------------------------------------------
Chat ==
    \/ \E u \in Users : \/ \E s \in Sessions : CreateSession(u, s)
                        \/ DeleteAllSessions(u) \/ ClearHistory(u)
    \/ \E s \in Sessions : DeleteSession(s) \/ \E m \in Messages : AddMessage(s, m)
    \/ \E m \in Messages : SaveVersion(m)

Choose ==
    \E u \in Users : \/ \E w \in Settings : UpdateRetention(u, w)
                     \/ \E on \in BOOLEAN : SetDigest(u, on)
                     \/ RequestDeletion(u) \/ CancelDeletion(u)

Loop(p) ==
    \/ EndJob(p) \/ MarkDigest(p)
    \/ ListDeletions(p) \/ ListRetention(p) \/ ListDigests(p)
    \/ \E c \in ConnsOf(p) : TryLock(p, c) \/ Unlock(p, c)
    \/ \E u \in Users : \/ HardDelete(p, u) \/ PurgeHistory(p, u)
                        \/ SkipDigest(p, u) \/ SendDigest(p, u)

Fault(p) == LockUnavailable(p) \/ JobFails(p) \/ MarkFails(p) \/ Crash(p) \/ Restart(p)

Next ==
    \/ Tick \/ Chat \/ Choose
    \/ \E p \in Procs : Loop(p) \/ Fault(p)
    \/ \E c \in Conns : CloseConnection(c)

Spec == Init /\ [][Next]_vars


-----------------------------------------------------------------------------
TypeOK ==
    /\ now \in Nat /\ edits \in Nat /\ faults \in Nat
    /\ accounts \subseteq Users
    /\ deletion \in [Users -> [status : {"none", "scheduled", "cancelled", "purged"},
                               due : Nat]]
    /\ retention \in [Users -> Settings]
    /\ prefs \in [Users -> [digest : BOOLEAN, last : Nat \cup {Never}]]
    /\ sessions \in [Sessions -> Users \cup {NoUser}]
    /\ messages \in [Messages -> Row]
    /\ edited \subseteq Messages
    /\ locks \in [Jobs -> LockTables(Conns)]
    /\ work \in [Procs -> Work]
    /\ mailed \in [Users -> Nat \cup {Never}]
    /\ doubtful \subseteq Users /\ overlap \subseteq Procs

\* A user is mailed twice within email_digest_interval_days only after a digest
\* that was sent but not marked, or one of two overlapping cycles.
Mailing(p, u) == At(p, "run") /\ work'[p].at = "mark" /\ work'[p].done = {u}

DigestCadence ==
    [][\A p \in Procs : \A u \in Users \ doubtful :
          Mailing(p, u) /\ p \notin overlap =>
             mailed[u] = Never \/ mailed[u] < work[p].start - Interval]_vars

\* A message that its user did not delete is only ever removed past the retention
\* window of its user, as the cycle that removes it read it.
RetentionKeepsRecent ==
    [][\A m \in Messages :
          LET u == sessions[messages[m].session]
          IN  Stored(m) /\ ~Stored(m)' =>
                \/ DeleteAllSessions(u)
                \/ \E p \in Procs : /\ In(p, "retention", "run") /\ u \in work[p].todo
                                    /\ messages[m].at < now - work[p].seen[u]]_vars
=============================================================================
