---------------------------- MODULE AdvisoryLock ----------------------------
(***************************************************************************)
(* The session-level PostgreSQL advisory lock behind workers/scheduler.py, *)
(* the startup ingest of api/app.py and services/schema_monitor.py.  The   *)
(* server keeps, for one key, a table of how many times each database      *)
(* connection holds it: a connection that already holds the key is granted *)
(* it again, any other is refused, and a lock belongs to the connection    *)
(* and not to the process or coroutine that asked for it.                  *)
(***************************************************************************)
EXTENDS Naturals

LockTables(Conns) == [Conns -> Nat]

NoLock(Conns) == [c \in Conns |-> 0]

\* pg_try_advisory_lock on connection c answers true.
Grantable(table, c) == \A d \in DOMAIN table \ {c} : table[d] = 0

Locked(table, c) == [table EXCEPT ![c] = @ + 1]

\* Mutant of Unlocked: a release that is not granted is counted.
UnlockedUnchecked(table, c) == [table EXCEPT ![c] = @ - 1]

\* pg_advisory_unlock on connection c: a warning and no effect when c does not
\* hold the key.
Unlocked(table, c) == [table EXCEPT ![c] = IF @ > 0 THEN @ - 1 ELSE 0]

\* The connection is closed: the server drops every lock of its session.
Dropped(table, c) == [table EXCEPT ![c] = 0]

IsHeld(table) == \E c \in DOMAIN table : table[c] > 0
=============================================================================
