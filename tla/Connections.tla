---------------------------- MODULE Connections ----------------------------
(***************************************************************************)
(* The database connections of one user: the rows of                       *)
(* user_database_connections, one of which is the active one, and the      *)
(* clients each server process keeps open for them.                        *)
(*                                                                         *)
(* A transaction is two steps, what it reads and its commit; an UPDATE of  *)
(* all the user's rows has a snapshot of its own, since it may wait for    *)
(* the row locks of another transaction.  A transaction that fails leaves  *)
(* nothing and ends its request.  Names, types and time stamps are left    *)
(* out but for the name "Server Default", which must not be given twice;   *)
(* so is the order in which a full cache drops its clients.                *)
(***************************************************************************)
EXTENDS Integers, FiniteSets

CONSTANTS
    MaxRows,      \* bound: rows ever inserted; ids are given in this order
    Dsns,         \* databases a connection may point at
    Procs,        \* server processes
    Requests,     \* slots for concurrent requests
    CacheSize,    \* _CACHE_MAX_SIZE
    Limit,        \* _MAX_CONNECTIONS_PER_USER
    MaxClients,   \* bound: clients ever opened
    MaxRequests,  \* bound: requests
    NoDsn, NoProc

ASSUME ConnectionsAssumption ==
    /\ MaxRows \in Nat /\ CacheSize \in Nat \ {0} /\ Limit \in Nat
    /\ MaxClients \in Nat /\ MaxRequests \in Nat
    /\ NoDsn \notin Dsns /\ NoProc \notin Procs

VARIABLES
    rows,       \* the rows, by id
    cache,      \* _client_cache of each process
    disposed,   \* clients whose engine was disposed
    made,       \* clients opened so far
    req,        \* the requests under way
    skewed,     \* history: a transaction wrote from what it had read too early
    lost,       \* history: clients another lookup of the same key replaced
    behind,     \* history: <<process, id>> that missed a change of the DSN
    count

connVars == <<rows, cache, disposed, made, req, skewed, lost, behind, count>>
clients == <<cache, disposed, made, lost>>

-----------------------------------------------------------------------------
Ids == 1..MaxRows
NoRow == 0

Row == [st : {"unborn", "row", "gone"}, dsn : Dsns \cup {NoDsn}, active : BOOLEAN,
        server : BOOLEAN]               \* server: it is named "Server Default"

Client == [id : Nat \ {0}, row : Ids, dsn : Dsns]

Request ==
    [op : {"none", "list", "resolve", "create", "rename", "update", "save", "clear",
           "delete", "select"},
     at : {"idle", "ensure", "ensuring", "read", "snap", "commit", "client", "opening",
           "evict"},
     proc : Procs \cup {NoProc},
     row : Ids \cup {NoRow},          \* the connection it is about
     dsn : Dsns \cup {NoDsn},         \* the DSN it stores, or has read
     seen : SUBSET Ids,               \* the rows it has read, or its UPDATE sees,
     was : SUBSET Ids,                \* and those of them that were active
     held : BOOLEAN,                  \* what it has concluded from what it has read
     stale : BOOLEAN]                 \* ... and what was changed since

Existing == {c \in Ids : rows[c].st = "row"}
Active   == {c \in Existing : rows[c].active}
WithDsn  == {c \in Existing : rows[c].dsn # NoDsn}
First(S) == CHOOSE c \in S : \A d \in S : c <= d
Entries(p, c) == {e \in cache[p] : e.row = c}

Free == [op |-> "none", at |-> "idle", proc |-> NoProc, row |-> NoRow, dsn |-> NoDsn,
         seen |-> {}, was |-> {}, held |-> FALSE, stale |-> FALSE]

Unborn == [st |-> "unborn", dsn |-> NoDsn, active |-> FALSE, server |-> FALSE]

ConnInit ==
    /\ rows = [c \in Ids |-> Unborn]
    /\ cache = [p \in Procs |-> {}]
    /\ disposed = {} /\ made = 0
    /\ req = [r \in Requests |-> Free]
    /\ skewed = FALSE /\ lost = {} /\ behind = {}
    /\ count = 0

-----------------------------------------------------------------------------
(* Transactions. *)

\* A commit makes out of date what the other open transactions have read.
Overtaken(q, r) == q # r /\ req[q].at \in {"ensuring", "snap", "commit"}

Others(r) == [q \in Requests |->
                 IF Overtaken(q, r) THEN [req[q] EXCEPT !.stale = TRUE] ELSE req[q]]

\* The request is answered, by an exception too: its transaction is rolled back.
Answer(r) ==
    /\ req' = [req EXCEPT ![r] = Free]
    /\ UNCHANGED <<rows, clients, skewed, behind, count>>

Start(r, op, p, c, d, phase) ==
    /\ req[r].at = "idle" /\ count < MaxRequests
    /\ count' = count + 1
    /\ req' = [req EXCEPT ![r] = [Free EXCEPT !.op = op, !.proc = p, !.row = c, !.dsn = d,
                                              !.at = phase]]
    /\ UNCHANGED <<rows, clients, skewed, behind>>

BeginRequest(r) ==
    \E p \in Procs :
        \/ \E op \in {"list", "resolve", "clear"} : Start(r, op, p, NoRow, NoDsn, "ensure")
        \/ \E op \in {"create", "save"}, d \in Dsns : Start(r, op, p, NoRow, d, "ensure")
        \/ \E c \in {i \in Ids : rows[i].st # "unborn"} :
              \/ \E op \in {"rename", "delete", "select"} : Start(r, op, p, c, NoDsn, "read")
              \/ \E d \in Dsns : Start(r, "update", p, c, d, "read")

-----------------------------------------------------------------------------
(* ensure_default_connection: list and resolve are this, the other requests *)
(* without an id begin with it.                                            *)

EnsureRead(r) ==
    /\ req[r].at = "ensure"
    /\ req' = [req EXCEPT ![r].at = "ensuring", ![r].seen = Existing, ![r].was = Active]
    /\ UNCHANGED <<rows, clients, skewed, behind, count>>

NextId(c) == rows[c].st = "unborn" /\ \A b \in Ids : b < c => rows[b].st # "unborn"

Inserted(c, d, active, server) ==
    [rows EXCEPT ![c] = [st |-> "row", dsn |-> d, active |-> active, server |-> server]]

Marked(S, active) ==
    [c \in Ids |-> IF c \in S THEN [rows[c] EXCEPT !.active = active] ELSE rows[c]]

Ensured(r, c) ==
    /\ skewed' = req[r].stale
    /\ req' = [Others(r) EXCEPT ![r] =
                  IF req[r].op = "list" THEN Free
                  ELSE [Free EXCEPT !.op = req[r].op, !.proc = req[r].proc, !.row = c,
                                    !.dsn = req[r].dsn,
                                    !.at = IF req[r].op = "resolve" THEN "client" ELSE "read"]]
    /\ UNCHANGED <<clients, behind, count>>

EnsureCommit(r) ==
    LET seen == req[r].seen
        was  == req[r].was
    IN  /\ req[r].at = "ensuring"
        /\ \/ /\ seen = {} /\ \A c \in Existing : ~rows[c].server
              /\ \E c \in Ids : /\ NextId(c)
                                /\ rows' = Inserted(c, NoDsn, TRUE, TRUE)
                                /\ Ensured(r, c)
           \/ /\ seen # {} /\ was = {} /\ First(seen) \in Existing
              /\ rows' = Marked({First(seen)}, TRUE)
              /\ Ensured(r, First(seen))
           \/ /\ was # {} /\ was \ {First(was)} \subseteq Existing
              /\ rows' = Marked(was \ {First(was)}, FALSE)
              /\ Ensured(r, First(was))

\* The name is taken, or a row to be written is gone.
EnsureFails(r) ==
    LET seen == req[r].seen
        was  == req[r].was
    IN  /\ req[r].at = "ensuring"
        /\ \/ seen = {} /\ \E c \in Existing : rows[c].server
           \/ seen # {} /\ was = {} /\ First(seen) \notin Existing
           \/ was # {} /\ ~(was \ {First(was)} \subseteq Existing)
        /\ Answer(r)

-----------------------------------------------------------------------------
(* The second transaction. *)

\* _get_owned, or the count of create.
ReadRows(r) ==
    LET op == req[r].op
        c  == req[r].row
        held == CASE op = "create" -> WithDsn = {}
                  [] op = "clear"  -> c \in WithDsn
                  [] op = "delete" -> c \in Active
                  [] OTHER         -> op = "select"
    IN  /\ req[r].at = "read"
        /\ IF op = "create" THEN Cardinality(Existing) < Limit ELSE c \in Existing
        /\ req' = [req EXCEPT ![r].held = held,
                              ![r].at = IF held /\ op \in {"create", "select"}
                                        THEN "snap" ELSE "commit"]
        /\ UNCHANGED <<rows, clients, skewed, behind, count>>

\* The limit is reached, or there is no such row.
ReadFails(r) ==
    /\ req[r].at = "read"
    /\ IF req[r].op = "create" THEN Cardinality(Existing) >= Limit
                               ELSE req[r].row \notin Existing
    /\ Answer(r)

\* UPDATE ... SET is_default = FALSE of all the rows begins.
Snapshot(r) ==
    /\ req[r].at = "snap"
    /\ req' = [req EXCEPT ![r].seen = Existing, ![r].at = "commit"]
    /\ UNCHANGED <<rows, clients, skewed, behind, count>>

Committing(r, op) == req[r].at = "commit" /\ req[r].op = op

\* A commit that writes is_default.
Skewing(r) == skewed' = (skewed \/ req[r].stale)

Create(r) ==
    /\ Committing(r, "create")
    /\ \E c \in Ids :
          /\ NextId(c)
          /\ rows' = [Marked(req[r].seen, FALSE) EXCEPT
                        ![c] = [st |-> "row", dsn |-> req[r].dsn, active |-> req[r].held,
                                server |-> FALSE]]
    /\ req' = [Others(r) EXCEPT ![r] = Free]
    /\ Skewing(r)
    /\ UNCHANGED <<clients, behind, count>>

\* The name is taken.
CreateRefused(r) == Committing(r, "create") /\ Answer(r)

\* Mutant of SetDefault: the row that was active stays so.
SetDefaultAdds(r) ==
    LET c == req[r].row
    IN  /\ Committing(r, "select") /\ c \in Existing
        /\ rows' = [rows EXCEPT ![c].active = TRUE]
        /\ req' = [Others(r) EXCEPT ![r] = Free]
        /\ Skewing(r)
        /\ UNCHANGED <<clients, behind, count>>

SetDefault(r) ==
    LET c == req[r].row
    IN  /\ Committing(r, "select") /\ c \in Existing
        /\ rows' = [Marked(req[r].seen, FALSE) EXCEPT ![c].active = TRUE]
        /\ req' = [Others(r) EXCEPT ![r] = Free]
        /\ Skewing(r)
        /\ UNCHANGED <<clients, behind, count>>

Rename(r) ==
    LET c == req[r].row
    IN  /\ Committing(r, "rename") /\ c \in Existing
        /\ \E s \in BOOLEAN : /\ s => \A b \in Existing \ {c} : ~rows[b].server
                              /\ rows' = [rows EXCEPT ![c].server = s]
        /\ req' = [Others(r) EXCEPT ![r] = Free]
        /\ UNCHANGED <<clients, skewed, behind, count>>

\* The other processes are not told, nor the lookups that have read the old DSN.
Missed(p, c) == {q \in Procs : q # p /\ Entries(q, c) # {}} \X {c}

DsnChanged(r, c) ==
    /\ behind' = behind \cup Missed(req[r].proc, c)
    /\ req' = [q \in Requests |->
                  IF q = r THEN [req[r] EXCEPT !.at = "evict", !.stale = FALSE]
                  ELSE IF req[q].at = "opening" /\ req[q].row = c
                       THEN [req[q] EXCEPT !.stale = TRUE] ELSE Others(r)[q]]
    /\ UNCHANGED <<clients, count>>

\* Column by column: a DSN that was NULL when it was read is not cleared.
Update(r) ==
    LET c == req[r].row
    IN  /\ \/ Committing(r, "update") \/ Committing(r, "save")
           \/ Committing(r, "clear") /\ req[r].held
        /\ c \in Existing
        /\ rows' = [rows EXCEPT ![c].dsn = req[r].dsn]
        /\ DsnChanged(r, c)
        /\ UNCHANGED skewed

ClearNothing(r) ==
    /\ Committing(r, "clear") /\ ~req[r].held /\ req[r].row \in Existing
    /\ req' = [Others(r) EXCEPT ![r].at = "evict"]
    /\ UNCHANGED <<rows, clients, skewed, behind, count>>

\* A row that is gone already is deleted with a warning only.  Which row is the
\* oldest of those left is not told apart.
Delete(r) ==
    LET c == req[r].row
        left == [Marked({c}, FALSE) EXCEPT ![c].st = "gone"]
    IN  /\ Committing(r, "delete")
        /\ IF req[r].held /\ Existing \ {c} # {}
           THEN \E b \in Existing \ {c} : rows' = [left EXCEPT ![b].active = TRUE]
           ELSE rows' = left
        /\ DsnChanged(r, c)
        /\ Skewing(r)

\* The row to be written is gone: no row matches the UPDATE.
CommitFails(r) ==
    /\ req[r].at = "commit" /\ req[r].op \notin {"create", "delete"}
    /\ req[r].row \notin Existing
    /\ Answer(r)

-----------------------------------------------------------------------------
(* The client cache. *)

\* get_client answers from the cache, or without a client when the connection has
\* no DSN, is gone, or its DSN cannot be decrypted.
Hit(r) ==
    /\ req[r].at = "client" /\ Entries(req[r].proc, req[r].row) # {}
    /\ Answer(r)

NoClient(r) ==
    /\ req[r].at = "client" /\ Entries(req[r].proc, req[r].row) = {}
    /\ Answer(r)

Miss(r) ==
    LET c == req[r].row
    IN  /\ req[r].at = "client" /\ Entries(req[r].proc, c) = {}
        /\ c \in WithDsn
        /\ req' = [req EXCEPT ![r].at = "opening", ![r].dsn = rows[c].dsn]
        /\ UNCHANGED <<rows, clients, skewed, behind, count>>

\* Another lookup's client is replaced; else a full cache drops one.
Displaced(p, c) ==
    IF Entries(p, c) = {} /\ Cardinality(cache[p]) >= CacheSize
    THEN {{e} : e \in cache[p]} ELSE {{}}

Put(r) ==
    LET p == req[r].proc
        c == req[r].row
        client == [id |-> made + 1, row |-> c, dsn |-> req[r].dsn]
    IN  /\ req[r].at = "opening" /\ made < MaxClients
        /\ made' = made + 1
        /\ \E D \in Displaced(p, c) :
              /\ cache' = [cache EXCEPT ![p] = (@ \ (Entries(p, c) \cup D)) \cup {client}]
              /\ disposed' = disposed \cup {e.id : e \in D}
              /\ behind' = (behind \ ({p} \X {e.row : e \in D \cup {client}}))
                           \cup (IF req[r].stale THEN {<<p, c>>} ELSE {})
        /\ lost' = lost \cup {e.id : e \in Entries(p, c)}
        /\ req' = [req EXCEPT ![r] = Free]
        /\ UNCHANGED <<rows, skewed, count>>

\* Mutant of Evict: the client is disposed of and kept.
EvictKeeps(r) ==
    LET p == req[r].proc
        c == req[r].row
    IN  /\ req[r].at = "evict"
        /\ disposed' = disposed \cup {e.id : e \in Entries(p, c)}
        /\ behind' = behind \ {<<p, c>>}
        /\ req' = [req EXCEPT ![r] = Free]
        /\ UNCHANGED <<rows, cache, made, lost, skewed, count>>

\* Mutant of Evict: the client is dropped and never disposed of.
EvictLeaks(r) ==
    LET p == req[r].proc
        c == req[r].row
    IN  /\ req[r].at = "evict"
        /\ cache' = [cache EXCEPT ![p] = @ \ Entries(p, c)]
        /\ behind' = behind \ {<<p, c>>}
        /\ req' = [req EXCEPT ![r] = Free]
        /\ UNCHANGED <<rows, disposed, made, lost, skewed, count>>

Evict(r) ==
    LET p == req[r].proc
        c == req[r].row
    IN  /\ req[r].at = "evict"
        /\ cache' = [cache EXCEPT ![p] = @ \ Entries(p, c)]
        /\ disposed' = disposed \cup {e.id : e \in Entries(p, c)}
        /\ behind' = behind \ {<<p, c>>}
        /\ req' = [req EXCEPT ![r] = Free]
        /\ UNCHANGED <<rows, made, lost, skewed, count>>

\* update reads the row again between its commit and the eviction; this fails.
RefreshFails(r) ==
    /\ req[r].at = "evict" /\ req[r].op \in {"update", "save"}
    /\ behind' = behind \cup {<<req[r].proc, req[r].row>>}
    /\ req' = [req EXCEPT ![r] = Free]
    /\ UNCHANGED <<rows, clients, skewed, count>>

-----------------------------------------------------------------------------
Rows(r) ==
    \/ EnsureRead(r) \/ EnsureCommit(r) \/ EnsureFails(r)
    \/ ReadRows(r) \/ ReadFails(r) \/ Snapshot(r)
    \/ Create(r) \/ CreateRefused(r) \/ SetDefault(r) \/ Rename(r)
    \/ Update(r) \/ ClearNothing(r) \/ Delete(r) \/ CommitFails(r)

Clients(r) == Hit(r) \/ NoClient(r) \/ Miss(r) \/ Put(r) \/ Evict(r) \/ RefreshFails(r)

ConnNext == \E r \in Requests : BeginRequest(r) \/ Rows(r) \/ Clients(r)

ConnSpec == ConnInit /\ [][ConnNext]_connVars

-----------------------------------------------------------------------------
ConnTypeOK ==
    /\ rows \in [Ids -> Row]
    /\ cache \in [Procs -> SUBSET Client]
    /\ disposed \subseteq Nat /\ lost \subseteq Nat /\ made \in Nat
    /\ req \in [Requests -> Request]
    /\ skewed \in BOOLEAN
    /\ behind \subseteq Procs \X Ids
    /\ count \in Nat

\* Of the rows of a user exactly one is active, whatever came before, unless a
\* transaction has written what it concluded from rows another one has changed; an
\* ensure_default_connection that is not overtaken restores it.
OneDefault ==
    ~skewed /\ Existing # {} => Cardinality(Active) = 1

\* A cached client points where the row does, but while the request that changed the
\* DSN is about to evict it, in the processes it cannot tell, and where a lookup had
\* read the old DSN.
StaleOnlyBehind ==
    \A p \in Procs : \A e \in cache[p] :
        \/ rows[e.row].st = "row" /\ rows[e.row].dsn = e.dsn
        \/ <<p, e.row>> \in behind
        \/ \E r \in Requests : req[r].at = "evict" /\ req[r].proc = p /\ req[r].row = e.row

\* Every client ever opened is cached by one process under one key or disposed of,
\* never both, but for those two overlapping lookups have opened for one key.
ClientsAccounted ==
    LET cached == UNION {{e.id : e \in cache[p]} : p \in Procs}
    IN  /\ cached \cap disposed = {}
        /\ 1..made = cached \cup disposed \cup lost
        /\ \A p \in Procs : \A c \in Ids : Cardinality(Entries(p, c)) <= 1
=============================================================================
