--------------------------- MODULE SchemaCatalog ---------------------------
(***************************************************************************)
(* The schema catalog of one database connection, the rows of user_schemas *)
(* and user_schema_tables, and the chunks of the vector store rebuilt from *)
(* it: SchemaCatalogService with the ingestion it drives, under per-user   *)
(* isolation.                                                              *)
(*                                                                         *)
(* A table has columns, a version of their names, types and comments, and  *)
(* a description of its own, to which a user may add another.  The hash of *)
(* a schema covers the shape of the columns, which the comments are no     *)
(* part of, and the own descriptions.  A transaction is its reads and its  *)
(* commit, which writes the columns it has changed and fails when a row it *)
(* updates is gone or one it inserts is there.  The catalog is committed   *)
(* before the chunks are rebuilt, in three steps more.                     *)
(***************************************************************************)
EXTENDS Integers, FiniteSets

CONSTANTS
    Tables,
    Columns,      \* what the columns of a table may be, comments included
    Shapes, Shape, \* of each of them, all but the comments
    Texts,        \* descriptions
    Contents,     \* what a table may be
    Requests,     \* slots for concurrent requests
    Checks,       \* server processes: each looks once whether the index is empty
    MaxRequests,  \* bound: requests
    MaxEdits,     \* bound: changes of the live database
    Absent, NoText

Content == [cols : Columns, about : Texts \cup {NoText}]
Mark    == [shape : Shapes, about : Texts \cup {NoText}]

ASSUME CatalogAssumption ==
    /\ Shape \in [Columns -> Shapes] /\ Contents \subseteq Content
    /\ Absent \notin Columns \cup Tables \cup Contents \cup Mark /\ NoText \notin Texts
    /\ Checks \in Nat /\ MaxRequests \in Nat /\ MaxEdits \in Nat

VARIABLES
    live,      \* the tables of the user's database
    rows,      \* the rows of user_schema_tables; an id is that of the request that
               \* inserted the row, 0 when there is none
    header,    \* schema_hash of the row of user_schemas, if there is one
    index,     \* the chunks of the connection in the vector store
    req,       \* the requests under way
    deleted,   \* the connection's row was deleted
    checks,    \* _vectors_checked: the processes that have looked
    said,      \* history: the description last given to a row
    raced,     \* history: a commit wrote what it concluded from old reads
    dirty,     \* history: the index was left as it should not be
    unseen,    \* history: tables a sync has changed without a rebuild since
    ghost,     \* history: the cleanup did not have the last word
    count, edits

vars == <<live, rows, header, index, req, deleted, checks, said, raced, dirty,
          unseen, ghost, count, edits>>

-----------------------------------------------------------------------------
Schemas == [Tables -> Contents \cup {Absent}]
NoRow   == [id |-> 0, source |-> "reflected", cols |-> Absent, about |-> NoText,
            desc |-> NoText, new |-> FALSE]
Row     == [id : Nat, source : {"reflected", "uploaded"}, cols : Columns \cup {Absent},
            about : Texts \cup {NoText}, desc : Texts \cup {NoText}, new : BOOLEAN]

\* compute_schema_hash; the hash of no tables is also that of no header.
Hashes == [Tables -> Mark \cup {Absent}]
Hash(S) == [t \in Tables |-> IF S[t] = Absent THEN Absent
                             ELSE [shape |-> Shape[S[t].cols], about |-> S[t].about]]
NoTables == [t \in Tables |-> Absent]
Header   == [st : BOOLEAN, hash : Hashes]

\* A chunk is the columns of a table, comments and all, and the description the user
\* gave, or else its own.
NoChunk == <<Absent, NoText>>
Chunk   == (Columns \cup {Absent}) \X (Texts \cup {NoText})
NoIndex == [t \in Tables |-> NoChunk]
Chunks(rs) == [t \in Tables |-> <<rs[t].cols, IF rs[t].desc # NoText THEN rs[t].desc
                                                                   ELSE rs[t].about>>]

Request ==
    [at : {"idle", "reflected", "commit", "embed", "reset", "upsert", "purge", "forget"},
     op : {"none", "sync", "merge", "replace", "describe", "heal", "delete"},
     schema : Schemas,                   \* reflected or uploaded
     number : Nat,
     table : Tables \cup {Absent},       \* described
     text : Texts \cup {NoText},
     rows : [Tables -> Row],             \* as loaded
     header : Header,
     chunks : [Tables -> Chunk],         \* read for the index
     stale : BOOLEAN]                    \* what it has read was changed since, or what it
                                         \* should have deleted is still there

Idle == [at |-> "idle", op |-> "none", schema |-> NoTables, number |-> 0, table |-> Absent,
         text |-> NoText, rows |-> [t \in Tables |-> NoRow],
         header |-> [st |-> FALSE, hash |-> NoTables], chunks |-> NoIndex, stale |-> FALSE]

There(rs) == {t \in Tables : rs[t].id # 0}

Init ==
    /\ live \in Schemas
    /\ rows = [t \in Tables |-> NoRow]
    /\ header = [st |-> FALSE, hash |-> NoTables]
    /\ index = NoIndex
    /\ req = [r \in Requests |-> Idle]
    /\ deleted = FALSE /\ checks = 0
    /\ said = [t \in Tables |-> NoText]
    /\ raced = FALSE /\ dirty = FALSE /\ unseen = {} /\ ghost = FALSE
    /\ count = 0 /\ edits = 0

catalog  == <<rows, header, said>>
outcomes == <<raced, dirty, unseen, ghost>>
bounds   == <<count, edits>>

\* The live database changes.
Migrate(t) ==
    /\ edits < MaxEdits
    /\ \E v \in (Contents \cup {Absent}) \ {live[t]} : live' = [live EXCEPT ![t] = v]
    /\ edits' = edits + 1
    /\ UNCHANGED <<catalog, index, req, deleted, checks, outcomes, count>>

-----------------------------------------------------------------------------
(* Requests begin: none for a connection that was deleted. *)

Begin(r, request) ==
    /\ req[r].at = "idle" /\ ~deleted /\ count < MaxRequests
    /\ count' = count + 1
    /\ req' = [req EXCEPT ![r] = IF request.at = "idle" THEN Idle
                                ELSE [request EXCEPT !.number = count + 1]]
    /\ UNCHANGED <<live, catalog, index, deleted, outcomes, edits>>

Loading(request) == [request EXCEPT !.at = "commit", !.rows = rows, !.header = header]

\* The live database is reflected first; a catalog is read in a later step.
Sync(r) ==
    /\ Begin(r, [Idle EXCEPT !.at = "reflected", !.op = "sync", !.schema = live])
    /\ UNCHANGED checks

Upload(r, S) ==
    /\ \E op \in {"merge", "replace"} :
          Begin(r, Loading([Idle EXCEPT !.op = op, !.schema = S]))
    /\ UNCHANGED checks

DescribeTable(r, t, d) ==
    /\ rows[t].id # 0
    /\ Begin(r, Loading([Idle EXCEPT !.op = "describe", !.table = t, !.text = d]))
    /\ UNCHANGED checks

\* ensure_embedded, once in a process: nothing to do unless the index is empty.
Heal(r) ==
    /\ checks < Checks
    /\ checks' = checks + 1
    /\ Begin(r, IF index = NoIndex /\ There(rows) # {}
                THEN [Idle EXCEPT !.at = "embed", !.op = "heal"] ELSE Idle)

\* The route that deletes a connection cleans up after the row is gone.
DeleteConnection(r) ==
    /\ req[r].at = "idle" /\ ~deleted
    /\ deleted' = TRUE
    /\ req' = [req EXCEPT ![r] = [Idle EXCEPT !.at = "purge", !.op = "delete"]]
    /\ ghost' = \E q \in Requests : req[q].at # "idle"
    /\ UNCHANGED <<live, catalog, index, checks, raced, dirty, unseen, bounds>>

-----------------------------------------------------------------------------
(* Transactions on the catalog. *)

\* What the other requests have read is out of date.
Overtake(r, phases, request) ==
    req' = [q \in Requests |-> IF q = r THEN request
                               ELSE IF req[q].at \in phases
                               THEN [req[q] EXCEPT !.stale = TRUE] ELSE req[q]]

Answer(r) == req' = [req EXCEPT ![r] = Idle]

Load(r) ==
    /\ req[r].at = "reflected"
    /\ req' = [req EXCEPT ![r] = Loading(req[r])]
    /\ UNCHANGED <<live, catalog, index, deleted, checks, outcomes, bounds>>

\* The rows a request inserts, updates and deletes.
Inserts(q) == {t \in Tables : q.schema[t] # Absent /\
                              (q.op = "replace" \/ q.rows[t].id = 0)}
Updates(q) == {t \in Tables : q.schema[t] # Absent} \ Inserts(q)
Deletes(q) == CASE q.op = "sync" -> {t \in There(q.rows) : q.schema[t] = Absent /\
                                                          q.rows[t].source = "reflected"}
                [] q.op = "replace" -> Tables
                [] OTHER -> {}

\* A row to be inserted is there, or one to be updated is gone.
Conflict(q) ==
    \/ q.header.st # header.st
    \/ \E t \in Inserts(q) : q.op # "replace" /\ rows[t].id # 0
    \/ \E t \in Updates(q) : rows[t].id # q.rows[t].id

\* Mutant of Updated: the row is written back as it was loaded.
UpdatedWhole(q, t) ==
    [q.rows[t] EXCEPT !.cols = q.schema[t].cols,
                      !.about = q.schema[t].about,
                      !.source = IF q.op = "merge" THEN "uploaded" ELSE @]

\* Of a row that is updated only the columns that differ from those loaded are written;
\* an upload that has no description of a table leaves the one there.
Updated(q, t) ==
    LET new == q.schema[t]
        old == q.rows[t]
    IN  [rows[t] EXCEPT
            !.cols = IF new.cols # old.cols THEN new.cols ELSE @,
            !.about = IF new.about # old.about /\ (q.op = "sync" \/ new.about # NoText)
                      THEN new.about ELSE @,
            !.source = IF q.op = "merge" /\ old.source # "uploaded" THEN "uploaded" ELSE @]

Inserted(q, t) ==
    [id |-> q.number, source |-> IF q.op = "sync" THEN "reflected" ELSE "uploaded",
     cols |-> q.schema[t].cols, about |-> q.schema[t].about, desc |-> NoText,
     new |-> q.op # "replace"]

Written(q) ==
    [t \in Tables |-> IF t \in Inserts(q) THEN Inserted(q, t)
                     ELSE IF t \in Updates(q) THEN Updated(q, t)
                     ELSE IF t \in Deletes(q) /\ rows[t].id \in {0, q.rows[t].id} THEN NoRow
                     ELSE rows[t]]

\* A sync rebuilds the index when the hash or the set of tables is new; an upload does
\* always.
Changed(q) ==
    q.op # "sync" \/ ~q.header.st \/ q.header.hash # Hash(q.schema) \/ Inserts(q) # {}

\* The tables whose chunks nobody is going to rebuild for what is written of them.
Behind(q) ==
    IF Changed(q) THEN {} ELSE {t \in Tables : Chunks(Written(q))[t] # Chunks(rows)[t]}

\* The end of both, after the hash.
Committed(r) ==
    LET q == req[r]
    IN  /\ q.at = "commit" /\ q.op \in {"sync", "merge", "replace"} /\ ~Conflict(q)
        /\ rows' = Written(q)
        /\ said' = [t \in Tables |-> IF t \in Inserts(q) \cup Deletes(q) THEN rows'[t].desc
                                                                  ELSE said[t]]
        /\ raced' = q.stale
        /\ unseen' = unseen \cup Behind(q)
        /\ dirty' = (dirty \/ (Behind(q) # {} /\ (raced \/ q.stale)))
        /\ Overtake(r, {"commit", "reset", "upsert"},
                    IF Changed(q) THEN [Idle EXCEPT !.at = "embed", !.op = q.op] ELSE Idle)
        /\ UNCHANGED <<live, index, deleted, checks, ghost, bounds>>

\* Mutant of CommitSchema: the hash is left as it was.
CommitSchemaKeepsHash(r) == Committed(r) /\ header' = [header EXCEPT !.st = TRUE]

CommitSchema(r) ==
    LET q == req[r]
        hash == Hash(q.schema)
    IN  /\ Committed(r)
        /\ header' = [st |-> TRUE, hash |-> IF ~q.header.st \/ hash # q.header.hash
                                           THEN hash ELSE header.hash]

\* A description that differs from the one loaded; the table is no longer new.
Describe(r) ==
    LET q == req[r]
        t == q.table
        changes == q.text # q.rows[t].desc
    IN  /\ q.at = "commit" /\ q.op = "describe" /\ rows[t].id = q.rows[t].id
        /\ rows' = [rows EXCEPT ![t].desc = IF changes THEN q.text ELSE @, ![t].new = FALSE]
        /\ said' = [said EXCEPT ![t] = IF changes THEN q.text ELSE @]
        /\ Overtake(r, {"reset", "upsert"}, [Idle EXCEPT !.at = "embed", !.op = q.op])
        /\ UNCHANGED <<live, header, index, deleted, checks, outcomes, bounds>>

MarkSeen(t) ==
    /\ ~deleted /\ rows[t].new
    /\ rows' = [rows EXCEPT ![t].new = FALSE]
    /\ UNCHANGED <<live, header, said, index, req, deleted, checks, outcomes, bounds>>

CommitFails(r) ==
    LET q == req[r]
    IN  /\ q.at = "commit"
        /\ IF q.op = "describe" THEN rows[q.table].id # q.rows[q.table].id ELSE Conflict(q)
        /\ Answer(r)
        /\ UNCHANGED <<live, catalog, index, deleted, checks, outcomes, bounds>>

-----------------------------------------------------------------------------
(* _reembed: the catalog is read, the chunks are deleted, then inserted. *)

\* Without a table in the catalog nothing is done, not even a deletion.
ReadCatalog(r) ==
    /\ req[r].at = "embed"
    /\ IF There(rows) = {}
       THEN Answer(r) /\ dirty' = (dirty \/ index # NoIndex)
       ELSE /\ req' = [req EXCEPT ![r].at = "reset", ![r].chunks = Chunks(rows)]
            /\ UNCHANGED dirty
    /\ UNCHANGED <<live, catalog, index, deleted, checks, raced, unseen, ghost, bounds>>

\* Mutant of Reset: the old chunks are left.
ResetSkipped(r) ==
    /\ req[r].at = "reset"
    /\ req' = [req EXCEPT ![r].at = "upsert"]
    /\ UNCHANGED <<live, catalog, index, deleted, checks, outcomes, bounds>>

Reset(r) ==
    /\ req[r].at = "reset"
    /\ index' = NoIndex
    /\ req' = [req EXCEPT ![r].at = "upsert"]
    /\ UNCHANGED <<live, catalog, deleted, checks, outcomes, bounds>>

\* The deletion of the chunks fails, which delete_by_connection keeps to itself: what
\* is written next goes beside the old chunks.
ResetFails(r) ==
    /\ req[r].at = "reset"
    /\ req' = [req EXCEPT ![r].at = "upsert", ![r].stale = TRUE]
    /\ dirty' = TRUE
    /\ UNCHANGED <<live, catalog, index, deleted, checks, raced, unseen, ghost, bounds>>

Upsert(r) ==
    LET q == req[r]
    IN  /\ q.at = "upsert"
        /\ index' = [t \in Tables |-> IF q.chunks[t] # NoChunk THEN q.chunks[t] ELSE index[t]]
        /\ dirty' = q.stale /\ unseen' = {}
        /\ Overtake(r, {"upsert"}, Idle)
        /\ UNCHANGED <<live, catalog, deleted, checks, raced, ghost, bounds>>

\* The catalog is not read, or the embedder or the insertion fails: logged, and the
\* request succeeds.
EmbedFails(r) ==
    /\ req[r].at \in {"embed", "reset", "upsert"}
    /\ Answer(r)
    /\ dirty' = TRUE
    /\ UNCHANGED <<live, catalog, index, deleted, checks, raced, unseen, ghost, bounds>>

-----------------------------------------------------------------------------
(* The cleanup after a deletion. *)

DeleteCatalog(r) ==
    /\ req[r].at = "purge"
    /\ rows' = [t \in Tables |-> NoRow]
    /\ header' = [st |-> FALSE, hash |-> NoTables]
    /\ said' = [t \in Tables |-> NoText]
    /\ Overtake(r, {"commit", "reset", "upsert"}, [req[r] EXCEPT !.at = "forget"])
    /\ UNCHANGED <<live, index, deleted, checks, outcomes, bounds>>

\* Mutant of DeleteChunks: the chunks are left.
DeleteChunksSkipped(r) ==
    /\ req[r].at = "forget"
    /\ Answer(r)
    /\ UNCHANGED <<live, catalog, index, deleted, checks, outcomes, bounds>>

DeleteChunks(r) ==
    /\ req[r].at = "forget"
    /\ index' = NoIndex
    /\ Answer(r)
    /\ UNCHANGED <<live, catalog, deleted, checks, outcomes, bounds>>

CleanupFails(r) ==
    /\ req[r].at \in {"purge", "forget"}
    /\ Answer(r)
    /\ ghost' = TRUE
    /\ UNCHANGED <<live, catalog, index, deleted, checks, raced, dirty, unseen, bounds>>

-----------------------------------------------------------------------------
Serve(r) ==
    \/ Sync(r) \/ Heal(r) \/ DeleteConnection(r)
    \/ \E S \in Schemas : Upload(r, S)
    \/ \E t \in Tables, d \in Texts \cup {NoText} : DescribeTable(r, t, d)
    \/ Load(r) \/ CommitSchema(r) \/ Describe(r) \/ CommitFails(r)
    \/ ReadCatalog(r) \/ Reset(r) \/ ResetFails(r) \/ Upsert(r) \/ EmbedFails(r)
    \/ DeleteCatalog(r) \/ DeleteChunks(r) \/ CleanupFails(r)

Next == (\E r \in Requests : Serve(r)) \/ (\E t \in Tables : Migrate(t) \/ MarkSeen(t))

Spec == Init /\ [][Next]_vars

-----------------------------------------------------------------------------
TypeOK ==
    /\ live \in Schemas
    /\ rows \in [Tables -> Row]
    /\ \A t \in Tables : rows[t].id = 0 <=> rows[t].cols = Absent
    /\ header \in Header
    /\ index \in [Tables -> Chunk]
    /\ req \in [Requests -> Request]
    /\ said \in [Tables -> Texts \cup {NoText}]
    /\ {deleted, raced, dirty, ghost} \subseteq BOOLEAN /\ unseen \subseteq Tables
    /\ checks \in Nat /\ count \in Nat /\ edits \in Nat

\* The stored hash speaks for the catalog: the tables it covers are there with the
\* columns, comments apart, and the descriptions it covers, so that a sync may skip the
\* index when the hash is the same; unless a sync or an upload has committed over
\* another it had not seen.  Of an uploaded table it says that there is no description
\* when there may be an older one, which the upload has kept.
Covers(mark, row) ==
    /\ row.id # 0 /\ Shape[row.cols] = mark.shape
    /\ row.about = mark.about \/ (mark.about = NoText /\ row.source = "uploaded")

HashVouches ==
    ~raced /\ header.st =>
        \A t \in Tables : header.hash[t] # Absent => Covers(header.hash[t], rows[t])

\* A description survives every sync and every merged upload that overlaps the request
\* which gave it, for as long as the row of the table does.
DescriptionsSticky ==
    \A t \in Tables : rows[t].id # 0 => rows[t].desc = said[t]

\* What the hash does not tell: that a table is gone which it never covered, what the
\* comments of the columns are, and that a description kept by an upload is gone.
Untold(t) ==
    LET mark == header.hash[t]
        chunk == Chunks(rows)[t]
    IN  IF rows[t].id = 0 THEN mark = Absent
        ELSE /\ mark # Absent /\ index[t][1] # Absent /\ Shape[index[t][1]] = Shape[chunk[1]]
             /\ \/ index[t][2] = chunk[2]
                \/ mark.about = NoText /\ rows[t].desc = NoText /\ rows[t].source = "uploaded"

\* When nobody is about to rebuild it, the index holds the chunks of the catalog, of
\* every table but those a sync has since changed in what the hash does not tell;
\* except after a failed rebuild, two that overlapped, an empty catalog, and a sync
\* under an unchanged hash when two commits have overlapped.
IndexFollows ==
    ~deleted /\ ~dirty /\ (\A r \in Requests : req[r].at \notin {"embed", "reset", "upsert"})
        => \A t \in Tables : index[t] = Chunks(rows)[t] \/ (t \in unseen /\ Untold(t))

\* Nothing of a deleted connection is left once its cleanup has succeeded, unless a
\* request that had resolved the connection before was still under way.
NothingLeft ==
    deleted /\ ~ghost /\ (\A r \in Requests : req[r].at = "idle")
        => There(rows) = {} /\ ~header.st /\ index = NoIndex
=============================================================================
