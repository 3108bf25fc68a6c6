------------------------ MODULE SchemaCatalog_proofs ------------------------
(***************************************************************************)
(* Proofs about SchemaCatalog for any tables, contents, shapes, texts,     *)
(* requests and bounds.                                                    *)
(***************************************************************************)
EXTENDS SchemaCatalog, TLAPS

-----------------------------------------------------------------------------
(* The invariant, in layers: types; what a commit relies on; what the      *)
(* rebuild of the index relies on; what the cleanup has left.              *)

\* A table without a row has no description either.
EmptyRows == \A t \in Tables : rows[t].id = 0 => rows[t].desc = NoText /\ rows[t].about = NoText

\* A request that may insert rows has a number, and one that describes a table has
\* loaded its row.
Sound(q) ==
    /\ q \in Request
    /\ q.at \in {"reflected", "commit"} => q.number # 0
    /\ q.at = "reflected" => q.op = "sync"
    /\ q.at = "commit" /\ q.op = "describe" => q.table \in Tables /\ q.rows[q.table].id # 0

Typed == TypeOK /\ EmptyRows /\ \A r \in Requests : Sound(req[r])

\* Rows that say the same of a table, but for what its user says of it.
Likewise(row, other) ==
    /\ row.id = other.id /\ row.cols = other.cols
    /\ row.about = other.about /\ row.source = other.source

\* What a transaction has loaded and nobody has overtaken is still the catalog.
Loaded(q) ==
    q.at = "commit" /\ q.op # "describe" /\ ~q.stale =>
        /\ q.header = header
        /\ \A t \in Tables : Likewise(q.rows[t], rows[t])

Vouched == HashVouches /\ \A r \in Requests : Loaded(req[r])

\* What a rebuild has read and nobody has overtaken is still the catalog, and the
\* chunks it is not going to write have been deleted.
Faithful(q) ==
    /\ q.at \in {"reset", "upsert"} /\ ~q.stale => q.chunks = Chunks(rows)
    /\ q.at = "upsert" /\ ~q.stale =>
          \A t \in Tables : q.chunks[t] = NoChunk => index[t] = NoChunk

\* Only a deletion cleans up, and unless something went wrong or was still under way
\* there is nothing but cleanups after it; the chunks are deleted after the catalog.
Swept == There(rows) = {} /\ ~header.st

Cleaning ==
    /\ \A r \in Requests : req[r].at \in {"purge", "forget"} => deleted
    /\ deleted /\ ~ghost =>
          \A r \in Requests : /\ req[r].at \in {"idle", "purge", "forget"}
                              /\ req[r].at = "forget" => Swept

Followed == IndexFollows /\ \A r \in Requests : Faithful(req[r])

CatalogInv ==
    Typed /\ Vouched /\ DescriptionsSticky /\ Cleaning /\ Followed /\ NothingLeft

-----------------------------------------------------------------------------
(* Requests: one of them moves, and what the others have read may become   *)
(* stale.                                                                  *)

LEMMA IdleTyped ==
    /\ NoTables \in Schemas /\ NoTables \in Hashes /\ NoRow \in Row
    /\ NoIndex \in [Tables -> Chunk] /\ Idle \in Request
<1>1. /\ NoTables \in Schemas /\ NoTables \in Hashes /\ NoRow \in Row
      /\ NoIndex \in [Tables -> Chunk]
  BY DEF NoTables, Schemas, Hashes, NoRow, Row, NoIndex, NoChunk, Chunk
<1> QED
  BY <1>1 DEF Idle, Request, Header

\* A hash marks the tables that are there.
LEMMA HashTyped ==
    ASSUME NEW S \in Schemas
    PROVE  /\ Hash(S) \in Hashes
           /\ \A t \in Tables : S[t] # Absent =>
                 /\ S[t] \in Content /\ S[t].cols \in Columns /\ S[t].about \in Texts \cup {NoText}
                 /\ Hash(S)[t] # Absent
                 /\ Hash(S)[t].shape = Shape[S[t].cols] /\ Hash(S)[t].about = S[t].about
           /\ \A t \in Tables : S[t] = Absent => Hash(S)[t] = Absent
<1>1. ASSUME NEW t \in Tables, S[t] # Absent
      PROVE  /\ S[t] \in Content /\ S[t].cols \in Columns /\ S[t].about \in Texts \cup {NoText}
             /\ [shape |-> Shape[S[t].cols], about |-> S[t].about] \in Mark
  <2>1. S[t] \in Content
    BY <1>1, CatalogAssumption DEF Schemas
  <2>2. S[t].cols \in Columns /\ S[t].about \in Texts \cup {NoText}
    BY <2>1 DEF Content
  <2>3. Shape[S[t].cols] \in Shapes
    BY <2>2, CatalogAssumption
  <2> QED
    BY <2>1, <2>2, <2>3 DEF Mark
<1>2. Hash(S) \in Hashes
  BY <1>1 DEF Hash, Hashes
<1>3. ASSUME NEW t \in Tables, S[t] # Absent
      PROVE  /\ Hash(S)[t] # Absent
             /\ Hash(S)[t].shape = Shape[S[t].cols] /\ Hash(S)[t].about = S[t].about
  <2>1. Hash(S)[t] = [shape |-> Shape[S[t].cols], about |-> S[t].about]
    BY <1>3 DEF Hash
  <2> QED
    BY <1>1, <1>3, <2>1, CatalogAssumption
<1>4. \A t \in Tables : S[t] = Absent => Hash(S)[t] = Absent
  BY DEF Hash
<1> QED
  BY <1>1, <1>2, <1>3, <1>4

LEMMA IdleSound == Sound(Idle)
BY IdleTyped DEF Sound, Idle

\* The request w is q but for what it has been overtaken by.
Same(q, w) ==
    /\ w.at = q.at /\ w.op = q.op /\ w.schema = q.schema /\ w.number = q.number
    /\ w.table = q.table /\ w.text = q.text /\ w.rows = q.rows /\ w.header = q.header
    /\ w.chunks = q.chunks /\ (q.stale => w.stale)

\* A step of one request leaves it in one of the phases `ats` and marks the others in
\* `phases` as overtaken.
Leaves(r, phases, ats) ==
    /\ req'[r].at \in ats
    /\ \A q \in Requests \ {r} : /\ Same(req[q], req'[q])
                                 /\ req[q].at \in phases => req'[q].stale

\* A step of one request replaces it and marks the others in the phases given.
LEMMA Overtaking ==
    ASSUME req \in [Requests -> Request], NEW r \in Requests, NEW phases, NEW w \in Request,
           Overtake(r, phases, w)
    PROVE  /\ req' \in [Requests -> Request]
           /\ req'[r] = w
           /\ Leaves(r, phases, {w.at})
<1>1. req' = [q \in Requests |-> IF q = r THEN w
                                 ELSE IF req[q].at \in phases
                                 THEN [req[q] EXCEPT !.stale = TRUE] ELSE req[q]]
  BY DEF Overtake
<1>2. req'[r] = w
  BY <1>1
<1>3. ASSUME NEW q \in Requests \ {r}
      PROVE  /\ req'[q] \in Request /\ Same(req[q], req'[q])
             /\ req[q].at \in phases => req'[q].stale
  <2>1. req[q] \in Request
    OBVIOUS
  <2>2. CASE req[q].at \in phases
    <3>1. req'[q] = [req[q] EXCEPT !.stale = TRUE]
      BY <1>1, <2>2
    <3> QED
      BY <2>1, <3>1 DEF Request, Same
  <2>3. CASE req[q].at \notin phases
    BY <1>1, <2>1, <2>3 DEF Same
  <2> QED
    BY <2>2, <2>3
<1>4. req' \in [Requests -> Request]
  BY <1>1, <1>2, <1>3
<1> QED
  BY <1>2, <1>3, <1>4 DEF Leaves

\* A step that replaces one request marks nobody.
LEMMA Moving ==
    ASSUME req \in [Requests -> Request], NEW r \in Requests, NEW w,
           req' = [req EXCEPT ![r] = w]
    PROVE  Overtake(r, {}, w)
BY DEF Overtake

LEMMA OthersSound ==
    ASSUME Typed, NEW r \in Requests, NEW phases, NEW w, Sound(w), Overtake(r, phases, w)
    PROVE  /\ req' \in [Requests -> Request] /\ \A q \in Requests : Sound(req'[q])
           /\ req'[r] = w /\ Leaves(r, phases, {w.at})
<1>1. req \in [Requests -> Request] /\ w \in Request
  BY DEF Typed, TypeOK, Sound
<1>2. req' \in [Requests -> Request] /\ req'[r] = w /\ Leaves(r, phases, {w.at})
  BY <1>1, Overtaking
<1>3. ASSUME NEW q \in Requests \ {r} PROVE Sound(req'[q])
  <2>1. req'[q] \in Request /\ Same(req[q], req'[q]) /\ Sound(req[q])
    BY <1>2 DEF Typed, Leaves
  <2> QED
    BY <2>1 DEF Sound, Same
<1> QED
  BY <1>2, <1>3

\* The request under which an action leaves the one it is about.
LEMMA LoadingSound ==
    ASSUME Typed, NEW q \in Request
    PROVE  /\ Loading(q) \in Request /\ Loading(q).at = "commit" /\ Loading(q).rows = rows
           /\ Loading(q).header = header /\ Loading(q).number = q.number
           /\ Loading(q).op = q.op /\ Loading(q).table = q.table /\ Loading(q).stale = q.stale
BY DEF Typed, TypeOK, Loading, Request

LEMMA BeginMoves ==
    ASSUME Typed, NEW r \in Requests, NEW request \in Request, Begin(r, request),
           request.at = "reflected" => request.op = "sync",
           request.at = "commit" /\ request.op = "describe" =>
               request.table \in Tables /\ request.rows[request.table].id # 0
    PROVE  \E w : /\ Overtake(r, {}, w) /\ Sound(w) /\ w.at = request.at
                  /\ request.at # "idle" => /\ w.op = request.op /\ w.rows = request.rows
                                            /\ w.header = request.header
<1> DEFINE w == [request EXCEPT !.number = count + 1]
<1>0. req \in [Requests -> Request] /\ count \in Nat
  BY DEF Typed, TypeOK
<1>1. CASE request.at = "idle"
  <2>1. req' = [req EXCEPT ![r] = Idle]
    BY <1>1 DEF Begin
  <2> QED
    BY <1>0, <1>1, <2>1, Moving, IdleSound DEF Idle
<1>2. CASE request.at # "idle"
  <2>1. req' = [req EXCEPT ![r] = w]
    BY <1>2 DEF Begin
  <2>0. count + 1 \in Nat /\ count + 1 # 0
    BY <1>0
  <2>2. /\ w \in Request /\ w.at = request.at /\ w.op = request.op /\ w.number = count + 1
        /\ w.table = request.table /\ w.rows = request.rows
        /\ w.header = request.header
    BY <2>0 DEF Request
  <2> HIDE DEF w
  <2>3. Sound(w)
    BY <2>0, <2>2 DEF Sound
  <2> QED
    BY <1>0, <2>1, <2>2, <2>3, Moving
<1> QED
  BY <1>1, <1>2

-----------------------------------------------------------------------------
(* Types. *)

LEMMA ChunksTyped == ASSUME Typed PROVE Chunks(rows) \in [Tables -> Chunk]
<1>1. \A t \in Tables : rows[t] \in Row
  BY DEF Typed, TypeOK
<1> QED
  BY <1>1 DEF Chunks, Chunk, Row

\* What a commit writes is a row that is there, or no row.
LEMMA WrittenRows ==
    ASSUME Typed, NEW q, Sound(q), q.at = "commit", ~Conflict(q)
    PROVE  \A t \in Tables : /\ Written(q)[t] \in Row
                             /\ Written(q)[t].id = 0 <=> Written(q)[t].cols = Absent
                             /\ Written(q)[t].id = 0 => /\ Written(q)[t].desc = NoText
                                                        /\ Written(q)[t].about = NoText
<1> SUFFICES ASSUME NEW t \in Tables
             PROVE  /\ Written(q)[t] \in Row
                    /\ Written(q)[t].id = 0 <=> Written(q)[t].cols = Absent
                    /\ Written(q)[t].id = 0 => /\ Written(q)[t].desc = NoText
                                               /\ Written(q)[t].about = NoText
  OBVIOUS
<1>1. /\ rows[t] \in Row /\ (rows[t].id = 0 <=> rows[t].cols = Absent)
      /\ rows[t].id = 0 => rows[t].desc = NoText /\ rows[t].about = NoText
  BY DEF Typed, TypeOK, EmptyRows
<1>2. /\ q.number \in Nat /\ q.number # 0 /\ q.rows[t] \in Row
      /\ q.schema[t] # Absent => /\ q.schema[t].cols \in Columns
                                 /\ q.schema[t].about \in Texts \cup {NoText}
  BY HashTyped DEF Sound, Request
<1>0. Absent \notin Columns
  BY CatalogAssumption
<1>3. CASE t \in Inserts(q)
  <2>1. Written(q)[t] = Inserted(q, t) /\ q.schema[t] # Absent
    BY <1>3 DEF Written, Inserts
  <2> QED
    BY <1>0, <1>2, <2>1 DEF Inserted, Row
<1>4. CASE t \notin Inserts(q) /\ t \in Updates(q)
  <2>1. Written(q)[t] = Updated(q, t)
    BY <1>4 DEF Written
  <2>2. q.schema[t] # Absent /\ q.rows[t].id # 0 /\ rows[t].id = q.rows[t].id
    BY <1>4 DEF Updates, Inserts, Conflict
  <2>3. /\ Updated(q, t) \in Row /\ Updated(q, t).id = rows[t].id
        /\ Updated(q, t).cols \in {q.schema[t].cols, rows[t].cols}
    BY <1>1, <1>2, <2>2 DEF Updated, Row
  <2> QED
    BY <1>0, <1>1, <1>2, <2>1, <2>2, <2>3
<1>5. CASE t \notin Inserts(q) /\ t \notin Updates(q)
  <2>1. Written(q)[t] = NoRow \/ Written(q)[t] = rows[t]
    BY <1>5 DEF Written
  <2>2. /\ NoRow.id = 0 /\ NoRow.cols = Absent /\ NoRow.desc = NoText /\ NoRow.about = NoText
        /\ NoRow \in Row
    BY IdleTyped DEF NoRow
  <2> QED
    BY <1>1, <2>1, <2>2
<1> QED
  BY <1>3, <1>4, <1>5

\* The types of everything but the requests, which a step of them may leave alone.
Stores ==
    /\ live \in Schemas
    /\ rows \in [Tables -> Row]
    /\ \A t \in Tables : rows[t].id = 0 <=> rows[t].cols = Absent
    /\ EmptyRows
    /\ header \in Header
    /\ index \in [Tables -> Chunk]
    /\ said \in [Tables -> Texts \cup {NoText}]
    /\ {deleted, raced, dirty, ghost} \subseteq BOOLEAN /\ unseen \subseteq Tables
    /\ checks \in Nat /\ count \in Nat /\ edits \in Nat

LEMMA TypedParts ==
    Typed <=> Stores /\ req \in [Requests -> Request] /\ \A r \in Requests : Sound(req[r])
BY DEF Typed, TypeOK, Stores

LEMMA TypedInit == Init => Typed
<1> SUFFICES ASSUME Init PROVE Typed
  OBVIOUS
<1>1. Stores
  BY IdleTyped DEF Init, Stores, EmptyRows, NoRow, Header
<1>2. req \in [Requests -> Request] /\ \A r \in Requests : Sound(req[r])
  BY IdleTyped, IdleSound DEF Init
<1> QED
  BY <1>1, <1>2, TypedParts

LEMMA TypedMoves ==
    ASSUME Typed, Stores', NEW r \in Requests, NEW phases, NEW w, Sound(w), Overtake(r, phases, w)
    PROVE  Typed' /\ req'[r] = w /\ Leaves(r, phases, {w.at})
<1>1. /\ req' \in [Requests -> Request] /\ \A q \in Requests : Sound(req'[q])
      /\ req'[r] = w /\ Leaves(r, phases, {w.at})
  BY OthersSound
<1> QED
  BY <1>1 DEF Typed, TypeOK, Stores, EmptyRows, Sound

\* Each action of a request keeps the types, and leaves the request and the others as
\* its lemma says.

\* Requests begin.
LEMMA SyncStep == ASSUME Typed, NEW r \in Requests, Sync(r)
              PROVE  Typed' /\ Leaves(r, {}, {"reflected"})
<1> DEFINE request == [Idle EXCEPT !.at = "reflected", !.op = "sync", !.schema = live]
<1>1. request \in Request /\ request.at = "reflected" /\ request.op = "sync"
  BY IdleTyped DEF Typed, TypeOK, Request
<1>2. Begin(r, request)
  BY DEF Sync
<1> HIDE DEF request
<1>3. PICK w : Overtake(r, {}, w) /\ Sound(w) /\ w.at = "reflected"
  BY <1>1, <1>2, BeginMoves
<1>4. Stores'
  BY <1>2 DEF Sync, Begin, catalog, outcomes, Typed, TypeOK, Stores, EmptyRows
<1> QED
  BY <1>3, <1>4, TypedMoves

LEMMA UploadStep ==
    ASSUME Typed, NEW r \in Requests, NEW S \in Schemas, Upload(r, S)
    PROVE  /\ Typed' /\ Leaves(r, {}, {"commit"})
           /\ req'[r].rows = rows /\ req'[r].header = header
<1>1. PICK op \in {"merge", "replace"} : Begin(r, Loading([Idle EXCEPT !.op = op, !.schema = S]))
  BY DEF Upload
<1> DEFINE base == [Idle EXCEPT !.op = op, !.schema = S]
<1>2. base \in Request /\ base.op = op
  BY IdleTyped DEF Request
<1> HIDE DEF base
<1>3. /\ Loading(base) \in Request /\ Loading(base).op = op /\ Loading(base).at = "commit"
      /\ Loading(base).rows = rows /\ Loading(base).header = header
  BY <1>2, LoadingSound
<1>4. PICK w : /\ Overtake(r, {}, w) /\ Sound(w) /\ w.at = "commit"
               /\ w.rows = rows /\ w.header = header
  BY <1>1, <1>3, BeginMoves DEF base
<1>5. Stores'
  BY <1>1 DEF Upload, Begin, catalog, outcomes, Typed, TypeOK, Stores, EmptyRows
<1> QED
  BY <1>4, <1>5, TypedMoves

LEMMA DescribeTableStep ==
    ASSUME Typed, NEW r \in Requests, NEW t \in Tables, NEW d \in Texts \cup {NoText},
           DescribeTable(r, t, d)
    PROVE  Typed' /\ Leaves(r, {}, {"commit"}) /\ req'[r].op = "describe"
<1> DEFINE base == [Idle EXCEPT !.op = "describe", !.table = t, !.text = d]
<1>1. Begin(r, Loading(base)) /\ rows[t].id # 0
  BY DEF DescribeTable
<1>2. base \in Request /\ base.table = t /\ base.op = "describe"
  BY IdleTyped DEF Request
<1> HIDE DEF base
<1>3. /\ Loading(base) \in Request /\ Loading(base).at = "commit"
      /\ Loading(base).table = t /\ Loading(base).rows = rows /\ Loading(base).op = "describe"
  BY <1>2, LoadingSound
<1>4. PICK w : Overtake(r, {}, w) /\ Sound(w) /\ w.at = "commit" /\ w.op = "describe"
  BY <1>1, <1>3, BeginMoves
<1>5. Stores'
  BY <1>1 DEF DescribeTable, Begin, catalog, outcomes, Typed, TypeOK, Stores, EmptyRows
<1> QED
  BY <1>4, <1>5, TypedMoves

LEMMA HealStep == ASSUME Typed, NEW r \in Requests, Heal(r)
              PROVE  Typed' /\ Leaves(r, {}, {"idle", "embed"})
<1> DEFINE request == IF index = NoIndex /\ There(rows) # {}
                      THEN [Idle EXCEPT !.at = "embed", !.op = "heal"] ELSE Idle
<1>1. Begin(r, request)
  BY DEF Heal
<1>2. request \in Request /\ request.at \in {"idle", "embed"}
  <2>1. Idle \in Request /\ Idle.at = "idle"
    BY IdleTyped DEF Idle
  <2>2. [Idle EXCEPT !.at = "embed", !.op = "heal"] \in Request
    BY <2>1 DEF Request
  <2>3. [Idle EXCEPT !.at = "embed", !.op = "heal"].at = "embed"
    BY <2>1 DEF Request
  <2> QED
    BY <2>1, <2>2, <2>3
<1> HIDE DEF request
<1>3. PICK w : Overtake(r, {}, w) /\ Sound(w) /\ w.at = request.at
  BY <1>1, <1>2, BeginMoves
<1>4. Stores'
  BY <1>1 DEF Heal, Begin, catalog, outcomes, Typed, TypeOK, Stores, EmptyRows
<1> QED
  BY <1>2, <1>3, <1>4, TypedMoves DEF Leaves

LEMMA DeleteConnectionStep ==
    ASSUME Typed, NEW r \in Requests, DeleteConnection(r)
    PROVE  Typed' /\ Leaves(r, {}, {"purge"})
<1> DEFINE w == [Idle EXCEPT !.at = "purge", !.op = "delete"]
<1>1. w \in Request /\ w.at = "purge" /\ req' = [req EXCEPT ![r] = w]
  BY IdleTyped DEF DeleteConnection, Request
<1> HIDE DEF w
<1>2. Sound(w) /\ Overtake(r, {}, w)
  BY <1>1, Moving DEF Sound, Typed, TypeOK
<1>3. Stores'
  BY DEF DeleteConnection, catalog, bounds, Typed, TypeOK, Stores, EmptyRows
<1> QED
  BY <1>1, <1>2, <1>3, TypedMoves

\* Transactions.
LEMMA LoadStep ==
    ASSUME Typed, NEW r \in Requests, Load(r)
    PROVE  /\ Typed' /\ Leaves(r, {}, {"commit"})
           /\ req'[r].rows = rows /\ req'[r].header = header
<1> DEFINE w == Loading(req[r])
<1>1. Sound(req[r]) /\ req[r].at = "reflected" /\ req' = [req EXCEPT ![r] = w]
  BY DEF Typed, Load
<1>2. /\ w \in Request /\ w.rows = rows /\ w.header = header /\ w.number = req[r].number
      /\ w.op = req[r].op /\ w.at = "commit"
  BY <1>1, LoadingSound DEF Sound
<1> HIDE DEF w
<1>3. Sound(w) /\ Overtake(r, {}, w)
  BY <1>1, <1>2, Moving DEF Sound, Typed, TypeOK
<1>4. Stores'
  BY DEF Load, catalog, outcomes, bounds, Typed, TypeOK, Stores, EmptyRows
<1> QED
  BY <1>2, <1>3, <1>4, TypedMoves

\* The phases after a commit carry no number and no table.
LEMMA BuildingSound ==
    ASSUME NEW op \in {"none", "sync", "merge", "replace", "describe", "heal", "delete"}
    PROVE  LET w == [Idle EXCEPT !.at = "embed", !.op = op]
           IN  Sound(w) /\ w.at = "embed" /\ w.op = op
<1> DEFINE w == [Idle EXCEPT !.at = "embed", !.op = op]
<1>1. w \in Request /\ w.at = "embed" /\ w.op = op
  BY IdleTyped DEF Request
<1> HIDE DEF w
<1>2. Sound(w)
  BY <1>1 DEF Sound
<1> QED
  BY <1>1, <1>2 DEF w

LEMMA CommitSchemaStep ==
    ASSUME Typed, NEW r \in Requests, CommitSchema(r)
    PROVE  Typed' /\ Leaves(r, {"commit", "reset", "upsert"}, IF Changed(req[r]) THEN {"embed"} ELSE {"idle"})
<1> DEFINE q == req[r]
           w == IF Changed(q) THEN [Idle EXCEPT !.at = "embed", !.op = q.op] ELSE Idle
<1>1. /\ Sound(q) /\ q \in Request /\ q.at = "commit" /\ ~Conflict(q)
      /\ Overtake(r, {"commit", "reset", "upsert"}, w)
  BY DEF Typed, CommitSchema, Committed, Sound
<1>2. Sound(w) /\ w.at = IF Changed(q) THEN "embed" ELSE "idle"
  BY <1>1, IdleSound, BuildingSound DEF Request, Idle
<1>3. \A t \in Tables : /\ rows'[t] \in Row /\ (rows'[t].id = 0 <=> rows'[t].cols = Absent)
                        /\ rows'[t].id = 0 => rows'[t].desc = NoText /\ rows'[t].about = NoText
  BY <1>1, WrittenRows DEF CommitSchema, Committed
<1>4. rows' \in [Tables -> Row]
  <2>1. rows' = [t \in Tables |-> Written(q)[t]]
    BY DEF CommitSchema, Committed, Written
  <2> QED
    BY <1>3, <2>1
<1>5. header' \in Header
  <2>1. Hash(q.schema) \in Hashes
    BY <1>1, HashTyped DEF Request
  <2> QED
    BY <2>1 DEF CommitSchema, Header, Typed, TypeOK
<1>6. said' \in [Tables -> Texts \cup {NoText}]
  BY <1>3 DEF CommitSchema, Committed, Row, Typed, TypeOK
<1>7. {deleted', raced', dirty', ghost'} \subseteq BOOLEAN /\ unseen' \subseteq Tables
  BY <1>1 DEF CommitSchema, Committed, Behind, Request, Typed, TypeOK
<1>8. Stores'
  BY <1>3, <1>4, <1>5, <1>6, <1>7 DEF CommitSchema, Committed, bounds, Typed, TypeOK, Stores, EmptyRows
<1> HIDE DEF w
<1> QED
  BY <1>1, <1>2, <1>8, TypedMoves DEF Leaves

\* A description changes a row that is there, and only what the user says of it.
LEMMA DescribedRows ==
    ASSUME Typed, NEW r \in Requests, Describe(r)
    PROVE  \E t \in Tables :
              /\ rows[t].id # 0
              /\ rows' \in [Tables -> Row] /\ said' \in [Tables -> Texts \cup {NoText}]
              /\ \A u \in Tables : Likewise(rows'[u], rows[u])
              /\ \A u \in Tables \ {t} : rows'[u] = rows[u] /\ said'[u] = said[u]
              /\ \/ rows'[t].desc = rows[t].desc /\ said'[t] = said[t]
                 \/ rows'[t].desc = said'[t]
<1> DEFINE q == req[r]
           t == q.table
           d == IF q.text # q.rows[t].desc THEN q.text ELSE rows[t].desc
           row == [rows[t] EXCEPT !.desc = d, !.new = FALSE]
<1>1. /\ q \in Request /\ t \in Tables /\ q.rows[t].id # 0 /\ rows[t].id = q.rows[t].id
  BY DEF Typed, Describe, Sound
<1>2. rows[t] \in Row /\ q.text \in Texts \cup {NoText}
  BY <1>1 DEF Typed, TypeOK, Request
<1>3. d \in Texts \cup {NoText}
  BY <1>2 DEF Row
<1>4. rows' = [rows EXCEPT ![t] = row]
  BY <1>1, <1>2 DEF Describe
<1>5. said' = [said EXCEPT ![t] = IF q.text # q.rows[t].desc THEN q.text ELSE said[t]]
  BY DEF Describe
<1>6. row \in Row /\ Likewise(row, rows[t]) /\ row.desc = d
  <2> HIDE DEF d
  <2> QED
    BY <1>2, <1>3 DEF Row, Likewise
<1> HIDE DEF row, t, q
<1>7. rows' \in [Tables -> Row] /\ rows'[t] = row /\ \A u \in Tables \ {t} : rows'[u] = rows[u]
  BY <1>1, <1>4, <1>6 DEF Typed, TypeOK
<1>8. /\ said' \in [Tables -> Texts \cup {NoText}]
      /\ said'[t] = IF q.text # q.rows[t].desc THEN q.text ELSE said[t]
      /\ \A u \in Tables \ {t} : said'[u] = said[u]
  BY <1>1, <1>2, <1>5 DEF Typed, TypeOK
<1>9. \A u \in Tables : Likewise(rows'[u], rows[u])
  BY <1>6, <1>7 DEF Likewise
<1> QED
  BY <1>1, <1>6, <1>7, <1>8, <1>9

LEMMA DescribeStep ==
    ASSUME Typed, NEW r \in Requests, Describe(r)
    PROVE  Typed' /\ Leaves(r, {"reset", "upsert"}, {"embed"})
<1> DEFINE w == [Idle EXCEPT !.at = "embed", !.op = "describe"]
<1>1. Overtake(r, {"reset", "upsert"}, w) /\ Sound(w) /\ w.at = "embed"
  BY BuildingSound DEF Describe
<1>2. Stores'
  <2>1. /\ rows' \in [Tables -> Row] /\ said' \in [Tables -> Texts \cup {NoText}]
        /\ \A t \in Tables : rows'[t].id = 0 <=> rows'[t].cols = Absent
        /\ \A t \in Tables : rows'[t].id = 0 => rows'[t].desc = NoText /\ rows'[t].about = NoText
    BY DescribedRows DEF Typed, TypeOK, EmptyRows, Likewise
  <2> QED
    BY <2>1 DEF Describe, outcomes, bounds, Typed, TypeOK, Stores, EmptyRows
<1> HIDE DEF w
<1> QED
  BY <1>1, <1>2, TypedMoves

\* That a table has been seen changes nothing else of its row.
LEMMA MarkSeenRows ==
    ASSUME Typed, NEW t \in Tables, MarkSeen(t)
    PROVE  /\ rows' \in [Tables -> Row]
           /\ \A u \in Tables : Likewise(rows'[u], rows[u]) /\ rows'[u].desc = rows[u].desc
<1> DEFINE row == [rows[t] EXCEPT !.new = FALSE]
<1>1. rows \in [Tables -> Row] /\ rows[t] \in Row /\ rows' = [rows EXCEPT ![t] = row]
  BY DEF Typed, TypeOK, MarkSeen
<1>2. row \in Row /\ Likewise(row, rows[t]) /\ row.desc = rows[t].desc
  BY <1>1 DEF Row, Likewise
<1> HIDE DEF row
<1> QED
  BY <1>1, <1>2 DEF Likewise

LEMMA MarkSeenStep == ASSUME Typed, NEW t \in Tables, MarkSeen(t) PROVE Typed'
<1>0. Stores /\ req \in [Requests -> Request] /\ \A r \in Requests : Sound(req[r])
  BY TypedParts
<1>1. Stores'
  <2>1. UNCHANGED <<live, header, said, index, deleted, checks, outcomes, bounds>>
    BY DEF MarkSeen
  <2>2. /\ rows' \in [Tables -> Row]
        /\ \A u \in Tables : Likewise(rows'[u], rows[u]) /\ rows'[u].desc = rows[u].desc
    BY MarkSeenRows
  <2>3. \A u \in Tables : rows'[u].id = 0 <=> rows'[u].cols = Absent
    BY <1>0, <2>2 DEF Stores, Likewise
  <2>4. EmptyRows'
    BY <1>0, <2>2 DEF Stores, EmptyRows, Likewise
  <2> QED
    BY <1>0, <2>1, <2>2, <2>3, <2>4 DEF Stores, outcomes, bounds
<1>2. req' = req
  BY DEF MarkSeen
<1> QED
  BY <1>1, <1>2 DEF Typed, TypeOK, Stores, EmptyRows, Sound

LEMMA MigrateStep == ASSUME Typed, NEW t \in Tables, Migrate(t) PROVE Typed'
<1>1. live' \in Schemas
  BY DEF Migrate, Typed, TypeOK, Schemas
<1>2. Stores'
  BY <1>1 DEF Migrate, catalog, outcomes, Typed, TypeOK, Stores, EmptyRows
<1>3. req' = req
  BY DEF Migrate
<1> QED
  BY <1>2, <1>3 DEF Typed, TypeOK, Stores, EmptyRows, Sound

\* Steps after which a request has been answered.
LEMMA AnswerStep ==
    ASSUME Typed, NEW r \in Requests, Answer(r), Stores'
    PROVE  Typed' /\ Leaves(r, {}, {"idle"})
<1>1. Overtake(r, {}, Idle) /\ Idle.at = "idle"
  BY Moving DEF Answer, Typed, TypeOK, Idle
<1> QED
  BY <1>1, IdleSound, TypedMoves

LEMMA CommitFailsStep ==
    ASSUME Typed, NEW r \in Requests, CommitFails(r)
    PROVE  Typed' /\ Leaves(r, {}, {"idle"})
<1>1. Stores'
  BY DEF CommitFails, catalog, outcomes, bounds, Typed, TypeOK, Stores, EmptyRows
<1> QED
  BY <1>1, AnswerStep DEF CommitFails

LEMMA EmbedFailsStep ==
    ASSUME Typed, NEW r \in Requests, EmbedFails(r)
    PROVE  Typed' /\ Leaves(r, {}, {"idle"})
<1>1. Stores'
  BY DEF EmbedFails, catalog, bounds, Typed, TypeOK, Stores, EmptyRows
<1> QED
  BY <1>1, AnswerStep DEF EmbedFails

LEMMA CleanupFailsStep ==
    ASSUME Typed, NEW r \in Requests, CleanupFails(r)
    PROVE  Typed' /\ Leaves(r, {}, {"idle"})
<1>1. Stores'
  BY DEF CleanupFails, catalog, bounds, Typed, TypeOK, Stores, EmptyRows
<1> QED
  BY <1>1, AnswerStep DEF CleanupFails

LEMMA DeleteChunksStep ==
    ASSUME Typed, NEW r \in Requests, DeleteChunks(r)
    PROVE  Typed' /\ Leaves(r, {}, {"idle"})
<1>1. Stores'
  BY IdleTyped DEF DeleteChunks, catalog, outcomes, bounds, Typed, TypeOK, Stores, EmptyRows
<1> QED
  BY <1>1, AnswerStep DEF DeleteChunks

\* The rebuild of the index.
LEMMA ReadCatalogStep ==
    ASSUME Typed, NEW r \in Requests, ReadCatalog(r)
    PROVE  /\ Typed' /\ Leaves(r, {}, {"idle", "reset"})
           /\ req'[r].at = "reset" => req'[r].chunks = Chunks(rows)
           /\ req'[r].at = "idle" => There(rows) = {} /\ dirty' = (dirty \/ index # NoIndex)
<1>1. Stores'
  BY DEF ReadCatalog, catalog, bounds, Typed, TypeOK, Stores, EmptyRows
<1>2. CASE There(rows) = {}
  BY <1>1, <1>2, AnswerStep DEF ReadCatalog, Leaves
<1>3. CASE There(rows) # {}
  <2> DEFINE w == [req[r] EXCEPT !.at = "reset", !.chunks = Chunks(rows)]
  <2>1. req[r] \in Request /\ req' = [req EXCEPT ![r] = w]
    BY <1>3 DEF ReadCatalog, Typed, TypeOK
  <2>2. w \in Request /\ w.at = "reset" /\ w.chunks = Chunks(rows)
    BY <2>1, ChunksTyped DEF Request
  <2> HIDE DEF w
  <2>3. Sound(w) /\ Overtake(r, {}, w)
    BY <2>1, <2>2, Moving DEF Sound, Typed, TypeOK
  <2> QED
    BY <1>1, <2>2, <2>3, TypedMoves DEF Leaves
<1> QED
  BY <1>2, <1>3

LEMMA ResetStep ==
    ASSUME Typed, NEW r \in Requests, Reset(r)
    PROVE  /\ Typed' /\ Leaves(r, {}, {"upsert"})
           /\ req'[r].chunks = req[r].chunks /\ req'[r].stale = req[r].stale
<1> DEFINE w == [req[r] EXCEPT !.at = "upsert"]
<1>1. req[r] \in Request /\ req' = [req EXCEPT ![r] = w]
  BY DEF Reset, Typed, TypeOK
<1>2. /\ w \in Request /\ w.at = "upsert"
      /\ w.chunks = req[r].chunks /\ w.stale = req[r].stale
  BY <1>1 DEF Request
<1> HIDE DEF w
<1>3. Sound(w) /\ Overtake(r, {}, w)
  BY <1>1, <1>2, Moving DEF Sound, Typed, TypeOK
<1>4. Stores'
  BY IdleTyped DEF Reset, catalog, outcomes, bounds, Typed, TypeOK, Stores, EmptyRows
<1> QED
  BY <1>2, <1>3, <1>4, TypedMoves

LEMMA ResetFailsStep ==
    ASSUME Typed, NEW r \in Requests, ResetFails(r)
    PROVE  Typed' /\ Leaves(r, {}, {"upsert"}) /\ req'[r].stale
<1> DEFINE w == [req[r] EXCEPT !.at = "upsert", !.stale = TRUE]
<1>1. req[r] \in Request /\ req' = [req EXCEPT ![r] = w]
  BY DEF ResetFails, Typed, TypeOK
<1>2. w \in Request /\ w.at = "upsert" /\ w.stale
  BY <1>1 DEF Request
<1> HIDE DEF w
<1>3. Sound(w) /\ Overtake(r, {}, w)
  BY <1>1, <1>2, Moving DEF Sound, Typed, TypeOK
<1>4. Stores'
  BY DEF ResetFails, catalog, bounds, Typed, TypeOK, Stores, EmptyRows
<1> QED
  BY <1>2, <1>3, <1>4, TypedMoves

LEMMA UpsertStep ==
    ASSUME Typed, NEW r \in Requests, Upsert(r)
    PROVE  Typed' /\ Leaves(r, {"upsert"}, {"idle"})
<1>1. req[r] \in Request /\ Overtake(r, {"upsert"}, Idle) /\ Idle.at = "idle"
  BY DEF Upsert, Typed, TypeOK, Idle
<1>2. index' \in [Tables -> Chunk] /\ dirty' \in BOOLEAN /\ unseen' = {}
  BY <1>1 DEF Upsert, Request, Typed, TypeOK
<1>3. Stores'
  BY <1>2 DEF Upsert, catalog, bounds, Typed, TypeOK, Stores, EmptyRows
<1> QED
  BY <1>1, <1>3, IdleSound, TypedMoves

\* The cleanup.
LEMMA DeleteCatalogStep ==
    ASSUME Typed, NEW r \in Requests, DeleteCatalog(r)
    PROVE  Typed' /\ Leaves(r, {"commit", "reset", "upsert"}, {"forget"})
<1> DEFINE w == [req[r] EXCEPT !.at = "forget"]
<1>1. req[r] \in Request /\ Overtake(r, {"commit", "reset", "upsert"}, w)
  BY DEF DeleteCatalog, Typed, TypeOK
<1>2. w \in Request /\ w.at = "forget"
  BY <1>1 DEF Request
<1> HIDE DEF w
<1>3. Sound(w)
  BY <1>2 DEF Sound
<1>4. Stores'
  <2>1. rows' \in [Tables -> Row] /\ \A t \in Tables : rows'[t] = NoRow
    BY IdleTyped DEF DeleteCatalog
  <2>2. header' \in Header /\ said' \in [Tables -> Texts \cup {NoText}]
    BY IdleTyped DEF DeleteCatalog, Header
  <2> QED
    BY <2>1, <2>2 DEF DeleteCatalog, outcomes, bounds, Typed, TypeOK, Stores, EmptyRows, NoRow
<1> QED
  BY <1>1, <1>2, <1>3, <1>4, TypedMoves

LEMMA TypedStep == ASSUME Typed, [Next]_vars PROVE Typed'
<1>1. ASSUME NEW r \in Requests, Serve(r) PROVE Typed'
  BY <1>1, SyncStep, HealStep, DeleteConnectionStep, UploadStep, DescribeTableStep,
     LoadStep, CommitSchemaStep, DescribeStep, CommitFailsStep, ReadCatalogStep,
     ResetStep, ResetFailsStep, UpsertStep, EmbedFailsStep, DeleteCatalogStep, DeleteChunksStep,
     CleanupFailsStep DEF Serve
<1>2. CASE UNCHANGED vars
  BY <1>2 DEF vars, Typed, TypeOK, EmptyRows, Sound
<1> QED
  BY <1>1, <1>2, MigrateStep, MarkSeenStep DEF Next

\* Every reachable state of the catalog, the index and the requests is well typed.
THEOREM TypeCorrect == Spec => []TypeOK
<1>1. Typed => TypeOK
  BY DEF Typed
<1> QED
  BY <1>1, TypedInit, TypedStep, PTL DEF Spec

-----------------------------------------------------------------------------
(* The hash of the schema. *)

\* The rows and the header say of every table what they said.
SameTables == header' = header /\ \A t \in Tables : Likewise(rows'[t], rows[t])

\* A step that leaves the tables alone, or marks every transaction under way.
LEMMA VouchedMoves ==
    ASSUME Typed, Vouched, HashVouches', NEW r \in Requests, NEW phases, NEW ats,
           Leaves(r, phases, ats), "commit" \in phases \/ SameTables,
           req'[r].at = "commit" /\ req'[r].op # "describe" =>
               /\ req'[r].header = header'
               /\ \A t \in Tables : Likewise(req'[r].rows[t], rows'[t])
    PROVE  Vouched'
<1> SUFFICES ASSUME NEW q \in Requests, req'[q].at = "commit", req'[q].op # "describe",
                    ~req'[q].stale
             PROVE  /\ req'[q].header = header'
                    /\ \A t \in Tables : Likewise(req'[q].rows[t], rows'[t])
  BY DEF Vouched, Loaded
<1>1. CASE q = r
  BY <1>1
<1>2. CASE q # r
  <2>1. Same(req[q], req'[q]) /\ (req[q].at \in phases => req'[q].stale)
    BY <1>2 DEF Leaves
  <2>2. /\ req[q].at = "commit" /\ req[q].op # "describe" /\ ~req[q].stale
        /\ req'[q].header = req[q].header /\ req'[q].rows = req[q].rows
    BY <2>1 DEF Same
  <2>3. SameTables
    BY <2>1, <2>2
  <2> QED
    BY <2>2, <2>3 DEF Vouched, Loaded, SameTables, Likewise
<1> QED
  BY <1>1, <1>2

LEMMA VouchedSame ==
    ASSUME Vouched, SameTables, raced' = raced
    PROVE  HashVouches'
BY DEF Vouched, HashVouches, SameTables, Likewise, Covers

\* A step of a request that neither touches the catalog nor begins a transaction.
LEMMA VouchedAside ==
    ASSUME Typed, Vouched, NEW r \in Requests, NEW phases, NEW ats, Leaves(r, phases, ats),
           "commit" \notin ats, UNCHANGED <<rows, header, raced>>
    PROVE  Vouched'
<1>1. SameTables /\ req'[r].at # "commit"
  BY DEF SameTables, Leaves, Likewise
<1>2. HashVouches'
  BY <1>1, VouchedSame
<1> QED
  BY <1>1, <1>2, VouchedMoves

\* A transaction that nobody has overtaken leaves the hash of its schema, and a row
\* the hash covers for every table of it.
LEMMA CommitSchemaVouched ==
    ASSUME Typed, Vouched, NEW r \in Requests, CommitSchema(r)
    PROVE  Vouched'
<1> DEFINE q == req[r]
<1>1. /\ Sound(q) /\ Loaded(q) /\ q.at = "commit" /\ q.op \in {"sync", "merge", "replace"}
      /\ ~Conflict(q) /\ rows' = Written(q) /\ raced' = q.stale
      /\ header' = [st |-> TRUE, hash |-> IF ~q.header.st \/ Hash(q.schema) # q.header.hash
                                         THEN Hash(q.schema) ELSE header.hash]
  BY DEF Typed, Vouched, CommitSchema, Committed
<1>2. HashVouches'
  <2> SUFFICES ASSUME ~q.stale, NEW t \in Tables, header'.hash[t] # Absent
               PROVE  Covers(header'.hash[t], rows'[t])
    BY <1>1 DEF HashVouches
  <2> DEFINE new == q.schema[t]
             old == q.rows[t]
             mark == header'.hash[t]
  <2>1. q.header = header /\ Likewise(old, rows[t]) /\ q.number # 0
    BY <1>1 DEF Loaded, Sound
  <2>2. header'.hash = Hash(q.schema) /\ q.schema \in Schemas
    BY <1>1, <2>1 DEF Sound, Request
  <2>3. new # Absent /\ mark.shape = Shape[new.cols] /\ mark.about = new.about
    BY <2>2, HashTyped
  <2>4. CASE t \in Inserts(q)
    <3>1. rows'[t] = Inserted(q, t)
      BY <1>1, <2>4 DEF Written
    <3> QED
      BY <2>1, <2>3, <3>1 DEF Inserted, Covers
  <2>5. CASE t \notin Inserts(q)
    <3>1. t \in Updates(q) /\ rows[t].id # 0 /\ rows[t] \in Row /\ q.op \in {"sync", "merge"}
      BY <1>1, <2>1, <2>3, <2>5 DEF Updates, Inserts, Typed, TypeOK, Likewise
    <3>2. rows'[t] = Updated(q, t)
      BY <1>1, <2>5, <3>1 DEF Written
    <3>3. /\ Updated(q, t).id = rows[t].id
          /\ Updated(q, t).cols = IF new.cols # old.cols THEN new.cols ELSE rows[t].cols
          /\ Updated(q, t).about =
                IF new.about # old.about /\ (q.op = "sync" \/ new.about # NoText)
                THEN new.about ELSE rows[t].about
          /\ Updated(q, t).source =
                IF q.op = "merge" /\ old.source # "uploaded" THEN "uploaded" ELSE rows[t].source
      BY <3>1 DEF Updated, Row
    <3> HIDE DEF new, old, mark
    <3>4. Updated(q, t).cols = new.cols
      BY <2>1, <3>3 DEF Likewise
    <3>5. \/ Updated(q, t).about = new.about
          \/ new.about = NoText /\ Updated(q, t).source = "uploaded"
      BY <2>1, <3>1, <3>3 DEF Likewise
    <3> QED
      BY <2>3, <3>1, <3>2, <3>3, <3>4, <3>5 DEF Covers, mark
  <2> QED
    BY <2>4, <2>5
<1>3. Leaves(r, {"commit", "reset", "upsert"}, IF Changed(q) THEN {"embed"} ELSE {"idle"})
  BY CommitSchemaStep
<1>4. req'[r].at # "commit"
  BY <1>3 DEF Leaves
<1> QED
  BY <1>2, <1>3, <1>4, VouchedMoves

LEMMA VouchedStep == ASSUME Typed, Vouched, [Next]_vars PROVE Vouched'
<1>1. ASSUME NEW r \in Requests, Sync(r) \/ Heal(r) \/ DeleteConnection(r) \/ CommitFails(r)
             \/ ReadCatalog(r) \/ Reset(r) \/ ResetFails(r) \/ Upsert(r) \/ EmbedFails(r)
             \/ DeleteChunks(r) \/ CleanupFails(r)
      PROVE  Vouched'
  <2>1. UNCHANGED <<rows, header, raced>>
    BY <1>1 DEF Sync, Heal, DeleteConnection, Begin, CommitFails, ReadCatalog, Reset, ResetFails,
        Upsert, EmbedFails, DeleteChunks, CleanupFails, catalog, outcomes
  <2>2. \/ Leaves(r, {}, {"reflected"}) \/ Leaves(r, {}, {"idle", "embed"})
        \/ Leaves(r, {}, {"purge"}) \/ Leaves(r, {}, {"idle"}) \/ Leaves(r, {}, {"idle", "reset"})
        \/ Leaves(r, {}, {"upsert"}) \/ Leaves(r, {"upsert"}, {"idle"})
    BY <1>1, SyncStep, HealStep, DeleteConnectionStep, CommitFailsStep, ReadCatalogStep,
       ResetStep, ResetFailsStep, UpsertStep, EmbedFailsStep, DeleteChunksStep, CleanupFailsStep
  <2> QED
    BY <2>1, <2>2, VouchedAside
<1>2. ASSUME NEW r \in Requests, NEW S \in Schemas, Upload(r, S) PROVE Vouched'
  <2>1. Leaves(r, {}, {"commit"}) /\ req'[r].rows = rows /\ req'[r].header = header
    BY <1>2, UploadStep
  <2>2. UNCHANGED <<rows, header, raced>>
    BY <1>2 DEF Upload, Begin, catalog, outcomes
  <2> QED
    BY <2>1, <2>2, VouchedSame, VouchedMoves DEF SameTables, Likewise
<1>3. ASSUME NEW r \in Requests, Load(r) PROVE Vouched'
  <2>1. Leaves(r, {}, {"commit"}) /\ req'[r].rows = rows /\ req'[r].header = header
    BY <1>3, LoadStep
  <2>2. UNCHANGED <<rows, header, raced>>
    BY <1>3 DEF Load, catalog, outcomes
  <2> QED
    BY <2>1, <2>2, VouchedSame, VouchedMoves DEF SameTables, Likewise
<1>4. ASSUME NEW r \in Requests, NEW t \in Tables, NEW d \in Texts \cup {NoText},
             DescribeTable(r, t, d)
      PROVE  Vouched'
  <2>1. Leaves(r, {}, {"commit"}) /\ req'[r].op = "describe"
    BY <1>4, DescribeTableStep
  <2>2. UNCHANGED <<rows, header, raced>>
    BY <1>4 DEF DescribeTable, Begin, catalog, outcomes
  <2> QED
    BY <2>1, <2>2, VouchedSame, VouchedMoves DEF SameTables, Likewise
<1>5. ASSUME NEW r \in Requests, Describe(r) PROVE Vouched'
  <2>1. Leaves(r, {"reset", "upsert"}, {"embed"})
    BY <1>5, DescribeStep
  <2>2. SameTables /\ raced' = raced
    BY <1>5, DescribedRows DEF Describe, outcomes, SameTables
  <2>3. req'[r].at # "commit"
    BY <2>1 DEF Leaves
  <2> QED
    BY <2>1, <2>2, <2>3, VouchedSame, VouchedMoves
<1>6. ASSUME NEW r \in Requests, DeleteCatalog(r) PROVE Vouched'
  <2>1. Leaves(r, {"commit", "reset", "upsert"}, {"forget"})
    BY <1>6, DeleteCatalogStep
  <2>2. HashVouches'
    BY <1>6 DEF DeleteCatalog, HashVouches
  <2>3. req'[r].at # "commit"
    BY <2>1 DEF Leaves
  <2> QED
    BY <2>1, <2>2, <2>3, VouchedMoves
<1>7. ASSUME SameTables, req' = req, raced' = raced PROVE Vouched'
  BY <1>7, VouchedSame DEF Vouched, Loaded, SameTables, Likewise
<1>8. ASSUME NEW t \in Tables, MarkSeen(t) PROVE Vouched'
  BY <1>7, <1>8, MarkSeenRows DEF MarkSeen, outcomes, SameTables
<1>9. ASSUME NEW t \in Tables, Migrate(t) PROVE Vouched'
  BY <1>7, <1>9 DEF Migrate, catalog, outcomes, SameTables, Likewise
<1>10. CASE UNCHANGED vars
  BY <1>7, <1>10 DEF vars, SameTables, Likewise
<1> QED
  BY <1>1, <1>2, <1>3, <1>4, <1>5, <1>6, <1>8, <1>9, <1>10, CommitSchemaVouched DEF Next, Serve

-----------------------------------------------------------------------------
(* Descriptions. *)

LEMMA StickyStep == ASSUME Typed, DescriptionsSticky, [Next]_vars PROVE DescriptionsSticky'
<1>1. ASSUME NEW r \in Requests, CommitSchema(r) PROVE DescriptionsSticky'
  <2> DEFINE q == req[r]
  <2>1. rows' = Written(q) /\ ~Conflict(q)
        /\ said' = [t \in Tables |-> IF t \in Inserts(q) \cup Deletes(q) THEN rows'[t].desc
                                     ELSE said[t]]
    BY <1>1 DEF CommitSchema, Committed
  <2> SUFFICES ASSUME NEW t \in Tables, rows'[t].id # 0 PROVE rows'[t].desc = said'[t]
    BY DEF DescriptionsSticky
  <2>2. CASE t \in Inserts(q) \cup Deletes(q)
    BY <2>1, <2>2
  <2>3. CASE t \notin Inserts(q) \cup Deletes(q)
    <3>1. rows[t] \in Row /\ said'[t] = said[t]
      BY <2>1, <2>3 DEF Typed, TypeOK
    <3>2. rows'[t].id = rows[t].id /\ rows'[t].desc = rows[t].desc
      BY <2>1, <2>3, <3>1 DEF Written, Updated, Row
    <3> QED
      BY <3>1, <3>2 DEF DescriptionsSticky
  <2> QED
    BY <2>2, <2>3
<1>2. ASSUME NEW r \in Requests, Describe(r) PROVE DescriptionsSticky'
  BY <1>2, DescribedRows DEF DescriptionsSticky, Likewise
<1>3. ASSUME NEW r \in Requests, DeleteCatalog(r) PROVE DescriptionsSticky'
  BY <1>3 DEF DeleteCatalog, DescriptionsSticky, NoRow
<1>4. ASSUME NEW t \in Tables, MarkSeen(t) PROVE DescriptionsSticky'
  BY <1>4, MarkSeenRows DEF MarkSeen, DescriptionsSticky, Likewise
<1>5. CASE UNCHANGED <<rows, said>>
  BY <1>5 DEF DescriptionsSticky
<1> QED
  BY <1>1, <1>2, <1>3, <1>4, <1>5 DEF Next, Serve, vars, catalog, Sync, Upload, DescribeTable,
     Heal, Begin, DeleteConnection, Load, CommitFails, ReadCatalog, Reset, ResetFails, Upsert,
     EmbedFails, DeleteChunks, CleanupFails, Migrate

-----------------------------------------------------------------------------
(* The cleanup after a deletion. *)

\* A request that is neither idle nor cleaning up is at work, and so is one that begins.
LEMMA CleaningBusy ==
    ASSUME Cleaning, NEW r \in Requests, NEW phases, NEW ats, Leaves(r, phases, ats),
           ats \cap {"purge", "forget"} = {}, UNCHANGED <<deleted, ghost>>,
           ~deleted \/ req[r].at \notin {"idle", "purge", "forget"}
    PROVE  Cleaning' /\ NothingLeft'
<1>1. ~(deleted /\ ~ghost)
  BY DEF Cleaning
<1>2. \A q \in Requests : req'[q].at \in {"purge", "forget"} => deleted'
  BY DEF Cleaning, Leaves, Same
<1> QED
  BY <1>1, <1>2 DEF Cleaning, NothingLeft

LEMMA CleaningStep == ASSUME Typed, Cleaning, NothingLeft, [Next]_vars
                      PROVE  Cleaning' /\ NothingLeft'
<1>1. ASSUME NEW r \in Requests,
             \/ Sync(r) \/ Heal(r)
             \/ \E S \in Schemas : Upload(r, S)
             \/ \E t \in Tables, d \in Texts \cup {NoText} : DescribeTable(r, t, d)
      PROVE  Cleaning' /\ NothingLeft'
  <2>1. ~deleted /\ UNCHANGED <<deleted, ghost>>
    BY <1>1 DEF Sync, Heal, Upload, DescribeTable, Begin, outcomes
  <2>2. \/ Leaves(r, {}, {"reflected"}) \/ Leaves(r, {}, {"idle", "embed"})
        \/ Leaves(r, {}, {"commit"})
    BY <1>1, SyncStep, HealStep, UploadStep, DescribeTableStep
  <2> QED
    BY <2>1, <2>2, CleaningBusy
<1>2. ASSUME NEW r \in Requests, Load(r) \/ CommitSchema(r) \/ Describe(r) \/ CommitFails(r)
             \/ ReadCatalog(r) \/ Reset(r) \/ ResetFails(r) \/ Upsert(r) \/ EmbedFails(r)
      PROVE  Cleaning' /\ NothingLeft'
  <2>1. /\ req[r].at \notin {"idle", "purge", "forget"}
        /\ UNCHANGED <<deleted, ghost>>
    BY <1>2 DEF Load, CommitSchema, Committed, Describe, CommitFails, ReadCatalog, Reset,
        ResetFails, Upsert, EmbedFails, outcomes
  <2>2. \/ Leaves(r, {}, {"commit"})
        \/ Leaves(r, {"commit", "reset", "upsert"}, IF Changed(req[r]) THEN {"embed"} ELSE {"idle"})
        \/ Leaves(r, {"reset", "upsert"}, {"embed"}) \/ Leaves(r, {}, {"idle"})
        \/ Leaves(r, {}, {"idle", "reset"}) \/ Leaves(r, {}, {"upsert"})
        \/ Leaves(r, {"upsert"}, {"idle"})
    BY <1>2, LoadStep, CommitSchemaStep, DescribeStep, CommitFailsStep, ReadCatalogStep,
       ResetStep, ResetFailsStep, UpsertStep, EmbedFailsStep
  <2>3. (IF Changed(req[r]) THEN {"embed"} ELSE {"idle"}) \cap {"purge", "forget"} = {}
    OBVIOUS
  <2> QED
    BY <2>1, <2>2, <2>3, CleaningBusy
<1>3. ASSUME NEW r \in Requests, DeleteConnection(r) PROVE Cleaning' /\ NothingLeft'
  <2>1. Leaves(r, {}, {"purge"})
    BY <1>3, DeleteConnectionStep
  <2>2. deleted' /\ (ghost' <=> \E q \in Requests : req[q].at # "idle")
    BY <1>3 DEF DeleteConnection
  <2>3. ~ghost' => \A q \in Requests \ {r} : req'[q].at = "idle"
    BY <2>1, <2>2 DEF Leaves, Same
  <2>4. req'[r].at = "purge"
    BY <2>1 DEF Leaves
  <2> QED
    BY <2>2, <2>3, <2>4 DEF Cleaning, NothingLeft
<1>4. ASSUME NEW r \in Requests, DeleteCatalog(r) PROVE Cleaning' /\ NothingLeft'
  <2>1. req'[r].at = "forget" /\ \A q \in Requests \ {r} : req'[q].at = req[q].at
    BY <1>4, DeleteCatalogStep DEF Leaves, Same
  <2>2. Swept' /\ req[r].at = "purge" /\ UNCHANGED <<deleted, ghost>>
    BY <1>4 DEF DeleteCatalog, Swept, There, NoRow, outcomes
  <2> QED
    BY <2>1, <2>2 DEF Cleaning, NothingLeft
<1>5. ASSUME NEW r \in Requests, DeleteChunks(r) PROVE Cleaning' /\ NothingLeft'
  <2>1. req'[r].at = "idle" /\ \A q \in Requests \ {r} : req'[q].at = req[q].at
    BY <1>5, DeleteChunksStep DEF Leaves, Same
  <2>2. /\ req[r].at = "forget" /\ UNCHANGED <<rows, header, deleted, ghost>>
        /\ index' = NoIndex
    BY <1>5 DEF DeleteChunks, catalog, outcomes
  <2>3. Cleaning'
    BY <2>1, <2>2 DEF Cleaning, Swept, There
  <2>4. deleted' /\ ~ghost' => Swept'
    BY <2>2 DEF Cleaning, Swept, There
  <2> QED
    BY <2>2, <2>3, <2>4 DEF NothingLeft, Swept
<1>6. ASSUME NEW r \in Requests, CleanupFails(r) PROVE Cleaning' /\ NothingLeft'
  <2>1. req'[r].at = "idle" /\ \A q \in Requests \ {r} : req'[q].at = req[q].at
    BY <1>6, CleanupFailsStep DEF Leaves, Same
  <2>2. deleted' = deleted /\ ghost'
    BY <1>6 DEF CleanupFails
  <2> QED
    BY <2>1, <2>2 DEF Cleaning, NothingLeft
<1>7. ASSUME NEW t \in Tables, MarkSeen(t) PROVE Cleaning' /\ NothingLeft'
  BY <1>7 DEF MarkSeen, outcomes, Cleaning, NothingLeft
<1>8. CASE UNCHANGED <<rows, header, index, req, deleted, ghost>>
  BY <1>8 DEF Cleaning, NothingLeft, Swept, There
<1> QED
  BY <1>1, <1>2, <1>3, <1>4, <1>5, <1>6, <1>7, <1>8 DEF Next, Serve, Migrate, catalog, outcomes, vars

-----------------------------------------------------------------------------
(* The index. *)

Building == {"embed", "reset", "upsert"}

\* A step that leaves the chunks of the catalog alone or marks every rebuild under way,
\* and leaves the index alone, empties it or marks every rebuild about to write.
LEMMA FaithfulMoves ==
    ASSUME Followed, NEW r \in Requests, NEW phases, NEW ats, Leaves(r, phases, ats),
           Chunks(rows)' = Chunks(rows) \/ {"reset", "upsert"} \subseteq phases,
           index' = index \/ index' = NoIndex \/ "upsert" \in phases,
           Faithful(req[r])'
    PROVE  \A q \in Requests : Faithful(req[q])'
<1> SUFFICES ASSUME NEW q \in Requests \ {r}, req'[q].at \in {"reset", "upsert"}, ~req'[q].stale
             PROVE  /\ req'[q].chunks = Chunks(rows)'
                    /\ req'[q].at = "upsert" =>
                          \A t \in Tables : req'[q].chunks[t] = NoChunk => index'[t] = NoChunk
  BY DEF Faithful
<1>1. /\ req[q].at = req'[q].at /\ req[q].at \notin phases /\ ~req[q].stale
      /\ req'[q].chunks = req[q].chunks
  BY DEF Leaves, Same
<1>2. Faithful(req[q])
  BY DEF Followed
<1>3. req'[q].chunks = Chunks(rows)'
  BY <1>1, <1>2 DEF Faithful
<1>4. ASSUME req'[q].at = "upsert", NEW t \in Tables, req'[q].chunks[t] = NoChunk
      PROVE  index'[t] = NoChunk
  BY <1>1, <1>2, <1>4 DEF Faithful, NoIndex
<1> QED
  BY <1>3, <1>4

\* Rows that say the same of every table.
SameRows == \A t \in Tables : Likewise(rows'[t], rows[t]) /\ rows'[t].desc = rows[t].desc

LEMMA SameChunks == SameRows => Chunks(rows)' = Chunks(rows)
BY DEF SameRows, Likewise, Chunks

\* A step that leaves the index and what the catalog says alone, of a request that is
\* not rebuilding the index.
LEMMA FollowsSame ==
    ASSUME Followed, SameRows, UNCHANGED <<header, index, deleted, dirty, unseen>>,
           \A q \in Requests : req[q].at \in Building => req'[q].at \in Building
    PROVE  IndexFollows'
<1> SUFFICES ASSUME ~deleted', ~dirty', \A q \in Requests : req'[q].at \notin Building
             PROVE  \A t \in Tables : index'[t] = Chunks(rows)'[t]
                                      \/ (t \in unseen' /\ Untold(t)')
  BY DEF IndexFollows, Building
<1>1. \A t \in Tables : index[t] = Chunks(rows)[t] \/ (t \in unseen /\ Untold(t))
  BY DEF Followed, IndexFollows, Building
<1>2. \A t \in Tables : Untold(t) => Untold(t)'
  BY SameChunks DEF SameRows, Likewise, Untold
<1> QED
  BY <1>1, <1>2, SameChunks

\* A step after which the request is rebuilding the index.
LEMMA FollowsLater ==
    ASSUME NEW r \in Requests, NEW phases, NEW ats, Leaves(r, phases, ats), ats \subseteq Building
    PROVE  IndexFollows'
BY DEF Leaves, IndexFollows, Building

\* What becomes of a row under a sync that inserts none.
LEMMA SyncedRow ==
    ASSUME Typed, NEW q, Sound(q), q.at = "commit", q.op = "sync", ~Conflict(q), Inserts(q) = {},
           NEW t \in Tables
    PROVE  \/ Written(q)[t] = NoRow /\ q.schema[t] = Absent
           \/ Written(q)[t] = rows[t]
           \/ /\ q.schema[t] # Absent /\ rows[t].id # 0 /\ Written(q)[t].id = rows[t].id
              /\ Written(q)[t].desc = rows[t].desc /\ Written(q)[t].source = rows[t].source
<1>1. rows[t] \in Row
  BY DEF Typed, TypeOK
<1>2. CASE q.schema[t] # Absent
  <2>1. Written(q)[t] = Updated(q, t) /\ q.rows[t].id # 0 /\ rows[t].id = q.rows[t].id
    BY <1>2 DEF Written, Updates, Inserts, Conflict
  <2>2. /\ Updated(q, t).id = rows[t].id /\ Updated(q, t).desc = rows[t].desc
        /\ Updated(q, t).source = rows[t].source
    BY <1>1 DEF Updated, Row
  <2> QED
    BY <1>2, <2>1, <2>2
<1>3. CASE q.schema[t] = Absent
  BY <1>3 DEF Written, Updates
<1> QED
  BY <1>2, <1>3

\* Under an unchanged hash that speaks for the catalog before and after, all that can
\* part a chunk from its row is what the hash does not tell.
LEMMA UntoldCommit ==
    ASSUME Typed, Typed', header' = header, index' = index, NEW t \in Tables,
           index[t] = Chunks(rows)[t] \/ Untold(t),
           rows[t].id # 0, rows'[t].id # 0, header.hash[t] # Absent,
           Covers(header.hash[t], rows[t]), Covers(header.hash[t], rows'[t]),
           rows'[t].desc = rows[t].desc, rows'[t].source = rows[t].source
    PROVE  Untold(t)'
<1> DEFINE mark == header.hash[t]
           row == rows[t]
           new == rows'[t]
           text == IF row.desc # NoText THEN row.desc ELSE row.about
           then == IF new.desc # NoText THEN new.desc ELSE new.about
<1>1. Chunks(rows)[t] = <<row.cols, text>> /\ Chunks(rows)'[t] = <<new.cols, then>>
  BY DEF Chunks
<1>2. row.cols # Absent /\ Shape[row.cols] = Shape[new.cols]
  BY DEF Typed, TypeOK, Covers
<1>3. /\ row.about = mark.about \/ (mark.about = NoText /\ row.source = "uploaded")
      /\ new.about = mark.about \/ (mark.about = NoText /\ new.source = "uploaded")
  BY DEF Covers
<1>4. index[t][1] # Absent /\ Shape[index[t][1]] = Shape[row.cols]
  BY <1>1, <1>2 DEF Untold
<1>5. \/ index[t][2] = text
      \/ mark.about = NoText /\ row.desc = NoText /\ row.source = "uploaded"
  BY <1>1 DEF Untold
<1>6. \/ index[t][2] = then
      \/ mark.about = NoText /\ new.desc = NoText /\ new.source = "uploaded"
  <2> HIDE DEF row, new, mark
  <2>0. new.desc = row.desc /\ new.source = row.source
    BY DEF row, new
  <2> QED
    BY <1>3, <1>5, <2>0
<1>7. Chunks(rows)'[t][1] = new.cols /\ Chunks(rows)'[t][2] = then
  BY <1>1
<1> HIDE DEF text, then
<1> QED
  BY <1>2, <1>4, <1>6, <1>7 DEF Untold

\* A sync under an unchanged hash, when no two commits have overlapped.
LEMMA CommitSchemaUntold ==
    ASSUME Typed, Vouched, Followed, NEW r \in Requests, CommitSchema(r), ~Changed(req[r]),
           ~deleted', ~dirty', \A q \in Requests : req'[q].at \notin Building, NEW t \in Tables
    PROVE  index'[t] = Chunks(rows)'[t] \/ (t \in unseen' /\ Untold(t)')
<1> DEFINE q == req[r]
<1>1. /\ Sound(q) /\ Loaded(q) /\ q.at = "commit" /\ ~Conflict(q)
      /\ rows' = Written(q) /\ raced' = q.stale /\ UNCHANGED <<index, deleted>>
      /\ unseen' = unseen \cup Behind(q) /\ dirty' = (dirty \/ (Behind(q) # {} /\ (raced \/ q.stale)))
      /\ header' = [st |-> TRUE, hash |-> IF ~q.header.st \/ Hash(q.schema) # q.header.hash
                                         THEN Hash(q.schema) ELSE header.hash]
  BY DEF Typed, Vouched, CommitSchema, Committed
<1>2. /\ q.op = "sync" /\ q.header.st /\ q.header.hash = Hash(q.schema) /\ Inserts(q) = {}
      /\ q.schema \in Schemas
  BY <1>1 DEF Changed, Sound, Request
<1>3. header' = header /\ header.st
  <2>1. header \in Header /\ header.st = q.header.st
    BY <1>1 DEF Conflict, Typed, TypeOK
  <2> QED
    BY <1>1, <1>2, <2>1 DEF Header
<1>4. Typed' /\ Vouched'
  BY CommitSchemaStep, CommitSchemaVouched
<1>5. index[t] = Chunks(rows)[t] \/ (t \in unseen /\ Untold(t))
  <2>1. \A p \in Requests : req[p].at \notin Building
    <3>1. Leaves(r, {"commit", "reset", "upsert"}, IF Changed(q) THEN {"embed"} ELSE {"idle"})
      BY CommitSchemaStep
    <3> QED
      BY <1>1, <3>1 DEF Leaves, Same, Building
  <2> QED
    BY <1>1, <2>1 DEF Followed, IndexFollows, Building
<1>6. \/ rows'[t] = NoRow /\ q.schema[t] = Absent
      \/ rows'[t] = rows[t]
      \/ /\ q.schema[t] # Absent /\ rows[t].id # 0 /\ rows'[t].id = rows[t].id
         /\ rows'[t].desc = rows[t].desc /\ rows'[t].source = rows[t].source
  BY <1>1, <1>2, SyncedRow
<1>7. /\ rows[t].id = 0 <=> Chunks(rows)[t][1] = Absent
      /\ rows'[t].id = 0 <=> Chunks(rows)'[t][1] = Absent
  <2>1. Chunks(rows)[t][1] = rows[t].cols /\ Chunks(rows)'[t][1] = rows'[t].cols
    BY DEF Chunks
  <2>2. (rows[t].id = 0 <=> rows[t].cols = Absent) /\ (rows'[t].id = 0 <=> rows'[t].cols = Absent)
    BY <1>4 DEF Typed, TypeOK
  <2> QED
    BY <2>1, <2>2
<1>8. CASE Chunks(rows)'[t] = Chunks(rows)[t]
  <2>1. CASE index[t] = Chunks(rows)[t]
    BY <1>1, <1>8, <2>1
  <2>2. CASE t \in unseen /\ Untold(t)
    <3>1. CASE rows'[t].id = 0
      BY <1>1, <1>3, <1>7, <1>8, <2>2, <3>1 DEF Untold
    <3>2. CASE rows'[t].id # 0
      <4>1. rows'[t].desc = rows[t].desc /\ rows'[t].source = rows[t].source /\ rows[t].id # 0
        BY <1>6, <1>7, <1>8, <3>2 DEF NoRow
      <4> QED
        BY <1>1, <1>3, <1>8, <2>2, <3>2, <4>1 DEF Untold
    <3> QED
      BY <3>1, <3>2
  <2> QED
    BY <1>5, <2>1, <2>2
<1>9. CASE Chunks(rows)'[t] # Chunks(rows)[t]
  <2>1. t \in Behind(q)
    <3>1. Chunks(Written(q))[t] # Chunks(rows)[t]
      BY <1>1, <1>9 DEF Chunks
    <3> QED
      BY <3>1 DEF Behind
  <2>2. t \in unseen' /\ ~raced /\ ~q.stale
    BY <1>1, <2>1
  <2>3. q.header = header
    BY <1>1, <1>2, <2>2 DEF Loaded
  <2>4. rows'[t] # rows[t]
    BY <1>9 DEF Chunks
  <2>5. CASE q.schema[t] = Absent
    <3>1. header.hash[t] = Absent /\ rows'[t].id = 0
      BY <1>2, <1>6, <2>3, <2>4, <2>5, HashTyped DEF NoRow
    <3> QED
      BY <1>3, <2>2, <3>1 DEF Untold
  <2>6. CASE q.schema[t] # Absent
    <3>1. /\ rows[t].id # 0 /\ rows'[t].id # 0
          /\ rows'[t].desc = rows[t].desc /\ rows'[t].source = rows[t].source
      BY <1>6, <2>4, <2>6
    <3>2. header.hash[t] # Absent
      BY <1>2, <2>3, <2>6, HashTyped
    <3>3. Covers(header.hash[t], rows[t])
      BY <1>3, <2>2, <3>2 DEF Vouched, HashVouches
    <3>4. Covers(header.hash[t], rows'[t])
      BY <1>1, <1>3, <1>4, <2>2, <3>2 DEF Vouched, HashVouches
    <3>5. Untold(t)'
      BY <1>1, <1>3, <1>4, <1>5, <3>1, <3>2, <3>3, <3>4, UntoldCommit
    <3> QED
      BY <2>2, <3>5
  <2> QED
    BY <2>5, <2>6
<1> QED
  BY <1>8, <1>9

LEMMA CommitSchemaFollowed ==
    ASSUME Typed, Vouched, Followed, NEW r \in Requests, CommitSchema(r)
    PROVE  Followed'
<1>1. Leaves(r, {"commit", "reset", "upsert"}, IF Changed(req[r]) THEN {"embed"} ELSE {"idle"})
  BY CommitSchemaStep
<1>2. req'[r].at \in {"embed", "idle"}
  BY <1>1 DEF Leaves
<1>3. index' = index
  BY DEF CommitSchema, Committed
<1>4. \A q \in Requests : Faithful(req[q])'
  <2>1. Faithful(req[r])'
    BY <1>2 DEF Faithful
  <2> QED
    BY <1>1, <1>3, <2>1, FaithfulMoves
<1>5. IndexFollows'
  <2>1. CASE Changed(req[r])
    BY <1>1, <2>1, FollowsLater DEF Building
  <2>2. CASE ~Changed(req[r])
    BY <2>2, CommitSchemaUntold DEF IndexFollows, Building
  <2> QED
    BY <2>1, <2>2
<1> QED
  BY <1>4, <1>5 DEF Followed

\* The rebuild.
LEMMA RebuildFollowed ==
    ASSUME Typed, Followed, NEW r \in Requests,
           ReadCatalog(r) \/ Reset(r) \/ ResetFails(r) \/ Upsert(r) \/ EmbedFails(r)
    PROVE  Followed'
<1>1. CASE ReadCatalog(r)
  <2>1. /\ Leaves(r, {}, {"idle", "reset"})
        /\ req'[r].at = "reset" => req'[r].chunks = Chunks(rows)
        /\ req'[r].at = "idle" => There(rows) = {} /\ dirty' = (dirty \/ index # NoIndex)
    BY <1>1, ReadCatalogStep
  <2>2. UNCHANGED <<rows, index, deleted>> /\ req[r].at = "embed"
    BY <1>1 DEF ReadCatalog, catalog
  <2>3. Chunks(rows)' = Chunks(rows)
    BY <2>2 DEF Chunks
  <2>4. \A q \in Requests : Faithful(req[q])'
    <3>1. Faithful(req[r])'
      BY <2>1, <2>3 DEF Faithful, Leaves
    <3> QED
      BY <2>1, <2>2, <2>3, <3>1, FaithfulMoves
  <2>5. CASE req'[r].at = "reset"
    BY <2>4, <2>5 DEF Followed, IndexFollows
  <2>6. CASE req'[r].at = "idle"
    <3>1. ASSUME ~dirty' PROVE index = NoIndex
      BY <2>1, <2>6, <3>1
    <3>2. \A t \in Tables : /\ rows[t].cols = Absent /\ rows[t].desc = NoText
                            /\ rows[t].about = NoText
      BY <2>1, <2>6 DEF There, Typed, TypeOK, EmptyRows
    <3>3. Chunks(rows) = NoIndex
      BY <3>2 DEF Chunks, NoIndex, NoChunk
    <3> QED
      BY <2>2, <2>3, <2>4, <3>1, <3>3 DEF Followed, IndexFollows
  <2> QED
    BY <2>1, <2>5, <2>6 DEF Leaves
<1>2. CASE Reset(r)
  <2>1. /\ Leaves(r, {}, {"upsert"})
        /\ req'[r].chunks = req[r].chunks /\ req'[r].stale = req[r].stale
    BY <1>2, ResetStep
  <2>2. rows' = rows /\ index' = NoIndex /\ req[r].at = "reset"
    BY <1>2 DEF Reset, catalog
  <2>3. Chunks(rows)' = Chunks(rows)
    BY <2>2 DEF Chunks
  <2>4. Faithful(req[r])'
    BY <2>1, <2>2, <2>3 DEF Faithful, Followed, NoIndex
  <2>5. \A q \in Requests : Faithful(req[q])'
    BY <2>1, <2>2, <2>3, <2>4, FaithfulMoves
  <2> QED
    BY <2>1, <2>5, FollowsLater DEF Followed, Building
<1>3. CASE Upsert(r)
  <2>1. Leaves(r, {"upsert"}, {"idle"})
    BY <1>3, UpsertStep
  <2>2. /\ rows' = rows /\ req[r].at = "upsert" /\ dirty' = req[r].stale
        /\ index' = [t \in Tables |-> IF req[r].chunks[t] # NoChunk THEN req[r].chunks[t]
                                      ELSE index[t]]
    BY <1>3 DEF Upsert, catalog
  <2>3. Chunks(rows)' = Chunks(rows)
    BY <2>2 DEF Chunks
  <2>4. Faithful(req[r])'
    BY <2>1 DEF Faithful, Leaves
  <2>5. \A q \in Requests : Faithful(req[q])'
    BY <2>1, <2>3, <2>4, FaithfulMoves
  <2>6. ASSUME ~req[r].stale PROVE index' = Chunks(rows)
    <3>1. /\ req[r].chunks = Chunks(rows)
          /\ \A t \in Tables : Chunks(rows)[t] = NoChunk => index[t] = NoChunk
      BY <2>2, <2>6 DEF Followed, Faithful
    <3>2. Chunks(rows) = [t \in Tables |-> Chunks(rows)[t]]
      BY DEF Chunks
    <3> QED
      BY <2>2, <3>1, <3>2
  <2>7. IndexFollows'
    BY <2>2, <2>3, <2>6 DEF IndexFollows
  <2> QED
    BY <2>5, <2>7 DEF Followed
<1>4. CASE EmbedFails(r)
  <2>1. Leaves(r, {}, {"idle"})
    BY <1>4, EmbedFailsStep
  <2>2. rows' = rows /\ index' = index /\ dirty' = TRUE
    BY <1>4 DEF EmbedFails, catalog
  <2>3. Faithful(req[r])'
    BY <2>1 DEF Faithful, Leaves
  <2>4. \A q \in Requests : Faithful(req[q])'
    BY <2>1, <2>2, <2>3, FaithfulMoves DEF Chunks
  <2> QED
    BY <2>2, <2>4 DEF Followed, IndexFollows
<1>5. CASE ResetFails(r)
  <2>1. Leaves(r, {}, {"upsert"}) /\ req'[r].stale
    BY <1>5, ResetFailsStep
  <2>2. rows' = rows /\ index' = index /\ dirty' = TRUE
    BY <1>5 DEF ResetFails, catalog
  <2>3. Faithful(req[r])'
    BY <2>1 DEF Faithful
  <2>4. \A q \in Requests : Faithful(req[q])'
    BY <2>1, <2>2, <2>3, FaithfulMoves DEF Chunks
  <2> QED
    BY <2>2, <2>4 DEF Followed, IndexFollows
<1> QED
  BY <1>1, <1>2, <1>3, <1>4, <1>5

LEMMA FollowedStep == ASSUME Typed, Vouched, Cleaning, Followed, [Next]_vars PROVE Followed'
<1>1. ASSUME NEW r \in Requests,
             \/ Sync(r) \/ Heal(r) \/ Load(r) \/ CommitFails(r) \/ CleanupFails(r)
             \/ \E S \in Schemas : Upload(r, S)
             \/ \E t \in Tables, d \in Texts \cup {NoText} : DescribeTable(r, t, d)
      PROVE  Followed'
  <2>1. PICK ats \in {{"reflected"}, {"idle", "embed"}, {"commit"}, {"idle"}} : Leaves(r, {}, ats)
    BY <1>1, SyncStep, HealStep, LoadStep, CommitFailsStep, CleanupFailsStep, UploadStep,
       DescribeTableStep
  <2>2. /\ req[r].at \notin Building
        /\ UNCHANGED <<rows, header, index, deleted, dirty, unseen>>
    BY <1>1 DEF Sync, Heal, Load, CommitFails, CleanupFails, Upload, DescribeTable, Begin, catalog,
        outcomes, Building
  <2>3. SameRows
    BY <2>2 DEF SameRows, Likewise
  <2>4. Faithful(req[r])'
    BY <2>1 DEF Leaves, Faithful
  <2>5. \A q \in Requests : Faithful(req[q])'
    BY <2>1, <2>2, <2>3, <2>4, SameChunks, FaithfulMoves
  <2>6. \A q \in Requests : req[q].at \in Building => req'[q].at \in Building
    BY <2>1, <2>2 DEF Leaves, Same
  <2> QED
    BY <2>2, <2>3, <2>5, <2>6, FollowsSame DEF Followed
<1>2. ASSUME NEW r \in Requests, Describe(r) PROVE Followed'
  <2>1. Leaves(r, {"reset", "upsert"}, {"embed"})
    BY <1>2, DescribeStep
  <2>2. index' = index
    BY <1>2 DEF Describe
  <2>3. Faithful(req[r])'
    BY <2>1 DEF Leaves, Faithful
  <2> QED
    BY <2>1, <2>2, <2>3, FaithfulMoves, FollowsLater DEF Followed, Building
<1>3. ASSUME NEW r \in Requests, DeleteConnection(r) \/ DeleteCatalog(r) \/ DeleteChunks(r)
      PROVE  Followed'
  <2>1. deleted'
    <3>1. CASE DeleteConnection(r)
      BY <3>1 DEF DeleteConnection
    <3>2. CASE DeleteCatalog(r) \/ DeleteChunks(r)
      <4>1. req[r].at \in {"purge", "forget"} /\ deleted' = deleted
        BY <3>2 DEF DeleteCatalog, DeleteChunks
      <4> QED
        BY <4>1 DEF Cleaning
    <3> QED
      BY <1>3, <3>1, <3>2
  <2>2. PICK phases, ats : /\ Leaves(r, phases, ats) /\ ats \cap Building = {}
                           /\ Chunks(rows)' = Chunks(rows) \/ {"reset", "upsert"} \subseteq phases
    <3>1. CASE DeleteCatalog(r)
      BY <3>1, DeleteCatalogStep DEF Building
    <3>2. CASE DeleteConnection(r) \/ DeleteChunks(r)
      BY <3>2, DeleteConnectionStep, DeleteChunksStep
         DEF DeleteConnection, DeleteChunks, catalog, Chunks, Building
    <3> QED
      BY <1>3, <3>1, <3>2
  <2>3. index' = index \/ index' = NoIndex
    BY <1>3 DEF DeleteConnection, DeleteCatalog, DeleteChunks
  <2>4. Faithful(req[r])'
    BY <2>2 DEF Leaves, Faithful, Building
  <2>5. \A q \in Requests : Faithful(req[q])'
    BY <2>2, <2>3, <2>4, FaithfulMoves
  <2> QED
    BY <2>1, <2>5 DEF Followed, IndexFollows
<1>4. ASSUME SameRows, UNCHANGED <<header, index, req, deleted, dirty, unseen>> PROVE Followed'
  BY <1>4, SameChunks, FollowsSame DEF Followed, Faithful
<1>5. ASSUME NEW t \in Tables, MarkSeen(t) PROVE Followed'
  BY <1>4, <1>5, MarkSeenRows DEF MarkSeen, outcomes, SameRows
<1>6. CASE UNCHANGED <<rows, header, index, req, deleted, dirty, unseen>>
  BY <1>4, <1>6 DEF SameRows, Likewise
<1> QED
  BY <1>1, <1>2, <1>3, <1>5, <1>6, CommitSchemaFollowed, RebuildFollowed
     DEF Next, Serve, Migrate, catalog, outcomes, vars

-----------------------------------------------------------------------------
LEMMA CatalogInit == Init => CatalogInv
<1> SUFFICES ASSUME Init PROVE CatalogInv
  OBVIOUS
<1>1. \A r \in Requests : req[r].at = "idle"
  BY DEF Init, Idle
<1>2. Vouched /\ DescriptionsSticky /\ Cleaning /\ NothingLeft
  BY <1>1 DEF Init, Vouched, HashVouches, Loaded, DescriptionsSticky, NoRow, NoTables, Cleaning, NothingLeft
<1>3. Chunks(rows) = NoIndex
  BY DEF Init, Chunks, NoIndex, NoChunk, NoRow
<1>4. Followed
  BY <1>1, <1>3 DEF Init, Followed, IndexFollows, Faithful
<1> QED
  BY <1>2, <1>4, TypedInit DEF CatalogInv

LEMMA CatalogStep == CatalogInv /\ [Next]_vars => CatalogInv'
BY TypedStep, VouchedStep, StickyStep, CleaningStep, FollowedStep DEF CatalogInv

LEMMA CatalogInvariant == Spec => []CatalogInv
BY CatalogInit, CatalogStep, PTL DEF Spec

\* The stored hash never covers a table that the catalog lacks or has with other
\* columns, so a sync that skips the index on an equal hash skips nothing; unless a
\* sync or an upload was committed over another it had not seen.
THEOREM HashVouchesHolds == Spec => []HashVouches
<1>1. CatalogInv => HashVouches
  BY DEF CatalogInv, Vouched
<1> QED
  BY <1>1, CatalogInvariant, PTL

\* No sync, no merged upload and no other request loses the description a user gave to
\* a table that is still in the catalog.
THEOREM DescriptionsStickyHolds == Spec => []DescriptionsSticky
<1>1. CatalogInv => DescriptionsSticky
  BY DEF CatalogInv
<1> QED
  BY <1>1, CatalogInvariant, PTL

\* When nobody is about to rebuild the index, it holds the chunks of the catalog, but
\* after what IndexFollows names.
THEOREM IndexFollowsHolds == Spec => []IndexFollows
<1>1. CatalogInv => IndexFollows
  BY DEF CatalogInv, Followed
<1> QED
  BY <1>1, CatalogInvariant, PTL

\* A deletion whose cleanup has succeeded leaves no row, no header and no chunk, unless
\* another request of the connection was under way.
THEOREM NothingLeftHolds == Spec => []NothingLeft
<1>1. CatalogInv => NothingLeft
  BY DEF CatalogInv
<1> QED
  BY <1>1, CatalogInvariant, PTL
=============================================================================
