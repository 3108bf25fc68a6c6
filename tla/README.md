# Verification of the NL2SQL backend

This directory holds TLA+ models of the NL2SQL backend (`src/src/nl_to_sql`), the TLC
instances that check them and TLAPS proofs about them. Paths below are relative to
`src/nl_to_sql` of the repository unless they say otherwise. `PROJECT.json` lists the runs, the
lines each definition translates, the mutants, the hazards line by line and the theorems.

## 1. The system

A FastAPI server turns questions into SQL with a retrieval-augmented LLM pipeline, runs the SQL
on the user's database on request, and keeps chats, schedules, dashboards and training data in a
PostgreSQL of its own. Several server processes may run against that database (`WEB_CONCURRENCY`);
within one process everything is asyncio tasks on one event loop, so code between two awaits is
atomic and everything else interleaves.

| Component | State | Operations | What makes it correct |
|---|---|---|---|
| Scheduled queries (`services/scheduled_query_service.py`, `workers/scheduled_query_worker.py`, `api/routes/schedules.py`) | rows of `scheduled_queries` (pause flag, next run, failure counter), history `scheduled_query_runs` | create, update, pause, resume, delete, run-now; scheduler cycle in every process; `execute_schedule` | an active schedule has a next run, but after a resume and an auto-pause that crossed; auto-pause only after real failures; a user's pause is not undone; a due schedule is served; processes exclude each other |
| Advisory locks (`workers/scheduler.py`) | the server's lock table, by connection | `try_advisory_lock`, `advisory_unlock`; the pool closing or recycling connections | a held lock excludes; a leaked one does not block for ever |
| Query pipeline (`services/query_orchestrator.py`) | per request: attempts, last draft, errors, response | `run`, `run_stream`: lookup, classify, retrieve, load history, generate / validate / EXPLAIN / execute with retries, save, cache, learn | never serves another connection's SQL; caches hold only vetted SQL; executed requests get fresh rows or an error; context is the session's own; every request ends |
| Caches (`infrastructure/cache`) | exact (Redis or memory) and semantic (vector) entries | get, set, background semantic write, expiry | keyed so that tenants never meet |
| Grounding (`services/schema_retriever.py`, `rag/retrieval`, `infrastructure/example_store.py`, `services/feedback_learner.py`, `services/training_data_service.py`) | vector index, training rows, example collection, learned patterns in memory | two-phase retrieval, FK expansion, few-shot examples, collection, feedback | a prompt holds nothing of another connection; own schema before shared |
| Target and platform databases (`infrastructure/database/sqlalchemy_client.py`) | external data | `execute_sql`, `reflect_schema`, `switch_engine` | every failure is reported as one error type |
| Schema monitor, startup ingestion, ingestion service (`services/schema_monitor.py`, `api/app.py`, `services/schema_ingestion.py`) | shared chunks, stored hash, hash the monitor last saw | reflect, compare, lock, reset, embed, upsert | the store converges to the schema of the database |
| Schema catalog (`services/schema_catalog_service.py`, `api/routes/schema.py`) | per connection: tables, descriptions, hash; its chunks | sync, upload, describe, self-heal, delete | hash, rows and chunks agree; descriptions survive |
| Connections (`services/connection_service.py`, `api/routes/connections.py`) | user connections, the active one; an LRU of clients per process | list, resolve, create, rename, change of DSN, select, delete, `get_client`, evict | one active connection; a client serves the DSN of its row and is disposed of once |
| Authentication (`api/routes/auth.py`, `auth_sessions.py`, `api/dependencies.py`) | account row, former passwords, sessions, refresh tokens; a 45 s cache per process | register, verify, sign in, reset, refresh, log out, revoke | a revoked session ends; one refresh token per session |
| Chats, account settings, maintenance (`services/chat_session_service.py`, `api/routes/sessions.py`, `history.py`, `account.py`, `notification_prefs.py`, `workers/`) | sessions, messages, versions of their SQL, account rows | chat, clear, delete; purge, retention, digest in every process | nothing recent is deleted; no digest twice |
| Workspace (`services/dashboard_service.py`, `metrics_service.py`, `starter_content_service.py`, `export_service.py` and their routes) | dashboards, widgets, metrics, templates, saved queries, glossary, pins, checklists, instructions, shares, export jobs | create, patch, delete, certify, seed, export | starter content once; a certificate means checked |
| Runtime configuration (`config/container.py`, `api/routes/config.py`, `services/api_key_service.py`, `fine_tuning_service.py`, `orchestrator_factory.py`) | provider, settings and limiter of each process; personal keys | switch, deploy, set, assemble a pipeline | a pipeline is of one choice; the copies of a setting agree |
| Prompt budget, adaptive TTL, rank fusion, chunking, LLM providers, analytics, middleware, migrations | none that outlives a request | pure functions, I/O and wiring | not modelled (section 6) |

How they interact: routes call the pipeline that `RuntimeConfig`'s assembly gives them for the
active connection; the pipeline calls grounding, the LLM, the target database, both caches, chat
sessions and training data; the scheduler loop calls the same pipeline through `execute_schedule`;
startup and the monitor fill the shared chunks, the catalog those of a connection, and grounding reads
both; a deleted connection takes its catalog and chunks with it; the background loops coordinate
between processes through advisory locks only.

Where it is hard: rows read before an await and written from after it; locks that belong to pooled
connections rather than to the task that asked for them; several transactions per operation, each of
which may fail; memory of one process (caches, clients, patterns, settings) that another process's
write does not reach; a semantic entry written after the response; a retry loop with several kinds
of failure; an index deleted and filled again under its readers; a crash between two transactions.

## 2. Modules

| Module | Models | Composition |
|---|---|---|
| `AdvisoryLock` | the lock table of one key | extended by the three modules with background loops |
| `ScheduledQueries`, `_proofs` | scheduled queries end to end | `AdvisoryLock` |
| `QueryOrchestrator`, `_proofs` | `run` and `run_stream` over caches, sessions, databases | implements `QueryService` |
| `QueryService` | what the pipeline promises its callers | abstract |
| `SchemaSync` | startup ingestion and schema monitor over the shared chunks | `AdvisoryLock`; proofs in `Databases_proofs` |
| `UserData`, `_proofs` | chats, account settings and the three maintenance jobs | `AdvisoryLock` |
| `AuthSessions`, `_proofs` | one account: credentials, sessions, tokens, cache | |
| `Connections` | one user's connections and the client caches | proofs in `Databases_proofs` |
| `SchemaCatalog`, `_proofs` | one connection's catalog, its chunks, its deletion | |
| `Workspace` | the rows one user keeps | proofs in `UserData_proofs` |
| `Grounding`, `_proofs` | what prompts are made of | |
| `RuntimeConfig`, `_proofs` | switches of a running process, assembly of a pipeline | |

Every `MC...` module instantiates its module for TLC (constants that are functions, symmetry, initial
states of a run). Each action is one transaction, or one stretch of code between two awaits. History
variables (`missed`, `forked`, `skewed`, `torn` and the like, marked "history") record the ways in which
the code is known to lose a guarantee (section 5); a property excused by one says that there is no
other way, and its excuse is as narrow as the model allows: it names the row, process or key concerned
wherever more than one exists.

### ScheduledQueries

`rows` and `runs` are the two tables; `locks` the server's lock table for each key `sq:<id>`; `pc`, `due`,
`snap`, `out`, `tx` are the coroutine of each runner (a scheduler loop per process, or a slot for any user's
request); `via` says through which connection a loop was granted the lock, as long as that connection is
open; `failed` is history; `now`, `edits` and `faults` bound the behaviour.

`Create`, `Update`, `Pause`, `Resume`, `Delete`, `RunNow` are the routes; `ListDue`, `TryLock`,
`LockUnavailable`, `EndCycle`, `Unlock` the scheduler cycle; `FinishRun`, `RecordRun`, `TrimHistory`,
`MarkRun` the execution, which works on the detached row `snap`, exactly as the code does; `RaiseDeleted`,
`RaiseDatabase`, `ListDueFails`, `Crash`, `Restart` are failures.

Every operation on an existing row is two steps. `Update`, `Pause`, `Resume`, `Delete` and `MarkRun` are the
SELECT and the assignments (`Load`): `tx` keeps the row as it was loaded and as it is left. `Commit` writes the
columns in which the two differ, as the UPDATE of SQLAlchemy does, over whatever the row is by then (`Flushed`);
`CommitDelete` takes the history that was loaded with it. `CommitRaises` is a row that is gone, or a deletion that
the foreign key of a run recorded since refuses; `MarkNothing` a result that finds no row.
 `TryLock` and `Unlock` choose any
connection of the process's pool, since the code opens a new session for each. `CloseConnection` is
the pool discarding one that holds a lock.

Abstractions: a cron expression is the period it fires with (`compute_next_run` is exact for it);
the pipeline is success or failure; the alert decision, the e-mail and the columns nothing reads
back (`last_status`, `last_result_hash`) are left out.

### QueryOrchestrator and QueryService

One `pc` per request slot walks the phases of both pipelines, which differ where the code does: a
hit (`Hit`), and training data (`Store`). A statement is what decides whether it answers a request:
its dialect, its connection and the turn of a conversation it refines. A result set is the version
of the data it was read from, so that stale rows are visible. The validators', EXPLAIN's and
execution's verdicts are inputs. `verdict` keeps why the last draft is not good next to the `valid`
flag the code keeps, so that the two can be compared. `IsFollowUp`, `IsAmbiguous` and
`NeedsClarification` are the decisions before the loop, `Refined` the turn a draft refines.
`Cancel` is a client that disconnects, the scheduler's time limit, or the end of the process.

The exact and the semantic cache are functions from their real keys (`_make_cache_key`,
`SemanticKey`); every lookup may also miss. The semantic entry is written by a task of its own
(`pending`, `WriteSemantic`), at any time. `Put` is a write that a failing cache drops. The prompt and
the retrieved schema are in `Grounding`.

`QueryService` has no cache, no retry and no session: a request is open, then replied to or failed; a
reply is nothing or a known statement for the same question and connection; statements become
known only for an open request and may be forgotten. The refinement maps `pc` to the phase (`Phase`),
and the answers in both caches, in pending writes and under way to the known statements (`Known`).
`ImplementsService` is the abstract `LiveSpec`, whose `Ends` is that an open request does not stay open.

### SchemaSync

Every process may have a startup task and a monitor (`auto_ingest_schema_on_startup`,
`schema_monitor_enabled`); a task is a pair of process and role, and the role is also the key of its
lock. A schema is one version per table, unique per change, so that a reflection, a hash and the
chunks made from it are compared by version: of what both hashes cover, the names, types and nullability of
columns. `db` is the database, `store` the shared chunks,
`sentinel` the hash kept in the collection, `mem`, `ready` and `pending` the Qdrant client of each
process, `cur` and `last` the monitor's `current_hash` and `_last_schema_hash`, `snap` what a task
reflected, `todo` the chunks it has still to write.

`Detect`, `TryLock`, `Reflect`, `Reset`, `Upsert`, `Unlock` are a monitor's cycle; `Reflect`, `Compare`,
`Count`, `TryLock`, `Reset`, `Upsert`, `Unlock` the startup task, in the orders the code has them.
`Search` is any request that initialises the client, `Persist` the background write of the hash.
`Reset(i, FALSE)` is a deletion whose failure `delete_shared` swallows; `StartupFails`, `IngestFails`,
`PersistFails`, `LockUnavailable`, `UnlockFails`, `Crash`, `CloseConnection` are the other failures. The
history variables `missed`, `stale` and `cut` record the three ways the code can lose a change; `cut` names the
processes that crashed while their startup task was writing, until a startup task of theirs has written it all.

Abstractions: `mem` and `ready` are followed until the startup task of the process has read them; two
initialisations of one client are one after the other; the failed embedding and the failed upsert are
one step. What the monitor does not hash (defaults, keys, comments of tables and columns) is not a change in the
model.

### UserData

`accounts`, `deletion`, `retention`, `prefs` are the rows of a user, `sessions`, `messages`, `edited` the chat;
`locks` one lock table per job; `work` the maintenance loop of each process (`run_maintenance_jobs`: the
three jobs one after the other, each under its own lock). A message is one that holds SQL. Foreign keys
are modelled as what they refuse: none is `ON DELETE CASCADE`, so `HardDelete`, `DeleteSession` and
`PurgeHistory` fail while a row references what they delete (`Referenced`, `Within`, `Pinned`). A job works on
the list its first transaction returned (`todo`, `seen`), which may be out of date when a user is served.
`LockUnavailable` is the except branch that proceeds without the lock; `MarkFails` and `Crash` come between the
mail and its mark; `overlap` and `doubtful` are history.

### AuthSessions

One account: `user` is its row, `passwords` the rows of `password_history`; every route of `auth.py` loads
the row (`Load`) and its commit writes the columns it changed (`Flush`), so that two of them may
overwrite each other's counters and codes. `sessions`, `tokens`, `cache` are the login sessions, the
refresh tokens and `_auth_cache`. Sign-in is `RecordLogin`, then `IssueToken`; refresh is `Present`, `CheckSession`,
`Rotate`, each a statement of its own; a request that misses the cache is `Validate`, then `CacheSet`; the
revocations (`Logout`, `RevokeAuthSession`, `RevokeAll`) commit before `Invalidate` clears the cache of their
own process. `excused`, `tainted`, `cleared`, `forked`, `ended` are history.

### Connections

`rows` are the connections of one user; `cache` the LRU of each process, `disposed` the clients closed. A
request is at most two transactions, each what it reads and its commit; `EnsureRead`, `EnsureCommit` are
`ensure_default_connection`, which begins `list` and every request without an id. `Snapshot` is the beginning
of the `UPDATE` over all rows, which does not see rows inserted later. `Miss` and `Put` are the two ends of
`get_client`'s await, in which another lookup may open a client for the same key. `Evict` comes after the
commit, in its own process only. `skewed`, `lost`, `behind` are history.

### SchemaCatalog

`live` is the user's database, `rows` and `header` the catalog (row ids tell a row from its successor), `index`
the chunks. A table is its columns, comments included, and a description of its own; the hash of a schema has
the `Shape` of the columns, which is all but their comments, and the descriptions, as `compute_schema_hash`
does; a chunk has the columns with their comments and the user's description, or else the table's own. `Sync`,
`Upload`, `DescribeTable`, `Heal`, `DeleteConnection` begin requests; `Load` and `CommitSchema` or `Describe`
are a transaction, which writes the columns that differ from those loaded and fails on a conflict;
`ReadCatalog`, `Reset`, `Upsert` are `_reembed`, which `EmbedFails` ends early and in which `ResetFails` is a
deletion that keeps its failure to itself; `DeleteCatalog`, `DeleteChunks` the clean-up. `Changed` is the test
that spares a sync the rebuild, `Behind` the tables whose chunks it leaves as they were although the rows
changed. An uploaded table without a description keeps the one there (`Updated`), under a hash that has none.
`raced`, `dirty`, `unseen`, `ghost`, `said` are history.

### Workspace

One table `rows` of every kind a user keeps, with the columns that some operation depends on, and the two
checklists, one of which holds the markers of starter content. A request loads and commits; the commit
writes the columns that it sets to another value than the one loaded. `List` reads a marker, `Seed` inserts
(templates at once, others one by one, metrics with a certification each), `ReadMarkers` and `Mark` set the
marker in a transaction of their own. `CertifyMetric`, `Vet`, `Certify` check a definition between the load and
the commit. An export is a task that outlives its request: `StartExport` to `FailExport`, and `AbandonExport`
when nobody ends it. `created`, `vetted`, `edited`, `disturbed` are history.

### Grounding

`index`, `training`, `examples` belong to a connection or to all (`Shared`); `patterns` is the dictionary of
`FeedbackLearner` in each process. A request walks `Ask`, `CountChunks`, `SearchOne` for each variant of the
question, with `ListTables` at the same time, `SelectTables`, `FetchChunks`, `ExpandTables`, `SearchExamples`,
`RecentExamples`, `Generate`, `Collect`, while `Drop` and `Embed` replace the chunks. Which chunks are near, and
which tables the LLM selects, is chosen freely. `PreferOwn` is `_dedupe_prefer_own`, `Found` the over-fetch and cut
of one search. `lacked` and `reported` are history.

### RuntimeConfig

`config` is the two `Settings` objects of a process, the container's and the one `get_settings` gives;
`tracked`, `server`, `selector` are what the container says of its model, the provider it gives, and the choice
its singletons were made with; `engine`, `limiter` the other switched objects. A request (`Ask`, `GetKey`,
`Build`, `Leave`) reads the active choice before the await for a personal key. `UpdateLlm`, `CheckKey`,
`Deploy`, `ListJobs`, `UpdateDatabase`, `SwitchEngine`, `DisposeEngine`, `UpdateRag`, `ToggleRateLimit` are the
administrator's; `Restart` goes back to the environment, whose bounds of `top_k` nothing puts in order
(`config/settings.py:284`). `torn` is history.

## 3. Runs

| Run | Instance | Shows |
|---|---|---|
| `schedule_rows` | 1 schedule, 1 process, 2 request slots, 2 crons, cap 1, 2 failures, 2 ticks, 2 edits, 1 fault | `TypeOK`, `StrandedByCrossing`, `AutoPauseEarned`, `PauseSticks` |
| `schedule_locks` | 1 schedule, 2 processes, pools of 2, no edits, 2 faults, 2 ticks | `GuardedRunsExclusive`, `DueServed` |
| `pipeline_cache` | 2 requests without sessions, 1 question, 1 dialect, 2 connections, 2 attempts, 1 rate limit, 1 data change | `ConnectionScoped`, `CacheVetted`, `FreshRows`, `RowsOrError` |
| `pipeline_talk` | 2 requests of one session (plain, follow-up, vague, corrected, small talk) or of none, 2 attempts; the session has a turn | `TypeOK`, `OwnContext`, `ImplementsService` |
| `schema_mirror` | 2 processes, 3 tables of which 2 exist at first, 1 change, 1 fault, one connection per pool; a startup task and a monitor in one process or in two, or two monitors | `TypeOK`, `RemembersNoMore`, `Mirrors` |
| `user_jobs` | 1 user, session and message, 2 processes, pools of 1, retention 0 days or for ever, digest every 0 days, 1 tick, 2 edits, 1 fault; the user starts with digest and retention on | `TypeOK`, `DigestCadence`, `RetentionKeepsRecent` |
| `auth` | 2 sessions, 3 tokens, 2 processes, 2 concurrent requests of 5, 2 passwords, 2 codes, 1 attempt, TTL 1, 1 tick | `TypeOK`, `ForgottenWhereRevoked`, `StaleAtMostTtl`, `OneLiveToken`, `RevocationHolds` |
| `connections` | 4 rows, 2 DSNs, 2 processes, 2 concurrent requests of 3, caches of 1, limit 4; a new account, or one with two connections and a client | `OneDefault`, `StaleOnlyBehind`, `ClientsAccounted` |
| `catalog` | 2 tables, 3 versions of their columns of which 2 differ in a comment, 1 description, which a table has with the third, 2 requests besides the deletion, 1 change, 1 self-heal; a catalog that is empty or synced | `HashVouches`, `DescriptionsSticky`, `IndexFollows`, `NothingLeft` |
| `workspace` | 6 rows, 2 names, 2 texts, 2 starter rows per kind, 2 concurrent requests of 3; a new account, or one with a dashboard of 2 widgets | `WorkspaceTypeOK`, `SeededOnce`, `CertifiedChecked` |
| `grounding` | 2 connections, 2 tables with a foreign key, 1 process, 1 request of 2 searches, `TopK` 1; either 2 changes of the index or 2 reports, on 2 statements with one beginning | `TenantScoped`, `OwnElseShared`, `PatternsKept` |
| `runtime_config` | 1 process, 2 concurrent requests, 2 users of whom 1 administers, 2 providers of whom 1 has a server key, 1 fine-tuned model, 3 edits, any number of restarts; the environment gives inverted bounds | `OneChoice`, `CopiesAgree`, `UrlFollows` |

Bounds. A race needs two actors and one write between the read and the write of the first, so every run has
two of whatever races, and one or two of what they race for.

* Scheduler: two executions of one row and one change between the read and the write of the first: two runners,
  two ticks and two edits, each loaded and committed in two steps, give every order of them; schedules do not
  interact except through the list of a cycle. Two processes with two connections each have every lock history
  that matters: re-entry, refusal, release on the wrong connection, loss with the connection. That run has no
  edits, which only end or move the due time it is about, and two faults, so that a crash and a failed lock or
  write meet.
* Pipeline: a stale or foreign entry needs one request that writes and one that reads; a third adds only
  another order. Two attempts distinguish a first from a last one. Rate limits are in `pipeline_cache` only,
  and `pipeline_talk` (whose `TalkInit` leaves out mixtures of sessions and small talk) has the conversations.
* SchemaSync: a lost change needs two tasks, one change between their reads and writes, and a third table so
  that a crash can leave a store in part that a startup task counts as full; pools of one connection leak
  through `UnlockFails`. The constraint `Bound` stops the search where both properties are excused for good,
  since `missed` and `stale` never become false again, and lets a third table be created only where a startup
  task runs: nothing else counts. Two startup tasks without a monitor are left out, since `Mirrors` claims
  nothing of them.
* UserData: two processes with a connection each, since a lock leaks through re-entry on one as well;
  `Interval` and the window are 0 and one tick separates the days, which leaves both sides of each strict
  comparison reachable. `MaxHolds` bounds the grants a leaking connection collects.
* AuthSessions: three tokens are a first one and the two that two exchanges of it leave; a cache entry lives one
  tick, so that it is seen fresh and expired; five requests are a sign-in, a check and a revocation with two
  more that overlap them.
* Connections: three requests from an account with two connections give each pair of writes and a read, and
  a cache of one entry evicts at every second lookup.
* SchemaCatalog: two requests (a deletion comes on top) are a rebuild and what overlaps it; the catalog that
  starts `Synced` spares the requests that would fill it. The constraint `Bound` lets one table take every content
  and be uploaded, while the other is there, described, or not.
* Workspace: a seeding of two rows has a middle; three requests are two that overlap and one that deletes or
  edits; six rows are a dashboard of two widgets and its copy.
* Grounding: an index that is dropped and embedded again is two writes; index changes and feedback are kept
  apart (`Apart`) because no step reads both kinds of data of another request.
* RuntimeConfig: processes share nothing but the keys of users, so one is enough; three edits are two switches
  and a key.

`CHECK_DEADLOCK FALSE` is set where bounded clocks and requests end every behaviour; `runtime_config` may always
restart and does check it. Deadlock freedom is not claimed otherwise; the liveness properties say that what
must go on does.

Fairness. `FairSpec` of ScheduledQueries gives weak fairness to each execution and each scheduler loop (an
asyncio task that can run does run, and the pipeline is under a time limit), and to the recycling of a
connection that holds a lock (`pool_recycle`). No fairness is given to the clock, users, faults or restarts.
`FairSpec` and `TalkSpec` of QueryOrchestrator give it to each request's own steps and to the background writes;
the LLM client, the database and the vector store answer or fail within their time limits. That of SchemaSync
gives it to every task, the monitor's timer included, and to the recycling of connections, but not to restarts,
which nothing in the repository arranges: `Mirrors` claims nothing while a process is down, nor where a crash is
in `cut` and its process has no monitor. The other modules state no liveness: their requests are a few
statements each, and nothing in them waits for another request.

## 4. Proofs

Each `_proofs` module proves what it states for any value of the constants, from the named assumption of its
component alone. TLC checked each inductive invariant on the instances of the runs before its proof was
written.

`ScheduledQueries_proofs`:

* `TypeCorrect`: `TypeOK`.
* `StrandedByCrossingHolds`: an action property. Of every transaction under way (`WritesOk`, in `CounterInv`), the
  one that withdraws the next run also pauses, and only a resume ends a pause, so that a commit can strand a
  row only with the half of its pair that it found as it wants it, which is `Crossed`.
* `AutoPauseEarnedHolds`, from `CounterInv`: the counter of the row, of every snapshot taken of it and
  of every outcome and open transaction computed from one is at most the number of failures recorded, plus one
  for an outcome not yet recorded. Counters travel through detached copies, so the bound must hold in each of
  the places at once.
* `GuardedRunsExclusiveHolds`, from `LockInv`: a loop's `via` connection holds its key, belongs to the
  process, and at most one connection holds a key. The type invariant of the lock table alone does
  not exclude two grants.
* `PauseSticksHolds`: an action property, from the same invariant: what a commit leaves of a row (`RowFlushed`) is
  active where the row was paused only if the transaction set the flag, which a resume alone does.

`QueryOrchestrator_proofs`:

* `TypeCorrect`: `TypeOK`.
* `PipelineInvariant`: the conjunction `PipelineInv` is inductive. Per slot, `AskedOk` says that data and
  conversation only grow after submission; `WorkOk` that a draft marked valid was refused by no layer
  but the column check, and that an attempt that follows another starts from a draft that was not
  good; `AnswerOk` that an answer is of its own connection and what it says of rows and errors.
  `StoresOk` says the same of every entry of both caches, every background write not yet done and
  every training pair.
* `ConnectionScopedHolds`, `CacheVettedHolds`, `FreshRowsHolds`, `RowsOrErrorHolds`, `OwnContextHolds`: each is
  a consequence. None is inductive alone: an answer is only as good as the entry it was served from,
  an entry as the answer it was written from, which may have waited in `pending`, and the flags of an
  answer as the draft carried through the retries.
* `ImplementsQueryService`: initial states map to initial states and every step to a step of `QueryService`
  or to a stutter, so the pipeline implements its safety part; it rests on `PipelineInv`, since a reply
  must be a known statement of the request's own connection.

Two modules each prove about two that share no state and no constant (this is why some definitions of `Connections`
and of `Workspace` are named `ConnInit`, `WorkspaceNext`, `BeginRequest`, `TickItems` and so on).

`Databases_proofs`, of `SchemaSync` and of `Connections`:

* `TypeCorrect`: `TypeOK` of SchemaSync.
* `RemembersNoMoreHolds`, from `MemoryInv`: versions in `cur` and `last` are no newer than the database's
  unless the table was dropped, none is newer than the last change, and from its reflection to its last
  write an ingestion covers what its monitor compared. Without the bound by `changes` a table created
  again could carry a version already remembered. This invariant, not the lock, is why every change is
  found again after any overlap of monitors.
* `ConnectionsTypeCorrect`: `ConnTypeOK`, with `Placed`, what a request has read and decided by where it is.
* `OneDefaultHolds`, from `Settled`: one row is active (`SoleActive`), and what every open transaction has read
  still holds unless a commit has made it out of date (`Current`). `OneDefault` alone is not inductive: a
  transaction that has read and not yet written would break it, were its reading not still true.
* `StaleOnlyBehindHolds`: an entry of a cache points where its row does, or is about to be evicted, or its process
  is behind; the step that needs more is the new entry of a lookup, whose DSN `Current` vouches for.
* `ClientsAccountedHolds`, from `Accounted`: besides, a process has one entry per connection and no client is in
  two entries, without which the one dropped from a full cache could be still in use as another.

`UserData_proofs`, of `UserData` and of `Workspace`:

* `TypeCorrect`: `TypeOK` of UserData.
* `RetentionKeepsRecentHolds`: an action property, by cases on the steps that write messages; a clean-up works
  with the setting it listed, and what it deletes is older than that at the time of the deletion.
* `DigestCadenceHolds`, from an invariant that relates the last mail of a user, the mark in `prefs`, and every
  list of candidates: outside an overlap, a user who is still on a list has not been mailed since it was made.
* `WorkspaceTypeCorrect`, `SeededOnceHolds`, `CertifiedCheckedHolds`, from `WorkspaceInv`. `Given` says what a
  request may have to do at each of its steps, `About` what it knows of the rows, which the commits of others
  keep true or mark as stale: a row it has loaded was inserted and stays of its kind, and a definition under
  check is the row's. `SeedsOnce`: outside a disturbance one request seeds a kind, it has inserted none of the
  rows it still has to, and with no marker and no such request there are none. The rows inserted are always the
  first ones (`MadeFirst`), by counting lemmas proved from the well-foundedness of the naturals; without it an
  inserted row could be an old one.

`AuthSessions_proofs`:

* `TypeCorrect`: `TypeOK`.
* `ForgottenHolds`, `StaleAtMostTtlHolds`, `RevocationHoldsAlways`, from an invariant on revoked sessions: every
  request that still carries a check of one is among `excused`, and the clock is not before the revocation.
* `OneLiveTokenHolds`: with it, that a session has at most one token that is live or about to be issued,
  unless one of its tokens was exchanged twice.

`RuntimeConfig_proofs`:

* `TypeCorrect`: `TypeOK` of RuntimeConfig, with `Placed`: a request under way is in some process, and only a
  user's request looks for a key.
* `OneChoiceHolds`, from `ChoiceInv`: keys are filed under their user and vendor, a request that has still to
  look for a key carries the choice that was active when it came, and both settings, the tracked choice
  and the provider of a process agree. The last is needed because the two are read by different calls.
* `CopiesAgreeHolds`: with it, `Ordered`, which is inductive: an update merges with the live copy and writes both.
  Nothing is assumed of the environment's bounds: the invariant is that bounds are in order or the environment's own.
* `UrlFollowsHolds`, from `SwitchedOnce`: outside a disturbance at most one request of a process is closing the
  old pool, and it is the one whose database the engine now is.

`SchemaCatalog_proofs`, for any tables, contents and requests:

* `TypeCorrect`: `TypeOK` of SchemaCatalog, with what a request has loaded by where it is.
* `HashVouchesHolds`, `DescriptionsStickyHolds`, `IndexFollowsHolds`, `NothingLeftHolds`, from `CatalogInv`. Its
  layers: `Vouched`, what a commit has loaded and no other has overtaken is still the catalog; `Followed`, what
  a rebuild has read is still the catalog and the chunks it will not write are gone (`Faithful`), and what the
  index lags in is no more than the hash does not tell (`Untold`), because a sync skips the index only where its
  hash is that of the header and the header's is, in turn, vouched for; `Cleaning`, after a deletion that
  nothing disturbed there are only cleanups left, and the catalog goes before the chunks. The first, third and
  fourth are not inductive alone: each is written by one transaction from what an earlier one has read.

`Grounding_proofs`, for any connections, tables, statements and requests:

* `TypeCorrect`: `TypeOK` of Grounding.
* `TenantScopedHolds`, from `Scoped`: what a request has gathered is its connection's own or shared in every phase;
  a prompt is put together from several searches, each scoped by code of its own.
* `OwnElseSharedHolds`, from `OwnFirst` and `Aware`: a table whose own chunk is missing from the index at any
  moment of a request is among those it is known to have lacked, so what a search prefers it may prefer.
* `PatternsKeptHolds`: inductive with the types, by cases on the steps that write the patterns of a process.

Only model-checked: liveness (`DueServed`, `Mirrors`, the `Ends` part of `ImplementsService`), which the prover
cannot do, nor `ENABLED`, nor induction over data. Every invariant and every action property of a run is a theorem.

## 5. What the models show of the code

Behaviours met while modelling. The models contain every one of those they have state for, and a property that
would be false because of one is excused by the history variable that records it.

Schedules:

* A resume and an auto-pause that cross leave an active schedule without a next run, which `list_due` never
  finds again. A failing run has ended and the user pauses: `mark_run_result` loads the row as paused
  (`services/scheduled_query_service.py:434`), a resume commits `is_paused` and a new `next_run_at`, and the
  mark commits `next_run_at = NULL` alone, its `is_paused` being what it had loaded. The other way round, a
  resume that has loaded the row omits what equals the loaded value, and an auto-pause commits in between.
  `StrandedByCrossing` says that there is no other way.
* Deleting a schedule fails when a run of it is recorded between the SELECT and the COMMIT, whose foreign key has no
  `ON DELETE`.
* A schedule deleted while it executes ends the scheduler's task for good, although `execute_schedule` "never
  raises" (`workers/scheduled_query_worker.py:127`): the final write loads the row again and raises outside its
  handler.
* An occurrence is executed twice if another process finished it between this one's listing and its lock: the
  row is not read again under the lock. A schedule paused after the listing is still executed.
* A run whose SQL never validated is recorded as a success; run-now and the loop may execute one row at once.

Pipeline:

* `attempt -= 1` in a `for` loop gives no attempt back (`services/query_orchestrator.py:591`): a rate limit costs
  one. A retry that succeeds still returns the execution error of the attempt before it.
* A follow-up question is served from the cache whatever the session it follows up in. A draft with unknown
  columns is answered and cached as valid. Rows of a cached answer reach requests that asked for none. The
  semantic cache ignores the dialect. The branch for a database that is down during EXPLAIN is never taken.
  Cached SQL outlives a change of the schema, until its TTL.

Schema monitor and startup:

* The monitor keeps the hash of a change whose ingestion failed, so the change is not tried again
  (`services/schema_monitor.py`): `missed`.
* A startup task that reflected before a change may overwrite the monitor's later ingestion, since the two
  hold different locks; `POST /schema/refresh` ingests without either: `stale`.
* A startup task that crashes between its batches leaves some tables missing. If the hash in the collection is
  already that of the schema, because a monitor of another process had ingested it, and more chunks are there
  than the count is compared with, the restarted task skips the ingestion (`api/app.py:129`), and the other
  monitor remembers the schema as ingested: the tables stay missing until the next change. `cut`.
* Neither hash covers the comments of columns, which the chunks hold: a new comment alone is never ingested.
* Chunks of a dropped table stay until another table changes. The startup comparison subtracts the entry of
  the hash from a count that does not include it. On Qdrant the hash is unknown at startup unless a
  request has searched before.

Accounts and maintenance:

* The purge of an account that was requested through the API never succeeds: the user is deleted while
  `account_deletions` refers to it (`workers/purge_worker.py`). A deletion requested again after a
  cancellation hits the same primary key.
* A session with messages cannot be deleted, although the endpoint is documented to delete them
  (`api/routes/sessions.py:319`). One user's pinned message aborts the retention job for all. Cleared messages
  are still listed by `GET /history`.

Authentication:

* A revoked session is honoured for up to the cache's TTL by other processes, which the code accepts, and for
  up to one more when a check that preceded the revocation is cached after it. Two exchanges of one refresh
  token leave two live tokens. Overlapping requests overwrite each other's attempt counters and codes.

Connections:

* Overlapping creations or selections leave two active connections, or exceed the limit, which is counted in a
  statement of its own. Another process keeps the client of a changed or deleted connection without bound.
  Two lookups that overlap leak a client; an evicted client is closed under the requests that use it. A DSN that
  does not decrypt falls back to the platform's database without a word.

Catalog:

* A sync is documented to "re-embed if changed" (`services/schema_catalog_service.py:126`), but the hash omits the
  comments of columns: after a `COMMENT ON COLUMN` the rows are updated and the index is not. Nor is it for a table
  dropped under an unchanged hash: `unseen`.
* An upload without a description keeps the older one of a table (`services/schema_catalog_service.py:272`), under a
  hash that covers none, so that a later sync which removes it goes unnoticed by the index as well.
* A failed deletion of chunks is not reported (`delete_by_connection`), and the new chunks join the old ones.
* A catalog that becomes empty keeps its old chunks. Overlapping rebuilds leave an index that matches no catalog
  beside a new hash.

Workspace:

* An update never clears `certified`: the definition of a certified metric may become one nobody checked. The
  column check ignores unqualified columns.
* Markers of starter content are lost when two requests overlap, and content the user deleted is seeded again.
  A metric seeding that failed midway conflicts for ever. `user_instructions` has no unique `user_id`: two first
  writes that overlap make every later read fail.
* An export whose process dies stays queued or running for ever. `run_count` loses updates.

Runtime configuration:

* The default fine-tuning provider cannot be deployed: `create_llm_provider` does not know it. With a user's own
  key there is no callback to deploy with.
* "All subsequent requests use the fine-tuned model" (`services/fine_tuning_service.py:243`) is not so for
  the table selector, the rewriter and the describer, which keep the provider they were built with.
* Nothing validates the bounds of `top_k` in the environment (`config/settings.py:284`). If they are inverted, every
  update of the retrieval settings is refused with 422, whatever it sets, until one sets a bound so that they
  are in order (`api/routes/config.py:363`).
* A switch holds for one process and until it ends, although workers are called stateless and free of
  coordination (`README.md:351` of the repository). An administrator's personal key suffices to switch to a
  provider that other users then have no key for.
* Overlapping switches of the database, or one that fails to close the old pool, leave `database_url` behind:
  `torn`. The rate limit toggle leaves the container's settings behind, the database switch the other copy.

Grounding:

* The container builds the feedback learner without a feedback service, so patterns live in one process and end
  with it. Statements with the same first 100 characters and error type overwrite each other's pattern
  within a connection; patterns without tables are not found when tables are given.
* The orchestrator undoes the table selector's deliberate empty selection. The over-fetch of a search may be too
  small to hold the own copy of a table. A rebuild between counting and searching leaves a prompt without
  schema: `lacked`.

## 6. Not modelled

* Prompt budget, adaptive TTL, rank fusion, chunking, reranking, question classification and rewriting: pure
  functions of numbers and text whose correctness is a matter of quality; the choices they feed are free in
  the models.
* LLM providers, embedders, prompts, vector stores other than by what a search may return: external services.
* Usage and analytics, query history listings, schema documentation, rendering of exports: they read, or append
  rows nothing reads back.
* Middleware, logging, metrics, migrations, dependency wiring: no state of the program's own, except the
  switchable part, which `RuntimeConfig` has.
* Alerts and e-mails of schedules; the wording of anything.
* Redis and PostgreSQL are assumed to do what they promise: a statement is atomic, a transaction sees what was
  committed at its reads (READ COMMITTED), a constraint refuses, a row lock waits.

## 7. What is left

* Schedule alerts over `last_result_hash`; `services/schema_doc_service.py` and its TTL; `POST /schema/refresh` as
  a third ingester of `SchemaSync`.
* Prompt pruning, rank fusion and the adaptive TTL as functions checked against their definitions.
