-------------------------- MODULE QueryOrchestrator --------------------------
(***************************************************************************)
(* The question-to-SQL pipeline of services/query_orchestrator.py: run and *)
(* run_stream, for several requests at once, over what they share: the     *)
(* exact and the semantic cache (infrastructure/cache), the chat sessions, *)
(* the training data and the target databases.                             *)
(*                                                                         *)
(* A statement is abstracted to what decides whether it answers a request: *)
(* the dialect and connection it was generated for, and the turn of a      *)
(* conversation it refines.  A result set is the version of the data it    *)
(* was read from.  Questions that the caches tell apart are different      *)
(* values.  Every await of the code ends a step.                           *)
(***************************************************************************)
EXTENDS Integers, FiniteSets

CONSTANTS
    Requests,       \* request slots, each used once
    Questions, Dialects, Connections, Sessions,
    FollowUps,      \* questions that read as a refinement of the turn before
    Vague,          \* follow-ups with nothing concrete in them
    Smalltalk,      \* greetings and off-topic questions
    Workload,       \* the requests clients may send
    MaxRetries,     \* sql_max_retries
    MaxRateLimits,  \* max_rate_limit_retries
    MaxVersion,     \* bound: changes of the data of each connection
    PastTurns,      \* bound: turns a session may have at the start
    NoSession, NoSql

Request == [question : Questions, dialect : Dialects, connection : Connections,
            execute : BOOLEAN, stream : BOOLEAN, correction : BOOLEAN,
            session : Sessions \cup {NoSession}]

\* The turn a statement refines: the n-th with SQL of a session.
Turn   == (Sessions \cup {NoSession}) \X Nat
NoTurn == <<NoSession, 0>>
Sql    == [dialect : Dialects, connection : Connections, base : Turn]

NoRows == -1
Rows   == Nat \cup {NoRows}

\* Why a draft is not good: it did not parse, only its columns are unknown, the
\* database refused it, or the database could not be asked.
Verdicts == {"good", "rejected", "columns", "refused", "outage"}

Answer == [sql : Sql \cup {NoSql}, valid : BOOLEAN, verdict : Verdicts,
           rows : Rows, error : BOOLEAN, cached : BOOLEAN]

Work == [attempt : Nat \ {0}, limits : Nat, base : Turn, drafted : BOOLEAN,
         valid : BOOLEAN, verdict : Verdicts, error : BOOLEAN]

ASSUME ConstantsAssumption ==
    /\ Workload \subseteq Request
    /\ Vague \subseteq FollowUps /\ FollowUps \subseteq Questions
    /\ Smalltalk \subseteq Questions
    /\ NoSession \notin Sessions /\ NoSql \notin Sql
    /\ MaxRetries \in Nat \ {0} /\ MaxRateLimits \in Nat
    /\ MaxVersion \in Nat /\ PastTurns \in Nat

VARIABLES
    pc, req,    \* where each request is, and what was asked
    work,       \* the self-correction loop of a request
    answer,     \* its QueryResponse
    asked,      \* history: data version and turns of the session at submission
    exact,      \* L1 cache, by the fields of _make_cache_key
    semantic,   \* L2 cache, by question and connection
    pending,    \* background tasks that will write L2
    turns,      \* messages with SQL saved in each session
    trained,    \* pairs collected as training data
    db          \* version of the data behind each connection

vars == <<pc, req, work, answer, asked, exact, semantic, pending, turns,
          trained, db>>
shared == <<exact, semantic, pending, turns, trained>>

-----------------------------------------------------------------------------
Phases == {"idle", "exact", "semantic", "hit", "prepare", "history", "generate",
           "explain", "execute", "save", "store", "learn", "done", "failed"}

NoAnswer == [sql |-> NoSql, valid |-> FALSE, verdict |-> "good",
             rows |-> NoRows, error |-> FALSE, cached |-> FALSE]
\* Mutant of NoWork: range(0, max_retries + 1).
NoWorkFromZero == [attempt |-> 0, limits |-> 0, base |-> NoTurn, drafted |-> FALSE,
                   valid |-> FALSE, verdict |-> "good", error |-> FALSE]
NoWork   == [attempt |-> 1, limits |-> 0, base |-> NoTurn, drafted |-> FALSE,
             valid |-> FALSE, verdict |-> "good", error |-> FALSE]
NotAsked == [version |-> 0, turns |-> 0]

Key == Questions \X Dialects \X Connections
\* Mutant of _make_cache_key: the connection is left out.
_make_cache_key_unscoped(q) ==
    <<q.question, q.dialect, CHOOSE c \in Connections : TRUE>>
_make_cache_key(q) == <<q.question, q.dialect, q.connection>>
SemanticKey(q) == <<q.question, q.connection>>

Active(r) == pc[r] \notin {"idle", "done", "failed"}
TurnsOf(s) == IF s \in Sessions THEN turns[s] ELSE 0
Go(r, phase) == pc' = [pc EXCEPT ![r] = phase]
Respond(r, a) == answer' = [answer EXCEPT ![r] = a]

Init ==
    /\ pc = [r \in Requests |-> "idle"]
    /\ req \in [Requests -> Workload]
    /\ work = [r \in Requests |-> NoWork]
    /\ answer = [r \in Requests |-> NoAnswer]
    /\ asked = [r \in Requests |-> NotAsked]
    /\ exact = [k \in Key |-> NoAnswer]
    /\ semantic = [k \in Questions \X Connections |-> NoAnswer]
    /\ pending = {} /\ trained = {}
    /\ turns \in [Sessions -> 0..PastTurns]
    /\ db = [c \in Connections |-> 0]

Submit(r) ==
    /\ pc[r] = "idle" /\ Go(r, "exact")
    /\ asked' = [asked EXCEPT ![r] = [version |-> db[req[r].connection],
                                      turns |-> TurnsOf(req[r].session)]]
    /\ UNCHANGED <<req, work, answer, db, shared>>

\* The data behind a connection changes.
Change(c) ==
    /\ db[c] < MaxVersion
    /\ db' = [db EXCEPT ![c] = @ + 1]
    /\ UNCHANGED <<pc, req, work, answer, asked, shared>>

-----------------------------------------------------------------------------
(* _cache_lookup and what both pipelines do with a hit. *)

\* Mutant of Hit: run returns the stored rows too.
HitAsStored(r, entry) ==
    Respond(r, [entry EXCEPT !.cached = TRUE]) /\ Go(r, "save")

\* run executes a cached statement on request; otherwise the payload is the
\* answer as it was stored.
Hit(r, entry) ==
    /\ Respond(r, [entry EXCEPT !.cached = TRUE])
    /\ Go(r, IF req[r].execute /\ ~req[r].stream THEN "hit" ELSE "save")

\* An expired entry, or a cache that fails, is a miss.
LookupExact(r) ==
    LET entry == exact[_make_cache_key(req[r])]
    IN  /\ pc[r] = "exact"
        /\ \/ entry # NoAnswer /\ Hit(r, entry)
           \/ Go(r, "semantic") /\ UNCHANGED answer
        /\ UNCHANGED <<req, work, asked, db, shared>>

\* The search may also miss because other entries fill the ten candidates.
LookupSemantic(r) ==
    LET entry == semantic[SemanticKey(req[r])]
    IN  /\ pc[r] = "semantic"
        /\ \/ entry # NoAnswer /\ Hit(r, entry)
           \/ Go(r, "prepare") /\ UNCHANGED answer
        /\ UNCHANGED <<req, work, asked, db, shared>>

\* Mutant of ExecuteCached: the error is logged and forgotten.
ExecuteCachedSilently(r, ok) ==
    /\ pc[r] = "hit"
    /\ Respond(r, [answer[r] EXCEPT
                     !.rows = IF answer[r].valid /\ ok THEN db[req[r].connection] ELSE NoRows])
    /\ Go(r, "save")
    /\ UNCHANGED <<req, work, asked, db, shared>>

\* The rebuilt response has the rows, or the error, of this execution.
ExecuteCached(r, ok) ==
    /\ pc[r] = "hit"
    /\ Respond(r, [answer[r] EXCEPT
                     !.rows = IF answer[r].valid /\ ok THEN db[req[r].connection] ELSE NoRows,
                     !.error = answer[r].valid /\ ~ok])
    /\ Go(r, "save")
    /\ UNCHANGED <<req, work, asked, db, shared>>

-----------------------------------------------------------------------------
(* Classification, retrieval and the conversation. *)

Greet(r) ==
    /\ pc[r] = "prepare" /\ req[r].question \in Smalltalk
    /\ Go(r, "save")
    /\ UNCHANGED <<req, work, answer, asked, db, shared>>

Fail(r) ==
    /\ Go(r, "failed")
    /\ work' = [work EXCEPT ![r] = NoWork]
    /\ answer' = [answer EXCEPT ![r] = NoAnswer]

\* The vector store or the table selector may raise.
RetrieveSchema(r, ok) ==
    /\ pc[r] = "prepare" /\ req[r].question \notin Smalltalk
    /\ IF ok THEN Go(r, "history") /\ UNCHANGED <<work, answer>> ELSE Fail(r)
    /\ UNCHANGED <<req, asked, db, shared>>

\* The word lists of both heuristics decide the two sets of questions.
IsFollowUp(q)  == q.question \in FollowUps
IsAmbiguous(q) == q.question \in Vague
NeedsClarification(q, n) == n > 0 /\ ~q.correction /\ IsFollowUp(q) /\ IsAmbiguous(q)

\* The turn of n that the effective question is about: a correction rewrites the
\* last question, a follow-up carries the last statement.
Refined(q, n) ==
    IF n > 0 /\ (q.correction \/ IsFollowUp(q)) THEN <<q.session, n>> ELSE NoTurn

\* The answer asks back; it has no statement, and it is saved as any other.
EmitClarification(r) == Go(r, "save") /\ UNCHANGED work

\* Mutant of LoadHistory: messages sorted newest first, so that [-1] is the oldest.
LoadHistoryReversed(r, ok) ==
    LET q == req[r]
        n == IF ok THEN TurnsOf(q.session) ELSE 0
    IN  /\ pc[r] = "history"
        /\ Go(r, "generate")
        /\ work' = [work EXCEPT ![r].base = IF n > 0 THEN <<q.session, 1>> ELSE NoTurn]
        /\ UNCHANGED <<req, answer, asked, db, shared>>

\* _load_conversation_history (a failure leaves no history), then
\* _needs_clarification and _build_effective_question.
LoadHistory(r, ok) ==
    LET q == req[r]
        n == IF ok THEN TurnsOf(q.session) ELSE 0
    IN  /\ pc[r] = "history"
        /\ IF NeedsClarification(q, n) THEN EmitClarification(r)
           ELSE /\ Go(r, "generate")
                /\ work' = [work EXCEPT ![r].base = Refined(q, n)]
        /\ UNCHANGED <<req, answer, asked, db, shared>>

-----------------------------------------------------------------------------
(* Generation with self-correction. *)

Finish(r, w, rows) ==
    /\ Respond(r, [sql |-> [dialect |-> req[r].dialect, base |-> w.base,
                            connection |-> req[r].connection],
                   valid |-> w.valid, verdict |-> w.verdict,
                   rows |-> rows, error |-> w.error, cached |-> FALSE])
    /\ work' = [work EXCEPT ![r] = w]
    /\ Go(r, "save")

\* Mutant of Retry: `while not valid` instead of a bounded loop.
RetryForever(r, w) ==
    work' = [work EXCEPT ![r] = w] /\ Go(r, "generate") /\ UNCHANGED answer

\* The for loop: one more attempt, or the answer from what was drafted last.
Retry(r, w) ==
    IF w.attempt < MaxRetries
    THEN /\ work' = [work EXCEPT ![r] = [w EXCEPT !.attempt = @ + 1]]
         /\ Go(r, "generate") /\ UNCHANGED answer
    ELSE IF w.drafted THEN Finish(r, w, NoRows) ELSE Fail(r)

\* generate, and both layers of validation.  Unknown columns do not make the
\* draft invalid.
Generate(r, verdict) ==
    LET w == [work[r] EXCEPT !.drafted = TRUE, !.verdict = verdict,
                             !.valid = verdict # "rejected"]
    IN  /\ pc[r] = "generate"
        /\ IF verdict = "good"
           THEN /\ work' = [work EXCEPT ![r] = w]
                /\ Go(r, "explain") /\ UNCHANGED answer
           ELSE Retry(r, w)
        /\ UNCHANGED <<req, asked, db, shared>>

\* `attempt -= 1` does not move the for loop: the attempt is spent.
RateLimited(r) ==
    LET w == [work[r] EXCEPT !.limits = @ + 1]
    IN  /\ pc[r] = "generate"
        /\ IF w.limits > MaxRateLimits THEN Fail(r) ELSE Retry(r, w)
        /\ UNCHANGED <<req, asked, db, shared>>

GenerationFails(r) ==
    /\ pc[r] = "generate" /\ Fail(r)
    /\ UNCHANGED <<req, asked, db, shared>>

\* Mutant of Explain: a refusal is fed back to the model but leaves the draft valid.
ExplainLeavesValid(r, verdict) ==
    LET w == [work[r] EXCEPT !.verdict = verdict]
    IN  /\ pc[r] = "explain"
        /\ IF verdict # "good" THEN Retry(r, w)
           ELSE IF req[r].execute
           THEN Go(r, "execute") /\ UNCHANGED <<work, answer>>
           ELSE Finish(r, w, NoRows)
        /\ UNCHANGED <<req, asked, db, shared>>

\* EXPLAIN.  The client turns every exception into a DatabaseExecutionError, so
\* an outage counts against the draft as a refusal does.
Explain(r, verdict) ==
    LET w == [work[r] EXCEPT !.valid = verdict = "good", !.verdict = verdict]
    IN  /\ pc[r] = "explain"
        /\ IF verdict # "good" THEN Retry(r, w)
           ELSE IF req[r].execute
           THEN Go(r, "execute") /\ UNCHANGED <<work, answer>>
           ELSE Finish(r, w, NoRows)
        /\ UNCHANGED <<req, asked, db, shared>>

\* execution_error outlives the attempt it belongs to.
Execute(r, verdict) ==
    LET w == [work[r] EXCEPT !.valid = FALSE, !.verdict = verdict, !.error = TRUE]
    IN  /\ pc[r] = "execute"
        /\ IF verdict = "good" THEN Finish(r, work[r], db[req[r].connection])
           ELSE Retry(r, w)
        /\ UNCHANGED <<req, asked, db, shared>>

-----------------------------------------------------------------------------
(* Persisting the answer. *)

Complete(r) == Go(r, "done") /\ work' = [work EXCEPT ![r] = NoWork]

\* add_message; a failure is logged and skipped.
SaveMessage(r, ok) ==
    LET q == req[r]
    IN  /\ pc[r] = "save"
        /\ ok => q.session \in Sessions
        /\ turns' = IF ok /\ answer[r].sql # NoSql
                    THEN [turns EXCEPT ![q.session] = @ + 1] ELSE turns
        /\ IF answer[r].valid /\ ~answer[r].cached
           THEN Go(r, "store") /\ UNCHANGED work ELSE Complete(r)
        /\ UNCHANGED <<req, answer, asked, exact, semantic, pending, trained, db>>

\* A cache that fails keeps what it had.
Put(cache, k, a, ok) == IF ok THEN [cache EXCEPT ![k] = a] ELSE cache

\* The exact entry is written now, unless the cache fails, the semantic one by a
\* task of its own.  Only run collects training data.
Store(r, ok) ==
    LET q == req[r]
    IN  /\ pc[r] = "store"
        /\ exact' = Put(exact, _make_cache_key(q), answer[r], ok)
        /\ pending' = pending \cup {<<SemanticKey(q), answer[r]>>}
        /\ IF q.stream THEN Complete(r) ELSE Go(r, "learn") /\ UNCHANGED work
        /\ UNCHANGED <<req, answer, asked, semantic, turns, trained, db>>

Learn(r, ok) ==
    LET q == req[r]
    IN  /\ pc[r] = "learn"
        /\ trained' = IF ok THEN trained \cup {<<SemanticKey(q), answer[r].sql>>}
                      ELSE trained
        /\ Complete(r)
        /\ UNCHANGED <<req, answer, asked, exact, semantic, pending, turns, db>>

\* _write_semantic, some time after the request.
WriteSemantic(p, ok) ==
    /\ p \in pending
    /\ pending' = pending \ {p}
    /\ semantic' = Put(semantic, p[1], p[2], ok)
    /\ UNCHANGED <<pc, req, work, answer, asked, exact, turns, trained, db>>

\* The client of a stream disconnects, the scheduler's time limit cancels run,
\* or the process ends: at any await.
Cancel(r) ==
    /\ Active(r) /\ Fail(r)
    /\ UNCHANGED <<req, asked, db, shared>>

-----------------------------------------------------------------------------
\* What the parser says of a draft, and what the database does.
Drafts == {"good", "rejected", "columns"}
Bad    == {"refused", "outage"}

Step(r) ==
    \/ LookupExact(r) \/ LookupSemantic(r) \/ Greet(r)
    \/ RateLimited(r) \/ GenerationFails(r)
    \/ \E verdict \in Drafts : Generate(r, verdict)
    \/ \E verdict \in {"good"} \cup Bad : Explain(r, verdict) \/ Execute(r, verdict)
    \/ \E ok \in BOOLEAN : \/ ExecuteCached(r, ok) \/ RetrieveSchema(r, ok)
                           \/ LoadHistory(r, ok) \/ SaveMessage(r, ok)
                           \/ Store(r, ok) \/ Learn(r, ok)

Write == \E p \in pending, ok \in BOOLEAN : WriteSemantic(p, ok)

Next ==
    \/ \E r \in Requests : Submit(r) \/ Step(r) \/ Cancel(r)
    \/ Write
    \/ \E c \in Connections : Change(c)

Spec == Init /\ [][Next]_vars

\* The event loop runs every task; the model provider, the database and the
\* vector store answer or fail within their own time limits.
FairSpec == Spec /\ (\A r \in Requests : WF_vars(Step(r))) /\ WF_vars(Write)

-----------------------------------------------------------------------------

Entries == {exact[k] : k \in Key} \cup {semantic[k] : k \in Questions \X Connections}
           \cup {p[2] : p \in pending}

Answered(r) == pc[r] \in {"save", "store", "learn", "done"}
HasSql(a) == a.sql # NoSql

\* Type invariant.
TypeOK ==
    /\ pc \in [Requests -> Phases] /\ req \in [Requests -> Request]
    /\ work \in [Requests -> Work] /\ answer \in [Requests -> Answer]
    /\ asked \in [Requests -> [version : Nat, turns : Nat]]
    /\ exact \in [Key -> Answer]
    /\ semantic \in [Questions \X Connections -> Answer]
    /\ pending \subseteq (Questions \X Connections) \X Answer
    /\ turns \in [Sessions -> Nat]
    /\ trained \subseteq (Questions \X Connections) \X (Sql \cup {NoSql})
    /\ db \in [Connections -> Nat]

\* Nothing generated for one connection reaches another: no answer, cache entry,
\* background write or training pair carries the SQL of a foreign connection.
ConnectionScoped ==
    /\ \A r \in Requests :
          HasSql(answer[r]) => answer[r].sql.connection = req[r].connection
    /\ \A k \in Key : HasSql(exact[k]) => exact[k].sql.connection = k[3]
    /\ \A k \in Questions \X Connections :
          HasSql(semantic[k]) => semantic[k].sql.connection = k[2]
    /\ \A p \in pending : HasSql(p[2]) => p[2].sql.connection = p[1][2]
    /\ \A t \in trained : t[2] # NoSql /\ t[2].connection = t[1][2]

\* The caches only ever hold statements whose last attempt neither the parser
\* nor the database refused.
CacheVetted ==
    \A a \in Entries : HasSql(a) => a.valid /\ a.verdict \in {"good", "columns"}

\* An execute request to run never returns rows read before it was made, from
\* the cache or not.
FreshRows ==
    \A r \in Requests :
        Answered(r) /\ req[r].execute /\ ~req[r].stream /\ answer[r].rows # NoRows
        => answer[r].rows >= asked[r].version

\* An execute request to run that is given a statement every layer accepted gets
\* its rows or an error.
RowsOrError ==
    \A r \in Requests :
        /\ Answered(r) /\ req[r].execute /\ ~req[r].stream
        /\ answer[r].valid /\ answer[r].verdict = "good"
        => answer[r].rows # NoRows \/ answer[r].error

\* A generated statement refines a turn of its own session, one at least as
\* recent as the last when the question was asked, or it refines none.
OwnContext ==
    \A r \in Requests :
        LET a == answer[r]
        IN  Answered(r) /\ HasSql(a) /\ ~a.cached /\ a.sql.base # NoTurn
            => a.sql.base[1] = req[r].session /\ a.sql.base[2] >= asked[r].turns

-----------------------------------------------------------------------------
(* What callers may rely on: the pipeline implements QueryService.             *)

Phase(r) == CASE pc[r] = "idle"   -> "new"
              [] pc[r] = "done"   -> "replied"
              [] pc[r] = "failed" -> "failed"
              [] OTHER            -> "open"

\* Statements in the answers under way, in the caches, and on their way there.
Known ==
    {<<SemanticKey(req[r]), answer[r].sql>> : r \in {x \in Requests : Active(x) /\ HasSql(answer[x])}}
    \cup {<< <<k[1], k[3]>>, exact[k].sql>> : k \in {x \in Key : HasSql(exact[x])}}
    \cup {<<k, semantic[k].sql>> : k \in {x \in Questions \X Connections : HasSql(semantic[x])}}
    \cup {<<p[1], p[2].sql>> : p \in {x \in pending : HasSql(x[2])}}

Service == INSTANCE QueryService WITH
    NoStatement <- NoSql,
    asked <- [r \in Requests |-> SemanticKey(req[r])],
    phase <- [r \in Requests |-> Phase(r)],
    reply <- [r \in Requests |-> IF pc[r] = "done" THEN answer[r].sql ELSE NoSql],
    known <- Known

\* Every request is replied to or fails, and whatever the caches, the retries and
\* the background writes do, a reply is a statement that was generated for the same
\* question on the same connection.
ImplementsService == Service!LiveSpec
=============================================================================
