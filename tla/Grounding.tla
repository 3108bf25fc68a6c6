----------------------------- MODULE Grounding -----------------------------
(***************************************************************************)
(* What the prompt of a request is made of, and who may see it: the chunks *)
(* of the schema, found in two phases (QueryOrchestrator._retrieve_schema  *)
(* over SchemaRetriever, TableSelectorService, FKRelationshipExtractor and *)
(* QdrantVectorStore), the few-shot examples (ExampleStore, or else        *)
(* TrainingDataService), and the mistakes users reported (FeedbackLearner, *)
(* a dictionary in the memory of each process).                            *)
(*                                                                         *)
(* All of them belong to a connection or are shared.  A request reads the  *)
(* index up to six times while a catalog is embedded again, which deletes  *)
(* the chunks of a connection and inserts them later.  How near a chunk or *)
(* an example is to a question is the search's choice, which tables are    *)
(* needed is the LLM's.  Per-user isolation is on and column-level chunks  *)
(* are off, as the settings have them.                                     *)
(***************************************************************************)
EXTENDS Integers, Sequences, FiniteSets

CONSTANTS
    Conns, Tables, Sqls,
    Procs,           \* server processes
    Requests,        \* ids of requests
    Reports,         \* slots for feedback under way
    Shared,          \* connection_id IS NULL
    NoTable, NoFix,
    Refs,            \* the foreign keys that the chunk of a table shows
    Beginning,            \* the first hundred characters of a statement
    TableOf,         \* the table after its first FROM
    TopK, FewShot,   \* top_k, rag_few_shot_top_k
    Searches,        \* bound: variants of a question
    MaxExpansion,    \* expand_tables' max_expansion
    MaxWrites,       \* bound: changes of the index
    MaxReports,      \* bound: feedback
    MaxFaults        \* bound: restarts

Owners == Conns \cup {Shared}

ASSUME GroundingAssumption ==
    /\ Shared \notin Conns /\ NoTable \notin Tables /\ NoFix \notin Sqls
    /\ Refs \in [Tables -> SUBSET Tables]
    /\ Beginning \in [Sqls -> Sqls] /\ TableOf \in [Sqls -> Tables \cup {NoTable}]
    /\ {TopK, FewShot, Searches, MaxExpansion} \subseteq Nat
    /\ {MaxWrites, MaxReports, MaxFaults} \subseteq Nat

VARIABLES
    index,      \* the chunks of the vector store
    training,   \* rows of training_data, oldest first
    examples,   \* the example collection
    patterns,   \* _patterns of each process
    req,        \* the requests
    report,     \* the feedback under way
    reported,   \* history: the mistakes reported to each process since it started
    writes, reports, faults

vars == <<index, training, examples, patterns, req, report, reported,
          writes, reports, faults>>

-----------------------------------------------------------------------------
Chunk   == [owner : Owners, table : Tables]
Example == [owner : Owners, sql : Sqls]
Row     == [owner : Owners, sql : Sqls, good : BOOLEAN]
Pattern == [owner : Conns, sql : Sqls, fix : Sqls \cup {NoFix}]

Request ==
    [at : {"idle", "count", "search", "fetch", "expand", "examples", "recent",
           "generate", "collect", "done", "failed"},
     proc : Procs, conn : Owners,
     left : 0..Searches,                 \* searches to come
     listed : BOOLEAN,                   \* get_all_table_names has answered
     known : SUBSET Tables, wanted : SUBSET Tables,
     chunks : SUBSET Chunk,
     fellBack : BOOLEAN,                 \* the candidates were kept
     examples : SUBSET Example,
     patterns : SUBSET Pattern,
     lacked : SUBSET Tables]             \* history: tables the connection had, at
                                         \* some moment, no chunk of its own for

Report   == [at : {"approved", "corrected", "index"}, proc : Procs, conn : Conns, sql : Sqls]
NoReport == [at |-> "idle"]

TablesOf(C) == {k.table : k \in C}
\* own_or_shared_should.
Visible(S, c) == {x \in S : x.owner \in {c, Shared}}

\* Mutant of PreferOwn: both copies of a table are kept.
PreferBoth(C, c) == C

\* _dedupe_prefer_own, of the chunks a read has fetched.
PreferOwn(C, c) == {k \in C : k.owner = c \/ [k EXCEPT !.owner = c] \notin C}

\* The subsets of n elements, or of all there are.
Some(S, n) == {T \in SUBSET S : Cardinality(T) = IF Cardinality(S) < n THEN Cardinality(S) ELSE n}

\* A request that will come to a process, on a connection or on none.
NewRequest(p, c) ==
    [at |-> "idle", proc |-> p, conn |-> c, left |-> 0, listed |-> FALSE, known |-> {},
     wanted |-> {}, chunks |-> {}, fellBack |-> FALSE, examples |-> {}, patterns |-> {},
     lacked |-> {}]

Init ==
    /\ index \in SUBSET Chunk
    /\ training = <<>> /\ examples = {}
    /\ patterns = [p \in Procs |-> {}]
    /\ req \in [Requests -> {NewRequest(p, c) : p \in Procs, c \in Owners}]
    /\ report = [f \in Reports |-> NoReport]
    /\ reported = [p \in Procs |-> {}]
    /\ writes \in 0..MaxWrites /\ reports \in 0..MaxReports /\ faults \in 0..MaxFaults

learned == <<training, examples, patterns, report, reported>>
bounds  == <<writes, reports, faults>>

-----------------------------------------------------------------------------
(* The index changes under the requests. *)

Write == writes < MaxWrites /\ writes' = writes + 1

\* delete_by_connection, delete_shared.
Drop(o) ==
    /\ Write
    /\ index' = {k \in index : k.owner # o}
    /\ req' = [r \in Requests |-> IF req[r].conn = o THEN [req[r] EXCEPT !.lacked = Tables]
                                  ELSE req[r]]
    /\ UNCHANGED <<learned, reports, faults>>

Embed(o, T) ==
    /\ Write
    /\ index' = index \cup [owner : {o}, table : T]
    /\ UNCHANGED <<learned, req, reports, faults>>

-----------------------------------------------------------------------------
(* The two-phase grounding of a request. *)

At(r, phase) == req[r].at = phase
UnchangedByRead == UNCHANGED <<index, learned, bounds>>

Ask(r) ==
    LET own == {k \in index : k.owner = req[r].conn}
    IN  /\ At(r, "idle")
        /\ \E n \in 1..Searches :
              req' = [req EXCEPT ![r].at = "count", ![r].left = n,
                                 ![r].lacked = Tables \ TablesOf(own)]
        /\ UnchangedByRead

\* get_all_table_names, while the candidates are retrieved.
ListTables(r) ==
    /\ req[r].at \in {"count", "search"} /\ ~req[r].listed
    /\ req' = [req EXCEPT ![r].listed = TRUE,
                          ![r].known = TablesOf(Visible(index, req[r].conn))]
    /\ UnchangedByRead

\* EmptySchemaError when there is nothing to search.
CountChunks(r) ==
    /\ At(r, "count")
    /\ req' = [req EXCEPT ![r].at = IF Visible(index, req[r].conn) = {} THEN "failed" ELSE "search"]
    /\ UnchangedByRead

\* What a search of a connection may return: twice top_k are fetched, so that top_k
\* remain of them.
Found(c) == UNION {Some(PreferOwn(fetched, c), TopK) : fetched \in Some(Visible(index, c), 2 * TopK)}

\* One of the concurrent searches, for the question or an expansion of it; all that
\* are found are merged by id.
SearchOne(r) ==
    /\ At(r, "search") /\ req[r].left > 0
    /\ \E found \in Found(req[r].conn) :
          req' = [req EXCEPT ![r].left = @ - 1, ![r].chunks = @ \cup found]
    /\ UnchangedByRead

\* The LLM's answer cut down to the known tables, or the candidates when it has none
\* that can be read.
SelectTables(r) ==
    LET known      == req[r].known
        candidates == TablesOf(req[r].chunks)
    IN  /\ At(r, "search") /\ req[r].left = 0 /\ req[r].listed
        /\ \E T \in SUBSET known \cup {IF candidates = {} THEN known ELSE candidates} :
              req' = [req EXCEPT ![r].at = "fetch", ![r].wanted = IF known = {} THEN {} ELSE T]
        /\ UnchangedByRead

\* get_schema_for_tables; if it returns nothing, the candidates stay.
FetchChunks(r) ==
    LET c == req[r].conn
        grounded == PreferOwn({k \in Visible(index, c) : k.table \in req[r].wanted}, c)
        chunks == IF grounded = {} THEN req[r].chunks ELSE grounded
    IN  /\ At(r, "fetch")
        /\ req' = [req EXCEPT ![r].at = IF chunks = {} THEN "examples" ELSE "expand",
                              ![r].chunks = chunks, ![r].fellBack = grounded = {}]
        /\ UnchangedByRead

\* Which of the new tables make the cut is up to the order of a set.  A failure
\* leaves the chunks as they are.
ExpandTables(r) ==
    LET c == req[r].conn
        have == TablesOf(req[r].chunks)
        new == UNION {Refs[t] : t \in have} \ have
    IN  /\ At(r, "expand")
        /\ \E T \in Some(new, MaxExpansion) \cup {{}} :
              LET more == PreferOwn({k \in Visible(index, c) : k.table \in T}, c)
              IN  req' = [req EXCEPT ![r].at = "examples", ![r].chunks = @ \cup more]
        /\ UnchangedByRead

\* Any other failure of the vector store, or of the embedder, ends the request.
StoreFails(r) ==
    /\ req[r].at \in {"count", "search", "fetch"}
    /\ req' = [req EXCEPT ![r].at = "failed"]
    /\ UnchangedByRead

-----------------------------------------------------------------------------
(* Examples and mistakes. *)

\* The nearest examples; a failure is an empty result.
SearchExamples(r) ==
    /\ At(r, "examples")
    /\ \E S \in Some(Visible(examples, req[r].conn), FewShot) \cup {{}} :
          req' = [req EXCEPT ![r].at = IF S = {} THEN "recent" ELSE "generate", ![r].examples = S]
    /\ UnchangedByRead

\* The query of get_recent_examples: a score of 0.9, the newest first.
Newest(c) ==
    LET mine == {i \in 1..Len(training) : training[i].good /\ training[i].owner \in {c, Shared}}
    IN  {[owner |-> training[i].owner, sql |-> training[i].sql] :
            i \in {j \in mine : Cardinality({k \in mine : k > j}) < FewShot}}

RecentExamples(r) ==
    /\ At(r, "recent")
    /\ \E S \in {Newest(req[r].conn), {}} :
          req' = [req EXCEPT ![r].at = "generate", ![r].examples = S]
    /\ UnchangedByRead

\* Mutant of ScopedPatterns: the dictionary of the process is not filtered.
ScopedPatternsAll(p, c) == patterns[p]

ScopedPatterns(p, c) == Visible(patterns[p], c)

\* get_learning_prompt, filtered by the tables of the schema context if it has any.
Learned(q) ==
    LET tables == TablesOf(q.chunks)
        scoped == ScopedPatterns(q.proc, q.conn)
    IN  IF tables = {} THEN scoped ELSE {x \in scoped : TableOf[x.sql] \in tables}

\* The prompt is put together: chunks, examples and what was learned.
Generate(r) ==
    /\ At(r, "generate")
    /\ req' = [req EXCEPT ![r].at = "collect", ![r].patterns = Learned(req[r])]
    /\ UnchangedByRead

\* collect_training_data commits a row, or logs that it could not.
Learn(c, s, good) ==
    \/ training' = Append(training, [owner |-> c, sql |-> s, good |-> good])
    \/ UNCHANGED training

\* Nothing is collected when no draft was valid; the score is lower after an
\* execution error.
Collect(r) ==
    /\ At(r, "collect")
    /\ \E s \in Sqls, good \in BOOLEAN : Learn(req[r].conn, s, good)
    /\ req' = [req EXCEPT ![r].at = "done"]
    /\ UNCHANGED <<index, examples, patterns, report, reported, bounds>>

-----------------------------------------------------------------------------
(* Feedback.  A complaint without an error_type leaves nothing. *)

Begin(f, next) ==
    /\ report[f].at = "idle" /\ reports < MaxReports
    /\ reports' = reports + 1
    /\ report' = [report EXCEPT ![f] = next]

Approve(f, p, c, s) ==
    /\ Begin(f, [at |-> "approved", proc |-> p, conn |-> c, sql |-> s])
    /\ UNCHANGED <<index, training, examples, patterns, req, reported, writes, faults>>

\* Mutant of PatternId: the connection is not part of the hash.
PatternIdUnscoped(x) == Beginning[x.sql]

\* The hash of _create_pattern, for one error_type.
PatternId(x) == <<x.owner, Beginning[x.sql]>>

\* _create_pattern and the write to the dictionary come before the first await; a
\* correction becomes training data.
Complain(f, p, c, s, fix) ==
    LET new == [owner |-> c, sql |-> s, fix |-> fix]
    IN  /\ Begin(f, IF fix = NoFix THEN report[f]
                    ELSE [at |-> "corrected", proc |-> p, conn |-> c, sql |-> fix])
        /\ patterns' = [patterns EXCEPT ![p] = {x \in @ : PatternId(x) # PatternId(new)} \cup {new}]
        /\ reported' = [reported EXCEPT ![p] = @ \cup {<<c, Beginning[s]>>}]
        /\ UNCHANGED <<index, training, examples, req, writes, faults>>

StoreRow(f) ==
    /\ report[f].at \in {"approved", "corrected"}
    /\ Learn(report[f].conn, report[f].sql, TRUE)
    /\ report' = [report EXCEPT ![f] = IF @.at = "approved" THEN [@ EXCEPT !.at = "index"]
                                      ELSE NoReport]
    /\ UNCHANGED <<index, examples, patterns, req, reported, bounds>>

\* index_example, with an id made of the pair and the connection; best effort.
IndexExample(f) ==
    /\ report[f].at = "index"
    /\ \E S \in {{}, {[owner |-> report[f].conn, sql |-> report[f].sql]}} :
          examples' = examples \cup S
    /\ report' = [report EXCEPT ![f] = NoReport]
    /\ UNCHANGED <<index, training, patterns, req, reported, bounds>>

\* What a process holds in memory is gone: nothing reads the patterns back.
Restart(p) ==
    /\ faults < MaxFaults /\ faults' = faults + 1
    /\ patterns' = [patterns EXCEPT ![p] = {}]
    /\ reported' = [reported EXCEPT ![p] = {}]
    /\ req' = [r \in Requests |-> IF req[r].proc = p /\ req[r].at \notin {"idle", "done"}
                                  THEN [req[r] EXCEPT !.at = "failed"] ELSE req[r]]
    /\ report' = [f \in Reports |-> IF report[f] # NoReport /\ report[f].proc = p THEN NoReport
                                    ELSE report[f]]
    /\ UNCHANGED <<index, training, examples, writes, reports>>

-----------------------------------------------------------------------------
Ground(r) ==
    \/ Ask(r) \/ ListTables(r) \/ CountChunks(r) \/ SearchOne(r) \/ SelectTables(r)
    \/ FetchChunks(r) \/ ExpandTables(r) \/ StoreFails(r)
    \/ SearchExamples(r) \/ RecentExamples(r) \/ Generate(r) \/ Collect(r)

Feedback(f) ==
    \/ \E p \in Procs, c \in Conns, s \in Sqls :
          \/ Approve(f, p, c, s)
          \/ \E fix \in Sqls \cup {NoFix} : Complain(f, p, c, s, fix)
    \/ StoreRow(f) \/ IndexExample(f)

Next ==
    \/ \E r \in Requests : Ground(r)
    \/ \E f \in Reports : Feedback(f)
    \/ \E o \in Owners : Drop(o) \/ \E T \in SUBSET Tables : Embed(o, T)
    \/ \E p \in Procs : Restart(p)

Spec == Init /\ [][Next]_vars

-----------------------------------------------------------------------------
TypeOK ==
    /\ index \subseteq Chunk
    /\ training \in Seq(Row)
    /\ examples \subseteq Example
    /\ patterns \in [Procs -> SUBSET Pattern]
    /\ req \in [Requests -> Request]
    /\ report \in [Reports -> Report \cup {NoReport}]
    /\ reported \in [Procs -> SUBSET (Conns \X Sqls)]
    /\ writes \in Nat /\ reports \in Nat /\ faults \in Nat

\* No part of a prompt, whatever is written while it is put together, belongs to
\* another connection.
TenantScoped ==
    \A r \in Requests :
       LET c == req[r].conn
       IN  {x \in req[r].chunks \cup req[r].examples \cup req[r].patterns :
               x.owner \notin {c, Shared}} = {}

\* The shared copy of a table, which describes another database, is in a grounded
\* prompt only if at some moment of the request the connection had no copy of its
\* own.  (The searches whose candidates are the fallback may not have fetched it.)
OwnElseShared ==
    \A r \in Requests :
       req[r].at \in {"expand", "examples", "recent", "generate", "collect", "done"}
       /\ ~req[r].fellBack =>
          \A k \in req[r].chunks :
             k.owner = Shared /\ req[r].conn # Shared => k.table \in req[r].lacked

\* A mistake that was reported stays known until the process ends, whoever reports
\* the same statement.
PatternsKept ==
    \A p \in Procs, c \in Conns, h \in Sqls :
       <<c, h>> \in reported[p] => \E x \in patterns[p] : x.owner = c /\ Beginning[x.sql] = h
=============================================================================
