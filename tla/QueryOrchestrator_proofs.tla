---------------------- MODULE QueryOrchestrator_proofs ----------------------
(***************************************************************************)
(* Proofs about QueryOrchestrator for any requests, questions, dialects,   *)
(* connections and sessions, any workload, and every bound.                *)
(***************************************************************************)
EXTENDS QueryOrchestrator, TLAPS

LEMMA Defaults ==
    NoAnswer \in Answer /\ NoWork \in Work /\ NotAsked \in [version : Nat, turns : Nat]
BY DEF NoAnswer, NoWork, NotAsked, Answer, Work, Rows, NoRows, Verdicts, Turn, NoTurn

LEMMA KeyType ==
    ASSUME NEW q \in Request
    PROVE  /\ _make_cache_key(q) \in Key /\ _make_cache_key(q)[3] = q.connection
           /\ SemanticKey(q) \in Questions \X Connections
           /\ SemanticKey(q)[2] = q.connection
BY DEF Request, Key, _make_cache_key, SemanticKey

LEMMA CachedType ==
    ASSUME NEW a \in Answer PROVE [a EXCEPT !.cached = TRUE] \in Answer
BY DEF Answer

LEMMA AnsweredType ==
    ASSUME NEW a \in Answer, NEW rows \in Rows, NEW error \in BOOLEAN
    PROVE  [a EXCEPT !.rows = rows, !.error = error] \in Answer
BY DEF Answer

LEMMA JudgedType ==
    ASSUME NEW w \in Work, NEW v \in Verdicts, NEW valid \in BOOLEAN
    PROVE  /\ [w EXCEPT !.drafted = TRUE, !.verdict = v, !.valid = valid] \in Work
           /\ [w EXCEPT !.valid = valid, !.verdict = v] \in Work
           /\ [w EXCEPT !.valid = FALSE, !.verdict = v, !.error = TRUE] \in Work
BY DEF Work

LEMMA CountedType ==
    ASSUME NEW x \in Work
    PROVE  LET w == [x EXCEPT !.limits = @ + 1]
           IN  /\ w \in Work /\ w.valid = x.valid /\ w.verdict = x.verdict
               /\ w.base = x.base /\ w.drafted = x.drafted
BY DEF Work

\* The steps of the self-correction loop produce well-typed slots.
SlotTypes == /\ pc \in [Requests -> Phases] /\ req \in [Requests -> Request]
             /\ work \in [Requests -> Work] /\ answer \in [Requests -> Answer]

LEMMA FailType ==
    ASSUME SlotTypes, NEW r \in Requests, Fail(r), UNCHANGED req
    PROVE  SlotTypes'
BY Defaults DEF SlotTypes, Fail, Go, Phases

LEMMA FinishType ==
    ASSUME SlotTypes, NEW r \in Requests, NEW w \in Work, NEW rows \in Rows,
           Finish(r, w, rows), UNCHANGED req
    PROVE  SlotTypes'
<1> DEFINE a == [sql |-> [dialect |-> req[r].dialect, base |-> w.base,
                          connection |-> req[r].connection],
                 valid |-> w.valid, verdict |-> w.verdict,
                 rows |-> rows, error |-> w.error, cached |-> FALSE]
<1>1. a \in Answer
  BY DEF SlotTypes, Request, Work, Answer, Sql
<1>2. answer' = [answer EXCEPT ![r] = a] /\ work' = [work EXCEPT ![r] = w]
  BY DEF Finish, Respond
<1>3. pc' = [pc EXCEPT ![r] = "save"]
  BY DEF Finish, Go
<1> HIDE DEF a
<1> QED
  BY <1>1, <1>2, <1>3 DEF SlotTypes, Phases

LEMMA RetryType ==
    ASSUME SlotTypes, NEW r \in Requests, NEW w \in Work, Retry(r, w), UNCHANGED req
    PROVE  SlotTypes'
<1>1. CASE w.attempt < MaxRetries
  <2>1. [w EXCEPT !.attempt = @ + 1] \in Work
    BY DEF Work
  <2>2. /\ work' = [work EXCEPT ![r] = [w EXCEPT !.attempt = @ + 1]]
        /\ pc' = [pc EXCEPT ![r] = "generate"] /\ answer' = answer
    BY <1>1 DEF Retry, Go
  <2> QED
    BY <2>1, <2>2 DEF SlotTypes, Phases
<1>2. CASE ~(w.attempt < MaxRetries) /\ w.drafted
  BY <1>2, FinishType DEF Retry, Rows
<1>3. CASE ~(w.attempt < MaxRetries) /\ ~w.drafted
  BY <1>3, FailType DEF Retry
<1> QED
  BY <1>1, <1>2, <1>3

-----------------------------------------------------------------------------
\* Type correctness of QueryOrchestrator, the invariant TypeOK.
LEMMA TypeInit == Init => TypeOK
<1> SUFFICES ASSUME Init PROVE TypeOK
  OBVIOUS
<1>1. turns \in [Sessions -> Nat]
  BY ConstantsAssumption DEF Init
<1>2. req \in [Requests -> Request]
  BY ConstantsAssumption DEF Init
<1> QED
  BY <1>1, <1>2, Defaults DEF Init, TypeOK, Phases

LEMMA TypeStep == TypeOK /\ [Next]_vars => TypeOK'
<1> SUFFICES ASSUME TypeOK, [Next]_vars PROVE TypeOK'
  OBVIOUS
<1> USE DEF TypeOK
<1>0. SlotTypes
  BY DEF SlotTypes
<1>1. ASSUME NEW r \in Requests, Submit(r) PROVE TypeOK'
  <2>1. [version |-> db[req[r].connection], turns |-> TurnsOf(req[r].session)]
            \in [version : Nat, turns : Nat]
    BY DEF Request, TurnsOf
  <2> QED
    BY <1>1, <2>1 DEF Submit, Go, Phases, shared
<1>2. ASSUME NEW c \in Connections, Change(c) PROVE TypeOK'
  BY <1>2 DEF Change, shared
<1>3. ASSUME NEW r \in Requests, LookupExact(r) PROVE TypeOK'
  <2>1. exact[_make_cache_key(req[r])] \in Answer
    BY KeyType
  <2> QED
    BY <1>3, <2>1, CachedType DEF LookupExact, Hit, Respond, Go, Phases, shared
<1>4. ASSUME NEW r \in Requests, LookupSemantic(r) PROVE TypeOK'
  <2>1. semantic[SemanticKey(req[r])] \in Answer
    BY KeyType
  <2> QED
    BY <1>4, <2>1, CachedType DEF LookupSemantic, Hit, Respond, Go, Phases, shared
<1>5. ASSUME NEW r \in Requests, NEW ok \in BOOLEAN, ExecuteCached(r, ok) PROVE TypeOK'
  <2> DEFINE rows == IF answer[r].valid /\ ok THEN db[req[r].connection] ELSE NoRows
             error == answer[r].valid /\ ~ok
             a == [answer[r] EXCEPT !.rows = rows, !.error = error]
  <2>0. rows \in Rows /\ error \in BOOLEAN
    BY DEF Request, Rows
  <2>1. a \in Answer
    <3> HIDE DEF rows, error
    <3> QED
      BY <2>0, AnsweredType
  <2>2. answer' = [answer EXCEPT ![r] = a]
    BY <1>5 DEF ExecuteCached, Respond
  <2> HIDE DEF a
  <2> QED
    BY <1>5, <2>1, <2>2 DEF ExecuteCached, Go, Phases, shared
<1>6. ASSUME NEW r \in Requests, Greet(r) PROVE TypeOK'
  BY <1>6 DEF Greet, Go, Phases, shared
<1>7. ASSUME NEW r \in Requests, NEW ok \in BOOLEAN, RetrieveSchema(r, ok) PROVE TypeOK'
  BY <1>7, Defaults DEF RetrieveSchema, Fail, Go, Phases, shared
<1>8. ASSUME NEW r \in Requests, NEW ok \in BOOLEAN, LoadHistory(r, ok) PROVE TypeOK'
  <2> DEFINE n == IF ok THEN TurnsOf(req[r].session) ELSE 0
             b == Refined(req[r], n)
  <2>1. n \in Nat
    BY DEF TurnsOf
  <2>2. b \in Turn
    BY <2>1 DEF Turn, NoTurn, Request, Refined
  <2>3. work' = work \/ work' = [work EXCEPT ![r].base = b]
    BY <1>8 DEF LoadHistory, EmitClarification
  <2> HIDE DEF b, n
  <2>4. work' \in [Requests -> Work]
    BY <2>2, <2>3 DEF Work
  <2> QED
    BY <1>8, <2>4 DEF LoadHistory, EmitClarification, Go, Phases, shared
<1>9. ASSUME NEW r \in Requests, NEW verdict \in Drafts, Generate(r, verdict)
      PROVE  TypeOK'
  <2> DEFINE good == verdict # "rejected"
             w == [work[r] EXCEPT !.drafted = TRUE, !.verdict = verdict, !.valid = good]
  <2>0. good \in BOOLEAN /\ verdict \in Verdicts
    BY DEF Verdicts, Drafts
  <2>1. w \in Work
    <3> HIDE DEF good
    <3> QED
      BY <2>0, JudgedType
  <2>2. \/ Retry(r, w)
        \/ work' = [work EXCEPT ![r] = w] /\ Go(r, "explain") /\ UNCHANGED answer
    BY <1>9 DEF Generate
  <2> HIDE DEF w
  <2>3. SlotTypes'
    BY <1>0, <1>9, <2>1, <2>2, RetryType DEF Generate, SlotTypes, Go, Phases
  <2> QED
    BY <1>9, <2>3 DEF Generate, SlotTypes, shared
<1>10. ASSUME NEW r \in Requests, RateLimited(r) PROVE TypeOK'
  <2> DEFINE w == [work[r] EXCEPT !.limits = @ + 1]
  <2>1. w \in Work
    <3>1. work[r] \in Work
      OBVIOUS
    <3> QED
      BY <3>1, CountedType
  <2>2. Retry(r, w) \/ Fail(r)
    BY <1>10 DEF RateLimited
  <2> HIDE DEF w
  <2>3. SlotTypes'
    BY <1>0, <1>10, <2>1, <2>2, RetryType, FailType DEF RateLimited
  <2> QED
    BY <1>10, <2>3 DEF RateLimited, SlotTypes, shared
<1>11. ASSUME NEW r \in Requests, GenerationFails(r) PROVE TypeOK'
  BY <1>0, <1>11, FailType DEF GenerationFails, SlotTypes, shared
<1>12. ASSUME NEW r \in Requests, NEW verdict \in {"good"} \cup Bad, Explain(r, verdict)
       PROVE  TypeOK'
  <2> DEFINE good == verdict = "good"
             w == [work[r] EXCEPT !.valid = good, !.verdict = verdict]
  <2>0. good \in BOOLEAN /\ verdict \in Verdicts
    BY DEF Verdicts, Bad
  <2>1. w \in Work
    <3> HIDE DEF good
    <3> QED
      BY <2>0, JudgedType
  <2>2. \/ Retry(r, w) \/ Finish(r, w, NoRows)
        \/ Go(r, "execute") /\ UNCHANGED <<work, answer>>
    BY <1>12 DEF Explain
  <2> HIDE DEF w
  <2>3. SlotTypes'
    BY <1>0, <1>12, <2>1, <2>2, RetryType, FinishType
    DEF Explain, SlotTypes, Go, Phases, Rows
  <2> QED
    BY <1>12, <2>3 DEF Explain, SlotTypes, shared
<1>13. ASSUME NEW r \in Requests, NEW verdict \in {"good"} \cup Bad, Execute(r, verdict)
       PROVE  TypeOK'
  <2> DEFINE w == [work[r] EXCEPT !.valid = FALSE, !.verdict = verdict, !.error = TRUE]
  <2>1. w \in Work /\ work[r] \in Work /\ db[req[r].connection] \in Rows
    <3>1. verdict \in Verdicts
      BY DEF Verdicts, Bad
    <3> QED
      BY <3>1, JudgedType DEF Rows, Request
  <2>2. Retry(r, w) \/ Finish(r, work[r], db[req[r].connection])
    BY <1>13 DEF Execute
  <2> HIDE DEF w
  <2>3. SlotTypes'
    BY <1>0, <1>13, <2>1, <2>2, RetryType, FinishType DEF Execute
  <2> QED
    BY <1>13, <2>3 DEF Execute, SlotTypes, shared
<1>14. ASSUME NEW r \in Requests, NEW ok \in BOOLEAN, SaveMessage(r, ok) PROVE TypeOK'
  <2>1. turns' \in [Sessions -> Nat]
    BY <1>14 DEF SaveMessage
  <2> QED
    BY <1>14, <2>1, Defaults DEF SaveMessage, Complete, Go, Phases
<1>15. ASSUME NEW r \in Requests, NEW ok \in BOOLEAN, Store(r, ok) PROVE TypeOK'
  <2>1. exact' \in [Key -> Answer]
    BY <1>15, KeyType DEF Put, Store
  <2>2. pending' \subseteq (Questions \X Connections) \X Answer
    BY <1>15, KeyType DEF Put, Store
  <2> QED
    BY <1>15, <2>1, <2>2, Defaults DEF Put, Store, Complete, Go, Phases
<1>16. ASSUME NEW r \in Requests, NEW ok \in BOOLEAN, Learn(r, ok) PROVE TypeOK'
  <2>1. answer[r].sql \in Sql \cup {NoSql}
    BY DEF Answer
  <2> QED
    BY <1>16, <2>1, KeyType, Defaults DEF Learn, Complete, Go, Phases
<1>17. ASSUME NEW p \in pending, NEW ok \in BOOLEAN, WriteSemantic(p, ok) PROVE TypeOK'
  BY <1>17 DEF Put, WriteSemantic
<1>18. ASSUME NEW r \in Requests, Cancel(r) PROVE TypeOK'
  BY <1>0, <1>18, FailType DEF Cancel, SlotTypes, shared
<1>19. CASE UNCHANGED vars
  BY <1>19 DEF vars
<1> QED
  BY <1>1, <1>2, <1>3, <1>4, <1>5, <1>6, <1>7, <1>8, <1>9, <1>10, <1>11, <1>12,
     <1>13, <1>14, <1>15, <1>16, <1>17, <1>18, <1>19
  DEF Next, Step, Write

\* Every reachable state of the pipeline is well typed.
THEOREM TypeCorrect == Spec => []TypeOK
BY TypeInit, TypeStep, PTL DEF Spec

-----------------------------------------------------------------------------
(* The inductive invariant behind the safety properties: what each request    *)
(* slot knows in each phase, and what every entry of the shared stores is.    *)

Sound      == {"good", "columns"}
Undrafted  == {"idle", "exact", "semantic", "hit", "prepare", "history"}
Unanswered == (Undrafted \ {"hit"}) \cup {"generate", "explain", "execute"}

Context(r, base) ==
    base # NoTurn => base[1] = req[r].session /\ base[2] >= asked[r].turns

\* Data and conversation only grow after a request was made.
AskedOk(r) ==
    pc[r] # "idle" => /\ asked[r].version <= db[req[r].connection]
                      /\ asked[r].turns <= TurnsOf(req[r].session)

\* The draft is marked valid only if no layer but the column check refused it,
\* and an attempt that follows another starts from a draft that was not good.
WorkOk(r) ==
    /\ pc[r] \in Undrafted => work[r] = NoWork
    /\ work[r].valid => work[r].verdict \in Sound
    /\ pc[r] = "generate" /\ work[r].drafted => work[r].verdict # "good"
    /\ Context(r, work[r].base)

AnswerOk(r) ==
    LET a == answer[r]
    IN  /\ pc[r] \in Unanswered => a = NoAnswer
        /\ pc[r] \in {"store", "learn"} => a.valid
        /\ a.valid => HasSql(a) /\ a.verdict \in Sound
        /\ HasSql(a) => a.sql.connection = req[r].connection
        /\ HasSql(a) /\ ~a.cached => Context(r, a.sql.base)
        /\ Answered(r) /\ req[r].execute /\ ~req[r].stream =>
              /\ a.rows # NoRows => a.rows >= asked[r].version
              /\ a.valid /\ a.verdict = "good" => a.rows # NoRows \/ a.error

SlotOk(r) == AskedOk(r) /\ WorkOk(r) /\ AnswerOk(r)

\* What a cache of connection c may hold.
EntryOk(c, a) ==
    a = NoAnswer \/ /\ HasSql(a) /\ a.sql.connection = c
                    /\ a.valid /\ a.verdict \in Sound

StoresOk ==
    /\ \A k \in Key : EntryOk(k[3], exact[k])
    /\ \A k \in Questions \X Connections : EntryOk(k[2], semantic[k])
    /\ \A p \in pending : EntryOk(p[1][2], p[2])
    /\ \A t \in trained : t[2] # NoSql /\ t[2].connection = t[1][2]

PipelineInv == (\A r \in Requests : SlotOk(r)) /\ StoresOk

LEMMA PipelineImplies ==
    PipelineInv => ConnectionScoped /\ CacheVetted /\ FreshRows /\ RowsOrError /\ OwnContext
<1> SUFFICES ASSUME PipelineInv
             PROVE  ConnectionScoped /\ CacheVetted /\ FreshRows /\ RowsOrError /\ OwnContext
  OBVIOUS
<1>0. ~HasSql(NoAnswer)
  BY DEF HasSql, NoAnswer
<1>1. ConnectionScoped
  BY <1>0 DEF PipelineInv, SlotOk, AnswerOk, StoresOk, EntryOk, ConnectionScoped
<1>2. CacheVetted
  BY <1>0 DEF PipelineInv, StoresOk, EntryOk, CacheVetted, Entries, Sound
<1>3. FreshRows /\ RowsOrError
  BY DEF PipelineInv, SlotOk, AnswerOk, FreshRows, RowsOrError
<1>4. OwnContext
  BY DEF PipelineInv, SlotOk, AnswerOk, OwnContext, Context
<1> QED
  BY <1>1, <1>2, <1>3, <1>4

LEMMA PipelineInit == Init => PipelineInv
<1> SUFFICES ASSUME Init PROVE PipelineInv
  OBVIOUS
<1>1. StoresOk
  BY DEF Init, StoresOk, EntryOk
<1>2. ASSUME NEW r \in Requests PROVE SlotOk(r)
  BY DEF Init, SlotOk, AskedOk, WorkOk, AnswerOk, Context, Undrafted, Unanswered,
         NoWork, NoAnswer, HasSql, Answered
<1> QED
  BY <1>1, <1>2 DEF PipelineInv

\* A slot that no step touched stays as it was, because data and conversations
\* only grow.
Grows == /\ \A c \in Connections : db'[c] >= db[c]
         /\ \A s \in Sessions : turns'[s] >= turns[s]

Untouched(q) == /\ pc'[q] = pc[q] /\ work'[q] = work[q] /\ answer'[q] = answer[q]
                /\ asked'[q] = asked[q]

LEMMA Frame ==
    ASSUME TypeOK, TypeOK', NEW q \in Requests, SlotOk(q), Untouched(q), req' = req, Grows
    PROVE  SlotOk(q)'
<1>1. /\ req[q].connection \in Connections /\ asked[q].version \in Nat
      /\ asked[q].turns \in Nat /\ db \in [Connections -> Nat]
      /\ db' \in [Connections -> Nat] /\ turns \in [Sessions -> Nat]
      /\ turns' \in [Sessions -> Nat]
  BY DEF TypeOK, Request
<1>2. AskedOk(q)'
  BY <1>1 DEF SlotOk, AskedOk, Untouched, Grows, TurnsOf
<1>3. WorkOk(q)'
  BY DEF SlotOk, WorkOk, Untouched, Context
<1>4. AnswerOk(q)'
  BY DEF SlotOk, AnswerOk, Untouched, Context, Answered, HasSql
<1> QED
  BY <1>2, <1>3, <1>4 DEF SlotOk

LEMMA FrameOthers ==
    ASSUME TypeOK, TypeOK', PipelineInv, NEW r \in Requests, SlotOk(r)', req' = req, Grows,
           \A q \in Requests \ {r} : Untouched(q)
    PROVE  \A q \in Requests : SlotOk(q)'
BY Frame DEF PipelineInv

\* What a step of slot r leaves alone, whatever else it does.
OnlySlot(r) == /\ UNCHANGED <<req, asked, db>>
               /\ \A q \in Requests \ {r} : /\ pc'[q] = pc[q] /\ work'[q] = work[q]
                                            /\ answer'[q] = answer[q]

LEMMA SlotStep ==
    ASSUME TypeOK, TypeOK', PipelineInv, NEW r \in Requests, OnlySlot(r), SlotOk(r)',
           \A s \in Sessions : turns'[s] >= turns[s], StoresOk'
    PROVE  PipelineInv'
<1>1. Grows
  BY DEF Grows, OnlySlot, TypeOK
<1>2. \A q \in Requests \ {r} : Untouched(q)
  BY DEF OnlySlot, Untouched
<1> QED
  BY <1>1, <1>2, FrameOthers DEF OnlySlot, PipelineInv

LEMMA SharedKept ==
    ASSUME TypeOK, PipelineInv, UNCHANGED shared
    PROVE  StoresOk' /\ \A s \in Sessions : turns'[s] >= turns[s]
BY DEF shared, PipelineInv, StoresOk, EntryOk, TypeOK, HasSql

\* The three ways an attempt of the self-correction loop can end.
LEMMA FailSlot ==
    ASSUME TypeOK, PipelineInv, NEW r \in Requests, Fail(r), UNCHANGED <<req, asked, db, shared>>
    PROVE  OnlySlot(r) /\ (pc[r] # "idle" => SlotOk(r)')
<1>1. OnlySlot(r)
  BY DEF Fail, Go, OnlySlot, TypeOK
<1>2. pc'[r] = "failed" /\ work'[r] = NoWork /\ answer'[r] = NoAnswer
  BY DEF Fail, Go, TypeOK
<1>3. pc[r] # "idle" => AskedOk(r)'
  BY <1>2 DEF PipelineInv, SlotOk, AskedOk, shared, TurnsOf
<1>4. WorkOk(r)' /\ AnswerOk(r)'
  BY <1>2 DEF WorkOk, AnswerOk, NoWork, NoAnswer, Context, HasSql, Answered
<1> QED
  BY <1>1, <1>3, <1>4 DEF SlotOk

\* What the loop may carry into the next attempt or the answer.
DraftOk(r, w) == /\ w.valid => w.verdict \in Sound
                 /\ Context(r, w.base)

LEMMA FinishSlot ==
    ASSUME TypeOK, PipelineInv, NEW r \in Requests, NEW w \in Work, NEW rows \in Rows,
           pc[r] # "idle", DraftOk(r, w), Finish(r, w, rows),
           rows = NoRows \/ rows = db[req[r].connection],
           req[r].execute /\ w.valid /\ w.verdict = "good" => rows # NoRows,
           UNCHANGED <<req, asked, db, shared>>
    PROVE  OnlySlot(r) /\ SlotOk(r)'
<1> DEFINE sql == [dialect |-> req[r].dialect, base |-> w.base, connection |-> req[r].connection]
           a   == [sql |-> sql, valid |-> w.valid, verdict |-> w.verdict,
                   rows |-> rows, error |-> w.error, cached |-> FALSE]
<1>1. OnlySlot(r)
  BY DEF Finish, Respond, Go, OnlySlot, TypeOK
<1>2. pc'[r] = "save" /\ work'[r] = w /\ answer'[r] = a
  BY DEF Finish, Respond, Go, TypeOK
<1>3. sql # NoSql
  BY ConstantsAssumption DEF TypeOK, Request, Work, Sql
<1>4. AskedOk(r) /\ AskedOk(r)'
  BY <1>2 DEF PipelineInv, SlotOk, AskedOk, shared, TurnsOf
<1>5. WorkOk(r)'
  BY <1>2 DEF WorkOk, DraftOk, Context, Undrafted
<1>6. AnswerOk(r)'
  <2>1. /\ a.sql = sql /\ a.valid = w.valid /\ a.verdict = w.verdict /\ a.rows = rows
        /\ a.sql.connection = req[r].connection /\ a.sql.base = w.base
    OBVIOUS
  <2>2. rows # NoRows => rows >= asked[r].version
    BY <1>4 DEF AskedOk
  <2> HIDE DEF a, sql
  <2> QED
    BY <1>2, <1>3, <2>1, <2>2 DEF AnswerOk, DraftOk, Context, HasSql, Unanswered, Undrafted
<1> QED
  BY <1>1, <1>4, <1>5, <1>6 DEF SlotOk

LEMMA RetrySlot ==
    ASSUME TypeOK, PipelineInv, NEW r \in Requests, NEW w \in Work,
           pc[r] \in {"generate", "explain", "execute"}, DraftOk(r, w),
           w.drafted => w.verdict # "good", Retry(r, w),
           UNCHANGED <<req, asked, db, shared>>
    PROVE  OnlySlot(r) /\ SlotOk(r)'
<1>1. CASE w.attempt < MaxRetries
  <2> DEFINE x == [w EXCEPT !.attempt = @ + 1]
  <2>1. /\ work' = [work EXCEPT ![r] = x]
        /\ pc' = [pc EXCEPT ![r] = "generate"] /\ answer' = answer
    BY <1>1 DEF Retry, Go
  <2>2. x.drafted = w.drafted /\ x.valid = w.valid /\ x.verdict = w.verdict /\ x.base = w.base
    BY DEF Work
  <2> HIDE DEF x
  <2>3. pc'[r] = "generate" /\ work'[r] = x /\ answer'[r] = NoAnswer
    BY <2>1 DEF TypeOK, PipelineInv, SlotOk, AnswerOk, Unanswered
  <2>4. OnlySlot(r)
    BY <2>1 DEF OnlySlot, TypeOK
  <2>5. AskedOk(r)'
    BY <2>3 DEF PipelineInv, SlotOk, AskedOk, shared, TurnsOf
  <2>6. WorkOk(r)'
    BY <2>2, <2>3 DEF WorkOk, DraftOk, Context, Undrafted
  <2>7. AnswerOk(r)'
    BY <2>3 DEF AnswerOk, NoAnswer, Answered, HasSql
  <2> QED
    BY <2>4, <2>5, <2>6, <2>7 DEF SlotOk
<1>2. CASE ~(w.attempt < MaxRetries) /\ w.drafted
  BY <1>2, FinishSlot DEF Retry, Rows
<1>3. CASE ~(w.attempt < MaxRetries) /\ ~w.drafted
  BY <1>3, FailSlot DEF Retry
<1> QED
  BY <1>1, <1>2, <1>3

\* A cache entry that becomes the answer of a request of its own connection.
LEMMA HitSlot ==
    ASSUME TypeOK, PipelineInv, NEW r \in Requests, NEW a \in Answer, a # NoAnswer,
           EntryOk(req[r].connection, a), pc[r] \in {"exact", "semantic"}, Hit(r, a),
           UNCHANGED <<req, work, asked, db, shared>>
    PROVE  OnlySlot(r) /\ SlotOk(r)'
<1> DEFINE b == [a EXCEPT !.cached = TRUE]
<1>1. /\ answer'[r] = b /\ work'[r] = work[r] /\ work[r] = NoWork
      /\ pc'[r] = IF req[r].execute /\ ~req[r].stream THEN "hit" ELSE "save"
  BY DEF Hit, Respond, Go, TypeOK, PipelineInv, SlotOk, WorkOk, Undrafted
<1>2. OnlySlot(r)
  BY DEF Hit, Respond, Go, OnlySlot, TypeOK
<1>3. /\ b.sql = a.sql /\ b.valid = a.valid /\ b.verdict = a.verdict /\ b.cached
  BY DEF Answer
<1>4. HasSql(a) /\ a.sql.connection = req[r].connection /\ a.verdict \in Sound
  BY DEF EntryOk
<1> HIDE DEF b
<1>5. AskedOk(r)'
  BY <1>1 DEF PipelineInv, SlotOk, AskedOk, shared, TurnsOf
<1>6. WorkOk(r)'
  BY <1>1 DEF WorkOk, NoWork, NoTurn, Context
<1>7. AnswerOk(r)'
  BY <1>1, <1>3, <1>4 DEF AnswerOk, HasSql, Answered, Unanswered, Undrafted
<1> QED
  BY <1>2, <1>5, <1>6, <1>7 DEF SlotOk

\* A step of a slot that has neither drafted nor answered.
LEMMA QuietSlot ==
    ASSUME TypeOK, PipelineInv, NEW r \in Requests, pc[r] \in {"exact", "semantic", "prepare", "history"},
           NEW phase \in {"semantic", "prepare", "history", "save"},
           Go(r, phase), UNCHANGED <<req, work, answer, asked, db, shared>>
    PROVE  OnlySlot(r) /\ SlotOk(r)'
<1>1. pc'[r] = phase /\ work'[r] = NoWork /\ answer'[r] = NoAnswer /\ OnlySlot(r)
  BY DEF Go, OnlySlot, TypeOK, PipelineInv, SlotOk, WorkOk, AnswerOk, Undrafted, Unanswered
<1> QED
  BY <1>1 DEF PipelineInv, SlotOk, AskedOk, WorkOk, AnswerOk, NoWork, NoAnswer,
              Context, HasSql, Answered, shared, TurnsOf

LEMMA PipelineStep == TypeOK /\ TypeOK' /\ PipelineInv /\ [Next]_vars => PipelineInv'
<1> SUFFICES ASSUME TypeOK, TypeOK', PipelineInv, [Next]_vars PROVE PipelineInv'
  OBVIOUS
<1>0. ASSUME NEW r \in Requests, OnlySlot(r), SlotOk(r)', UNCHANGED shared
      PROVE  PipelineInv'
  BY <1>0, SharedKept, SlotStep
<1>1. ASSUME NEW r \in Requests, Submit(r) PROVE PipelineInv'
  <2>1. /\ pc'[r] = "exact" /\ work'[r] = NoWork /\ answer'[r] = NoAnswer
        /\ asked'[r] = [version |-> db[req[r].connection], turns |-> TurnsOf(req[r].session)]
    BY <1>1 DEF Submit, Go, TypeOK, PipelineInv, SlotOk, WorkOk, AnswerOk, Undrafted, Unanswered
  <2>2. AskedOk(r)'
    BY <1>1, <2>1 DEF Submit, AskedOk, shared, TurnsOf, TypeOK, Request
  <2>3. WorkOk(r)' /\ AnswerOk(r)'
    BY <2>1 DEF WorkOk, AnswerOk, NoWork, NoAnswer, Context, HasSql, Answered
  <2>4. \A q \in Requests \ {r} : Untouched(q)
    BY <1>1 DEF Submit, Go, Untouched, TypeOK
  <2>5. Grows /\ req' = req /\ StoresOk'
    BY <1>1, SharedKept DEF Submit, Grows, TypeOK
  <2> QED
    BY <2>2, <2>3, <2>4, <2>5, FrameOthers DEF SlotOk, PipelineInv
<1>2. ASSUME NEW c \in Connections, Change(c) PROVE PipelineInv'
  <2>1. \A q \in Requests : Untouched(q)
    BY <1>2 DEF Change, Untouched
  <2>2. Grows /\ req' = req /\ StoresOk'
    BY <1>2, SharedKept DEF Change, Grows, TypeOK
  <2> QED
    BY <2>1, <2>2, Frame DEF PipelineInv
<1>3. ASSUME NEW r \in Requests, LookupExact(r) PROVE PipelineInv'
  <2> DEFINE entry == exact[_make_cache_key(req[r])]
  <2>1. entry \in Answer /\ EntryOk(req[r].connection, entry)
    BY KeyType DEF TypeOK, PipelineInv, StoresOk
  <2>2. UNCHANGED <<req, work, asked, db, shared>> /\ pc[r] = "exact"
    BY <1>3 DEF LookupExact
  <2>3. CASE entry # NoAnswer /\ Hit(r, entry)
    <3> HIDE DEF entry
    <3> QED
      BY <1>0, <2>1, <2>2, <2>3, HitSlot
  <2>4. CASE Go(r, "semantic") /\ UNCHANGED answer
    BY <1>0, <2>2, <2>4, QuietSlot
  <2> QED
    BY <1>3, <2>3, <2>4 DEF LookupExact
<1>4. ASSUME NEW r \in Requests, LookupSemantic(r) PROVE PipelineInv'
  <2> DEFINE entry == semantic[SemanticKey(req[r])]
  <2>1. entry \in Answer /\ EntryOk(req[r].connection, entry)
    BY KeyType DEF TypeOK, PipelineInv, StoresOk
  <2>2. UNCHANGED <<req, work, asked, db, shared>> /\ pc[r] = "semantic"
    BY <1>4 DEF LookupSemantic
  <2>3. CASE entry # NoAnswer /\ Hit(r, entry)
    <3> HIDE DEF entry
    <3> QED
      BY <1>0, <2>1, <2>2, <2>3, HitSlot
  <2>4. CASE Go(r, "prepare") /\ UNCHANGED answer
    BY <1>0, <2>2, <2>4, QuietSlot
  <2> QED
    BY <1>4, <2>3, <2>4 DEF LookupSemantic
<1>5. ASSUME NEW r \in Requests, NEW ok \in BOOLEAN, ExecuteCached(r, ok) PROVE PipelineInv'
  <2> DEFINE rows  == IF answer[r].valid /\ ok THEN db[req[r].connection] ELSE NoRows
             error == answer[r].valid /\ ~ok
             a     == [answer[r] EXCEPT !.rows = rows, !.error = error]
  <2>1. /\ answer'[r] = a /\ pc'[r] = "save" /\ work'[r] = NoWork
        /\ OnlySlot(r) /\ UNCHANGED <<req, asked, db, shared>>
    BY <1>5 DEF ExecuteCached, Respond, Go, OnlySlot, TypeOK, PipelineInv, SlotOk, WorkOk, Undrafted
  <2>2. /\ a.sql = answer[r].sql /\ a.valid = answer[r].valid /\ a.rows = rows
        /\ a.verdict = answer[r].verdict /\ a.cached = answer[r].cached /\ a.error = error
    BY DEF TypeOK, Answer
  <2>3. AskedOk(r) /\ AskedOk(r)' /\ pc[r] = "hit"
    BY <1>5, <2>1 DEF ExecuteCached, PipelineInv, SlotOk, AskedOk, shared, TurnsOf
  <2>4. /\ rows # NoRows => rows >= asked[r].version
        /\ answer[r].valid => rows # NoRows \/ error
    BY <2>3 DEF AskedOk, TypeOK, Request, NoRows
  <2> HIDE DEF a, rows, error
  <2>5. WorkOk(r)'
    BY <2>1 DEF WorkOk, NoWork, NoTurn, Context
  <2>6. AnswerOk(r)'
    BY <2>1, <2>2, <2>4 DEF PipelineInv, SlotOk, AnswerOk, HasSql, Unanswered, Undrafted, Context
  <2> QED
    BY <1>0, <2>1, <2>3, <2>5, <2>6 DEF SlotOk
<1>6. ASSUME NEW r \in Requests, Greet(r) PROVE PipelineInv'
  BY <1>0, <1>6, QuietSlot DEF Greet
<1>7. ASSUME NEW r \in Requests, NEW ok \in BOOLEAN, RetrieveSchema(r, ok) PROVE PipelineInv'
  <2>1. CASE ok
    BY <1>0, <1>7, <2>1, QuietSlot DEF RetrieveSchema
  <2>2. CASE ~ok
    BY <1>0, <1>7, <2>2, FailSlot DEF RetrieveSchema
  <2> QED
    BY <2>1, <2>2
<1>8. ASSUME NEW r \in Requests, NEW ok \in BOOLEAN, LoadHistory(r, ok) PROVE PipelineInv'
  <2> DEFINE n == IF ok THEN TurnsOf(req[r].session) ELSE 0
             b == Refined(req[r], n)
  <2>1. /\ pc[r] = "history" /\ UNCHANGED <<req, answer, asked, db, shared>>
        /\ \/ Go(r, "save") /\ UNCHANGED work
           \/ Go(r, "generate") /\ work' = [work EXCEPT ![r].base = b]
    BY <1>8 DEF LoadHistory, EmitClarification
  <2>2. CASE Go(r, "save") /\ UNCHANGED work
    BY <1>0, <2>1, <2>2, QuietSlot
  <2>3. CASE Go(r, "generate") /\ work' = [work EXCEPT ![r].base = b]
    <3>1. AskedOk(r) /\ work[r] = NoWork /\ answer[r] = NoAnswer
      BY <2>1 DEF PipelineInv, SlotOk, WorkOk, AnswerOk, Undrafted, Unanswered
    <3>2. Context(r, b)
      BY <2>1, <3>1 DEF AskedOk, Context, Refined
    <3> HIDE DEF b, n
    <3>3. /\ pc'[r] = "generate" /\ work'[r] = [NoWork EXCEPT !.base = b]
          /\ answer'[r] = NoAnswer /\ OnlySlot(r)
      BY <2>1, <2>3, <3>1 DEF Go, OnlySlot, TypeOK
    <3>4. AskedOk(r)' /\ AnswerOk(r)'
      BY <2>1, <3>1, <3>3 DEF AskedOk, AnswerOk, NoAnswer, HasSql, Answered, shared, TurnsOf
    <3>5. WorkOk(r)'
      BY <2>1, <3>2, <3>3 DEF WorkOk, NoWork, Context, Undrafted
    <3> QED
      BY <1>0, <2>1, <3>3, <3>4, <3>5 DEF SlotOk
  <2> QED
    BY <2>1, <2>2, <2>3
<1>9. ASSUME NEW r \in Requests, NEW verdict \in Drafts, Generate(r, verdict)
      PROVE  PipelineInv'
  <2> DEFINE good == verdict # "rejected"
             w == [work[r] EXCEPT !.drafted = TRUE, !.verdict = verdict, !.valid = good]
  <2>1. /\ w.valid = good /\ w.verdict = verdict /\ w.base = work[r].base
        /\ good => verdict \in Sound
    BY DEF TypeOK, Work, Sound, Drafts
  <2>2. w \in Work
    <3>1. good \in BOOLEAN /\ verdict \in Verdicts
      BY DEF Verdicts, Drafts
    <3> HIDE DEF good
    <3> QED
      BY <3>1, JudgedType DEF TypeOK
  <2>3. /\ pc[r] = "generate" /\ UNCHANGED <<req, asked, db, shared>>
        /\ \/ verdict # "good" /\ Retry(r, w)
           \/ work' = [work EXCEPT ![r] = w] /\ Go(r, "explain") /\ UNCHANGED answer
    BY <1>9 DEF Generate
  <2> HIDE DEF w, good
  <2>4. DraftOk(r, w)
    BY <2>1 DEF DraftOk, PipelineInv, SlotOk, WorkOk, Context
  <2>5. CASE verdict # "good" /\ Retry(r, w)
    BY <1>0, <2>1, <2>2, <2>3, <2>4, <2>5, RetrySlot
  <2>6. CASE work' = [work EXCEPT ![r] = w] /\ Go(r, "explain") /\ UNCHANGED answer
    <3>1. /\ pc'[r] = "explain" /\ work'[r] = w /\ answer'[r] = NoAnswer /\ OnlySlot(r)
      BY <2>3, <2>6 DEF Go, OnlySlot, TypeOK, PipelineInv, SlotOk, AnswerOk, Unanswered
    <3>2. SlotOk(r)'
      BY <2>3, <2>4, <3>1 DEF PipelineInv, SlotOk, AskedOk, WorkOk, AnswerOk, DraftOk, NoAnswer,
                              Context, HasSql, Answered, shared, TurnsOf, Undrafted
    <3> QED
      BY <1>0, <2>3, <3>1, <3>2
  <2> QED
    BY <2>3, <2>5, <2>6
<1>10. ASSUME NEW r \in Requests, RateLimited(r) PROVE PipelineInv'
  <2> DEFINE w == [work[r] EXCEPT !.limits = @ + 1]
  <2>1. /\ w \in Work /\ w.valid = work[r].valid /\ w.verdict = work[r].verdict
        /\ w.base = work[r].base /\ w.drafted = work[r].drafted
    <3>1. work[r] \in Work
      BY DEF TypeOK
    <3> QED
      BY <3>1, CountedType, Zenon
  <2>2. /\ pc[r] = "generate" /\ UNCHANGED <<req, asked, db, shared>>
        /\ Retry(r, w) \/ Fail(r)
    BY <1>10 DEF RateLimited
  <2> HIDE DEF w
  <2>3. DraftOk(r, w) /\ (w.drafted => w.verdict # "good")
    BY <2>1, <2>2 DEF DraftOk, PipelineInv, SlotOk, WorkOk
  <2>4. OnlySlot(r) /\ SlotOk(r)'
    BY <2>1, <2>2, <2>3, RetrySlot, FailSlot
  <2> QED
    BY <1>0, <2>2, <2>4
<1>11. ASSUME NEW r \in Requests, GenerationFails(r) PROVE PipelineInv'
  BY <1>0, <1>11, FailSlot DEF GenerationFails
<1>12. ASSUME NEW r \in Requests, NEW verdict \in {"good"} \cup Bad, Explain(r, verdict)
       PROVE  PipelineInv'
  <2> DEFINE good == verdict = "good"
             w == [work[r] EXCEPT !.valid = good, !.verdict = verdict]
  <2>1. /\ w.valid = good /\ w.verdict = verdict /\ w.base = work[r].base
        /\ good => verdict \in Sound
    BY DEF TypeOK, Work, Sound, Drafts
  <2>2. w \in Work
    <3>1. good \in BOOLEAN /\ verdict \in Verdicts
      BY DEF Verdicts, Bad
    <3> HIDE DEF good
    <3> QED
      BY <3>1, JudgedType DEF TypeOK
  <2>3. /\ pc[r] = "explain" /\ UNCHANGED <<req, asked, db, shared>>
        /\ \/ verdict # "good" /\ Retry(r, w)
           \/ Go(r, "execute") /\ UNCHANGED <<work, answer>>
           \/ ~req[r].execute /\ Finish(r, w, NoRows)
    BY <1>12 DEF Explain
  <2> HIDE DEF w, good
  <2>4. DraftOk(r, w)
    BY <2>1 DEF DraftOk, PipelineInv, SlotOk, WorkOk, Context
  <2>5. CASE verdict # "good" /\ Retry(r, w)
    BY <1>0, <2>1, <2>2, <2>3, <2>4, <2>5, RetrySlot
  <2>6. CASE Go(r, "execute") /\ UNCHANGED <<work, answer>>
    <3>1. /\ pc'[r] = "execute" /\ work'[r] = work[r] /\ answer'[r] = NoAnswer /\ OnlySlot(r)
      BY <2>3, <2>6 DEF Go, OnlySlot, TypeOK, PipelineInv, SlotOk, AnswerOk, Unanswered
    <3>2. SlotOk(r)'
      BY <2>3, <3>1 DEF PipelineInv, SlotOk, AskedOk, WorkOk, AnswerOk, NoAnswer,
                        Context, HasSql, Answered, shared, TurnsOf, Undrafted
    <3> QED
      BY <1>0, <2>3, <3>1, <3>2
  <2>7. CASE ~req[r].execute /\ Finish(r, w, NoRows)
    <3>1. OnlySlot(r) /\ SlotOk(r)'
      BY <2>2, <2>3, <2>4, <2>7, FinishSlot DEF Rows
    <3> QED
      BY <1>0, <2>3, <3>1
  <2> QED
    BY <2>3, <2>5, <2>6, <2>7
<1>13. ASSUME NEW r \in Requests, NEW verdict \in {"good"} \cup Bad, Execute(r, verdict)
       PROVE  PipelineInv'
  <2> DEFINE w == [work[r] EXCEPT !.valid = FALSE, !.verdict = verdict, !.error = TRUE]
  <2>1. w \in Work /\ ~w.valid /\ w.verdict = verdict /\ w.base = work[r].base
    <3>1. verdict \in Verdicts
      BY DEF Verdicts, Bad
    <3>2. w \in Work
      BY <3>1, JudgedType DEF TypeOK
    <3> QED
      BY <3>2 DEF TypeOK, Work
  <2>2. /\ pc[r] = "execute" /\ UNCHANGED <<req, asked, db, shared>>
        /\ \/ verdict # "good" /\ Retry(r, w)
           \/ Finish(r, work[r], db[req[r].connection])
    BY <1>13 DEF Execute
  <2> HIDE DEF w
  <2>3. DraftOk(r, w) /\ DraftOk(r, work[r])
    BY <2>1 DEF DraftOk, PipelineInv, SlotOk, WorkOk
  <2>4. work[r] \in Work /\ db[req[r].connection] \in Rows /\ db[req[r].connection] # NoRows
    BY DEF TypeOK, Request, Rows, NoRows
  <2>5. OnlySlot(r) /\ SlotOk(r)'
    BY <2>1, <2>2, <2>3, <2>4, RetrySlot, FinishSlot
  <2> QED
    BY <1>0, <2>2, <2>5
<1>14. ASSUME NEW r \in Requests, NEW ok \in BOOLEAN, SaveMessage(r, ok) PROVE PipelineInv'
  <2>1. /\ pc[r] = "save" /\ answer'[r] = answer[r]
        /\ pc'[r] \in {"store", "done"} /\ work'[r] \in {work[r], NoWork}
        /\ pc'[r] = "store" => answer[r].valid
        /\ OnlySlot(r) /\ UNCHANGED <<req, asked, db>>
    BY <1>14 DEF SaveMessage, Complete, Go, OnlySlot, TypeOK
  <2>2. /\ StoresOk' /\ \A s \in Sessions : turns'[s] >= turns[s]
    BY <1>14 DEF SaveMessage, PipelineInv, StoresOk, EntryOk, HasSql, TypeOK
  <2>3. AskedOk(r)'
    <3>1. TurnsOf(req[r].session)' >= TurnsOf(req[r].session)
      BY <2>1, <2>2 DEF TurnsOf
    <3>2. /\ TurnsOf(req[r].session) \in Nat /\ TurnsOf(req[r].session)' \in Nat
          /\ asked[r].turns \in Nat /\ asked'[r] = asked[r]
      BY <2>1 DEF TurnsOf, TypeOK
    <3> HIDE DEF TurnsOf
    <3> QED
      BY <2>1, <3>1, <3>2 DEF PipelineInv, SlotOk, AskedOk
  <2>4. WorkOk(r)'
    BY <2>1 DEF PipelineInv, SlotOk, WorkOk, Context, NoWork, NoTurn, Undrafted
  <2>5. AnswerOk(r)'
    BY <2>1 DEF PipelineInv, SlotOk, AnswerOk, Context, HasSql, Answered, Unanswered, Undrafted
  <2> QED
    BY <2>1, <2>2, <2>3, <2>4, <2>5, SlotStep DEF SlotOk
<1>15. ASSUME NEW r \in Requests, NEW ok \in BOOLEAN, Store(r, ok) PROVE PipelineInv'
  <2>1. /\ pc[r] = "store" /\ answer'[r] = answer[r]
        /\ pc'[r] \in {"learn", "done"} /\ work'[r] \in {work[r], NoWork}
        /\ OnlySlot(r) /\ UNCHANGED <<req, asked, db, turns>>
    BY <1>15 DEF Store, Complete, Go, OnlySlot, TypeOK
  <2>2. EntryOk(req[r].connection, answer[r])
    BY <2>1 DEF PipelineInv, SlotOk, AnswerOk, EntryOk
  <2>3. StoresOk'
    <3>1. \A k \in Key : EntryOk(k[3], exact'[k])
      BY <1>15, <2>2, KeyType DEF Put, Store, TypeOK, PipelineInv, StoresOk
    <3>2. \A p \in pending' : EntryOk(p[1][2], p[2])
      BY <1>15, <2>2, KeyType DEF Put, Store, TypeOK, PipelineInv, StoresOk
    <3> QED
      BY <1>15, <3>1, <3>2 DEF Store, PipelineInv, StoresOk, EntryOk, HasSql
  <2>4. SlotOk(r)'
    BY <2>1 DEF PipelineInv, SlotOk, AskedOk, WorkOk, AnswerOk, Context, NoWork, NoTurn,
                HasSql, Answered, Unanswered, Undrafted, TurnsOf
  <2> QED
    BY <2>1, <2>3, <2>4, SlotStep DEF TypeOK
<1>16. ASSUME NEW r \in Requests, NEW ok \in BOOLEAN, Learn(r, ok) PROVE PipelineInv'
  <2>1. /\ pc[r] = "learn" /\ answer'[r] = answer[r] /\ pc'[r] = "done" /\ work'[r] = NoWork
        /\ OnlySlot(r) /\ UNCHANGED <<req, asked, db, turns>>
    BY <1>16 DEF Learn, Complete, Go, OnlySlot, TypeOK
  <2>2. answer[r].sql # NoSql /\ answer[r].sql.connection = req[r].connection
    BY <2>1 DEF PipelineInv, SlotOk, AnswerOk, HasSql
  <2>3. StoresOk'
    BY <1>16, <2>2, KeyType DEF Learn, TypeOK, PipelineInv, StoresOk, EntryOk, HasSql
  <2>4. SlotOk(r)'
    BY <2>1 DEF PipelineInv, SlotOk, AskedOk, WorkOk, AnswerOk, Context, NoWork, NoTurn,
                HasSql, Answered, Unanswered, Undrafted, TurnsOf
  <2> QED
    BY <2>1, <2>3, <2>4, SlotStep DEF TypeOK
<1>17. ASSUME NEW p \in pending, NEW ok \in BOOLEAN, WriteSemantic(p, ok) PROVE PipelineInv'
  <2>1. EntryOk(p[1][2], p[2]) /\ p[1] \in Questions \X Connections
    BY DEF PipelineInv, StoresOk, TypeOK
  <2>2. StoresOk'
    BY <1>17, <2>1 DEF Put, WriteSemantic, TypeOK, PipelineInv, StoresOk, EntryOk, HasSql
  <2>3. \A q \in Requests : Untouched(q)
    BY <1>17 DEF WriteSemantic, Untouched
  <2>4. Grows /\ req' = req
    BY <1>17 DEF WriteSemantic, Grows, TypeOK
  <2> QED
    BY <2>2, <2>3, <2>4, Frame DEF PipelineInv
<1>18. ASSUME NEW r \in Requests, Cancel(r) PROVE PipelineInv'
  BY <1>0, <1>18, FailSlot DEF Cancel, Active
<1>19. CASE UNCHANGED vars
  <2>1. (\A q \in Requests : Untouched(q)) /\ Grows /\ req' = req /\ StoresOk'
    BY <1>19, SharedKept DEF vars, shared, Untouched, Grows, TypeOK
  <2> QED
    BY <2>1, Frame DEF PipelineInv
<1> QED
  BY <1>1, <1>2, <1>3, <1>4, <1>5, <1>6, <1>7, <1>8, <1>9, <1>10, <1>11, <1>12,
     <1>13, <1>14, <1>15, <1>16, <1>17, <1>18, <1>19
  DEF Next, Step, Write

\* The inductive invariant holds in every reachable state of the pipeline.
THEOREM PipelineInvariant == Spec => [](TypeOK /\ PipelineInv)
<1>1. Init => TypeOK /\ PipelineInv
  BY TypeInit, PipelineInit
<1>2. TypeOK /\ PipelineInv /\ [Next]_vars => (TypeOK /\ PipelineInv)'
  BY TypeStep, PipelineStep
<1> QED
  BY <1>1, <1>2, PTL DEF Spec

\* No answer, cache entry, background write or training pair ever carries the
\* SQL of another connection.
THEOREM ConnectionScopedHolds == Spec => []ConnectionScoped
BY PipelineInvariant, PipelineImplies, PTL

\* The caches hold only statements that their last attempt left valid and that
\* neither the parser nor the database refused.
THEOREM CacheVettedHolds == Spec => []CacheVetted
BY PipelineInvariant, PipelineImplies, PTL

\* An executed request of run gets no rows older than itself, whatever the
\* caches hold.
THEOREM FreshRowsHolds == Spec => []FreshRows
BY PipelineInvariant, PipelineImplies, PTL

\* An executed request of run that is given an accepted statement has its rows
\* or its error.
THEOREM RowsOrErrorHolds == Spec => []RowsOrError
BY PipelineInvariant, PipelineImplies, PTL

\* What a generated statement refines is a turn of its own session, at least as
\* recent as the last one when the question was asked.
THEOREM OwnContextHolds == Spec => []OwnContext
BY PipelineInvariant, PipelineImplies, PTL

-----------------------------------------------------------------------------
(* The pipeline implements QueryService: each step of a slot maps to a step of *)
(* the service, or only lets statements be forgotten.                          *)

Given(r) == <<SemanticKey(req[r]), answer[r].sql>>

\* Known, by where a statement is.
LEMMA KnownMembers ==
    \A x : x \in Known <=>
       \/ \E r \in Requests : Active(r) /\ HasSql(answer[r]) /\ x = Given(r)
       \/ \E k \in Key : HasSql(exact[k]) /\ x = << <<k[1], k[3]>>, exact[k].sql>>
       \/ \E k \in Questions \X Connections : HasSql(semantic[k]) /\ x = <<k, semantic[k].sql>>
       \/ \E p \in pending : HasSql(p[2]) /\ x = <<p[1], p[2].sql>>
BY DEF Known, Given

\* Only slot r moves, and the answers of the others stay as they are.
Moves(r) == /\ req' = req
            /\ pc' \in [Requests -> Phases] /\ answer' \in [Requests -> Answer]
            /\ \A q \in Requests \ {r} : pc'[q] = pc[q] /\ answer'[q] = answer[q]

\* The stores hold nothing that is not known.
StoresKnown ==
    /\ \A k \in Key : HasSql(exact'[k]) => << <<k[1], k[3]>>, exact'[k].sql>> \in Known
    /\ \A k \in Questions \X Connections :
          HasSql(semantic'[k]) => <<k, semantic'[k].sql>> \in Known
    /\ \A p \in pending' : HasSql(p[2]) => <<p[1], p[2].sql>> \in Known

LEMMA StoresStay == UNCHANGED <<exact, semantic, pending>> => StoresKnown
BY KnownMembers DEF StoresKnown

LEMMA KnownAfter ==
    ASSUME TypeOK, NEW r \in Requests, Moves(r), StoresKnown
    PROVE  \A x \in Known' \ Known : x = Given(r)' /\ Active(r)' /\ HasSql(answer[r])'
<1>1. SUFFICES ASSUME NEW x \in Known', x \notin Known
               PROVE  x = Given(r)' /\ Active(r)' /\ HasSql(answer[r])'
  OBVIOUS
<1>2. \/ \E q \in Requests : Active(q)' /\ HasSql(answer[q])' /\ x = Given(q)'
      \/ \E k \in Key : HasSql(exact'[k]) /\ x = << <<k[1], k[3]>>, exact'[k].sql>>
      \/ \E k \in Questions \X Connections : HasSql(semantic'[k]) /\ x = <<k, semantic'[k].sql>>
      \/ \E p \in pending' : HasSql(p[2]) /\ x = <<p[1], p[2].sql>>
  BY <1>1 DEF Known, Given, HasSql
<1>3. PICK q \in Requests : Active(q)' /\ HasSql(answer[q])' /\ x = Given(q)'
  BY <1>1, <1>2 DEF StoresKnown
<1>4. CASE q # r
  <2>1. Active(q) /\ HasSql(answer[q]) /\ x = Given(q)
    BY <1>3, <1>4 DEF Moves, Active, HasSql, Given, SemanticKey
  <2> QED
    BY <1>1, <2>1, KnownMembers
<1> QED
  BY <1>3, <1>4

\* A slot that is given a known statement, or none, implements a step of the service.
LEMMA SlotMaps ==
    ASSUME TypeOK, NEW r \in Requests, Moves(r), StoresKnown, Active(r), pc'[r] # "idle",
           HasSql(answer[r])' => Given(r)' \in Known
    PROVE  Service!Next
<1>1. Known' \subseteq Known
  BY KnownAfter
<1>2. SemanticKey(req[r])' = SemanticKey(req[r])
  BY DEF Moves, SemanticKey
<1>3. [q \in Requests |-> SemanticKey(req[q])]' = [q \in Requests |-> SemanticKey(req[q])]
  BY DEF Moves, SemanticKey
<1>4. Phase(r) = "open" /\ \A q \in Requests \ {r} : Phase(q)' = Phase(q)
  BY DEF Active, Phase, Moves
<1>5. CASE pc'[r] = "done"
  <2>1. Phase(r)' = "replied"
    BY <1>5 DEF Phase
  <2>2. \/ answer'[r].sql = NoSql
        \/ <<SemanticKey(req[r]), answer'[r].sql>> \in Known
    BY <1>2 DEF HasSql, Given
  <2> DEFINE replies == [q \in Requests |-> IF pc[q] = "done" THEN answer[q].sql ELSE NoSql]
  <2>3. replies' = [replies EXCEPT ![r] = answer'[r].sql]
    BY <1>5 DEF Moves
  <2>4. Service!Reply(r)
    <3>1. [q \in Requests |-> Phase(q)]' = [[q \in Requests |-> Phase(q)] EXCEPT ![r] = "replied"]
      BY <1>4, <2>1
    <3>2. answer'[r].sql \in {NoSql} \cup {k[2] : k \in {x \in Known : x[1] = SemanticKey(req[r])}}
      BY <2>2
    <3> QED
      BY <1>1, <1>3, <1>4, <2>3, <3>1, <3>2 DEF Service!Reply, Service!Enter, Service!Forget
  <2> QED
    BY <2>4 DEF Service!Next
<1>6. CASE pc'[r] = "failed"
  <2>1. Phase(r)' = "failed"
    BY <1>6 DEF Phase
  <2>2. [q \in Requests |-> Phase(q)]' = [[q \in Requests |-> Phase(q)] EXCEPT ![r] = "failed"]
    BY <1>4, <2>1
  <2>3. Service!Fail(r)
    BY <1>1, <1>3, <1>4, <1>6, <2>2 DEF Service!Fail, Service!Enter, Service!Forget, Moves, Active
  <2> QED
    BY <2>3 DEF Service!Next
<1>7. CASE pc'[r] \notin {"done", "failed"}
  <2>1. Phase(r)' = "open"
    BY <1>7 DEF Phase
  <2> QED
    BY <1>1, <1>3, <1>4, <1>7, <2>1 DEF Service!Next, Service!Forget, Moves, Active
<1> QED
  BY <1>5, <1>6, <1>7

\* A slot whose loop ends gives a statement of its own to the service.
LEMMA FinishMaps ==
    ASSUME TypeOK, NEW r \in Requests, Moves(r), StoresKnown, Active(r), pc'[r] = "save",
           answer'[r].sql.connection = req[r].connection
    PROVE  Service!Next
<1>1. \A x \in Known' \ Known : x = <<SemanticKey(req[r]), answer'[r].sql>>
  BY KnownAfter DEF Given, Moves, SemanticKey
<1>2. [q \in Requests |-> SemanticKey(req[q])]' = [q \in Requests |-> SemanticKey(req[q])]
  BY DEF Moves, SemanticKey
<1>3. Phase(r) = "open" /\ Phase(r)' = "open" /\ \A q \in Requests \ {r} : Phase(q)' = Phase(q)
  BY DEF Active, Phase, Moves
<1>4. \A k \in Known' \ Known :
         k[1] = SemanticKey(req[r]) /\ k[2].connection = SemanticKey(req[r])[2]
  BY <1>1 DEF SemanticKey
<1>5. Service!Generate(r)
  BY <1>2, <1>3, <1>4 DEF Service!Generate, Moves, Active
<1> QED
  BY <1>5 DEF Service!Next

LEMMA ServiceInit == Init => Service!Init
<1> SUFFICES ASSUME Init PROVE Service!Init
  OBVIOUS
<1>1. [r \in Requests |-> SemanticKey(req[r])] \in [Requests -> Questions \X Connections]
  <2>1. \A r \in Requests : req[r] \in Request
    BY ConstantsAssumption DEF Init
  <2> QED
    BY <2>1, KeyType
<1>2. [r \in Requests |-> Phase(r)] = [r \in Requests |-> "new"]
  BY DEF Init, Phase
<1>3. [r \in Requests |-> IF pc[r] = "done" THEN answer[r].sql ELSE NoSql]
         = [r \in Requests |-> NoSql]
  BY DEF Init
<1>4. Known = {}
  <2>1. \A r \in Requests : ~Active(r)
    BY DEF Init, Active
  <2>2. ~HasSql(NoAnswer)
    BY DEF HasSql, NoAnswer
  <2>3. \A x : x \notin Known
    BY <2>1, <2>2, KnownMembers DEF Init
  <2> QED
    BY <2>3
<1> QED
  BY <1>1, <1>2, <1>3, <1>4 DEF Service!Init

\* Retry and Fail, the ways an attempt ends without rows.
LEMMA FailMaps ==
    ASSUME TypeOK, TypeOK', NEW r \in Requests, Active(r), Fail(r), UNCHANGED <<req, shared>>
    PROVE  Service!Next
<1>1. Moves(r) /\ pc'[r] = "failed" /\ answer'[r] = NoAnswer
  BY DEF TypeOK, Fail, Go, Moves
<1>2. StoresKnown
  BY StoresStay DEF shared
<1> QED
  BY <1>1, <1>2, SlotMaps DEF HasSql, NoAnswer

LEMMA AnswerMaps ==
    ASSUME TypeOK, TypeOK', NEW r \in Requests, NEW w, NEW rows, Active(r),
           Finish(r, w, rows), UNCHANGED <<req, shared>>
    PROVE  Service!Next
<1>1. /\ Moves(r) /\ pc'[r] = "save"
      /\ answer'[r].sql.connection = req[r].connection
  BY DEF TypeOK, Finish, Respond, Go, Moves
<1>2. StoresKnown
  BY StoresStay DEF shared
<1> QED
  BY <1>1, <1>2, FinishMaps

\* A step of slot r that leaves its answer and the stores alone.
LEMMA QuietMaps ==
    ASSUME TypeOK, TypeOK', NEW r \in Requests, NEW phase, Active(r), Go(r, phase),
           phase # "idle", UNCHANGED <<req, answer, shared>>
    PROVE  Service!Next
<1>1. Moves(r) /\ pc'[r] = phase
  BY DEF TypeOK, Go, Moves
<1>2. StoresKnown
  BY StoresStay DEF shared
<1>3. HasSql(answer[r])' => Given(r)' \in Known
  <2>1. Given(r)' = Given(r) /\ HasSql(answer[r])' = HasSql(answer[r])
    BY DEF Given, SemanticKey, HasSql
  <2> QED
    BY <2>1, KnownMembers
<1> QED
  BY <1>1, <1>2, <1>3, SlotMaps

LEMMA RetryMaps ==
    ASSUME TypeOK, TypeOK', NEW r \in Requests, NEW w, Active(r), Retry(r, w),
           UNCHANGED <<req, shared>>
    PROVE  Service!Next
BY FailMaps, AnswerMaps, QuietMaps DEF Retry

\* A hit is given an entry of its own question and connection.
LEMMA HitMaps ==
    ASSUME TypeOK, TypeOK', NEW r \in Requests, NEW entry, Active(r), Hit(r, entry),
           entry \in Answer, HasSql(entry) => <<SemanticKey(req[r]), entry.sql>> \in Known,
           UNCHANGED <<req, shared>>
    PROVE  Service!Next
<1>1. /\ Moves(r) /\ pc'[r] \in {"hit", "save"}
      /\ answer'[r] = [entry EXCEPT !.cached = TRUE]
  BY DEF TypeOK, Hit, Respond, Go, Moves
<1>2. StoresKnown
  BY StoresStay DEF shared
<1>3. answer'[r].sql = entry.sql
  BY <1>1 DEF Answer
<1>4. HasSql(answer[r])' => Given(r)' \in Known
  BY <1>3 DEF Given, SemanticKey, HasSql
<1> QED
  BY <1>1, <1>2, <1>4, SlotMaps

LEMMA ServiceStep ==
    ASSUME TypeOK, TypeOK', PipelineInv, [Next]_vars
    PROVE  [Service!Next]_Service!vars
<1>1. ASSUME NEW r \in Requests, Submit(r) PROVE Service!Next
  <2>1. Moves(r) /\ pc[r] = "idle" /\ pc'[r] = "exact" /\ answer' = answer
    BY <1>1 DEF TypeOK, Submit, Go, Moves
  <2>2. StoresKnown
    BY <1>1, StoresStay DEF Submit, shared
  <2>3. ~HasSql(answer[r])'
    BY <2>1 DEF PipelineInv, SlotOk, AnswerOk, Unanswered, Undrafted, HasSql, NoAnswer
  <2>4. Known' \subseteq Known
    BY <2>1, <2>2, <2>3, KnownAfter
  <2>5. [q \in Requests |-> SemanticKey(req[q])]' = [q \in Requests |-> SemanticKey(req[q])]
    BY <2>1 DEF Moves, SemanticKey
  <2>6. Phase(r) = "new" /\ Phase(r)' = "open" /\ \A q \in Requests \ {r} : Phase(q)' = Phase(q)
    BY <2>1 DEF Phase, Moves
  <2>7. Service!Open(r)
    BY <2>1, <2>4, <2>5, <2>6 DEF Service!Open, Service!Enter, Service!Forget, Moves
  <2> QED
    BY <2>7 DEF Service!Next
<1>2. ASSUME NEW c \in Connections, Change(c) PROVE UNCHANGED Service!vars
  <2>1. UNCHANGED <<pc, req, answer, exact, semantic, pending>>
    BY <1>2 DEF Change, shared
  <2> QED
    BY <2>1 DEF Service!vars, Phase, SemanticKey, Known, Active, HasSql
<1>3. ASSUME NEW r \in Requests, LookupExact(r) PROVE Service!Next
  <2> DEFINE entry == exact[_make_cache_key(req[r])]
  <2>1. _make_cache_key(req[r]) \in Key /\ entry \in Answer
    BY KeyType DEF TypeOK
  <2>2. HasSql(entry) => <<SemanticKey(req[r]), entry.sql>> \in Known
    BY <2>1, KnownMembers DEF _make_cache_key, SemanticKey
  <2> QED
    BY <1>3, <2>1, <2>2, HitMaps, QuietMaps DEF LookupExact, Active
<1>4. ASSUME NEW r \in Requests, LookupSemantic(r) PROVE Service!Next
  <2> DEFINE entry == semantic[SemanticKey(req[r])]
  <2>1. SemanticKey(req[r]) \in Questions \X Connections /\ entry \in Answer
    BY KeyType DEF TypeOK
  <2>2. HasSql(entry) => <<SemanticKey(req[r]), entry.sql>> \in Known
    BY <2>1, KnownMembers
  <2> QED
    BY <1>4, <2>1, <2>2, HitMaps, QuietMaps DEF LookupSemantic, Active
<1>5. ASSUME NEW r \in Requests, NEW ok \in BOOLEAN, ExecuteCached(r, ok) PROVE Service!Next
  <2>1. Moves(r) /\ pc[r] = "hit" /\ pc'[r] = "save" /\ answer'[r].sql = answer[r].sql
    BY <1>5 DEF TypeOK, ExecuteCached, Respond, Go, Moves, Answer
  <2>2. StoresKnown
    BY <1>5, StoresStay DEF ExecuteCached, shared
  <2>3. HasSql(answer[r])' => Given(r)' \in Known
    <3>1. Given(r)' = Given(r) /\ HasSql(answer[r])' = HasSql(answer[r])
      BY <2>1 DEF Given, SemanticKey, HasSql, Moves
    <3> QED
      BY <2>1, <3>1, KnownMembers DEF Active
  <2> QED
    BY <2>1, <2>2, <2>3, SlotMaps DEF Active
<1>6. ASSUME NEW r \in Requests, Greet(r) PROVE Service!Next
  BY <1>6, QuietMaps DEF Greet, Active
<1>7. ASSUME NEW r \in Requests, NEW ok \in BOOLEAN, RetrieveSchema(r, ok) PROVE Service!Next
  BY <1>7, QuietMaps, FailMaps DEF RetrieveSchema, Active
<1>8. ASSUME NEW r \in Requests, NEW ok \in BOOLEAN, LoadHistory(r, ok) PROVE Service!Next
  BY <1>8, QuietMaps DEF LoadHistory, EmitClarification, Active
<1>9. ASSUME NEW r \in Requests, NEW verdict \in Drafts, Generate(r, verdict)
      PROVE  Service!Next
  BY <1>9, QuietMaps, RetryMaps DEF Generate, Active
<1>10. ASSUME NEW r \in Requests, RateLimited(r) PROVE Service!Next
  BY <1>10, RetryMaps, FailMaps DEF RateLimited, Active
<1>11. ASSUME NEW r \in Requests, GenerationFails(r) PROVE Service!Next
  BY <1>11, FailMaps DEF GenerationFails, Active
<1>12. ASSUME NEW r \in Requests, NEW verdict \in {"good"} \cup Bad, Explain(r, verdict)
       PROVE  Service!Next
  BY <1>12, QuietMaps, RetryMaps, AnswerMaps DEF Explain, Active
<1>13. ASSUME NEW r \in Requests, NEW verdict \in {"good"} \cup Bad, Execute(r, verdict)
       PROVE  Service!Next
  BY <1>13, RetryMaps, AnswerMaps DEF Execute, Active
<1>14. ASSUME NEW r \in Requests, NEW ok \in BOOLEAN,
              SaveMessage(r, ok) \/ Store(r, ok) \/ Learn(r, ok)
       PROVE  Service!Next
  <2>1. /\ Moves(r) /\ Active(r) /\ pc'[r] # "idle"
        /\ UNCHANGED <<req, answer, semantic>>
    BY <1>14 DEF TypeOK, SaveMessage, Store, Learn, Complete, Go, Moves, Active
  <2>2. HasSql(answer[r]) => Given(r) \in Known
    BY <2>1, KnownMembers
  <2>3. HasSql(answer[r])' => Given(r)' \in Known
    <3>1. Given(r)' = Given(r) /\ HasSql(answer[r])' = HasSql(answer[r])
      BY <2>1 DEF Given, SemanticKey, HasSql
    <3> QED
      BY <2>2, <3>1
  <2>4. StoresKnown
    <3>1. CASE SaveMessage(r, ok) \/ Learn(r, ok)
      BY <3>1, StoresStay DEF SaveMessage, Learn
    <3>2. CASE Store(r, ok)
      <4>1. _make_cache_key(req[r]) \in Key
        BY KeyType DEF TypeOK
      <4>2. ASSUME NEW k \in Key, HasSql(exact'[k])
            PROVE  << <<k[1], k[3]>>, exact'[k].sql>> \in Known
        <5>1. CASE k = _make_cache_key(req[r]) /\ ok
          <6>1. exact'[k] = answer[r] /\ <<k[1], k[3]>> = SemanticKey(req[r])
            BY <3>2, <5>1 DEF Put, Store, TypeOK, _make_cache_key, SemanticKey
          <6> QED
            BY <2>2, <4>2, <6>1 DEF Given, HasSql
        <5>2. CASE ~(k = _make_cache_key(req[r]) /\ ok)
          <6>1. exact'[k] = exact[k]
            BY <3>2, <5>2 DEF Put, Store, TypeOK
          <6> QED
            BY <4>2, <6>1, KnownMembers
        <5> QED
          BY <5>1, <5>2
      <4>3. ASSUME NEW p \in pending', HasSql(p[2]) PROVE <<p[1], p[2].sql>> \in Known
        <5>1. p \in pending \/ p = <<SemanticKey(req[r]), answer[r]>>
          BY <3>2 DEF Store
        <5> QED
          BY <2>2, <4>3, <5>1, KnownMembers DEF Given, HasSql
      <4>4. \A k \in Questions \X Connections :
               HasSql(semantic'[k]) => <<k, semantic'[k].sql>> \in Known
        BY <2>1, KnownMembers
      <4> QED
        BY <4>2, <4>3, <4>4 DEF StoresKnown
    <3> QED
      BY <1>14, <3>1, <3>2
  <2> QED
    BY <2>1, <2>3, <2>4, SlotMaps
<1>15. ASSUME NEW p \in pending, NEW ok \in BOOLEAN, WriteSemantic(p, ok) PROVE Service!Next
  <2>1. UNCHANGED <<pc, req, answer, exact>>
    BY <1>15 DEF WriteSemantic
  <2>2. ASSUME NEW k \in Questions \X Connections, HasSql(semantic'[k])
        PROVE  <<k, semantic'[k].sql>> \in Known
    <3>1. semantic'[k] = semantic[k] \/ (k = p[1] /\ semantic'[k] = p[2])
      BY <1>15 DEF Put, WriteSemantic, TypeOK
    <3> QED
      BY <2>2, <3>1, KnownMembers
  <2>3. Known' \subseteq Known
    <3>1. SUFFICES ASSUME NEW x \in Known' PROVE x \in Known
      OBVIOUS
    <3>2. \/ \E r \in Requests : Active(r)' /\ HasSql(answer[r])' /\ x = Given(r)'
          \/ \E k \in Key : HasSql(exact'[k]) /\ x = << <<k[1], k[3]>>, exact'[k].sql>>
          \/ \E k \in Questions \X Connections : HasSql(semantic'[k]) /\ x = <<k, semantic'[k].sql>>
          \/ \E q \in pending' : HasSql(q[2]) /\ x = <<q[1], q[2].sql>>
      BY DEF Known, Given, HasSql
    <3>3. pending' \subseteq pending
      BY <1>15 DEF WriteSemantic
    <3> QED
      BY <2>1, <2>2, <3>2, <3>3, KnownMembers DEF Active, HasSql, Given, SemanticKey
  <2>4. UNCHANGED <<[r \in Requests |-> SemanticKey(req[r])], [r \in Requests |-> Phase(r)],
                    [r \in Requests |-> IF pc[r] = "done" THEN answer[r].sql ELSE NoSql]>>
    BY <2>1 DEF Phase, SemanticKey
  <2> QED
    BY <2>3, <2>4 DEF Service!Next, Service!Forget
<1>16. ASSUME NEW r \in Requests, Cancel(r) PROVE Service!Next
  BY <1>16, FailMaps DEF Cancel
<1>17. CASE UNCHANGED vars
  BY <1>17 DEF vars, Service!vars, Phase, SemanticKey, Known, Active, HasSql
<1> QED
  BY <1>1, <1>2, <1>3, <1>4, <1>5, <1>6, <1>7, <1>8, <1>9, <1>10, <1>11, <1>12, <1>13,
     <1>14, <1>15, <1>16, <1>17
  DEF Next, Step, Write

\* The pipeline implements the safety part of QueryService: a reply is a statement
\* that was generated for the same question on the same connection, and each request
\* is replied to at most once.  That every request ends is left to TLC.
THEOREM ImplementsQueryService == Spec => Service!Spec
<1>1. TypeOK /\ TypeOK' /\ PipelineInv /\ [Next]_vars => [Service!Next]_Service!vars
  BY ServiceStep
<1> QED
  BY <1>1, ServiceInit, PipelineInvariant, PTL DEF Spec, Service!Spec
=============================================================================
