-------------------------- MODULE Grounding_proofs --------------------------
(***************************************************************************)
(* Proofs about Grounding for any connections, tables, statements, foreign *)
(* keys, processes, requests and bounds.                                   *)
(***************************************************************************)
EXTENDS Grounding, TLAPS

\* The searches return some of what they are given.
LEMMA SomeSubset == \A S, n : \A T \in Some(S, n) : T \subseteq S
BY DEF Some

LEMMA PreferSubset == \A C, c : PreferOwn(C, c) \subseteq C
BY DEF PreferOwn

\* A chunk, example or pattern that is visible to a connection is its own or shared.
LEMMA VisibleOwners == \A S, c : \A x \in Visible(S, c) : x \in S /\ x.owner \in {c, Shared}
BY DEF Visible

LEMMA FoundOwners ==
    ASSUME NEW c, NEW found \in Found(c)
    PROVE  \A k \in found : k \in index /\ k.owner \in {c, Shared}
<1>1. PICK fetched \in Some(Visible(index, c), 2 * TopK) : found \in Some(PreferOwn(fetched, c), TopK)
  BY DEF Found
<1> QED
  BY <1>1, SomeSubset, PreferSubset, VisibleOwners

-----------------------------------------------------------------------------
(* What holds of one request. *)

Scoped(w) ==
    /\ \A k \in w.chunks : k.owner \in {w.conn, Shared}
    /\ \A x \in w.examples : x.owner \in {w.conn, Shared}
    /\ \A x \in w.patterns : x.owner \in {w.conn, Shared}

InPrompt == {"expand", "examples", "recent", "generate", "collect", "done"}

OwnFirst(w) ==
    w.at \in InPrompt /\ ~w.fellBack =>
        \A k \in w.chunks : k.owner = Shared /\ w.conn # Shared => k.table \in w.lacked

\* A table the connection has no chunk of its own for at the moment is among those it
\* lacked at some moment of the request.
Aware(w) ==
    w.at # "idle" => \A t \in Tables : [owner |-> w.conn, table |-> t] \in index \/ t \in w.lacked

Sound(w) == w \in Request /\ Scoped(w) /\ OwnFirst(w) /\ Aware(w)

\* What holds of everything else.
Stores ==
    /\ index \subseteq Chunk
    /\ training \in Seq(Row)
    /\ examples \subseteq Example
    /\ patterns \in [Procs -> SUBSET Pattern]
    /\ report \in [Reports -> Report \cup {NoReport}]
    /\ reported \in [Procs -> SUBSET (Conns \X Sqls)]
    /\ writes \in Nat /\ reports \in Nat /\ faults \in Nat

Requested == req \in [Requests -> Request] /\ \A r \in Requests : Sound(req[r])

GroundInv == Stores /\ Requested /\ PatternsKept

LEMMA GroundInit == Init => GroundInv
<1> SUFFICES ASSUME Init PROVE GroundInv
  OBVIOUS
<1>1. Stores
  BY GroundingAssumption DEF Init, Stores
<1>2. PatternsKept
  BY DEF Init, PatternsKept
<1>3. ASSUME NEW r \in Requests PROVE Sound(req[r])
  <2>1. PICK p \in Procs, c \in Owners : req[r] = NewRequest(p, c)
    BY DEF Init
  <2>2. NewRequest(p, c) \in Request
    BY GroundingAssumption DEF NewRequest, Request
  <2> QED
    BY <2>1, <2>2 DEF Sound, Scoped, OwnFirst, Aware, NewRequest, InPrompt
<1>4. Requested
  BY <1>3 DEF Requested, Init, Sound
<1> QED
  BY <1>1, <1>2, <1>4 DEF GroundInv

-----------------------------------------------------------------------------
(* The steps of a request, each of which changes only the request. *)

\* One request becomes another that is sound.
LEMMA Becoming ==
    ASSUME Requested, index' = index, NEW r \in Requests, NEW w,
           req' = [req EXCEPT ![r] = w], Sound(w)
    PROVE  Requested'
<1>1. \A q \in Requests : req'[q] \in Request /\ Scoped(req'[q]) /\ OwnFirst(req'[q])
                          /\ (req'[q].at # "idle" => \A t \in Tables :
                                 [owner |-> req'[q].conn, table |-> t] \in index
                                 \/ t \in req'[q].lacked)
  BY DEF Requested, Sound, Aware
<1>2. req' \in [Requests -> Request]
  BY DEF Requested, Sound
<1> QED
  BY <1>1, <1>2 DEF Requested, Sound, Aware, Scoped, OwnFirst

\* A request changes in its phase, its counters or its tables: nothing in its prompt.
LEMMA Walking ==
    ASSUME Requested, index' = index, NEW r \in Requests, NEW w \in Request,
           req' = [req EXCEPT ![r] = w],
           w.conn = req[r].conn, w.chunks = req[r].chunks, w.examples = req[r].examples,
           w.patterns = req[r].patterns, w.lacked = req[r].lacked,
           w.fellBack = req[r].fellBack, req[r].at # "idle",
           w.at \in InPrompt => req[r].at \in InPrompt
    PROVE  Requested'
<1>1. Sound(w)
  BY DEF Requested, Sound, Scoped, OwnFirst, Aware
<1> QED
  BY <1>1, Becoming

LEMMA AskGrounded ==
    ASSUME GroundInv, NEW r \in Requests, Ask(r)
    PROVE  Requested'
<1> DEFINE own == {k \in index : k.owner = req[r].conn}
           lacked == Tables \ TablesOf(own)
<1>1. PICK n \in 1..Searches :
         req' = [req EXCEPT ![r].at = "count", ![r].left = n, ![r].lacked = lacked]
  BY DEF Ask
<1> DEFINE w == [req[r] EXCEPT !.at = "count", !.left = n, !.lacked = lacked]
<1>2. req' = [req EXCEPT ![r] = w] /\ index' = index
  BY <1>1 DEF Ask, UnchangedByRead
<1>3. req[r] \in Request /\ Scoped(req[r])
  BY DEF GroundInv, Requested, Sound
<1>4. lacked \subseteq Tables
  OBVIOUS
<1>5. n \in 0..Searches
  BY <1>1, GroundingAssumption
<1> HIDE DEF lacked
<1>6. /\ w \in Request /\ w.at = "count" /\ w.lacked = lacked /\ w.conn = req[r].conn
      /\ w.chunks = req[r].chunks /\ w.examples = req[r].examples /\ w.patterns = req[r].patterns
  BY <1>3, <1>4, <1>5 DEF Request
<1>7. Scoped(w) /\ OwnFirst(w)
  BY <1>3, <1>6 DEF Scoped, OwnFirst, InPrompt
<1>8. Aware(w)
  <2> SUFFICES ASSUME NEW t \in Tables, t \notin lacked
               PROVE  [owner |-> req[r].conn, table |-> t] \in index
    BY <1>6 DEF Aware
  <2>1. PICK k \in own : k.table = t
    BY DEF lacked, TablesOf
  <2>2. k \in Chunk /\ k.owner = req[r].conn
    BY DEF GroundInv, Stores
  <2>3. k = [owner |-> req[r].conn, table |-> t]
    BY <2>1, <2>2 DEF Chunk
  <2> QED
    BY <2>1, <2>3
<1> HIDE DEF w
<1> QED
  BY <1>2, <1>6, <1>7, <1>8, Becoming DEF Sound, GroundInv

LEMMA ListGrounded ==
    ASSUME GroundInv, NEW r \in Requests, ListTables(r)
    PROVE  Requested'
<1> DEFINE known == TablesOf(Visible(index, req[r].conn))
           w == [req[r] EXCEPT !.listed = TRUE, !.known = known]
<1>1. req' = [req EXCEPT ![r] = w] /\ index' = index /\ req[r].at # "idle"
  BY DEF ListTables, UnchangedByRead
<1>2. req[r] \in Request
  BY DEF GroundInv, Requested
<1>3. known \subseteq Tables
  BY DEF TablesOf, Visible, Chunk, GroundInv, Stores
<1> HIDE DEF known
<1>4. /\ w \in Request /\ w.conn = req[r].conn /\ w.chunks = req[r].chunks
      /\ w.examples = req[r].examples /\ w.patterns = req[r].patterns
      /\ w.lacked = req[r].lacked /\ w.fellBack = req[r].fellBack /\ w.at = req[r].at
  BY <1>2, <1>3 DEF Request
<1> HIDE DEF w
<1> QED
  BY <1>1, <1>4, Walking DEF GroundInv

LEMMA CountGrounded ==
    ASSUME GroundInv, NEW r \in Requests, CountChunks(r) \/ StoreFails(r)
    PROVE  Requested'
<1>1. PICK at \in {"failed", "search"} : req' = [req EXCEPT ![r].at = at]
  BY DEF CountChunks, StoreFails
<1> DEFINE w == [req[r] EXCEPT !.at = at]
<1>2. req' = [req EXCEPT ![r] = w] /\ index' = index /\ req[r].at # "idle"
  BY <1>1 DEF CountChunks, StoreFails, UnchangedByRead, At
<1>3. /\ w \in Request /\ w.conn = req[r].conn /\ w.chunks = req[r].chunks
      /\ w.examples = req[r].examples /\ w.patterns = req[r].patterns
      /\ w.lacked = req[r].lacked /\ w.fellBack = req[r].fellBack /\ w.at = at
  BY <1>1 DEF Request, GroundInv, Requested
<1> HIDE DEF w
<1> QED
  BY <1>1, <1>2, <1>3, Walking DEF GroundInv, InPrompt

LEMMA SearchGrounded ==
    ASSUME GroundInv, NEW r \in Requests, SearchOne(r)
    PROVE  Requested'
<1>1. PICK found \in Found(req[r].conn) :
         req' = [req EXCEPT ![r].left = @ - 1, ![r].chunks = @ \cup found]
  BY DEF SearchOne
<1> DEFINE w == [req[r] EXCEPT !.left = @ - 1, !.chunks = @ \cup found]
<1>2. req' = [req EXCEPT ![r] = w] /\ index' = index /\ req[r].at = "search" /\ req[r].left > 0
  BY <1>1 DEF SearchOne, UnchangedByRead, At
<1>3. /\ req[r] \in Request /\ index \subseteq Chunk
      /\ Scoped(req[r]) /\ Aware(req[r])
  BY DEF GroundInv, Requested, Sound, Stores
<1>4. \A k \in found : k \in Chunk /\ k.owner \in {req[r].conn, Shared}
  BY <1>1, <1>3, FoundOwners
<1>5. req[r].left - 1 \in 0..Searches
  BY <1>2, <1>3, GroundingAssumption DEF Request
<1>6. /\ w \in Request /\ w.conn = req[r].conn /\ w.chunks = req[r].chunks \cup found
      /\ w.examples = req[r].examples /\ w.patterns = req[r].patterns
      /\ w.lacked = req[r].lacked /\ w.at = "search"
  BY <1>2, <1>3, <1>4, <1>5 DEF Request
<1> HIDE DEF w
<1>7. Scoped(w) /\ OwnFirst(w)
  BY <1>3, <1>4, <1>6 DEF Scoped, OwnFirst, InPrompt
<1>8. Aware(w)
  BY <1>2, <1>3, <1>6 DEF Aware
<1> QED
  BY <1>2, <1>6, <1>7, <1>8, Becoming DEF Sound, GroundInv

LEMMA SelectGrounded ==
    ASSUME GroundInv, NEW r \in Requests, SelectTables(r)
    PROVE  Requested'
<1> DEFINE known == req[r].known
           candidates == TablesOf(req[r].chunks)
<1>1. req[r] \in Request
  BY DEF GroundInv, Requested
<1>2. known \subseteq Tables /\ candidates \subseteq Tables
  BY <1>1 DEF Request, TablesOf, Chunk
<1>3. PICK T \in SUBSET Tables : req' = [req EXCEPT ![r].at = "fetch", ![r].wanted = T]
  BY <1>2 DEF SelectTables
<1> DEFINE w == [req[r] EXCEPT !.at = "fetch", !.wanted = T]
<1>4. req' = [req EXCEPT ![r] = w] /\ index' = index /\ req[r].at # "idle"
  BY <1>3 DEF SelectTables, UnchangedByRead, At
<1>5. /\ w \in Request /\ w.conn = req[r].conn /\ w.chunks = req[r].chunks
      /\ w.examples = req[r].examples /\ w.patterns = req[r].patterns
      /\ w.lacked = req[r].lacked /\ w.fellBack = req[r].fellBack /\ w.at = "fetch"
  BY <1>1, <1>3 DEF Request
<1> HIDE DEF w
<1> QED
  BY <1>4, <1>5, Walking DEF GroundInv, InPrompt

\* A shared chunk is preferred to nothing: the connection has no copy of its own.
LEMMA PreferredOwn ==
    ASSUME index \subseteq Chunk, NEW c \in Owners, NEW T,
           NEW k \in PreferOwn({j \in Visible(index, c) : j.table \in T}, c)
    PROVE  /\ k \in Chunk /\ k.owner \in {c, Shared}
           /\ k.owner = Shared /\ c # Shared => [owner |-> c, table |-> k.table] \notin index
<1> DEFINE C == {j \in Visible(index, c) : j.table \in T}
           own == [owner |-> c, table |-> k.table]
<1>1. k \in C /\ (k.owner = c \/ [k EXCEPT !.owner = c] \notin C)
  BY DEF PreferOwn
<1>2. k \in Chunk /\ k.owner \in {c, Shared} /\ k.table \in T
  BY <1>1, VisibleOwners
<1>3. [k EXCEPT !.owner = c] = own /\ own.owner = c /\ own.table = k.table
  BY <1>2 DEF Chunk
<1>4. own \in index => own \in C
  BY <1>2, <1>3 DEF Visible
<1> QED
  BY <1>1, <1>2, <1>3, <1>4

LEMMA FetchGrounded ==
    ASSUME GroundInv, NEW r \in Requests, FetchChunks(r)
    PROVE  Requested'
<1> DEFINE c == req[r].conn
           grounded == PreferOwn({k \in Visible(index, c) : k.table \in req[r].wanted}, c)
           chunks == IF grounded = {} THEN req[r].chunks ELSE grounded
           at == IF chunks = {} THEN "examples" ELSE "expand"
           w == [req[r] EXCEPT !.at = at, !.chunks = chunks, !.fellBack = grounded = {}]
<1>1. req' = [req EXCEPT ![r] = w] /\ index' = index /\ req[r].at = "fetch"
  BY DEF FetchChunks, UnchangedByRead, At
<1>2. /\ req[r] \in Request /\ c \in Owners /\ req[r].chunks \subseteq Chunk
      /\ Scoped(req[r]) /\ Aware(req[r]) /\ index \subseteq Chunk
  BY DEF GroundInv, Requested, Sound, Stores, Request
<1>3. \A k \in grounded :
         /\ k \in Chunk /\ k.owner \in {c, Shared}
         /\ k.owner = Shared /\ c # Shared => [owner |-> c, table |-> k.table] \notin index
  BY <1>2, PreferredOwn
<1>4. \A k \in grounded : k.owner = Shared /\ c # Shared => k.table \in req[r].lacked
  BY <1>1, <1>2, <1>3 DEF Aware, Chunk
<1>5. /\ chunks \subseteq Chunk /\ at \in {"examples", "expand"}
      /\ \A k \in chunks : k.owner \in {c, Shared}
      /\ grounded # {} => chunks = grounded
  BY <1>2, <1>3 DEF Scoped
<1> DEFINE fell == grounded = {}
<1>6. fell \in BOOLEAN
  OBVIOUS
<1> HIDE DEF grounded, chunks, at
<1>7. /\ w \in Request /\ w.conn = c /\ w.chunks = chunks /\ w.fellBack = fell
      /\ w.examples = req[r].examples /\ w.patterns = req[r].patterns
      /\ w.lacked = req[r].lacked /\ w.at = at
  BY <1>2, <1>5, <1>6 DEF Request
<1> HIDE DEF w
<1>8. Scoped(w)
  BY <1>2, <1>5, <1>7 DEF Scoped
<1>9. OwnFirst(w)
  BY <1>4, <1>5, <1>7 DEF OwnFirst
<1>10. Aware(w)
  BY <1>1, <1>2, <1>7 DEF Aware
<1> QED
  BY <1>1, <1>7, <1>8, <1>9, <1>10, Becoming DEF Sound, GroundInv

LEMMA ExpandGrounded ==
    ASSUME GroundInv, NEW r \in Requests, ExpandTables(r)
    PROVE  Requested'
<1> DEFINE c == req[r].conn
<1>1. PICK T : req' = [req EXCEPT ![r].at = "examples", ![r].chunks =
                          @ \cup PreferOwn({k \in Visible(index, c) : k.table \in T}, c)]
  BY DEF ExpandTables
<1> DEFINE more == PreferOwn({k \in Visible(index, c) : k.table \in T}, c)
           w == [req[r] EXCEPT !.at = "examples", !.chunks = @ \cup more]
<1>2. req' = [req EXCEPT ![r] = w] /\ index' = index /\ req[r].at = "expand"
  BY <1>1 DEF ExpandTables, UnchangedByRead, At
<1>3. /\ req[r] \in Request /\ c \in Owners /\ req[r].chunks \subseteq Chunk
      /\ Scoped(req[r]) /\ OwnFirst(req[r]) /\ Aware(req[r]) /\ index \subseteq Chunk
  BY DEF GroundInv, Requested, Sound, Stores, Request
<1>4. \A k \in more :
         /\ k \in Chunk /\ k.owner \in {c, Shared}
         /\ k.owner = Shared /\ c # Shared => [owner |-> c, table |-> k.table] \notin index
  BY <1>3, PreferredOwn
<1>5. \A k \in more : k.owner = Shared /\ c # Shared => k.table \in req[r].lacked
  BY <1>2, <1>3, <1>4 DEF Aware, Chunk
<1> HIDE DEF more
<1>6. /\ w \in Request /\ w.conn = c /\ w.chunks = req[r].chunks \cup more
      /\ w.examples = req[r].examples /\ w.patterns = req[r].patterns
      /\ w.lacked = req[r].lacked /\ w.at = "examples" /\ w.fellBack = req[r].fellBack
  BY <1>3, <1>4 DEF Request
<1> HIDE DEF w
<1>7. Scoped(w)
  BY <1>3, <1>4, <1>6 DEF Scoped
<1>8. OwnFirst(w)
  BY <1>2, <1>3, <1>5, <1>6 DEF OwnFirst, InPrompt
<1>9. Aware(w)
  BY <1>2, <1>3, <1>6 DEF Aware
<1> QED
  BY <1>2, <1>6, <1>7, <1>8, <1>9, Becoming DEF Sound, GroundInv

\* Examples that are visible to the connection, or none, for a request in a later phase.
LEMMA Exemplified ==
    ASSUME GroundInv, NEW r \in Requests, NEW S \in SUBSET Example, NEW at,
           at \in {"recent", "generate"}, req[r].at \in {"examples", "recent"}, index' = index,
           req' = [req EXCEPT ![r].at = at, ![r].examples = S],
           \A x \in S : x.owner \in {req[r].conn, Shared}
    PROVE  Requested'
<1> DEFINE w == [req[r] EXCEPT !.at = at, !.examples = S]
<1>1. req' = [req EXCEPT ![r] = w]
  OBVIOUS
<1>2. req[r] \in Request /\ Scoped(req[r]) /\ OwnFirst(req[r]) /\ Aware(req[r])
  BY DEF GroundInv, Requested, Sound
<1>3. /\ w \in Request /\ w.conn = req[r].conn /\ w.chunks = req[r].chunks
      /\ w.examples = S /\ w.patterns = req[r].patterns
      /\ w.lacked = req[r].lacked /\ w.at = at /\ w.fellBack = req[r].fellBack
  BY <1>2 DEF Request
<1> HIDE DEF w
<1>4. Scoped(w) /\ OwnFirst(w) /\ Aware(w)
  BY <1>2, <1>3 DEF Scoped, OwnFirst, Aware, InPrompt
<1> QED
  BY <1>1, <1>3, <1>4, Becoming DEF Sound, GroundInv

LEMMA ExamplesGrounded ==
    ASSUME GroundInv, NEW r \in Requests, SearchExamples(r) \/ RecentExamples(r)
    PROVE  Requested'
<1> DEFINE c == req[r].conn
<1>1. CASE SearchExamples(r)
  <2>1. PICK S \in Some(Visible(examples, c), FewShot) \cup {{}} :
           req' = [req EXCEPT ![r].at = IF S = {} THEN "recent" ELSE "generate", ![r].examples = S]
    BY <1>1 DEF SearchExamples
  <2>2. S \subseteq Visible(examples, c)
    BY <2>1, SomeSubset
  <2>3. \A x \in S : x \in Example /\ x.owner \in {c, Shared}
    BY <2>2, VisibleOwners DEF GroundInv, Stores
  <2>4. req[r].at = "examples" /\ index' = index
    BY <1>1 DEF SearchExamples, UnchangedByRead, At
  <2> DEFINE at == IF S = {} THEN "recent" ELSE "generate"
  <2>5. at \in {"recent", "generate"} /\ req' = [req EXCEPT ![r].at = at, ![r].examples = S]
    BY <2>1
  <2> HIDE DEF at
  <2> QED
    BY <2>3, <2>4, <2>5, Exemplified
<1>2. CASE RecentExamples(r)
  <2>1. PICK S \in {Newest(c), {}} : req' = [req EXCEPT ![r].at = "generate", ![r].examples = S]
    BY <1>2 DEF RecentExamples
  <2>2. \A i \in 1..Len(training) : training[i] \in Row
    BY DEF GroundInv, Stores
  <2>3. \A x \in Newest(c) : x \in Example /\ x.owner \in {c, Shared}
    <3> TAKE x \in Newest(c)
    <3>1. PICK i \in 1..Len(training) : /\ training[i].owner \in {c, Shared}
                                       /\ x = [owner |-> training[i].owner, sql |-> training[i].sql]
      BY DEF Newest
    <3> QED
      BY <2>2, <3>1 DEF Row, Example
  <2>4. req[r].at = "recent" /\ index' = index
    BY <1>2 DEF RecentExamples, UnchangedByRead, At
  <2> QED
    BY <2>1, <2>3, <2>4, Exemplified
<1> QED
  BY <1>1, <1>2

LEMMA GenerateGrounded ==
    ASSUME GroundInv, NEW r \in Requests, Generate(r)
    PROVE  Requested'
<1> DEFINE S == Learned(req[r])
           w == [req[r] EXCEPT !.at = "collect", !.patterns = S]
<1>1. req' = [req EXCEPT ![r] = w] /\ index' = index /\ req[r].at = "generate"
  BY DEF Generate, UnchangedByRead, At
<1>2. req[r] \in Request /\ Scoped(req[r]) /\ OwnFirst(req[r]) /\ Aware(req[r])
  BY DEF GroundInv, Requested, Sound
<1>3. patterns[req[r].proc] \subseteq Pattern
  BY <1>2 DEF GroundInv, Stores, Request
<1>4. \A x \in S : x \in Pattern /\ x.owner \in {req[r].conn, Shared}
  <2>1. S \subseteq ScopedPatterns(req[r].proc, req[r].conn)
    BY DEF Learned
  <2> HIDE DEF S
  <2> QED
    BY <1>3, <2>1, VisibleOwners DEF ScopedPatterns
<1> HIDE DEF S
<1>5. /\ w \in Request /\ w.conn = req[r].conn /\ w.chunks = req[r].chunks
      /\ w.examples = req[r].examples /\ w.patterns = S
      /\ w.lacked = req[r].lacked /\ w.at = "collect" /\ w.fellBack = req[r].fellBack
  BY <1>2, <1>4 DEF Request
<1> HIDE DEF w
<1>6. Scoped(w) /\ OwnFirst(w) /\ Aware(w)
  BY <1>1, <1>2, <1>4, <1>5 DEF Scoped, OwnFirst, Aware, InPrompt
<1> QED
  BY <1>1, <1>5, <1>6, Becoming DEF Sound, GroundInv

\* Training data does not read a request, nor does a request's end change its prompt.
LEMMA LearnTypes ==
    ASSUME training \in Seq(Row), NEW c \in Owners, NEW s \in Sqls, NEW good \in BOOLEAN,
           Learn(c, s, good)
    PROVE  training' \in Seq(Row)
<1>1. [owner |-> c, sql |-> s, good |-> good] \in Row
  BY DEF Row
<1> QED
  BY <1>1 DEF Learn

LEMMA CollectGrounded ==
    ASSUME GroundInv, NEW r \in Requests, Collect(r)
    PROVE  GroundInv'
<1> DEFINE w == [req[r] EXCEPT !.at = "done"]
<1>1. req' = [req EXCEPT ![r] = w] /\ req[r].at = "collect"
  BY DEF Collect, At
<1>2. UNCHANGED <<index, examples, patterns, report, reported, bounds>>
  BY DEF Collect
<1>3. req[r] \in Request /\ req[r].conn \in Owners
  BY DEF GroundInv, Requested, Request
<1>4. /\ w \in Request /\ w.conn = req[r].conn /\ w.chunks = req[r].chunks
      /\ w.examples = req[r].examples /\ w.patterns = req[r].patterns
      /\ w.lacked = req[r].lacked /\ w.fellBack = req[r].fellBack /\ w.at = "done"
  BY <1>3 DEF Request
<1>5. training' \in Seq(Row)
  BY <1>3, LearnTypes DEF Collect, GroundInv, Stores
<1> HIDE DEF w
<1>6. Requested'
  BY <1>1, <1>2, <1>4, Walking DEF GroundInv, InPrompt
<1>7. Stores' /\ PatternsKept'
  BY <1>2, <1>5 DEF GroundInv, Stores, PatternsKept, bounds
<1> QED
  BY <1>6, <1>7 DEF GroundInv

LEMMA GroundStep ==
    ASSUME GroundInv, NEW r \in Requests, Ground(r)
    PROVE  GroundInv'
<1>1. CASE Collect(r)
  BY <1>1, CollectGrounded
<1>2. CASE ~Collect(r)
  <2>1. Requested'
    BY <1>2, AskGrounded, ListGrounded, CountGrounded, SearchGrounded, SelectGrounded,
       FetchGrounded, ExpandGrounded, ExamplesGrounded, GenerateGrounded DEF Ground
  <2>2. UNCHANGED <<index, learned, bounds>>
    BY <1>2 DEF Ground, Ask, ListTables, CountChunks, SearchOne, SelectTables, FetchChunks,
       ExpandTables, StoreFails, SearchExamples, RecentExamples, Generate, UnchangedByRead
  <2>3. Stores' /\ PatternsKept'
    BY <2>2 DEF GroundInv, Stores, PatternsKept, learned, bounds
  <2> QED
    BY <2>1, <2>3 DEF GroundInv
<1> QED
  BY <1>1, <1>2

-----------------------------------------------------------------------------
(* The index changes under the requests. *)

\* A request of the connection whose chunks are dropped lacks, at this moment, every
\* table; the chunks of another are still there.
LEMMA DropStep ==
    ASSUME GroundInv, NEW o \in Owners, Drop(o)
    PROVE  GroundInv'
<1>1. /\ index' = {k \in index : k.owner # o} /\ writes' = writes + 1
      /\ req' = [r \in Requests |-> IF req[r].conn = o THEN [req[r] EXCEPT !.lacked = Tables]
                                    ELSE req[r]]
      /\ UNCHANGED <<learned, reports, faults>>
  BY DEF Drop, Write
<1>2. Stores' /\ PatternsKept'
  BY <1>1 DEF GroundInv, Stores, PatternsKept, learned
<1>3. ASSUME NEW r \in Requests
      PROVE  Sound(req[r])'
  <2>1. req[r] \in Request /\ Scoped(req[r]) /\ OwnFirst(req[r]) /\ Aware(req[r])
    BY DEF GroundInv, Requested, Sound
  <2>2. CASE req[r].conn = o
    <3> DEFINE w == [req[r] EXCEPT !.lacked = Tables]
    <3>1. req'[r] = w
      BY <1>1, <2>2
    <3>2. /\ w \in Request /\ w.at = req[r].at /\ w.conn = req[r].conn /\ w.lacked = Tables
          /\ w.chunks = req[r].chunks /\ w.examples = req[r].examples
          /\ w.patterns = req[r].patterns
      BY <2>1 DEF Request
    <3> HIDE DEF w
    <3>3. \A k \in w.chunks : k.table \in Tables
      BY <2>1, <3>2 DEF Request, Chunk
    <3> QED
      BY <2>1, <3>1, <3>2, <3>3 DEF Sound, Scoped, OwnFirst, Aware
  <2>3. CASE req[r].conn # o
    <3>1. req'[r] = req[r]
      BY <1>1, <2>3
    <3>2. \A t \in Tables : [owner |-> req[r].conn, table |-> t] \in index
                            => [owner |-> req[r].conn, table |-> t] \in index'
      BY <1>1, <2>3
    <3> QED
      BY <2>1, <3>1, <3>2 DEF Sound, Scoped, OwnFirst, Aware
  <2> QED
    BY <2>2, <2>3
<1>4. Requested'
  BY <1>1, <1>3 DEF Requested, Sound
<1> QED
  BY <1>2, <1>4 DEF GroundInv

LEMMA EmbedStep ==
    ASSUME GroundInv, NEW o \in Owners, NEW T \in SUBSET Tables, Embed(o, T)
    PROVE  GroundInv'
<1>1. /\ index' = index \cup [owner : {o}, table : T] /\ writes' = writes + 1
      /\ UNCHANGED <<learned, req, reports, faults>>
  BY DEF Embed, Write
<1>2. index' \subseteq Chunk
  BY <1>1 DEF GroundInv, Stores, Chunk
<1>3. Stores' /\ PatternsKept'
  BY <1>1, <1>2 DEF GroundInv, Stores, PatternsKept, learned
<1>4. \A r \in Requests : Aware(req[r])'
  BY <1>1 DEF GroundInv, Requested, Sound, Aware
<1>5. Requested'
  BY <1>1, <1>4 DEF GroundInv, Requested, Sound, Scoped, OwnFirst
<1> QED
  BY <1>3, <1>5 DEF GroundInv

-----------------------------------------------------------------------------
(* Feedback, and the end of a process. *)

\* Requests do not change, nor does the index.
LEMMA RequestedFrame ==
    ASSUME Requested, UNCHANGED <<index, req>>
    PROVE  Requested'
BY DEF Requested, Sound, Scoped, OwnFirst, Aware

\* The pattern of a complaint replaces only those that report the same statement on the
\* same connection.
LEMMA ComplainStep ==
    ASSUME GroundInv, NEW f \in Reports, NEW p \in Procs, NEW c \in Conns, NEW s \in Sqls,
           NEW fix \in Sqls \cup {NoFix}, Complain(f, p, c, s, fix)
    PROVE  GroundInv'
<1> DEFINE new == [owner |-> c, sql |-> s, fix |-> fix]
           kept == {x \in patterns[p] : PatternId(x) # PatternId(new)}
           then == IF fix = NoFix THEN report[f]
                   ELSE [at |-> "corrected", proc |-> p, conn |-> c, sql |-> fix]
<1>1. /\ patterns' = [patterns EXCEPT ![p] = kept \cup {new}]
      /\ reported' = [reported EXCEPT ![p] = @ \cup {<<c, Beginning[s]>>}]
      /\ report' = [report EXCEPT ![f] = then] /\ reports' = reports + 1
      /\ UNCHANGED <<index, training, examples, req, writes, faults>>
  BY DEF Complain, Begin
<1>2. new \in Pattern /\ Beginning[s] \in Sqls /\ kept \subseteq Pattern
  BY GroundingAssumption DEF Pattern, GroundInv, Stores
<1>3. then \in Report \cup {NoReport}
  BY DEF Report, GroundInv, Stores
<1>4. PatternId(new) = <<c, Beginning[s]>>
  BY DEF PatternId
<1> HIDE DEF then, new
<1>5. Stores'
  <2>1. patterns' \in [Procs -> SUBSET Pattern]
    BY <1>1, <1>2 DEF GroundInv, Stores
  <2>2. reported' \in [Procs -> SUBSET (Conns \X Sqls)]
    BY <1>1, <1>2 DEF GroundInv, Stores
  <2>3. report' \in [Reports -> Report \cup {NoReport}]
    BY <1>1, <1>3 DEF GroundInv, Stores
  <2> QED
    BY <1>1, <2>1, <2>2, <2>3 DEF GroundInv, Stores
<1>6. ASSUME NEW q \in Procs, NEW d \in Conns, NEW h \in Sqls, <<d, h>> \in reported'[q]
      PROVE  \E x \in patterns'[q] : x.owner = d /\ Beginning[x.sql] = h
  <2>1. new.owner = c /\ new.sql = s
    BY DEF new
  <2>2. CASE q = p /\ <<d, h>> = <<c, Beginning[s]>>
    <3>1. new \in patterns'[q]
      BY <1>1, <2>2 DEF GroundInv, Stores
    <3> QED
      BY <2>1, <2>2, <3>1
  <2>3. CASE q = p /\ <<d, h>> # <<c, Beginning[s]>>
    <3>1. <<d, h>> \in reported[p]
      BY <1>1, <1>6, <2>3 DEF GroundInv, Stores
    <3>2. PICK x \in patterns[p] : x.owner = d /\ Beginning[x.sql] = h
      BY <3>1 DEF GroundInv, PatternsKept
    <3>3. PatternId(x) = <<d, h>>
      BY <3>2 DEF PatternId
    <3>4. x \in patterns'[q]
      BY <1>1, <1>4, <2>3, <3>2, <3>3 DEF GroundInv, Stores
    <3> QED
      BY <3>2, <3>4
  <2>4. CASE q # p
    <3>1. patterns'[q] = patterns[q] /\ reported'[q] = reported[q]
      BY <1>1, <2>4 DEF GroundInv, Stores
    <3> QED
      BY <1>6, <3>1 DEF GroundInv, PatternsKept
  <2> QED
    BY <2>2, <2>3, <2>4
<1>7. PatternsKept'
  BY <1>6 DEF PatternsKept
<1>8. Requested'
  BY <1>1, RequestedFrame DEF GroundInv
<1> QED
  BY <1>5, <1>7, <1>8 DEF GroundInv

LEMMA ReportStep ==
    ASSUME GroundInv, NEW f \in Reports,
           \/ \E p \in Procs, c \in Conns, s \in Sqls : Approve(f, p, c, s)
           \/ StoreRow(f) \/ IndexExample(f)
    PROVE  GroundInv'
<1>1. UNCHANGED <<index, patterns, req, reported, writes, faults>>
  BY DEF Approve, StoreRow, IndexExample, bounds
<1>2. Requested' /\ PatternsKept'
  BY <1>1, RequestedFrame DEF GroundInv, PatternsKept
<1>3. report[f].at # "idle" => report[f] \in Report
  BY DEF GroundInv, Stores, NoReport
<1>4. ASSUME NEW p \in Procs, NEW c \in Conns, NEW s \in Sqls, Approve(f, p, c, s)
      PROVE  Stores'
  <2>1. [at |-> "approved", proc |-> p, conn |-> c, sql |-> s] \in Report
    BY DEF Report
  <2> QED
    BY <1>1, <1>4, <2>1 DEF Approve, Begin, GroundInv, Stores
<1>5. ASSUME StoreRow(f) PROVE Stores'
  <2>1. report[f] \in Report /\ report[f].conn \in Owners /\ report[f].sql \in Sqls
    BY <1>3, <1>5 DEF StoreRow, Report, Owners
  <2>2. training' \in Seq(Row)
    BY <1>5, <2>1, LearnTypes DEF StoreRow, GroundInv, Stores
  <2>3. [report[f] EXCEPT !.at = "index"] \in Report
    BY <2>1 DEF Report
  <2>4. report' \in [Reports -> Report \cup {NoReport}]
    BY <1>5, <2>3 DEF StoreRow, GroundInv, Stores
  <2> QED
    BY <1>1, <1>5, <2>2, <2>4 DEF StoreRow, GroundInv, Stores, bounds
<1>6. ASSUME IndexExample(f) PROVE Stores'
  <2>1. report[f] \in Report
    BY <1>3, <1>6 DEF IndexExample
  <2>2. [owner |-> report[f].conn, sql |-> report[f].sql] \in Example
    BY <2>1 DEF Report, Example, Owners
  <2>3. examples' \subseteq Example
    BY <1>6, <2>2 DEF IndexExample, GroundInv, Stores
  <2> QED
    BY <1>1, <1>6, <2>3 DEF IndexExample, GroundInv, Stores, bounds
<1> QED
  BY <1>2, <1>4, <1>5, <1>6 DEF GroundInv

LEMMA RestartStep ==
    ASSUME GroundInv, NEW p \in Procs, Restart(p)
    PROVE  GroundInv'
<1>1. /\ patterns' = [patterns EXCEPT ![p] = {}] /\ reported' = [reported EXCEPT ![p] = {}]
      /\ UNCHANGED <<index, training, examples, writes, reports>> /\ faults' = faults + 1
  BY DEF Restart
<1>2. report' \in [Reports -> Report \cup {NoReport}]
  BY DEF Restart, GroundInv, Stores
<1>3. Stores'
  BY <1>1, <1>2 DEF GroundInv, Stores
<1>4. PatternsKept'
  BY <1>1 DEF GroundInv, Stores, PatternsKept
<1>5. ASSUME NEW r \in Requests
      PROVE  req'[r] \in Request /\ Sound(req[r])'
  <2>1. req[r] \in Request /\ Scoped(req[r]) /\ OwnFirst(req[r]) /\ Aware(req[r])
    BY DEF GroundInv, Requested, Sound
  <2> DEFINE w == [req[r] EXCEPT !.at = "failed"]
  <2>2. req'[r] = req[r] \/ (req'[r] = w /\ req[r].at # "idle")
    BY DEF Restart
  <2>3. /\ w \in Request /\ w.at = "failed" /\ w.conn = req[r].conn /\ w.lacked = req[r].lacked
        /\ w.chunks = req[r].chunks /\ w.examples = req[r].examples
        /\ w.patterns = req[r].patterns
    BY <2>1 DEF Request
  <2> HIDE DEF w
  <2>4. CASE req'[r] = req[r]
    BY <1>1, <2>1, <2>4 DEF Sound, Scoped, OwnFirst, Aware
  <2>5. CASE req'[r] = w /\ req[r].at # "idle"
    BY <1>1, <2>1, <2>3, <2>5 DEF Sound, Scoped, OwnFirst, Aware, InPrompt
  <2> QED
    BY <2>2, <2>4, <2>5
<1>6. Requested'
  BY <1>5 DEF Restart, Requested
<1> QED
  BY <1>3, <1>4, <1>6 DEF GroundInv

\* The invariant of which the properties are consequences.
LEMMA GroundInvariant == Spec => []GroundInv
<1>1. GroundInv /\ [Next]_vars => GroundInv'
  <2> SUFFICES ASSUME GroundInv, [Next]_vars PROVE GroundInv'
    OBVIOUS
  <2>1. CASE UNCHANGED vars
    <3>1. Stores' /\ PatternsKept'
      BY <2>1 DEF vars, GroundInv, Stores, PatternsKept
    <3> QED
      BY <2>1, <3>1, RequestedFrame DEF vars, GroundInv
  <2>2. ASSUME NEW f \in Reports, Feedback(f) PROVE GroundInv'
    BY <2>2, ComplainStep, ReportStep DEF Feedback
  <2> QED
    BY <2>1, <2>2, GroundStep, DropStep, EmbedStep, RestartStep DEF Next
<1> QED
  BY <1>1, GroundInit, PTL DEF Spec

\* Every variable has its type: the invariant TypeOK.
THEOREM TypeCorrect == Spec => []TypeOK
<1>1. GroundInv => TypeOK
  BY DEF GroundInv, Stores, Requested, TypeOK
<1> QED
  BY <1>1, GroundInvariant, PTL

\* Whatever is written while a prompt is put together, no chunk, example or reported
\* mistake in it belongs to another connection: the invariant TenantScoped.
THEOREM TenantScopedHolds == Spec => []TenantScoped
<1>1. GroundInv => TenantScoped
  BY DEF GroundInv, Requested, Sound, Scoped, TenantScoped
<1> QED
  BY <1>1, GroundInvariant, PTL

\* The shared copy of a table is grounded only where the connection lacked its own at
\* some moment of the request: the invariant OwnElseShared.
THEOREM OwnElseSharedHolds == Spec => []OwnElseShared
<1>1. GroundInv => OwnElseShared
  BY DEF GroundInv, Requested, Sound, OwnFirst, OwnElseShared, InPrompt
<1> QED
  BY <1>1, GroundInvariant, PTL

\* A reported mistake is known until its process ends, whatever is reported after it:
\* the invariant PatternsKept.
THEOREM PatternsKeptHolds == Spec => []PatternsKept
<1>1. GroundInv => PatternsKept
  BY DEF GroundInv
<1> QED
  BY <1>1, GroundInvariant, PTL
============================================================================
