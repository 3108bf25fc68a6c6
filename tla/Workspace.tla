----------------------------- MODULE Workspace -----------------------------
(***************************************************************************)
(* What a user keeps: metrics, templates, dashboards with their widgets,   *)
(* saved queries, glossary entries, pinned tables, custom instructions,    *)
(* shared results, exports of all that and two checklists, and the starter *)
(* content that a first look at a list puts there.                         *)
(*                                                                         *)
(* A request is a transaction of two steps, what it loads and its commit;  *)
(* of a row it has loaded, the commit writes the columns it sets to        *)
(* another value than the one loaded, and it fails when the row is gone.   *)
(* A table that is only written has one step.  Left out: the caps on rows, *)
(* titles, tags and notes, time stamps, listings, and who owns a row.      *)
(***************************************************************************)
EXTENDS Integers, FiniteSets, Functions

CONSTANTS
    MaxRows,      \* bound: rows ever inserted; ids are given in this order
    Names,        \* bound: names are 1..Names
    Texts,        \* SQL and other contents
    Items,        \* entries of a checklist a user may tick
    SeedSize,     \* starter rows of a kind, named 1..SeedSize
    Requests,     \* slots for concurrent requests
    MaxRequests,  \* bound: requests
    StarterText, NoText

ASSUME WorkspaceAssumption ==
    /\ MaxRows \in Nat /\ MaxRequests \in Nat
    /\ Names \in Nat /\ SeedSize \in 1..Names
    /\ StarterText \in Texts /\ NoText \notin Texts

VARIABLES
    rows,       \* the rows, by id
    lists,      \* the checklists; markers of starter content are on "onboarding"
    req,        \* the requests under way
    created,    \* history: how often each starter row was inserted
    disturbed,  \* history: kinds whose seeding met another, a failure or a lost marker
    count

workspaceVars == <<rows, lists, req, created, disturbed, count>>

-----------------------------------------------------------------------------
Ids    == 1..MaxRows
Seeded == {"template", "metric", "schedule", "dashboard"}   \* kinds with starter content
Kinds  == Seeded \cup {"none", "widget", "glossary", "pin", "saved", "instructions",
                      "share", "job"}
Keyed  == {"metric", "glossary", "pin"}                     \* kinds whose name is unique
Checklists == {"tutorial", "onboarding"}

WorkspaceRow == [kind : Kinds, st : {"unborn", "row", "gone"}, name : 0..Names,
        text : Texts \cup {NoText},
        num : Nat,                        \* position of a widget, run_count of a saved query
        of : Ids \cup {0},                \* dashboard of a widget
        status : {"none", "revoked",      \* of a share; of an export:
                  "queued", "running", "done", "failed"},
        certified : BOOLEAN,
        vetted : Texts \cup {NoText},     \* history: the definition that was validated
        edited : BOOLEAN]                 \* history: ... and has been changed since

Unborn == [kind |-> "none", st |-> "unborn", name |-> 0, text |-> NoText, num |-> 0, of |-> 0,
           status |-> "none", certified |-> FALSE, vetted |-> NoText, edited |-> FALSE]

Checklist == [st : BOOLEAN, done : SUBSET (Items \cup Seeded)]

Request ==
    [at : {"idle", "seed", "open", "vet", "marking", "commit", "read", "write", "failing"},
     op : {"none", "seed", "mark", "certify", "uncertify", "text", "name", "move", "run",
           "delete", "duplicate", "widget", "reorder", "put", "tick", "reset", "revoke", "export"},
     kind : Kinds, k : Nat,                        \* what it seeds
     id : Ids \cup {0}, row : WorkspaceRow,        \* the row it has loaded
     text : Texts \cup {NoText}, num : Nat,        \* what it was given
     seen : SUBSET (Ids \X Nat),                   \* widgets loaded, with their positions
     order : SUBSET (Ids \X Nat),                  \* the order it was given
     list : Checklists, ticks : SUBSET Items, loaded : Checklist,
     stale : BOOLEAN]                              \* what it has loaded was changed since

Idle == [at |-> "idle", op |-> "none", kind |-> "none", k |-> 0, id |-> 0, row |-> Unborn,
         text |-> NoText, num |-> 0, seen |-> {}, order |-> {}, list |-> "onboarding",
         ticks |-> {}, loaded |-> [st |-> FALSE, done |-> {}], stale |-> FALSE]

Existing(kind) == {i \in Ids : rows[i].st = "row" /\ rows[i].kind = kind}
WidgetsOf(d)   == {w \in Existing("widget") : rows[w].of = d}
Shown(d)       == {<<w, rows[w].num>> : w \in WidgetsOf(d)}
Seen(q)        == {pair[1] : pair \in q.seen}
Made           == Cardinality({i \in Ids : rows[i].st # "unborn"})

Taken(kind, name, i) ==
    kind \in Keyed /\ \E j \in Existing(kind) \ {i} : rows[j].name = name

WorkspaceInit ==
    /\ rows = [i \in Ids |-> Unborn]
    /\ lists = [l \in Checklists |-> [st |-> FALSE, done |-> {}]]
    /\ req = [r \in Requests |-> Idle]
    /\ created = [d \in Seeded |-> [k \in 1..SeedSize |-> 0]]
    /\ disturbed = {}
    /\ count = 0

-----------------------------------------------------------------------------
Free(r) == req[r].at = "idle" /\ count < MaxRequests

Begin(r, request) ==
    /\ Free(r)
    /\ count' = count + 1
    /\ req' = [req EXCEPT ![r] = request]
    /\ UNCHANGED <<rows, lists, created, disturbed>>

Load(r, id, request) ==
    /\ rows[id].st = "row"
    /\ Begin(r, [request EXCEPT !.id = id, !.row = rows[id], !.seen = Shown(id)])

Goes(r, request) == req' = [req EXCEPT ![r] = request]

\* What others have loaded of the rows S, or of the dashboards these are on, is old.
Commits(r, request, S) ==
    req' = [q \in Requests |->
              IF q = r THEN request
              ELSE IF (req[q].id # 0 /\ req[q].id \in S \cup {rows'[i].of : i \in S})
                      \/ (req[q].op = "put" /\ \E i \in S : rows'[i].kind = "instructions")
              THEN [req[q] EXCEPT !.stale = TRUE] ELSE req[q]]

\* The rows inserted take the next ids.
Insert(new, n) ==
    /\ Made + n <= MaxRows
    /\ rows' = [i \in Ids |-> IF i \in (Made + 1)..(Made + n) THEN new[i - Made] ELSE rows[i]]

New(kind, name, text) == [Unborn EXCEPT !.kind = kind, !.st = "row", !.name = name, !.text = text]

Create(r, kind, name, text) ==
    /\ Free(r)
    /\ ~Taken(kind, name, 0)
    /\ Insert(<<New(kind, name, text)>>, 1)
    /\ count' = count + 1
    /\ UNCHANGED <<lists, req, created, disturbed>>

-----------------------------------------------------------------------------
(* Starter content: the marker is read, the rows are inserted and the marker is set
   in transactions of their own. *)

Overlaps(r, d) == \E q \in Requests \ {r} : req[q].kind = d

Seeding(r, d) ==
    /\ req' = [req EXCEPT ![r] = [Idle EXCEPT !.at = "seed", !.op = "seed", !.kind = d, !.k = 1]]
    /\ disturbed' = IF Overlaps(r, d) THEN disturbed \cup {d} ELSE disturbed

\* Mutant of List: the marker is not looked at.
ListUnmarked(r, d) ==
    /\ Free(r)
    /\ Seeding(r, d)
    /\ count' = count + 1
    /\ UNCHANGED <<rows, lists, created>>

List(r, d) ==
    /\ Free(r)
    /\ IF d \in lists["onboarding"].done THEN UNCHANGED <<req, disturbed>> ELSE Seeding(r, d)
    /\ count' = count + 1
    /\ UNCHANGED <<rows, lists, created>>

Starter(d, k) == New(d, k, IF d \in {"template", "metric"} THEN StarterText ELSE NoText)

\* All templates at once, of the other kinds one row at a time; a metric is certified.
Seed(r) ==
    LET q == req[r]
        n == IF q.kind = "template" THEN SeedSize ELSE 1
        last == q.k + n > SeedSize
    IN  /\ q.at = "seed" /\ ~Taken(q.kind, q.k, 0)
        /\ Insert([j \in 1..n |-> Starter(q.kind, q.k + j - 1)], n)
        /\ created' = [created EXCEPT ![q.kind] =
                          [k \in 1..SeedSize |-> @[k] + IF k \in q.k..(q.k + n - 1) THEN 1 ELSE 0]]
        /\ Goes(r, [q EXCEPT !.k = q.k + n, !.id = IF q.kind = "metric" THEN Made + 1 ELSE 0,
                             !.at = IF q.kind = "metric" THEN "open"
                                    ELSE IF last THEN "marking" ELSE "seed"])
        /\ UNCHANGED <<lists, disturbed, count>>

\* Refused or failed: logged, and the list is answered without its starter content.
SeedFails(r) ==
    /\ req[r].op \in {"seed", "mark"}
    /\ disturbed' = IF req[r].k > 1 THEN disturbed \cup {req[r].kind} ELSE disturbed
    /\ Goes(r, Idle)
    /\ UNCHANGED <<rows, lists, created, count>>

ReadMarkers(r) ==
    /\ req[r].at = "marking"
    /\ Goes(r, [req[r] EXCEPT !.at = "commit", !.op = "mark", !.loaded = lists["onboarding"]])
    /\ UNCHANGED <<rows, lists, created, disturbed, count>>

\* The whole list is written from the one loaded.
Writes(l, done) ==
    /\ lists' = [lists EXCEPT ![l] = [st |-> TRUE, done |-> done]]
    /\ disturbed' = disturbed \cup ((lists[l].done \cap Seeded) \ done)

Mark(r) ==
    LET q == req[r]
    IN  /\ q.at = "commit" /\ q.op = "mark" /\ (q.loaded.st \/ ~lists["onboarding"].st)
        /\ Writes("onboarding", q.loaded.done \cup {q.kind})
        /\ Goes(r, Idle)
        /\ UNCHANGED <<rows, created, count>>

-----------------------------------------------------------------------------
(* Checklists. *)

TickItems(r, l, S) ==
    Begin(r, [Idle EXCEPT !.at = "commit", !.op = "tick", !.list = l, !.ticks = S,
                          !.loaded = lists[l]])

\* A list that stays the same may be left alone.
CommitTicks(r) ==
    LET q == req[r]
    IN  /\ q.at = "commit" /\ q.op = "tick" /\ (q.loaded.st \/ ~lists[q.list].st)
        /\ \/ Writes(q.list, q.loaded.done \cup q.ticks)
           \/ q.loaded.st /\ q.ticks \subseteq q.loaded.done /\ UNCHANGED <<lists, disturbed>>
        /\ Goes(r, Idle)
        /\ UNCHANGED <<rows, created, count>>

ResetTutorial(r) ==
    /\ Free(r) /\ lists["tutorial"].st
    /\ Writes("tutorial", {})
    /\ count' = count + 1
    /\ UNCHANGED <<rows, req, created>>

-----------------------------------------------------------------------------
(* Changes of a row. *)

\* The commit of a request about a row that is still there.
Patch(r, row) ==
    LET q == req[r]
    IN  /\ q.at = "commit" /\ rows[q.id].st = "row"
        /\ rows' = [rows EXCEPT ![q.id] = row]
        /\ Commits(r, Idle, {q.id})
        /\ UNCHANGED <<lists, created, disturbed, count>>

UpdateText(r) ==
    LET q == req[r]
        row == rows[q.id]
    IN  /\ q.op = "text"
        /\ Patch(r, IF q.text = q.row.text THEN row
                    ELSE [row EXCEPT !.text = q.text, !.edited = @ \/ row.certified])

Rename(r) ==
    LET q == req[r]
    IN  /\ q.op = "name" /\ (q.num = q.row.name \/ ~Taken(q.row.kind, q.num, q.id))
        /\ Patch(r, [rows[q.id] EXCEPT !.name = IF q.num = q.row.name THEN @ ELSE q.num])

RunSaved(r) ==
    LET q == req[r]
    IN  /\ q.op = "run"
        /\ Patch(r, [rows[q.id] EXCEPT !.num = q.row.num + 1])

MoveWidget(r) ==
    LET q == req[r]
    IN  /\ q.op = "move"
        /\ Patch(r, [rows[q.id] EXCEPT !.num = IF q.num = q.row.num THEN @ ELSE q.num])

Uncertify(r) ==
    /\ req[r].op = "uncertify"
    /\ Patch(r, [rows[req[r].id] EXCEPT !.certified = @ /\ ~req[r].row.certified])

\* Mutant of Delete: the dashboard goes without its widgets.
DeleteUncascaded(r) ==
    LET q == req[r]
    IN  /\ q.at = "commit" /\ q.op = "delete"
        /\ rows' = [rows EXCEPT ![q.id].st = "gone"]
        /\ Commits(r, Idle, {q.id})
        /\ UNCHANGED <<lists, created, disturbed, count>>

\* A widget alone, or a dashboard with the widgets loaded, unless it has another by now.
Delete(r) ==
    LET q == req[r]
        S == {q.id} \cup Seen(q)
    IN  /\ q.at = "commit" /\ q.op = "delete" /\ WidgetsOf(q.id) \subseteq S
        /\ rows' = [i \in Ids |-> IF i \in S THEN [rows[i] EXCEPT !.st = "gone"] ELSE rows[i]]
        /\ Commits(r, Idle, S)
        /\ UNCHANGED <<lists, created, disturbed, count>>

-----------------------------------------------------------------------------
(* Certification: the definition is checked against the catalog between the load of
   the metric and its commit. *)

\* The metric a seeding has inserted.
Open(r) ==
    LET q == req[r]
    IN  /\ q.at = "open" /\ rows[q.id].st = "row"
        /\ Goes(r, [q EXCEPT !.at = "vet", !.row = rows[q.id], !.stale = FALSE])
        /\ UNCHANGED <<rows, lists, created, disturbed, count>>

\* Mutant of Vet: the metric goes on without the check of its definition.
VetSkipped(r) ==
    /\ req[r].at = "vet"
    /\ Goes(r, [req[r] EXCEPT !.at = "commit"])
    /\ UNCHANGED <<rows, lists, created, disturbed, count>>

Vet(r) ==
    /\ req[r].at = "vet"
    /\ Goes(r, [req[r] EXCEPT !.at = "commit", !.text = req[r].row.text])
    /\ UNCHANGED <<rows, lists, created, disturbed, count>>

Certify(r) ==
    LET q == req[r]
        row == rows[q.id]
    IN  /\ q.at = "commit" /\ q.op \in {"certify", "seed"} /\ row.st = "row"
        /\ rows' = [rows EXCEPT ![q.id] = [row EXCEPT !.certified = @ \/ ~q.row.certified,
                                                     !.vetted = q.text, !.edited = q.stale]]
        /\ Commits(r, IF q.op = "certify" THEN Idle
                      ELSE [Idle EXCEPT !.op = "seed", !.kind = q.kind, !.k = q.k,
                                        !.at = IF q.k > SeedSize THEN "marking" ELSE "seed"],
                   {q.id})
        /\ UNCHANGED <<lists, created, disturbed, count>>

-----------------------------------------------------------------------------
(* Dashboards and instructions. *)

NextPosition(seen) ==
    IF seen = {} THEN 0
    ELSE 1 + (CHOOSE n \in {p[2] : p \in seen} : \A p \in seen : p[2] <= n)

AddWidget(r) ==
    LET q == req[r]
    IN  /\ q.at = "commit" /\ q.op = "widget" /\ rows[q.id].st = "row"
        /\ Insert(<<[New("widget", 0, NoText) EXCEPT !.of = q.id,
                                                      !.num = NextPosition(q.seen)]>>, 1)
        /\ Commits(r, Idle, {Made + 1})
        /\ UNCHANGED <<lists, created, disturbed, count>>

\* Of the widgets that are in the order, those it moves are written.
ReorderWidgets(r) ==
    LET q == req[r]
        moved == {p \in q.order : p[1] \in Seen(q) /\ p \notin q.seen}
    IN  /\ q.at = "commit" /\ q.op = "reorder" /\ rows[q.id].st = "row"
        /\ \A p \in moved : rows[p[1]].st = "row"
        /\ rows' = [i \in Ids |-> IF \E p \in moved : p[1] = i
                                  THEN [rows[i] EXCEPT !.num = (CHOOSE p \in moved : p[1] = i)[2]]
                                  ELSE rows[i]]
        /\ Commits(r, Idle, {q.id} \cup Seen(q))
        /\ UNCHANGED <<lists, created, disturbed, count>>

\* A new dashboard with a copy of each widget loaded, at the same position.
Duplicate(r) ==
    LET q == req[r]
        n == Cardinality(q.seen)
    IN  /\ q.at = "commit" /\ q.op = "duplicate"
        /\ \E nth \in Bijection(1..n, q.seen) :
              Insert([j \in 1..(n + 1) |->
                        IF j = 1 THEN New("dashboard", q.row.name, NoText)
                        ELSE [New("widget", 0, NoText) EXCEPT !.of = Made + 1,
                                                              !.num = nth[j - 1][2]]],
                     n + 1)
        /\ Goes(r, Idle)
        /\ UNCHANGED <<lists, created, disturbed, count>>

\* With two rows of instructions the load fails.
PutInstructions(r, t) ==
    LET S == Existing("instructions")
    IN  Begin(r, IF Cardinality(S) > 1 THEN Idle
                 ELSE [Idle EXCEPT !.at = "commit", !.op = "put", !.text = t,
                                   !.id = IF S = {} THEN 0 ELSE CHOOSE i \in S : TRUE])

CommitPut(r) ==
    LET q == req[r]
    IN  /\ q.at = "commit" /\ q.op = "put"
        /\ IF q.id = 0 THEN Insert(<<New("instructions", 0, q.text)>>, 1)
           ELSE rows' = [rows EXCEPT ![q.id].text = q.text]
        /\ Commits(r, Idle, IF q.id = 0 THEN {Made + 1} ELSE {q.id})
        /\ UNCHANGED <<lists, created, disturbed, count>>

\* The row is gone, the name is taken, a checklist has been inserted, the dashboard has
\* a new widget, the definition does not pass.
RequestFails(r) ==
    LET q == req[r]
    IN  /\ \/ q.at = "vet" /\ q.op = "certify"
           \/ q.at = "commit" /\ q.id # 0 /\ rows[q.id].st = "gone" /\ q.op \notin {"delete", "seed", "duplicate"}
           \/ q.at = "commit" /\ q.op = "name" /\ Taken(q.row.kind, q.num, q.id)
           \/ q.at = "commit" /\ q.op = "tick" /\ ~q.loaded.st /\ lists[q.list].st
           \/ q.at = "commit" /\ q.op = "delete" /\ ~(WidgetsOf(q.id) \subseteq Seen(q))
           \/ q.at = "commit" /\ q.op = "reorder" /\ \E w \in Seen(q) : rows[w].st = "gone"
        /\ Goes(r, Idle)
        /\ UNCHANGED <<rows, lists, created, disturbed, count>>

-----------------------------------------------------------------------------
(* Shares, and exports: a task of its own runs an export after the response.  *)

\* A revoked share is revoked again.
Revoke(r) ==
    /\ req[r].op = "revoke"
    /\ Patch(r, [rows[req[r].id] EXCEPT !.status = "revoked"])

RequestExport(r) ==
    /\ Free(r)
    /\ Insert(<<[New("job", 0, NoText) EXCEPT !.status = "queued"]>>, 1)
    /\ Goes(r, [Idle EXCEPT !.at = "commit", !.op = "export", !.id = Made + 1])
    /\ count' = count + 1
    /\ UNCHANGED <<lists, created, disturbed>>

\* A transaction of the export sets the status of its job.
Report(r, status, next) ==
    /\ req[r].op = "export"
    /\ rows' = [rows EXCEPT ![req[r].id].status = status]
    /\ Goes(r, next)
    /\ UNCHANGED <<lists, created, disturbed, count>>

StartExport(r) ==
    /\ req[r].at = "commit"
    /\ Report(r, "running", [req[r] EXCEPT !.at = "read"])

\* Two rows of instructions fail every export.
ReadExport(r) ==
    /\ req[r].at = "read"
    /\ Goes(r, [req[r] EXCEPT !.at = IF Cardinality(Existing("instructions")) > 1
                                     THEN "failing" ELSE "write"])
    /\ UNCHANGED <<rows, lists, created, disturbed, count>>

WriteExport(r) == req[r].at = "write" /\ Report(r, "done", Idle)

\* The database, or the file system, fails.
ExportRaises(r) ==
    /\ req[r].at \in {"read", "write"}
    /\ Goes(r, [req[r] EXCEPT !.at = "failing"])
    /\ UNCHANGED <<rows, lists, created, disturbed, count>>

FailExport(r) == req[r].at = "failing" /\ Report(r, "failed", Idle)

\* The process ends, or the first or the last transaction fails: nobody takes the
\* job up again.
AbandonExport(r) ==
    /\ req[r].op = "export"
    /\ Goes(r, Idle)
    /\ UNCHANGED <<rows, lists, created, disturbed, count>>

-----------------------------------------------------------------------------
Commit(op) == [Idle EXCEPT !.at = "commit", !.op = op]

Orders(d) ==
    UNION {{{<<f[j], j - 1>> : j \in DOMAIN f} : f \in Bijection(1..Cardinality(S), S)}
           : S \in SUBSET WidgetsOf(d)}

Texted(r, kind) == \E n \in 1..Names, t \in Texts : Create(r, kind, n, t)
Named(r, kind)  == \E n \in 1..Names : Create(r, kind, n, NoText)

CreateTemplate(r)      == Texted(r, "template")
CreateMetric(r)        == Texted(r, "metric")
CreateGlossaryEntry(r) == Texted(r, "glossary")
CreateSavedQuery(r)    == Texted(r, "saved")
CreateDashboard(r)     == Named(r, "dashboard")
PinTable(r)            == Named(r, "pin")
CreateShare(r)         == Create(r, "share", 0, NoText)

\* A PATCH of a name or of a text.
Retitle(r, i, kind) ==
    rows[i].kind = kind /\ \E n \in 1..Names : Load(r, i, [Commit("name") EXCEPT !.num = n])
Rewrite(r, i, kind) ==
    rows[i].kind = kind /\ \E t \in Texts : Load(r, i, [Commit("text") EXCEPT !.text = t])

PatchTemplate(r, i)      == Retitle(r, i, "template") \/ Rewrite(r, i, "template")
UpdateMetric(r, i)       == Retitle(r, i, "metric") \/ Rewrite(r, i, "metric")
PatchGlossaryEntry(r, i) == Retitle(r, i, "glossary") \/ Rewrite(r, i, "glossary")
PatchSavedQuery(r, i)    == Retitle(r, i, "saved") \/ Rewrite(r, i, "saved")
RenameDashboard(r, i)    == Retitle(r, i, "dashboard")

Remove(r, i, kind) == rows[i].kind = kind /\ Load(r, i, Commit("delete"))

DeleteTemplate(r, i)      == Remove(r, i, "template")
DeleteMetric(r, i)        == Remove(r, i, "metric")
DeleteGlossaryEntry(r, i) == Remove(r, i, "glossary")
DeleteSavedQuery(r, i)    == Remove(r, i, "saved")
DeleteDashboard(r, i)     == Remove(r, i, "dashboard")
DeleteWidget(r, i)        == Remove(r, i, "widget")
UnpinTable(r, i)          == Remove(r, i, "pin")

RunSavedQuery(r, i) == i \in Existing("saved") /\ Load(r, i, Commit("run"))
UpdateWidget(r, i)  ==
    i \in Existing("widget") /\ \E n \in 0..1 : Load(r, i, [Commit("move") EXCEPT !.num = n])
RevokeShare(r, i)     == i \in Existing("share") /\ Load(r, i, Commit("revoke"))
UncertifyMetric(r, i) == i \in Existing("metric") /\ Load(r, i, Commit("uncertify"))
CertifyMetric(r, i)   ==
    i \in Existing("metric") /\ Load(r, i, [Idle EXCEPT !.at = "vet", !.op = "certify"])

OnDashboard(r, d) ==
    /\ d \in Existing("dashboard")
    /\ \/ Load(r, d, Commit("widget"))
       \/ Load(r, d, Commit("duplicate"))
       \/ \E o \in Orders(d) : Load(r, d, [Commit("reorder") EXCEPT !.order = o])

Ask(r) ==
    /\ Free(r)
    /\ \/ CreateTemplate(r) \/ CreateMetric(r) \/ CreateGlossaryEntry(r)
       \/ CreateSavedQuery(r) \/ CreateDashboard(r) \/ PinTable(r)
       \/ CreateShare(r) \/ RequestExport(r)
       \/ \E d \in Seeded : List(r, d)
       \/ \E l \in Checklists, S \in SUBSET Items : TickItems(r, l, S)
       \/ ResetTutorial(r)
       \/ \E t \in Texts : PutInstructions(r, t)
       \/ \E i \in Ids :
             \/ PatchTemplate(r, i) \/ UpdateMetric(r, i) \/ PatchGlossaryEntry(r, i)
             \/ PatchSavedQuery(r, i) \/ RenameDashboard(r, i)
             \/ DeleteTemplate(r, i) \/ DeleteMetric(r, i) \/ DeleteGlossaryEntry(r, i)
             \/ DeleteSavedQuery(r, i) \/ DeleteDashboard(r, i) \/ DeleteWidget(r, i)
             \/ UnpinTable(r, i) \/ RunSavedQuery(r, i) \/ UpdateWidget(r, i)
             \/ UncertifyMetric(r, i) \/ CertifyMetric(r, i) \/ OnDashboard(r, i)
             \/ RevokeShare(r, i)

Serve(r) ==
    \/ Seed(r) \/ SeedFails(r) \/ ReadMarkers(r) \/ Mark(r)
    \/ CommitTicks(r)
    \/ UpdateText(r) \/ Rename(r) \/ RunSaved(r) \/ MoveWidget(r) \/ Uncertify(r) \/ Delete(r)
    \/ Open(r) \/ Vet(r) \/ Certify(r)
    \/ AddWidget(r) \/ ReorderWidgets(r) \/ Duplicate(r) \/ CommitPut(r)
    \/ Revoke(r) \/ StartExport(r) \/ ReadExport(r) \/ WriteExport(r) \/ ExportRaises(r)
    \/ FailExport(r) \/ AbandonExport(r)
    \/ RequestFails(r)

WorkspaceNext == \E r \in Requests : Ask(r) \/ Serve(r)

WorkspaceSpec == WorkspaceInit /\ [][WorkspaceNext]_workspaceVars

-----------------------------------------------------------------------------
WorkspaceTypeOK ==
    /\ rows \in [Ids -> WorkspaceRow]
    /\ \A i, j \in Ids : i < j /\ rows[j].st # "unborn" => rows[i].st # "unborn"
    /\ \A w \in Existing("widget") : rows[w].of \in Existing("dashboard")
    /\ lists \in [Checklists -> Checklist]
    /\ req \in [Requests -> Request]
    /\ created \in [Seeded -> [1..SeedSize -> Nat]]
    /\ disturbed \subseteq Seeded
    /\ count \in Nat

\* A starter row is put into an account once, even when the user has deleted it, unless
\* two lists were opened at a time, a step of the seeding failed, or its marker was
\* overwritten by another change of the checklist.
SeededOnce ==
    \A d \in Seeded \ disturbed, k \in 1..SeedSize : created[d][k] <= 1

\* The definition of a certified metric is the one that was checked against the
\* catalog, unless it was edited meanwhile or afterwards: an edit keeps the certificate.
CertifiedChecked ==
    \A m \in Existing("metric") :
        rows[m].certified /\ ~rows[m].edited => rows[m].vetted = rows[m].text
=============================================================================
