-------------------------- MODULE UserData_proofs --------------------------
(***************************************************************************)
(* Proofs about what a user has: UserData, for any users, sessions,        *)
(* messages and processes, any pool size, retention periods, digest        *)
(* interval and bounds, and Workspace, for any names, texts, checklist     *)
(* items, requests and starter rows and any bounds.  The two share no      *)
(* state and no constant.                                                  *)
(***************************************************************************)
EXTENDS UserData, Workspace, FiniteSetTheorems, WellFoundedInduction, TLAPS

LEMMA WorkTypes ==
    /\ Asleep \in Work /\ [Asleep EXCEPT !.at = "down"] \in Work
    /\ \A w \in Work :
          /\ [Asleep EXCEPT !.job = w.job, !.at = "unlock"] \in Work
          /\ [Asleep EXCEPT !.job = Following[w.job]] \in Work
          /\ [w EXCEPT !.at = "list"] \in Work
          /\ \A U \in SUBSET Users :
                /\ [w EXCEPT !.at = "run", !.todo = U] \in Work
                /\ [w EXCEPT !.todo = U] \in Work
                /\ \A V \in SUBSET Users : [w EXCEPT !.todo = U, !.done = V] \in Work
                /\ [w EXCEPT !.at = "run", !.done = U] \in Work
                /\ \A V \in SUBSET Users :
                      [w EXCEPT !.at = "mark", !.todo = U, !.done = V] \in Work
<1>1. Forever \in Settings
  BY DEF Settings
<1>2. Asleep \in Work
  BY <1>1 DEF Asleep, Work, Jobs
<1>3. \A j \in Jobs : Following[j] \in Jobs
  BY DEF Following, Jobs
<1> QED
  BY <1>2, <1>3 DEF Work, Asleep

LEMMA LockTypes ==
    ASSUME NEW table \in LockTables(Conns), NEW c \in Conns
    PROVE  /\ Locked(table, c) \in LockTables(Conns)
           /\ Unlocked(table, c) \in LockTables(Conns)
           /\ Dropped(table, c) \in LockTables(Conns)
BY DEF LockTables, Locked, Unlocked, Dropped

LEMMA RowTypes ==
    /\ \A st \in {"unborn", "gone"} : NoRow(st) \in Row
    /\ \A s \in Sessions : now \in Nat => Written(s) \in Row
BY DEF NoRow, Written, Row

-----------------------------------------------------------------------------
\* Type correctness of UserData, the invariant TypeOK.
LEMMA TypeInit == Init => TypeOK
<1> SUFFICES ASSUME Init PROVE TypeOK
  OBVIOUS
<1>1. prefs \in [Users -> [digest : BOOLEAN, last : Nat \cup {Never}]]
  BY DEF Init
<1>2. messages \in [Messages -> Row]
  <2>1. {NoRow("unborn")} \cup
           {Written(s) : s \in {t \in Sessions : sessions[t] # NoUser}} \subseteq Row
    BY RowTypes DEF Init
  <2> QED
    BY <2>1 DEF Init
<1>3. locks \in [Jobs -> LockTables(Conns)]
  BY DEF Init, NoLock, LockTables
<1>4. work \in [Procs -> Work]
  BY WorkTypes DEF Init
<1> QED
  BY <1>1, <1>2, <1>3, <1>4 DEF Init, TypeOK

\* Each step writes work with one of these.
LEMMA TypeStep == TypeOK /\ [Next]_vars => TypeOK'
<1> SUFFICES ASSUME TypeOK, [Next]_vars PROVE TypeOK'
  OBVIOUS
<1> USE DEF TypeOK
<1>1. CASE Tick
  BY <1>1 DEF Tick, settings, chat, history
<1>2. ASSUME NEW u \in Users, NEW s \in Sessions, CreateSession(u, s) PROVE TypeOK'
  BY <1>2 DEF CreateSession, Edit, UnchangedByChat, settings, history
<1>3. ASSUME NEW s \in Sessions, NEW m \in Messages, AddMessage(s, m) PROVE TypeOK'
  BY <1>3, RowTypes DEF AddMessage, Edit, UnchangedByChat, settings, history
<1>4. ASSUME NEW s \in Sessions, DeleteSession(s) PROVE TypeOK'
  BY <1>4 DEF DeleteSession, Edit, UnchangedByChat, settings, history
<1>5. ASSUME NEW u \in Users, DeleteAllSessions(u) PROVE TypeOK'
  <2>1. messages' \in [Messages -> Row]
    BY <1>5, RowTypes DEF DeleteAllSessions, Without
  <2> QED
    BY <1>5, <2>1 DEF DeleteAllSessions, Edit, UnchangedByChat, settings, history
<1>6. ASSUME NEW u \in Users, ClearHistory(u) PROVE TypeOK'
  <2>1. messages' \in [Messages -> Row]
    BY <1>6 DEF ClearHistory, Row
  <2> QED
    BY <1>6, <2>1 DEF ClearHistory, Edit, UnchangedByChat, settings, history
<1>7. ASSUME NEW m \in Messages, SaveVersion(m) PROVE TypeOK'
  BY <1>7 DEF SaveVersion, Edit, UnchangedByChat, settings, history
<1>8. ASSUME NEW u \in Users, NEW w \in Settings, UpdateRetention(u, w) PROVE TypeOK'
  BY <1>8 DEF UpdateRetention, Edit, UnchangedBySettings, chat, history
<1>9. ASSUME NEW u \in Users, NEW on \in BOOLEAN, SetDigest(u, on) PROVE TypeOK'
  <2>1. prefs' \in [Users -> [digest : BOOLEAN, last : Nat \cup {Never}]]
    BY <1>9 DEF SetDigest
  <2> QED
    BY <1>9, <2>1 DEF SetDigest, Edit, UnchangedBySettings, chat, history
<1>10. ASSUME NEW u \in Users, RequestDeletion(u) \/ CancelDeletion(u) PROVE TypeOK'
  <2>1. deletion' \in [Users -> [status : {"none", "scheduled", "cancelled", "purged"},
                                 due : Nat]]
    <3>1. \/ deletion' = [deletion EXCEPT ![u] = [status |-> "scheduled", due |-> now + Grace]]
          \/ deletion' = [deletion EXCEPT ![u] = [deletion[u] EXCEPT !.status = "cancelled"]]
      BY <1>10 DEF RequestDeletion, CancelDeletion
    <3>2. now + Grace \in Nat
      BY ConstantsAssumption
    <3> QED
      BY <3>1, <3>2
  <2> QED
    BY <1>10, <2>1
    DEF RequestDeletion, CancelDeletion, Edit, UnchangedBySettings, chat, history
<1>11. ASSUME NEW p \in Procs, NEW c \in ConnsOf(p), TryLock(p, c) \/ Unlock(p, c)
       PROVE  TypeOK'
  <2>1. c \in Conns /\ work[p] \in Work /\ work[p].job \in Jobs
    BY DEF ConnsOf, Conns, Work
  <2> DEFINE j == work[p].job
  <2>2. locks' \in [Jobs -> LockTables(Conns)]
    <3>1. /\ locks[j] \in LockTables(Conns)
          /\ Locked(locks[j], c) \in LockTables(Conns)
          /\ Unlocked(locks[j], c) \in LockTables(Conns)
      BY <2>1, LockTypes
    <3>2. \/ locks' = locks
          \/ locks' = [locks EXCEPT ![j] = Locked(locks[j], c)]
          \/ locks' = [locks EXCEPT ![j] = Unlocked(locks[j], c)]
      BY <1>11 DEF TryLock, Unlock
    <3> QED
      BY <3>1, <3>2
  <2>3. work' \in [Procs -> Work]
    BY <1>11, <2>1, WorkTypes DEF TryLock, Unlock, NextJob
  <2> QED
    BY <1>11, <2>2, <2>3 DEF TryLock, Unlock, settings, chat, history, world
<1>12. ASSUME NEW p \in Procs, LockUnavailable(p) \/ JobFails(p) PROVE TypeOK'
  <2>1. work' \in [Procs -> Work]
    <3>1. \/ work' = [work EXCEPT ![p] = [work[p] EXCEPT !.at = "list"]]
          \/ work' = [work EXCEPT ![p] = Leaving(p)]
      BY <1>12 DEF LockUnavailable, JobFails
    <3>2. [work[p] EXCEPT !.at = "list"] \in Work /\ Leaving(p) \in Work
      BY WorkTypes DEF Leaving
    <3> QED
      BY <3>1, <3>2
  <2> QED
    BY <1>12, <2>1 DEF LockUnavailable, JobFails, settings, chat, history
<1>13. ASSUME NEW p \in Procs, EndJob(p) PROVE TypeOK'
  <2>1. work' \in [Procs -> Work]
    BY <1>13, WorkTypes DEF EndJob, Leaving
  <2>2. deletion' \in [Users -> [status : {"none", "scheduled", "cancelled", "purged"},
                                 due : Nat]]
    BY <1>13 DEF EndJob
  <2> QED
    BY <1>13, <2>1, <2>2 DEF EndJob, chat, history, world
<1>14. ASSUME NEW p \in Procs, ListDeletions(p) \/ ListRetention(p) \/ ListDigests(p)
       PROVE  TypeOK'
  <2>1. CASE ListDeletions(p)
    <3>1. PICK U \in SUBSET Users : work' = [work EXCEPT ![p] = Listed(p, U)]
      BY <2>1 DEF ListDeletions
    <3>2. work' \in [Procs -> Work]
      BY <3>1, WorkTypes DEF Listed
    <3> QED
      BY <2>1, <3>2 DEF ListDeletions, settings, chat, history, world
  <2>2. CASE ListRetention(p)
    <3>1. PICK U \in SUBSET Users :
             work' = [work EXCEPT ![p] = [Listed(p, U) EXCEPT !.seen = retention]]
      BY <2>2 DEF ListRetention
    <3>2. Listed(p, U) \in Work
      BY WorkTypes DEF Listed
    <3>3. [Listed(p, U) EXCEPT !.seen = retention] \in Work
      BY <3>2 DEF Work
    <3>4. work' \in [Procs -> Work]
      BY <3>1, <3>3
    <3> QED
      BY <2>2, <3>4 DEF ListRetention, settings, chat, history, world
  <2>3. CASE ListDigests(p)
    <3>1. PICK U \in SUBSET Users :
             work' = [work EXCEPT ![p] = [Listed(p, U) EXCEPT !.start = now]]
      BY <2>3 DEF ListDigests
    <3>2. Listed(p, U) \in Work
      BY WorkTypes DEF Listed
    <3>3. [Listed(p, U) EXCEPT !.start = now] \in Work
      BY <3>2 DEF Work
    <3>4. work' \in [Procs -> Work]
      BY <3>1, <3>3
    <3>5. overlap' \subseteq Procs
      BY <2>3 DEF ListDigests
    <3> QED
      BY <2>3, <3>4, <3>5 DEF ListDigests, settings, chat, history, world
  <2> QED
    BY <1>14, <2>1, <2>2, <2>3
<1>15. ASSUME NEW p \in Procs, NEW u \in Users, HardDelete(p, u) PROVE TypeOK'
  <2>1. work[p].todo \ {u} \in SUBSET Users /\ work[p].done \in SUBSET Users
    BY DEF Work
  <2>2. work' \in [Procs -> Work]
    BY <1>15, <2>1, WorkTypes DEF HardDelete
  <2> QED
    BY <1>15, <2>2 DEF HardDelete, chat, history, world
<1>16. ASSUME NEW p \in Procs, NEW u \in Users, PurgeHistory(p, u) PROVE TypeOK'
  <2>1. work[p].todo \ {u} \in SUBSET Users
    BY DEF Work
  <2>2. work' \in [Procs -> Work]
    BY <1>16, <2>1, WorkTypes DEF PurgeHistory, Leaving
  <2>3. messages' \in [Messages -> Row]
    BY <1>16, RowTypes DEF PurgeHistory, Without
  <2> QED
    BY <1>16, <2>2, <2>3 DEF PurgeHistory, settings, history, world
<1>17. ASSUME NEW p \in Procs, NEW u \in Users, SkipDigest(p, u) \/ SendDigest(p, u)
       PROVE  TypeOK'
  <2>1. work[p].todo \ {u} \in SUBSET Users /\ work[p].start \in Nat
    BY DEF Work
  <2>2. work' \in [Procs -> Work]
    <3>1. \/ work' = [work EXCEPT ![p] = [work[p] EXCEPT !.todo = @ \ {u}]]
          \/ work' = [work EXCEPT ![p] = [work[p] EXCEPT !.at = "mark", !.todo = @ \ {u},
                                                        !.done = {u}]]
      BY <1>17 DEF SkipDigest, SendDigest
    <3>2. /\ [work[p] EXCEPT !.todo = @ \ {u}] \in Work
          /\ [work[p] EXCEPT !.at = "mark", !.todo = @ \ {u}, !.done = {u}] \in Work
      BY <2>1 DEF Work
    <3> QED
      BY <3>1, <3>2
  <2> QED
    BY <1>17, <2>1, <2>2 DEF SkipDigest, SendDigest, settings, chat, history, world
<1>18. ASSUME NEW p \in Procs, MarkDigest(p) \/ MarkFails(p) PROVE TypeOK'
  <2>1. work' \in [Procs -> Work]
    <3>1. work' = [work EXCEPT ![p] = [work[p] EXCEPT !.at = "run", !.done = {}]]
      BY <1>18 DEF MarkDigest, MarkFails
    <3>2. [work[p] EXCEPT !.at = "run", !.done = {}] \in Work
      BY DEF Work
    <3> QED
      BY <3>1, <3>2
  <2>2. prefs' \in [Users -> [digest : BOOLEAN, last : Nat \cup {Never}]]
    <3>1. \/ prefs' = prefs
          \/ prefs' = [prefs EXCEPT ![Sent(p)].last = work[p].start]
      BY <1>18 DEF MarkDigest, MarkFails, settings
    <3>2. work[p].start \in Nat
      BY DEF Work
    <3> QED
      BY <3>1, <3>2
  <2> QED
    BY <1>18, <2>1, <2>2 DEF MarkDigest, MarkFails, settings, chat, history, world, Work
<1>19. ASSUME NEW c \in Conns, CloseConnection(c) PROVE TypeOK'
  BY <1>19, LockTypes DEF CloseConnection, settings, chat, history, world
<1>20. ASSUME NEW p \in Procs, Crash(p) \/ Restart(p) PROVE TypeOK'
  <2>1. work' \in [Procs -> Work]
    BY <1>20, WorkTypes DEF Crash, Restart
  <2>2. locks' \in [Jobs -> LockTables(Conns)]
    BY <1>20 DEF Crash, Restart, LockTables
  <2> QED
    BY <1>20, <2>1, <2>2 DEF Crash, Restart, settings, chat, history, world, Work
<1>21. CASE UNCHANGED vars
  BY <1>21 DEF vars
<1> QED
  BY <1>1, <1>2, <1>3, <1>4, <1>5, <1>6, <1>7, <1>8, <1>9, <1>10, <1>11, <1>12, <1>13,
     <1>14, <1>15, <1>16, <1>17, <1>18, <1>19, <1>20, <1>21
  DEF Next, Chat, Choose, Loop, Fault

\* Every reachable state of UserData is well typed.
THEOREM TypeCorrect == Spec => []TypeOK
BY TypeInit, TypeStep, PTL DEF Spec

-----------------------------------------------------------------------------
(* What is removed: an action property, by cases on the steps that write       *)
(* messages.                                                                   *)

LEMMA RemovalStep ==
    ASSUME TypeOK, [Next]_vars, NEW m \in Messages, Stored(m), ~Stored(m)'
    PROVE  LET u == sessions[messages[m].session]
           IN  \/ DeleteAllSessions(u)
               \/ \E p \in Procs : /\ In(p, "retention", "run") /\ u \in work[p].todo
                                   /\ messages[m].at < now - work[p].seen[u]
<1> DEFINE u == sessions[messages[m].session]
<1>1. messages' # messages
  BY DEF Stored
<1>2. ASSUME NEW s \in Sessions, NEW k \in Messages, AddMessage(s, k) PROVE FALSE
  BY <1>2 DEF AddMessage, Stored, Written, TypeOK
<1>3. ASSUME NEW v \in Users, ClearHistory(v) PROVE FALSE
  <2>1. messages'[m].st = messages[m].st
    BY <1>3 DEF ClearHistory, TypeOK, Row
  <2> QED
    BY <2>1 DEF Stored
<1>4. ASSUME NEW v \in Users, DeleteAllSessions(v) PROVE v = u
  <2>1. m \in MessagesOf(v)
    BY <1>4 DEF DeleteAllSessions, Without, Stored
  <2> QED
    BY <2>1 DEF MessagesOf, Within, SessionsOf
<1>5. ASSUME NEW p \in Procs, NEW v \in Users, PurgeHistory(p, v)
      PROVE  /\ In(p, "retention", "run") /\ u \in work[p].todo
             /\ messages[m].at < now - work[p].seen[u]
  <2>1. m \in OlderThan(v, work[p].seen[v])
    BY <1>1, <1>5 DEF PurgeHistory, Without, Stored
  <2>2. v = u /\ messages[m].at < now - work[p].seen[v]
    BY <2>1 DEF OlderThan, MessagesOf, Within, SessionsOf
  <2> QED
    BY <1>5, <2>2 DEF PurgeHistory
<1>6. \/ \E s \in Sessions, k \in Messages : AddMessage(s, k)
      \/ \E v \in Users : ClearHistory(v) \/ DeleteAllSessions(v)
      \/ \E p \in Procs, v \in Users : PurgeHistory(p, v)
  <2>1. ASSUME Tick \/ Choose \/ \E c \in Conns : CloseConnection(c) PROVE FALSE
    BY <1>1, <2>1
    DEF Tick, Choose, CloseConnection, UpdateRetention, SetDigest, RequestDeletion,
        CancelDeletion, UnchangedBySettings, chat
  <2>2. ASSUME NEW p \in Procs, Fault(p) PROVE FALSE
    BY <1>1, <2>2 DEF Fault, LockUnavailable, JobFails, MarkFails, Crash, Restart, chat
  <2>3. ASSUME NEW p \in Procs, Loop(p), \A v \in Users : ~PurgeHistory(p, v) PROVE FALSE
    BY <1>1, <2>3
    DEF Loop, EndJob, MarkDigest, ListDeletions, ListRetention, ListDigests, TryLock,
        Unlock, HardDelete, SkipDigest, SendDigest, chat
  <2>4. ASSUME NEW v \in Users, NEW s \in Sessions, CreateSession(v, s) \/ DeleteSession(s)
        PROVE FALSE
    BY <1>1, <2>4 DEF CreateSession, DeleteSession
  <2>5. ASSUME NEW k \in Messages, SaveVersion(k) PROVE FALSE
    BY <1>1, <2>5 DEF SaveVersion
  <2>6. ASSUME NEW s \in Sessions, DeleteSession(s) PROVE FALSE
    BY <1>1, <2>6 DEF DeleteSession
  <2>7. ~UNCHANGED vars
    BY <1>1 DEF vars, chat
  <2> QED
    BY <2>1, <2>2, <2>3, <2>4, <2>5, <2>6, <2>7 DEF Next, Chat
<1> QED
  BY <1>2, <1>3, <1>4, <1>5, <1>6

\* A message its user did not delete is removed only past the retention window its
\* cycle read, whatever else runs.
THEOREM RetentionKeepsRecentHolds == Spec => RetentionKeepsRecent
<1>1. TypeOK /\ [Next]_vars =>
        [\A m \in Messages :
          LET u == sessions[messages[m].session]
          IN  Stored(m) /\ ~Stored(m)' =>
                \/ DeleteAllSessions(u)
                \/ \E p \in Procs : /\ In(p, "retention", "run") /\ u \in work[p].todo
                                    /\ messages[m].at < now - work[p].seen[u]]_vars
  BY RemovalStep
<1> QED
  BY <1>1, TypeCorrect, PTL DEF Spec, RetentionKeepsRecent

-----------------------------------------------------------------------------
(* The cadence of the digest.                                                  *)

\* Who is about to be marked, which cycles met, what the mark of a user says of the
\* last mail, and what a cycle that met no other may still send.
MarkNamesOne ==
    \A p \in Procs : At(p, "mark") =>
        work[p].job = "digest" /\ \E u \in Users : work[p].done = {u}

MeetingsNoted ==
    \A p, q \in Procs : p # q /\ InDigest(p) /\ InDigest(q) => p \in overlap

MarksFollow ==
    \A u \in Users \ doubtful :
        \/ mailed[u] = Never \/ mailed[u] = prefs[u].last
        \/ \E p \in Procs : At(p, "mark") /\ work[p].done = {u}

MarksTrue ==
    \A u \in Users \ doubtful : \A p \in Procs :
        At(p, "mark") /\ work[p].done = {u} => mailed[u] = work[p].start

TodoDue ==
    \A p \in Procs \ overlap : \A u \in work[p].todo \ doubtful :
        InDigest(p) => mailed[u] = Never \/ mailed[u] < work[p].start - Interval

DigestInv == MarkNamesOne /\ MeetingsNoted /\ MarksFollow /\ MarksTrue /\ TodoDue

\* A step that no digest takes part in.
LEMMA DigestFrame ==
    ASSUME DigestInv, UNCHANGED <<work, mailed, doubtful, overlap>>,
           \A u \in Users : prefs'[u].last = prefs[u].last
    PROVE  DigestInv'
<1>1. \A p \in Procs : /\ InDigest(p)' = InDigest(p)
                       /\ At(p, "mark")' = At(p, "mark")
  BY DEF InDigest, At
<1> QED
  BY <1>1 DEF DigestInv, MarkNamesOne, MeetingsNoted, MarksFollow, MarksTrue, TodoDue

\* A process leaves the digest, or stays out of it.
LEMMA DigestLeft ==
    ASSUME TypeOK, DigestInv, NEW p \in Procs, NEW w \in Work,
           work' = [work EXCEPT ![p] = w],
           w.at \notin {"run", "mark"} \/ (w.job # "digest" /\ w.at # "mark"),
           UNCHANGED <<mailed, overlap, prefs>>, doubtful \subseteq doubtful',
           At(p, "mark") => work[p].done \subseteq doubtful'
    PROVE  DigestInv'
<1>1. work'[p] = w /\ \A q \in Procs \ {p} : work'[q] = work[q]
  BY DEF TypeOK
<1>2. ~InDigest(p)' /\ ~At(p, "mark")'
  BY <1>1 DEF InDigest, At
<1>3. \A q \in Procs \ {p} : /\ InDigest(q)' = InDigest(q)
                             /\ At(q, "mark")' = At(q, "mark")
  BY <1>1 DEF InDigest, At
<1>4. MarkNamesOne' /\ MeetingsNoted'
  BY <1>1, <1>2, <1>3 DEF DigestInv, MarkNamesOne, MeetingsNoted
<1>5. MarksFollow'
  <2> SUFFICES ASSUME NEW u \in Users \ doubtful'
               PROVE  \/ mailed[u] = Never \/ mailed[u] = prefs[u].last
                      \/ \E q \in Procs : At(q, "mark")' /\ work'[q].done = {u}
    BY DEF MarksFollow
  <2>1. ASSUME NEW q \in Procs, At(q, "mark"), work[q].done = {u}
        PROVE  At(q, "mark")' /\ work'[q].done = {u}
    BY <1>1, <1>3, <2>1
  <2> QED
    BY <2>1 DEF DigestInv, MarksFollow
<1>6. MarksTrue' /\ TodoDue'
  BY <1>1, <1>2, <1>3 DEF DigestInv, MarksTrue, TodoDue
<1> QED
  BY <1>4, <1>5, <1>6 DEF DigestInv

LEMMA EntryTypes ==
    ASSUME TypeOK, NEW p \in Procs
    PROVE  /\ [work[p] EXCEPT !.at = "list"] \in Work
           /\ [work[p] EXCEPT !.at = "list"].at = "list"
           /\ NextJob(p) \in Work /\ NextJob(p).at = "try"
           /\ Leaving(p) \in Work /\ Leaving(p).at = "unlock"
           /\ Leaving(p).job = work[p].job
<1>1. work[p] \in Work
  BY DEF TypeOK
<1>2. [work[p] EXCEPT !.at = "list"] \in Work /\ NextJob(p) \in Work /\ Leaving(p) \in Work
  BY <1>1, WorkTypes DEF NextJob, Leaving
<1>3. [work[p] EXCEPT !.at = "list"].at = "list"
  BY <1>1 DEF Work
<1>4. NextJob(p).at = "try" /\ Leaving(p).at = "unlock" /\ Leaving(p).job = work[p].job
  BY DEF NextJob, Leaving, Asleep
<1> QED
  BY <1>2, <1>3, <1>4

LEMMA DigestInit == Init => DigestInv
<1> SUFFICES ASSUME Init PROVE DigestInv
  OBVIOUS
<1>1. \A p \in Procs : work[p] = Asleep /\ Asleep.at = "try"
  BY DEF Init, Asleep
<1>2. \A p \in Procs : ~At(p, "mark") /\ ~InDigest(p)
  BY <1>1 DEF At, InDigest
<1>3. \A u \in Users : mailed[u] = Never
  BY DEF Init
<1> QED
  BY <1>2, <1>3
  DEF DigestInv, MarkNamesOne, MeetingsNoted, MarksFollow, MarksTrue, TodoDue

\* A cycle that has its candidates goes on with one of its steps: the other
\* processes stand where they stood.
LEMMA DigestStands ==
    ASSUME TypeOK, DigestInv, NEW p \in Procs, NEW w \in Work,
           work' = [work EXCEPT ![p] = w], InDigest(p), w.job = "digest",
           w.at \in {"run", "mark"}, w.start = work[p].start, w.todo \subseteq work[p].todo,
           UNCHANGED overlap
    PROVE  /\ work'[p] = w /\ \A q \in Procs \ {p} : work'[q] = work[q]
           /\ \A q \in Procs : InDigest(q)' = InDigest(q)
           /\ \A q \in Procs \ {p} : At(q, "mark")' = At(q, "mark")
           /\ At(p, "mark")' = (w.at = "mark")
           /\ MeetingsNoted'
<1>1. work'[p] = w /\ \A q \in Procs \ {p} : work'[q] = work[q]
  BY DEF TypeOK
<1>2. \A q \in Procs : InDigest(q)' = InDigest(q)
  BY <1>1 DEF InDigest
<1>3. /\ \A q \in Procs \ {p} : At(q, "mark")' = At(q, "mark")
      /\ At(p, "mark")' = (w.at = "mark")
  BY <1>1 DEF At
<1> QED
  BY <1>1, <1>2, <1>3 DEF DigestInv, MeetingsNoted

LEMMA DigestSkips ==
    ASSUME TypeOK, DigestInv, NEW p \in Procs, NEW u \in Users, SkipDigest(p, u)
    PROVE  DigestInv'
<1> DEFINE w == [work[p] EXCEPT !.todo = @ \ {u}]
<1>1. /\ work[p] \in Work /\ work' = [work EXCEPT ![p] = w]
      /\ work[p].job = "digest" /\ work[p].at = "run"
      /\ UNCHANGED <<mailed, doubtful, overlap, prefs>>
  BY DEF SkipDigest, In, TypeOK, history, settings
<1>2. /\ w \in Work /\ w.job = "digest" /\ w.at = "run" /\ w.start = work[p].start
      /\ w.todo \subseteq work[p].todo /\ w.done = work[p].done
  BY <1>1 DEF Work
<1>3. InDigest(p) /\ ~At(p, "mark")
  BY <1>1 DEF InDigest, At
<1> HIDE DEF w
<1>4. /\ work'[p] = w /\ \A q \in Procs \ {p} : work'[q] = work[q]
      /\ \A q \in Procs : InDigest(q)' = InDigest(q)
      /\ \A q \in Procs \ {p} : At(q, "mark")' = At(q, "mark")
      /\ ~At(p, "mark")' /\ MeetingsNoted'
  BY <1>1, <1>2, <1>3, DigestStands
<1>5. MarkNamesOne' /\ MarksTrue' /\ TodoDue'
  BY <1>1, <1>2, <1>3, <1>4 DEF DigestInv, MarkNamesOne, MarksTrue, TodoDue
<1>6. MarksFollow'
  <2> SUFFICES ASSUME NEW v \in Users \ doubtful
               PROVE  \/ mailed[v] = Never \/ mailed[v] = prefs[v].last
                      \/ \E q \in Procs : At(q, "mark")' /\ work'[q].done = {v}
    BY <1>1 DEF MarksFollow
  <2>1. ASSUME NEW q \in Procs, At(q, "mark"), work[q].done = {v}
        PROVE  At(q, "mark")' /\ work'[q].done = {v}
    BY <1>3, <1>4, <2>1
  <2> QED
    BY <2>1 DEF DigestInv, MarksFollow
<1> QED
  BY <1>4, <1>5, <1>6 DEF DigestInv

\* Nobody mails a user who is about to be marked, unless two cycles overlap.
LEMMA DigestSends ==
    ASSUME TypeOK, DigestInv, NEW p \in Procs, NEW u \in Users, SendDigest(p, u)
    PROVE  DigestInv'
<1> DEFINE w == [work[p] EXCEPT !.at = "mark", !.todo = @ \ {u}, !.done = {u}]
<1>1. /\ work[p] \in Work /\ work' = [work EXCEPT ![p] = w]
      /\ work[p].job = "digest" /\ work[p].at = "run"
      /\ mailed' = [mailed EXCEPT ![u] = work[p].start]
      /\ doubtful' = IF p \in overlap THEN doubtful \cup {u} ELSE doubtful
      /\ UNCHANGED <<overlap, prefs>>
  BY DEF SendDigest, In, TypeOK, settings
<1>2. /\ w \in Work /\ w.job = "digest" /\ w.at = "mark" /\ w.start = work[p].start
      /\ w.todo = work[p].todo \ {u} /\ w.done = {u}
  BY <1>1 DEF Work
<1>3. InDigest(p) /\ ~At(p, "mark")
  BY <1>1 DEF InDigest, At
<1> HIDE DEF w
<1>4. /\ work'[p] = w /\ \A q \in Procs \ {p} : work'[q] = work[q]
      /\ \A q \in Procs : InDigest(q)' = InDigest(q)
      /\ \A q \in Procs \ {p} : At(q, "mark")' = At(q, "mark")
      /\ At(p, "mark")' /\ MeetingsNoted'
  BY <1>1, <1>2, <1>3, DigestStands
<1>5. mailed'[u] = work[p].start /\ \A v \in Users \ {u} : mailed'[v] = mailed[v]
  BY <1>1 DEF TypeOK
<1>6. \A q \in Procs \ {p} : InDigest(q) => q \in overlap /\ p \in overlap
  BY <1>3 DEF DigestInv, MeetingsNoted
<1>7. \A q \in Procs : At(q, "mark") => InDigest(q)
  BY DEF DigestInv, MarkNamesOne, InDigest, At
<1>8. MarkNamesOne'
  <2> SUFFICES ASSUME NEW q \in Procs, At(q, "mark")'
               PROVE  work'[q].job = "digest" /\ \E v \in Users : work'[q].done = {v}
    BY DEF MarkNamesOne
  <2> QED
    BY <1>2, <1>4 DEF DigestInv, MarkNamesOne
<1>9. MarksFollow'
  <2> SUFFICES ASSUME NEW v \in Users \ doubtful'
               PROVE  \/ mailed'[v] = Never \/ mailed'[v] = prefs[v].last
                      \/ \E q \in Procs : At(q, "mark")' /\ work'[q].done = {v}
    BY <1>1 DEF MarksFollow
  <2>1. CASE v = u
    BY <2>1, <1>2, <1>4
  <2>2. CASE v # u
    <3>1. ASSUME NEW q \in Procs, At(q, "mark"), work[q].done = {v}
          PROVE  At(q, "mark")' /\ work'[q].done = {v}
      BY <1>3, <1>4, <3>1
    <3> QED
      BY <2>2, <3>1, <1>1, <1>5 DEF DigestInv, MarksFollow
  <2> QED
    BY <2>1, <2>2
<1>10. MarksTrue'
  <2> SUFFICES ASSUME NEW v \in Users \ doubtful', NEW q \in Procs,
                      At(q, "mark")', work'[q].done = {v}
               PROVE  mailed'[v] = work'[q].start
    BY DEF MarksTrue
  <2>1. CASE q = p
    BY <2>1, <1>2, <1>4, <1>5
  <2>2. CASE q # p
    <3>1. At(q, "mark") /\ p \in overlap /\ work'[q] = work[q]
      BY <2>2, <1>4, <1>6, <1>7
    <3>2. v # u /\ v \in Users \ doubtful
      BY <3>1, <1>1
    <3> QED
      BY <3>1, <3>2, <1>5 DEF DigestInv, MarksTrue
  <2> QED
    BY <2>1, <2>2
<1>11. TodoDue'
  <2> SUFFICES ASSUME NEW q \in Procs \ overlap, NEW v \in work'[q].todo \ doubtful',
                      InDigest(q)'
               PROVE  mailed'[v] = Never \/ mailed'[v] < work'[q].start - Interval
    BY <1>1 DEF TodoDue
  <2>1. q = p
    BY <1>4, <1>6
  <2>2. v \in work[p].todo \ doubtful /\ v # u /\ v \in Users
    BY <2>1, <1>1, <1>2, <1>4 DEF Work
  <2> QED
    BY <2>1, <2>2, <1>2, <1>3, <1>4, <1>5 DEF DigestInv, TodoDue
<1> QED
  BY <1>4, <1>8, <1>9, <1>10, <1>11 DEF DigestInv

\* The mark of p is over: written, or failed and remembered in doubtful.
LEMMA DigestMarked ==
    ASSUME TypeOK, DigestInv, NEW p \in Procs, MarkDigest(p) \/ MarkFails(p)
    PROVE  DigestInv'
<1> DEFINE w == [work[p] EXCEPT !.at = "run", !.done = {}]
<1>1. /\ work[p] \in Work /\ work' = [work EXCEPT ![p] = w] /\ At(p, "mark")
      /\ UNCHANGED <<mailed, overlap>>
  BY DEF MarkDigest, MarkFails, TypeOK, history
<1>2. PICK u \in Users : work[p].done = {u} /\ work[p].job = "digest"
  BY <1>1 DEF DigestInv, MarkNamesOne
<1>3. /\ w \in Work /\ w.job = "digest" /\ w.at = "run" /\ w.start = work[p].start
      /\ w.todo = work[p].todo /\ w.done = {}
  BY <1>1, <1>2 DEF Work
<1>4. InDigest(p)
  BY <1>1, <1>2 DEF InDigest, At
<1>5. Sent(p) = u
  BY <1>2 DEF Sent
<1>6. \/ /\ prefs' = [prefs EXCEPT ![u].last = work[p].start]
         /\ doubtful' = doubtful
      \/ prefs' = prefs /\ doubtful' = doubtful \cup {u}
  BY <1>2, <1>5 DEF MarkDigest, MarkFails, history, settings
<1> HIDE DEF w
<1>7. /\ work'[p] = w /\ \A q \in Procs \ {p} : work'[q] = work[q]
      /\ \A q \in Procs : InDigest(q)' = InDigest(q)
      /\ \A q \in Procs \ {p} : At(q, "mark")' = At(q, "mark")
      /\ ~At(p, "mark")' /\ MeetingsNoted'
  BY <1>1, <1>3, <1>4, DigestStands
<1>8. doubtful \subseteq doubtful' /\ \A v \in Users \ {u} : prefs'[v] = prefs[v]
  BY <1>6 DEF TypeOK
<1>9. MarkNamesOne' /\ MarksTrue' /\ TodoDue'
  BY <1>1, <1>3, <1>4, <1>7, <1>8 DEF DigestInv, MarkNamesOne, MarksTrue, TodoDue
<1>10. MarksFollow'
  <2> SUFFICES ASSUME NEW v \in Users \ doubtful'
               PROVE  \/ mailed[v] = Never \/ mailed[v] = prefs'[v].last
                      \/ \E q \in Procs : At(q, "mark")' /\ work'[q].done = {v}
    BY <1>1 DEF MarksFollow
  <2>1. CASE v = u
    <3>1. mailed[u] = work[p].start
      BY <2>1, <1>1, <1>2, <1>8 DEF DigestInv, MarksTrue
    <3>2. prefs' = [prefs EXCEPT ![u].last = work[p].start]
      BY <2>1, <1>6
    <3>3. prefs'[u].last = work[p].start
      BY <3>2 DEF TypeOK
    <3> QED
      BY <2>1, <3>1, <3>3
  <2>2. CASE v # u
    <3>1. ASSUME NEW q \in Procs, At(q, "mark"), work[q].done = {v}
          PROVE  At(q, "mark")' /\ work'[q].done = {v}
      BY <2>2, <1>2, <1>7, <3>1
    <3> QED
      BY <2>2, <3>1, <1>8 DEF DigestInv, MarksFollow
  <2> QED
    BY <2>1, <2>2
<1> QED
  BY <1>7, <1>9, <1>10 DEF DigestInv

\* A cycle that starts alone finds nobody about to be marked, so the column it
\* reads is the last mail.
LEMMA DigestLists ==
    ASSUME TypeOK, DigestInv, NEW p \in Procs, ListDigests(p)
    PROVE  DigestInv'
<1> DEFINE others == {q \in Procs \ {p} : InDigest(q)}
           U == {u \in accounts : Wants(u, now)}
           w == [work[p] EXCEPT !.at = "run", !.todo = U, !.start = now]
<1>1. /\ work[p] \in Work /\ work' = [work EXCEPT ![p] = w]
      /\ work[p].job = "digest" /\ work[p].at = "list"
      /\ overlap' = IF others = {} THEN overlap \ {p} ELSE overlap \cup others \cup {p}
      /\ UNCHANGED <<mailed, doubtful, prefs>> /\ U \subseteq Users
  BY DEF ListDigests, In, TypeOK, settings, Listed
<1>2. w.job = "digest" /\ w.at = "run" /\ w.start = now /\ w.todo = U
  BY <1>1 DEF Work
<1>3. ~InDigest(p) /\ ~At(p, "mark")
  BY <1>1 DEF InDigest, At
<1> HIDE DEF w
<1>4. work'[p] = w /\ \A q \in Procs \ {p} : work'[q] = work[q]
  BY <1>1 DEF TypeOK
<1>5. /\ \A q \in Procs \ {p} : InDigest(q)' = InDigest(q)
      /\ \A q \in Procs : At(q, "mark")' = At(q, "mark")
      /\ InDigest(p)'
  BY <1>2, <1>3, <1>4 DEF InDigest, At
<1>6. MarkNamesOne' /\ MarksTrue'
  BY <1>1, <1>3, <1>4, <1>5 DEF DigestInv, MarkNamesOne, MarksTrue
<1>7. MeetingsNoted'
  <2> SUFFICES ASSUME NEW q \in Procs, NEW r \in Procs, q # r, InDigest(q)', InDigest(r)'
               PROVE  q \in overlap'
    BY DEF MeetingsNoted
  <2>1. CASE q = p
    BY <2>1, <1>1, <1>5
  <2>2. CASE q # p /\ r = p
    BY <2>2, <1>1, <1>5
  <2>3. CASE q # p /\ r # p
    BY <2>3, <1>1, <1>5 DEF DigestInv, MeetingsNoted
  <2> QED
    BY <2>1, <2>2, <2>3
<1>8. MarksFollow'
  <2> SUFFICES ASSUME NEW v \in Users \ doubtful
               PROVE  \/ mailed[v] = Never \/ mailed[v] = prefs[v].last
                      \/ \E q \in Procs : At(q, "mark")' /\ work'[q].done = {v}
    BY <1>1 DEF MarksFollow
  <2>1. ASSUME NEW q \in Procs, At(q, "mark"), work[q].done = {v}
        PROVE  At(q, "mark")' /\ work'[q].done = {v}
    BY <1>3, <1>4, <1>5, <2>1
  <2> QED
    BY <2>1 DEF DigestInv, MarksFollow
<1>9. TodoDue'
  <2> SUFFICES ASSUME NEW q \in Procs \ overlap', NEW v \in work'[q].todo \ doubtful,
                      InDigest(q)'
               PROVE  mailed[v] = Never \/ mailed[v] < work'[q].start - Interval
    BY <1>1 DEF TodoDue
  <2>1. CASE q = p
    <3>1. others = {}
      BY <2>1, <1>1
    <3>2. \A r \in Procs : ~At(r, "mark")
      BY <3>1, <1>3 DEF DigestInv, MarkNamesOne, InDigest, At
    <3>3. v \in Users \ doubtful /\ Wants(v, now)
      BY <2>1, <1>1, <1>2, <1>4
    <3>4. mailed[v] = Never \/ mailed[v] = prefs[v].last
      BY <3>2, <3>3 DEF DigestInv, MarksFollow
    <3> QED
      BY <2>1, <3>3, <3>4, <1>2, <1>4 DEF Wants
  <2>2. CASE q # p
    <3>1. q \notin overlap
      BY <2>2, <1>1
    <3> QED
      BY <2>2, <3>1, <1>4, <1>5 DEF DigestInv, TodoDue
  <2> QED
    BY <2>1, <2>2
<1> QED
  BY <1>6, <1>7, <1>8, <1>9 DEF DigestInv

LEMMA DigestStep == TypeOK /\ DigestInv /\ [Next]_vars => DigestInv'
<1> SUFFICES ASSUME TypeOK, DigestInv, [Next]_vars PROVE DigestInv'
  OBVIOUS
<1>1. CASE Tick \/ UNCHANGED vars \/ \E c \in Conns : CloseConnection(c)
  <2>1. UNCHANGED <<work, mailed, doubtful, overlap, prefs>>
    BY <1>1 DEF Tick, vars, CloseConnection, history, settings
  <2> QED
    BY <2>1, DigestFrame
<1>2. CASE Chat
  <2>1. UNCHANGED <<work, mailed, doubtful, overlap, prefs>>
    BY <1>2 DEF Chat, CreateSession, DeleteAllSessions, ClearHistory, DeleteSession,
                AddMessage, SaveVersion, UnchangedByChat, settings, history
  <2> QED
    BY <2>1, DigestFrame
<1>3. CASE Choose
  <2>1. UNCHANGED <<work, mailed, doubtful, overlap>>
    BY <1>3 DEF Choose, UpdateRetention, SetDigest, RequestDeletion, CancelDeletion,
                UnchangedBySettings, history
  <2>2. \A u \in Users : prefs'[u].last = prefs[u].last
    <3>1. ASSUME NEW v \in Users, NEW on \in BOOLEAN, SetDigest(v, on)
          PROVE  \A u \in Users : prefs'[u].last = prefs[u].last
      BY <3>1 DEF SetDigest, TypeOK
    <3>2. ASSUME NEW v \in Users,
                 \/ \E w \in Settings : UpdateRetention(v, w)
                 \/ RequestDeletion(v) \/ CancelDeletion(v)
          PROVE  prefs' = prefs
      BY <3>2 DEF UpdateRetention, RequestDeletion, CancelDeletion
    <3> QED
      BY <1>3, <3>1, <3>2 DEF Choose
  <2> QED
    BY <2>1, <2>2, DigestFrame
<1>4. ASSUME NEW p \in Procs, NEW c \in ConnsOf(p), TryLock(p, c) \/ Unlock(p, c)
      PROVE  DigestInv'
  <2>1. /\ At(p, "try") \/ At(p, "unlock")
        /\ \/ work' = [work EXCEPT ![p] = [work[p] EXCEPT !.at = "list"]]
           \/ work' = [work EXCEPT ![p] = NextJob(p)]
        /\ UNCHANGED <<mailed, doubtful, overlap, prefs>>
    BY <1>4 DEF TryLock, Unlock, history, settings
  <2>2. /\ [work[p] EXCEPT !.at = "list"] \in Work /\ NextJob(p) \in Work
        /\ [work[p] EXCEPT !.at = "list"].at = "list" /\ NextJob(p).at = "try"
    BY EntryTypes
  <2>3. ~At(p, "mark")
    BY <2>1 DEF At
  <2> QED
    BY <2>1, <2>2, <2>3, DigestLeft
<1>5. ASSUME NEW p \in Procs, LockUnavailable(p) \/ EndJob(p) \/ JobFails(p)
      PROVE  DigestInv'
  <2>1. /\ ~At(p, "mark")
        /\ \/ work' = [work EXCEPT ![p] = [work[p] EXCEPT !.at = "list"]]
           \/ work' = [work EXCEPT ![p] = Leaving(p)]
        /\ UNCHANGED <<mailed, doubtful, overlap, prefs>>
    BY <1>5 DEF LockUnavailable, EndJob, JobFails, At, history, settings
  <2>2. /\ [work[p] EXCEPT !.at = "list"] \in Work /\ Leaving(p) \in Work
        /\ [work[p] EXCEPT !.at = "list"].at = "list" /\ Leaving(p).at = "unlock"
    BY EntryTypes
  <2> QED
    BY <2>1, <2>2, DigestLeft
<1>6. ASSUME NEW p \in Procs, Crash(p) \/ Restart(p) PROVE DigestInv'
  <2>1. /\ \/ work' = [work EXCEPT ![p] = [Asleep EXCEPT !.at = "down"]]
           \/ work' = [work EXCEPT ![p] = Asleep]
        /\ UNCHANGED <<mailed, overlap, prefs>> /\ doubtful \subseteq doubtful'
        /\ At(p, "mark") => work[p].done \subseteq doubtful'
    BY <1>6 DEF Crash, Restart, At, history, settings
  <2>2. /\ [Asleep EXCEPT !.at = "down"] \in Work /\ Asleep \in Work
        /\ [Asleep EXCEPT !.at = "down"].at = "down" /\ Asleep.at = "try"
    BY WorkTypes DEF Asleep
  <2> QED
    BY <2>1, <2>2, DigestLeft
<1>7. ASSUME NEW p \in Procs, ListDeletions(p) \/ ListRetention(p) PROVE DigestInv'
  <2>1. PICK U \in SUBSET Users, f \in [Users -> Settings] :
          work' = [work EXCEPT ![p] = [work[p] EXCEPT !.at = "run", !.todo = U, !.seen = f]]
    <3>1. CASE ListDeletions(p)
      <4>1. [work[p] EXCEPT !.at = "run",
                            !.todo = {u \in Users : deletion[u].status = "scheduled"
                                                    /\ deletion[u].due <= now}]
            = [work[p] EXCEPT !.at = "run",
                            !.todo = {u \in Users : deletion[u].status = "scheduled"
                                                    /\ deletion[u].due <= now},
                            !.seen = work[p].seen]
        BY DEF TypeOK, Work
      <4> QED
        BY <3>1, <4>1 DEF ListDeletions, Listed, TypeOK, Work
    <3>2. CASE ListRetention(p)
      <4>1. {u \in accounts : retention[u] # Forever} \in SUBSET Users
        BY DEF TypeOK
      <4> QED
        BY <3>2, <4>1 DEF ListRetention, Listed, TypeOK
    <3> QED
      BY <1>7, <3>1, <3>2
  <2> DEFINE w == [work[p] EXCEPT !.at = "run", !.todo = U, !.seen = f]
  <2>2. work[p] \in Work /\ work[p].at = "list" /\ work[p].job # "digest"
    BY <1>7 DEF ListDeletions, ListRetention, In, TypeOK
  <2>3. w \in Work /\ w.job # "digest" /\ w.at = "run" /\ ~At(p, "mark")
    BY <2>2 DEF Work, At
  <2>4. UNCHANGED <<mailed, doubtful, overlap, prefs>>
    BY <1>7 DEF ListDeletions, ListRetention, history, settings
  <2> QED
    BY <2>1, <2>3, <2>4, DigestLeft
<1>8. ASSUME NEW p \in Procs, NEW u \in Users, HardDelete(p, u) \/ PurgeHistory(p, u)
      PROVE  DigestInv'
  <2>1. /\ work[p] \in Work /\ work[p].at = "run" /\ work[p].job # "digest"
        /\ UNCHANGED <<mailed, doubtful, overlap, prefs>>
    BY <1>8 DEF HardDelete, PurgeHistory, In, TypeOK, history, settings
  <2>2. PICK w \in Work : /\ work' = [work EXCEPT ![p] = w]
                          /\ w.job # "digest" /\ w.at # "mark"
    <3>1. CASE HardDelete(p, u)
      <4> DEFINE V == IF Referenced(u) THEN work[p].done ELSE work[p].done \cup {u}
      <4>1. V \in SUBSET Users
        BY <2>1 DEF Work
      <4> HIDE DEF V
      <4>2. work[p].todo \ {u} \in SUBSET Users
        BY <2>1 DEF Work
      <4>3. [work[p] EXCEPT !.todo = @ \ {u}, !.done = V] \in Work
        BY <2>1, <4>1, <4>2 DEF Work
      <4>4. work' = [work EXCEPT ![p] = [work[p] EXCEPT !.todo = @ \ {u}, !.done = V]]
        BY <3>1 DEF HardDelete, V
      <4>5. LET w == [work[p] EXCEPT !.todo = @ \ {u}, !.done = V]
            IN  w.job # "digest" /\ w.at # "mark"
        BY <2>1 DEF Work
      <4> QED
        BY <4>3, <4>4, <4>5
    <3>2. CASE PurgeHistory(p, u)
      <4>1. work[p].todo \ {u} \in SUBSET Users
        BY <2>1 DEF Work
      <4>2. /\ [work[p] EXCEPT !.todo = @ \ {u}] \in Work
            /\ [work[p] EXCEPT !.todo = @ \ {u}].job = work[p].job
            /\ [work[p] EXCEPT !.todo = @ \ {u}].at = "run"
        BY <2>1, <4>1 DEF Work
      <4>3. \/ work' = [work EXCEPT ![p] = Leaving(p)]
            \/ work' = [work EXCEPT ![p] = [work[p] EXCEPT !.todo = @ \ {u}]]
        BY <3>2 DEF PurgeHistory
      <4> QED
        BY <2>1, <4>2, <4>3, EntryTypes
    <3> QED
      BY <1>8, <3>1, <3>2
  <2>3. ~At(p, "mark")
    BY <2>1 DEF At
  <2> QED
    BY <2>1, <2>2, <2>3, DigestLeft
<1> QED
  BY <1>1, <1>2, <1>3, <1>4, <1>5, <1>6, <1>7, <1>8,
     DigestSkips, DigestSends, DigestMarked, DigestLists
  DEF Next, Loop, Fault

\* A process comes to mark a user only by mailing.
LEMMA SendsOnly ==
    ASSUME TypeOK, [Next]_vars, NEW p \in Procs,
           work[p].at = "run", work'[p].at = "mark"
    PROVE  \E v \in Users : SendDigest(p, v)
<1>1. work' # work
  OBVIOUS
<1>2. ASSUME NEW q \in Procs, q # p, Loop(q) \/ Fault(q) PROVE FALSE
  <2>1. \E w : work' = [work EXCEPT ![q] = w]
    BY <1>1, <1>2 DEF Loop, Fault, EndJob, MarkDigest, ListDeletions, ListRetention,
      ListDigests, TryLock, Unlock, HardDelete, PurgeHistory, SkipDigest, SendDigest,
      LockUnavailable, JobFails, MarkFails, Crash, Restart
  <2> QED
    BY <1>2, <2>1 DEF TypeOK
<1>3. ASSUME Fault(p) PROVE FALSE
  <2>1. JobFails(p) \/ Crash(p)
    BY <1>3 DEF Fault, LockUnavailable, MarkFails, Restart, At
  <2>2. \/ work' = [work EXCEPT ![p] = Leaving(p)]
        \/ work' = [work EXCEPT ![p] = [Asleep EXCEPT !.at = "down"]]
    BY <2>1 DEF JobFails, Crash
  <2> QED
    BY <2>2 DEF TypeOK, Leaving, Asleep
<1>4. ASSUME Loop(p), \A v \in Users : ~SendDigest(p, v) PROVE FALSE
  <2>1. \/ EndJob(p)
        \/ \E v \in Users : HardDelete(p, v) \/ PurgeHistory(p, v) \/ SkipDigest(p, v)
    BY <1>4 DEF Loop, MarkDigest, ListDeletions, ListRetention, ListDigests, TryLock,
      Unlock, At, In
  <2>2. \/ work' = [work EXCEPT ![p] = Leaving(p)]
        \/ \E T : work' = [work EXCEPT ![p] = [work[p] EXCEPT !.todo = T]]
        \/ \E T, D : work' = [work EXCEPT ![p] = [work[p] EXCEPT !.todo = T, !.done = D]]
    <3>1. CASE EndJob(p)
      BY <3>1 DEF EndJob
    <3>2. ASSUME NEW v \in Users, HardDelete(p, v)
          PROVE  \E T, D : work' = [work EXCEPT ![p] = [work[p] EXCEPT !.todo = T, !.done = D]]
      BY <3>2 DEF HardDelete
    <3>3. ASSUME NEW v \in Users, PurgeHistory(p, v) \/ SkipDigest(p, v)
          PROVE  \/ work' = [work EXCEPT ![p] = Leaving(p)]
                 \/ \E T : work' = [work EXCEPT ![p] = [work[p] EXCEPT !.todo = T]]
      BY <3>3 DEF PurgeHistory, SkipDigest
    <3> QED
      BY <2>1, <3>1, <3>2, <3>3
  <2> QED
    BY <2>2 DEF TypeOK, Leaving, Asleep, Work
<1>5. ASSUME Tick \/ Chat \/ Choose \/ UNCHANGED vars \/ \E c \in Conns : CloseConnection(c)
      PROVE  FALSE
  BY <1>1, <1>5
  DEF Tick, Chat, Choose, vars, CloseConnection, CreateSession, DeleteAllSessions,
      ClearHistory, DeleteSession, AddMessage, SaveVersion, UnchangedByChat,
      UpdateRetention, SetDigest, RequestDeletion, CancelDeletion, UnchangedBySettings
<1> QED
  BY <1>2, <1>3, <1>4, <1>5 DEF Next, Loop

\* Outside of a mail that was not marked and of overlapping cycles, no user is
\* mailed twice within the interval.
THEOREM DigestCadenceHolds == Spec => DigestCadence
<1>1. TypeOK /\ DigestInv /\ [Next]_vars =>
        [\A p \in Procs : \A u \in Users \ doubtful :
          Mailing(p, u) /\ p \notin overlap =>
             mailed[u] = Never \/ mailed[u] < work[p].start - Interval]_vars
  <2> SUFFICES ASSUME TypeOK, DigestInv, [Next]_vars,
                      NEW p \in Procs, NEW u \in Users \ doubtful,
                      Mailing(p, u), p \notin overlap
               PROVE  mailed[u] = Never \/ mailed[u] < work[p].start - Interval
    OBVIOUS
  <2>1. work' # work /\ work[p].at = "run" /\ work'[p].at = "mark" /\ work'[p].done = {u}
    BY DEF Mailing, At
  <2>3. PICK v \in Users : SendDigest(p, v)
    BY <2>1, SendsOnly
  <2>4. u \in work[p].todo /\ InDigest(p)
    <3>1. work' = [work EXCEPT ![p] = [work[p] EXCEPT !.at = "mark", !.todo = @ \ {v},
                                                      !.done = {v}]]
      BY <2>3 DEF SendDigest
    <3>2. work'[p].done = {v}
      BY <3>1 DEF TypeOK, Work
    <3>3. u = v
      BY <2>1, <3>2
    <3> QED
      BY <2>3, <3>3 DEF SendDigest, In, InDigest
  <2> QED
    BY <2>4 DEF DigestInv, TodoDue
<1>2. Spec => []DigestInv
  BY DigestInit, DigestStep, TypeCorrect, PTL DEF Spec
<1> QED
  BY <1>1, <1>2, TypeCorrect, PTL DEF Spec, DigestCadence

-----------------------------------------------------------------------------
(* Counting. *)

\* A set of numbers has a least element.
LEMMA LeastOf == ASSUME NEW S \in SUBSET Nat, S # {} PROVE \E m \in S : \A n \in S : m <= n
<1>1. PICK m \in S : \A n \in S : ~(<<n, m>> \in OpToRel(<, Nat))
  BY NatLessThanWellFounded, WFMin, Zenon
<1>2. \A n \in S : ~(n < m)
  BY <1>1, Zenon DEF OpToRel
<1> QED
  BY <1>2

\* A finite one has a greatest: else take the smallest that has none.
LEMMA GreatestOf ==
    ASSUME NEW S \in SUBSET Nat, IsFiniteSet(S), S # {} PROVE \E m \in S : \A n \in S : n <= m
<1> DEFINE Endless(T) == T # {} /\ ~\E m \in T : \A n \in T : n <= m
           Sizes == {n \in Nat : \E T \in SUBSET Nat :
                                     IsFiniteSet(T) /\ Cardinality(T) = n /\ Endless(T)}
<1> SUFFICES ASSUME Endless(S) PROVE FALSE
  OBVIOUS
<1>1. Cardinality(S) \in Sizes
  BY FS_CardinalityType
<1>2. PICK size \in Sizes : \A n \in Sizes : size <= n
  BY <1>1, LeastOf
<1>3. PICK T \in SUBSET Nat : IsFiniteSet(T) /\ Cardinality(T) = size /\ Endless(T)
  BY <1>2
<1>4. PICK a \in T : TRUE
  BY <1>3
<1>5. /\ IsFiniteSet(T \ {a}) /\ Cardinality(T \ {a}) = size - 1
      /\ Cardinality(T \ {a}) \in Nat /\ size \in Nat
  BY <1>3, <1>4, FS_RemoveElement, FS_CardinalityType
<1>6. ~Endless(T \ {a})
  <2>1. ~(size <= size - 1)
    BY <1>5
  <2>2. Cardinality(T \ {a}) \notin Sizes
    <3> HIDE DEF Sizes
    <3> QED
      BY <1>2, <1>5, <2>1
  <2> HIDE DEF Endless
  <2> QED
    BY <1>5, <2>2
<1>7. CASE T \ {a} = {}
  BY <1>3, <1>4, <1>7
<1>8. ASSUME NEW b \in T \ {a}, \A n \in T \ {a} : n <= b PROVE FALSE
  <2>1. CASE a <= b
    BY <1>3, <1>4, <1>8, <2>1
  <2>2. CASE b <= a
    BY <1>3, <1>4, <1>8, <2>2
  <2> QED
    BY <1>4, <1>8, <2>1, <2>2
<1> QED
  BY <1>6, <1>7, <1>8

\* Numbers that are closed downwards are an interval.
LEMMA InitialSegment ==
    ASSUME NEW N \in Nat, NEW S \in SUBSET (1..N), \A i, j \in 1..N : i < j /\ j \in S => i \in S
    PROVE  Cardinality(S) \in 0..N /\ S = 1..Cardinality(S)
<1> DEFINE Bounds == {n \in Nat : S \subseteq 1..n}
<1>1. N \in Bounds /\ Bounds \in SUBSET Nat
  OBVIOUS
<1>2. PICK m \in Bounds : \A n \in Bounds : m <= n
  BY <1>1, LeastOf
<1>3. S = 1..m /\ m \in 0..N
  <2>1. m \in 0..N /\ S \subseteq 1..m
    BY <1>1, <1>2
  <2>2. CASE m = 0
    BY <2>1, <2>2
  <2>3. CASE m # 0
    <3>1. m - 1 \notin Bounds /\ m - 1 \in Nat
      BY <1>2, <2>1, <2>3
    <3>2. PICK i \in S : i \notin 1..(m - 1)
      BY <3>1
    <3>3. i = m
      BY <2>1, <3>1, <3>2
    <3>4. \A j \in 1..m : j \in S
      BY <2>1, <3>2, <3>3
    <3> QED
      BY <2>1, <3>4
  <2> QED
    BY <2>2, <2>3
<1>4. Cardinality(S) = m
  BY <1>3, FS_Interval
<1> QED
  BY <1>3, <1>4

-----------------------------------------------------------------------------
(* Workspace: the inductive invariant. *)

\* A request is about a row, from its first step or from the one that inserts it.
Targeted(q) ==
    \/ q.op \in {"none", "mark", "tick", "put"}
    \/ q.op = "seed" /\ q.at \notin {"open", "vet", "commit"}
    \/ q.id \in Ids

\* What a request has to do determines how far it may be.
Given(q) ==
    /\ q.at = "idle" => q.op = "none"
    /\ q.kind \in Seeded \cup {"none"}
    /\ q.kind # "none" <=> q.op \in {"seed", "mark"}
    /\ q.at \in {"seed", "open", "marking"} => q.op = "seed"
    /\ q.at = "vet" => q.op \in {"certify", "seed"}
    /\ q.at \in {"read", "write", "failing"} => q.op = "export"
    /\ q.at = "seed" => q.k \in 1..SeedSize /\ (q.kind = "template" => q.k = 1)
    /\ q.op = "seed" /\ q.at \in {"open", "vet", "commit"} => q.kind = "metric" /\ q.k >= 1
    /\ q.op = "mark" \/ q.at = "marking" => q.id = 0
    /\ q.op = "name" => q.num \in 0..Names
    /\ Targeted(q)
    /\ IsFiniteSet(q.seen)

\* What it knows of the rows: they have been inserted, they are of the kind it takes them
\* for, and a definition under check is the one of the row until the row is changed.
About(q, table) ==
    /\ q.id # 0 => table[q.id].st # "unborn"
    /\ q.op = "widget" => table[q.id].kind = "dashboard"
    /\ q.op = "put" /\ q.id # 0 => table[q.id].kind = "instructions"
    /\ \A w \in Seen(q) : table[w].st # "unborn" /\ table[w].kind = "widget"
    /\ q.at \in {"vet", "commit"} /\ q.op \in {"certify", "seed"} /\ ~q.stale
          => table[q.id].text = q.row.text
    /\ q.at = "commit" /\ q.op \in {"certify", "seed"} => q.text = q.row.text

RequestsSound == \A r \in Requests : Given(req[r]) /\ About(req[r], rows)

\* Of a kind whose seeding nothing has disturbed, one request inserts the starter rows,
\* in their order; and before the first one starts or the marker is set there are none.
SeedsOnce(d) ==
    /\ \A q, r \in Requests : req[q].kind = d /\ req[r].kind = d => q = r
    /\ \A k \in 1..SeedSize : created[d][k] <= 1
    /\ \A r \in Requests, k \in 1..SeedSize :
          req[r].kind = d /\ k >= req[r].k => created[d][k] = 0
    /\ d \notin lists["onboarding"].done /\ (\A r \in Requests : req[r].kind # d)
          => \A k \in 1..SeedSize : created[d][k] = 0

Seedings == \A d \in Seeded \ disturbed : SeedsOnce(d)

WorkspaceInv == WorkspaceTypeOK /\ RequestsSound /\ Seedings /\ CertifiedChecked

-----------------------------------------------------------------------------
(* Rows. *)

RowsTyped ==
    /\ rows \in [Ids -> WorkspaceRow]
    /\ \A i, j \in Ids : i < j /\ rows[j].st # "unborn" => rows[i].st # "unborn"
    /\ \A w \in Existing("widget") : rows[w].of \in Existing("dashboard")

\* No row becomes unborn, or of another kind.
Grown == \A i \in Ids : rows[i].st # "unborn" =>
            rows'[i].st # "unborn" /\ rows'[i].kind = rows[i].kind

\* A request that has loaded a row knows when its text is changed.
TextsTold(r) == \A q \in Requests \ {r} :
    /\ req'[q] = req[q] \/ req'[q] = [req[q] EXCEPT !.stale = TRUE]
    /\ req[q].id \in Ids /\ rows[req[q].id].st # "unborn"
          /\ rows'[req[q].id].text # rows[req[q].id].text => req'[q].stale

\* The rows that have been inserted are the first ones.
LEMMA MadeFirst ==
    ASSUME RowsTyped
    PROVE  Made \in 0..MaxRows /\ \A i \in Ids : rows[i].st # "unborn" <=> i \in 1..Made
<1> DEFINE S == {i \in Ids : rows[i].st # "unborn"}
<1>1. S \in SUBSET (1..MaxRows) /\ MaxRows \in Nat
  BY WorkspaceAssumption DEF Ids
<1>2. \A i, j \in 1..MaxRows : i < j /\ j \in S => i \in S
  BY DEF RowsTyped, Ids
<1>3. Cardinality(S) \in 0..MaxRows /\ S = 1..Cardinality(S)
  <2> HIDE DEF S
  <2> QED
    BY <1>1, <1>2, InitialSegment
<1>4. Made = Cardinality(S)
  BY DEF Made
<1>5. \A i \in Ids : rows[i].st # "unborn" <=> i \in S
  OBVIOUS
<1> HIDE DEF S
<1> QED
  BY <1>3, <1>4, <1>5

\* A change of rows that keeps which there are, their kinds and their dashboards.
LEMMA AmendedRows ==
    ASSUME RowsTyped, rows' \in [Ids -> WorkspaceRow],
           \A i \in Ids : /\ rows'[i].st = rows[i].st /\ rows'[i].kind = rows[i].kind
                          /\ rows'[i].of = rows[i].of
    PROVE  RowsTyped' /\ Grown
<1>1. \A kind : Existing(kind)' = Existing(kind)
  BY DEF Existing
<1> QED
  BY <1>1 DEF RowsTyped, Grown, Existing

\* ... and one that inserts rows.
LEMMA InsertedRows ==
    ASSUME RowsTyped, CertifiedChecked, NEW n \in Nat, NEW new, Insert(new, n),
           \A j \in 1..n : new[j] \in WorkspaceRow /\ new[j].st = "row" /\ ~new[j].certified,
           \A j \in 1..n : new[j].kind = "widget" =>
                \/ new[j].of \in Existing("dashboard")
                \/ n >= 1 /\ new[j].of = Made + 1 /\ new[1].kind = "dashboard"
    PROVE  /\ RowsTyped' /\ Grown /\ CertifiedChecked' /\ Made \in Nat
           /\ \A i \in Ids : rows[i].st # "unborn" => rows'[i] = rows[i]
           /\ \A j \in 1..n : Made + j \in Ids /\ rows'[Made + j] = new[j]
<1>1. /\ Made \in 0..MaxRows /\ Made + n <= MaxRows /\ MaxRows \in Nat
      /\ \A i \in Ids : rows[i].st # "unborn" <=> i \in 1..Made
  BY MadeFirst, WorkspaceAssumption DEF Insert
<1> DEFINE m == Made
<1>2. rows' = [i \in Ids |-> IF i \in (m + 1)..(m + n) THEN new[i - m] ELSE rows[i]]
  BY DEF Insert
<1>3. m \in Nat /\ m + n <= MaxRows /\ \A i \in Ids : rows[i].st # "unborn" <=> i \in 1..m
  BY <1>1
<1> HIDE DEF m
<1>4. \A i \in Ids : i \in (m + 1)..(m + n) => i - m \in 1..n /\ rows'[i] = new[i - m]
  BY <1>1, <1>2, <1>3 DEF Ids
<1>5. \A i \in Ids : i \notin (m + 1)..(m + n) => rows'[i] = rows[i]
  BY <1>2
<1>6. \A i \in Ids : rows[i].st # "unborn" => rows'[i] = rows[i]
  BY <1>3, <1>5 DEF Ids
<1>7. \A j \in 1..n : m + j \in Ids /\ rows'[m + j] = new[j]
  <2> SUFFICES ASSUME NEW j \in 1..n PROVE m + j \in Ids /\ rows'[m + j] = new[j]
    OBVIOUS
  <2>1. m + j \in Ids /\ m + j \in (m + 1)..(m + n) /\ (m + j) - m = j
    BY <1>1, <1>3 DEF Ids
  <2> QED
    BY <1>4, <2>1
<1>8. rows' \in [Ids -> WorkspaceRow]
  <2>1. \A i \in Ids : rows'[i] \in WorkspaceRow
    BY <1>4, <1>5 DEF RowsTyped
  <2> QED
    BY <1>2, <2>1
<1>9. \A i \in Ids : rows'[i].st # "unborn" <=> i \in 1..(m + n)
  <2> SUFFICES ASSUME NEW i \in Ids PROVE rows'[i].st # "unborn" <=> i \in 1..(m + n)
    OBVIOUS
  <2>1. CASE i \in (m + 1)..(m + n)
    <3>1. rows'[i].st = "row"
      BY <1>4, <2>1
    <3> QED
      BY <1>3, <2>1, <3>1 DEF Ids
  <2>2. CASE i \notin (m + 1)..(m + n)
    BY <1>3, <1>5, <2>2 DEF Ids
  <2> QED
    BY <2>1, <2>2
<1>10. \A d \in Existing("dashboard") : d \in Existing("dashboard")'
  BY <1>6 DEF Existing
<1>11. ASSUME NEW w \in Ids, rows'[w].st = "row", rows'[w].kind = "widget"
       PROVE  rows'[w].of \in Existing("dashboard")'
  <2>1. CASE w \in (m + 1)..(m + n)
    <3>1. w - m \in 1..n /\ rows'[w] = new[w - m]
      BY <1>4, <2>1
    <3>2. \/ new[w - m].of \in Existing("dashboard")
          \/ n >= 1 /\ new[w - m].of = m + 1 /\ new[1].kind = "dashboard"
      BY <1>11, <3>1 DEF m
    <3>3. ASSUME n >= 1, new[1].kind = "dashboard" PROVE m + 1 \in Existing("dashboard")'
      BY <1>7, <3>3 DEF Existing
    <3> QED
      BY <1>10, <3>1, <3>2, <3>3
  <2>2. CASE w \notin (m + 1)..(m + n)
    BY <1>5, <1>10, <1>11, <2>2 DEF RowsTyped, Existing
  <2> QED
    BY <2>1, <2>2
<1>12. RowsTyped'
  <2>1. \A i, j \in Ids : i < j /\ rows'[j].st # "unborn" => rows'[i].st # "unborn"
    BY <1>1, <1>3, <1>9 DEF Ids
  <2> QED
    BY <1>8, <1>11, <2>1 DEF RowsTyped, Existing
<1>13. CertifiedChecked'
  <2> SUFFICES ASSUME NEW i \in Ids, rows'[i].st = "row", rows'[i].kind = "metric",
                      rows'[i].certified, ~rows'[i].edited
               PROVE  rows'[i].vetted = rows'[i].text
    BY DEF CertifiedChecked, Existing
  <2>1. i \notin (m + 1)..(m + n)
    BY <1>4
  <2> QED
    BY <1>5, <2>1 DEF CertifiedChecked, Existing
<1> QED
  BY <1>1, <1>6, <1>7, <1>12, <1>13 DEF Grown, m

-----------------------------------------------------------------------------
(* Requests. *)

\* A request that only learns of the changes of the step is still sound.
LEMMA BystanderSound ==
    ASSUME RowsTyped, Grown, NEW o \in Request, Given(o), About(o, rows), NEW p,
           p = o \/ p = [o EXCEPT !.stale = TRUE],
           o.id \in Ids /\ rows[o.id].st # "unborn" /\ rows'[o.id].text # rows[o.id].text
              => p.stale
    PROVE  p \in Request /\ Given(p) /\ About(p, rows')
<1>1. /\ p.at = o.at /\ p.op = o.op /\ p.kind = o.kind /\ p.k = o.k
      /\ p.id = o.id /\ p.row = o.row /\ p.text = o.text /\ p.num = o.num /\ p.seen = o.seen
  BY DEF Request
<1>2. p \in Request /\ (o.stale => p.stale)
  <2>1. CASE p = o
    BY <2>1
  <2>2. CASE p = [o EXCEPT !.stale = TRUE]
    <3>1. p \in Request
      BY <2>2 DEF Request
    <3>2. p.stale = TRUE
      BY <2>2 DEF Request
    <3> QED
      BY <3>1, <3>2
  <2> QED
    BY <2>1, <2>2
<1>3. Given(p)
  BY <1>1 DEF Given, Targeted
<1>4. 0 \notin Ids
  BY DEF Ids
<1>5. o.id # 0 => o.id \in Ids /\ rows[o.id].st # "unborn" /\ rows'[o.id].st # "unborn"
                  /\ rows'[o.id].kind = rows[o.id].kind
  BY DEF About, Grown, Request
<1>6. /\ o.op \in {"widget", "certify"} => o.id \in Ids
      /\ o.at \in {"vet", "commit"} /\ o.op = "seed" => o.id \in Ids
  BY DEF Given, Targeted
<1>7. \A i \in Seen(p) : rows'[i].st # "unborn" /\ rows'[i].kind = "widget"
  <2>1. Seen(p) = Seen(o)
    BY <1>1 DEF Seen
  <2>2. \A i \in Seen(o) : i \in Ids
    BY DEF Seen, Request
  <2>3. \A i \in Seen(o) : rows[i].st # "unborn" /\ rows[i].kind = "widget"
    BY DEF About
  <2> QED
    BY <2>1, <2>2, <2>3 DEF Grown
<1>8. ASSUME p.at \in {"vet", "commit"}, p.op \in {"certify", "seed"}, ~p.stale
      PROVE  rows'[p.id].text = p.row.text
  <2>1. o.id \in Ids /\ rows[o.id].st # "unborn" /\ ~o.stale
    BY <1>1, <1>2, <1>4, <1>5, <1>6, <1>8
  <2>2. rows[o.id].text = o.row.text
    BY <1>1, <1>8, <2>1 DEF About
  <2>3. rows'[o.id].text = rows[o.id].text
    BY <1>8, <2>1
  <2> QED
    BY <1>1, <2>2, <2>3
<1>9. About(p, rows')
  <2>1. /\ p.id # 0 => rows'[p.id].st # "unborn"
        /\ p.op = "widget" => rows'[p.id].kind = "dashboard"
        /\ p.op = "put" /\ p.id # 0 => rows'[p.id].kind = "instructions"
    BY <1>1, <1>4, <1>5, <1>6 DEF About
  <2>2. p.at = "commit" /\ p.op \in {"certify", "seed"} => p.text = p.row.text
    BY <1>1 DEF About
  <2> QED
    BY <1>7, <1>8, <2>1, <2>2 DEF About
<1> QED
  BY <1>2, <1>3, <1>9

\* A request that moves on as it should, while the others learn what changes.
LEMMA RequestsMove ==
    ASSUME RowsTyped, req \in [Requests -> Request], RequestsSound, Grown,
           NEW r \in Requests, NEW w \in Request, TextsTold(r),
           DOMAIN req' = Requests, req' = [q \in Requests |-> req'[q]], req'[r] = w,
           Given(w), About(w, rows')
    PROVE  req' \in [Requests -> Request] /\ RequestsSound'
<1>1. \A q \in Requests : req'[q] \in Request /\ Given(req'[q]) /\ About(req'[q], rows')
  <2> SUFFICES ASSUME NEW q \in Requests
               PROVE  req'[q] \in Request /\ Given(req'[q]) /\ About(req'[q], rows')
    OBVIOUS
  <2>1. CASE q = r
    BY <2>1
  <2>2. CASE q # r
    BY <2>2, BystanderSound DEF TextsTold, RequestsSound
  <2> QED
    BY <2>1, <2>2
<1> QED
  BY <1>1 DEF RequestsSound

\* Only the request itself moves, and no text of a row that was there changes.
LEMMA AloneMoves ==
    ASSUME RowsTyped, req \in [Requests -> Request], RequestsSound, Grown,
           NEW r \in Requests, NEW w \in Request, Goes(r, w), Given(w), About(w, rows'),
           \A i \in Ids : rows[i].st # "unborn" => rows'[i].text = rows[i].text
    PROVE  req' \in [Requests -> Request] /\ RequestsSound' /\ req'[r] = w
<1>1. /\ DOMAIN req' = Requests /\ req' = [q \in Requests |-> req'[q]] /\ req'[r] = w
      /\ \A q \in Requests \ {r} : req'[q] = req[q]
  BY DEF Goes
<1>2. TextsTold(r)
  BY <1>1 DEF TextsTold
<1> QED
  BY <1>1, <1>2, RequestsMove

\* A commit tells those that have loaded the rows it changes.
LEMMA CommitMoves ==
    ASSUME RowsTyped, req \in [Requests -> Request], RequestsSound, Grown,
           NEW r \in Requests, NEW w \in Request, NEW S, Commits(r, w, S), Given(w), About(w, rows'),
           \A i \in Ids : rows[i].st # "unborn" /\ rows'[i].text # rows[i].text => i \in S
    PROVE  req' \in [Requests -> Request] /\ RequestsSound' /\ req'[r] = w
<1>1. /\ DOMAIN req' = Requests /\ req' = [q \in Requests |-> req'[q]] /\ req'[r] = w
  BY DEF Commits
<1>2. ASSUME NEW q \in Requests \ {r}
      PROVE  /\ req'[q] = req[q] \/ req'[q] = [req[q] EXCEPT !.stale = TRUE]
             /\ req[q].id \in Ids /\ req[q].id \in S => req'[q].stale
  <2>1. req[q] \in Request
    OBVIOUS
  <2>2. req[q].id \in Ids => req[q].id # 0
    BY DEF Ids
  <2>3. req'[q] = IF (req[q].id # 0 /\ req[q].id \in S \cup {rows'[i].of : i \in S})
                      \/ (req[q].op = "put" /\ \E i \in S : rows'[i].kind = "instructions")
                  THEN [req[q] EXCEPT !.stale = TRUE] ELSE req[q]
    BY DEF Commits
  <2>4. [req[q] EXCEPT !.stale = TRUE].stale
    BY <2>1 DEF Request
  <2> QED
    BY <2>2, <2>3, <2>4
<1>3. TextsTold(r)
  BY <1>2 DEF TextsTold
<1> QED
  BY <1>1, <1>3, RequestsMove

\* Nobody moves.
LEMMA NobodyMoves ==
    ASSUME RowsTyped, req \in [Requests -> Request], RequestsSound, Grown, UNCHANGED req,
           \A i \in Ids : rows[i].st # "unborn" => rows'[i].text = rows[i].text
    PROVE  RequestsSound'
<1> SUFFICES ASSUME NEW q \in Requests PROVE Given(req[q]) /\ About(req[q], rows')
  BY DEF RequestsSound
<1> QED
  BY BystanderSound DEF RequestsSound

LEMMA IdleSound ==
    ASSUME NEW table PROVE Idle \in Request /\ Given(Idle) /\ About(Idle, table)
<1>1. Unborn \in WorkspaceRow
  BY WorkspaceAssumption DEF Unborn, WorkspaceRow, Kinds
<1>2. Idle \in Request
  BY <1>1, WorkspaceAssumption DEF Idle, Request, Kinds, Checklists, Checklist
<1>3. Given(Idle)
  BY FS_EmptySet DEF Idle, Given, Targeted, Seeded
<1>4. About(Idle, table)
  BY DEF Idle, About, Seen
<1> QED
  BY <1>2, <1>3, <1>4

-----------------------------------------------------------------------------
(* Seedings. *)

\* No request takes up a seeding or gives one up, and no marker is lost unnoticed.
LEMMA SeedingsKept ==
    ASSUME Seedings, UNCHANGED created, disturbed \subseteq disturbed',
           \A q \in Requests : /\ req'[q].kind = req[q].kind
                               /\ req[q].kind \in Seeded => req'[q].k = req[q].k,
           \A d \in Seeded \ disturbed' :
               d \in lists["onboarding"].done => d \in lists'["onboarding"].done
    PROVE  Seedings'
<1> SUFFICES ASSUME NEW d \in Seeded \ disturbed' PROVE SeedsOnce(d)'
  BY DEF Seedings
<1>1. SeedsOnce(d)
  BY DEF Seedings
<1> QED
  BY <1>1 DEF SeedsOnce

-----------------------------------------------------------------------------
(* What a user asks for. *)

\* The conjuncts of the invariant that are about one variable.
LEMMA InvParts ==
    WorkspaceInv <=> /\ RowsTyped /\ CertifiedChecked
                     /\ lists \in [Checklists -> Checklist]
                     /\ req \in [Requests -> Request] /\ RequestsSound
                     /\ created \in [Seeded -> [1..SeedSize -> Nat]] /\ Seedings
                     /\ disturbed \subseteq Seeded /\ count \in Nat
BY DEF WorkspaceInv, WorkspaceTypeOK, RowsTyped

LEMMA RowsStay ==
    ASSUME RowsTyped, CertifiedChecked, UNCHANGED rows
    PROVE  RowsTyped' /\ Grown /\ CertifiedChecked'
<1>1. \A kind : Existing(kind)' = Existing(kind)
  BY DEF Existing
<1> QED
  BY <1>1 DEF RowsTyped, Grown, CertifiedChecked

LEMMA IdleKind ==
    ASSUME RequestsSound, NEW r \in Requests, req[r].at = "idle"
    PROVE  req[r].kind = "none" /\ req[r].kind \notin Seeded
<1>1. req[r].op = "none" /\ (req[r].kind # "none" <=> req[r].op \in {"seed", "mark"})
  BY DEF RequestsSound, Given
<1> QED
  BY <1>1 DEF Seeded

LEMMA BeginStep ==
    ASSUME WorkspaceInv, NEW r \in Requests, NEW w \in Request, Begin(r, w),
           Given(w), About(w, rows), w.kind = "none"
    PROVE  WorkspaceInv'
<1>0. /\ RowsTyped /\ CertifiedChecked /\ lists \in [Checklists -> Checklist]
      /\ req \in [Requests -> Request] /\ RequestsSound
      /\ created \in [Seeded -> [1..SeedSize -> Nat]] /\ Seedings
      /\ disturbed \subseteq Seeded /\ count \in Nat
  BY InvParts
<1>1. RowsTyped' /\ Grown /\ CertifiedChecked'
  BY <1>0, RowsStay DEF Begin
<1>2. /\ Goes(r, w) /\ UNCHANGED <<rows, lists, created, disturbed>> /\ count' = count + 1
      /\ req[r].at = "idle"
  BY DEF Begin, Goes, Free
<1>3. req' \in [Requests -> Request] /\ RequestsSound'
  BY <1>0, <1>1, <1>2, AloneMoves
<1>4. Seedings'
  <2>1. \A q \in Requests : /\ req'[q].kind = req[q].kind
                            /\ req[q].kind \in Seeded => req'[q].k = req[q].k
    BY <1>0, <1>2, IdleKind DEF Goes
  <2> QED
    BY <1>0, <1>2, <2>1, SeedingsKept
<1> QED
  BY <1>0, <1>1, <1>2, <1>3, <1>4 DEF WorkspaceInv, WorkspaceTypeOK, RowsTyped

\* The requests about a row that has been loaded.
Loading(q) ==
    /\ q \in Request /\ q.kind = "none" /\ q.at \in {"vet", "commit"}
    /\ q.op \in {"certify", "uncertify", "text", "name", "move", "run", "delete", "duplicate",
                 "widget", "reorder", "revoke"}
    /\ q.at = "vet" <=> q.op = "certify"
    /\ q.op = "name" => q.num \in 0..Names

LEMMA CommitLoading ==
    ASSUME NEW op \in {"uncertify", "text", "name", "move", "run", "delete", "duplicate",
                       "widget", "reorder", "revoke"}
    PROVE  /\ Loading(Commit(op))
           /\ \A t \in Texts : Loading([Commit(op) EXCEPT !.text = t])
           /\ \A n \in 0..Names : Loading([Commit(op) EXCEPT !.num = n])
           /\ \A o \in SUBSET (Ids \X Nat) : Loading([Commit(op) EXCEPT !.order = o])
           /\ Commit(op).op = op
           /\ \A o : [Commit(op) EXCEPT !.order = o].op = op
           /\ \A t : [Commit(op) EXCEPT !.text = t].op = op
           /\ \A n : [Commit(op) EXCEPT !.num = n].op = op
<1>1. Idle \in Request /\ Idle.kind = "none"
  BY IdleSound DEF Idle
<1>2. Commit(op) \in Request /\ Commit(op).kind = "none" /\ Commit(op).at = "commit"
      /\ Commit(op).op = op
  <2> DEFINE w == [Idle EXCEPT !.at = "commit"]
  <2>1. w \in Request /\ w.kind = "none" /\ w.at = "commit"
    BY <1>1 DEF Request
  <2>2. Commit(op) = [w EXCEPT !.op = op]
    BY DEF Commit
  <2> HIDE DEF w
  <2>3. [w EXCEPT !.op = op] \in Request
    BY <2>1 DEF Request
  <2> QED
    BY <2>1, <2>2, <2>3 DEF Request
<1> DEFINE c == Commit(op)
<1>3. c \in Request /\ c.kind = "none" /\ c.at = "commit" /\ c.op = op /\ c.num \in 0..Names
  BY <1>1, <1>2, WorkspaceAssumption DEF Commit, Idle
<1>4. Loading(c)
  BY <1>3 DEF Loading
<1> HIDE DEF c
<1>5. \A t \in Texts : Loading([c EXCEPT !.text = t])
  BY <1>3 DEF Loading, Request
<1>6. \A n \in 0..Names : Loading([c EXCEPT !.num = n])
  <2>1. 0..Names \subseteq Nat
    BY WorkspaceAssumption
  <2> QED
    BY <1>3, <2>1 DEF Loading, Request
<1>7. \A o \in SUBSET (Ids \X Nat) : Loading([c EXCEPT !.order = o])
  BY <1>3 DEF Loading, Request
<1>8. /\ \A o : [c EXCEPT !.order = o].op = op
      /\ \A t : [c EXCEPT !.text = t].op = op
      /\ \A n : [c EXCEPT !.num = n].op = op
  BY <1>3 DEF Request
<1> QED
  BY <1>3, <1>4, <1>5, <1>6, <1>7, <1>8 DEF c

\* The widgets shown are existing ones and finitely many.
LEMMA ShownSound ==
    ASSUME RowsTyped, NEW d \in Ids
    PROVE  /\ Shown(d) \in SUBSET (Ids \X Nat) /\ IsFiniteSet(Shown(d))
           /\ \A pair \in Shown(d) : pair[1] \in WidgetsOf(d)
<1>1. WidgetsOf(d) \subseteq Ids /\ Ids = 1..MaxRows /\ MaxRows \in Int
  BY WorkspaceAssumption DEF WidgetsOf, Existing, Ids
<1>2. IsFiniteSet(WidgetsOf(d))
  BY <1>1, FS_Interval, FS_Subset
<1>3. \A w \in WidgetsOf(d) : rows[w].num \in Nat
  BY <1>1 DEF RowsTyped, WorkspaceRow
<1>4. Shown(d) \in SUBSET (Ids \X Nat) /\ \A pair \in Shown(d) : pair[1] \in WidgetsOf(d)
  BY <1>1, <1>3 DEF Shown
<1>5. [w \in WidgetsOf(d) |-> <<w, rows[w].num>>] \in Surjection(WidgetsOf(d), Shown(d))
  BY DEF Surjection, Shown
<1>6. IsFiniteSet(Shown(d))
  BY <1>2, <1>5, FS_Surjection
<1> QED
  BY <1>4, <1>6

LEMMA LoadStep ==
    ASSUME WorkspaceInv, NEW r \in Requests, NEW i \in Ids, NEW q, Loading(q), Load(r, i, q),
           q.op = "widget" => rows[i].kind = "dashboard"
    PROVE  WorkspaceInv'
<1> DEFINE w == [q EXCEPT !.id = i, !.row = rows[i], !.seen = Shown(i)]
<1>0. RowsTyped /\ Begin(r, w) /\ rows[i].st = "row" /\ rows[i] \in WorkspaceRow
  BY InvParts DEF Load, RowsTyped
<1>1. /\ Shown(i) \in SUBSET (Ids \X Nat) /\ IsFiniteSet(Shown(i))
      /\ \A pair \in Shown(i) : pair[1] \in WidgetsOf(i)
  BY <1>0, ShownSound
<1>2. q \in Request
  BY DEF Loading
<1>3. /\ w \in Request /\ w.kind = q.kind /\ w.at = q.at /\ w.op = q.op
      /\ w.id = i /\ w.row = rows[i] /\ w.seen = Shown(i) /\ w.num = q.num
  BY <1>0, <1>1, <1>2 DEF Request
<1> HIDE DEF w
<1>4. Given(w)
  BY <1>1, <1>3 DEF Given, Loading, Targeted, Seeded
<1>5. About(w, rows)
  <2>1. \A v \in Seen(w) : v \in WidgetsOf(i)
    BY <1>1, <1>3 DEF Seen
  <2>2. \A v \in Seen(w) : rows[v].st # "unborn" /\ rows[v].kind = "widget"
    BY <2>1 DEF WidgetsOf, Existing
  <2> QED
    BY <1>0, <1>3, <2>2 DEF About, Loading
<1>6. w.kind = "none"
  BY <1>3 DEF Loading
<1> QED
  BY <1>0, <1>3, <1>4, <1>5, <1>6, BeginStep

LEMMA NewSound ==
    ASSUME NEW kind \in Kinds, NEW name \in 0..Names, NEW text \in Texts \cup {NoText}
    PROVE  /\ New(kind, name, text) \in WorkspaceRow
           /\ New(kind, name, text).st = "row" /\ New(kind, name, text).kind = kind
           /\ ~New(kind, name, text).certified /\ New(kind, name, text).text = text
<1>1. Unborn \in WorkspaceRow /\ Unborn.certified = FALSE
  BY WorkspaceAssumption DEF Unborn, WorkspaceRow, Kinds
<1> QED
  BY <1>1 DEF New, WorkspaceRow

\* The insertion of one row.
LEMMA InsertOne ==
    ASSUME RowsTyped, CertifiedChecked, NEW row \in WorkspaceRow, row.st = "row", ~row.certified,
           row.kind = "widget" => row.of \in Existing("dashboard"), Insert(<<row>>, 1)
    PROVE  /\ RowsTyped' /\ Grown /\ CertifiedChecked'
           /\ Made \in Nat /\ Made + 1 \in Ids /\ rows'[Made + 1] = row
           /\ \A i \in Ids : rows[i].st # "unborn" => rows'[i] = rows[i]
<1> DEFINE new == <<row>>
<1>1. \A j \in 1..1 : j = 1 /\ new[j] = row
  OBVIOUS
<1>2. Insert(new, 1)
  OBVIOUS
<1> HIDE DEF new
<1>3. /\ \A j \in 1..1 : new[j] \in WorkspaceRow /\ new[j].st = "row" /\ ~new[j].certified
      /\ \A j \in 1..1 : new[j].kind = "widget" =>
             \/ new[j].of \in Existing("dashboard")
             \/ 1 >= 1 /\ new[j].of = Made + 1 /\ new[1].kind = "dashboard"
      /\ 1 \in Nat
  BY <1>1
<1>4. /\ RowsTyped' /\ Grown /\ CertifiedChecked' /\ Made \in Nat
      /\ \A i \in Ids : rows[i].st # "unborn" => rows'[i] = rows[i]
      /\ \A j \in 1..1 : Made + j \in Ids /\ rows'[Made + j] = new[j]
  BY <1>2, <1>3, InsertedRows, Zenon
<1> QED
  BY <1>1, <1>4

LEMMA CreateStep ==
    ASSUME WorkspaceInv, NEW r \in Requests, NEW kind \in Kinds \ {"widget"}, NEW name \in 0..Names,
           NEW text \in Texts \cup {NoText}, Create(r, kind, name, text)
    PROVE  WorkspaceInv'
<1>0. /\ RowsTyped /\ CertifiedChecked /\ lists \in [Checklists -> Checklist]
      /\ req \in [Requests -> Request] /\ RequestsSound
      /\ created \in [Seeded -> [1..SeedSize -> Nat]] /\ Seedings
      /\ disturbed \subseteq Seeded /\ count \in Nat
  BY InvParts
<1>1. /\ Insert(<<New(kind, name, text)>>, 1) /\ count' = count + 1
      /\ UNCHANGED <<lists, req, created, disturbed>>
  BY DEF Create
<1>2. /\ RowsTyped' /\ Grown /\ CertifiedChecked'
      /\ \A i \in Ids : rows[i].st # "unborn" => rows'[i] = rows[i]
  BY <1>0, <1>1, NewSound, InsertOne
<1>3. RequestsSound'
  BY <1>0, <1>1, <1>2, NobodyMoves
<1>4. Seedings'
  BY <1>0, <1>1, SeedingsKept
<1> QED
  BY <1>0, <1>1, <1>2, <1>3, <1>4 DEF WorkspaceInv, WorkspaceTypeOK, RowsTyped

LEMMA RequestExportStep ==
    ASSUME WorkspaceInv, NEW r \in Requests, RequestExport(r) PROVE WorkspaceInv'
<1>0. /\ RowsTyped /\ CertifiedChecked /\ lists \in [Checklists -> Checklist]
      /\ req \in [Requests -> Request] /\ RequestsSound
      /\ created \in [Seeded -> [1..SeedSize -> Nat]] /\ Seedings
      /\ disturbed \subseteq Seeded /\ count \in Nat
  BY InvParts
<1> DEFINE row == [New("job", 0, NoText) EXCEPT !.status = "queued"]
           w   == [Idle EXCEPT !.at = "commit", !.op = "export", !.id = Made + 1]
<1>1. /\ Insert(<<row>>, 1) /\ Goes(r, w) /\ count' = count + 1 /\ req[r].at = "idle"
      /\ UNCHANGED <<lists, created, disturbed>>
  BY DEF RequestExport, Free
<1>2. row \in WorkspaceRow /\ row.st = "row" /\ ~row.certified /\ row.kind = "job"
  <2>1. "job" \in Kinds /\ 0 \in 0..Names
    BY WorkspaceAssumption DEF Kinds
  <2> QED
    BY <2>1, NewSound DEF WorkspaceRow
<1> HIDE DEF row
<1>3. /\ RowsTyped' /\ Grown /\ CertifiedChecked' /\ Made + 1 \in Ids /\ rows'[Made + 1] = row
      /\ \A i \in Ids : rows[i].st # "unborn" => rows'[i] = rows[i]
  BY <1>0, <1>1, <1>2, InsertOne
<1>4. /\ w \in Request /\ w.kind = "none" /\ w.at = "commit" /\ w.op = "export"
      /\ w.id = Made + 1 /\ w.seen = {} /\ Idle.kind = "none"
  BY <1>3, IdleSound DEF Idle, Request
<1> HIDE DEF w
<1>5. Given(w)
  BY <1>3, <1>4, FS_EmptySet DEF Given, Targeted, Seeded
<1>6. About(w, rows')
  BY <1>2, <1>3, <1>4 DEF About, Seen
<1>7. req' \in [Requests -> Request] /\ RequestsSound'
  BY <1>0, <1>1, <1>3, <1>4, <1>5, <1>6, AloneMoves
<1>8. Seedings'
  <2>1. \A q \in Requests : /\ req'[q].kind = req[q].kind
                            /\ req[q].kind \in Seeded => req'[q].k = req[q].k
    BY <1>0, <1>1, <1>4, IdleKind DEF Goes
  <2> QED
    BY <1>0, <1>1, <2>1, SeedingsKept
<1> QED
  BY <1>0, <1>1, <1>3, <1>7, <1>8 DEF WorkspaceInv, WorkspaceTypeOK, RowsTyped

\* Of a checklist written as a whole, the markers lost are noted.
LEMMA WritesSound ==
    ASSUME lists \in [Checklists -> Checklist], disturbed \subseteq Seeded,
           NEW l \in Checklists, NEW done \in SUBSET (Items \cup Seeded), Writes(l, done)
    PROVE  /\ lists' \in [Checklists -> Checklist] /\ disturbed' \subseteq Seeded
           /\ disturbed \subseteq disturbed' /\ lists'[l].done = done
           /\ \A d \in Seeded \ disturbed' :
                 d \in lists["onboarding"].done => d \in lists'["onboarding"].done
<1>1. [st |-> TRUE, done |-> done] \in Checklist /\ "onboarding" \in Checklists
  BY DEF Checklist, Checklists
<1>2. lists' \in [Checklists -> Checklist] /\ lists'[l].done = done
  BY <1>1 DEF Writes
<1>3. disturbed' \subseteq Seeded /\ disturbed \subseteq disturbed'
  BY DEF Writes
<1>4. ASSUME NEW d \in Seeded \ disturbed', d \in lists["onboarding"].done
      PROVE  d \in lists'["onboarding"].done
  <2>1. CASE l = "onboarding"
    BY <1>2, <1>4, <2>1 DEF Writes
  <2>2. CASE l # "onboarding"
    BY <1>1, <1>4, <2>2 DEF Writes
  <2> QED
    BY <2>1, <2>2
<1> QED
  BY <1>2, <1>3, <1>4

LEMMA ResetStep ==
    ASSUME WorkspaceInv, NEW r \in Requests, ResetTutorial(r) PROVE WorkspaceInv'
<1>0. /\ RowsTyped /\ CertifiedChecked /\ lists \in [Checklists -> Checklist]
      /\ req \in [Requests -> Request] /\ RequestsSound
      /\ created \in [Seeded -> [1..SeedSize -> Nat]] /\ Seedings
      /\ disturbed \subseteq Seeded /\ count \in Nat
  BY InvParts
<1>1. Writes("tutorial", {}) /\ count' = count + 1 /\ UNCHANGED <<rows, req, created>>
  BY DEF ResetTutorial
<1>2. /\ lists' \in [Checklists -> Checklist] /\ disturbed' \subseteq Seeded
      /\ disturbed \subseteq disturbed'
      /\ \A d \in Seeded \ disturbed' :
            d \in lists["onboarding"].done => d \in lists'["onboarding"].done
  BY <1>0, <1>1, WritesSound DEF Checklists
<1>3. RowsTyped' /\ Grown /\ CertifiedChecked'
  BY <1>0, <1>1, RowsStay
<1>4. RequestsSound'
  BY <1>0, <1>1, <1>3, NobodyMoves
<1>5. Seedings'
  BY <1>0, <1>1, <1>2, SeedingsKept
<1> QED
  BY <1>0, <1>1, <1>2, <1>3, <1>4, <1>5 DEF WorkspaceInv, WorkspaceTypeOK, RowsTyped

LEMMA TickStep ==
    ASSUME WorkspaceInv, NEW r \in Requests, NEW l \in Checklists, NEW S \in SUBSET Items,
           TickItems(r, l, S)
    PROVE  WorkspaceInv'
<1> DEFINE c == lists[l]
           w == [Idle EXCEPT !.at = "commit", !.op = "tick", !.list = l, !.ticks = S, !.loaded = c]
<1>1. c \in Checklist /\ Begin(r, w)
  BY InvParts DEF TickItems
<1> HIDE DEF c
<1>2. /\ w \in Request /\ w.kind = "none" /\ w.at = "commit" /\ w.op = "tick"
      /\ w.id = 0 /\ w.seen = {}
  BY <1>1, IdleSound DEF Idle, Request
<1> HIDE DEF w
<1>3. Given(w)
  BY <1>2, FS_EmptySet DEF Given, Targeted, Seeded
<1>4. About(w, rows)
  BY <1>2 DEF About, Seen
<1> QED
  BY <1>1, <1>2, <1>3, <1>4, BeginStep

LEMMA PutStep ==
    ASSUME WorkspaceInv, NEW r \in Requests, NEW t \in Texts, PutInstructions(r, t)
    PROVE  WorkspaceInv'
<1> DEFINE S == Existing("instructions")
           i == IF S = {} THEN 0 ELSE CHOOSE j \in S : TRUE
           w == [Idle EXCEPT !.at = "commit", !.op = "put", !.text = t, !.id = i]
<1>1. i \in Ids \cup {0} /\ (i # 0 => rows[i].st = "row" /\ rows[i].kind = "instructions")
  BY DEF Existing
<1>2. Begin(r, w) \/ Begin(r, Idle)
  BY DEF PutInstructions
<1> HIDE DEF i
<1>3. /\ w \in Request /\ w.kind = "none" /\ w.at = "commit" /\ w.op = "put"
      /\ w.id = i /\ w.seen = {}
  BY <1>1, IdleSound DEF Idle, Request
<1> HIDE DEF w
<1>4. Given(w)
  BY <1>3, FS_EmptySet DEF Given, Targeted, Seeded
<1>5. About(w, rows)
  BY <1>1, <1>3 DEF About, Seen
<1>6. Idle.kind = "none"
  BY DEF Idle
<1> QED
  BY <1>2, <1>3, <1>4, <1>5, <1>6, BeginStep, IdleSound

LEMMA ListStep ==
    ASSUME WorkspaceInv, NEW r \in Requests, NEW d \in Seeded, List(r, d) PROVE WorkspaceInv'
<1>0. /\ RowsTyped /\ CertifiedChecked /\ lists \in [Checklists -> Checklist]
      /\ req \in [Requests -> Request] /\ RequestsSound
      /\ created \in [Seeded -> [1..SeedSize -> Nat]] /\ Seedings
      /\ disturbed \subseteq Seeded /\ count \in Nat
  BY InvParts
<1>1. /\ UNCHANGED <<rows, lists, created>> /\ count' = count + 1 /\ req[r].at = "idle"
      /\ (d \in lists["onboarding"].done /\ UNCHANGED <<req, disturbed>>)
         \/ (d \notin lists["onboarding"].done /\ Seeding(r, d))
  BY DEF List, Free
<1>2. RowsTyped' /\ Grown /\ CertifiedChecked'
  BY <1>0, <1>1, RowsStay
<1>3. req' \in [Requests -> Request] /\ RequestsSound' /\ Seedings' /\ disturbed' \subseteq Seeded
  <2>1. CASE UNCHANGED <<req, disturbed>>
    BY <1>0, <1>1, <1>2, <2>1, NobodyMoves, SeedingsKept
  <2>2. CASE d \notin lists["onboarding"].done /\ Seeding(r, d)
    <3> DEFINE w == [Idle EXCEPT !.at = "seed", !.op = "seed", !.kind = d, !.k = 1]
    <3>1. Goes(r, w) /\ disturbed' = IF Overlaps(r, d) THEN disturbed \cup {d} ELSE disturbed
      BY <2>2 DEF Seeding, Goes
    <3>2. /\ w \in Request /\ w.at = "seed" /\ w.op = "seed" /\ w.kind = d /\ w.k = 1
          /\ w.id = 0 /\ w.seen = {}
      <4>1. d \in Kinds
        BY DEF Kinds
      <4> QED
        BY <4>1, IdleSound DEF Idle, Request
    <3> HIDE DEF w
    <3>3. Given(w)
      <4>1. 1 \in 1..SeedSize /\ d # "none"
        BY WorkspaceAssumption DEF Seeded
      <4> QED
        BY <3>2, <4>1, FS_EmptySet DEF Given, Targeted
    <3>4. About(w, rows')
      BY <3>2 DEF About, Seen
    <3>5. req' \in [Requests -> Request] /\ RequestsSound' /\ req'[r] = w
      BY <1>0, <1>1, <1>2, <3>1, <3>2, <3>3, <3>4, AloneMoves
    <3>6. /\ req[r].kind \notin Seeded
          /\ \A q \in Requests \ {r} : req'[q] = req[q]
      BY <1>0, <1>1, <3>1, IdleKind DEF Goes
    <3>7. ASSUME NEW e \in Seeded \ disturbed' PROVE SeedsOnce(e)'
      <4>1. e \notin disturbed /\ SeedsOnce(e)
        BY <1>0, <3>1 DEF Seedings
      <4>2. CASE e = d
        <5>1. \A q \in Requests \ {r} : req[q].kind # d
          BY <3>1, <3>7, <4>2 DEF Overlaps
        <5>2. \A q \in Requests : req[q].kind # d
          BY <3>6, <5>1
        <5>3. \A k \in 1..SeedSize : created[d][k] = 0
          BY <2>2, <4>1, <4>2, <5>2 DEF SeedsOnce
        <5>4. \A q, p \in Requests : req'[q].kind = d /\ req'[p].kind = d => q = p
          BY <3>6, <5>1
        <5> QED
          BY <1>1, <3>2, <3>5, <4>2, <5>3, <5>4 DEF SeedsOnce
      <4>3. CASE e # d
        <5>1. \A q \in Requests : (req'[q].kind = e <=> req[q].kind = e)
                                  /\ (req[q].kind = e => req'[q] = req[q])
          BY <3>2, <3>5, <3>6, <4>3
        <5> QED
          BY <1>1, <4>1, <5>1 DEF SeedsOnce
      <4> QED
        BY <4>2, <4>3
    <3> QED
      BY <1>0, <3>1, <3>5, <3>7 DEF Seedings
  <2> QED
    BY <1>1, <2>1, <2>2
<1> QED
  BY <1>0, <1>1, <1>2, <1>3 DEF WorkspaceInv, WorkspaceTypeOK, RowsTyped

LEMMA OrdersTyped ==
    ASSUME RowsTyped, NEW d \in Ids, NEW o \in Orders(d) PROVE o \in SUBSET (Ids \X Nat)
<1>1. PICK S \in SUBSET WidgetsOf(d) : \E f \in Bijection(1..Cardinality(S), S) :
          o = {<<f[j], j - 1>> : j \in DOMAIN f}
  BY DEF Orders
<1>2. S \in SUBSET Ids
  BY DEF WidgetsOf, Existing
<1>3. IsFiniteSet(S)
  <2>1. IsFiniteSet(Ids)
    BY WorkspaceAssumption, FS_Interval DEF Ids
  <2> QED
    BY <1>2, <2>1, FS_Subset
<1>4. Cardinality(S) \in Nat
  BY <1>3, FS_CardinalityType
<1>5. PICK f \in Bijection(1..Cardinality(S), S) : o = {<<f[j], j - 1>> : j \in DOMAIN f}
  BY <1>1
<1> DEFINE n == Cardinality(S)
<1>6. f \in [1..n -> S] /\ n \in Nat /\ o = {<<f[j], j - 1>> : j \in DOMAIN f}
  BY <1>4, <1>5 DEF Bijection, Injection
<1> HIDE DEF n
<1>7. \A j \in 1..n : f[j] \in Ids /\ j - 1 \in Nat
  BY <1>2, <1>6
<1>8. DOMAIN f = 1..n
  BY <1>6
<1> QED
  BY <1>6, <1>7, <1>8

\* The requests about a row that is there.
LEMMA ChangeStep ==
    ASSUME WorkspaceInv, NEW r \in Requests, NEW i \in Ids, NEW kind
    PROVE  /\ Retitle(r, i, kind) => WorkspaceInv'
           /\ Rewrite(r, i, kind) => WorkspaceInv'
           /\ Remove(r, i, kind) => WorkspaceInv'
<1>1. ASSUME Retitle(r, i, kind) PROVE WorkspaceInv'
  <2>1. PICK n \in 1..Names : Load(r, i, [Commit("name") EXCEPT !.num = n])
    BY <1>1 DEF Retitle
  <2>2. n \in 0..Names
    OBVIOUS
  <2> DEFINE w == [Commit("name") EXCEPT !.num = n]
  <2>3. Loading(w) /\ w.op = "name" /\ Load(r, i, w)
    BY <2>1, <2>2, CommitLoading
  <2> HIDE DEF w
  <2> QED
    BY <2>3, LoadStep
<1>2. ASSUME Rewrite(r, i, kind) PROVE WorkspaceInv'
  <2>1. PICK t \in Texts : Load(r, i, [Commit("text") EXCEPT !.text = t])
    BY <1>2 DEF Rewrite
  <2> DEFINE w == [Commit("text") EXCEPT !.text = t]
  <2>2. Loading(w) /\ w.op = "text" /\ Load(r, i, w)
    BY <2>1, CommitLoading
  <2> HIDE DEF w
  <2> QED
    BY <2>2, LoadStep
<1>3. ASSUME Remove(r, i, kind) PROVE WorkspaceInv'
  <2> DEFINE w == Commit("delete")
  <2>1. Loading(w) /\ w.op = "delete" /\ Load(r, i, w)
    BY <1>3, CommitLoading DEF Remove
  <2> HIDE DEF w
  <2> QED
    BY <2>1, LoadStep
<1> QED
  BY <1>1, <1>2, <1>3

LEMMA CertifyLoading ==
    LET w == [Idle EXCEPT !.at = "vet", !.op = "certify"]
    IN  Loading(w) /\ w.op = "certify"
<1> DEFINE w == [Idle EXCEPT !.at = "vet", !.op = "certify"]
<1>1. Idle \in Request /\ Idle.kind = "none"
  BY IdleSound DEF Idle
<1>2. w \in Request /\ w.kind = "none" /\ w.at = "vet" /\ w.op = "certify"
  BY <1>1 DEF Request
<1> HIDE DEF w
<1>3. Loading(w)
  BY <1>2 DEF Loading
<1> QED
  BY <1>2, <1>3 DEF w

LEMMA UseStep ==
    ASSUME WorkspaceInv, NEW r \in Requests, NEW i \in Ids,
           \/ RunSavedQuery(r, i) \/ UpdateWidget(r, i) \/ UncertifyMetric(r, i)
           \/ CertifyMetric(r, i) \/ OnDashboard(r, i) \/ RevokeShare(r, i)
    PROVE  WorkspaceInv'
<1>1. \A op \in {"run", "revoke", "uncertify", "duplicate"} :
          Load(r, i, Commit(op)) => WorkspaceInv'
  <2> SUFFICES ASSUME NEW op \in {"run", "revoke", "uncertify", "duplicate"},
                      Load(r, i, Commit(op))
               PROVE  WorkspaceInv'
    OBVIOUS
  <2> DEFINE w == Commit(op)
  <2>1. Loading(w) /\ w.op = op /\ Load(r, i, w)
    BY CommitLoading
  <2> HIDE DEF w
  <2> QED
    BY <2>1, LoadStep
<1>2. CASE UpdateWidget(r, i)
  <2>1. PICK n \in 0..1 : Load(r, i, [Commit("move") EXCEPT !.num = n])
    BY <1>2 DEF UpdateWidget
  <2> DEFINE w == [Commit("move") EXCEPT !.num = n]
  <2>2. Loading(w) /\ w.op = "move" /\ Load(r, i, w)
    BY <2>1, CommitLoading, WorkspaceAssumption
  <2> HIDE DEF w
  <2> QED
    BY <2>2, LoadStep
<1>3. CASE CertifyMetric(r, i)
  <2> DEFINE w == [Idle EXCEPT !.at = "vet", !.op = "certify"]
  <2>1. Loading(w) /\ w.op = "certify" /\ Load(r, i, w)
    BY <1>3, CertifyLoading DEF CertifyMetric
  <2> HIDE DEF w
  <2> QED
    BY <2>1, LoadStep
<1>4. CASE OnDashboard(r, i)
  <2>0. RowsTyped /\ rows[i].kind = "dashboard"
    BY <1>4, InvParts DEF OnDashboard, Existing
  <2>1. CASE Load(r, i, Commit("widget"))
    <3> DEFINE w == Commit("widget")
    <3>1. Loading(w) /\ w.op = "widget" /\ Load(r, i, w)
      BY <2>1, CommitLoading
    <3> HIDE DEF w
    <3> QED
      BY <2>0, <3>1, LoadStep
  <2>2. ASSUME NEW o \in Orders(i), Load(r, i, [Commit("reorder") EXCEPT !.order = o])
        PROVE  WorkspaceInv'
    <3> DEFINE w == [Commit("reorder") EXCEPT !.order = o]
    <3>1. Loading(w) /\ w.op = "reorder" /\ Load(r, i, w)
      BY <2>0, <2>2, OrdersTyped, CommitLoading
    <3> HIDE DEF w
    <3> QED
      BY <3>1, LoadStep
  <2> QED
    BY <1>1, <1>4, <2>1, <2>2 DEF OnDashboard
<1> QED
  BY <1>1, <1>2, <1>3, <1>4 DEF RunSavedQuery, UncertifyMetric, RevokeShare

LEMMA AskStep ==
    ASSUME WorkspaceInv, NEW r \in Requests, Ask(r) PROVE WorkspaceInv'
<1>1. \A kind \in Kinds \ {"widget"} :
          (\/ Texted(r, kind) \/ Named(r, kind) \/ Create(r, kind, 0, NoText)) => WorkspaceInv'
  <2>1. 0 \in 0..Names /\ \A n \in 1..Names : n \in 0..Names
    BY WorkspaceAssumption
  <2> QED
    BY <2>1, CreateStep DEF Texted, Named
<1>2. CASE \/ CreateTemplate(r) \/ CreateMetric(r) \/ CreateGlossaryEntry(r)
           \/ CreateSavedQuery(r) \/ CreateDashboard(r) \/ PinTable(r) \/ CreateShare(r)
  BY <1>1, <1>2 DEF CreateTemplate, CreateMetric, CreateGlossaryEntry, CreateSavedQuery,
                    CreateDashboard, PinTable, CreateShare, Kinds, Seeded
<1>3. CASE \/ RequestExport(r) \/ ResetTutorial(r)
           \/ \E d \in Seeded : List(r, d)
           \/ \E l \in Checklists, S \in SUBSET Items : TickItems(r, l, S)
           \/ \E t \in Texts : PutInstructions(r, t)
  BY <1>3, RequestExportStep, ResetStep, ListStep, TickStep, PutStep
<1>4. ASSUME NEW i \in Ids,
             \/ PatchTemplate(r, i) \/ UpdateMetric(r, i) \/ PatchGlossaryEntry(r, i)
             \/ PatchSavedQuery(r, i) \/ RenameDashboard(r, i)
             \/ DeleteTemplate(r, i) \/ DeleteMetric(r, i) \/ DeleteGlossaryEntry(r, i)
             \/ DeleteSavedQuery(r, i) \/ DeleteDashboard(r, i) \/ DeleteWidget(r, i)
             \/ UnpinTable(r, i)
      PROVE  WorkspaceInv'
  BY <1>4, ChangeStep DEF PatchTemplate, UpdateMetric, PatchGlossaryEntry, PatchSavedQuery,
       RenameDashboard, DeleteTemplate, DeleteMetric, DeleteGlossaryEntry, DeleteSavedQuery,
       DeleteDashboard, DeleteWidget, UnpinTable
<1> QED
  BY <1>2, <1>3, <1>4, UseStep DEF Ask

-----------------------------------------------------------------------------
(* What the requests do. *)

LEMMA RequestFacts ==
    ASSUME WorkspaceInv, NEW r \in Requests
    PROVE  /\ req[r] \in Request /\ Given(req[r]) /\ About(req[r], rows)
           /\ req[r].op \notin {"seed", "mark"} => req[r].kind = "none" /\ req[r].kind \notin Seeded
           /\ req[r].op \notin {"none", "seed", "mark", "tick", "put"}
                 => req[r].id \in Ids /\ rows[req[r].id].st # "unborn"
           /\ req[r].at \in {"open", "vet", "commit"} /\ req[r].op = "seed"
                 => req[r].id \in Ids /\ rows[req[r].id].st # "unborn"
<1>1. req[r] \in Request /\ Given(req[r]) /\ About(req[r], rows)
  BY InvParts DEF RequestsSound
<1>2. req[r].op \notin {"seed", "mark"} => req[r].kind = "none" /\ req[r].kind \notin Seeded
  BY <1>1 DEF Given, Seeded
<1>3. /\ req[r].op \notin {"none", "seed", "mark", "tick", "put"} => req[r].id \in Ids
      /\ req[r].at \in {"open", "vet", "commit"} /\ req[r].op = "seed" => req[r].id \in Ids
  BY <1>1 DEF Given, Targeted
<1>4. req[r].id \in Ids => rows[req[r].id].st # "unborn"
  BY <1>1 DEF About, Ids
<1> QED
  BY <1>1, <1>2, <1>3, <1>4

\* Steps that change the request alone.
LEMMA AloneStep ==
    ASSUME WorkspaceInv, NEW r \in Requests, NEW w \in Request, Goes(r, w),
           Given(w), About(w, rows), UNCHANGED <<rows, lists, created, disturbed, count>>,
           w.kind = req[r].kind, w.kind \in Seeded => w.k = req[r].k
    PROVE  WorkspaceInv'
<1>0. /\ RowsTyped /\ CertifiedChecked /\ lists \in [Checklists -> Checklist]
      /\ req \in [Requests -> Request] /\ RequestsSound
      /\ created \in [Seeded -> [1..SeedSize -> Nat]] /\ Seedings
      /\ disturbed \subseteq Seeded /\ count \in Nat
  BY InvParts
<1>1. RowsTyped' /\ Grown /\ CertifiedChecked'
  BY <1>0, RowsStay
<1>2. req' \in [Requests -> Request] /\ RequestsSound'
  BY <1>0, <1>1, AloneMoves
<1>3. Seedings'
  <2>1. \A q \in Requests : /\ req'[q].kind = req[q].kind
                            /\ req[q].kind \in Seeded => req'[q].k = req[q].k
    BY <1>0 DEF Goes
  <2> QED
    BY <1>0, <2>1, SeedingsKept
<1> QED
  BY <1>0, <1>1, <1>2, <1>3 DEF WorkspaceInv, WorkspaceTypeOK, RowsTyped

LEMMA GiveUp ==
    ASSUME WorkspaceInv, NEW r \in Requests, Goes(r, Idle), req[r].op \notin {"seed", "mark"},
           UNCHANGED <<rows, lists, created, disturbed, count>>
    PROVE  WorkspaceInv'
<1>1. Idle.kind = "none" /\ req[r].kind = "none" /\ Idle.kind \notin Seeded
  BY RequestFacts DEF Idle, Seeded
<1> QED
  BY <1>1, IdleSound, AloneStep

LEMMA AloneSteps ==
    ASSUME WorkspaceInv, NEW r \in Requests,
           \/ ReadMarkers(r) \/ Open(r) \/ Vet(r) \/ ReadExport(r) \/ ExportRaises(r)
           \/ AbandonExport(r) \/ RequestFails(r)
    PROVE  WorkspaceInv'
<1> DEFINE q == req[r]
<1>0. /\ RowsTyped /\ lists \in [Checklists -> Checklist] /\ q \in Request
      /\ Given(q) /\ About(q, rows)
      /\ q.op \notin {"none", "seed", "mark", "tick", "put"} => q.id \in Ids
      /\ q.at \in {"open", "vet", "commit"} /\ q.op = "seed"
            => q.id \in Ids /\ rows[q.id].st # "unborn"
  BY InvParts, RequestFacts
<1>1. CASE ReadMarkers(r)
  <2> DEFINE c == lists["onboarding"]
             w == [q EXCEPT !.at = "commit", !.op = "mark", !.loaded = c]
  <2>1. c \in Checklist /\ Goes(r, w) /\ UNCHANGED <<rows, lists, created, disturbed, count>>
        /\ q.at = "marking"
    BY <1>0, <1>1 DEF ReadMarkers, Checklists
  <2> HIDE DEF c
  <2>2. /\ w \in Request /\ w.at = "commit" /\ w.op = "mark" /\ w.kind = q.kind /\ w.k = q.k
        /\ w.id = q.id /\ w.seen = q.seen /\ w.num = q.num
    BY <1>0, <2>1 DEF Request
  <2> HIDE DEF w
  <2>3. Given(w)
    BY <1>0, <2>1, <2>2 DEF Given, Targeted
  <2>4. About(w, rows)
    BY <1>0, <2>1, <2>2 DEF Given, About, Seen
  <2> QED
    BY <2>1, <2>2, <2>3, <2>4, AloneStep
<1>2. CASE Open(r)
  <2> DEFINE row == rows[q.id]
             w == [q EXCEPT !.at = "vet", !.row = row, !.stale = FALSE]
  <2>1. /\ q.at = "open" /\ q.op = "seed" /\ q.id \in Ids /\ row.st = "row"
        /\ Goes(r, w) /\ UNCHANGED <<rows, lists, created, disturbed, count>>
    BY <1>0, <1>2 DEF Open, Given
  <2>2. row \in WorkspaceRow
    BY <1>0, <2>1 DEF RowsTyped
  <2> HIDE DEF row
  <2>3. /\ w \in Request /\ w.at = "vet" /\ w.op = "seed" /\ w.kind = q.kind /\ w.k = q.k
        /\ w.id = q.id /\ w.seen = q.seen /\ w.num = q.num /\ w.row = row
    BY <1>0, <2>1, <2>2 DEF Request
  <2> HIDE DEF w
  <2>4. Given(w)
    BY <1>0, <2>1, <2>3 DEF Given, Targeted
  <2>5. About(w, rows)
    BY <1>0, <2>1, <2>3 DEF About, Seen, row
  <2> QED
    BY <2>1, <2>3, <2>4, <2>5, AloneStep
<1>3. CASE Vet(r)
  <2> DEFINE text == q.row.text
             w == [q EXCEPT !.at = "commit", !.text = text]
  <2>1. /\ q.at = "vet" /\ q.op \in {"certify", "seed"}
        /\ Goes(r, w) /\ UNCHANGED <<rows, lists, created, disturbed, count>>
    BY <1>0, <1>3 DEF Vet, Given
  <2>2. text \in Texts \cup {NoText}
    BY <1>0 DEF Request, WorkspaceRow
  <2> HIDE DEF text
  <2>3. /\ w \in Request /\ w.at = "commit" /\ w.op = q.op /\ w.kind = q.kind /\ w.k = q.k
        /\ w.id = q.id /\ w.seen = q.seen /\ w.num = q.num /\ w.row = q.row
        /\ w.text = text /\ w.stale = q.stale
    BY <1>0, <2>1, <2>2 DEF Request
  <2> HIDE DEF w
  <2>4. Given(w)
    BY <1>0, <2>1, <2>3 DEF Given, Targeted
  <2>5. About(w, rows)
    BY <1>0, <2>1, <2>3 DEF About, Seen, text
  <2> QED
    BY <2>1, <2>3, <2>4, <2>5, AloneStep
<1>4. ASSUME NEW at \in {"write", "failing"}, q.at \in {"read", "write"},
             Goes(r, [q EXCEPT !.at = at]), UNCHANGED <<rows, lists, created, disturbed, count>>
      PROVE  WorkspaceInv'
  <2> DEFINE w == [q EXCEPT !.at = at]
  <2>1. /\ w \in Request /\ w.at = at /\ w.op = q.op /\ w.kind = q.kind /\ w.k = q.k
        /\ w.id = q.id /\ w.seen = q.seen /\ w.num = q.num /\ q.op = "export" /\ Goes(r, w)
    BY <1>0, <1>4 DEF Request, Given
  <2> HIDE DEF w
  <2>2. Given(w)
    BY <1>0, <1>4, <2>1 DEF Given, Targeted
  <2>3. About(w, rows)
    BY <1>0, <1>4, <2>1 DEF About, Seen
  <2> QED
    BY <1>4, <2>1, <2>2, <2>3, AloneStep
<1>5. CASE ReadExport(r)
  <2> DEFINE at == IF Cardinality(Existing("instructions")) > 1 THEN "failing" ELSE "write"
  <2>1. /\ Goes(r, [q EXCEPT !.at = at]) /\ q.at = "read"
        /\ UNCHANGED <<rows, lists, created, disturbed, count>> /\ at \in {"write", "failing"}
    BY <1>5 DEF ReadExport
  <2> HIDE DEF at
  <2> QED
    BY <1>4, <2>1
<1>6. CASE ExportRaises(r)
  BY <1>4, <1>6 DEF ExportRaises
<1>7. CASE AbandonExport(r)
  BY <1>7, GiveUp DEF AbandonExport
<1>8. CASE RequestFails(r)
  <2>1. q.op \notin {"seed", "mark"}
    BY <1>0, <1>8 DEF RequestFails, Given
  <2> QED
    BY <1>8, <2>1, GiveUp DEF RequestFails
<1> QED
  BY <1>1, <1>2, <1>3, <1>5, <1>6, <1>7, <1>8

\* A row whose certificate holds: the text is the one vetted, unless edited since.
Honest(row) == row.st = "row" /\ row.kind = "metric" /\ row.certified /\ ~row.edited
                  => row.vetted = row.text

LEMMA HonestRows == CertifiedChecked <=> \A i \in Ids : Honest(rows[i])
BY DEF CertifiedChecked, Existing, Honest

LEMMA AmendOne ==
    ASSUME RowsTyped, CertifiedChecked, NEW i \in Ids, NEW row \in WorkspaceRow,
           row.st = rows[i].st, row.kind = rows[i].kind, row.of = rows[i].of, Honest(row),
           rows' = [rows EXCEPT ![i] = row]
    PROVE  /\ RowsTyped' /\ Grown /\ CertifiedChecked'
           /\ \A j \in Ids : rows'[j].text # rows[j].text => j = i
<1>1. /\ rows' \in [Ids -> WorkspaceRow]
      /\ \A j \in Ids : /\ rows'[j].st = rows[j].st /\ rows'[j].kind = rows[j].kind
                        /\ rows'[j].of = rows[j].of
      /\ \A j \in Ids : j # i => rows'[j] = rows[j]
      /\ rows'[i] = row
  BY DEF RowsTyped
<1>2. RowsTyped' /\ Grown
  BY <1>1, AmendedRows
<1>3. \A j \in Ids : Honest(rows'[j])
  BY <1>1, HonestRows
<1>4. CertifiedChecked'
  BY <1>3 DEF CertifiedChecked, Existing, Honest
<1> QED
  BY <1>1, <1>2, <1>4

\* The commit of a request that is no seeding ends it.
LEMMA CommitStep ==
    ASSUME WorkspaceInv, NEW r \in Requests, NEW S, Commits(r, Idle, S),
           req[r].op \notin {"seed", "mark"}, RowsTyped', Grown, CertifiedChecked',
           \A i \in Ids : rows[i].st # "unborn" /\ rows'[i].text # rows[i].text => i \in S,
           UNCHANGED <<lists, created, disturbed, count>>
    PROVE  WorkspaceInv'
<1>0. /\ RowsTyped /\ lists \in [Checklists -> Checklist]
      /\ req \in [Requests -> Request] /\ RequestsSound
      /\ created \in [Seeded -> [1..SeedSize -> Nat]] /\ Seedings
      /\ disturbed \subseteq Seeded /\ count \in Nat
  BY InvParts
<1>1. req' \in [Requests -> Request] /\ RequestsSound' /\ req'[r] = Idle
  BY <1>0, CommitMoves, IdleSound
<1>2. Seedings'
  <2>1. ASSUME NEW q \in Requests
        PROVE  /\ req'[q].kind = req[q].kind
               /\ req[q].kind \in Seeded => req'[q].k = req[q].k
    <3>1. CASE q = r
      BY <1>1, <3>1, RequestFacts DEF Idle
    <3>2. CASE q # r
      <4>1. req'[q] = req[q] \/ req'[q] = [req[q] EXCEPT !.stale = TRUE]
        BY <3>2 DEF Commits
      <4> QED
        BY <1>0, <4>1 DEF Request
    <3> QED
      BY <3>1, <3>2
  <2> QED
    BY <1>0, <2>1, SeedingsKept
<1> QED
  BY <1>0, <1>1, <1>2 DEF WorkspaceInv, WorkspaceTypeOK, RowsTyped

LEMMA PatchStep ==
    ASSUME WorkspaceInv, NEW r \in Requests, NEW row \in WorkspaceRow, Patch(r, row),
           req[r].op \in {"text", "name", "move", "run", "uncertify", "revoke"},
           row.st = rows[req[r].id].st, row.kind = rows[req[r].id].kind,
           row.of = rows[req[r].id].of, Honest(row)
    PROVE  WorkspaceInv'
<1> DEFINE i == req[r].id
<1>1. /\ i \in Ids /\ RowsTyped /\ CertifiedChecked
      /\ rows' = [rows EXCEPT ![i] = row] /\ Commits(r, Idle, {i})
      /\ UNCHANGED <<lists, created, disturbed, count>>
  BY InvParts, RequestFacts DEF Patch
<1>2. row.st = rows[i].st /\ row.kind = rows[i].kind /\ row.of = rows[i].of
  OBVIOUS
<1> HIDE DEF i
<1>3. /\ RowsTyped' /\ Grown /\ CertifiedChecked'
      /\ \A j \in Ids : rows'[j].text # rows[j].text => j \in {i}
  BY <1>1, <1>2, AmendOne
<1> QED
  BY <1>1, <1>3, CommitStep

\* What the commits write keeps the certificate honest.
LEMMA PatchRows ==
    ASSUME NEW row \in WorkspaceRow, Honest(row)
    PROVE  /\ \A text \in Texts \cup {NoText} :
                 LET w == [row EXCEPT !.text = text, !.edited = @ \/ row.certified]
                 IN  /\ w \in WorkspaceRow /\ Honest(w)
                     /\ w.st = row.st /\ w.kind = row.kind /\ w.of = row.of
           /\ \A name \in 0..Names :
                 LET w == [row EXCEPT !.name = name]
                 IN  /\ w \in WorkspaceRow /\ Honest(w)
                     /\ w.st = row.st /\ w.kind = row.kind /\ w.of = row.of
           /\ \A num \in Nat :
                 LET w == [row EXCEPT !.num = num]
                 IN  /\ w \in WorkspaceRow /\ Honest(w)
                     /\ w.st = row.st /\ w.kind = row.kind /\ w.of = row.of
           /\ \A certified \in BOOLEAN :
                 LET w == [row EXCEPT !.certified = @ /\ certified]
                 IN  /\ w \in WorkspaceRow /\ Honest(w)
                     /\ w.st = row.st /\ w.kind = row.kind /\ w.of = row.of
           /\ \A status \in {"revoked", "running", "done", "failed"} :
                 LET w == [row EXCEPT !.status = status]
                 IN  /\ w \in WorkspaceRow /\ Honest(w)
                     /\ w.st = row.st /\ w.kind = row.kind /\ w.of = row.of
<1>1. ASSUME NEW text \in Texts \cup {NoText}
      PROVE  LET w == [row EXCEPT !.text = text, !.edited = @ \/ row.certified]
             IN  /\ w \in WorkspaceRow /\ Honest(w)
                 /\ w.st = row.st /\ w.kind = row.kind /\ w.of = row.of
  <2> DEFINE e == row.edited \/ row.certified
             w == [row EXCEPT !.text = text, !.edited = e]
  <2>1. e \in BOOLEAN /\ (row.certified => e)
    OBVIOUS
  <2> HIDE DEF e
  <2>2. /\ w \in WorkspaceRow /\ w.st = row.st /\ w.kind = row.kind /\ w.of = row.of
        /\ w.certified = row.certified /\ w.edited = e
    BY <2>1 DEF WorkspaceRow
  <2>3. w = [row EXCEPT !.text = text, !.edited = @ \/ row.certified]
    BY DEF e
  <2>4. Honest(w)
    <3> HIDE DEF w
    <3> QED
      BY <2>1, <2>2 DEF Honest
  <2> QED
    BY <2>2, <2>3, <2>4
<1>2. ASSUME NEW name \in 0..Names
      PROVE  LET w == [row EXCEPT !.name = name]
             IN  /\ w \in WorkspaceRow /\ Honest(w)
                 /\ w.st = row.st /\ w.kind = row.kind /\ w.of = row.of
  BY DEF WorkspaceRow, Honest
<1>3. ASSUME NEW num \in Nat
      PROVE  LET w == [row EXCEPT !.num = num]
             IN  /\ w \in WorkspaceRow /\ Honest(w)
                 /\ w.st = row.st /\ w.kind = row.kind /\ w.of = row.of
  BY DEF WorkspaceRow, Honest
<1>4. ASSUME NEW certified \in BOOLEAN
      PROVE  LET w == [row EXCEPT !.certified = @ /\ certified]
             IN  /\ w \in WorkspaceRow /\ Honest(w)
                 /\ w.st = row.st /\ w.kind = row.kind /\ w.of = row.of
  <2> DEFINE c == row.certified /\ certified
             w == [row EXCEPT !.certified = c]
  <2>1. c \in BOOLEAN /\ (c => row.certified)
    OBVIOUS
  <2> HIDE DEF c
  <2>2. /\ w \in WorkspaceRow /\ w.st = row.st /\ w.kind = row.kind /\ w.of = row.of
        /\ w.certified = c /\ w.edited = row.edited /\ w.vetted = row.vetted /\ w.text = row.text
    BY <2>1 DEF WorkspaceRow
  <2>3. w = [row EXCEPT !.certified = @ /\ certified]
    BY DEF c
  <2>4. Honest(w)
    <3> HIDE DEF w
    <3> QED
      BY <2>1, <2>2 DEF Honest
  <2> QED
    BY <2>2, <2>3, <2>4
<1>5. ASSUME NEW status \in {"revoked", "running", "done", "failed"}
      PROVE  LET w == [row EXCEPT !.status = status]
             IN  /\ w \in WorkspaceRow /\ Honest(w)
                 /\ w.st = row.st /\ w.kind = row.kind /\ w.of = row.of
  BY DEF WorkspaceRow, Honest
<1> QED
  BY <1>1, <1>2, <1>3, <1>4, <1>5

LEMMA PatchSteps ==
    ASSUME WorkspaceInv, NEW r \in Requests,
           \/ UpdateText(r) \/ Rename(r) \/ RunSaved(r) \/ MoveWidget(r) \/ Uncertify(r)
           \/ Revoke(r)
    PROVE  WorkspaceInv'
<1> DEFINE q == req[r]
           row == rows[q.id]
           op == q.op
<1>0. op \in {"text", "name", "move", "run", "uncertify", "revoke"}
  BY DEF UpdateText, Rename, RunSaved, MoveWidget, Uncertify, Revoke
<1>1. q \in Request /\ q.id \in Ids
  BY <1>0, RequestFacts
<1>2. row \in WorkspaceRow /\ Honest(row)
  BY <1>1, InvParts, HonestRows DEF RowsTyped
<1>3. ASSUME NEW w \in WorkspaceRow, Patch(r, w), Honest(w),
             w.st = row.st, w.kind = row.kind, w.of = row.of
      PROVE  WorkspaceInv'
  BY <1>0, <1>3, PatchStep
<1>4. CASE UpdateText(r)
  <2>1. CASE Patch(r, row)
    BY <1>2, <1>3, <2>1
  <2>2. CASE Patch(r, [row EXCEPT !.text = q.text, !.edited = @ \/ row.certified])
    <3>1. q.text \in Texts \cup {NoText}
      BY <1>1 DEF Request
    <3> HIDE DEF row, q
    <3> QED
      BY <1>2, <1>3, <2>2, <3>1, PatchRows
  <2> QED
    BY <1>4, <2>1, <2>2 DEF UpdateText
<1>5. CASE Rename(r)
  <2> DEFINE name == IF q.num = q.row.name THEN row.name ELSE q.num
  <2>1. Patch(r, [row EXCEPT !.name = name])
    BY <1>5 DEF Rename
  <2>2. name \in 0..Names
    <3>1. row.name \in 0..Names
      BY <1>2 DEF WorkspaceRow
    <3>2. q.num \in 0..Names
      BY <1>5, RequestFacts DEF Rename, Given
    <3> QED
      BY <3>1, <3>2
  <2> HIDE DEF row, name
  <2> QED
    BY <1>2, <1>3, <2>1, <2>2, PatchRows
<1>6. CASE RunSaved(r)
  <2> DEFINE num == q.row.num + 1
  <2>1. Patch(r, [row EXCEPT !.num = num])
    BY <1>6 DEF RunSaved
  <2>2. num \in Nat
    BY <1>1 DEF Request, WorkspaceRow
  <2> HIDE DEF row, num
  <2> QED
    BY <1>2, <1>3, <2>1, <2>2, PatchRows
<1>7. CASE MoveWidget(r)
  <2> DEFINE num == IF q.num = q.row.num THEN row.num ELSE q.num
  <2>1. Patch(r, [row EXCEPT !.num = num])
    BY <1>7 DEF MoveWidget
  <2>2. num \in Nat
    BY <1>1, <1>2 DEF Request, WorkspaceRow
  <2> HIDE DEF row, num
  <2> QED
    BY <1>2, <1>3, <2>1, <2>2, PatchRows
<1>8. CASE Uncertify(r)
  <2> DEFINE certified == ~q.row.certified
  <2>1. Patch(r, [row EXCEPT !.certified = @ /\ certified])
    BY <1>8 DEF Uncertify
  <2>2. certified \in BOOLEAN
    OBVIOUS
  <2> HIDE DEF row, certified
  <2> QED
    BY <1>2, <1>3, <2>1, <2>2, PatchRows
<1>9. CASE Revoke(r)
  <2>1. Patch(r, [row EXCEPT !.status = "revoked"])
    BY <1>9 DEF Revoke
  <2> HIDE DEF row
  <2> QED
    BY <1>2, <1>3, <2>1, PatchRows
<1> QED
  BY <1>4, <1>5, <1>6, <1>7, <1>8, <1>9

LEMMA ReportSteps ==
    ASSUME WorkspaceInv, NEW r \in Requests, StartExport(r) \/ WriteExport(r) \/ FailExport(r)
    PROVE  WorkspaceInv'
<1> DEFINE q == req[r]
           i == q.id
           row == rows[i]
           next == [q EXCEPT !.at = "read"]
<1>0. /\ RowsTyped /\ CertifiedChecked /\ lists \in [Checklists -> Checklist]
      /\ req \in [Requests -> Request] /\ RequestsSound
      /\ created \in [Seeded -> [1..SeedSize -> Nat]] /\ Seedings
      /\ disturbed \subseteq Seeded /\ count \in Nat
  BY InvParts
<1>1. PICK status \in {"running", "done", "failed"}, w \in {next, Idle} : Report(r, status, w)
  BY DEF StartExport, WriteExport, FailExport
<1>2. /\ q.op = "export" /\ rows' = [rows EXCEPT ![i] = [row EXCEPT !.status = status]]
      /\ Goes(r, w) /\ UNCHANGED <<lists, created, disturbed, count>>
  BY <1>1 DEF Report
<1>3. /\ q \in Request /\ Given(q) /\ About(q, rows) /\ q.kind = "none" /\ i \in Ids
      /\ rows[i].st # "unborn" /\ q.kind \notin Seeded
  BY <1>2, RequestFacts
<1>4. row \in WorkspaceRow /\ Honest(row)
  BY <1>0, <1>3, HonestRows DEF RowsTyped
<1>5. /\ RowsTyped' /\ Grown /\ CertifiedChecked'
      /\ \A j \in Ids : rows[j].st # "unborn" => rows'[j].text = rows[j].text
  <2> DEFINE new == [row EXCEPT !.status = status]
  <2>1. /\ new \in WorkspaceRow /\ Honest(new)
        /\ new.st = row.st /\ new.kind = row.kind /\ new.of = row.of
    <3>1. status \in {"revoked", "running", "done", "failed"}
      OBVIOUS
    <3> HIDE DEF row
    <3> QED
      BY <1>4, <3>1, PatchRows
  <2>2. new.text = row.text
    BY <1>4 DEF WorkspaceRow
  <2>3. rows' = [rows EXCEPT ![i] = new]
    BY <1>2
  <2> HIDE DEF new, i
  <2>4. /\ RowsTyped' /\ Grown /\ CertifiedChecked'
        /\ \A j \in Ids : rows'[j].text # rows[j].text => j = i
    BY <1>0, <1>3, <2>1, <2>3, AmendOne
  <2>5. rows'[i].text = rows[i].text
    BY <1>0, <1>3, <2>2, <2>3 DEF RowsTyped
  <2> QED
    BY <2>4, <2>5
<1>6. /\ w \in Request /\ w.kind = "none" /\ Given(w) /\ About(w, rows')
  <2>1. CASE w = Idle
    BY <2>1, IdleSound DEF Idle
  <2>2. CASE w = next
    <3>1. /\ next \in Request /\ next.at = "read" /\ next.op = q.op /\ next.kind = q.kind
          /\ next.id = q.id /\ next.seen = q.seen /\ next.num = q.num
      BY <1>3 DEF Request
    <3> HIDE DEF next
    <3>2. Given(next)
      BY <1>2, <1>3, <3>1 DEF Given, Targeted
    <3>3. Seen(next) = Seen(q) /\ \A v \in Seen(q) : v \in Ids
      BY <1>3, <3>1 DEF Seen, Request
    <3>4. \A v \in Seen(q) : rows[v].st # "unborn" /\ rows[v].kind = "widget"
      BY <1>3 DEF About
    <3>5. About(next, rows')
      BY <1>2, <1>3, <1>5, <3>1, <3>3, <3>4 DEF About, Grown
    <3> QED
      BY <1>3, <2>2, <3>1, <3>2, <3>5
  <2> QED
    BY <2>1, <2>2
<1>7. req' \in [Requests -> Request] /\ RequestsSound'
  BY <1>0, <1>2, <1>5, <1>6, AloneMoves
<1>8. Seedings'
  <2>1. \A p \in Requests : /\ req'[p].kind = req[p].kind
                            /\ req[p].kind \in Seeded => req'[p].k = req[p].k
    BY <1>0, <1>2, <1>3, <1>6 DEF Goes
  <2> QED
    BY <1>0, <1>2, <2>1, SeedingsKept
<1> QED
  BY <1>0, <1>2, <1>5, <1>7, <1>8 DEF WorkspaceInv, WorkspaceTypeOK, RowsTyped

\* The next free position of a dashboard is a number.
LEMMA NextPositionType ==
    ASSUME NEW seen \in SUBSET (Ids \X Nat), IsFiniteSet(seen) PROVE NextPosition(seen) \in Nat
<1> DEFINE S == {p[2] : p \in seen}
<1>1. CASE seen = {}
  BY <1>1 DEF NextPosition
<1>2. CASE seen # {}
  <2>1. S \in SUBSET Nat /\ S # {}
    BY <1>2
  <2>2. [p \in seen |-> p[2]] \in Surjection(seen, S)
    BY DEF Surjection
  <2>3. IsFiniteSet(S)
    BY <2>2, FS_Surjection
  <2>4. PICK m \in S : \A n \in S : n <= m
    <3> HIDE DEF S
    <3> QED
      BY <2>1, <2>3, GreatestOf
  <2>5. \A p \in seen : p[2] <= m
    BY <2>4
  <2>6. (CHOOSE n \in S : \A p \in seen : p[2] <= n) \in S
    <3> HIDE DEF S
    <3> QED
      BY <2>5
  <2>7. (CHOOSE n \in S : \A p \in seen : p[2] <= n) \in Nat
    <3> HIDE DEF S
    <3> QED
      BY <2>1, <2>6
  <2> QED
    BY <1>2, <2>7 DEF NextPosition
<1> QED
  BY <1>1, <1>2

LEMMA AddWidgetStep ==
    ASSUME WorkspaceInv, NEW r \in Requests, AddWidget(r) PROVE WorkspaceInv'
<1> DEFINE q == req[r]
           i == q.id
           num == NextPosition(q.seen)
           row == [New("widget", 0, NoText) EXCEPT !.of = i, !.num = num]
<1>1. /\ RowsTyped /\ CertifiedChecked /\ q \in Request /\ i \in Ids /\ IsFiniteSet(q.seen)
      /\ Insert(<<row>>, 1) /\ Commits(r, Idle, {Made + 1}) /\ q.op = "widget"
      /\ i \in Existing("dashboard")
      /\ UNCHANGED <<lists, created, disturbed, count>>
  BY InvParts, RequestFacts DEF AddWidget, About, Given, Existing
<1>2. num \in Nat
  BY <1>1, NextPositionType DEF Request
<1> HIDE DEF i, num
<1>3. /\ row \in WorkspaceRow /\ row.st = "row" /\ ~row.certified /\ row.kind = "widget"
      /\ row.of = i
  <2>1. "widget" \in Kinds /\ 0 \in 0..Names
    BY WorkspaceAssumption DEF Kinds
  <2> DEFINE base == New("widget", 0, NoText)
  <2>2. base \in WorkspaceRow /\ base.st = "row" /\ base.kind = "widget" /\ ~base.certified
    BY <2>1, NewSound
  <2> HIDE DEF base
  <2>3. [base EXCEPT !.of = i, !.num = num] \in WorkspaceRow
    BY <1>1, <1>2, <2>2 DEF WorkspaceRow
  <2>4. row = [base EXCEPT !.of = i, !.num = num]
    BY DEF base
  <2> HIDE DEF row
  <2> QED
    BY <1>1, <1>2, <2>2, <2>3, <2>4 DEF WorkspaceRow
<1> HIDE DEF row
<1>4. /\ RowsTyped' /\ Grown /\ CertifiedChecked'
      /\ \A j \in Ids : rows[j].st # "unborn" => rows'[j] = rows[j]
  BY <1>1, <1>3, InsertOne
<1> QED
  BY <1>1, <1>4, CommitStep

LEMMA ReorderStep ==
    ASSUME WorkspaceInv, NEW r \in Requests, ReorderWidgets(r) PROVE WorkspaceInv'
<1> DEFINE q == req[r]
           moved == {p \in q.order : p[1] \in Seen(q) /\ p \notin q.seen}
<1>1. /\ RowsTyped /\ CertifiedChecked /\ q \in Request /\ q.op = "reorder"
      /\ Commits(r, Idle, {q.id} \cup Seen(q)) /\ UNCHANGED <<lists, created, disturbed, count>>
      /\ rows' = [i \in Ids |-> IF \E p \in moved : p[1] = i
                                THEN [rows[i] EXCEPT !.num = (CHOOSE p \in moved : p[1] = i)[2]]
                                ELSE rows[i]]
  BY InvParts, RequestFacts DEF ReorderWidgets
<1>2. moved \subseteq Ids \X Nat
  BY <1>1 DEF Request
<1> HIDE DEF moved
<1>3. ASSUME NEW i \in Ids
      PROVE  rows'[i] = rows[i] \/ \E num \in Nat : rows'[i] = [rows[i] EXCEPT !.num = num]
  <2>1. CASE \E p \in moved : p[1] = i
    <3> DEFINE c == CHOOSE p \in moved : p[1] = i
    <3>1. c \in moved
      BY <2>1
    <3>2. rows'[i] = [rows[i] EXCEPT !.num = c[2]]
      BY <1>1, <2>1
    <3> HIDE DEF c
    <3>3. c[2] \in Nat
      BY <1>2, <3>1
    <3> QED
      BY <3>2, <3>3
  <2>2. CASE ~\E p \in moved : p[1] = i
    BY <1>1, <2>2
  <2> QED
    BY <2>1, <2>2
<1>4. \A i \in Ids : /\ rows'[i] \in WorkspaceRow /\ rows'[i].st = rows[i].st
                     /\ rows'[i].kind = rows[i].kind /\ rows'[i].of = rows[i].of
                     /\ Honest(rows'[i]) /\ rows'[i].text = rows[i].text
  <2> SUFFICES ASSUME NEW i \in Ids
               PROVE  /\ rows'[i] \in WorkspaceRow /\ rows'[i].st = rows[i].st
                      /\ rows'[i].kind = rows[i].kind /\ rows'[i].of = rows[i].of
                      /\ Honest(rows'[i]) /\ rows'[i].text = rows[i].text
    OBVIOUS
  <2>1. rows[i] \in WorkspaceRow /\ Honest(rows[i])
    BY <1>1, HonestRows DEF RowsTyped
  <2> QED
    BY <1>3, <2>1 DEF WorkspaceRow, Honest
<1>5. rows' \in [Ids -> WorkspaceRow]
  BY <1>1, <1>4
<1>6. RowsTyped' /\ Grown
  BY <1>1, <1>4, <1>5, AmendedRows
<1>7. CertifiedChecked'
  BY <1>4 DEF CertifiedChecked, Existing, Honest
<1> QED
  BY <1>1, <1>4, <1>6, <1>7, CommitStep

LEMMA CommitPutStep ==
    ASSUME WorkspaceInv, NEW r \in Requests, CommitPut(r) PROVE WorkspaceInv'
<1> DEFINE q == req[r]
           i == q.id
           text == q.text
<1>1. /\ RowsTyped /\ CertifiedChecked /\ q \in Request /\ About(q, rows) /\ q.op = "put"
      /\ UNCHANGED <<lists, created, disturbed, count>>
  BY InvParts, RequestFacts DEF CommitPut
<1>2. text \in Texts \cup {NoText}
  BY <1>1 DEF Request
<1>3. CASE i = 0
  <2> DEFINE row == New("instructions", 0, text)
  <2>1. Insert(<<row>>, 1) /\ Commits(r, Idle, {Made + 1})
    BY <1>3 DEF CommitPut
  <2>2. row \in WorkspaceRow /\ row.st = "row" /\ ~row.certified /\ row.kind = "instructions"
    <3>1. "instructions" \in Kinds /\ 0 \in 0..Names
      BY WorkspaceAssumption DEF Kinds
    <3> QED
      BY <1>2, <3>1, NewSound
  <2> HIDE DEF row
  <2>3. /\ RowsTyped' /\ Grown /\ CertifiedChecked'
        /\ \A j \in Ids : rows[j].st # "unborn" => rows'[j] = rows[j]
    BY <1>1, <2>1, <2>2, InsertOne
  <2> QED
    BY <1>1, <2>1, <2>3, CommitStep
<1>4. CASE i # 0
  <2> DEFINE row == [rows[i] EXCEPT !.text = text]
  <2>1. rows' = [rows EXCEPT ![i] = row] /\ Commits(r, Idle, {i})
    BY <1>4 DEF CommitPut
  <2>2. i \in Ids /\ rows[i].kind = "instructions"
    BY <1>1, <1>4 DEF Request, About
  <2>3. rows[i] \in WorkspaceRow
    BY <1>1, <2>2 DEF RowsTyped
  <2>4. /\ row \in WorkspaceRow /\ row.st = rows[i].st /\ row.kind = rows[i].kind
        /\ row.of = rows[i].of
    BY <1>2, <2>3 DEF WorkspaceRow
  <2> HIDE DEF row
  <2>5. Honest(row)
    BY <2>2, <2>4 DEF Honest
  <2> HIDE DEF i
  <2>6. /\ RowsTyped' /\ Grown /\ CertifiedChecked'
        /\ \A j \in Ids : rows'[j].text # rows[j].text => j \in {i}
    BY <1>1, <2>1, <2>2, <2>4, <2>5, AmendOne
  <2> QED
    BY <1>1, <2>1, <2>6, CommitStep
<1> QED
  BY <1>3, <1>4

LEMMA DeleteStep ==
    ASSUME WorkspaceInv, NEW r \in Requests, Delete(r) PROVE WorkspaceInv'
<1> DEFINE q == req[r]
           i == q.id
           S == {i} \cup Seen(q)
<1>1. /\ RowsTyped /\ CertifiedChecked /\ q \in Request /\ About(q, rows) /\ q.op = "delete"
      /\ i \in Ids /\ rows[i].st # "unborn" /\ WidgetsOf(i) \subseteq S
      /\ rows' = [j \in Ids |-> IF j \in S THEN [rows[j] EXCEPT !.st = "gone"] ELSE rows[j]]
      /\ Commits(r, Idle, S) /\ UNCHANGED <<lists, created, disturbed, count>>
  BY InvParts, RequestFacts DEF Delete
<1>2. \A w \in Seen(q) : w \in Ids /\ rows[w].st # "unborn" /\ rows[w].kind = "widget"
  BY <1>1 DEF Seen, Request, About
<1>3. \A d \in S \cap Existing("dashboard") : d = i
  BY <1>2 DEF Existing
<1>4. \A j \in S : j \in Ids /\ rows[j].st # "unborn"
  BY <1>1, <1>2
<1> HIDE DEF S, i
<1>5. ASSUME NEW j \in Ids
      PROVE  /\ rows'[j] \in WorkspaceRow /\ rows'[j].kind = rows[j].kind
             /\ rows'[j].of = rows[j].of /\ rows'[j].text = rows[j].text
             /\ rows'[j].st = IF j \in S THEN "gone" ELSE rows[j].st
             /\ Honest(rows'[j])
  <2>1. rows[j] \in WorkspaceRow /\ Honest(rows[j])
    BY <1>1, HonestRows DEF RowsTyped
  <2>2. CASE j \in S
    <3>1. rows'[j] = [rows[j] EXCEPT !.st = "gone"]
      BY <1>1, <2>2
    <3> QED
      BY <2>1, <2>2, <3>1 DEF WorkspaceRow, Honest
  <2>3. CASE j \notin S
    BY <1>1, <2>1, <2>3
  <2> QED
    BY <2>2, <2>3
<1>6. ASSUME NEW w \in Existing("widget")' PROVE rows'[w].of \in Existing("dashboard")'
  <2>1. /\ w \in Ids /\ rows'[w].st = "row" /\ rows'[w].kind = "widget"
    BY DEF Existing
  <2>2. w \notin S /\ w \in Existing("widget") /\ rows'[w].of = rows[w].of
    BY <1>5, <2>1 DEF Existing
  <2>3. rows[w].of \in Existing("dashboard")
    BY <1>1, <2>2 DEF RowsTyped
  <2>4. rows[w].of \notin S
    BY <1>1, <1>3, <2>2, <2>3 DEF WidgetsOf
  <2> QED
    BY <1>5, <2>2, <2>3, <2>4 DEF Existing
<1>7. RowsTyped'
  <2>1. rows' \in [Ids -> WorkspaceRow]
    BY <1>1, <1>5
  <2>2. \A j \in Ids : rows'[j].st # "unborn" <=> rows[j].st # "unborn"
    BY <1>4, <1>5
  <2>3. \A j, k \in Ids : j < k /\ rows'[k].st # "unborn" => rows'[j].st # "unborn"
    BY <1>1, <2>2 DEF RowsTyped
  <2> QED
    BY <1>6, <2>1, <2>3 DEF RowsTyped
<1>8. Grown /\ CertifiedChecked'
  BY <1>4, <1>5 DEF Grown, CertifiedChecked, Existing, Honest
<1> QED
  BY <1>1, <1>5, <1>7, <1>8, CommitStep

\* The certificate is given for the text that was checked, and is marked as edited when the
\* row was changed in between.
LEMMA CertifyStep ==
    ASSUME WorkspaceInv, NEW r \in Requests, Certify(r) PROVE WorkspaceInv'
<1> DEFINE q == req[r]
           i == q.id
           c == rows[i].certified \/ ~q.row.certified
           row == [rows[i] EXCEPT !.certified = c, !.vetted = q.text, !.edited = q.stale]
           at == IF q.k > SeedSize THEN "marking" ELSE "seed"
           seed == [Idle EXCEPT !.op = "seed", !.kind = q.kind, !.k = q.k, !.at = at]
           w == IF q.op = "certify" THEN Idle ELSE seed
<1>0. /\ RowsTyped /\ CertifiedChecked /\ lists \in [Checklists -> Checklist]
      /\ req \in [Requests -> Request] /\ RequestsSound
      /\ created \in [Seeded -> [1..SeedSize -> Nat]] /\ Seedings
      /\ disturbed \subseteq Seeded /\ count \in Nat
  BY InvParts
<1>1. /\ rows' = [rows EXCEPT ![i] = row] /\ Commits(r, w, {i})
      /\ UNCHANGED <<lists, created, disturbed, count>>
      /\ q.at = "commit" /\ q.op \in {"certify", "seed"}
  BY DEF Certify
<1>2. /\ q \in Request /\ Given(q) /\ About(q, rows) /\ i \in Ids
      /\ q.op = "certify" => q.kind = "none" /\ q.kind \notin Seeded
  BY <1>1, RequestFacts
<1>3. rows[i] \in WorkspaceRow /\ c \in BOOLEAN /\ q.stale \in BOOLEAN
      /\ q.text \in Texts \cup {NoText}
  BY <1>0, <1>2 DEF RowsTyped, Request
<1>4. /\ row \in WorkspaceRow /\ row.st = rows[i].st /\ row.kind = rows[i].kind
      /\ row.of = rows[i].of /\ row.text = rows[i].text /\ row.vetted = q.text
      /\ row.edited = q.stale
  <2> HIDE DEF c
  <2> QED
    BY <1>3 DEF WorkspaceRow
<1>5. Honest(row)
  <2>1. ~q.stale => rows[i].text = q.text
    BY <1>1, <1>2 DEF About
  <2> HIDE DEF row
  <2> QED
    BY <1>4, <2>1 DEF Honest
<1>6. /\ RowsTyped' /\ Grown /\ CertifiedChecked'
      /\ \A j \in Ids : rows'[j].text # rows[j].text => j \in {i}
  <2> HIDE DEF i, row
  <2> QED
    BY <1>0, <1>1, <1>2, <1>4, <1>5, AmendOne
<1>7. /\ w \in Request /\ Given(w) /\ About(w, rows') /\ w.kind = q.kind
      /\ w.kind \in Seeded => w.k = q.k
  <2>1. CASE q.op = "certify"
    BY <1>2, <2>1, IdleSound DEF Idle
  <2>2. CASE q.op = "seed"
    <3>1. q.kind = "metric" /\ q.k \in Nat /\ q.k >= 1
      BY <1>1, <1>2, <2>2 DEF Given, Request
    <3>2. /\ seed \in Request /\ seed.op = "seed" /\ seed.kind = q.kind /\ seed.k = q.k
          /\ seed.at = at /\ seed.id = 0 /\ seed.seen = {}
      <4>1. at \in {"marking", "seed"} /\ q.kind \in Kinds
        BY <1>2 DEF Request
      <4> HIDE DEF at, q
      <4> QED
        BY <3>1, <4>1, IdleSound DEF Idle, Request
    <3> HIDE DEF seed
    <3>3. Given(seed)
      <4>1. at = "seed" => q.k \in 1..SeedSize
        BY <3>1, WorkspaceAssumption
      <4>2. at \in {"marking", "seed"}
        OBVIOUS
      <4> HIDE DEF at
      <4> QED
        BY <3>1, <3>2, <4>1, <4>2, FS_EmptySet DEF Given, Targeted, Seeded
    <3>4. About(seed, rows')
      BY <3>2 DEF About, Seen, at
    <3> QED
      BY <2>2, <3>2, <3>3, <3>4
  <2> QED
    BY <1>1, <2>1, <2>2
<1> HIDE DEF w
<1>8. req' \in [Requests -> Request] /\ RequestsSound' /\ req'[r] = w
  <2> HIDE DEF i
  <2> QED
    BY <1>0, <1>1, <1>6, <1>7, CommitMoves
<1>9. Seedings'
  <2>1. ASSUME NEW p \in Requests
        PROVE  /\ req'[p].kind = req[p].kind
               /\ req[p].kind \in Seeded => req'[p].k = req[p].k
    <3>1. CASE p = r
      BY <1>7, <1>8, <3>1
    <3>2. CASE p # r
      <4>1. req'[p] = req[p] \/ req'[p] = [req[p] EXCEPT !.stale = TRUE]
        BY <1>1, <3>2 DEF Commits
      <4> QED
        BY <1>0, <4>1 DEF Request
    <3> QED
      BY <3>1, <3>2
  <2> QED
    BY <1>0, <1>1, <2>1, SeedingsKept
<1> QED
  BY <1>0, <1>1, <1>6, <1>8, <1>9 DEF WorkspaceInv, WorkspaceTypeOK, RowsTyped

LEMMA DuplicateStep ==
    ASSUME WorkspaceInv, NEW r \in Requests, Duplicate(r) PROVE WorkspaceInv'
<1> DEFINE q == req[r]
           m == Made
           copy(num) == [New("widget", 0, NoText) EXCEPT !.of = m + 1, !.num = num]
           head == New("dashboard", q.row.name, NoText)
<1>0. /\ RowsTyped /\ CertifiedChecked /\ lists \in [Checklists -> Checklist]
      /\ req \in [Requests -> Request] /\ RequestsSound
      /\ created \in [Seeded -> [1..SeedSize -> Nat]] /\ Seedings
      /\ disturbed \subseteq Seeded /\ count \in Nat
  BY InvParts
<1>1. /\ q \in Request /\ Given(q) /\ q.op = "duplicate" /\ q.kind = "none"
      /\ q.kind \notin Seeded
      /\ Goes(r, Idle) /\ UNCHANGED <<lists, created, disturbed, count>>
  BY RequestFacts DEF Duplicate
<1> DEFINE n == Cardinality(q.seen)
<1>2. n \in Nat
  BY <1>1, FS_CardinalityType DEF Given
<1>3. PICK nth \in Bijection(1..n, q.seen) :
          Insert([j \in 1..(n + 1) |-> IF j = 1 THEN head ELSE copy(nth[j - 1][2])], n + 1)
  BY DEF Duplicate
<1>4. \A j \in 1..n : nth[j][2] \in Nat
  <2>1. nth \in [1..n -> q.seen]
    BY <1>3 DEF Bijection, Injection
  <2>2. q.seen \subseteq Ids \X Nat
    BY <1>1 DEF Request
  <2> HIDE DEF n, q
  <2> QED
    BY <2>1, <2>2
<1>5. m \in Nat /\ m + (n + 1) <= MaxRows
  <2>1. Made \in Nat
    BY <1>0, MadeFirst, WorkspaceAssumption
  <2>2. Made + (n + 1) <= MaxRows
    BY <1>3 DEF Insert
  <2> QED
    BY <2>1, <2>2
<1>6. /\ head \in WorkspaceRow /\ head.st = "row" /\ ~head.certified /\ head.kind = "dashboard"
  <2>1. "dashboard" \in Kinds /\ q.row.name \in 0..Names
    BY <1>1 DEF Kinds, Seeded, Request, WorkspaceRow
  <2> QED
    BY <2>1, NewSound
<1>7. \A num \in Nat : /\ copy(num) \in WorkspaceRow /\ copy(num).st = "row"
                       /\ ~copy(num).certified /\ copy(num).kind = "widget"
                       /\ copy(num).of = m + 1
  <2> DEFINE base == New("widget", 0, NoText)
  <2>1. base \in WorkspaceRow /\ base.st = "row" /\ ~base.certified /\ base.kind = "widget"
    <3>1. "widget" \in Kinds /\ 0 \in 0..Names
      BY WorkspaceAssumption DEF Kinds
    <3> QED
      BY <3>1, NewSound
  <2>2. m + 1 \in Ids
    BY <1>2, <1>5, WorkspaceAssumption DEF Ids
  <2> HIDE DEF base, m
  <2>3. \A num \in Nat : LET w == [base EXCEPT !.of = m + 1, !.num = num]
                         IN  /\ w \in WorkspaceRow /\ w.st = "row" /\ ~w.certified
                             /\ w.kind = "widget" /\ w.of = m + 1
    BY <2>1, <2>2 DEF WorkspaceRow
  <2> QED
    BY <2>3 DEF base
<1> HIDE DEF n, head, copy
<1> DEFINE new == [j \in 1..(n + 1) |-> IF j = 1 THEN head ELSE copy(nth[j - 1][2])]
<1>8. /\ n + 1 \in Nat /\ Insert(new, n + 1) /\ 1 \in 1..(n + 1) /\ n + 1 >= 1
      /\ \A j \in 1..(n + 1) : j = 1 \/ j - 1 \in 1..n
  BY <1>2, <1>3
<1>9. /\ \A j \in 1..(n + 1) : new[j] = head \/ \E num \in Nat : new[j] = copy(num)
      /\ new[1] = head
  BY <1>4, <1>8
<1> HIDE DEF new
<1>10. /\ \A j \in 1..(n + 1) : new[j] \in WorkspaceRow /\ new[j].st = "row" /\ ~new[j].certified
       /\ \A j \in 1..(n + 1) : new[j].kind = "widget" =>
              \/ new[j].of \in Existing("dashboard")
              \/ n + 1 >= 1 /\ new[j].of = m + 1 /\ new[1].kind = "dashboard"
  BY <1>6, <1>7, <1>8, <1>9
<1>11. /\ RowsTyped' /\ Grown /\ CertifiedChecked'
       /\ \A i \in Ids : rows[i].st # "unborn" => rows'[i] = rows[i]
  <2> DEFINE size == n + 1
  <2>1. /\ size \in Nat /\ Insert(new, size)
        /\ \A j \in 1..size : new[j] \in WorkspaceRow /\ new[j].st = "row" /\ ~new[j].certified
        /\ \A j \in 1..size : new[j].kind = "widget" =>
               \/ new[j].of \in Existing("dashboard")
               \/ size >= 1 /\ new[j].of = Made + 1 /\ new[1].kind = "dashboard"
    BY <1>8, <1>10
  <2> HIDE DEF size
  <2> QED
    BY <1>0, <2>1, InsertedRows
<1>12. req' \in [Requests -> Request] /\ RequestsSound'
  BY <1>0, <1>1, <1>11, AloneMoves, IdleSound
<1>13. Seedings'
  <2>1. \A p \in Requests : /\ req'[p].kind = req[p].kind
                            /\ req[p].kind \in Seeded => req'[p].k = req[p].k
    BY <1>0, <1>1 DEF Goes, Idle
  <2> QED
    BY <1>0, <1>1, <2>1, SeedingsKept
<1> QED
  BY <1>0, <1>1, <1>11, <1>12, <1>13 DEF WorkspaceInv, WorkspaceTypeOK, RowsTyped

LEMMA SeedStep ==
    ASSUME WorkspaceInv, NEW r \in Requests, Seed(r) PROVE WorkspaceInv'
<1> DEFINE q == req[r]
           m == Made
           n == IF q.kind = "template" THEN SeedSize ELSE 1
           new == [j \in 1..n |-> Starter(q.kind, q.k + j - 1)]
           id == IF q.kind = "metric" THEN m + 1 ELSE 0
           at == IF q.kind = "metric" THEN "open"
                 ELSE IF q.k + n > SeedSize THEN "marking" ELSE "seed"
           w == [q EXCEPT !.k = q.k + n, !.id = id, !.at = at]
<1>0. /\ RowsTyped /\ CertifiedChecked /\ lists \in [Checklists -> Checklist]
      /\ req \in [Requests -> Request] /\ RequestsSound
      /\ created \in [Seeded -> [1..SeedSize -> Nat]] /\ Seedings
      /\ disturbed \subseteq Seeded /\ count \in Nat
  BY InvParts
<1>1. /\ q.at = "seed" /\ Insert(new, n) /\ Goes(r, w) /\ UNCHANGED <<lists, disturbed, count>>
      /\ created' = [created EXCEPT ![q.kind] =
                        [k \in 1..SeedSize |-> @[k] + IF k \in q.k..(q.k + n - 1) THEN 1 ELSE 0]]
  BY DEF Seed
<1>2. /\ q \in Request /\ q.op = "seed" /\ q.kind \in Seeded /\ q.k \in 1..SeedSize
      /\ q.kind = "template" => q.k = 1
      /\ Given(q) /\ About(q, rows) /\ SeedSize \in 1..Names /\ Names \in Nat
  BY <1>1, RequestFacts, WorkspaceAssumption DEF Given
<1>3. /\ n \in 1..SeedSize /\ q.k + n - 1 \in 1..SeedSize
      /\ q.kind = "template" => q.k + n > SeedSize
      /\ q.kind # "template" => n = 1
      /\ n \in Nat /\ n >= 1 /\ 1 \in 1..n
  BY <1>2
<1>4. ASSUME NEW j \in 1..n
      PROVE  new[j] \in WorkspaceRow /\ new[j].st = "row" /\ ~new[j].certified
             /\ new[j].kind = q.kind
  <2> DEFINE name == q.k + j - 1
             text == IF q.kind \in {"template", "metric"} THEN StarterText ELSE NoText
  <2>1. new[j] = New(q.kind, name, text)
    BY DEF Starter
  <2>2. name \in 0..Names
    BY <1>2, <1>3
  <2>3. text \in Texts \cup {NoText} /\ q.kind \in Kinds
    BY <1>2, WorkspaceAssumption DEF Kinds
  <2> HIDE DEF name, text, new
  <2> QED
    BY <2>1, <2>2, <2>3, NewSound
<1>5. /\ RowsTyped' /\ Grown /\ CertifiedChecked' /\ m \in Nat
      /\ \A i \in Ids : rows[i].st # "unborn" => rows'[i] = rows[i]
      /\ \A j \in 1..n : m + j \in Ids /\ rows'[m + j] = new[j]
  <2>1. q.kind # "widget" /\ n \in Nat
    BY <1>2, <1>3 DEF Seeded
  <2>2. \A j \in 1..n : new[j].kind = "widget" =>
            \/ new[j].of \in Existing("dashboard")
            \/ n >= 1 /\ new[j].of = Made + 1 /\ new[1].kind = "dashboard"
    BY <1>4, <2>1
  <2> HIDE DEF new, n
  <2> QED
    BY <1>0, <1>1, <1>4, <2>1, <2>2, InsertedRows
<1>6. id \in Ids \cup {0} /\ (id # 0 => rows'[id].st = "row") /\ (q.kind = "metric" <=> id # 0)
  <2>1. 1 \in 1..n
    <3> HIDE DEF n
    <3> QED
      BY <1>3
  <2>2. m + 1 \in Ids /\ rows'[m + 1].st = "row" /\ m + 1 # 0
    <3> HIDE DEF m, new, n
    <3> QED
      BY <1>4, <1>5, <2>1
  <2> HIDE DEF m, new, n
  <2> QED
    BY <2>2
<1>7. at \in {"open", "marking", "seed"} /\ (at = "open" <=> q.kind = "metric")
      /\ (at = "seed" => q.k + n \in 1..SeedSize) /\ (q.kind = "template" => at # "seed")
  BY <1>2, <1>3
<1>8. q.k + n \in Nat /\ q.k + n >= 1
  BY <1>2, <1>3
<1> DEFINE k2 == q.k + n
<1> HIDE DEF id, at, new
<1>9. /\ w \in Request /\ w.at = at /\ w.op = "seed" /\ w.kind = q.kind /\ w.k = q.k + n
      /\ w.id = id /\ w.seen = q.seen
  <2>1. [q EXCEPT !.k = k2, !.id = id, !.at = at] \in Request
    <3>1. k2 \in Nat
      BY <1>8
    <3> HIDE DEF k2, q
    <3> QED
      BY <1>2, <1>6, <1>7, <3>1 DEF Request
  <2> QED
    BY <1>2, <2>1 DEF Request
<1> HIDE DEF w
<1>10. Given(w)
  <2>1. q.kind = "template" => at # "seed"
    BY <1>7
  <2>2. IsFiniteSet(w.seen)
    BY <1>2, <1>9 DEF Given
  <2>3. at = "marking" => id = 0
    BY <1>6, <1>7
  <2>4. w.k >= 1 /\ (at = "seed" => w.k \in 1..SeedSize)
    BY <1>7, <1>8, <1>9
  <2>5. q.kind # "none"
    BY <1>2 DEF Seeded
  <2> HIDE DEF n, q
  <2> QED
    BY <1>2, <1>6, <1>7, <1>9, <2>1, <2>2, <2>3, <2>4, <2>5 DEF Given, Targeted
<1>11. About(w, rows')
  <2>1. Seen(w) = Seen(q) /\ \A v \in Seen(q) : v \in Ids
    BY <1>2, <1>9 DEF Seen, Request
  <2>2. \A v \in Seen(q) : rows[v].st # "unborn" /\ rows[v].kind = "widget"
    BY <1>2 DEF About
  <2>3. \A v \in Seen(q) : rows'[v].st # "unborn" /\ rows'[v].kind = "widget"
    BY <1>5, <2>1, <2>2 DEF Grown
  <2> HIDE DEF n, q
  <2> QED
    BY <1>6, <1>7, <1>9, <2>1, <2>3 DEF About
<1>12. req' \in [Requests -> Request] /\ RequestsSound' /\ req'[r] = w
  BY <1>0, <1>1, <1>5, <1>9, <1>10, <1>11, AloneMoves
<1>13. /\ created' \in [Seeded -> [1..SeedSize -> Nat]]
       /\ \A d \in Seeded \ {q.kind} : created'[d] = created[d]
       /\ \A k \in 1..SeedSize : created'[q.kind][k] =
              created[q.kind][k] + IF k \in q.k..(q.k + n - 1) THEN 1 ELSE 0
  <2> DEFINE row == [k \in 1..SeedSize |-> created[q.kind][k]
                                           + IF k \in q.k..(q.k + n - 1) THEN 1 ELSE 0]
  <2>1. created' = [created EXCEPT ![q.kind] = row]
    BY <1>1
  <2>2. row \in [1..SeedSize -> Nat]
    BY <1>0, <1>2
  <2>3. \A k \in 1..SeedSize : row[k] =
            created[q.kind][k] + IF k \in q.k..(q.k + n - 1) THEN 1 ELSE 0
    OBVIOUS
  <2> HIDE DEF row, n
  <2> QED
    BY <1>0, <1>2, <2>1, <2>2, <2>3
<1>14. \A p \in Requests \ {r} : req'[p] = req[p]
  BY <1>0, <1>1 DEF Goes
<1>15. ASSUME NEW d \in Seeded \ disturbed' PROVE SeedsOnce(d)'
  <2>1. SeedsOnce(d)
    BY <1>0, <1>1 DEF Seedings
  <2>2. CASE d = q.kind
    <3>1. /\ \A p \in Requests \ {r} : req[p].kind # d
          /\ \A k \in 1..SeedSize : created[d][k] <= 1 /\ (k >= q.k => created[d][k] = 0)
      BY <2>1, <2>2 DEF SeedsOnce
    <3>2. \A k \in 1..SeedSize : k >= q.k \/ k \notin q.k..(q.k + n - 1)
      BY <1>2
    <3>3. \A k \in 1..SeedSize : k >= q.k + n => k >= q.k /\ k \notin q.k..(q.k + n - 1)
      BY <1>2, <1>3
    <3>4. \A k \in 1..SeedSize : created'[d][k] <= 1 /\ (k >= w.k => created'[d][k] = 0)
      <4> SUFFICES ASSUME NEW k \in 1..SeedSize
                   PROVE  created'[d][k] <= 1 /\ (k >= w.k => created'[d][k] = 0)
        OBVIOUS
      <4>1. created'[d][k] = created[d][k] + IF k \in q.k..(q.k + n - 1) THEN 1 ELSE 0
        BY <1>13, <2>2
      <4>2. created[d][k] \in Nat
        BY <1>0
      <4>3. /\ created[d][k] <= 1 /\ (k >= q.k => created[d][k] = 0)
            /\ k >= q.k \/ k \notin q.k..(q.k + n - 1)
            /\ k >= q.k + n => k >= q.k /\ k \notin q.k..(q.k + n - 1)
        BY <3>1, <3>2, <3>3
      <4>4. w.k = q.k + n
        BY <1>9
      <4> DEFINE x == created[d][k]
                 y == created'[d][k]
                 hit == k \in q.k..(q.k + n - 1)
      <4>5. y = x + (IF hit THEN 1 ELSE 0) /\ x \in Nat /\ x <= 1
            /\ (hit => x = 0) /\ (k >= w.k => x = 0 /\ ~hit)
        BY <4>1, <4>2, <4>3, <4>4
      <4> HIDE DEF x, y, hit
      <4>6. y <= 1 /\ (k >= w.k => y = 0)
        BY <4>5
      <4> QED
        BY <4>6 DEF y
    <3>5. \A p, o \in Requests : req'[p].kind = d /\ req'[o].kind = d => p = r /\ o = r
      BY <1>14, <3>1
    <3> QED
      BY <1>9, <1>12, <2>2, <3>4, <3>5 DEF SeedsOnce
  <2>3. CASE d # q.kind
    <3>1. created'[d] = created[d] /\ UNCHANGED lists
      BY <1>1, <1>13, <2>3
    <3>2. \A p \in Requests : (req'[p].kind = d <=> req[p].kind = d)
                              /\ (req[p].kind = d => req'[p] = req[p])
      BY <1>9, <1>12, <1>14, <2>3
    <3> QED
      BY <2>1, <3>1, <3>2 DEF SeedsOnce
  <2> QED
    BY <2>2, <2>3
<1>16. Seedings'
  BY <1>15 DEF Seedings
<1> QED
  BY <1>0, <1>1, <1>5, <1>12, <1>13, <1>16 DEF WorkspaceInv, WorkspaceTypeOK, RowsTyped

\* A seeding that is given up after its first row is noted.
LEMMA SeedFailsStep ==
    ASSUME WorkspaceInv, NEW r \in Requests, SeedFails(r) PROVE WorkspaceInv'
<1> DEFINE q == req[r]
<1>0. /\ RowsTyped /\ CertifiedChecked /\ lists \in [Checklists -> Checklist]
      /\ req \in [Requests -> Request] /\ RequestsSound
      /\ created \in [Seeded -> [1..SeedSize -> Nat]] /\ Seedings
      /\ disturbed \subseteq Seeded /\ count \in Nat
  BY InvParts
<1>1. /\ q \in Request /\ q.kind \in Seeded /\ Goes(r, Idle)
      /\ disturbed' = (IF q.k > 1 THEN disturbed \cup {q.kind} ELSE disturbed)
      /\ UNCHANGED <<rows, lists, created, count>>
  BY RequestFacts DEF SeedFails, Given
<1>2. RowsTyped' /\ Grown /\ CertifiedChecked'
  BY <1>0, <1>1, RowsStay
<1>3. req' \in [Requests -> Request] /\ RequestsSound' /\ req'[r] = Idle
  BY <1>0, <1>1, <1>2, AloneMoves, IdleSound
<1>4. \A p \in Requests \ {r} : req'[p] = req[p]
  BY <1>0, <1>1 DEF Goes
<1>5. \A p \in Requests, d \in Seeded : req'[p].kind = d => req[p].kind = d /\ req'[p] = req[p]
  <2>1. Idle.kind \notin Seeded
    BY DEF Idle, Seeded
  <2> QED
    BY <1>3, <1>4, <2>1
<1>6. ASSUME NEW d \in Seeded \ disturbed' PROVE SeedsOnce(d)'
  <2>1. d \notin disturbed /\ SeedsOnce(d)
    BY <1>0, <1>1 DEF Seedings
  <2>2. /\ \A o, p \in Requests : req'[o].kind = d /\ req'[p].kind = d => o = p
        /\ \A k \in 1..SeedSize : created'[d][k] <= 1
        /\ \A p \in Requests, k \in 1..SeedSize :
              req'[p].kind = d /\ k >= req'[p].k => created'[d][k] = 0
    BY <1>1, <1>5, <2>1 DEF SeedsOnce
  <2>3. ASSUME d \notin lists'["onboarding"].done, \A p \in Requests : req'[p].kind # d
        PROVE  \A k \in 1..SeedSize : created'[d][k] = 0
    <3>1. CASE q.kind = d
      <4>1. \A k \in 1..SeedSize : k >= q.k
        BY <1>1, <1>6, <3>1, WorkspaceAssumption DEF Request
      <4> QED
        BY <1>1, <2>1, <3>1, <4>1 DEF SeedsOnce
    <3>2. CASE q.kind # d
      <4>1. \A p \in Requests : req[p].kind # d
        BY <1>4, <2>3, <3>2
      <4> QED
        BY <1>1, <2>1, <2>3, <4>1 DEF SeedsOnce
    <3> QED
      BY <3>1, <3>2
  <2> QED
    BY <2>2, <2>3 DEF SeedsOnce
<1>7. Seedings' /\ disturbed' \subseteq Seeded
  BY <1>0, <1>1, <1>6 DEF Seedings
<1> QED
  BY <1>0, <1>1, <1>2, <1>3, <1>7 DEF WorkspaceInv, WorkspaceTypeOK, RowsTyped

\* The marker of the kind is set, and those that the list loaded lacks are noted.
LEMMA MarkStep ==
    ASSUME WorkspaceInv, NEW r \in Requests, Mark(r) PROVE WorkspaceInv'
<1> DEFINE q == req[r]
           done == q.loaded.done \cup {q.kind}
<1>0. /\ RowsTyped /\ CertifiedChecked /\ lists \in [Checklists -> Checklist]
      /\ req \in [Requests -> Request] /\ RequestsSound
      /\ created \in [Seeded -> [1..SeedSize -> Nat]] /\ Seedings
      /\ disturbed \subseteq Seeded /\ count \in Nat
  BY InvParts
<1>1. /\ q \in Request /\ q.kind \in Seeded /\ Goes(r, Idle) /\ Writes("onboarding", done)
      /\ UNCHANGED <<rows, created, count>>
  BY RequestFacts DEF Mark, Given
<1>2. RowsTyped' /\ Grown /\ CertifiedChecked'
  BY <1>0, <1>1, RowsStay
<1>3. req' \in [Requests -> Request] /\ RequestsSound' /\ req'[r] = Idle
  BY <1>0, <1>1, <1>2, AloneMoves, IdleSound
<1>4. \A p \in Requests \ {r} : req'[p] = req[p]
  BY <1>0, <1>1 DEF Goes
<1>5. \A p \in Requests, d \in Seeded : req'[p].kind = d => req[p].kind = d /\ req'[p] = req[p]
  <2>1. Idle.kind \notin Seeded
    BY DEF Idle, Seeded
  <2> QED
    BY <1>3, <1>4, <2>1
<1>6. /\ lists' \in [Checklists -> Checklist] /\ disturbed' \subseteq Seeded
      /\ disturbed \subseteq disturbed' /\ lists'["onboarding"].done = done
      /\ \A d \in Seeded \ disturbed' :
            d \in lists["onboarding"].done => d \in lists'["onboarding"].done
  <2>1. done \in SUBSET (Items \cup Seeded) /\ "onboarding" \in Checklists
    BY <1>1 DEF Request, Checklist, Checklists
  <2> HIDE DEF done
  <2> QED
    BY <1>0, <1>1, <2>1, WritesSound
<1>7. ASSUME NEW d \in Seeded \ disturbed' PROVE SeedsOnce(d)'
  <2>1. d \notin disturbed /\ SeedsOnce(d)
    BY <1>0, <1>6 DEF Seedings
  <2>2. /\ \A o, p \in Requests : req'[o].kind = d /\ req'[p].kind = d => o = p
        /\ \A k \in 1..SeedSize : created'[d][k] <= 1
        /\ \A p \in Requests, k \in 1..SeedSize :
              req'[p].kind = d /\ k >= req'[p].k => created'[d][k] = 0
    BY <1>1, <1>5, <2>1 DEF SeedsOnce
  <2>3. ASSUME d \notin lists'["onboarding"].done, \A p \in Requests : req'[p].kind # d
        PROVE  \A k \in 1..SeedSize : created'[d][k] = 0
    <3>1. d # q.kind
      BY <1>6, <2>3
    <3>2. \A p \in Requests : req[p].kind # d
      BY <1>4, <2>3, <3>1
    <3>3. d \notin lists["onboarding"].done
      BY <1>6, <1>7, <2>3
    <3> QED
      BY <1>1, <2>1, <3>2, <3>3 DEF SeedsOnce
  <2> QED
    BY <2>2, <2>3 DEF SeedsOnce
<1>8. Seedings'
  BY <1>7 DEF Seedings
<1> QED
  BY <1>0, <1>1, <1>2, <1>3, <1>6, <1>8 DEF WorkspaceInv, WorkspaceTypeOK, RowsTyped

LEMMA CommitTicksStep ==
    ASSUME WorkspaceInv, NEW r \in Requests, CommitTicks(r) PROVE WorkspaceInv'
<1> DEFINE q == req[r]
           done == q.loaded.done \cup q.ticks
<1>0. /\ RowsTyped /\ CertifiedChecked /\ lists \in [Checklists -> Checklist]
      /\ req \in [Requests -> Request] /\ RequestsSound
      /\ created \in [Seeded -> [1..SeedSize -> Nat]] /\ Seedings
      /\ disturbed \subseteq Seeded /\ count \in Nat
  BY InvParts
<1>1. /\ q \in Request /\ q.kind = "none" /\ q.kind \notin Seeded /\ q.op = "tick"
      /\ Goes(r, Idle) /\ UNCHANGED <<rows, created, count>>
      /\ Writes(q.list, done) \/ UNCHANGED <<lists, disturbed>>
  BY RequestFacts DEF CommitTicks
<1>2. RowsTyped' /\ Grown /\ CertifiedChecked'
  BY <1>0, <1>1, RowsStay
<1>3. req' \in [Requests -> Request] /\ RequestsSound'
  BY <1>0, <1>1, <1>2, AloneMoves, IdleSound
<1>4. /\ lists' \in [Checklists -> Checklist] /\ disturbed' \subseteq Seeded
      /\ disturbed \subseteq disturbed'
      /\ \A d \in Seeded \ disturbed' :
            d \in lists["onboarding"].done => d \in lists'["onboarding"].done
  <2>1. done \in SUBSET (Items \cup Seeded) /\ q.list \in Checklists
    BY <1>1 DEF Request, Checklist
  <2> HIDE DEF done, q
  <2> QED
    BY <1>0, <1>1, <2>1, WritesSound
<1>5. Seedings'
  <2>1. \A p \in Requests : /\ req'[p].kind = req[p].kind
                            /\ req[p].kind \in Seeded => req'[p].k = req[p].k
    BY <1>0, <1>1 DEF Goes, Idle
  <2> QED
    BY <1>0, <1>1, <1>4, <2>1, SeedingsKept
<1> QED
  BY <1>0, <1>1, <1>2, <1>3, <1>4, <1>5 DEF WorkspaceInv, WorkspaceTypeOK, RowsTyped

LEMMA ServeStep ==
    ASSUME WorkspaceInv, NEW r \in Requests, Serve(r) PROVE WorkspaceInv'
<1>1. CASE Seed(r) \/ SeedFails(r) \/ Mark(r) \/ CommitTicks(r)
  BY <1>1, SeedStep, SeedFailsStep, MarkStep, CommitTicksStep
<1>2. CASE \/ UpdateText(r) \/ Rename(r) \/ RunSaved(r) \/ MoveWidget(r) \/ Uncertify(r)
           \/ Revoke(r)
  BY <1>2, PatchSteps
<1>3. CASE \/ ReadMarkers(r) \/ Open(r) \/ Vet(r) \/ ReadExport(r) \/ ExportRaises(r)
           \/ AbandonExport(r) \/ RequestFails(r)
  BY <1>3, AloneSteps
<1>4. CASE StartExport(r) \/ WriteExport(r) \/ FailExport(r)
  BY <1>4, ReportSteps
<1>5. CASE Delete(r) \/ Certify(r) \/ AddWidget(r) \/ ReorderWidgets(r) \/ Duplicate(r)
           \/ CommitPut(r)
  BY <1>5, DeleteStep, CertifyStep, AddWidgetStep, ReorderStep, DuplicateStep, CommitPutStep
<1> QED
  BY <1>1, <1>2, <1>3, <1>4, <1>5 DEF Serve

-----------------------------------------------------------------------------
LEMMA WorkspaceStart == WorkspaceInit => WorkspaceInv
<1> SUFFICES ASSUME WorkspaceInit PROVE WorkspaceInv
  OBVIOUS
<1>1. Unborn \in WorkspaceRow /\ Unborn.st = "unborn"
  BY WorkspaceAssumption DEF Unborn, WorkspaceRow, Kinds
<1>2. RowsTyped /\ CertifiedChecked
  BY <1>1 DEF WorkspaceInit, RowsTyped, CertifiedChecked, Existing
<1>3. req \in [Requests -> Request] /\ RequestsSound
  BY IdleSound DEF WorkspaceInit, RequestsSound
<1>4. /\ lists \in [Checklists -> Checklist]
      /\ created \in [Seeded -> [1..SeedSize -> Nat]]
      /\ \A d \in Seeded, k \in 1..SeedSize : created[d][k] = 0
  BY DEF WorkspaceInit, Checklist
<1>5. Seedings
  <2>1. \A r \in Requests : req[r].kind \notin Seeded
    BY DEF WorkspaceInit, Idle, Seeded
  <2> QED
    BY <1>4, <2>1 DEF Seedings, SeedsOnce
<1> QED
  BY <1>2, <1>3, <1>4, <1>5 DEF WorkspaceInit, WorkspaceInv, WorkspaceTypeOK, RowsTyped

LEMMA WorkspaceStutter == WorkspaceInv /\ UNCHANGED workspaceVars => WorkspaceInv'
<1> SUFFICES ASSUME WorkspaceInv, UNCHANGED workspaceVars PROVE WorkspaceInv'
  OBVIOUS
<1>0. /\ RowsTyped /\ CertifiedChecked /\ lists \in [Checklists -> Checklist]
      /\ req \in [Requests -> Request] /\ RequestsSound
      /\ created \in [Seeded -> [1..SeedSize -> Nat]] /\ Seedings
      /\ disturbed \subseteq Seeded /\ count \in Nat
      /\ UNCHANGED <<rows, lists, req, created, disturbed, count>>
  BY InvParts DEF workspaceVars
<1>1. RowsTyped' /\ Grown /\ CertifiedChecked'
  BY <1>0, RowsStay
<1>2. RequestsSound'
  BY <1>0, <1>1, NobodyMoves
<1>3. Seedings'
  BY <1>0, SeedingsKept
<1> QED
  BY <1>0, <1>1, <1>2, <1>3 DEF WorkspaceInv, WorkspaceTypeOK, RowsTyped

LEMMA WorkspaceInvariant == WorkspaceSpec => []WorkspaceInv
<1>1. WorkspaceInv /\ [WorkspaceNext]_workspaceVars => WorkspaceInv'
  BY AskStep, ServeStep, WorkspaceStutter DEF WorkspaceNext
<1> QED
  BY WorkspaceStart, <1>1, PTL DEF WorkspaceSpec

\* Type correctness of Workspace: ids are given in order, and every widget that is there
\* is on a dashboard that is there, through all creations, copies and cascades.
THEOREM WorkspaceTypeCorrect == WorkspaceSpec => []WorkspaceTypeOK
<1>1. WorkspaceInv => WorkspaceTypeOK
  BY DEF WorkspaceInv
<1> QED
  BY WorkspaceInvariant, <1>1, PTL

\* Lists opened one after the other put a starter row into an account once, whatever the
\* user does with the rows and the checklists in between.
THEOREM SeededOnceHolds == WorkspaceSpec => []SeededOnce
<1>1. WorkspaceInv => SeededOnce
  BY DEF WorkspaceInv, Seedings, SeedsOnce, SeededOnce
<1> QED
  BY WorkspaceInvariant, <1>1, PTL

\* A certified metric that has not been edited has the definition that was checked, however
\* the steps of its certification are interleaved with edits by others.
THEOREM CertifiedCheckedHolds == WorkspaceSpec => []CertifiedChecked
<1>1. WorkspaceInv => CertifiedChecked
  BY DEF WorkspaceInv
<1> QED
  BY WorkspaceInvariant, <1>1, PTL
=============================================================================
