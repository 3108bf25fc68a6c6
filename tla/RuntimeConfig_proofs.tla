------------------------ MODULE RuntimeConfig_proofs ------------------------
(***************************************************************************)
(* Proofs about RuntimeConfig for any processes, requests, users, keys,    *)
(* providers, models, databases and bounds.                                *)
(***************************************************************************)
EXTENDS RuntimeConfig, TLAPS

LEMMA BootTypes ==
    /\ Boot \in Config /\ Boot.choice \in Choices /\ Boot.url \in Urls
    /\ Boot.lo \in Depths /\ Boot.hi \in Depths /\ Boot.limited \in BOOLEAN
    /\ Free \in Request
BY ConfigAssumption DEF Config, Free, Request, Llm

\* The requests that actions begin with, and what they become.
LEMMA NewRequestTypes ==
    /\ \A p \in Procs, u \in Users \cup {NoUser}, c \in Choices, s \in Choices,
          pc \in {"key", "connect"} :
          [Free EXCEPT !.op = "ask", !.pc = pc, !.proc = p, !.user = u, !.choice = c,
                       !.begun = s, !.llm = [choice |-> s, key |-> Server]] \in Request
    /\ \A p \in Procs, a \in Users, c \in Choices :
          [Free EXCEPT !.op = "llm", !.pc = "check", !.proc = p, !.user = a,
                       !.choice = c] \in Request
    /\ \A p \in Procs, c \in Choices :
          [Free EXCEPT !.op = "deploy", !.pc = "list", !.proc = p, !.choice = c] \in Request
    /\ \A p \in Procs, url \in Urls :
          [Free EXCEPT !.op = "database", !.pc = "test", !.proc = p, !.url = url] \in Request
<1>1. \A p \in Procs, u \in Users \cup {NoUser}, c \in Choices, s \in Choices,
         pc \in {"key", "connect"} :
         [Free EXCEPT !.op = "ask", !.pc = pc, !.proc = p, !.user = u, !.choice = c,
                      !.begun = s, !.llm = [choice |-> s, key |-> Server]] \in Request
  <2>1. \A s \in Choices : [choice |-> s, key |-> Server] \in Llm
    BY DEF Llm
  <2>2. \A p \in Procs, u \in Users \cup {NoUser}, c \in Choices, s \in Choices, k \in Llm,
           pc \in {"key", "connect"} :
           [Free EXCEPT !.op = "ask", !.pc = pc, !.proc = p, !.user = u, !.choice = c,
                        !.begun = s, !.llm = k] \in Request
    <3> TAKE p \in Procs, u \in Users \cup {NoUser}, c \in Choices, s \in Choices, k \in Llm,
             pc \in {"key", "connect"}
    <3> QED
      BY BootTypes DEF Request
  <2> QED
    BY <2>1, <2>2
<1>2. \A p \in Procs, a \in Users, c \in Choices :
         [Free EXCEPT !.op = "llm", !.pc = "check", !.proc = p, !.user = a,
                      !.choice = c] \in Request
  BY BootTypes DEF Request
<1>3. /\ \A p \in Procs, c \in Choices :
            [Free EXCEPT !.op = "deploy", !.pc = "list", !.proc = p, !.choice = c] \in Request
      /\ \A p \in Procs, url \in Urls :
            [Free EXCEPT !.op = "database", !.pc = "test", !.proc = p, !.url = url] \in Request
  BY BootTypes DEF Request
<1> QED
  BY <1>1, <1>2, <1>3

LEMMA RequestTypes ==
    /\ \A w \in Request : \A k \in Llm : [w EXCEPT !.pc = "connect", !.llm = k] \in Request
    /\ \A w \in Request : \A lo \in Depths, hi \in Depths :
          [w EXCEPT !.pc = "built", !.lo = lo, !.hi = hi] \in Request
    /\ \A w \in Request : [w EXCEPT !.pc = "dispose"] \in Request
BY DEF Request

-----------------------------------------------------------------------------
(* Type correctness of RuntimeConfig, the invariant TypeOK, together with who a
   request is for and where it is served. *)

\* A request under way is in some process, and only a user's looks for a key.
Placed ==
    \A r \in Requests : /\ ~At(r, "none") => req[r].proc \in Procs
                        /\ At(r, "key") => req[r].user \in Users

LEMMA TypeInit == Init => TypeOK /\ Placed
<1>1. Init => TypeOK
  BY BootTypes, ConfigAssumption DEF Init, TypeOK, Copies
<1>2. Init => Placed
  BY DEF Init, Placed, At, Free
<1> QED
  BY <1>1, <1>2

\* One request is changed, and stays in its process, for its user.
LEMMA PlacedStep ==
    ASSUME TypeOK, Placed, NEW r \in Requests, NEW w, req' = [req EXCEPT ![r] = w],
           w.pc # "none" => w.proc \in Procs, w.pc = "key" => w.user \in Users
    PROVE  Placed'
BY DEF Placed, At, TypeOK

LEMMA ChoiceTypes ==
    ASSUME TypeOK, NEW p \in Procs
    PROVE  Current(p) \in Choices /\ server[p] \in Choices
BY DEF Current, TypeOK, Config, Copies

\* A switch of the model leaves settings.
LEMMA SwitchTypes ==
    ASSUME TypeOK, NEW p \in Procs, NEW c \in Choices, SwitchLlm(p, c)
    PROVE  /\ server' \in [Procs -> Choices]
           /\ tracked' \in [Procs -> Choices \cup {NoChoice}]
           /\ config' \in [Procs -> [Copies -> Config]]
<1>1. server' \in [Procs -> Choices] /\ tracked' \in [Procs -> Choices \cup {NoChoice}]
  BY DEF SwitchLlm, TypeOK
<1>2. \A x \in Copies : [config[p][x] EXCEPT !.choice = c] \in Config
  <2>1. \A x \in Copies : config[p][x] \in Config
    BY DEF TypeOK
  <2>2. \A s \in Config : [s EXCEPT !.choice = c] \in Config
    BY DEF Config
  <2> QED
    BY <2>1, <2>2
<1>3. config' = [config EXCEPT ![p] = [x \in Copies |-> [config[p][x] EXCEPT !.choice = c]]]
  BY DEF SwitchLlm, TypeOK
<1> QED
  BY <1>1, <1>2, <1>3 DEF TypeOK

LEMMA AskTypes ==
    ASSUME TypeOK, Placed, NEW r \in Requests, NEW p \in Procs, NEW u \in Users \cup {NoUser},
           Ask(r, p, u)
    PROVE  TypeOK' /\ Placed'
<1> DEFINE pc == IF u = NoUser THEN "connect" ELSE "key"
           w == [Free EXCEPT !.op = "ask", !.pc = pc, !.proc = p, !.user = u,
                             !.choice = Current(p), !.begun = server[p],
                             !.llm = [choice |-> server[p], key |-> Server]]
<1>1. w \in Request
  BY ChoiceTypes, NewRequestTypes
<1>2. req' = [req EXCEPT ![r] = w]
  BY DEF Ask, Begins
<1>3. w.pc = pc /\ w.proc = p /\ w.user = u
  BY DEF Free
<1>4. TypeOK'
  <2> HIDE DEF w
  <2> QED
    BY <1>1, <1>2 DEF Ask, process, TypeOK
<1>5. Placed'
  <2>1. w.proc \in Procs /\ (w.pc = "key" => w.user \in Users)
    BY <1>3
  <2> HIDE DEF w
  <2> QED
    BY <1>2, <2>1, PlacedStep
<1> QED
  BY <1>4, <1>5

LEMMA GetKeyTypes ==
    ASSUME TypeOK, Placed, NEW r \in Requests, NEW ok \in BOOLEAN, GetKey(r, ok)
    PROVE  TypeOK' /\ Placed'
<1> DEFINE w == req[r]
           k == keys[w.user][w.choice.provider]
           llm == IF ok /\ k # NoKey THEN [choice |-> w.choice, key |-> k] ELSE w.llm
           q == [w EXCEPT !.pc = "connect", !.llm = llm]
<1>1. w \in Request /\ w.user \in Users /\ w.llm \in Llm /\ w.choice \in Choices /\ w.proc \in Procs
  BY DEF GetKey, Placed, At, TypeOK, Request
<1>2. k \in Key \cup {NoKey}
  BY <1>1, ConfigAssumption DEF TypeOK, Choices
<1>3. llm \in Llm
  BY <1>1, <1>2 DEF Llm
<1>4. req' = [req EXCEPT ![r] = q]
  BY <1>1 DEF GetKey, Becomes, Request
<1>5. q \in Request /\ q.proc \in Procs /\ q.pc = "connect"
  <2> HIDE DEF w, llm
  <2> QED
    BY <1>1, <1>3, RequestTypes DEF Request
<1> HIDE DEF q
<1>6. Placed'
  BY <1>4, <1>5, PlacedStep
<1> QED
  BY <1>4, <1>5, <1>6 DEF GetKey, process, TypeOK

LEMMA BuildTypes ==
    ASSUME TypeOK, Placed, NEW r \in Requests, Build(r)
    PROVE  TypeOK' /\ Placed'
<1> DEFINE p == req[r].proc
           s == config[p]["live"]
           q == [req[r] EXCEPT !.pc = "built", !.lo = s.lo, !.hi = s.hi]
<1>1. p \in Procs /\ req[r] \in Request
  BY DEF Build, Placed, At, TypeOK
<1>2. s \in Config /\ server[p] \in Choices
  BY <1>1 DEF TypeOK, Copies
<1>3. req' = [req EXCEPT ![r] = q]
  BY DEF Build, Becomes
<1>4. q \in Request /\ q.proc \in Procs /\ q.pc = "built"
  <2>1. s.lo \in Depths /\ s.hi \in Depths
    BY <1>2 DEF Config
  <2> HIDE DEF s
  <2> QED
    BY <1>1, <2>1, RequestTypes DEF Request
<1>5. selector' \in [Procs -> Choices \cup {NoChoice}]
  BY <1>1, <1>2 DEF Build, TypeOK
<1> HIDE DEF q
<1>6. Placed'
  BY <1>3, <1>4, PlacedStep
<1> QED
  BY <1>3, <1>4, <1>5, <1>6 DEF Build, TypeOK

\* A request that becomes free, or disposes of an engine, changes nothing of its types.
LEMMA BecomesTypes ==
    ASSUME TypeOK, Placed, NEW r \in Requests,
           \/ req' = [req EXCEPT ![r] = Free]
           \/ req' = [req EXCEPT ![r] = [req[r] EXCEPT !.pc = "dispose"]] /\ ~At(r, "none")
    PROVE  req' \in [Requests -> Request] /\ Placed'
<1>1. CASE req' = [req EXCEPT ![r] = Free]
  <2>1. Free \in Request /\ Free.pc = "none"
    BY BootTypes DEF Free
  <2> QED
    BY <1>1, <2>1, PlacedStep DEF TypeOK
<1>2. CASE req' = [req EXCEPT ![r] = [req[r] EXCEPT !.pc = "dispose"]] /\ ~At(r, "none")
  <2> DEFINE q == [req[r] EXCEPT !.pc = "dispose"]
  <2>1. q \in Request /\ q.pc = "dispose" /\ q.proc \in Procs
    <3>1. req[r] \in Request /\ req[r].proc \in Procs
      BY <1>2 DEF TypeOK, Placed
    <3>2. q.pc = "dispose" /\ q.proc = req[r].proc
      BY <3>1 DEF Request
    <3> QED
      BY <3>1, <3>2, RequestTypes
  <2> HIDE DEF q
  <2>2. req' = [req EXCEPT ![r] = q]
    BY <1>2 DEF q
  <2> QED
    BY <2>1, <2>2, PlacedStep DEF TypeOK
<1> QED
  BY <1>1, <1>2

LEMMA BeginTypes ==
    ASSUME TypeOK, Placed, NEW r \in Requests, NEW p \in Procs,
           \/ \E a \in Admins, m \in Models : UpdateLlm(r, p, a, m)
           \/ \E m \in Tuned : Deploy(r, p, m)
           \/ \E url \in Urls : UpdateDatabase(r, p, url)
    PROVE  TypeOK' /\ Placed'
<1>1. PICK w \in Request : /\ req' = [req EXCEPT ![r] = w] /\ w.proc = p /\ w.pc # "key"
                           /\ UNCHANGED <<keys, process, tuned, torn>> /\ Edits
  <2>1. ASSUME NEW a \in Admins, NEW m \in Models, UpdateLlm(r, p, a, m)
        PROVE  \E w \in Request : /\ req' = [req EXCEPT ![r] = w] /\ w.proc = p /\ w.pc # "key"
                                  /\ UNCHANGED <<keys, process, tuned, torn>> /\ Edits
    <3>1. [provider |-> OfferedBy[m], model |-> m] \in Choices /\ a \in Users
      BY ConfigAssumption DEF Choices
    <3> DEFINE w == [Free EXCEPT !.op = "llm", !.pc = "check", !.proc = p, !.user = a,
                                 !.choice = [provider |-> OfferedBy[m], model |-> m]]
    <3>2. w \in Request
      BY <3>1, NewRequestTypes
    <3>3. w.proc = p /\ w.pc # "key"
      BY DEF Free
    <3>4. /\ req' = [req EXCEPT ![r] = w] /\ Edits
          /\ UNCHANGED <<keys, process, tuned, torn>>
      BY <2>1 DEF UpdateLlm, Begins
    <3> HIDE DEF w
    <3> QED
      BY <3>2, <3>3, <3>4
  <2>2. ASSUME NEW m \in Tuned, Deploy(r, p, m)
        PROVE  \E w \in Request : /\ req' = [req EXCEPT ![r] = w] /\ w.proc = p /\ w.pc # "key"
                                  /\ UNCHANGED <<keys, process, tuned, torn>> /\ Edits
    <3>1. [provider |-> FineTuner, model |-> m] \in Choices
      BY <2>2 DEF Choices, Deploy
    <3> DEFINE w == [Free EXCEPT !.op = "deploy", !.pc = "list", !.proc = p,
                                 !.choice = [provider |-> FineTuner, model |-> m]]
    <3>2. w \in Request
      BY <3>1, NewRequestTypes
    <3>3. w.proc = p /\ w.pc # "key"
      BY DEF Free
    <3>4. /\ req' = [req EXCEPT ![r] = w] /\ Edits
          /\ UNCHANGED <<keys, process, tuned, torn>>
      BY <2>2 DEF Deploy, Begins
    <3> HIDE DEF w
    <3> QED
      BY <3>2, <3>3, <3>4
  <2>3. ASSUME NEW url \in Urls, UpdateDatabase(r, p, url)
        PROVE  \E w \in Request : /\ req' = [req EXCEPT ![r] = w] /\ w.proc = p /\ w.pc # "key"
                                  /\ UNCHANGED <<keys, process, tuned, torn>> /\ Edits
    <3> DEFINE w == [Free EXCEPT !.op = "database", !.pc = "test", !.proc = p, !.url = url]
    <3>1. w \in Request
      BY NewRequestTypes
    <3>2. w.proc = p /\ w.pc # "key"
      BY DEF Free
    <3>3. /\ req' = [req EXCEPT ![r] = w] /\ Edits
          /\ UNCHANGED <<keys, process, tuned, torn>>
      BY <2>3 DEF UpdateDatabase, Begins
    <3> HIDE DEF w
    <3> QED
      BY <3>1, <3>2, <3>3
  <2> QED
    BY <2>1, <2>2, <2>3
<1>2. Placed'
  BY <1>1, PlacedStep
<1> QED
  BY <1>1, <1>2 DEF Edits, process, TypeOK

LEMMA CheckTypes ==
    ASSUME TypeOK, Placed, NEW r \in Requests, NEW ok \in BOOLEAN,
           CheckKey(r, ok) \/ ListJobs(r, ok)
    PROVE  TypeOK' /\ Placed'
<1> DEFINE w == req[r]
<1>1. w \in Request /\ w.choice \in Choices /\ w.proc \in Procs
  BY DEF CheckKey, ListJobs, Placed, At, TypeOK, Request
<1>2. /\ req' = [req EXCEPT ![r] = Free]
      /\ SwitchLlm(w.proc, w.choice) \/ UNCHANGED process
      /\ UNCHANGED <<keys, tuned, torn, edits>>
  BY DEF CheckKey, ListJobs, Becomes
<1>3. req' \in [Requests -> Request] /\ Placed'
  BY <1>2, BecomesTypes
<1>4. CASE SwitchLlm(w.proc, w.choice)
  <2>1. UNCHANGED <<selector, engine, limiter>>
    BY <1>4 DEF SwitchLlm
  <2> QED
    BY <1>1, <1>2, <1>3, <1>4, <2>1, SwitchTypes DEF TypeOK
<1>5. CASE UNCHANGED process
  BY <1>2, <1>3, <1>5 DEF process, TypeOK
<1> QED
  BY <1>2, <1>4, <1>5

LEMMA EngineTypes ==
    ASSUME TypeOK, Placed, NEW r \in Requests, NEW ok \in BOOLEAN,
           SwitchEngine(r, ok) \/ DisposeEngine(r, ok)
    PROVE  TypeOK' /\ Placed'
<1> DEFINE w == req[r]
<1>1. w \in Request /\ w.url \in Urls /\ w.proc \in Procs /\ ~At(r, "none")
  BY DEF SwitchEngine, DisposeEngine, Placed, At, TypeOK, Request
<1>2. req' \in [Requests -> Request] /\ Placed'
  <2>1. \/ req' = [req EXCEPT ![r] = Free]
        \/ req' = [req EXCEPT ![r] = [req[r] EXCEPT !.pc = "dispose"]]
    BY DEF SwitchEngine, DisposeEngine, Becomes
  <2> QED
    BY <1>1, <2>1, BecomesTypes
<1>3. CASE SwitchEngine(r, ok)
  BY <1>1, <1>2, <1>3 DEF SwitchEngine, TypeOK
<1>4. CASE DisposeEngine(r, ok)
  <2>1. config' \in [Procs -> [Copies -> Config]]
    <3>1. config[w.proc]["container"] \in Config
      BY <1>1 DEF TypeOK, Copies
    <3>2. \A s \in Config : [s EXCEPT !.url = w.url] \in Config
      BY <1>1 DEF Config
    <3>3. config' = IF ok THEN [config EXCEPT ![w.proc] = [config[w.proc] EXCEPT
                                   !["container"] = [config[w.proc]["container"] EXCEPT !.url = w.url]]]
                          ELSE config
      BY <1>1, <1>4 DEF DisposeEngine, TypeOK
    <3>4. [config[w.proc] EXCEPT !["container"] = [config[w.proc]["container"] EXCEPT !.url = w.url]]
             \in [Copies -> Config]
      BY <1>1, <3>1, <3>2 DEF TypeOK
    <3> QED
      BY <3>3, <3>4 DEF TypeOK
  <2> QED
    BY <1>1, <1>2, <1>4, <2>1 DEF DisposeEngine, TypeOK
<1> QED
  BY <1>3, <1>4

LEMMA SettingsTypes ==
    ASSUME TypeOK, NEW p \in Procs, NEW lo \in Given, NEW hi \in Given, NEW on \in BOOLEAN,
           UpdateRag(p, lo, hi) \/ ToggleRateLimit(p, on)
    PROVE  TypeOK'
<1>1. \A x \in Copies : config[p][x] \in Config
  BY DEF TypeOK
<1>2. CASE UpdateRag(p, lo, hi)
  <2>1. \A s \in Config : Bounded(s, lo, hi) \in Config
    <3> TAKE s \in Config
    <3>1. Merged(lo, s.lo) \in Depths /\ Merged(hi, s.hi) \in Depths
      BY DEF Config, Merged, Given
    <3>2. \A a \in Depths, b \in Depths : [s EXCEPT !.lo = a, !.hi = b] \in Config
      BY DEF Config
    <3> QED
      BY <3>1, <3>2 DEF Bounded
  <2>2. config' = [config EXCEPT ![p] = [x \in Copies |-> Bounded(config[p][x], lo, hi)]]
    BY <1>2 DEF UpdateRag, TypeOK
  <2>3. config' \in [Procs -> [Copies -> Config]]
    BY <1>1, <2>1, <2>2 DEF TypeOK
  <2>4. edits' \in Nat /\ UNCHANGED <<keys, tracked, server, selector, engine, limiter, tuned, req, torn>>
    BY <1>2 DEF UpdateRag, Edits, TypeOK
  <2> QED
    BY <2>3, <2>4 DEF TypeOK
<1>3. CASE ToggleRateLimit(p, on)
  <2>1. \A s \in Config : [s EXCEPT !.limited = on] \in Config
    BY DEF Config
  <2>2. config' = [config EXCEPT ![p] = [config[p] EXCEPT
                      !["live"] = [config[p]["live"] EXCEPT !.limited = on]]]
    BY <1>3 DEF ToggleRateLimit, TypeOK
  <2>3. [config[p] EXCEPT !["live"] = [config[p]["live"] EXCEPT !.limited = on]]
            \in [Copies -> Config]
    BY <1>1, <2>1 DEF TypeOK, Copies
  <2>4. config' \in [Procs -> [Copies -> Config]]
    BY <2>2, <2>3 DEF TypeOK
  <2> QED
    BY <1>3, <2>4 DEF ToggleRateLimit, Edits, TypeOK
<1> QED
  BY <1>2, <1>3

LEMMA RestartTypes ==
    ASSUME TypeOK, Placed, NEW p \in Procs, Restart(p)
    PROVE  TypeOK' /\ Placed'
<1>1. Free \in Request /\ Free.pc = "none"
  BY BootTypes DEF Free
<1>2. req' \in [Requests -> Request]
  BY <1>1 DEF Restart, TypeOK
<1>3. Placed'
  BY <1>1 DEF Restart, Placed, At
<1>4. config' \in [Procs -> [Copies -> Config]]
  BY BootTypes DEF Restart, TypeOK
<1> QED
  BY <1>2, <1>3, <1>4, BootTypes DEF Restart, TypeOK

LEMMA ProfileTypes == ASSUME TypeOK, Profile PROVE TypeOK'
<1>1. ASSUME NEW u \in Users, NEW v \in Vendors, SaveKey(u, v) PROVE TypeOK'
  <2>1. [user |-> u, vendor |-> v, n |-> edits] \in Key
    BY DEF Key, TypeOK
  <2> QED
    BY <1>1, <2>1 DEF SaveKey, Edits, process, TypeOK
<1>2. ASSUME NEW u \in Users, NEW v \in Vendors, DeleteKey(u, v) PROVE TypeOK'
  BY <1>2 DEF DeleteKey, process, TypeOK
<1> QED
  BY <1>1, <1>2 DEF Profile

LEMMA TypeStep == TypeOK /\ Placed /\ [Next]_vars => TypeOK' /\ Placed'
<1> SUFFICES ASSUME TypeOK, Placed, [Next]_vars PROVE TypeOK' /\ Placed'
  OBVIOUS
<1>1. CASE UNCHANGED vars
  BY <1>1 DEF vars, TypeOK, Placed, At
<1>2. CASE Profile
  <2>1. UNCHANGED req
    BY <1>2 DEF Profile, SaveKey, DeleteKey
  <2> QED
    BY <1>2, <2>1, ProfileTypes DEF Placed, At
<1>3. CASE Serve
  <2>1. ASSUME NEW r \in Requests, Leave(r) PROVE TypeOK' /\ Placed'
    <3>1. req' = [req EXCEPT ![r] = Free]
      BY <2>1 DEF Leave, Becomes
    <3> QED
      BY <2>1, <3>1, BecomesTypes DEF Leave, process, TypeOK
  <2> QED
    BY <1>3, <2>1, AskTypes, GetKeyTypes, BuildTypes DEF Serve
<1>4. CASE Administer
  <2>1. ASSUME NEW p \in Procs, NEW lo \in Given, NEW hi \in Given, NEW on \in BOOLEAN,
               UpdateRag(p, lo, hi) \/ ToggleRateLimit(p, on)
        PROVE  TypeOK' /\ Placed'
    <3>1. UNCHANGED req
      BY <2>1 DEF UpdateRag, ToggleRateLimit
    <3> QED
      BY <2>1, <3>1, SettingsTypes DEF Placed, At
  <2>2. 0 \in Given
    BY DEF Given
  <2> QED
    BY <1>4, <2>1, <2>2, BeginTypes, CheckTypes, EngineTypes DEF Administer
<1>5. ASSUME NEW m \in Tuned, JobSucceeds(m) PROVE TypeOK' /\ Placed'
  BY <1>5 DEF JobSucceeds, process, TypeOK, Placed, At
<1> QED
  BY <1>1, <1>2, <1>3, <1>4, <1>5, RestartTypes DEF Next

\* Every variable has its type: the invariant TypeOK.
THEOREM TypeCorrect == Spec => []TypeOK
BY TypeInit, TypeStep, PTL DEF Spec

-----------------------------------------------------------------------------
(* One choice. *)

\* A key is kept for its user and the provider it was saved for.
KeysFiled ==
    \A u \in Users, v \in Vendors : keys[u][v] # NoKey =>
        keys[u][v].user = u /\ keys[u][v].vendor = v

\* What OneChoice says of a pipeline.
OfOneChoice(w) ==
    /\ w.llm.choice = w.begun
    /\ w.llm.key # Server => /\ w.llm.key.user = w.user
                             /\ w.llm.key.vendor = w.llm.choice.provider

\* A request that has still to look for a key has the server's provider, for the
\* choice that was active when it came.
Assembled ==
    \A r \in Requests :
        /\ At(r, "key") => /\ req[r].choice = req[r].begun
                           /\ req[r].llm = [choice |-> req[r].begun, key |-> Server]
        /\ req[r].pc \in {"connect", "built"} => OfOneChoice(req[r])

\* A model is active in a process as its settings and its provider have it.
ActiveEverywhere ==
    \A p \in Procs : /\ \A c \in Copies : config[p][c].choice = server[p]
                     /\ tracked[p] \in {NoChoice, server[p]}

LEMMA CurrentIsServer ==
    ASSUME ActiveEverywhere, NEW p \in Procs
    PROVE  Current(p) = server[p]
BY DEF ActiveEverywhere, Current, Copies

ChoiceInv == KeysFiled /\ Assembled /\ ActiveEverywhere

LEMMA ChoiceInit == Init => ChoiceInv
<1> SUFFICES ASSUME Init PROVE ChoiceInv
  OBVIOUS
<1>1. KeysFiled
  BY DEF Init, KeysFiled
<1>2. Assembled
  BY DEF Init, Assembled, At, Free
<1>3. ActiveEverywhere
  BY DEF Init, ActiveEverywhere, Copies
<1> QED
  BY <1>1, <1>2, <1>3 DEF ChoiceInv

\* A request that is no pipeline yet, nor will look for a key.
LEMMA AssembledFrame ==
    ASSUME TypeOK, Assembled, NEW r \in Requests, NEW w, req' = [req EXCEPT ![r] = w],
           w.pc \notin {"key", "connect", "built"}
    PROVE  Assembled'
BY DEF Assembled, At, TypeOK

LEMMA ActiveFrame ==
    ASSUME ActiveEverywhere, UNCHANGED <<tracked, server>>,
           \A p \in Procs, c \in Copies : config'[p][c].choice = config[p][c].choice
    PROVE  ActiveEverywhere'
BY DEF ActiveEverywhere

LEMMA SwitchChoice ==
    ASSUME TypeOK, ActiveEverywhere, NEW p \in Procs, NEW c \in Choices, SwitchLlm(p, c)
    PROVE  ActiveEverywhere'
<1>1. server' = [server EXCEPT ![p] = c] /\ tracked' = [tracked EXCEPT ![p] = c]
  BY DEF SwitchLlm
<1>2. config' = [config EXCEPT ![p] = [x \in Copies |-> [config[p][x] EXCEPT !.choice = c]]]
  BY DEF SwitchLlm, TypeOK
<1>3. \A x \in Copies : config[p][x] \in Config
  BY DEF TypeOK
<1>4. \A x \in Copies : config'[p][x].choice = c
  BY <1>2, <1>3 DEF TypeOK, Config
<1>5. \A q \in Procs \ {p} : config'[q] = config[q]
  BY <1>2 DEF TypeOK
<1> QED
  BY <1>1, <1>4, <1>5 DEF ActiveEverywhere, TypeOK

LEMMA AskChoice ==
    ASSUME TypeOK, ChoiceInv, NEW r \in Requests, NEW p \in Procs, NEW u \in Users \cup {NoUser},
           Ask(r, p, u)
    PROVE  Assembled'
<1> DEFINE pc == IF u = NoUser THEN "connect" ELSE "key"
           w == [Free EXCEPT !.op = "ask", !.pc = pc, !.proc = p, !.user = u,
                             !.choice = Current(p), !.begun = server[p],
                             !.llm = [choice |-> server[p], key |-> Server]]
<1>1. req' = [req EXCEPT ![r] = w]
  BY DEF Ask, Begins
<1>2. w.choice = w.begun /\ w.llm = [choice |-> w.begun, key |-> Server]
  BY CurrentIsServer DEF Free, ChoiceInv
<1> HIDE DEF w
<1>3. OfOneChoice(w)
  BY <1>2 DEF OfOneChoice
<1> QED
  BY <1>1, <1>2, <1>3 DEF Assembled, At, TypeOK, ChoiceInv

LEMMA GetKeyChoice ==
    ASSUME TypeOK, Placed, ChoiceInv, NEW r \in Requests, NEW ok \in BOOLEAN, GetKey(r, ok)
    PROVE  Assembled'
<1> DEFINE w == req[r]
           k == keys[w.user][w.choice.provider]
           llm == IF ok /\ k # NoKey THEN [choice |-> w.choice, key |-> k] ELSE w.llm
           q == [w EXCEPT !.pc = "connect", !.llm = llm]
<1>1. w \in Request /\ w.user \in Users /\ w.choice \in Choices
  BY DEF GetKey, Placed, At, TypeOK, Request
<1>2. w.choice = w.begun /\ w.llm = [choice |-> w.begun, key |-> Server]
  BY DEF GetKey, ChoiceInv, Assembled
<1>3. w.choice.provider \in Vendors
  BY <1>1, ConfigAssumption DEF Choices
<1>4. k # NoKey => k.user = w.user /\ k.vendor = w.choice.provider
  BY <1>1, <1>3 DEF ChoiceInv, KeysFiled
<1>5. req' = [req EXCEPT ![r] = q]
  BY <1>1 DEF GetKey, Becomes, Request
<1>6. q.llm = llm /\ q.begun = w.begun /\ q.user = w.user /\ q.pc = "connect"
  BY <1>1 DEF Request
<1>7. OfOneChoice(q)
  <2>1. /\ llm.choice = w.begun
        /\ llm.key # Server => llm.key.user = w.user /\ llm.key.vendor = llm.choice.provider
    <3>1. CASE ok /\ k # NoKey
      <4>1. llm.choice = w.choice /\ llm.key = k
        BY <3>1
      <4> QED
        BY <1>2, <1>4, <3>1, <4>1
    <3>2. CASE ~(ok /\ k # NoKey)
      BY <1>2, <3>2
    <3> QED
      BY <3>1, <3>2
  <2> HIDE DEF llm, q
  <2> QED
    BY <1>6, <2>1 DEF OfOneChoice
<1> HIDE DEF q
<1> QED
  BY <1>5, <1>6, <1>7 DEF Assembled, At, TypeOK, ChoiceInv

LEMMA BuildChoice ==
    ASSUME TypeOK, ChoiceInv, NEW r \in Requests, Build(r)
    PROVE  Assembled'
<1> DEFINE s == config[req[r].proc]["live"]
           w == [req[r] EXCEPT !.pc = "built", !.lo = s.lo, !.hi = s.hi]
<1>1. req' = [req EXCEPT ![r] = w]
  BY DEF Build, Becomes
<1>2. req[r] \in Request /\ OfOneChoice(req[r])
  BY DEF Build, At, ChoiceInv, Assembled, TypeOK
<1>3. w.llm = req[r].llm /\ w.begun = req[r].begun /\ w.user = req[r].user /\ w.pc = "built"
  BY <1>2 DEF Request
<1> HIDE DEF w
<1>4. OfOneChoice(w)
  BY <1>2, <1>3 DEF OfOneChoice
<1> QED
  BY <1>1, <1>3, <1>4 DEF Assembled, At, TypeOK, ChoiceInv

\* The keys, when one is saved or deleted.
LEMMA ProfileChoice == ASSUME TypeOK, ChoiceInv, Profile PROVE ChoiceInv'
<1>1. UNCHANGED <<config, tracked, server, req>>
  BY DEF Profile, SaveKey, DeleteKey, process
<1>2. Assembled' /\ ActiveEverywhere'
  BY <1>1 DEF ChoiceInv, Assembled, OfOneChoice, ActiveEverywhere, At
<1>3. ASSUME NEW u \in Users, NEW v \in Vendors, SaveKey(u, v)
      PROVE  KeysFiled'
  BY <1>3 DEF SaveKey, KeysFiled, ChoiceInv, TypeOK
<1>4. ASSUME NEW u \in Users, NEW v \in Vendors, DeleteKey(u, v)
      PROVE  KeysFiled'
  BY <1>4 DEF DeleteKey, KeysFiled, ChoiceInv, TypeOK
<1> QED
  BY <1>2, <1>3, <1>4 DEF Profile, ChoiceInv

\* A request that leaves the model as it is, and ends or waits for something else.
LEMMA ServeChoice == ASSUME TypeOK, Placed, ChoiceInv, Serve PROVE ChoiceInv'
<1>1. UNCHANGED <<keys, config, tracked, server>>
  BY DEF Serve, Ask, GetKey, Build, Leave, process
<1>2. KeysFiled' /\ ActiveEverywhere'
  BY <1>1 DEF ChoiceInv, KeysFiled, ActiveEverywhere
<1>3. ASSUME NEW r \in Requests, Leave(r) PROVE Assembled'
  BY <1>3, AssembledFrame DEF Leave, Becomes, ChoiceInv, Free
<1> QED
  BY <1>2, <1>3, AskChoice, GetKeyChoice, BuildChoice DEF Serve, ChoiceInv

LEMMA BeginChoice ==
    ASSUME TypeOK, ChoiceInv, NEW r \in Requests, NEW p \in Procs,
           \/ \E a \in Admins, m \in Models : UpdateLlm(r, p, a, m)
           \/ \E m \in Tuned : Deploy(r, p, m)
           \/ \E url \in Urls : UpdateDatabase(r, p, url)
    PROVE  ChoiceInv'
<1>1. UNCHANGED <<keys, config, tracked, server>>
  BY DEF UpdateLlm, Deploy, UpdateDatabase, process
<1>2. KeysFiled' /\ ActiveEverywhere'
  BY <1>1 DEF ChoiceInv, KeysFiled, ActiveEverywhere
<1>3. ASSUME NEW a \in Admins, NEW m \in Models, UpdateLlm(r, p, a, m) PROVE Assembled'
  BY <1>3, AssembledFrame DEF UpdateLlm, Begins, ChoiceInv, Free
<1>4. ASSUME NEW m \in Tuned, Deploy(r, p, m) PROVE Assembled'
  BY <1>4, AssembledFrame DEF Deploy, Begins, ChoiceInv, Free
<1>5. ASSUME NEW url \in Urls, UpdateDatabase(r, p, url) PROVE Assembled'
  BY <1>5, AssembledFrame DEF UpdateDatabase, Begins, ChoiceInv, Free
<1> QED
  BY <1>2, <1>3, <1>4, <1>5 DEF ChoiceInv

\* A step that may switch the model ends its request.
LEMMA CheckChoice ==
    ASSUME TypeOK, Placed, ChoiceInv, NEW r \in Requests, NEW ok \in BOOLEAN,
           CheckKey(r, ok) \/ ListJobs(r, ok)
    PROVE  ChoiceInv'
<1>1. keys' = keys /\ req' = [req EXCEPT ![r] = Free]
  BY DEF CheckKey, ListJobs, Becomes
<1>2. KeysFiled'
  BY <1>1 DEF ChoiceInv, KeysFiled
<1>3. Assembled'
  BY <1>1, AssembledFrame DEF ChoiceInv, Free
<1>4. req[r].proc \in Procs /\ req[r].choice \in Choices
  BY DEF CheckKey, ListJobs, At, Placed, TypeOK, Request
<1>5. SwitchLlm(req[r].proc, req[r].choice) \/ UNCHANGED process
  BY DEF CheckKey, ListJobs
<1>6. ASSUME UNCHANGED process PROVE ActiveEverywhere'
  BY <1>6 DEF process, ChoiceInv, ActiveEverywhere
<1>7. ActiveEverywhere'
  BY <1>4, <1>5, <1>6, SwitchChoice DEF ChoiceInv
<1> QED
  BY <1>2, <1>3, <1>7 DEF ChoiceInv

LEMMA EngineChoice ==
    ASSUME TypeOK, Placed, ChoiceInv, NEW r \in Requests, NEW ok \in BOOLEAN,
           SwitchEngine(r, ok) \/ DisposeEngine(r, ok)
    PROVE  ChoiceInv'
<1>1. UNCHANGED <<keys, tracked, server>>
  BY DEF SwitchEngine, DisposeEngine
<1>2. KeysFiled'
  BY <1>1 DEF ChoiceInv, KeysFiled
<1>3. \A w \in Request : [w EXCEPT !.pc = "dispose"].pc = "dispose"
  BY DEF Request
<1>4. PICK w : req' = [req EXCEPT ![r] = w] /\ w.pc \notin {"key", "connect", "built"}
  <2>1. req[r] \in Request
    BY DEF TypeOK
  <2>2. Free.pc = "none"
    BY DEF Free
  <2> QED
    BY <1>3, <2>1, <2>2 DEF SwitchEngine, DisposeEngine, Becomes
<1>5. Assembled'
  BY <1>4, AssembledFrame DEF ChoiceInv
<1>6. \A q \in Procs, c \in Copies : config'[q][c].choice = config[q][c].choice
  <2>1. \A q \in Procs, c \in Copies : config[q][c] \in Config
    BY DEF TypeOK
  <2>2. \A s \in Config, url \in Urls : [s EXCEPT !.url = url].choice = s.choice
    BY DEF Config
  <2>3. req[r].url \in Urls
    BY DEF TypeOK, Request
  <2>4. CASE config' = config
    BY <2>4
  <2>5. CASE config' = [config EXCEPT ![req[r].proc]["container"].url = req[r].url]
    BY <2>1, <2>2, <2>3, <2>5 DEF TypeOK, Copies
  <2> QED
    BY <2>4, <2>5 DEF SwitchEngine, DisposeEngine
<1>7. ActiveEverywhere'
  BY <1>1, <1>6, ActiveFrame DEF ChoiceInv
<1> QED
  BY <1>2, <1>5, <1>7 DEF ChoiceInv

\* Flags and the rate limiter have nothing to do with the model.
LEMMA SettingsChoice ==
    ASSUME TypeOK, ChoiceInv, NEW p \in Procs,
           \/ \E lo \in Given, hi \in Given : UpdateRag(p, lo, hi)
           \/ \E on \in BOOLEAN : ToggleRateLimit(p, on)
    PROVE  ChoiceInv'
<1>1. UNCHANGED <<keys, tracked, server, req>>
  BY DEF UpdateRag, ToggleRateLimit
<1>2. KeysFiled' /\ Assembled'
  BY <1>1 DEF ChoiceInv, KeysFiled, Assembled, OfOneChoice, At
<1>3. \A q \in Procs, c \in Copies : config[q][c] \in Config
  BY DEF TypeOK
<1>4. ASSUME NEW lo \in Given, NEW hi \in Given, UpdateRag(p, lo, hi)
      PROVE  \A q \in Procs, c \in Copies : config'[q][c].choice = config[q][c].choice
  <2>1. \A s \in Config : Bounded(s, lo, hi).choice = s.choice
    BY DEF Config, Bounded
  <2>2. config' = [config EXCEPT ![p] = [x \in Copies |-> Bounded(config[p][x], lo, hi)]]
    BY <1>4 DEF UpdateRag, TypeOK
  <2> QED
    BY <1>3, <2>1, <2>2 DEF TypeOK
<1>5. ASSUME NEW on \in BOOLEAN, ToggleRateLimit(p, on)
      PROVE  \A q \in Procs, c \in Copies : config'[q][c].choice = config[q][c].choice
  <2>1. \A s \in Config : [s EXCEPT !.limited = on].choice = s.choice
    BY DEF Config
  <2>2. config' = [config EXCEPT ![p] = [config[p] EXCEPT
                                          !["live"] = [config[p]["live"] EXCEPT !.limited = on]]]
    BY <1>5 DEF ToggleRateLimit, TypeOK, Copies
  <2> QED
    BY <1>3, <2>1, <2>2 DEF TypeOK, Copies
<1>6. ActiveEverywhere'
  BY <1>1, <1>4, <1>5, ActiveFrame DEF ChoiceInv
<1> QED
  BY <1>2, <1>6 DEF ChoiceInv

LEMMA RestartChoice ==
    ASSUME TypeOK, ChoiceInv, NEW p \in Procs, Restart(p)
    PROVE  ChoiceInv'
<1>1. keys' = keys /\ req' = [r \in Requests |-> IF req[r].proc = p THEN Free ELSE req[r]]
  BY DEF Restart
<1>2. KeysFiled'
  BY <1>1 DEF ChoiceInv, KeysFiled
<1>3. Assembled'
  BY <1>1 DEF ChoiceInv, Assembled, At, OfOneChoice, Free
<1>4. ActiveEverywhere'
  BY DEF Restart, ChoiceInv, ActiveEverywhere, TypeOK, Copies
<1> QED
  BY <1>2, <1>3, <1>4 DEF ChoiceInv

LEMMA ChoiceStep == TypeOK /\ Placed /\ ChoiceInv /\ [Next]_vars => ChoiceInv'
<1> SUFFICES ASSUME TypeOK, Placed, ChoiceInv, [Next]_vars PROVE ChoiceInv'
  OBVIOUS
<1>1. CASE UNCHANGED vars
  BY <1>1 DEF vars, ChoiceInv, KeysFiled, Assembled, OfOneChoice, ActiveEverywhere, At
<1>2. ASSUME Administer PROVE ChoiceInv'
  BY <1>2, BeginChoice, CheckChoice, EngineChoice, SettingsChoice DEF Administer
<1>3. ASSUME NEW m \in Tuned, JobSucceeds(m) PROVE ChoiceInv'
  BY <1>3 DEF JobSucceeds, process, ChoiceInv, KeysFiled, Assembled, OfOneChoice,
              ActiveEverywhere, At
<1> QED
  BY <1>1, <1>2, <1>3, ProfileChoice, ServeChoice, RestartChoice DEF Next

\* Pipelines are built for the choice that was active when their request came, with
\* a key of their own user and provider or the server's: the invariant OneChoice.
THEOREM OneChoiceHolds == Spec => []OneChoice
<1>1. ChoiceInv => OneChoice
  BY DEF ChoiceInv, Assembled, OfOneChoice, OneChoice, At
<1> QED
  BY <1>1, TypeInit, TypeStep, ChoiceInit, ChoiceStep, PTL DEF Spec

-----------------------------------------------------------------------------
(* Two copies of the settings. *)

\* The bounds of top_k are the same in both copies, and in order unless they are still
\* those of the environment.
Ordered ==
    /\ \A p \in Procs, c \in Copies :
          /\ config[p][c].lo = config[p]["live"].lo /\ config[p][c].hi = config[p]["live"].hi
          /\ Accepted(config[p][c].lo, config[p][c].hi)
    /\ \A r \in Requests : At(r, "built") => Accepted(req[r].lo, req[r].hi)

\* Settings and pipelines that keep their bounds.
LEMMA OrderedFrame ==
    ASSUME Ordered,
           \A p \in Procs, c \in Copies : /\ config'[p][c].lo = config[p][c].lo
                                          /\ config'[p][c].hi = config[p][c].hi,
           \A r \in Requests : At(r, "built")' => req'[r] = req[r]
    PROVE  Ordered'
<1>1. "live" \in Copies
  BY DEF Copies
<1> QED
  BY <1>1 DEF Ordered, At

LEMMA OrderedInit == Init => Ordered
<1> SUFFICES ASSUME Init PROVE Ordered
  OBVIOUS
<1>1. Free.pc = "none"
  BY DEF Free
<1> QED
  BY <1>1, ConfigAssumption DEF Init, Ordered, At, Copies, Accepted

LEMMA OrderedBuild ==
    ASSUME TypeOK, Placed, Ordered, NEW r \in Requests, Build(r)
    PROVE  Ordered'
<1> DEFINE s == config[req[r].proc]["live"]
           w == [req[r] EXCEPT !.pc = "built", !.lo = s.lo, !.hi = s.hi]
<1>1. req' = [req EXCEPT ![r] = w] /\ config' = config
  BY DEF Build, Becomes
<1>2. req[r] \in Request /\ req[r].proc \in Procs
  BY DEF Build, At, Placed, TypeOK
<1>3. w.lo = s.lo /\ w.hi = s.hi
  BY <1>2 DEF Request
<1>4. Accepted(s.lo, s.hi)
  BY <1>2 DEF Ordered, Copies
<1> HIDE DEF s, w
<1> QED
  BY <1>1, <1>3, <1>4 DEF Ordered, At, TypeOK

\* One request changes, and is no pipeline then.
LEMMA OrderedRequest ==
    ASSUME TypeOK, Ordered, NEW r \in Requests, NEW w, req' = [req EXCEPT ![r] = w],
           w.pc # "built", config' = config
    PROVE  Ordered'
<1>1. \A q \in Requests : At(q, "built")' => req'[q] = req[q]
  BY DEF At, TypeOK
<1> QED
  BY <1>1, OrderedFrame

LEMMA OrderedServe ==
    ASSUME TypeOK, Placed, Ordered, Serve
    PROVE  Ordered'
<1>1. ASSUME NEW r \in Requests, NEW p \in Procs, NEW u \in Users \cup {NoUser}, Ask(r, p, u)
      PROVE  Ordered'
  <2> DEFINE pc == IF u = NoUser THEN "connect" ELSE "key"
             w == [Free EXCEPT !.op = "ask", !.pc = pc, !.proc = p, !.user = u,
                               !.choice = Current(p), !.begun = server[p],
                               !.llm = [choice |-> server[p], key |-> Server]]
  <2>1. req' = [req EXCEPT ![r] = w] /\ config' = config
    BY <1>1 DEF Ask, Begins, process
  <2>2. w.pc # "built"
    BY DEF Free
  <2> HIDE DEF w
  <2> QED
    BY <2>1, <2>2, OrderedRequest
<1>2. ASSUME NEW r \in Requests, NEW ok \in BOOLEAN, GetKey(r, ok)
      PROVE  Ordered'
  <2>1. PICK k : req' = [req EXCEPT ![r] = [req[r] EXCEPT !.pc = "connect", !.llm = k]]
    BY <1>2 DEF GetKey, Becomes
  <2> DEFINE w == [req[r] EXCEPT !.pc = "connect", !.llm = k]
  <2>2. w.pc # "built" /\ config' = config
    BY <1>2 DEF GetKey, process, TypeOK, Request
  <2>3. req' = [req EXCEPT ![r] = w]
    BY <2>1
  <2> HIDE DEF w
  <2> QED
    BY <2>2, <2>3, OrderedRequest
<1>3. ASSUME NEW r \in Requests, Leave(r) PROVE Ordered'
  <2>1. req' = [req EXCEPT ![r] = Free] /\ config' = config
    BY <1>3 DEF Leave, Becomes, process
  <2>2. Free.pc # "built"
    BY DEF Free
  <2> QED
    BY <2>1, <2>2, OrderedRequest
<1> QED
  BY <1>1, <1>2, <1>3, OrderedBuild DEF Serve

\* Only the choice of both copies is switched.
LEMMA OrderedSwitch ==
    ASSUME TypeOK, NEW p \in Procs, NEW c, SwitchLlm(p, c)
    PROVE  \A q \in Procs, x \in Copies : /\ config'[q][x].lo = config[q][x].lo
                                          /\ config'[q][x].hi = config[q][x].hi
<1>1. \A q \in Procs, x \in Copies : config[q][x] \in Config
  BY DEF TypeOK
<1>2. \A s \in Config : [s EXCEPT !.choice = c].lo = s.lo /\ [s EXCEPT !.choice = c].hi = s.hi
  BY DEF Config
<1>3. config' = [config EXCEPT ![p] = [x \in Copies |-> [config[p][x] EXCEPT !.choice = c]]]
  BY DEF SwitchLlm, TypeOK
<1> QED
  BY <1>1, <1>2, <1>3 DEF TypeOK

LEMMA OrderedBegin ==
    ASSUME TypeOK, Ordered, NEW r \in Requests, NEW p \in Procs,
           \/ \E a \in Admins, m \in Models : UpdateLlm(r, p, a, m)
           \/ \E m \in Tuned : Deploy(r, p, m)
           \/ \E url \in Urls : UpdateDatabase(r, p, url)
    PROVE  Ordered'
<1>1. config' = config
  BY DEF UpdateLlm, Deploy, UpdateDatabase, process
<1>2. ASSUME NEW a \in Admins, NEW m \in Models, UpdateLlm(r, p, a, m) PROVE Ordered'
  <2> DEFINE w == [Free EXCEPT !.op = "llm", !.pc = "check", !.proc = p, !.user = a,
                               !.choice = [provider |-> OfferedBy[m], model |-> m]]
  <2>1. req' = [req EXCEPT ![r] = w]
    BY <1>2 DEF UpdateLlm, Begins
  <2>2. w.pc # "built"
    BY DEF Free
  <2> HIDE DEF w
  <2> QED
    BY <1>1, <2>1, <2>2, OrderedRequest
<1>3. ASSUME NEW m \in Tuned, Deploy(r, p, m) PROVE Ordered'
  <2> DEFINE w == [Free EXCEPT !.op = "deploy", !.pc = "list", !.proc = p,
                               !.choice = [provider |-> FineTuner, model |-> m]]
  <2>1. req' = [req EXCEPT ![r] = w]
    BY <1>3 DEF Deploy, Begins
  <2>2. w.pc # "built"
    BY DEF Free
  <2> HIDE DEF w
  <2> QED
    BY <1>1, <2>1, <2>2, OrderedRequest
<1>4. ASSUME NEW url \in Urls, UpdateDatabase(r, p, url) PROVE Ordered'
  <2> DEFINE w == [Free EXCEPT !.op = "database", !.pc = "test", !.proc = p, !.url = url]
  <2>1. req' = [req EXCEPT ![r] = w]
    BY <1>4 DEF UpdateDatabase, Begins
  <2>2. w.pc # "built"
    BY DEF Free
  <2> HIDE DEF w
  <2> QED
    BY <1>1, <2>1, <2>2, OrderedRequest
<1> QED
  BY <1>2, <1>3, <1>4

LEMMA OrderedEnd ==
    ASSUME TypeOK, Placed, Ordered, NEW r \in Requests, NEW ok \in BOOLEAN,
           CheckKey(r, ok) \/ ListJobs(r, ok) \/ SwitchEngine(r, ok) \/ DisposeEngine(r, ok)
    PROVE  Ordered'
<1>1. req[r] \in Request
  BY DEF TypeOK
<1>2. Free.pc = "none" /\ [req[r] EXCEPT !.pc = "dispose"].pc = "dispose"
  BY <1>1 DEF Free, Request
<1>3. PICK w : req' = [req EXCEPT ![r] = w] /\ w.pc # "built"
  BY <1>2 DEF CheckKey, ListJobs, SwitchEngine, DisposeEngine, Becomes
<1>4. req[r].proc \in Procs /\ req[r].url \in Urls
  BY <1>1 DEF CheckKey, ListJobs, SwitchEngine, DisposeEngine, At, Placed, Request
<1>5. \A q \in Procs, x \in Copies : /\ config'[q][x].lo = config[q][x].lo
                                     /\ config'[q][x].hi = config[q][x].hi
  <2>1. CASE config' = config
    BY <2>1
  <2>2. CASE SwitchLlm(req[r].proc, req[r].choice)
    BY <1>4, <2>2, OrderedSwitch
  <2>3. CASE config' = [config EXCEPT ![req[r].proc]["container"].url = req[r].url]
    <3>1. \A q \in Procs, x \in Copies : config[q][x] \in Config
      BY DEF TypeOK
    <3>2. \A s \in Config, url \in Urls : /\ [s EXCEPT !.url = url].lo = s.lo
                                          /\ [s EXCEPT !.url = url].hi = s.hi
      BY DEF Config
    <3> QED
      BY <1>4, <2>3, <3>1, <3>2 DEF TypeOK, Copies
  <2> QED
    BY <2>1, <2>2, <2>3 DEF CheckKey, ListJobs, SwitchEngine, DisposeEngine, process
<1> QED
  BY <1>3, <1>5, OrderedFrame DEF At, TypeOK

\* The bounds are merged with those of the live copy, and put in both.
LEMMA OrderedSettings ==
    ASSUME TypeOK, Ordered, NEW p \in Procs,
           \/ \E lo \in Given, hi \in Given : UpdateRag(p, lo, hi)
           \/ \E on \in BOOLEAN : ToggleRateLimit(p, on)
    PROVE  Ordered'
<1>1. \A q \in Procs, x \in Copies : config[q][x] \in Config
  BY DEF TypeOK
<1>2. ASSUME NEW lo \in Given, NEW hi \in Given, UpdateRag(p, lo, hi) PROVE Ordered'
  <2> DEFINE s == config[p]["live"]
  <2>1. \A t \in Config : /\ Bounded(t, lo, hi).lo = Merged(lo, t.lo)
                          /\ Bounded(t, lo, hi).hi = Merged(hi, t.hi)
    BY DEF Bounded, Config
  <2>2. config' = [config EXCEPT ![p] = [x \in Copies |-> Bounded(config[p][x], lo, hi)]]
    BY <1>2 DEF UpdateRag, TypeOK
  <2>3. req' = req /\ Merged(lo, s.lo) <= Merged(hi, s.hi)
    BY <1>2 DEF UpdateRag
  <2>4. \A x \in Copies : /\ config'[p][x].lo = Merged(lo, s.lo)
                          /\ config'[p][x].hi = Merged(hi, s.hi)
    <3>1. \A x \in Copies : config[p][x].lo = s.lo /\ config[p][x].hi = s.hi
      BY DEF Ordered
    <3>2. \A x \in Copies : config'[p][x] = Bounded(config[p][x], lo, hi)
      BY <2>2 DEF TypeOK
    <3> QED
      BY <1>1, <2>1, <3>1, <3>2
  <2>5. \A q \in Procs \ {p} : config'[q] = config[q]
    BY <2>2 DEF TypeOK
  <2>6. "live" \in Copies
    BY DEF Copies
  <2> HIDE DEF s
  <2>7. \A x \in Copies : /\ config'[p][x].lo = config'[p]["live"].lo
                          /\ config'[p][x].hi = config'[p]["live"].hi
                          /\ Accepted(config'[p][x].lo, config'[p][x].hi)
    BY <2>3, <2>4, <2>6 DEF Accepted
  <2> QED
    BY <2>3, <2>5, <2>7 DEF Ordered, At
<1>3. ASSUME NEW on \in BOOLEAN, ToggleRateLimit(p, on) PROVE Ordered'
  <2>1. \A s \in Config : /\ [s EXCEPT !.limited = on].lo = s.lo
                          /\ [s EXCEPT !.limited = on].hi = s.hi
    BY DEF Config
  <2>2. config' = [config EXCEPT ![p] = [config[p] EXCEPT
                                          !["live"] = [config[p]["live"] EXCEPT !.limited = on]]]
    BY <1>3 DEF ToggleRateLimit, TypeOK, Copies
  <2>3. \A q \in Procs, x \in Copies : /\ config'[q][x].lo = config[q][x].lo
                                       /\ config'[q][x].hi = config[q][x].hi
    BY <1>1, <2>1, <2>2 DEF TypeOK, Copies
  <2>4. req' = req
    BY <1>3 DEF ToggleRateLimit
  <2> QED
    BY <2>3, <2>4, OrderedFrame
<1> QED
  BY <1>2, <1>3

LEMMA OrderedRestart ==
    ASSUME TypeOK, Ordered, NEW p \in Procs, Restart(p)
    PROVE  Ordered'
<1>1. \A r \in Requests : At(r, "built")' => req'[r] = req[r]
  BY DEF Restart, At, Free
<1>2. config' = [config EXCEPT ![p] = [x \in Copies |-> Boot]]
  BY DEF Restart
<1>3. \A x \in Copies : config'[p][x] = Boot
  BY <1>2 DEF TypeOK
<1>4. \A q \in Procs \ {p} : config'[q] = config[q]
  BY <1>2 DEF TypeOK
<1>5. Accepted(Boot.lo, Boot.hi) /\ "live" \in Copies
  BY DEF Copies, Accepted
<1> QED
  BY <1>1, <1>3, <1>4, <1>5 DEF Ordered, At

LEMMA OrderedStep == TypeOK /\ Placed /\ Ordered /\ [Next]_vars => Ordered'
<1> SUFFICES ASSUME TypeOK, Placed, Ordered, [Next]_vars PROVE Ordered'
  OBVIOUS
<1>1. ASSUME UNCHANGED <<config, req>> PROVE Ordered'
  BY <1>1 DEF Ordered, At
<1>2. ASSUME UNCHANGED vars PROVE Ordered'
  BY <1>1, <1>2 DEF vars
<1>3. ASSUME Profile PROVE Ordered'
  BY <1>1, <1>3 DEF Profile, SaveKey, DeleteKey, process
<1>4. ASSUME NEW m \in Tuned, JobSucceeds(m) PROVE Ordered'
  BY <1>1, <1>4 DEF JobSucceeds, process
<1>5. ASSUME Administer PROVE Ordered'
  BY <1>5, OrderedBegin, OrderedEnd, OrderedSettings DEF Administer
<1> QED
  BY <1>2, <1>3, <1>4, <1>5, OrderedServe, OrderedRestart DEF Next

\* What a process says of its model is what answers, in both copies of its settings,
\* and no update of the bounds of top_k leaves them inverted, whatever bounds the
\* environment started them with: the invariant CopiesAgree.
THEOREM CopiesAgreeHolds == Spec => []CopiesAgree
<1>1. ChoiceInv /\ Ordered => CopiesAgree
  BY CurrentIsServer DEF ChoiceInv, ActiveEverywhere, Ordered, CopiesAgree
<1> QED
  BY <1>1, TypeInit, TypeStep, ChoiceInit, ChoiceStep, OrderedInit, OrderedStep, PTL DEF Spec

-----------------------------------------------------------------------------
(* The database of a process. *)

\* While no switch was disturbed, one at most is closing the old pool, it is the one
\* that replaced the engine, and the settings follow as it ends.
SwitchedOnce ==
    \A p \in Procs : p \notin torn =>
        /\ \A r \in Disposing(p), q \in Disposing(p) : r = q
        /\ \A r \in Disposing(p) : req[r].url = engine[p]
        /\ Disposing(p) = {} => config[p]["container"].url = engine[p]

LEMMA SwitchedInit == Init => SwitchedOnce
BY DEF Init, SwitchedOnce, Disposing, At, Free, Copies

SameUrls == \A p \in Procs : config'[p]["container"].url = config[p]["container"].url

LEMMA SwitchedFrame ==
    ASSUME SwitchedOnce, UNCHANGED <<engine, torn>>, SameUrls,
           \A r \in Requests : req'[r] # req[r] => ~At(r, "dispose") /\ ~At(r, "dispose")'
    PROVE  SwitchedOnce'
<1>1. \A p \in Procs : Disposing(p)' = Disposing(p)
  BY DEF Disposing, At
<1>2. \A p \in Procs : \A r \in Disposing(p) : req'[r] = req[r]
  BY DEF Disposing
<1> QED
  BY <1>1, <1>2 DEF SwitchedOnce, SameUrls

\* One request changes that closes no pool, before or after.
LEMMA SwitchedRequest ==
    ASSUME TypeOK, SwitchedOnce, UNCHANGED <<engine, torn>>, SameUrls,
           NEW r \in Requests, NEW w, req' = [req EXCEPT ![r] = w],
           ~At(r, "dispose"), w.pc # "dispose"
    PROVE  SwitchedOnce'
<1>1. ~At(r, "dispose")'
  BY DEF At, TypeOK
<1>2. \A q \in Requests \ {r} : req'[q] = req[q]
  BY DEF TypeOK
<1> QED
  BY <1>1, <1>2, SwitchedFrame

LEMMA SwitchedServe == ASSUME TypeOK, SwitchedOnce, Serve PROVE SwitchedOnce'
<1>1. SameUrls /\ UNCHANGED <<engine, torn>>
  BY DEF Serve, Ask, GetKey, Build, Leave, process, SameUrls
<1>2. \A r \in Requests : req[r] \in Request
  BY DEF TypeOK
<1>3. Free.pc = "none"
  BY DEF Free
<1>4. ASSUME NEW r \in Requests, NEW p \in Procs, NEW u \in Users \cup {NoUser}, Ask(r, p, u)
      PROVE  SwitchedOnce'
  <2> DEFINE pc == IF u = NoUser THEN "connect" ELSE "key"
             w == [Free EXCEPT !.op = "ask", !.pc = pc, !.proc = p, !.user = u,
                               !.choice = Current(p), !.begun = server[p],
                               !.llm = [choice |-> server[p], key |-> Server]]
  <2>1. req' = [req EXCEPT ![r] = w] /\ ~At(r, "dispose")
    BY <1>3, <1>4 DEF Ask, Begins, At
  <2>2. w.pc # "dispose"
    BY DEF Free
  <2> HIDE DEF w
  <2> QED
    BY <1>1, <2>1, <2>2, SwitchedRequest
<1>5. ASSUME NEW r \in Requests, NEW ok \in BOOLEAN, GetKey(r, ok)
      PROVE  SwitchedOnce'
  <2>1. PICK k : req' = [req EXCEPT ![r] = [req[r] EXCEPT !.pc = "connect", !.llm = k]]
    BY <1>5 DEF GetKey, Becomes
  <2> DEFINE w == [req[r] EXCEPT !.pc = "connect", !.llm = k]
  <2>2. w.pc # "dispose" /\ ~At(r, "dispose")
    BY <1>2, <1>5 DEF GetKey, At, Request
  <2>3. req' = [req EXCEPT ![r] = w]
    BY <2>1
  <2> HIDE DEF w
  <2> QED
    BY <1>1, <2>2, <2>3, SwitchedRequest
<1>6. ASSUME NEW r \in Requests, Build(r) PROVE SwitchedOnce'
  <2> DEFINE s == config[req[r].proc]["live"]
             w == [req[r] EXCEPT !.pc = "built", !.lo = s.lo, !.hi = s.hi]
  <2>1. req' = [req EXCEPT ![r] = w] /\ ~At(r, "dispose")
    BY <1>6 DEF Build, Becomes, At
  <2>2. w.pc # "dispose"
    BY <1>2 DEF Request
  <2> HIDE DEF w
  <2> QED
    BY <1>1, <2>1, <2>2, SwitchedRequest
<1>7. ASSUME NEW r \in Requests, Leave(r) PROVE SwitchedOnce'
  <2>1. req' = [req EXCEPT ![r] = Free] /\ ~At(r, "dispose")
    BY <1>7 DEF Leave, Becomes, At
  <2> QED
    BY <1>1, <1>3, <2>1, SwitchedRequest
<1> QED
  BY <1>4, <1>5, <1>6, <1>7 DEF Serve

LEMMA SwitchedBegin ==
    ASSUME TypeOK, SwitchedOnce, NEW r \in Requests, NEW p \in Procs,
           \/ \E a \in Admins, m \in Models : UpdateLlm(r, p, a, m)
           \/ \E m \in Tuned : Deploy(r, p, m)
           \/ \E url \in Urls : UpdateDatabase(r, p, url)
    PROVE  SwitchedOnce'
<1>1. SameUrls /\ UNCHANGED <<engine, torn>>
  BY DEF UpdateLlm, Deploy, UpdateDatabase, process, SameUrls
<1>2. ~At(r, "dispose")
  <2>1. req[r] = Free
    BY DEF UpdateLlm, Deploy, UpdateDatabase, Begins
  <2> QED
    BY <2>1 DEF At, Free
<1>3. ASSUME NEW a \in Admins, NEW m \in Models, UpdateLlm(r, p, a, m) PROVE SwitchedOnce'
  <2> DEFINE w == [Free EXCEPT !.op = "llm", !.pc = "check", !.proc = p, !.user = a,
                               !.choice = [provider |-> OfferedBy[m], model |-> m]]
  <2>1. req' = [req EXCEPT ![r] = w]
    BY <1>3 DEF UpdateLlm, Begins
  <2>2. w.pc # "dispose"
    BY DEF Free
  <2> HIDE DEF w
  <2> QED
    BY <1>1, <1>2, <2>1, <2>2, SwitchedRequest
<1>4. ASSUME NEW m \in Tuned, Deploy(r, p, m) PROVE SwitchedOnce'
  <2> DEFINE w == [Free EXCEPT !.op = "deploy", !.pc = "list", !.proc = p,
                               !.choice = [provider |-> FineTuner, model |-> m]]
  <2>1. req' = [req EXCEPT ![r] = w]
    BY <1>4 DEF Deploy, Begins
  <2>2. w.pc # "dispose"
    BY DEF Free
  <2> HIDE DEF w
  <2> QED
    BY <1>1, <1>2, <2>1, <2>2, SwitchedRequest
<1>5. ASSUME NEW url \in Urls, UpdateDatabase(r, p, url) PROVE SwitchedOnce'
  <2> DEFINE w == [Free EXCEPT !.op = "database", !.pc = "test", !.proc = p, !.url = url]
  <2>1. req' = [req EXCEPT ![r] = w]
    BY <1>5 DEF UpdateDatabase, Begins
  <2>2. w.pc # "dispose"
    BY DEF Free
  <2> HIDE DEF w
  <2> QED
    BY <1>1, <1>2, <2>1, <2>2, SwitchedRequest
<1> QED
  BY <1>3, <1>4, <1>5

\* A step that may switch the model leaves the database.
LEMMA SwitchedCheck ==
    ASSUME TypeOK, Placed, SwitchedOnce, NEW r \in Requests, NEW ok \in BOOLEAN,
           CheckKey(r, ok) \/ ListJobs(r, ok)
    PROVE  SwitchedOnce'
<1>1. req' = [req EXCEPT ![r] = Free] /\ ~At(r, "dispose")
  BY DEF CheckKey, ListJobs, Becomes, At
<1>2. UNCHANGED <<engine, torn>>
  BY DEF CheckKey, ListJobs, SwitchLlm, process
<1>3. SameUrls
  <2> DEFINE p == req[r].proc
             c == req[r].choice
  <2>1. CASE config' = config
    BY <2>1 DEF SameUrls
  <2>2. CASE SwitchLlm(p, c)
    <3>1. \A q \in Procs, x \in Copies : config[q][x] \in Config
      BY DEF TypeOK
    <3>2. \A s \in Config : [s EXCEPT !.choice = c].url = s.url
      BY DEF Config
    <3> HIDE DEF p, c
    <3>3. config' = [config EXCEPT ![p] = [x \in Copies |-> [config[p][x] EXCEPT !.choice = c]]]
      BY <2>2 DEF SwitchLlm, TypeOK
    <3> QED
      BY <3>1, <3>2, <3>3 DEF SameUrls, TypeOK, Copies
  <2> QED
    BY <2>1, <2>2 DEF CheckKey, ListJobs, process
<1>4. Free.pc = "none"
  BY DEF Free
<1> QED
  BY <1>1, <1>2, <1>3, <1>4, SwitchedRequest

\* The engine is replaced, and the request that replaced it closes the old pool.
LEMMA SwitchedEngine ==
    ASSUME TypeOK, Placed, SwitchedOnce, NEW r \in Requests, NEW ok \in BOOLEAN,
           SwitchEngine(r, ok)
    PROVE  SwitchedOnce'
<1> DEFINE w == [req[r] EXCEPT !.pc = "dispose"]
<1>0. PICK p \in Procs : p = req[r].proc
  BY DEF SwitchEngine, At, Placed
<1>1. /\ req[r] \in Request /\ req[r].op = "database" /\ At(r, "test")
      /\ config' = config
  BY DEF SwitchEngine, TypeOK
<1>2. CASE ~ok
  <2>1. req' = [req EXCEPT ![r] = Free] /\ UNCHANGED <<engine, torn>> /\ SameUrls
    BY <1>1, <1>2 DEF SwitchEngine, Becomes, SameUrls
  <2>2. Free.pc = "none" /\ ~At(r, "dispose")
    BY <1>1 DEF Free, At
  <2> QED
    BY <2>1, <2>2, SwitchedRequest
<1>3. CASE ok
  <2>1. /\ req' = [req EXCEPT ![r] = w] /\ engine' = [engine EXCEPT ![p] = req[r].url]
        /\ torn' = IF Disposing(p) # {} THEN torn \cup {p} ELSE torn
    BY <1>0, <1>3 DEF SwitchEngine, Becomes
  <2>2. w.op = "database" /\ w.pc = "dispose" /\ w.proc = p /\ w.url = req[r].url
    BY <1>0, <1>1 DEF Request
  <2>3. r \notin Disposing(p)
    BY <1>1 DEF Disposing, At
  <2>4. \A q \in Requests \ {r} : req'[q] = req[q]
    BY <2>1 DEF TypeOK
  <2>5. req'[r] = w
    BY <2>1 DEF TypeOK
  <2> HIDE DEF w
  <2>6. \A q \in Procs \ {p} : Disposing(q)' = Disposing(q)
    BY <1>0, <1>1, <2>2, <2>4, <2>5 DEF Disposing, At
  <2>7. Disposing(p)' = Disposing(p) \cup {r}
    BY <2>2, <2>4, <2>5 DEF Disposing, At
  <2>8. engine'[p] = req[r].url /\ \A q \in Procs \ {p} : engine'[q] = engine[q]
    BY <1>1, <2>1 DEF TypeOK
  <2>9. ASSUME NEW q \in Procs \ {p}, q \notin torn'
        PROVE  /\ \A a \in Disposing(q)', b \in Disposing(q)' : a = b
               /\ \A a \in Disposing(q)' : req'[a].url = engine'[q]
               /\ Disposing(q)' = {} => config'[q]["container"].url = engine'[q]
    <3>1. \A a \in Disposing(q) : req'[a] = req[a]
      BY <1>1, <2>4 DEF Disposing, At
    <3>2. q \notin torn
      BY <2>1, <2>9
    <3> QED
      BY <1>1, <2>6, <2>8, <3>1, <3>2 DEF SwitchedOnce
  <2>10. ASSUME p \notin torn'
         PROVE  Disposing(p)' = {r} /\ req'[r].url = engine'[p]
    <3>1. Disposing(p) = {}
      BY <2>1, <2>10
    <3> QED
      BY <2>2, <2>5, <2>7, <2>8, <3>1
  <2> QED
    BY <2>9, <2>10 DEF SwitchedOnce
<1> QED
  BY <1>2, <1>3

LEMMA SwitchedDispose ==
    ASSUME TypeOK, Placed, SwitchedOnce, NEW r \in Requests, NEW ok \in BOOLEAN,
           DisposeEngine(r, ok)
    PROVE  SwitchedOnce'
<1>0. PICK p \in Procs : p = req[r].proc
  BY DEF DisposeEngine, At, Placed
<1>1. req[r] \in Request /\ req[r].url \in Urls /\ r \in Disposing(p)
  BY <1>0 DEF DisposeEngine, At, Placed, TypeOK, Request, Disposing
<1>2. /\ req' = [req EXCEPT ![r] = Free] /\ engine' = engine
      /\ torn' = IF ok THEN torn ELSE torn \cup {p}
      /\ config' = IF ok THEN [config EXCEPT ![p]["container"].url = req[r].url] ELSE config
  BY <1>0 DEF DisposeEngine, Becomes
<1>3. \A q \in Requests \ {r} : req'[q] = req[q]
  BY <1>2 DEF TypeOK
<1>4. req'[r].pc = "none"
  BY <1>2 DEF TypeOK, Free
<1>5. \A q \in Procs : Disposing(q)' = Disposing(q) \ {r}
  BY <1>3, <1>4 DEF Disposing, At
<1>6. \A q \in Procs \ {p} : config'[q] = config[q]
  BY <1>1, <1>2 DEF TypeOK
<1>7. ok => config'[p]["container"].url = req[r].url
  <2>1. config[p]["container"] \in Config
    BY <1>1 DEF TypeOK, Copies
  <2>2. [config[p]["container"] EXCEPT !.url = req[r].url].url = req[r].url
    BY <2>1 DEF Config
  <2> QED
    BY <1>1, <1>2, <2>2 DEF TypeOK, Copies
<1>8. \A q \in Procs \ {p} : r \notin Disposing(q)
  BY <1>0 DEF Disposing
<1>9. ASSUME NEW q \in Procs \ {p}, q \notin torn'
      PROVE  /\ \A a \in Disposing(q)', b \in Disposing(q)' : a = b
             /\ \A a \in Disposing(q)' : req'[a].url = engine'[q]
             /\ Disposing(q)' = {} => config'[q]["container"].url = engine'[q]
  <2>1. q \notin torn /\ Disposing(q)' = Disposing(q)
    BY <1>2, <1>5, <1>8, <1>9
  <2>2. \A a \in Disposing(q) : req'[a] = req[a]
    BY <1>3, <1>8 DEF Disposing
  <2> QED
    BY <1>2, <1>6, <2>1, <2>2 DEF SwitchedOnce
<1>10. ASSUME p \notin torn'
       PROVE  Disposing(p)' = {} /\ config'[p]["container"].url = engine'[p]
  <2>1. ok /\ p \notin torn
    BY <1>2, <1>10
  <2>2. Disposing(p) = {r} /\ req[r].url = engine[p]
    BY <1>1, <2>1 DEF SwitchedOnce
  <2> QED
    BY <1>1, <1>2, <1>5, <1>7, <2>1, <2>2
<1> QED
  BY <1>9, <1>10 DEF SwitchedOnce

LEMMA SwitchedSettings ==
    ASSUME TypeOK, SwitchedOnce, NEW p \in Procs,
           \/ \E lo \in Given, hi \in Given : UpdateRag(p, lo, hi)
           \/ \E on \in BOOLEAN : ToggleRateLimit(p, on)
    PROVE  SwitchedOnce'
<1>1. UNCHANGED <<engine, torn, req>>
  BY DEF UpdateRag, ToggleRateLimit
<1>2. \A q \in Procs, x \in Copies : config[q][x] \in Config
  BY DEF TypeOK
<1>3. ASSUME NEW lo \in Given, NEW hi \in Given, UpdateRag(p, lo, hi) PROVE SameUrls
  <2>1. \A s \in Config : Bounded(s, lo, hi).url = s.url
    BY DEF Config, Bounded
  <2>2. config' = [config EXCEPT ![p] = [x \in Copies |-> Bounded(config[p][x], lo, hi)]]
    BY <1>3 DEF UpdateRag, TypeOK
  <2> QED
    BY <1>2, <2>1, <2>2 DEF SameUrls, TypeOK, Copies
<1>4. ASSUME NEW on \in BOOLEAN, ToggleRateLimit(p, on) PROVE SameUrls
  <2>1. config' = [config EXCEPT ![p] = [config[p] EXCEPT
                                          !["live"] = [config[p]["live"] EXCEPT !.limited = on]]]
    BY <1>4 DEF ToggleRateLimit, TypeOK, Copies
  <2> QED
    BY <2>1 DEF SameUrls, TypeOK, Copies
<1> QED
  BY <1>1, <1>3, <1>4, SwitchedFrame

LEMMA SwitchedRestart ==
    ASSUME TypeOK, SwitchedOnce, NEW p \in Procs, Restart(p)
    PROVE  SwitchedOnce'
<1>1. /\ req' = [r \in Requests |-> IF req[r].proc = p THEN Free ELSE req[r]]
      /\ torn' = torn \ {p} /\ engine' = [engine EXCEPT ![p] = Boot.url]
      /\ config' = [config EXCEPT ![p] = [x \in Copies |-> Boot]]
  BY DEF Restart
<1>2. Free.pc = "none"
  BY DEF Free
<1>3. Disposing(p)' = {}
  BY <1>1, <1>2 DEF Disposing, At
<1>4. \A q \in Procs \ {p} : Disposing(q)' = Disposing(q) /\ \A r \in Disposing(q) : req'[r] = req[r]
  BY <1>1, <1>2 DEF Disposing, At
<1>5. \A q \in Procs \ {p} : config'[q] = config[q] /\ engine'[q] = engine[q]
  BY <1>1 DEF TypeOK
<1>6. config'[p]["container"].url = Boot.url /\ engine'[p] = Boot.url
  BY <1>1 DEF TypeOK, Copies
<1>7. ASSUME NEW q \in Procs \ {p}, q \notin torn'
      PROVE  /\ \A a \in Disposing(q)', b \in Disposing(q)' : a = b
             /\ \A a \in Disposing(q)' : req'[a].url = engine'[q]
             /\ Disposing(q)' = {} => config'[q]["container"].url = engine'[q]
  <2>1. q \notin torn
    BY <1>1, <1>7
  <2>2. /\ \A a \in Disposing(q), b \in Disposing(q) : a = b
        /\ \A a \in Disposing(q) : req[a].url = engine[q]
        /\ Disposing(q) = {} => config[q]["container"].url = engine[q]
    BY <2>1 DEF SwitchedOnce
  <2>3. /\ Disposing(q)' = Disposing(q) /\ \A a \in Disposing(q) : req'[a] = req[a]
        /\ config'[q] = config[q] /\ engine'[q] = engine[q]
    BY <1>4, <1>5
  <2> QED
    BY <2>2, <2>3
<1>8. /\ \A a \in Disposing(p)', b \in Disposing(p)' : a = b
      /\ \A a \in Disposing(p)' : req'[a].url = engine'[p]
      /\ Disposing(p)' = {} => config'[p]["container"].url = engine'[p]
  BY <1>3, <1>6
<1> QED
  BY <1>7, <1>8, SMTT(20) DEF SwitchedOnce

LEMMA SwitchedStep == TypeOK /\ Placed /\ SwitchedOnce /\ [Next]_vars => SwitchedOnce'
<1> SUFFICES ASSUME TypeOK, Placed, SwitchedOnce, [Next]_vars PROVE SwitchedOnce'
  OBVIOUS
<1>1. ASSUME UNCHANGED <<config, req, engine, torn>> PROVE SwitchedOnce'
  BY <1>1, SwitchedFrame DEF SameUrls
<1>2. ASSUME UNCHANGED vars PROVE SwitchedOnce'
  BY <1>1, <1>2 DEF vars
<1>3. ASSUME Profile PROVE SwitchedOnce'
  BY <1>1, <1>3 DEF Profile, SaveKey, DeleteKey, process
<1>4. ASSUME NEW m \in Tuned, JobSucceeds(m) PROVE SwitchedOnce'
  BY <1>1, <1>4 DEF JobSucceeds, process
<1>5. ASSUME Administer PROVE SwitchedOnce'
  BY <1>5, SwitchedBegin, SwitchedCheck, SwitchedEngine, SwitchedDispose, SwitchedSettings
     DEF Administer
<1> QED
  BY <1>2, <1>3, <1>4, <1>5, SwitchedServe, SwitchedRestart DEF Next

\* Unless a switch of the database is under way, or one was disturbed, the settings of
\* the container name the database its client is connected to: the invariant UrlFollows.
THEOREM UrlFollowsHolds == Spec => []UrlFollows
<1>1. SwitchedOnce => UrlFollows
  BY DEF SwitchedOnce, UrlFollows
<1> QED
  BY <1>1, TypeInit, TypeStep, SwitchedInit, SwitchedStep, PTL DEF Spec
=============================================================================
