--------------------------- MODULE RuntimeConfig ---------------------------
(***************************************************************************)
(* What an administrator may change while a process serves: the model that *)
(* answers (config/container.py, api/routes/config.py, the deployment of   *)
(* services/fine_tuning_service.py), the platform database, the retrieval  *)
(* flags and the rate limiter; and the keys users keep for themselves      *)
(* (services/api_key_service.py).  A request is given a pipeline meanwhile *)
(* by get_request_orchestrator (api/dependencies.py) or, in the scheduler, *)
(* by build_orchestrator_for_connection.                                   *)
(*                                                                         *)
(* Each process has two Settings objects, the container's and the one of   *)
(* get_settings, and its own choice of a model; nothing of it is stored.   *)
(* A key is abstracted to whom and what it was saved for.  Every await of  *)
(* the code ends a step.                                                   *)
(***************************************************************************)
EXTENDS Naturals, FiniteSets

CONSTANTS
    Procs, Requests,
    Users, Admins,
    Vendors,        \* SUPPORTED_PROVIDERS, whose keys are kept
    Providers,      \* AVAILABLE_LLM_PROVIDERS, those that can answer
    Models,         \* listed in AVAILABLE_MODELS
    OfferedBy,      \* the provider of each of them
    Tuned,          \* models fine-tuned at FineTuner
    FineTuner,      \* fine_tuning_provider
    ServerKeys,     \* providers with a key in the environment
    Boot,           \* Settings as the environment has them, which nothing validates
    Depths,         \* values of adaptive_top_k_min and adaptive_top_k_max
    Urls,
    MaxEdits,       \* bound: changes by users and administrators
    NoUser, NoProc, NoKey, NoChoice, Server

Choices == [provider : Providers, model : Models \cup Tuned]
Config  == [choice : Choices, lo : Depths, hi : Depths, url : Urls, limited : BOOLEAN]
Copies  == {"container", "live"}

\* A personal key, and a provider object: the choice it was made for and its key.
Key == [user : Users, vendor : Vendors, n : Nat]
Llm == [choice : Choices, key : Key \cup {Server}]

ASSUME ConfigAssumption ==
    /\ Admins \subseteq Users /\ NoUser \notin Users /\ NoProc \notin Procs
    /\ Providers \subseteq Vendors /\ FineTuner \in Vendors
    /\ OfferedBy \in [Models -> Providers]
    /\ Depths \subseteq Nat \ {0}
    /\ Boot \in Config
    /\ NoKey \notin Key /\ Server \notin Key /\ NoChoice \notin Choices
    /\ MaxEdits \in Nat

VARIABLES
    keys,       \* UserAPIKey rows
    config,     \* the two Settings of each process
    tracked,    \* _current_llm_provider and _current_llm_model
    server,     \* what container.llm_provider() gives
    selector,   \* choice the table selector and the rewriter were built with
    engine,     \* database behind container.db_client()
    limiter,    \* limiter.enabled
    tuned,      \* succeeded fine-tuning jobs
    req,        \* requests under way, and what they were given
    torn,       \* history: processes where a switch of the database was disturbed
    edits

vars == <<keys, config, tracked, server, selector, engine, limiter, tuned, req, torn, edits>>
process == <<config, tracked, server, selector, engine, limiter>>

-----------------------------------------------------------------------------
Free == [op |-> "none", pc |-> "none", proc |-> NoProc, user |-> NoUser, choice |-> Boot.choice,
         begun |-> Boot.choice, llm |-> [choice |-> Boot.choice, key |-> Server],
         url |-> Boot.url, lo |-> Boot.lo, hi |-> Boot.hi]

Begins(r, w) == req[r] = Free /\ req' = [req EXCEPT ![r] = w]
Becomes(r, w) == req' = [req EXCEPT ![r] = w]
At(r, pc) == req[r].pc = pc
Edits == edits < MaxEdits /\ edits' = edits + 1

Init ==
    /\ keys = [u \in Users |-> [v \in Vendors |-> NoKey]]
    /\ config = [p \in Procs |-> [c \in Copies |-> Boot]]
    /\ tracked = [p \in Procs |-> NoChoice]
    /\ server = [p \in Procs |-> Boot.choice]
    /\ selector = [p \in Procs |-> NoChoice]
    /\ engine = [p \in Procs |-> Boot.url]
    /\ limiter = [p \in Procs |-> Boot.limited]
    /\ tuned = {} /\ torn = {} /\ edits = 0
    /\ req = [r \in Requests |-> Free]

\* get_current_llm_config
Current(p) == IF tracked[p] # NoChoice THEN tracked[p] ELSE config[p]["container"].choice

-----------------------------------------------------------------------------
(* Keys of users: each statement replaces or deletes one row. *)

SaveKey(u, v) ==
    /\ Edits
    /\ keys' = [keys EXCEPT ![u][v] = [user |-> u, vendor |-> v, n |-> edits]]
    /\ UNCHANGED <<process, tuned, req, torn>>

DeleteKey(u, v) ==
    /\ keys[u][v] # NoKey
    /\ keys' = [keys EXCEPT ![u][v] = NoKey]
    /\ UNCHANGED <<process, tuned, req, torn, edits>>

-----------------------------------------------------------------------------
(* A request, or a schedule (user NoUser), is given a pipeline. *)

\* The server's provider and the active choice are read before any await.
Ask(r, p, u) ==
    /\ Begins(r, [Free EXCEPT !.op = "ask", !.pc = IF u = NoUser THEN "connect" ELSE "key",
                              !.proc = p, !.user = u, !.choice = Current(p),
                              !.begun = server[p],
                              !.llm = [choice |-> server[p], key |-> Server]])
    /\ UNCHANGED <<keys, process, tuned, torn, edits>>

\* Mutant of GetKey: the active choice is read after the key, too.
GetKeyRereads(r, ok) ==
    LET w == req[r]
        k == keys[w.user][w.choice.provider]
    IN  /\ w.op = "ask" /\ At(r, "key")
        /\ Becomes(r, [w EXCEPT !.pc = "connect",
                                !.llm = IF ok /\ k # NoKey
                                        THEN [choice |-> Current(w.proc), key |-> k] ELSE @])
        /\ UNCHANGED <<keys, process, tuned, torn, edits>>

\* get_key for the choice that was active; a failure is no key.
GetKey(r, ok) ==
    LET w == req[r]
        k == keys[w.user][w.choice.provider]
    IN  /\ w.op = "ask" /\ At(r, "key")
        /\ Becomes(r, [w EXCEPT !.pc = "connect",
                                !.llm = IF ok /\ k # NoKey
                                        THEN [choice |-> w.choice, key |-> k] ELSE @])
        /\ UNCHANGED <<keys, process, tuned, torn, edits>>

\* build_orchestrator, once the connection is resolved: live flags, and the
\* singletons as the first request of the process made them.
Build(r) ==
    LET p == req[r].proc
        s == config[p]["live"]
    IN  /\ At(r, "connect")
        /\ Becomes(r, [req[r] EXCEPT !.pc = "built", !.lo = s.lo, !.hi = s.hi])
        /\ selector' = [selector EXCEPT ![p] = IF @ = NoChoice THEN server[p] ELSE @]
        /\ UNCHANGED <<keys, config, tracked, server, engine, limiter, tuned, torn, edits>>

\* The pipeline ends, or was never built.
Leave(r) ==
    /\ req[r].pc \in {"connect", "built"}
    /\ Becomes(r, Free)
    /\ UNCHANGED <<keys, process, tuned, torn, edits>>

-----------------------------------------------------------------------------
(* The model that answers. *)

\* switch_llm_provider
SwitchLlm(p, c) ==
    /\ server' = [server EXCEPT ![p] = c]
    /\ tracked' = [tracked EXCEPT ![p] = c]
    /\ config' = [config EXCEPT ![p] = [x \in Copies |-> [@[x] EXCEPT !.choice = c]]]
    /\ UNCHANGED <<selector, engine, limiter>>

UpdateLlm(r, p, a, m) ==
    /\ Edits
    /\ Begins(r, [Free EXCEPT !.op = "llm", !.pc = "check", !.proc = p, !.user = a,
                              !.choice = [provider |-> OfferedBy[m], model |-> m]])
    /\ UNCHANGED <<keys, process, tuned, torn>>

\* Without a key of the server's, one of the administrator's own will do.
CheckKey(r, ok) ==
    LET w == req[r]
        v == w.choice.provider
    IN  /\ w.op = "llm" /\ At(r, "check")
        /\ IF v \in ServerKeys \/ (ok /\ keys[w.user][v] # NoKey)
           THEN SwitchLlm(w.proc, w.choice) ELSE UNCHANGED process
        /\ Becomes(r, Free)
        /\ UNCHANGED <<keys, tuned, torn, edits>>

\* A fine-tuning job succeeds at the provider.
JobSucceeds(m) ==
    /\ tuned' = tuned \cup {m}
    /\ UNCHANGED <<keys, process, req, torn, edits>>

\* deploy_fine_tuned_model; create_llm_provider refuses a fine-tuner that is not
\* one of the providers.
Deploy(r, p, m) ==
    /\ Edits /\ FineTuner \in Providers
    /\ Begins(r, [Free EXCEPT !.op = "deploy", !.pc = "list", !.proc = p,
                              !.choice = [provider |-> FineTuner, model |-> m]])
    /\ UNCHANGED <<keys, process, tuned, torn>>

ListJobs(r, ok) ==
    LET w == req[r]
    IN  /\ w.op = "deploy" /\ At(r, "list")
        /\ IF ok /\ w.choice.model \in tuned
           THEN SwitchLlm(w.proc, w.choice) ELSE UNCHANGED process
        /\ Becomes(r, Free)
        /\ UNCHANGED <<keys, tuned, torn, edits>>

-----------------------------------------------------------------------------
(* The platform database, the retrieval flags, the rate limiter. *)

UpdateDatabase(r, p, url) ==
    /\ Edits
    /\ Begins(r, [Free EXCEPT !.op = "database", !.pc = "test", !.proc = p, !.url = url])
    /\ UNCHANGED <<keys, process, tuned, torn>>

Disposing(p) == {r \in Requests : req[r].op = "database" /\ At(r, "dispose") /\ req[r].proc = p}

\* Mutant of SwitchEngine: the session factory stays bound to the old engine.
SwitchEngineUnbound(r, ok) ==
    LET w == req[r]
    IN  /\ w.op = "database" /\ At(r, "test")
        /\ Becomes(r, IF ok THEN [w EXCEPT !.pc = "dispose"] ELSE Free)
        /\ torn' = IF ok /\ Disposing(w.proc) # {} THEN torn \cup {w.proc} ELSE torn
        /\ UNCHANGED <<keys, process, tuned, edits>>

\* The temporary client works; the engine is replaced and the old pool is closed.
SwitchEngine(r, ok) ==
    LET w == req[r]
    IN  /\ w.op = "database" /\ At(r, "test")
        /\ Becomes(r, IF ok THEN [w EXCEPT !.pc = "dispose"] ELSE Free)
        /\ engine' = IF ok THEN [engine EXCEPT ![w.proc] = w.url] ELSE engine
        /\ torn' = IF ok /\ Disposing(w.proc) # {} THEN torn \cup {w.proc} ELSE torn
        /\ UNCHANGED <<keys, config, tracked, server, selector, limiter, tuned, edits>>

\* Only the container's settings follow.
DisposeEngine(r, ok) ==
    LET w == req[r]
    IN  /\ w.op = "database" /\ At(r, "dispose")
        /\ config' = IF ok THEN [config EXCEPT ![w.proc]["container"].url = w.url] ELSE config
        /\ torn' = IF ok THEN torn ELSE torn \cup {w.proc}
        /\ Becomes(r, Free)
        /\ UNCHANGED <<keys, tracked, server, selector, engine, limiter, tuned, edits>>

\* Fields of a body that may be left out.
Given == Depths \cup {0}
Merged(new, old) == IF new = 0 THEN old ELSE new
Bounded(s, lo, hi) == [s EXCEPT !.lo = Merged(lo, s.lo), !.hi = Merged(hi, s.hi)]

\* Mutant of UpdateRag: the bounds are compared only when both are given.
UpdateRagPartly(p, lo, hi) ==
    /\ Edits
    /\ lo # 0 /\ hi # 0 => lo <= hi
    /\ config' = [config EXCEPT ![p] = [x \in Copies |-> Bounded(@[x], lo, hi)]]
    /\ UNCHANGED <<keys, tracked, server, selector, engine, limiter, tuned, req, torn>>

\* update_rag_config, for the two bounds of the adaptive top_k.
UpdateRag(p, lo, hi) ==
    /\ Edits
    /\ Merged(lo, config[p]["live"].lo) <= Merged(hi, config[p]["live"].hi)
    /\ config' = [config EXCEPT ![p] = [x \in Copies |-> Bounded(@[x], lo, hi)]]
    /\ UNCHANGED <<keys, tracked, server, selector, engine, limiter, tuned, req, torn>>

\* update_rate_limit_config; the container's settings keep the old value.
ToggleRateLimit(p, on) ==
    /\ Edits
    /\ limiter' = [limiter EXCEPT ![p] = on]
    /\ config' = [config EXCEPT ![p]["live"].limited = on]
    /\ UNCHANGED <<keys, tracked, server, selector, engine, tuned, req, torn>>

\* A process ends and starts again, from the environment.
Restart(p) ==
    /\ config' = [config EXCEPT ![p] = [c \in Copies |-> Boot]]
    /\ tracked' = [tracked EXCEPT ![p] = NoChoice]
    /\ server' = [server EXCEPT ![p] = Boot.choice]
    /\ selector' = [selector EXCEPT ![p] = NoChoice]
    /\ engine' = [engine EXCEPT ![p] = Boot.url]
    /\ limiter' = [limiter EXCEPT ![p] = Boot.limited]
    /\ req' = [r \in Requests |-> IF req[r].proc = p THEN Free ELSE req[r]]
    /\ torn' = torn \ {p}
    /\ UNCHANGED <<keys, tuned, edits>>

-----------------------------------------------------------------------------
Profile == \E u \in Users, v \in Vendors : SaveKey(u, v) \/ DeleteKey(u, v)

Serve ==
    \E r \in Requests :
        \/ \E p \in Procs, u \in Users \cup {NoUser} : Ask(r, p, u)
        \/ \E ok \in BOOLEAN : GetKey(r, ok)
        \/ Build(r) \/ Leave(r)

Administer ==
    \/ \E r \in Requests, p \in Procs :
          \/ \E a \in Admins, m \in Models : UpdateLlm(r, p, a, m)
          \/ \E m \in Tuned : Deploy(r, p, m)
          \/ \E url \in Urls : UpdateDatabase(r, p, url)
    \/ \E r \in Requests, ok \in BOOLEAN :
          CheckKey(r, ok) \/ ListJobs(r, ok) \/ SwitchEngine(r, ok) \/ DisposeEngine(r, ok)
    \/ \E p \in Procs, lo \in Given, hi \in Given : UpdateRag(p, lo, hi)
    \/ \E p \in Procs, on \in BOOLEAN : ToggleRateLimit(p, on)

Next ==
    \/ Profile \/ Serve \/ Administer
    \/ \E m \in Tuned : JobSucceeds(m)
    \/ \E p \in Procs : Restart(p)

Spec == Init /\ [][Next]_vars

-----------------------------------------------------------------------------
Request == [op : {"none", "ask", "llm", "deploy", "database"},
            pc : {"none", "key", "connect", "built", "check", "list", "test", "dispose"},
            proc : Procs \cup {NoProc}, user : Users \cup {NoUser}, choice : Choices,
            begun : Choices, llm : Llm, url : Urls, lo : Depths, hi : Depths]

\* Type invariant.
TypeOK ==
    /\ keys \in [Users -> [Vendors -> Key \cup {NoKey}]]
    /\ config \in [Procs -> [Copies -> Config]]
    /\ tracked \in [Procs -> Choices \cup {NoChoice}]
    /\ server \in [Procs -> Choices]
    /\ selector \in [Procs -> Choices \cup {NoChoice}]
    /\ engine \in [Procs -> Urls]
    /\ limiter \in [Procs -> BOOLEAN]
    /\ tuned \subseteq Tuned /\ torn \subseteq Procs /\ edits \in Nat
    /\ req \in [Requests -> Request]

\* A pipeline is built for the provider and the model that were active when its
\* request came, whatever is switched while it waits, and a personal key is used
\* only for its own user and only with the provider it was saved for.
OneChoice ==
    \A r \in Requests :
        At(r, "built") =>
            /\ req[r].llm.choice = req[r].begun
            /\ req[r].llm.key # Server =>
                  /\ req[r].llm.key.user = req[r].user
                  /\ req[r].llm.key.vendor = req[r].llm.choice.provider

\* Bounds of top_k: in order, or still those of the environment, untouched.
Accepted(lo, hi) == lo <= hi \/ (lo = Boot.lo /\ hi = Boot.hi)

\* What a process says of its model is what answers, in both of its settings, which
\* have the same bounds of top_k; no update leaves those inverted, in the settings or
\* in a pipeline: inverted ones are the environment's, as they were at the start.
CopiesAgree ==
    /\ \A p \in Procs, c \in Copies :
          /\ config[p][c].choice = server[p] /\ Current(p) = server[p]
          /\ config[p][c].lo = config[p]["live"].lo /\ config[p][c].hi = config[p]["live"].hi
          /\ Accepted(config[p][c].lo, config[p][c].hi)
    /\ \A r \in Requests : At(r, "built") => Accepted(req[r].lo, req[r].hi)

\* The container's database_url names the database its client is connected to,
\* except during a switch, or after one overlapped another or could not close the
\* old pool.
UrlFollows ==
    \A p \in Procs :
        p \notin torn /\ Disposing(p) = {} => config[p]["container"].url = engine[p]
=============================================================================
