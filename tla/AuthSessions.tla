---------------------------- MODULE AuthSessions ----------------------------
(***************************************************************************)
(* Signing in and staying signed in: the rows of one account (users,       *)
(* password_history, user_login_sessions, refresh_tokens), the routes of   *)
(* api/routes/auth.py and auth_sessions.py that change them, and the       *)
(* authentication cache each server process keeps in api/dependencies.py.  *)
(*                                                                         *)
(* A request loads the user row in one statement and writes back, at its   *)
(* commit, the columns it has changed.  A request that was answered leaves *)
(* its slot; what it was told is not kept.                                 *)
(***************************************************************************)
EXTENDS Integers, Sequences, FiniteSets

CONSTANTS
    Sessions,      \* ids of login sessions that can ever be recorded
    Tokens,        \* refresh tokens that can ever be issued
    Procs,         \* server processes
    Requests,      \* slots for concurrent requests
    Passwords,
    MaxAttempts,   \* _OTP_MAX_ATTEMPTS
    OtpLife,       \* minutes until a code expires
    CacheTtl,      \* _AUTH_CACHE_TTL
    Remembered,    \* how many former passwords may not be used again
    MaxCodes,      \* bound: one-time codes
    MaxRequests,   \* bound: requests
    MaxTime,       \* bound: the clock stops here
    NoSession, NoToken, NoPassword, NoProc

Never  == -1       \* a NULL timestamp
NoCode == 0        \* otp_code IS NULL

ASSUME ConstantsAssumption ==
    /\ NoSession \notin Sessions /\ NoToken \notin Tokens /\ NoProc \notin Procs
    /\ NoPassword \notin Passwords /\ Passwords # {}
    /\ MaxAttempts \in Nat /\ OtpLife \in Nat /\ CacheTtl \in Nat
    /\ Remembered \in Nat /\ MaxCodes \in Nat \ {0}
    /\ MaxRequests \in Nat /\ MaxTime \in Nat

VARIABLES
    now,
    user,        \* the row of users
    passwords,   \* the rows of password_history, oldest first
    sessions,    \* the rows of user_login_sessions
    tokens,      \* the rows of refresh_tokens
    cache,       \* _auth_cache of each process: when an entry was written
    req,         \* the requests under way
    codes,       \* one-time codes generated so far
    ended,       \* history: when a session was first revoked
    excused,     \* history: requests past their check of a session that then ended
    cleared,     \* history: <<process, session>> whose revocation was completed
    tainted,     \* history: sessions an excused request put back into a cache
    forked,      \* history: sessions of which one token was exchanged twice
    count

vars == <<now, user, passwords, sessions, tokens, cache, req, codes, ended,
          excused, cleared, tainted, forked, count>>
account == <<user, passwords, codes>>
signed  == <<sessions, tokens, cache>>
history == <<ended, excused, cleared, tainted, forked>>

-----------------------------------------------------------------------------
Row == [provider : {"email", "google"}, verified : BOOLEAN,
        otp : Nat, expires : Nat, attempts : Nat,
        password : Passwords \cup {NoPassword}]

SessionIds == Sessions \cup {NoSession}

Request == [at : {"idle", "loaded", "record", "issue", "check", "rotate",
                  "cache", "invalidate"},
            row : Row, sid : SessionIds, tok : Tokens \cup {NoToken},
            proc : Procs \cup {NoProc}, all : BOOLEAN]

Ids(states) == {s \in Sessions : sessions[s] \in states}

\* What an access token may name: a session, or none at all.
Live(s)  == s \in Ids({"live"}) \cup {NoSession}
Known(s) == s \in Ids({"live", "revoked"}) \cup
                  {tokens[t].session : t \in {x \in Tokens : tokens[x].st # "unborn"}}

\* _auth_cache_get: an entry is used for less than CacheTtl.
Fresh(p, s) == cache[p][s] # Never /\ now - cache[p][s] < CacheTtl

LiveTokens(s) == {t \in Tokens : tokens[t].st = "live" /\ tokens[t].session = s}

\* Column by column, what a commit leaves of a row that was loaded and changed.
Flush(db, loaded, changed) ==
    [f \in DOMAIN db |-> IF changed[f] # loaded[f] THEN changed[f] ELSE db[f]]

\* An account as register leaves it, or as google_auth creates it.
Registered(pw) == [provider |-> "email", verified |-> FALSE, otp |-> 1,
                   expires |-> OtpLife, attempts |-> 0, password |-> pw]
FromGoogle == [provider |-> "google", verified |-> FALSE, otp |-> NoCode,
               expires |-> 0, attempts |-> 0, password |-> NoPassword]

Idle == [at |-> "idle", row |-> FromGoogle, sid |-> NoSession, tok |-> NoToken,
         proc |-> NoProc, all |-> FALSE]

Init ==
    /\ now = 0
    /\ \/ \E pw \in Passwords : user = Registered(pw) /\ passwords = <<pw>>
       \/ user = FromGoogle /\ passwords = <<>>
    /\ sessions = [s \in Sessions |-> "unborn"]
    /\ tokens = [t \in Tokens |-> [st |-> "unborn", session |-> NoSession]]
    /\ cache = [p \in Procs |-> [s \in SessionIds |-> Never]]
    /\ req = [r \in Requests |-> Idle]
    /\ codes = 1
    /\ ended = [s \in Sessions |-> Never]
    /\ excused = {} /\ cleared = {} /\ tainted = {} /\ forked = {}
    /\ count = 0

Tick ==
    /\ now < MaxTime
    /\ now' = now + 1
    /\ UNCHANGED <<account, signed, history, req, count>>

-----------------------------------------------------------------------------
(* The user row: verification and passwords. *)

Begin(r) ==
    /\ req[r].at = "idle"
    /\ count < MaxRequests
    /\ count' = count + 1

Goto(r, phase) == req' = [req EXCEPT ![r].at = phase]
Done(r) == /\ req' = [req EXCEPT ![r] = Idle]
           /\ excused' = excused \ {r}

UnchangedByRow == UNCHANGED <<now, signed, ended, cleared, tainted, forked, count>>

\* The SELECT every route of auth.py begins with.
Load(r) ==
    /\ Begin(r)
    /\ req' = [req EXCEPT ![r] = [Idle EXCEPT !.at = "loaded", !.row = user]]
    /\ UNCHANGED <<now, account, signed, history>>

Loaded(r) == req[r].at = "loaded"
Commit(r, changed) == user' = Flush(user, req[r].row, changed)

\* A password is hashed anew, so that its column always differs.
CommitPassword(r, changed, pw) ==
    /\ user' = [Flush(user, req[r].row, changed) EXCEPT !.password = pw]
    /\ passwords' = Append(passwords, pw)

\* Signing in: the new session is recorded, then the token issued.
Login(r) ==
    LET row == req[r].row
    IN  /\ Loaded(r)
        /\ row.password # NoPassword
        /\ row.verified \/ row.provider # "email"
        /\ Goto(r, "record")
        /\ UNCHANGED <<account, excused>> /\ UnchangedByRow

GoogleAuth(r) ==
    /\ Loaded(r)
    /\ Goto(r, "record")
    /\ UNCHANGED <<account, excused>> /\ UnchangedByRow

\* Is the code refused, and what does the refusal write?
Refused(row, code) == row.attempts >= MaxAttempts \/ row.otp = NoCode \/ row.otp # code

\* Mutant of AfterRefusal: attempts are counted down.
AfterRefusalCountsDown(row) ==
    IF row.attempts >= MaxAttempts THEN [row EXCEPT !.otp = NoCode, !.expires = 0]
                                   ELSE [row EXCEPT !.attempts = @ - 1]

AfterRefusal(row) ==
    IF row.attempts >= MaxAttempts THEN [row EXCEPT !.otp = NoCode, !.expires = 0]
                                   ELSE [row EXCEPT !.attempts = @ + 1]

RefuseCode(r, code) ==
    LET row == req[r].row
    IN  /\ Loaded(r)
        /\ Refused(row, code)
        /\ Commit(r, AfterRefusal(row)) /\ Done(r)
        /\ UNCHANGED <<passwords, codes>> /\ UnchangedByRow

\* An account that is verified already is given a token without a session.
VerifyOtp(r, code) ==
    LET row == req[r].row
    IN  /\ Loaded(r)
        /\ \/ /\ row.verified
              /\ Goto(r, "issue")
              /\ UNCHANGED user
           \/ /\ ~row.verified /\ ~Refused(row, code) /\ now <= row.expires
              /\ Commit(r, [row EXCEPT !.attempts = 0, !.verified = TRUE,
                                       !.otp = NoCode, !.expires = 0])
              /\ Goto(r, "record")
        /\ UNCHANGED <<passwords, codes, excused>> /\ UnchangedByRow

\* resend_otp for an unverified account, forgot_password for one with a password.
SendOtp(r) ==
    LET row == req[r].row
    IN  /\ Loaded(r) /\ codes < MaxCodes
        /\ ~row.verified \/ row.provider = "email"
        /\ codes' = codes + 1
        /\ Commit(r, [row EXCEPT !.attempts = 0, !.otp = codes + 1,
                                 !.expires = now + OtpLife])
        /\ Done(r)
        /\ UNCHANGED passwords /\ UnchangedByRow

\* The check against the last three rows of password_history.
Recent == {passwords[i] : i \in {j \in 1..Len(passwords) : j > Len(passwords) - Remembered}}

\* The token it issues belongs to no session.
ResetPassword(r, code, pw) ==
    LET row == req[r].row
    IN  /\ Loaded(r) /\ row.provider = "email"
        /\ ~Refused(row, code) /\ now <= row.expires
        /\ pw \notin Recent
        /\ CommitPassword(r, [row EXCEPT !.attempts = 0, !.otp = NoCode, !.expires = 0,
                                         !.verified = TRUE], pw)
        /\ Goto(r, "issue")
        /\ UNCHANGED <<codes, excused>> /\ UnchangedByRow

ChangePassword(r, pw) ==
    LET row == req[r].row
    IN  /\ Loaded(r) /\ row.password # NoPassword
        /\ pw \notin Recent
        /\ CommitPassword(r, row, pw)
        /\ Done(r)
        /\ UNCHANGED codes /\ UnchangedByRow

-----------------------------------------------------------------------------
(* Sessions and refresh tokens. *)

RecordLogin(r, s) ==
    /\ req[r].at = "record" /\ sessions[s] = "unborn"
    /\ sessions' = [sessions EXCEPT ![s] = "live"]
    /\ req' = [req EXCEPT ![r].at = "issue", ![r].sid = s]
    /\ UNCHANGED <<now, account, tokens, cache, history, count>>

NewToken(t, s) == [tokens EXCEPT ![t] = [st |-> "live", session |-> s]]

IssueToken(r, t) ==
    /\ req[r].at = "issue" /\ tokens[t].st = "unborn"
    /\ tokens' = NewToken(t, req[r].sid)
    /\ Done(r)
    /\ UNCHANGED <<now, account, sessions, cache, ended, cleared, tainted, forked, count>>

\* refresh: the token is read, then its session, then both tokens are written.
Present(r, t) ==
    /\ Begin(r)
    /\ tokens[t].st = "live"
    /\ req' = [req EXCEPT ![r] = [Idle EXCEPT !.at = "check", !.tok = t,
                                              !.sid = tokens[t].session]]
    /\ UNCHANGED <<now, account, signed, history>>

\* Mutant of CheckSession: the session of the token is not looked at.
CheckSessionSkipped(r) ==
    /\ req[r].at = "check"
    /\ Goto(r, "rotate")
    /\ UNCHANGED <<now, account, signed, history, count>>

CheckSession(r) ==
    /\ req[r].at = "check"
    /\ \/ /\ Live(req[r].sid)
          /\ Goto(r, "rotate")
          /\ UNCHANGED <<tokens, excused>>
       \/ /\ ~Live(req[r].sid)
          /\ tokens' = [tokens EXCEPT ![req[r].tok].st = "revoked"]
          /\ Done(r)
    /\ UNCHANGED <<now, account, sessions, cache, ended, cleared, tainted, forked, count>>

\* The token's row is updated by its id, whoever else has revoked it meanwhile.
Exchanged(r) == IF tokens[req[r].tok].st = "live" THEN forked ELSE forked \cup {req[r].sid}

\* Mutant of Rotate: the presented token stays valid.
RotateKeepsOld(r, t) ==
    /\ req[r].at = "rotate" /\ tokens[t].st = "unborn"
    /\ tokens' = NewToken(t, req[r].sid)
    /\ forked' = Exchanged(r)
    /\ Done(r)
    /\ UNCHANGED <<now, account, sessions, cache, ended, cleared, tainted, count>>

Rotate(r, t) ==
    /\ req[r].at = "rotate" /\ tokens[t].st = "unborn"
    /\ tokens' = [NewToken(t, req[r].sid) EXCEPT ![req[r].tok].st = "revoked"]
    /\ forked' = Exchanged(r)
    /\ Done(r)
    /\ UNCHANGED <<now, account, sessions, cache, ended, cleared, tainted, count>>

-----------------------------------------------------------------------------
(* get_current_user, and the revocations. *)

\* Mutant of Validate: the session is not read.
ValidateUserOnly(r, p, s) ==
    /\ Begin(r)
    /\ Known(s) /\ ~Fresh(p, s)
    /\ req' = [req EXCEPT ![r] = [Idle EXCEPT !.at = "cache", !.sid = s, !.proc = p]]
    /\ UNCHANGED <<now, account, signed, history>>

\* A cache miss: the session is read and found live.
Validate(r, p, s) ==
    /\ Begin(r)
    /\ Known(s) /\ ~Fresh(p, s) /\ Live(s)
    /\ req' = [req EXCEPT ![r] = [Idle EXCEPT !.at = "cache", !.sid = s, !.proc = p]]
    /\ UNCHANGED <<now, account, signed, history>>

CacheSet(r) ==
    LET s == req[r].sid
    IN  /\ req[r].at = "cache"
        /\ cache' = [cache EXCEPT ![req[r].proc][s] = now]
        /\ tainted' = IF r \in excused THEN tainted \cup {s} ELSE tainted
        /\ Done(r)
        /\ UNCHANGED <<now, account, sessions, tokens, ended, cleared, forked, count>>

\* A caller whom process p takes for signed in.
Authorized(p, s) == Known(s) /\ (Fresh(p, s) \/ Live(s))

HoldsChecked(r, S) == /\ req[r].sid \in S
                      /\ req[r].at \in {"issue", "rotate", "cache"}

\* The sessions in S are revoked, and with `bound` the tokens bound to them.
Revoking(r, p, S, bound) ==
    /\ Begin(r)
    /\ sessions' = [s \in Sessions |-> IF s \in S THEN "revoked" ELSE sessions[s]]
    /\ tokens' = [t \in Tokens |-> IF bound /\ tokens[t].st = "live" /\ tokens[t].session \in S
                                   THEN [tokens[t] EXCEPT !.st = "revoked"] ELSE tokens[t]]
    /\ ended' = [s \in Sessions |-> IF s \in S /\ ended[s] = Never THEN now ELSE ended[s]]
    /\ excused' = excused \cup {q \in Requests : HoldsChecked(q, S)}
    /\ UNCHANGED <<now, account, cache, cleared, tainted, forked>>

ThenInvalidate(r, p, s, all) ==
    req' = [req EXCEPT ![r] = [Idle EXCEPT !.at = "invalidate", !.sid = s,
                                           !.proc = p, !.all = all]]

Logout(r, p, s) ==
    /\ Authorized(p, s)
    /\ Revoking(r, p, {s}, TRUE)
    /\ ThenInvalidate(r, p, s, FALSE)

\* Of any session, by any caller of the account; its tokens are left to refresh.
RevokeAuthSession(r, p, s) ==
    /\ sessions[s] # "unborn" /\ \E c \in SessionIds : Authorized(p, c)
    /\ Revoking(r, p, {s}, FALSE)
    /\ ThenInvalidate(r, p, s, FALSE)

RevokeAll(r, p) ==
    /\ \E c \in SessionIds : Authorized(p, c)
    /\ Revoking(r, p, {s \in Sessions : sessions[s] = "live"}, FALSE)
    /\ ThenInvalidate(r, p, NoSession, TRUE)

\* Mutant of Invalidate: it drops a key that is not the entry's.
InvalidateWrongKey(r) ==
    LET p == req[r].proc
        S == IF req[r].all THEN SessionIds ELSE {req[r].sid}
    IN  /\ req[r].at = "invalidate"
        /\ cleared' = cleared \cup {<<p, s>> : s \in {x \in S \cap Sessions : ended[x] # Never}}
        /\ Done(r)
        /\ UNCHANGED <<now, account, signed, ended, tainted, forked, count>>

\* auth_cache_invalidate_session or auth_cache_invalidate_user, in this process.
Invalidate(r) ==
    LET p == req[r].proc
        S == IF req[r].all THEN SessionIds ELSE {req[r].sid}
    IN  /\ req[r].at = "invalidate"
        /\ cache' = [cache EXCEPT ![p] = [s \in SessionIds |-> IF s \in S THEN Never ELSE @[s]]]
        /\ cleared' = cleared \cup {<<p, s>> : s \in {x \in S \cap Sessions : ended[x] # Never}}
        /\ Done(r)
        /\ UNCHANGED <<now, account, sessions, tokens, ended, tainted, forked, count>>

-----------------------------------------------------------------------------
Credentials(r) ==
    \/ Load(r) \/ Login(r) \/ GoogleAuth(r) \/ SendOtp(r)
    \/ \E code \in 0..codes :
          \/ RefuseCode(r, code) \/ VerifyOtp(r, code)
          \/ \E pw \in Passwords : ResetPassword(r, code, pw)
    \/ \E pw \in Passwords : ChangePassword(r, pw)

Refresh(r) ==
    \/ CheckSession(r)
    \/ \E t \in Tokens : Present(r, t) \/ IssueToken(r, t) \/ Rotate(r, t)
    \/ \E s \in Sessions : RecordLogin(r, s)

Authenticate(r) ==
    \/ CacheSet(r) \/ Invalidate(r)
    \/ \E p \in Procs : \/ RevokeAll(r, p)
                        \/ \E s \in SessionIds : Validate(r, p, s)
                        \/ \E s \in Sessions : Logout(r, p, s) \/ RevokeAuthSession(r, p, s)

Next == Tick \/ \E r \in Requests : Credentials(r) \/ Refresh(r) \/ Authenticate(r)

Spec == Init /\ [][Next]_vars

-----------------------------------------------------------------------------
TypeOK ==
    /\ now \in Nat /\ codes \in Nat /\ count \in Nat
    /\ user \in Row
    /\ passwords \in Seq(Passwords)
    /\ sessions \in [Sessions -> {"unborn", "live", "revoked"}]
    /\ tokens \in [Tokens -> [st : {"unborn", "live", "revoked"}, session : SessionIds]]
    /\ cache \in [Procs -> [SessionIds -> Nat \cup {Never}]]
    /\ req \in [Requests -> Request]
    /\ ended \in [Sessions -> Nat \cup {Never}]
    /\ excused \subseteq Requests
    /\ cleared \subseteq Procs \X Sessions
    /\ tainted \subseteq SessionIds /\ forked \subseteq SessionIds

\* Once a session is revoked, only requests that had checked it before still
\* issue a token of it or enter it into a cache: nothing begun later revives it.
RevocationHolds ==
    [][\A s \in Sessions : ended[s] # Never =>
          \/ \E r \in excused : req[r].at # "idle" /\ req'[r].at = "idle"
          \/ /\ LiveTokens(s)' \subseteq LiveTokens(s)
             /\ \A p \in Procs : cache'[p][s] \in {cache[p][s], Never}]_vars

\* The process that completed a revocation does not answer from its cache for that
\* session, unless a check that preceded the revocation was cached after it.
ForgottenWhereRevoked ==
    \A p \in Procs : \A s \in Sessions \ tainted :
        <<p, s>> \in cleared => cache[p][s] = Never

\* A process that did not revoke the session is behind by at most CacheTtl: its
\* entry is not younger than the revocation.
StaleAtMostTtl ==
    \A p \in Procs : \A s \in Sessions \ tainted :
        ended[s] # Never => cache[p][s] <= ended[s]

\* Rotation leaves one valid refresh token per session, unless two refreshes of one
\* token overlapped.
OneLiveToken ==
    \A s \in Sessions \ forked : Cardinality(LiveTokens(s)) <= 1
=============================================================================
