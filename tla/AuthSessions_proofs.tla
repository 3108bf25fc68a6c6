------------------------ MODULE AuthSessions_proofs ------------------------
(***************************************************************************)
(* Proofs about AuthSessions for any sessions, tokens, processes, requests *)
(* and passwords, and any limits.                                          *)
(***************************************************************************)
EXTENDS AuthSessions, FiniteSetTheorems, TLAPS

LEMMA RowTypes ==
    /\ FromGoogle \in Row /\ Idle \in Request
    /\ \A pw \in Passwords : Registered(pw) \in Row
BY ConstantsAssumption DEF FromGoogle, Registered, Row, Idle, Request, SessionIds, NoCode

\* What a commit leaves is a row whatever was loaded.
LEMMA FlushTypes ==
    ASSUME NEW db \in Row, NEW loaded \in Row, NEW changed \in Row
    PROVE  Flush(db, loaded, changed) \in Row
BY DEF Flush, Row

LEMMA ReqTypes ==
    /\ \A q \in Request : \A phase \in {"record", "issue", "rotate"} :
          [q EXCEPT !.at = phase] \in Request
    /\ \A q \in Request : \A s \in Sessions : [q EXCEPT !.at = "issue", !.sid = s] \in Request
    /\ \A row \in Row : [Idle EXCEPT !.at = "loaded", !.row = row] \in Request
    /\ \A t \in Tokens, s \in SessionIds :
          [Idle EXCEPT !.at = "check", !.tok = t, !.sid = s] \in Request
    /\ \A s \in SessionIds, p \in Procs :
          /\ [Idle EXCEPT !.at = "cache", !.sid = s, !.proc = p] \in Request
          /\ \A all \in BOOLEAN :
                [Idle EXCEPT !.at = "invalidate", !.sid = s, !.proc = p, !.all = all] \in Request
BY RowTypes DEF Request, SessionIds

\* What a step of a request on the user row leaves: the request itself, and the row
\* with the code and the passwords.
LEMMA CredentialsStep ==
    ASSUME TypeOK, NEW r \in Requests, Credentials(r)
    PROVE  /\ UNCHANGED <<now, sessions, tokens, cache, ended, cleared, tainted, forked>>
           /\ \/ /\ req' = [req EXCEPT ![r] = [Idle EXCEPT !.at = "loaded", !.row = user]]
                 /\ req[r].at = "idle" /\ excused' = excused
              \/ /\ \/ req' = [req EXCEPT ![r] = [req[r] EXCEPT !.at = "record"]]
                    \/ req' = [req EXCEPT ![r] = [req[r] EXCEPT !.at = "issue"]]
                 /\ req[r].at = "loaded" /\ excused' = excused
              \/ /\ req' = [req EXCEPT ![r] = Idle]
                 /\ req[r].at = "loaded" /\ excused' = excused \ {r}
<1>1. CASE Load(r)
  BY <1>1 DEF Load, Begin, history, signed
<1>2. CASE Login(r) \/ GoogleAuth(r) \/ SendOtp(r)
  BY <1>2 DEF Login, GoogleAuth, SendOtp, Loaded, Goto, Done, UnchangedByRow, signed
<1>3. ASSUME NEW code \in 0..codes, RefuseCode(r, code) \/ VerifyOtp(r, code)
      PROVE  /\ UNCHANGED <<now, sessions, tokens, cache, ended, cleared, tainted, forked>>
             /\ \/ /\ \/ req' = [req EXCEPT ![r] = [req[r] EXCEPT !.at = "record"]]
                      \/ req' = [req EXCEPT ![r] = [req[r] EXCEPT !.at = "issue"]]
                   /\ req[r].at = "loaded" /\ excused' = excused
                \/ /\ req' = [req EXCEPT ![r] = Idle]
                   /\ req[r].at = "loaded" /\ excused' = excused \ {r}
  BY <1>3 DEF RefuseCode, VerifyOtp, Loaded, Goto, Done, UnchangedByRow, signed
<1>4. ASSUME NEW code \in 0..codes, NEW pw \in Passwords,
             ResetPassword(r, code, pw) \/ ChangePassword(r, pw)
      PROVE  /\ UNCHANGED <<now, sessions, tokens, cache, ended, cleared, tainted, forked>>
             /\ \/ /\ req' = [req EXCEPT ![r] = [req[r] EXCEPT !.at = "issue"]]
                   /\ req[r].at = "loaded" /\ excused' = excused
                \/ /\ req' = [req EXCEPT ![r] = Idle]
                   /\ req[r].at = "loaded" /\ excused' = excused \ {r}
  BY <1>4 DEF ResetPassword, ChangePassword, Loaded, Goto, Done, UnchangedByRow, signed
<1>5. 0 \in 0..codes
  BY DEF TypeOK
<1> QED
  BY <1>1, <1>2, <1>3, <1>4, <1>5 DEF Credentials

LEMMA CredentialsTypes ==
    ASSUME TypeOK, NEW r \in Requests, Credentials(r)
    PROVE  /\ user' \in Row /\ codes' \in Nat /\ count' \in Nat
           /\ passwords' \in Seq(Passwords)
<1> DEFINE row == req[r].row
<1>1. user \in Row /\ row \in Row
  BY DEF TypeOK, Request
<1>2. \A changed \in Row : Flush(user, row, changed) \in Row
  BY <1>1, FlushTypes
<1>3. CASE Load(r)
  BY <1>3 DEF Load, Begin, account, TypeOK
<1>4. CASE Login(r) \/ GoogleAuth(r)
  BY <1>4 DEF Login, GoogleAuth, account, UnchangedByRow, TypeOK
<1>5. CASE SendOtp(r)
  <2>1. [row EXCEPT !.attempts = 0, !.otp = codes + 1, !.expires = now + OtpLife] \in Row
    <3>1. codes + 1 \in Nat /\ now + OtpLife \in Nat
      BY ConstantsAssumption DEF TypeOK
    <3> HIDE DEF row
    <3> QED
      BY <1>1, <3>1 DEF Row
  <2> QED
    BY <1>2, <1>5, <2>1 DEF SendOtp, Commit, UnchangedByRow, TypeOK
<1>6. ASSUME NEW code \in 0..codes, RefuseCode(r, code)
      PROVE  user' \in Row /\ UNCHANGED <<codes, count, passwords>>
  <2>1. AfterRefusal(row) \in Row
    <3>1. ASSUME NEW q \in Row PROVE AfterRefusal(q) \in Row
      <4>1. [q EXCEPT !.otp = NoCode, !.expires = 0] \in Row
        BY DEF Row, NoCode
      <4>2. [q EXCEPT !.attempts = @ + 1] \in Row
        BY DEF Row
      <4> QED
        BY <4>1, <4>2 DEF AfterRefusal
    <3> QED
      BY <1>1, <3>1
  <2> QED
    BY <1>2, <1>6, <2>1 DEF RefuseCode, Commit, UnchangedByRow
<1>7. ASSUME NEW code \in 0..codes, VerifyOtp(r, code)
      PROVE  user' \in Row /\ UNCHANGED <<codes, count, passwords>>
  <2>1. [row EXCEPT !.attempts = 0, !.verified = TRUE, !.otp = NoCode, !.expires = 0] \in Row
    BY <1>1 DEF Row, NoCode
  <2> QED
    BY <1>1, <1>2, <1>7, <2>1 DEF VerifyOtp, Commit, UnchangedByRow
<1>8. ASSUME NEW pw \in Passwords, NEW changed \in Row, CommitPassword(r, changed, pw)
      PROVE  user' \in Row /\ passwords' \in Seq(Passwords)
  <2>1. Flush(user, row, changed) \in Row
    BY <1>2
  <2>2. [Flush(user, row, changed) EXCEPT !.password = pw] \in Row
    BY <2>1 DEF Row
  <2> QED
    BY <1>8, <2>2 DEF CommitPassword, TypeOK
<1>9. ASSUME NEW code \in 0..codes, NEW pw \in Passwords, ResetPassword(r, code, pw)
      PROVE  user' \in Row /\ passwords' \in Seq(Passwords) /\ UNCHANGED <<codes, count>>
  <2>1. [row EXCEPT !.attempts = 0, !.otp = NoCode, !.expires = 0, !.verified = TRUE] \in Row
    BY <1>1 DEF Row, NoCode
  <2> QED
    BY <1>8, <1>9, <2>1 DEF ResetPassword, UnchangedByRow
<1>10. ASSUME NEW pw \in Passwords, ChangePassword(r, pw)
       PROVE  user' \in Row /\ passwords' \in Seq(Passwords) /\ UNCHANGED <<codes, count>>
  BY <1>1, <1>8, <1>10 DEF ChangePassword, UnchangedByRow
<1> QED
  BY <1>3, <1>4, <1>5, <1>6, <1>7, <1>9, <1>10 DEF Credentials, TypeOK

\* The three revocations are one step with different arguments.
LEMMA RevokeForms ==
    ASSUME NEW r \in Requests, NEW p \in Procs,
           RevokeAll(r, p) \/ \E s \in Sessions : Logout(r, p, s) \/ RevokeAuthSession(r, p, s)
    PROVE  \E S \in SUBSET Sessions, bound \in BOOLEAN, s \in SessionIds, all \in BOOLEAN :
              Revoking(r, p, S, bound) /\ ThenInvalidate(r, p, s, all)
<1>1. CASE RevokeAll(r, p)
  <2>1. NoSession \in SessionIds /\ {s \in Sessions : sessions[s] = "live"} \in SUBSET Sessions
    BY DEF SessionIds
  <2> QED
    BY <1>1, <2>1 DEF RevokeAll
<1>2. ASSUME NEW s \in Sessions, Logout(r, p, s) \/ RevokeAuthSession(r, p, s)
      PROVE  \E S \in SUBSET Sessions, bound \in BOOLEAN, all \in BOOLEAN :
                Revoking(r, p, S, bound) /\ ThenInvalidate(r, p, s, all)
  <2>1. {s} \in SUBSET Sessions
    OBVIOUS
  <2> QED
    BY <1>2, <2>1 DEF Logout, RevokeAuthSession
<1> QED
  BY <1>1, <1>2 DEF SessionIds

-----------------------------------------------------------------------------
\* A request that is about to write a cache, or to clear it, runs in a process.
Placed == \A r \in Requests : req[r].at \in {"cache", "invalidate"} => req[r].proc \in Procs

\* Type correctness of AuthSessions, the invariant TypeOK.
LEMMA TypeInit == Init => TypeOK /\ Placed
<1> SUFFICES ASSUME Init PROVE TypeOK /\ Placed
  OBVIOUS
<1>1. user \in Row /\ passwords \in Seq(Passwords)
  <2>1. CASE \E pw \in Passwords : user = Registered(pw) /\ passwords = <<pw>>
    <3>1. PICK pw \in Passwords : user = Registered(pw) /\ passwords = <<pw>>
      BY <2>1
    <3>2. <<pw>> \in Seq(Passwords)
      OBVIOUS
    <3> QED
      BY <3>1, <3>2, RowTypes
  <2>2. CASE user = FromGoogle /\ passwords = <<>>
    <3>1. <<>> \in Seq(Passwords)
      OBVIOUS
    <3> QED
      BY <2>2, <3>1, RowTypes
  <2> QED
    BY <2>1, <2>2 DEF Init
<1>2. req = [r \in Requests |-> Idle]
  BY DEF Init
<1>6. req \in [Requests -> Request]
  BY <1>2, RowTypes
<1>3. Placed
  BY <1>2 DEF Placed, Idle
<1>4. tokens \in [Tokens -> [st : {"unborn", "live", "revoked"}, session : SessionIds]]
  BY DEF Init, SessionIds
<1>5. cache \in [Procs -> [SessionIds -> Nat \cup {Never}]]
  BY DEF Init
<1> QED
  BY <1>1, <1>6, <1>3, <1>4, <1>5 DEF Init, TypeOK

LEMMA TypeStep == TypeOK /\ Placed /\ [Next]_vars => TypeOK'
<1> SUFFICES ASSUME TypeOK, Placed, [Next]_vars PROVE TypeOK'
  OBVIOUS
<1>1. CASE Tick \/ UNCHANGED vars
  <2>1. /\ UNCHANGED <<user, passwords, codes, sessions, tokens, cache, req, ended, excused,
                       cleared, tainted, forked, count>>
        /\ now' \in Nat
    BY <1>1 DEF Tick, vars, account, signed, history, TypeOK
  <2> QED
    BY <2>1 DEF TypeOK
<1>2. ASSUME NEW r \in Requests, Credentials(r) PROVE TypeOK'
  <2>1. req' \in [Requests -> Request] /\ excused' \subseteq Requests
    <3>1. /\ req[r] \in Request /\ user \in Row
          /\ [Idle EXCEPT !.at = "loaded", !.row = user] \in Request
          /\ [req[r] EXCEPT !.at = "record"] \in Request
          /\ [req[r] EXCEPT !.at = "issue"] \in Request
      BY ReqTypes DEF TypeOK
    <3>2. PICK w \in Request : req' = [req EXCEPT ![r] = w]
      BY <1>2, <3>1, CredentialsStep, RowTypes
    <3>3. excused' \subseteq excused
      BY <1>2, CredentialsStep
    <3> QED
      BY <3>2, <3>3 DEF TypeOK
  <2>2. UNCHANGED <<now, sessions, tokens, cache, ended, cleared, tainted, forked>>
    BY <1>2, CredentialsStep
  <2> QED
    BY <1>2, <2>1, <2>2, CredentialsTypes DEF TypeOK
<1>3. ASSUME NEW r \in Requests, NEW s \in Sessions, RecordLogin(r, s) PROVE TypeOK'
  <2>1. req' = [req EXCEPT ![r] = [req[r] EXCEPT !.at = "issue", !.sid = s]]
    BY <1>3 DEF RecordLogin
  <2>2. req' \in [Requests -> Request]
    BY <2>1, ReqTypes DEF TypeOK
  <2> QED
    BY <1>3, <2>2 DEF RecordLogin, TypeOK, account, history
<1>4. ASSUME NEW r \in Requests, NEW t \in Tokens, IssueToken(r, t) \/ Rotate(r, t)
      PROVE  TypeOK'
  <2>1. req[r].sid \in SessionIds
    BY DEF TypeOK, Request
  <2>2. req' \in [Requests -> Request] /\ excused' \subseteq Requests
    BY <1>4, RowTypes DEF IssueToken, Rotate, Done, TypeOK
  <2>3. NewToken(t, req[r].sid)
          \in [Tokens -> [st : {"unborn", "live", "revoked"}, session : SessionIds]]
    BY <2>1 DEF NewToken, TypeOK
  <2>4. tokens' \in [Tokens -> [st : {"unborn", "live", "revoked"}, session : SessionIds]]
    BY <1>4, <2>3 DEF IssueToken, Rotate
  <2>5. forked' \subseteq SessionIds
    BY <1>4, <2>1 DEF IssueToken, Rotate, Exchanged, TypeOK
  <2> QED
    BY <1>4, <2>2, <2>4, <2>5 DEF IssueToken, Rotate, TypeOK, account
<1>5. ASSUME NEW r \in Requests, NEW t \in Tokens, Present(r, t) PROVE TypeOK'
  <2>1. tokens[t].session \in SessionIds
    BY DEF TypeOK
  <2>2. [Idle EXCEPT !.at = "check", !.tok = t, !.sid = tokens[t].session] \in Request
    BY <2>1, ReqTypes
  <2>3. req' \in [Requests -> Request]
    BY <1>5, <2>2 DEF Present, TypeOK
  <2> QED
    BY <1>5, <2>3 DEF Present, Begin, TypeOK, account, signed, history
<1>6. ASSUME NEW r \in Requests, CheckSession(r) PROVE TypeOK'
  <2>1. \/ req' = [req EXCEPT ![r] = [req[r] EXCEPT !.at = "rotate"]] /\ excused' = excused
        \/ req' = [req EXCEPT ![r] = Idle] /\ excused' = excused \ {r}
    BY <1>6 DEF CheckSession, Goto, Done
  <2>2. req' \in [Requests -> Request] /\ excused' \subseteq Requests
    <3>1. [req[r] EXCEPT !.at = "rotate"] \in Request
      BY ReqTypes DEF TypeOK
    <3> QED
      BY <2>1, <3>1, RowTypes DEF TypeOK
  <2>3. tokens' \in [Tokens -> [st : {"unborn", "live", "revoked"}, session : SessionIds]]
    BY <1>6 DEF CheckSession, TypeOK
  <2> QED
    BY <1>6, <2>2, <2>3 DEF CheckSession, TypeOK, account
<1>7. ASSUME NEW r \in Requests, NEW p \in Procs, NEW s \in SessionIds, Validate(r, p, s)
      PROVE  TypeOK'
  <2>1. [Idle EXCEPT !.at = "cache", !.sid = s, !.proc = p] \in Request
    BY ReqTypes
  <2>2. req' \in [Requests -> Request]
    BY <1>7, <2>1 DEF Validate, TypeOK
  <2> QED
    BY <1>7, <2>2 DEF Validate, Begin, TypeOK, account, signed, history
<1>8. ASSUME NEW r \in Requests, CacheSet(r) PROVE TypeOK'
  <2>1. req[r].sid \in SessionIds
    BY DEF TypeOK, Request
  <2>2. cache' \in [Procs -> [SessionIds -> Nat \cup {Never}]]
    BY <1>8, <2>1 DEF CacheSet, TypeOK
  <2> QED
    BY <1>8, <2>1, <2>2, RowTypes DEF CacheSet, Done, TypeOK, account
<1>9. ASSUME NEW r \in Requests, Invalidate(r) PROVE TypeOK'
  <2>1. cache' \in [Procs -> [SessionIds -> Nat \cup {Never}]]
    BY <1>9 DEF Invalidate, TypeOK
  <2>2. cleared' \subseteq Procs \X Sessions
    BY <1>9 DEF Invalidate, TypeOK, Placed
  <2> QED
    BY <1>9, <2>1, <2>2, RowTypes DEF Invalidate, Done, TypeOK, account
<1>10. ASSUME NEW r \in Requests, NEW p \in Procs, NEW S \in SUBSET Sessions,
              NEW bound \in BOOLEAN, Revoking(r, p, S, bound),
              NEW s \in SessionIds, NEW all \in BOOLEAN, ThenInvalidate(r, p, s, all)
       PROVE  TypeOK'
  <2>1. req' \in [Requests -> Request]
    BY <1>10, ReqTypes DEF ThenInvalidate, TypeOK
  <2>2. tokens' \in [Tokens -> [st : {"unborn", "live", "revoked"}, session : SessionIds]]
    BY <1>10 DEF Revoking, TypeOK
  <2>3. ended' \in [Sessions -> Nat \cup {Never}]
    BY <1>10 DEF Revoking, TypeOK
  <2> QED
    BY <1>10, <2>1, <2>2, <2>3 DEF Revoking, Begin, TypeOK, account
<1>11. ASSUME NEW r \in Requests, NEW p \in Procs,
              RevokeAll(r, p) \/ \E s \in Sessions : Logout(r, p, s) \/ RevokeAuthSession(r, p, s)
       PROVE  TypeOK'
  BY <1>10, <1>11, RevokeForms
<1> QED
  BY <1>1, <1>2, <1>3, <1>4, <1>5, <1>6, <1>7, <1>8, <1>9, <1>11
  DEF Next, Refresh, Authenticate

LEMMA PlacedStep == TypeOK /\ Placed /\ [Next]_vars => Placed'
<1> SUFFICES ASSUME TypeOK, Placed, [Next]_vars PROVE Placed'
  OBVIOUS
<1> DEFINE Fits(w) == w.at \in {"cache", "invalidate"} => w.proc \in Procs
<1>1. ASSUME NEW r \in Requests, NEW w, req' = [req EXCEPT ![r] = w], Fits(w)
      PROVE  Placed'
  BY <1>1 DEF TypeOK, Placed
<1>2. Fits(Idle)
  BY DEF Idle
<1>3. CASE Tick \/ UNCHANGED vars
  BY <1>3 DEF Tick, vars, Placed
<1>4. ASSUME NEW r \in Requests, Credentials(r) PROVE Placed'
  <2>1. /\ Fits([Idle EXCEPT !.at = "loaded", !.row = user])
        /\ Fits([req[r] EXCEPT !.at = "record"]) /\ Fits([req[r] EXCEPT !.at = "issue"])
    BY DEF Idle, TypeOK, Request
  <2> HIDE DEF Fits
  <2> QED
    BY <1>1, <1>2, <1>4, <2>1, CredentialsStep
<1>5. ASSUME NEW r \in Requests, Refresh(r) PROVE Placed'
  <2>1. ASSUME NEW t \in Tokens, Present(r, t) PROVE Placed'
    <3>1. Fits([Idle EXCEPT !.at = "check", !.tok = t, !.sid = tokens[t].session])
      BY DEF Idle
    <3> QED
      BY <1>1, <2>1, <3>1 DEF Present
  <2>2. ASSUME NEW t \in Tokens, IssueToken(r, t) \/ Rotate(r, t) PROVE Placed'
    BY <1>1, <1>2, <2>2 DEF IssueToken, Rotate, Done
  <2>3. CASE CheckSession(r)
    <3>1. Fits([req[r] EXCEPT !.at = "rotate"])
      BY DEF TypeOK, Request
    <3> HIDE DEF Fits
    <3> QED
      BY <1>1, <1>2, <2>3, <3>1 DEF CheckSession, Goto, Done
  <2>4. ASSUME NEW s \in Sessions, RecordLogin(r, s) PROVE Placed'
    <3>1. Fits([req[r] EXCEPT !.at = "issue", !.sid = s])
      BY DEF TypeOK, Request
    <3> HIDE DEF Fits
    <3> QED
      BY <1>1, <2>4, <3>1 DEF RecordLogin
  <2> QED
    BY <1>5, <2>1, <2>2, <2>3, <2>4 DEF Refresh
<1>6. ASSUME NEW r \in Requests, Authenticate(r) PROVE Placed'
  <2>1. CASE CacheSet(r) \/ Invalidate(r)
    BY <1>1, <1>2, <2>1 DEF CacheSet, Invalidate, Done
  <2>2. ASSUME NEW p \in Procs, NEW s \in SessionIds, Validate(r, p, s) PROVE Placed'
    <3>1. Fits([Idle EXCEPT !.at = "cache", !.sid = s, !.proc = p])
      BY DEF Idle
    <3> QED
      BY <1>1, <2>2, <3>1 DEF Validate
  <2>3. ASSUME NEW p \in Procs, NEW s \in SessionIds, NEW all \in BOOLEAN,
               ThenInvalidate(r, p, s, all)
        PROVE  Placed'
    <3>1. Fits([Idle EXCEPT !.at = "invalidate", !.sid = s, !.proc = p, !.all = all])
      BY DEF Idle
    <3> QED
      BY <1>1, <2>3, <3>1 DEF ThenInvalidate
  <2> QED
    BY <1>6, <2>1, <2>2, <2>3, RevokeForms DEF Authenticate
<1> QED
  BY <1>3, <1>4, <1>5, <1>6 DEF Next

\* Every reachable state of AuthSessions is well typed.
THEOREM TypeCorrect == Spec => []TypeOK
BY TypeInit, TypeStep, PlacedStep, PTL DEF Spec

-----------------------------------------------------------------------------
(* Revocation.                                                                 *)

\* A request is bound to a session only by recording a login or by presenting a
\* token; what ended is revoked; who checked a session that then ended is excused;
\* nothing is stamped later than now; only ended sessions are cleared.
Unbound == \A r \in Requests : req[r].at \in {"loaded", "record"} => req[r].sid = NoSession

EndedRevoked == \A s \in Sessions : ended[s] # Never <=> sessions[s] = "revoked"

Excuses ==
    \A r \in Requests : \A s \in Sessions :
        HoldsChecked(r, {s}) /\ ended[s] # Never => r \in excused

Stamps == /\ \A s \in Sessions : ended[s] <= now
          /\ \A p \in Procs, s \in SessionIds : cache[p][s] <= now

ClearedEnded ==
    \A p \in Procs, s \in Sessions : <<p, s>> \in cleared => ended[s] # Never

RevocationInv == /\ Unbound /\ EndedRevoked /\ Excuses /\ Stamps /\ ClearedEnded
                 /\ StaleAtMostTtl /\ ForgottenWhereRevoked

LEMMA RevocationInit == Init => RevocationInv
<1> SUFFICES ASSUME Init PROVE RevocationInv
  OBVIOUS
<1>1. /\ now = 0 /\ sessions = [s \in Sessions |-> "unborn"] /\ cleared = {}
      /\ cache = [p \in Procs |-> [s \in SessionIds |-> Never]]
      /\ req = [r \in Requests |-> Idle] /\ ended = [s \in Sessions |-> Never]
  BY DEF Init
<1> QED
  BY <1>1
  DEF RevocationInv, Unbound, EndedRevoked, Excuses, Stamps, ClearedEnded,
      StaleAtMostTtl, ForgottenWhereRevoked, Idle, HoldsChecked, Never, SessionIds

\* A step of one request that leaves the sessions, the caches and what is known of
\* them alone: it is enough that it holds no check it did not make.
LEMMA QuietStep ==
    ASSUME TypeOK, RevocationInv, NEW r \in Requests, NEW w \in Request,
           req' = [req EXCEPT ![r] = w],
           UNCHANGED <<now, sessions, cache, ended, cleared, tainted>>,
           excused' = excused \/ (excused' = excused \ {r} /\ w = Idle),
           w.at \in {"loaded", "record"} => w.sid = NoSession,
           w.at \in {"issue", "rotate", "cache"} =>
              \/ w.sid \notin Sessions \/ ended[w.sid] = Never
              \/ HoldsChecked(r, {w.sid})
    PROVE  RevocationInv'
<1>1. req'[r] = w /\ \A q \in Requests \ {r} : req'[q] = req[q]
  BY DEF TypeOK
<1>2. Unbound'
  BY <1>1 DEF RevocationInv, Unbound
<1>3. Excuses'
  <2> SUFFICES ASSUME NEW q \in Requests, NEW s \in Sessions,
                      HoldsChecked(q, {s})', ended[s] # Never
               PROVE  q \in excused'
    BY DEF Excuses
  <2>1. CASE q # r
    BY <2>1, <1>1 DEF HoldsChecked, RevocationInv, Excuses
  <2>2. CASE q = r
    <3>1. w.at \in {"issue", "rotate", "cache"} /\ w.sid = s
      BY <2>2, <1>1 DEF HoldsChecked
    <3>2. w # Idle
      BY <3>1 DEF Idle
    <3> QED
      BY <2>2, <3>1, <3>2 DEF RevocationInv, Excuses
  <2> QED
    BY <2>1, <2>2
<1>4. EndedRevoked' /\ Stamps' /\ ClearedEnded' /\ StaleAtMostTtl' /\ ForgottenWhereRevoked'
  BY DEF RevocationInv, EndedRevoked, Stamps, ClearedEnded, StaleAtMostTtl,
         ForgottenWhereRevoked
<1> QED
  BY <1>2, <1>3, <1>4 DEF RevocationInv

\* The entry a request writes for an ended session taints it.
LEMMA CacheSetStep ==
    ASSUME TypeOK, Placed, RevocationInv, NEW r \in Requests, CacheSet(r)
    PROVE  RevocationInv'
<1> DEFINE s == req[r].sid
           p == req[r].proc
<1>1. /\ req' = [req EXCEPT ![r] = Idle] /\ excused' = excused \ {r}
      /\ req[r].at = "cache" /\ p \in Procs /\ s \in SessionIds
      /\ cache' = [cache EXCEPT ![p][s] = now]
      /\ tainted' = IF r \in excused THEN tainted \cup {s} ELSE tainted
      /\ UNCHANGED <<now, sessions, ended, cleared>>
  BY DEF CacheSet, Done, TypeOK, Request, Placed
<1>2. req'[r] = Idle /\ \A q \in Requests \ {r} : req'[q] = req[q]
  BY <1>1 DEF TypeOK
<1> HIDE DEF s, p
<1>3. \A q \in Procs, x \in SessionIds :
        cache'[q][x] = IF q = p /\ x = s THEN now ELSE cache[q][x]
  BY <1>1 DEF TypeOK
<1>4. s \in Sessions /\ ended[s] # Never => s \in tainted'
  <2>1. s \in Sessions /\ ended[s] # Never => r \in excused
    BY <1>1 DEF RevocationInv, Excuses, HoldsChecked, s
  <2> QED
    BY <2>1, <1>1
<1>5. Unbound' /\ Excuses'
  BY <1>1, <1>2 DEF RevocationInv, Unbound, Excuses, HoldsChecked, Idle
<1>6. EndedRevoked' /\ ClearedEnded'
  BY <1>1 DEF RevocationInv, EndedRevoked, ClearedEnded
<1>7. Stamps'
  BY <1>1, <1>3 DEF RevocationInv, Stamps, TypeOK
<1>8. tainted \subseteq tainted' /\ Sessions \subseteq SessionIds
  BY <1>1 DEF SessionIds
<1>9. StaleAtMostTtl'
  BY <1>1, <1>3, <1>4, <1>8 DEF RevocationInv, StaleAtMostTtl
<1>10. ForgottenWhereRevoked'
  BY <1>1, <1>3, <1>4, <1>8 DEF RevocationInv, ForgottenWhereRevoked, ClearedEnded
<1> QED
  BY <1>5, <1>6, <1>7, <1>9, <1>10 DEF RevocationInv

LEMMA InvalidateStep ==
    ASSUME TypeOK, Placed, RevocationInv, NEW r \in Requests, Invalidate(r)
    PROVE  RevocationInv'
<1> DEFINE p == req[r].proc
           S == IF req[r].all THEN SessionIds ELSE {req[r].sid}
<1>1. /\ req' = [req EXCEPT ![r] = Idle] /\ excused' = excused \ {r} /\ p \in Procs
      /\ cache' = [cache EXCEPT ![p] = [s \in SessionIds |-> IF s \in S THEN Never ELSE @[s]]]
      /\ cleared' = cleared \cup {<<p, s>> : s \in {x \in S \cap Sessions : ended[x] # Never}}
      /\ UNCHANGED <<now, sessions, ended, tainted>>
  BY DEF Invalidate, Done, Placed
<1>2. req'[r] = Idle /\ \A q \in Requests \ {r} : req'[q] = req[q]
  BY <1>1 DEF TypeOK
<1> HIDE DEF p, S
<1>3. \A q \in Procs, s \in SessionIds :
        cache'[q][s] = IF q = p /\ s \in S THEN Never ELSE cache[q][s]
  BY <1>1 DEF TypeOK
<1>4. \A q \in Procs, s \in Sessions :
        <<q, s>> \in cleared' => <<q, s>> \in cleared \/ (q = p /\ s \in S /\ ended[s] # Never)
  BY <1>1
<1>5. Unbound' /\ Excuses'
  BY <1>1, <1>2 DEF RevocationInv, Unbound, Excuses, HoldsChecked, Idle
<1>6. EndedRevoked' /\ ClearedEnded'
  BY <1>1, <1>4 DEF RevocationInv, EndedRevoked, ClearedEnded
<1>7. Stamps'
  BY <1>1, <1>3 DEF RevocationInv, Stamps, TypeOK, Never
<1>8. Sessions \subseteq SessionIds /\ \A s \in Sessions : ended[s] \in Nat \cup {Never}
  BY DEF SessionIds, TypeOK
<1>9. StaleAtMostTtl'
  BY <1>1, <1>3, <1>8 DEF RevocationInv, StaleAtMostTtl, Never
<1>10. ForgottenWhereRevoked'
  BY <1>1, <1>3, <1>4, <1>8 DEF RevocationInv, ForgottenWhereRevoked
<1> QED
  BY <1>5, <1>6, <1>7, <1>9, <1>10 DEF RevocationInv

\* Who holds a check of a session that is revoked is excused from now on.
LEMMA RevokingStep ==
    ASSUME TypeOK, Placed, RevocationInv, NEW r \in Requests, NEW p \in Procs,
           NEW S \in SUBSET Sessions, NEW bound \in BOOLEAN, Revoking(r, p, S, bound),
           NEW x \in SessionIds, NEW all \in BOOLEAN, ThenInvalidate(r, p, x, all)
    PROVE  RevocationInv'
<1> DEFINE w == [Idle EXCEPT !.at = "invalidate", !.sid = x, !.proc = p, !.all = all]
<1>1. /\ req' = [req EXCEPT ![r] = w]
      /\ sessions' = [s \in Sessions |-> IF s \in S THEN "revoked" ELSE sessions[s]]
      /\ ended' = [s \in Sessions |-> IF s \in S /\ ended[s] = Never THEN now ELSE ended[s]]
      /\ excused' = excused \cup {q \in Requests : HoldsChecked(q, S)}
      /\ UNCHANGED <<now, cache, cleared, tainted>>
  BY DEF Revoking, ThenInvalidate
<1>2. /\ req'[r] = w /\ w.at = "invalidate" /\ \A q \in Requests \ {r} : req'[q] = req[q]
  BY <1>1 DEF TypeOK, Idle
<1> HIDE DEF w
<1>3. \A s \in Sessions : ended'[s] # Never <=> s \in S \/ ended[s] # Never
  BY <1>1 DEF TypeOK, Never
<1>4. Unbound'
  BY <1>2 DEF RevocationInv, Unbound
<1>5. Excuses'
  <2> SUFFICES ASSUME NEW q \in Requests, NEW s \in Sessions,
                      HoldsChecked(q, {s})', ended'[s] # Never
               PROVE  q \in excused'
    BY DEF Excuses
  <2>1. q # r /\ HoldsChecked(q, {s})
    BY <1>2 DEF HoldsChecked
  <2>2. CASE s \in S
    BY <2>1, <2>2, <1>1 DEF HoldsChecked
  <2>3. CASE s \notin S
    BY <2>1, <2>3, <1>1, <1>3 DEF RevocationInv, Excuses
  <2> QED
    BY <2>2, <2>3
<1>6. EndedRevoked'
  BY <1>1, <1>3 DEF RevocationInv, EndedRevoked
<1>7. ClearedEnded'
  BY <1>1, <1>3 DEF RevocationInv, ClearedEnded
<1>8. \A s \in Sessions : \/ ended'[s] = now /\ ended[s] = Never
                          \/ ended'[s] = ended[s]
  BY <1>1
<1>9. Stamps' /\ StaleAtMostTtl'
  BY <1>1, <1>8 DEF RevocationInv, Stamps, StaleAtMostTtl, TypeOK, SessionIds
<1>10. ForgottenWhereRevoked'
  BY <1>1 DEF RevocationInv, ForgottenWhereRevoked
<1> QED
  BY <1>4, <1>5, <1>6, <1>7, <1>9, <1>10 DEF RevocationInv

LEMMA RevocationStep == TypeOK /\ Placed /\ RevocationInv /\ [Next]_vars => RevocationInv'
<1> SUFFICES ASSUME TypeOK, Placed, RevocationInv, [Next]_vars PROVE RevocationInv'
  OBVIOUS
<1>1. CASE Tick \/ UNCHANGED vars
  <2>1. /\ UNCHANGED <<sessions, cache, req, ended, excused, cleared, tainted>>
        /\ now' = now \/ now' = now + 1
    BY <1>1 DEF Tick, vars, signed, history
  <2>2. Stamps'
    <3>1. /\ now \in Nat /\ now <= now'
          /\ \A s \in Sessions : ended[s] \in Nat \cup {Never} /\ ended[s] <= now
          /\ \A p \in Procs, s \in SessionIds :
                cache[p][s] \in Nat \cup {Never} /\ cache[p][s] <= now
      BY <2>1 DEF RevocationInv, Stamps, TypeOK
    <3>2. /\ \A s \in Sessions : ended[s] <= now'
          /\ \A p \in Procs, s \in SessionIds : cache[p][s] <= now'
      BY <2>1, <3>1 DEF Never
    <3> QED
      BY <2>1, <3>2 DEF Stamps
  <2> QED
    BY <2>1, <2>2
    DEF RevocationInv, Unbound, EndedRevoked, Excuses, HoldsChecked, ClearedEnded,
        StaleAtMostTtl, ForgottenWhereRevoked
<1>2. ASSUME NEW r \in Requests, Credentials(r) PROVE RevocationInv'
  <2>1. req[r] \in Request /\ user \in Row
    BY DEF TypeOK
  <2>2. UNCHANGED <<now, sessions, cache, ended, cleared, tainted>>
    BY <1>2, CredentialsStep
  <2>3. CASE /\ req' = [req EXCEPT ![r] = [Idle EXCEPT !.at = "loaded", !.row = user]]
             /\ excused' = excused
    <3>1. [Idle EXCEPT !.at = "loaded", !.row = user] \in Request
      BY <2>1, ReqTypes
    <3>2. /\ [Idle EXCEPT !.at = "loaded", !.row = user].at = "loaded"
          /\ [Idle EXCEPT !.at = "loaded", !.row = user].sid = NoSession
      BY DEF Idle
    <3> QED
      BY <2>2, <2>3, <3>1, <3>2, QuietStep
  <2>4. ASSUME NEW phase \in {"record", "issue"}, req[r].at = "loaded", excused' = excused,
               req' = [req EXCEPT ![r] = [req[r] EXCEPT !.at = phase]]
        PROVE  RevocationInv'
    <3>1. [req[r] EXCEPT !.at = phase] \in Request
      BY <2>1, ReqTypes
    <3>2. req[r].sid = NoSession /\ NoSession \notin Sessions
      BY <2>4, ConstantsAssumption DEF RevocationInv, Unbound
    <3>3. /\ [req[r] EXCEPT !.at = phase].at = phase
          /\ [req[r] EXCEPT !.at = phase].sid = NoSession
      BY <2>1, <3>2 DEF Request
    <3> QED
      BY <2>2, <2>4, <3>1, <3>2, <3>3, QuietStep
  <2>5. CASE req' = [req EXCEPT ![r] = Idle] /\ excused' = excused \ {r}
    BY <2>2, <2>5, RowTypes, QuietStep DEF Idle
  <2> QED
    BY <1>2, <2>3, <2>4, <2>5, CredentialsStep
<1>3. ASSUME NEW r \in Requests, NEW s \in Sessions, RecordLogin(r, s) PROVE RevocationInv'
  <2> DEFINE w == [req[r] EXCEPT !.at = "issue", !.sid = s]
  <2>1. /\ req' = [req EXCEPT ![r] = w] /\ sessions[s] = "unborn"
        /\ sessions' = [sessions EXCEPT ![s] = "live"]
        /\ UNCHANGED <<now, cache, ended, excused, cleared, tainted>>
    BY <1>3 DEF RecordLogin, history
  <2>2. w.at = "issue" /\ w.sid = s
    BY DEF TypeOK, Request
  <2> HIDE DEF w
  <2>3. req'[r] = w /\ \A q \in Requests \ {r} : req'[q] = req[q]
    BY <2>1 DEF TypeOK
  <2>4. ended[s] = Never
    BY <2>1 DEF RevocationInv, EndedRevoked
  <2>5. EndedRevoked'
    BY <2>1, <2>4 DEF RevocationInv, EndedRevoked, TypeOK
  <2>6. Unbound' /\ Excuses'
    BY <2>1, <2>2, <2>3, <2>4 DEF RevocationInv, Unbound, Excuses, HoldsChecked
  <2> QED
    BY <2>1, <2>5, <2>6
    DEF RevocationInv, Stamps, ClearedEnded, StaleAtMostTtl, ForgottenWhereRevoked
<1>4. ASSUME NEW r \in Requests, NEW t \in Tokens, IssueToken(r, t) \/ Rotate(r, t)
      PROVE  RevocationInv'
  <2>1. /\ req' = [req EXCEPT ![r] = Idle] /\ excused' = excused \ {r}
        /\ UNCHANGED <<now, sessions, cache, ended, cleared, tainted>>
    BY <1>4 DEF IssueToken, Rotate, Done
  <2> QED
    BY <2>1, RowTypes, QuietStep DEF Idle
<1>5. ASSUME NEW r \in Requests, NEW t \in Tokens, Present(r, t) PROVE RevocationInv'
  <2> DEFINE w == [Idle EXCEPT !.at = "check", !.tok = t, !.sid = tokens[t].session]
  <2>1. /\ req' = [req EXCEPT ![r] = w]
        /\ UNCHANGED <<now, sessions, cache, ended, excused, cleared, tainted>>
    BY <1>5 DEF Present, signed, history
  <2>2. tokens[t].session \in SessionIds
    BY DEF TypeOK
  <2>3. w \in Request /\ w.at = "check"
    BY <2>2, ReqTypes DEF Idle
  <2> HIDE DEF w
  <2> QED
    BY <2>1, <2>3, QuietStep
<1>6. ASSUME NEW r \in Requests, CheckSession(r) PROVE RevocationInv'
  <2>1. UNCHANGED <<now, sessions, cache, ended, cleared, tainted>>
    BY <1>6 DEF CheckSession
  <2>2. CASE req' = [req EXCEPT ![r] = Idle] /\ excused' = excused \ {r}
    BY <2>1, <2>2, RowTypes, QuietStep DEF Idle
  <2>3. CASE /\ req' = [req EXCEPT ![r] = [req[r] EXCEPT !.at = "rotate"]]
             /\ excused' = excused /\ Live(req[r].sid)
    <3>1. [req[r] EXCEPT !.at = "rotate"] \in Request
      BY ReqTypes DEF TypeOK
    <3>2. /\ [req[r] EXCEPT !.at = "rotate"].at = "rotate"
          /\ [req[r] EXCEPT !.at = "rotate"].sid = req[r].sid
      BY DEF TypeOK, Request
    <3>3. req[r].sid \notin Sessions \/ ended[req[r].sid] = Never
      BY <2>3, ConstantsAssumption DEF Live, Ids, RevocationInv, EndedRevoked
    <3> QED
      BY <2>1, <2>3, <3>1, <3>2, <3>3, QuietStep
  <2> QED
    BY <1>6, <2>2, <2>3 DEF CheckSession, Goto, Done
<1>7. ASSUME NEW r \in Requests, NEW p \in Procs, NEW s \in SessionIds, Validate(r, p, s)
      PROVE  RevocationInv'
  <2> DEFINE w == [Idle EXCEPT !.at = "cache", !.sid = s, !.proc = p]
  <2>1. /\ req' = [req EXCEPT ![r] = w] /\ Live(s)
        /\ UNCHANGED <<now, sessions, cache, ended, excused, cleared, tainted>>
    BY <1>7 DEF Validate, signed, history
  <2>2. w \in Request /\ w.at = "cache" /\ w.sid = s
    BY ReqTypes DEF Idle
  <2>3. s \notin Sessions \/ ended[s] = Never
    BY <2>1, ConstantsAssumption DEF Live, Ids, RevocationInv, EndedRevoked
  <2> HIDE DEF w
  <2> QED
    BY <2>1, <2>2, <2>3, QuietStep
<1> QED
  BY <1>1, <1>2, <1>3, <1>4, <1>5, <1>6, <1>7, CacheSetStep, InvalidateStep, RevokingStep,
     RevokeForms
  DEF Next, Refresh, Authenticate

LEMMA RevocationAlways == Spec => [](TypeOK /\ Placed /\ RevocationInv)
BY TypeInit, TypeStep, PlacedStep, RevocationInit, RevocationStep, PTL DEF Spec

\* The process that completed a revocation no longer answers from its cache.
THEOREM ForgottenHolds == Spec => []ForgottenWhereRevoked
<1>1. RevocationInv => ForgottenWhereRevoked
  BY DEF RevocationInv
<1> QED
  BY <1>1, RevocationAlways, PTL

\* No cache entry of a session is younger than its revocation.
THEOREM StaleAtMostTtlHolds == Spec => []StaleAtMostTtl
<1>1. RevocationInv => StaleAtMostTtl
  BY DEF RevocationInv
<1> QED
  BY <1>1, RevocationAlways, PTL

\* A step that makes a token of an ended session valid, or stamps an entry of it, is
\* the last step of an excused request.
LEMMA RevivalStep ==
    ASSUME TypeOK, Placed, RevocationInv, [Next]_vars,
           NEW s \in Sessions, ended[s] # Never,
           \A r \in excused : req[r].at = "idle" \/ req'[r].at # "idle"
    PROVE  /\ LiveTokens(s)' \subseteq LiveTokens(s)
           /\ \A p \in Procs : cache'[p][s] \in {cache[p][s], Never}
<1> DEFINE Held == /\ LiveTokens(s)' \subseteq LiveTokens(s)
                   /\ \A p \in Procs : cache'[p][s] \in {cache[p][s], Never}
<1> SUFFICES Held
  OBVIOUS
<1> HIDE DEF Held
<1>1. ASSUME UNCHANGED <<tokens, cache>> PROVE Held
  BY <1>1 DEF Held, LiveTokens
<1>2. ASSUME NEW r \in Requests, req[r].at \in {"issue", "rotate", "cache"},
             req' = [req EXCEPT ![r] = Idle]
      PROVE  req[r].sid # s
  <2>1. req[r].at # "idle" /\ req'[r].at = "idle"
    BY <1>2 DEF TypeOK, Idle
  <2> QED
    BY <1>2, <2>1 DEF RevocationInv, Excuses, HoldsChecked
<1>3. s \in SessionIds
  BY DEF SessionIds
<1>4. CASE Tick \/ UNCHANGED vars
  BY <1>1, <1>4 DEF Tick, vars, signed
<1>5. ASSUME NEW r \in Requests, Credentials(r) PROVE Held
  BY <1>1, <1>5, CredentialsStep
<1>6. ASSUME NEW r \in Requests, NEW t \in Tokens, IssueToken(r, t) \/ Rotate(r, t)
      PROVE  Held
  <2>1. req[r].sid # s
    BY <1>2, <1>6 DEF IssueToken, Rotate, Done
  <2>2. \A x \in Tokens : \/ tokens'[x].session = req[r].sid
                          \/ tokens'[x].st = "revoked"
                          \/ tokens'[x] = tokens[x]
    BY <1>6 DEF IssueToken, Rotate, NewToken, TypeOK
  <2> QED
    BY <1>6, <2>1, <2>2 DEF IssueToken, Rotate, LiveTokens, Held
<1>7. ASSUME NEW r \in Requests, NEW t \in Tokens, NEW x \in Sessions,
             Present(r, t) \/ RecordLogin(r, x)
      PROVE  Held
  BY <1>1, <1>7 DEF Present, RecordLogin, signed
<1>8. ASSUME NEW r \in Requests, CheckSession(r) PROVE Held
  <2>1. \A x \in Tokens : tokens'[x].st = "revoked" \/ tokens'[x] = tokens[x]
    BY <1>8 DEF CheckSession, TypeOK
  <2> QED
    BY <1>8, <2>1 DEF CheckSession, LiveTokens, Held
<1>9. ASSUME NEW r \in Requests, CacheSet(r) PROVE Held
  <2>1. req[r].sid # s
    BY <1>2, <1>9 DEF CacheSet, Done
  <2>2. \A p \in Procs : cache'[p][s] = cache[p][s]
    BY <1>3, <1>9, <2>1 DEF CacheSet, TypeOK
  <2> QED
    BY <1>9, <2>2 DEF CacheSet, LiveTokens, Held
<1>10. ASSUME NEW r \in Requests, Invalidate(r) PROVE Held
  <2>1. \A p \in Procs : cache'[p][s] \in {cache[p][s], Never}
    BY <1>3, <1>10 DEF Invalidate, TypeOK
  <2> QED
    BY <1>10, <2>1 DEF Invalidate, LiveTokens, Held
<1>11. ASSUME NEW r \in Requests, NEW p \in Procs, NEW x \in SessionIds, Validate(r, p, x)
       PROVE  Held
  BY <1>1, <1>11 DEF Validate, signed
<1>12. ASSUME NEW r \in Requests, NEW p \in Procs, NEW S \in SUBSET Sessions,
              NEW bound \in BOOLEAN, Revoking(r, p, S, bound)
       PROVE  Held
  <2>1. \A x \in Tokens : tokens'[x].st = "revoked" \/ tokens'[x] = tokens[x]
    BY <1>12 DEF Revoking, TypeOK
  <2> QED
    BY <1>12, <2>1 DEF Revoking, LiveTokens, Held
<1>13. ASSUME NEW r \in Requests, NEW p \in Procs,
              RevokeAll(r, p) \/ \E x \in Sessions : Logout(r, p, x) \/ RevokeAuthSession(r, p, x)
       PROVE  Held
  BY <1>12, <1>13, RevokeForms
<1>14. ASSUME NEW r \in Requests, Refresh(r) PROVE Held
  <2>1. ASSUME NEW t \in Tokens, Present(r, t) PROVE Held
    BY <1>1, <2>1 DEF Present, signed
  <2>2. ASSUME NEW x \in Sessions, RecordLogin(r, x) PROVE Held
    BY <1>1, <2>2 DEF RecordLogin
  <2> QED
    BY <1>6, <1>8, <1>14, <2>1, <2>2 DEF Refresh
<1> QED
  BY <1>4, <1>5, <1>9, <1>10, <1>11, <1>13, <1>14 DEF Next, Authenticate

\* Nothing begun after a revocation brings the session back, in any cache or token.
THEOREM RevocationHoldsAlways == Spec => RevocationHolds
<1>1. TypeOK /\ Placed /\ RevocationInv /\ [Next]_vars =>
        [\A s \in Sessions : ended[s] # Never =>
          \/ \E r \in excused : req[r].at # "idle" /\ req'[r].at = "idle"
          \/ /\ LiveTokens(s)' \subseteq LiveTokens(s)
             /\ \A p \in Procs : cache'[p][s] \in {cache[p][s], Never}]_vars
  <2> SUFFICES ASSUME TypeOK, Placed, RevocationInv, [Next]_vars,
                      NEW s \in Sessions, ended[s] # Never,
                      ~\E r \in excused : req[r].at # "idle" /\ req'[r].at = "idle"
               PROVE  /\ LiveTokens(s)' \subseteq LiveTokens(s)
                      /\ \A p \in Procs : cache'[p][s] \in {cache[p][s], Never}
    OBVIOUS
  <2> QED
    BY RevivalStep
<1> QED
  BY <1>1, RevocationAlways, PTL DEF Spec, RevocationHolds

-----------------------------------------------------------------------------
(* One valid token per session.                                                *)

\* A token names a recorded session; a session about to get its first token has
\* none, and one request issues it; a refresh presents a token of its session; and
\* only an exchange of a token that was no longer valid leaves two.
OfRecorded ==
    \A t \in Tokens : \A s \in Sessions :
        tokens[t].st # "unborn" /\ tokens[t].session = s => sessions[s] # "unborn"

Issuing(r, s) == req[r].at = "issue" /\ req[r].sid = s

FirstToken ==
    \A r \in Requests : \A s \in Sessions : Issuing(r, s) =>
        /\ sessions[s] # "unborn"
        /\ \A t \in Tokens : tokens[t].st # "unborn" => tokens[t].session # s
        /\ \A q \in Requests \ {r} : ~Issuing(q, s)

Presented ==
    \A r \in Requests : req[r].at \in {"check", "rotate"} =>
        /\ req[r].tok \in Tokens
        /\ tokens[req[r].tok].st # "unborn" /\ tokens[req[r].tok].session = req[r].sid

Unique ==
    \A s \in Sessions \ forked : \A t, x \in LiveTokens(s) : t = x

TokenInv == Unbound /\ OfRecorded /\ FirstToken /\ Presented /\ Unique

LEMMA TokenInit == Init => TokenInv
<1> SUFFICES ASSUME Init PROVE TokenInv
  OBVIOUS
<1>1. /\ tokens = [t \in Tokens |-> [st |-> "unborn", session |-> NoSession]]
      /\ req = [r \in Requests |-> Idle]
  BY DEF Init
<1> QED
  BY <1>1
  DEF TokenInv, Unbound, OfRecorded, FirstToken, Presented, Unique, LiveTokens, Issuing, Idle

\* Tokens are only revoked, and the request does not come to issue one.
LEMMA TokenFrame ==
    ASSUME TypeOK, TokenInv, NEW r \in Requests, NEW w \in Request,
           req' = [req EXCEPT ![r] = w], UNCHANGED forked,
           \A t \in Tokens : /\ tokens'[t].session = tokens[t].session
                             /\ \/ tokens'[t].st = tokens[t].st
                                \/ tokens'[t].st = "revoked" /\ tokens[t].st = "live",
           \A s \in Sessions : sessions[s] # "unborn" => sessions'[s] # "unborn",
           w.at \in {"loaded", "record"} => w.sid = NoSession,
           w.at = "issue" => w.sid \notin Sessions,
           w.at \in {"check", "rotate"} =>
              /\ w.tok \in Tokens
              /\ tokens[w.tok].st # "unborn" /\ tokens[w.tok].session = w.sid
    PROVE  TokenInv'
<1>1. req'[r] = w /\ \A q \in Requests \ {r} : req'[q] = req[q]
  BY DEF TypeOK
<1>2. \A t \in Tokens : tokens'[t].st # "unborn" <=> tokens[t].st # "unborn"
  OBVIOUS
<1>3. \A s \in Sessions : LiveTokens(s)' \subseteq LiveTokens(s)
  BY DEF LiveTokens
<1>4. \A q \in Requests, s \in Sessions : Issuing(q, s)' => q # r /\ Issuing(q, s)
  BY <1>1 DEF Issuing
<1>5. Unbound' /\ OfRecorded' /\ Unique'
  BY <1>1, <1>2, <1>3 DEF TokenInv, Unbound, OfRecorded, Unique
<1>6. FirstToken'
  BY <1>2, <1>4 DEF TokenInv, FirstToken
<1>7. Presented'
  <2> SUFFICES ASSUME NEW q \in Requests, req'[q].at \in {"check", "rotate"}
               PROVE  /\ req'[q].tok \in Tokens
                      /\ tokens'[req'[q].tok].st # "unborn"
                      /\ tokens'[req'[q].tok].session = req'[q].sid
    BY DEF Presented
  <2>1. CASE q = r
    BY <2>1, <1>1, <1>2
  <2>2. CASE q # r
    BY <2>2, <1>1, <1>2 DEF TokenInv, Presented
  <2> QED
    BY <2>1, <2>2
<1> QED
  BY <1>5, <1>6, <1>7 DEF TokenInv

LEMMA RecordStep ==
    ASSUME TypeOK, TokenInv, NEW r \in Requests, NEW s \in Sessions, RecordLogin(r, s)
    PROVE  TokenInv'
<1> DEFINE w == [req[r] EXCEPT !.at = "issue", !.sid = s]
<1>1. /\ req' = [req EXCEPT ![r] = w] /\ sessions[s] = "unborn"
      /\ sessions' = [sessions EXCEPT ![s] = "live"] /\ UNCHANGED <<tokens, forked>>
  BY DEF RecordLogin, history
<1>2. w.at = "issue" /\ w.sid = s
  BY DEF TypeOK, Request
<1> HIDE DEF w
<1>3. req'[r] = w /\ \A q \in Requests \ {r} : req'[q] = req[q]
  BY <1>1 DEF TypeOK
<1>4. /\ \A t \in Tokens : tokens[t].st # "unborn" => tokens[t].session # s
      /\ \A q \in Requests : ~Issuing(q, s)
  BY <1>1 DEF TokenInv, OfRecorded, FirstToken
<1>5. \A x \in Sessions : sessions'[x] = IF x = s THEN "live" ELSE sessions[x]
  BY <1>1 DEF TypeOK
<1>6. \A q \in Requests, x \in Sessions :
        Issuing(q, x)' <=> (q = r /\ x = s) \/ (q # r /\ Issuing(q, x))
  BY <1>2, <1>3 DEF Issuing
<1>7. FirstToken'
  BY <1>1, <1>4, <1>5, <1>6 DEF TokenInv, FirstToken
<1>8. Unbound' /\ Presented'
  BY <1>1, <1>2, <1>3 DEF TokenInv, Unbound, Presented
<1>9. OfRecorded' /\ Unique'
  BY <1>1, <1>5 DEF TokenInv, OfRecorded, Unique, LiveTokens
<1> QED
  BY <1>7, <1>8, <1>9 DEF TokenInv

LEMMA IssueStep ==
    ASSUME TypeOK, TokenInv, NEW r \in Requests, NEW t \in Tokens, IssueToken(r, t)
    PROVE  TokenInv'
<1> DEFINE sid == req[r].sid
<1>1. /\ req' = [req EXCEPT ![r] = Idle] /\ req[r].at = "issue" /\ tokens[t].st = "unborn"
      /\ tokens' = [tokens EXCEPT ![t] = [st |-> "live", session |-> sid]]
      /\ UNCHANGED <<sessions, forked>>
  BY DEF IssueToken, Done, NewToken
<1> HIDE DEF sid
<1>2. req'[r] = Idle /\ \A q \in Requests \ {r} : req'[q] = req[q]
  BY <1>1 DEF TypeOK
<1>3. /\ tokens'[t].st = "live" /\ tokens'[t].session = sid
      /\ \A x \in Tokens \ {t} : tokens'[x] = tokens[x]
  BY <1>1 DEF TypeOK
<1>4. sid \in Sessions =>
        /\ sessions[sid] # "unborn"
        /\ \A x \in Tokens : tokens[x].st # "unborn" => tokens[x].session # sid
        /\ \A q \in Requests \ {r} : ~Issuing(q, sid)
  BY <1>1 DEF TokenInv, FirstToken, Issuing, sid
<1>5. \A q \in Requests, x \in Sessions : Issuing(q, x)' => q # r /\ Issuing(q, x)
  BY <1>2 DEF Issuing, Idle
<1>6. FirstToken'
  BY <1>1, <1>3, <1>4, <1>5 DEF TokenInv, FirstToken
<1>7. Unbound' /\ Presented'
  BY <1>1, <1>2, <1>3 DEF TokenInv, Unbound, Presented, Idle
<1>8. OfRecorded'
  BY <1>1, <1>3, <1>4 DEF TokenInv, OfRecorded
<1>9. Unique'
  <2> SUFFICES ASSUME NEW s \in Sessions \ forked, NEW x \in LiveTokens(s)',
                      NEW y \in LiveTokens(s)'
               PROVE  x = y
    BY <1>1 DEF Unique
  <2>1. CASE s = sid
    BY <2>1, <1>3, <1>4 DEF LiveTokens
  <2>2. CASE s # sid
    BY <2>2, <1>3 DEF TokenInv, Unique, LiveTokens
  <2> QED
    BY <2>1, <2>2
<1> QED
  BY <1>6, <1>7, <1>8, <1>9 DEF TokenInv

LEMMA RotateStep ==
    ASSUME TypeOK, TokenInv, NEW r \in Requests, NEW t \in Tokens, Rotate(r, t)
    PROVE  TokenInv'
<1> DEFINE sid == req[r].sid
           tok == req[r].tok
<1>1. /\ req' = [req EXCEPT ![r] = Idle] /\ req[r].at = "rotate" /\ tokens[t].st = "unborn"
      /\ tokens' = [[tokens EXCEPT ![t] = [st |-> "live", session |-> sid]]
                       EXCEPT ![tok].st = "revoked"]
      /\ forked' = IF tokens[tok].st = "live" THEN forked ELSE forked \cup {sid}
      /\ UNCHANGED sessions
  BY DEF Rotate, Done, NewToken, Exchanged
<1>2. tok \in Tokens /\ tokens[tok].st # "unborn" /\ tokens[tok].session = sid
  BY <1>1 DEF TokenInv, Presented
<1> HIDE DEF sid, tok
<1>3. req'[r] = Idle /\ \A q \in Requests \ {r} : req'[q] = req[q]
  BY <1>1 DEF TypeOK
<1>4. /\ tok # t /\ tokens'[t].st = "live" /\ tokens'[t].session = sid
      /\ tokens'[tok].st = "revoked" /\ tokens'[tok].session = sid
      /\ \A x \in Tokens \ {t, tok} : tokens'[x] = tokens[x]
  BY <1>1, <1>2 DEF TypeOK
<1>5. sid \in Sessions => sessions[sid] # "unborn" /\ \A q \in Requests : ~Issuing(q, sid)
  BY <1>2 DEF TokenInv, OfRecorded, FirstToken
<1>6. \A q \in Requests, x \in Sessions : Issuing(q, x)' => q # r /\ Issuing(q, x)
  BY <1>3 DEF Issuing, Idle
<1>7. FirstToken'
  <2> SUFFICES ASSUME NEW q \in Requests, NEW x \in Sessions, Issuing(q, x)'
               PROVE  /\ sessions[x] # "unborn"
                      /\ \A y \in Tokens : tokens'[y].st # "unborn" => tokens'[y].session # x
                      /\ \A z \in Requests \ {q} : ~Issuing(z, x)'
    BY <1>1 DEF FirstToken
  <2>1. Issuing(q, x) /\ x # sid
    BY <1>5, <1>6
  <2>2. \A y \in Tokens : tokens'[y].session = sid \/ tokens'[y] = tokens[y]
    BY <1>4
  <2> QED
    BY <2>1, <2>2, <1>6 DEF TokenInv, FirstToken
<1>8. Presented'
  <2> SUFFICES ASSUME NEW q \in Requests, req'[q].at \in {"check", "rotate"}
               PROVE  /\ req'[q].tok \in Tokens
                      /\ tokens'[req'[q].tok].st # "unborn"
                      /\ tokens'[req'[q].tok].session = req'[q].sid
    BY DEF Presented
  <2>1. q # r /\ req'[q] = req[q]
    BY <1>3 DEF Idle
  <2>2. /\ req[q].tok \in Tokens /\ req[q].tok # t
        /\ tokens[req[q].tok].st # "unborn" /\ tokens[req[q].tok].session = req[q].sid
    BY <2>1, <1>1 DEF TokenInv, Presented
  <2>3. tokens'[req[q].tok].st # "unborn" /\ tokens'[req[q].tok].session = req[q].sid
    BY <2>2, <1>2, <1>4
  <2> QED
    BY <2>1, <2>2, <2>3
<1>11. Unbound'
  BY <1>3 DEF TokenInv, Unbound, Idle
<1>9. OfRecorded'
  BY <1>1, <1>2, <1>4, <1>5 DEF TokenInv, OfRecorded
<1>10. Unique'
  <2> SUFFICES ASSUME NEW s \in Sessions \ forked', NEW x \in LiveTokens(s)',
                      NEW y \in LiveTokens(s)'
               PROVE  x = y
    BY DEF Unique
  <2>1. CASE s = sid
    <3>1. tok \in LiveTokens(s) /\ s \notin forked
      BY <2>1, <1>1, <1>2 DEF LiveTokens
    <3>2. x \in LiveTokens(s) \cup {t} /\ y \in LiveTokens(s) \cup {t} /\ x # tok /\ y # tok
      BY <1>4 DEF LiveTokens
    <3> QED
      BY <3>1, <3>2 DEF TokenInv, Unique
  <2>2. CASE s # sid
    <3>1. s \notin forked /\ x \in LiveTokens(s) /\ y \in LiveTokens(s)
      BY <2>2, <1>1, <1>4 DEF LiveTokens
    <3> QED
      BY <3>1 DEF TokenInv, Unique
  <2> QED
    BY <2>1, <2>2
<1> QED
  BY <1>7, <1>8, <1>9, <1>10, <1>11 DEF TokenInv

LEMMA TokenStep == TypeOK /\ TokenInv /\ [Next]_vars => TokenInv'
<1> SUFFICES ASSUME TypeOK, TokenInv, [Next]_vars PROVE TokenInv'
  OBVIOUS
<1>1. CASE Tick \/ UNCHANGED vars
  <2>1. UNCHANGED <<sessions, tokens, req, forked>>
    BY <1>1 DEF Tick, vars, signed, history
  <2> QED
    BY <2>1
    DEF TokenInv, Unbound, OfRecorded, FirstToken, Issuing, Presented, Unique, LiveTokens
<1>2. ASSUME NEW r \in Requests, Credentials(r) PROVE TokenInv'
  <2>1. req[r] \in Request /\ user \in Row
    BY DEF TypeOK
  <2>2. UNCHANGED <<sessions, tokens, forked>>
    BY <1>2, CredentialsStep
  <2>3. CASE req' = [req EXCEPT ![r] = [Idle EXCEPT !.at = "loaded", !.row = user]]
    <3>1. [Idle EXCEPT !.at = "loaded", !.row = user] \in Request
      BY <2>1, ReqTypes
    <3>2. /\ [Idle EXCEPT !.at = "loaded", !.row = user].at = "loaded"
          /\ [Idle EXCEPT !.at = "loaded", !.row = user].sid = NoSession
      BY DEF Idle
    <3> QED
      BY <2>2, <2>3, <3>1, <3>2, TokenFrame
  <2>4. ASSUME NEW phase \in {"record", "issue"}, req[r].at = "loaded",
               req' = [req EXCEPT ![r] = [req[r] EXCEPT !.at = phase]]
        PROVE  TokenInv'
    <3>1. [req[r] EXCEPT !.at = phase] \in Request
      BY <2>1, ReqTypes
    <3>2. req[r].sid = NoSession /\ NoSession \notin Sessions
      BY <2>4, ConstantsAssumption DEF TokenInv, Unbound
    <3>3. /\ [req[r] EXCEPT !.at = phase].at = phase
          /\ [req[r] EXCEPT !.at = phase].sid = NoSession
      BY <2>1, <3>2 DEF Request
    <3> QED
      BY <2>2, <2>4, <3>1, <3>2, <3>3, TokenFrame
  <2>5. CASE req' = [req EXCEPT ![r] = Idle]
    BY <2>2, <2>5, RowTypes, TokenFrame DEF Idle
  <2> QED
    BY <1>2, <2>3, <2>4, <2>5, CredentialsStep
<1>3. ASSUME NEW r \in Requests, NEW t \in Tokens, Present(r, t) PROVE TokenInv'
  <2> DEFINE w == [Idle EXCEPT !.at = "check", !.tok = t, !.sid = tokens[t].session]
  <2>1. /\ req' = [req EXCEPT ![r] = w] /\ tokens[t].st = "live"
        /\ UNCHANGED <<sessions, tokens, forked>>
    BY <1>3 DEF Present, signed, history
  <2>2. tokens[t].session \in SessionIds
    BY DEF TypeOK
  <2>3. w \in Request /\ w.at = "check" /\ w.tok = t /\ w.sid = tokens[t].session
    BY <2>2, ReqTypes DEF Idle
  <2> HIDE DEF w
  <2> QED
    BY <2>1, <2>3, TokenFrame
<1>4. ASSUME NEW r \in Requests, CheckSession(r) PROVE TokenInv'
  <2>1. /\ req[r].tok \in Tokens /\ req[r].at = "check" /\ req[r] \in Request
        /\ tokens[req[r].tok].st # "unborn" /\ tokens[req[r].tok].session = req[r].sid
    BY <1>4 DEF CheckSession, TokenInv, Presented, TypeOK
  <2>2. UNCHANGED <<sessions, forked>>
    BY <1>4 DEF CheckSession
  <2>3. CASE req' = [req EXCEPT ![r] = [req[r] EXCEPT !.at = "rotate"]] /\ UNCHANGED tokens
    <3> DEFINE w == [req[r] EXCEPT !.at = "rotate"]
    <3>1. w \in Request /\ w.at = "rotate" /\ w.tok = req[r].tok /\ w.sid = req[r].sid
      <4>1. w \in Request
        BY <2>1, ReqTypes
      <4>2. w.at = "rotate" /\ w.tok = req[r].tok /\ w.sid = req[r].sid
        BY <2>1 DEF Request
      <4> QED
        BY <4>1, <4>2
    <3>2. req' = [req EXCEPT ![r] = w]
      BY <2>3
    <3> HIDE DEF w
    <3> QED
      BY <2>1, <2>2, <2>3, <3>1, <3>2, TokenFrame
  <2>4. CASE /\ req' = [req EXCEPT ![r] = Idle]
             /\ tokens' = [tokens EXCEPT ![req[r].tok].st = "revoked"]
    <3>1. \A t \in Tokens : /\ tokens'[t].session = tokens[t].session
                            /\ \/ tokens'[t].st = tokens[t].st
                               \/ tokens'[t].st = "revoked" /\ tokens[t].st = "live"
      BY <2>1, <2>4 DEF TypeOK
    <3> QED
      BY <2>2, <2>4, <3>1, RowTypes, TokenFrame DEF Idle
  <2> QED
    BY <1>4, <2>3, <2>4 DEF CheckSession, Goto, Done
<1>5. ASSUME NEW r \in Requests, CacheSet(r) \/ Invalidate(r) PROVE TokenInv'
  <2>1. req' = [req EXCEPT ![r] = Idle] /\ UNCHANGED <<sessions, tokens, forked>>
    BY <1>5 DEF CacheSet, Invalidate, Done
  <2> QED
    BY <2>1, RowTypes, TokenFrame DEF Idle
<1>6. ASSUME NEW r \in Requests, NEW p \in Procs, NEW s \in SessionIds, Validate(r, p, s)
      PROVE  TokenInv'
  <2> DEFINE w == [Idle EXCEPT !.at = "cache", !.sid = s, !.proc = p]
  <2>1. req' = [req EXCEPT ![r] = w] /\ UNCHANGED <<sessions, tokens, forked>>
    BY <1>6 DEF Validate, signed, history
  <2>2. w \in Request /\ w.at = "cache"
    BY ReqTypes DEF Idle
  <2> HIDE DEF w
  <2> QED
    BY <2>1, <2>2, TokenFrame
<1>7. ASSUME NEW r \in Requests, NEW p \in Procs, NEW S \in SUBSET Sessions,
             NEW bound \in BOOLEAN, Revoking(r, p, S, bound),
             NEW x \in SessionIds, NEW all \in BOOLEAN, ThenInvalidate(r, p, x, all)
      PROVE  TokenInv'
  <2> DEFINE w == [Idle EXCEPT !.at = "invalidate", !.sid = x, !.proc = p, !.all = all]
  <2>1. req' = [req EXCEPT ![r] = w] /\ UNCHANGED forked
    BY <1>7 DEF Revoking, ThenInvalidate
  <2>2. w \in Request /\ w.at = "invalidate"
    BY ReqTypes DEF Idle
  <2>3. \A t \in Tokens : /\ tokens'[t].session = tokens[t].session
                          /\ \/ tokens'[t].st = tokens[t].st
                             \/ tokens'[t].st = "revoked" /\ tokens[t].st = "live"
    BY <1>7 DEF Revoking, TypeOK
  <2>4. \A s \in Sessions : sessions[s] # "unborn" => sessions'[s] # "unborn"
    BY <1>7 DEF Revoking
  <2> HIDE DEF w
  <2> QED
    BY <2>1, <2>2, <2>3, <2>4, TokenFrame
<1> QED
  BY <1>1, <1>2, <1>3, <1>4, <1>5, <1>6, <1>7, RecordStep, IssueStep, RotateStep, RevokeForms
  DEF Next, Refresh, Authenticate

LEMMA AtMostOne ==
    ASSUME NEW S, \A t, x \in S : t = x
    PROVE  Cardinality(S) <= 1
<1>1. CASE S = {}
  BY <1>1, FS_EmptySet
<1>2. CASE S # {}
  <2>1. PICK t : S = {t}
    BY <1>2
  <2>2. Cardinality({t}) = 1
    BY FS_Singleton
  <2> QED
    BY <2>1, <2>2
<1> QED
  BY <1>1, <1>2

\* A session has one valid refresh token, unless one was exchanged twice.
THEOREM OneLiveTokenHolds == Spec => []OneLiveToken
<1>1. TokenInv => OneLiveToken
  BY AtMostOne DEF TokenInv, Unique, OneLiveToken
<1> QED
  BY <1>1, TypeCorrect, TokenInit, TokenStep, PTL DEF Spec
=============================================================================
