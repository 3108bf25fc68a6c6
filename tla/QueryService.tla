---------------------------- MODULE QueryService ----------------------------
(***************************************************************************)
(* What the pipeline of services/query_orchestrator.py promises to the     *)
(* routes and the scheduler that call it, without caches, retries or       *)
(* sessions: a request that was made ends, with one reply or none, and a   *)
(* statement it is given was generated for its question, on its own        *)
(* connection, by this request or another one.                             *)
(***************************************************************************)
CONSTANTS
    Requests, Questions, Connections,
    NoStatement         \* the reply of a request that is given none

VARIABLES
    asked,     \* question and connection of each request
    phase,     \* where each request is
    reply,     \* what a replied request was given
    known      \* statements at hand, with what they were generated for

vars == <<asked, phase, reply, known>>

Init ==
    /\ asked \in [Requests -> Questions \X Connections]
    /\ phase = [r \in Requests |-> "new"]
    /\ reply = [r \in Requests |-> NoStatement]
    /\ known = {}

Enter(r, from, to) == phase[r] = from /\ phase' = [phase EXCEPT ![r] = to]

\* Statements may be forgotten at any time.
Forget == known' \subseteq known

Open(r) == Enter(r, "new", "open") /\ Forget /\ UNCHANGED <<asked, reply>>

\* A statement is generated for an open request, on its connection.
Generate(r) ==
    /\ phase[r] = "open"
    /\ \A k \in known' \ known : k[1] = asked[r] /\ k[2].connection = asked[r][2]
    /\ UNCHANGED <<asked, phase, reply>>

\* The reply is a statement at hand for the same question and connection.
Reply(r) ==
    /\ Enter(r, "open", "replied")
    /\ \E s \in {NoStatement} \cup {k[2] : k \in {x \in known : x[1] = asked[r]}} :
          reply' = [reply EXCEPT ![r] = s]
    /\ Forget
    /\ UNCHANGED asked

Fail(r) == Enter(r, "open", "failed") /\ Forget /\ UNCHANGED <<asked, reply>>

Next ==
    \/ \E r \in Requests : Open(r) \/ Generate(r) \/ Reply(r) \/ Fail(r)
    \/ Forget /\ UNCHANGED <<asked, phase, reply>>

Spec == Init /\ [][Next]_vars

\* A request that was made does not stay open.
Ends == \A r \in Requests : phase[r] = "open" ~> phase[r] # "open"

LiveSpec == Spec /\ Ends
=============================================================================
