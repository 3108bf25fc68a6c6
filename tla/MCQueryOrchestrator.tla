------------------------- MODULE MCQueryOrchestrator -------------------------
(* Instances of QueryOrchestrator for TLC: workloads, each a set of requests  *)
(* that differ in what its run is about, and the symmetry of the slots.       *)
EXTENDS QueryOrchestrator, TLC

Symmetric == Permutations(Requests)

\* Requests without a session: two connections, executed or not, streamed or not.
Isolated == [question : Questions, dialect : Dialects, connection : Connections,
             execute : BOOLEAN, stream : BOOLEAN, correction : {FALSE},
             session : {NoSession}]

\* Without a session, executed requests of run and others of run_stream; in a
\* session, refining questions and forced corrections of plain ones.
Talk == {q \in [question : Questions, dialect : Dialects, connection : Connections,
                execute : BOOLEAN, stream : BOOLEAN, correction : BOOLEAN,
                session : Sessions \cup {NoSession}] :
           IF q.session = NoSession
             THEN q.execute # q.stream /\ ~q.correction /\ q.question \notin FollowUps
             ELSE ~q.execute /\ ~q.stream /\ q.question \notin Smalltalk
                  /\ (q.correction <=> q.question \notin FollowUps)}

\* The requests all have a session, one of them asking a follow-up after a turn,
\* or none has; of two that mirror each other by an exchange of the slots, one is
\* enough.
TalkInit ==
    LET main == req[CHOOSE r \in Requests : TRUE]
    IN  /\ Init
        /\ IF main.session = NoSession
             THEN /\ \A r \in Requests : /\ req[r].session = NoSession
                                         /\ main.stream => req[r].stream
                  /\ main.question \notin Smalltalk
                  /\ turns = [s \in Sessions |-> 0]
             ELSE /\ main.question \in FollowUps \ Vague
                  /\ turns = [s \in Sessions |-> PastTurns]
                  /\ \A r \in Requests : req[r].session # NoSession

TalkSpec == /\ TalkInit /\ [][Next]_vars
            /\ (\A r \in Requests : WF_vars(Step(r))) /\ WF_vars(Write)
=============================================================================
