-------------------------- MODULE MCSchemaCatalog --------------------------
(* The instance of SchemaCatalog.  Its runs start from an empty catalog, or from
   one a sync has filled and indexed. *)
EXTENDS SchemaCatalog, TLC

CONSTANTS a, b, v, u, w, x

\* The columns u are those of v with a comment.
MCShape == (v :> "v") @@ (u :> "v") @@ (w :> "w")

Plain(c) == [cols |-> c, about |-> NoText]
Described == [cols |-> w, about |-> x]
MCContents == {Plain(v), Plain(u), Described}

Symmetric == Permutations(Requests) \cup Permutations({u, v})

\* Only one of the tables changes and is uploaded; the other is there or not.
Bound ==
    /\ live[b] \in {Absent, Described}
    /\ \A r \in Requests :
          req[r].schema[b] \in IF req[r].op = "sync" THEN {Absent, Described} ELSE {Absent}

Reflected(S) == [t \in Tables |-> IF S[t] = Absent THEN NoRow
                                  ELSE [NoRow EXCEPT !.id = MaxRequests + 1, !.cols = S[t].cols,
                                                     !.about = S[t].about, !.new = TRUE]]

Synced ==
    /\ live \in Schemas
    /\ rows = Reflected(live)
    /\ header = [st |-> TRUE, hash |-> Hash(live)]
    /\ index = Chunks(rows)
    /\ req = [r \in Requests |-> Idle]
    /\ deleted = FALSE /\ checks = 0
    /\ said = [t \in Tables |-> NoText]
    /\ raced = FALSE /\ dirty = FALSE /\ unseen = {} /\ ghost = FALSE
    /\ count = 0 /\ edits = 0

MCSpec == (Init \/ Synced) /\ [][Next]_vars
=============================================================================
