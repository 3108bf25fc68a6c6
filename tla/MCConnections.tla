--------------------------- MODULE MCConnections ---------------------------
(* The instance of Connections.  Its runs start from a new account, or from one
   with two connections of its own, the active one open in one process.  *)
EXTENDS Connections, TLC

Symmetric == Permutations(Procs) \cup Permutations(Requests) \cup Permutations(Dsns)

Kept(d, active) == [st |-> "row", dsn |-> d, active |-> active, server |-> FALSE]

Settled ==
    \E d \in Dsns, e \in Dsns, p \in Procs :
        /\ d # e
        /\ rows = [c \in Ids |-> CASE c = 1 -> [Kept(NoDsn, FALSE) EXCEPT !.server = TRUE]
                                   [] c = 2 -> Kept(d, TRUE)
                                   [] c = 3 -> Kept(e, FALSE)
                                   [] OTHER -> Unborn]
        /\ made = 1
        /\ cache = [q \in Procs |-> IF q = p THEN {[id |-> 1, row |-> 2, dsn |-> d]} ELSE {}]
        /\ disposed = {} /\ req = [r \in Requests |-> Free]
        /\ skewed = FALSE /\ lost = {} /\ behind = {} /\ count = 0

MCSpec == (ConnInit \/ Settled) /\ [][ConnNext]_connVars
=============================================================================
