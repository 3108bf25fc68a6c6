----------------------------- MODULE MCGrounding -----------------------------
(* The instance of Grounding: a table that references another, statements that
   read them, and two long ones with one beginning. *)
EXTENDS Grounding, TLC

CONSTANTS orders, customers, long, longer

MCRefs == (orders :> {customers}) @@ (customers :> {})
MCTableOf == [s \in Sqls |-> orders]
MCBeginning == [s \in Sqls |-> long]
\* The index changes and there is nothing to learn from, or there is feedback and
\* the index of shared chunks stays: neither is read together with the other.
Apart ==
    /\ Init /\ faults = 0
    /\ \/ writes = 0 /\ reports = MaxReports
       \/ writes = MaxWrites /\ reports = 0 /\ index = [owner : {Shared}, table : Tables]

MCSpec == Apart /\ [][Next]_vars

Symmetric == Permutations(Conns) \cup Permutations(Procs)
=============================================================================
