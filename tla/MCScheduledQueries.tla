------------------------- MODULE MCScheduledQueries -------------------------
(* Instances of ScheduledQueries for TLC: the symmetry of its model values. *)
EXTENDS ScheduledQueries, TLC

Symmetric == Permutations(Procs) \cup Permutations(Requests) \cup Permutations(Schedules)
=============================================================================
