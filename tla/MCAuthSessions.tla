--------------------------- MODULE MCAuthSessions ---------------------------
(* The instance of AuthSessions: the symmetry of its model values. *)
EXTENDS AuthSessions, TLC

Symmetric == Permutations(Sessions) \cup Permutations(Tokens) \cup Permutations(Requests)
             \cup Permutations(Passwords) \cup Permutations(Procs)
=============================================================================
