----------------------------- MODULE MCUserData -----------------------------
(* The instance of UserData: users who start with the digest and a limited *)
(* retention.                                                              *)
EXTENDS UserData, TLC

Symmetric == Permutations(Procs) \cup Permutations(Messages)

Subscribed == Init /\ \A u \in Users : prefs[u].digest /\ retention[u] # Forever

MCSpec == Subscribed /\ [][Next]_vars
=============================================================================
