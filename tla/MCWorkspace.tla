---------------------------- MODULE MCWorkspace ----------------------------
(* The instance of Workspace.  Its runs start from a new account, or from one with a
   dashboard of two widgets. *)
EXTENDS Workspace, TLC

Symmetric == Permutations(Requests)

Furnished ==
    /\ rows = [i \in Ids |->
                 CASE i = 1 -> New("dashboard", 1, NoText)
                   [] i \in {2, 3} -> [New("widget", 0, NoText) EXCEPT !.of = 1, !.num = i - 2]
                   [] OTHER -> Unborn]
    /\ lists = [l \in Checklists |-> [st |-> TRUE, done |-> {}]]
    /\ req = [r \in Requests |-> Idle]
    /\ created = [d \in Seeded |-> [k \in 1..SeedSize |-> 0]]
    /\ disturbed = {}
    /\ count = 0

MCSpec == (WorkspaceInit \/ Furnished) /\ [][WorkspaceNext]_workspaceVars
=============================================================================
