---------------------------- MODULE MCSchemaSync ----------------------------
(* The instance of SchemaSync. *)
EXTENDS SchemaSync

CONSTANTS p1, p2, t3

\* A startup task and a monitor in one process or in two, and two monitors.
Pairs == {{<<p1, "startup">>, <<p1, "monitor">>},
          {<<p1, "startup">>, <<p2, "monitor">>},
          {<<p1, "monitor">>, <<p2, "monitor">>}}

\* Both properties excuse every state from these on.
Unexcused == ~missed /\ ~stale

\* A third table is created only where a startup task may count two of three.
Bound ==
    /\ Unexcused
    /\ db[t3] # 0 => \E p \in Processes : pc[<<p, "startup">>] # "off"
=============================================================================
