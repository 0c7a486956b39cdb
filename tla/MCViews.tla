------------------------------- MODULE MCViews -------------------------------
EXTENDS Views

MCLadder == <<2, 5, 10>>

\* Idle; a load on L1 and L2; a larger one on L1, L2 and L3; export.
MCKinds == {[import |-> 4, export |-> 0, amps |-> <<10, 10, 10>>],
            [import |-> 40, export |-> 0, amps |-> <<100, 80, 10>>],
            [import |-> 0, export |-> 30, amps |-> <<10, 10, 90>>]}

\* A small history limit, where the graph has fewer rows than the costs, and a large one.
MCRowLimits == {[summary |-> 1, top |-> 1, graph |-> 2, cost |-> 3], [summary |-> 1, top |-> 2, graph |-> 4, cost |-> 3]}

MCGaps == {NoTime, -2, 2, 3, 4}

MCCommands == {<<"W">>, <<"M">>}
MCSecret   == (<<"W">> :> 3) @@ (<<"M">> :> 5)
=============================================================================
