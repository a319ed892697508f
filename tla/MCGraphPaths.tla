---------------------------- MODULE MCGraphPaths ----------------------------
(* A street of three nodes with a detour and a short cut, and what is asked. *)
EXTENDS GraphPaths, TLC

E(type, cost) == [type |-> type, cost |-> cost]
At(origin, type) == [origin |-> origin, type |-> type, removed |-> FALSE]

\* The file of an earlier level: from 1 to 4 by 2, by 3 or by both.
Street == [nodes |-> <<At(0, {}), At(1, {}), At(2, {}), At(3, {})>>,
           edges |-> <<1, 2>> :> E({}, 1) @@ <<1, 3>> :> E({}, 5)
                  @@ <<2, 3>> :> E({}, 1) @@ <<2, 4>> :> E({}, 4) @@ <<3, 4>> :> E({}, 1),
           edgeCount |-> 5]

\* Two stations that cost nothing to travel between, far beyond the goal.
Stations == [nodes |-> <<At(0, {}), At(9, {}), At(3, {})>>,
             edges |-> <<1, 2>> :> E({}, 0) @@ <<2, 3>> :> E({}, 1) @@ <<1, 3>> :> E({}, 3),
             edgeCount |-> 3]

Ask(start, goal, skip, nodeMask, edgeMask) ==
    [start |-> start, goal |-> goal, skip |-> skip, skipless |-> skip = {},
     nodeMask |-> nodeMask, edgeMask |-> edgeMask,
     budget |-> 0, ceiling |-> 0, weight |-> 1]

MCOrigins == {0, 3}
MCTypes == {{}, {"water"}}
MCCosts == {0}
MCFiles == {Street, Stations}
MCQueries ==
    {Ask(1, 4, {}, {}, {}), Ask(1, 4, {3}, {}, {}), Ask(1, 4, {}, {"water"}, {"water"}),
     [Ask(1, 4, {}, {}, {}) EXCEPT !.weight = 2],
     [Ask(1, 4, {}, {}, {}) EXCEPT !.budget = 2],
     Ask(2, 4, {}, {"water"}, {"water"}), Ask(2, 2, {}, {}, {}), Ask(1, 3, {}, {}, {})}
=============================================================================
