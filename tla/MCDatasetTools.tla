--------------------------- MODULE MCDatasetTools ---------------------------
(* The four dataset tools.  They are started by hand, one after another,   *)
(* and share no state while they run: a behaviour is one of one tool, the  *)
(* others wait at their start.                                             *)
EXTENDS DatasetSelection, BudgetSelection, DatasetRelease, ReadableIds, TLC

VARIABLE tool   \* the tool whose behaviour it is

MCFinal == 1..10
MCExternal == 11..16
MCTaskOf == [v \in 1..10 |-> IF v <= 5 THEN "captioning" ELSE "qa"]
MCGroupOf == [v \in 1..10 |-> IF v % 5 \in {1, 2, 3} THEN "perception" ELSE "origin"]
MCWeights == [perception |-> 3, origin |-> 2]
MCGroupOrder == [perception |-> 2, origin |-> 1]
MCSourceOf == [v \in 11..16 |-> IF v <= 13 THEN "UCF101" ELSE "UCF101-DS"]
MCHalves == <<"captioning", "qa">>
MCManifests ==
    LET same(a, b) == [v \in 1..16 |-> IF v = b THEN a ELSE v]
        twice(a, b, c, d) == [v \in 1..16 |-> same(a, b)[same(c, d)[v]]]
    IN  {[content |-> twice(p[1], p[2], q[1], q[2]), cut |-> c,
          dynamic |-> d, inaudible |-> i, parent |-> r, prior |-> o] :
            p \in {<<1, 1>>, <<1, 2>>, <<3, 5>>, <<3, 10>>, <<4, 8>>, <<1, 11>>},
            q \in {<<11, 11>>, <<11, 12>>, <<12, 13>>, <<13, 14>>, <<15, 16>>},
            c \in {{5, 10, 11, 14}, {3, 8, 12}},
            d \in {1..16, 1..15},
            i \in {{}, {11}},
            r \in {[v \in 11..16 |-> v], [v \in 11..16 |-> IF v = 14 THEN 13 ELSE v]},
            o \in {{}, {1}, {3, 5}}}

MCRank == [a |-> 2, b |-> 1, c |-> 3]
MCAvailable == [{"a", "b", "c"} -> 1..3]

MCLeaf == {"entity", "action"}
MCTaskOfVideo == [v \in {"v1", "v2", "v3", "v4", "v5"} |->
                    IF v = "v5" THEN "qa" ELSE "captioning"]
MCLinkOrder == [v1 |-> 1, v2 |-> 2, v3 |-> 3, v4 |-> 4, v5 |-> 5]
MCBuilds ==
    LET leaves(e, a) == [entity |-> e, action |-> a]
        videos == DOMAIN MCTaskOfVideo
        own == [v \in videos |-> v]
        two == [v1 |-> leaves(1, 0), v2 |-> leaves(0, 1), v3 |-> leaves(1, 1),
                v4 |-> leaves(1, 0), v5 |-> leaves(0, 1)]
        finished == [pairs |-> two, digest |-> own, name |-> own,
                     lost |-> {}, complete |-> TRUE]
    IN  {[pairs |-> p, digest |-> d, name |-> own, lost |-> l, complete |-> c] :
            p \in {two, [two EXCEPT !.v4 = leaves(2, 0)],
                   [two EXCEPT !.v4 = leaves(2, 1)]},
            d \in {own, [own EXCEPT !.v2 = "v1"], [own EXCEPT !.v5 = "v3"]},
            l \in {{}, {"v2"}}, c \in BOOLEAN}
        \cup {[finished EXCEPT !.name = n] :
                n \in {[own EXCEPT !.v2 = "v1"], [own EXCEPT !.v5 = "v3"],
                       [own EXCEPT !.v2 = "v1", !.v4 = "v1"],
                       [own EXCEPT !.v2 = "v1", !.v4 = "v3"]}}

\* All inputs for the tool of the behaviour, one for the others.
Inputs(t, set) == IF tool = t THEN set ELSE {CHOOSE x \in set : TRUE}

ToolInit ==
    /\ tool \in {"selection", "budget", "release", "ids"}
    /\ given \in Inputs("selection", Manifests) /\ SelectionInit
    /\ cell \in Inputs("budget", Available) /\ BudgetInit
    /\ build \in Inputs("release", Builds) /\ ReleaseInit
    /\ IdsInit

ToolNext ==
    /\ tool' = tool
    /\ \/ /\ tool = "selection" /\ SelectionNext
          /\ UNCHANGED <<budgetVars, releaseVars, idsVars>>
       \/ /\ tool = "budget" /\ BudgetNext
          /\ UNCHANGED <<selectionVars, releaseVars, idsVars>>
       \/ /\ tool = "release" /\ ReleaseNext
          /\ UNCHANGED <<selectionVars, budgetVars, idsVars>>
       \/ /\ tool = "ids" /\ IdsNext
          /\ UNCHANGED <<selectionVars, budgetVars, releaseVars>>

ToolSpec == ToolInit /\ [][ToolNext]_<<tool, selectionVars, budgetVars,
                                      releaseVars, idsVars>>

=============================================================================
