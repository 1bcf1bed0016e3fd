--------------------------- MODULE BudgetSelection --------------------------
(***************************************************************************)
(* How the budgeted selection is drawn and put in order                    *)
(* (src/tools/build_vidhalloc_budget500_selection.py).                     *)
(*                                                                         *)
(* Of a cell of the frozen selection (task, allocation group, clear cut)   *)
(* an active part is drawn in proportion to its strata (duration quartile, *)
(* resolution tier), and of that a core.  The core, then the reserve, are  *)
(* put in an order in which every stratum is spread over the whole list:   *)
(* a run stops in the middle of the list when it has its pairs or its      *)
(* budget is spent.  Rows of one stratum are interchangeable here, only    *)
(* their number is kept.                                                   *)
(***************************************************************************)
EXTENDS Integers, FiniteSets, Apportion

CONSTANTS Stratum,
          Rank,       \* stratum -> its place in the order of stable_rank
          Available   \* the cells considered: stratum -> number of rows

ASSUME BudgetAssumption ==
    /\ IsFiniteSet(Stratum)
    /\ Rank \in [Stratum -> Nat] /\ IsInjective(Rank)
    /\ Available \subseteq [Stratum -> Nat \ {0}]

VARIABLES
    phase,   \* "draw", "core", then the list being ordered or "ordered"
    cell,    \* rows of the cell
    active,  \* drawn rows
    core,    \* those of the core
    wanted,  \* stratum -> rows of the list that is put in order
    used     \* stratum -> rows placed so far

budgetVars == <<phase, cell, active, core, wanted, used>>

None == [k \in Stratum |-> 0]

BudgetInit ==
    /\ phase = "draw"
    /\ cell \in Available
    /\ active = None /\ core = None /\ wanted = None /\ used = None

\* select_from_cell: as many rows of each stratum as proportional_allocations
\* says.
Draw(target) ==
    /\ phase = "draw"
    /\ active' = LargestRemainder(cell, target, Rank)
    /\ phase' = "core"
    /\ UNCHANGED <<cell, core, wanted, used>>

\* select_by_targets once more, on the active rows.  A stratum that gave
\* nothing is no key of the groups there.
DrawCore(target) ==
    LET present == [k \in {j \in Stratum : active[j] > 0} |-> active[k]]
        drawn == LargestRemainder(present, target, Rank)
    IN  /\ phase = "core"
        /\ core' = [k \in Stratum |->
                      IF k \in DOMAIN present THEN drawn[k] ELSE 0]
        /\ wanted' = core'
        /\ phase' = "order_core"
        /\ UNCHANGED <<cell, active, used>>

Reserve == [k \in Stratum |-> active[k] - core[k]]

\* Mutation of Deficit: the position is not looked at.
DeficitLeft(k) == wanted[k] - used[k]

\* What stratum k should have at the next position less what it has, times
\* the length of the list.
Deficit(k) == (Total(used) + 1) * wanted[k] - used[k] * Total(wanted)

\* smooth_task_order, one position: of the strata with rows left the one that
\* lags behind most.
Place(k) ==
    LET left == {j \in Stratum : used[j] < wanted[j]}
    IN  /\ phase \in {"order_core", "order_reserve"}
        /\ k \in left
        /\ \A j \in left : \/ Deficit(j) < Deficit(k)
                           \/ Deficit(j) = Deficit(k) /\ Rank[j] <= Rank[k]
        /\ used' = [used EXCEPT ![k] = @ + 1]
        /\ UNCHANGED <<phase, cell, active, core, wanted>>

\* The list is complete; ordered_active is the core before the reserve.
NextList ==
    /\ phase \in {"order_core", "order_reserve"}
    /\ used = wanted
    /\ IF phase = "order_core"
         THEN phase' = "order_reserve" /\ wanted' = Reserve /\ used' = None
         ELSE phase' = "ordered" /\ UNCHANGED <<wanted, used>>
    /\ UNCHANGED <<cell, active, core>>

BudgetNext ==
    \/ \E target \in 1..Total(cell) : Draw(target)
    \/ \E target \in 1..Total(active) : DrawCore(target)
    \/ \E k \in Stratum : Place(k)
    \/ NextList

BudgetSpec == BudgetInit /\ [][BudgetNext]_budgetVars

-----------------------------------------------------------------------------
(* Properties *)

\* No stratum is asked for more rows than it has, not even the second time,
\* and wherever a run stops in the ordered list, no stratum is represented by
\* a row more than its share of the list.
Representative ==
    /\ \A k \in Stratum : core[k] <= active[k] /\ active[k] <= cell[k]
    /\ \A k \in Stratum :
          used[k] > 0 => (used[k] - 1) * Total(wanted) < Total(used) * wanted[k]

=============================================================================
