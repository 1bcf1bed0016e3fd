----------------------------- MODULE Apportion ------------------------------
(***************************************************************************)
(* Largest remainders, which the dataset tools use three times over:       *)
(* proportional_quotas of src/tools/select_vidhalloc_2600.py,              *)
(* proportional_allocations of build_vidhalloc_budget500_selection.py and  *)
(* target_totals of build_vidhalloc_release.py.  Quotas are fractions over *)
(* the sum of the weights, compared by their numerators.                   *)
(***************************************************************************)
EXTENDS Sums, FiniteSets

\* The keys whose quota lost more to the rounding than that of k; "rank"
\* settles ties.
Ahead(weights, total, rank, k) ==
    LET lost(j) == (total * weights[j]) % Total(weights)
    IN  {j \in DOMAIN weights :
            \/ lost(j) > lost(k)
            \/ lost(j) = lost(k) /\ rank[j] < rank[k]}

\* Every key gets its quota rounded down, the first of the ranking one more
\* until nothing is left.
LargestRemainder(weights, total, rank) ==
    LET floors == [k \in DOMAIN weights |->
                     (total * weights[k]) \div Total(weights)]
        remaining == total - Total(floors)
    IN  [k \in DOMAIN weights |->
            IF Cardinality(Ahead(weights, total, rank, k)) < remaining
              THEN floors[k] + 1 ELSE floors[k]]

=============================================================================
