-------------------------------- MODULE Sums --------------------------------
(***************************************************************************)
(* Finite sums of integers.                                                *)
(***************************************************************************)
EXTENDS Integers, Functions

\* The sum of the values of a function.
Total(f) == FoldFunction(LAMBDA x, y : x + y, 0, f)

\* The sum of value(x) over the members x of a set.
SumOf(set, value(_)) == Total([x \in set |-> value(x)])

=============================================================================
