--------------------------- MODULE MCFactPipeline ---------------------------
(* FactPipeline with a polar leaf and one whose source values are fewer    *)
(* than its replacements, as for the camera predicate.                     *)
EXTENDS FactPipeline, TLC

CONSTANTS existence, camera, x, y

MCSourceValue == (existence :> {x, y}) @@ (camera :> {y})
MCInterval == {<<1, 2>>, <<2, 1>>}

=============================================================================
