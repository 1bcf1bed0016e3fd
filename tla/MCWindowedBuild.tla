--------------------------- MODULE MCWindowedBuild ---------------------------
(* WindowedBuild on small selections; the bounds are in the cfg files.      *)
EXTENDS WindowedBuild, TLC

\* source_fact_id values "fact_001", "fact_002", ... of a video.
CONSTANTS f1, f2, f3

MCOneFact == {f1}
MCFact == {f1, f2}
MCThreeFacts == {f1, f2, f3}

\* Facts are interchangeable; only the run without liveness uses it.
MCSymmetry == Permutations(MCFact)

=============================================================================
