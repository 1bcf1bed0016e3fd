---------------------------- MODULE MCJsonlStore ----------------------------
(* JsonlStore with two build processes, one of them with two workers.      *)
EXTENDS JsonlStore, TLC

CONSTANTS t1, t2, t3, p1, p2, a, b, c

MCThread == {t1, t2, t3}
MCProcess == {p1, p2}
MCProcessOf == (t1 :> p1) @@ (t2 :> p1) @@ (t3 :> p2)
MCIdentity == {a, b, c}

\* Identities are interchangeable, and so are the workers of p1.  Only runs
\* without liveness use it.
MCSymmetry == Permutations(MCIdentity) \cup Permutations({t1, t2})

=============================================================================
