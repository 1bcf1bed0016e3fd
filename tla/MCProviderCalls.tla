-------------------------- MODULE MCProviderCalls --------------------------
(* Constants of ProviderCalls for TLC. *)
EXTENDS ProviderCalls, TLC

CONSTANTS t1, t2, t3

MCTwoCallers == {t1, t2}
MCThreeCallers == {t1, t2, t3}

MCSymmetry == Permutations({t1, t2, t3})

=============================================================================
