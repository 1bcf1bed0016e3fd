---------------------------- MODULE MCMediaLease ----------------------------
(* Constants of MediaLease for TLC. *)
EXTENDS MediaLease

CONSTANTS c1, c2, c3

MCThreeClients == {c1, c2, c3}

=============================================================================
