---------------------------- MODULE PublicOutput ----------------------------
(***************************************************************************)
(* What the public pair file promises, whoever writes it and however: it   *)
(* is a list of accepted pairs that only ever grows at its end, one pair   *)
(* at a time, never holds an identity twice and never exceeds the target   *)
(* of the build.  JsonlStore, the detailed specification, is shown to      *)
(* implement this one.                                                     *)
(***************************************************************************)
EXTENDS Naturals, Sequences, Functions

CONSTANTS Identity,    \* the pair identities (pair_id) callers may append
          MaxRecords   \* the global pair target (total_pair_limit)

VARIABLE records       \* the accepted pairs, in file order

Init == records = << >>

\* One more pair is accepted: its identity is new and there is room for it.
Accept(i) ==
    /\ i \notin Range(records)
    /\ Len(records) < MaxRecords
    /\ records' = Append(records, i)

Next == \E i \in Identity : Accept(i)

Spec == Init /\ [][Next]_records

=============================================================================
