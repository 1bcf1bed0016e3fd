---------------------------- MODULE ReviewedPairs ----------------------------
(***************************************************************************)
(* What the four-stage pipeline promises about a pair it publishes,        *)
(* whatever its stages and gates look like: somebody has read the video    *)
(* and found the fact supported, somebody has then read it again and       *)
(* approved the pair, and no pair id is used twice.  Facts and approvals   *)
(* may be forgotten at any time; what is published stays.  FactPipeline is *)
(* shown to implement this specification.                                  *)
(***************************************************************************)
CONSTANT Number       \* the fact numbers

VARIABLES supported,   \* the facts an agent has found supported by the video
          approved,    \* the facts whose pair an agent has approved
          published    \* the pair ids of the public file

Init == supported = {} /\ approved = {} /\ published = {}

Reflect(f) ==
    /\ supported' = supported \cup {f}
    /\ UNCHANGED <<approved, published>>

Approve(f) ==
    /\ f \in supported
    /\ approved' = approved \cup {f}
    /\ UNCHANGED <<supported, published>>

Publish(f) ==
    /\ f \in approved
    /\ f \notin published
    /\ published' = published \cup {f}
    /\ UNCHANGED supported
    /\ approved' = approved \ {f}

Forget ==
    /\ supported' \subseteq supported
    /\ approved' \subseteq approved \cap supported'
    /\ UNCHANGED published

Next ==
    \/ \E f \in Number : Reflect(f) \/ Approve(f) \/ Publish(f)
    \/ Forget

Spec == Init /\ [][Next]_<<supported, approved, published>>

=============================================================================
