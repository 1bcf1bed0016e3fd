-------------------------- MODULE DatasetSelection --------------------------
(***************************************************************************)
(* The frozen selection of source videos and its two provisional revisions *)
(* (src/tools/select_vidhalloc_2600.py,                                    *)
(* build_vidhalloc_dynamic35_selection.py,                                 *)
(* build_vidhalloc_external_dynamic35_selection.py) and its independent    *)
(* audit (audit_vidhalloc_selection.py).                                   *)
(*                                                                         *)
(* A row is a number, its place in the order by file name; what is known   *)
(* of it is in the manifests, which are input: the content (the SHA-256)   *)
(* is shared by rows that hold the same file.  A selection gives every     *)
(* task its set of rows; the round robin of the tasks is left out.         *)
(* Rankings of camera measurements are arbitrary orders, so a prefix of    *)
(* one is any set of that size.                                            *)
(***************************************************************************)
EXTENDS Integers, FiniteSets, FiniteSetsExt, Apportion

CONSTANTS Task, Group,
          Final,       \* rows of final_manifest.csv
          External,    \* rows of the screened external sources
          TaskOf,      \* row of Final -> its task
          GroupOf,     \* row of Final -> its allocation group
          Weights,     \* FINAL_GROUP_WEIGHTS: group -> weight
          GroupOrder,  \* group -> its place in the order of the names
          Perception,  \* the group that gives way (PERCEPTION_GROUPS)
          SourceOf,    \* row of External -> its source dataset
          Halves,      \* order of TASKS: <<first, second>>
          PerTask,     \* TARGET_PER_TASK
          Replaced,    \* REPLACE_PER_TASK, REMOVE_PER_TASK
          Cuts,        \* CUTS_PER_TASK, SOURCE_CUT_TARGETS
          Manifests,   \* the inputs considered
          Missing,     \* not written yet
          Refused      \* the tool raised and wrote nothing

ASSUME SelectionAssumption ==
    /\ IsFiniteSet(Final) /\ IsFiniteSet(External) /\ IsFiniteSet(Task)
    /\ Final \cup External \subseteq Nat
    /\ Final \cap External = {}
    /\ Weights \in [Group -> Nat \ {0}]
    /\ GroupOrder \in [Group -> Nat] /\ IsInjective(GroupOrder)
    /\ Halves \in Task \X Task /\ Halves[1] # Halves[2]
    /\ {PerTask, Replaced, Cuts} \subseteq Nat
    /\ Missing \notin {"passed", "failed"}
    /\ Cuts <= Replaced /\ Replaced <= PerTask /\ Replaced % 2 = 0
    /\ \A m \in Manifests :
          /\ DOMAIN m.content = Final \cup External
          /\ m.cut \subseteq Final \cup External
          /\ m.dynamic \subseteq Final \cup External
          /\ m.inaudible \subseteq External   \* or without strong motion
          /\ DOMAIN m.parent = External
          /\ m.prior \subseteq Final

VARIABLES
    given,     \* the manifests and screens found
    base,      \* VidHalLoc.json
    dynamic,   \* VidHalLoc_dynamic35_provisional.json
    external,  \* VidHalLoc_dynamic35_external_provisional.json
    report     \* of the audit of VidHalLoc.json

selectionVars == <<given, base, dynamic, external, report>>

Written(document) == document \notin {Missing, Refused}

SelectionInit ==
    /\ given \in Manifests
    /\ base = Missing /\ dynamic = Missing /\ external = Missing
    /\ report = Missing

Contents(rows) == {given.content[v] : v \in rows}
Rows(document) == UNION {document[t] : t \in Task}

\* The rows to be had first in an arbitrary order.
Leading(rows, n) ==
    kSubset(IF n <= Cardinality(rows) THEN n ELSE Cardinality(rows), rows)

-----------------------------------------------------------------------------
(* select_vidhalloc_2600.py *)

\* Neither the row nor its content was used by an earlier round, and it is
\* the first with this content.
Eligible ==
    LET fresh == {v \in Final : /\ v \notin given.prior
                                /\ given.content[v] \notin Contents(given.prior)}
    IN  {v \in fresh : \A u \in fresh :
            given.content[u] = given.content[v] => v <= u}

\* The rows of a group, and of these the first of the order by file name.
InGroup(t, g) == {v \in Eligible : TaskOf[v] = t /\ GroupOf[v] = g}
Earliest(rows, n) ==
    {v \in rows : Cardinality({u \in rows : u < v}) < n}

\* What every written document has been checked for: the rows of each task
\* and contents that differ.
Sound(document) ==
    /\ \A t \in Task : Cardinality(document[t]) = PerTask
    /\ Cardinality(Contents(Rows(document))) = PerTask * Cardinality(Task)

Select ==
    LET quotas == LargestRemainder(Weights, PerTask, GroupOrder)
        chosen == [t \in Task |->
                     UNION {Earliest(InGroup(t, g), quotas[g]) : g \in Group}]
        enough == \A t \in Task, g \in Group :
                     Cardinality(InGroup(t, g)) >= quotas[g]
    IN  /\ base = Missing
        /\ base' = IF /\ enough
                      /\ Sound(chosen)
                      /\ Rows(chosen) \cap given.prior = {}
                      /\ Contents(Rows(chosen)) \cap Contents(given.prior) = {}
                     THEN chosen ELSE Refused
        /\ UNCHANGED <<given, dynamic, external, report>>

-----------------------------------------------------------------------------
(* build_vidhalloc_dynamic35_selection.py *)

\* Candidates of the camera screen whose row and content the selection lacks.
Addable(t) ==
    {v \in Final : /\ TaskOf[v] = t
                   /\ v \in given.dynamic
                   /\ v \notin Rows(base)
                   /\ given.content[v] \notin Contents(Rows(base))}

\* The rows that may give way, as many as are asked for.
Removals(t) == kSubset(Replaced, {v \in base[t] : GroupOf[v] = Perception})

\* The additions for a task: so many cuts, so many motions.
Additions(t) ==
    {a \in kSubset(Replaced, Addable(t)) : Cardinality(a \cap given.cut) = Cuts}

\* One choice for every task.
Pick(choice(_)) ==
    {f \in [Task -> UNION {choice(t) : t \in Task}] :
        \A t \in Task : f[t] \in choice(t)}

\* Mutation of Replace: the result is written unchecked.
ReplaceUnchecked(removed, added) ==
    [t \in Task |-> (base[t] \ removed[t]) \cup added[t]]

\* One out, one in; the result is checked before it is written.
Replace(removed, added) ==
    LET revised == [t \in Task |-> (base[t] \ removed[t]) \cup added[t]]
    IN  IF Sound(revised) THEN revised ELSE Refused

\* Cuts and motions of their own number; every addition takes the place of a
\* row of the removal pool that resembles it.
ReplaceDynamic ==
    /\ Written(base) /\ dynamic = Missing
    /\ IF \E t \in Task : Additions(t) = {} \/ Removals(t) = {}
         THEN dynamic' = Refused
         ELSE \E added \in Pick(Additions), removed \in Pick(Removals) :
                 dynamic' = Replace(removed, added)
    /\ UNCHANGED <<given, base, external, report>>

\* A replacement without a sound track, or larger than what is there.
UnfitMedia ==
    /\ Written(base) /\ dynamic = Missing
    /\ dynamic' = Refused
    /\ UNCHANGED <<given, base, external, report>>

-----------------------------------------------------------------------------
(* build_vidhalloc_external_dynamic35_selection.py *)

\* The best clip of every parent video: one with a cut where there is one.
UniqueParents(rows) ==
    LET better(u, v) == IF (u \in given.cut) = (v \in given.cut)
                          THEN u < v ELSE u \in given.cut
    IN  {v \in rows : ~ \E u \in rows : /\ given.parent[u] = given.parent[v]
                                        /\ better(u, v)}

Candidates(source) ==
    UniqueParents({v \in External : SourceOf[v] = source /\ v \in given.dynamic})
        \ given.inaudible

\* What the fallback still takes: the contents selected so far are looked
\* at, not those it takes itself.
Fallback(rows, taken) ==
    {v \in rows \ taken : given.content[v] \notin Contents(taken)}

\* One row for every content.
Deduplicated(rows) ==
    {kept \in SUBSET rows :
        /\ Contents(kept) = Contents(rows)
        /\ Cardinality(kept) = Cardinality(Contents(rows))}

\* take_stratified: cuts and motions, filled up, deduplicated, filled up.
TakeStratified(rows, total, targetCuts) ==
    LET strata == {c \cup m : c \in Leading(rows \cap given.cut, targetCuts),
                              m \in Leading(rows \ given.cut, total - targetCuts)}
        fill(taken) ==
            {taken \cup f : f \in Leading(Fallback(rows, taken),
                                           total - Cardinality(taken))}
        filled == UNION {fill(s) : s \in strata}
    IN  UNION {fill(d) : d \in UNION {Deduplicated(s) : s \in filled}}

\* The rows of every source go to the two tasks in turn, and take the place
\* of the rows that change least.
ReplaceExternal ==
    LET sources == {SourceOf[v] : v \in External}
        takes(s) == TakeStratified(Candidates(s), Replaced, Cuts)
    IN  /\ Written(base) /\ external = Missing
        /\ \E taken \in [sources -> UNION {takes(s) : s \in sources}] :
              LET all == UNION {taken[s] : s \in sources}
              IN  /\ \A s \in sources : taken[s] \in takes(s)
                  /\ IF \/ \E s \in sources : Cardinality(taken[s]) # Replaced
                        \/ \E t \in Task : Removals(t) = {}
                        \/ Cardinality({given.parent[v] : v \in all})
                              # Cardinality(all)
                       THEN external' = Refused
                       ELSE \E first \in kSubset(Replaced, all),
                               removed \in Pick(Removals) :
                              /\ \A s \in sources :
                                    Cardinality(first \cap taken[s])
                                       = (Replaced + 1) \div 2
                              /\ external' = Replace(removed, [t \in Task |->
                                    IF t = Halves[1] THEN first ELSE all \ first])
        /\ UNCHANGED <<given, base, dynamic, report>>

-----------------------------------------------------------------------------
(* audit_vidhalloc_selection.py *)

\* The selection against the manifests, read anew.
AuditSelection ==
    /\ Written(base) /\ report = Missing
    /\ report' = IF /\ Sound(base)
                    /\ Rows(base) \cap given.prior = {}
                    /\ Contents(Rows(base)) \cap Contents(given.prior) = {}
                    /\ Rows(base) \subseteq Final
                   THEN "passed" ELSE "failed"
    /\ UNCHANGED <<given, base, dynamic, external>>

SelectionNext ==
    \/ Select
    \/ ReplaceDynamic
    \/ UnfitMedia
    \/ ReplaceExternal
    \/ AuditSelection

SelectionSpec == SelectionInit /\ [][SelectionNext]_selectionVars

-----------------------------------------------------------------------------
(* Properties *)

\* Whatever the manifests hold, no content is selected twice, in the base
\* selection or through a revision; nothing of an earlier round is in the
\* base, and the audit, which reads the manifests on its own, agrees; a
\* revision puts exactly the rows of the perception group it may out, as many
\* as it puts in, and takes one clip of an external parent video.
SelectionClean ==
    /\ \A document \in {base, dynamic, external} :
          Written(document) =>
             /\ \A u, v \in Rows(document) :
                   given.content[u] = given.content[v] => u = v
             /\ \A t \in Task : Cardinality(document[t]) = PerTask
    /\ Written(base) =>
          Contents(Rows(base)) \cap Contents(given.prior) = {}
    /\ report # "failed"
    /\ \A document \in {dynamic, external} :
          Written(document) =>
             \A t \in Task :
                /\ Cardinality(base[t] \ document[t]) = Replaced
                /\ \A v \in base[t] \ document[t] : GroupOf[v] = Perception
    /\ Written(external) =>
          \A u, v \in Rows(external) \cap External :
             given.parent[u] = given.parent[v] => u = v

=============================================================================
