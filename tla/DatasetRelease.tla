--------------------------- MODULE DatasetRelease ---------------------------
(***************************************************************************)
(* Packaging the completed dataset (src/tools/build_vidhalloc_release.py). *)
(*                                                                         *)
(* The pairs of a task are divided 60/20/20, all pairs of a video into the *)
(* same split, and the eight leaves in the same proportions as nearly as   *)
(* an annealed search finds.  Then the files are put together in a staging *)
(* directory, which becomes the release by being renamed.  They keep their *)
(* names, one directory for each task, as hard links to the sources where  *)
(* the file system allows it: two videos of one name meet in one file, and *)
(* the second is copied through the link into the source of the first.  A  *)
(* process can die anywhere in the packaging, in the middle of a copy too; *)
(* the staging directory it leaves has to be removed by hand, and what it  *)
(* wrote into a source stays.                                              *)
(***************************************************************************)
EXTENDS Integers, FiniteSets, Apportion

CONSTANTS ReleaseTask, Leaf, Video,
          TaskOfVideo,   \* video -> its task
          LinkOrder,     \* video -> its place in the packaging
          MaxRestarts,   \* restarts of the search (80 in the code)
          Builds,        \* the completed runs considered
          TornCopies,          \* contents a copy that is cut short may leave
          Unset

ASSUME ReleaseAssumption ==
    /\ TaskOfVideo \in [Video -> ReleaseTask]
    /\ LinkOrder \in [Video -> Nat]
    /\ \A u, v \in Video : LinkOrder[u] = LinkOrder[v] => u = v
    /\ IsFiniteSet(Video) /\ IsFiniteSet(Leaf) /\ ReleaseTask # {}
    /\ MaxRestarts \in Nat \ {0}
    /\ Unset \notin Video
    /\ \A b \in Builds : /\ b.pairs \in [Video -> [Leaf -> Nat]]
                         /\ DOMAIN b.digest = Video /\ DOMAIN b.name = Video
                         /\ b.lost \subseteq Video
                         /\ b.complete \in BOOLEAN

VARIABLES
    build,       \* public items, status file, names and contents of the run
    source,      \* video -> what its source file holds now
    progress,    \* where the tool is
    task,        \* the task being split
    plan,        \* leaf targets and quotas of the task
    assignment,  \* video of the task -> split, of the search
    matrix,      \* pairs of each split and leaf, kept up with the swaps
    score,       \* distance of the matrix from the targets, kept up as well
    restart,     \* restarts finished
    best,        \* the best assignment so far with its matrix and score
    results,     \* task -> the assignment it was given
    inventory,   \* video -> its digest, of the videos packaged by this start
    staging,     \* path -> file, in the staging directory
    release      \* path -> content, in the release

searchVars == <<assignment, matrix, score, restart, best>>
planVars == <<task, plan, searchVars, results>>
packVars == <<source, inventory, staging, release>>
releaseVars == <<build, progress, planVars, packVars>>

Split == 1..3        \* Main_set, Eval_set, Test_set
Ratio == <<3, 1, 1>> \* of RATIOS, in fifths

Of(t) == {v \in Video : TaskOfVideo[v] = t}
Size(v) == Total(build.pairs[v])

ReleaseInit ==
    /\ build \in Builds
    /\ progress = "begin"
    /\ task = Unset /\ plan = Unset
    /\ assignment = Unset /\ matrix = Unset /\ score = 0
    /\ restart = 0 /\ best = Unset
    /\ results = [t \in ReleaseTask |-> Unset]
    /\ source = build.digest
    /\ inventory = Unset /\ staging = Unset /\ release = Unset

-----------------------------------------------------------------------------
(* What a task is to be divided into *)

TargetTotals(n) == LargestRemainder(Ratio, n, <<1, 2, 3>>)

\* Squared distance from the ideal shares of n, in twenty-fifths.
Distance(shares, n) ==
    SumOf(Split, LAMBDA s : (5 * shares[s] - Ratio[s] * n)
                            * (5 * shares[s] - Ratio[s] * n))

\* The candidates for a leaf with n pairs: close to the ideal.
LeafShares(n) ==
    {a \in [Split -> 0..n] :
        /\ SumOf(Split, LAMBDA s : a[s]) = n
        /\ \A s \in {1, 2} : /\ a[s] >= (Ratio[s] * n) \div 5 - 3
                             /\ a[s] <= (Ratio[s] * n + 4) \div 5 + 3
        /\ (5 * a[3] - n) \in -20..20}

Closest(set, distance(_)) ==
    {x \in set : \A y \in set : distance(x) <= distance(y)}

\* Targets for the leaves that add up to the totals, of all these the closest.
LeafTargets(t) ==
    LET n(l) == SumOf(Of(t), LAMBDA v : build.pairs[v][l])
        totals == TargetTotals(SumOf(Of(t), Size))
        exact == {f \in [Leaf -> UNION {LeafShares(n(l)) : l \in Leaf}] :
                    /\ \A l \in Leaf : f[l] \in LeafShares(n(l))
                    /\ \A s \in Split :
                          SumOf(Leaf, LAMBDA l : f[l][s]) = totals[s]}
    IN  Closest(exact, LAMBDA f : SumOf(Leaf, LAMBDA l : Distance(f[l], n(l))))

\* How many videos with one and with two pairs each split gets.
SizeQuotas(t) ==
    LET totals == TargetTotals(SumOf(Of(t), Size))
        with(k) == Cardinality({v \in Of(t) : Size(v) = k})
        exact == {q \in [1..2 -> [Split -> 0..Cardinality(Of(t))]] :
                    /\ \A k \in 1..2 : SumOf(Split, LAMBDA s : q[k][s]) = with(k)
                    /\ \A s \in Split : q[1][s] + 2 * q[2][s] = totals[s]}
    IN  Closest(exact, LAMBDA q : Distance([s \in Split |-> q[1][s] + q[2][s]],
                                           Cardinality(Of(t))))

-----------------------------------------------------------------------------
(* The search *)

LeafMatrix(a) ==
    [s \in Split |-> [l \in Leaf |->
        SumOf({v \in DOMAIN a : a[v] = s}, LAMBDA v : build.pairs[v][l])]]

MatrixScore(m, targets) ==
    SumOf(Split \X Leaf, LAMBDA c : (m[c[1]][c[2]] - targets[c[2]][c[1]])
                                    * (m[c[1]][c[2]] - targets[c[2]][c[1]]))

\* validate_source and build_groups: only a finished run whose sources are
\* all there is packaged.
ValidateSource ==
    /\ progress = "begin"
    /\ progress' = IF build.complete /\ build.lost = {} THEN "plan" ELSE "failed"
    /\ UNCHANGED <<build, planVars, packVars>>

\* Targets and quotas of the next task; without any the tool raises.
PlanTask(t) ==
    /\ progress = "plan"
    /\ results[t] = Unset
    /\ task' = t
    /\ IF \/ \E v \in Of(t) : Size(v) \notin {1, 2}
          \/ LeafTargets(t) = {} \/ SizeQuotas(t) = {}
         THEN progress' = "failed" /\ plan' = plan
         ELSE /\ progress' = "restart"
              /\ \E targets \in LeafTargets(t), quotas \in SizeQuotas(t) :
                    plan' = [targets |-> targets, quotas |-> quotas]
    /\ restart' = 0 /\ best' = Unset
    /\ UNCHANGED <<build, assignment, matrix, score, results, packVars>>

\* The shuffled videos are dealt out by the quotas.
Restart ==
    /\ progress = "restart"
    /\ \E a \in [Of(task) -> Split] :
          /\ \A k \in 1..2, s \in Split :
                Cardinality({v \in Of(task) : Size(v) = k /\ a[v] = s})
                   = plan.quotas[k][s]
          /\ assignment' = a
          /\ matrix' = LeafMatrix(a)
          /\ score' = MatrixScore(LeafMatrix(a), plan.targets)
    /\ progress' = "swap"
    /\ UNCHANGED <<build, task, plan, restart, best, results, packVars>>

\* The matrix with the rows of two splits changed by the two videos.
Swapped(u, v) ==
    LET a == assignment[u]  b == assignment[v]
        change(l) == build.pairs[v][l] - build.pairs[u][l]
    IN  [matrix EXCEPT ![a] = [l \in Leaf |-> matrix[a][l] + change(l)],
                       ![b] = [l \in Leaf |-> matrix[b][l] - change(l)]]

\* What the swap adds to the score, summed over the two rows only.
Delta(u, v) ==
    LET a == assignment[u]  b == assignment[v]
        off(m, s, l) == m[s][l] - plan.targets[l][s]
    IN  SumOf({a, b} \X Leaf, LAMBDA c :
            off(Swapped(u, v), c[1], c[2]) * off(Swapped(u, v), c[1], c[2])
            - off(matrix, c[1], c[2]) * off(matrix, c[1], c[2]))

\* Mutation of Swap: videos of different size change places.
SwapAny(u, v) ==
    /\ progress = "swap" /\ score # 0
    /\ assignment[u] # assignment[v]
    /\ assignment' = [assignment EXCEPT ![u] = assignment[v],
                                        ![v] = assignment[u]]
    /\ matrix' = Swapped(u, v)
    /\ score' = score + Delta(u, v)
    /\ UNCHANGED <<build, progress, task, plan, restart, best, results, packVars>>

\* Two videos of one size and of different splits change places; any such
\* swap may be accepted while the search is warm.
Swap(u, v) ==
    /\ progress = "swap" /\ score # 0
    /\ assignment[u] # assignment[v]
    /\ Size(u) = Size(v)
    /\ assignment' = [assignment EXCEPT ![u] = assignment[v],
                                        ![v] = assignment[u]]
    /\ matrix' = Swapped(u, v)
    /\ score' = score + Delta(u, v)
    /\ UNCHANGED <<build, progress, task, plan, restart, best, results, packVars>>

\* The iterations of a restart are over: the better assignment is kept.
EndRestart ==
    LET mine == [assignment |-> assignment, matrix |-> matrix, score |-> score,
                 plan |-> plan]
        better == best = Unset \/ (best # Unset /\ score < best.score)
        kept == IF better THEN mine ELSE best
    IN  /\ progress = "swap"
        /\ best' = kept
        /\ restart' = restart + 1
        /\ IF kept.score = 0 \/ restart' = MaxRestarts
             THEN /\ results' = [results EXCEPT ![task] = kept]
                  /\ progress' = IF \A t \in ReleaseTask : results'[t] # Unset
                                THEN "package" ELSE "plan"
             ELSE progress' = "restart" /\ results' = results
        /\ UNCHANGED <<build, task, plan, assignment, matrix, score, packVars>>

-----------------------------------------------------------------------------
(* The packaging *)

\* The directory of the task and the name of the source.
Dest(v) == <<TaskOfVideo[v], build.name[v]>>

\* What a file holds: one that is linked, what the source does.
Bytes(file) == IF file.of = Unset THEN file.own ELSE source[file.of]

Linked(v) == [of |-> v, own |-> Unset]
Copied(bytes) == [of |-> Unset, own |-> bytes]

With(f, x, y) == [e \in DOMAIN f \cup {x} |-> IF e = x THEN y ELSE f[e]]

\* Bytes are written to the file of v, through the link if it is one.
Write(v, bytes) ==
    IF Dest(v) \in DOMAIN staging /\ staging[Dest(v)].of # Unset
      THEN /\ source' = [source EXCEPT ![staging[Dest(v)].of] = bytes]
           /\ staging' = staging
      ELSE /\ staging' = With(staging, Dest(v), Copied(bytes))
           /\ source' = source

\* Nothing that exists is written over.
BeginPackaging ==
    /\ progress = "package"
    /\ IF release = Unset /\ staging = Unset
         THEN /\ progress' = "link"
              /\ staging' = [d \in {} |-> Unset]
              /\ inventory' = [v \in {} |-> Unset]
         ELSE progress' = "failed" /\ UNCHANGED <<staging, inventory>>
    /\ UNCHANGED <<build, planVars, source, release>>

Due(v) ==
    /\ v \notin DOMAIN inventory
    /\ \A u \in Video \ DOMAIN inventory : LinkOrder[v] <= LinkOrder[u]

\* A video is hashed, linked and entered in the inventory; where it cannot be
\* linked, or something has its name already, it is copied.
Link(v) ==
    /\ progress = "link"
    /\ Due(v)
    /\ inventory' = With(inventory, v, source[v])
    /\ \/ /\ Dest(v) \notin DOMAIN staging
          /\ staging' = With(staging, Dest(v), Linked(v))
          /\ source' = source
       \/ Write(v, source[v])
    /\ UNCHANGED <<build, progress, planVars, release>>

SplitOf(v) == results[TaskOfVideo[v]].assignment[v]

\* cross_split_audit, of the contents.
Leaks == \E u, v \in Video : /\ SplitOf(u) # SplitOf(v)
                             /\ inventory[u] = inventory[v]

Twice == \E u, v \in Video : u # v /\ inventory[u] = inventory[v]

FinalizeUnless(refused) ==
    /\ progress = "link" /\ DOMAIN inventory = Video
    /\ IF refused
         THEN progress' = "failed" /\ UNCHANGED <<staging, release>>
         ELSE /\ progress' = "released"
              /\ release' = [d \in DOMAIN staging |-> Bytes(staging[d])]
              /\ staging' = Unset
    /\ inventory' = Unset
    /\ UNCHANGED <<build, planVars, source>>

\* Mutation of Finalize: only the splits are compared.
FinalizeAudited == FinalizeUnless(Leaks)

\* The same digest twice, in whatever split, stops the tool; otherwise the
\* inventory, the statistics and the audit are written and the directory is
\* renamed.
Finalize == FinalizeUnless(Twice \/ Leaks)

\* The process dies or raises while it packages, maybe in the middle of the
\* copy of a video.
CrashPackaging ==
    /\ progress = "link"
    /\ progress' = "failed"
    /\ inventory' = Unset
    /\ \/ UNCHANGED <<source, staging>>
       \/ \E v \in Video, bytes \in TornCopies : Due(v) /\ Write(v, bytes)
    /\ UNCHANGED <<build, planVars, release>>

\* The tool is started again: the search has a fixed seed, its results are
\* the same.
RunAgain ==
    /\ progress \in {"failed", "released"}
    /\ \A t \in ReleaseTask : results[t] # Unset
    /\ progress' = "package"
    /\ UNCHANGED <<build, planVars, packVars>>

\* Somebody removes the staging directory that was left.
ClearStaging ==
    /\ progress = "failed" /\ staging # Unset
    /\ staging' = Unset
    /\ UNCHANGED <<build, progress, planVars, source, inventory, release>>

ReleaseNext ==
    \/ ValidateSource
    \/ \E t \in ReleaseTask : PlanTask(t)
    \/ Restart
    \/ \E u, v \in Of(task) : Swap(u, v)
    \/ EndRestart
    \/ BeginPackaging
    \/ \E v \in Video : Link(v)
    \/ Finalize
    \/ CrashPackaging
    \/ RunAgain
    \/ ClearStaging

ReleaseSpec == ReleaseInit /\ [][ReleaseNext]_releaseVars

-----------------------------------------------------------------------------
(* Properties *)

\* The matrix and the score that the search keeps up to date swap by swap are
\* those of its assignment, and every split has exactly its share of the
\* pairs; so have the assignment that is kept as best and the result.
SplitExact(r, t) ==
    /\ r.matrix = LeafMatrix(r.assignment)
    /\ r.score = MatrixScore(r.matrix, r.plan.targets)
    /\ \A s \in Split :
          SumOf({v \in Of(t) : r.assignment[v] = s}, Size)
             = TargetTotals(SumOf(Of(t), Size))[s]

SplitKept ==
    /\ progress = "swap" =>
          SplitExact([assignment |-> assignment, matrix |-> matrix,
                      score |-> score, plan |-> plan], task)
    /\ \A t \in ReleaseTask : results[t] # Unset => SplitExact(results[t], t)

\* v is the last video that goes to its file.
LastThere(v) ==
    \A u \in Video : Dest(u) = Dest(v) => LinkOrder[u] <= LinkOrder[v]

\* Whatever died before, in the middle of a copy too, and whatever it wrote
\* into the sources: a release comes from a finished run with every task
\* split, each of its files holds what the source of the last video of that
\* name held before the tool first ran, a video whose name is its own is
\* therefore there unchanged, and no two files hold the same.
ReleaseHonest ==
    release # Unset =>
       /\ build.complete
       /\ \A t \in ReleaseTask : results[t] # Unset
       /\ DOMAIN release = {Dest(v) : v \in Video}
       /\ \A v \in Video : LastThere(v) => release[Dest(v)] = build.digest[v]
       /\ \A d, e \in DOMAIN release : release[d] = release[e] => d = e

=============================================================================
