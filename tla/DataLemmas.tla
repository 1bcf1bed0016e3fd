----------------------------- MODULE DataLemmas -----------------------------
(***************************************************************************)
(* Lemmas about finite sums, images and division, for finite sets of any   *)
(* size; ToolProofs rests on them.                                         *)
(*                                                                         *)
(* A sum is computed by taking one chosen member of the set after the      *)
(* other (Folds).  That such a computation exists and does not depend on   *)
(* the order of the choices is shown with a smallest counterexample among  *)
(* the subsets of the set (SmallestSubset).  SetInduction is induction     *)
(* over these subsets, for a set of good ones in place of a predicate.     *)
(***************************************************************************)
EXTENDS Sums, FiniteSets, FiniteSetTheorems, WellFoundedInduction, TLAPS

\* A non-empty set of subsets of a finite set has a member none of whose
\* proper subsets is a member.
LEMMA SmallestSubset ==
    ASSUME NEW S, IsFiniteSet(S), NEW bad \in SUBSET SUBSET S, bad # {}
    PROVE  \E T \in bad : \A U \in SUBSET T : U # T => U \notin bad
<1>1. IsWellFoundedOn(StrictSubsetOrdering(S), SUBSET S)
  BY FS_StrictSubsetOrderingWellFounded, FS_FiniteSubsetsOfFinite
<1>2. PICK T \in bad : \A U \in bad : <<U, T>> \notin StrictSubsetOrdering(S)
  BY <1>1, WFMin, Zenon
<1>3. ASSUME NEW U \in SUBSET T, U # T, U \in bad PROVE FALSE
  <2>1. <<U, T>> \in StrictSubsetOrdering(S)
    BY <1>3 DEF StrictSubsetOrdering
  <2> QED
    BY <2>1, <1>2, <1>3
<1> QED
  BY <1>3

First(s) == CHOOSE x \in s : TRUE
Rest(s) == s \ {First(s)}

LEMMA FirstIsMember ==
    ASSUME NEW s, s # {}
    PROVE  First(s) \in s /\ Rest(s) \in SUBSET s /\ Rest(s) # s
BY DEF First, Rest

\* g holds the sum of f over every subset of S.
Folds(f, S, g) ==
    g = [s \in SUBSET S |-> IF s = {} THEN 0 ELSE f[First(s)] + g[Rest(s)]]

LEMMA FoldsMeans ==
    ASSUME NEW f, NEW S, NEW g, Folds(f, S, g)
    PROVE  \A s \in SUBSET S :
             g[s] = IF s = {} THEN 0 ELSE f[First(s)] + g[Rest(s)]
BY DEF Folds

LEMMA TotalIsFold ==
    ASSUME NEW f
    PROVE  Total(f) = (CHOOSE g : Folds(f, DOMAIN f, g))[DOMAIN f]
BY DEF Total, FoldFunction, FoldFunctionOnSet, MapThenFoldSet, Folds, First,
       Rest

\* Two computations agree on the subsets they share.
LEMMA FoldsAgree ==
    ASSUME NEW S, IsFiniteSet(S), NEW f, NEW g, NEW S2, NEW f2, NEW g2,
           S \subseteq S2, Folds(f, S, g), Folds(f2, S2, g2),
           \A x \in S : f[x] = f2[x]
    PROVE  \A s \in SUBSET S : g[s] = g2[s]
<1> DEFINE bad == {s \in SUBSET S : g[s] # g2[s]}
<1>1. SUFFICES ASSUME bad # {} PROVE FALSE
  OBVIOUS
<1>2. PICK T \in bad : \A U \in SUBSET T : U # T => U \notin bad
  <2>1. bad \in SUBSET SUBSET S
    OBVIOUS
  <2> HIDE DEF bad
  <2> QED
    BY <1>1, <2>1, SmallestSubset
<1>3. T \in SUBSET S /\ T \in SUBSET S2 /\ g[T] # g2[T]
  OBVIOUS
<1>4. T # {}
  BY <1>3, FoldsMeans
<1>5. First(T) \in T /\ Rest(T) \in SUBSET T /\ Rest(T) # T
  BY <1>4, FirstIsMember
<1>6. g[Rest(T)] = g2[Rest(T)]
  BY <1>2, <1>3, <1>5
<1>7. g[T] = f[First(T)] + g[Rest(T)]
  BY <1>3, <1>4, FoldsMeans
<1>8. g2[T] = f2[First(T)] + g2[Rest(T)]
  BY <1>3, <1>4, FoldsMeans
<1> QED
  BY <1>3, <1>5, <1>6, <1>7, <1>8

\* Every set of numbers has a computation of its sums.
LEMMA FoldsExist ==
    ASSUME NEW S, IsFiniteSet(S), NEW f
    PROVE  \E g : Folds(f, S, g)
<1> DEFINE bad == {s \in SUBSET S : ~ \E g : Folds(f, s, g)}
<1>1. SUFFICES ASSUME bad # {} PROVE FALSE
  OBVIOUS
<1>2. PICK T \in bad : \A U \in SUBSET T : U # T => U \notin bad
  <2>1. bad \in SUBSET SUBSET S
    OBVIOUS
  <2> HIDE DEF bad
  <2> QED
    BY <1>1, <2>1, SmallestSubset
<1> DEFINE sum(U) == (CHOOSE g : Folds(f, U, g))[U]
           all == [s \in SUBSET T |->
                     IF s = {} THEN 0 ELSE f[First(s)] + sum(Rest(s))]
<1>3. ASSUME NEW U \in SUBSET T, U # T
      PROVE  all[U] = sum(U)
  <2> DEFINE g == CHOOSE g : Folds(f, U, g)
  <2>1. Folds(f, U, g)
    BY <1>2, <1>3
  <2>2. CASE U = {}
    BY <2>1, <2>2, FoldsMeans
  <2>3. CASE U # {}
    <3>1. First(U) \in U /\ Rest(U) \in SUBSET U /\ Rest(U) # U
      BY <2>3, FirstIsMember
    <3> DEFINE h == CHOOSE h : Folds(f, Rest(U), h)
    <3>2. Rest(U) \in SUBSET T /\ Rest(U) # T
      BY <1>3, <3>1
    <3>3. Folds(f, Rest(U), h)
      BY <1>2, <3>2
    <3>4. IsFiniteSet(Rest(U))
      BY <3>2, <1>2, FS_Subset
    <3> HIDE DEF g, h
    <3>5. h[Rest(U)] = g[Rest(U)]
      <4>1. \A s \in SUBSET Rest(U) : h[s] = g[s]
        BY ONLY <2>1, <3>1, <3>3, <3>4, FoldsAgree
      <4> QED
        BY <4>1
    <3>6. g[U] = f[First(U)] + g[Rest(U)]
      BY <2>1, <2>3, FoldsMeans
    <3>7. all[U] = f[First(U)] + h[Rest(U)]
      BY <1>3, <2>3 DEF h
    <3>8. sum(U) = g[U]
      BY DEF g
    <3> QED
      BY <3>5, <3>6, <3>7, <3>8
  <2> QED
    BY <2>2, <2>3
<1>4. ASSUME NEW s \in SUBSET T, s # {}
      PROVE  all[Rest(s)] = sum(Rest(s))
  <2>1. Rest(s) \in SUBSET T /\ Rest(s) # T
    BY <1>4, FirstIsMember
  <2> QED
    BY <2>1, <1>3
<1> HIDE DEF sum
<1>5. Folds(f, T, all)
  BY <1>4 DEF Folds
<1> QED
  BY <1>2, <1>5

\* The sum of f over a part of its domain.
On(f, S) == Total([x \in S |-> f[x]])

LEMMA OnFold ==
    ASSUME NEW S, IsFiniteSet(S), NEW f, NEW g, Folds(f, S, g),
           NEW s \in SUBSET S
    PROVE  On(f, s) = g[s]
<1> DEFINE part == [x \in s |-> f[x]]
           h == CHOOSE h : Folds(part, s, h)
<1>1. IsFiniteSet(s)
  BY FS_Subset
<1>2. Folds(part, s, h)
  BY <1>1, FoldsExist
<1>3. On(f, s) = h[s]
  <2>1. DOMAIN part = s
    OBVIOUS
  <2>2. Total(part) = (CHOOSE k : Folds(part, DOMAIN part, k))[DOMAIN part]
    BY TotalIsFold
  <2> QED
    BY <2>1, <2>2 DEF On
<1>4. \A x \in s : part[x] = f[x]
  OBVIOUS
<1> HIDE DEF part, h
<1>5. \A t \in SUBSET s : h[t] = g[t]
  BY ONLY <1>1, <1>2, <1>4, Folds(f, S, g), s \in SUBSET S, FoldsAgree
<1> QED
  BY <1>3, <1>5

LEMMA SumEmpty ==
    ASSUME NEW f
    PROVE  On(f, {}) = 0
<1>1. IsFiniteSet({})
  BY FS_EmptySet
<1>2. PICK g : Folds(f, {}, g)
  BY <1>1, FoldsExist
<1> QED
  BY <1>1, <1>2, OnFold, FoldsMeans

LEMMA SumFirst ==
    ASSUME NEW S, IsFiniteSet(S), S # {}, NEW f
    PROVE  On(f, S) = f[First(S)] + On(f, Rest(S))
<1>1. PICK g : Folds(f, S, g)
  BY FoldsExist
<1>2. Rest(S) \in SUBSET S
  BY FirstIsMember
<1>3. g[S] = f[First(S)] + g[Rest(S)]
  BY <1>1, FoldsMeans
<1>4. On(f, S) = g[S] /\ On(f, Rest(S)) = g[Rest(S)]
  BY <1>1, <1>2, OnFold
<1> QED
  BY <1>3, <1>4

LEMMA SumSame ==
    ASSUME NEW S, NEW f, NEW g, \A x \in S : f[x] = g[x]
    PROVE  On(f, S) = On(g, S)
BY DEF On

\* The sum of integers is one.
LEMMA SumInt ==
    ASSUME NEW S, IsFiniteSet(S), NEW f, \A x \in S : f[x] \in Int
    PROVE  On(f, S) \in Int
<1> DEFINE bad == {s \in SUBSET S : On(f, s) \notin Int}
<1>1. SUFFICES ASSUME bad # {} PROVE FALSE
  OBVIOUS
<1>2. PICK T \in bad : \A U \in SUBSET T : U # T => U \notin bad
  <2>1. bad \in SUBSET SUBSET S
    OBVIOUS
  <2> HIDE DEF bad
  <2> QED
    BY <1>1, <2>1, SmallestSubset
<1>3. IsFiniteSet(T)
  BY FS_Subset
<1>4. T # {}
  BY SumEmpty
<1>5. On(f, T) = f[First(T)] + On(f, Rest(T))
  BY <1>3, <1>4, SumFirst
<1>6. First(T) \in T /\ Rest(T) \in SUBSET T /\ Rest(T) # T
  BY <1>4, FirstIsMember
<1>7. On(f, Rest(T)) \in Int
  BY <1>2, <1>6
<1>8. f[First(T)] \in Int
  BY <1>2, <1>6
<1> QED
  BY <1>2, <1>5, <1>7, <1>8

\* Any member may be taken out first.
LEMMA SumRemove ==
    ASSUME NEW S, IsFiniteSet(S), NEW f, \A x \in S : f[x] \in Int, NEW a \in S
    PROVE  On(f, S) = f[a] + On(f, S \ {a})
<1> DEFINE bad == {s \in SUBSET S :
                     \E x \in s : On(f, s) # f[x] + On(f, s \ {x})}
<1>1. SUFFICES ASSUME bad # {} PROVE FALSE
  BY <1>1
<1>2. PICK T \in bad : \A U \in SUBSET T : U # T => U \notin bad
  <2>1. bad \in SUBSET SUBSET S
    OBVIOUS
  <2> HIDE DEF bad
  <2> QED
    BY <1>1, <2>1, SmallestSubset
<1>3. PICK x \in T : On(f, T) # f[x] + On(f, T \ {x})
  BY <1>2
<1>4. T \in SUBSET S /\ IsFiniteSet(T) /\ T # {}
  BY <1>2, <1>3, FS_Subset
<1> DEFINE c == First(T)
<1>5. c \in T /\ On(f, T) = f[c] + On(f, T \ {c})
  BY <1>4, SumFirst, FirstIsMember DEF Rest
<1> HIDE DEF c
<1>6. c # x
  BY <1>3, <1>5
<1>7. On(f, T \ {c}) = f[x] + On(f, (T \ {c}) \ {x})
  <2>1. T \ {c} \in SUBSET T /\ T \ {c} # T /\ x \in T \ {c}
    BY <1>5, <1>6
  <2>2. T \ {c} \notin bad
    BY <2>1, <1>2
  <2> QED
    BY <1>4, <2>1, <2>2
<1>8. On(f, T \ {x}) = f[c] + On(f, (T \ {x}) \ {c})
  <2>1. T \ {x} \in SUBSET T /\ T \ {x} # T /\ c \in T \ {x}
    BY <1>5, <1>6
  <2>2. T \ {x} \notin bad
    BY <2>1, <1>2
  <2> QED
    BY <1>4, <2>1, <2>2
<1>9. (T \ {x}) \ {c} = (T \ {c}) \ {x}
  OBVIOUS
<1> DEFINE r == On(f, (T \ {c}) \ {x})
<1>10. r \in Int /\ f[x] \in Int /\ f[c] \in Int
  <2>1. (T \ {c}) \ {x} \in SUBSET S
    BY <1>4
  <2>2. IsFiniteSet((T \ {c}) \ {x}) /\ \A y \in (T \ {c}) \ {x} : f[y] \in Int
    BY <2>1, FS_Subset
  <2>3. r \in Int
    BY ONLY <2>2, SumInt
  <2> QED
    BY <1>4, <1>5, <2>3
<1> HIDE DEF r
<1>11. On(f, T) = f[c] + (f[x] + r) /\ On(f, T \ {x}) = f[c] + r
  BY <1>5, <1>7, <1>8, <1>9 DEF r
<1> QED
  BY <1>3, <1>10, <1>11

LEMMA SumAdd ==
    ASSUME NEW S, IsFiniteSet(S), NEW f, \A x \in S : f[x] \in Int,
           NEW a, a \notin S, f[a] \in Int
    PROVE  On(f, S \cup {a}) = f[a] + On(f, S)
<1> DEFINE T == S \cup {a}
<1>1. IsFiniteSet(T) /\ a \in T /\ T \ {a} = S
  BY FS_AddElement
<1>2. \A x \in T : f[x] \in Int
  OBVIOUS
<1> HIDE DEF T
<1>3. On(f, T) = f[a] + On(f, T \ {a})
  BY ONLY <1>1, <1>2, SumRemove
<1> QED
  BY <1>1, <1>3 DEF T

-----------------------------------------------------------------------------
(* Algebra of sums *)

\* Induction over a finite set, with the subsets that have the property as a
\* set.
LEMMA SetInduction ==
    ASSUME NEW S, IsFiniteSet(S), NEW good, {} \in good,
           \A T \in SUBSET S : \A x \in S \ T : T \in good => T \cup {x} \in good
    PROVE  S \in good
<1> DEFINE bad == {s \in SUBSET S : s \notin good}
<1>1. SUFFICES ASSUME bad # {} PROVE FALSE
  OBVIOUS
<1>2. PICK T \in bad : \A U \in SUBSET T : U # T => U \notin bad
  <2>1. bad \in SUBSET SUBSET S
    OBVIOUS
  <2> HIDE DEF bad
  <2> QED
    BY <1>1, <2>1, SmallestSubset
<1>3. PICK x \in T : TRUE
  BY <1>2
<1>4. T \ {x} \in SUBSET S /\ x \in S \ (T \ {x}) /\ T \ {x} \in good
  BY <1>2
<1>5. (T \ {x}) \cup {x} \in good
  BY <1>4
<1>6. (T \ {x}) \cup {x} = T
  OBVIOUS
<1> QED
  BY <1>2, <1>5, <1>6

\* A member more on both sides.
LEMMA SumMore ==
    ASSUME NEW S, IsFiniteSet(S), NEW f, \A x \in S : f[x] \in Int,
           NEW T \in SUBSET S, NEW x \in S \ T
    PROVE  /\ On(f, T \cup {x}) = f[x] + On(f, T)
           /\ On(f, T) \in Int /\ f[x] \in Int
           /\ On(f, T \cup {x}) \in Int
<1>1. IsFiniteSet(T) /\ \A y \in T : f[y] \in Int
  BY FS_Subset
<1>2. On(f, T \cup {x}) = f[x] + On(f, T)
  BY <1>1, SumAdd
<1>3. On(f, T) \in Int
  BY ONLY <1>1, SumInt
<1> QED
  BY <1>2, <1>3

LEMMA SumPlus ==
    ASSUME NEW S, IsFiniteSet(S), NEW f, NEW g, NEW h,
           \A x \in S : f[x] \in Int /\ g[x] \in Int /\ h[x] = f[x] + g[x]
    PROVE  On(h, S) = On(f, S) + On(g, S)
<1>a. (\A x \in S : f[x] \in Int) /\ (\A x \in S : g[x] \in Int) /\ (\A x \in S : h[x] \in Int)
  OBVIOUS
<1> DEFINE good == {s \in SUBSET S : On(h, s) = On(f, s) + On(g, s)}
<1>1. {} \in good
  BY SumEmpty
<1>2. ASSUME NEW T \in SUBSET S, NEW x \in S \ T, T \in good
      PROVE  T \cup {x} \in good
  <2>1. On(f, T \cup {x}) = f[x] + On(f, T) /\ On(f, T) \in Int /\ f[x] \in Int
    BY ONLY IsFiniteSet(S), <1>a, T \in SUBSET S, x \in S \ T, SumMore
  <2>2. On(g, T \cup {x}) = g[x] + On(g, T) /\ On(g, T) \in Int /\ g[x] \in Int
    BY ONLY IsFiniteSet(S), <1>a, T \in SUBSET S, x \in S \ T, SumMore
  <2>3. On(h, T \cup {x}) = h[x] + On(h, T)
    BY ONLY IsFiniteSet(S), <1>a, T \in SUBSET S, x \in S \ T, SumMore
  <2>4. h[x] = f[x] + g[x] /\ On(h, T) = On(f, T) + On(g, T)
    BY <1>2
  <2> QED
    BY <2>1, <2>2, <2>3, <2>4
<1> HIDE DEF good
<1>3. S \in good
  BY <1>1, <1>2, SetInduction
<1> QED
  BY <1>3 DEF good

LEMMA SumTimes ==
    ASSUME NEW S, IsFiniteSet(S), NEW f, NEW h, NEW a \in Int,
           \A x \in S : f[x] \in Int /\ h[x] = a * f[x]
    PROVE  On(h, S) = a * On(f, S)
<1>a. \A x \in S : f[x] \in Int
  OBVIOUS
<1>b. \A x \in S : h[x] \in Int
  OBVIOUS
<1> DEFINE good == {s \in SUBSET S : On(h, s) = a * On(f, s)}
<1>1. {} \in good
  BY SumEmpty
<1>2. ASSUME NEW T \in SUBSET S, NEW x \in S \ T, T \in good
      PROVE  T \cup {x} \in good
  <2>1. On(f, T \cup {x}) = f[x] + On(f, T) /\ On(f, T) \in Int /\ f[x] \in Int
    BY ONLY IsFiniteSet(S), <1>a, T \in SUBSET S, x \in S \ T, SumMore
  <2>2. On(h, T \cup {x}) = h[x] + On(h, T)
    BY ONLY IsFiniteSet(S), <1>b, T \in SUBSET S, x \in S \ T, SumMore
  <2>3. h[x] = a * f[x] /\ On(h, T) = a * On(f, T)
    BY <1>2
  <2>4. \A m, n \in Int : a * (m + n) = a * m + a * n
    OBVIOUS
  <2> QED
    BY <2>1, <2>2, <2>3, <2>4
<1> HIDE DEF good
<1>3. S \in good
  BY <1>1, <1>2, SetInduction
<1> QED
  BY <1>3 DEF good

LEMMA SumMonotone ==
    ASSUME NEW S, IsFiniteSet(S), NEW f, NEW g,
           \A x \in S : f[x] \in Int /\ g[x] \in Int /\ f[x] <= g[x]
    PROVE  On(f, S) <= On(g, S)
<1>a. (\A x \in S : f[x] \in Int) /\ (\A x \in S : g[x] \in Int)
  OBVIOUS
<1> DEFINE good == {s \in SUBSET S : On(f, s) <= On(g, s)}
<1>1. {} \in good
  BY SumEmpty
<1>2. ASSUME NEW T \in SUBSET S, NEW x \in S \ T, T \in good
      PROVE  T \cup {x} \in good
  <2>1. On(f, T \cup {x}) = f[x] + On(f, T) /\ On(f, T) \in Int /\ f[x] \in Int
    BY ONLY IsFiniteSet(S), <1>a, T \in SUBSET S, x \in S \ T, SumMore
  <2>2. On(g, T \cup {x}) = g[x] + On(g, T) /\ On(g, T) \in Int /\ g[x] \in Int
    BY ONLY IsFiniteSet(S), <1>a, T \in SUBSET S, x \in S \ T, SumMore
  <2>3. f[x] <= g[x] /\ On(f, T) <= On(g, T)
    BY <1>2
  <2> QED
    BY <2>1, <2>2, <2>3
<1> HIDE DEF good
<1>3. S \in good
  BY <1>1, <1>2, SetInduction
<1> QED
  BY <1>3 DEF good

\* A sum is the sum of those over two parts.
LEMMA SumUnion ==
    ASSUME NEW S, IsFiniteSet(S), NEW f, \A x \in S : f[x] \in Int,
           NEW A, NEW B, A \cup B = S, A \cap B = {}
    PROVE  On(f, S) = On(f, A) + On(f, B)
<1>1. IsFiniteSet(A) /\ A \in SUBSET S /\ IsFiniteSet(B) /\ B \in SUBSET S
  BY FS_Subset
<1>2. On(f, A) \in Int
  <2>1. \A x \in A : f[x] \in Int
    OBVIOUS
  <2> QED
    BY ONLY <1>1, <2>1, SumInt
<1> DEFINE good == {s \in SUBSET B : On(f, A \cup s) = On(f, A) + On(f, s)}
<1>3. {} \in good
  <2>1. A \cup {} = A
    OBVIOUS
  <2> QED
    BY <1>2, <2>1, SumEmpty
<1>4. ASSUME NEW T \in SUBSET B, NEW x \in B \ T, T \in good
      PROVE  T \cup {x} \in good
  <2>1. On(f, T \cup {x}) = f[x] + On(f, T) /\ On(f, T) \in Int /\ f[x] \in Int
    BY <1>1, SumMore
  <2>2. A \cup T \in SUBSET S /\ x \in S \ (A \cup T)
    BY <1>1
  <2>3. On(f, (A \cup T) \cup {x}) = f[x] + On(f, A \cup T)
    <3>1. \A y \in S : f[y] \in Int
      OBVIOUS
    <3> DEFINE U == A \cup T
    <3> HIDE DEF U
    <3>2. U \in SUBSET S /\ x \in S \ U
      BY <2>2 DEF U
    <3>3. On(f, U \cup {x}) = f[x] + On(f, U)
      BY ONLY IsFiniteSet(S), <3>1, <3>2, SumMore
    <3> QED
      BY <3>3 DEF U
  <2>4. (A \cup T) \cup {x} = A \cup (T \cup {x})
    OBVIOUS
  <2>5. On(f, A \cup T) = On(f, A) + On(f, T)
    BY <1>4
  <2>6. On(f, A \cup (T \cup {x})) = On(f, A) + On(f, T \cup {x})
    <3>1. On(f, A \cup (T \cup {x})) = f[x] + (On(f, A) + On(f, T))
      BY ONLY <2>3, <2>4, <2>5
    <3>2. \A k, m, n \in Int : k + (m + n) = m + (k + n)
      OBVIOUS
    <3>3. f[x] + (On(f, A) + On(f, T)) = On(f, A) + (f[x] + On(f, T))
      BY ONLY <1>2, <2>1, <3>2
    <3> QED
      BY ONLY <2>1, <3>1, <3>3
  <2> QED
    BY <2>6
<1> HIDE DEF good
<1>5. B \in good
  BY <1>1, <1>3, <1>4, SetInduction
<1> QED
  BY <1>5 DEF good

LEMMA SumZero ==
    ASSUME NEW S, IsFiniteSet(S), NEW f, \A x \in S : f[x] = 0
    PROVE  On(f, S) = 0
<1> DEFINE zero == [x \in S |-> 0]
<1>1. \A x \in S : zero[x] \in Int /\ f[x] = 0 * zero[x]
  OBVIOUS
<1>2. On(f, S) = 0 * On(zero, S)
  <2> HIDE DEF zero
  <2> QED
    BY <1>1, SumTimes, 0 \in Int
<1>3. On(zero, S) \in Int
  <2> HIDE DEF zero
  <2> QED
    BY <1>1, SumInt
<1> QED
  BY <1>2, <1>3

\* A positive sum has a positive term.
LEMMA SumPositive ==
    ASSUME NEW S, IsFiniteSet(S), NEW f, \A x \in S : f[x] \in Int, On(f, S) > 0
    PROVE  \E x \in S : f[x] > 0
<1> SUFFICES ASSUME \A x \in S : f[x] <= 0 PROVE FALSE
  OBVIOUS
<1> DEFINE zero == [x \in S |-> 0]
<1>1. \A x \in S : f[x] \in Int /\ zero[x] \in Int /\ f[x] <= zero[x]
  OBVIOUS
<1>2. On(zero, S) = 0
  BY SumZero
<1> HIDE DEF zero
<1>3. On(f, S) <= On(zero, S)
  BY <1>1, SumMonotone
<1>4. On(f, S) \in Int
  BY SumInt
<1> QED
  BY <1>2, <1>3, <1>4

LEMMA SumNat ==
    ASSUME NEW S, IsFiniteSet(S), NEW f, \A x \in S : f[x] \in Nat
    PROVE  On(f, S) \in Nat
<1> DEFINE zero == [x \in S |-> 0]
<1>1. \A x \in S : zero[x] \in Int /\ f[x] \in Int /\ zero[x] <= f[x]
  OBVIOUS
<1>2. On(zero, S) = 0
  BY SumZero
<1> HIDE DEF zero
<1>3. On(zero, S) <= On(f, S)
  BY <1>1, SumMonotone
<1>4. On(f, S) \in Int
  BY SumInt
<1> QED
  BY <1>2, <1>3, <1>4

\* The sum of a function over its domain.
LEMMA TotalOn ==
    ASSUME NEW S, NEW f, f = [x \in S |-> f[x]]
    PROVE  Total(f) = On(f, S)
BY DEF On

\* Changing one value changes the sum by as much.
LEMMA SumChange ==
    ASSUME NEW S, IsFiniteSet(S), NEW f, NEW g, NEW a \in S,
           \A x \in S : f[x] \in Int /\ g[x] \in Int,
           \A x \in S \ {a} : f[x] = g[x]
    PROVE  On(g, S) = On(f, S) + (g[a] - f[a])
<1>1. On(f, S) = f[a] + On(f, S \ {a})
  BY SumRemove
<1>2. On(g, S) = g[a] + On(g, S \ {a})
  BY SumRemove
<1>3. On(f, S \ {a}) = On(g, S \ {a})
  BY SumSame
<1>4. On(f, S \ {a}) \in Int
  <2>1. IsFiniteSet(S \ {a}) /\ \A x \in S \ {a} : f[x] \in Int
    BY FS_Subset
  <2> QED
    BY ONLY <2>1, SumInt
<1> QED
  BY <1>1, <1>2, <1>3, <1>4

-----------------------------------------------------------------------------
(* Ones, twos and exchanges *)

\* A sum of ones counts.
LEMMA SumOnes ==
    ASSUME NEW S, IsFiniteSet(S), NEW f, \A x \in S : f[x] = 1
    PROVE  On(f, S) = Cardinality(S)
<1> DEFINE good == {s \in SUBSET S : On(f, s) = Cardinality(s)}
<1>1. {} \in good
  BY SumEmpty, FS_EmptySet
<1>2. ASSUME NEW T \in SUBSET S, NEW x \in S \ T, T \in good
      PROVE  T \cup {x} \in good
  <2>a. \A y \in S : f[y] \in Int
    OBVIOUS
  <2>1. On(f, T \cup {x}) = f[x] + On(f, T)
    BY ONLY IsFiniteSet(S), <2>a, T \in SUBSET S, x \in S \ T, SumMore
  <2>2. IsFiniteSet(T)
    BY FS_Subset
  <2>3. Cardinality(T \cup {x}) = Cardinality(T) + 1 /\ Cardinality(T) \in Nat
    BY <2>2, FS_AddElement, FS_CardinalityType
  <2>4. On(f, T) = Cardinality(T) /\ f[x] = 1
    BY <1>2
  <2> QED
    BY <2>1, <2>3, <2>4
<1> HIDE DEF good
<1>3. S \in good
  BY <1>1, <1>2, SetInduction
<1> QED
  BY <1>3 DEF good

\* The videos of one or two pairs.
LEMMA SumOnesAndTwos ==
    ASSUME NEW S, IsFiniteSet(S), NEW f, \A x \in S : f[x] \in 1..2
    PROVE  /\ Cardinality({x \in S : f[x] = 1}) \in Nat
           /\ Cardinality({x \in S : f[x] = 2}) \in Nat
           /\ On(f, S) = Cardinality({x \in S : f[x] = 1})
                         + 2 * Cardinality({x \in S : f[x] = 2})
<1> DEFINE A == {x \in S : f[x] = 1}
           B == {x \in S : f[x] = 2}
           ones == [x \in S |-> 1]
<1>1. IsFiniteSet(A) /\ IsFiniteSet(B)
  <2>1. A \in SUBSET S /\ B \in SUBSET S
    OBVIOUS
  <2> QED
    BY <2>1, FS_Subset
<1>2. A \cup B = S /\ A \cap B = {} /\ \A x \in S : f[x] \in Int
  OBVIOUS
<1>3. (\A x \in A : f[x] = 1 /\ ones[x] = 1)
      /\ (\A x \in B : ones[x] \in Int /\ ones[x] = 1 /\ f[x] = 2 * ones[x])
  OBVIOUS
<1> HIDE DEF A, B, ones
<1>4. On(f, S) = On(f, A) + On(f, B)
  BY ONLY IsFiniteSet(S), <1>2, SumUnion
<1>5. On(f, A) = Cardinality(A)
  BY ONLY <1>1, <1>3, SumOnes
<1>6. On(f, B) = 2 * On(ones, B)
  BY ONLY <1>1, <1>3, SumTimes, 2 \in Int
<1>7. On(ones, B) = Cardinality(B)
  BY ONLY <1>1, <1>3, SumOnes
<1>8. Cardinality(A) \in Nat /\ Cardinality(B) \in Nat
  BY <1>1, FS_CardinalityType
<1> QED
  BY <1>4, <1>5, <1>6, <1>7, <1>8 DEF A, B

\* The members of S that a puts at s.
Part(S, a, s) == {x \in S : a[x] = s}

\* b is a with the places of u and v exchanged.
Exchanged(S, a, b, u, v) ==
    /\ u \in S /\ v \in S /\ a[u] # a[v]
    /\ b[u] = a[v] /\ b[v] = a[u]
    /\ \A x \in S \ {u, v} : b[x] = a[x]

\* What an exchange does to the sums over the two parts.
LEMMA SumSwap ==
    ASSUME NEW S, IsFiniteSet(S), NEW f, \A x \in S : f[x] \in Int,
           NEW a, NEW b, NEW u, NEW v, Exchanged(S, a, b, u, v), NEW s
    PROVE  On(f, Part(S, b, s)) =
             On(f, Part(S, a, s))
             + (IF s = a[u] THEN f[v] - f[u]
                ELSE IF s = a[v] THEN f[u] - f[v] ELSE 0)
<1> USE DEF Part, Exchanged
<1> DEFINE A == Part(S, a, s)
           B == Part(S, b, s)
<1>1. IsFiniteSet(A) /\ IsFiniteSet(B) /\ A \in SUBSET S /\ B \in SUBSET S
  BY FS_Subset
<1>2. u # v
  OBVIOUS
<1>3. ASSUME NEW p \in S, NEW q \in S, p \in A, q \notin A, q \in B,
             B \ {q} = A \ {p}
      PROVE  On(f, B) = On(f, A) + (f[q] - f[p])
  <2>1. (\A x \in A : f[x] \in Int) /\ (\A x \in B : f[x] \in Int)
    OBVIOUS
  <2> HIDE DEF A, B
  <2>2. On(f, A) = f[p] + On(f, A \ {p})
    BY ONLY <1>1, <1>3, <2>1, SumRemove
  <2>3. On(f, B) = f[q] + On(f, B \ {q})
    BY ONLY <1>1, <1>3, <2>1, SumRemove
  <2>4. On(f, A \ {p}) \in Int
    <3>1. IsFiniteSet(A \ {p}) /\ \A x \in A \ {p} : f[x] \in Int
      BY <1>1, <2>1, FS_Subset
    <3> QED
      BY ONLY <3>1, SumInt
  <2>5. f[p] \in Int /\ f[q] \in Int
    OBVIOUS
  <2>6. On(f, B \ {q}) = On(f, A \ {p})
    BY <1>3
  <2>7. \A k, m, n \in Int : n + k = (m + k) + (n - m)
    OBVIOUS
  <2>8. f[q] + On(f, A \ {p}) = (f[p] + On(f, A \ {p})) + (f[q] - f[p])
    BY ONLY <2>4, <2>5, <2>7
  <2> QED
    BY ONLY <2>2, <2>3, <2>6, <2>8
<1>4. b[u] = a[v] /\ b[v] = a[u]
      /\ \A x \in S : x # u /\ x # v => b[x] = a[x]
  BY <1>2
<1>5. On(f, A) \in Int /\ f[u] \in Int /\ f[v] \in Int
  <2>1. \A x \in A : f[x] \in Int
    OBVIOUS
  <2>2. On(f, A) \in Int
    BY ONLY <1>1, <2>1, SumInt
  <2> QED
    BY <2>2
<1>6. CASE s = a[u]
  <2>1. u \in A /\ v \notin A /\ v \in B /\ B \ {v} = A \ {u}
    BY <1>4, <1>6
  <2>2. On(f, B) = On(f, A) + (f[v] - f[u])
    BY <1>3, <2>1
  <2> QED
    BY <1>6, <2>2
<1>7. CASE s = a[v]
  <2>1. v \in A /\ u \notin A /\ u \in B /\ B \ {u} = A \ {v}
    BY <1>4, <1>7
  <2>2. On(f, B) = On(f, A) + (f[u] - f[v])
    BY <1>3, <2>1
  <2> QED
    BY <1>7, <2>2
<1>8. CASE s # a[u] /\ s # a[v]
  <2>1. A = B
    BY <1>4, <1>8
  <2>2. On(f, B) = On(f, A) + 0
    <3> HIDE DEF A, B
    <3> QED
      BY <1>5, <2>1
  <2> QED
    BY <1>8, <2>2
<1> QED
  BY <1>6, <1>7, <1>8

-----------------------------------------------------------------------------
(* Images and unions *)

\* The values of a function on a finite set are no more than its members; when
\* they are as many, they differ.
LEMMA ImageOf ==
    ASSUME NEW S, IsFiniteSet(S), NEW f
    PROVE  /\ Cardinality({f[x] : x \in S}) \in Nat
           /\ Cardinality({f[x] : x \in S}) <= Cardinality(S)
           /\ Cardinality({f[x] : x \in S}) = Cardinality(S)
                => \A u, v \in S : f[u] = f[v] => u = v
<1> DEFINE T == {f[x] : x \in S}
           g == [x \in S |-> f[x]]
<1>1. g \in Surjection(S, T)
  BY DEF Surjection
<1>2. IsFiniteSet(T) /\ Cardinality(T) <= Cardinality(S)
      /\ (Cardinality(T) = Cardinality(S) => g \in Injection(S, T))
  BY ONLY <1>1, IsFiniteSet(S), FS_Surjection
<1>3. Cardinality(T) \in Nat
  BY <1>2, FS_CardinalityType
<1>4. g \in Injection(S, T) => \A u, v \in S : f[u] = f[v] => u = v
  BY DEF Injection, IsInjective
<1> HIDE DEF T, g
<1>5. Cardinality(T) = Cardinality(S) => \A u, v \in S : f[u] = f[v] => u = v
  BY <1>2, <1>4
<1> QED
  BY <1>2, <1>3, <1>5 DEF T

\* As many sets of n members.
LEMMA UnionBound ==
    ASSUME NEW S, IsFiniteSet(S), NEW d, NEW n \in Nat,
           \A t \in S : IsFiniteSet(d[t]) /\ Cardinality(d[t]) = n
    PROVE  /\ IsFiniteSet(UNION {d[t] : t \in S})
           /\ Cardinality(UNION {d[t] : t \in S}) <= n * Cardinality(S)
<1> DEFINE U(s) == UNION {d[t] : t \in s}
           good == {s \in SUBSET S : /\ IsFiniteSet(U(s)) /\ IsFiniteSet(s)
                                     /\ Cardinality(U(s)) <= n * Cardinality(s)}
<1>1. {} \in good
  <2>1. U({}) = {}
    OBVIOUS
  <2>2. Cardinality({}) = 0 /\ IsFiniteSet({})
    BY FS_EmptySet
  <2> QED
    BY <2>1, <2>2
<1>2. ASSUME NEW s \in SUBSET S, NEW x \in S \ s, s \in good
      PROVE  s \cup {x} \in good
  <2>1. U(s \cup {x}) = U(s) \cup d[x]
    OBVIOUS
  <2>2. IsFiniteSet(U(s)) /\ IsFiniteSet(s) /\ Cardinality(U(s)) <= n * Cardinality(s)
    BY <1>2
  <2>3. IsFiniteSet(d[x]) /\ Cardinality(d[x]) = n
    OBVIOUS
  <2> HIDE DEF U
  <2>4. /\ IsFiniteSet(U(s) \cup d[x])
        /\ Cardinality(U(s) \cup d[x]) =
              Cardinality(U(s)) + Cardinality(d[x]) - Cardinality(U(s) \cap d[x])
    BY ONLY <2>2, <2>3, FS_Union
  <2>5. Cardinality(U(s) \cap d[x]) \in Nat
    BY <2>2, FS_Subset, FS_CardinalityType
  <2>6. Cardinality(s \cup {x}) = Cardinality(s) + 1 /\ Cardinality(s) \in Nat
        /\ Cardinality(U(s)) \in Nat /\ IsFiniteSet(s \cup {x})
    BY <2>2, FS_AddElement, FS_CardinalityType
  <2>7. n * (Cardinality(s) + 1) = n * Cardinality(s) + n /\ n * Cardinality(s) \in Nat
    BY <2>6
  <2>8. Cardinality(U(s \cup {x})) <= n * Cardinality(s \cup {x})
    <3>1. PICK m, k : m = n * Cardinality(s) /\ k = Cardinality(U(s) \cup d[x])
      OBVIOUS
    <3>2. n * Cardinality(s \cup {x}) = m + n
      BY ONLY <2>6, <2>7, <3>1
    <3>3. m \in Nat /\ Cardinality(U(s)) <= m /\ Cardinality(U(s)) \in Nat
      BY <2>2, <2>6, <2>7, <3>1
    <3>4. k <= m + n
      BY <2>3, <2>4, <2>5, <3>1, <3>3
    <3> QED
      BY <2>1, <3>1, <3>2, <3>4
  <2> QED
    BY <2>1, <2>4, <2>6, <2>8
<1> HIDE DEF good
<1>3. S \in good
  BY <1>1, <1>2, SetInduction
<1> QED
  BY <1>3 DEF good

-----------------------------------------------------------------------------
(* Division *)

LEMMA DivBounds ==
    ASSUME NEW n \in Nat, NEW d \in Nat, d > 0
    PROVE  n \div d \in Nat /\ d * (n \div d) <= n /\ n < d * (n \div d) + d
OBVIOUS

LEMMA TimesMonotone ==
    ASSUME NEW a \in Int, NEW b \in Int, NEW c \in Nat, a <= b
    PROVE  a * c <= b * c /\ c * a <= c * b
OBVIOUS

\* A share of T/W of w is at most w, and w itself only if T is W.
LEMMA DivShare ==
    ASSUME NEW w \in Nat, NEW W \in Nat, W > 0, NEW T \in Nat, T <= W
    PROVE  (T * w) \div W \in Nat /\ (T * w) \div W <= w
           /\ (w > 0 /\ (T * w) \div W = w => T = W)
<1> DEFINE q == (T * w) \div W
<1>1. T * w \in Nat /\ W * w \in Nat
  OBVIOUS
<1>2. q \in Nat /\ W * q <= T * w
  BY <1>1, DivBounds
<1>3. T * w <= W * w
  BY TimesMonotone
<1> HIDE DEF q
<1>4. q <= w
  <2> SUFFICES ASSUME q >= w + 1 PROVE FALSE
    BY <1>2
  <2>1. W * (w + 1) <= W * q
    BY <1>2, TimesMonotone
  <2>2. W * (w + 1) = W * w + W
    OBVIOUS
  <2>3. W * q \in Int
    BY <1>2
  <2> QED
    BY <1>1, <1>2, <1>3, <2>1, <2>2, <2>3
<1>5. ASSUME w > 0, q = w, T # W PROVE FALSE
  <2>1. T + 1 <= W
    BY <1>5
  <2>2. (T + 1) * w <= W * w
    BY <2>1, TimesMonotone
  <2>3. (T + 1) * w = T * w + w
    OBVIOUS
  <2> QED
    BY <1>1, <1>2, <1>5, <2>2, <2>3
<1> QED
  BY <1>2, <1>4, <1>5 DEF q

LEMMA DivWhole ==
    ASSUME NEW w \in Nat, NEW W \in Nat, W > 0
    PROVE  (W * w) \div W = w
<1>1. W * w \in Nat
  OBVIOUS
<1>2. /\ (W * w) \div W \in Nat /\ (W * w) \div W <= w
      /\ W * w < W * ((W * w) \div W) + W
  BY <1>1, DivShare, DivBounds
<1> DEFINE q == (W * w) \div W
<1> HIDE DEF q
<1>3. SUFFICES ASSUME q + 1 <= w PROVE FALSE
  BY <1>2 DEF q
<1>4. W * (q + 1) <= W * w /\ W * (q + 1) = W * q + W
  BY <1>2, <1>3, TimesMonotone DEF q
<1> QED
  BY <1>1, <1>2, <1>4 DEF q

-----------------------------------------------------------------------------
(* Orders, and sums over a part *)

\* In a strict order of a finite set as many members have fewer than r before
\* them as r says.
LEMMA FirstOfOrder ==
    ASSUME NEW S, IsFiniteSet(S), NEW ahead \in [S -> SUBSET S],
           \A k \in S : k \notin ahead[k],
           \A j, k \in S : j \in ahead[k] => ahead[j] \subseteq ahead[k],
           \A j, k \in S : j # k => j \in ahead[k] \/ k \in ahead[j],
           NEW r \in 0..Cardinality(S)
    PROVE  Cardinality({k \in S : Cardinality(ahead[k]) < r}) = r
<1> DEFINE n == Cardinality(S)
           place == [k \in S |-> Cardinality(ahead[k])]
           F == {k \in S : place[k] < r}
           top == [k \in F |-> place[k]]
<1>1. n \in Nat
  BY FS_CardinalityType
<1>2. \A k \in S : IsFiniteSet(ahead[k]) /\ place[k] \in Nat
  BY FS_Subset, FS_CardinalityType
<1>3. \A j, k \in S : j \in ahead[k] => place[j] < place[k]
  <2> SUFFICES ASSUME NEW j \in S, NEW k \in S, j \in ahead[k]
               PROVE  place[j] < place[k]
    OBVIOUS
  <2>1. ahead[j] \subseteq ahead[k] /\ ahead[j] # ahead[k]
    OBVIOUS
  <2>2. Cardinality(ahead[j]) < Cardinality(ahead[k])
    <3>1. PICK a, b : a = ahead[j] /\ b = ahead[k]
      OBVIOUS
    <3>2. IsFiniteSet(b) /\ a \subseteq b /\ a # b
      BY <1>2, <2>1, <3>1
    <3>3. Cardinality(a) <= Cardinality(b) /\ Cardinality(a) # Cardinality(b)
          /\ Cardinality(a) \in Nat /\ Cardinality(b) \in Nat
      BY ONLY <3>2, FS_Subset, FS_CardinalityType
    <3> QED
      BY <3>1, <3>3
  <2> QED
    BY <2>2
<1>4. \A k \in S : place[k] < n
  <2> SUFFICES ASSUME NEW k \in S PROVE place[k] < n
    OBVIOUS
  <2>1. PICK a : a = ahead[k]
    OBVIOUS
  <2>2. a \subseteq S /\ a # S
    BY <2>1
  <2>3. Cardinality(a) <= n /\ Cardinality(a) # n /\ Cardinality(a) \in Nat
    BY ONLY IsFiniteSet(S), <2>2, FS_Subset, FS_CardinalityType
  <2> QED
    BY <1>1, <2>1, <2>3
<1> HIDE DEF n, place
<1>5. place \in Injection(S, 0..(n - 1))
  <2>1. place \in [S -> 0..(n - 1)]
    BY <1>1, <1>2, <1>4 DEF place
  <2>2. \A j, k \in S : place[j] = place[k] => j = k
    BY <1>2, <1>3
  <2> QED
    BY <2>1, <2>2 DEF Injection, IsInjective
<1>6. IsFiniteSet(0..(n - 1)) /\ Cardinality(0..(n - 1)) = n
  BY <1>1, FS_Interval
<1>7. place \in Surjection(S, 0..(n - 1))
  BY <1>5, <1>6, FS_Injection DEF n
<1>8. r \in Nat /\ r <= n
  BY <1>1 DEF n
<1>9. top \in Bijection(F, 0..(r - 1))
  <2>1. top \in [F -> 0..(r - 1)]
    BY <1>2, <1>8
  <2>2. \A j, k \in F : top[j] = top[k] => j = k
    BY <1>5 DEF Injection, IsInjective
  <2>3. \A i \in 0..(r - 1) : \E k \in F : top[k] = i
    <3> SUFFICES ASSUME NEW i \in 0..(r - 1) PROVE \E k \in F : top[k] = i
      OBVIOUS
    <3>1. i \in 0..(n - 1) /\ i < r
      BY <1>1, <1>8
    <3>2. PICK k \in S : place[k] = i
      BY <1>7, <3>1 DEF Surjection
    <3> QED
      BY <3>1, <3>2
  <2> QED
    BY <2>1, <2>2, <2>3 DEF Bijection, Injection, Surjection, IsInjective
<1> HIDE DEF F, top
<1>10. IsFiniteSet(F)
  BY FS_Subset DEF F
<1>11. Cardinality(0..(r - 1)) = Cardinality(F)
  BY <1>9, <1>10, FS_Bijection DEF ExistsBijection
<1>12. Cardinality(0..(r - 1)) = r
  BY <1>8, FS_Interval
<1>13. F = {k \in S : Cardinality(ahead[k]) < r}
  BY DEF F, place
<1> QED
  BY <1>11, <1>12, <1>13

\* What division leaves is less than the divisor.
LEMMA DivRest ==
    ASSUME NEW m \in Nat, NEW d \in Nat, d > 0
    PROVE  /\ m \div d \in Nat /\ m % d \in Nat /\ m % d < d
           /\ m = d * (m \div d) + (m % d)
OBVIOUS

\* Zeros can be left out.
LEMMA TotalSupport ==
    ASSUME NEW S, IsFiniteSet(S), NEW P \in SUBSET S, NEW f \in [S -> Nat],
           \A k \in S \ P : f[k] = 0, NEW g, g = [k \in P |-> f[k]]
    PROVE  Total(f) = Total(g)
<1> DEFINE Q == S \ P
<1>1. Total(g) = On(f, P)
  BY DEF On
<1>2. Total(f) = On(f, S)
  BY TotalOn
<1>3. P \cup Q = S /\ P \cap Q = {} /\ IsFiniteSet(P) /\ IsFiniteSet(Q)
      /\ (\A x \in S : f[x] \in Int) /\ (\A x \in P : f[x] \in Int)
      /\ (\A x \in Q : f[x] = 0)
  BY FS_Subset
<1> HIDE DEF Q
<1>4. On(f, S) = On(f, P) + On(f, Q)
  BY ONLY IsFiniteSet(S), <1>3, SumUnion
<1>5. On(f, Q) = 0 /\ On(f, P) \in Int
  BY ONLY <1>3, SumZero, SumInt
<1> QED
  BY <1>1, <1>2, <1>4, <1>5

=============================================================================
