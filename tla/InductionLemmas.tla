-------------------------- MODULE InductionLemmas ---------------------------
(***************************************************************************)
(* Induction over the natural numbers as a least-element principle, and    *)
(* with it the facts about two recursive functions of the community        *)
(* modules that the proofs need: MapThenSumSet, the sum over a finite set, *)
(* and FlattenSeq, the concatenation of a sequence of sequences.  Their    *)
(* equations and what follows from them are proved here by looking at a    *)
(* smallest counterexample.  Properties are sets, not operators.  A        *)
(* function that is recursive over an interval has its equation because a  *)
(* function with that equation exists (RecursionExists).                   *)
(***************************************************************************)
EXTENDS Integers, FiniteSetsExt, SequencesExt, FiniteSetTheorems,
        WellFoundedInduction, TLAPS

\* Every nonempty set of natural numbers has a least element.
LEMMA LeastNatural ==
    ASSUME NEW T \in SUBSET Nat, T # {}
    PROVE  \E n \in T : \A m \in T : n <= m
<1> DEFINE R == {ss \in Nat \X Nat : ss[1] < ss[2]}
<1>1. IsWellFoundedOn(R, Nat)
  BY NatLessThanWellFounded, Zenon DEF OpToRel
<1> HIDE DEF R
<1>2. \E n \in T : \A m \in T : <<m, n>> \notin R
  BY <1>1, WFMin
<1>3. \A m, n \in Nat : m < n => <<m, n>> \in R
  BY DEF R
<1>4. PICK n \in T : \A m \in T : <<m, n>> \notin R
  BY <1>2
<1>5. ASSUME NEW m \in T PROVE n <= m
  <2>1. n \in Nat /\ m \in Nat /\ ~(m < n)
    BY <1>3, <1>4
  <2> QED  BY <2>1
<1> QED  BY <1>5

\* Induction from 1 to n, for a set G as the property.
LEMMA UptoInduction ==
    ASSUME NEW n \in Nat, NEW G, n >= 1 => 1 \in G,
           \A i \in 1 .. n - 1 : i \in G => i + 1 \in G
    PROVE  \A i \in 1 .. n : i \in G
<1> DEFINE Bad == {i \in 1 .. n : i \notin G}
<1> SUFFICES ASSUME Bad # {} PROVE FALSE
  OBVIOUS
<1>1. Bad \in SUBSET Nat
  OBVIOUS
<1>2. PICK i \in Bad : \A j \in Bad : i <= j
  <2> HIDE DEF Bad
  <2> QED  BY <1>1, LeastNatural
<1>3. i \in 1 .. n /\ i # 1 /\ i \notin G
  BY <1>2
<1>4. i - 1 \in 1 .. n - 1 /\ i - 1 \notin Bad
  <2> HIDE DEF Bad
  <2> QED  BY <1>2, <1>3
<1>5. i - 1 \in G
  BY <1>4
<1>6. (i - 1) + 1 \in G
  BY <1>4, <1>5
<1> QED  BY <1>3, <1>6

\* The values of f at lo, ..., lo + n: a, and what step[k] makes of the one
\* before.
Recurs(f, lo, n, a, step) ==
    f[lo] = a /\ \A k \in lo + 1 .. lo + n : f[k] = step[k][f[k - 1]]

\* A function may be defined by recursion over an interval.
LEMMA RecursionExists ==
    ASSUME NEW lo \in Int, NEW n \in Nat, NEW S, NEW a \in S,
           NEW step \in [lo + 1 .. lo + n -> [S -> S]]
    PROVE  \E f \in [lo .. lo + n -> S] : Recurs(f, lo, n, a, step)
<1> DEFINE D == lo .. lo + n
           Upto(f, m) == f[lo] = a /\ \A k \in lo + 1 .. lo + m : f[k] = step[k][f[k - 1]]
           G == {m \in 0 .. n : \E f \in [D -> S] : Upto(f, m)}
<1>1. 0 \in G
  <2>1. [k \in D |-> a] \in [D -> S] /\ Upto([k \in D |-> a], 0)
    OBVIOUS
  <2> QED  BY <2>1
<1>2. ASSUME NEW m \in 0 .. n - 1, m \in G PROVE m + 1 \in G
  <2>1. PICK f \in [D -> S] : Upto(f, m)
    BY <1>2
  <2> DEFINE k0 == lo + m + 1
             g == [k \in D |-> IF k = k0 THEN step[k0][f[k0 - 1]] ELSE f[k]]
  <2>2. k0 \in lo + 1 .. lo + n /\ k0 - 1 \in D /\ k0 \in D /\ lo \in D /\ k0 # lo
    OBVIOUS
  <2>3. g \in [D -> S]
    <3>1. f[k0 - 1] \in S /\ step[k0] \in [S -> S]
      BY <2>2
    <3> QED  BY <2>2, <3>1
  <2>4. ASSUME NEW k \in D, k # k0 PROVE g[k] = f[k]
    BY <2>4
  <2>5. g[k0] = step[k0][f[k0 - 1]]
    BY <2>2
  <2> HIDE DEF g
  <2>6. ASSUME NEW k \in lo + 1 .. lo + (m + 1) PROVE g[k] = step[k][g[k - 1]]
    <3>1. k \in D /\ k - 1 \in D /\ k - 1 # k0 /\ (k # k0 => k \in lo + 1 .. lo + m)
      BY <2>2
    <3>2. g[k - 1] = f[k - 1]
      BY <2>4, <3>1
    <3>3. CASE k = k0
      BY <2>5, <3>2, <3>3
    <3>4. CASE k # k0
      BY <2>1, <2>4, <3>1, <3>2, <3>4
    <3> QED  BY <3>3, <3>4
  <2>7. Upto(g, m + 1)
    BY <2>1, <2>2, <2>4, <2>6
  <2>8. m + 1 \in 0 .. n
    OBVIOUS
  <2> HIDE DEF Upto
  <2> QED  BY <2>3, <2>7, <2>8
<1>3. n \in G
  <2> HIDE DEF G
  <2>1. n >= 1 => 1 \in G
    BY <1>1, <1>2
  <2>2. \A m \in 1 .. n - 1 : m \in G => m + 1 \in G
    BY <1>2
  <2>3. \A m \in 1 .. n : m \in G
    BY <2>1, <2>2, UptoInduction
  <2> QED  BY <1>1, <2>3
<1> QED  BY <1>3 DEF Recurs

----------------------------------------------------------------------------
(* Sums.                                                                   *)

\* The element that a fold takes out of s.
Pick(s) == CHOOSE x \in s : TRUE

\* g is the sum of h over the subsets of S.
IsSum(g, h, S) ==
    g = [s \in SUBSET S |-> IF s = {} THEN 0 ELSE h[Pick(s)] + g[s \ {Pick(s)}]]

SumOver(h, S) == (CHOOSE g : IsSum(g, h, S))[S]

\* MapThenSumSet, applied to a function.
LEMMA SumUnfold ==
    ASSUME NEW h, NEW S
    PROVE  MapThenSumSet(LAMBDA r : h[r], S) = SumOver(h, S)
  BY DEF MapThenSumSet, MapThenFoldSet, SumOver, IsSum, Pick

\* Taking an element out of a subset of a finite set makes it smaller.
LEMMA PickFacts ==
    ASSUME NEW S, IsFiniteSet(S), NEW s \in SUBSET S
    PROVE  /\ IsFiniteSet(s) /\ Cardinality(s) \in Nat
           /\ Cardinality(s) <= 0 => s = {}
           /\ s # {} => /\ Pick(s) \in s
                        /\ Pick(s) \in S
                        /\ s \ {Pick(s)} \in SUBSET S
                        /\ Cardinality(s \ {Pick(s)}) = Cardinality(s) - 1
<1>1. IsFiniteSet(s) /\ Cardinality(s) \in Nat
  BY FS_Subset, FS_CardinalityType
<1>2. s # {} => Pick(s) \in s
  BY DEF Pick
<1>3. Cardinality(s) <= 0 => s = {}
  <2>1. Cardinality(s) = 0 <=> s = {}
    BY <1>1, FS_EmptySet
  <2> QED  BY <1>1, <2>1
<1> QED  BY <1>1, <1>2, <1>3, FS_RemoveElement

\* The recursive definition of a sum over a finite set has a solution: by
\* induction on n, there is one for the subsets of at most n elements.
LEMMA SumExists ==
    ASSUME NEW S, IsFiniteSet(S), NEW h \in [S -> Nat]
    PROVE  \E g \in [SUBSET S -> Nat] : IsSum(g, h, S)
<1> DEFINE Upto(g, n) == \A s \in SUBSET S : Cardinality(s) <= n =>
                           g[s] = IF s = {} THEN 0 ELSE h[Pick(s)] + g[s \ {Pick(s)}]
           Bad == {n \in Nat : ~\E g \in [SUBSET S -> Nat] : Upto(g, n)}
<1>1. ASSUME NEW s \in SUBSET S, s # {}
      PROVE  /\ Pick(s) \in S /\ s \ {Pick(s)} \in SUBSET S
             /\ Cardinality(s) \in Nat
             /\ Cardinality(s \ {Pick(s)}) = Cardinality(s) - 1
  BY <1>1, PickFacts
<1>2. 0 \notin Bad
  <2>1. \A s \in SUBSET S : Cardinality(s) <= 0 => s = {}
    <3> SUFFICES ASSUME NEW s \in SUBSET S, Cardinality(s) <= 0 PROVE s = {}
      OBVIOUS
    <3> QED  BY PickFacts
  <2>2. Upto([s \in SUBSET S |-> 0], 0)
    BY <2>1
  <2>3. [s \in SUBSET S |-> 0] \in [SUBSET S -> Nat]
    OBVIOUS
  <2> QED  BY <2>2, <2>3
<1>3. ASSUME NEW n \in Nat, n \notin Bad PROVE n + 1 \notin Bad
  <2>1. PICK g \in [SUBSET S -> Nat] : Upto(g, n)
    BY <1>3
  <2> DEFINE g2 == [s \in SUBSET S |-> IF s = {} THEN 0 ELSE h[Pick(s)] + g[s \ {Pick(s)}]]
  <2>2. g2 \in [SUBSET S -> Nat]
    <3> SUFFICES ASSUME NEW s \in SUBSET S, s # {}
                 PROVE  h[Pick(s)] + g[s \ {Pick(s)}] \in Nat
      OBVIOUS
    <3>1. Pick(s) \in S /\ s \ {Pick(s)} \in SUBSET S
      BY <1>1
    <3>2. h[Pick(s)] \in Nat /\ g[s \ {Pick(s)}] \in Nat
      BY <3>1
    <3> QED  BY <3>2
  <2>3. \A t \in SUBSET S : Cardinality(t) <= n => g2[t] = g[t]
    BY <2>1
  <2>4. Upto(g2, n + 1)
    <3> SUFFICES ASSUME NEW s \in SUBSET S, Cardinality(s) <= n + 1
                 PROVE  g2[s] = IF s = {} THEN 0 ELSE h[Pick(s)] + g2[s \ {Pick(s)}]
      OBVIOUS
    <3>1. CASE s = {}
      BY <3>1
    <3>2. CASE s # {}
      <4>1. /\ s \ {Pick(s)} \in SUBSET S 
            /\ Cardinality(s \ {Pick(s)}) <= n
        BY <1>1, <3>2
      <4>2. g2[s \ {Pick(s)}] = g[s \ {Pick(s)}]
        BY <2>3, <4>1
      <4>3. g2[s] = h[Pick(s)] + g[s \ {Pick(s)}]
        BY <3>2
      <4> QED BY <3>2, <4>2, <4>3
    <3> QED BY <3>1, <3>2
  <2> HIDE DEF g2, Upto
  <2> QED  BY <2>2, <2>4
<1>4. Bad = {}
  <2>0. Bad \in SUBSET Nat
    OBVIOUS
  <2> HIDE DEF Bad
  <2> SUFFICES ASSUME Bad # {} PROVE FALSE
    OBVIOUS
  <2>1. PICK n \in Bad : \A m \in Bad : n <= m
    BY <2>0, LeastNatural
  <2>2. n \in Nat /\ n # 0
    BY <1>2, <2>0
  <2>3. n - 1 \in Nat /\ n - 1 \notin Bad
    BY <2>1, <2>2
  <2> QED  BY <1>3, <2>1, <2>2, <2>3
<1>5. Cardinality(S) \in Nat
  BY FS_CardinalityType
<1>6. PICK g \in [SUBSET S -> Nat] : Upto(g, Cardinality(S))
  BY <1>4, <1>5
<1>7. \A s \in SUBSET S : g[s] = IF s = {} THEN 0 ELSE h[Pick(s)] + g[s \ {Pick(s)}]
  BY <1>6, FS_Subset
<1> QED  BY <1>7 DEF IsSum

\* The equation of a sum, by cases.
SumEquation(g, h, S) ==
    \A s \in SUBSET S : /\ s = {} => g[s] = 0
                        /\ s # {} => g[s] = h[Pick(s)] + g[s \ {Pick(s)}]

\* A sum satisfies it.
LEMMA SumCases ==
    ASSUME NEW S, NEW h, NEW g, IsSum(g, h, S)
    PROVE  SumEquation(g, h, S)
  BY DEF IsSum, SumEquation

\* Induction on the size of the subsets of a finite set: a property G that s
\* has whenever all smaller subsets have it, all subsets have.
LEMMA SubsetInduction ==
    ASSUME NEW S, IsFiniteSet(S), NEW G,
           ASSUME NEW s \in SUBSET S,
                  \A t \in SUBSET S : Cardinality(t) < Cardinality(s) => t \in G
           PROVE  s \in G
    PROVE  \A s \in SUBSET S : s \in G
<1> DEFINE Bad == {n \in Nat : \E s \in SUBSET S : Cardinality(s) = n /\ s \notin G}
<1> SUFFICES ASSUME NEW bad \in SUBSET S, bad \notin G PROVE FALSE
  OBVIOUS
<1>1. \A s \in SUBSET S : Cardinality(s) \in Nat
  BY FS_Subset, FS_CardinalityType
<1>2. Bad \in SUBSET Nat /\ Bad # {}
  BY <1>1
<1>3. PICK n \in Bad : \A m \in Bad : n <= m
  <2> HIDE DEF Bad
  <2> QED  BY <1>2, LeastNatural
<1>4. PICK s \in SUBSET S : Cardinality(s) = n /\ s \notin G
  BY <1>3
<1>5. ASSUME NEW t \in SUBSET S, Cardinality(t) < Cardinality(s) PROVE t \in G
  <2>1. Cardinality(t) \in Nat /\ n \in Nat /\ ~(n <= Cardinality(t))
    BY <1>1, <1>4, <1>5
  <2>2. Cardinality(t) \notin Bad
    <3> HIDE DEF Bad
    <3> QED  BY <1>3, <2>1
  <2> QED  BY <2>1, <2>2
<1> QED  BY <1>4, <1>5

\* Sums of natural numbers are natural numbers, and a larger function has a
\* larger sum.
LEMMA SumsCompare ==
    ASSUME NEW S, IsFiniteSet(S), NEW h \in [S -> Nat], NEW k \in [S -> Nat],
           \A x \in S : h[x] <= k[x],
           NEW gh, IsSum(gh, h, S), NEW gk, IsSum(gk, k, S)
    PROVE  \A s \in SUBSET S : gh[s] \in Nat /\ gk[s] \in Nat /\ gh[s] <= gk[s]
<1> DEFINE G == {s \in SUBSET S : gh[s] \in Nat /\ gk[s] \in Nat /\ gh[s] <= gk[s]}
<1>1. SumEquation(gh, h, S) /\ SumEquation(gk, k, S)
  BY SumCases
<1>2. ASSUME NEW s \in SUBSET S,
             \A t \in SUBSET S : Cardinality(t) < Cardinality(s) => t \in G
      PROVE  s \in G
  <2>1. CASE s = {}
    <3>1. gh[s] = 0 /\ gk[s] = 0
      BY <1>1, <2>1 DEF SumEquation
    <3> QED  BY <3>1
  <2>2. CASE s # {}
    <3> DEFINE t == s \ {Pick(s)}
    <3>1. Pick(s) \in S /\ t \in G
      <4> HIDE DEF G
      <4>1. Pick(s) \in S /\ t \in SUBSET S /\ Cardinality(t) < Cardinality(s)
        BY <2>2, PickFacts
      <4> QED  BY <1>2, <4>1
    <3>2. gh[s] = h[Pick(s)] + gh[t] /\ gk[s] = k[Pick(s)] + gk[t]
      BY <1>1, <2>2 DEF SumEquation
    <3> HIDE DEF t
    <3>3. h[Pick(s)] \in Nat /\ k[Pick(s)] \in Nat /\ h[Pick(s)] <= k[Pick(s)]
      BY <3>1
    <3> QED  BY <3>1, <3>2, <3>3
  <2> QED  BY <2>1, <2>2
<1>3. \A s \in SUBSET S : s \in G
  <2> HIDE DEF G
  <2> QED  BY <1>2, SubsetInduction
<1> QED  BY <1>3

\* Sums of functions that agree on s are the same, whatever finite sets the
\* sums are taken in.
LEMMA SumsAgree ==
    ASSUME NEW S, IsFiniteSet(S), NEW T, NEW h, NEW k,
           S \subseteq T, \A x \in S : h[x] = k[x],
           NEW gh, IsSum(gh, h, S), NEW gk, IsSum(gk, k, T)
    PROVE  \A s \in SUBSET S : gh[s] = gk[s]
<1> DEFINE G == {s \in SUBSET S : gh[s] = gk[s]}
<1>1. SumEquation(gh, h, S) /\ SumEquation(gk, k, T)
  BY SumCases
<1>2. ASSUME NEW s \in SUBSET S,
             \A t \in SUBSET S : Cardinality(t) < Cardinality(s) => t \in G
      PROVE  s \in G
  <2>0. s \in SUBSET T
    OBVIOUS
  <2>1. CASE s = {}
    BY <1>1, <2>0, <2>1 DEF SumEquation
  <2>2. CASE s # {}
    <3> DEFINE t == s \ {Pick(s)}
    <3>1. Pick(s) \in S /\ t \in G
      <4> HIDE DEF G
      <4>1. Pick(s) \in S /\ t \in SUBSET S /\ Cardinality(t) < Cardinality(s)
        BY <2>2, PickFacts
      <4> QED  BY <1>2, <4>1
    <3>2. gh[s] = h[Pick(s)] + gh[t] /\ gk[s] = k[Pick(s)] + gk[t]
      BY <1>1, <2>0, <2>2 DEF SumEquation
    <3> HIDE DEF t
    <3> QED  BY <3>1, <3>2
  <2> QED  BY <2>1, <2>2
<1>3. \A s \in SUBSET S : s \in G
  <2> HIDE DEF G
  <2> QED  BY <1>2, SubsetInduction
<1> QED  BY <1>3

\* Any element may be taken out of a sum first, not only the one that Pick
\* takes.
LEMMA SumsRemove ==
    ASSUME NEW S, IsFiniteSet(S), NEW h \in [S -> Nat], NEW g, IsSum(g, h, S)
    PROVE  \A s \in SUBSET S : \A x \in s : g[s] = h[x] + g[s \ {x}]
<1> DEFINE G == {s \in SUBSET S : \A x \in s : g[s] = h[x] + g[s \ {x}]}
<1>1. SumEquation(g, h, S)
  BY SumCases
<1>2. \A s \in SUBSET S : g[s] \in Nat
  <2>1. \A x \in S : h[x] <= h[x]
    OBVIOUS
  <2> QED  BY <2>1, SumsCompare
<1>3. ASSUME NEW s \in SUBSET S,
             \A t \in SUBSET S : Cardinality(t) < Cardinality(s) => t \in G
      PROVE  s \in G
  <2> SUFFICES ASSUME NEW x \in s PROVE g[s] = h[x] + g[s \ {x}]
    OBVIOUS
  <2> DEFINE y == Pick(s)
             t == s \ {y}
             u == s \ {x}
             v == t \ {x}
  <2>1. g[s] = h[y] + g[t]
    BY <1>1 DEF SumEquation
  <2>2. CASE x = y
    BY <2>1, <2>2
  <2>3. CASE x # y
    <3>1. y \in s /\ Cardinality(s) \in Nat /\ IsFiniteSet(s)
      BY PickFacts
    <3>2. Cardinality(t) < Cardinality(s) /\ Cardinality(u) < Cardinality(s)
      <4> HIDE DEF y
      <4>1. Cardinality(t) = Cardinality(s) - 1
        BY <3>1, FS_RemoveElement
      <4>2. Cardinality(u) = Cardinality(s) - 1
        BY <3>1, FS_RemoveElement
      <4> HIDE DEF t, u
      <4> QED  BY <3>1, <4>1, <4>2
    <3>3. t \in G /\ u \in G
      <4> HIDE DEF G
      <4> QED  BY <1>3, <3>2
    <3>4. x \in t /\ y \in u /\ v = u \ {y} /\ v \in SUBSET S
      BY <2>3, <3>1
    <3>5. g[t] = h[x] + g[v] /\ g[u] = h[y] + g[v]
      BY <3>3, <3>4
    <3>6. h[x] \in Nat /\ h[y] \in Nat /\ g[v] \in Nat
      BY <1>2, <3>1, <3>4
    <3> HIDE DEF t, u, v, y
    <3>7. g[s] = h[x] + g[u]
      BY <2>1, <3>5, <3>6
    <3> QED  BY <3>7 DEF u
  <2> QED  BY <2>2, <2>3
<1>4. \A s \in SUBSET S : s \in G
  <2> HIDE DEF G
  <2> QED  BY <1>3, SubsetInduction
<1> QED  BY <1>4

\* The sum that MapThenSumSet computes is one.
LEMMA TheSum ==
    ASSUME NEW S, IsFiniteSet(S), NEW h \in [S -> Nat]
    PROVE  \E g : IsSum(g, h, S) /\ SumOver(h, S) = g[S]
<1>1. PICK g : g = CHOOSE f : IsSum(f, h, S)
  OBVIOUS
<1>2. IsSum(g, h, S)
  BY <1>1, SumExists
<1> QED  BY <1>1, <1>2 DEF SumOver

\* A sum is a natural number, and the one of a larger function is larger.
LEMMA SumMonotonic ==
    ASSUME NEW S, IsFiniteSet(S), NEW h \in [S -> Nat], NEW k \in [S -> Nat],
           \A x \in S : h[x] <= k[x]
    PROVE  /\ SumOver(h, S) \in Nat /\ SumOver(k, S) \in Nat
           /\ SumOver(h, S) <= SumOver(k, S)
<1>1. PICK gh : IsSum(gh, h, S) /\ SumOver(h, S) = gh[S]
  BY TheSum
<1>2. PICK gk : IsSum(gk, k, S) /\ SumOver(k, S) = gk[S]
  BY TheSum
<1> QED  BY <1>1, <1>2, SumsCompare

\* A sum is a natural number.
LEMMA SumType ==
    ASSUME NEW S, IsFiniteSet(S), NEW h \in [S -> Nat]
    PROVE  SumOver(h, S) \in Nat
<1>1. \A x \in S : h[x] <= h[x]
  OBVIOUS
<1> QED  BY <1>1, SumMonotonic

\* Taking one element out of a sum; k need only agree with h on the rest.
LEMMA SumRemove ==
    ASSUME NEW S, IsFiniteSet(S), NEW h \in [S -> Nat], NEW x \in S,
           NEW k \in [S \ {x} -> Nat], \A y \in S \ {x} : k[y] = h[y]
    PROVE  SumOver(h, S) = h[x] + SumOver(k, S \ {x})
<1> DEFINE T == S \ {x}
<1>1. PICK gh : IsSum(gh, h, S) /\ SumOver(h, S) = gh[S]
  BY TheSum
<1>2. IsFiniteSet(T) /\ T \subseteq S
  BY FS_Subset
<1>3. PICK gk : IsSum(gk, k, T) /\ SumOver(k, T) = gk[T]
  BY <1>2, TheSum
<1>4. gk[T] = gh[T]
  <2> HIDE DEF T
  <2>1. \A y \in T : k[y] = h[y]
    BY DEF T
  <2>2. \A s \in SUBSET T : gk[s] = gh[s]
    BY <1>1, <1>2, <1>3, <2>1, SumsAgree
  <2> QED  BY <2>2
<1>5. gh[S] = h[x] + gh[T]
  BY <1>1, SumsRemove
<1> QED  BY <1>1, <1>3, <1>4, <1>5

\* Two functions that differ at x only: so do their sums, by as much.
LEMMA SumDiffer ==
    ASSUME NEW S, IsFiniteSet(S), NEW h \in [S -> Nat], NEW k \in [S -> Nat],
           NEW x \in S, \A y \in S \ {x} : k[y] = h[y]
    PROVE  SumOver(k, S) - k[x] = SumOver(h, S) - h[x]
<1> DEFINE f == [y \in S \ {x} |-> h[y]]
<1>0. IsFiniteSet(S \ {x}) 
  BY FS_Subset
<1>1. f \in [S \ {x} -> Nat] /\ (\A y \in S \ {x} : f[y] = h[y])
      /\ (\A y \in S \ {x} : f[y] = k[y])
  OBVIOUS
<1> HIDE DEF f
<1>2. SumOver(f, S \ {x}) \in Nat
  BY <1>0, <1>1, SumType
<1>3. SumOver(h, S) = h[x] + SumOver(f, S \ {x})
  BY <1>1, SumRemove
<1>4. SumOver(k, S) = k[x] + SumOver(f, S \ {x})
  BY <1>1, SumRemove
<1>5. h[x] \in Nat /\ k[x] \in Nat
  OBVIOUS
<1> QED  BY <1>2, <1>3, <1>4, <1>5

\* A sum of zeros.
LEMMA SumZero ==
    ASSUME NEW S, IsFiniteSet(S), NEW h \in [S -> Nat], \A x \in S : h[x] = 0
    PROVE  SumOver(h, S) = 0
<1>1. PICK g : IsSum(g, h, S) /\ SumOver(h, S) = g[S]
  BY TheSum
<1>2. SumEquation(g, h, S)
  BY <1>1, SumCases
<1> DEFINE G == {s \in SUBSET S : g[s] = 0}
<1>3. ASSUME NEW s \in SUBSET S,
             \A t \in SUBSET S : Cardinality(t) < Cardinality(s) => t \in G
      PROVE  s \in G
  <2>1. CASE s = {}
    BY <1>2, <2>1 DEF SumEquation
  <2>2. CASE s # {}
    <3> DEFINE t == s \ {Pick(s)}
    <3>1. Pick(s) \in S /\ t \in G
      <4> HIDE DEF G
      <4> QED  BY <1>3, <2>2, PickFacts
    <3>2. g[s] = h[Pick(s)] + g[t]
      BY <1>2, <2>2 DEF SumEquation
    <3> HIDE DEF t
    <3> QED  BY <3>1, <3>2
  <2> QED  BY <2>1, <2>2
<1>4. \A s \in SUBSET S : s \in G
  <2> HIDE DEF G
  <2> QED  BY <1>3, SubsetInduction
<1> QED  BY <1>1, <1>4

----------------------------------------------------------------------------
(* Concatenations.                                                         *)

\* f[i] is the concatenation of the first i sequences of q.
IsFlat(f, q) == f = [i \in 1 .. Len(q) |-> IF i = 1 THEN q[i] ELSE f[i - 1] \o q[i]]

\* The equation of a concatenation, by cases.
FlatEquation(f, q) ==
    \A i \in 1 .. Len(q) : /\ i = 1 => f[i] = q[i]
                           /\ i # 1 => f[i] = f[i - 1] \o q[i]

\* A concatenation satisfies it.
LEMMA FlatCases ==
    ASSUME NEW q, NEW f, IsFlat(f, q)
    PROVE  FlatEquation(f, q)
  BY DEF IsFlat, FlatEquation

\* Concatenation keeps the elements' type.
LEMMA CatType ==
    ASSUME NEW S, NEW s \in Seq(S), NEW t \in Seq(S)
    PROVE  s \o t \in Seq(S)
  OBVIOUS

\* The recursive definition of a concatenation has a solution: by induction
\* on n, there is one for the first n sequences.
LEMMA FlatExists ==
    ASSUME NEW S, NEW q \in Seq(Seq(S))
    PROVE  \E f : IsFlat(f, q)
<1> DEFINE D == 1 .. Len(q)
           Upto(f, n) == \A i \in D : i <= n =>
                           f[i] = IF i = 1 THEN q[i] ELSE f[i - 1] \o q[i]
           G == {n \in Nat : \E f : f = [i \in D |-> f[i]] /\ Upto(f, n)}
<1>0. Len(q) \in Nat
  OBVIOUS
<1>1. CASE Len(q) = 0
  <2>1. IsFlat([i \in D |-> q[i]], q)
    BY <1>1 DEF IsFlat
  <2> QED  BY <2>1
<1>2. CASE Len(q) >= 1
  <2>1. 1 \in G
    <3>1. Upto([i \in D |-> q[1]], 1)
      BY <1>2
    <3> QED  BY <3>1
  <2>2. ASSUME NEW n \in 1 .. Len(q) - 1, n \in G PROVE n + 1 \in G
    <3>1. PICK f : f = [i \in D |-> f[i]] /\ Upto(f, n)
      BY <2>2
    <3> DEFINE g == [i \in D |-> IF i = 1 THEN q[i] ELSE f[i - 1] \o q[i]]
    <3>2. \A i \in D : i <= n => g[i] = f[i]
      BY <3>1
    <3>3. Upto(g, n + 1)
      <4> SUFFICES ASSUME NEW i \in D, i <= n + 1
                   PROVE  g[i] = IF i = 1 THEN q[i] ELSE g[i - 1] \o q[i]
        OBVIOUS
      <4>1. i # 1 => i - 1 \in D /\ i - 1 <= n
        OBVIOUS
      <4>2. i # 1 => g[i - 1] = f[i - 1]
        <5> HIDE DEF g
        <5> QED  BY <3>2, <4>1
      <4> QED  BY <4>2
    <3>4. g = [i \in D |-> g[i]]
      OBVIOUS
    <3> HIDE DEF g, Upto
    <3> QED  BY <3>3, <3>4
  <2>3. \A n \in D : n \in G
    <3> HIDE DEF G
    <3> QED  BY <1>0, <2>1, <2>2, UptoInduction
  <2>4. PICK f : f = [i \in D |-> f[i]] /\ Upto(f, Len(q))
    <3>1. Len(q) \in G
      <4> HIDE DEF G
      <4> QED  BY <1>0, <1>2, <2>3
    <3> HIDE DEF Upto
    <3> QED  BY <3>1
  <2> DEFINE h == [i \in D |-> IF i = 1 THEN q[i] ELSE f[i - 1] \o q[i]]
  <2>5. ASSUME NEW i \in D PROVE f[i] = h[i]
    <3>1. i <= Len(q)
      BY <1>0
    <3>2. f[i] = IF i = 1 THEN q[i] ELSE f[i - 1] \o q[i]
      BY <2>4, <3>1
    <3> QED  BY <3>2
  <2>6. h = [i \in D |-> h[i]]
    OBVIOUS
  <2>7. f = h
    <3> HIDE DEF h, Upto
    <3> QED  BY <2>4, <2>5, <2>6
  <2> QED  BY <2>7 DEF IsFlat
<1> QED  BY <1>0, <1>1, <1>2

\* Concatenations of sequences that begin alike begin alike.
LEMMA FlatsAgree ==
    ASSUME NEW S, NEW q \in Seq(Seq(S)), NEW r \in Seq(Seq(S)), NEW n \in Nat,
           n <= Len(q), n <= Len(r), \A i \in 1 .. n : q[i] = r[i],
           NEW f, IsFlat(f, q), NEW g, IsFlat(g, r)
    PROVE  \A i \in 1 .. n : f[i] = g[i] /\ f[i] \in Seq(S)
<1> DEFINE G == {i \in 1 .. n : f[i] = g[i] /\ f[i] \in Seq(S)}
<1>1. FlatEquation(f, q) /\ FlatEquation(g, r)
  BY FlatCases
<1>2. n >= 1 => 1 \in G
  <2> SUFFICES ASSUME n >= 1 PROVE 1 \in G
    OBVIOUS
  <2>1. 1 \in 1 .. Len(q) /\ 1 \in 1 .. Len(r)
    OBVIOUS
  <2>2. f[1] = q[1] /\ g[1] = r[1]
    BY <1>1, <2>1 DEF FlatEquation
  <2>3. q[1] \in Seq(S) 
    BY <2>1
  <2> QED  BY <2>2, <2>3
<1>3. ASSUME NEW i \in 1 .. n - 1, i \in G PROVE i + 1 \in G
  <2>1. i + 1 \in 1 .. Len(q) /\ i + 1 \in 1 .. Len(r) /\ i + 1 # 1 /\ (i + 1) - 1 = i
    OBVIOUS
  <2>2. f[i + 1] = f[i] \o q[i + 1] /\ g[i + 1] = g[i] \o r[i + 1]
    BY <1>1, <2>1 DEF FlatEquation
  <2>3. f[i] = g[i] /\ q[i + 1] = r[i + 1] /\ f[i] \in Seq(S) /\ q[i + 1] \in Seq(S)
    BY <1>3, <2>1
  <2>4. f[i + 1] = g[i + 1] 
    BY <2>2, <2>3
  <2>5. f[i + 1] \in Seq(S)
    <3>1. f[i] \o q[i + 1] \in Seq(S)
      BY <2>3, CatType
    <3> QED  BY <2>2, <3>1
  <2>6. i + 1 \in 1 .. n
    OBVIOUS
  <2> QED  BY <2>4, <2>5, <2>6
<1>4. \A i \in 1 .. n : i \in G
  <2> HIDE DEF G
  <2> QED  BY <1>2, <1>3, UptoInduction
<1> QED  BY <1>4

\* FlattenSeq computes a concatenation.
LEMMA TheFlat ==
    ASSUME NEW S, NEW q \in Seq(Seq(S)), Len(q) # 0
    PROVE  \E f : IsFlat(f, q) /\ FlattenSeq(q) = f[Len(q)]
<1>1. PICK f : f = CHOOSE g : IsFlat(g, q)
  OBVIOUS
<1>2. IsFlat(f, q)
  BY <1>1, FlatExists
<1>3. FlattenSeq(q) = f[Len(q)]
  BY <1>1 DEF FlattenSeq, IsFlat
<1> QED  BY <1>2, <1>3

\* The concatenation of no sequences.
LEMMA FlattenEmpty == FlattenSeq(<<>>) = <<>>
  BY DEF FlattenSeq

\* A concatenation is a sequence.
LEMMA FlattenType ==
    ASSUME NEW S, NEW q \in Seq(Seq(S))
    PROVE  FlattenSeq(q) \in Seq(S)
<1>1. CASE Len(q) = 0
  <2>1. q = <<>> /\ <<>> \in Seq(S)
    BY <1>1
  <2> QED  BY <2>1, FlattenEmpty
<1>2. CASE Len(q) # 0
  <2>1. PICK f : IsFlat(f, q) /\ FlattenSeq(q) = f[Len(q)]
    BY <1>2, TheFlat
  <2>2. Len(q) \in Nat /\ Len(q) \in 1 .. Len(q)
    BY <1>2
  <2>3. f[Len(q)] \in Seq(S)
    BY <2>1, <2>2, FlatsAgree
  <2> QED  BY <2>1, <2>3
<1> QED  BY <1>1, <1>2

\* One more sequence at the end.
LEMMA FlattenAppend ==
    ASSUME NEW S, NEW q \in Seq(Seq(S)), NEW x \in Seq(S)
    PROVE  FlattenSeq(Append(q, x)) = FlattenSeq(q) \o x
<1> DEFINE r == Append(q, x)
<1>1. /\ r \in Seq(Seq(S)) /\ Len(r) = Len(q) + 1 /\ Len(q) \in Nat
      /\ r[Len(q) + 1] = x /\ \A i \in 1 .. Len(q) : r[i] = q[i]
  OBVIOUS
<1> HIDE DEF r
<1>2. Len(r) # 0 /\ Len(r) \in 1 .. Len(r)
  BY <1>1
<1>3. PICK g : IsFlat(g, r) /\ FlattenSeq(r) = g[Len(r)]
  BY <1>1, <1>2, TheFlat
<1>4. FlatEquation(g, r)
  BY <1>3, FlatCases
<1>5. CASE Len(q) = 0
  <2>1. g[Len(r)] = x
    BY <1>1, <1>2, <1>4, <1>5 DEF FlatEquation
  <2>2. q = <<>> /\ <<>> \o x = x
    BY <1>5
  <2> QED  BY <1>3, <2>1, <2>2, FlattenEmpty DEF r
<1>6. CASE Len(q) # 0
  <2>1. PICK f : IsFlat(f, q) /\ FlattenSeq(q) = f[Len(q)]
    BY <1>6, TheFlat
  <2>2. f[Len(q)] = g[Len(q)]
    <3>1. Len(q) \in 1 .. Len(q) /\ Len(q) <= Len(q) /\ Len(q) <= Len(r)
      BY <1>1, <1>6
    <3>2. \A i \in 1 .. Len(q) : q[i] = r[i]
      BY <1>1
    <3>3. \A i \in 1 .. Len(q) : f[i] = g[i] /\ f[i] \in Seq(S)
      BY <1>1, <1>3, <2>1, <3>1, <3>2, FlatsAgree
    <3> QED  BY <3>1, <3>3
  <2>3. g[Len(r)] = g[Len(q)] \o x
    <3>1. Len(r) # 1 /\ Len(r) - 1 = Len(q)
      BY <1>1, <1>6
    <3> QED  BY <1>1, <1>2, <1>4, <3>1 DEF FlatEquation
  <2> QED  BY <1>3, <2>1, <2>2, <2>3 DEF r
<1> QED  BY <1>5, <1>6

\* A concatenation may be cut anywhere.
LEMMA FlattenCut ==
    ASSUME NEW S, NEW q \in Seq(Seq(S)), NEW n \in 0 .. Len(q)
    PROVE  FlattenSeq(q) = FlattenSeq(SubSeq(q, 1, n))
                              \o FlattenSeq(SubSeq(q, n + 1, Len(q)))
<1> DEFINE P(i, j) == FlattenSeq(SubSeq(q, i, j))
           G == {k \in 0 .. Len(q) - n : P(1, n + k) = P(1, n) \o P(n + 1, n + k)}
<1>0. Len(q) \in Nat /\ n \in Nat /\ n <= Len(q)
  OBVIOUS
<1>1. ASSUME NEW i \in 1 .. Len(q) + 1, NEW j \in 0 .. Len(q) PROVE P(i, j) \in Seq(S)
  <2>1. SubSeq(q, i, j) \in Seq(Seq(S))
    OBVIOUS
  <2> QED  BY <2>1, FlattenType
<1>2. ASSUME NEW i \in 1 .. Len(q), NEW j \in 0 .. Len(q) - 1, i <= j + 1
      PROVE  P(i, j + 1) = P(i, j) \o q[j + 1]
  <2>1. SubSeq(q, i, j) \in Seq(Seq(S)) /\ q[j + 1] \in Seq(S)
    OBVIOUS
  <2>2. SubSeq(q, i, j + 1) = Append(SubSeq(q, i, j), q[j + 1])
    BY <1>2
  <2> QED  BY <2>1, <2>2, FlattenAppend
<1>3. 0 \in G
  <2>1. SubSeq(q, n + 1, n + 0) = <<>> /\ n + 0 = n
    BY <1>0
  <2>2. P(n + 1, n + 0) = <<>>
    BY <2>1, FlattenEmpty
  <2>3. P(1, n) \in Seq(S)
    BY <1>0, <1>1
  <2>5. 0 \in 0 .. Len(q) - n
    BY <1>0
  <2> HIDE DEF P
  <2>4. P(1, n) \o <<>> = P(1, n)
    BY <2>3
  <2> QED  BY <2>1, <2>2, <2>4, <2>5
<1>4. ASSUME NEW k \in 0 .. Len(q) - n - 1, k \in G PROVE k + 1 \in G
  <2> HIDE DEF P
  <2>0. /\ 1 \in 1 .. Len(q) /\ n + 1 \in 1 .. Len(q) /\ n + k \in 0 .. Len(q) - 1
        /\ 1 <= n + k + 1 /\ n + 1 <= n + k + 1
        /\ n \in 0 .. Len(q) /\ n + k \in 0 .. Len(q)
        /\ 1 \in 1 .. Len(q) + 1 /\ n + 1 \in 1 .. Len(q) + 1
    BY <1>0
  <2>1. P(1, n + k + 1) = P(1, n + k) \o q[n + k + 1]
    BY <1>2, <2>0
  <2>2. P(n + 1, n + k + 1) = P(n + 1, n + k) \o q[n + k + 1]
    BY <1>2, <2>0
  <2>3. q[n + k + 1] \in Seq(S)
    BY <1>0
  <2>4. P(1, n) \in Seq(S) /\ P(n + 1, n + k) \in Seq(S)
    BY <1>1, <2>0
  <2>5. P(1, n + k) = P(1, n) \o P(n + 1, n + k)
    BY <1>4
  <2>6. P(1, n + k + 1) = P(1, n) \o P(n + 1, n + k + 1)
    <3> DEFINE a == P(1, n)
               b == P(n + 1, n + k)
               c == q[n + k + 1]
    <3>1. a \in Seq(S) /\ b \in Seq(S) /\ c \in Seq(S)
      BY <2>3, <2>4
    <3> HIDE DEF a, b, c
    <3>2. (a \o b) \o c = a \o (b \o c)
      BY ONLY <3>1
    <3> QED  BY <2>1, <2>2, <2>5, <3>2 DEF a, b, c
  <2>7. k + 1 \in 0 .. Len(q) - n /\ n + (k + 1) = n + k + 1
    BY <1>0
  <2> QED  BY <2>6, <2>7
<1>5. Len(q) - n \in G
  <2> HIDE DEF G
  <2>1. \A k \in 1 .. Len(q) - n : k \in G
    <3>1. Len(q) - n \in Nat
      BY <1>0
    <3>2. Len(q) - n >= 1 => 1 \in G
      BY <1>0, <1>3, <1>4
    <3>3. \A k \in 1 .. Len(q) - n - 1 : k \in G => k + 1 \in G
      BY <1>0, <1>4
    <3> QED  BY <3>1, <3>2, <3>3, UptoInduction
  <2> QED  BY <1>0, <1>3, <2>1
<1>6. SubSeq(q, 1, Len(q)) = q /\ n + (Len(q) - n) = Len(q)
  BY <1>0
<1> QED  BY <1>5, <1>6
=============================================================================
