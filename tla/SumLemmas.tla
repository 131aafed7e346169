----------------------------- MODULE SumLemmas -----------------------------
(***************************************************************************)
(* Sums over finite sets: what SumFunctionOnSet of Functions computes, for *)
(* every finite set of integers. It is defined as a fold that takes an     *)
(* element out of the set by CHOOSE, so its equations are proved here by   *)
(* taking the smallest set that breaks one of them.                        *)
(*                                                                         *)
(* The models add up payments and spendings of finitely many calls.        *)
(***************************************************************************)
EXTENDS Integers, FiniteSets, Functions, FiniteSetTheorems, WellFoundedInduction, TLAPS

\* A set of numbers that is not empty has a least one.
LEMMA LeastNumber ==
    ASSUME NEW T \in SUBSET Nat, T # {}
    PROVE  \E n \in T : \A m \in T : n <= m
<1>1. PICK R : R = {pair \in Nat \X Nat : pair[1] < pair[2]}
  OBVIOUS
<1>2. IsWellFoundedOn(R, Nat)
  BY <1>1, NatLessThanWellFounded DEF OpToRel
<1>3. PICK n \in T : \A m \in T : ~ (<<m, n>> \in R)
  BY <1>2, WFMin
<1>4. ASSUME NEW m \in T, m < n PROVE FALSE
  <2>1. <<m, n>> \in Nat \X Nat /\ <<m, n>>[1] < <<m, n>>[2]
    BY <1>4
  <2>2. <<m, n>> \in R
    BY <1>1, <2>1, Zenon
  <2>3. QED
    BY <1>3, <2>2
<1>5. n \in Nat /\ T \subseteq Nat
  OBVIOUS
<1>6. \A m \in T : n <= m
  BY <1>4, <1>5
<1>7. QED
  BY <1>6

\* Induction over the subsets of a finite set: a family that has the empty
\* set, and with a set each that has one element more, has them all.
LEMMA SubsetInduction ==
    ASSUME NEW S, IsFiniteSet(S), NEW G \in SUBSET SUBSET S, {} \in G,
           \A s \in G : \A y \in S \ s : s \cup {y} \in G
    PROVE  G = SUBSET S
<1> DEFINE Bad == (SUBSET S) \ G
           T == {Cardinality(b) : b \in Bad}
<1>1. \A b \in SUBSET S : IsFiniteSet(b) /\ Cardinality(b) \in Nat
  BY FS_Subset, FS_CardinalityType
<1>2. SUFFICES ASSUME Bad # {} PROVE FALSE
  OBVIOUS
<1>3. T \in SUBSET Nat /\ T # {}
  BY <1>1, <1>2
<1>4. PICK n \in T : \A m \in T : n <= m
  BY <1>3, LeastNumber
<1>5. PICK b \in Bad : n = Cardinality(b)
  BY <1>4
<1>6. PICK y \in b : TRUE
  BY <1>5
<1>7. IsFiniteSet(b \ {y}) /\ Cardinality(b \ {y}) = Cardinality(b) - 1
  BY <1>1, <1>6, FS_RemoveElement
<1>8. b \ {y} \in G
  <2>1. b \ {y} \in SUBSET S /\ Cardinality(b \ {y}) < n /\ n \in Nat
    BY <1>1, <1>3, <1>5, <1>7
  <2>2. CASE b \ {y} \in Bad
    <3>1. Cardinality(b \ {y}) \in T
      BY <2>2
    <3>2. QED
      BY <1>1, <1>4, <2>1, <3>1
  <2>3. QED
    BY <2>1, <2>2
<1>9. (b \ {y}) \cup {y} = b /\ y \in S \ (b \ {y})
  BY <1>5, <1>6
<1>10. QED
  BY <1>5, <1>8, <1>9

-----------------------------------------------------------------------------
(* The sum of the library, unfolded                                        *)

\* The element the fold takes first, and the equation the fold solves.
Pick(s) == CHOOSE x \in s : TRUE

Unfolds(iter, f, S) ==
    iter = [s \in SUBSET S |->
              IF s = {} THEN 0 ELSE f[Pick(s)] + iter[s \ {Pick(s)}]]

\* SumFunctionOnSet is the solution of that equation, at the whole set.
LEMMA SumUnfolded ==
    ASSUME NEW f, NEW S
    PROVE  SumFunctionOnSet(f, S) = (CHOOSE iter : Unfolds(iter, f, S))[S]
  BY DEF SumFunctionOnSet, FoldFunctionOnSet, MapThenFoldSet, Unfolds, Pick

\* The equation has a solution, built up from the small subsets.
Partial(g, f, S, n) ==
    /\ g \in [{s \in SUBSET S : Cardinality(s) <= n} -> Int]
    /\ \A s \in SUBSET S : Cardinality(s) <= n =>
          g[s] = IF s = {} THEN 0 ELSE f[Pick(s)] + g[s \ {Pick(s)}]

\* A set that is not empty has an element to take.
LEMMA PickType == \A s : s # {} => Pick(s) \in s
  BY DEF Pick

\* The equation can be solved on the subsets up to any size,
LEMMA PartialExists ==
    ASSUME NEW S, IsFiniteSet(S), NEW f, \A x \in S : f[x] \in Int
    PROVE  \A n \in Nat : \E g : Partial(g, f, S, n)
<1> DEFINE T == {n \in Nat : ~ \E g : Partial(g, f, S, n)}
<1>1. \A s \in SUBSET S : IsFiniteSet(s) /\ Cardinality(s) \in Nat
                          /\ (Cardinality(s) = 0 <=> s = {})
  BY FS_Subset, FS_CardinalityType, FS_EmptySet
<1>2. SUFFICES ASSUME T # {} PROVE FALSE
  OBVIOUS
<1>3. PICK n \in T : \A m \in T : n <= m
  BY <1>2, LeastNumber
<1>4. CASE n = 0
  <2> DEFINE g == [s \in {s \in SUBSET S : Cardinality(s) <= 0} |-> 0]
  <2>1. g \in [{s \in SUBSET S : Cardinality(s) <= 0} -> Int]
    OBVIOUS
  <2>2. \A s \in SUBSET S : Cardinality(s) <= 0 => s = {} /\ g[s] = 0
    BY <1>1
  <2> HIDE DEF g
  <2>3. Partial(g, f, S, 0)
    BY <2>1, <2>2 DEF Partial
  <2>4. QED
    BY <1>3, <1>4, <2>3
<1>5. CASE n # 0
  <2>1. n - 1 \in Nat /\ n - 1 \notin T
    BY <1>3, <1>5
  <2>2. PICK g : Partial(g, f, S, n - 1)
    BY <2>1
  <2> DEFINE D == {s \in SUBSET S : Cardinality(s) <= n}
             h == [s \in D |-> IF s = {} THEN 0 ELSE f[Pick(s)] + g[s \ {Pick(s)}]]
  <2>3. ASSUME NEW s \in D, s # {}
        PROVE  /\ Pick(s) \in S /\ s \ {Pick(s)} \in SUBSET S
               /\ Cardinality(s \ {Pick(s)}) <= n - 1
    <3>1. Pick(s) \in s /\ s \in SUBSET S /\ Cardinality(s) <= n
      BY <2>3, PickType
    <3>2. Cardinality(s \ {Pick(s)}) = Cardinality(s) - 1
      BY <1>1, <3>1, FS_RemoveElement
    <3>3. QED
      BY <1>1, <1>3, <3>1, <3>2
  <2>4. h \in [D -> Int]
    <3>1. ASSUME NEW s \in D, s # {} PROVE f[Pick(s)] + g[s \ {Pick(s)}] \in Int
      <4>1. f[Pick(s)] \in Int
        BY <2>3, <3>1
      <4>2. g[s \ {Pick(s)}] \in Int
        BY <2>2, <2>3, <3>1 DEF Partial
      <4>3. QED
        BY <4>1, <4>2
    <3>2. QED
      BY <3>1
  <2>5. ASSUME NEW s \in SUBSET S, Cardinality(s) <= n - 1 PROVE h[s] = g[s]
    <3>1. s \in D
      BY <1>1, <1>3, <2>5
    <3>2. QED
      BY <2>2, <2>5, <3>1 DEF Partial
  <2>6. ASSUME NEW s \in SUBSET S, Cardinality(s) <= n
        PROVE  h[s] = IF s = {} THEN 0 ELSE f[Pick(s)] + h[s \ {Pick(s)}]
    <3>1. s \in D
      BY <2>6
    <3>2. s # {} => h[s \ {Pick(s)}] = g[s \ {Pick(s)}]
      BY <2>3, <2>5, <3>1
    <3>3. h[s] = IF s = {} THEN 0 ELSE f[Pick(s)] + g[s \ {Pick(s)}]
      BY <3>1
    <3>4. QED
      BY <3>2, <3>3
  <2>7. Partial(h, f, S, n)
    BY <2>4, <2>6 DEF Partial
  <2>8. QED
    BY <1>3, <2>7
<1>6. QED
  BY <1>4, <1>5

\* hence on all of them.
LEMMA UnfoldingExists ==
    ASSUME NEW S, IsFiniteSet(S), NEW f, \A x \in S : f[x] \in Int
    PROVE  \E iter : Unfolds(iter, f, S)
<1>1. \A s \in SUBSET S : Cardinality(s) <= Cardinality(S)
  BY FS_Subset
<1>2. Cardinality(S) \in Nat
  BY FS_CardinalityType
<1>3. PICK g : Partial(g, f, S, Cardinality(S))
  BY <1>2, PartialExists
<1>4. {s \in SUBSET S : Cardinality(s) <= Cardinality(S)} = SUBSET S
  BY <1>1
<1>5. g \in [SUBSET S -> Int]
  BY <1>3, <1>4 DEF Partial
<1>6. \A s \in SUBSET S : g[s] = IF s = {} THEN 0 ELSE f[Pick(s)] + g[s \ {Pick(s)}]
  BY <1>1, <1>3 DEF Partial
<1>7. Unfolds(g, f, S)
  BY <1>5, <1>6 DEF Unfolds
<1>8. QED
  BY <1>7

\* What a solution says of the empty set and of any other.
LEMMA UnfoldingStep ==
    ASSUME NEW S, NEW f, NEW iter, Unfolds(iter, f, S)
    PROVE  /\ iter[{}] = 0
           /\ \A s \in SUBSET S : s # {} =>
                 /\ Pick(s) \in s
                 /\ iter[s] = f[Pick(s)] + iter[s \ {Pick(s)}]
  BY PickType DEF Unfolds

\* A solution has integer values.
LEMMA UnfoldingType ==
    ASSUME NEW S, IsFiniteSet(S), NEW f, \A x \in S : f[x] \in Int,
           NEW iter, Unfolds(iter, f, S)
    PROVE  \A s \in SUBSET S : iter[s] \in Int
<1>1. iter[{}] = 0 /\ \A s \in SUBSET S : s # {} =>
             Pick(s) \in s /\ iter[s] = f[Pick(s)] + iter[s \ {Pick(s)}]
  BY UnfoldingStep
<1>2. ASSUME NEW n \in Nat
      PROVE  \A s \in SUBSET S : Cardinality(s) = n => iter[s] \in Int
  <2> DEFINE T == {m \in Nat : \E s \in SUBSET S : Cardinality(s) = m /\ iter[s] \notin Int}
  <2>1. SUFFICES ASSUME T # {} PROVE FALSE
    OBVIOUS
  <2>2. PICK m \in T : \A k \in T : m <= k
    BY <2>1, LeastNumber
  <2>3. PICK s \in SUBSET S : Cardinality(s) = m /\ iter[s] \notin Int
    BY <2>2
  <2>4. s # {} /\ Pick(s) \in s /\ iter[s] = f[Pick(s)] + iter[s \ {Pick(s)}]
    <3>1. iter[{}] \in Int
      <4>1. iter[{}] = 0
        BY <1>1
      <4>2. QED
        BY <4>1
    <3>2. s # {}
      BY <2>3, <3>1
    <3>3. QED
      BY <1>1, <3>2
  <2>5. /\ Cardinality(s \ {Pick(s)}) = m - 1 /\ Cardinality(s \ {Pick(s)}) \in Nat
        /\ s \ {Pick(s)} \in SUBSET S
    BY <2>3, <2>4, FS_Subset, FS_RemoveElement, FS_CardinalityType
  <2>6. CASE iter[s \ {Pick(s)}] \in Int
    BY <2>3, <2>4, <2>6
  <2>7. CASE iter[s \ {Pick(s)}] \notin Int
    <3>1. m - 1 \in T
      BY <2>5, <2>7
    <3>2. QED
      BY <2>2, <3>1
  <2>8. QED
    BY <2>6, <2>7
<1>3. \A s \in SUBSET S : Cardinality(s) \in Nat
  BY FS_Subset, FS_CardinalityType
<1>4. QED
  BY <1>2, <1>3

\* It does not matter which element is taken out of a set first.
LEMMA UnfoldingAdds ==
    ASSUME NEW S, IsFiniteSet(S), NEW f, \A x \in S : f[x] \in Int,
           NEW iter, Unfolds(iter, f, S)
    PROVE  \A s \in SUBSET S : \A y \in S \ s : iter[s \cup {y}] = iter[s] + f[y]
<1> DEFINE Bad(s, y) == y \in S \ s /\ iter[s \cup {y}] # iter[s] + f[y]
           T == {m \in Nat : \E s \in SUBSET S : Cardinality(s) = m /\ \E y \in S : Bad(s, y)}
<1>1. \A s \in SUBSET S : Cardinality(s) \in Nat /\ IsFiniteSet(s)
  BY FS_Subset, FS_CardinalityType
<1>2. iter[{}] = 0 /\ \A s \in SUBSET S : s # {} =>
             Pick(s) \in s /\ iter[s] = f[Pick(s)] + iter[s \ {Pick(s)}]
  BY UnfoldingStep
<1>3. T = {}
  <2>1. SUFFICES ASSUME T # {} PROVE FALSE
    OBVIOUS
  <2>2. PICK m \in T : \A k \in T : m <= k
    BY <2>1, LeastNumber
  <2>3. PICK s \in SUBSET S, y \in S : Cardinality(s) = m /\ Bad(s, y)
    BY <2>2
  <2> DEFINE t == s \cup {y}
             x == Pick(t)
  <2>4. t \in SUBSET S /\ x \in t /\ iter[t] = f[x] + iter[t \ {x}]
    <3>1. t \in SUBSET S /\ t # {}
      OBVIOUS
    <3>2. QED
      BY <1>2, <3>1
  <2> HIDE DEF x
  <2>5. x # y
    <3>1. ASSUME x = y PROVE FALSE
      <4>1. t \ {x} = s
        BY <2>3, <3>1
      <4>2. iter[s] \in Int /\ f[y] \in Int
        BY UnfoldingType
      <4>3. iter[t] = f[y] + iter[s] /\ iter[t] # iter[s] + f[y]
        BY <2>3, <2>4, <3>1, <4>1
      <4>4. QED
        BY <4>2, <4>3
    <3>2. QED
      BY <3>1
  <2> DEFINE u == s \ {x}
  <2>6. /\ x \in s /\ u \in SUBSET S /\ t \ {x} = u \cup {y} /\ s = u \cup {x}
        /\ y \in S \ u /\ x \in S \ u
    BY <2>3, <2>4, <2>5
  <2>7. Cardinality(u) = m - 1 /\ Cardinality(u) \in Nat
    BY <1>1, <2>3, <2>6, FS_RemoveElement
  <2>8. \A z \in S \ u : iter[u \cup {z}] = iter[u] + f[z]
    <3>1. m - 1 \notin T
      BY <2>2, <2>7
    <3>2. QED
      BY <2>6, <2>7, <3>1
  <2>9. iter[u] \in Int /\ f[x] \in Int /\ f[y] \in Int
    BY <2>6, UnfoldingType
  <2>10. iter[t \ {x}] = iter[u] + f[y] /\ iter[s] = iter[u] + f[x]
    BY <2>6, <2>8
  <2>11. iter[t] = f[x] + (iter[u] + f[y])
    BY <2>4, <2>10
  <2>12. iter[t] # iter[s] + f[y]
    BY <2>3
  <2> HIDE DEF t, u
  <2>13. QED
    BY <2>9, <2>10, <2>11, <2>12
<1>4. ASSUME NEW s \in SUBSET S, NEW y \in S \ s
      PROVE  iter[s \cup {y}] = iter[s] + f[y]
  BY <1>1, <1>3
<1>5. QED
  BY <1>4

\* Two sums agree on the sets on which what they sum does.
LEMMA UnfoldingsAgree ==
    ASSUME NEW S, IsFiniteSet(S), NEW R, IsFiniteSet(R), NEW f, NEW g,
           \A x \in S : f[x] \in Int, \A x \in R : g[x] \in Int,
           NEW i, Unfolds(i, f, S), NEW k, Unfolds(k, g, R),
           NEW U, U \subseteq S, U \subseteq R, \A x \in U : f[x] = g[x]
    PROVE  i[U] = k[U]
<1> DEFINE G == {s \in SUBSET U : i[s] = k[s]}
<1>1. IsFiniteSet(U)
  BY FS_Subset
<1>2. {} \in G
  BY UnfoldingStep
<1>3. ASSUME NEW s \in G, NEW y \in U \ s PROVE s \cup {y} \in G
  <2>1. s \in SUBSET S /\ s \in SUBSET R /\ y \in S \ s /\ y \in R \ s /\ i[s] = k[s]
    OBVIOUS
  <2>2. i[s \cup {y}] = i[s] + f[y]
    BY <2>1, UnfoldingAdds
  <2>3. k[s \cup {y}] = k[s] + g[y]
    BY <2>1, UnfoldingAdds
  <2>4. QED
    BY <2>1, <2>2, <2>3
<1> HIDE DEF G
<1>4. G \in SUBSET SUBSET U
  BY DEF G
<1>5. G = SUBSET U
  BY <1>1, <1>2, <1>3, <1>4, SubsetInduction
<1>6. QED
  BY <1>5 DEF G

-----------------------------------------------------------------------------
(* What the models use                                                     *)

\* The sum of a finite set is the value of a solution.
LEMMA SumIsUnfolding ==
    ASSUME NEW S, IsFiniteSet(S), NEW f, \A x \in S : f[x] \in Int
    PROVE  \E iter : Unfolds(iter, f, S) /\ SumFunctionOnSet(f, S) = iter[S]
  BY UnfoldingExists, SumUnfolded

\* The sum over a finite set of integers is an integer,
LEMMA SumType ==
    ASSUME NEW S, IsFiniteSet(S), NEW f, \A x \in S : f[x] \in Int
    PROVE  SumFunctionOnSet(f, S) \in Int
<1>1. PICK iter : Unfolds(iter, f, S) /\ SumFunctionOnSet(f, S) = iter[S]
  BY SumIsUnfolding
<1>2. QED
  BY <1>1, UnfoldingType

\* nothing over nothing,
LEMMA SumEmpty == ASSUME NEW f PROVE SumFunctionOnSet(f, {}) = 0
<1>1. PICK iter : Unfolds(iter, f, {}) /\ SumFunctionOnSet(f, {}) = iter[{}]
  BY SumIsUnfolding, FS_EmptySet
<1>2. QED
  BY <1>1, UnfoldingStep

\* one value more with one element more,
LEMMA SumAdds ==
    ASSUME NEW S, IsFiniteSet(S), NEW f, NEW y, y \notin S,
           \A x \in S \cup {y} : f[x] \in Int
    PROVE  SumFunctionOnSet(f, S \cup {y}) = SumFunctionOnSet(f, S) + f[y]
<1> DEFINE R == S \cup {y}
<1>1. IsFiniteSet(R)
  BY FS_AddElement
<1>2. PICK i : Unfolds(i, f, S) /\ SumFunctionOnSet(f, S) = i[S]
  BY SumIsUnfolding
<1>3. PICK k : Unfolds(k, f, R) /\ SumFunctionOnSet(f, R) = k[R]
  BY <1>1, SumIsUnfolding
<1>4. k[S \cup {y}] = k[S] + f[y]
  BY <1>1, <1>3, UnfoldingAdds
<1>5. k[S] = i[S]
  BY <1>1, <1>2, <1>3, UnfoldingsAgree
<1>6. QED
  BY <1>2, <1>3, <1>4, <1>5

\* and the same over values that are the same.
LEMMA SumAgrees ==
    ASSUME NEW S, IsFiniteSet(S), NEW f, NEW g,
           \A x \in S : f[x] \in Int /\ f[x] = g[x]
    PROVE  SumFunctionOnSet(f, S) = SumFunctionOnSet(g, S)
<1>1. PICK i : Unfolds(i, f, S) /\ SumFunctionOnSet(f, S) = i[S]
  BY SumIsUnfolding
<1>2. PICK k : Unfolds(k, g, S) /\ SumFunctionOnSet(g, S) = k[S]
  BY SumIsUnfolding
<1>3. QED
  BY <1>1, <1>2, UnfoldingsAgree

\* Taking an element out takes its value out.
LEMMA SumRemoves ==
    ASSUME NEW S, IsFiniteSet(S), NEW f, NEW y \in S, \A x \in S : f[x] \in Int
    PROVE  SumFunctionOnSet(f, S \ {y}) = SumFunctionOnSet(f, S) - f[y]
<1> DEFINE R == S \ {y}
<1>1. IsFiniteSet(R) /\ y \notin R /\ R \cup {y} = S /\ R \subseteq S
  BY FS_RemoveElement
<1> HIDE DEF R
<1>2. SumFunctionOnSet(f, R \cup {y}) = SumFunctionOnSet(f, R) + f[y]
  BY <1>1, SumAdds
<1>3. SumFunctionOnSet(f, R) \in Int /\ f[y] \in Int
  BY <1>1, SumType
<1>4. SumFunctionOnSet(f, S) = SumFunctionOnSet(f, R) + f[y]
  BY <1>1, <1>2, Zenon
<1>5. SumFunctionOnSet(f, R) = SumFunctionOnSet(f, S) - f[y]
  BY <1>3, <1>4
<1>6. QED
  BY <1>5 DEF R

\* A sum of naturals up to m is a natural up to m for each element.
LEMMA SumBounds ==
    ASSUME NEW S, IsFiniteSet(S), NEW f, NEW m \in Nat, \A x \in S : f[x] \in 0..m
    PROVE  /\ SumFunctionOnSet(f, S) \in Nat
           /\ SumFunctionOnSet(f, S) <= m * Cardinality(S)
<1> DEFINE Good(s) == /\ SumFunctionOnSet(f, s) \in Nat
                      /\ SumFunctionOnSet(f, s) <= m * Cardinality(s)
           G == {s \in SUBSET S : Good(s)}
<1>1. {} \in G
  <2>1. SumFunctionOnSet(f, {}) = 0 /\ Cardinality({}) = 0
    BY SumEmpty, FS_EmptySet
  <2>2. QED
    BY <2>1
<1>2. ASSUME NEW s \in G, NEW y \in S \ s PROVE s \cup {y} \in G
  <2>1. /\ IsFiniteSet(s) /\ y \notin s /\ s \cup {y} \in SUBSET S
        /\ f[y] \in 0..m /\ \A x \in s \cup {y} : f[x] \in Int
    BY FS_Subset
  <2>2. SumFunctionOnSet(f, s \cup {y}) = SumFunctionOnSet(f, s) + f[y]
    BY <2>1, SumAdds
  <2>3. Cardinality(s \cup {y}) = Cardinality(s) + 1 /\ Cardinality(s) \in Nat
    BY <2>1, FS_AddElement, FS_CardinalityType
  <2>4. m * (Cardinality(s) + 1) = m * Cardinality(s) + m
    BY <2>3
  <2>5. Good(s)
    OBVIOUS
  <2>6. m * Cardinality(s) \in Nat
    BY <2>3
  <2>7. Good(s \cup {y})
    BY <2>1, <2>2, <2>3, <2>4, <2>5, <2>6
  <2>8. QED
    BY <2>1, <2>7
<1> HIDE DEF G
<1>3. G \in SUBSET SUBSET S
  BY DEF G
<1>4. G = SUBSET S
  BY <1>1, <1>2, <1>3, SubsetInduction
<1>5. QED
  BY <1>4 DEF G

\* A sum of naturals is a natural.
LEMMA SumNat ==
    ASSUME NEW S, IsFiniteSet(S), NEW f, \A x \in S : f[x] \in Nat
    PROVE  SumFunctionOnSet(f, S) \in Nat
<1> DEFINE G == {s \in SUBSET S : SumFunctionOnSet(f, s) \in Nat}
<1>1. {} \in G
  BY SumEmpty
<1>2. ASSUME NEW s \in G, NEW y \in S \ s PROVE s \cup {y} \in G
  <2>1. /\ IsFiniteSet(s) /\ y \notin s /\ s \cup {y} \in SUBSET S
        /\ f[y] \in Nat /\ \A x \in s \cup {y} : f[x] \in Int
    BY FS_Subset
  <2>2. SumFunctionOnSet(f, s \cup {y}) = SumFunctionOnSet(f, s) + f[y]
    BY <2>1, SumAdds
  <2>3. QED
    BY <2>1, <2>2
<1> HIDE DEF G
<1>3. G \in SUBSET SUBSET S
  BY DEF G
<1>4. G = SUBSET S
  BY <1>1, <1>2, <1>3, SubsetInduction
<1>5. QED
  BY <1>4 DEF G

\* Naturals over a larger set make a sum that is no smaller.
LEMMA SumGrows ==
    ASSUME NEW S, IsFiniteSet(S), NEW T \in SUBSET S, NEW f, \A x \in S : f[x] \in Nat
    PROVE  SumFunctionOnSet(f, T) <= SumFunctionOnSet(f, S)
<1> DEFINE Rest == S \ T
           G == {s \in SUBSET Rest : SumFunctionOnSet(f, T) <= SumFunctionOnSet(f, T \cup s)}
<1>1. IsFiniteSet(T) /\ SumFunctionOnSet(f, T) \in Nat
  <2>1. IsFiniteSet(T)
    BY FS_Subset
  <2>2. \A x \in T : f[x] \in Nat
    OBVIOUS
  <2>3. QED
    BY <2>1, <2>2, SumNat
<1>2. {} \in G
  <2>1. T \cup {} = T
    OBVIOUS
  <2>2. SumFunctionOnSet(f, T) = SumFunctionOnSet(f, T \cup {})
    BY <2>1, Zenon
  <2>3. QED
    BY <1>1, <2>2
<1>3. ASSUME NEW s \in G, NEW y \in Rest \ s PROVE s \cup {y} \in G
  <2>1. /\ IsFiniteSet(T \cup s) /\ y \notin T \cup s /\ f[y] \in Nat
        /\ \A x \in (T \cup s) \cup {y} : f[x] \in Int
    <3>1. T \cup s \in SUBSET S
      OBVIOUS
    <3>2. IsFiniteSet(T \cup s)
      BY <3>1, FS_Subset
    <3>3. QED
      BY <3>1, <3>2
  <2>2. SumFunctionOnSet(f, (T \cup s) \cup {y}) = SumFunctionOnSet(f, T \cup s) + f[y]
    BY <2>1, SumAdds
  <2>3. (T \cup s) \cup {y} = T \cup (s \cup {y})
    OBVIOUS
  <2>4. SumFunctionOnSet(f, T \cup (s \cup {y})) = SumFunctionOnSet(f, (T \cup s) \cup {y})
    BY <2>3, Zenon
  <2>5. SumFunctionOnSet(f, T \cup s) \in Int
    <3>1. \A x \in T \cup s : f[x] \in Int
      BY <2>1
    <3>2. QED
      BY <2>1, <3>1, SumType
  <2>6. SumFunctionOnSet(f, T) <= SumFunctionOnSet(f, T \cup s)
    OBVIOUS
  <2>7. SumFunctionOnSet(f, T) <= SumFunctionOnSet(f, T \cup (s \cup {y}))
    BY <1>1, <2>1, <2>2, <2>4, <2>5, <2>6
  <2>8. QED
    BY <2>7
<1> HIDE DEF G
<1>4. G \in SUBSET SUBSET Rest /\ IsFiniteSet(Rest)
  BY FS_Subset DEF G
<1> HIDE DEF Rest
<1>5. G = SUBSET Rest
  BY <1>2, <1>3, <1>4, SubsetInduction
<1>6. SumFunctionOnSet(f, T) <= SumFunctionOnSet(f, T \cup Rest)
  BY <1>5 DEF G
<1>7. T \cup Rest = S
  BY DEF Rest
<1>8. SumFunctionOnSet(f, T \cup Rest) = SumFunctionOnSet(f, S)
  BY <1>7, Zenon
<1>9. QED
  BY <1>6, <1>8

\* What is nothing may be left out of a sum.
LEMMA SumSkipsZeros ==
    ASSUME NEW S, IsFiniteSet(S), NEW T \in SUBSET S, NEW f, \A x \in S : f[x] \in Int,
           \A x \in S \ T : f[x] = 0
    PROVE  SumFunctionOnSet(f, T) = SumFunctionOnSet(f, S)
<1> DEFINE Rest == S \ T
           G == {s \in SUBSET Rest : SumFunctionOnSet(f, T \cup s) = SumFunctionOnSet(f, T)}
<1>1. IsFiniteSet(T) /\ IsFiniteSet(Rest) /\ SumFunctionOnSet(f, T) \in Int
  <2>1. IsFiniteSet(T) /\ IsFiniteSet(Rest)
    BY FS_Subset
  <2>2. \A x \in T : f[x] \in Int
    OBVIOUS
  <2>3. QED
    BY <2>1, <2>2, SumType
<1>2. {} \in G
  <2>1. T \cup {} = T
    OBVIOUS
  <2>2. SumFunctionOnSet(f, T \cup {}) = SumFunctionOnSet(f, T)
    BY <2>1, Zenon
  <2>3. QED
    BY <2>2
<1>3. ASSUME NEW s \in G, NEW y \in Rest \ s PROVE s \cup {y} \in G
  <2>1. /\ IsFiniteSet(T \cup s) /\ y \notin T \cup s
        /\ \A x \in (T \cup s) \cup {y} : f[x] \in Int
    <3>1. T \cup s \in SUBSET S
      OBVIOUS
    <3>2. IsFiniteSet(T \cup s)
      BY <3>1, FS_Subset
    <3>3. QED
      BY <3>1, <3>2
  <2>2. SumFunctionOnSet(f, (T \cup s) \cup {y}) = SumFunctionOnSet(f, T \cup s) + f[y]
    <3> DEFINE R == T \cup s
    <3>1. IsFiniteSet(R) /\ y \notin R /\ \A x \in R \cup {y} : f[x] \in Int
      BY <2>1
    <3> HIDE DEF R
    <3>2. SumFunctionOnSet(f, R \cup {y}) = SumFunctionOnSet(f, R) + f[y]
      BY ONLY <3>1, SumAdds
    <3>3. QED
      BY <3>2 DEF R
  <2>3. (T \cup s) \cup {y} = T \cup (s \cup {y})
    OBVIOUS
  <2>4. SumFunctionOnSet(f, T \cup (s \cup {y})) = SumFunctionOnSet(f, (T \cup s) \cup {y})
    BY <2>3, Zenon
  <2>5. f[y] = 0 /\ SumFunctionOnSet(f, T \cup s) = SumFunctionOnSet(f, T)
    OBVIOUS
  <2>6. SumFunctionOnSet(f, T \cup (s \cup {y})) = SumFunctionOnSet(f, T)
    BY <1>1, <2>2, <2>4, <2>5
  <2>7. QED
    BY <2>6
<1> HIDE DEF G
<1>4. G \in SUBSET SUBSET Rest
  BY DEF G
<1> HIDE DEF Rest
<1>5. G = SUBSET Rest
  BY <1>1, <1>2, <1>3, <1>4, SubsetInduction
<1>6. SumFunctionOnSet(f, T \cup Rest) = SumFunctionOnSet(f, T)
  BY <1>5 DEF G
<1>7. T \cup Rest = S
  BY DEF Rest
<1>8. SumFunctionOnSet(f, T \cup Rest) = SumFunctionOnSet(f, S)
  BY <1>7, Zenon
<1>9. QED
  BY <1>6, <1>8

\* A sum changes by what one of its values changes.
LEMMA SumChanges ==
    ASSUME NEW S, IsFiniteSet(S), NEW f, NEW g, NEW y \in S,
           \A x \in S : f[x] \in Int /\ g[x] \in Int,
           \A x \in S \ {y} : f[x] = g[x]
    PROVE  SumFunctionOnSet(g, S) = SumFunctionOnSet(f, S) - f[y] + g[y]
<1>1. SumFunctionOnSet(f, S \ {y}) = SumFunctionOnSet(f, S) - f[y]
  BY SumRemoves
<1>2. SumFunctionOnSet(g, S \ {y}) = SumFunctionOnSet(g, S) - g[y]
  BY SumRemoves
<1>3. SumFunctionOnSet(f, S \ {y}) = SumFunctionOnSet(g, S \ {y})
  <2>1. IsFiniteSet(S \ {y}) /\ \A x \in S \ {y} : f[x] \in Int /\ f[x] = g[x]
    BY FS_Subset
  <2> DEFINE R == S \ {y}
  <2>2. IsFiniteSet(R) /\ \A x \in R : f[x] \in Int /\ f[x] = g[x]
    BY <2>1
  <2> HIDE DEF R
  <2>3. SumFunctionOnSet(f, R) = SumFunctionOnSet(g, R)
    BY <2>2, SumAgrees
  <2>4. QED
    BY <2>3 DEF R
<1>4. SumFunctionOnSet(f, S) \in Int /\ SumFunctionOnSet(g, S) \in Int
  BY SumType
<1>5. QED
  BY <1>1, <1>2, <1>3, <1>4

=============================================================================
