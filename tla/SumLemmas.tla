------------------------------ MODULE SumLemmas ------------------------------
(***************************************************************************)
(* What SumFunctionOnSet of the community modules computes, for any function   *)
(* with integer values and any finite set: the facts that the proofs about      *)
(* money need.  A sum is a fold, so each is proved by induction over finite      *)
(* sets, here in the form that takes a set of sets instead of an operator: a     *)
(* set of finite sets that is not empty has a smallest member (WFMin).           *)
(***************************************************************************)
EXTENDS Functions, FiniteSetTheorems, WellFoundedInduction, TLAPS

\* A set of subsets of a finite set that is not empty has a smallest member.
LEMMA SmallestSubset ==
    ASSUME NEW S, IsFiniteSet(S), NEW B \in SUBSET SUBSET S, B # {}
    PROVE  \E T \in B : \A U \in B : U \subseteq T => U = T
<1>1. IsWellFoundedOn(StrictSubsetOrdering(S), SUBSET S)
  BY FS_StrictSubsetOrderingWellFounded, FS_FiniteSubsetsOfFinite
<1>2. PICK T \in B : \A U \in B : ~ (<<U, T>> \in StrictSubsetOrdering(S))
  BY <1>1, WFMin
<1>3. ASSUME NEW U \in B, U \subseteq T PROVE U = T
  BY <1>2, <1>3 DEF StrictSubsetOrdering
<1> QED
  BY <1>3

-----------------------------------------------------------------------------
(* The fold is well defined. *)

First(T) == CHOOSE x \in T : TRUE

\* g adds up f over every subset of S, one element at a time.
Unfolds(f, S, g) ==
    g = [T \in SUBSET S |-> IF T = {} THEN 0 ELSE f[First(T)] + g[T \ {First(T)}]]

\* The element that the fold takes first.
LEMMA FirstIn == \A T : T # {} => First(T) \in T
BY DEF First

\* The sum is the last value of some function that unfolds it, subset by subset.
LEMMA SumIs ==
    ASSUME NEW f, NEW S
    PROVE  SumFunctionOnSet(f, S) = (CHOOSE g : Unfolds(f, S, g))[S]
BY DEF SumFunctionOnSet, FoldFunctionOnSet, MapThenFoldSet, Unfolds, First

\* One unfolding at one subset.
LEMMA UnfoldsAt ==
    ASSUME NEW f, NEW S, NEW g, Unfolds(f, S, g), NEW T \in SUBSET S
    PROVE  g[T] = IF T = {} THEN 0 ELSE f[First(T)] + g[T \ {First(T)}]
BY DEF Unfolds

\* There is one such function at most.
LEMMA UnfoldsUnique ==
    ASSUME NEW f, NEW S, IsFiniteSet(S), NEW g, NEW h, Unfolds(f, S, g), Unfolds(f, S, h),
           NEW T \in SUBSET S
    PROVE  g[T] = h[T]
<1> DEFINE B == {U \in SUBSET S : g[U] # h[U]}
<1> SUFFICES ASSUME B # {} PROVE FALSE
  OBVIOUS
<1>1. PICK U \in B : \A V \in B : V \subseteq U => V = U
  <2>1. B \in SUBSET SUBSET S
    OBVIOUS
  <2> HIDE DEF B
  <2> QED
    BY <2>1, SmallestSubset
<1>2. U # {}
  BY <1>1, UnfoldsAt
<1>3. First(U) \in U /\ U \ {First(U)} \in SUBSET S /\ U \ {First(U)} # U
  BY <1>2, FirstIn
<1>4. g[U \ {First(U)}] = h[U \ {First(U)}]
  BY <1>1, <1>3
<1> QED
  BY <1>1, <1>2, <1>4, UnfoldsAt

\* The part of it over a smaller set.
LEMMA UnfoldsRestricted ==
    ASSUME NEW f, NEW S, NEW g, Unfolds(f, S, g), NEW T \in SUBSET S
    PROVE  Unfolds(f, T, [U \in SUBSET T |-> g[U]])
<1> DEFINE h == [U \in SUBSET T |-> g[U]]
<1>1. \A U \in SUBSET T : h[U] = IF U = {} THEN 0 ELSE f[First(U)] + h[U \ {First(U)}]
  <2> TAKE U \in SUBSET T
  <2>1. g[U] = IF U = {} THEN 0 ELSE f[First(U)] + g[U \ {First(U)}]
    BY UnfoldsAt
  <2>2. U \ {First(U)} \in SUBSET T
    OBVIOUS
  <2> QED
    BY <2>1, <2>2
<1> QED
  BY <1>1 DEF Unfolds

\* The sum over a set that is summed at all is the sum of its first element and the rest.
LEMMA SumUnfolds ==
    ASSUME NEW f, NEW S, IsFiniteSet(S)
    PROVE  \E g : Unfolds(f, S, g)
<1> DEFINE Sum(U) == SumFunctionOnSet(f, U)
           B == {T \in SUBSET S : ~ \E g : Unfolds(f, T, g)}
<1> SUFFICES ASSUME B # {} PROVE FALSE
  <2>1. S \notin B
    OBVIOUS
  <2> QED
    BY <2>1
<1>1. PICK T \in B : \A U \in B : U \subseteq T => U = T
  <2>1. B \in SUBSET SUBSET S
    OBVIOUS
  <2> HIDE DEF B
  <2> QED
    BY <2>1, SmallestSubset
<1>2. T \in SUBSET S /\ IsFiniteSet(T) /\ ~ \E g : Unfolds(f, T, g)
  BY <1>1, FS_Subset
<1>3. ASSUME NEW U \in SUBSET T, U # T PROVE \E g : Unfolds(f, U, g)
  BY <1>1, <1>2, <1>3
\* What the folds over the smaller sets agree on.
<1>4. ASSUME NEW U \in SUBSET T, U # T, U # {}
      PROVE  Sum(U) = f[First(U)] + Sum(U \ {First(U)})
  <2> DEFINE V == U \ {First(U)}
  <2>1. V \in SUBSET T /\ V \in SUBSET U /\ V # T
    BY <1>4
  <2>2. PICK g : Unfolds(f, U, g) /\ g = (CHOOSE h : Unfolds(f, U, h))
    BY <1>3, <1>4
  <2>3. PICK h : Unfolds(f, V, h) /\ h = (CHOOSE k : Unfolds(f, V, k))
    BY <1>3, <2>1
  <2>4. Sum(U) = g[U] /\ Sum(V) = h[V]
    BY <2>2, <2>3, SumIs
  <2>5. g[U] = f[First(U)] + g[V]
    BY <1>4, <2>2, UnfoldsAt
  <2>6. g[V] = h[V]
    <3> DEFINE r == [W \in SUBSET V |-> g[W]]
    <3>1. Unfolds(f, V, r)
      <4>1. V \in SUBSET U /\ Unfolds(f, U, g)
        BY <2>1, <2>2
      <4> HIDE DEF V
      <4> QED
        BY <4>1, UnfoldsRestricted
    <3>2. IsFiniteSet(V)
      BY <1>2, <2>1, FS_Subset
    <3>3. r[V] = h[V]
      <4> HIDE DEF r
      <4> QED
        BY <2>3, <3>1, <3>2, UnfoldsUnique
    <3> QED
      BY <3>3
  <2> QED
    BY <2>4, <2>5, <2>6
<1>5. Sum({}) = 0
  <2>1. Unfolds(f, {}, [U \in SUBSET {} |-> 0])
    BY DEF Unfolds
  <2>2. PICK g : Unfolds(f, {}, g) /\ g = (CHOOSE h : Unfolds(f, {}, h))
    BY <2>1
  <2>3. g[{}] = 0
    BY <2>2, UnfoldsAt
  <2> QED
    BY <2>2, <2>3, SumIs
<1> DEFINE g == [U \in SUBSET T |-> IF U = {} THEN 0 ELSE f[First(U)] + Sum(U \ {First(U)})]
<1>6. \A U \in SUBSET T : g[U] = IF U = {} THEN 0 ELSE f[First(U)] + g[U \ {First(U)}]
  <2> TAKE U \in SUBSET T
  <2>1. CASE U = {}
    BY <2>1
  <2>2. CASE U # {}
    <3> DEFINE V == U \ {First(U)}
    <3>1. V \in SUBSET T /\ V # T
      BY <2>2, FirstIn
    <3>2. g[V] = Sum(V)
      <4>1. CASE V = {}
        BY <1>5, <3>1, <4>1
      <4>2. CASE V # {}
        BY <1>4, <3>1, <4>2
      <4> QED
        BY <4>1, <4>2
    <3> HIDE DEF Sum
    <3> QED
      BY <2>2, <3>2
  <2> QED
    BY <2>1, <2>2
<1>7. Unfolds(f, T, g)
  BY <1>6 DEF Unfolds
<1> QED
  BY <1>2, <1>7

\* The empty sum.
LEMMA SumEmpty == ASSUME NEW f PROVE SumFunctionOnSet(f, {}) = 0
<1>1. PICK g : Unfolds(f, {}, g) /\ g = (CHOOSE h : Unfolds(f, {}, h))
  BY SumUnfolds, FS_EmptySet
<1>2. g[{}] = 0
  BY <1>1, UnfoldsAt
<1> QED
  BY <1>1, <1>2, SumIs

\* A sum is its first element and the sum of the rest.
LEMMA SumFirst ==
    ASSUME NEW f, NEW S, IsFiniteSet(S), S # {}
    PROVE  SumFunctionOnSet(f, S) = f[First(S)] + SumFunctionOnSet(f, S \ {First(S)})
<1>s. PICK V : V = S \ {First(S)}
  OBVIOUS
<1>1. V \in SUBSET S /\ IsFiniteSet(V)
  BY <1>s, FS_Subset
<1>2. PICK g : Unfolds(f, S, g) /\ g = (CHOOSE h : Unfolds(f, S, h))
  BY SumUnfolds
<1>3. PICK h : Unfolds(f, V, h) /\ h = (CHOOSE k : Unfolds(f, V, k))
  BY <1>1, SumUnfolds
<1>4. PICK r : r = [W \in SUBSET V |-> g[W]]
  OBVIOUS
<1>5. Unfolds(f, V, r)
  BY <1>1, <1>2, <1>4, UnfoldsRestricted
<1>6. g[V] = h[V]
  <2>1. r[V] = h[V]
    BY <1>1, <1>3, <1>5, UnfoldsUnique
  <2> QED
    BY <1>4, <2>1
<1>7. g[S] = f[First(S)] + g[V]
  BY <1>2, <1>s, UnfoldsAt
<1> QED
  BY <1>2, <1>3, <1>6, <1>7, <1>s, SumIs

-----------------------------------------------------------------------------
(* What the sums of integers are. *)

\* A sum of integers is an integer.
LEMMA SumType ==
    ASSUME NEW f, NEW S, IsFiniteSet(S), \A x \in S : f[x] \in Int
    PROVE  SumFunctionOnSet(f, S) \in Int
<1> DEFINE B == {T \in SUBSET S : SumFunctionOnSet(f, T) \notin Int}
<1> SUFFICES ASSUME B # {} PROVE FALSE
  OBVIOUS
<1>1. PICK T \in B : \A U \in B : U \subseteq T => U = T
  <2>1. B \in SUBSET SUBSET S
    OBVIOUS
  <2> HIDE DEF B
  <2> QED
    BY <2>1, SmallestSubset
<1>2. T \in SUBSET S /\ IsFiniteSet(T) /\ SumFunctionOnSet(f, T) \notin Int
  BY <1>1, FS_Subset
<1>3. T # {}
  BY <1>2, SumEmpty
<1>4. First(T) \in T /\ T \ {First(T)} \in SUBSET S
  BY <1>2, <1>3, FirstIn
<1>5. SumFunctionOnSet(f, T \ {First(T)}) \in Int
  BY <1>1, <1>4
<1>6. SumFunctionOnSet(f, T) = f[First(T)] + SumFunctionOnSet(f, T \ {First(T)})
  BY <1>2, <1>3, SumFirst
<1> QED
  BY <1>2, <1>4, <1>5, <1>6

\* A sum is the sum of any of its elements and the rest.
LEMMA SumElement ==
    ASSUME NEW f, NEW S, IsFiniteSet(S), \A x \in S : f[x] \in Int, NEW y \in S
    PROVE  SumFunctionOnSet(f, S) = f[y] + SumFunctionOnSet(f, S \ {y})
<1> DEFINE Sum(U) == SumFunctionOnSet(f, U)
           B == {T \in SUBSET S : \E z \in T : Sum(T) # f[z] + Sum(T \ {z})}
<1>0. SUFFICES ASSUME B # {} PROVE FALSE
  <2>1. S \notin B
    BY <1>0
  <2> QED
    BY <2>1
<1>1. PICK T \in B : \A U \in B : U \subseteq T => U = T
  <2>1. B \in SUBSET SUBSET S
    OBVIOUS
  <2> HIDE DEF B
  <2> QED
    BY <1>0, <2>1, SmallestSubset
<1>2. PICK z \in T : Sum(T) # f[z] + Sum(T \ {z})
  BY <1>1
<1>3. T \in SUBSET S /\ IsFiniteSet(T) /\ T # {}
  BY <1>1, <1>2, FS_Subset
<1>4. PICK x \in T : x = First(T)
  BY <1>3, FirstIn
<1>5. \A U \in SUBSET S : Sum(U) \in Int
  <2> TAKE U \in SUBSET S
  <2>1. IsFiniteSet(U)
    BY FS_Subset
  <2> QED
    BY <2>1, SumType
<1>6. Sum(T) = f[x] + Sum(T \ {x})
  BY <1>3, <1>4, SumFirst
<1>7. x # z
  BY <1>2, <1>6
<1>8. \A U \in SUBSET T : U # T => \A w \in U : Sum(U) = f[w] + Sum(U \ {w})
  BY <1>1, <1>3
<1>9. /\ Sum(T \ {x}) = f[z] + Sum((T \ {x}) \ {z})
      /\ Sum(T \ {z}) = f[x] + Sum((T \ {z}) \ {x})
  <2>1. z \in T \ {x} /\ x \in T \ {z}
    BY <1>2, <1>4, <1>7
  <2> HIDE DEF Sum
  <2> QED
    BY <1>8, <2>1
<1>10. (T \ {x}) \ {z} = (T \ {z}) \ {x}
  OBVIOUS
<1>11. Sum((T \ {x}) \ {z}) \in Int /\ f[x] \in Int /\ f[z] \in Int
  BY <1>3, <1>5
<1> HIDE DEF Sum
<1> QED
  BY <1>2, <1>6, <1>9, <1>10, <1>11

\* One element more is its value more.
LEMMA SumOneMore ==
    ASSUME NEW f, NEW S, IsFiniteSet(S), NEW y, y \notin S, \A x \in S \cup {y} : f[x] \in Int
    PROVE  SumFunctionOnSet(f, S \cup {y}) = f[y] + SumFunctionOnSet(f, S)
<1>1. IsFiniteSet(S \cup {y}) /\ (S \cup {y}) \ {y} = S
  BY FS_AddElement
<1>2. SumFunctionOnSet(f, S \cup {y}) = f[y] + SumFunctionOnSet(f, (S \cup {y}) \ {y})
  <2>1. y \in S \cup {y}
    OBVIOUS
  <2> QED
    BY <1>1, <2>1, SumElement
<1> QED
  BY <1>1, <1>2

\* What the values are over the set is all that counts; the smaller values the smaller sum.
LEMMA SumMonotone ==
    ASSUME NEW f, NEW g, NEW S, IsFiniteSet(S), \A x \in S : f[x] \in Int /\ g[x] \in Int,
           \A x \in S : f[x] <= g[x]
    PROVE  SumFunctionOnSet(f, S) <= SumFunctionOnSet(g, S)
<1> DEFINE B == {T \in SUBSET S : ~ SumFunctionOnSet(f, T) <= SumFunctionOnSet(g, T)}
<1>0. SUFFICES ASSUME B # {} PROVE FALSE
  <2>1. S \notin B
    BY <1>0
  <2> QED
    BY <2>1
<1>1. PICK T \in B : \A U \in B : U \subseteq T => U = T
  <2>1. B \in SUBSET SUBSET S
    OBVIOUS
  <2> HIDE DEF B
  <2> QED
    BY <1>0, <2>1, SmallestSubset
<1>2. T \in SUBSET S /\ IsFiniteSet(T) /\ ~ SumFunctionOnSet(f, T) <= SumFunctionOnSet(g, T)
  BY <1>1, FS_Subset
<1>3. T # {}
  BY <1>2, SumEmpty
<1>4. PICK x \in T : TRUE
  BY <1>3
<1>5. PICK U : U = T \ {x} /\ U \in SUBSET S /\ IsFiniteSet(U) /\ U # T
  <2>1. T \ {x} \in SUBSET T /\ T \ {x} \in SUBSET S /\ T \ {x} # T
    BY <1>2, <1>4
  <2>2. IsFiniteSet(T \ {x})
    BY <1>2, <2>1, FS_Subset
  <2> QED
    BY <2>1, <2>2
<1>6. SumFunctionOnSet(f, U) <= SumFunctionOnSet(g, U)
  BY <1>1, <1>5
<1>7. /\ SumFunctionOnSet(f, T) = f[x] + SumFunctionOnSet(f, U)
      /\ SumFunctionOnSet(g, T) = g[x] + SumFunctionOnSet(g, U)
  <2>1. \A y \in T : f[y] \in Int /\ g[y] \in Int
    BY <1>2
  <2> QED
    BY <1>2, <1>4, <1>5, <2>1, SumElement
<1>8. SumFunctionOnSet(f, U) \in Int /\ SumFunctionOnSet(g, U) \in Int
  <2>1. \A y \in U : f[y] \in Int /\ g[y] \in Int
    BY <1>5
  <2> QED
    BY <1>5, <2>1, SumType
<1> QED
  BY <1>2, <1>4, <1>6, <1>7, <1>8

\* The same values over the set have the same sum.
LEMMA SumSame ==
    ASSUME NEW f, NEW g, NEW S, IsFiniteSet(S), \A x \in S : f[x] \in Int,
           \A x \in S : f[x] = g[x]
    PROVE  SumFunctionOnSet(f, S) = SumFunctionOnSet(g, S)
<1>1. /\ \A x \in S : f[x] \in Int /\ g[x] \in Int
      /\ \A x \in S : f[x] <= g[x] /\ g[x] <= f[x]
  OBVIOUS
<1>2. /\ SumFunctionOnSet(f, S) <= SumFunctionOnSet(g, S)
      /\ SumFunctionOnSet(g, S) <= SumFunctionOnSet(f, S)
  BY <1>1, SumMonotone
<1>3. SumFunctionOnSet(f, S) \in Int /\ SumFunctionOnSet(g, S) \in Int
  BY <1>1, SumType
<1> QED
  BY <1>2, <1>3

\* One value is written, and the sum moves by the difference.
LEMMA SumWritten ==
    ASSUME NEW f, NEW g, NEW S, IsFiniteSet(S), NEW y \in S,
           \A x \in S : f[x] \in Int /\ g[x] \in Int,
           \A x \in S : x # y => g[x] = f[x]
    PROVE  SumFunctionOnSet(g, S) = SumFunctionOnSet(f, S) - f[y] + g[y]
<1>1. PICK U : U = S \ {y} /\ IsFiniteSet(U)
  BY FS_Subset
<1>2. SumFunctionOnSet(f, U) = SumFunctionOnSet(g, U) /\ SumFunctionOnSet(f, U) \in Int
  <2>1. (\A x \in U : f[x] \in Int) /\ (\A x \in U : f[x] = g[x])
    BY <1>1
  <2> QED
    BY <1>1, <2>1, SumSame, SumType
<1>3. /\ SumFunctionOnSet(f, S) = f[y] + SumFunctionOnSet(f, U)
      /\ SumFunctionOnSet(g, S) = g[y] + SumFunctionOnSet(g, U)
  BY <1>1, SumElement
<1> QED
  BY <1>2, <1>3

\* A sum of zeroes.
LEMMA SumZero ==
    ASSUME NEW f, NEW S, IsFiniteSet(S), \A x \in S : f[x] = 0
    PROVE  SumFunctionOnSet(f, S) = 0
<1> DEFINE B == {T \in SUBSET S : SumFunctionOnSet(f, T) # 0}
<1>0. SUFFICES ASSUME B # {} PROVE FALSE
  <2>1. S \notin B
    BY <1>0
  <2> QED
    BY <2>1
<1>1. PICK T \in B : \A U \in B : U \subseteq T => U = T
  <2>1. B \in SUBSET SUBSET S
    OBVIOUS
  <2> HIDE DEF B
  <2> QED
    BY <1>0, <2>1, SmallestSubset
<1>2. T \in SUBSET S /\ IsFiniteSet(T) /\ T # {} /\ SumFunctionOnSet(f, T) # 0
  BY <1>1, FS_Subset, SumEmpty
<1>3. First(T) \in T /\ T \ {First(T)} \in SUBSET S /\ T \ {First(T)} # T
  BY <1>2, FirstIn
<1>4. SumFunctionOnSet(f, T \ {First(T)}) = 0
  BY <1>1, <1>3
<1>5. SumFunctionOnSet(f, T) = f[First(T)] + SumFunctionOnSet(f, T \ {First(T)})
  BY <1>2, SumFirst
<1> QED
  BY <1>2, <1>3, <1>4, <1>5

\* A sum of naturals is a natural.
LEMMA SumNatural ==
    ASSUME NEW f, NEW S, IsFiniteSet(S), \A x \in S : f[x] \in Nat
    PROVE  SumFunctionOnSet(f, S) \in Nat
<1>z. PICK z : z = [x \in S |-> 0]
  OBVIOUS
<1>1. SumFunctionOnSet(z, S) = 0
  BY <1>z, SumZero
<1>2. (\A x \in S : z[x] \in Int /\ f[x] \in Int) /\ (\A x \in S : z[x] <= f[x])
  BY <1>z
<1>3. SumFunctionOnSet(z, S) <= SumFunctionOnSet(f, S) /\ SumFunctionOnSet(f, S) \in Int
  BY <1>2, SumMonotone, SumType
<1> QED
  BY <1>1, <1>3
=============================================================================
