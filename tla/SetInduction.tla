----------------------------- MODULE SetInduction -----------------------------
(***************************************************************************)
(* Induction as a statement about sets, and what the models' proofs need   *)
(* of sums: the provers cannot instantiate a theorem that takes a          *)
(* predicate, but they can one that takes the set of what satisfies it.    *)
(***************************************************************************)
EXTENDS Integers, FiniteSetsExt, FiniteSetTheorems, TLAPS

(* Every set of natural numbers has a smallest one.                        *)
LEMMA SmallestOf ==
  ASSUME NEW S \in SUBSET Nat, S # {}
  PROVE  \E m \in S : \A k \in S : m <= k
<1> DEFINE R == OpToRel(<, Nat)
<1>1. IsWellFoundedOn(R, Nat)
  BY NatLessThanWellFounded
<1>2. R = {ss \in Nat \X Nat : ss[1] < ss[2]}
  BY DEF OpToRel
<1> HIDE DEF R
<1>3. PICK m \in S : \A y \in S : ~(<<y, m>> \in R)
  BY <1>1, WFMin
<1>4. ASSUME NEW k \in S PROVE m <= k
  <2>1. ~(<<k, m>> \in {ss \in Nat \X Nat : ss[1] < ss[2]})
    BY <1>2, <1>3
  <2>2. <<k, m>> \in Nat \X Nat
    OBVIOUS
  <2>3. ~(<<k, m>>[1] < <<k, m>>[2])
    BY <2>1, <2>2
  <2> QED
    BY <2>3
<1> QED
  BY <1>4

(* Induction over the natural numbers.                                     *)
LEMMA NatSetInduction ==
  ASSUME NEW S \in SUBSET Nat, 0 \in S, \A n \in S : n + 1 \in S
  PROVE  S = Nat
<1> SUFFICES ASSUME Nat \ S # {} PROVE FALSE
  OBVIOUS
<1>1. PICK m \in Nat \ S : \A k \in Nat \ S : m <= k
  BY SmallestOf
<1>2. m # 0 /\ m - 1 \in Nat
  BY <1>1
<1> QED
  BY <1>1, <1>2

(* Of sets of subsets of a finite set, every one has a minimal member.     *)
LEMMA MinimalSubset ==
  ASSUME NEW U, IsFiniteSet(U), NEW X \in SUBSET (SUBSET U), X # {}
  PROVE  \E T \in X : \A V \in X : V \subseteq T => V = T
<1> DEFINE R == StrictSubsetOrdering(U)
<1>1. IsWellFoundedOn(R, SUBSET U)
  BY FS_StrictSubsetOrderingWellFounded, FS_FiniteSubsetsOfFinite
<1>2. \A V, T \in SUBSET U : V \subseteq T /\ V # T => <<V, T>> \in R
  BY DEF StrictSubsetOrdering
<1> HIDE DEF R
<1>3. PICK T \in X : \A V \in X : ~(<<V, T>> \in R)
  BY <1>1, WFMin
<1> QED
  BY <1>2, <1>3

(* Induction over the subsets of a finite set.                             *)
LEMMA SubsetInduction ==
  ASSUME NEW U, IsFiniteSet(U), NEW G \in SUBSET (SUBSET U), {} \in G,
         \A T \in SUBSET U : \A x \in T : T \ {x} \in G => T \in G
  PROVE  G = SUBSET U
<1> SUFFICES ASSUME (SUBSET U) \ G # {} PROVE FALSE
  OBVIOUS
<1>1. PICK T \in (SUBSET U) \ G : \A V \in (SUBSET U) \ G : V \subseteq T => V = T
  <2> DEFINE X == (SUBSET U) \ G
  <2>1. X \in SUBSET (SUBSET U) /\ X # {}
    OBVIOUS
  <2> HIDE DEF X
  <2>2. \E T \in X : \A V \in X : V \subseteq T => V = T
    BY <2>1, MinimalSubset
  <2> QED
    BY <2>2 DEF X
<1>2. T # {}
  BY <1>1
<1>3. PICK x : x \in T
  BY <1>2
<1>4. T \ {x} \in SUBSET U /\ T \ {x} \subseteq T /\ T \ {x} # T
  BY <1>1, <1>3
<1>5. T \ {x} \in G
  BY <1>1, <1>4
<1> QED
  BY <1>1, <1>3, <1>5
-----------------------------------------------------------------------------
(* Sums over finite sets.                                                  *)

(* The sum of w over S, w a function.                                      *)
Total(w, S) == MapThenSumSet(LAMBDA x : w[x], S)

(* That `it` is the function the library defines the sum by.               *)
SumBy(it, w, U) ==
  it = [s \in SUBSET U |->
          IF s = {} THEN 0
          ELSE w[CHOOSE x \in s : TRUE] + it[s \ {CHOOSE x \in s : TRUE}]]

(* There is one: it is built up by the size of the subsets.                *)
LEMMA SumByExists ==
  ASSUME NEW w, NEW U, IsFiniteSet(U)
  PROVE  \E it : SumBy(it, w, U)
<1> DEFINE Small(n) == {s \in SUBSET U : Cardinality(s) <= n}
           Step(it, s) == IF s = {} THEN 0
                          ELSE w[CHOOSE x \in s : TRUE] + it[s \ {CHOOSE x \in s : TRUE}]
           Partial(it, n) == it = [s \in Small(n) |-> Step(it, s)]
           N == {n \in Nat : \E it : Partial(it, n)}
<1>1. \A s \in SUBSET U : IsFiniteSet(s) /\ Cardinality(s) \in Nat
  BY FS_Subset, FS_CardinalityType
<1>2. \A s \in SUBSET U : s # {} =>
        /\ s \ {CHOOSE x \in s : TRUE} \in SUBSET U
        /\ Cardinality(s \ {CHOOSE x \in s : TRUE}) = Cardinality(s) - 1
  BY <1>1, FS_RemoveElement
<1>3. 0 \in N
  <2> DEFINE i == [s \in Small(0) |-> 0]
  <2>1. \A s \in Small(0) : s = {}
    BY <1>1, FS_EmptySet
  <2>2. Partial(i, 0)
    BY <2>1
  <2> QED
    BY <2>2
<1>4. ASSUME NEW n \in N PROVE n + 1 \in N
  <2>1. PICK i : Partial(i, n)
    OBVIOUS
  <2> DEFINE j == [s \in Small(n + 1) |-> Step(i, s)]
  <2>2. ASSUME NEW s \in Small(n + 1) PROVE Step(i, s) = Step(j, s)
    <3>1. CASE s = {}
      BY <3>1
    <3>2. CASE s # {}
      <4> DEFINE t == s \ {CHOOSE x \in s : TRUE}
      <4>1. t \in Small(n) /\ t \in Small(n + 1)
        BY <1>1, <1>2, <3>2
      <4>2. i[t] = Step(i, t)
        BY <2>1, <4>1
      <4>3. j[t] = Step(i, t)
        BY <4>1
      <4> HIDE DEF j
      <4>4. i[t] = j[t]
        BY <4>2, <4>3
      <4> QED
        BY <3>2, <4>4
    <3> QED
      BY <3>1, <3>2
  <2> HIDE DEF Step, Small
  <2>3. Partial(j, n + 1)
    BY <2>2
  <2> HIDE DEF j
  <2>4. \E it : Partial(it, n + 1)
    BY <2>3
  <2> HIDE DEF Partial
  <2> QED
    BY <2>4
<1>5. Cardinality(U) \in N
  <2> HIDE DEF N
  <2>1. N = Nat
    BY <1>3, <1>4, NatSetInduction DEF N
  <2> QED
    BY <1>1, <2>1
<1>6. PICK it : Partial(it, Cardinality(U))
  BY <1>5
<1>7. Small(Cardinality(U)) = SUBSET U
  BY FS_Subset
<1> QED
  BY <1>6, <1>7 DEF SumBy

(* Two of them agree where their weights do.                               *)
LEMMA SumByAgree ==
  ASSUME NEW U, IsFiniteSet(U), NEW V, NEW w, NEW v, NEW i, NEW j,
         SumBy(i, w, U), SumBy(j, v, V), U \subseteq V,
         \A x \in U : w[x] = v[x]
  PROVE  \A T \in SUBSET U : i[T] = j[T]
<1> DEFINE X == {T \in SUBSET U : i[T] # j[T]}
<1> SUFFICES ASSUME X # {} PROVE FALSE
  OBVIOUS
<1>1. PICK T \in X : \A W \in X : W \subseteq T => W = T
  <2>1. X \in SUBSET (SUBSET U)
    OBVIOUS
  <2> HIDE DEF X
  <2> QED
    BY <2>1, MinimalSubset
<1>2. T # {}
  BY <1>1 DEF SumBy
<1> DEFINE c == CHOOSE x \in T : TRUE
<1>3. c \in T
  BY <1>2
<1>4. T \ {c} \in SUBSET U /\ T \ {c} \subseteq T /\ T \ {c} # T
  BY <1>1, <1>3
<1>5. i[T \ {c}] = j[T \ {c}]
  BY <1>1, <1>4
<1>6. i[T] = w[c] + i[T \ {c}]
  BY <1>1, <1>2 DEF SumBy
<1>7. j[T] = v[c] + j[T \ {c}]
  BY <1>1, <1>2 DEF SumBy
<1>8. w[c] = v[c]
  BY <1>1, <1>3
<1> QED
  BY <1>1, <1>5, <1>6, <1>7, <1>8

LEMMA TotalIsSumBy ==
  ASSUME NEW w, NEW U, IsFiniteSet(U)
  PROVE  \E it : SumBy(it, w, U) /\ \A T \in SUBSET U : Total(w, T) = it[T]
<1> DEFINE f(T) == CHOOSE it : SumBy(it, w, T)
<1>1. \A T : Total(w, T) = f(T)[T]
  BY DEF Total, MapThenSumSet, MapThenFoldSet, SumBy
<1>2. ASSUME NEW T \in SUBSET U PROVE SumBy(f(T), w, T)
  <2>1. \E it : SumBy(it, w, T)
    BY FS_Subset, SumByExists
  <2> QED
    BY <2>1, Zenon
<1>3. ASSUME NEW T \in SUBSET U PROVE f(T)[T] = f(U)[T]
  <2>1. SumBy(f(T), w, T) /\ SumBy(f(U), w, U) /\ IsFiniteSet(T)
    BY <1>2, FS_Subset
  <2> HIDE DEF f
  <2> QED
    BY <2>1, SumByAgree
<1>4. SumBy(f(U), w, U)
  BY <1>2
<1> QED
  BY <1>1, <1>3, <1>4

(* Equal weights, equal sums.                                              *)
LEMMA TotalEqual ==
  ASSUME NEW S, IsFiniteSet(S), NEW w, NEW v, \A x \in S : w[x] = v[x]
  PROVE  Total(w, S) = Total(v, S)
<1>1. PICK i : SumBy(i, w, S) /\ \A T \in SUBSET S : Total(w, T) = i[T]
  BY TotalIsSumBy
<1>2. PICK j : SumBy(j, v, S) /\ \A T \in SUBSET S : Total(v, T) = j[T]
  BY TotalIsSumBy
<1> QED
  BY <1>1, <1>2, SumByAgree

LEMMA TotalEmpty == ASSUME NEW w PROVE Total(w, {}) = 0
<1>1. IsFiniteSet({})
  BY FS_EmptySet
<1>2. PICK i : SumBy(i, w, {}) /\ \A T \in SUBSET {} : Total(w, T) = i[T]
  BY <1>1, TotalIsSumBy
<1> QED
  BY <1>2 DEF SumBy

LEMMA TotalChosen ==
  ASSUME NEW S, IsFiniteSet(S), S # {}, NEW w
  PROVE  LET c == CHOOSE x \in S : TRUE
         IN  Total(w, S) = w[c] + Total(w, S \ {c})
<1>1. PICK i : SumBy(i, w, S) /\ \A T \in SUBSET S : Total(w, T) = i[T]
  BY TotalIsSumBy
<1> QED
  BY <1>1 DEF SumBy

LEMMA TotalType ==
  ASSUME NEW S, IsFiniteSet(S), NEW w, \A x \in S : w[x] \in Nat
  PROVE  Total(w, S) \in Nat
<1> DEFINE X == {T \in SUBSET S : Total(w, T) \notin Nat}
<1> SUFFICES ASSUME X # {} PROVE FALSE
  OBVIOUS
<1>1. PICK T \in X : \A W \in X : W \subseteq T => W = T
  <2>1. X \in SUBSET (SUBSET S)
    OBVIOUS
  <2> HIDE DEF X
  <2> QED
    BY <2>1, MinimalSubset
<1>2. T # {} /\ IsFiniteSet(T)
  <2>1. Total(w, {}) = 0
    BY TotalEmpty
  <2>2. {} \notin X
    BY <2>1
  <2> QED
    BY <1>1, <2>2, FS_Subset
<1> DEFINE c == CHOOSE x \in T : TRUE
<1>3. Total(w, T) = w[c] + Total(w, T \ {c})
  BY <1>2, TotalChosen
<1>4. c \in T /\ T \ {c} \in SUBSET S /\ T \ {c} \subseteq T /\ T \ {c} # T
  BY <1>1, <1>2
<1> HIDE DEF c
<1>5. Total(w, T \ {c}) \in Nat /\ w[c] \in Nat
  BY <1>1, <1>4
<1> QED
  BY <1>1, <1>3, <1>5

(* The order in which the elements are taken does not matter.              *)
LEMMA TotalRemove ==
  ASSUME NEW S, IsFiniteSet(S), NEW w, \A x \in S : w[x] \in Nat
  PROVE  \A y \in S : Total(w, S) = w[y] + Total(w, S \ {y})
<1> DEFINE X == {T \in SUBSET S : \E y \in T : Total(w, T) # w[y] + Total(w, T \ {y})}
<1> SUFFICES ASSUME X # {} PROVE FALSE
  OBVIOUS
<1>1. PICK T \in X : \A W \in X : W \subseteq T => W = T
  <2>1. X \in SUBSET (SUBSET S)
    OBVIOUS
  <2> HIDE DEF X
  <2> QED
    BY <2>1, MinimalSubset
<1>2. PICK y \in T : Total(w, T) # w[y] + Total(w, T \ {y})
  BY <1>1
<1> DEFINE c == CHOOSE x \in T : TRUE
<1>3. c \in T
  BY <1>2
<1>4. Total(w, T) = w[c] + Total(w, T \ {c})
  BY <1>1, <1>2, FS_Subset, TotalChosen
<1> HIDE DEF c
<1>5. y # c
  BY <1>2, <1>4
<1>6. \A x \in T : T \ {x} \in SUBSET S /\ T \ {x} \subseteq T /\ T \ {x} # T
  BY <1>1
<1>7. Total(w, T \ {c}) = w[y] + Total(w, (T \ {c}) \ {y})
  <2>1. T \ {c} \notin X /\ y \in T \ {c}
    BY <1>1, <1>3, <1>5, <1>6
  <2> QED
    BY <1>3, <1>6, <2>1
<1>8. Total(w, T \ {y}) = w[c] + Total(w, (T \ {y}) \ {c})
  <2>1. T \ {y} \notin X /\ c \in T \ {y}
    BY <1>1, <1>3, <1>5, <1>6
  <2> QED
    BY <1>6, <2>1
<1>9. (T \ {c}) \ {y} = (T \ {y}) \ {c}
  OBVIOUS
<1>10. /\ Total(w, (T \ {y}) \ {c}) \in Nat /\ w[y] \in Nat /\ w[c] \in Nat
  <2>1. (T \ {y}) \ {c} \in SUBSET S
    BY <1>1
  <2>2. IsFiniteSet((T \ {y}) \ {c})
    BY <2>1, FS_Subset
  <2> QED
    BY <1>1, <1>3, <2>1, <2>2, TotalType
<1> QED
  BY <1>2, <1>4, <1>7, <1>8, <1>9, <1>10

(* Zero weights, and weights that are sums.                                *)
LEMMA TotalZero ==
  ASSUME NEW S, IsFiniteSet(S), NEW w, \A x \in S : w[x] = 0
  PROVE  Total(w, S) = 0
<1> DEFINE G == {T \in SUBSET S : Total(w, T) = 0}
<1>1. {} \in G
  BY TotalEmpty
<1>2. ASSUME NEW T \in SUBSET S, NEW y \in T, T \ {y} \in G PROVE T \in G
  <2>1. Total(w, T) = w[y] + Total(w, T \ {y})
    BY FS_Subset, TotalRemove
  <2> QED
    BY <1>2, <2>1
<1>3. G = SUBSET S
  <2>1. G \in SUBSET (SUBSET S)
    OBVIOUS
  <2> HIDE DEF G
  <2> QED
    BY <1>1, <1>2, <2>1, SubsetInduction
<1> QED
  BY <1>3

LEMMA TotalAdd ==
  ASSUME NEW S, IsFiniteSet(S), NEW w, NEW v, NEW u,
         \A x \in S : w[x] \in Nat /\ v[x] \in Nat /\ u[x] = w[x] + v[x]
  PROVE  Total(u, S) = Total(w, S) + Total(v, S)
<1> DEFINE G == {T \in SUBSET S : Total(u, T) = Total(w, T) + Total(v, T)}
<1>1. {} \in G
  <2>1. Total(w, {}) = 0 /\ Total(v, {}) = 0 /\ Total(u, {}) = 0
    BY TotalEmpty
  <2> QED
    BY <2>1
<1>2. ASSUME NEW T \in SUBSET S, NEW y \in T, T \ {y} \in G PROVE T \in G
  <2>1. IsFiniteSet(T) /\ IsFiniteSet(T \ {y}) /\ \A x \in T : u[x] \in Nat
    BY FS_Subset
  <2>2. /\ Total(w, T) = w[y] + Total(w, T \ {y})
        /\ Total(v, T) = v[y] + Total(v, T \ {y})
        /\ Total(u, T) = u[y] + Total(u, T \ {y})
    BY <2>1, TotalRemove
  <2>3. Total(w, T \ {y}) \in Nat /\ Total(v, T \ {y}) \in Nat
    BY <2>1, TotalType
  <2>4. Total(u, T \ {y}) = Total(w, T \ {y}) + Total(v, T \ {y})
    BY <1>2
  <2>5. Total(u, T) = Total(w, T) + Total(v, T)
    BY <2>2, <2>3, <2>4
  <2> QED
    BY <2>5
<1>3. G = SUBSET S
  <2>1. G \in SUBSET (SUBSET S)
    OBVIOUS
  <2> HIDE DEF G
  <2> QED
    BY <1>1, <1>2, <2>1, SubsetInduction
<1> QED
  BY <1>3

(* The sum over a subset and the sum over the rest.                        *)
LEMMA TotalSplit ==
  ASSUME NEW S, IsFiniteSet(S), NEW w, \A x \in S : w[x] \in Nat,
         NEW R \in SUBSET S
  PROVE  Total(w, S) = Total(w, R) + Total(w, S \ R)
<1> DEFINE G == {T \in SUBSET R : Total(w, S) = Total(w, T) + Total(w, S \ T)}
<1>0. IsFiniteSet(R) /\ \A T \in SUBSET S : IsFiniteSet(T)
  BY FS_Subset
<1>1. {} \in G
  <2>1. Total(w, {}) = 0 /\ S \ {} = S /\ Total(w, S) \in Nat
    BY TotalEmpty, TotalType
  <2> QED
    BY <2>1
<1>2. ASSUME NEW T \in SUBSET R, NEW y \in T, T \ {y} \in G PROVE T \in G
  <2>1. Total(w, T) = w[y] + Total(w, T \ {y})
    BY <1>0, TotalRemove
  <2>2. Total(w, S \ (T \ {y})) = w[y] + Total(w, S \ T)
    <3> DEFINE W == S \ (T \ {y})
    <3>1. W \ {y} = S \ T /\ y \in W
      OBVIOUS
    <3>2. IsFiniteSet(W) /\ \A x \in W : w[x] \in Nat
      BY <1>0
    <3> HIDE DEF W
    <3>3. Total(w, W) = w[y] + Total(w, W \ {y})
      BY <3>1, <3>2, TotalRemove
    <3> QED
      BY <3>1, <3>3 DEF W
  <2>3. /\ Total(w, T \ {y}) \in Nat /\ Total(w, S \ T) \in Nat /\ w[y] \in Nat
    BY <1>0, TotalType
  <2>4. Total(w, S) = Total(w, T) + Total(w, S \ T)
    BY <1>2, <2>1, <2>2, <2>3
  <2> QED
    BY <2>4
<1>3. G = SUBSET R
  <2>1. G \in SUBSET (SUBSET R)
    OBVIOUS
  <2> HIDE DEF G
  <2> QED
    BY <1>0, <1>1, <1>2, <2>1, SubsetInduction
<1> QED
  BY <1>3

(* A sum is at most another if each of its elements has one of its own     *)
(* there that weighs at least as much.                                     *)
LEMMA TotalInjected ==
  ASSUME NEW S, IsFiniteSet(S), NEW w, \A x \in S : w[x] \in Nat,
         NEW V, IsFiniteSet(V), NEW v, \A x \in V : v[x] \in Nat,
         NEW f \in [S -> V], \A x, y \in S : f[x] = f[y] => x = y,
         \A x \in S : w[x] <= v[f[x]]
  PROVE  Total(w, S) <= Total(v, V)
<1> DEFINE img(T) == {f[x] : x \in T}
           G == {T \in SUBSET S : Total(w, T) <= Total(v, img(T))}
<1>0. \A T \in SUBSET S : IsFiniteSet(T) /\ img(T) \in SUBSET V /\ IsFiniteSet(img(T))
  BY FS_Subset
<1>1. {} \in G
  <2>1. img({}) = {} /\ Total(w, {}) = 0 /\ Total(v, {}) = 0
    BY TotalEmpty
  <2> QED
    BY <2>1
<1>2. ASSUME NEW T \in SUBSET S, NEW y \in T, T \ {y} \in G PROVE T \in G
  <2>1. Total(w, T) = w[y] + Total(w, T \ {y})
    BY <1>0, TotalRemove
  <2>2. f[y] \in img(T) /\ img(T) \ {f[y]} = img(T \ {y})
    OBVIOUS
  <2>3. Total(v, img(T)) = v[f[y]] + Total(v, img(T \ {y}))
    <3>1. IsFiniteSet(img(T)) /\ \A x \in img(T) : v[x] \in Nat
      BY <1>0
    <3> HIDE DEF img
    <3>2. Total(v, img(T)) = v[f[y]] + Total(v, img(T) \ {f[y]})
      BY <2>2, <3>1, TotalRemove
    <3> QED
      BY <2>2, <3>2
  <2>4. /\ Total(w, T \ {y}) \in Nat /\ w[y] \in Nat /\ v[f[y]] \in Nat /\ w[y] <= v[f[y]]
    BY <1>0, TotalType
  <2>5. Total(v, img(T \ {y})) \in Nat
    <3>1. T \ {y} \in SUBSET S
      OBVIOUS
    <3>2. IsFiniteSet(img(T \ {y})) /\ \A x \in img(T \ {y}) : v[x] \in Nat
      BY <1>0, <3>1
    <3> HIDE DEF img
    <3> QED
      BY <3>2, TotalType
  <2>6. Total(w, T \ {y}) <= Total(v, img(T \ {y}))
    BY <1>2
  <2>7. Total(w, T) <= Total(v, img(T))
    BY <2>1, <2>3, <2>4, <2>5, <2>6
  <2> QED
    BY <2>7
<1>3. G = SUBSET S
  <2>1. G \in SUBSET (SUBSET S)
    OBVIOUS
  <2> HIDE DEF G
  <2> QED
    BY <1>1, <1>2, <2>1, SubsetInduction
<1>4. Total(w, S) <= Total(v, img(S))
  BY <1>3
<1>5. Total(v, V) = Total(v, img(S)) + Total(v, V \ img(S))
  <2>1. img(S) \in SUBSET V
    BY <1>0
  <2> HIDE DEF img
  <2> QED
    BY <2>1, TotalSplit
<1>6. Total(v, img(S)) \in Nat /\ Total(v, V \ img(S)) \in Nat /\ Total(w, S) \in Nat
  <2>1. img(S) \in SUBSET V
    BY <1>0
  <2> HIDE DEF img
  <2> QED
    BY <2>1, FS_Subset, TotalType
<1> QED
  BY <1>4, <1>5, <1>6
=============================================================================
