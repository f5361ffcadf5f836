------------------------ MODULE RolePermissionsProofs ------------------------
(***************************************************************************)
(* What the two SDKs read of a role's actions and do to them is right for  *)
(* every list of actions, any number of clients and every bound.  The      *)
(* lists are handled by their indices: what is read, removed or written    *)
(* back are some indices in an order, and one order of a set of indices is *)
(* as good as another when occurrences are counted.                        *)
(***************************************************************************)
EXTENDS RolePermissions, SetInduction

-----------------------------------------------------------------------------
(* Finite sets and the functions between them.                             *)
LEMMA OneToOne ==
  ASSUME NEW S, NEW T, NEW f \in [S -> T], IsFiniteSet(S),
         \A x, y \in S : f[x] = f[y] => x = y,
         \A t \in T : \E x \in S : f[x] = t
  PROVE  IsFiniteSet(T) /\ Cardinality(T) = Cardinality(S)
<1>1. f \in Bijection(S, T)
  BY DEF Bijection, Injection, Surjection, IsInjective
<1>2. ExistsBijection(S, T)
  BY <1>1 DEF ExistsBijection
<1> QED BY <1>2, FS_Bijection

LEMMA ReachesAll ==
  ASSUME NEW S, NEW T, NEW f \in [S -> T], IsFiniteSet(T), Cardinality(S) = Cardinality(T),
         \A x, y \in S : f[x] = f[y] => x = y
  PROVE  \A t \in T : \E x \in S : f[x] = t
<1>1. f \in Injection(S, T)
  BY DEF Injection, IsInjective
<1>2. f \in Surjection(S, T)
  BY <1>1, FS_Injection
<1> QED BY <1>2 DEF Surjection

LEMMA Interval ==
  ASSUME NEW n \in Nat
  PROVE  IsFiniteSet(1..n) /\ Cardinality(1..n) = n
<1>1. 1 \in Int /\ n \in Int
  OBVIOUS
<1>2. IsFiniteSet(1..n) /\ Cardinality(1..n) = IF 1 > n THEN 0 ELSE n - 1 + 1
  BY <1>1, FS_Interval
<1> QED BY <1>2

-----------------------------------------------------------------------------
(* Indices in an order.                                                    *)
Orders(before, I) ==
  /\ \A i \in I : <<i, i>> \notin before
  /\ \A h, i \in I : <<h, i>> \in before \/ h = i \/ <<i, h>> \in before
  /\ \A h, i, j \in I : <<h, i>> \in before /\ <<i, j>> \in before => <<h, j>> \in before

Ahead(I, before, i) == {h \in I : <<h, i>> \in before}

(* A list of all of them, each once, in their order. *)
Enumerates(s, I, before) ==
  /\ s = [j \in 1..Cardinality(I) |-> s[j]]
  /\ \A j \in 1..Cardinality(I) : s[j] \in I
  /\ \A i \in I : \E j \in 1..Cardinality(I) : s[j] = i
  /\ \A j, k \in 1..Cardinality(I) : j < k => <<s[j], s[k]>> \in before

LEMMA AheadCounts ==
  ASSUME NEW I, IsFiniteSet(I), NEW before, Orders(before, I)
  PROVE  /\ \A i \in I : Cardinality(Ahead(I, before, i)) \in 0..(Cardinality(I) - 1)
         /\ \A h, i \in I : <<h, i>> \in before =>
              Cardinality(Ahead(I, before, h)) < Cardinality(Ahead(I, before, i))
<1>0. Cardinality(I) \in Nat
  BY FS_CardinalityType
<1>1. ASSUME NEW i \in I
      PROVE  /\ IsFiniteSet(Ahead(I, before, i)) /\ Cardinality(Ahead(I, before, i)) \in Nat
             /\ Cardinality(Ahead(I, before, i)) < Cardinality(I)
  <2>1. Ahead(I, before, i) \in SUBSET (I \ {i}) /\ Ahead(I, before, i) \in SUBSET I
    BY DEF Ahead, Orders
  <2>2. IsFiniteSet(I \ {i}) /\ Cardinality(I \ {i}) = Cardinality(I) - 1
    BY FS_RemoveElement
  <2>3. /\ IsFiniteSet(Ahead(I, before, i))
        /\ Cardinality(Ahead(I, before, i)) <= Cardinality(I) - 1
    BY <2>1, <2>2, FS_Subset
  <2>4. Cardinality(Ahead(I, before, i)) \in Nat
    BY <2>3, FS_CardinalityType
  <2> QED BY <1>0, <2>3, <2>4
<1>2. ASSUME NEW h \in I, NEW i \in I, <<h, i>> \in before
      PROVE  Cardinality(Ahead(I, before, h)) < Cardinality(Ahead(I, before, i))
  <2> DEFINE A == Ahead(I, before, h)
             B == Ahead(I, before, i)
  <2>1. A \subseteq B /\ h \in B /\ h \notin A
    BY <1>2 DEF Ahead, Orders
  <2>2. IsFiniteSet(A) /\ IsFiniteSet(B) /\ Cardinality(A) \in Nat /\ Cardinality(B) \in Nat
    BY <1>1
  <2> HIDE DEF A, B
  <2>3. Cardinality(A) <= Cardinality(B) /\ (Cardinality(B) = Cardinality(A) => B = A)
    BY <2>1, <2>2, FS_Subset
  <2>4. Cardinality(A) < Cardinality(B)
    BY <2>1, <2>2, <2>3
  <2> QED BY <2>4 DEF A, B
<1> QED BY <1>0, <1>1, <1>2

(* The list that InOrder makes. *)
LEMMA InOrderEnumerates ==
  ASSUME NEW I, IsFiniteSet(I), NEW before, Orders(before, I)
  PROVE  Enumerates(InOrder(I, before), I, before)
<1> DEFINE n == Cardinality(I)
           p == [i \in I |-> Cardinality(Ahead(I, before, i)) + 1]
           s == InOrder(I, before)
<1>0. n \in Nat
  BY FS_CardinalityType
<1>1. \A i \in I : p[i] \in 1..n
  BY <1>0, AheadCounts
<1>2. \A h, i \in I : <<h, i>> \in before => p[h] < p[i]
  <2>1. \A h, i \in I : <<h, i>> \in before =>
          Cardinality(Ahead(I, before, h)) < Cardinality(Ahead(I, before, i))
    BY AheadCounts
  <2>2. \A i \in I : Cardinality(Ahead(I, before, i)) \in Int
    BY <1>0, AheadCounts
  <2> QED BY <2>1, <2>2
<1>3. p \in [I -> 1..n]
  BY <1>1
<1>4. s = [j \in 1..n |-> CHOOSE i \in I : Cardinality(Ahead(I, before, i)) = j - 1]
  BY DEF InOrder, Ahead
<1>5. \A i \in I, j \in 1..n : Cardinality(Ahead(I, before, i)) = j - 1 <=> p[i] = j
  <2>1. \A i \in I : Cardinality(Ahead(I, before, i)) \in Int
    BY <1>0, AheadCounts
  <2> QED BY <1>0, <2>1
<1> HIDE DEF p, s, n
<1>6. \A h, i \in I : p[h] = p[i] => h = i
  <2>1. SUFFICES ASSUME NEW h \in I, NEW i \in I, p[h] = p[i], h # i PROVE FALSE
    OBVIOUS
  <2>2. <<h, i>> \in before \/ <<i, h>> \in before
    BY <2>1 DEF Orders
  <2>3. p[h] < p[i] \/ p[i] < p[h]
    BY <1>2, <2>2
  <2>4. p[h] \in Nat /\ p[i] \in Nat
    BY <1>0, <1>1
  <2> QED BY <2>1, <2>3, <2>4
<1>7. \A j \in 1..n : \E i \in I : p[i] = j
  <2> DEFINE T == 1..n
  <2>1. IsFiniteSet(T) /\ Cardinality(I) = Cardinality(T) /\ p \in [I -> T]
    BY <1>0, <1>3, Interval DEF n
  <2> HIDE DEF T
  <2>2. \A j \in T : \E i \in I : p[i] = j
    BY <1>6, <2>1, ReachesAll
  <2> QED BY <2>2 DEF T
<1>8. ASSUME NEW j \in 1..n PROVE s[j] \in I /\ p[s[j]] = j
  <2>1. \E i \in I : Cardinality(Ahead(I, before, i)) = j - 1
    BY <1>5, <1>7
  <2>2. s[j] \in I /\ Cardinality(Ahead(I, before, s[j])) = j - 1
    BY <1>4, <2>1
  <2> QED BY <1>5, <2>2
<1>9. \A i \in I : \E j \in 1..n : s[j] = i
  BY <1>1, <1>6, <1>8
<1>10. ASSUME NEW j \in 1..n, NEW k \in 1..n, j < k PROVE <<s[j], s[k]>> \in before
  <2>1. s[j] \in I /\ s[k] \in I /\ p[s[j]] = j /\ p[s[k]] = k
    BY <1>8
  <2>2. j \in Nat /\ k \in Nat
    BY <1>0
  <2>3. s[j] # s[k]
    BY <1>10, <2>1, <2>2
  <2>4. ~(<<s[k], s[j]>> \in before)
    <3>1. SUFFICES ASSUME <<s[k], s[j]>> \in before PROVE FALSE
      OBVIOUS
    <3>2. p[s[k]] < p[s[j]]
      BY <1>2, <2>1, <3>1
    <3> QED BY <1>10, <2>1, <2>2, <3>2
  <2> QED BY <2>1, <2>3, <2>4 DEF Orders
<1>11. s = [j \in 1..n |-> s[j]]
  BY <1>4
<1> QED BY <1>8, <1>9, <1>10, <1>11 DEF Enumerates, n, s

(* No index comes twice. *)
LEMMA OnceEach ==
  ASSUME NEW I, IsFiniteSet(I), NEW before, Orders(before, I), NEW s, Enumerates(s, I, before)
  PROVE  \A j, k \in 1..Cardinality(I) : s[j] = s[k] => j = k
<1>0. Cardinality(I) \in Nat
  BY FS_CardinalityType
<1>1. SUFFICES ASSUME NEW j \in 1..Cardinality(I), NEW k \in 1..Cardinality(I),
                      s[j] = s[k], j < k
               PROVE  FALSE
  BY <1>0
<1>2. <<s[j], s[k]>> \in before /\ s[j] \in I
  BY <1>1 DEF Enumerates
<1> QED BY <1>1, <1>2 DEF Orders

(* There is only one such list. *)
LEMMA OneOrder ==
  ASSUME NEW I, IsFiniteSet(I), NEW before, Orders(before, I),
         NEW s, Enumerates(s, I, before), NEW t, Enumerates(t, I, before)
  PROVE  s = t
<1> DEFINE n == Cardinality(I)
<1>0. n \in Nat
  BY FS_CardinalityType
<1>1. ASSUME NEW u, Enumerates(u, I, before), NEW j \in 1..n
      PROVE  Cardinality(Ahead(I, before, u[j])) = j - 1
  <2> DEFINE S == 1..(j - 1)
             T == Ahead(I, before, u[j])
             f == [k \in S |-> u[k]]
  <2>0. j \in Nat /\ j - 1 \in Nat /\ \A k \in S : k \in 1..n /\ k < j
    BY <1>0
  <2>1. f \in [S -> T]
    BY <1>1, <2>0 DEF Ahead, Enumerates
  <2>2. \A k, l \in S : f[k] = f[l] => k = l
    BY <1>1, <2>0, OnceEach
  <2>3. \A i \in T : \E k \in S : f[k] = i
    <3>1. SUFFICES ASSUME NEW i \in T PROVE \E k \in S : f[k] = i
      OBVIOUS
    <3>2. i \in I /\ <<i, u[j]>> \in before /\ u[j] \in I
      BY <1>1 DEF Ahead, Enumerates
    <3>3. PICK k \in 1..n : u[k] = i
      BY <1>1, <3>2 DEF Enumerates
    <3>4. k # j
      BY <3>2, <3>3 DEF Orders
    <3>5. ~(j < k)
      <4>1. SUFFICES ASSUME j < k PROVE FALSE
        OBVIOUS
      <4>2. <<u[j], i>> \in before
        BY <1>1, <3>3, <4>1 DEF Enumerates
      <4> QED BY <3>2, <4>2 DEF Orders
    <3>6. k \in S
      BY <1>0, <3>4, <3>5
    <3> QED BY <3>3, <3>6
  <2>4. IsFiniteSet(S) /\ Cardinality(S) = j - 1
    BY <2>0, Interval
  <2> HIDE DEF S, T, f
  <2>5. Cardinality(T) = Cardinality(S)
    BY <2>1, <2>2, <2>3, <2>4, OneToOne
  <2> QED BY <2>4, <2>5 DEF T
<1>2. ASSUME NEW j \in 1..n PROVE s[j] = t[j]
  <2>1. s[j] \in I /\ t[j] \in I
    BY DEF Enumerates
  <2>2. /\ Cardinality(Ahead(I, before, s[j])) = j - 1
        /\ Cardinality(Ahead(I, before, t[j])) = j - 1
    BY <1>1
  <2>3. ~(<<s[j], t[j]>> \in before) /\ ~(<<t[j], s[j]>> \in before)
    <3>1. \A h, i \in I : <<h, i>> \in before =>
            Cardinality(Ahead(I, before, h)) < Cardinality(Ahead(I, before, i))
      BY AheadCounts
    <3> QED BY <1>0, <2>1, <2>2, <3>1
  <2> QED BY <2>1, <2>3 DEF Orders
<1> QED BY <1>2 DEF Enumerates

(* A part of such a list, in an order that agrees, lists what it names. *)
Reaches(s, J, K) == (\A j \in J : s[j] \in K) /\ \A k \in K : \E j \in J : s[j] = k
Agrees(s, J, c, e) == \A j, k \in J : <<j, k>> \in c => <<s[j], s[k]>> \in e
Composed(q, s, t, K) == q = [m \in 1..Cardinality(K) |-> s[t[m]]]

LEMMA PartOf ==
  ASSUME NEW I, IsFiniteSet(I), NEW b, Orders(b, I), NEW s, Enumerates(s, I, b),
         NEW J \in SUBSET (1..Cardinality(I)), NEW c, Orders(c, J), NEW t, Enumerates(t, J, c),
         NEW K, Reaches(s, J, K), NEW e, Agrees(s, J, c, e),
         NEW q, Composed(q, s, t, K)
  PROVE  /\ IsFiniteSet(J) /\ Cardinality(J) = Cardinality(K)
         /\ Enumerates(q, K, e)
<1> DEFINE N == 1..Cardinality(I)
<1> USE DEF Reaches, Agrees, Composed
<1>0. Cardinality(I) \in Nat /\ IsFiniteSet(N)
  BY FS_CardinalityType, Interval
<1>1. IsFiniteSet(J)
  BY <1>0, FS_Subset
<1>2. IsFiniteSet(K) /\ Cardinality(K) = Cardinality(J)
  <2> DEFINE f == [j \in J |-> s[j]]
  <2>1. f \in [J -> K] /\ \A k \in K : \E j \in J : f[j] = k
    OBVIOUS
  <2>2. \A j, k \in J : f[j] = f[k] => j = k
    BY OnceEach
  <2> HIDE DEF f
  <2> QED BY <1>1, <2>1, <2>2, OneToOne
<1>3. /\ \A m \in 1..Cardinality(J) : t[m] \in J
      /\ \A j \in J : \E m \in 1..Cardinality(J) : t[m] = j
      /\ \A m, l \in 1..Cardinality(J) : m < l => <<t[m], t[l]>> \in c
  BY DEF Enumerates
<1>4. \A m \in 1..Cardinality(K) : q[m] \in K
  BY <1>2, <1>3
<1>5. \A k \in K : \E m \in 1..Cardinality(K) : q[m] = k
  BY <1>2, <1>3
<1>6. \A m, l \in 1..Cardinality(K) : m < l => <<q[m], q[l]>> \in e
  BY <1>2, <1>3
<1>7. q = [m \in 1..Cardinality(K) |-> q[m]]
  OBVIOUS
<1> QED BY <1>1, <1>2, <1>4, <1>5, <1>6, <1>7 DEF Enumerates

(* What a list is counted by: the indices it was made from. *)
LEMMA CountsOf ==
  ASSUME NEW I, IsFiniteSet(I), NEW before, Orders(before, I), NEW o, Enumerates(o, I, before),
         NEW g, NEW t, t = [j \in 1..Cardinality(I) |-> g[o[j]]]
  PROVE  \A x : Count(t, x) = Cardinality({i \in I : g[i] = x})
<1>1. SUFFICES ASSUME NEW x PROVE Count(t, x) = Cardinality({i \in I : g[i] = x})
  OBVIOUS
<1> DEFINE N == 1..Cardinality(I)
           S == {j \in N : t[j] = x}
           T == {i \in I : g[i] = x}
           f == [j \in S |-> o[j]]
<1>2. IsFiniteSet(N)
  BY FS_CardinalityType, Interval
<1>3. IsFiniteSet(S)
  BY <1>2, FS_Subset
<1>4. f \in [S -> T]
  BY DEF Enumerates
<1>5. \A j, k \in S : f[j] = f[k] => j = k
  BY OnceEach
<1>6. \A i \in T : \E j \in S : f[j] = i
  BY DEF Enumerates
<1>7. Count(t, x) = Cardinality(S)
  BY DEF Count
<1> HIDE DEF S, T, f
<1>8. Cardinality(S) = Cardinality(T)
  BY <1>3, <1>4, <1>5, <1>6, OneToOne
<1> QED BY <1>7, <1>8 DEF T

-----------------------------------------------------------------------------
(* The model's two orders, and the lists made by them.                     *)
LEMMA Listed ==
  ASSUME NEW T, NEW l \in Seq(T)
  PROVE  /\ DOMAIN l = 1..Len(l) /\ Len(l) \in Nat /\ IsFiniteSet(DOMAIN l)
         /\ \A i \in DOMAIN l : l[i] \in T
         /\ DOMAIN l \subseteq Nat
<1>1. DOMAIN l = 1..Len(l) /\ Len(l) \in Nat /\ \A i \in DOMAIN l : l[i] \in T
  OBVIOUS
<1> QED BY <1>1, Interval

LEMMA AscendingOrders ==
  ASSUME NEW I \in SUBSET Nat
  PROVE  Orders(Ascending(I), I)
<1>1. \A h, i \in I : <<h, i>> \in Ascending(I) <=> h < i
  BY DEF Ascending
<1> QED BY <1>1 DEF Orders

LEMMA ThoseAre ==
  ASSUME NEW l, NEW I, IsFiniteSet(I), I \in SUBSET Nat
  PROVE  /\ Enumerates(InOrder(I, Ascending(I)), I, Ascending(I))
         /\ Those(l, I) = [j \in 1..Cardinality(I) |-> l[InOrder(I, Ascending(I))[j]]]
         /\ DOMAIN Those(l, I) = 1..Cardinality(I) /\ Cardinality(I) \in Nat
<1>1. Enumerates(InOrder(I, Ascending(I)), I, Ascending(I))
  BY AscendingOrders, InOrderEnumerates
<1>2. DOMAIN InOrder(I, Ascending(I)) = 1..Cardinality(I)
  BY DEF InOrder
<1> QED BY <1>1, <1>2, FS_CardinalityType DEF Those

LEMMA ThoseListed ==
  ASSUME NEW T, NEW l \in Seq(T), NEW I \in SUBSET DOMAIN l
  PROVE  Those(l, I) \in Seq(T) /\ Len(Those(l, I)) = Cardinality(I)
                                /\ Cardinality(I) <= Len(l)
<1>1. IsFiniteSet(I) /\ I \in SUBSET Nat /\ Cardinality(I) <= Len(l)
  <2> DEFINE N == DOMAIN l
  <2>1. IsFiniteSet(N) /\ N \subseteq Nat /\ Cardinality(N) = Len(l)
    BY Listed, Interval
  <2> HIDE DEF N
  <2>2. IsFiniteSet(I) /\ Cardinality(I) <= Cardinality(N)
    BY <2>1, FS_Subset DEF N
  <2> QED BY <2>1, <2>2 DEF N
<1> DEFINE o == InOrder(I, Ascending(I))
           n == Cardinality(I)
<1>2. \A j \in 1..n : l[o[j]] \in T
  BY <1>1, ThoseAre, Listed DEF Enumerates
<1>3. Those(l, I) = [j \in 1..n |-> l[o[j]]] /\ n \in Nat
  BY <1>1, ThoseAre
<1> HIDE DEF o, n
<1>4. Those(l, I) \in Seq(T) /\ Len(Those(l, I)) = n
  BY <1>2, <1>3
<1> QED BY <1>1, <1>4 DEF n

LEMMA ThoseCount ==
  ASSUME NEW l, NEW I, IsFiniteSet(I), I \in SUBSET Nat
  PROVE  \A x : Count(Those(l, I), x) = Cardinality({i \in I : l[i] = x})
<1> DEFINE o == InOrder(I, Ascending(I))
           t == Those(l, I)
<1>1. Orders(Ascending(I), I)
  BY AscendingOrders
<1>2. Enumerates(o, I, Ascending(I))
  BY <1>1, InOrderEnumerates
<1>3. t = [j \in 1..Cardinality(I) |-> l[o[j]]]
  <2>1. DOMAIN o = 1..Cardinality(I)
    BY DEF InOrder
  <2>2. t = [j \in DOMAIN o |-> l[o[j]]]
    BY DEF Those
  <2> HIDE DEF o, t
  <2> QED BY <2>1, <2>2
<1> HIDE DEF o, t
<1>4. \A x : Count(t, x) = Cardinality({i \in I : l[i] = x})
  BY <1>1, <1>2, <1>3, CountsOf
<1> QED BY <1>4 DEF t

-----------------------------------------------------------------------------
(* The two vocabularies.                                                   *)
Known == Range(ReadOrder)

LEMMA KnownKinds ==
  Known = {"All", "ManageAuthority", "ReplaceAuthority", "SolLimit", "SolRecurringLimit",
     "TokenLimit", "TokenRecurringLimit", "TokenDestinationLimit",
     "TokenRecurringDestinationLimit", "SolDestinationLimit",
     "SolRecurringDestinationLimit", "ProgramAll", "ProgramCurated", "Program",
     "ProgramScope", "SubAccount", "SubAccountV2Create", "SubAccountV2All",
     "SubAccountV2Sign", "SubAccountV2Withdraw", "SubAccountV2Toggle", "StakeLimit",
     "StakeRecurringLimit", "StakeAll", "AllButManageAuthority"}
<1>1. DOMAIN ReadOrder = 1..25
  BY DEF ReadOrder
<1>2. \A i \in 1..25 : \/ i = 1 \/ i = 2 \/ i = 3 \/ i = 4 \/ i = 5 \/ i = 6 \/ i = 7 \/ i = 8
                       \/ i = 9 \/ i = 10 \/ i = 11 \/ i = 12 \/ i = 13 \/ i = 14 \/ i = 15
                       \/ i = 16 \/ i = 17 \/ i = 18 \/ i = 19 \/ i = 20 \/ i = 21 \/ i = 22
                       \/ i = 23 \/ i = 24 \/ i = 25
  OBVIOUS
<1>3. Known = {ReadOrder[i] : i \in 1..25}
  BY <1>1 DEF Known, Range
<1>4. {ReadOrder[i] : i \in 1..25} =
        {ReadOrder[1], ReadOrder[2], ReadOrder[3], ReadOrder[4], ReadOrder[5], ReadOrder[6],
         ReadOrder[7], ReadOrder[8], ReadOrder[9], ReadOrder[10], ReadOrder[11], ReadOrder[12],
         ReadOrder[13], ReadOrder[14], ReadOrder[15], ReadOrder[16], ReadOrder[17], ReadOrder[18],
         ReadOrder[19], ReadOrder[20], ReadOrder[21], ReadOrder[22], ReadOrder[23], ReadOrder[24],
         ReadOrder[25]}
  BY <1>2
<1> QED BY <1>3, <1>4 DEF ReadOrder

(* A variant and whether it recurs tell the kinds of Rust apart. *)
LEMMA VariantsTell ==
  \A k, m \in Known :
    VariantOf(k) = VariantOf(m) /\ (k \in RecurringKinds <=> m \in RecurringKinds) => k = m
<1>1. \A k \in Known :
        /\ VariantOf(k) = "Sol" <=> k \in {"SolLimit", "SolRecurringLimit"}
        /\ VariantOf(k) = "SolDestination" <=>
             k \in {"SolDestinationLimit", "SolRecurringDestinationLimit"}
        /\ VariantOf(k) = "Token" <=> k \in {"TokenLimit", "TokenRecurringLimit"}
        /\ VariantOf(k) = "TokenDestination" <=>
             k \in {"TokenDestinationLimit", "TokenRecurringDestinationLimit"}
        /\ VariantOf(k) = "Stake" <=> k \in {"StakeLimit", "StakeRecurringLimit"}
        /\ VariantOf(k) \in {k, "Sol", "SolDestination", "Token", "TokenDestination", "Stake"}
  BY KnownKinds DEF VariantOf
<1> QED BY <1>1 DEF RecurringKinds

LEMMA KindOfPermission ==
  ASSUME NEW a \in Action, IsKnown(a)
  PROVE  KindOf(PermissionOf(a)) = a.kind
<1> DEFINE p == PermissionOf(a)
<1>1. a.kind \in Known /\ p.variant = VariantOf(a.kind)
  BY DEF IsKnown, Known, PermissionOf
<1>2. a.kind # "ProgramScope" => (a.kind \in RecurringKinds) = p.recurring
  <2>1. a.kind # "ProgramScope" => a.scope = "Basic"
    BY DEF Action
  <2> QED BY <2>1 DEF PermissionOf
<1>3. ASSUME NEW k \in Known, VariantOf(k) = p.variant,
             k # "ProgramScope" => (k \in RecurringKinds) = p.recurring
      PROVE  k = a.kind
  <2>1. VariantOf(k) = VariantOf(a.kind)
    BY <1>1, <1>3
  <2>2. k = "ProgramScope" <=> a.kind = "ProgramScope"
    BY <2>1 DEF VariantOf
  <2>3. CASE a.kind # "ProgramScope"
    <3>1. (k \in RecurringKinds) = (a.kind \in RecurringKinds)
      BY <1>2, <1>3, <2>2, <2>3
    <3> QED BY <1>1, <2>1, <3>1, VariantsTell
  <2> QED BY <2>2, <2>3
<1> HIDE DEF p
<1>5. KindOf(p) = CHOOSE k \in Known :
        VariantOf(k) = p.variant /\ (k # "ProgramScope" => (k \in RecurringKinds) = p.recurring)
  BY DEF KindOf, Known
<1>6. KindOf(p) = a.kind
  BY <1>1, <1>2, <1>3, <1>5
<1> QED BY <1>6 DEF p

LEMMA Amounts ==
  /\ 0 \in Amount /\ Amount \subseteq Wide /\ NoLimit \notin Wide
  /\ \A n \in Wide : n \in Nat /\ LowWord(n) \in Amount
<1>1. MaxLimit \in Nat /\ MaxWide \in Nat /\ MaxLimit <= MaxWide
  BY BoundsAssumption
<1>2. \A n \in Nat, m \in Nat : m > 0 => n % m \in 0..(m - 1)
  OBVIOUS
<1>3. ASSUME NEW n \in Wide PROVE n \in Nat /\ LowWord(n) \in Amount
  <2> DEFINE m == MaxLimit + 1
  <2>1. n \in Nat /\ m \in Nat /\ m > 0 /\ m - 1 = MaxLimit
    BY <1>1 DEF Wide
  <2> HIDE DEF m
  <2>2. n % m \in 0..(m - 1)
    BY <1>2, <2>1
  <2>3. LowWord(n) = n % m
    BY DEF LowWord, m
  <2>4. LowWord(n) \in 0..MaxLimit
    BY <2>1, <2>2, <2>3
  <2> QED BY <2>1, <2>4 DEF Amount
<1>4. 0 \in Amount /\ Amount \subseteq Wide
  BY <1>1 DEF Amount, Wide
<1>5. NoLimit \notin Wide
  BY <1>3, NoLimitAssumption
<1> QED BY <1>3, <1>4, <1>5

(* What is written back for an action is what Renewed says of it. *)
LEMMA ReadAndWritten ==
  ASSUME NEW a \in Action, IsKnown(a)
  PROVE  ClientAction(PermissionOf(a)) = Renewed(a) /\ Renewed(a) \in Action
<1> DEFINE p == PermissionOf(a)
           k == KindOf(p)
           left == IF p.variant = "ProgramScope" THEN 0 ELSE p.amount
           topUp == IF p.amount # NoLimit /\ (p.recurring \/ p.variant = "ProgramScope")
                    THEN p.amount ELSE 0
           scope == CASE p.variant # "ProgramScope" \/ p.amount = NoLimit -> "Basic"
                      [] p.variant = "ProgramScope" /\ p.recurring -> "RecurringLimit"
                      [] p.variant = "ProgramScope" /\ p.amount # NoLimit /\ ~p.recurring -> "Limit"
<1>1. k = a.kind
  BY KindOfPermission
<1>2. /\ a = [kind |-> a.kind, arg |-> a.arg, to |-> a.to, left |-> a.left,
              topUp |-> a.topUp, scope |-> a.scope, bound |-> a.bound]
      /\ a.left \in Wide /\ a.topUp \in Wide /\ a.scope \in {"Basic", "Limit", "RecurringLimit"}
      /\ a.kind # "ProgramScope" => a.left \in Amount /\ a.topUp \in Amount /\ a.scope = "Basic"
      /\ a.kind \notin RecurringKinds \cup {"ProgramScope"} => a.topUp = 0
      /\ a.kind # "SubAccount" => a.bound = FALSE
  BY DEF Action, Fields
<1>3. ClientAction(p) = [kind |-> k, arg |-> p.arg, to |-> p.to, left |-> left,
                         topUp |-> topUp, scope |-> scope, bound |-> FALSE]
  <2> DEFINE m == Marker(k)
  <2>1. m = [kind |-> k, arg |-> NoArg, to |-> AnyPlace, left |-> 0, topUp |-> 0,
             scope |-> "Basic", bound |-> FALSE]
    BY DEF Marker
  <2>2. ClientAction(p) = [m EXCEPT !.arg = p.arg, !.to = p.to, !.left = left,
                                    !.topUp = topUp, !.scope = scope]
    BY DEF ClientAction
  <2> HIDE DEF m, p, k, left, topUp, scope
  <2> QED BY <2>1, <2>2
<1>4. p.arg = a.arg /\ p.to = a.to /\ p.variant = VariantOf(a.kind)
  BY DEF PermissionOf
<1>5. p.variant = "ProgramScope" <=> a.kind = "ProgramScope"
  BY <1>4 DEF VariantOf
<1>6. 0 \in Amount /\ \A n \in Amount : n # NoLimit /\ n \in Wide
  BY Amounts
<1>7. CASE a.kind = "ProgramScope"
  <2> DEFINE limit == IF a.scope = "Basic" THEN 0 ELSE LowWord(a.topUp)
  <2>0. a.kind \notin RecurringKinds /\ LowWord(a.topUp) \in Amount
    BY <1>2, <1>7, Amounts DEF RecurringKinds
  <2>1. /\ p.recurring <=> a.scope = "RecurringLimit"
        /\ p.amount = IF a.scope = "Basic" THEN NoLimit ELSE LowWord(a.topUp)
    BY <1>7, <2>0 DEF PermissionOf
  <2>2. left = 0 /\ topUp = limit
    BY <1>2, <1>5, <1>6, <1>7, <2>0, <2>1
  <2>3. scope = a.scope
    BY <1>2, <1>5, <1>6, <1>7, <2>0, <2>1
  <2>4. Renewed(a) = [a EXCEPT !.left = 0, !.topUp = IF a.scope = "Basic" THEN 0 ELSE LowWord(@)]
    BY <1>7, <2>0 DEF Renewed
  <2>5. Renewed(a) = [kind |-> a.kind, arg |-> a.arg, to |-> a.to, left |-> 0, topUp |-> limit,
                      scope |-> a.scope, bound |-> FALSE]
    BY <1>2, <1>7, <2>4
  <2>6. limit \in Wide /\ 0 \in Wide
    BY <1>6, <2>0
  <2> HIDE DEF limit
  <2>7. Renewed(a) \in Action
    BY <1>2, <1>7, <2>0, <2>5, <2>6 DEF Action, Fields, SolKinds, TokenKinds
  <2> QED BY <1>1, <1>3, <1>4, <2>2, <2>3, <2>5, <2>7
<1>8. CASE a.kind \in RecurringKinds
  <2>0. a.kind # "ProgramScope" /\ a.kind # "SubAccount"
    BY <1>8 DEF RecurringKinds
  <2>1. p.recurring /\ p.amount = a.topUp
    BY <1>8, <2>0 DEF PermissionOf
  <2>2. left = a.topUp /\ topUp = a.topUp /\ scope = a.scope
    BY <1>2, <1>5, <1>6, <2>0, <2>1
  <2>3. Renewed(a) = [a EXCEPT !.left = a.topUp]
    BY <1>8, <2>0 DEF Renewed
  <2>4. Renewed(a) = [kind |-> a.kind, arg |-> a.arg, to |-> a.to, left |-> a.topUp,
                      topUp |-> a.topUp, scope |-> a.scope, bound |-> FALSE]
    BY <1>2, <2>0, <2>3
  <2>5. a.topUp <= a.topUp
    BY <1>2, Amounts
  <2>6. Renewed(a) \in Action
    BY <1>2, <1>8, <2>0, <2>4, <2>5 DEF Action, Fields
  <2> QED BY <1>1, <1>3, <1>4, <2>2, <2>4, <2>6
<1>9. CASE a.kind # "ProgramScope" /\ a.kind \notin RecurringKinds
  <2>1. p.recurring = FALSE /\ p.amount = a.left
    BY <1>2, <1>9 DEF PermissionOf
  <2>2. left = a.left /\ topUp = 0 /\ scope = a.scope
    BY <1>2, <1>5, <1>9, <2>1
  <2>3. Renewed(a) = [kind |-> a.kind, arg |-> a.arg, to |-> a.to, left |-> a.left,
                      topUp |-> a.topUp, scope |-> a.scope, bound |-> FALSE]
    BY <1>2, <1>9 DEF Renewed
  <2>4. Renewed(a) \in Action
    BY <1>2, <1>9, <2>3 DEF Action, Fields
  <2> QED BY <1>1, <1>2, <1>3, <1>4, <1>9, <2>2, <2>3, <2>4
<1> QED BY <1>7, <1>8, <1>9

-----------------------------------------------------------------------------
(* The permissions Rust reads.                                             *)
Read(list) == {i \in DOMAIN list : IsRead(list, i)}
Reading(list) == {p \in Read(list) \X Read(list) : ReadBefore(list, p[1], p[2])}

LEMMA Ranks ==
  /\ \A k \in Known : Rank[k] \in Nat
  /\ \A k, m \in Known : Rank[k] = Rank[m] => k = m
<1>1. \A k \in Known : \E r \in DOMAIN ReadOrder : ReadOrder[r] = k
  BY DEF Known, Range
<1>2. \A k \in Known : Rank[k] = CHOOSE r \in DOMAIN ReadOrder : ReadOrder[r] = k
  BY DEF Rank, Known
<1>3. \A k \in Known : Rank[k] \in DOMAIN ReadOrder /\ ReadOrder[Rank[k]] = k
  BY <1>1, <1>2
<1>4. DOMAIN ReadOrder \subseteq Nat
  BY DEF ReadOrder
<1> QED BY <1>3, <1>4

LEMMA ReadingOrders ==
  ASSUME NEW list \in Seq(Action)
  PROVE  /\ IsFiniteSet(Read(list)) /\ Read(list) \in SUBSET DOMAIN list
         /\ Cardinality(Read(list)) \in Nat
         /\ \A i \in Read(list) : list[i] \in Action /\ list[i].kind \in Known
         /\ Orders(Reading(list), Read(list))
<1>1. IsFiniteSet(Read(list)) /\ Read(list) \in SUBSET DOMAIN list
  BY Listed, FS_Subset DEF Read
<1>2. \A i \in Read(list) : list[i] \in Action /\ list[i].kind \in Known /\ i \in Nat
  BY Listed DEF Read, IsRead, IsKnown, Known
<1>3. \A h, i \in Read(list) : <<h, i>> \in Reading(list) <=> ReadBefore(list, h, i)
  BY DEF Reading
<1>4. \A i \in Read(list) : Rank[list[i].kind] \in Nat
  BY <1>2, Ranks
<1>5. \A h, i \in Read(list) : Rank[list[h].kind] = Rank[list[i].kind] => list[h].kind = list[i].kind
  BY <1>2, Ranks
<1>6. \A i \in Read(list) : ~ReadBefore(list, i, i)
  BY <1>2, <1>4 DEF ReadBefore
<1>7. \A h, i \in Read(list) : ReadBefore(list, h, i) \/ h = i \/ ReadBefore(list, i, h)
  <2>1. TAKE h, i \in Read(list)
  <2>2. CASE list[h].kind = list[i].kind
    BY <1>2, <2>2 DEF ReadBefore
  <2>3. CASE list[h].kind # list[i].kind
    BY <1>4, <1>5, <2>3 DEF ReadBefore
  <2> QED BY <2>2, <2>3
<1>8. \A h, i, j \in Read(list) :
        ReadBefore(list, h, i) /\ ReadBefore(list, i, j) => ReadBefore(list, h, j)
  <2>1. TAKE h, i, j \in Read(list)
  <2>2. /\ h \in Nat /\ i \in Nat /\ j \in Nat
        /\ Rank[list[h].kind] \in Nat /\ Rank[list[i].kind] \in Nat /\ Rank[list[j].kind] \in Nat
    BY <1>2, <1>4
  <2> QED BY <2>2 DEF ReadBefore
<1>9. Orders(Reading(list), Read(list))
  BY <1>3, <1>6, <1>7, <1>8 DEF Orders
<1> QED BY <1>1, <1>2, <1>9, FS_CardinalityType

LEMMA FromRoleReads ==
  ASSUME NEW list \in Seq(Action)
  PROVE  /\ Enumerates(InOrder(Read(list), Reading(list)), Read(list), Reading(list))
         /\ FromRole(list) = [j \in 1..Cardinality(Read(list)) |->
                                PermissionOf(list[InOrder(Read(list), Reading(list))[j]])]
<1> DEFINE o == InOrder(Read(list), Reading(list))
<1>1. Enumerates(o, Read(list), Reading(list))
  BY ReadingOrders, InOrderEnumerates
<1>2. DOMAIN o = 1..Cardinality(Read(list))
  BY DEF InOrder
<1>3. FromRole(list) = [j \in DOMAIN o |-> PermissionOf(list[o[j]])]
  BY DEF FromRole, Read, Reading
<1> HIDE DEF o
<1>4. FromRole(list) = [j \in 1..Cardinality(Read(list)) |-> PermissionOf(list[o[j]])]
  BY <1>2, <1>3
<1> QED BY <1>1, <1>4 DEF o

(* What is written back, action by action. *)
LEMMA WritesRenewed ==
  ASSUME NEW list \in Seq(Action)
  PROVE  LET written == ToClientActions(FromRole(list))
         IN  /\ written = [j \in 1..Cardinality(Read(list)) |->
                             Renewed(list[InOrder(Read(list), Reading(list))[j]])]
             /\ written \in Seq(Action)
<1> DEFINE o == InOrder(Read(list), Reading(list))
           n == Cardinality(Read(list))
           written == ToClientActions(FromRole(list))
<1>1. FromRole(list) = [j \in 1..n |-> PermissionOf(list[o[j]])]
  BY FromRoleReads
<1>2. written = [j \in 1..n |-> ClientAction(PermissionOf(list[o[j]]))]
  BY <1>1 DEF ToClientActions
<1>3. \A j \in 1..n : list[o[j]] \in Action /\ IsKnown(list[o[j]])
  BY FromRoleReads, ReadingOrders DEF Enumerates, IsKnown, Known
<1>4. \A j \in 1..n : /\ ClientAction(PermissionOf(list[o[j]])) = Renewed(list[o[j]])
                      /\ Renewed(list[o[j]]) \in Action
  BY <1>3, ReadAndWritten
<1>5. n \in Nat
  BY ReadingOrders
<1> HIDE DEF o, n, written
<1>6. written = [j \in 1..n |-> Renewed(list[o[j]])]
  BY <1>2, <1>4
<1>7. written \in Seq(Action)
  BY <1>4, <1>5, <1>6
<1> QED BY <1>6, <1>7 DEF o, n, written
-----------------------------------------------------------------------------
(* The lists a role can have.                                              *)
LEMMA AddedListed ==
  /\ \A l \in Lists : l \in Seq(Action) /\ EnsureProgramAction(l) \in Seq(Action)
                      /\ EnsureProgramAction(l) # <<>>
  /\ Added \in SUBSET Action
<1>1. Marker("ProgramAll") \in Action
  <2>1. PermissionEnum[13] = "ProgramAll" /\ 13 \in DOMAIN PermissionEnum
    BY DEF PermissionEnum
  <2>2. "ProgramAll" \in Kind
    BY <2>1 DEF Kind, Range
  <2>3. 0 \in Amount /\ 0 \in Wide
    BY Amounts
  <2> QED BY <2>2, <2>3 DEF Marker, Action, Fields, SolKinds, TokenKinds, RecurringKinds
<1>2. ASSUME NEW l \in Lists
      PROVE  l \in Seq(Action) /\ EnsureProgramAction(l) \in Seq(Action) /\ EnsureProgramAction(l) # <<>>
  <2> DEFINE m == Marker("ProgramAll")
  <2>1. l \in Seq(Action) /\ l # <<>>
    BY ListsAssumption
  <2>2. Append(l, m) \in Seq(Action) /\ Append(l, m) # <<>>
    BY <1>1, <2>1
  <2> QED BY <2>1, <2>2 DEF EnsureProgramAction
<1>3. Added \in SUBSET Action
  <2>1. \A l \in Lists : Range(l) \subseteq Action
    BY ListsAssumption, Listed DEF Range
  <2> QED BY <2>1 DEF Added
<1> QED BY <1>2, <1>3

(* What an update leaves. *)
LEMMA UpdateListed ==
  ASSUME TypeOK, NEW list, list \in Seq(Action), Update(list)
  PROVE  TypeOK'
<1>1. /\ stored' = list /\ Len(list) \in 1..MaxActions
      /\ changes' = changes + 1 /\ updates' = updates + 1 /\ view' = view /\ changes < MaxChanges
  BY BoundsAssumption DEF Update
<1>2. view' \in [Client -> [actions: Seq(Action), changes: 0..changes', updates: 0..updates']]
  <2>1. 0..changes \subseteq 0..(changes + 1) /\ 0..updates \subseteq 0..(updates + 1)
    BY BoundsAssumption DEF TypeOK
  <2>2. \A c \in Client : view[c] \in [actions: Seq(Action), changes: 0..changes', updates: 0..updates']
    BY <1>1, <2>1 DEF TypeOK
  <2>3. view' = [c \in Client |-> view[c]]
    BY <1>1 DEF TypeOK
  <2> QED BY <2>2, <2>3
<1>3. stored' \in Seq(Action) /\ Len(stored') \in 1..MaxActions
  BY <1>1
<1>4. changes' \in 0..MaxChanges /\ updates' \in 0..changes'
  BY <1>1, BoundsAssumption DEF TypeOK
<1> QED BY <1>2, <1>3, <1>4 DEF TypeOK

(* An action and its grant, field by field. *)
LEMMA FieldsOf ==
  ASSUME NEW a \in Action
  PROVE  /\ a = [kind |-> a.kind, arg |-> a.arg, to |-> a.to, left |-> a.left, topUp |-> a.topUp,
                 scope |-> a.scope, bound |-> a.bound]
         /\ Grant(a) = [kind |-> a.kind, arg |-> IF a.kind = "SubAccount" THEN NoArg ELSE a.arg,
                        to |-> a.to, left |-> 0, topUp |-> a.topUp, scope |-> a.scope,
                        bound |-> FALSE]
<1>1. a = [kind |-> a.kind, arg |-> a.arg, to |-> a.to, left |-> a.left, topUp |-> a.topUp,
           scope |-> a.scope, bound |-> a.bound]
  BY DEF Action, Fields
<1> DEFINE arg == IF a.kind = "SubAccount" THEN NoArg ELSE a.arg
<1>2. Grant(a) = [a EXCEPT !.left = 0, !.arg = arg, !.bound = FALSE]
  BY DEF Grant
<1> HIDE DEF arg
<1>3. Grant(a) = [kind |-> a.kind, arg |-> arg, to |-> a.to, left |-> 0, topUp |-> a.topUp,
                  scope |-> a.scope, bound |-> FALSE]
  BY <1>1, <1>2, Zenon
<1> QED BY <1>1, <1>3 DEF arg

(* What the program's own change of one action leaves. *)
OneChanges(b, i) ==
  /\ b \in Action /\ Grant(b) = Grant(stored[i])
  /\ stored' = [stored EXCEPT ![i] = b]

LEMMA ChangeListed ==
  ASSUME TypeOK, NEW i \in DOMAIN stored, NEW b, OneChanges(b, i),
         changes < MaxChanges, changes' = changes + 1, updates' = updates, view' = view
  PROVE  TypeOK' /\ Grants(stored') = Grants(stored)
<1>1. stored \in Seq(Action)
  BY DEF TypeOK
<1>2. stored' = [stored EXCEPT ![i] = b] /\ b \in Action /\ Grant(b) = Grant(stored[i])
  BY DEF OneChanges
<1>3. stored' \in Seq(Action) /\ Len(stored') = Len(stored) /\ DOMAIN stored' = DOMAIN stored
  BY <1>1, <1>2
<1>4. view' \in [Client -> [actions: Seq(Action), changes: 0..changes', updates: 0..updates']]
  <2>1. 0..changes \subseteq 0..(changes + 1)
    BY BoundsAssumption DEF TypeOK
  <2>2. \A c \in Client : view[c] \in [actions: Seq(Action), changes: 0..changes', updates: 0..updates']
    BY <2>1 DEF TypeOK
  <2>3. view' = [c \in Client |-> view[c]]
    BY DEF TypeOK
  <2> QED BY <2>2, <2>3
<1>5. changes' \in 0..MaxChanges /\ updates' \in 0..changes'
  BY BoundsAssumption DEF TypeOK
<1>6. TypeOK'
  <2>1. Len(stored') \in 1..MaxActions
    BY <1>3 DEF TypeOK
  <2> QED BY <1>3, <1>4, <1>5, <2>1 DEF TypeOK
<1>7. \A j \in DOMAIN stored : stored'[j] = IF j = i THEN b ELSE stored[j]
  BY <1>2
<1>8. Grants(stored') = Grants(stored)
  BY <1>2, <1>3, <1>7 DEF Grants
<1> QED BY <1>6, <1>8

(* A transfer uses up an amount of one action, and no more than a full     *)
(* window is left of it.                                                   *)
LEMMA SpendChanges ==
  ASSUME TypeOK, NEW asset \in Asset, NEW to \in Dest, NEW n \in Amount, Spend(asset, to, n)
  PROVE  \E i \in DOMAIN stored : \E b : OneChanges(b, i)
<1>1. PICK i \in DOMAIN stored, due \in BOOLEAN :
        /\ Charges(stored[i], asset, to)
        /\ due => stored[i].kind \in RecurringKinds
        /\ n <= Payable(stored[i], due)
        /\ stored' = [stored EXCEPT ![i].left = Payable(stored[i], due) - n]
  BY DEF Spend
<1> DEFINE a == stored[i]
           left == Payable(a, due) - n
           b == [a EXCEPT !.left = left]
<1>2. a \in Action
  BY Listed DEF TypeOK
<1>3. a.kind # "ProgramScope" /\ a.kind # "SubAccount"
  BY <1>1 DEF Charges, SolKinds, TokenKinds
<1>4. a.left \in Amount /\ a.topUp \in Amount /\ (a.kind \in RecurringKinds => a.left <= a.topUp)
  BY <1>2, <1>3 DEF Action
<1>5. left \in Amount /\ (a.kind \in RecurringKinds => left <= a.topUp)
  BY <1>1, <1>4, BoundsAssumption DEF Payable, Amount
<1>6. stored' = [stored EXCEPT ![i] = b]
  BY <1>1
<1>7. left \in Wide
  BY <1>5, Amounts
<1> HIDE DEF a, left
<1>8. b = [kind |-> a.kind, arg |-> a.arg, to |-> a.to, left |-> left, topUp |-> a.topUp,
           scope |-> a.scope, bound |-> a.bound]
  BY <1>2 DEF Action, Fields
<1> HIDE DEF b
<1>9. b \in Action
  BY <1>2, <1>5, <1>7, <1>8 DEF Action, Fields
<1>10. Grant(b) = Grant(a)
  BY <1>2, <1>8, <1>9, FieldsOf
<1>11. OneChanges(b, i)
  BY <1>6, <1>9, <1>10 DEF OneChanges, a
<1> QED BY <1>11

(* Opening a sub-account fills in one action. *)
LEMMA OpenChanges ==
  ASSUME TypeOK, NEW account \in Scope, OpenSubAccount(account)
  PROVE  \E i \in DOMAIN stored : \E b : OneChanges(b, i)
<1>1. PICK i \in DOMAIN stored :
        /\ stored[i].kind = "SubAccount"
        /\ stored' = [stored EXCEPT ![i].arg = account, ![i].bound = TRUE]
  BY DEF OpenSubAccount
<1> DEFINE a == stored[i]
           b == [a EXCEPT !.arg = account, !.bound = TRUE]
<1>2. a \in Action
  BY Listed DEF TypeOK
<1>3. stored' = [stored EXCEPT ![i] = b]
  BY <1>1
<1>4. a.kind = "SubAccount"
  BY <1>1
<1> HIDE DEF a
<1>5. b = [kind |-> a.kind, arg |-> account, to |-> a.to, left |-> a.left, topUp |-> a.topUp,
           scope |-> a.scope, bound |-> TRUE]
  <2>1. a = [kind |-> a.kind, arg |-> a.arg, to |-> a.to, left |-> a.left, topUp |-> a.topUp,
             scope |-> a.scope, bound |-> a.bound]
    BY <1>2, FieldsOf
  <2>2. b = [a EXCEPT !.arg = account, !.bound = TRUE]
    OBVIOUS
  <2> HIDE DEF b
  <2> QED BY <2>1, <2>2
<1> HIDE DEF b
<1>6. b \in Action
  BY <1>2, <1>4, <1>5 DEF Action, Fields, SolKinds, TokenKinds
<1>7. Grant(b) = Grant(a)
  BY <1>2, <1>4, <1>5, <1>6, FieldsOf
<1>8. OneChanges(b, i)
  BY <1>3, <1>6, <1>7 DEF OneChanges, a
<1> QED BY <1>8

(* Every change of the list by an update puts a list of actions there. *)
LEMMA UpdatesListed ==
  ASSUME TypeOK, NEW c \in Client
  PROVE  /\ WriteBack(c) => \E list \in Seq(Action) : Update(list)
         /\ \A p : RemoveActionsByType(c, p) => \E list \in Seq(Action) : Update(list)
         /\ \A positions : RemoveActionsByIndex(c, positions) => \E list \in Seq(Action) : Update(list)
         /\ \A l \in Lists : ReplaceAllActions(l) => \E list \in Seq(Action) : Update(list)
         /\ \A a \in Added : AddActions(a) => \E list \in Seq(Action) : Update(list)
<1>0. stored \in Seq(Action) /\ view[c].actions \in Seq(Action)
  BY DEF TypeOK
<1>1. ASSUME WriteBack(c) PROVE \E list \in Seq(Action) : Update(list)
  <2> DEFINE list == ToClientActions(FromRole(view[c].actions))
  <2>1. list \in Seq(Action)
    BY <1>0, WritesRenewed
  <2>2. Update(list)
    BY <1>1 DEF WriteBack
  <2> HIDE DEF list
  <2> QED BY <2>1, <2>2
<1>2. ASSUME NEW p, RemoveActionsByType(c, p) PROVE \E list \in Seq(Action) : Update(list)
  <2> DEFINE I == {i \in DOMAIN stored : stored[i].kind # PermissionEnum[ToActionType(p)]}
             list == Those(stored, I)
  <2>1. Update(list)
    BY <1>2 DEF RemoveActionsByType
  <2>2. I \in SUBSET DOMAIN stored
    OBVIOUS
  <2> HIDE DEF I
  <2>3. list \in Seq(Action)
    BY <1>0, <2>2, ThoseListed
  <2> HIDE DEF list
  <2> QED BY <2>1, <2>3
<1>3. ASSUME NEW positions, RemoveActionsByIndex(c, positions)
      PROVE  \E list \in Seq(Action) : Update(list)
  <2> DEFINE I == {i \in DOMAIN stored : i - 1 \notin {j - 1 : j \in positions}}
             list == Those(stored, I)
  <2>1. Update(list)
    BY <1>3 DEF RemoveActionsByIndex, WithoutIndices
  <2>2. I \in SUBSET DOMAIN stored
    OBVIOUS
  <2> HIDE DEF I
  <2>3. list \in Seq(Action)
    BY <1>0, <2>2, ThoseListed
  <2> HIDE DEF list
  <2> QED BY <2>1, <2>3
<1>4. \A l \in Lists : ReplaceAllActions(l) => \E list \in Seq(Action) : Update(list)
  BY ListsAssumption DEF ReplaceAllActions
<1>5. ASSUME NEW a \in Added, AddActions(a) PROVE \E list \in Seq(Action) : Update(list)
  <2>1. Append(stored, a) \in Seq(Action)
    BY <1>0, AddedListed
  <2> QED BY <1>5, <2>1 DEF AddActions
<1> QED BY <1>1, <1>2, <1>3, <1>4, <1>5
-----------------------------------------------------------------------------
(* What a view still tells: the list, while nothing has changed, and the   *)
(* grants, while only transfers have.                                      *)
ViewsLag ==
  \A c \in Client :
    /\ view[c].changes = changes => view[c].actions = stored
    /\ view[c].updates = updates => Grants(view[c].actions) = Grants(stored)

PermissionsInv == TypeOK /\ ViewsLag

LEMMA PermissionsInit == Init => PermissionsInv
<1>1. SUFFICES ASSUME Init PROVE PermissionsInv
  OBVIOUS
<1>2. stored \in Seq(Action) /\ stored # <<>> /\ Len(stored) <= MaxActions
  BY <1>1, AddedListed, ListsAssumption DEF Init
<1>3. Len(stored) \in 1..MaxActions
  BY <1>2, BoundsAssumption
<1>4. \A c \in Client : view[c] = Current
  BY <1>1 DEF Init
<1>5. Current \in [actions: Seq(Action), changes: 0..changes, updates: 0..updates]
  BY <1>1, <1>2 DEF Init, Current
<1>6. TypeOK
  BY <1>1, <1>2, <1>3, <1>5, BoundsAssumption DEF Init, TypeOK
<1>7. ViewsLag
  BY <1>4 DEF ViewsLag, Current
<1> QED BY <1>6, <1>7 DEF PermissionsInv

LEMMA UpdateViews ==
  ASSUME PermissionsInv, NEW list \in Seq(Action), Update(list)
  PROVE  PermissionsInv'
<1>1. TypeOK'
  BY UpdateListed DEF PermissionsInv
<1>2. ASSUME NEW c \in Client PROVE view'[c].changes # changes' /\ view'[c].updates # updates'
  <2>1. view[c].changes \in 0..changes /\ view[c].updates \in 0..updates
        /\ changes \in Nat /\ updates \in Nat
    BY BoundsAssumption DEF PermissionsInv, TypeOK
  <2>2. view' = view /\ changes' = changes + 1 /\ updates' = updates + 1
    BY DEF Update
  <2> QED BY <2>1, <2>2
<1> QED BY <1>1, <1>2 DEF PermissionsInv, ViewsLag

LEMMA ChangeViews ==
  ASSUME PermissionsInv, NEW i \in DOMAIN stored, NEW b, OneChanges(b, i),
         changes < MaxChanges, changes' = changes + 1, updates' = updates, view' = view
  PROVE  PermissionsInv'
<1>0. TypeOK
  BY DEF PermissionsInv
<1>1. TypeOK' /\ Grants(stored') = Grants(stored)
  BY <1>0, ChangeListed
<1>2. ASSUME NEW c \in Client
      PROVE  /\ view'[c].changes # changes'
             /\ view'[c].updates = updates' => Grants(view'[c].actions) = Grants(stored')
  <2>1. view[c].changes \in 0..changes /\ changes \in Nat
    BY <1>0, BoundsAssumption DEF TypeOK
  <2>2. view[c].updates = updates => Grants(view[c].actions) = Grants(stored)
    BY DEF PermissionsInv, ViewsLag
  <2> QED BY <1>1, <2>1, <2>2
<1> QED BY <1>1, <1>2 DEF PermissionsInv, ViewsLag

LEMMA RefetchViews ==
  ASSUME PermissionsInv, NEW c \in Client, Refetch(c)
  PROVE  PermissionsInv'
<1>1. TypeOK /\ view' = [view EXCEPT ![c] = Current] /\ stored' = stored
      /\ changes' = changes /\ updates' = updates
  BY DEF PermissionsInv, Refetch
<1>2. Current \in [actions: Seq(Action), changes: 0..changes, updates: 0..updates]
  BY <1>1, BoundsAssumption DEF Current, TypeOK
<1>3. TypeOK'
  BY <1>1, <1>2 DEF TypeOK
<1>4. \A d \in Client : view'[d] = IF d = c THEN Current ELSE view[d]
  BY <1>1 DEF TypeOK
<1>5. Current.actions = stored
  BY DEF Current
<1>6. ASSUME NEW d \in Client
      PROVE  /\ view'[d].changes = changes' => view'[d].actions = stored'
             /\ view'[d].updates = updates' => Grants(view'[d].actions) = Grants(stored')
  <2>1. CASE d = c
    BY <1>1, <1>4, <1>5, <2>1
  <2>2. CASE d # c
    BY <1>1, <1>4, <2>2 DEF PermissionsInv, ViewsLag
  <2> QED BY <2>1, <2>2
<1> QED BY <1>3, <1>6 DEF PermissionsInv, ViewsLag

LEMMA PermissionsNext == PermissionsInv /\ [Next]_vars => PermissionsInv'
<1>1. SUFFICES ASSUME PermissionsInv, [Next]_vars PROVE PermissionsInv'
  OBVIOUS
<1>2. TypeOK
  BY <1>1 DEF PermissionsInv
<1>3. ASSUME NEW c \in Client, Refetch(c) PROVE PermissionsInv'
  BY <1>1, <1>3, RefetchViews
<1>4. ASSUME NEW list \in Seq(Action), Update(list) PROVE PermissionsInv'
  BY <1>1, <1>4, UpdateViews
<1>5. ASSUME NEW c \in Client, WriteBack(c) PROVE PermissionsInv'
  BY <1>2, <1>4, <1>5, UpdatesListed
<1>6. ASSUME NEW c \in Client, NEW p, RemoveActionsByType(c, p) PROVE PermissionsInv'
  BY <1>2, <1>4, <1>6, UpdatesListed
<1>7. ASSUME NEW c \in Client, NEW positions, RemoveActionsByIndex(c, positions)
      PROVE  PermissionsInv'
  BY <1>2, <1>4, <1>7, UpdatesListed
<1>8. ASSUME NEW l \in Lists, ReplaceAllActions(l) PROVE PermissionsInv'
  BY <1>4, <1>8, ListsAssumption DEF ReplaceAllActions
<1>9. ASSUME NEW a \in Added, AddActions(a) PROVE PermissionsInv'
  <2>1. Append(stored, a) \in Seq(Action)
    BY <1>2, AddedListed DEF TypeOK
  <2> QED BY <1>4, <1>9, <2>1 DEF AddActions
<1>10. ASSUME NEW asset \in Asset, NEW to \in Dest, NEW n \in Amount \ {0}, Spend(asset, to, n)
       PROVE  PermissionsInv'
  <2>1. changes < MaxChanges /\ changes' = changes + 1 /\ updates' = updates /\ view' = view
    BY <1>10 DEF Spend
  <2>2. \E i \in DOMAIN stored : \E b : OneChanges(b, i)
    BY <1>2, <1>10, SpendChanges
  <2> QED BY <1>1, <2>1, <2>2, ChangeViews
<1>11. ASSUME NEW account \in Scope, OpenSubAccount(account) PROVE PermissionsInv'
  <2>1. changes < MaxChanges /\ changes' = changes + 1 /\ updates' = updates /\ view' = view
    BY <1>11 DEF OpenSubAccount
  <2>2. \E i \in DOMAIN stored : \E b : OneChanges(b, i)
    BY <1>2, <1>11, OpenChanges
  <2> QED BY <1>1, <2>1, <2>2, ChangeViews
<1>12. CASE UNCHANGED vars
  BY <1>1, <1>12 DEF vars, PermissionsInv, TypeOK, ViewsLag
<1> QED BY <1>1, <1>3, <1>5, <1>6, <1>7, <1>8, <1>9, <1>10, <1>11, <1>12 DEF Next

(* The invariant holds in every state.                                     *)
THEOREM PermissionsInductive == Spec => []PermissionsInv
<1> QED BY PermissionsInit, PermissionsNext, PTL DEF Spec

(* The list, the counts and what clients have read have their types: the   *)
(* list is never empty nor over its bound, and every action in it or read  *)
(* from it has only the fields of its kind.                                *)
THEOREM PermissionsTypeCorrect == Spec => []TypeOK
<1>1. PermissionsInv => TypeOK
  BY DEF PermissionsInv
<1> QED BY <1>1, PermissionsInductive, PTL
-----------------------------------------------------------------------------
(* Removing by index.                                                      *)
Granting(list, I, x) == {i \in I : Grants(list)[i] = x}

LEMMA GrantsOfThose ==
  ASSUME NEW list, NEW I, IsFiniteSet(I), I \in SUBSET Nat, I \in SUBSET DOMAIN list
  PROVE  \A x : Count(Grants(Those(list, I)), x) = Cardinality(Granting(list, I, x))
<1> DEFINE o == InOrder(I, Ascending(I))
           n == Cardinality(I)
           kept == Those(list, I)
           g == Grants(list)
           t == Grants(kept)
<1>1. Orders(Ascending(I), I)
  BY AscendingOrders
<1>2. Enumerates(o, I, Ascending(I))
  BY <1>1, InOrderEnumerates
<1>3. \A j \in 1..n : o[j] \in DOMAIN list
  BY <1>2 DEF Enumerates
<1>4. kept = [j \in 1..n |-> list[o[j]]]
  <2>1. DOMAIN o = 1..n
    BY DEF InOrder
  <2>2. kept = [j \in DOMAIN o |-> list[o[j]]]
    BY DEF Those
  <2> HIDE DEF o, n, kept
  <2> QED BY <2>1, <2>2
<1> HIDE DEF o, kept
<1>5. t = [j \in 1..n |-> Grant(list[o[j]])]
  BY <1>4 DEF Grants
<1>6. \A i \in DOMAIN list : g[i] = Grant(list[i])
  BY DEF Grants
<1> HIDE DEF g, t
<1>7. t = [j \in 1..n |-> g[o[j]]]
  BY <1>3, <1>5, <1>6
<1>8. \A x : Count(t, x) = Cardinality({i \in I : g[i] = x})
  BY <1>1, <1>2, <1>7, CountsOf
<1> QED BY <1>8 DEF g, t, kept, Granting

LEMMA RemovedByIndex ==
  ASSUME PermissionsInv, NEW c \in Client, NEW positions \in SUBSET DOMAIN view[c].actions,
         RemoveActionsByIndex(c, positions), view[c].updates = updates
  PROVE  \A x \in Range(Grants(stored)) :
           Count(Grants(stored), x) = Count(Grants(stored'), x)
             + Cardinality({i \in positions : Grant(view[c].actions[i]) = x})
<1> DEFINE N == DOMAIN stored
           I == {i \in N : i - 1 \notin {j - 1 : j \in positions}}
           g == Grants(stored)
<1>0. IsFiniteSet(N) /\ N \subseteq Nat /\ stored \in Seq(Action) /\ view[c].actions \in Seq(Action)
  BY Listed DEF PermissionsInv, TypeOK
<1>1. positions \subseteq N /\ stored' = Those(stored, I)
  BY DEF RemoveActionsByIndex, WithoutIndices, Update
<1>2. I = N \ positions
  BY <1>0, <1>1
<1>3. g = Grants(view[c].actions)
  BY DEF PermissionsInv, ViewsLag
<1>4. \A i \in positions : g[i] = Grant(view[c].actions[i])
  BY <1>3 DEF Grants
<1>5. DOMAIN g = N
  BY DEF Grants
<1> HIDE DEF N, g, I
<1>6. IsFiniteSet(I) /\ I \in SUBSET Nat /\ I \in SUBSET DOMAIN stored
  BY <1>0, <1>2, FS_Subset DEF N
<1>7. \A x : Count(Grants(stored'), x) = Cardinality({i \in I : g[i] = x})
  <2> DEFINE kept == Those(stored, I)
  <2>1. \A x : Count(Grants(kept), x) = Cardinality(Granting(stored, I, x))
    BY <1>6, GrantsOfThose
  <2>2. stored' = kept
    BY <1>1
  <2> HIDE DEF kept
  <2> QED BY <2>1, <2>2 DEF g, Granting
<1>8. ASSUME NEW x
      PROVE  Count(g, x) = Count(Grants(stored'), x)
               + Cardinality({i \in positions : Grant(view[c].actions[i]) = x})
  <2> DEFINE A == {i \in N : g[i] = x}
             B == {i \in I : g[i] = x}
             C == {i \in positions : g[i] = x}
  <2>1. A = B \cup C /\ B \cap C = {} /\ B \in SUBSET N /\ C \in SUBSET N
    BY <1>1, <1>2
  <2>2. Count(g, x) = Cardinality(A)
    BY <1>5 DEF Count
  <2>3. {i \in positions : Grant(view[c].actions[i]) = x} = C
    BY <1>4
  <2>4. Count(Grants(stored'), x) = Cardinality(B)
    BY <1>7
  <2> HIDE DEF A, B, C
  <2>5. IsFiniteSet(B) /\ IsFiniteSet(C)
    BY <1>0, <2>1, FS_Subset
  <2>6. Cardinality(B \cup C) = Cardinality(B) + Cardinality(C)
    <3>1. Cardinality(B \cup C) = Cardinality(B) + Cardinality(C) - Cardinality(B \cap C)
      BY <2>5, FS_Union
    <3>2. Cardinality({}) = 0
      BY FS_EmptySet
    <3>3. Cardinality(B) \in Nat /\ Cardinality(C) \in Nat
      BY <2>5, FS_CardinalityType
    <3>4. Cardinality(B \cap C) = 0
      BY <2>1, <3>2
    <3> QED BY <3>1, <3>3, <3>4
  <2> QED BY <2>1, <2>2, <2>3, <2>4, <2>6
<1> QED BY <1>8 DEF g

(* Removing actions by index takes away exactly the grants the client saw  *)
(* at those indices, whatever the holder has spent or opened since.        *)
THEOREM RemovesSeen == Spec => RemovesTheSeen
<1>1. PermissionsInv =>
        \A c \in Client : \A positions \in SUBSET DOMAIN view[c].actions :
          (RemoveActionsByIndex(c, positions) /\ view[c].updates = updates) =>
            \A x \in Range(Grants(stored)) :
              Count(Grants(stored), x) = Count(Grants(stored'), x)
                + Cardinality({i \in positions : Grant(view[c].actions[i]) = x})
  BY RemovedByIndex
<1> QED BY <1>1, PermissionsInductive, PTL DEF RemovesTheSeen

-----------------------------------------------------------------------------
(* Writing back.                                                           *)
Stays(i) ==
  /\ IsKnown(stored[i])
  /\ stored[i].kind \in RepeatableKinds \/ First(stored, i)

(* A kind Rust knows is read once or may be repeated. *)
LEMMA OnceOrRepeated ==
  \A k \in Known : k \in RepeatableKinds <=> k \notin SingleKinds
BY KnownKinds DEF RepeatableKinds, TokenKinds, SingleKinds

LEMMA WrittenBack ==
  ASSUME PermissionsInv, NEW c \in Client, WriteBack(c), IsLatest(c), NEW x
  PROVE  Count(stored', x) = Cardinality({i \in DOMAIN stored : Stays(i) /\ Renewed(stored[i]) = x})
<1> DEFINE I == Read(stored)
           g == [i \in DOMAIN stored |-> Renewed(stored[i])]
           o == InOrder(I, Reading(stored))
<1>0. stored \in Seq(Action) /\ view[c].actions = stored
  BY DEF PermissionsInv, TypeOK, ViewsLag, IsLatest
<1>1. \A i \in DOMAIN stored : i \in I <=> Stays(i)
  BY OnceOrRepeated DEF Read, IsRead, IsKnown, Known, Stays
<1>2. IsFiniteSet(I) /\ I \in SUBSET DOMAIN stored /\ Orders(Reading(stored), I)
  BY <1>0, ReadingOrders
<1>3. Enumerates(o, I, Reading(stored))
  BY <1>2, InOrderEnumerates
<1>4. stored' = [j \in 1..Cardinality(I) |-> Renewed(stored[o[j]])]
  BY <1>0, WritesRenewed DEF WriteBack, Update
<1>5. \A i \in DOMAIN stored : g[i] = Renewed(stored[i])
  OBVIOUS
<1> HIDE DEF I, g, o
<1>6. stored' = [j \in 1..Cardinality(I) |-> g[o[j]]]
  BY <1>2, <1>3, <1>4, <1>5 DEF Enumerates
<1>7. Count(stored', x) = Cardinality({i \in I : g[i] = x})
  BY <1>2, <1>3, <1>6, CountsOf
<1>8. {i \in I : g[i] = x} = {i \in DOMAIN stored : Stays(i) /\ Renewed(stored[i]) = x}
  BY <1>1, <1>2, <1>5
<1> QED BY <1>7, <1>8

(* A Rust client that writes back the permissions it has read, when        *)
(* nothing has changed in between, leaves every action it has read as      *)
(* often as it was, but for what Renewed says of it, and adds none.        *)
THEOREM WriteBackKeeps == Spec => WriteBackKeepsGrants
<1>1. PermissionsInv =>
        \A c \in Client :
          (WriteBack(c) /\ IsLatest(c)) =>
            LET stays(i) == /\ IsKnown(stored[i])
                            /\ stored[i].kind \in RepeatableKinds \/ First(stored, i)
            IN  \A x \in {Renewed(a) : a \in Range(stored)} \cup Range(stored') :
                  Count(stored', x) =
                    Cardinality({i \in DOMAIN stored : stays(i) /\ Renewed(stored[i]) = x})
  BY WrittenBack DEF Stays
<1> QED BY <1>1, PermissionsInductive, PTL DEF WriteBackKeepsGrants
-----------------------------------------------------------------------------
(* What clients are told they may spend.                                   *)
LEMMA LargestAmount ==
  ASSUME NEW S \in SUBSET Amount, S # {}
  PROVE  Max(S) \in S /\ \A x \in S : x <= Max(S)
<1> DEFINE D == {MaxLimit - x : x \in S}
<1>1. D \in SUBSET Nat /\ D # {}
  <2>1. \A x \in S : MaxLimit - x \in Nat
    BY BoundsAssumption DEF Amount
  <2> QED BY <2>1
<1> HIDE DEF D
<1>2. PICK m \in D : \A k \in D : m <= k
  BY <1>1, SmallestOf
<1>3. PICK y \in S : m = MaxLimit - y
  BY DEF D
<1>4. \A x \in S : MaxLimit - x \in D /\ x \in Int /\ y \in Int /\ MaxLimit \in Int
  BY BoundsAssumption DEF D, Amount
<1>5. \A x \in S : y >= x
  BY <1>2, <1>3, <1>4
<1>6. Max(S) = CHOOSE x \in S : \A z \in S : x >= z
  BY DEF Max
<1>7. Max(S) \in S /\ \A z \in S : Max(S) >= z
  BY <1>5, <1>6
<1> QED BY <1>4, <1>7 DEF Amount

LEMMA KindsApart ==
  /\ "All" \notin SolKinds \cup TokenKinds /\ "AllButManageAuthority" \notin SolKinds \cup TokenKinds
  /\ SolKinds \cap TokenKinds = {}
BY DEF SolKinds, TokenKinds

(* One action: its control allows a transfer just when what is left of it  *)
(* covers it, to some destination.                                         *)
LEMMA ControlAgrees ==
  ASSUME NEW a \in Action, NEW asset \in Asset, NEW n \in Amount
  PROVE  /\ WithinLimits(Control(a, asset), n) <=>
              \E to \in Dest : \/ a.kind \in {"All", "AllButManageAuthority"}
                               \/ Charges(a, asset, to) /\ n <= a.left
         /\ LimitOf(Control(a, asset)) \in Amount \cup {NoLimit}
         /\ n # 0 => (WithinLimits(Control(a, asset), n) <=>
                        \/ LimitOf(Control(a, asset)) = NoLimit
                        \/ LimitOf(Control(a, asset)) # NoLimit /\ n <= LimitOf(Control(a, asset)))
<1>0. /\ a.kind # "ProgramScope" => a.left \in Amount
      /\ a.kind \in Kind /\ a.to \in Dest \cup {AnyPlace}
      /\ a.kind \in SolKinds => a.arg = NoArg
      /\ a.kind \in TokenKinds => a.arg \in Mint
  BY DEF Action, Fields
<1>1. /\ 0 \in Amount /\ NoLimit \notin Amount /\ NoLimit # 0
      /\ \A m \in Amount : m \in Nat
      /\ Dest # {} /\ Sol \notin Mint /\ Sol # NoArg /\ NoArg \notin Mint
  BY BoundsAssumption, NoLimitAssumption, PlaceAssumption DEF Amount
<1> DEFINE free == a.kind \in {"All", "AllButManageAuthority"}
<1>2. CASE free
  <2>1. Control(a, asset) = [hasControl |-> TRUE, amount |-> NoLimit]
    BY <1>2 DEF Control, HasAllButManageAuthorityAccess
  <2>2. LimitOf(Control(a, asset)) = NoLimit /\ WithinLimits(Control(a, asset), n)
    BY <2>1 DEF LimitOf, WithinLimits
  <2> QED BY <1>1, <1>2, <2>2
<1>3. CASE ~free /\ Limits(a, asset)
  <2>0. a.left \in Amount
    BY <1>0, <1>3 DEF Limits, SolKinds, TokenKinds
  <2>1. Control(a, asset) = [hasControl |-> TRUE, amount |-> a.left]
    BY <1>3 DEF Control, HasAllButManageAuthorityAccess, LimitControl
  <2>2. LimitOf(Control(a, asset)) = a.left /\ (WithinLimits(Control(a, asset), n) <=> n <= a.left)
    BY <1>0, <1>1, <2>0, <2>1 DEF LimitOf, WithinLimits
  <2>3. \E to \in Dest : a.to \in {AnyPlace, to}
    BY <1>0, <1>1
  <2>4. a.kind \in (IF asset = Sol THEN SolKinds ELSE TokenKinds) /\ a.arg \in {NoArg, asset}
    BY <1>0, <1>1, <1>3 DEF Limits
  <2>5. \E to \in Dest : Charges(a, asset, to)
    BY <2>3, <2>4 DEF Charges
  <2> QED BY <1>0, <1>1, <1>3, <2>0, <2>2, <2>5
<1>4. CASE ~free /\ ~Limits(a, asset)
  <2>1. Control(a, asset) = [hasControl |-> FALSE, amount |-> NoLimit]
    BY <1>4 DEF Control, HasAllButManageAuthorityAccess
  <2>2. LimitOf(Control(a, asset)) = 0 /\ ~WithinLimits(Control(a, asset), n)
    BY <2>1 DEF LimitOf, WithinLimits
  <2>3. \A to \in Dest : ~Charges(a, asset, to)
    BY <1>0, <1>1, <1>4 DEF Charges, Limits, Asset
  <2>4. n # 0 => ~(n <= 0)
    BY <1>1
  <2> QED BY <1>1, <1>4, <2>2, <2>3, <2>4
<1> QED BY <1>2, <1>3, <1>4

LEMMA SpendLimitIsLargest ==
  ASSUME NEW list \in Seq(Action), list # <<>>, NEW asset \in Asset, NEW n \in Amount, n # 0
  PROVE  CanSpend(list, asset, n) <=>
           SpendLimit(list, asset) = NoLimit \/ n <= SpendLimit(list, asset)
<1> DEFINE S == SpendLimits(list, asset)
<1>0. \A a \in Range(list) : a \in Action
  BY Listed DEF Range
<1>1. /\ 0 \in Amount /\ NoLimit \notin Amount /\ n \in Nat /\ \A m \in Amount : m \in Nat
  BY BoundsAssumption, NoLimitAssumption DEF Amount
<1>2. \A a \in Range(list) : LimitOf(Control(a, asset)) \in Amount \cup {NoLimit}
  BY <1>0, ControlAgrees
<1>3. \A m : m \in S <=> \E a \in Range(list) : m = LimitOf(Control(a, asset))
  BY DEF SpendLimits
<1>4. CanSpend(list, asset, n) <=> \E m \in S : m = NoLimit \/ (m # NoLimit /\ n <= m)
  <2>1. \A a \in Range(list) : WithinLimits(Control(a, asset), n) <=>
                                 \/ LimitOf(Control(a, asset)) = NoLimit
                                 \/ LimitOf(Control(a, asset)) # NoLimit
                                    /\ n <= LimitOf(Control(a, asset))
    BY <1>0, ControlAgrees
  <2> QED BY <1>3, <2>1 DEF CanSpend
<1>5. SpendLimit(list, asset) = IF NoLimit \in S THEN NoLimit ELSE Max(S \cup {0})
  BY DEF SpendLimit
<1>6. S \subseteq Amount \cup {NoLimit}
  BY <1>2, <1>3
<1> HIDE DEF S
<1>7. CASE NoLimit \in S
  BY <1>4, <1>5, <1>7
<1>8. CASE NoLimit \notin S
  <2> DEFINE T == S \cup {0}
  <2>1. T \in SUBSET Amount /\ T # {}
    BY <1>1, <1>6, <1>8
  <2>2. S \subseteq T /\ \A m \in T : m \in S \/ m = 0
    OBVIOUS
  <2> HIDE DEF T
  <2>3. Max(T) \in T /\ \A x \in T : x <= Max(T)
    BY <2>1, LargestAmount
  <2> DEFINE max == Max(T)
  <2>4. max \in Nat /\ SpendLimit(list, asset) = max /\ max # NoLimit
    BY <1>1, <1>5, <1>8, <2>1, <2>3 DEF T
  <2>5. max \in T /\ \A x \in T : x <= max
    BY <2>3
  <2> HIDE DEF max
  <2>6. \A m \in S : m \in Nat /\ m # NoLimit /\ m <= max
    BY <1>1, <2>1, <2>2, <2>5
  <2>7. n <= max => max \in S
    BY <1>1, <2>2, <2>4, <2>5
  <2>8. (\E m \in S : n <= m) <=> n <= max
    BY <1>1, <2>4, <2>6, <2>7
  <2> QED BY <1>4, <2>4, <2>6, <2>8
<1> QED BY <1>7, <1>8

(* An uncapped limit is the controller of an uncapped action.              *)
LEMMA UncappedLimit ==
  ASSUME NEW list \in Seq(Action), NEW asset \in Asset, SpendLimit(list, asset) = NoLimit
  PROVE  NoLimit \in SpendLimits(list, asset)
<1> DEFINE S == SpendLimits(list, asset)
           T == S \cup {0}
<1>1. SUFFICES ASSUME NoLimit \notin S PROVE FALSE
  OBVIOUS
<1>2. 0 \in Amount /\ NoLimit \notin Amount
  BY BoundsAssumption, NoLimitAssumption DEF Amount
<1>3. \A a \in Range(list) : LimitOf(Control(a, asset)) \in Amount \cup {NoLimit}
  <2>1. \A a \in Range(list) : a \in Action
    BY Listed DEF Range
  <2> QED BY <1>2, <2>1, ControlAgrees
<1>4. T \in SUBSET Amount /\ T # {}
  BY <1>1, <1>2, <1>3 DEF SpendLimits
<1>5. SpendLimit(list, asset) = Max(T)
  BY <1>1 DEF SpendLimit
<1> HIDE DEF T
<1>6. Max(T) \in T
  BY <1>4, LargestAmount
<1> QED BY <1>2, <1>4, <1>5, <1>6

(* What solSpend and tokenSpend hand out is the controller of an action of *)
(* the list, of an uncapped one if there is any.                           *)
LEMMA SpendOfFound ==
  ASSUME NEW list \in Seq(Action), list # <<>>, NEW asset \in Asset
  PROVE  \E i \in DOMAIN list :
           /\ SpendOf(list, asset) = Control(list[i], asset)
           /\ NoLimit \in SpendLimits(list, asset) => LimitOf(Control(list[i], asset)) = NoLimit
<1> DEFINE uncapped == NoLimit \in SpendLimits(list, asset)
           wanted(a) == (LimitOf(Control(a, asset)) = NoLimit) = uncapped
           I == {i \in 1..Len(list) : wanted(list[i])}
<1>1. DOMAIN list = 1..Len(list) /\ Len(list) \in Nat /\ 1 \in DOMAIN list
  BY Listed
<1>2. uncapped <=> \E i \in DOMAIN list : LimitOf(Control(list[i], asset)) = NoLimit
  BY DEF SpendLimits, Range
<1>3. I \in SUBSET Nat /\ I # {}
  BY <1>1, <1>2
<1>4. SpendOf(list, asset) = Control(list[Min(I)], asset)
  BY <1>3 DEF SpendOf, SelectInSeq
<1>5. Min(I) \in I
  <2> HIDE DEF I
  <2>1. PICK m \in I : \A k \in I : m <= k
    BY <1>3, SmallestOf
  <2> QED BY <2>1 DEF Min
<1> QED BY <1>1, <1>4, <1>5

LEMMA SpendOfPromises ==
  ASSUME NEW list \in Seq(Action), list # <<>>, NEW asset \in Asset, NEW n \in Amount
  PROVE  /\ WithinLimits(SpendOf(list, asset), n) => CanSpend(list, asset, n)
         /\ SpendLimit(list, asset) = NoLimit => LimitOf(SpendOf(list, asset)) = NoLimit
<1>1. PICK i \in DOMAIN list :
        /\ SpendOf(list, asset) = Control(list[i], asset)
        /\ NoLimit \in SpendLimits(list, asset) => LimitOf(Control(list[i], asset)) = NoLimit
  BY SpendOfFound
<1>2. WithinLimits(Control(list[i], asset), n) => CanSpend(list, asset, n)
  BY DEF CanSpend, Range
<1> QED BY <1>1, <1>2, UncappedLimit

(* Rust reads the first action of a single kind, and finds it.             *)
LEMMA ReadsPermission ==
  ASSUME NEW list \in Seq(Action), NEW i \in Read(list)
  PROVE  PermissionOf(list[i]) \in Range(FromRole(list))
<1> DEFINE o == InOrder(Read(list), Reading(list))
           n == Cardinality(Read(list))
<1>1. FromRole(list) = [j \in 1..n |-> PermissionOf(list[o[j]])]
  BY FromRoleReads
<1>2. \E j \in 1..n : o[j] = i
  BY FromRoleReads DEF Enumerates
<1> HIDE DEF o, n
<1> QED BY <1>1, <1>2 DEF Range

LEMMA FirstOfKind ==
  ASSUME NEW list \in Seq(Action), NEW i \in DOMAIN list
  PROVE  \E h \in DOMAIN list : list[h].kind = list[i].kind /\ First(list, h)
<1> DEFINE S == {h \in DOMAIN list : list[h].kind = list[i].kind}
<1>1. S \in SUBSET Nat /\ S # {}
  BY Listed
<1> HIDE DEF S
<1>2. PICK m \in S : \A k \in S : m <= k
  BY <1>1, SmallestOf
<1>3. m \in DOMAIN list /\ list[m].kind = list[i].kind
  BY DEF S
<1>4. DOMAIN list = 1..Len(list) /\ Len(list) \in Nat
  BY Listed
<1>5. ASSUME NEW j \in 1..(m - 1) PROVE list[j].kind # list[m].kind
  <2>1. j \in DOMAIN list /\ j < m /\ j \in Nat /\ m \in Nat
    BY <1>3, <1>4
  <2>2. j \notin S
    BY <1>2, <2>1
  <2> QED BY <1>3, <2>1, <2>2 DEF S
<1> QED BY <1>3, <1>5 DEF First

(* What Rust shows was read from an action of the list.                    *)
LEMMA ReadFrom ==
  ASSUME NEW list \in Seq(Action), NEW p \in Range(FromRole(list))
  PROVE  \E i \in DOMAIN list : list[i] \in Action /\ IsKnown(list[i]) /\ p = PermissionOf(list[i])
<1> DEFINE o == InOrder(Read(list), Reading(list))
           n == Cardinality(Read(list))
<1>1. FromRole(list) = [j \in 1..n |-> PermissionOf(list[o[j]])]
  BY FromRoleReads
<1>2. \A j \in 1..n : o[j] \in DOMAIN list /\ list[o[j]] \in Action /\ IsKnown(list[o[j]])
  BY FromRoleReads, ReadingOrders DEF Enumerates, IsKnown, Known
<1> HIDE DEF o, n
<1>3. PICK j \in 1..n : p = PermissionOf(list[o[j]])
  BY <1>1 DEF Range
<1> QED BY <1>2, <1>3

(* A limit in SOL without a destination, as a permission shows it.         *)
LEMMA SolPermission ==
  ASSUME NEW a \in Action, IsKnown(a)
  PROVE  LET p == PermissionOf(a)
         IN  /\ p.variant = "Sol" <=> a.kind \in {"SolLimit", "SolRecurringLimit"}
             /\ p.variant = "All" <=> a.kind = "All"
             /\ a.kind = "SolLimit" => ~p.recurring /\ p.amount = a.left
             /\ a.kind = "SolRecurringLimit" =>
                  p.recurring /\ p.amount = a.topUp /\ p.current = a.left
<1>1. a.kind \in Known /\ (a.kind # "ProgramScope" => a.scope = "Basic")
  BY DEF IsKnown, Known, Action
<1>2. a.kind = "SolLimit" => a.kind \notin RecurringKinds /\ a.scope = "Basic"
  BY <1>1 DEF RecurringKinds
<1>3. a.kind = "SolRecurringLimit" => a.kind \in RecurringKinds
  BY DEF RecurringKinds
<1> QED BY <1>1, <1>2, <1>3, KnownKinds DEF PermissionOf, VariantOf

(* What a limit in SOL without a destination covers, at most.              *)
LEMMA SolLimits ==
  ASSUME NEW a \in Action, a.kind \in {"SolLimit", "SolRecurringLimit"}
  PROVE  /\ a.left \in Nat /\ a.topUp \in Nat /\ a.arg = NoArg
         /\ a.kind = "SolLimit" => a.topUp = 0 /\ a.kind \notin RecurringKinds
         /\ a.kind = "SolRecurringLimit" => a.left <= a.topUp /\ a.kind \in RecurringKinds
<1>1. a.left \in Amount /\ a.topUp \in Amount
  BY DEF Action
<1> QED BY <1>1, Amounts DEF Action, SolKinds, RecurringKinds

(* What Rust says yes to is covered, to any place, once windows are over.  *)
LEMMA RustAllows ==
  ASSUME stored \in Seq(Action), NEW n \in Amount, NEW to \in Dest,
         \A a \in Range(stored) : a.kind \in {"SolLimit", "SolRecurringLimit"} => a.to = AnyPlace,
         CanSpendSol(FromRole(stored), n)
  PROVE  IsCovered(Sol, to, n, Windows)
<1>1. PICK p \in Range(FromRole(stored)) :
        \/ p.variant = "All"
        \/ p.variant = "Sol" /\ (n <= p.amount \/ (p.recurring /\ n <= p.current))
  BY DEF CanSpendSol, HasAllPermissions
<1>2. PICK i \in DOMAIN stored :
        stored[i] \in Action /\ IsKnown(stored[i]) /\ p = PermissionOf(stored[i])
  BY ReadFrom
<1> DEFINE a == stored[i]
<1>3. CASE p.variant = "All"
  <2>1. a.kind = "All"
    BY <1>2, <1>3, SolPermission
  <2> QED BY <2>1 DEF IsCovered
<1>4. CASE p.variant = "Sol" /\ (n <= p.amount \/ (p.recurring /\ n <= p.current))
  <2>1. a.kind \in {"SolLimit", "SolRecurringLimit"}
    BY <1>2, <1>4, SolPermission
  <2>2. /\ a.left \in Nat /\ a.topUp \in Nat /\ a.arg = NoArg /\ n \in Nat
        /\ a.kind = "SolLimit" => a.kind \notin RecurringKinds
        /\ a.kind = "SolRecurringLimit" => a.left <= a.topUp /\ a.kind \in RecurringKinds
    BY <1>2, <2>1, SolLimits, Amounts
  <2>3. n <= Payable(a, i \in Windows)
    <3>1. CASE a.kind = "SolLimit"
      <4>1. ~p.recurring /\ p.amount = a.left
        BY <1>2, <3>1, SolPermission
      <4> QED BY <1>4, <2>2, <3>1, <4>1 DEF Payable, Windows
    <3>2. CASE a.kind = "SolRecurringLimit"
      <4>1. p.amount = a.topUp /\ p.current = a.left
        BY <1>2, <3>2, SolPermission
      <4>2. n <= a.topUp
        BY <1>4, <2>2, <3>2, <4>1
      <4> QED BY <2>2, <3>2, <4>2 DEF Payable, Windows
    <3> QED BY <2>1, <3>1, <3>2
  <2>4. Charges(a, Sol, to)
    BY <2>1, <2>2 DEF Charges, SolKinds, Range
  <2> QED BY <2>3, <2>4 DEF IsCovered
<1> QED BY <1>1, <1>3, <1>4

(* What the first limit of its kind covers, Rust does not refuse.          *)
LEMMA RustSpends ==
  ASSUME stored \in Seq(Action), NEW n \in Amount, NEW i \in DOMAIN stored, NEW due \in BOOLEAN,
         stored[i].kind \in {"SolLimit", "SolRecurringLimit"}, First(stored, i),
         n <= Payable(stored[i], due)
  PROVE  CanSpendSol(FromRole(stored), n)
<1> DEFINE a == stored[i]
           p == PermissionOf(a)
<1>1. a \in Action
  BY Listed
<1>2. IsKnown(a)
  BY KnownKinds DEF IsKnown, Known
<1>3. i \in Read(stored)
  BY <1>2 DEF Read, IsRead
<1>4. p \in Range(FromRole(stored))
  BY <1>3, ReadsPermission
<1>5. /\ a.left \in Nat /\ a.topUp \in Nat /\ n \in Nat
      /\ a.kind = "SolLimit" => a.topUp = 0
      /\ a.kind = "SolRecurringLimit" => a.left <= a.topUp
  BY <1>1, SolLimits, Amounts
<1>6. n <= a.left \/ n <= a.topUp
  BY DEF Payable
<1>7. p.variant = "Sol" /\ n <= p.amount
  <2>1. CASE a.kind = "SolLimit"
    <3>1. p.variant = "Sol" /\ p.amount = a.left
      BY <1>1, <1>2, <2>1, SolPermission
    <3> QED BY <1>5, <1>6, <2>1, <3>1
  <2>2. CASE a.kind = "SolRecurringLimit"
    <3>1. p.variant = "Sol" /\ p.amount = a.topUp
      BY <1>1, <1>2, <2>2, SolPermission
    <3> QED BY <1>5, <1>6, <2>2, <3>1
  <2> QED BY <2>1, <2>2
<1> QED BY <1>4, <1>7 DEF CanSpendSol

(* A client with the latest list is promised only what the program accepts *)
(* whichever windows are over, and refused nothing it accepts while none   *)
(* is; and what solSpend hands out promises no more than canSpendSol.      *)
THEOREM LimitsAnswer == Spec => []LimitsAgree
<1>1. PermissionsInv => LimitsAgree
  <2>1. SUFFICES ASSUME PermissionsInv, NEW c \in Client, IsLatest(c),
                        NEW asset \in Asset, NEW n \in Amount
                 PROVE  LET list == view[c].actions
                        IN  /\ CanSpend(list, asset, n) =>
                                 \A over \in SUBSET Windows :
                                   \E to \in Dest : IsCovered(asset, to, n, over)
                            /\ ~CanSpend(list, asset, n) =>
                                 \A to \in Dest : ~IsCovered(asset, to, n, {})
                            /\ n # 0 => (CanSpend(list, asset, n) <=>
                                           SpendLimit(list, asset) = NoLimit
                                             \/ n <= SpendLimit(list, asset))
                            /\ WithinLimits(SpendOf(list, asset), n) => CanSpend(list, asset, n)
                            /\ SpendLimit(list, asset) = NoLimit =>
                                 LimitOf(SpendOf(list, asset)) = NoLimit
    BY DEF LimitsAgree
  <2>2. view[c].actions = stored /\ stored \in Seq(Action) /\ stored # <<>>
    BY <2>1 DEF PermissionsInv, TypeOK, ViewsLag, IsLatest
  <2>3. \A i \in DOMAIN stored : stored[i] \in Action
    BY <2>2, Listed
  <2>4. \A i \in DOMAIN stored :
          WithinLimits(Control(stored[i], asset), n) <=>
            \E to \in Dest : \/ stored[i].kind \in {"All", "AllButManageAuthority"}
                             \/ Charges(stored[i], asset, to) /\ n <= stored[i].left
    BY <2>3, ControlAgrees
  <2>5. CanSpend(stored, asset, n) <=> \E i \in DOMAIN stored : WithinLimits(Control(stored[i], asset), n)
    BY DEF CanSpend, Range
  <2>6. ASSUME NEW over \in SUBSET Windows, NEW i \in DOMAIN stored, n <= stored[i].left,
               stored[i].kind \in SolKinds \cup TokenKinds
        PROVE  n <= Payable(stored[i], i \in over)
    <3>1. stored[i].kind # "ProgramScope" /\ (i \in over => stored[i].kind \in RecurringKinds)
      BY <2>6 DEF Windows, SolKinds, TokenKinds
    <3>2. stored[i].left \in Nat /\ stored[i].topUp \in Nat /\ n \in Nat
          /\ (i \in over => stored[i].left <= stored[i].topUp)
      BY <2>3, <3>1, Amounts DEF Action
    <3> QED BY <2>6, <3>2 DEF Payable
  <2>7. \A i \in DOMAIN stored, to \in Dest :
          Charges(stored[i], asset, to) => stored[i].kind \in SolKinds \cup TokenKinds
    BY DEF Charges
  <2>8. CanSpend(stored, asset, n) =>
          \A over \in SUBSET Windows : \E to \in Dest : IsCovered(asset, to, n, over)
    BY <2>4, <2>5, <2>6, <2>7 DEF IsCovered
  <2>9. ~CanSpend(stored, asset, n) => \A to \in Dest : ~IsCovered(asset, to, n, {})
    BY <2>4, <2>5 DEF IsCovered, Payable
  <2> QED BY <2>2, <2>8, <2>9, SpendLimitIsLargest, SpendOfPromises
<1> QED BY <1>1, PermissionsInductive, PTL

(* Rust's can_spend_sol promises no more than full windows cover, and      *)
(* refuses nothing that the first limit of a kind covers.                  *)
THEOREM RustSpendsWithinBounds == Spec => []CanSpendSolIsBounded
<1>1. PermissionsInv => CanSpendSolIsBounded
  <2>1. SUFFICES ASSUME PermissionsInv, NEW c \in Client, IsLatest(c), NEW n \in Amount
                 PROVE  LET yes == CanSpendSol(FromRole(view[c].actions), n)
                        IN  /\ yes => \A to \in Dest : IsCovered(Sol, to, n, Windows)
                            /\ \A i \in DOMAIN stored, due \in BOOLEAN :
                                 (/\ stored[i].kind \in {"SolLimit", "SolRecurringLimit"}
                                  /\ First(stored, i)
                                  /\ n <= Payable(stored[i], due)) => yes
    BY DEF CanSpendSolIsBounded
  <2>2. view[c].actions = stored /\ stored \in Seq(Action)
    BY <2>1 DEF PermissionsInv, TypeOK, ViewsLag, IsLatest
  <2>3. \A a \in Range(stored) : a.kind \in {"SolLimit", "SolRecurringLimit"} => a.to = AnyPlace
    BY <2>2, Listed DEF Range, Action, DestinationKinds
  <2>4. CanSpendSol(FromRole(stored), n) => \A to \in Dest : IsCovered(Sol, to, n, Windows)
    BY <2>2, <2>3, RustAllows
  <2> QED BY <2>2, <2>4, RustSpends
<1> QED BY <1>1, PermissionsInductive, PTL

(* What either SDK says of spending is what the program accepts, as far as *)
(* it says anything.                                                       *)
THEOREM SpendAnswers == Spec => []SpendAnswersAgree
<1>1. LimitsAgree /\ CanSpendSolIsBounded => SpendAnswersAgree
  BY DEF SpendAnswersAgree
<1> QED BY <1>1, LimitsAnswer, RustSpendsWithinBounds, PTL

-----------------------------------------------------------------------------
(* Removing by type.                                                       *)

(* The numbers of the kinds Rust knows, and of the permissions. *)
LEMMA Numbers ==
  /\ PermissionEnum[1] = "SolLimit"
  /\ PermissionEnum[2] = "SolRecurringLimit"
  /\ PermissionEnum[3] = "Program"
  /\ PermissionEnum[4] = "ProgramScope"
  /\ PermissionEnum[5] = "TokenLimit"
  /\ PermissionEnum[6] = "TokenRecurringLimit"
  /\ PermissionEnum[7] = "All"
  /\ PermissionEnum[8] = "ManageAuthority"
  /\ PermissionEnum[9] = "SubAccount"
  /\ PermissionEnum[10] = "StakeLimit"
  /\ PermissionEnum[11] = "StakeRecurringLimit"
  /\ PermissionEnum[12] = "StakeAll"
  /\ PermissionEnum[13] = "ProgramAll"
  /\ PermissionEnum[14] = "ProgramCurated"
  /\ PermissionEnum[15] = "AllButManageAuthority"
  /\ PermissionEnum[16] = "SolDestinationLimit"
  /\ PermissionEnum[17] = "SolRecurringDestinationLimit"
  /\ PermissionEnum[18] = "TokenDestinationLimit"
  /\ PermissionEnum[19] = "TokenRecurringDestinationLimit"
  /\ PermissionEnum[21] = "ReplaceAuthority"
  /\ PermissionEnum[22] = "SubAccountV2Create"
  /\ PermissionEnum[23] = "SubAccountV2All"
  /\ PermissionEnum[24] = "SubAccountV2Sign"
  /\ PermissionEnum[25] = "SubAccountV2Withdraw"
  /\ PermissionEnum[26] = "SubAccountV2Toggle"
BY DEF PermissionEnum

LEMMA NumberOf ==
  ASSUME NEW p
  PROVE  /\ p.variant = "All" => ToActionType(p) = 7
         /\ p.variant = "ManageAuthority" => ToActionType(p) = 8
         /\ p.variant = "ReplaceAuthority" => ToActionType(p) = 21
         /\ p.variant = "Program" => ToActionType(p) = 3
         /\ p.variant = "ProgramAll" => ToActionType(p) = 13
         /\ p.variant = "ProgramCurated" => ToActionType(p) = 14
         /\ p.variant = "ProgramScope" => ToActionType(p) = 4
         /\ p.variant = "SubAccount" => ToActionType(p) = 9
         /\ p.variant = "SubAccountV2Create" => ToActionType(p) = 22
         /\ p.variant = "SubAccountV2All" => ToActionType(p) = 23
         /\ p.variant = "SubAccountV2Sign" => ToActionType(p) = 24
         /\ p.variant = "SubAccountV2Withdraw" => ToActionType(p) = 25
         /\ p.variant = "SubAccountV2Toggle" => ToActionType(p) = 26
         /\ p.variant = "StakeAll" => ToActionType(p) = 12
         /\ p.variant = "AllButManageAuthority" => ToActionType(p) = 15
         /\ p.variant = "Sol" => ToActionType(p) = IF p.recurring THEN 2 ELSE 1
         /\ p.variant = "SolDestination" => ToActionType(p) = IF p.recurring THEN 17 ELSE 16
         /\ p.variant = "Token" => ToActionType(p) = IF p.recurring THEN 6 ELSE 5
         /\ p.variant = "TokenDestination" => ToActionType(p) = IF p.recurring THEN 19 ELSE 18
         /\ p.variant = "Stake" => ToActionType(p) = IF p.recurring THEN 11 ELSE 10
<1>1. ASSUME p.variant = "All" PROVE ToActionType(p) = 7
  BY <1>1 DEF ToActionType
<1>2. ASSUME p.variant = "ManageAuthority" PROVE ToActionType(p) = 8
  BY <1>2 DEF ToActionType
<1>3. ASSUME p.variant = "ReplaceAuthority" PROVE ToActionType(p) = 21
  BY <1>3 DEF ToActionType
<1>4. ASSUME p.variant = "Program" PROVE ToActionType(p) = 3
  BY <1>4 DEF ToActionType
<1>5. ASSUME p.variant = "ProgramAll" PROVE ToActionType(p) = 13
  BY <1>5 DEF ToActionType
<1>6. ASSUME p.variant = "ProgramCurated" PROVE ToActionType(p) = 14
  BY <1>6 DEF ToActionType
<1>7. ASSUME p.variant = "ProgramScope" PROVE ToActionType(p) = 4
  BY <1>7 DEF ToActionType
<1>8. ASSUME p.variant = "SubAccount" PROVE ToActionType(p) = 9
  BY <1>8 DEF ToActionType
<1>9. ASSUME p.variant = "SubAccountV2Create" PROVE ToActionType(p) = 22
  BY <1>9 DEF ToActionType
<1>10. ASSUME p.variant = "SubAccountV2All" PROVE ToActionType(p) = 23
  BY <1>10 DEF ToActionType
<1>11. ASSUME p.variant = "SubAccountV2Sign" PROVE ToActionType(p) = 24
  BY <1>11 DEF ToActionType
<1>12. ASSUME p.variant = "SubAccountV2Withdraw" PROVE ToActionType(p) = 25
  BY <1>12 DEF ToActionType
<1>13. ASSUME p.variant = "SubAccountV2Toggle" PROVE ToActionType(p) = 26
  BY <1>13 DEF ToActionType
<1>14. ASSUME p.variant = "StakeAll" PROVE ToActionType(p) = 12
  BY <1>14 DEF ToActionType
<1>15. ASSUME p.variant = "AllButManageAuthority" PROVE ToActionType(p) = 15
  BY <1>15 DEF ToActionType
<1>16. ASSUME p.variant = "Sol" PROVE ToActionType(p) = IF p.recurring THEN 2 ELSE 1
  BY <1>16 DEF ToActionType
<1>17. ASSUME p.variant = "SolDestination" PROVE ToActionType(p) = IF p.recurring THEN 17 ELSE 16
  BY <1>17 DEF ToActionType
<1>18. ASSUME p.variant = "Token" PROVE ToActionType(p) = IF p.recurring THEN 6 ELSE 5
  BY <1>18 DEF ToActionType
<1>19. ASSUME p.variant = "TokenDestination" PROVE ToActionType(p) = IF p.recurring THEN 19 ELSE 18
  BY <1>19 DEF ToActionType
<1>20. ASSUME p.variant = "Stake" PROVE ToActionType(p) = IF p.recurring THEN 11 ELSE 10
  BY <1>20 DEF ToActionType
<1> QED BY <1>1, <1>2, <1>3, <1>4, <1>5, <1>6, <1>7, <1>8, <1>9, <1>10, <1>11, <1>12, <1>13, <1>14, <1>15, <1>16, <1>17, <1>18, <1>19, <1>20

(* The number a permission is removed by is that of the kind it was read   *)
(* from.                                                                   *)
LEMMA TypeOfPermission ==
  ASSUME NEW a \in Action, IsKnown(a)
  PROVE  PermissionEnum[ToActionType(PermissionOf(a))] = a.kind
<1> DEFINE v == VariantOf(a.kind)
           r == a.kind \in RecurringKinds
           p == PermissionOf(a)
<1>1. a.kind \in Known /\ p.variant = v
  BY DEF IsKnown, Known, PermissionOf
<1>2. v # "ProgramScope" => (p.recurring <=> r)
  <2>1. a.kind # "ProgramScope" => a.scope = "Basic"
    BY DEF Action
  <2>2. v # "ProgramScope" => a.kind # "ProgramScope"
    BY DEF VariantOf
  <2> QED BY <2>1, <2>2 DEF PermissionOf
<1> HIDE DEF p
<1>3. a.kind \in {"SolLimit", "SolRecurringLimit", "SolDestinationLimit",
                  "SolRecurringDestinationLimit", "TokenLimit", "TokenRecurringLimit",
                  "TokenDestinationLimit", "TokenRecurringDestinationLimit",
                  "StakeLimit", "StakeRecurringLimit"} =>
        PermissionEnum[ToActionType(p)] = a.kind
  <2>1. a.kind \in {"SolLimit", "SolRecurringLimit"} => PermissionEnum[ToActionType(p)] = a.kind
    BY <1>1, <1>2, NumberOf, Numbers DEF VariantOf, RecurringKinds
  <2>2. a.kind \in {"SolDestinationLimit", "SolRecurringDestinationLimit"} =>
          PermissionEnum[ToActionType(p)] = a.kind
    BY <1>1, <1>2, NumberOf, Numbers DEF VariantOf, RecurringKinds
  <2>3. a.kind \in {"TokenLimit", "TokenRecurringLimit"} => PermissionEnum[ToActionType(p)] = a.kind
    BY <1>1, <1>2, NumberOf, Numbers DEF VariantOf, RecurringKinds
  <2>4. a.kind \in {"TokenDestinationLimit", "TokenRecurringDestinationLimit"} =>
          PermissionEnum[ToActionType(p)] = a.kind
    BY <1>1, <1>2, NumberOf, Numbers DEF VariantOf, RecurringKinds
  <2>5. a.kind \in {"StakeLimit", "StakeRecurringLimit"} => PermissionEnum[ToActionType(p)] = a.kind
    BY <1>1, <1>2, NumberOf, Numbers DEF VariantOf, RecurringKinds
  <2> QED BY <2>1, <2>2, <2>3, <2>4, <2>5
<1>4. a.kind \in {"All", "ManageAuthority", "ReplaceAuthority", "ProgramAll", "ProgramCurated",
                  "Program", "ProgramScope", "SubAccount", "SubAccountV2Create", "SubAccountV2All",
                  "SubAccountV2Sign", "SubAccountV2Withdraw", "SubAccountV2Toggle", "StakeAll",
                  "AllButManageAuthority"} =>
        PermissionEnum[ToActionType(p)] = a.kind
  <2>1. SUFFICES ASSUME a.kind \in {"All", "ManageAuthority", "ReplaceAuthority", "ProgramAll",
                  "ProgramCurated", "Program", "ProgramScope", "SubAccount", "SubAccountV2Create",
                  "SubAccountV2All", "SubAccountV2Sign", "SubAccountV2Withdraw",
                  "SubAccountV2Toggle", "StakeAll", "AllButManageAuthority"}
                 PROVE  PermissionEnum[ToActionType(p)] = a.kind
    OBVIOUS
  <2>2. p.variant = a.kind
    BY <1>1, <2>1 DEF VariantOf
  <2> QED BY <2>1, <2>2, NumberOf, Numbers
<1>5. PermissionEnum[ToActionType(p)] = a.kind
  BY <1>1, <1>3, <1>4, KnownKinds
<1> QED BY <1>5 DEF p

LEMMA OrdersPart ==
  ASSUME NEW I, NEW before, Orders(before, I), NEW J \in SUBSET I
  PROVE  Orders(before, J)
BY DEF Orders

LEMMA ThoseBy ==
  ASSUME NEW l, NEW I, NEW o, o = InOrder(I, Ascending(I))
  PROVE  Those(l, I) = [j \in 1..Cardinality(I) |-> l[o[j]]]
<1>1. DOMAIN o = 1..Cardinality(I)
  BY DEF InOrder
<1>2. Those(l, I) = [j \in DOMAIN o |-> l[o[j]]]
  BY DEF Those
<1> QED BY <1>1, <1>2

(* A list without the actions of one kind, by the indices that stay.       *)
WithoutKind(list, kind) == {i \in DOMAIN list : list[i].kind # kind}

LEMMA WithoutKindIs ==
  ASSUME NEW list \in Seq(Action), NEW kind, NEW K, K = WithoutKind(list, kind),
         NEW s, s = InOrder(K, Ascending(K)), NEW new, new = Those(list, K)
  PROVE  /\ IsFiniteSet(K) /\ K \in SUBSET DOMAIN list /\ K \in SUBSET Nat /\ Cardinality(K) \in Nat
         /\ Orders(Ascending(K), K) /\ Enumerates(s, K, Ascending(K))
         /\ new = [j \in 1..Cardinality(K) |-> list[s[j]]]
         /\ new \in Seq(Action) /\ DOMAIN new = 1..Cardinality(K)
         /\ \A j \in DOMAIN new : s[j] \in K /\ new[j] = list[s[j]]
         /\ \A j, h \in DOMAIN new : j < h <=> s[j] < s[h]
<1>1. K \in SUBSET DOMAIN list
  BY DEF WithoutKind
<1>2. IsFiniteSet(K) /\ K \in SUBSET Nat
  BY <1>1, Listed, FS_Subset
<1>3. Cardinality(K) \in Nat
  BY <1>2, FS_CardinalityType
<1>4. Orders(Ascending(K), K) /\ Enumerates(s, K, Ascending(K))
  BY <1>2, AscendingOrders, InOrderEnumerates
<1>5. new = [j \in 1..Cardinality(K) |-> list[s[j]]]
  BY ThoseBy
<1>6. new \in Seq(Action)
  <2>1. Those(list, K) \in Seq(Action)
    BY <1>1, ThoseListed
  <2> QED BY <2>1
<1>7. DOMAIN new = 1..Cardinality(K)
  BY <1>5
<1>8. \A j \in DOMAIN new : s[j] \in K /\ new[j] = list[s[j]]
  BY <1>4, <1>5, <1>7 DEF Enumerates
<1>9. \A j, h \in DOMAIN new : j < h => s[j] < s[h]
  <2>1. \A j, h \in DOMAIN new : j < h => <<s[j], s[h]>> \in Ascending(K)
    BY <1>4, <1>7 DEF Enumerates
  <2>2. \A i, k \in K : <<i, k>> \in Ascending(K) => i < k
    BY DEF Ascending
  <2> QED BY <1>8, <2>1, <2>2
<1>10. ASSUME NEW j \in DOMAIN new, NEW h \in DOMAIN new, s[j] < s[h] PROVE j < h
  <2>1. j \in Nat /\ h \in Nat /\ s[j] \in Nat /\ s[h] \in Nat
    BY <1>2, <1>3, <1>7, <1>8
  <2>2. h < j => s[h] < s[j]
    BY <1>9
  <2> QED BY <1>10, <2>1, <2>2
<1> QED BY <1>1, <1>2, <1>3, <1>4, <1>5, <1>6, <1>7, <1>8, <1>9, <1>10

(* Which actions are read is not changed by removing those of a kind.      *)
LEMMA ReadsTheSame ==
  ASSUME NEW list \in Seq(Action), NEW kind, NEW K, K = WithoutKind(list, kind),
         NEW s, s = InOrder(K, Ascending(K)), NEW new, new = Those(list, K),
         NEW j \in DOMAIN new
  PROVE  j \in Read(new) <=> s[j] \in Read(list)
<1>0. /\ DOMAIN new = 1..Cardinality(K) /\ Cardinality(K) \in Nat
      /\ K \in SUBSET DOMAIN list /\ Enumerates(s, K, Ascending(K))
      /\ \A h \in DOMAIN new : s[h] \in K /\ new[h] = list[s[h]]
      /\ \A h, i \in DOMAIN new : h < i <=> s[h] < s[i]
  BY WithoutKindIs
<1>1. new[j] = list[s[j]] /\ s[j] \in K /\ s[j] \in DOMAIN list /\ list[s[j]].kind # kind
  BY <1>0 DEF WithoutKind
<1>2. DOMAIN list = 1..Len(list) /\ Len(list) \in Nat
  BY Listed
<1>3. ASSUME First(list, s[j]) PROVE First(new, j)
  <2>1. SUFFICES ASSUME NEW h \in 1..(j - 1) PROVE new[h].kind # new[j].kind
    BY DEF First
  <2>2. h \in DOMAIN new /\ h < j
    BY <1>0
  <2>3. s[h] < s[j] /\ s[h] \in DOMAIN list /\ new[h] = list[s[h]]
    BY <1>0, <2>2
  <2>4. s[h] \in 1..(s[j] - 1)
    BY <1>1, <1>2, <2>3
  <2> QED BY <1>1, <1>3, <2>3, <2>4 DEF First
<1>4. ASSUME First(new, j) PROVE First(list, s[j])
  <2>1. SUFFICES ASSUME NEW i \in 1..(s[j] - 1), list[i].kind = list[s[j]].kind PROVE FALSE
    BY DEF First
  <2>2. i \in DOMAIN list /\ i < s[j]
    BY <1>1, <1>2
  <2>3. i \in K
    BY <1>1, <2>1, <2>2 DEF WithoutKind
  <2>4. PICK h \in DOMAIN new : s[h] = i
    BY <1>0, <2>3 DEF Enumerates
  <2>5. h < j
    BY <1>0, <2>2, <2>4
  <2>6. h \in 1..(j - 1)
    BY <1>0, <2>5
  <2>7. new[h].kind # new[j].kind
    BY <1>4, <2>6 DEF First
  <2> QED BY <1>0, <1>1, <2>1, <2>4, <2>7
<1> QED BY <1>1, <1>3, <1>4 DEF Read, IsRead

(* What Rust shows of the list without the actions of a kind is what it    *)
(* showed, without those permissions.                                      *)
LEMMA ShownWithout ==
  ASSUME NEW list \in Seq(Action), NEW kind
  PROVE  LET shown == FromRole(list)
         IN  FromRole(Those(list, WithoutKind(list, kind)))
               = Those(shown, {i \in DOMAIN shown : KindOf(shown[i]) # kind})
<1> DEFINE K == WithoutKind(list, kind)
           s == InOrder(K, Ascending(K))
           new == Those(list, K)
           R == Read(list)
           o == InOrder(R, Reading(list))
           J == Read(new)
           t == InOrder(J, Reading(new))
           shown == FromRole(list)
           D == {i \in DOMAIN shown : KindOf(shown[i]) # kind}
           d == InOrder(D, Ascending(D))
           G == {i \in R : list[i].kind # kind}
<1>1. /\ IsFiniteSet(K) /\ K \in SUBSET DOMAIN list /\ K \in SUBSET Nat /\ Cardinality(K) \in Nat
      /\ Orders(Ascending(K), K) /\ Enumerates(s, K, Ascending(K))
      /\ new \in Seq(Action) /\ DOMAIN new = 1..Cardinality(K)
      /\ \A j \in DOMAIN new : s[j] \in K /\ new[j] = list[s[j]]
      /\ \A j, h \in DOMAIN new : j < h <=> s[j] < s[h]
  BY WithoutKindIs
<1>2. \A j \in DOMAIN new : j \in J <=> s[j] \in R
  BY ReadsTheSame
<1>3. /\ IsFiniteSet(R) /\ R \in SUBSET DOMAIN list /\ Cardinality(R) \in Nat
      /\ Orders(Reading(list), R) /\ Enumerates(o, R, Reading(list))
      /\ \A i \in R : list[i] \in Action /\ list[i].kind \in Known
  BY ReadingOrders, InOrderEnumerates
<1>4. shown = [j \in 1..Cardinality(R) |-> PermissionOf(list[o[j]])]
  BY FromRoleReads
<1>5. /\ IsFiniteSet(J) /\ J \in SUBSET DOMAIN new
      /\ Orders(Reading(new), J) /\ Enumerates(t, J, Reading(new))
  BY <1>1, ReadingOrders, InOrderEnumerates
<1>6. FromRole(new) = [j \in 1..Cardinality(J) |-> PermissionOf(new[t[j]])]
  BY <1>1, FromRoleReads
<1>7. \A i \in DOMAIN list : i \in K <=> list[i].kind # kind
  BY DEF WithoutKind
<1>8. \A h, i \in R : <<h, i>> \in Reading(list) <=> ReadBefore(list, h, i)
  BY DEF Reading
<1>9. \A h, i \in J : <<h, i>> \in Reading(new) <=> ReadBefore(new, h, i)
  BY DEF Reading
<1>10. \A h, i : Ascending(D) = {p \in D \X D : p[1] < p[2]}
  BY DEF Ascending
<1>11. d = InOrder(D, Ascending(D))
  OBVIOUS
<1>12. \A i \in DOMAIN shown : i \in D <=> KindOf(shown[i]) # kind
  OBVIOUS
<1>13. D \in SUBSET DOMAIN shown
  OBVIOUS
<1>14. \A i : i \in G <=> i \in R /\ list[i].kind # kind
  OBVIOUS
<1> HIDE DEF K, s, new, R, o, J, t, shown, D, d, G
<1>15. J \in SUBSET (1..Cardinality(K))
  BY <1>1, <1>5
<1>16. (\A j \in J : s[j] \in G) /\ \A i \in G : \E j \in J : s[j] = i
  <2>1. ASSUME NEW j \in J PROVE s[j] \in G
    BY <1>1, <1>2, <1>5, <1>7, <1>14
  <2>2. ASSUME NEW i \in G PROVE \E j \in J : s[j] = i
    <3>1. i \in R /\ i \in K
      BY <1>3, <1>7, <1>14
    <3>2. PICK j \in DOMAIN new : s[j] = i
      BY <1>1, <3>1 DEF Enumerates
    <3> QED BY <1>2, <3>1, <3>2
  <2> QED BY <2>1, <2>2
<1>17. \A j, k \in J : <<j, k>> \in Reading(new) => <<s[j], s[k]>> \in Reading(list)
  <2>1. TAKE j, k \in J
  <2>2. HAVE <<j, k>> \in Reading(new)
  <2>3. j \in DOMAIN new /\ k \in DOMAIN new /\ s[j] \in R /\ s[k] \in R
    BY <1>2, <1>5
  <2>4. ReadBefore(list, s[j], s[k])
    BY <1>1, <1>9, <2>2, <2>3 DEF ReadBefore
  <2> QED BY <1>8, <2>3, <2>4
<1> DEFINE q == [m \in 1..Cardinality(G) |-> s[t[m]]]
<1>18. Cardinality(J) = Cardinality(G) /\ Enumerates(q, G, Reading(list))
  <2>1. Composed(q, s, t, G)
    BY DEF Composed
  <2> HIDE DEF q
  <2>2. Reaches(s, J, G) /\ Agrees(s, J, Reading(new), Reading(list))
    BY <1>16, <1>17 DEF Reaches, Agrees
  <2> QED BY <1>1, <1>5, <1>15, <2>1, <2>2, PartOf
<1>19. IsFiniteSet(D) /\ D \in SUBSET Nat /\ D \in SUBSET (1..Cardinality(R))
  <2> DEFINE N == 1..Cardinality(R)
  <2>1. DOMAIN shown = N
    BY <1>4
  <2>2. IsFiniteSet(N) /\ N \subseteq Nat
    BY <1>3, Interval
  <2> HIDE DEF N
  <2>3. D \in SUBSET N
    BY <1>13, <2>1
  <2> QED BY <2>2, <2>3, FS_Subset DEF N
<1>20. Orders(Ascending(D), D) /\ Enumerates(d, D, Ascending(D))
  BY <1>11, <1>19, AscendingOrders, InOrderEnumerates
<1>21. \A j \in 1..Cardinality(R) : o[j] \in R /\ (j \in D <=> list[o[j]].kind # kind)
  <2>1. TAKE j \in 1..Cardinality(R)
  <2>2. o[j] \in R /\ shown[j] = PermissionOf(list[o[j]]) /\ j \in DOMAIN shown
    BY <1>3, <1>4 DEF Enumerates
  <2>3. KindOf(shown[j]) = list[o[j]].kind
    BY <1>3, <2>2, KindOfPermission DEF IsKnown, Known
  <2> QED BY <1>12, <2>2, <2>3
<1>22. (\A j \in D : o[j] \in G) /\ \A i \in G : \E j \in D : o[j] = i
  <2>1. ASSUME NEW j \in D PROVE o[j] \in G
    BY <1>14, <1>19, <1>21
  <2>2. ASSUME NEW i \in G PROVE \E j \in D : o[j] = i
    <3>1. i \in R /\ list[i].kind # kind
      BY <1>14
    <3>2. PICK j \in 1..Cardinality(R) : o[j] = i
      BY <1>3, <3>1 DEF Enumerates
    <3> QED BY <1>21, <3>1, <3>2
  <2> QED BY <2>1, <2>2
<1>23. \A j, k \in D : <<j, k>> \in Ascending(D) => <<o[j], o[k]>> \in Reading(list)
  <2>1. \A j, k \in D : <<j, k>> \in Ascending(D) => j < k
    BY DEF Ascending
  <2> QED BY <1>3, <1>19, <2>1 DEF Enumerates
<1> DEFINE r == [m \in 1..Cardinality(G) |-> o[d[m]]]
<1>24. Cardinality(D) = Cardinality(G) /\ Enumerates(r, G, Reading(list))
  <2>1. Composed(r, o, d, G)
    BY DEF Composed
  <2> HIDE DEF q, r
  <2>2. Reaches(o, D, G) /\ Agrees(o, D, Ascending(D), Reading(list))
    BY <1>22, <1>23 DEF Reaches, Agrees
  <2> QED BY <1>3, <1>19, <1>20, <2>1, <2>2, PartOf
<1>25. IsFiniteSet(G) /\ Orders(Reading(list), G)
  <2>1. G \in SUBSET R
    BY <1>14
  <2> QED BY <1>3, <2>1, FS_Subset, OrdersPart
<1>26. \A m \in 1..Cardinality(G) : s[t[m]] = o[d[m]]
  <2>1. q = r
    <3> HIDE DEF q, r
    <3> QED BY <1>18, <1>24, <1>25, OneOrder
  <2>2. \A m \in 1..Cardinality(G) : q[m] = s[t[m]] /\ r[m] = o[d[m]]
    OBVIOUS
  <2> HIDE DEF q, r
  <2> QED BY <2>1, <2>2
<1>27. FromRole(new) = [m \in 1..Cardinality(G) |-> PermissionOf(list[s[t[m]]])]
  <2>1. \A m \in 1..Cardinality(G) : new[t[m]] = list[s[t[m]]]
    BY <1>1, <1>5, <1>18 DEF Enumerates
  <2> QED BY <1>6, <1>18, <2>1
<1>28. Those(shown, D) = [m \in 1..Cardinality(G) |-> PermissionOf(list[o[d[m]]])]
  <2>1. Those(shown, D) = [m \in 1..Cardinality(D) |-> shown[d[m]]]
    BY <1>11, ThoseBy
  <2>2. \A m \in 1..Cardinality(D) : shown[d[m]] = PermissionOf(list[o[d[m]]])
    BY <1>4, <1>19, <1>20 DEF Enumerates
  <2> QED BY <1>24, <2>1, <2>2
<1>29. FromRole(new) = Those(shown, D)
  BY <1>26, <1>27, <1>28
<1> QED BY <1>29 DEF new, K, shown, D

(* The actions Rust does not know stay as they are.                        *)
LEMMA UnreadWithout ==
  ASSUME NEW list \in Seq(Action), NEW kind \in Known
  PROVE  LET new == Those(list, WithoutKind(list, kind))
         IN  Those(new, {i \in DOMAIN new : ~IsKnown(new[i])})
               = Those(list, {i \in DOMAIN list : ~IsKnown(list[i])})
<1> DEFINE K == WithoutKind(list, kind)
           s == InOrder(K, Ascending(K))
           new == Those(list, K)
           J == {i \in DOMAIN new : ~IsKnown(new[i])}
           t == InOrder(J, Ascending(J))
           U == {i \in DOMAIN list : ~IsKnown(list[i])}
           u == InOrder(U, Ascending(U))
<1>1. /\ IsFiniteSet(K) /\ K \in SUBSET DOMAIN list /\ K \in SUBSET Nat /\ Cardinality(K) \in Nat
      /\ Orders(Ascending(K), K) /\ Enumerates(s, K, Ascending(K))
      /\ new \in Seq(Action) /\ DOMAIN new = 1..Cardinality(K)
      /\ \A j \in DOMAIN new : s[j] \in K /\ new[j] = list[s[j]]
      /\ \A j, h \in DOMAIN new : j < h <=> s[j] < s[h]
  BY WithoutKindIs
<1>2. \A i \in DOMAIN list : i \in U => i \in K
  BY DEF WithoutKind, IsKnown, Known
<1>3. (\A i : i \in U <=> i \in DOMAIN list /\ ~IsKnown(list[i]))
      /\ \A j : j \in J <=> j \in DOMAIN new /\ ~IsKnown(new[j])
  OBVIOUS
<1>4. t = InOrder(J, Ascending(J)) /\ u = InOrder(U, Ascending(U))
  OBVIOUS
<1> HIDE DEF K, s, new, J, t, U, u
<1>5. IsFiniteSet(J) /\ J \in SUBSET Nat /\ J \in SUBSET DOMAIN new
  <2>1. J \in SUBSET DOMAIN new
    BY <1>3
  <2>2. IsFiniteSet(DOMAIN new) /\ DOMAIN new \subseteq Nat
    BY <1>1, Listed
  <2> QED BY <2>1, <2>2, FS_Subset
<1>6. IsFiniteSet(U) /\ U \in SUBSET Nat /\ U \in SUBSET DOMAIN list
  <2>1. U \in SUBSET DOMAIN list
    BY <1>3
  <2>2. IsFiniteSet(DOMAIN list) /\ DOMAIN list \subseteq Nat
    BY Listed
  <2> QED BY <2>1, <2>2, FS_Subset
<1>7. Orders(Ascending(J), J) /\ Enumerates(t, J, Ascending(J))
  BY <1>4, <1>5, AscendingOrders, InOrderEnumerates
<1>8. Orders(Ascending(U), U) /\ Enumerates(u, U, Ascending(U))
  BY <1>4, <1>6, AscendingOrders, InOrderEnumerates
<1>9. Reaches(s, J, U)
  <2>1. ASSUME NEW j \in J PROVE s[j] \in U
    BY <1>1, <1>3
  <2>2. ASSUME NEW i \in U PROVE \E j \in J : s[j] = i
    <3>1. i \in K /\ ~IsKnown(list[i])
      BY <1>2, <1>3
    <3>2. PICK j \in DOMAIN new : s[j] = i
      BY <1>1, <3>1 DEF Enumerates
    <3> QED BY <1>1, <1>3, <3>1, <3>2
  <2> QED BY <2>1, <2>2 DEF Reaches
<1>10. Agrees(s, J, Ascending(J), Ascending(U))
  <2>1. SUFFICES ASSUME NEW j \in J, NEW k \in J, <<j, k>> \in Ascending(J)
                 PROVE  <<s[j], s[k]>> \in Ascending(U)
    BY DEF Agrees
  <2>2. j < k
    BY <2>1 DEF Ascending
  <2>3. s[j] < s[k] /\ s[j] \in U /\ s[k] \in U
    BY <1>1, <1>5, <1>9, <2>2 DEF Reaches
  <2> QED BY <2>3 DEF Ascending
<1> DEFINE q == [m \in 1..Cardinality(U) |-> s[t[m]]]
<1>11. Cardinality(J) = Cardinality(U) /\ Enumerates(q, U, Ascending(U))
  <2>1. Composed(q, s, t, U)
    BY DEF Composed
  <2> HIDE DEF q
  <2> QED BY <1>1, <1>5, <1>7, <1>9, <1>10, <2>1, PartOf
<1>12. \A m \in 1..Cardinality(U) : s[t[m]] = u[m]
  <2>1. q = u
    <3> HIDE DEF q
    <3> QED BY <1>6, <1>8, <1>11, OneOrder
  <2>2. \A m \in 1..Cardinality(U) : q[m] = s[t[m]]
    OBVIOUS
  <2> HIDE DEF q
  <2> QED BY <2>1, <2>2
<1>13. Those(new, J) = [m \in 1..Cardinality(J) |-> new[t[m]]]
  BY <1>4, ThoseBy
<1>14. Those(list, U) = [m \in 1..Cardinality(U) |-> list[u[m]]]
  BY <1>4, ThoseBy
<1>15. \A m \in 1..Cardinality(J) : new[t[m]] = list[s[t[m]]]
  BY <1>1, <1>5, <1>7 DEF Enumerates
<1>16. Those(new, J) = Those(list, U)
  BY <1>11, <1>12, <1>13, <1>14, <1>15
<1> QED BY <1>16 DEF new, K, J, U

LEMMA RemovedByType ==
  ASSUME PermissionsInv, NEW c \in Client, NEW p \in Range(FromRole(view[c].actions)),
         RemoveActionsByType(c, p)
  PROVE  /\ LET shown == FromRole(stored)
            IN  FromRole(stored') = Those(shown, {i \in DOMAIN shown : KindOf(shown[i]) # KindOf(p)})
         /\ LET unread(list) == Those(list, {i \in DOMAIN list : ~IsKnown(list[i])})
            IN  unread(stored') = unread(stored)
<1> DEFINE kind == KindOf(p)
           new == Those(stored, WithoutKind(stored, kind))
<1>1. stored \in Seq(Action) /\ view[c].actions \in Seq(Action)
  BY DEF PermissionsInv, TypeOK
<1>2. PICK a \in Action : IsKnown(a) /\ p = PermissionOf(a)
  BY <1>1, ReadFrom
<1>3. kind = a.kind /\ kind \in Known /\ PermissionEnum[ToActionType(p)] = kind
  BY <1>2, KindOfPermission, TypeOfPermission DEF IsKnown, Known
<1>4. stored' = Those(stored, {i \in DOMAIN stored : stored[i].kind # PermissionEnum[ToActionType(p)]})
  BY DEF RemoveActionsByType, Update
<1> HIDE DEF kind
<1>5. stored' = new
  BY <1>3, <1>4 DEF WithoutKind
<1>6. LET shown == FromRole(stored)
      IN  FromRole(new) = Those(shown, {i \in DOMAIN shown : KindOf(shown[i]) # kind})
  BY <1>1, ShownWithout
<1>7. Those(new, {i \in DOMAIN new : ~IsKnown(new[i])})
        = Those(stored, {i \in DOMAIN stored : ~IsKnown(stored[i])})
  BY <1>1, <1>3, UnreadWithout
<1> HIDE DEF new
<1> QED BY <1>5, <1>6, <1>7 DEF kind

(* Removing by type what Rust shows takes away every permission of that    *)
(* kind and nothing else, from whatever list the account has by then.      *)
THEOREM Revokes == Spec => RevokesExactly
<1>1. PermissionsInv =>
        \A c \in Client : \A p \in Range(FromRole(view[c].actions)) :
          RemoveActionsByType(c, p) =>
            /\ LET shown == FromRole(stored)
               IN  FromRole(stored') = Those(shown, {i \in DOMAIN shown : KindOf(shown[i]) # KindOf(p)})
            /\ LET unread(list) == Those(list, {i \in DOMAIN list : ~IsKnown(list[i])})
               IN  unread(stored') = unread(stored)
  BY RemovedByType
<1> QED BY <1>1, PermissionsInductive, PTL DEF RevokesExactly
=============================================================================
