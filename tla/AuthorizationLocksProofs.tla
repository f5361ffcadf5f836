---------------------- MODULE AuthorizationLocksProofs ----------------------
(***************************************************************************)
(* Lock ids for every number of roles, assets, locks and every bound: what *)
(* a client has seen of a lock stays true enough to act on.                *)
(***************************************************************************)
EXTENDS AuthorizationLocks, SetInduction

LEMMA InitIdsInv == Init => IdsInv
<1> SUFFICES ASSUME Init PROVE IdsInv
  OBVIOUS
<1>1. IsFiniteSet({}) /\ Cardinality({}) = 0
  BY FS_EmptySet
<1>2. TypeOK
  <2>1. balance \in [Asset -> Nat]
    BY LockAssumption DEF Init
  <2>2. view \in [Role -> [locks : SUBSET Lock, nextId : Nat]]
    BY DEF Init
  <2>3. funds \in [Role -> Funds \cup {NoBalance}] /\ calls \in [Role -> Nat]
    BY DEF Init
  <2> QED
    BY <1>1, <2>1, <2>2, <2>3 DEF Init, TypeOK
<1>3. EveryTailDecodes
  <2>1. Decodes([locks |-> {}, nextId |-> 0])
    BY <1>1, LockAssumption DEF Decodes
  <2>2. /\ locks = {} /\ nextId = 0
        /\ \A r \in Role : view[r] = [locks |-> {}, nextId |-> 0]
    BY DEF Init
  <2> QED
    BY <2>1, <2>2, Zenon DEF EveryTailDecodes
<1>4. Sightings /\ PrunesAreInactive
  BY DEF Init, Sightings, PrunesAreInactive
<1> QED
  BY <1>2, <1>3, <1>4 DEF IdsInv

-----------------------------------------------------------------------------
(* The clients.                                                            *)

LEMMA RefetchIdsInv ==
  ASSUME IdsInv, NEW r \in Role, Refetch(r)
  PROVE  IdsInv'
<1>0. TypeOK /\ EveryTailDecodes /\ Sightings /\ PrunesAreInactive
  BY DEF IdsInv
<1>1. /\ view' = [view EXCEPT ![r] = [locks |-> locks, nextId |-> nextId]]
      /\ funds' = [funds EXCEPT ![r] = NoBalance]
      /\ quiet' = quiet \cup ({r} \X Asset)
      /\ UNCHANGED <<locks, nextId, balance, slot, calls, net, clean>>
  BY DEF Refetch, chain
<1>2. \A q \in Role : view'[q] = IF q = r THEN [locks |-> locks, nextId |-> nextId]
                                 ELSE view[q]
  BY <1>0, <1>1 DEF TypeOK
<1>3. TypeOK'
  BY <1>0, <1>1 DEF TypeOK
<1>4. EveryTailDecodes'
  BY <1>0, <1>1, <1>2 DEF EveryTailDecodes, Decodes
<1>5. \A l \in locks : Sighted(l)
  <2>1. ASSUME NEW l \in locks, NEW k \in locks, k.id = l.id PROVE k = l
    BY <1>0, <2>1 DEF EveryTailDecodes, Decodes
  <2>2. \A l \in locks : l.id < nextId /\ l \in Lock
    BY <1>0 DEF EveryTailDecodes, Decodes, TypeOK
  <2> QED
    BY <2>1, <2>2 DEF Sighted, Lock
<1>6. Sightings' /\ PrunesAreInactive'
  BY <1>0, <1>1, <1>2, <1>5 DEF Sightings, Sighted, PrunesAreInactive
<1> QED
  BY <1>3, <1>4, <1>6 DEF IdsInv

LEMMA ReadBalanceIdsInv ==
  ASSUME IdsInv, NEW r \in Role, ReadBalance(r)
  PROVE  IdsInv'
<1>1. TypeOK'
  <2>1. [of |-> balance, at |-> slot] \in Funds
    BY DEF IdsInv, TypeOK, Funds
  <2> QED
    BY <2>1 DEF IdsInv, TypeOK, ReadBalance, chain
<1> QED
  BY <1>1 DEF IdsInv, EveryTailDecodes, Decodes, Sightings, Sighted,
              PrunesAreInactive, ReadBalance, chain

(* A well-formed request joins the network.                                *)
LEMMA SignIdsInv ==
  ASSUME IdsInv, NEW r \in Role,
         NEW x \in Adding \cup Spending \cup Removing,
         Sign(r, x), clean' \subseteq Spending,
         x.kind \in {"release", "prune"} => x.id = x.seen.id /\ Sighted(x.seen),
         x.kind = "prune" => x.seen.role # x.role /\ IsPrunable(x.seen, slot)
  PROVE  IdsInv'
<1>0. TypeOK /\ EveryTailDecodes /\ Sightings /\ PrunesAreInactive
  BY DEF IdsInv
<1>1. /\ net' = net \cup {x} /\ calls' = [calls EXCEPT ![r] = @ + 1]
      /\ UNCHANGED <<locks, nextId, balance, slot, view, funds, quiet>>
  BY DEF Sign, chain
<1>2. TypeOK'
  BY <1>0, <1>1 DEF TypeOK
<1>3. EveryTailDecodes'
  BY <1>0, <1>1 DEF EveryTailDecodes, Decodes
<1>4. Sightings'
  BY <1>0, <1>1 DEF Sightings, Sighted
<1>5. PrunesAreInactive'
  BY <1>0, <1>1 DEF PrunesAreInactive
<1> QED
  BY <1>2, <1>3, <1>4, <1>5 DEF IdsInv

LEMMA ClientIdsInv ==
  ASSUME IdsInv, NEW r \in Role, Client(r)
  PROVE  IdsInv'
<1>0. TypeOK /\ Sightings
  BY DEF IdsInv
<1>1. calls[r] \in Nat
  BY <1>0 DEF TypeOK
<1>2. ASSUME NEW a \in Asset, NEW n \in 1 .. MaxBalance, NEW s \in 1 .. MaxSlot + 1,
             AddAuthorizationLock(r, a, n, s)
      PROVE  IdsInv'
  <2> DEFINE x == [kind |-> "add", role |-> r, call |-> calls[r], asset |-> a,
                   amount |-> n, expiry |-> s]
  <2>1. x \in Adding
    BY <1>1, LockAssumption DEF Adding
  <2>2. Sign(r, x) /\ clean' \subseteq Spending
    BY <1>0, <1>2 DEF AddAuthorizationLock, TypeOK
  <2>3. x.kind = "add"
    OBVIOUS
  <2> HIDE DEF x
  <2> QED
    BY <2>1, <2>2, <2>3, SignIdsInv
<1>3. ASSUME NEW a \in Asset, NEW n \in 1 .. MaxBalance, NEW s \in 0 .. MaxSlot,
             Spend(r, a, n, s)
      PROVE  IdsInv'
  <2> DEFINE x == [kind |-> "spend", role |-> r, call |-> calls[r], asset |-> a,
                   amount |-> n]
  <2>1. x \in Spending
    BY <1>1, LockAssumption DEF Spending
  <2>2. Sign(r, x) /\ clean' \subseteq clean \cup {x}
    BY <1>3 DEF Spend
  <2>3. clean' \subseteq Spending
    BY <1>0, <2>1, <2>2 DEF TypeOK
  <2>4. x.kind = "spend"
    OBVIOUS
  <2> HIDE DEF x
  <2> QED
    BY <2>1, <2>2, <2>3, <2>4, SignIdsInv
<1>4. ASSUME NEW l \in view[r].locks, RemoveAuthorizationLock(r, l)
      PROVE  IdsInv'
  <2> DEFINE x == [kind |-> IF l.role = r THEN "release" ELSE "prune", role |-> r,
                   call |-> calls[r], id |-> l.id, seen |-> l]
  <2>1. l \in Lock /\ l.id \in Nat
    BY <1>0 DEF TypeOK, Lock
  <2>2. x \in Removing
    BY <1>1, <2>1 DEF Removing
  <2>3. Sign(r, x) /\ clean' \subseteq Spending
    BY <1>0, <1>4 DEF RemoveAuthorizationLock, TypeOK
  <2>4. x.id = x.seen.id /\ Sighted(x.seen)
    BY <1>0 DEF Sightings
  <2>5. x.kind = "prune" => x.seen.role # x.role /\ IsPrunable(x.seen, slot)
    BY <1>4 DEF RemoveAuthorizationLock
  <2> HIDE DEF x
  <2> QED
    BY <2>2, <2>3, <2>4, <2>5, SignIdsInv
<1> QED
  BY <1>2, <1>3, <1>4, RefetchIdsInv, ReadBalanceIdsInv DEF Client

-----------------------------------------------------------------------------
(* The program and time.                                                   *)

(* Amounts fall, locks go, slots pass, ids are handed out: sightings keep. *)
LEMMA KeepIdsInv ==
  ASSUME IdsInv, TypeOK', net' \subseteq net, UNCHANGED view,
         nextId <= nextId', slot <= slot',
         \A k \in locks' :
           \/ \E l \in locks : /\ k.id = l.id /\ k.amount <= l.amount
                               /\ [l EXCEPT !.amount = k.amount] = k
           \/ nextId <= k.id,
         Decodes([locks |-> locks', nextId |-> nextId'])
  PROVE  IdsInv'
<1>0. TypeOK /\ EveryTailDecodes /\ Sightings /\ PrunesAreInactive
  BY DEF IdsInv
<1>1. EveryTailDecodes'
  BY <1>0 DEF EveryTailDecodes, Decodes
<1>2. ASSUME NEW l \in Lock, Sighted(l)
      PROVE  /\ l.id < nextId'
             /\ \A k \in locks' : k.id = l.id =>
                  k.amount <= l.amount /\ [l EXCEPT !.amount = k.amount] = k
  <2>1. l.id \in Nat /\ l.amount \in Nat /\ nextId \in Nat /\ nextId' \in Nat
    BY <1>0 DEF TypeOK, Lock
  <2>2. l.id < nextId
    BY <1>2 DEF Sighted
  <2>3. ASSUME NEW k \in locks', k.id = l.id
        PROVE  k.amount <= l.amount /\ [l EXCEPT !.amount = k.amount] = k
    <3>1. k \in Lock /\ k.id \in Nat /\ k.amount \in Nat
      BY DEF TypeOK, Lock
    <3>2. PICK m \in locks : /\ k.id = m.id /\ k.amount <= m.amount
                             /\ [m EXCEPT !.amount = k.amount] = k
      BY <2>1, <2>2, <2>3, <3>1
    <3>3. m \in Lock /\ m.amount \in Nat
      BY <1>0 DEF TypeOK, Lock
    <3>4. m.amount <= l.amount /\ [l EXCEPT !.amount = m.amount] = m
      BY <1>2, <2>3, <3>2 DEF Sighted
    <3>5. /\ l.asset = m.asset /\ l.expiry = m.expiry /\ l.role = m.role /\ l.id = m.id
      BY <3>3, <3>4 DEF Lock
    <3>6. /\ m.asset = k.asset /\ m.expiry = k.expiry /\ m.role = k.role /\ m.id = k.id
      BY <3>1, <3>2, <3>3 DEF Lock
    <3>7. [l EXCEPT !.amount = k.amount] = k
      BY <3>1, <3>5, <3>6 DEF Lock
    <3> QED
      BY <2>1, <3>1, <3>2, <3>3, <3>4, <3>7
  <2> QED
    BY <2>1, <2>2, <2>3
<1>3. Sightings'
  <2>1. \A r \in Role : \A l \in view[r].locks : l \in Lock /\ Sighted(l)
    BY <1>0 DEF TypeOK, Sightings
  <2>2. \A x \in net' : x.kind \in {"release", "prune"} =>
          x.id = x.seen.id /\ Sighted(x.seen) /\ x.seen \in Lock
    BY <1>0 DEF TypeOK, Sightings, Adding, Spending, Removing
  <2> QED
    BY <1>2, <2>1, <2>2 DEF Sightings, Sighted
<1>4. PrunesAreInactive'
  <2>1. \A x \in net' : x.kind = "prune" =>
          /\ x.seen \in Lock /\ x.seen.role # x.role /\ IsPrunable(x.seen, slot)
    BY <1>0 DEF TypeOK, PrunesAreInactive, Adding, Spending, Removing
  <2>2. slot \in Nat /\ slot' \in Nat
    BY <1>0 DEF TypeOK
  <2> QED
    BY <2>1, <2>2 DEF PrunesAreInactive, IsPrunable, IsActive, Lock
<1> QED
  BY <1>1, <1>3, <1>4 DEF IdsInv

LEMMA LandAddIdsInv ==
  ASSUME IdsInv, NEW x \in net, x.kind = "add", LandAdd(x),
         net' = net \ {x}, UNCHANGED clients
  PROVE  IdsInv'
<1> DEFINE l == [asset |-> x.asset, amount |-> x.amount, expiry |-> x.expiry,
                 role |-> x.role, id |-> nextId]
<1>0. TypeOK /\ EveryTailDecodes
  BY DEF IdsInv
<1>1. /\ locks' = locks \cup {l} /\ nextId' = nextId + 1
      /\ UNCHANGED <<balance, slot, view, funds, calls>>
      /\ quiet' \subseteq quiet /\ clean' \subseteq clean
      /\ Cardinality(locks) < MaxLocks
  BY DEF LandAdd, Disturb, clients
<1>2. x \in Adding
  BY <1>0 DEF TypeOK, Spending, Removing
<1>3. l \in Lock /\ l.id = nextId /\ nextId \in Nat
  BY <1>0, <1>2 DEF TypeOK, Lock, Adding
<1> HIDE DEF l
<1>4. l \notin locks /\ \A k \in locks : k.id < nextId /\ k.id \in Nat
  BY <1>0, <1>3 DEF EveryTailDecodes, Decodes, TypeOK, Lock
<1>5. IsFiniteSet(locks') /\ Cardinality(locks') = Cardinality(locks) + 1
  BY <1>0, <1>1, <1>4, FS_AddElement DEF TypeOK
<1>6. TypeOK'
  BY <1>0, <1>1, <1>3, <1>5 DEF TypeOK
<1>7. Cardinality(locks) \in Nat /\ MaxLocks \in Nat
  BY <1>0, FS_CardinalityType, LockAssumption DEF TypeOK
<1>8. Decodes([locks |-> locks', nextId |-> nextId'])
  <2>1. Cardinality(locks') <= MaxLocks
    BY <1>1, <1>5, <1>7
  <2>2. \A k \in locks' : k.id < nextId'
    BY <1>1, <1>3, <1>4
  <2>3. \A j, k \in locks' : j.id = k.id => j = k
    BY <1>0, <1>1, <1>3, <1>4 DEF EveryTailDecodes, Decodes
  <2> QED
    BY <2>1, <2>2, <2>3 DEF Decodes
<1>9. \A k \in locks' :
        \/ \E m \in locks : /\ k.id = m.id /\ k.amount <= m.amount
                            /\ [m EXCEPT !.amount = k.amount] = k
        \/ nextId <= k.id
  <2>1. \A k \in locks : k \in Lock
    BY <1>0 DEF TypeOK
  <2>2. \A k \in locks : k.amount <= k.amount /\ [k EXCEPT !.amount = k.amount] = k
    BY <2>1 DEF Lock
  <2> QED
    BY <1>1, <1>3, <2>2
<1>10. net' \subseteq net /\ view' = view /\ nextId <= nextId' /\ slot <= slot'
  BY <1>0, <1>1, <1>3 DEF TypeOK
<1> QED
  BY <1>6, <1>8, <1>9, <1>10, KeepIdsInv

LEMMA LandSpendIdsInv ==
  ASSUME IdsInv, NEW x \in net, x.kind = "spend", LandSpend(x),
         net' = net \ {x}, UNCHANGED clients
  PROVE  IdsInv'
<1> DEFINE own == {l \in locks : Binds(l) /\ l.asset = x.asset /\ l.role = x.role}
<1>0. TypeOK /\ EveryTailDecodes
  BY DEF IdsInv
<1>1. PICK left \in [own -> 0 .. MaxBalance] :
        /\ \A l \in own : left[l] <= l.amount
        /\ locks' = {[l EXCEPT !.amount = IF l \in own THEN left[l] ELSE @] : l \in locks}
  BY DEF LandSpend
<1>2. /\ x.amount <= balance[x.asset]
      /\ balance' = [balance EXCEPT ![x.asset] = @ - x.amount]
      /\ quiet' \subseteq quiet /\ clean' \subseteq clean
      /\ UNCHANGED <<nextId, slot, view, funds, calls>>
  BY DEF LandSpend, Disturb, clients
<1> DEFINE captured(l) == [l EXCEPT !.amount = IF l \in own THEN left[l] ELSE @]
<1>3. ASSUME NEW l \in locks
      PROVE  /\ captured(l) \in Lock /\ captured(l).id = l.id
             /\ captured(l).amount <= l.amount
             /\ [l EXCEPT !.amount = captured(l).amount] = captured(l)
  <2>1. l \in Lock
    BY <1>0 DEF TypeOK
  <2>2. (IF l \in own THEN left[l] ELSE l.amount) \in Nat
    BY <1>1, <2>1, LockAssumption DEF Lock
  <2>3. (IF l \in own THEN left[l] ELSE l.amount) <= l.amount
    BY <1>1, <2>1 DEF Lock
  <2> HIDE DEF own
  <2> QED
    BY <2>1, <2>2, <2>3 DEF Lock
<1>4. locks' = {captured(l) : l \in locks}
  BY <1>1
<1> HIDE DEF captured, own
<1>5. IsFiniteSet(locks') /\ Cardinality(locks') <= Cardinality(locks)
  <2> DEFINE f == [l \in locks |-> captured(l)]
  <2>1. f \in Surjection(locks, locks')
    BY <1>4 DEF Surjection
  <2> QED
    BY <1>0, <2>1, FS_Surjection DEF TypeOK
<1>6. locks' \subseteq Lock
  BY <1>3, <1>4
<1>7. balance' \in [Asset -> Nat]
  <2>1. x \in Spending
    BY <1>0 DEF TypeOK, Adding, Removing
  <2> QED
    BY <1>0, <1>2, <2>1 DEF TypeOK, Spending
<1>8. TypeOK'
  BY <1>0, <1>2, <1>5, <1>6, <1>7 DEF TypeOK
<1>9. Cardinality(locks) \in Nat /\ Cardinality(locks') \in Nat /\ MaxLocks \in Nat
  BY <1>0, <1>5, FS_CardinalityType, LockAssumption DEF TypeOK
<1>10. Decodes([locks |-> locks', nextId |-> nextId'])
  <2>1. Cardinality(locks') <= MaxLocks
    BY <1>0, <1>5, <1>9 DEF EveryTailDecodes, Decodes
  <2>2. \A k \in locks' : k.id < nextId'
    BY <1>0, <1>2, <1>3, <1>4 DEF EveryTailDecodes, Decodes
  <2>3. \A j, k \in locks' : j.id = k.id => j = k
    BY <1>0, <1>3, <1>4 DEF EveryTailDecodes, Decodes
  <2> QED
    BY <2>1, <2>2, <2>3 DEF Decodes
<1>11. \A k \in locks' : \E l \in locks :
         /\ k.id = l.id /\ k.amount <= l.amount /\ [l EXCEPT !.amount = k.amount] = k
  BY <1>3, <1>4
<1>12. net' \subseteq net /\ view' = view /\ nextId <= nextId' /\ slot <= slot'
  BY <1>0, <1>2 DEF TypeOK
<1> QED
  BY <1>8, <1>10, <1>11, <1>12, KeepIdsInv

LEMMA LandRemoveIdsInv ==
  ASSUME IdsInv, NEW x \in net, LandRemove(x), net' = net \ {x}, UNCHANGED clients
  PROVE  IdsInv'
<1>0. TypeOK /\ EveryTailDecodes
  BY DEF IdsInv
<1>1. PICK l \in locks : locks' = locks \ {l}
  BY DEF LandRemove
<1>2. UNCHANGED <<nextId, balance, slot, quiet, clean, view, funds, calls>>
  BY DEF LandRemove, clients
<1>3. IsFiniteSet(locks') /\ Cardinality(locks') <= Cardinality(locks)
  BY <1>0, <1>1, FS_Subset DEF TypeOK
<1>4. TypeOK'
  BY <1>0, <1>1, <1>2, <1>3 DEF TypeOK
<1>5. Cardinality(locks) \in Nat /\ Cardinality(locks') \in Nat /\ MaxLocks \in Nat
  BY <1>0, <1>3, FS_CardinalityType, LockAssumption DEF TypeOK
<1>6. Decodes([locks |-> locks', nextId |-> nextId'])
  BY <1>0, <1>1, <1>2, <1>3, <1>5 DEF EveryTailDecodes, Decodes
<1>7. \A k \in locks' : \E m \in locks :
        /\ k.id = m.id /\ k.amount <= m.amount /\ [m EXCEPT !.amount = k.amount] = k
  <2>1. \A k \in locks : k.amount <= k.amount /\ [k EXCEPT !.amount = k.amount] = k
    BY <1>0 DEF TypeOK, Lock
  <2> QED
    BY <1>1, <2>1
<1>8. net' \subseteq net /\ view' = view /\ nextId <= nextId' /\ slot <= slot'
  BY <1>0, <1>2 DEF TypeOK
<1> QED
  BY <1>4, <1>6, <1>7, <1>8, KeepIdsInv

LEMMA ClusterIdsInv ==
  ASSUME IdsInv, (\E a \in Asset : Deposit(a)) \/ Tick
  PROVE  IdsInv'
<1>0. TypeOK /\ EveryTailDecodes
  BY DEF IdsInv
<1>1. /\ UNCHANGED <<locks, nextId, view, funds, calls, net, quiet, clean>>
      /\ balance' \in [Asset -> Nat] /\ slot' \in Nat /\ slot <= slot'
  BY <1>0 DEF TypeOK, Deposit, Tick, clients
<1>2. TypeOK'
  BY <1>0, <1>1 DEF TypeOK
<1>3. Decodes([locks |-> locks', nextId |-> nextId'])
  BY <1>0, <1>1 DEF EveryTailDecodes
<1>4. \A k \in locks' : \E m \in locks :
        /\ k.id = m.id /\ k.amount <= m.amount /\ [m EXCEPT !.amount = k.amount] = k
  <2>1. \A k \in locks : k.amount <= k.amount /\ [k EXCEPT !.amount = k.amount] = k
    BY <1>0 DEF TypeOK, Lock
  <2> QED
    BY <1>1, <2>1
<1> QED
  BY <1>0, <1>1, <1>2, <1>3, <1>4, KeepIdsInv DEF TypeOK

-----------------------------------------------------------------------------
LEMMA NextIdsInv ==
  ASSUME IdsInv, [Next]_vars
  PROVE  IdsInv'
<1>1. CASE UNCHANGED vars
  BY <1>1 DEF vars, IdsInv, TypeOK, EveryTailDecodes, Decodes, Sightings, Sighted,
              PrunesAreInactive
<1>2. ASSUME NEW x \in net, Land(x) PROVE IdsInv'
  <2>1. net' = net \ {x} /\ UNCHANGED clients
    BY <1>2 DEF Land
  <2>2. CASE x.kind = "add"
    BY <1>2, <2>1, <2>2, LandAddIdsInv DEF Land
  <2>3. CASE x.kind = "spend"
    BY <1>2, <2>1, <2>3, LandSpendIdsInv DEF Land
  <2>4. CASE x.kind \notin {"add", "spend"}
    BY <1>2, <2>1, <2>4, LandRemoveIdsInv DEF Land
  <2> QED
    BY <2>2, <2>3, <2>4
<1> QED
  BY <1>1, <1>2, ClientIdsInv, ClusterIdsInv DEF Next

-----------------------------------------------------------------------------
(* What is reserved: sums of amounts.                                      *)

Amounts(S) == MapThenSumSet(LAMBDA l : l.amount, S)
HeldLocks(a, R) == {l \in locks : Binds(l) /\ l.asset = a /\ l.role \in R}
ReservedLocks(ls, a, r, s) == {l \in ls : IsActive(l, s) /\ l.role # r /\ l.asset = a}

LEMMA AmountsIsTotal ==
  ASSUME NEW S, IsFiniteSet(S)
  PROVE  Amounts(S) = Total([l \in S |-> l.amount], S)
<1> DEFINE w == [l \in S |-> l.amount]
           By(it) == it = [s \in SUBSET S |->
                             IF s = {} THEN 0
                             ELSE (CHOOSE x \in s : TRUE).amount
                                  + it[s \ {CHOOSE x \in s : TRUE}]]
           c == CHOOSE it : By(it)
<1>1. Amounts(S) = c[S]
  BY DEF Amounts, MapThenSumSet, MapThenFoldSet
<1>2. PICK i : SumBy(i, w, S) /\ \A T \in SUBSET S : Total(w, T) = i[T]
  BY TotalIsSumBy
<1>3. \A s \in SUBSET S : s # {} =>
        w[CHOOSE x \in s : TRUE] = (CHOOSE x \in s : TRUE).amount
  OBVIOUS
<1>4. \A it : SumBy(it, w, S) <=> By(it)
  BY <1>3 DEF SumBy
<1> HIDE DEF By, w
<1>5. By(c)
  BY <1>2, <1>4, Zenon
<1>6. SumBy(c, w, S)
  BY <1>4, <1>5
<1> HIDE DEF c
<1>7. c[S] = i[S]
  BY <1>2, <1>6, SumByAgree
<1> QED
  BY <1>1, <1>2, <1>7 DEF w

LEMMA AmountsType ==
  ASSUME NEW S, IsFiniteSet(S), S \subseteq Lock
  PROVE  Amounts(S) \in Nat
<1> DEFINE w == [l \in S |-> l.amount]
<1>1. \A l \in S : w[l] \in Nat
  BY DEF Lock
<1> HIDE DEF w
<1>2. Total(w, S) \in Nat
  BY <1>1, TotalType
<1> QED
  BY <1>2, AmountsIsTotal DEF w

(* Locks that are all found again, by their ids, with as much or more, do  *)
(* not amount to more.                                                     *)
LEMMA AmountsById ==
  ASSUME NEW S, IsFiniteSet(S), S \subseteq Lock, \A k, l \in S : k.id = l.id => k = l,
         NEW V, IsFiniteSet(V), V \subseteq Lock,
         \A k \in S : \E l \in V : l.id = k.id /\ k.amount <= l.amount
  PROVE  Amounts(S) <= Amounts(V)
<1> DEFINE w == [l \in S |-> l.amount]
           v == [l \in V |-> l.amount]
           f == [k \in S |-> CHOOSE l \in V : l.id = k.id /\ k.amount <= l.amount]
<1>1. f \in [S -> V] /\ \A k \in S : f[k].id = k.id /\ k.amount <= f[k].amount
  OBVIOUS
<1>2. (\A l \in S : w[l] \in Nat) /\ (\A l \in V : v[l] \in Nat)
  BY DEF Lock
<1>3. \A k \in S : w[k] <= v[f[k]]
  BY <1>1
<1>4. \A k, l \in S : f[k] = f[l] => k = l
  BY <1>1
<1> HIDE DEF f, w, v
<1>5. Total(w, S) <= Total(v, V)
  BY <1>1, <1>2, <1>3, <1>4, TotalInjected
<1> QED
  BY <1>5, AmountsIsTotal DEF w, v

LEMMA HeldIsAmounts ==
  /\ \A a, R : Held(a, R) = Amounts(HeldLocks(a, R))
  /\ \A ls, a, r, s : ReservedAmount(ls, a, r, s) = Amounts(ReservedLocks(ls, a, r, s))
BY DEF Held, ReservedAmount, Amounts, HeldLocks, ReservedLocks

HeldAreAmounts == \A a, R : Held(a, R) = Amounts(HeldLocks(a, R))

LEMMA HeldIsAmountsNext == \A a, R : Held(a, R)' = Amounts(HeldLocks(a, R)')
<1>1. HeldAreAmounts
  BY HeldIsAmounts DEF HeldAreAmounts
<1>2. HeldAreAmounts'
  BY <1>1, PTL
<1>3. ASSUME NEW a, NEW R PROVE Held(a, R)' = Amounts(HeldLocks(a, R))'
  BY <1>2 DEF HeldAreAmounts
<1> QED
  BY <1>3

LEMMA HeldTypes ==
  ASSUME TypeOK, NEW a, NEW R
  PROVE  /\ HeldLocks(a, R) \subseteq locks /\ HeldLocks(a, R) \subseteq Lock
         /\ IsFiniteSet(HeldLocks(a, R)) /\ Held(a, R) \in Nat
<1>1. HeldLocks(a, R) \subseteq locks /\ locks \subseteq Lock /\ IsFiniteSet(locks)
  BY DEF HeldLocks, TypeOK
<1>2. IsFiniteSet(HeldLocks(a, R))
  BY <1>1, FS_Subset
<1> QED
  BY <1>1, <1>2, AmountsType, HeldIsAmounts

LEMMA ReservedTypes ==
  ASSUME NEW ls, ls \subseteq Lock, IsFiniteSet(ls), NEW a, NEW r, NEW s
  PROVE  /\ ReservedLocks(ls, a, r, s) \subseteq Lock
         /\ IsFiniteSet(ReservedLocks(ls, a, r, s)) /\ ReservedAmount(ls, a, r, s) \in Nat
<1>1. ReservedLocks(ls, a, r, s) \subseteq ls
  BY DEF ReservedLocks
<1>2. IsFiniteSet(ReservedLocks(ls, a, r, s))
  BY <1>1, FS_Subset
<1> QED
  BY <1>1, <1>2, AmountsType, HeldIsAmounts

(* What a quiet client must leave by its view is no less than what the     *)
(* program asks for.                                                       *)
LEMMA ViewCoversHeld ==
  ASSUME IdsInv, FundsInv, NEW r \in Role, NEW a \in Asset, <<r, a>> \in quiet
  PROVE  OthersHeld(a, r) <= ReservedAmount(view[r].locks, a, r, slot)
<1> DEFINE S == HeldLocks(a, Role \ {r})
           V == ReservedLocks(view[r].locks, a, r, slot)
<1>0. TypeOK /\ EveryTailDecodes /\ Sightings /\ QuietViews /\ IsFiniteSet(view[r].locks)
  BY DEF IdsInv, FundsInv
<1>1. IsFiniteSet(S) /\ S \subseteq Lock /\ S \subseteq locks
  BY <1>0, HeldTypes
<1>2. view[r].locks \subseteq Lock
  BY <1>0 DEF TypeOK
<1>3. IsFiniteSet(V) /\ V \subseteq Lock
  BY <1>0, <1>2, ReservedTypes
<1>4. \A k, l \in S : k.id = l.id => k = l
  BY <1>0, <1>1 DEF EveryTailDecodes, Decodes
<1>5. ASSUME NEW k \in S PROVE \E l \in V : l.id = k.id /\ k.amount <= l.amount
  <2>1. k \in locks /\ Binds(k) /\ k.asset = a /\ k.role # r
    BY DEF HeldLocks
  <2>2. PICK l \in view[r].locks : l.id = k.id
    BY <1>0, <2>1 DEF QuietViews
  <2>3. k.amount <= l.amount /\ [l EXCEPT !.amount = k.amount] = k
    BY <1>0, <2>1, <2>2 DEF Sightings, Sighted
  <2>4. k \in Lock /\ l \in Lock
    BY <1>0, <1>2, <2>1 DEF TypeOK
  <2>5. l.asset = k.asset /\ l.expiry = k.expiry /\ l.role = k.role
    BY <2>3, <2>4 DEF Lock
  <2>6. IsActive(l, slot)
    BY <1>0, <2>1, <2>3, <2>4, <2>5 DEF Binds, IsActive, Lock, TypeOK
  <2> QED
    BY <2>1, <2>2, <2>3, <2>5, <2>6 DEF ReservedLocks
<1> HIDE DEF S, V
<1>6. Amounts(S) <= Amounts(V)
  BY <1>1, <1>3, <1>4, <1>5, AmountsById
<1> QED
  BY <1>6, HeldIsAmounts DEF S, V, OthersHeld

(* What the others hold of an asset does not grow while their locks on it  *)
(* only lose amounts or go.                                                *)
LEMMA HeldFalls ==
  ASSUME IdsInv, TypeOK', EveryTailDecodes', slot <= slot', NEW r \in Role, NEW a \in Asset,
         \A k \in locks' : k.asset = a /\ k.role # r =>
           \E l \in locks : /\ k.id = l.id /\ k.amount <= l.amount
                            /\ [l EXCEPT !.amount = k.amount] = k
  PROVE  OthersHeld(a, r)' <= OthersHeld(a, r)
<1> DEFINE S == HeldLocks(a, Role \ {r})'
           V == HeldLocks(a, Role \ {r})
<1>0. TypeOK
  BY DEF IdsInv
<1>1. S = {l \in locks' : (l.amount # 0 /\ l.expiry > slot') /\ l.asset = a /\ l.role \in Role \ {r}}
  BY DEF HeldLocks, Binds
<1>2. S \subseteq locks' /\ IsFiniteSet(S) /\ S \subseteq Lock
  BY <1>1, FS_Subset DEF TypeOK
<1>3. IsFiniteSet(V) /\ V \subseteq Lock
  BY <1>0, HeldTypes
<1>4. \A k, l \in S : k.id = l.id => k = l
  BY <1>2 DEF EveryTailDecodes, Decodes
<1>5. ASSUME NEW k \in S PROVE \E l \in V : l.id = k.id /\ k.amount <= l.amount
  <2>1. k \in locks' /\ k.amount # 0 /\ k.expiry > slot' /\ k.asset = a /\ k.role \in Role \ {r}
    BY <1>1
  <2>2. PICK l \in locks : /\ k.id = l.id /\ k.amount <= l.amount
                           /\ [l EXCEPT !.amount = k.amount] = k
    BY <2>1
  <2>3. k \in Lock /\ l \in Lock
    BY <1>0, <1>2 DEF TypeOK
  <2>4. l.asset = k.asset /\ l.expiry = k.expiry /\ l.role = k.role
    BY <2>2, <2>3 DEF Lock
  <2>5. Binds(l)
    BY <1>0, <2>1, <2>2, <2>3, <2>4 DEF Binds, Lock, TypeOK
  <2> QED
    BY <2>1, <2>2, <2>4, <2>5 DEF HeldLocks
<1> HIDE DEF S, V
<1>6. Amounts(S) <= Amounts(V)
  BY <1>2, <1>3, <1>4, <1>5, AmountsById
<1>7. OthersHeld(a, r)' = Amounts(S)
  BY HeldIsAmountsNext DEF OthersHeld, S
<1> QED
  BY <1>6, <1>7, HeldIsAmounts DEF V, OthersHeld

(* What spending takes from the locks it captures.                         *)
Captured(left, S) == MapThenSumSet(LAMBDA l : l.amount - left[l], S)

LEMMA CapturedIsTotal ==
  ASSUME NEW S, IsFiniteSet(S), NEW left
  PROVE  Captured(left, S) = Total([l \in S |-> l.amount - left[l]], S)
<1> DEFINE w == [l \in S |-> l.amount - left[l]]
           By(it) == it = [s \in SUBSET S |->
                             IF s = {} THEN 0
                             ELSE (CHOOSE x \in s : TRUE).amount
                                    - left[CHOOSE x \in s : TRUE]
                                  + it[s \ {CHOOSE x \in s : TRUE}]]
           c == CHOOSE it : By(it)
<1>1. Captured(left, S) = c[S]
  BY DEF Captured, MapThenSumSet, MapThenFoldSet
<1>2. PICK i : SumBy(i, w, S) /\ \A T \in SUBSET S : Total(w, T) = i[T]
  BY TotalIsSumBy
<1>3. \A s \in SUBSET S : s # {} =>
        w[CHOOSE x \in s : TRUE] = (CHOOSE x \in s : TRUE).amount
                                     - left[CHOOSE x \in s : TRUE]
  OBVIOUS
<1>4. \A it : SumBy(it, w, S) <=> By(it)
  BY <1>3 DEF SumBy
<1> HIDE DEF By, w
<1>5. By(c)
  BY <1>2, <1>4, Zenon
<1>6. SumBy(c, w, S)
  BY <1>4, <1>5
<1> HIDE DEF c
<1>7. c[S] = i[S]
  BY <1>2, <1>6, SumByAgree
<1> QED
  BY <1>1, <1>2, <1>7 DEF w

(* Capturing from some of the locks of a set lowers what the set amounts   *)
(* to by what is captured, or more if locks go.                            *)
LEMMA CapturedFalls ==
  ASSUME NEW B, IsFiniteSet(B), B \subseteq Lock,
         NEW own \in SUBSET B, NEW left,
         \A l \in own : left[l] \in Nat /\ left[l] <= l.amount,
         NEW C, IsFiniteSet(C), C \subseteq Lock, \A k, l \in C : k.id = l.id => k = l,
         \A k \in C : \E l \in B :
           k.id = l.id /\ k.amount = IF l \in own THEN left[l] ELSE l.amount
  PROVE  Amounts(C) + Captured(left, own) <= Amounts(B)
<1> DEFINE rest == [l \in B |-> IF l \in own THEN left[l] ELSE l.amount]
           gone == [l \in B |-> IF l \in own THEN l.amount - left[l] ELSE 0]
           all  == [l \in B |-> l.amount]
           cut  == [l \in own |-> l.amount - left[l]]
           new  == [k \in C |-> k.amount]
           f == [k \in C |-> CHOOSE l \in B :
                   k.id = l.id /\ k.amount = IF l \in own THEN left[l] ELSE l.amount]
<1>0. IsFiniteSet(own) /\ IsFiniteSet(B \ own)
  BY FS_Subset
<1>1. \A l \in B : rest[l] \in Nat /\ gone[l] \in Nat /\ all[l] = rest[l] + gone[l]
  <2> SUFFICES ASSUME NEW l \in B
               PROVE  rest[l] \in Nat /\ gone[l] \in Nat /\ all[l] = rest[l] + gone[l]
    OBVIOUS
  <2>1. l.amount \in Nat
    BY DEF Lock
  <2>2. CASE l \in own
    BY <2>1, <2>2
  <2>3. CASE l \notin own
    BY <2>1, <2>3
  <2> QED
    BY <2>2, <2>3
<1>2. \A l \in B \ own : gone[l] = 0
  OBVIOUS
<1>3. \A l \in own : gone[l] = cut[l]
  OBVIOUS
<1>4. f \in [C -> B] /\ \A k \in C : k.id = f[k].id /\ new[k] = rest[f[k]]
  OBVIOUS
<1>5. \A k \in C : new[k] \in Nat
  BY DEF Lock
<1>6. \A k, l \in C : f[k] = f[l] => k = l
  BY <1>4
<1>7. \A k \in C : new[k] <= rest[f[k]]
  BY <1>4, <1>5
<1>8. Amounts(C) = Total(new, C) /\ Amounts(B) = Total(all, B)
      /\ Captured(left, own) = Total(cut, own)
  BY <1>0, AmountsIsTotal, CapturedIsTotal
<1> HIDE DEF rest, gone, all, cut, new, f
<1>9. Total(new, C) <= Total(rest, B)
  BY <1>1, <1>4, <1>5, <1>6, <1>7, TotalInjected
<1>10. Total(all, B) = Total(rest, B) + Total(gone, B)
  BY <1>1, TotalAdd
<1>11. Total(gone, B) = Total(gone, own) + Total(gone, B \ own)
  BY <1>1, TotalSplit
<1>12. Total(gone, B \ own) = 0
  BY <1>0, <1>2, TotalZero
<1>13. Total(gone, own) = Total(cut, own)
  BY <1>0, <1>3, TotalEqual
<1>14. Total(new, C) \in Nat /\ Total(rest, B) \in Nat /\ Total(gone, own) \in Nat
  BY <1>0, <1>1, <1>5, TotalType
<1> QED
  BY <1>8, <1>9, <1>10, <1>11, <1>12, <1>13, <1>14

LEMMA HeldTypesNext ==
  ASSUME TypeOK', NEW a, NEW R
  PROVE  /\ HeldLocks(a, R)' = {l \in locks' : Binds(l)' /\ l.asset = a /\ l.role \in R}
         /\ HeldLocks(a, R)' \subseteq Lock /\ IsFiniteSet(HeldLocks(a, R)')
         /\ Held(a, R)' \in Nat
<1>1. HeldLocks(a, R)' = {l \in locks' : Binds(l)' /\ l.asset = a /\ l.role \in R}
  BY DEF HeldLocks
<1> DEFINE S == HeldLocks(a, R)'
<1>2. S \subseteq locks' /\ locks' \subseteq Lock /\ IsFiniteSet(locks')
  BY <1>1 DEF TypeOK
<1> HIDE DEF S
<1>3. S \subseteq Lock /\ IsFiniteSet(S)
  BY <1>2, FS_Subset
<1>4. Amounts(S) \in Nat
  BY <1>3, AmountsType
<1> QED
  BY <1>1, <1>3, <1>4, HeldIsAmountsNext DEF S

LEMMA HeldSame ==
  ASSUME locks' = locks, slot' = slot, NEW a, NEW r
  PROVE  OthersHeld(a, r)' = OthersHeld(a, r)
<1>1. HeldLocks(a, Role \ {r})' = HeldLocks(a, Role \ {r})
  BY DEF HeldLocks, Binds
<1> QED
  BY <1>1, HeldIsAmounts, HeldIsAmountsNext DEF OthersHeld

(* A step after which what is still quiet has lost nothing to the others.  *)
LEMMA KeepFundsInv ==
  ASSUME IdsInv, FundsInv, IdsInv', UNCHANGED <<view, funds>>,
         quiet' \subseteq quiet, clean' \subseteq clean,
         \A r \in Role, a \in Asset :
           <<r, a>> \in quiet' \/ (\E y \in clean' : y.role = r /\ y.asset = a) =>
             OthersHeld(a, r)' + balance[a] <= OthersHeld(a, r) + balance'[a],
         \A r \in Role, a \in Asset : <<r, a>> \in quiet' =>
           \A k \in locks' : k.asset = a /\ k.role # r =>
             \E l \in locks : l.id = k.id /\ l.asset = a /\ l.role = k.role
  PROVE  FundsInv'
<1>0. TypeOK /\ TypeOK' /\ QuietViews /\ QuietFunds /\ AvailableIsAccepted
  BY DEF IdsInv, FundsInv
<1>1. (\A r \in Role : IsFiniteSet(view[r].locks))'
  BY DEF FundsInv
<1>2. QuietViews'
  BY <1>0 DEF QuietViews
<1>3. \A r \in Role, a \in Asset :
        /\ OthersHeld(a, r) \in Nat /\ OthersHeld(a, r)' \in Nat
        /\ balance[a] \in Nat /\ balance'[a] \in Nat
  <2>1. \A r \in Role, a \in Asset : OthersHeld(a, r) \in Nat /\ OthersHeld(a, r)' \in Nat
    BY <1>0, HeldTypes, HeldTypesNext DEF OthersHeld
  <2>2. \A a \in Asset : balance[a] \in Nat /\ balance'[a] \in Nat
    BY <1>0 DEF TypeOK
  <2> QED
    BY <2>1, <2>2
<1>4. QuietFunds'
  <2> SUFFICES ASSUME NEW r \in Role, NEW a \in Asset, <<r, a>> \in quiet',
                      funds[r] # NoBalance
               PROVE  funds[r].of[a] + OthersHeld(a, r)'
                        <= balance'[a] + ReservedAmount(view[r].locks, a, r, funds[r].at)
    BY DEF QuietFunds
  <2>1. funds[r].of[a] \in Nat
    BY <1>0 DEF TypeOK, Funds
  <2>2. ReservedAmount(view[r].locks, a, r, funds[r].at) \in Nat
    BY <1>0, ReservedTypes DEF TypeOK, FundsInv
  <2>3. funds[r].of[a] + OthersHeld(a, r)
          <= balance[a] + ReservedAmount(view[r].locks, a, r, funds[r].at)
    BY <1>0 DEF QuietFunds
  <2>4. OthersHeld(a, r)' + balance[a] <= OthersHeld(a, r) + balance'[a]
    OBVIOUS
  <2> QED
    BY <1>3, <2>1, <2>2, <2>3, <2>4
<1>5. AvailableIsAccepted'
  <2> SUFFICES ASSUME NEW x \in clean'
               PROVE  x.amount + OthersHeld(x.asset, x.role)' <= balance'[x.asset]
    BY DEF AvailableIsAccepted
  <2>1. x.role \in Role /\ x.asset \in Asset /\ x.amount \in Nat
    BY <1>0 DEF TypeOK, Spending
  <2>2. x.amount + OthersHeld(x.asset, x.role) <= balance[x.asset]
    BY <1>0 DEF AvailableIsAccepted
  <2>3. OthersHeld(x.asset, x.role)' + balance[x.asset]
          <= OthersHeld(x.asset, x.role) + balance'[x.asset]
    BY <2>1
  <2> QED
    BY <1>3, <2>1, <2>2, <2>3
<1> QED
  BY <1>1, <1>2, <1>4, <1>5 DEF FundsInv

(* The others' locks on an asset only lose amounts or go, and its balance  *)
(* does not fall.                                                          *)
LEMMA HeldFallsNoSpend ==
  ASSUME IdsInv, IdsInv', slot <= slot', NEW r \in Role, NEW a \in Asset,
         \A k \in locks' : k.asset = a /\ k.role # r => k \in locks,
         balance[a] <= balance'[a]
  PROVE  OthersHeld(a, r)' + balance[a] <= OthersHeld(a, r) + balance'[a]
<1>0. TypeOK /\ TypeOK' /\ EveryTailDecodes'
  BY DEF IdsInv
<1>1. \A k \in locks' : k.asset = a /\ k.role # r =>
        \E l \in locks : /\ k.id = l.id /\ k.amount <= l.amount
                         /\ [l EXCEPT !.amount = k.amount] = k
  BY <1>0 DEF TypeOK, Lock
<1>2. OthersHeld(a, r)' <= OthersHeld(a, r)
  BY <1>0, <1>1, HeldFalls
<1>3. OthersHeld(a, r) \in Nat /\ OthersHeld(a, r)' \in Nat
  BY <1>0, HeldTypes, HeldTypesNext DEF OthersHeld
<1> QED
  BY <1>0, <1>2, <1>3 DEF TypeOK

LEMMA LandAddFunds ==
  ASSUME IdsInv, FundsInv, IdsInv', NEW x \in net, x.kind = "add", LandAdd(x),
         UNCHANGED clients
  PROVE  FundsInv'
<1> DEFINE new == [asset |-> x.asset, amount |-> x.amount, expiry |-> x.expiry,
                   role |-> x.role, id |-> nextId]
<1>0. TypeOK
  BY DEF IdsInv
<1>1. /\ locks' = locks \cup {new}
      /\ quiet' = quiet \ ((Role \ {x.role}) \X {x.asset})
      /\ clean' = {y \in clean : y.asset = x.asset => y.role \notin Role \ {x.role}}
      /\ UNCHANGED <<balance, slot, view, funds>>
  BY DEF LandAdd, Disturb, clients
<1>2. new.asset = x.asset /\ new.role = x.role
  OBVIOUS
<1> HIDE DEF new
<1>3. ASSUME NEW r \in Role, NEW a \in Asset,
             <<r, a>> \in quiet' \/ (\E y \in clean' : y.role = r /\ y.asset = a)
      PROVE  \A k \in locks' : k.asset = a /\ k.role # r => k \in locks
  BY <1>1, <1>2, <1>3
<1>4. \A r \in Role, a \in Asset :
        <<r, a>> \in quiet' \/ (\E y \in clean' : y.role = r /\ y.asset = a) =>
          OthersHeld(a, r)' + balance[a] <= OthersHeld(a, r) + balance'[a]
  BY <1>0, <1>1, <1>3, HeldFallsNoSpend DEF TypeOK
<1>5. \A r \in Role, a \in Asset : <<r, a>> \in quiet' =>
        \A k \in locks' : k.asset = a /\ k.role # r =>
          \E l \in locks : l.id = k.id /\ l.asset = a /\ l.role = k.role
  BY <1>3
<1> QED
  BY <1>1, <1>4, <1>5, KeepFundsInv

LEMMA LandSpendFunds ==
  ASSUME IdsInv, FundsInv, IdsInv', NEW x \in net, x.kind = "spend", LandSpend(x),
         UNCHANGED clients
  PROVE  FundsInv'
<1> DEFINE own == {l \in locks : Binds(l) /\ l.asset = x.asset /\ l.role = x.role}
           held == Held(x.asset, {x.role})
           left0(left, l) == IF l \in own THEN left[l] ELSE l.amount
<1>0. TypeOK /\ TypeOK' /\ EveryTailDecodes' /\ x \in Spending
  BY DEF IdsInv, TypeOK, Adding, Removing
<1>1. PICK left \in [own -> 0 .. MaxBalance] :
        /\ \A l \in own : left[l] <= l.amount
        /\ Captured(left, own) = IF x.amount <= held THEN x.amount ELSE held
        /\ locks' = {[l EXCEPT !.amount = IF l \in own THEN left[l] ELSE @] : l \in locks}
  BY DEF LandSpend, Captured
<1>2. /\ x.amount <= balance[x.asset]
      /\ balance' = [balance EXCEPT ![x.asset] = @ - x.amount]
      /\ Disturb(x.asset, IF x.amount <= held THEN {x.role} ELSE Role)
      /\ UNCHANGED <<slot, view, funds>>
  BY DEF LandSpend, clients
<1> HIDE DEF held
<1>3. \A k \in locks' : \E l \in locks :
        /\ k.id = l.id /\ k.asset = l.asset /\ k.role = l.role /\ k.expiry = l.expiry
        /\ k.amount = left0(left, l) /\ k.amount <= l.amount
        /\ [l EXCEPT !.amount = k.amount] = k
  <2> SUFFICES ASSUME NEW l \in locks,
                      NEW k, k = [l EXCEPT !.amount = IF l \in own THEN left[l] ELSE @]
               PROVE  /\ k.id = l.id /\ k.asset = l.asset /\ k.role = l.role
                      /\ k.expiry = l.expiry /\ k.amount = left0(left, l)
                      /\ k.amount <= l.amount /\ [l EXCEPT !.amount = k.amount] = k
    BY <1>1
  <2>1. l \in Lock /\ l.amount \in Nat
    BY <1>0 DEF TypeOK, Lock
  <2>2. left0(left, l) \in Nat /\ left0(left, l) <= l.amount
    BY <1>1, <2>1, LockAssumption
  <2>3. k = [l EXCEPT !.amount = left0(left, l)]
    BY <2>1 DEF Lock
  <2> HIDE DEF own, left0
  <2> QED
    BY <2>1, <2>2, <2>3 DEF Lock
<1>4. \A l \in own : left[l] \in Nat /\ left[l] <= l.amount
  BY <1>1, LockAssumption
<1>5. \A a \in Asset : a # x.asset => balance'[a] = balance[a]
  BY <1>0, <1>2 DEF TypeOK
<1>6. ASSUME NEW r \in Role, r # x.role, x.amount <= held
      PROVE  OthersHeld(x.asset, r)' + x.amount <= OthersHeld(x.asset, r)
  <2> DEFINE B == HeldLocks(x.asset, Role \ {r})
             C == HeldLocks(x.asset, Role \ {r})'
  <2>1. B \subseteq Lock /\ IsFiniteSet(B)
    BY <1>0, HeldTypes
  <2>2. C \subseteq Lock /\ IsFiniteSet(C)
        /\ C = {l \in locks' : Binds(l)' /\ l.asset = x.asset /\ l.role \in Role \ {r}}
    BY <1>0, HeldTypesNext
  <2>3. own \in SUBSET B
    BY <1>0, <1>6 DEF HeldLocks, Spending
  <2>4. \A k, l \in C : k.id = l.id => k = l
    BY <1>0, <2>2 DEF EveryTailDecodes, Decodes
  <2>5. ASSUME NEW k \in C
        PROVE  \E l \in B : k.id = l.id /\ k.amount = left0(left, l)
    <3>1. k \in locks' /\ Binds(k)' /\ k.asset = x.asset /\ k.role \in Role \ {r}
      BY <2>2
    <3>2. PICK l \in locks :
             /\ k.id = l.id /\ k.asset = l.asset /\ k.role = l.role /\ k.expiry = l.expiry
             /\ k.amount = left0(left, l) /\ k.amount <= l.amount
      BY <1>3, <3>1
    <3>3. l \in Lock /\ k \in Lock
      BY <1>0, <3>1 DEF TypeOK
    <3> HIDE DEF left0
    <3>4. Binds(l)
      BY <1>2, <3>1, <3>2, <3>3 DEF Binds, Lock
    <3> QED
      BY <3>1, <3>2, <3>4 DEF HeldLocks
  <2> HIDE DEF B, C, own
  <2>6. Amounts(C) + Captured(left, own) <= Amounts(B)
    BY <1>4, <2>1, <2>2, <2>3, <2>4, <2>5, CapturedFalls
  <2>7. Captured(left, own) = x.amount
    BY <1>1, <1>6
  <2> QED
    BY <2>6, <2>7, HeldIsAmounts, HeldIsAmountsNext DEF B, C, OthersHeld
<1>7. ASSUME NEW r \in Role, NEW a \in Asset,
             <<r, a>> \in quiet' \/ (\E y \in clean' : y.role = r /\ y.asset = a)
      PROVE  OthersHeld(a, r)' + balance[a] <= OthersHeld(a, r) + balance'[a]
  <2>1. OthersHeld(a, r) \in Nat /\ OthersHeld(a, r)' \in Nat
    BY <1>0, HeldTypes, HeldTypesNext DEF OthersHeld
  <2>2. CASE a = x.asset
    <3>1. r # x.role /\ x.amount <= held
      BY <1>2, <1>7, <2>2 DEF Disturb
    <3>2. OthersHeld(a, r)' + x.amount <= OthersHeld(a, r)
      BY <1>6, <2>2, <3>1
    <3>3. balance'[a] = balance[a] - x.amount /\ balance[a] \in Nat /\ x.amount \in Nat
      BY <1>0, <1>2, <2>2 DEF TypeOK, Spending
    <3> QED
      BY <2>1, <3>2, <3>3
  <2>3. CASE a # x.asset
    <3>1. OthersHeld(a, r)' <= OthersHeld(a, r)
      <4>1. slot <= slot'
        BY <1>0, <1>2 DEF TypeOK
      <4> QED
        BY <1>0, <1>3, <4>1, HeldFalls
    <3> QED
      BY <1>0, <1>5, <2>1, <2>3, <3>1 DEF TypeOK
  <2> QED
    BY <2>2, <2>3
<1>8. quiet' \subseteq quiet /\ clean' \subseteq clean
  BY <1>2 DEF Disturb
<1>9. \A r \in Role, a \in Asset : <<r, a>> \in quiet' =>
        \A k \in locks' : k.asset = a /\ k.role # r =>
          \E l \in locks : l.id = k.id /\ l.asset = a /\ l.role = k.role
  BY <1>3
<1> QED
  BY <1>2, <1>7, <1>8, <1>9, KeepFundsInv

(* Removals, deposits and slots that pass.                                 *)
LEMMA GiveFunds ==
  ASSUME IdsInv, FundsInv, IdsInv', locks' \subseteq locks, slot <= slot',
         \A a \in Asset : balance[a] <= balance'[a],
         UNCHANGED <<view, funds, quiet, clean>>
  PROVE  FundsInv'
<1>1. \A r \in Role, a \in Asset :
        OthersHeld(a, r)' + balance[a] <= OthersHeld(a, r) + balance'[a]
  BY HeldFallsNoSpend
<1>2. \A r \in Role, a \in Asset : <<r, a>> \in quiet' =>
        \A k \in locks' : k.asset = a /\ k.role # r =>
          \E l \in locks : l.id = k.id /\ l.asset = a /\ l.role = k.role
  OBVIOUS
<1> QED
  BY <1>1, <1>2, KeepFundsInv

LEMMA LandRemoveFunds ==
  ASSUME IdsInv, FundsInv, IdsInv', NEW x \in net, LandRemove(x), UNCHANGED clients
  PROVE  FundsInv'
<1>1. locks' \subseteq locks /\ UNCHANGED <<balance, slot, view, funds, quiet, clean>>
  BY DEF LandRemove, clients
<1>2. slot <= slot' /\ \A a \in Asset : balance[a] <= balance'[a]
  BY <1>1 DEF IdsInv, TypeOK
<1> QED
  BY <1>1, <1>2, GiveFunds

LEMMA ClusterFunds ==
  ASSUME IdsInv, FundsInv, IdsInv', (\E a \in Asset : Deposit(a)) \/ Tick
  PROVE  FundsInv'
<1>1. UNCHANGED <<locks, view, funds, quiet, clean>>
  BY DEF Deposit, Tick, clients
<1>2. slot <= slot' /\ \A a \in Asset : balance[a] <= balance'[a]
  BY DEF IdsInv, TypeOK, Deposit, Tick
<1> QED
  BY <1>1, <1>2, GiveFunds

-----------------------------------------------------------------------------
LEMMA RefetchFunds ==
  ASSUME IdsInv, FundsInv, NEW r \in Role, Refetch(r)
  PROVE  FundsInv'
<1>0. TypeOK /\ QuietViews /\ QuietFunds /\ AvailableIsAccepted
      /\ \A q \in Role : IsFiniteSet(view[q].locks)
  BY DEF IdsInv, FundsInv
<1>1. /\ view' = [view EXCEPT ![r] = [locks |-> locks, nextId |-> nextId]]
      /\ funds' = [funds EXCEPT ![r] = NoBalance]
      /\ quiet' = quiet \cup ({r} \X Asset)
      /\ UNCHANGED <<locks, balance, slot, clean>>
  BY DEF Refetch, chain
<1>2. /\ view'[r].locks = locks /\ funds'[r] = NoBalance
      /\ \A q \in Role : q # r => view'[q] = view[q] /\ funds'[q] = funds[q]
  BY <1>0, <1>1 DEF TypeOK
<1>3. (\A q \in Role : IsFiniteSet(view[q].locks))'
  BY <1>0, <1>2 DEF TypeOK
<1>4. QuietViews'
  BY <1>0, <1>1, <1>2 DEF QuietViews
<1>5. \A a, q : OthersHeld(a, q)' = OthersHeld(a, q)
  BY <1>1, HeldSame
<1>6. QuietFunds'
  BY <1>0, <1>1, <1>2, <1>5 DEF QuietFunds
<1>7. AvailableIsAccepted'
  BY <1>0, <1>1, <1>5 DEF AvailableIsAccepted
<1> QED
  BY <1>3, <1>4, <1>6, <1>7 DEF FundsInv

LEMMA ReadBalanceFunds ==
  ASSUME IdsInv, FundsInv, NEW r \in Role, ReadBalance(r)
  PROVE  FundsInv'
<1>0. TypeOK /\ QuietViews /\ QuietFunds /\ AvailableIsAccepted
      /\ \A q \in Role : IsFiniteSet(view[q].locks)
  BY DEF IdsInv, FundsInv
<1>1. /\ funds' = [funds EXCEPT ![r] = [of |-> balance, at |-> slot]]
      /\ UNCHANGED <<locks, balance, slot, view, quiet, clean>>
  BY DEF ReadBalance, chain
<1>2. /\ funds'[r].of = balance /\ funds'[r].at = slot
      /\ \A q \in Role : q # r => funds'[q] = funds[q]
  BY <1>0, <1>1 DEF TypeOK
<1>3. (\A q \in Role : IsFiniteSet(view[q].locks))' /\ QuietViews'
  BY <1>0, <1>1 DEF QuietViews
<1>4. \A a, q : OthersHeld(a, q)' = OthersHeld(a, q)
  BY <1>1, HeldSame
<1>5. QuietFunds'
  <2> SUFFICES ASSUME NEW q \in Role, NEW a \in Asset, <<q, a>> \in quiet,
                      funds'[q] # NoBalance
               PROVE  funds'[q].of[a] + OthersHeld(a, q)
                        <= balance[a] + ReservedAmount(view[q].locks, a, q, funds'[q].at)
    BY <1>1, <1>4 DEF QuietFunds
  <2>1. CASE q = r
    <3>1. OthersHeld(a, r) <= ReservedAmount(view[r].locks, a, r, slot)
      BY <2>1, ViewCoversHeld
    <3>2. OthersHeld(a, r) \in Nat /\ balance[a] \in Nat
      BY <1>0, HeldTypes DEF OthersHeld, TypeOK
    <3>3. ReservedAmount(view[r].locks, a, r, slot) \in Nat
      BY <1>0, ReservedTypes DEF TypeOK
    <3> QED
      BY <1>2, <2>1, <3>1, <3>2, <3>3
  <2>2. CASE q # r
    BY <1>0, <1>2, <2>2 DEF QuietFunds
  <2> QED
    BY <2>1, <2>2
<1>6. AvailableIsAccepted'
  BY <1>0, <1>1, <1>4 DEF AvailableIsAccepted
<1> QED
  BY <1>3, <1>5, <1>6 DEF FundsInv

LEMMA SignFunds ==
  ASSUME IdsInv, FundsInv, NEW r \in Role, NEW request, Sign(r, request),
         \A x \in clean' \ clean :
           x.amount + OthersHeld(x.asset, x.role) <= balance[x.asset]
  PROVE  FundsInv'
<1>0. QuietViews /\ QuietFunds /\ AvailableIsAccepted
      /\ \A q \in Role : IsFiniteSet(view[q].locks)
  BY DEF FundsInv
<1>1. UNCHANGED <<locks, balance, slot, view, funds, quiet>>
  BY DEF Sign, chain
<1>2. (\A q \in Role : IsFiniteSet(view[q].locks))' /\ QuietViews'
  BY <1>0, <1>1 DEF QuietViews
<1>3. \A a, q : OthersHeld(a, q)' = OthersHeld(a, q)
  BY <1>1, HeldSame
<1>4. QuietFunds'
  BY <1>0, <1>1, <1>3 DEF QuietFunds
<1>5. AvailableIsAccepted'
  BY <1>0, <1>1, <1>3 DEF AvailableIsAccepted
<1> QED
  BY <1>2, <1>4, <1>5 DEF FundsInv

(* What the SDK calls available to a quiet client is.                      *)
LEMMA SpendFunds ==
  ASSUME IdsInv, FundsInv, NEW r \in Role, NEW a \in Asset, NEW n \in 1 .. MaxBalance,
         NEW s \in 0 .. MaxSlot, Spend(r, a, n, s)
  PROVE  FundsInv'
<1> DEFINE x == [kind |-> "spend", role |-> r, call |-> calls[r], asset |-> a,
                 amount |-> n]
<1>0. TypeOK /\ QuietFunds
  BY DEF IdsInv, FundsInv
<1>1. /\ funds[r] # NoBalance
      /\ n <= AvailableAmount(funds[r].of[a], view[r].locks, a, r, s)
      /\ Sign(r, x)
      /\ clean' = IF <<r, a>> \in quiet /\ s = funds[r].at THEN clean \cup {x} ELSE clean
  BY DEF Spend
<1>2. x.role = r /\ x.asset = a /\ x.amount = n
  OBVIOUS
<1> HIDE DEF x
<1>3. ASSUME <<r, a>> \in quiet, s = funds[r].at
      PROVE  n + OthersHeld(a, r) <= balance[a]
  <2>1. funds[r].of[a] \in Nat /\ balance[a] \in Nat /\ n \in Nat /\ n > 0
    BY <1>0, <1>1, LockAssumption DEF TypeOK, Funds
  <2>2. ReservedAmount(view[r].locks, a, r, s) \in Nat
    BY <1>0, ReservedTypes DEF TypeOK, FundsInv
  <2>3. OthersHeld(a, r) \in Nat
    BY <1>0, HeldTypes DEF OthersHeld
  <2>4. funds[r].of[a] + OthersHeld(a, r)
          <= balance[a] + ReservedAmount(view[r].locks, a, r, s)
    BY <1>0, <1>1, <1>3 DEF QuietFunds
  <2>5. n + ReservedAmount(view[r].locks, a, r, s) <= funds[r].of[a]
    BY <1>1, <2>1, <2>2 DEF AvailableAmount
  <2> QED
    BY <2>1, <2>2, <2>3, <2>4, <2>5
<1>4. \A y \in clean' \ clean : y.amount + OthersHeld(y.asset, y.role) <= balance[y.asset]
  BY <1>1, <1>2, <1>3
<1> QED
  BY <1>1, <1>4, SignFunds

LEMMA ClientFunds ==
  ASSUME IdsInv, FundsInv, NEW r \in Role, Client(r)
  PROVE  FundsInv'
<1>1. ASSUME NEW a \in Asset, NEW n \in 1 .. MaxBalance, NEW s \in 1 .. MaxSlot + 1,
             AddAuthorizationLock(r, a, n, s)
      PROVE  FundsInv'
  <2>1. PICK x : Sign(r, x) /\ clean' = clean
    BY <1>1 DEF AddAuthorizationLock
  <2> QED
    BY <2>1, SignFunds
<1>2. ASSUME NEW l \in view[r].locks, RemoveAuthorizationLock(r, l)
      PROVE  FundsInv'
  <2>1. PICK x : Sign(r, x) /\ clean' = clean
    BY <1>2 DEF RemoveAuthorizationLock
  <2> QED
    BY <2>1, SignFunds
<1> QED
  BY <1>1, <1>2, RefetchFunds, ReadBalanceFunds, SpendFunds DEF Client

-----------------------------------------------------------------------------
LEMMA InitLocksInv == Init => LocksInv
<1> SUFFICES ASSUME Init PROVE LocksInv
  OBVIOUS
<1>1. \A r \in Role : view[r].locks = {}
  BY DEF Init
<1>2. FundsInv
  <2>1. quiet = {} /\ clean = {}
    BY DEF Init
  <2> QED
    BY <1>1, <2>1, FS_EmptySet DEF FundsInv, QuietViews, QuietFunds, AvailableIsAccepted
<1> QED
  BY <1>2, InitIdsInv DEF LocksInv

LEMMA NextLocksInv ==
  ASSUME LocksInv, [Next]_vars
  PROVE  LocksInv'
<1>0. IdsInv /\ FundsInv /\ IdsInv'
  BY NextIdsInv DEF LocksInv
<1>1. CASE UNCHANGED vars
  <2>1. UNCHANGED <<locks, slot, balance, view, funds, quiet, clean>>
    BY <1>1 DEF vars
  <2>2. slot <= slot' /\ \A a \in Asset : balance[a] <= balance'[a]
    BY <1>0, <2>1 DEF IdsInv, TypeOK
  <2>3. FundsInv'
    BY <1>0, <2>1, <2>2, GiveFunds
  <2> QED
    BY <1>0, <2>3 DEF LocksInv
<1>2. ASSUME NEW x \in net, Land(x) PROVE FundsInv'
  <2>1. UNCHANGED clients
    BY <1>2 DEF Land
  <2>2. CASE x.kind = "add"
    BY <1>0, <1>2, <2>1, <2>2, LandAddFunds DEF Land
  <2>3. CASE x.kind = "spend"
    BY <1>0, <1>2, <2>1, <2>3, LandSpendFunds DEF Land
  <2>4. CASE x.kind \notin {"add", "spend"}
    BY <1>0, <1>2, <2>1, <2>4, LandRemoveFunds DEF Land
  <2> QED
    BY <2>2, <2>3, <2>4
<1> QED
  BY <1>0, <1>1, <1>2, ClientFunds, ClusterFunds DEF Next, LocksInv

(* Sightings of locks stay valid, and what has been reckoned from them     *)
(* stays free, through any history of the account.                         *)
THEOREM LocksInductive == Spec => []LocksInv
<1>1. Init => LocksInv
  BY InitLocksInv
<1>2. LocksInv /\ [Next]_vars => LocksInv'
  BY NextLocksInv
<1> QED
  BY <1>1, <1>2, PTL DEF Spec

LEMMA IdsInductive == Spec => []IdsInv
<1>1. LocksInv => IdsInv
  BY DEF LocksInv
<1> QED
  BY <1>1, LocksInductive, PTL

(* What getAuthorizationLockAvailableAmount lets a role spend is          *)
(* accepted, however late the request, while nobody but the holders of     *)
(* locks has touched the account.                                          *)
THEOREM AvailableAccepted == Spec => []AvailableIsAccepted
<1>1. LocksInv => AvailableIsAccepted
  BY DEF LocksInv, FundsInv
<1> QED
  BY <1>1, LocksInductive, PTL

(* Locks, balances, views and what is on its way keep their types.         *)
THEOREM LocksTypeCorrect == Spec => []TypeOK
<1>1. IdsInv => TypeOK
  BY DEF IdsInv
<1> QED
  BY <1>1, IdsInductive, PTL

(* The typed readers of a snapshot never throw on the locks.               *)
THEOREM TailsDecode == Spec => []EveryTailDecodes
<1>1. IdsInv => EveryTailDecodes
  BY DEF IdsInv
<1> QED
  BY <1>1, IdsInductive, PTL

(* isAuthorizationLockPrunable never offers a lock that still binds when   *)
(* the prune arrives.                                                      *)
THEOREM PrunesAreAccepted == Spec => []PruneIsAccepted
<1>1. IdsInv => PruneIsAccepted
  <2> SUFFICES ASSUME IdsInv, NEW x \in net, x.kind = "prune",
                      NEW l \in locks, l.id = x.id
               PROVE  l.role # x.role /\ ~Binds(l)
    BY DEF PruneIsAccepted
  <2>1. TypeOK /\ Sightings /\ PrunesAreInactive
    BY DEF IdsInv
  <2>2. /\ l.amount <= x.seen.amount /\ [x.seen EXCEPT !.amount = l.amount] = l
        /\ x.seen.role # x.role /\ IsPrunable(x.seen, slot)
    BY <2>1 DEF Sightings, Sighted, PrunesAreInactive
  <2>3. l \in Lock /\ x.seen \in Lock /\ slot \in Nat
    BY <2>1 DEF TypeOK, Adding, Spending, Removing
  <2>4. l.role = x.seen.role /\ l.expiry = x.seen.expiry
    BY <2>2, <2>3 DEF Lock
  <2> QED
    BY <2>2, <2>3, <2>4 DEF IsPrunable, IsActive, Binds, Lock
<1> QED
  BY <1>1, IdsInductive, PTL

(* A removal takes away what its caller has looked at, however late.       *)
THEOREM RemovalsAreOfTheSeenLock == Spec => RemovesTheSeenLock
<1> DEFINE Removal ==
      \A l \in locks : l.id \notin {k.id : k \in locks'} =>
        \E x \in net \ net' :
          /\ x.kind \in {"release", "prune"}
          /\ [x.seen EXCEPT !.amount = l.amount] = l
<1>1. IdsInv /\ [Next]_vars => [Removal]_vars
  <2> SUFFICES ASSUME IdsInv, Next,
                      NEW l \in locks, l.id \notin {k.id : k \in locks'}
               PROVE  \E x \in net \ net' :
                        /\ x.kind \in {"release", "prune"}
                        /\ [x.seen EXCEPT !.amount = l.amount] = l
    OBVIOUS
  <2>0. TypeOK /\ Sightings
    BY DEF IdsInv
  <2>1. locks' # locks
    OBVIOUS
  <2>2. ASSUME NEW r \in Role, Client(r) PROVE locks' = locks
    BY <2>2 DEF Client, Refetch, ReadBalance, AddAuthorizationLock, Spend,
                RemoveAuthorizationLock, Sign, chain
  <2>3. ASSUME (\E a \in Asset : Deposit(a)) \/ Tick PROVE locks' = locks
    BY <2>3 DEF Deposit, Tick
  <2>4. PICK x \in net : Land(x)
    BY <2>1, <2>2, <2>3 DEF Next
  <2>5. x.kind # "add"
    <3>1. SUFFICES ASSUME x.kind = "add" PROVE FALSE
      OBVIOUS
    <3>2. l \in locks'
      BY <2>4, <3>1 DEF Land, LandAdd
    <3> QED
      BY <3>2
  <2>6. x.kind # "spend"
    <3>1. SUFFICES ASSUME x.kind = "spend" PROVE FALSE
      OBVIOUS
    <3> DEFINE own == {k \in locks : Binds(k) /\ k.asset = x.asset /\ k.role = x.role}
    <3>2. PICK left : locks' = {[k EXCEPT !.amount = IF k \in own THEN left[k] ELSE @]
                                 : k \in locks}
      BY <2>4, <3>1 DEF Land, LandSpend
    <3> DEFINE m == [l EXCEPT !.amount = IF l \in own THEN left[l] ELSE @]
    <3>3. m \in locks'
      BY <3>2
    <3>4. m.id = l.id
      BY <2>0 DEF TypeOK, Lock
    <3> QED
      BY <3>3, <3>4
  <2>7. x \in net \ net' /\ LandRemove(x)
    BY <2>4, <2>5, <2>6 DEF Land
  <2>8. l.id = x.id
    BY <2>7 DEF LandRemove
  <2>9. x.kind \in {"release", "prune"}
    BY <2>0, <2>5, <2>6, <2>7 DEF TypeOK, Adding, Spending, Removing
  <2>10. [x.seen EXCEPT !.amount = l.amount] = l
    BY <2>0, <2>7, <2>8, <2>9 DEF Sightings, Sighted
  <2> QED
    BY <2>7, <2>9, <2>10
<1> QED
  BY <1>1, IdsInductive, PTL DEF Spec, RemovesTheSeenLock
=============================================================================
