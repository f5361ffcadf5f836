------------------------- MODULE SwigWalletRefinement -------------------------
(***************************************************************************)
(* That the wallet's odometers implement OptimisticCounter, for every set  *)
(* of handles, keys and roles and every bound: each step of the handles,   *)
(* the network and the account is a step of the abstract counter, or none. *)
(***************************************************************************)
EXTENDS SwigWalletProofs

(* The refinement mapping of SwigWallet, named.                            *)
At == [c \in Client |-> IF SecpHandle(c) THEN hRole[c] ELSE NoKey]
View == [c \in Client |-> IF SecpHandle(c) THEN hOdo[c] ELSE 0]
Owed == [c \in Client |-> \E t \in OwnLanded(c) : t.counter > hOdo[c]]

(* switch_authority trusts its caller about the key: it may pair a secp    *)
(* client role with a role of another kind and start from 0.  That is no   *)
(* guess, for a role that stores no odometer has spent none.               *)
NoneSpent ==
  \A r \in RoleId :
    \/ roleCounter <= r
    \/ roleKey[r] \in Key /\ ~HasOdometer(roleKey[r])
    => odometer[r] = 0

NoneSpentInv == UnusedBeyond /\ NoneSpent

LEMMA NextNoneSpent == IInv /\ NoneSpentInv /\ [Next]_vars => NoneSpentInv'
<1> SUFFICES ASSUME IInv, NoneSpentInv, [Next]_vars PROVE NoneSpentInv'
  OBVIOUS
<1>0. TypeOK
  BY DEF IInv
<1>1. ASSUME UNCHANGED chain PROVE NoneSpentInv'
  BY <1>1 DEF NoneSpentInv, UnusedBeyond, NoneSpent, chain
<1>2. ASSUME NEW c \in Client, Call(c) PROVE UNCHANGED chain
  BY <1>2
  DEF Call, AddAuthority, LookupRemoval, UpdateAuthority, SignV2, SubAccountV1,
      SubAccountV2, CreateSession, SetRentClaimer, Open, SwitchAuthority, Send
<1>3. ASSUME NEW c \in Client, Continue(c) PROVE UNCHANGED chain
  BY <1>3
  DEF Continue, RemoveAuthority, AbortRemoval, AnswerThenRefresh, AnswerSetRentClaimer,
      AnswerPlain, AnswerError, Refresh, RefreshError, Send
<1>4. ASSUME NEW t \in net, Land(t) PROVE NoneSpentInv'
  <2>1. UnusedBeyond'
    BY <1>0, <1>4, LandRoles DEF NoneSpentInv
  <2>2. /\ t \in Tx /\ t.key \in Key /\ t.role \in RoleId /\ t.target \in RoleId
        /\ roleKey[t.role] = t.key /\ roleCounter \in Nat
    BY <1>0, <1>4, BoundAssumption DEF TypeOK, Tx, Land, Accepts
  <2>3. ~(roleCounter <= t.role)
    BY <2>2, KeyAssumption DEF NoneSpentInv, UnusedBeyond
  <2>4. \A r \in RoleId :
          /\ r # t.role => odometer'[r] = odometer[r]
          /\ ~HasOdometer(t.key) => odometer'[r] = odometer[r]
    BY <1>0, <1>4, <2>2 DEF Land, Execute, TypeOK, Counted, HasOdometer
  <2>5. \/ /\ roleCounter' = roleCounter
           /\ \A r \in RoleId : roleKey'[r] \in {roleKey[r], NoKey}
        \/ /\ roleCounter' = roleCounter + 1
           /\ \A r \in RoleId : r # roleCounter => roleKey'[r] = roleKey[r]
    <3>1. CASE t.op = "AddAuthority"
      <4>1. /\ roleCounter' = roleCounter + 1
            /\ roleKey' = [roleKey EXCEPT ![roleCounter] = t.subject]
        BY <1>4, <3>1 DEF Land, Execute
      <4> QED
        BY <1>0, <4>1 DEF TypeOK
    <3>2. CASE t.op # "AddAuthority"
      <4>1. /\ roleCounter' = roleCounter
            /\ roleKey' = [roleKey EXCEPT ![t.target] =
                             IF t.op = "RemoveAuthority" THEN NoKey ELSE @]
        BY <1>4, <3>2 DEF Land, Execute
      <4> QED
        BY <1>0, <4>1 DEF TypeOK
    <3> QED
      BY <3>1, <3>2
  <2>6. NoneSpent'
    <3> SUFFICES ASSUME NEW r \in RoleId,
                        \/ roleCounter' <= r
                        \/ roleKey'[r] \in Key /\ ~HasOdometer(roleKey'[r])
                 PROVE  odometer'[r] = 0
      BY DEF NoneSpent, HasOdometer
    <3>1. r \in Nat
      BY BoundAssumption DEF RoleId
    <3>2. \/ roleCounter <= r
          \/ roleKey[r] \in Key /\ ~HasOdometer(roleKey[r])
      BY <2>2, <2>5, <3>1, KeyAssumption
    <3>3. odometer[r] = 0
      BY <3>2 DEF NoneSpentInv, NoneSpent
    <3>4. r = t.role => ~HasOdometer(t.key)
      BY <2>2, <2>3, <3>2
    <3> QED
      BY <2>4, <3>3, <3>4
  <2> QED
    BY <2>1, <2>6 DEF NoneSpentInv
<1>5. ASSUME Tick \/ \E t \in net : Drop(t) PROVE UNCHANGED chain
  BY <1>5 DEF Tick, Drop
<1> QED
  BY <1>1, <1>2, <1>3, <1>4, <1>5 DEF Next, vars, chain

-----------------------------------------------------------------------------
(* The steps of the counter.                                               *)

(* A transaction of a handle's epoch bears the handle's key, so a handle   *)
(* that is not a secp one has no attempts.                                 *)
LEMMA OwnLandedType ==
  ASSUME IInv, NEW c \in Client, NEW t \in OwnLanded(c)
  PROVE  /\ SecpHandle(c) /\ t.role = hRole[c] /\ t.key = hKey[c]
         /\ t \in landed /\ t.counter \in Nat /\ t.counter <= hOdo[c] + 1
<1>1. t \in landed /\ t.client = c /\ t.epoch = epoch[c] /\ KindOf[t.key] = "Secp"
  BY DEF OwnLanded
<1>2. t \in Tx
  BY <1>1 DEF IInv, TypeOK
<1>3. t.key \in Key /\ t.counter \in Nat
  BY <1>2 DEF Tx, Odometer
<1> QED
  BY <1>1, <1>3 DEF IInv, AttemptsOfEpoch, SecpHandle

(* A step that leaves the counters and the handles' caches alone.          *)
LEMMA Unseen ==
  ASSUME UNCHANGED <<odometer, hKey, hRole, hOdo, landed, epoch>>
  PROVE  UNCHANGED <<odometer, At, View, Owed>>
BY DEF At, View, Owed, OwnLanded, SecpHandle

(* A handle begins a new epoch: it watches its new role, or none.          *)
LEMMA NewEpoch ==
  ASSUME IInv, NoneSpentInv, NEW c \in Client, NEW k \in Key, NEW r \in RoleId,
         roleKey[r] \in Key,
         UNCHANGED <<odometer, landed>>,
         hKey' = [hKey EXCEPT ![c] = k],
         hRole' = [hRole EXCEPT ![c] = r],
         hOdo' = [hOdo EXCEPT ![c] = SyncedOdometer(k, r)],
         epoch' = [epoch EXCEPT ![c] = @ + 1]
  PROVE  \/ Optimistic!Sync(c, r)
         \/ Optimistic!Leave(c)
<1>0. TypeOK
  BY DEF IInv
<1>1. /\ hKey'[c] = k /\ hRole'[c] = r /\ hOdo'[c] = SyncedOdometer(k, r)
      /\ \A d \in Client : d # c =>
           hKey'[d] = hKey[d] /\ hRole'[d] = hRole[d] /\ hOdo'[d] = hOdo[d] /\ epoch'[d] = epoch[d]
  BY <1>0 DEF TypeOK
<1>2. OwnLanded(c)' = {}
  <2> SUFFICES ASSUME NEW t \in landed, t.client = c, t.epoch = epoch[c] + 1 PROVE FALSE
    BY <1>0 DEF OwnLanded, TypeOK
  <2>1. t.epoch <= epoch[c]
    BY DEF IInv, AttemptsOfEpoch
  <2> QED
    BY <2>1, <1>0 DEF TypeOK
<1>3. \A d \in Client : d # c => OwnLanded(d)' = OwnLanded(d)
  BY <1>1 DEF OwnLanded
<1>4. Owed' = [Owed EXCEPT ![c] = FALSE]
  BY <1>1, <1>2, <1>3 DEF Owed
<1>5. CASE KindOf[k] = "Secp"
  <2>1. SyncedOdometer(k, r) = odometer[r]
    BY <1>5 DEF SyncedOdometer, HasOdometer, NoneSpentInv, NoneSpent
  <2>2. At' = [At EXCEPT ![c] = r]
    BY <1>1, <1>5 DEF At, SecpHandle
  <2>3. View' = [View EXCEPT ![c] = odometer[r]]
    <3>1. SecpHandle(c)' /\ \A d \in Client : d # c => (SecpHandle(d)' <=> SecpHandle(d))
      BY <1>1, <1>5 DEF SecpHandle
    <3>2. View' = [d \in Client |-> IF SecpHandle(d)' THEN hOdo'[d] ELSE 0]
      BY DEF View
    <3>3. \A d \in Client : View[d] = IF SecpHandle(d) THEN hOdo[d] ELSE 0
      BY DEF View
    <3>4. \A d \in Client : (IF SecpHandle(d)' THEN hOdo'[d] ELSE 0)
                               = IF d = c THEN odometer[r] ELSE View[d]
      BY <1>1, <2>1, <3>1, <3>3
    <3>5. View' = [d \in Client |-> IF d = c THEN odometer[r] ELSE View[d]]
      BY <3>2, <3>4
    <3>6. View = [d \in Client |-> View[d]]
      BY DEF View
    <3> QED
      BY <3>5, <3>6
  <2> QED
    BY <1>4, <2>2, <2>3 DEF Optimistic!Sync, At, View, Owed
<1>6. CASE KindOf[k] # "Secp"
  <2>0. ~SecpHandle(c)' /\ \A d \in Client : d # c => (SecpHandle(d)' <=> SecpHandle(d))
    BY <1>1, <1>6 DEF SecpHandle
  <2>1. At' = [At EXCEPT ![c] = NoKey]
    BY <1>1, <2>0 DEF At
  <2>2. View' = [View EXCEPT ![c] = 0]
    BY <1>1, <2>0 DEF View
  <2> QED
    BY <1>4, <2>1, <2>2 DEF Optimistic!Leave, At, View, Owed
<1> QED
  BY <1>5, <1>6

(* A handle counts a success: its view catches up with its own commit.     *)
LEMMA Counting ==
  ASSUME IInv, NEW c \in Client,
         tx[c] \in landed, pc[c] \in {"sent", "refreshing"},
         UNCHANGED <<odometer, landed, hKey, hRole, epoch>>,
         IncrementOdometer(c)
  PROVE  \/ Optimistic!Acknowledge(c)
         \/ UNCHANGED <<odometer, At, View, Owed>>
<1>0. TypeOK
  BY DEF IInv
<1>1. \A d \in Client : d # c => hOdo'[d] = hOdo[d]
  BY <1>0 DEF IncrementOdometer, TypeOK
<1>2. \A d \in Client : OwnLanded(d)' = OwnLanded(d)
  BY DEF OwnLanded
<1>3. CASE SecpHandle(c)
  <2>1. hOdo[c] \in 0 .. MaxOdometer
    BY <1>0, <1>3, BoundAssumption DEF IInv, NeverAhead, TypeOK, Odometer
  <2>2. hOdo'[c] = hOdo[c] + 1
    BY <1>0, <1>3, <2>1, WrappingAddBelow
    DEF IncrementOdometer, SecpHandle, HasOdometer, TypeOK
  <2>3. tx[c] \in OwnLanded(c) /\ tx[c].counter = hOdo[c] + 1
    <3>1. /\ tx[c].client = c /\ tx[c].epoch = epoch[c] /\ tx[c].key = hKey[c]
          /\ tx[c].counter = WrappingAdd(hOdo[c])
      BY <1>3 DEF IInv, RunningCall, SecpHandle
    <3> QED
      BY <1>3, <2>1, <3>1, WrappingAddBelow DEF OwnLanded, SecpHandle
  <2>4. Owed[c] = TRUE
    BY <2>1, <2>3 DEF Owed
  <2>5. \A t \in OwnLanded(c) : ~(t.counter > hOdo'[c])
    BY <2>1, <2>2, OwnLandedType
  <2>6. Owed' = [Owed EXCEPT ![c] = FALSE]
    BY <1>1, <1>2, <2>5 DEF Owed
  <2>7. View' = [View EXCEPT ![c] = @ + 1]
    BY <1>1, <1>3, <2>2 DEF View, SecpHandle
  <2>8. At' = At
    BY DEF At, SecpHandle
  <2> QED
    BY <2>4, <2>6, <2>7, <2>8 DEF Optimistic!Acknowledge, At, View, Owed
<1>4. CASE ~SecpHandle(c)
  <2>1. OwnLanded(c) = {}
    BY <1>4, OwnLandedType
  <2> QED
    BY <1>1, <1>2, <1>4, <2>1 DEF At, View, Owed, SecpHandle
<1> QED
  BY <1>3, <1>4

(* A counted signature lands: it is its handle's commit if the handle has  *)
(* not synchronised since it signed, a stray one if it has.                *)
LEMMA Landing ==
  ASSUME IInv, IInv', NEW t \in net, Land(t)
  PROVE  \/ \E c \in Client : Optimistic!Commit(c)
         \/ \E r \in RoleId : Optimistic!Stray(r)
         \/ UNCHANGED <<odometer, At, View, Owed>>
<1>0. TypeOK
  BY DEF IInv
<1>1. /\ t \in Tx /\ t.client \in Client /\ t.role \in RoleId /\ t.key \in Key
      /\ t.counter \in Nat /\ odometer[t.role] \in Nat
  BY <1>0 DEF TypeOK, Tx, Odometer
<1>2. /\ landed' = landed \cup {t}
      /\ UNCHANGED <<hKey, hRole, hOdo, epoch>>
      /\ odometer' = [odometer EXCEPT ![t.role] =
                        IF Counted(t.key, t.op) THEN WrappingAdd(@) ELSE @]
      /\ odometer[t.role] < MaxOdometer
  BY DEF Land, Execute, cache
<1>3. Counted(t.key, t.op) =>
        /\ odometer' = [odometer EXCEPT ![t.role] = @ + 1]
        /\ t.counter = odometer[t.role] + 1
  <2>1. odometer[t.role] \in 0 .. MaxOdometer
    BY <1>0, <1>1 DEF TypeOK
  <2> QED
    BY <1>2, <2>1, WrappingAddBelow DEF Land, Accepts
<1>4. At' = At /\ View' = View
  BY <1>2 DEF At, View, SecpHandle
<1>5. ~Counted(t.key, t.op) => odometer' = odometer
  BY <1>0, <1>2 DEF TypeOK
<1> DEFINE own == t.epoch = epoch[t.client] /\ KindOf[t.key] = "Secp"
<1>6. \A d \in Client : OwnLanded(d)' =
        IF own /\ d = t.client THEN OwnLanded(d) \cup {t} ELSE OwnLanded(d)
  BY <1>2 DEF OwnLanded
<1>7. CASE own
  <2>1. Counted(t.key, t.op)
    BY <1>7 DEF Counted
  <2>2. t.role = hRole[t.client] /\ t.key = hKey[t.client] /\ t.counter <= hOdo[t.client] + 1
    BY <1>7 DEF IInv, AttemptsOfEpoch
  <2>3. SecpHandle(t.client) /\ hOdo[t.client] <= odometer[t.role] /\ hOdo[t.client] \in Nat
    BY <1>0, <1>1, <1>7, <2>2 DEF SecpHandle, IInv, NeverAhead, TypeOK, Odometer
  <2>4. hOdo[t.client] = odometer[t.role] /\ t.counter > hOdo[t.client]
    BY <1>1, <1>3, <2>1, <2>2, <2>3
  <2>5. Owed' = [Owed EXCEPT ![t.client] = TRUE]
    BY <1>1, <1>2, <1>6, <1>7, <2>4 DEF Owed
  <2>6. At[t.client] = t.role /\ View[t.client] = odometer[t.role] /\ t.role # NoKey
    BY <1>1, <2>2, <2>3, <2>4, KeyAssumption, BoundAssumption DEF At, View, RoleId
  <2> QED
    BY <1>1, <1>3, <1>4, <2>1, <2>5, <2>6 DEF Optimistic!Commit, At, View, Owed
<1>8. CASE ~own
  <2>1. Owed' = Owed
    BY <1>2, <1>6, <1>8 DEF Owed
  <2> QED
    BY <1>1, <1>3, <1>4, <1>5, <2>1 DEF Optimistic!Stray, At, View, Owed
<1> QED
  BY <1>7, <1>8

LEMMA NextRefines ==
  ASSUME IInv, IInv', NoneSpentInv, [Next]_vars
  PROVE  Optimistic!CNext \/ UNCHANGED <<odometer, At, View, Owed>>
<1>0. TypeOK
  BY DEF IInv
<1>1. ASSUME UNCHANGED <<odometer, hKey, hRole, hOdo, landed, epoch>>
      PROVE  UNCHANGED <<odometer, At, View, Owed>>
  BY <1>1, Unseen
<1>2. ASSUME NEW c \in Client, Call(c)
      PROVE  Optimistic!CNext \/ UNCHANGED <<odometer, At, View, Owed>>
  <2>1. CASE \E k \in Key : Open(c, k)
    <3>1. PICK k \in Key, r \in RoleId :
            /\ Open(c, k) /\ roleKey[r] = k
            /\ hRole' = [hRole EXCEPT ![c] = r]
            /\ hOdo' = [hOdo EXCEPT ![c] = SyncedOdometer(k, r)]
      BY <2>1 DEF Open
    <3>2. UNCHANGED <<odometer, landed>> /\ hKey' = [hKey EXCEPT ![c] = k]
          /\ epoch' = [epoch EXCEPT ![c] = @ + 1]
      BY <3>1 DEF Open, chain
    <3> QED
      BY <3>1, <3>2, NewEpoch DEF Optimistic!CNext
  <2>2. CASE \E r \in RoleId, k \in Key : SwitchAuthority(c, r, k)
    <3>1. PICK r \in RoleId, k \in Key : SwitchAuthority(c, r, k)
      BY <2>2
    <3>2. roleKey[r] \in Key
      BY <1>0, <3>1 DEF SwitchAuthority, TypeOK
    <3> QED
      BY <3>1, <3>2, NewEpoch DEF SwitchAuthority, chain, Optimistic!CNext
  <2>3. CASE ~(\E k \in Key : Open(c, k))
             /\ ~(\E r \in RoleId, k \in Key : SwitchAuthority(c, r, k))
    <3>1. UNCHANGED <<odometer, hKey, hRole, hOdo, landed, epoch>>
      BY <1>2, <2>3
      DEF Call, AddAuthority, LookupRemoval, UpdateAuthority, SignV2, SubAccountV1,
          SubAccountV2, CreateSession, SetRentClaimer, Send, chain, cache, hist
    <3> QED
      BY <3>1, <1>1
  <2> QED
    BY <2>1, <2>2, <2>3
<1>3. ASSUME NEW c \in Client, Continue(c)
      PROVE  Optimistic!CNext \/ UNCHANGED <<odometer, At, View, Owed>>
  <2>1. CASE AnswerSetRentClaimer(c)
    BY <2>1, Counting DEF AnswerSetRentClaimer, chain, Optimistic!CNext
  <2>2. CASE Refresh(c)
    <3>1. CASE pc[c] = "refreshing"
      <4>1. tx[c] \in landed
        BY <3>1 DEF IInv, RunningCall
      <4> QED
        BY <2>2, <3>1, <4>1, Counting DEF Refresh, chain, Optimistic!CNext
    <3>2. CASE pc[c] # "refreshing"
      BY <2>2, <3>2, <1>1 DEF Refresh, chain
    <3> QED
      BY <3>1, <3>2
  <2>3. CASE ~AnswerSetRentClaimer(c) /\ ~Refresh(c)
    <3>1. UNCHANGED <<odometer, hKey, hRole, hOdo, landed, epoch>>
      BY <1>3, <2>3
      DEF Continue, RemoveAuthority, AbortRemoval, AnswerThenRefresh, AnswerPlain,
          AnswerError, RefreshError, Send, chain, cache, hist
    <3> QED
      BY <3>1, <1>1
  <2> QED
    BY <2>1, <2>2, <2>3
<1>4. ASSUME NEW t \in net, Land(t)
      PROVE  Optimistic!CNext \/ UNCHANGED <<odometer, At, View, Owed>>
  BY <1>4, Landing DEF Optimistic!CNext
<1>5. ASSUME Tick \/ (\E t \in net : Drop(t)) \/ UNCHANGED vars
      PROVE  UNCHANGED <<odometer, At, View, Owed>>
  BY <1>1, <1>5 DEF Tick, Drop, vars, chain, cache, hist
<1> QED
  BY <1>2, <1>3, <1>4, <1>5 DEF Next

-----------------------------------------------------------------------------
(* A handle spends a counter only while its view of it is current, and its *)
(* view moves only by its own acknowledged spending or a fresh read.       *)
THEOREM WalletIsOptimistic == Spec => OptimisticSpec
<1>1. Init => Optimistic!CInit
  BY KeyAssumption
  DEF Init, Optimistic!CInit, SecpHandle, OwnLanded
<1>2. Init => NoneSpentInv
  BY BoundAssumption DEF Init, NoneSpentInv, UnusedBeyond, NoneSpent, RoleId
<1>3. IInv /\ NoneSpentInv /\ [Next]_vars => NoneSpentInv'
  BY NextNoneSpent
<1>4. IInv /\ IInv' /\ NoneSpentInv /\ [Next]_vars => [Optimistic!CNext]_(Optimistic!cvars)
  <2> SUFFICES ASSUME IInv, IInv', NoneSpentInv, [Next]_vars
               PROVE  Optimistic!CNext \/ UNCHANGED Optimistic!cvars
    OBVIOUS
  <2> QED
    BY NextRefines DEF Optimistic!cvars, At, View, Owed
<1> QED
  BY <1>1, <1>2, <1>3, <1>4, Inductive, PTL DEF Spec, OptimisticSpec, Optimistic!CSpec
=============================================================================
