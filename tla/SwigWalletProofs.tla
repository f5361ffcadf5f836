-------------------------- MODULE SwigWalletProofs --------------------------
(***************************************************************************)
(* Why the optimistic odometer is safe, for every set of handles, keys and *)
(* roles and every bound: IInv of SwigWallet is inductive.                 *)
(***************************************************************************)
EXTENDS SwigWallet, TLAPS

(* The wrap is never reached from a counter the account has stored.        *)
LEMMA WrappingAddBelow ==
  ASSUME NEW n \in 0 .. MaxOdometer
  PROVE  /\ WrappingAdd(n) = n + 1
         /\ WrappingAdd(n) \in Odometer
BY BoundAssumption DEF WrappingAdd, Odometer

(* u32 arithmetic stays in the type and gains at most one.                 *)
LEMMA WrappingAddType ==
  ASSUME NEW n \in Odometer
  PROVE  /\ WrappingAdd(n) \in Odometer
         /\ WrappingAdd(n) <= n + 1
BY BoundAssumption DEF WrappingAdd, Odometer

LEMMA SyncedOdometerAtMost ==
  ASSUME TypeOK, NEW k \in Key, NEW r \in RoleId
  PROVE  /\ SyncedOdometer(k, r) \in Odometer
         /\ SyncedOdometer(k, r) <= odometer[r]
BY BoundAssumption DEF SyncedOdometer, TypeOK, Odometer

LEMMA InitIInv == Init => IInv
<1> SUFFICES ASSUME Init PROVE IInv
  OBVIOUS
<1>1. 0 \in RoleId /\ 0 \in Odometer /\ 0 \in 0 .. MaxOdometer /\ 1 \in 1 .. MaxRole
  BY BoundAssumption DEF RoleId, Odometer
<1>2. TypeOK
  BY <1>1, KeyAssumption, BoundAssumption DEF Init, TypeOK, NoTx
<1>3. NeverAhead
  BY <1>1 DEF Init, NeverAhead
<1>4. SpentCounters /\ AttemptsOfEpoch /\ RunningCall /\ PassedIsAcked
  BY DEF Init, SpentCounters, AttemptsOfEpoch, RunningCall, PassedIsAcked, OwnLanded
<1> QED
  BY <1>2, <1>3, <1>4 DEF IInv

-----------------------------------------------------------------------------
(* Sending.  Every method that sends does it through Send.                 *)

LEMMA SendIInv ==
  ASSUME IInv,
         NEW c \in Client, NEW op \in Op, NEW inner \in Nat,
         NEW target \in RoleId, NEW subject \in Key \cup {NoKey},
         hKey[c] \in Key,
         Send(c, op, inner, target, subject)
  PROVE  IInv'
<1> DEFINE counted == Counted(hKey[c], op)
           t == [client |-> c, call |-> calls[c] + 1, epoch |-> epoch[c], op |-> op,
                 role |-> hRole[c], key |-> hKey[c],
                 counter |-> IF counted THEN WrappingAdd(hOdo[c]) ELSE 0,
                 slot |-> IF counted THEN slot ELSE 0,
                 inner |-> inner, target |-> target, subject |-> subject]
<1>1. /\ net' = net \cup {t}
      /\ tx' = [tx EXCEPT ![c] = t]
      /\ calls' = [calls EXCEPT ![c] = @ + 1]
      /\ pc' = [pc EXCEPT ![c] = "sent"]
      /\ ret' = [ret EXCEPT ![c] = "none"]
      /\ UNCHANGED <<roleKey, odometer, version, roleCounter, slot, landed, faults,
                     hKey, hRole, hOdo, cached, named, acked, seen, epoch>>
  BY DEF Send, chain, cache
<1>2. hOdo[c] \in Odometer /\ hRole[c] \in RoleId
      /\ calls[c] \in Nat /\ epoch[c] \in Nat /\ slot \in Nat
  BY DEF IInv, TypeOK
<1>3. WrappingAdd(hOdo[c]) \in Odometer /\ WrappingAdd(hOdo[c]) <= hOdo[c] + 1
  BY <1>2, WrappingAddType
<1>4. t \in Tx
  BY <1>2, <1>3, BoundAssumption DEF Tx, Odometer
<1>5. t.client = c /\ t.epoch = epoch[c] /\ t.role = hRole[c] /\ t.key = hKey[c]
  OBVIOUS
<1>6. KindOf[t.key] = "Secp" => t.counter = WrappingAdd(hOdo[c])
  BY DEF Counted
<1> HIDE DEF t
<1>7. TypeOK'
  BY <1>1, <1>4 DEF IInv, TypeOK
<1>8. NeverAhead'
  BY <1>1 DEF IInv, NeverAhead, SecpHandle
<1>9. SpentCounters'
  BY <1>1 DEF IInv, SpentCounters
<1>10. AttemptsOfEpoch'
  <2> SUFFICES ASSUME NEW s \in (net \cup landed)'
               PROVE  /\ s.epoch <= epoch[s.client]
                      /\ s.epoch = epoch[s.client] =>
                           /\ s.role = hRole[s.client] /\ s.key = hKey[s.client]
                           /\ KindOf[s.key] = "Secp" => s.counter <= hOdo[s.client] + 1
    BY <1>1 DEF AttemptsOfEpoch
  <2>1. CASE s \in net \cup landed
    BY <2>1 DEF IInv, AttemptsOfEpoch
  <2>2. CASE s = t
    BY <2>2, <1>2, <1>3, <1>5, <1>6
  <2> QED
    BY <1>1, <2>1, <2>2
<1>11. RunningCall'
  BY <1>1, <1>4, <1>5, <1>6 DEF IInv, TypeOK, RunningCall
<1>12. PassedIsAcked'
  BY <1>1 DEF IInv, PassedIsAcked, OwnLanded
<1> QED
  BY <1>7, <1>8, <1>9, <1>10, <1>11, <1>12 DEF IInv

-----------------------------------------------------------------------------
(* Steps that leave the account, the network's past and the handles'       *)
(* caches alone: they move a call along or end it with an error.           *)

LEMMA CallStepIInv ==
  ASSUME IInv, NEW c \in Client, TypeOK',
         UNCHANGED <<chain, net, landed, cache, acked, epoch>>,
         NEW p, pc' = [pc EXCEPT ![c] = p],
         p # "idle" => hKey[c] \in Key,
         p \in {"sent", "refreshing"} => tx' = tx /\ pc[c] = "sent",
         \A d \in Client : d # c => tx'[d] = tx[d],
         p = "refreshing" => tx[c] \in landed
  PROVE  IInv'
<1> USE DEF chain, cache
<1>1. NeverAhead' /\ SpentCounters' /\ AttemptsOfEpoch' /\ PassedIsAcked'
  BY DEF IInv, NeverAhead, SecpHandle, SpentCounters, AttemptsOfEpoch,
         PassedIsAcked, OwnLanded
<1>2. RunningCall'
  BY DEF IInv, TypeOK, RunningCall
<1> QED
  BY <1>1, <1>2 DEF IInv

LEMMA LookupRemovalIInv ==
  ASSUME IInv, NEW c \in Client, NEW k \in Key, LookupRemoval(c, k)
  PROVE  IInv'
<1>1. TypeOK'
  BY DEF LookupRemoval, IInv, TypeOK, chain, cache, hist
<1>2. pc' = [pc EXCEPT ![c] = "removing"] /\ hKey[c] \in Key
  BY DEF LookupRemoval, Ready, IInv, TypeOK
<1>3. \A d \in Client : d # c => tx'[d] = tx[d]
  BY DEF LookupRemoval, IInv, TypeOK
<1> QED
  BY <1>1, <1>2, <1>3, CallStepIInv DEF LookupRemoval, hist

LEMMA ReturnsErrorIInv ==
  ASSUME IInv, NEW c \in Client,
         AbortRemoval(c) \/ AnswerError(c) \/ RefreshError(c) \/ AnswerPlain(c)
  PROVE  IInv'
<1>1. faults' \in 0 .. MaxFaults
  BY BoundAssumption
  DEF AbortRemoval, AnswerError, RefreshError, AnswerPlain, IInv, TypeOK
<1>2. pc' = [pc EXCEPT ![c] = "idle"] /\ tx' = tx
      /\ UNCHANGED <<chain, slot, net, landed, cache, named, acked, seen, epoch, calls>>
  BY DEF AbortRemoval, AnswerError, RefreshError, AnswerPlain, Return, hist
<1>3. ret' \in [Client -> {"none", "ok", "err"}]
  BY DEF AbortRemoval, AnswerError, RefreshError, AnswerPlain, Return, IInv, TypeOK
<1>4. TypeOK'
  BY <1>1, <1>2, <1>3 DEF IInv, TypeOK, chain, cache
<1> QED
  BY <1>2, <1>4, CallStepIInv

LEMMA AnswerThenRefreshIInv ==
  ASSUME IInv, NEW c \in Client, AnswerThenRefresh(c)
  PROVE  IInv'
<1>1. TypeOK'
  BY DEF AnswerThenRefresh, IInv, TypeOK, chain, cache, hist
<1>2. pc[c] = "sent" /\ tx[c] \in landed /\ hKey[c] \in Key
  BY DEF AnswerThenRefresh, IInv, RunningCall
<1>3. pc' = [pc EXCEPT ![c] = "refreshing"] /\ tx' = tx
      /\ UNCHANGED <<chain, net, landed, cache, acked, epoch>>
  BY DEF AnswerThenRefresh, hist
<1> QED
  BY <1>1, <1>2, <1>3, CallStepIInv

-----------------------------------------------------------------------------
(* Counting a success.                                                     *)

(* A counted transaction that has landed bears a counter the account has   *)
(* reached, so the odometer that follows it stays behind the account.      *)
LEMMA IncrementIInv ==
  ASSUME IInv, NEW c \in Client, TypeOK',
         tx[c] \in landed, pc[c] \in {"sent", "refreshing"},
         UNCHANGED <<chain, net, landed, hKey, hRole, tx, epoch>>,
         IncrementOdometer(c),
         acked' = acked \cup {tx[c]},
         pc' = [pc EXCEPT ![c] = "idle"]
  PROVE  IInv'
<1> USE DEF chain
<1>1. /\ tx[c] \in Tx /\ tx[c].client = c /\ tx[c].epoch = epoch[c]
      /\ tx[c].role = hRole[c] /\ tx[c].key = hKey[c] /\ hKey[c] \in Key
      /\ KindOf[hKey[c]] = "Secp" => tx[c].counter = WrappingAdd(hOdo[c])
  BY DEF IInv, RunningCall
<1>2. hRole[c] \in RoleId /\ hOdo[c] \in Odometer /\ odometer[hRole[c]] \in 0 .. MaxOdometer
  BY DEF IInv, TypeOK
<1>3. SecpHandle(c) => /\ WrappingAdd(hOdo[c]) = hOdo[c] + 1
                       /\ hOdo[c] + 1 = tx[c].counter
                       /\ hOdo[c] + 1 <= odometer[hRole[c]]
  <2> SUFFICES ASSUME SecpHandle(c) PROVE /\ WrappingAdd(hOdo[c]) = hOdo[c] + 1
                                          /\ hOdo[c] + 1 = tx[c].counter
                                          /\ hOdo[c] + 1 <= odometer[hRole[c]]
    OBVIOUS
  <2>1. hOdo[c] <= odometer[hRole[c]]
    BY DEF IInv, NeverAhead
  <2>2. hOdo[c] \in 0 .. MaxOdometer
    BY <1>2, <2>1, BoundAssumption DEF Odometer
  <2>3. WrappingAdd(hOdo[c]) = hOdo[c] + 1
    BY <2>2, WrappingAddBelow
  <2>4. Counted(tx[c].key, tx[c].op)
    BY <1>1 DEF Counted, SecpHandle
  <2>5. tx[c].counter <= odometer[tx[c].role]
    BY <2>4 DEF IInv, SpentCounters
  <2> QED
    BY <1>1, <2>3, <2>5 DEF SecpHandle
<1>4. /\ \A d \in Client : d # c => hOdo'[d] = hOdo[d]
      /\ SecpHandle(c) => hOdo'[c] = hOdo[c] + 1
  BY <1>1, <1>3 DEF IncrementOdometer, IInv, TypeOK, SecpHandle, HasOdometer
<1>5. NeverAhead'
  BY <1>3, <1>4 DEF IInv, NeverAhead, SecpHandle
<1>6. SpentCounters'
  BY DEF IInv, SpentCounters
<1>7. AttemptsOfEpoch'
  <2> SUFFICES ASSUME NEW t \in net \cup landed,
                      t.epoch = epoch[t.client], KindOf[t.key] = "Secp"
               PROVE  t.counter <= hOdo'[t.client] + 1
    BY DEF IInv, AttemptsOfEpoch
  <2>1. t \in Tx
    BY DEF IInv, TypeOK
  <2>2. t.client \in Client /\ t.key \in Key /\ t.counter \in Odometer
    BY <2>1 DEF Tx
  <2>3. t.key = hKey[t.client] /\ t.counter <= hOdo[t.client] + 1
    BY DEF IInv, AttemptsOfEpoch
  <2>4. CASE t.client = c
    BY <1>2, <1>4, <2>2, <2>3, <2>4, BoundAssumption DEF SecpHandle, Odometer
  <2> QED
    BY <1>4, <2>2, <2>3, <2>4
<1>8. RunningCall'
  BY <1>4 DEF IInv, TypeOK, RunningCall
<1>9. PassedIsAcked'
  <2> SUFFICES ASSUME NEW d \in Client, NEW t \in OwnLanded(d), t.counter <= hOdo'[d]
               PROVE  t \in acked'
    BY DEF PassedIsAcked, OwnLanded
  <2>1. /\ t \in landed /\ t \in Tx /\ t.client = d /\ t.epoch = epoch[d]
        /\ KindOf[t.key] = "Secp" /\ t.key \in Key /\ t.counter \in Odometer
    BY DEF OwnLanded, IInv, TypeOK, Tx
  <2>2. t.key = hKey[d] /\ t.role = hRole[d]
    BY <2>1 DEF IInv, AttemptsOfEpoch
  <2>3. CASE t.counter <= hOdo[d]
    BY <2>3 DEF IInv, PassedIsAcked
  <2>4. CASE d = c /\ ~(t.counter <= hOdo[c])
    <3>1. t.counter = tx[c].counter
      BY <1>2, <1>3, <1>4, <2>1, <2>2, <2>4, BoundAssumption DEF SecpHandle, Odometer
    <3>2. Counted(t.key, t.op) /\ Counted(tx[c].key, tx[c].op)
      BY <1>1, <2>1, <2>2, <2>4 DEF Counted
    <3>3. t = tx[c]
      BY <1>1, <2>1, <2>2, <2>4, <3>1, <3>2 DEF IInv, SpentCounters
    <3> QED
      BY <3>3
  <2> QED
    BY <1>4, <2>3, <2>4
<1> QED
  BY <1>5, <1>6, <1>7, <1>8, <1>9 DEF IInv

LEMMA IncrementOdometerType ==
  ASSUME TypeOK, NEW c \in Client, IncrementOdometer(c)
  PROVE  hOdo' \in [Client -> Odometer]
BY WrappingAddType DEF TypeOK, IncrementOdometer

LEMMA AnswerSetRentClaimerIInv ==
  ASSUME IInv, NEW c \in Client, AnswerSetRentClaimer(c)
  PROVE  IInv'
<1>1. tx[c] \in landed /\ pc[c] = "sent" /\ tx[c] \in Tx
  BY DEF AnswerSetRentClaimer, IInv, TypeOK
<1>2. hOdo' \in [Client -> Odometer]
  BY IncrementOdometerType DEF AnswerSetRentClaimer, IInv
<1>3. TypeOK'
  BY <1>1, <1>2 DEF AnswerSetRentClaimer, Return, IInv, TypeOK, chain
<1> QED
  BY <1>1, <1>3, IncrementIInv DEF AnswerSetRentClaimer, Return

LEMMA RefreshIInv ==
  ASSUME IInv, NEW c \in Client, Refresh(c)
  PROVE  IInv'
<1>1. hRole[c] \in RoleId /\ version[hRole[c]] \in Nat
  BY DEF IInv, TypeOK
<1>2. pc' = [pc EXCEPT ![c] = "idle"]
      /\ UNCHANGED <<chain, net, landed, hKey, hRole, tx, epoch>>
  BY DEF Refresh, Return
<1>3. CASE pc[c] = "refreshing"
  <2>1. tx[c] \in landed /\ tx[c] \in Tx
    BY <1>3 DEF IInv, TypeOK, RunningCall
  <2>2. IncrementOdometer(c) /\ acked' = acked \cup {tx[c]}
    BY <1>3 DEF Refresh
  <2>3. hOdo' \in [Client -> Odometer]
    BY <2>2, IncrementOdometerType DEF IInv
  <2>4. TypeOK'
    BY <1>1, <2>1, <2>2, <2>3 DEF Refresh, Return, IInv, TypeOK, chain
  <2> QED
    BY <1>2, <1>3, <2>1, <2>2, <2>4, IncrementIInv
<1>4. CASE pc[c] = "switching"
  <2>1. UNCHANGED <<hOdo, acked>>
    BY <1>4 DEF Refresh
  <2>2. TypeOK'
    BY <1>1, <2>1 DEF Refresh, Return, IInv, TypeOK, chain
  <2>3. NeverAhead' /\ SpentCounters' /\ AttemptsOfEpoch' /\ PassedIsAcked'
    BY <1>2, <2>1 DEF IInv, NeverAhead, SecpHandle, SpentCounters, AttemptsOfEpoch,
                      PassedIsAcked, OwnLanded, chain
  <2>4. RunningCall'
    BY <1>2, <2>1 DEF IInv, TypeOK, RunningCall
  <2> QED
    BY <2>2, <2>3, <2>4 DEF IInv
<1> QED
  BY <1>3, <1>4 DEF Refresh

-----------------------------------------------------------------------------
(* A synchronisation starts a new epoch, to which no transaction belongs.  *)

LEMMA SynchroniseIInv ==
  ASSUME IInv, NEW c \in Client, NEW k \in Key, NEW r \in RoleId, TypeOK',
         UNCHANGED <<chain, net, landed, acked>>,
         hKey' = [hKey EXCEPT ![c] = k],
         hRole' = [hRole EXCEPT ![c] = r],
         hOdo' = [hOdo EXCEPT ![c] = SyncedOdometer(k, r)],
         epoch' = [epoch EXCEPT ![c] = @ + 1],
         \A d \in Client : d # c => tx'[d] = tx[d],
         \A d \in Client : d # c => pc'[d] = pc[d],
         pc'[c] \in {"idle", "switching"}
  PROVE  IInv'
<1> USE DEF chain
<1>1. /\ hKey'[c] = k /\ hRole'[c] = r /\ epoch'[c] = epoch[c] + 1
      /\ hOdo'[c] = SyncedOdometer(k, r) /\ epoch[c] \in Nat
      /\ \A d \in Client : d # c => /\ hKey'[d] = hKey[d] /\ hRole'[d] = hRole[d]
                                    /\ hOdo'[d] = hOdo[d] /\ epoch'[d] = epoch[d]
  BY DEF IInv, TypeOK
<1>2. SyncedOdometer(k, r) <= odometer[r]
  BY SyncedOdometerAtMost DEF IInv
<1>3. NeverAhead'
  BY <1>1, <1>2 DEF IInv, NeverAhead, SecpHandle
<1>4. SpentCounters'
  BY DEF IInv, SpentCounters
<1>5. \A t \in net \cup landed :
        t.client \in Client /\ t.epoch \in Nat /\ t.epoch <= epoch[t.client]
  BY DEF IInv, TypeOK, Tx, AttemptsOfEpoch
<1>6. \A t \in net \cup landed : t.client = c => t.epoch < epoch'[c]
  BY <1>1, <1>5
<1>7. AttemptsOfEpoch'
  BY <1>1, <1>5, <1>6 DEF IInv, AttemptsOfEpoch
<1>8. RunningCall'
  BY <1>1 DEF IInv, RunningCall
<1>9. PassedIsAcked'
  BY <1>1, <1>5, <1>6 DEF IInv, PassedIsAcked, OwnLanded
<1> QED
  BY <1>3, <1>4, <1>7, <1>8, <1>9 DEF IInv

LEMMA OpenIInv ==
  ASSUME IInv, NEW c \in Client, NEW k \in Key, Open(c, k)
  PROVE  IInv'
<1>1. PICK r \in RoleId :
        /\ roleKey[r] = k
        /\ hRole' = [hRole EXCEPT ![c] = r]
        /\ hOdo' = [hOdo EXCEPT ![c] = SyncedOdometer(k, r)]
        /\ cached' = [cached EXCEPT ![c] = [role |-> r, version |-> version[r]]]
  BY DEF Open
<1>2. SyncedOdometer(k, r) \in Odometer /\ version[r] \in Nat
  BY SyncedOdometerAtMost DEF IInv, TypeOK
<1>3. TypeOK'
  BY <1>1, <1>2 DEF Open, IInv, TypeOK, chain
<1>4. pc[c] = "idle"
  BY KeyAssumption DEF Open, IInv, RunningCall
<1> QED
  BY <1>1, <1>3, <1>4, SynchroniseIInv DEF Open, chain

LEMMA SwitchAuthorityIInv ==
  ASSUME IInv, NEW c \in Client, NEW k \in Key, NEW r \in RoleId,
         SwitchAuthority(c, r, k)
  PROVE  IInv'
<1>1. SyncedOdometer(k, r) \in Odometer
  BY SyncedOdometerAtMost DEF IInv
<1>2. TypeOK'
  BY <1>1 DEF SwitchAuthority, IInv, TypeOK, chain
<1>3. /\ pc'[c] = "switching"
      /\ \A d \in Client : d # c => pc'[d] = pc[d]
      /\ \A d \in Client : d # c => tx'[d] = tx[d]
  BY DEF SwitchAuthority, IInv, TypeOK
<1> QED
  BY <1>2, <1>3, SynchroniseIInv DEF SwitchAuthority, chain

-----------------------------------------------------------------------------
(* The network.                                                            *)

LEMMA LandIInv ==
  ASSUME IInv, NEW t \in net, Land(t)
  PROVE  IInv'
<1>1. /\ t \in Tx /\ t.client \in Client /\ t.role \in RoleId /\ t.key \in Key
      /\ t.target \in RoleId /\ t.subject \in Key \cup {NoKey}
      /\ t.counter \in Odometer /\ t.epoch \in Nat
  BY DEF IInv, TypeOK, Tx
<1>2. odometer[t.role] \in 0 .. MaxOdometer /\ odometer[t.role] < MaxOdometer
  BY <1>1 DEF Land, IInv, TypeOK
<1>3. WrappingAdd(odometer[t.role]) = odometer[t.role] + 1
  BY <1>2, WrappingAddBelow
<1>4. /\ odometer' = [odometer EXCEPT ![t.role] =
                        IF Counted(t.key, t.op) THEN @ + 1 ELSE @]
      /\ odometer' \in [RoleId -> 0 .. MaxOdometer]
  BY <1>1, <1>2, <1>3, BoundAssumption DEF Land, Execute, IInv, TypeOK
<1>5. \A r \in RoleId : odometer[r] \in 0 .. MaxOdometer /\ odometer'[r] >= odometer[r]
  BY <1>1, <1>2, <1>4 DEF IInv, TypeOK
<1>6. Counted(t.key, t.op) => /\ t.counter = odometer[t.role] + 1
                              /\ odometer'[t.role] = t.counter
  BY <1>1, <1>3, <1>4 DEF Land, Accepts, IInv, TypeOK
<1>7. roleCounter' \in 1 .. MaxRole /\ version' \in [RoleId -> Nat]
      /\ roleKey' \in [RoleId -> Key \cup {NoKey}]
  <2>1. roleCounter' \in 1 .. MaxRole
    BY BoundAssumption DEF Land, Accepts, Execute, IInv, TypeOK
  <2>2. version' \in [RoleId -> Nat]
    BY <1>1 DEF Land, Execute, IInv, TypeOK
  <2>3. roleKey' \in [RoleId -> Key \cup {NoKey}]
    BY <1>1 DEF Land, Execute, IInv, TypeOK
  <2> QED
    BY <2>1, <2>2, <2>3
<1>8. /\ net' = net \ {t} /\ landed' = landed \cup {t}
      /\ UNCHANGED <<slot, faults, hKey, hRole, hOdo, cached, pc, tx, named, ret,
                     acked, epoch, calls>>
  BY DEF Land, cache
<1>9. seen' \in [Client -> Nat]
  BY <1>1, <1>7 DEF Land, IInv, TypeOK
<1>10. TypeOK'
  BY <1>1, <1>4, <1>7, <1>8, <1>9 DEF IInv, TypeOK
<1>11. NeverAhead'
  <2> SUFFICES ASSUME NEW c \in Client, SecpHandle(c)
               PROVE  hOdo[c] <= odometer'[hRole[c]]
    BY <1>8 DEF NeverAhead, SecpHandle
  <2>1. hOdo[c] \in Nat /\ hRole[c] \in RoleId
    BY DEF IInv, TypeOK, Odometer
  <2>2. hOdo[c] <= odometer[hRole[c]]
    BY DEF IInv, NeverAhead
  <2>3. odometer[hRole[c]] \in Nat /\ odometer'[hRole[c]] \in Nat
    BY <1>4, <1>5, <2>1
  <2> QED
    BY <1>5, <2>1, <2>2, <2>3
<1>12. SpentCounters'
  <2>1. ASSUME NEW s \in landed', Counted(s.key, s.op)
        PROVE  s.counter <= odometer'[s.role]
    <3>1. CASE s = t
      BY <1>1, <1>4, <1>6, <2>1, <3>1
    <3>2. CASE s \in landed
      <4>1. s.counter \in Nat /\ s.role \in RoleId /\ s.counter <= odometer[s.role]
        BY <2>1, <3>2 DEF IInv, TypeOK, Tx, Odometer, SpentCounters
      <4>2. odometer[s.role] \in Nat /\ odometer'[s.role] \in Nat
        BY <1>4, <1>5, <4>1
      <4> QED
        BY <1>5, <4>1, <4>2
    <3> QED
      BY <1>8, <3>1, <3>2
  <2>2. ASSUME NEW s \in landed, Counted(s.key, s.op), Counted(t.key, t.op),
               s.role = t.role
        PROVE  s.counter # t.counter
    <3>1. s.counter \in Nat /\ s.counter <= odometer[t.role]
      BY <2>2 DEF IInv, TypeOK, Tx, Odometer, SpentCounters
    <3> QED
      BY <1>2, <1>6, <2>2, <3>1
  <2>3. \A t1, t2 \in landed :
          /\ Counted(t1.key, t1.op) /\ Counted(t2.key, t2.op)
          /\ t1.role = t2.role /\ t1.counter = t2.counter
          => t1 = t2
    BY DEF IInv, SpentCounters
  <2>4. \A t1, t2 \in landed' :
          /\ Counted(t1.key, t1.op) /\ Counted(t2.key, t2.op)
          /\ t1.role = t2.role /\ t1.counter = t2.counter
          => t1 = t2
    BY <1>8, <2>2, <2>3
  <2> QED
    BY <2>1, <2>4 DEF SpentCounters
<1>13. AttemptsOfEpoch'
  BY <1>8 DEF IInv, AttemptsOfEpoch
<1>14. RunningCall'
  BY <1>8 DEF IInv, RunningCall
<1>15. PassedIsAcked'
  <2> SUFFICES ASSUME NEW c \in Client, NEW s \in OwnLanded(c)', s.counter <= hOdo[c]
               PROVE  s \in acked
    BY <1>8 DEF PassedIsAcked
  <2>1. s \in landed' /\ s.client = c /\ s.epoch = epoch[c] /\ KindOf[s.key] = "Secp"
    BY <1>8 DEF OwnLanded
  <2>2. CASE s \in landed
    BY <2>1, <2>2 DEF IInv, PassedIsAcked, OwnLanded
  <2>3. CASE s = t
    <3>1. s.key = hKey[c] /\ s.role = hRole[c]
      BY <2>1, <2>3 DEF IInv, AttemptsOfEpoch
    <3>2. SecpHandle(c) /\ Counted(t.key, t.op)
      BY <1>1, <2>1, <2>3, <3>1 DEF SecpHandle, Counted
    <3>3. hOdo[c] \in Nat /\ hOdo[c] <= odometer[t.role]
      BY <2>3, <3>1, <3>2 DEF IInv, TypeOK, Odometer, NeverAhead
    <3> QED
      BY <1>2, <1>6, <2>3, <3>2, <3>3
  <2> QED
    BY <1>8, <2>1, <2>2, <2>3
<1> QED
  BY <1>10, <1>11, <1>12, <1>13, <1>14, <1>15 DEF IInv

LEMMA DropIInv ==
  ASSUME IInv, NEW t \in net, Drop(t)
  PROVE  IInv'
<1>1. faults' \in 0 .. MaxFaults
  BY BoundAssumption DEF Drop, IInv, TypeOK
<1>2. net' \subseteq net
      /\ UNCHANGED <<roleKey, odometer, version, roleCounter, slot, landed, hKey, hRole,
                     hOdo, cached, pc, tx, named, ret, acked, seen, epoch, calls>>
  BY DEF Drop, chain, cache, hist
<1>3. TypeOK'
  BY <1>1, <1>2 DEF IInv, TypeOK
<1>4. NeverAhead' /\ SpentCounters' /\ AttemptsOfEpoch' /\ RunningCall' /\ PassedIsAcked'
  BY <1>2 DEF IInv, NeverAhead, SecpHandle, SpentCounters, AttemptsOfEpoch, RunningCall,
              PassedIsAcked, OwnLanded
<1> QED
  BY <1>3, <1>4 DEF IInv

LEMMA IdleIInv ==
  ASSUME IInv, Tick \/ UNCHANGED vars
  PROVE  IInv'
<1>1. slot' \in Nat
      /\ UNCHANGED <<roleKey, odometer, version, roleCounter, net, landed, faults, hKey,
                     hRole, hOdo, cached, pc, tx, named, ret, acked, seen, epoch, calls>>
  BY DEF Tick, vars, chain, cache, hist, IInv, TypeOK
<1>2. TypeOK'
  BY <1>1 DEF IInv, TypeOK
<1>3. NeverAhead' /\ SpentCounters' /\ AttemptsOfEpoch' /\ RunningCall' /\ PassedIsAcked'
  BY <1>1 DEF IInv, NeverAhead, SecpHandle, SpentCounters, AttemptsOfEpoch, RunningCall,
              PassedIsAcked, OwnLanded
<1> QED
  BY <1>2, <1>3 DEF IInv

-----------------------------------------------------------------------------
(* The methods that send, one by one.                                      *)

LEMMA MethodIInv ==
  ASSUME IInv, NEW c \in Client, Call(c)
  PROVE  IInv'
<1>1. \A m : Ready(c, m) => hKey[c] \in Key
  BY DEF Ready, IInv, TypeOK
<1>2. hRole[c] \in RoleId /\ 1 \in Nat /\ NoKey \in Key \cup {NoKey}
  BY DEF IInv, TypeOK
<1>3. CASE \E k \in Key : AddAuthority(c, k)
  BY <1>1, <1>2, <1>3, SendIInv DEF AddAuthority, Op
<1>4. CASE \E k \in Key : LookupRemoval(c, k)
  BY <1>4, LookupRemovalIInv
<1>5. CASE \E r \in RoleId : UpdateAuthority(c, r)
  BY <1>1, <1>2, <1>5, SendIInv DEF UpdateAuthority, Op
<1>6. CASE \E n \in 1 .. MaxInner : SignV2(c, n)
  <2>1. PICK n \in 1 .. MaxInner : SignV2(c, n)
    BY <1>6
  <2>2. n \in Nat
    OBVIOUS
  <2> QED
    BY <1>1, <1>2, <2>1, <2>2, SendIInv DEF SignV2, Op
<1>7. CASE SubAccountV1(c)
  BY <1>1, <1>2, <1>7, SendIInv DEF SubAccountV1, Op
<1>8. CASE SubAccountV2(c)
  BY <1>1, <1>2, <1>8, SendIInv DEF SubAccountV2, Op
<1>9. CASE CreateSession(c)
  BY <1>1, <1>2, <1>9, SendIInv DEF CreateSession, Op
<1>10. CASE SetRentClaimer(c)
  BY <1>1, <1>2, <1>10, SendIInv DEF SetRentClaimer, Op
<1>11. CASE \E k \in Key : Open(c, k)
  BY <1>11, OpenIInv
<1>12. CASE \E r \in RoleId, k \in Key : SwitchAuthority(c, r, k)
  BY <1>12, SwitchAuthorityIInv
<1> QED
  BY <1>3, <1>4, <1>5, <1>6, <1>7, <1>8, <1>9, <1>10, <1>11, <1>12 DEF Call

LEMMA ContinueIInv ==
  ASSUME IInv, NEW c \in Client, Continue(c)
  PROVE  IInv'
<1>1. CASE RemoveAuthority(c)
  <2>1. hKey[c] \in Key /\ named[c].role \in RoleId /\ named[c].key \in Key \cup {NoKey}
    BY <1>1 DEF RemoveAuthority, IInv, TypeOK, RunningCall
  <2> QED
    BY <1>1, <2>1, SendIInv DEF RemoveAuthority, Op
<1>2. CASE AbortRemoval(c) \/ AnswerError(c) \/ RefreshError(c) \/ AnswerPlain(c)
  BY <1>2, ReturnsErrorIInv
<1>3. CASE AnswerThenRefresh(c)
  BY <1>3, AnswerThenRefreshIInv
<1>4. CASE AnswerSetRentClaimer(c)
  BY <1>4, AnswerSetRentClaimerIInv
<1>5. CASE Refresh(c)
  BY <1>5, RefreshIInv
<1> QED
  BY <1>1, <1>2, <1>3, <1>4, <1>5 DEF Continue

LEMMA NextIInv == IInv /\ [Next]_vars => IInv'
<1> SUFFICES ASSUME IInv, [Next]_vars PROVE IInv'
  OBVIOUS
<1>1. CASE \E c \in Client : Call(c) \/ Continue(c)
  BY <1>1, MethodIInv, ContinueIInv
<1>2. CASE \E t \in net : Land(t) \/ Drop(t)
  BY <1>2, LandIInv, DropIInv
<1>3. CASE Tick \/ UNCHANGED vars
  BY <1>3, IdleIInv
<1> QED
  BY <1>1, <1>2, <1>3 DEF Next

-----------------------------------------------------------------------------
(* Results.                                                                *)

(* The strengthened invariant holds of every behaviour of the wallet.      *)
THEOREM Inductive == Spec => []IInv
<1>1. Init => IInv
  BY InitIInv
<1>2. IInv /\ [Next]_vars => IInv'
  BY NextIInv
<1> QED
  BY <1>1, <1>2, PTL DEF Spec

(* Every value stays in its type, the wrapping odometers included.         *)
THEOREM TypeCorrect == Spec => []TypeOK
<1>1. IInv => TypeOK
  BY DEF IInv
<1> QED
  BY <1>1, Inductive, PTL

(* A secp handle's odometer never runs ahead of the account's.             *)
THEOREM OdometerNeverAhead == Spec => []NeverAhead
<1>1. IInv => NeverAhead
  BY DEF IInv
<1> QED
  BY <1>1, Inductive, PTL

(* Of the attempts a secp handle has not counted, at most one executes.    *)
THEOREM RetriesExecuteOnce == Spec => []RetryExecutesOnce
<1>1. IInv => RetryExecutesOnce
  <2> SUFFICES ASSUME IInv, NEW c \in Client,
                      NEW t1 \in OwnLanded(c) \ acked, NEW t2 \in OwnLanded(c) \ acked
               PROVE  t1 = t2
    BY DEF RetryExecutesOnce
  <2>1. ASSUME NEW t \in OwnLanded(c) \ acked
        PROVE  /\ t \in landed /\ Counted(t.key, t.op) /\ t.role = hRole[c]
               /\ t.counter = hOdo[c] + 1
    <3>1. t \in landed /\ t \in Tx /\ t.client = c /\ t.epoch = epoch[c] /\ KindOf[t.key] = "Secp"
      BY DEF OwnLanded, IInv, TypeOK
    <3>2. t.counter \in Nat /\ hOdo[c] \in Nat
      BY <3>1 DEF IInv, TypeOK, Tx, Odometer
    <3>3. t.role = hRole[c] /\ t.counter <= hOdo[c] + 1
      BY <3>1 DEF IInv, AttemptsOfEpoch
    <3>4. ~(t.counter <= hOdo[c])
      BY DEF IInv, PassedIsAcked
    <3> QED
      BY <3>1, <3>2, <3>3, <3>4 DEF Counted
  <2> QED
    BY <2>1 DEF IInv, SpentCounters
<1> QED
  BY <1>1, Inductive, PTL

-----------------------------------------------------------------------------
(***************************************************************************)
(* Why what a handle has read may be used later, for every set of handles, *)
(* keys and roles and every bound: the role id of a removal, which is      *)
(* resolved before the transaction is signed, and the permissions that are *)
(* cached when a call returns Ok.                                          *)
(***************************************************************************)

(* Role ids are handed out in order, so none beyond the counter is used.   *)
UnusedBeyond == \A r \in RoleId : roleCounter <= r => roleKey[r] = NoKey

(* An id that was resolved for a key is that key's or nobody's.            *)
Resolved(r, k) == r < roleCounter /\ roleKey[r] \in {k, NoKey}

(* So it is for the handles about to send and for what is on its way.      *)
RemovalsResolved ==
  /\ \A c \in Client : pc[c] = "removing" => Resolved(named[c].role, named[c].key)
  /\ \A t \in net : t.op = "RemoveAuthority" => Resolved(t.target, t.subject)

RemovalInv == UnusedBeyond /\ RemovalsResolved

(* A transaction lands once, and a call number is used once.               *)
LandsOnce ==
  /\ net \cap landed = {}
  /\ \A t \in net \cup landed : t.call <= calls[t.client]

(* What is recorded of a landed transaction's role is not in the future.   *)
SeenIsPast ==
  \A c \in Client : tx[c] \in landed => seen[c] <= version[tx[c].role]

(* An Ok of a refreshing call comes after its transaction has landed.      *)
OkHasLanded ==
  \A c \in Client :
    /\ pc[c] = "switching" => tx[c] = NoTx
    /\ pc[c] = "idle" /\ ret[c] = "ok" /\ tx[c] # NoTx /\ Refreshes(tx[c].op)
         => tx[c] \in landed
    /\ tx[c] # NoTx => tx[c].client = c
    /\ hKey[c] = NoKey => tx[c] = NoTx

FreshInv == LandsOnce /\ SeenIsPast /\ OkHasLanded /\ PermissionsFreshAfterOk

-----------------------------------------------------------------------------
(* The account's roles.                                                    *)

(* A transaction that lands leaves unused ids unused, and what it makes of *)
(* a used id is the key it had or nobody.                                  *)
LEMMA LandRoles ==
  ASSUME TypeOK, UnusedBeyond, NEW t \in net, Land(t)
  PROVE  /\ UnusedBeyond'
         /\ \A r \in RoleId, k \in Key \cup {NoKey} : Resolved(r, k) => Resolved(r, k)'
<1>1. t \in Tx /\ t.target \in RoleId /\ roleCounter \in Nat
  BY BoundAssumption DEF TypeOK, Tx
<1>2. CASE t.op = "AddAuthority"
  <2>1. /\ roleCounter' = roleCounter + 1
        /\ roleKey' = [roleKey EXCEPT ![roleCounter] = t.subject]
    BY <1>2 DEF Land, Execute
  <2> QED
    BY <1>1, <2>1 DEF UnusedBeyond, Resolved, TypeOK, RoleId
<1>3. CASE t.op # "AddAuthority"
  <2>1. /\ roleCounter' = roleCounter
        /\ roleKey' = [roleKey EXCEPT ![t.target] = IF t.op = "RemoveAuthority" THEN NoKey ELSE @]
    BY <1>3 DEF Land, Execute
  <2>2. \A r \in RoleId : roleKey'[r] \in {roleKey[r], NoKey}
    BY <2>1 DEF TypeOK
  <2> QED
    BY <2>1, <2>2 DEF UnusedBeyond, Resolved
<1> QED
  BY <1>2, <1>3

(* Steps that leave the account alone keep RemovalInv if whoever begins to *)
(* wait with an id has resolved it, and what is sent names such an id.     *)
LEMMA CallRemovalInv ==
  ASSUME RemovalInv, UNCHANGED <<roleKey, roleCounter>>,
         \A c \in Client : pc'[c] = "removing" =>
           \/ pc[c] = "removing" /\ named'[c] = named[c]
           \/ Resolved(named'[c].role, named'[c].key),
         \A t \in net' \ net : t.op = "RemoveAuthority" => Resolved(t.target, t.subject)
  PROVE  RemovalInv'
BY DEF RemovalInv, UnusedBeyond, RemovalsResolved, Resolved

LEMMA SendRemovalInv ==
  ASSUME IInv, RemovalInv, NEW c \in Client, NEW op, NEW inner, NEW target, NEW subject,
         Send(c, op, inner, target, subject),
         op = "RemoveAuthority" => Resolved(target, subject)
  PROVE  RemovalInv'
<1> DEFINE t == [client |-> c, call |-> calls[c] + 1, epoch |-> epoch[c], op |-> op,
                 role |-> hRole[c], key |-> hKey[c],
                 counter |-> IF Counted(hKey[c], op) THEN WrappingAdd(hOdo[c]) ELSE 0,
                 slot |-> IF Counted(hKey[c], op) THEN slot ELSE 0,
                 inner |-> inner, target |-> target, subject |-> subject]
<1>1. net' = net \cup {t} /\ pc' = [pc EXCEPT ![c] = "sent"] /\ named' = named
      /\ UNCHANGED <<roleKey, roleCounter>>
  BY DEF Send, chain
<1>2. t.op = op /\ t.target = target /\ t.subject = subject
  OBVIOUS
<1> HIDE DEF t
<1>3. \A d \in Client : pc'[d] = "removing" => pc[d] = "removing"
  BY <1>1 DEF IInv, TypeOK
<1> QED
  BY <1>1, <1>2, <1>3, CallRemovalInv

LEMMA NextRemovalInv == IInv /\ RemovalInv /\ [Next]_vars => RemovalInv'
<1> SUFFICES ASSUME IInv, RemovalInv, [Next]_vars PROVE RemovalInv'
  OBVIOUS
<1>0. TypeOK
  BY DEF IInv
<1>1. CASE UNCHANGED vars
  BY <1>1, CallRemovalInv DEF vars
<1>2. ASSUME NEW c \in Client, Call(c) PROVE RemovalInv'
  <2>1. ASSUME NEW op, NEW inner, NEW target, NEW subject,
               Send(c, op, inner, target, subject), op # "RemoveAuthority"
        PROVE  RemovalInv'
    BY <2>1, SendRemovalInv
  <2>2. ASSUME NEW k \in Key, LookupRemoval(c, k) PROVE RemovalInv'
    <3>1. PICK r \in RoleId :
            roleKey[r] = k /\ named' = [named EXCEPT ![c] = [role |-> r, key |-> k]]
      BY <2>2 DEF LookupRemoval
    <3>2. Resolved(r, k)
      <4>1. roleCounter \in Nat /\ r \in Nat
        BY <1>0, BoundAssumption DEF TypeOK, RoleId
      <4>2. roleKey[r] # NoKey
        BY <3>1, KeyAssumption
      <4>3. ~(roleCounter <= r)
        BY <4>2 DEF RemovalInv, UnusedBeyond
      <4>4. r < roleCounter
        BY <4>1, <4>3
      <4> QED
        BY <3>1, <4>4 DEF Resolved
    <3>3. UNCHANGED <<roleKey, roleCounter, net>> /\ pc' = [pc EXCEPT ![c] = "removing"]
      BY <2>2 DEF LookupRemoval, chain
    <3>4. \A d \in Client : pc'[d] = "removing" =>
            \/ pc[d] = "removing" /\ named'[d] = named[d]
            \/ Resolved(named'[d].role, named'[d].key)
      BY <1>0, <3>1, <3>2, <3>3 DEF TypeOK
    <3> QED
      BY <3>3, <3>4, CallRemovalInv
  <2>3. ASSUME (\E k \in Key : Open(c, k))
               \/ (\E r \in RoleId, k \in Key : SwitchAuthority(c, r, k))
        PROVE  RemovalInv'
    <3>1. UNCHANGED <<roleKey, roleCounter, net, named>>
          /\ (pc' = pc \/ pc' = [pc EXCEPT ![c] = "switching"])
      BY <2>3 DEF Open, SwitchAuthority, chain
    <3>2. \A d \in Client : pc'[d] = "removing" => pc[d] = "removing"
      BY <1>0, <3>1 DEF TypeOK
    <3> QED
      BY <3>1, <3>2, CallRemovalInv
  <2> QED
    BY <1>2, <2>1, <2>2, <2>3
    DEF Call, AddAuthority, UpdateAuthority, SignV2, SubAccountV1, SubAccountV2,
        CreateSession, SetRentClaimer
<1>3. ASSUME NEW c \in Client, Continue(c) PROVE RemovalInv'
  <2>1. CASE RemoveAuthority(c)
    BY <2>1, SendRemovalInv DEF RemoveAuthority, RemovalInv, RemovalsResolved
  <2>2. CASE ~RemoveAuthority(c)
    <3>1. UNCHANGED <<roleKey, roleCounter, net, named>>
          /\ \E p \in {"idle", "refreshing"} : pc' = [pc EXCEPT ![c] = p]
      BY <1>3, <2>2
      DEF Continue, AbortRemoval, AnswerThenRefresh, AnswerSetRentClaimer, AnswerPlain,
          AnswerError, Refresh, RefreshError, Return, chain
    <3>2. \A d \in Client : pc'[d] = "removing" => pc[d] = "removing"
      BY <1>0, <3>1 DEF TypeOK
    <3> QED
      BY <3>1, <3>2, CallRemovalInv
  <2> QED
    BY <2>1, <2>2
<1>4. ASSUME NEW t \in net, Land(t) PROVE RemovalInv'
  <2>1. UnusedBeyond' /\ \A r \in RoleId, k \in Key \cup {NoKey} : Resolved(r, k) => Resolved(r, k)'
    BY <1>0, <1>4, LandRoles DEF RemovalInv
  <2>2. net' \subseteq net /\ pc' = pc /\ named' = named
    BY <1>4 DEF Land
  <2>3. \A c \in Client : named[c].role \in RoleId /\ named[c].key \in Key
    BY <1>0 DEF TypeOK
  <2>4. \A c \in Client : pc'[c] = "removing" => Resolved(named[c].role, named[c].key)'
    BY <2>1, <2>2, <2>3 DEF RemovalInv, RemovalsResolved
  <2>5. ASSUME NEW x \in net', x.op = "RemoveAuthority" PROVE Resolved(x.target, x.subject)'
    <3>1. x \in net /\ x.target \in RoleId /\ x.subject \in Key \cup {NoKey}
      BY <1>0, <2>2, <2>5 DEF TypeOK, Tx
    <3> QED
      BY <2>1, <2>5, <3>1 DEF RemovalInv, RemovalsResolved
  <2> QED
    BY <2>1, <2>2, <2>4, <2>5 DEF RemovalInv, RemovalsResolved
<1>5. ASSUME Tick \/ \E t \in net : Drop(t) PROVE RemovalInv'
  BY <1>5, CallRemovalInv DEF Tick, Drop, chain
<1> QED
  BY <1>1, <1>2, <1>3, <1>4, <1>5 DEF Next

-----------------------------------------------------------------------------
(* The cached permissions.                                                 *)

(* Steps that neither send nor land: they may drop a transaction, change   *)
(* the phase of a call, and refresh.                                       *)
LEMMA CallFreshInv ==
  ASSUME IInv, TypeOK', FreshInv, NEW c \in Client,
         net' \subseteq net, UNCHANGED <<version, landed, seen>>,
         \A d \in Client : calls'[d] >= calls[d],
         \A d \in Client : d # c =>
           /\ pc'[d] = pc[d] /\ ret'[d] = ret[d] /\ tx'[d] = tx[d]
           /\ hKey'[d] = hKey[d] /\ hRole'[d] = hRole[d] /\ cached'[d] = cached[d],
         hKey'[c] = NoKey => tx'[c] = NoTx,
         tx'[c] \in {tx[c], NoTx},
         pc'[c] = "switching" => tx'[c] = NoTx,
         pc'[c] = "idle" /\ ret'[c] = "ok" /\ tx'[c] # NoTx /\ Refreshes(tx'[c].op) =>
           /\ tx'[c] \in landed
           /\ cached'[c].role = hRole'[c] /\ cached'[c].version >= seen[c]
  PROVE  FreshInv'
<1>1. LandsOnce'
  <2>1. \A t \in net \cup landed : t.client \in Client /\ t.call \in Nat
    BY DEF IInv, TypeOK, Tx
  <2>2. \A d \in Client : calls[d] \in Nat /\ calls'[d] \in Nat
    BY DEF IInv, TypeOK
  <2> QED
    BY <2>1, <2>2 DEF FreshInv, LandsOnce
<1>2. NoTx \notin net \cup landed
  <2>1. \A t \in Tx : t # NoTx
    BY DEF Tx, NoTx
  <2> QED
    BY <2>1 DEF IInv, TypeOK
<1>3. SeenIsPast'
  BY <1>2 DEF FreshInv, SeenIsPast
<1>4. OkHasLanded'
  BY <1>2 DEF FreshInv, OkHasLanded
<1>5. PermissionsFreshAfterOk'
  BY DEF FreshInv, PermissionsFreshAfterOk
<1> QED
  BY <1>1, <1>3, <1>4, <1>5 DEF FreshInv

LEMMA SendFreshInv ==
  ASSUME IInv, IInv', FreshInv, NEW c \in Client,
         NEW op, NEW inner, NEW target, NEW subject, hKey[c] \in Key,
         Send(c, op, inner, target, subject)
  PROVE  FreshInv'
<1> DEFINE t == [client |-> c, call |-> calls[c] + 1, epoch |-> epoch[c], op |-> op,
                 role |-> hRole[c], key |-> hKey[c],
                 counter |-> IF Counted(hKey[c], op) THEN WrappingAdd(hOdo[c]) ELSE 0,
                 slot |-> IF Counted(hKey[c], op) THEN slot ELSE 0,
                 inner |-> inner, target |-> target, subject |-> subject]
<1>1. /\ net' = net \cup {t} /\ tx' = [tx EXCEPT ![c] = t]
      /\ calls' = [calls EXCEPT ![c] = @ + 1]
      /\ pc' = [pc EXCEPT ![c] = "sent"]
      /\ ret' = [ret EXCEPT ![c] = "none"]
      /\ UNCHANGED <<version, landed, seen, hKey, hRole, cached>>
  BY DEF Send, chain, cache
<1>2. t.client = c /\ t.call = calls[c] + 1
  OBVIOUS
<1> HIDE DEF t
<1>3. \A d \in Client : calls[d] \in Nat
  BY DEF IInv, TypeOK
<1>4. \A x \in net \cup landed : x.client \in Client /\ x.call \in Nat
  BY DEF IInv, TypeOK, Tx
<1>5. t \notin net \cup landed
  BY <1>2, <1>3 DEF FreshInv, LandsOnce
<1>6. LandsOnce'
  BY <1>1, <1>2, <1>3, <1>4, <1>5 DEF FreshInv, LandsOnce, IInv, TypeOK
<1>7. tx'[c] = t /\ pc'[c] = "sent"
      /\ \A d \in Client : d # c => tx'[d] = tx[d] /\ pc'[d] = pc[d] /\ ret'[d] = ret[d]
  BY <1>1 DEF IInv, TypeOK
<1>8. SeenIsPast'
  BY <1>1, <1>5, <1>7 DEF FreshInv, SeenIsPast
<1>9. t # NoTx
  <2>1. t \in Tx
    BY <1>1 DEF IInv, TypeOK
  <2> QED
    BY <2>1 DEF Tx, NoTx
<1>10. OkHasLanded'
  BY <1>1, <1>2, <1>7, <1>9, KeyAssumption DEF FreshInv, OkHasLanded
<1>11. PermissionsFreshAfterOk'
  BY <1>1, <1>7 DEF FreshInv, PermissionsFreshAfterOk
<1> QED
  BY <1>6, <1>8, <1>10, <1>11 DEF FreshInv

(* Permissions only move forward.                                          *)
LEMMA LandFreshInv ==
  ASSUME IInv, IInv', FreshInv, NEW t \in net, Land(t)
  PROVE  FreshInv'
<1>1. /\ net' = net \ {t} /\ landed' = landed \cup {t}
      /\ version' = [version EXCEPT ![t.target] = IF Refreshes(t.op) THEN @ + 1 ELSE @]
      /\ seen' = [seen EXCEPT ![t.client] = IF tx[t.client] = t THEN version'[t.role] ELSE @]
      /\ UNCHANGED <<hKey, hRole, cached, pc, tx, ret, calls>>
  BY DEF Land, Execute, cache
<1>2. t \in Tx /\ t.client \in Client /\ t.role \in RoleId
  BY DEF IInv, TypeOK, Tx
<1>3. t # NoTx /\ \A x \in Tx : x.role \in RoleId
  BY <1>2 DEF Tx, NoTx
<1>4. \A r \in RoleId : version[r] \in Nat /\ version'[r] \in Nat /\ version[r] <= version'[r]
  BY <1>1 DEF IInv, TypeOK
<1>5. \A c \in Client :
        /\ seen[c] \in Nat /\ seen'[c] \in Nat
        /\ tx[c] # t => seen'[c] = seen[c]
        /\ tx[c] = t => c = t.client /\ seen'[c] = version'[t.role]
  BY <1>1, <1>2, <1>3 DEF IInv, TypeOK, FreshInv, OkHasLanded
<1>6. LandsOnce'
  BY <1>1 DEF FreshInv, LandsOnce
<1>7. SeenIsPast'
  <2> SUFFICES ASSUME NEW c \in Client, tx[c] \in landed'
               PROVE  seen'[c] <= version'[tx[c].role]
    BY <1>1 DEF SeenIsPast
  <2>1. CASE tx[c] = t
    BY <2>1, <1>2, <1>4, <1>5
  <2>2. CASE tx[c] # t
    <3>1. tx[c] \in landed /\ tx[c] \in Tx
      BY <2>2, <1>1 DEF IInv, TypeOK
    <3>2. seen[c] <= version[tx[c].role] /\ tx[c].role \in RoleId
      BY <3>1, <1>3 DEF FreshInv, SeenIsPast
    <3> QED
      BY <2>2, <3>2, <1>4, <1>5
  <2> QED
    BY <2>1, <2>2
<1>8. OkHasLanded'
  BY <1>1 DEF FreshInv, OkHasLanded
<1>9. PermissionsFreshAfterOk'
  <2> SUFFICES ASSUME NEW c \in Client, pc[c] = "idle", ret[c] = "ok",
                      tx[c] # NoTx, Refreshes(tx[c].op)
               PROVE  cached[c].role = hRole[c] /\ cached[c].version >= seen'[c]
    BY <1>1 DEF PermissionsFreshAfterOk
  <2>1. tx[c] \in landed
    BY DEF FreshInv, OkHasLanded
  <2>2. tx[c] # t
    BY <2>1 DEF FreshInv, LandsOnce
  <2> QED
    BY <2>2, <1>5 DEF FreshInv, PermissionsFreshAfterOk
<1> QED
  BY <1>6, <1>7, <1>8, <1>9 DEF FreshInv

(* A refresh that ends a call reads the role after its transaction landed. *)
LEMMA RefreshFreshInv ==
  ASSUME IInv, IInv', FreshInv, NEW c \in Client, Refresh(c)
  PROVE  FreshInv'
<1>0. TypeOK /\ TypeOK'
  BY DEF IInv
<1>1. /\ cached' = [cached EXCEPT ![c] = [role |-> hRole[c], version |-> version[hRole[c]]]]
      /\ pc' = [pc EXCEPT ![c] = "idle"] /\ ret' = [ret EXCEPT ![c] = "ok"]
      /\ UNCHANGED <<version, net, landed, seen, calls, tx, hKey, hRole>>
      /\ pc[c] \in {"refreshing", "switching"}
  BY DEF Refresh, Return, chain
<1>2. /\ cached'[c] = [role |-> hRole[c], version |-> version[hRole[c]]]
      /\ pc'[c] = "idle"
      /\ \A d \in Client : d # c => pc'[d] = pc[d] /\ ret'[d] = ret[d] /\ cached'[d] = cached[d]
  BY <1>0, <1>1 DEF TypeOK
<1>3. pc[c] = "switching" => tx[c] = NoTx
  BY DEF FreshInv, OkHasLanded
<1>4. pc[c] = "refreshing" => tx[c] \in landed /\ tx[c].role = hRole[c]
  BY DEF IInv, RunningCall
<1>5. tx[c] \in landed => seen[c] <= version[tx[c].role]
  BY DEF FreshInv, SeenIsPast
<1>6. seen[c] \in Nat /\ version[hRole[c]] \in Nat /\ \A d \in Client : calls'[d] >= calls[d]
  BY <1>0, <1>1 DEF TypeOK
<1>7. pc'[c] # "switching" /\ (hKey'[c] = NoKey => tx'[c] = NoTx)
  BY <1>1, <1>2 DEF FreshInv, OkHasLanded
<1>8. tx'[c] # NoTx =>
        /\ tx'[c] \in landed
        /\ cached'[c].role = hRole'[c] /\ cached'[c].version >= seen[c]
  BY <1>1, <1>2, <1>3, <1>4, <1>5, <1>6
<1> QED
  BY <1>0, <1>1, <1>2, <1>6, <1>7, <1>8, CallFreshInv

(* A phase of a call that ends without an Ok, or with the Ok of a call that *)
(* does not refresh.                                                       *)
LEMMA PhaseFreshInv ==
  ASSUME IInv, IInv', FreshInv, NEW c \in Client,
         \/ AbortRemoval(c) \/ AnswerThenRefresh(c) \/ AnswerSetRentClaimer(c)
         \/ AnswerPlain(c) \/ AnswerError(c) \/ RefreshError(c)
  PROVE  FreshInv'
<1>0. TypeOK /\ TypeOK'
  BY DEF IInv
<1>1. UNCHANGED <<version, net, landed, seen, calls, tx, hKey, hRole, cached>>
  BY DEF AbortRemoval, AnswerThenRefresh, AnswerSetRentClaimer, AnswerPlain, AnswerError,
         RefreshError, chain, cache, hist
<1>2. \/ pc' = [pc EXCEPT ![c] = "refreshing"] /\ ret' = ret
      \/ pc' = [pc EXCEPT ![c] = "idle"] /\ ret' = [ret EXCEPT ![c] = "err"]
      \/ /\ pc' = [pc EXCEPT ![c] = "idle"] /\ ret' = [ret EXCEPT ![c] = "ok"]
         /\ ~Refreshes(tx[c].op)
  BY DEF AbortRemoval, AnswerThenRefresh, AnswerSetRentClaimer, AnswerPlain, AnswerError,
         RefreshError, Return, Refreshes
<1>3. /\ \A d \in Client : d # c => pc'[d] = pc[d] /\ ret'[d] = ret[d]
      /\ pc'[c] \in {"idle", "refreshing"}
      /\ pc'[c] = "idle" /\ ret'[c] = "ok" => ~Refreshes(tx[c].op)
  BY <1>0, <1>2 DEF TypeOK
<1>4. \A d \in Client : calls'[d] >= calls[d]
  BY <1>0, <1>1 DEF TypeOK
<1>5. hKey'[c] = NoKey => tx'[c] = NoTx
  BY <1>1 DEF FreshInv, OkHasLanded
<1> QED
  BY <1>0, <1>1, <1>3, <1>4, <1>5, CallFreshInv

(* Beginning a removal, opening and switching: no transaction of before is *)
(* the handle's last one any more, or there has been none.                 *)
LEMMA BeginFreshInv ==
  ASSUME IInv, IInv', FreshInv, NEW c \in Client, NEW k \in Key,
         \/ LookupRemoval(c, k) \/ Open(c, k)
         \/ \E r \in RoleId : SwitchAuthority(c, r, k)
  PROVE  FreshInv'
<1>0. TypeOK /\ TypeOK'
  BY DEF IInv
<1>1. UNCHANGED <<version, net, landed, seen>>
  BY DEF LookupRemoval, Open, SwitchAuthority, chain, hist
<1>2. \A d \in Client : calls'[d] >= calls[d]
  <2>1. calls' = calls \/ calls' = [calls EXCEPT ![c] = calls[c] + 1]
    <3>1. LookupRemoval(c, k) \/ Open(c, k) => calls' = calls
      BY DEF LookupRemoval, Open, hist
    <3>2. ASSUME NEW r \in RoleId, SwitchAuthority(c, r, k)
          PROVE  calls' = [calls EXCEPT ![c] = calls[c] + 1]
      BY <3>2 DEF SwitchAuthority
    <3> QED
      BY <3>1, <3>2
  <2>2. calls \in [Client -> Nat]
    BY <1>0 DEF TypeOK
  <2> QED
    BY <2>1, <2>2
<1>3. tx'[c] = NoTx
  BY <1>0 DEF LookupRemoval, Open, SwitchAuthority, TypeOK, FreshInv, OkHasLanded
<1>4. \A d \in Client : d # c =>
        /\ pc'[d] = pc[d] /\ ret'[d] = ret[d] /\ tx'[d] = tx[d]
        /\ hKey'[d] = hKey[d] /\ hRole'[d] = hRole[d] /\ cached'[d] = cached[d]
  <2>1. CASE LookupRemoval(c, k)
    BY <1>0, <2>1 DEF LookupRemoval, TypeOK, cache
  <2>2. CASE Open(c, k)
    BY <1>0, <2>2 DEF Open, TypeOK
  <2>3. CASE \E r \in RoleId : SwitchAuthority(c, r, k)
    BY <1>0, <2>3 DEF SwitchAuthority, TypeOK
  <2> QED
    BY <2>1, <2>2, <2>3
<1> QED
  BY <1>0, <1>1, <1>2, <1>3, <1>4, CallFreshInv

LEMMA NextFreshInv == IInv /\ IInv' /\ FreshInv /\ [Next]_vars => FreshInv'
<1> SUFFICES ASSUME IInv, IInv', FreshInv, [Next]_vars PROVE FreshInv'
  OBVIOUS
<1>1. ASSUME UNCHANGED <<version, landed, seen, cache, pc, tx, ret, calls>>, net' \subseteq net
      PROVE  FreshInv'
  BY <1>1 DEF FreshInv, LandsOnce, SeenIsPast, OkHasLanded, PermissionsFreshAfterOk, cache
<1>2. ASSUME NEW c \in Client, Call(c) PROVE FreshInv'
  <2>1. ASSUME NEW op, NEW inner, NEW target, NEW subject, NEW method,
               Ready(c, method), Send(c, op, inner, target, subject)
        PROVE  FreshInv'
    BY <2>1, SendFreshInv DEF Ready, IInv, TypeOK
  <2> QED
    BY <1>2, <2>1, BeginFreshInv
    DEF Call, AddAuthority, UpdateAuthority, SignV2, SubAccountV1, SubAccountV2,
        CreateSession, SetRentClaimer
<1>3. ASSUME NEW c \in Client, Continue(c) PROVE FreshInv'
  <2>1. CASE RemoveAuthority(c)
    <3>1. hKey[c] \in Key
      BY <2>1 DEF RemoveAuthority, IInv, RunningCall
    <3> QED
      BY <2>1, <3>1, SendFreshInv DEF RemoveAuthority
  <2> QED
    BY <1>3, <2>1, PhaseFreshInv, RefreshFreshInv DEF Continue
<1>4. ASSUME NEW t \in net, Land(t) \/ Drop(t) PROVE FreshInv'
  BY <1>4, <1>1, LandFreshInv DEF Drop, chain, hist
<1> QED
  BY <1>1, <1>2, <1>3, <1>4 DEF Next, Tick, vars, cache, chain, hist

-----------------------------------------------------------------------------
(* Results.                                                                *)

(* The id that remove_authority resolved is still the named authority's    *)
(* when the removal executes, whatever was added and removed in between.   *)
THEOREM RemovalsAreOfTheNamed == Spec => RemovesTheNamedAuthority
<1> DEFINE Named == \A t \in landed' \ landed :
                      t.op = "RemoveAuthority" => roleKey[t.target] = t.subject
<1>1. Init => RemovalInv
  BY BoundAssumption DEF Init, RemovalInv, UnusedBeyond, RemovalsResolved, RoleId
<1>2. IInv /\ RemovalInv /\ [Next]_vars => RemovalInv'
  BY NextRemovalInv
<1>3. RemovalInv /\ [Next]_vars => [Named]_vars
  <2> SUFFICES ASSUME RemovalInv, Next, NEW t \in landed' \ landed, t.op = "RemoveAuthority"
               PROVE  roleKey[t.target] = t.subject
    OBVIOUS
  <2>1. ASSUME NEW c \in Client, Call(c) PROVE landed' = landed
    BY <2>1
    DEF Call, AddAuthority, LookupRemoval, UpdateAuthority, SignV2, SubAccountV1,
        SubAccountV2, CreateSession, SetRentClaimer, Open, SwitchAuthority, Send
  <2>2. ASSUME NEW c \in Client, Continue(c) PROVE landed' = landed
    BY <2>2
    DEF Continue, RemoveAuthority, AbortRemoval, AnswerThenRefresh, AnswerSetRentClaimer,
        AnswerPlain, AnswerError, Refresh, RefreshError, Send
  <2>3. PICK x \in net : Land(x)
    BY <2>1, <2>2 DEF Next, Drop, Tick
  <2>4. t = x /\ roleKey[t.target] # NoKey
    BY <2>3 DEF Land, Accepts
  <2> QED
    BY <2>4 DEF RemovalInv, RemovalsResolved, Resolved
<1> QED
  BY <1>1, <1>2, <1>3, Inductive, PTL DEF Spec, RemovesTheNamedAuthority

(* After the Ok of a refreshing call the cached permissions are those of   *)
(* the signer's role, no older than the call's own transaction.            *)
THEOREM PermissionsAreFresh == Spec => []PermissionsFreshAfterOk
<1>1. Init => FreshInv
  BY DEF Init, FreshInv, LandsOnce, SeenIsPast, OkHasLanded, PermissionsFreshAfterOk
<1>2. IInv /\ IInv' /\ FreshInv /\ [Next]_vars => FreshInv'
  BY NextFreshInv
<1>3. FreshInv => PermissionsFreshAfterOk
  BY DEF FreshInv
<1> QED
  BY <1>1, <1>2, <1>3, Inductive, PTL DEF Spec
=============================================================================
