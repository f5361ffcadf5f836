------------------------ MODULE AccountOpeningProofs ------------------------
(***************************************************************************)
(* Proofs about module AccountOpening, for every set of openers and keys   *)
(* and every bound.                                                        *)
(***************************************************************************)
EXTENDS AccountOpening, TLAPS

(* The next odometer is a number. *)
LEMMA AdvanceType ==
  ASSUME NEW a, NEW n \in Nat
  PROVE  Advance(a, n) \in Nat
  BY DEF Advance

(* Bounds of the model that proofs use. *)
LEMMA RoleFacts == RoleId \subseteq Nat /\ NoRole \in Nat /\ NoRole \notin RoleId
  BY BoundAssumption DEF RoleId, NoRole

(* A role that is live has an authority. *)
LEMMA RolesType ==
  ASSUME TypeOK, NEW r \in Roles
  PROVE  r \in RoleId /\ r < Len(granted) /\ AuthorityOf(r) \in Authority
<1>1. r \in RoleId /\ r < Len(granted) /\ r \in Nat
  BY RoleFacts DEF Roles
<1>2. granted \in Seq(Authority) /\ Len(granted) \in Nat /\ r + 1 \in 1 .. Len(granted)
  BY <1>1 DEF TypeOK
<1>. QED
  BY <1>1, <1>2 DEF AuthorityOf

Labels == {"idle", "creating", "sent", "created", "naming", "refreshing"}
Results == {"none", "error", "opened", "created"}

(* A step to a label, a return and a failure keep their variables typed. *)
LEMMA GotoType ==
  ASSUME TypeOK, NEW o \in Opener, NEW label \in Labels, Goto(o, label)
  PROVE  pc' \in [Opener -> Labels]
  BY DEF Goto, TypeOK, Labels

LEMMA ReturnType ==
  ASSUME TypeOK, NEW o \in Opener, NEW result \in Results, Return(o, result)
  PROVE  pc' \in [Opener -> Labels] /\ ret' \in [Opener -> Results]
  BY DEF Return, Goto, TypeOK, Labels, Results

LEMMA FaultType ==
  ASSUME TypeOK, NEW o \in Opener, Fault(o)
  PROVE  faults' \in 0 .. MaxFaults /\ failed' \in [Opener -> BOOLEAN]
  BY BoundAssumption DEF Fault, TypeOK

(* Opening an account keeps the opener's state well typed. *)
LEMMA LoadCurrentRoleType ==
  ASSUME TypeOK, NEW o \in Opener, LoadCurrentRole(o)
  PROVE  /\ handle' \in [Opener -> RoleId \cup {NoRole}]
         /\ hOdo' \in [Opener -> Nat]
         /\ pc' \in [Opener -> Labels]
         /\ ret' \in [Opener -> Results]
<1>1. CASE life = "swig" /\ RolesOf(AuthOf[o]) # {}
  <2>1. PICK r \in RolesOf(AuthOf[o]) : Enter(o, r, Synchronised(o, r))
    BY <1>1 DEF LoadCurrentRole
  <2>2. r \in RoleId
    BY <2>1, RolesType DEF RolesOf
  <2>3. Synchronised(o, r) \in Nat
    BY <2>2 DEF Synchronised, TypeOK
  <2>4. pc' \in [Opener -> Labels] /\ ret' \in [Opener -> Results]
    BY <2>1, ReturnType DEF Enter, Results
  <2>. QED
    BY <2>1, <2>2, <2>3, <2>4 DEF Enter, TypeOK
<1>2. CASE ~(life = "swig" /\ RolesOf(AuthOf[o]) # {})
  BY <1>2, ReturnType DEF LoadCurrentRole, Results, TypeOK
<1>. QED
  BY <1>1, <1>2

(* TypeOK is inductive, given that only a handle creates a sub-account. *)
LEMMA TypeStep ==
  ASSUME TypeOK, CallInv, [Next]_vars
  PROVE  TypeOK'
<1>. USE RoleFacts, BoundAssumption, OpenerAssumption
<1>1. ASSUME NEW o \in Opener, Open(o) PROVE TypeOK'
  <2>1. PICK read \in {life, "error"} :
          /\ IF read = "error" THEN Fault(o)
             ELSE failed' = [failed EXCEPT ![o] = FALSE] /\ UNCHANGED faults
          /\ IF read \in TakenForAbsent(kind)
             THEN Goto(o, "creating") /\ UNCHANGED <<handle, hOdo, ret>>
             ELSE IF read = "error"
                  THEN Return(o, "error") /\ UNCHANGED <<handle, hOdo>>
                  ELSE LoadCurrentRole(o)
    BY <1>1 DEF Open
  <2>2. faults' \in 0 .. MaxFaults /\ failed' \in [Opener -> BOOLEAN]
    BY <2>1, FaultType DEF TypeOK
  <2>3. /\ handle' \in [Opener -> RoleId \cup {NoRole}]
        /\ hOdo' \in [Opener -> Nat]
        /\ pc' \in [Opener -> Labels]
        /\ ret' \in [Opener -> Results]
    <3>1. CASE read \in TakenForAbsent(kind)
      BY <2>1, <3>1, GotoType DEF Labels, Results, TypeOK
    <3>2. CASE read \notin TakenForAbsent(kind) /\ read = "error"
      BY <2>1, <3>2, ReturnType DEF Results, TypeOK
    <3>3. CASE read \notin TakenForAbsent(kind) /\ read # "error"
      BY <2>1, <3>3, LoadCurrentRoleType
    <3>. QED
      BY <3>1, <3>2, <3>3
  <2>4. /\ calls' \in [Opener -> Nat]
        /\ before' \in [Opener -> Life]
        /\ tx' \in [Opener -> Tx \cup {NoTx}]
    BY <1>1 DEF Open, TypeOK
  <2>5. UNCHANGED <<kind, life, granted, revoked, odometer, subs, net, landed,
                    refused, subId, answers>>
    BY <1>1 DEF Open, chain, network
  <2>. QED
    BY <2>2, <2>3, <2>4, <2>5 DEF TypeOK, Labels, Results
<1>2. ASSUME NEW o \in Opener, SendCreate(o) PROVE TypeOK'
  <2>1. [call |-> <<o, calls[o]>>, op |-> "Create", before |-> before[o]] \in Tx
    BY DEF TypeOK, Tx, Call
  <2>. QED
    BY <1>2, <2>1 DEF SendCreate, Send, Goto, NoFault, TypeOK, chain
<1>3. ASSUME NEW o \in Opener, ReadBack(o) PROVE TypeOK'
  <2>1. /\ handle' \in [Opener -> RoleId \cup {NoRole}]
        /\ hOdo' \in [Opener -> Nat]
        /\ pc' \in [Opener -> Labels]
        /\ ret' \in [Opener -> Results]
    <3>1. CASE kind = "reserved"
      BY <1>3, <3>1, LoadCurrentRoleType DEF ReadBack, TypeOK
    <3>2. CASE kind # "reserved" /\ 0 \in Roles
      <4>1. Enter(o, 0, 0) /\ 0 \in RoleId
        BY <1>3, <3>2 DEF ReadBack, Roles
      <4>. QED
        BY <4>1, ReturnType DEF Enter, Results, TypeOK
    <3>3. CASE kind # "reserved" /\ 0 \notin Roles
      BY <1>3, <3>3, ReturnType DEF ReadBack, Results, TypeOK
    <3>. QED
      BY <3>1, <3>2, <3>3
  <2>. QED
    BY <1>3, <2>1 DEF ReadBack, NoFault, TypeOK, Labels, Results, chain, network
<1>4. ASSUME NEW o \in Opener, CreateSubAccount(o) PROVE TypeOK'
  <2>0. calls' \in [Opener -> Nat] /\ tx' \in [Opener -> Tx \cup {NoTx}]
    BY <1>4 DEF CreateSubAccount, TypeOK
  <2>1. CASE /\ subId' = [subId EXCEPT ![o] = Len(subs)]
             /\ Goto(o, "naming")
             /\ failed' = [failed EXCEPT ![o] = FALSE]
             /\ UNCHANGED <<faults, ret>>
    <3>1. Len(subs) \in Nat
      BY DEF TypeOK
    <3>2. pc' \in [Opener -> Labels]
      BY <2>1, GotoType DEF Labels
    <3>3. subId' \in [Opener -> Nat] /\ failed' \in [Opener -> BOOLEAN]
      BY <2>1, <3>1 DEF TypeOK
    <3>. QED
      BY <1>4, <2>0, <2>1, <3>2, <3>3
      DEF CreateSubAccount, TypeOK, Labels, chain, network
  <2>2. CASE Fault(o) /\ Return(o, "error") /\ UNCHANGED subId
    <3>1. faults' \in 0 .. MaxFaults /\ failed' \in [Opener -> BOOLEAN]
      BY <2>2, FaultType
    <3>2. pc' \in [Opener -> Labels] /\ ret' \in [Opener -> Results]
      BY <2>2, ReturnType DEF Results
    <3>. QED
      BY <1>4, <2>0, <2>2, <3>1, <3>2
      DEF CreateSubAccount, TypeOK, Labels, Results, chain, network
  <2>. QED
    BY <1>4, <2>1, <2>2 DEF CreateSubAccount
<1>5. ASSUME NEW o \in Opener, SendSubAccount(o), handle[o] # NoRole PROVE TypeOK'
  <2> DEFINE t == [call |-> <<o, calls[o]>>, op |-> "SubAccount", role |-> handle[o],
                   id |-> subId[o], counter |-> Advance(AuthOf[o], hOdo[o])]
  <2>1. t \in Tx
    BY <1>5, AdvanceType DEF TypeOK, Tx, Call
  <2>2. pc' \in [Opener -> Labels] /\ tx' = [tx EXCEPT ![o] = t] /\ net' = net \cup {t}
    BY <1>5, GotoType DEF SendSubAccount, Send, Labels
  <2>. HIDE DEF t
  <2>. QED
    BY <1>5, <2>1, <2>2 DEF SendSubAccount, NoFault, TypeOK, Labels, chain
<1>6. ASSUME NEW o \in Opener, Refresh(o) PROVE TypeOK'
  <2>1. Advance(AuthOf[o], hOdo[o]) \in Nat
    BY AdvanceType DEF TypeOK
  <2>2. [call |-> <<o, calls[o]>>, id |-> subId[o]] \in [call : Call, id : Nat]
    BY DEF TypeOK, Call
  <2>3. pc' \in [Opener -> Labels] /\ ret' \in [Opener -> Results]
    BY <1>6, ReturnType DEF Refresh, Results
  <2>4. hOdo' \in [Opener -> Nat] /\ answers' \subseteq [call : Call, id : Nat]
    <3>1. CASE handle[o] \in Roles
      <4>1. /\ hOdo' = [hOdo EXCEPT ![o] = Advance(AuthOf[o], hOdo[o])]
            /\ answers' = answers \cup {[call |-> <<o, calls[o]>>, id |-> subId[o]]}
        BY <1>6, <3>1 DEF Refresh
      <4>2. hOdo' \in [Opener -> Nat]
        BY <4>1, <2>1 DEF TypeOK
      <4>3. answers' \subseteq [call : Call, id : Nat]
        BY <4>1, <2>2 DEF TypeOK
      <4>. QED
        BY <4>2, <4>3
    <3>2. CASE handle[o] \notin Roles
      BY <1>6, <3>2 DEF Refresh, TypeOK
    <3>. QED
      BY <3>1, <3>2
  <2>. QED
    BY <1>6, <2>3, <2>4 DEF Refresh, NoFault, TypeOK, Labels, Results, chain, network
<1>7. ASSUME NEW o \in Opener, Confirm(o) PROVE TypeOK'
  <2>1. pc' \in [Opener -> Labels]
    BY <1>7, GotoType DEF Confirm, Labels
  <2>. QED
    BY <1>7, <2>1 DEF Confirm, NoFault, TypeOK, Labels, chain, network
<1>8. ASSUME NEW o \in Opener, Rejected(o) PROVE TypeOK'
  <2>1. pc' \in [Opener -> Labels] /\ ret' \in [Opener -> Results]
    BY <1>8, ReturnType DEF Rejected, Results
  <2>. QED
    BY <1>8, <2>1 DEF Rejected, NoFault, TypeOK, Labels, Results, chain, network
<1>9. ASSUME NEW o \in Opener, LoseAnswer(o) PROVE TypeOK'
  <2>1. pc' \in [Opener -> Labels] /\ ret' \in [Opener -> Results]
    BY <1>9, ReturnType DEF LoseAnswer, Results
  <2>2. faults' \in 0 .. MaxFaults /\ failed' \in [Opener -> BOOLEAN]
    BY <1>9, FaultType DEF LoseAnswer
  <2>. QED
    BY <1>9, <2>1, <2>2 DEF LoseAnswer, TypeOK, Labels, Results, chain
<1>10. ASSUME NEW o \in Opener, StepFails(o) PROVE TypeOK'
  <2>1. pc' \in [Opener -> Labels] /\ ret' \in [Opener -> Results]
    BY <1>10, ReturnType DEF StepFails, Results
  <2>2. faults' \in 0 .. MaxFaults /\ failed' \in [Opener -> BOOLEAN]
    BY <1>10, FaultType DEF StepFails
  <2>. QED
    BY <1>10, <2>1, <2>2 DEF StepFails, TypeOK, Labels, Results, chain, network
<1>11. ASSUME NEW t \in net, Land(t) PROVE TypeOK'
  <2>1. CASE LandCreate(t)
    <3>1. t \in Tx /\ t.call[1] \in Opener
      BY <1>11, <2>1 DEF TypeOK, Tx, Call
    <3>2. granted' \in Seq(Authority) /\ Len(granted') = 1
      BY <2>1, <3>1 DEF LandCreate
    <3>3. net' \subseteq Tx /\ landed' \subseteq Tx /\ life' \in Life
      BY <1>11, <2>1, <3>1 DEF Land, LandCreate, TypeOK, Life
    <3>. QED
      BY <1>11, <2>1, <3>2, <3>3 DEF Land, LandCreate, handles, TypeOK
  <2>2. CASE LandSubAccount(t)
    <3>1. t \in Tx /\ t.call \in Call /\ t.role \in RoleId /\ t.role \in Roles
      BY <1>11, <2>2 DEF TypeOK, Tx, LandSubAccount, Acceptable, Roles
    <3>2. Append(subs, t.call) \in Seq(Call)
      BY <3>1 DEF TypeOK
    <3>3. Advance(AuthorityOf(t.role), odometer[t.role]) \in Nat
      BY <3>1, AdvanceType DEF TypeOK
    <3>4. odometer' \in [RoleId -> Nat]
      BY <2>2, <3>1, <3>3 DEF LandSubAccount, TypeOK
    <3>. QED
      BY <1>11, <2>2, <3>2, <3>4 DEF Land, LandSubAccount, handles, TypeOK
  <2>. QED
    BY <1>11, <2>1, <2>2 DEF Land
<1>12. ASSUME NEW t \in net, Refuse(t) PROVE TypeOK'
  BY <1>12 DEF Refuse, handles, chain, TypeOK
<1>13. ASSUME Deposit PROVE TypeOK'
  BY <1>13 DEF Deposit, handles, network, TypeOK, Life
<1>14. ASSUME NEW a \in Authority, Grant(a) PROVE TypeOK'
  <2>1. Append(granted, a) \in Seq(Authority) /\ Len(Append(granted, a)) = Len(granted) + 1
    BY DEF TypeOK
  <2>. QED
    BY <1>14, <2>1 DEF Grant, handles, network, TypeOK
<1>15. ASSUME NEW r \in RoleId, Revoke(r) PROVE TypeOK'
  BY <1>15 DEF Revoke, handles, network, TypeOK
<1>16. ASSUME NEW r \in RoleId, Use(r) PROVE TypeOK'
  BY <1>16 DEF Use, handles, network, TypeOK
<1>17. CASE UNCHANGED vars
  BY <1>17 DEF vars, TypeOK
<1>18. \A o \in Opener : SendSubAccount(o) => handle[o] # NoRole
  BY DEF CallInv, SendSubAccount
<1>. QED
  BY <1>18, <1>1, <1>2, <1>3, <1>4, <1>5, <1>6, <1>7, <1>8, <1>9, <1>10, <1>11, <1>12, <1>13,
     <1>14, <1>15, <1>16, <1>17 DEF Next, OpenerNext

(* An opener's step leaves the account and every verdict on a transaction  *)
(* alone; a step of the program or of others leaves the openers alone.     *)
LEMMA OpenerFrame ==
  ASSUME NEW o \in Opener, OpenerNext(o)
  PROVE  UNCHANGED <<kind, life, granted, revoked, odometer, subs, landed, refused>>
  BY DEF OpenerNext, Open, SendCreate, ReadBack, CreateSubAccount, SendSubAccount,
         Refresh, Confirm, Rejected, LoseAnswer, StepFails, chain, network

Others ==
  \/ \E t \in net : Land(t) \/ Refuse(t)
  \/ Deposit
  \/ \E a \in Authority : Grant(a)
  \/ \E r \in RoleId : Revoke(r) \/ Use(r)

LEMMA OthersFrame ==
  ASSUME Others
  PROVE  UNCHANGED <<kind, pc, calls, before, tx, handle, hOdo, subId, answers>>
  BY DEF Others, Land, Refuse, Deposit, Grant, Revoke, Use, handles

LEMMA NextCases ==
  ASSUME [Next]_vars
  PROVE  (\E o \in Opener : OpenerNext(o)) \/ Others \/ UNCHANGED vars
  BY DEF Next, Others

(* The account comes into being once. *)
LEMMA AccountStep ==
  ASSUME TypeOK, CallInv, AccountInv, [Next]_vars
  PROVE  AccountInv'
<1>1. ASSUME UNCHANGED <<kind, life, granted, landed>> PROVE AccountInv'
  BY <1>1 DEF AccountInv
<1>2. ASSUME NEW o \in Opener, OpenerNext(o) PROVE AccountInv'
  BY <1>1, <1>2, OpenerFrame
<1>3. ASSUME NEW t \in net, Land(t), LandCreate(t) PROVE AccountInv'
  <2>1. life \in {"absent", "prefunded"} /\ t.op = "Create" /\ life' = "swig"
    BY <1>3 DEF LandCreate, Acceptable
  <2>2. landed' = landed \cup {t} /\ kind' = kind
    BY <1>3 DEF Land
  <2>3. \A u \in landed : u.op # "Create"
    BY <2>1 DEF AccountInv
  <2>4. granted' = <<IF kind = "reserved" THEN Owner ELSE AuthOf[t.call[1]]>>
    BY <1>3 DEF LandCreate
  <2>5. /\ granted' # << >>
        /\ kind = "legacy" => granted'[1] = AuthOf[t.call[1]]
        /\ kind = "reserved" => granted'[1] = Owner
    BY <2>4
  <2>. QED
    BY <2>1, <2>2, <2>3, <2>5 DEF AccountInv
<1>4. ASSUME NEW t \in net, Land(t), LandSubAccount(t) PROVE AccountInv'
  BY <1>4 DEF Land, LandSubAccount, AccountInv
<1>5. ASSUME NEW t \in net, Refuse(t) PROVE AccountInv'
  BY <1>1, <1>5 DEF Refuse, chain
<1>6. CASE Deposit
  BY <1>6 DEF Deposit, network, AccountInv
<1>7. ASSUME NEW a \in Authority, Grant(a) PROVE AccountInv'
  <2>1. life = "swig" /\ granted \in Seq(Authority) /\ granted' = Append(granted, a)
    BY <1>7 DEF Grant, TypeOK
  <2>2. granted # << >>
    BY <2>1 DEF AccountInv
  <2>3. granted' # << >> /\ granted'[1] = granted[1]
    BY <2>1, <2>2
  <2>. QED
    BY <1>7, <2>1, <2>3 DEF Grant, network, AccountInv
<1>8. ASSUME NEW r \in RoleId, Revoke(r) \/ Use(r) PROVE AccountInv'
  BY <1>1, <1>8 DEF Revoke, Use, network
<1>9. CASE UNCHANGED vars
  BY <1>1, <1>9 DEF vars
<1>. QED
  BY <1>2, <1>3, <1>4, <1>5, <1>6, <1>7, <1>8, <1>9, NextCases DEF Others, Land

(* A landed sub-account keeps its id: sub-accounts are only appended. *)
LEMMA SubAccountStep ==
  ASSUME TypeOK, SubAccountInv, SubAccountIdsAreOwn, CallInv, [Next]_vars
  PROVE  SubAccountInv' /\ SubAccountIdsAreOwn'
<1>1. ASSUME UNCHANGED <<subs, landed, answers>> PROVE SubAccountInv' /\ SubAccountIdsAreOwn'
  BY <1>1 DEF SubAccountInv, SubAccountIdsAreOwn
<1>2. ASSUME NEW o \in Opener, Refresh(o) PROVE SubAccountInv' /\ SubAccountIdsAreOwn'
  <2>1. UNCHANGED <<subs, landed>>
    BY <1>2 DEF Refresh, chain, network
  <2>2. /\ tx[o] \in landed /\ tx[o].op = "SubAccount"
        /\ tx[o].call = <<o, calls[o]>> /\ tx[o].id = subId[o]
    BY <1>2 DEF Refresh, CallInv
  <2>3. subId[o] < Len(subs) /\ subs[subId[o] + 1] = <<o, calls[o]>>
    BY <2>2 DEF SubAccountInv
  <2>4. answers' \subseteq answers \cup {[call |-> <<o, calls[o]>>, id |-> subId[o]]}
    BY <1>2 DEF Refresh
  <2>. QED
    BY <2>1, <2>3, <2>4 DEF SubAccountInv, SubAccountIdsAreOwn
<1>3. ASSUME NEW o \in Opener, OpenerNext(o), ~Refresh(o)
      PROVE  SubAccountInv' /\ SubAccountIdsAreOwn'
  BY <1>1, <1>3, OpenerFrame
  DEF OpenerNext, Open, SendCreate, ReadBack, CreateSubAccount, SendSubAccount,
      Confirm, Rejected, LoseAnswer, StepFails
<1>4. ASSUME NEW t \in net, Land(t), LandSubAccount(t)
      PROVE  SubAccountInv' /\ SubAccountIdsAreOwn'
  <2>1. /\ t \in Tx /\ t.op = "SubAccount" /\ t.id = Len(subs)
        /\ subs' = Append(subs, t.call) /\ landed' = landed \cup {t}
        /\ answers' = answers
    BY <1>4 DEF Land, LandSubAccount, Acceptable, handles, TypeOK
  <2>2. subs \in Seq(Call) /\ t.call \in Call
    BY <2>1 DEF TypeOK, Tx
  <2>3. /\ Len(subs') = Len(subs) + 1 /\ subs'[Len(subs) + 1] = t.call
        /\ \A i \in 1 .. Len(subs) : subs'[i] = subs[i]
        /\ Len(subs) \in Nat
    BY <2>1, <2>2
  <2>4. \A n \in Nat : n < Len(subs) => n < Len(subs') /\ subs'[n + 1] = subs[n + 1]
    BY <2>3
  <2>5. SubAccountIdsAreOwn'
    BY <2>1, <2>4 DEF SubAccountIdsAreOwn, TypeOK
  <2>6. \A u \in landed : u.op = "SubAccount" => u.id \in Nat
    BY DEF TypeOK, Tx
  <2>7. SubAccountInv'
    BY <2>1, <2>3, <2>4, <2>6 DEF SubAccountInv
  <2>. QED
    BY <2>5, <2>7
<1>5. ASSUME NEW t \in net, Land(t), LandCreate(t)
      PROVE  SubAccountInv' /\ SubAccountIdsAreOwn'
  BY <1>5 DEF Land, LandCreate, handles, SubAccountInv, SubAccountIdsAreOwn
<1>6. CASE Others /\ ~(\E t \in net : Land(t))
  BY <1>1, <1>6 DEF Others, Refuse, Deposit, Grant, Revoke, Use, handles, network, chain
<1>7. CASE UNCHANGED vars
  BY <1>1, <1>7 DEF vars
<1>. QED
  BY <1>2, <1>3, <1>4, <1>5, <1>6, <1>7, NextCases DEF Land

(* An activation under way, or refused, saw no wallet. *)
LEMMA ActivationStep ==
  ASSUME TypeOK, ActivationInv, [Next]_vars
  PROVE  ActivationInv'
<1>1. ASSUME UNCHANGED <<kind, pc, before>>, life' = life \/ life' # "invalid",
             net' \cup refused' \subseteq net \cup refused
      PROVE  ActivationInv'
  BY <1>1 DEF ActivationInv
<1>2. ASSUME NEW o \in Opener, Open(o) PROVE ActivationInv'
  <2>1. UNCHANGED <<kind, life, net, refused>> /\ before' = [before EXCEPT ![o] = life]
    BY <1>2 DEF Open, chain, network
  <2>2. \A p \in Opener : p # o => pc'[p] = pc[p] /\ before'[p] = before[p]
    BY <1>2, <2>1 DEF Open, Goto, Return, LoadCurrentRole, Enter, TypeOK
  <2>3. pc'[o] = "creating" /\ kind = "reserved" => life \in {"absent", "prefunded"}
    BY <1>2 DEF Open, Goto, Return, LoadCurrentRole, Enter, TakenForAbsent, TypeOK
  <2>4. before'[o] = life
    BY <2>1 DEF TypeOK
  <2>. QED
    BY <2>1, <2>2, <2>3, <2>4 DEF ActivationInv
<1>3. ASSUME NEW o \in Opener, SendCreate(o) PROVE ActivationInv'
  <2> DEFINE t == [call |-> <<o, calls[o]>>, op |-> "Create", before |-> before[o]]
  <2>1. pc[o] = "creating" /\ net' = net \cup {t} /\ pc' = [pc EXCEPT ![o] = "sent"]
    BY <1>3 DEF SendCreate, Send, Goto
  <2>2. UNCHANGED <<kind, life, refused, before>>
    BY <1>3 DEF SendCreate, chain
  <2>. QED
    BY <2>1, <2>2 DEF ActivationInv, TypeOK
<1>4. ASSUME NEW o \in Opener, SendSubAccount(o) PROVE ActivationInv'
  <2>1. PICK t : t.op = "SubAccount" /\ net' = net \cup {t}
    BY <1>4 DEF SendSubAccount, Send
  <2>2. pc' = [pc EXCEPT ![o] = "sent"] /\ UNCHANGED <<kind, life, refused, before>>
    BY <1>4 DEF SendSubAccount, Send, Goto, chain
  <2>. QED
    BY <2>1, <2>2 DEF ActivationInv, TypeOK
<1>5. ASSUME NEW o \in Opener, OpenerNext(o), ~Open(o), ~SendCreate(o), ~SendSubAccount(o)
      PROVE  ActivationInv'
  <2>1. UNCHANGED <<kind, life, refused, before>> /\ net' \subseteq net
    BY <1>5 DEF OpenerNext, ReadBack, CreateSubAccount, Refresh, Confirm, Rejected,
                LoseAnswer, StepFails, chain, network
  <2>2. \A p \in Opener : pc'[p] = "creating" => pc[p] = "creating"
    BY <1>5 DEF OpenerNext, ReadBack, CreateSubAccount, Refresh, Confirm, Rejected,
                LoseAnswer, StepFails, Goto, Return, Enter, LoadCurrentRole, TypeOK
  <2>. QED
    BY <2>1, <2>2 DEF ActivationInv
<1>6. CASE Others
  <2>1. life' = life \/ life' # "invalid"
    BY <1>6 DEF Others, Land, LandCreate, LandSubAccount, Refuse, Deposit, Grant, Revoke,
                Use, chain
  <2>2. net' \cup refused' \subseteq net \cup refused
    BY <1>6 DEF Others, Land, Refuse, Deposit, Grant, Revoke, Use, network
  <2>. QED
    BY <1>1, <1>6, <2>1, <2>2, OthersFrame
<1>7. CASE UNCHANGED vars
  BY <1>1, <1>7 DEF vars
<1>. QED
  BY <1>2, <1>3, <1>4, <1>5, <1>6, <1>7, NextCases

(* A handle's role keeps its authority, since ids are only appended, and   *)
(* new takes role 0 only of the account its own transaction created.       *)
LEMMA HandleStep ==
  ASSUME TypeOK, AccountInv, CallInv, HandleHoldsItsRole, [Next]_vars
  PROVE  HandleHoldsItsRole'
<1>1. ASSUME UNCHANGED <<handle, granted>> PROVE HandleHoldsItsRole'
  BY <1>1 DEF HandleHoldsItsRole, AuthorityOf
<1>2. ASSUME NEW o \in Opener, NEW r \in Roles, NEW n, Enter(o, r, n),
             AuthorityOf(r) = AuthOf[o], granted' = granted
      PROVE  HandleHoldsItsRole'
  <2>1. r < Len(granted) /\ handle' = [handle EXCEPT ![o] = r]
    BY <1>2 DEF Enter, Roles
  <2>. QED
    BY <1>2, <2>1 DEF HandleHoldsItsRole, AuthorityOf, TypeOK
<1>3. ASSUME NEW o \in Opener, LoadCurrentRole(o), granted' = granted
      PROVE  HandleHoldsItsRole'
  BY <1>1, <1>2, <1>3 DEF LoadCurrentRole, RolesOf
<1>4. ASSUME NEW o \in Opener, Open(o) PROVE HandleHoldsItsRole'
  BY <1>1, <1>3, <1>4 DEF Open, chain
<1>5. ASSUME NEW o \in Opener, ReadBack(o) PROVE HandleHoldsItsRole'
  <2>1. granted' = granted
    BY <1>5 DEF ReadBack, chain
  <2>2. ASSUME kind # "reserved", 0 \in Roles PROVE AuthorityOf(0) = AuthOf[o]
    <3>1. tx[o] \in landed /\ tx[o].op = "Create" /\ tx[o].call = <<o, calls[o]>>
      BY <1>5 DEF ReadBack, CallInv
    <3>2. kind = "legacy"
      BY <2>2 DEF TypeOK
    <3>3. granted[1] = AuthOf[o]
      BY <3>1, <3>2 DEF AccountInv
    <3>. QED
      BY <3>3 DEF AuthorityOf
  <2>. QED
    BY <1>1, <1>2, <1>3, <1>5, <2>1, <2>2 DEF ReadBack
<1>6. ASSUME NEW o \in Opener, OpenerNext(o), ~Open(o), ~ReadBack(o)
      PROVE  HandleHoldsItsRole'
  BY <1>1, <1>6, OpenerFrame
  DEF OpenerNext, SendCreate, CreateSubAccount, SendSubAccount, Refresh, Confirm,
      Rejected, LoseAnswer, StepFails
<1>7. ASSUME NEW t \in net, Land(t), LandCreate(t) PROVE HandleHoldsItsRole'
  <2>1. granted = << >> /\ handle' = handle
    BY <1>7 DEF Land, LandCreate, Acceptable, AccountInv, handles
  <2>2. \A o \in Opener : handle[o] = NoRole
    <3>1. Len(granted) = 0
      BY <2>1
    <3>2. \A o \in Opener : handle[o] \in Nat
      BY RoleFacts DEF TypeOK
    <3>. QED
      BY <3>1, <3>2 DEF HandleHoldsItsRole
  <2>. QED
    BY <2>1, <2>2 DEF HandleHoldsItsRole
<1>8. ASSUME NEW a \in Authority, Grant(a) PROVE HandleHoldsItsRole'
  <2>1. granted \in Seq(Authority) /\ granted' = Append(granted, a) /\ handle' = handle
    BY <1>8 DEF Grant, TypeOK, handles
  <2>2. ASSUME NEW n \in Nat, n < Len(granted)
        PROVE  n < Len(granted') /\ granted'[n + 1] = granted[n + 1]
    BY <2>1, <2>2
  <2>. QED
    BY <2>1, <2>2, RoleFacts DEF HandleHoldsItsRole, AuthorityOf, TypeOK
<1>9. ASSUME \/ \E t \in net : (Land(t) /\ LandSubAccount(t)) \/ Refuse(t)
             \/ Deposit
             \/ \E r \in RoleId : Revoke(r) \/ Use(r)
      PROVE  HandleHoldsItsRole'
  BY <1>1, <1>9 DEF Land, LandSubAccount, Refuse, Deposit, Revoke, Use, handles, chain
<1>10. CASE UNCHANGED vars
  BY <1>1, <1>10 DEF vars
<1>. QED
  BY <1>4, <1>5, <1>6, <1>7, <1>8, <1>9, <1>10, NextCases DEF Others, Land

(* A refused activation was beaten by another call's. *)
LEMMA RefusedStep ==
  ASSUME TypeOK, AccountInv, CallInv, ActivationInv, RefusedActivationsLostARace,
         [Next]_vars
  PROVE  RefusedActivationsLostARace'
<1>1. ASSUME UNCHANGED <<kind, refused>>, landed \subseteq landed'
      PROVE  RefusedActivationsLostARace'
  BY <1>1 DEF RefusedActivationsLostARace
<1>2. ASSUME NEW o \in Opener, OpenerNext(o) PROVE RefusedActivationsLostARace'
  BY <1>1, <1>2, OpenerFrame
<1>3. ASSUME NEW t \in net, Refuse(t) PROVE RefusedActivationsLostARace'
  <2>1. UNCHANGED <<kind, landed>> /\ refused' = refused \cup {t}
    BY <1>3 DEF Refuse
  <2>2. ASSUME t.op = "Create", kind = "reserved"
        PROVE  /\ t.before \in {"absent", "prefunded"}
               /\ \E w \in landed : w.op = "Create" /\ w.call # t.call
    <3>1. t.before \in {"absent", "prefunded"} /\ life # "invalid"
      BY <2>2 DEF ActivationInv
    <3>2. life = "swig"
      BY <1>3, <2>2, <3>1 DEF Refuse, Sure, Acceptable, TypeOK, Life
    <3>3. PICK w \in landed : w.op = "Create"
      BY <3>2 DEF AccountInv
    <3>4. w # t /\ w.call # t.call
      BY <3>3 DEF CallInv
    <3>. QED
      BY <3>1, <3>3, <3>4
  <2>. QED
    BY <2>1, <2>2 DEF RefusedActivationsLostARace
<1>4. ASSUME \/ \E t \in net : Land(t)
             \/ Deposit
             \/ \E a \in Authority : Grant(a)
             \/ \E r \in RoleId : Revoke(r) \/ Use(r)
      PROVE  RefusedActivationsLostARace'
  BY <1>1, <1>4 DEF Land, Deposit, Grant, Revoke, Use, network
<1>5. CASE UNCHANGED vars
  BY <1>1, <1>5 DEF vars
<1>. QED
  BY <1>2, <1>3, <1>4, <1>5, NextCases DEF Others

Sent == net \cup landed \cup refused

(* The part of CallInv about one opener. *)
OpenerInv(o) ==
  /\ pc[o] \in {"creating", "naming"} => \A t \in Sent : t.call # <<o, calls[o]>>
  /\ pc[o] \in {"sent", "created", "refreshing"} =>
       /\ tx[o] # NoTx /\ tx[o].call = <<o, calls[o]>>
       /\ tx[o].op = "SubAccount" => tx[o].id = subId[o] /\ handle[o] # NoRole
  /\ pc[o] = "created" => tx[o] \in landed /\ tx[o].op = "Create"
  /\ pc[o] = "refreshing" => tx[o] \in landed /\ tx[o].op = "SubAccount"
  /\ pc[o] = "naming" => handle[o] # NoRole

LEMMA CallInvParts ==
  CallInv <=>
    /\ net \cap (landed \cup refused) = {} /\ landed \cap refused = {}
    /\ \A t, u \in Sent : t.call = u.call => t = u
    /\ \A t \in Sent : t.call[2] <= calls[t.call[1]]
    /\ \A o \in Opener : OpenerInv(o)
  BY DEF CallInv, OpenerInv, Sent

LEMMA CallInvPartsNext ==
  CallInv' <=>
    /\ net' \cap (landed' \cup refused') = {} /\ landed' \cap refused' = {}
    /\ \A t, u \in Sent' : t.call = u.call => t = u
    /\ \A t \in Sent' : t.call[2] <= calls'[t.call[1]]
    /\ \A o \in Opener : OpenerInv(o)'
  BY DEF CallInv, OpenerInv, Sent

(* An opener's step leaves the other openers alone. *)
LEMMA OtherOpeners ==
  ASSUME TypeOK, NEW o \in Opener, OpenerNext(o), NEW p \in Opener, p # o
  PROVE  /\ pc'[p] = pc[p] /\ tx'[p] = tx[p] /\ calls'[p] = calls[p]
         /\ subId'[p] = subId[p] /\ handle'[p] = handle[p] /\ hOdo'[p] = hOdo[p]
<1>1. CASE Open(o)
  BY <1>1 DEF Open, Goto, Return, LoadCurrentRole, Enter, TypeOK
<1>2. CASE SendCreate(o) \/ SendSubAccount(o)
  BY <1>2 DEF SendCreate, SendSubAccount, Send, Goto, TypeOK
<1>3. CASE ReadBack(o)
  BY <1>3 DEF ReadBack, Return, Goto, LoadCurrentRole, Enter, TypeOK
<1>4. CASE CreateSubAccount(o) \/ Refresh(o) \/ Confirm(o)
  BY <1>4 DEF CreateSubAccount, Refresh, Confirm, Return, Goto, TypeOK
<1>5. CASE Rejected(o) \/ LoseAnswer(o) \/ StepFails(o)
  BY <1>5 DEF Rejected, LoseAnswer, StepFails, Return, Goto, TypeOK
<1>. QED
  BY <1>1, <1>2, <1>3, <1>4, <1>5 DEF OpenerNext

(* A step that sends nothing keeps what is known of the transactions. *)
LEMMA NothingSent ==
  ASSUME TypeOK, CallInv, UNCHANGED <<landed, refused>>, net' \subseteq net,
         \A p \in Opener : calls'[p] \in Nat /\ calls[p] <= calls'[p]
  PROVE  /\ net' \cap (landed' \cup refused') = {} /\ landed' \cap refused' = {}
         /\ \A t, u \in Sent' : t.call = u.call => t = u
         /\ \A t \in Sent' : t.call[2] <= calls'[t.call[1]]
         /\ Sent' \subseteq Sent
<1>1. Sent' \subseteq Sent
  BY DEF Sent
<1>2. \A t \in Sent : t.call[1] \in Opener /\ t.call[2] \in Nat
  BY DEF Sent, TypeOK, Tx, Call
<1>3. \A t \in Sent : t.call[2] <= calls[t.call[1]] /\ calls[t.call[1]] \in Nat
  BY <1>2, CallInvParts DEF TypeOK
<1>4. \A t \in Sent' : t.call[2] <= calls'[t.call[1]]
  BY <1>1, <1>2, <1>3
<1>. QED
  BY <1>1, <1>4, CallInvParts

(* A call begins under a number no transaction carries. *)
LEMMA NewCall ==
  ASSUME TypeOK, CallInv, NEW o \in Opener, NEW t \in Sent
  PROVE  t.call # <<o, calls[o] + 1>>
<1>1. t.call \in Opener \X Nat /\ calls[o] \in Nat
  BY DEF Sent, TypeOK, Tx, Call
<1>2. t.call[2] <= calls[t.call[1]]
  BY CallInvParts
<1>. QED
  BY <1>1, <1>2

(* One transaction is sent under the number of the running call. *)
LEMMA OneSent ==
  ASSUME TypeOK, CallInv, NEW o \in Opener, NEW t \in Tx, OpenerNext(o),
         net' = net \cup {t}, t.call = <<o, calls[o]>>, calls' = calls,
         pc[o] \in {"creating", "naming"}, pc'[o] = "sent", tx'[o] = t,
         t.op = "SubAccount" => t.id = subId'[o] /\ handle'[o] # NoRole
  PROVE  CallInv'
<1>1. UNCHANGED <<landed, refused>> /\ Sent' = Sent \cup {t}
  BY OpenerFrame DEF Sent
<1>2. \A u \in Sent : u.call # t.call
  BY CallInvParts DEF OpenerInv
<1>3. t \notin Sent
  BY <1>2
<1>4. net' \cap (landed' \cup refused') = {} /\ landed' \cap refused' = {}
  BY <1>1, <1>3, CallInvParts DEF Sent
<1>5. \A u, v \in Sent' : u.call = v.call => u = v
  BY <1>1, <1>2, CallInvParts
<1>6. \A u \in Sent' : u.call[2] <= calls'[u.call[1]]
  <2>1. calls[o] \in Nat /\ t.call[2] <= calls[t.call[1]]
    BY DEF TypeOK
  <2>. QED
    BY <1>1, <2>1, CallInvParts
<1>7. t # NoTx
  BY DEF Tx, NoTx
<1>8. OpenerInv(o)'
  BY <1>7 DEF OpenerInv
<1>9. ASSUME NEW p \in Opener, p # o PROVE OpenerInv(p)'
  <2>1. /\ pc'[p] = pc[p] /\ tx'[p] = tx[p] /\ calls'[p] = calls[p]
        /\ subId'[p] = subId[p] /\ handle'[p] = handle[p]
    BY <1>9, OtherOpeners
  <2>2. OpenerInv(p) /\ t.call # <<p, calls[p]>>
    BY <1>9, CallInvParts
  <2>. QED
    BY <1>1, <2>1, <2>2 DEF OpenerInv
<1>10. \A p \in Opener : OpenerInv(p)'
  BY <1>8, <1>9
<1>. QED
  BY <1>4, <1>5, <1>6, <1>10, CallInvPartsNext

(* A step that sends nothing keeps CallInv if it keeps the opener's part. *)
LEMMA OneMoves ==
  ASSUME TypeOK, CallInv, NEW o \in Opener, OpenerNext(o), net' \subseteq net,
         calls'[o] \in Nat, calls[o] <= calls'[o], OpenerInv(o)'
  PROVE  CallInv'
<1>1. UNCHANGED <<landed, refused>>
  BY OpenerFrame
<1>2. ASSUME NEW p \in Opener PROVE calls'[p] \in Nat /\ calls[p] <= calls'[p]
  <2>1. CASE p = o
    BY <2>1
  <2>2. CASE p # o
    <3>1. calls'[p] = calls[p]
      BY <2>2, OtherOpeners
    <3>2. calls[p] \in Nat
      BY DEF TypeOK
    <3>. QED
      BY <3>1, <3>2
  <2>. QED
    BY <2>1, <2>2
<1>3. ASSUME NEW p \in Opener, p # o PROVE OpenerInv(p)'
  <2>1. /\ pc'[p] = pc[p] /\ tx'[p] = tx[p] /\ calls'[p] = calls[p]
        /\ subId'[p] = subId[p] /\ handle'[p] = handle[p]
    BY <1>3, OtherOpeners
  <2>2. OpenerInv(p) /\ Sent' \subseteq Sent
    BY <1>1, CallInvParts DEF Sent
  <2>. QED
    BY <1>1, <2>1, <2>2 DEF OpenerInv
<1>. QED
  BY <1>1, <1>2, <1>3, NothingSent, CallInvPartsNext

(* A transaction that meets its fate stays what it was. *)
LEMMA FateKeepsCalls ==
  ASSUME CallInv, NEW t \in net, net' = net \ {t},
         \/ landed' = landed \cup {t} /\ refused' = refused
         \/ refused' = refused \cup {t} /\ landed' = landed,
         UNCHANGED <<pc, calls, tx, handle, subId>>
  PROVE  CallInv'
<1>1. Sent' = Sent /\ landed \subseteq landed'
  BY DEF Sent
<1>2. net' \cap (landed' \cup refused') = {} /\ landed' \cap refused' = {}
  BY CallInvParts
<1>3. \A o \in Opener : OpenerInv(o)'
  BY <1>1, CallInvParts DEF OpenerInv
<1>. QED
  BY <1>1, <1>2, <1>3, CallInvParts, CallInvPartsNext

(* A call sends one transaction, under its own number. *)
LEMMA CallStep ==
  ASSUME TypeOK, CallInv, [Next]_vars
  PROVE  CallInv'
<1>1. ASSUME NEW o \in Opener, OpenerNext(o), net' \subseteq net, pc'[o] = "idle",
             calls'[o] = calls[o] \/ calls'[o] = calls[o] + 1
      PROVE  CallInv'
  <2>1. OpenerInv(o)'
    BY <1>1 DEF OpenerInv
  <2>2. calls'[o] \in Nat /\ calls[o] <= calls'[o]
    BY <1>1 DEF TypeOK
  <2>. QED
    BY <1>1, <2>1, <2>2, OneMoves
<1>2. ASSUME NEW o \in Opener, OpenerNext(o), UNCHANGED <<net, landed, refused>>,
             pc'[o] \in {"creating", "naming"}, calls'[o] = calls[o] + 1,
             pc'[o] = "naming" => handle'[o] # NoRole
      PROVE  CallInv'
  <2>1. \A t \in Sent' : t.call # <<o, calls'[o]>>
    BY <1>2, NewCall DEF Sent
  <2>2. OpenerInv(o)'
    BY <1>2, <2>1 DEF OpenerInv
  <2>3. calls'[o] \in Nat /\ calls[o] <= calls'[o]
    BY <1>2 DEF TypeOK
  <2>. QED
    BY <1>2, <2>2, <2>3, OneMoves
<1>3. ASSUME NEW o \in Opener, Open(o) PROVE CallInv'
  <2>1. OpenerNext(o) /\ calls'[o] = calls[o] + 1 /\ UNCHANGED <<net, landed, refused>>
    BY <1>3 DEF OpenerNext, Open, network, TypeOK
  <2>2. pc'[o] \in {"idle", "creating"}
    BY <1>3 DEF Open, Goto, Return, LoadCurrentRole, Enter, TypeOK
  <2>. QED
    BY <2>1, <2>2, <1>1, <1>2
<1>4. ASSUME NEW o \in Opener, CreateSubAccount(o) PROVE CallInv'
  <2>1. OpenerNext(o) /\ calls'[o] = calls[o] + 1 /\ UNCHANGED <<net, landed, refused>>
    BY <1>4 DEF OpenerNext, CreateSubAccount, network, TypeOK
  <2>2. pc'[o] \in {"idle", "naming"} /\ handle'[o] # NoRole
    BY <1>4 DEF CreateSubAccount, Goto, Return, TypeOK
  <2>. QED
    BY <2>1, <2>2, <1>1, <1>2
<1>5. ASSUME NEW o \in Opener, SendCreate(o) PROVE CallInv'
  <2> DEFINE t == [call |-> <<o, calls[o]>>, op |-> "Create", before |-> before[o]]
  <2>1. t \in Tx /\ t.call = <<o, calls[o]>> /\ t.op # "SubAccount"
    BY DEF TypeOK, Tx, Call
  <2>2. /\ OpenerNext(o) /\ pc[o] = "creating" /\ net' = net \cup {t}
        /\ pc'[o] = "sent" /\ tx'[o] = t /\ calls' = calls
    BY <1>5 DEF OpenerNext, SendCreate, Send, Goto, TypeOK
  <2>. HIDE DEF t
  <2>. QED
    BY <2>1, <2>2, OneSent
<1>6. ASSUME NEW o \in Opener, SendSubAccount(o) PROVE CallInv'
  <2> DEFINE t == [call |-> <<o, calls[o]>>, op |-> "SubAccount", role |-> handle[o],
                   id |-> subId[o], counter |-> Advance(AuthOf[o], hOdo[o])]
  <2>1. handle[o] \in RoleId
    BY <1>6 DEF SendSubAccount, CallInv, TypeOK
  <2>2. t \in Tx /\ t.call = <<o, calls[o]>> /\ t.id = subId[o]
    BY <2>1, AdvanceType DEF TypeOK, Tx, Call
  <2>3. /\ OpenerNext(o) /\ pc[o] = "naming" /\ net' = net \cup {t}
        /\ pc'[o] = "sent" /\ tx'[o] = t /\ calls' = calls /\ subId' = subId
        /\ handle' = handle /\ handle[o] # NoRole
    BY <1>6 DEF OpenerNext, SendSubAccount, Send, Goto, TypeOK, CallInv
  <2>. HIDE DEF t
  <2>. QED
    BY <2>2, <2>3, OneSent
<1>7. ASSUME NEW o \in Opener,
             ReadBack(o) \/ Refresh(o) \/ Rejected(o) \/ LoseAnswer(o) \/ StepFails(o)
      PROVE  CallInv'
  <2>1. OpenerNext(o) /\ calls' = calls /\ net' \subseteq net
    BY <1>7 DEF OpenerNext, ReadBack, Refresh, Rejected, LoseAnswer, StepFails, network
  <2>2. pc'[o] = "idle"
    BY <1>7 DEF ReadBack, Refresh, Rejected, LoseAnswer, StepFails, Return, Goto,
                LoadCurrentRole, Enter, TypeOK
  <2>. QED
    BY <2>1, <2>2, <1>1
<1>8. ASSUME NEW o \in Opener, Confirm(o) PROVE CallInv'
  <2>1. /\ OpenerNext(o) /\ UNCHANGED <<calls, net, landed, tx, subId, handle>>
        /\ pc[o] = "sent" /\ tx[o] \in landed
        /\ pc'[o] = IF tx[o].op = "Create" THEN "created" ELSE "refreshing"
    BY <1>8 DEF OpenerNext, Confirm, Goto, network, TypeOK
  <2>2. tx[o].op \in {"Create", "SubAccount"}
    BY <2>1 DEF TypeOK, Tx
  <2>3. OpenerInv(o)
    BY CallInvParts
  <2>5. OpenerInv(o)'
    BY <2>1, <2>2, <2>3 DEF OpenerInv
  <2>6. calls'[o] \in Nat /\ calls[o] <= calls'[o]
    BY <2>1 DEF TypeOK
  <2>. QED
    BY <2>1, <2>5, <2>6, OneMoves
<1>9. ASSUME NEW t \in net, Land(t) \/ Refuse(t) PROVE CallInv'
  BY <1>9, FateKeepsCalls DEF Land, Refuse, handles
<1>10. ASSUME UNCHANGED <<net, landed, refused, pc, calls, tx, handle, subId>>
       PROVE  CallInv'
  BY <1>10 DEF CallInv
<1>11. CASE \/ Deposit
            \/ \E a \in Authority : Grant(a)
            \/ \E r \in RoleId : Revoke(r) \/ Use(r)
  BY <1>10, <1>11 DEF Deposit, Grant, Revoke, Use, network, handles
<1>12. CASE UNCHANGED vars
  BY <1>10, <1>12 DEF vars
<1>. QED
  BY <1>3, <1>4, <1>5, <1>6, <1>7, <1>8, <1>9, <1>11, <1>12
  DEF Next, OpenerNext

-----------------------------------------------------------------------------

LEMMA InitInv ==
  Init => IInv
<1>. USE RoleFacts, BoundAssumption, OpenerAssumption
<1>1. Init => TypeOK
  BY DEF Init, TypeOK, Life
<1>2. Init => AccountInv /\ SubAccountInv /\ ActivationInv
  BY DEF Init, AccountInv, SubAccountInv, ActivationInv
<1>3. Init => CallInv
  BY DEF Init, CallInv
<1>4. Init => HandleHoldsItsRole /\ SubAccountIdsAreOwn /\ RefusedActivationsLostARace
  BY DEF Init, HandleHoldsItsRole, SubAccountIdsAreOwn, RefusedActivationsLostARace
<1>. QED
  BY <1>1, <1>2, <1>3, <1>4 DEF IInv

(* The inductive invariant holds in every reachable state. *)
THEOREM SpecIInv ==
  Spec => []IInv
<1>1. IInv /\ [Next]_vars => IInv'
  BY TypeStep, AccountStep, CallStep, SubAccountStep, ActivationStep, HandleStep,
     RefusedStep DEF IInv
<1>. QED
  BY InitInv, <1>1, PTL DEF Spec

(* The account's, the network's and the openers' state is well typed. *)
THEOREM SpecTypeOK ==
  Spec => []TypeOK
<1>1. IInv => TypeOK
  BY DEF IInv
<1>. QED
  BY SpecIInv, <1>1, PTL

(* new and from_reservation give no handle another authority's role. *)
THEOREM SpecHandleHoldsItsRole ==
  Spec => []HandleHoldsItsRole
<1>1. IInv => HandleHoldsItsRole
  BY DEF IInv
<1>. QED
  BY SpecIInv, <1>1, PTL

(* create_sub_account_v2 returns the id of the sub-account it made. *)
THEOREM SpecSubAccountIds ==
  Spec => []SubAccountIdsAreOwn
<1>1. IInv => SubAccountIdsAreOwn
  BY DEF IInv
<1>. QED
  BY SpecIInv, <1>1, PTL

(* A reservation's activation is refused only after a lost race. *)
THEOREM SpecRefusedActivations ==
  Spec => []RefusedActivationsLostARace
<1>1. IInv => RefusedActivationsLostARace
  BY DEF IInv
<1>. QED
  BY SpecIInv, <1>1, PTL

-----------------------------------------------------------------------------
(* Why an error has a cause.                                               *)

(* A role that is not there yet, or whose key is not counted, has spent no *)
(* odometer.                                                               *)
Unspent ==
  \A r \in RoleId :
    (Len(granted) <= r \/ AuthorityOf(r) \notin Counted) => odometer[r] = 0

(* What an opener has read of the account was true and the account has     *)
(* only gone ahead of it; what it has sent was signed with it.             *)
Behind ==
  \A o \in Opener :
    /\ subId[o] <= Len(subs)
    /\ handle[o] # NoRole => hOdo[o] <= odometer[handle[o]]
    /\ pc[o] \in {"sent", "refreshing"} /\ tx[o].op = "SubAccount" =>
         tx[o].role = handle[o] /\ tx[o].counter = Advance(AuthOf[o], hOdo[o])

(* A transaction on its way names nothing of the future.                   *)
Signed(t) ==
  t.op = "SubAccount" =>
    /\ t.role < Len(granted) /\ AuthorityOf(t.role) = AuthOf[t.call[1]]
    /\ t.id <= Len(subs)
    /\ t.counter <= Advance(AuthOf[t.call[1]], odometer[t.role])

(* What has landed has been counted.                                       *)
Spent == \A t \in landed : t.op = "SubAccount" => t.counter <= odometer[t.role]

(* Why a refused transaction was refused, in terms that stay true.         *)
Lost(t) ==
  /\ t.op = "Create" =>
       life \in {"invalid", "swig"} \/ (kind = "legacy" /\ life = "prefunded")
  /\ t.op = "SubAccount" =>
       \/ t.role \in revoked
       \/ t.id < Len(subs)
       \/ AuthOf[t.call[1]] \in Counted /\ t.counter <= odometer[t.role]

CauseInv ==
  Unspent /\ Behind /\ (\A t \in net : Signed(t)) /\ Spent /\ (\A t \in refused : Lost(t))

(* u32 counters advance in step. *)
LEMMA AdvanceFacts ==
  ASSUME NEW a, NEW m \in Nat, NEW n \in Nat
  PROVE  /\ m <= n => Advance(a, m) <= Advance(a, n)
         /\ n <= Advance(a, n)
         /\ a \notin Counted => Advance(a, n) = n
         /\ a \in Counted => Advance(a, n) = n + 1
  BY DEF Advance

(* The account only goes forward. *)
LEMMA Forward ==
  ASSUME TypeOK, AccountInv, [Next]_vars
  PROVE  /\ \A r \in RoleId : odometer[r] <= odometer'[r]
         /\ Len(subs) <= Len(subs') /\ revoked \subseteq revoked'
         /\ \A r \in Nat : r < Len(granted) =>
              r < Len(granted') /\ AuthorityOf(r)' = AuthorityOf(r)
         /\ life \in {"invalid", "swig"} => life' = life
         /\ life = "prefunded" => life' \in {"prefunded", "swig"}
         /\ kind' = kind
<1> DEFINE Goal == /\ \A r \in RoleId : odometer[r] <= odometer'[r]
                   /\ Len(subs) <= Len(subs') /\ revoked \subseteq revoked'
                   /\ \A r \in Nat : r < Len(granted) =>
                        r < Len(granted') /\ AuthorityOf(r)' = AuthorityOf(r)
                   /\ life \in {"invalid", "swig"} => life' = life
                   /\ life = "prefunded" => life' \in {"prefunded", "swig"}
                   /\ kind' = kind
<1>0. /\ \A r \in RoleId : odometer[r] \in Nat
      /\ Len(subs) \in Nat /\ Len(granted) \in Nat
  BY DEF TypeOK
<1>1. ASSUME UNCHANGED <<kind, life, granted, revoked, odometer, subs>> PROVE Goal
  BY <1>0, <1>1 DEF AuthorityOf
<1>2. ASSUME NEW t \in net, Land(t), LandCreate(t) PROVE Goal
  <2>1. life \in {"absent", "prefunded"} /\ life' = "swig" /\ kind' = kind
        /\ UNCHANGED <<revoked, odometer, subs>>
    BY <1>2 DEF Land, LandCreate, Acceptable
  <2>2. Len(granted) = 0
    BY <2>1 DEF AccountInv
  <2> QED
    BY <1>0, <2>1, <2>2
<1>3. ASSUME NEW t \in net, Land(t), LandSubAccount(t) PROVE Goal
  <2>1. t \in Tx /\ t.role \in RoleId /\ t.call \in Call
    BY <1>3 DEF TypeOK, Tx, LandSubAccount, Acceptable, Roles
  <2>2. /\ subs' = Append(subs, t.call)
        /\ odometer' = [odometer EXCEPT ![t.role] = Advance(AuthorityOf(t.role), odometer[t.role])]
        /\ UNCHANGED <<kind, life, granted, revoked>>
    BY <1>3 DEF Land, LandSubAccount
  <2>3. Len(subs') = Len(subs) + 1
    BY <2>1, <2>2 DEF TypeOK
  <2>4. odometer[t.role] <= Advance(AuthorityOf(t.role), odometer[t.role])
    BY <1>0, <2>1, AdvanceFacts
  <2>5. \A r \in RoleId : odometer[r] <= odometer'[r]
    BY <1>0, <2>2, <2>4 DEF TypeOK
  <2> QED
    BY <1>0, <2>2, <2>3, <2>5 DEF AuthorityOf
<1>4. CASE Deposit
  BY <1>0, <1>4 DEF Deposit, AuthorityOf
<1>5. ASSUME NEW a \in Authority, Grant(a) PROVE Goal
  <2>1. granted' = Append(granted, a) /\ granted \in Seq(Authority)
        /\ UNCHANGED <<kind, life, revoked, odometer, subs>>
    BY <1>5 DEF Grant, TypeOK
  <2>2. \A r \in Nat : r < Len(granted) =>
          r < Len(granted') /\ granted'[r + 1] = granted[r + 1]
    BY <2>1
  <2> QED
    BY <1>0, <2>1, <2>2 DEF AuthorityOf
<1>6. ASSUME NEW r \in RoleId, Revoke(r) PROVE Goal
  BY <1>0, <1>6 DEF Revoke, AuthorityOf
<1>7. ASSUME NEW r \in RoleId, Use(r) PROVE Goal
  BY <1>0, <1>7 DEF Use, AuthorityOf, TypeOK
<1>8. ASSUME NEW t \in net, Refuse(t) PROVE Goal
  BY <1>1, <1>8 DEF Refuse, chain
<1>9. ASSUME NEW o \in Opener, OpenerNext(o) PROVE Goal
  BY <1>1, <1>9, OpenerFrame
<1>10. CASE UNCHANGED vars
  BY <1>1, <1>10 DEF vars
<1> QED
  BY <1>2, <1>3, <1>4, <1>5, <1>6, <1>7, <1>8, <1>9, <1>10, NextCases DEF Others, Land

LEMMA UnspentStep ==
  ASSUME TypeOK, CallInv, AccountInv, Unspent, [Next]_vars
  PROVE  Unspent'
<1>1. ASSUME odometer' = odometer PROVE Unspent'
  <2> SUFFICES ASSUME NEW r \in RoleId,
                      Len(granted') <= r \/ AuthorityOf(r)' \notin Counted
               PROVE  Len(granted) <= r \/ AuthorityOf(r) \notin Counted
    BY <1>1 DEF Unspent
  <2>1. r \in Nat /\ Len(granted) \in Nat /\ Len(granted') \in Nat
    BY RoleFacts, TypeStep DEF TypeOK
  <2> QED
    BY <2>1, Forward
<1>2. ASSUME NEW r \in Roles, granted' = granted,
             AuthorityOf(r) \in Counted,
             \A q \in RoleId : q # r => odometer'[q] = odometer[q]
      PROVE  Unspent'
  <2>1. r < Len(granted) /\ r \in Nat /\ Len(granted) \in Nat
    BY RoleFacts DEF Roles, TypeOK
  <2> QED
    BY <1>2, <2>1 DEF Unspent, AuthorityOf
<1>3. ASSUME NEW r \in RoleId, Use(r) PROVE Unspent'
  BY <1>2, <1>3 DEF Use, TypeOK
<1>4. ASSUME NEW t \in net, Land(t), LandSubAccount(t) PROVE Unspent'
  <2>1. t.role \in Roles /\ t.role \in RoleId /\ granted' = granted
        /\ odometer' = [odometer EXCEPT ![t.role] = Advance(AuthorityOf(t.role), odometer[t.role])]
    BY <1>4 DEF LandSubAccount, Acceptable, Roles
  <2>2. CASE AuthorityOf(t.role) \in Counted
    BY <1>2, <2>1, <2>2 DEF TypeOK
  <2>3. CASE AuthorityOf(t.role) \notin Counted
    <3>1. odometer' = odometer
      BY <2>1, <2>3 DEF Advance, TypeOK
    <3> QED
      BY <1>1, <3>1
  <2> QED
    BY <2>2, <2>3
<1>5. ASSUME NEW t \in net, (Land(t) /\ LandCreate(t)) \/ Refuse(t) PROVE odometer' = odometer
  BY <1>5 DEF LandCreate, Refuse, chain
<1>6. ASSUME \/ Deposit
             \/ \E a \in Authority : Grant(a)
             \/ \E r \in RoleId : Revoke(r)
      PROVE  odometer' = odometer
  BY <1>6 DEF Deposit, Grant, Revoke
<1>7. ASSUME UNCHANGED vars \/ \E o \in Opener : OpenerNext(o) PROVE odometer' = odometer
  BY <1>7, OpenerFrame DEF vars
<1> QED
  BY <1>1, <1>3, <1>4, <1>5, <1>6, <1>7, NextCases DEF Others, Land

(* What is known of one opener. *)
BehindOf(o) ==
  /\ subId[o] <= Len(subs)
  /\ handle[o] # NoRole => hOdo[o] <= odometer[handle[o]]
  /\ pc[o] \in {"sent", "refreshing"} /\ tx[o].op = "SubAccount" =>
       tx[o].role = handle[o] /\ tx[o].counter = Advance(AuthOf[o], hOdo[o])

(* What an opener has once read stays behind the account. *)
LEMMA StillBehind ==
  ASSUME TypeOK, TypeOK', AccountInv, [Next]_vars, NEW o \in Opener
  PROVE  /\ subId[o] <= Len(subs) => subId[o] <= Len(subs')
         /\ \A r \in RoleId : hOdo[o] <= odometer[r] => hOdo[o] <= odometer'[r]
<1>1. /\ subId[o] \in Nat /\ Len(subs) \in Nat /\ Len(subs') \in Nat /\ hOdo[o] \in Nat
      /\ \A r \in RoleId : odometer[r] \in Nat /\ odometer'[r] \in Nat
  BY DEF TypeOK
<1>2. Len(subs) <= Len(subs') /\ \A r \in RoleId : odometer[r] <= odometer'[r]
  BY Forward
<1> QED
  BY <1>1, <1>2

LEMMA LoadBehind ==
  ASSUME TypeOK, NEW o \in Opener, LoadCurrentRole(o)
  PROVE  /\ pc'[o] = "idle"
         /\ \/ handle' = handle /\ hOdo' = hOdo
            \/ handle'[o] \in RoleId /\ hOdo'[o] <= odometer[handle'[o]]
<1>1. CASE life = "swig" /\ RolesOf(AuthOf[o]) # {}
  <2>1. PICK r \in RolesOf(AuthOf[o]) : Enter(o, r, Synchronised(o, r))
    BY <1>1 DEF LoadCurrentRole
  <2>2. r \in RoleId /\ odometer[r] \in Nat
    BY RolesType DEF RolesOf, TypeOK
  <2>3. Synchronised(o, r) <= odometer[r]
    BY <2>2 DEF Synchronised
  <2> QED
    BY <2>1, <2>2, <2>3 DEF Enter, Return, Goto, TypeOK
<1>2. CASE ~(life = "swig" /\ RolesOf(AuthOf[o]) # {})
  BY <1>2 DEF LoadCurrentRole, Return, Goto, TypeOK
<1> QED
  BY <1>1, <1>2

(* A handle's counter is behind its role's: it is copied from it, and it   *)
(* advances only after a transaction it has signed has landed.             *)
LEMMA BehindStep ==
  ASSUME IInv, IInv', Behind, Spent, [Next]_vars
  PROVE  Behind'
<1>0. TypeOK /\ TypeOK' /\ AccountInv /\ CallInv
  BY DEF IInv
<1>. SUFFICES ASSUME NEW p \in Opener PROVE BehindOf(p)'
  BY DEF Behind, BehindOf
<1>1. BehindOf(p) /\ handle[p] \in RoleId \cup {NoRole}
  BY <1>0 DEF Behind, BehindOf, TypeOK
<1>2. ASSUME UNCHANGED <<subId[p], handle[p], hOdo[p]>>,
             \/ pc'[p] \notin {"sent", "refreshing"}
             \/ pc[p] \in {"sent", "refreshing"} /\ tx'[p] = tx[p]
             \/ tx'[p].op # "SubAccount"
      PROVE  BehindOf(p)'
  BY <1>0, <1>1, <1>2, StillBehind DEF BehindOf
<1>3. CASE Others \/ UNCHANGED vars
  BY <1>2, <1>3, OthersFrame DEF vars
<1>4. ASSUME NEW o \in Opener, OpenerNext(o), o # p PROVE BehindOf(p)'
  <2>1. /\ pc'[p] = pc[p] /\ tx'[p] = tx[p]
        /\ subId'[p] = subId[p] /\ handle'[p] = handle[p] /\ hOdo'[p] = hOdo[p]
    BY <1>0, <1>4, OtherOpeners
  <2> QED
    BY <1>2, <2>1
<1>5. ASSUME OpenerNext(p), UNCHANGED <<subId, odometer, subs>>, pc'[p] = "idle",
             \/ handle' = handle /\ hOdo' = hOdo
             \/ handle'[p] \in RoleId /\ hOdo'[p] <= odometer[handle'[p]]
      PROVE  BehindOf(p)'
  BY <1>1, <1>5 DEF BehindOf
<1>6. CASE Open(p)
  <2>1. UNCHANGED <<subId, odometer, subs>> /\ OpenerNext(p)
    BY <1>6 DEF Open, chain, OpenerNext
  <2>2. CASE LoadCurrentRole(p)
    BY <1>0, <1>5, <2>1, <2>2, LoadBehind
  <2>3. CASE (Goto(p, "creating") \/ Return(p, "error")) /\ UNCHANGED <<handle, hOdo>>
    BY <1>0, <1>2, <2>1, <2>3 DEF Goto, Return, TypeOK
  <2> QED
    BY <1>6, <2>2, <2>3 DEF Open
<1>7. CASE SendCreate(p)
  BY <1>0, <1>2, <1>7 DEF SendCreate, Send, TypeOK
<1>8. CASE ReadBack(p)
  <2>1. UNCHANGED <<subId, odometer, subs>> /\ OpenerNext(p)
    BY <1>8 DEF ReadBack, chain, OpenerNext
  <2>2. CASE LoadCurrentRole(p)
    BY <1>0, <1>5, <2>1, <2>2, LoadBehind
  <2>3. CASE 0 \in Roles /\ Enter(p, 0, 0)
    <3>1. 0 \in RoleId /\ odometer[0] \in Nat
      BY <1>0, <2>3, RolesType DEF TypeOK
    <3>2. handle'[p] = 0 /\ hOdo'[p] = 0 /\ pc'[p] = "idle"
      BY <1>0, <2>3 DEF Enter, Return, Goto, TypeOK
    <3> QED
      BY <1>5, <2>1, <3>1, <3>2
  <2>4. CASE Return(p, "error") /\ UNCHANGED <<handle, hOdo>>
    BY <1>0, <1>2, <2>1, <2>4 DEF Goto, Return, TypeOK
  <2> QED
    BY <1>8, <2>2, <2>3, <2>4 DEF ReadBack
<1>9. CASE CreateSubAccount(p)
  <2>1. UNCHANGED <<odometer, subs, handle, hOdo>> /\ pc'[p] \in {"idle", "naming"}
        /\ subId'[p] \in {subId[p], Len(subs)}
    BY <1>0, <1>9 DEF CreateSubAccount, chain, Goto, Return, TypeOK
  <2>2. Len(subs) \in Nat
    BY <1>0 DEF TypeOK
  <2> QED
    BY <1>1, <2>1, <2>2 DEF BehindOf
<1>10. CASE SendSubAccount(p)
  <2>1. UNCHANGED <<odometer, subs, handle, hOdo, subId>>
        /\ tx'[p].role = handle[p] /\ tx'[p].counter = Advance(AuthOf[p], hOdo[p])
    BY <1>0, <1>10 DEF SendSubAccount, Send, chain, TypeOK
  <2> QED
    BY <1>1, <2>1 DEF BehindOf
<1>11. CASE Refresh(p)
  <2>1. UNCHANGED <<odometer, subs, handle, subId>> /\ pc'[p] = "idle"
        /\ hOdo'[p] \in {hOdo[p], Advance(AuthOf[p], hOdo[p])}
    BY <1>0, <1>11 DEF Refresh, chain, Goto, Return, TypeOK
  <2>2. tx[p] \in landed /\ tx[p].op = "SubAccount"
    BY <1>0, <1>11 DEF Refresh, CallInv
  <2>3. tx[p].role = handle[p] /\ tx[p].counter = Advance(AuthOf[p], hOdo[p])
    BY <1>1, <1>11, <2>2 DEF Refresh, BehindOf
  <2>4. Advance(AuthOf[p], hOdo[p]) <= odometer[handle[p]]
    BY <2>2, <2>3 DEF Spent
  <2> QED
    BY <1>1, <2>1, <2>4 DEF BehindOf
<1>12. CASE Confirm(p)
  BY <1>0, <1>2, <1>12 DEF Confirm, Goto, TypeOK
<1>13. CASE Rejected(p) \/ LoseAnswer(p) \/ StepFails(p)
  <2>1. UNCHANGED <<subId, handle, hOdo>> /\ pc'[p] = "idle"
    BY <1>0, <1>13 DEF Rejected, LoseAnswer, StepFails, Return, Goto, TypeOK
  <2> QED
    BY <1>2, <2>1
<1> QED
  BY <1>3, <1>4, <1>6, <1>7, <1>8, <1>9, <1>10, <1>11, <1>12, <1>13, NextCases
  DEF OpenerNext

(* The network's transactions have typed fields. *)
LEMMA SentTyped ==
  ASSUME TypeOK, NEW t \in Sent
  PROVE  /\ t.op \in {"Create", "SubAccount"} /\ t.call[1] \in Opener
         /\ t.op = "SubAccount" => t.role \in RoleId /\ t.id \in Nat /\ t.counter \in Nat
  BY DEF TypeOK, Sent, Tx, Call

LEMMA SpentStep ==
  ASSUME TypeOK, TypeOK', AccountInv, Spent, [Next]_vars
  PROVE  Spent'
<1>0. \A r \in RoleId : odometer[r] \in Nat /\ odometer'[r] \in Nat /\ odometer[r] <= odometer'[r]
  BY Forward DEF TypeOK
<1>1. ASSUME NEW t \in landed, t.op = "SubAccount" PROVE t.counter <= odometer'[t.role]
  BY <1>0, <1>1, SentTyped DEF Spent, Sent
<1>2. ASSUME landed' = landed PROVE Spent'
  BY <1>1, <1>2 DEF Spent
<1>3. ASSUME NEW t \in net, Land(t), LandSubAccount(t) PROVE Spent'
  <2>1. /\ landed' = landed \cup {t} /\ t.role \in RoleId
        /\ t.counter = Advance(AuthorityOf(t.role), odometer[t.role])
        /\ odometer' = [odometer EXCEPT ![t.role] = Advance(AuthorityOf(t.role), odometer[t.role])]
    BY <1>3 DEF Land, LandSubAccount, Acceptable, Roles
  <2>2. t.counter = odometer'[t.role] /\ odometer'[t.role] \in Nat
    BY <2>1, <1>0 DEF TypeOK
  <2> QED
    BY <1>1, <2>1, <2>2 DEF Spent
<1>4. ASSUME NEW t \in net, Land(t), LandCreate(t) PROVE Spent'
  <2>1. landed' = landed \cup {t} /\ t.op = "Create"
    BY <1>4 DEF Land, LandCreate
  <2> QED
    BY <1>1, <2>1 DEF Spent
<1>5. CASE Others /\ ~(\E t \in net : Land(t))
  BY <1>2, <1>5 DEF Others, Refuse, Deposit, Grant, Revoke, Use, network
<1>6. ASSUME UNCHANGED vars \/ \E o \in Opener : OpenerNext(o) PROVE Spent'
  BY <1>2, <1>6, OpenerFrame DEF vars
<1> QED
  BY <1>3, <1>4, <1>5, <1>6, NextCases DEF Land

LEMMA SignedStep ==
  ASSUME IInv, IInv', Behind, \A t \in net : Signed(t), [Next]_vars
  PROVE  \A t \in net' : Signed(t)'
<1>0. TypeOK /\ TypeOK' /\ AccountInv /\ CallInv /\ HandleHoldsItsRole
  BY DEF IInv
<1>1. /\ \A r \in RoleId : /\ odometer[r] \in Nat /\ odometer'[r] \in Nat
                           /\ odometer[r] <= odometer'[r] /\ r \in Nat
      /\ Len(subs) \in Nat /\ Len(subs') \in Nat /\ Len(subs) <= Len(subs')
  <2>1. /\ \A r \in RoleId : odometer[r] \in Nat /\ odometer'[r] \in Nat /\ r \in Nat
        /\ Len(subs) \in Nat /\ Len(subs') \in Nat
    BY <1>0, RoleFacts DEF TypeOK
  <2> QED
    BY <1>0, <2>1, Forward
<1>2. ASSUME NEW t \in net PROVE Signed(t)'
  <2> SUFFICES ASSUME t.op = "SubAccount"
               PROVE  /\ t.role < Len(granted') /\ AuthorityOf(t.role)' = AuthOf[t.call[1]]
                      /\ t.id <= Len(subs')
                      /\ t.counter <= Advance(AuthOf[t.call[1]], odometer'[t.role])
    BY DEF Signed, Advance
  <2>1. t.role \in RoleId /\ t.id \in Nat /\ t.counter \in Nat
    BY <1>0, SentTyped DEF Sent
  <2>2. /\ t.role < Len(granted) /\ AuthorityOf(t.role) = AuthOf[t.call[1]]
        /\ t.id <= Len(subs)
        /\ t.counter <= Advance(AuthOf[t.call[1]], odometer[t.role])
    BY DEF Signed
  <2>3. t.role < Len(granted') /\ AuthorityOf(t.role)' = AuthorityOf(t.role)
    BY <1>0, <1>1, <2>1, <2>2, Forward
  <2>4. t.counter <= Advance(AuthOf[t.call[1]], odometer'[t.role])
    BY <1>1, <2>1, <2>2, AdvanceFacts, AdvanceType DEF Advance
  <2> QED
    BY <1>1, <2>1, <2>2, <2>3, <2>4
<1>3. ASSUME net' \subseteq net PROVE \A t \in net' : Signed(t)'
  BY <1>2, <1>3
<1>4. ASSUME NEW o \in Opener, SendCreate(o) PROVE \A t \in net' : Signed(t)'
  <2>1. PICK t : t.op = "Create" /\ net' = net \cup {t}
    BY <1>4 DEF SendCreate, Send
  <2>2. Signed(t)'
    BY <2>1 DEF Signed
  <2>3. \A u \in net : Signed(u)'
    BY <1>2
  <2> QED
    BY <2>1, <2>2, <2>3
<1>5. ASSUME NEW o \in Opener, SendSubAccount(o) PROVE \A t \in net' : Signed(t)'
  <2>1. PICK t : /\ net' = net \cup {t} /\ t.call[1] = o /\ t.role = handle[o]
                 /\ t.id = subId[o] /\ t.counter = Advance(AuthOf[o], hOdo[o])
    <3> DEFINE sent == [call |-> <<o, calls[o]>>, op |-> "SubAccount", role |-> handle[o],
                        id |-> subId[o], counter |-> Advance(AuthOf[o], hOdo[o])]
    <3>1. net' = net \cup {sent}
      BY <1>5 DEF SendSubAccount, Send
    <3>2. /\ sent.call[1] = o /\ sent.role = handle[o]
          /\ sent.id = subId[o] /\ sent.counter = Advance(AuthOf[o], hOdo[o])
      OBVIOUS
    <3> HIDE DEF sent
    <3> QED
      BY <3>1, <3>2
  <2>2. UNCHANGED <<granted, subs, odometer>> /\ handle[o] # NoRole
    BY <1>0, <1>5 DEF SendSubAccount, chain, CallInv
  <2>3. handle[o] < Len(granted) /\ AuthorityOf(handle[o]) = AuthOf[o]
    BY <1>0, <2>2 DEF HandleHoldsItsRole
  <2>4. handle[o] \in RoleId /\ hOdo[o] \in Nat
    BY <1>0, <2>2 DEF TypeOK
  <2>5. hOdo[o] <= odometer[handle[o]] /\ subId[o] <= Len(subs)
    BY <2>2 DEF Behind
  <2>6. Advance(AuthOf[o], hOdo[o]) <= Advance(AuthOf[o], odometer[handle[o]])
    BY <1>1, <2>4, <2>5, AdvanceFacts
  <2>7. Signed(t)
    BY <2>1, <2>3, <2>5, <2>6 DEF Signed
  <2>8. Signed(t)'
    BY <2>2, <2>7 DEF Signed, AuthorityOf, Advance
  <2> QED
    BY <1>2, <2>1, <2>8
<1>6. ASSUME NEW o \in Opener, OpenerNext(o), ~SendCreate(o), ~SendSubAccount(o)
      PROVE  net' \subseteq net
  BY <1>6 DEF OpenerNext, Open, ReadBack, CreateSubAccount, Refresh, Confirm, Rejected,
              LoseAnswer, StepFails, network
<1>7. ASSUME Others \/ UNCHANGED vars PROVE net' \subseteq net
  BY <1>7 DEF Others, Land, Refuse, Deposit, Grant, Revoke, Use, network, vars
<1> QED
  BY <1>3, <1>4, <1>5, <1>6, <1>7, NextCases

(* A reason to refuse a transaction does not go away. *)
LEMMA LostStep ==
  ASSUME IInv, IInv', Unspent, \A t \in net : Signed(t), \A t \in refused : Lost(t),
         [Next]_vars
  PROVE  \A t \in refused' : Lost(t)'
<1>0. TypeOK /\ TypeOK' /\ AccountInv
  BY DEF IInv
<1>1. /\ \A r \in RoleId : /\ odometer[r] \in Nat /\ odometer'[r] \in Nat
                           /\ odometer[r] <= odometer'[r] /\ r \in Nat
      /\ Len(subs) \in Nat /\ Len(subs') \in Nat /\ Len(subs) <= Len(subs')
      /\ revoked \subseteq revoked' /\ kind' = kind
      /\ life \in {"invalid", "swig"} => life' = life
      /\ life = "prefunded" => life' \in {"prefunded", "swig"}
  <2>1. /\ \A r \in RoleId : odometer[r] \in Nat /\ odometer'[r] \in Nat /\ r \in Nat
        /\ Len(subs) \in Nat /\ Len(subs') \in Nat
    BY <1>0, RoleFacts DEF TypeOK
  <2> QED
    BY <1>0, <2>1, Forward
<1>2. ASSUME NEW t \in Sent, Lost(t) PROVE Lost(t)'
  <2>1. t.op = "SubAccount" => t.role \in RoleId /\ t.id \in Nat /\ t.counter \in Nat
    BY <1>0, SentTyped
  <2> QED
    BY <1>1, <1>2, <2>1 DEF Lost
<1>3. ASSUME refused' = refused PROVE \A t \in refused' : Lost(t)'
  BY <1>2, <1>3 DEF Sent
<1>4. ASSUME NEW t \in net, Refuse(t) PROVE Lost(t)
  <2>1. ~Sure(t)
    BY <1>4 DEF Refuse
  <2>2. t.op = "Create" => life \in {"invalid", "swig"} \/ (kind = "legacy" /\ life = "prefunded")
    BY <1>0, <2>1 DEF Sure, Acceptable, TypeOK, Life
  <2>3. ASSUME t.op = "SubAccount", t.role \notin revoked, ~(t.id < Len(subs))
        PROVE  AuthOf[t.call[1]] \in Counted /\ t.counter <= odometer[t.role]
    <3>1. t.role \in RoleId /\ t.id \in Nat /\ t.counter \in Nat /\ odometer[t.role] \in Nat
      BY <1>0, <1>1, <2>3, SentTyped DEF Sent
    <3>2. /\ t.role < Len(granted) /\ AuthorityOf(t.role) = AuthOf[t.call[1]]
          /\ t.id <= Len(subs)
          /\ t.counter <= Advance(AuthOf[t.call[1]], odometer[t.role])
      BY <2>3 DEF Signed
    <3>3. t.role \in Roles /\ t.id = Len(subs)
      BY <1>1, <2>3, <3>1, <3>2 DEF Roles
    <3>4. t.counter # Advance(AuthOf[t.call[1]], odometer[t.role])
      BY <2>1, <2>3, <3>2, <3>3 DEF Sure, Acceptable
    <3>5. CASE AuthOf[t.call[1]] \in Counted
      BY <3>1, <3>2, <3>4, <3>5 DEF Advance
    <3>6. CASE AuthOf[t.call[1]] \notin Counted
      <4>1. odometer[t.role] = 0
        BY <3>1, <3>2, <3>6 DEF Unspent
      <4> QED
        BY <3>1, <3>2, <3>4, <3>6, <4>1 DEF Advance
    <3> QED
      BY <3>5, <3>6
  <2> QED
    BY <2>2, <2>3 DEF Lost
<1>5. ASSUME NEW t \in net, Refuse(t) PROVE \A u \in refused' : Lost(u)'
  <2>1. refused' = refused \cup {t}
    BY <1>5 DEF Refuse
  <2> QED
    BY <1>2, <1>4, <1>5, <2>1 DEF Sent
<1>6. ASSUME Others, ~(\E t \in net : Refuse(t)) PROVE refused' = refused
  BY <1>6 DEF Others, Land, Deposit, Grant, Revoke, Use, network
<1>7. ASSUME UNCHANGED vars \/ \E o \in Opener : OpenerNext(o) PROVE refused' = refused
  BY <1>7, OpenerFrame DEF vars
<1> QED
  BY <1>3, <1>5, <1>6, <1>7, NextCases

LEMMA InitCauseInv == Init => CauseInv
<1>1. Init => Unspent /\ (\A t \in net : Signed(t)) /\ Spent /\ (\A t \in refused : Lost(t))
  BY DEF Init, Unspent, Spent
<1>2. Init => Behind
  BY DEF Init, Behind
<1> QED
  BY <1>1, <1>2 DEF CauseInv

(* A load that fails has found no account, or one without the authority.   *)
LEMMA LoadFails ==
  ASSUME TypeOK, NEW o \in Opener, LoadCurrentRole(o), ret'[o] = "error"
  PROVE  life # "swig" \/ RolesOf(AuthOf[o]) = {}
<1>1. SUFFICES ASSUME life = "swig", RolesOf(AuthOf[o]) # {} PROVE FALSE
  OBVIOUS
<1>2. PICK r \in RolesOf(AuthOf[o]) : Enter(o, r, Synchronised(o, r))
  BY <1>1 DEF LoadCurrentRole
<1>3. ret'[o] = "opened"
  BY <1>2 DEF Enter, Return, TypeOK
<1> QED
  BY <1>3

(* A call that is refused has lost to a removal, to a sub-account, to a    *)
(* counter or to another creation; a call that cannot read the account it  *)
(* expects finds why.                                                      *)
LEMMA CauseOfError ==
  ASSUME IInv, CauseInv, NEW o \in Opener, OpenerNext(o),
         ret'[o] = "error", pc'[o] = "idle", ~failed'[o]
  PROVE  IF pc[o] = "refreshing" \/ (pc[o] = "sent" /\ tx[o].op = "SubAccount")
         THEN SubAccountCause(o) ELSE OpeningCause(o)
<1>0. TypeOK /\ AccountInv /\ CallInv
  BY DEF IInv
<1>1. ~Fault(o)
  BY <1>0 DEF Fault, TypeOK
<1>2. ~LoseAnswer(o) /\ ~StepFails(o)
  BY <1>1 DEF LoseAnswer, StepFails
<1>3. ~CreateSubAccount(o)
  BY <1>0, <1>1 DEF CreateSubAccount, Goto, TypeOK
<1>4. ~SendCreate(o) /\ ~SendSubAccount(o) /\ ~Confirm(o)
  BY <1>0 DEF SendCreate, SendSubAccount, Confirm, Send, Goto, TypeOK
<1>5. CASE Open(o)
  <2>1. PICK read \in {life, "error"} :
          /\ IF read = "error" THEN Fault(o)
             ELSE failed' = [failed EXCEPT ![o] = FALSE] /\ UNCHANGED faults
          /\ IF read \in TakenForAbsent(kind)
             THEN Goto(o, "creating") /\ UNCHANGED <<handle, hOdo, ret>>
             ELSE IF read = "error"
                  THEN Return(o, "error") /\ UNCHANGED <<handle, hOdo>>
                  ELSE LoadCurrentRole(o)
    BY <1>5 DEF Open
  <2>2. read = life /\ read # "error"
    BY <1>1, <2>1
  <2>3. life \notin TakenForAbsent(kind)
    BY <1>0, <2>1, <2>2 DEF Goto, TypeOK
  <2>4. LoadCurrentRole(o)
    BY <2>1, <2>2, <2>3
  <2>5. life # "swig" \/ RolesOf(AuthOf[o]) = {}
    BY <1>0, <2>4, LoadFails
  <2>6. pc[o] = "idle"
    BY <1>5 DEF Open, Begin
  <2> QED
    BY <1>0, <2>3, <2>5, <2>6 DEF OpeningCause, TakenForAbsent, TypeOK, Life
<1>6. CASE ReadBack(o)
  <2>1. pc[o] = "created" /\ tx[o] \in landed /\ tx[o].op = "Create"
    BY <1>0, <1>6 DEF ReadBack, CallInv
  <2>2. life = "swig"
    BY <1>0, <2>1 DEF AccountInv
  <2>3. CASE kind = "reserved"
    <3>1. RolesOf(AuthOf[o]) = {}
      BY <1>0, <1>6, <2>2, <2>3, LoadFails DEF ReadBack
    <3> QED
      BY <2>1, <2>2, <3>1 DEF OpeningCause
  <2>4. CASE kind # "reserved"
    <3>1. kind = "legacy"
      BY <1>0, <2>4 DEF TypeOK
    <3>2. 0 \notin Roles
      <4> SUFFICES ASSUME 0 \in Roles PROVE FALSE
        OBVIOUS
      <4>1. ret'[o] = "opened"
        BY <1>0, <1>6, <2>4 DEF ReadBack, Enter, Return, TypeOK
      <4> QED
        BY <4>1
    <3> QED
      BY <2>1, <3>1, <3>2 DEF OpeningCause
  <2> QED
    BY <2>3, <2>4
<1>7. CASE Refresh(o)
  <2>1. handle[o] \notin Roles
    <3> SUFFICES ASSUME handle[o] \in Roles PROVE FALSE
      OBVIOUS
    <3>1. ret'[o] = "created"
      BY <1>0, <1>7 DEF Refresh, Return, TypeOK
    <3> QED
      BY <3>1
  <2> QED
    BY <1>7, <2>1 DEF Refresh, SubAccountCause
<1>8. CASE Rejected(o)
  <2>1. pc[o] = "sent" /\ tx[o] \in refused
    BY <1>8 DEF Rejected
  <2>2. tx[o].call = <<o, calls[o]>> /\ Lost(tx[o])
    BY <1>0, <2>1 DEF CallInv, CauseInv
  <2>3. tx[o].op \in {"Create", "SubAccount"}
    BY <1>0, <2>1, SentTyped DEF Sent
  <2>4. CASE tx[o].op = "Create"
    <3>1. life = "swig" => \E w \in landed : w.op = "Create" /\ w.call # <<o, calls[o]>>
      BY <1>0, <2>1, <2>2 DEF AccountInv, CallInv
    <3> QED
      BY <2>1, <2>2, <2>4, <3>1 DEF Lost, OpeningCause
  <2>5. CASE tx[o].op = "SubAccount"
    <3>1. /\ tx[o].role = handle[o] /\ tx[o].counter = Advance(AuthOf[o], hOdo[o])
          /\ tx[o].id = subId[o]
      BY <1>0, <2>1, <2>5 DEF CauseInv, Behind, CallInv
    <3>2. /\ subId[o] \in Nat /\ Len(subs) \in Nat /\ hOdo[o] \in Nat
          /\ tx[o].role \in RoleId /\ odometer[tx[o].role] \in Nat
      BY <1>0, <2>1, <2>5, SentTyped DEF Sent, TypeOK
    <3>3. tx[o].call[1] = o
      BY <2>2
    <3>4. \/ handle[o] \in revoked
          \/ subId[o] < Len(subs)
          \/ AuthOf[o] \in Counted /\ hOdo[o] + 1 <= odometer[handle[o]]
      BY <2>2, <2>5, <3>1, <3>3 DEF Lost, Advance
    <3> QED
      BY <2>1, <2>5, <3>1, <3>2, <3>4 DEF SubAccountCause, Roles
  <2> QED
    BY <2>3, <2>4, <2>5
<1> QED
  BY <1>2, <1>3, <1>4, <1>5, <1>6, <1>7, <1>8 DEF OpenerNext

(* The counters stay behind the account in every step. *)
LEMMA CauseStep ==
  ASSUME IInv, IInv', CauseInv, [Next]_vars
  PROVE  CauseInv'
  BY UnspentStep, BehindStep, SpentStep, SignedStep, LostStep DEF CauseInv, IInv

(* No handle signs with a counter beyond the account's, and nothing on its *)
(* way was signed with one.                                                *)
THEOREM SpecCountersNeverAhead ==
  Spec => []CountersNeverAhead
<1>1. CauseInv => CountersNeverAhead
  BY DEF CauseInv, Behind, Signed, CountersNeverAhead
<1> QED
  BY SpecIInv, InitCauseInv, CauseStep, <1>1, PTL DEF Spec

(* new, from_reservation and create_sub_account_v2 return an error only    *)
(* for a failure of their own or for a cause that the account shows.       *)
THEOREM SpecErrorsHaveCauses ==
  Spec => ErrorsHaveCauses
<1> DEFINE Explained ==
      \A o \in Opener :
        (ret'[o] = "error" /\ (pc[o] # "idle" \/ calls'[o] # calls[o])
           /\ pc'[o] = "idle") =>
          \/ failed'[o]
          \/ IF pc[o] = "refreshing" \/ (pc[o] = "sent" /\ tx[o].op = "SubAccount")
             THEN SubAccountCause(o) ELSE OpeningCause(o)
<1>1. IInv /\ CauseInv /\ [Next]_vars => [Explained]_vars
  <2> SUFFICES ASSUME IInv, CauseInv, [Next]_vars, NEW o \in Opener,
                      ret'[o] = "error", pc[o] # "idle" \/ calls'[o] # calls[o],
                      pc'[o] = "idle", ~failed'[o]
               PROVE  IF pc[o] = "refreshing" \/ (pc[o] = "sent" /\ tx[o].op = "SubAccount")
                      THEN SubAccountCause(o) ELSE OpeningCause(o)
    OBVIOUS
  <2>1. ~Others /\ ~UNCHANGED vars
    BY OthersFrame DEF vars
  <2>2. ASSUME NEW p \in Opener, p # o, OpenerNext(p) PROVE FALSE
    BY <2>2, OtherOpeners DEF IInv
  <2>3. OpenerNext(o)
    BY <2>1, <2>2, NextCases
  <2> QED
    BY <2>3, CauseOfError
<1> QED
  BY SpecIInv, InitCauseInv, CauseStep, <1>1, PTL DEF Spec, ErrorsHaveCauses
=============================================================================
