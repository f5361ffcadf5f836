----------------------- MODULE OperationContextsProofs -----------------------
(***************************************************************************)
(* What a call builds is well formed for every set of requests: the lists  *)
(* of compactInstructions and its map agree, its metas only grow, and the  *)
(* index in the authority payload keeps naming the authority.              *)
(***************************************************************************)
EXTENDS OperationContexts, TLAPS, SequenceTheorems, NaturalsInduction, WellFoundedInduction

-----------------------------------------------------------------------------
(* The metas an operation begins with.                                     *)
LEMMA MetaTyped ==
  ASSUME NEW k \in Address
  PROVE  /\ Readonly(k) \in Meta /\ ReadonlySigner(k) \in Meta
         /\ Writable(k) \in Meta /\ WritableSigner(k) \in Meta
BY DEF Readonly, ReadonlySigner, Writable, WritableSigner, Meta

(* Metas whose signers are among the given keys.                           *)
Signed(K) == {m \in Meta : m.signer => m.key \in K}

LEMMA SignedTyped ==
  ASSUME NEW K, NEW k \in Address
  PROVE  /\ Readonly(k) \in Signed(K) /\ Writable(k) \in Signed(K)
         /\ k \in K => ReadonlySigner(k) \in Signed(K) /\ WritableSigner(k) \in Signed(K)
BY DEF Readonly, ReadonlySigner, Writable, WritableSigner, Meta, Signed

LEMMA SignedAreMetas ==
  ASSUME NEW K
  PROVE  Seq(Signed(K)) \subseteq Seq(Meta)
<1>1. Signed(K) \subseteq Meta
  BY DEF Signed
<1> QED BY <1>1

LEMMA SystemProgramTyped ==
  ASSUME NEW K
  PROVE  /\ TheSystemProgram \in Seq(Signed(K)) /\ Len(TheSystemProgram) = 1
         /\ <<>> \in Seq(Signed(K)) /\ Len(<<>>) = 0
<1> DEFINE m == Readonly(SystemProgram)
<1>1. m \in Signed(K)
  BY AddressAssumption, SignedTyped
<1> DEFINE M == Signed(K)
<1> HIDE DEF m, M
<1>2. <<m>> \in Seq(M) /\ Len(<<m>>) = 1 /\ <<>> \in Seq(M) /\ Len(<<>>) = 0
  BY <1>1 DEF M
<1> QED BY <1>2 DEF TheSystemProgram, m, M

FormsTyped(forms, least, M) ==
  /\ forms.base \in Seq(M) /\ Len(forms.base) >= least
  /\ forms.withAuthority = [k \in Address |-> Append(forms.base, ReadonlySigner(k))]
  /\ \E between \in Seq(M) : forms.withSystemProgram = forms.base \o between

LEMMA FormsOfTyped ==
  ASSUME NEW M, NEW base \in Seq(M), NEW between \in Seq(M), NEW least \in Nat,
         Len(base) >= least
  PROVE  FormsTyped(Forms(base, between), least, M)
BY DEF FormsTyped, Forms

Least(op) == IF op \in WithdrawOps THEN ContextIndex ELSE 0

(* Short lists of metas, and two of them in a row.                         *)
LEMMA ListTyped ==
  ASSUME NEW M, NEW x \in M, NEW y \in M, NEW z \in M, NEW w \in M
  PROVE  /\ <<x>> \in Seq(M) /\ Len(<<x>>) = 1
         /\ <<x, y>> \in Seq(M) /\ Len(<<x, y>>) = 2
         /\ <<x, y, z>> \in Seq(M) /\ Len(<<x, y, z>>) = 3
         /\ <<x, y, z, w>> \in Seq(M) /\ Len(<<x, y, z, w>>) = 4
OBVIOUS

LEMMA JoinTyped ==
  ASSUME NEW M, NEW s \in Seq(M), NEW t \in Seq(M)
  PROVE  s \o t \in Seq(M) /\ Len(s \o t) = Len(s) + Len(t)
OBVIOUS

LEMMA MetasOfTyped ==
  ASSUME NEW op \in Ops, NEW a \in Accounts, NEW K, a.payer \in K
  PROVE  FormsTyped(MetasOf(op, a), Least(op), Signed(K))
<1> DEFINE M == Signed(K)
<1>1. /\ Writable(a.swig) \in M /\ Writable(a.wallet) \in M
      /\ Readonly(a.wallet) \in M /\ WritableSigner(a.payer) \in M
      /\ Writable(a.sub) \in M /\ Writable(a.destination) \in M
      /\ Readonly(a.tokenProgram) \in M /\ Writable(a.subToken) \in M
      /\ Writable(a.swigToken) \in M /\ Readonly(a.asset) \in M
  BY SignedTyped DEF Accounts
<1>2. /\ Given(<<Readonly(a.mint)>>, a.mint) \in Seq(M)
      /\ Given(<<Writable(a.rentClaimer)>>, a.rentClaimer) \in Seq(M)
  <2>1. /\ a.mint # NoAddress => Readonly(a.mint) \in M
        /\ a.rentClaimer # NoAddress => Writable(a.rentClaimer) \in M
    BY SignedTyped DEF Accounts
  <2> QED BY <2>1, ListTyped, SystemProgramTyped DEF Given
<1> DEFINE list1 == <<Writable(a.swig), WritableSigner(a.payer)>>
           list2 == <<Writable(a.swig), Writable(a.wallet)>>
           list3 == <<Writable(a.swig), WritableSigner(a.payer), Writable(a.sub)>>
           list4 == <<Writable(a.swig), Writable(a.sub)>>
           list5 == <<Writable(a.swig), WritableSigner(a.payer), Writable(a.sub), Writable(a.wallet)>>
           list6 == <<Writable(a.subToken), Writable(a.swigToken), Readonly(a.tokenProgram)>>
           list7 == <<Writable(a.swig), Writable(a.wallet), WritableSigner(a.payer)>>
           list8 == <<Writable(a.swig), Writable(a.wallet), Writable(a.destination)>>
           list9 == <<Writable(a.swig), Writable(a.wallet), Writable(a.destination), Readonly(a.tokenProgram)>>
           list10 == <<Writable(a.swig), Readonly(a.wallet), WritableSigner(a.payer)>>
           list11 == <<Readonly(a.asset)>>
           mint == Given(<<Readonly(a.mint)>>, a.mint)
           claimer == Given(<<Writable(a.rentClaimer)>>, a.rentClaimer)
<1>3. /\ list1 \in Seq(M) /\ Len(list1) = 2
      /\ list2 \in Seq(M) /\ Len(list2) = 2
      /\ list3 \in Seq(M) /\ Len(list3) = 3
      /\ list4 \in Seq(M) /\ Len(list4) = 2
      /\ list5 \in Seq(M) /\ Len(list5) = 4
      /\ list6 \in Seq(M) /\ Len(list6) = 3
      /\ list7 \in Seq(M) /\ Len(list7) = 3
      /\ list8 \in Seq(M) /\ Len(list8) = 3
      /\ list9 \in Seq(M) /\ Len(list9) = 4
      /\ list10 \in Seq(M) /\ Len(list10) = 3
      /\ list11 \in Seq(M) /\ Len(list11) = 1
  BY <1>1, ListTyped
<1>4. mint \in Seq(M) /\ claimer \in Seq(M)
  BY <1>2
<1>empty. TheSystemProgram \in Seq(M) /\ Len(TheSystemProgram) = 1 /\ <<>> \in Seq(M)
  BY SystemProgramTyped
<1> HIDE DEF M, list1, list2, list3, list4, list5, list6, list7, list8, list9, list10, list11, mint, claimer
<1>5. FormsTyped(SignV1Metas(a), 0, M)
  <2>1. list1 \in Seq(M) /\ Len(list1) >= 0
    BY <1>3, <1>empty, JoinTyped
  <2>2. FormsTyped(Forms(list1, TheSystemProgram), 0, M)
    BY <2>1, <1>empty, FormsOfTyped
  <2> QED BY <2>2 DEF SignV1Metas, list1
<1>6. FormsTyped(SignV2Metas(a), 0, M)
  <2>1. list2 \in Seq(M) /\ Len(list2) >= 0
    BY <1>3, <1>empty, JoinTyped
  <2>2. FormsTyped(Forms(list2, TheSystemProgram), 0, M)
    BY <2>1, <1>empty, FormsOfTyped
  <2> QED BY <2>2 DEF SignV2Metas, list2
<1>7. FormsTyped(AddAuthorityMetas(a), 0, M)
  <2>1. list1 \o TheSystemProgram \in Seq(M) /\ Len(list1 \o TheSystemProgram) >= 0
    BY <1>3, <1>empty, JoinTyped
  <2>2. FormsTyped(Forms(list1 \o TheSystemProgram, <<>>), 0, M)
    BY <2>1, <1>empty, FormsOfTyped
  <2> QED BY <2>2 DEF AddAuthorityMetas, list1
<1>8. FormsTyped(RemoveAuthorityMetas(a), 0, M)
  <2>1. list1 \o TheSystemProgram \in Seq(M) /\ Len(list1 \o TheSystemProgram) >= 0
    BY <1>3, <1>empty, JoinTyped
  <2>2. FormsTyped(Forms(list1 \o TheSystemProgram, <<>>), 0, M)
    BY <2>1, <1>empty, FormsOfTyped
  <2> QED BY <2>2 DEF RemoveAuthorityMetas, list1
<1>9. FormsTyped(UpdateAuthorityMetas(a), 0, M)
  <2>1. list1 \o TheSystemProgram \in Seq(M) /\ Len(list1 \o TheSystemProgram) >= 0
    BY <1>3, <1>empty, JoinTyped
  <2>2. FormsTyped(Forms(list1 \o TheSystemProgram, <<>>), 0, M)
    BY <2>1, <1>empty, FormsOfTyped
  <2> QED BY <2>2 DEF UpdateAuthorityMetas, list1
<1>10. FormsTyped(CreateSessionMetas(a), 0, M)
  <2>1. list1 \in Seq(M) /\ Len(list1) >= 0
    BY <1>3, <1>empty, JoinTyped
  <2>2. FormsTyped(Forms(list1, TheSystemProgram), 0, M)
    BY <2>1, <1>empty, FormsOfTyped
  <2> QED BY <2>2 DEF CreateSessionMetas, list1
<1>11. FormsTyped(SubAccountCreateMetas(a), 0, M)
  <2>1. list3 \o TheSystemProgram \in Seq(M) /\ Len(list3 \o TheSystemProgram) >= 0
    BY <1>3, <1>empty, JoinTyped
  <2>2. FormsTyped(Forms(list3 \o TheSystemProgram, <<>>), 0, M)
    BY <2>1, <1>empty, FormsOfTyped
  <2> QED BY <2>2 DEF SubAccountCreateMetas, list3
<1>12. FormsTyped(SubAccountSignMetas(a), 0, M)
  <2>1. list4 \o TheSystemProgram \in Seq(M) /\ Len(list4 \o TheSystemProgram) >= 0
    BY <1>3, <1>empty, JoinTyped
  <2>2. FormsTyped(Forms(list4 \o TheSystemProgram, <<>>), 0, M)
    BY <2>1, <1>empty, FormsOfTyped
  <2> QED BY <2>2 DEF SubAccountSignMetas, list4
<1>13. FormsTyped(SubAccountToggleMetas(a), 0, M)
  <2>1. list3 \in Seq(M) /\ Len(list3) >= 0
    BY <1>3, <1>empty, JoinTyped
  <2>2. FormsTyped(Forms(list3, TheSystemProgram), 0, M)
    BY <2>1, <1>empty, FormsOfTyped
  <2> QED BY <2>2 DEF SubAccountToggleMetas, list3
<1>14. FormsTyped(SubAccountWithdrawSolMetas(a), 3, M)
  <2>1. list5 \o TheSystemProgram \in Seq(M) /\ Len(list5 \o TheSystemProgram) >= 3
    <3>1. list5 \in Seq(M) /\ Len(list5) = 4
      BY <1>3
    <3>2. Len(list5 \o TheSystemProgram) = Len(list5) + Len(TheSystemProgram)
      BY <3>1, <1>empty, JoinTyped
    <3>3. list5 \o TheSystemProgram \in Seq(M)
      BY <3>1, <1>empty, JoinTyped
    <3> QED BY <3>1, <3>2, <3>3, <1>empty
  <2>2. FormsTyped(Forms(list5 \o TheSystemProgram, <<>>), 3, M)
    BY <2>1, <1>empty, FormsOfTyped
  <2> QED BY <2>2 DEF SubAccountWithdrawSolMetas, list5
<1>15. FormsTyped(SubAccountWithdrawTokenMetas(a), 3, M)
  <2>1. list5 \o TheSystemProgram \o list6 \in Seq(M) /\ Len(list5 \o TheSystemProgram \o list6) >= 3
    BY <1>3, <1>empty, JoinTyped
  <2>2. FormsTyped(Forms(list5 \o TheSystemProgram \o list6, <<>>), 3, M)
    BY <2>1, <1>empty, FormsOfTyped
  <2> QED BY <2>2 DEF SubAccountWithdrawTokenMetas, list5, list6
<1>16. FormsTyped(TransferAssetsMetas(a), 0, M)
  <2>1. list7 \o TheSystemProgram \in Seq(M) /\ Len(list7 \o TheSystemProgram) >= 0
    BY <1>3, <1>empty, JoinTyped
  <2>2. FormsTyped(Forms(list7 \o TheSystemProgram, <<>>), 0, M)
    BY <2>1, <1>empty, FormsOfTyped
  <2> QED BY <2>2 DEF TransferAssetsMetas, list7
<1>17. FormsTyped(CloseSwigMetas(a), 0, M)
  <2>1. list8 \o TheSystemProgram \in Seq(M) /\ Len(list8 \o TheSystemProgram) >= 0
    BY <1>3, <1>empty, JoinTyped
  <2>2. FormsTyped(Forms(list8 \o TheSystemProgram, <<>>), 0, M)
    BY <2>1, <1>empty, FormsOfTyped
  <2> QED BY <2>2 DEF CloseSwigMetas, list8
<1>18. FormsTyped(CloseTokenAccountMetas(a), 0, M)
  <2>1. list9 \in Seq(M) /\ Len(list9) >= 0
    BY <1>3, <1>empty, JoinTyped
  <2>2. FormsTyped(Forms(list9, <<>>), 0, M)
    BY <2>1, <1>empty, FormsOfTyped
  <2> QED BY <2>2 DEF CloseTokenAccountMetas, list9
<1>19. FormsTyped(AddAuthorizationLockMetas(a), 0, M)
  <2>1. list10 \o TheSystemProgram \o list11 \o mint \in Seq(M) /\ Len(list10 \o TheSystemProgram \o list11 \o mint) >= 0
    <3>1. list10 \o TheSystemProgram \o list11 \in Seq(M)
      BY <1>3, <1>empty, JoinTyped
    <3> QED BY <3>1, <1>4, JoinTyped
  <2>2. FormsTyped(Forms(list10 \o TheSystemProgram \o list11 \o mint, <<>>), 0, M)
    BY <2>1, <1>empty, FormsOfTyped
  <2> QED BY <2>2 DEF AddAuthorizationLockMetas, list10, list11, mint
<1>20. FormsTyped(RemoveAuthorizationLockMetas(a), 0, M)
  <2>1. list10 \o TheSystemProgram \o claimer \in Seq(M) /\ Len(list10 \o TheSystemProgram \o claimer) >= 0
    BY <1>3, <1>4, <1>empty, JoinTyped
  <2>2. FormsTyped(Forms(list10 \o TheSystemProgram \o claimer, <<>>), 0, M)
    BY <2>1, <1>empty, FormsOfTyped
  <2> QED BY <2>2 DEF RemoveAuthorizationLockMetas, list10, claimer
<1> QED
  BY <1>5, <1>6, <1>7, <1>8, <1>9, <1>10, <1>11, <1>12,
     <1>13, <1>14, <1>15, <1>16, <1>17, <1>18, <1>19, <1>20
  DEF M, MetasOf, Ops, ManageOps, SignOps, CloseOps, LockOps, WithdrawOps, Least, ContextIndex

-----------------------------------------------------------------------------
(* What a request is handed to.                                            *)
LEMMA AccountsTyped ==
  ASSUME NEW r \in Requests, PayerOf(r) # NoAddress
  PROVE  OperationOf(r) \in Ops /\ AccountsOf(r) \in Accounts
<1>1. /\ r.call \in Calls /\ r.version \in {"v1", "v2"} /\ r.role \in Role
      /\ r.args \in Arguments /\ r.opts \in Options
  BY RequestsAssumption
<1>2. OperationOf(r) \in Ops
  BY <1>1 DEF OperationOf, Calls, Ops, SignOps
<1>3. PayerOf(r) \in Address
  BY <1>1, AccountsAssumption DEF PayerOf, Options
<1>4. SubAccount[SubRole(r)] \in Address
  <2>1. SubRole(r) \in Role
    BY <1>1 DEF SubRole, Arguments
  <2> QED BY <2>1, AccountsAssumption
<1>5. RentClaimer(r) \in Address \cup {NoAddress}
  BY <1>1, AccountsAssumption DEF RentClaimer, Arguments
<1>6. /\ r.args.destination \in Address /\ r.args.tokenProgram \in Address
      /\ r.args.tokens \in Seq(Address) /\ r.args.asset \in Address
      /\ r.args.mint \in Address \cup {NoAddress}
  BY <1>1 DEF Arguments
<1>7. /\ AssociatedToken[<<SubAccount[SubRole(r)], r.args.tokenProgram>>] \in Address
      /\ AssociatedToken[<<Wallet, r.args.tokenProgram>>] \in Address
  BY <1>4, <1>6, AccountsAssumption, AssociatedTokenAssumption
<1>8. Swig \in Address /\ Wallet \in Address
  BY AccountsAssumption
<1> QED BY <1>2, <1>3, <1>4, <1>5, <1>6, <1>7, <1>8 DEF AccountsOf, Accounts

Called(c, a) ==
  /\ c.object \in Objects
  /\ c.acc \in Accounts /\ c.acc.swig = a.swig /\ c.acc.payer = a.payer

LEMMA CalledAccounts ==
  ASSUME NEW a \in Accounts, NEW op
  PROVE  \A x \in {a, Withdrawn(op, a), SwigForWallet(op, a)} :
           x \in Accounts /\ x.swig = a.swig /\ x.payer = a.payer
<1>1. /\ a.sub \in Address /\ a.wallet \in Address /\ a.swig \in Address
  BY DEF Accounts
<1>2. /\ AssociatedToken[<<a.sub, a.sub>>] \in Address
      /\ AssociatedToken[<<a.wallet, a.sub>>] \in Address
  BY <1>1, AssociatedTokenAssumption
<1>3. LET x == WithTokenProgram(a, a.sub)
      IN x \in Accounts /\ x.swig = a.swig /\ x.payer = a.payer
  BY <1>1, <1>2 DEF WithTokenProgram, Accounts
<1>4. LET x == [a EXCEPT !.wallet = a.swig]
      IN x \in Accounts /\ x.swig = a.swig /\ x.payer = a.payer
  BY <1>1 DEF Accounts
<1> QED BY <1>3, <1>4 DEF Withdrawn, SwigForWallet

LEMMA CalledForms ==
  ASSUME NEW a \in Accounts
  PROVE  /\ Called(Ed25519Own(a), a) /\ Called(BySession(a), a) /\ Called(ByRecord(a), a)
         /\ Called(Proved(a), a)
         /\ \A o \in SecpObjects : Called(Counted(o, a), a) /\ Called(Recounted(o, a), a)
BY DEF Called, Ed25519Own, BySession, ByRecord, Proved, Counted, Recounted, Call, Objects

LEMMA CallTyped ==
  ASSUME NEW class \in Classes, NEW op \in Ops, NEW a \in Accounts
  PROVE  Called(CallOf(class, op, a), a)
<1> DEFINE w == Withdrawn(op, a)
           s == SwigForWallet(op, a)
<1>1. \A x \in {a, w, s} : x \in Accounts /\ x.swig = a.swig /\ x.payer = a.payer
  BY CalledAccounts
<1>2. ASSUME NEW x \in {a, w, s}
      PROVE  /\ Called(Ed25519Own(x), a) /\ Called(BySession(x), a) /\ Called(ByRecord(x), a)
             /\ Called(Proved(x), a)
             /\ Called(Counted("Secp256k1", x), a) /\ Called(Counted("Secp256r1", x), a)
             /\ Called(Recounted("Secp256r1", x), a)
  <2> HIDE DEF w, s
  <2>1. x \in Accounts /\ x.swig = a.swig /\ x.payer = a.payer
    BY <1>1
  <2>2. \A c : Called(c, x) => Called(c, a)
    BY <2>1 DEF Called
  <2> QED BY <2>1, <2>2, CalledForms DEF SecpObjects
<1> HIDE DEF w, s
<1>3. CASE op \in SubAccountOps
  <2>0. op \notin AssetOps
    BY <1>3 DEF SubAccountOps, AssetOps, WithdrawOps, CloseOps, LockOps
  <2>1. CASE class \in TokenClasses
    <3>1. CallOf(class, op, a) \in
            {Ed25519Own(w), Counted("Secp256k1", w), Counted("Secp256r1", w), Proved(w)}
      BY <1>3, <2>0, <2>1 DEF CallOf, TokenClasses, w, Ed25519SubAccounts,
         Secp256k1SubAccounts, Secp256r1SubAccounts, ProgramExecSubAccounts
    <3> QED BY <3>1, <1>2
  <2>2. CASE class \in SessionClasses
    <3>1. CallOf(class, op, a) \in
            {BySession(a), ByRecord(w), Counted("Secp256k1", w), Counted("Secp256r1", w),
             Recounted("Secp256r1", a), Proved(w)}
      BY <1>3, <2>0, <2>2 DEF CallOf, SessionClasses, w, Ed25519SessionSubAccounts,
         Secp256k1SessionSubAccounts, Secp256r1SessionSubAccounts,
         ProgramExecSessionSubAccounts
    <3> QED BY <3>1, <1>2
  <2> QED BY <2>1, <2>2 DEF Classes
<1>4. CASE op \notin SubAccountOps /\ op \in AssetOps
  <2>1. CallOf(class, op, a) \in
          {Ed25519Own(a), BySession(a), ByRecord(a), Counted("Secp256k1", s),
           Counted("Secp256r1", a), Proved(a)}
    BY <1>4 DEF CallOf, Classes, TokenClasses, SessionClasses, s,
       Ed25519AssetCalls, Ed25519SessionAssetCalls, Secp256k1AssetCalls,
       Secp256k1SessionAssetCalls, Secp256r1AssetCalls, Secp256r1SessionAssetCalls,
       ProgramExecAssetCalls, ProgramExecSessionAssetCalls
  <2> QED BY <2>1, <1>2
<1>5. CASE op \notin SubAccountOps /\ op \notin AssetOps
  <2>1. CallOf(class, op, a) \in
          {Ed25519Own(a), BySession(a), ByRecord(a), Counted("Secp256k1", a),
           Counted("Secp256r1", a), Recounted("Secp256r1", a), Proved(a)}
    BY <1>5 DEF CallOf, Classes, TokenClasses, SessionClasses,
       Ed25519Roles, Ed25519SessionRoles, Secp256k1Roles,
       Secp256k1SessionRoles, Secp256r1Roles, Secp256r1SessionRoles,
       ProgramExecRoles, ProgramExecSessionRoles
  <2> QED BY <2>1, <1>2
<1> QED BY <1>3, <1>4, <1>5

-----------------------------------------------------------------------------
(* Where a call begins: metas of which only the payer and the authority    *)
(* sign, those of the operation first, or around a context; and the index  *)
(* of the authority among them.                                            *)
Begins(ms, base) ==
  Len(ms) >= Len(base) /\ \A i \in DOMAIN base : ms[i] = base[i]

StartOK(object, op, r, s) ==
  /\ s.metas \in Seq(Meta)
  /\ \A i \in DOMAIN s.metas : s.metas[i].signer => s.metas[i].key \in {r.acc.payer, r.authority}
  /\ op \notin WithdrawOps => Begins(s.metas, MetasOf(op, r.acc).base)
  /\ op \in WithdrawOps /\ object # "ProgramExec" =>
       \E m \in Meta : s.metas = WithContext(MetasOf(op, r.acc).base, m)
  /\ object = "Ed25519" =>
       /\ s.points \in 0..(Len(s.metas) - 1)
       /\ s.metas[s.points + 1] = ReadonlySigner(r.authority)
  /\ object \in {"Secp256r1", "ProgramExec"} =>
       /\ s.points \in 0..(Len(s.metas) - 1)
       /\ s.metas[s.points + 1].key = InstructionsSysvar
  /\ object = "Secp256k1" => s.points = NoIndex

(* A meta put after the base, or at the place of the context.              *)
LEMMA AppendedAt ==
  ASSUME NEW M, NEW base \in Seq(M), NEW m \in M, NEW more \in Seq(M)
  PROVE  /\ Append(base, m) \in Seq(M)
         /\ Len(base) \in 0..(Len(Append(base, m)) - 1)
         /\ Append(base, m)[Len(base) + 1] = m
         /\ Append(base, m) \o more \in Seq(M)
         /\ Len(base) \in 0..(Len(Append(base, m) \o more) - 1)
         /\ (Append(base, m) \o more)[Len(base) + 1] = m
<1>1. /\ Append(base, m) \in Seq(M)
      /\ Len(Append(base, m)) = Len(base) + 1
      /\ Append(base, m)[Len(base) + 1] = m
      /\ Len(base) \in Nat /\ Len(more) \in Nat
  OBVIOUS
<1> DEFINE t == Append(base, m)
<1> HIDE DEF t
<1>2. /\ t \in Seq(M) /\ Len(t) = Len(base) + 1 /\ t[Len(base) + 1] = m
  BY <1>1 DEF t
<1>3. /\ t \o more \in Seq(M) /\ Len(t \o more) = Len(t) + Len(more)
      /\ \A i \in 1..Len(t) : (t \o more)[i] = t[i]
  BY <1>2
<1> QED BY <1>1, <1>2, <1>3 DEF t

(* What a concatenation holds, with its length as a value of its own.      *)
LEMMA JoinedAt ==
  ASSUME NEW M, NEW s \in Seq(M), NEW t \in Seq(M), NEW i \in Nat, i # 0
  PROVE  /\ i <= Len(s) => (s \o t)[i] = s[i]
         /\ Len(s) < i /\ i <= Len(s) + Len(t) => (s \o t)[i] = t[i - Len(s)]
<1> DEFINE u == s \o t
<1>1. \A j \in 1..(Len(s) + Len(t)) : u[j] = IF j <= Len(s) THEN s[j] ELSE t[j - Len(s)]
  BY ConcatProperties
<1>2. Len(s) \in Nat /\ Len(t) \in Nat
  OBVIOUS
<1> HIDE DEF u
<1>3. /\ i <= Len(s) => u[i] = s[i]
      /\ Len(s) < i /\ i <= Len(s) + Len(t) => u[i] = t[i - Len(s)]
  BY <1>1, <1>2
<1> QED BY <1>3 DEF u

LEMMA ContextAt ==
  ASSUME NEW M, NEW base \in Seq(M), NEW m \in M, Len(base) >= ContextIndex
  PROVE  /\ WithContext(base, m) \in Seq(M)
         /\ ContextIndex \in 0..(Len(WithContext(base, m)) - 1)
         /\ WithContext(base, m)[ContextIndex + 1] = m
<1> DEFINE before == SubSeq(base, 1, 3)
           after == SubSeq(base, 4, Len(base))
<1>1. /\ before \in Seq(M) /\ Len(before) = 3
      /\ after \in Seq(M) /\ Len(after) \in Nat
  BY DEF ContextIndex
<1> HIDE DEF before, after
<1>2. /\ before \o <<m>> \in Seq(M)
      /\ Len(before \o <<m>>) = 4 /\ (before \o <<m>>)[4] = m
  <2>1. <<m>> \in Seq(M) /\ Len(<<m>>) = 1 /\ <<m>>[1] = m
    OBVIOUS
  <2> DEFINE one == <<m>>
  <2> HIDE DEF one
  <2>2. one \in Seq(M) /\ Len(one) = 1 /\ one[1] = m
    BY <2>1 DEF one
  <2>3. before \o one \in Seq(M) /\ Len(before \o one) = 4 /\ (before \o one)[4] = m
    <3>1. before \o one \in Seq(M)
      BY <1>1, <2>2, JoinTyped
    <3>2. Len(before \o one) = Len(before) + Len(one)
      BY <1>1, <2>2, JoinTyped
    <3>3. /\ 4 - Len(before) = 1 /\ Len(before) < 4 /\ 4 <= Len(before) + Len(one)
          /\ 4 \in Nat /\ 4 # 0
      BY <1>1, <2>2
    <3>4. (before \o one)[4] = one[4 - Len(before)]
      BY <1>1, <2>2, <3>3, JoinedAt
    <3> QED BY <1>1, <2>2, <3>1, <3>2, <3>3, <3>4
  <2> QED BY <2>3 DEF one
<1> DEFINE t == before \o <<m>>
<1> HIDE DEF t
<1>3. /\ t \in Seq(M) /\ Len(t) = 4 /\ t[4] = m
  BY <1>2 DEF t
<1>4. /\ t \o after \in Seq(M)
      /\ Len(t \o after) = 4 + Len(after)
      /\ (t \o after)[4] = m
  <2>1. t \o after \in Seq(M) /\ Len(t \o after) = Len(t) + Len(after)
    BY <1>1, <1>3, JoinTyped
  <2>2. 4 \in Nat /\ 4 # 0 /\ 4 <= Len(t)
    BY <1>3
  <2>3. (t \o after)[4] = t[4]
    BY <1>1, <1>3, <2>2, JoinedAt
  <2> QED BY <1>1, <1>3, <2>1, <2>3
<1>5. WithContext(base, m) = t \o after
  BY DEF WithContext, ContextIndex, t, before, after
<1> QED BY <1>1, <1>4, <1>5 DEF ContextIndex

(* The metas of an operation stay first when others follow.                *)
LEMMA BeginsFrom ==
  ASSUME NEW M, NEW s \in Seq(M), NEW t \in Seq(M), NEW u \in Seq(M),
         Begins(t, s), Begins(u, t)
  PROVE  Begins(u, s)
<1>1. /\ Len(s) \in Nat /\ Len(t) \in Nat /\ Len(u) \in Nat
      /\ DOMAIN s = 1..Len(s) /\ DOMAIN t = 1..Len(t)
  OBVIOUS
<1>2. Len(t) >= Len(s) /\ Len(u) >= Len(t)
  BY DEF Begins
<1>3. DOMAIN s \subseteq DOMAIN t
  BY <1>1, <1>2
<1>4. \A i \in DOMAIN s : u[i] = s[i]
  BY <1>3 DEF Begins
<1> QED BY <1>1, <1>2, <1>4 DEF Begins

LEMMA ExtendBegins ==
  ASSUME NEW M, NEW s \in Seq(M), NEW t \in Seq(M), NEW m \in M
  PROVE  /\ s \o t \in Seq(M) /\ Begins(s \o t, s)
         /\ Append(s, m) \in Seq(M) /\ Begins(Append(s, m), s)
<1>1. Len(s) \in Nat /\ Len(t) \in Nat /\ DOMAIN s = 1..Len(s)
  OBVIOUS
<1> DEFINE joined == s \o t
           longer == Append(s, m)
<1>2. /\ joined \in Seq(M) /\ Len(joined) = Len(s) + Len(t)
      /\ \A i \in 1..Len(s) : joined[i] = s[i]
  BY ConcatProperties
<1>3. /\ longer \in Seq(M) /\ Len(longer) = Len(s) + 1
      /\ \A i \in 1..Len(s) : longer[i] = s[i]
  BY AppendProperties
<1> HIDE DEF joined, longer
<1>4. Begins(joined, s)
  BY <1>1, <1>2 DEF Begins
<1>5. Begins(longer, s)
  BY <1>1, <1>3 DEF Begins
<1> QED BY <1>2, <1>3, <1>4, <1>5 DEF joined, longer

LEMMA JoinBegins ==
  ASSUME NEW M, NEW base \in Seq(M), NEW more \in Seq(M), NEW m \in M
  PROVE  /\ Begins(base, base)
         /\ Begins(base \o more, base)
         /\ Begins(Append(base, m), base)
         /\ Begins(Append(base, m) \o more, base)
         /\ Begins(Append(base \o more, m), base)
<1>1. Begins(base, base)
  BY DEF Begins
<1> DEFINE joined == base \o more
           longer == Append(base, m)
<1>2. joined \in Seq(M) /\ longer \in Seq(M) /\ Begins(joined, base) /\ Begins(longer, base)
  BY ExtendBegins
<1> HIDE DEF joined, longer
<1>3. /\ longer \o more \in Seq(M) /\ Begins(longer \o more, longer)
      /\ Append(joined, m) \in Seq(M) /\ Begins(Append(joined, m), joined)
  BY <1>2, ExtendBegins
<1>4. Begins(longer \o more, base) /\ Begins(Append(joined, m), base)
  BY <1>2, <1>3, BeginsFrom
<1> QED BY <1>1, <1>2, <1>4 DEF joined, longer

LEMMA TokenMetasTyped ==
  ASSUME NEW a \in Accounts, NEW K
  PROVE  TokenMetas(a) \in Seq(Signed(K))
<1>1. a.tokens \in Seq(Address)
  BY DEF Accounts
<1>2. \A i \in 1..Len(a.tokens) : Writable(a.tokens[i]) \in Signed(K)
  BY <1>1, SignedTyped
<1> QED BY <1>1, <1>2 DEF TokenMetas

(* The first meta of the sysvar is a position, whenever there is one.      *)
LEMMA SysvarIndexAt ==
  ASSUME NEW ms \in Seq(Meta), NEW p \in DOMAIN ms, ms[p].key = InstructionsSysvar
  PROVE  /\ SysvarIndex(ms) \in 0..(Len(ms) - 1)
         /\ ms[SysvarIndex(ms) + 1].key = InstructionsSysvar
<1> DEFINE S == {i \in Nat : i \in DOMAIN ms /\ ms[i].key = InstructionsSysvar}
           Less == {ss \in Nat \X Nat : ss[1] < ss[2]}
<1>1. S \subseteq Nat /\ p \in S
  OBVIOUS
<1>2. IsWellFoundedOn(Less, Nat)
  BY NatLessThanWellFounded DEF OpToRel
<1>3. PICK f \in S : \A j \in S : j >= f
  <2>1. \E f \in S : \A j \in S : ~(<<j, f>> \in Less)
    <3> HIDE DEF S, Less
    <3> QED BY <1>1, <1>2, WFMin
  <2>2. PICK f \in S : \A j \in S : ~(<<j, f>> \in Less)
    BY <2>1
  <2>3. ASSUME NEW j \in S PROVE j >= f
    <3>1. ~(<<j, f>> \in Less) /\ j \in Nat /\ f \in Nat
      BY <2>2, <2>3
    <3> QED BY <3>1
  <2> QED BY <2>3
<1>4. /\ f \in DOMAIN ms /\ ms[f].key = InstructionsSysvar
      /\ \A j \in 1..(f - 1) : ms[j].key # InstructionsSysvar
  BY <1>3
<1> DEFINE c == CHOOSE i \in DOMAIN ms :
                  /\ ms[i].key = InstructionsSysvar
                  /\ \A j \in 1..(i - 1) : ms[j].key # InstructionsSysvar
<1>5. c \in DOMAIN ms /\ ms[c].key = InstructionsSysvar
  BY <1>4
<1> HIDE DEF c
<1>6. SysvarIndex(ms) = c - 1
  BY DEF SysvarIndex, c
<1> QED BY <1>5, <1>6

LEMMA StartTyped ==
  ASSUME NEW object \in Objects, NEW op \in Ops, NEW r,
         r.acc \in Accounts, r.authority \in Address
  PROVE  StartOK(object, op, r, StartOf(object, op, r))
<1> DEFINE forms == MetasOf(op, r.acc)
           base == forms.base
           tokens == TokenMetas(r.acc)
           sm == SignerMeta(r)
           keys == {r.acc.payer, r.authority}
           M == Signed(keys)
           AtContext == op \in WithdrawOps /\ object # "ProgramExec"
           Kept(ms) ==
             /\ op \notin WithdrawOps => Begins(ms, base)
             /\ AtContext => \E m \in Meta : ms = WithContext(base, m)
<1>1. FormsTyped(forms, Least(op), M)
  BY MetasOfTyped
<1>2. /\ base \in Seq(M) /\ forms.withSystemProgram \in Seq(M)
      /\ forms.withAuthority[r.authority] = Append(base, sm)
      /\ op \in WithdrawOps => Len(base) >= ContextIndex
  <2> HIDE DEF M
  <2>1. base \in Seq(M) /\ \E between \in Seq(M) : forms.withSystemProgram = base \o between
    BY <1>1 DEF FormsTyped
  <2> HIDE DEF base
  <2>2. forms.withSystemProgram \in Seq(M)
    BY <2>1, JoinTyped
  <2> QED BY <1>1, <2>1, <2>2 DEF FormsTyped, Least, SignerMeta, base
<1>3. /\ tokens \in Seq(M) /\ sm \in M /\ SysvarMeta \in M
      /\ Readonly(SystemProgram) \in M /\ <<>> \in Seq(M)
      /\ sm = ReadonlySigner(r.authority) /\ SysvarMeta.key = InstructionsSysvar
  BY TokenMetasTyped, SignedTyped, AddressAssumption, SystemProgramTyped
  DEF SignerMeta, SysvarMeta, Readonly
<1>all. ASSUME NEW ms \in Seq(M)
        PROVE  /\ ms \in Seq(Meta)
               /\ \A i \in DOMAIN ms : ms[i].signer => ms[i].key \in keys
  <2>1. ms \in Seq(Meta)
    BY SignedAreMetas
  <2>2. \A i \in DOMAIN ms : ms[i] \in M
    <3> HIDE DEF M
    <3> QED OBVIOUS
  <2> HIDE DEF keys
  <2> QED BY <2>1, <2>2 DEF Signed
<1>begins. \A more \in Seq(M), m \in M :
             /\ ~AtContext =>
                  /\ Kept(base) /\ Kept(base \o more) /\ Kept(Append(base, m))
                  /\ Kept(Append(base, m) \o more)
                  /\ Kept(Append(base \o more, m))
             /\ op \in WithdrawOps => Kept(WithContext(base, m))
  <2>1. \A m \in M : m \in Meta
    BY DEF Signed
  <2> HIDE DEF M, base
  <2> QED BY <1>2, <2>1, JoinBegins
<1>long. ~AtContext =>
           /\ Kept(forms.withSystemProgram)
           /\ \A m \in M : Kept(Append(forms.withSystemProgram, m))
  <2>1. PICK between \in Seq(M) : forms.withSystemProgram = base \o between
    <3> HIDE DEF M
    <3> QED BY <1>1 DEF FormsTyped
  <2> HIDE DEF M, Kept, base, forms, AtContext
  <2> QED BY <1>3, <1>begins, <2>1
<1> HIDE DEF keys, M, Kept, AtContext
<1>4. CASE object = "Ed25519"
  <2> DEFINE s == Ed25519Start(op, r)
  <2>1. \/ s = Start(Append(base, sm), Len(base), NoIndex) /\ ~AtContext
        \/ s = Start(WithContext(base, sm), ContextIndex, NoIndex) /\ op \in WithdrawOps
        \/ s = Start(Append(base, sm) \o tokens, Len(base), Len(Append(base, sm))) /\ ~AtContext
    BY <1>2 DEF AtContext, Ed25519Start, Ed25519Manage, Ed25519SubAccount, Ed25519Assets,
       Ops, ManageOps, SignOps, WithdrawOps, CloseOps, LockOps
  <2> HIDE DEF base, tokens, sm, s
  <2>2. /\ s.metas \in Seq(M) /\ Kept(s.metas)
        /\ s.points \in 0..(Len(s.metas) - 1)
        /\ s.metas[s.points + 1] = sm
    <3>1. CASE s = Start(Append(base, sm), Len(base), NoIndex) /\ ~AtContext
      BY <3>1, <1>2, <1>3, <1>begins, AppendedAt DEF Start
    <3>2. CASE s = Start(WithContext(base, sm), ContextIndex, NoIndex) /\ op \in WithdrawOps
      <4>1. /\ WithContext(base, sm) \in Seq(M) /\ Kept(WithContext(base, sm))
            /\ ContextIndex \in 0..(Len(WithContext(base, sm)) - 1)
            /\ WithContext(base, sm)[ContextIndex + 1] = sm
        BY <3>2, <1>2, <1>3, <1>begins, ContextAt
      <4> QED BY <3>2, <4>1 DEF Start
    <3>3. CASE s = Start(Append(base, sm) \o tokens, Len(base), Len(Append(base, sm))) /\ ~AtContext
      BY <3>3, <1>2, <1>3, <1>begins, AppendedAt DEF Start
    <3> QED BY <2>1, <3>1, <3>2, <3>3
  <2>3. StartOf(object, op, r) = s
    BY <1>4 DEF StartOf, s
  <2> QED BY <1>3, <1>4, <1>all, <2>2, <2>3 DEF StartOK, Kept, AtContext, keys, base, forms
<1>5. CASE object = "Secp256k1"
  <2> DEFINE s == Secp256k1Start(op, r)
  <2>1. /\ s.points = NoIndex
        /\ \/ s.metas \in {base, forms.withSystemProgram, base \o tokens} /\ ~AtContext
           \/ s.metas = WithContext(base, Readonly(SystemProgram)) /\ op \in WithdrawOps
    BY DEF AtContext, Secp256k1Start, Secp256k1Manage, Secp256k1Sign, Secp256k1SubAccount,
       Secp256k1Withdraw, Secp256k1Assets, Secp256k1Locks, Start,
       Ops, ManageOps, SignOps, WithdrawOps, CloseOps, LockOps
  <2> HIDE DEF base, tokens, forms, s
  <2>2. s.metas \in Seq(M) /\ Kept(s.metas)
    <3>1. CASE s.metas = base \o tokens /\ ~AtContext
      BY <3>1, <1>2, <1>3, <1>begins, JoinTyped
    <3>2. CASE s.metas = WithContext(base, Readonly(SystemProgram)) /\ op \in WithdrawOps
      BY <3>2, <1>2, <1>3, <1>begins, ContextAt
    <3> QED BY <2>1, <1>2, <1>3, <1>begins, <1>long, <3>1, <3>2
  <2>3. StartOf(object, op, r) = s
    BY <1>5 DEF StartOf, s
  <2> QED BY <1>5, <1>all, <2>1, <2>2, <2>3 DEF StartOK, Kept, AtContext, keys, base, forms
<1>joined. /\ base \o <<SysvarMeta>> = Append(base, SysvarMeta)
      /\ forms.withSystemProgram \o <<SysvarMeta>> = Append(forms.withSystemProgram, SysvarMeta)
  <2> HIDE DEF base, forms
  <2> QED BY <1>2, <1>3, AppendIsConcat
<1>6. CASE object = "Secp256r1"
  <2> DEFINE ms == Secp256r1Metas(op, r)
             long == forms.withSystemProgram
  <2>1. \/ ms = WithContext(base, SysvarMeta) /\ op \in WithdrawOps
        \/ /\ ~AtContext
           /\ \/ ms = Append(long, SysvarMeta) \/ ms = Append(base, SysvarMeta)
              \/ ms = Append(base, SysvarMeta) \o tokens
              \/ ms = Append(base, SysvarMeta) \o <<>>
    BY <1>joined DEF AtContext, Secp256r1Metas, Secp256r1Manage, Secp256r1Sign, Secp256r1SubAccount,
       Secp256r1Withdraw, Secp256r1Assets, Secp256r1Locks,
       Ops, ManageOps, SignOps, WithdrawOps, CloseOps, LockOps
  <2> HIDE DEF base, tokens, long, ms
  <2>2. /\ ms \in Seq(M) /\ Kept(ms)
        /\ \E p \in Nat : p \in 0..(Len(ms) - 1) /\ ms[p + 1] = SysvarMeta
    <3>1. ASSUME NEW t \in Seq(M), Kept(Append(t, SysvarMeta)), ms = Append(t, SysvarMeta)
          PROVE  /\ ms \in Seq(M) /\ Kept(ms)
                 /\ \E p \in Nat : p \in 0..(Len(ms) - 1) /\ ms[p + 1] = SysvarMeta
      <4>1. Len(t) \in Nat
        OBVIOUS
      <4>2. /\ ms \in Seq(M) /\ Len(t) \in 0..(Len(ms) - 1)
            /\ ms[Len(t) + 1] = SysvarMeta
        BY <3>1, <1>3, AppendedAt
      <4> QED BY <3>1, <4>1, <4>2
    <3>2. CASE ms = WithContext(base, SysvarMeta) /\ op \in WithdrawOps
      <4>1. /\ ms \in Seq(M) /\ ContextIndex \in 0..(Len(ms) - 1)
            /\ ms[ContextIndex + 1] = SysvarMeta
        BY <3>2, <1>2, <1>3, ContextAt
      <4> QED BY <3>2, <4>1, <1>3, <1>begins DEF ContextIndex
    <3>3. ASSUME NEW more \in Seq(M), ms = Append(base, SysvarMeta) \o more, ~AtContext
          PROVE  /\ ms \in Seq(M) /\ Kept(ms)
                 /\ \E p \in Nat : p \in 0..(Len(ms) - 1) /\ ms[p + 1] = SysvarMeta
      <4>1. Len(base) \in Nat
        BY <1>2
      <4>2. /\ ms \in Seq(M) /\ Len(base) \in 0..(Len(ms) - 1)
            /\ ms[Len(base) + 1] = SysvarMeta
        BY <3>3, <1>2, <1>3, AppendedAt
      <4> QED BY <3>3, <4>1, <4>2, <1>3, <1>begins
    <3>4. /\ long \in Seq(M)
          /\ ~AtContext => Kept(Append(long, SysvarMeta)) /\ Kept(Append(base, SysvarMeta))
      BY <1>2, <1>3, <1>begins, <1>long DEF long
    <3> QED BY <2>1, <1>2, <1>3, <3>1, <3>2, <3>3, <3>4
  <2>3. /\ SysvarIndex(ms) \in 0..(Len(ms) - 1)
        /\ ms[SysvarIndex(ms) + 1].key = InstructionsSysvar
    <3>1. PICK p \in Nat : p \in 0..(Len(ms) - 1) /\ ms[p + 1] = SysvarMeta
      BY <2>2
    <3>2. p + 1 \in DOMAIN ms /\ ms[p + 1].key = InstructionsSysvar
      BY <3>1, <2>2, <1>3
    <3> QED BY <3>2, <2>2, <1>all, SysvarIndexAt
  <2>4. /\ StartOf(object, op, r).metas = ms
        /\ StartOf(object, op, r).points = SysvarIndex(ms)
    BY <1>6 DEF StartOf, Secp256r1Start, Start, ms
  <2> QED BY <1>6, <1>all, <2>2, <2>3, <2>4 DEF StartOK, Kept, AtContext, keys, base, forms
<1>7. CASE object = "ProgramExec"
  <2> DEFINE s == ProgramExecStart(op, r)
  <2>1. \/ s = Start(Append(base, SysvarMeta), Len(base), NoIndex)
        \/ s = Start(Append(base, SysvarMeta) \o tokens, Len(base), Len(base) + 1)
    BY DEF ProgramExecStart, ProgramExecManage, ProgramExecSign, ProgramExecSubAccount,
       ProgramExecAssets, Ops, ManageOps, SignOps, WithdrawOps, CloseOps, LockOps
  <2>0. ~AtContext
    BY <1>7 DEF AtContext
  <2> HIDE DEF base, tokens, s
  <2>2. /\ s.metas \in Seq(M) /\ Kept(s.metas)
        /\ s.points \in 0..(Len(s.metas) - 1)
        /\ s.metas[s.points + 1] = SysvarMeta
    <3>1. CASE s = Start(Append(base, SysvarMeta), Len(base), NoIndex)
      BY <3>1, <2>0, <1>2, <1>3, <1>begins, AppendedAt DEF Start
    <3>2. CASE s = Start(Append(base, SysvarMeta) \o tokens, Len(base), Len(base) + 1)
      BY <3>2, <2>0, <1>2, <1>3, <1>begins, AppendedAt DEF Start
    <3> QED BY <2>1, <3>1, <3>2
  <2>3. StartOf(object, op, r) = s
    BY <1>7 DEF StartOf, s
  <2> QED BY <1>3, <1>7, <1>all, <2>2, <2>3 DEF StartOK, Kept, AtContext, keys, base, forms
<1> QED BY <1>4, <1>5, <1>6, <1>7 DEF Objects, SecpObjects

LEMMA BegunTyped ==
  ASSUME NEW r \in Requests, ~Refused(r)
  PROVE  /\ OperationOf(r) \in Ops /\ TheCall(r).object \in Objects
         /\ AccountsOf(r) \in Accounts /\ Handed(r).authority \in Address
         /\ Handed(r).acc \in Accounts /\ Handed(r).acc = TheCall(r).acc
         /\ Handed(r).acc.swig = Swig /\ Handed(r).acc.payer = PayerOf(r)
         /\ StartOK(TheCall(r).object, OperationOf(r), Handed(r),
                    StartOf(TheCall(r).object, OperationOf(r), Handed(r)))
<1>1. OperationOf(r) \in Ops /\ AccountsOf(r) \in Accounts
  BY AccountsTyped DEF Refused
<1>2. r.class \in Classes
  BY RequestsAssumption
<1>3. TheCall(r).object \in Objects /\ TheCall(r).acc \in Accounts
      /\ TheCall(r).acc.swig = AccountsOf(r).swig /\ TheCall(r).acc.payer = AccountsOf(r).payer
  BY <1>1, <1>2, CallTyped DEF TheCall, Called
<1>4. Handed(r).acc = TheCall(r).acc /\ Handed(r).authority \in Address
  BY AccountsAssumption DEF Handed
<1>5. AccountsOf(r).swig = Swig /\ AccountsOf(r).payer = PayerOf(r)
  BY DEF AccountsOf
<1> QED BY <1>1, <1>3, <1>4, <1>5, StartTyped

(* The metas of a signature begin with the swig account.                   *)
LEMMA SignedMetasNameSwig ==
  ASSUME NEW r \in Requests, ~Refused(r), OperationOf(r) \in SignOps
  PROVE  LET ms == StartOf(TheCall(r).object, OperationOf(r), Handed(r)).metas
         IN \E i \in DOMAIN ms : ms[i].key = Swig
<1> DEFINE op == OperationOf(r)
           a == Handed(r).acc
           base == MetasOf(op, a).base
           ms == StartOf(TheCall(r).object, op, Handed(r)).metas
<1>1. /\ op \in Ops /\ a \in Accounts /\ a.swig = Swig /\ ms \in Seq(Meta)
      /\ Begins(ms, base)
  <2>1. op \notin WithdrawOps
    BY DEF SignOps, WithdrawOps
  <2> QED BY <2>1, BegunTyped DEF StartOK
<1>2. base \in Seq(Meta)
  <2>1. FormsTyped(MetasOf(op, a), Least(op), Signed({a.payer}))
    BY <1>1, MetasOfTyped
  <2> QED BY <2>1, SignedAreMetas DEF FormsTyped
<1>3. base[1] = Writable(a.swig) /\ 1 \in DOMAIN base
  <2> DEFINE two == <<Writable(a.swig), WritableSigner(a.payer)>>
             wallet == <<Writable(a.swig), Writable(a.wallet)>>
             sub == <<Writable(a.swig), Writable(a.sub)>>
  <2>1. base \in {two, wallet, sub \o TheSystemProgram}
    BY DEF SignOps, MetasOf, SignV1Metas, SignV2Metas, SubAccountSignMetas, Forms
  <2>2. Writable(a.swig) \in Meta /\ WritableSigner(a.payer) \in Meta
        /\ Writable(a.wallet) \in Meta /\ Writable(a.sub) \in Meta
    BY <1>1, MetaTyped DEF Accounts
  <2>3. /\ two[1] = Writable(a.swig) /\ 1 \in DOMAIN two
        /\ wallet[1] = Writable(a.swig) /\ 1 \in DOMAIN wallet
        /\ sub[1] = Writable(a.swig) /\ 1 \in DOMAIN sub
        /\ sub \in Seq(Meta)
    BY <2>2
  <2>4. TheSystemProgram \in Seq(Meta)
    BY SystemProgramTyped, SignedAreMetas
  <2>5. Begins(sub \o TheSystemProgram, sub) /\ sub \o TheSystemProgram \in Seq(Meta)
    <3> HIDE DEF sub
    <3>1. \A m \in Meta : Begins(sub \o TheSystemProgram, sub) /\ sub \o TheSystemProgram \in Seq(Meta)
      BY <2>3, <2>4, ExtendBegins
    <3> QED BY <2>2, <3>1
  <2> HIDE DEF base, sub, two, wallet
  <2>6. (sub \o TheSystemProgram)[1] = Writable(a.swig) /\ 1 \in DOMAIN (sub \o TheSystemProgram)
    <3> DEFINE all == sub \o TheSystemProgram
    <3>1. all \in Seq(Meta) /\ Len(all) >= Len(sub) /\ all[1] = sub[1] /\ Len(sub) >= 1
      BY <2>3, <2>5 DEF Begins
    <3> HIDE DEF all
    <3>2. 1 \in DOMAIN all
      BY <2>3, <3>1
    <3> QED BY <2>3, <3>1, <3>2 DEF all
  <2> QED BY <2>1, <2>3, <2>6
<1> HIDE DEF ms, base
<1>4. 1 \in DOMAIN ms /\ ms[1].key = Swig
  <2>1. ms[1] = base[1] /\ Len(ms) >= Len(base) /\ Len(base) >= 1
    BY <1>1, <1>2, <1>3 DEF Begins
  <2>2. 1 \in DOMAIN ms
    BY <1>1, <1>2, <2>1
  <2> QED BY <1>1, <1>3, <2>1, <2>2 DEF Writable
<1> QED BY <1>4 DEF ms

-----------------------------------------------------------------------------
(* A map of keys to positions, and lists of positions, of a list of metas. *)
Mapped(map, ms) ==
  \A k \in Address : map[k] # NoIndex =>
    map[k] \in 0..(Len(ms) - 1) /\ ms[map[k] + 1].key = k

Positions(s, ms) == \A i \in DOMAIN s : s[i] \in 0..(Len(ms) - 1)

Finished(xs, ms) ==
  \A n \in DOMAIN xs :
    xs[n].program \in 0..(Len(ms) - 1) /\ Positions(xs[n].accounts, ms)

Grown(ms, longer) ==
  /\ Len(longer) >= Len(ms)
  /\ \A i \in DOMAIN ms :
       /\ longer[i].key = ms[i].key
       /\ ms[i].signer => longer[i].signer
       /\ ms[i].writable => longer[i].writable

Maps == [Address -> Nat \cup {NoIndex}]
Compact == [program : Nat, accounts : Seq(Nat)]

LEMMA CompactionParts ==
  CompactionInv <=>
    /\ Mapped(index, metas)
    /\ programAt # NoIndex => programAt \in 0..(Len(metas) - 1)
    /\ Positions(accts, metas)
    /\ Finished(ixs, metas)
BY DEF CompactionInv, Mapped, Positions, Finished

LEMMA GrownKeeps ==
  ASSUME NEW ms \in Seq(Meta), NEW longer \in Seq(Meta), Grown(ms, longer)
  PROVE  /\ 0..(Len(ms) - 1) \subseteq 0..(Len(longer) - 1)
         /\ \A map \in Maps : Mapped(map, ms) => Mapped(map, longer)
         /\ \A s : Positions(s, ms) => Positions(s, longer)
         /\ \A xs : Finished(xs, ms) => Finished(xs, longer)
<1>1. /\ Len(ms) \in Nat /\ Len(longer) \in Nat /\ Len(longer) >= Len(ms)
  BY DEF Grown
<1>2. 0..(Len(ms) - 1) \subseteq 0..(Len(longer) - 1)
  BY <1>1
<1>3. ASSUME NEW map \in Maps, Mapped(map, ms), NEW k \in Address, map[k] # NoIndex
      PROVE  map[k] \in 0..(Len(longer) - 1) /\ longer[map[k] + 1].key = k
  <2>1. map[k] \in 0..(Len(ms) - 1) /\ ms[map[k] + 1].key = k
    BY <1>3 DEF Mapped
  <2>2. map[k] + 1 \in DOMAIN ms
    BY <2>1, <1>1
  <2> QED BY <2>1, <2>2, <1>2 DEF Grown
<1>4. \A s : Positions(s, ms) => Positions(s, longer)
  BY <1>2 DEF Positions
<1>5. \A xs : Finished(xs, ms) => Finished(xs, longer)
  BY <1>2, <1>4 DEF Finished
<1> QED BY <1>2, <1>3, <1>4, <1>5 DEF Mapped

LEMMA AppendGrows ==
  ASSUME NEW ms \in Seq(Meta), NEW m \in Meta
  PROVE  /\ Append(ms, m) \in Seq(Meta) /\ Grown(ms, Append(ms, m)) /\ Grown(ms, ms)
         /\ Len(ms) \in Nat /\ Len(ms) \in 0..(Len(Append(ms, m)) - 1)
         /\ Append(ms, m)[Len(ms) + 1] = m
BY AppendProperties DEF Grown

(* The position that LastIndex gives a key.                                *)
LEMMA LastIndexMapped ==
  ASSUME NEW ms \in Seq(Meta)
  PROVE  /\ LastIndex(ms) \in Maps /\ Mapped(LastIndex(ms), ms)
         /\ \A k \in Address : (\E i \in DOMAIN ms : ms[i].key = k) =>
              LastIndex(ms)[k] # NoIndex
<1> SUFFICES ASSUME NEW k \in Address
             PROVE  /\ LastIndex(ms)[k] \in Nat \cup {NoIndex}
                    /\ (\E i \in DOMAIN ms : ms[i].key = k) => LastIndex(ms)[k] # NoIndex
                    /\ LastIndex(ms)[k] # NoIndex =>
                         /\ LastIndex(ms)[k] \in 0..(Len(ms) - 1)
                         /\ ms[LastIndex(ms)[k] + 1].key = k
  BY DEF Maps, Mapped, LastIndex
<1>1. CASE ~ \E i \in DOMAIN ms : ms[i].key = k
  BY <1>1 DEF LastIndex
<1>2. CASE \E i \in DOMAIN ms : ms[i].key = k
  <2> DEFINE Less == {ss \in Nat \X Nat : ss[1] < ss[2]}
             S == {n \in Nat : n < Len(ms) /\ ms[Len(ms) - n].key = k}
  <2>1. Len(ms) \in Nat /\ DOMAIN ms = 1..Len(ms)
    OBVIOUS
  <2>2. S \subseteq Nat /\ S # {}
    <3>1. PICK i \in DOMAIN ms : ms[i].key = k
      BY <1>2
    <3>2. Len(ms) - i \in Nat /\ Len(ms) - i < Len(ms) /\ Len(ms) - (Len(ms) - i) = i
      BY <3>1, <2>1
    <3>3. Len(ms) - i \in S
      BY <3>1, <3>2
    <3> QED BY <3>3
  <2>3. IsWellFoundedOn(Less, Nat)
    BY NatLessThanWellFounded DEF OpToRel
  <2>4. \E f \in S : \A j \in S : ~(<<j, f>> \in Less)
    <3> HIDE DEF S, Less
    <3> QED BY <2>2, <2>3, WFMin
  <2>5. PICK f \in S : \A j \in S : ~(<<j, f>> \in Less)
    BY <2>4
  <2> DEFINE last == Len(ms) - f
  <2>6. last \in DOMAIN ms /\ ms[last].key = k
    BY <2>1, <2>5
  <2>7. ASSUME NEW j \in DOMAIN ms, j > last PROVE ms[j].key # k
    <3>1. SUFFICES ASSUME ms[j].key = k PROVE FALSE
      OBVIOUS
    <3>2. /\ Len(ms) - j \in Nat /\ Len(ms) - j < Len(ms) /\ Len(ms) - (Len(ms) - j) = j
          /\ f \in Nat /\ Len(ms) - j < f
      BY <2>1, <2>5, <2>7
    <3>3. Len(ms) - j \in S
      BY <3>1, <3>2
    <3>4. <<Len(ms) - j, f>> \in Less
      BY <3>2
    <3> QED BY <2>5, <3>3, <3>4
  <2> DEFINE c == CHOOSE i \in DOMAIN ms :
                    ms[i].key = k /\ \A j \in DOMAIN ms : j > i => ms[j].key # k
  <2>8. c \in DOMAIN ms /\ ms[c].key = k
    <3> HIDE DEF last
    <3> QED BY <2>6, <2>7
  <2>9. LastIndex(ms)[k] = c - 1
    BY <1>2 DEF LastIndex
  <2> HIDE DEF c
  <2> QED BY <2>1, <2>8, <2>9, ProgramAssumption
<1> QED BY <1>1, <1>2

-----------------------------------------------------------------------------
(* The inductive invariant.  What is being compacted is a request that was *)
(* not refused, and an instruction is open only while one is left.         *)
RequestOK ==
  /\ phase # "idle" => req \in Requests
  /\ phase \in {"compact", "built"} => ~Refused(req)

OpenOK ==
  programAt # NoIndex => phase = "compact" /\ Compacts /\ Len(ixs) < Len(req.inner)

IdleOK == phase = "idle" => metas = <<>> /\ accts = <<>> /\ ixs = <<>>

IInv == TypeOK /\ RequestOK /\ OpenOK /\ IdleOK /\ CompactionInv

LEMMA CurrentTyped ==
  ASSUME IInv, phase = "compact", Len(ixs) < Len(req.inner)
  PROVE  /\ Current \in Instruction
         /\ Len(accts) < Len(Current.accounts) => NextMeta \in Meta
<1>1. req.inner \in Seq(Instruction) /\ ixs \in Seq(Compact) /\ accts \in Seq(Nat)
  BY RequestsAssumption DEF IInv, RequestOK, TypeOK, Compact
<1>2. req.inner[Len(ixs) + 1] \in Instruction
  BY <1>1
<1>3. ASSUME NEW ix \in Instruction PROVE Sanitized(ix) \in Instruction
  <2>1. ix.accounts \in Seq(Meta)
    BY DEF Instruction
  <2>2. Len(ix.accounts) > 0 => SubSeq(ix.accounts, 1, 1) \in Seq(Meta)
    BY <2>1
  <2> QED BY <2>1, <2>2 DEF Sanitized, Instruction
<1>4. Current \in Instruction
  BY <1>2, <1>3 DEF Current
<1>5. ASSUME Len(accts) < Len(Current.accounts) PROVE NextMeta \in Meta
  <2>1. Current.accounts \in Seq(Meta)
    BY <1>4 DEF Instruction
  <2> DEFINE s == Current.accounts
             m == s[Len(accts) + 1]
  <2>2. m \in Meta
    <3> HIDE DEF s
    <3> QED BY <1>1, <1>5, <2>1 DEF s
  <2>3. [m EXCEPT !.signer = FALSE] \in Meta
    BY <2>2 DEF Meta
  <2> QED BY <2>2, <2>3 DEF NextMeta, AsNamed
<1> QED BY <1>4, <1>5

LEMMA FreshTyped ==
  /\ <<>> \in Seq(Meta) /\ <<>> \in Seq(Nat) /\ <<>> \in Seq(Compact)
  /\ LastIndex(<<>>) \in Maps /\ Mapped(LastIndex(<<>>), <<>>)
<1>1. <<>> \in Seq(Meta) /\ <<>> \in Seq(Nat) /\ <<>> \in Seq(Compact)
  OBVIOUS
<1> QED BY <1>1, LastIndexMapped

LEMMA InitInv == Init => IInv
<1> SUFFICES ASSUME Init PROVE IInv
  OBVIOUS
<1>1. index \in Maps /\ Mapped(index, metas)
  BY FreshTyped DEF Init
<1>2. TypeOK
  <2>1. /\ phase \in Phases /\ phase = "idle" /\ programAt \in Nat \cup {NoIndex}
        /\ unbalanced \in BOOLEAN
    BY DEF Init, Phases
  <2>2. metas \in Seq(Meta) /\ accts \in Seq(Nat) /\ ixs \in Seq(Compact)
    BY FreshTyped DEF Init
  <2> QED BY <1>1, <2>1, <2>2 DEF TypeOK, Maps, Compact
<1>3. CompactionInv
  BY <1>1, CompactionParts DEF Init, Positions, Finished
<1>4. RequestOK /\ OpenOK /\ IdleOK
  BY DEF Init, RequestOK, OpenOK, IdleOK
<1> QED BY <1>2, <1>3, <1>4 DEF IInv

LEMMA BeginStep == IInv /\ Begin => IInv'
<1> SUFFICES ASSUME IInv, Begin PROVE IInv'
  OBVIOUS
<1>1. PICK r \in Requests :
        /\ req' = r
        /\ IF Refused(r)
           THEN phase' = "refused" /\ UNCHANGED <<start, metas, index>>
           ELSE LET s == StartOf(TheCall(r).object, OperationOf(r), Handed(r))
                IN /\ phase' = "compact"
                   /\ start' = s
                   /\ metas' = s.metas
                   /\ index' = LastIndex(s.metas)
  BY DEF Begin
<1>2. r.class \in Classes
  BY RequestsAssumption
<1>3. programAt = NoIndex
  BY DEF IInv, OpenOK, Begin
<1>4. CASE Refused(r)
  <2>1. TypeOK'
    BY <1>1, <1>2, <1>4 DEF IInv, TypeOK, Phases, Begin
  <2>2. CompactionInv'
    BY <1>1, <1>4 DEF IInv, CompactionInv, Begin
  <2>3. RequestOK' /\ OpenOK'
    BY <1>1, <1>3, <1>4 DEF RequestOK, OpenOK, Begin
  <2>4. IdleOK'
    BY <1>1, <1>4 DEF IdleOK
  <2> QED BY <2>1, <2>2, <2>3, <2>4 DEF IInv
<1>5. CASE ~Refused(r)
  <2> DEFINE s == StartOf(TheCall(r).object, OperationOf(r), Handed(r))
  <2>1. s.metas \in Seq(Meta)
    BY <1>5, BegunTyped DEF StartOK
  <2> HIDE DEF s
  <2>2. metas' = s.metas /\ index' = LastIndex(s.metas) /\ phase' = "compact" /\ req' = r
    BY <1>1, <1>5 DEF s
  <2>3. index' \in Maps /\ Mapped(index', metas')
    BY <2>1, <2>2, LastIndexMapped
  <2>4. TypeOK'
    BY <1>2, <2>1, <2>2, <2>3 DEF IInv, TypeOK, Phases, Begin, Maps
  <2>5. CompactionInv'
    <3>1. /\ accts' = <<>> /\ ixs' = <<>> /\ programAt' = NoIndex
      BY <1>3 DEF Begin, IInv, IdleOK
    <3> QED BY <2>3, <3>1 DEF CompactionInv, Mapped
  <2>6. RequestOK' /\ OpenOK' /\ IdleOK'
    BY <1>3, <1>5, <2>2 DEF RequestOK, OpenOK, IdleOK, Begin
  <2> QED BY <2>4, <2>5, <2>6 DEF IInv
<1> QED BY <1>4, <1>5

LEMMA OpenStep == IInv /\ OpenInner => IInv' /\ RightsStay
<1> SUFFICES ASSUME IInv, OpenInner PROVE IInv' /\ RightsStay
  OBVIOUS
<1> DEFINE m == Readonly(Current.program)
<1>1. metas \in Seq(Meta) /\ m \in Meta
  BY CurrentTyped, MetaTyped DEF IInv, TypeOK, OpenInner, Instruction
<1> HIDE DEF m
<1>2. /\ metas' = Append(metas, m) /\ programAt' = Len(metas) /\ accts' = <<>>
      /\ UNCHANGED <<phase, req, start, index, ixs, unbalanced, ctx>>
      /\ phase = "compact" /\ Compacts /\ Len(ixs) < Len(req.inner)
  BY DEF OpenInner, m
<1>3. /\ metas' \in Seq(Meta) /\ Grown(metas, metas')
      /\ Len(metas) \in Nat /\ Len(metas) \in 0..(Len(metas') - 1)
  BY <1>1, <1>2, AppendGrows
<1>4. TypeOK'
  BY <1>2, <1>3, FreshTyped DEF IInv, TypeOK
<1>5. CompactionInv'
  <2>1. index \in Maps /\ Mapped(index, metas) /\ Finished(ixs, metas)
    BY CompactionParts DEF IInv, TypeOK, Maps
  <2>2. Mapped(index', metas') /\ Finished(ixs', metas')
    BY <1>1, <1>2, <1>3, <2>1, GrownKeeps
  <2> QED BY <1>2, <1>3, <2>2 DEF CompactionInv, Mapped, Finished, Positions
<1>6. RequestOK' /\ OpenOK' /\ IdleOK'
  BY <1>2 DEF IInv, RequestOK, OpenOK, IdleOK, Compacts
<1>7. RightsStay
  BY <1>3 DEF Grown, RightsStay
<1> QED BY <1>4, <1>5, <1>6, <1>7 DEF IInv

(* What Naming gives: the opened instruction and its next account.         *)
LEMMA NamingTyped ==
  ASSUME IInv, Naming
  PROVE  /\ metas \in Seq(Meta) /\ NextMeta \in Meta /\ NextMeta.key \in Address
         /\ index \in Maps /\ accts \in Seq(Nat) /\ ixs \in Seq(Compact)
         /\ phase = "compact" /\ Compacts /\ programAt # NoIndex
         /\ Mapped(index, metas) /\ Positions(accts, metas) /\ Finished(ixs, metas)
         /\ programAt \in 0..(Len(metas) - 1) /\ Len(metas) \in Nat
<1>1. phase = "compact" /\ Len(ixs) < Len(req.inner) /\ Compacts /\ programAt # NoIndex
  BY DEF IInv, OpenOK, Naming
<1>2. NextMeta \in Meta
  BY <1>1, CurrentTyped DEF Naming
<1>3. NextMeta.key \in Address
  BY <1>2 DEF Meta
<1> QED BY <1>1, <1>2, <1>3, CompactionParts DEF IInv, TypeOK, Maps, Compact

(* Naming an account grows the metas, and adds one position of theirs to   *)
(* the instruction being compacted.                                        *)
LEMMA NamedKeeps ==
  ASSUME IInv, Naming, NEW n, n \in 0..(Len(metas') - 1),
         metas' \in Seq(Meta), Grown(metas, metas'), accts' = Append(accts, n),
         index' \in Maps, Mapped(index', metas'),
         UNCHANGED <<phase, req, start, programAt, ixs, unbalanced, ctx>>
  PROVE  IInv' /\ RightsStay
<1>1. /\ metas \in Seq(Meta) /\ accts \in Seq(Nat) /\ phase = "compact"
      /\ Positions(accts, metas) /\ Finished(ixs, metas)
      /\ programAt \in 0..(Len(metas) - 1)
  BY NamingTyped
<1>2. /\ 0..(Len(metas) - 1) \subseteq 0..(Len(metas') - 1)
      /\ Positions(accts, metas') /\ Finished(ixs, metas')
  BY <1>1, GrownKeeps
<1>3. accts' \in Seq(Nat) /\ Positions(accts', metas')
  <2>1. n \in Nat
    BY DEF Meta
  <2>2. /\ accts' \in Seq(Nat) /\ Len(accts') = Len(accts) + 1
        /\ \A i \in 1..Len(accts) : accts'[i] = accts[i]
        /\ accts'[Len(accts) + 1] = n
    BY <1>1, <2>1, AppendProperties
  <2>3. ASSUME NEW i \in DOMAIN accts' PROVE accts'[i] \in 0..(Len(metas') - 1)
    <3>1. i \in 1..Len(accts) \/ i = Len(accts) + 1
      BY <1>1, <2>2
    <3>2. CASE i \in 1..Len(accts)
      BY <1>1, <1>2, <2>2, <3>2 DEF Positions
    <3> QED BY <2>2, <3>1, <3>2
  <2> QED BY <2>2, <2>3 DEF Positions
<1>4. TypeOK'
  BY <1>3 DEF IInv, TypeOK, Maps
<1>5. CompactionInv'
  BY <1>1, <1>2, <1>3 DEF CompactionInv, Mapped, Positions, Finished
<1>6. RequestOK' /\ OpenOK' /\ IdleOK'
  BY <1>1 DEF IInv, RequestOK, OpenOK, IdleOK, Compacts
<1>7. RightsStay
  BY DEF Grown, RightsStay
<1> QED BY <1>4, <1>5, <1>6, <1>7 DEF IInv

(* A meta that gets more rights. *)
LEMMA RightsAdded ==
  ASSUME NEW ms \in Seq(Meta), NEW p \in DOMAIN ms, NEW w \in BOOLEAN, NEW s \in BOOLEAN
  PROVE  LET more == [ms EXCEPT ![p].writable = @ \/ w, ![p].signer = @ \/ s]
         IN more \in Seq(Meta) /\ Len(more) = Len(ms) /\ Grown(ms, more)
<1> DEFINE m == ms[p]
           raised == [m EXCEPT !.writable = @ \/ w, !.signer = @ \/ s]
           more == [ms EXCEPT ![p] = raised]
<1>1. m \in Meta
  OBVIOUS
<1>2. /\ raised \in Meta /\ raised.key = m.key
      /\ m.signer => raised.signer
      /\ m.writable => raised.writable
  <2> HIDE DEF m
  <2> QED BY <1>1 DEF Meta
<1>3. [ms EXCEPT ![p].writable = @ \/ w, ![p].signer = @ \/ s] = more
  OBVIOUS
<1> HIDE DEF raised
<1>4. /\ more \in Seq(Meta) /\ Len(more) = Len(ms)
      /\ \A j \in DOMAIN ms : more[j] = IF j = p THEN raised ELSE ms[j]
  BY <1>2
<1> HIDE DEF more
<1>5. Grown(ms, more)
  BY <1>2, <1>4 DEF Grown
<1> QED BY <1>3, <1>4, <1>5

LEMMA ReuseStep == IInv /\ ReuseAccount => IInv' /\ RightsStay
<1> SUFFICES ASSUME IInv, ReuseAccount PROVE IInv' /\ RightsStay
  OBVIOUS
<1> DEFINE i == index[NextMeta.key]
<1>1. Naming /\ i # NoIndex
  BY DEF ReuseAccount
<1>2. /\ metas \in Seq(Meta) /\ NextMeta \in Meta /\ index \in Maps /\ Len(metas) \in Nat
      /\ Mapped(index, metas) /\ i \in 0..(Len(metas) - 1)
  BY <1>1, NamingTyped DEF Mapped
<1>3. /\ metas' = [metas EXCEPT ![i + 1].writable = @ \/ NextMeta.writable,
                               ![i + 1].signer = @ \/ NextMeta.signer]
      /\ accts' = Append(accts, i)
      /\ UNCHANGED <<phase, req, start, index, programAt, ixs, unbalanced, ctx>>
  BY DEF ReuseAccount
<1> HIDE DEF i
<1>4. i + 1 \in DOMAIN metas /\ metas[i + 1] \in Meta
  BY <1>2
<1>5. NextMeta.writable \in BOOLEAN /\ NextMeta.signer \in BOOLEAN
  BY <1>2 DEF Meta
<1>6. metas' \in Seq(Meta) /\ Len(metas') = Len(metas) /\ Grown(metas, metas')
  BY <1>2, <1>3, <1>4, <1>5, RightsAdded
<1>7. Mapped(index', metas')
  BY <1>2, <1>3, <1>6, GrownKeeps
<1> QED BY <1>1, <1>2, <1>3, <1>6, <1>7, NamedKeeps

LEMMA AddStep == IInv /\ AddAccount => IInv' /\ RightsStay
<1> SUFFICES ASSUME IInv, AddAccount PROVE IInv' /\ RightsStay
  OBVIOUS
<1> DEFINE m == NextMeta
<1>1. Naming
  BY DEF AddAccount
<1>2. /\ metas \in Seq(Meta) /\ m \in Meta /\ m.key \in Address /\ index \in Maps
      /\ Mapped(index, metas)
  BY <1>1, NamingTyped
<1>3. /\ index' = [index EXCEPT ![m.key] = Len(metas)]
      /\ metas' = Append(metas, m)
      /\ accts' = Append(accts, Len(metas))
      /\ UNCHANGED <<phase, req, start, programAt, ixs, unbalanced, ctx>>
  BY DEF AddAccount
<1> HIDE DEF m
<1>4. /\ metas' \in Seq(Meta) /\ Grown(metas, metas')
      /\ Len(metas) \in Nat /\ Len(metas) \in 0..(Len(metas') - 1)
      /\ metas'[Len(metas) + 1] = m
  BY <1>2, <1>3, AppendGrows
<1>5. Mapped(index, metas')
  BY <1>2, <1>4, GrownKeeps
<1>6. index' \in Maps /\ Mapped(index', metas')
  BY <1>2, <1>3, <1>4, <1>5 DEF Maps, Mapped
<1> QED BY <1>1, <1>3, <1>4, <1>6, NamedKeeps

(* What balances a transfer are positions of the list that CloseInner      *)
(* leaves.                                                                 *)
LEMMA BalancingTyped ==
  ASSUME IInv, programAt # NoIndex, NEW len \in Nat,
         Len(metas) <= len, AddsRent => Len(metas) < len
  PROVE  Balancing \in Seq(0..(len - 1))
<1>1. /\ Mapped(index, metas) /\ index \in Maps /\ metas \in Seq(Meta)
      /\ programAt \in 0..(Len(metas) - 1) /\ Len(metas) \in Nat
  BY CompactionParts DEF IInv, TypeOK, Maps
<1>2. 0..(Len(metas) - 1) \subseteq 0..(len - 1) /\ 0 \in 0..(len - 1)
  BY <1>1
<1>3. SwigIndex \in 0..(len - 1)
  BY <1>1, <1>2, AccountsAssumption DEF SwigIndex, Mapped
<1>4. NeedsRent => RentIndex \in 0..(len - 1)
  BY <1>1, <1>2, ProgramAssumption DEF RentIndex, AddsRent, Mapped
<1> DEFINE R == 0..(len - 1)
           rent == IF NeedsRent THEN <<RentIndex>> ELSE <<>>
           swig == IF unbalanced THEN <<SwigIndex>> ELSE <<>>
<1>5. rent \in Seq(R) /\ swig \in Seq(R)
  <2>1. \A n \in R : <<n>> \in Seq(R)
    <3> HIDE DEF R
    <3> QED OBVIOUS
  <2>2. <<>> \in Seq(R)
    <3> HIDE DEF R
    <3> QED OBVIOUS
  <2>3. SwigIndex \in R /\ (NeedsRent => RentIndex \in R)
    BY <1>3, <1>4
  <2> HIDE DEF R
  <2> QED BY <2>1, <2>2, <2>3
<1> HIDE DEF R, rent, swig
<1>6. rent \o swig \in Seq(R)
  BY <1>5, ConcatProperties
<1> QED BY <1>6 DEF Balancing, R, rent, swig

LEMMA CloseStep == IInv /\ CloseInner => IInv' /\ RightsStay
<1> SUFFICES ASSUME IInv, CloseInner PROVE IInv' /\ RightsStay
  OBVIOUS
<1> DEFINE m == Readonly(RentSysvar)
<1>1. /\ programAt # NoIndex /\ phase = "compact" /\ Len(ixs) < Len(req.inner)
      /\ index \in Maps /\ metas \in Seq(Meta) /\ accts \in Seq(Nat) /\ ixs \in Seq(Compact)
      /\ Mapped(index, metas) /\ Positions(accts, metas) /\ Finished(ixs, metas)
      /\ programAt \in 0..(Len(metas) - 1) /\ Len(metas) \in Nat
  BY CompactionParts DEF CloseInner, IInv, OpenOK, TypeOK, Maps, Compact
<1>2. m \in Meta /\ m.key = RentSysvar /\ RentSysvar \in Address
  BY ProgramAssumption, MetaTyped DEF Readonly
<1>3. /\ ixs' = Append(ixs, [program |-> programAt, accounts |-> accts \o Balancing])
      /\ unbalanced' = IsTransfer(Current) /\ programAt' = NoIndex /\ accts' = <<>>
      /\ UNCHANGED <<phase, req, start, ctx>>
      /\ AddsRent => metas' = Append(metas, m) /\ index' = [index EXCEPT ![RentSysvar] = Len(metas)]
      /\ ~AddsRent => metas' = metas /\ index' = index
  BY DEF CloseInner
<1> HIDE DEF m
<1>4. /\ metas' \in Seq(Meta) /\ Grown(metas, metas') /\ Len(metas') \in Nat
      /\ AddsRent => Len(metas) \in 0..(Len(metas') - 1) /\ metas'[Len(metas) + 1] = m
  BY <1>1, <1>2, <1>3, AppendGrows
<1>5. /\ Mapped(index, metas') /\ Positions(accts, metas') /\ Finished(ixs, metas')
      /\ 0..(Len(metas) - 1) \subseteq 0..(Len(metas') - 1)
  BY <1>1, <1>4, GrownKeeps
<1>6. index' \in Maps /\ Mapped(index', metas')
  <2>1. CASE AddsRent
    <3>1. /\ index' = [index EXCEPT ![RentSysvar] = Len(metas)]
          /\ Len(metas) \in 0..(Len(metas') - 1) /\ metas'[Len(metas) + 1].key = RentSysvar
      BY <1>2, <1>3, <1>4, <2>1
    <3>2. index' \in Maps
      BY <1>1, <1>2, <3>1 DEF Maps
    <3>3. ASSUME NEW k \in Address, index'[k] # NoIndex
          PROVE  index'[k] \in 0..(Len(metas') - 1) /\ metas'[index'[k] + 1].key = k
      <4>1. k = RentSysvar => index'[k] = Len(metas)
        BY <1>1, <1>2, <3>1 DEF Maps
      <4>2. k # RentSysvar => index'[k] = index[k]
        BY <1>1, <1>2, <3>1 DEF Maps
      <4>3. CASE k = RentSysvar
        BY <3>1, <4>1, <4>3
      <4>4. CASE k # RentSysvar
        BY <1>5, <3>3, <4>2, <4>4 DEF Mapped
      <4> QED BY <4>3, <4>4
    <3> QED BY <3>2, <3>3 DEF Mapped
  <2>2. CASE ~AddsRent
    BY <1>1, <1>3, <1>5, <2>2
  <2> QED BY <2>1, <2>2
<1> DEFINE R == 0..(Len(metas') - 1)
           x == [program |-> programAt, accounts |-> accts \o Balancing]
<1>7. Balancing \in Seq(R)
  <2>1. Len(metas) <= Len(metas') /\ (AddsRent => Len(metas) < Len(metas'))
    BY <1>1, <1>4 DEF Grown
  <2> QED BY <1>1, <1>4, <2>1, BalancingTyped
<1>8. accts \in Seq(R)
  BY <1>1, <1>5 DEF Positions
<1>9. /\ accts \o Balancing \in Seq(R) /\ programAt \in R /\ R \subseteq Nat
  <2>1. R \subseteq Nat
    BY <1>4
  <2>2. programAt \in R
    BY <1>1, <1>5
  <2> HIDE DEF R
  <2> QED BY <1>7, <1>8, <2>1, <2>2, ConcatProperties
<1>10. x \in Compact /\ x.program \in R /\ Positions(x.accounts, metas')
  <2> DEFINE all == accts \o Balancing
  <2>1. all \in Seq(R) /\ programAt \in R /\ R \subseteq Nat
    BY <1>9
  <2> HIDE DEF all
  <2>2. all \in Seq(Nat) /\ \A i \in DOMAIN all : all[i] \in R
    <3> HIDE DEF R
    <3>1. all \in [1..Len(all) -> R] /\ Len(all) \in Nat
      BY <2>1
    <3>2. all \in [1..Len(all) -> Nat]
      BY <2>1, <3>1
    <3> QED BY <3>1, <3>2
  <2> QED BY <2>1, <2>2 DEF Compact, Positions, all
<1> HIDE DEF x
<1>11. ixs' \in Seq(Compact) /\ Finished(ixs', metas')
  <2>1. /\ ixs' \in Seq(Compact) /\ Len(ixs') = Len(ixs) + 1
        /\ \A i \in 1..Len(ixs) : ixs'[i] = ixs[i]
        /\ ixs'[Len(ixs) + 1] = x
    <3>1. ixs' = Append(ixs, x)
      BY <1>3 DEF x
    <3> QED BY <1>1, <1>10, <3>1, AppendProperties
  <2>2. ASSUME NEW n \in DOMAIN ixs'
        PROVE  ixs'[n].program \in R /\ Positions(ixs'[n].accounts, metas')
    <3>1. n \in 1..Len(ixs) \/ n = Len(ixs) + 1
      BY <1>1, <2>1
    <3>2. CASE n \in 1..Len(ixs)
      <4>1. n \in DOMAIN ixs /\ ixs'[n] = ixs[n]
        BY <1>1, <2>1, <3>2
      <4> QED BY <1>5, <4>1 DEF Finished
    <3>3. CASE n = Len(ixs) + 1
      BY <1>10, <2>1, <3>3
    <3> QED BY <3>1, <3>2, <3>3
  <2> QED BY <2>1, <2>2 DEF Finished
<1>12. TypeOK'
  <2>1. unbalanced' \in BOOLEAN
    BY <1>3 DEF IsTransfer
  <2> QED BY <1>3, <1>4, <1>6, <1>11, <2>1, FreshTyped DEF IInv, TypeOK, Maps, Compact
<1>13. CompactionInv'
  BY <1>3, <1>6, <1>11 DEF CompactionInv, Mapped, Finished, Positions
<1>14. RequestOK' /\ OpenOK' /\ IdleOK'
  BY <1>1, <1>3 DEF IInv, RequestOK, OpenOK, IdleOK
<1>15. RightsStay
  BY <1>4 DEF Grown, RightsStay
<1> QED BY <1>12, <1>13, <1>14, <1>15 DEF IInv

LEMMA FinalMetasGrow ==
  ASSUME metas \in Seq(Meta)
  PROVE  FinalMetas \in Seq(Meta) /\ Grown(metas, FinalMetas)
<1> DEFINE marked == WithPayerMarked(metas, req.opts.payer)
<1>1. Grown(metas, metas)
  BY DEF Grown
<1>2. /\ DOMAIN marked = DOMAIN metas
      /\ \A i \in DOMAIN metas : marked[i] \in {metas[i], [metas[i] EXCEPT !.signer = TRUE]}
  BY DEF WithPayerMarked
<1>3. ASSUME NEW i \in DOMAIN metas
      PROVE  /\ marked[i] \in Meta /\ marked[i].key = metas[i].key
             /\ metas[i].signer => marked[i].signer
             /\ metas[i].writable => marked[i].writable
  <2> DEFINE m == metas[i]
  <2>1. m \in Meta /\ marked[i] \in {m, [m EXCEPT !.signer = TRUE]}
    BY <1>2
  <2> HIDE DEF m, marked
  <2>2. /\ marked[i] \in Meta /\ marked[i].key = m.key
        /\ m.signer => marked[i].signer
        /\ m.writable => marked[i].writable
    BY <2>1 DEF Meta
  <2> QED BY <2>2 DEF m
<1>4. marked \in Seq(Meta) /\ Len(marked) = Len(metas)
  <2>1. marked = [i \in 1..Len(metas) |-> marked[i]]
    BY DEF WithPayerMarked
  <2>2. Len(metas) \in Nat /\ DOMAIN metas = 1..Len(metas)
    OBVIOUS
  <2> HIDE DEF marked
  <2>3. marked \in [1..Len(metas) -> Meta]
    BY <2>1, <2>2, <1>3
  <2> QED BY <2>2, <2>3
<1> HIDE DEF marked
<1>5. Grown(metas, marked)
  BY <1>3, <1>4 DEF Grown
<1> QED BY <1>1, <1>4, <1>5 DEF FinalMetas, marked

LEMMA SealStep == IInv /\ Seal => IInv' /\ RightsStay
<1> SUFFICES ASSUME IInv, Seal PROVE IInv' /\ RightsStay
  OBVIOUS
<1>1. /\ metas' = FinalMetas /\ phase' = "built" /\ phase = "compact"
      /\ UNCHANGED <<req, start, index, programAt, accts, ixs, unbalanced>>
  BY DEF Seal
<1>2. /\ metas \in Seq(Meta) /\ index \in Maps /\ programAt = NoIndex
      /\ Mapped(index, metas) /\ Positions(accts, metas) /\ Finished(ixs, metas)
  BY CompactionParts DEF IInv, OpenOK, TypeOK, Maps, Seal, Compacted
<1>3. metas' \in Seq(Meta) /\ Grown(metas, metas')
  BY <1>1, <1>2, FinalMetasGrow
<1>4. /\ Mapped(index, metas') /\ Positions(accts, metas') /\ Finished(ixs, metas')
  BY <1>2, <1>3, GrownKeeps
<1>5. TypeOK'
  BY <1>1, <1>3 DEF IInv, TypeOK, Phases
<1>6. CompactionInv'
  BY <1>1, <1>2, <1>4 DEF CompactionInv, Mapped, Positions, Finished
<1>7. RequestOK' /\ OpenOK' /\ IdleOK'
  BY <1>1, <1>2 DEF IInv, RequestOK, OpenOK, IdleOK
<1>8. RightsStay
  BY <1>3 DEF Grown, RightsStay
<1> QED BY <1>5, <1>6, <1>7, <1>8 DEF IInv

(* The steps that leave what was built, and those that forget it.          *)
LEMMA EndStep ==
  IInv /\ (SignerFails \/ Send) => IInv' /\ RightsStay /\ phase' \notin {"compact", "built"}
<1> SUFFICES ASSUME IInv, SignerFails \/ Send
             PROVE  IInv' /\ RightsStay /\ phase' \notin {"compact", "built"}
  OBVIOUS
<1>1. /\ UNCHANGED <<req, start, metas, index, programAt, accts, ixs, unbalanced, ctx>>
      /\ phase # "idle" /\ phase' \in {"refused", "accepted", "rejected"}
  BY DEF SignerFails, Send
<1>2. programAt = NoIndex
  BY DEF IInv, OpenOK, SignerFails, Send, Compacted
<1>3. TypeOK'
  BY <1>1 DEF IInv, TypeOK, Phases
<1>4. CompactionInv'
  BY <1>1 DEF IInv, CompactionInv
<1>5. RequestOK' /\ OpenOK' /\ IdleOK'
  BY <1>1, <1>2 DEF IInv, RequestOK, OpenOK, IdleOK
<1>6. RightsStay
  BY <1>1 DEF IInv, TypeOK, RightsStay
<1> QED BY <1>1, <1>3, <1>4, <1>5, <1>6 DEF IInv

LEMMA ReturnStep == IInv /\ Return => IInv' /\ phase' = "idle" /\ phase \notin {"compact", "built"}
<1> SUFFICES ASSUME IInv, Return
             PROVE  IInv' /\ phase' = "idle" /\ phase \notin {"compact", "built"}
  OBVIOUS
<1>1. /\ phase' = "idle" /\ metas' = <<>> /\ index' = LastIndex(<<>>) /\ programAt' = NoIndex
      /\ accts' = <<>> /\ ixs' = <<>> /\ unbalanced' = FALSE
      /\ phase \notin {"compact", "built"}
  BY DEF Return
<1>2. index' \in Maps /\ Mapped(index', metas')
  BY <1>1, FreshTyped
<1>3. TypeOK'
  <2>1. /\ phase' \in Phases /\ phase' = "idle" /\ programAt' \in Nat \cup {NoIndex}
        /\ unbalanced' \in BOOLEAN
    BY <1>1 DEF Phases
  <2>2. metas' \in Seq(Meta) /\ accts' \in Seq(Nat) /\ ixs' \in Seq(Compact)
    BY <1>1, FreshTyped
  <2> QED BY <1>2, <2>1, <2>2 DEF TypeOK, Maps, Compact
<1>4. CompactionInv'
  BY <1>1, <1>2 DEF CompactionInv, Mapped
<1>5. RequestOK' /\ OpenOK' /\ IdleOK'
  BY <1>1 DEF RequestOK, OpenOK, IdleOK
<1> QED BY <1>1, <1>3, <1>4, <1>5 DEF IInv

LEMMA StepInv ==
  IInv /\ [Next]_vars => IInv' /\ (phase \in {"compact", "built"} => RightsStay)
<1> SUFFICES ASSUME IInv, [Next]_vars
             PROVE  IInv' /\ (phase \in {"compact", "built"} => RightsStay)
  OBVIOUS
<1>1. CASE Begin
  BY <1>1, BeginStep DEF Begin
<1>2. CASE OpenInner
  BY <1>2, OpenStep
<1>3. CASE ReuseAccount
  BY <1>3, ReuseStep
<1>4. CASE AddAccount
  BY <1>4, AddStep
<1>5. CASE CloseInner
  BY <1>5, CloseStep
<1>6. CASE SignerFails \/ Send
  BY <1>6, EndStep
<1>7. CASE Seal
  BY <1>7, SealStep
<1>8. CASE Return
  BY <1>8, ReturnStep
<1>9. CASE UNCHANGED vars
  <2>1. IInv'
    BY <1>9 DEF vars, IInv, TypeOK, RequestOK, OpenOK, IdleOK, CompactionInv, Compacts
  <2>2. RightsStay
    BY <1>9 DEF vars, IInv, TypeOK, RightsStay
  <2> QED BY <2>1, <2>2
<1> QED BY <1>1, <1>2, <1>3, <1>4, <1>5, <1>6, <1>7, <1>8, <1>9 DEF Next

(* The inductive invariant holds of every behaviour.                       *)
THEOREM SpecInv == Spec => []IInv
<1>1. Init => IInv
  BY InitInv
<1>2. IInv /\ [Next]_vars => IInv'
  BY StepInv
<1> QED BY <1>1, <1>2, PTL DEF Spec

(* TypeOK: what a call of the Swig object builds are metas, indices and    *)
(* the instruction it has open, whatever the requests are.                 *)
THEOREM SpecTypeOK == Spec => []TypeOK
<1>1. IInv => TypeOK
  BY DEF IInv
<1> QED BY <1>1, SpecInv, PTL

(* CompactionInv: the map of compactInstructions and the list it is about  *)
(* never part, however many inner instructions there are.                  *)
THEOREM SpecCompaction == Spec => []CompactionInv
<1>1. IInv => CompactionInv
  BY DEF IInv
<1> QED BY <1>1, SpecInv, PTL

(* MetasOnlyGrow: while a call is built no meta moves, changes its key or  *)
(* loses a right, so what a secp authority hashes is what it was shown.    *)
THEOREM SpecMetasOnlyGrow == Spec => MetasOnlyGrow
<1>1. IInv /\ [Next]_vars => [(phase \in {"compact", "built"}) => RightsStay]_vars
  BY StepInv
<1> QED BY <1>1, SpecInv, PTL DEF Spec, MetasOnlyGrow

-----------------------------------------------------------------------------
(* Where the payload points, for the object and the authority of the call. *)
Names(ms, p, key) == p \in 0..(Len(ms) - 1) /\ ms[p + 1].key = key

Pointed(object, authority, ms, p) ==
  /\ object = "Ed25519" => Names(ms, p, authority) /\ ms[p + 1].signer
  /\ object \in {"Secp256r1", "ProgramExec"} => Names(ms, p, InstructionsSysvar)
  /\ object = "Secp256k1" => p = NoIndex

PayloadInv ==
  phase \in {"compact", "built"} =>
    Pointed(TheCall(req).object, Handed(req).authority, metas, start.points)

LEMMA PointedGrows ==
  ASSUME NEW object, NEW authority, NEW ms \in Seq(Meta), NEW longer \in Seq(Meta), NEW p,
         Grown(ms, longer), Pointed(object, authority, ms, p)
  PROVE  Pointed(object, authority, longer, p)
<1>1. 0..(Len(ms) - 1) \subseteq 0..(Len(longer) - 1)
  BY GrownKeeps
<1>2. ASSUME p \in 0..(Len(ms) - 1)
      PROVE  /\ longer[p + 1].key = ms[p + 1].key
             /\ ms[p + 1].signer => longer[p + 1].signer
  <2>1. p + 1 \in DOMAIN ms
    BY <1>2
  <2> QED BY <2>1 DEF Grown
<1> QED BY <1>1, <1>2 DEF Pointed, Names

LEMMA PayloadStep == IInv /\ PayloadInv /\ [Next]_vars => PayloadInv'
<1> SUFFICES ASSUME IInv, PayloadInv, [Next]_vars, phase' \in {"compact", "built"}
             PROVE  Pointed(TheCall(req').object, Handed(req').authority, metas', start'.points)
  BY DEF PayloadInv
<1>1. CASE Begin
  <2>1. PICK r \in Requests :
          /\ req' = r
          /\ IF Refused(r)
             THEN phase' = "refused" /\ UNCHANGED <<start, metas, index>>
             ELSE LET s == StartOf(TheCall(r).object, OperationOf(r), Handed(r))
                  IN /\ phase' = "compact"
                     /\ start' = s
                     /\ metas' = s.metas
                     /\ index' = LastIndex(s.metas)
    BY <1>1 DEF Begin
  <2> DEFINE s == StartOf(TheCall(r).object, OperationOf(r), Handed(r))
  <2>2. ~Refused(r) /\ start' = s /\ metas' = s.metas
    BY <2>1
  <2>3. StartOK(TheCall(r).object, OperationOf(r), Handed(r), s)
    BY <2>2, BegunTyped
  <2> HIDE DEF s
  <2> QED BY <2>1, <2>2, <2>3 DEF StartOK, Pointed, Names, ReadonlySigner
<1>2. CASE ~Begin
  <2>1. phase \in {"compact", "built"} /\ UNCHANGED <<req, start>>
    BY <1>2 DEF Next, vars, OpenInner, ReuseAccount, AddAccount, CloseInner, SignerFails,
       Seal, Send, Return, Naming
  <2>2. IInv' /\ Grown(metas, metas')
    BY <2>1, StepInv DEF RightsStay, Grown
  <2>3. Pointed(TheCall(req).object, Handed(req).authority, metas, start.points)
    BY <2>1 DEF PayloadInv
  <2>4. Pointed(TheCall(req).object, Handed(req).authority, metas', start.points)
    BY <2>2, <2>3, PointedGrows DEF IInv, TypeOK
  <2> QED BY <2>1, <2>4
<1> QED BY <1>1, <1>2

(* PayloadNamesAuthority: the index in the authority payload is that of    *)
(* the authority's signature, or of the instructions sysvar, for every     *)
(* operation of every class and whatever accounts are compacted.           *)
THEOREM SpecPayload == Spec => []PayloadNamesAuthority
<1>1. Init => PayloadInv
  BY DEF Init, PayloadInv
<1>2. IInv /\ PayloadInv /\ [Next]_vars => PayloadInv'
  BY PayloadStep
<1>3. IInv /\ PayloadInv => PayloadNamesAuthority
  <2>1. SUFFICES ASSUME IInv, PayloadInv, phase \in {"compact", "built"}
                 PROVE  CASE TheCall(req).object = "Ed25519" ->
                               /\ PointsAt(Handed(req).authority)
                               /\ metas[start.points + 1].signer
                          [] TheCall(req).object \in {"Secp256r1", "ProgramExec"} ->
                               PointsAt(InstructionsSysvar)
                          [] OTHER -> start.points = NoIndex
    BY DEF PayloadNamesAuthority
  <2>2. TheCall(req).object \in Objects
    BY <2>1, BegunTyped DEF IInv, RequestOK
  <2>3. Pointed(TheCall(req).object, Handed(req).authority, metas, start.points)
    BY <2>1 DEF PayloadInv
  <2> QED BY <2>2, <2>3 DEF Pointed, Names, PointsAt, Objects, SecpObjects
<1> QED BY <1>1, <1>2, <1>3, SpecInv, PTL DEF Spec

-----------------------------------------------------------------------------
(***************************************************************************)
(* That compactInstructions is a faithful encoding: for any requests, what *)
(* the program decodes is what the caller asked for.  The argument: a      *)
(* finished instruction refers to the list by positions, the list only     *)
(* grows in what it says of a position, and the instruction that is open   *)
(* has so far named the first of its accounts.                             *)
(***************************************************************************)

(* A meta that gives what was asked, but for the signature of a PDA. *)
Meets(m, asked, pdas) ==
  /\ m.key = asked.key
  /\ asked.writable => m.writable
  /\ asked.signer => m.signer \/ m.key \in pdas

Decoded(ms, pdas, ix, compact) ==
  /\ ms[compact.program + 1].key = ix.program
  /\ Len(compact.accounts) >= Len(ix.accounts)
  /\ \A i \in DOMAIN ix.accounts : Meets(ms[compact.accounts[i] + 1], ix.accounts[i], pdas)

Opened(ms, pdas, ix, s) ==
  /\ Len(s) <= Len(ix.accounts)
  /\ \A i \in DOMAIN s : Meets(ms[s[i] + 1], ix.accounts[i], pdas)

DecodesInv ==
  /\ \A n \in DOMAIN ixs :
       n \in DOMAIN req.inner /\ Decoded(metas, Pdas, Sanitized(req.inner[n]), ixs[n])
  /\ programAt # NoIndex =>
       metas[programAt + 1].key = Current.program /\ Opened(metas, Pdas, Current, accts)

(* Sanitizing an instruction keeps its program and its type. *)
LEMMA SanitizedTyped ==
  ASSUME NEW ix \in Instruction
  PROVE  Sanitized(ix) \in Instruction /\ Sanitized(ix).accounts \in Seq(Meta)
<1>1. ix.accounts \in Seq(Meta)
  BY DEF Instruction
<1>2. Len(ix.accounts) > 0 => SubSeq(ix.accounts, 1, 1) \in Seq(Meta)
  BY <1>1
<1>3. Sanitized(ix) \in Instruction
  BY <1>1, <1>2 DEF Sanitized, Instruction
<1> QED BY <1>3 DEF Instruction

(* What a position gave it still gives when the list has grown. *)
LEMMA MeetsGrows ==
  ASSUME NEW ms \in Seq(Meta), NEW longer \in Seq(Meta), Grown(ms, longer),
         NEW p \in 0..(Len(ms) - 1), NEW asked, NEW pdas, Meets(ms[p + 1], asked, pdas)
  PROVE  Meets(longer[p + 1], asked, pdas)
<1>1. p + 1 \in DOMAIN ms
  OBVIOUS
<1> QED BY <1>1 DEF Grown, Meets

LEMMA DecodedGrows ==
  ASSUME NEW ms \in Seq(Meta), NEW longer \in Seq(Meta), Grown(ms, longer),
         NEW ix \in Instruction, NEW c \in Compact, NEW pdas,
         c.program \in 0..(Len(ms) - 1), Positions(c.accounts, ms),
         Decoded(ms, pdas, ix, c)
  PROVE  Decoded(longer, pdas, ix, c)
<1>1. c.program + 1 \in DOMAIN ms
  OBVIOUS
<1>2. ASSUME NEW i \in DOMAIN ix.accounts
      PROVE  Meets(longer[c.accounts[i] + 1], ix.accounts[i], pdas)
  <2>1. ix.accounts \in Seq(Meta) /\ c.accounts \in Seq(Nat)
    BY DEF Instruction, Compact
  <2>2. i \in DOMAIN c.accounts
    BY <2>1 DEF Decoded
  <2>3. c.accounts[i] \in 0..(Len(ms) - 1)
    BY <2>2 DEF Positions
  <2>4. Meets(ms[c.accounts[i] + 1], ix.accounts[i], pdas)
    BY DEF Decoded
  <2> QED BY <2>3, <2>4, MeetsGrows
<1> QED BY <1>1, <1>2 DEF Grown, Decoded

LEMMA OpenedGrows ==
  ASSUME NEW ms \in Seq(Meta), NEW longer \in Seq(Meta), Grown(ms, longer),
         NEW ix, NEW s, NEW pdas, Positions(s, ms), Opened(ms, pdas, ix, s)
  PROVE  Opened(longer, pdas, ix, s)
<1>1. ASSUME NEW i \in DOMAIN s PROVE Meets(longer[s[i] + 1], ix.accounts[i], pdas)
  BY MeetsGrows DEF Positions, Opened
<1> QED BY <1>1 DEF Opened

(* The finished instructions while the list grows. *)
LEMMA FinishedKeep ==
  ASSUME IInv, DecodesInv, phase = "compact", metas' \in Seq(Meta), Grown(metas, metas')
  PROVE  \A n \in DOMAIN ixs :
           /\ n \in DOMAIN req.inner
           /\ Decoded(metas', Pdas, Sanitized(req.inner[n]), ixs[n])
<1> SUFFICES ASSUME NEW n \in DOMAIN ixs
             PROVE  /\ n \in DOMAIN req.inner
                    /\ Decoded(metas', Pdas, Sanitized(req.inner[n]), ixs[n])
  OBVIOUS
<1>1. /\ metas \in Seq(Meta) /\ ixs[n] \in Compact /\ ixs[n].program \in 0..(Len(metas) - 1)
      /\ Positions(ixs[n].accounts, metas)
  <2>1. metas \in Seq(Meta) /\ ixs \in Seq(Compact)
    BY DEF IInv, TypeOK, Compact
  <2>2. Finished(ixs, metas)
    BY CompactionParts DEF IInv
  <2>3. ixs[n] \in Compact
    <3> HIDE DEF Compact
    <3> QED BY <2>1
  <2> QED BY <2>1, <2>2, <2>3 DEF Finished
<1>2. n \in DOMAIN req.inner /\ Decoded(metas, Pdas, Sanitized(req.inner[n]), ixs[n])
  BY DEF DecodesInv
<1>3. Sanitized(req.inner[n]) \in Instruction
  <2>1. req.inner \in Seq(Instruction)
    BY RequestsAssumption DEF IInv, RequestOK
  <2> QED BY <1>2, <2>1, SanitizedTyped
<1> QED BY <1>1, <1>2, <1>3, DecodedGrows

LEMMA DecodesOpen == IInv /\ DecodesInv /\ OpenInner => DecodesInv'
<1> SUFFICES ASSUME IInv, DecodesInv, OpenInner PROVE DecodesInv'
  OBVIOUS
<1> DEFINE m == Readonly(Current.program)
<1>1. Current \in Instruction
  BY CurrentTyped DEF OpenInner
<1>2. m \in Meta /\ m.key = Current.program
  BY <1>1, MetaTyped DEF Instruction, Readonly
<1> HIDE DEF m
<1>3. /\ metas' = Append(metas, m) /\ programAt' = Len(metas) /\ accts' = <<>>
      /\ req' = req /\ ixs' = ixs /\ phase = "compact" /\ metas \in Seq(Meta)
  BY DEF OpenInner, m, IInv, TypeOK
<1>4. metas' \in Seq(Meta) /\ Grown(metas, metas') /\ metas'[programAt' + 1] = m
  BY <1>2, <1>3, AppendGrows
<1>5. Current' = Current /\ Pdas' = Pdas
  BY <1>3 DEF Current, Pdas
<1>6. Opened(metas', Pdas, Current, accts')
  <2>1. Len(Current.accounts) \in Nat
    BY <1>1 DEF Instruction
  <2> QED BY <1>3, <2>1 DEF Opened
<1> QED BY <1>2, <1>3, <1>4, <1>5, <1>6, FinishedKeep DEF DecodesInv

(* One more account is named: position p gives what it asked.              *)
LEMMA DecodesNamed ==
  ASSUME IInv, DecodesInv, Naming, NEW p \in 0..(Len(metas') - 1),
         metas' \in Seq(Meta), Grown(metas, metas'), accts' = Append(accts, p),
         metas'[p + 1].key = NextMeta.key,
         NextMeta.writable => metas'[p + 1].writable,
         NextMeta.signer => metas'[p + 1].signer,
         UNCHANGED <<req, programAt, ixs>>
  PROVE  DecodesInv'
<1>1. /\ metas \in Seq(Meta) /\ accts \in Seq(Nat) /\ phase = "compact"
      /\ Positions(accts, metas) /\ programAt \in 0..(Len(metas) - 1)
      /\ programAt # NoIndex
  BY NamingTyped
<1>2. Current' = Current /\ Pdas' = Pdas
  BY DEF Current, Pdas
<1>3. /\ metas[programAt + 1].key = Current.program
      /\ Opened(metas, Pdas, Current, accts)
  BY <1>1 DEF DecodesInv
<1>4. metas'[programAt + 1].key = Current.program
  <2>1. programAt + 1 \in DOMAIN metas
    BY <1>1
  <2> QED BY <1>3, <2>1 DEF Grown
<1>5. Opened(metas', Pdas, Current, accts)
  BY <1>1, <1>3, OpenedGrows
<1> DEFINE asked == Current.accounts[Len(accts) + 1]
<1>6. Meets(metas'[p + 1], asked, Pdas)
  <2>1. NextMeta = AsNamed(asked)
    BY DEF NextMeta
  <2>2. asked \in Meta
    <3>1. Len(ixs) < Len(req.inner)
      BY <1>1 DEF IInv, OpenOK
    <3>2. Current \in Instruction
      BY <1>1, <3>1, CurrentTyped
    <3>3. Current.accounts \in Seq(Meta) /\ Len(accts) < Len(Current.accounts)
      BY <3>2 DEF Instruction, Naming
    <3> DEFINE s == Current.accounts
    <3> HIDE DEF s
    <3> QED BY <1>1, <3>3 DEF s
  <2> HIDE DEF asked
  <2>3. CASE asked.key \in Pdas
    <3>1. NextMeta = [asked EXCEPT !.signer = FALSE]
      BY <2>1, <2>3 DEF AsNamed
    <3>2. NextMeta.key = asked.key /\ NextMeta.writable = asked.writable
      BY <2>2, <3>1 DEF Meta
    <3> QED BY <2>3, <3>2 DEF Meets
  <2>4. CASE asked.key \notin Pdas
    BY <2>1, <2>4 DEF AsNamed, Meets
  <2> QED BY <2>3, <2>4
<1>7. Opened(metas', Pdas, Current, accts')
  <2>1. p \in Nat
    OBVIOUS
  <2>2. /\ accts' \in Seq(Nat) /\ Len(accts') = Len(accts) + 1
        /\ \A i \in 1..Len(accts) : accts'[i] = accts[i]
        /\ accts'[Len(accts) + 1] = p
    BY <1>1, <2>1, AppendProperties
  <2>3. Len(accts') <= Len(Current.accounts)
    <3>1. Len(ixs) < Len(req.inner)
      BY <1>1 DEF IInv, OpenOK
    <3>2. Current \in Instruction
      BY <1>1, <3>1, CurrentTyped
    <3>3. Len(Current.accounts) \in Nat
      BY <3>2 DEF Instruction
    <3> QED BY <1>1, <2>2, <3>3 DEF Naming
  <2>4. ASSUME NEW i \in DOMAIN accts'
        PROVE  Meets(metas'[accts'[i] + 1], Current.accounts[i], Pdas)
    <3>1. i \in 1..Len(accts) \/ i = Len(accts) + 1
      BY <1>1, <2>2
    <3>2. CASE i \in 1..Len(accts)
      <4>1. i \in DOMAIN accts /\ accts'[i] = accts[i]
        BY <1>1, <2>2, <3>2
      <4> QED BY <1>5, <4>1 DEF Opened
    <3>3. CASE i = Len(accts) + 1
      BY <1>6, <2>2, <3>3
    <3> QED BY <3>1, <3>2, <3>3
  <2> QED BY <2>3, <2>4 DEF Opened
<1> QED BY <1>1, <1>2, <1>4, <1>7, FinishedKeep DEF DecodesInv

LEMMA DecodesReuse == IInv /\ DecodesInv /\ ReuseAccount => DecodesInv'
<1> SUFFICES ASSUME IInv, DecodesInv, ReuseAccount PROVE DecodesInv'
  OBVIOUS
<1> DEFINE i == index[NextMeta.key]
<1>1. Naming /\ i # NoIndex
  BY DEF ReuseAccount
<1>2. /\ metas \in Seq(Meta) /\ NextMeta \in Meta /\ Len(metas) \in Nat
      /\ i \in 0..(Len(metas) - 1) /\ metas[i + 1].key = NextMeta.key
  BY <1>1, NamingTyped DEF Mapped
<1>3. /\ metas' = [metas EXCEPT ![i + 1].writable = @ \/ NextMeta.writable,
                               ![i + 1].signer = @ \/ NextMeta.signer]
      /\ accts' = Append(accts, i)
      /\ UNCHANGED <<req, programAt, ixs>>
  BY DEF ReuseAccount
<1> HIDE DEF i
<1>4. i + 1 \in DOMAIN metas /\ metas[i + 1] \in Meta
  BY <1>2
<1>5. NextMeta.writable \in BOOLEAN /\ NextMeta.signer \in BOOLEAN
  BY <1>2 DEF Meta
<1>6. metas' \in Seq(Meta) /\ Len(metas') = Len(metas) /\ Grown(metas, metas')
  BY <1>2, <1>3, <1>4, <1>5, RightsAdded
<1>7. /\ metas'[i + 1].key = NextMeta.key
      /\ NextMeta.writable => metas'[i + 1].writable
      /\ NextMeta.signer => metas'[i + 1].signer
  BY <1>2, <1>3, <1>4 DEF Meta
<1> QED BY <1>1, <1>2, <1>3, <1>6, <1>7, DecodesNamed

LEMMA DecodesAdd == IInv /\ DecodesInv /\ AddAccount => DecodesInv'
<1> SUFFICES ASSUME IInv, DecodesInv, AddAccount PROVE DecodesInv'
  OBVIOUS
<1> DEFINE m == NextMeta
<1>1. Naming
  BY DEF AddAccount
<1>2. metas \in Seq(Meta) /\ m \in Meta
  BY <1>1, NamingTyped
<1>3. /\ metas' = Append(metas, m) /\ accts' = Append(accts, Len(metas))
      /\ UNCHANGED <<req, programAt, ixs>>
  BY DEF AddAccount
<1>4. /\ metas' \in Seq(Meta) /\ Grown(metas, metas')
      /\ Len(metas) \in 0..(Len(metas') - 1) /\ metas'[Len(metas) + 1] = m
  <2> HIDE DEF m
  <2> QED BY <1>2, <1>3, AppendGrows
<1> QED BY <1>1, <1>3, <1>4, DecodesNamed

LEMMA DecodesClose == IInv /\ DecodesInv /\ CloseInner => DecodesInv'
<1> SUFFICES ASSUME IInv, DecodesInv, CloseInner PROVE DecodesInv'
  OBVIOUS
<1> DEFINE x == [program |-> programAt, accounts |-> accts \o Balancing]
<1>1. /\ programAt # NoIndex /\ phase = "compact" /\ Len(ixs) < Len(req.inner)
      /\ metas \in Seq(Meta) /\ accts \in Seq(Nat) /\ ixs \in Seq(Compact)
      /\ Positions(accts, metas) /\ Len(accts) = Len(Current.accounts)
      /\ programAt \in 0..(Len(metas) - 1) /\ Len(metas) \in Nat
  BY CompactionParts DEF CloseInner, IInv, OpenOK, TypeOK, Compact
<1>2. /\ ixs' = Append(ixs, x) /\ programAt' = NoIndex /\ req' = req
      /\ metas' = metas \/ metas' = Append(metas, Readonly(RentSysvar))
  BY DEF CloseInner
<1>3. metas' \in Seq(Meta) /\ Grown(metas, metas')
  <2>1. Readonly(RentSysvar) \in Meta
    BY ProgramAssumption, MetaTyped
  <2>2. CASE metas' = metas
    BY <1>1, <2>2 DEF Grown
  <2>3. CASE metas' = Append(metas, Readonly(RentSysvar))
    BY <1>1, <2>1, <2>3, AppendGrows
  <2> QED BY <1>2, <2>2, <2>3
<1>4. IInv'
  BY CloseStep
<1>5. Balancing \in Seq(Nat)
  <2>1. Len(metas) + 1 \in Nat /\ Len(metas) < Len(metas) + 1 /\ Len(metas) <= Len(metas) + 1
    BY <1>1
  <2>2. Balancing \in Seq(0..(Len(metas) + 1 - 1))
    BY <1>1, <2>1, BalancingTyped
  <2> DEFINE R == 0..(Len(metas) + 1 - 1)
  <2>3. R \subseteq Nat
    BY <1>1
  <2> HIDE DEF R
  <2> QED BY <2>2, <2>3 DEF R
<1>6. /\ Len(x.accounts) >= Len(accts)
      /\ \A i \in DOMAIN accts : x.accounts[i] = accts[i]
  BY <1>1, <1>5, ConcatProperties
<1>7. Current \in Instruction
  BY <1>1, CurrentTyped
<1>8. metas'[programAt + 1].key = Current.program /\ Opened(metas', Pdas, Current, accts)
  <2>1. metas[programAt + 1].key = Current.program /\ Opened(metas, Pdas, Current, accts)
    BY <1>1 DEF DecodesInv
  <2>2. programAt + 1 \in DOMAIN metas
    BY <1>1
  <2> QED BY <1>1, <1>3, <2>1, <2>2, OpenedGrows DEF Grown
<1>9. Decoded(metas', Pdas, Current, x)
  <2>1. Current.accounts \in Seq(Meta)
    BY <1>7 DEF Instruction
  <2>2. x.program = programAt /\ DOMAIN Current.accounts = DOMAIN accts
    BY <1>1, <2>1
  <2>3. Len(x.accounts) >= Len(Current.accounts)
    BY <1>1, <1>6
  <2> HIDE DEF x
  <2> QED BY <1>6, <1>8, <2>2, <2>3 DEF Decoded, Opened
<1> HIDE DEF x
<1>10. /\ Len(ixs) + 1 \in DOMAIN req.inner
       /\ Current = Sanitized(req.inner[Len(ixs) + 1])
  <2>1. req.inner \in Seq(Instruction)
    BY <1>1, RequestsAssumption DEF IInv, RequestOK
  <2> QED BY <1>1, <2>1 DEF Current
<1>11. Pdas' = Pdas
  BY <1>2 DEF Pdas
<1>12. ASSUME NEW n \in DOMAIN ixs'
       PROVE  /\ n \in DOMAIN req.inner
              /\ Decoded(metas', Pdas', Sanitized(req.inner[n]), ixs'[n])
  <2>1. \/ n \in DOMAIN ixs /\ ixs'[n] = ixs[n]
        \/ n = Len(ixs) + 1 /\ ixs'[n] = x
    BY <1>1, <1>2
  <2>2. CASE n \in DOMAIN ixs /\ ixs'[n] = ixs[n]
    BY <1>1, <1>3, <1>11, <2>2, FinishedKeep
  <2>3. CASE n = Len(ixs) + 1 /\ ixs'[n] = x
    BY <1>9, <1>10, <1>11, <2>3
  <2> QED BY <2>1, <2>2, <2>3
<1> QED BY <1>2, <1>12 DEF DecodesInv

(* The steps that end, seal or forget a call. *)
LEMMA DecodesRest ==
  IInv /\ DecodesInv /\ (Begin \/ SignerFails \/ Seal \/ Send \/ Return \/ UNCHANGED vars)
    => DecodesInv'
<1> SUFFICES ASSUME IInv, DecodesInv,
                    Begin \/ SignerFails \/ Seal \/ Send \/ Return \/ UNCHANGED vars
             PROVE  DecodesInv'
  OBVIOUS
<1>1. CASE Begin
  <2>1. ixs' = <<>> /\ programAt' = NoIndex
    BY <1>1 DEF Begin, IInv, OpenOK, IdleOK
  <2> QED BY <2>1 DEF DecodesInv
<1>2. CASE Return
  <2>1. ixs' = <<>> /\ programAt' = NoIndex
    BY <1>2 DEF Return
  <2> QED BY <2>1 DEF DecodesInv
<1>3. CASE Seal
  <2>1. /\ metas' = FinalMetas /\ phase = "compact" /\ UNCHANGED <<req, ixs, programAt>>
        /\ programAt = NoIndex /\ metas \in Seq(Meta)
    BY <1>3 DEF Seal, Compacted, IInv, OpenOK, TypeOK
  <2>2. metas' \in Seq(Meta) /\ Grown(metas, metas')
    BY <2>1, FinalMetasGrow
  <2>3. Pdas' = Pdas
    BY <2>1 DEF Pdas
  <2> QED BY <2>1, <2>2, <2>3, FinishedKeep DEF DecodesInv
<1>4. CASE SignerFails \/ Send \/ UNCHANGED vars
  <2>1. UNCHANGED <<req, metas, ixs, programAt, accts>>
    BY <1>4 DEF SignerFails, Send, vars
  <2>2. Current' = Current /\ Pdas' = Pdas
    BY <2>1 DEF Current, Pdas
  <2> QED BY <2>1, <2>2 DEF DecodesInv
<1> QED BY <1>1, <1>2, <1>3, <1>4

(* CompactDecodes: for any requests, every compact instruction calls the   *)
(* program asked, on the accounts asked, in their order, each with at      *)
(* least the rights asked; only the PDAs lose their signature.             *)
THEOREM SpecDecodes == Spec => []CompactDecodes
<1>1. Init => DecodesInv
  BY DEF Init, DecodesInv
<1>2. IInv /\ DecodesInv /\ [Next]_vars => DecodesInv'
  BY DecodesOpen, DecodesReuse, DecodesAdd, DecodesClose, DecodesRest DEF Next
<1>3. DecodesInv => CompactDecodes
  BY DEF DecodesInv, CompactDecodes, Decodes, Decoded, Meets
<1> QED BY <1>1, <1>2, <1>3, SpecInv, PTL DEF Spec

-----------------------------------------------------------------------------
(***************************************************************************)
(* That an instruction after a transfer is balanced.  The flag of the code *)
(* speaks of the last finished instruction; the map knows the swig account *)
(* from the start, for the metas of every signature begin with it; and the *)
(* positions that were appended keep their keys.                           *)
(***************************************************************************)
Balanced(ms, inner, n, c) ==
  LET asked == Len(Sanitized(inner[n]).accounts)
      all == Len(c.accounts)
  IN IF ~(n > 1 /\ IsTransfer(inner[n - 1])) THEN all = asked
     ELSE /\ all = asked + (IF IsSyncNative(inner[n]) THEN 2 ELSE 1)
          /\ ms[c.accounts[all] + 1].key = Swig
          /\ IsSyncNative(inner[n]) => ms[c.accounts[asked + 1] + 1].key = RentSysvar

AfterTransfer == Len(ixs) > 0 /\ IsTransfer(req.inner[Len(ixs)])

BalanceInv ==
  /\ phase = "idle" => ~unbalanced
  /\ phase = "compact" => unbalanced = AfterTransfer
  /\ phase = "compact" /\ Compacts => index[Swig] # NoIndex
  /\ \A n \in DOMAIN ixs : Balanced(metas, req.inner, n, ixs[n])

LEMMA BalancedGrows ==
  ASSUME NEW ms \in Seq(Meta), NEW longer \in Seq(Meta), Grown(ms, longer),
         NEW inner \in Seq(Instruction), NEW n \in DOMAIN inner, NEW c \in Compact,
         Positions(c.accounts, ms), Balanced(ms, inner, n, c)
  PROVE  Balanced(longer, inner, n, c)
<1> DEFINE asked == Len(Sanitized(inner[n]).accounts)
           all == Len(c.accounts)
<1>1. asked \in Nat
  BY SanitizedTyped
<1>2. c.accounts \in Seq(Nat) /\ all \in Nat /\ DOMAIN c.accounts = 1..all
  BY DEF Compact
<1>3. ASSUME NEW i \in DOMAIN c.accounts
      PROVE  longer[c.accounts[i] + 1].key = ms[c.accounts[i] + 1].key
  <2>1. c.accounts[i] + 1 \in DOMAIN ms
    BY DEF Positions
  <2> QED BY <2>1 DEF Grown
<1>4. CASE ~(n > 1 /\ IsTransfer(inner[n - 1]))
  BY <1>4 DEF Balanced
<1>5. CASE n > 1 /\ IsTransfer(inner[n - 1])
  <2>1. /\ all = asked + (IF IsSyncNative(inner[n]) THEN 2 ELSE 1)
        /\ ms[c.accounts[all] + 1].key = Swig
        /\ IsSyncNative(inner[n]) => ms[c.accounts[asked + 1] + 1].key = RentSysvar
    BY <1>5 DEF Balanced
  <2> HIDE DEF asked, all
  <2>2. all \in DOMAIN c.accounts /\ asked + 1 \in DOMAIN c.accounts
    BY <1>1, <1>2, <2>1
  <2>3. /\ longer[c.accounts[all] + 1].key = Swig
        /\ IsSyncNative(inner[n]) => longer[c.accounts[asked + 1] + 1].key = RentSysvar
    BY <1>3, <2>1, <2>2
  <2> QED BY <1>5, <2>1, <2>3 DEF Balanced, asked, all
<1> QED BY <1>4, <1>5

(* The finished instructions while the list grows. *)
LEMMA BalancedKeep ==
  ASSUME IInv, DecodesInv, BalanceInv, phase = "compact",
         metas' \in Seq(Meta), Grown(metas, metas')
  PROVE  \A n \in DOMAIN ixs : Balanced(metas', req.inner, n, ixs[n])
<1> SUFFICES ASSUME NEW n \in DOMAIN ixs PROVE Balanced(metas', req.inner, n, ixs[n])
  OBVIOUS
<1>1. metas \in Seq(Meta) /\ ixs \in Seq(Compact) /\ req.inner \in Seq(Instruction)
  BY RequestsAssumption DEF IInv, TypeOK, Compact, RequestOK
<1>2. ixs[n] \in Compact
  <2> HIDE DEF Compact
  <2> QED BY <1>1
<1>3. Positions(ixs[n].accounts, metas)
  BY CompactionParts DEF IInv, Finished
<1>4. n \in DOMAIN req.inner /\ Balanced(metas, req.inner, n, ixs[n])
  BY DEF DecodesInv, BalanceInv
<1> QED BY <1>1, <1>2, <1>3, <1>4, BalancedGrows

(* Steps that open an instruction or name its accounts. *)
LEMMA BalanceNaming ==
  ASSUME IInv, DecodesInv, BalanceInv, OpenInner \/ ReuseAccount \/ AddAccount
  PROVE  BalanceInv'
<1>1. phase = "compact" /\ UNCHANGED <<phase, req, ixs, unbalanced>>
  BY DEF OpenInner, ReuseAccount, AddAccount, Naming
<1>2. metas' \in Seq(Meta) /\ Grown(metas, metas')
  BY OpenStep, ReuseStep, AddStep DEF IInv, TypeOK, RightsStay, Grown
<1>3. \A n \in DOMAIN ixs : Balanced(metas', req.inner, n, ixs[n])
  BY <1>1, <1>2, BalancedKeep
<1>4. Compacts => index'[Swig] # NoIndex
  <2>1. Compacts => index[Swig] # NoIndex
    BY <1>1 DEF BalanceInv
  <2>2. CASE OpenInner \/ ReuseAccount
    BY <2>1, <2>2 DEF OpenInner, ReuseAccount
  <2>3. CASE AddAccount
    <3>1. /\ index' = [index EXCEPT ![NextMeta.key] = Len(metas)]
          /\ index \in Maps /\ Len(metas) \in Nat /\ NextMeta.key \in Address
      BY <2>3, NamingTyped DEF AddAccount
    <3>2. Swig \in Address
      BY AccountsAssumption
    <3> QED BY <2>1, <3>1, <3>2, ProgramAssumption DEF Maps
  <2> QED BY <2>2, <2>3
<1>5. Compacts' = Compacts /\ AfterTransfer' = AfterTransfer
  BY <1>1 DEF Compacts, AfterTransfer
<1> QED BY <1>1, <1>3, <1>4, <1>5 DEF BalanceInv

LEMMA OneAndOne ==
  ASSUME NEW a \in Nat, NEW b \in Nat
  PROVE  <<a>> \o <<b>> = <<a, b>>
<1> DEFINE s == <<a>>
           t == <<b>>
           u == <<a, b>>
<1>1. /\ s \in Seq(Nat) /\ Len(s) = 1 /\ s[1] = a
      /\ t \in Seq(Nat) /\ Len(t) = 1 /\ t[1] = b
      /\ u \in Seq(Nat) /\ Len(u) = 2 /\ u[1] = a /\ u[2] = b
  OBVIOUS
<1> HIDE DEF s, t, u
<1> DEFINE v == s \o t
<1>2. /\ v \in Seq(Nat) /\ Len(v) = Len(s) + Len(t)
      /\ \A i \in 1..(Len(s) + Len(t)) :
           v[i] = IF i <= Len(s) THEN s[i] ELSE t[i - Len(s)]
  BY <1>1, ConcatProperties
<1> HIDE DEF v
<1>3. /\ Len(v) = 2 /\ v[1] = a /\ v[2] = b
  <2>1. Len(s) + Len(t) = 2 /\ 1 <= Len(s) /\ ~(2 <= Len(s)) /\ 2 - Len(s) = 1
    BY <1>1
  <2>2. 1 \in 1..(Len(s) + Len(t)) /\ 2 \in 1..(Len(s) + Len(t))
    BY <2>1
  <2>3. v[1] = s[1] /\ v[2] = t[2 - Len(s)]
    BY <1>2, <2>1, <2>2
  <2> QED BY <1>1, <1>2, <2>1, <2>3
<1>4. Len(v) = Len(u) /\ \A i \in 1..Len(v) : v[i] = u[i]
  <2>1. 1..Len(v) = {1, 2} /\ Len(v) = Len(u)
    BY <1>1, <1>3
  <2> QED BY <1>1, <1>3, <2>1
<1>5. v = u
  BY <1>1, <1>2, <1>4, SeqEqual
<1> QED BY <1>5 DEF s, t, u, v

LEMMA TwoMore ==
  ASSUME NEW s \in Seq(Nat), NEW a \in Nat, NEW b \in Nat
  PROVE  /\ Len(s \o <<a, b>>) = Len(s) + 2
         /\ (s \o <<a, b>>)[Len(s) + 1] = a
         /\ (s \o <<a, b>>)[Len(s) + 2] = b
<1> DEFINE t == <<a, b>>
           n == Len(s)
<1>1. t \in Seq(Nat) /\ Len(t) = 2 /\ t[1] = a /\ t[2] = b /\ n \in Nat
  OBVIOUS
<1> HIDE DEF t
<1>2. /\ Len(s \o t) = Len(s) + Len(t)
      /\ \A i \in 1..(Len(s) + Len(t)) :
           (s \o t)[i] = IF i <= Len(s) THEN s[i] ELSE t[i - Len(s)]
  BY <1>1, ConcatProperties
<1>3. /\ Len(s \o t) = n + 2
      /\ \A i \in 1..(n + 2) : (s \o t)[i] = IF i <= n THEN s[i] ELSE t[i - n]
  BY <1>1, <1>2
<1> HIDE DEF n
<1>4. /\ n + 1 \in 1..(n + 2) /\ ~(n + 1 <= n) /\ (n + 1) - n = 1
      /\ n + 2 \in 1..(n + 2) /\ ~(n + 2 <= n) /\ (n + 2) - n = 2
  BY <1>1
<1>5. (s \o t)[n + 1] = t[1] /\ (s \o t)[n + 2] = t[2]
  BY <1>3, <1>4
<1> QED BY <1>1, <1>3, <1>5 DEF n, t

(* What is appended to an instruction that is closed. *)
LEMMA BalancingAdds ==
  ASSUME IInv, BalanceInv, CloseInner, metas' \in Seq(Meta), Grown(metas, metas'),
         NEW n, n = Len(ixs) + 1,
         NEW c, c = [program |-> programAt, accounts |-> accts \o Balancing]
  PROVE  Balanced(metas', req.inner, n, c)
<1>1. /\ programAt # NoIndex /\ phase = "compact" /\ Compacts /\ Len(ixs) < Len(req.inner)
      /\ metas \in Seq(Meta) /\ index \in Maps /\ Mapped(index, metas)
      /\ accts \in Seq(Nat) /\ Len(accts) = Len(Current.accounts)
      /\ ixs \in Seq(Compact) /\ Len(metas) \in Nat
      /\ req.inner \in Seq(Instruction)
  BY CompactionParts, RequestsAssumption
  DEF CloseInner, IInv, OpenOK, TypeOK, RequestOK, Maps, Compact
<1> DEFINE ix == req.inner[n]
           more == Balancing
<1>2. /\ Current = Sanitized(ix) /\ ix \in Instruction
      /\ Len(ixs) \in Nat /\ n - 1 = Len(ixs)
  BY <1>1 DEF Current
<1>3. IsSyncNative(Current) = IsSyncNative(ix)
  <2> HIDE DEF ix
  <2>1. Current.program = ix.program /\ Current.kind = ix.kind
    BY <1>2 DEF Sanitized, Instruction
  <2> QED BY <2>1 DEF IsSyncNative
<1>4. unbalanced = (n > 1 /\ IsTransfer(req.inner[n - 1]))
  BY <1>1, <1>2 DEF BalanceInv, AfterTransfer
<1>5. index[Swig] # NoIndex /\ SwigIndex = index[Swig]
  BY <1>1 DEF BalanceInv, SwigIndex
<1>6. SwigIndex \in Nat /\ metas'[SwigIndex + 1].key = Swig
  <2>1. SwigIndex \in 0..(Len(metas) - 1) /\ metas[SwigIndex + 1].key = Swig
    BY <1>1, <1>5, AccountsAssumption DEF Mapped
  <2>2. SwigIndex + 1 \in DOMAIN metas
    BY <1>1, <2>1
  <2> QED BY <1>1, <2>1, <2>2 DEF Grown
<1>7. NeedsRent => RentIndex \in Nat /\ metas'[RentIndex + 1].key = RentSysvar
  <2> SUFFICES ASSUME NeedsRent
               PROVE  RentIndex \in Nat /\ metas'[RentIndex + 1].key = RentSysvar
    OBVIOUS
  <2>0. RentSysvar \in Address
    BY ProgramAssumption
  <2>1. CASE AddsRent
    <3>1. metas' = Append(metas, Readonly(RentSysvar)) /\ RentIndex = Len(metas)
      BY <2>1 DEF CloseInner, RentIndex
    <3>2. metas'[Len(metas) + 1] = Readonly(RentSysvar)
      <4> DEFINE m == Readonly(RentSysvar)
      <4>1. m \in Meta
        BY <2>0, MetaTyped
      <4> HIDE DEF m
      <4>2. metas' = Append(metas, m)
        BY <3>1 DEF m
      <4>3. metas'[Len(metas) + 1] = m
        BY <1>1, <4>1, <4>2, AppendGrows
      <4> QED BY <4>3 DEF m
    <3> QED BY <1>1, <3>1, <3>2 DEF Readonly
  <2>2. CASE ~AddsRent
    <3>1. RentIndex = index[RentSysvar] /\ index[RentSysvar] # NoIndex
      BY <2>2 DEF AddsRent, RentIndex
    <3>2. RentIndex \in 0..(Len(metas) - 1) /\ metas[RentIndex + 1].key = RentSysvar
      BY <1>1, <2>0, <3>1 DEF Mapped
    <3>3. RentIndex + 1 \in DOMAIN metas
      BY <1>1, <3>2
    <3> QED BY <1>1, <3>2, <3>3 DEF Grown
  <2> QED BY <2>1, <2>2
<1>8. c.accounts = accts \o more
  OBVIOUS
<1> DEFINE asked == Len(Current.accounts)
           all == Len(accts \o more)
<1>9. CASE ~unbalanced
  <2>1. more = <<>>
    BY <1>9 DEF Balancing, NeedsRent
  <2> HIDE DEF more
  <2>2. all = asked
    BY <1>1, <2>1
  <2> QED BY <1>2, <1>4, <1>8, <1>9, <2>2 DEF Balanced
<1>10. CASE unbalanced /\ ~IsSyncNative(ix)
  <2>1. more = <<SwigIndex>>
    BY <1>3, <1>10 DEF Balancing, NeedsRent
  <2> HIDE DEF more
  <2>2. all = asked + 1 /\ (accts \o more)[all] = SwigIndex
    BY <1>1, <1>6, <2>1
  <2> QED BY <1>2, <1>4, <1>6, <1>8, <1>10, <2>2 DEF Balanced
<1>11. CASE unbalanced /\ IsSyncNative(ix)
  <2>0. NeedsRent
    BY <1>3, <1>11 DEF NeedsRent
  <2>typed. accts \in Seq(Nat) /\ RentIndex \in Nat /\ SwigIndex \in Nat
    BY <1>1, <1>6, <1>7, <2>0
  <2>1. more = <<RentIndex, SwigIndex>>
    <3>1. more = <<RentIndex>> \o <<SwigIndex>>
      BY <2>0, <1>11 DEF Balancing
    <3> HIDE DEF more
    <3> QED BY <2>typed, <3>1, OneAndOne
  <2> HIDE DEF more
  <2>2. /\ all = asked + 2 /\ (accts \o more)[all] = SwigIndex
        /\ (accts \o more)[asked + 1] = RentIndex
    <3>1. /\ Len(accts \o more) = Len(accts) + 2
          /\ (accts \o more)[Len(accts) + 2] = SwigIndex
          /\ (accts \o more)[Len(accts) + 1] = RentIndex
      BY <2>typed, <2>1, TwoMore
    <3> QED BY <1>1, <3>1
  <2>3. Balanced(metas', req.inner, n, c) <=>
          /\ all = asked + 2
          /\ metas'[(accts \o more)[all] + 1].key = Swig
          /\ metas'[(accts \o more)[asked + 1] + 1].key = RentSysvar
    <3> HIDE DEF ix
    <3>1. n > 1 /\ IsTransfer(req.inner[n - 1]) /\ IsSyncNative(req.inner[n])
      BY <1>4, <1>11 DEF ix
    <3>2. Sanitized(req.inner[n]) = Current
      BY <1>2 DEF ix
    <3> QED BY <1>8, <3>1, <3>2 DEF Balanced
  <2> QED BY <1>6, <1>7, <2>0, <2>2, <2>3
<1> QED BY <1>9, <1>10, <1>11

LEMMA BalanceClose ==
  ASSUME IInv, DecodesInv, BalanceInv, CloseInner
  PROVE  BalanceInv'
<1> DEFINE c == [program |-> programAt, accounts |-> accts \o Balancing]
<1>1. /\ phase = "compact" /\ ixs' = Append(ixs, c) /\ unbalanced' = IsTransfer(Current)
      /\ UNCHANGED <<phase, req>> /\ ixs \in Seq(Compact) /\ ixs' \in Seq(Compact)
      /\ Len(ixs) < Len(req.inner) /\ Compacts /\ req.inner \in Seq(Instruction)
  <2>1. IInv'
    BY CloseStep
  <2> QED BY <2>1, RequestsAssumption
      DEF CloseInner, IInv, TypeOK, OpenOK, RequestOK, Compact
<1>2. metas' \in Seq(Meta) /\ Grown(metas, metas')
  BY CloseStep DEF IInv, TypeOK, RightsStay, Grown
<1>3. \A n \in DOMAIN ixs : Balanced(metas', req.inner, n, ixs[n])
  BY <1>1, <1>2, BalancedKeep
<1>4. Balanced(metas', req.inner, Len(ixs) + 1, c)
  BY <1>2, BalancingAdds
<1> HIDE DEF c
<1>5. ASSUME NEW n \in DOMAIN ixs' PROVE Balanced(metas', req.inner, n, ixs'[n])
  <2>1. \/ n \in DOMAIN ixs /\ ixs'[n] = ixs[n]
        \/ n = Len(ixs) + 1 /\ ixs'[n] = c
    <3> HIDE DEF Compact
    <3> QED BY <1>1
  <2> QED BY <1>3, <1>4, <2>1
<1>6. unbalanced' = AfterTransfer'
  <2>1. Len(ixs') = Len(ixs) + 1 /\ Len(ixs) \in Nat
    <3> HIDE DEF Compact
    <3> QED BY <1>1
  <2> DEFINE ix == req.inner[Len(ixs) + 1]
  <2>2. Current = Sanitized(ix) /\ ix \in Instruction
    BY <1>1, <2>1 DEF Current
  <2> HIDE DEF ix
  <2>3. Current.program = ix.program /\ Current.kind = ix.kind
    BY <2>2 DEF Sanitized, Instruction
  <2>4. IsTransfer(Current) = IsTransfer(ix)
    BY <2>3 DEF IsTransfer
  <2>5. req'.inner[Len(ixs')] = ix /\ Len(ixs') > 0
    BY <1>1, <2>1 DEF ix
  <2> QED BY <1>1, <2>4, <2>5 DEF AfterTransfer, IsTransfer
<1>7. index'[Swig] # NoIndex
  <2>1. index[Swig] # NoIndex /\ index \in Maps /\ Len(metas) \in Nat
    BY <1>1 DEF BalanceInv, IInv, TypeOK, Maps
  <2>2. index' = index \/ index' = [index EXCEPT ![RentSysvar] = Len(metas)]
    BY DEF CloseInner
  <2>3. Swig \in Address /\ RentSysvar \in Address
    BY AccountsAssumption, ProgramAssumption
  <2> QED BY <2>1, <2>2, <2>3, ProgramAssumption DEF Maps
<1> QED BY <1>1, <1>5, <1>6, <1>7 DEF BalanceInv

LEMMA BalanceRest ==
  ASSUME IInv, DecodesInv, BalanceInv,
         Begin \/ SignerFails \/ Seal \/ Send \/ Return \/ UNCHANGED vars
  PROVE  BalanceInv'
<1>1. CASE Begin
  <2>1. ixs' = <<>> /\ unbalanced' = FALSE /\ Len(ixs') = 0
    BY <1>1 DEF Begin, IInv, IdleOK, BalanceInv
  <2>2. (phase = "compact" /\ Compacts)' => index'[Swig] # NoIndex
    <3> SUFFICES ASSUME phase' = "compact", Compacts' PROVE index'[Swig] # NoIndex
      OBVIOUS
    <3>1. PICK r \in Requests :
            /\ req' = r /\ ~Refused(r)
            /\ index' = LastIndex(StartOf(TheCall(r).object, OperationOf(r), Handed(r)).metas)
      BY <1>1 DEF Begin
    <3> DEFINE ms == StartOf(TheCall(r).object, OperationOf(r), Handed(r)).metas
    <3>2. ms \in Seq(Meta)
      BY <3>1, BegunTyped DEF StartOK
    <3>3. \E i \in DOMAIN ms : ms[i].key = Swig
      <4>1. OperationOf(r) \in SignOps
        BY <3>1 DEF Compacts
      <4> QED BY <3>1, <4>1, SignedMetasNameSwig
    <3>4. index' = LastIndex(ms)
      BY <3>1
    <3> HIDE DEF ms
    <3> QED BY <3>2, <3>3, <3>4, LastIndexMapped, AccountsAssumption
  <2>3. unbalanced' = AfterTransfer'
    <3>1. ~(Len(ixs') > 0)
      BY <2>1
    <3> QED BY <2>1, <3>1 DEF AfterTransfer
  <2> QED BY <2>1, <2>2, <2>3 DEF BalanceInv
<1>2. CASE Return
  BY <1>2 DEF Return, BalanceInv
<1>3. CASE Seal
  <2>1. /\ phase = "compact" /\ phase' = "built" /\ metas' = FinalMetas
        /\ UNCHANGED <<req, ixs, unbalanced>> /\ metas \in Seq(Meta)
    BY <1>3 DEF Seal, IInv, TypeOK
  <2>2. metas' \in Seq(Meta) /\ Grown(metas, metas')
    BY <2>1, FinalMetasGrow
  <2>3. \A n \in DOMAIN ixs : Balanced(metas', req.inner, n, ixs[n])
    BY <2>1, <2>2, BalancedKeep
  <2> QED BY <2>1, <2>3 DEF BalanceInv
<1>4. CASE SignerFails \/ Send
  BY <1>4 DEF SignerFails, Send, BalanceInv
<1>5. CASE UNCHANGED vars
  BY <1>5 DEF vars, BalanceInv, AfterTransfer, Compacts
<1> QED BY <1>1, <1>2, <1>3, <1>4, <1>5

(* TransfersAreBalanced: for any requests, what follows a transfer ends    *)
(* with the swig account, a SyncNative has the rent sysvar before it, and  *)
(* nothing else has an account that nobody asked for.                      *)
THEOREM SpecBalanced == Spec => []TransfersAreBalanced
<1>1. Init => DecodesInv /\ BalanceInv
  BY DEF Init, DecodesInv, BalanceInv
<1>2. IInv /\ DecodesInv /\ [Next]_vars => DecodesInv'
  BY DecodesOpen, DecodesReuse, DecodesAdd, DecodesClose, DecodesRest DEF Next
<1>3. IInv /\ DecodesInv /\ BalanceInv /\ [Next]_vars => BalanceInv'
  BY BalanceNaming, BalanceClose, BalanceRest DEF Next
<1>4. BalanceInv => TransfersAreBalanced
  BY DEF BalanceInv, TransfersAreBalanced, Balanced, Follows
<1> QED BY <1>1, <1>2, <1>3, <1>4, SpecInv, PTL DEF Spec

-----------------------------------------------------------------------------
(***************************************************************************)
(* That nobody signs who was not asked to.  The metas a call begins with   *)
(* are signed by the payer and the authority, an account that is named is  *)
(* given the signature its caller asked for unless it is a PDA, and the    *)
(* seal marks the payer.                                                   *)
(***************************************************************************)
MaySign(k) ==
  \/ k \in {PayerOf(req), Handed(req).authority}
  \/ k \notin Pdas /\ Asked(k)

LEMMA SignersKept ==
  ASSUME metas \in Seq(Meta), SignersAreAsked, req' = req,
         NEW more, \A k \in more : MaySign(k),
         \A i \in DOMAIN metas' : metas'[i].signer =>
           \/ i \in DOMAIN metas /\ metas[i].signer /\ metas'[i].key = metas[i].key
           \/ metas'[i].key \in more
  PROVE  SignersAreAsked'
<1> SUFFICES ASSUME NEW i \in DOMAIN metas', metas'[i].signer
             PROVE  \/ metas'[i].key \in {PayerOf(req), Handed(req).authority}
                    \/ metas'[i].key \notin Pdas /\ Asked(metas'[i].key)
  BY DEF SignersAreAsked, Pdas, Asked
<1>1. CASE i \in DOMAIN metas /\ metas[i].signer /\ metas'[i].key = metas[i].key
  BY <1>1 DEF SignersAreAsked
<1>2. CASE metas'[i].key \in more
  BY <1>2 DEF MaySign
<1> QED BY <1>1, <1>2

(* What the next account asks for, its caller asked for. *)
LEMMA NamedMaySign ==
  ASSUME IInv, Naming, NextMeta.signer
  PROVE  MaySign(NextMeta.key)
<1> DEFINE n == Len(ixs) + 1
           i == Len(accts) + 1
           ix == req.inner[n]
           asked == Current.accounts[i]
<1>1. /\ n \in DOMAIN req.inner /\ ix \in Instruction /\ Current = Sanitized(ix)
      /\ accts \in Seq(Nat) /\ Len(accts) < Len(Current.accounts)
      /\ Current \in Instruction
  <2>1. /\ phase = "compact" /\ Len(ixs) < Len(req.inner) /\ ixs \in Seq(Compact)
        /\ req.inner \in Seq(Instruction) /\ accts \in Seq(Nat)
    BY RequestsAssumption DEF Naming, IInv, OpenOK, RequestOK, TypeOK, Compact
  <2>2. Current \in Instruction
    BY <2>1, CurrentTyped
  <2>3. n \in DOMAIN req.inner
    <3> HIDE DEF Compact
    <3> QED BY <2>1
  <2> QED BY <2>1, <2>2, <2>3 DEF Naming, Current
<1> HIDE DEF ix
<1>2. /\ i \in DOMAIN ix.accounts /\ asked = ix.accounts[i] /\ asked \in Meta
  <2>1. ix.accounts \in Seq(Meta) /\ Current.accounts \in Seq(Meta) /\ i \in Nat /\ i >= 1
        /\ i <= Len(Current.accounts)
    BY <1>1 DEF Instruction
  <2>2. CASE Current = ix
    <3> DEFINE s == ix.accounts
    <3>1. s \in Seq(Meta) /\ i \in Nat /\ i >= 1 /\ i <= Len(s)
      BY <2>1, <2>2
    <3> HIDE DEF s, i
    <3>2. i \in DOMAIN s /\ s[i] \in Meta
      BY <3>1
    <3> QED BY <2>2, <3>2 DEF s
  <2>3. CASE Current # ix
    <3>1. Len(ix.accounts) > 0 /\ Current.accounts = SubSeq(ix.accounts, 1, 1)
      BY <1>1, <2>3 DEF Sanitized, Instruction
    <3> DEFINE s == ix.accounts
               t == SubSeq(s, 1, 1)
    <3>2. s \in Seq(Meta) /\ Len(s) > 0
      BY <2>1, <3>1
    <3> HIDE DEF s
    <3>3. Len(t) = 1 /\ t[1] = s[1] /\ 1 \in DOMAIN s /\ s[1] \in Meta
      BY <3>2
    <3> HIDE DEF t
    <3>4. i = 1 /\ Current.accounts = t
      BY <2>1, <3>1, <3>3 DEF s, t
    <3> HIDE DEF i
    <3> QED BY <3>3, <3>4 DEF s
  <2> QED BY <2>2, <2>3
<1>3. NextMeta = AsNamed(asked)
  BY DEF NextMeta
<1> HIDE DEF asked, i, n
<1>4. asked.key \notin Pdas
  BY <1>2, <1>3 DEF AsNamed, Meta
<1>5. NextMeta = asked
  BY <1>3, <1>4 DEF AsNamed
<1>6. Asked(asked.key)
  BY <1>1, <1>2, <1>5 DEF Asked, ix
<1> QED BY <1>4, <1>5, <1>6 DEF MaySign

LEMMA ElementTyped ==
  ASSUME NEW s \in Seq(Meta), NEW p \in DOMAIN s
  PROVE  s[p] \in Meta
OBVIOUS

(* A list that grows by a meta, or gives one of its metas more rights.     *)
LEMMA SignersAdded ==
  ASSUME metas \in Seq(Meta), SignersAreAsked, req' = req,
         NEW m \in Meta, m.signer => MaySign(m.key),
         \/ metas' = Append(metas, m)
         \/ \E p \in DOMAIN metas :
              /\ metas[p].key = m.key
              /\ metas' = [metas EXCEPT ![p].writable = @ \/ m.writable,
                                        ![p].signer = @ \/ m.signer]
  PROVE  SignersAreAsked'
<1> DEFINE more == IF m.signer THEN {m.key} ELSE {}
<1>1. ASSUME NEW i \in DOMAIN metas', metas'[i].signer
      PROVE  \/ i \in DOMAIN metas /\ metas[i].signer /\ metas'[i].key = metas[i].key
             \/ metas'[i].key \in more
  <2>1. CASE metas' = Append(metas, m)
    <3>1. \/ i \in DOMAIN metas /\ metas'[i] = metas[i]
          \/ metas'[i] = m
      BY <2>1
    <3> QED BY <1>1, <3>1
  <2>2. ASSUME NEW p \in DOMAIN metas, metas[p].key = m.key,
               metas' = [metas EXCEPT ![p].writable = @ \/ m.writable,
                                      ![p].signer = @ \/ m.signer]
        PROVE  \/ i \in DOMAIN metas /\ metas[i].signer /\ metas'[i].key = metas[i].key
               \/ metas'[i].key \in more
    <3> DEFINE old == metas[p]
               raised == [old EXCEPT !.writable = @ \/ m.writable, !.signer = @ \/ m.signer]
               longer == [metas EXCEPT ![p].writable = @ \/ m.writable,
                                       ![p].signer = @ \/ m.signer]
    <3>same. longer = [metas EXCEPT ![p] = raised]
      OBVIOUS
    <3>next. metas' = longer
      BY <2>2
    <3> HIDE DEF longer
    <3>typed. old \in Meta
      BY ElementTyped
    <3>1. metas' = [metas EXCEPT ![p] = raised]
      <4> HIDE DEF raised
      <4> QED BY <3>next, <3>same
    <3>2. raised.key = old.key /\ raised.signer = (old.signer \/ m.signer)
      <4> HIDE DEF old
      <4> QED BY <3>typed DEF Meta
    <3> HIDE DEF raised
    <3>3. i \in DOMAIN metas /\ metas'[i] = IF i = p THEN raised ELSE metas[i]
      BY <2>2, <3>1
    <3>4. CASE i # p
      BY <1>1, <3>3, <3>4
    <3>5. CASE i = p
      <4>1. metas'[i] = raised /\ metas[i] = old /\ old.key = m.key
        BY <2>2, <3>3, <3>5
      <4> HIDE DEF old
      <4>2. old.signer \/ m.signer
        BY <1>1, <3>2, <4>1
      <4> QED BY <3>2, <3>3, <4>1, <4>2
    <3> QED BY <3>4, <3>5
  <2> QED BY <2>1, <2>2
<1>2. \A k \in more : MaySign(k)
  OBVIOUS
<1> HIDE DEF more
<1> QED BY <1>1, <1>2, SignersKept

LEMMA SignersStep == IInv /\ SignersAreAsked /\ [Next]_vars => SignersAreAsked'
<1> SUFFICES ASSUME IInv, SignersAreAsked, [Next]_vars PROVE SignersAreAsked'
  OBVIOUS
<1>0. metas \in Seq(Meta)
  BY DEF IInv, TypeOK
<1>1. CASE Begin
  <2>1. PICK r \in Requests :
          /\ req' = r
          /\ IF Refused(r)
             THEN phase' = "refused" /\ UNCHANGED <<start, metas, index>>
             ELSE LET s == StartOf(TheCall(r).object, OperationOf(r), Handed(r))
                  IN /\ phase' = "compact"
                     /\ start' = s
                     /\ metas' = s.metas
                     /\ index' = LastIndex(s.metas)
    BY <1>1 DEF Begin
  <2>2. CASE Refused(r)
    <3>1. metas' = <<>>
      BY <1>1, <2>1, <2>2 DEF Begin, IInv, IdleOK
    <3> QED BY <3>1 DEF SignersAreAsked
  <2>3. CASE ~Refused(r)
    <3> DEFINE s == StartOf(TheCall(r).object, OperationOf(r), Handed(r))
    <3>1. /\ metas' = s.metas
          /\ StartOK(TheCall(r).object, OperationOf(r), Handed(r), s)
          /\ Handed(r).acc.payer = PayerOf(r)
      BY <2>1, <2>3, BegunTyped
    <3> HIDE DEF s
    <3>2. \A i \in DOMAIN metas' : metas'[i].signer =>
            metas'[i].key \in {PayerOf(r), Handed(r).authority}
      BY <3>1 DEF StartOK
    <3> QED BY <2>1, <3>2 DEF SignersAreAsked
  <2> QED BY <2>2, <2>3
<1>2. CASE OpenInner
  <2> DEFINE m == Readonly(Current.program)
  <2>1. m \in Meta /\ ~m.signer
    <3>1. Current \in Instruction
      BY <1>2, CurrentTyped DEF OpenInner
    <3> QED BY <3>1, MetaTyped DEF Instruction, Readonly
  <2>2. metas' = Append(metas, m) /\ req' = req
    BY <1>2 DEF OpenInner
  <2> HIDE DEF m
  <2> QED BY <1>0, <2>1, <2>2, SignersAdded
<1>3. CASE ReuseAccount
  <2> DEFINE m == NextMeta
             p == index[m.key] + 1
  <2>1. m \in Meta /\ (m.signer => MaySign(m.key)) /\ req' = req
        /\ p \in DOMAIN metas /\ metas[p].key = m.key
    <3>1. Naming /\ index[m.key] # NoIndex /\ req' = req
      BY <1>3 DEF ReuseAccount
    <3>2. m \in Meta /\ index[m.key] \in 0..(Len(metas) - 1) /\ metas[p].key = m.key
          /\ Len(metas) \in Nat
      BY <3>1, NamingTyped DEF Mapped
    <3>3. p \in DOMAIN metas
      BY <1>0, <3>2
    <3> QED BY <3>1, <3>2, <3>3, NamedMaySign
  <2>2. metas' = [metas EXCEPT ![p].writable = @ \/ m.writable,
                               ![p].signer = @ \/ m.signer]
    BY <1>3 DEF ReuseAccount
  <2> HIDE DEF m, p
  <2> QED BY <1>0, <2>1, <2>2, SignersAdded
<1>4. CASE AddAccount
  <2> DEFINE m == NextMeta
  <2>1. m \in Meta /\ (m.signer => MaySign(m.key))
    BY <1>4, NamingTyped, NamedMaySign DEF AddAccount
  <2>2. metas' = Append(metas, m) /\ req' = req
    BY <1>4 DEF AddAccount
  <2> HIDE DEF m
  <2> QED BY <1>0, <2>1, <2>2, SignersAdded
<1>5. CASE CloseInner
  <2> DEFINE m == Readonly(RentSysvar)
  <2>1. m \in Meta /\ ~m.signer
    BY ProgramAssumption, MetaTyped DEF Readonly
  <2>2. (metas' = metas \/ metas' = Append(metas, m)) /\ req' = req
    BY <1>5 DEF CloseInner
  <2> HIDE DEF m
  <2>3. CASE metas' = metas
    BY <2>2, <2>3 DEF SignersAreAsked, Pdas, Asked
  <2>4. CASE metas' = Append(metas, m)
    BY <1>0, <2>1, <2>2, <2>4, SignersAdded
  <2> QED BY <2>2, <2>3, <2>4
<1>6. CASE Seal
  <2>1. metas' = FinalMetas /\ req' = req
    BY <1>6 DEF Seal
  <2> DEFINE more == {k \in {req.opts.payer} : k = PayerOf(req)}
  <2>2. ASSUME NEW i \in DOMAIN metas', metas'[i].signer
        PROVE  \/ i \in DOMAIN metas /\ metas[i].signer /\ metas'[i].key = metas[i].key
               \/ metas'[i].key \in more
    <3>1. CASE MarksPayer(TheCall(req).object, OperationOf(req), req.opts)
      <4>1. req.opts.payer = PayerOf(req)
        BY <3>1 DEF MarksPayer, PayerOf
      <4>2. metas' = WithPayerMarked(metas, req.opts.payer)
        BY <2>1, <3>1 DEF FinalMetas
      <4>3. i \in DOMAIN metas /\ metas[i] \in Meta
        BY <1>0, <4>2 DEF WithPayerMarked
      <4>4. \/ metas'[i] = metas[i]
            \/ metas[i].key = req.opts.payer /\ metas'[i] = [metas[i] EXCEPT !.signer = TRUE]
        BY <4>2, <4>3 DEF WithPayerMarked
      <4>5. metas'[i].key = metas[i].key
        BY <4>3, <4>4 DEF Meta
      <4> QED BY <2>2, <4>1, <4>3, <4>4, <4>5
    <3>2. CASE ~MarksPayer(TheCall(req).object, OperationOf(req), req.opts)
      BY <2>1, <2>2, <3>2 DEF FinalMetas
    <3> QED BY <3>1, <3>2
  <2>3. \A k \in more : MaySign(k)
    BY DEF MaySign
  <2> HIDE DEF more
  <2> QED BY <1>0, <2>1, <2>2, <2>3, SignersKept
<1>7. CASE Return
  BY <1>7 DEF Return, SignersAreAsked
<1>8. CASE SignerFails \/ Send \/ UNCHANGED vars
  <2>1. metas' = metas /\ req' = req
    BY <1>8 DEF SignerFails, Send, vars
  <2> QED BY <2>1 DEF SignersAreAsked, Pdas, Asked
<1> QED BY <1>1, <1>2, <1>3, <1>4, <1>5, <1>6, <1>7, <1>8 DEF Next

(* SignersAreAsked: for any requests, the signers of the swig instruction  *)
(* are the payer, the key that authorizes it and those an inner            *)
(* instruction asks for, of which none is an address of the wallet.        *)
THEOREM SpecSigners == Spec => []SignersAreAsked
<1>1. Init => SignersAreAsked
  BY DEF Init, SignersAreAsked
<1> QED BY <1>1, SignersStep, SpecInv, PTL DEF Spec

-----------------------------------------------------------------------------
(***************************************************************************)
(* That what is built is accepted, end to end: for any requests, a call    *)
(* that was built and sent is rejected only for a rejection that is known. *)
(* The metas still name the accounts the operation began with, the context *)
(* is that of the call, and when no instruction around raises a right and  *)
(* no address has two entries, the rights a secp authority signed are      *)
(* those of the transaction.                                               *)
(***************************************************************************)
PayerMarked(object, op, opts, ms) ==
  MarksPayer(object, op, opts) /\ (\E i \in DOMAIN ms : ms[i].key = opts.payer) =>
    \E j \in DOMAIN ms : ms[j].key = opts.payer /\ ms[j].signer

ContextOK(r, c) ==
  /\ c.pre = PreOf(TheCall(r).object, OperationOf(r), r.opts)
  /\ c.post = PostOf(TheCall(r).object, OperationOf(r), r.opts)
  /\ c.payload = PayloadSize(TheCall(r).object, r.opts)
  /\ c.declared = DeclaredSize(TheCall(r).object, OperationOf(r))
  /\ c.counter = CounterOf(r)

BuiltInv ==
  /\ phase \in {"compact", "built"} =>
       /\ start.metas \in Seq(Meta)
       /\ StartOK(TheCall(req).object, OperationOf(req), Handed(req), start)
       /\ Grown(start.metas, metas)
  /\ phase = "built" =>
       /\ ContextOK(req, ctx)
       /\ PayerMarked(TheCall(req).object, OperationOf(req), req.opts, metas)

LEMMA GrownFrom ==
  ASSUME NEW ms \in Seq(Meta), NEW longer \in Seq(Meta), NEW longest \in Seq(Meta),
         Grown(ms, longer), Grown(longer, longest)
  PROVE  Grown(ms, longest)
<1>1. /\ Len(ms) \in Nat /\ Len(longer) \in Nat /\ Len(longest) \in Nat
      /\ DOMAIN ms = 1..Len(ms) /\ DOMAIN longer = 1..Len(longer)
      /\ Len(longer) >= Len(ms) /\ Len(longest) >= Len(longer)
  BY DEF Grown
<1>2. DOMAIN ms \subseteq DOMAIN longer
  BY <1>1
<1>3. ASSUME NEW i \in DOMAIN ms
      PROVE  /\ longest[i].key = ms[i].key
             /\ ms[i].signer => longest[i].signer
             /\ ms[i].writable => longest[i].writable
  BY <1>2 DEF Grown
<1>4. Len(longest) >= Len(ms)
  BY <1>1
<1> QED BY <1>3, <1>4 DEF Grown

(* A list with a key has a first meta with that key. *)
LEMMA FirstOf ==
  ASSUME NEW ms \in Seq(Meta), NEW k, NEW p \in DOMAIN ms, ms[p].key = k
  PROVE  \E f \in DOMAIN ms : ms[f].key = k /\ \A j \in 1..(f - 1) : ms[j].key # k
<1> DEFINE S == {i \in Nat : i \in DOMAIN ms /\ ms[i].key = k}
           Less == {ss \in Nat \X Nat : ss[1] < ss[2]}
<1>1. S \subseteq Nat /\ p \in S
  OBVIOUS
<1>2. IsWellFoundedOn(Less, Nat)
  BY NatLessThanWellFounded DEF OpToRel
<1>3. PICK f \in S : \A j \in S : j >= f
  <2>1. \E f \in S : \A j \in S : ~(<<j, f>> \in Less)
    <3> HIDE DEF S, Less
    <3> QED BY <1>1, <1>2, WFMin
  <2>2. PICK f \in S : \A j \in S : ~(<<j, f>> \in Less)
    BY <2>1
  <2>3. ASSUME NEW j \in S PROVE j >= f
    <3>1. ~(<<j, f>> \in Less) /\ j \in Nat /\ f \in Nat
      BY <2>2, <2>3
    <3> QED BY <3>1
  <2> QED BY <2>3
<1>4. /\ f \in DOMAIN ms /\ ms[f].key = k
      /\ \A j \in 1..(f - 1) : ms[j].key # k
  BY <1>3
<1> QED BY <1>4

LEMMA SealMarks ==
  ASSUME IInv, phase = "compact"
  PROVE  PayerMarked(TheCall(req).object, OperationOf(req), req.opts, FinalMetas)
<1> DEFINE payer == req.opts.payer
           marked == WithPayerMarked(metas, payer)
<1>0. metas \in Seq(Meta)
  BY DEF IInv, TypeOK
<1> SUFFICES ASSUME MarksPayer(TheCall(req).object, OperationOf(req), req.opts),
                    NEW i \in DOMAIN FinalMetas, FinalMetas[i].key = payer
             PROVE  \E j \in DOMAIN FinalMetas :
                      FinalMetas[j].key = payer /\ FinalMetas[j].signer
  BY DEF PayerMarked
<1>1. FinalMetas = marked /\ DOMAIN marked = DOMAIN metas
  BY DEF FinalMetas, WithPayerMarked
<1>2. i \in DOMAIN metas /\ metas[i].key = payer
  <2>1. i \in DOMAIN metas /\ marked[i].key = payer
    BY <1>1
  <2>2. marked[i] \in {metas[i], [metas[i] EXCEPT !.signer = TRUE]}
    BY <2>1 DEF WithPayerMarked
  <2> HIDE DEF marked
  <2>3. metas[i] \in Meta
    BY <1>0, <2>1
  <2>4. marked[i].key = metas[i].key
    BY <2>2, <2>3 DEF Meta
  <2> QED BY <2>1, <2>4
<1>3. PICK f \in DOMAIN metas : metas[f].key = payer /\ \A j \in 1..(f - 1) : metas[j].key # payer
  BY <1>0, <1>2, FirstOf
<1>4. marked[f] = [metas[f] EXCEPT !.signer = TRUE]
  BY <1>3 DEF WithPayerMarked
<1> HIDE DEF marked
<1>5. metas[f] \in Meta
  BY <1>0
<1>6. marked[f].key = payer /\ marked[f].signer
  BY <1>3, <1>4, <1>5 DEF Meta
<1> QED BY <1>1, <1>3, <1>6

LEMMA BuiltStep == IInv /\ BuiltInv /\ [Next]_vars => BuiltInv'
<1> SUFFICES ASSUME IInv, BuiltInv, [Next]_vars, phase' \in {"compact", "built"}
             PROVE  /\ start'.metas \in Seq(Meta)
                    /\ StartOK(TheCall(req').object, OperationOf(req'), Handed(req'), start')
                    /\ Grown(start'.metas, metas')
                    /\ phase' = "built" =>
                         /\ ContextOK(req', ctx')
                         /\ PayerMarked(TheCall(req').object, OperationOf(req'), req'.opts, metas')
  BY DEF BuiltInv
<1>1. CASE Begin
  <2>1. PICK r \in Requests :
          /\ req' = r
          /\ IF Refused(r)
             THEN phase' = "refused" /\ UNCHANGED <<start, metas, index>>
             ELSE LET s == StartOf(TheCall(r).object, OperationOf(r), Handed(r))
                  IN /\ phase' = "compact"
                     /\ start' = s
                     /\ metas' = s.metas
                     /\ index' = LastIndex(s.metas)
    BY <1>1 DEF Begin
  <2> DEFINE s == StartOf(TheCall(r).object, OperationOf(r), Handed(r))
  <2>2. ~Refused(r) /\ start' = s /\ metas' = s.metas /\ req' = r /\ phase' = "compact"
    BY <2>1
  <2>3. StartOK(TheCall(r).object, OperationOf(r), Handed(r), s)
    BY <2>2, BegunTyped
  <2>4. s.metas \in Seq(Meta)
    BY <2>3 DEF StartOK
  <2> HIDE DEF s
  <2>5. Grown(s.metas, s.metas)
    BY <2>4 DEF Grown
  <2> QED BY <2>2, <2>3, <2>4, <2>5
<1>2. CASE ~Begin
  <2>1. phase \in {"compact", "built"} /\ UNCHANGED <<req, start>>
    BY <1>2 DEF Next, vars, OpenInner, ReuseAccount, AddAccount, CloseInner, SignerFails,
       Seal, Send, Return, Naming
  <2>2. /\ metas \in Seq(Meta) /\ metas' \in Seq(Meta) /\ Grown(metas, metas')
    BY <2>1, StepInv DEF RightsStay, Grown, IInv, TypeOK
  <2>3. /\ start.metas \in Seq(Meta) /\ Grown(start.metas, metas)
        /\ StartOK(TheCall(req).object, OperationOf(req), Handed(req), start)
    BY <2>1 DEF BuiltInv
  <2>4. Grown(start.metas, metas')
    BY <2>2, <2>3, GrownFrom
  <2>5. ASSUME phase' = "built"
        PROVE  /\ ContextOK(req, ctx')
               /\ PayerMarked(TheCall(req).object, OperationOf(req), req.opts, metas')
    <3>1. CASE Seal
      <4>1. ContextOK(req, ctx') /\ metas' = FinalMetas /\ phase = "compact"
        BY <3>1 DEF Seal, ContextOK
      <4> QED BY <4>1, SealMarks
    <3>2. CASE ~Seal
      <4>1. phase = "built" /\ UNCHANGED <<metas, ctx>>
        BY <1>2, <2>5, <3>2 DEF Next, vars, OpenInner, ReuseAccount, AddAccount, CloseInner,
           SignerFails, Send, Return, Naming
      <4> QED BY <4>1 DEF BuiltInv
    <3> QED BY <3>1, <3>2
  <2> QED BY <2>1, <2>3, <2>4, <2>5
<1> QED BY <1>1, <1>2

(* The counter that an authority class passes, and the accounts: only the  *)
(* methods that Misnamed names pass others than they were given.           *)
CalledWith(c, op, a) ==
  /\ c.object \in SecpObjects => c.counter \in {"preset", "own"}
  /\ \/ c.acc = a \/ op = "subAccountWithdrawToken"
     \/ op = "transferAssets" /\ c.object = "Secp256k1"

LEMMA CallAccounts ==
  ASSUME NEW class \in Classes, NEW op \in Ops, NEW a
  PROVE  CalledWith(CallOf(class, op, a), op, a)
<1> DEFINE w == Withdrawn(op, a)
           s == SwigForWallet(op, a)
           First == {Ed25519Own(a), BySession(a), ByRecord(a), Proved(a), Counted("Secp256k1", a),
                     Counted("Secp256r1", a), Recounted("Secp256r1", a)}
           Second == {Ed25519Own(w), ByRecord(w), Proved(w), Counted("Secp256k1", w),
                      Counted("Secp256r1", w)}
<1>1. ASSUME NEW c \in First PROVE CalledWith(c, op, a)
  <2>1. c.acc = a /\ (c.object \in SecpObjects => c.counter \in {"preset", "own"})
    BY <1>1 DEF First, Ed25519Own, BySession, ByRecord, Proved, Counted, Recounted, Call, SecpObjects
  <2> HIDE DEF First
  <2> QED BY <2>1 DEF CalledWith
<1>2. ASSUME NEW c \in Second PROVE CalledWith(c, op, a)
  <2>1. w = a \/ op = "subAccountWithdrawToken"
    BY DEF w, Withdrawn
  <2> HIDE DEF w
  <2>2. c.acc = w /\ (c.object \in SecpObjects => c.counter \in {"preset", "own"})
    BY <1>2 DEF Second, Ed25519Own, ByRecord, Proved, Counted, Call, SecpObjects
  <2> HIDE DEF Second
  <2> QED BY <2>1, <2>2 DEF CalledWith
<1>3. CalledWith(Counted("Secp256k1", s), op, a)
  <2>1. s = a \/ op = "transferAssets"
    BY DEF s, SwigForWallet
  <2> HIDE DEF s
  <2> QED BY <2>1 DEF CalledWith, Counted, Call, SecpObjects
<1> HIDE DEF w, s
<1>4. CallOf(class, op, a) \in First \cup Second \cup {Counted("Secp256k1", s)}
  <2>1. CASE op \in SubAccountOps
    <3>0. op \notin AssetOps
      BY <2>1 DEF SubAccountOps, AssetOps, WithdrawOps, CloseOps, LockOps
    <3>1. CASE class \in TokenClasses
      BY <2>1, <3>0, <3>1 DEF CallOf, TokenClasses, w, Second, Ed25519SubAccounts,
         Secp256k1SubAccounts, Secp256r1SubAccounts, ProgramExecSubAccounts
    <3>2. CASE class \in SessionClasses
      BY <2>1, <3>0, <3>2 DEF CallOf, SessionClasses, w, First, Second, Ed25519SessionSubAccounts,
         Secp256k1SessionSubAccounts, Secp256r1SessionSubAccounts,
         ProgramExecSessionSubAccounts
    <3> QED BY <3>1, <3>2 DEF Classes
  <2>2. CASE op \notin SubAccountOps /\ op \in AssetOps
    BY <2>2 DEF CallOf, Classes, TokenClasses, SessionClasses, s, First,
       Ed25519AssetCalls, Ed25519SessionAssetCalls, Secp256k1AssetCalls,
       Secp256k1SessionAssetCalls, Secp256r1AssetCalls, Secp256r1SessionAssetCalls,
       ProgramExecAssetCalls, ProgramExecSessionAssetCalls
  <2>3. CASE op \notin SubAccountOps /\ op \notin AssetOps
    BY <2>3 DEF CallOf, Classes, TokenClasses, SessionClasses, First,
       Ed25519Roles, Ed25519SessionRoles, Secp256k1Roles,
       Secp256k1SessionRoles, Secp256r1Roles, Secp256r1SessionRoles,
       ProgramExecRoles, ProgramExecSessionRoles
  <2> QED BY <2>1, <2>2, <2>3
<1> HIDE DEF First, Second
<1> QED BY <1>1, <1>2, <1>3, <1>4

LEMMA AppendBegins ==
  ASSUME NEW M, NEW s \in Seq(M), NEW m \in M
  PROVE  /\ Append(s, m) \in Seq(M) /\ Begins(Append(s, m), s)
         /\ Len(Append(s, m)) = Len(s) + 1
<1>1. Len(Append(s, m)) = Len(s) + 1
  OBVIOUS
<1> QED BY <1>1, ExtendBegins

(* What a concatenation holds, as a value of its own. *)
LEMMA ConcatShape ==
  ASSUME NEW M, NEW s \in Seq(M), NEW t \in Seq(M), NEW u, u = s \o t
  PROVE  /\ u \in Seq(M) /\ Len(u) = Len(s) + Len(t)
         /\ \A i \in 1..(Len(s) + Len(t)) : u[i] = IF i <= Len(s) THEN s[i] ELSE t[i - Len(s)]
<1>1. s \o t \in Seq(M) /\ Len(s \o t) = Len(s) + Len(t)
  BY JoinTyped
<1>2. \A i \in 1..(Len(s) + Len(t)) :
        (s \o t)[i] = IF i <= Len(s) THEN s[i] ELSE t[i - Len(s)]
  BY ConcatProperties
<1> QED BY <1>1, <1>2

(* Whatever the context of a withdrawal is, the other metas are the same.  *)
LEMMA ContextShape ==
  ASSUME NEW base \in Seq(Meta), NEW m \in Meta, NEW n \in Meta, Len(base) >= ContextIndex
  PROVE  /\ Len(WithContext(base, m)) = Len(WithContext(base, n))
         /\ \A i \in DOMAIN WithContext(base, m) : i # ContextIndex + 1 =>
              WithContext(base, m)[i] = WithContext(base, n)[i]
<1> DEFINE before == SubSeq(base, 1, 3)
           after == SubSeq(base, 4, Len(base))
<1>1. /\ before \in Seq(Meta) /\ Len(before) = 3
      /\ after \in Seq(Meta) /\ Len(after) \in Nat
  BY DEF ContextIndex
<1> HIDE DEF before, after
<1>2. ASSUME NEW x \in Meta
      PROVE  /\ WithContext(base, x) \in Seq(Meta)
             /\ Len(WithContext(base, x)) = 4 + Len(after)
             /\ \A i \in 1..(4 + Len(after)) : i # 4 =>
                  WithContext(base, x)[i] = IF i <= 3 THEN before[i] ELSE after[i - 4]
  <2> DEFINE t == Append(before, x)
             u == t \o after
  <2>1. t \in Seq(Meta) /\ Len(t) = 4 /\ \A i \in 1..3 : t[i] = before[i]
    <3>1. t \in Seq(Meta) /\ Begins(t, before) /\ Len(t) = Len(before) + 1
      BY <1>1, AppendBegins
    <3> HIDE DEF t
    <3> QED BY <1>1, <3>1 DEF Begins
  <2>3. before \o <<x>> = t
    BY <1>1, AppendIsConcat
  <2>4. WithContext(base, x) = (before \o <<x>>) \o after
    BY DEF WithContext, ContextIndex, before, after
  <2> HIDE DEF t
  <2>2. /\ u \in Seq(Meta) /\ Len(u) = Len(t) + Len(after)
        /\ \A i \in 1..(Len(t) + Len(after)) : u[i] = IF i <= Len(t) THEN t[i] ELSE after[i - Len(t)]
    <3>1. t \in Seq(Meta) /\ after \in Seq(Meta) /\ u = t \o after
      BY <1>1, <2>1
    <3> HIDE DEF u
    <3> QED BY <3>1, ConcatShape
  <2>5. WithContext(base, x) = u
    BY <2>3, <2>4
  <2> HIDE DEF u
  <2>6. \A i \in 1..(4 + Len(after)) : i # 4 => u[i] = IF i <= 3 THEN before[i] ELSE after[i - 4]
    BY <1>1, <2>1, <2>2
  <2> QED BY <1>1, <2>1, <2>2, <2>5, <2>6
<1> DEFINE ms == WithContext(base, m)
           ns == WithContext(base, n)
<1>3. /\ ms \in Seq(Meta) /\ Len(ms) = 4 + Len(after)
      /\ \A i \in 1..(4 + Len(after)) : i # 4 => ms[i] = IF i <= 3 THEN before[i] ELSE after[i - 4]
  BY <1>2
<1>4. /\ ns \in Seq(Meta) /\ Len(ns) = 4 + Len(after)
      /\ \A i \in 1..(4 + Len(after)) : i # 4 => ns[i] = IF i <= 3 THEN before[i] ELSE after[i - 4]
  BY <1>2
<1> HIDE DEF ms, ns
<1>5. DOMAIN ms = 1..(4 + Len(after))
  BY <1>1, <1>3
<1>6. \A i \in DOMAIN ms : i # 4 => ms[i] = ns[i]
  BY <1>3, <1>4, <1>5
<1> QED BY <1>3, <1>4, <1>6 DEF ms, ns, ContextIndex

LEMMA AccountsStay ==
  ASSUME IInv, BuiltInv, phase = "built", ~Misnamed
  PROVE  RightAccounts
<1> DEFINE op == OperationOf(req)
           a == AccountsOf(req)
           object == TheCall(req).object
           base == MetasOf(op, a).base
           ms == start.metas
<1>1. req \in Requests /\ ~Refused(req)
  BY DEF IInv, RequestOK
<1>2. op \in Ops /\ a \in Accounts /\ object \in Objects /\ Handed(req).acc = TheCall(req).acc
  BY <1>1, BegunTyped
<1>3. Handed(req).acc = a
  <2>1. req.class \in Classes
    BY <1>1, RequestsAssumption
  <2>2. CalledWith(TheCall(req), op, a)
    BY <1>2, <2>1, CallAccounts DEF TheCall
  <2> QED BY <1>2, <2>2 DEF CalledWith, Misnamed
<1>4. /\ ms \in Seq(Meta) /\ metas \in Seq(Meta) /\ Grown(ms, metas)
      /\ op \notin WithdrawOps => Begins(ms, base)
      /\ op \in WithdrawOps => \E m \in Meta : ms = WithContext(base, m)
  <2>1. StartOK(object, op, Handed(req), start) /\ ms \in Seq(Meta) /\ Grown(ms, metas)
    BY DEF BuiltInv
  <2>2. metas \in Seq(Meta)
    BY DEF IInv, TypeOK
  <2>3. op \in WithdrawOps => object # "ProgramExec"
    BY DEF Misnamed
  <2> QED BY <1>3, <2>1, <2>2, <2>3 DEF StartOK
<1>5. base \in Seq(Meta) /\ (op \in WithdrawOps => Len(base) >= ContextIndex)
  <2>1. FormsTyped(MetasOf(op, a), Least(op), Signed({a.payer}))
    BY <1>2, MetasOfTyped
  <2> QED BY <2>1, SignedAreMetas DEF FormsTyped, Least
<1> HIDE DEF ms
<1>6. ASSUME NEW layout \in Seq(Meta), Len(ms) >= Len(layout), NEW i \in DOMAIN layout
      PROVE  i \in DOMAIN ms /\ metas[i].key = ms[i].key
  <2>1. Len(ms) \in Nat /\ Len(layout) \in Nat /\ DOMAIN ms = 1..Len(ms) /\ DOMAIN layout = 1..Len(layout)
    BY <1>4
  <2>2. i \in DOMAIN ms
    BY <1>6, <2>1
  <2> QED BY <1>4, <2>2 DEF Grown
<1>7. CASE op \notin WithdrawOps
  <2> HIDE DEF base
  <2>1. Begins(ms, base)
    BY <1>4, <1>7
  <2>2. Len(metas) >= Len(base)
    <3>1. Len(metas) >= Len(ms) /\ Len(ms) >= Len(base)
      BY <1>4, <2>1 DEF Grown, Begins
    <3>2. Len(metas) \in Nat /\ Len(ms) \in Nat /\ Len(base) \in Nat
      BY <1>4, <1>5
    <3> QED BY <3>1, <3>2
  <2>3. \A i \in DOMAIN base : metas[i].key = base[i].key
    BY <1>5, <1>6, <2>1 DEF Begins
  <2>4. Layout = base
    BY <1>7 DEF Layout, base
  <2> QED BY <2>2, <2>3, <2>4 DEF RightAccounts
<1>8. CASE op \in WithdrawOps
  <2> DEFINE layout == WithContext(base, Readonly(SystemProgram))
  <2> HIDE DEF base
  <2>1. PICK m \in Meta : ms = WithContext(base, m)
    BY <1>4, <1>8
  <2>2. Readonly(SystemProgram) \in Meta
    BY MetaTyped, AddressAssumption
  <2>3. /\ layout \in Seq(Meta) /\ Len(layout) = Len(ms)
        /\ \A i \in DOMAIN layout : i # ContextIndex + 1 => layout[i] = ms[i]
    <3>1. Len(base) >= ContextIndex
      BY <1>5, <1>8
    <3>2. layout \in Seq(Meta)
      BY <1>5, <2>2, <3>1, ContextAt
    <3> QED BY <1>5, <2>1, <2>2, <3>1, <3>2, ContextShape
  <2>4. Layout = layout
    BY <1>8 DEF Layout, base
  <2> HIDE DEF layout
  <2>5. Len(metas) >= Len(layout) /\ Len(ms) >= Len(layout)
    <3>1. Len(metas) >= Len(ms) /\ Len(metas) \in Nat /\ Len(ms) \in Nat
      BY <1>4 DEF Grown
    <3> QED BY <2>3, <3>1
  <2>6. \A i \in DOMAIN layout : i # ContextIndex + 1 => metas[i].key = layout[i].key
    BY <1>6, <2>3, <2>5
  <2> QED BY <1>8, <2>4, <2>5, <2>6 DEF RightAccounts
<1> QED BY <1>7, <1>8

(* The metas of the message, when nothing travels with the instruction but *)
(* the check of a signature, which names no account.                       *)
Alone(c) == c.pre \in {<<>>, <<SigVerify>>} /\ c.post = <<>>

LEMMA AllMetasAlone ==
  ASSUME Alone(ctx)
  PROVE  AllMetas = {metas[i] : i \in DOMAIN metas} \cup {WritableSigner(req.feePayer)}
<1>1. {ctx.post[i] : i \in DOMAIN ctx.post} = {}
  BY DEF Alone
<1>2. {ctx.pre[i] : i \in DOMAIN ctx.pre} \subseteq {SigVerify}
  BY DEF Alone
<1>3. {SigVerify.accounts[i] : i \in DOMAIN SigVerify.accounts} = {}
  <2>1. SigVerify.accounts = <<>>
    BY DEF SigVerify
  <2> QED BY <2>1
<1> DEFINE around == {ctx.pre[i] : i \in DOMAIN ctx.pre} \cup {ctx.post[i] : i \in DOMAIN ctx.post}
           theirs == UNION {{ix.accounts[i] : i \in DOMAIN ix.accounts} : ix \in around}
<1>4. around \subseteq {SigVerify}
  BY <1>1, <1>2
<1> HIDE DEF around
<1>5. theirs = {}
  BY <1>3, <1>4
<1>6. AllMetas = theirs \cup {metas[i] : i \in DOMAIN metas} \cup {WritableSigner(req.feePayer)}
  BY DEF AllMetas, around
<1> HIDE DEF theirs
<1> QED BY <1>5, <1>6

(* The rights that a secp authority signed are those of the message.       *)
LEMMA RightsAsSigned ==
  ASSUME IInv, Alone(ctx), ~LesserPayer, ~TwoEntries,
         PayerMarked(TheCall(req).object, OperationOf(req), req.opts, metas),
         req \in Requests, BySecp,
         NEW i \in DOMAIN metas
  PROVE  Seen(metas[i]) = metas[i]
<1> DEFINE m == metas[i]
           payer == WritableSigner(req.feePayer)
<1>1. m \in Meta /\ metas \in Seq(Meta)
  BY DEF IInv, TypeOK
<1>2. \A n \in AllMetas : n.key = m.key => n = m \/ (n = payer /\ m.key = req.feePayer)
  <2>1. AllMetas = {metas[j] : j \in DOMAIN metas} \cup {payer}
    BY AllMetasAlone
  <2>2. payer.key = req.feePayer
    BY DEF WritableSigner
  <2>3. \A j \in DOMAIN metas : metas[j].key = m.key => metas[j] = m
    BY DEF TwoEntries
  <2> HIDE DEF m, payer
  <2> QED BY <2>1, <2>2, <2>3
<1>3. m \in AllMetas
  BY AllMetasAlone
<1>4. m.key = req.feePayer => m.writable /\ m.signer
  <2>1. SUFFICES ASSUME m.key = req.feePayer PROVE m.writable /\ m.signer
    OBVIOUS
  <2>2. /\ m.writable
        /\ m.signer \/ (OperationOf(req) = "signV2" /\ req.opts.payer = req.feePayer)
    BY <2>1 DEF LesserPayer
  <2>3. ASSUME OperationOf(req) = "signV2", req.opts.payer = req.feePayer
        PROVE  m.signer
    <3>1. req.feePayer \in Address
      BY RequestsAssumption
    <3>2. MarksPayer(TheCall(req).object, OperationOf(req), req.opts)
      BY <2>3, <3>1, AddressAssumption DEF MarksPayer, BySecp
    <3>3. PICK j \in DOMAIN metas : metas[j].key = req.opts.payer /\ metas[j].signer
      BY <2>1, <2>3, <3>2 DEF PayerMarked
    <3>4. metas[j] = m
      BY <2>1, <2>3, <3>3 DEF TwoEntries
    <3> QED BY <3>3, <3>4
  <2> QED BY <2>2, <2>3
<1>5. payer.signer /\ payer.writable
  BY DEF WritableSigner
<1>6. /\ Seen(m).key = m.key
      /\ Seen(m).signer = (\E n \in AllMetas : n.key = m.key /\ n.signer)
      /\ Seen(m).writable = (\E n \in AllMetas : n.key = m.key /\ n.writable)
      /\ Seen(m) = [key |-> Seen(m).key, signer |-> Seen(m).signer, writable |-> Seen(m).writable]
  BY DEF Seen
<1> HIDE DEF m, payer
<1>7. (\E n \in AllMetas : n.key = m.key /\ n.signer) <=> m.signer
  BY <1>2, <1>3, <1>4
<1>8. (\E n \in AllMetas : n.key = m.key /\ n.writable) <=> m.writable
  BY <1>2, <1>3, <1>4
<1>9. m.signer \in BOOLEAN /\ m.writable \in BOOLEAN
      /\ m = [key |-> m.key, signer |-> m.signer, writable |-> m.writable]
  BY <1>1 DEF Meta
<1>10. Seen(m).signer = m.signer
  BY <1>6, <1>7, <1>9
<1>11. Seen(m).writable = m.writable
  BY <1>6, <1>8, <1>9
<1>12. Seen(m) = m
  BY <1>6, <1>9, <1>10, <1>11
<1> QED BY <1>12 DEF m

(* The counter, the declared length and the rights. *)
LEMMA SignedRight ==
  ASSUME IInv, BuiltInv, phase = "built", BySecp,
         ~(WrongCounter \/ ShortDeclaration \/ LesserPayer \/ RaisedAround \/ TwoEntries)
  PROVE  SignedAsSeen
<1> DEFINE object == TheCall(req).object
           op == OperationOf(req)
<1>1. /\ req \in Requests /\ ContextOK(req, ctx)
      /\ PayerMarked(object, op, req.opts, metas)
      /\ object \in {"Secp256k1", "Secp256r1"}
  BY DEF IInv, RequestOK, BuiltInv, BySecp, SecpObjects
<1>2. Alone(ctx)
  <2>1. op \in LockOps => req.opts.pre = <<>> /\ req.opts.post = <<>>
    BY DEF RaisedAround
  <2>2. <<>> \o <<SigVerify>> = <<SigVerify>>
    OBVIOUS
  <2>3. PreOf(object, op, req.opts) \in {<<>>, <<SigVerify>>}
    <3> HIDE DEF object, op
    <3> QED BY <1>1, <2>1, <2>2 DEF PreOf
  <2>4. PostOf(object, op, req.opts) = <<>>
    <3> HIDE DEF object, op
    <3> QED BY <1>1, <2>1 DEF PostOf
  <2> QED BY <1>1, <2>3, <2>4 DEF ContextOK, Alone
<1>3. \A i \in DOMAIN metas : Seen(metas[i]) = metas[i]
  BY <1>1, <1>2, RightsAsSigned
<1>4. ctx.counter = req.chain + 1
  <2>1. TheCall(req).counter \in {"preset", "own"}
    <3>1. req.class \in Classes /\ op \in Ops
      BY <1>1, RequestsAssumption, BegunTyped DEF IInv, RequestOK
    <3>2. CalledWith(TheCall(req), op, AccountsOf(req))
      BY <3>1, CallAccounts DEF TheCall
    <3> QED BY <3>2 DEF CalledWith, BySecp
  <2>2. /\ Intended = req.chain + 1
        /\ TheCall(req).counter = "own" => req.opts.odometer = NoOdometer
    BY DEF WrongCounter
  <2>3. CounterOf(req) = Intended
    BY <2>1, <2>2 DEF CounterOf, Intended
  <2> QED BY <1>1, <2>2, <2>3 DEF ContextOK
<1>5. ctx.declared \in {NoIndex, ctx.payload}
  <2>1. op = "removeAuthority" => ~req.opts.prefix
    BY DEF ShortDeclaration
  <2>2. DeclaredSize(object, op) \in {NoIndex, PayloadSize(object, req.opts)}
    <3> HIDE DEF object, op
    <3> QED BY <1>1, <2>1 DEF DeclaredSize, PayloadSize
  <2> QED BY <1>1, <2>2 DEF ContextOK
<1> QED BY <1>3, <1>4, <1>5 DEF SignedAsSeen

LEMMA BuiltAuthorized ==
  ASSUME IInv, BuiltInv, PayloadInv, phase = "built",
         ~(BySecp /\ (WrongCounter \/ ShortDeclaration \/ LesserPayer \/ RaisedAround \/ TwoEntries))
  PROVE  Authorized
<1> DEFINE object == TheCall(req).object
           op == OperationOf(req)
<1>1. /\ req \in Requests /\ ~Refused(req) /\ object \in Objects /\ ContextOK(req, ctx)
      /\ Pointed(object, Handed(req).authority, metas, start.points)
      /\ req.opts \in Options
  BY BegunTyped, RequestsAssumption DEF IInv, RequestOK, BuiltInv, PayloadInv
<1>2. CASE object = "Ed25519"
  <2>1. PointsAt(Handed(req).authority) /\ metas[start.points + 1].signer
    BY <1>1, <1>2 DEF Pointed, Names, PointsAt
  <2>2. metas \in Seq(Meta) /\ start.points + 1 \in DOMAIN metas
    BY <2>1 DEF PointsAt, IInv, TypeOK
  <2> DEFINE m == metas[start.points + 1]
  <2>3. m \in AllMetas
    BY <2>2 DEF AllMetas
  <2>4. m.signer
    BY <2>1
  <2> HIDE DEF m
  <2>5. Seen(m).signer
    BY <2>3, <2>4 DEF Seen
  <2> QED BY <1>2, <2>1, <2>5 DEF Authorized, m
<1>3. CASE object = "Secp256k1"
  <2>1. BySecp
    BY <1>3 DEF BySecp, SecpObjects
  <2> QED BY <1>3, <2>1, SignedRight DEF Authorized
<1>4. CASE object = "Secp256r1"
  <2>1. BySecp
    BY <1>4 DEF BySecp, SecpObjects
  <2>2. SignedAsSeen
    BY <2>1, SignedRight
  <2>3. PointsAt(InstructionsSysvar)
    BY <1>1, <1>4 DEF Pointed, Names, PointsAt
  <2>4. \E i \in DOMAIN ctx.pre : ctx.pre[i] = SigVerify
    <3> DEFINE before == IF op \in LockOps THEN req.opts.pre ELSE <<>>
    <3>1. ctx.pre = before \o <<SigVerify>>
      BY <1>1, <1>4 DEF ContextOK, PreOf
    <3>2. before \in Seq(Instruction)
      BY <1>1 DEF Options
    <3>3. SigVerify \in Instruction
      BY ProgramAssumption DEF SigVerify, Instruction, Kinds
    <3> HIDE DEF before
    <3>4. ctx.pre = Append(before, SigVerify)
      BY <3>1, <3>2, <3>3, AppendIsConcat
    <3>5. Len(before) + 1 \in DOMAIN Append(before, SigVerify)
      BY <3>2, <3>3
    <3>6. Append(before, SigVerify)[Len(before) + 1] = SigVerify
      BY <3>2, <3>3
    <3> QED BY <3>4, <3>5, <3>6
  <2> QED BY <1>4, <2>2, <2>3, <2>4 DEF Authorized
<1>5. CASE object = "ProgramExec"
  <2>1. PointsAt(InstructionsSysvar)
    BY <1>1, <1>5 DEF Pointed, Names, PointsAt
  <2>2. ValidPreInstructions(op, Handed(req))
    BY <1>1, <1>5 DEF Refused
  <2>3. Handed(req).opts = req.opts /\ ctx.pre = req.opts.pre
    BY <1>1, <1>5 DEF Handed, ContextOK, PreOf
  <2>4. /\ Len(ctx.pre) > 0 /\ ctx.pre[Len(ctx.pre)].program = ExecProgram
        /\ ctx.pre[Len(ctx.pre)].kind = "prefixed"
    BY <2>2, <2>3 DEF ValidPreInstructions
  <2> QED BY <1>5, <2>1, <2>4 DEF Authorized
<1> QED BY <1>1, <1>2, <1>3, <1>4, <1>5 DEF Objects, SecpObjects

LEMMA AcceptedStep ==
  IInv /\ BuiltInv /\ PayloadInv /\ BuiltIsAccepted /\ [Next]_vars => BuiltIsAccepted'
<1> SUFFICES ASSUME IInv, BuiltInv, PayloadInv, BuiltIsAccepted, [Next]_vars, phase' = "rejected"
             PROVE  BuiltIsAccepted'
  BY DEF BuiltIsAccepted
<1> DEFINE Known ==
             \/ Misnamed
             \/ BySecp /\ (WrongCounter \/ ShortDeclaration \/ LesserPayer \/ RaisedAround \/ TwoEntries)
<1>1. UNCHANGED <<req, metas>> /\ (phase = "rejected" \/ Send)
  BY DEF Next, vars, Begin, OpenInner, ReuseAccount, AddAccount, CloseInner, SignerFails,
     Seal, Send, Return, Naming
<1>2. Known
  <2>1. CASE phase = "rejected"
    BY <2>1 DEF BuiltIsAccepted
  <2>2. CASE Send
    <3>1. phase = "built" /\ ~(Authorized /\ RightAccounts)
      BY <2>2 DEF Send
    <3> QED BY <3>1, AccountsStay, BuiltAuthorized
  <2> QED BY <1>1, <2>1, <2>2
<1>3. Known'
  BY <1>1, <1>2 DEF Misnamed, BySecp, WrongCounter, Intended, ShortDeclaration, LesserPayer,
     RaisedAround, TwoEntries
<1> QED BY <1>3 DEF BuiltIsAccepted

(* BuiltIsAccepted: for any requests, a call that was built and sent is    *)
(* accepted by the program but for the rejections that are known.          *)
THEOREM SpecAccepted == Spec => []BuiltIsAccepted
<1>1. Init => BuiltInv /\ PayloadInv /\ BuiltIsAccepted
  BY DEF Init, BuiltInv, PayloadInv, BuiltIsAccepted
<1>2. IInv /\ BuiltInv /\ [Next]_vars => BuiltInv'
  BY BuiltStep
<1>3. IInv /\ PayloadInv /\ [Next]_vars => PayloadInv'
  BY PayloadStep
<1>4. IInv /\ BuiltInv /\ PayloadInv /\ BuiltIsAccepted /\ [Next]_vars => BuiltIsAccepted'
  BY AcceptedStep
<1> QED BY <1>1, <1>2, <1>3, <1>4, SpecInv, PTL DEF Spec
=============================================================================
