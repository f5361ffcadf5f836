-------------------------- MODULE InstructionMetas --------------------------
(***************************************************************************)
(* The account metas that an instruction of the swig program begins with,  *)
(* one operator for each file of lib/src/instructions.  Positions are those *)
(* of the code: the first meta has index 0.                                *)
(***************************************************************************)
EXTENDS Naturals, Sequences

CONSTANTS
  Address,              \* the addresses of accounts and programs
  SystemProgram,
  InstructionsSysvar,
  NoAddress             \* an optional account that is not given

ASSUME AddressAssumption ==
  /\ SystemProgram \in Address
  /\ InstructionsSysvar \in Address
  /\ SystemProgram # InstructionsSysvar
  /\ NoAddress \notin Address

Meta == [key : Address, signer : BOOLEAN, writable : BOOLEAN]

Readonly(k) == [key |-> k, signer |-> FALSE, writable |-> FALSE]
ReadonlySigner(k) == [key |-> k, signer |-> TRUE, writable |-> FALSE]
Writable(k) == [key |-> k, signer |-> FALSE, writable |-> TRUE]
WritableSigner(k) == [key |-> k, signer |-> TRUE, writable |-> TRUE]

(* The accounts an operation is called with.  A field that an operation    *)
(* has no use for is NoAddress.                                            *)
Accounts ==
  [swig : Address, wallet : Address, payer : Address, sub : Address,
   destination : Address, tokenProgram : Address,
   subToken : Address, swigToken : Address, tokens : Seq(Address),
   asset : Address, mint : Address \cup {NoAddress},
   rentClaimer : Address \cup {NoAddress}]

-----------------------------------------------------------------------------
(* Each file has up to three forms of its metas: the base, the base with a *)
(* signing authority at the end, whose index is the length of the base, and *)
(* the base with what `between` says (the system program where the base    *)
(* lacks it) and the other metas the caller gives.                         *)
Forms(base, between) ==
  [base |-> base,
   withAuthority |-> [k \in Address |-> Append(base, ReadonlySigner(k))],
   withSystemProgram |-> base \o between]

TheSystemProgram == <<Readonly(SystemProgram)>>
Given(metas, k) == IF k = NoAddress THEN <<>> ELSE metas

SignV1Metas(a) ==
  Forms(<<Writable(a.swig), WritableSigner(a.payer)>>, TheSystemProgram)

SignV2Metas(a) == Forms(<<Writable(a.swig), Writable(a.wallet)>>, TheSystemProgram)

AddAuthorityMetas(a) ==
  Forms(<<Writable(a.swig), WritableSigner(a.payer)>> \o TheSystemProgram, <<>>)

RemoveAuthorityMetas(a) ==
  Forms(<<Writable(a.swig), WritableSigner(a.payer)>> \o TheSystemProgram, <<>>)

UpdateAuthorityMetas(a) ==
  Forms(<<Writable(a.swig), WritableSigner(a.payer)>> \o TheSystemProgram, <<>>)

CreateSessionMetas(a) ==
  Forms(<<Writable(a.swig), WritableSigner(a.payer)>>, TheSystemProgram)

SubAccountCreateMetas(a) ==
  Forms(<<Writable(a.swig), WritableSigner(a.payer), Writable(a.sub)>>
        \o TheSystemProgram, <<>>)

SubAccountSignMetas(a) ==
  Forms(<<Writable(a.swig), Writable(a.sub)>> \o TheSystemProgram, <<>>)

SubAccountToggleMetas(a) ==
  Forms(<<Writable(a.swig), WritableSigner(a.payer), Writable(a.sub)>>,
        TheSystemProgram)

SubAccountWithdrawSolMetas(a) ==
  Forms(<<Writable(a.swig), WritableSigner(a.payer), Writable(a.sub),
          Writable(a.wallet)>> \o TheSystemProgram, <<>>)

SubAccountWithdrawTokenMetas(a) ==
  Forms(<<Writable(a.swig), WritableSigner(a.payer), Writable(a.sub),
          Writable(a.wallet)>> \o TheSystemProgram \o
        <<Writable(a.subToken), Writable(a.swigToken), Readonly(a.tokenProgram)>>,
        <<>>)

TransferAssetsMetas(a) ==
  Forms(<<Writable(a.swig), Writable(a.wallet), WritableSigner(a.payer)>>
        \o TheSystemProgram, <<>>)

CloseSwigMetas(a) ==
  Forms(<<Writable(a.swig), Writable(a.wallet), Writable(a.destination)>>
        \o TheSystemProgram, <<>>)

CloseTokenAccountMetas(a) ==
  Forms(<<Writable(a.swig), Writable(a.wallet), Writable(a.destination),
          Readonly(a.tokenProgram)>>, <<>>)

AddAuthorizationLockMetas(a) ==
  Forms(<<Writable(a.swig), Readonly(a.wallet), WritableSigner(a.payer)>>
        \o TheSystemProgram \o <<Readonly(a.asset)>>
        \o Given(<<Readonly(a.mint)>>, a.mint), <<>>)

RemoveAuthorizationLockMetas(a) ==
  Forms(<<Writable(a.swig), Readonly(a.wallet), WritableSigner(a.payer)>>
        \o TheSystemProgram
        \o Given(<<Writable(a.rentClaimer)>>, a.rentClaimer), <<>>)

-----------------------------------------------------------------------------
ManageOps == {"addAuthority", "removeAuthority", "updateAuthority"}
SignOps == {"signV1", "signV2", "subAccountSign"}
WithdrawOps == {"subAccountWithdrawSol", "subAccountWithdrawToken"}
CloseOps == {"closeSwig", "closeTokenAccount"}
LockOps == {"addAuthorizationLock", "removeAuthorizationLock"}
Ops == ManageOps \cup SignOps \cup WithdrawOps \cup CloseOps \cup LockOps \cup
       {"createSession", "subAccountCreate", "subAccountToggle", "transferAssets"}

MetasOf(op, a) ==
  CASE op = "signV1" -> SignV1Metas(a)
    [] op = "signV2" -> SignV2Metas(a)
    [] op = "addAuthority" -> AddAuthorityMetas(a)
    [] op = "removeAuthority" -> RemoveAuthorityMetas(a)
    [] op = "updateAuthority" -> UpdateAuthorityMetas(a)
    [] op = "createSession" -> CreateSessionMetas(a)
    [] op = "subAccountCreate" -> SubAccountCreateMetas(a)
    [] op = "subAccountSign" -> SubAccountSignMetas(a)
    [] op = "subAccountToggle" -> SubAccountToggleMetas(a)
    [] op = "subAccountWithdrawSol" -> SubAccountWithdrawSolMetas(a)
    [] op = "subAccountWithdrawToken" -> SubAccountWithdrawTokenMetas(a)
    [] op = "transferAssets" -> TransferAssetsMetas(a)
    [] op = "closeSwig" -> CloseSwigMetas(a)
    [] op = "closeTokenAccount" -> CloseTokenAccountMetas(a)
    [] op = "addAuthorizationLock" -> AddAuthorizationLockMetas(a)
    [] op = "removeAuthorizationLock" -> RemoveAuthorizationLockMetas(a)

(* getSubAccountWithdrawV1AccountMetasWithAuthorityContext: the context is *)
(* the fourth meta, and the system program when none is given.             *)
ContextIndex == 3
WithContext(base, context) ==
  SubSeq(base, 1, ContextIndex) \o <<context>> \o SubSeq(base, ContextIndex + 1, Len(base))

(* The token accounts of closeTokenAccount follow all other metas.         *)
TokenMetas(a) == [i \in 1..Len(a.tokens) |-> Writable(a.tokens[i])]
=============================================================================
