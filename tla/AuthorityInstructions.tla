------------------------ MODULE AuthorityInstructions ------------------------
(***************************************************************************)
(* The four instruction objects of lib/src/authority/instructions: for each *)
(* operation, the metas it begins with, where its authority payload points, *)
(* what is signed, and which instructions travel with it.                  *)
(*                                                                         *)
(* A request r holds the accounts r.acc, the key of the authority          *)
(* r.authority, the inner instructions r.inner and the options r.opts of   *)
(* InstructionDataOptions.                                                 *)
(***************************************************************************)
EXTENDS InstructionMetas

CONSTANTS
  TokenProgram, RentSysvar,
  ExecProgram,          \* the program a ProgramExec authority names
  Secp256r1Precompile,
  NoIndex,              \* a payload that holds no index, a call without offset
  NoOdometer

ASSUME ProgramAssumption ==
  /\ {TokenProgram, RentSysvar, ExecProgram, Secp256r1Precompile} \subseteq Address
  /\ NoIndex \notin Nat /\ NoOdometer \notin Nat

(* An instruction of a transaction.  Its data matter by kind only: a       *)
(* transfer of the system program, a SyncNative, one that begins with the  *)
(* prefix a ProgramExec authority asks for, the check of a signature.      *)
Kinds == {"transfer", "syncNative", "prefixed", "sigVerify", "other"}
Instruction == [program : Address, kind : Kinds, accounts : Seq(Meta)]

SigVerify == [program |-> Secp256r1Precompile, kind |-> "sigVerify", accounts |-> <<>>]

SecpObjects == {"Secp256k1", "Secp256r1"}
Objects == SecpObjects \cup {"Ed25519", "ProgramExec"}

(* Metas, the index in the payload, and the tokenAccountOffset.            *)
Start(metas, points, offset) == [metas |-> metas, points |-> points, offset |-> offset]

-----------------------------------------------------------------------------
(* Ed25519Instruction: the authority signs the transaction, and the payload *)
(* is its index.                                                           *)
SignerMeta(r) == ReadonlySigner(r.authority)

Ed25519Manage(op, r) ==
  LET forms == MetasOf(op, r.acc)
  IN Start(forms.withAuthority[r.authority], Len(forms.base), NoIndex)

Ed25519SubAccount(op, r) ==
  LET forms == MetasOf(op, r.acc)
  IN IF op \in WithdrawOps
     THEN Start(WithContext(forms.base, SignerMeta(r)), ContextIndex, NoIndex)
     ELSE Start(forms.withAuthority[r.authority], Len(forms.base), NoIndex)

BugEd25519Assets(op, r) ==
  LET forms == MetasOf(op, r.acc)
  IN Start(forms.base \o TokenMetas(r.acc) \o <<SignerMeta(r)>>, Len(forms.base),
           Len(forms.base) + 1)

Ed25519Assets(op, r) ==
  LET forms == MetasOf(op, r.acc)
      signed == forms.withAuthority[r.authority]
  IN IF op = "closeTokenAccount"
     THEN Start(signed \o TokenMetas(r.acc), Len(forms.base), Len(signed))
     ELSE Start(signed, Len(forms.base), NoIndex)

Ed25519Start(op, r) ==
  CASE op \in ManageOps \cup {"signV1", "signV2", "createSession"} -> Ed25519Manage(op, r)
    [] op \in WithdrawOps \cup {"subAccountCreate", "subAccountSign", "subAccountToggle"} ->
         Ed25519SubAccount(op, r)
    [] op \in CloseOps \cup LockOps \cup {"transferAssets"} -> Ed25519Assets(op, r)

-----------------------------------------------------------------------------
(* Secp256k1Instruction: nothing but the base metas; the payload holds the *)
(* slot, the counter and a signature over the arguments and the metas.     *)
Secp256k1Manage(op, r) == Start(MetasOf(op, r.acc).base, NoIndex, NoIndex)

Secp256k1Sign(op, r) == Start(MetasOf(op, r.acc).base, NoIndex, NoIndex)

Secp256k1SubAccount(op, r) ==
  LET forms == MetasOf(op, r.acc)
  IN CASE op = "createSession" -> Start(forms.withSystemProgram, NoIndex, NoIndex)
       [] op \in {"subAccountCreate", "subAccountSign"} -> Start(forms.base, NoIndex, NoIndex)

Secp256k1Withdraw(op, r) ==
  LET base == MetasOf(op, r.acc).base
  IN IF op \in WithdrawOps
     THEN Start(WithContext(base, Readonly(SystemProgram)), NoIndex, NoIndex)
     ELSE Start(base, NoIndex, NoIndex)

Secp256k1Assets(op, r) ==
  LET base == MetasOf(op, r.acc).base
  IN IF op = "closeTokenAccount"
     THEN Start(base \o TokenMetas(r.acc), NoIndex, Len(base))
     ELSE Start(base, NoIndex, NoIndex)

Secp256k1Locks(op, r) == Start(MetasOf(op, r.acc).base, NoIndex, NoIndex)

Secp256k1Start(op, r) ==
  CASE op \in ManageOps -> Secp256k1Manage(op, r)
    [] op \in {"signV1", "signV2"} -> Secp256k1Sign(op, r)
    [] op \in {"createSession", "subAccountCreate", "subAccountSign"} ->
         Secp256k1SubAccount(op, r)
    [] op \in WithdrawOps \cup {"subAccountToggle"} -> Secp256k1Withdraw(op, r)
    [] op \in CloseOps \cup {"transferAssets"} -> Secp256k1Assets(op, r)
    [] op \in LockOps -> Secp256k1Locks(op, r)

-----------------------------------------------------------------------------
(* Secp256r1Instruction: the signature is checked by an instruction of its *)
(* own, which the program finds through the instructions sysvar.           *)
SysvarMeta == Readonly(InstructionsSysvar)

(* prepareSecp256r1Payload looks for the first meta of the sysvar.         *)
SysvarIndex(metas) ==
  (CHOOSE i \in DOMAIN metas :
     /\ metas[i].key = InstructionsSysvar
     /\ \A j \in 1..(i - 1) : metas[j].key # InstructionsSysvar) - 1

Secp256r1Manage(op, r) == MetasOf(op, r.acc).withSystemProgram \o <<SysvarMeta>>

Secp256r1Sign(op, r) == MetasOf(op, r.acc).withSystemProgram \o <<SysvarMeta>>

Secp256r1SubAccount(op, r) == MetasOf(op, r.acc).withSystemProgram \o <<SysvarMeta>>

Secp256r1Withdraw(op, r) ==
  LET forms == MetasOf(op, r.acc)
  IN IF op \in WithdrawOps THEN WithContext(forms.base, SysvarMeta)
     ELSE forms.withSystemProgram \o <<SysvarMeta>>

Secp256r1Assets(op, r) ==
  IF op = "transferAssets" THEN MetasOf(op, r.acc).withSystemProgram \o <<SysvarMeta>>
  ELSE MetasOf(op, r.acc).base \o <<SysvarMeta>> \o
       (IF op = "closeTokenAccount" THEN TokenMetas(r.acc) ELSE <<>>)

Secp256r1Locks(op, r) == MetasOf(op, r.acc).base \o <<SysvarMeta>>

Secp256r1Metas(op, r) ==
  CASE op \in ManageOps -> Secp256r1Manage(op, r)
    [] op \in {"signV1", "signV2"} -> Secp256r1Sign(op, r)
    [] op \in {"createSession", "subAccountCreate", "subAccountSign"} ->
         Secp256r1SubAccount(op, r)
    [] op \in WithdrawOps \cup {"subAccountToggle"} -> Secp256r1Withdraw(op, r)
    [] op \in CloseOps \cup {"transferAssets"} -> Secp256r1Assets(op, r)
    [] op \in LockOps -> Secp256r1Locks(op, r)

Secp256r1Start(op, r) ==
  LET metas == Secp256r1Metas(op, r)
  IN Start(metas, SysvarIndex(metas),
           IF op = "closeTokenAccount" THEN Len(MetasOf(op, r.acc).base) + 1 ELSE NoIndex)

-----------------------------------------------------------------------------
(* ProgramExecInstruction: the instruction before is the proof.  The       *)
(* sysvar follows the base metas, for the withdrawals as well.             *)
ProgramExecManage(op, r) ==
  LET base == MetasOf(op, r.acc).base
  IN Start(Append(base, SysvarMeta), Len(base), NoIndex)

ProgramExecSign(op, r) ==
  LET base == MetasOf(op, r.acc).base
  IN Start(Append(base, SysvarMeta), Len(base), NoIndex)

ProgramExecSubAccount(op, r) ==
  LET base == MetasOf(op, r.acc).base
  IN Start(Append(base, SysvarMeta), Len(base), NoIndex)

ProgramExecAssets(op, r) ==
  LET base == MetasOf(op, r.acc).base
      proved == Append(base, SysvarMeta)
  IN IF op = "closeTokenAccount"
     THEN Start(proved \o TokenMetas(r.acc), Len(base), Len(base) + 1)
     ELSE Start(proved, Len(base), NoIndex)

ProgramExecStart(op, r) ==
  CASE op \in ManageOps -> ProgramExecManage(op, r)
    [] op \in {"signV1", "signV2", "createSession"} -> ProgramExecSign(op, r)
    [] op \in WithdrawOps \cup {"subAccountCreate", "subAccountSign", "subAccountToggle"} ->
         ProgramExecSubAccount(op, r)
    [] op \in CloseOps \cup LockOps \cup {"transferAssets"} -> ProgramExecAssets(op, r)

(* The account that the preceding instruction has to name besides swig.    *)
ProvedWith(op, a) ==
  CASE op \in {"signV2"} \cup LockOps -> a.wallet
    [] op = "subAccountSign" -> a.sub
    [] op \in CloseOps -> a.destination
    [] OTHER -> a.payer

(* validateAndGetPreInstructions *)
ValidPreInstructions(op, r) ==
  /\ Len(r.opts.pre) = 1
  /\ r.opts.pre[1].program = ExecProgram
  /\ r.opts.pre[1].kind = "prefixed"
  /\ {r.acc.swig, ProvedWith(op, r.acc)} \subseteq
       {r.opts.pre[1].accounts[i].key : i \in DOMAIN r.opts.pre[1].accounts}

-----------------------------------------------------------------------------
StartOf(object, op, r) ==
  CASE object = "Ed25519" -> Ed25519Start(op, r)
    [] object = "Secp256k1" -> Secp256k1Start(op, r)
    [] object = "Secp256r1" -> Secp256r1Start(op, r)
    [] object = "ProgramExec" -> ProgramExecStart(op, r)

(* The other PDAs that compactInstructions is given, and swig.             *)
PdasOf(op, a) ==
  CASE op = "signV2" -> {a.swig, a.wallet}
    [] op = "subAccountSign" -> {a.swig, a.sub}
    [] OTHER -> {a.swig}

(* Only the secp forms of signV2 mark the fee payer as a signer before     *)
(* they sign: the first meta with its key.                                 *)
MarksPayer(object, op, opts) ==
  object \in SecpObjects /\ op = "signV2" /\ opts.payer # NoAddress

BugWithPayerMarked(metas, payer) == metas

WithPayerMarked(metas, payer) ==
  [i \in DOMAIN metas |->
     IF metas[i].key = payer /\ \A j \in 1..(i - 1) : metas[j].key # payer
     THEN [metas[i] EXCEPT !.signer = TRUE] ELSE metas[i]]

(* The instructions before and after the swig instruction.                 *)
PreOf(object, op, opts) ==
  CASE object = "ProgramExec" -> opts.pre
    [] object = "Secp256r1" -> (IF op \in LockOps THEN opts.pre ELSE <<>>) \o <<SigVerify>>
    [] OTHER -> IF op \in LockOps THEN opts.pre ELSE <<>>

PostOf(object, op, opts) ==
  IF object = "ProgramExec" \/ op \in LockOps THEN opts.post ELSE <<>>

(* Slot, counter and signature, or slot, counter, index and padding; the   *)
(* prefix of a wallet's message comes after either.                        *)
PrefixSize == 26
PayloadSize(object, opts) ==
  (IF object = "Secp256k1" THEN 77 ELSE 17) + (IF opts.prefix THEN PrefixSize ELSE 0)

(* removeAuthority signs the length of its payload too, as a constant.     *)
DeclaredSize(object, op) ==
  IF op # "removeAuthority" THEN NoIndex
  ELSE IF object = "Secp256k1" THEN 77 ELSE 17
=============================================================================
