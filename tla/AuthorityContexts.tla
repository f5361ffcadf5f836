-------------------------- MODULE AuthorityContexts --------------------------
(***************************************************************************)
(* The eight authority classes of lib/src/authority.  A method of a class  *)
(* hands its call to an instruction object: the object, the key it passes  *)
(* as authorityData, the counter it passes and the accounts.  The key is   *)
(* the authority's own, its session key, or the whole record the class was *)
(* built from.  The counter is the caller's odometer or, when none is      *)
(* given, the next of the record ("preset"), always the record's ("own"),  *)
(* or none at all.                                                         *)
(***************************************************************************)
EXTENDS AuthorityInstructions

CONSTANT AssociatedToken    \* the token account of an owner under a program

ASSUME AssociatedTokenAssumption ==
  AssociatedToken \in [Address \X Address -> Address]

TokenClasses == {"Ed25519", "Secp256k1", "Secp256r1", "ProgramExec"}
SessionClasses ==
  {"Ed25519Session", "Secp256k1Session", "Secp256r1Session", "ProgramExecSession"}
Classes == TokenClasses \cup SessionClasses

Call(object, key, counter, a) ==
  [object |-> object, key |-> key, counter |-> counter, acc |-> a]

Ed25519Own(a) == Call("Ed25519", "own", "none", a)
BySession(a) == Call("Ed25519", "session", "none", a)
Counted(object, a) == Call(object, "own", "preset", a)
Recounted(object, a) == Call(object, "own", "own", a)
Proved(a) == Call("ProgramExec", "own", "none", a)

(* subAccountWithdrawToken of every class takes the address of the sub     *)
(* account for the token program, and derives both token accounts from it. *)
WithTokenProgram(a, program) ==
  [a EXCEPT !.tokenProgram = program,
            !.subToken = AssociatedToken[<<a.sub, program>>],
            !.swigToken = AssociatedToken[<<a.wallet, program>>]]

Withdrawn(op, a) ==
  IF op = "subAccountWithdrawToken" THEN WithTokenProgram(a, a.sub) ELSE a

(* transferAssets of the secp256k1 classes names swig for its wallet.      *)
SwigForWallet(op, a) ==
  IF op = "transferAssets" THEN [a EXCEPT !.wallet = a.swig] ELSE a

SubAccountOps == WithdrawOps \cup {"subAccountCreate", "subAccountSign", "subAccountToggle"}
AssetOps == CloseOps \cup LockOps \cup {"transferAssets"}
SessionSigned == SignOps \cup CloseOps \cup LockOps

-----------------------------------------------------------------------------
(* Ed25519Authority *)
Ed25519Roles(op, a) == Ed25519Own(a)

Ed25519SubAccounts(op, a) == Ed25519Own(Withdrawn(op, a))

Ed25519AssetCalls(op, a) == Ed25519Own(a)

(* Ed25519SessionAuthority passes its record of 80 bytes where a key is due *)
(* for all that its session key does not sign, but for createSession.      *)
ByRecord(a) == Call("Ed25519", "record", "none", a)

Ed25519SessionRoles(op, a) ==
  IF op \in SessionSigned THEN BySession(a)
  ELSE IF op = "createSession" THEN Ed25519Own(a) ELSE ByRecord(a)

Ed25519SessionSubAccounts(op, a) ==
  IF op \in SessionSigned THEN BySession(a) ELSE ByRecord(Withdrawn(op, a))

Ed25519SessionAssetCalls(op, a) ==
  IF op \in SessionSigned THEN BySession(a) ELSE ByRecord(a)

-----------------------------------------------------------------------------
(* Secp256k1Authority and Secp256k1SessionAuthority *)
Secp256k1Roles(op, a) == Counted("Secp256k1", a)

Secp256k1SubAccounts(op, a) == Counted("Secp256k1", Withdrawn(op, a))

Secp256k1AssetCalls(op, a) == Counted("Secp256k1", SwigForWallet(op, a))

Secp256k1SessionRoles(op, a) ==
  IF op \in SessionSigned THEN BySession(a) ELSE Counted("Secp256k1", a)

Secp256k1SessionSubAccounts(op, a) ==
  IF op \in SessionSigned THEN BySession(a) ELSE Counted("Secp256k1", Withdrawn(op, a))

Secp256k1SessionAssetCalls(op, a) ==
  IF op \in SessionSigned THEN BySession(a)
  ELSE Counted("Secp256k1", SwigForWallet(op, a))

-----------------------------------------------------------------------------
(* Secp256r1Authority and Secp256r1SessionAuthority.  Three methods prefer *)
(* the counter of the record to the one they are given.                    *)
Secp256r1Roles(op, a) ==
  IF op \in {"removeAuthority", "updateAuthority"} THEN Recounted("Secp256r1", a)
  ELSE Counted("Secp256r1", a)

Secp256r1SubAccounts(op, a) == Counted("Secp256r1", Withdrawn(op, a))

Secp256r1AssetCalls(op, a) == Counted("Secp256r1", a)

Secp256r1SessionRoles(op, a) ==
  IF op \in SessionSigned THEN BySession(a) ELSE Counted("Secp256r1", a)

Secp256r1SessionSubAccounts(op, a) ==
  IF op \in SessionSigned THEN BySession(a)
  ELSE IF op = "subAccountCreate" THEN Recounted("Secp256r1", a)
  ELSE Counted("Secp256r1", Withdrawn(op, a))

Secp256r1SessionAssetCalls(op, a) ==
  IF op \in SessionSigned THEN BySession(a) ELSE Counted("Secp256r1", a)

-----------------------------------------------------------------------------
(* ProgramExecAuthority and ProgramExecSessionAuthority *)
ProgramExecRoles(op, a) == Proved(a)

ProgramExecSubAccounts(op, a) == Proved(Withdrawn(op, a))

ProgramExecAssetCalls(op, a) == Proved(a)

ProgramExecSessionRoles(op, a) ==
  IF op \in SessionSigned THEN BySession(a) ELSE Proved(a)

ProgramExecSessionSubAccounts(op, a) ==
  IF op \in SessionSigned THEN BySession(a) ELSE Proved(Withdrawn(op, a))

ProgramExecSessionAssetCalls(op, a) ==
  IF op \in SessionSigned THEN BySession(a) ELSE Proved(a)

-----------------------------------------------------------------------------
(* The method that a class has for an operation.                           *)
CallOf(class, op, a) ==
  CASE op \in SubAccountOps ->
         (CASE class = "Ed25519" -> Ed25519SubAccounts(op, a)
            [] class = "Ed25519Session" -> Ed25519SessionSubAccounts(op, a)
            [] class = "Secp256k1" -> Secp256k1SubAccounts(op, a)
            [] class = "Secp256k1Session" -> Secp256k1SessionSubAccounts(op, a)
            [] class = "Secp256r1" -> Secp256r1SubAccounts(op, a)
            [] class = "Secp256r1Session" -> Secp256r1SessionSubAccounts(op, a)
            [] class = "ProgramExec" -> ProgramExecSubAccounts(op, a)
            [] class = "ProgramExecSession" -> ProgramExecSessionSubAccounts(op, a))
    [] op \in AssetOps ->
         (CASE class = "Ed25519" -> Ed25519AssetCalls(op, a)
            [] class = "Ed25519Session" -> Ed25519SessionAssetCalls(op, a)
            [] class = "Secp256k1" -> Secp256k1AssetCalls(op, a)
            [] class = "Secp256k1Session" -> Secp256k1SessionAssetCalls(op, a)
            [] class = "Secp256r1" -> Secp256r1AssetCalls(op, a)
            [] class = "Secp256r1Session" -> Secp256r1SessionAssetCalls(op, a)
            [] class = "ProgramExec" -> ProgramExecAssetCalls(op, a)
            [] class = "ProgramExecSession" -> ProgramExecSessionAssetCalls(op, a))
    [] OTHER ->
         (CASE class = "Ed25519" -> Ed25519Roles(op, a)
            [] class = "Ed25519Session" -> Ed25519SessionRoles(op, a)
            [] class = "Secp256k1" -> Secp256k1Roles(op, a)
            [] class = "Secp256k1Session" -> Secp256k1SessionRoles(op, a)
            [] class = "Secp256r1" -> Secp256r1Roles(op, a)
            [] class = "Secp256r1Session" -> Secp256r1SessionRoles(op, a)
            [] class = "ProgramExec" -> ProgramExecRoles(op, a)
            [] class = "ProgramExecSession" -> ProgramExecSessionRoles(op, a))
=============================================================================
