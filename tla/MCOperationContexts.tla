------------------------- MODULE MCOperationContexts -------------------------
(* Two roles of one wallet, and the calls that differ in what they build.  *)
EXTENDS OperationContexts

CONSTANTS swig, wallet, sub1, sub2, own, session, payer, dest, ata, stray, claimer,
          token, token22, system, sysvar, rent, exec, other, r1verify, mint, r1, r2

MCAddress ==
  {swig, wallet, sub1, sub2, own, session, payer, dest, ata, stray, claimer,
   token, token22, system, sysvar, rent, exec, other, r1verify, mint}

MCSubAccount == [r \in {r1, r2} |-> IF r = r1 THEN sub1 ELSE sub2]

MCAssociatedToken ==
  [p \in MCAddress \X MCAddress |-> IF p[2] \in {token, token22} THEN ata ELSE stray]

-----------------------------------------------------------------------------
Ix(program, kind, accounts) == [program |-> program, kind |-> kind, accounts |-> accounts]
Transfer(from, to) == Ix(system, "transfer", <<WritableSigner(from), Writable(to)>>)

(* Inner instructions of the address p that the wallet spends from.        *)
Inner(p) ==
  {Transfer(p, ata), Transfer(p, payer),
   Ix(token, "syncNative", <<Writable(ata), Readonly(dest)>>),
   Ix(exec, "other", <<ReadonlySigner(payer), WritableSigner(p)>>),
   Ix(token, "other", <<Readonly(rent), Readonly(ata), Readonly(sysvar)>>),
   Ix(other, "other", <<ReadonlySigner(own), Readonly(dest), Readonly(other), Writable(dest)>>)}

Spender(call, version) ==
  CASE call = "signWithSubAccount" -> sub1
    [] OTHER -> IF version = "v2" THEN wallet ELSE swig

TypicalArgs ==
  [subRole |-> NoRole, rentClaimer |-> Default, destination |-> dest,
   tokenProgram |-> token, tokens |-> <<ata>>, asset |-> ata, mint |-> mint]

TypicalOpts ==
  [payer |-> payer, signs |-> TRUE, prefix |-> FALSE, odometer |-> NoOdometer,
   pre |-> <<>>, post |-> <<>>]

Proof(accounts) == Ix(exec, "prefixed", [i \in DOMAIN accounts |-> Readonly(accounts[i])])

Request(class, call, version, inner, args, opts, fee, seen, chain) ==
  [class |-> class, call |-> call, version |-> version, role |-> r1, inner |-> inner,
   args |-> args, opts |-> opts, feePayer |-> fee, seen |-> seen, chain |-> chain]

(* Signatures of pairs of inner instructions, and of single ones with less *)
(* usual options.                                                          *)
PreOfClass(class) ==
  IF class \in {"ProgramExec", "ProgramExecSession"}
  THEN {<<Proof(<<swig, wallet, sub1, payer, dest>>)>>} ELSE {<<>>}

Signatures ==
  UNION {UNION {
    {Request(c, call, v, inner, TypicalArgs, [TypicalOpts EXCEPT !.pre = pre], payer, 0, 0) :
       inner \in IF c \in TokenClasses
                 THEN UNION {[1..n -> Inner(Spender(call, v))] : n \in 0..2}
                 ELSE {<<i>> : i \in Inner(Spender(call, v))},
       pre \in PreOfClass(c)} :
      call \in {"sign", "signWithSubAccount"}, v \in {"v1", "v2"}} : c \in Classes}

LongSignatures ==
  {Request("Ed25519", "sign", "v2", inner, TypicalArgs, TypicalOpts, payer, 0, 0) :
     inner \in [1..3 -> Inner(wallet)]}

OddSignatures ==
  {Request(c, "sign", "v2", <<i>>, TypicalArgs,
           [TypicalOpts EXCEPT !.payer = p, !.signs = s, !.odometer = o], fee, 0, chain) :
     c \in Classes, i \in Inner(wallet), p \in {payer, NoAddress}, s \in BOOLEAN,
     o \in {NoOdometer, 2}, fee \in {payer, own}, chain \in {0, 1}}

(* A program that is an account of its own instruction, with more rights.  *)
WritablePrograms ==
  {Request(c, "sign", "v2", <<Ix(other, "other", accounts)>>, TypicalArgs,
           TypicalOpts, payer, 0, 0) :
     c \in {"Ed25519", "Secp256k1", "Secp256r1"}, accounts \in {<<Writable(other)>>, <<>>}}

(* The other calls, with the arguments and options each of them reads.     *)
ArgsOf(call) ==
  CASE call \in {"closeSwig", "closeTokenAccount"} ->
         {[TypicalArgs EXCEPT !.destination = d] : d \in {dest, payer}}
    [] call \in WithdrawOps \cup {"subAccountToggle"} ->
         {[TypicalArgs EXCEPT !.subRole = s, !.tokenProgram = t] :
            s \in {NoRole, r2}, t \in {token, token22}}
    [] call = "addAuthorizationLock" ->
         {TypicalArgs, [TypicalArgs EXCEPT !.asset = wallet, !.mint = NoAddress]}
    [] call = "removeAuthorizationLock" ->
         {[TypicalArgs EXCEPT !.rentClaimer = c] : c \in {Default, NoAddress, payer}}
    [] OTHER -> {TypicalArgs}

Before(class, call) ==
  (IF class \in {"ProgramExec", "ProgramExecSession"}
   THEN {<<>>, <<Proof(<<swig, payer, dest, wallet>>)>>, <<Proof(<<swig, mint>>)>>,
         <<Ix(exec, "other", <<Readonly(swig), Readonly(payer)>>)>>}
   ELSE {<<>>}) \cup
  (IF call \in LockOps THEN {<<Ix(other, "other", <<Writable(wallet)>>)>>} ELSE {})

After(call) ==
  {<<>>} \cup IF call \in LockOps THEN {<<Ix(other, "other", <<Writable(wallet)>>)>>} ELSE {}

OptsOf(class, call) ==
  {[TypicalOpts EXCEPT !.payer = p, !.prefix = x, !.odometer = o, !.pre = pre, !.post = post] :
     p \in {payer, NoAddress}, x \in BOOLEAN, o \in {NoOdometer, 2},
     pre \in Before(class, call), post \in After(call)}

OtherCalls ==
  UNION {UNION {
    {Request(c, call, "v2", <<>>, args, opts, payer, 0, chain) :
       args \in ArgsOf(call), opts \in OptsOf(c, call), chain \in {0, 1}} :
      call \in Calls \ {"sign", "signWithSubAccount"}} : c \in Classes}

MCRequests == {r : r \in Signatures \cup LongSignatures \cup OddSignatures \cup WritablePrograms \cup
                   OtherCalls}
=============================================================================
