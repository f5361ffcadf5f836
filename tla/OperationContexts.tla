-------------------------- MODULE OperationContexts --------------------------
(***************************************************************************)
(* One call of the Swig object's instruction contexts, from its arguments  *)
(* to the verdict of the chain: swig/index.ts resolves the payer and the   *)
(* accounts, the authority class picks an instruction object, the inner    *)
(* instructions are compacted one account at a time, the signer signs what *)
(* was compacted, and the context is sent in a transaction.                *)
(*                                                                         *)
(* A request r is what the caller gives: its class, the call, the version  *)
(* of the swig account, the role, the arguments r.args, the instructions   *)
(* r.inner, the options r.opts, the counter of the snapshot r.seen and the *)
(* fee payer of the transaction.                                           *)
(***************************************************************************)
EXTENDS AuthorityContexts

CONSTANTS
  Requests,             \* the calls considered
  Role, NoRole,
  Swig, Wallet,         \* the two addresses of the wallet
  SubAccount,           \* the sub-account of a role
  Own, Session,         \* the key of the authority, and of its session
  StoredClaimer, Default

VARIABLES
  phase, req, start, metas, index, programAt, accts, ixs, unbalanced, ctx

vars == <<phase, req, start, metas, index, programAt, accts, ixs, unbalanced, ctx>>

ASSUME AccountsAssumption ==
  /\ {Swig, Wallet, Own, Session} \subseteq Address
  /\ SubAccount \in [Role -> Address] /\ NoRole \notin Role
  /\ StoredClaimer \in Address \cup {NoAddress}
  /\ Default \notin Address \cup {NoAddress}

Phases == {"idle", "compact", "built", "refused", "accepted", "rejected"}
None == [none |-> TRUE]

(* The calls of swig/index.ts: the operations, with one call for the three *)
(* forms of a signature.                                                   *)
Calls == (Ops \ SignOps) \cup {"sign", "signWithSubAccount"}

Arguments ==
  [subRole : Role \cup {NoRole}, rentClaimer : Address \cup {NoAddress, Default},
   destination : Address, tokenProgram : Address, tokens : Seq(Address),
   asset : Address, mint : Address \cup {NoAddress}]

Options ==
  [payer : Address \cup {NoAddress}, signs : BOOLEAN, prefix : BOOLEAN,
   odometer : Nat \cup {NoOdometer}, pre : Seq(Instruction), post : Seq(Instruction)]

ASSUME RequestsAssumption ==
  \A r \in Requests :
    /\ r.class \in Classes /\ r.call \in Calls /\ r.version \in {"v1", "v2"}
    /\ r.role \in Role /\ r.args \in Arguments /\ r.opts \in Options
    /\ r.inner \in Seq(Instruction)
    /\ r.seen \in Nat /\ r.chain \in Nat /\ r.feePayer \in Address

-----------------------------------------------------------------------------
(* assertInstructionOptions: the options' payer, or the authority when it  *)
(* is a key that can sign; none is an error.                               *)
UseSigner(call) == call \in {"sign", "signWithSubAccount"} \cup LockOps

PayerOf(r) ==
  IF r.opts.payer # NoAddress THEN r.opts.payer
  ELSE IF UseSigner(r.call) /\ r.class \in SessionClasses THEN Session
  ELSE IF r.class = "Ed25519" \/ (r.class = "Ed25519Session" /\ ~UseSigner(r.call)) THEN Own
  ELSE NoAddress

OperationOf(r) ==
  CASE r.call = "signWithSubAccount" -> "subAccountSign"
    [] r.call = "sign" -> IF r.version = "v2" THEN "signV2" ELSE "signV1"
    [] OTHER -> r.call

(* Toggling and withdrawing may name the sub-account of another role.      *)
SubRole(r) ==
  IF r.args.subRole # NoRole /\ OperationOf(r) \in WithdrawOps \cup {"subAccountToggle"}
  THEN r.args.subRole ELSE r.role

RentClaimer(r) ==
  IF r.args.rentClaimer = Default THEN StoredClaimer ELSE r.args.rentClaimer

AccountsOf(r) ==
  [swig |-> Swig, wallet |-> Wallet, payer |-> PayerOf(r), sub |-> SubAccount[SubRole(r)],
   destination |-> r.args.destination, tokenProgram |-> r.args.tokenProgram,
   subToken |-> AssociatedToken[<<SubAccount[SubRole(r)], r.args.tokenProgram>>],
   swigToken |-> AssociatedToken[<<Wallet, r.args.tokenProgram>>],
   tokens |-> r.args.tokens, asset |-> r.args.asset, mint |-> r.args.mint,
   rentClaimer |-> RentClaimer(r)]

TheCall(r) == CallOf(r.class, OperationOf(r), AccountsOf(r))

(* What the instruction object is given. *)
Handed(r) ==
  [acc |-> TheCall(r).acc, opts |-> r.opts, inner |-> r.inner,
   authority |-> IF TheCall(r).key = "session" THEN Session ELSE Own]

CounterOf(r) ==
  CASE TheCall(r).counter = "none" -> NoOdometer
    [] TheCall(r).counter = "preset" /\ r.opts.odometer # NoOdometer -> r.opts.odometer
    [] OTHER -> r.seen + 1

(* The calls that throw before anything is built.                          *)
Refused(r) ==
  \/ PayerOf(r) = NoAddress
  \/ r.call = "createSession" /\ r.class \notin SessionClasses
  \/ TheCall(r).object = "Ed25519" /\ TheCall(r).key = "record"
  \/ TheCall(r).object \in SecpObjects /\ ~r.opts.signs
  \/ TheCall(r).object = "ProgramExec" /\ ~ValidPreInstructions(OperationOf(r), Handed(r))

-----------------------------------------------------------------------------
(* compactInstructions.  A SyncNative keeps its first account only.        *)
IsSyncNative(ix) == ix.program = TokenProgram /\ ix.kind = "syncNative"
IsTransfer(ix) == ix.program = SystemProgram /\ ix.kind = "transfer"

Sanitized(ix) ==
  IF IsSyncNative(ix) /\ Len(ix.accounts) > 0
  THEN [ix EXCEPT !.accounts = SubSeq(ix.accounts, 1, 1)] ELSE ix

BugLastIndex(ms) ==
  [k \in Address |->
     IF \E i \in DOMAIN ms : ms[i].key = k
     THEN CHOOSE i \in DOMAIN ms : ms[i].key = k ELSE NoIndex]

(* The map is built from the metas at hand: the last position of a key.    *)
LastIndex(ms) ==
  [k \in Address |->
     IF \E i \in DOMAIN ms : ms[i].key = k
     THEN (CHOOSE i \in DOMAIN ms :
             ms[i].key = k /\ \A j \in DOMAIN ms : j > i => ms[j].key # k) - 1
     ELSE NoIndex]

Pdas == PdasOf(OperationOf(req), TheCall(req).acc)
BugAsNamed(m) == m
AsNamed(m) == IF m.key \in Pdas THEN [m EXCEPT !.signer = FALSE] ELSE m

Compacts == OperationOf(req) \in SignOps
Current == Sanitized(req.inner[Len(ixs) + 1])
NextMeta == AsNamed(Current.accounts[Len(accts) + 1])

Init ==
  /\ phase = "idle" /\ req = None /\ start = None
  /\ metas = <<>> /\ index = LastIndex(<<>>)
  /\ programAt = NoIndex /\ accts = <<>> /\ ixs = <<>> /\ unbalanced = FALSE
  /\ ctx = None

(* A call is made: it is refused, or begins with the metas of its file.    *)
Begin ==
  /\ phase = "idle"
  /\ \E r \in Requests :
       /\ req' = r
       /\ IF Refused(r)
          THEN phase' = "refused" /\ UNCHANGED <<start, metas, index>>
          ELSE LET s == StartOf(TheCall(r).object, OperationOf(r), Handed(r))
               IN /\ phase' = "compact"
                  /\ start' = s
                  /\ metas' = s.metas
                  /\ index' = LastIndex(s.metas)
  /\ UNCHANGED <<programAt, accts, ixs, unbalanced, ctx>>

(* The program of the next instruction always gets an entry of its own,    *)
(* which the map does not know.                                            *)
OpenInner ==
  /\ phase = "compact" /\ Compacts
  /\ programAt = NoIndex /\ Len(ixs) < Len(req.inner)
  /\ programAt' = Len(metas)
  /\ metas' = Append(metas, Readonly(Current.program))
  /\ accts' = <<>>
  /\ UNCHANGED <<phase, req, start, index, ixs, unbalanced, ctx>>

Naming == phase = "compact" /\ programAt # NoIndex /\ Len(accts) < Len(Current.accounts)

BugReuseAccount ==
  /\ Naming /\ index[NextMeta.key] # NoIndex
  /\ accts' = Append(accts, index[NextMeta.key])
  /\ UNCHANGED <<phase, req, start, metas, index, programAt, ixs, unbalanced, ctx>>

BugReusedRights ==
  /\ Naming /\ index[NextMeta.key] # NoIndex
  /\ metas' = [metas EXCEPT ![index[NextMeta.key] + 1] = NextMeta]
  /\ accts' = Append(accts, index[NextMeta.key])
  /\ UNCHANGED <<phase, req, start, index, programAt, ixs, unbalanced, ctx>>

(* An account that is there already is given the rights asked for.         *)
ReuseAccount ==
  /\ Naming /\ index[NextMeta.key] # NoIndex
  /\ LET i == index[NextMeta.key]
     IN /\ metas' = [metas EXCEPT
                       ![i + 1].writable = @ \/ NextMeta.writable,
                       ![i + 1].signer = @ \/ NextMeta.signer]
        /\ accts' = Append(accts, i)
  /\ UNCHANGED <<phase, req, start, index, programAt, ixs, unbalanced, ctx>>

AddAccount ==
  /\ Naming /\ index[NextMeta.key] = NoIndex
  /\ index' = [index EXCEPT ![NextMeta.key] = Len(metas)]
  /\ metas' = Append(metas, NextMeta)
  /\ accts' = Append(accts, Len(metas))
  /\ UNCHANGED <<phase, req, start, programAt, ixs, unbalanced, ctx>>

(* After a transfer the next instruction names the swig account as well,   *)
(* and a SyncNative the rent sysvar before it.                             *)
NeedsRent == unbalanced /\ IsSyncNative(Current)
BugAddsRent == FALSE
AddsRent == NeedsRent /\ index[RentSysvar] = NoIndex
RentIndex == IF AddsRent THEN Len(metas) ELSE index[RentSysvar]
SwigIndex == IF index[Swig] # NoIndex THEN index[Swig] ELSE 0

BugBalancing ==
  (IF unbalanced THEN <<SwigIndex>> ELSE <<>>) \o
  (IF NeedsRent THEN <<RentIndex>> ELSE <<>>)

Balancing ==
  (IF NeedsRent THEN <<RentIndex>> ELSE <<>>) \o
  (IF unbalanced THEN <<SwigIndex>> ELSE <<>>)

CloseInner ==
  /\ phase = "compact" /\ programAt # NoIndex /\ Len(accts) = Len(Current.accounts)
  /\ IF AddsRent
     THEN /\ metas' = Append(metas, Readonly(RentSysvar))
          /\ index' = [index EXCEPT ![RentSysvar] = Len(metas)]
     ELSE UNCHANGED <<metas, index>>
  /\ ixs' = Append(ixs, [program |-> programAt, accounts |-> accts \o Balancing])
  /\ unbalanced' = IsTransfer(Current)
  /\ programAt' = NoIndex
  /\ accts' = <<>>
  /\ UNCHANGED <<phase, req, start, ctx>>

-----------------------------------------------------------------------------
(* The signer may fail, or the context is made: what was signed, the       *)
(* payload and the instructions that travel with it.                       *)
Compacted == ~Compacts \/ (programAt = NoIndex /\ Len(ixs) = Len(req.inner))

SignerFails ==
  /\ phase = "compact" /\ Compacted
  /\ TheCall(req).object \in SecpObjects
  /\ phase' = "refused"
  /\ UNCHANGED <<req, start, metas, index, programAt, accts, ixs, unbalanced, ctx>>

FinalMetas ==
  IF MarksPayer(TheCall(req).object, OperationOf(req), req.opts)
  THEN WithPayerMarked(metas, req.opts.payer) ELSE metas

Seal ==
  /\ phase = "compact" /\ Compacted
  /\ phase' = "built"
  /\ metas' = FinalMetas
  /\ ctx' = [pre |-> PreOf(TheCall(req).object, OperationOf(req), req.opts),
             post |-> PostOf(TheCall(req).object, OperationOf(req), req.opts),
             payload |-> PayloadSize(TheCall(req).object, req.opts),
             declared |-> DeclaredSize(TheCall(req).object, OperationOf(req)),
             counter |-> CounterOf(req)]
  /\ UNCHANGED <<req, start, index, programAt, accts, ixs, unbalanced>>

-----------------------------------------------------------------------------
(* The transaction: getWeb3Instructions, in their order.  Its message has  *)
(* one set of rights for each key, whatever instruction asked for them.    *)
AllMetas == (UNION {{ix.accounts[i] : i \in DOMAIN ix.accounts} :
                      ix \in {ctx.pre[i] : i \in DOMAIN ctx.pre} \cup
                             {ctx.post[i] : i \in DOMAIN ctx.post}})
            \cup {metas[i] : i \in DOMAIN metas}
            \cup {WritableSigner(req.feePayer)}

Seen(m) ==
  [key |-> m.key,
   signer |-> \E n \in AllMetas : n.key = m.key /\ n.signer,
   writable |-> \E n \in AllMetas : n.key = m.key /\ n.writable]

(* The positions the program reads its accounts from, but for the one of   *)
(* the authority's context.                                                *)
Layout ==
  LET base == MetasOf(OperationOf(req), AccountsOf(req)).base
  IN IF OperationOf(req) \in WithdrawOps THEN WithContext(base, Readonly(SystemProgram))
     ELSE base

RightAccounts ==
  /\ Len(metas) >= Len(Layout)
  /\ \A i \in DOMAIN Layout : metas[i].key # Layout[i].key =>
       OperationOf(req) \in WithdrawOps /\ i = ContextIndex + 1

PointsAt(key) ==
  /\ start.points \in 0..(Len(metas) - 1)
  /\ metas[start.points + 1].key = key

(* What a secp authority signed is what the program hashes: the rights of  *)
(* the accounts, the next counter, the length of the payload.              *)
SignedAsSeen ==
  /\ \A i \in DOMAIN metas : Seen(metas[i]) = metas[i]
  /\ ctx.counter = req.chain + 1
  /\ ctx.declared \in {NoIndex, ctx.payload}

Authorized ==
  CASE TheCall(req).object = "Ed25519" ->
         PointsAt(Handed(req).authority) /\ Seen(metas[start.points + 1]).signer
    [] TheCall(req).object = "Secp256k1" -> SignedAsSeen
    [] TheCall(req).object = "Secp256r1" ->
         /\ SignedAsSeen /\ PointsAt(InstructionsSysvar)
         /\ \E i \in DOMAIN ctx.pre : ctx.pre[i] = SigVerify
    [] TheCall(req).object = "ProgramExec" ->
         /\ PointsAt(InstructionsSysvar)
         /\ Len(ctx.pre) > 0
         /\ ctx.pre[Len(ctx.pre)].program = ExecProgram
         /\ ctx.pre[Len(ctx.pre)].kind = "prefixed"

Send ==
  /\ phase = "built"
  /\ phase' = IF Authorized /\ RightAccounts THEN "accepted" ELSE "rejected"
  /\ UNCHANGED <<req, start, metas, index, programAt, accts, ixs, unbalanced, ctx>>

(* The next call starts afresh. *)
Return ==
  /\ phase \in {"refused", "accepted", "rejected"}
  /\ phase' = "idle" /\ req' = None /\ start' = None
  /\ metas' = <<>> /\ index' = LastIndex(<<>>)
  /\ programAt' = NoIndex /\ accts' = <<>> /\ ixs' = <<>> /\ unbalanced' = FALSE
  /\ ctx' = None

Next ==
  \/ Begin \/ OpenInner \/ ReuseAccount \/ AddAccount \/ CloseInner
  \/ SignerFails \/ Seal \/ Send \/ Return

Spec == Init /\ [][Next]_vars

-----------------------------------------------------------------------------
(* A call is idle, being built, or has the outcome its phase names; what   *)
(* it has built so far are metas, indices and the opened instruction.      *)
TypeOK ==
  /\ phase \in Phases
  /\ phase # "idle" => req.class \in Classes
  /\ metas \in Seq(Meta)
  /\ index \in [Address -> Nat \cup {NoIndex}]
  /\ programAt \in Nat \cup {NoIndex}
  /\ accts \in Seq(Nat)
  /\ ixs \in Seq([program : Nat, accounts : Seq(Nat)])
  /\ unbalanced \in BOOLEAN

(* The map of compactInstructions and the list it is about never part: an  *)
(* index in the map is the position of a meta with that key, and the       *)
(* indices collected so far, in finished and unfinished instructions, are  *)
(* positions of the list.                                                  *)
CompactionInv ==
  /\ \A k \in Address : index[k] # NoIndex =>
       index[k] \in 0..(Len(metas) - 1) /\ metas[index[k] + 1].key = k
  /\ programAt # NoIndex => programAt \in 0..(Len(metas) - 1)
  /\ \A i \in DOMAIN accts : accts[i] \in 0..(Len(metas) - 1)
  /\ \A n \in DOMAIN ixs :
       /\ ixs[n].program \in 0..(Len(metas) - 1)
       /\ \A i \in DOMAIN ixs[n].accounts : ixs[n].accounts[i] \in 0..(Len(metas) - 1)

Decodes(ix, compact) ==
  /\ metas[compact.program + 1].key = ix.program
  /\ Len(compact.accounts) >= Len(ix.accounts)
  /\ \A i \in DOMAIN ix.accounts :
       LET m == metas[compact.accounts[i] + 1]
       IN /\ m.key = ix.accounts[i].key
          /\ ix.accounts[i].writable => m.writable
          /\ ix.accounts[i].signer => m.signer \/ m.key \in Pdas

(* What the program decodes is what the caller asked for: every compact    *)
(* instruction calls the program asked, on the accounts asked, in their    *)
(* order, each with at least the rights asked; only the PDAs, for which    *)
(* the program signs itself, lose the signature.                           *)
CompactDecodes ==
  \A n \in DOMAIN ixs : Decodes(Sanitized(req.inner[n]), ixs[n])

Follows(n) == n > 1 /\ IsTransfer(req.inner[n - 1])

(* An instruction that follows a transfer ends with the swig account, so   *)
(* that the runtime can check its lamports, and a SyncNative has the rent  *)
(* sysvar next to the account it keeps; no other instruction has accounts  *)
(* that nobody asked for.                                                  *)
TransfersAreBalanced ==
  \A n \in DOMAIN ixs :
    LET asked == Len(Sanitized(req.inner[n]).accounts)
        all == Len(ixs[n].accounts)
        key(i) == metas[ixs[n].accounts[i] + 1].key
    IN IF ~Follows(n) THEN all = asked
       ELSE /\ all = asked + (IF IsSyncNative(req.inner[n]) THEN 2 ELSE 1)
            /\ key(all) = Swig
            /\ IsSyncNative(req.inner[n]) => key(asked + 1) = RentSysvar

Asked(k) == \E n \in DOMAIN req.inner : \E i \in DOMAIN req.inner[n].accounts :
              req.inner[n].accounts[i].key = k /\ req.inner[n].accounts[i].signer

(* Nobody signs who was not asked to: the signers of the swig instruction  *)
(* are the payer, the key that authorizes it and those an inner            *)
(* instruction asks for, and an inner instruction never makes a signer of  *)
(* an address of the wallet, for which no signature exists.                *)
SignersAreAsked ==
  \A i \in DOMAIN metas : metas[i].signer =>
    \/ metas[i].key \in {PayerOf(req), Handed(req).authority}
    \/ metas[i].key \notin Pdas /\ Asked(metas[i].key)

(* However many accounts the inner instructions add, the index in the      *)
(* authority payload is still that of the authority's signature or of the  *)
(* instructions sysvar.                                                    *)
PayloadNamesAuthority ==
  phase \in {"compact", "built"} =>
    CASE TheCall(req).object = "Ed25519" ->
           PointsAt(Handed(req).authority) /\ metas[start.points + 1].signer
      [] TheCall(req).object \in {"Secp256r1", "ProgramExec"} -> PointsAt(InstructionsSysvar)
      [] OTHER -> start.points = NoIndex

(* The rejections that are known: the counter is not the next one; a class *)
(* drops the counter it was given; removeAuthority declares a payload      *)
(* without the prefix; the fee payer, whom the runtime makes a writable    *)
(* signer, is named with fewer rights, which only signV2 mends, and only   *)
(* for the signature; the instructions around a lock raise rights; an      *)
(* address has two entries of different rights, as a program has that is   *)
(* an account as well, of which the transaction makes one; the token       *)
(* program, the wallet or the order of the accounts is not right.          *)
Intended == IF req.opts.odometer # NoOdometer THEN req.opts.odometer ELSE req.seen + 1
BySecp == TheCall(req).object \in SecpObjects

WrongCounter ==
  \/ Intended # req.chain + 1
  \/ TheCall(req).counter = "own" /\ req.opts.odometer # NoOdometer

ShortDeclaration == OperationOf(req) = "removeAuthority" /\ req.opts.prefix

LesserPayer ==
  \E i \in DOMAIN metas :
    /\ metas[i].key = req.feePayer
    /\ \/ ~metas[i].writable
       \/ ~metas[i].signer /\ ~(OperationOf(req) = "signV2" /\ req.opts.payer = req.feePayer)

RaisedAround ==
  OperationOf(req) \in LockOps /\ (req.opts.pre # <<>> \/ req.opts.post # <<>>)

TwoEntries ==
  \E i \in DOMAIN metas : \E j \in DOMAIN metas :
    metas[i].key = metas[j].key /\ metas[i] # metas[j]

Misnamed ==
  \/ OperationOf(req) = "subAccountWithdrawToken"
  \/ OperationOf(req) = "transferAssets" /\ TheCall(req).object = "Secp256k1"
  \/ OperationOf(req) \in WithdrawOps /\ TheCall(req).object = "ProgramExec"

(* End to end: a call that was built and sent is accepted by the chain but *)
(* for the known rejections.                                               *)
BuiltIsAccepted ==
  phase = "rejected" =>
    \/ Misnamed
    \/ BySecp /\ (WrongCounter \/ ShortDeclaration \/ LesserPayer \/ RaisedAround \/ TwoEntries)

RightsStay ==
  /\ Len(metas') >= Len(metas)
  /\ \A i \in DOMAIN metas :
       /\ metas'[i].key = metas[i].key
       /\ metas[i].signer => metas'[i].signer
       /\ metas[i].writable => metas'[i].writable

(* What the authority was shown stays: while inner instructions are added, *)
(* no meta moves, changes its key or loses a right.                        *)
MetasOnlyGrow == [][(phase \in {"compact", "built"}) => RightsStay]_vars
=============================================================================
