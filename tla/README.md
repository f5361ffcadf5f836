# Swig SDK: specifications, model checking and proofs

Swig is a smart wallet: an on-chain account with several *roles*, each an
authority (a key or a program) with its own permissions. This repository holds
no on-chain program. It holds the SDKs that applications use to talk to one: a
Rust wallet, a TypeScript core library with two wrappers, a TypeScript coder,
and stateless EVM encoders. What is hard to get right in it is not computation
but *staleness*: every client keeps a copy of something the chain owns (a role
id, permissions, a replay counter, a list of locks), signs with that copy, and
finds out later, or never, what became of the signature.

The TLA+ modules here model those clients next to an abstract account and an
unreliable network; TLC checks them on small instances and TLAPS proves the main
invariants for every value of the constants.

## 1. Inventory

### Rust: `solana/rust/sdk/src`

| component | state | operations |
|---|---|---|
| `SwigWallet` (`wallet.rs`) | an instruction builder, `current_role` (cached permissions), fee payer, RPC client | `new`, `from_reservation`, `add_authority`, `remove_authority`, `update_authority`, `sign_v2`, the sub-account calls and their V2 forms, `create_session`, `set_rent_claimer`, `switch_authority`, `refresh_permissions`, read-only accessors |
| `SwigInstructionBuilder` (`instruction_builder.rs`) | `role_id`, the boxed client role, account addresses | one constructor of instructions per operation, `load_current_role`, `switch_authority`, `increment_odometer` |
| `ClientRole` and its seven implementations (`client_role.rs`) | a key or a signing function, and for secp authorities the `odometer` | one instruction constructor per operation, `odometer`, `increment_odometer`, `update_odometer` |
| `types.rs`, `utils.rs`, `error.rs` | none | conversions between `Permission` and on-chain actions, lookup helpers |

A wallet method signs with the *cached* odometer plus one, sends, waits, and on
success refreshes the cached permissions with a second read and advances the
cached odometer. Every RPC is a point where other handles move and where the
call can return early.

### TypeScript: `solana/typescript/packages`

| component | state | operations |
|---|---|---|
| `Swig` (`lib/src/swig/index.ts`) | one snapshot of the account | `refetch`, `findRole...`, the `get...InstructionContext` functions with `preFetch` |
| `batchSignTransactions` (`lib/src/swig/batch.ts`) | none; a sequential loop of awaits | signs a list of configs on one `Swig` |
| multi-authority builder (`lib/src/authority/ixs-builder.ts`) | its own counter, a list of promises | `addAuthority`, `getInstructionContexts` |
| authorities and their instructions (`lib/src/authority/**`) | the role's data in the snapshot | one context per operation; secp payloads carry a counter and a slot |
| tail and authorization locks (`lib/src/swig/tail.ts`) | none; reads the snapshot's tail | decoding and validation, active / prunable / reserved / available, the two lock contexts |
| actions and spend controllers (`lib/src/actions`, `authority/updateAuthorityAction.ts`) | none; reads the role's actions | permission queries, spend limits, an action builder, the four kinds of update |
| roles, account codecs, coder (`lib/src/role`, `coder/src`) | none | byte layouts, Huffman coding |
| compact instructions, instruction data (`lib/src/instructions`) | none; `compactInstructions` grows a list of accounts and a map of positions, account by account | the account metas of every instruction, compaction of inner instructions, byte encoders |
| reservations and addresses (`lib/src/reservation.ts`, `wallet.ts`) | none | address derivation, activation of a reserved address |
| `classic`, `kit` | none | conversions to and from web3.js / kit values |

### EVM: `evm/`

Stateless encoders of contract calls in TypeScript, Rust and Python.

### How they interact

* A Rust handle and the chain share nothing but the account: every handle has
  its own odometer and its own permissions, and several handles of one authority
  may be open at once.
* TypeScript callers share one `Swig` object. `refetch` overwrites its snapshot
  when an answer arrives; every `await` lets the other callers run.
* Contexts built by TypeScript are *given* to the caller, who sends them in any
  order, later or never.
* A context is made by four parts in turn: `swig/index.ts` resolves the payer and
  the accounts, a class of authority picks an instruction object, a key and a
  counter, the instruction object lays out the accounts and signs over them, and
  the transaction it travels in may raise the rights of any of them.
* Locks relate several roles of one account: what one role may spend depends on
  what the others have reserved.

### What is hard, and what makes each part correct

| part | hard behaviour | correct means |
|---|---|---|
| Rust wallet and client roles | lost answers and retries, several handles, a refresh that fails after the transaction landed, an id that is looked up before it is used, counters that some operations spend and others do not | a stale handle fails instead of executing twice; permissions are fresh after `Ok`; a removal removes the authority that was named; every call returns; the cached counter equals the chain's when nothing is in flight (it does not: section 5) |
| `Swig`, batches, builder | answers out of order, interleaved calls on one snapshot, a throw in the middle of a batch, signatures that resolve in any order | no signature that becomes valid later; at most one of a counted batch executes; what `preFetch` signs from is of a bounded age (it can be overtaken: section 5); a builder's order is kept |
| tail, locks | a snapshot of locks, a balance and a slot read at three moments, ids used late | every reachable tail decodes; what is offered for pruning can be pruned; a removal takes the lock that was seen; what is called available is accepted |
| actions, spend limits | several spellings of a limit, two vocabularies, updates from an old view | the answer agrees with what the program accepts, in windows that run and in windows that are over; reading and writing back loses what is named and no more; a removal takes what was meant |
| wallet opening, reservation | an activation whose answer is lost, two openers, lamports at the address, a read that fails | one account; a handle holds a role of its own key and no counter that is ahead of it; no needless activation; the owner gets in |
| sub-accounts | ids derived from a counter read before the transaction | the id returned is that of the account this call created |
| instruction contexts | eight classes times sixteen operations; positions and rights of accounts that several parts add to; payloads that name a position; signatures over rights the transaction then changes | what the program decodes is what was asked; nobody signs unasked; the payload names the authority; what is built is accepted |
| codecs, Huffman | boundaries | round trips (not modelled) |

The full list of hazards, each at its line and with the properties that cover
it, is `hazards` in `PROJECT.json`.

## 2. Modules

| module | what it is |
|---|---|
| `OptimisticCounter` | abstract: clients with private views of counters that others move |
| `SwigWallet` | the Rust wallet, builder and client roles, several handles, the account and the network |
| `SwigWalletProofs` | proofs about `SwigWallet` |
| `SwigWalletRefinement` | proof that `SwigWallet` implements `OptimisticCounter`; extends `SwigWalletProofs` |
| `SwigClient` | the TypeScript `Swig` object, refetch, preFetch, batches, the builder, concurrent callers |
| `SwigClientProofs` | proofs about `SwigClient` |
| `AuthorizationLocks` | the lock readers of `tail.ts` and the lock contexts, one client per role |
| `AuthorizationLocksProofs` | proofs about `AuthorizationLocks` |
| `RolePermissions` | one role's actions: the TypeScript queries and updates, the Rust conversions and accessors |
| `RolePermissionsProofs` | proofs about `RolePermissions` |
| `AccountOpening` | several openers of one address that may hold no account yet, and the V2 sub-accounts they create |
| `AccountOpeningProofs` | proofs about `AccountOpening` |
| `InstructionMetas` | `SolAccountMeta` and the account metas of each instruction file |
| `AuthorityInstructions` | the four instruction objects: metas, payload index, sizes, payer marking, the instructions that travel along; extends `InstructionMetas` |
| `AuthorityContexts` | the eight authority classes: which object, key, counter and accounts each operation gets; extends `AuthorityInstructions` |
| `OperationContexts` | one call from its arguments to the chain's verdict, with `compactInstructions` account by account; extends `AuthorityContexts` |
| `OperationContextsProofs` | proofs about `OperationContexts` |
| `SetInduction` | induction over the natural numbers and over finite sets as lemmas about sets, and sums over finite sets |
| `MCSwigWallet`, `MCSwigClient`, `MCAuthorizationLocks`, `MCRolePermissions`, `MCOperationContexts`, `MCAccountOpening` | constants and symmetry for TLC |

Operators whose name starts with `Bug` are mutants: the way a plausible mistake
would change the definition next to them. No specification uses them;
`mutants` in `PROJECT.json` says which property each one breaks.

### SwigWallet

| model | code |
|---|---|
| `hRole`, `hKey`, `hOdo` | the builder's `role_id`, `client_role` and its `odometer` |
| `cached` | `current_role`, as the role and the version of its permissions |
| `Send` | a method up to `send_and_confirm_transaction`, with the instruction the client role builds |
| `Counted`, `HasOdometer`, `Supports` | which client role signs which operation over the counter, which has one, which refuses |
| `LookupRemoval`, `RemoveAuthority`, `AbortRemoval` | the two halves of `remove_authority`, around its slot and blockhash reads |
| `AnswerThenRefresh`, `Refresh`, `RefreshError` | success of the methods that end in `refresh_permissions()?` and then `increment_odometer()?` |
| `AnswerSetRentClaimer`, `AnswerPlain` | the methods that end otherwise |
| `AnswerError` | an error from `send_and_confirm_transaction`: refused, or no answer |
| `Open`, `SwitchAuthority` | `load_current_role`; `switch_authority` and its later refresh |
| `Accepts`, `Execute`, `Land`, `Drop`, `Tick` | the program and the cluster (external) |

A method that fails before it sends changes nothing and is a stuttering step,
except `remove_authority`, which has already looked the role up. Permissions are
a version number: what they say does not matter to the properties, only how old
they are. The history variables `acked`, `seen`, `epoch` and `calls` are not in
the code; no guard but the bound on `calls` reads them.

### SwigClient

`snapshot` is the private account field of `Swig`. A call captures what it needs
from the snapshot (`Begin`), or first fetches (`AnswerFetch`: the node reads;
`Refetched`: the answer arrives and replaces the snapshot). Storing the answer and
looking the role up are two continuations of the code, and two steps here:
between them the call is "looking", other answers may replace the snapshot, and
`LookUp` takes the role from whatever is there by then. `asked` and `floors` are
history: what the account held when a fetch was started, and what the fetches
under way at an answer had asked for.
Signing functions resolve one by one in a batch, in any order in a builder
(`Places`, `Signed`); a call that throws loses its `drafts`. Only when the call
has returned are its contexts in `net`. The sequential loop of
`batchSignTransactions` looks the role up again, or refetches again, for each
config.

### AuthorizationLocks

A client `Refetch`es the tail, `ReadBalance`s, and signs requests which the
program executes later, if at all. `IsActive`, `IsPrunable`, `ReservedAmount`,
`AvailableAmount` and `Decodes` are the readers of `tail.ts`. The actions of the
program (external) follow the SDK's types and comments: an addition takes
`nextLockId`, a holder's spending captures its own locks, only a holder removes
a lock that still binds. The program's `Binds` is written apart from the SDK's
`IsActive` so that the two can disagree.

### RolePermissions

`stored` is a role's list of actions, `view[c]` the list a client last read.
`Control`, `CanSpend`, `SpendLimit` and `SpendOf` are the TypeScript queries on
a list (`solSpend` and `tokenSpend` differ in the asset only). `FromRole` reads
the list as Rust does, kind by kind in the order of `from_role`, the first of a
single kind and all of a repeatable one: the indices that are read (`IsRead`),
in the order in which they are read (`ReadBefore`). The conversion is not the
identity: `PermissionOf` shows only the address of a `SubAccount`, and the low
word (`LowWord`) of a scope's limit, which is a u128 (`MaxWide`) where the
permission has a u64 (`MaxLimit`); `bound` stands for the bump, the flag and the
ids that a `SubAccount` has beside its address. `Those` is the part of a list
at some indices, in the order of the list. `ClientAction` and `ToActionType` are
the conversions back. An `Action` has only the fields of its kind: an action on SOL
names no mint, a one-off limit has no window. The updates are `ReplaceAllActions`, `AddActions`,
`WriteBack` (a Rust read, replaced as a whole), `RemoveActionsByType` and
`RemoveActionsByIndex`. An update depends on what its client saw when it signed
and on the list when it lands, so a delay in flight is a view that is older, and
the model needs no network. Which action pays for a transfer and whether a
window is over is the program's (external) choice: an action covers what is left
of it, or all of it in a new window (`Payable`). `OpenSubAccount` is the holder's
opening of a V1 sub-account, which fills in its action (external). `changes` and `updates` are
history.

### OperationContexts and the modules below it

A request is everything a caller can give: the class of the role's authority, the
call, the version of the account, the arguments, the options, the inner
instructions, the counter in the snapshot and the one on the chain.

| model | code |
|---|---|
| `PayerOf`, `OperationOf`, `SubRole`, `RentClaimer`, `AccountsOf` | the `get...InstructionContext` functions of `swig/index.ts` and `assertInstructionOptions` |
| `CallOf` and the definitions it chooses from | the methods of the eight classes |
| `StartOf`, `PreOf`, `PostOf`, `PayloadSize`, `DeclaredSize`, `MarksPayer` | the methods of the four instruction objects |
| `MetasOf` | the `get...BaseAccountMetas` functions |
| `Begin` | the call up to the point where `compactInstructions` starts, or its early throw (`Refused`) |
| `OpenInner`, `ReuseAccount`, `AddAccount`, `CloseInner` | one inner instruction of `compactInstructions`: its program, each account that is known or new, the tail after a transfer; `metas` and `index` are its array and its map |
| `SignerFails`, `Seal` | the signing function throws, or the context is made |
| `Send` | the transaction: its message has one set of rights per key (`Seen`), and the program reads accounts by position and compares what was signed (external) |

Account keys are model values; an instruction's data matters by kind only (a
system transfer, a `SyncNative`, the prefix a program authority asks for, a
signature check). `Return` starts the next call from nothing: the functions keep
no state between calls.

### AccountOpening

| model | code |
|---|---|
| `kind`, `life` | a legacy or a reserved address; nothing, lamports only, something that does not parse, or a wallet at it |
| `Open`, `TakenForAbsent` | `new` and `from_reservation` up to the decision whether to create |
| `SendCreate`, `ReadBack` | `build_swig_account` and the send; the read after it (`new`: role 0, no lookup; `from_reservation`: `load_current_role`) |
| `LoadCurrentRole` | `load_current_role` |
| `CreateSubAccount`, `SendSubAccount`, `Refresh` | `create_sub_account_v2`: the counter, the transaction over it, and what follows `Ok` |
| `Confirm`, `Rejected`, `LoseAnswer`, `StepFails` | the answers of the RPC, and its failures |
| `Acceptable`, `Land...`, `Refuse`, `Deposit`, `Grant`, `Revoke`, `Use` | the program, and everybody else who uses the account (external) |

A transaction whose answer was lost stays in `net` and may land long after its
call has returned. What other handles of a key sign is the action `Use`; the
`SwigWallet` module has those handles themselves. `before`, `failed`, `landed`,
`refused` and `answers` are history.

## 3. Runs

| run | question | what it shows |
|---|---|---|
| `wallet_two` | two handles on one account, a secp key and a secp session, two lost or refused answers | types, the inductive invariant `IInv`, a retry after an error executes once, permissions are fresh after `Ok`, a removal removes the authority that was named, and the wallet refines `OptimisticCounter` |
| `wallet_one` | one handle, every authority kind and every method, under fairness | the cached counter never runs ahead, and every call returns |
| `client` | two callers of one `Swig`, a counted and an uncounted role, refetches, batches and builders interleaved, one failure | types, `ClientInv`, no signature that becomes valid later, one of a batch executes, what a `preFetch` signs from is no older than the oldest fetch that was unanswered when its own was answered, a builder's calls execute in order |
| `locks` | a merchant that reserves twice, an owner that prunes and spends, captures, expiry | `LocksInv`, every tail decodes, an offered prune meets no binding lock, only the lock that was looked at goes, what is called available is accepted under the conditions of section 5 |
| `permissions` | one role's actions, two clients that read and change them, a holder that spends | TypeScript's spend answers from the latest list agree with the program up to windows that are over, Rust's `can_spend_sol` lies between its first limits and what the program could accept, Rust's write-back loses what `Renewed` names and no more, removals by type and by index take what was meant |
| `operations` | every operation of all eight classes, from the caller's arguments to the chain | compaction is a faithful encoding (`CompactionInv`, `CompactDecodes`, `MetasOnlyGrow`), transfers are followed by what the runtime needs, nobody signs unasked, the payload names the authority, and what was built is accepted but for named rejections |
| `opening` | two openers with different keys on one address, legacy or reserved, and their sub-accounts, under fairness | handles hold roles of their own key, returned ids are the caller's own, a refused activation lost a race, every error has a cause, neither a handle's counter nor one on its way is ahead of the account's, the owner gets in |
| `wallet_add_authority_stale`, `prefetch_overtaken`, `builder_on_existing`, `program_scope_unlimited`, `opening_counter_stale` | what the repository says of the code and the code does not do | the violations of section 5 |

### Bounds

* *Handles and callers*: two. The hazards are pairs: one that moves the counter,
  removes the role or refetches while the other is between two steps. The proofs
  lift the safety properties to any number.
* *Calls*: two of each handle in `wallet_two` (a call and its retry, while the
  other handle does the same), three of the single handle; one of each caller in
  `client`, with batches and builders of two. Two positions are the least that
  can execute in the wrong order or both, and the proofs hold for any length.
  A merchant has two requests, as many as `MaxLocks`, and the owner one; a lock
  that is pruned before the second request makes room for an id that would be
  reused if ids were positions.
* *Faults*: two in `wallet_two`, enough for the answer to be lost and its retry
  to fail or be lost as well.
* *Slots*: one or two, in `SwigWallet` and `AuthorizationLocks`. `SlotWindow = 0`
  makes a signature expire after one tick, which is what the slot check can do
  to a call. `SwigClient` has no slots: a context that has become too old is one
  that never lands.
* *Permissions*: ten lists, which together hold every form of limit, a single
  kind twice, repeated and unread kinds, a `SubAccount`, and scopes of both SDKs
  with and without a limit; two changes of a list, so that a view can be older
  than an update and a spending; amounts up to two, so that a limit can be partly
  used; `MaxWide = 4`, so that a scope's limit can exceed the largest u64 (2 here)
  and its low word differs from it.
* *Counters*: `MaxOdometer` stays below a wrap of `OdometerModulus`; the wrap of
  a u32 takes 2^32 signatures by one role and is not reached. The modulus is in
  the model so that `WrappingAdd` is what the code computes.
* *Balances*: two units in `locks`, so that a reservation and a spend can
  together exceed the account.
* *Requests* of `operations`: pairs of inner instructions for every signing call
  of the four token classes, single ones for the session classes, triples for
  one class (transfer, `SyncNative`, transfer). The instructions repeat accounts
  with other rights, name the wallet's own addresses, the payer, the authority,
  a program as an account, and the rent sysvar. The other calls are combined
  with the arguments and options they read: payer given or not, a prefix, a
  preset counter that is right or wrong, instructions before. Two inner
  instructions are the least at which one can disturb the other; the proofs hold
  for any set of requests.
* *Openings*: three calls of the owner and two of the other opener, one fault,
  two roles, so that an opening fails, is retried, loses a race, and is followed
  by a sub-account; `OwnerGetsIn` is stated for openers whose calls outnumber
  the faults and the one race that can be lost. `MaxUse = 1` is enough for a
  counter to be out of step.

### Fairness

`wallet_one` and `opening` use fairness. In `wallet_one`, `Continue(c)` is weakly fair: a call that has
begun is a sequence of awaited RPC requests, and the RPC client answers each or
gives up (`send_and_confirm_transaction` stops waiting when the blockhash has
expired). A transaction on its way lands or dies: its blockhash expires. No
action of `Call` is fair: nothing makes an application call. A call of
`wallet_one` never waits for another caller, so weak fairness is enough. In
`opening` the steps of a running call are weakly fair for the same reason, the
fate of a transaction that is still on its way as well; and an opener without a
handle opens again, as long as it has calls left, because the property is about
a caller that keeps trying: without that nothing has to happen. Deposits,
grants, removals and uses are never fair. The owner's progress does not depend on
the other opener's: if that one activates first, the account is there.

All runs but `operations` say `CHECK_DEADLOCK FALSE`: clients that have used up
their calls stop. In `operations` a call returns and the next begins.

## 4. Proofs

What follows holds for any number of handles, callers, roles, keys, locks,
slots and faults, under the named assumptions on the constants
(`KeyAssumption`, `BoundAssumption`, `ConstantAssumption`, `LockAssumption`,
`OpenerAssumption`, `AccountsAssumption`, `RequestsAssumption` and those of the
modules below: types of the constants, that no authority and no role id is taken
for `NoKey`, and that `MaxOdometer` is below a wrap).

**Rust wallet** (`SwigWalletProofs`). `TypeCorrect`, `OdometerNeverAhead`,
`RetriesExecuteOnce`. Neither of the last two is inductive: that the cached
counter is not ahead after an acknowledgement needs to know that the
acknowledged transaction was signed at the cached counter plus one and has
landed (`RunningCall`), and hence spent that counter (`SpentCounters`). That two
unacknowledged attempts cannot both have landed needs that an attempt since the
last synchronisation bears at most the cached counter plus one
(`AttemptsOfEpoch`), that those at or below the cached counter are acknowledged
(`PassedIsAcked`), and that no two landed signatures of a role share a counter.
`IInv` is their conjunction, and is checked by TLC in `wallet_two`.

The second half of the module proves what is said of reads that are used later.
`RemovalsAreOfTheNamed`: the id that `remove_authority` resolved belongs to the
named authority or to nobody from then on (`RemovalsResolved`), because ids are
handed out in order and those beyond the counter are unused (`UnusedBeyond`).
`PermissionsAreFresh`: an Ok comes after the call's own transaction has landed
(`OkHasLanded`), which cannot land again (`LandsOnce`: `net` and `landed` are
disjoint and a call number is used once), and what was recorded of the role then
is not ahead of what the refresh reads (`SeenIsPast`).

`SwigWalletRefinement` proves that the wallet implements `OptimisticCounter`
(`WalletIsOptimistic`). Opening and switching map to `Sync` or `Leave`, counting a
success to `Acknowledge`, a counted signature that lands to `Commit` if its
handle has not synchronised since and to `Stray` if it has, everything else to a
stutter. `switch_authority` may pair a secp client role with a role of another
kind and start from 0; that this is the stored value needs that a role that keeps
no odometer has spent none (`NoneSpent`).

**TypeScript client** (`SwigClientProofs`). `ClientTypeCorrect`,
`NeverSignedAhead`, `BatchesLandOnce`, `PreFetchesAreBounded`,
`BuildersLandInOrder`. The argument: whatever has been read is at most what the
account holds now, and an answer is no older than its request (`ReadsAreOld`). The
snapshot itself can go back in time, so what a preFetch finds there is bounded by
an invariant about the answers that can still come (`ReadsAreBounded`): while a
call is looking, the snapshot, and the answer of every fetch that is under way,
is no older than some fetch that was under way when the call was answered
(`floors`); a fetch that starts later asks of the account as it is, which is newer
than both. Further, contexts are given out only by calls
that have returned, and those of a call agree (`Returned`); the counters follow
from both (`CountersOf`); once one of a batch has landed the others are spent
(`Spent`). That the types hold needs the order of signing: a sequential call
awaits the place after those it has signed, and has as many to go
(`SignedInOrder`).

**Locks** (`AuthorizationLocksProofs`). `LocksTypeCorrect`, `TailsDecode`,
`PrunesAreAccepted`, `RemovalsAreOfTheSeenLock`, `AvailableAccepted`. What a
client has once seen of a lock stays true however old the view: its id is spent,
and if the lock is still there only its amount has changed, and only fallen
(`Sightings`); what was prunable stays prunable (`PrunesAreInactive`). That what a
client calls available is accepted compares two sums, of the locks it saw and of
those that bind when the program looks. While nobody has locked or spent free
funds since the reads (`quiet`), every lock of another role was in the view
(`QuietViews`), and what the others still hold leaves as much of the balance as
the client was told (`QuietFunds`). That the sums compare as their parts do is proved by
induction over finite sets (`SetInduction`).

**Induction over sets** (`SetInduction`). The provers cannot instantiate a
theorem that takes a predicate, but they can one that takes the set of what
satisfies it: `NatSetInduction` and `SubsetInduction` are stated so. From them,
and from `MapThenSumSet` as the community module defines it, come the facts on
sums: that the order of the elements does not matter, sums over a part and its
rest, and a sum whose elements each have one of their own in another.

**Instruction contexts** (`OperationContextsProofs`). `SpecTypeOK`,
`SpecCompaction`, `SpecMetasOnlyGrow`, `SpecPayload`, `SpecDecodes`,
`SpecBalanced`, `SpecSigners`, `SpecAccepted`, for any set of requests with any
number of inner instructions and accounts. The map and the list of
`compactInstructions` are changed by different statements, so that they agree
(`CompactionInv`) is inductive only with what the call was started from: the
request is one of `Requests` (`RequestOK`), an opened inner instruction is one of
the request's (`OpenOK`), and nothing is collected between calls (`IdleOK`).
`MetasOnlyGrow` follows step by step from it. That the payload names the
authority is then a fact about the start of a call (`StartTyped`, which goes
through every operation of every object) which growing lists preserve
(`PayloadInv`). `SpecDecodes` says that the program decodes what the caller asked
for. Finished instructions decode, and the open one has so far named the first of
its accounts (`DecodesInv`); an index written earlier still decodes because the
list only grows in what it says of a position.

`SpecBalanced`: the flag that a transfer leaves behind says what the last finished
instruction was, and the swig account, which every start of a call names, is in
the map (`BalanceInv`). `SpecSigners`: a right to sign comes from the start of the
call, the marking of the payer, or an account of an inner instruction that is not
an address of the wallet. `SpecAccepted` is the end-to-end claim: the built context
keeps the call's instructions, counter and sizes, and its metas have grown from
those of the start (`BuiltInv`); if none of the named exceptions holds, the
message of the transaction gives every account the rights that were signed
(`RightsAsSigned`), each account is where the program looks for it
(`AccountsStay`), and what the program compares is equal. The attempt at this
proof found two rejections that an earlier statement did not name and that no
request of the run reached: instructions after a lock operation raise rights as
those before it do (`RaisedAround`), and a program that is an account as well has
two entries (`TwoEntries`). The run now has requests for both, and TLC rejects
the statement without either.

**Permissions** (`RolePermissionsProofs`). `PermissionsTypeCorrect`,
`SpendAnswers` (of `LimitsAnswer` and `RustSpendsWithinBounds`),
`WriteBackKeeps`, `Revokes`, `RemovesSeen`: every property of the run, for lists of any length, with any
number of actions of one kind. The invariant is about views: while nothing has
changed, a view is the list, and while only transfers have, it shows the same
grants (`ViewsLag`). The rest is about lists as indices in an order. `InOrder`
lists any finite set of indices (`InOrderEnumerates`), by counting those ahead of
each; such a list is unique (`OneOrder`); what occurs in it is counted by the
indices (`CountsOf`); and a part of it is the list of that part, in any order that
agrees (`PartOf`). Write-back loses no more than is named because each action that
is read comes back as `Renewed` says (`ReadAndWritten`), and occurrences do not
depend on the order in which Rust reads. A removal by type keeps which of the other actions are read
(`ReadsTheSame`), and both ways of computing what is shown afterwards list the
same indices in the same order (`ShownWithout`). A variant and whether it recurs
tell the kinds apart (`VariantsTell`), and the table of numbers names the kind
that was read (`TypeOfPermission`). The spend answers compare one action at a time
(`ControlAgrees`): what is left of a recurring limit never exceeds what its next
window begins with, so a yes holds whichever windows are over, and a no holds in
those that run.

**Opening** (`AccountOpeningProofs`). `SpecHandleHoldsItsRole`,
`SpecSubAccountIds`, `SpecRefusedActivations`, `SpecCountersNeverAhead`,
`SpecErrorsHaveCauses`. An id
is returned long after it was read; that it is still right needs that the call's
own transaction has landed with that id (`CallInv`: a call has one transaction,
and the label of the call says how far it is), and that a landed sub-account
stays where it was put (`SubAccountInv`). That `new` may take role 0 for its own
needs that the create which landed was its own (`AccountInv`), and that a refused
activation lost a race needs that the address held no invalid config when it was
sent (`ActivationInv`). `SpecCountersNeverAhead` is inductive only together with
what is known of a call's own transaction: a handle advances its counter after
an `Ok` alone, and the account did so when that transaction landed (`Behind`,
`Signed`). `SpecErrorsHaveCauses` adds the reasons for refusals, in
terms that stay true once they hold (`Lost`): a removed role, a taken id, a spent
counter, a lost race. That a refused counter is a spent one needs that no handle
is ahead of its role (`Behind`, `Spent`), that nothing on its way names an id or a
counter of the future (`Signed`), and that a role whose key is not counted has
spent nothing (`Unspent`).

Only model-checked, with the reason:

* `CallsReturn`, `OwnerGetsIn`: liveness under fairness is out of the prover's
  reach.
* `OdometerMatchesChain`, `BuilderContinues`, `PreFetchIsCurrent`,
  `ProgramScopesAreLimited`, `OpensWithCurrentCounter`: what the repository says
  and the code does not do; TLC shows the violations.

## 5. Where the code and the repository's own words differ

1. `add_authority` and `create_session` of the Rust wallet return without
   advancing the cached odometer although the program has spent the counter
   (`wallet_add_authority_stale`). The next counted call of the handle is
   refused until the handle is opened again or switched. `NeverAhead` still
   holds: the handle is behind, never ahead.
2. The TypeScript builder for an existing Swig counts from 1
   (`builder_on_existing`).
3. `programScopeLimit` and `programScopeRecurringLimit` write the type of a scope
   without limit (`program_scope_unlimited`).
4. A call with `preFetch` looks its role up one continuation after its answer was
   stored, and an older answer of another caller may have replaced it by then
   (`prefetch_overtaken`). The context carries a spent counter and is refused;
   `PreFetchIsBounded` says how old it can be.
5. `SwigWallet::new` takes role 0 and the counter 0 where it has just created the
   account, and does not resolve the signer and synchronise its counter as
   `load_current_role` does (`opening_counter_stale`). If another handle of the
   key has signed by then, the new one's first counted call is refused.
   `CountersNeverAhead` holds: it is behind.

Observations that no run is made for. Where one bears on a property of a model,
the property names it.

Permissions:

* `canSpendSol` and `canSpendToken` answer from what is left of a recurring limit
  and never look whether its window is over, though the controller keeps the
  window and the last reset. Of a limit of 2 of which one is spent they refuse 2,
  which the program accepts once the window is over. That a yes still holds, and
  that a no holds in the running windows, is in `SpendAnswersAgree` (`LimitsAgree`).
* `can_spend_sol` of the Rust wallet compares with the amount of a recurring
  limit before it looks at what is left of the window (`wallet.rs:1930-1937`), and
  so allows what the running window no longer covers. The other half of
  `SpendAnswersAgree`, `CanSpendSolIsBounded`, says what a yes and a no are worth.
* `solSpend` and `tokenSpend`, commented "get max spend limit", return the
  controller of the first action when none is uncapped, because an action that
  allows no spending has the limit 0 and not null. They promise too little and
  never too much (`SpendAnswersAgree`); `solSpendLimit` and `canSpendSol` are
  right.
* Of two actions of one kind without an object `from_role` reads the first, so
  `can_spend_sol` does not see a second `SolLimit` that the program may charge.
  `get_recurring_sol_limit` looks at the first SOL permission only, which is the
  one-off limit when a role has both.
* `can_manage_authority` is false for an `All` role, and `has_all_permissions`
  is what `can_spend_sol` asks, so an `AllButManageAuthority` role is told it
  cannot spend.
* `from_role` reads neither `CloseSwigAuthority` nor `ManageAuthorizationLocks`:
  a role whose permissions are read and written back loses them. It loses as well
  the second action of a kind that is read once; the bump, the flag and the ids
  of a `SubAccount`, of which the address alone comes back; of a scope's limit
  all but the low 64 bits, and what the scope has used; and a recurring limit
  comes back with a full window. `WriteBackKeepsGrants` names these losses and
  says that there are no others.
* The two SDKs start a scope differently: TypeScript stores the limit as its
  current amount, Rust stores 0.
* The TypeScript limits ignore destinations: a yes means that some destination
  can be paid.

Rust wallet:

* A secp session role signs everything but `create_session` with its plain
  session key, which spends no counter, yet the wallet advances its odometer
  after each success. The handle is then ahead of the account, and its next
  `create_session` is refused. `NeverAhead` is about secp keys for that reason.
* When the refresh at the end of `switch_authority` fails, the handle keeps the
  new role and the old permissions. `PermissionsFreshAfterOk` constrains only
  calls that return `Ok`.
* When the refresh after a landed transaction fails, the method returns `Err`
  although the transaction has executed. A retry is safe: the counter has not
  been advanced, and `RetryExecutesOnce` holds.
* `sign_v2` of a secp authority with several inner instructions signs them all
  with one counter, so such a transaction is always refused.
* `update_authority` always fails for a `ProgramExec` role, which has no
  odometer to ask for.
* `SwigWallet::new` takes every error of its first read for an absent account and
  sends a create transaction, which the program refuses if the account exists:
  the caller gets an error for a healthy wallet (one of the causes of
  `ErrorsHaveCauses`). `get_sub_account` likewise answers "none" for any error.
* `new` takes an address that holds lamports and no account for an existing
  wallet and answers `InvalidSwigData`, however often it is called;
  `from_reservation` activates such an address. `OwnerGetsIn` is stated for
  reserved addresses.
* An activation of a reservation that is refused has lost to another activation,
  which may be the opener's own earlier one whose answer was lost.

TypeScript:

* The available amount of a role is only safe to spend when it is asked for the
  slot at which the balance was read, and the balance was read after the locks:
  `AvailableIsAccepted` says so with `quiet` and `clean`.
* A refetch whose answer is late replaces a newer snapshot, against the comment
  at `swig/index.ts:135-136`, and every later call without `preFetch` signs from
  the older one. `SignedNotAhead` holds all the same: what is old is refused.
* `compactInstructions` changes the rights in the account metas the caller passed
  in (`setSigner(false)`, and the upgrades when a meta is met again).
* The exceptions of `BuiltIsAccepted` are all reached:
  `subAccountWithdrawToken` of every class uses the sub-account's address where
  the token program is due, whatever `tokenProgram` was given (`Misnamed`);
  `transferAssets` of the secp256k1 classes names the config for the wallet
  address, and the withdrawals of a program authority have another account at
  position 3 (`Misnamed`); three methods of the secp256r1 classes prefer the
  record's counter to the caller's `odometer` (`WrongCounter`); `removeAuthority`
  signs a fixed payload length although the payload may carry a prefix
  (`ShortDeclaration`); only `signV2` marks the payer, and only as a signer, while
  the runtime makes the fee payer a writable signer (`LesserPayer`); instructions
  before or after a lock operation raise the rights of its accounts
  (`RaisedAround`); and a program that an inner instruction also has as a writable
  or signing account is two entries of different rights, of which the message
  makes one (`TwoEntries`). All of them matter to secp authorities only, whose
  signature covers the rights, but for `Misnamed`.
* An Ed25519 session authority passes its record of 80 bytes where an address is
  due in every operation that its session key does not sign, but for
  `createSession`: the call throws (`Refused`).
* Instructions given as `preInstructions` and `postInstructions` are dropped,
  except by program authorities and the lock operations, against the comment at
  `authority/instructions/interface.ts:205-206`.

## 6. What is left out, and why

* The on-chain program and the cluster are external. They are modelled from what
  the SDK and its tests rely on: the counter a signature must carry, the slot
  window, that any transaction may be refused or lost. Other reasons for a
  refusal (a permission that is missing, a spend limit) are covered, outside
  `RolePermissions`, by that a refused request changes nothing.
* A read returns the account as it is at the moment of the read; an RPC node
  that lags behind at the confirmed commitment is not modelled.
* Byte layouts, PDA derivation and instruction bytes: data, not control. That
  covers the coder, roles, the account codec, the byte encoders of instructions
  and of `createAuthority.ts`/`info.ts`, Huffman coding and the ABI files.
* Creation of a swig in TypeScript, and the builder of a new swig: one
  instruction without authority, nothing that can be interleaved.
* `create_ata`, `create_wallet_ata`, `switch_payer` and the read accessors of the
  Rust wallet: a read, a transaction without the program, an assignment.
* The canonical checks of reservation packages (`reservation.ts` and the external
  `swig-interface` crate): comparisons of bytes. Who activates, and when, is in
  `AccountOpening`.
* The Rust client roles' account lists: they belong to the external
  `swig-interface` crate; `OperationContexts` has the TypeScript ones.
* `classic`, `kit`, EVM encoders, scripts, CI: no state of their own.

## 7. Plan

In the order in which they matter:

1. Proofs: every property of a passing run but the two of liveness is a theorem.
   Left are further abstract specifications: a list of grants that
   `RolePermissions` implements, and one account per address for `AccountOpening`.
2. `TailCodec`: the positions of `deserializeRoles` and of the tail entries, as
   recursive functions, against a reference definition.
3. One composition of `AccountOpening` and `SwigWallet`, with `Use` replaced by
   the handles that `AccountOpening` opens.
