------------------------- MODULE AuthorizationLocks -------------------------
(***************************************************************************)
(* Authorization locks as clients of the TypeScript SDK use them           *)
(* (solana/typescript/packages/lib/src/swig/tail.ts and index.ts).         *)
(*                                                                         *)
(* A role that may manage locks reserves part of an asset until a slot.    *)
(* The SDK decodes the locks of a snapshot, tells which are active, what a *)
(* role must leave in the account, what it may spend, and which locks      *)
(* another role may prune; the caller then signs a request that reaches    *)
(* the program later, if at all.  Locks and balance are read one after the *)
(* other, while other roles spend, lock, release and prune.                *)
(*                                                                         *)
(* The program (external) is taken from what the SDK's types and helpers   *)
(* say of it: a spender leaves what the others have reserved, a holder's   *)
(* spending captures its own locks, ids are never reused, and only the     *)
(* holder removes a lock that still binds.  A request that is refused or   *)
(* lost changes nothing.  The locks of a tail are stored in the order of   *)
(* their ids, so a set stands for the list.                                *)
(***************************************************************************)
EXTENDS Naturals, FiniteSets, FiniteSetsExt

CONSTANTS
  Role,           \* the roles of the account
  Asset,          \* the wallet address and its token accounts
  PermissionsOf,  \* [Role -> SUBSET Permission]
  MaxDuration,    \* [Role -> Nat]: maxDurationSlots of its permission
  MaxLocks,       \* MAX_AUTHORIZATION_LOCKS: locks stored at once
  MaxBalance,     \* bound: what an asset account holds
  MaxSlot,        \* bound: slots that pass
  MaxCalls        \* bound: [Role -> Nat], requests of each role

Permission == {"All", "AllButManageAuthority", "ManageAuthority",
               "ManageAuthorizationLocks", "SolLimit"}

ASSUME LockAssumption ==
  /\ PermissionsOf \in [Role -> SUBSET Permission]
  /\ MaxDuration \in [Role -> Nat]
  /\ MaxCalls \in [Role -> Nat]
  /\ {MaxLocks, MaxBalance, MaxSlot} \subseteq Nat

Lock == [asset : Asset, amount : Nat, expiry : Nat, role : Role, id : Nat]

(* What a client signs.  seen: the lock its caller looked at (history).    *)
Adding   == [kind : {"add"}, role : Role, call : Nat, asset : Asset,
             amount : Nat, expiry : Nat]
Spending == [kind : {"spend"}, role : Role, call : Nat, asset : Asset, amount : Nat]
Removing == [kind : {"release", "prune"}, role : Role, call : Nat, id : Nat, seen : Lock]

(* The balances a client has read, and the slot they were read at.         *)
Funds == [of : [Asset -> Nat], at : Nat]
NoBalance == [at |-> 0]

VARIABLES
  (* the account and the cluster *)
  locks,     \* the stored locks
  nextId,    \* nextLockId of the tail entry
  balance,   \* [Asset -> Nat]
  slot,
  (* the clients, one per role *)
  view,      \* the snapshot: [locks, nextId]
  funds,     \* the balances read after it, or NoBalance
  calls,     \* how many requests the client has signed
  (* the network *)
  net,       \* requests signed and not executed
  (* history *)
  quiet,     \* <<role, asset>> whose free funds nothing has lowered since the
             \* role has refetched
  clean      \* the spends in net signed from such a view, and still so

chain == <<locks, nextId, balance, slot>>
clients == <<view, funds, calls>>
vars == <<locks, nextId, balance, slot, view, funds, calls, net, quiet, clean>>

-----------------------------------------------------------------------------
(* The SDK's readers.                                                      *)

(* Mutant: the last slot before the expiry no longer counts.               *)
BugIsActive(l, s) == l.amount > 0 /\ s + 1 < l.expiry

IsActive(l, s) == l.amount > 0 /\ s < l.expiry

IsPrunable(l, s) == ~IsActive(l, s)

(* Mutant: a role leaves its own locks instead of the others'.             *)
BugReservedAmount(ls, a, r, s) ==
  MapThenSumSet(LAMBDA l : l.amount,
                {l \in ls : IsActive(l, s) /\ l.role = r /\ l.asset = a})

(* What role r must leave of asset a at slot s.                            *)
ReservedAmount(ls, a, r, s) ==
  MapThenSumSet(LAMBDA l : l.amount,
                {l \in ls : IsActive(l, s) /\ l.role # r /\ l.asset = a})

AvailableAmount(b, ls, a, r, s) ==
  LET reserved == ReservedAmount(ls, a, r, s)
  IN  IF b > reserved THEN b - reserved ELSE 0

(* Mutant: the ids are the positions.                                      *)
BugDecodes(v) ==
  /\ Cardinality(v.locks) <= MaxLocks
  /\ {l.id : l \in v.locks} = 0 .. Cardinality(v.locks) - 1

(* validatedTailEntries does not throw on the lock entry: at most          *)
(* MaxLocks records, their ids increasing and below the next one.          *)
Decodes(v) ==
  /\ Cardinality(v.locks) <= MaxLocks
  /\ \A l \in v.locks : l.id < v.nextId
  /\ \A k, l \in v.locks : k.id = l.id => k = l

CanManageAuthorizationLocks(r) == "ManageAuthorizationLocks" \in PermissionsOf[r]

CanPruneAuthorizationLocks(r) ==
  PermissionsOf[r] \cap {"All", "AllButManageAuthority", "ManageAuthority",
                         "ManageAuthorizationLocks"} # {}

-----------------------------------------------------------------------------
(* The clients.                                                            *)

(* Mutant: the last id handed out is taken for the next one.               *)
BugRefetch(r) ==
  /\ view' = [view EXCEPT ![r] = [locks |-> locks, nextId |-> nextId - 1]]
  /\ funds' = [funds EXCEPT ![r] = NoBalance]
  /\ quiet' = quiet \cup ({r} \X Asset)
  /\ UNCHANGED <<chain, calls, net, clean>>

Refetch(r) ==
  /\ view' = [view EXCEPT ![r] = [locks |-> locks, nextId |-> nextId]]
  /\ funds' = [funds EXCEPT ![r] = NoBalance]
  /\ quiet' = quiet \cup ({r} \X Asset)
  /\ UNCHANGED <<chain, calls, net, clean>>

ReadBalance(r) ==
  /\ funds' = [funds EXCEPT ![r] = [of |-> balance, at |-> slot]]
  /\ UNCHANGED <<chain, view, calls, net, quiet, clean>>

Sign(r, request) ==
  /\ calls[r] < MaxCalls[r]
  /\ calls' = [calls EXCEPT ![r] = @ + 1]
  /\ net' = net \cup {request}
  /\ UNCHANGED <<chain, view, funds, quiet>>

AddAuthorizationLock(r, a, amount, expiry) ==
  /\ Decodes(view[r])
  /\ CanManageAuthorizationLocks(r) /\ expiry <= slot + MaxDuration[r]
  /\ Sign(r, [kind |-> "add", role |-> r, call |-> calls[r], asset |-> a,
              amount |-> amount, expiry |-> expiry])
  /\ UNCHANGED clean

(* The caller spends up to what the SDK says is available at slot s: that  *)
(* of the balance it has read, or the current one.                         *)
Spend(r, a, amount, s) ==
  /\ Decodes(view[r]) /\ funds[r] # NoBalance
  /\ s \in {funds[r].at, slot}
  /\ amount <= AvailableAmount(funds[r].of[a], view[r].locks, a, r, s)
  /\ LET x == [kind |-> "spend", role |-> r, call |-> calls[r], asset |-> a,
               amount |-> amount]
     IN  /\ Sign(r, x)
         /\ clean' = IF <<r, a>> \in quiet /\ s = funds[r].at THEN clean \cup {x} ELSE clean

(* Mutant: the ids are counted from one.                                   *)
BugRemoveAuthorizationLock(r, l) ==
  /\ Decodes(view[r]) /\ l \in view[r].locks
  /\ l.role = r \/ (CanPruneAuthorizationLocks(r) /\ IsPrunable(l, slot))
  /\ Sign(r, [kind |-> IF l.role = r THEN "release" ELSE "prune", role |-> r,
              call |-> calls[r], id |-> l.id + 1, seen |-> l])
  /\ UNCHANGED clean

(* A holder releases its lock; another role prunes one that is prunable.   *)
RemoveAuthorizationLock(r, l) ==
  /\ Decodes(view[r]) /\ l \in view[r].locks
  /\ l.role = r \/ (CanPruneAuthorizationLocks(r) /\ IsPrunable(l, slot))
  /\ Sign(r, [kind |-> IF l.role = r THEN "release" ELSE "prune", role |-> r,
              call |-> calls[r], id |-> l.id, seen |-> l])
  /\ UNCHANGED clean

-----------------------------------------------------------------------------
(* The program (external).                                                 *)

Binds(l) == l.amount # 0 /\ l.expiry > slot

(* What the roles in R have reserved of asset a.                           *)
Held(a, R) ==
  MapThenSumSet(LAMBDA l : l.amount,
                {l \in locks : Binds(l) /\ l.asset = a /\ l.role \in R})

OthersHeld(a, r) == Held(a, Role \ {r})

(* The funds of asset a have fallen for the roles in R.                    *)
Disturb(a, R) ==
  /\ quiet' = quiet \ (R \X {a})
  /\ clean' = {y \in clean : y.asset = a => y.role \notin R}

LandAdd(x) ==
  /\ slot < x.expiry /\ x.expiry <= slot + MaxDuration[x.role] /\ x.amount > 0
  /\ Cardinality(locks) < MaxLocks
  /\ locks' = locks \cup {[asset |-> x.asset, amount |-> x.amount,
                           expiry |-> x.expiry, role |-> x.role, id |-> nextId]}
  /\ nextId' = nextId + 1
  /\ Disturb(x.asset, Role \ {x.role})
  /\ UNCHANGED <<balance, slot>>

(* The holder's spending lowers its binding locks, in whatever order.      *)
LandSpend(x) ==
  LET own == {l \in locks : Binds(l) /\ l.asset = x.asset /\ l.role = x.role}
      held == Held(x.asset, {x.role})
      captured == IF x.amount <= held THEN x.amount ELSE held
  IN  /\ x.amount <= balance[x.asset]
      /\ x.amount + OthersHeld(x.asset, x.role) <= balance[x.asset]
      /\ balance' = [balance EXCEPT ![x.asset] = @ - x.amount]
      /\ \E left \in [own -> 0 .. MaxBalance] :
           /\ \A l \in own : left[l] <= l.amount
           /\ MapThenSumSet(LAMBDA l : l.amount - left[l], own) = captured
           /\ locks' = {[l EXCEPT !.amount = IF l \in own THEN left[l] ELSE @] : l \in locks}
      /\ Disturb(x.asset, IF x.amount <= held THEN {x.role} ELSE Role)
      /\ UNCHANGED <<nextId, slot>>

LandRemove(x) ==
  /\ \E l \in locks :
       /\ l.id = x.id
       /\ l.role = x.role \/ (CanPruneAuthorizationLocks(x.role) /\ ~Binds(l))
       /\ locks' = locks \ {l}
  /\ UNCHANGED <<nextId, balance, slot, quiet, clean>>

Land(x) ==
  /\ CASE x.kind = "add" -> LandAdd(x)
       [] x.kind = "spend" -> LandSpend(x)
       [] OTHER -> LandRemove(x)
  /\ net' = net \ {x}
  /\ UNCHANGED clients

Deposit(a) ==
  /\ balance[a] < MaxBalance
  /\ balance' = [balance EXCEPT ![a] = @ + 1]
  /\ UNCHANGED <<locks, nextId, slot, clients, net, quiet, clean>>

Tick ==
  /\ slot < MaxSlot
  /\ slot' = slot + 1
  /\ UNCHANGED <<locks, nextId, balance, clients, net, quiet, clean>>

-----------------------------------------------------------------------------
Init ==
  /\ locks = {} /\ nextId = 0 /\ slot = 0
  /\ balance \in [Asset -> 0 .. MaxBalance]
  /\ view = [r \in Role |-> [locks |-> {}, nextId |-> 0]]
  /\ funds = [r \in Role |-> NoBalance]
  /\ calls = [r \in Role |-> 0]
  /\ net = {} /\ quiet = {} /\ clean = {}

Client(r) ==
  \/ Refetch(r)
  \/ ReadBalance(r)
  \/ \E a \in Asset, n \in 1 .. MaxBalance, s \in 1 .. MaxSlot + 1 :
       AddAuthorizationLock(r, a, n, s)
  \/ \E a \in Asset, n \in 1 .. MaxBalance, s \in 0 .. MaxSlot :
       Spend(r, a, n, s)
  \/ \E l \in view[r].locks : RemoveAuthorizationLock(r, l)

Next ==
  \/ \E r \in Role : Client(r)
  \/ \E x \in net : Land(x)
  \/ \E a \in Asset : Deposit(a)
  \/ Tick

Spec == Init /\ [][Next]_vars

-----------------------------------------------------------------------------
(* Properties.                                                             *)

(* Stored locks and snapshots of them are what the codecs say; requests    *)
(* are well formed.                                                        *)
TypeOK ==
  /\ locks \subseteq Lock /\ IsFiniteSet(locks)
  /\ nextId \in Nat /\ slot \in Nat
  /\ balance \in [Asset -> Nat]
  /\ view \in [Role -> [locks : SUBSET Lock, nextId : Nat]]
  /\ funds \in [Role -> Funds \cup {NoBalance}]
  /\ calls \in [Role -> Nat]
  /\ net \subseteq Adding \cup Spending \cup Removing
  /\ quiet \subseteq Role \X Asset /\ clean \subseteq Spending

(* No history of additions, captures, releases and prunes leaves a tail    *)
(* that the validating readers refuse: a snapshot can always be decoded.   *)
EveryTailDecodes == Decodes([locks |-> locks, nextId |-> nextId])
                    /\ \A r \in Role : Decodes(view[r])

(* The amount the SDK calls available to a role is accepted whenever the   *)
(* request arrives, as long as it asked for the slot of the balance, read  *)
(* after the locks, and nobody else has locked and nobody has spent beyond *)
(* its own locks since: captures, releases, prunes and expiry never take   *)
(* from the others.                                                        *)
AvailableIsAccepted ==
  \A x \in clean : x.amount + OthersHeld(x.asset, x.role) <= balance[x.asset]

(* A prune the SDK has offered from a snapshot, however old, meets either  *)
(* no lock or one that binds nothing any more.                             *)
PruneIsAccepted ==
  \A x \in net : x.kind = "prune" =>
    \A l \in locks : l.id = x.id => l.role # x.role /\ ~Binds(l)

(* A lock that goes is the very reservation the remover has looked at,     *)
(* though the request names it by a number and may be arbitrarily late.    *)
RemovesTheSeenLock ==
  [][\A l \in locks : l.id \notin {k.id : k \in locks'} =>
       \E x \in net \ net' :
         /\ x.kind \in {"release", "prune"}
         /\ [x.seen EXCEPT !.amount = l.amount] = l]_vars

-----------------------------------------------------------------------------
(* The inductive invariant behind them.                                    *)

(* What has once been read of a lock: its id is spent, and if it is still  *)
(* there only its amount has changed, and only fallen.                     *)
Sighted(l) ==
  /\ l.id < nextId
  /\ \A k \in locks :
       k.id = l.id => k.amount <= l.amount /\ [l EXCEPT !.amount = k.amount] = k

Sightings ==
  /\ \A r \in Role : \A l \in view[r].locks : Sighted(l)
  /\ \A x \in net : x.kind \in {"release", "prune"} => x.id = x.seen.id /\ Sighted(x.seen)

(* What was prunable when the request was signed is prunable for ever.     *)
PrunesAreInactive ==
  \A x \in net : x.kind = "prune" => x.seen.role # x.role /\ IsPrunable(x.seen, slot)

IdsInv ==
  /\ TypeOK
  /\ EveryTailDecodes
  /\ Sightings
  /\ PrunesAreInactive

(* While the funds are quiet for a role it has seen every lock the others  *)
(* have on them, and what they must leave of the balance it has read is no *)
(* more than what they must leave of the balance there is.                 *)
QuietViews ==
  \A r \in Role, a \in Asset : <<r, a>> \in quiet =>
    \A k \in locks : k.asset = a /\ k.role # r => \E l \in view[r].locks : l.id = k.id

QuietFunds ==
  \A r \in Role, a \in Asset : <<r, a>> \in quiet /\ funds[r] # NoBalance =>
    funds[r].of[a] + OthersHeld(a, r)
      <= balance[a] + ReservedAmount(view[r].locks, a, r, funds[r].at)

FundsInv ==
  /\ \A r \in Role : IsFiniteSet(view[r].locks)
  /\ QuietViews
  /\ QuietFunds
  /\ AvailableIsAccepted

(* All of it together: each step preserves it.                             *)
LocksInv == IdsInv /\ FundsInv

=============================================================================
