-------------------------- MODULE RolePermissions --------------------------
(***************************************************************************)
(* The actions of one role, as the two SDKs read them and change them.     *)
(*                                                                         *)
(* The account stores the role's actions as a list.  The TypeScript        *)
(* `Actions` (lib/src/actions) answers queries from the list as it is; the *)
(* Rust `Permission` (rust/sdk/src/types.rs) is a second vocabulary, read  *)
(* from the list kind by kind and converted back when it is written.       *)
(* Clients read the list, ask what the role may spend, and change it with  *)
(* updateAuthority, from a view that may be old: since then the holder may *)
(* have spent, a window may have begun anew, or another client may have    *)
(* changed the list.  An update names what its client saw, so that signing *)
(* it and landing later is the same as acting from an older view, and the  *)
(* model has the one step.                                                 *)
(*                                                                         *)
(* The program (external) is taken from the types and comments of the SDK: *)
(* a transfer is charged to one action that covers it, a recurring action  *)
(* starts anew when its window is over, opening a sub-account fills in the *)
(* action it was opened with, and an update changes the list as its kind   *)
(* says and leaves at least one action.                                    *)
(***************************************************************************)
EXTENDS Integers, FiniteSets, SequencesExt

CONSTANTS
  Client,      \* clients, of either SDK
  Mint,        \* token mints with limits
  Dest,        \* accounts funds are sent to
  Scope,       \* programs, roles and sub-accounts that other actions name
  MaxLimit,    \* bound: the largest u64 amount
  MaxWide,     \* bound: the largest amount of a ProgramScope, a u128
  MaxActions,  \* bound: length of the list
  MaxChanges,  \* bound: changes of the list
  Lists,       \* lists a role is created with, or given in an update
  AnyPlace,    \* no destination is named
  NoArg,       \* the action names nothing
  NoLimit,     \* `null`: spending is uncapped
  Sol          \* the native asset

ASSUME BoundsAssumption ==
  /\ MaxLimit \in Nat /\ MaxActions \in Nat /\ MaxChanges \in Nat
  /\ MaxWide \in Nat /\ MaxLimit <= MaxWide
ASSUME NoLimitAssumption == NoLimit \notin Nat
ASSUME PlaceAssumption ==
  /\ AnyPlace \notin Dest /\ Dest # {}
  /\ NoArg \notin Mint \cup Scope /\ Sol \notin Mint /\ Sol # NoArg

VARIABLES
  stored,   \* the role's actions on the chain
  changes,  \* how often the list has changed (history)
  updates,  \* how often an update changed it (history)
  view      \* view[c]: the list a client last read, with both counts then

vars == <<stored, changes, updates, view>>

(* The kinds of action, in the order of their numbers: a kind's number is  *)
(* its position.                                                           *)
PermissionEnum ==
  << "SolLimit", "SolRecurringLimit", "Program", "ProgramScope",
     "TokenLimit", "TokenRecurringLimit", "All", "ManageAuthority",
     "SubAccount", "StakeLimit", "StakeRecurringLimit", "StakeAll",
     "ProgramAll", "ProgramCurated", "AllButManageAuthority",
     "SolDestinationLimit", "SolRecurringDestinationLimit",
     "TokenDestinationLimit", "TokenRecurringDestinationLimit",
     "CloseSwigAuthority", "ReplaceAuthority", "SubAccountV2Create",
     "SubAccountV2All", "SubAccountV2Sign", "SubAccountV2Withdraw",
     "SubAccountV2Toggle", "ManageAuthorizationLocks" >>

Kind == Range(PermissionEnum)
SolKinds == {"SolLimit", "SolRecurringLimit", "SolDestinationLimit", "SolRecurringDestinationLimit"}
TokenKinds == {"TokenLimit", "TokenRecurringLimit", "TokenDestinationLimit",
               "TokenRecurringDestinationLimit"}
RecurringKinds == {"SolRecurringLimit", "SolRecurringDestinationLimit", "TokenRecurringLimit",
                   "TokenRecurringDestinationLimit", "StakeRecurringLimit"}
DestinationKinds == {"SolDestinationLimit", "SolRecurringDestinationLimit",
                     "TokenDestinationLimit", "TokenRecurringDestinationLimit"}
Asset == {Sol} \cup Mint
Amount == 0..MaxLimit
Wide == 0..MaxWide

(* What `as u64` keeps of an amount: its low word. *)
LowWord(n) == n % (MaxLimit + 1)

(* `left` is the amount of a one-off limit and the current amount of a     *)
(* recurring one; `topUp` is what a window begins with.  A ProgramScope    *)
(* has its limit there, and a type that says whether the limit counts.     *)
(* A SubAccount names its account once one is open, and is `bound` to it   *)
(* and to the role by the bump, the flag and the ids beside the address.   *)
(* Only the kinds that have a field in the account's data differ in it.    *)
Fields == [kind: Kind, arg: Mint \cup Scope \cup {NoArg}, to: Dest \cup {AnyPlace},
           left: Wide, topUp: Wide, scope: {"Basic", "Limit", "RecurringLimit"}, bound: BOOLEAN]

(* Both SDKs store a recurring limit with a full window, and no step adds  *)
(* to what is left of one.                                                 *)
Action ==
  {a \in Fields :
     /\ a.kind \in SolKinds => a.arg = NoArg
     /\ a.kind \in TokenKinds => a.arg \in Mint
     /\ a.kind \notin DestinationKinds => a.to = AnyPlace
     /\ a.kind # "ProgramScope" => {a.left, a.topUp} \subseteq Amount /\ a.scope = "Basic"
     /\ a.kind \notin RecurringKinds \cup {"ProgramScope"} => a.topUp = 0
     /\ a.kind \in RecurringKinds => a.left <= a.topUp
     /\ a.kind # "SubAccount" => ~a.bound}

ASSUME ListsAssumption == \A l \in Lists : l \in Seq(Action) /\ l # <<>>

Marker(k) == [kind |-> k, arg |-> NoArg, to |-> AnyPlace, left |-> 0, topUp |-> 0,
              scope |-> "Basic", bound |-> FALSE]

(* What ActionsBuilder stores for the three forms of a ProgramScope.       *)
ProgramScopeBasic(target) == [Marker("ProgramScope") EXCEPT !.arg = target]
ProgramScopeLimit(target, n) == [ProgramScopeBasic(target) EXCEPT !.left = n, !.topUp = n]
ProgramScopeRecurringLimit(target, n) == [ProgramScopeBasic(target) EXCEPT !.left = n, !.topUp = n]

(* Some indices in an order: the j-th has j - 1 of them before it.  In the *)
(* order of the list they are that part of it.                             *)
InOrder(I, before) ==
  [j \in 1..Cardinality(I) |->
     CHOOSE i \in I : Cardinality({h \in I : <<h, i>> \in before}) = j - 1]

Ascending(I) == {p \in I \X I : p[1] < p[2]}
Those(list, I) ==
  LET order == InOrder(I, Ascending(I)) IN [j \in DOMAIN order |-> list[order[j]]]

-----------------------------------------------------------------------------
(* TypeScript: queries on the list.                                        *)

IsRoot(list) == \E a \in Range(list) : a.kind = "All"

HasAllButManageAuthorityAccess(a) == a.kind \in {"All", "AllButManageAuthority"}

HasProgramAction(list) ==
  \E a \in Range(list) : \/ HasAllButManageAuthorityAccess(a)
                         \/ a.kind \in {"Program", "ProgramAll", "ProgramCurated"}

(* What TypeScript's addAuthority stores.                                  *)
EnsureProgramAction(list) ==
  IF IsRoot(list) \/ HasProgramAction(list) THEN list ELSE Append(list, Marker("ProgramAll"))

(* Whether an action limits the spending of an asset, to any destination.  *)
Limits(a, asset) == \/ asset = Sol /\ a.kind \in SolKinds
                    \/ a.kind \in TokenKinds /\ a.arg = asset

BugLimitControl(a) ==
  [hasControl |-> TRUE, amount |-> IF a.kind \in RecurringKinds THEN a.topUp ELSE a.left]

(* SpendController.once and recurring: the amount is what is left now.     *)
LimitControl(a) == [hasControl |-> TRUE, amount |-> a.left]

(* The SpendController of one action.                                      *)
Control(a, asset) ==
  CASE HasAllButManageAuthorityAccess(a) -> [hasControl |-> TRUE, amount |-> NoLimit]
    [] ~HasAllButManageAuthorityAccess(a) /\ Limits(a, asset) -> LimitControl(a)
    [] OTHER -> [hasControl |-> FALSE, amount |-> NoLimit]

LimitOf(control) == IF control.hasControl THEN control.amount ELSE 0

(* An amount of 0 is falsy: the question is then whether one may spend.    *)
WithinLimits(control, n) ==
  /\ control.hasControl
  /\ n # 0 => LimitOf(control) = NoLimit \/ LimitOf(control) >= n

CanSpend(list, asset, n) == \E a \in Range(list) : WithinLimits(Control(a, asset), n)

SpendLimits(list, asset) == {LimitOf(Control(a, asset)) : a \in Range(list)}

SpendLimit(list, asset) ==
  IF NoLimit \in SpendLimits(list, asset) THEN NoLimit
  ELSE Max(SpendLimits(list, asset) \cup {0})

(* solSpend, tokenSpend: the first uncapped controller, else that of the   *)
(* first action whose limit is not null.                                   *)
SpendOf(list, asset) ==
  LET isWanted(a) == (LimitOf(Control(a, asset)) = NoLimit) = (NoLimit \in SpendLimits(list, asset))
  IN  Control(list[SelectInSeq(list, isWanted)], asset)

-----------------------------------------------------------------------------
(* Rust: the list as permissions, and permissions as actions.              *)

(* The order in which from_role asks for the kinds.  Two kinds are missing *)
(* and never read.                                                         *)
ReadOrder ==
  << "All", "ManageAuthority", "ReplaceAuthority", "SolLimit", "SolRecurringLimit",
     "TokenLimit", "TokenRecurringLimit", "TokenDestinationLimit",
     "TokenRecurringDestinationLimit", "SolDestinationLimit",
     "SolRecurringDestinationLimit", "ProgramAll", "ProgramCurated", "Program",
     "ProgramScope", "SubAccount", "SubAccountV2Create", "SubAccountV2All",
     "SubAccountV2Sign", "SubAccountV2Withdraw", "SubAccountV2Toggle", "StakeLimit",
     "StakeRecurringLimit", "StakeAll", "AllButManageAuthority" >>

(* Kinds of which get_action reads the first only.                         *)
SingleKinds == {"All", "ManageAuthority", "SolLimit", "SolRecurringLimit", "ProgramAll",
                "ProgramCurated", "SubAccount", "SubAccountV2Create", "StakeLimit",
                "StakeRecurringLimit", "StakeAll", "AllButManageAuthority"}

(* One variant of Permission stands for a limit and its recurring form.    *)
VariantOf(k) ==
  CASE k \in {"SolLimit", "SolRecurringLimit"} -> "Sol"
    [] k \in {"SolDestinationLimit", "SolRecurringDestinationLimit"} -> "SolDestination"
    [] k \in {"TokenLimit", "TokenRecurringLimit"} -> "Token"
    [] k \in {"TokenDestinationLimit", "TokenRecurringDestinationLimit"} -> "TokenDestination"
    [] k \in {"StakeLimit", "StakeRecurringLimit"} -> "Stake"
    [] OTHER -> k

(* How much of an action is shown, and what is left of a recurring one.    *)
(* Of a SubAccount only the address is shown, of a limited scope the low   *)
(* word of its limit, and nothing of what a scope has used.                *)
PermissionOf(a) ==
  LET recurring == a.kind \in RecurringKinds \/ a.scope = "RecurringLimit"
  IN  [variant |-> VariantOf(a.kind), arg |-> a.arg, to |-> a.to, recurring |-> recurring,
       amount |-> CASE a.kind = "ProgramScope" -> IF a.scope = "Basic" THEN NoLimit ELSE LowWord(a.topUp)
                    [] a.kind \in RecurringKinds -> a.topUp
                    [] OTHER -> a.left,
       current |-> IF a.kind \in RecurringKinds THEN a.left ELSE 0]

IsKnown(a) == a.kind \in Range(ReadOrder)
First(list, i) == \A j \in 1..(i - 1) : list[j].kind # list[i].kind

BugIsRead(list, i) == IsKnown(list[i]) /\ First(list, i)

IsRead(list, i) ==
  /\ IsKnown(list[i])
  /\ list[i].kind \in SingleKinds => First(list, i)

(* Kind by kind, and those of a kind as they are in the list.              *)
Rank == [k \in Range(ReadOrder) |-> CHOOSE r \in DOMAIN ReadOrder : ReadOrder[r] = k]
ReadBefore(list, h, i) ==
  \/ Rank[list[h].kind] < Rank[list[i].kind]
  \/ list[h].kind = list[i].kind /\ h < i

FromRole(list) ==
  LET read == {i \in DOMAIN list : IsRead(list, i)}
      order == InOrder(read, {p \in read \X read : ReadBefore(list, p[1], p[2])})
  IN  [j \in DOMAIN order |-> PermissionOf(list[order[j]])]

(* The kind a permission stands for.                                       *)
KindOf(p) ==
  CHOOSE k \in Range(ReadOrder) :
    /\ VariantOf(k) = p.variant
    /\ k # "ProgramScope" => (k \in RecurringKinds) = p.recurring

(* to_client_actions: a recurring limit starts a full window, a scope      *)
(* starts with 0 as its current amount, a SubAccount is bound to nothing.  *)
ClientAction(p) ==
  [Marker(KindOf(p)) EXCEPT
     !.arg = p.arg, !.to = p.to,
     !.left = IF p.variant = "ProgramScope" THEN 0 ELSE p.amount,
     !.topUp = IF p.amount # NoLimit /\ (p.recurring \/ p.variant = "ProgramScope") THEN p.amount ELSE 0,
     !.scope = CASE p.variant # "ProgramScope" \/ p.amount = NoLimit -> "Basic"
                 [] p.variant = "ProgramScope" /\ p.recurring -> "RecurringLimit"
                 [] p.variant = "ProgramScope" /\ p.amount # NoLimit /\ ~p.recurring -> "Limit"]

ToClientActions(permissions) == [i \in DOMAIN permissions |-> ClientAction(permissions[i])]

BugToActionType(p) ==
  CASE p.variant = "Sol" -> 1 [] p.variant = "SolDestination" -> 16
    [] p.variant = "Token" -> 5 [] p.variant = "TokenDestination" -> 18
    [] p.variant = "Stake" -> 10 [] OTHER -> 7

(* to_action_type: the number a permission is removed by.                  *)
ToActionType(p) ==
  CASE p.variant = "All" -> 7
    [] p.variant = "ManageAuthority" -> 8
    [] p.variant = "ReplaceAuthority" -> 21
    [] p.variant = "Sol" -> IF p.recurring THEN 2 ELSE 1
    [] p.variant = "SolDestination" -> IF p.recurring THEN 17 ELSE 16
    [] p.variant = "Token" -> IF p.recurring THEN 6 ELSE 5
    [] p.variant = "TokenDestination" -> IF p.recurring THEN 19 ELSE 18
    [] p.variant = "Program" -> 3
    [] p.variant = "ProgramAll" -> 13
    [] p.variant = "ProgramCurated" -> 14
    [] p.variant = "ProgramScope" -> 4
    [] p.variant = "SubAccount" -> 9
    [] p.variant = "SubAccountV2Create" -> 22
    [] p.variant = "SubAccountV2All" -> 23
    [] p.variant = "SubAccountV2Sign" -> 24
    [] p.variant = "SubAccountV2Withdraw" -> 25
    [] p.variant = "SubAccountV2Toggle" -> 26
    [] p.variant = "Stake" -> IF p.recurring THEN 11 ELSE 10
    [] p.variant = "StakeAll" -> 12
    [] p.variant = "AllButManageAuthority" -> 15

HasAllPermissions(permissions) == \E p \in Range(permissions) : p.variant = "All"

CanSpendSol(permissions, n) ==
  \/ HasAllPermissions(permissions)
  \/ \E p \in Range(permissions) : /\ p.variant = "Sol"
                                   /\ n <= p.amount \/ (p.recurring /\ n <= p.current)

-----------------------------------------------------------------------------
(* The account and its clients.                                            *)

TypeOK ==
  /\ stored \in Seq(Action) /\ Len(stored) \in 1..MaxActions
  /\ changes \in 0..MaxChanges
  /\ updates \in 0..changes
  /\ view \in [Client -> [actions: Seq(Action), changes: 0..changes, updates: 0..updates]]

Current == [actions |-> stored, changes |-> changes, updates |-> updates]

(* A role of createSwig or the Rust SDK has the list that was asked for, a *)
(* role of TypeScript's addAuthority may have one action more.             *)
Init ==
  /\ stored \in Lists \cup {EnsureProgramAction(l) : l \in Lists}
  /\ Len(stored) <= MaxActions
  /\ changes = 0 /\ updates = 0
  /\ view = [c \in Client |-> Current]

(* Swig.fetch and refetch, get_role_permissions and refresh_permissions.   *)
Refetch(c) ==
  /\ view[c] # Current
  /\ view' = [view EXCEPT ![c] = Current]
  /\ UNCHANGED <<stored, changes, updates>>

(* What every update has in common: it leaves the list as given, unless    *)
(* the program refuses it.                                                 *)
Update(list) ==
  /\ changes < MaxChanges
  /\ list # <<>> /\ Len(list) <= MaxActions
  /\ stored' = list
  /\ changes' = changes + 1 /\ updates' = updates + 1
  /\ UNCHANGED view

ReplaceAllActions(list) == Update(list)

AddActions(a) == Update(Append(stored, a))

(* A Rust client replaces the actions by the permissions it has read.      *)
WriteBack(c) == Update(ToClientActions(FromRole(view[c].actions)))

(* The types go as numbers; the program removes every action of them.      *)
RemoveActionsByType(c, p) ==
  /\ p \in Range(FromRole(view[c].actions))
  /\ Update(Those(stored, {i \in DOMAIN stored :
                              stored[i].kind # PermissionEnum[ToActionType(p)]}))

(* The list without the actions at some positions, counted from 0.         *)
WithoutIndices(list, indices) == Those(list, {i \in DOMAIN list : i - 1 \notin indices})

BugRemoveActionsByIndex(c, positions) ==
  /\ positions \subseteq DOMAIN view[c].actions
  /\ \A i \in positions : i < Len(stored)
  /\ Update(WithoutIndices(stored, positions))

(* A TypeScript client names the positions it sees.                        *)
RemoveActionsByIndex(c, positions) ==
  /\ positions \subseteq DOMAIN view[c].actions
  /\ positions \subseteq DOMAIN stored
  /\ Update(WithoutIndices(stored, {i - 1 : i \in positions}))

(* Whether the program may charge a transfer to an action.                 *)
Charges(a, asset, to) ==
  /\ a.kind \in IF asset = Sol THEN SolKinds ELSE TokenKinds
  /\ a.arg \in {NoArg, asset}
  /\ a.to \in {AnyPlace, to}

(* What an action covers, in the window that runs or in the next one.      *)
Payable(a, due) == IF due THEN a.topUp ELSE a.left

BugSpend(asset, to, n) ==
  /\ changes < MaxChanges
  /\ \E i \in DOMAIN stored :
       /\ Charges(stored[i], asset, to)
       /\ stored' = [stored EXCEPT ![i].left = @ - n]
  /\ changes' = changes + 1
  /\ UNCHANGED <<updates, view>>

(* The holder's transfer, in a new window or not.  A transfer on an        *)
(* unlimited action changes no list.                                       *)
Spend(asset, to, n) ==
  /\ changes < MaxChanges
  /\ \E i \in DOMAIN stored, due \in BOOLEAN :
       /\ Charges(stored[i], asset, to)
       /\ due => stored[i].kind \in RecurringKinds
       /\ n <= Payable(stored[i], due)
       /\ stored' = [stored EXCEPT ![i].left = Payable(stored[i], due) - n]
  /\ changes' = changes + 1
  /\ UNCHANGED <<updates, view>>

(* The holder opens a sub-account: the program fills in the action.        *)
OpenSubAccount(account) ==
  /\ changes < MaxChanges
  /\ \E i \in DOMAIN stored :
       /\ stored[i].kind = "SubAccount" /\ stored[i].arg = NoArg
       /\ stored' = [stored EXCEPT ![i].arg = account, ![i].bound = TRUE]
  /\ changes' = changes + 1
  /\ UNCHANGED <<updates, view>>

Added == UNION {Range(l) : l \in Lists}

Next ==
  \/ \E c \in Client :
       \/ Refetch(c)
       \/ WriteBack(c)
       \/ \E p \in Range(FromRole(view[c].actions)) : RemoveActionsByType(c, p)
       \/ \E positions \in (SUBSET DOMAIN view[c].actions) \ {{}} : RemoveActionsByIndex(c, positions)
  \/ \E l \in Lists : ReplaceAllActions(l)
  \/ \E a \in Added : AddActions(a)
  \/ \E asset \in Asset, to \in Dest, n \in Amount \ {0} : Spend(asset, to, n)
  \/ \E account \in Scope : OpenSubAccount(account)

Spec == Init /\ [][Next]_vars

-----------------------------------------------------------------------------
(* Properties.                                                             *)

(* The recurring limits: any of their windows may be over by now, and the  *)
(* list does not tell, for it changes only when something is spent.        *)
Windows == {i \in DOMAIN stored : stored[i].kind \in RecurringKinds}

(* Whether the program accepts the transfer, when these windows are over.  *)
IsCovered(asset, to, n, over) ==
  \E i \in DOMAIN stored :
    \/ stored[i].kind \in {"All", "AllButManageAuthority"}
    \/ Charges(stored[i], asset, to) /\ n <= Payable(stored[i], i \in over)

IsLatest(c) == view[c].changes = changes

(* What canSpendSol and canSpendToken tell a client with the latest list:  *)
(* a yes means that the program accepts the transfer to some destination,  *)
(* whichever windows are over by now; a no means that it accepts it to     *)
(* none unless a window is over; the spend limit is the largest amount of  *)
(* which they say yes; and the controller that solSpend and tokenSpend     *)
(* hand out is uncapped if one is, and promises nothing beyond that.       *)
LimitsAgree ==
  \A c \in Client : IsLatest(c) =>
    \A asset \in Asset, n \in Amount :
      LET list == view[c].actions
      IN  /\ CanSpend(list, asset, n) =>
               \A over \in SUBSET Windows : \E to \in Dest : IsCovered(asset, to, n, over)
          /\ ~CanSpend(list, asset, n) => \A to \in Dest : ~IsCovered(asset, to, n, {})
          /\ n # 0 => (CanSpend(list, asset, n) <=>
                         SpendLimit(list, asset) = NoLimit \/ n <= SpendLimit(list, asset))
          /\ WithinLimits(SpendOf(list, asset), n) => CanSpend(list, asset, n)
          /\ SpendLimit(list, asset) = NoLimit => LimitOf(SpendOf(list, asset)) = NoLimit

(* What Rust's can_spend_sol tells a client with the latest list.  Of each *)
(* kind of limit without a destination the program's first counts, for     *)
(* from_role shows no other: a yes means that a transfer to any place is   *)
(* accepted once the windows are over, and no transfer is refused that the *)
(* first limit or the first recurring limit covers, in its window or in    *)
(* the next, whatever other limits the role has.                           *)
CanSpendSolIsBounded ==
  \A c \in Client : IsLatest(c) =>
    \A n \in Amount :
      LET yes == CanSpendSol(FromRole(view[c].actions), n)
      IN  /\ yes => \A to \in Dest : IsCovered(Sol, to, n, Windows)
          /\ \A i \in DOMAIN stored, due \in BOOLEAN :
               (/\ stored[i].kind \in {"SolLimit", "SolRecurringLimit"} /\ First(stored, i)
                /\ n <= Payable(stored[i], due)) => yes

(* What either SDK tells a client with the latest list about spending is   *)
(* what the program accepts, as far as the two say.                        *)
SpendAnswersAgree == LimitsAgree /\ CanSpendSolIsBounded

(* The grant of an action, whatever has been used of it and whichever      *)
(* sub-account it has opened.                                              *)
Grant(a) == [a EXCEPT !.left = 0, !.arg = IF a.kind = "SubAccount" THEN NoArg ELSE @, !.bound = FALSE]
Count(list, x) == Cardinality({i \in DOMAIN list : list[i] = x})
Grants(list) == [i \in DOMAIN list |-> Grant(list[i])]

(* The kinds a role may have several of, each with an object of its own.   *)
RepeatableKinds ==
  TokenKinds \cup {"ReplaceAuthority", "SolDestinationLimit", "SolRecurringDestinationLimit",
                   "Program", "ProgramScope", "SubAccountV2All", "SubAccountV2Sign",
                   "SubAccountV2Withdraw", "SubAccountV2Toggle"}

(* What is left of an action that Rust reads and writes back: a recurring  *)
(* limit has a full window, whatever was spent of it; a scope has nothing  *)
(* used, no limit if its type is basic, and else the low word of it; a     *)
(* SubAccount has its address but is bound to nothing.                     *)
Renewed(a) ==
  CASE a.kind \in RecurringKinds -> [a EXCEPT !.left = a.topUp]
    [] a.kind = "ProgramScope" ->
         [a EXCEPT !.left = 0, !.topUp = IF a.scope = "Basic" THEN 0 ELSE LowWord(@)]
    [] a.kind = "SubAccount" -> [a EXCEPT !.bound = FALSE]
    [] OTHER -> a

(* Reading a role's permissions in Rust and writing them back, with no     *)
(* change in between, is no identity, and what it loses is this and no     *)
(* more: the actions of the two kinds Rust does not know, all but the      *)
(* first of a kind that has no object of its own, and what Renewed says of *)
(* the rest.  Every other action stays, as often as it was there, with     *)
(* what is left of a one-off limit, and none is added.                     *)
WriteBackKeepsGrants ==
  [][\A c \in Client :
       (WriteBack(c) /\ IsLatest(c)) =>
         LET stays(i) == /\ IsKnown(stored[i])
                         /\ stored[i].kind \in RepeatableKinds \/ First(stored, i)
         IN  \A x \in {Renewed(a) : a \in Range(stored)} \cup Range(stored') :
               Count(stored', x) =
                 Cardinality({i \in DOMAIN stored : stays(i) /\ Renewed(stored[i]) = x})]_vars

(* Removing by type what Rust shows as a permission takes away every       *)
(* permission of its kind (a limit and its recurring form are two kinds)   *)
(* and nothing else, however old the permissions the caller looked at.     *)
RevokesExactly ==
  [][\A c \in Client : \A p \in Range(FromRole(view[c].actions)) :
       RemoveActionsByType(c, p) =>
         /\ LET shown == FromRole(stored)
            IN  FromRole(stored') = Those(shown, {i \in DOMAIN shown : KindOf(shown[i]) # KindOf(p)})
         /\ LET unread(list) == Those(list, {i \in DOMAIN list : ~IsKnown(list[i])})
            IN  unread(stored') = unread(stored)]_vars

(* Removing by index takes away the grants the client saw at those indices *)
(* and no other, as long as no update has landed since it looked:          *)
(* spending, new windows and opened sub-accounts do not move the actions.  *)
RemovesTheSeen ==
  [][\A c \in Client : \A positions \in SUBSET DOMAIN view[c].actions :
       (RemoveActionsByIndex(c, positions) /\ view[c].updates = updates) =>
         \A x \in Range(Grants(stored)) :
           Count(Grants(stored), x) = Count(Grants(stored'), x)
             + Cardinality({i \in positions : Grant(view[c].actions[i]) = x})]_vars

-----------------------------------------------------------------------------
(* What the repository says and the code does not do.                      *)

(* builder.unit.test.ts:165: "programScopeLimit() creates limited scope",  *)
(* and builder.ts:249 returns a "Limit ProgramScope".  A role that is      *)
(* given one has a scope with that limit, as Rust reads the role.          *)
ProgramScopesAreLimited ==
  [][\A target \in Scope, n \in Amount \ {0} :
       AddActions(ProgramScopeLimit(target, n)) =>
         \E p \in Range(FromRole(stored')) :
           p.variant = "ProgramScope" /\ p.arg = target /\ p.amount = n /\ ~p.recurring]_vars
=============================================================================
