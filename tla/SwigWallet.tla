----------------------------- MODULE SwigWallet -----------------------------
(***************************************************************************)
(* The Rust SDK's SwigWallet (solana/rust/sdk/src/wallet.rs) on top of its *)
(* SwigInstructionBuilder and ClientRole, with several wallet handles open *)
(* on one Swig account at once.                                            *)
(*                                                                         *)
(* A handle caches three things it read from the account: its role id, the *)
(* role's permissions and, for a secp authority, the replay counter (the   *)
(* odometer).  Each method signs with the cached counter plus one, sends,  *)
(* and on success refreshes the permissions and advances the counter --    *)
(* or forgets to.  Each RPC is a point where the other handles and the     *)
(* chain move, where an answer can be lost, and where a call returns early.*)
(*                                                                         *)
(* A method that returns an error before it sends anything (no slot, no    *)
(* blockhash, an unsupported operation, a missing signer) changes nothing, *)
(* so it is a stuttering step and has no action here.                      *)
(*                                                                         *)
(* The on-chain program is not in this repository.  Its part (external) is *)
(* taken from how the SDK and its tests use it: a counted signature is     *)
(* accepted only with the stored odometer plus one and within a window of  *)
(* slots, and any transaction may be refused or lost.                      *)
(***************************************************************************)
EXTENDS Naturals, FiniteSets

CONSTANTS
  Client,           \* the SwigWallet handles
  Key,              \* the authorities that may ever be on the account
  NoKey,            \* no authority: an unused role id, a handle not open yet
  KindOf,           \* [Key -> Kind]: the ClientRole implementation for a key
  RootKey,          \* the authority the account was created with (role 0)
  MaxRole,          \* bound: role ids the program hands out
  MaxInner,         \* bound: inner instructions of one sign_v2
  Methods,          \* the methods callers use, a subset of Op and the switch
  MaxCalls,         \* bound: [Client -> Nat], method calls of each handle
  MaxSlot,          \* bound: slots that pass
  MaxFaults,        \* bound: lost transactions, lost answers, failed reads
  SlotWindow,       \* MAX_SIGNATURE_AGE_IN_SLOTS: how old a signature may be
  OdometerModulus,  \* 2^32 in the code: the counter is a wrapping u32
  MaxOdometer       \* bound: counted signatures per role, below a wrap

Kind == {"Ed25519", "Secp", "SecpSession", "ProgramExec"}

ASSUME KeyAssumption ==
  /\ NoKey \notin Key \cup Nat
  /\ RootKey \in Key
  /\ KindOf \in [Key -> Kind]

ASSUME BoundAssumption ==
  /\ MaxRole \in Nat \ {0}
  /\ MaxInner \in Nat \ {0}
  /\ MaxCalls \in [Client -> Nat]
  /\ {MaxSlot, MaxFaults, SlotWindow} \subseteq Nat
  /\ {OdometerModulus, MaxOdometer} \subseteq Nat
  /\ MaxOdometer + 1 < OdometerModulus

RoleId == 0 .. MaxRole - 1
Odometer == 0 .. OdometerModulus - 1

Op == {"AddAuthority", "RemoveAuthority", "UpdateAuthority", "SignV2",
       "SubAccountV1", "SubAccountV2", "CreateSession", "SetRentClaimer"}

(* A transaction: who sent it, as which call, since which synchronisation  *)
(* (epoch), and what the signature covers.                                 *)
Tx == [client : Client, call : Nat, epoch : Nat, op : Op,
       role : RoleId, key : Key, counter : Odometer, slot : Nat,
       inner : Nat, target : RoleId, subject : Key \cup {NoKey}]

NoTx == [call |-> 0]

VARIABLES
  (* the account, as the program keeps it *)
  roleKey,      \* [RoleId -> Key \cup {NoKey}]: the authority of a role
  odometer,     \* [RoleId -> Nat]: its signature_odometer
  version,      \* [RoleId -> Nat]: how often its permissions have changed
  roleCounter,  \* the next role id; ids are never handed out twice
  slot,         \* the cluster's slot
  (* the network *)
  net,          \* transactions sent that have neither landed nor died
  landed,       \* transactions that were executed
  faults,       \* how many of MaxFaults have happened
  (* the handles *)
  hKey,         \* [Client -> Key \cup {NoKey}]: its client_role
  hRole,        \* [Client -> RoleId]: the builder's role_id
  hOdo,         \* [Client -> Odometer]: the client_role's odometer
  cached,       \* [Client -> ...]: current_role, the cached permissions
  pc,           \* where the handle's running call is
  tx,           \* the transaction of the handle's last call
  named,        \* the role id remove_authority looked up
  ret,          \* what the last call returned
  acked,        \* history: executed transactions the handles have counted
  seen,         \* history: version of the role once its last tx had landed
  epoch, calls  \* history: synchronisations and calls of the handle

chain == <<roleKey, odometer, version, roleCounter>>
cache == <<hKey, hRole, hOdo, cached>>
hist == <<acked, seen, epoch, calls>>
vars == <<roleKey, odometer, version, roleCounter, slot, net, landed, faults,
          hKey, hRole, hOdo, cached, pc, tx, named, ret, acked, seen, epoch,
          calls>>

-----------------------------------------------------------------------------
(* The client roles.                                                       *)

(* u32::wrapping_add(1). *)
WrappingAdd(n) == IF n + 1 = OdometerModulus THEN 0 ELSE n + 1

(* Kinds whose client role keeps an odometer and whose stored authority    *)
(* has one; for the others update and increment do nothing.                *)
HasOdometer(k) == KindOf[k] \in {"Secp", "SecpSession"}

(* Whether the signature of op covers the counter.  A session role signs   *)
(* every operation but create_session with its plain session key.          *)
Counted(k, op) ==
  \/ KindOf[k] = "Secp"
  \/ KindOf[k] = "SecpSession" /\ op = "CreateSession"

(* ProgramExec has no rent-claimer and no V2 sub-account instruction, and  *)
(* update_authority asks for its odometer, which is an error.              *)
Supports(k, op) ==
  KindOf[k] = "ProgramExec" =>
    op \notin {"SetRentClaimer", "SubAccountV2", "UpdateAuthority"}

IncrementOdometer(c) ==
  hOdo' = [hOdo EXCEPT ![c] = IF HasOdometer(hKey[c]) THEN WrappingAdd(@) ELSE @]

-----------------------------------------------------------------------------
(* The methods: what each does until its transaction is on its way.        *)

Ready(c, method) ==
  /\ method \in Methods
  /\ hKey[c] # NoKey /\ pc[c] = "idle" /\ calls[c] < MaxCalls[c]

(* The builder signs op with the cached role id and, where the signature   *)
(* is counted, the cached odometer plus one and the slot just read.  All   *)
(* inner instructions of a sign_v2 carry the same counter.                 *)
Send(c, op, inner, target, subject) ==
  LET counted == Counted(hKey[c], op)
      t == [client |-> c, call |-> calls[c] + 1, epoch |-> epoch[c], op |-> op,
            role |-> hRole[c], key |-> hKey[c],
            counter |-> IF counted THEN WrappingAdd(hOdo[c]) ELSE 0,
            slot |-> IF counted THEN slot ELSE 0,
            inner |-> inner, target |-> target, subject |-> subject]
  IN  /\ Supports(hKey[c], op)
      /\ net' = net \cup {t}
      /\ tx' = [tx EXCEPT ![c] = t]
      /\ calls' = [calls EXCEPT ![c] = @ + 1]
      /\ pc' = [pc EXCEPT ![c] = "sent"]
      /\ ret' = [ret EXCEPT ![c] = "none"]
      /\ UNCHANGED <<chain, slot, landed, faults, cache, named, acked, seen, epoch>>

AddAuthority(c, k) == Ready(c, "AddAuthority") /\ Send(c, "AddAuthority", 1, hRole[c], k)

(* Mutants of the lookup: the id guessed from the count of roles; the      *)
(* search that stops at the first role there is.                           *)
BugLookupCount(c, k) ==
  /\ Ready(c, "RemoveAuthority")
  /\ \E r \in RoleId : roleKey[r] = k
  /\ named' = [named EXCEPT ![c] = [role |-> roleCounter, key |-> k]]
  /\ pc' = [pc EXCEPT ![c] = "removing"]
  /\ tx' = [tx EXCEPT ![c] = NoTx]
  /\ ret' = [ret EXCEPT ![c] = "none"]
  /\ UNCHANGED <<chain, slot, net, landed, faults, cache, hist>>

BugLookupAny(c, k) ==
  /\ Ready(c, "RemoveAuthority")
  /\ \E r \in RoleId : /\ roleKey[r] # NoKey
                       /\ named' = [named EXCEPT ![c] = [role |-> r, key |-> k]]
  /\ pc' = [pc EXCEPT ![c] = "removing"]
  /\ tx' = [tx EXCEPT ![c] = NoTx]
  /\ ret' = [ret EXCEPT ![c] = "none"]
  /\ UNCHANGED <<chain, slot, net, landed, faults, cache, hist>>

(* remove_authority first fetches the account and looks the role id up;    *)
(* an unknown authority is AuthorityNotFound.                              *)
LookupRemoval(c, k) ==
  /\ Ready(c, "RemoveAuthority")
  /\ \E r \in RoleId : /\ roleKey[r] = k
                       /\ named' = [named EXCEPT ![c] = [role |-> r, key |-> k]]
  /\ pc' = [pc EXCEPT ![c] = "removing"]
  /\ tx' = [tx EXCEPT ![c] = NoTx]
  /\ ret' = [ret EXCEPT ![c] = "none"]
  /\ UNCHANGED <<chain, slot, net, landed, faults, cache, hist>>

RemoveAuthority(c) ==
  /\ pc[c] = "removing"
  /\ Send(c, "RemoveAuthority", 1, named[c].role, named[c].key)

(* No slot or no blockhash after the lookup: nothing is sent. *)
AbortRemoval(c) ==
  /\ pc[c] = "removing"
  /\ faults' = faults + 1
  /\ faults' <= MaxFaults
  /\ pc' = [pc EXCEPT ![c] = "idle"]
  /\ ret' = [ret EXCEPT ![c] = "err"]
  /\ UNCHANGED <<chain, slot, net, landed, cache, tx, named, hist>>

UpdateAuthority(c, r) ==
  Ready(c, "UpdateAuthority") /\ Send(c, "UpdateAuthority", 1, r, NoKey)

SignV2(c, n) == Ready(c, "SignV2") /\ Send(c, "SignV2", n, hRole[c], NoKey)

(* create_, sign_with_, withdraw_from_, withdraw_token_from_ and           *)
(* toggle_sub_account, and their V2 forms: one control path each.          *)
SubAccountV1(c) == Ready(c, "SubAccountV1") /\ Send(c, "SubAccountV1", 1, hRole[c], NoKey)
SubAccountV2(c) == Ready(c, "SubAccountV2") /\ Send(c, "SubAccountV2", 1, hRole[c], NoKey)

CreateSession(c) == Ready(c, "CreateSession") /\ Send(c, "CreateSession", 1, hRole[c], NoKey)

SetRentClaimer(c) == Ready(c, "SetRentClaimer") /\ Send(c, "SetRentClaimer", 1, hRole[c], NoKey)

-----------------------------------------------------------------------------
(* What each method does with the answer.                                  *)

(* On success these fetch the permissions again, then advance the counter. *)
Refreshes(op) == op \in {"RemoveAuthority", "UpdateAuthority", "SignV2",
                         "SubAccountV1", "SubAccountV2"}

Return(c, r) ==
  /\ pc' = [pc EXCEPT ![c] = "idle"]
  /\ ret' = [ret EXCEPT ![c] = r]

(* Mutant: the answer is returned as it is, as add_authority does.         *)
BugAnswerThenRefresh(c) ==
  /\ pc[c] = "sent" /\ tx[c] \in landed /\ Refreshes(tx[c].op)
  /\ IncrementOdometer(c)
  /\ acked' = acked \cup {tx[c]}
  /\ Return(c, "ok")
  /\ UNCHANGED <<chain, slot, net, landed, faults, hKey, hRole, cached, tx,
                 named, seen, epoch, calls>>

AnswerThenRefresh(c) ==
  /\ pc[c] = "sent" /\ tx[c] \in landed /\ Refreshes(tx[c].op)
  /\ pc' = [pc EXCEPT ![c] = "refreshing"]
  /\ UNCHANGED <<chain, slot, net, landed, faults, cache, tx, named, ret, hist>>

(* set_rent_claimer advances the counter and does not refresh. *)
AnswerSetRentClaimer(c) ==
  /\ pc[c] = "sent" /\ tx[c] \in landed /\ tx[c].op = "SetRentClaimer"
  /\ IncrementOdometer(c)
  /\ acked' = acked \cup {tx[c]}
  /\ Return(c, "ok")
  /\ UNCHANGED <<chain, slot, net, landed, faults, hKey, hRole, cached, tx,
                 named, seen, epoch, calls>>

(* add_authority and create_session return the answer as it is. *)
AnswerPlain(c) ==
  /\ pc[c] = "sent" /\ tx[c] \in landed
  /\ tx[c].op \in {"AddAuthority", "CreateSession"}
  /\ Return(c, "ok")
  /\ UNCHANGED <<chain, slot, net, landed, faults, cache, tx, named, hist>>

(* Mutant: the counter advances on an error too.                           *)
BugAnswerError(c) ==
  /\ pc[c] = "sent"
  /\ faults' = IF tx[c] \in net \cup landed THEN faults + 1 ELSE faults
  /\ faults' <= MaxFaults
  /\ IncrementOdometer(c)
  /\ Return(c, "err")
  /\ UNCHANGED <<chain, slot, net, landed, hKey, hRole, cached, tx, named, hist>>

(* The program refused the transaction, or the wait for its confirmation   *)
(* ended without an answer: it may have landed, or may still land.         *)
AnswerError(c) ==
  /\ pc[c] = "sent"
  /\ faults' = IF tx[c] \in net \cup landed THEN faults + 1 ELSE faults
  /\ faults' <= MaxFaults
  /\ Return(c, "err")
  /\ UNCHANGED <<chain, slot, net, landed, cache, tx, named, hist>>

(* refresh_permissions at the end of a call or of switch_authority.  The   *)
(* calls advance the counter after it.                                     *)
Refresh(c) ==
  /\ pc[c] \in {"refreshing", "switching"}
  /\ roleKey[hRole[c]] # NoKey
  /\ cached' = [cached EXCEPT ![c] = [role |-> hRole[c], version |-> version[hRole[c]]]]
  /\ IF pc[c] = "refreshing"
     THEN IncrementOdometer(c) /\ acked' = acked \cup {tx[c]}
     ELSE UNCHANGED <<hOdo, acked>>
  /\ Return(c, "ok")
  /\ UNCHANGED <<chain, slot, net, landed, faults, hKey, hRole, tx, named, seen,
                 epoch, calls>>

(* Mutant: a role that is not found is looked up again.                    *)
BugRefreshError(c) ==
  /\ pc[c] \in {"refreshing", "switching"}
  /\ roleKey[hRole[c]] # NoKey
  /\ faults' = faults + 1
  /\ faults' <= MaxFaults
  /\ Return(c, "err")
  /\ UNCHANGED <<chain, slot, net, landed, cache, tx, named, hist>>

(* The role is gone (AuthorityNotFound) or the read fails: the call        *)
(* returns that error and the counter is not advanced.                     *)
RefreshError(c) ==
  /\ pc[c] \in {"refreshing", "switching"}
  /\ faults' = IF roleKey[hRole[c]] = NoKey THEN faults ELSE faults + 1
  /\ faults' <= MaxFaults
  /\ Return(c, "err")
  /\ UNCHANGED <<chain, slot, net, landed, cache, tx, named, hist>>

-----------------------------------------------------------------------------
(* Opening a handle and switching its authority.                           *)

(* Mutant: the stored odometer is never copied.                            *)
BugSyncedOdometer(k, r) == 0

(* The counter of a client role k that is synchronised with role r: k's    *)
(* own counter starts at 0 and is overwritten when r stores one.           *)
SyncedOdometer(k, r) ==
  IF HasOdometer(k) /\ HasOdometer(roleKey[r]) THEN odometer[r] ELSE 0

(* SwigWallet::new and from_reservation on an existing account:            *)
(* load_current_role finds the role by the authority's bytes and copies    *)
(* its odometer and permissions from one fetch.                            *)
Open(c, k) ==
  /\ hKey[c] = NoKey
  /\ \E r \in RoleId :
       /\ roleKey[r] = k
       /\ hRole' = [hRole EXCEPT ![c] = r]
       /\ hOdo' = [hOdo EXCEPT ![c] = SyncedOdometer(k, r)]
       /\ cached' = [cached EXCEPT ![c] = [role |-> r, version |-> version[r]]]
  /\ hKey' = [hKey EXCEPT ![c] = k]
  /\ epoch' = [epoch EXCEPT ![c] = @ + 1]
  /\ UNCHANGED <<chain, slot, net, landed, faults, pc, tx, named, ret, acked, seen,
                 calls>>

(* Mutant: the new client role inherits the old one's odometer.            *)
BugSwitchAuthority(c, r, k) ==
  /\ Ready(c, "SwitchAuthority")
  /\ roleKey[r] # NoKey
  /\ HasOdometer(roleKey[r]) => KindOf[k] # "ProgramExec"
  /\ hRole' = [hRole EXCEPT ![c] = r]
  /\ hKey' = [hKey EXCEPT ![c] = k]
  /\ epoch' = [epoch EXCEPT ![c] = @ + 1]
  /\ calls' = [calls EXCEPT ![c] = @ + 1]
  /\ pc' = [pc EXCEPT ![c] = "switching"]
  /\ tx' = [tx EXCEPT ![c] = NoTx]
  /\ ret' = [ret EXCEPT ![c] = "none"]
  /\ UNCHANGED <<chain, slot, net, landed, faults, hOdo, cached, named, acked, seen>>

(* switch_authority trusts the caller that k is the authority of role r.   *)
(* It copies r's odometer from one fetch and refreshes with another; in    *)
(* between the handle already has the new role and the old permissions.    *)
SwitchAuthority(c, r, k) ==
  /\ Ready(c, "SwitchAuthority")
  /\ roleKey[r] # NoKey
  /\ HasOdometer(roleKey[r]) => KindOf[k] # "ProgramExec"
  /\ hRole' = [hRole EXCEPT ![c] = r]
  /\ hKey' = [hKey EXCEPT ![c] = k]
  /\ hOdo' = [hOdo EXCEPT ![c] = SyncedOdometer(k, r)]
  /\ epoch' = [epoch EXCEPT ![c] = @ + 1]
  /\ calls' = [calls EXCEPT ![c] = @ + 1]
  /\ pc' = [pc EXCEPT ![c] = "switching"]
  /\ tx' = [tx EXCEPT ![c] = NoTx]
  /\ ret' = [ret EXCEPT ![c] = "none"]
  /\ UNCHANGED <<chain, slot, net, landed, faults, cached, named, acked, seen>>

-----------------------------------------------------------------------------
(* The cluster and the on-chain program (external).                        *)

(* The role's authority has not changed; a counted signature carries the   *)
(* next counter and is fresh.  With the same counter in every instruction  *)
(* of a transaction, a second counted instruction can never be accepted.   *)
(* A key has one role at most, and the root role is not removed.           *)
Accepts(t) ==
  /\ roleKey[t.role] = t.key
  /\ Counted(t.key, t.op) => /\ t.counter = WrappingAdd(odometer[t.role])
                             /\ slot <= t.slot + SlotWindow
                             /\ t.inner = 1
  /\ t.op = "AddAuthority" => /\ \A r \in RoleId : roleKey[r] # t.subject
                              /\ roleCounter < MaxRole
  /\ t.op \in {"RemoveAuthority", "UpdateAuthority"} => roleKey[t.target] # NoKey
  /\ t.op = "RemoveAuthority" => t.target # 0

(* What the accepted operation does to the roles.  Signing spends from the *)
(* signer's limits, so it changes the permissions the account stores.      *)
Execute(t) ==
  /\ odometer' = [odometer EXCEPT ![t.role] =
                    IF Counted(t.key, t.op) THEN WrappingAdd(@) ELSE @]
  /\ roleKey' = [roleKey EXCEPT
       ![IF t.op = "AddAuthority" THEN roleCounter ELSE t.target] =
         CASE t.op = "AddAuthority" -> t.subject
           [] t.op = "RemoveAuthority" -> NoKey
           [] OTHER -> @]
  /\ roleCounter' = IF t.op = "AddAuthority" THEN roleCounter + 1 ELSE roleCounter
  /\ version' = [version EXCEPT ![t.target] = IF Refreshes(t.op) THEN @ + 1 ELSE @]

Land(t) ==
  /\ t \in net
  /\ Accepts(t)
  /\ odometer[t.role] < MaxOdometer
  /\ Execute(t)
  /\ net' = net \ {t}
  /\ landed' = landed \cup {t}
  /\ seen' = [seen EXCEPT ![t.client] = IF tx[t.client] = t THEN version'[t.role] ELSE @]
  /\ UNCHANGED <<slot, faults, cache, pc, tx, named, ret, acked, epoch, calls>>

(* A transaction the program refuses fails; any other can be lost. *)
Drop(t) ==
  /\ t \in net
  /\ faults' = IF Accepts(t) THEN faults + 1 ELSE faults
  /\ faults' <= MaxFaults
  /\ net' = net \ {t}
  /\ UNCHANGED <<chain, slot, landed, cache, pc, tx, named, ret, hist>>

Tick ==
  /\ slot < MaxSlot
  /\ slot' = slot + 1
  /\ UNCHANGED <<chain, net, landed, faults, cache, pc, tx, named, ret, hist>>

-----------------------------------------------------------------------------
Init ==
  /\ roleKey = [r \in RoleId |-> IF r = 0 THEN RootKey ELSE NoKey]
  /\ odometer = [r \in RoleId |-> 0]
  /\ version = [r \in RoleId |-> 0]
  /\ roleCounter = 1
  /\ slot = 0 /\ faults = 0
  /\ net = {} /\ landed = {}
  /\ hKey = [c \in Client |-> NoKey]
  /\ hRole = [c \in Client |-> 0]
  /\ hOdo = [c \in Client |-> 0]
  /\ cached = [c \in Client |-> [role |-> 0, version |-> 0]]
  /\ pc = [c \in Client |-> "idle"]
  /\ tx = [c \in Client |-> NoTx]
  /\ named = [c \in Client |-> [role |-> 0, key |-> RootKey]]
  /\ ret = [c \in Client |-> "none"]
  /\ acked = {}
  /\ seen = [c \in Client |-> 0]
  /\ epoch = [c \in Client |-> 0]
  /\ calls = [c \in Client |-> 0]

Call(c) ==
  \/ \E k \in Key : AddAuthority(c, k)
  \/ \E k \in Key : LookupRemoval(c, k)
  \/ \E r \in RoleId : UpdateAuthority(c, r)
  \/ \E n \in 1 .. MaxInner : SignV2(c, n)
  \/ SubAccountV1(c)
  \/ SubAccountV2(c)
  \/ CreateSession(c)
  \/ SetRentClaimer(c)
  \/ \E k \in Key : Open(c, k)
  \/ \E r \in RoleId, k \in Key : SwitchAuthority(c, r, k)

(* The steps of a call that has begun. *)
Continue(c) ==
  \/ RemoveAuthority(c)
  \/ AbortRemoval(c)
  \/ AnswerThenRefresh(c)
  \/ AnswerSetRentClaimer(c)
  \/ AnswerPlain(c)
  \/ AnswerError(c)
  \/ Refresh(c)
  \/ RefreshError(c)

Next ==
  \/ \E c \in Client : Call(c) \/ Continue(c)
  \/ \E t \in net : Land(t) \/ Drop(t)
  \/ Tick

Spec == Init /\ [][Next]_vars

(* A call runs on until it returns, and a transaction on its way lands or  *)
(* dies when its blockhash expires; nothing makes a caller call.           *)
FairSpec ==
  /\ Spec
  /\ \A c \in Client : WF_vars(Continue(c))
  /\ WF_vars(\E t \in net : Land(t) \/ Drop(t))

-----------------------------------------------------------------------------
(* Properties.                                                             *)

(* Every value the handles hold is one the code's types allow: role ids,   *)
(* wrapping counters, a call that is in one of its phases.                 *)
TypeOK ==
  /\ roleKey \in [RoleId -> Key \cup {NoKey}]
  /\ odometer \in [RoleId -> 0 .. MaxOdometer]
  /\ version \in [RoleId -> Nat]
  /\ roleCounter \in 1 .. MaxRole
  /\ slot \in Nat /\ faults \in 0 .. MaxFaults
  /\ net \subseteq Tx /\ landed \subseteq Tx
  /\ hKey \in [Client -> Key \cup {NoKey}]
  /\ hRole \in [Client -> RoleId]
  /\ hOdo \in [Client -> Odometer]
  /\ cached \in [Client -> [role : RoleId, version : Nat]]
  /\ pc \in [Client -> {"idle", "removing", "sent", "refreshing", "switching"}]
  /\ tx \in [Client -> Tx \cup {NoTx}]
  /\ named \in [Client -> [role : RoleId, key : Key]]
  /\ ret \in [Client -> {"none", "ok", "err"}]
  /\ acked \subseteq Tx
  /\ seen \in [Client -> Nat]
  /\ epoch \in [Client -> Nat] /\ calls \in [Client -> Nat]

(* The handle's client role is a secp token authority. *)
SecpHandle(c) == hKey[c] \in Key /\ KindOf[hKey[c]] = "Secp"

(* The cached odometer of a secp handle never runs ahead of the account's, *)
(* however its calls, the other handles' calls and lost answers interleave,*)
(* so a stale handle can only sign a counter that is spent: it fails, it   *)
(* never leaves behind a signature that becomes valid later.               *)
NeverAhead ==
  \A c \in Client : SecpHandle(c) => hOdo[c] <= odometer[hRole[c]]

(* The executed secp transactions this handle has signed since it last     *)
(* synchronised its odometer.                                              *)
OwnLanded(c) ==
  {t \in landed : /\ t.client = c /\ t.epoch = epoch[c]
                  /\ KindOf[t.key] = "Secp"}

(* A caller that retries after an error executes at most once: of all the  *)
(* attempts a secp handle has made and not counted as a success, whatever  *)
(* they ask for and however late they arrive, at most one executes.        *)
RetryExecutesOnce ==
  \A c \in Client : \A t1, t2 \in OwnLanded(c) \ acked : t1 = t2

(* Once a refreshing call has returned Ok, the cached permissions are the  *)
(* signer's and no older than its own transaction left them.               *)
PermissionsFreshAfterOk ==
  \A c \in Client :
    pc[c] = "idle" /\ ret[c] = "ok" /\ tx[c] # NoTx /\ Refreshes(tx[c].op) =>
      /\ cached[c].role = hRole[c]
      /\ cached[c].version >= seen[c]

(* remove_authority resolves the authority to a role id in one read and    *)
(* sends the id later.  Whatever was removed and added in between, the id  *)
(* still is the named authority's when the removal executes.               *)
RemovesTheNamedAuthority ==
  [][\A t \in landed' \ landed :
       t.op = "RemoveAuthority" => roleKey[t.target] = t.subject]_vars

(* Every call returns: no wait of the handle depends on anything but the   *)
(* RPC client answering or giving up.                                      *)
CallsReturn == \A c \in Client : (pc[c] # "idle") ~> (pc[c] = "idle")

(* The handles' odometers are optimistic views of the accounts' counters.  *)
Optimistic == INSTANCE OptimisticCounter WITH
  Cell <- RoleId, Nowhere <- NoKey,
  value <- odometer,
  at <- [c \in Client |-> IF SecpHandle(c) THEN hRole[c] ELSE NoKey],
  view <- [c \in Client |-> IF SecpHandle(c) THEN hOdo[c] ELSE 0],
  owed <- [c \in Client |-> \E t \in OwnLanded(c) : t.counter > hOdo[c]]

(* A handle spends a counter only while its view of it is current, and its *)
(* view moves only by its own acknowledged spending or a fresh read.       *)
OptimisticSpec == Optimistic!CSpec

-----------------------------------------------------------------------------
(* The inductive invariant behind NeverAhead and RetryExecutesOnce.        *)

(* An executed counted signature is at or below the stored counter, and    *)
(* no two of one role share a counter.                                     *)
SpentCounters ==
  /\ \A t \in landed : Counted(t.key, t.op) => t.counter <= odometer[t.role]
  /\ \A t1, t2 \in landed :
       /\ Counted(t1.key, t1.op) /\ Counted(t2.key, t2.op)
       /\ t1.role = t2.role /\ t1.counter = t2.counter
       => t1 = t2

(* What a handle signed since it last synchronised bears the role and the  *)
(* key it still has, and a counter at most one above its own.              *)
AttemptsOfEpoch ==
  \A t \in net \cup landed :
    /\ t.epoch <= epoch[t.client]
    /\ t.epoch = epoch[t.client] =>
         /\ t.role = hRole[t.client] /\ t.key = hKey[t.client]
         /\ KindOf[t.key] = "Secp" => t.counter <= hOdo[t.client] + 1

(* A running call's transaction is the handle's latest attempt.            *)
RunningCall ==
  \A c \in Client :
    /\ pc[c] # "idle" => hKey[c] \in Key
    /\ pc[c] \in {"sent", "refreshing"} =>
         /\ tx[c] \in Tx
         /\ tx[c].client = c /\ tx[c].epoch = epoch[c]
         /\ tx[c].role = hRole[c] /\ tx[c].key = hKey[c]
         /\ KindOf[hKey[c]] = "Secp" => tx[c].counter = WrappingAdd(hOdo[c])
    /\ pc[c] = "refreshing" => tx[c] \in landed

(* Everything of this epoch the odometer has passed has been counted.      *)
PassedIsAcked ==
  \A c \in Client : \A t \in OwnLanded(c) : t.counter <= hOdo[c] => t \in acked

(* All of it together: each step preserves it.                             *)
IInv ==
  /\ TypeOK
  /\ NeverAhead
  /\ SpentCounters
  /\ AttemptsOfEpoch
  /\ RunningCall
  /\ PassedIsAcked

-----------------------------------------------------------------------------
(* What the repository says and the code does not do.  Each is checked on  *)
(* its own and violated.                                                   *)

(* switch_authority: "The odometer is stored in client role and must be    *)
(* updated to match the on chain odometer".  With one handle, no fault and *)
(* no call running, the two should agree.                                  *)
OdometerMatchesChain ==
  \A c \in Client :
    hKey[c] # NoKey /\ HasOdometer(hKey[c]) /\ hKey[c] = roleKey[hRole[c]]
      /\ pc[c] = "idle" /\ net = {}
      => hOdo[c] = odometer[hRole[c]]
=============================================================================
