--------------------------- MODULE AccountOpening ---------------------------
(***************************************************************************)
(* How handles come to a Swig account that may not exist yet, and how they *)
(* create V2 sub-accounts on it (solana/rust/sdk/src/wallet.rs: new,       *)
(* from_reservation, create_sub_account_v2; instruction_builder.rs:        *)
(* build_swig_account, load_current_role).                                 *)
(*                                                                         *)
(* All openers work on one address.  It is either a legacy address, opened *)
(* with SwigWallet::new, or a reserved one, opened with from_reservation.  *)
(* Opening reads the account, sends a create transaction where it takes    *)
(* the account for absent, waits, and reads the account back; between any  *)
(* two of these another opener may create the account, deposit lamports on *)
(* it or use it, and each RPC may fail.  A create transaction whose answer *)
(* was lost may land long after the call has returned its error.           *)
(*                                                                         *)
(* The program (external) is taken from how the SDK and its tests use it:  *)
(* it creates an account once, accepts a sub-account only under the next   *)
(* id, and a counted signature only with the stored odometer plus one.     *)
(* What other handles sign (module SwigWallet) appears here as Use.        *)
(***************************************************************************)
EXTENDS Naturals, Sequences, FiniteSets

CONSTANTS
  Opener,      \* the callers
  Authority,   \* the keys their client roles hold
  AuthOf,      \* [Opener -> Authority]: the key of an opener's client role
  Owner,       \* the key a reservation package commits to
  Counted,     \* the keys whose signatures carry the odometer (secp)
  MaxCalls,    \* bound: [Opener -> Nat], openings and sub-account creations
  MaxRole,     \* bound: roles ever granted
  MaxUse,      \* bound: the odometer of a role
  MaxFaults    \* bound: failed reads, lost answers, dropped transactions

ASSUME OpenerAssumption ==
  /\ AuthOf \in [Opener -> Authority]
  /\ Owner \in Authority
  /\ Counted \subseteq Authority

ASSUME BoundAssumption ==
  /\ MaxCalls \in [Opener -> Nat]
  /\ MaxRole \in Nat \ {0}
  /\ {MaxUse, MaxFaults} \subseteq Nat

RoleId == 0 .. MaxRole - 1
NoRole == MaxRole   \* not a role id: no handle yet

Life == {"absent", "prefunded", "invalid", "swig"}
Call == Opener \X Nat

(* A transaction: the call that sent it, and what it does.  For a create,  *)
(* before is the state of the address when its sender read it; for a       *)
(* sub-account, id names the PDAs and counter is the signed odometer.      *)
Tx == [call : Call, op : {"Create"}, before : Life]
        \cup [call : Call, op : {"SubAccount"}, role : RoleId, id : Nat, counter : Nat]
NoTx == [op |-> "None"]

VARIABLES
  kind,      \* "legacy" or "reserved": how this address is derived
  life,      \* what is at the address
  granted,   \* the authority of each role id ever handed out, in order
  revoked,   \* the role ids removed; ids are never handed out twice
  odometer,  \* [RoleId -> Nat]: signature_odometer of a role
  subs,      \* the call that created each sub-account; its length is the counter
  net,       \* transactions on their way
  landed,    \* transactions executed
  refused,   \* transactions the program refused
  faults,    \* how many of MaxFaults have happened
  pc,        \* where an opener's running call is
  calls,     \* [Opener -> Nat]: calls made
  before,    \* [Opener -> Life]: history, the address when the call read it
  tx,        \* the transaction of the running call
  handle,    \* [Opener -> RoleId \cup {NoRole}]: the role of the open handle
  hOdo,      \* [Opener -> Nat]: the odometer its client role keeps
  subId,     \* [Opener -> Nat]: the sub-account id the call has read
  failed,    \* [Opener -> BOOLEAN]: history, a step of the call has failed
  ret,       \* what the opener's last call returned
  answers    \* history: the sub-account ids returned, with their calls

chain == <<life, granted, revoked, odometer, subs>>
network == <<net, landed, refused>>
vars == <<kind, life, granted, revoked, odometer, subs, net, landed, refused,
          faults, pc, calls, before, tx, handle, hOdo, subId, failed, ret, answers>>

-----------------------------------------------------------------------------
(* The account's roles, and the steps calls are made of.                   *)

AuthorityOf(r) == granted[r + 1]
Roles == {r \in RoleId : r < Len(granted) /\ r \notin revoked}

(* lookup_role_id: the live roles stored under an authority's bytes. *)
RolesOf(a) == {r \in Roles : AuthorityOf(r) = a}

(* The next odometer of a signature by authority a. *)
Advance(a, n) == IF a \in Counted THEN n + 1 ELSE n

Begin(o) == pc[o] = "idle" /\ calls[o] < MaxCalls[o]

Goto(o, label) == pc' = [pc EXCEPT ![o] = label]

Return(o, result) == Goto(o, "idle") /\ ret' = [ret EXCEPT ![o] = result]

(* A step of the call fails: one of MaxFaults is spent. *)
Fault(o) ==
  /\ faults < MaxFaults
  /\ faults' = faults + 1
  /\ failed' = [failed EXCEPT ![o] = TRUE]

NoFault == UNCHANGED <<faults, failed>>

(* The handle's counter is the role's stored odometer, if it keeps one. *)
Synchronised(o, r) == IF AuthOf[o] \in Counted THEN odometer[r] ELSE 0

Enter(o, r, counter) ==
  /\ handle' = [handle EXCEPT ![o] = r]
  /\ hOdo' = [hOdo EXCEPT ![o] = counter]
  /\ Return(o, "opened")

(* Mutants: an authority that is not found is role u32::MAX; the role is   *)
(* taken to be role 0.                                                     *)
BugNotFound(o) ==
  IF life = "swig" THEN Enter(o, MaxRole + 1, 0)
  ELSE Return(o, "error") /\ UNCHANGED <<handle, hOdo>>

BugRoleZero(o) ==
  IF life = "swig" /\ RolesOf(AuthOf[o]) # {}
  THEN Enter(o, 0, Synchronised(o, 0))
  ELSE Return(o, "error") /\ UNCHANGED <<handle, hOdo>>

(* load_current_role: the account must parse as this address's config and  *)
(* hold the client role's authority.                                       *)
LoadCurrentRole(o) ==
  IF life = "swig" /\ RolesOf(AuthOf[o]) # {}
  THEN \E r \in RolesOf(AuthOf[o]) : Enter(o, r, Synchronised(o, r))
  ELSE Return(o, "error") /\ UNCHANGED <<handle, hOdo>>

-----------------------------------------------------------------------------
(* SwigWallet::new and SwigWallet::from_reservation.                       *)

(* Mutants: an error is taken for an absent account at a reserved address  *)
(* too; a reserved address that was only paid to is not.                   *)
BugTakenForAbsent(k) == {"absent", "prefunded", "error"}
BugNotPaid(k) == IF k = "legacy" THEN {"absent", "error"} ELSE {"absent"}

(* The reads after which a handle creates the account.  new takes every    *)
(* error of its read for an absent account, and an address that was only   *)
(* paid to for a present one; from_reservation does the opposite.          *)
TakenForAbsent(k) ==
  IF k = "legacy" THEN {"absent", "error"} ELSE {"absent", "prefunded"}

(* new and from_reservation up to their decision.  from_reservation        *)
(* returns an error of its read; both open whatever else is there.         *)
Open(o) ==
  /\ Begin(o)
  /\ calls' = [calls EXCEPT ![o] = @ + 1]
  /\ before' = [before EXCEPT ![o] = life]
  /\ tx' = [tx EXCEPT ![o] = NoTx]
  /\ \E read \in {life, "error"} :
       /\ IF read = "error" THEN Fault(o)
          ELSE failed' = [failed EXCEPT ![o] = FALSE] /\ UNCHANGED faults
       /\ IF read \in TakenForAbsent(kind)
          THEN Goto(o, "creating") /\ UNCHANGED <<handle, hOdo, ret>>
          ELSE IF read = "error"
               THEN Return(o, "error") /\ UNCHANGED <<handle, hOdo>>
               ELSE LoadCurrentRole(o)
  /\ UNCHANGED <<kind, chain, network, subId, answers>>

Send(o, t) ==
  /\ net' = net \cup {t}
  /\ tx' = [tx EXCEPT ![o] = t]
  /\ Goto(o, "sent")

(* build_swig_account, the blockhash, and the send. *)
SendCreate(o) ==
  /\ pc[o] = "creating"
  /\ Send(o, [call |-> <<o, calls[o]>>, op |-> "Create", before |-> before[o]])
  /\ NoFault
  /\ UNCHANGED <<kind, chain, landed, refused, calls, before, handle, hOdo, subId,
                 ret, answers>>

(* The account read back after its creation was confirmed.  new takes role *)
(* 0 for its own and leaves its client role's counter as constructed.      *)
ReadBack(o) ==
  /\ pc[o] = "created"
  /\ IF kind = "reserved" THEN LoadCurrentRole(o)
     ELSE IF 0 \in Roles THEN Enter(o, 0, 0)
     ELSE Return(o, "error") /\ UNCHANGED <<handle, hOdo>>
  /\ NoFault
  /\ UNCHANGED <<kind, chain, network, calls, before, tx, subId, answers>>

-----------------------------------------------------------------------------
(* create_sub_account_v2.                                                  *)

(* The counter is read first, and names the PDAs of the new sub-account. *)
CreateSubAccount(o) ==
  /\ Begin(o) /\ handle[o] # NoRole
  /\ calls' = [calls EXCEPT ![o] = @ + 1]
  /\ tx' = [tx EXCEPT ![o] = NoTx]
  /\ \/ /\ subId' = [subId EXCEPT ![o] = Len(subs)]
        /\ Goto(o, "naming")
        /\ failed' = [failed EXCEPT ![o] = FALSE]
        /\ UNCHANGED <<faults, ret>>
     \/ Fault(o) /\ Return(o, "error") /\ UNCHANGED subId
  /\ UNCHANGED <<kind, chain, network, before, handle, hOdo, answers>>

(* Mutant: the counter is taken for the last id and not for the next.      *)
BugSendSubAccount(o) ==
  /\ pc[o] = "naming"
  /\ Send(o, [call |-> <<o, calls[o]>>, op |-> "SubAccount", role |-> handle[o],
              id |-> subId[o] + 1, counter |-> Advance(AuthOf[o], hOdo[o])])
  /\ NoFault
  /\ UNCHANGED <<kind, chain, landed, refused, calls, before, handle, hOdo, subId,
                 ret, answers>>

(* The slot, the instruction, the blockhash, and the send. *)
SendSubAccount(o) ==
  /\ pc[o] = "naming"
  /\ Send(o, [call |-> <<o, calls[o]>>, op |-> "SubAccount", role |-> handle[o],
              id |-> subId[o], counter |-> Advance(AuthOf[o], hOdo[o])])
  /\ NoFault
  /\ UNCHANGED <<kind, chain, landed, refused, calls, before, handle, hOdo, subId,
                 ret, answers>>

(* Mutant: the id is the counter as it is once the call has succeeded.     *)
BugRefresh(o) ==
  /\ pc[o] = "refreshing"
  /\ IF handle[o] \in Roles
     THEN /\ hOdo' = [hOdo EXCEPT ![o] = Advance(AuthOf[o], @)]
          /\ answers' = answers \cup {[call |-> <<o, calls[o]>>, id |-> Len(subs) - 1]}
          /\ Return(o, "created")
     ELSE Return(o, "error") /\ UNCHANGED <<hOdo, answers>>
  /\ NoFault
  /\ UNCHANGED <<kind, chain, network, calls, before, tx, handle, subId>>

(* refresh_permissions, which wants the role, then increment_odometer, and *)
(* the id read at the start is returned.                                   *)
Refresh(o) ==
  /\ pc[o] = "refreshing"
  /\ IF handle[o] \in Roles
     THEN /\ hOdo' = [hOdo EXCEPT ![o] = Advance(AuthOf[o], @)]
          /\ answers' = answers \cup {[call |-> <<o, calls[o]>>, id |-> subId[o]]}
          /\ Return(o, "created")
     ELSE Return(o, "error") /\ UNCHANGED <<hOdo, answers>>
  /\ NoFault
  /\ UNCHANGED <<kind, chain, network, calls, before, tx, handle, subId>>

-----------------------------------------------------------------------------
(* Answers and failures.                                                   *)

(* send_and_confirm_transaction returns Ok. *)
Confirm(o) ==
  /\ pc[o] = "sent" /\ tx[o] \in landed
  /\ Goto(o, IF tx[o].op = "Create" THEN "created" ELSE "refreshing")
  /\ NoFault
  /\ UNCHANGED <<kind, chain, network, calls, before, tx, handle, hOdo, subId, ret,
                 answers>>

(* It returns the program's error. *)
Rejected(o) ==
  /\ pc[o] = "sent" /\ tx[o] \in refused
  /\ Return(o, "error")
  /\ NoFault
  /\ UNCHANGED <<kind, chain, network, calls, before, tx, handle, hOdo, subId, answers>>

(* Mutant: the counter moves on although nobody knows what became of the   *)
(* transaction.                                                            *)
BugLoseAnswer(o) ==
  /\ pc[o] = "sent" /\ tx[o] \notin refused
  /\ Fault(o)
  /\ net' \in {net, net \ {tx[o]}}
  /\ hOdo' = [hOdo EXCEPT ![o] = IF tx[o].op = "Create" THEN @ ELSE Advance(AuthOf[o], @)]
  /\ Return(o, "error")
  /\ UNCHANGED <<kind, chain, landed, refused, calls, before, tx, handle, subId, answers>>

(* It returns without an answer: the transaction died, has landed, or may  *)
(* still land.                                                             *)
LoseAnswer(o) ==
  /\ pc[o] = "sent" /\ tx[o] \notin refused
  /\ Fault(o)
  /\ net' \in {net, net \ {tx[o]}}
  /\ Return(o, "error")
  /\ UNCHANGED <<kind, chain, landed, refused, calls, before, tx, handle, hOdo, subId,
                 answers>>

(* The read, slot or blockhash of a later step fails. *)
StepFails(o) ==
  /\ pc[o] \in {"creating", "created", "naming", "refreshing"}
  /\ Fault(o)
  /\ Return(o, "error")
  /\ UNCHANGED <<kind, chain, network, calls, before, tx, handle, hOdo, subId, answers>>

OpenerNext(o) ==
  \/ Open(o) \/ SendCreate(o) \/ ReadBack(o)
  \/ CreateSubAccount(o) \/ SendSubAccount(o) \/ Refresh(o)
  \/ Confirm(o) \/ Rejected(o) \/ LoseAnswer(o) \/ StepFails(o)

-----------------------------------------------------------------------------
(* The program, and everybody else who uses the account (external).        *)

(* A create finds nothing at the address, or for a reservation lamports;   *)
(* whether a legacy create tolerates those is left open.  A sub-account    *)
(* must be the next one, by a live role, with the next odometer.           *)
Acceptable(t) ==
  IF t.op = "Create" THEN life \in {"absent", "prefunded"}
  ELSE /\ t.role \in Roles
       /\ t.id = Len(subs)
       /\ t.counter = Advance(AuthorityOf(t.role), odometer[t.role])

Sure(t) == Acceptable(t) /\ ~(t.op = "Create" /\ kind = "legacy" /\ life = "prefunded")

(* Role 0 of a legacy account is its creator's key with All permissions;   *)
(* of a reserved account, the key its package commits to.                  *)
LandCreate(t) ==
  /\ t.op = "Create" /\ Acceptable(t)
  /\ life' = "swig"
  /\ granted' = <<IF kind = "reserved" THEN Owner ELSE AuthOf[t.call[1]]>>
  /\ UNCHANGED <<revoked, odometer, subs>>

LandSubAccount(t) ==
  /\ t.op = "SubAccount" /\ Acceptable(t)
  /\ subs' = Append(subs, t.call)
  /\ odometer' = [odometer EXCEPT ![t.role] = Advance(AuthorityOf(t.role), @)]
  /\ UNCHANGED <<life, granted, revoked>>

handles == <<pc, calls, before, tx, handle, hOdo, subId, failed, ret, answers>>

Land(t) ==
  /\ LandCreate(t) \/ LandSubAccount(t)
  /\ net' = net \ {t} /\ landed' = landed \cup {t}
  /\ UNCHANGED <<kind, refused, faults, handles>>

Refuse(t) ==
  /\ ~Sure(t)
  /\ net' = net \ {t} /\ refused' = refused \cup {t}
  /\ UNCHANGED <<kind, chain, landed, faults, handles>>

(* Anyone may pay to an address, and a role may be added and removed. *)
Deposit ==
  /\ life = "absent"
  /\ life' = "prefunded"
  /\ UNCHANGED <<kind, granted, revoked, odometer, subs, network, faults, handles>>

Grant(a) ==
  /\ life = "swig" /\ Len(granted) < MaxRole /\ RolesOf(a) = {}
  /\ granted' = Append(granted, a)
  /\ UNCHANGED <<kind, life, revoked, odometer, subs, network, faults, handles>>

Revoke(r) ==
  /\ r \in Roles
  /\ revoked' = revoked \cup {r}
  /\ UNCHANGED <<kind, life, granted, odometer, subs, network, faults, handles>>

(* A further handle of a counted role signs something. *)
Use(r) ==
  /\ r \in Roles /\ AuthorityOf(r) \in Counted /\ odometer[r] < MaxUse
  /\ odometer' = [odometer EXCEPT ![r] = @ + 1]
  /\ UNCHANGED <<kind, life, granted, revoked, subs, network, faults, handles>>

-----------------------------------------------------------------------------

Init ==
  /\ kind \in {"legacy", "reserved"}
  /\ life \in Life \ {"swig"}
  /\ granted = << >> /\ revoked = {} /\ subs = << >>
  /\ odometer = [r \in RoleId |-> 0]
  /\ net = {} /\ landed = {} /\ refused = {} /\ faults = 0
  /\ pc = [o \in Opener |-> "idle"]
  /\ calls = [o \in Opener |-> 0]
  /\ before = [o \in Opener |-> "absent"]
  /\ tx = [o \in Opener |-> NoTx]
  /\ handle = [o \in Opener |-> NoRole]
  /\ hOdo = [o \in Opener |-> 0]
  /\ subId = [o \in Opener |-> 0]
  /\ failed = [o \in Opener |-> FALSE]
  /\ ret = [o \in Opener |-> "none"]
  /\ answers = {}

Next ==
  \/ \E o \in Opener : OpenerNext(o)
  \/ \E t \in net : Land(t) \/ Refuse(t)
  \/ Deposit
  \/ \E a \in Authority : Grant(a)
  \/ \E r \in RoleId : Revoke(r) \/ Use(r)

Spec == Init /\ [][Next]_vars

(* Every step of a running call is eventually taken and every transaction  *)
(* meets its fate, since RPC calls time out and blockhashes expire; the    *)
(* caller opens again until it holds a handle.                             *)
FairSpec ==
  /\ Spec
  /\ \A o \in Opener :
       /\ WF_vars(pc[o] # "idle" /\ OpenerNext(o))
       /\ WF_vars(handle[o] = NoRole /\ Open(o))
       /\ WF_vars(tx[o] \in net /\ (Land(tx[o]) \/ Refuse(tx[o])))

-----------------------------------------------------------------------------
(* Properties.                                                             *)

(* The types of the account, of the network and of the openers' state.     *)
TypeOK ==
  /\ kind \in {"legacy", "reserved"}
  /\ life \in Life
  /\ granted \in Seq(Authority) /\ Len(granted) <= MaxRole
  /\ revoked \subseteq RoleId
  /\ odometer \in [RoleId -> Nat]
  /\ subs \in Seq(Call)
  /\ net \subseteq Tx /\ landed \subseteq Tx /\ refused \subseteq Tx
  /\ faults \in 0 .. MaxFaults
  /\ pc \in [Opener -> {"idle", "creating", "sent", "created", "naming", "refreshing"}]
  /\ calls \in [Opener -> Nat]
  /\ before \in [Opener -> Life]
  /\ tx \in [Opener -> Tx \cup {NoTx}]
  /\ handle \in [Opener -> RoleId \cup {NoRole}]
  /\ hOdo \in [Opener -> Nat]
  /\ subId \in [Opener -> Nat]
  /\ failed \in [Opener -> BOOLEAN]
  /\ ret \in [Opener -> {"none", "error", "opened", "created"}]
  /\ answers \subseteq [call : Call, id : Nat]

(* The account comes into being once, with the key of the create that      *)
(* landed as role 0.                                                       *)
AccountInv ==
  /\ life # "swig" => /\ granted = << >>
                      /\ \A t \in landed : t.op # "Create"
  /\ life = "swig" => \E t \in landed : t.op = "Create"
  /\ \A t \in landed : t.op = "Create" =>
       /\ granted # << >>
       /\ kind = "legacy" => granted[1] = AuthOf[t.call[1]]
       /\ kind = "reserved" => granted[1] = Owner

(* A call sends one transaction, and the openers' labels say how far it    *)
(* has come.                                                               *)
CallInv ==
  /\ net \cap (landed \cup refused) = {} /\ landed \cap refused = {}
  /\ \A t, u \in net \cup landed \cup refused : t.call = u.call => t = u
  /\ \A t \in net \cup landed \cup refused : t.call[2] <= calls[t.call[1]]
  /\ \A o \in Opener :
       /\ pc[o] \in {"creating", "naming"} =>
            \A t \in net \cup landed \cup refused : t.call # <<o, calls[o]>>
       /\ pc[o] \in {"sent", "created", "refreshing"} =>
            /\ tx[o] # NoTx /\ tx[o].call = <<o, calls[o]>>
            /\ tx[o].op = "SubAccount" => tx[o].id = subId[o] /\ handle[o] # NoRole
       /\ pc[o] = "created" => tx[o] \in landed /\ tx[o].op = "Create"
       /\ pc[o] = "refreshing" => tx[o] \in landed /\ tx[o].op = "SubAccount"
       /\ pc[o] = "naming" => handle[o] # NoRole

(* A sub-account that landed has the id its transaction named. *)
SubAccountInv ==
  \A t \in landed : t.op = "SubAccount" =>
    t.id < Len(subs) /\ subs[t.id + 1] = t.call

(* An activation under way saw no wallet; an invalid config never was      *)
(* anything else.                                                          *)
ActivationInv ==
  /\ \A o \in Opener : pc[o] = "creating" /\ kind = "reserved" =>
       before[o] \in {"absent", "prefunded"} /\ life # "invalid"
  /\ \A t \in net \cup refused : t.op = "Create" /\ kind = "reserved" =>
       t.before \in {"absent", "prefunded"} /\ life # "invalid"

(* A handle's role id names, or once named, the authority its client role  *)
(* holds: whatever was opened, created and rotated meanwhile, no handle    *)
(* comes out of new or from_reservation under another authority's role.    *)
HandleHoldsItsRole ==
  \A o \in Opener : handle[o] # NoRole =>
    /\ handle[o] < Len(granted)
    /\ AuthorityOf(handle[o]) = AuthOf[o]

(* An id returned by create_sub_account_v2 is that of a sub-account made   *)
(* by that very call, however many handles create sub-accounts at once:    *)
(* the counter read before the call either still names it or the program   *)
(* refuses.                                                                *)
SubAccountIdsAreOwn ==
  \A a \in answers : a.id < Len(subs) /\ subs[a.id + 1] = a.call

(* A reservation is only activated where its opener saw no wallet, so an   *)
(* activation the program refuses has lost a race against another one, of  *)
(* another opener or an earlier one of its own whose answer was lost:      *)
(* "RPC failures and invalid existing configs are returned instead of      *)
(* triggering activation" (wallet.rs:189).                                 *)
RefusedActivationsLostARace ==
  \A t \in refused :
    (t.op = "Create" /\ kind = "reserved") =>
      /\ t.before \in {"absent", "prefunded"}
      /\ \E w \in landed : w.op = "Create" /\ w.call # t.call

IInv ==
  /\ TypeOK /\ AccountInv /\ CallInv /\ SubAccountInv /\ ActivationInv
  /\ HandleHoldsItsRole /\ SubAccountIdsAreOwn /\ RefusedActivationsLostARace

(* Neither the counter a handle will sign with next nor one that is on its *)
(* way is beyond the account's: however openings, lost answers, late       *)
(* landings and failed refreshes of sub-account creations fall together    *)
(* with what other handles sign, a signature of create_sub_account_v2      *)
(* counts at once or never, and does not become valid behind the caller's  *)
(* back.                                                                   *)
CountersNeverAhead ==
  /\ \A o \in Opener : handle[o] # NoRole => hOdo[o] <= odometer[handle[o]]
  /\ \A t \in net : t.op = "SubAccount" =>
       t.counter <= Advance(AuthOf[t.call[1]], odometer[t.role])

(* What may fail an opening that met no failure of its own: a config that  *)
(* does not parse; lamports at a legacy address, which new takes for a     *)
(* wallet; an authority that is not on the account, or no longer as role 0 *)
(* when new reads back what it created; a lost race.                       *)
OpeningCause(o) ==
  \/ life = "invalid"
  \/ kind = "legacy" /\ life = "prefunded"
  \/ life = "swig" /\ RolesOf(AuthOf[o]) = {}
  \/ kind = "legacy" /\ pc[o] = "created" /\ 0 \notin Roles
  \/ /\ pc[o] = "sent"
     /\ \E w \in landed : w.op = "Create" /\ w.call # <<o, calls[o]>>

(* What may fail the creation of a sub-account: a removed role, an id that *)
(* another call took, a counter that is out of step.                       *)
SubAccountCause(o) ==
  \/ handle[o] \notin Roles
  \/ pc[o] = "sent" /\ Len(subs) > subId[o]
  \/ pc[o] = "sent" /\ AuthOf[o] \in Counted /\ hOdo[o] # odometer[handle[o]]

(* A call returns an error only for one of these causes or because an RPC  *)
(* of its own failed: no order of reads, creations, deposits and rotations *)
(* makes an opening of a healthy account fail, or a landed sub-account go  *)
(* unreported.                                                             *)
ErrorsHaveCauses ==
  [][\A o \in Opener :
      (ret'[o] = "error" /\ (pc[o] # "idle" \/ calls'[o] # calls[o])
         /\ pc'[o] = "idle") =>
        \/ failed'[o]
        \/ IF pc[o] = "refreshing" \/ (pc[o] = "sent" /\ tx[o].op = "SubAccount")
           THEN SubAccountCause(o) ELSE OpeningCause(o)]_vars

(* A caller that keeps opening a reservation with its owner's key gets its *)
(* handle, whoever pays to the address or activates it first and whichever *)
(* answers are lost, unless the owner is removed or the config is invalid. *)
(* Its calls must outnumber the failures and the one race it can lose.     *)
OwnerGetsIn ==
  \A o \in {opener \in Opener : MaxCalls[opener] >= MaxFaults + 2} :
    (AuthOf[o] = Owner /\ kind = "reserved" /\ life # "invalid") ~>
      (handle[o] # NoRole \/ 0 \in revoked)

-----------------------------------------------------------------------------
(* What the repository says and the code does not do.                      *)

(* Every handle comes out with the counter its role has at that moment:    *)
(* load_current_role "Resolves the current signer from stored roles and    *)
(* synchronizes its replay counter. Both legacy and reserved wallets use   *)
(* this initialization path." (instruction_builder.rs:445-446).  new does  *)
(* not, where it has just created the account: it takes role 0 and the     *)
(* counter 0, though a second handle may have signed in between.           *)
OpensWithCurrentCounter ==
  [][\A o \in Opener :
      (ret'[o] = "opened" /\ pc'[o] = "idle"
         /\ (pc[o] # "idle" \/ calls'[o] # calls[o])) =>
        hOdo'[o] = Synchronised(o, handle'[o])]_vars

=============================================================================
