----------------------------- MODULE SwigClient -----------------------------
(***************************************************************************)
(* The TypeScript SDK's Swig object (solana/typescript/packages/lib/src)   *)
(* shared by several asynchronous callers.                                 *)
(*                                                                         *)
(* A Swig holds one snapshot of the account.  A caller builds signed       *)
(* instruction contexts from it -- one, a batch of them, or a builder's    *)
(* list of add-authority contexts -- optionally refetching the snapshot    *)
(* first, and sends them itself once the call has returned.  Every await   *)
(* (the fetch, the signing function) lets the other callers run, answers   *)
(* of the network arrive in any order, and a call that throws takes the    *)
(* contexts it had already signed with it.                                 *)
(*                                                                         *)
(* A call that throws before its first await changes nothing and is a      *)
(* stuttering step.  The counter is a u32 that setUint32 wraps; the bound  *)
(* MaxOdometer stays far below a wrap.  A context that is lost, or whose   *)
(* slot is too old when it is sent, simply never lands.                    *)
(***************************************************************************)
EXTENDS Naturals, FiniteSets

CONSTANTS
  Task,         \* the concurrent callers that share one Swig object
  Role,         \* the roles of the account when the model starts
  KindOf,       \* [Role -> Kind]: the class of the role's authority
  MaxContexts,  \* bound: contexts of one batch or one builder
  MaxCalls,     \* bound: calls of each caller
  MaxFaults,    \* bound: fetches and signatures that fail
  MaxOdometer   \* bound: counted signatures per role

Kind == {"Ed25519", "Secp", "SecpSession"}

ASSUME ConstantAssumption ==
  /\ Role # {}
  /\ KindOf \in [Role -> Kind]
  /\ MaxContexts \in Nat \ {0}
  /\ {MaxCalls, MaxFaults, MaxOdometer} \subseteq Nat

(* "single": one get...InstructionContext; "batch": batchSignTransactions; *)
(* "builder": AddMultipleAuthoritiesInstructionContextBuilder on an        *)
(* existing role; "refetch": Swig.refetch by itself.                       *)
CallKind == {"single", "batch", "builder", "refetch"}

VARIABLES
  (* the account *)
  odometer,  \* [Role -> Nat]
  live,      \* the roles that have not been removed
  (* the Swig object *)
  snapshot,  \* [odometer, live]: its private account field
  (* the callers *)
  pc,        \* "idle", "fetching", "looking" or "signing"
  job,       \* the caller's running or last call
  reply,     \* the answer of the running fetch, or NoReply
  pending,   \* the places in the list whose signature is still awaited
  drafts,    \* contexts signed by the running call
  ret,       \* what the last call returned
  calls,     \* how many calls the caller has begun
  faults,
  (* what the callers have been given, and what was executed *)
  net, landed

chain == <<odometer, live>>
vars == <<odometer, live, snapshot, pc, job, reply, pending, drafts, ret,
          calls, faults, net, landed>>

Account == [odometer : [Role -> Nat], live : SUBSET Role]
NoReply == [odometer |-> 0]
Unasked == [r \in Role |-> 0]

Job == [kind : CallKind, counted : BOOLEAN, role : Role, size : Nat,
        pre : BOOLEAN, stored : Nat, asked : [Role -> Nat], floors : SUBSET Nat]

(* A signed context: its call and place, and what its payload carries.     *)
(* History that only the properties read: asked, the account's counters    *)
(* when the fetch of a preFetch was started, and floors, what the fetches  *)
(* under way when that fetch was answered had asked of the call's role.    *)
Context == [task : Task, call : Nat, seq : Nat, kind : CallKind, pre : BOOLEAN,
            role : Role, counted : BOOLEAN, counter : Nat, stored : Nat,
            asked : Nat, floors : SUBSET Nat]

-----------------------------------------------------------------------------
(* The authorities.                                                        *)

(* Whether the payload of the operation carries the counter.  A session    *)
(* role signs with its plain session key, and manages with its secp key.   *)
Counted(r, sign) ==
  \/ KindOf[r] = "Secp"
  \/ KindOf[r] = "SecpSession" /\ ~sign

(* odometer() of a role read from a snapshot that stores n. *)
NextOdometer(n) == n + 1

(* Mutant: a batch counts up like a builder.                               *)
BugCounterOf(j, seq) ==
  IF j.kind = "builder" THEN 1 + seq ELSE NextOdometer(j.stored) + seq

(* The builder counts up from 1; every other context of a call carries     *)
(* options.odometer, which SwigOptions does not offer, or odometer().      *)
CounterOf(j, seq) == IF j.kind = "builder" THEN 1 + seq ELSE NextOdometer(j.stored)

(* Mutant: the builder's counter is read once the signature is there.      *)
BugContextOf(t, seq) ==
  LET j == job[t] IN
      [task |-> t, call |-> calls[t], seq |-> seq, kind |-> j.kind, pre |-> j.pre,
       role |-> j.role, counted |-> j.counted,
       counter |-> IF j.counted THEN CounterOf(j, Cardinality(drafts[t])) ELSE 0,
       stored |-> j.stored, asked |-> j.asked[j.role], floors |-> j.floors]

(* The context signed for a place of the running call.                     *)
ContextOf(t, seq) ==
  LET j == job[t] IN
      [task |-> t, call |-> calls[t], seq |-> seq, kind |-> j.kind, pre |-> j.pre,
       role |-> j.role, counted |-> j.counted,
       counter |-> IF j.counted THEN CounterOf(j, seq) ELSE 0,
       stored |-> j.stored, asked |-> j.asked[j.role], floors |-> j.floors]

-----------------------------------------------------------------------------
(* The calls.                                                              *)

(* Mutant: what was signed before the throw stays with the call.           *)
BugThrow(t) ==
  /\ pc' = [pc EXCEPT ![t] = "idle"]
  /\ pending' = [pending EXCEPT ![t] = {}]
  /\ ret' = [ret EXCEPT ![t] = "threw"]
  /\ UNCHANGED drafts

(* The call throws: its caller never sees the contexts already signed.     *)
Throw(t) ==
  /\ pc' = [pc EXCEPT ![t] = "idle"]
  /\ drafts' = [drafts EXCEPT ![t] = {}]
  /\ pending' = [pending EXCEPT ![t] = {}]
  /\ ret' = [ret EXCEPT ![t] = "threw"]

(* Mutant: a batch starts all its signatures at once.                      *)
BugPlaces(j) == 0 .. j.size - 1

(* A builder's addAuthority starts each signature at once; the loop of a   *)
(* batch starts them one by one.                                           *)
Places(j) == IF j.kind = "builder" THEN 0 .. j.size - 1 ELSE {0}

(* A call on role r.  Without preFetch the role is taken from the snapshot *)
(* as it is.                                                               *)
Begin(t, kind, sign, r, size, pre) ==
  /\ pc[t] = "idle" /\ calls[t] < MaxCalls
  /\ kind \in {"single", "refetch"} => size = 1
  /\ kind = "batch" => sign
  /\ kind = "builder" => ~sign
  /\ kind = "refetch" => pre
  /\ pre \/ r \in snapshot.live
  /\ job' = [job EXCEPT ![t] =
       [kind |-> kind, counted |-> Counted(r, sign), role |-> r, size |-> size, pre |-> pre,
        stored |-> IF pre THEN 0 ELSE snapshot.odometer[r],
        asked |-> IF pre THEN odometer ELSE Unasked, floors |-> {}]]
  /\ pc' = [pc EXCEPT ![t] = IF pre THEN "fetching" ELSE "signing"]
  /\ pending' = [pending EXCEPT ![t] = IF pre THEN {} ELSE Places(job'[t])]
  /\ reply' = [reply EXCEPT ![t] = NoReply]
  /\ drafts' = [drafts EXCEPT ![t] = {}]
  /\ ret' = [ret EXCEPT ![t] = "none"]
  /\ calls' = [calls EXCEPT ![t] = @ + 1]
  /\ UNCHANGED <<chain, snapshot, faults, net, landed>>

(* The node reads the account (external). *)
AnswerFetch(t) ==
  /\ pc[t] = "fetching" /\ reply[t] = NoReply
  /\ reply' = [reply EXCEPT ![t] = [odometer |-> odometer, live |-> live]]
  /\ UNCHANGED <<chain, snapshot, pc, job, pending, drafts, ret, calls,
                 faults, net, landed>>

FetchFails(t) ==
  /\ pc[t] = "fetching" /\ reply[t] = NoReply
  /\ faults < MaxFaults
  /\ faults' = faults + 1
  /\ Throw(t)
  /\ UNCHANGED <<chain, snapshot, job, reply, calls, net, landed>>

(* The place after those a sequential call has signed. *)
NextPlace(t) == Cardinality(drafts[t])

(* The role is found in the snapshot: what is signed next. *)
Capture(t, places) ==
  /\ job' = [job EXCEPT ![t].stored = snapshot.odometer[job[t].role]]
  /\ pc' = [pc EXCEPT ![t] = "signing"]
  /\ pending' = [pending EXCEPT ![t] = places]
  /\ UNCHANGED <<drafts, ret>>

(* What the fetches that are under way have asked of role r. *)
UnderWay(r) == {job[u].asked[r] : u \in {v \in Task : pc[v] = "fetching"}}

(* Mutant: refetch hands the answer out and keeps the account it had.      *)
BugRefetched(t) ==
  /\ pc[t] = "fetching" /\ reply[t] # NoReply
  /\ reply' = [reply EXCEPT ![t] = NoReply]
  /\ IF job[t].kind = "refetch"
     THEN /\ pc' = [pc EXCEPT ![t] = "idle"]
          /\ ret' = [ret EXCEPT ![t] = "ok"]
          /\ UNCHANGED job
     ELSE /\ pc' = [pc EXCEPT ![t] = "looking"]
          /\ job' = [job EXCEPT ![t].floors = UnderWay(job[t].role)]
          /\ UNCHANGED ret
  /\ UNCHANGED <<chain, snapshot, pending, drafts, calls, faults, net, landed>>

(* The answer arrives: it replaces the snapshot, whatever other answers    *)
(* have done so before.  The call that awaits the refetch goes on later.   *)
Refetched(t) ==
  /\ pc[t] = "fetching" /\ reply[t] # NoReply
  /\ snapshot' = reply[t]
  /\ reply' = [reply EXCEPT ![t] = NoReply]
  /\ IF job[t].kind = "refetch"
     THEN /\ pc' = [pc EXCEPT ![t] = "idle"]
          /\ ret' = [ret EXCEPT ![t] = "ok"]
          /\ UNCHANGED job
     ELSE /\ pc' = [pc EXCEPT ![t] = "looking"]
          /\ job' = [job EXCEPT ![t].floors = UnderWay(job[t].role)]
          /\ UNCHANGED ret
  /\ UNCHANGED <<chain, pending, drafts, calls, faults, net, landed>>

(* The call resumes and looks its role up in the shared snapshot, which an *)
(* answer to another caller may have replaced since.                       *)
LookUp(t) ==
  /\ pc[t] = "looking"
  /\ IF job[t].role \in snapshot.live
     THEN Capture(t, IF job[t].kind = "batch" THEN {NextPlace(t)}
                     ELSE Places(job[t]))
     ELSE Throw(t) /\ UNCHANGED job
  /\ UNCHANGED <<chain, snapshot, reply, calls, faults, net, landed>>

(* The signing function resolves for one place.  The last one returns the  *)
(* whole list to the caller; the others of a batch go on with the next     *)
(* config, which refetches or looks the role up again.                     *)
Signed(t, seq) ==
  LET signed == drafts[t] \cup {ContextOf(t, seq)}
      rest == pending[t] \ {seq}
  IN  /\ pc[t] = "signing" /\ seq \in pending[t]
      /\ UNCHANGED <<chain, snapshot, calls, faults, landed>>
      /\ IF Cardinality(signed) = job[t].size
         THEN /\ net' = net \cup signed
              /\ drafts' = [drafts EXCEPT ![t] = {}]
              /\ pending' = [pending EXCEPT ![t] = {}]
              /\ pc' = [pc EXCEPT ![t] = "idle"]
              /\ ret' = [ret EXCEPT ![t] = "ok"]
              /\ UNCHANGED <<job, reply>>
         ELSE /\ UNCHANGED net
              /\ CASE job[t].kind = "builder" ->
                        /\ drafts' = [drafts EXCEPT ![t] = signed]
                        /\ pending' = [pending EXCEPT ![t] = rest]
                        /\ UNCHANGED <<pc, job, reply, ret>>
                   [] job[t].kind = "batch" /\ job[t].pre ->
                        /\ drafts' = [drafts EXCEPT ![t] = signed]
                        /\ pending' = [pending EXCEPT ![t] = {}]
                        /\ pc' = [pc EXCEPT ![t] = "fetching"]
                        /\ reply' = [reply EXCEPT ![t] = NoReply]
                        /\ job' = [job EXCEPT ![t].asked = odometer]
                        /\ UNCHANGED ret
                   [] job[t].kind = "batch" /\ ~job[t].pre
                      /\ job[t].role \in snapshot.live ->
                        /\ drafts' = [drafts EXCEPT ![t] = signed]
                        /\ pending' = [pending EXCEPT ![t] = {seq + 1}]
                        /\ job' = [job EXCEPT ![t].stored =
                                     snapshot.odometer[job[t].role]]
                        /\ UNCHANGED <<pc, reply, ret>>
                   [] OTHER -> Throw(t) /\ UNCHANGED <<job, reply>>

(* The signing function rejects, for instance because the user declines.   *)
SigningFails(t) ==
  /\ pc[t] = "signing"
  /\ faults < MaxFaults
  /\ faults' = faults + 1
  /\ Throw(t)
  /\ UNCHANGED <<chain, snapshot, job, reply, calls, net, landed>>

-----------------------------------------------------------------------------
(* The cluster and the program (external).                                 *)

(* A context the caller has been given is executed. *)
Land(x) ==
  /\ x \in net
  /\ x.role \in live
  /\ x.counted => /\ x.counter = odometer[x.role] + 1
                  /\ odometer[x.role] < MaxOdometer
  /\ odometer' = [odometer EXCEPT ![x.role] = IF x.counted THEN @ + 1 ELSE @]
  /\ net' = net \ {x}
  /\ landed' = landed \cup {x}
  /\ UNCHANGED <<live, snapshot, pc, job, reply, pending, drafts, ret, calls,
                 faults>>

(* The same authority signs elsewhere. *)
Elsewhere(r) ==
  /\ r \in live /\ KindOf[r] # "Ed25519" /\ odometer[r] < MaxOdometer
  /\ odometer' = [odometer EXCEPT ![r] = @ + 1]
  /\ UNCHANGED <<live, snapshot, pc, job, reply, pending, drafts, ret, calls,
                 faults, net, landed>>

(* Another role removes r. *)
RoleRemoved(r) ==
  /\ r \in live /\ live # {r}
  /\ live' = live \ {r}
  /\ UNCHANGED <<odometer, snapshot, pc, job, reply, pending, drafts, ret,
                 calls, faults, net, landed>>

-----------------------------------------------------------------------------
(* The Swig was fetched when the account already had signed n times.       *)
Init ==
  /\ \E n \in [Role -> {0, 1}] :
       /\ \A r \in Role : KindOf[r] = "Ed25519" => n[r] = 0
       /\ \A r \in Role : n[r] <= MaxOdometer
       /\ odometer = n
  /\ live = Role
  /\ faults = 0
  /\ snapshot = [odometer |-> odometer, live |-> live]
  /\ pc = [t \in Task |-> "idle"]
  /\ job = [t \in Task |-> [kind |-> "single", counted |-> FALSE,
                             role |-> CHOOSE r \in Role : TRUE, size |-> 1,
                             pre |-> FALSE, stored |-> 0, asked |-> Unasked,
                             floors |-> {}]]
  /\ reply = [t \in Task |-> NoReply]
  /\ pending = [t \in Task |-> {}]
  /\ drafts = [t \in Task |-> {}]
  /\ ret = [t \in Task |-> "none"]
  /\ calls = [t \in Task |-> 0]
  /\ net = {} /\ landed = {}

Next ==
  \/ \E t \in Task :
       \/ \E kind \in CallKind, sign, pre \in BOOLEAN, r \in Role,
             size \in 1 .. MaxContexts : Begin(t, kind, sign, r, size, pre)
       \/ AnswerFetch(t)
       \/ FetchFails(t)
       \/ Refetched(t)
       \/ LookUp(t)
       \/ \E seq \in pending[t] : Signed(t, seq)
       \/ SigningFails(t)
  \/ \E x \in net : Land(x)
  \/ \E r \in Role : Elsewhere(r) \/ RoleRemoved(r)

Spec == Init /\ [][Next]_vars

-----------------------------------------------------------------------------
(* Properties.                                                             *)

(* Snapshots, answers, running calls and contexts are what the types of    *)
(* the SDK say; a sequential call awaits one signature at a time.          *)
TypeOK ==
  /\ odometer \in [Role -> Nat] /\ live \subseteq Role
  /\ snapshot \in Account
  /\ pc \in [Task -> {"idle", "fetching", "looking", "signing"}]
  /\ job \in [Task -> Job]
  /\ reply \in [Task -> Account \cup {NoReply}]
  /\ \A t \in Task :
       /\ pending[t] \subseteq 0 .. job[t].size - 1
       /\ job[t].kind # "builder" => Cardinality(pending[t]) <= 1
       /\ drafts[t] \subseteq Context
  /\ ret \in [Task -> {"none", "ok", "threw"}]
  /\ calls \in [Task -> Nat] /\ faults \in Nat
  /\ net \subseteq Context /\ landed \subseteq Context

Signatures == net \cup UNION {drafts[t] : t \in Task}

(* Outside the builder no signature ever bears a counter beyond the next   *)
(* one: whatever the order of answers and landings, a context that cannot  *)
(* be executed now never can be later.                                     *)
SignedNotAhead ==
  \A x \in Signatures :
    x.counted /\ x.kind # "builder" => x.counter <= odometer[x.role] + 1

(* Of a batch a secp authority signed, at most one transaction executes,   *)
(* with or without preFetch, in whatever order they are sent.              *)
BatchLandsOnce ==
  \A x, y \in landed :
    /\ x.counted /\ x.kind = "batch" /\ y.kind = "batch"
    /\ x.task = y.task /\ x.call = y.call
    => x = y

(* A context built with preFetch is never older than the oldest request    *)
(* still unanswered when its own was answered: with no other fetch under   *)
(* way it is as current as its own request, and an answer that overtakes   *)
(* it takes it back to what another caller asked for, never further.       *)
PreFetchIsBounded ==
  \A x \in Signatures :
    x.counted /\ x.pre /\ x.kind # "builder" => \E f \in x.floors : x.counter > f

(* A builder's authorities are added in the order of its addAuthority      *)
(* calls, in whatever order the signatures come back.                      *)
BuilderLandsInOrder ==
  [][\A x \in landed' \ landed, y \in landed :
       /\ x.counted /\ x.kind = "builder" /\ y.kind = "builder"
       /\ x.task = y.task /\ x.call = y.call
       => y.seq < x.seq]_vars

-----------------------------------------------------------------------------
(* The inductive invariant behind them.                                    *)

(* The types of TypeOK that the argument uses.                             *)
Shapes ==
  /\ odometer \in [Role -> Nat] /\ live \subseteq Role
  /\ snapshot \in Account
  /\ pc \in [Task -> {"idle", "fetching", "looking", "signing"}]
  /\ job \in [Task -> Job]
  /\ reply \in [Task -> Account \cup {NoReply}]
  /\ pending \in [Task -> SUBSET Nat]
  /\ drafts \in [Task -> SUBSET Context]
  /\ \A t \in Task : IsFiniteSet(drafts[t])
  /\ ret \in [Task -> {"none", "ok", "threw"}]
  /\ calls \in [Task -> Nat] /\ faults \in Nat
  /\ net \subseteq Context /\ landed \subseteq Context

(* Everything read from the account is at most what it holds now, and an   *)
(* answer is no older than its request.                                    *)
ReadsAreOld ==
  /\ \A r \in Role : snapshot.odometer[r] <= odometer[r]
  /\ \A t \in Task :
       /\ job[t].stored <= odometer[job[t].role]
       /\ \A r \in Role : job[t].asked[r] <= odometer[r]
       /\ reply[t] # NoReply =>
            \A r \in Role : /\ reply[t].odometer[r] <= odometer[r]
                            /\ job[t].asked[r] <= reply[t].odometer[r]

(* A caller that looks its role up finds a snapshot some fetch under way   *)
(* at its answer had asked for; so will it after any answer still to come. *)
ReadsAreBounded ==
  \A t \in Task :
    /\ pc[t] = "looking" =>
         /\ \E f \in job[t].floors : f <= snapshot.odometer[job[t].role]
         /\ \A u \in Task : pc[u] = "fetching" =>
              \E f \in job[t].floors : f <= job[u].asked[job[t].role]
    /\ pc[t] = "signing" /\ job[t].pre =>
         \E f \in job[t].floors : f <= job[t].stored

(* Drafts belong to the running call; a caller has the contexts of a call  *)
(* only once it has returned, and those of one call agree.                 *)
Returned ==
  /\ \A t \in Task : job[t].kind = "refetch" =>
       drafts[t] = {} /\ pc[t] \notin {"looking", "signing"}
  /\ \A t \in Task : \A x \in drafts[t] :
       /\ pc[t] # "idle"
       /\ x.task = t /\ x.call = calls[t] /\ x.kind = job[t].kind
       /\ x.role = job[t].role /\ x.counted = job[t].counted
  /\ \A x \in net \cup landed :
       /\ x.call <= calls[x.task]
       /\ x.call = calls[x.task] => pc[x.task] = "idle"
  /\ \A x, y \in net \cup landed :
       x.task = y.task /\ x.call = y.call
         => x.kind = y.kind /\ x.role = y.role /\ x.counted = y.counted

(* A builder's counter is its place's; the others' are bounded.            *)
CountersOf(S) ==
  \A x \in S :
    x.counted =>
      IF x.kind = "builder" THEN x.counter = 1 + x.seq
      ELSE x.counter <= odometer[x.role] + 1
           /\ (x.pre => \E f \in x.floors : f < x.counter)

(* What has been executed is spent, and so is the rest of its batch.       *)
Spent ==
  /\ \A x \in landed : x.counted => x.counter <= odometer[x.role]
  /\ \A x \in landed, y \in net \cup landed :
       /\ x.counted /\ x.kind = "batch" /\ x # y
       /\ x.task = y.task /\ x.call = y.call
       => y \in net \ landed /\ y.counter <= odometer[y.role]

CountersInv ==
  /\ Shapes
  /\ ReadsAreOld
  /\ ReadsAreBounded
  /\ Returned
  /\ CountersOf(net \cup landed) /\ \A t \in Task : CountersOf(drafts[t])
  /\ Spent

(* A sequential call awaits the signature of one place, the one after      *)
(* those it has signed, and has as many to go.                             *)
SignedInOrder ==
  \A t \in Task :
    /\ pending[t] \subseteq 0 .. job[t].size - 1
    /\ job[t].kind # "builder" =>
         /\ pending[t] = IF pc[t] = "signing" THEN {NextPlace(t)} ELSE {}
         /\ \A x \in drafts[t] : x.seq < NextPlace(t)
         /\ pc[t] # "idle" => NextPlace(t) < job[t].size
    /\ job[t].kind \notin {"batch", "builder"} => drafts[t] = {}

(* All of it together: each step preserves it.                             *)
ClientInv == CountersInv /\ SignedInOrder

-----------------------------------------------------------------------------
(* What the repository says and the code does not do.                      *)

(* The builder is offered "for new and exsisting swig": on an existing one *)
(* its first context should carry the counter after the stored one.        *)
BuilderContinues ==
  \A x \in net \cup landed :
    x.counted /\ x.kind = "builder" /\ x.seq = 0 => x.counter = x.stored + 1

(* refetch "updates the Swig with the lateset on-chain state": a context   *)
(* built with preFetch should not be older than the fetch it awaited.      *)
PreFetchIsCurrent ==
  \A x \in Signatures :
    x.counted /\ x.pre /\ x.kind # "builder" => x.counter > x.asked
=============================================================================
