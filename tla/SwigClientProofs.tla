-------------------------- MODULE SwigClientProofs --------------------------
(***************************************************************************)
(* What a signed context may still do, for every number of callers, roles, *)
(* contexts and every bound: CountersInv of SwigClient is inductive.         *)
(***************************************************************************)
EXTENDS SwigClient, FiniteSetTheorems, TLAPS

(* The parts of CountersInv under one name each.                             *)
NetCounters == CountersOf(net \cup landed)
DraftCounters == \A t \in Task : CountersOf(drafts[t])

LEMMA Parts ==
  CountersInv <=> /\ Shapes /\ ReadsAreOld /\ ReadsAreBounded /\ Returned
                  /\ NetCounters /\ DraftCounters /\ Spent
BY DEF CountersInv, NetCounters, DraftCounters

LEMMA InitCountersInv == Init => CountersInv
<1> SUFFICES ASSUME Init PROVE CountersInv
  OBVIOUS
<1>1. (CHOOSE r \in Role : TRUE) \in Role
  BY ConstantAssumption
<1>2. odometer \in [Role -> Nat] /\ live = Role
      /\ snapshot = [odometer |-> odometer, live |-> live]
  BY DEF Init
<1>3. Shapes
  BY <1>1, <1>2, FS_EmptySet DEF Init, Shapes, Account, Job, CallKind, Unasked
<1>4. ReadsAreOld /\ ReadsAreBounded
  <2>1. \A t \in Task : /\ job[t].stored = 0 /\ job[t].asked = Unasked
                        /\ job[t].role \in Role /\ pc[t] = "idle" /\ reply[t] = NoReply
    BY <1>1 DEF Init
  <2> QED
    BY <1>2, <2>1 DEF Unasked, ReadsAreOld, ReadsAreBounded
<1>5. Returned /\ NetCounters /\ DraftCounters /\ Spent
  BY DEF Init, Returned, NetCounters, DraftCounters, CountersOf, Spent
<1> QED
  BY <1>3, <1>4, <1>5, Parts

(* Unless an answer arrives it is enough to look at the caller that moves: *)
(* a fetch it starts asks for what the account holds now.                  *)
LEMMA BoundedOfOne ==
  ASSUME Shapes, ReadsAreOld, ReadsAreBounded, NEW t \in Task,
         snapshot' = snapshot,
         \A u \in Task : u # t => job'[u] = job[u] /\ pc'[u] = pc[u],
         pc'[t] # "looking",
         pc'[t] = "fetching" => \/ pc[t] = "fetching" /\ job'[t].asked = job[t].asked
                                \/ job'[t].asked = odometer,
         pc'[t] = "signing" /\ job'[t].pre => \E f \in job'[t].floors : f <= job'[t].stored
  PROVE  ReadsAreBounded'
<1>1. ASSUME NEW u \in Task, pc'[u] = "looking"
      PROVE  /\ \E f \in job'[u].floors : f <= snapshot'.odometer[job'[u].role]
             /\ \A v \in Task : pc'[v] = "fetching" =>
                  \E f \in job'[u].floors : f <= job'[v].asked[job'[u].role]
  <2>1. u # t /\ job'[u] = job[u] /\ pc[u] = "looking"
    BY <1>1
  <2>2. PICK f \in job[u].floors : f <= snapshot.odometer[job[u].role]
    BY <2>1 DEF ReadsAreBounded
  <2>3. /\ f \in Nat /\ job[u].role \in Role
        /\ snapshot.odometer[job[u].role] \in Nat /\ odometer[job[u].role] \in Nat
    BY DEF Shapes, Job, Account
  <2>4. f <= odometer[job[u].role]
    BY <2>2, <2>3 DEF ReadsAreOld
  <2>5. ASSUME NEW v \in Task, pc'[v] = "fetching"
        PROVE  \E g \in job[u].floors : g <= job'[v].asked[job[u].role]
    <3>1. CASE pc[v] = "fetching" /\ job'[v].asked = job[v].asked
      BY <2>1, <3>1 DEF ReadsAreBounded
    <3>2. CASE job'[v].asked = odometer
      BY <2>4, <3>2
    <3> QED
      BY <2>5, <3>1, <3>2
  <2> QED
    BY <2>1, <2>2, <2>5
<1>2. ASSUME NEW u \in Task, pc'[u] = "signing", job'[u].pre
      PROVE  \E f \in job'[u].floors : f <= job'[u].stored
  BY <1>2 DEF ReadsAreBounded
<1> QED
  BY <1>1, <1>2 DEF ReadsAreBounded

-----------------------------------------------------------------------------
(* A call begins.                                                          *)

LEMMA BeginCountersInv ==
  ASSUME CountersInv, NEW t \in Task, NEW kind \in CallKind,
         NEW sign \in BOOLEAN, NEW pre \in BOOLEAN,
         NEW r \in Role, NEW size \in 1 .. MaxContexts,
         Begin(t, kind, sign, r, size, pre)
  PROVE  CountersInv'
<1> DEFINE j == [kind |-> kind, counted |-> Counted(r, sign), role |-> r, size |-> size,
                 pre |-> pre, stored |-> IF pre THEN 0 ELSE snapshot.odometer[r],
                 asked |-> IF pre THEN odometer ELSE Unasked, floors |-> {}]
<1>0. Shapes /\ ReadsAreOld /\ ReadsAreBounded /\ Returned /\ NetCounters /\ DraftCounters /\ Spent
  BY Parts
<1>1. /\ job' = [job EXCEPT ![t] = j]
      /\ pc' = [pc EXCEPT ![t] = IF pre THEN "fetching" ELSE "signing"]
      /\ reply' = [reply EXCEPT ![t] = NoReply]
      /\ drafts' = [drafts EXCEPT ![t] = {}]
      /\ ret' = [ret EXCEPT ![t] = "none"]
      /\ calls' = [calls EXCEPT ![t] = @ + 1]
      /\ UNCHANGED <<odometer, live, snapshot, faults, net, landed>>
  BY DEF Begin, chain
<1>2. snapshot.odometer[r] \in Nat /\ odometer[r] \in Nat
      /\ snapshot.odometer[r] <= odometer[r]
  BY <1>0 DEF Shapes, Account, ReadsAreOld
<1>3. j \in Job
  BY <1>0, <1>2, ConstantAssumption DEF Job, Counted, Shapes, Unasked
<1>4. /\ j.role = r /\ j.stored \in Nat /\ j.stored <= odometer[r] /\ j.pre = pre
      /\ pre => j.asked = odometer
      /\ \A q \in Role : j.asked[q] <= odometer[q]
  <2>1. \A q \in Role : odometer[q] \in Nat
    BY <1>0 DEF Shapes
  <2> QED
    BY <1>2, <2>1 DEF Unasked
<1> HIDE DEF j
<1>5. pending' \in [Task -> SUBSET Nat]
  <2>1. Places(j) \subseteq Nat
    BY <1>3 DEF Places, Job
  <2>2. job'[t] = j
    BY <1>0, <1>1 DEF Shapes
  <2>3. pending' = [pending EXCEPT ![t] = IF pre THEN {} ELSE Places(job'[t])]
    BY DEF Begin
  <2> QED
    BY <1>0, <2>1, <2>2, <2>3 DEF Shapes
<1>6. Shapes'
  <2>1. job' \in [Task -> Job] /\ pc' \in [Task -> {"idle", "fetching", "looking", "signing"}]
    BY <1>0, <1>1, <1>3 DEF Shapes
  <2>2. drafts' \in [Task -> SUBSET Context] /\ \A u \in Task : IsFiniteSet(drafts'[u])
    BY <1>0, <1>1, FS_EmptySet DEF Shapes
  <2>3. /\ reply' \in [Task -> Account \cup {NoReply}] /\ calls' \in [Task -> Nat]
        /\ ret' \in [Task -> {"none", "ok", "threw"}]
    BY <1>0, <1>1 DEF Shapes
  <2> QED
    BY <1>0, <1>1, <1>5, <2>1, <2>2, <2>3 DEF Shapes
<1>7. ReadsAreOld'
  <2>1. /\ job'[t] = j /\ reply'[t] = NoReply
        /\ pre => pc'[t] = "fetching"
    BY <1>0, <1>1 DEF Shapes
  <2>2. ASSUME NEW u \in Task, u # t
        PROVE  job'[u] = job[u] /\ reply'[u] = reply[u] /\ pc'[u] = pc[u]
    BY <1>0, <1>1, <2>2 DEF Shapes
  <2>3. ASSUME NEW u \in Task
        PROVE  /\ job'[u].stored <= odometer[job'[u].role]
               /\ \A q \in Role : job'[u].asked[q] <= odometer[q]
               /\ reply'[u] # NoReply =>
                    \A q \in Role : /\ reply'[u].odometer[q] <= odometer[q]
                                    /\ job'[u].asked[q] <= reply'[u].odometer[q]
    <3>1. CASE u = t
      BY <1>2, <1>4, <2>1, <3>1
    <3>2. CASE u # t
      BY <1>0, <2>2, <3>2 DEF ReadsAreOld
    <3> QED
      BY <3>1, <3>2
  <2> QED
    BY <1>0, <1>1, <2>3 DEF ReadsAreOld
<1>b. ReadsAreBounded'
  <2>1. /\ pc'[t] = IF pre THEN "fetching" ELSE "signing"
        /\ job'[t] = j
        /\ \A u \in Task : u # t => job'[u] = job[u] /\ pc'[u] = pc[u]
    BY <1>0, <1>1 DEF Shapes
  <2> QED
    BY <1>0, <1>1, <1>4, <2>1, BoundedOfOne
<1>8. Returned'
  <2>1. \A x \in net \cup landed : x.task \in Task /\ x.call \in Nat
    BY <1>0 DEF Shapes, Context
  <2>2. \A x \in net \cup landed :
          /\ x.call <= calls'[x.task]
          /\ x.call = calls'[x.task] => pc'[x.task] = "idle"
    BY <1>0, <1>1, <2>1 DEF Shapes, Returned
  <2>3. \A u \in Task : \A x \in drafts'[u] :
          /\ pc'[u] # "idle"
          /\ x.task = u /\ x.call = calls'[u] /\ x.kind = job'[u].kind
          /\ x.role = job'[u].role /\ x.counted = job'[u].counted
    BY <1>0, <1>1 DEF Shapes, Returned
  <2>4. \A u \in Task : job'[u].kind = "refetch" => drafts'[u] = {} /\ pc'[u] \notin {"looking", "signing"}
    <3>1. j.kind = "refetch" => pre
      BY DEF Begin, j
    <3> QED
      BY <1>0, <1>1, <3>1 DEF Shapes, Returned
  <2> QED
    BY <1>0, <1>1, <2>2, <2>3, <2>4 DEF Returned
<1>9. NetCounters' /\ DraftCounters' /\ Spent'
  BY <1>0, <1>1 DEF Shapes, NetCounters, DraftCounters, CountersOf, Spent
<1> QED
  BY <1>6, <1>7, <1>b, <1>8, <1>9, Parts DEF CountersInv, NetCounters, DraftCounters

-----------------------------------------------------------------------------
(* The fetch.                                                              *)

LEMMA AnswerFetchCountersInv ==
  ASSUME CountersInv, NEW t \in Task, AnswerFetch(t)
  PROVE  CountersInv'
<1>0. Shapes /\ ReadsAreOld /\ ReadsAreBounded /\ Returned /\ NetCounters /\ DraftCounters /\ Spent
  BY Parts
<1>1. /\ reply' = [reply EXCEPT ![t] = [odometer |-> odometer, live |-> live]]
      /\ UNCHANGED <<odometer, live, snapshot, pc, job, pending, drafts, ret,
                     calls, faults, net, landed>>
  BY DEF AnswerFetch, chain
<1>2. [odometer |-> odometer, live |-> live] \in Account
  BY <1>0 DEF Shapes, Account
<1>3. Shapes'
  BY <1>0, <1>1, <1>2 DEF Shapes
<1>4. ReadsAreOld'
  <2>1. \A u \in Task : reply'[u] = IF u = t THEN [odometer |-> odometer, live |-> live]
                                    ELSE reply[u]
    BY <1>0, <1>1 DEF Shapes
  <2>2. \A r \in Role : odometer[r] \in Nat
    BY <1>0 DEF Shapes
  <2> QED
    BY <1>0, <1>1, <2>1, <2>2 DEF ReadsAreOld
<1>b. ReadsAreBounded'
  BY <1>0, <1>1 DEF ReadsAreBounded
<1>5. Returned'
  BY <1>0, <1>1 DEF Returned
<1>6. NetCounters' /\ DraftCounters' /\ Spent'
  BY <1>0, <1>1 DEF NetCounters, DraftCounters, CountersOf, Spent
<1> QED
  BY <1>3, <1>4, <1>b, <1>5, <1>6 DEF CountersInv, NetCounters, DraftCounters

(* A throw only forgets.                                                   *)
LEMMA ThrowCountersInv ==
  ASSUME CountersInv, NEW t \in Task, Throw(t), faults' \in Nat,
         UNCHANGED <<odometer, live, snapshot, job, reply, calls, net, landed>>
  PROVE  CountersInv'
<1>0. Shapes /\ ReadsAreOld /\ ReadsAreBounded /\ Returned /\ NetCounters /\ DraftCounters /\ Spent
  BY Parts
<1>1. /\ pc' = [pc EXCEPT ![t] = "idle"]
      /\ drafts' = [drafts EXCEPT ![t] = {}]
      /\ pending' = [pending EXCEPT ![t] = {}]
      /\ ret' = [ret EXCEPT ![t] = "threw"]
  BY DEF Throw
<1>2. Shapes'
  <2>1. drafts' \in [Task -> SUBSET Context] /\ \A u \in Task : IsFiniteSet(drafts'[u])
    BY <1>0, <1>1, FS_EmptySet DEF Shapes
  <2> QED
    BY <1>0, <1>1, <2>1 DEF Shapes
<1>3. ReadsAreOld'
  BY <1>0, <1>1 DEF Shapes, ReadsAreOld
<1>b. ReadsAreBounded'
  <2>1. pc'[t] = "idle" /\ \A u \in Task : u # t => pc'[u] = pc[u]
    BY <1>0, <1>1 DEF Shapes
  <2> QED
    BY <1>0, <2>1, BoundedOfOne
<1>4. Returned'
  <2>1. \A x \in net \cup landed : x.task \in Task
    BY <1>0 DEF Shapes, Context
  <2>2. \A x \in net \cup landed :
          /\ x.call <= calls[x.task]
          /\ x.call = calls[x.task] => pc'[x.task] = "idle"
    BY <1>0, <1>1, <2>1 DEF Shapes, Returned
  <2>3. \A u \in Task : \A x \in drafts'[u] : pc'[u] # "idle" /\ x \in drafts[u]
    BY <1>0, <1>1 DEF Shapes, Returned
  <2>4. \A u \in Task : \A x \in drafts'[u] :
          /\ pc'[u] # "idle"
          /\ x.task = u /\ x.call = calls[u] /\ x.kind = job[u].kind
          /\ x.role = job[u].role /\ x.counted = job[u].counted
    BY <1>0, <2>3 DEF Returned
  <2>5. \A u \in Task : job[u].kind = "refetch" => drafts'[u] = {} /\ pc'[u] \notin {"looking", "signing"}
    BY <1>0, <1>1 DEF Shapes, Returned
  <2> QED
    BY <1>0, <2>2, <2>4, <2>5 DEF Returned
<1>5. NetCounters' /\ DraftCounters' /\ Spent'
  BY <1>0, <1>1 DEF Shapes, NetCounters, DraftCounters, CountersOf, Spent
<1> QED
  BY <1>2, <1>3, <1>b, <1>4, <1>5 DEF CountersInv, NetCounters, DraftCounters

LEMMA FailureCountersInv ==
  ASSUME CountersInv, NEW t \in Task, FetchFails(t) \/ SigningFails(t)
  PROVE  CountersInv'
<1>1. faults' \in Nat
  BY DEF CountersInv, Shapes, FetchFails, SigningFails
<1> QED
  BY <1>1, ThrowCountersInv DEF FetchFails, SigningFails, chain

(* An answer arrives.                                                      *)
LEMMA RefetchedCountersInv ==
  ASSUME CountersInv, NEW t \in Task, Refetched(t)
  PROVE  CountersInv'
<1> DEFINE a == reply[t]
           S == UnderWay(job[t].role)
<1>0. Shapes /\ ReadsAreOld /\ ReadsAreBounded /\ Returned /\ NetCounters /\ DraftCounters /\ Spent
  BY Parts
<1>1. /\ pc[t] = "fetching" /\ a \in Account /\ a # NoReply
      /\ snapshot' = a /\ reply' = [reply EXCEPT ![t] = NoReply]
      /\ UNCHANGED <<odometer, live, pending, drafts, calls, faults, net, landed>>
  BY <1>0 DEF Refetched, chain, Shapes
<1>2. \/ /\ job[t].kind = "refetch" /\ pc' = [pc EXCEPT ![t] = "idle"]
         /\ ret' = [ret EXCEPT ![t] = "ok"] /\ job' = job
      \/ /\ job[t].kind # "refetch" /\ pc' = [pc EXCEPT ![t] = "looking"]
         /\ ret' = ret /\ job' = [job EXCEPT ![t].floors = S]
  BY DEF Refetched
<1>3. /\ job \in [Task -> Job] /\ job[t].role \in Role
      /\ \A u \in Task : job[u] \in Job /\ job[u].asked \in [Role -> Nat]
  BY <1>0 DEF Shapes, Job
<1>4. S \in SUBSET Nat
  BY <1>3 DEF UnderWay
<1>5. \A u \in Task : pc[u] = "fetching" => job[u].asked[job[t].role] \in S
  BY DEF UnderWay
<1> HIDE DEF S
<1>6. /\ job' \in [Task -> Job]
      /\ \A u \in Task : /\ job'[u].kind = job[u].kind /\ job'[u].role = job[u].role
                         /\ job'[u].counted = job[u].counted /\ job'[u].pre = job[u].pre
                         /\ job'[u].asked = job[u].asked /\ job'[u].stored = job[u].stored
      /\ \A u \in Task : u # t => job'[u] = job[u]
      /\ pc'[t] = "looking" => job'[t].floors = S
  <2>1. CASE job' = job /\ pc' = [pc EXCEPT ![t] = "idle"]
    BY <1>0, <1>3, <2>1 DEF Shapes
  <2>2. CASE job' = [job EXCEPT ![t].floors = S]
    <3> DEFINE b == [job[t] EXCEPT !.floors = S]
    <3>1. b \in Job /\ job' = [job EXCEPT ![t] = b]
      BY <1>3, <1>4, <2>2 DEF Job
    <3>2. /\ b.kind = job[t].kind /\ b.role = job[t].role /\ b.counted = job[t].counted
          /\ b.pre = job[t].pre /\ b.asked = job[t].asked /\ b.stored = job[t].stored
          /\ b.floors = S
      BY <1>3 DEF Job
    <3> HIDE DEF b
    <3> QED
      BY <1>3, <3>1, <3>2
  <2> QED
    BY <1>2, <2>1, <2>2
<1>7. /\ pc'[t] \in {"idle", "looking"}
      /\ pc'[t] = "looking" => job[t].kind # "refetch"
      /\ pc'[t] = "idle" => job[t].kind = "refetch"
      /\ \A u \in Task : u # t => pc'[u] = pc[u]
  BY <1>0, <1>2 DEF Shapes
<1>8. Shapes'
  BY <1>0, <1>1, <1>2, <1>6 DEF Shapes
<1>9. /\ \A r \in Role : a.odometer[r] <= odometer[r] /\ job[t].asked[r] <= a.odometer[r]
      /\ \A r \in Role : a.odometer[r] \in Nat
  BY <1>0, <1>1 DEF ReadsAreOld, Account
<1>10. ReadsAreOld'
  <2>1. \A u \in Task : u # t => reply'[u] = reply[u]
    BY <1>0, <1>1 DEF Shapes
  <2>2. reply'[t] = NoReply
    BY <1>0, <1>1 DEF Shapes
  <2> HIDE DEF a
  <2>3. \A r \in Role : snapshot'.odometer[r] <= odometer'[r]
    BY <1>1, <1>9
  <2>4. ASSUME NEW u \in Task
        PROVE  /\ job'[u].stored <= odometer'[job'[u].role]
               /\ \A r \in Role : job'[u].asked[r] <= odometer'[r]
               /\ reply'[u] # NoReply =>
                    \A r \in Role : /\ reply'[u].odometer[r] <= odometer'[r]
                                    /\ job'[u].asked[r] <= reply'[u].odometer[r]
    BY <1>0, <1>1, <1>6, <2>1, <2>2 DEF ReadsAreOld
  <2> QED
    BY <2>3, <2>4 DEF ReadsAreOld
<1>11. ReadsAreBounded'
  <2> HIDE DEF a
  <2>1. ASSUME NEW u \in Task, pc'[u] = "looking"
        PROVE  /\ \E f \in job'[u].floors : f <= snapshot'.odometer[job'[u].role]
               /\ \A v \in Task : pc'[v] = "fetching" =>
                    \E f \in job'[u].floors : f <= job'[v].asked[job'[u].role]
    <3>1. ASSUME NEW v \in Task, pc[v] = "fetching"
          PROVE  \E f \in job'[u].floors : f <= job[v].asked[job[u].role]
      <4>1. CASE u = t
        <5>1. job[v].asked[job[t].role] \in job'[t].floors
          BY <1>5, <1>6, <2>1, <3>1, <4>1
        <5>2. job[v].asked[job[t].role] \in Nat
          BY <1>3
        <5> QED
          BY <4>1, <5>1, <5>2
      <4>2. CASE u # t
        BY <1>0, <1>6, <1>7, <2>1, <3>1, <4>2 DEF ReadsAreBounded
      <4> QED
        BY <4>1, <4>2
    <3>2. PICK f \in job'[u].floors : f <= job[t].asked[job[u].role]
      BY <1>1, <3>1
    <3>3. /\ f \in Nat /\ job[u].role \in Role
          /\ job[t].asked[job[u].role] \in Nat
      BY <1>3, <1>6 DEF Job
    <3>4. f <= a.odometer[job[u].role]
      BY <1>9, <3>2, <3>3
    <3>5. \A v \in Task : pc'[v] = "fetching" => pc[v] = "fetching"
      BY <1>7
    <3> QED
      BY <1>1, <1>6, <3>1, <3>4, <3>5
  <2>2. ASSUME NEW u \in Task, pc'[u] = "signing", job'[u].pre
        PROVE  \E f \in job'[u].floors : f <= job'[u].stored
    BY <1>0, <1>6, <1>7, <2>2 DEF ReadsAreBounded
  <2> QED
    BY <2>1, <2>2 DEF ReadsAreBounded
<1>12. Returned'
  <2>1. \A x \in net \cup landed : x.task \in Task
    BY <1>0 DEF Shapes, Context
  <2>2. \A x \in net \cup landed :
          /\ x.call <= calls[x.task]
          /\ x.call = calls[x.task] => pc'[x.task] = "idle"
    BY <1>0, <1>1, <1>7, <2>1 DEF Returned
  <2>3. \A u \in Task : \A x \in drafts[u] :
          /\ pc'[u] # "idle"
          /\ x.task = u /\ x.call = calls[u] /\ x.kind = job'[u].kind
          /\ x.role = job'[u].role /\ x.counted = job'[u].counted
    BY <1>0, <1>6, <1>7 DEF Returned
  <2>4. \A u \in Task : job'[u].kind = "refetch" =>
          drafts[u] = {} /\ pc'[u] \notin {"looking", "signing"}
    BY <1>0, <1>6, <1>7 DEF Returned
  <2> QED
    BY <1>0, <1>1, <2>2, <2>3, <2>4 DEF Returned
<1>13. NetCounters' /\ DraftCounters' /\ Spent'
  BY <1>0, <1>1 DEF NetCounters, DraftCounters, CountersOf, Spent
<1> QED
  BY <1>8, <1>10, <1>11, <1>12, <1>13 DEF CountersInv, NetCounters, DraftCounters

(* The call resumes and finds its role, or throws.                         *)
LEMMA LookUpCountersInv ==
  ASSUME CountersInv, NEW t \in Task, LookUp(t)
  PROVE  CountersInv'
<1>0. Shapes /\ ReadsAreOld /\ ReadsAreBounded /\ Returned /\ NetCounters /\ DraftCounters /\ Spent
  BY Parts
<1>1. /\ pc[t] = "looking"
      /\ UNCHANGED <<odometer, live, snapshot, reply, calls, faults, net, landed>>
  BY DEF LookUp, chain
<1>2. CASE Throw(t) /\ UNCHANGED job
  BY <1>0, <1>1, <1>2, ThrowCountersInv DEF Shapes
<1>3. CASE \E places \in SUBSET Nat : Capture(t, places)
  <2> DEFINE b == [job[t] EXCEPT !.stored = snapshot.odometer[job[t].role]]
  <2>1. /\ job' = [job EXCEPT ![t] = b]
        /\ pc' = [pc EXCEPT ![t] = "signing"]
        /\ pending' \in [Task -> SUBSET Nat]
        /\ UNCHANGED <<drafts, ret>>
        /\ job[t].kind # "refetch"
    BY <1>0, <1>1, <1>3 DEF Capture, Shapes, Returned
  <2>2. /\ job \in [Task -> Job] /\ job[t].role \in Role
        /\ snapshot.odometer[job[t].role] \in Nat
    BY <1>0 DEF Shapes, Account, Job
  <2>3. /\ b \in Job /\ b.stored = snapshot.odometer[job[t].role]
        /\ b.role = job[t].role /\ b.asked = job[t].asked /\ b.floors = job[t].floors
        /\ b.kind = job[t].kind /\ b.counted = job[t].counted /\ b.pre = job[t].pre
    BY <2>2 DEF Job
  <2> HIDE DEF b
  <2>4. /\ job'[t] = b /\ pc'[t] = "signing" /\ job' \in [Task -> Job]
        /\ \A u \in Task : u # t => job'[u] = job[u] /\ pc'[u] = pc[u]
    BY <1>0, <2>1, <2>2, <2>3 DEF Shapes
  <2>5. Shapes'
    BY <1>0, <1>1, <2>1, <2>4 DEF Shapes
  <2>6. ReadsAreOld'
    <3>1. job'[t].stored <= odometer[job'[t].role]
      BY <1>0, <2>2, <2>3, <2>4 DEF ReadsAreOld
    <3>2. \A u \in Task : job'[u].asked = job[u].asked
      BY <2>3, <2>4
    <3> QED
      BY <1>0, <1>1, <2>4, <3>1, <3>2 DEF ReadsAreOld
  <2>7. ReadsAreBounded'
    <3>1. \E f \in job'[t].floors : f <= job'[t].stored
      BY <1>0, <1>1, <2>3, <2>4 DEF ReadsAreBounded
    <3> QED
      BY <1>0, <1>1, <2>4, <3>1, BoundedOfOne
  <2>8. Returned'
    <3>1. \A x \in net \cup landed : x.task \in Task
      BY <1>0 DEF Shapes, Context
    <3>2. \A x \in net \cup landed :
            /\ x.call <= calls[x.task]
            /\ x.call = calls[x.task] => pc'[x.task] = "idle"
      BY <1>0, <1>1, <2>4, <3>1 DEF Returned
    <3>3. \A u \in Task : \A x \in drafts[u] :
            /\ pc'[u] # "idle"
            /\ x.task = u /\ x.call = calls[u] /\ x.kind = job'[u].kind
            /\ x.role = job'[u].role /\ x.counted = job'[u].counted
      BY <1>0, <2>3, <2>4 DEF Returned
    <3>4. \A u \in Task : job'[u].kind = "refetch" =>
            drafts[u] = {} /\ pc'[u] \notin {"looking", "signing"}
      BY <1>0, <2>1, <2>3, <2>4 DEF Returned
    <3> QED
      BY <1>0, <1>1, <2>1, <3>2, <3>3, <3>4 DEF Returned
  <2>9. NetCounters' /\ DraftCounters' /\ Spent'
    BY <1>0, <1>1, <2>1 DEF NetCounters, DraftCounters, CountersOf, Spent
  <2> QED
    BY <2>5, <2>6, <2>7, <2>8, <2>9 DEF CountersInv, NetCounters, DraftCounters
<1>4. Places(job[t]) \in SUBSET Nat /\ {NextPlace(t)} \in SUBSET Nat
  <2>1. job[t] \in Job /\ IsFiniteSet(drafts[t])
    BY <1>0 DEF Shapes
  <2>2. NextPlace(t) \in Nat
    BY <2>1, FS_CardinalityType DEF NextPlace
  <2>3. Places(job[t]) \subseteq Nat
    BY <2>1 DEF Places, Job
  <2> QED
    BY <2>2, <2>3
<1> QED
  BY <1>2, <1>3, <1>4 DEF LookUp

-----------------------------------------------------------------------------
(* The signature.                                                          *)

(* What the running call signs is well formed, is the call's own, and      *)
(* bears a counter that fits its kind.                                     *)
LEMMA NewContext ==
  ASSUME CountersInv, NEW t \in Task, NEW seq \in pending[t], pc[t] = "signing"
  PROVE  LET x == ContextOf(t, seq)
         IN  /\ x \in Context
             /\ x.task = t /\ x.call = calls[t] /\ x.kind = job[t].kind
             /\ x.role = job[t].role /\ x.counted = job[t].counted
             /\ CountersOf({x})
<1> DEFINE x == ContextOf(t, seq)
           j == job[t]
<1>0. Shapes /\ ReadsAreOld /\ ReadsAreBounded
  BY Parts
<1>1. j \in Job /\ seq \in Nat /\ calls[t] \in Nat /\ odometer[j.role] \in Nat
  BY <1>0 DEF Shapes, Job
<1>2. j.stored <= odometer[j.role] /\ (j.pre => \E f \in j.floors : f <= j.stored)
  BY <1>0 DEF ReadsAreOld, ReadsAreBounded
<1>3. /\ x.task = t /\ x.call = calls[t] /\ x.seq = seq /\ x.kind = j.kind
      /\ x.pre = j.pre /\ x.role = j.role /\ x.counted = j.counted
      /\ x.counter = IF j.counted THEN CounterOf(j, seq) ELSE 0
      /\ x.floors = j.floors
  BY DEF ContextOf
<1>4. CounterOf(j, seq) = IF j.kind = "builder" THEN 1 + seq ELSE j.stored + 1
  BY DEF CounterOf, NextOdometer
<1>5. CounterOf(j, seq) \in Nat
  BY <1>1, <1>4 DEF Job
<1>6. x \in Context
  BY <1>1, <1>5 DEF ContextOf, Context, Job
<1>7. ASSUME j.counted
      PROVE  IF j.kind = "builder" THEN x.counter = 1 + seq
             ELSE x.counter <= odometer[j.role] + 1
                    /\ (j.pre => \E f \in j.floors : f < x.counter)
  BY <1>1, <1>2, <1>3, <1>4, <1>7 DEF Job
<1> HIDE DEF x, j
<1>8. CountersOf({x})
  BY <1>3, <1>7 DEF CountersOf
<1> QED
  BY <1>3, <1>6, <1>8 DEF x, j

(* The call returns: its caller gets every context it has signed.          *)
LEMMA ReturnCountersInv ==
  ASSUME CountersInv, NEW t \in Task, NEW seq \in pending[t], pc[t] = "signing",
         net' = net \cup (drafts[t] \cup {ContextOf(t, seq)}),
         drafts' = [drafts EXCEPT ![t] = {}],
         pending' = [pending EXCEPT ![t] = {}],
         pc' = [pc EXCEPT ![t] = "idle"],
         ret' = [ret EXCEPT ![t] = "ok"],
         UNCHANGED <<odometer, live, snapshot, calls, faults, landed, job, reply>>
  PROVE  CountersInv'
<1> DEFINE x == ContextOf(t, seq)
           signed == drafts[t] \cup {x}
<1>0. Shapes /\ ReadsAreOld /\ ReadsAreBounded /\ Returned /\ NetCounters /\ DraftCounters /\ Spent
  BY Parts
<1>1. /\ x \in Context /\ x.task = t /\ x.call = calls[t] /\ x.kind = job[t].kind
      /\ x.role = job[t].role /\ x.counted = job[t].counted
      /\ CountersOf({x})
  BY NewContext
<1> HIDE DEF x
<1>2. \A y \in signed :
        /\ y \in Context /\ y.task = t /\ y.call = calls[t] /\ y.kind = job[t].kind
        /\ y.role = job[t].role /\ y.counted = job[t].counted
  BY <1>0, <1>1 DEF Shapes, Returned
<1>3. net' = net \cup signed
  BY DEF x
<1> HIDE DEF signed
<1>4. \A y \in net \cup landed : y.task \in Task /\ ~(y.task = t /\ y.call = calls[t])
  BY <1>0 DEF Shapes, Context, Returned
<1>5. Shapes'
  <2>1. drafts' \in [Task -> SUBSET Context] /\ \A u \in Task : IsFiniteSet(drafts'[u])
    BY <1>0, FS_EmptySet DEF Shapes
  <2> QED
    BY <1>0, <1>2, <1>3, <2>1 DEF Shapes
<1>6. ReadsAreOld' /\ ReadsAreBounded'
  <2>1. pc'[t] = "idle" /\ \A u \in Task : u # t => pc'[u] = pc[u]
    BY <1>0 DEF Shapes
  <2>2. ReadsAreBounded'
    BY <1>0, <2>1, BoundedOfOne
  <2> QED
    BY <1>0, <2>2 DEF Shapes, ReadsAreOld
<1>7. Returned'
  <2>1. \A u \in Task : job[u].kind = "refetch" => drafts'[u] = {} /\ pc'[u] \notin {"looking", "signing"}
    BY <1>0 DEF Shapes, Returned
  <2>2. \A u \in Task : \A y \in drafts'[u] :
          /\ pc'[u] # "idle"
          /\ y.task = u /\ y.call = calls[u] /\ y.kind = job[u].kind
          /\ y.role = job[u].role /\ y.counted = job[u].counted
    BY <1>0 DEF Shapes, Returned
  <2>3. \A y \in net' \cup landed :
          /\ y.call <= calls[y.task]
          /\ y.call = calls[y.task] => pc'[y.task] = "idle"
    BY <1>0, <1>2, <1>3, <1>4 DEF Shapes, Returned
  <2>4. \A y, z \in net' \cup landed :
          y.task = z.task /\ y.call = z.call
            => y.kind = z.kind /\ y.role = z.role /\ y.counted = z.counted
    BY <1>0, <1>2, <1>3, <1>4 DEF Returned
  <2> QED
    BY <2>1, <2>2, <2>3, <2>4 DEF Returned
<1>8. NetCounters' /\ DraftCounters'
  BY <1>0, <1>1, <1>3 DEF Shapes, NetCounters, DraftCounters, CountersOf, signed
<1>9. Spent'
  <2>1. ASSUME NEW y \in landed, NEW z \in net' \cup landed,
               y.counted, y.kind = "batch", y # z, y.task = z.task, y.call = z.call
        PROVE  z \in net' \ landed /\ z.counter <= odometer[z.role]
    <3>1. z \in net \cup landed
      BY <1>2, <1>3, <1>4, <2>1
    <3> QED
      BY <1>0, <1>3, <2>1, <3>1 DEF Spent
  <2> QED
    BY <1>0, <2>1 DEF Spent
<1> QED
  BY <1>5, <1>6, <1>7, <1>8, <1>9 DEF CountersInv, NetCounters, DraftCounters

(* The call goes on: the context joins its drafts.                         *)
LEMMA DraftCountersInv ==
  ASSUME CountersInv, NEW t \in Task, NEW seq \in pending[t], pc[t] = "signing",
         drafts' = [drafts EXCEPT ![t] = @ \cup {ContextOf(t, seq)}],
         pending' \in [Task -> SUBSET Nat],
         \/ pc' = pc /\ reply' = reply /\ job' = job
         \/ /\ pc' = [pc EXCEPT ![t] = "fetching"]
            /\ job' = [job EXCEPT ![t].asked = odometer]
            /\ reply' = [reply EXCEPT ![t] = NoReply]
         \/ /\ pc' = pc /\ reply' = reply /\ ~job[t].pre
            /\ job' = [job EXCEPT ![t].stored = snapshot.odometer[job[t].role]],
         UNCHANGED <<odometer, live, snapshot, calls, faults, net, landed, ret>>
  PROVE  CountersInv'
<1> DEFINE x == ContextOf(t, seq)
<1>0. Shapes /\ ReadsAreOld /\ ReadsAreBounded /\ Returned /\ NetCounters /\ DraftCounters /\ Spent
  BY Parts
<1>1. /\ x \in Context /\ x.task = t /\ x.call = calls[t] /\ x.kind = job[t].kind
      /\ x.role = job[t].role /\ x.counted = job[t].counted
      /\ CountersOf({x})
  BY NewContext
<1>2. drafts' = [drafts EXCEPT ![t] = @ \cup {x}]
  OBVIOUS
<1> HIDE DEF x
<1>3. /\ job' \in [Task -> Job]
      /\ \A u \in Task : /\ job'[u].kind = job[u].kind /\ job'[u].role = job[u].role
                         /\ job'[u].counted = job[u].counted
                         /\ job'[u].floors = job[u].floors /\ job'[u].pre = job[u].pre
  <2>1. CASE job' = job
    BY <1>0, <2>1 DEF Shapes
  <2>2. CASE job' = [job EXCEPT ![t].stored = snapshot.odometer[job[t].role]]
    <3> DEFINE b == [job[t] EXCEPT !.stored = snapshot.odometer[job[t].role]]
    <3>1. snapshot.odometer[job[t].role] \in Nat
      BY <1>0 DEF Shapes, Account, Job
    <3>2. /\ b \in Job /\ b.kind = job[t].kind /\ b.role = job[t].role
          /\ b.counted = job[t].counted /\ b.floors = job[t].floors /\ b.pre = job[t].pre
      <4>1. job[t] \in Job
        BY <1>0 DEF Shapes
      <4> QED
        BY <3>1, <4>1 DEF Job
    <3>3. job' = [job EXCEPT ![t] = b]
      BY <2>2
    <3> HIDE DEF b
    <3> QED
      BY <1>0, <3>2, <3>3 DEF Shapes
  <2>3. CASE job' = [job EXCEPT ![t].asked = odometer]
    <3> DEFINE b == [job[t] EXCEPT !.asked = odometer]
    <3>1. /\ b \in Job /\ b.kind = job[t].kind /\ b.role = job[t].role
          /\ b.counted = job[t].counted /\ b.floors = job[t].floors /\ b.pre = job[t].pre
      <4>1. job[t] \in Job /\ odometer \in [Role -> Nat]
        BY <1>0 DEF Shapes
      <4> QED
        BY <4>1 DEF Job
    <3>2. job' = [job EXCEPT ![t] = b]
      BY <2>3
    <3> HIDE DEF b
    <3> QED
      BY <1>0, <3>1, <3>2 DEF Shapes
  <2> QED
    BY <2>1, <2>2, <2>3
<1>4. Shapes'
  <2>1. drafts' \in [Task -> SUBSET Context]
    BY <1>0, <1>1, <1>2 DEF Shapes
  <2>2. \A u \in Task : IsFiniteSet(drafts'[u])
    <3>1. IsFiniteSet(drafts[t] \cup {x})
      BY <1>0, FS_AddElement DEF Shapes
    <3>2. \A u \in Task : drafts'[u] = IF u = t THEN drafts[t] \cup {x} ELSE drafts[u]
      BY <1>0, <1>2 DEF Shapes
    <3> QED
      BY <1>0, <3>1, <3>2 DEF Shapes
  <2>3. /\ pc' \in [Task -> {"idle", "fetching", "looking", "signing"}]
        /\ reply' \in [Task -> Account \cup {NoReply}]
    BY <1>0 DEF Shapes
  <2> QED
    BY <1>0, <1>3, <2>1, <2>2, <2>3 DEF Shapes
<1>5. ReadsAreOld'
  <2>1. ASSUME NEW u \in Task
        PROVE  /\ job'[u].stored <= odometer[job'[u].role]
               /\ \A q \in Role : job'[u].asked[q] <= odometer[q]
               /\ reply'[u] # NoReply =>
                    \A q \in Role : /\ reply'[u].odometer[q] <= odometer[q]
                                    /\ job'[u].asked[q] <= reply'[u].odometer[q]
    <3>1. CASE pc' = pc /\ reply' = reply /\ job' = job
      BY <1>0, <3>1 DEF ReadsAreOld
    <3>2. CASE /\ pc' = [pc EXCEPT ![t] = "fetching"]
               /\ job' = [job EXCEPT ![t].asked = odometer]
               /\ reply' = [reply EXCEPT ![t] = NoReply]
      <4>1. /\ job'[u].stored = job[u].stored
            /\ job'[u].asked = IF u = t THEN odometer ELSE job[u].asked
            /\ reply'[u] = IF u = t THEN NoReply ELSE reply[u]
        BY <1>0, <3>2 DEF Shapes, Job
      <4>2. \A q \in Role : odometer[q] \in Nat
        BY <1>0 DEF Shapes
      <4> QED
        BY <1>0, <1>3, <4>1, <4>2 DEF ReadsAreOld
    <3>3. CASE /\ pc' = pc /\ reply' = reply /\ ~job[t].pre
               /\ job' = [job EXCEPT ![t].stored = snapshot.odometer[job[t].role]]
      <4>1. job[t].role \in Role
        BY <1>0 DEF Shapes, Job
      <4>2. /\ job'[u].stored = IF u = t THEN snapshot.odometer[job[t].role] ELSE job[u].stored
            /\ job'[u].asked = job[u].asked
        BY <1>0, <3>3 DEF Shapes, Job
      <4> QED
        BY <1>0, <1>3, <3>3, <4>1, <4>2 DEF ReadsAreOld
    <3> QED
      BY <3>1, <3>2, <3>3
  <2> QED
    BY <1>0, <2>1 DEF ReadsAreOld
<1>b. ReadsAreBounded'
  <2>1. \A u \in Task : u # t => job'[u] = job[u] /\ pc'[u] = pc[u]
    BY <1>0 DEF Shapes
  <2>2. /\ pc'[t] \in {"fetching", "signing"}
        /\ pc'[t] = "fetching" => job'[t].asked = odometer
        /\ pc'[t] = "signing" /\ job'[t].pre => job'[t] = job[t]
    BY <1>0, <1>3 DEF Shapes, Job
  <2>3. pc'[t] = "signing" /\ job'[t].pre => \E f \in job'[t].floors : f <= job'[t].stored
    BY <1>0, <2>2 DEF ReadsAreBounded
  <2> QED
    BY <1>0, <2>1, <2>2, <2>3, BoundedOfOne
<1>6. Returned'
  <2>1. job[t].kind # "refetch"
    BY <1>0 DEF Returned
  <2>2. \A u \in Task : job'[u].kind = "refetch" => drafts'[u] = {} /\ pc'[u] \notin {"looking", "signing"}
    BY <1>0, <1>2, <1>3, <2>1 DEF Shapes, Returned
  <2>3. \A u \in Task : pc[u] # "idle" => pc'[u] # "idle"
    BY <1>0 DEF Shapes
  <2>4. \A u \in Task : \A y \in drafts'[u] :
          /\ pc'[u] # "idle"
          /\ y.task = u /\ y.call = calls[u] /\ y.kind = job[u].kind
          /\ y.role = job[u].role /\ y.counted = job[u].counted
    BY <1>0, <1>1, <1>2, <2>3 DEF Shapes, Returned
  <2>5. \A y \in net \cup landed : y.task \in Task
    BY <1>0 DEF Shapes, Context
  <2>6. \A u \in Task : pc[u] = "idle" => pc'[u] = "idle"
    BY <1>0 DEF Shapes
  <2> QED
    BY <1>0, <1>3, <2>2, <2>4, <2>5, <2>6 DEF Returned
<1>7. NetCounters' /\ DraftCounters' /\ Spent'
  BY <1>0, <1>1, <1>2 DEF Shapes, NetCounters, DraftCounters, CountersOf, Spent
<1> QED
  BY <1>4, <1>5, <1>b, <1>6, <1>7 DEF CountersInv, NetCounters, DraftCounters

LEMMA SignedCountersInv ==
  ASSUME CountersInv, NEW t \in Task, NEW seq \in Nat, Signed(t, seq)
  PROVE  CountersInv'
<1> DEFINE signed == drafts[t] \cup {ContextOf(t, seq)}
           rest == pending[t] \ {seq}
<1>0. Shapes /\ ReadsAreOld
  BY Parts
<1>1. /\ pc[t] = "signing" /\ seq \in pending[t]
      /\ UNCHANGED <<odometer, live, snapshot, calls, faults, landed>>
  BY DEF Signed, chain
<1>2. CASE Cardinality(signed) = job[t].size
  <2>1. /\ net' = net \cup signed
        /\ drafts' = [drafts EXCEPT ![t] = {}]
        /\ pending' = [pending EXCEPT ![t] = {}]
        /\ pc' = [pc EXCEPT ![t] = "idle"]
        /\ ret' = [ret EXCEPT ![t] = "ok"]
        /\ UNCHANGED <<job, reply>>
    BY <1>2 DEF Signed
  <2> QED
    BY <1>1, <2>1, ReturnCountersInv
<1>3. CASE /\ net' = net
           /\ drafts' = [drafts EXCEPT ![t] = signed]
           /\ pending' = [pending EXCEPT ![t] = rest]
           /\ UNCHANGED <<pc, job, reply, ret>>
  <2>1. pending' \in [Task -> SUBSET Nat]
    BY <1>0, <1>3 DEF Shapes
  <2> QED
    BY <1>1, <1>3, <2>1, DraftCountersInv
<1>4. CASE /\ net' = net
           /\ drafts' = [drafts EXCEPT ![t] = signed]
           /\ pending' = [pending EXCEPT ![t] = {}]
           /\ pc' = [pc EXCEPT ![t] = "fetching"]
           /\ reply' = [reply EXCEPT ![t] = NoReply]
           /\ job' = [job EXCEPT ![t].asked = odometer]
           /\ ret' = ret
  <2>1. pending' \in [Task -> SUBSET Nat]
    BY <1>0, <1>4 DEF Shapes
  <2> QED
    BY <1>1, <1>4, <2>1, DraftCountersInv
<1>5. CASE /\ net' = net /\ ~job[t].pre
           /\ drafts' = [drafts EXCEPT ![t] = signed]
           /\ pending' = [pending EXCEPT ![t] = {seq + 1}]
           /\ job' = [job EXCEPT ![t].stored = snapshot.odometer[job[t].role]]
           /\ UNCHANGED <<pc, reply, ret>>
  <2>1. pending' \in [Task -> SUBSET Nat]
    BY <1>0, <1>5 DEF Shapes
  <2> QED
    BY <1>1, <1>5, <2>1, DraftCountersInv
<1>6. CASE Throw(t) /\ net' = net /\ UNCHANGED <<job, reply>>
  <2>1. faults' \in Nat
    BY <1>0, <1>1 DEF Shapes
  <2> QED
    BY <1>1, <1>6, <2>1, ThrowCountersInv
<1> QED
  BY <1>2, <1>3, <1>4, <1>5, <1>6 DEF Signed

-----------------------------------------------------------------------------
(* The cluster.                                                            *)

(* Counters only grow, and nothing else that the invariant reads changes.  *)
LEMMA GrowCountersInv ==
  ASSUME CountersInv, live' \subseteq Role, odometer' \in [Role -> Nat],
         \A r \in Role : odometer[r] <= odometer'[r],
         UNCHANGED <<snapshot, pc, job, reply, pending, drafts, ret, calls, faults>>,
         net' \subseteq Context, landed' \subseteq Context,
         net' \cup landed' = net \cup landed,
         Spent'
  PROVE  CountersInv'
<1>0. Shapes /\ ReadsAreOld /\ ReadsAreBounded /\ Returned /\ NetCounters /\ DraftCounters
  BY Parts
<1>1. Shapes'
  BY <1>0 DEF Shapes
<1>2. ReadsAreOld'
  <2>1. \A r \in Role : snapshot.odometer[r] <= odometer'[r]
    BY <1>0 DEF Shapes, Account, ReadsAreOld
  <2>2. ASSUME NEW u \in Task
        PROVE  /\ job[u].stored <= odometer'[job[u].role]
               /\ \A q \in Role : job[u].asked[q] <= odometer'[q]
               /\ reply[u] # NoReply =>
                    \A q \in Role : /\ reply[u].odometer[q] <= odometer'[q]
                                    /\ job[u].asked[q] <= reply[u].odometer[q]
    <3>1. job[u].role \in Role /\ job[u].stored \in Nat /\ job[u].asked \in [Role -> Nat]
      BY <1>0 DEF Shapes, Job
    <3>2. reply[u] # NoReply => reply[u] \in Account
      BY <1>0 DEF Shapes
    <3>3. /\ odometer \in [Role -> Nat]
          /\ reply[u] # NoReply => reply[u].odometer \in [Role -> Nat]
      BY <1>0, <3>2 DEF Shapes, Account
    <3> QED
      BY <1>0, <3>1, <3>3 DEF ReadsAreOld
  <2> QED
    BY <2>1, <2>2 DEF ReadsAreOld
<1>b. ReadsAreBounded'
  BY <1>0 DEF ReadsAreBounded
<1>3. Returned'
  BY <1>0 DEF Returned
<1>4. ASSUME NEW S \in SUBSET Context, CountersOf(S)
      PROVE  \A x \in S :
               x.counted =>
                 IF x.kind = "builder" THEN x.counter = 1 + x.seq
                 ELSE x.counter <= odometer'[x.role] + 1
                        /\ (x.pre => \E f \in x.floors : f < x.counter)
  <2>1. \A x \in S : x.role \in Role /\ x.counter \in Nat
    BY DEF Context
  <2> QED
    BY <1>0, <1>4, <2>1 DEF Shapes, CountersOf
<1>5. NetCounters' /\ DraftCounters'
  BY <1>0, <1>4 DEF Shapes, NetCounters, DraftCounters, CountersOf
<1> QED
  BY <1>1, <1>2, <1>b, <1>3, <1>5 DEF CountersInv, NetCounters, DraftCounters

(* An execution spends the counter of its context and, with it, the        *)
(* contexts of the same batch.                                             *)
LEMMA LandCountersInv ==
  ASSUME CountersInv, NEW x \in net, Land(x)
  PROVE  CountersInv'
<1>0. Shapes /\ Returned /\ NetCounters /\ Spent
  BY Parts
<1>1. /\ x.counted => x.counter = odometer[x.role] + 1
      /\ odometer' = [odometer EXCEPT ![x.role] = IF x.counted THEN @ + 1 ELSE @]
      /\ net' = net \ {x} /\ landed' = landed \cup {x}
      /\ UNCHANGED <<live, snapshot, pc, job, reply, pending, drafts, ret,
                     calls, faults>>
  BY DEF Land
<1>2. \A y \in net \cup landed : y.role \in Role /\ y.counter \in Nat
  BY <1>0 DEF Shapes, Context
<1>3. /\ odometer' \in [Role -> Nat]
      /\ \A r \in Role : odometer[r] <= odometer'[r]
      /\ x.counted => odometer'[x.role] = odometer[x.role] + 1
  BY <1>0, <1>1, <1>2 DEF Shapes
<1>4. odometer \in [Role -> Nat]
  BY <1>0 DEF Shapes
<1>5. Spent'
  <2>1. ASSUME NEW y \in landed', y.counted
        PROVE  y.counter <= odometer'[y.role]
    <3>1. CASE y = x
      BY <1>1, <1>2, <1>3, <2>1, <3>1
    <3>2. CASE y \in landed
      BY <1>0, <1>2, <1>3, <1>4, <2>1, <3>2 DEF Spent
    <3> QED
      BY <1>1, <3>1, <3>2
  <2>2. ASSUME NEW y \in landed', NEW z \in net' \cup landed',
               y.counted, y.kind = "batch", y # z, y.task = z.task, y.call = z.call
        PROVE  z \in net' \ landed' /\ z.counter <= odometer'[z.role]
    <3>1. y \in net \cup landed /\ z \in net \cup landed
      BY <1>1
    <3>2. z.counted /\ z.kind = "batch" /\ z.role = y.role
      BY <1>0, <2>2, <3>1 DEF Returned
    <3>3. CASE y \in landed
      <4>1. z \in net \ landed /\ z.counter <= odometer[z.role]
        BY <1>0, <2>2, <3>1, <3>3 DEF Spent
      <4>2. z # x
        BY <1>1, <1>2, <1>4, <3>2, <4>1
      <4> QED
        BY <1>1, <1>2, <1>3, <1>4, <3>1, <4>1, <4>2
    <3>4. CASE y = x
      <4>1. z \notin landed
        <5>1. SUFFICES ASSUME z \in landed PROVE FALSE
          OBVIOUS
        <5>2. x.counter <= odometer[x.role]
          BY <1>0, <2>2, <3>2, <3>4, <5>1 DEF Spent
        <5> QED
          BY <1>1, <1>2, <1>4, <2>2, <3>4, <5>2
      <4>2. z.counter <= odometer[z.role] + 1
        BY <1>0, <3>1, <3>2 DEF NetCounters, CountersOf
      <4> QED
        BY <1>1, <1>3, <2>2, <3>1, <3>2, <3>4, <4>1, <4>2
    <3> QED
      BY <1>1, <3>3, <3>4
  <2> QED
    BY <2>1, <2>2 DEF Spent
<1>6. /\ net' \subseteq Context /\ landed' \subseteq Context
      /\ net' \cup landed' = net \cup landed /\ live' \subseteq Role
  BY <1>0, <1>1 DEF Shapes
<1> QED
  BY <1>1, <1>3, <1>5, <1>6, GrowCountersInv

(* Other signers, removals and time.                                       *)
LEMMA ClusterCountersInv ==
  ASSUME CountersInv, (\E r \in Role : Elsewhere(r) \/ RoleRemoved(r))
  PROVE  CountersInv'
<1>0. Shapes /\ Spent
  BY Parts
<1>1. /\ UNCHANGED <<snapshot, pc, job, reply, pending, drafts, ret, calls, faults,
                     net, landed>>
      /\ live' \subseteq Role
      /\ odometer' \in [Role -> Nat] /\ \A r \in Role : odometer[r] <= odometer'[r]
  BY <1>0 DEF Shapes, Elsewhere, RoleRemoved, chain
<1>2. Spent'
  <2>1. \A y \in net \cup landed : y.role \in Role /\ y.counter \in Nat
    BY <1>0 DEF Shapes, Context
  <2> QED
    BY <1>0, <1>1, <2>1 DEF Shapes, Spent
<1> QED
  BY <1>0, <1>1, <1>2, GrowCountersInv DEF Shapes

-----------------------------------------------------------------------------
(* CountersInv is preserved by every step.                                   *)
LEMMA NextCountersInv ==
  ASSUME CountersInv, [Next]_vars
  PROVE  CountersInv'
<1>1. CASE UNCHANGED vars
  BY <1>1 DEF vars, CountersInv, Shapes, ReadsAreOld, ReadsAreBounded, Returned, CountersOf, Spent
<1>2. CASE Next
  <2>1. ASSUME NEW t \in Task, NEW kind \in CallKind, NEW sign \in BOOLEAN,
               NEW pre \in BOOLEAN, NEW r \in Role, NEW size \in 1 .. MaxContexts,
               Begin(t, kind, sign, r, size, pre)
        PROVE  CountersInv'
    BY <2>1, BeginCountersInv
  <2>2. ASSUME NEW t \in Task, AnswerFetch(t) PROVE CountersInv'
    BY <2>2, AnswerFetchCountersInv
  <2>3. ASSUME NEW t \in Task, FetchFails(t) \/ SigningFails(t) PROVE CountersInv'
    BY <2>3, FailureCountersInv
  <2>4. ASSUME NEW t \in Task, Refetched(t) PROVE CountersInv'
    BY <2>4, RefetchedCountersInv
  <2>8. ASSUME NEW t \in Task, LookUp(t) PROVE CountersInv'
    BY <2>8, LookUpCountersInv
  <2>5. ASSUME NEW t \in Task, NEW seq \in Nat, Signed(t, seq) PROVE CountersInv'
    BY <2>5, SignedCountersInv
  <2>6. ASSUME NEW x \in net, Land(x) PROVE CountersInv'
    BY <2>6, LandCountersInv
  <2>7. ASSUME (\E r \in Role : Elsewhere(r) \/ RoleRemoved(r)) PROVE CountersInv'
    BY <2>7, ClusterCountersInv
  <2> QED
    BY <1>2, <2>1, <2>2, <2>3, <2>4, <2>5, <2>6, <2>7, <2>8 DEF Next, CountersInv, Shapes
<1> QED
  BY <1>1, <1>2

-----------------------------------------------------------------------------
(* The places of a call.                                                   *)

LEMMA InitOrder == Init => SignedInOrder
<1> SUFFICES ASSUME Init PROVE SignedInOrder
  OBVIOUS
<1>1. \A t \in Task : /\ pending[t] = {} /\ drafts[t] = {} /\ pc[t] = "idle"
                      /\ job[t].kind = "single"
  BY DEF Init
<1> QED
  BY <1>1 DEF SignedInOrder

(* What a step leaves alone stays in order.                                *)
LEMMA OrderOfOthers ==
  ASSUME SignedInOrder, NEW u \in Task,
         /\ pending'[u] = pending[u] /\ job'[u] = job[u]
         /\ drafts'[u] = drafts[u] /\ pc'[u] = pc[u]
  PROVE  /\ pending'[u] \subseteq 0 .. job'[u].size - 1
         /\ job'[u].kind # "builder" =>
              /\ pending'[u] = IF pc'[u] = "signing" THEN {Cardinality(drafts'[u])} ELSE {}
              /\ \A x \in drafts'[u] : x.seq < Cardinality(drafts'[u])
              /\ pc'[u] # "idle" => Cardinality(drafts'[u]) < job'[u].size
         /\ job'[u].kind \notin {"batch", "builder"} => drafts'[u] = {}
BY DEF SignedInOrder, NextPlace

(* It is enough to look at the caller that moves.                          *)
LEMMA OrderOfOne ==
  ASSUME CountersInv, SignedInOrder, NEW t \in Task,
         \A u \in Task : u # t =>
           /\ pending'[u] = pending[u] /\ job'[u] = job[u]
           /\ drafts'[u] = drafts[u] /\ pc'[u] = pc[u],
         pending'[t] \subseteq 0 .. job'[t].size - 1,
         job'[t].kind # "builder" =>
           /\ pending'[t] = IF pc'[t] = "signing" THEN {Cardinality(drafts'[t])} ELSE {}
           /\ \A x \in drafts'[t] : x.seq < Cardinality(drafts'[t])
           /\ pc'[t] # "idle" => Cardinality(drafts'[t]) < job'[t].size,
         job'[t].kind \notin {"batch", "builder"} => drafts'[t] = {}
  PROVE  SignedInOrder'
<1>1. \A u \in Task :
         /\ pending'[u] \subseteq 0 .. job'[u].size - 1
         /\ job'[u].kind # "builder" =>
              /\ pending'[u] = IF pc'[u] = "signing" THEN {Cardinality(drafts'[u])} ELSE {}
              /\ \A x \in drafts'[u] : x.seq < Cardinality(drafts'[u])
              /\ pc'[u] # "idle" => Cardinality(drafts'[u]) < job'[u].size
         /\ job'[u].kind \notin {"batch", "builder"} => drafts'[u] = {}
  BY OrderOfOthers
<1> QED
  BY <1>1 DEF SignedInOrder, NextPlace

LEMMA PlacesWithin ==
  ASSUME NEW j \in Job, j.size > 0
  PROVE  /\ Places(j) \subseteq 0 .. j.size - 1
         /\ j.kind # "builder" => Places(j) = {0}
BY DEF Places, Job

LEMMA BeginOrder ==
  ASSUME CountersInv, SignedInOrder, NEW t \in Task, NEW kind \in CallKind,
         NEW sign \in BOOLEAN, NEW pre \in BOOLEAN,
         NEW r \in Role, NEW size \in 1 .. MaxContexts,
         Begin(t, kind, sign, r, size, pre)
  PROVE  SignedInOrder'
<1> DEFINE j == [kind |-> kind, counted |-> Counted(r, sign), role |-> r, size |-> size,
                 pre |-> pre, stored |-> IF pre THEN 0 ELSE snapshot.odometer[r],
                 asked |-> IF pre THEN odometer ELSE Unasked, floors |-> {}]
<1>0. Shapes
  BY Parts
<1>1. /\ job' = [job EXCEPT ![t] = j]
      /\ pc' = [pc EXCEPT ![t] = IF pre THEN "fetching" ELSE "signing"]
      /\ pending' = [pending EXCEPT ![t] = IF pre THEN {} ELSE Places(job'[t])]
      /\ drafts' = [drafts EXCEPT ![t] = {}]
  BY DEF Begin
<1>2. j \in Job
  BY <1>0, ConstantAssumption DEF Job, Counted, Shapes, Account, Unasked
<1>3. j.kind = kind /\ j.size = size /\ size > 0 /\ size \in Nat
  BY ConstantAssumption
<1> HIDE DEF j
<1>4. /\ job'[t] = j /\ drafts'[t] = {} /\ pending'[t] = IF pre THEN {} ELSE Places(j)
      /\ pc'[t] = IF pre THEN "fetching" ELSE "signing"
  BY <1>0, <1>1 DEF Shapes
<1>5. \A u \in Task : u # t =>
        /\ pending'[u] = pending[u] /\ job'[u] = job[u]
        /\ drafts'[u] = drafts[u] /\ pc'[u] = pc[u]
  BY <1>0, <1>1 DEF Shapes
<1>6. Cardinality(drafts'[t]) = 0
  BY <1>4, FS_EmptySet
<1>7. Places(j) \subseteq 0 .. j.size - 1 /\ (j.kind # "builder" => Places(j) = {0})
  BY <1>2, <1>3, PlacesWithin
<1>8. pending'[t] \subseteq 0 .. job'[t].size - 1
  BY <1>4, <1>7
<1>9. job'[t].kind # "builder" =>
        /\ pending'[t] = IF pc'[t] = "signing" THEN {Cardinality(drafts'[t])} ELSE {}
        /\ \A x \in drafts'[t] : x.seq < Cardinality(drafts'[t])
        /\ pc'[t] # "idle" => Cardinality(drafts'[t]) < job'[t].size
  BY <1>3, <1>4, <1>6, <1>7
<1> QED
  BY <1>4, <1>5, <1>8, <1>9, OrderOfOne

LEMMA ThrowOrder ==
  ASSUME CountersInv, SignedInOrder, NEW t \in Task, Throw(t), job' = job
  PROVE  SignedInOrder'
<1>0. Shapes
  BY Parts
<1>1. /\ pc'[t] = "idle" /\ drafts'[t] = {} /\ pending'[t] = {}
      /\ \A u \in Task : u # t =>
           pending'[u] = pending[u] /\ drafts'[u] = drafts[u] /\ pc'[u] = pc[u]
  BY <1>0 DEF Throw, Shapes
<1> QED
  BY <1>1, OrderOfOne

LEMMA RefetchedOrder ==
  ASSUME CountersInv, SignedInOrder, NEW t \in Task, Refetched(t)
  PROVE  SignedInOrder'
<1>0. Shapes
  BY Parts
<1>1. pc[t] = "fetching" /\ UNCHANGED <<pending, drafts>>
  BY DEF Refetched
<1>2. /\ pc'[t] \in {"idle", "looking"}
      /\ \A u \in Task : u # t => pc'[u] = pc[u] /\ job'[u] = job[u]
      /\ job'[t].kind = job[t].kind /\ job'[t].size = job[t].size
  BY <1>0 DEF Refetched, Shapes, Job
<1>3. /\ pending[t] \subseteq 0 .. job[t].size - 1
      /\ job[t].kind # "builder" =>
           /\ pending[t] = {} /\ \A x \in drafts[t] : x.seq < Cardinality(drafts[t])
           /\ Cardinality(drafts[t]) < job[t].size
      /\ job[t].kind \notin {"batch", "builder"} => drafts[t] = {}
  BY <1>1 DEF SignedInOrder, NextPlace
<1> QED
  BY <1>1, <1>2, <1>3, OrderOfOne

LEMMA LookUpOrder ==
  ASSUME CountersInv, SignedInOrder, NEW t \in Task, LookUp(t)
  PROVE  SignedInOrder'
<1>0. Shapes
  BY Parts
<1>1. pc[t] = "looking"
  BY DEF LookUp
<1>2. CASE Throw(t) /\ UNCHANGED job
  BY <1>2, ThrowOrder
<1>4. CASE Capture(t, IF job[t].kind = "batch" THEN {NextPlace(t)} ELSE Places(job[t]))
  <2> DEFINE places == IF job[t].kind = "batch" THEN {NextPlace(t)} ELSE Places(job[t])
  <2>1. /\ job' = [job EXCEPT ![t].stored = snapshot.odometer[job[t].role]]
        /\ pc' = [pc EXCEPT ![t] = "signing"]
        /\ pending' = [pending EXCEPT ![t] = places]
        /\ UNCHANGED drafts
    BY <1>4 DEF Capture
  <2>2. job'[t].kind = job[t].kind /\ job'[t].size = job[t].size /\ job[t] \in Job
    BY <1>0, <2>1 DEF Shapes, Job
  <2>3. /\ pc'[t] = "signing" /\ pending'[t] = places
        /\ \A u \in Task : u # t =>
             /\ pending'[u] = pending[u] /\ job'[u] = job[u]
             /\ drafts'[u] = drafts[u] /\ pc'[u] = pc[u]
    BY <1>0, <2>1 DEF Shapes
  <2>4. Cardinality(drafts[t]) \in Nat
    BY <1>0, FS_CardinalityType DEF Shapes
  <2>5. CASE job[t].kind = "batch"
    <3>1. places = {Cardinality(drafts[t])}
      BY <2>5 DEF NextPlace
    <3>2. /\ Cardinality(drafts[t]) < job[t].size
          /\ \A x \in drafts[t] : x.seq < Cardinality(drafts[t])
      BY <1>1, <2>5 DEF SignedInOrder, NextPlace
    <3>3. pending'[t] \subseteq 0 .. job'[t].size - 1
      BY <2>2, <2>3, <2>4, <3>1, <3>2 DEF Job
    <3> HIDE DEF places
    <3> QED
      BY <2>1, <2>2, <2>3, <2>5, <3>1, <3>2, <3>3, OrderOfOne
  <2>6. CASE job[t].kind = "builder"
    <3>1. pending'[t] \subseteq 0 .. job'[t].size - 1
      BY <2>2, <2>3, <2>6 DEF Places
    <3> QED
      BY <2>1, <2>2, <2>3, <2>6, <3>1, OrderOfOne
  <2>7. CASE job[t].kind \notin {"batch", "builder"}
    <3>1. drafts[t] = {}
      BY <2>7 DEF SignedInOrder
    <3>2. Cardinality(drafts[t]) = 0
      BY <3>1, FS_EmptySet
    <3>3. 0 < job[t].size
      BY <1>1, <2>7, <3>2 DEF SignedInOrder, NextPlace
    <3>4. places = {0}
      BY <2>7 DEF Places
    <3>5. pending'[t] \subseteq 0 .. job'[t].size - 1
      BY <2>2, <2>3, <3>3, <3>4 DEF Job
    <3> HIDE DEF places
    <3> QED
      BY <2>1, <2>2, <2>3, <2>7, <3>1, <3>2, <3>3, <3>4, <3>5, OrderOfOne
  <2> QED
    BY <2>5, <2>6, <2>7
<1> QED
  BY <1>2, <1>4 DEF LookUp

(* One more signature of a sequential call is one more place.              *)
LEMMA SignedOrder ==
  ASSUME CountersInv, SignedInOrder, NEW t \in Task, NEW seq \in pending[t], Signed(t, seq)
  PROVE  SignedInOrder'
<1> DEFINE x == ContextOf(t, seq)
           signed == drafts[t] \cup {x}
           rest == pending[t] \ {seq}
<1>0. Shapes
  BY Parts
<1>1. pc[t] = "signing" /\ job[t] \in Job
  BY <1>0 DEF Signed, Shapes
<1>2. x.seq = seq
  BY DEF ContextOf
<1>3. CASE Cardinality(signed) = job[t].size
  <2>1. /\ drafts' = [drafts EXCEPT ![t] = {}] /\ pending' = [pending EXCEPT ![t] = {}]
        /\ pc' = [pc EXCEPT ![t] = "idle"] /\ job' = job
    BY <1>3 DEF Signed
  <2>2. /\ pc'[t] = "idle" /\ drafts'[t] = {} /\ pending'[t] = {}
        /\ \A u \in Task : u # t =>
             pending'[u] = pending[u] /\ drafts'[u] = drafts[u] /\ pc'[u] = pc[u]
    BY <1>0, <2>1 DEF Shapes
  <2> QED
    BY <2>1, <2>2, OrderOfOne
<1>4. CASE /\ job[t].kind = "builder"
           /\ drafts' = [drafts EXCEPT ![t] = signed]
           /\ pending' = [pending EXCEPT ![t] = rest]
           /\ UNCHANGED <<pc, job>>
  <2>1. pending'[t] \subseteq 0 .. job[t].size - 1
    BY <1>0, <1>4 DEF Shapes, SignedInOrder
  <2>2. \A u \in Task : u # t => pending'[u] = pending[u] /\ drafts'[u] = drafts[u]
    BY <1>0, <1>4 DEF Shapes
  <2> QED
    BY <1>4, <2>1, <2>2, OrderOfOne
<1>5. ASSUME job[t].kind = "batch", Cardinality(signed) # job[t].size
      PROVE  /\ seq = Cardinality(drafts[t])
             /\ Cardinality(signed) = seq + 1 /\ seq + 1 < job[t].size
             /\ seq \in Nat
             /\ \A y \in signed : y.seq < seq + 1
  <2>1. /\ seq = Cardinality(drafts[t]) /\ Cardinality(drafts[t]) < job[t].size
        /\ \A y \in drafts[t] : y.seq < Cardinality(drafts[t])
    BY <1>1, <1>5 DEF SignedInOrder, NextPlace
  <2>2. IsFiniteSet(drafts[t]) /\ drafts[t] \subseteq Context
    BY <1>0 DEF Shapes
  <2>3. Cardinality(drafts[t]) \in Nat
    BY <2>2, FS_CardinalityType
  <2> HIDE DEF x
  <2>4. x \notin drafts[t]
    BY <1>2, <2>1, <2>3
  <2>5. Cardinality(signed) = Cardinality(drafts[t]) + 1
    BY <2>2, <2>4, FS_AddElement
  <2>6. \A y \in drafts[t] : y.seq \in Nat
    BY <2>2 DEF Context
  <2>7. job[t].size \in Nat
    BY <1>1 DEF Job
  <2> HIDE DEF signed
  <2>8. seq + 1 < job[t].size
    BY <1>5, <2>1, <2>3, <2>5, <2>7
  <2>9. \A y \in signed : y.seq < seq + 1
    BY <1>2, <2>1, <2>3, <2>6 DEF signed
  <2> QED
    BY <2>1, <2>3, <2>5, <2>8, <2>9
<1>6. CASE /\ job[t].kind = "batch" /\ Cardinality(signed) # job[t].size
           /\ drafts' = [drafts EXCEPT ![t] = signed]
           /\ pending' = [pending EXCEPT ![t] = {}]
           /\ pc' = [pc EXCEPT ![t] = "fetching"]
           /\ job' = [job EXCEPT ![t].asked = odometer]
  <2>1. /\ drafts'[t] = signed /\ pending'[t] = {} /\ pc'[t] = "fetching"
        /\ job'[t].kind = job[t].kind /\ job'[t].size = job[t].size
        /\ \A u \in Task : u # t =>
             /\ pending'[u] = pending[u] /\ drafts'[u] = drafts[u]
             /\ pc'[u] = pc[u] /\ job'[u] = job[u]
    BY <1>0, <1>6 DEF Shapes, Job
  <2>2. pending'[t] \subseteq 0 .. job'[t].size - 1
    BY <2>1
  <2> HIDE DEF signed
  <2>3. /\ \A y \in signed : y.seq < Cardinality(signed)
        /\ Cardinality(signed) < job[t].size
    BY <1>5, <1>6
  <2>4. job'[t].kind # "builder" =>
          /\ pending'[t] = IF pc'[t] = "signing" THEN {Cardinality(drafts'[t])} ELSE {}
          /\ \A y \in drafts'[t] : y.seq < Cardinality(drafts'[t])
          /\ pc'[t] # "idle" => Cardinality(drafts'[t]) < job'[t].size
    BY <2>1, <2>3
  <2> QED
    BY <1>6, <2>1, <2>2, <2>4, OrderOfOne
<1>7. CASE /\ job[t].kind = "batch" /\ Cardinality(signed) # job[t].size
           /\ drafts' = [drafts EXCEPT ![t] = signed]
           /\ pending' = [pending EXCEPT ![t] = {seq + 1}]
           /\ job' = [job EXCEPT ![t].stored = snapshot.odometer[job[t].role]]
           /\ pc' = pc
  <2>1. /\ drafts'[t] = signed /\ pending'[t] = {seq + 1}
        /\ \A u \in Task : u # t =>
             pending'[u] = pending[u] /\ drafts'[u] = drafts[u] /\ job'[u] = job[u]
    BY <1>0, <1>7 DEF Shapes
  <2>2. job'[t].kind = job[t].kind /\ job'[t].size = job[t].size
    BY <1>0, <1>7 DEF Shapes, Job
  <2>3. seq + 1 \in 0 .. job[t].size - 1
    BY <1>1, <1>5, <1>7 DEF Job
  <2> HIDE DEF signed
  <2> QED
    BY <1>1, <1>5, <1>7, <2>1, <2>2, <2>3, OrderOfOne
<1>8. CASE Throw(t) /\ UNCHANGED job
  BY <1>8, ThrowOrder
<1> QED
  BY <1>3, <1>4, <1>6, <1>7, <1>8 DEF Signed

LEMMA NextOrder ==
  ASSUME CountersInv, SignedInOrder, [Next]_vars
  PROVE  SignedInOrder'
<1>0. Shapes
  BY Parts
<1>1. CASE UNCHANGED <<pc, job, pending, drafts>>
  BY <1>1 DEF SignedInOrder, NextPlace
<1>2. ASSUME NEW t \in Task, FetchFails(t) \/ SigningFails(t) PROVE SignedInOrder'
  BY <1>2, ThrowOrder DEF FetchFails, SigningFails
<1>3. ASSUME \/ UNCHANGED vars
             \/ \E t \in Task : AnswerFetch(t)
             \/ \E x \in net : Land(x)
             \/ \E r \in Role : Elsewhere(r) \/ RoleRemoved(r)
      PROVE  SignedInOrder'
  <2>1. UNCHANGED <<pc, job, pending, drafts>>
    BY <1>3 DEF vars, AnswerFetch, Land, Elsewhere, RoleRemoved
  <2> QED
    BY <1>1, <2>1
<1> QED
  BY <1>2, <1>3, BeginOrder, RefetchedOrder, LookUpOrder, SignedOrder DEF Next

(* Whatever the callers, their bounds and the order of the answers, the    *)
(* reads, drafts and contexts of the SDK stay related as ClientInv says.   *)
THEOREM ClientInductive == Spec => []ClientInv
<1>1. Init => ClientInv
  BY InitCountersInv, InitOrder DEF ClientInv
<1>2. ClientInv /\ [Next]_vars => ClientInv'
  BY NextCountersInv, NextOrder DEF ClientInv
<1> QED
  BY <1>1, <1>2, PTL DEF Spec

LEMMA CountersInductive == Spec => []CountersInv
<1>1. ClientInv => CountersInv
  BY DEF ClientInv
<1> QED
  BY <1>1, ClientInductive, PTL

(* Snapshots, answers, calls and contexts keep their types, and a call     *)
(* outside the builder awaits one signature at a time.                     *)
THEOREM ClientTypeCorrect == Spec => []TypeOK
<1>1. ClientInv => TypeOK
  <2> SUFFICES ASSUME ClientInv PROVE TypeOK
    OBVIOUS
  <2>1. Shapes /\ SignedInOrder
    BY Parts DEF ClientInv
  <2>2. ASSUME NEW t \in Task, job[t].kind # "builder"
        PROVE  Cardinality(pending[t]) <= 1
    <3>1. pending[t] = {NextPlace(t)} \/ pending[t] = {}
      BY <2>1, <2>2 DEF SignedInOrder
    <3>2. Cardinality({NextPlace(t)}) = 1
      BY FS_Singleton
    <3>3. Cardinality({}) = 0
      BY FS_EmptySet
    <3> QED
      BY <3>1, <3>2, <3>3
  <2> QED
    BY <2>1, <2>2 DEF TypeOK, Shapes, SignedInOrder
<1> QED
  BY <1>1, ClientInductive, PTL

(* No context outside a builder waits for a counter to come: what the      *)
(* program rejects now, it will reject for ever.                           *)
THEOREM NeverSignedAhead == Spec => []SignedNotAhead
<1>1. CountersInv => SignedNotAhead
  BY Parts DEF SignedNotAhead, Signatures, NetCounters, DraftCounters, CountersOf
<1> QED
  BY <1>1, CountersInductive, PTL

(* batchSignTransactions of a secp authority yields at most one            *)
(* transaction that executes.                                              *)
THEOREM BatchesLandOnce == Spec => []BatchLandsOnce
<1>1. CountersInv => BatchLandsOnce
  BY Parts DEF BatchLandsOnce, Spent
<1> QED
  BY <1>1, CountersInductive, PTL

(* However the answers of the callers' fetches overtake one another, a     *)
(* context built with preFetch is no older than some request that was      *)
(* unanswered when its own was answered.                                   *)
THEOREM PreFetchesAreBounded == Spec => []PreFetchIsBounded
<1>1. CountersInv => PreFetchIsBounded
  <2> SUFFICES ASSUME CountersInv, NEW x \in Signatures,
                      x.counted, x.pre, x.kind # "builder"
               PROVE  \E f \in x.floors : x.counter > f
    BY DEF PreFetchIsBounded
  <2>1. PICK f \in x.floors : f < x.counter
    BY Parts DEF Signatures, NetCounters, DraftCounters, CountersOf
  <2>2. x \in Context
    BY Parts DEF Signatures, Shapes
  <2>3. f \in Nat /\ x.counter \in Nat
    BY <2>2 DEF Context
  <2> QED
    BY <2>1, <2>3
<1> QED
  BY <1>1, CountersInductive, PTL

(* The authorities of a builder are added in the order they were given.    *)
THEOREM BuildersLandInOrder == Spec => BuilderLandsInOrder
<1> DEFINE InOrder == \A x \in landed' \ landed, y \in landed :
                        /\ x.counted /\ x.kind = "builder" /\ y.kind = "builder"
                        /\ x.task = y.task /\ x.call = y.call
                        => y.seq < x.seq
<1>1. CountersInv /\ [Next]_vars => [InOrder]_vars
  <2> SUFFICES ASSUME CountersInv, Next,
                      NEW x \in landed' \ landed, NEW y \in landed,
                      x.counted, x.kind = "builder", y.kind = "builder",
                      x.task = y.task, x.call = y.call
               PROVE  y.seq < x.seq
    OBVIOUS
  <2>0. Shapes /\ Returned /\ NetCounters /\ Spent
    BY Parts
  <2>1. x \in net /\ Land(x)
    <3>1. landed' # landed
      OBVIOUS
    <3>2. ASSUME NEW t \in Task, NEW seq \in pending[t], Signed(t, seq)
          PROVE  landed' = landed
      BY <3>2 DEF Signed
    <3>3. ASSUME NEW t \in Task, Refetched(t) \/ LookUp(t) PROVE landed' = landed
      BY <3>3 DEF Refetched, LookUp
    <3>4. ASSUME NEW t \in Task, NEW kind \in CallKind, NEW sign \in BOOLEAN,
                 NEW pre \in BOOLEAN, NEW r \in Role, NEW size \in 1 .. MaxContexts,
                 Begin(t, kind, sign, r, size, pre)
          PROVE  landed' = landed
      BY <3>4 DEF Begin
    <3>5. ASSUME NEW t \in Task, AnswerFetch(t) \/ FetchFails(t) \/ SigningFails(t)
          PROVE  landed' = landed
      BY <3>5 DEF AnswerFetch, FetchFails, SigningFails
    <3>6. ASSUME (\E r \in Role : Elsewhere(r) \/ RoleRemoved(r))
          PROVE  landed' = landed
      BY <3>6 DEF Elsewhere, RoleRemoved
    <3>7. PICK z \in net : Land(z)
      BY <3>1, <3>2, <3>3, <3>4, <3>5, <3>6 DEF Next
    <3>8. z = x
      BY <3>7 DEF Land
    <3> QED
      BY <3>7, <3>8
  <2>2. y.counted /\ y.role = x.role
    BY <2>0, <2>1 DEF Returned
  <2>3. x.counter = 1 + x.seq /\ y.counter = 1 + y.seq
    BY <2>0, <2>1, <2>2 DEF NetCounters, CountersOf
  <2>4. x.counter = odometer[x.role] + 1
    BY <2>1 DEF Land
  <2>5. y.counter <= odometer[y.role]
    BY <2>0, <2>2 DEF Spent
  <2>6. x.seq \in Nat /\ y.seq \in Nat /\ odometer[x.role] \in Nat
    BY <2>0, <2>1 DEF Shapes, Context
  <2> QED
    BY <2>2, <2>3, <2>4, <2>5, <2>6
<1> QED
  BY <1>1, CountersInductive, PTL DEF Spec, BuilderLandsInOrder
=============================================================================
