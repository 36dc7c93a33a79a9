------------------------ MODULE UserMutationsProofs ------------------------
(* What UserMutations guarantees for every set of users, organizations,      *)
(* handlers and calls and every number of failures: the types, that the      *)
(* ledger tells the truth, and what follows from it. The proof is an         *)
(* induction on LedgerInv, with one lemma per action. The second part is     *)
(* about behaviours in which one handler works at a time (OneAtATime), the   *)
(* third about the instances of MCUserInstances.                             *)
EXTENDS MCUserInstances, FiniteSetTheorems, TLAPS

-----------------------------------------------------------------------------
(* Lemmas about the operators *)

LEMMA IdleWellFormed ==
  ASSUME NEW answer \in {"ok", "refused", "error", None}
  PROVE  /\ Idle(answer) \in RequestType /\ RequestWellFormed(Idle(answer))
         /\ Idle(answer).stage = "idle"
         /\ \A done : RequestKnows(Idle(answer), done)
BY DEF Idle, RequestType, RequestWellFormed, OperationSteps, RequestKnows, WorkflowStages

\* More effects make no known effect unknown.
LEMMA KnowledgeGrows ==
  ASSUME NEW done, NEW later, done \subseteq later
  PROVE  /\ \A q : RequestKnows(q, done) => RequestKnows(q, later)
         /\ \A row : RowTellsTruth(row, done) => RowTellsTruth(row, later)
BY DEF RequestKnows, RowTellsTruth

\* A step of one handler keeps the invariant if what it leaves in its slot, and
\* in the row it may write, is sound; the effects only grow.
LEMMA HandlerStep ==
  ASSUME LedgerInv, NEW r \in Requests, NEW q \in RequestType, RequestWellFormed(q),
         requests' = [requests EXCEPT ![r] = q],
         TablesTyped', LedgerTyped',
         \A k \in Keys : did[k] \subseteq did'[k],
         \A k \in Keys : \/ ledger'[k] = ledger[k]
                         \/ /\ ledger'[k] /= None
                            /\ RowWellFormed(k, ledger'[k])
                            /\ RowTellsTruth(ledger'[k], did'[k]),
         q.stage \in WorkflowStages =>
           /\ ledger'[KeyOf(q.call)] /= None
           /\ RequestKnows(q, did'[KeyOf(q.call)])
  PROVE  LedgerInv'
<1>1. /\ requests'[r] = q
      /\ \A p \in Requests : p /= r => requests'[p] = requests[p]
      /\ RequestsTyped' /\ RequestsWellFormed'
  BY DEF LedgerInv, RequestsTyped, RequestsWellFormed
<1>2. ASSUME NEW p \in Requests, p /= r, requests[p].stage \in WorkflowStages
      PROVE  KeyAt(p) \in Keys /\ KeyAt(p)' = KeyAt(p)
  <2>1. RequestWellFormed(requests[p]) /\ requests'[p] = requests[p]
    BY <1>1, <1>2 DEF LedgerInv, RequestsWellFormed
  <2>2. requests[p].call.kind \in LedgerKinds
    BY <1>2, <2>1 DEF RequestWellFormed, KindsAt, WorkflowStages
  <2> QED BY <1>2, <2>1, <2>2 DEF RequestWellFormed, KeyAt, WorkflowStages
<1>3. RowsLoaded'
  BY <1>1, <1>2 DEF LedgerInv, RowsLoaded, KeyAt
<1>4. LedgerWellFormed'
  BY DEF LedgerInv, LedgerWellFormed
<1>5. LedgerTellsTruth'
  BY KnowledgeGrows DEF LedgerInv, LedgerTellsTruth
<1>6. ASSUME NEW p \in Requests
      PROVE  RequestKnows(requests'[p], did'[KeyAt(p)'])
  <2>1. CASE p = r
    BY <1>1, <2>1 DEF KeyAt, RequestKnows
  <2>2. CASE p /= r
    BY <1>1, <1>2, <2>2, KnowledgeGrows DEF LedgerInv, RequestsKnow, RequestKnows
  <2> QED BY <2>1, <2>2
<1> QED BY <1>1, <1>3, <1>4, <1>5, <1>6 DEF LedgerInv, RequestsKnow

LEMMA HandlerMoves ==
  ASSUME LedgerInv, NEW r \in Requests, NEW q \in RequestType, RequestWellFormed(q),
         requests' = [requests EXCEPT ![r] = q],
         TablesTyped', UNCHANGED ledger,
         \A k \in Keys : did[k] \subseteq did'[k],
         q.stage \in WorkflowStages =>
           /\ requests[r].stage \in WorkflowStages /\ q.call = requests[r].call
           /\ RequestKnows(q, did'[KeyOf(q.call)])
  PROVE  LedgerInv'
<1>1. LedgerTyped'
  BY DEF LedgerInv, LedgerTyped
<1>2. q.stage \in WorkflowStages => ledger'[KeyOf(q.call)] /= None
  BY DEF LedgerInv, RowsLoaded, KeyAt
<1> QED BY <1>1, <1>2, HandlerStep

LEMMA HandlerReturns ==
  ASSUME LedgerInv, NEW r \in Requests, NEW answer \in {"ok", "refused", "error", None},
         End(r, answer), TablesTyped', UNCHANGED <<ledger, did>>
  PROVE  LedgerInv'
BY IdleWellFormed, HandlerMoves DEF End, WorkflowStages

\* What is known of a handler at work.
LEMMA Busy ==
  ASSUME LedgerInv, NEW r \in Requests, requests[r].stage \in Stages
  PROVE  /\ requests[r] \in RequestType /\ requests[r].call \in CallType
         /\ RequestWellFormed(requests[r]) /\ WellFormed(requests[r].call)
         /\ requests[r].call.kind \in KindsAt(requests[r].stage)
         /\ requests[r].call.kind \in LedgerKinds => KeyAt(r) \in Keys
         /\ RequestKnows(requests[r], did[KeyAt(r)])
<1>1. /\ requests[r] \in RequestType /\ RequestWellFormed(requests[r])
      /\ RequestKnows(requests[r], did[KeyAt(r)])
  BY DEF LedgerInv, RequestsTyped, RequestsWellFormed, RequestsKnow
<1>2. requests[r].stage /= "idle" /\ requests[r].call \in {None} \union CallType
  BY <1>1 DEF Stages, RequestType
<1> QED BY <1>1, <1>2 DEF RequestWellFormed, KeyAt

LEMMA BusyKind ==
  ASSUME LedgerInv, NEW r \in Requests,
         requests[r].stage \in WorkflowStages \union {"load"}
  PROVE  /\ requests[r].call.kind \in LedgerKinds /\ KeyAt(r) \in Keys
         /\ requests[r].stage \in Stages
<1>1. requests[r].stage \in Stages
  BY DEF Stages, WorkflowStages
<1>2. KindsAt(requests[r].stage) = LedgerKinds
  BY DEF KindsAt, WorkflowStages
<1> QED BY <1>1, <1>2, Busy

-----------------------------------------------------------------------------
(* Steps that read *)

\* Init, for any members: what is said of it holds of every instance.
Founding(M) ==
  /\ memberships = M
  /\ organizations = {m.org : m \in M}
  /\ waiting = [u \in Users |-> None]
  /\ mirror = {[id |-> m.user, user |-> m.user, role |-> m.role, groups |-> {}] : m \in M}
  /\ ledger = [k \in Keys |-> None]
  /\ audits = {}
  /\ requests = [r \in Requests |-> Idle(None)]
  /\ faults = 0
  /\ did = [k \in Keys |-> {}]

LEMMA FoundingSound ==
  ASSUME NEW M, M \subseteq MemberType, Founding(M)
  PROVE  LedgerInv
<1>1. TablesTyped
  BY UserMutationsAssumption DEF Founding, TablesTyped, MemberType
<1>2. LedgerTyped /\ LedgerWellFormed /\ LedgerTellsTruth
  BY DEF Founding, LedgerTyped, LedgerWellFormed, LedgerTellsTruth
<1>3. RequestsTyped /\ RequestsWellFormed /\ RowsLoaded /\ RequestsKnow
  BY IdleWellFormed DEF Founding, RequestsTyped, RequestsWellFormed, RowsLoaded, RequestsKnow,
                        WorkflowStages
<1> QED BY <1>1, <1>2, <1>3 DEF LedgerInv

LEMMA InitSound == Init => LedgerInv
<1>1. Init => Founding(InitialMembers)
  BY DEF Init, Founding
<1> QED BY <1>1, FoundingSound, UserMutationsAssumption

LEMMA GotoSound ==
  ASSUME LedgerInv, NEW r \in Requests, NEW stage \in Stages, requests[r].stage \in Stages,
         Goto(r, stage), TablesTyped', UNCHANGED <<ledger, did>>,
         requests[r].call.kind \in KindsAt(stage),
         stage \in WorkflowStages => requests[r].stage \in WorkflowStages,
         stage \in CommittedStages => requests[r].result /= None,
         stage /= "mark", stage = "audit" => "mirror" \in did[KeyAt(r)]
  PROVE  LedgerInv'
<1> DEFINE q == [requests[r] EXCEPT !.stage = stage]
<1>1. /\ q \in RequestType /\ q.stage = stage /\ q.call = requests[r].call
      /\ q.result = requests[r].result /\ q.seen = requests[r].seen
      /\ requests' = [requests EXCEPT ![r] = q]
  BY Busy DEF RequestType, Goto
<1>2. stage /= "idle" /\ requests[r].stage /= "idle"
  BY DEF Stages
<1>3. RequestWellFormed(q)
  BY <1>1, <1>2, Busy DEF RequestWellFormed
<1>4. stage \in WorkflowStages => RequestKnows(q, did[KeyOf(q.call)])
  BY <1>1, Busy DEF RequestKnows, KeyAt
<1> QED BY <1>1, <1>3, <1>4, HandlerMoves

LEMMA TablesKept ==
  ASSUME LedgerInv, UNCHANGED tables, faults' \in 0..MaxFaults
  PROVE  TablesTyped' /\ UNCHANGED <<ledger, did>>
BY DEF LedgerInv, TablesTyped, tables

LEMMA FaultsTyped == LedgerInv => faults \in 0..MaxFaults
BY DEF LedgerInv, TablesTyped

LEMMA CheckAccessSound ==
  ASSUME LedgerInv, NEW r \in Requests, CheckAccess(r)
  PROVE  LedgerInv'
<1>1. /\ requests[r].stage = "access" /\ TablesTyped' /\ UNCHANGED <<ledger, did>>
      /\ End(r, "refused") \/ Goto(r, "target")
  BY TablesKept, FaultsTyped DEF CheckAccess
<1>2. requests[r].call.kind \in KindsAt("target")
  BY <1>1, Busy DEF KindsAt, Stages
<1> QED BY <1>1, <1>2, HandlerReturns, GotoSound DEF Stages, WorkflowStages, CommittedStages

LEMMA CheckTargetSound ==
  ASSUME LedgerInv, NEW r \in Requests, CheckTarget(r)
  PROVE  LedgerInv'
<1>1. /\ requests[r].stage = "target" /\ TablesTyped' /\ UNCHANGED <<ledger, did>>
      /\ Goto(r, "admins") \/ Goto(r, "load")
  BY TablesKept, FaultsTyped DEF CheckTarget
<1>2. requests[r].call.kind \in KindsAt("admins") /\ requests[r].call.kind \in KindsAt("load")
  BY <1>1, Busy DEF KindsAt, Stages, LedgerKinds
<1> QED BY <1>1, <1>2, GotoSound DEF Stages, WorkflowStages, CommittedStages

LEMMA CheckAdminsSound ==
  ASSUME LedgerInv, NEW r \in Requests, CheckAdmins(r)
  PROVE  LedgerInv'
<1>1. /\ requests[r].stage = "admins" /\ TablesTyped' /\ UNCHANGED <<ledger, did>>
      /\ End(r, "refused") \/ Goto(r, "load")
  BY TablesKept, FaultsTyped DEF CheckAdmins
<1>2. requests[r].call.kind \in KindsAt("load")
  BY <1>1, Busy DEF KindsAt, Stages, LedgerKinds
<1> QED BY <1>1, <1>2, HandlerReturns, GotoSound DEF Stages, WorkflowStages, CommittedStages

LEMMA CheckOnboardingSound ==
  ASSUME LedgerInv, NEW r \in Requests, CheckOnboarding(r)
  PROVE  LedgerInv'
<1>1. /\ requests[r].stage = "onboard" /\ TablesTyped' /\ UNCHANGED <<ledger, did>>
      /\ \/ End(r, "refused")
         \/ Goto(r, "choose") /\ requests[r].call.kind = "set_waiting"
         \/ Goto(r, "load") /\ requests[r].call.kind /= "set_waiting"
  BY TablesKept, FaultsTyped DEF CheckOnboarding
<1>2. requests[r].call.kind \in SelfKinds
  BY <1>1, Busy DEF KindsAt, Stages
<1>3. CASE End(r, "refused")
  BY <1>1, <1>3, HandlerReturns
<1>4. CASE Goto(r, "choose") /\ requests[r].call.kind = "set_waiting"
  <2>1. requests[r].call.kind \in KindsAt("choose")
    BY <1>4 DEF KindsAt
  <2> QED BY <1>1, <1>4, <2>1, GotoSound DEF Stages, WorkflowStages, CommittedStages
<1>5. CASE Goto(r, "load") /\ requests[r].call.kind /= "set_waiting"
  <2>1. requests[r].call.kind \in KindsAt("load")
    BY <1>2, <1>5 DEF KindsAt, SelfKinds, LedgerKinds
  <2> QED BY <1>1, <1>5, <2>1, GotoSound DEF Stages, WorkflowStages, CommittedStages
<1> QED BY <1>1, <1>3, <1>4, <1>5

LEMMA KeyOfKey ==
  ASSUME NEW c \in CallType
  PROVE  KeyOf(KeyOf(c)) = KeyOf(c) /\ KeyOf(c) \in CallType /\ KeyOf(c).kind = c.kind
BY DEF KeyOf, CallType

LEMMA StartSound ==
  ASSUME LedgerInv, NEW r \in Requests, NEW c \in CallType, WellFormed(c),
         c.kind \in LedgerKinds => KeyOf(c) \in Keys, Start(r, c)
  PROVE  LedgerInv'
<1> DEFINE q == [Idle(None) EXCEPT !.stage = EntryStage(c.kind), !.call = c]
<1>1. /\ q.stage = EntryStage(c.kind) /\ q.call = c
      /\ q.stage \in {"access", "onboard", "reject", "load"}
  BY DEF Idle, EntryStage
<1>2. c.kind \in KindsAt(q.stage)
  BY <1>1 DEF CallType, EntryStage, KindsAt, SelfKinds, AdminKinds, LedgerKinds
<1>3. q \in RequestType
  BY <1>1 DEF Idle, RequestType, OperationSteps, Stages
<1>4. RequestWellFormed(q)
  BY <1>1, <1>2, UserMutationsAssumption DEF RequestWellFormed, CommittedStages
<1>5. TablesTyped' /\ UNCHANGED <<ledger, did>> /\ requests' = [requests EXCEPT ![r] = q]
  BY DEF Start, tables, LedgerInv, TablesTyped
<1> QED BY <1>1, <1>3, <1>4, <1>5, HandlerMoves DEF WorkflowStages

LEMMA BeginSound ==
  ASSUME LedgerInv, NEW r \in Requests, Begin(r)
  PROVE  LedgerInv'
<1>1. PICK c \in Calls : Start(r, c)
  BY DEF Begin
<1>2. c \in CallType /\ WellFormed(c) /\ (c.kind \in LedgerKinds => KeyOf(c) \in Keys)
  BY UserMutationsAssumption DEF Keys
<1> QED BY <1>1, <1>2, StartSound

LEMMA RetrySound ==
  ASSUME LedgerInv, NEW r \in Requests, NEW k \in Keys, Retry(r, k)
  PROVE  LedgerInv'
<1>1. PICK d \in Calls : d.kind \in LedgerKinds /\ k = KeyOf(d)
  BY DEF Keys
<1>2. /\ k \in CallType /\ KeyOf(k) = k /\ k.kind = d.kind
      /\ d \in CallType /\ WellFormed(d)
  BY <1>1, KeyOfKey, UserMutationsAssumption
<1>3. ledger[k] /= None /\ k.kind \in RetryableKinds /\ k.kind \in AdminKinds
  BY DEF Retry, RetryableKinds, LedgerKinds, AdminKinds
<1>4. k.org \in Orgs
  BY <1>1, <1>2, <1>3 DEF WellFormed, KeyOf, RetryableKinds, CallType
<1>5. CASE k.kind = "approve_user"
  <2> DEFINE c == [k EXCEPT !.role = ledger[k].metadata]
  <2>1. ledger[k].metadata \in Roles
    BY <1>3, <1>5 DEF LedgerInv, LedgerWellFormed, RowWellFormed
  <2>2. c \in CallType /\ c.kind = k.kind /\ WellFormed(c)
    BY <1>2, <1>4, <1>5, <2>1 DEF CallType, WellFormed
  <2>3. KeyOf(c) = KeyOf(k)
    BY <1>2, <1>5 DEF KeyOf, CallType
  <2>4. Start(r, c)
    BY <1>5 DEF Retry
  <2> QED BY <1>2, <2>2, <2>3, <2>4, StartSound
<1>6. CASE k.kind /= "approve_user"
  <2>1. WellFormed(k)
    BY <1>1, <1>2, <1>4, <1>6 DEF WellFormed, KeyOf
  <2>2. Start(r, k)
    BY <1>6 DEF Retry
  <2> QED BY <1>2, <2>1, <2>2, StartSound
<1> QED BY <1>5, <1>6

-----------------------------------------------------------------------------
(* The waiting list *)

LEMMA ChooseOrganizationSound ==
  ASSUME LedgerInv, NEW r \in Requests, ChooseOrganization(r)
  PROVE  LedgerInv'
<1>1. /\ requests[r].stage = "choose" /\ TablesTyped' /\ UNCHANGED <<ledger, did>>
      /\ \/ End(r, "refused")
         \/ Goto(r, "wait")
         \/ \E org \in organizations :
              requests' = [requests EXCEPT ![r].stage = "wait", ![r].call.org = org]
  BY TablesKept, FaultsTyped DEF ChooseOrganization
<1>2. /\ requests[r] \in RequestType /\ requests[r].call \in CallType
      /\ requests[r].call.kind = "set_waiting"
  BY <1>1, Busy DEF Stages, KindsAt
<1>3. CASE End(r, "refused")
  BY <1>1, <1>3, HandlerReturns
<1>4. CASE Goto(r, "wait")
  <2>1. requests[r].call.kind \in KindsAt("wait")
    BY <1>2 DEF KindsAt
  <2> QED BY <1>1, <1>4, <2>1, GotoSound DEF Stages, WorkflowStages, CommittedStages
<1>5. ASSUME NEW org \in organizations,
             requests' = [requests EXCEPT ![r].stage = "wait", ![r].call.org = org]
      PROVE  LedgerInv'
  <2> DEFINE c == [requests[r].call EXCEPT !.org = org]
             q == [requests[r] EXCEPT !.stage = "wait", !.call = c]
  <2>1. c \in CallType /\ c.kind = "set_waiting"
    BY <1>2 DEF CallType, LedgerInv, TablesTyped
  <2>2. q \in RequestType /\ q.stage = "wait" /\ q.call = c
    BY <1>2, <2>1 DEF RequestType, Stages
  <2>3. requests' = [requests EXCEPT ![r] = q]
    BY <1>2, <1>5 DEF RequestType, CallType
  <2> HIDE DEF q, c
  <2>4. RequestWellFormed(q)
    BY <2>1, <2>2, UserMutationsAssumption
       DEF RequestWellFormed, WellFormed, KindsAt, AdminKinds, LedgerKinds, CommittedStages
  <2> QED BY <1>1, <2>2, <2>3, <2>4, HandlerMoves DEF WorkflowStages
<1> QED BY <1>1, <1>3, <1>4, <1>5

LEMMA SetWaitingSound ==
  ASSUME LedgerInv, NEW r \in Requests, SetWaiting(r)
  PROVE  LedgerInv'
<1>1. requests[r].stage = "wait" /\ requests[r].call \in CallType
  BY Busy DEF SetWaiting, Stages
<1>2. TablesTyped'
  BY <1>1 DEF SetWaiting, LedgerInv, TablesTyped, CallType
<1> QED BY <1>2, HandlerReturns DEF SetWaiting

LEMMA CancelWaitingSound ==
  ASSUME LedgerInv, NEW u \in Users, CancelWaiting(u)
  PROVE  LedgerInv'
<1>1. TablesTyped'
  BY DEF CancelWaiting, LedgerInv, TablesTyped
<1> QED BY <1>1 DEF CancelWaiting, LedgerInv, LedgerTyped, RequestsTyped, RequestsWellFormed,
                    RowsLoaded, LedgerWellFormed, LedgerTellsTruth, RequestsKnow, KeyAt

LEMMA RejectSound ==
  ASSUME LedgerInv, NEW r \in Requests, Reject(r)
  PROVE  LedgerInv'
<1>1. /\ requests[r].stage = "reject" /\ requests[r].call \in CallType
      /\ requests[r].call.kind \in KindsAt("reject_audit")
  BY Busy DEF Reject, Stages, KindsAt
<1>2. TablesTyped' /\ UNCHANGED <<ledger, did>>
  BY <1>1 DEF Reject, LedgerInv, TablesTyped, CallType
<1>3. End(r, "ok") \/ Goto(r, "reject_audit")
  BY DEF Reject
<1> QED BY <1>1, <1>2, <1>3, HandlerReturns, GotoSound DEF Stages, WorkflowStages, CommittedStages

LEMMA AuditEventTyped ==
  ASSUME NEW c \in CallType, WellFormed(c), c.kind \in AdminKinds, NEW role \in Roles \union {None}
  PROVE  AuditEvent(c, role) \in
           [kind : AdminKinds, org : Orgs, user : Users, role : Roles \union {None}]
BY DEF AuditEvent, CallType, WellFormed

LEMMA RejectAuditSound ==
  ASSUME LedgerInv, NEW r \in Requests, RejectAudit(r)
  PROVE  LedgerInv'
<1>1. /\ requests[r].stage = "reject_audit" /\ requests[r].call \in CallType
      /\ WellFormed(requests[r].call) /\ requests[r].call.kind = "reject_user"
  BY Busy DEF RejectAudit, Stages, KindsAt
<1>2. TablesTyped'
  BY <1>1, AuditEventTyped DEF RejectAudit, LedgerInv, TablesTyped, AdminKinds
<1> QED BY <1>2, HandlerReturns DEF RejectAudit

-----------------------------------------------------------------------------
(* Loading the operation *)

LEMMA ReachedSteps ==
  ASSUME NEW step \in OperationSteps
  PROVE  /\ HasReachedStep(step, "local_committed", LocalFirstOrder)
            => step \in {"local_committed", "synced_upstream", "completed"}
         /\ HasReachedStep(step, "synced_upstream", LocalFirstOrder)
            => step \in {"synced_upstream", "completed"}
<1> DEFINE order == <<"pending", "local_committed", "synced_upstream", "completed">>
<1>1. DOMAIN order = 1..4
  OBVIOUS
<1>2. /\ order[1] = "pending" /\ order[2] = "local_committed"
      /\ order[3] = "synced_upstream" /\ order[4] = "completed"
  OBVIOUS
<1>3. ASSUME NEW i \in 1..4, NEW j \in 1..4, j <= i, order[j] = "local_committed"
      PROVE  order[i] \in {"local_committed", "synced_upstream", "completed"}
  <2>1. j = 2 /\ i \in {2, 3, 4}
    BY <1>2, <1>3
  <2> QED BY <1>2, <2>1
<1>4. ASSUME NEW i \in 1..4, NEW j \in 1..4, j <= i, order[j] = "synced_upstream"
      PROVE  order[i] \in {"synced_upstream", "completed"}
  <2>1. j = 3 /\ i \in {3, 4}
    BY <1>2, <1>4
  <2> QED BY <1>2, <2>1
<1> HIDE DEF order
<1>5. LocalFirstOrder = order
  BY DEF LocalFirstOrder, order
<1> QED BY <1>1, <1>3, <1>4, <1>5 DEF HasReachedStep

\* Where a request goes that does not commit: what it skips has been done.
LEMMA AfterCommitSound ==
  ASSUME NEW seen \in OperationSteps, NEW result, result /= None
  PROVE  /\ AfterCommit(seen, result) \in {"sync_member", "audit"}
         /\ AfterCommit(seen, result) = "audit" => seen \in {"synced_upstream", "completed"}
BY ReachedSteps DEF AfterCommit, RunsSyncUpstream

LEMMA FirstStageSound ==
  ASSUME NEW kind, NEW seen \in OperationSteps, NEW result,
         seen \in {"local_committed", "synced_upstream", "completed"} => result /= None
  PROVE  \/ FirstStage(kind, seen, result) \in {"commit", "write"}
         \/ /\ FirstStage(kind, seen, result) \in {"sync_member", "audit"}
            /\ result /= None
            /\ FirstStage(kind, seen, result) = "audit"
                 => seen \in {"synced_upstream", "completed"}
BY ReachedSteps, AfterCommitSound DEF FirstStage, RunsCommitLocal, CommitStage

LEMMA LoadSound ==
  ASSUME LedgerInv, NEW r \in Requests, Load(r)
  PROVE  LedgerInv'
<1> DEFINE c == requests[r].call
           k == KeyOf(c)
           operation == IF ledger[k] = None THEN NewOperation(c.role) ELSE ledger[k]
           stage == FirstStage(c.kind, operation.step, operation.result)
           q == [requests[r] EXCEPT !.stage = stage, !.seen = operation.step,
                                    !.result = operation.result]
<1>1. requests[r].stage = "load"
  BY DEF Load
<1>2. /\ c.kind \in LedgerKinds /\ k \in Keys /\ c \in CallType /\ WellFormed(c)
      /\ requests[r] \in RequestType
  BY <1>1, BusyKind, Busy DEF KeyAt
<1>3. /\ operation \in OperationType /\ operation /= None
      /\ RowWellFormed(k, operation) /\ RowTellsTruth(operation, did[k])
  <2>1. CASE ledger[k] = None
    <3>1. operation = [status |-> "in_progress", step |-> "pending", result |-> None,
                       metadata |-> c.role]
      BY <2>1 DEF NewOperation
    <3>2. operation \in OperationType
      BY <1>2, <3>1 DEF OperationType, OperationStatuses, OperationSteps, CallType
    <3>3. k.kind = c.kind
      BY <1>2, KeyOfKey
    <3>4. RowWellFormed(k, operation)
      BY <1>2, <3>1, <3>3 DEF RowWellFormed, WellFormed
    <3>5. operation /= None
      BY <3>2, UserMutationsAssumption
    <3> QED BY <3>1, <3>2, <3>4, <3>5 DEF RowTellsTruth
  <2>2. CASE ledger[k] /= None
    BY <1>2, <2>2 DEF LedgerInv, LedgerTyped, LedgerWellFormed, LedgerTellsTruth
  <2> QED BY <2>1, <2>2
<1> HIDE DEF operation
<1>4. /\ LedgerTyped' /\ ledger'[k] = operation
      /\ \A other \in Keys : other /= k => ledger'[other] = ledger[other]
  BY <1>2, <1>3 DEF Load, LedgerInv, LedgerTyped, operation
<1>5. TablesTyped' /\ UNCHANGED did
  BY DEF Load, LedgerInv, TablesTyped
<1>6. CASE AlreadyCompleted(c.kind, operation)
  <2>1. requests' = [requests EXCEPT ![r] = Idle("ok")]
    BY <1>6 DEF Load, operation, End
  <2> QED BY <1>3, <1>4, <1>5, <2>1, IdleWellFormed, HandlerStep DEF WorkflowStages
<1>7. CASE ~AlreadyCompleted(c.kind, operation)
  <2>1. requests' = [requests EXCEPT ![r] = q]
    BY <1>7 DEF Load, operation
  <2>2. operation.step \in OperationSteps /\ operation.result \in {None} \union ResultType
    BY <1>3 DEF OperationType
  <2>3. \/ stage \in {"commit", "write"}
        \/ /\ stage \in {"sync_member", "audit"} /\ operation.result /= None
           /\ stage = "audit" => operation.step \in {"synced_upstream", "completed"}
    BY <1>3, <2>2, FirstStageSound DEF RowWellFormed
  <2> HIDE DEF stage
  <2>4. /\ q \in RequestType /\ q.stage = stage /\ q.call = c
        /\ q.seen = operation.step /\ q.result = operation.result
    BY <1>2, <2>2, <2>3 DEF RequestType, Stages
  <2> HIDE DEF q
  <2>5. RequestWellFormed(q)
    <3>1. q.call /= None
      BY <1>2, <2>4, UserMutationsAssumption
    <3> QED BY <1>2, <2>3, <2>4, <3>1 DEF RequestWellFormed, KindsAt, CommittedStages
  <2>6. RequestKnows(q, did[k])
    BY <1>3, <2>3, <2>4 DEF RequestKnows, RowTellsTruth
  <2> QED BY <1>3, <1>4, <1>5, <2>1, <2>4, <2>5, <2>6, HandlerStep
<1> QED BY <1>6, <1>7

-----------------------------------------------------------------------------
(* Committing locally *)

LEMMA CommitReadSound ==
  ASSUME LedgerInv, NEW r \in Requests, CommitRead(r)
  PROVE  LedgerInv'
<1>1. /\ requests[r].stage = "commit" /\ TablesTyped' /\ UNCHANGED <<ledger, did>>
  BY TablesKept, FaultsTyped DEF CommitRead
<1>2. PICK stage \in {"write", "fail"}, role \in Roles \union {None} :
        requests' = [requests EXCEPT ![r].stage = stage, ![r].role = role]
  BY DEF CommitRead, Roles
<1> DEFINE q == [requests[r] EXCEPT !.stage = stage, !.role = role]
<1>3. /\ q \in RequestType /\ q.stage = stage /\ q.call = requests[r].call
      /\ q.result = requests[r].result /\ q.seen = requests[r].seen
      /\ requests' = [requests EXCEPT ![r] = q]
  BY <1>1, <1>2, Busy DEF RequestType, Stages
<1>4. /\ requests[r].call.kind \in LedgerKinds /\ RequestWellFormed(requests[r])
      /\ RequestKnows(requests[r], did[KeyAt(r)])
  BY <1>1, BusyKind, Busy DEF WorkflowStages
<1>5. RequestWellFormed(q)
  BY <1>1, <1>3, <1>4 DEF RequestWellFormed, KindsAt, CommittedStages
<1>6. RequestKnows(q, did[KeyOf(q.call)])
  BY <1>1, <1>3, <1>4 DEF RequestKnows, KeyAt, WorkflowStages
<1> QED BY <1>1, <1>3, <1>5, <1>6, HandlerMoves DEF WorkflowStages

LEMMA UniqueViolationSound ==
  ASSUME LedgerInv, NEW r \in Requests, UniqueViolation(r)
  PROVE  LedgerInv'
<1>1. /\ requests[r].stage = "write" /\ TablesTyped' /\ UNCHANGED <<ledger, did>>
      /\ Goto(r, "fail")
  BY TablesKept, FaultsTyped DEF UniqueViolation
<1>2. requests[r].call.kind \in KindsAt("fail")
  BY <1>1, BusyKind DEF KindsAt, WorkflowStages
<1> QED BY <1>1, <1>2, GotoSound DEF Stages, WorkflowStages, CommittedStages

\* Whatever is written, the effect and its result become known together.
LEMMA CommittedSound ==
  ASSUME LedgerInv, NEW r \in Requests, NEW result \in ResultType,
         requests[r].stage = "write", Committed(r, result),
         memberships' \subseteq MemberType, organizations' \subseteq Orgs,
         waiting' \in [Users -> Orgs \union {None, "untargeted"}]
  PROVE  LedgerInv'
<1>1. /\ requests[r] \in RequestType /\ RequestWellFormed(requests[r])
      /\ requests[r].call.kind \in LedgerKinds /\ KeyAt(r) \in Keys
      /\ RequestKnows(requests[r], did[KeyAt(r)])
  BY BusyKind, Busy DEF WorkflowStages
<1> DEFINE q == [requests[r] EXCEPT !.stage = "mark", !.step = "local_committed",
                                    !.result = result, !.role = None]
<1>2. /\ q \in RequestType /\ q.stage = "mark" /\ q.call = requests[r].call
      /\ q.result = result /\ q.seen = requests[r].seen /\ q.step = "local_committed"
      /\ requests' = [requests EXCEPT ![r] = q]
  BY <1>1 DEF RequestType, Stages, OperationSteps, Committed
<1> HIDE DEF q
<1>3. /\ did' \in [Keys -> SUBSET {"local", "mirror", "completed"}]
      /\ \A k \in Keys : did[k] \subseteq did'[k]
      /\ "local" \in did'[KeyAt(r)]
  BY <1>1 DEF Committed, LedgerInv, TablesTyped
<1>4. TablesTyped' /\ UNCHANGED ledger
  BY <1>3 DEF Committed, LedgerInv, TablesTyped
<1>5. RequestWellFormed(q)
  BY <1>1, <1>2, UserMutationsAssumption DEF RequestWellFormed, KindsAt
<1>6. RequestKnows(q, did'[KeyOf(q.call)])
  BY <1>1, <1>2, <1>3 DEF RequestKnows, KeyAt, WorkflowStages
<1> QED BY <1>2, <1>3, <1>4, <1>5, <1>6, HandlerMoves DEF WorkflowStages

LEMMA InsertMemberTyped ==
  ASSUME LedgerInv, NEW org \in Orgs, NEW user \in Users, NEW role \in Roles,
         InsertMember(org, user, role)
  PROVE  /\ memberships' \subseteq MemberType
         /\ waiting' \in [Users -> Orgs \union {None, "untargeted"}]
BY DEF InsertMember, LedgerInv, TablesTyped, MemberType

LEMMA NoDetailTyped == NoDetail \in ResultType
BY DEF NoDetail, ResultType

\* What a call in its write step looks like.
LEMMA Writing ==
  ASSUME LedgerInv, NEW r \in Requests, requests[r].stage = "write"
  PROVE  /\ requests[r] \in RequestType /\ requests[r].call \in CallType
         /\ WellFormed(requests[r].call)
BY Busy DEF Stages

LEMMA CommitApprovalSound ==
  ASSUME LedgerInv, NEW r \in Requests, CommitApproval(r)
  PROVE  LedgerInv'
<1>1. requests[r].stage = "write" /\ requests[r].call.kind = "approve_user"
  BY DEF CommitApproval
<1>2. /\ requests[r].call.org \in Orgs /\ requests[r].call.user \in Users
      /\ requests[r].call.role \in Roles
  BY <1>1, Writing DEF WellFormed, CallType, AdminKinds
<1>3. organizations' \subseteq Orgs
  BY DEF CommitApproval, LedgerInv, TablesTyped
<1> QED BY <1>1, <1>2, <1>3, InsertMemberTyped, NoDetailTyped, CommittedSound DEF CommitApproval

LEMMA CommitOrganizationSound ==
  ASSUME LedgerInv, NEW r \in Requests, CommitOrganization(r)
  PROVE  LedgerInv'
<1>1. PICK org \in Orgs \ organizations :
        /\ organizations' = organizations \union {org}
        /\ InsertMember(org, requests[r].call.user, "admin")
  BY DEF CommitOrganization
<1>2. requests[r].stage = "write" /\ requests[r].call.user \in Users
  BY Writing DEF CommitOrganization, CallType
<1>3. organizations' \subseteq Orgs
  BY <1>1 DEF LedgerInv, TablesTyped
<1>4. "admin" \in Roles
  BY DEF Roles
<1> QED BY <1>1, <1>2, <1>3, <1>4, InsertMemberTyped, NoDetailTyped, CommittedSound
        DEF CommitOrganization

LEMMA CommitRoleSound ==
  ASSUME LedgerInv, NEW r \in Requests, CommitRole(r)
  PROVE  LedgerInv'
<1> DEFINE c == requests[r].call
           result == IF c.kind = "assign_role" THEN [role |-> c.role, groups |-> c.groups]
                     ELSE NoDetail
<1>1. requests[r].stage = "write" /\ c.kind \in {"assign_role", "revoke_role"}
  BY DEF CommitRole
<1>2. c \in CallType /\ WellFormed(c)
  BY <1>1, Writing
<1>3. NextRole(c) \in Roles
  BY <1>1, <1>2 DEF NextRole, WellFormed, Roles
<1>4. memberships' \subseteq MemberType
  <2>1. \A m \in MemberType : [m EXCEPT !.role = NextRole(c)] \in MemberType
    BY <1>3 DEF MemberType
  <2>2. memberships \subseteq MemberType /\ MembersIn(c.org, c.user) \subseteq memberships
    BY DEF LedgerInv, TablesTyped, MembersIn, MembersOf
  <2> QED BY <2>1, <2>2 DEF CommitRole
<1>5. result \in ResultType
  BY <1>2, NoDetailTyped DEF ResultType, CallType
<1>6. /\ organizations' \subseteq Orgs
      /\ waiting' \in [Users -> Orgs \union {None, "untargeted"}]
  BY DEF CommitRole, LedgerInv, TablesTyped
<1>7. Committed(r, result)
  BY DEF CommitRole
<1> QED BY <1>1, <1>4, <1>5, <1>6, <1>7, CommittedSound

LEMMA CommitDeleteSound ==
  ASSUME LedgerInv, NEW r \in Requests, CommitDelete(r)
  PROVE  LedgerInv'
<1> DEFINE result == [role |-> requests[r].role, groups |-> {}]
<1>1. requests[r].stage = "write" /\ Committed(r, result)
  BY DEF CommitDelete
<1>2. result \in ResultType
  BY <1>1, Writing DEF RequestType, ResultType
<1>3. /\ memberships' \subseteq MemberType /\ organizations' \subseteq Orgs
      /\ waiting' \in [Users -> Orgs \union {None, "untargeted"}]
  BY DEF CommitDelete, LedgerInv, TablesTyped
<1> QED BY <1>1, <1>2, <1>3, CommittedSound

-----------------------------------------------------------------------------
(* Synchronizing the mirror *)

\* What is known of a request that has committed and is not yet done.
LEMMA Syncing ==
  ASSUME LedgerInv, NEW r \in Requests, requests[r].stage \in CommittedStages
  PROVE  /\ requests[r] \in RequestType /\ RequestWellFormed(requests[r])
         /\ requests[r].call \in CallType /\ WellFormed(requests[r].call)
         /\ requests[r].call.kind \in LedgerKinds /\ KeyAt(r) \in Keys
         /\ requests[r].result \in ResultType
         /\ RequestKnows(requests[r], did[KeyAt(r)])
         /\ "local" \in did[KeyAt(r)]
         /\ ledger[KeyAt(r)] \in OperationType
<1>1. requests[r].stage \in WorkflowStages /\ requests[r].stage \in Stages
  BY DEF CommittedStages, WorkflowStages, Stages
<1>2. /\ requests[r] \in RequestType /\ RequestWellFormed(requests[r])
      /\ requests[r].call \in CallType /\ WellFormed(requests[r].call)
      /\ requests[r].call.kind \in LedgerKinds /\ KeyAt(r) \in Keys
      /\ RequestKnows(requests[r], did[KeyAt(r)])
  BY <1>1, Busy, BusyKind
<1>3. requests[r].result /= None
  BY <1>1, <1>2 DEF RequestWellFormed, Stages
<1>4. requests[r].result \in ResultType /\ "local" \in did[KeyAt(r)]
  BY <1>1, <1>2, <1>3 DEF RequestType, RequestKnows
<1>5. ledger[KeyAt(r)] \in OperationType
  BY <1>1, <1>2 DEF LedgerInv, LedgerTyped, RowsLoaded
<1> QED BY <1>2, <1>4, <1>5

\* A move between the reads and the write of the synchronization.
LEMMA SyncMoveSound ==
  ASSUME LedgerInv, NEW r \in Requests, requests[r].stage \in {"sync_member", "sync_row"},
         NEW q \in RequestType, q.stage \in {"sync_row", "sync_write"},
         q.call = requests[r].call, q.result = requests[r].result, q.seen = requests[r].seen,
         requests' = [requests EXCEPT ![r] = q], UNCHANGED tables, faults' = faults
  PROVE  LedgerInv'
<1>1. /\ requests[r] \in RequestType /\ RequestWellFormed(requests[r])
      /\ requests[r].call.kind \in LedgerKinds /\ requests[r].result \in ResultType
      /\ RequestKnows(requests[r], did[KeyAt(r)])
  BY Syncing DEF CommittedStages
<1>2. RequestWellFormed(q)
  BY <1>1, UserMutationsAssumption DEF RequestWellFormed, KindsAt
<1>3. RequestKnows(q, did[KeyOf(q.call)])
  BY <1>1 DEF RequestKnows, KeyAt, WorkflowStages
<1>4. TablesTyped' /\ UNCHANGED <<ledger, did>>
  BY TablesKept, FaultsTyped
<1> QED BY <1>2, <1>3, <1>4, HandlerMoves DEF WorkflowStages

LEMMA SyncMemberSound ==
  ASSUME LedgerInv, NEW r \in Requests, SyncMember(r)
  PROVE  LedgerInv'
<1>1. requests[r].stage = "sync_member" /\ UNCHANGED tables /\ faults' = faults
  BY DEF SyncMember
<1>2. requests[r] \in RequestType
  BY <1>1, Syncing DEF CommittedStages
<1>3. CASE MembersOf(requests[r].call.user) = {}
  <2> DEFINE q == [requests[r] EXCEPT !.stage = "sync_write"]
  <2>1. requests' = [requests EXCEPT ![r] = q]
    BY <1>3 DEF SyncMember, Goto
  <2>2. /\ q \in RequestType /\ q.stage = "sync_write" /\ q.call = requests[r].call
        /\ q.result = requests[r].result /\ q.seen = requests[r].seen
    BY <1>2 DEF RequestType, Stages
  <2> QED BY <1>1, <2>1, <2>2, SyncMoveSound
<1>4. CASE MembersOf(requests[r].call.user) /= {}
  <2>1. PICK m \in MembersOf(requests[r].call.user) :
          requests' = [requests EXCEPT ![r].stage = "sync_row", ![r].role = m.role]
    BY <1>4 DEF SyncMember
  <2> DEFINE q == [requests[r] EXCEPT !.stage = "sync_row", !.role = m.role]
  <2>2. m.role \in Roles
    BY DEF MembersOf, LedgerInv, TablesTyped, MemberType
  <2>3. requests' = [requests EXCEPT ![r] = q]
    BY <2>1
  <2>4. /\ q \in RequestType /\ q.stage = "sync_row" /\ q.call = requests[r].call
        /\ q.result = requests[r].result /\ q.seen = requests[r].seen
    BY <1>2, <2>2 DEF RequestType, Stages
  <2> QED BY <1>1, <2>3, <2>4, SyncMoveSound
<1> QED BY <1>3, <1>4

LEMMA SyncRowSound ==
  ASSUME LedgerInv, NEW r \in Requests, SyncRow(r)
  PROVE  LedgerInv'
<1>1. requests[r].stage = "sync_row" /\ UNCHANGED tables /\ faults' = faults
  BY DEF SyncRow
<1>2. requests[r] \in RequestType
  BY <1>1, Syncing DEF CommittedStages
<1>3. CASE MirrorOf(requests[r].call.user) = {}
  <2> DEFINE q == [requests[r] EXCEPT !.stage = "sync_write"]
  <2>1. requests' = [requests EXCEPT ![r] = q]
    BY <1>3 DEF SyncRow, Goto
  <2>2. /\ q \in RequestType /\ q.stage = "sync_write" /\ q.call = requests[r].call
        /\ q.result = requests[r].result /\ q.seen = requests[r].seen
    BY <1>2 DEF RequestType, Stages
  <2> QED BY <1>1, <2>1, <2>2, SyncMoveSound
<1>4. CASE MirrorOf(requests[r].call.user) /= {}
  <2>1. PICK row \in MirrorOf(requests[r].call.user) :
          requests' = [requests EXCEPT ![r].stage = "sync_write", ![r].row = row.groups]
    BY <1>4 DEF SyncRow
  <2> DEFINE q == [requests[r] EXCEPT !.stage = "sync_write", !.row = row.groups]
  <2>2. row.groups \in SUBSET Groups
    BY DEF MirrorOf, LedgerInv, TablesTyped
  <2>3. requests' = [requests EXCEPT ![r] = q]
    BY <2>1
  <2>4. /\ q \in RequestType /\ q.stage = "sync_write" /\ q.call = requests[r].call
        /\ q.result = requests[r].result /\ q.seen = requests[r].seen
    BY <1>2, <2>2 DEF RequestType, Stages
  <2> QED BY <1>1, <2>3, <2>4, SyncMoveSound
<1> QED BY <1>3, <1>4

LEMMA FailsSound ==
  ASSUME LedgerInv, NEW r \in Requests, requests[r].stage \in WorkflowStages,
         Goto(r, "fail"), TablesTyped', UNCHANGED <<ledger, did>>
  PROVE  LedgerInv'
<1>1. requests[r].call.kind \in KindsAt("fail") /\ requests[r].stage \in Stages
  BY BusyKind DEF KindsAt
<1> QED BY <1>1, GotoSound DEF Stages, WorkflowStages, CommittedStages

LEMMA SynchronizedSound ==
  ASSUME LedgerInv, NEW r \in Requests, requests[r].stage = "sync_write",
         NEW result \in ResultType, Synchronized(r, result),
         mirror' \subseteq [id : Users \union Requests, user : Users, role : Roles,
                            groups : SUBSET Groups],
         UNCHANGED <<memberships, organizations, waiting, ledger, audits, faults>>
  PROVE  LedgerInv'
<1>1. /\ requests[r] \in RequestType /\ RequestWellFormed(requests[r])
      /\ requests[r].call.kind \in LedgerKinds /\ KeyAt(r) \in Keys
      /\ RequestKnows(requests[r], did[KeyAt(r)]) /\ "local" \in did[KeyAt(r)]
  BY Syncing DEF CommittedStages
<1> DEFINE q == [requests[r] EXCEPT !.stage = "mark", !.step = "synced_upstream",
                                    !.result = result, !.role = None, !.row = None]
<1>2. /\ q \in RequestType /\ q.stage = "mark" /\ q.call = requests[r].call
      /\ q.result = result /\ q.seen = requests[r].seen /\ q.step = "synced_upstream"
      /\ requests' = [requests EXCEPT ![r] = q]
  BY <1>1 DEF RequestType, Stages, OperationSteps, Synchronized
<1> HIDE DEF q
<1>3. /\ did' \in [Keys -> SUBSET {"local", "mirror", "completed"}]
      /\ \A k \in Keys : did[k] \subseteq did'[k]
      /\ "local" \in did'[KeyAt(r)] /\ "mirror" \in did'[KeyAt(r)]
  BY <1>1 DEF Synchronized, LedgerInv, TablesTyped
<1>4. TablesTyped'
  BY <1>3 DEF LedgerInv, TablesTyped
<1>5. RequestWellFormed(q)
  BY <1>1, <1>2, UserMutationsAssumption DEF RequestWellFormed, KindsAt
<1>6. RequestKnows(q, did'[KeyOf(q.call)])
  BY <1>1, <1>2, <1>3 DEF RequestKnows, KeyAt, WorkflowStages
<1> QED BY <1>2, <1>3, <1>4, <1>5, <1>6, HandlerMoves DEF WorkflowStages

LEMMA SyncDeleteSound ==
  ASSUME LedgerInv, NEW r \in Requests, SyncDelete(r)
  PROVE  LedgerInv'
<1>1. /\ requests[r].stage = "sync_write" /\ mirror' \subseteq mirror
      /\ UNCHANGED <<memberships, organizations, waiting, ledger, audits, faults>>
      /\ \/ Goto(r, "fail") /\ UNCHANGED did
         \/ Synchronized(r, requests[r].result)
  BY DEF SyncDelete
<1>2. mirror' \subseteq [id : Users \union Requests, user : Users, role : Roles,
                         groups : SUBSET Groups]
  BY <1>1 DEF LedgerInv, TablesTyped
<1>3. requests[r].result \in ResultType
  BY <1>1, Syncing DEF CommittedStages
<1>4. CASE Goto(r, "fail") /\ UNCHANGED did
  <2>1. TablesTyped'
    BY <1>1, <1>2, <1>4 DEF LedgerInv, TablesTyped
  <2> QED BY <1>1, <1>4, <2>1, FailsSound DEF WorkflowStages
<1>5. CASE Synchronized(r, requests[r].result)
  BY <1>1, <1>2, <1>3, <1>5, SynchronizedSound
<1> QED BY <1>1, <1>4, <1>5

LEMMA NextGroupsTyped ==
  ASSUME LedgerInv, NEW r \in Requests, requests[r].stage = "sync_write"
  PROVE  /\ NextGroups(requests[r]) \in SUBSET Groups
         /\ requests[r].role /= None =>
              requests[r].role \in Roles /\ SyncedResult(requests[r]) \in ResultType
<1>1. requests[r] \in RequestType /\ requests[r].result \in ResultType
  BY Syncing DEF CommittedStages
<1>2. NextGroups(requests[r]) \in SUBSET Groups
  BY <1>1 DEF NextGroups, RequestType, ResultType
<1> QED BY <1>1, <1>2 DEF SyncedResult, RequestType, ResultType

LEMMA SyncInsertSound ==
  ASSUME LedgerInv, NEW r \in Requests, SyncInsert(r)
  PROVE  LedgerInv'
<1> DEFINE q == requests[r]
           row == [id |-> r, user |-> q.call.user, role |-> q.role, groups |-> NextGroups(q)]
<1>1. /\ q.stage = "sync_write" /\ q.role /= None /\ mirror' = mirror \union {row}
      /\ Synchronized(r, SyncedResult(q))
      /\ UNCHANGED <<memberships, organizations, waiting, ledger, audits, faults>>
  BY DEF SyncInsert
<1>2. q.call.user \in Users
  BY <1>1, Syncing DEF CommittedStages, CallType
<1>3. row \in [id : Users \union Requests, user : Users, role : Roles, groups : SUBSET Groups]
  BY <1>1, <1>2, NextGroupsTyped
<1>4. mirror' \subseteq [id : Users \union Requests, user : Users, role : Roles,
                         groups : SUBSET Groups]
  BY <1>1, <1>3 DEF LedgerInv, TablesTyped
<1> QED BY <1>1, <1>4, NextGroupsTyped, SynchronizedSound

LEMMA SyncUpdateSound ==
  ASSUME LedgerInv, NEW r \in Requests, SyncUpdate(r)
  PROVE  LedgerInv'
<1> DEFINE q == requests[r]
           rows == MirrorOf(q.call.user)
           RowType == [id : Users \union Requests, user : Users, role : Roles,
                       groups : SUBSET Groups]
<1>1. /\ q.stage = "sync_write" /\ q.role /= None
      /\ mirror' = (mirror \ rows) \union
                     {[row EXCEPT !.role = q.role, !.groups = NextGroups(q)] : row \in rows}
      /\ \/ Goto(r, "fail") /\ UNCHANGED did
         \/ Synchronized(r, SyncedResult(q))
      /\ UNCHANGED <<memberships, organizations, waiting, ledger, audits, faults>>
  BY DEF SyncUpdate
<1>2. mirror' \subseteq RowType
  <2>1. \A row \in RowType : [row EXCEPT !.role = q.role, !.groups = NextGroups(q)] \in RowType
    BY <1>1, NextGroupsTyped
  <2>2. mirror \subseteq RowType /\ rows \subseteq mirror
    BY DEF LedgerInv, TablesTyped, MirrorOf
  <2> HIDE DEF RowType
  <2> QED BY <1>1, <2>1, <2>2
<1>3. CASE Goto(r, "fail") /\ UNCHANGED did
  <2>1. TablesTyped'
    BY <1>1, <1>2, <1>3 DEF LedgerInv, TablesTyped
  <2> QED BY <1>1, <1>3, <2>1, FailsSound DEF WorkflowStages
<1>4. CASE Synchronized(r, SyncedResult(q))
  BY <1>1, <1>2, <1>4, NextGroupsTyped, SynchronizedSound
<1> QED BY <1>1, <1>3, <1>4

-----------------------------------------------------------------------------
(* Completion, progress and failure *)

LEMMA AuditsTyped ==
  ASSUME LedgerInv, NEW r \in Requests, requests[r].stage = "audit"
  PROVE  AuditsOf(requests[r]) \subseteq
           [kind : AdminKinds, org : Orgs, user : Users, role : Roles \union {None}]
<1> DEFINE q == requests[r]
           c == q.call
<1>1. /\ c \in CallType /\ WellFormed(c) /\ c.kind \in LedgerKinds /\ q.result \in ResultType
  BY Syncing DEF CommittedStages
<1>2. c.role \in Roles \union {None} /\ q.result.role \in Roles \union {None}
      /\ "teacher" \in Roles
  BY <1>1 DEF CallType, ResultType, Roles
<1>3. CASE c.kind = "create_organization"
  BY <1>3 DEF AuditsOf
<1>4. CASE c.kind /= "create_organization"
  <2>1. c.kind \in AdminKinds
    BY <1>1, <1>4 DEF LedgerKinds, AdminKinds
  <2>2. \A role \in Roles \union {None} : AuditEvent(c, role) \in
           [kind : AdminKinds, org : Orgs, user : Users, role : Roles \union {None}]
    BY <1>1, <2>1, AuditEventTyped
  <2>3. \E role \in Roles \union {None} : AuditsOf(q) \subseteq {AuditEvent(c, role)}
    BY <1>2, <1>4 DEF AuditsOf
  <2> QED BY <2>2, <2>3
<1> QED BY <1>3, <1>4

LEMMA AuditSound ==
  ASSUME LedgerInv, NEW r \in Requests, Audit(r)
  PROVE  LedgerInv'
<1> DEFINE q == [requests[r] EXCEPT !.stage = "mark", !.step = "completed"]
<1>1. requests[r].stage = "audit" /\ requests' = [requests EXCEPT ![r] = q]
  BY DEF Audit
<1>2. /\ requests[r] \in RequestType /\ RequestWellFormed(requests[r])
      /\ requests[r].call.kind \in LedgerKinds /\ requests[r].result \in ResultType
      /\ RequestKnows(requests[r], did[KeyAt(r)])
  BY <1>1, Syncing DEF CommittedStages
<1>3. /\ q \in RequestType /\ q.stage = "mark" /\ q.call = requests[r].call
      /\ q.result = requests[r].result /\ q.seen = requests[r].seen /\ q.step = "completed"
  BY <1>2 DEF RequestType, Stages, OperationSteps
<1> HIDE DEF q
<1>4. RequestWellFormed(q)
  BY <1>1, <1>2, <1>3, UserMutationsAssumption DEF RequestWellFormed, KindsAt
<1>5. RequestKnows(q, did[KeyOf(q.call)])
  BY <1>1, <1>2, <1>3 DEF RequestKnows, KeyAt, WorkflowStages
<1>6. TablesTyped' /\ UNCHANGED <<ledger, did>>
  BY <1>1, AuditsTyped DEF Audit, LedgerInv, TablesTyped
<1> QED BY <1>1, <1>3, <1>4, <1>5, <1>6, HandlerMoves DEF WorkflowStages

\* What a progress write leaves in the row: it says no more than was done.
LEMMA ProgressSound ==
  ASSUME NEW row \in OperationType, NEW k, RowWellFormed(k, row), NEW done,
         NEW step \in {"local_committed", "synced_upstream", "completed"},
         NEW result \in ResultType, NEW role \in Roles \union {None},
         k.kind = "approve_user" => role \in Roles,
         "local" \in done, step /= "local_committed" => "mirror" \in done,
         step = "completed" => "completed" \in done
  PROVE  /\ Progress(row, step, result, role) \in OperationType
         /\ RowWellFormed(k, Progress(row, step, result, role))
         /\ RowTellsTruth(Progress(row, step, result, role), done)
<1> DEFINE new == Progress(row, step, result, role)
<1>1. result /= None
  BY UserMutationsAssumption
<1>2. new = [status |-> IF step = "completed" THEN "completed" ELSE "in_progress",
             step |-> step, result |-> result, metadata |-> role]
  BY <1>1 DEF Progress, Keep
<1>3. new \in OperationType
  BY <1>2 DEF OperationType, OperationStatuses, OperationSteps
<1>4. RowWellFormed(k, new)
  BY <1>1, <1>2 DEF RowWellFormed
<1>5. RowTellsTruth(new, done)
  BY <1>2 DEF RowTellsTruth
<1> QED BY <1>3, <1>4, <1>5

\* The role a call carries is that of its approval, if it is one.
LEMMA CallRole ==
  ASSUME NEW c \in CallType, WellFormed(c)
  PROVE  /\ c.role \in Roles \union {None}
         /\ KeyOf(c).kind = "approve_user" => c.role \in Roles
BY KeyOfKey DEF WellFormed, CallType

LEMMA MarkSound ==
  ASSUME LedgerInv, NEW r \in Requests, Mark(r)
  PROVE  LedgerInv'
<1> DEFINE old == requests[r]
           k == KeyAt(r)
           row == Progress(ledger[k], old.step, old.result, old.call.role)
<1>1. /\ old.stage = "mark" /\ ledger' = [ledger EXCEPT ![k] = row]
      /\ UNCHANGED <<memberships, organizations, waiting, mirror, audits, faults>>
  BY DEF Mark
<1>2. /\ old \in RequestType /\ RequestWellFormed(old) /\ old.call.kind \in LedgerKinds
      /\ k \in Keys /\ old.result \in ResultType /\ old.result /= None
      /\ old.step \in {"local_committed", "synced_upstream", "completed"}
      /\ RequestKnows(old, did[k]) /\ "local" \in did[k]
      /\ old.call \in CallType /\ WellFormed(old.call) /\ ledger[k] \in OperationType
      /\ k = KeyOf(old.call)
  <2>1. old.stage \in CommittedStages /\ old.stage /= "idle"
    BY <1>1 DEF CommittedStages
  <2> QED BY <1>1, <2>1, Syncing, UserMutationsAssumption DEF RequestWellFormed, KeyAt
<1>3. old.step /= "local_committed" => "mirror" \in did[k]
  BY <1>1, <1>2 DEF RequestKnows, WorkflowStages
<1>4. RowWellFormed(k, ledger[k])
  BY <1>2, UserMutationsAssumption DEF LedgerInv, LedgerWellFormed
<1>5. /\ \A key \in Keys : did[key] \subseteq did'[key]
      /\ did' \in [Keys -> SUBSET {"local", "mirror", "completed"}]
      /\ old.step = "completed" => "completed" \in did'[k]
  BY <1>1, <1>2 DEF Mark, LedgerInv, TablesTyped
<1>6. /\ row \in OperationType /\ RowWellFormed(k, row) /\ RowTellsTruth(row, did'[k])
  <2>1. "local" \in did'[k] /\ (old.step /= "local_committed" => "mirror" \in did'[k])
    BY <1>2, <1>3, <1>5
  <2> QED BY <1>2, <1>4, <1>5, <2>1, CallRole, ProgressSound
<1> HIDE DEF row
<1>7. /\ LedgerTyped' /\ ledger'[k] = row /\ row /= None
      /\ \A other \in Keys : other /= k => ledger'[other] = ledger[other]
  BY <1>1, <1>2, <1>6, UserMutationsAssumption DEF LedgerInv, LedgerTyped
<1>8. TablesTyped'
  BY <1>1, <1>5 DEF LedgerInv, TablesTyped
<1>9. CASE old.step = "completed"
  <2>1. requests' = [requests EXCEPT ![r] = Idle("ok")]
    BY <1>9 DEF Mark, End
  <2> QED BY <1>5, <1>6, <1>7, <1>8, <2>1, IdleWellFormed, HandlerStep DEF WorkflowStages
<1>10. CASE old.step /= "completed"
  <2>1. PICK stage \in {"sync_member", "audit"} :
          /\ requests' = [requests EXCEPT ![r].stage = stage]
          /\ stage = "audit" => \/ old.seen \in {"synced_upstream", "completed"}
                                \/ old.step /= "local_committed"
    <3>1. CASE old.step = "local_committed"
      BY <1>2, <3>1, AfterCommitSound DEF Mark, Goto, RequestType
    <3>2. CASE old.step /= "local_committed"
      BY <1>10, <3>2 DEF Mark, Goto
    <3> QED BY <3>1, <3>2
  <2> DEFINE q == [old EXCEPT !.stage = stage]
  <2>2. /\ q \in RequestType /\ q.stage = stage /\ q.call = old.call
        /\ q.result = old.result /\ q.seen = old.seen
        /\ requests' = [requests EXCEPT ![r] = q]
    BY <1>2, <2>1 DEF RequestType, Stages
  <2> HIDE DEF q
  <2>3. RequestWellFormed(q)
    BY <1>1, <1>2, <2>2 DEF RequestWellFormed, KindsAt
  <2>4. RequestKnows(q, did[k])
    BY <1>1, <1>2, <1>3, <2>1, <2>2 DEF RequestKnows, WorkflowStages
  <2>5. RequestKnows(q, did'[k])
    BY <1>2, <1>5, <2>4, KnowledgeGrows
  <2> QED BY <1>2, <1>5, <1>6, <1>7, <1>8, <2>2, <2>3, <2>5, HandlerStep
<1> QED BY <1>9, <1>10

LEMMA RecordFailureSound ==
  ASSUME LedgerInv, NEW r \in Requests, RecordFailure(r)
  PROVE  LedgerInv'
<1> DEFINE old == requests[r]
           k == KeyAt(r)
           row == Failure(ledger[k], old.result, old.call.role)
<1>1. /\ old.stage = "fail" /\ old.stage \in WorkflowStages
      /\ ledger' = [ledger EXCEPT ![k] = row]
      /\ requests' = [requests EXCEPT ![r] = Idle("error")]
  BY DEF RecordFailure, WorkflowStages, End
<1>2. /\ k \in Keys /\ old \in RequestType /\ RequestKnows(old, did[k])
      /\ old.call \in CallType /\ WellFormed(old.call) /\ k = KeyOf(old.call)
      /\ old.result \in {None} \union ResultType
  BY <1>1, BusyKind, Busy DEF KeyAt, RequestType
<1>3. /\ ledger[k] \in OperationType /\ RowTellsTruth(ledger[k], did[k])
  BY <1>1, <1>2 DEF LedgerInv, LedgerTyped, RowsLoaded, LedgerTellsTruth
<1>4. row = [status |-> "failed", step |-> "failed", metadata |-> old.call.role,
             result |-> IF old.result = None THEN ledger[k].result ELSE old.result]
  BY DEF Failure, Keep
<1>5. row \in OperationType
  BY <1>2, <1>3, <1>4, CallRole DEF OperationType, OperationStatuses, OperationSteps
<1>6. RowWellFormed(k, row)
  BY <1>2, <1>4, CallRole DEF RowWellFormed
<1>7. RowTellsTruth(row, did[k])
  BY <1>1, <1>2, <1>3, <1>4 DEF RowTellsTruth, RequestKnows
<1> HIDE DEF row
<1>8. /\ LedgerTyped' /\ ledger'[k] = row /\ row /= None
      /\ \A other \in Keys : other /= k => ledger'[other] = ledger[other]
  BY <1>1, <1>2, <1>5, UserMutationsAssumption DEF LedgerInv, LedgerTyped
<1>9. TablesTyped' /\ UNCHANGED did
  BY DEF RecordFailure, LedgerInv, TablesTyped
<1> QED BY <1>1, <1>6, <1>7, <1>8, <1>9, IdleWellFormed, HandlerStep DEF WorkflowStages

LEMMA FaultSound ==
  ASSUME LedgerInv, NEW r \in Requests, Fault(r) \/ Crash(r)
  PROVE  LedgerInv'
<1>1. TablesTyped' /\ UNCHANGED <<ledger, did>>
  <2>1. faults' \in 0..MaxFaults
    BY FaultsTyped, UserMutationsAssumption DEF Fault, Crash
  <2> QED BY <2>1, TablesKept DEF Fault, Crash
<1>2. CASE End(r, "error") \/ End(r, None)
  BY <1>1, <1>2, HandlerReturns
<1>3. CASE Goto(r, "fail") /\ requests[r].stage \in WorkflowStages
  BY <1>1, <1>3, FailsSound
<1> QED BY <1>2, <1>3 DEF Fault, Crash, WorkflowStages

-----------------------------------------------------------------------------
(* The theorems *)

LEMMA StepSound ==
  ASSUME LedgerInv, NEW r \in Requests, Step(r)
  PROVE  LedgerInv'
BY CheckAccessSound, CheckTargetSound, CheckAdminsSound, CheckOnboardingSound,
   ChooseOrganizationSound, SetWaitingSound, RejectSound, RejectAuditSound, LoadSound,
   CommitReadSound,
   UniqueViolationSound, CommitApprovalSound, CommitOrganizationSound, CommitRoleSound,
   CommitDeleteSound, SyncMemberSound, SyncRowSound, SyncDeleteSound, SyncInsertSound,
   SyncUpdateSound, AuditSound, MarkSound, RecordFailureSound
   DEF Step, CommitLocal, SyncUpstream

LEMMA StutterSound == LedgerInv /\ UNCHANGED vars => LedgerInv'
BY DEF vars, LedgerInv, TablesTyped, LedgerTyped, RequestsTyped, RequestsWellFormed,
       RowsLoaded, LedgerWellFormed, LedgerTellsTruth, RequestsKnow, KeyAt

LEMMA NextSound == LedgerInv /\ [Next]_vars => LedgerInv'
<1> SUFFICES ASSUME LedgerInv, Next PROVE LedgerInv'
  BY StutterSound
<1>1. ASSUME NEW r \in Requests, Begin(r) PROVE LedgerInv'
  BY <1>1, BeginSound
<1>2. ASSUME NEW r \in Requests, NEW k \in Keys, Retry(r, k) PROVE LedgerInv'
  BY <1>2, RetrySound
<1>3. ASSUME NEW r \in Requests, Step(r) PROVE LedgerInv'
  BY <1>3, StepSound
<1>4. ASSUME NEW r \in Requests, Fault(r) \/ Crash(r) PROVE LedgerInv'
  BY <1>4, FaultSound
<1>5. ASSUME NEW u \in Users, CancelWaiting(u) PROVE LedgerInv'
  BY <1>5, CancelWaitingSound
<1> QED BY <1>1, <1>2, <1>3, <1>4, <1>5 DEF Next

\* The ledger tells the truth: what a row shows as committed, synchronized or
\* completed has been done, and what a request at work takes for done, too,
\* for any number of overlapping requests, failures and crashes.
THEOREM LedgerInvariant == Spec => []LedgerInv
BY InitSound, NextSound, PTL DEF Spec

\* Every variable of the user mutations keeps its type.
THEOREM TypeCorrect == Spec => []TypeOK
<1>1. LedgerInv => TypeOK
  BY DEF LedgerInv, TypeOK, RequestsWellFormed, RequestWellFormed
<1> QED BY <1>1, LedgerInvariant, PTL

-----------------------------------------------------------------------------
(* One membership per user *)

LEMMA OneMembershipKept ==
  LedgerInv /\ OneMembershipPerUser /\ [Next]_vars => OneMembershipPerUser'
<1> SUFFICES ASSUME LedgerInv, OneMembershipPerUser, [Next]_vars,
                    NEW m \in memberships', NEW n \in memberships', m.user = n.user
             PROVE  m = n
  BY DEF OneMembershipPerUser
<1>1. CASE memberships' \subseteq memberships
  BY <1>1 DEF OneMembershipPerUser
<1>2. ASSUME NEW org, NEW user, NEW role, InsertMember(org, user, role)
      PROVE  m = n
  BY <1>2 DEF InsertMember, MembersOf, OneMembershipPerUser
<1>3. ASSUME NEW r \in Requests, CommitRole(r)
      PROVE  m = n
  <2> DEFINE c == requests[r].call
             members == MembersIn(c.org, c.user)
             Renamed(p) == [p EXCEPT !.role = NextRole(c)]
  <2>1. \A p \in members : p \in memberships /\ Renamed(p).user = p.user
    BY DEF MembersIn, MembersOf, LedgerInv, TablesTyped, MemberType
  <2>2. memberships' = (memberships \ members) \union {Renamed(p) : p \in members}
    BY <1>3 DEF CommitRole
  <2> HIDE DEF Renamed, members
  <2>3. ASSUME NEW x \in memberships'
        PROVE  \E p \in memberships : /\ p.user = x.user
                                      /\ IF p \in members THEN x = Renamed(p) ELSE x = p
    BY <2>1, <2>2
  <2> QED BY <2>3 DEF OneMembershipPerUser
<1>4. ASSUME NEW r \in Requests, Step(r)
      PROVE  \/ memberships' \subseteq memberships
             \/ \E org, user, role : InsertMember(org, user, role)
             \/ CommitRole(r)
  BY <1>4 DEF Step, CommitLocal, SyncUpstream, CheckAccess, CheckTarget, CheckAdmins,
     CheckOnboarding, ChooseOrganization, SetWaiting, Reject, RejectAudit, Load, CommitRead,
     UniqueViolation,
     CommitApproval, CommitOrganization, CommitDelete, SyncMember, SyncRow, SyncDelete,
     SyncInsert, SyncUpdate, Audit, Mark, RecordFailure, tables
<1>5. CASE UNCHANGED vars
  BY <1>1, <1>5 DEF vars
<1>6. CASE Next
  <2>1. CASE \E r \in Requests : Step(r)
    BY <1>1, <1>2, <1>3, <1>4, <2>1
  <2>2. CASE ~ \E r \in Requests : Step(r)
    BY <1>1, <1>6, <2>2 DEF Next, Begin, Retry, Start, Fault, Crash, CancelWaiting, tables
  <2> QED BY <2>1, <2>2
<1> QED BY <1>5, <1>6

\* A user never belongs to two organizations, whatever approvals and
\* foundations race for them.
THEOREM OneMembership == Spec => []OneMembershipPerUser
<1>1. Init => OneMembershipPerUser
  BY UserMutationsAssumption DEF Init, OneMembershipPerUser
<1> QED BY <1>1, OneMembershipKept, LedgerInvariant, PTL DEF Spec

-----------------------------------------------------------------------------
(* Success means done *)

\* The handlers that answer "ok", and what has been done when they do.
LEMMA OkSteps ==
  ASSUME LedgerInv, NEW r \in Requests, Step(r),
         requests[r].call.kind \in LedgerKinds, requests'[r] = Idle("ok")
  PROVE  "completed" \in did'[KeyAt(r)]
<1>1. requests[r] \in RequestType /\ requests' \in [Requests -> RequestType]
  BY StepSound DEF LedgerInv, RequestsTyped
<1>2. requests'[r].stage = "idle" /\ requests'[r].answer = "ok"
  BY DEF Idle
<1>3. ASSUME NEW stage, Goto(r, stage) PROVE stage = "idle"
  BY <1>1, <1>2, <1>3 DEF Goto, LedgerInv, RequestsTyped, RequestType
<1>4. ASSUME NEW answer, End(r, answer) PROVE answer = "ok"
  BY <1>1, <1>2, <1>4 DEF End, LedgerInv, RequestsTyped, Idle
<1>5. CASE Load(r)
  <2> DEFINE c == requests[r].call
             k == KeyOf(c)
             operation == IF ledger[k] = None THEN NewOperation(c.role) ELSE ledger[k]
  <2>1. requests[r].stage = "load" /\ did' = did /\ k = KeyAt(r)
    BY <1>5 DEF Load, KeyAt
  <2>2. /\ k \in Keys /\ requests[r] \in RequestType /\ RequestWellFormed(requests[r])
    BY <2>1, BusyKind, Busy DEF KeyAt
  <2>3. CASE AlreadyCompleted(c.kind, operation)
    <3>1. operation.status = "completed"
      BY <2>3 DEF AlreadyCompleted
    <3>2. ledger[k] /= None
      BY <3>1 DEF NewOperation
    <3> QED BY <2>1, <2>2, <3>1, <3>2 DEF LedgerInv, LedgerTellsTruth, RowTellsTruth
  <2>4. CASE ~AlreadyCompleted(c.kind, operation)
    <3>1. ledger[k] /= None => RowWellFormed(k, ledger[k]) /\ ledger[k] \in OperationType
      BY <2>2 DEF LedgerInv, LedgerWellFormed, LedgerTyped
    <3>2. /\ operation.step \in OperationSteps
          /\ operation.step \in {"local_committed", "synced_upstream", "completed"}
               => operation.result /= None
      BY <3>1 DEF NewOperation, OperationSteps, OperationType, RowWellFormed
    <3> DEFINE stage == FirstStage(c.kind, operation.step, operation.result)
    <3>3. stage \in {"commit", "write", "sync_member", "audit"}
      BY <3>2, FirstStageSound
    <3>4. requests' = [requests EXCEPT
             ![r].stage = stage, ![r].seen = operation.step, ![r].result = operation.result]
      BY <1>5, <2>4 DEF Load
    <3> HIDE DEF stage, operation
    <3>5. requests'[r].stage = stage
      BY <1>1, <3>4 DEF LedgerInv, RequestsTyped, RequestType
    <3> QED BY <1>2, <3>3, <3>5
  <2> QED BY <2>3, <2>4
<1>6. CASE Mark(r)
  <2>1. KeyAt(r) \in Keys /\ requests[r].result /= None
    BY <1>6, Syncing, UserMutationsAssumption DEF CommittedStages, Mark
  <2>2. CASE requests[r].step = "completed"
    BY <1>6, <2>1, <2>2 DEF Mark, LedgerInv, TablesTyped
  <2>3. CASE requests[r].step /= "completed"
    <3>1. \E stage \in {"sync_member", "audit"} : Goto(r, stage)
      BY <1>6, <2>3, <1>1, <2>1, AfterCommitSound DEF Mark, RequestType
    <3> QED BY <1>3, <3>1
  <2> QED BY <2>2, <2>3
<1>7. CASE ChooseOrganization(r) \/ SetWaiting(r) \/ Reject(r) \/ RejectAudit(r)
  <2>1. requests[r].stage \in {"choose", "wait", "reject", "reject_audit"}
    BY <1>7 DEF ChooseOrganization, SetWaiting, Reject, RejectAudit
  <2>2. requests[r].call.kind \in {"set_waiting", "reject_user"}
    BY <2>1, Busy DEF Stages, KindsAt
  <2> QED BY <2>2 DEF LedgerKinds
<1>8. CASE CheckAccess(r) \/ CheckTarget(r) \/ CheckAdmins(r) \/ CheckOnboarding(r)
  BY <1>3, <1>4, <1>8 DEF CheckAccess, CheckTarget, CheckAdmins, CheckOnboarding
<1>9. CASE RecordFailure(r)
  BY <1>4, <1>9 DEF RecordFailure
<1>10. CASE CommitLocal(r)
  <2>1. CASE UniqueViolation(r)
    BY <1>3, <2>1 DEF UniqueViolation
  <2>2. ASSUME NEW result, Committed(r, result) PROVE FALSE
    BY <1>1, <1>2, <2>2 DEF Committed, LedgerInv, RequestsTyped, RequestType
  <2> QED BY <1>10, <2>1, <2>2 DEF CommitLocal, CommitApproval, CommitOrganization,
          CommitRole, CommitDelete
<1>11. CASE SyncUpstream(r)
  <2>1. ASSUME NEW result, Synchronized(r, result) PROVE FALSE
    BY <1>1, <1>2, <2>1 DEF Synchronized, LedgerInv, RequestsTyped, RequestType
  <2>2. CASE SyncMember(r)
    BY <1>1, <1>2, <1>3, <2>2 DEF SyncMember, LedgerInv, RequestsTyped, RequestType
  <2>3. CASE SyncRow(r)
    BY <1>1, <1>2, <1>3, <2>3 DEF SyncRow, LedgerInv, RequestsTyped, RequestType
  <2>4. CASE SyncDelete(r) \/ SyncInsert(r) \/ SyncUpdate(r)
    BY <1>3, <2>1, <2>4 DEF SyncDelete, SyncInsert, SyncUpdate
  <2> QED BY <1>11, <2>2, <2>3, <2>4 DEF SyncUpstream
<1>12. CASE CommitRead(r) \/ Audit(r)
  BY <1>1, <1>2, <1>12 DEF CommitRead, Audit, LedgerInv, RequestsTyped, RequestType
<1> QED BY <1>5, <1>6, <1>7, <1>8, <1>9, <1>10, <1>11, <1>12 DEF Step

\* A step of one handler leaves the slots of the others alone.
LEMMA OthersKept ==
  ASSUME LedgerInv, NEW r \in Requests, Step(r), NEW p \in Requests, p /= r
  PROVE  requests'[p] = requests[p]
BY DEF Step, CommitLocal, SyncUpstream, CheckAccess, CheckTarget, CheckAdmins,
   CheckOnboarding, ChooseOrganization, SetWaiting, Reject, RejectAudit, Load, CommitRead,
   UniqueViolation,
   CommitApproval, CommitOrganization, CommitRole, CommitDelete, SyncMember, SyncRow,
   SyncDelete, SyncInsert, SyncUpdate, Audit, Mark, RecordFailure, Goto, End, Committed,
   Synchronized, LedgerInv, RequestsTyped

\* What SuccessMeansDone says of one step.
LEMMA SuccessStep ==
  ASSUME LedgerInv, [Next]_vars, NEW r \in Requests,
         requests[r].call /= None, requests[r].call.kind \in LedgerKinds,
         requests'[r] = Idle("ok")
  PROVE  "completed" \in did'[KeyAt(r)]
<1>1. requests'[r] /= requests[r]
  BY DEF Idle
<1>2. requests'[r].answer = "ok" /\ requests'[r].stage = "idle"
  BY DEF Idle
<1>3. requests \in [Requests -> RequestType] /\ requests[r].stage /= "idle"
  BY DEF LedgerInv, RequestsTyped, RequestsWellFormed, RequestWellFormed
<1>4. ASSUME NEW p \in Requests, Step(p) PROVE "completed" \in did'[KeyAt(r)]
  BY <1>1, <1>4, OkSteps, OthersKept
<1>5. ASSUME NEW p \in Requests, NEW c, Start(p, c) PROVE FALSE
  BY <1>1, <1>3, <1>5 DEF Start
<1>6. ASSUME NEW p \in Requests, Fault(p) \/ Crash(p) PROVE FALSE
  <2>1. p = r
    BY <1>1, <1>3, <1>6 DEF Fault, Crash, Goto, End
  <2>2. CASE Goto(r, "fail")
    BY <1>2, <1>3, <2>2 DEF Goto, RequestType
  <2>3. CASE End(r, "error") \/ End(r, None)
    BY <1>2, <1>3, <2>3, UserMutationsAssumption DEF End, Idle
  <2> QED BY <1>6, <2>1, <2>2, <2>3 DEF Fault, Crash
<1>7. ASSUME NEW u \in Users, CancelWaiting(u) PROVE FALSE
  BY <1>1, <1>7 DEF CancelWaiting
<1>8. CASE UNCHANGED vars
  BY <1>1, <1>8 DEF vars
<1> QED BY <1>4, <1>5, <1>6, <1>7, <1>8 DEF Next, Begin, Retry

\* A call of a mutation answered with success has had its whole effect: it is
\* never answered from a ledger row that claims more than was done.
THEOREM SuccessIsDone == Spec => SuccessMeansDone
<1>1. LedgerInv /\ [Next]_vars =>
        [\A r \in Requests :
           /\ requests[r].call /= None
           /\ requests[r].call.kind \in LedgerKinds
           /\ requests'[r] = Idle("ok")
           => "completed" \in did'[KeyAt(r)]]_vars
  BY SuccessStep
<1> QED BY <1>1, LedgerInvariant, PTL DEF Spec, SuccessMeansDone

-----------------------------------------------------------------------------
(* The ledger keeps its promise *)

\* What each step of a handler does to the effects of its operation.
LEMMA EffectOfStep ==
  ASSUME LedgerInv, NEW r \in Requests, Step(r)
  PROVE  \/ did' = did
         \/ /\ KeyAt(r) \in Keys
            /\ \/ Promise!CommitLocal(KeyAt(r))
               \/ Promise!SynchronizeMirror(KeyAt(r))
               \/ Promise!Complete(KeyAt(r))
<1>1. CASE CommitLocal(r)
  <2>1. requests[r].stage = "write"
    BY <1>1 DEF CommitLocal, UniqueViolation, CommitApproval, CommitOrganization, CommitRole,
                CommitDelete
  <2>2. KeyAt(r) \in Keys
    BY <2>1, BusyKind DEF WorkflowStages
  <2> QED BY <1>1, <2>2 DEF CommitLocal, UniqueViolation, CommitApproval, CommitOrganization,
          CommitRole, CommitDelete, Committed, tables, Promise!CommitLocal, Promise!Perform
<1>2. CASE SyncDelete(r) \/ SyncInsert(r) \/ SyncUpdate(r)
  <2>1. requests[r].stage = "sync_write"
    BY <1>2 DEF SyncDelete, SyncInsert, SyncUpdate
  <2>2. KeyAt(r) \in Keys /\ "local" \in did[KeyAt(r)]
    BY <2>1, Syncing DEF CommittedStages
  <2> QED BY <1>2, <2>2 DEF SyncDelete, SyncInsert, SyncUpdate, Synchronized,
          Promise!SynchronizeMirror, Promise!Perform
<1>3. CASE Mark(r)
  <2>1. requests[r].stage = "mark"
    BY <1>3 DEF Mark
  <2>2. /\ KeyAt(r) \in Keys /\ "local" \in did[KeyAt(r)]
        /\ RequestKnows(requests[r], did[KeyAt(r)])
    BY <2>1, Syncing DEF CommittedStages
  <2>3. CASE requests[r].step = "completed"
    <3>1. "mirror" \in did[KeyAt(r)]
      BY <2>1, <2>2, <2>3 DEF RequestKnows, WorkflowStages
    <3>2. did' = [did EXCEPT ![KeyAt(r)] = @ \union {"completed"}]
      BY <1>3, <2>3 DEF Mark
    <3> QED BY <2>2, <3>1, <3>2 DEF Promise!Complete, Promise!Perform
  <2>4. CASE requests[r].step /= "completed"
    BY <1>3, <2>4 DEF Mark
  <2> QED BY <2>3, <2>4
<1>4. CASE ~(CommitLocal(r) \/ SyncDelete(r) \/ SyncInsert(r) \/ SyncUpdate(r) \/ Mark(r))
  BY <1>4 DEF Step, SyncUpstream, CheckAccess, CheckTarget, CheckAdmins, CheckOnboarding,
     ChooseOrganization, SetWaiting, Reject, RejectAudit, Load, CommitRead, SyncMember,
     SyncRow, Audit,
     RecordFailure, tables
<1> QED BY <1>1, <1>2, <1>3, <1>4

\* The user mutations implement DurableMutation: whatever overlaps, fails and
\* is retried, no operation touches the mirror before its local commit is done
\* or is declared complete before both.
THEOREM PromiseKept == Spec => EffectsInOrder
<1>1. Init => Promise!Init
  BY DEF Init, Promise!Init
<1>2. LedgerInv /\ [Next]_vars => [Promise!Next]_did
  <2> SUFFICES ASSUME LedgerInv, [Next]_vars, did' /= did PROVE Promise!Next
    OBVIOUS
  <2>1. CASE \E r \in Requests : Step(r)
    BY <2>1, EffectOfStep DEF Promise!Next
  <2>2. CASE ~ \E r \in Requests : Step(r)
    BY <2>2 DEF Next, Begin, Retry, Start, Fault, Crash, CancelWaiting, tables, vars
  <2> QED BY <2>1, <2>2
<1> QED BY <1>1, <1>2, LedgerInvariant, PTL DEF Spec, EffectsInOrder, Promise!Spec

-----------------------------------------------------------------------------
(* One handler at a time *)

\* What follows holds only while handlers do not overlap: nothing in the code
\* keeps them apart, and the runs named in README.md break each of it.
OneAtATime ==
  \A r, p \in Requests : requests[r].stage # "idle" /\ requests[p].stage # "idle" => r = p

\* Who is at work, and where it goes.
LEMMA OthersIdle ==
  ASSUME LedgerInv, OneAtATime, NEW r \in Requests, Step(r), NEW p \in Requests, p # r
  PROVE  requests'[p] = requests[p] /\ requests[p].stage = "idle"
<1>1. requests[r].stage # "idle"
  BY DEF Step, CommitLocal, SyncUpstream, CheckAccess, CheckTarget, CheckAdmins, CheckOnboarding,
     ChooseOrganization, SetWaiting, Reject, RejectAudit, Load, CommitRead, UniqueViolation,
     CommitApproval, CommitOrganization, CommitRole, CommitDelete, SyncMember, SyncRow,
     SyncDelete, SyncInsert, SyncUpdate, Audit, Mark, RecordFailure
<1> QED BY <1>1, OthersKept DEF OneAtATime

LEMMA GoneTo ==
  ASSUME LedgerInv, NEW r \in Requests, NEW stage, Goto(r, stage)
  PROVE  /\ requests'[r].stage = stage /\ requests'[r].call = requests[r].call
         /\ requests'[r].seen = requests[r].seen /\ requests'[r].result = requests[r].result
         /\ requests'[r].step = requests[r].step /\ requests'[r].role = requests[r].role
         /\ requests'[r].row = requests[r].row
         /\ \A p \in Requests : p # r => requests'[p] = requests[p]
BY DEF Goto, LedgerInv, RequestsTyped, RequestType

LEMMA Ended ==
  ASSUME LedgerInv, NEW r \in Requests, NEW answer, End(r, answer)
  PROVE  /\ requests'[r].stage = "idle"
         /\ requests'[r].role = None /\ requests'[r].row = None
         /\ \A p \in Requests : p # r => requests'[p] = requests[p]
BY DEF End, LedgerInv, RequestsTyped, Idle

LEMMA Started ==
  ASSUME LedgerInv, NEW r \in Requests, NEW c, Start(r, c)
  PROVE  /\ requests'[r] = [Idle(None) EXCEPT !.stage = EntryStage(c.kind), !.call = c]
         /\ requests'[r].stage \in {"access", "onboard", "reject", "load"}
         /\ requests'[r].stage = "load" =>
              c.kind \notin {"assign_role", "revoke_role", "delete_user"}
         /\ requests'[r].call = c
         /\ requests'[r].role = None /\ requests'[r].row = None
         /\ \A p \in Requests : p # r => requests'[p] = requests[p]
         /\ UNCHANGED <<tables, faults>>
<1>1. /\ requests'[r] = [Idle(None) EXCEPT !.stage = EntryStage(c.kind), !.call = c]
      /\ \A p \in Requests : p # r => requests'[p] = requests[p]
      /\ UNCHANGED <<tables, faults>>
  BY DEF Start, LedgerInv, RequestsTyped
<1>2. /\ requests'[r].stage = EntryStage(c.kind) /\ requests'[r].call = c
      /\ requests'[r].role = None /\ requests'[r].row = None
  BY <1>1 DEF Idle
<1>3. /\ EntryStage(c.kind) \in {"access", "onboard", "reject", "load"}
      /\ EntryStage(c.kind) = "load" =>
           c.kind \notin {"assign_role", "revoke_role", "delete_user"}
  BY DEF EntryStage
<1> QED BY <1>1, <1>2, <1>3

\* A handler that fails or dies leaves the tables as they are.
LEMMA Failed ==
  ASSUME LedgerInv, NEW r \in Requests, Fault(r) \/ Crash(r)
  PROVE  /\ requests'[r].stage \in {"idle", "fail"}
         /\ requests'[r].stage = "fail" =>
              /\ requests[r].stage \in WorkflowStages
              /\ requests'[r].call = requests[r].call
         /\ \A p \in Requests : p # r => requests'[p] = requests[p]
         /\ UNCHANGED tables
<1>1. CASE Goto(r, "fail") /\ requests[r].stage \in
             {"commit", "write", "sync_member", "sync_row", "sync_write", "audit", "mark"}
  BY <1>1, GoneTo DEF Fault, Crash, WorkflowStages
<1>2. CASE End(r, "error") \/ End(r, None)
  BY <1>2, Ended DEF Fault, Crash
<1> QED BY <1>1, <1>2 DEF Fault, Crash

-----------------------------------------------------------------------------
(* Members do not wait *)

\* Who asks to wait is still without a membership when the row is written.
WaitInv ==
  /\ MembersDoNotWait
  /\ \A r \in Requests :
       requests[r].stage \in {"choose", "wait"} => MembersOf(requests[r].call.user) = {}

\* The steps that touch neither table nor lead to the waiting list.
LEMMA ElsewhereKeepsWait ==
  ASSUME WaitInv, NEW r \in Requests, memberships' = memberships,
         \A u \in Users : waiting'[u] \in {waiting[u], None},
         requests'[r].stage \in {"choose", "wait"} => MembersOf(requests'[r].call.user) = {},
         \A p \in Requests : p # r => requests'[p] = requests[p]
  PROVE  WaitInv'
BY DEF WaitInv, MembersDoNotWait, MembersOf

LEMMA WaitingSteps ==
  ASSUME LedgerInv, WaitInv, OneAtATime, NEW r \in Requests,
         CheckOnboarding(r) \/ ChooseOrganization(r) \/ SetWaiting(r) \/ Reject(r)
  PROVE  WaitInv'
<1> DEFINE c == requests[r].call
<1>1. CASE CheckOnboarding(r)
  <2>1. memberships' = memberships /\ waiting' = waiting
    BY <1>1 DEF CheckOnboarding, tables
  <2>2. CASE MembersOf(c.user) # {}
    BY <1>1, <2>1, <2>2, Ended, ElsewhereKeepsWait DEF CheckOnboarding
  <2>3. CASE MembersOf(c.user) = {}
    <3>1. \E stage : Goto(r, stage)
      BY <1>1, <2>3 DEF CheckOnboarding
    <3>2. requests'[r].call = c /\ \A p \in Requests : p # r => requests'[p] = requests[p]
      BY <3>1, GoneTo
    <3> QED BY <2>1, <2>3, <3>2, ElsewhereKeepsWait
  <2> QED BY <2>2, <2>3
<1>2. CASE ChooseOrganization(r)
  <2>1. memberships' = memberships /\ waiting' = waiting /\ MembersOf(c.user) = {}
    BY <1>2 DEF ChooseOrganization, tables, WaitInv
  <2>2. CASE \E answer : End(r, answer)
    BY <2>1, <2>2, Ended, ElsewhereKeepsWait
  <2>3. CASE Goto(r, "wait")
    BY <2>1, <2>3, GoneTo, ElsewhereKeepsWait
  <2>4. CASE \E org \in organizations :
               requests' = [requests EXCEPT ![r].stage = "wait", ![r].call.org = org]
    <3>1. requests[r] \in RequestType /\ c \in CallType
      BY <1>2, Busy DEF ChooseOrganization, Stages
    <3>2. /\ requests'[r].call.user = c.user
          /\ \A p \in Requests : p # r => requests'[p] = requests[p]
      BY <2>4, <3>1 DEF LedgerInv, RequestsTyped, RequestType, CallType
    <3> QED BY <2>1, <3>2, ElsewhereKeepsWait
  <2> QED BY <1>2, <2>2, <2>3, <2>4 DEF ChooseOrganization
<1>3. CASE SetWaiting(r)
  <2>1. /\ memberships' = memberships /\ MembersOf(c.user) = {}
        /\ requests'[r].stage = "idle"
        /\ \A p \in Requests : p # r => requests'[p] = requests[p]
    BY <1>3, Ended DEF SetWaiting, WaitInv
  <2>2. \A u \in Users : u # c.user => waiting'[u] = waiting[u]
    BY <1>3 DEF SetWaiting, LedgerInv, TablesTyped
  <2> QED BY <2>1, <2>2 DEF WaitInv, MembersDoNotWait, MembersOf
<1>4. CASE Reject(r)
  <2>1. \E stage : requests'[r].stage = stage /\ stage \notin {"choose", "wait"}
    BY <1>4, Ended, GoneTo DEF Reject
  <2>2. \A p \in Requests : p # r => requests'[p] = requests[p]
    BY <1>4, Ended, GoneTo DEF Reject
  <2>3. memberships' = memberships /\ \A u \in Users : waiting'[u] \in {waiting[u], None}
    BY <1>4 DEF Reject, LedgerInv, TablesTyped
  <2> QED BY <2>1, <2>2, <2>3, ElsewhereKeepsWait
<1> QED BY <1>1, <1>2, <1>3, <1>4

\* Whoever becomes a member leaves the waiting list with the same write.
LEMMA InsertKeepsWait ==
  ASSUME LedgerInv, WaitInv, OneAtATime, NEW r \in Requests, Step(r),
         requests'[r].stage \notin {"choose", "wait"},
         NEW org, NEW user \in Users, NEW role, InsertMember(org, user, role)
  PROVE  WaitInv'
<1>1. \A u \in Users : waiting'[u] = IF u = user THEN None ELSE waiting[u]
  BY DEF InsertMember, LedgerInv, TablesTyped
<1>2. \A u \in Users : u # user => MembersOf(u)' = MembersOf(u)
  BY DEF InsertMember, MembersOf
<1>3. MembersDoNotWait'
  BY <1>1, <1>2 DEF WaitInv, MembersDoNotWait
<1>4. \A p \in Requests : requests'[p].stage \notin {"choose", "wait"}
  BY OthersIdle
<1> QED BY <1>3, <1>4 DEF WaitInv

\* A role change and a deletion make nobody a member who was not one.
LEMMA LeavingKeepsWait ==
  ASSUME LedgerInv, WaitInv, OneAtATime, NEW r \in Requests, Step(r),
         requests'[r].stage \notin {"choose", "wait"}, waiting' = waiting,
         \A m \in memberships' : \E n \in memberships : n.user = m.user
  PROVE  WaitInv'
<1>1. \A p \in Requests : requests'[p].stage \notin {"choose", "wait"}
  BY OthersIdle
<1>2. MembersDoNotWait'
  BY DEF WaitInv, MembersDoNotWait, MembersOf
<1> QED BY <1>1, <1>2 DEF WaitInv

\* What a commit leaves in the handler's slot.
LEMMA CommittedTo ==
  ASSUME LedgerInv, NEW r \in Requests, NEW result, Committed(r, result)
  PROVE  /\ requests'[r].stage = "mark" /\ requests'[r].step = "local_committed"
         /\ requests'[r].result = result /\ requests'[r].role = None
         /\ requests'[r].call = requests[r].call /\ requests'[r].seen = requests[r].seen
         /\ requests'[r].row = requests[r].row
         /\ \A p \in Requests : p # r => requests'[p] = requests[p]
         /\ UNCHANGED <<mirror, ledger>>
BY DEF Committed, LedgerInv, RequestsTyped, RequestType

LEMMA CommitKeepsWait ==
  ASSUME LedgerInv, WaitInv, OneAtATime, NEW r \in Requests, CommitLocal(r)
  PROVE  WaitInv'
<1> DEFINE c == requests[r].call
<1>1. Step(r)
  BY DEF Step
<1>2. CASE UniqueViolation(r)
  <2>1. requests'[r].stage = "fail" /\ memberships' = memberships /\ waiting' = waiting
    BY <1>2, GoneTo DEF UniqueViolation, tables
  <2> QED BY <1>1, <2>1, OthersIdle, ElsewhereKeepsWait
<1>3. c \in CallType
  <2>1. requests[r].stage \in Stages
    BY DEF CommitLocal, UniqueViolation, CommitApproval, CommitOrganization, CommitRole,
       CommitDelete, Stages
  <2> QED BY <2>1, Busy
<1>4. CASE CommitApproval(r)
  <2>1. requests'[r].stage = "mark" /\ InsertMember(c.org, c.user, c.role)
    BY <1>4, CommittedTo DEF CommitApproval
  <2> QED BY <1>1, <1>3, <2>1, InsertKeepsWait DEF CallType
<1>5. CASE CommitOrganization(r)
  <2>1. PICK org \in Orgs : InsertMember(org, c.user, "admin")
    BY <1>5 DEF CommitOrganization
  <2>2. requests'[r].stage = "mark"
    BY <1>5, CommittedTo DEF CommitOrganization
  <2> QED BY <1>1, <1>3, <2>1, <2>2, InsertKeepsWait DEF CallType
<1>6. CASE CommitRole(r)
  <2>1. requests'[r].stage = "mark" /\ waiting' = waiting
    BY <1>6, CommittedTo DEF CommitRole
  <2>2. ASSUME NEW m \in memberships' PROVE \E n \in memberships : n.user = m.user
    <3>1. CASE m \in memberships
      BY <3>1
    <3>2. CASE m \notin memberships
      <4>1. PICK n \in MembersIn(c.org, c.user) : m = [n EXCEPT !.role = NextRole(c)]
        BY <1>6, <3>2 DEF CommitRole
      <4>2. n \in memberships /\ n \in MemberType
        BY DEF MembersIn, MembersOf, LedgerInv, TablesTyped
      <4>3. n.user = m.user
        BY <4>1, <4>2 DEF MemberType
      <4> QED BY <4>2, <4>3
    <3> QED BY <3>1, <3>2
  <2> QED BY <1>1, <2>1, <2>2, LeavingKeepsWait
<1>7. CASE CommitDelete(r)
  <2>1. /\ requests'[r].stage = "mark" /\ waiting' = waiting
        /\ memberships' \subseteq memberships
    BY <1>7, CommittedTo DEF CommitDelete
  <2>2. \A m \in memberships' : \E n \in memberships : n.user = m.user
    BY <2>1
  <2> QED BY <1>1, <2>1, <2>2, LeavingKeepsWait
<1> QED BY <1>2, <1>4, <1>5, <1>6, <1>7 DEF CommitLocal

\* The steps of the workflow that are not its commit.
LEMMA SynchronizedTo ==
  ASSUME LedgerInv, NEW r \in Requests, NEW result, Synchronized(r, result)
  PROVE  /\ requests'[r].stage = "mark" /\ requests'[r].step = "synced_upstream"
         /\ requests'[r].result = result /\ requests'[r].role = None /\ requests'[r].row = None
         /\ requests'[r].call = requests[r].call /\ requests'[r].seen = requests[r].seen
         /\ \A p \in Requests : p # r => requests'[p] = requests[p]
BY DEF Synchronized, LedgerInv, RequestsTyped, RequestType

LEMMA WorkflowStays ==
  ASSUME LedgerInv, NEW r \in Requests,
         CheckAccess(r) \/ CheckTarget(r) \/ CheckAdmins(r) \/ RejectAudit(r) \/ Load(r)
           \/ CommitRead(r) \/ SyncUpstream(r) \/ Audit(r) \/ Mark(r) \/ RecordFailure(r)
  PROVE  /\ requests'[r].stage \notin {"choose", "wait"}
         /\ UNCHANGED <<memberships, organizations, waiting>>
<1>1. CASE CheckAccess(r) \/ CheckTarget(r) \/ CheckAdmins(r) \/ RejectAudit(r) \/ RecordFailure(r)
  BY <1>1, GoneTo, Ended DEF CheckAccess, CheckTarget, CheckAdmins, RejectAudit, RecordFailure, tables
<1>2. CASE Load(r)
  <2> DEFINE c == requests[r].call
             operation == IF ledger[KeyOf(c)] = None THEN NewOperation(c.role) ELSE ledger[KeyOf(c)]
  <2>1. CASE \E answer : End(r, answer)
    BY <1>2, <2>1, Ended DEF Load
  <2>2. CASE requests' = [requests EXCEPT
            ![r].stage = FirstStage(c.kind, operation.step, operation.result),
            ![r].seen = operation.step,
            ![r].result = operation.result]
    <3>1. requests'[r].stage = FirstStage(c.kind, operation.step, operation.result)
      BY <2>2 DEF LedgerInv, RequestsTyped, RequestType
    <3>2. FirstStage(c.kind, operation.step, operation.result) \notin {"choose", "wait"}
      BY DEF FirstStage, CommitStage, AfterCommit
    <3> QED BY <1>2, <3>1, <3>2 DEF Load
  <2> QED BY <1>2, <2>1, <2>2 DEF Load
<1>3. CASE CommitRead(r)
  <2>1. requests'[r].stage \in {"write", "fail"}
    BY <1>3 DEF CommitRead, LedgerInv, RequestsTyped, RequestType
  <2> QED BY <1>3, <2>1 DEF CommitRead, tables
<1>4. CASE SyncUpstream(r)
  <2>1. CASE SyncMember(r)
    <3>1. CASE Goto(r, "sync_write")
      BY <2>1, <3>1, GoneTo DEF SyncMember, tables
    <3>2. CASE ~Goto(r, "sync_write")
      <4>1. requests'[r].stage = "sync_row"
        BY <2>1, <3>2 DEF SyncMember, LedgerInv, RequestsTyped, RequestType
      <4> QED BY <2>1, <4>1 DEF SyncMember, tables
    <3> QED BY <3>1, <3>2
  <2>2. CASE SyncRow(r)
    <3>1. CASE Goto(r, "sync_write")
      BY <2>2, <3>1, GoneTo DEF SyncRow, tables
    <3>2. CASE ~Goto(r, "sync_write")
      <4>1. requests'[r].stage = "sync_write"
        BY <2>2, <3>2 DEF SyncRow, LedgerInv, RequestsTyped, RequestType
      <4> QED BY <2>2, <4>1 DEF SyncRow, tables
    <3> QED BY <3>1, <3>2
  <2>3. CASE SyncDelete(r) \/ SyncInsert(r) \/ SyncUpdate(r)
    <3>1. Goto(r, "fail") \/ \E result : Synchronized(r, result)
      BY <2>3 DEF SyncDelete, SyncInsert, SyncUpdate
    <3>2. requests'[r].stage \in {"fail", "mark"}
      BY <3>1, GoneTo, SynchronizedTo
    <3> QED BY <2>3, <3>2 DEF SyncDelete, SyncInsert, SyncUpdate
  <2> QED BY <1>4, <2>1, <2>2, <2>3 DEF SyncUpstream
<1>5. CASE Audit(r)
  <2>1. requests'[r].stage = "mark"
    BY <1>5 DEF Audit, LedgerInv, RequestsTyped, RequestType
  <2> QED BY <1>5, <2>1 DEF Audit
<1>6. CASE Mark(r)
  <2>1. \/ End(r, "ok")
        \/ Goto(r, AfterCommit(requests[r].seen, requests[r].result))
        \/ Goto(r, "audit")
    BY <1>6 DEF Mark
  <2>2. AfterCommit(requests[r].seen, requests[r].result) \in {"sync_member", "audit"}
    BY DEF AfterCommit
  <2>3. requests'[r].stage \in {"idle", "sync_member", "audit"}
    BY <2>1, <2>2, GoneTo, Ended
  <2> QED BY <1>6, <2>3 DEF Mark
<1> QED BY <1>1, <1>2, <1>3, <1>4, <1>5, <1>6

\* Whatever step is taken, by the only handler at work or around it.
LEMMA WaitKept ==
  ASSUME LedgerInv, WaitInv, OneAtATime, [Next]_vars
  PROVE  WaitInv'
<1>1. ASSUME NEW r \in Requests, Step(r) PROVE WaitInv'
  <2>1. CASE CheckOnboarding(r) \/ ChooseOrganization(r) \/ SetWaiting(r) \/ Reject(r)
    BY <2>1, WaitingSteps
  <2>2. CASE CommitLocal(r)
    BY <2>2, CommitKeepsWait
  <2>3. CASE CheckAccess(r) \/ CheckTarget(r) \/ CheckAdmins(r) \/ RejectAudit(r) \/ Load(r)
               \/ CommitRead(r) \/ SyncUpstream(r) \/ Audit(r) \/ Mark(r) \/ RecordFailure(r)
    <3>1. /\ requests'[r].stage \notin {"choose", "wait"}
          /\ memberships' = memberships /\ waiting' = waiting
      BY <2>3, WorkflowStays
    <3> QED BY <1>1, <3>1, OthersIdle, ElsewhereKeepsWait
  <2> QED BY <1>1, <2>1, <2>2, <2>3 DEF Step
<1>2. ASSUME NEW r \in Requests, NEW c, Start(r, c) PROVE WaitInv'
  <2>1. /\ requests'[r].stage \notin {"choose", "wait"}
        /\ memberships' = memberships /\ waiting' = waiting
        /\ \A p \in Requests : p # r => requests'[p] = requests[p]
    BY <1>2, Started DEF tables
  <2> QED BY <2>1, ElsewhereKeepsWait
<1>3. ASSUME NEW r \in Requests, Fault(r) \/ Crash(r) PROVE WaitInv'
  <2>1. /\ requests'[r].stage \notin {"choose", "wait"}
        /\ memberships' = memberships /\ waiting' = waiting
        /\ \A p \in Requests : p # r => requests'[p] = requests[p]
    BY <1>3, Failed DEF tables
  <2> QED BY <2>1, ElsewhereKeepsWait
<1>4. ASSUME NEW u \in Users, CancelWaiting(u) PROVE WaitInv'
  BY <1>4 DEF CancelWaiting, WaitInv, MembersDoNotWait, MembersOf, LedgerInv, TablesTyped
<1>5. CASE UNCHANGED vars
  BY <1>5 DEF vars, WaitInv, MembersDoNotWait, MembersOf
<1> QED BY <1>1, <1>2, <1>3, <1>4, <1>5 DEF Next, Begin, Retry

\* While handlers do not overlap, joining an organization takes the user off
\* the waiting list for good.
THEOREM MembersLeaveTheList == Spec /\ []OneAtATime => []MembersDoNotWait
<1>1. Init => WaitInv
  BY DEF Init, WaitInv, MembersDoNotWait, Idle
<1> QED BY <1>1, WaitKept, LedgerInvariant, PTL DEF Spec, WaitInv

-----------------------------------------------------------------------------
(* Organizations keep an administrator *)

\* The call takes the role of an administrator from a member who has it.
LosesAdmin(c) ==
  /\ c.kind \in {"assign_role", "revoke_role", "delete_user"} /\ NextRole(c) # "admin"
  /\ \E m \in MembersIn(c.org, c.user) : m.role = "admin"

AnotherAdmin(c) == \E a \in AdminsOf(c.org) : a.user # c.user

\* What the count of administrators let pass still holds when the call writes.
AdminInv ==
  /\ OrgKeepsAdmin
  /\ \A r \in Requests :
       requests[r].stage \in {"load", "commit", "write"} /\ LosesAdmin(requests[r].call)
         => AnotherAdmin(requests[r].call)

LEMMA ElsewhereKeepsAdmins ==
  ASSUME AdminInv, NEW r \in Requests, memberships' = memberships,
         organizations' = organizations,
         requests'[r].stage \in {"load", "commit", "write"} =>
           \/ requests[r].stage \in {"load", "commit", "write"} /\ requests'[r].call = requests[r].call
           \/ LosesAdmin(requests'[r].call) => AnotherAdmin(requests'[r].call),
         \A p \in Requests : p # r => requests'[p] = requests[p]
  PROVE  AdminInv'
<1>1. \A c : (LosesAdmin(c) => AnotherAdmin(c)) => (LosesAdmin(c) => AnotherAdmin(c))'
  BY DEF LosesAdmin, AnotherAdmin, MembersIn, MembersOf, AdminsOf
<1>2. OrgKeepsAdmin'
  BY DEF AdminInv, OrgKeepsAdmin, AdminsOf
<1>3. ASSUME NEW p \in Requests, requests'[p].stage \in {"load", "commit", "write"}
      PROVE  (LosesAdmin(requests[p].call) => AnotherAdmin(requests[p].call))'
  <2>1. PICK c : c = requests'[p].call
    OBVIOUS
  <2>2. LosesAdmin(c) => AnotherAdmin(c)
    BY <1>3, <2>1 DEF AdminInv
  <2>3. (LosesAdmin(c) => AnotherAdmin(c))'
    BY <1>1, <2>2
  <2> QED BY <2>1, <2>3 DEF LosesAdmin, AnotherAdmin, MembersIn, MembersOf, AdminsOf
<1> QED BY <1>2, <1>3 DEF AdminInv

\* An organization whose administrators are all the same user has only one.
LEMMA CountFindsAnother ==
  ASSUME OneMembershipPerUser, NEW org, NEW user, ~(Cardinality(AdminsOf(org)) <= 1)
  PROVE  \E a \in AdminsOf(org) : a.user # user
<1>1. SUFFICES ASSUME \A a \in AdminsOf(org) : a.user = user PROVE FALSE
  OBVIOUS
<1>2. CASE AdminsOf(org) = {}
  BY <1>2, FS_EmptySet
<1>3. CASE AdminsOf(org) # {}
  <2>1. PICK a : a \in AdminsOf(org)
    BY <1>3
  <2>2. AdminsOf(org) = {a}
    BY <1>1, <2>1 DEF AdminsOf, OneMembershipPerUser
  <2>3. Cardinality(AdminsOf(org)) = 1
    BY <2>2, FS_Singleton
  <2> QED BY <2>3
<1> QED BY <1>2, <1>3

\* The reads and checks before the operation is loaded.
LEMMA ChecksKeepAdmins ==
  ASSUME LedgerInv, OneMembershipPerUser, AdminInv, NEW r \in Requests,
         CheckAccess(r) \/ CheckTarget(r) \/ CheckAdmins(r) \/ CheckOnboarding(r)
  PROVE  AdminInv'
<1> DEFINE c == requests[r].call
<1>0. memberships' = memberships /\ organizations' = organizations
  BY DEF CheckAccess, CheckTarget, CheckAdmins, CheckOnboarding, tables
<1>1. CASE \E answer : End(r, answer)
  BY <1>0, <1>1, Ended, ElsewhereKeepsAdmins
<1>2. CASE \E stage : Goto(r, stage) /\ stage \notin {"load", "commit", "write"}
  BY <1>0, <1>2, GoneTo, ElsewhereKeepsAdmins
<1>3. CASE Goto(r, "load") /\ (LosesAdmin(c) => AnotherAdmin(c))
  BY <1>0, <1>3, GoneTo, ElsewhereKeepsAdmins
<1>4. CASE CheckAccess(r)
  BY <1>1, <1>2, <1>4 DEF CheckAccess
<1>5. CASE CheckTarget(r)
  BY <1>2, <1>3, <1>5 DEF CheckTarget, LosesAdmin
<1>6. CASE CheckAdmins(r)
  BY <1>1, <1>3, <1>6, CountFindsAnother DEF CheckAdmins, AnotherAdmin
<1>7. CASE CheckOnboarding(r)
  <2>1. c.kind \in SelfKinds
    BY <1>7, Busy DEF CheckOnboarding, KindsAt, Stages
  <2>2. ~LosesAdmin(c)
    BY <2>1 DEF SelfKinds, LosesAdmin
  <2> QED BY <1>1, <1>2, <1>3, <1>7, <2>2 DEF CheckOnboarding
<1> QED BY <1>4, <1>5, <1>6, <1>7

\* What loading an operation, and reading before the commit, leave in the slot.
RowOf(r) ==
  IF ledger[KeyAt(r)] = None THEN NewOperation(requests[r].call.role) ELSE ledger[KeyAt(r)]

LEMMA LoadedTo ==
  ASSUME LedgerInv, NEW r \in Requests, Load(r)
  PROVE  /\ requests[r].stage = "load"
         /\ ledger' = [ledger EXCEPT ![KeyAt(r)] = RowOf(r)]
         /\ \A p \in Requests : p # r => requests'[p] = requests[p]
         /\ UNCHANGED <<memberships, organizations, waiting, mirror>>
         /\ \/ /\ requests'[r].stage = "idle"
               /\ requests'[r].role = None /\ requests'[r].row = None
            \/ /\ ~AlreadyCompleted(requests[r].call.kind, RowOf(r))
               /\ requests'[r].stage =
                    FirstStage(requests[r].call.kind, RowOf(r).step, RowOf(r).result)
               /\ requests'[r].seen = RowOf(r).step /\ requests'[r].result = RowOf(r).result
               /\ requests'[r].call = requests[r].call /\ requests'[r].role = requests[r].role
               /\ requests'[r].row = requests[r].row
<1> DEFINE c == requests[r].call
           operation == IF ledger[KeyOf(c)] = None THEN NewOperation(c.role) ELSE ledger[KeyOf(c)]
<1>1. operation = RowOf(r)
  BY DEF RowOf, KeyAt
<1>2. /\ requests[r].stage = "load"
      /\ ledger' = [ledger EXCEPT ![KeyOf(c)] = operation]
      /\ IF AlreadyCompleted(c.kind, operation)
         THEN End(r, "ok")
         ELSE requests' = [requests EXCEPT
                ![r].stage = FirstStage(c.kind, operation.step, operation.result),
                ![r].seen = operation.step,
                ![r].result = operation.result]
      /\ UNCHANGED <<memberships, organizations, waiting, mirror>>
  BY DEF Load
<1> HIDE DEF operation
<1>3. CASE AlreadyCompleted(c.kind, operation)
  BY <1>1, <1>2, <1>3, Ended DEF KeyAt
<1>4. CASE ~AlreadyCompleted(c.kind, operation)
  <2> DEFINE stage == FirstStage(c.kind, operation.step, operation.result)
  <2>1. requests' = [requests EXCEPT ![r].stage = stage, ![r].seen = operation.step,
                                     ![r].result = operation.result]
    BY <1>2, <1>4
  <2> HIDE DEF stage
  <2>2. /\ requests'[r].stage = stage /\ requests'[r].seen = operation.step
        /\ requests'[r].result = operation.result
        /\ requests'[r].call = c /\ requests'[r].role = requests[r].role
        /\ requests'[r].row = requests[r].row
        /\ \A p \in Requests : p # r => requests'[p] = requests[p]
    BY <2>1 DEF LedgerInv, RequestsTyped, RequestType
  <2> QED BY <1>1, <1>2, <1>4, <2>2 DEF stage, KeyAt
<1> QED BY <1>3, <1>4

LEMMA CommitReadTo ==
  ASSUME LedgerInv, NEW r \in Requests, CommitRead(r)
  PROVE  /\ requests[r].stage = "commit" /\ requests'[r].stage \in {"write", "fail"}
         /\ requests'[r].call = requests[r].call /\ requests'[r].seen = requests[r].seen
         /\ requests'[r].result = requests[r].result /\ requests'[r].row = requests[r].row
         /\ \A p \in Requests : p # r => requests'[p] = requests[p]
         /\ UNCHANGED <<tables, faults>>
BY DEF CommitRead, LedgerInv, RequestsTyped, RequestType

LEMMA WorkflowKeepsAdmins ==
  ASSUME LedgerInv, AdminInv, NEW r \in Requests,
         ChooseOrganization(r) \/ SetWaiting(r) \/ Reject(r) \/ RejectAudit(r) \/ Load(r)
           \/ CommitRead(r) \/ SyncUpstream(r) \/ Audit(r) \/ Mark(r) \/ RecordFailure(r)
  PROVE  AdminInv'
<1>0. Step(r)
  BY DEF Step
<1>1. CASE Load(r)
  BY <1>1, LoadedTo, ElsewhereKeepsAdmins
<1>2. CASE CommitRead(r)
  BY <1>2, CommitReadTo, ElsewhereKeepsAdmins DEF tables
<1>3. CASE ~(Load(r) \/ CommitRead(r))
  <2>1. memberships' = memberships /\ organizations' = organizations
    BY <1>3 DEF ChooseOrganization, SetWaiting, Reject, RejectAudit, SyncUpstream, SyncMember,
       SyncRow, SyncDelete, SyncInsert, SyncUpdate, Audit, Mark, RecordFailure, tables
  <2>2. requests'[r].stage \notin {"load", "commit", "write"}
    <3>1. CASE \E answer : End(r, answer)
      BY <3>1, Ended
    <3>2. CASE \E stage : Goto(r, stage) /\ stage \notin {"load", "commit", "write"}
      BY <3>2, GoneTo
    <3>3. CASE \E result : Synchronized(r, result)
      BY <3>3, SynchronizedTo
    <3>4. CASE SetWaiting(r) \/ Reject(r) \/ RejectAudit(r) \/ RecordFailure(r)
      BY <3>1, <3>2, <3>4 DEF SetWaiting, Reject, RejectAudit, RecordFailure
    <3>5. CASE ChooseOrganization(r)
      <4>1. CASE \E org \in organizations :
                   requests' = [requests EXCEPT ![r].stage = "wait", ![r].call.org = org]
        BY <4>1 DEF LedgerInv, RequestsTyped, RequestType
      <4> QED BY <3>1, <3>2, <3>5, <4>1 DEF ChooseOrganization
    <3>6. CASE Audit(r)
      BY <3>6 DEF Audit, LedgerInv, RequestsTyped, RequestType
    <3>7. CASE Mark(r)
      BY <3>1, <3>2, <3>7 DEF Mark, AfterCommit
    <3>8. CASE SyncMember(r) \/ SyncRow(r)
      <4>1. \/ Goto(r, "sync_write")
            \/ \E m : requests' = [requests EXCEPT ![r].stage = "sync_row", ![r].role = m]
            \/ \E m : requests' = [requests EXCEPT ![r].stage = "sync_write", ![r].row = m]
        BY <3>8 DEF SyncMember, SyncRow
      <4>2. CASE \E m : requests' = [requests EXCEPT ![r].stage = "sync_row", ![r].role = m]
        BY <4>2 DEF LedgerInv, RequestsTyped, RequestType
      <4>3. CASE \E m : requests' = [requests EXCEPT ![r].stage = "sync_write", ![r].row = m]
        BY <4>3 DEF LedgerInv, RequestsTyped, RequestType
      <4> QED BY <3>2, <4>1, <4>2, <4>3
    <3>9. CASE SyncDelete(r) \/ SyncInsert(r) \/ SyncUpdate(r)
      <4>1. Goto(r, "fail") \/ \E result : Synchronized(r, result)
        BY <3>9 DEF SyncDelete, SyncInsert, SyncUpdate
      <4> QED BY <3>2, <3>3, <4>1
    <3> QED BY <1>3, <3>4, <3>5, <3>6, <3>7, <3>8, <3>9 DEF SyncUpstream
  <2> QED BY <1>0, <2>1, <2>2, OthersKept, ElsewhereKeepsAdmins
<1> QED BY <1>1, <1>2, <1>3

\* A commit that takes the role of an administrator leaves another one.
LEMMA CommitKeepsAdmins ==
  ASSUME LedgerInv, AdminInv, OneAtATime, NEW r \in Requests, CommitLocal(r)
  PROVE  AdminInv'
<1> DEFINE c == requests[r].call
<1>1. Step(r) /\ requests[r].stage = "write"
  BY DEF Step, CommitLocal, UniqueViolation, CommitApproval, CommitOrganization, CommitRole,
     CommitDelete
<1>2. CASE UniqueViolation(r)
  BY <1>2, GoneTo, ElsewhereKeepsAdmins DEF UniqueViolation, tables
<1>3. CASE ~UniqueViolation(r)
  <2>1. \E result : Committed(r, result)
    BY <1>3 DEF CommitLocal, CommitApproval, CommitOrganization, CommitRole, CommitDelete
  <2>2. requests'[r].stage = "mark"
    BY <2>1, CommittedTo
  <2>3. \A p \in Requests : requests'[p].stage \notin {"load", "commit", "write"}
    BY <1>1, <2>2, OthersIdle
  <2>4. CASE CommitApproval(r)
    <3>1. memberships \subseteq memberships' /\ organizations' = organizations
      BY <2>4 DEF CommitApproval, InsertMember
    <3>2. OrgKeepsAdmin'
      BY <3>1 DEF AdminInv, OrgKeepsAdmin, AdminsOf
    <3> QED BY <2>3, <3>2 DEF AdminInv
  <2>5. CASE CommitOrganization(r)
    <3>1. PICK org \in Orgs : /\ organizations' = organizations \union {org}
                              /\ InsertMember(org, c.user, "admin")
      BY <2>5 DEF CommitOrganization
    <3>2. /\ memberships \subseteq memberships'
          /\ \E m \in memberships' : m.org = org /\ m.role = "admin"
      <4> DEFINE founder == [user |-> c.user, org |-> org, role |-> "admin"]
      <4>1. memberships' = memberships \union {founder}
        BY <3>1 DEF InsertMember
      <4>2. founder.org = org /\ founder.role = "admin"
        OBVIOUS
      <4> HIDE DEF founder
      <4> QED BY <4>1, <4>2
    <3>3. ASSUME NEW o \in organizations'
          PROVE  \E m \in memberships' : m.org = o /\ m.role = "admin"
      BY <3>1, <3>2 DEF AdminInv, OrgKeepsAdmin, AdminsOf
    <3>4. OrgKeepsAdmin'
      BY <3>3 DEF OrgKeepsAdmin, AdminsOf
    <3> QED BY <2>3, <3>4 DEF AdminInv
  <2>6. CASE CommitRole(r) \/ CommitDelete(r)
    <3>1. /\ organizations' = organizations
          /\ c.kind \in {"assign_role", "revoke_role", "delete_user"}
          /\ memberships \ MembersIn(c.org, c.user) \subseteq memberships'
      BY <2>6 DEF CommitRole, CommitDelete
    <3>2. ASSUME NEW org \in organizations
          PROVE  \E m \in memberships' : m.org = org /\ m.role = "admin"
      <4>1. PICK a \in memberships : a.org = org /\ a.role = "admin"
        BY DEF AdminInv, OrgKeepsAdmin, AdminsOf
      <4>2. CASE a \notin MembersIn(c.org, c.user)
        BY <3>1, <4>1, <4>2
      <4>3. CASE a \in MembersIn(c.org, c.user) /\ LosesAdmin(c)
        <5>1. a.org = c.org
          BY <4>3 DEF MembersIn
        <5>2. AnotherAdmin(c)
          BY <1>1, <4>3 DEF AdminInv
        <5>3. PICK b \in memberships : b.org = c.org /\ b.role = "admin" /\ b.user # c.user
          BY <5>2 DEF AnotherAdmin, AdminsOf
        <5>4. b \notin MembersIn(c.org, c.user)
          BY <5>3 DEF MembersIn, MembersOf
        <5> QED BY <3>1, <4>1, <5>1, <5>3, <5>4
      <4>4. CASE a \in MembersIn(c.org, c.user) /\ ~LosesAdmin(c)
        <5>1. NextRole(c) = "admin"
          BY <3>1, <4>1, <4>4 DEF LosesAdmin
        <5>2. c.kind = "assign_role"
          BY <3>1, <5>1, UserMutationsAssumption DEF NextRole, Roles
        <5>3. CommitRole(r)
          BY <2>6, <5>2 DEF CommitDelete
        <5>4. [a EXCEPT !.role = "admin"] \in memberships'
          BY <4>4, <5>1, <5>3 DEF CommitRole
        <5>5. a \in MemberType
          BY DEF LedgerInv, TablesTyped
        <5>6. [a EXCEPT !.role = "admin"].org = org /\ [a EXCEPT !.role = "admin"].role = "admin"
          BY <4>1, <5>5 DEF MemberType
        <5> QED BY <5>4, <5>6
      <4> QED BY <4>2, <4>3, <4>4
    <3>3. OrgKeepsAdmin'
      BY <3>1, <3>2 DEF OrgKeepsAdmin, AdminsOf
    <3> QED BY <2>3, <3>3 DEF AdminInv
  <2> QED BY <1>3, <2>4, <2>5, <2>6 DEF CommitLocal
<1> QED BY <1>2, <1>3

LEMMA AdminsKept ==
  ASSUME LedgerInv, OneMembershipPerUser, AdminInv, OneAtATime, [Next]_vars
  PROVE  AdminInv'
<1>1. ASSUME NEW r \in Requests, Step(r) PROVE AdminInv'
  BY <1>1, ChecksKeepAdmins, WorkflowKeepsAdmins, CommitKeepsAdmins DEF Step
<1>2. ASSUME NEW r \in Requests, NEW c, Start(r, c) PROVE AdminInv'
  <2>1. requests'[r].stage = "load" => ~LosesAdmin(requests'[r].call)
    BY <1>2, Started DEF LosesAdmin
  <2>2. /\ memberships' = memberships /\ organizations' = organizations
        /\ \A p \in Requests : p # r => requests'[p] = requests[p]
        /\ requests'[r].stage \notin {"commit", "write"}
    BY <1>2, Started DEF tables
  <2> QED BY <2>1, <2>2, ElsewhereKeepsAdmins
<1>3. ASSUME NEW r \in Requests, Fault(r) \/ Crash(r) PROVE AdminInv'
  <2>1. /\ memberships' = memberships /\ organizations' = organizations
        /\ \A p \in Requests : p # r => requests'[p] = requests[p]
        /\ requests'[r].stage \notin {"load", "commit", "write"}
    BY <1>3, Failed DEF tables
  <2> QED BY <2>1, ElsewhereKeepsAdmins
<1>4. CASE UNCHANGED <<memberships, organizations, requests>>
  BY <1>4 DEF AdminInv, OrgKeepsAdmin, LosesAdmin, AnotherAdmin, AdminsOf, MembersIn, MembersOf
<1>5. ASSUME NEW u \in Users, CancelWaiting(u) PROVE AdminInv'
  BY <1>4, <1>5 DEF CancelWaiting
<1>6. CASE UNCHANGED vars
  BY <1>4, <1>6 DEF vars
<1> QED BY <1>1, <1>2, <1>3, <1>5, <1>6 DEF Next, Begin, Retry

\* While handlers do not overlap, no sequence of calls, retries and failures
\* leaves an organization without an administrator, if each had one to begin with.
THEOREM AdminsSurvive ==
  ASSUME \A m \in InitialMembers : \E a \in InitialMembers : a.org = m.org /\ a.role = "admin"
  PROVE  Spec /\ []OneAtATime => []OrgKeepsAdmin
<1>1. Init => AdminInv
  BY DEF Init, AdminInv, OrgKeepsAdmin, AdminsOf, Idle
<1> QED BY <1>1, AdminsKept, LedgerInvariant, OneMembership, PTL DEF Spec, AdminInv

-----------------------------------------------------------------------------
(* The mirror diverges only where the ledger says so *)

\* The steps that come after the mirror was written.
Synced == {"synced_upstream", "completed"}

\* An operation on the user whose row does not say that the mirror was written.
Behind(u) == \E k \in Keys : k.user = u /\ ledger[k] # None /\ ledger[k].step \notin Synced

OneRow == \A a, b \in mirror : a.user = b.user => a = b
Traced == \A u \in Users : MirrorAgrees(u) \/ Behind(u)
Closed == \A k \in Keys :
  ledger[k] # None /\ ledger[k].status = "completed" => ledger[k].step = "completed"

\* At one of these stages, or about to record this step.
At(q, stages, step) == q.stage \in stages \/ (q.stage = "mark" /\ q.step = step)

\* What the row of the operation says while a request works on it.
Resumes(q, row) ==
  /\ row.status # "completed"
  /\ At(q, {"commit", "write"}, "local_committed") => q.seen \notin Synced
  /\ At(q, {"commit", "write", "sync_member", "sync_row", "sync_write"}, "local_committed")
       => row.step \notin Synced
  /\ At(q, {"audit"}, "completed") => row.step \in Synced

\* What a request has read of the membership and of the mirrored row.
Holds(q) ==
  /\ q.row # None => q.stage \in {"sync_write", "fail"}
  /\ q.role # None => q.stage \in {"write", "sync_row", "sync_write", "fail"}
  /\ q.stage = "sync_row" => q.role # None
  /\ q.stage \in {"sync_row", "sync_write"} /\ q.role # None =>
       \E m \in MembersOf(q.call.user) : m.role = q.role
  /\ q.stage = "sync_write" =>
       IF q.role = None THEN MembersOf(q.call.user) = {}
       ELSE q.row = None <=> MirrorOf(q.call.user) = {}
  /\ q.stage = "mark" /\ q.step = "synced_upstream" => MirrorAgrees(q.call.user)

MirrorInv ==
  /\ OneRow
  /\ Traced
  /\ Closed
  /\ \A r \in Requests :
       /\ requests[r].stage \in WorkflowStages => Resumes(requests[r], ledger[KeyAt(r)])
       /\ Holds(requests[r])

\* Only one handler moves, so only its slot and the tables are in question.
LEMMA MirrorStep ==
  ASSUME MirrorInv, NEW r \in Requests,
         \A p \in Requests : p # r => requests'[p] = requests[p] /\ requests[p].stage = "idle",
         OneRow', Traced', Closed', Holds(requests[r])',
         requests'[r].stage \in WorkflowStages =>
           Resumes(requests[r], ledger[KeyAt(r)])'
  PROVE  MirrorInv'
<1>1. ASSUME NEW p \in Requests, p # r
      PROVE  Holds(requests[p])' /\ requests'[p].stage \notin WorkflowStages
  <2>1. /\ requests'[p].stage = "idle" /\ requests'[p].role = None /\ requests'[p].row = None
    BY <1>1 DEF MirrorInv, Holds
  <2> QED BY <2>1 DEF Holds, WorkflowStages
<1> QED BY <1>1 DEF MirrorInv

\* Where the tables stay as they are.
LEMMA MirrorStands ==
  ASSUME MirrorInv, NEW r \in Requests,
         \A p \in Requests : p # r => requests'[p] = requests[p] /\ requests[p].stage = "idle",
         UNCHANGED <<memberships, mirror, ledger>>, Holds(requests[r])',
         requests'[r].stage \in WorkflowStages =>
           Resumes(requests[r], ledger[KeyAt(r)])'
  PROVE  MirrorInv'
<1>1. OneRow' /\ Closed'
  BY DEF MirrorInv, OneRow, Closed
<1>2. Traced'
  BY DEF MirrorInv, Traced, MirrorAgrees, MembersOf, MirrorOf, Behind
<1> QED BY <1>1, <1>2, MirrorStep

\* Before and after the workflow a handler holds nothing.
LEMMA OutsideKeepsMirror ==
  ASSUME MirrorInv, NEW r \in Requests,
         \A p \in Requests : p # r => requests'[p] = requests[p] /\ requests[p].stage = "idle",
         UNCHANGED <<memberships, mirror, ledger>>,
         requests'[r].stage \notin WorkflowStages,
         requests'[r].role = None, requests'[r].row = None
  PROVE  MirrorInv'
<1>1. Holds(requests[r])'
  BY DEF Holds, WorkflowStages
<1> QED BY <1>1, MirrorStands

LEMMA EarlyKeepsMirror ==
  ASSUME LedgerInv, MirrorInv, OneAtATime, NEW r \in Requests,
         CheckAccess(r) \/ CheckTarget(r) \/ CheckAdmins(r) \/ CheckOnboarding(r)
           \/ ChooseOrganization(r) \/ SetWaiting(r) \/ Reject(r) \/ RejectAudit(r)
  PROVE  MirrorInv'
<1>1. Step(r)
  BY DEF Step
<1>2. \A p \in Requests : p # r => requests'[p] = requests[p] /\ requests[p].stage = "idle"
  BY <1>1, OthersIdle
<1>3. UNCHANGED mirror /\ UNCHANGED ledger
  BY DEF CheckAccess, CheckTarget, CheckAdmins, CheckOnboarding, ChooseOrganization, SetWaiting,
     Reject, RejectAudit, tables
<1>4. memberships' = memberships
  BY DEF CheckAccess, CheckTarget, CheckAdmins, CheckOnboarding, ChooseOrganization, SetWaiting,
     Reject, RejectAudit, tables
<1>5. requests[r].stage \in {"access", "target", "admins", "onboard", "choose", "wait", "reject",
                             "reject_audit"}
  BY DEF CheckAccess, CheckTarget, CheckAdmins, CheckOnboarding, ChooseOrganization, SetWaiting,
     Reject, RejectAudit
<1>6. requests[r].role = None /\ requests[r].row = None
  BY <1>5 DEF MirrorInv, Holds
<1>7. CASE \E answer : End(r, answer)
  BY <1>2, <1>3, <1>4, <1>7, Ended, OutsideKeepsMirror DEF WorkflowStages
<1>8. CASE \E stage : Goto(r, stage) /\ stage \in {"target", "admins", "load", "choose", "wait",
                                                   "reject_audit"}
  BY <1>2, <1>3, <1>4, <1>6, <1>8, GoneTo, OutsideKeepsMirror DEF WorkflowStages
<1>9. CASE \E org \in organizations :
             requests' = [requests EXCEPT ![r].stage = "wait", ![r].call.org = org]
  <2>1. /\ requests'[r].stage = "wait" /\ requests'[r].role = requests[r].role
        /\ requests'[r].row = requests[r].row
    BY <1>9 DEF LedgerInv, RequestsTyped, RequestType
  <2> QED BY <1>2, <1>3, <1>4, <1>6, <2>1, OutsideKeepsMirror DEF WorkflowStages
<1>10. CASE CheckAccess(r) \/ CheckTarget(r) \/ CheckAdmins(r) \/ CheckOnboarding(r)
  <2>1. \/ \E answer : End(r, answer)
        \/ Goto(r, "target") \/ Goto(r, "admins") \/ Goto(r, "load") \/ Goto(r, "choose")
    BY <1>10 DEF CheckAccess, CheckTarget, CheckAdmins, CheckOnboarding
  <2> QED BY <1>7, <1>8, <2>1
<1>11. CASE SetWaiting(r) \/ Reject(r) \/ RejectAudit(r)
  <2>1. (\E answer : End(r, answer)) \/ Goto(r, "reject_audit")
    BY <1>11 DEF SetWaiting, Reject, RejectAudit
  <2> QED BY <1>7, <1>8, <2>1
<1>12. CASE ChooseOrganization(r)
  BY <1>7, <1>8, <1>9, <1>12 DEF ChooseOrganization
<1> QED BY <1>10, <1>11, <1>12

\* The order of the steps, read the other way.
LEMMA UnreachedSteps ==
  ASSUME NEW step \in OperationSteps
  PROVE  /\ step \in Synced => HasReachedStep(step, "local_committed", LocalFirstOrder)
         /\ step \notin Synced => ~HasReachedStep(step, "synced_upstream", LocalFirstOrder)
<1> DEFINE order == <<"pending", "local_committed", "synced_upstream", "completed">>
<1>1. /\ 2 \in DOMAIN order /\ 3 \in DOMAIN order /\ 4 \in DOMAIN order
      /\ order[2] = "local_committed" /\ order[3] = "synced_upstream" /\ order[4] = "completed"
  OBVIOUS
<1> HIDE DEF order
<1>2. LocalFirstOrder = order
  BY DEF LocalFirstOrder, order
<1>3. ASSUME step \in Synced
      PROVE  HasReachedStep(step, "local_committed", LocalFirstOrder)
  <2>1. 2 <= 3 /\ 2 <= 4
    OBVIOUS
  <2> QED BY <1>1, <1>2, <1>3, <2>1 DEF HasReachedStep, Synced
<1> QED BY <1>3, ReachedSteps DEF Synced

\* Where a request goes that found the mirror not written, or written.
LEMMA ResumedStage ==
  ASSUME NEW kind, NEW seen \in OperationSteps, NEW result,
         seen \in {"local_committed", "synced_upstream", "completed"} => result # None
  PROVE  /\ FirstStage(kind, seen, result) \in {"commit", "write", "sync_member", "audit"}
         /\ FirstStage(kind, seen, result) = "audit" => seen \in Synced
         /\ FirstStage(kind, seen, result) \in {"commit", "write", "sync_member"} => seen \notin Synced
<1>1. FirstStage(kind, seen, result) \in {"commit", "write"} => seen \notin Synced
  BY UnreachedSteps DEF FirstStage, RunsCommitLocal, Synced, AfterCommit
<1>2. FirstStage(kind, seen, result) = "sync_member" => seen \notin Synced
  <2>1. seen \in Synced => HasReachedStep(seen, "synced_upstream", LocalFirstOrder)
    <3> DEFINE order == <<"pending", "local_committed", "synced_upstream", "completed">>
    <3>1. /\ 3 \in DOMAIN order /\ 4 \in DOMAIN order
          /\ order[3] = "synced_upstream" /\ order[4] = "completed"
      OBVIOUS
    <3> HIDE DEF order
    <3>2. LocalFirstOrder = order
      BY DEF LocalFirstOrder, order
    <3>3. 3 <= 3 /\ 3 <= 4
      OBVIOUS
    <3> QED BY <3>1, <3>2, <3>3 DEF HasReachedStep, Synced
  <2> QED BY <2>1 DEF FirstStage, AfterCommit, RunsSyncUpstream, CommitStage
<1> QED BY <1>1, <1>2, FirstStageSound DEF Synced

LEMMA KeyUser ==
  ASSUME NEW c \in CallType
  PROVE  KeyOf(c).user = c.user
BY DEF KeyOf, CallType

\* A write of one row of the ledger leaves a trace of every divergence.
LEMMA RowWritten ==
  ASSUME LedgerInv, MirrorInv, NEW k \in Keys, NEW row, row # None,
         ledger' = [ledger EXCEPT ![k] = row], UNCHANGED <<memberships, mirror>>,
         row.status = "completed" => row.step = "completed",
         row.step \in Synced =>
           MirrorAgrees(k.user) \/ (ledger[k] # None /\ ledger[k].step \in Synced)
  PROVE  OneRow' /\ Traced' /\ Closed'
<1>1. /\ ledger'[k] = row
      /\ \A l \in Keys : l # k => ledger'[l] = ledger[l]
  BY DEF LedgerInv, LedgerTyped
<1>2. OneRow' /\ Closed'
  BY <1>1 DEF MirrorInv, OneRow, Closed
<1>3. ASSUME NEW u \in Users
      PROVE  MirrorAgrees(u)' \/ Behind(u)'
  <2>1. MirrorAgrees(u)' <=> MirrorAgrees(u)
    BY DEF MirrorAgrees, MembersOf, MirrorOf
  <2>2. CASE MirrorAgrees(u)
    BY <2>1, <2>2
  <2>3. CASE ~MirrorAgrees(u)
    <3>1. PICK l \in Keys : l.user = u /\ ledger[l] # None /\ ledger[l].step \notin Synced
      BY <2>3 DEF MirrorInv, Traced, Behind
    <3>2. ledger'[l] # None /\ ledger'[l].step \notin Synced
      BY <1>1, <2>3, <3>1
    <3> QED BY <3>1, <3>2 DEF Behind
  <2> QED BY <2>2, <2>3
<1> QED BY <1>2, <1>3 DEF Traced

LEMMA LoadKeepsMirror ==
  ASSUME LedgerInv, MirrorInv, OneAtATime, NEW r \in Requests, Load(r)
  PROVE  MirrorInv'
<1> DEFINE q == requests[r]  k == KeyAt(r)  row == RowOf(r)
<1>1. /\ q.stage = "load" /\ k \in Keys /\ q.call \in CallType
  BY LoadedTo, BusyKind, Busy DEF Stages
<1>2. /\ row # None /\ row.step \in OperationSteps
      /\ row.step \in {"local_committed", "synced_upstream", "completed"} => row.result # None
      /\ row.status = "completed" => row.step = "completed"
      /\ row.step \in Synced => ledger[k] # None /\ ledger[k].step \in Synced
  <2>1. CASE ledger[k] = None
    <3>1. /\ row = NewOperation(q.call.role)
          /\ row.step = "pending" /\ row.status = "in_progress"
      BY <2>1 DEF RowOf, NewOperation
    <3>2. row \in OperationType
      BY <1>1, <3>1 DEF NewOperation, OperationType, OperationStatuses, OperationSteps, CallType
    <3> QED BY <3>1, <3>2, UserMutationsAssumption DEF OperationType, Synced
  <2>2. CASE ledger[k] # None
    <3>1. row = ledger[k]
      BY <2>2 DEF RowOf
    <3> QED BY <1>1, <2>2, <3>1 DEF LedgerInv, LedgerTyped, LedgerWellFormed, RowWellFormed,
                                    OperationType, MirrorInv, Closed
  <2> QED BY <2>1, <2>2
<1>3. /\ ledger' = [ledger EXCEPT ![k] = row] /\ ledger'[k] = row
      /\ memberships' = memberships /\ mirror' = mirror
  BY <1>1, LoadedTo DEF LedgerInv, LedgerTyped
<1>4. OneRow' /\ Traced' /\ Closed'
  <2> HIDE DEF row, k
  <2> QED BY <1>1, <1>2, <1>3, RowWritten DEF k
<1>5. \A p \in Requests : p # r => requests'[p] = requests[p] /\ requests[p].stage = "idle"
  BY <1>1, LoadedTo DEF OneAtATime
<1>6. CASE requests'[r].stage = "idle" /\ requests'[r].role = None /\ requests'[r].row = None
  <2>1. Holds(requests[r])'
    BY <1>6 DEF Holds
  <2> QED BY <1>4, <1>5, <1>6, <2>1, MirrorStep DEF WorkflowStages
<1>7. CASE ~(requests'[r].stage = "idle" /\ requests'[r].role = None /\ requests'[r].row = None)
  <2>1. /\ ~AlreadyCompleted(q.call.kind, row)
        /\ requests'[r].stage = FirstStage(q.call.kind, row.step, row.result)
        /\ requests'[r].seen = row.step
        /\ requests'[r].call = q.call /\ requests'[r].role = q.role /\ requests'[r].row = q.row
    BY <1>7, LoadedTo
  <2>2. requests'[r].role = None /\ requests'[r].row = None
    BY <1>1, <2>1 DEF MirrorInv, Holds
  <2>3. row.status # "completed"
    BY <1>2, <2>1 DEF AlreadyCompleted
  <2> HIDE DEF row
  <2>4. /\ requests'[r].stage \in {"commit", "write", "sync_member", "audit"}
        /\ requests'[r].stage = "audit" => row.step \in Synced
        /\ requests'[r].stage \in {"commit", "write", "sync_member"} => row.step \notin Synced
    BY <1>2, <2>1, ResumedStage
  <2>5. Holds(requests[r])'
    BY <2>2, <2>4 DEF Holds
  <2>6. KeyAt(r)' = k
    BY <2>1 DEF KeyAt
  <2>7. Resumes(requests[r], ledger[KeyAt(r)])'
    BY <1>3, <2>1, <2>3, <2>4, <2>6 DEF Resumes, At
  <2> QED BY <1>4, <1>5, <2>5, <2>7, MirrorStep
<1> QED BY <1>6, <1>7

LEMMA CommitReadKeepsMirror ==
  ASSUME LedgerInv, MirrorInv, OneAtATime, NEW r \in Requests, CommitRead(r)
  PROVE  MirrorInv'
<1>1. /\ requests[r].stage = "commit" /\ requests'[r].stage \in {"write", "fail"}
      /\ requests'[r].call = requests[r].call /\ requests'[r].seen = requests[r].seen
      /\ requests'[r].row = requests[r].row
      /\ UNCHANGED <<memberships, mirror, ledger>>
  BY CommitReadTo DEF tables
<1>2. \A p \in Requests : p # r => requests'[p] = requests[p] /\ requests[p].stage = "idle"
  BY <1>1, CommitReadTo DEF OneAtATime
<1>3. Holds(requests[r])'
  BY <1>1 DEF MirrorInv, Holds
<1>4. Resumes(requests[r], ledger[KeyAt(r)])'
  BY <1>1 DEF MirrorInv, Resumes, At, KeyAt, WorkflowStages
<1> QED BY <1>1, <1>2, <1>3, <1>4, MirrorStands

\* A handler that gives up keeps what it has read, and the row as it is.
LEMMA GivingUpKeepsMirror ==
  ASSUME LedgerInv, MirrorInv, NEW r \in Requests,
         \A p \in Requests : p # r => requests[p].stage = "idle",
         Goto(r, "fail"), requests[r].stage \in WorkflowStages,
         UNCHANGED <<memberships, mirror, ledger>>
  PROVE  MirrorInv'
<1>1. /\ requests'[r].stage = "fail" /\ requests'[r].call = requests[r].call
      /\ \A p \in Requests : p # r => requests'[p] = requests[p]
  BY GoneTo
<1>2. Holds(requests[r])'
  BY <1>1 DEF Holds
<1>3. Resumes(requests[r], ledger[KeyAt(r)])'
  BY <1>1 DEF MirrorInv, Resumes, At, KeyAt
<1> QED BY <1>1, <1>2, <1>3, MirrorStands

\* A commit changes the memberships of its own user only.
LEMMA CommitOfOneUser ==
  ASSUME LedgerInv, NEW r \in Requests,
         CommitApproval(r) \/ CommitOrganization(r) \/ CommitRole(r) \/ CommitDelete(r),
         NEW u, u # requests[r].call.user
  PROVE  MembersOf(u)' = MembersOf(u)
<1> DEFINE c == requests[r].call
<1>1. ASSUME NEW org, NEW role, InsertMember(org, c.user, role)
      PROVE  MembersOf(u)' = MembersOf(u)
  BY <1>1 DEF InsertMember, MembersOf
<1>2. CASE CommitApproval(r)
  BY <1>1, <1>2 DEF CommitApproval
<1>3. CASE CommitOrganization(r)
  BY <1>1, <1>3 DEF CommitOrganization
<1>4. CASE CommitRole(r)
  <2> DEFINE members == MembersIn(c.org, c.user)
             Renamed(m) == [m EXCEPT !.role = NextRole(c)]
  <2>1. \A m \in members : m \in memberships /\ m.user = c.user /\ Renamed(m).user = c.user
    BY DEF MembersIn, MembersOf, LedgerInv, TablesTyped, MemberType
  <2>2. memberships' = (memberships \ members) \union {Renamed(m) : m \in members}
    BY <1>4 DEF CommitRole
  <2> HIDE DEF Renamed, members
  <2> QED BY <2>1, <2>2 DEF MembersOf
<1>5. CASE CommitDelete(r)
  BY <1>5 DEF CommitDelete, MembersIn, MembersOf
<1> QED BY <1>2, <1>3, <1>4, <1>5

LEMMA CommitKeepsMirror ==
  ASSUME LedgerInv, MirrorInv, OneAtATime, NEW r \in Requests, CommitLocal(r)
  PROVE  MirrorInv'
<1> DEFINE q == requests[r]  k == KeyAt(r)
<1>1. q.stage = "write"
  BY DEF CommitLocal, UniqueViolation, CommitApproval, CommitOrganization, CommitRole,
     CommitDelete
<1>2. \A p \in Requests : p # r => requests[p].stage = "idle"
  BY <1>1 DEF OneAtATime
<1>3. CASE UniqueViolation(r)
  BY <1>1, <1>2, <1>3, GivingUpKeepsMirror DEF UniqueViolation, tables, WorkflowStages
<1>4. CASE ~UniqueViolation(r)
  <2>1. /\ CommitApproval(r) \/ CommitOrganization(r) \/ CommitRole(r) \/ CommitDelete(r)
        /\ \E result : Committed(r, result)
    BY <1>4 DEF CommitLocal, CommitApproval, CommitOrganization, CommitRole, CommitDelete
  <2>2. /\ requests'[r].stage = "mark" /\ requests'[r].step = "local_committed"
        /\ requests'[r].role = None /\ requests'[r].row = q.row
        /\ requests'[r].call = q.call /\ requests'[r].seen = q.seen
        /\ \A p \in Requests : p # r => requests'[p] = requests[p]
        /\ mirror' = mirror /\ ledger' = ledger
    BY <2>1, CommittedTo
  <2>3. /\ k \in Keys /\ q.call \in CallType /\ k.user = q.call.user /\ ledger[k] # None
    BY <1>1, BusyKind, Busy, KeyUser DEF WorkflowStages, KeyAt, LedgerInv, RowsLoaded
  <2>4. Resumes(q, ledger[k]) /\ Holds(q)
    BY <1>1 DEF MirrorInv, WorkflowStages
  <2>5. ledger[k].step \notin Synced
    BY <1>1, <2>4 DEF Resumes, At
  <2>6. ASSUME NEW u \in Users
        PROVE  MirrorAgrees(u)' \/ Behind(u)'
    <3>1. CASE u = q.call.user
      BY <2>2, <2>3, <2>5, <3>1 DEF Behind
    <3>2. CASE u # q.call.user
      <4>1. MembersOf(u)' = MembersOf(u) /\ MirrorOf(u)' = MirrorOf(u)
        BY <2>1, <2>2, <3>2, CommitOfOneUser DEF MirrorOf
      <4>2. MirrorAgrees(u) => MirrorAgrees(u)'
        BY <4>1 DEF MirrorAgrees
      <4>3. Behind(u) => Behind(u)'
        BY <2>2 DEF Behind
      <4> QED BY <4>2, <4>3 DEF MirrorInv, Traced
    <3> QED BY <3>1, <3>2
  <2>7. OneRow' /\ Traced' /\ Closed'
    BY <2>2, <2>6 DEF MirrorInv, OneRow, Traced, Closed
  <2>8. Holds(requests[r])'
    BY <1>1, <2>2, <2>4 DEF Holds
  <2>9. Resumes(requests[r], ledger[KeyAt(r)])'
    BY <1>1, <2>2, <2>4 DEF Resumes, At, KeyAt
  <2> QED BY <1>2, <2>2, <2>7, <2>8, <2>9, MirrorStep
<1> QED BY <1>3, <1>4

\* Reading the membership and the mirrored row.
LEMMA SyncReadKeepsMirror ==
  ASSUME LedgerInv, MirrorInv, OneAtATime, NEW r \in Requests, SyncMember(r) \/ SyncRow(r)
  PROVE  MirrorInv'
<1> DEFINE q == requests[r]  user == q.call.user
<1>1. /\ q.stage \in {"sync_member", "sync_row"}
      /\ UNCHANGED <<memberships, mirror, ledger>>
  BY DEF SyncMember, SyncRow, tables
<1>2. Step(r)
  BY DEF Step, SyncUpstream
<1>3. \A p \in Requests : p # r => requests'[p] = requests[p] /\ requests[p].stage = "idle"
  BY <1>2, OthersIdle
<1>4. /\ Resumes(q, ledger[KeyAt(r)]) /\ Holds(q)
      /\ ledger[KeyAt(r)].step \notin Synced /\ q.row = None
  <2>1. Resumes(q, ledger[KeyAt(r)]) /\ Holds(q)
    BY <1>1 DEF MirrorInv, WorkflowStages
  <2> QED BY <1>1, <2>1 DEF Resumes, Holds, At
<1>5. ASSUME requests'[r].stage \in {"sync_row", "sync_write"}, requests'[r].call = q.call
      PROVE  Resumes(requests[r], ledger[KeyAt(r)])'
  BY <1>1, <1>4, <1>5 DEF Resumes, At, KeyAt
<1>6. CASE SyncMember(r) /\ MembersOf(user) = {}
  <2>1. Goto(r, "sync_write") /\ q.stage = "sync_member"
    BY <1>6 DEF SyncMember
  <2>2. /\ requests'[r].stage = "sync_write" /\ requests'[r].call = q.call
        /\ requests'[r].role = None /\ requests'[r].row = None
    BY <1>4, <2>1, GoneTo DEF Holds
  <2>3. Holds(requests[r])'
    BY <1>1, <1>6, <2>2 DEF Holds, MembersOf
  <2> QED BY <1>1, <1>3, <1>5, <2>2, <2>3, MirrorStands
<1>7. CASE SyncMember(r) /\ MembersOf(user) # {}
  <2>1. PICK m \in MembersOf(user) :
          requests' = [requests EXCEPT ![r].stage = "sync_row", ![r].role = m.role]
    BY <1>7 DEF SyncMember
  <2>2. m.role # None
    BY UserMutationsAssumption DEF MembersOf, LedgerInv, TablesTyped, MemberType
  <2>3. /\ requests'[r].stage = "sync_row" /\ requests'[r].call = q.call
        /\ requests'[r].role = m.role /\ requests'[r].row = None
    BY <1>4, <2>1 DEF LedgerInv, RequestsTyped, RequestType
  <2>4. \E n \in MembersOf(user)' : n.role = requests'[r].role
    BY <1>1, <2>3 DEF MembersOf
  <2>5. Holds(requests[r])'
    BY <2>2, <2>3, <2>4 DEF Holds
  <2> QED BY <1>1, <1>3, <1>5, <2>3, <2>5, MirrorStands
<1>8. CASE SyncRow(r) /\ MirrorOf(user) = {}
  <2>1. Goto(r, "sync_write") /\ q.stage = "sync_row"
    BY <1>8 DEF SyncRow
  <2>2. /\ requests'[r].stage = "sync_write" /\ requests'[r].call = q.call
        /\ requests'[r].role = q.role /\ requests'[r].row = None
    BY <1>4, <2>1, GoneTo
  <2>3. q.role # None /\ \E m \in MembersOf(user) : m.role = q.role
    BY <1>4, <2>1 DEF Holds
  <2>4. (\E m \in MembersOf(user)' : m.role = q.role) /\ MirrorOf(user)' = {}
    BY <1>1, <1>8, <2>2, <2>3 DEF MembersOf, MirrorOf
  <2>5. Holds(requests[r])'
    BY <2>2, <2>3, <2>4 DEF Holds
  <2> QED BY <1>1, <1>3, <1>5, <2>2, <2>5, MirrorStands
<1>9. CASE SyncRow(r) /\ MirrorOf(user) # {}
  <2>1. PICK row \in MirrorOf(user) :
          requests' = [requests EXCEPT ![r].stage = "sync_write", ![r].row = row.groups]
    BY <1>9 DEF SyncRow
  <2>2. row.groups # None
    BY UserMutationsAssumption DEF MirrorOf, LedgerInv, TablesTyped
  <2>3. /\ requests'[r].stage = "sync_write" /\ requests'[r].call = q.call
        /\ requests'[r].role = q.role /\ requests'[r].row = row.groups
    BY <2>1 DEF LedgerInv, RequestsTyped, RequestType
  <2>4. q.role # None /\ \E m \in MembersOf(user) : m.role = q.role
    BY <1>4, <1>9 DEF Holds, SyncRow
  <2>5. (\E m \in MembersOf(user)' : m.role = q.role) /\ MirrorOf(user)' # {}
    BY <1>1, <1>9, <2>3, <2>4 DEF MembersOf, MirrorOf
  <2>6. Holds(requests[r])'
    BY <2>2, <2>3, <2>4, <2>5 DEF Holds
  <2> QED BY <1>1, <1>3, <1>5, <2>3, <2>6, MirrorStands
<1> QED BY <1>6, <1>7, <1>8, <1>9

\* What the three writes of the mirror have in common: the rows of other users
\* stay, and those of its own agree with the membership, or the handler fails.
LEMMA MirrorWritten ==
  ASSUME LedgerInv, MirrorInv, OneAtATime, NEW r \in Requests, requests[r].stage = "sync_write",
         UNCHANGED <<memberships, ledger>>,
         \A u \in Users : u # requests[r].call.user => MirrorOf(u)' = MirrorOf(u),
         OneRow',
         \/ Goto(r, "fail")
         \/ (\E result : Synchronized(r, result)) /\ MirrorAgrees(requests[r].call.user)'
  PROVE  MirrorInv'
<1> DEFINE q == requests[r]  k == KeyAt(r)
<1>1. \A p \in Requests : p # r => requests'[p] = requests[p] /\ requests[p].stage = "idle"
  BY GoneTo, SynchronizedTo DEF OneAtATime
<1>2. /\ k \in Keys /\ k.user = q.call.user /\ ledger[k] # None
  BY BusyKind, Busy, KeyUser DEF WorkflowStages, KeyAt, LedgerInv, RowsLoaded
<1>3. Resumes(q, ledger[k])
  BY DEF MirrorInv, WorkflowStages
<1>4. Closed'
  BY DEF MirrorInv, Closed
<1>5. ASSUME NEW u \in Users
      PROVE  MirrorAgrees(u)' \/ Behind(u)'
  <2>1. CASE u = q.call.user
    BY <1>2, <1>3, <2>1 DEF Behind, Resumes, At
  <2>2. CASE u # q.call.user
    <3>1. MembersOf(u)' = MembersOf(u) /\ MirrorOf(u)' = MirrorOf(u)
      BY <2>2 DEF MembersOf
    <3>2. MirrorAgrees(u) => MirrorAgrees(u)'
      BY <3>1 DEF MirrorAgrees
    <3>3. Behind(u) => Behind(u)'
      BY DEF Behind
    <3> QED BY <3>2, <3>3 DEF MirrorInv, Traced
  <2> QED BY <2>1, <2>2
<1>6. CASE Goto(r, "fail")
  <2>1. requests'[r].stage = "fail" /\ requests'[r].call = q.call
    BY <1>6, GoneTo
  <2>2. Holds(requests[r])' /\ Resumes(requests[r], ledger[KeyAt(r)])'
    BY <1>3, <2>1 DEF Holds, Resumes, At, KeyAt
  <2> QED BY <1>1, <1>4, <1>5, <2>2, MirrorStep DEF Traced
<1>7. CASE (\E result : Synchronized(r, result)) /\ MirrorAgrees(q.call.user)'
  <2>1. /\ requests'[r].stage = "mark" /\ requests'[r].step = "synced_upstream"
        /\ requests'[r].role = None /\ requests'[r].row = None /\ requests'[r].call = q.call
    BY <1>7, SynchronizedTo
  <2>2. MirrorAgrees(requests[r].call.user)'
    BY <1>7, <2>1 DEF MirrorAgrees, MembersOf, MirrorOf
  <2>3. Holds(requests[r])' /\ Resumes(requests[r], ledger[KeyAt(r)])'
    BY <1>3, <2>1, <2>2 DEF Holds, Resumes, At, KeyAt
  <2> QED BY <1>1, <1>4, <1>5, <2>3, MirrorStep DEF Traced
<1> QED BY <1>6, <1>7

LEMMA SyncDeleteKeepsMirror ==
  ASSUME LedgerInv, MirrorInv, OneAtATime, NEW r \in Requests, SyncDelete(r)
  PROVE  MirrorInv'
<1> DEFINE q == requests[r]
<1>1. /\ q.stage = "sync_write" /\ q.role = None /\ mirror' = mirror \ MirrorOf(q.call.user)
      /\ Goto(r, "fail") \/ Synchronized(r, q.result)
      /\ memberships' = memberships /\ ledger' = ledger
  BY DEF SyncDelete
<1>2. MembersOf(q.call.user) = {}
  BY <1>1 DEF MirrorInv, Holds
<1>3. OneRow' /\ \A u \in Users : u # q.call.user => MirrorOf(u)' = MirrorOf(u)
  BY <1>1 DEF MirrorInv, OneRow, MirrorOf
<1>4. requests'[r].call = q.call
  BY <1>1, GoneTo, SynchronizedTo
<1>5. MirrorAgrees(requests[r].call.user)'
  BY <1>1, <1>2, <1>4 DEF MirrorAgrees, MembersOf, MirrorOf
<1> QED BY <1>1, <1>3, <1>5, MirrorWritten

LEMMA SyncInsertKeepsMirror ==
  ASSUME LedgerInv, MirrorInv, OneAtATime, NEW r \in Requests, SyncInsert(r)
  PROVE  MirrorInv'
<1> DEFINE q == requests[r]  user == requests[r].call.user
           row == [id |-> r, user |-> user, role |-> q.role, groups |-> NextGroups(q)]
<1>1. /\ q.stage = "sync_write" /\ q.role # None /\ q.row = None
      /\ mirror' = mirror \union {row} /\ Synchronized(r, SyncedResult(q))
      /\ memberships' = memberships /\ ledger' = ledger
  BY DEF SyncInsert
<1>2. MirrorOf(user) = {}
  BY <1>1 DEF MirrorInv, Holds
<1>3. PICK m \in MembersOf(user) : m.role = q.role
  BY <1>1 DEF MirrorInv, Holds
<1>4. row.user = user /\ row.role = q.role
  OBVIOUS
<1>5. requests'[r].call = q.call
  BY <1>1, SynchronizedTo
<1> HIDE DEF row
<1>6. OneRow' /\ \A u \in Users : u # user => MirrorOf(u)' = MirrorOf(u)
  BY <1>1, <1>2, <1>4 DEF MirrorInv, OneRow, MirrorOf
<1>7. {x \in mirror' : x.user = user} = {row} /\ m \in memberships' /\ m.user = user
  BY <1>1, <1>2, <1>4 DEF MirrorOf, MembersOf
<1>8. MirrorAgrees(requests[r].call.user)'
  BY <1>3, <1>4, <1>5, <1>7 DEF MirrorAgrees, MembersOf, MirrorOf
<1> QED BY <1>1, <1>6, <1>8, MirrorWritten

LEMMA SyncUpdateKeepsMirror ==
  ASSUME LedgerInv, MirrorInv, OneAtATime, NEW r \in Requests, SyncUpdate(r)
  PROVE  MirrorInv'
<1> DEFINE q == requests[r]  user == requests[r].call.user
           Changed(x) == [x EXCEPT !.role = q.role, !.groups = NextGroups(q)]
<1>1. /\ q.stage = "sync_write" /\ q.role # None /\ q.row # None
      /\ mirror' = (mirror \ MirrorOf(user)) \union {Changed(x) : x \in MirrorOf(user)}
      /\ MirrorOf(user) # {} => Synchronized(r, SyncedResult(q))
      /\ memberships' = memberships /\ ledger' = ledger
  BY DEF SyncUpdate
<1>2. MirrorOf(user) # {}
  BY <1>1 DEF MirrorInv, Holds
<1>3. PICK m \in MembersOf(user) : m.role = q.role
  BY <1>1 DEF MirrorInv, Holds
<1>4. PICK x : x \in MirrorOf(user)
  BY <1>2
<1>5. x \in mirror /\ x.user = user /\ MirrorOf(user) = {x}
  BY <1>4 DEF MirrorInv, OneRow, MirrorOf
<1>6. Changed(x).user = user /\ Changed(x).role = q.role
  BY <1>5 DEF LedgerInv, TablesTyped
<1>7. requests'[r].call = q.call
  BY <1>1, <1>2, SynchronizedTo
<1> DEFINE y == Changed(x)
<1>8. mirror' = (mirror \ {x}) \union {y}
  BY <1>1, <1>5
<1>9. y.user = user /\ y.role = q.role
  BY <1>6
<1> HIDE DEF y
<1>10. OneRow' /\ \A u \in Users : u # user => MirrorOf(u)' = MirrorOf(u)
  BY <1>5, <1>8, <1>9 DEF MirrorInv, OneRow, MirrorOf
<1>11. {z \in mirror' : z.user = user} = {y} /\ m \in memberships' /\ m.user = user
  BY <1>1, <1>5, <1>8, <1>9 DEF MirrorOf, MembersOf
<1>12. MirrorAgrees(requests[r].call.user)'
  BY <1>3, <1>7, <1>9, <1>11 DEF MirrorAgrees, MembersOf, MirrorOf
<1> QED BY <1>1, <1>2, <1>10, <1>12, MirrorWritten

\* The last steps: the audit, the record of a step, the record of a failure.
LEMMA AuditKeepsMirror ==
  ASSUME LedgerInv, MirrorInv, OneAtATime, NEW r \in Requests, Audit(r)
  PROVE  MirrorInv'
<1>1. /\ requests[r].stage = "audit" /\ requests'[r].stage = "mark"
      /\ requests'[r].step = "completed" /\ requests'[r].call = requests[r].call
      /\ requests'[r].role = requests[r].role /\ requests'[r].row = requests[r].row
      /\ \A p \in Requests : p # r => requests'[p] = requests[p]
      /\ UNCHANGED <<memberships, mirror, ledger>>
  BY DEF Audit, LedgerInv, RequestsTyped, RequestType
<1>2. Resumes(requests[r], ledger[KeyAt(r)]) /\ Holds(requests[r])
  BY <1>1 DEF MirrorInv, WorkflowStages
<1>3. Holds(requests[r])'
  BY <1>1, <1>2 DEF Holds
<1>4. Resumes(requests[r], ledger[KeyAt(r)])'
  BY <1>1, <1>2 DEF Resumes, At, KeyAt
<1> QED BY <1>1, <1>3, <1>4, MirrorStands DEF OneAtATime

LEMMA RecordFailureKeepsMirror ==
  ASSUME LedgerInv, MirrorInv, OneAtATime, NEW r \in Requests, RecordFailure(r)
  PROVE  MirrorInv'
<1> DEFINE q == requests[r]  k == KeyAt(r)  row == Failure(ledger[k], q.result, q.call.role)
<1>1. /\ q.stage = "fail" /\ ledger' = [ledger EXCEPT ![k] = row] /\ End(r, "error")
      /\ memberships' = memberships /\ mirror' = mirror
  BY DEF RecordFailure
<1>2. k \in Keys
  BY <1>1, BusyKind DEF WorkflowStages
<1>3. row.status = "failed" /\ row.step = "failed" /\ row \in OperationType
  <2>1. /\ ledger[k] \in OperationType /\ q \in RequestType /\ q.call \in CallType
    BY <1>1, <1>2, Busy DEF Stages, WorkflowStages, LedgerInv, LedgerTyped, RowsLoaded
  <2>2. q.result \in {None} \union ResultType /\ q.call.role \in Roles \union {None}
    BY <2>1 DEF RequestType, CallType
  <2> QED BY <2>1, <2>2 DEF Failure, Keep, OperationType, OperationStatuses, OperationSteps
<1>4. row # None
  BY <1>3, UserMutationsAssumption
<1> HIDE DEF row, k
<1>5. OneRow' /\ Traced' /\ Closed'
  BY <1>1, <1>2, <1>3, <1>4, RowWritten DEF Synced
<1>6. requests'[r].stage = "idle" /\ requests'[r].role = None /\ requests'[r].row = None
  BY <1>1, Ended
<1>7. \A p \in Requests : p # r => requests'[p] = requests[p] /\ requests[p].stage = "idle"
  BY <1>1, Ended DEF OneAtATime
<1>8. Holds(requests[r])'
  BY <1>6 DEF Holds
<1> QED BY <1>5, <1>6, <1>7, <1>8, MirrorStep DEF WorkflowStages

LEMMA MarkKeepsMirror ==
  ASSUME LedgerInv, MirrorInv, OneAtATime, NEW r \in Requests, Mark(r)
  PROVE  MirrorInv'
<1> DEFINE q == requests[r]  k == KeyAt(r)
           row == Progress(ledger[k], q.step, q.result, q.call.role)
<1>1. /\ q.stage = "mark" /\ ledger' = [ledger EXCEPT ![k] = row]
      /\ memberships' = memberships /\ mirror' = mirror
      /\ q.step = "completed" => End(r, "ok")
      /\ q.step = "local_committed" => Goto(r, AfterCommit(q.seen, q.result))
      /\ q.step = "synced_upstream" => Goto(r, "audit")
  BY DEF Mark
<1>2. /\ k \in Keys /\ q.call \in CallType /\ k.user = q.call.user
      /\ q \in RequestType /\ q.result # None /\ q.result \in ResultType
      /\ q.step \in {"local_committed", "synced_upstream", "completed"}
      /\ ledger[k] \in OperationType /\ ledger[k] # None
  BY <1>1, Syncing, KeyUser, UserMutationsAssumption
     DEF CommittedStages, KeyAt, RequestWellFormed
<1>3. Resumes(q, ledger[k]) /\ Holds(q)
  BY <1>1 DEF MirrorInv, WorkflowStages
<1>4. /\ row.step = q.step /\ row.status = IF q.step = "completed" THEN "completed" ELSE "in_progress"
      /\ row \in OperationType
  BY <1>2 DEF Progress, Keep, OperationType, OperationStatuses, OperationSteps, CallType
<1>5. row # None
  BY <1>4, UserMutationsAssumption
<1>6. row.step \in Synced => MirrorAgrees(k.user) \/ (ledger[k] # None /\ ledger[k].step \in Synced)
  BY <1>1, <1>2, <1>3, <1>4 DEF Holds, Resumes, At, Synced
<1>7. ledger'[k] = row
  BY <1>1, <1>2 DEF LedgerInv, LedgerTyped
<1> HIDE DEF row
<1>8. OneRow' /\ Traced' /\ Closed'
  <2> HIDE DEF k
  <2> QED BY <1>1, <1>2, <1>4, <1>5, <1>6, RowWritten DEF k
<1>9. CASE q.step = "completed"
  <2>1. /\ requests'[r].stage = "idle" /\ requests'[r].role = None /\ requests'[r].row = None
        /\ \A p \in Requests : p # r => requests'[p] = requests[p] /\ requests[p].stage = "idle"
    BY <1>1, <1>9, Ended DEF OneAtATime
  <2>2. Holds(requests[r])'
    BY <2>1 DEF Holds
  <2> QED BY <1>8, <2>1, <2>2, MirrorStep DEF WorkflowStages
<1>10. ASSUME NEW stage \in {"sync_member", "audit"}, Goto(r, stage),
              q.step # "completed", stage = "audit" <=> q.step = "synced_upstream"
       PROVE  MirrorInv'
  <2>1. /\ requests'[r].stage = stage /\ requests'[r].call = q.call
        /\ requests'[r].role = None /\ requests'[r].row = None
        /\ \A p \in Requests : p # r => requests'[p] = requests[p] /\ requests[p].stage = "idle"
    BY <1>1, <1>3, <1>10, GoneTo DEF Holds, OneAtATime
  <2>2. Holds(requests[r])'
    BY <2>1 DEF Holds
  <2>3. row.status # "completed" /\ (stage = "audit" <=> row.step \in Synced)
    BY <1>2, <1>4, <1>10 DEF Synced
  <2>4. KeyAt(r)' = k
    BY <2>1 DEF KeyAt
  <2>5. Resumes(requests[r], ledger[KeyAt(r)])'
    BY <1>7, <2>1, <2>3, <2>4 DEF Resumes, At
  <2> QED BY <1>8, <2>1, <2>2, <2>5, MirrorStep
<1>11. CASE q.step = "local_committed"
  <2>1. q.seen \notin Synced /\ q.seen \in OperationSteps
    BY <1>1, <1>2, <1>3, <1>11 DEF Resumes, At, RequestType
  <2>2. AfterCommit(q.seen, q.result) = "sync_member"
    BY <1>2, <2>1, UnreachedSteps DEF AfterCommit, RunsSyncUpstream
  <2> QED BY <1>1, <1>10, <1>11, <2>2
<1>12. CASE q.step = "synced_upstream"
  BY <1>1, <1>10, <1>12
<1> QED BY <1>2, <1>9, <1>11, <1>12

LEMMA FailingKeepsMirror ==
  ASSUME LedgerInv, MirrorInv, OneAtATime, NEW r \in Requests, Fault(r) \/ Crash(r)
  PROVE  MirrorInv'
<1>1. requests[r].stage # "idle" /\ UNCHANGED <<memberships, mirror, ledger>>
  BY DEF Fault, Crash, Stages, tables
<1>2. CASE \E answer : End(r, answer)
  BY <1>1, <1>2, Ended, OutsideKeepsMirror DEF OneAtATime, WorkflowStages
<1>3. CASE Goto(r, "fail")
  <2>1. requests[r].stage \in WorkflowStages
    BY <1>3, Failed, GoneTo
  <2> QED BY <1>1, <1>3, <2>1, GivingUpKeepsMirror DEF OneAtATime
<1> QED BY <1>2, <1>3 DEF Fault, Crash

LEMMA MirrorKept ==
  ASSUME LedgerInv, MirrorInv, OneAtATime, OneAtATime', [Next]_vars
  PROVE  MirrorInv'
<1>1. ASSUME NEW r \in Requests, Step(r) PROVE MirrorInv'
  BY <1>1, EarlyKeepsMirror, LoadKeepsMirror, CommitReadKeepsMirror, CommitKeepsMirror,
     SyncReadKeepsMirror, SyncDeleteKeepsMirror, SyncInsertKeepsMirror, SyncUpdateKeepsMirror,
     AuditKeepsMirror, MarkKeepsMirror, RecordFailureKeepsMirror
     DEF Step, SyncUpstream
<1>2. CASE UNCHANGED <<memberships, mirror, ledger, requests>>
  BY <1>2 DEF MirrorInv, OneRow, Traced, Closed, Behind, MirrorAgrees, MembersOf, MirrorOf,
     Holds, KeyAt
<1>3. ASSUME NEW r \in Requests, NEW c, Start(r, c) PROVE MirrorInv'
  <2>1. /\ requests'[r].stage \in {"access", "onboard", "reject", "load"}
        /\ requests'[r].role = None /\ requests'[r].row = None
        /\ \A p \in Requests : p # r => requests'[p] = requests[p]
        /\ UNCHANGED <<memberships, mirror, ledger>>
    BY <1>3, Started DEF tables
  <2>2. \A p \in Requests : p # r => requests[p].stage = "idle"
    BY <2>1 DEF OneAtATime
  <2> QED BY <2>1, <2>2, OutsideKeepsMirror DEF WorkflowStages
<1>4. ASSUME NEW r \in Requests, Fault(r) \/ Crash(r) PROVE MirrorInv'
  BY <1>4, FailingKeepsMirror
<1>5. ASSUME NEW u \in Users, CancelWaiting(u) PROVE MirrorInv'
  BY <1>2, <1>5 DEF CancelWaiting
<1>6. CASE UNCHANGED vars
  BY <1>2, <1>6 DEF vars
<1> QED BY <1>1, <1>3, <1>4, <1>5, <1>6 DEF Next, Begin, Retry

LEMMA MirrorTraced == MirrorInv => NoSilentDivergence
<1> SUFFICES ASSUME MirrorInv, NEW u \in Users,
                    \A k \in Keys : k.user = u /\ ledger[k] # None => ledger[k].status = "completed"
             PROVE  MirrorAgrees(u)
  BY DEF NoSilentDivergence
<1>1. ~Behind(u)
  BY DEF Behind, MirrorInv, Closed, Synced
<1> QED BY <1>1 DEF MirrorInv, Traced

\* A row that is completed is written no more: no request at work has it.
LEMMA CompletedStays ==
  ASSUME LedgerInv, MirrorInv, [Next]_vars,
         NEW k \in Keys, ledger[k] # None, ledger[k].status = "completed"
  PROVE  ledger'[k].status = "completed"
<1>1. ASSUME NEW r \in Requests, Load(r) PROVE ledger'[k] = ledger[k]
  <2>1. ledger' = [ledger EXCEPT ![KeyAt(r)] = RowOf(r)]
    BY <1>1, LoadedTo
  <2>2. KeyAt(r) = k => RowOf(r) = ledger[k]
    BY DEF RowOf
  <2> QED BY <2>1, <2>2 DEF LedgerInv, LedgerTyped
<1>2. ASSUME NEW r \in Requests, Mark(r) \/ RecordFailure(r) PROVE ledger'[k] = ledger[k]
  <2>1. requests[r].stage \in WorkflowStages
    BY <1>2 DEF Mark, RecordFailure, WorkflowStages
  <2>2. KeyAt(r) # k
    BY <2>1 DEF MirrorInv, Resumes
  <2> QED BY <1>2, <2>2 DEF Mark, RecordFailure, LedgerInv, LedgerTyped
<1>3. ASSUME ledger' # ledger
      PROVE  \E r \in Requests : Load(r) \/ Mark(r) \/ RecordFailure(r)
  <2>1. CASE \E r \in Requests : Step(r)
    <3>1. PICK r \in Requests : Step(r)
      BY <2>1
    <3> QED BY <1>3, <3>1 DEF Step, CommitLocal, SyncUpstream, CheckAccess, CheckTarget,
         CheckAdmins, CheckOnboarding, ChooseOrganization, SetWaiting, Reject, RejectAudit,
         CommitRead, UniqueViolation, CommitApproval, CommitOrganization, CommitRole,
         CommitDelete, Committed, SyncMember, SyncRow, SyncDelete, SyncInsert, SyncUpdate, Audit,
         tables
  <2>2. CASE ~ \E r \in Requests : Step(r)
    BY <1>3, <2>2 DEF Next, Begin, Retry, Start, Fault, Crash, CancelWaiting, tables, vars
  <2> QED BY <2>1, <2>2
<1> QED BY <1>1, <1>2, <1>3

LEMMA MirrorBegins ==
  ASSUME NEW M, M \subseteq MemberType, \A m, n \in M : m.user = n.user => m = n,
         memberships = M,
         mirror = {[id |-> m.user, user |-> m.user, role |-> m.role, groups |-> {}] : m \in M},
         ledger = [k \in Keys |-> None], requests = [r \in Requests |-> Idle(None)]
  PROVE  MirrorInv
<1> DEFINE Row(m) == [id |-> m.user, user |-> m.user, role |-> m.role, groups |-> {}]
<1>1. \A m \in M : Row(m).user = m.user /\ Row(m).role = m.role
  OBVIOUS
<1>2. mirror = {Row(m) : m \in M}
  OBVIOUS
<1> HIDE DEF Row
<1>3. OneRow
  BY <1>1, <1>2 DEF OneRow
<1>4. ASSUME NEW u \in Users PROVE MirrorAgrees(u)
  <2>1. CASE MembersOf(u) = {}
    BY <1>1, <1>2, <2>1 DEF MirrorAgrees, MembersOf, MirrorOf
  <2>2. CASE MembersOf(u) # {}
    <3>1. PICK m \in M : m.user = u
      BY <2>2 DEF MembersOf
    <3>2. MirrorOf(u) = {Row(m)} /\ m \in MembersOf(u)
      BY <1>1, <1>2, <3>1 DEF MirrorOf, MembersOf
    <3> QED BY <1>1, <2>2, <3>1, <3>2 DEF MirrorAgrees
  <2> QED BY <2>1, <2>2
<1>5. Closed
  BY DEF Closed
<1>6. \A r \in Requests : requests[r].stage \notin WorkflowStages /\ Holds(requests[r])
  BY DEF Idle, Holds, WorkflowStages
<1> QED BY <1>3, <1>4, <1>5, <1>6 DEF MirrorInv, Traced

LEMMA MirrorFollowed == Spec /\ []OneAtATime => []MirrorInv
<1>1. Init => MirrorInv
  BY MirrorBegins, UserMutationsAssumption DEF Init
<1> QED BY <1>1, MirrorKept, LedgerInvariant, PTL DEF Spec

\* While handlers do not overlap, the role mirror differs from the memberships
\* only where the ledger shows an operation that is not completed.
THEOREM DivergenceIsTraced == Spec /\ []OneAtATime => []NoSilentDivergence
BY MirrorFollowed, MirrorTraced, PTL

\* While handlers do not overlap, nothing reopens an operation once completed.
THEOREM CompletedForGood == Spec /\ []OneAtATime => CompletedIsPermanent
<1>1. LedgerInv /\ MirrorInv /\ [Next]_vars =>
        [\A k \in Keys :
           ledger[k] /= None /\ ledger[k].status = "completed"
             => ledger'[k].status = "completed"]_vars
  BY CompletedStays
<1> QED BY <1>1, MirrorFollowed, LedgerInvariant, PTL DEF Spec, CompletedIsPermanent

-----------------------------------------------------------------------------
(* The instances of the run *)

LEMMA InstancesBegin ==
  ASSUME InstancesInit
  PROVE  \E M : /\ M \subseteq MemberType /\ Founding(M)
                /\ \A m, n \in M : m.user = n.user => m = n
                /\ instance = "sequential" => M = TwoAdmins
<1>1. CASE Instances[instance].members = TwoAdmins
  <2>1. Founding(TwoAdmins)
    BY <1>1 DEF InstancesInit, Founding, WithTwoAdmins!Init, WithTwoAdmins!Keys, Keys,
       WithTwoAdmins!KeyOf, KeyOf, WithTwoAdmins!LedgerKinds, LedgerKinds, WithTwoAdmins!Idle, Idle
  <2>2. TwoAdmins \subseteq MemberType /\ \A m, n \in TwoAdmins : m.user = n.user => m = n
    BY InstancesAssumption DEF WithTwoAdmins!UserMutationsAssumption, WithTwoAdmins!MemberType,
       WithTwoAdmins!Roles, MemberType, Roles
  <2> QED BY <2>1, <2>2
<1>2. CASE Instances[instance].members # TwoAdmins
  <2>1. instance # "sequential"
    BY <1>2 DEF Instances
  <2>2. Founding(InitialMembers)
    BY <1>2 DEF InstancesInit, Init, Founding
  <2> QED BY <2>1, <2>2, UserMutationsAssumption
<1> QED BY <1>1, <1>2

\* The invariants, for whichever instance was chosen.
InstancesInv ==
  /\ LedgerInv
  /\ OneMembershipPerUser
  /\ instance = "sequential" => OneAtATime /\ WaitInv /\ AdminInv /\ MirrorInv

LEMMA InstancesInitSound == InstancesInit => InstancesInv
<1> SUFFICES ASSUME InstancesInit PROVE InstancesInv
  OBVIOUS
<1>1. PICK M : /\ M \subseteq MemberType /\ Founding(M)
               /\ \A m, n \in M : m.user = n.user => m = n
               /\ instance = "sequential" => M = TwoAdmins
  BY InstancesBegin
<1>2. LedgerInv /\ OneMembershipPerUser
  BY <1>1, FoundingSound DEF OneMembershipPerUser, Founding
<1>3. OneAtATime /\ WaitInv
  BY <1>1 DEF Founding, OneAtATime, WaitInv, MembersDoNotWait, Idle
<1>4. MirrorInv
  BY <1>1, MirrorBegins DEF Founding
<1>5. instance = "sequential" => AdminInv
  <2>1. \A m \in TwoAdmins : \E a \in TwoAdmins : a.org = m.org /\ a.role = "admin"
    BY DEF TwoAdmins
  <2> QED BY <1>1, <2>1 DEF Founding, AdminInv, OrgKeepsAdmin, AdminsOf, Idle
<1> QED BY <1>2, <1>3, <1>4, <1>5 DEF InstancesInv

LEMMA WithinIsAlone ==
  ASSUME Within, instance = "sequential"
  PROVE  OneAtATime'
<1> DEFINE busy == {r \in Requests : requests'[r].stage # "idle"}
<1>1. Cardinality(busy) <= 1 /\ IsFiniteSet(busy)
  BY InstancesAssumption, FS_Subset DEF Within
<1> HIDE DEF busy
<1>2. ASSUME NEW r \in busy, NEW p \in busy, r # p PROVE FALSE
  <2>1. IsFiniteSet({r}) /\ Cardinality({r}) = 1
    BY FS_Singleton
  <2>2. p \notin {r} /\ {r} \union {p} \subseteq busy
    BY <1>2
  <2>3. Cardinality({r} \union {p}) = 2
    BY <2>1, <2>2, FS_AddElement
  <2>4. Cardinality(busy) \in Nat
    BY <1>1, FS_CardinalityType
  <2>5. Cardinality({r} \union {p}) <= Cardinality(busy)
    BY <1>1, <2>2, FS_Subset
  <2> QED BY <1>1, <2>3, <2>4, <2>5
<1> QED BY <1>2 DEF OneAtATime, busy

LEMMA InstancesKept == InstancesInv /\ [InstancesNext]_<<vars, instance>> => InstancesInv'
<1> SUFFICES ASSUME InstancesInv, [InstancesNext]_<<vars, instance>> PROVE InstancesInv'
  OBVIOUS
<1>1. [Next]_vars /\ instance' = instance
  BY DEF InstancesNext
<1>2. LedgerInv' /\ OneMembershipPerUser'
  BY <1>1, NextSound, OneMembershipKept DEF InstancesInv
<1>3. ASSUME instance = "sequential" PROVE OneAtATime'
  <2>1. CASE InstancesNext
    BY <1>3, <2>1, WithinIsAlone DEF InstancesNext
  <2>2. CASE UNCHANGED <<vars, instance>>
    BY <1>3, <2>2 DEF InstancesInv, OneAtATime, vars
  <2> QED BY <2>1, <2>2
<1>4. ASSUME instance = "sequential" PROVE WaitInv' /\ AdminInv' /\ MirrorInv'
  BY <1>1, <1>3, <1>4, WaitKept, AdminsKept, MirrorKept DEF InstancesInv
<1> QED BY <1>1, <1>2, <1>3, <1>4 DEF InstancesInv

LEMMA InstancesSound == InstancesSpec => []InstancesInv
BY InstancesInitSound, InstancesKept, PTL DEF InstancesSpec

\* One handler at a time, joining an organization takes the user off the list.
THEOREM InstancesDoNotWait == InstancesSpec => []AloneMembersDoNotWait
<1>1. InstancesInv => AloneMembersDoNotWait
  BY DEF InstancesInv, WaitInv, AloneMembersDoNotWait
<1> QED BY <1>1, InstancesSound, PTL

\* One handler at a time, an organization keeps an administrator.
THEOREM InstancesKeepAdmins == InstancesSpec => []AloneOrgKeepsAdmin
<1>1. InstancesInv => AloneOrgKeepsAdmin
  BY DEF InstancesInv, AdminInv, AloneOrgKeepsAdmin
<1> QED BY <1>1, InstancesSound, PTL

\* One handler at a time, the mirror diverges only where the ledger says so.
THEOREM InstancesDivergeOnRecord == InstancesSpec => []AloneNoSilentDivergence
<1>1. InstancesInv => AloneNoSilentDivergence
  BY MirrorTraced DEF InstancesInv, AloneNoSilentDivergence
<1> QED BY <1>1, InstancesSound, PTL

\* One handler at a time, nothing reopens a completed operation.
THEOREM InstancesStayCompleted == InstancesSpec => AloneCompletedIsPermanent
<1>1. InstancesInv /\ [InstancesNext]_<<vars, instance>> =>
        [instance = "sequential" =>
           \A k \in Keys :
             ledger[k] /= None /\ ledger[k].status = "completed"
               => ledger'[k].status = "completed"]_<<vars, instance>>
  BY CompletedStays DEF InstancesInv, InstancesNext
<1> QED BY <1>1, InstancesSound, PTL DEF InstancesSpec, AloneCompletedIsPermanent
=============================================================================
