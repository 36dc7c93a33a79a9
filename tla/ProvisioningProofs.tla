------------------------- MODULE ProvisioningProofs -------------------------
(* What Provisioning guarantees for every set of resources, names, teachers,  *)
(* handlers and calls and every number of failures. The first part is an      *)
(* induction on ProvisioningInv, with one lemma per action. The second part   *)
(* is about a single handler (OneHandler): by AloneInv a resource is never    *)
(* forgotten, and a group goes through ResourceLifecycle.                     *)
EXTENDS Provisioning, TLAPS

-----------------------------------------------------------------------------
(* Lemmas about the operators *)

LEMMA KeyFacts ==
  ASSUME NEW c \in CallType
  PROVE  /\ KeyOf(c) \in CallType /\ KeyOf(KeyOf(c)) = KeyOf(c)
         /\ KeyOf(c).kind = c.kind /\ KeyOf(c).name = c.name /\ KeyOf(c).id = c.id
         /\ WellFormed(c) => WellFormed(KeyOf(c))
         /\ KeyOf(c).teacher = None
BY DEF KeyOf, CallType, WellFormed

LEMMA KeysTyped ==
  ASSUME NEW k \in Keys
  PROVE  k \in CallType /\ WellFormed(k) /\ KeyOf(k) = k /\ k.teacher = None
<1>1. PICK c \in Calls : k = KeyOf(c)
  BY DEF Keys
<1>2. c \in CallType /\ WellFormed(c)
  BY ProvisioningAssumption DEF WellFormed
<1> QED BY <1>1, <1>2, KeyFacts

LEMMA KindsApart ==
  /\ CreateKinds \intersect DeleteKinds = {}
  /\ \A c \in CallType : c.kind \in CreateKinds \/ c.kind \in DeleteKinds
BY DEF CreateKinds, DeleteKinds, CallType

LEMMA IdsOfIds == \A kind : IdsOf(kind) \subseteq Ids
BY DEF IdsOf, Ids

LEMMA IdleWellFormed ==
  ASSUME NEW answer \in {"ok", "refused", "error", None}
  PROVE  /\ Idle(answer) \in RequestType /\ RequestWellFormed(Idle(answer))
         /\ Idle(answer).stage = "idle"
BY DEF Idle, RequestType, RequestWellFormed, OperationSteps

\* More effects make no known effect unknown.
LEMMA KnowledgeGrows ==
  ASSUME NEW done, NEW later, done \subseteq later
  PROVE  /\ \A q : RequestKnows(q, done) => RequestKnows(q, later)
         /\ \A k, row : RowTellsTruth(k, row, done) => RowTellsTruth(k, row, later)
BY DEF RequestKnows, CreationKnows, DeletionKnows, RowTellsTruth

\* What is known of a handler at work.
LEMMA Busy ==
  ASSUME ProvisioningInv, NEW r \in Requests, requests[r].stage \in Stages
  PROVE  /\ requests[r] \in RequestType /\ RequestWellFormed(requests[r])
         /\ BusyWellFormed(requests[r]) /\ requests[r].call \in CallType
         /\ WellFormed(requests[r].call) /\ requests[r].call /= None
         /\ requests[r].call.kind \in KindsAt(requests[r].stage)
         /\ KeyAt(r) \in Keys /\ KeyAt(r) = KeyOf(requests[r].call)
         /\ KeyAt(r).kind = requests[r].call.kind /\ KeyAt(r).id = requests[r].call.id
         /\ RequestKnows(requests[r], did[KeyAt(r)])
         /\ requests[r].stage \in WorkflowStages => ledger[KeyAt(r)] /= None
<1>1. requests[r].stage /= "idle"
  BY DEF Stages
<1>2. requests[r] \in RequestType /\ RequestWellFormed(requests[r])
  BY DEF ProvisioningInv, RequestsTyped
<1>3. BusyWellFormed(requests[r]) /\ requests[r].call /= None
  BY <1>1, <1>2 DEF RequestWellFormed
<1>4. RequestKnows(requests[r], did[KeyAt(r)])
  BY DEF ProvisioningInv, RequestsKnow
<1>5. requests[r].stage \in WorkflowStages => ledger[KeyAt(r)] /= None
  BY DEF ProvisioningInv, RowsLoaded
<1> QED BY <1>2, <1>3, <1>4, <1>5, KeyFacts DEF BusyWellFormed, KeyAt

-----------------------------------------------------------------------------
(* What a step must show *)

\* A step of one handler keeps the invariant if what it leaves in its slot, and
\* in the row it may write, is sound; the effects only grow.
LEMMA HandlerStep ==
  ASSUME ProvisioningInv, NEW r \in Requests, NEW q \in RequestType, RequestWellFormed(q),
         requests' = [requests EXCEPT ![r] = q],
         TablesTyped',
         \A k \in Keys : did[k] \subseteq did'[k],
         \A k \in Keys : \/ ledger'[k] = ledger[k]
                         \/ ledger'[k] /= None /\ RowTellsTruth(k, ledger'[k], did'[k]),
         q.stage \in WorkflowStages =>
           ledger'[KeyOf(q.call)] /= None /\ RequestKnows(q, did'[KeyOf(q.call)]),
         IdsKnown', SettledIsCreated', SettledWasLinked'
  PROVE  ProvisioningInv'
<1>1. /\ requests'[r] = q
      /\ \A p \in Requests : p /= r => requests'[p] = requests[p]
      /\ RequestsTyped'
  BY DEF ProvisioningInv, RequestsTyped
<1>2. ASSUME NEW p \in Requests, p /= r, requests[p].stage \in WorkflowStages
      PROVE  KeyAt(p) \in Keys /\ KeyAt(p)' = KeyAt(p)
  BY <1>1, <1>2, Busy DEF WorkflowStages, KeyAt
<1>3. RowsLoaded'
  BY <1>1, <1>2 DEF ProvisioningInv, RowsLoaded, KeyAt
<1>4. LedgerTellsTruth'
  BY KnowledgeGrows DEF ProvisioningInv, LedgerTellsTruth
<1>5. ASSUME NEW p \in Requests
      PROVE  RequestKnows(requests'[p], did'[KeyAt(p)'])
  <2>1. CASE p = r
    BY <1>1, <2>1 DEF KeyAt, RequestKnows
  <2>2. CASE p /= r
    BY <1>1, <1>2, <2>2, KnowledgeGrows DEF ProvisioningInv, RequestsKnow, RequestKnows
  <2> QED BY <2>1, <2>2
<1> QED BY <1>1, <1>3, <1>4, <1>5 DEF ProvisioningInv, RequestsKnow

\* A step that names no resource anew and settles none keeps what is known of
\* the resources.
LEMMA NamesKept ==
  ASSUME ProvisioningInv, NEW r \in Requests, NEW q,
         requests' = [requests EXCEPT ![r] = q],
         UNCHANGED created, Existing' \subseteq Existing, Linked' \subseteq Linked,
         \A k \in Keys : did[k] \subseteq did'[k],
         \A k \in Creations, id \in Ids :
           HoldsRow(k, id)' \/ HoldsRequest(q, k, id) => Holds(k, id),
         HasSeenLink(q) => Settled(q.call.id),
         \A k \in Deletions : ledger'[k] /= None /\ ledger'[k].result /= None => Settled(k.id),
         \A id \in Existing : id \notin Existing' => Settled(id)
  PROVE  IdsKnown' /\ SettledIsCreated' /\ SettledWasLinked'
<1>1. /\ requests'[r] = q
      /\ \A p \in Requests : p /= r => requests'[p] = requests[p]
  BY DEF ProvisioningInv, RequestsTyped
<1>2. ASSUME NEW k \in Creations, NEW id \in Ids, Holds(k, id)' PROVE Holds(k, id)
  BY <1>1, <1>2 DEF Holds
<1>3. ASSUME NEW id \in Ids, Settled(id)' PROVE Settled(id)
  BY <1>1, <1>3 DEF Settled
<1>4. IdsKnown'
  BY <1>2 DEF ProvisioningInv, IdsKnown
<1>5. SettledIsCreated'
  BY <1>3 DEF ProvisioningInv, SettledIsCreated
<1>6. SettledWasLinked'
  BY <1>2, <1>3 DEF ProvisioningInv, SettledWasLinked, Creations
<1> QED BY <1>4, <1>5, <1>6

\* A step that reads, or writes no more than the role rows.
LEMMA HandlerMoves ==
  ASSUME ProvisioningInv, NEW r \in Requests, NEW q \in RequestType, RequestWellFormed(q),
         requests' = [requests EXCEPT ![r] = q],
         TablesTyped', UNCHANGED <<upstream, created, links, ledger, did>>,
         q.stage \in WorkflowStages =>
           /\ requests[r].stage \in WorkflowStages /\ q.call = requests[r].call
           /\ RequestKnows(q, did[KeyOf(q.call)]),
         \A k \in Creations, id \in Ids : HoldsRequest(q, k, id) => Holds(k, id),
         HasSeenLink(q) => Settled(q.call.id)
  PROVE  ProvisioningInv'
<1>1. Existing' = Existing /\ Linked' = Linked
  BY DEF Existing, Linked
<1>2. \A k \in Creations, id \in Ids : HoldsRow(k, id)' => Holds(k, id)
  BY DEF Holds, HoldsRow
<1>3. \A k \in Deletions : ledger'[k] /= None /\ ledger'[k].result /= None => Settled(k.id)
  BY DEF Settled
<1>4. IdsKnown' /\ SettledIsCreated' /\ SettledWasLinked'
  BY <1>1, <1>2, <1>3, NamesKept
<1>5. q.stage \in WorkflowStages => ledger'[KeyOf(q.call)] /= None
  BY DEF ProvisioningInv, RowsLoaded, KeyAt
<1> QED BY <1>4, <1>5, HandlerStep

LEMMA HandlerReturns ==
  ASSUME ProvisioningInv, NEW r \in Requests, NEW answer \in {"ok", "refused", "error", None},
         End(r, answer), TablesTyped', UNCHANGED <<upstream, created, links, ledger, did>>
  PROVE  ProvisioningInv'
BY IdleWellFormed, HandlerMoves DEF End, WorkflowStages, Stages, HoldsRequest, HasSeenLink

LEMMA GotoSound ==
  ASSUME ProvisioningInv, NEW r \in Requests, NEW stage \in Stages, requests[r].stage \in Stages,
         Goto(r, stage), TablesTyped', UNCHANGED <<upstream, created, links, ledger, did>>,
         BusyWellFormed([requests[r] EXCEPT !.stage = stage]),
         stage \in WorkflowStages =>
           /\ requests[r].stage \in WorkflowStages
           /\ RequestKnows([requests[r] EXCEPT !.stage = stage], did[KeyAt(r)]),
         HasSeenLink([requests[r] EXCEPT !.stage = stage]) => Settled(requests[r].call.id)
  PROVE  ProvisioningInv'
<1> DEFINE q == [requests[r] EXCEPT !.stage = stage]
<1>1. /\ q \in RequestType /\ q.stage = stage /\ q.call = requests[r].call
      /\ q.result = requests[r].result /\ q.found = requests[r].found
      /\ requests' = [requests EXCEPT ![r] = q]
  BY Busy DEF RequestType, Goto
<1>2. stage /= "idle" /\ requests[r].stage /= "idle"
  BY DEF Stages
<1>3. RequestWellFormed(q)
  BY <1>1, <1>2, Busy DEF RequestWellFormed
<1>4. \A k \in Creations, id \in Ids : HoldsRequest(q, k, id) => Holds(k, id)
  BY <1>1, <1>2 DEF HoldsRequest, Holds
<1>5. stage \in WorkflowStages => RequestKnows(q, did[KeyOf(q.call)])
  BY <1>1 DEF KeyAt
<1>6. HasSeenLink(q) => Settled(q.call.id)
  BY <1>1
<1> HIDE DEF q
<1> QED BY <1>1, <1>3, <1>4, <1>5, <1>6, HandlerMoves

LEMMA TablesKept ==
  ASSUME ProvisioningInv, UNCHANGED tables, faults' \in 0..MaxFaults
  PROVE  TablesTyped' /\ UNCHANGED <<upstream, created, links, ledger, did>>
BY DEF ProvisioningInv, TablesTyped, tables

LEMMA FaultsTyped == ProvisioningInv => faults \in 0..MaxFaults
BY DEF ProvisioningInv, TablesTyped

-----------------------------------------------------------------------------
(* Starting, and checking access *)

LEMMA InitSound == Init => ProvisioningInv
<1> SUFFICES ASSUME Init PROVE ProvisioningInv
  OBVIOUS
<1>1. TablesTyped
  BY ProvisioningAssumption DEF Init, TablesTyped
<1>2. RequestsTyped /\ RowsLoaded /\ RequestsKnow
  BY IdleWellFormed DEF Init, RequestsTyped, RowsLoaded, RequestsKnow, RequestKnows,
                        WorkflowStages, Stages
<1>3. /\ \A r \in Requests : requests[r].stage = "idle"
      /\ \A k \in Keys : ledger[k] = None
      /\ Existing = {} /\ Linked = {} /\ created = {}
  BY DEF Init, Idle, Existing, Linked
<1>4. LedgerTellsTruth
  BY <1>3 DEF LedgerTellsTruth
<1>5. /\ \A k \in Creations, id \in Ids : ~Holds(k, id)
      /\ \A id \in Ids : ~Settled(id)
  BY <1>3 DEF Holds, HoldsRow, HoldsRequest, Settled, HasSeenLink, Creations, Deletions
<1>6. IdsKnown /\ SettledIsCreated /\ SettledWasLinked
  BY <1>3, <1>5 DEF IdsKnown, SettledIsCreated, SettledWasLinked
<1> QED BY <1>1, <1>2, <1>4, <1>6 DEF ProvisioningInv

LEMMA StartSound ==
  ASSUME ProvisioningInv, NEW r \in Requests, NEW c \in CallType, WellFormed(c),
         KeyOf(c) \in Keys, Start(r, c)
  PROVE  ProvisioningInv'
<1> DEFINE q == [Idle(None) EXCEPT !.stage = EntryStage(c.kind), !.call = c]
<1>1. /\ q.stage = EntryStage(c.kind) /\ q.call = c /\ q.result = None /\ q.found = None
      /\ q.stage \in {"access", "load"} /\ (q.stage = "access" <=> c.kind = "delete_group")
  BY DEF Idle, EntryStage
<1>2. q \in RequestType
  BY <1>1 DEF Idle, RequestType, OperationSteps, Stages
<1>3. c.kind \in KindsAt(q.stage)
  BY <1>1 DEF CallType, KindsAt, CreateKinds, DeleteKinds
<1>4. RequestWellFormed(q)
  BY <1>1, <1>3, ProvisioningAssumption
     DEF RequestWellFormed, BusyWellFormed, GrantStages, CreatedStages, FoundStages
<1>5. /\ TablesTyped' /\ UNCHANGED <<upstream, created, links, ledger, did>>
      /\ requests' = [requests EXCEPT ![r] = q]
  BY DEF Start, tables, ProvisioningInv, TablesTyped
<1>6. \A k \in Creations, id \in Ids : ~HoldsRequest(q, k, id)
  BY <1>1, ProvisioningAssumption DEF HoldsRequest
<1>7. ~HasSeenLink(q)
  BY <1>1 DEF HasSeenLink, IsGroup, DeleteKinds
<1> HIDE DEF q
<1> QED BY <1>1, <1>2, <1>4, <1>5, <1>6, <1>7, HandlerMoves DEF WorkflowStages

LEMMA BeginSound ==
  ASSUME ProvisioningInv, NEW r \in Requests, Begin(r)
  PROVE  ProvisioningInv'
<1>1. PICK c \in Calls : Start(r, c)
  BY DEF Begin
<1>2. c \in CallType /\ WellFormed(c) /\ KeyOf(c) \in Keys
  BY ProvisioningAssumption DEF Keys, WellFormed
<1> QED BY <1>1, <1>2, StartSound

LEMMA RetrySound ==
  ASSUME ProvisioningInv, NEW r \in Requests, NEW k \in Keys, Retry(r, k)
  PROVE  ProvisioningInv'
BY KeysTyped, StartSound DEF Retry

LEMMA CheckLinkSound ==
  ASSUME ProvisioningInv, NEW r \in Requests, CheckLink(r)
  PROVE  ProvisioningInv'
<1> DEFINE c == requests[r].call
           stage == IF c.teacher = None THEN "usable" ELSE "grant"
           q == [requests[r] EXCEPT !.stage = stage]
<1>1. /\ requests[r].stage = "access" /\ TablesTyped'
      /\ UNCHANGED <<upstream, created, links, ledger, did>>
  BY TablesKept, FaultsTyped DEF CheckLink
<1>2. /\ BusyWellFormed(requests[r]) /\ c \in CallType /\ c.kind = "delete_group"
      /\ requests[r] \in RequestType
  BY <1>1, Busy DEF Stages, KindsAt
<1>3. CASE c.id \notin Linked
  BY <1>1, <1>3, HandlerReturns DEF CheckLink
<1>4. CASE c.id \in Linked
  <2>1. Goto(r, stage) /\ stage \in {"usable", "grant"} /\ stage \in Stages
    BY <1>4 DEF CheckLink, Stages
  <2>2. /\ q.stage = stage /\ q.call = c
    BY <1>2 DEF RequestType
  <2>3. stage = "grant" => c.teacher \in Teachers
    BY <1>2 DEF CallType
  <2>4. BusyWellFormed(q)
    BY <1>2, <2>1, <2>2, <2>3 DEF BusyWellFormed, KindsAt, GrantStages, CreateKinds
  <2>5. Settled(c.id)
    BY <1>4 DEF Settled
  <2> HIDE DEF stage
  <2> QED BY <1>1, <2>1, <2>4, <2>5, GotoSound DEF Stages, WorkflowStages
<1> QED BY <1>3, <1>4

LEMMA CheckGrantSound ==
  ASSUME ProvisioningInv, NEW r \in Requests, CheckGrant(r)
  PROVE  ProvisioningInv'
<1> DEFINE q == [requests[r] EXCEPT !.stage = "usable"]
<1>1. /\ requests[r].stage = "grant" /\ TablesTyped'
      /\ UNCHANGED <<upstream, created, links, ledger, did>>
      /\ Goto(r, "usable") \/ End(r, "refused")
  BY TablesKept, FaultsTyped DEF CheckGrant
<1>2. /\ BusyWellFormed(requests[r]) /\ requests[r].call \in CallType
      /\ requests[r].call.kind = "delete_group" /\ requests[r] \in RequestType
  BY <1>1, Busy DEF Stages, KindsAt
<1>3. /\ q.stage = "usable" /\ q.call = requests[r].call
  BY <1>2 DEF RequestType
<1>4. BusyWellFormed(q)
  BY <1>2, <1>3 DEF BusyWellFormed, KindsAt, GrantStages, CreateKinds
<1>5. Settled(requests[r].call.id)
  BY <1>1, <1>2, KeyFacts DEF Settled, HasSeenLink, DeleteKinds
<1> QED BY <1>1, <1>4, <1>5, HandlerReturns, GotoSound DEF Stages, WorkflowStages

LEMMA CheckUsableSound ==
  ASSUME ProvisioningInv, NEW r \in Requests, CheckUsable(r)
  PROVE  ProvisioningInv'
<1> DEFINE q == [requests[r] EXCEPT !.stage = "load"]
<1>1. /\ requests[r].stage = "usable" /\ TablesTyped'
      /\ UNCHANGED <<upstream, created, links, ledger, did>>
      /\ Goto(r, "load") \/ End(r, "refused")
  BY TablesKept, FaultsTyped DEF CheckUsable
<1>2. /\ BusyWellFormed(requests[r]) /\ requests[r].call \in CallType
      /\ requests[r].call.kind = "delete_group" /\ requests[r] \in RequestType
  BY <1>1, Busy DEF Stages, KindsAt
<1>3. /\ q.stage = "load" /\ q.call = requests[r].call
  BY <1>2 DEF RequestType
<1>4. BusyWellFormed(q)
  BY <1>2, <1>3 DEF BusyWellFormed, KindsAt, GrantStages, CreateKinds, DeleteKinds
<1>5. Settled(requests[r].call.id)
  BY <1>1, <1>2, KeyFacts DEF Settled, HasSeenLink, DeleteKinds
<1> QED BY <1>1, <1>4, <1>5, HandlerReturns, GotoSound DEF Stages, WorkflowStages

-----------------------------------------------------------------------------
(* Loading the operation *)

LEMMA ReachedLink ==
  ASSUME NEW step \in OperationSteps
  PROVE  HasReachedStep(step, "local_linked", UpstreamFirstOrder)
           => step \in {"local_linked", "completed"}
<1> DEFINE order == <<"pending", "upstream_created", "local_linked", "completed">>
<1>1. DOMAIN order = 1..4
  OBVIOUS
<1>2. /\ order[1] = "pending" /\ order[2] = "upstream_created"
      /\ order[3] = "local_linked" /\ order[4] = "completed"
  OBVIOUS
<1>3. ASSUME NEW i \in 1..4, NEW j \in 1..4, j <= i, order[j] = "local_linked"
      PROVE  order[i] \in {"local_linked", "completed"}
  <2>1. j = 3 /\ i \in {3, 4}
    BY <1>2, <1>3
  <2> QED BY <1>2, <2>1
<1> HIDE DEF order
<1>4. UpstreamFirstOrder = order
  BY DEF UpstreamFirstOrder, order
<1> QED BY <1>1, <1>3, <1>4 DEF HasReachedStep

\* Where a creation with a result goes: what it skips has been done.
LEMMA AfterFindSound ==
  ASSUME NEW seen \in OperationSteps, NEW result, result /= None
  PROVE  /\ AfterFind(seen, result) \in {"read_link", "complete"}
         /\ AfterFind(seen, result) = "complete" => seen \in {"local_linked", "completed"}
BY ReachedLink DEF AfterFind, RunsLinkLocal

LEMMA FirstStageSound ==
  ASSUME NEW c \in CallType, NEW result
  PROVE  /\ c.kind \in CreateKinds =>
              FirstStage(c, result) = IF result = None THEN "create" ELSE "find"
         /\ c.kind = "delete_group" =>
              FirstStage(c, result) = IF result = None THEN "unlink" ELSE "references"
         /\ c.kind = "delete_classroom" =>
              FirstStage(c, result) = IF result = None THEN "unlink_read" ELSE "remove"
BY DEF FirstStage, RunsCreateUpstream, RunsCommitLocalDelete, CreateKinds, CallType

LEMMA LoadSound ==
  ASSUME ProvisioningInv, NEW r \in Requests, Load(r)
  PROVE  ProvisioningInv'
<1> DEFINE c == requests[r].call
           k == KeyOf(c)
           operation == IF ledger[k] = None THEN NewOperation(None) ELSE ledger[k]
           stage == FirstStage(c, operation.result)
           q == IF AlreadyCompleted(c, operation)
                THEN Idle(IF c.kind \in CreateKinds THEN "refused" ELSE "ok")
                ELSE [requests[r] EXCEPT !.stage = stage, !.seen = operation.step,
                                         !.result = operation.result]
<1>1. requests[r].stage = "load"
  BY DEF Load
<1>2. /\ BusyWellFormed(requests[r]) /\ c \in CallType /\ requests[r] \in RequestType
      /\ k \in Keys /\ k.kind = c.kind /\ k.id = c.id
  BY <1>1, Busy DEF Stages
<1>3. /\ operation \in OperationType /\ RowTellsTruth(k, operation, did[k])
      /\ operation /= None
      /\ operation.result \in {None} \union Ids
      /\ operation.result /= None => HoldsRow(k, operation.result)
  <2>1. CASE ledger[k] = None
    <3>1. operation \in OperationType /\ operation.result = None /\ operation.step = "pending"
          /\ operation.status = "in_progress"
      BY <2>1 DEF NewOperation, OperationType, OperationStatuses, OperationSteps
    <3> QED BY <3>1, ProvisioningAssumption DEF RowTellsTruth
  <2>2. CASE ledger[k] /= None
    <3>1. ledger[k] \in OperationType /\ RowTellsTruth(k, ledger[k], did[k])
      BY <1>2, <2>2 DEF ProvisioningInv, TablesTyped, LedgerTellsTruth
    <3> QED BY <2>2, <3>1 DEF OperationType, HoldsRow
  <2> QED BY <2>1, <2>2
<1>4. /\ ledger' = [ledger EXCEPT ![k] = operation]
      /\ requests' = [requests EXCEPT ![r] = q]
      /\ UNCHANGED <<upstream, created, links, grants, faults, did>>
  BY <1>2 DEF Load, End, RequestType
<1>5. \A x \in Keys : ledger'[x] = IF x = k THEN operation ELSE ledger[x]
  BY <1>2, <1>4 DEF ProvisioningInv, TablesTyped
<1>6. TablesTyped'
  BY <1>2, <1>3, <1>4 DEF ProvisioningInv, TablesTyped
<1>7. /\ Existing' = Existing /\ Linked' = Linked
  BY <1>4 DEF Existing, Linked
<1>8. ASSUME NEW x \in Creations, NEW id \in Ids, HoldsRow(x, id)'
      PROVE  Holds(x, id)
  BY <1>3, <1>5, <1>8, ProvisioningAssumption DEF HoldsRow, Holds, Creations
<1>9. ASSUME NEW x \in Deletions, ledger'[x] /= None, ledger'[x].result /= None
      PROVE  Settled(x.id)
  BY <1>3, <1>5, <1>9 DEF Settled, Deletions, HoldsRow
<1> HIDE DEF operation
<1>10. CASE AlreadyCompleted(c, operation)
  <2>1. q \in RequestType /\ RequestWellFormed(q) /\ q.stage = "idle"
    BY <1>10, IdleWellFormed
  <2> HIDE DEF q
  <2>2. \A x \in Creations, id \in Ids : ~HoldsRequest(q, x, id)
    BY <2>1 DEF HoldsRequest
  <2>3. ~HasSeenLink(q)
    BY <2>1 DEF HasSeenLink
  <2>4. IdsKnown' /\ SettledIsCreated' /\ SettledWasLinked'
    BY <1>4, <1>7, <1>8, <1>9, <2>2, <2>3, NamesKept
  <2> QED BY <1>3, <1>4, <1>5, <1>6, <2>1, <2>4, HandlerStep DEF WorkflowStages, Stages
<1>11. CASE ~AlreadyCompleted(c, operation)
  <2>1. /\ q.stage = stage /\ q.call = c /\ q.seen = operation.step
        /\ q.result = operation.result /\ q.found = requests[r].found
        /\ q.groups = requests[r].groups /\ q.step = requests[r].step
        /\ q.answer = requests[r].answer
        /\ q = [requests[r] EXCEPT !.stage = stage, !.seen = operation.step,
                                   !.result = operation.result]
    BY <1>2, <1>11 DEF RequestType
  <2> HIDE DEF q, stage
  <2>2. \/ c.kind \in CreateKinds /\ stage = IF operation.result = None THEN "create" ELSE "find"
        \/ c.kind = "delete_group"
             /\ stage = IF operation.result = None THEN "unlink" ELSE "references"
        \/ c.kind = "delete_classroom"
             /\ stage = IF operation.result = None THEN "unlink_read" ELSE "remove"
    BY <1>2, FirstStageSound DEF stage, CallType, CreateKinds, DeleteKinds
  <2>3. stage \in Stages /\ stage # "idle" /\ c.kind \in KindsAt(stage)
    BY <2>2 DEF Stages, KindsAt, CreateKinds, DeleteKinds
  <2>4. q \in RequestType
    BY <1>2, <1>3, <2>1, <2>3 DEF RequestType, OperationType
  <2>5. BusyWellFormed(q)
    BY <1>1, <1>2, <1>3, <2>1, <2>2, <2>3
       DEF BusyWellFormed, GrantStages, CreatedStages, FoundStages, CreateKinds, DeleteKinds
  <2>6. RequestWellFormed(q)
    BY <1>2, <2>1, <2>3, <2>5, ProvisioningAssumption DEF RequestWellFormed
  <2>7. RequestKnows(q, did[k])
    BY <1>1, <1>2, <1>3, <2>1, <2>2
       DEF RequestKnows, CreationKnows, DeletionKnows, RowTellsTruth, CreateKinds,
           BusyWellFormed
  <2>8. ASSUME NEW x \in Creations, NEW id \in Ids, HoldsRequest(q, x, id)
        PROVE  Holds(x, id)
    BY <1>1, <1>2, <1>3, <2>1, <2>8, ProvisioningAssumption
       DEF HoldsRequest, Holds, BusyWellFormed, Creations
  <2>9. ASSUME HasSeenLink(q) PROVE Settled(c.id)
    <3>1. c.kind \in DeleteKinds
      BY <2>1, <2>9 DEF HasSeenLink
    <3>2. CASE c.kind = "delete_group"
      BY <1>1, <1>2, <3>1, <3>2 DEF Settled, HasSeenLink, IsGroup
    <3>3. CASE operation.result # None
      BY <1>2, <1>3, <3>1, <3>3 DEF Settled, Deletions, HoldsRow
    <3>4. CASE c.kind = "delete_classroom" /\ operation.result = None
      BY <2>1, <2>2, <2>9, <3>4 DEF HasSeenLink, CreateKinds
    <3> QED BY <3>1, <3>2, <3>3, <3>4 DEF DeleteKinds
  <2>10. IdsKnown' /\ SettledIsCreated' /\ SettledWasLinked'
    BY <1>4, <1>7, <1>8, <1>9, <2>1, <2>8, <2>9, NamesKept
  <2>11. q.stage \in WorkflowStages =>
          ledger'[KeyOf(q.call)] /= None /\ RequestKnows(q, did'[KeyOf(q.call)])
    BY <1>2, <1>3, <1>4, <1>5, <2>1, <2>7
  <2> HIDE DEF k, c
  <2> QED BY <1>3, <1>4, <1>5, <1>6, <2>4, <2>6, <2>10, <2>11, HandlerStep
<1> QED BY <1>10, <1>11

\* The facts about a creation that is past its upstream insert.
LEMMA Creating ==
  ASSUME ProvisioningInv, NEW r \in Requests, requests[r].stage \in WorkflowStages,
         requests[r].call.kind \in CreateKinds
  PROVE  /\ KeyAt(r) \in Creations /\ CreationKnows(requests[r], did[KeyAt(r)])
         /\ \A id \in Ids : id = requests[r].result \/ id = requests[r].found
              => Holds(KeyAt(r), id) /\ id \in created
         /\ \A id \in Ids : Settled(id) /\ Holds(KeyAt(r), id) => "linked" \in did[KeyAt(r)]
<1>1. requests[r].stage \in Stages /\ requests[r].stage /= "idle"
  BY DEF WorkflowStages, Stages
<1>2. KeyAt(r) \in Creations /\ CreationKnows(requests[r], did[KeyAt(r)])
  BY <1>1, Busy DEF Creations, RequestKnows
<1>3. \A id \in Ids : id = requests[r].result \/ id = requests[r].found => Holds(KeyAt(r), id)
  BY <1>1 DEF Holds, HoldsRequest, KeyAt
<1> QED BY <1>2, <1>3 DEF ProvisioningInv, IdsKnown, SettledWasLinked

LEMMA FindSound ==
  ASSUME ProvisioningInv, NEW r \in Requests, Find(r)
  PROVE  ProvisioningInv'
<1> DEFINE old == requests[r]
           stage == AfterFind(old.seen, old.result)
           found == IF old.result \in Existing THEN old.result ELSE None
           q == [old EXCEPT !.stage = stage, !.found = found]
<1>1. /\ old.stage = "find" /\ TablesTyped' /\ UNCHANGED did
      /\ UNCHANGED <<upstream, created, links, ledger>>
      /\ requests' = [requests EXCEPT ![r].stage = stage, ![r].found = found]
  BY TablesKept, FaultsTyped DEF Find
<1>2. /\ BusyWellFormed(old) /\ old \in RequestType /\ old.call.kind \in CreateKinds
      /\ old.result \in Ids /\ KeyAt(r) = KeyOf(old.call)
  BY <1>1, Busy DEF Stages, KindsAt, BusyWellFormed, CreatedStages
<1>3. /\ CreationKnows(old, did[KeyAt(r)]) /\ Holds(KeyAt(r), old.result)
      /\ old.result \in created
      /\ Settled(old.result) => "linked" \in did[KeyAt(r)]
  BY <1>1, <1>2, Creating DEF WorkflowStages, Stages
<1>4. /\ stage \in {"read_link", "complete"}
      /\ stage = "complete" => old.seen \in {"local_linked", "completed"}
  BY <1>2, AfterFindSound, ProvisioningAssumption DEF RequestType
<1>5. found = None => "linked" \in did[KeyAt(r)]
  BY <1>2, <1>3, ProvisioningAssumption DEF Settled
<1>6. /\ found \in {None} \union Ids /\ found \in {None, old.result}
  BY <1>2
<1> HIDE DEF stage, found
<1>7. /\ q.stage = stage /\ q.found = found /\ q.call = old.call /\ q.result = old.result
      /\ q.seen = old.seen /\ q.step = old.step /\ q.groups = old.groups
      /\ requests' = [requests EXCEPT ![r] = q] /\ q \in RequestType
  BY <1>1, <1>2, <1>4, <1>6 DEF RequestType, Stages
<1> HIDE DEF q
<1>8. BusyWellFormed(q)
  BY <1>2, <1>4, <1>7 DEF BusyWellFormed, KindsAt, GrantStages, FoundStages, CreateKinds
<1>9. RequestWellFormed(q)
  BY <1>4, <1>7, <1>8, ProvisioningAssumption DEF RequestWellFormed, BusyWellFormed
<1>10. RequestKnows(q, did[KeyOf(q.call)])
  BY <1>2, <1>3, <1>4, <1>5, <1>6, <1>7 DEF RequestKnows, CreationKnows
<1>11. \A k \in Creations, id \in Ids : HoldsRequest(q, k, id) => Holds(k, id)
  BY <1>1, <1>6, <1>7, ProvisioningAssumption DEF HoldsRequest, Holds
<1>12. ~HasSeenLink(q)
  BY <1>2, <1>7 DEF HasSeenLink, CreateKinds, DeleteKinds
<1> QED BY <1>1, <1>7, <1>9, <1>10, <1>11, <1>12, HandlerMoves DEF WorkflowStages, Stages

-----------------------------------------------------------------------------
(* Creations *)

LEMMA FailsSound ==
  ASSUME ProvisioningInv, NEW r \in Requests, requests[r].stage \in WorkflowStages,
         Goto(r, "fail"), TablesTyped', UNCHANGED <<upstream, created, links, ledger, did>>
  PROVE  ProvisioningInv'
<1> DEFINE q == [requests[r] EXCEPT !.stage = "fail"]
<1>1. /\ requests[r].stage \in Stages /\ requests[r].stage /= "idle"
  BY DEF WorkflowStages, Stages
<1>2. /\ BusyWellFormed(requests[r]) /\ requests[r].call \in CallType
      /\ requests[r] \in RequestType /\ RequestKnows(requests[r], did[KeyAt(r)])
      /\ KeyAt(r) \in Keys /\ KeyAt(r).id = requests[r].call.id
  BY <1>1, Busy
<1>3. /\ q.stage = "fail" /\ q.call = requests[r].call /\ q.result = requests[r].result
      /\ q.found = requests[r].found /\ q.seen = requests[r].seen
  BY <1>2 DEF RequestType
<1> HIDE DEF q
<1>4. BusyWellFormed(q)
  BY <1>2, <1>3 DEF BusyWellFormed, KindsAt, GrantStages, CreatedStages, FoundStages, CallType
<1>5. RequestKnows(q, did[KeyAt(r)])
  BY <1>2, <1>3 DEF RequestKnows, CreationKnows, DeletionKnows
<1>6. ASSUME HasSeenLink(q) PROVE Settled(requests[r].call.id)
  <2>1. HasSeenLink(requests[r])
    BY <1>1, <1>3, <1>6 DEF HasSeenLink
  <2> QED BY <2>1 DEF Settled
<1> QED BY <1>1, <1>4, <1>5, <1>6, GotoSound DEF Stages, q

\* The insert draws an identifier that nothing names yet.
LEMMA CreateUpstreamSound ==
  ASSUME ProvisioningInv, NEW r \in Requests, CreateUpstream(r)
  PROVE  ProvisioningInv'
<1> DEFINE old == requests[r]
           c == old.call
           k == KeyAt(r)
<1>1. /\ old.stage = "create" /\ old.stage \in WorkflowStages /\ old.stage \in Stages
      /\ UNCHANGED <<links, grants, ledger, faults>>
  BY DEF CreateUpstream, WorkflowStages, Stages
<1>2. /\ BusyWellFormed(old) /\ old \in RequestType /\ c.kind \in CreateKinds /\ c \in CallType
      /\ k = KeyOf(c) /\ c.name \in Names /\ k \in Keys /\ ledger[k] /= None
  BY <1>1, Busy DEF KindsAt, WellFormed
<1>3. k \in Creations /\ CreationKnows(old, did[k])
  BY <1>1, <1>2, Creating
<1>4. CASE NameTaken(c)
  <2>1. Goto(r, "fail") /\ UNCHANGED <<upstream, created, did>>
    BY <1>4 DEF CreateUpstream
  <2>2. TablesTyped'
    BY <1>1, <2>1 DEF ProvisioningInv, TablesTyped
  <2> QED BY <1>1, <2>1, <2>2, FailsSound
<1>5. CASE ~NameTaken(c)
  <2>1. PICK id \in IdsOf(c.kind) \ created, stage \in {"mark", "domains"} :
          /\ stage = "domains" => c.kind = "create_classroom"
          /\ upstream' = upstream \union {[id |-> id, kind |-> c.kind, name |-> c.name]}
          /\ created' = created \union {id}
          /\ requests' = [requests EXCEPT
               ![r].stage = stage, ![r].step = "upstream_created", ![r].found = id,
               ![r].result = IF stage = "mark" THEN id ELSE None]
          /\ Did(r, "upstream")
    BY <1>5 DEF CreateUpstream
  <2> DEFINE result == IF stage = "mark" THEN id ELSE None
             q == [old EXCEPT !.stage = stage, !.step = "upstream_created", !.found = id,
                              !.result = result]
  <2>2. id \in Ids /\ id \notin created /\ result \in {None, id} /\ (stage = "mark" => result = id)
    BY <2>1, IdsOfIds
  <2>3. requests' = [requests EXCEPT ![r] = q]
    BY <2>1
  <2> HIDE DEF result
  <2>4. /\ q.stage = stage /\ q.call = c /\ q.found = id /\ q.result = result
        /\ q.seen = old.seen /\ q.step = "upstream_created" /\ q \in RequestType
    BY <1>2, <2>1, <2>2 DEF RequestType, Stages, OperationSteps
  <2> HIDE DEF q
  <2>5. BusyWellFormed(q) /\ RequestWellFormed(q)
    BY <1>2, <2>1, <2>2, <2>4, ProvisioningAssumption
       DEF BusyWellFormed, RequestWellFormed, KindsAt, GrantStages, CreatedStages, FoundStages,
           StepsOf, CreateKinds
  <2>6. /\ did' = [did EXCEPT ![k] = @ \union {"upstream"}]
        /\ did \in [Keys -> SUBSET {"upstream", "linked", "unlinked", "removed", "completed"}]
    BY <2>1 DEF Did, ProvisioningInv, TablesTyped
  <2>7. \A x \in Keys : did[x] \subseteq did'[x]
    BY <1>2, <2>6
  <2>8. "upstream" \in did'[k]
    BY <1>2, <2>6
  <2>9. TablesTyped'
    <3>1. [id |-> id, kind |-> c.kind, name |-> c.name] \in RowType
      BY <1>2, <2>2 DEF RowType
    <3>2. did' \in [Keys -> SUBSET {"upstream", "linked", "unlinked", "removed", "completed"}]
      BY <1>2, <2>6
    <3> QED BY <1>1, <2>1, <2>2, <3>1, <3>2 DEF ProvisioningInv, TablesTyped
  <2>10. RequestKnows(q, did'[k])
    BY <1>2, <1>3, <2>4, <2>7, <2>8, <2>1, KnowledgeGrows
       DEF RequestKnows, CreationKnows
  <2>11. /\ Existing' = Existing \union {id} /\ Linked' = Linked /\ created' = created \union {id}
    <3> DEFINE new == [id |-> id, kind |-> c.kind, name |-> c.name]
    <3>1. new.id = id /\ upstream' = upstream \union {new}
      BY <2>1
    <3> HIDE DEF new
    <3> QED BY <1>1, <2>1, <3>1 DEF Existing, Linked
  <2>12. /\ requests'[r] = q
         /\ \A p \in Requests : p /= r => requests'[p] = requests[p]
    BY <2>3 DEF ProvisioningInv, RequestsTyped
  <2>13. ASSUME NEW x \in Creations, NEW i \in Ids, Holds(x, i)'
         PROVE  Holds(x, i) \/ (x = k /\ i = id)
    BY <1>1, <1>2, <2>2, <2>4, <2>12, <2>13, ProvisioningAssumption
       DEF Holds, HoldsRow, HoldsRequest
  <2>14. ASSUME NEW i \in Ids, Settled(i)' PROVE Settled(i)
    <3>1. ~HasSeenLink(q)
      BY <1>2, <2>4 DEF HasSeenLink, CreateKinds, DeleteKinds
    <3> QED BY <1>1, <2>11, <2>12, <2>14, <3>1 DEF Settled
  <2>15. /\ \A x \in Creations : ~Holds(x, id)
         /\ ~Settled(id)
    BY <2>2 DEF ProvisioningInv, IdsKnown, SettledIsCreated
  <2>16. IdsKnown'
    BY <1>3, <2>2, <2>11, <2>13, <2>15 DEF ProvisioningInv, IdsKnown
  <2>17. SettledIsCreated'
    BY <2>11, <2>14 DEF ProvisioningInv, SettledIsCreated
  <2>18. SettledWasLinked'
    BY <2>7, <2>13, <2>14, <2>15 DEF ProvisioningInv, SettledWasLinked, Creations
  <2>19. q.stage \in WorkflowStages =>
           ledger'[KeyOf(q.call)] /= None /\ RequestKnows(q, did'[KeyOf(q.call)])
    BY <1>1, <1>2, <2>4, <2>10
  <2> QED BY <1>1, <2>3, <2>4, <2>5, <2>7, <2>9, <2>16, <2>17, <2>18, <2>19, HandlerStep
<1> QED BY <1>4, <1>5

LEMMA SetDomainsSound ==
  ASSUME ProvisioningInv, NEW r \in Requests, SetDomains(r)
  PROVE  ProvisioningInv'
<1> DEFINE old == requests[r]
           q == [old EXCEPT !.stage = "mark", !.result = old.found]
<1>1. /\ old.stage = "domains" /\ TablesTyped' /\ UNCHANGED did
      /\ UNCHANGED <<upstream, created, links, ledger>>
      /\ requests' = [requests EXCEPT ![r].stage = "mark", ![r].result = old.found]
  BY TablesKept, FaultsTyped DEF SetDomains
<1>2. /\ BusyWellFormed(old) /\ old \in RequestType /\ old.call.kind = "create_classroom"
      /\ old.found \in Ids /\ KeyAt(r) = KeyOf(old.call)
      /\ CreationKnows(old, did[KeyAt(r)])
      /\ old.step = "upstream_created"
  BY <1>1, Busy DEF Stages, WorkflowStages, KindsAt, BusyWellFormed, FoundStages, CreateKinds,
                    RequestKnows
<1>3. /\ q.stage = "mark" /\ q.found = old.found /\ q.call = old.call /\ q.result = old.found
      /\ q.seen = old.seen /\ q.step = old.step /\ q.groups = old.groups
      /\ requests' = [requests EXCEPT ![r] = q] /\ q \in RequestType
  BY <1>1, <1>2 DEF RequestType, Stages
<1> HIDE DEF q
<1>4. BusyWellFormed(q) /\ RequestWellFormed(q)
  BY <1>2, <1>3, ProvisioningAssumption
     DEF BusyWellFormed, RequestWellFormed, KindsAt, GrantStages, CreatedStages, FoundStages,
         StepsOf, CreateKinds
<1>5. RequestKnows(q, did[KeyOf(q.call)])
  BY <1>2, <1>3, ProvisioningAssumption DEF RequestKnows, CreationKnows, CreateKinds
<1>6. \A k \in Creations, id \in Ids : HoldsRequest(q, k, id) => Holds(k, id)
  BY <1>1, <1>3 DEF HoldsRequest, Holds
<1>7. ~HasSeenLink(q)
  BY <1>2, <1>3 DEF HasSeenLink, DeleteKinds
<1> QED BY <1>1, <1>3, <1>4, <1>5, <1>6, <1>7, HandlerMoves DEF WorkflowStages, Stages

LEMMA ReadLinkSound ==
  ASSUME ProvisioningInv, NEW r \in Requests, ReadLink(r)
  PROVE  ProvisioningInv'
<1> DEFINE old == requests[r]
           stage == IF old.found = None THEN "mark"
                    ELSE IF old.found \in Linked THEN AfterLink(old.call) ELSE "insert_link"
           q == [old EXCEPT !.stage = stage, !.step = "local_linked"]
<1>1. /\ old.stage = "read_link" /\ TablesTyped' /\ UNCHANGED did
      /\ UNCHANGED <<upstream, created, links, ledger>>
      /\ requests' = [requests EXCEPT ![r].stage = stage, ![r].step = "local_linked"]
  BY TablesKept, FaultsTyped DEF ReadLink
<1>2. /\ BusyWellFormed(old) /\ old \in RequestType /\ old.call.kind \in CreateKinds
      /\ old.result \in Ids /\ KeyAt(r) = KeyOf(old.call) /\ old.call \in CallType
      /\ old.found \in {None} \union Ids
  BY <1>1, Busy DEF Stages, KindsAt, BusyWellFormed, CreatedStages, RequestType
<1>3. /\ CreationKnows(old, did[KeyAt(r)])
      /\ old.found \in Linked => "linked" \in did[KeyAt(r)]
  BY <1>1, <1>2, Creating, ProvisioningAssumption DEF WorkflowStages, Stages, Settled,
     ProvisioningInv, TablesTyped, Linked, RowType
<1>4. /\ stage \in {"mark", "insert_link", "add_grant"}
      /\ stage = "add_grant" => old.call.kind = "create_group" /\ old.call.teacher \in Teachers
      /\ stage \in {"add_grant", "insert_link"} => old.found \in Ids
      /\ stage # "insert_link" => "linked" \in did[KeyAt(r)]
  BY <1>1, <1>2, <1>3 DEF AfterLink, IsGroup, CreateKinds, CallType, CreationKnows
<1> HIDE DEF stage
<1>5. /\ q.stage = stage /\ q.found = old.found /\ q.call = old.call /\ q.result = old.result
      /\ q.seen = old.seen /\ q.step = "local_linked" /\ q.groups = old.groups
      /\ requests' = [requests EXCEPT ![r] = q] /\ q \in RequestType
  BY <1>1, <1>2, <1>4 DEF RequestType, Stages, OperationSteps
<1> HIDE DEF q
<1>6. BusyWellFormed(q) /\ RequestWellFormed(q)
  BY <1>2, <1>4, <1>5, ProvisioningAssumption
     DEF BusyWellFormed, RequestWellFormed, KindsAt, GrantStages, CreatedStages, FoundStages,
         StepsOf, CreateKinds
<1>7. RequestKnows(q, did[KeyOf(q.call)])
  BY <1>2, <1>3, <1>4, <1>5 DEF RequestKnows, CreationKnows
<1>8. \A k \in Creations, id \in Ids : HoldsRequest(q, k, id) => Holds(k, id)
  BY <1>1, <1>5 DEF HoldsRequest, Holds
<1>9. ~HasSeenLink(q)
  BY <1>2, <1>5 DEF HasSeenLink, CreateKinds, DeleteKinds
<1> QED BY <1>1, <1>5, <1>6, <1>7, <1>8, <1>9, HandlerMoves DEF WorkflowStages, Stages

\* The one step that makes a link, for the creation that names its resource.
LEMMA InsertLinkSound ==
  ASSUME ProvisioningInv, NEW r \in Requests, InsertLink(r)
  PROVE  ProvisioningInv'
<1> DEFINE old == requests[r]
           c == old.call
           k == KeyAt(r)
           id == old.found
           stage == AfterLink(c)
           q == [old EXCEPT !.stage = stage]
<1>1. /\ old.stage = "insert_link" /\ old.stage \in WorkflowStages /\ old.stage \in Stages
      /\ UNCHANGED <<upstream, created, grants, ledger, faults>>
  BY DEF InsertLink, WorkflowStages, Stages
<1>2. /\ BusyWellFormed(old) /\ old \in RequestType /\ c.kind \in CreateKinds /\ c \in CallType
      /\ k = KeyOf(c) /\ c.name \in Names /\ k \in Keys /\ ledger[k] /= None /\ id \in Ids
  BY <1>1, Busy DEF KindsAt, WellFormed, BusyWellFormed, FoundStages
<1>3. /\ k \in Creations /\ CreationKnows(old, did[k]) /\ Holds(k, id) /\ id \in created
  BY <1>1, <1>2, Creating
<1>4. CASE LinkTaken(old)
  <2>1. Goto(r, "fail") /\ UNCHANGED <<links, did>>
    BY <1>4 DEF InsertLink
  <2>2. TablesTyped'
    BY <1>1, <2>1 DEF ProvisioningInv, TablesTyped
  <2> QED BY <1>1, <2>1, <2>2, FailsSound
<1>5. CASE ~LinkTaken(old)
  <2> DEFINE new == [id |-> id, kind |-> c.kind, name |-> c.name]
  <2>1. links' = links \union {new} /\ Goto(r, stage) /\ Did(r, "linked")
    BY <1>5 DEF InsertLink
  <2>2. /\ stage \in {"mark", "add_grant"}
        /\ stage = "add_grant" => c.kind = "create_group" /\ c.teacher \in Teachers
    BY <1>2 DEF AfterLink, IsGroup, CreateKinds, CallType
  <2>3. old.step = "local_linked"
    BY <1>1, <1>2 DEF BusyWellFormed
  <2> HIDE DEF stage
  <2>4. /\ q.stage = stage /\ q.call = c /\ q.found = id /\ q.result = old.result
        /\ q.seen = old.seen /\ q.step = "local_linked" /\ q.groups = old.groups
        /\ q \in RequestType /\ requests' = [requests EXCEPT ![r] = q]
    BY <1>2, <2>1, <2>2, <2>3 DEF RequestType, Stages, Goto
  <2> HIDE DEF q
  <2>5. BusyWellFormed(q) /\ RequestWellFormed(q)
    BY <1>1, <1>2, <2>2, <2>4, ProvisioningAssumption
       DEF BusyWellFormed, RequestWellFormed, KindsAt, GrantStages, CreatedStages, FoundStages,
           StepsOf, CreateKinds
  <2>6. /\ did' = [did EXCEPT ![k] = @ \union {"linked"}]
        /\ did \in [Keys -> SUBSET {"upstream", "linked", "unlinked", "removed", "completed"}]
    BY <2>1 DEF Did, ProvisioningInv, TablesTyped
  <2>7. /\ \A x \in Keys : did[x] \subseteq did'[x]
        /\ "linked" \in did'[k] /\ did[k] \subseteq did'[k]
        /\ did' \in [Keys -> SUBSET {"upstream", "linked", "unlinked", "removed", "completed"}]
    BY <1>2, <2>6
  <2>8. TablesTyped'
    <3>1. new \in RowType
      BY <1>2 DEF RowType
    <3> HIDE DEF new
    <3> QED BY <1>1, <2>1, <2>7, <3>1 DEF ProvisioningInv, TablesTyped
  <2>9. q.stage \in WorkflowStages =>
          ledger'[KeyOf(q.call)] /= None /\ RequestKnows(q, did'[KeyOf(q.call)])
    BY <1>1, <1>2, <1>3, <2>2, <2>4, <2>7 DEF RequestKnows, CreationKnows
  <2>10. /\ Existing' = Existing /\ created' = created /\ Linked' = Linked \union {id}
    <3>1. new.id = id
      OBVIOUS
    <3> HIDE DEF new
    <3> QED BY <1>1, <1>5, <2>1, <3>1 DEF Existing, Linked, InsertLink
  <2>11. /\ requests'[r] = q
         /\ \A p \in Requests : p /= r => requests'[p] = requests[p]
    BY <2>4 DEF ProvisioningInv, RequestsTyped
  <2>12. ASSUME NEW x \in Creations, NEW i \in Ids, Holds(x, i)'
         PROVE  Holds(x, i)
    BY <1>1, <2>2, <2>4, <2>11, <2>12 DEF Holds, HoldsRow, HoldsRequest
  <2>13. ASSUME NEW i \in Ids, Settled(i)' PROVE Settled(i) \/ i = id
    <3>1. ~HasSeenLink(q)
      BY <1>2, <2>4 DEF HasSeenLink, CreateKinds, DeleteKinds
    <3> QED BY <1>1, <2>10, <2>11, <2>13, <3>1 DEF Settled
  <2>14. IdsKnown'
    BY <1>3, <2>10, <2>12 DEF ProvisioningInv, IdsKnown
  <2>15. SettledIsCreated'
    BY <1>3, <2>10, <2>13 DEF ProvisioningInv, SettledIsCreated
  <2>16. ASSUME NEW i \in Ids, NEW x \in Creations, Settled(i)', Holds(x, i)'
         PROVE  "linked" \in did'[x]
    <3>1. CASE i = id
      BY <1>3, <2>7, <2>12, <2>16, <3>1 DEF ProvisioningInv, IdsKnown
    <3>2. CASE Settled(i)
      BY <2>7, <2>12, <2>16, <3>2 DEF ProvisioningInv, SettledWasLinked, Creations
    <3> QED BY <2>13, <2>16, <3>1, <3>2
  <2>17. SettledWasLinked'
    BY <2>16 DEF SettledWasLinked, Creations
  <2> QED BY <1>1, <2>4, <2>5, <2>7, <2>8, <2>9, <2>14, <2>15, <2>17, HandlerStep
<1> QED BY <1>4, <1>5

LEMMA ReadGrantsSound ==
  ASSUME ProvisioningInv, NEW r \in Requests, ReadGrants(r) \/ ReadGrantsToRemove(r)
  PROVE  ProvisioningInv'
<1> DEFINE old == requests[r]
           groups == grants[old.call.teacher]
           q == [old EXCEPT !.stage = "write_grant", !.groups = groups]
<1>1. /\ old.stage \in {"add_grant", "remove_grant"} /\ old.stage \in WorkflowStages
      /\ old.stage \in Stages
      /\ TablesTyped' /\ UNCHANGED did /\ UNCHANGED <<upstream, created, links, ledger>>
      /\ requests' = [requests EXCEPT ![r].stage = "write_grant", ![r].groups = groups]
  BY TablesKept, FaultsTyped DEF ReadGrants, ReadGrantsToRemove, WorkflowStages, Stages
<1>2. /\ BusyWellFormed(old) /\ old \in RequestType /\ old.call \in CallType
      /\ old.call.kind = IF old.stage = "add_grant" THEN "create_group" ELSE "delete_group"
      /\ old.call.teacher \in Teachers /\ KeyAt(r) = KeyOf(old.call)
      /\ KeyAt(r) \in Keys /\ KeyAt(r).id = old.call.id
      /\ RequestKnows(old, did[KeyAt(r)])
  BY <1>1, Busy DEF KindsAt, BusyWellFormed, GrantStages
<1>3. groups \in SUBSET Ids
  BY <1>2 DEF ProvisioningInv, TablesTyped
<1> HIDE DEF groups
<1>4. /\ q.stage = "write_grant" /\ q.found = old.found /\ q.call = old.call
      /\ q.result = old.result /\ q.seen = old.seen /\ q.step = old.step /\ q.groups = groups
      /\ requests' = [requests EXCEPT ![r] = q] /\ q \in RequestType
  BY <1>1, <1>2, <1>3 DEF RequestType, Stages
<1> HIDE DEF q
<1>5. BusyWellFormed(q) /\ RequestWellFormed(q)
  BY <1>1, <1>2, <1>3, <1>4, ProvisioningAssumption
     DEF BusyWellFormed, RequestWellFormed, KindsAt, GrantStages, CreatedStages, FoundStages,
         CreateKinds
<1>6. RequestKnows(q, did[KeyOf(q.call)])
  BY <1>1, <1>2, <1>4 DEF RequestKnows, CreationKnows, DeletionKnows, CreateKinds
<1>7. \A k \in Creations, id \in Ids : HoldsRequest(q, k, id) => Holds(k, id)
  BY <1>1, <1>4 DEF HoldsRequest, Holds
<1>8. ASSUME HasSeenLink(q) PROVE Settled(q.call.id)
  <2>1. HasSeenLink(old)
    BY <1>1, <1>2, <1>4, <1>8 DEF HasSeenLink, DeleteKinds
  <2> QED BY <1>4, <2>1 DEF Settled
<1> QED BY <1>1, <1>4, <1>5, <1>6, <1>7, <1>8, HandlerMoves

\* A step of the workflow that only leaves a step to be marked.
LEMMA ToMarkSound ==
  ASSUME ProvisioningInv, NEW r \in Requests, NEW step \in OperationSteps, ToMark(r, step),
         requests[r].stage \in WorkflowStages,
         TablesTyped', UNCHANGED <<upstream, created, links, ledger, did>>,
         step \in StepsOf(requests[r].call.kind), step /= "upstream_created",
         IF requests[r].call.kind \in CreateKinds
         THEN /\ requests[r].stage \in CreatedStages
              /\ "linked" \in did[KeyAt(r)]
         ELSE requests[r].stage = "references"
  PROVE  ProvisioningInv'
<1> DEFINE old == requests[r]
           q == [old EXCEPT !.stage = "mark", !.step = step]
<1>1. old.stage \in Stages /\ old.stage # "idle"
  BY DEF WorkflowStages, Stages
<1>2. /\ BusyWellFormed(old) /\ old \in RequestType /\ old.call \in CallType
      /\ KeyAt(r) = KeyOf(old.call) /\ KeyAt(r) \in Keys /\ KeyAt(r).id = old.call.id
      /\ RequestKnows(old, did[KeyAt(r)])
  BY <1>1, Busy
<1>3. /\ q.stage = "mark" /\ q.found = old.found /\ q.call = old.call
      /\ q.result = old.result /\ q.seen = old.seen /\ q.step = step /\ q.groups = old.groups
      /\ requests' = [requests EXCEPT ![r] = q] /\ q \in RequestType
  BY <1>2 DEF RequestType, Stages, ToMark
<1> HIDE DEF q
<1>4. BusyWellFormed(q) /\ RequestWellFormed(q)
  BY <1>1, <1>2, <1>3, ProvisioningAssumption
     DEF BusyWellFormed, RequestWellFormed, KindsAt, GrantStages, CreatedStages, FoundStages,
         CreateKinds, CallType
<1>5. RequestKnows(q, did[KeyOf(q.call)])
  BY <1>1, <1>2, <1>3 DEF RequestKnows, CreationKnows, DeletionKnows
<1>6. \A k \in Creations, id \in Ids : HoldsRequest(q, k, id) => Holds(k, id)
  BY <1>1, <1>3 DEF HoldsRequest, Holds
<1>7. ASSUME HasSeenLink(q) PROVE Settled(q.call.id)
  <2>1. HasSeenLink(old)
    BY <1>1, <1>2, <1>3, <1>7, KindsApart DEF HasSeenLink
  <2> QED BY <1>3, <2>1 DEF Settled
<1> QED BY <1>3, <1>4, <1>5, <1>6, <1>7, HandlerMoves

LEMMA CompleteSound ==
  ASSUME ProvisioningInv, NEW r \in Requests, Complete(r)
  PROVE  ProvisioningInv'
<1>1. /\ requests[r].stage = "complete" /\ requests[r].stage \in WorkflowStages
      /\ requests[r].stage \in Stages
      /\ TablesTyped' /\ UNCHANGED <<upstream, created, links, ledger, did>>
  BY TablesKept, FaultsTyped DEF Complete, WorkflowStages, Stages
<1>2. requests[r].call.kind \in CreateKinds
  BY <1>1, Busy DEF KindsAt
<1>3. "linked" \in did[KeyAt(r)]
  BY <1>1, <1>2, Creating DEF CreationKnows
<1> QED BY <1>1, <1>2, <1>3, ToMarkSound
        DEF Complete, StepsOf, CreatedStages, OperationSteps

-----------------------------------------------------------------------------
(* Deletions *)

LEMMA ReadUnlinkSound ==
  ASSUME ProvisioningInv, NEW r \in Requests, ReadUnlink(r)
  PROVE  ProvisioningInv'
<1> DEFINE c == requests[r].call
           q == [requests[r] EXCEPT !.stage = "unlink"]
<1>1. /\ requests[r].stage = "unlink_read" /\ TablesTyped'
      /\ requests[r].stage \in WorkflowStages /\ requests[r].stage \in Stages
      /\ UNCHANGED <<upstream, created, links, ledger, did>>
  BY TablesKept, FaultsTyped DEF ReadUnlink, WorkflowStages, Stages
<1>2. /\ BusyWellFormed(requests[r]) /\ c \in CallType /\ c.kind = "delete_classroom"
      /\ requests[r] \in RequestType /\ RequestKnows(requests[r], did[KeyAt(r)])
  BY <1>1, Busy DEF KindsAt
<1>3. CASE c.id \notin Linked
  BY <1>1, <1>3, FailsSound DEF ReadUnlink
<1>4. CASE c.id \in Linked
  <2>1. Goto(r, "unlink")
    BY <1>4 DEF ReadUnlink
  <2>2. /\ q.stage = "unlink" /\ q.call = c /\ q.result = requests[r].result
    BY <1>2 DEF RequestType
  <2>3. BusyWellFormed(q)
    BY <1>2, <2>2 DEF BusyWellFormed, KindsAt, GrantStages, CreateKinds, DeleteKinds
  <2>4. Settled(c.id)
    BY <1>4 DEF Settled
  <2>5. RequestKnows(q, did[KeyAt(r)])
    BY <1>1, <1>2, <2>2 DEF RequestKnows, DeletionKnows, CreateKinds
  <2> QED BY <1>1, <2>1, <2>3, <2>4, <2>5, GotoSound DEF Stages
<1> QED BY <1>3, <1>4

LEMMA CheckReferencesSound ==
  ASSUME ProvisioningInv, NEW r \in Requests, CheckReferences(r)
  PROVE  ProvisioningInv'
<1> DEFINE c == requests[r].call
           q == [requests[r] EXCEPT !.stage = "remove"]
<1>1. /\ requests[r].stage = "references" /\ TablesTyped'
      /\ requests[r].stage \in WorkflowStages /\ requests[r].stage \in Stages
      /\ UNCHANGED <<upstream, created, links, ledger, did>>
  BY TablesKept, FaultsTyped DEF CheckReferences, WorkflowStages, Stages
<1>2. /\ BusyWellFormed(requests[r]) /\ c \in CallType /\ c.kind = "delete_group"
      /\ requests[r] \in RequestType /\ RequestKnows(requests[r], did[KeyAt(r)])
  BY <1>1, Busy DEF KindsAt
<1>3. CASE c.id \in Linked
  BY <1>1, <1>2, <1>3, ToMarkSound DEF CheckReferences, StepsOf, CreateKinds, OperationSteps
<1>4. CASE c.id \notin Linked
  <2>1. Goto(r, "remove")
    BY <1>4 DEF CheckReferences
  <2>2. /\ q.stage = "remove" /\ q.call = c /\ q.result = requests[r].result
    BY <1>2 DEF RequestType
  <2>3. BusyWellFormed(q)
    BY <1>2, <2>2 DEF BusyWellFormed, KindsAt, GrantStages, CreateKinds, DeleteKinds
  <2>4. Settled(c.id)
    BY <1>1, <1>2 DEF Settled, HasSeenLink, DeleteKinds
  <2>5. RequestKnows(q, did[KeyAt(r)])
    BY <1>1, <1>2, <2>2 DEF RequestKnows, DeletionKnows, CreateKinds
  <2> QED BY <1>1, <2>1, <2>3, <2>4, <2>5, GotoSound DEF Stages
<1> QED BY <1>3, <1>4

\* The facts about a deletion that has seen its resource linked.
LEMMA Deleting ==
  ASSUME ProvisioningInv, NEW r \in Requests, requests[r].stage \in Stages,
         requests[r].call.kind \in DeleteKinds
  PROVE  /\ KeyAt(r) \in Deletions /\ KeyAt(r) \notin Creations
         /\ HasSeenLink(requests[r]) => Settled(requests[r].call.id)
         /\ requests[r].call.id \in Ids
<1>1. /\ KeyAt(r) \in Keys /\ KeyAt(r).kind = requests[r].call.kind
      /\ WellFormed(requests[r].call)
  BY Busy
<1> QED BY <1>1, KindsApart, IdsOfIds DEF Deletions, Creations, Settled, WellFormed

LEMMA UnlinkSound ==
  ASSUME ProvisioningInv, NEW r \in Requests, Unlink(r)
  PROVE  ProvisioningInv'
<1> DEFINE old == requests[r]
           c == old.call
           k == KeyAt(r)
           q == [old EXCEPT !.stage = "mark", !.step = "local_committed", !.result = c.id]
<1>1. /\ old.stage = "unlink" /\ old.stage \in WorkflowStages /\ old.stage \in Stages
      /\ UNCHANGED <<upstream, created, grants, ledger, faults>>
      /\ links' = {link \in links : link.id /= c.id}
      /\ requests' = [requests EXCEPT ![r].stage = "mark", ![r].step = "local_committed",
                                      ![r].result = c.id]
      /\ did' = [did EXCEPT ![k] = @ \union {"unlinked"}]
  BY DEF Unlink, WorkflowStages, Stages, Did
<1>2. /\ BusyWellFormed(old) /\ old \in RequestType /\ c.kind \in DeleteKinds /\ c \in CallType
      /\ k = KeyOf(c) /\ k \in Keys /\ ledger[k] /= None
  BY <1>1, Busy DEF KindsAt
<1>3. /\ k \in Deletions /\ k \notin Creations /\ c.id \in Ids
      /\ Settled(c.id)
  BY <1>1, <1>2, Deleting DEF HasSeenLink
<1>4. /\ q.stage = "mark" /\ q.found = old.found /\ q.call = c
      /\ q.result = c.id /\ q.step = "local_committed"
      /\ requests' = [requests EXCEPT ![r] = q] /\ q \in RequestType
  BY <1>1, <1>2, <1>3 DEF RequestType, Stages, OperationSteps
<1> HIDE DEF q
<1>5. BusyWellFormed(q) /\ RequestWellFormed(q)
  BY <1>1, <1>2, <1>4, ProvisioningAssumption, KindsApart
     DEF BusyWellFormed, RequestWellFormed, KindsAt, GrantStages, StepsOf
<1>6. /\ \A x \in Keys : did[x] \subseteq did'[x]
      /\ "unlinked" \in did'[k]
      /\ did' \in [Keys -> SUBSET {"upstream", "linked", "unlinked", "removed", "completed"}]
  BY <1>1, <1>2 DEF ProvisioningInv, TablesTyped
<1>7. TablesTyped'
  BY <1>1, <1>6 DEF ProvisioningInv, TablesTyped
<1>8. RequestKnows(q, did'[KeyOf(q.call)])
  BY <1>2, <1>4, <1>6, KindsApart DEF RequestKnows, DeletionKnows
<1>9. Existing' = Existing /\ Linked' \subseteq Linked
  BY <1>1 DEF Existing, Linked
<1>10. \A x \in Creations, id \in Ids : HoldsRow(x, id)' \/ HoldsRequest(q, x, id) => Holds(x, id)
  BY <1>1, <1>2, <1>3, <1>4 DEF HoldsRow, HoldsRequest, Holds
<1>11. \A x \in Deletions : ledger'[x] /= None /\ ledger'[x].result /= None => Settled(x.id)
  BY <1>1 DEF Settled
<1>12. IdsKnown' /\ SettledIsCreated' /\ SettledWasLinked'
  BY <1>1, <1>3, <1>4, <1>6, <1>9, <1>10, <1>11, NamesKept
<1>13. /\ q.stage \in WorkflowStages =>
             ledger'[KeyOf(q.call)] /= None /\ RequestKnows(q, did'[KeyOf(q.call)])
       /\ ledger' = ledger
  BY <1>1, <1>2, <1>4, <1>8
<1> HIDE DEF c, k
<1> QED BY <1>4, <1>5, <1>6, <1>7, <1>12, <1>13, HandlerStep

LEMMA RemoveSound ==
  ASSUME ProvisioningInv, NEW r \in Requests, Remove(r)
  PROVE  ProvisioningInv'
<1> DEFINE old == requests[r]
           c == old.call
           k == KeyAt(r)
           ends == ~(IsGroup(c) /\ c.teacher /= None)
           q == IF ends THEN [old EXCEPT !.stage = "mark", !.step = "completed"]
                        ELSE [old EXCEPT !.stage = "remove_grant"]
<1>1. /\ old.stage = "remove" /\ old.stage \in WorkflowStages /\ old.stage \in Stages
      /\ UNCHANGED <<created, links, grants, ledger, faults>>
      /\ upstream' = {row \in upstream : row.id /= c.id}
      /\ requests' = [requests EXCEPT ![r] = q]
      /\ did' = [did EXCEPT ![k] = @ \union {"removed"}]
  <2>1. old \in RequestType
    BY Busy DEF Remove, Stages
  <2> QED BY <2>1 DEF Remove, WorkflowStages, Stages, Did, Goto, ToMark, RequestType
<1>2. /\ BusyWellFormed(old) /\ old \in RequestType /\ c.kind \in DeleteKinds /\ c \in CallType
      /\ k = KeyOf(c) /\ k \in Keys /\ ledger[k] /= None
      /\ RequestKnows(old, did[k])
  BY <1>1, Busy DEF KindsAt
<1>3. /\ k \in Deletions /\ k \notin Creations /\ c.id \in Ids
      /\ Settled(c.id)
  BY <1>1, <1>2, Deleting DEF HasSeenLink
<1>4. /\ q.stage \in {"mark", "remove_grant"} /\ q.found = old.found /\ q.call = c
      /\ q.result = old.result
      /\ q.stage = "mark" => q.step = "completed"
      /\ q.stage = "remove_grant" => c.kind = "delete_group" /\ c.teacher \in Teachers
      /\ q \in RequestType
  BY <1>2 DEF RequestType, Stages, OperationSteps, IsGroup, DeleteKinds, CallType
<1> HIDE DEF q
<1>5. BusyWellFormed(q) /\ RequestWellFormed(q)
  BY <1>1, <1>2, <1>4, ProvisioningAssumption, KindsApart
     DEF BusyWellFormed, RequestWellFormed, KindsAt, GrantStages, StepsOf
<1>6. /\ \A x \in Keys : did[x] \subseteq did'[x]
      /\ did' \in [Keys -> SUBSET {"upstream", "linked", "unlinked", "removed", "completed"}]
  BY <1>1, <1>2 DEF ProvisioningInv, TablesTyped
<1>7. TablesTyped'
  BY <1>1, <1>6 DEF ProvisioningInv, TablesTyped
<1>8. RequestKnows(q, did'[KeyOf(q.call)])
  BY <1>1, <1>2, <1>4, <1>6, KindsApart DEF RequestKnows, DeletionKnows
<1>9. /\ Linked' = Linked /\ Existing' \subseteq Existing
      /\ \A id \in Existing : id \notin Existing' => id = c.id
  BY <1>1 DEF Existing, Linked
<1>10. \A x \in Creations, id \in Ids : HoldsRow(x, id)' \/ HoldsRequest(q, x, id) => Holds(x, id)
  BY <1>1, <1>2, <1>3, <1>4 DEF HoldsRow, HoldsRequest, Holds
<1>11. \A x \in Deletions : ledger'[x] /= None /\ ledger'[x].result /= None => Settled(x.id)
  BY <1>1 DEF Settled
<1>12. IdsKnown' /\ SettledIsCreated' /\ SettledWasLinked'
  BY <1>1, <1>3, <1>4, <1>6, <1>9, <1>10, <1>11, NamesKept
<1> QED BY <1>1, <1>2, <1>4, <1>5, <1>6, <1>7, <1>8, <1>12, HandlerStep

LEMMA WriteGrantsSound ==
  ASSUME ProvisioningInv, NEW r \in Requests, WriteGrants(r)
  PROVE  ProvisioningInv'
<1> DEFINE old == requests[r]
           c == old.call
           k == KeyAt(r)
           groups == IF c.kind = "create_group" THEN old.groups \union {old.found}
                                                ELSE old.groups \ {c.id}
           step == IF c.kind = "create_group" THEN "local_linked" ELSE "completed"
           q == [old EXCEPT !.stage = "mark", !.groups = None, !.step = step]
<1>1. /\ old.stage = "write_grant" /\ old.stage \in WorkflowStages /\ old.stage \in Stages
      /\ UNCHANGED <<upstream, created, links, ledger, faults, did>>
      /\ grants' = [grants EXCEPT ![c.teacher] = groups]
      /\ requests' = [requests EXCEPT ![r].stage = "mark", ![r].groups = None, ![r].step = step]
  BY DEF WriteGrants, WorkflowStages, Stages
<1>2. /\ BusyWellFormed(old) /\ old \in RequestType /\ c \in CallType
      /\ c.kind \in {"create_group", "delete_group"}
      /\ k = KeyOf(c) /\ k \in Keys /\ ledger[k] /= None /\ RequestKnows(old, did[k])
      /\ old.groups \in SUBSET Ids
      /\ c.kind = "create_group" => old.found \in Ids
  BY <1>1, Busy DEF KindsAt, BusyWellFormed, FoundStages, CreateKinds
<1>3. groups \in SUBSET Ids
  BY <1>2
<1> HIDE DEF groups
<1>4. /\ q.stage = "mark" /\ q.found = old.found /\ q.call = c /\ q.result = old.result
      /\ q.seen = old.seen /\ q.step = step /\ q.step /= "upstream_created"
      /\ requests' = [requests EXCEPT ![r] = q] /\ q \in RequestType
  BY <1>1, <1>2 DEF RequestType, Stages, OperationSteps
<1> HIDE DEF q
<1>5. TablesTyped'
  BY <1>1, <1>3 DEF ProvisioningInv, TablesTyped
<1>6. BusyWellFormed(q) /\ RequestWellFormed(q)
  <2>1. q.step \in StepsOf(c.kind)
    BY <1>2, <1>4 DEF StepsOf, CreateKinds
  <2>2. BusyWellFormed(q)
    BY <1>1, <1>2, <1>4, <2>1
       DEF BusyWellFormed, KindsAt, GrantStages, CreatedStages, FoundStages, CreateKinds,
           DeleteKinds
  <2> QED BY <1>2, <1>4, <2>2, ProvisioningAssumption DEF RequestWellFormed
<1>7. RequestKnows(q, did[KeyOf(q.call)])
  BY <1>1, <1>2, <1>4 DEF RequestKnows, CreationKnows, DeletionKnows, CreateKinds
<1>8. \A x \in Creations, id \in Ids : HoldsRequest(q, x, id) => Holds(x, id)
  BY <1>1, <1>4 DEF HoldsRequest, Holds
<1>9. ASSUME HasSeenLink(q) PROVE Settled(q.call.id)
  BY <1>1, <1>2, <1>4, <1>9, Deleting DEF HasSeenLink
<1> QED BY <1>1, <1>4, <1>5, <1>6, <1>7, <1>8, <1>9, HandlerMoves

-----------------------------------------------------------------------------
(* Progress, failure and death *)

\* What a progress or failure write leaves in the row it updates by id.
LEMMA RowWritten ==
  ASSUME ProvisioningInv, NEW r \in Requests, NEW row \in OperationType,
         requests[r].stage \in {"mark", "fail"},
         row.result = Keep(ledger[KeyAt(r)].result, requests[r].result),
         ledger' = [ledger EXCEPT ![KeyAt(r)] = row]
  PROVE  /\ \A x \in Keys : ledger'[x] = IF x = KeyAt(r) THEN row ELSE ledger[x]
         /\ ledger' \in [Keys -> {None} \union OperationType]
         /\ \A x \in Creations, id \in Ids : HoldsRow(x, id)' => Holds(x, id)
         /\ \A x \in Deletions : ledger'[x] /= None /\ ledger'[x].result /= None => Settled(x.id)
<1> DEFINE k == KeyAt(r)
<1>1. /\ requests[r].stage \in Stages /\ requests[r].stage \in WorkflowStages
      /\ requests[r].stage # "idle"
  BY DEF Stages, WorkflowStages
<1>2. /\ k \in Keys /\ ledger[k] /= None /\ requests[r].call \in CallType
      /\ k = KeyOf(requests[r].call) /\ k.kind = requests[r].call.kind
      /\ k.id = requests[r].call.id
  BY <1>1, Busy
<1>3. /\ \A x \in Keys : ledger'[x] = IF x = k THEN row ELSE ledger[x]
      /\ ledger' \in [Keys -> {None} \union OperationType]
  BY <1>2 DEF ProvisioningInv, TablesTyped
<1> HIDE DEF k
<1>4. ASSUME NEW x \in Creations, NEW id \in Ids, HoldsRow(x, id)'
      PROVE  Holds(x, id)
  <2>1. CASE x # k
    BY <1>3, <1>4, <2>1 DEF Holds, HoldsRow, Creations
  <2>2. CASE x = k
    <3>1. row.result = id /\ row.result = Keep(ledger[k].result, requests[r].result)
      BY <1>2, <1>3, <1>4, <2>2 DEF HoldsRow, k
    <3>2. requests[r].result = id \/ ledger[k].result = id
      BY <3>1 DEF Keep
    <3> QED BY <1>1, <1>2, <2>2, <3>2 DEF Holds, HoldsRow, HoldsRequest
  <2> QED BY <2>1, <2>2
<1>5. ASSUME NEW x \in Deletions, ledger'[x] /= None, ledger'[x].result /= None
      PROVE  Settled(x.id)
  <2>1. CASE x # k
    BY <1>3, <1>5, <2>1 DEF Settled, Deletions
  <2>2. CASE x = k
    <3>1. requests[r].call.kind \in DeleteKinds
      BY <1>2, <2>2 DEF Deletions
    <3>2. CASE requests[r].result /= None
      BY <1>1, <1>2, <2>2, <3>1, <3>2, Deleting DEF HasSeenLink
    <3>3. CASE requests[r].result = None
      BY <1>2, <1>3, <1>5, <2>2, <3>3 DEF Settled, Keep
    <3> QED BY <3>2, <3>3
  <2> QED BY <2>1, <2>2
<1> QED BY <1>3, <1>4, <1>5

LEMMA MarkSound ==
  ASSUME ProvisioningInv, NEW r \in Requests, Mark(r)
  PROVE  ProvisioningInv'
<1> DEFINE old == requests[r]
           c == old.call
           k == KeyAt(r)
           row == Progress(ledger[k], old.step, old.result, None)
           answer == IF c.kind \in CreateKinds /\ old.found = None THEN "error" ELSE "ok"
           q == IF old.step = "completed" THEN Idle(answer)
                                          ELSE [old EXCEPT !.stage = AfterMark(old)]
<1>1. /\ old.stage = "mark" /\ old.stage \in WorkflowStages /\ old.stage \in Stages
      /\ UNCHANGED <<upstream, created, links, grants, faults>>
      /\ ledger' = [ledger EXCEPT ![k] = row]
  BY DEF Mark, WorkflowStages, Stages
<1>2. /\ BusyWellFormed(old) /\ old \in RequestType /\ c \in CallType
      /\ k = KeyOf(c) /\ k \in Keys /\ ledger[k] /= None /\ RequestKnows(old, did[k])
      /\ k.kind = c.kind /\ k.id = c.id /\ old.step \in StepsOf(c.kind)
      /\ c.kind \in CreateKinds => old.result \in Ids
      /\ c.kind \in CreateKinds /\ old.step = "upstream_created" => old.found \in Ids
      /\ ledger[k] \in OperationType /\ RowTellsTruth(k, ledger[k], did[k])
  BY <1>1, Busy DEF BusyWellFormed, CreatedStages, ProvisioningInv, TablesTyped,
                    LedgerTellsTruth
<1>3. requests' = [requests EXCEPT ![r] = q]
  BY <1>1 DEF Mark, End, Goto
<1>4. /\ \A x \in Keys : did[x] \subseteq did'[x]
      /\ did' \in [Keys -> SUBSET {"upstream", "linked", "unlinked", "removed", "completed"}]
  BY <1>2 DEF Mark, Did, ProvisioningInv, TablesTyped
<1>5. row \in OperationType
  BY <1>2 DEF Progress, Keep, OperationType, OperationStatuses, RequestType
<1>6. RowTellsTruth(k, row, did[k])
  BY <1>1, <1>2, ProvisioningAssumption
     DEF RowTellsTruth, Progress, Keep, RequestKnows, CreationKnows, DeletionKnows, StepsOf
<1>7. row /= None /\ RowTellsTruth(k, row, did'[k])
  BY <1>2, <1>4, <1>5, <1>6, KnowledgeGrows, ProvisioningAssumption
<1>8. row.result = Keep(ledger[k].result, old.result)
  BY DEF Progress
<1> HIDE DEF row
<1>9. /\ \A x \in Keys : ledger'[x] = IF x = k THEN row ELSE ledger[x]
      /\ ledger' \in [Keys -> {None} \union OperationType]
      /\ \A x \in Creations, id \in Ids : HoldsRow(x, id)' => Holds(x, id)
      /\ \A x \in Deletions : ledger'[x] /= None /\ ledger'[x].result /= None => Settled(x.id)
  BY <1>1, <1>5, <1>8, RowWritten
<1>10. TablesTyped'
  BY <1>1, <1>4, <1>9 DEF ProvisioningInv, TablesTyped
<1>11. Existing' = Existing /\ Linked' = Linked
  BY <1>1 DEF Existing, Linked
<1>12. CASE old.step = "completed"
  <2>1. answer \in {"ok", "refused", "error", None} /\ q = Idle(answer)
    BY <1>12
  <2>2. q \in RequestType /\ RequestWellFormed(q) /\ q.stage = "idle"
    BY <2>1, IdleWellFormed
  <2> HIDE DEF q
  <2>3. /\ \A x \in Creations, id \in Ids : ~HoldsRequest(q, x, id)
        /\ ~HasSeenLink(q) /\ q.stage \notin WorkflowStages
    BY <2>2 DEF HoldsRequest, HasSeenLink, WorkflowStages, Stages
  <2>4. IdsKnown' /\ SettledIsCreated' /\ SettledWasLinked'
    BY <1>1, <1>3, <1>4, <1>9, <1>11, <2>3, NamesKept
  <2>5. \A x \in Keys : \/ ledger'[x] = ledger[x]
                        \/ ledger'[x] /= None /\ RowTellsTruth(x, ledger'[x], did'[x])
    BY <1>7, <1>9
  <2> HIDE DEF c, k
  <2> QED BY <1>3, <1>4, <1>10, <2>2, <2>3, <2>4, <2>5, HandlerStep
<1>13. CASE old.step /= "completed"
  <2> DEFINE stage == AfterMark(old)
  <2>1. /\ q = [old EXCEPT !.stage = stage]
        /\ q.stage = stage /\ q.call = c /\ q.result = old.result /\ q.found = old.found
        /\ q.seen = old.seen /\ q.step = old.step
    BY <1>2, <1>13 DEF RequestType
  <2> HIDE DEF q
  <2>2. \/ /\ c.kind \in CreateKinds /\ stage \in {"read_link", "complete"}
           /\ stage = "complete" =>
                old.step = "local_linked" \/ old.seen \in {"local_linked", "completed"}
           /\ stage = "read_link" => old.found \in Ids
        \/ c.kind = "delete_group" /\ stage = "references"
        \/ c.kind = "delete_classroom" /\ stage = "remove"
    <3>1. CASE c.kind \in CreateKinds
      <4>1. old.step \in {"upstream_created", "local_linked"}
        BY <1>2, <1>13, <3>1 DEF StepsOf
      <4>2. /\ old.seen \in OperationSteps /\ old.result /= None
        BY <1>2, <3>1, ProvisioningAssumption DEF RequestType
      <4> QED BY <1>2, <3>1, <4>1, <4>2, AfterFindSound DEF AfterMark
    <3>2. CASE c.kind \in DeleteKinds
      <4>1. old.step = "local_committed"
        BY <1>2, <1>13, <3>2, KindsApart DEF StepsOf
      <4> QED BY <3>2, <4>1 DEF AfterMark, IsGroup, DeleteKinds
    <3> QED BY <1>2, <3>1, <3>2, KindsApart
  <2> HIDE DEF stage
  <2>3. q \in RequestType /\ stage \in Stages /\ stage # "idle"
    BY <1>2, <2>1, <2>2 DEF RequestType, Stages
  <2>4. BusyWellFormed(q)
    BY <1>1, <1>2, <2>1, <2>2
       DEF BusyWellFormed, KindsAt, GrantStages, CreatedStages, FoundStages, CreateKinds,
           DeleteKinds
  <2>5. RequestWellFormed(q)
    BY <1>2, <2>1, <2>3, <2>4, ProvisioningAssumption DEF RequestWellFormed
  <2>6. RequestKnows(q, did[k])
    BY <1>1, <1>2, <1>13, <2>1, <2>2, ProvisioningAssumption
       DEF RequestKnows, CreationKnows, DeletionKnows, CreateKinds
  <2>7. \A x \in Creations, id \in Ids : HoldsRequest(q, x, id) => Holds(x, id)
    BY <1>1, <2>1 DEF HoldsRequest, Holds
  <2>8. ASSUME HasSeenLink(q) PROVE Settled(q.call.id)
    BY <1>1, <2>1, <2>8, Deleting DEF HasSeenLink
  <2>9. IdsKnown' /\ SettledIsCreated' /\ SettledWasLinked'
    BY <1>1, <1>3, <1>4, <1>9, <1>11, <2>7, <2>8, NamesKept
  <2>10. \A x \in Keys : \/ ledger'[x] = ledger[x]
                         \/ ledger'[x] /= None /\ RowTellsTruth(x, ledger'[x], did'[x])
    BY <1>7, <1>9
  <2>11. ledger'[KeyOf(q.call)] /= None /\ RequestKnows(q, did'[KeyOf(q.call)])
    BY <1>2, <1>4, <1>7, <1>9, <2>1, <2>6, KnowledgeGrows
  <2> HIDE DEF c, k
  <2> QED BY <1>3, <1>4, <1>10, <2>3, <2>5, <2>9, <2>10, <2>11, HandlerStep
<1> QED BY <1>12, <1>13

LEMMA RecordFailureSound ==
  ASSUME ProvisioningInv, NEW r \in Requests, RecordFailure(r)
  PROVE  ProvisioningInv'
<1> DEFINE old == requests[r]
           c == old.call
           k == KeyAt(r)
           row == Failure(ledger[k], old.result, None)
           q == Idle("error")
<1>1. /\ old.stage = "fail" /\ old.stage \in WorkflowStages /\ old.stage \in Stages
      /\ UNCHANGED <<upstream, created, links, grants, faults, did>>
      /\ ledger' = [ledger EXCEPT ![k] = row]
      /\ requests' = [requests EXCEPT ![r] = q]
  BY DEF RecordFailure, WorkflowStages, Stages, End
<1>2. /\ old \in RequestType /\ c \in CallType /\ k \in Keys /\ RequestKnows(old, did[k])
      /\ k.kind = c.kind /\ ledger[k] \in OperationType /\ RowTellsTruth(k, ledger[k], did[k])
  BY <1>1, Busy DEF ProvisioningInv, TablesTyped, LedgerTellsTruth
<1>3. row \in OperationType
  BY <1>2 DEF Failure, Keep, OperationType, OperationStatuses, OperationSteps, RequestType
<1>4. row /= None /\ RowTellsTruth(k, row, did[k])
  BY <1>1, <1>2, <1>3, ProvisioningAssumption
     DEF RowTellsTruth, Failure, Keep, RequestKnows, CreationKnows, DeletionKnows
<1>5. row.result = Keep(ledger[k].result, old.result)
  BY DEF Failure
<1> HIDE DEF row
<1>6. /\ \A x \in Keys : ledger'[x] = IF x = k THEN row ELSE ledger[x]
      /\ ledger' \in [Keys -> {None} \union OperationType]
      /\ \A x \in Creations, id \in Ids : HoldsRow(x, id)' => Holds(x, id)
      /\ \A x \in Deletions : ledger'[x] /= None /\ ledger'[x].result /= None => Settled(x.id)
  BY <1>1, <1>3, <1>5, RowWritten
<1>7. TablesTyped'
  BY <1>1, <1>6 DEF ProvisioningInv, TablesTyped
<1>8. q \in RequestType /\ RequestWellFormed(q) /\ q.stage = "idle"
  BY IdleWellFormed
<1> HIDE DEF q
<1>9. /\ \A x \in Creations, id \in Ids : ~HoldsRequest(q, x, id)
      /\ ~HasSeenLink(q) /\ q.stage \notin WorkflowStages
  BY <1>8 DEF HoldsRequest, HasSeenLink, WorkflowStages, Stages
<1>10. /\ Existing' = Existing /\ Linked' = Linked
       /\ \A x \in Keys : did[x] \subseteq did'[x]
  BY <1>1 DEF Existing, Linked
<1>11. IdsKnown' /\ SettledIsCreated' /\ SettledWasLinked'
  BY <1>1, <1>6, <1>9, <1>10, NamesKept
<1>12. \A x \in Keys : \/ ledger'[x] = ledger[x]
                       \/ ledger'[x] /= None /\ RowTellsTruth(x, ledger'[x], did'[x])
  BY <1>1, <1>4, <1>6
<1> HIDE DEF c, k
<1> QED BY <1>1, <1>7, <1>8, <1>9, <1>10, <1>11, <1>12, HandlerStep

LEMMA FaultSound ==
  ASSUME ProvisioningInv, NEW r \in Requests, Fault(r)
  PROVE  ProvisioningInv'
<1>1. TablesTyped' /\ UNCHANGED <<upstream, created, links, ledger, did>>
  BY TablesKept, FaultsTyped, ProvisioningAssumption DEF Fault
<1>2. CASE requests[r].stage \in {"access", "grant", "usable", "load", "find", "fail"}
  BY <1>1, <1>2, HandlerReturns DEF Fault
<1>3. CASE requests[r].stage \notin {"access", "grant", "usable", "load", "find", "fail"}
  BY <1>1, <1>3, FailsSound DEF Fault, WorkflowStages
<1> QED BY <1>2, <1>3

LEMMA CrashSound ==
  ASSUME ProvisioningInv, NEW r \in Requests, Crash(r)
  PROVE  ProvisioningInv'
<1>1. TablesTyped' /\ UNCHANGED <<upstream, created, links, ledger, did>>
  BY TablesKept, FaultsTyped, ProvisioningAssumption DEF Crash
<1> QED BY <1>1, HandlerReturns DEF Crash

-----------------------------------------------------------------------------
(* The invariant, and what follows *)

LEMMA StepSound ==
  ASSUME ProvisioningInv, NEW r \in Requests, Step(r)
  PROVE  ProvisioningInv'
BY CheckLinkSound, CheckGrantSound, CheckUsableSound, LoadSound, FindSound,
   CreateUpstreamSound, SetDomainsSound, ReadLinkSound, InsertLinkSound, ReadGrantsSound,
   CompleteSound, ReadUnlinkSound, UnlinkSound, CheckReferencesSound, RemoveSound,
   WriteGrantsSound, MarkSound, RecordFailureSound
   DEF Step

LEMMA StutterSound == ProvisioningInv /\ UNCHANGED vars => ProvisioningInv'
<1> SUFFICES ASSUME ProvisioningInv, UNCHANGED vars PROVE ProvisioningInv'
  OBVIOUS
<1>1. /\ Existing' = Existing /\ Linked' = Linked
      /\ \A r \in Requests : KeyAt(r)' = KeyAt(r)
      /\ \A k, id : Holds(k, id)' <=> Holds(k, id)
      /\ \A id : Settled(id)' <=> Settled(id)
  BY DEF vars, Existing, Linked, KeyAt, Holds, HoldsRow, Settled
<1>2. TablesTyped' /\ RequestsTyped'
  BY DEF vars, ProvisioningInv, TablesTyped, RequestsTyped
<1>3. RowsLoaded' /\ LedgerTellsTruth' /\ RequestsKnow'
  BY <1>1 DEF vars, ProvisioningInv, RowsLoaded, LedgerTellsTruth, RequestsKnow
<1>4. IdsKnown' /\ SettledIsCreated' /\ SettledWasLinked'
  BY <1>1 DEF vars, ProvisioningInv, IdsKnown, SettledIsCreated, SettledWasLinked
<1> QED BY <1>2, <1>3, <1>4 DEF ProvisioningInv

LEMMA NextSound == ProvisioningInv /\ [Next]_vars => ProvisioningInv'
<1> SUFFICES ASSUME ProvisioningInv, [Next]_vars PROVE ProvisioningInv'
  OBVIOUS
<1>1. CASE UNCHANGED vars
  BY <1>1, StutterSound
<1>2. CASE Next
  <2>1. PICK r \in Requests :
          Begin(r) \/ (\E k \in Keys : Retry(r, k)) \/ Step(r) \/ Fault(r) \/ Crash(r)
    BY <1>2 DEF Next
  <2> QED BY <2>1, BeginSound, RetrySound, StepSound, FaultSound, CrashSound
<1> QED BY <1>1, <1>2

\* What the requests, the ledger and the two stores know of each other holds in
\* every reachable state.
THEOREM ProvisioningInvariant == Spec => []ProvisioningInv
BY InitSound, NextSound, PTL DEF Spec

LEMMA InvTyped == ProvisioningInv => TypeOK
BY DEF ProvisioningInv, TablesTyped, RequestsTyped, RequestWellFormed, TypeOK

\* Every variable keeps its type, and a slot is idle exactly when it has no call.
THEOREM TypeCorrect == Spec => []TypeOK
BY ProvisioningInvariant, InvTyped, PTL

\* One more effect, that comes after those it needs.
LEMMA EffectAdded ==
  ASSUME ProvisioningInv, EffectsInOrder, NEW r \in Requests, requests[r].stage \in Stages,
         NEW effect \in {"upstream", "linked", "unlinked", "removed", "completed"},
         Did(r, effect),
         effect = "linked" => "upstream" \in did[KeyAt(r)],
         effect = "removed" => "unlinked" \in did[KeyAt(r)],
         effect = "completed" =>
           IF requests[r].call.kind \in CreateKinds THEN "linked" \in did[KeyAt(r)]
                                                    ELSE "unlinked" \in did[KeyAt(r)]
  PROVE  EffectsInOrder'
<1>1. /\ KeyAt(r) \in Keys /\ KeyAt(r).kind = requests[r].call.kind
      /\ did \in [Keys -> SUBSET {"upstream", "linked", "unlinked", "removed", "completed"}]
  BY Busy DEF ProvisioningInv, TablesTyped
<1> DEFINE k == KeyAt(r)
<1> HIDE DEF k
<1>2. \A x \in Keys : did'[x] = IF x = k THEN did[x] \union {effect} ELSE did[x]
  BY <1>1 DEF Did, k
<1> QED BY <1>1, <1>2 DEF EffectsInOrder, k

LEMMA OrderKept ==
  ASSUME ProvisioningInv, EffectsInOrder, [Next]_vars
  PROVE  EffectsInOrder'
<1>1. CASE UNCHANGED did
  BY <1>1 DEF EffectsInOrder
<1>2. CASE ~UNCHANGED did
  <2>1. PICK r \in Requests :
          CreateUpstream(r) \/ InsertLink(r) \/ Unlink(r) \/ Remove(r) \/ Mark(r)
    BY <1>2 DEF Next, vars, tables, Begin, Retry, Start, Step, CheckLink, CheckGrant,
                CheckUsable, Load, Find, SetDomains, ReadLink, ReadGrants, Complete,
                ReadUnlink, CheckReferences, ReadGrantsToRemove, WriteGrants, RecordFailure,
                Fault, Crash
  <2>2. /\ requests[r].stage \in {"create", "insert_link", "unlink", "remove", "mark"}
        /\ requests[r].stage \in Stages /\ requests[r].stage \in WorkflowStages
    BY <2>1 DEF CreateUpstream, InsertLink, Unlink, Remove, Mark, Stages, WorkflowStages
  <2>3. /\ BusyWellFormed(requests[r]) /\ RequestKnows(requests[r], did[KeyAt(r)])
        /\ requests[r].call.kind \in KindsAt(requests[r].stage)
        /\ requests[r].call \in CallType
    BY <2>2, Busy
  <2>4. CASE CreateUpstream(r)
    BY <1>2, <2>2, <2>4, EffectAdded DEF CreateUpstream
  <2>5. CASE InsertLink(r)
    <3>1. "upstream" \in did[KeyAt(r)]
      BY <2>2, <2>3, <2>5, ProvisioningAssumption
         DEF InsertLink, RequestKnows, CreationKnows, KindsAt, BusyWellFormed, FoundStages
    <3> QED BY <1>2, <2>2, <2>5, <3>1, EffectAdded DEF InsertLink
  <2>6. CASE Unlink(r)
    BY <1>2, <2>2, <2>6, EffectAdded DEF Unlink
  <2>7. CASE Remove(r)
    <3>1. "unlinked" \in did[KeyAt(r)]
      BY <2>2, <2>3, <2>7, KindsApart DEF Remove, RequestKnows, DeletionKnows, KindsAt
    <3> QED BY <1>2, <2>2, <2>7, <3>1, EffectAdded DEF Remove
  <2>8. CASE Mark(r)
    <3>1. Did(r, "completed") /\ requests[r].step = "completed"
      BY <1>2, <2>8 DEF Mark
    <3>2. IF requests[r].call.kind \in CreateKinds THEN "linked" \in did[KeyAt(r)]
                                                  ELSE "unlinked" \in did[KeyAt(r)]
      BY <2>2, <2>3, <2>8, <3>1 DEF Mark, RequestKnows, CreationKnows, DeletionKnows
    <3> QED BY <2>2, <3>1, <3>2, EffectAdded
  <2> QED BY <2>1, <2>4, <2>5, <2>6, <2>7, <2>8
<1> QED BY <1>1, <1>2

\* However the requests of one operation overlap, fail and resume, it links what
\* it has created and removes what it has unlinked, and it is completed only
\* with a resource linked, or unlinked, on its behalf.
THEOREM EffectsKeepOrder == Spec => []EffectsInOrder
<1>1. Init => EffectsInOrder
  BY DEF Init, EffectsInOrder
<1>2. ProvisioningInv /\ EffectsInOrder /\ [Next]_vars => EffectsInOrder'
  BY OrderKept
<1> QED BY <1>1, <1>2, ProvisioningInvariant, PTL DEF Spec

-----------------------------------------------------------------------------
(* One handler at a time: no orphan is forgotten, and groups keep their       *)
(* lifecycle. An induction on AloneInv, beside ProvisioningInv.               *)

LEMMA NothingNamedNone == TablesTyped => \A c : NamedAs(c, None)
BY ProvisioningAssumption DEF TablesTyped, RowType, NamedAs

\* What is known of the handler at work, while there is no other.
LEMMA BusyAlone ==
  ASSUME ProvisioningInv, AloneInv, NEW r \in Requests, requests[r].stage \in Stages
  PROVE  /\ requests[r].stage \in WorkflowStages => ledger[KeyAt(r)].status /= "completed"
         /\ requests[r].call.kind \in CreateKinds => CreationAlone(requests[r])
         /\ requests[r].call.kind \in DeleteKinds => DeletionAlone(requests[r])
<1>1. requests[r].stage /= "idle"
  BY DEF Stages
<1> QED BY <1>1 DEF AloneInv, HandlerAlone, KeyAt

\* A step that leaves alone the tables that AloneInv is about.
LEMMA AloneMoves ==
  ASSUME OneHandler, ProvisioningInv, AloneInv, NEW r \in Requests, NEW q,
         requests' = [requests EXCEPT ![r] = q],
         UNCHANGED <<upstream, links, ledger, did>>, HandlerAlone(q)
  PROVE  AloneInv'
<1>1. requests'[r] = q /\ \A s \in Requests : requests'[s] = q
  BY DEF ProvisioningInv, RequestsTyped, OneHandler
<1>2. /\ Existing' = Existing /\ Linked' = Linked
      /\ \A c, id : NamedAs(c, id)' <=> NamedAs(c, id)
      /\ \A row : Unfinished(row)' <=> Unfinished(row)
  BY DEF Existing, Linked, NamedAs, Unfinished, IsOpen
<1>3. \A s \in Requests : HandlerAlone(requests[s])'
  BY <1>1, <1>2 DEF HandlerAlone, CreationAlone, DeletionAlone, NamedAs
<1>4. RowsDistinct' /\ RecordsNamed' /\ LinkedOnRecord' /\ LinkedGroupsExist' /\ NoneForgotten'
  BY <1>2 DEF AloneInv, RowsDistinct, RecordsNamed, LinkedOnRecord, LinkedGroupsExist,
              NoneForgotten
<1> QED BY <1>3, <1>4 DEF AloneInv

LEMMA AloneReturns ==
  ASSUME OneHandler, ProvisioningInv, AloneInv, NEW r \in Requests, NEW answer,
         End(r, answer), UNCHANGED <<upstream, links, ledger, did>>
  PROVE  AloneInv'
<1>1. HandlerAlone(Idle(answer))
  BY DEF HandlerAlone, Idle
<1> QED BY <1>1, AloneMoves DEF End

\* A handler that goes on with what it has.
LEMMA AloneGoes ==
  ASSUME OneHandler, ProvisioningInv, AloneInv, NEW r \in Requests, NEW stage \in Stages,
         Goto(r, stage), UNCHANGED <<upstream, links, ledger, did>>,
         requests[r].stage \in Stages,
         stage \in WorkflowStages => requests[r].stage \in WorkflowStages,
         \/ stage \in {"fail", "grant", "usable", "load", "unlink", "references"}
         \/ stage = "remove" /\ requests[r].call.id \notin Linked
  PROVE  AloneInv'
<1> DEFINE old == requests[r]
           q == [old EXCEPT !.stage = stage]
<1>1. /\ old \in RequestType
      /\ old.stage \in WorkflowStages => ledger[KeyAt(r)].status /= "completed"
      /\ old.call.kind \in CreateKinds => CreationAlone(old)
      /\ old.call.kind \in DeleteKinds => DeletionAlone(old)
  BY Busy, BusyAlone
<1>2. /\ q.stage = stage /\ q.call = old.call /\ q.found = old.found /\ q.result = old.result
      /\ q.step = old.step /\ requests' = [requests EXCEPT ![r] = q]
  BY <1>1 DEF RequestType, Goto
<1> HIDE DEF q
<1>3. HandlerAlone(q)
  BY <1>1, <1>2 DEF HandlerAlone, CreationAlone, DeletionAlone, KeyAt, CreatedStages
<1> QED BY <1>2, <1>3, AloneMoves

LEMMA StartAlone ==
  ASSUME OneHandler, ProvisioningInv, AloneInv, NEW r \in Requests, NEW c, Start(r, c)
  PROVE  AloneInv'
<1> DEFINE q == [Idle(None) EXCEPT !.stage = EntryStage(c.kind), !.call = c]
<1>1. /\ q.stage \in {"access", "load"} /\ q.call = c /\ q.result = None /\ q.found = None
      /\ requests' = [requests EXCEPT ![r] = q] /\ UNCHANGED <<upstream, links, ledger, did>>
  BY DEF Idle, EntryStage, Start, tables
<1> HIDE DEF q
<1>2. NamedAs(c, None)
  BY NothingNamedNone DEF ProvisioningInv
<1>3. HandlerAlone(q)
  BY <1>1, <1>2 DEF HandlerAlone, CreationAlone, DeletionAlone, WorkflowStages, CreatedStages
<1> QED BY <1>1, <1>3, AloneMoves

LEMMA ReadingAlone ==
  ASSUME OneHandler, ProvisioningInv, AloneInv, NEW r \in Requests,
         \/ CheckLink(r) \/ CheckGrant(r) \/ CheckUsable(r) \/ ReadUnlink(r)
         \/ CheckReferences(r) /\ requests[r].call.id \notin Linked
         \/ Fault(r) \/ Crash(r)
  PROVE  AloneInv'
<1>1. UNCHANGED <<upstream, links, ledger, did>> /\ requests[r].stage \in Stages
  BY DEF CheckLink, CheckGrant, CheckUsable, ReadUnlink, CheckReferences, Fault, Crash, tables,
         Stages
<1>2. \/ \E answer : End(r, answer)
      \/ \E stage \in {"fail", "grant", "usable", "load", "unlink", "references", "remove"} :
           /\ Goto(r, stage)
           /\ stage \in WorkflowStages => requests[r].stage \in WorkflowStages
           /\ stage = "remove" => requests[r].call.id \notin Linked
  <2>1. CASE CheckLink(r)
    BY <2>1 DEF CheckLink, WorkflowStages
  <2>2. CASE CheckGrant(r) \/ CheckUsable(r)
    BY <2>2 DEF CheckGrant, CheckUsable, WorkflowStages
  <2>3. CASE ReadUnlink(r)
    BY <2>3 DEF ReadUnlink, WorkflowStages, Stages
  <2>4. CASE CheckReferences(r) /\ requests[r].call.id \notin Linked
    BY <2>4 DEF CheckReferences, WorkflowStages, Stages
  <2>5. CASE Fault(r)
    BY <2>5 DEF Fault, WorkflowStages
  <2>6. CASE Crash(r)
    BY <2>6 DEF Crash
  <2> QED BY <2>1, <2>2, <2>3, <2>4, <2>5, <2>6
<1>3. ASSUME NEW stage \in {"fail", "grant", "usable", "load", "unlink", "references", "remove"},
             Goto(r, stage), stage \in WorkflowStages => requests[r].stage \in WorkflowStages,
             stage = "remove" => requests[r].call.id \notin Linked
      PROVE  AloneInv'
  <2>1. stage \in Stages
    BY DEF Stages
  <2>2. \/ stage \in {"fail", "grant", "usable", "load", "unlink", "references"}
        \/ stage = "remove" /\ requests[r].call.id \notin Linked
    BY <1>3
  <2> QED BY <1>1, <1>3, <2>1, <2>2, AloneGoes
<1> QED BY <1>1, <1>2, <1>3, AloneReturns

\* The steps that hand something on to the next stage.
LEMMA HandingOnAlone ==
  ASSUME OneHandler, ProvisioningInv, AloneInv, NEW r \in Requests,
         \/ Find(r) \/ SetDomains(r) \/ ReadLink(r) \/ ReadGrants(r) \/ Complete(r)
         \/ CheckReferences(r) /\ requests[r].call.id \in Linked
         \/ ReadGrantsToRemove(r) \/ WriteGrants(r)
  PROVE  AloneInv'
<1> DEFINE old == requests[r]
           q == requests'[r]
<1>1. /\ UNCHANGED <<upstream, links, ledger, did>> /\ old.stage \in Stages
      /\ old.stage \in WorkflowStages /\ old.stage # "idle"
  BY DEF Find, SetDomains, ReadLink, ReadGrants, Complete, CheckReferences, ReadGrantsToRemove,
         WriteGrants, tables, Stages, WorkflowStages
<1>2. /\ old \in RequestType /\ old.call.kind \in KindsAt(old.stage)
      /\ ledger[KeyAt(r)].status /= "completed"
      /\ old.call.kind \in CreateKinds => CreationAlone(old)
      /\ old.call.kind \in DeleteKinds => DeletionAlone(old)
  BY <1>1, Busy, BusyAlone
<1>3. NamedAs(old.call, None)
  BY NothingNamedNone DEF ProvisioningInv
<1>4. requests \in [Requests -> RequestType]
  BY DEF ProvisioningInv, RequestsTyped
<1>5. requests' = [requests EXCEPT ![r] = q] /\ HandlerAlone(q)
  <2>1. CASE Find(r)
    <3>1. /\ requests' = [requests EXCEPT ![r] = q] /\ q.call = old.call
          /\ q.stage = AfterFind(old.seen, old.result) /\ q.result = old.result
          /\ q.found \in {None, old.result} /\ (q.found /= None => q.found \in Existing)
          /\ old.stage = "find"
      BY <1>2, <1>4, <2>1 DEF Find, RequestType
    <3>2. q.stage \in {"read_link", "complete"}
      BY <3>1 DEF AfterFind
    <3> QED BY <1>2, <1>3, <3>1, <3>2, KindsApart
            DEF HandlerAlone, CreationAlone, KeyAt, KindsAt, CreatedStages
  <2>2. CASE SetDomains(r)
    <3>1. /\ requests' = [requests EXCEPT ![r] = q] /\ q.call = old.call
          /\ q.stage = "mark" /\ q.result = old.found /\ q.found = old.found
          /\ old.stage = "domains"
      BY <1>2, <1>4, <2>2 DEF SetDomains, RequestType
    <3> QED BY <1>2, <3>1 DEF HandlerAlone, CreationAlone, KeyAt, KindsAt, CreatedStages,
                              CreateKinds, DeleteKinds
  <2>3. CASE ReadLink(r)
    <3>1. /\ requests' = [requests EXCEPT ![r] = q] /\ q.call = old.call
          /\ q.stage \in {"mark", "insert_link", "add_grant"}
          /\ q.result = old.result /\ q.found = old.found /\ old.stage = "read_link"
      BY <1>2, <1>4, <2>3 DEF ReadLink, RequestType, AfterLink
    <3> QED BY <1>2, <3>1, KindsApart
            DEF HandlerAlone, CreationAlone, KeyAt, KindsAt, CreatedStages
  <2>4. CASE ReadGrants(r)
    <3>1. /\ requests' = [requests EXCEPT ![r] = q] /\ q.call = old.call
          /\ q.stage = "write_grant"
          /\ q.result = old.result /\ q.found = old.found /\ old.stage = "add_grant"
      BY <1>2, <1>4, <2>4 DEF ReadGrants, RequestType
    <3> QED BY <1>2, <3>1 DEF HandlerAlone, CreationAlone, KeyAt, KindsAt, CreatedStages,
                              CreateKinds, DeleteKinds
  <2>5. CASE Complete(r)
    <3>1. /\ requests' = [requests EXCEPT ![r] = q] /\ q.call = old.call
          /\ q.stage = "mark"
          /\ q.result = old.result /\ q.found = old.found /\ old.stage = "complete"
      BY <1>2, <1>4, <2>5 DEF Complete, ToMark, RequestType
    <3> QED BY <1>2, <3>1, KindsApart
            DEF HandlerAlone, CreationAlone, KeyAt, KindsAt, CreatedStages
  <2>6. CASE CheckReferences(r) /\ requests[r].call.id \in Linked
    <3>1. /\ requests' = [requests EXCEPT ![r] = q] /\ q.call = old.call
          /\ q.stage = "mark" /\ old.stage = "references"
      BY <1>2, <1>4, <2>6 DEF CheckReferences, ToMark, RequestType
    <3> QED BY <1>2, <2>6, <3>1 DEF HandlerAlone, DeletionAlone, KeyAt, KindsAt, CreateKinds
  <2>7. CASE ReadGrantsToRemove(r)
    <3>1. /\ requests' = [requests EXCEPT ![r] = q] /\ q.call = old.call
          /\ q.stage = "write_grant" /\ old.stage = "remove_grant"
      BY <1>2, <1>4, <2>7 DEF ReadGrantsToRemove, RequestType
    <3> QED BY <1>2, <3>1 DEF HandlerAlone, DeletionAlone, KeyAt, KindsAt, CreateKinds,
                              DeleteKinds
  <2>8. CASE WriteGrants(r)
    <3>1. /\ requests' = [requests EXCEPT ![r] = q] /\ q.call = old.call
          /\ q.stage = "mark" /\ old.stage = "write_grant"
          /\ q.result = old.result /\ q.found = old.found
      BY <1>2, <1>4, <2>8 DEF WriteGrants, RequestType
    <3> QED BY <1>2, <3>1 DEF HandlerAlone, CreationAlone, DeletionAlone, KeyAt
  <2> QED BY <2>1, <2>2, <2>3, <2>4, <2>5, <2>6, <2>7, <2>8
<1> QED BY <1>1, <1>5, AloneMoves

LEMMA LoadAlone ==
  ASSUME OneHandler, ProvisioningInv, AloneInv, NEW r \in Requests, Load(r)
  PROVE  AloneInv'
<1> DEFINE c == requests[r].call
           k == KeyOf(c)
           operation == IF ledger[k] = None THEN NewOperation(None) ELSE ledger[k]
           q == requests'[r]
<1>1. /\ requests[r].stage = "load" /\ ledger' = [ledger EXCEPT ![k] = operation]
      /\ UNCHANGED <<upstream, links, did>>
  BY DEF Load
<1>2. /\ BusyWellFormed(requests[r]) /\ c \in CallType /\ requests[r] \in RequestType
      /\ k \in Keys /\ k.kind = c.kind /\ k.id = c.id /\ k.name = c.name
  BY <1>1, Busy, KeyFacts DEF Stages
<1>3. /\ requests \in [Requests -> RequestType]
      /\ ledger \in [Keys -> {None} \union OperationType]
  BY DEF ProvisioningInv, RequestsTyped, TablesTyped
<1>4. \A x \in Keys : ledger'[x] = IF x = k THEN operation ELSE ledger[x]
  BY <1>1, <1>3
<1>5. /\ operation /= None /\ NamedAs(c, None)
      /\ ledger[k] = None => operation.result = None /\ operation.status = "in_progress"
      /\ ledger[k] /= None => operation = ledger[k] /\ RowTellsTruth(k, ledger[k], did[k])
  <2>1. NewOperation(None) /= None
    <3>1. NewOperation(None) \in OperationType
      BY DEF NewOperation, OperationType, OperationStatuses, OperationSteps
    <3> QED BY <3>1, ProvisioningAssumption
  <2>2. NamedAs(c, None)
    BY NothingNamedNone DEF ProvisioningInv
  <2>3. ledger[k] /= None => RowTellsTruth(k, ledger[k], did[k])
    BY <1>2 DEF ProvisioningInv, LedgerTellsTruth
  <2> QED BY <2>1, <2>2, <2>3 DEF NewOperation
<1> HIDE DEF operation
<1>6. /\ Existing' = Existing /\ Linked' = Linked
      /\ \A d, id : NamedAs(d, id)' <=> NamedAs(d, id)
      /\ \A x \in Keys : IsOpen(x) => IsOpen(x)'
  BY <1>1, <1>4, <1>5 DEF Existing, Linked, NamedAs, IsOpen
<1>7. RecordsNamed'
  <2>1. ASSUME NEW x \in Creations, ledger'[x] /= None
        PROVE  NamedAs(x, ledger'[x].result)
    <3>1. CASE ledger[x] /= None
      BY <1>4, <1>5, <2>1, <3>1 DEF Creations, AloneInv, RecordsNamed
    <3>2. CASE ledger[x] = None
      BY <1>2, <1>4, <1>5, <2>1, <3>2 DEF Creations, NamedAs
    <3> QED BY <3>1, <3>2
  <2> QED BY <1>6, <2>1 DEF RecordsNamed
<1>8. LinkedOnRecord'
  BY <1>1, <1>4, <1>5 DEF AloneInv, LinkedOnRecord, Creations
<1>9. NoneForgotten'
  BY <1>1, <1>6 DEF AloneInv, NoneForgotten, Unfinished, Creations, Deletions
<1>10. RowsDistinct' /\ LinkedGroupsExist'
  BY <1>1, <1>6 DEF AloneInv, RowsDistinct, LinkedGroupsExist
<1>11. CASE AlreadyCompleted(c, operation)
  <2>1. q.stage = "idle"
    BY <1>3, <1>11 DEF Load, End, Idle, operation
  <2>2. \A s \in Requests : HandlerAlone(requests[s])'
    BY <2>1 DEF HandlerAlone, OneHandler
  <2> QED BY <1>7, <1>8, <1>9, <1>10, <2>2 DEF AloneInv
<1>12. CASE ~AlreadyCompleted(c, operation)
  <2> DEFINE stage == FirstStage(c, operation.result)
  <2>1. /\ q.stage = stage /\ q.call = c /\ q.result = operation.result
        /\ q.found = requests[r].found
    BY <1>2, <1>3, <1>12 DEF Load, RequestType, operation
  <2>2. \/ c.kind \in CreateKinds /\ stage = IF operation.result = None THEN "create" ELSE "find"
        \/ c.kind = "delete_group" /\ stage \in {"unlink", "references"}
        \/ c.kind = "delete_classroom" /\ stage \in {"unlink_read", "remove"}
    BY <1>2, FirstStageSound DEF CallType, CreateKinds, DeleteKinds
  <2> HIDE DEF stage
  <2>3. operation.status /= "completed"
    <3>1. CASE c.kind \in CreateKinds
      BY <1>2, <1>5, <1>12, <3>1 DEF AlreadyCompleted, RowTellsTruth
    <3>2. CASE c.kind \notin CreateKinds
      BY <1>12, <3>2 DEF AlreadyCompleted
    <3> QED BY <3>1, <3>2
  <2>4. c.kind \in CreateKinds => requests[r].found = None
    BY <1>1, <1>2 DEF BusyWellFormed
  <2>5. c.kind \in CreateKinds => NamedAs(c, operation.result)
    <3>1. c.kind \in CreateKinds /\ ledger[k] /= None => NamedAs(k, ledger[k].result)
      BY <1>2 DEF AloneInv, RecordsNamed, Creations
    <3> QED BY <1>2, <1>5, <3>1 DEF NamedAs
  <2>6. ledger'[KeyOf(q.call)] = operation
    BY <1>2, <1>4, <2>1
  <2>7. HandlerAlone(requests[r])'
    <3>1. CASE c.kind \in CreateKinds
      BY <1>5, <1>6, <2>1, <2>2, <2>3, <2>4, <2>5, <2>6, <3>1, KindsApart
         DEF HandlerAlone, CreationAlone, CreatedStages, CreateKinds
    <3>2. CASE c.kind \in DeleteKinds
      BY <2>1, <2>2, <2>3, <2>6, <3>2, KindsApart
         DEF HandlerAlone, DeletionAlone, IsGroup
    <3> QED BY <1>2, <3>1, <3>2, KindsApart
  <2>8. \A s \in Requests : HandlerAlone(requests[s])'
    <3>1. \A s \in Requests : s = r
      BY DEF OneHandler
    <3> QED BY <2>7, <3>1
  <2> QED BY <1>7, <1>8, <1>9, <1>10, <2>8 DEF AloneInv
<1> QED BY <1>11, <1>12

LEMMA CreateUpstreamAlone ==
  ASSUME OneHandler, ProvisioningInv, AloneInv, NEW r \in Requests, CreateUpstream(r)
  PROVE  AloneInv'
<1> DEFINE old == requests[r]
           c == old.call
           k == KeyAt(r)
           q == requests'[r]
<1>1. /\ old.stage = "create" /\ old.stage \in WorkflowStages /\ old.stage \in Stages
      /\ UNCHANGED <<links, ledger>>
  BY DEF CreateUpstream, WorkflowStages, Stages
<1>2. /\ old \in RequestType /\ c.kind \in CreateKinds /\ c \in CallType /\ k = KeyOf(c)
      /\ k \in Keys /\ ledger[k] /= None /\ k.kind = c.kind /\ k.name = c.name
      /\ ledger[k].status /= "completed" /\ ledger[k].result = None
      /\ c.name \in Names
  BY <1>1, Busy, BusyAlone, KeyFacts DEF KindsAt, CreationAlone, WellFormed
<1>3. /\ requests \in [Requests -> RequestType]
      /\ did \in [Keys -> SUBSET {"upstream", "linked", "unlinked", "removed", "completed"}]
      /\ Existing \subseteq created
  BY DEF ProvisioningInv, RequestsTyped, TablesTyped, IdsKnown
<1>4. CASE NameTaken(c)
  BY <1>1, <1>4, AloneGoes DEF CreateUpstream, Stages
<1>5. CASE ~NameTaken(c)
  <2>1. PICK id \in IdsOf(c.kind) \ created, stage \in {"mark", "domains"} :
          /\ upstream' = upstream \union {[id |-> id, kind |-> c.kind, name |-> c.name]}
          /\ requests' = [requests EXCEPT
               ![r].stage = stage, ![r].step = "upstream_created", ![r].found = id,
               ![r].result = IF stage = "mark" THEN id ELSE None]
          /\ Did(r, "upstream")
    BY <1>5 DEF CreateUpstream
  <2> DEFINE new == [id |-> id, kind |-> c.kind, name |-> c.name]
  <2>2. /\ id \in Ids /\ id \notin Existing /\ id /= None
    BY <1>3, <2>1, IdsOfIds, ProvisioningAssumption
  <2>3. /\ q.stage = stage /\ q.call = c /\ q.found = id /\ q.result \in {None, id}
    BY <1>2, <1>3, <2>1 DEF RequestType
  <2>4. /\ upstream' = upstream \union {new} /\ new.id = id /\ new.kind = c.kind
        /\ new.name = c.name
    BY <2>1
  <2> HIDE DEF new
  <2>5. \A row \in upstream : row.id /= id /\ ~(row.kind = c.kind /\ row.name = c.name)
    BY <1>5, <2>2 DEF Existing, NameTaken
  <2>6. Existing' = Existing \union {id} /\ Linked' = Linked
    BY <1>1, <2>4 DEF Existing, Linked
  <2>7. RowsDistinct'
    BY <2>4, <2>5 DEF AloneInv, RowsDistinct
  <2>8. RecordsNamed'
    <3>1. ASSUME NEW x \in Creations, ledger[x] /= None
          PROVE  ledger[x].result /= id
      BY <2>1, <2>2, <3>1 DEF ProvisioningInv, IdsKnown, Holds, HoldsRow
    <3> QED BY <1>1, <2>4, <3>1 DEF AloneInv, RecordsNamed, NamedAs
  <2>9. \A x \in Keys : "linked" \in did'[x] <=> "linked" \in did[x]
    BY <1>2, <1>3, <2>1 DEF Did
  <2>10. LinkedOnRecord' /\ LinkedGroupsExist'
    BY <1>1, <2>6, <2>9 DEF AloneInv, LinkedOnRecord, LinkedGroupsExist, Creations
  <2>11. NoneForgotten'
    <3>1. k \in Creations /\ "linked" \notin did[k] /\ IsOpen(k)
      BY <1>2 DEF AloneInv, LinkedOnRecord, Creations, IsOpen
    <3>2. ASSUME NEW row, row.kind = c.kind, row.name = c.name
          PROVE  \E x \in Creations : /\ x.kind = row.kind /\ x.name = row.name
                                     /\ IsOpen(x)' /\ "linked" \notin did'[x]
      BY <1>1, <1>2, <2>9, <3>1, <3>2 DEF IsOpen
    <3>3. ASSUME NEW row \in upstream, row.id \notin Linked PROVE Unfinished(row)'
      BY <1>1, <2>9, <3>3 DEF AloneInv, NoneForgotten, Unfinished, IsOpen, Creations
    <3>4. ASSUME NEW row \in upstream', row.id \notin Linked' PROVE Unfinished(row)'
      BY <2>4, <2>6, <3>2, <3>3, <3>4 DEF Unfinished
    <3> QED BY <3>4 DEF NoneForgotten
  <2>12. \A row \in upstream' :
           row.id /= None /\ (row.id = id => row.kind = c.kind /\ row.name = c.name)
    <3>1. \A row \in upstream : row.id /= None
      BY ProvisioningAssumption DEF ProvisioningInv, TablesTyped, RowType
    <3> QED BY <2>2, <2>4, <2>5, <3>1
  <2>13. HandlerAlone(requests[r])'
    BY <1>1, <1>2, <2>3, <2>6, <2>12, KindsApart
       DEF HandlerAlone, CreationAlone, CreatedStages, NamedAs
  <2>14. \A s \in Requests : HandlerAlone(requests[s])'
    <3>1. \A s \in Requests : s = r
      BY DEF OneHandler
    <3> QED BY <2>13, <3>1
  <2> QED BY <2>7, <2>8, <2>10, <2>11, <2>14 DEF AloneInv
<1> QED BY <1>4, <1>5

LEMMA InsertLinkAlone ==
  ASSUME OneHandler, ProvisioningInv, AloneInv, NEW r \in Requests, InsertLink(r)
  PROVE  AloneInv'
<1> DEFINE old == requests[r]
           c == old.call
           k == KeyAt(r)
           q == requests'[r]
<1>1. /\ old.stage = "insert_link" /\ old.stage \in WorkflowStages /\ old.stage \in Stages
      /\ UNCHANGED <<upstream, ledger>>
  BY DEF InsertLink, WorkflowStages, Stages
<1>2. /\ old \in RequestType /\ c.kind \in CreateKinds /\ c \in CallType /\ k = KeyOf(c)
      /\ k \in Keys /\ ledger[k] /= None /\ k.kind = c.kind /\ k.name = c.name
      /\ ledger[k].status /= "completed" /\ ledger[k].result /= None
      /\ old.found \in Ids /\ old.found \in Existing /\ CreationAlone(old)
  BY <1>1, Busy, BusyAlone, KeyFacts, ProvisioningAssumption
     DEF KindsAt, CreationAlone, CreatedStages, BusyWellFormed, FoundStages
<1>3. /\ requests \in [Requests -> RequestType]
      /\ did \in [Keys -> SUBSET {"upstream", "linked", "unlinked", "removed", "completed"}]
  BY DEF ProvisioningInv, RequestsTyped, TablesTyped
<1>4. CASE LinkTaken(old)
  BY <1>1, <1>4, AloneGoes DEF InsertLink, Stages
<1>5. CASE ~LinkTaken(old)
  <2>1. /\ links' = links \union {[id |-> old.found, kind |-> c.kind, name |-> c.name]}
        /\ Goto(r, AfterLink(c)) /\ Did(r, "linked")
    BY <1>5 DEF InsertLink
  <2>2. /\ q.stage \in {"add_grant", "mark"} /\ q.call = c /\ q.found = old.found
        /\ q.result = old.result
    BY <1>2, <1>3, <2>1 DEF RequestType, Goto, AfterLink
  <2>3. Existing' = Existing /\ Linked' = Linked \union {old.found}
    <3> DEFINE new == [id |-> old.found, kind |-> c.kind, name |-> c.name]
    <3>1. new.id = old.found /\ links' = links \union {new}
      BY <2>1
    <3> HIDE DEF new
    <3> QED BY <1>1, <3>1 DEF Existing, Linked
  <2>4. \A x \in Keys : "linked" \in did'[x] <=> ("linked" \in did[x] \/ x = k)
    BY <1>2, <1>3, <2>1 DEF Did
  <2>5. RowsDistinct' /\ RecordsNamed' /\ LinkedGroupsExist'
    BY <1>1, <1>2, <2>3 DEF AloneInv, RowsDistinct, RecordsNamed, LinkedGroupsExist, NamedAs
  <2>6. LinkedOnRecord'
    BY <1>1, <1>2, <2>4 DEF AloneInv, LinkedOnRecord, Creations
  <2>7. ASSUME NEW row \in upstream, row.kind = k.kind, row.name = k.name
        PROVE  row.id = old.found
    <3>1. PICK mine \in upstream : mine.id = old.found
      BY <1>2 DEF Existing
    <3>2. mine.kind = c.kind /\ mine.name = c.name
      BY <1>2, <3>1 DEF CreationAlone, NamedAs
    <3>3. mine = row
      BY <1>2, <2>7, <3>2 DEF AloneInv, RowsDistinct
    <3> QED BY <3>1, <3>3
  <2>8. NoneForgotten'
    <3> SUFFICES ASSUME NEW row \in upstream, row.id \notin Linked, row.id /= old.found
                 PROVE  Unfinished(row)'
      BY <1>1, <2>3 DEF NoneForgotten
    <3>1. ~(row.kind = k.kind /\ row.name = k.name)
      BY <2>7
    <3> QED BY <1>1, <2>4, <3>1 DEF AloneInv, NoneForgotten, Unfinished, IsOpen, Creations
  <2>9. HandlerAlone(requests[r])'
    BY <1>1, <1>2, <2>2, <2>3, KindsApart
       DEF HandlerAlone, CreationAlone, CreatedStages, NamedAs
  <2>10. \A s \in Requests : HandlerAlone(requests[s])'
    <3>1. \A s \in Requests : s = r
      BY DEF OneHandler
    <3> QED BY <2>9, <3>1
  <2> QED BY <2>5, <2>6, <2>8, <2>10 DEF AloneInv
<1> QED BY <1>4, <1>5

LEMMA UnlinkAlone ==
  ASSUME OneHandler, ProvisioningInv, AloneInv, NEW r \in Requests, Unlink(r)
  PROVE  AloneInv'
<1> DEFINE old == requests[r]
           c == old.call
           k == KeyAt(r)
           q == requests'[r]
<1>1. /\ old.stage = "unlink" /\ old.stage \in WorkflowStages /\ old.stage \in Stages
      /\ UNCHANGED <<upstream, ledger>>
      /\ links' = {link \in links : link.id /= c.id}
      /\ Did(r, "unlinked")
  BY DEF Unlink, WorkflowStages, Stages
<1>2. /\ old \in RequestType /\ c.kind \in DeleteKinds /\ k = KeyOf(c)
      /\ k \in Keys /\ k \in Deletions /\ k.id = c.id
      /\ ledger[k] /= None /\ ledger[k].status /= "completed"
  BY <1>1, Busy, BusyAlone, Deleting DEF KindsAt
<1>3. /\ requests \in [Requests -> RequestType]
      /\ did \in [Keys -> SUBSET {"upstream", "linked", "unlinked", "removed", "completed"}]
  BY DEF ProvisioningInv, RequestsTyped, TablesTyped
<1>4. q.stage = "mark" /\ q.call = c /\ q.step = "local_committed"
  BY <1>2, <1>3 DEF Unlink, RequestType
<1>5. Existing' = Existing /\ Linked' = Linked \ {c.id}
  BY <1>1 DEF Existing, Linked
<1>6. \A x \in Keys : "linked" \in did'[x] <=> "linked" \in did[x]
  BY <1>1, <1>2, <1>3 DEF Did
<1>7. RowsDistinct' /\ RecordsNamed' /\ LinkedOnRecord' /\ LinkedGroupsExist'
  BY <1>1, <1>5, <1>6
     DEF AloneInv, RowsDistinct, RecordsNamed, LinkedOnRecord, LinkedGroupsExist, NamedAs,
         Creations
<1>8. NoneForgotten'
  <2> SUFFICES ASSUME NEW row \in upstream, row.id \notin Linked \/ row.id = c.id
               PROVE  Unfinished(row)'
    BY <1>1, <1>5 DEF NoneForgotten
  <2>1. CASE row.id = c.id
    BY <1>1, <1>2, <2>1 DEF Unfinished, IsOpen
  <2>2. CASE row.id \notin Linked
    BY <1>1, <1>6, <2>2 DEF AloneInv, NoneForgotten, Unfinished, IsOpen, Creations
  <2> QED BY <2>1, <2>2
<1>9. HandlerAlone(requests[r])'
  BY <1>1, <1>2, <1>4, KindsApart DEF HandlerAlone, DeletionAlone
<1>10. \A s \in Requests : HandlerAlone(requests[s])'
  <2>1. \A s \in Requests : s = r
    BY DEF OneHandler
  <2> QED BY <1>9, <2>1
<1> QED BY <1>7, <1>8, <1>10 DEF AloneInv

LEMMA RemoveAlone ==
  ASSUME OneHandler, ProvisioningInv, AloneInv, NEW r \in Requests, Remove(r)
  PROVE  AloneInv'
<1> DEFINE old == requests[r]
           c == old.call
           k == KeyAt(r)
           q == requests'[r]
<1>1. /\ old.stage = "remove" /\ old.stage \in WorkflowStages /\ old.stage \in Stages
      /\ UNCHANGED <<links, ledger>>
      /\ upstream' = {row \in upstream : row.id /= c.id}
      /\ Did(r, "removed")
  BY DEF Remove, WorkflowStages, Stages
<1>2. /\ old \in RequestType /\ c.kind \in DeleteKinds /\ k = KeyOf(c) /\ k \in Keys
      /\ ledger[k] /= None /\ ledger[k].status /= "completed"
      /\ c.id \in IdsOf(c.kind) /\ DeletionAlone(old)
  BY <1>1, Busy, BusyAlone, KindsApart DEF KindsAt, WellFormed
<1>3. /\ requests \in [Requests -> RequestType]
      /\ did \in [Keys -> SUBSET {"upstream", "linked", "unlinked", "removed", "completed"}]
  BY DEF ProvisioningInv, RequestsTyped, TablesTyped
<1>4. /\ q.stage = "mark" \/ q.stage = "remove_grant"
      /\ q.call = c
  BY <1>2, <1>3 DEF Remove, ToMark, Goto, RequestType
<1>5. Existing' = Existing \ {c.id} /\ Linked' = Linked
  BY <1>1 DEF Existing, Linked
<1>6. \A x \in Keys : "linked" \in did'[x] <=> "linked" \in did[x]
  BY <1>1, <1>2, <1>3 DEF Did
<1>7. RowsDistinct' /\ RecordsNamed' /\ LinkedOnRecord'
  BY <1>1, <1>6 DEF AloneInv, RowsDistinct, RecordsNamed, LinkedOnRecord, NamedAs, Creations
<1>8. LinkedGroupsExist'
  <2>1. c.id \notin Linked \/ c.id \notin GroupIds
    BY <1>1, <1>2, ProvisioningAssumption DEF DeletionAlone, IsGroup, IdsOf, DeleteKinds
  <2> QED BY <1>5, <2>1 DEF AloneInv, LinkedGroupsExist
<1>9. NoneForgotten'
  <2> SUFFICES ASSUME NEW row \in upstream, row.id \notin Linked
               PROVE  Unfinished(row)'
    BY <1>1, <1>5 DEF NoneForgotten
  <2> QED BY <1>1, <1>6 DEF AloneInv, NoneForgotten, Unfinished, IsOpen, Creations
<1>10. HandlerAlone(requests[r])'
  BY <1>1, <1>2, <1>4, <1>5, KindsApart DEF HandlerAlone, DeletionAlone
<1>11. \A s \in Requests : HandlerAlone(requests[s])'
  <2>1. \A s \in Requests : s = r
    BY DEF OneHandler
  <2> QED BY <1>10, <2>1
<1> QED BY <1>7, <1>8, <1>9, <1>11 DEF AloneInv

\* A write to the row of the handler's operation that does not complete it.
LEMMA RowWrittenAlone ==
  ASSUME ProvisioningInv, AloneInv, NEW r \in Requests, NEW row \in OperationType,
         requests[r].stage \in {"mark", "fail"},
         row.result = Keep(ledger[KeyAt(r)].result, requests[r].result),
         ledger' = [ledger EXCEPT ![KeyAt(r)] = row],
         UNCHANGED <<upstream, links>>, \A x \in Keys : "linked" \in did'[x] <=> "linked" \in did[x],
         row.status = "completed" =>
           /\ requests[r].call.kind \in CreateKinds => "linked" \in did[KeyAt(r)]
           /\ requests[r].call.kind \in DeleteKinds =>
                requests[r].call.id \notin Existing \/ requests[r].call.id \in Linked
  PROVE  /\ RowsDistinct' /\ RecordsNamed' /\ LinkedOnRecord' /\ LinkedGroupsExist'
         /\ NoneForgotten'
         /\ \A x \in Keys : ledger'[x] = IF x = KeyAt(r) THEN row ELSE ledger[x]
<1> DEFINE old == requests[r]
           c == old.call
           k == KeyAt(r)
<1>1. /\ old.stage \in Stages /\ old.stage \in WorkflowStages
      /\ row /= None
  BY ProvisioningAssumption DEF WorkflowStages, Stages
<1>2. /\ c \in CallType /\ k \in Keys /\ ledger[k] /= None
      /\ k.kind = c.kind /\ k.id = c.id /\ k.name = c.name
      /\ c.kind \in CreateKinds => CreationAlone(old)
      /\ ledger[k].status /= "completed"
  BY <1>1, Busy, BusyAlone, KeyFacts
<1>3. \A x \in Keys : ledger'[x] = IF x = k THEN row ELSE ledger[x]
  BY <1>2 DEF ProvisioningInv, TablesTyped
<1>4. /\ Existing' = Existing /\ Linked' = Linked
      /\ \A d, id : NamedAs(d, id)' <=> NamedAs(d, id)
  BY DEF Existing, Linked, NamedAs
<1> HIDE DEF k
<1>5. RowsDistinct' /\ LinkedGroupsExist'
  BY <1>4 DEF AloneInv, RowsDistinct, LinkedGroupsExist
<1>6. RecordsNamed'
  <2> SUFFICES ASSUME NEW x \in Creations, ledger'[x] /= None
               PROVE  NamedAs(x, ledger'[x].result)
    BY <1>4 DEF RecordsNamed
  <2>1. CASE x /= k
    BY <1>3, <2>1 DEF AloneInv, RecordsNamed, Creations
  <2>2. CASE x = k
    <3>1. NamedAs(x, ledger[k].result) /\ NamedAs(x, old.result)
      BY <1>2, <2>2 DEF AloneInv, RecordsNamed, Creations, CreationAlone, NamedAs
    <3>2. ledger'[x].result = ledger[k].result \/ ledger'[x].result = old.result
      BY <1>2, <1>3, <2>2 DEF Keep, k
    <3> QED BY <3>1, <3>2
  <2> QED BY <2>1, <2>2
<1>7. LinkedOnRecord'
  <2> SUFFICES ASSUME NEW x \in Creations, "linked" \in did[x]
               PROVE  ledger'[x] /= None /\ ledger'[x].result /= None
    BY DEF LinkedOnRecord, Creations
  <2>1. ledger[x] /= None /\ ledger[x].result /= None
    BY DEF AloneInv, LinkedOnRecord
  <2> QED BY <1>1, <1>3, <2>1 DEF Keep, k, Creations
<1>8. NoneForgotten'
  <2> SUFFICES ASSUME NEW one \in upstream, one.id \notin Linked
               PROVE  Unfinished(one)'
    BY <1>4 DEF NoneForgotten
  <2>1. Unfinished(one)
    BY DEF AloneInv, NoneForgotten
  <2>2. one.id \in Existing
    BY DEF Existing
  <2>3. CASE \E x \in Deletions : x.id = one.id /\ IsOpen(x)
    <3>1. PICK x \in Deletions : x.id = one.id /\ IsOpen(x)
      BY <2>3
    <3>2. IsOpen(x)'
      BY <1>1, <1>2, <1>3, <2>2, <3>1, KindsApart DEF IsOpen, Deletions, k
    <3> QED BY <3>1, <3>2 DEF Unfinished
  <2>4. CASE \E x \in Creations : /\ x.kind = one.kind /\ x.name = one.name
                                  /\ IsOpen(x) /\ "linked" \notin did[x]
    <3>1. PICK x \in Creations : /\ x.kind = one.kind /\ x.name = one.name
                                 /\ IsOpen(x) /\ "linked" \notin did[x]
      BY <2>4
    <3>2. IsOpen(x)' /\ "linked" \notin did'[x]
      BY <1>1, <1>2, <1>3, <3>1 DEF IsOpen, Creations, k
    <3> QED BY <3>1, <3>2 DEF Unfinished
  <2> QED BY <2>1, <2>3, <2>4 DEF Unfinished
<1> QED BY <1>3, <1>5, <1>6, <1>7, <1>8 DEF k

LEMMA MarkAlone ==
  ASSUME OneHandler, ProvisioningInv, AloneInv, NEW r \in Requests, Mark(r)
  PROVE  AloneInv'
<1> DEFINE old == requests[r]
           c == old.call
           k == KeyAt(r)
           row == Progress(ledger[k], old.step, old.result, None)
           q == requests'[r]
<1>1. /\ old.stage = "mark" /\ old.stage \in WorkflowStages /\ old.stage \in Stages
      /\ UNCHANGED <<upstream, links>>
      /\ ledger' = [ledger EXCEPT ![k] = row]
  BY DEF Mark, WorkflowStages, Stages
<1>2. /\ BusyWellFormed(old) /\ old \in RequestType /\ c \in CallType
      /\ k = KeyOf(c) /\ k \in Keys /\ ledger[k] /= None /\ RequestKnows(old, did[k])
      /\ old.step \in StepsOf(c.kind)
      /\ c.kind \in CreateKinds => old.result \in Ids /\ CreationAlone(old)
      /\ c.kind \in DeleteKinds => DeletionAlone(old)
      /\ ledger[k] \in OperationType
  BY <1>1, Busy, BusyAlone DEF BusyWellFormed, CreatedStages, ProvisioningInv, TablesTyped
<1>3. /\ requests \in [Requests -> RequestType]
      /\ did \in [Keys -> SUBSET {"upstream", "linked", "unlinked", "removed", "completed"}]
  BY DEF ProvisioningInv, RequestsTyped, TablesTyped
<1>4. /\ row \in OperationType /\ row.result = Keep(ledger[k].result, old.result)
      /\ row.status = "completed" => old.step = "completed"
      /\ old.step /= "completed" => row.status /= "completed"
      /\ c.kind \in CreateKinds => row.result /= None
  BY <1>2, ProvisioningAssumption
     DEF Progress, Keep, OperationType, OperationStatuses, RequestType
<1> HIDE DEF row
<1>5. \A x \in Keys : "linked" \in did'[x] <=> "linked" \in did[x]
  BY <1>2, <1>3 DEF Mark, Did
<1>6. old.step = "completed" =>
        /\ c.kind \in CreateKinds => "linked" \in did[k]
        /\ c.kind \in DeleteKinds => c.id \notin Existing \/ c.id \in Linked
  BY <1>1, <1>2 DEF RequestKnows, CreationKnows, DeletionAlone
<1>7. /\ RowsDistinct' /\ RecordsNamed' /\ LinkedOnRecord' /\ LinkedGroupsExist'
      /\ NoneForgotten'
      /\ \A x \in Keys : ledger'[x] = IF x = k THEN row ELSE ledger[x]
  BY <1>1, <1>4, <1>5, <1>6, RowWrittenAlone
<1>8. /\ Existing' = Existing /\ Linked' = Linked
      /\ \A d, id : NamedAs(d, id)' <=> NamedAs(d, id)
  BY <1>1 DEF Existing, Linked, NamedAs
<1>9. HandlerAlone(requests[r])'
  <2>1. CASE old.step = "completed"
    <3>1. q.stage = "idle"
      BY <1>3, <2>1 DEF Mark, End, Idle
    <3> QED BY <3>1 DEF HandlerAlone
  <2>2. CASE old.step /= "completed"
    <3>1. /\ q.stage = AfterMark(old) /\ q.call = c /\ q.found = old.found
          /\ q.result = old.result
      BY <1>2, <1>3, <2>2 DEF Mark, Goto, RequestType
    <3>2. ledger'[KeyOf(q.call)] = row /\ row.status /= "completed"
      BY <1>2, <1>4, <1>7, <2>2, <3>1
    <3>3. CASE c.kind \in CreateKinds
      <4>1. q.stage \in {"read_link", "complete"}
        BY <1>2, <2>2, <3>1, <3>3 DEF AfterMark, AfterFind, StepsOf
      <4> QED BY <1>2, <1>4, <1>8, <3>1, <3>2, <3>3, <4>1, KindsApart
              DEF HandlerAlone, CreationAlone
    <3>4. CASE c.kind \in DeleteKinds
      <4>1. q.stage = "references" \/ (q.stage = "remove" /\ ~IsGroup(c))
        BY <1>2, <2>2, <3>1, <3>4, KindsApart DEF AfterMark, StepsOf
      <4> QED BY <1>8, <3>1, <3>2, <3>4, <4>1, KindsApart DEF HandlerAlone, DeletionAlone
    <3> QED BY <1>2, <3>3, <3>4, KindsApart
  <2> QED BY <2>1, <2>2
<1>10. \A s \in Requests : HandlerAlone(requests[s])'
  <2>1. \A s \in Requests : s = r
    BY DEF OneHandler
  <2> QED BY <1>9, <2>1
<1> QED BY <1>7, <1>10 DEF AloneInv

LEMMA RecordFailureAlone ==
  ASSUME OneHandler, ProvisioningInv, AloneInv, NEW r \in Requests, RecordFailure(r)
  PROVE  AloneInv'
<1> DEFINE row == Failure(ledger[KeyAt(r)], requests[r].result, None)
<1>1. /\ requests[r].stage = "fail" /\ requests[r].stage \in Stages
      /\ UNCHANGED <<upstream, links, did>>
      /\ ledger' = [ledger EXCEPT ![KeyAt(r)] = row]
      /\ End(r, "error")
  BY DEF RecordFailure, Stages, WorkflowStages
<1>2. /\ requests[r] \in RequestType /\ ledger[KeyAt(r)] \in OperationType
      /\ requests \in [Requests -> RequestType]
  <2>1. requests[r].stage \in WorkflowStages
    BY <1>1 DEF WorkflowStages
  <2> QED BY <1>1, <2>1, Busy DEF ProvisioningInv, TablesTyped, RequestsTyped
<1>3. /\ row \in OperationType /\ row.status /= "completed"
      /\ row.result = Keep(ledger[KeyAt(r)].result, requests[r].result)
  BY <1>2 DEF Failure, Keep, OperationType, OperationStatuses, OperationSteps, RequestType
<1> HIDE DEF row
<1>4. /\ RowsDistinct' /\ RecordsNamed' /\ LinkedOnRecord' /\ LinkedGroupsExist'
      /\ NoneForgotten'
  BY <1>1, <1>3, RowWrittenAlone
<1>5. requests'[r].stage = "idle"
  BY <1>1, <1>2 DEF End, Idle
<1>6. \A s \in Requests : HandlerAlone(requests[s])'
  <2>1. \A s \in Requests : s = r
    BY DEF OneHandler
  <2> QED BY <1>5, <2>1 DEF HandlerAlone
<1> QED BY <1>4, <1>6 DEF AloneInv

LEMMA InitAlone == Init => AloneInv
<1> SUFFICES ASSUME Init PROVE AloneInv
  OBVIOUS
<1>1. /\ upstream = {} /\ Linked = {} /\ \A k \in Keys : ledger[k] = None /\ did[k] = {}
      /\ \A r \in Requests : requests[r].stage = "idle"
  BY DEF Init, Linked, Idle
<1> QED BY <1>1 DEF AloneInv, RowsDistinct, RecordsNamed, LinkedOnRecord, LinkedGroupsExist,
                    NoneForgotten, HandlerAlone, Creations

LEMMA NextAlone ==
  ASSUME OneHandler, ProvisioningInv, AloneInv, [Next]_vars
  PROVE  AloneInv'
<1>1. CASE UNCHANGED vars
  <2>1. /\ Existing' = Existing /\ Linked' = Linked
        /\ \A c, id : NamedAs(c, id)' <=> NamedAs(c, id)
        /\ \A row : Unfinished(row)' <=> Unfinished(row)
    BY <1>1 DEF vars, Existing, Linked, NamedAs, Unfinished, IsOpen
  <2>2. RowsDistinct' /\ RecordsNamed' /\ LinkedOnRecord' /\ LinkedGroupsExist' /\ NoneForgotten'
    BY <1>1, <2>1 DEF vars, AloneInv, RowsDistinct, RecordsNamed, LinkedOnRecord,
                      LinkedGroupsExist, NoneForgotten
  <2>3. \A s \in Requests : HandlerAlone(requests[s])'
    BY <1>1, <2>1 DEF vars, AloneInv, HandlerAlone, CreationAlone, DeletionAlone
  <2> QED BY <2>2, <2>3 DEF AloneInv
<1>2. CASE Next
  <2>1. PICK r \in Requests :
          Begin(r) \/ (\E k \in Keys : Retry(r, k)) \/ Step(r) \/ Fault(r) \/ Crash(r)
    BY <1>2 DEF Next
  <2>2. CASE Begin(r) \/ (\E k \in Keys : Retry(r, k))
    BY <2>2, StartAlone DEF Begin, Retry
  <2>3. CASE Fault(r) \/ Crash(r)
    BY <2>3, ReadingAlone
  <2>4. CASE Step(r)
    BY <2>4, ReadingAlone, HandingOnAlone, LoadAlone, CreateUpstreamAlone, InsertLinkAlone,
       UnlinkAlone, RemoveAlone, MarkAlone, RecordFailureAlone DEF Step
  <2> QED BY <2>1, <2>2, <2>3, <2>4
<1> QED BY <1>1, <1>2

\* With no request in flight, an upstream resource that no organization owns is
\* the business of an operation that the ledger does not show as completed, if
\* handlers do not overlap.
THEOREM OrphansOnRecord == OneHandler => (Spec => []NoSilentOrphan)
<1> SUFFICES ASSUME OneHandler PROVE Spec => []NoSilentOrphan
  OBVIOUS
<1>1. ProvisioningInv /\ AloneInv /\ [Next]_vars => AloneInv'
  BY NextAlone
<1>2. AloneInv => NoSilentOrphan
  BY DEF AloneInv, NoneForgotten, Unfinished, IsOpen, NoSilentOrphan, Concerns, Creations,
         Deletions
<1> QED BY <1>1, <1>2, InitAlone, ProvisioningInvariant, PTL DEF Spec

-----------------------------------------------------------------------------
(* The lifecycle of groups, as ResourceLifecycle states it *)

phases == [id \in GroupIds |-> Phase(id)]

LEMMA PhasesKept ==
  ASSUME Existing' = Existing, Linked' = Linked, created' = created
  PROVE  phases' = phases
BY DEF phases, Phase

\* A step that moves one group along.
LEMMA GroupMoves ==
  ASSUME NEW g \in GroupIds,
         \A id \in GroupIds : id /= g =>
           /\ id \in Existing' <=> id \in Existing
           /\ id \in Linked' <=> id \in Linked
           /\ id \in created' <=> id \in created
  PROVE  phases' = [phases EXCEPT ![g] = Phase(g)']
BY DEF phases, Phase

LEMMA LifecycleInit == Init => Lifecycle!Init
<1> SUFFICES ASSUME Init PROVE phases = [id \in GroupIds |-> "absent"]
  BY DEF Lifecycle!Init, phases
<1>1. Existing = {} /\ Linked = {} /\ created = {}
  BY DEF Init, Existing, Linked
<1> QED BY <1>1 DEF phases, Phase

LEMMA LifecycleNext ==
  ASSUME OneHandler, ProvisioningInv, AloneInv, [Next]_vars
  PROVE  [Lifecycle!Next]_phases
<1>1. /\ Existing \subseteq created /\ Linked \subseteq created
      /\ Linked \intersect GroupIds \subseteq Existing
  BY DEF ProvisioningInv, IdsKnown, AloneInv, LinkedGroupsExist
<1>2. CASE UNCHANGED <<upstream, created, links>>
  BY <1>2, PhasesKept DEF Existing, Linked
<1>3. CASE ~UNCHANGED <<upstream, created, links>>
  <2>1. PICK r \in Requests : CreateUpstream(r) \/ InsertLink(r) \/ Unlink(r) \/ Remove(r)
    BY <1>3 DEF Next, vars, tables, Begin, Retry, Start, Step, CheckLink, CheckGrant,
                CheckUsable, Load, Find, SetDomains, ReadLink, ReadGrants, Complete,
                ReadUnlink, CheckReferences, ReadGrantsToRemove, WriteGrants, Mark,
                RecordFailure, Fault, Crash
  <2>2. /\ requests[r].stage \in {"create", "insert_link", "unlink", "remove"}
        /\ requests[r].stage \in Stages
    BY <2>1 DEF CreateUpstream, InsertLink, Unlink, Remove, Stages
  <2> DEFINE c == requests[r].call
  <2>3. /\ c.kind \in KindsAt(requests[r].stage)
        /\ WellFormed(c) /\ BusyWellFormed(requests[r])
        /\ c.kind \in CreateKinds => CreationAlone(requests[r])
        /\ c.kind \in DeleteKinds => DeletionAlone(requests[r])
    BY <2>2, Busy, BusyAlone
  <2>4. CASE CreateUpstream(r)
    <3>1. PICK id \in IdsOf(c.kind) \ created :
            /\ upstream' = upstream \union {[id |-> id, kind |-> c.kind, name |-> c.name]}
            /\ created' = created \union {id}
      BY <1>3, <2>4 DEF CreateUpstream
    <3>2. links' = links
      BY <2>4 DEF CreateUpstream
    <3> DEFINE new == [id |-> id, kind |-> c.kind, name |-> c.name]
    <3>3. upstream' = upstream \union {new} /\ new.id = id
      BY <3>1
    <3> HIDE DEF new
    <3>4. Existing' = Existing \union {id} /\ Linked' = Linked
      BY <3>2, <3>3 DEF Existing, Linked
    <3>5. CASE id \in GroupIds
      <4>1. phases' = [phases EXCEPT ![id] = Phase(id)']
        BY <3>1, <3>4, <3>5, GroupMoves
      <4>2. phases[id] = "absent" /\ Phase(id)' = "unlinked"
        BY <1>1, <3>1, <3>4, <3>5 DEF phases, Phase
      <4> QED BY <3>5, <4>1, <4>2 DEF Lifecycle!Next, Lifecycle!Create, Lifecycle!Move, phases
    <3>6. CASE id \notin GroupIds
      <4>1. phases' = phases
        BY <3>1, <3>4, <3>6 DEF phases, Phase
      <4> QED BY <4>1
    <3> QED BY <3>5, <3>6
  <2>5. CASE InsertLink(r)
    <3> DEFINE id == requests[r].found
               new == [id |-> id, kind |-> c.kind, name |-> c.name]
    <3>1. /\ links' = links \union {new} /\ new.id = id /\ ~LinkTaken(requests[r])
          /\ UNCHANGED <<upstream, created>>
      BY <1>3, <2>5 DEF InsertLink
    <3> HIDE DEF new
    <3>2. Existing' = Existing /\ Linked' = Linked \union {id}
      BY <3>1 DEF Existing, Linked
    <3>3. /\ id \notin Linked
      BY <3>1 DEF LinkTaken, Linked
    <3>4. id \in Existing
      BY <2>3, <2>5, ProvisioningAssumption
         DEF InsertLink, KindsAt, CreationAlone, BusyWellFormed, FoundStages
    <3> HIDE DEF id
    <3>5. CASE id \in GroupIds
      <4>1. phases' = [phases EXCEPT ![id] = "linked"]
        BY <3>1, <3>2, <3>4, <3>5 DEF phases, Phase
      <4>2. phases[id] = "unlinked"
        BY <3>3, <3>4, <3>5 DEF phases, Phase
      <4> QED BY <3>5, <4>1, <4>2 DEF Lifecycle!Next, Lifecycle!Link, Lifecycle!Move, phases
    <3>6. CASE id \notin GroupIds
      <4>1. phases' = phases
        BY <3>1, <3>2, <3>6 DEF phases, Phase
      <4> QED BY <4>1
    <3> QED BY <3>5, <3>6
  <2>6. CASE Unlink(r)
    <3>1. UNCHANGED <<upstream, created>> /\ links' = {link \in links : link.id /= c.id}
      BY <2>6 DEF Unlink
    <3> HIDE DEF c
    <3>2. Existing' = Existing /\ Linked' = Linked \ {c.id}
      BY <3>1 DEF Existing, Linked
    <3>3. CASE c.id \in GroupIds /\ c.id \in Linked
      <4>1. phases' = [phases EXCEPT ![c.id] = "unlinked"]
        BY <1>1, <3>1, <3>2, <3>3 DEF phases, Phase
      <4>2. phases[c.id] = "linked"
        BY <1>1, <3>3 DEF phases, Phase
      <4> QED BY <3>3, <4>1, <4>2 DEF Lifecycle!Next, Lifecycle!Unlink, Lifecycle!Move, phases
    <3>4. CASE ~(c.id \in GroupIds /\ c.id \in Linked)
      <4>1. phases' = phases
        BY <3>1, <3>2, <3>4 DEF phases, Phase
      <4> QED BY <4>1
    <3> QED BY <3>3, <3>4
  <2>7. CASE Remove(r)
    <3>1. /\ UNCHANGED <<links, created>> /\ upstream' = {row \in upstream : row.id /= c.id}
      BY <2>7 DEF Remove
    <3>2. c.id \notin Linked \/ c.id \notin GroupIds
      BY <2>3, <2>7, ProvisioningAssumption, KindsApart
         DEF Remove, KindsAt, DeletionAlone, IsGroup, WellFormed, IdsOf, DeleteKinds
    <3> HIDE DEF c
    <3>3. Linked' = Linked /\ Existing' = Existing \ {c.id}
      BY <3>1 DEF Existing, Linked
    <3>4. CASE c.id \in GroupIds /\ c.id \in Existing
      <4>1. phases' = [phases EXCEPT ![c.id] = "gone"]
        BY <1>1, <3>1, <3>2, <3>3, <3>4 DEF phases, Phase
      <4>2. phases[c.id] = "unlinked"
        BY <3>2, <3>4 DEF phases, Phase
      <4> QED BY <3>4, <4>1, <4>2 DEF Lifecycle!Next, Lifecycle!Remove, Lifecycle!Move, phases
    <3>5. CASE ~(c.id \in GroupIds /\ c.id \in Existing)
      <4>1. phases' = phases
        BY <3>1, <3>3, <3>5 DEF phases, Phase
      <4> QED BY <4>1
    <3> QED BY <3>4, <3>5
  <2> QED BY <2>1, <2>4, <2>5, <2>6, <2>7
<1> QED BY <1>2, <1>3

\* Every group lives the life its two stores are meant to give it, if handlers
\* do not overlap: Provisioning implements ResourceLifecycle.
THEOREM GroupsKeepLifecycle == OneHandler => (Spec => GroupLifecycleKept)
<1> SUFFICES ASSUME OneHandler PROVE Spec => GroupLifecycleKept
  OBVIOUS
<1>1. ProvisioningInv /\ AloneInv /\ [Next]_vars => AloneInv'
  BY NextAlone
<1>2. ProvisioningInv /\ AloneInv /\ [Next]_vars => [Lifecycle!Next]_phases
  BY LifecycleNext
<1>3. Init => Lifecycle!Init
  BY LifecycleInit
<1>4. Spec => Lifecycle!Init /\ [][Lifecycle!Next]_phases
  BY <1>1, <1>2, <1>3, InitAlone, ProvisioningInvariant, PTL DEF Spec
<1> QED BY <1>4, PTL DEF GroupLifecycleKept, Lifecycle!Spec, phases
=============================================================================
