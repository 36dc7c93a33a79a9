---------------------------- MODULE Provisioning ----------------------------
(* The resources an organization provisions in OpenPath, groups of rules and *)
(* classrooms, and owns through its link tables: created upstream first and  *)
(* then linked, unlinked first and then deleted upstream, through the        *)
(* mutation ledger. One organization: the upstream name of a resource embeds *)
(* its organization and its id is fresh, so two of them never meet here.     *)
(* Every group is enabled, and a classroom has no default group.             *)
EXTENDS MutationLedger, FiniteSets

CONSTANTS
  GroupIds,      \* identifiers the upstream inserts may draw
  ClassroomIds,
  Names,      \* public names clients give to resources
  Teachers,
  Requests,   \* handlers that may be in flight at once
  Calls,      \* the calls clients make in this instance
  MaxFaults   \* how many failures and crashes may happen

Ids == GroupIds \union ClassroomIds

CreateKinds == {"create_group", "create_classroom"}
DeleteKinds == {"delete_group", "delete_classroom"}

IdsOf(kind) == IF kind \in {"create_group", "delete_group"} THEN GroupIds ELSE ClassroomIds

\* teacher is None when an administrator calls.
CallType ==
  [kind : CreateKinds \union DeleteKinds, name : Names \union {None}, id : Ids \union {None},
   teacher : Teachers \union {None}]

OperationType ==
  [status : OperationStatuses, step : OperationSteps, result : {None} \union Ids, metadata : {None}]

\* What a procedure knows of what it is asked for.
WellFormed(c) ==
  IF c.kind \in CreateKinds THEN c.name \in Names /\ c.id = None
                            ELSE c.id \in IdsOf(c.kind) /\ c.name = None

ASSUME ProvisioningAssumption ==
  /\ Calls \subseteq CallType
  /\ \A c \in Calls : WellFormed(c)
  /\ GroupIds \intersect ClassroomIds = {}
  /\ MaxFaults \in Nat
  /\ None \notin Ids /\ None \notin Names /\ None \notin Teachers
  /\ None \notin CallType /\ None \notin OperationType
  /\ \A ids \in SUBSET Ids : None /= ids

\* The idempotency key names the resource, never the caller.
KeyOf(c) == [c EXCEPT !.teacher = None]

Keys == {KeyOf(c) : c \in Calls}

IsGroup(c) == c.kind \in {"create_group", "delete_group"}
CreatorOf(c) == IF IsGroup(c) THEN "create_group" ELSE "create_classroom"

VARIABLES
  upstream,  \* rows of whitelist_groups and classrooms, by the kind of call that makes them
  created,   \* the identifiers drawn so far
  links,     \* rows of cp_organization_groups and cp_organization_classrooms
  grants,    \* the groups in each teacher's mirrored role row
  ledger,    \* rows of cp_mutation_operations
  requests,  \* the handler running in each slot
  faults,    \* failures and crashes so far
  did        \* history: the effects each operation has had

vars == <<upstream, created, links, grants, ledger, requests, faults, did>>
tables == <<upstream, created, links, grants, ledger, did>>

-----------------------------------------------------------------------------
(* Handlers *)

Existing == {row.id : row \in upstream}
Linked == {link.id : link \in links}

Stages == {"access", "grant", "usable", "load", "find", "create", "domains", "read_link",
           "insert_link", "add_grant", "write_grant", "complete", "unlink_read", "unlink",
           "references", "remove", "remove_grant", "mark", "fail"}

\* found: the upstream row the handler has in hand; groups: the role row it read.
Idle(answer) ==
  [stage |-> "idle", call |-> None, seen |-> "pending", result |-> None, step |-> "pending",
   found |-> None, groups |-> None, answer |-> answer]

Goto(r, stage) == requests' = [requests EXCEPT ![r].stage = stage]
End(r, answer) == requests' = [requests EXCEPT ![r] = Idle(answer)]
ToMark(r, step) == requests' = [requests EXCEPT ![r].stage = "mark", ![r].step = step]
KeyAt(r) == KeyOf(requests[r].call)
Did(r, effect) == did' = [did EXCEPT ![KeyAt(r)] = @ \union {effect}]

Init ==
  /\ upstream = {}
  /\ created = {}
  /\ links = {}
  /\ grants = [t \in Teachers |-> {}]
  /\ ledger = [k \in Keys |-> None]
  /\ requests = [r \in Requests |-> Idle(None)]
  /\ faults = 0
  /\ did = [k \in Keys |-> {}]

\* Only the deletion of a group checks access before it loads its operation.
EntryStage(kind) == IF kind = "delete_group" THEN "access" ELSE "load"

\* Clients delete resources they have been shown.
Start(r, c) ==
  /\ requests[r].stage = "idle"
  /\ c.kind \in DeleteKinds => c.id \in created
  /\ requests' = [requests EXCEPT ![r] = [Idle(None) EXCEPT !.stage = EntryStage(c.kind), !.call = c]]
  /\ UNCHANGED <<tables, faults>>

Begin(r) == \E c \in Calls : Start(r, c)

\* retryOrganizationMutationOperation: an administrator makes the call again.
Retry(r, k) == ledger[k] /= None /\ Start(r, k)

-----------------------------------------------------------------------------
(* assertCanUseGroup: the link, the grant of a teacher, the upstream row *)

CheckLink(r) ==
  LET c == requests[r].call IN
  /\ requests[r].stage = "access"
  /\ IF c.id \notin Linked THEN End(r, "refused")
     ELSE Goto(r, IF c.teacher = None THEN "usable" ELSE "grant")
  /\ UNCHANGED <<tables, faults>>

CheckGrant(r) ==
  LET c == requests[r].call IN
  /\ requests[r].stage = "grant"
  /\ IF c.id \in grants[c.teacher] THEN Goto(r, "usable") ELSE End(r, "refused")
  /\ UNCHANGED <<tables, faults>>

CheckUsable(r) ==
  /\ requests[r].stage = "usable"
  /\ IF requests[r].call.id \in Existing THEN Goto(r, "load") ELSE End(r, "refused")
  /\ UNCHANGED <<tables, faults>>

-----------------------------------------------------------------------------
(* Loading the operation *)

\* Mutant: a stored result is answer enough.
AlreadyCompletedByResult(c, operation) == operation.result /= None

\* A repeated create is a conflict, a repeated delete a success.
AlreadyCompleted(c, operation) ==
  operation.status = "completed" /\ (c.kind \in CreateKinds => operation.result /= None)

AfterFind(seen, result) ==
  IF RunsLinkLocal(seen, result) THEN "read_link" ELSE "complete"

FirstStage(c, result) ==
  CASE c.kind \in CreateKinds -> IF RunsCreateUpstream(result) THEN "create" ELSE "find"
    [] c.kind = "delete_group" -> IF RunsCommitLocalDelete(result) THEN "unlink" ELSE "references"
    [] OTHER -> IF RunsCommitLocalDelete(result) THEN "unlink_read" ELSE "remove"

Load(r) ==
  LET c == requests[r].call
      k == KeyOf(c)
      operation == IF ledger[k] = None THEN NewOperation(None) ELSE ledger[k] IN
  /\ requests[r].stage = "load"
  /\ ledger' = [ledger EXCEPT ![k] = operation]
  /\ IF AlreadyCompleted(c, operation)
     THEN End(r, IF c.kind \in CreateKinds THEN "refused" ELSE "ok")
     ELSE requests' = [requests EXCEPT ![r].stage = FirstStage(c, operation.result),
                                       ![r].seen = operation.step,
                                       ![r].result = operation.result]
  /\ UNCHANGED <<upstream, created, links, grants, faults, did>>

\* A create that has a stored result looks for the upstream row it names.
Find(r) ==
  LET q == requests[r] IN
  /\ q.stage = "find"
  /\ requests' = [requests EXCEPT
       ![r].stage = AfterFind(q.seen, q.result),
       ![r].found = IF q.result \in Existing THEN q.result ELSE None]
  /\ UNCHANGED <<tables, faults>>

-----------------------------------------------------------------------------
(* runUpstreamFirstProvisioningWorkflow: create upstream, link, complete *)

NameTaken(c) == \E row \in upstream : row.kind = c.kind /\ row.name = c.name

\* The captive portal domains of a classroom are written by a second statement.
CreateUpstream(r) ==
  LET c == requests[r].call IN
  /\ requests[r].stage = "create"
  /\ IF NameTaken(c)
     THEN Goto(r, "fail") /\ UNCHANGED <<upstream, created, did>>
     ELSE \E id \in IdsOf(c.kind) \ created, stage \in {"mark", "domains"} :
            /\ stage = "domains" => c.kind = "create_classroom"
            /\ upstream' = upstream \union {[id |-> id, kind |-> c.kind, name |-> c.name]}
            /\ created' = created \union {id}
            /\ requests' = [requests EXCEPT
                 ![r].stage = stage, ![r].step = "upstream_created", ![r].found = id,
                 ![r].result = IF stage = "mark" THEN id ELSE None]
            /\ Did(r, "upstream")
  /\ UNCHANGED <<links, grants, ledger, faults>>

\* The step has its result only once it has returned.
SetDomains(r) ==
  /\ requests[r].stage = "domains"
  /\ requests' = [requests EXCEPT ![r].stage = "mark", ![r].result = requests[r].found]
  /\ UNCHANGED <<tables, faults>>

\* Of the two kinds only a group is granted to the teacher who makes it.
AfterLink(c) == IF IsGroup(c) /\ c.teacher /= None THEN "add_grant" ELSE "mark"

\* linkLocal does nothing for a resource that is not there any more.
ReadLink(r) ==
  LET q == requests[r] IN
  /\ q.stage = "read_link"
  /\ requests' = [requests EXCEPT
       ![r].stage = IF q.found = None THEN "mark"
                    ELSE IF q.found \in Linked THEN AfterLink(q.call) ELSE "insert_link",
       ![r].step = "local_linked"]
  /\ UNCHANGED <<tables, faults>>

\* Unique: the resource, and the public name of a group.
LinkTaken(q) ==
  \E link \in links : link.id = q.found \/ (IsGroup(q.call) /\ link.kind = q.call.kind
                                            /\ link.name = q.call.name)

InsertLink(r) ==
  LET q == requests[r] IN
  /\ q.stage = "insert_link"
  /\ IF LinkTaken(q)
     THEN Goto(r, "fail") /\ UNCHANGED <<links, did>>
     ELSE /\ links' = links \union {[id |-> q.found, kind |-> q.call.kind, name |-> q.call.name]}
          /\ Goto(r, AfterLink(q.call))
          /\ Did(r, "linked")
  /\ UNCHANGED <<upstream, created, grants, ledger, faults>>

\* addGroupToTeacherRole reads the role row, then writes all its groups.
ReadGrants(r) ==
  /\ requests[r].stage = "add_grant"
  /\ requests' = [requests EXCEPT ![r].stage = "write_grant",
                                  ![r].groups = grants[requests[r].call.teacher]]
  /\ UNCHANGED <<tables, faults>>

\* Publishing the group changes nothing that is kept here, but may fail.
Complete(r) ==
  /\ requests[r].stage = "complete"
  /\ ToMark(r, "completed")
  /\ UNCHANGED <<tables, faults>>

-----------------------------------------------------------------------------
(* runDeleteMutationWorkflow: unlink, remove upstream *)

\* Only the classroom's deletion looks for its link here.
ReadUnlink(r) ==
  /\ requests[r].stage = "unlink_read"
  /\ Goto(r, IF requests[r].call.id \in Linked THEN "unlink" ELSE "fail")
  /\ UNCHANGED <<tables, faults>>

Unlink(r) ==
  LET c == requests[r].call IN
  /\ requests[r].stage = "unlink"
  /\ links' = {link \in links : link.id /= c.id}
  /\ requests' = [requests EXCEPT ![r].stage = "mark", ![r].step = "local_committed",
                                  ![r].result = c.id]
  /\ Did(r, "unlinked")
  /\ UNCHANGED <<upstream, created, grants, ledger, faults>>

\* Mutant: nobody looks for the links that are left.
CheckReferencesNever(r) ==
  /\ requests[r].stage = "references"
  /\ Goto(r, "remove")
  /\ UNCHANGED <<tables, faults>>

\* A group that is linked again, or still, is left alone.
CheckReferences(r) ==
  /\ requests[r].stage = "references"
  /\ IF requests[r].call.id \in Linked THEN ToMark(r, "completed") ELSE Goto(r, "remove")
  /\ UNCHANGED <<tables, faults>>

\* Mutant: the rules go, the row stays.
RemoveRulesOnly(r) ==
  /\ requests[r].stage = "remove"
  /\ ToMark(r, "completed")
  /\ UNCHANGED <<tables, faults>>

Remove(r) ==
  LET c == requests[r].call IN
  /\ requests[r].stage = "remove"
  /\ upstream' = {row \in upstream : row.id /= c.id}
  /\ IF IsGroup(c) /\ c.teacher /= None THEN Goto(r, "remove_grant") ELSE ToMark(r, "completed")
  /\ Did(r, "removed")
  /\ UNCHANGED <<created, links, grants, ledger, faults>>

\* removeGroupFromTeacherRole, up to its write.
ReadGrantsToRemove(r) ==
  /\ requests[r].stage = "remove_grant"
  /\ requests' = [requests EXCEPT ![r].stage = "write_grant",
                                  ![r].groups = grants[requests[r].call.teacher]]
  /\ UNCHANGED <<tables, faults>>

\* Both writers of the role row replace the groups they read.
WriteGrants(r) ==
  LET q == requests[r] IN
  /\ q.stage = "write_grant"
  /\ grants' = [grants EXCEPT ![q.call.teacher] =
                  IF q.call.kind = "create_group" THEN q.groups \union {q.found}
                                                  ELSE q.groups \ {q.call.id}]
  /\ requests' = [requests EXCEPT
       ![r].stage = "mark", ![r].groups = None,
       ![r].step = IF q.call.kind = "create_group" THEN "local_linked" ELSE "completed"]
  /\ UNCHANGED <<upstream, created, links, ledger, faults, did>>

-----------------------------------------------------------------------------
(* Progress, failure and death *)

AfterMark(q) ==
  CASE q.step = "upstream_created" -> AfterFind(q.seen, q.result)
    [] q.step = "local_linked" -> "complete"
    [] OTHER -> IF IsGroup(q.call) THEN "references" ELSE "remove"

\* Mutant: the handler returns with its call still on the books.
MarkUnreleased(r) ==
  LET q == requests[r] IN
  /\ q.stage = "mark"
  /\ ledger' = [ledger EXCEPT ![KeyAt(r)] = Progress(@, q.step, q.result, None)]
  /\ Goto(r, IF q.step = "completed" THEN "idle" ELSE AfterMark(q))
  /\ UNCHANGED <<upstream, created, links, grants, faults, did>>

\* A create that has no row in hand is an error, completed though it is.
Mark(r) ==
  LET q == requests[r]
      answer == IF q.call.kind \in CreateKinds /\ q.found = None THEN "error" ELSE "ok" IN
  /\ q.stage = "mark"
  /\ ledger' = [ledger EXCEPT ![KeyAt(r)] = Progress(@, q.step, q.result, None)]
  /\ IF q.step = "completed"
     THEN End(r, answer) /\ Did(r, "completed")
     ELSE Goto(r, AfterMark(q)) /\ UNCHANGED did
  /\ UNCHANGED <<upstream, created, links, grants, faults>>

RecordFailure(r) ==
  LET q == requests[r] IN
  /\ q.stage = "fail"
  /\ ledger' = [ledger EXCEPT ![KeyAt(r)] = Failure(@, q.result, None)]
  /\ End(r, "error")
  /\ UNCHANGED <<upstream, created, links, grants, faults, did>>

\* A database does not answer.
Fault(r) ==
  /\ faults < MaxFaults
  /\ requests[r].stage \in Stages
  /\ faults' = faults + 1
  /\ IF requests[r].stage \in {"access", "grant", "usable", "load", "find", "fail"}
     THEN End(r, "error")
     ELSE Goto(r, "fail")
  /\ UNCHANGED tables

\* The process dies and with it the handler.
Crash(r) ==
  /\ faults < MaxFaults
  /\ requests[r].stage \in Stages
  /\ faults' = faults + 1
  /\ End(r, None)
  /\ UNCHANGED tables

-----------------------------------------------------------------------------

Step(r) ==
  \/ CheckLink(r) \/ CheckGrant(r) \/ CheckUsable(r) \/ Load(r) \/ Find(r)
  \/ CreateUpstream(r) \/ SetDomains(r) \/ ReadLink(r) \/ InsertLink(r) \/ ReadGrants(r)
  \/ Complete(r) \/ ReadUnlink(r) \/ Unlink(r) \/ CheckReferences(r) \/ Remove(r)
  \/ ReadGrantsToRemove(r) \/ WriteGrants(r) \/ Mark(r) \/ RecordFailure(r)

Next ==
  \E r \in Requests :
    \/ Begin(r)
    \/ \E k \in Keys : Retry(r, k)
    \/ Step(r)
    \/ Fault(r)
    \/ Crash(r)

Spec == Init /\ [][Next]_vars

\* Handlers run on; an administrator does not stop retrying an operation.
FairSpec ==
  /\ Spec
  /\ \A r \in Requests : WF_vars(Step(r))
  /\ \A k \in Keys : SF_vars(\E r \in Requests : Retry(r, k))

-----------------------------------------------------------------------------
(* Properties *)

RowType == [id : Ids, kind : CreateKinds, name : Names]

RequestType ==
  [stage : Stages \union {"idle"}, call : {None} \union CallType, seen : OperationSteps,
   result : {None} \union Ids, step : OperationSteps, found : {None} \union Ids,
   groups : {None} \union SUBSET Ids, answer : {"ok", "refused", "error", None}]

\* Every variable keeps its type, and a slot is idle exactly when it has no call.
TypeOK ==
  /\ upstream \subseteq RowType
  /\ created \subseteq Ids
  /\ links \subseteq RowType
  /\ grants \in [Teachers -> SUBSET Ids]
  /\ ledger \in [Keys -> {None} \union OperationType]
  /\ requests \in [Requests -> RequestType]
  /\ faults \in 0..MaxFaults
  /\ did \in [Keys -> SUBSET {"upstream", "linked", "unlinked", "removed", "completed"}]
  /\ \A r \in Requests : (requests[r].stage = "idle") <=> (requests[r].call = None)

Phase(id) ==
  IF id \in Existing
  THEN IF id \in Linked THEN "linked" ELSE "unlinked"
  ELSE IF id \in Linked THEN "dangling" ELSE IF id \in created THEN "gone" ELSE "absent"

\* Every group lives the life its two stores are meant to give it, across
\* failures, crashes and retries: never linked when it does not exist, never
\* removed while it is linked, never back once it is gone. It takes one handler
\* at a time; a classroom, whose deletion does not look whether it has been
\* linked again, has no such guarantee.
Lifecycle == INSTANCE ResourceLifecycle
  WITH Resources <- GroupIds, phase <- [id \in GroupIds |-> Phase(id)]
GroupLifecycleKept == Lifecycle!Spec

Quiescent == \A r \in Requests : requests[r].stage = "idle"

Concerns(k, row) == k.id = row.id \/ (k.kind = row.kind /\ k.name = row.name)

\* With no request in flight, an upstream resource that no organization owns is
\* the business of an operation that the ledger does not show as completed.
\* Two handlers and a crash between them can lose it.
NoSilentOrphan ==
  Quiescent =>
    \A row \in upstream :
      row.id \in Linked \/ \E k \in Keys : /\ Concerns(k, row)
                                           /\ ledger[k] /= None
                                           /\ ledger[k].status /= "completed"

\* However the requests of one operation overlap, fail and resume, it links what
\* it has created and removes what it has unlinked, and it is completed only
\* with a resource linked, or unlinked, on its behalf.
EffectsInOrder ==
  \A k \in Keys :
    /\ "linked" \in did[k] => "upstream" \in did[k]
    /\ "removed" \in did[k] => "unlinked" \in did[k]
    /\ "completed" \in did[k] =>
         IF k.kind \in CreateKinds THEN "linked" \in did[k] ELSE "unlinked" \in did[k]

\* An operation whose upstream identifier reached the ledger is completed in
\* the end, as long as it is retried; the deletion of a group is not.
RecordedIsFinished ==
  \A k \in {x \in Keys : x.kind /= "delete_group"} :
    (ledger[k] /= None /\ ledger[k].result /= None) ~> "completed" \in did[k]

\* A resource created upstream is linked in the end, as long as its operation
\* is retried.
CreatedIsLinked ==
  \A k \in Keys : "upstream" \in did[k] ~> "linked" \in did[k]

\* What a deletion has unlinked it finishes in the end, as long as its operation
\* is retried.
UnlinkedIsCompleted ==
  \A k \in Keys : "unlinked" \in did[k] ~> "completed" \in did[k]

-----------------------------------------------------------------------------
(* What makes them inductive *)

\* The kinds of call that reach a stage.
KindsAt(stage) ==
  CASE stage \in {"access", "grant", "usable", "references", "remove_grant"} -> {"delete_group"}
    [] stage = "unlink_read" -> {"delete_classroom"}
    [] stage \in {"unlink", "remove"} -> DeleteKinds
    [] stage = "domains" -> {"create_classroom"}
    [] stage = "add_grant" -> {"create_group"}
    [] stage = "write_grant" -> {"create_group", "delete_group"}
    [] stage \in {"find", "create", "read_link", "insert_link", "complete"} -> CreateKinds
    [] OTHER -> CreateKinds \union DeleteKinds

WorkflowStages == Stages \ {"access", "grant", "usable", "load"}
GrantStages == {"grant", "add_grant", "write_grant", "remove_grant"}

\* The stages of a creation that has a result, and those that have their row in hand.
CreatedStages == {"find", "read_link", "insert_link", "add_grant", "write_grant", "complete", "mark"}
FoundStages == {"domains", "insert_link", "add_grant", "write_grant"}

StepsOf(kind) ==
  IF kind \in CreateKinds THEN {"upstream_created", "local_linked", "completed"}
                          ELSE {"local_committed", "completed"}

BusyWellFormed(q) ==
  /\ q.call \in CallType /\ WellFormed(q.call) /\ KeyOf(q.call) \in Keys
  /\ q.call.kind \in KindsAt(q.stage)
  /\ q.stage \in GrantStages => q.call.teacher \in Teachers
  /\ q.stage = "write_grant" => q.groups \in SUBSET Ids
  /\ q.stage = "mark" => q.step \in StepsOf(q.call.kind)
  /\ q.stage = "domains" => q.step = "upstream_created"
  /\ q.stage \in {"insert_link", "add_grant"} => q.step = "local_linked"
  /\ q.call.kind \in CreateKinds =>
       /\ q.stage \in CreatedStages => q.result \in Ids
       /\ q.stage \in FoundStages => q.found \in Ids
       /\ q.stage = "mark" /\ q.step = "upstream_created" => q.found \in Ids
       /\ q.stage \in {"load", "find", "create"} => q.found = None

RequestWellFormed(q) ==
  /\ (q.stage = "idle") <=> (q.call = None)
  /\ q.stage /= "idle" => BusyWellFormed(q)

TablesTyped ==
  /\ upstream \subseteq RowType
  /\ created \subseteq Ids
  /\ links \subseteq RowType
  /\ grants \in [Teachers -> SUBSET Ids]
  /\ ledger \in [Keys -> {None} \union OperationType]
  /\ faults \in 0..MaxFaults
  /\ did \in [Keys -> SUBSET {"upstream", "linked", "unlinked", "removed", "completed"}]

RequestsTyped ==
  /\ requests \in [Requests -> RequestType]
  /\ \A r \in Requests : RequestWellFormed(requests[r])

\* A request at work on an operation has its row.
RowsLoaded ==
  \A r \in Requests : requests[r].stage \in WorkflowStages => ledger[KeyAt(r)] /= None

\* What a row of the ledger, and a request at work, know to have been done.
RowTellsTruth(k, row, done) ==
  IF k.kind \in CreateKinds
  THEN /\ row.result /= None => "upstream" \in done
       /\ row.step \in {"local_linked", "completed"} => "linked" \in done
       /\ row.step \in {"upstream_created", "local_linked", "completed"} => row.result /= None
       /\ row.status = "completed" => row.step = "completed"
  ELSE row.result /= None => "unlinked" \in done

LedgerTellsTruth == \A k \in Keys : ledger[k] /= None => RowTellsTruth(k, ledger[k], did[k])

CreationKnows(q, done) ==
  /\ q.result /= None \/ q.found /= None => "upstream" \in done
  /\ q.seen \in {"local_linked", "completed"} => "linked" \in done
  /\ q.stage = "read_link" /\ q.found = None => "linked" \in done
  /\ q.stage \in {"add_grant", "write_grant", "complete"} => "linked" \in done
  /\ q.stage = "mark" /\ q.step /= "upstream_created" => "linked" \in done

DeletionKnows(q, done) ==
  q.result /= None \/ q.stage \in {"references", "remove", "remove_grant", "write_grant", "mark"}
    => "unlinked" \in done

RequestKnows(q, done) ==
  q.stage \in WorkflowStages =>
    IF q.call.kind \in CreateKinds THEN CreationKnows(q, done) ELSE DeletionKnows(q, done)

RequestsKnow == \A r \in Requests : RequestKnows(requests[r], did[KeyAt(r)])

\* The row of operation k, or a request at work on it, names the resource id.
Creations == {k \in Keys : k.kind \in CreateKinds}
Deletions == {k \in Keys : k.kind \in DeleteKinds}

HoldsRow(k, id) == ledger[k] /= None /\ ledger[k].result = id
HoldsRequest(q, k, id) ==
  q.stage /= "idle" /\ KeyOf(q.call) = k /\ (q.result = id \/ q.found = id)
Holds(k, id) == HoldsRow(k, id) \/ \E r \in Requests : HoldsRequest(requests[r], k, id)

\* A resource is named by one creation at most, and none is named, exists or is
\* linked that was not created.
IdsKnown ==
  /\ Existing \subseteq created /\ Linked \subseteq created
  /\ \A k \in Creations, id \in Ids : Holds(k, id) => id \in created
  /\ \A k, l \in Creations, id \in Ids : Holds(k, id) /\ Holds(l, id) => k = l

\* A deletion that has seen its resource linked, or comes from one that has.
HasSeenLink(q) ==
  /\ q.stage /= "idle" /\ q.call.kind \in DeleteKinds
  /\ \/ q.stage \in {"grant", "usable", "unlink", "references", "remove", "remove_grant",
                       "write_grant", "mark"}
     \/ q.stage = "load" /\ IsGroup(q.call)
     \/ q.result /= None

\* A resource that is linked, gone or to be deleted.
Settled(id) ==
  \/ id \in Linked
  \/ id \in created \ Existing
  \/ \E r \in Requests : HasSeenLink(requests[r]) /\ requests[r].call.id = id
  \/ \E k \in Deletions : k.id = id /\ ledger[k] /= None /\ ledger[k].result /= None

SettledIsCreated == \A id \in Ids : Settled(id) => id \in created

\* Such a resource was linked by the creation that names it: so a request that
\* does not find it may take the link for made.
SettledWasLinked ==
  \A id \in Ids, k \in Creations : Settled(id) /\ Holds(k, id) => "linked" \in did[k]

ProvisioningInv ==
  /\ TablesTyped
  /\ RequestsTyped
  /\ RowsLoaded
  /\ LedgerTellsTruth
  /\ RequestsKnow
  /\ IdsKnown
  /\ SettledIsCreated
  /\ SettledWasLinked
-----------------------------------------------------------------------------
(* What is known besides while handlers do not overlap *)

OneHandler == \A r, s \in Requests : r = s

NamedAs(c, id) == \A row \in upstream : row.id = id => row.kind = c.kind /\ row.name = c.name

RowsDistinct ==
  \A x, y \in upstream : x.id = y.id \/ (x.kind = y.kind /\ x.name = y.name) => x = y

RecordsNamed == \A k \in Creations : ledger[k] /= None => NamedAs(k, ledger[k].result)

\* What was linked had its identifier put on record before.
LinkedOnRecord ==
  \A k \in Creations : "linked" \in did[k] => ledger[k] /= None /\ ledger[k].result /= None

LinkedGroupsExist == Linked \intersect GroupIds \subseteq Existing

IsOpen(k) == ledger[k] /= None /\ ledger[k].status /= "completed"

\* A row that nothing links is still to be linked, or still to be removed.
Unfinished(row) ==
  \/ \E k \in Deletions : k.id = row.id /\ IsOpen(k)
  \/ \E k \in Creations :
       k.kind = row.kind /\ k.name = row.name /\ IsOpen(k) /\ "linked" \notin did[k]

NoneForgotten == \A row \in upstream : row.id \notin Linked => Unfinished(row)

\* A handler that works alone finds the row of its operation as it left it, and
\* the resource as it saw it.
CreationAlone(q) ==
  /\ q.stage = "create" => ledger[KeyOf(q.call)].result = None
  /\ q.stage \in CreatedStages \ {"mark"} => ledger[KeyOf(q.call)].result /= None
  /\ q.found /= None => q.found \in Existing
  /\ NamedAs(q.call, q.result) /\ NamedAs(q.call, q.found)

DeletionAlone(q) ==
  /\ q.stage \in {"remove_grant", "write_grant"} => q.call.id \notin Existing
  /\ q.stage = "mark" /\ q.step = "completed" => q.call.id \notin Existing \/ q.call.id \in Linked
  /\ q.stage = "remove" /\ IsGroup(q.call) => q.call.id \notin Linked

HandlerAlone(q) ==
  q.stage /= "idle" =>
    /\ q.stage \in WorkflowStages => ledger[KeyOf(q.call)].status /= "completed"
    /\ q.call.kind \in CreateKinds => CreationAlone(q)
    /\ q.call.kind \in DeleteKinds => DeletionAlone(q)

AloneInv ==
  /\ RowsDistinct
  /\ RecordsNamed
  /\ LinkedOnRecord
  /\ LinkedGroupsExist
  /\ NoneForgotten
  /\ \A r \in Requests : HandlerAlone(requests[r])
=============================================================================
