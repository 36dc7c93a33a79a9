--------------------------- MODULE UserMutations ---------------------------
(* The user mutations of ClassroomPath that span its own tables and the     *)
(* OpenPath role mirror: creating an organization, approving a waiting user, *)
(* assigning and revoking a role, deleting a user from an organization; with *)
(* the waiting list they consume. Every request is a handler whose database  *)
(* statements are separate steps, interleaved with those of other requests;  *)
(* it may fail at a statement or die between two of them.                    *)
EXTENDS MutationLedger, FiniteSets

CONSTANTS
  Users, Orgs, Groups,
  Requests,         \* handlers that may be in flight at once
  Calls,            \* the calls clients make in this instance
  InitialMembers,   \* members of organizations founded before, mirror in step
  AllowOrgDirectory, \* config: users choose their organization from a list
  MaxFaults         \* how many failures and crashes may happen

Roles == {"admin", "teacher"}

AdminKinds == {"approve_user", "assign_role", "revoke_role", "delete_user", "reject_user"}
SelfKinds == {"create_organization", "set_waiting"}
LedgerKinds == {"create_organization", "approve_user", "assign_role", "revoke_role",
                "delete_user"}
RetryableKinds == LedgerKinds \ {"create_organization"}

CallType ==
  [kind : AdminKinds \union SelfKinds, org : Orgs \union {None}, user : Users,
   role : Roles \union {None}, groups : SUBSET Groups]

MemberType == [user : Users, org : Orgs, role : Roles]

\* What the ledger stores of a local commit: identifiers are left out.
ResultType == [role : Roles \union {None}, groups : SUBSET Groups]

OperationType ==
  [status : OperationStatuses, step : OperationSteps, result : {None} \union ResultType,
   metadata : Roles \union {None}]

\* What the input schemas of the procedures let through.
WellFormed(c) ==
  /\ c.kind \in AdminKinds => c.org \in Orgs
  /\ c.kind \in {"assign_role", "approve_user"} => c.role \in Roles

ASSUME UserMutationsAssumption ==
  /\ Calls \subseteq CallType
  /\ \A c \in Calls : WellFormed(c)
  /\ InitialMembers \subseteq MemberType
  /\ \A m, n \in InitialMembers : m.user = n.user => m = n
  /\ MaxFaults \in Nat /\ AllowOrgDirectory \in BOOLEAN
  /\ None \notin Users /\ None \notin Orgs /\ None \notin Roles
  /\ None \notin CallType /\ (\A gs \in SUBSET Groups : None /= gs)
  /\ None \notin ResultType /\ None \notin OperationType
  /\ "untargeted" \notin Orgs /\ None \notin {"ok", "untargeted"}

\* The idempotency key of a call: which of its fields name the operation.
KeyOf(c) ==
  CASE c.kind = "create_organization" ->
         [c EXCEPT !.org = None, !.role = None, !.groups = {}]
    [] c.kind = "assign_role" -> c
    [] OTHER -> [c EXCEPT !.role = None, !.groups = {}]

Keys == {KeyOf(c) : c \in {d \in Calls : d.kind \in LedgerKinds}}

\* The proof of an earlier local commit the service asks the engine to accept.
LocalCommitProof(kind) ==
  IF kind \in {"create_organization", "approve_user"} THEN "result" ELSE "current-step"

VARIABLES
  memberships,   \* rows of cp_memberships
  organizations, \* rows of cp_organizations
  waiting,       \* cp_user_status: no row, "untargeted", or the organization waited for
  mirror,        \* rows of the OpenPath roles table
  ledger,        \* rows of cp_mutation_operations
  audits,        \* audit events, as a set
  requests,      \* the handler running in each slot
  faults,        \* failures and crashes so far
  did            \* history: the effects each operation has had

vars == <<memberships, organizations, waiting, mirror, ledger, audits, requests, faults, did>>
tables == <<memberships, organizations, waiting, mirror, ledger, audits, did>>

-----------------------------------------------------------------------------
(* Reading the tables *)

MembersOf(user) == {m \in memberships : m.user = user}
MembersIn(org, user) == {m \in MembersOf(user) : m.org = org}
AdminsOf(org) == {m \in memberships : m.org = org /\ m.role = "admin"}
MirrorOf(user) == {row \in mirror : row.user = user}

NoDetail == [role |-> None, groups |-> {}]

-----------------------------------------------------------------------------
(* Handlers *)

Stages == {"access", "target", "admins", "onboard", "choose", "wait", "reject", "reject_audit",
           "load", "commit", "write", "sync_member", "sync_row", "sync_write", "audit",
           "mark", "fail"}

\* The answer is that of the last call the slot served.
Idle(answer) ==
  [stage |-> "idle", call |-> None, seen |-> "pending", result |-> None,
   step |-> "pending", role |-> None, row |-> None, answer |-> answer]

Goto(r, stage) == requests' = [requests EXCEPT ![r].stage = stage]
End(r, answer) == requests' = [requests EXCEPT ![r] = Idle(answer)]
KeyAt(r) == KeyOf(requests[r].call)

Init ==
  /\ memberships = InitialMembers
  /\ organizations = {m.org : m \in InitialMembers}
  /\ waiting = [u \in Users |-> None]
  /\ mirror = {[id |-> m.user, user |-> m.user, role |-> m.role, groups |-> {}] :
                 m \in InitialMembers}
  /\ ledger = [k \in Keys |-> None]
  /\ audits = {}
  /\ requests = [r \in Requests |-> Idle(None)]
  /\ faults = 0
  /\ did = [k \in Keys |-> {}]

EntryStage(kind) ==
  CASE kind \in {"assign_role", "revoke_role", "delete_user"} -> "access"
    [] kind \in SelfKinds -> "onboard"
    [] kind = "reject_user" -> "reject"
    [] OTHER -> "load"

Start(r, c) ==
  /\ requests[r].stage = "idle"
  /\ c.kind \in AdminKinds => AdminsOf(c.org) /= {}
  /\ requests' = [requests EXCEPT ![r] =
                    [Idle(None) EXCEPT !.stage = EntryStage(c.kind), !.call = c]]
  /\ UNCHANGED <<tables, faults>>

Begin(r) == \E c \in Calls : Start(r, c)

\* retryOrganizationMutationOperation: the call is rebuilt from the row.
Retry(r, k) ==
  /\ ledger[k] /= None
  /\ k.kind \in RetryableKinds
  /\ Start(r, IF k.kind = "approve_user" THEN [k EXCEPT !.role = ledger[k].metadata] ELSE k)

-----------------------------------------------------------------------------
(* Checks made before the operation is loaded *)

CheckAccess(r) ==
  LET c == requests[r].call IN
  /\ requests[r].stage = "access"
  /\ IF MembersIn(c.org, c.user) = {} THEN End(r, "refused") ELSE Goto(r, "target")
  /\ UNCHANGED <<tables, faults>>

NextRole(c) ==
  CASE c.kind = "assign_role" -> c.role
    [] c.kind = "revoke_role" -> "teacher"
    [] OTHER -> None

\* assertOrganizationAdminSurvivability reads the member, then counts admins.
CheckTarget(r) ==
  LET c == requests[r].call
      losesAdmin == /\ \E m \in MembersIn(c.org, c.user) : m.role = "admin"
                    /\ NextRole(c) /= "admin" IN
  /\ requests[r].stage = "target"
  /\ Goto(r, IF losesAdmin THEN "admins" ELSE "load")
  /\ UNCHANGED <<tables, faults>>

\* Mutant: the count lets the last one go.
CheckAdminsOffByOne(r) ==
  /\ requests[r].stage = "admins"
  /\ IF Cardinality(AdminsOf(requests[r].call.org)) < 1
     THEN End(r, "refused")
     ELSE Goto(r, "load")
  /\ UNCHANGED <<tables, faults>>

CheckAdmins(r) ==
  /\ requests[r].stage = "admins"
  /\ IF Cardinality(AdminsOf(requests[r].call.org)) <= 1
     THEN End(r, "refused")
     ELSE Goto(r, "load")
  /\ UNCHANGED <<tables, faults>>

\* assertCanStartOnboarding; the email of every user here is verified.
CheckOnboarding(r) ==
  LET c == requests[r].call IN
  /\ requests[r].stage = "onboard"
  /\ IF MembersOf(c.user) /= {}
     THEN End(r, "refused")
     ELSE Goto(r, IF c.kind = "set_waiting" THEN "choose" ELSE "load")
  /\ UNCHANGED <<tables, faults>>

-----------------------------------------------------------------------------
(* The waiting list *)

\* The organization to wait for: the one asked for, if it exists; the only one
\* there is; or none in particular.
ChooseOrganization(r) ==
  LET c == requests[r].call
      several == \E a, b \in organizations : a /= b IN
  /\ requests[r].stage = "choose"
  /\ \/ c.org \in organizations /\ Goto(r, "wait")
     \/ c.org = None /\ \E org \in organizations :
          /\ organizations = {org}
          /\ requests' = [requests EXCEPT ![r].stage = "wait", ![r].call.org = org]
     \/ c.org = None /\ several /\ ~AllowOrgDirectory /\ Goto(r, "wait")
     \/ /\ c.org \notin organizations
        /\ c.org = None => organizations = {} \/ (several /\ AllowOrgDirectory)
        /\ End(r, "refused")
  /\ UNCHANGED <<tables, faults>>

\* An upsert; without a target it leaves a target already there alone.
SetWaiting(r) ==
  LET c == requests[r].call IN
  /\ requests[r].stage = "wait"
  /\ waiting' = [waiting EXCEPT ![c.user] =
                   IF c.org /= None THEN c.org
                   ELSE IF @ = None THEN "untargeted" ELSE @]
  /\ End(r, "ok")
  /\ UNCHANGED <<memberships, organizations, mirror, ledger, audits, faults, did>>

CancelWaiting(u) ==
  /\ waiting[u] /= None
  /\ waiting' = [waiting EXCEPT ![u] = None]
  /\ UNCHANGED <<memberships, organizations, mirror, ledger, audits, requests, faults, did>>

Reject(r) ==
  LET c == requests[r].call IN
  /\ requests[r].stage = "reject"
  /\ IF waiting[c.user] = c.org
     THEN waiting' = [waiting EXCEPT ![c.user] = None] /\ Goto(r, "reject_audit")
     ELSE UNCHANGED waiting /\ End(r, "ok")
  /\ UNCHANGED <<memberships, organizations, mirror, ledger, audits, faults, did>>

AuditEvent(c, role) == [kind |-> c.kind, org |-> c.org, user |-> c.user, role |-> role]

\* Mutant: the handler returns with its call still on the books.
RejectAuditUnreleased(r) ==
  /\ requests[r].stage = "reject_audit"
  /\ audits' = audits \union {AuditEvent(requests[r].call, None)}
  /\ Goto(r, "idle")
  /\ UNCHANGED <<memberships, organizations, waiting, mirror, ledger, faults, did>>

RejectAudit(r) ==
  /\ requests[r].stage = "reject_audit"
  /\ audits' = audits \union {AuditEvent(requests[r].call, None)}
  /\ End(r, "ok")
  /\ UNCHANGED <<memberships, organizations, waiting, mirror, ledger, faults, did>>

-----------------------------------------------------------------------------
(* The workflow of a ledger operation *)

AfterCommit(seen, result) == IF RunsSyncUpstream(seen, result) THEN "sync_member" ELSE "audit"

\* A role change writes without reading first.
CommitStage(kind) == IF kind \in {"assign_role", "revoke_role"} THEN "write" ELSE "commit"

FirstStage(kind, seen, result) ==
  IF RunsCommitLocal(LocalCommitProof(kind), seen, result)
  THEN CommitStage(kind)
  ELSE AfterCommit(seen, result)

\* Mutant: completed operations run again.
AlreadyCompletedNever(kind, operation) == FALSE

\* Mutant: a stored result is answer enough.
AlreadyCompletedByResult(kind, operation) == operation.result /= None

\* Mutant: a failure that stored a result is taken for success.
AlreadyCompletedOrFailed(kind, operation) ==
  operation.status \in {"completed", "failed"} /\ operation.result /= None

AlreadyCompleted(kind, operation) ==
  /\ operation.status = "completed"
  /\ kind = "revoke_role" \/ operation.result /= None

\* Insert if absent, then select: the request works from this copy of the row.
Load(r) ==
  LET c == requests[r].call
      k == KeyOf(c)
      operation == IF ledger[k] = None THEN NewOperation(c.role) ELSE ledger[k] IN
  /\ requests[r].stage = "load"
  /\ ledger' = [ledger EXCEPT ![k] = operation]
  /\ IF AlreadyCompleted(c.kind, operation)
     THEN End(r, "ok")
     ELSE requests' = [requests EXCEPT
            ![r].stage = FirstStage(c.kind, operation.step, operation.result),
            ![r].seen = operation.step,
            ![r].result = operation.result]
  /\ UNCHANGED <<memberships, organizations, waiting, mirror, audits, faults, did>>

\* What commitLocal reads before it writes, and the checks on it.
CommitRead(r) ==
  LET c == requests[r].call
      allowed ==
        CASE c.kind = "approve_user" -> waiting[c.user] = c.org /\ MembersOf(c.user) = {}
          [] c.kind = "create_organization" -> MembersOf(c.user) = {}
          [] OTHER -> TRUE
      role == IF \E m \in MembersIn(c.org, c.user) : m.role = "admin" THEN "admin"
              ELSE IF MembersIn(c.org, c.user) /= {} THEN "teacher" ELSE None IN
  /\ requests[r].stage = "commit"
  /\ requests' = [requests EXCEPT
       ![r].stage = IF allowed THEN "write" ELSE "fail",
       ![r].role = IF allowed /\ c.kind = "delete_user" THEN role ELSE None]
  /\ UNCHANGED <<tables, faults>>

Committed(r, result) ==
  /\ requests' = [requests EXCEPT ![r].stage = "mark", ![r].step = "local_committed",
                                  ![r].result = result, ![r].role = None]
  /\ did' = [did EXCEPT ![KeyAt(r)] = @ \union {"local"}]
  /\ UNCHANGED <<mirror, ledger, audits, faults>>

\* The unique index on cp_memberships.user_id turns a second insert into an error.
UniqueViolation(r) ==
  /\ requests[r].stage = "write"
  /\ requests[r].call.kind \in {"approve_user", "create_organization"}
  /\ MembersOf(requests[r].call.user) /= {}
  /\ Goto(r, "fail")
  /\ UNCHANGED <<tables, faults>>

\* Mutant: no unique index on cp_memberships.user_id.
InsertMemberAgain(org, user, role) ==
  /\ memberships' = memberships \union {[user |-> user, org |-> org, role |-> role]}
  /\ waiting' = [waiting EXCEPT ![user] = None]

\* Mutant: the waiting row stays.
InsertMemberStillWaiting(org, user, role) ==
  /\ MembersOf(user) = {}
  /\ memberships' = memberships \union {[user |-> user, org |-> org, role |-> role]}
  /\ UNCHANGED waiting

InsertMember(org, user, role) ==
  /\ MembersOf(user) = {}
  /\ memberships' = memberships \union {[user |-> user, org |-> org, role |-> role]}
  /\ waiting' = [waiting EXCEPT ![user] = None]

CommitApproval(r) ==
  LET c == requests[r].call IN
  /\ requests[r].stage = "write" /\ c.kind = "approve_user"
  /\ InsertMember(c.org, c.user, c.role)
  /\ Committed(r, NoDetail)
  /\ UNCHANGED organizations

CommitOrganization(r) ==
  /\ requests[r].stage = "write" /\ requests[r].call.kind = "create_organization"
  /\ \E org \in Orgs \ organizations :
       /\ organizations' = organizations \union {org}
       /\ InsertMember(org, requests[r].call.user, "admin")
  /\ Committed(r, NoDetail)

CommitRole(r) ==
  LET c == requests[r].call
      members == MembersIn(c.org, c.user) IN
  /\ requests[r].stage = "write" /\ c.kind \in {"assign_role", "revoke_role"}
  /\ memberships' = (memberships \ members)
                    \union {[m EXCEPT !.role = NextRole(c)] : m \in members}
  /\ Committed(r, IF c.kind = "assign_role"
                  THEN [role |-> c.role, groups |-> c.groups] ELSE NoDetail)
  /\ UNCHANGED <<organizations, waiting>>

CommitDelete(r) ==
  LET c == requests[r].call IN
  /\ requests[r].stage = "write" /\ c.kind = "delete_user"
  /\ memberships' = memberships \ MembersIn(c.org, c.user)
  /\ Committed(r, [role |-> requests[r].role, groups |-> {}])
  /\ UNCHANGED <<organizations, waiting>>

CommitLocal(r) ==
  \/ UniqueViolation(r)
  \/ CommitApproval(r)
  \/ CommitOrganization(r)
  \/ CommitRole(r)
  \/ CommitDelete(r)

-----------------------------------------------------------------------------
(* synchronizeOpenPathRole: read the membership, read the mirrored row, write *)

SyncMember(r) ==
  LET c == requests[r].call IN
  /\ requests[r].stage = "sync_member"
  /\ IF MembersOf(c.user) = {}
     THEN Goto(r, "sync_write")
     ELSE \E m \in MembersOf(c.user) :
            requests' = [requests EXCEPT ![r].stage = "sync_row", ![r].role = m.role]
  /\ UNCHANGED <<tables, faults>>

SyncRow(r) ==
  LET rows == MirrorOf(requests[r].call.user) IN
  /\ requests[r].stage = "sync_row"
  /\ IF rows = {}
     THEN Goto(r, "sync_write")
     ELSE \E row \in rows :
            requests' = [requests EXCEPT ![r].stage = "sync_write", ![r].row = row.groups]
  /\ UNCHANGED <<tables, faults>>

\* Deleting a user passes no groups, so a row that survives keeps its own.
NextGroups(q) ==
  CASE q.call.kind = "assign_role" -> q.result.groups
    [] q.call.kind = "delete_user" -> IF q.row = None THEN {} ELSE q.row
    [] OTHER -> {}

Synchronized(r, result) ==
  /\ requests' = [requests EXCEPT ![r].stage = "mark", ![r].step = "synced_upstream",
                                  ![r].result = result, ![r].role = None, ![r].row = None]
  /\ did' = [did EXCEPT ![KeyAt(r)] = @ \union {"mirror"}]

\* An assignment that finds no membership to mirror is an error.
SyncDelete(r) ==
  LET q == requests[r] IN
  /\ q.stage = "sync_write" /\ q.role = None
  /\ mirror' = mirror \ MirrorOf(q.call.user)
  /\ IF q.call.kind = "assign_role"
     THEN Goto(r, "fail") /\ UNCHANGED did
     ELSE Synchronized(r, q.result)
  /\ UNCHANGED <<memberships, organizations, waiting, ledger, audits, faults>>

SyncedResult(q) ==
  IF q.call.kind = "assign_role"
  THEN [role |-> q.role, groups |-> NextGroups(q)]
  ELSE q.result

\* The roles table has no unique index on user_id.
SyncInsert(r) ==
  LET q == requests[r] IN
  /\ q.stage = "sync_write" /\ q.role /= None /\ q.row = None
  /\ mirror' = mirror \union {[id |-> r, user |-> q.call.user, role |-> q.role,
                               groups |-> NextGroups(q)]}
  /\ Synchronized(r, SyncedResult(q))
  /\ UNCHANGED <<memberships, organizations, waiting, ledger, audits, faults>>

\* The update has no row to return once another request has deleted it.
SyncUpdate(r) ==
  LET q == requests[r]
      rows == MirrorOf(q.call.user) IN
  /\ q.stage = "sync_write" /\ q.role /= None /\ q.row /= None
  /\ mirror' = (mirror \ rows) \union
                 {[row EXCEPT !.role = q.role, !.groups = NextGroups(q)] : row \in rows}
  /\ IF rows = {} THEN Goto(r, "fail") /\ UNCHANGED did
                  ELSE Synchronized(r, SyncedResult(q))
  /\ UNCHANGED <<memberships, organizations, waiting, ledger, audits, faults>>

SyncUpstream(r) ==
  SyncMember(r) \/ SyncRow(r) \/ SyncDelete(r) \/ SyncInsert(r) \/ SyncUpdate(r)

-----------------------------------------------------------------------------
(* Completion, progress and failure *)

\* Creating an organization records nothing; a deletion only what it deleted.
AuditsOf(q) ==
  CASE q.call.kind = "create_organization" -> {}
    [] q.call.kind = "delete_user" ->
         IF q.result.role = None THEN {} ELSE {AuditEvent(q.call, q.result.role)}
    [] q.call.kind = "revoke_role" -> {AuditEvent(q.call, "teacher")}
    [] OTHER -> {AuditEvent(q.call, q.call.role)}

Audit(r) ==
  /\ requests[r].stage = "audit"
  /\ audits' = audits \union AuditsOf(requests[r])
  /\ requests' = [requests EXCEPT ![r].stage = "mark", ![r].step = "completed"]
  /\ UNCHANGED <<memberships, organizations, waiting, mirror, ledger, faults, did>>

Mark(r) ==
  LET q == requests[r] IN
  /\ q.stage = "mark"
  /\ ledger' = [ledger EXCEPT ![KeyAt(r)] = Progress(@, q.step, q.result, q.call.role)]
  /\ CASE q.step = "completed" ->
            /\ End(r, "ok")
            /\ did' = [did EXCEPT ![KeyAt(r)] = @ \union {"completed"}]
       [] q.step = "local_committed" -> Goto(r, AfterCommit(q.seen, q.result)) /\ UNCHANGED did
       [] OTHER -> Goto(r, "audit") /\ UNCHANGED did
  /\ UNCHANGED <<memberships, organizations, waiting, mirror, audits, faults>>

\* The catch block: record the failure, answer with the error.
RecordFailure(r) ==
  LET q == requests[r] IN
  /\ q.stage = "fail"
  /\ ledger' = [ledger EXCEPT ![KeyAt(r)] = Failure(@, q.result, q.call.role)]
  /\ End(r, "error")
  /\ UNCHANGED <<memberships, organizations, waiting, mirror, audits, faults, did>>

\* A database does not answer: before the workflow, or while it records its
\* failure, the request just ends; inside it the engine catches the error.
Fault(r) ==
  /\ faults < MaxFaults
  /\ requests[r].stage \in Stages
  /\ faults' = faults + 1
  /\ IF requests[r].stage \in {"commit", "write", "sync_member", "sync_row", "sync_write",
                               "audit", "mark"}
     THEN Goto(r, "fail")
     ELSE End(r, "error")
  /\ UNCHANGED tables

\* The process dies and with it the handler.
Crash(r) ==
  /\ faults < MaxFaults
  /\ requests[r].stage \in Stages
  /\ faults' = faults + 1
  /\ End(r, None)
  /\ UNCHANGED tables

-----------------------------------------------------------------------------

Step(r) ==
  \/ CheckAccess(r) \/ CheckTarget(r) \/ CheckAdmins(r) \/ CheckOnboarding(r)
  \/ ChooseOrganization(r) \/ SetWaiting(r) \/ Reject(r) \/ RejectAudit(r)
  \/ Load(r) \/ CommitRead(r) \/ CommitLocal(r) \/ SyncUpstream(r)
  \/ Audit(r) \/ Mark(r) \/ RecordFailure(r)

Next ==
  \/ \E r \in Requests :
       \/ Begin(r)
       \/ \E k \in Keys : Retry(r, k)
       \/ Step(r)
       \/ Fault(r)
       \/ Crash(r)
  \/ \E u \in Users : CancelWaiting(u)

Spec == Init /\ [][Next]_vars

\* Handlers run on; an administrator does not stop retrying an operation.
FairSpec ==
  /\ Spec
  /\ \A r \in Requests : WF_vars(Step(r))
  /\ \A k \in Keys : SF_vars(\E r \in Requests : Retry(r, k))

-----------------------------------------------------------------------------
(* Properties *)

RequestType ==
  [stage : Stages \union {"idle"}, call : {None} \union CallType, seen : OperationSteps,
   result : {None} \union ResultType, step : OperationSteps,
   role : Roles \union {None}, row : {None} \union SUBSET Groups,
   answer : {"ok", "refused", "error", None}]

TablesTyped ==
  /\ memberships \subseteq MemberType
  /\ organizations \subseteq Orgs
  /\ waiting \in [Users -> Orgs \union {None, "untargeted"}]
  /\ mirror \subseteq [id : Users \union Requests, user : Users, role : Roles,
                      groups : SUBSET Groups]
  /\ audits \subseteq [kind : AdminKinds, org : Orgs, user : Users, role : Roles \union {None}]
  /\ faults \in 0..MaxFaults
  /\ did \in [Keys -> SUBSET {"local", "mirror", "completed"}]

LedgerTyped == ledger \in [Keys -> {None} \union OperationType]

RequestsTyped == requests \in [Requests -> RequestType]

\* Every variable keeps its type, and a slot is idle exactly when it has no call.
TypeOK ==
  /\ TablesTyped
  /\ LedgerTyped
  /\ RequestsTyped
  /\ \A r \in Requests : (requests[r].stage = "idle") <=> (requests[r].call = None)

\* A user belongs to at most one organization, whichever approvals and
\* foundations race for them: their checks read before they write, so this is
\* the unique index of cp_memberships doing its work.
OneMembershipPerUser == \A m, n \in memberships : m.user = n.user => m = n

\* An organization, once founded, always has an administrator: the promise of
\* assertOrganizationAdminSurvivability.
OrgKeepsAdmin == \A org \in organizations : AdminsOf(org) /= {}

\* Joining an organization takes the user off the waiting list for good.
MembersDoNotWait == \A u \in Users : MembersOf(u) /= {} => waiting[u] = None

MirrorAgrees(u) ==
  IF MembersOf(u) = {}
  THEN MirrorOf(u) = {}
  ELSE \E m \in MembersOf(u), row \in MirrorOf(u) :
         MirrorOf(u) = {row} /\ row.role = m.role

Quiescent == \A r \in Requests : requests[r].stage = "idle"

\* With no request in flight, a user whose mirrored role is not that of their
\* membership has an operation that the ledger does not show as completed:
\* whatever failed or died, reconciliation has a trace of it.
NoSilentDivergence ==
  Quiescent =>
    \A u \in Users :
      (\A k \in Keys : k.user = u /\ ledger[k] /= None => ledger[k].status = "completed")
      => MirrorAgrees(u)

\* The ledger implements the durable mutation it promises: on behalf of one
\* operation the mirror is written only after the local tables, and completion
\* is recorded only after both, however its requests overlap, fail and resume.
Promise == INSTANCE DurableMutation WITH Operations <- Keys
EffectsInOrder == Promise!Spec

\* A call answered with success had its whole effect, by this request or by an
\* earlier one of the same operation.
SuccessMeansDone ==
  [][\A r \in Requests :
       /\ requests[r].call /= None
       /\ requests[r].call.kind \in LedgerKinds
       /\ requests'[r] = Idle("ok")
       => "completed" \in did'[KeyAt(r)]]_vars

\* An operation once completed stays so: no late request reopens it.
CompletedIsPermanent ==
  [][\A k \in Keys :
       ledger[k] /= None /\ ledger[k].status = "completed" => ledger'[k].status = "completed"]_vars

\* A role change answered with success leaves the member, if there still is
\* one, with the role it asked for.
RoleChangeTakesEffect ==
  [][\A r \in Requests :
       /\ requests[r].call /= None
       /\ requests[r].call.kind \in {"assign_role", "revoke_role"}
       /\ requests'[r] = Idle("ok")
       => \A m \in MembersIn(requests[r].call.org, requests[r].call.user) :
            m.role = NextRole(requests[r].call)]_vars

\* An operation whose local work is done is completed in the end, as long as
\* it is retried.
CommittedIsFinished == \A k \in Keys : "local" \in did[k] ~> "completed" \in did[k]

-----------------------------------------------------------------------------
(* What makes them inductive *)

\* The kinds of call that reach a stage, and the stages that hold an operation.
KindsAt(stage) ==
  CASE stage \in {"access", "target", "admins"} -> {"assign_role", "revoke_role", "delete_user"}
    [] stage = "onboard" -> SelfKinds
    [] stage \in {"choose", "wait"} -> {"set_waiting"}
    [] stage \in {"reject", "reject_audit"} -> {"reject_user"}
    [] OTHER -> LedgerKinds

WorkflowStages == {"commit", "write", "sync_member", "sync_row", "sync_write", "audit", "mark",
                   "fail"}
CommittedStages == {"sync_member", "sync_row", "sync_write", "audit", "mark"}

RequestWellFormed(q) ==
  /\ (q.stage = "idle") <=> (q.call = None)
  /\ q.stage /= "idle" =>
       /\ WellFormed(q.call)
       /\ q.call.kind \in KindsAt(q.stage)
       /\ q.call.kind \in LedgerKinds => KeyOf(q.call) \in Keys
       /\ q.stage \in CommittedStages => q.result /= None
       /\ q.stage = "mark" => q.step \in {"local_committed", "synced_upstream", "completed"}

RequestsWellFormed == \A r \in Requests : RequestWellFormed(requests[r])

\* A request at work on an operation has its row.
RowsLoaded ==
  \A r \in Requests : requests[r].stage \in WorkflowStages => ledger[KeyAt(r)] /= None

RowWellFormed(k, row) ==
  /\ k.kind = "approve_user" => row.metadata \in Roles
  /\ row.step \in {"local_committed", "synced_upstream", "completed"} => row.result /= None

LedgerWellFormed == \A k \in Keys : ledger[k] /= None => RowWellFormed(k, ledger[k])

\* What a row of the ledger, and a request at work, know to have been done.
RowTellsTruth(row, done) ==
  /\ row.result /= None => "local" \in done
  /\ row.step \in {"synced_upstream", "completed"} => "mirror" \in done
  /\ row.status = "completed" => "completed" \in done

LedgerTellsTruth == \A k \in Keys : ledger[k] /= None => RowTellsTruth(ledger[k], did[k])

RequestKnows(q, done) ==
  q.stage \in WorkflowStages =>
    /\ q.result /= None => "local" \in done
    /\ q.seen \in {"synced_upstream", "completed"} => "mirror" \in done
    /\ q.stage = "audit" => "mirror" \in done
    /\ q.stage = "mark" /\ q.step /= "local_committed" => "mirror" \in done

RequestsKnow == \A r \in Requests : RequestKnows(requests[r], did[KeyAt(r)])

LedgerInv ==
  /\ TablesTyped
  /\ LedgerTyped
  /\ RequestsTyped
  /\ RequestsWellFormed
  /\ RowsLoaded
  /\ LedgerWellFormed
  /\ LedgerTellsTruth
  /\ RequestsKnow
=============================================================================
