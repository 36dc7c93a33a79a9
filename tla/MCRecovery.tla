----------------------------- MODULE MCRecovery -----------------------------
(* What comes right in the end: the components that retry, resend or are      *)
(* redelivered to, side by side in one run. Only one of them, the part, runs  *)
(* in a behaviour; the others keep their initial state. Provisioning is the   *)
(* module this one extends: one handler, the calls of its cfg.                *)
EXTENDS MCProvisioning

CONSTANTS
  ann, bob, eve, school, academy,   \* users and organizations
  o2, o3,                \* orders
  h1, i1,                \* a handler, an invitation
  v1, rc1, first         \* a production tag, a release candidate, what runs before

VARIABLES
  part,
  memberships, organizations, waiting, mirror, uLedger, audits, uRequests, uFaults, uDid,
  orders, founded, members, entitlements, bMirror, processed, bAudits, sessions, events,
  handlers, now, bFaults,
  accounts, secrets, mailbox, invitations, iMembers, iWaiting, iMirror, terms, iAudits,
  iHandlers, iNow, iFaults,
  tokens, place, invited, cookies, marker, boot, query, calls, mode, sEvents, sFaults,
  locator, state, files, staging, tags, workflow, host, command, used

-----------------------------------------------------------------------------
(* The parts *)

\* A group and a classroom, made and deleted by an administrator.
ResourceCalls ==
  {CreateGroup(maths, None), DeleteGroup(g1, None), CreateClassroom(lab), DeleteClassroom(c1)}

Orgs == {school, academy}

\* A member who is made an administrator and a teacher again.
RoleCall(kind, role, groups) ==
  [kind |-> kind, org |-> school, user |-> bob, role |-> role, groups |-> groups]

U == INSTANCE UserMutations WITH
  Users <- {ann, bob, eve}, Groups <- {g1},
  Calls <- {RoleCall("assign_role", "admin", {g1}), RoleCall("revoke_role", None, {})},
  InitialMembers <- {[user |-> ann, org |-> school, role |-> "admin"],
                     [user |-> bob, org |-> school, role |-> "teacher"]},
  AllowOrgDirectory <- FALSE, MaxFaults <- 2,
  ledger <- uLedger, requests <- uRequests, faults <- uFaults, did <- uDid

\* A subscription that is paid for by card, one that an administrator approves.
B == INSTANCE BillingProofs WITH
  Users <- {ann, bob}, Orders <- {o2, o3},
  KindOf <- (o2 :> "annual" @@ o3 :> "manual"), BuyerOf <- (o2 :> bob @@ o3 :> bob),
  InitialMembers <- (ann :> None @@ bob :> school), Handlers <- {h1},
  Facts <- {[fact |-> "past_due", endsIn |-> 2, cancel |-> TRUE],
            [fact |-> "deleted", endsIn |-> None, cancel |-> FALSE]},
  OrderedDelivery <- TRUE, MaxEvents <- 3, MaxTime <- 0, MaxFaults <- 1,
  mirror <- bMirror, audits <- bAudits, faults <- bFaults

\* A newcomer who is invited.
I == INSTANCE Invitations WITH
  Users <- {eve}, Invites <- {i1},
  Wanted <- {[org |-> school, user |-> eve, role |-> "teacher"]},
  InitialAccounts <- {}, InitialMembers <- (eve :> None),
  Requested <- {"open", "pending", "register", "google", "resend", "reset"},
  Handlers <- {h1}, MaxSecrets <- 1, MaxTime <- 1, MaxFaults <- 1,
  members <- iMembers, waiting <- iWaiting, mirror <- iMirror, audits <- iAudits,
  handlers <- iHandlers, now <- iNow, faults <- iFaults

\* The installed application, open on one user's session.
W == INSTANCE Sessions WITH
  Users <- {ann}, Orgs <- {school}, InitialPlaces <- {None, school}, Modes <- {"app"},
  Slots <- {1}, Tokens <- 1 .. 7, Events <- {"day", "token", "invitation", "admission", "reload"},
  MaxEvents <- 1, MaxFailed <- 0, events <- sEvents, failed <- sFaults

Selection(how, step) == [how |-> how, step |-> step]

\* A candidate promoted by as many as two commands.
R == INSTANCE ReleasePromotion WITH
  Candidates <- {rc1}, Tags <- {v1}, Incumbent <- first,
  Selections <- {Selection("all", "x"), Selection("resume", "x")},
  Risks <- {TRUE}, MaxCommands <- 2, MaxFailures <- 1, MaxEvents <- 0

ASSUME RecoveryAssumption ==
  /\ U!UserMutationsAssumption /\ B!BillingAssumption /\ I!InvitationsAssumption
  /\ W!SessionsAssumption /\ R!ReleaseAssumption

-----------------------------------------------------------------------------
users == <<memberships, organizations, waiting, mirror, uLedger, audits, uRequests, uFaults, uDid>>
billing == <<orders, founded, members, entitlements, bMirror, processed, bAudits, sessions,
             events, handlers, now, bFaults>>
invitation == <<accounts, secrets, mailbox, invitations, iMembers, iWaiting, iMirror, terms,
                iAudits, iHandlers, iNow, iFaults>>
browser == <<tokens, place, invited, cookies, marker, boot, query, calls, mode, sEvents, sFaults>>
release == <<locator, state, files, staging, tags, workflow, host, command, used>>

NotProvisioning == <<part, users, billing, invitation, browser, release>>
NotUsers        == <<part, vars, billing, invitation, browser, release>>
NotBilling      == <<part, vars, users, invitation, browser, release>>
NotInvitations  == <<part, vars, users, billing, browser, release>>
NotSessions     == <<part, vars, users, billing, invitation, release>>
NotRelease      == <<part, vars, users, billing, invitation, browser>>

all == <<vars, NotProvisioning>>

RecoveryInit ==
  /\ part \in {"users", "provisioning", "billing", "invitations", "sessions", "release"}
  /\ Init /\ U!Init /\ B!Init /\ I!Init /\ W!SessionInit /\ R!ReleaseInit
  /\ part # "sessions" => place = [u \in {ann} |-> None]

\* The school stays entitled, which no property of this run depends on.
SchoolEntitled ==
  query'.data # None => (query'.data.entitled <=> query'.data.org = school)

RecoveryNext ==
  \/ part = "users" /\ U!Next /\ UNCHANGED NotUsers
  \/ part = "provisioning" /\ Next /\ UNCHANGED NotProvisioning
  \/ part = "billing" /\ B!Next /\ UNCHANGED NotBilling
  \/ part = "invitations" /\ I!Next /\ UNCHANGED NotInvitations
  \/ part = "sessions" /\ W!SessionNext /\ SchoolEntitled /\ UNCHANGED NotSessions
  \/ part = "release" /\ R!ReleaseNext /\ UNCHANGED NotRelease

-----------------------------------------------------------------------------
(* Fairness: each part's own, one family for all. TLC's search for a lasso    *)
(* doubles with every strong condition, so the n-th strong condition here     *)
(* stands for the n-th one of whichever part runs.                            *)

Sequence == INSTANCE SequencesExt
UserKeys == Sequence!SetToSeq(U!Keys)
ProvisioningKeys == Sequence!SetToSeq(Keys)

Weak(n) ==
  \/ n = 1 /\ part = "users" /\ (\E r \in Requests : U!Step(r)) /\ UNCHANGED NotUsers
  \/ n = 1 /\ part = "provisioning" /\ (\E r \in Requests : Step(r)) /\ UNCHANGED NotProvisioning
  \/ n = 1 /\ part = "billing" /\ B!Run(h1) /\ UNCHANGED NotBilling
  \/ n = 1 /\ part = "invitations" /\ I!Run(h1) /\ UNCHANGED NotInvitations
  \/ n = 1 /\ part = "release" /\ R!CommandStep /\ UNCHANGED NotRelease
  \/ n = 1 /\ part = "sessions" /\ W!Effects /\ UNCHANGED NotSessions
  \/ n = 2 /\ part = "sessions" /\ W!AnyAnswerStatus /\ UNCHANGED NotSessions
  \/ n = 3 /\ part = "sessions" /\ W!Answer(1) /\ UNCHANGED NotSessions

Strong(n) ==
  \/ /\ part = "users" /\ n \in DOMAIN UserKeys
     /\ \E r \in Requests : U!Retry(r, UserKeys[n])
     /\ UNCHANGED NotUsers
  \/ /\ part = "provisioning" /\ n \in DOMAIN ProvisioningKeys
     /\ \E r \in Requests : Retry(r, ProvisioningKeys[n])
     /\ UNCHANGED NotProvisioning
  \/ /\ part = "billing" /\ n \in DOMAIN events
     /\ B!Deliver(h1, n)
     /\ UNCHANGED NotBilling
  \/ /\ part = "invitations"
     /\ \/ n = 1 /\ I!Mail(h1, TRUE)
        \/ n = 2 /\ I!Resend(h1, eve)
        \/ n = 3 /\ \E s \in mailbox : s.user = eve /\ I!FollowLink(s)
        \/ n = 4 /\ I!Open(h1, i1)
     /\ UNCHANGED NotInvitations

RecoverySpec ==
  /\ RecoveryInit /\ [][RecoveryNext]_all
  /\ WF_all(Weak(1)) /\ WF_all(Weak(2)) /\ WF_all(Weak(3))
  /\ SF_all(Strong(1)) /\ SF_all(Strong(2)) /\ SF_all(Strong(3)) /\ SF_all(Strong(4))

-----------------------------------------------------------------------------
(* The properties of the parts, stated and explained in their modules.        *)

\* Every variable of the part that runs keeps its type.
RecoveryTypeOK ==
  CASE part = "users" -> U!TypeOK
    [] part = "provisioning" -> TypeOK
    [] part = "billing" -> B!TypeOK
    [] part = "invitations" -> I!TypeOK
    [] part = "sessions" -> W!SessionTypeOK
    [] part = "release" -> R!ReleaseTypeOK

\* An operation on a member whose local work is done is completed in the end.
CommittedIsFinished == U!CommittedIsFinished

\* A paid order of an organization that exists is completed in the end.
PaidIsServed == B!PaidIsServed

\* An invitation that was mailed is accepted in the end, or ends otherwise.
InviteeGetsIn == I!InviteeGetsIn

\* A page that believes it has a session does not check it for ever.
BootSettles == W!BootSettles

\* Every promotion ends.
CommandEnds == R!CommandEnds
=============================================================================
