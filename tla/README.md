# ClassroomPath in TLA+

ClassroomPath is a multi-tenant layer over OpenPath, a web-filtering system for schools. Its API
(`src/api/src`) keeps organizations, memberships, invitations, billing and the links to OpenPath
resources in its own Postgres tables (`cp_*`), and writes the role mirror, the groups of rules, the
classrooms and their timetables straight into OpenPath's database. No transaction spans the two. What
keeps them in step is a *mutation ledger*: every operation that touches both has a row in
`cp_mutation_operations` that says how far it has come, and a repeated call, or an administrator's
retry, resumes it (`docs/adr/0001-cross-system-mutation-ledger.md`,
`docs/contracts/cross-system-mutations.md`). Releases reach production through a promotion command and a
remote executor that can be killed anywhere and must leave a host that can be recovered
(`docs/contracts/production-executor.md`).

The ledger and the operations that depend on it are the core of the program and are modelled in most
detail. Around them stand the other parts that keep state under concurrent requests, and the deployment.
Both are model-checked, and most of their safety properties are proved for every value of the parameters.

## Inventory

| Component | State | Operations | What is hard, and what makes it correct |
|---|---|---|---|
| Mutation ledger, workflow engine (`lib/cross-system-*`, `lib/organization-mutation-workflow`) | `cp_mutation_operations` | get-or-create, progress, failure, resume, retry | crash between an effect and its mark; two requests of one operation; stale step. Effects keep their order, success means done, a retry finishes |
| Organization users, pending users, onboarding | `cp_memberships`, `cp_organizations`, `cp_user_status`, `cp_audit_events` | found, wait, cancel, approve, reject, assign, revoke, delete | check-then-write by several requests. One membership per user, an organization keeps an administrator |
| Role mirror (`lib/openpath-roles.ts`, `roles.repo.ts`) | OpenPath `roles` | synchronize, grant and withdraw a group | read-modify-write. The mirror follows the membership |
| Groups and classrooms | `whitelist_groups`, `classrooms`, `cp_organization_groups`, `cp_organization_classrooms` | create, delete | upstream first or last, unique names. Nothing is orphaned or dangling |
| Billing (`services/billing`) | entitlements, intents, manual requests, webhook events | checkout, webhook, approve, reject, expire | repeated and reordered events, a death between founding and mark. A payment is served once, in the end; access ends at the deadline |
| Invitations and accounts | `cp_invitations`, tokens, OpenPath accounts | invite, revoke, register, verify, reset, accept | steps in two databases and the mail, each failing on its own. A link leads to its organization; an invitee gets in |
| Schedules, exemptions, classroom settings | OpenPath `schedules`, `machine_exemptions`, `classrooms` | reserve, change, delete, exempt, readmit, activate, set | check-then-write; a change that is not published. Reservations stand apart, agents are told |
| Group rules, domain requests, push | `whitelist_rules`, `requests`, `push_subscriptions` | create, rename, delete, approve, reject, subscribe, notify, prune | overlapping statements on unique keys, steps of an approval. What is approved is allowed, and published |
| Sessions | cookies, the page's marker, boot reducer and cached status, OpenPath's tokens | log in, refresh, retry, accept, log out, reload | calls of a page answered in any order. The page settles, and accepts once at a time |
| Gateway rate limits | counters in memory | count, refuse, sweep | window boundaries. At most a bounded number passes in any window |
| Production deployment (`deploy-runtime-executor.sh`, `production-recovery-executor.sh`, `deploy.yml`) | marker, pointers, images, ledger, containers | deploy, commit, fail, roll back, recover | a kill between any two writes, lost answers. The host can always be recovered |
| Release promotion (`release-promote.mjs`) | state file, tags, evidence | run, resume, skip, wait, rerun | steps skipped on the strength of what is recorded. A tag has passed its gates |
| Group clones and templates, email text, views, shared packages, other scripts | little or none of record | reads and drivers | - |

Components call each other inside one process; they share state through the tables. Requests are
concurrent handlers, each a sequence of awaited database statements, and the process can die at any
of them. `PROJECT.json` lists the components with their status, and the hazards with their lines.

## Modules

| Module | What it is |
|---|---|
| `Absent`, `Tenants` | the constants that components share: `None`; users and organizations |
| `MutationLedger` | operators only: rows of the ledger, progress and failure writes, which step runs |
| `DurableMutation` | abstract: per operation, local tables, then mirror, then completion |
| `UserMutations` | the user operations over both databases, one action per database statement |
| `UserMutationsProofs` | theorems about `UserMutations` and its instances `MCUserInstances` |
| `ResourceLifecycle` | abstract: a resource is created, linked, unlinked, removed, and stays gone |
| `Provisioning`, `ProvisioningProofs` | creation and deletion of groups and classrooms, one action per statement |
| `Billing`, `BillingProofs` | orders, Stripe's events, entitlements |
| `Invitations` | invitations, accounts, mailed tokens, joining |
| `Schedules`, `SchedulesProofs` | the timetable, exemptions and settings of a classroom |
| `DomainRules`, `DomainRulesProofs` | rules, domain requests, push subscriptions |
| `Sessions` | a page, its cookies and OpenPath's tokens |
| `RateLimits` | the gateway's fixed windows |
| `AccessProofs` | theorems about `Invitations`, `Sessions` and `RateLimits` |
| `ExecutorContract` | abstract: the executor of `production-executor-scenario.mjs` |
| `Deployment` | the production host under the deployment and recovery executors |
| `ReleasePromotion` | the operator's promotion command and what it starts |
| `ProductionProofs` | theorems about `Deployment` and `ReleasePromotion` |
| `MCUserMutations`, `MCProvisioning`, `MCReleasePromotion` | instances for the runs that show a disagreement |
| `MCUserInstances` | three instances of `UserMutations` side by side |
| `MCRaces`, `MCRecovery` | instances of the other modules side by side: what holds whatever overlaps, and what comes right in the end |
| `MCRacesProofs` | theorems about `MCRaces`, from those about its parts |

`UserMutations` and `Provisioning` extend `MutationLedger`: they run its three workflow families
(local first; upstream first and delete). `UserMutations` implements `DurableMutation` (`EffectsInOrder`,
over the history `did`); `Provisioning` implements `ResourceLifecycle` for groups (`GroupLifecycleKept`,
over a phase computed from the two stores); `Deployment` implements `ExecutorContract`
(`MirrorsContract`, over its marker).

The theorems about a component are in a module that extends it, alone or with the components it stands next
to. `MCRaces` instantiates those proof modules where it needs the component, so that a theorem about it can be
applied to the instance; `Deployment` and `ReleasePromotion` it extends, since their constants are its own.

### Handlers

The models of the API have the same shape. A slot runs one request at a time; a field (`stage`, `pc`)
names the statement it is about to make, and the other fields are what it holds in local variables:
rows it has read, the step of an operation as loaded, a result. An action of a handler is one statement
with the code that follows it up to the next `await`. Statements that fail before they have an effect are
`Fault` or `Fail`; a statement whose effect happened and whose answer was lost is the same, for the tables,
as a death after it. `Crash` is the death of a handler; a process that dies is the death of all, one after the
other. Where a death and a failed statement leave the same, they are one action.

In the two ledger modules `Begin` is a client's call, `Retry` an administrator's retry of a ledger row, which
makes the call again as `retry-adapters.ts` rebuilds it. `Load` is get-or-create: an insert that ignores
conflicts and a select. It is one action: between the two another request of the key can only advance the
row, which is the same as loading it later.

### UserMutations

| Actions | Code |
|---|---|
| `CheckAccess`, `CheckTarget`, `CheckAdmins` | `assertOrganizationUserAccess`, `assertOrganizationAdminSurvivability`: two reads before the write |
| `CheckOnboarding`, `ChooseOrganization`, `SetWaiting`, `CancelWaiting` | onboarding and the waiting list |
| `Reject`, `RejectAudit` | rejecting a waiting user |
| `Load` | `getOrCreateMutationOperation` and the early return of a completed operation |
| `CommitRead`, `CommitLocal` | the local commit of each kind, a transaction where the code has one |
| `SyncMember`, `SyncRow`, `SyncUpstream` | `synchronizeOpenPathRole`: read the membership, read the row, write it |
| `Audit`, `Mark`, `RecordFailure` | the last step's audit events, `setMutationOperationProgress`, the `catch` of the engine |

Abstractions. Result records keep the role and groups only. Groups matter in the key of an assignment
and in the mirror row. Audit events are a set. Email verification, the billing gate and the legal
consent pass. `InitialMembers` are the members organizations have from their founding, invitations or
billing, with the mirror in step. Founding has no retry entrypoint, as in the code.

### Provisioning

| Actions | Code |
|---|---|
| `CheckLink`, `CheckGrant`, `CheckUsable` | `assertCanUseGroup`, before a group is deleted |
| `Load`, `Find` | the operation, and the upstream row its stored result names |
| `CreateUpstream`, `SetDomains` | the insert under the scoped unique name; a classroom's second statement |
| `ReadLink`, `InsertLink`, `ReadGrants`, `WriteGrants` | `linkLocal`, `addGroupToTeacherRole` |
| `ReadUnlink`, `Unlink` | `commitLocalDelete` |
| `CheckReferences`, `Remove`, `ReadGrantsToRemove`, `WriteGrants` | `completeDelete` |
| `Complete`, `Mark`, `RecordFailure` | publishing, progress, failure |

Abstractions. One organization: upstream names embed the organization and identifiers are random, so
two never meet. A link is identified by what it links. Groups are enabled; classrooms have no default group.
The two deletes of `deleteGroupCascade` are one step, the rules being no part of the model. A teacher has a
mirrored role row. Notifications change nothing.

### Billing

An *order* is a checkout intent with the session, customer and subscription it opens (Stripe makes a customer
per session), or a manual request. `PlaceOrder`, `InsertOrder`, `CreateSession`, `AnswerOrder` make one; the
buyer may `Pay` once the address was given. What Stripe then has to tell is the sequence `events`, and
`Deliver` gives any event that is not acknowledged to any handler, as often as it likes. A delivery is
`ReadEvent`, then for a checkout `ReadIntent`, `Activate` or `Found` with `SyncRole`, `AuditActivation` and `Close`,
for a fact about a subscription `FindEntitlement`, `UpdateEntitlement`, `AuditUpdate`, and last
`MarkProcessed`. `Fault` ends it anywhere. `EffectiveStatus` is translated with its order of tests.

Abstractions. Time is a small number of days and the grace period and the pilot last one or two of them.
Signatures are valid. Customers' portal and prices have no state. `OrderedDelivery` is a parameter: with it,
an event waits until the earlier ones of its order are acknowledged, which Stripe does not promise;
`StatusFollowsFacts` is about that case only.

### Invitations

Users are their email addresses, which both databases keep unique. `Invite` with `Mail`, `Undo` and
`UndoAudit` makes an invitation and takes it back when the mail fails; `Register`, `SignUp`, `GoogleSignUp`,
`Resend`, `Reset`, `Drop`, `Put`, `FollowLink` are accounts and their tokens; `Open` follows an invitation's link,
and then `FindToken`, `FindActive`, `FindAccount`, `Verify`, `AcceptPending`, `AfterTerms`, `ReadMembership`,
`CommitMembership`, `ReadRole`, `WriteRole` and `Audit` are the procedure of
`auth-invitation-procedures.ts` down to the role row. OpenPath's accounts are external. An invitation lasts one tick.

### Schedules

One classroom, its machines and settings. A day has `DayLength` minutes and a week `WeekLength` days. A
reservation is `Start`, `Load`, `Check` (the conflict query), `Reserve`, `Change` or `Delete`, `Notify`; exemptions
and settings likewise. `unpublished` is set by an effective write and cleared by `Notify`. What is in force is
translated twice, as the code computes it twice: for the page of one classroom and for the list. A change
asks for any of another start, end, group and, of a weekly row, another school day (`ChangesBy`); `Load` works out
the row as it will be (`NextRow`), `Check` looks for conflicts of that row on the day it moves to, and `Change` writes what
was asked over whatever the row has become. Identifiers are drawn at random in the code: a new row never gets one
that a request under way has named (`Fresh`). Time zones and the date format are left out; weekly rows fall on
school days as the router requires.

### DomainRules

A rule is a row with an identifier; its group and domain are the table's unique key, and `Allowed` is what the rows
say. A request names rows by identifier: an update is `FindRule`, `FindDuplicate`, `UpdateRule`, a deletion `FindRule`,
`DeleteRule`, with other requests between any two of them, so that an update may write over a changed row,
fail at the key of a row written meanwhile, or publish for a row that is gone. `behind` holds, per group, which of the two signals (the
timestamp that agents poll, the event OpenPath listens for) the last change still lacks. Handlers run the
twelve requests of `Calls`; `Approve` inserts the rule, publishes and then resolves, `Push` reads the
subscriptions of the group and `Prune` deletes those the push service answers 410 for. Normalising a
domain and the search for a registrable domain are left out. Identifiers are drawn at random in the code:
`issued` keeps those given to requests, so that none is given twice; a rule never gets one that a request under way
has named (`Fresh`).

### Sessions

One page. A call of it is two steps: `Send` with the cookies of that moment, and `Answer` when its response is
handled, in any order with the other calls under way. `boot` is the reducer of the boot hook; `Effects`
runs the effects whose conditions hold (`RefreshOnboardingSession`, `SyncAuthenticatedProfile`,
`AutoAcceptPendingInvitation`); React runs them before the user's next press, and so does the model.
`query` is the cached onboarding status; whether its organization is entitled is what billing says at the moment of
the answer. A member without entitlement is kept in the onboarding view (`Onboarding`), from which `LogOutToLogin`
leads out, and does not see the application (`Shell`). OpenPath may end a token, refuse one or be unreachable. Token names
are reused once nobody holds them. `Events` are what happens around the page: days that pass, tokens that
end, an invitation, an admission, a reload.

### RateLimits

Windows are a few units of time and `Tick` is one unit. `passed` is a history, how many requests passed how
long ago, which the code does not keep and the property is about.

### Deployment and its contract

| Actions | Code |
|---|---|
| `StartRun`, `StartRollback`, `EndOfDeployment`, `ProvenCommitted` | the jobs of `deploy.yml` |
| `Checkout`, `CapturePrevious`, `Identify`, `PrepareArtifact`, `Prepare`, `CrossBoundary` | up to the mutation boundary |
| `MigrateAndStop`, `StartCandidate`, `RecordActivated`, `Probe`, `RecordVerified`, `ActivatePointer`, `PublishPending`, `Commit` | `deploy-runtime-executor.sh` |
| `TakeLedger`, `WriteLedger` | `deployment-ledger.sh` with its lock directory |
| `Trap`, `MarkFailure`, `BeginRollback` | the traps, and the recovery they start |
| `Select`, `Begin`, `Restart`, `Demote`, `Promote`, `Republish`, `MarkRestored`, `MarkUnready` | `production-recovery-executor.sh` |
| `Crash`, `Fault` | a kill between any two writes, a write of the marker that fails |

One process runs at a time, by the workflow's concurrency group. Migrations, images, registries and
health checks are outcomes. `ActivatePointer` is two steps, one per rename; `Promote` writes the pointers and
`Republish` the images of the restored release, and either may fail. The recovery is translated with the pointers it reads each time it is run.
`ExecutorContract` is the repository's own executable contract, which allows nothing after `COMMITTED`;
the shell has one transition more, the rollback of a committed release whose smoke tests fail
(`ExplicitRollback`). `MirrorsContract` is checked on a host whose smoke tests pass; `HostMirrorsExecutor` is proved of
any host, with that transition named.

### ReleasePromotion

The plan is a sequence of steps, each a child process whose checks are an outcome, except where another
step or another operator can change what they look at: the state file, the locator and evidence files, what
staging runs, the tags here and on origin, the workflow run and the host. `Skipped` and
`ResumeReusable` are the rules of `--resume`, `--from-step` and `--only`. A failed check of staging or of production
readiness is recorded (`AskForEvidence`), then the Windows evidence is refreshed (`RefreshEvidence`), which records an
outcome of its own, and the check runs once more; whether its output asks for that is left open. `Interrupt` ends a command anywhere;
the next one reads the state file. The deploy is the outcomes of `Deployment`.

## Runs

Bounds. A call is a value of `Calls`; each instance names the few that make its question interesting. Two
handlers suffice for a race of two requests; a handler slot is reused, so an instance has any number of calls
one after the other. `MaxFaults` and its like bound failures and deaths, `MaxTime` the clock, `MaxEvents` what
the environment does. Handlers are symmetric where no liveness is checked.

Several instances go into one run: a variable (`instance`, `part`) is chosen at the start and only that
instance moves, the others keep their initial state. A property of one of them is thus checked exactly where
it would be in a run of its own.

### `users` (`MCUserInstances`)

| Instance | Handlers, faults | About |
|---|---|---|
| `sequential` | 1, 1 | all eight kinds of call, two organizations, three users |
| `joining` | 2, 0 | requests that race for one user's membership |
| `roles` | 2, 1 | racing role changes and deletions of one member |

`TypeOK`, `OneMembershipPerUser`, `SuccessMeansDone` and `EffectsInOrder` (refinement of `DurableMutation`) hold
in all of them. `AloneOrgKeepsAdmin`, `AloneMembersDoNotWait`, `AloneNoSilentDivergence` and
`AloneCompletedIsPermanent` are about the first: they hold when requests do not overlap, whatever fails or
dies; with overlapping requests they do not, which two runs below show. They say that every check and every
step order is right on its own, and so where locking is what is missing. All eight properties are also
proved, for any users, organizations, calls and faults.

### `races` (`MCRaces`)

| Part | Instance | Properties it is there for |
|---|---|---|
| `groups`, `classrooms` | two handlers, one fault, creating and deleting | `EffectsInOrder` |
| `billing` | two orders of one buyer, two sessions, two handlers, any order of events | `OrdersServedOnce` |
| `billing_in_order` | the same orders, one handler, three facts in order, one fault | `StatusFollowsFacts`, `AccessUntilDeadline` |
| `invitations` | one user invited by two organizations, two handlers, expiry | `LinkLeadsHome`, `JoinedInFull` |
| `timetable` | one writer of all reservations, two rows, three minutes a day, two school days of three | `ReservationsStandApart`, `OneGroupInForce` |
| `interrupted`, `classroom` | one lesson, a second handler that changes it, its exemptions, the settings; one fault | `Published`, `OneGroupInForce` |
| `rules`, `requests`, `push` | two handlers over two groups, two domains, two rows of rules; one fault, except in the first | `RulesPublished`, `ApprovedIsAllowed`, `ToldOfOwnGroups` |
| `sessions` | a page with two calls under way, two organizations that invite, one of them entitled | `OneAcceptance`, `SessionKeepsItsMode` |
| `rates` | two clients, two buckets, a sweep above one entry | `LimitIsExact` |
| `deployments` | two deployments one after the other, a failed write, a kill, rejected smoke tests | `TerminalIsLive`, `BoundaryFirst`, `AlwaysRecoverable`, `LedgerFollowsMarker` |
| `one_deployment` | one deployment, smoke tests that pass, a kill | `MirrorsContract` (refinement of `ExecutorContract`) |
| `release` | two candidates for one tag, two commands, one failure, another operator | `TaggedHasPassed`, `PromotedIsLive` |

`RaceTypeOK` is the type invariant of whichever part runs. `StatusFollowsFacts` is about facts that reach the program
in order and one at a time: told in another order, an old fact revives a canceled subscription, which is a hazard at
`billing-entitlement-lifecycle.service.ts:61`. `ReservationsStandApart` is about one writer of the timetable: two that overlap both pass the check. Two rows
and the two days of a move are all that a conflict relates. Two rows of rules are what a rename can collide with; their
identifiers are drawn in order, any two free ones being alike. Two deployments are what a rollback can confuse with each other.

### `recovery` (`MCRecovery`)

| Part | Instance | Properties |
|---|---|---|
| `users` | one handler, two faults, assignment and revocation | `CommittedIsFinished` |
| `provisioning` | one handler, two faults, group and classroom | `RecordedIsFinished`, `NoSilentOrphan`, `GroupLifecycleKept` (refinement of `ResourceLifecycle`) |
| `billing` | a subscription by card and a manual one, two facts in order, one fault | `PaidIsServed` |
| `invitations` | a newcomer, all requests, expiry, one fault | `InviteeGetsIn` |
| `sessions` | the installed application, one event around it, an entitled organization | `BootSettles` |
| `release` | one candidate, two commands, one failure | `CommandEnds` |

### What disagrees

Runs that show a disagreement between the code and what the repository says of it:

| Run | Property | Shows |
|---|---|---|
| `users_last_admin` | `OrgKeepsAdmin` | two overlapping revocations leave an organization without administrator |
| `users_mirror_race` | `NoSilentDivergence` | an overlapping assignment and revocation leave the mirror wrong, both completed |
| `users_approval_stuck` | `CommittedIsFinished` | an approval that dies before its mark cannot be resumed |
| `users_repeated_change` | `RoleChangeTakesEffect` | assign, revoke, assign: the third call answers success and does nothing |
| `provisioning_creation_stuck` | `CreatedIsLinked` | a creation that dies before its mark cannot be resumed; its name is lost |
| `provisioning_deletion_stuck` | `UnlinkedIsCompleted` | a group deletion that fails after the unlink refuses its retry |
| `deployment_rerun_rollback` | `RollbackRestoresPrevious` | a rollback killed after its pointer writes, run again, restores the candidate |
| `sessions_logout` | `LogoutClearsCookies` | a logout after the access cookie's day clears no cookie |
| `promotion_rerun` | `NeverRerunsAfterRollback` | the guard against rerunning a rolled back run never sees the job it looks for |

Each is quoted in the findings of `PROJECT.json`. Some further states are listed as hazards without a run
of their own: a user deletion refused by its own access check, a completed operation reopened by a slow
request, a link to a removed classroom, an entitlement revived by an old event, a manual request that is both
approved and rejected, overlapping reservations.

### Fairness

Weak fairness is on what runs by itself: a handler's next statement (the event loop goes on when its database
has answered), the effects and fetches of a page, the promotion's process and GitHub's run. The code does not retry
by itself: an administrator does, through `retryOrganizationMutationOperation`; Stripe redelivers an
event until it is acknowledged; an invitee asks for a link, follows it and opens the invitation again. These are
strong fairness conditions on the environment, the weakest under which "can be retried" means anything: someone
keeps retrying. Faults and deaths are bounded, so they stop. Clients need not make new calls.

`RecoverySpec` states these conditions as two families, `Weak(n)` and `Strong(n)`: the n-th of either stands for
the n-th condition of whichever part runs. As the part never changes this is each part's own fairness; stated
part by part it would be beyond TLC, whose search for a lasso doubles with every strong condition.

## Proofs

A theorem holds for every value of the constants that meets the module's named assumption: sets of users,
organizations, handlers, calls, releases of any size, and any number of faults and deaths. The assumptions keep
`None` apart from the other values, say that bounds are numbers and that calls are well-formed; TLC evaluates
each of them in the run that extends the module or, for an instance, through `RaceAssumption` and
`InstancesAssumption`. Each proof is an induction on an invariant that TLC had checked first. Where a property is true
only while requests do not overlap, the theorem says so as a hypothesis on the behaviour (`[]OneAtATime`,
`[]OneWriter`) or on the constants (`OneHandler`, `OrderedDelivery`), and a run or a hazard shows that it cannot be dropped.

### Users (`UserMutationsProofs`)

| Theorem | Says |
|---|---|
| `LedgerInvariant` | `LedgerInv` is an invariant |
| `TypeCorrect` | `TypeOK` |
| `OneMembership` | `OneMembershipPerUser` |
| `SuccessIsDone` | `SuccessMeansDone` |
| `PromiseKept` | `EffectsInOrder`: `UserMutations` implements `DurableMutation` |
| `MembersLeaveTheList` | one handler at a time: `MembersDoNotWait` |
| `AdminsSurvive` | one handler at a time, and every organization has an administrator to begin with: `OrgKeepsAdmin` |
| `DivergenceIsTraced` | one handler at a time: `NoSilentDivergence` |
| `CompletedForGood` | one handler at a time: a completed operation stays completed |
| `InstancesDoNotWait`, `InstancesKeepAdmins`, `InstancesDivergeOnRecord`, `InstancesStayCompleted` | the four `Alone...` properties of the run `users` |

The inductive invariant `LedgerInv` (end of `UserMutations`) says, besides the types: which kinds of call
reach which stage; that a handler at work has its row; that a row past its local commit has a result; and the
two parts the theorems need, `LedgerTellsTruth` and `RequestsKnow`: what a row says of its operation, and what a
handler has read or done, is in the history of effects. `EffectsInOrder` alone is not inductive: whether a
step is skipped depends on a row read long before. `HandlerStep` reduces the preservation of `LedgerInv` to the
one slot and the one row an action writes; each action has a lemma, `StepSound` and `NextSound` collect them.
`SuccessIsDone` and `PromiseKept` look at each action once more for what it answers or adds to the history.
`OneMembership` needs only that an insert is refused by the unique index.

With one handler at a time (`OneAtATime`) what a handler read is still so when it acts on it. Three invariants
say what was read: `WaitInv`, a user about to be put on the list has no membership; `AdminInv`, a call that is past
its check and takes an administrator away leaves another; `MirrorInv`, where the mirror and the memberships
differ some operation on that user has not recorded that it wrote the mirror (`Traced`), a completed row has
reached its last step (`Closed`), and what the handler holds of row and membership is what the tables have
(`Resumes`, `Holds`). The runs `users_last_admin` and `users_mirror_race` are the counterexamples without it.

### Groups and classrooms (`ProvisioningProofs`)

| Theorem | Says |
|---|---|
| `ProvisioningInvariant`, `TypeCorrect` | `ProvisioningInv` is an invariant; `TypeOK` |
| `EffectsKeepOrder` | `EffectsInOrder`, for any number of handlers: what is linked was created, what is removed was unlinked |
| `OrphansOnRecord` | one handler: `NoSilentOrphan` |
| `GroupsKeepLifecycle` | one handler: `GroupLifecycleKept`, `Provisioning` implements `ResourceLifecycle` |

`ProvisioningInv` (end of `Provisioning`) is to this module what `LedgerInv` is to the other. Identifiers are the
difficulty: a creation's row names what it created (`IdsKnown`), and a row that is settled has been created and, if
it was deleted, linked before (`SettledIsCreated`, `SettledWasLinked`). With one handler, `AloneInv` adds that a
resource upstream that is not linked has an operation that is open (`NoneForgotten`), that rows upstream are
distinct and named as their operation names them, and that the handler finds its row as it left it.

### Billing (`BillingProofs`)

| Theorem | Says |
|---|---|
| `BillingInvariant` | `BillingInv` is an invariant |
| `OrdersServed` | `OrdersServedOnce`: whatever is delivered twice, late or in disorder, a payment founds one organization, a closed order is served, an acknowledged event has had its effect |
| `DeadlinesRespected` | `AccessUntilDeadline`, for every entitlement any sequence of facts can make |
| `FactsFollowed` | facts in order to one handler, which may die at any statement: `StatusFollowsFacts` |

`BillingInv` says that an order is known to its handler alone until it is inserted (`PlacedOnce`), what a handler has
done where it is (`Sound`), that founders stay members of what they founded (`Founders`), that a completed order has
its entitlement and mirror (`Books`), that Stripe speaks of orders that exist (`StripeKnows`) and that acknowledged
means done (`Acknowledged`).

`FactsFollowed` needs more than that what is stored fits the last fact. `FollowInv` says that events are acknowledged
from the oldest on (`OldestFirst`), that an order is paid once and before anything is told of its subscription
(`PaidFirst`), that an order entitles one organization, named or founded and not named yet (`EntitledOnce`), and what
the handler knows (`Ahead`): its event is the next one, and the row it found is still its order's when it writes it.
Without `EntitledOnce` a fact could be written to a second organization of the order. After a death the entitlement may
have the status of an event that is not acknowledged yet; `Current` is the last one acknowledged or the next, and the
redelivery of the next changes nothing. Two handlers, or events out of order, break it where
the code compares an event with none before it.

### Schedules (`SchedulesProofs`)

| Theorem | Says |
|---|---|
| `SchedulesShaped` | `Shape`: types, and where a request of each kind may be |
| `ClassroomPublished` | `Published`: an unpublished change is owed by a request under way, or a fault came |
| `TimetableStandsApart`, `TimetableInForce` | one writer: `ReservationsStandApart`, `OneGroupInForce` |
| `OneWriterKeepsRows`, `OneChangerKeepsRows` | one writer, or one request at a time that changes rows: `TypeOK`, where every row starts before it ends |

`OneWriter` asks that at most one request is between its conflict check and its write; reads, deletions and
publishing may overlap with it. A change may move the row in time and to another day; what was checked is the row
as it will be, on its new day (`Keeps`: what the change makes of the row as it now stands). `TimetableInv` then keeps that rows are well-formed and apart, and that the
conflicts the writer ruled out are still ruled out (`Relied`). That the two readings of what is in force agree
follows: at most one reservation of a kind holds at any minute.

That a row starts before it ends is not kept whatever overlaps: two changes of one row each check the end they move
against the start they loaded. `Shape` leaves it out, and two hypotheses restore it: `OneWriter`, and `OneChanger`, at most
one change between its load and its write, whatever else is created and deleted meanwhile (`RowsInv`). Deletions and
new rows do no harm because an identifier that a change has named is not given to another row (`Fresh`).

### Rules, requests, push (`DomainRulesProofs`)

| Theorem | Says |
|---|---|
| `DomainRulesTyped` | `DomainInv` |
| `ChangesPublished` | `RulesPublished`: either signal still owed is owed by a request that will give it (`Owed`), since the rows it writes by identifier are of the groups it publishes (`GroupsKnown`) |
| `ToldOfOwn` | `ToldOfOwnGroups`: subscriptions, stored or about to be, are for groups of their user (`OwnRows`) |
| `ApprovedDomainsAllowed` | `ApprovedIsAllowed`, while rules are only added |

The last has the hypothesis `[][Allowed \subseteq Allowed']_vars`: a rule deleted or renamed between insert and resolution leaves an
approved domain that is not allowed, as the code does. `ApprovalInv` relates a handler that approves to the row it
loaded before; without `issued` it is not inductive, and the property is false: an identifier withdrawn and given
again would be approved for the domain of the earlier request.

### Who gets in (`AccessProofs`)

| Theorem | Says |
|---|---|
| `AccessInvariant` | `AccessInv` is an invariant of `Invitations` |
| `LinksLeadHome` | `LinkLeadsHome`: as long as the link's invitation stands, what opened it works on one of the same organization |
| `JoinsInFull` | `JoinedInFull` |
| `JoinsAsInvited` | whoever joined by an invitation did so on their own, in the organization and the role it names |
| `SessionInvariant` | `SessionInv` is an invariant of `Sessions` |
| `AcceptsOnce` | `OneAcceptance` |
| `SessionKeepsMode` | `SessionKeepsItsMode` |
| `RateInvariant`, `LimitHolds` | `RateInv` is an invariant of `RateLimits`; `LimitIsExact` |

A request for an account or a membership reads several tables before it writes one. `AccessInv` says what it may still
rely on when it does: the invitation in its link and the one it works on are of its user (`KnowsInvitation`), the token it
has drawn is its user's (`KnowsToken`), the account is there and logged in and the terms are accepted from the statement
on that saw to it (`KnowsAccount`), and the two invitations are of one organization while the link stands (`LeadsHome`).
That each survives the other requests follows from one lemma: no step undoes `Progress`, by which invitations keep what
they say and are revoked for good, accounts stay, terms stay accepted and time passes. `LinkLeadsHome` says nothing
of a link that was revoked or has expired meanwhile: the code then works on whichever invitation is active.

`SessionInv` adds to the types that a login names a user and that an acceptance under way is the only one and known to
the boot reducer (`CallsKnown`); without the second part `OneAcceptance` is not inductive, for the reducer's flag is
what keeps the effect from running again. `SessionKeepsItsMode` needs only that cookies are set and replaced in pairs.

`RateInvariant` and `LimitHolds` (`LimitIsExact`), for any limits, windows, clients and threshold of the sweep.
`RateInv` relates the counter of a live window to the history: it has counted exactly what passed since it
began (`LiveCounts`), and what passed before it stayed below the limit. That is why fewer than twice the limit pass
in any window and why every refusal is deserved.

### Production (`ProductionProofs`)

| Theorem | Says |
|---|---|
| `HostIsSound`, `DeploymentTyped` | `HostInv` is an invariant; `DeploymentTypeOK` |
| `TerminalAlwaysLive` | `TerminalIsLive` |
| `RecoveryAlwaysPossible` | `AlwaysRecoverable` |
| `BoundaryIsFirst` | `BoundaryFirst`, from `HostInv` and `LiveChanges` |
| `LedgerNeverContradicts` | `LedgerFollowsMarker` |
| `HostMirrorsExecutor` | until a write of the marker fails, each step of the host is a step of `ExecutorContract`, a stutter, or `ExplicitRollback` |
| `FirstRunIsExecutor` | if smoke tests pass and no write fails, the host's first run implements `ExecutorContract` |

None of these properties is inductive: which file is already written when a process stops depends on the step
it stopped at. `HostInv` adds what a process knows at each step: where its memory is its marker and in which
phase (`KnownPhase`), from which step on the artifact, the bundle, the containers and the pointers are those of its
candidate (`DeployKnows`), that a recovery only touches the host under `ROLLING_BACK` and with a stored target
(`RecoveryKnows`), and that a deployment waits while its recovery runs. `DeployStepSound` and `RecoveryStepSound` reduce
its preservation to what one step changes; each action has a lemma, `NextSound` collects them. `Remember` keeps a
transition of memory and step in one place for both the actions and the proofs.

On it rest two more. `LedgerInv` says that a run's transaction has a number no earlier run had and that a process
records one fact of it, whose marker it knows. `MirrorInv` is about the refinement: the abstract executor sees the
marker, with the current release where the marker has not yet recorded what it replaces (`Transaction`), and a process
that wakes up after its recovery moved on must not write what the abstract executor cannot do. A failed write of
the marker leaves memory and marker apart, and the abstract executor has no such thing; the theorem stops there.

About the promotion:

| Theorem | Says |
|---|---|
| `ReleaseInvariant`, `ReleaseTyped` | `ReleaseInv` is an invariant of `ReleasePromotion`; `ReleaseTypeOK` |
| `TaggedPassedGates` | `TaggedHasPassed`, for any selections of steps, failures and resumptions |
| `PromotionLeavesItLive` | `PromotedIsLive` |

A command's steps are in a fixed order (`IsNext`), and `RecordInv` says what it has behind it: each gate is still to come
or recorded passed, a command is bound to its candidate's tag, and a tag that was made is at the candidate here, whatever
stands on origin. `WholeInv` is about promotions that skip nothing they have not recorded: where the wait is over the run of
the tag succeeded, and from then on the host has the candidate committed unless another tag was pushed (`OnlyTag`),
which another operator may do at any moment. `RunsHaveTags` keeps a run from existing before its tag does.

### The composite (`MCRacesProofs`)

Each step of `MCRaces` is a step or a stutter of each part, so each part's theorems apply to the composite:

| Theorem | Property of the run `races` |
|---|---|
| `RacesKeepOrder` | `EffectsInOrder` |
| `RacesServeOrders`, `RacesKeepDeadlines`, `RacesFollowFacts` | `OrdersServedOnce`, `AccessUntilDeadline`, `StatusFollowsFacts` |
| `RacesLeadHome`, `RacesJoinInFull` | `LinkLeadsHome`, `JoinedInFull` |
| `RacesAcceptOnce`, `RacesKeepMode` | `OneAcceptance`, `SessionKeepsItsMode` |
| `RacesKeepLimits` | `LimitIsExact` |
| `RacesMirrorContract` | `MirrorsContract` |
| `RacesPublishRules`, `RacesTellOwnGroups`, `RacesAllowApproved` | `RulesPublished`, `ToldOfOwnGroups`, `ApprovedIsAllowed` |
| `RacesPublish`, `RacesStandApart`, `RacesAgreeInForce` | `Published`, `ReservationsStandApart`, `OneGroupInForce` |
| `RacesTyped` | `RaceTypeOK` |

Where a part's theorem has a hypothesis, the composite meets it by the calls it allows: `CallsWithin` (the part that
approves removes no rule), `TimetableWithin` (one writer, or one row) and `ChangesWithin` (one handler that is given
changes) are the invariants that say so. The orders belong to one of two instances, and
`InTurn`, which no step changes, says to which. The composite extends `Deployment` and `ReleasePromotion`, so that
their theorems (`TerminalIsLive`, `AlwaysRecoverable`, `BoundaryFirst`, `LedgerFollowsMarker`, `TaggedHasPassed`,
`PromotedIsLive`) are about the very properties that its run checks.

### What TLC alone checks

Liveness, under the fairness of `FairSpec` and `RecoverySpec`, is out of the prover's reach: `CommittedIsFinished`,
`RecordedIsFinished`, `PaidIsServed`, `InviteeGetsIn`, `BootSettles`, `CommandEnds`. Of the safety properties, only the
type invariant `RecoveryTypeOK` of the composite `MCRecovery` has no theorem of its own; its parts are instances of the
components whose type invariants are proved. No module declares a recursive operator.

## Not modelled

- Group clones and templates: reads, the creation that `Provisioning` models, and the search of a free name,
  a pure function of strings.
- The texts of mails and notifications, wire types, presentation, the views over the API and the gateway's
  proxying: they keep no state that others depend on.
- Staging deployment, the canaries on Windows and Linux runners, evidence reports and release status: drivers of
  outside machines whose outcome is what they are told.
- OpenPath, Stripe, Google, the mail provider, Docker and GitHub are external and modelled from how the code
  uses them.
- Several pages that share a cookie jar; several classrooms or changing group assignments in one instance; the
  composition of billing or invitations with the ledger in one state space (they share the memberships, over which
  `UserMutations` already races with founding and approval).

What is worth doing next: pages that share a jar; the races of acceptance with revocation and deletion; the type
invariant of `MCRecovery`.
