------------------------------ MODULE MCRaces ------------------------------
(* What must hold whatever races: handlers, calls of a page, processes of a   *)
(* deployment, side by side in one run. Only one part runs in a behaviour;    *)
(* the others keep their initial state. The modules this one extends are two  *)
(* of the parts: the deployments, of two releases after another, each         *)
(* possibly rolled back, and the promotion of two candidates with one tag.    *)
EXTENDS Deployment, ReleasePromotion, Integers, FiniteSets, TLC

CONSTANTS
  Parts,                 \* the parts of this run
  ann, bob, eve, tom,
  school, academy, college,
  g1, g2, c1, maths, lab,
  r1, r2, h1, h2,        \* requests and handlers in flight
  o1, o2, i1, i2,        \* orders, invitations
  m1, s1, s2, d1, d2, q1, q2, e1

VARIABLES
  part,
  upstream, created, links, grants, rows, requests, faults, did,
  orders, founded, members, entitlements, mirror, processed, audits, sessions, events,
  handlers, now, bFaults,
  accounts, secrets, mailbox, invitations, iMembers, waiting, iMirror, terms, iAudits,
  iHandlers, iNow, iFaults,
  schedules, machines, exemptions, classroom, unpublished, sHandlers, sNow, sFaults,
  rules, enabled, behind, rRequests, issued, subscriptions, pushed, rHandlers, rFaults,
  tokens, place, invited, cookies, seen, boot, query, calls, mode, wEvents, wFaults,
  entries, passed

-----------------------------------------------------------------------------
Provide(kind, name, id, teacher) == [kind |-> kind, name |-> name, id |-> id, teacher |-> teacher]

\* Two handlers of which each may provision for the same group, or the same
\* classroom.
ResourceCalls ==
  [groups |-> {Provide("create_group", maths, None, tom), Provide("delete_group", None, g1, tom)},
   classrooms |-> {Provide("create_classroom", lab, None, None),
                   Provide("delete_classroom", None, c1, None)}]

P == INSTANCE ProvisioningProofs WITH
  GroupIds <- {g1}, ClassroomIds <- {c1}, Names <- {maths, lab}, Teachers <- {tom},
  Requests <- {r1, r2}, MaxFaults <- 1,
  Calls <- ResourceCalls.groups \union ResourceCalls.classrooms,
  ledger <- rows

ResourceWithin ==
  \A r \in {r1, r2} :
    requests[r].call = None /\ requests'[r].call # None =>
      P!KeyOf(requests'[r].call) \in {P!KeyOf(c) : c \in ResourceCalls[part]}

\* Two orders of one buyer, paid in two sessions, delivered in any order.
B == INSTANCE BillingProofs WITH
  Users <- {ann, bob}, Orgs <- {school, academy, college}, Orders <- {o1, o2},
  KindOf <- (o1 :> "pilot" @@ o2 :> "annual"), BuyerOf <- (o1 :> ann @@ o2 :> ann),
  InitialMembers <- (ann :> None @@ bob :> school), Handlers <- {r1, r2},
  Facts <- {[fact |-> "past_due", endsIn |-> 1, cancel |-> TRUE]},
  OrderedDelivery <- FALSE, MaxEvents <- 2, MaxTime <- 1, MaxFaults <- 0,
  faults <- bFaults

\* The same orders, their events delivered in order, one at a time, to a
\* handler that may fail.
F == INSTANCE BillingProofs WITH
  Users <- {ann, bob}, Orgs <- {school, academy, college}, Orders <- {o1, o2},
  KindOf <- (o1 :> "pilot" @@ o2 :> "annual"), BuyerOf <- (o1 :> ann @@ o2 :> ann),
  InitialMembers <- (ann :> None @@ bob :> school), Handlers <- {h1},
  Facts <- {[fact |-> "past_due", endsIn |-> 2, cancel |-> TRUE],
            [fact |-> "paid", endsIn |-> None, cancel |-> None],
            [fact |-> "deleted", endsIn |-> None, cancel |-> FALSE]},
  OrderedDelivery <- TRUE, MaxEvents <- 3, MaxTime <- 1, MaxFaults <- 1,
  faults <- bFaults

\* The calls the first and the second handler may be given.
Given(first, second) == [h \in {h1, h2} |-> IF h = h1 THEN first ELSE second]

\* A classroom whose timetable one handler writes while another one changes
\* the rest of it.
S == INSTANCE SchedulesProofs WITH
  Users <- {ann, bob}, Admins <- {ann}, Usable <- (ann :> {g1} @@ bob :> {g2}),
  Groups <- {g1, g2}, Ids <- {s1, s2}, Machines <- {m1}, Handlers <- {h1, h2},
  CallsOf <- Given({"weekly", "one_off", "change", "delete"},
                   {"change", "exempt", "exempt_hours", "readmit", "remove_machine",
                    "activate", "settings"}),
  DayLength <- 3, WeekLength <- 3, SchoolDays <- {0, 1}, Horizon <- 2, MaxTime <- 1,
  MaxFaults <- 1,
  handlers <- sHandlers, now <- sNow, faults <- sFaults

\* The rules, the requests and the subscriptions of two groups.
R == INSTANCE DomainRulesProofs WITH
  Users <- {ann, bob}, Admins <- {ann}, AssignedTo <- (ann :> {} @@ bob :> {g1}),
  Groups <- {g1, g2}, Domains <- {d1, d2}, RuleIds <- {1, 2},
  Requests <- {q1, q2}, Endpoints <- {e1},
  Handlers <- {h1, h2}, MaxFaults <- 1,
  CallsOf <- Given({"create_rule", "bulk_create", "update_rule", "delete_rule", "request",
                    "withdraw"},
                   {"update_rule", "delete_rule", "bulk_delete", "update_group",
                    "approve", "reject", "withdraw", "subscribe", "unsubscribe"}),
  requests <- rRequests, handlers <- rHandlers, faults <- rFaults

\* A user whom two organizations invite, the one page of theirs, and the limits
\* on two clients.
A == INSTANCE AccessProofs WITH
  Users <- {eve}, Orgs <- {school, academy}, MaxEvents <- 2, MaxFaults <- 0,
  Invites <- {i1, i2},
  Wanted <- {[org |-> school, user |-> eve, role |-> "teacher"],
             [org |-> academy, user |-> eve, role |-> "admin"]},
  InitialAccounts <- {}, InitialMembers <- (eve :> None),
  Requested <- {"open"}, Handlers <- {r1, r2}, MaxSecrets <- 1, MaxTime <- 1,
  members <- iMembers, mirror <- iMirror, audits <- iAudits, handlers <- iHandlers,
  now <- iNow, faults <- iFaults,
  InitialPlaces <- {None}, Modes <- {"app"}, Slots <- {1, 2}, Tokens <- 1 .. 8,
  Events <- {"invitation"}, MaxFailed <- 0,
  marker <- seen, events <- wEvents, failed <- wFaults,
  Clients <- {ann, bob}, Buckets <- {"auth", "global"},
  Limit <- [auth |-> 2, global |-> 2], Window <- [auth |-> 2, global |-> 1], SweepAbove <- 1

\* One deployment, whose smoke tests pass and whose writes succeed.
O == INSTANCE ProductionProofs WITH SmokeMayFail <- FALSE, MaxFaults <- 0

Selection(how, step) == [how |-> how, step |-> step]

\* A whole promotion, its resumption, and selections that start at the tag, make
\* it alone, or only wait for its workflow.
TagSelections ==
  {Selection("all", "x"), Selection("resume", "x"), Selection("from", "tag-production"),
   Selection("only", "tag-production"), Selection("from", "wait-production-deploy")}

ASSUME RaceAssumption ==
  /\ P!ProvisioningAssumption /\ B!BillingAssumption /\ F!BillingAssumption
  /\ A!InvitationsAssumption
  /\ S!SchedulesAssumption /\ R!DomainRulesAssumption /\ A!SessionsAssumption
  /\ A!RateLimitsAssumption /\ DeploymentAssumption /\ O!DeploymentAssumption
  /\ ReleaseAssumption

-----------------------------------------------------------------------------
provisioning == <<upstream, created, links, grants, rows, requests, faults, did>>
billing == <<orders, founded, members, entitlements, mirror, processed, audits, sessions,
             events, handlers, now, bFaults>>
invitation == <<accounts, secrets, mailbox, invitations, iMembers, waiting, iMirror, terms,
                iAudits, iHandlers, iNow, iFaults>>
schedule == <<schedules, machines, exemptions, classroom, unpublished, sHandlers, sNow, sFaults>>
domainRules == <<rules, enabled, behind, rRequests, issued, subscriptions, pushed, rHandlers, rFaults>>
browser == <<tokens, place, invited, cookies, seen, boot, query, calls, mode, wEvents, wFaults>>
rates == <<entries, passed>>
deployment == deployVars
release == releaseVars

all == <<part, provisioning, billing, invitation, schedule, domainRules, browser, rates,
         deployment, release>>

\* The timetable alone, where lessons change in their time and day; one lesson that
\* is changed, deleted and cut short by a failure; what else goes on in a classroom
\* with one lesson.
ScheduleCalls ==
  [timetable |-> Given({"weekly", "one_off", "change", "delete"}, {}),
   interrupted |-> Given({"weekly", "delete"}, {"change", "settings"}),
   classroom |-> Given({"weekly", "delete"},
                       {"exempt", "exempt_hours", "readmit", "remove_machine", "activate",
                        "settings"})]

ScheduleWithin ==
  /\ \A h \in {h1, h2} :
        sHandlers[h] = S!Idle /\ sHandlers'[h] # S!Idle =>
          /\ sHandlers'[h].call \in ScheduleCalls[part][h]
          /\ part # "timetable" => sHandlers'[h].user = ann
          /\ part # "timetable" /\ sHandlers'[h].call = "weekly" =>
               sHandlers'[h].row.start = 0 /\ sHandlers'[h].row.end = 2 /\ sHandlers'[h].row.day = 0
          /\ sHandlers'[h].call = "settings" =>
               sHandlers'[h].domains \/ sHandlers'[h].supported
  /\ part = "timetable" =>
        \A h \in {h1, h2} :
          sHandlers'[h].pc = "check" /\ sHandlers'[h].call = "change" =>
            sHandlers'[h].change.group = None
  /\ part # "timetable" => schedules'[s2] = None
  /\ part # "classroom" => sNow' = 0
  /\ part # "interrupted" => sFaults' = 0

\* The rules alone, then the requests about one domain and their approvals,
\* then a request and the browsers that are told of it. The identifiers of rules
\* are drawn in their order, for any two that are free are alike.
RuleCalls ==
  [rules |-> Given({"create_rule", "bulk_create", "update_rule", "delete_rule"},
                   {"update_rule", "bulk_delete", "update_group"}),
   requests |-> Given({"request", "withdraw"}, {"approve", "reject"}),
   push |-> Given({"request"}, {"subscribe", "unsubscribe", "withdraw"})]

RuleWithin ==
  /\ \A h \in {h1, h2} :
        rHandlers[h] = R!Idle /\ rHandlers'[h] # R!Idle =>
          /\ rHandlers'[h].call \in RuleCalls[part][h]
          /\ rHandlers'[h].call = "request" => rHandlers'[h].domain = d1
          /\ rHandlers'[h].call = "update_group" => rHandlers'[h].groups = {g1}
  /\ 1 \in R!Fresh /\ rules[2] = None => rules'[1] # None \/ rules'[2] = None
  /\ part = "rules" => rFaults' = 0
  /\ part = "push" => rRequests'[q2] = None

\* Two tokens suffice for the calls of one page; of the organizations the school
\* is entitled.
SessionWithin ==
  /\ \A t \in 3 .. 8 : tokens'[t] = None
  /\ query'.data # None => (query'.data.entitled <=> query'.data.org = school)

RaceInit ==
  /\ part \in Parts
  /\ IF part = "billing_in_order" THEN F!Init ELSE B!Init
  /\ P!Init /\ A!Init /\ S!Init /\ R!Init /\ A!SessionInit /\ A!RateInit
  /\ DeploymentInit /\ ReleaseInit

RaceNext ==
  \/ /\ part \in DOMAIN ResourceCalls /\ P!Next /\ ResourceWithin
     /\ UNCHANGED <<part, billing, invitation, schedule, domainRules, browser, rates,
                    deployment, release>>
  \/ /\ part = "billing" /\ B!Next
     /\ UNCHANGED <<part, provisioning, invitation, schedule, domainRules, browser, rates,
                    deployment, release>>
  \/ /\ part = "billing_in_order" /\ F!Next /\ now' = 0
     /\ UNCHANGED <<part, provisioning, invitation, schedule, domainRules, browser, rates,
                    deployment, release>>
  \/ /\ part = "invitations" /\ A!Next
     /\ UNCHANGED <<part, provisioning, billing, schedule, domainRules, browser, rates,
                    deployment, release>>
  \/ /\ part \in DOMAIN ScheduleCalls /\ S!Next /\ ScheduleWithin
     /\ UNCHANGED <<part, provisioning, billing, invitation, domainRules, browser, rates,
                    deployment, release>>
  \/ /\ part \in DOMAIN RuleCalls /\ R!Next /\ RuleWithin
     /\ UNCHANGED <<part, provisioning, billing, invitation, schedule, browser, rates,
                    deployment, release>>
  \/ /\ part = "sessions" /\ A!SessionNext /\ SessionWithin
     /\ UNCHANGED <<part, provisioning, billing, invitation, schedule, domainRules, rates,
                    deployment, release>>
  \/ /\ part = "rates" /\ A!RateNext
     /\ UNCHANGED <<part, provisioning, billing, invitation, schedule, domainRules, browser,
                    deployment, release>>
  \/ /\ part = "deployments" /\ DeploymentNext
     /\ UNCHANGED <<part, provisioning, billing, invitation, schedule, domainRules, browser,
                    rates, release>>
  \/ /\ part = "one_deployment" /\ O!DeploymentNext /\ spent'.runs <= 1
     /\ UNCHANGED <<part, provisioning, billing, invitation, schedule, domainRules, browser,
                    rates, release>>
  \/ /\ part = "release" /\ ReleaseNext
     /\ UNCHANGED <<part, provisioning, billing, invitation, schedule, domainRules, browser,
                    rates, deployment>>

RaceSpec == RaceInit /\ [][RaceNext]_all

Symmetry == Permutations({r1, r2})

-----------------------------------------------------------------------------
(* The properties of the parts, stated and explained in their modules.        *)

\* Every variable of the part that runs keeps its type.
RaceTypeOK ==
  /\ part \in DOMAIN ResourceCalls => P!TypeOK
  /\ part = "billing" => B!TypeOK
  /\ part = "billing_in_order" => F!TypeOK
  /\ part = "invitations" => A!TypeOK
  /\ part \in DOMAIN ScheduleCalls => S!TypeOK
  /\ part \in DOMAIN RuleCalls => R!TypeOK
  /\ part = "sessions" => A!SessionTypeOK
  /\ part = "rates" => A!RateTypeOK
  /\ part = "deployments" => DeploymentTypeOK
  /\ part = "one_deployment" => O!DeploymentTypeOK
  /\ part = "release" => ReleaseTypeOK

\* However its requests overlap and fail, an operation links what it has created
\* and removes what it has unlinked.
EffectsInOrder == P!EffectsInOrder

\* A payment founds one organization at most, and is acknowledged once served.
OrdersServedOnce == B!OrdersServedOnce

\* Delivered in order, an entitlement has the status of the last fact
\* acknowledged, or of the one being dealt with.
StatusFollowsFacts == part = "billing_in_order" => F!StatusFollowsFacts

\* An entitlement gives access until the first of its deadlines, and not after.
AccessUntilDeadline == B!AccessUntilDeadline

\* Whoever follows an organization's link joins that organization.
LinkLeadsHome == A!LinkLeadsHome

\* Whoever joined by an invitation has terms, account and membership in step.
JoinedInFull == A!JoinedInFull

\* No two reservations of a kind share a minute.
ReservationsStandApart == S!ReservationsStandApart

\* The page of a classroom and the list of classrooms show the same group.
OneGroupInForce == part \in DOMAIN ScheduleCalls => S!OneGroupInForce

\* Once no request is under way the agents were told of the last change.
Published == S!Published

\* The same of the rules of every group.
RulesPublished == R!RulesPublished

\* An approved domain is allowed in its group.
ApprovedIsAllowed == R!ApprovedIsAllowed

\* A teacher is only told of requests for groups of theirs.
ToldOfOwnGroups == R!ToldOfOwnGroups

\* A page never has two acceptances of an invitation under way.
OneAcceptance == A!OneAcceptance

\* Whoever has an access cookie can refresh it, in the mode it was issued for.
SessionKeepsItsMode == A!SessionKeepsItsMode

\* Fewer than twice the limit pass in any window, and no refusal is unearned.
LimitIsExact == A!LimitIsExact

\* The shell executor implements the repository's abstract executor, as long as
\* no smoke test rejects what was committed and no second release follows.
Executor == INSTANCE ExecutorContract WITH
  transaction <- IF part = "one_deployment" THEN O!Transaction ELSE None
MirrorsContract == Executor!ContractSpec
=============================================================================
