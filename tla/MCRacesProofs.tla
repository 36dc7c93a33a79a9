---------------------------- MODULE MCRacesProofs ----------------------------
(* What is proved of the parts holds of the composite. Each of its steps is a *)
(* step of the part that runs, restricted to that part's calls, and leaves    *)
(* the other parts alone: every behaviour of the composite is one of each     *)
(* part, and the theorems on the part apply to it.                            *)
EXTENDS MCRaces, ProductionProofs, TLAPS

-----------------------------------------------------------------------------
(* Provisioning *)

LEMMA ProvisioningRuns == RaceSpec => P!Spec
<1>1. RaceInit => P!Init
  BY DEF RaceInit
<1>2. [RaceNext]_all => [P!Next]_(P!vars)
  BY DEF RaceNext, all, provisioning, P!vars
<1> QED BY <1>1, <1>2, PTL DEF RaceSpec, P!Spec

\* However the handlers of a group or a classroom overlap and fail, its operation
\* links what it has created and removes what it has unlinked.
THEOREM RacesKeepOrder == RaceSpec => []EffectsInOrder
<1>1. P!Spec => []P!EffectsInOrder
  BY RaceAssumption, P!EffectsKeepOrder
<1> QED BY <1>1, ProvisioningRuns, PTL DEF EffectsInOrder

-----------------------------------------------------------------------------
(* Billing *)

InTurn == part = "billing_in_order"

\* Which of the two instances the orders belong to is settled at the start.
LEMMA BillingSplits == RaceSpec => []InTurn \/ []~InTurn
<1>1. InTurn /\ [RaceNext]_all => InTurn'
  BY DEF RaceNext, all, InTurn
<1>2. ~InTurn /\ [RaceNext]_all => (~InTurn)'
  BY DEF RaceNext, all, InTurn
<1> QED BY <1>1, <1>2, PTL DEF RaceSpec

LEMMA BillingRuns == RaceSpec /\ []~InTurn => B!Spec
<1>1. RaceInit /\ ~InTurn => B!Init
  BY DEF RaceInit, InTurn
<1>2. ~InTurn /\ [RaceNext]_all => [B!Next]_(B!vars)
  BY DEF RaceNext, all, billing, B!vars, B!tables, B!stripe, InTurn
<1> QED BY <1>1, <1>2, PTL DEF RaceSpec, B!Spec

LEMMA OrderedBillingRuns == RaceSpec /\ []InTurn => F!Spec
<1>1. RaceInit /\ InTurn => F!Init
  BY DEF RaceInit, InTurn
<1>2. InTurn /\ [RaceNext]_all => [F!Next]_(F!vars)
  BY DEF RaceNext, all, billing, F!vars, F!tables, F!stripe, InTurn
<1> QED BY <1>1, <1>2, PTL DEF RaceSpec, F!Spec

\* However two paid orders of one buyer are delivered, each is served once, and
\* acknowledged only then.
THEOREM RacesServeOrders == RaceSpec => []OrdersServedOnce
<1>1. B!Spec => []B!OrdersServedOnce
  BY RaceAssumption, B!OrdersServed
<1>2. F!Spec => []F!OrdersServedOnce
  BY RaceAssumption, F!OrdersServed
<1>3. F!OrdersServedOnce => B!OrdersServedOnce
  BY DEF F!OrdersServedOnce, B!OrdersServedOnce
<1> QED BY <1>1, <1>2, <1>3, BillingSplits, BillingRuns, OrderedBillingRuns, PTL DEF OrdersServedOnce

\* Whichever facts reach an entitlement, and in whatever order, it gives access until
\* the first of its deadlines and not after.
THEOREM RacesKeepDeadlines == RaceSpec => []AccessUntilDeadline
<1>1. B!Spec => []B!AccessUntilDeadline
  BY RaceAssumption, B!DeadlinesRespected
<1>2. F!Spec => []F!AccessUntilDeadline
  BY RaceAssumption, F!DeadlinesRespected
<1>3. F!AccessUntilDeadline => B!AccessUntilDeadline
  BY DEF F!AccessUntilDeadline, B!AccessUntilDeadline, F!Deadlines, B!Deadlines, F!IsActive,
     B!IsActive, F!EffectiveStatus, B!EffectiveStatus, F!PilotDuration, B!PilotDuration
<1> QED BY <1>1, <1>2, <1>3, BillingSplits, BillingRuns, OrderedBillingRuns, PTL
     DEF AccessUntilDeadline

\* Whatever dies and is delivered again, an entitlement whose facts come in order has
\* the status of the last one, or of the one being dealt with.
THEOREM RacesFollowFacts == RaceSpec => []StatusFollowsFacts
<1>1. F!Spec => []F!StatusFollowsFacts
  <2>1. \A h, k \in {h1} : h = k
    OBVIOUS
  <2> QED BY <2>1, RaceAssumption, F!FactsFollowed
<1>2. F!StatusFollowsFacts \/ ~InTurn => StatusFollowsFacts
  BY DEF StatusFollowsFacts, InTurn
<1> QED BY <1>1, <1>2, BillingSplits, OrderedBillingRuns, PTL

-----------------------------------------------------------------------------
(* Invitations and accounts *)

LEMMA InvitationsRun == RaceSpec => A!Spec
<1>1. RaceInit => A!Init
  BY DEF RaceInit
<1>2. [RaceNext]_all => [A!Next]_(A!vars)
  BY DEF RaceNext, all, invitation, A!vars, A!openpath, A!classroompath, A!world
<1> QED BY <1>1, <1>2, PTL DEF RaceSpec, A!Spec

\* However the acceptances of two organizations' invitations overlap, a link leads to
\* the organization it names.
THEOREM RacesLeadHome == RaceSpec => []LinkLeadsHome
<1>1. A!Spec => []A!LinkLeadsHome
  BY RaceAssumption, A!LinksLeadHome
<1> QED BY <1>1, InvitationsRun, PTL DEF LinkLeadsHome

\* However they overlap, whoever has joined has accepted the terms, can log in and
\* waits no more.
THEOREM RacesJoinInFull == RaceSpec => []JoinedInFull
<1>1. A!Spec => []A!JoinedInFull
  BY RaceAssumption, A!JoinsInFull
<1> QED BY <1>1, InvitationsRun, PTL DEF JoinedInFull

-----------------------------------------------------------------------------
(* The page and its session *)

LEMMA SessionsRun == RaceSpec => A!SessionSpec
<1>1. RaceInit => A!SessionInit
  BY DEF RaceInit
<1>2. [RaceNext]_all => [A!SessionNext]_(A!sessionVars)
  BY DEF RaceNext, all, browser, A!sessionVars
<1> QED BY <1>1, <1>2, PTL DEF RaceSpec, A!SessionSpec

\* However the answers of a page's calls are ordered, it has one acceptance under way.
THEOREM RacesAcceptOnce == RaceSpec => []OneAcceptance
<1>1. A!SessionSpec => []A!OneAcceptance
  BY RaceAssumption, A!AcceptsOnce
<1> QED BY <1>1, SessionsRun, PTL DEF OneAcceptance

\* However they are ordered, the cookies of the session are of one pair and one mode.
THEOREM RacesKeepMode == RaceSpec => []SessionKeepsItsMode
<1>1. A!SessionSpec => []A!SessionKeepsItsMode
  BY RaceAssumption, A!SessionKeepsMode
<1> QED BY <1>1, SessionsRun, PTL DEF SessionKeepsItsMode

-----------------------------------------------------------------------------
(* The rate limiter *)

LEMMA RatesRun == RaceSpec => A!RateSpec
<1>1. RaceInit => A!RateInit
  BY DEF RaceInit
<1>2. [RaceNext]_all => [A!RateNext]_(A!rateVars)
  BY DEF RaceNext, all, rates, A!rateVars
<1> QED BY <1>1, <1>2, PTL DEF RaceSpec, A!RateSpec

\* However the clients of the composite time their requests, the limit is exact.
THEOREM RacesKeepLimits == RaceSpec => []LimitIsExact
<1>1. A!RateSpec => []A!LimitIsExact
  BY RaceAssumption, A!LimitHolds
<1> QED BY <1>1, RatesRun, PTL DEF LimitIsExact

-----------------------------------------------------------------------------
(* The deployment *)

\* Which part runs is settled at the start.
LEMMA PartStays ==
  RaceSpec => [](part = "one_deployment") \/ [](~(part = "one_deployment"))
<1>1. part = "one_deployment" /\ [RaceNext]_all => (part = "one_deployment")'
  BY DEF RaceNext, all
<1>2. ~(part = "one_deployment") /\ [RaceNext]_all => (~(part = "one_deployment"))'
  BY DEF RaceNext, all
<1> QED BY <1>1, <1>2, PTL DEF RaceSpec

LEMMA DeploymentRuns ==
  RaceSpec /\ [](part = "one_deployment") => O!DeploymentSpec /\ [](spent.runs <= 1)
<1>1. RaceInit => O!DeploymentInit /\ spent.runs <= 1
  BY DEF RaceInit, DeploymentInit, O!DeploymentInit, Ids, O!Ids
<1>2. part = "one_deployment" /\ [RaceNext]_all =>
        /\ [O!DeploymentNext]_(O!deployVars)
        /\ spent.runs <= 1 => (spent.runs <= 1)'
  BY DEF RaceNext, all, deployment, deployVars, O!deployVars
<1> QED BY <1>1, <1>2, PTL DEF RaceSpec, O!DeploymentSpec

\* The mapped transaction is the host's as long as the one deployment runs.
LEMMA SameTransaction ==
  ASSUME part = "one_deployment", (part = "one_deployment")',
         [O!Mirror!ContractNext]_(O!Transaction)
  PROVE  [Executor!ContractNext]_(IF part = "one_deployment" THEN O!Transaction ELSE None)
BY DEF O!Mirror!ContractNext, Executor!ContractNext,
   O!Mirror!CreateDeploymentTransaction, Executor!CreateDeploymentTransaction,
   O!Mirror!TransitionDeploymentState, Executor!TransitionDeploymentState,
   O!Mirror!ALLOWED_TRANSITIONS, Executor!ALLOWED_TRANSITIONS,
   O!Mirror!CurrentAfter, Executor!CurrentAfter, O!Mirror!Phases, Executor!Phases

\* A host on which one release is deployed, its smoke tests passing and its
\* writes succeeding, implements the repository's abstract executor (production-
\* executor-scenario.mjs) through its failures, rollbacks and kills.
THEOREM RacesMirrorContract == RaceSpec => MirrorsContract
<1>1. O!DeploymentSpec /\ [](spent.runs <= 1) => O!Mirror!ContractSpec
  BY RaceAssumption, O!FirstRunIsExecutor
<1>2. RaceSpec /\ [](part = "one_deployment") => MirrorsContract
  <2>1. O!Mirror!ContractInit /\ part = "one_deployment" => Executor!ContractInit
    BY DEF O!Mirror!ContractInit, Executor!ContractInit
  <2> QED BY <1>1, <2>1, DeploymentRuns, SameTransaction, PTL
       DEF MirrorsContract, Executor!ContractSpec, O!Mirror!ContractSpec
<1>3. RaceSpec /\ [](~(part = "one_deployment")) => MirrorsContract
  <2>1. ~(part = "one_deployment") => Executor!ContractInit
    BY DEF Executor!ContractInit
  <2>2. ~(part = "one_deployment") /\ (~(part = "one_deployment"))' =>
          [Executor!ContractNext]_(IF part = "one_deployment" THEN O!Transaction ELSE None)
    OBVIOUS
  <2> QED BY <2>1, <2>2, PTL DEF MirrorsContract, Executor!ContractSpec
<1> QED BY <1>2, <1>3, PartStays, PTL

-----------------------------------------------------------------------------
(* Rules, requests and subscriptions *)

LEMMA RulesRun == RaceSpec => R!Spec /\ []R!DomainInv
<1>1. RaceInit => R!Init
  BY DEF RaceInit
<1>2. [RaceNext]_all => [R!Next]_(R!vars)
  BY DEF RaceNext, all, domainRules, R!vars
<1>3. R!Spec => []R!DomainInv
  BY RaceAssumption, R!DomainRulesTyped
<1> QED BY <1>1, <1>2, <1>3, PTL DEF RaceSpec, R!Spec

\* However the changes of the rules overlap, the agents were told of the last one
\* once no request is under way.
THEOREM RacesPublishRules == RaceSpec => []RulesPublished
<1>1. R!Spec => []R!RulesPublished
  BY RaceAssumption, R!ChangesPublished
<1> QED BY <1>1, RulesRun, PTL DEF RulesPublished

\* However browsers come and go while notifications are sent, a teacher is told
\* of requests for groups of theirs.
THEOREM RacesTellOwnGroups == RaceSpec => []ToldOfOwnGroups
<1>1. R!Spec => []R!ToldOfOwnGroups
  BY RaceAssumption, R!ToldOfOwn
<1> QED BY <1>1, RulesRun, PTL DEF ToldOfOwnGroups

\* The handlers are at the calls of the part that runs, and none before it starts.
CallsWithin ==
  /\ part \in DOMAIN RuleCalls =>
       \A h \in {h1, h2} : rHandlers[h] # R!Idle => rHandlers[h].call \in RuleCalls[part][h]
  /\ part \notin DOMAIN RuleCalls => \A h \in {h1, h2} : rHandlers[h] = R!Idle
  /\ part = "rules" => \A i \in {q1, q2} : rRequests[i] = None

LEMMA CallsStayWithin ==
  ASSUME R!DomainInv, CallsWithin, [RaceNext]_all
  PROVE  CallsWithin'
<1>1. part' = part
  BY DEF RaceNext, all
<1>2. CASE part \in DOMAIN RuleCalls
  <2>1. [R!Next]_(R!vars)
    BY DEF RaceNext, all, domainRules, R!vars
  <2>2. ASSUME NEW h \in {h1, h2}, rHandlers'[h] # R!Idle
        PROVE  rHandlers'[h].call \in RuleCalls[part][h]
    <3>1. CASE rHandlers[h] = R!Idle
      <4>1. rHandlers' # rHandlers
        BY <2>2, <3>1
      <4>2. RuleWithin
        BY <4>1 DEF RaceNext, all, domainRules
      <4> QED BY <2>2, <3>1, <4>2 DEF RuleWithin
    <3>2. CASE rHandlers[h] # R!Idle
      <4>1. rHandlers'[h].call = rHandlers[h].call
        BY <2>1, <2>2, <3>2, R!CallStays
      <4> QED BY <1>2, <3>2, <4>1 DEF CallsWithin
    <3> QED BY <3>1, <3>2
  <2>3. ASSUME part = "rules"
        PROVE  \A i \in {q1, q2} : rRequests'[i] = None
    <3>1. \A h \in {h1, h2} : rHandlers[h] # R!Idle => rHandlers[h].call # "request"
      BY <1>2, <2>3 DEF CallsWithin, RuleCalls, Given
    <3>2. \A i \in {q1, q2} : rRequests[i] = None
      BY <2>3 DEF CallsWithin
    <3> QED BY <2>1, <3>1, <3>2, R!OnlyRequestsRequest
  <2> QED BY <1>1, <1>2, <2>2, <2>3 DEF CallsWithin
<1>3. CASE part \notin DOMAIN RuleCalls
  <2>1. UNCHANGED domainRules /\ part # "rules"
    BY <1>3 DEF RaceNext, all, RuleCalls
  <2> QED BY <1>1, <1>3, <2>1 DEF CallsWithin, domainRules
<1> QED BY <1>2, <1>3

LEMMA RulePartStays ==
  RaceSpec => [](part = "rules") \/ [](~(part = "rules"))
<1>1. part = "rules" /\ [RaceNext]_all => (part = "rules")'
  BY DEF RaceNext, all
<1>2. ~(part = "rules") /\ [RaceNext]_all => (~(part = "rules"))'
  BY DEF RaceNext, all
<1> QED BY <1>1, <1>2, PTL DEF RaceSpec

\* However requests are made, approved, rejected and withdrawn side by side, an
\* approved domain is allowed in its group.
THEOREM RacesAllowApproved == RaceSpec => []ApprovedIsAllowed
<1>1. RaceInit => CallsWithin
  BY DEF RaceInit, R!Init, CallsWithin
<1>2. R!DomainInv /\ CallsWithin /\ [RaceNext]_all => CallsWithin'
  BY CallsStayWithin
<1>3. RaceSpec => []CallsWithin
  BY <1>1, <1>2, RulesRun, PTL DEF RaceSpec
<1>4. CallsWithin /\ part = "rules" => ApprovedIsAllowed
  BY DEF CallsWithin, ApprovedIsAllowed, R!ApprovedIsAllowed
<1>5. R!DomainInv /\ CallsWithin /\ ~(part = "rules") /\ [RaceNext]_all =>
        [R!Allowed \subseteq R!Allowed']_(R!vars)
  <2> SUFFICES ASSUME R!DomainInv, CallsWithin, ~(part = "rules"), [RaceNext]_all
               PROVE  R!Allowed \subseteq R!Allowed'
    OBVIOUS
  <2>1. \A h \in {h1, h2} : rHandlers[h] # R!Idle =>
          rHandlers[h].call \notin {"update_rule", "delete_rule", "bulk_delete"}
    BY DEF CallsWithin, RuleCalls, Given
  <2>2. [R!Next]_(R!vars)
    BY DEF RaceNext, all, domainRules, R!vars
  <2> QED BY <2>1, <2>2, RaceAssumption, R!OnlyRemovalsRemove
<1>6. R!Spec /\ [][R!Allowed \subseteq R!Allowed']_(R!vars) => []R!ApprovedIsAllowed
  BY RaceAssumption, R!ApprovedDomainsAllowed
<1>7. RaceSpec /\ [](part = "rules") => []ApprovedIsAllowed
  BY <1>3, <1>4, PTL
<1>8. RaceSpec /\ [](~(part = "rules")) => []ApprovedIsAllowed
  BY <1>3, <1>5, <1>6, RulesRun, PTL DEF ApprovedIsAllowed, RaceSpec
<1> QED BY <1>7, <1>8, RulePartStays, PTL

-----------------------------------------------------------------------------
(* Schedules *)

LEMMA SchedulesRun == RaceSpec => S!Spec
<1>1. RaceInit => S!Init
  BY DEF RaceInit
<1>2. [RaceNext]_all => [S!Next]_(S!vars)
  BY DEF RaceNext, all, schedule, S!vars
<1> QED BY <1>1, <1>2, PTL DEF RaceSpec, S!Spec

\* However the changes of a classroom overlap, its agents were told of the last
\* one once no request is under way.
THEOREM RacesPublish == RaceSpec => []Published
<1>1. S!Spec => []S!Published
  BY RaceAssumption, S!ClassroomPublished
<1> QED BY <1>1, SchedulesRun, PTL DEF Published

\* Either one handler alone writes the timetable, or there is one row at most.
TimetableWithin ==
  /\ part = "timetable" => \A h \in {h1, h2} : h # h1 => sHandlers[h] = S!Idle
  /\ part # "timetable" => schedules[s2] = None

LEMMA TimetableStaysWithin ==
  ASSUME TimetableWithin, [RaceNext]_all
  PROVE  TimetableWithin'
<1>1. part' = part
  BY DEF RaceNext, all
<1>2. CASE UNCHANGED schedule
  BY <1>1, <1>2 DEF TimetableWithin, schedule
<1>3. CASE ~UNCHANGED schedule
  <2>1. ScheduleWithin
    BY <1>3 DEF RaceNext, all
  <2>2. ASSUME part = "timetable", NEW h \in {h1, h2}, h # h1
        PROVE  sHandlers'[h] = S!Idle
    <3>1. ScheduleCalls[part][h] = {}
      BY <2>2 DEF ScheduleCalls, Given
    <3> QED BY <2>1, <2>2, <3>1 DEF ScheduleWithin, TimetableWithin
  <2> QED BY <1>1, <2>1, <2>2 DEF ScheduleWithin, TimetableWithin
<1> QED BY <1>2, <1>3

LEMMA TimetableAlone ==
  RaceSpec => []S!AloneInForce
<1>1. RaceInit => TimetableWithin
  BY DEF RaceInit, S!Init, TimetableWithin
<1>2. TimetableWithin /\ [RaceNext]_all => TimetableWithin'
  BY TimetableStaysWithin
<1>3. RaceSpec => []TimetableWithin
  BY <1>1, <1>2, PTL DEF RaceSpec
<1>4. part = "timetable" /\ [RaceNext]_all => (part = "timetable")'
  BY DEF RaceNext, all
<1>5. ~(part = "timetable") /\ [RaceNext]_all => (~(part = "timetable"))'
  BY DEF RaceNext, all
<1>6. TimetableWithin /\ part = "timetable" => S!OneWriter
  BY DEF TimetableWithin, S!OneWriter, S!Writing, S!Idle
<1>7. TimetableWithin /\ ~(part = "timetable") => S!AloneInForce
  BY DEF TimetableWithin, S!AloneInForce, S!WeeklyAt, S!OneOffAt
<1>8. S!Spec /\ []S!OneWriter => []S!AloneInForce
  BY RaceAssumption, S!TimetableInForceAlone
<1>9. RaceSpec /\ [](part = "timetable") => []S!AloneInForce
  BY <1>3, <1>6, <1>8, SchedulesRun, PTL
<1>10. RaceSpec /\ [](~(part = "timetable")) => []S!AloneInForce
  BY <1>3, <1>7, PTL
<1> QED BY <1>4, <1>5, <1>9, <1>10, PTL DEF RaceSpec

\* However the requests on a classroom overlap, no two of its reservations of a
\* kind share a minute.
THEOREM RacesStandApart == RaceSpec => []ReservationsStandApart
<1>1. S!AloneInForce => ReservationsStandApart
  BY RaceAssumption, S!AloneStandApart DEF ReservationsStandApart
<1> QED BY <1>1, TimetableAlone, PTL

\* The page of the classroom and the list of classrooms show the same one group.
THEOREM RacesAgreeInForce == RaceSpec => []OneGroupInForce
<1>1. S!AloneInForce => OneGroupInForce
  BY RaceAssumption, S!AloneAgree DEF OneGroupInForce
<1> QED BY <1>1, TimetableAlone, PTL

-----------------------------------------------------------------------------
(* The types of all the parts *)

LEMMA ReleaseRuns == RaceSpec => ReleaseSpec
<1>1. RaceInit => ReleaseInit
  BY DEF RaceInit
<1>2. [RaceNext]_all => [ReleaseNext]_releaseVars
  BY DEF RaceNext, all, release
<1> QED BY <1>1, <1>2, PTL DEF RaceSpec, ReleaseSpec

LEMMA DeploymentsRun ==
  RaceSpec /\ [](part = "deployments") => DeploymentSpec
<1>1. RaceInit => DeploymentInit
  BY DEF RaceInit
<1>2. part = "deployments" /\ [RaceNext]_all => [DeploymentNext]_deployVars
  BY DEF RaceNext, all, deployment
<1> QED BY <1>1, <1>2, PTL DEF RaceSpec, DeploymentSpec

LEMMA DeploymentsTyped ==
  RaceSpec => [](part = "deployments" => DeploymentTypeOK)
<1>1. part = "deployments" /\ [RaceNext]_all => (part = "deployments")'
  BY DEF RaceNext, all
<1>2. ~(part = "deployments") /\ [RaceNext]_all => (~(part = "deployments"))'
  BY DEF RaceNext, all
<1>3. DeploymentSpec => []DeploymentTypeOK
  BY RaceAssumption, DeploymentTyped
<1> QED BY <1>1, <1>2, <1>3, DeploymentsRun, PTL DEF RaceSpec

LEMMA OneDeploymentTyped ==
  RaceSpec => [](part = "one_deployment" => O!DeploymentTypeOK)
<1>1. O!DeploymentSpec => []O!DeploymentTypeOK
  BY RaceAssumption, O!DeploymentTyped
<1> QED BY <1>1, DeploymentRuns, PartStays, PTL

LEMMA BillingPartsTyped == RaceSpec => []((~InTurn => B!TypeOK) /\ (InTurn => F!TypeOK))
<1>1. B!Spec => []B!TypeOK
  <2>1. B!Spec => []B!BillingInv
    BY RaceAssumption, B!BillingInvariant
  <2>2. B!BillingInv => B!TypeOK
    BY DEF B!BillingInv, B!BillingTyped
  <2> QED BY <2>1, <2>2, PTL
<1>2. F!Spec => []F!TypeOK
  <2>1. F!Spec => []F!BillingInv
    BY RaceAssumption, F!BillingInvariant
  <2>2. F!BillingInv => F!TypeOK
    BY DEF F!BillingInv, F!BillingTyped
  <2> QED BY <2>1, <2>2, PTL
<1> QED BY <1>1, <1>2, BillingSplits, BillingRuns, OrderedBillingRuns, PTL

LEMMA OtherPartsTyped ==
  RaceSpec => [](P!TypeOK /\ A!TypeOK /\ R!TypeOK /\ A!SessionTypeOK /\ A!RateTypeOK
                 /\ ReleaseTypeOK)
<1>1. P!Spec => []P!TypeOK
  BY RaceAssumption, P!TypeCorrect
<1>2. A!Spec => []A!TypeOK
  <2>1. A!Spec => []A!AccessInv
    BY RaceAssumption, A!AccessInvariant
  <2>2. A!AccessInv => A!TypeOK
    BY DEF A!AccessInv
  <2> QED BY <2>1, <2>2, PTL
<1>3. R!DomainInv => R!TypeOK
  BY DEF R!DomainInv
<1>4. A!SessionSpec => []A!SessionTypeOK
  <2>1. A!SessionSpec => []A!SessionInv
    BY RaceAssumption, A!SessionInvariant
  <2>2. A!SessionInv => A!SessionTypeOK
    BY DEF A!SessionInv
  <2> QED BY <2>1, <2>2, PTL
<1>5. A!RateSpec => []A!RateTypeOK
  <2>1. A!RateSpec => []A!RateInv
    BY RaceAssumption, A!RateInvariant
  <2>2. A!RateInv => A!RateTypeOK
    BY DEF A!RateInv
  <2> QED BY <2>1, <2>2, PTL
<1>6. ReleaseSpec => []ReleaseTypeOK
  BY RaceAssumption, ReleaseTyped
<1> QED BY <1>1, <1>2, <1>3, <1>4, <1>5, <1>6, ProvisioningRuns, InvitationsRun, RulesRun,
     SessionsRun, RatesRun, ReleaseRuns, PTL

\* Of two handlers, one alone is ever given changes of the timetable.
ChangesWithin ==
  \A h \in {h1, h2} : sHandlers[h] # S!Idle /\ sHandlers[h].call = "change" =>
    /\ part = "timetable" => h = h1
    /\ part # "timetable" => h # h1

LEMMA ChangesStayWithin ==
  ASSUME S!Shape, ChangesWithin, [RaceNext]_all
  PROVE  ChangesWithin'
<1>1. part' = part
  BY DEF RaceNext, all
<1>2. CASE UNCHANGED schedule
  BY <1>1, <1>2 DEF ChangesWithin, schedule
<1>3. CASE ~UNCHANGED schedule
  <2>1. ScheduleWithin /\ part \in DOMAIN ScheduleCalls /\ [S!Next]_(S!vars)
    BY <1>3 DEF RaceNext, all
  <2> SUFFICES ASSUME NEW h \in {h1, h2}, sHandlers'[h] # S!Idle, sHandlers'[h].call = "change"
               PROVE  /\ part = "timetable" => h = h1
                      /\ part # "timetable" => h # h1
    BY <1>1 DEF ChangesWithin
  <2>2. CASE sHandlers[h] = S!Idle
    BY <2>1, <2>2 DEF ScheduleWithin, ScheduleCalls, Given
  <2>3. CASE sHandlers[h] # S!Idle
    <3>1. sHandlers'[h].call = sHandlers[h].call
      BY <2>1, <2>3, S!CallStays
    <3> QED BY <2>3, <3>1 DEF ChangesWithin
  <2> QED BY <2>2, <2>3
<1> QED BY <1>2, <1>3

LEMMA ScheduleTyped == RaceSpec => []S!TypeOK
<1>1. RaceInit => ChangesWithin
  BY DEF RaceInit, S!Init, ChangesWithin
<1>2. S!Spec => []S!Shape
  BY RaceAssumption, S!SchedulesShaped
<1>3. S!Shape /\ ChangesWithin /\ [RaceNext]_all => ChangesWithin'
  BY ChangesStayWithin
<1>4. ChangesWithin => S!OneChanger
  BY DEF ChangesWithin, S!OneChanger, S!Writing, S!Idle
<1>5. S!Spec /\ []S!OneChanger => []S!TypeOK
  BY RaceAssumption, S!OneChangerKeepsRows
<1> QED BY <1>1, <1>2, <1>3, <1>4, <1>5, SchedulesRun, PTL DEF RaceSpec

\* Every variable of the part that runs keeps its type, in every state of the composite.
THEOREM RacesTyped == RaceSpec => []RaceTypeOK
<1>1. /\ P!TypeOK /\ A!TypeOK /\ R!TypeOK /\ A!SessionTypeOK /\ A!RateTypeOK
      /\ ReleaseTypeOK /\ S!TypeOK /\ (~InTurn => B!TypeOK) /\ (InTurn => F!TypeOK)
      /\ part = "deployments" => DeploymentTypeOK
      /\ part = "one_deployment" => O!DeploymentTypeOK
      => RaceTypeOK
  BY DEF RaceTypeOK, InTurn
<1> QED BY <1>1, BillingPartsTyped, OtherPartsTyped, ScheduleTyped, DeploymentsTyped, OneDeploymentTyped, PTL
=============================================================================
