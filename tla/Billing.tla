------------------------------- MODULE Billing -------------------------------
(* Billing (api/src/services/billing): the orders of an organization, paid   *)
(* through a Stripe checkout or granted by a platform administrator, and the *)
(* entitlement they leave. One action per database statement; Stripe keeps   *)
(* delivering an event until it is acknowledged, to several handlers at once *)
(* if it likes, and in any order unless OrderedDelivery.                     *)
(* A checkout session, its intent, the customer and the subscription it      *)
(* opens are one order: Stripe makes a customer per session.                 *)
EXTENDS Integers, Sequences, FiniteSets, FiniteSetsExt, TLC

CONSTANTS
  None,
  Users, Orgs,
  Orders,           \* identifiers of checkout intents and manual requests
  KindOf,           \* the product an order asks for
  BuyerOf,          \* who places it
  InitialMembers,   \* the organization of each user that has one
  Handlers,         \* handlers that may be in flight at once
  Facts,            \* what may happen to a subscription in this instance
  OrderedDelivery,  \* whether an event waits for the acknowledgement of the earlier ones
  MaxEvents, MaxTime, MaxFaults

Kinds == {"annual", "pilot", "manual"}
CheckoutOrders == {o \in Orders : KindOf[o] /= "manual"}
ManualOrders == Orders \ CheckoutOrders

Statuses == {"active", "grace_period", "canceled", "expired"}
Dates == Nat

OrderType ==
  [status : {"pending", "completed", "approved", "rejected"}, org : Orgs \union {None}]
EntitlementType ==
  [status : Statuses, order : Orders \union {None}, periodEnd : Dates \union {None},
   graceEnds : Dates \union {None}, cancelAtPeriodEnd : BOOLEAN, expires : Dates \union {None}]
ChangeType ==
  [status : Statuses, periodEnd : Dates \union {None}, graceEnds : Dates \union {None},
   cancelAtPeriodEnd : BOOLEAN]

LifecycleFacts == {"paid", "payment_failed", "healthy", "past_due", "incomplete", "deleted"}
InvoiceFacts == {"paid", "payment_failed"}

\* A fact says when the period ends, as a number of days from now, or nothing
\* of it; an invoice says nothing of a cancellation.
FactType ==
  [fact : LifecycleFacts, endsIn : Nat \union {None}, cancel : BOOLEAN \union {None}]

BillingAssumption ==
  /\ Facts \subseteq FactType
  /\ \A f \in Facts : f.cancel = None <=> f.fact \in InvoiceFacts
  /\ KindOf \in [Orders -> Kinds]
  /\ BuyerOf \in [Orders -> Users]
  /\ InitialMembers \in [Users -> Orgs \union {None}]
  /\ OrderedDelivery \in BOOLEAN
  /\ MaxEvents \in Nat /\ MaxTime \in Nat /\ MaxFaults \in Nat
  /\ None \notin Orgs /\ None \notin Orders /\ None \notin BOOLEAN /\ None \notin Nat
  /\ None \notin OrderType \union EntitlementType \union ChangeType

VARIABLES
  orders,        \* cp_billing_checkout_intents and cp_billing_manual_requests
  founded,       \* cp_organizations billing has made: the order each comes from
  members,       \* cp_memberships
  entitlements,  \* cp_organization_entitlements
  mirror,        \* the OpenPath role a user has
  processed,     \* cp_stripe_webhook_events, as positions in events
  audits,        \* cp_billing_audit_events
  sessions,      \* checkout sessions whose address was given to the buyer
  events,        \* what Stripe has to tell, oldest first
  handlers, now, faults

tables == <<orders, founded, members, entitlements, mirror, processed, audits>>
stripe == <<sessions, events>>
vars == <<tables, stripe, handlers, now, faults>>

-----------------------------------------------------------------------------
(* Entitlements *)

GracePeriod == 1
PilotDuration == 2

\* Mutant: a deadline is not over at its own moment.
EffectiveStatusLate(e, t) ==
  CASE e.status \in {"expired", "canceled"}                                            -> e.status
    [] e.cancelAtPeriodEnd /\ e.periodEnd /= None /\ e.periodEnd < t                    -> "canceled"
    [] e.status = "grace_period" /\ e.graceEnds /= None /\ e.graceEnds < t              -> "expired"
    [] e.expires /= None /\ e.expires < t                                               -> "expired"
    [] OTHER                                                                            -> e.status

\* The stored status and the dates that override it, in the order of the code.
EffectiveStatus(e, t) ==
  CASE e.status \in {"expired", "canceled"}                                            -> e.status
    [] e.cancelAtPeriodEnd /\ e.periodEnd /= None /\ e.periodEnd <= t                   -> "canceled"
    [] e.status = "grace_period" /\ e.graceEnds /= None /\ e.graceEnds <= t             -> "expired"
    [] e.expires /= None /\ e.expires <= t                                              -> "expired"
    [] OTHER                                                                            -> e.status

IsActive(e, t) == e /= None /\ EffectiveStatus(e, t) \in {"active", "grace_period"}

\* What a purchase writes over whatever the organization had.
Purchased(o) ==
  [status |-> "active", order |-> IF KindOf[o] = "manual" THEN None ELSE o, periodEnd |-> None,
   graceEnds |-> None, cancelAtPeriodEnd |-> FALSE,
   expires |-> IF KindOf[o] = "pilot" THEN now + PilotDuration ELSE None]

-----------------------------------------------------------------------------
(* Stripe *)

\* Mutant: the status is stored under Stripe's name for it.
StatusAfterRaw(fact) == fact

\* The status a fact about a subscription asks for.
StatusAfter(fact) ==
  CASE fact \in {"paid", "healthy"}             -> "active"
    [] fact \in {"payment_failed", "past_due"}  -> "grace_period"
    [] fact \in {"incomplete", "deleted"}       -> "canceled"

\* Facts are about a subscription; "checkout" is the completed session itself.
EventType ==
  [fact : LifecycleFacts \union {"checkout"}, order : Orders, periodEnd : Dates \union {None},
   cancel : BOOLEAN \union {None}]

Tell(event) == events' = Append(events, event)
Told(o, fact) == \E i \in DOMAIN events : events[i].order = o /\ events[i].fact = fact

\* The buyer pays: Stripe knows only sessions whose address the buyer was given.
Pay(o) ==
  /\ o \in sessions
  /\ ~Told(o, "checkout")
  /\ Len(events) < MaxEvents
  /\ Tell([fact |-> "checkout", order |-> o, periodEnd |-> None, cancel |-> None])
  /\ UNCHANGED <<tables, sessions, handlers, now, faults>>

\* Something happens to the subscription of an order that was paid; nothing
\* happens to one that was deleted.
SubscriptionFact(o) ==
  /\ KindOf[o] = "annual" /\ Told(o, "checkout") /\ ~Told(o, "deleted")
  /\ Len(events) < MaxEvents
  /\ \E f \in Facts :
       Tell([fact |-> f.fact, order |-> o, cancel |-> f.cancel,
             periodEnd |-> IF f.endsIn = None THEN None ELSE now + f.endsIn])
  /\ UNCHANGED <<tables, sessions, handlers, now, faults>>

Tick ==
  /\ now < MaxTime
  /\ now' = now + 1
  /\ UNCHANGED <<tables, stripe, handlers, faults>>

-----------------------------------------------------------------------------
(* Handlers *)

HandlerKinds == {"checkout", "request", "webhook", "approve", "reject"}
Stages == {"idle", "membership", "session", "insert", "created", "event", "intent", "grant",
           "sync", "resolve", "resolved", "activated", "find", "update", "updated", "mark",
           "pending", "reject"}

\* order: the order at work; event: the one being handled; org: the
\* organization the order is for, once the handler knows it; change: the
\* update of an entitlement it has prepared.
Idle == [kind |-> None, stage |-> "idle", order |-> None, event |-> None, org |-> None,
         change |-> None]

Goto(h, stage) == handlers' = [handlers EXCEPT ![h].stage = stage]
With(h, stage, org) == handlers' = [handlers EXCEPT ![h].stage = stage, ![h].org = org]
End(h) == handlers' = [handlers EXCEPT ![h] = Idle]
EventAt(h) == events[handlers[h].event]

Record(action, target) == audits' = audits \union {<<action, target>>}

Init ==
  /\ orders = [o \in Orders |-> None]
  /\ founded = [g \in Orgs |-> None]
  /\ members = InitialMembers
  /\ entitlements = [g \in Orgs |-> None]
  /\ mirror = InitialMembers
  /\ processed = {} /\ audits = {} /\ sessions = {} /\ events = <<>>
  /\ handlers = [h \in Handlers |-> Idle]
  /\ now = 0 /\ faults = 0

Begin(h, kind, stage, o, e) ==
  /\ handlers[h].stage = "idle"
  /\ handlers' = [handlers EXCEPT ![h] =
                    [Idle EXCEPT !.kind = kind, !.stage = stage, !.order = o, !.event = e]]
  /\ UNCHANGED <<tables, stripe, now, faults>>

\* An identifier is drawn once: no two handlers place the same order.
Fresh(o) == orders[o] = None /\ o \notin sessions /\ \A h \in Handlers : handlers[h].order /= o

PlaceOrder(h, o) ==
  /\ Fresh(o)
  /\ Begin(h, IF KindOf[o] = "manual" THEN "request" ELSE "checkout", "membership", o, None)

\* Platform administrators see the manual requests there are.
ResolveRequest(h, o, kind) ==
  KindOf[o] = "manual" /\ orders[o] /= None /\ Begin(h, kind, "pending", o, None)

\* A delivery of an acknowledged event would find it and do nothing.
Deliver(h, e) ==
  /\ e \in DOMAIN events \ processed
  /\ OrderedDelivery => 1 .. e - 1 \subseteq processed
  /\ Begin(h, "webhook", "event", events[e].order, e)

-----------------------------------------------------------------------------
(* createBillingCheckout and createManualBillingRequest *)

\* getExistingBillingOrganization.
ReadMembership(h) ==
  /\ handlers[h].stage = "membership"
  /\ With(h, IF handlers[h].kind = "checkout" THEN "session" ELSE "insert",
          members[BuyerOf[handlers[h].order]])
  /\ UNCHANGED <<tables, stripe, now, faults>>

\* Stripe makes the session; nobody has its address yet.
CreateSession(h) ==
  /\ handlers[h].stage = "session"
  /\ Goto(h, "insert")
  /\ UNCHANGED <<tables, stripe, now, faults>>

InsertOrder(h) ==
  LET o == handlers[h].order IN
  /\ handlers[h].stage = "insert"
  /\ orders' = [orders EXCEPT ![o] = [status |-> "pending", org |-> handlers[h].org]]
  /\ Goto(h, "created")
  /\ UNCHANGED <<founded, members, entitlements, mirror, processed, audits, stripe, now, faults>>

\* The audit event, and the answer with the address of the session.
AnswerOrder(h) ==
  LET o == handlers[h].order IN
  /\ handlers[h].stage = "created"
  /\ Record("created", o)
  /\ sessions' = IF handlers[h].kind = "checkout" THEN sessions \union {o} ELSE sessions
  /\ End(h)
  /\ UNCHANGED <<orders, founded, members, entitlements, mirror, processed, events, now, faults>>

-----------------------------------------------------------------------------
(* processStripeWebhook *)

\* The look into the processed events, and the dispatch on the event's type.
ReadEvent(h) ==
  /\ handlers[h].stage = "event"
  /\ \/ handlers[h].event \in processed /\ End(h)
     \/ /\ handlers[h].event \notin processed
        /\ Goto(h, IF EventAt(h).fact = "checkout" THEN "intent" ELSE "find")
  /\ UNCHANGED <<tables, stripe, now, faults>>

\* Mutant: an intent of an organization that exists is taken for served.
AlreadyServedByOrg(order) == order.org /= None

\* An intent that is completed needs no more than the mark of its event.
AlreadyServed(order) == order.status = "completed" /\ order.org /= None

ReadIntent(h) ==
  LET row == orders[handlers[h].order] IN
  /\ handlers[h].stage = "intent"
  /\ \/ row = None /\ End(h)
     \/ row /= None /\ AlreadyServed(row) /\ Goto(h, "mark")
     \/ row /= None /\ ~AlreadyServed(row) /\ With(h, "grant", row.org)
  /\ UNCHANGED <<tables, stripe, now, faults>>

\* activateExistingOrganizationEntitlement: an upsert, whatever is there.
Activate(h) ==
  LET o == handlers[h].order
      g == handlers[h].org IN
  /\ handlers[h].stage = "grant" /\ g /= None
  /\ entitlements' = [entitlements EXCEPT ![g] = Purchased(o)]
  /\ Goto(h, "sync")
  /\ UNCHANGED <<orders, founded, members, mirror, processed, audits, stripe, now, faults>>

\* Mutant: the founding transaction does not look for a membership.
MembershipUnchecked(user) == FALSE

\* One transaction: a second membership of the buyer aborts it.
MembershipRefused(user) == members[user] /= None

Found(h) ==
  LET o == handlers[h].order
      buyer == BuyerOf[o] IN
  /\ handlers[h].stage = "grant" /\ handlers[h].org = None
  /\ \/ MembershipRefused(buyer) /\ End(h) /\ UNCHANGED tables
     \/ /\ ~MembershipRefused(buyer)
        /\ \E g \in Orgs :
             /\ founded[g] = None
             /\ \A u \in Users : InitialMembers[u] /= g
             /\ founded' = [founded EXCEPT ![g] = o]
             /\ members' = [members EXCEPT ![buyer] = g]
             /\ entitlements' = [entitlements EXCEPT ![g] = Purchased(o)]
             /\ With(h, "sync", g)
        /\ UNCHANGED <<orders, mirror, processed, audits>>
  /\ UNCHANGED <<stripe, now, faults>>

SyncRole(h) ==
  LET buyer == BuyerOf[handlers[h].order] IN
  /\ handlers[h].stage = "sync"
  /\ mirror' = [mirror EXCEPT ![buyer] = members[buyer]]
  /\ Goto(h, "resolve")
  /\ UNCHANGED <<orders, founded, members, entitlements, processed, audits, stripe, now, faults>>

\* The order is closed by its id, whatever it has become since it was read.
Close(h) ==
  LET o == handlers[h].order IN
  /\ handlers[h].stage = "resolve"
  /\ orders' = [orders EXCEPT ![o] =
                  [status |-> IF KindOf[o] = "manual" THEN "approved" ELSE "completed",
                   org |-> handlers[h].org]]
  /\ Goto(h, "resolved")
  /\ UNCHANGED <<founded, members, entitlements, mirror, processed, audits, stripe, now, faults>>

AuditClose(h) ==
  /\ handlers[h].stage = "resolved" /\ handlers[h].kind /= "reject"
  /\ Record("closed", handlers[h].order)
  /\ Goto(h, "activated")
  /\ UNCHANGED <<orders, founded, members, entitlements, mirror, processed, stripe, now, faults>>

AuditActivation(h) ==
  /\ handlers[h].stage = "activated"
  /\ Record("activated", handlers[h].order)
  /\ IF handlers[h].kind = "webhook" THEN Goto(h, "mark") ELSE End(h)
  /\ UNCHANGED <<orders, founded, members, entitlements, mirror, processed, stripe, now, faults>>

-----------------------------------------------------------------------------
(* handleSubscriptionWebhookEvent and handleInvoiceWebhookEvent *)

\* The update is prepared from the row as read: a fact that says nothing of
\* the period or of the cancellation keeps what stood there then.
ChangeBy(event, row) ==
  LET status == StatusAfter(event.fact) IN
  [status    |-> status,
   periodEnd |-> IF event.periodEnd = None THEN row.periodEnd ELSE event.periodEnd,
   graceEnds |-> IF status = "grace_period" THEN now + GracePeriod ELSE None,
   cancelAtPeriodEnd |-> CASE status = "canceled"  -> FALSE
                           [] event.cancel /= None -> event.cancel
                           [] OTHER                -> row.cancelAtPeriodEnd]

\* Mutant: the event is marked before its change is written.
FindEntitlementMarked(h) ==
  LET o == handlers[h].order IN
  /\ handlers[h].stage = "find"
  /\ \E g \in Orgs :
       /\ entitlements[g] /= None /\ entitlements[g].order = o
       /\ handlers' = [handlers EXCEPT ![h].stage = "update", ![h].org = g,
                         ![h].change = ChangeBy(EventAt(h), entitlements[g])]
  /\ processed' = processed \union {handlers[h].event}
  /\ UNCHANGED <<orders, founded, members, entitlements, mirror, audits, stripe, now, faults>>

\* No entitlement refers to the subscription: the event is refused.
FindEntitlement(h) ==
  LET Of(o) == {g \in Orgs : entitlements[g] /= None /\ entitlements[g].order = o}
      o == handlers[h].order IN
  /\ handlers[h].stage = "find"
  /\ \/ Of(o) = {} /\ End(h)
     \/ \E g \in Of(o) :
          handlers' = [handlers EXCEPT ![h].stage = "update", ![h].org = g,
                         ![h].change = ChangeBy(EventAt(h), entitlements[g])]
  /\ UNCHANGED <<tables, stripe, now, faults>>

\* The row is found by its organization, whatever it is for by then.
UpdateEntitlement(h) ==
  LET g == handlers[h].org
      change == handlers[h].change IN
  /\ handlers[h].stage = "update"
  /\ entitlements' = [entitlements EXCEPT
       ![g].status = change.status, ![g].periodEnd = change.periodEnd,
       ![g].graceEnds = change.graceEnds, ![g].cancelAtPeriodEnd = change.cancelAtPeriodEnd]
  /\ Goto(h, "updated")
  /\ UNCHANGED <<orders, founded, members, mirror, processed, audits, stripe, now, faults>>

AuditUpdate(h) ==
  /\ handlers[h].stage = "updated"
  /\ Record("updated", handlers[h].event)
  /\ Goto(h, "mark")
  /\ UNCHANGED <<orders, founded, members, entitlements, mirror, processed, stripe, now, faults>>

\* A second insert of the event's key fails, and the delivery with it.
MarkProcessed(h) ==
  /\ handlers[h].stage = "mark"
  /\ processed' = processed \union {handlers[h].event}
  /\ End(h)
  /\ UNCHANGED <<orders, founded, members, entitlements, mirror, audits, stripe, now, faults>>

-----------------------------------------------------------------------------
(* Manual requests *)

ReadPending(h) ==
  LET row == orders[handlers[h].order] IN
  /\ handlers[h].stage = "pending"
  /\ \/ row.status /= "pending" /\ End(h)
     \/ row.status = "pending" /\ handlers[h].kind = "approve" /\ With(h, "grant", row.org)
     \/ row.status = "pending" /\ handlers[h].kind = "reject" /\ With(h, "reject", row.org)
  /\ UNCHANGED <<tables, stripe, now, faults>>

RejectRequest(h) ==
  /\ handlers[h].stage = "reject"
  /\ orders' = [orders EXCEPT ![handlers[h].order].status = "rejected"]
  /\ Goto(h, "resolved")
  /\ UNCHANGED <<founded, members, entitlements, mirror, processed, audits, stripe, now, faults>>

AuditRejection(h) ==
  /\ handlers[h].stage = "resolved" /\ handlers[h].kind = "reject"
  /\ Record("rejected", handlers[h].order)
  /\ End(h)
  /\ UNCHANGED <<orders, founded, members, entitlements, mirror, processed, stripe, now, faults>>

\* A statement fails, or the process dies: the delivery is not acknowledged,
\* and nothing undoes what was written.
Fault(h) ==
  /\ handlers[h].stage /= "idle"
  /\ faults < MaxFaults
  /\ faults' = faults + 1
  /\ End(h)
  /\ UNCHANGED <<tables, stripe, now>>

-----------------------------------------------------------------------------
(* The specification *)

Run(h) ==
  \/ ReadMembership(h) \/ CreateSession(h) \/ InsertOrder(h) \/ AnswerOrder(h)
  \/ ReadEvent(h) \/ ReadIntent(h) \/ Activate(h) \/ Found(h) \/ SyncRole(h) \/ Close(h)
  \/ AuditClose(h) \/ AuditActivation(h)
  \/ FindEntitlement(h) \/ UpdateEntitlement(h) \/ AuditUpdate(h) \/ MarkProcessed(h)
  \/ ReadPending(h) \/ RejectRequest(h) \/ AuditRejection(h)

DeliverAny(h) == \E e \in DOMAIN events : Deliver(h, e)

Next ==
  \/ \E o \in Orders : Pay(o) \/ SubscriptionFact(o)
  \/ Tick
  \/ \E h \in Handlers :
       \/ \E o \in Orders :
            \/ PlaceOrder(h, o)
            \/ ResolveRequest(h, o, "approve")
            \/ ResolveRequest(h, o, "reject")
       \/ DeliverAny(h)
       \/ Run(h)
       \/ Fault(h)

Spec == Init /\ [][Next]_vars

\* Handlers go on, and Stripe delivers what it has not had acknowledged.
Fairness ==
  /\ \A h \in Handlers : WF_vars(Run(h))
  /\ \A e \in 1 .. MaxEvents : SF_vars(\E h \in Handlers : e \in DOMAIN events /\ Deliver(h, e))

FairSpec == Spec /\ Fairness
-----------------------------------------------------------------------------
(* Properties *)

\* Every table, event and handler has the shape its schema gives it.
TypeOK ==
  /\ orders \in [Orders -> OrderType \union {None}]
  /\ founded \in [Orgs -> Orders \union {None}]
  /\ members \in [Users -> Orgs \union {None}]
  /\ entitlements \in [Orgs -> EntitlementType \union {None}]
  /\ mirror \in [Users -> Orgs \union {None}]
  /\ processed \subseteq DOMAIN events
  /\ sessions \subseteq CheckoutOrders
  /\ \A i \in DOMAIN events : events[i] \in EventType
  /\ \A h \in Handlers : handlers[h].stage \in Stages
  /\ now \in 0 .. MaxTime /\ faults \in 0 .. MaxFaults

\* However often its event is delivered, and to however many handlers, a
\* payment founds one organization at most; an order closed with success has
\* been served in both databases, its organization entitled and a founder in it,
\* mirror included; and an event is acknowledged only once that is so, or the
\* change it brings is on record.
OrdersServedOnce ==
  /\ \A g, k \in Orgs : founded[g] /= None /\ founded[g] = founded[k] => g = k
  /\ \A o \in Orders :
       orders[o] /= None /\ orders[o].status \in {"completed", "approved"} =>
         LET g == orders[o].org IN
         /\ g /= None /\ entitlements[g] /= None
         /\ founded[g] = o => members[BuyerOf[o]] = g /\ mirror[BuyerOf[o]] = g
  /\ \A e \in processed :
       IF events[e].fact = "checkout" THEN orders[events[e].order].status = "completed"
                                      ELSE <<"updated", e>> \in audits

FactsOf(o) == {e \in DOMAIN events : events[e].order = o}

\* With facts delivered in order, one handler at a time, an entitlement has
\* the status of the last acknowledged fact, or of the one being dealt with,
\* whatever died or was delivered again in between: a canceled subscription
\* is not revived by a retry of what came before.
StatusFollowsFacts ==
  \A g \in Orgs :
    entitlements[g] /= None /\ entitlements[g].order /= None =>
      LET facts == FactsOf(entitlements[g].order)
          done  == facts \intersect processed
          last  == IF done = {} THEN {} ELSE {Max(done)}
          next  == IF facts = done THEN {} ELSE {Min(facts \ done)}
      IN  \E e \in last \union next :
            entitlements[g].status = IF events[e].fact = "checkout" THEN "active"
                                     ELSE StatusAfter(events[e].fact)

Deadlines(e) ==
  {d \in {e.expires, IF e.cancelAtPeriodEnd THEN e.periodEnd ELSE None,
          IF e.status = "grace_period" THEN e.graceEnds ELSE None} : d /= None}

\* Whatever sequence of facts made it, an entitlement gives access exactly
\* until the first of its deadlines, and never again after it: the order in
\* which the code looks at the status and the three dates does not matter.
AccessUntilDeadline ==
  \A g \in Orgs : entitlements[g] /= None =>
    \A t \in 0 .. MaxTime + PilotDuration :
      IsActive(entitlements[g], t) <=>
        /\ entitlements[g].status \in {"active", "grace_period"}
        /\ \A d \in Deadlines(entitlements[g]) : t < d

\* A paid order of an organization that exists is completed in the end,
\* whatever fails: its activation can be repeated.
PaidIsServed ==
  \A o \in CheckoutOrders :
    InitialMembers[BuyerOf[o]] /= None =>
      (Told(o, "checkout") ~> orders[o] /= None /\ orders[o].status = "completed")
=============================================================================
