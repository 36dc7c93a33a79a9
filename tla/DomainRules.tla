----------------------------- MODULE DomainRules -----------------------------
(* What an organization's groups allow: the rules of a group, the requests   *)
(* for more domains, the push subscriptions that tell teachers of them, and  *)
(* the group's own switch (api/src/services/group-*, request-*, push). One   *)
(* action per database statement; a handler runs one request.                *)
(* A rule's row has an identifier; its group and domain are the unique key.  *)
EXTENDS Integers, FiniteSets, Functions

CONSTANTS
  None,
  Users, Admins,
  AssignedTo,          \* the groups of each teacher's mirrored role
  Groups, Domains,
  RuleIds,             \* identifiers of rules
  Requests,            \* identifiers of domain requests
  Endpoints,           \* browsers that may subscribe
  CallsOf,             \* the requests a handler may be given in this instance
  Handlers, MaxFaults

DomainRulesAssumption ==
  /\ Admins \subseteq Users
  /\ AssignedTo \in [Users -> SUBSET Groups]
  /\ MaxFaults \in Nat
  /\ None \notin Groups /\ None \notin Domains /\ None \notin Requests /\ None \notin Endpoints
  /\ None \notin [group : Groups, domain : Domains]

Calls == {"create_rule", "bulk_create", "update_rule", "delete_rule", "bulk_delete", "update_group",
          "request", "approve", "reject", "withdraw", "subscribe", "unsubscribe"}

VARIABLES
  rules,          \* whitelist_rules: the row of each identifier, None where there is none
  enabled,        \* whitelist_groups.enabled
  behind,         \* what the agents of a group were not given of its last change
  requests,       \* the row of each request, None where there is none
  issued,         \* the identifiers given to requests so far, drawn at random
  subscriptions,  \* push_subscriptions: the row of each endpoint
  pushed,         \* the notifications sent: whom, of which group's requests
  handlers, faults

vars == <<rules, enabled, behind, requests, issued, subscriptions, pushed, handlers, faults>>

RuleType == [group : Groups, domain : Domains]
Rule(g, d) == [group |-> g, domain |-> d]

\* What the groups allow.
Allowed == {rules[i] : i \in RuleIds} \ {None}

-----------------------------------------------------------------------------
(* Who may do what *)

\* getAccessibleTenantGroupIds: all the organization's groups, or the assigned.
Accessible(u) == IF u \in Admins THEN Groups ELSE AssignedTo[u]

\* assertCanUseGroup asks for the group to be enabled as well.
CanUse(u, g) == g \in Accessible(u) /\ enabled[g]

-----------------------------------------------------------------------------
(* Handlers and publishing *)

Idle == [pc |-> "idle"]
Put(h, rec) == handlers' = [handlers EXCEPT ![h] = rec]
Answer(h) == Put(h, Idle)
Then(h, pc) == handlers' = [handlers EXCEPT ![h].pc = pc]

\* Agents poll the group's timestamp and OpenPath listens for the event.
Changed(gs) == behind' = [g \in Groups |-> IF g \in gs THEN {"stamp", "event"} ELSE behind[g]]

\* publishWhitelistGroupsChanged: every group is touched ...
Touch(h) ==
  LET me == handlers[h]
  IN  /\ me.pc = "touch"
      /\ behind' = [g \in Groups |-> IF g \in me.groups THEN behind[g] \ {"stamp"} ELSE behind[g]]
      /\ Then(h, "notify")
      /\ UNCHANGED <<rules, enabled, requests, issued, subscriptions, pushed, faults>>

\* ... then every group is notified; an approval goes on to resolve its request.
Notify(h) ==
  LET me == handlers[h]
  IN  /\ me.pc = "notify"
      /\ behind' = [g \in Groups |-> IF g \in me.groups THEN behind[g] \ {"event"} ELSE behind[g]]
      /\ IF me.call = "approve" THEN Then(h, "resolve") ELSE Answer(h)
      /\ UNCHANGED <<rules, enabled, requests, issued, subscriptions, pushed, faults>>

\* The access check of each request, as the router and the service make it.
Begin(h, u, call) ==
  \/ /\ call \in {"create_rule", "bulk_create"}
     /\ \E g \in Groups, ds \in (SUBSET Domains) \ {{}} :
          /\ CanUse(u, g) /\ (call = "create_rule" => Cardinality(ds) = 1)
          /\ Put(h, [pc |-> "insert", call |-> call, groups |-> {g},
                     wanted |-> {Rule(g, d) : d \in ds}])
  \/ /\ call \in {"update_rule", "delete_rule"}
     /\ \E i \in RuleIds, g \in Groups, d \in Domains :
          /\ rules[i] /= None /\ CanUse(u, g)
          /\ call = "delete_rule" => d = rules[i].domain
          /\ Put(h, [pc |-> "find", call |-> call, groups |-> {g}, rule |-> i, domain |-> d])
  \/ /\ call = "bulk_delete"
     /\ \E is \in SUBSET {i \in RuleIds : rules[i] /= None} :
          LET mine == {i \in is : rules[i].group \in Accessible(u)}
          IN  /\ mine /= {}
              /\ Put(h, [pc |-> "bulk_delete", call |-> call, rules |-> mine,
                         groups |-> {rules[i].group : i \in mine}])
  \/ /\ call = "update_group"
     /\ \E g \in Accessible(u), flag \in BOOLEAN :
          Put(h, [pc |-> "update_group", call |-> call, groups |-> {g}, flag |-> flag])
  \/ /\ call = "request"
     /\ \E g \in Groups, d \in Domains :
          /\ CanUse(u, g)
          /\ Put(h, [pc |-> "look", call |-> call, group |-> g, domain |-> d])
  \/ /\ call \in {"approve", "reject", "withdraw"}
     /\ \E i \in Requests : Put(h, [pc |-> "load", call |-> call, user |-> u, id |-> i])
  \/ /\ call = "subscribe"
     /\ \E e \in Endpoints, gs \in (SUBSET Accessible(u)) \ {{}} :
          Put(h, [pc |-> "replace", call |-> call, endpoint |-> e,
                  row |-> [user |-> u, groups |-> gs]])
  \/ /\ call = "unsubscribe"
     /\ \E e \in Endpoints : Put(h, [pc |-> "unsubscribe", call |-> call, user |-> u, endpoint |-> e])

Start(h) ==
  /\ handlers[h] = Idle
  /\ \E u \in Users, call \in CallsOf[h] : Begin(h, u, call)
  /\ UNCHANGED <<rules, enabled, behind, requests, issued, subscriptions, pushed, faults>>

-----------------------------------------------------------------------------
(* Rules *)

\* Mutant: the group is published when the first rule is new.
PublishesAll(new, wanted) == new = wanted

\* The group is published when the insert made any row.
Publishes(new, wanted) == new /= {}

\* The rows that a request under way has still to write by their identifiers.
Named(h) ==
  {i \in RuleIds :
     /\ handlers[h] /= Idle
     /\ \/ handlers[h].call \in {"update_rule", "delete_rule"} /\ i = handlers[h].rule
        \/ handlers[h].call = "bulk_delete" /\ i \in handlers[h].rules}

\* Identifiers are drawn at random: a new row never gets one a request has named.
Fresh == {i \in RuleIds : rules[i] = None /\ \A h \in Handlers : i \notin Named(h)}

\* Inserts do nothing where the key is taken; an approval inserts one rule.
InsertRules(h) ==
  LET me == handlers[h]
      new == me.wanted \ Allowed
  IN  /\ me.pc = "insert"
      /\ \E is \in SUBSET Fresh : \E row \in Bijection(is, new) :
           rules' = [i \in RuleIds |-> IF i \in is THEN row[i] ELSE rules[i]]
      /\ IF new = {} THEN UNCHANGED behind ELSE Changed(me.groups)
      /\ IF Publishes(new, me.wanted) THEN Then(h, "touch")
         ELSE IF me.call = "approve" THEN Then(h, "resolve") ELSE Answer(h)
      /\ UNCHANGED <<enabled, requests, issued, subscriptions, pushed, faults>>

\* The row is read first. It has to be there and to be of the group asked for;
\* an update to the domain it has neither writes nor publishes.
FindRule(h) ==
  LET me == handlers[h]
      row == rules[me.rule]
  IN  /\ me.pc = "find"
      /\ IF row = None THEN Answer(h)
         ELSE IF row.group \notin me.groups THEN Answer(h)
         ELSE IF me.call = "delete_rule" THEN Then(h, "delete_rule")
         ELSE IF row.domain = me.domain THEN Answer(h)
         ELSE Then(h, "duplicate")
      /\ UNCHANGED <<rules, enabled, behind, requests, issued, subscriptions, pushed, faults>>

\* Another row has the key that an update asks for.
Taken(me) ==
  \E i \in RuleIds \ {me.rule}, g \in me.groups : rules[i] = Rule(g, me.domain)

FindDuplicate(h) ==
  LET me == handlers[h]
  IN  /\ me.pc = "duplicate"
      /\ IF Taken(me) THEN Answer(h) ELSE Then(h, "update_rule")
      /\ UNCHANGED <<rules, enabled, behind, requests, issued, subscriptions, pushed, faults>>

\* updateRuleAndPublish writes over whatever the row has become, fails at the key
\* of a row written meanwhile, and publishes though the row is gone by now.
UpdateRule(h) ==
  LET me == handlers[h]
      row == rules[me.rule]
  IN  /\ me.pc = "update_rule"
      /\ \/ /\ row = None
            /\ Then(h, "touch")
            /\ UNCHANGED <<rules, behind>>
         \/ /\ row /= None /\ Taken(me)
            /\ Answer(h)
            /\ UNCHANGED <<rules, behind>>
         \/ /\ row /= None /\ ~Taken(me)
            /\ rules' = [rules EXCEPT ![me.rule] = Rule(row.group, me.domain)]
            /\ Changed({row.group})
            /\ Then(h, "touch")
      /\ UNCHANGED <<enabled, requests, issued, subscriptions, pushed, faults>>

\* deleteRuleAndPublish publishes when a row went.
DeleteRule(h) ==
  LET me == handlers[h]
      row == rules[me.rule]
  IN  /\ me.pc = "delete_rule"
      /\ rules' = [rules EXCEPT ![me.rule] = None]
      /\ IF row = None THEN UNCHANGED behind /\ Answer(h)
         ELSE Changed({row.group}) /\ Then(h, "touch")
      /\ UNCHANGED <<enabled, requests, issued, subscriptions, pushed, faults>>

\* The accessible rules among those asked for go in one statement, and the
\* groups they had when they were read are published.
BulkDelete(h) ==
  LET me == handlers[h]
  IN  /\ me.pc = "bulk_delete"
      /\ rules' = [i \in RuleIds |-> IF i \in me.rules THEN None ELSE rules[i]]
      /\ Changed({rules[i].group : i \in {j \in me.rules : rules[j] /= None}})
      /\ Then(h, "touch")
      /\ UNCHANGED <<enabled, requests, issued, subscriptions, pushed, faults>>

\* updateGroupAndNotify stamps the group itself.
UpdateGroup(h) ==
  LET me == handlers[h]
  IN  /\ me.pc = "update_group"
      /\ \E g \in me.groups :
           /\ enabled' = [enabled EXCEPT ![g] = me.flag]
           /\ behind' = [behind EXCEPT ![g] = @ \union {"event"}]
      /\ Then(h, "notify")
      /\ UNCHANGED <<rules, requests, issued, subscriptions, pushed, faults>>

-----------------------------------------------------------------------------
(* Requests *)

\* findPendingRequestIdByDomain looks at every group.
Pending(d, g) ==
  {i \in Requests : requests[i] /= None /\ requests[i].status = "pending" /\ requests[i].domain = d}

Look(h) ==
  LET me == handlers[h]
  IN  /\ me.pc = "look"
      /\ IF Pending(me.domain, me.group) = {} THEN Then(h, "request") ELSE Answer(h)
      /\ UNCHANGED <<rules, enabled, behind, requests, issued, subscriptions, pushed, faults>>

\* The request is there; the notification goes on in the background.
InsertRequest(h) ==
  LET me == handlers[h]
  IN  /\ me.pc = "request"
      /\ \E i \in Requests \ issued :
           /\ issued' = issued \union {i}
           /\ requests' = [requests EXCEPT
                ![i] = [status |-> "pending", domain |-> me.domain, group |-> me.group]]
           /\ Put(h, [pc |-> "subscribers", call |-> me.call, group |-> me.group])
      /\ UNCHANGED <<rules, enabled, behind, subscriptions, pushed, faults>>

\* Mutant: the request is resolved at once and its rule left for later.
ApproveAtOnce(h, i) ==
  Put(h, [pc |-> "resolve", call |-> "approve", id |-> i, groups |-> {requests[i].group}])

\* An approval's plan: the rule comes before the resolution.
Approve(h, i) ==
  Put(h, [pc |-> "insert", call |-> "approve", id |-> i, groups |-> {requests[i].group},
          wanted |-> {Rule(requests[i].group, requests[i].domain)}])

\* The request is loaded and checked: pending, of the tenant and of a group the
\* user may use; a withdrawal asks only that it is the tenant's.
LoadRequest(h) ==
  LET me == handlers[h]
      row == requests[me.id]
  IN  /\ me.pc = "load"
      /\ IF row = None THEN Answer(h)
         ELSE IF me.call = "withdraw" THEN Then(h, "withdraw")
         ELSE IF row.status /= "pending" \/ ~CanUse(me.user, row.group) THEN Answer(h)
         ELSE IF me.call = "reject" THEN Then(h, "resolve")
         ELSE Approve(h, me.id)
      /\ UNCHANGED <<rules, enabled, behind, requests, issued, subscriptions, pushed, faults>>

\* resolveRequest writes over whatever the row has become, and nothing where it is gone.
Resolve(h) ==
  LET me == handlers[h]
      status == IF me.call = "approve" THEN "approved" ELSE "rejected"
  IN  /\ me.pc = "resolve"
      /\ requests' = [requests EXCEPT ![me.id] = IF @ = None THEN None ELSE [@ EXCEPT !.status = status]]
      /\ Answer(h)
      /\ UNCHANGED <<rules, enabled, behind, issued, subscriptions, pushed, faults>>

Withdraw(h) ==
  /\ handlers[h].pc = "withdraw"
  /\ requests' = [requests EXCEPT ![handlers[h].id] = None]
  /\ Answer(h)
  /\ UNCHANGED <<rules, enabled, behind, issued, subscriptions, pushed, faults>>

-----------------------------------------------------------------------------
(* Push subscriptions *)

\* replaceSubscriptionByEndpoint: the endpoint's row goes, whoever's it was ...
Replace(h) ==
  LET me == handlers[h]
  IN  /\ me.pc = "replace"
      /\ subscriptions' = [subscriptions EXCEPT ![me.endpoint] = None]
      /\ Then(h, "subscribe")
      /\ UNCHANGED <<rules, enabled, behind, requests, issued, pushed, faults>>

\* ... then its new row comes, unless another one took the unique key.
Subscribe(h) ==
  LET me == handlers[h]
  IN  /\ me.pc = "subscribe"
      /\ subscriptions' = [subscriptions EXCEPT ![me.endpoint] = IF @ = None THEN me.row ELSE @]
      /\ Answer(h)
      /\ UNCHANGED <<rules, enabled, behind, requests, issued, pushed, faults>>

\* A user removes a subscription of theirs.
Unsubscribe(h) ==
  LET me == handlers[h]
      row == subscriptions[me.endpoint]
  IN  /\ me.pc = "unsubscribe"
      /\ subscriptions' = [subscriptions EXCEPT
           ![me.endpoint] = IF row = None THEN None ELSE IF row.user = me.user THEN None ELSE row]
      /\ Answer(h)
      /\ UNCHANGED <<rules, enabled, behind, requests, issued, pushed, faults>>

\* Mutant: every subscription is told of every request.
SubscribersAll(g) == {e \in Endpoints : subscriptions[e] /= None}

\* getSubscriptionsForGroup.
Subscribers(g) ==
  {e \in {f \in Endpoints : subscriptions[f] /= None} : g \in subscriptions[e].groups}

\* The subscribers of the request's group are read and all are sent the
\* notification, each with an outcome of its own.
Push(h) ==
  LET me == handlers[h]
  IN  /\ me.pc = "subscribers"
      /\ \E gone \in SUBSET Subscribers(me.group) :
           /\ pushed' = pushed \union
                {[user |-> subscriptions[e].user, group |-> me.group] :
                   e \in Subscribers(me.group) \ gone}
           /\ IF gone = {} THEN Answer(h)
              ELSE Put(h, [pc |-> "prune", call |-> me.call, gone |-> gone])
      /\ UNCHANGED <<rules, enabled, behind, requests, issued, subscriptions, faults>>

\* A subscription the push service answers 410 Gone for is deleted, one by one.
Prune(h) ==
  LET me == handlers[h]
  IN  /\ me.pc = "prune"
      /\ \E e \in me.gone :
           /\ subscriptions' = [subscriptions EXCEPT ![e] = None]
           /\ IF me.gone = {e} THEN Answer(h)
              ELSE handlers' = [handlers EXCEPT ![h].gone = @ \ {e}]
      /\ UNCHANGED <<rules, enabled, behind, requests, issued, pushed, faults>>

-----------------------------------------------------------------------------

\* A statement fails or the process dies: the request ends where it is.
Fail(h) ==
  /\ handlers[h] /= Idle /\ faults < MaxFaults
  /\ faults' = faults + 1
  /\ Answer(h)
  /\ UNCHANGED <<rules, enabled, behind, requests, issued, subscriptions, pushed>>

Init ==
  /\ rules = [i \in RuleIds |-> None]
  /\ enabled = [g \in Groups |-> TRUE]
  /\ behind = [g \in Groups |-> {}]
  /\ requests = [i \in Requests |-> None]
  /\ issued = {}
  /\ subscriptions = [e \in Endpoints |-> None]
  /\ pushed = {}
  /\ handlers = [h \in Handlers |-> Idle]
  /\ faults = 0

Run(h) ==
  \/ InsertRules(h) \/ FindRule(h) \/ FindDuplicate(h) \/ UpdateRule(h) \/ DeleteRule(h)
  \/ BulkDelete(h) \/ UpdateGroup(h) \/ Touch(h) \/ Notify(h)
  \/ Look(h) \/ InsertRequest(h) \/ LoadRequest(h) \/ Resolve(h) \/ Withdraw(h)
  \/ Replace(h) \/ Subscribe(h) \/ Unsubscribe(h) \/ Push(h) \/ Prune(h)

Next == \E h \in Handlers : Start(h) \/ Run(h) \/ Fail(h)

Spec == Init /\ [][Next]_vars

-----------------------------------------------------------------------------
(* Properties *)

\* Tables hold rows of their columns.
TypeOK ==
  /\ rules \in [RuleIds -> RuleType \union {None}]
  /\ enabled \in [Groups -> BOOLEAN]
  /\ behind \in [Groups -> SUBSET {"stamp", "event"}]
  /\ requests \in [Requests -> [status : {"pending", "approved", "rejected"}, domain : Domains,
                                group : Groups] \union {None}]
  /\ issued \subseteq Requests
  /\ subscriptions \in [Endpoints -> [user : Users, groups : SUBSET Groups] \union {None}]
  /\ pushed \subseteq [user : Users, group : Groups]
  /\ faults \in 0..MaxFaults

\* Once no request is under way, the agents of every group have been given both
\* the stamp and the event of its last change, unless a statement failed.
RulesPublished ==
  faults = 0 /\ (\A h \in Handlers : handlers[h] = Idle) => \A g \in Groups : behind[g] = {}

\* Where no rule is taken away by hand, an approved domain is allowed in its
\* group: an interrupted or a late approval never marks what it did not do.
ApprovedIsAllowed ==
  \A i \in Requests :
    requests[i] /= None /\ requests[i].status = "approved" =>
      Rule(requests[i].group, requests[i].domain) \in Allowed

\* A teacher is only told of requests for groups assigned to them, though
\* subscriptions are replaced, removed and pruned while notifications are sent.
ToldOfOwnGroups == \A n \in pushed : n.group \in Accessible(n.user)
=============================================================================
