-------------------------- MODULE DomainRulesProofs --------------------------
(* What is proved of the rules, the requests and the subscriptions: whatever  *)
(* the handlers interleave, agents are told of the last change, an approved   *)
(* domain is allowed, and a teacher is told of requests for groups of theirs. *)
EXTENDS DomainRules, TLAPS

-----------------------------------------------------------------------------
(* What a handler remembers of its call, and where it may be. *)

RequestRows == [status : {"pending", "approved", "rejected"}, domain : Domains, group : Groups]
SubscriptionRows == [user : Users, groups : SUBSET Groups]

Creating == [pc : {"insert", "touch", "notify"}, call : {"create_rule", "bulk_create"},
             groups : SUBSET Groups, wanted : SUBSET RuleType]
Approving == [pc : {"insert", "touch", "notify", "resolve"}, call : {"approve"}, id : Requests,
              groups : SUBSET Groups, wanted : SUBSET RuleType]
Updating == [pc : {"find", "duplicate", "update_rule", "touch", "notify"}, call : {"update_rule"},
             groups : SUBSET Groups, rule : RuleIds, domain : Domains]
Deleting == [pc : {"find", "delete_rule", "touch", "notify"}, call : {"delete_rule"},
             groups : SUBSET Groups, rule : RuleIds, domain : Domains]
BulkDeleting == [pc : {"bulk_delete", "touch", "notify"}, call : {"bulk_delete"},
                 rules : SUBSET RuleIds, groups : SUBSET Groups]
Switching == [pc : {"update_group", "notify"}, call : {"update_group"},
              groups : SUBSET Groups, flag : BOOLEAN]
Asking == [pc : {"look", "request"}, call : {"request"}, group : Groups, domain : Domains]
Telling == [pc : {"subscribers"}, call : {"request"}, group : Groups]
Pruning == [pc : {"prune"}, call : {"request"}, gone : SUBSET Endpoints]
Loading == [pc : {"load"}, call : {"approve"}, user : Users, id : Requests]
Rejecting == [pc : {"load", "resolve"}, call : {"reject"}, user : Users, id : Requests]
Withdrawing == [pc : {"load", "withdraw"}, call : {"withdraw"}, user : Users, id : Requests]
Subscribing == [pc : {"replace", "subscribe"}, call : {"subscribe"}, endpoint : Endpoints,
                row : SubscriptionRows]
Unsubscribing == [pc : {"unsubscribe"}, call : {"unsubscribe"}, user : Users,
                  endpoint : Endpoints]

Ruling == Creating \union Approving \union Updating \union Deleting \union BulkDeleting
            \union Switching
Requesting == Asking \union Telling \union Pruning \union Loading \union Rejecting
                \union Withdrawing
HandlerRecords == {Idle} \union Ruling \union Requesting \union Subscribing \union Unsubscribing

DomainInv ==
  /\ TypeOK
  /\ handlers \in [Handlers -> HandlerRecords]

-----------------------------------------------------------------------------
(* Types *)

\* Where the handler h goes, every other one stays where it is.
LEMMA PutKeepsType ==
  ASSUME handlers \in [Handlers -> HandlerRecords], NEW h \in Handlers,
         NEW rec \in HandlerRecords, Put(h, rec)
  PROVE  /\ handlers' \in [Handlers -> HandlerRecords]
         /\ handlers'[h] = rec
         /\ \A k \in Handlers \ {h} : handlers'[k] = handlers[k]
BY DEF Put

LEMMA AnswerKeepsType ==
  ASSUME handlers \in [Handlers -> HandlerRecords], NEW h \in Handlers, Answer(h)
  PROVE  /\ handlers' \in [Handlers -> HandlerRecords]
         /\ handlers'[h] = Idle
         /\ \A k \in Handlers \ {h} : handlers'[k] = handlers[k]
<1>1. Idle \in HandlerRecords
  BY DEF HandlerRecords
<1> QED BY <1>1 DEF Put, Answer

LEMMA ThenIsPut ==
  ASSUME handlers \in [Handlers -> HandlerRecords], NEW h \in Handlers, NEW pc, Then(h, pc)
  PROVE  Put(h, [handlers[h] EXCEPT !.pc = pc])
BY DEF Then, Put

\* Where a handler goes on, it keeps the record of its call.
LEMMA GoesOn ==
  ASSUME NEW me \in HandlerRecords, NEW pc,
         \/ me.pc = "insert" /\ pc = "touch"
         \/ me.pc \in {"insert", "notify"} /\ me.call = "approve" /\ pc = "resolve"
         \/ me.pc = "touch" /\ pc = "notify"
         \/ me.pc \in {"update_rule", "delete_rule", "bulk_delete"} /\ pc = "touch"
         \/ me.pc = "update_group" /\ pc = "notify"
         \/ me.pc = "find" /\ me.call = "delete_rule" /\ pc = "delete_rule"
         \/ me.pc = "find" /\ me.call # "delete_rule" /\ pc = "duplicate"
         \/ me.pc = "duplicate" /\ pc = "update_rule"
         \/ me.pc = "look" /\ pc = "request"
         \/ me.pc = "load" /\ me.call = "withdraw" /\ pc = "withdraw"
         \/ me.pc = "load" /\ me.call = "reject" /\ pc = "resolve"
         \/ me.pc = "replace" /\ pc = "subscribe"
  PROVE  [me EXCEPT !.pc = pc] \in HandlerRecords
<1> DEFINE on == [me EXCEPT !.pc = pc]
<1> USE DEF HandlerRecords, Ruling, Requesting, Idle
<1>1. CASE me.pc = "insert" /\ pc = "touch"
  <2>1. me \in Creating \union Approving
    BY <1>1 DEF Creating, Approving, Updating, Deleting, BulkDeleting, Switching, Asking, Telling,
                Pruning, Loading, Rejecting, Withdrawing, Subscribing, Unsubscribing
  <2> QED BY <1>1, <2>1 DEF Creating, Approving
<1>2. CASE me.pc \in {"insert", "notify"} /\ me.call = "approve" /\ pc = "resolve"
  <2>1. me \in Approving
    BY <1>2 DEF Creating, Approving, Updating, Deleting, BulkDeleting, Switching, Asking, Telling,
                Pruning, Loading, Rejecting, Withdrawing, Subscribing, Unsubscribing
  <2> QED BY <1>2, <2>1 DEF Approving
<1>3. CASE me.pc = "touch" /\ pc = "notify"
  <2>1. me \in Creating \union Approving \union Updating \union Deleting \union BulkDeleting
    BY <1>3 DEF Switching, Asking, Telling,
                Pruning, Loading, Rejecting, Withdrawing, Subscribing, Unsubscribing
  <2> QED BY <1>3, <2>1 DEF Creating, Approving, Updating, Deleting, BulkDeleting
<1>4. CASE me.pc \in {"update_rule", "delete_rule", "bulk_delete"} /\ pc = "touch"
  <2>1. me \in Updating \union Deleting \union BulkDeleting
    BY <1>4 DEF Creating, Approving, Switching, Asking, Telling,
                Pruning, Loading, Rejecting, Withdrawing, Subscribing, Unsubscribing
  <2> QED BY <1>4, <2>1 DEF Updating, Deleting, BulkDeleting
<1>5. CASE me.pc = "update_group" /\ pc = "notify"
  <2>1. me \in Switching
    BY <1>5 DEF Creating, Approving, Updating, Deleting, BulkDeleting, Asking, Telling,
                Pruning, Loading, Rejecting, Withdrawing, Subscribing, Unsubscribing
  <2> QED BY <1>5, <2>1 DEF Switching
<1>6. CASE me.pc = "look" /\ pc = "request"
  <2>1. me \in Asking
    BY <1>6 DEF Creating, Approving, Updating, Deleting, BulkDeleting, Switching, Telling,
                Pruning, Loading, Rejecting, Withdrawing, Subscribing, Unsubscribing
  <2> QED BY <1>6, <2>1 DEF Asking
<1>7. CASE me.pc = "load" /\ me.call = "withdraw" /\ pc = "withdraw"
  <2>1. me \in Withdrawing
    BY <1>7 DEF Creating, Approving, Updating, Deleting, BulkDeleting, Switching, Asking, Telling,
                Pruning, Loading, Rejecting, Subscribing, Unsubscribing
  <2> QED BY <1>7, <2>1 DEF Withdrawing
<1>8. CASE me.pc = "load" /\ me.call = "reject" /\ pc = "resolve"
  <2>1. me \in Rejecting
    BY <1>8 DEF Creating, Approving, Updating, Deleting, BulkDeleting, Switching, Asking, Telling,
                Pruning, Loading, Withdrawing, Subscribing, Unsubscribing
  <2> QED BY <1>8, <2>1 DEF Rejecting
<1>9. CASE me.pc = "replace" /\ pc = "subscribe"
  <2>1. me \in Subscribing
    BY <1>9 DEF Creating, Approving, Updating, Deleting, BulkDeleting, Switching, Asking, Telling,
                Pruning, Loading, Rejecting, Withdrawing, Unsubscribing
  <2> QED BY <1>9, <2>1 DEF Subscribing
<1>10. CASE \/ me.pc = "find" /\ me.call = "delete_rule" /\ pc = "delete_rule"
            \/ me.pc = "find" /\ me.call # "delete_rule" /\ pc = "duplicate"
            \/ me.pc = "duplicate" /\ pc = "update_rule"
  <2>1. me \in Updating \union Deleting
    BY <1>10 DEF Creating, Approving, BulkDeleting, Switching, Asking, Telling,
                 Pruning, Loading, Rejecting, Withdrawing, Subscribing, Unsubscribing
  <2> QED BY <1>10, <2>1 DEF Updating, Deleting
<1> QED BY <1>1, <1>2, <1>3, <1>4, <1>5, <1>6, <1>7, <1>8, <1>9, <1>10

LEMMA GoesOnKeepsType ==
  ASSUME handlers \in [Handlers -> HandlerRecords], NEW h \in Handlers, NEW pc, Then(h, pc),
         [handlers[h] EXCEPT !.pc = pc] \in HandlerRecords
  PROVE  /\ handlers' \in [Handlers -> HandlerRecords]
         /\ handlers'[h] = [handlers[h] EXCEPT !.pc = pc]
         /\ \A k \in Handlers \ {h} : handlers'[k] = handlers[k]
BY ThenIsPut, PutKeepsType

LEMMA InitTyped == DomainRulesAssumption /\ Init => DomainInv
<1> SUFFICES ASSUME DomainRulesAssumption, Init PROVE DomainInv
  OBVIOUS
<1>1. TypeOK
  BY DEF Init, TypeOK, DomainRulesAssumption
<1>2. handlers \in [Handlers -> HandlerRecords]
  BY DEF Init, HandlerRecords
<1> QED BY <1>1, <1>2 DEF DomainInv

\* The call a handler is given is one of its records.
LEMMA StartKeepsType ==
  ASSUME DomainRulesAssumption, DomainInv, NEW h \in Handlers, Start(h)
  PROVE  DomainInv'
<1>1. PICK u \in Users, call \in CallsOf[h] : Begin(h, u, call)
  BY DEF Start
<1>2. Accessible(u) \subseteq Groups
  BY DEF Accessible, DomainRulesAssumption
<1>3. \E rec \in HandlerRecords : Put(h, rec)
  <2> USE DEF HandlerRecords, Ruling, Requesting
  <2>1. CASE call \in {"create_rule", "bulk_create"}
    <3>1. PICK g \in Groups, ds \in SUBSET Domains :
             Put(h, [pc |-> "insert", call |-> call, groups |-> {g},
                     wanted |-> {Rule(g, d) : d \in ds}])
      BY <1>1, <2>1 DEF Begin
    <3>2. {Rule(g, d) : d \in ds} \subseteq RuleType
      BY DEF Rule, RuleType
    <3>3. [pc |-> "insert", call |-> call, groups |-> {g},
           wanted |-> {Rule(g, d) : d \in ds}] \in Creating
      BY <2>1, <3>2 DEF Creating
    <3> QED BY <3>1, <3>3
  <2>2. CASE call \in {"update_rule", "delete_rule"}
    <3>1. PICK i \in RuleIds, g \in Groups, d \in Domains :
             Put(h, [pc |-> "find", call |-> call, groups |-> {g}, rule |-> i, domain |-> d])
      BY <1>1, <2>2 DEF Begin
    <3>2. [pc |-> "find", call |-> call, groups |-> {g}, rule |-> i, domain |-> d]
            \in Updating \union Deleting
      BY <2>2 DEF Updating, Deleting
    <3> QED BY <3>1, <3>2
  <2>3. CASE call = "bulk_delete"
    <3>1. PICK is \in SUBSET {i \in RuleIds : rules[i] # None} :
             Put(h, [pc |-> "bulk_delete", call |-> call,
                     rules |-> {i \in is : rules[i].group \in Accessible(u)},
                     groups |-> {rules[i].group : i \in {j \in is : rules[j].group \in Accessible(u)}}])
      BY <1>1, <2>3 DEF Begin
    <3> DEFINE mine == {i \in is : rules[i].group \in Accessible(u)}
    <3>2. mine \subseteq RuleIds /\ {rules[i].group : i \in mine} \subseteq Groups
      BY <1>2
    <3>3. [pc |-> "bulk_delete", call |-> call, rules |-> mine,
           groups |-> {rules[i].group : i \in mine}] \in BulkDeleting
      BY <2>3, <3>2 DEF BulkDeleting
    <3> QED BY <3>1, <3>3
  <2>4. CASE call = "update_group"
    <3>1. PICK g \in Groups, flag \in BOOLEAN :
             Put(h, [pc |-> "update_group", call |-> call, groups |-> {g}, flag |-> flag])
      BY <1>1, <1>2, <2>4 DEF Begin
    <3>2. [pc |-> "update_group", call |-> call, groups |-> {g}, flag |-> flag] \in Switching
      BY <2>4 DEF Switching
    <3> QED BY <3>1, <3>2
  <2>5. CASE call = "request"
    <3>1. PICK g \in Groups, d \in Domains :
             Put(h, [pc |-> "look", call |-> call, group |-> g, domain |-> d])
      BY <1>1, <2>5 DEF Begin
    <3>2. [pc |-> "look", call |-> call, group |-> g, domain |-> d] \in Asking
      BY <2>5 DEF Asking
    <3> QED BY <3>1, <3>2
  <2>6. CASE call \in {"approve", "reject", "withdraw"}
    <3>1. PICK i \in Requests : Put(h, [pc |-> "load", call |-> call, user |-> u, id |-> i])
      BY <1>1, <2>6 DEF Begin
    <3>2. [pc |-> "load", call |-> call, user |-> u, id |-> i]
            \in Loading \union Rejecting \union Withdrawing
      BY <2>6 DEF Loading, Rejecting, Withdrawing
    <3> QED BY <3>1, <3>2
  <2>7. CASE call = "subscribe"
    <3>1. PICK e \in Endpoints, gs \in SUBSET Groups :
             Put(h, [pc |-> "replace", call |-> call, endpoint |-> e,
                     row |-> [user |-> u, groups |-> gs]])
      BY <1>1, <1>2, <2>7 DEF Begin
    <3>2. [pc |-> "replace", call |-> call, endpoint |-> e,
           row |-> [user |-> u, groups |-> gs]] \in Subscribing
      BY <2>7 DEF Subscribing, SubscriptionRows
    <3> QED BY <3>1, <3>2
  <2>8. CASE call = "unsubscribe"
    <3>1. PICK e \in Endpoints :
             Put(h, [pc |-> "unsubscribe", call |-> call, user |-> u, endpoint |-> e])
      BY <1>1, <2>8 DEF Begin
    <3>2. [pc |-> "unsubscribe", call |-> call, user |-> u, endpoint |-> e] \in Unsubscribing
      BY <2>8 DEF Unsubscribing
    <3> QED BY <3>1, <3>2
  <2> QED BY <1>1, <2>1, <2>2, <2>3, <2>4, <2>5, <2>6, <2>7, <2>8 DEF Begin
<1>4. handlers' \in [Handlers -> HandlerRecords]
  BY <1>3, PutKeepsType DEF DomainInv
<1>5. TypeOK'
  BY DEF Start, DomainInv, TypeOK
<1> QED BY <1>4, <1>5 DEF DomainInv

-----------------------------------------------------------------------------
(* What a handler holds where it is. *)

LEMMA AtInsert ==
  ASSUME NEW me \in HandlerRecords, me.pc = "insert"
  PROVE  me \in Creating \union Approving
BY DEF HandlerRecords, Ruling, Requesting, Idle, Creating, Approving, Updating, Deleting,
       BulkDeleting, Switching, Asking, Telling, Pruning, Loading, Rejecting, Withdrawing,
       Subscribing, Unsubscribing

LEMMA AtPublishing ==
  ASSUME NEW me \in HandlerRecords, me.pc \in {"touch", "notify"}
  PROVE  me \in Ruling /\ me.groups \subseteq Groups
BY DEF HandlerRecords, Ruling, Requesting, Idle, Creating, Approving, Updating, Deleting,
       BulkDeleting, Switching, Asking, Telling, Pruning, Loading, Rejecting, Withdrawing,
       Subscribing, Unsubscribing

LEMMA AtUpdate ==
  ASSUME NEW me \in HandlerRecords,
         me.pc \in {"find", "duplicate", "update_rule", "delete_rule"}
  PROVE  me \in Updating \union Deleting
BY DEF HandlerRecords, Ruling, Requesting, Idle, Creating, Approving, Updating, Deleting,
       BulkDeleting, Switching, Asking, Telling, Pruning, Loading, Rejecting, Withdrawing,
       Subscribing, Unsubscribing

LEMMA AtBulkDelete ==
  ASSUME NEW me \in HandlerRecords, me.pc = "bulk_delete"
  PROVE  me \in BulkDeleting
BY DEF HandlerRecords, Ruling, Requesting, Idle, Creating, Approving, Updating, Deleting,
       BulkDeleting, Switching, Asking, Telling, Pruning, Loading, Rejecting, Withdrawing,
       Subscribing, Unsubscribing

LEMMA AtUpdateGroup ==
  ASSUME NEW me \in HandlerRecords, me.pc = "update_group"
  PROVE  me \in Switching
BY DEF HandlerRecords, Ruling, Requesting, Idle, Creating, Approving, Updating, Deleting,
       BulkDeleting, Switching, Asking, Telling, Pruning, Loading, Rejecting, Withdrawing,
       Subscribing, Unsubscribing

LEMMA AtRequest ==
  ASSUME NEW me \in HandlerRecords, me.pc \in {"look", "request"}
  PROVE  me \in Asking
BY DEF HandlerRecords, Ruling, Requesting, Idle, Creating, Approving, Updating, Deleting,
       BulkDeleting, Switching, Asking, Telling, Pruning, Loading, Rejecting, Withdrawing,
       Subscribing, Unsubscribing

LEMMA AtLoad ==
  ASSUME NEW me \in HandlerRecords, me.pc = "load"
  PROVE  me \in Loading \union Rejecting \union Withdrawing
BY DEF HandlerRecords, Ruling, Requesting, Idle, Creating, Approving, Updating, Deleting,
       BulkDeleting, Switching, Asking, Telling, Pruning, Loading, Rejecting, Withdrawing,
       Subscribing, Unsubscribing

LEMMA AtResolve ==
  ASSUME NEW me \in HandlerRecords, me.pc = "resolve"
  PROVE  me \in Approving \union Rejecting
BY DEF HandlerRecords, Ruling, Requesting, Idle, Creating, Approving, Updating, Deleting,
       BulkDeleting, Switching, Asking, Telling, Pruning, Loading, Rejecting, Withdrawing,
       Subscribing, Unsubscribing

LEMMA AtWithdraw ==
  ASSUME NEW me \in HandlerRecords, me.pc = "withdraw"
  PROVE  me \in Withdrawing
BY DEF HandlerRecords, Ruling, Requesting, Idle, Creating, Approving, Updating, Deleting,
       BulkDeleting, Switching, Asking, Telling, Pruning, Loading, Rejecting, Withdrawing,
       Subscribing, Unsubscribing

LEMMA AtSubscribe ==
  ASSUME NEW me \in HandlerRecords, me.pc \in {"replace", "subscribe"}
  PROVE  me \in Subscribing
BY DEF HandlerRecords, Ruling, Requesting, Idle, Creating, Approving, Updating, Deleting,
       BulkDeleting, Switching, Asking, Telling, Pruning, Loading, Rejecting, Withdrawing,
       Subscribing, Unsubscribing

LEMMA AtUnsubscribe ==
  ASSUME NEW me \in HandlerRecords, me.pc = "unsubscribe"
  PROVE  me \in Unsubscribing
BY DEF HandlerRecords, Ruling, Requesting, Idle, Creating, Approving, Updating, Deleting,
       BulkDeleting, Switching, Asking, Telling, Pruning, Loading, Rejecting, Withdrawing,
       Subscribing, Unsubscribing

LEMMA AtPush ==
  ASSUME NEW me \in HandlerRecords, me.pc = "subscribers"
  PROVE  me \in Telling
BY DEF HandlerRecords, Ruling, Requesting, Idle, Creating, Approving, Updating, Deleting,
       BulkDeleting, Switching, Asking, Telling, Pruning, Loading, Rejecting, Withdrawing,
       Subscribing, Unsubscribing

LEMMA AtPrune ==
  ASSUME NEW me \in HandlerRecords, me.pc = "prune"
  PROVE  me \in Pruning
BY DEF HandlerRecords, Ruling, Requesting, Idle, Creating, Approving, Updating, Deleting,
       BulkDeleting, Switching, Asking, Telling, Pruning, Loading, Rejecting, Withdrawing,
       Subscribing, Unsubscribing

-----------------------------------------------------------------------------

\* The statements of a handler keep the tables and its record typed.
LEMMA RulesKeepType ==
  ASSUME DomainRulesAssumption, DomainInv, NEW h \in Handlers,
         InsertRules(h) \/ FindRule(h) \/ FindDuplicate(h) \/ UpdateRule(h) \/ DeleteRule(h)
           \/ BulkDelete(h) \/ UpdateGroup(h) \/ Touch(h) \/ Notify(h)
  PROVE  DomainInv'
<1> DEFINE me == handlers[h]
<1>1. /\ handlers \in [Handlers -> HandlerRecords] /\ me \in HandlerRecords
      /\ TypeOK
  BY DEF DomainInv
<1>2. CASE InsertRules(h)
  <2>1. me \in Creating \union Approving
    BY <1>1, <1>2, AtInsert DEF InsertRules
  <2>2. Answer(h) \/ \E pc : Then(h, pc) /\ [me EXCEPT !.pc = pc] \in HandlerRecords
    BY <1>1, <1>2, GoesOn DEF InsertRules
  <2>3. handlers' \in [Handlers -> HandlerRecords]
    BY <1>1, <2>2, AnswerKeepsType, GoesOnKeepsType
  <2>4. me.wanted \subseteq RuleType /\ me.groups \subseteq Groups
    BY <2>1 DEF Creating, Approving
  <2>5. PICK is \in SUBSET Fresh : \E row \in Bijection(is, me.wanted \ Allowed) :
           rules' = [i \in RuleIds |-> IF i \in is THEN row[i] ELSE rules[i]]
    BY <1>2 DEF InsertRules
  <2>9. PICK row \in Bijection(is, me.wanted \ Allowed) :
           rules' = [i \in RuleIds |-> IF i \in is THEN row[i] ELSE rules[i]]
    BY <2>5
  <2>6. row \in [is -> me.wanted \ Allowed]
    BY DEF Bijection, Injection
  <2>7. rules' \in [RuleIds -> RuleType \union {None}]
    BY <1>1, <2>4, <2>6, <2>9 DEF TypeOK
  <2>8. TypeOK'
    BY <1>1, <1>2, <2>4, <2>7 DEF InsertRules, TypeOK, Changed
  <2> QED BY <2>3, <2>8 DEF DomainInv
<1>3. CASE UpdateRule(h)
  <2>1. me \in Updating \union Deleting
    BY <1>1, <1>3, AtUpdate DEF UpdateRule
  <2>2. Answer(h) \/ \E pc : Then(h, pc) /\ [me EXCEPT !.pc = pc] \in HandlerRecords
    BY <1>1, <1>3, GoesOn DEF UpdateRule
  <2>3. handlers' \in [Handlers -> HandlerRecords]
    BY <1>1, <2>2, AnswerKeepsType, GoesOnKeepsType
  <2>4. rules[me.rule] # None => Rule(rules[me.rule].group, me.domain) \in RuleType
    BY <1>1, <2>1 DEF Updating, Deleting, RuleType, Rule, TypeOK
  <2>5. TypeOK'
    BY <1>1, <1>3, <2>4 DEF UpdateRule, TypeOK, Changed
  <2> QED BY <2>3, <2>5 DEF DomainInv
<1>4. CASE DeleteRule(h)
  <2>2. Answer(h) \/ \E pc : Then(h, pc) /\ [me EXCEPT !.pc = pc] \in HandlerRecords
    BY <1>1, <1>4, GoesOn DEF DeleteRule
  <2>3. handlers' \in [Handlers -> HandlerRecords]
    BY <1>1, <2>2, AnswerKeepsType, GoesOnKeepsType
  <2>5. TypeOK'
    BY <1>1, <1>4 DEF DeleteRule, TypeOK, Changed
  <2> QED BY <2>3, <2>5 DEF DomainInv
<1>9. CASE FindRule(h) \/ FindDuplicate(h)
  <2>2. Answer(h) \/ \E pc : Then(h, pc) /\ [me EXCEPT !.pc = pc] \in HandlerRecords
    BY <1>1, <1>9, GoesOn DEF FindRule, FindDuplicate
  <2>3. handlers' \in [Handlers -> HandlerRecords]
    BY <1>1, <2>2, AnswerKeepsType, GoesOnKeepsType
  <2>5. TypeOK'
    BY <1>1, <1>9 DEF FindRule, FindDuplicate, TypeOK
  <2> QED BY <2>3, <2>5 DEF DomainInv
<1>5. CASE BulkDelete(h)
  <2>2. Then(h, "touch") /\ [me EXCEPT !.pc = "touch"] \in HandlerRecords
    BY <1>1, <1>5, GoesOn DEF BulkDelete
  <2>3. handlers' \in [Handlers -> HandlerRecords]
    BY <1>1, <2>2, GoesOnKeepsType
  <2>5. TypeOK'
    BY <1>1, <1>5 DEF BulkDelete, TypeOK, Changed
  <2> QED BY <2>3, <2>5 DEF DomainInv
<1>6. CASE UpdateGroup(h)
  <2>1. me \in Switching
    BY <1>1, <1>6, AtUpdateGroup DEF UpdateGroup
  <2>2. Then(h, "notify") /\ [me EXCEPT !.pc = "notify"] \in HandlerRecords
    BY <1>1, <1>6, GoesOn DEF UpdateGroup
  <2>3. handlers' \in [Handlers -> HandlerRecords]
    BY <1>1, <2>2, GoesOnKeepsType
  <2>4. PICK g \in me.groups : /\ enabled' = [enabled EXCEPT ![g] = me.flag]
                               /\ behind' = [behind EXCEPT ![g] = @ \union {"event"}]
    BY <1>6 DEF UpdateGroup
  <2>5. g \in Groups /\ me.flag \in BOOLEAN
    BY <2>1 DEF Switching
  <2>6. enabled' \in [Groups -> BOOLEAN] /\ behind' \in [Groups -> SUBSET {"stamp", "event"}]
    BY <1>1, <2>4, <2>5 DEF TypeOK
  <2>7. TypeOK'
    BY <1>1, <1>6, <2>6 DEF UpdateGroup, TypeOK
  <2> QED BY <2>3, <2>7 DEF DomainInv
<1>7. CASE Touch(h)
  <2>2. Then(h, "notify") /\ [me EXCEPT !.pc = "notify"] \in HandlerRecords
    BY <1>1, <1>7, GoesOn DEF Touch
  <2>3. handlers' \in [Handlers -> HandlerRecords]
    BY <1>1, <2>2, GoesOnKeepsType
  <2>5. TypeOK'
    BY <1>1, <1>7 DEF Touch, TypeOK
  <2> QED BY <2>3, <2>5 DEF DomainInv
<1>8. CASE Notify(h)
  <2>2. Answer(h) \/ \E pc : Then(h, pc) /\ [me EXCEPT !.pc = pc] \in HandlerRecords
    BY <1>1, <1>8, GoesOn DEF Notify
  <2>3. handlers' \in [Handlers -> HandlerRecords]
    BY <1>1, <2>2, AnswerKeepsType, GoesOnKeepsType
  <2>5. TypeOK'
    BY <1>1, <1>8 DEF Notify, TypeOK
  <2> QED BY <2>3, <2>5 DEF DomainInv
<1> QED BY <1>2, <1>3, <1>4, <1>5, <1>6, <1>7, <1>8, <1>9

LEMMA RequestsKeepType ==
  ASSUME DomainRulesAssumption, DomainInv, NEW h \in Handlers,
         Look(h) \/ InsertRequest(h) \/ LoadRequest(h) \/ Resolve(h) \/ Withdraw(h)
  PROVE  DomainInv'
<1> DEFINE me == handlers[h]
<1>1. /\ handlers \in [Handlers -> HandlerRecords] /\ me \in HandlerRecords
      /\ TypeOK
  BY DEF DomainInv
<1>2. CASE Look(h)
  <2>2. Answer(h) \/ \E pc : Then(h, pc) /\ [me EXCEPT !.pc = pc] \in HandlerRecords
    BY <1>1, <1>2, GoesOn DEF Look
  <2>3. handlers' \in [Handlers -> HandlerRecords]
    BY <1>1, <2>2, AnswerKeepsType, GoesOnKeepsType
  <2>5. TypeOK'
    BY <1>1, <1>2 DEF Look, TypeOK
  <2> QED BY <2>3, <2>5 DEF DomainInv
<1>3. CASE InsertRequest(h)
  <2>1. me \in Asking
    BY <1>1, <1>3, AtRequest DEF InsertRequest
  <2>2. [pc |-> "subscribers", call |-> me.call, group |-> me.group] \in HandlerRecords
    BY <2>1 DEF Asking, Telling, HandlerRecords, Requesting
  <2>3. handlers' \in [Handlers -> HandlerRecords]
    BY <1>1, <1>3, <2>2, PutKeepsType DEF InsertRequest
  <2>4. PICK i \in Requests \ issued :
          /\ issued' = issued \union {i}
          /\ requests' = [requests EXCEPT
                ![i] = [status |-> "pending", domain |-> me.domain, group |-> me.group]]
    BY <1>3 DEF InsertRequest
  <2>5. [status |-> "pending", domain |-> me.domain, group |-> me.group] \in RequestRows
    BY <2>1 DEF Asking, RequestRows
  <2>6. requests' \in [Requests -> RequestRows \union {None}] /\ issued' \subseteq Requests
    BY <1>1, <2>4, <2>5 DEF TypeOK, RequestRows
  <2>7. TypeOK'
    BY <1>1, <1>3, <2>6 DEF InsertRequest, TypeOK, RequestRows
  <2> QED BY <2>3, <2>7 DEF DomainInv
<1>4. CASE LoadRequest(h)
  <2> DEFINE row == requests[me.id]
  <2>1. me \in Loading \union Rejecting \union Withdrawing
    BY <1>1, <1>4, AtLoad DEF LoadRequest
  <2>2. me.id \in Requests /\ row \in RequestRows \union {None}
    BY <1>1, <2>1 DEF Loading, Rejecting, Withdrawing, TypeOK, RequestRows
  <2>3. \/ Answer(h)
        \/ \E pc : Then(h, pc) /\ [me EXCEPT !.pc = pc] \in HandlerRecords
        \/ row # None /\ Approve(h, me.id)
    BY <1>1, <1>4, GoesOn DEF LoadRequest
  <2>4. ASSUME row # None, Approve(h, me.id)
        PROVE  handlers' \in [Handlers -> HandlerRecords]
    <3>1. row \in RequestRows
      BY <2>2, <2>4
    <3>2. Rule(row.group, row.domain) \in RuleType /\ row.group \in Groups
      BY <3>1 DEF Rule, RuleType, RequestRows
    <3>3. [pc |-> "insert", call |-> "approve", id |-> me.id, groups |-> {row.group},
           wanted |-> {Rule(row.group, row.domain)}] \in Approving
      BY <2>2, <3>2 DEF Approving
    <3> QED BY <1>1, <2>4, <3>3, PutKeepsType DEF Approve, HandlerRecords, Ruling
  <2>5. handlers' \in [Handlers -> HandlerRecords]
    BY <1>1, <2>3, <2>4, AnswerKeepsType, GoesOnKeepsType
  <2>6. TypeOK'
    BY <1>1, <1>4 DEF LoadRequest, TypeOK
  <2> QED BY <2>5, <2>6 DEF DomainInv
<1>5. CASE Resolve(h)
  <2>1. handlers' \in [Handlers -> HandlerRecords]
    BY <1>1, <1>5, AnswerKeepsType DEF Resolve
  <2>2. me \in Approving \union Rejecting
    BY <1>1, <1>5, AtResolve DEF Resolve
  <2>3. PICK status \in {"approved", "rejected"} :
          requests' = [requests EXCEPT
             ![me.id] = IF @ = None THEN None ELSE [@ EXCEPT !.status = status]]
    BY <1>5 DEF Resolve
  <2>4. me.id \in Requests
    BY <2>2 DEF Approving, Rejecting
  <2>5. requests[me.id] \in RequestRows =>
          [requests[me.id] EXCEPT !.status = status] \in RequestRows
    BY DEF RequestRows
  <2>6. requests' \in [Requests -> RequestRows \union {None}]
    BY <1>1, <2>3, <2>4, <2>5 DEF TypeOK, RequestRows
  <2>7. TypeOK'
    BY <1>1, <1>5, <2>6 DEF Resolve, TypeOK, RequestRows
  <2> QED BY <2>1, <2>7 DEF DomainInv
<1>6. CASE Withdraw(h)
  <2>1. handlers' \in [Handlers -> HandlerRecords]
    BY <1>1, <1>6, AnswerKeepsType DEF Withdraw
  <2>2. TypeOK'
    BY <1>1, <1>6 DEF Withdraw, TypeOK
  <2> QED BY <2>1, <2>2 DEF DomainInv
<1> QED BY <1>2, <1>3, <1>4, <1>5, <1>6

LEMMA SubscriptionsKeepType ==
  ASSUME DomainRulesAssumption, DomainInv, NEW h \in Handlers,
         Replace(h) \/ Subscribe(h) \/ Unsubscribe(h) \/ Push(h) \/ Prune(h)
  PROVE  DomainInv'
<1> DEFINE me == handlers[h]
<1>1. /\ handlers \in [Handlers -> HandlerRecords] /\ me \in HandlerRecords
      /\ TypeOK
  BY DEF DomainInv
<1>2. CASE Replace(h)
  <2>2. Then(h, "subscribe") /\ [me EXCEPT !.pc = "subscribe"] \in HandlerRecords
    BY <1>1, <1>2, GoesOn DEF Replace
  <2>3. handlers' \in [Handlers -> HandlerRecords]
    BY <1>1, <2>2, GoesOnKeepsType
  <2>5. TypeOK'
    BY <1>1, <1>2 DEF Replace, TypeOK
  <2> QED BY <2>3, <2>5 DEF DomainInv
<1>3. CASE Subscribe(h)
  <2>1. handlers' \in [Handlers -> HandlerRecords]
    BY <1>1, <1>3, AnswerKeepsType DEF Subscribe
  <2>2. me.row \in SubscriptionRows
    BY <1>1, <1>3, AtSubscribe DEF Subscribe, Subscribing
  <2>3. TypeOK'
    BY <1>1, <1>3, <2>2 DEF Subscribe, TypeOK, SubscriptionRows
  <2> QED BY <2>1, <2>3 DEF DomainInv
<1>4. CASE Unsubscribe(h)
  <2>1. handlers' \in [Handlers -> HandlerRecords]
    BY <1>1, <1>4, AnswerKeepsType DEF Unsubscribe
  <2>2. me.endpoint \in Endpoints
    BY <1>1, <1>4, AtUnsubscribe DEF Unsubscribe, Unsubscribing
  <2>3. TypeOK'
    BY <1>1, <1>4, <2>2 DEF Unsubscribe, TypeOK
  <2> QED BY <2>1, <2>3 DEF DomainInv
<1>5. CASE Push(h)
  <2>1. me \in Telling
    BY <1>1, <1>5, AtPush DEF Push
  <2>2. PICK gone \in SUBSET Subscribers(me.group) :
           /\ pushed' = pushed \union
                {[user |-> subscriptions[e].user, group |-> me.group] :
                   e \in Subscribers(me.group) \ gone}
           /\ IF gone = {} THEN Answer(h)
              ELSE Put(h, [pc |-> "prune", call |-> me.call, gone |-> gone])
    BY <1>5 DEF Push
  <2>3. [pc |-> "prune", call |-> me.call, gone |-> gone] \in HandlerRecords
    BY <2>1, <2>2 DEF Subscribers, Telling, Pruning, HandlerRecords, Requesting
  <2>4. handlers' \in [Handlers -> HandlerRecords]
    BY <1>1, <2>2, <2>3, AnswerKeepsType, PutKeepsType
  <2>5. \A e \in Subscribers(me.group) : subscriptions[e].user \in Users
    BY <1>1 DEF Subscribers, TypeOK
  <2>6. me.group \in Groups
    BY <2>1 DEF Telling
  <2>7. {[user |-> subscriptions[e].user, group |-> me.group] : e \in Subscribers(me.group) \ gone}
          \subseteq [user : Users, group : Groups]
    BY <2>5, <2>6
  <2>8. TypeOK'
    BY <1>1, <1>5, <2>2, <2>7 DEF Push, TypeOK
  <2> QED BY <2>4, <2>8 DEF DomainInv
<1>6. CASE Prune(h)
  <2>1. me \in Pruning
    BY <1>1, <1>6, AtPrune DEF Prune
  <2>2. PICK e \in me.gone :
           /\ subscriptions' = [subscriptions EXCEPT ![e] = None]
           /\ IF me.gone = {e} THEN Answer(h)
              ELSE handlers' = [handlers EXCEPT ![h].gone = @ \ {e}]
    BY <1>6 DEF Prune
  <2>3. [me EXCEPT !.gone = me.gone \ {e}] \in HandlerRecords
    BY <2>1 DEF Pruning, HandlerRecords, Requesting
  <2>4. handlers' = [handlers EXCEPT ![h].gone = @ \ {e}] =>
          Put(h, [me EXCEPT !.gone = me.gone \ {e}])
    BY DEF Put
  <2>5. handlers' \in [Handlers -> HandlerRecords]
    BY <1>1, <2>2, <2>3, <2>4, AnswerKeepsType, PutKeepsType
  <2>6. TypeOK'
    BY <1>1, <1>6, <2>2 DEF Prune, TypeOK
  <2> QED BY <2>5, <2>6 DEF DomainInv
<1> QED BY <1>2, <1>3, <1>4, <1>5, <1>6

LEMMA FailKeepsType ==
  ASSUME DomainRulesAssumption, DomainInv, NEW h \in Handlers, Fail(h)
  PROVE  DomainInv'
<1>1. handlers' \in [Handlers -> HandlerRecords]
  BY AnswerKeepsType DEF Fail, DomainInv
<1>2. faults' \in 0 .. MaxFaults
  BY DEF Fail, DomainInv, TypeOK, DomainRulesAssumption
<1>3. TypeOK'
  BY <1>2 DEF Fail, DomainInv, TypeOK
<1> QED BY <1>1, <1>3 DEF DomainInv

LEMMA StepKeepsType ==
  ASSUME DomainRulesAssumption, DomainInv, [Next]_vars
  PROVE  DomainInv'
<1>1. CASE Next
  <2>1. PICK h \in Handlers : Start(h) \/ Run(h) \/ Fail(h)
    BY <1>1 DEF Next
  <2>2. CASE Run(h)
    BY <2>2, RulesKeepType, RequestsKeepType, SubscriptionsKeepType DEF Run
  <2> QED BY <2>1, <2>2, StartKeepsType, FailKeepsType
<1>2. CASE UNCHANGED vars
  BY <1>2 DEF vars, DomainInv, TypeOK
<1> QED BY <1>1, <1>2

\* The tables and the handlers keep their types.
THEOREM DomainRulesTyped == DomainRulesAssumption => (Spec => []DomainInv)
<1> SUFFICES ASSUME DomainRulesAssumption PROVE Spec => []DomainInv
  OBVIOUS
<1>1. DomainInv /\ [Next]_vars => DomainInv'
  BY StepKeepsType
<1> QED BY <1>1, InitTyped, PTL DEF Spec

-----------------------------------------------------------------------------
(* Publishing *)

\* A handler that is about to touch the group, or to notify it.
Touching(g) == \E h \in Handlers : handlers[h].pc = "touch" /\ g \in handlers[h].groups
Notifying(g) ==
  \E h \in Handlers : handlers[h].pc \in {"touch", "notify"} /\ g \in handlers[h].groups

\* Whatever the agents of a group were not given yet, some handler will give them.
Owed ==
  faults = 0 => \A g \in Groups : /\ "stamp" \in behind[g] => Touching(g)
                                  /\ "event" \in behind[g] => Notifying(g)

\* A handler that has read the rows it is to write knows their groups, and no new
\* row takes the place of one of them.
GroupsKnown ==
  \A h \in Handlers : \A i \in Named(h) :
    handlers[h].pc # "find" /\ rules[i] # None => rules[i].group \in handlers[h].groups

\* One handler moves at a time.
LEMMA OthersStay ==
  ASSUME DomainInv, NEW h \in Handlers, Start(h) \/ Run(h) \/ Fail(h)
  PROVE  \A k \in Handlers \ {h} : handlers'[k] = handlers[k]
<1>1. handlers \in [Handlers -> HandlerRecords]
  BY DEF DomainInv
<1>2. CASE Start(h)
  BY <1>1, <1>2 DEF Start, Begin, Put
<1>3. CASE Run(h)
  BY <1>1, <1>3 DEF Run, Put, Answer, Then, Approve, InsertRules, FindRule, FindDuplicate, UpdateRule,
     DeleteRule, BulkDelete,
     UpdateGroup, Touch, Notify, Look, InsertRequest, LoadRequest, Resolve, Withdraw, Replace,
     Subscribe, Unsubscribe, Push, Prune
<1>4. CASE Fail(h)
  BY <1>1, <1>4 DEF Fail, Answer, Put
<1> QED BY <1>2, <1>3, <1>4

\* A handler that publishes nothing, and is not about to, leaves what is owed.
LEMMA OwedStays ==
  ASSUME DomainInv, Owed, NEW h \in Handlers, UNCHANGED <<behind, faults>>,
         \A k \in Handlers \ {h} : handlers'[k] = handlers[k],
         handlers[h].pc \notin {"touch", "notify"}
  PROVE  Owed'
<1>1. \A g \in Groups : (Touching(g) => Touching(g)') /\ (Notifying(g) => Notifying(g)')
  BY DEF Touching, Notifying
<1> QED BY <1>1 DEF Owed

LEMMA StartOwes ==
  ASSUME DomainRulesAssumption, DomainInv, Owed, NEW h \in Handlers, Start(h)
  PROVE  Owed'
<1>1. handlers \in [Handlers -> HandlerRecords] /\ \A k \in Handlers \ {h} : handlers'[k] = handlers[k]
  BY OthersStay DEF DomainInv
<1>2. handlers[h].pc = "idle" /\ UNCHANGED <<behind, faults>>
  BY DEF Start, Idle
<1>3. handlers[h].pc \notin {"touch", "notify"}
  BY <1>2
<1> QED BY <1>1, <1>2, <1>3, OwedStays

LEMMA RequestsOwe ==
  ASSUME DomainRulesAssumption, DomainInv, Owed, NEW h \in Handlers,
         Look(h) \/ InsertRequest(h) \/ LoadRequest(h) \/ Resolve(h) \/ Withdraw(h)
           \/ Replace(h) \/ Subscribe(h) \/ Unsubscribe(h) \/ Push(h) \/ Prune(h)
  PROVE  Owed'
<1>1. handlers[h] \in HandlerRecords /\ handlers \in [Handlers -> HandlerRecords]
  BY DEF DomainInv
<1>2. \A k \in Handlers \ {h} : handlers'[k] = handlers[k]
  BY OthersStay DEF Run
<1>3. UNCHANGED <<behind, faults>> /\ handlers[h].pc \notin {"touch", "notify"}
  BY DEF Look, InsertRequest, LoadRequest, Resolve, Withdraw, Replace, Subscribe, Unsubscribe,
     Push, Prune
<1> QED BY <1>2, <1>3, OwedStays

LEMMA FailOwes ==
  ASSUME DomainRulesAssumption, DomainInv, Owed, NEW h \in Handlers, Fail(h)
  PROVE  Owed'
<1>1. faults' # 0
  BY DEF Fail, DomainInv, TypeOK, DomainRulesAssumption
<1> QED BY <1>1 DEF Owed

\* A handler that goes on to publish still knows the groups of its call.
LEMMA GroupsStay ==
  ASSUME DomainInv, NEW h \in Handlers, NEW pc, Then(h, pc), handlers[h] \in Ruling
  PROVE  handlers'[h].pc = pc /\ handlers'[h].groups = handlers[h].groups
<1>1. handlers'[h] = [handlers[h] EXCEPT !.pc = pc]
  BY DEF DomainInv, Then
<1> QED BY <1>1 DEF Ruling, Creating, Approving, Updating, Deleting, BulkDeleting, Switching

\* A change is owed to the agents by the handler that made it.
LEMMA ChangeOwes ==
  ASSUME DomainInv, Owed, NEW h \in Handlers, NEW gs \in SUBSET handlers[h].groups,
         Changed(gs), UNCHANGED faults, handlers[h] \in Ruling,
         handlers[h].pc \notin {"touch", "notify"}, Then(h, "touch"),
         \A k \in Handlers \ {h} : handlers'[k] = handlers[k]
  PROVE  Owed'
<1>1. handlers'[h].pc = "touch" /\ handlers'[h].groups = handlers[h].groups
  BY GroupsStay
<1>2. ASSUME faults = 0, NEW g \in Groups
      PROVE  /\ ("stamp" \in behind[g])' => Touching(g)'
             /\ ("event" \in behind[g])' => Notifying(g)'
  <2>1. CASE g \in gs
    BY <1>1, <2>1 DEF Touching, Notifying
  <2>2. CASE g \notin gs
    <3>1. behind'[g] = behind[g]
      BY <2>2 DEF Changed
    <3>2. (Touching(g) => Touching(g)') /\ (Notifying(g) => Notifying(g)')
      BY DEF Touching, Notifying
    <3> QED BY <1>2, <3>1, <3>2 DEF Owed
  <2> QED BY <2>1, <2>2
<1> QED BY <1>2 DEF Owed

LEMMA RulesOwe ==
  ASSUME DomainRulesAssumption, DomainInv, Owed, GroupsKnown, NEW h \in Handlers,
         InsertRules(h) \/ FindRule(h) \/ FindDuplicate(h) \/ UpdateRule(h) \/ DeleteRule(h)
           \/ BulkDelete(h) \/ UpdateGroup(h)
  PROVE  Owed'
<1> DEFINE me == handlers[h]
<1>1. handlers \in [Handlers -> HandlerRecords] /\ me \in HandlerRecords
  BY DEF DomainInv
<1>2. \A k \in Handlers \ {h} : handlers'[k] = handlers[k]
  BY OthersStay DEF Run
<1>3. ASSUME UNCHANGED <<behind, faults>>, me.pc \notin {"touch", "notify"}
      PROVE  Owed'
  BY <1>2, <1>3, OwedStays
<1>4. CASE InsertRules(h)
  <2>1. me \in Ruling /\ me.pc \notin {"touch", "notify"} /\ UNCHANGED faults
    BY <1>1, <1>4, AtInsert DEF InsertRules, Ruling
  <2>2. CASE me.wanted \ Allowed = {}
    BY <1>3, <1>4, <2>1, <2>2 DEF InsertRules
  <2>3. CASE me.wanted \ Allowed # {}
    <3>1. Changed(me.groups) /\ Then(h, "touch")
      BY <1>4, <2>3 DEF InsertRules, Publishes
    <3> QED BY <1>2, <2>1, <3>1, ChangeOwes
  <2> QED BY <2>2, <2>3
<1>9. CASE FindRule(h) \/ FindDuplicate(h)
  BY <1>3, <1>9 DEF FindRule, FindDuplicate
<1>5. CASE UpdateRule(h) \/ DeleteRule(h)
  <2>1. me \in Updating \union Deleting /\ me.pc \in {"update_rule", "delete_rule"}
        /\ UNCHANGED faults
    BY <1>1, <1>5, AtUpdate DEF UpdateRule, DeleteRule
  <2>2. me.rule \in Named(h) /\ me \in Ruling
    BY <2>1 DEF Named, Updating, Deleting, Idle, Ruling
  <2>3. CASE UNCHANGED behind
    BY <1>3, <2>1, <2>3
  <2>4. CASE rules[me.rule] # None /\ Changed({rules[me.rule].group}) /\ Then(h, "touch")
    <3>1. {rules[me.rule].group} \in SUBSET me.groups
      BY <2>1, <2>2, <2>4 DEF GroupsKnown
    <3> QED BY <1>2, <2>1, <2>2, <2>4, <3>1, ChangeOwes
  <2> QED BY <1>5, <2>3, <2>4 DEF UpdateRule, DeleteRule
<1>7. CASE BulkDelete(h)
  <2>1. me \in Ruling /\ me \in BulkDeleting /\ me.pc = "bulk_delete" /\ UNCHANGED faults
    BY <1>1, <1>7, AtBulkDelete DEF BulkDelete, Ruling
  <2> DEFINE gone == {rules[i].group : i \in {j \in me.rules : rules[j] # None}}
  <2>2. gone \in SUBSET me.groups
    <3>1. \A i \in me.rules : i \in Named(h)
      BY <2>1 DEF Named, BulkDeleting, Idle
    <3> QED BY <2>1, <3>1 DEF GroupsKnown
  <2>3. Changed(gone) /\ Then(h, "touch")
    BY <1>7 DEF BulkDelete
  <2> QED BY <1>2, <2>1, <2>2, <2>3, ChangeOwes
<1>8. CASE UpdateGroup(h)
  <2>1. me \in Ruling /\ me.pc = "update_group" /\ UNCHANGED faults /\ Then(h, "notify")
    BY <1>1, <1>8, AtUpdateGroup DEF UpdateGroup, Ruling
  <2>2. handlers'[h].pc = "notify" /\ handlers'[h].groups = me.groups
    BY <2>1, GroupsStay
  <2>3. PICK c \in me.groups : behind' = [behind EXCEPT ![c] = @ \union {"event"}]
    BY <1>8 DEF UpdateGroup
  <2>4. behind \in [Groups -> SUBSET {"stamp", "event"}]
    BY DEF DomainInv, TypeOK
  <2>5. ASSUME faults = 0, NEW g \in Groups
        PROVE  /\ ("stamp" \in behind[g])' => Touching(g)'
               /\ ("event" \in behind[g])' => Notifying(g)'
    <3>1. (Touching(g) => Touching(g)') /\ (Notifying(g) => Notifying(g)')
      BY <1>2, <2>1 DEF Touching, Notifying
    <3>2. "stamp" \in behind'[g] => "stamp" \in behind[g]
      BY <2>3, <2>4
    <3>3. "event" \in behind'[g] => "event" \in behind[g] \/ g = c
      BY <2>3, <2>4
    <3>4. g = c => Notifying(g)'
      BY <2>2, <2>3 DEF Notifying
    <3> QED BY <2>5, <3>1, <3>2, <3>3, <3>4 DEF Owed
  <2> QED BY <2>1, <2>5 DEF Owed
<1> QED BY <1>4, <1>5, <1>7, <1>8, <1>9

\* Touching and notifying pay what is owed to the groups of the call.
LEMMA PublishingPays ==
  ASSUME DomainRulesAssumption, DomainInv, Owed, NEW h \in Handlers, Touch(h) \/ Notify(h)
  PROVE  Owed'
<1> DEFINE me == handlers[h]
<1>1. handlers \in [Handlers -> HandlerRecords] /\ me \in HandlerRecords /\ me \in Ruling
  BY AtPublishing DEF DomainInv, Touch, Notify
<1>2. \A k \in Handlers \ {h} : handlers'[k] = handlers[k]
  BY OthersStay DEF Run
<1>3. CASE Touch(h)
  <2>1. me.pc = "touch" /\ handlers'[h].pc = "notify" /\ handlers'[h].groups = me.groups
    BY <1>1, <1>3, GroupsStay DEF Touch
  <2>2. ASSUME faults = 0, NEW g \in Groups
        PROVE  /\ ("stamp" \in behind[g])' => Touching(g)'
               /\ ("event" \in behind[g])' => Notifying(g)'
    <3>1. "stamp" \in behind'[g] => g \notin me.groups /\ "stamp" \in behind[g]
      BY <1>3 DEF Touch
    <3>2. "event" \in behind'[g] => "event" \in behind[g]
      BY <1>3 DEF Touch
    <3>3. g \notin me.groups /\ Touching(g) => Touching(g)'
      BY <1>2 DEF Touching
    <3>4. Notifying(g) => Notifying(g)'
      BY <1>2, <2>1 DEF Notifying
    <3> QED BY <2>2, <3>1, <3>2, <3>3, <3>4 DEF Owed
  <2> QED BY <1>3, <2>2 DEF Owed, Touch
<1>4. CASE Notify(h)
  <2>1. me.pc = "notify"
    BY <1>4 DEF Notify
  <2>2. ASSUME faults = 0, NEW g \in Groups
        PROVE  /\ ("stamp" \in behind[g])' => Touching(g)'
               /\ ("event" \in behind[g])' => Notifying(g)'
    <3>1. "stamp" \in behind'[g] => "stamp" \in behind[g]
      BY <1>4 DEF Notify
    <3>2. "event" \in behind'[g] => g \notin me.groups /\ "event" \in behind[g]
      BY <1>4 DEF Notify
    <3>3. Touching(g) => Touching(g)'
      BY <1>2, <2>1 DEF Touching
    <3>4. g \notin me.groups /\ Notifying(g) => Notifying(g)'
      BY <1>2 DEF Notifying
    <3> QED BY <2>2, <3>1, <3>2, <3>3, <3>4 DEF Owed
  <2> QED BY <1>4, <2>2 DEF Owed, Notify
<1> QED BY <1>3, <1>4

\* A row stays what it is, or in its group, unless its identifier was free.
LEMMA RowsMove ==
  ASSUME DomainInv, NEW h \in Handlers, Start(h) \/ Run(h) \/ Fail(h), NEW i \in RuleIds
  PROVE  \/ rules'[i] = None \/ i \in Fresh
         \/ rules[i] # None /\ rules'[i].group = rules[i].group
<1>1. rules \in [RuleIds -> RuleType \union {None}]
  BY DEF DomainInv, TypeOK
<1>2. CASE InsertRules(h)
  BY <1>1, <1>2 DEF InsertRules
<1>3. CASE UpdateRule(h)
  BY <1>1, <1>3 DEF UpdateRule, Rule
<1>4. CASE DeleteRule(h) \/ BulkDelete(h)
  BY <1>1, <1>4 DEF DeleteRule, BulkDelete
<1>5. CASE UNCHANGED rules
  BY <1>5
<1>6. UNCHANGED rules \/ InsertRules(h) \/ UpdateRule(h) \/ DeleteRule(h) \/ BulkDelete(h)
  BY DEF Start, Run, Fail, FindRule, FindDuplicate, UpdateGroup, Touch, Notify, Look, InsertRequest,
     LoadRequest, Resolve, Withdraw, Replace, Subscribe, Unsubscribe, Push, Prune
<1> QED BY <1>2, <1>3, <1>4, <1>5, <1>6

\* A handler past the reading of its rows names no others, and keeps their groups.
LEMMA NamedStay ==
  ASSUME DomainInv, NEW h \in Handlers, Run(h), ~FindRule(h), NEW i \in Named(h)'
  PROVE  i \in Named(h) /\ handlers'[h].groups = handlers[h].groups /\ handlers[h].pc # "find"
<1> DEFINE me == handlers[h]
           on == handlers'[h]
<1>1. handlers \in [Handlers -> HandlerRecords] /\ me \in HandlerRecords
  BY DEF DomainInv
<1>2. /\ i \in RuleIds /\ on # Idle
      /\ \/ on.call \in {"update_rule", "delete_rule"} /\ i = on.rule
         \/ on.call = "bulk_delete" /\ i \in on.rules
  BY DEF Named
<1>3. ~Answer(h)
  BY <1>1, <1>2 DEF Answer, Put
<1>4. CASE InsertRequest(h) \/ Push(h) \/ Prune(h)
  <2>1. me.call = "request" /\ "call" \in DOMAIN me
    BY <1>1, <1>4, AtRequest, AtPush, AtPrune DEF InsertRequest, Push, Prune, Asking, Telling, Pruning
  <2>2. on.call = me.call
    BY <1>1, <1>3, <1>4, <2>1 DEF InsertRequest, Push, Prune, Put
  <2> QED BY <1>2, <2>1, <2>2
<1>5. CASE LoadRequest(h) /\ Approve(h, me.id)
  BY <1>1, <1>2, <1>5 DEF Approve, Put
<1>6. CASE me # Idle /\ me.pc # "find" /\ \E pc : Then(h, pc)
  <2>1. PICK pc : on = [me EXCEPT !.pc = pc]
    BY <1>1, <1>6 DEF Then
  <2>2. "call" \in DOMAIN me
    BY <1>1, <1>6 DEF HandlerRecords, Ruling, Requesting, Creating, Approving, Updating, Deleting,
         BulkDeleting, Switching, Asking, Telling, Pruning, Loading, Rejecting, Withdrawing,
         Subscribing, Unsubscribing
  <2>3. on.call = me.call
    BY <2>1, <2>2
  <2>4. me \in Updating \union Deleting \union BulkDeleting
    BY <1>1, <1>2, <1>6, <2>3 DEF HandlerRecords, Ruling, Requesting, Creating, Approving, Switching,
         Asking, Telling, Pruning, Loading, Rejecting, Withdrawing, Subscribing, Unsubscribing
  <2>5. CASE me \in Updating \union Deleting
    BY <1>2, <1>6, <2>1, <2>3, <2>5 DEF Named, Updating, Deleting
  <2>6. CASE me \in BulkDeleting
    BY <1>2, <1>6, <2>1, <2>3, <2>6 DEF Named, BulkDeleting
  <2> QED BY <2>4, <2>5, <2>6
<1>7. \/ InsertRequest(h) \/ Push(h) \/ Prune(h)
      \/ LoadRequest(h) /\ Approve(h, me.id)
      \/ me # Idle /\ me.pc # "find" /\ \E pc : Then(h, pc)
  BY <1>3 DEF Run, InsertRules, FindDuplicate, UpdateRule, DeleteRule, BulkDelete, UpdateGroup, Touch,
     Notify, Look, LoadRequest, Resolve, Withdraw, Replace, Subscribe, Unsubscribe, Idle
<1> QED BY <1>4, <1>5, <1>6, <1>7

LEMMA StepKnows ==
  ASSUME DomainRulesAssumption, DomainInv, GroupsKnown, [Next]_vars
  PROVE  GroupsKnown'
<1>1. handlers \in [Handlers -> HandlerRecords]
  BY DEF DomainInv
<1>2. CASE UNCHANGED vars
  BY <1>2 DEF vars, GroupsKnown, Named
<1>3. CASE Next
  <2>1. PICK h \in Handlers : Start(h) \/ Run(h) \/ Fail(h)
    BY <1>3 DEF Next
  <2> SUFFICES ASSUME NEW k \in Handlers, NEW i \in Named(k)', handlers'[k].pc # "find",
                      rules'[i] # None
               PROVE  rules'[i].group \in handlers'[k].groups
    BY DEF GroupsKnown
  <2>2. i \in RuleIds
    BY DEF Named
  <2>3. ASSUME i \in Named(k), handlers'[k].groups = handlers[k].groups, handlers[k].pc # "find"
        PROVE  rules'[i].group \in handlers'[k].groups
    <3>1. i \notin Fresh
      BY <2>3 DEF Fresh
    <3>2. rules[i] # None /\ rules'[i].group = rules[i].group
      BY <2>1, <2>2, <3>1, RowsMove
    <3> QED BY <2>3, <3>2 DEF GroupsKnown
  <2>4. CASE k # h
    <3>1. handlers'[k] = handlers[k]
      BY <2>1, <2>4, OthersStay
    <3> QED BY <2>3, <3>1 DEF Named
  <2>5. CASE k = h /\ Run(h) /\ ~FindRule(h)
    BY <2>3, <2>5, NamedStay
  <2>6. CASE k = h /\ FindRule(h)
    <3> DEFINE me == handlers[h]
    <3>1. me \in Updating \union Deleting /\ UNCHANGED rules
      BY <1>1, <2>6, AtUpdate DEF FindRule
    <3>2. /\ handlers'[h] # Idle
          /\ \/ handlers'[h].call \in {"update_rule", "delete_rule"} /\ i = handlers'[h].rule
             \/ handlers'[h].call = "bulk_delete" /\ i \in handlers'[h].rules
      BY <2>6 DEF Named
    <3>3. ~Answer(h)
      BY <1>1, <3>2 DEF Answer, Put
    <3>4. rules[me.rule].group \in me.groups /\ \E pc : handlers'[h] = [me EXCEPT !.pc = pc]
      BY <1>1, <2>6, <3>3 DEF FindRule, Then
    <3>5. i = me.rule /\ handlers'[h].groups = me.groups
      BY <3>1, <3>2, <3>4 DEF Updating, Deleting
    <3> QED BY <2>6, <3>1, <3>4, <3>5
  <2>7. CASE k = h /\ Fail(h)
    BY <1>1, <2>7 DEF Fail, Answer, Put, Named
  <2>8. CASE k = h /\ Start(h)
    <3>1. /\ handlers'[h] # Idle
          /\ \/ handlers'[h].call \in {"update_rule", "delete_rule"} /\ i = handlers'[h].rule
             \/ handlers'[h].call = "bulk_delete" /\ i \in handlers'[h].rules
      BY <2>8 DEF Named
    <3>2. \E is \in SUBSET RuleIds :
            handlers'[h] = [pc |-> "bulk_delete", call |-> "bulk_delete", rules |-> is,
                            groups |-> {rules[j].group : j \in is}]
      <4>1. PICK u \in Users, call \in CallsOf[h] : Begin(h, u, call)
        BY <2>8 DEF Start
      <4>2. CASE call = "bulk_delete"
        <5>1. PICK is \in SUBSET {j \in RuleIds : rules[j] # None} :
                 Put(h, [pc |-> "bulk_delete", call |-> call,
                         rules |-> {j \in is : rules[j].group \in Accessible(u)},
                         groups |-> {rules[j].group : j \in {l \in is : rules[l].group \in Accessible(u)}}])
          BY <4>1, <4>2 DEF Begin
        <5> QED BY <1>1, <4>2, <5>1 DEF Put
      <4>3. CASE call \in {"update_rule", "delete_rule"}
        <5>1. handlers'[h].pc = "find"
          BY <1>1, <4>1, <4>3 DEF Begin, Put
        <5> QED BY <2>8, <5>1
      <4>4. CASE call \notin {"update_rule", "delete_rule", "bulk_delete"}
        <5>1. handlers'[h].call = call
          BY <1>1, <4>1, <4>4 DEF Begin, Put
        <5> QED BY <3>1, <4>4, <5>1
      <4> QED BY <4>2, <4>3, <4>4
    <3>3. UNCHANGED rules
      BY <2>8 DEF Start
    <3> QED BY <2>8, <3>1, <3>2, <3>3
  <2> QED BY <2>1, <2>4, <2>5, <2>6, <2>7, <2>8
<1> QED BY <1>2, <1>3

LEMMA StepOwes ==
  ASSUME DomainRulesAssumption, DomainInv, Owed, GroupsKnown, [Next]_vars
  PROVE  Owed'
<1>1. CASE Next
  <2>1. PICK h \in Handlers : Start(h) \/ Run(h) \/ Fail(h)
    BY <1>1 DEF Next
  <2>2. CASE Run(h)
    BY <2>2, RulesOwe, PublishingPays, RequestsOwe DEF Run
  <2> QED BY <2>1, <2>2, StartOwes, FailOwes
<1>2. CASE UNCHANGED vars
  <2>1. \A g \in Groups : (Touching(g) => Touching(g)') /\ (Notifying(g) => Notifying(g)')
    BY <1>2 DEF Touching, Notifying, vars
  <2> QED BY <1>2, <2>1 DEF Owed, vars
<1> QED BY <1>1, <1>2

\* Unless a statement failed, the agents of every group have been given both the
\* stamp and the event of its last change once no request is under way.
THEOREM ChangesPublished == DomainRulesAssumption => (Spec => []RulesPublished)
<1> SUFFICES ASSUME DomainRulesAssumption PROVE Spec => []RulesPublished
  OBVIOUS
<1>1. Init => Owed /\ GroupsKnown
  BY DEF Init, Owed, GroupsKnown, Named
<1>2. DomainInv /\ Owed /\ GroupsKnown /\ [Next]_vars => Owed' /\ GroupsKnown'
  BY StepOwes, StepKnows
<1>3. DomainInv /\ Owed => RulesPublished
  <2> SUFFICES ASSUME DomainInv, Owed, faults = 0, \A h \in Handlers : handlers[h] = Idle,
                      NEW g \in Groups
               PROVE  behind[g] = {}
    BY DEF RulesPublished
  <2>1. ~Touching(g) /\ ~Notifying(g)
    BY DEF Touching, Notifying, Idle
  <2>2. behind[g] \subseteq {"stamp", "event"}
    BY DEF DomainInv, TypeOK
  <2> QED BY <2>1, <2>2 DEF Owed
<1>4. Spec => []DomainInv
  BY DomainRulesTyped
<1> QED BY <1>1, <1>2, <1>3, <1>4, PTL DEF Spec

-----------------------------------------------------------------------------
(* Notifications *)

\* What a subscription asks for, and what a handler is about to write as one,
\* are groups of the teacher it belongs to.
OwnRows ==
  /\ \A e \in Endpoints : subscriptions[e] # None =>
       subscriptions[e].groups \subseteq Accessible(subscriptions[e].user)
  /\ \A h \in Handlers : handlers[h].pc \in {"replace", "subscribe"} =>
       handlers[h].row.groups \subseteq Accessible(handlers[h].row.user)
  /\ ToldOfOwnGroups

\* Handlers that neither subscribe nor push leave subscriptions as they were, or
\* remove them.
LEMMA OwnRowsStay ==
  ASSUME DomainInv, OwnRows, NEW h \in Handlers, UNCHANGED pushed,
         \A e \in Endpoints : subscriptions'[e] \in {subscriptions[e], None},
         \A k \in Handlers \ {h} : handlers'[k] = handlers[k],
         handlers'[h].pc \notin {"replace", "subscribe"}
  PROVE  OwnRows'
BY DEF OwnRows, ToldOfOwnGroups, Accessible

LEMMA StepOwnRows ==
  ASSUME DomainRulesAssumption, DomainInv, OwnRows, [Next]_vars
  PROVE  OwnRows'
<1>1. handlers \in [Handlers -> HandlerRecords] /\ TypeOK
  BY DEF DomainInv
<1>2. ASSUME NEW h \in Handlers, Start(h)
      PROVE  OwnRows'
  <2>1. UNCHANGED <<subscriptions, pushed>> /\ \A k \in Handlers \ {h} : handlers'[k] = handlers[k]
    BY <1>2, OthersStay DEF Start
  <2>2. handlers'[h].pc \in {"replace", "subscribe"} =>
          handlers'[h].row.groups \subseteq Accessible(handlers'[h].row.user)
    BY <1>1, <1>2 DEF Start, Begin, Put
  <2> QED BY <2>1, <2>2 DEF OwnRows, ToldOfOwnGroups, Accessible
<1>3. ASSUME NEW h \in Handlers,
             \/ InsertRules(h) \/ FindRule(h) \/ FindDuplicate(h) \/ UpdateRule(h) \/ DeleteRule(h)
             \/ BulkDelete(h) \/ UpdateGroup(h) \/ Touch(h) \/ Notify(h)
             \/ Look(h) \/ InsertRequest(h) \/ LoadRequest(h) \/ Resolve(h) \/ Withdraw(h)
      PROVE  OwnRows'
  <2>1. /\ UNCHANGED <<subscriptions, pushed>>
        /\ \A k \in Handlers \ {h} : handlers'[k] = handlers[k]
    BY <1>3, OthersStay DEF Run, InsertRules, FindRule, FindDuplicate, UpdateRule, DeleteRule,
       BulkDelete, UpdateGroup, Touch, Notify, Look, InsertRequest, LoadRequest, Resolve, Withdraw
  <2>2. "pc" \in DOMAIN handlers[h]
    BY <1>1 DEF HandlerRecords, Ruling, Requesting, Idle, Creating, Approving, Updating, Deleting,
         BulkDeleting, Switching, Asking, Telling, Pruning, Loading, Rejecting, Withdrawing,
         Subscribing, Unsubscribing
  <2>3. handlers'[h].pc \notin {"replace", "subscribe"}
    BY <1>1, <1>3, <2>2 DEF InsertRules, FindRule, FindDuplicate, UpdateRule, DeleteRule,
       BulkDelete, UpdateGroup, Touch, Notify, Look, InsertRequest, LoadRequest, Resolve, Withdraw,
          Then, Answer, Put, Idle, Approve
  <2> QED BY <2>1, <2>3, OwnRowsStay
<1>4. ASSUME NEW h \in Handlers, Replace(h)
      PROVE  OwnRows'
  <2>1. UNCHANGED pushed /\ \A k \in Handlers \ {h} : handlers'[k] = handlers[k]
    BY <1>4, OthersStay DEF Replace, Run
  <2>2. handlers[h] \in Subscribing /\ handlers'[h] = [handlers[h] EXCEPT !.pc = "subscribe"]
    BY <1>1, <1>4, AtSubscribe DEF Replace, Then
  <2>3. handlers'[h].row = handlers[h].row /\ handlers[h].pc = "replace"
    BY <1>4, <2>2 DEF Subscribing, Replace
  <2>4. \A e \in Endpoints : subscriptions'[e] \in {subscriptions[e], None}
    BY <1>1, <1>4 DEF Replace, TypeOK
  <2> QED BY <2>1, <2>3, <2>4 DEF OwnRows, ToldOfOwnGroups, Accessible
<1>5. ASSUME NEW h \in Handlers, Subscribe(h)
      PROVE  OwnRows'
  <2> DEFINE me == handlers[h]
  <2>1. UNCHANGED pushed /\ \A k \in Handlers \ {h} : handlers'[k] = handlers[k]
    BY <1>5, OthersStay DEF Subscribe, Run
  <2>2. handlers'[h] = Idle /\ me.pc = "subscribe"
    BY <1>1, <1>5 DEF Subscribe, Answer, Put
  <2>3. me.row.groups \subseteq Accessible(me.row.user)
    BY <2>2 DEF OwnRows
  <2>4. \A e \in Endpoints : subscriptions'[e] \in {subscriptions[e], me.row}
    BY <1>1, <1>5 DEF Subscribe, TypeOK
  <2>5. \A e \in Endpoints : subscriptions'[e] # None =>
          subscriptions'[e].groups \subseteq Accessible(subscriptions'[e].user)
    BY <2>3, <2>4 DEF OwnRows
  <2> QED BY <2>1, <2>2, <2>5 DEF OwnRows, ToldOfOwnGroups, Accessible, Idle
<1>6. ASSUME NEW h \in Handlers, Unsubscribe(h)
      PROVE  OwnRows'
  <2>1. UNCHANGED pushed /\ \A k \in Handlers \ {h} : handlers'[k] = handlers[k]
    BY <1>6, OthersStay DEF Unsubscribe, Run
  <2>2. handlers'[h].pc = "idle"
    BY <1>1, <1>6 DEF Unsubscribe, Answer, Put, Idle
  <2>3. \A e \in Endpoints : subscriptions'[e] \in {subscriptions[e], None}
    BY <1>1, <1>6 DEF Unsubscribe, TypeOK
  <2> QED BY <2>1, <2>2, <2>3, OwnRowsStay
<1>7. ASSUME NEW h \in Handlers, Push(h)
      PROVE  OwnRows'
  <2> DEFINE me == handlers[h]
  <2>1. UNCHANGED subscriptions /\ \A k \in Handlers \ {h} : handlers'[k] = handlers[k]
    BY <1>7, OthersStay DEF Push, Run
  <2>2. handlers'[h].pc \in {"idle", "prune"}
    BY <1>1, <1>7 DEF Push, Answer, Put, Idle
  <2>3. \A n \in pushed' : n \in pushed
          \/ \E e \in Subscribers(me.group) :
               n = [user |-> subscriptions[e].user, group |-> me.group]
    BY <1>7 DEF Push
  <2>4. \A e \in Subscribers(me.group) : me.group \in Accessible(subscriptions[e].user)
    BY DEF Subscribers, OwnRows
  <2>5. \A n \in pushed' : n.group \in Accessible(n.user)
    BY <2>3, <2>4 DEF OwnRows, ToldOfOwnGroups
  <2> QED BY <2>1, <2>2, <2>5 DEF OwnRows, ToldOfOwnGroups, Accessible
<1>8. ASSUME NEW h \in Handlers, Prune(h)
      PROVE  OwnRows'
  <2>1. UNCHANGED pushed /\ \A k \in Handlers \ {h} : handlers'[k] = handlers[k]
    BY <1>8, OthersStay DEF Prune, Run
  <2>2. handlers[h] \in Pruning
    BY <1>1, <1>8, AtPrune DEF Prune
  <2>3. handlers'[h].pc \in {"idle", "prune"}
    BY <1>1, <1>8, <2>2 DEF Prune, Answer, Put, Idle, Pruning
  <2>4. \A e \in Endpoints : subscriptions'[e] \in {subscriptions[e], None}
    BY <1>1, <1>8 DEF Prune, TypeOK
  <2> QED BY <2>1, <2>3, <2>4, OwnRowsStay
<1>9. CASE UNCHANGED vars
  BY <1>9 DEF vars, OwnRows, ToldOfOwnGroups, Accessible
<1>10. ASSUME NEW h \in Handlers, Fail(h)
       PROVE  OwnRows'
  BY <1>1, <1>10, OthersStay DEF Fail, Answer, Put, Idle, OwnRows, ToldOfOwnGroups, Accessible
<1>11. CASE Next
  <2>1. PICK h \in Handlers : Start(h) \/ Run(h) \/ Fail(h)
    BY <1>11 DEF Next
  <2> QED BY <1>2, <1>3, <1>4, <1>5, <1>6, <1>7, <1>8, <1>10, <2>1 DEF Run
<1> QED BY <1>9, <1>11

\* A teacher is only told of requests for groups assigned to them.
THEOREM ToldOfOwn == DomainRulesAssumption => (Spec => []ToldOfOwnGroups)
<1> SUFFICES ASSUME DomainRulesAssumption PROVE Spec => []ToldOfOwnGroups
  OBVIOUS
<1>1. Init => OwnRows
  BY DEF Init, OwnRows, ToldOfOwnGroups, Idle
<1>2. DomainInv /\ OwnRows /\ [Next]_vars => OwnRows'
  BY StepOwnRows
<1>3. OwnRows => ToldOfOwnGroups
  BY DEF OwnRows
<1>4. Spec => []DomainInv
  BY DomainRulesTyped
<1> QED BY <1>1, <1>2, <1>3, <1>4, PTL DEF Spec

-----------------------------------------------------------------------------
(* Approvals *)

\* A handler past the loading of the request it approves.
Applies(h) ==
  handlers[h].pc \in {"insert", "touch", "notify", "resolve"} /\ handlers[h].call = "approve"

\* The request as long as it is there asks for a rule that the handler is about
\* to write, or that is written.
Covers(h) ==
  LET me == handlers[h]
      row == requests[me.id]
  IN  /\ me.id \in issued
      /\ row # None => Rule(row.group, row.domain) \in (IF me.pc = "insert" THEN me.wanted ELSE Allowed)

ApprovalInv ==
  /\ \A i \in Requests : requests[i] # None => i \in issued
  /\ \A h \in Handlers : Applies(h) => Covers(h)
  /\ ApprovedIsAllowed

\* Rows that only come to be withdrawn leave every approval what it covers.
LEMMA CoversStays ==
  ASSUME DomainInv, NEW k \in Handlers, handlers'[k] = handlers[k], Applies(k), Covers(k),
         Allowed \subseteq Allowed', issued \subseteq issued',
         \A i \in issued : requests'[i] # None =>
           /\ requests[i] # None
           /\ requests'[i].group = requests[i].group /\ requests'[i].domain = requests[i].domain
  PROVE  Covers(k)'
BY DEF Covers

\* What a handler inserts is allowed then, and what was allowed stays so.
LEMMA InsertsAllow ==
  ASSUME DomainRulesAssumption, DomainInv, NEW h \in Handlers, InsertRules(h),
         handlers[h].wanted \subseteq RuleType
  PROVE  handlers[h].wanted \subseteq Allowed' /\ Allowed \subseteq Allowed'
<1> DEFINE new == handlers[h].wanted \ Allowed
<1>4. PICK is \in SUBSET Fresh : \E row \in Bijection(is, new) :
         rules' = [i \in RuleIds |-> IF i \in is THEN row[i] ELSE rules[i]]
  BY DEF InsertRules
<1>1. PICK row \in Bijection(is, new) :
         rules' = [i \in RuleIds |-> IF i \in is THEN row[i] ELSE rules[i]]
  BY <1>4
<1>2. Allowed \subseteq Allowed'
  BY <1>1 DEF Allowed, Fresh
<1>3. new \subseteq Allowed'
  <2> SUFFICES ASSUME NEW r \in new PROVE r \in Allowed'
    OBVIOUS
  <2>1. PICK i \in is : row[i] = r
    BY DEF Bijection, Surjection
  <2>2. rules'[i] = r /\ i \in RuleIds
    BY <1>1, <2>1 DEF Fresh
  <2>3. r # None
    BY DEF DomainRulesAssumption, RuleType
  <2> QED BY <2>2, <2>3 DEF Allowed
<1> QED BY <1>2, <1>3

\* A handler that leaves the requests alone, and approves nothing new.
LEMMA ApprovalStays ==
  ASSUME DomainInv, ApprovalInv, NEW h \in Handlers, Allowed \subseteq Allowed',
         UNCHANGED <<requests, issued>>,
         \A k \in Handlers \ {h} : handlers'[k] = handlers[k],
         Applies(h)' => Covers(h)'
  PROVE  ApprovalInv'
<1>1. \A k \in Handlers : Applies(k)' => Covers(k)'
  <2> SUFFICES ASSUME NEW k \in Handlers \ {h}, Applies(k)' PROVE Covers(k)'
    OBVIOUS
  <2>1. Applies(k) /\ Covers(k)
    BY DEF Applies, ApprovalInv
  <2> QED BY <2>1, CoversStays
<1>2. ApprovedIsAllowed'
  BY DEF ApprovalInv, ApprovedIsAllowed, Rule
<1> QED BY <1>1, <1>2 DEF ApprovalInv

LEMMA StepApproves ==
  ASSUME DomainRulesAssumption, DomainInv, ApprovalInv, [Next]_vars, Allowed \subseteq Allowed'
  PROVE  ApprovalInv'
<1>1. handlers \in [Handlers -> HandlerRecords] /\ TypeOK
  BY DEF DomainInv
<1>2. ASSUME NEW h \in Handlers,
             \/ Start(h) \/ Fail(h)
             \/ FindRule(h) \/ FindDuplicate(h) \/ UpdateRule(h) \/ DeleteRule(h) \/ BulkDelete(h)
             \/ UpdateGroup(h) \/ Look(h)
             \/ Replace(h) \/ Subscribe(h) \/ Unsubscribe(h) \/ Push(h) \/ Prune(h)
      PROVE  ApprovalInv'
  <2>1. \A k \in Handlers \ {h} : handlers'[k] = handlers[k]
    BY <1>2, OthersStay DEF Run
  <2>2. UNCHANGED <<requests, issued>>
    BY <1>2 DEF Start, Fail, FindRule, FindDuplicate, UpdateRule, DeleteRule, BulkDelete, UpdateGroup,
       Look, Replace, Subscribe, Unsubscribe, Push, Prune
  <2>3. ~Applies(h)'
    <3>1. CASE Start(h)
      BY <1>1, <3>1 DEF Start, Begin, Put, Applies
    <3>2. CASE Fail(h) \/ Subscribe(h) \/ Unsubscribe(h)
      BY <1>1, <3>2 DEF Fail, Subscribe, Unsubscribe, Answer, Put, Applies, Idle
    <3>3. CASE FindRule(h) \/ FindDuplicate(h) \/ UpdateRule(h) \/ DeleteRule(h)
      <4>1. handlers[h] \in Updating \union Deleting
        BY <1>1, <3>3, AtUpdate DEF FindRule, FindDuplicate, UpdateRule, DeleteRule
      <4> QED BY <1>1, <3>3, <4>1 DEF FindRule, FindDuplicate, UpdateRule, DeleteRule, Answer, Put,
               Then, Applies, Idle, Updating, Deleting
    <3>4. CASE BulkDelete(h)
      <4>1. handlers[h] \in BulkDeleting
        BY <1>1, <3>4, AtBulkDelete DEF BulkDelete
      <4> QED BY <1>1, <3>4, <4>1 DEF BulkDelete, Then, Applies, BulkDeleting
    <3>5. CASE UpdateGroup(h)
      <4>1. handlers[h] \in Switching
        BY <1>1, <3>5, AtUpdateGroup DEF UpdateGroup
      <4> QED BY <1>1, <3>5, <4>1 DEF UpdateGroup, Then, Applies, Switching
    <3>6. CASE Look(h)
      <4>1. handlers[h] \in Asking
        BY <1>1, <3>6, AtRequest DEF Look
      <4> QED BY <1>1, <3>6, <4>1 DEF Look, Answer, Put, Then, Applies, Idle, Asking
    <3>7. CASE Replace(h)
      <4>1. handlers[h] \in Subscribing
        BY <1>1, <3>7, AtSubscribe DEF Replace
      <4> QED BY <1>1, <3>7, <4>1 DEF Replace, Then, Applies, Subscribing
    <3>8. CASE Push(h)
      BY <1>1, <3>8 DEF Push, Answer, Put, Applies, Idle
    <3>9. CASE Prune(h)
      <4>1. handlers[h] \in Pruning
        BY <1>1, <3>9, AtPrune DEF Prune
      <4> QED BY <1>1, <3>9, <4>1 DEF Prune, Answer, Put, Applies, Idle, Pruning
    <3> QED BY <1>2, <3>1, <3>2, <3>3, <3>4, <3>5, <3>6, <3>7, <3>8, <3>9
  <2> QED BY <2>1, <2>2, <2>3, ApprovalStays
<1>3. ASSUME NEW h \in Handlers, InsertRules(h)
      PROVE  ApprovalInv'
  <2> DEFINE me == handlers[h]
  <2>1. \A k \in Handlers \ {h} : handlers'[k] = handlers[k]
    BY <1>3, OthersStay DEF Run
  <2>2. UNCHANGED <<requests, issued>> /\ me.pc = "insert"
    BY <1>3 DEF InsertRules
  <2>3. me \in Creating \union Approving
    BY <1>1, <1>3, AtInsert DEF InsertRules
  <2>4. \/ handlers'[h] = Idle
        \/ \E pc \in {"touch", "resolve"} : handlers'[h] = [me EXCEPT !.pc = pc]
    BY <1>1, <1>3 DEF InsertRules, Answer, Put, Then
  <2>5. Applies(h)' => Applies(h) /\ handlers'[h].id = me.id /\ handlers'[h].pc # "insert"
    BY <2>2, <2>3, <2>4 DEF Applies, Idle, Creating, Approving
  <2>6. me.wanted \subseteq Allowed'
    BY <1>3, <2>3, InsertsAllow DEF Creating, Approving
  <2>7. Applies(h)' => Covers(h)'
    BY <2>2, <2>5, <2>6 DEF ApprovalInv, Covers
  <2> QED BY <2>1, <2>2, <2>7, ApprovalStays
<1>4. ASSUME NEW h \in Handlers, Touch(h) \/ Notify(h)
      PROVE  ApprovalInv'
  <2> DEFINE me == handlers[h]
  <2>1. \A k \in Handlers \ {h} : handlers'[k] = handlers[k]
    BY <1>4, OthersStay DEF Run
  <2>2. UNCHANGED <<requests, issued, rules>> /\ me.pc \in {"touch", "notify"}
    BY <1>4 DEF Touch, Notify
  <2>3. me \in Ruling
    BY <1>1, <2>2, AtPublishing
  <2>4. \/ handlers'[h] = Idle
        \/ \E pc \in {"notify", "resolve"} : handlers'[h] = [me EXCEPT !.pc = pc]
    BY <1>1, <1>4 DEF Touch, Notify, Answer, Put, Then
  <2>5. Applies(h)' => Applies(h) /\ handlers'[h].id = me.id /\ handlers'[h].pc # "insert"
    BY <2>2, <2>3, <2>4 DEF Applies, Idle, Ruling, Creating, Approving, Updating, Deleting,
       BulkDeleting, Switching
  <2>6. Applies(h)' => Covers(h)'
    BY <2>2, <2>5 DEF ApprovalInv, Covers, Allowed
  <2> QED BY <2>1, <2>2, <2>6, ApprovalStays
<1>5. ASSUME NEW h \in Handlers, LoadRequest(h)
      PROVE  ApprovalInv'
  <2> DEFINE me == handlers[h]
             row == requests[me.id]
  <2>1. \A k \in Handlers \ {h} : handlers'[k] = handlers[k]
    BY <1>5, OthersStay DEF Run
  <2>2. UNCHANGED <<requests, issued, rules>>
    BY <1>5 DEF LoadRequest
  <2>3. me \in Loading \union Rejecting \union Withdrawing
    BY <1>1, <1>5, AtLoad DEF LoadRequest
  <2>4. CASE row # None /\ Approve(h, me.id)
    <3>1. handlers'[h] = [pc |-> "insert", call |-> "approve", id |-> me.id, groups |-> {row.group},
                          wanted |-> {Rule(row.group, row.domain)}]
      BY <1>1, <2>4 DEF Approve, Put
    <3>2. me.id \in issued
      BY <2>3, <2>4 DEF ApprovalInv, Loading, Rejecting, Withdrawing
    <3>3. Covers(h)'
      BY <2>2, <3>1, <3>2 DEF Covers, Rule
    <3> QED BY <2>1, <2>2, <3>3, ApprovalStays
  <2>5. CASE \/ Answer(h)
             \/ me.call = "withdraw" /\ Then(h, "withdraw")
             \/ me.call = "reject" /\ Then(h, "resolve")
    <3>1. ~Applies(h)'
      BY <1>1, <2>3, <2>5 DEF Applies, Answer, Put, Then, Idle, Loading, Rejecting, Withdrawing
    <3> QED BY <2>1, <2>2, <3>1, ApprovalStays
  <2> QED BY <1>5, <2>4, <2>5 DEF LoadRequest
<1>6. ASSUME NEW h \in Handlers, InsertRequest(h) \/ Resolve(h) \/ Withdraw(h)
      PROVE  ApprovalInv'
  <2> DEFINE me == handlers[h]
  <2>1. \A k \in Handlers \ {h} : handlers'[k] = handlers[k]
    BY <1>6, OthersStay DEF Run
  <2>2. issued \subseteq issued' /\ \A i \in Requests : requests'[i] # None => i \in issued'
    BY <1>1, <1>6 DEF InsertRequest, Resolve, Withdraw, ApprovalInv, TypeOK
  <2>3. \A i \in issued : requests'[i] # None =>
           /\ requests[i] # None
           /\ requests'[i].group = requests[i].group /\ requests'[i].domain = requests[i].domain
    <3>1. CASE InsertRequest(h)
      BY <1>1, <3>1 DEF InsertRequest, TypeOK
    <3>2. CASE Resolve(h)
      <4>1. \A i \in Requests : requests[i] \in RequestRows \union {None}
        BY <1>1 DEF TypeOK, RequestRows
      <4>2. \A i \in Requests : \/ requests'[i] = requests[i]
                                \/ requests[i] # None /\ \E status :
                                     requests'[i] = [requests[i] EXCEPT !.status = status]
        BY <1>1, <3>2 DEF Resolve, TypeOK
      <4> QED BY <1>1, <4>1, <4>2 DEF RequestRows, TypeOK
    <3>3. CASE Withdraw(h)
      BY <1>1, <3>3 DEF Withdraw, TypeOK
    <3> QED BY <1>6, <3>1, <3>2, <3>3
  <2>4. ~Applies(h)'
    BY <1>1, <1>6 DEF InsertRequest, Resolve, Withdraw, Answer, Put, Applies, Idle
  <2>5. \A k \in Handlers : Applies(k)' => Covers(k)'
    <3> SUFFICES ASSUME NEW k \in Handlers \ {h}, Applies(k)' PROVE Covers(k)'
      BY <2>4
    <3>1. Applies(k) /\ Covers(k)
      BY <2>1 DEF Applies, ApprovalInv
    <3> QED BY <2>1, <2>2, <2>3, <3>1, CoversStays
  <2>6. ApprovedIsAllowed'
    <3>1. CASE InsertRequest(h)
      BY <1>1, <3>1 DEF InsertRequest, TypeOK, ApprovalInv, ApprovedIsAllowed
    <3>2. CASE Withdraw(h)
      BY <1>1, <3>2 DEF Withdraw, TypeOK, ApprovalInv, ApprovedIsAllowed
    <3>3. CASE Resolve(h)
      <4>1. me \in Approving \union Rejecting
        BY <1>1, <3>3, AtResolve DEF Resolve
      <4>2. \A i \in Requests : requests[i] \in RequestRows \union {None}
        BY <1>1 DEF TypeOK, RequestRows
      <4>3. \A i \in Requests : requests'[i] # None /\ i # me.id => requests'[i] = requests[i]
        BY <1>1, <3>3 DEF Resolve, TypeOK
      <4>4. ASSUME requests[me.id] # None, me.id \in Requests
            PROVE  requests'[me.id] = [requests[me.id] EXCEPT
                     !.status = IF me.call = "approve" THEN "approved" ELSE "rejected"]
        BY <1>1, <3>3, <4>4 DEF Resolve, TypeOK
      <4>5. CASE me.call = "approve"
        <5>1. Covers(h) /\ me.pc = "resolve" /\ Allowed' = Allowed
          BY <3>3, <4>5 DEF ApprovalInv, Applies, Resolve, Allowed
        <5>2. requests[me.id] # None => Rule(requests[me.id].group, requests[me.id].domain) \in Allowed
          BY <5>1 DEF Covers
        <5> QED BY <1>1, <2>2, <2>3, <4>3, <5>1, <5>2 DEF ApprovalInv, ApprovedIsAllowed, Covers, Rule
      <4>6. CASE me.call # "approve"
        <5>1. me.id \in Requests /\ Allowed' = Allowed
          BY <3>3, <4>1 DEF Approving, Rejecting, Resolve, Allowed
        <5>2. requests[me.id] # None => requests'[me.id].status = "rejected"
          BY <4>2, <4>4, <4>6, <5>1 DEF RequestRows
        <5>3. requests[me.id] = None => requests'[me.id] = None
          BY <1>1, <3>3, <5>1 DEF Resolve, TypeOK
        <5> QED BY <4>3, <5>1, <5>2, <5>3 DEF ApprovalInv, ApprovedIsAllowed, Rule
      <4> QED BY <4>5, <4>6
    <3> QED BY <1>6, <3>1, <3>2, <3>3
  <2> QED BY <2>2, <2>5, <2>6 DEF ApprovalInv
<1>7. CASE UNCHANGED vars
  BY <1>7 DEF vars, ApprovalInv, ApprovedIsAllowed, Applies, Covers, Rule, Allowed
<1>8. CASE Next
  <2>1. PICK h \in Handlers : Start(h) \/ Run(h) \/ Fail(h)
    BY <1>8 DEF Next
  <2> QED BY <1>2, <1>3, <1>4, <1>5, <1>6, <2>1 DEF Run
<1> QED BY <1>7, <1>8

\* Where rules are only added, an approved domain is allowed in its group: an
\* interrupted or a late approval never marks what it did not do, though other
\* requests are made, rejected and withdrawn meanwhile.
THEOREM ApprovedDomainsAllowed ==
  DomainRulesAssumption =>
    (Spec /\ [][Allowed \subseteq Allowed']_vars => []ApprovedIsAllowed)
<1> SUFFICES ASSUME DomainRulesAssumption
             PROVE  Spec /\ [][Allowed \subseteq Allowed']_vars => []ApprovedIsAllowed
  OBVIOUS
<1>1. Init => ApprovalInv
  BY DEF Init, ApprovalInv, ApprovedIsAllowed, Applies, Idle
<1>2. DomainInv /\ ApprovalInv /\ [Next]_vars /\ [Allowed \subseteq Allowed']_vars => ApprovalInv'
  <2>1. UNCHANGED vars => Allowed \subseteq Allowed'
    BY DEF vars, Allowed
  <2> QED BY <2>1, StepApproves
<1>3. ApprovalInv => ApprovedIsAllowed
  BY DEF ApprovalInv
<1>4. Spec => []DomainInv
  BY DomainRulesTyped
<1> QED BY <1>1, <1>2, <1>3, <1>4, PTL DEF Spec

-----------------------------------------------------------------------------
(* The calls under way *)

\* A handler under way keeps to its call until it answers.
LEMMA CallStays ==
  ASSUME DomainInv, [Next]_vars, NEW h \in Handlers, handlers[h] # Idle
  PROVE  handlers'[h] = Idle \/ handlers'[h].call = handlers[h].call
<1>1. handlers \in [Handlers -> HandlerRecords] /\ handlers[h] \in HandlerRecords
  BY DEF DomainInv
<1>2. "call" \in DOMAIN handlers[h] /\ "pc" \in DOMAIN handlers[h]
  BY <1>1 DEF HandlerRecords, Ruling, Requesting, Creating, Approving, Updating, Deleting,
       BulkDeleting, Switching, Asking, Telling, Pruning, Loading, Rejecting, Withdrawing,
       Subscribing, Unsubscribing
<1>3. CASE UNCHANGED vars
  BY <1>3 DEF vars
<1>4. CASE Next
  <2>1. PICK k \in Handlers : Start(k) \/ Run(k) \/ Fail(k)
    BY <1>4 DEF Next
  <2>2. CASE k # h
    BY <2>1, <2>2, OthersStay
  <2>3. CASE k = h /\ LoadRequest(h)
    <3>1. handlers[h] \in Loading \union Rejecting \union Withdrawing
      BY <1>1, <2>3, AtLoad DEF LoadRequest
    <3>2. CASE handlers[h].call = "approve"
      BY <1>1, <1>2, <2>3, <3>2 DEF LoadRequest, Answer, Put, Then, Approve
    <3>3. CASE handlers[h].call \in {"reject", "withdraw"}
      BY <1>1, <1>2, <2>3, <3>3 DEF LoadRequest, Answer, Put, Then
    <3> QED BY <3>1, <3>2, <3>3 DEF Loading, Rejecting, Withdrawing
  <2>4. CASE k = h /\ (InsertRequest(h) \/ Push(h) \/ Prune(h))
    BY <1>1, <1>2, <2>4 DEF InsertRequest, Push, Prune, Answer, Put
  <2>5. CASE k = h /\ (Fail(h) \/ Resolve(h) \/ Withdraw(h) \/ Subscribe(h) \/ Unsubscribe(h))
    BY <1>1, <2>5 DEF Fail, Resolve, Withdraw, Subscribe, Unsubscribe, Answer, Put
  <2>6. CASE k = h /\ (\/ InsertRules(h) \/ FindRule(h) \/ FindDuplicate(h) \/ UpdateRule(h)
                         \/ DeleteRule(h) \/ BulkDelete(h) \/ UpdateGroup(h) \/ Touch(h)
                         \/ Notify(h) \/ Look(h) \/ Replace(h))
    <3>1. Answer(h) \/ \E pc : Then(h, pc)
      BY <2>6 DEF InsertRules, FindRule, FindDuplicate, UpdateRule, DeleteRule, BulkDelete,
         UpdateGroup, Touch, Notify, Look,
         Replace
    <3> QED BY <1>1, <1>2, <3>1 DEF Answer, Put, Then
  <2>7. CASE k = h /\ Start(h)
    BY <2>7 DEF Start
  <2> QED BY <2>1, <2>2, <2>3, <2>4, <2>5, <2>6, <2>7 DEF Run
<1> QED BY <1>3, <1>4

\* Rules are taken away by updates and deletions alone.
LEMMA OnlyRemovalsRemove ==
  ASSUME DomainRulesAssumption, DomainInv, [Next]_vars,
         \A h \in Handlers : handlers[h] # Idle =>
           handlers[h].call \notin {"update_rule", "delete_rule", "bulk_delete"}
  PROVE  Allowed \subseteq Allowed'
<1>1. handlers \in [Handlers -> HandlerRecords]
  BY DEF DomainInv
<1>2. \A h \in Handlers : ~UpdateRule(h) /\ ~DeleteRule(h) /\ ~BulkDelete(h)
  <2> SUFFICES ASSUME NEW h \in Handlers,
                      handlers[h].pc \in {"update_rule", "delete_rule", "bulk_delete"}
               PROVE  FALSE
    BY DEF UpdateRule, DeleteRule, BulkDelete
  <2>1. handlers[h] \in Updating \union Deleting \union BulkDeleting /\ handlers[h] # Idle
    BY <1>1, AtUpdate, AtBulkDelete DEF Idle
  <2> QED BY <2>1 DEF Updating, Deleting, BulkDeleting
<1>3. CASE UNCHANGED rules
  BY <1>3 DEF Allowed
<1>4. CASE \E h \in Handlers : InsertRules(h)
  <2>1. PICK h \in Handlers : InsertRules(h)
    BY <1>4
  <2>2. handlers[h] \in Creating \union Approving
    BY <1>1, <2>1, AtInsert DEF InsertRules
  <2> QED BY <2>1, <2>2, InsertsAllow DEF Creating, Approving
<1>5. (\E h \in Handlers : InsertRules(h)) \/ UNCHANGED rules
  BY <1>2 DEF Next, vars, Run, Start, Fail, FindRule, FindDuplicate, UpdateGroup, Touch, Notify,
     Look, InsertRequest, LoadRequest, Resolve, Withdraw, Replace, Subscribe, Unsubscribe, Push, Prune
<1> QED BY <1>3, <1>4, <1>5

\* Only a request makes a row.
LEMMA OnlyRequestsRequest ==
  ASSUME DomainInv, [Next]_vars,
         \A h \in Handlers : handlers[h] # Idle => handlers[h].call # "request",
         \A i \in Requests : requests[i] = None
  PROVE  \A i \in Requests : requests'[i] = None
<1>1. handlers \in [Handlers -> HandlerRecords] /\ TypeOK
  BY DEF DomainInv
<1>2. \A h \in Handlers : ~InsertRequest(h)
  <2> SUFFICES ASSUME NEW h \in Handlers, handlers[h].pc = "request"
               PROVE  FALSE
    BY DEF InsertRequest
  <2>1. handlers[h] \in Asking /\ handlers[h] # Idle
    BY <1>1, AtRequest DEF Idle
  <2> QED BY <2>1 DEF Asking
<1>3. CASE UNCHANGED vars
  BY <1>3 DEF vars
<1>4. CASE Next
  <2>1. PICK h \in Handlers : Start(h) \/ Run(h) \/ Fail(h)
    BY <1>4 DEF Next
  <2>2. CASE Resolve(h) \/ Withdraw(h)
    BY <1>1, <2>2 DEF Resolve, Withdraw, TypeOK
  <2> QED BY <1>2, <2>1, <2>2 DEF Run, Start, Fail, InsertRules, FindRule, FindDuplicate, UpdateRule,
           DeleteRule, BulkDelete, UpdateGroup, Touch, Notify, Look, LoadRequest, Replace, Subscribe,
              Unsubscribe, Push, Prune
<1> QED BY <1>3, <1>4
=============================================================================
