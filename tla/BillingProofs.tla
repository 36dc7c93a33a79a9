---------------------------- MODULE BillingProofs ----------------------------
(* What is proved of billing: however Stripe delivers its events, however the *)
(* handlers interleave and fail, an order is served before it is closed, and  *)
(* a payment founds one organization; an entitlement gives access until the   *)
(* first of its deadlines; and with facts in order it has the status of the   *)
(* last one.                                                                  *)
EXTENDS Billing, TLAPS

-----------------------------------------------------------------------------
(* Types *)

HandlerType ==
  [kind : HandlerKinds \union {None}, stage : Stages, order : Orders \union {None},
   event : Nat \union {None}, org : Orgs \union {None}, change : ChangeType \union {None}]

BillingTyped ==
  /\ TypeOK
  /\ events \in Seq(EventType)
  /\ handlers \in [Handlers -> HandlerType]

-----------------------------------------------------------------------------
(* What a handler may rely on where it is *)

\* An organization that is there: it was there before, or billing founded it.
Known(g) == founded[g] # None \/ \E u \in Users : InitialMembers[u] = g

Completed(o) == orders[o] # None /\ orders[o].status = "completed"

\* The organization has an entitlement, and if the order founded it, the buyer
\* is mirrored in it.
Served(o, g) ==
  /\ g # None /\ entitlements[g] # None
  /\ founded[g] = o => mirror[BuyerOf[o]] = g

\* An order that is being placed is known to its handler alone.
Placing(h) == handlers[h].stage \in {"membership", "session", "insert"}

PlacedOnce ==
  \A h \in Handlers : Placing(h) =>
    /\ orders[handlers[h].order] = None /\ handlers[h].order \notin sessions
    /\ \A k \in Handlers \ {h} : handlers[k].order # handlers[h].order

\* The stages of each kind of request.
StagesOf ==
  [checkout |-> {"membership", "session", "insert", "created"},
   request |-> {"membership", "insert", "created"},
   webhook |-> {"event", "intent", "grant", "sync", "resolve", "resolved", "activated",
                "find", "update", "updated", "mark"},
   approve |-> {"pending", "grant", "sync", "resolve", "resolved", "activated"},
   reject |-> {"pending", "reject", "resolved"}]

\* What a handler is at: its order, the event it was given, what it has done.
AtWork(h) ==
  LET m == handlers[h] IN
  /\ m.order \in Orders /\ m.kind \in HandlerKinds /\ m.stage \in StagesOf[m.kind]
  /\ ~Placing(h) => orders[m.order] # None
  /\ m.kind \in {"request", "approve", "reject"} => KindOf[m.order] = "manual"
  /\ m.kind = "checkout" => KindOf[m.order] # "manual"
  /\ m.org # None => Known(m.org)

OnEvent(h) ==
  LET m == handlers[h] IN
  /\ m.event \in DOMAIN events /\ events[m.event].order = m.order
  /\ m.stage \in {"intent", "grant", "sync", "resolve", "resolved", "activated"} =>
       events[m.event].fact = "checkout"
  /\ m.stage \in {"find", "update", "updated"} => events[m.event].fact # "checkout"
  /\ m.stage = "update" => m.org # None /\ entitlements[m.org] # None /\ m.change # None
  /\ m.stage \in {"resolved", "activated"} => Completed(m.order)
  /\ m.stage = "mark" => IF events[m.event].fact = "checkout" THEN Completed(m.order)
                         ELSE <<"updated", m.event>> \in audits

Granted(h) ==
  LET m == handlers[h] IN
  /\ m.stage = "sync" => m.org # None /\ entitlements[m.org] # None
  /\ m.stage = "resolve" => Served(m.order, m.org)

Sound(h) ==
  handlers[h].stage # "idle" =>
    AtWork(h) /\ (handlers[h].kind = "webhook" => OnEvent(h)) /\ Granted(h)

-----------------------------------------------------------------------------
(* What the tables and Stripe say *)

\* A founder is a member of the organization their payment founded, and stays;
\* nobody is in an organization that is not there.
Founders ==
  /\ \A g \in Orgs : founded[g] # None => members[BuyerOf[founded[g]]] = g
  /\ \A u \in Users : members[u] # None => Known(members[u])

Books ==
  /\ \A o \in Orders : orders[o] # None =>
       /\ orders[o].org # None => Known(orders[o].org)
       /\ orders[o].status \in {"completed", "approved"} => Served(o, orders[o].org)
  /\ \A g \in Orgs : entitlements[g] # None => Known(g)

\* Stripe speaks of orders that are there, and of the payment of checkouts only.
StripeKnows ==
  /\ \A o \in sessions : orders[o] # None
  /\ \A i \in DOMAIN events :
       /\ orders[events[i].order] # None
       /\ events[i].fact = "checkout" => KindOf[events[i].order] # "manual"

Acknowledged ==
  \A e \in processed :
    IF events[e].fact = "checkout" THEN Completed(events[e].order)
                                   ELSE <<"updated", e>> \in audits

BillingInv ==
  /\ BillingTyped
  /\ PlacedOnce /\ (\A h \in Handlers : Sound(h))
  /\ Founders /\ Books /\ StripeKnows /\ Acknowledged

-----------------------------------------------------------------------------
(* The step of one handler *)

\* What a step that works on the order ord (or on none) may do to what the other
\* handlers rely on.
Keeps(ord) ==
  /\ \A o \in Orders : orders[o] # None => orders'[o] # None
  /\ \A o \in Orders : KindOf[o] # "manual" /\ Completed(o) => Completed(o)'
  /\ \A o \in Orders : o # ord => orders'[o] = orders[o] /\ (o \in sessions' => o \in sessions)
  /\ \A g \in Orgs : entitlements[g] # None => entitlements'[g] # None
  /\ \A g \in Orgs : Known(g) => Known(g)' /\ founded'[g] = founded[g]
  /\ \A g \in Orgs : founded[g] # None /\ mirror[BuyerOf[founded[g]]] = g =>
       mirror'[BuyerOf[founded[g]]] = g
  /\ audits \subseteq audits'
  /\ \A i \in DOMAIN events : i \in DOMAIN events' /\ events'[i] = events[i]

\* Nothing but the handlers changes.
LEMMA QuietKeeps ==
  ASSUME BillingInv, UNCHANGED <<orders, founded, entitlements, mirror, audits, sessions, events>>,
         NEW ord
  PROVE  Keeps(ord)
BY DEF Keeps, Completed, Known

\* What was served stays served.
LEMMA ServedStays ==
  ASSUME BillingAssumption, BillingInv, NEW ord, Keeps(ord), NEW o \in Orders, NEW g \in Orgs,
         Known(g), Served(o, g)
  PROVE  Served(o, g)'
<1>1. founded'[g] = founded[g] /\ entitlements'[g] # None
  BY DEF Keeps, Served
<1>2. founded[g] = o => mirror'[BuyerOf[o]] = g
  <2>1. o # None
    BY DEF BillingAssumption
  <2> QED BY <2>1 DEF Keeps, Served
<1> QED BY <1>1, <1>2 DEF Served

\* A handler that does not move relies on nothing that may change.
LEMMA SoundStays ==
  ASSUME BillingAssumption, BillingInv, NEW k \in Handlers, handlers'[k] = handlers[k],
         NEW ord, Keeps(ord), Placing(k) => handlers[k].order # ord
  PROVE  Sound(k)'
<1> DEFINE m == handlers[k]
<1> SUFFICES ASSUME m.stage # "idle" PROVE AtWork(k)' /\ (m.kind = "webhook" => OnEvent(k)') /\ Granted(k)'
  BY DEF Sound
<1>1. AtWork(k) /\ (m.kind = "webhook" => OnEvent(k)) /\ Granted(k) /\ m \in HandlerType
  BY DEF BillingInv, Sound, BillingTyped
<1>2. m.order \in Orders /\ m.org \in Orgs \union {None}
  BY <1>1 DEF AtWork, HandlerType
<1>3. AtWork(k)'
  <2>1. Placing(k)' <=> Placing(k)
    BY DEF Placing
  <2>2. ~Placing(k) => orders'[m.order] # None
    BY <1>1, <1>2 DEF AtWork, Keeps
  <2>3. m.org # None => Known(m.org)'
    BY <1>1, <1>2 DEF AtWork, Keeps
  <2> QED BY <1>1, <2>1, <2>2, <2>3 DEF AtWork
<1>4. ASSUME m.kind = "webhook"
      PROVE  OnEvent(k)'
  <2>1. OnEvent(k) /\ events'[m.event] = events[m.event] /\ m.event \in DOMAIN events'
    BY <1>1, <1>4 DEF OnEvent, Keeps
  <2>2. KindOf[m.order] # "manual" \/ events[m.event].fact # "checkout"
    BY <2>1 DEF BillingInv, StripeKnows, OnEvent
  <2>3. m.stage \in {"resolved", "activated"} => Completed(m.order)'
    BY <1>2, <2>1, <2>2 DEF OnEvent, Keeps
  <2>4. m.stage = "mark" => IF events[m.event].fact = "checkout" THEN Completed(m.order)'
                            ELSE <<"updated", m.event>> \in audits'
    BY <1>2, <2>1, <2>2 DEF OnEvent, Keeps
  <2>5. m.stage = "update" => m.org # None /\ entitlements'[m.org] # None /\ m.change # None
    BY <1>2, <2>1 DEF OnEvent, Keeps
  <2> QED BY <2>1, <2>3, <2>4, <2>5 DEF OnEvent, Completed
<1>5. Granted(k)'
  <2>1. m.stage = "sync" => m.org # None /\ entitlements'[m.org] # None
    BY <1>1, <1>2 DEF Granted, Keeps
  <2>2. ASSUME m.stage = "resolve"
        PROVE  Served(m.order, m.org)'
    <3>1. Served(m.order, m.org) /\ m.org \in Orgs /\ Known(m.org)
      BY <1>1, <1>2, <2>2 DEF Granted, AtWork, Served
    <3> QED BY <1>2, <3>1, ServedStays
  <2> QED BY <2>1, <2>2 DEF Granted
<1> QED BY <1>3, <1>4, <1>5

\* One handler moves; the others stay as sound as they were, and what is being
\* placed is still being placed by one handler.
LEMMA HandlerMoves ==
  ASSUME BillingAssumption, BillingInv, NEW h \in Handlers, handlers[h].stage # "idle",
         Keeps(handlers[h].order), \A k \in Handlers \ {h} : handlers'[k] = handlers[k],
         handlers'[h].order \in {handlers[h].order, None},
         Placing(h)' => /\ Placing(h) /\ handlers'[h].order = handlers[h].order
                        /\ UNCHANGED <<orders, sessions>>,
         Sound(h)'
  PROVE  PlacedOnce' /\ \A k \in Handlers : Sound(k)'
<1> DEFINE ord == handlers[h].order
<1>1. ASSUME NEW k \in Handlers \ {h}
      PROVE  Placing(k) => handlers[k].order # ord
  BY DEF BillingInv, PlacedOnce
<1>2. \A k \in Handlers : Sound(k)'
  BY <1>1, SoundStays
<1>3. ASSUME NEW k \in Handlers, Placing(k)'
      PROVE  /\ (orders[handlers[k].order] = None)' /\ (handlers[k].order \notin sessions)'
             /\ \A l \in Handlers \ {k} : (handlers[l].order # handlers[k].order)'
  <2>1. CASE k = h
    <3>1. Placing(h) /\ handlers'[h].order = ord /\ UNCHANGED <<orders, sessions>>
      BY <1>3, <2>1
    <3>2. orders[ord] = None /\ ord \notin sessions /\ \A l \in Handlers \ {h} : handlers[l].order # ord
      BY <3>1 DEF BillingInv, PlacedOnce
    <3>3. orders' = orders /\ sessions' = sessions
      BY <3>1
    <3>4. (orders[handlers[k].order] = None)' /\ (handlers[k].order \notin sessions)'
      BY <2>1, <3>1, <3>2, <3>3
    <3>5. \A l \in Handlers \ {h} : handlers'[l].order # handlers'[h].order
      BY <3>1, <3>2
    <3> QED BY <2>1, <3>4, <3>5
  <2>2. CASE k # h
    <3>1. Placing(k) /\ handlers'[k] = handlers[k]
      BY <1>3, <2>2 DEF Placing
    <3>2. handlers[k].order \in Orders /\ handlers[k].order # ord /\ handlers[k].order # None
      BY <1>1, <2>2, <3>1 DEF BillingInv, Sound, AtWork, Placing, BillingAssumption
    <3>3. (orders[handlers[k].order] = None)' /\ (handlers[k].order \notin sessions)'
      BY <3>1, <3>2 DEF BillingInv, PlacedOnce, Keeps
    <3>4. \A l \in Handlers \ {k} : (handlers[l].order # handlers[k].order)'
      BY <3>1, <3>2 DEF BillingInv, PlacedOnce
    <3> QED BY <3>3, <3>4
  <2> QED BY <2>1, <2>2
<1> QED BY <1>2, <1>3 DEF PlacedOnce

\* A handler's next record.
LEMMA GotoRecord ==
  ASSUME BillingInv, NEW h \in Handlers, NEW stage \in Stages, Goto(h, stage)
  PROVE  /\ handlers' \in [Handlers -> HandlerType]
         /\ \A k \in Handlers \ {h} : handlers'[k] = handlers[k]
         /\ handlers'[h].stage = stage /\ handlers'[h].kind = handlers[h].kind
         /\ handlers'[h].order = handlers[h].order /\ handlers'[h].event = handlers[h].event
         /\ handlers'[h].org = handlers[h].org /\ handlers'[h].change = handlers[h].change
BY DEF Goto, HandlerType, BillingInv, BillingTyped

LEMMA WithRecord ==
  ASSUME BillingInv, NEW h \in Handlers, NEW stage \in Stages, NEW org \in Orgs \union {None},
         With(h, stage, org)
  PROVE  /\ handlers' \in [Handlers -> HandlerType]
         /\ \A k \in Handlers \ {h} : handlers'[k] = handlers[k]
         /\ handlers'[h].stage = stage /\ handlers'[h].kind = handlers[h].kind
         /\ handlers'[h].order = handlers[h].order /\ handlers'[h].event = handlers[h].event
         /\ handlers'[h].org = org
BY DEF With, HandlerType, BillingInv, BillingTyped

LEMMA EndRecord ==
  ASSUME BillingInv, NEW h \in Handlers, End(h)
  PROVE  /\ handlers' \in [Handlers -> HandlerType]
         /\ \A k \in Handlers \ {h} : handlers'[k] = handlers[k]
         /\ handlers'[h] = Idle /\ handlers'[h].stage = "idle" /\ handlers'[h].order = None
<1>1. Idle \in HandlerType
  BY DEF Idle, HandlerType, Stages
<1> QED BY <1>1 DEF End, Idle, BillingInv, BillingTyped

-----------------------------------------------------------------------------
(* Steps that change no table *)

\* The tables and Stripe are as they were, and so is what is said of them.
LEMMA TablesStay ==
  ASSUME BillingInv, UNCHANGED <<tables, stripe>>, now' \in 0 .. MaxTime, faults' \in 0 .. MaxFaults,
         handlers' \in [Handlers -> HandlerType]
  PROVE  BillingTyped' /\ Founders' /\ Books' /\ StripeKnows' /\ Acknowledged'
<1>1. /\ UNCHANGED <<orders, founded, members, entitlements, mirror, processed, audits>>
      /\ UNCHANGED <<sessions, events>>
  BY DEF tables, stripe
<1>2. BillingTyped'
  <2>1. \A k \in Handlers : handlers'[k].stage \in Stages
    BY DEF HandlerType
  <2> QED BY <1>1, <2>1 DEF BillingInv, BillingTyped, TypeOK
<1>3. Founders'
  BY <1>1 DEF BillingInv, Founders, Known
<1>4. Books'
  BY <1>1 DEF BillingInv, Books, Known, Served
<1>5. StripeKnows' /\ Acknowledged'
  BY <1>1 DEF BillingInv, StripeKnows, Acknowledged, Completed
<1> QED BY <1>2, <1>3, <1>4, <1>5

LEMMA QuietStep ==
  ASSUME BillingAssumption, BillingInv, NEW h \in Handlers, handlers[h].stage # "idle",
         UNCHANGED <<tables, stripe>>, now' = now, faults' \in 0 .. MaxFaults,
         handlers' \in [Handlers -> HandlerType],
         \A k \in Handlers \ {h} : handlers'[k] = handlers[k],
         handlers'[h].order \in {handlers[h].order, None},
         Placing(h)' => Placing(h) /\ handlers'[h].order = handlers[h].order,
         Sound(h)'
  PROVE  BillingInv'
<1>1. /\ UNCHANGED <<orders, founded, members, entitlements, mirror, processed, audits>>
      /\ UNCHANGED <<sessions, events>>
  BY DEF tables, stripe
<1>2. Keeps(handlers[h].order)
  BY <1>1, QuietKeeps
<1>3. PlacedOnce' /\ \A k \in Handlers : Sound(k)'
  BY <1>1, <1>2, HandlerMoves
<1>4. now' \in 0 .. MaxTime
  BY DEF BillingInv, BillingTyped, TypeOK
<1> QED BY <1>3, <1>4, TablesStay DEF BillingInv

\* A handler that answers leaves what it has done.
LEMMA EndStep ==
  ASSUME BillingAssumption, BillingInv, NEW h \in Handlers, handlers[h].stage # "idle",
         UNCHANGED <<tables, stripe>>, now' = now, faults' \in 0 .. MaxFaults, End(h)
  PROVE  BillingInv'
<1>1. /\ handlers' \in [Handlers -> HandlerType]
      /\ \A k \in Handlers \ {h} : handlers'[k] = handlers[k]
      /\ handlers'[h].stage = "idle" /\ handlers'[h].order = None
  BY EndRecord
<1>2. Sound(h)' /\ ~Placing(h)'
  BY <1>1 DEF Sound, Placing
<1> QED BY <1>1, <1>2, QuietStep

LEMMA ReadsKeepInv ==
  ASSUME BillingAssumption, BillingInv, NEW h \in Handlers,
         ReadMembership(h) \/ CreateSession(h) \/ ReadEvent(h) \/ ReadIntent(h) \/ ReadPending(h)
  PROVE  BillingInv'
<1> DEFINE m == handlers[h]
<1>1. /\ m \in HandlerType /\ TypeOK /\ m.stage # "idle"
      /\ AtWork(h) /\ (m.kind = "webhook" => OnEvent(h)) /\ Granted(h)
  BY DEF BillingInv, BillingTyped, Sound, ReadMembership, CreateSession, ReadEvent, ReadIntent,
     ReadPending
<1>2. UNCHANGED <<tables, stripe>> /\ now' = now /\ faults' \in 0 .. MaxFaults
  BY <1>1 DEF ReadMembership, CreateSession, ReadEvent, ReadIntent, ReadPending, TypeOK
<1>3. UNCHANGED <<orders, founded, entitlements, mirror, audits, sessions, events>>
  BY <1>2 DEF tables, stripe
<1>4. m.order \in Orders /\ m.kind \in HandlerKinds /\ m.stage \in StagesOf[m.kind]
  BY <1>1 DEF AtWork
<1>5. ASSUME NEW stage \in Stages, m.kind \in {"checkout", "request"}, Placing(h),
             stage \in {"session", "insert"}, stage \in StagesOf[m.kind],
             NEW org \in Orgs \union {None}, org # None => Known(org), With(h, stage, org)
      PROVE  BillingInv'
  <2>1. /\ handlers' \in [Handlers -> HandlerType]
        /\ \A k \in Handlers \ {h} : handlers'[k] = handlers[k]
        /\ handlers'[h].stage = stage /\ handlers'[h].kind = m.kind
        /\ handlers'[h].order = m.order /\ handlers'[h].org = org
    BY <1>5, WithRecord
  <2>2. Placing(h)' /\ (org # None => Known(org)')
    BY <1>3, <1>5, <2>1 DEF Placing, Known
  <2>3. Sound(h)'
    BY <1>1, <1>3, <1>4, <1>5, <2>1, <2>2 DEF Sound, AtWork, Granted
  <2> QED BY <1>1, <1>2, <1>5, <2>1, <2>3, QuietStep
<1>6. CASE ReadMembership(h)
  <2> DEFINE stage == IF m.kind = "checkout" THEN "session" ELSE "insert"
             org == members[BuyerOf[m.order]]
  <2>1. m.stage = "membership" /\ With(h, stage, org) /\ Placing(h)
    BY <1>6 DEF ReadMembership, Placing
  <2>2. m.kind \in {"checkout", "request"}
    BY <1>4, <2>1 DEF HandlerKinds, StagesOf
  <2>3. org \in Orgs \union {None} /\ (org # None => Known(org))
    BY <1>1, <1>4 DEF TypeOK, BillingAssumption, BillingInv, Founders
  <2>4. stage \in Stages /\ stage \in {"session", "insert"} /\ stage \in StagesOf[m.kind]
    BY <2>2 DEF Stages, StagesOf
  <2> HIDE DEF stage, org
  <2> QED BY <1>5, <2>1, <2>2, <2>3, <2>4
<1>7. CASE CreateSession(h)
  <2>1. m.stage = "session" /\ Goto(h, "insert") /\ Placing(h)
    BY <1>7 DEF CreateSession, Placing
  <2>2. m.kind = "checkout" /\ "insert" \in Stages
    BY <1>4, <2>1 DEF HandlerKinds, StagesOf, Stages
  <2>3. /\ handlers' \in [Handlers -> HandlerType]
        /\ \A k \in Handlers \ {h} : handlers'[k] = handlers[k]
        /\ handlers'[h].stage = "insert" /\ handlers'[h].kind = m.kind
        /\ handlers'[h].order = m.order /\ handlers'[h].org = m.org
    BY <2>1, <2>2, GotoRecord
  <2>4. Placing(h)' /\ (m.org # None => Known(m.org)')
    BY <1>1, <1>3, <2>3 DEF Placing, Known, AtWork
  <2>5. Sound(h)'
    BY <1>1, <1>3, <2>2, <2>3, <2>4 DEF Sound, AtWork, Granted, StagesOf
  <2> QED BY <1>1, <1>2, <2>1, <2>3, <2>5, QuietStep
<1>8. ASSUME NEW stage \in {"intent", "find", "grant", "mark", "reject"},
             NEW org \in Orgs \union {None}, org # None => Known(org),
             handlers' \in [Handlers -> HandlerType],
             \A k \in Handlers \ {h} : handlers'[k] = handlers[k],
             handlers'[h].stage = stage, handlers'[h].kind = m.kind,
             handlers'[h].order = m.order, handlers'[h].event = m.event, handlers'[h].org = org,
             stage \in StagesOf[m.kind], ~Placing(h),
             m.kind = "webhook" =>
               /\ stage \in {"intent", "grant"} => events[m.event].fact = "checkout"
               /\ stage = "find" => events[m.event].fact # "checkout"
               /\ stage = "mark" => events[m.event].fact = "checkout" /\ Completed(m.order)
      PROVE  BillingInv'
  <2>1. ~Placing(h)'
    BY <1>8 DEF Placing
  <2>2. AtWork(h)'
    BY <1>1, <1>3, <1>8 DEF AtWork, Known
  <2>3. m.kind = "webhook" => OnEvent(h)'
    BY <1>1, <1>3, <1>8 DEF OnEvent, Completed
  <2>4. Granted(h)'
    BY <1>8 DEF Granted
  <2>5. Sound(h)'
    BY <1>8, <2>2, <2>3, <2>4 DEF Sound
  <2> QED BY <1>1, <1>2, <1>8, <2>1, <2>5, QuietStep
<1>9. CASE ReadEvent(h)
  <2>1. m.stage = "event" /\ m.kind = "webhook" /\ ~Placing(h)
    BY <1>4, <1>9 DEF ReadEvent, HandlerKinds, StagesOf, Placing
  <2>2. CASE End(h)
    BY <1>1, <1>2, <2>2, EndStep
  <2>3. ASSUME Goto(h, IF EventAt(h).fact = "checkout" THEN "intent" ELSE "find")
        PROVE  BillingInv'
    <3> DEFINE stage == IF EventAt(h).fact = "checkout" THEN "intent" ELSE "find"
    <3>1. stage \in Stages /\ stage \in {"intent", "find"} /\ stage \in StagesOf["webhook"]
      BY DEF Stages, StagesOf
    <3>2. /\ stage = "intent" => events[m.event].fact = "checkout"
          /\ stage = "find" => events[m.event].fact # "checkout"
      BY DEF EventAt
    <3> HIDE DEF stage
    <3>3. /\ handlers' \in [Handlers -> HandlerType]
          /\ \A k \in Handlers \ {h} : handlers'[k] = handlers[k]
          /\ handlers'[h].stage = stage /\ handlers'[h].kind = m.kind
          /\ handlers'[h].order = m.order /\ handlers'[h].event = m.event
          /\ handlers'[h].org = m.org
      BY <2>3, <3>1, GotoRecord DEF stage
    <3>4. m.org \in Orgs \union {None} /\ (m.org # None => Known(m.org))
      BY <1>1 DEF HandlerType, AtWork
    <3> QED BY <1>8, <2>1, <3>1, <3>2, <3>3, <3>4
  <2> QED BY <1>9, <2>2, <2>3 DEF ReadEvent
<1>10. CASE ReadIntent(h)
  <2> DEFINE row == orders[m.order]
  <2>1. m.stage = "intent" /\ m.kind = "webhook" /\ ~Placing(h) /\ events[m.event].fact = "checkout"
    BY <1>1, <1>4, <1>10 DEF ReadIntent, HandlerKinds, StagesOf, Placing, OnEvent
  <2>2. row \in OrderType
    BY <1>1, <1>4, <2>1 DEF AtWork, TypeOK
  <2>3. CASE End(h)
    BY <1>1, <1>2, <2>3, EndStep
  <2>4. CASE AlreadyServed(row) /\ Goto(h, "mark")
    <3>1. Completed(m.order)
      BY <1>1, <2>1, <2>4 DEF AlreadyServed, Completed, AtWork
    <3>2. /\ handlers' \in [Handlers -> HandlerType]
          /\ \A k \in Handlers \ {h} : handlers'[k] = handlers[k]
          /\ handlers'[h].stage = "mark" /\ handlers'[h].kind = m.kind
          /\ handlers'[h].order = m.order /\ handlers'[h].event = m.event
          /\ handlers'[h].org = m.org
      BY <2>4, GotoRecord DEF Stages
    <3>3. m.org \in Orgs \union {None} /\ (m.org # None => Known(m.org))
      BY <1>1 DEF HandlerType, AtWork
    <3>4. "mark" \in StagesOf[m.kind]
      BY <2>1 DEF StagesOf
    <3> QED BY <1>8, <2>1, <3>1, <3>2, <3>3, <3>4
  <2>5. CASE With(h, "grant", row.org)
    <3>1. row.org \in Orgs \union {None} /\ (row.org # None => Known(row.org))
      BY <1>1, <1>4, <2>1, <2>2 DEF OrderType, BillingInv, Books, AtWork
    <3>2. /\ handlers' \in [Handlers -> HandlerType]
          /\ \A k \in Handlers \ {h} : handlers'[k] = handlers[k]
          /\ handlers'[h].stage = "grant" /\ handlers'[h].kind = m.kind
          /\ handlers'[h].order = m.order /\ handlers'[h].event = m.event
          /\ handlers'[h].org = row.org
      BY <2>5, <3>1, WithRecord DEF Stages
    <3>3. "grant" \in StagesOf[m.kind]
      BY <2>1 DEF StagesOf
    <3> QED BY <1>8, <2>1, <3>1, <3>2, <3>3
  <2> QED BY <1>10, <2>3, <2>4, <2>5 DEF ReadIntent
<1>11. CASE ReadPending(h)
  <2> DEFINE row == orders[m.order]
  <2>1. m.stage = "pending" /\ m.kind \in {"approve", "reject"} /\ ~Placing(h)
    BY <1>1, <1>4, <1>11 DEF ReadPending, HandlerKinds, StagesOf, Placing
  <2>2. row \in OrderType
    BY <1>1, <1>4, <2>1 DEF AtWork, TypeOK
  <2>3. CASE End(h)
    BY <1>1, <1>2, <2>3, EndStep
  <2>4. ASSUME NEW stage \in {"grant", "reject"}, stage \in StagesOf[m.kind], With(h, stage, row.org)
        PROVE  BillingInv'
    <3>1. row.org \in Orgs \union {None} /\ (row.org # None => Known(row.org))
      BY <1>1, <1>4, <2>1, <2>2 DEF OrderType, BillingInv, Books, AtWork
    <3>2. /\ handlers' \in [Handlers -> HandlerType]
          /\ \A k \in Handlers \ {h} : handlers'[k] = handlers[k]
          /\ handlers'[h].stage = stage /\ handlers'[h].kind = m.kind
          /\ handlers'[h].order = m.order /\ handlers'[h].event = m.event
          /\ handlers'[h].org = row.org
      BY <2>4, <3>1, WithRecord DEF Stages
    <3>3. m.kind # "webhook"
      BY <2>1
    <3> QED BY <1>8, <2>1, <2>4, <3>1, <3>2, <3>3
  <2> QED BY <1>11, <2>3, <2>4 DEF ReadPending, StagesOf
<1> QED BY <1>6, <1>7, <1>9, <1>10, <1>11

\* The update is prepared from the row of the subscription; without one the
\* delivery is refused.
LEMMA FindKeepsInv ==
  ASSUME BillingAssumption, BillingInv, NEW h \in Handlers, FindEntitlement(h)
  PROVE  BillingInv'
<1> DEFINE m == handlers[h]
<1>1. /\ m \in HandlerType /\ TypeOK /\ m.stage = "find"
      /\ AtWork(h) /\ (m.kind = "webhook" => OnEvent(h))
  BY DEF BillingInv, BillingTyped, Sound, FindEntitlement
<1>2. UNCHANGED <<tables, stripe>> /\ now' = now /\ faults' \in 0 .. MaxFaults
  BY <1>1 DEF FindEntitlement, TypeOK
<1>3. UNCHANGED <<orders, founded, entitlements, mirror, audits, sessions, events>>
  BY <1>2 DEF tables, stripe
<1>4. m.kind = "webhook" /\ m.stage # "idle" /\ ~Placing(h)
  BY <1>1 DEF AtWork, HandlerKinds, StagesOf, Placing
<1>5. CASE End(h)
  BY <1>2, <1>4, <1>5, EndStep
<1>6. ASSUME NEW g \in Orgs, entitlements[g] # None,
             handlers' = [handlers EXCEPT ![h].stage = "update", ![h].org = g,
                            ![h].change = ChangeBy(EventAt(h), entitlements[g])]
      PROVE  BillingInv'
  <2> DEFINE change == ChangeBy(EventAt(h), entitlements[g])
  <2>1. /\ events[m.event] \in EventType /\ events[m.event].fact \in LifecycleFacts
        /\ EventAt(h) = events[m.event]
    BY <1>1, <1>4 DEF OnEvent, TypeOK, EventType, EventAt
  <2>2. entitlements[g] \in EntitlementType
    BY <1>1, <1>6 DEF TypeOK
  <2>3. change \in ChangeType
    <3>1. StatusAfter(events[m.event].fact) \in Statuses
      BY <2>1 DEF StatusAfter, LifecycleFacts, Statuses
    <3>2. now \in Nat /\ now + GracePeriod \in Nat
      BY <1>1 DEF TypeOK, GracePeriod, BillingAssumption
    <3>3. events[m.event].cancel # None => events[m.event].cancel \in BOOLEAN
      BY <2>1 DEF EventType
    <3> DEFINE status == StatusAfter(EventAt(h).fact)
               ends == IF EventAt(h).periodEnd = None THEN entitlements[g].periodEnd
                                                      ELSE EventAt(h).periodEnd
               grace == IF status = "grace_period" THEN now + GracePeriod ELSE None
               cancel == CASE status = "canceled" -> FALSE
                           [] EventAt(h).cancel # None -> EventAt(h).cancel
                           [] OTHER -> entitlements[g].cancelAtPeriodEnd
    <3>4. status \in Statuses /\ grace \in Dates \union {None}
      BY <2>1, <3>1, <3>2 DEF Dates
    <3>5. ends \in Dates \union {None}
      BY <2>1, <2>2 DEF EventType, EntitlementType
    <3>6. cancel \in BOOLEAN
      BY <2>1, <2>2, <3>3 DEF EntitlementType
    <3>7. change = [status |-> status, periodEnd |-> ends, graceEnds |-> grace,
                    cancelAtPeriodEnd |-> cancel]
      BY DEF ChangeBy
    <3> HIDE DEF status, ends, grace, cancel
    <3> QED BY <3>4, <3>5, <3>6, <3>7 DEF ChangeType
  <2>4. change # None
    BY <2>3 DEF BillingAssumption, ChangeType
  <2> HIDE DEF change
  <2>5. /\ handlers' \in [Handlers -> HandlerType]
        /\ \A k \in Handlers \ {h} : handlers'[k] = handlers[k]
        /\ handlers'[h].stage = "update" /\ handlers'[h].kind = m.kind
        /\ handlers'[h].order = m.order /\ handlers'[h].event = m.event
        /\ handlers'[h].org = g /\ handlers'[h].change = change
    <3>1. handlers' = [handlers EXCEPT ![h].stage = "update", ![h].org = g, ![h].change = change]
      BY <1>6 DEF change
    <3>2. "update" \in Stages
      BY DEF Stages
    <3> QED BY <2>3, <3>1, <3>2 DEF HandlerType, BillingInv, BillingTyped
  <2>6. AtWork(h)'
    <3>1. Known(g)' /\ orders'[m.order] # None
      BY <1>1, <1>3, <1>4, <1>6 DEF BillingInv, Books, Known, AtWork
    <3>2. "update" \in StagesOf[m.kind] /\ m.order \in Orders /\ m.kind \in HandlerKinds
      BY <1>1, <1>4 DEF StagesOf, AtWork
    <3> QED BY <1>4, <2>5, <3>1, <3>2 DEF AtWork
  <2>7. g # None
    BY DEF BillingAssumption
  <2>8. OnEvent(h)'
    BY <1>1, <1>3, <1>4, <1>6, <2>4, <2>5, <2>7 DEF OnEvent
  <2>9. Sound(h)' /\ ~Placing(h)'
    BY <2>5, <2>6, <2>8 DEF Sound, Granted, Placing
  <2> QED BY <1>2, <1>4, <2>5, <2>9, QuietStep
<1>7. End(h) \/ \E g \in Orgs :
        /\ entitlements[g] # None
        /\ handlers' = [handlers EXCEPT ![h].stage = "update", ![h].org = g,
                          ![h].change = ChangeBy(EventAt(h), entitlements[g])]
  BY DEF FindEntitlement
<1> QED BY <1>5, <1>6, <1>7

LEMMA FaultKeepsInv ==
  ASSUME BillingAssumption, BillingInv, NEW h \in Handlers, Fault(h)
  PROVE  BillingInv'
<1>1. faults' \in 0 .. MaxFaults
  BY DEF Fault, BillingInv, BillingTyped, TypeOK, BillingAssumption
<1> QED BY <1>1, EndStep DEF Fault

-----------------------------------------------------------------------------
(* Steps that note what was done *)

\* A handler writes an audit event, hands out the address of a session or
\* acknowledges its event.
LEMMA NoteStep ==
  ASSUME BillingAssumption, BillingInv, NEW h \in Handlers,
         handlers[h].stage # "idle", ~Placing(h),
         UNCHANGED <<orders, founded, members, entitlements, mirror, events, now, faults>>,
         audits \subseteq audits',
         sessions' \subseteq sessions \union {handlers[h].order}, sessions' \subseteq CheckoutOrders,
         processed' \subseteq DOMAIN events,
         \A e \in processed' \ processed :
           IF events[e].fact = "checkout" THEN Completed(events[e].order)
                                          ELSE <<"updated", e>> \in audits,
         handlers' \in [Handlers -> HandlerType],
         \A k \in Handlers \ {h} : handlers'[k] = handlers[k],
         handlers'[h].order \in {handlers[h].order, None}, ~Placing(h)', Sound(h)'
  PROVE  BillingInv'
<1> DEFINE ord == handlers[h].order
<1>1. Keeps(ord)
  BY DEF Keeps, Completed, Known
<1>2. PlacedOnce' /\ \A k \in Handlers : Sound(k)'
  BY <1>1, HandlerMoves
<1>3. BillingTyped'
  <2>1. \A k \in Handlers : handlers'[k].stage \in Stages
    BY DEF HandlerType
  <2> QED BY <2>1 DEF BillingInv, BillingTyped, TypeOK
<1>4. Founders' /\ Books'
  BY DEF BillingInv, Founders, Books, Known, Served
<1>5. StripeKnows'
  <2>1. orders[ord] # None
    BY DEF BillingInv, Sound, AtWork
  <2> QED BY <2>1 DEF BillingInv, StripeKnows
<1>6. Acknowledged'
  BY DEF BillingInv, Acknowledged, Completed
<1> QED BY <1>2, <1>3, <1>4, <1>5, <1>6 DEF BillingInv

LEMMA NotesKeepInv ==
  ASSUME BillingAssumption, BillingInv, NEW h \in Handlers,
         \/ AnswerOrder(h) \/ AuditClose(h) \/ AuditActivation(h) \/ AuditUpdate(h)
         \/ MarkProcessed(h) \/ AuditRejection(h)
  PROVE  BillingInv'
<1> DEFINE m == handlers[h]
<1>1. /\ m \in HandlerType /\ TypeOK /\ m.stage # "idle"
      /\ AtWork(h) /\ (m.kind = "webhook" => OnEvent(h))
  BY DEF BillingInv, BillingTyped, Sound, AnswerOrder, AuditClose, AuditActivation, AuditUpdate,
     MarkProcessed, AuditRejection
<1>2. UNCHANGED <<orders, founded, members, entitlements, mirror, events, now, faults>>
  BY DEF AnswerOrder, AuditClose, AuditActivation, AuditUpdate, MarkProcessed, AuditRejection, stripe
<1>3. audits \subseteq audits' /\ ~Placing(h)
  BY DEF AnswerOrder, AuditClose, AuditActivation, AuditUpdate, MarkProcessed, AuditRejection, Record,
     Placing
<1>4. m.order \in Orders /\ m.kind \in HandlerKinds /\ m.stage \in StagesOf[m.kind]
  BY <1>1 DEF AtWork
<1>5. sessions' \subseteq sessions \union {m.order} /\ sessions' \subseteq CheckoutOrders
  <2>1. CASE AnswerOrder(h)
    BY <1>1, <1>4, <2>1 DEF AnswerOrder, TypeOK, AtWork, CheckoutOrders
  <2>2. CASE ~AnswerOrder(h)
    BY <1>1, <2>2 DEF AuditClose, AuditActivation, AuditUpdate, MarkProcessed, AuditRejection,
       TypeOK, stripe
  <2> QED BY <2>1, <2>2
<1>6. /\ processed' \subseteq DOMAIN events
      /\ \A e \in processed' \ processed :
           IF events[e].fact = "checkout" THEN Completed(events[e].order)
                                          ELSE <<"updated", e>> \in audits
  <2>1. CASE MarkProcessed(h)
    <3>1. m.stage = "mark" /\ m.kind = "webhook" /\ processed' = processed \union {m.event}
      BY <1>4, <2>1 DEF MarkProcessed, HandlerKinds, StagesOf
    <3> QED BY <1>1, <3>1 DEF OnEvent, TypeOK
  <2>2. CASE ~MarkProcessed(h)
    <3>1. processed' = processed
      BY <2>2 DEF AuditClose, AuditActivation, AuditUpdate, AnswerOrder, AuditRejection
    <3> QED BY <1>1, <3>1 DEF TypeOK
  <2> QED BY <2>1, <2>2
<1>7. CASE End(h)
  <2>1. /\ handlers' \in [Handlers -> HandlerType]
        /\ \A k \in Handlers \ {h} : handlers'[k] = handlers[k]
        /\ handlers'[h].stage = "idle" /\ handlers'[h].order = None
    BY <1>7, EndRecord
  <2>2. Sound(h)' /\ ~Placing(h)'
    BY <2>1 DEF Sound, Placing
  <2> QED BY <1>1, <1>2, <1>3, <1>5, <1>6, <2>1, <2>2, NoteStep
<1>8. ASSUME NEW stage \in {"activated", "mark"}, Goto(h, stage), stage \in StagesOf[m.kind],
             m.kind = "webhook" =>
               /\ stage = "activated" => events[m.event].fact = "checkout" /\ Completed(m.order)
               /\ stage = "mark" => IF events[m.event].fact = "checkout" THEN Completed(m.order)
                                    ELSE <<"updated", m.event>> \in audits'
      PROVE  BillingInv'
  <2>1. /\ handlers' \in [Handlers -> HandlerType]
        /\ \A k \in Handlers \ {h} : handlers'[k] = handlers[k]
        /\ handlers'[h].stage = stage /\ handlers'[h].kind = m.kind
        /\ handlers'[h].order = m.order /\ handlers'[h].event = m.event
        /\ handlers'[h].org = m.org
    BY <1>8, GotoRecord DEF Stages
  <2>2. ~Placing(h)'
    BY <1>8, <2>1 DEF Placing
  <2>3. AtWork(h)'
    BY <1>1, <1>2, <1>3, <1>8, <2>1 DEF AtWork, Known
  <2>4. m.kind = "webhook" => OnEvent(h)'
    BY <1>1, <1>2, <1>8, <2>1 DEF OnEvent, Completed
  <2>5. Sound(h)'
    BY <1>8, <2>1, <2>3, <2>4 DEF Sound, Granted
  <2> QED BY <1>1, <1>2, <1>3, <1>5, <1>6, <2>1, <2>2, <2>5, NoteStep
<1>9. CASE AuditClose(h)
  <2>1. m.stage = "resolved" /\ m.kind \in {"webhook", "approve"} /\ Goto(h, "activated")
    BY <1>4, <1>9 DEF AuditClose, HandlerKinds, StagesOf
  <2>2. "activated" \in StagesOf[m.kind]
    BY <2>1 DEF StagesOf
  <2> QED BY <1>1, <1>8, <2>1, <2>2 DEF OnEvent
<1>10. CASE AuditActivation(h)
  <2>1. m.stage = "activated" /\ (End(h) \/ (m.kind = "webhook" /\ Goto(h, "mark")))
    BY <1>10 DEF AuditActivation
  <2>2. "mark" \in StagesOf["webhook"]
    BY DEF StagesOf
  <2> QED BY <1>1, <1>7, <1>8, <2>1, <2>2 DEF OnEvent
<1>11. CASE AuditUpdate(h)
  <2>1. m.stage = "updated" /\ m.kind = "webhook" /\ Goto(h, "mark") /\ <<"updated", m.event>> \in audits'
    BY <1>4, <1>11 DEF AuditUpdate, HandlerKinds, StagesOf, Record
  <2>2. "mark" \in StagesOf[m.kind]
    BY <2>1 DEF StagesOf
  <2> QED BY <1>1, <1>8, <2>1, <2>2 DEF OnEvent
<1> QED BY <1>7, <1>9, <1>10, <1>11 DEF AnswerOrder, MarkProcessed, AuditRejection

-----------------------------------------------------------------------------
(* Steps that write an order *)

LEMMA OrderStep ==
  ASSUME BillingAssumption, BillingInv, NEW h \in Handlers,
         handlers[h].stage # "idle", NEW row \in OrderType,
         orders' = [orders EXCEPT ![handlers[h].order] = row],
         row.org # None => Known(row.org),
         row.status \in {"completed", "approved"} => Served(handlers[h].order, row.org),
         KindOf[handlers[h].order] # "manual" /\ Completed(handlers[h].order) =>
           row.status = "completed",
         UNCHANGED <<founded, members, entitlements, mirror, processed, audits>>,
         UNCHANGED <<sessions, events, now, faults>>,
         handlers' \in [Handlers -> HandlerType],
         \A k \in Handlers \ {h} : handlers'[k] = handlers[k],
         handlers'[h].order = handlers[h].order, ~Placing(h)', Sound(h)'
  PROVE  BillingInv'
<1> DEFINE ord == handlers[h].order
<1>1. ord \in Orders /\ TypeOK /\ row # None
  BY DEF BillingInv, Sound, AtWork, BillingTyped, BillingAssumption
<1>2. /\ orders' \in [Orders -> OrderType \union {None}] /\ orders'[ord] = row
      /\ \A o \in Orders \ {ord} : orders'[o] = orders[o]
  BY <1>1 DEF TypeOK
<1>3. \A o \in Orders : KindOf[o] # "manual" /\ Completed(o) => Completed(o)'
  BY <1>1, <1>2 DEF Completed
<1>4. Keeps(ord)
  BY <1>1, <1>2, <1>3 DEF Keeps, Known
<1>5. PlacedOnce' /\ \A k \in Handlers : Sound(k)'
  BY <1>4, HandlerMoves
<1>6. BillingTyped'
  <2>1. \A k \in Handlers : handlers'[k].stage \in Stages
    BY DEF HandlerType
  <2> QED BY <1>2, <2>1 DEF BillingInv, BillingTyped, TypeOK
<1>7. Founders'
  BY DEF BillingInv, Founders, Known
<1>8. Books'
  <2>1. ASSUME NEW o \in Orders, orders'[o] # None
        PROVE  /\ orders'[o].org # None => Known(orders'[o].org)
               /\ orders'[o].status \in {"completed", "approved"} => Served(o, orders'[o].org)
    <3>1. CASE o = ord
      BY <1>2, <3>1
    <3>2. CASE o # ord
      BY <1>2, <2>1, <3>2 DEF BillingInv, Books
    <3> QED BY <3>1, <3>2
  <2> QED BY <2>1 DEF BillingInv, Books, Known, Served
<1>9. StripeKnows'
  <2>1. \A i \in DOMAIN events : events[i].order \in Orders
    BY <1>1 DEF TypeOK, EventType
  <2>2. sessions \subseteq Orders
    BY <1>1 DEF TypeOK, CheckoutOrders
  <2> QED BY <1>1, <1>2, <2>1, <2>2 DEF BillingInv, StripeKnows
<1>10. Acknowledged'
  <2>1. \A e \in processed : e \in DOMAIN events /\ events[e].order \in Orders
    BY <1>1 DEF TypeOK, EventType
  <2>2. \A e \in processed : events[e].fact = "checkout" => KindOf[events[e].order] # "manual"
    BY <2>1 DEF BillingInv, StripeKnows
  <2>3. ASSUME NEW e \in processed
        PROVE  IF events[e].fact = "checkout" THEN Completed(events[e].order)'
                                              ELSE <<"updated", e>> \in audits
    BY <1>3, <2>1, <2>2 DEF BillingInv, Acknowledged
  <2> QED BY <2>3 DEF Acknowledged, Completed
<1> QED BY <1>5, <1>6, <1>7, <1>8, <1>9, <1>10 DEF BillingInv

LEMMA OrdersKeepInv ==
  ASSUME BillingAssumption, BillingInv, NEW h \in Handlers,
         InsertOrder(h) \/ Close(h) \/ RejectRequest(h)
  PROVE  BillingInv'
<1> DEFINE m == handlers[h]
<1>1. /\ m \in HandlerType /\ TypeOK /\ m.stage # "idle"
      /\ AtWork(h) /\ (m.kind = "webhook" => OnEvent(h)) /\ Granted(h)
  BY DEF BillingInv, BillingTyped, Sound, InsertOrder, Close, RejectRequest
<1>2. /\ UNCHANGED <<founded, members, entitlements, mirror, processed, audits>>
      /\ UNCHANGED <<sessions, events, now, faults>>
  BY DEF InsertOrder, Close, RejectRequest, stripe
<1>3. /\ m.order \in Orders /\ m.kind \in HandlerKinds /\ m.stage \in StagesOf[m.kind]
      /\ m.org \in Orgs \union {None} /\ (m.org # None => Known(m.org))
  BY <1>1 DEF AtWork, HandlerType
<1>4. ASSUME NEW stage \in {"created", "resolved"}, Goto(h, stage), stage \in StagesOf[m.kind],
             NEW row \in OrderType, orders' = [orders EXCEPT ![m.order] = row],
             row.org # None => Known(row.org),
             row.status \in {"completed", "approved"} => Served(m.order, row.org),
             KindOf[m.order] # "manual" /\ Completed(m.order) => row.status = "completed",
             m.kind = "webhook" =>
               row.status = "completed" /\ stage = "resolved" /\ events[m.event].fact = "checkout"
      PROVE  BillingInv'
  <2>1. /\ handlers' \in [Handlers -> HandlerType]
        /\ \A k \in Handlers \ {h} : handlers'[k] = handlers[k]
        /\ handlers'[h].stage = stage /\ handlers'[h].kind = m.kind
        /\ handlers'[h].order = m.order /\ handlers'[h].event = m.event
        /\ handlers'[h].org = m.org
    BY <1>4, GotoRecord DEF Stages
  <2>2. ~Placing(h)' /\ orders'[m.order] = row /\ row # None
    BY <1>1, <1>3, <1>4, <2>1 DEF Placing, TypeOK, BillingAssumption
  <2>3. AtWork(h)'
    BY <1>1, <1>2, <1>3, <1>4, <2>1, <2>2 DEF AtWork, Known
  <2>4. m.kind = "webhook" => OnEvent(h)'
    BY <1>1, <1>2, <1>4, <2>1, <2>2 DEF OnEvent, Completed
  <2>5. Sound(h)'
    BY <1>4, <2>1, <2>3, <2>4 DEF Sound, Granted
  <2> QED BY <1>1, <1>2, <1>4, <2>1, <2>2, <2>5, OrderStep
<1>5. CASE InsertOrder(h)
  <2> DEFINE row == [status |-> "pending", org |-> m.org]
  <2>1. /\ m.stage = "insert" /\ m.kind \in {"checkout", "request"} /\ Placing(h)
        /\ Goto(h, "created") /\ orders' = [orders EXCEPT ![m.order] = row]
    BY <1>3, <1>5 DEF InsertOrder, HandlerKinds, StagesOf, Placing
  <2>2. row \in OrderType /\ row.org = m.org /\ row.status = "pending"
    BY <1>3 DEF OrderType
  <2>3. ~Completed(m.order) /\ "created" \in StagesOf[m.kind]
    BY <2>1 DEF BillingInv, PlacedOnce, Completed, StagesOf
  <2> HIDE DEF row
  <2> QED BY <1>3, <1>4, <2>1, <2>2, <2>3
<1>6. CASE Close(h)
  <2> DEFINE row == [status |-> IF KindOf[m.order] = "manual" THEN "approved" ELSE "completed",
                     org |-> m.org]
  <2>1. /\ m.stage = "resolve" /\ m.kind \in {"webhook", "approve"}
        /\ Goto(h, "resolved") /\ orders' = [orders EXCEPT ![m.order] = row]
    BY <1>3, <1>6 DEF Close, HandlerKinds, StagesOf
  <2>2. row \in OrderType /\ row.org = m.org
    BY <1>3 DEF OrderType
  <2>3. Served(m.order, m.org) /\ "resolved" \in StagesOf[m.kind]
    BY <1>1, <2>1 DEF Granted, StagesOf
  <2>4. KindOf[m.order] # "manual" => row.status = "completed"
    OBVIOUS
  <2>5. m.kind = "webhook" => events[m.event].fact = "checkout" /\ KindOf[m.order] # "manual"
    BY <1>1, <2>1 DEF OnEvent, BillingInv, StripeKnows
  <2> HIDE DEF row
  <2> QED BY <1>3, <1>4, <2>1, <2>2, <2>3, <2>4, <2>5
<1>7. CASE RejectRequest(h)
  <2> DEFINE row == [orders[m.order] EXCEPT !.status = "rejected"]
  <2>1. /\ m.stage = "reject" /\ m.kind = "reject" /\ Goto(h, "resolved")
        /\ orders' = [orders EXCEPT ![m.order].status = "rejected"]
    BY <1>3, <1>7 DEF RejectRequest, HandlerKinds, StagesOf
  <2>2. orders[m.order] \in OrderType /\ orders[m.order] # None
    BY <1>1, <1>3, <2>1 DEF AtWork, Placing, TypeOK
  <2>3. orders' = [orders EXCEPT ![m.order] = row]
    BY <2>1
  <2>4. row \in OrderType /\ row.org = orders[m.order].org /\ row.status = "rejected"
    BY <2>2 DEF OrderType
  <2>5. KindOf[m.order] = "manual" /\ "resolved" \in StagesOf[m.kind]
    BY <1>1, <2>1 DEF AtWork, StagesOf
  <2>6. row.org # None => Known(row.org)
    BY <1>3, <2>2, <2>4 DEF BillingInv, Books
  <2> HIDE DEF row
  <2> QED BY <1>3, <1>4, <2>1, <2>3, <2>4, <2>5, <2>6
<1> QED BY <1>5, <1>6, <1>7

-----------------------------------------------------------------------------
(* Steps that serve an order *)

\* What an order is granted is an entitlement.
LEMMA PurchasedTyped ==
  ASSUME BillingAssumption, BillingInv, NEW o \in Orders
  PROVE  Purchased(o) \in EntitlementType /\ Purchased(o) # None
<1>1. now + PilotDuration \in Nat
  BY DEF BillingInv, BillingTyped, TypeOK, PilotDuration, BillingAssumption
<1>2. Purchased(o) \in EntitlementType
  BY <1>1 DEF Purchased, EntitlementType, Statuses, Dates
<1> QED BY <1>2 DEF BillingAssumption

\* An entitlement of an organization that is there is written.
LEMMA EntitlementStep ==
  ASSUME BillingAssumption, BillingInv, NEW h \in Handlers,
         handlers[h].stage # "idle", NEW g \in Orgs, Known(g), NEW row \in EntitlementType,
         entitlements' = [entitlements EXCEPT ![g] = row],
         UNCHANGED <<orders, founded, members, mirror, processed, audits>>,
         UNCHANGED <<sessions, events, now, faults>>,
         handlers' \in [Handlers -> HandlerType],
         \A k \in Handlers \ {h} : handlers'[k] = handlers[k],
         handlers'[h].order = handlers[h].order, ~Placing(h)', Sound(h)'
  PROVE  BillingInv'
<1> DEFINE ord == handlers[h].order
<1>1. TypeOK /\ row # None
  BY DEF BillingInv, BillingTyped, BillingAssumption
<1>2. /\ entitlements' \in [Orgs -> EntitlementType \union {None}] /\ entitlements'[g] # None
      /\ \A k \in Orgs \ {g} : entitlements'[k] = entitlements[k]
  BY <1>1 DEF TypeOK
<1>3. \A k \in Orgs : entitlements[k] # None => entitlements'[k] # None
  BY <1>2
<1>4. Keeps(ord)
  BY <1>3 DEF Keeps, Known, Completed
<1>5. PlacedOnce' /\ \A k \in Handlers : Sound(k)'
  BY <1>4, HandlerMoves
<1>6. BillingTyped'
  <2>1. \A k \in Handlers : handlers'[k].stage \in Stages
    BY DEF HandlerType
  <2> QED BY <1>2, <2>1 DEF BillingInv, BillingTyped, TypeOK
<1>7. Founders' /\ StripeKnows' /\ Acknowledged'
  BY DEF BillingInv, Founders, Known, StripeKnows, Acknowledged, Completed
<1>8. Books'
  <2>1. ASSUME NEW o \in Orders, orders[o] # None
        PROVE  /\ orders[o].org # None => Known(orders[o].org)
               /\ orders[o].status \in {"completed", "approved"} => Served(o, orders[o].org)'
    <3>1. orders[o].org \in Orgs \union {None}
      BY <1>1, <2>1 DEF TypeOK, OrderType
    <3> QED BY <1>3, <2>1, <3>1 DEF BillingInv, Books, Served
  <2>2. \A k \in Orgs : entitlements'[k] # None => Known(k)
    BY <1>2 DEF BillingInv, Books
  <2> QED BY <2>1, <2>2 DEF Books, Known, Served
<1> QED BY <1>5, <1>6, <1>7, <1>8 DEF BillingInv

LEMMA EntitlementsKeepInv ==
  ASSUME BillingAssumption, BillingInv, NEW h \in Handlers, Activate(h) \/ UpdateEntitlement(h)
  PROVE  BillingInv'
<1> DEFINE m == handlers[h]
           g == m.org
<1>1. /\ m \in HandlerType /\ TypeOK /\ m.stage # "idle"
      /\ AtWork(h) /\ (m.kind = "webhook" => OnEvent(h)) /\ Granted(h)
  BY DEF BillingInv, BillingTyped, Sound, Activate, UpdateEntitlement
<1>2. /\ UNCHANGED <<orders, founded, members, mirror, processed, audits>>
      /\ UNCHANGED <<sessions, events, now, faults>>
  BY DEF Activate, UpdateEntitlement, stripe
<1>3. /\ m.order \in Orders /\ m.kind \in HandlerKinds /\ m.stage \in StagesOf[m.kind]
      /\ g \in Orgs \union {None} /\ (g # None => Known(g))
  BY <1>1 DEF AtWork, HandlerType
<1>4. ASSUME NEW stage \in {"sync", "updated"}, Goto(h, stage), stage \in StagesOf[m.kind],
             g # None, NEW row \in EntitlementType, entitlements' = [entitlements EXCEPT ![g] = row],
             m.kind = "webhook" => (stage = "sync" <=> events[m.event].fact = "checkout"),
             ~Placing(h)
      PROVE  BillingInv'
  <2>1. /\ handlers' \in [Handlers -> HandlerType]
        /\ \A k \in Handlers \ {h} : handlers'[k] = handlers[k]
        /\ handlers'[h].stage = stage /\ handlers'[h].kind = m.kind
        /\ handlers'[h].order = m.order /\ handlers'[h].event = m.event
        /\ handlers'[h].org = m.org
    BY <1>4, GotoRecord DEF Stages
  <2>2. ~Placing(h)' /\ entitlements'[g] = row /\ row # None
    BY <1>1, <1>3, <1>4, <2>1 DEF Placing, TypeOK, BillingAssumption
  <2>3. AtWork(h)'
    BY <1>1, <1>2, <1>3, <1>4, <2>1 DEF AtWork, Known
  <2>4. m.kind = "webhook" => OnEvent(h)'
    BY <1>1, <1>2, <1>4, <2>1 DEF OnEvent
  <2>5. Granted(h)'
    BY <1>4, <2>1, <2>2 DEF Granted
  <2>6. Sound(h)'
    BY <2>1, <2>3, <2>4, <2>5 DEF Sound
  <2> QED BY <1>1, <1>2, <1>3, <1>4, <2>1, <2>2, <2>6, EntitlementStep
<1>5. CASE Activate(h)
  <2> DEFINE row == Purchased(m.order)
  <2>1. /\ m.stage = "grant" /\ g # None /\ m.kind \in {"webhook", "approve"} /\ Goto(h, "sync")
        /\ entitlements' = [entitlements EXCEPT ![g] = row]
    BY <1>3, <1>5 DEF Activate, HandlerKinds, StagesOf
  <2>2. row \in EntitlementType
    BY <1>3, PurchasedTyped
  <2>3. "sync" \in StagesOf[m.kind] /\ ~Placing(h)
    BY <2>1 DEF StagesOf, Placing
  <2>4. m.kind = "webhook" => events[m.event].fact = "checkout"
    BY <1>1, <2>1 DEF OnEvent
  <2> HIDE DEF row
  <2> QED BY <1>4, <2>1, <2>2, <2>3, <2>4
<1>6. CASE UpdateEntitlement(h)
  <2> DEFINE change == m.change
             row == [entitlements[g] EXCEPT
                       !.status = change.status, !.periodEnd = change.periodEnd,
                       !.graceEnds = change.graceEnds,
                       !.cancelAtPeriodEnd = change.cancelAtPeriodEnd]
  <2>1. /\ m.stage = "update" /\ m.kind = "webhook" /\ Goto(h, "updated")
        /\ entitlements' = [entitlements EXCEPT
             ![g].status = change.status, ![g].periodEnd = change.periodEnd,
             ![g].graceEnds = change.graceEnds, ![g].cancelAtPeriodEnd = change.cancelAtPeriodEnd]
    BY <1>3, <1>6 DEF UpdateEntitlement, HandlerKinds, StagesOf
  <2>2. g # None /\ entitlements[g] # None /\ change # None /\ events[m.event].fact # "checkout"
    BY <1>1, <2>1 DEF OnEvent
  <2>3. entitlements[g] \in EntitlementType /\ change \in ChangeType
    BY <1>1, <1>3, <2>2 DEF TypeOK, HandlerType
  <2>4. row \in EntitlementType
    BY <2>3 DEF EntitlementType, ChangeType
  <2>5. entitlements' = [entitlements EXCEPT ![g] = row]
    BY <1>1, <1>3, <2>1, <2>2 DEF TypeOK
  <2>6. "updated" \in StagesOf[m.kind] /\ ~Placing(h)
    BY <2>1 DEF StagesOf, Placing
  <2> HIDE DEF row, change
  <2> QED BY <1>4, <2>1, <2>2, <2>4, <2>5, <2>6
<1> QED BY <1>5, <1>6

\* The founding transaction: a new organization, its founder and what they paid.
LEMMA FoundKeepsInv ==
  ASSUME BillingAssumption, BillingInv, NEW h \in Handlers, Found(h)
  PROVE  BillingInv'
<1> DEFINE m == handlers[h]
           ord == m.order
           buyer == BuyerOf[ord]
<1>1. /\ m \in HandlerType /\ TypeOK /\ m.stage = "grant" /\ m.stage # "idle"
      /\ AtWork(h) /\ (m.kind = "webhook" => OnEvent(h))
  BY DEF BillingInv, BillingTyped, Sound, Found
<1>2. ord \in Orders /\ m.kind \in {"webhook", "approve"} /\ ~Placing(h) /\ buyer \in Users
  BY <1>1 DEF AtWork, HandlerKinds, StagesOf, Placing, BillingAssumption
<1>3. UNCHANGED <<sessions, events, now, faults>>
  BY DEF Found, stripe
<1>4. CASE End(h) /\ UNCHANGED tables
  <2>1. UNCHANGED stripe /\ now' = now /\ faults' \in 0 .. MaxFaults
    BY <1>1, <1>3 DEF stripe, TypeOK
  <2> QED BY <1>1, <1>4, <2>1, EndStep
<1>5. ASSUME members[buyer] = None, NEW g \in Orgs, founded[g] = None,
             \A u \in Users : InitialMembers[u] # g,
             founded' = [founded EXCEPT ![g] = ord], members' = [members EXCEPT ![buyer] = g],
             entitlements' = [entitlements EXCEPT ![g] = Purchased(ord)],
             With(h, "sync", g), UNCHANGED <<orders, mirror, processed, audits>>
      PROVE  BillingInv'
  <2>1. ~Known(g) /\ entitlements[g] = None /\ g # None /\ ord # None
    BY <1>2, <1>5 DEF Known, BillingInv, Books, BillingAssumption
  <2>2. /\ founded' \in [Orgs -> Orders \union {None}] /\ founded'[g] = ord
        /\ \A k \in Orgs \ {g} : founded'[k] = founded[k]
    BY <1>1, <1>2, <1>5 DEF TypeOK
  <2>3. /\ members' \in [Users -> Orgs \union {None}] /\ members'[buyer] = g
        /\ \A u \in Users \ {buyer} : members'[u] = members[u]
    BY <1>1, <1>2, <1>5 DEF TypeOK
  <2>4. Purchased(ord) \in EntitlementType /\ Purchased(ord) # None
    BY <1>2, PurchasedTyped
  <2>5. /\ entitlements' \in [Orgs -> EntitlementType \union {None}] /\ entitlements'[g] # None
        /\ \A k \in Orgs \ {g} : entitlements'[k] = entitlements[k]
    BY <1>1, <1>5, <2>4 DEF TypeOK
  <2>6. /\ handlers' \in [Handlers -> HandlerType]
        /\ \A k \in Handlers \ {h} : handlers'[k] = handlers[k]
        /\ handlers'[h].stage = "sync" /\ handlers'[h].kind = m.kind
        /\ handlers'[h].order = ord /\ handlers'[h].event = m.event /\ handlers'[h].org = g
    BY <1>5, WithRecord DEF Stages
  <2>7. \A k \in Orgs : Known(k) => Known(k)' /\ founded'[k] = founded[k]
    BY <2>1, <2>2 DEF Known
  <2>8. Known(g)'
    BY <2>1, <2>2 DEF Known
  <2>9. Keeps(ord)
    <3>1. \A k \in Orgs : entitlements[k] # None => entitlements'[k] # None
      BY <2>5
    <3> QED BY <1>3, <1>5, <2>7, <3>1 DEF Keeps, Completed
  <2>10. ~Placing(h)' /\ Sound(h)'
    <3>1. AtWork(h)'
      <4>1. orders'[ord] # None /\ "sync" \in StagesOf[m.kind] /\ m.kind \in HandlerKinds
        BY <1>1, <1>2, <1>5 DEF AtWork, StagesOf, HandlerKinds
      <4>2. m.kind \in {"request", "approve", "reject"} => KindOf[ord] = "manual"
        BY <1>1 DEF AtWork
      <4> QED BY <1>2, <2>6, <2>8, <4>1, <4>2 DEF AtWork
    <3>2. m.kind = "webhook" => OnEvent(h)'
      BY <1>1, <1>3, <2>6 DEF OnEvent
    <3>3. Granted(h)'
      BY <2>1, <2>5, <2>6 DEF Granted
    <3> QED BY <2>6, <3>1, <3>2, <3>3 DEF Sound, Placing
  <2>11. PlacedOnce' /\ \A k \in Handlers : Sound(k)'
    BY <1>1, <2>6, <2>9, <2>10, HandlerMoves
  <2>12. BillingTyped'
    <3>1. \A k \in Handlers : handlers'[k].stage \in Stages
      BY <2>6 DEF HandlerType
    <3> QED BY <1>3, <1>5, <2>2, <2>3, <2>5, <2>6, <3>1 DEF BillingInv, BillingTyped, TypeOK
  <2>13. Founders'
    <3>1. ASSUME NEW k \in Orgs, founded'[k] # None
          PROVE  members'[BuyerOf[founded'[k]]] = k
      <4>1. CASE k = g
        BY <2>2, <2>3, <4>1
      <4>2. CASE k # g
        <5>1. founded'[k] = founded[k] /\ members[BuyerOf[founded[k]]] = k
          BY <2>2, <3>1, <4>2 DEF BillingInv, Founders
        <5>2. k # None /\ founded[k] \in Orders /\ BuyerOf[founded[k]] \in Users
          BY <1>1, <3>1, <5>1 DEF TypeOK, BillingAssumption
        <5>3. BuyerOf[founded[k]] # buyer
          BY <1>5, <5>1, <5>2
        <5> QED BY <2>3, <5>1, <5>2, <5>3
      <4> QED BY <4>1, <4>2
    <3>2. ASSUME NEW u \in Users, members'[u] # None
          PROVE  Known(members[u])'
      <4>1. CASE u = buyer
        BY <2>3, <2>8, <4>1
      <4>2. CASE u # buyer
        <5>1. members'[u] = members[u] /\ members[u] \in Orgs /\ Known(members[u])
          BY <1>1, <2>3, <3>2, <4>2 DEF BillingInv, Founders, TypeOK
        <5> QED BY <2>7, <5>1
      <4> QED BY <4>1, <4>2
    <3> QED BY <3>1, <3>2 DEF Founders
  <2>14. Books'
    <3>1. ASSUME NEW o \in Orders, orders'[o] # None
          PROVE  /\ orders'[o].org # None => Known(orders[o].org)'
                 /\ orders'[o].status \in {"completed", "approved"} => Served(o, orders[o].org)'
      <4>1. orders' = orders /\ orders[o].org \in Orgs \union {None}
        BY <1>1, <1>5, <3>1 DEF TypeOK, OrderType
      <4>2. /\ orders[o].org # None => Known(orders[o].org)
            /\ orders[o].status \in {"completed", "approved"} => Served(o, orders[o].org)
        BY <3>1, <4>1 DEF BillingInv, Books
      <4>3. orders[o].org # None => Known(orders[o].org)'
        BY <2>7, <4>1, <4>2
      <4>4. ASSUME orders[o].status \in {"completed", "approved"}
            PROVE  Served(o, orders[o].org)'
        <5>1. PICK k \in Orgs : k = orders[o].org
          BY <4>1, <4>2, <4>4 DEF Served
        <5>2. Served(o, k) /\ Known(k)
          BY <4>1, <4>2, <4>4, <5>1 DEF Served
        <5>3. Served(o, k)'
          BY <2>9, <5>2, ServedStays
        <5> QED BY <4>1, <5>1, <5>3 DEF Served
      <4> QED BY <4>1, <4>3, <4>4
    <3>2. \A k \in Orgs : entitlements'[k] # None => Known(k)'
      BY <2>5, <2>7, <2>8 DEF BillingInv, Books
    <3> QED BY <3>1, <3>2 DEF Books
  <2>15. StripeKnows' /\ Acknowledged'
    BY <1>3, <1>5 DEF BillingInv, StripeKnows, Acknowledged, Completed
  <2> QED BY <2>11, <2>12, <2>13, <2>14, <2>15 DEF BillingInv
<1>6. \/ End(h) /\ UNCHANGED tables
      \/ /\ members[buyer] = None
         /\ \E g \in Orgs :
              /\ founded[g] = None
              /\ \A u \in Users : InitialMembers[u] # g
              /\ founded' = [founded EXCEPT ![g] = ord]
              /\ members' = [members EXCEPT ![buyer] = g]
              /\ entitlements' = [entitlements EXCEPT ![g] = Purchased(ord)]
              /\ With(h, "sync", g)
         /\ UNCHANGED <<orders, mirror, processed, audits>>
  BY DEF Found, MembershipRefused
<1> QED BY <1>4, <1>5, <1>6

\* The mirror follows the buyer: whoever founded an organization is in it.
LEMMA SyncKeepsInv ==
  ASSUME BillingAssumption, BillingInv, NEW h \in Handlers, SyncRole(h)
  PROVE  BillingInv'
<1> DEFINE m == handlers[h]
           ord == m.order
           buyer == BuyerOf[ord]
<1>1. /\ m \in HandlerType /\ TypeOK /\ m.stage = "sync" /\ m.stage # "idle"
      /\ AtWork(h) /\ (m.kind = "webhook" => OnEvent(h)) /\ Granted(h)
  BY DEF BillingInv, BillingTyped, Sound, SyncRole
<1>2. ord \in Orders /\ m.kind \in {"webhook", "approve"} /\ ~Placing(h) /\ buyer \in Users
  BY <1>1 DEF AtWork, HandlerKinds, StagesOf, Placing, BillingAssumption
<1>3. /\ UNCHANGED <<orders, founded, members, entitlements, processed, audits>>
      /\ UNCHANGED <<sessions, events, now, faults>>
  BY DEF SyncRole, stripe
<1>4. /\ mirror' \in [Users -> Orgs \union {None}] /\ mirror'[buyer] = members[buyer]
      /\ \A u \in Users \ {buyer} : mirror'[u] = mirror[u]
  BY <1>1, <1>2 DEF SyncRole, TypeOK
<1>5. /\ handlers' \in [Handlers -> HandlerType]
      /\ \A k \in Handlers \ {h} : handlers'[k] = handlers[k]
      /\ handlers'[h].stage = "resolve" /\ handlers'[h].kind = m.kind
      /\ handlers'[h].order = ord /\ handlers'[h].event = m.event /\ handlers'[h].org = m.org
  BY GotoRecord DEF SyncRole, Stages
<1>6. \A g \in Orgs : founded[g] # None /\ mirror[BuyerOf[founded[g]]] = g =>
        mirror'[BuyerOf[founded[g]]] = g
  <2>1. ASSUME NEW g \in Orgs, founded[g] # None, mirror[BuyerOf[founded[g]]] = g
        PROVE  mirror'[BuyerOf[founded[g]]] = g
    <3>1. members[BuyerOf[founded[g]]] = g /\ BuyerOf[founded[g]] \in Users
      BY <1>1, <2>1 DEF BillingInv, Founders, TypeOK, BillingAssumption
    <3> QED BY <1>4, <2>1, <3>1
  <2> QED BY <2>1
<1>7. Keeps(ord)
  BY <1>3, <1>6 DEF Keeps, Known, Completed
<1>8. ~Placing(h)' /\ Sound(h)'
  <2>1. AtWork(h)'
    <3>1. "resolve" \in StagesOf[m.kind] /\ orders[ord] # None
      BY <1>1, <1>2 DEF AtWork, StagesOf
    <3> QED BY <1>1, <1>3, <1>5, <3>1 DEF AtWork, Known
  <2>2. m.kind = "webhook" => OnEvent(h)'
    BY <1>1, <1>3, <1>5 DEF OnEvent
  <2>3. Served(ord, m.org)'
    <3>1. m.org # None /\ entitlements[m.org] # None /\ m.org \in Orgs
      BY <1>1 DEF Granted, HandlerType
    <3>2. founded[m.org] = ord => members[buyer] = m.org
      BY <1>2, <3>1 DEF BillingInv, Founders, BillingAssumption
    <3> QED BY <1>3, <1>4, <1>5, <3>1, <3>2 DEF Served
  <2> QED BY <1>5, <2>1, <2>2, <2>3 DEF Sound, Placing, Granted
<1>9. PlacedOnce' /\ \A k \in Handlers : Sound(k)'
  BY <1>1, <1>3, <1>5, <1>7, <1>8, HandlerMoves
<1>10. BillingTyped'
  <2>1. \A k \in Handlers : handlers'[k].stage \in Stages
    BY <1>5 DEF HandlerType
  <2> QED BY <1>3, <1>4, <1>5, <2>1 DEF BillingInv, BillingTyped, TypeOK
<1>11. Founders' /\ StripeKnows' /\ Acknowledged'
  BY <1>3 DEF BillingInv, Founders, Known, StripeKnows, Acknowledged, Completed
<1>12. Books'
  <2>1. ASSUME NEW o \in Orders, orders[o] # None, orders[o].status \in {"completed", "approved"}
        PROVE  Served(o, orders[o].org)'
    <3>1. PICK k \in Orgs : k = orders[o].org
      BY <1>1, <2>1 DEF BillingInv, Books, Served, TypeOK, OrderType
    <3>2. Served(o, k) /\ Known(k)
      BY <2>1, <3>1 DEF BillingInv, Books, BillingAssumption
    <3>3. Served(o, k)'
      BY <1>7, <3>2, ServedStays
    <3> QED BY <1>3, <3>1, <3>3 DEF Served
  <2>2. /\ \A o \in Orders : orders[o] # None /\ orders[o].org # None => Known(orders[o].org)'
        /\ \A g \in Orgs : entitlements[g] # None => Known(g)'
    BY <1>3 DEF BillingInv, Books, Known
  <2> QED BY <1>3, <2>1, <2>2 DEF Books
<1> QED BY <1>9, <1>10, <1>11, <1>12 DEF BillingInv

-----------------------------------------------------------------------------
(* A request or a delivery arrives *)

LEMMA BeginStep ==
  ASSUME BillingAssumption, BillingInv, NEW h \in Handlers, NEW kind \in HandlerKinds,
         NEW stage \in {"membership", "event", "pending"}, NEW o \in Orders,
         NEW e \in Nat \union {None}, Begin(h, kind, stage, o, e), stage \in StagesOf[kind],
         IF stage = "membership" THEN Fresh(o) ELSE orders[o] # None,
         kind \in {"request", "approve", "reject"} => KindOf[o] = "manual",
         kind = "checkout" => KindOf[o] # "manual",
         kind = "webhook" => e \in DOMAIN events /\ events[e].order = o
  PROVE  BillingInv'
<1>1. /\ handlers[h].stage = "idle" /\ UNCHANGED <<tables, stripe>> /\ now' = now /\ faults' = faults
      /\ handlers' = [handlers EXCEPT ![h] =
           [Idle EXCEPT !.kind = kind, !.stage = stage, !.order = o, !.event = e]]
  BY DEF Begin
<1>2. TypeOK /\ handlers \in [Handlers -> HandlerType]
  BY DEF BillingInv, BillingTyped
<1>3. /\ UNCHANGED <<orders, founded, members, entitlements, mirror, processed, audits>>
      /\ UNCHANGED <<sessions, events>>
  BY <1>1 DEF tables, stripe
<1>4. /\ handlers' \in [Handlers -> HandlerType]
      /\ \A k \in Handlers \ {h} : handlers'[k] = handlers[k]
      /\ handlers'[h].stage = stage /\ handlers'[h].kind = kind
      /\ handlers'[h].order = o /\ handlers'[h].event = e /\ handlers'[h].org = None
  <2> DEFINE next == [Idle EXCEPT !.kind = kind, !.stage = stage, !.order = o, !.event = e]
  <2>1. /\ next \in HandlerType
        /\ next.stage = stage /\ next.kind = kind /\ next.order = o /\ next.event = e
        /\ next.org = None
    BY DEF Idle, HandlerType, Stages
  <2>2. handlers' = [handlers EXCEPT ![h] = next]
    BY <1>1
  <2> HIDE DEF next
  <2> QED BY <1>2, <2>1, <2>2
<1>5. Placing(h)' <=> stage = "membership"
  BY <1>4 DEF Placing
<1>6. Sound(h)'
  <2>1. AtWork(h)'
    BY <1>3, <1>4, <1>5 DEF AtWork
  <2>2. kind = "webhook" => OnEvent(h)'
    BY <1>3, <1>4 DEF OnEvent, StagesOf
  <2> QED BY <1>4, <2>1, <2>2 DEF Sound, Granted
<1>7. Keeps(None)
  BY <1>3, QuietKeeps
<1>8. ASSUME NEW k \in Handlers \ {h}
      PROVE  Sound(k)'
  <2>1. Placing(k) => handlers[k].order # None
    BY DEF BillingInv, Sound, AtWork, Placing, BillingAssumption
  <2> QED BY <1>4, <1>7, <2>1, SoundStays
<1>9. PlacedOnce'
  <2>1. ASSUME NEW k \in Handlers, Placing(k)'
        PROVE  /\ (orders[handlers[k].order] = None)' /\ (handlers[k].order \notin sessions)'
               /\ \A l \in Handlers \ {k} : (~(handlers[l].order = handlers[k].order))'
    <3>1. CASE k = h
      BY <1>3, <1>4, <1>5, <2>1, <3>1 DEF Fresh
    <3>2. CASE k # h
      <4>1. Placing(k) /\ handlers'[k] = handlers[k]
        BY <1>4, <2>1, <3>2 DEF Placing
      <4>2. /\ orders[handlers[k].order] = None /\ handlers[k].order \notin sessions
            /\ \A l \in Handlers \ {k} : handlers[l].order # handlers[k].order
        BY <4>1 DEF BillingInv, PlacedOnce
      <4>3. handlers[k].order # o
        BY <4>2 DEF Fresh
      <4> QED BY <1>3, <1>4, <3>2, <4>1, <4>2, <4>3
    <3> QED BY <3>1, <3>2
  <2> QED BY <2>1 DEF PlacedOnce
<1>10. now' \in 0 .. MaxTime /\ faults' \in 0 .. MaxFaults
  BY <1>1, <1>2 DEF TypeOK
<1> QED BY <1>1, <1>4, <1>6, <1>8, <1>9, <1>10, TablesStay DEF BillingInv

LEMMA BeginsKeepInv ==
  ASSUME BillingAssumption, BillingInv, NEW h \in Handlers,
         \/ \E o \in Orders : \/ PlaceOrder(h, o) \/ ResolveRequest(h, o, "approve")
                              \/ ResolveRequest(h, o, "reject")
         \/ DeliverAny(h)
  PROVE  BillingInv'
<1>1. ASSUME NEW o \in Orders, PlaceOrder(h, o)
      PROVE  BillingInv'
  <2> DEFINE kind == IF KindOf[o] = "manual" THEN "request" ELSE "checkout"
  <2>1. kind \in HandlerKinds /\ "membership" \in StagesOf[kind] /\ kind # "webhook"
    BY DEF HandlerKinds, StagesOf
  <2>2. /\ kind \in {"request", "approve", "reject"} => KindOf[o] = "manual"
        /\ kind = "checkout" => KindOf[o] # "manual"
    OBVIOUS
  <2>3. Fresh(o) /\ Begin(h, kind, "membership", o, None)
    BY <1>1 DEF PlaceOrder
  <2> HIDE DEF kind
  <2> QED BY <2>1, <2>2, <2>3, BeginStep
<1>2. ASSUME NEW o \in Orders, NEW kind \in {"approve", "reject"}, ResolveRequest(h, o, kind)
      PROVE  BillingInv'
  <2>1. kind \in HandlerKinds /\ "pending" \in StagesOf[kind]
    BY DEF HandlerKinds, StagesOf
  <2> QED BY <1>2, <2>1, BeginStep DEF ResolveRequest
<1>3. ASSUME NEW e \in DOMAIN events, Deliver(h, e)
      PROVE  BillingInv'
  <2>1. "webhook" \in HandlerKinds /\ "event" \in StagesOf["webhook"]
    BY DEF HandlerKinds, StagesOf
  <2>2. e \in Nat /\ events[e].order \in Orders /\ orders[events[e].order] # None
    BY DEF BillingInv, BillingTyped, TypeOK, EventType, StripeKnows
  <2> QED BY <1>3, <2>1, <2>2, BeginStep DEF Deliver
<1> QED BY <1>1, <1>2, <1>3 DEF DeliverAny

-----------------------------------------------------------------------------
(* Stripe and the clock *)

LEMMA TellStep ==
  ASSUME BillingAssumption, BillingInv, NEW event \in EventType, Tell(event),
         orders[event.order] # None, event.fact = "checkout" => KindOf[event.order] # "manual",
         UNCHANGED <<tables, sessions, handlers, now, faults>>
  PROVE  BillingInv'
<1>1. /\ UNCHANGED <<orders, founded, members, entitlements, mirror, processed, audits>>
      /\ UNCHANGED <<sessions, handlers, now, faults>>
  BY DEF tables
<1>2. /\ events' \in Seq(EventType) /\ Len(events') = Len(events) + 1
      /\ events'[Len(events) + 1] = event
      /\ \A i \in DOMAIN events : i \in DOMAIN events' /\ events'[i] = events[i]
      /\ \A i \in DOMAIN events' : i \in DOMAIN events \/ i = Len(events) + 1
  BY DEF Tell, BillingInv, BillingTyped
<1>3. Keeps(None)
  BY <1>1, <1>2 DEF Keeps, Known, Completed
<1>4. ASSUME NEW k \in Handlers
      PROVE  Sound(k)'
  <2>1. Placing(k) => handlers[k].order # None
    BY DEF BillingInv, Sound, AtWork, Placing, BillingAssumption
  <2> QED BY <1>1, <1>3, <2>1, SoundStays
<1>5. PlacedOnce' /\ Founders' /\ Books'
  BY <1>1 DEF BillingInv, PlacedOnce, Placing, Founders, Books, Known, Served
<1>6. BillingTyped'
  <2>1. \A i \in DOMAIN events' : events'[i] \in EventType
    BY <1>2
  <2>2. processed \subseteq DOMAIN events'
    BY <1>2 DEF BillingInv, BillingTyped, TypeOK
  <2> QED BY <1>1, <1>2, <2>1, <2>2 DEF BillingInv, BillingTyped, TypeOK
<1>7. StripeKnows'
  <2>1. ASSUME NEW i \in DOMAIN events'
        PROVE  /\ orders[events'[i].order] # None
               /\ events'[i].fact = "checkout" => KindOf[events'[i].order] # "manual"
    BY <1>2 DEF BillingInv, StripeKnows
  <2> QED BY <1>1, <2>1 DEF BillingInv, StripeKnows
<1>8. Acknowledged'
  <2>1. \A e \in processed : events'[e] = events[e]
    BY <1>2 DEF BillingInv, BillingTyped, TypeOK
  <2> QED BY <1>1, <2>1 DEF BillingInv, Acknowledged, Completed
<1> QED BY <1>4, <1>5, <1>6, <1>7, <1>8 DEF BillingInv

LEMMA StripeKeepsInv ==
  ASSUME BillingAssumption, BillingInv, NEW o \in Orders, Pay(o) \/ SubscriptionFact(o)
  PROVE  BillingInv'
<1>1. CASE Pay(o)
  <2> DEFINE event == [fact |-> "checkout", order |-> o, periodEnd |-> None, cancel |-> None]
  <2>1. event \in EventType /\ event.order = o
    BY DEF EventType
  <2>2. orders[o] # None /\ KindOf[o] # "manual"
    BY <1>1 DEF Pay, BillingInv, BillingTyped, TypeOK, StripeKnows, CheckoutOrders
  <2>3. Tell(event) /\ UNCHANGED <<tables, sessions, handlers, now, faults>>
    BY <1>1 DEF Pay
  <2> HIDE DEF event
  <2> QED BY <2>1, <2>2, <2>3, TellStep
<1>2. CASE SubscriptionFact(o)
  <2>1. PICK f \in Facts :
          Tell([fact |-> f.fact, order |-> o, cancel |-> f.cancel,
                periodEnd |-> IF f.endsIn = None THEN None ELSE now + f.endsIn])
    BY <1>2 DEF SubscriptionFact
  <2> DEFINE event == [fact |-> f.fact, order |-> o, cancel |-> f.cancel,
                       periodEnd |-> IF f.endsIn = None THEN None ELSE now + f.endsIn]
  <2>2. f \in FactType /\ now \in Nat
    BY DEF BillingAssumption, BillingInv, BillingTyped, TypeOK
  <2>3. event \in EventType /\ event.order = o /\ event.fact = f.fact /\ f.fact # "checkout"
    BY <2>2 DEF EventType, FactType, Dates, LifecycleFacts
  <2>4. orders[o] # None
    BY <1>2 DEF SubscriptionFact, Told, BillingInv, StripeKnows
  <2>5. Tell(event) /\ UNCHANGED <<tables, sessions, handlers, now, faults>>
    BY <1>2, <2>1 DEF SubscriptionFact
  <2> HIDE DEF event
  <2> QED BY <2>3, <2>4, <2>5, TellStep
<1> QED BY <1>1, <1>2

LEMMA TickKeepsInv ==
  ASSUME BillingAssumption, BillingInv, Tick
  PROVE  BillingInv'
<1>1. /\ UNCHANGED <<tables, stripe>> /\ handlers' = handlers
      /\ now' \in 0 .. MaxTime /\ faults' \in 0 .. MaxFaults
  BY DEF Tick, BillingInv, BillingTyped, TypeOK, BillingAssumption
<1>2. /\ UNCHANGED <<orders, founded, entitlements, mirror, audits, sessions, events>>
  BY <1>1 DEF tables, stripe
<1>3. Keeps(None)
  BY <1>2, QuietKeeps
<1>4. ASSUME NEW k \in Handlers
      PROVE  Sound(k)'
  <2>1. Placing(k) => handlers[k].order # None
    BY DEF BillingInv, Sound, AtWork, Placing, BillingAssumption
  <2> QED BY <1>1, <1>3, <2>1, SoundStays
<1>5. PlacedOnce'
  BY <1>1, <1>2 DEF BillingInv, PlacedOnce, Placing
<1>6. handlers' \in [Handlers -> HandlerType]
  BY <1>1 DEF BillingInv, BillingTyped
<1> QED BY <1>1, <1>4, <1>5, <1>6, TablesStay DEF BillingInv

-----------------------------------------------------------------------------
(* The specification *)

LEMMA BillingStarts ==
  ASSUME BillingAssumption, Init
  PROVE  BillingInv
<1>1. BillingTyped
  <2>1. Idle \in HandlerType
    BY DEF Idle, HandlerType, Stages
  <2>2. \A h \in Handlers : handlers[h].stage \in Stages
    BY <2>1 DEF Init, HandlerType
  <2> QED BY <2>1, <2>2 DEF BillingTyped, Init, TypeOK, BillingAssumption, CheckoutOrders
<1>2. \A h \in Handlers : handlers[h].stage = "idle"
  BY DEF Init, Idle
<1>3. PlacedOnce /\ \A h \in Handlers : Sound(h)
  BY <1>2 DEF PlacedOnce, Placing, Sound
<1>4. Founders
  BY DEF Founders, Known, Init
<1>5. Books /\ StripeKnows /\ Acknowledged
  BY DEF Books, StripeKnows, Acknowledged, Init
<1> QED BY <1>1, <1>3, <1>4, <1>5 DEF BillingInv

LEMMA BillingSteps ==
  ASSUME BillingAssumption, BillingInv, [Next]_vars
  PROVE  BillingInv'
<1>1. CASE UNCHANGED vars
  <2>1. /\ UNCHANGED <<orders, founded, members, entitlements, mirror, processed, audits>>
        /\ UNCHANGED <<sessions, events, handlers, now, faults>>
    BY <1>1 DEF vars, tables, stripe
  <2>2. BillingTyped'
    BY <2>1 DEF BillingInv, BillingTyped, TypeOK
  <2>3. PlacedOnce' /\ Founders' /\ Books' /\ StripeKnows' /\ Acknowledged'
    BY <2>1 DEF BillingInv, PlacedOnce, Placing, Founders, Books, StripeKnows, Acknowledged, Known,
       Served, Completed
  <2>4. \A h \in Handlers : Sound(h)'
    BY <2>1 DEF BillingInv, Sound, AtWork, OnEvent, Granted, Placing, Known, Served, Completed
  <2> QED BY <2>2, <2>3, <2>4 DEF BillingInv
<1>2. ASSUME NEW h \in Handlers, Run(h)
      PROVE  BillingInv'
  <2>1. \/ ReadMembership(h) \/ CreateSession(h) \/ ReadEvent(h) \/ ReadIntent(h) \/ ReadPending(h)
        \/ FindEntitlement(h)
        \/ AnswerOrder(h) \/ AuditClose(h) \/ AuditActivation(h) \/ AuditUpdate(h)
        \/ MarkProcessed(h) \/ AuditRejection(h)
        \/ InsertOrder(h) \/ Close(h) \/ RejectRequest(h)
        \/ Activate(h) \/ UpdateEntitlement(h) \/ Found(h) \/ SyncRole(h)
    BY <1>2 DEF Run
  <2> QED BY <2>1, ReadsKeepInv, FindKeepsInv, NotesKeepInv, OrdersKeepInv, EntitlementsKeepInv,
             FoundKeepsInv, SyncKeepsInv
<1>3. CASE Next
  BY <1>2, <1>3, StripeKeepsInv, TickKeepsInv, BeginsKeepInv, FaultKeepsInv DEF Next
<1> QED BY <1>1, <1>3

\* What a handler may rely on where it is holds in every state: an order being
\* placed is known to its handler alone, and what is closed has been served.
THEOREM BillingInvariant == BillingAssumption => (Spec => []BillingInv)
<1> SUFFICES ASSUME BillingAssumption PROVE Spec => []BillingInv
  OBVIOUS
<1>1. Init => BillingInv
  BY BillingStarts
<1>2. BillingInv /\ [Next]_vars => BillingInv'
  BY BillingSteps
<1> QED BY <1>1, <1>2, PTL DEF Spec

\* An order is served once: a founder is in one organization only, and nobody
\* leaves one; what is served stays served, so an acknowledged event has been.
LEMMA ServedOnce ==
  ASSUME BillingAssumption, BillingInv
  PROVE  OrdersServedOnce
<1>1. TypeOK
  BY DEF BillingInv, BillingTyped
<1>2. \A g, k \in Orgs : founded[g] # None /\ founded[g] = founded[k] => g = k
  BY DEF BillingInv, Founders
<1>3. ASSUME NEW o \in Orders, orders[o] # None, orders[o].status \in {"completed", "approved"}
      PROVE  LET g == orders[o].org IN
             /\ g # None /\ entitlements[g] # None
             /\ founded[g] = o => members[BuyerOf[o]] = g /\ mirror[BuyerOf[o]] = g
  <2>1. PICK g \in Orgs : g = orders[o].org
    BY <1>1, <1>3 DEF BillingInv, Books, Served, TypeOK, OrderType
  <2>2. Served(o, g)
    BY <1>3, <2>1 DEF BillingInv, Books
  <2>3. founded[g] = o => members[BuyerOf[o]] = g
    BY DEF BillingInv, Founders, BillingAssumption
  <2> QED BY <2>1, <2>2, <2>3 DEF Served
<1>4. \A e \in processed :
        IF events[e].fact = "checkout" THEN orders[events[e].order].status = "completed"
                                       ELSE <<"updated", e>> \in audits
  BY DEF BillingInv, Acknowledged, Completed
<1> QED BY <1>2, <1>3, <1>4 DEF OrdersServedOnce

\* OrdersServedOnce in every state of every instance: a payment founds one
\* organization, an order closed with success has been served in both databases
\* and an event is acknowledged only after that (processStripeWebhook).
THEOREM OrdersServed == BillingAssumption => (Spec => []OrdersServedOnce)
<1> SUFFICES ASSUME BillingAssumption PROVE Spec => []OrdersServedOnce
  OBVIOUS
<1>1. Spec => []BillingInv
  BY BillingInvariant
<1>2. BillingInv => OrdersServedOnce
  BY ServedOnce
<1> QED BY <1>1, <1>2, PTL

\* The order in which the code looks at the status and the dates does not
\* matter: an entitlement gives access until the first of its deadlines.
LEMMA AccessEnds ==
  ASSUME BillingAssumption, NEW e \in EntitlementType, NEW t \in Nat
  PROVE  IsActive(e, t) <=> /\ e.status \in {"active", "grace_period"}
                            /\ \A d \in Deadlines(e) : t < d
<1>1. e # None
  BY DEF BillingAssumption
<1>2. /\ e.expires \in Nat \union {None} /\ e.periodEnd \in Nat \union {None}
      /\ e.graceEnds \in Nat \union {None} /\ e.cancelAtPeriodEnd \in BOOLEAN
      /\ e.status \in Statuses
  BY DEF EntitlementType, Dates
<1>3. (\A d \in Deadlines(e) : t < d) <=>
        /\ e.expires # None => t < e.expires
        /\ e.cancelAtPeriodEnd /\ e.periodEnd # None => t < e.periodEnd
        /\ e.status = "grace_period" /\ e.graceEnds # None => t < e.graceEnds
  BY <1>2 DEF Deadlines
<1>4. IsActive(e, t) <=> EffectiveStatus(e, t) \in {"active", "grace_period"}
  BY <1>1 DEF IsActive
<1> QED BY <1>2, <1>3, <1>4 DEF EffectiveStatus, Statuses

\* AccessUntilDeadline in every state of every instance (getEffectiveStatus).
THEOREM DeadlinesRespected == BillingAssumption => (Spec => []AccessUntilDeadline)
<1> SUFFICES ASSUME BillingAssumption PROVE Spec => []AccessUntilDeadline
  OBVIOUS
<1>1. Spec => []BillingInv
  BY BillingInvariant
<1>2. BillingInv => AccessUntilDeadline
  <2>1. 0 .. MaxTime + PilotDuration \subseteq Nat
    BY DEF BillingAssumption, PilotDuration
  <2>2. BillingInv => \A g \in Orgs : entitlements[g] # None => entitlements[g] \in EntitlementType
    BY DEF BillingInv, BillingTyped, TypeOK
  <2> QED BY <2>1, <2>2, AccessEnds DEF AccessUntilDeadline
<1> QED BY <1>1, <1>2, PTL
-----------------------------------------------------------------------------
(* Facts in order, one handler *)

\* Events are acknowledged from the oldest on.
OldestFirst == \A i \in processed : \A j \in 1 .. i : j \in processed

\* An order is paid once, before anything is told of its subscription.
PaidFirst ==
  /\ \A i \in DOMAIN events : Told(events[i].order, "checkout")
  /\ \A i, j \in DOMAIN events :
       events[i].order = events[j].order /\ events[j].fact = "checkout" => j <= i

\* The status an event gives an entitlement; the last event of its order that
\* was acknowledged, or the next one to be.
StatusBy(event) == IF event.fact = "checkout" THEN "active" ELSE StatusAfter(event.fact)

Current(i) ==
  \A j \in DOMAIN events : events[j].order = events[i].order =>
    IF i \in processed THEN j \in processed => j <= i
                       ELSE j \in processed \/ i <= j

StatusCurrent ==
  \A g \in Orgs :
    entitlements[g] # None /\ entitlements[g].order # None =>
      \E i \in DOMAIN events : /\ events[i].order = entitlements[g].order /\ Current(i)
                               /\ entitlements[g].status = StatusBy(events[i])

\* An order entitles one organization: the one it names, or the one it founded
\* and does not name yet.
HomeOf(o, g) ==
  orders[o] # None /\ (orders[o].org = g \/ (orders[o].org = None /\ founded[g] = o))

EntitledOnce ==
  \A g \in Orgs :
    entitlements[g] # None /\ entitlements[g].order # None => HomeOf(entitlements[g].order, g)

\* What the handler knows: its event is the next one; the entitlement it has
\* found is still its order's, and has got the status it wrote.
StatusIs(o, status) ==
  \A g \in Orgs :
    entitlements[g] # None /\ entitlements[g].order = o => entitlements[g].status = status

Ahead(h) ==
  LET m == handlers[h] IN
  m.stage # "idle" =>
    /\ m.kind = "webhook" => m.event \notin processed /\ \A j \in 1 .. m.event - 1 : j \in processed
    /\ m.stage = "grant" => m.org = orders[m.order].org
    /\ m.stage \in {"sync", "resolve"} => HomeOf(m.order, m.org)
    /\ m.stage = "update" => /\ entitlements[m.org].order = m.order
                             /\ m.change.status = StatusBy(events[m.event])
    /\ m.kind = "webhook" /\ m.stage \in {"updated", "mark"} /\ events[m.event].fact # "checkout" =>
         StatusIs(m.order, StatusBy(events[m.event]))

FollowInv ==
  /\ OldestFirst /\ PaidFirst /\ StatusCurrent /\ EntitledOnce
  /\ \A h \in Handlers : Ahead(h)

\* An order has one home.
LEMMA OneHome ==
  ASSUME BillingAssumption, BillingInv, NEW o \in Orders, NEW g \in Orgs, NEW k \in Orgs,
         HomeOf(o, g), HomeOf(o, k)
  PROVE  g = k
<1>1. o # None /\ g # None /\ k # None
  BY DEF BillingAssumption
<1>2. founded[g] = o /\ founded[k] = o => g = k
  BY <1>1 DEF BillingInv, Founders
<1> QED BY <1>1, <1>2 DEF HomeOf

\* A step that leaves events, acknowledgements and entitlements alone, and of
\* an order no more than its organization once it is known.
LEMMA NoFactMoves ==
  ASSUME BillingAssumption, BillingInv, FollowInv,
         UNCHANGED <<founded, entitlements, processed, events>>,
         \A o \in Orders, g \in Orgs : HomeOf(o, g) => HomeOf(o, g)',
         \A h \in Handlers : Ahead(h)'
  PROVE  FollowInv'
<1>1. OldestFirst' /\ PaidFirst'
  BY DEF FollowInv, OldestFirst, PaidFirst, Told
<1>2. StatusCurrent'
  BY DEF FollowInv, StatusCurrent, Current
<1>3. EntitledOnce'
  <2> SUFFICES ASSUME NEW g \in Orgs, entitlements[g] # None, entitlements[g].order # None
               PROVE  HomeOf(entitlements[g].order, g)'
    BY DEF EntitledOnce, HomeOf
  <2>1. entitlements[g].order \in Orders
    BY DEF BillingInv, BillingTyped, TypeOK, EntitlementType
  <2>2. HomeOf(entitlements[g].order, g)
    BY DEF FollowInv, EntitledOnce
  <2>3. \A o \in Orders : HomeOf(o, g) => HomeOf(o, g)'
    OBVIOUS
  <2> QED BY <2>1, <2>2, <2>3 DEF HomeOf
<1> QED BY <1>1, <1>2, <1>3 DEF FollowInv

\* The only handler is where it was, or goes on to a stage of which nothing is
\* claimed but what is claimed of the stages before.
LEMMA GoesOn ==
  ASSUME BillingInv, FollowInv, NEW h \in Handlers, handlers[h].stage # "idle",
         UNCHANGED <<processed, events>>, \A k \in Handlers : k = h,
         handlers'[h].kind = handlers[h].kind, handlers'[h].order = handlers[h].order,
         handlers'[h].event = handlers[h].event,
         \/ handlers'[h].stage \in {"membership", "session", "insert", "created", "event", "intent",
                                    "find", "reject", "pending", "resolved", "activated"}
         \/ handlers'[h].stage = "mark" /\ events[handlers[h].event].fact = "checkout"
  PROVE  \A k \in Handlers : Ahead(k)'
<1>1. Ahead(h)
  BY DEF FollowInv
<1>2. Ahead(h)'
  BY <1>1 DEF Ahead
<1> QED BY <1>2

\* The only handler answers.
LEMMA EndFollows ==
  ASSUME BillingAssumption, BillingInv, FollowInv, NEW h \in Handlers, \A k \in Handlers : k = h,
         End(h), UNCHANGED <<orders, founded, entitlements, processed, events>>
  PROVE  FollowInv'
<1>1. handlers'[h].stage = "idle"
  BY EndRecord
<1>2. \A k \in Handlers : Ahead(k)'
  BY <1>1 DEF Ahead
<1> QED BY <1>2, NoFactMoves DEF HomeOf

LEMMA QuietFollows ==
  ASSUME BillingAssumption, BillingInv, FollowInv, NEW h \in Handlers, \A k \in Handlers : k = h,
         \/ ReadMembership(h) \/ CreateSession(h) \/ ReadEvent(h) \/ ReadIntent(h) \/ ReadPending(h)
         \/ AnswerOrder(h) \/ AuditClose(h) \/ AuditActivation(h) \/ AuditRejection(h) \/ AuditUpdate(h)
         \/ SyncRole(h) \/ Fault(h)
  PROVE  FollowInv'
<1> DEFINE m == handlers[h]
<1>1. /\ m \in HandlerType /\ TypeOK /\ m.stage # "idle"
      /\ AtWork(h) /\ (m.kind = "webhook" => OnEvent(h)) /\ Ahead(h)
  BY DEF BillingInv, BillingTyped, Sound, FollowInv, ReadMembership, CreateSession, ReadEvent,
     ReadIntent, ReadPending, AnswerOrder, AuditClose, AuditActivation, AuditRejection, AuditUpdate,
     SyncRole, Fault
<1>2. UNCHANGED <<orders, founded, entitlements, processed, events>>
  BY DEF ReadMembership, CreateSession, ReadEvent, ReadIntent, ReadPending, AnswerOrder, AuditClose,
     AuditActivation, AuditRejection, AuditUpdate, SyncRole, Fault, tables, stripe
<1>3. SUFFICES ASSUME ~End(h) PROVE \A k \in Handlers : Ahead(k)'
  <2>1. CASE End(h)
    BY <1>2, <2>1, EndFollows
  <2> QED BY <1>2, <1>3, <2>1, NoFactMoves DEF HomeOf
<1> DEFINE Moves(stage) == Goto(h, stage) \/ \E org \in Orgs \union {None} : With(h, stage, org)
<1>4. ASSUME NEW stage \in Stages, Moves(stage)
      PROVE  /\ handlers'[h].stage = stage /\ handlers'[h].kind = m.kind
             /\ handlers'[h].order = m.order /\ handlers'[h].event = m.event
  BY <1>4, GotoRecord, WithRecord
<1>5. ASSUME NEW stage \in {"session", "insert", "intent", "find", "reject", "activated"},
             Moves(stage)
      PROVE  \A k \in Handlers : Ahead(k)'
  <2>1. stage \in Stages
    BY DEF Stages
  <2> HIDE DEF Moves
  <2>2. /\ handlers'[h].stage = stage /\ handlers'[h].kind = m.kind
        /\ handlers'[h].order = m.order /\ handlers'[h].event = m.event
    BY <1>4, <1>5, <2>1
  <2> QED BY <1>1, <1>2, <2>2, GoesOn
<1>6. CASE ReadMembership(h)
  <2>1. members[BuyerOf[m.order]] \in Orgs \union {None}
    BY <1>1 DEF TypeOK, AtWork, BillingAssumption
  <2>2. Moves("session") \/ Moves("insert")
    BY <1>6, <2>1 DEF ReadMembership
  <2> QED BY <1>5, <2>2
<1>7. CASE CreateSession(h)
  BY <1>5, <1>7 DEF CreateSession
<1>8. CASE ReadEvent(h)
  BY <1>3, <1>5, <1>8 DEF ReadEvent
<1>9. CASE ReadIntent(h)
  <2>1. m.kind = "webhook" /\ events[m.event].fact = "checkout" /\ orders[m.order] # None
    BY <1>1, <1>9 DEF ReadIntent, AtWork, StagesOf, HandlerKinds, OnEvent, Placing
  <2>2. orders[m.order].org \in Orgs \union {None}
    BY <1>1, <2>1 DEF TypeOK, AtWork, OrderType
  <2>3. CASE Goto(h, "mark")
    <3>1. /\ handlers'[h].stage = "mark" /\ handlers'[h].kind = m.kind
          /\ handlers'[h].order = m.order /\ handlers'[h].event = m.event
      BY <2>3, GotoRecord DEF Stages
    <3> QED BY <1>1, <1>2, <2>1, <3>1, GoesOn
  <2>4. CASE With(h, "grant", orders[m.order].org)
    <3>1. /\ handlers'[h].stage = "grant" /\ handlers'[h].kind = m.kind
          /\ handlers'[h].order = m.order /\ handlers'[h].event = m.event
          /\ handlers'[h].org = orders[m.order].org
      BY <2>2, <2>4, WithRecord DEF Stages
    <3>2. Ahead(h)'
      BY <1>1, <1>2, <3>1 DEF Ahead
    <3> QED BY <3>2
  <2> QED BY <1>3, <1>9, <2>3, <2>4 DEF ReadIntent
<1>10. CASE ReadPending(h)
  <2>1. orders[m.order].org \in Orgs \union {None}
    BY <1>1, <1>10 DEF TypeOK, AtWork, OrderType, ReadPending, Placing
  <2>2. CASE With(h, "grant", orders[m.order].org)
    <3>1. /\ handlers'[h].stage = "grant" /\ handlers'[h].kind = m.kind
          /\ handlers'[h].order = m.order /\ handlers'[h].event = m.event
          /\ handlers'[h].org = orders[m.order].org
      BY <2>1, <2>2, WithRecord DEF Stages
    <3>2. Ahead(h)'
      BY <1>1, <1>2, <3>1 DEF Ahead
    <3> QED BY <3>2
  <2>3. CASE With(h, "reject", orders[m.order].org)
    BY <1>5, <2>1, <2>3
  <2> QED BY <1>3, <1>10, <2>2, <2>3 DEF ReadPending
<1>11. CASE AnswerOrder(h) \/ AuditRejection(h) \/ Fault(h)
  BY <1>3, <1>11 DEF AnswerOrder, AuditRejection, Fault
<1>12. CASE AuditClose(h)
  BY <1>5, <1>12 DEF AuditClose
<1>13. CASE AuditActivation(h)
  <2>1. m.kind = "webhook" /\ Goto(h, "mark") /\ m.stage = "activated"
    BY <1>3, <1>13 DEF AuditActivation
  <2>2. events[m.event].fact = "checkout"
    BY <1>1, <2>1 DEF OnEvent
  <2>3. /\ handlers'[h].stage = "mark" /\ handlers'[h].kind = m.kind
        /\ handlers'[h].order = m.order /\ handlers'[h].event = m.event
    BY <2>1, GotoRecord DEF Stages
  <2> QED BY <1>1, <1>2, <2>2, <2>3, GoesOn
<1>14. CASE AuditUpdate(h)
  <2>1. /\ handlers'[h].stage = "mark" /\ handlers'[h].kind = m.kind
        /\ handlers'[h].order = m.order /\ handlers'[h].event = m.event /\ m.stage = "updated"
    BY <1>14, GotoRecord DEF Stages, AuditUpdate
  <2>2. Ahead(h)'
    BY <1>1, <1>2, <2>1 DEF Ahead, StatusIs
  <2> QED BY <2>2
<1>15. CASE SyncRole(h)
  <2>1. /\ handlers'[h].stage = "resolve" /\ handlers'[h].kind = m.kind /\ handlers'[h].org = m.org
        /\ handlers'[h].order = m.order /\ handlers'[h].event = m.event /\ m.stage = "sync"
    BY <1>15, GotoRecord DEF Stages, SyncRole
  <2>2. Ahead(h)'
    BY <1>1, <1>2, <2>1 DEF Ahead, HomeOf
  <2> QED BY <2>2
<1> QED BY <1>6, <1>7, <1>8, <1>9, <1>10, <1>11, <1>12, <1>13, <1>14, <1>15

LEMMA FindFollows ==
  ASSUME BillingAssumption, BillingInv, FollowInv, NEW h \in Handlers, \A k \in Handlers : k = h,
         FindEntitlement(h)
  PROVE  FollowInv'
<1> DEFINE m == handlers[h]
<1>1. /\ m \in HandlerType /\ TypeOK /\ m.stage = "find"
      /\ AtWork(h) /\ (m.kind = "webhook" => OnEvent(h)) /\ Ahead(h)
  BY DEF BillingInv, BillingTyped, Sound, FollowInv, FindEntitlement
<1>2. UNCHANGED <<orders, founded, entitlements, processed, events>>
  BY DEF FindEntitlement, tables, stripe
<1>3. m.kind = "webhook" /\ events[m.event].fact # "checkout"
  BY <1>1 DEF AtWork, HandlerKinds, StagesOf, OnEvent
<1>4. ASSUME NEW g \in Orgs, entitlements[g] # None, entitlements[g].order = m.order,
             handlers' = [handlers EXCEPT ![h].stage = "update", ![h].org = g,
                            ![h].change = ChangeBy(EventAt(h), entitlements[g])]
      PROVE  FollowInv'
  <2>1. /\ handlers'[h].stage = "update" /\ handlers'[h].org = g /\ handlers'[h].kind = m.kind
        /\ handlers'[h].order = m.order /\ handlers'[h].event = m.event
        /\ handlers'[h].change = ChangeBy(EventAt(h), entitlements[g])
    BY <1>1, <1>4 DEF HandlerType, BillingInv, BillingTyped
  <2>2. handlers'[h].change.status = StatusBy(events[m.event])
    BY <1>3, <2>1 DEF ChangeBy, EventAt, StatusBy
  <2>6. m.event \notin processed /\ \A j \in 1 .. m.event - 1 : j \in processed
    BY <1>1, <1>3 DEF Ahead
  <2>3. /\ entitlements'[g].order = m.order
        /\ m.event \notin processed /\ \A j \in 1 .. m.event - 1 : j \in processed
    BY <1>2, <1>4, <2>6
  <2>5. Ahead(h)'
    BY <1>2, <2>1, <2>2, <2>3 DEF Ahead
  <2>4. \A k \in Handlers : Ahead(k)'
    BY <2>5
  <2> QED BY <1>2, <2>4, NoFactMoves DEF HomeOf
<1>5. CASE End(h)
  BY <1>2, <1>5, EndFollows
<1> QED BY <1>4, <1>5 DEF FindEntitlement

LEMMA OrdersFollow ==
  ASSUME BillingAssumption, BillingInv, FollowInv, NEW h \in Handlers, \A k \in Handlers : k = h,
         InsertOrder(h) \/ Close(h) \/ RejectRequest(h)
  PROVE  FollowInv'
<1> DEFINE m == handlers[h]
<1>1. /\ m \in HandlerType /\ TypeOK /\ m.stage # "idle"
      /\ AtWork(h) /\ Granted(h) /\ Ahead(h)
  BY DEF BillingInv, BillingTyped, Sound, FollowInv, InsertOrder, Close, RejectRequest
<1>2. UNCHANGED <<founded, entitlements, processed, events>>
  BY DEF InsertOrder, Close, RejectRequest, stripe
<1>3. PICK stage \in {"created", "resolved"} : Goto(h, stage)
  BY DEF InsertOrder, Close, RejectRequest
<1>4. /\ handlers'[h].stage = stage /\ handlers'[h].kind = m.kind
      /\ handlers'[h].order = m.order /\ handlers'[h].event = m.event
  BY <1>3, GotoRecord DEF Stages
<1>5. \A k \in Handlers : Ahead(k)'
  BY <1>1, <1>2, <1>4, GoesOn
<1>6. ASSUME NEW o \in Orders, NEW g \in Orgs, HomeOf(o, g)
      PROVE  HomeOf(o, g)'
  <2>1. orders \in [Orders -> OrderType \union {None}] /\ m.order \in Orders /\ o # None /\ g # None
    BY <1>1 DEF TypeOK, AtWork, BillingAssumption
  <2>2. CASE o # m.order
    <3>1. orders'[o] = orders[o]
      BY <2>1, <2>2 DEF InsertOrder, Close, RejectRequest
    <3> QED BY <1>2, <1>6, <3>1 DEF HomeOf
  <2>3. CASE o = m.order /\ InsertOrder(h)
    <3>1. orders[o] = None
      BY <2>3 DEF BillingInv, PlacedOnce, Placing, InsertOrder
    <3> QED BY <1>6, <3>1 DEF HomeOf
  <2>4. CASE o = m.order /\ RejectRequest(h)
    <3>1. orders[o] \in OrderType
      BY <1>6, <2>1 DEF HomeOf
    <3>2. orders'[o] = [orders[o] EXCEPT !.status = "rejected"]
      BY <2>1, <2>4 DEF RejectRequest
    <3>3. orders'[o] # None /\ orders'[o].org = orders[o].org
      BY <3>1, <3>2 DEF OrderType, BillingAssumption
    <3> QED BY <1>2, <1>6, <3>3 DEF HomeOf
  <2>5. CASE o = m.order /\ Close(h)
    <3>1. m.org \in Orgs /\ HomeOf(o, m.org)
      BY <1>1, <2>5 DEF Close, Granted, Served, Ahead, HandlerType
    <3>2. m.org = g
      BY <1>6, <3>1, OneHome
    <3>3. orders'[o].org = g /\ orders'[o] \in OrderType
      BY <2>1, <2>5, <3>2 DEF Close, OrderType
    <3> QED BY <3>3 DEF HomeOf, BillingAssumption
  <2> QED BY <2>2, <2>3, <2>4, <2>5
<1> QED BY <1>2, <1>5, <1>6, NoFactMoves

\* The entitlement of one organization is written by the order it is now of.
LEMMA WriteFollows ==
  ASSUME BillingAssumption, BillingInv, FollowInv, NEW h \in Handlers, \A k \in Handlers : k = h,
         UNCHANGED <<orders, processed, events>>, Ahead(h)', NEW g \in Orgs,
         \A k \in Orgs \ {g} : entitlements'[k] = entitlements[k],
         \A q \in Orders, k \in Orgs : HomeOf(q, k) => HomeOf(q, k)',
         NEW o \in Orders, o = handlers[h].order,
         entitlements'[g].order # None =>
           /\ entitlements'[g].order = o /\ HomeOf(o, g)'
           /\ handlers[h].kind = "webhook" /\ OnEvent(h) /\ handlers[h].stage # "idle"
           /\ entitlements'[g].status = StatusBy(events[handlers[h].event])
  PROVE  FollowInv'
<1> DEFINE m == handlers[h]
<1>1. OldestFirst' /\ PaidFirst'
  BY DEF FollowInv, OldestFirst, PaidFirst, Told
<1>2. ASSUME NEW k \in Orgs, entitlements'[k] # None, entitlements'[k].order # None
      PROVE  \E i \in DOMAIN events' :
               /\ events'[i].order = entitlements'[k].order /\ Current(i)'
               /\ entitlements'[k].status = StatusBy(events'[i])
  <2>1. CASE k # g
    <3>1. PICK i \in DOMAIN events : /\ events[i].order = entitlements[k].order /\ Current(i)
                                     /\ entitlements[k].status = StatusBy(events[i])
      BY <1>2, <2>1 DEF FollowInv, StatusCurrent
    <3>2. Current(i)'
      BY <3>1 DEF Current
    <3> QED BY <2>1, <3>1, <3>2
  <2>2. CASE k = g
    <3>1. m.event \in DOMAIN events /\ events[m.event].order = m.order /\ m.kind = "webhook"
      BY <1>2, <2>2 DEF OnEvent
    <3>2. PICK e \in DOMAIN events : e = m.event
      BY <3>1
    <3>3. e \notin processed /\ \A j \in 1 .. e - 1 : j \in processed
      BY <1>2, <2>2, <3>2 DEF FollowInv, Ahead
    <3>4. DOMAIN events \subseteq Nat \ {0}
      BY DEF BillingInv, BillingTyped
    <3>5. Current(e)'
      BY <3>3, <3>4 DEF Current
    <3> QED BY <1>2, <2>2, <3>1, <3>2, <3>5
  <2> QED BY <2>1, <2>2
<1>3. StatusCurrent'
  BY <1>2 DEF StatusCurrent
<1>4. EntitledOnce'
  <2> SUFFICES ASSUME NEW k \in Orgs, entitlements'[k] # None, entitlements'[k].order # None
               PROVE  HomeOf(entitlements[k].order, k)'
    BY DEF EntitledOnce, HomeOf
  <2>1. CASE k # g
    <3>1. HomeOf(entitlements[k].order, k) /\ entitlements[k].order \in Orders
      BY <2>1 DEF FollowInv, EntitledOnce, BillingInv, BillingTyped, TypeOK, EntitlementType
    <3>2. PICK q \in Orders : q = entitlements[k].order
      BY <3>1
    <3>3. HomeOf(q, k)'
      BY <3>1, <3>2
    <3> QED BY <2>1, <3>2, <3>3 DEF HomeOf
  <2>2. CASE k = g
    BY <2>2 DEF HomeOf
  <2> QED BY <2>1, <2>2
<1> QED BY <1>1, <1>3, <1>4 DEF FollowInv

LEMMA ActivateFollows ==
  ASSUME BillingAssumption, BillingInv, FollowInv, NEW h \in Handlers, \A k \in Handlers : k = h,
         Activate(h) \/ Found(h)
  PROVE  FollowInv'
<1>1. /\ handlers[h] \in HandlerType /\ TypeOK /\ handlers[h].stage = "grant"
      /\ AtWork(h) /\ (handlers[h].kind = "webhook" => OnEvent(h)) /\ Ahead(h)
  BY DEF BillingInv, BillingTyped, Sound, FollowInv, Activate, Found
<1>2. PICK o \in Orders : o = handlers[h].order
  BY <1>1 DEF AtWork
<1>3. orders[o] # None /\ handlers[h].org = orders[o].org /\ o # None
  BY <1>1, <1>2 DEF AtWork, Placing, Ahead, BillingAssumption
<1>4. /\ Purchased(o).status = "active" /\ Purchased(o).order \in {None, o}
      /\ Purchased(o).order # None => /\ handlers[h].kind = "webhook" /\ OnEvent(h)
                                      /\ StatusBy(events[handlers[h].event]) = "active"
  <2>1. handlers[h].kind \in {"webhook", "approve"}
    BY <1>1 DEF AtWork, HandlerKinds, StagesOf
  <2>2. KindOf[o] # "manual" => handlers[h].kind = "webhook"
    BY <1>1, <1>2, <2>1 DEF AtWork
  <2> QED BY <1>1, <2>2 DEF Purchased, OnEvent, StatusBy
<1>5. ASSUME NEW g \in Orgs, With(h, "sync", g) \/ (Goto(h, "sync") /\ handlers[h].org = g),
             UNCHANGED <<orders, processed, events>>, HomeOf(o, g)',
             entitlements' = [entitlements EXCEPT ![g] = Purchased(o)],
             \A q \in Orders, k \in Orgs : HomeOf(q, k) => HomeOf(q, k)'
      PROVE  FollowInv'
  <2>1. /\ handlers'[h].stage = "sync" /\ handlers'[h].kind = handlers[h].kind
        /\ handlers'[h].order = o /\ handlers'[h].event = handlers[h].event /\ handlers'[h].org = g
    BY <1>2, <1>5, GotoRecord, WithRecord DEF Stages
  <2>2. Ahead(h)'
    <3>1. HomeOf(handlers[h].order, handlers[h].org)'
      BY <1>5, <2>1 DEF HomeOf
    <3> QED BY <1>1, <1>5, <2>1, <3>1 DEF Ahead
  <2>3. entitlements'[g] = Purchased(o) /\ \A k \in Orgs \ {g} : entitlements'[k] = entitlements[k]
    BY <1>1, <1>5 DEF TypeOK
  <2> QED BY <1>1, <1>2, <1>4, <1>5, <2>2, <2>3, WriteFollows
<1>6. CASE Activate(h)
  <2>1. PICK g \in Orgs : g = handlers[h].org
    BY <1>1, <1>6 DEF Activate, HandlerType
  <2>2. UNCHANGED <<orders, processed, events, founded>> /\ Goto(h, "sync")
    BY <1>6 DEF Activate, stripe
  <2>3. entitlements' = [entitlements EXCEPT ![g] = Purchased(o)]
    BY <1>2, <1>6, <2>1 DEF Activate
  <2>4. HomeOf(o, g)' /\ \A q \in Orders, k \in Orgs : HomeOf(q, k) => HomeOf(q, k)'
    BY <1>3, <2>1, <2>2 DEF HomeOf
  <2> QED BY <1>5, <2>1, <2>2, <2>3, <2>4
<1>7. CASE Found(h)
  <2>1. CASE End(h) /\ UNCHANGED tables
    <3>1. UNCHANGED <<orders, founded, entitlements, processed, events>>
      BY <1>7, <2>1 DEF tables, Found, stripe
    <3> QED BY <2>1, <3>1, EndFollows
  <2>2. ASSUME NEW g \in Orgs, founded[g] = None, founded' = [founded EXCEPT ![g] = o],
               entitlements' = [entitlements EXCEPT ![g] = Purchased(o)],
               With(h, "sync", g), UNCHANGED <<orders, processed>>
        PROVE  FollowInv'
    <3>1. events' = events /\ orders' = orders
      BY <1>7, <2>2 DEF Found, stripe
    <3>2. founded'[g] = o /\ \A k \in Orgs \ {g} : founded'[k] = founded[k]
      BY <1>1, <2>2 DEF TypeOK
    <3>3. HomeOf(o, g)'
      BY <1>3, <1>7, <3>1, <3>2 DEF HomeOf, Found
    <3>4. \A q \in Orders, k \in Orgs : HomeOf(q, k) => HomeOf(q, k)'
      BY <2>2, <3>1, <3>2 DEF HomeOf, BillingAssumption
    <3> QED BY <1>5, <2>2, <3>1, <3>3, <3>4
  <2> QED BY <1>2, <1>7, <2>1, <2>2 DEF Found
<1> QED BY <1>6, <1>7

LEMMA UpdateFollows ==
  ASSUME BillingAssumption, BillingInv, FollowInv, NEW h \in Handlers, \A k \in Handlers : k = h,
         UpdateEntitlement(h)
  PROVE  FollowInv'
<1>1. /\ handlers[h] \in HandlerType /\ TypeOK /\ handlers[h].stage = "update"
      /\ AtWork(h) /\ (handlers[h].kind = "webhook" => OnEvent(h)) /\ Ahead(h)
  BY DEF BillingInv, BillingTyped, Sound, FollowInv, UpdateEntitlement
<1>2. handlers[h].kind = "webhook" /\ OnEvent(h)
  BY <1>1 DEF AtWork, HandlerKinds, StagesOf
<1>3. PICK o \in Orders, g \in Orgs, status \in Statuses :
        /\ o = handlers[h].order /\ g = handlers[h].org /\ status = handlers[h].change.status
        /\ entitlements[g] # None
  BY <1>1, <1>2 DEF AtWork, OnEvent, HandlerType, ChangeType
<1>4. /\ entitlements[g] \in EntitlementType /\ entitlements[g].order = o /\ o # None
      /\ status = StatusBy(events[handlers[h].event])
      /\ handlers[h].event \notin processed
      /\ \A j \in 1 .. handlers[h].event - 1 : j \in processed
  BY <1>1, <1>2, <1>3 DEF TypeOK, Ahead, BillingAssumption
<1>5. UNCHANGED <<orders, processed, events, founded>> /\ Goto(h, "updated")
  BY DEF UpdateEntitlement, stripe
<1>6. /\ entitlements'[g] # None /\ entitlements'[g].status = status /\ entitlements'[g].order = o
      /\ \A k \in Orgs \ {g} : entitlements'[k] = entitlements[k]
  <2>1. PICK row \in EntitlementType : row = entitlements[g]
    BY <1>4
  <2>2. PICK change \in ChangeType : change = handlers[h].change
    BY <1>1, <1>2 DEF OnEvent, HandlerType
  <2>3. entitlements' = [entitlements EXCEPT ![g] =
          [row EXCEPT !.status = change.status, !.periodEnd = change.periodEnd,
             !.graceEnds = change.graceEnds, !.cancelAtPeriodEnd = change.cancelAtPeriodEnd]]
    BY <1>1, <1>3, <2>1, <2>2 DEF UpdateEntitlement, TypeOK
  <2> DEFINE new == [row EXCEPT !.status = change.status, !.periodEnd = change.periodEnd,
                      !.graceEnds = change.graceEnds, !.cancelAtPeriodEnd = change.cancelAtPeriodEnd]
  <2>4. new.status = status /\ new.order = o
    BY <1>3, <1>4, <2>1, <2>2 DEF EntitlementType
  <2>5. new \in EntitlementType
    BY <2>1, <2>2 DEF EntitlementType, ChangeType
  <2>6. entitlements'[g] = new /\ new # None
    BY <1>1, <2>3, <2>5 DEF TypeOK, BillingAssumption
  <2> QED BY <1>1, <2>3, <2>4, <2>6 DEF TypeOK
<1>7. /\ handlers'[h].stage = "updated" /\ handlers'[h].kind = "webhook"
      /\ handlers'[h].order = o /\ handlers'[h].event = handlers[h].event
  BY <1>2, <1>3, <1>5, GotoRecord DEF Stages
<1>8. HomeOf(o, g) /\ \A q \in Orders, k \in Orgs : HomeOf(q, k) => HomeOf(q, k)'
  BY <1>3, <1>4, <1>5 DEF FollowInv, EntitledOnce, HomeOf
<1>9. Ahead(h)'
  <2>1. ASSUME NEW k \in Orgs, entitlements'[k] # None, entitlements'[k].order = o
        PROVE  entitlements'[k].status = status
    <3>1. CASE k = g
      BY <1>6, <3>1
    <3>2. CASE k # g
      <4>1. HomeOf(o, k)
        BY <1>4, <1>6, <2>1, <3>2 DEF FollowInv, EntitledOnce
      <4> QED BY <1>8, <3>2, <4>1, OneHome
    <3> QED BY <3>1, <3>2
  <2>2. StatusIs(o, status)'
    BY <2>1 DEF StatusIs
  <2> QED BY <1>4, <1>5, <1>7, <2>2 DEF Ahead, StatusIs
<1> QED BY <1>2, <1>3, <1>1, <1>4, <1>5, <1>6, <1>8, <1>9, WriteFollows DEF HomeOf

LEMMA MarkFollows ==
  ASSUME BillingAssumption, BillingInv, FollowInv, NEW h \in Handlers, \A k \in Handlers : k = h,
         MarkProcessed(h)
  PROVE  FollowInv'
<1>1. /\ handlers[h] \in HandlerType /\ TypeOK /\ handlers[h].stage = "mark"
      /\ AtWork(h) /\ (handlers[h].kind = "webhook" => OnEvent(h)) /\ Ahead(h)
  BY DEF BillingInv, BillingTyped, Sound, FollowInv, MarkProcessed
<1>2. handlers[h].kind = "webhook" /\ OnEvent(h)
  BY <1>1 DEF AtWork, HandlerKinds, StagesOf
<1>3. PICK e \in DOMAIN events : e = handlers[h].event
  BY <1>2 DEF OnEvent
<1>4. /\ e \notin processed /\ \A j \in 1 .. e - 1 : j \in processed
      /\ events[e].fact # "checkout" => StatusIs(events[e].order, StatusBy(events[e]))
  BY <1>1, <1>2, <1>3 DEF Ahead, OnEvent
<1>5. DOMAIN events \subseteq Nat \ {0} /\ processed \subseteq DOMAIN events
  BY DEF BillingInv, BillingTyped, TypeOK
<1>6. /\ UNCHANGED <<orders, founded, entitlements, events>>
      /\ processed' = processed \union {e} /\ End(h)
  BY <1>3 DEF MarkProcessed, stripe
\* What comes before the event is acknowledged, and nothing else.
<1>7. \A j \in processed : j < e
  <2> SUFFICES ASSUME NEW j \in processed, e < j PROVE FALSE
    BY <1>4, <1>5
  <2>1. e \in 1 .. j
    BY <1>5
  <2> QED BY <1>4, <2>1 DEF FollowInv, OldestFirst
<1>8. OldestFirst' /\ PaidFirst'
  <2>1. ASSUME NEW i \in processed', NEW j \in 1 .. i
        PROVE  j \in processed'
    <3>1. i \in processed \/ i = e
      BY <1>6
    <3>2. i \in Nat /\ j \in Nat /\ j >= 1 /\ j <= i
      BY <1>5, <3>1
    <3>3. CASE i = e
      BY <1>4, <1>5, <1>6, <3>2, <3>3
    <3>4. CASE i \in processed
      BY <1>6, <3>4 DEF FollowInv, OldestFirst
    <3> QED BY <3>1, <3>3, <3>4
  <2> QED BY <1>6, <2>1 DEF FollowInv, OldestFirst, PaidFirst, Told
<1>9. Current(e)'
  <2> SUFFICES ASSUME NEW j \in DOMAIN events, j \in processed' PROVE j <= e
    BY <1>6 DEF Current
  <2> QED BY <1>5, <1>6, <1>7
<1>10. ASSUME NEW g \in Orgs, entitlements[g] # None, entitlements[g].order # None
       PROVE  \E i \in DOMAIN events :
                /\ events[i].order = entitlements[g].order /\ Current(i)'
                /\ entitlements[g].status = StatusBy(events[i])
  <2>1. PICK i \in DOMAIN events : /\ events[i].order = entitlements[g].order /\ Current(i)
                                   /\ entitlements[g].status = StatusBy(events[i])
    BY <1>10 DEF FollowInv, StatusCurrent
  <2>2. CASE events[e].order # events[i].order
    <3>1. Current(i)'
      BY <1>6, <2>1, <2>2 DEF Current
    <3> QED BY <2>1, <3>1
  <2>3. CASE events[e].order = events[i].order /\ events[e].fact # "checkout"
    <3>1. entitlements[g].status = StatusBy(events[e])
      BY <1>4, <1>10, <2>1, <2>3 DEF StatusIs
    <3> QED BY <1>9, <2>1, <2>3, <3>1
  \* The payment comes first, so nothing of the order was acknowledged yet.
  <2>4. CASE events[e].order = events[i].order /\ events[e].fact = "checkout"
    <3>1. e <= i
      BY <2>4 DEF FollowInv, PaidFirst
    <3>2. i \notin processed
      BY <1>5, <1>7, <3>1
    <3>3. i <= e
      BY <1>4, <2>1, <2>4, <3>2 DEF Current
    <3>4. i = e
      BY <1>5, <3>1, <3>3
    <3> QED BY <1>9, <2>1, <3>4
  <2> QED BY <2>2, <2>3, <2>4
<1>11. StatusCurrent'
  BY <1>6, <1>10 DEF StatusCurrent
<1>12. EntitledOnce'
  BY <1>6 DEF FollowInv, EntitledOnce, HomeOf
<1>13. \A k \in Handlers : Ahead(k)'
  <2>1. handlers'[h].stage = "idle"
    BY <1>6, EndRecord
  <2> QED BY <2>1 DEF Ahead
<1> QED BY <1>8, <1>11, <1>12, <1>13 DEF FollowInv

LEMMA BeginsFollow ==
  ASSUME BillingAssumption, BillingInv, FollowInv, NEW h \in Handlers, \A k \in Handlers : k = h,
         OrderedDelivery, NEW o \in Orders,
         \/ PlaceOrder(h, o) \/ ResolveRequest(h, o, "approve") \/ ResolveRequest(h, o, "reject")
         \/ DeliverAny(h)
  PROVE  FollowInv'
<1>1. handlers \in [Handlers -> HandlerType] /\ processed \subseteq DOMAIN events
  BY DEF BillingInv, BillingTyped, TypeOK
<1>2. ASSUME NEW kind, NEW stage, NEW q, NEW e, Begin(h, kind, stage, q, e)
      PROVE  /\ UNCHANGED <<orders, founded, entitlements, processed, events>>
             /\ handlers'[h].kind = kind /\ handlers'[h].stage = stage /\ handlers'[h].event = e
  BY <1>1, <1>2 DEF Begin, Idle, tables, stripe
<1>3. ASSUME NEW kind \in HandlerKinds \ {"webhook"}, NEW stage \in {"membership", "pending"},
             Begin(h, kind, stage, o, None)
      PROVE  FollowInv'
  <2>1. /\ UNCHANGED <<orders, founded, entitlements, processed, events>>
        /\ handlers'[h].kind = kind /\ handlers'[h].stage = stage
    BY <1>2, <1>3
  <2>2. Ahead(h)'
    BY <2>1 DEF Ahead
  <2> QED BY <2>1, <2>2, NoFactMoves DEF HomeOf
<1>4. ASSUME NEW e \in DOMAIN events, Deliver(h, e)
      PROVE  FollowInv'
  <2>1. /\ UNCHANGED <<orders, founded, entitlements, processed, events>>
        /\ handlers'[h].kind = "webhook" /\ handlers'[h].stage = "event" /\ handlers'[h].event = e
    BY <1>2, <1>4 DEF Deliver
  <2>2. e \notin processed /\ \A j \in 1 .. e - 1 : j \in processed
    BY <1>4 DEF Deliver
  <2>3. Ahead(h)'
    BY <2>1, <2>2 DEF Ahead
  <2> QED BY <2>1, <2>3, NoFactMoves DEF HomeOf
<1>5. CASE PlaceOrder(h, o)
  BY <1>3, <1>5 DEF PlaceOrder, HandlerKinds
<1>6. CASE ResolveRequest(h, o, "approve") \/ ResolveRequest(h, o, "reject")
  BY <1>3, <1>6 DEF ResolveRequest, HandlerKinds
<1>7. CASE DeliverAny(h)
  BY <1>4, <1>7 DEF DeliverAny
<1> QED BY <1>5, <1>6, <1>7

LEMMA TellFollows ==
  ASSUME BillingAssumption, BillingInv, FollowInv, NEW o \in Orders,
         Pay(o) \/ SubscriptionFact(o)
  PROVE  FollowInv'
<1>1. PICK event \in EventType :
        /\ events' = Append(events, event) /\ event.order = o
        /\ IF event.fact = "checkout" THEN ~Told(o, "checkout") ELSE Told(o, "checkout")
  <2>1. CASE Pay(o)
    <3>1. [fact |-> "checkout", order |-> o, periodEnd |-> None, cancel |-> None] \in EventType
      BY DEF EventType
    <3> QED BY <2>1, <3>1 DEF Pay, Tell
  <2>2. CASE SubscriptionFact(o)
    <3>1. PICK f \in Facts :
            Tell([fact |-> f.fact, order |-> o, cancel |-> f.cancel,
                  periodEnd |-> IF f.endsIn = None THEN None ELSE now + f.endsIn])
      BY <2>2 DEF SubscriptionFact
    <3>2. f \in FactType /\ now \in Nat
      BY DEF BillingAssumption, BillingInv, BillingTyped, TypeOK
    <3>3. [fact |-> f.fact, order |-> o, cancel |-> f.cancel,
           periodEnd |-> IF f.endsIn = None THEN None ELSE now + f.endsIn] \in EventType
      BY <3>2 DEF FactType, EventType, Dates
    <3>4. f.fact # "checkout" /\ Told(o, "checkout")
      BY <2>2, <3>2 DEF FactType, LifecycleFacts, SubscriptionFact
    <3> QED BY <3>1, <3>3, <3>4 DEF Tell
  <2> QED BY <2>1, <2>2
<1>2. UNCHANGED <<orders, founded, entitlements, processed, handlers>>
  BY DEF Pay, SubscriptionFact, tables
<1> DEFINE n == Len(events) + 1
<1>3. /\ events \in Seq(EventType) /\ Len(events) \in Nat /\ DOMAIN events = 1 .. Len(events)
      /\ processed \subseteq DOMAIN events
  BY DEF BillingInv, BillingTyped, TypeOK
<1>4. /\ DOMAIN events' = DOMAIN events \union {n} /\ events'[n] = event
      /\ \A i \in DOMAIN events : events'[i] = events[i] /\ i < n
      /\ n \notin DOMAIN events
  BY <1>1, <1>3
<1> HIDE DEF n
<1>5. OldestFirst'
  BY <1>2 DEF FollowInv, OldestFirst
<1>6. PaidFirst'
  <2>1. ASSUME NEW i \in DOMAIN events'
        PROVE  \E j \in DOMAIN events' : events'[j].order = events'[i].order /\ events'[j].fact = "checkout"
    <3>1. CASE i \in DOMAIN events
      BY <1>4, <3>1 DEF FollowInv, PaidFirst, Told
    <3>2. CASE i = n
      BY <1>1, <1>4, <3>2 DEF Told
    <3> QED BY <1>4, <3>1, <3>2
  <2>2. ASSUME NEW i \in DOMAIN events', NEW j \in DOMAIN events',
               events'[i].order = events'[j].order, events'[j].fact = "checkout"
        PROVE  j <= i
    <3>1. CASE i \in DOMAIN events /\ j \in DOMAIN events
      BY <1>4, <2>2, <3>1 DEF FollowInv, PaidFirst
    <3>2. CASE i = n
      BY <1>3, <1>4, <3>2 DEF n
    <3>3. CASE j = n /\ i \in DOMAIN events
      <4>1. ~Told(o, "checkout") /\ events[i].order = o
        BY <1>1, <1>4, <2>2, <3>3
      <4>2. Told(o, "checkout")
        BY <4>1, <3>3 DEF FollowInv, PaidFirst
      <4> QED BY <4>1, <4>2
    <3> QED BY <1>4, <3>1, <3>2, <3>3
  <2> QED BY <2>1, <2>2 DEF PaidFirst, Told
<1>7. StatusCurrent'
  <2> SUFFICES ASSUME NEW g \in Orgs, entitlements[g] # None, entitlements[g].order # None
               PROVE  \E i \in DOMAIN events' :
                        /\ events'[i].order = entitlements[g].order /\ Current(i)'
                        /\ entitlements[g].status = StatusBy(events'[i])
    BY <1>2 DEF StatusCurrent
  <2>1. PICK i \in DOMAIN events : /\ events[i].order = entitlements[g].order /\ Current(i)
                                   /\ entitlements[g].status = StatusBy(events[i])
    BY DEF FollowInv, StatusCurrent
  <2>2. i <= n /\ n \notin processed
    BY <1>3, <1>4 DEF n
  <2>3. Current(i)'
    BY <1>2, <1>4, <2>1, <2>2 DEF Current
  <2> QED BY <1>4, <2>1, <2>3
<1>8. EntitledOnce'
  BY <1>2 DEF FollowInv, EntitledOnce, HomeOf
<1>9. ASSUME NEW h \in Handlers
      PROVE  Ahead(h)'
  <2>1. Ahead(h) /\ Sound(h)
    BY DEF FollowInv, BillingInv
  <2>2. handlers[h].stage # "idle" /\ handlers[h].kind = "webhook" =>
          events'[handlers[h].event] = events[handlers[h].event]
    BY <1>4, <2>1 DEF Sound, OnEvent
  <2>3. handlers[h].stage = "update" => handlers[h].kind = "webhook"
    BY <2>1 DEF Sound, AtWork, StagesOf, HandlerKinds
  <2> QED BY <1>2, <2>1, <2>2, <2>3 DEF Ahead, StatusIs, HomeOf
<1> QED BY <1>5, <1>6, <1>7, <1>8, <1>9 DEF FollowInv

\* The maximum and the minimum of FiniteSetsExt, where there is one.
LEMMA MaxIs ==
  ASSUME NEW S \in SUBSET Int, NEW m \in S, \A x \in S : x <= m
  PROVE  Max(S) = m
<1>1. \A y \in S : m >= y
  OBVIOUS
<1>2. Max(S) \in S /\ \A y \in S : Max(S) >= y
  BY <1>1 DEF Max
<1>3. PICK e \in S : e = Max(S)
  BY <1>2
<1>4. e >= m /\ e <= m /\ e \in Int /\ m \in Int
  BY <1>2, <1>3
<1> QED BY <1>3, <1>4

LEMMA MinIs ==
  ASSUME NEW S \in SUBSET Int, NEW m \in S, \A x \in S : m <= x
  PROVE  Min(S) = m
<1>1. \A y \in S : m =< y
  OBVIOUS
<1>2. Min(S) \in S /\ \A y \in S : Min(S) =< y
  BY <1>1 DEF Min
<1>3. PICK e \in S : e = Min(S)
  BY <1>2
<1>4. e =< m /\ e >= m /\ e \in Int /\ m \in Int
  BY <1>2, <1>3
<1> QED BY <1>3, <1>4

LEMMA CurrentFollows ==
  ASSUME BillingAssumption, BillingInv, StatusCurrent
  PROVE  StatusFollowsFacts
<1>1. DOMAIN events \subseteq Int
  BY DEF BillingInv, BillingTyped
<1> SUFFICES ASSUME NEW g \in Orgs, entitlements[g] # None, entitlements[g].order # None
             PROVE  LET facts == FactsOf(entitlements[g].order)
                        done  == facts \intersect processed
                        last  == IF done = {} THEN {} ELSE {Max(done)}
                        next  == IF facts = done THEN {} ELSE {Min(facts \ done)}
                    IN  \E e \in last \union next :
                          entitlements[g].status = IF events[e].fact = "checkout" THEN "active"
                                                   ELSE StatusAfter(events[e].fact)
  BY DEF StatusFollowsFacts
<1> DEFINE facts == FactsOf(entitlements[g].order)
           done  == facts \intersect processed
           last  == IF done = {} THEN {} ELSE {Max(done)}
           next  == IF facts = done THEN {} ELSE {Min(facts \ done)}
<1>2. PICK i \in DOMAIN events : /\ events[i].order = entitlements[g].order /\ Current(i)
                                 /\ entitlements[g].status = StatusBy(events[i])
  BY DEF StatusCurrent
<1>3. i \in facts /\ facts \in SUBSET Int
  BY <1>1, <1>2 DEF FactsOf
<1>4. CASE i \in processed
  <2>1. i \in done /\ \A j \in done : j <= i
    BY <1>2, <1>3, <1>4 DEF Current, FactsOf
  <2>2. Max(done) = i
    BY <1>3, <2>1, MaxIs
  <2> QED BY <1>2, <2>1, <2>2 DEF StatusBy
<1>5. CASE i \notin processed
  <2>1. i \in facts \ done /\ \A j \in facts \ done : i <= j
    BY <1>2, <1>3, <1>5 DEF Current, FactsOf
  <2>2. Min(facts \ done) = i
    BY <1>3, <2>1, MinIs
  <2> QED BY <1>2, <2>1, <2>2 DEF StatusBy
<1> QED BY <1>4, <1>5

\* StatusFollowsFacts in every instance in which Stripe's events come in order,
\* each once the one before is acknowledged, to one handler, however often it
\* dies: no retry of what came before revives a canceled subscription
\* (handleSubscriptionWebhookEvent compares an event with no earlier one).
THEOREM FactsFollowed ==
  ASSUME BillingAssumption, OrderedDelivery, \A h, k \in Handlers : h = k
  PROVE  Spec => []StatusFollowsFacts
<1>1. Spec => []BillingInv
  BY BillingInvariant
<1>2. Init => FollowInv
  <2> SUFFICES ASSUME Init PROVE FollowInv
    OBVIOUS
  <2>1. events = <<>> /\ processed = {} /\ \A g \in Orgs : entitlements[g] = None
    BY DEF Init
  <2>2. \A h \in Handlers : Ahead(h)
    BY DEF Init, Ahead, Idle
  <2> QED BY <2>1, <2>2 DEF FollowInv, OldestFirst, PaidFirst, StatusCurrent, EntitledOnce
<1>3. BillingInv /\ FollowInv /\ [Next]_vars => FollowInv'
  <2> SUFFICES ASSUME BillingInv, FollowInv, [Next]_vars PROVE FollowInv'
    OBVIOUS
  <2>1. CASE UNCHANGED <<orders, founded, entitlements, processed, events, handlers>>
    BY <2>1, NoFactMoves DEF FollowInv, Ahead, HomeOf, StatusIs
  <2>2. ASSUME NEW o \in Orders, Pay(o) \/ SubscriptionFact(o)
        PROVE  FollowInv'
    BY <2>2, TellFollows
  <2>3. ASSUME NEW h \in Handlers, Run(h) \/ Fault(h)
        PROVE  FollowInv'
    <3>1. \A k \in Handlers : k = h
      OBVIOUS
    <3>2. \/ ReadMembership(h) \/ CreateSession(h) \/ ReadEvent(h) \/ ReadIntent(h) \/ ReadPending(h)
          \/ AnswerOrder(h) \/ AuditClose(h) \/ AuditActivation(h) \/ AuditRejection(h)
          \/ AuditUpdate(h) \/ SyncRole(h) \/ Fault(h)
          \/ FindEntitlement(h)
          \/ InsertOrder(h) \/ Close(h) \/ RejectRequest(h)
          \/ Activate(h) \/ Found(h)
          \/ UpdateEntitlement(h)
          \/ MarkProcessed(h)
      BY <2>3 DEF Run
    <3> QED BY <3>1, <3>2, QuietFollows, FindFollows, OrdersFollow, ActivateFollows, UpdateFollows,
               MarkFollows
  <2>4. ASSUME NEW h \in Handlers, NEW o \in Orders,
               \/ PlaceOrder(h, o) \/ ResolveRequest(h, o, "approve") \/ ResolveRequest(h, o, "reject")
        PROVE  FollowInv'
    <3>1. \A k \in Handlers : k = h
      OBVIOUS
    <3> QED BY <2>4, <3>1, BeginsFollow
  <2>5. ASSUME NEW h \in Handlers, DeliverAny(h)
        PROVE  FollowInv'
    <3>1. PICK e \in DOMAIN events : TRUE
      BY <2>5 DEF DeliverAny
    <3>2. events[e].order \in Orders
      BY DEF BillingInv, BillingTyped, TypeOK, EventType
    <3>3. \A k \in Handlers : k = h
      OBVIOUS
    <3> QED BY <2>5, <3>2, <3>3, BeginsFollow
  <2>6. CASE Tick \/ UNCHANGED vars
    BY <2>1, <2>6 DEF Tick, vars, tables, stripe
  <2> QED BY <2>2, <2>3, <2>4, <2>5, <2>6 DEF Next
<1>4. BillingInv /\ FollowInv => StatusFollowsFacts
  BY CurrentFollows DEF FollowInv
<1> QED BY <1>1, <1>2, <1>3, <1>4, PTL DEF Spec
=============================================================================
