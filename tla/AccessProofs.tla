---------------------------- MODULE AccessProofs ----------------------------
(* How users get in, for every number of users, organizations, invitations,   *)
(* requests, calls and failures. The rate limiter: what a window has counted  *)
(* is related to what passed within each shorter time; a window that ends     *)
(* forgets no more than its own requests, and those reached the limit at      *)
(* most; one that begins counts from the request that began it. The browser   *)
(* session: an induction on SessionInv, what the page knows of its calls. The *)
(* invitations: an induction on AccessInv, what each request knows of the     *)
(* rows, the token and the account it works on; it holds on to that because   *)
(* the rest of the system only makes Progress.                                *)
EXTENDS Invitations, Sessions, RateLimits, FiniteSetTheorems, TLAPS

-----------------------------------------------------------------------------
(* The rate limiter. One key: its entry e, its history h, under a limit L and *)
(* a window W.                                                                *)

EntryOf(L, W) == [count : 0 .. L, left : 0 .. W]

Grows(h, W) == h[0] = 0 /\ \A m, n \in 0 .. W : m <= n => h[m] <= h[n]

Lasts(e, h, L, W) ==
  /\ e.count = h[W - e.left + 1]
  /\ h[W - e.left] < h[W - e.left + 1]
  /\ \A n \in 0 .. W : W - e.left < n => h[n] < h[W - e.left + 1] + L

Rests(h, L, W) == h[1] = 0 /\ h[W] < L

Older(h, W) == [n \in 0 .. W |-> IF n = 0 THEN 0 ELSE h[n - 1]]

CountsOn(h, W) == [n \in 0 .. W |-> IF n = 0 THEN 0 ELSE h[n] + 1]

LEMMA OlderGrows ==
  ASSUME NEW W \in Nat \ {0}, NEW h \in [0 .. W -> Nat], Grows(h, W)
  PROVE  /\ Older(h, W) \in [0 .. W -> Nat] /\ Grows(Older(h, W), W)
         /\ Older(h, W)[1] = 0
         /\ \A n \in 1 .. W : Older(h, W)[n] = h[n - 1] /\ Older(h, W)[n] <= h[n]
<1>1. \A n \in 1 .. W : n - 1 \in 0 .. W
  OBVIOUS
<1>2. Older(h, W) \in [0 .. W -> Nat]
  <2>1. \A n \in 0 .. W : (IF n = 0 THEN 0 ELSE h[n - 1]) \in Nat
    BY <1>1
  <2> QED BY <2>1 DEF Older
<1>3. \A n \in 0 .. W : Older(h, W)[n] = IF n = 0 THEN 0 ELSE h[n - 1]
  BY DEF Older
<1>4. Older(h, W)[0] = 0 /\ Older(h, W)[1] = 0
  BY <1>3 DEF Grows
<1>5. ASSUME NEW m \in 0 .. W, NEW n \in 0 .. W, m <= n
      PROVE  Older(h, W)[m] <= Older(h, W)[n]
  <2>1. CASE m = 0
    BY <2>1, <1>2, <1>4
  <2>2. CASE m # 0
    <3>1. m - 1 \in 0 .. W /\ n - 1 \in 0 .. W /\ m - 1 <= n - 1 /\ n # 0
      BY <2>2, <1>5
    <3> QED BY <2>2, <3>1, <1>3 DEF Grows
  <2> QED BY <2>1, <2>2
<1>6. \A n \in 1 .. W : Older(h, W)[n] = h[n - 1] /\ Older(h, W)[n] <= h[n]
  BY <1>1, <1>3 DEF Grows
<1> QED BY <1>2, <1>4, <1>5, <1>6 DEF Grows

LEMMA CountedGrows ==
  ASSUME NEW W \in Nat \ {0}, NEW h \in [0 .. W -> Nat], Grows(h, W)
  PROVE  /\ CountsOn(h, W) \in [0 .. W -> Nat] /\ Grows(CountsOn(h, W), W)
         /\ \A n \in 1 .. W : CountsOn(h, W)[n] = h[n] + 1
<1>1. CountsOn(h, W) \in [0 .. W -> Nat]
  BY DEF CountsOn
<1>2. \A n \in 0 .. W : CountsOn(h, W)[n] = IF n = 0 THEN 0 ELSE h[n] + 1
  BY DEF CountsOn
<1>3. ASSUME NEW m \in 0 .. W, NEW n \in 0 .. W, m <= n
      PROVE  CountsOn(h, W)[m] <= CountsOn(h, W)[n]
  <2>1. CASE m = 0
    BY <2>1, <1>1, <1>2
  <2>2. CASE m # 0
    <3>1. n # 0 /\ h[m] <= h[n]
      BY <2>2, <1>3 DEF Grows
    <3> QED BY <2>2, <3>1, <1>2
  <2> QED BY <2>1, <2>2
<1> QED BY <1>1, <1>2, <1>3 DEF Grows

\* A window that goes on has counted the same requests, which are older now; one
\* that ends leaves behind fewer than it counted.
LEMMA TickLasts ==
  ASSUME NEW L \in Nat \ {0}, NEW W \in Nat \ {0}, NEW h \in [0 .. W -> Nat],
         NEW e \in EntryOf(L, W), Grows(h, W), e.left > 0, Lasts(e, h, L, W)
  PROVE  LET f == [e EXCEPT !.left = @ - 1] IN
         /\ f \in EntryOf(L, W)
         /\ f.left > 0 => Lasts(f, Older(h, W), L, W)
         /\ f.left = 0 => Rests(Older(h, W), L, W)
<1> DEFINE f == [e EXCEPT !.left = @ - 1]
<1> DEFINE b == W - e.left
<1>1. e.left \in 1 .. W /\ e.count \in 0 .. L
  BY DEF EntryOf
<1>2. f \in EntryOf(L, W) /\ f.left = e.left - 1 /\ f.count = e.count
  BY <1>1 DEF EntryOf
<1>3. b \in 0 .. W /\ b + 1 \in 1 .. W /\ W - f.left = b + 1
  BY <1>1, <1>2
<1>4. \A n \in 1 .. W : Older(h, W)[n] = h[n - 1]
  BY OlderGrows
<1>5. e.count = h[b + 1] /\ h[b] < h[b + 1] /\ \A n \in 0 .. W : b < n => h[n] < h[b + 1] + L
  BY DEF Lasts
<1> HIDE DEF f, b
<1>6. ASSUME f.left > 0
      PROVE  Lasts(f, Older(h, W), L, W)
  <2>1. b + 2 \in 1 .. W
    BY <1>6, <1>2, <1>3, <1>1 DEF f, b
  <2>2. Older(h, W)[b + 2] = h[b + 1] /\ Older(h, W)[b + 1] = h[b]
    BY <2>1, <1>3, <1>4
  <2>3. ASSUME NEW n \in 0 .. W, b + 1 < n
        PROVE  Older(h, W)[n] < h[b + 1] + L
    <3>1. n \in 1 .. W /\ n - 1 \in 0 .. W /\ b < n - 1
      BY <2>3, <1>3
    <3> QED BY <3>1, <1>4, <1>5
  <2>4. (b + 1) + 1 = b + 2
    BY <1>3
  <2> QED BY <2>2, <2>3, <2>4, <1>2, <1>3, <1>5 DEF Lasts
<1>7. ASSUME f.left = 0
      PROVE  Rests(Older(h, W), L, W)
  <2>1. b + 1 = W
    BY <1>7, <1>3
  <2>2. Older(h, W)[W] = h[b]
    <3>1. W \in 1 .. W /\ W - 1 = b
      BY <2>1, <1>3
    <3> QED BY <3>1, <1>4
  <2>3. h[b] < L
    <3>1. h[b] \in Nat /\ h[b + 1] \in Nat
      BY <1>3
    <3> QED BY <3>1, <1>1, <1>5
  <2> QED BY <2>2, <2>3, OlderGrows DEF Rests
<1> QED BY <1>2, <1>6, <1>7 DEF f

LEMMA TickRests ==
  ASSUME NEW L \in Nat \ {0}, NEW W \in Nat \ {0}, NEW h \in [0 .. W -> Nat],
         Grows(h, W), Rests(h, L, W)
  PROVE  Rests(Older(h, W), L, W)
<1>1. W \in 1 .. W /\ h[W] \in Nat /\ Older(h, W)[W] \in Nat
  BY OlderGrows
<1> QED BY <1>1, OlderGrows DEF Rests

\* A request that passes is counted by the window that lasts.
LEMMA PassLasts ==
  ASSUME NEW L \in Nat \ {0}, NEW W \in Nat \ {0}, NEW h \in [0 .. W -> Nat],
         NEW e \in EntryOf(L, W), Grows(h, W), e.left > 0, Lasts(e, h, L, W), e.count < L
  PROVE  LET f == [e EXCEPT !.count = @ + 1] IN
         f \in EntryOf(L, W) /\ f.left > 0 /\ Lasts(f, CountsOn(h, W), L, W)
<1> DEFINE f == [e EXCEPT !.count = @ + 1]
<1> DEFINE b == W - e.left
<1>1. e.left \in 1 .. W /\ e.count \in 0 .. L
  BY DEF EntryOf
<1>2. f \in EntryOf(L, W) /\ f.left = e.left /\ f.count = e.count + 1
  BY <1>1 DEF EntryOf
<1>3. b \in 0 .. W /\ b + 1 \in 1 .. W /\ W - f.left = b
  BY <1>1, <1>2
<1>4. \A n \in 0 .. W : CountsOn(h, W)[n] = IF n = 0 THEN 0 ELSE h[n] + 1
  BY DEF CountsOn
<1>5. e.count = h[b + 1] /\ h[b] < h[b + 1] /\ \A n \in 0 .. W : b < n => h[n] < h[b + 1] + L
  BY DEF Lasts
<1> HIDE DEF f, b
<1>6. CountsOn(h, W)[b + 1] = h[b + 1] + 1
  BY <1>3, <1>4
<1>7. CountsOn(h, W)[b] < h[b + 1] + 1
  <2>1. h[b] \in Nat /\ h[b + 1] \in Nat
    BY <1>3
  <2> QED BY <2>1, <1>3, <1>4, <1>5
<1>8. ASSUME NEW n \in 0 .. W, b < n
      PROVE  CountsOn(h, W)[n] < h[b + 1] + 1 + L
  <2>1. n # 0 /\ h[n] \in Nat /\ h[b + 1] \in Nat
    BY <1>3, <1>8
  <2> QED BY <2>1, <1>4, <1>5, <1>8
<1> QED BY <1>1, <1>2, <1>3, <1>5, <1>6, <1>7, <1>8 DEF Lasts, f

\* One that finds no window begins one.
LEMMA PassRests ==
  ASSUME NEW L \in Nat \ {0}, NEW W \in Nat \ {0}, NEW h \in [0 .. W -> Nat],
         Grows(h, W), Rests(h, L, W)
  PROVE  LET f == [count |-> 1, left |-> W] IN
         f \in EntryOf(L, W) /\ f.left > 0 /\ Lasts(f, CountsOn(h, W), L, W)
<1> DEFINE f == [count |-> 1, left |-> W]
<1>1. f \in EntryOf(L, W) /\ W - f.left = 0 /\ f.count = 1
  BY DEF EntryOf
<1>2. \A n \in 0 .. W : CountsOn(h, W)[n] = IF n = 0 THEN 0 ELSE h[n] + 1
  BY DEF CountsOn
<1>3. CountsOn(h, W)[0] = 0 /\ CountsOn(h, W)[1] = 1
  BY <1>2 DEF Rests
<1>4. ASSUME NEW n \in 0 .. W, 0 < n
      PROVE  CountsOn(h, W)[n] < 1 + L
  <2>1. W \in 0 .. W /\ n <= W /\ h[n] \in Nat /\ h[W] \in Nat
    OBVIOUS
  <2>2. h[n] <= h[W] /\ h[W] < L
    BY <2>1 DEF Grows, Rests
  <2> QED BY <2>1, <2>2, <1>2, <1>4
<1> QED BY <1>1, <1>3, <1>4 DEF Lasts

-----------------------------------------------------------------------------
(* The limiter *)

KeyTyped(k) ==
  /\ entries[k] \in {None} \union EntryOf(LimitOf(k), WindowOf(k))
  /\ passed[k] \in [0 .. WindowOf(k) -> Nat]

KeyAgrees(k) ==
  /\ Grows(passed[k], WindowOf(k))
  /\ Lasting(k) => Lasts(entries[k], passed[k], LimitOf(k), WindowOf(k))
  /\ ~Lasting(k) => Rests(passed[k], LimitOf(k), WindowOf(k))

KeyInv(k) == KeyTyped(k) /\ KeyAgrees(k)

LEMMA InvByKey ==
  RateInv <=> /\ DOMAIN entries = Counters /\ DOMAIN passed = Counters
              /\ \A k \in Counters : KeyInv(k)
<1>1. ASSUME NEW k \in Counters
      PROVE  (/\ Accumulates(k)
              /\ IF Lasting(k) THEN LiveCounts(k) ELSE IdleCounts(k)) <=> KeyAgrees(k)
  BY DEF KeyAgrees, Grows, Lasts, Rests, Accumulates, Elapsed, LiveCounts, IdleCounts, Recent, Spans
<1>2. ASSUME NEW k \in Counters
      PROVE  KeyTyped(k) <=>
               /\ entries[k] \in {None} \union [count : 0 .. LimitOf(k), left : 0 .. WindowOf(k)]
               /\ passed[k] \in [Spans(k) -> Nat]
  BY DEF KeyTyped, EntryOf, Spans
<1> QED BY <1>1, <1>2 DEF RateInv, RateTypeOK, CountsAgree, KeyInv

LEMMA InvAfter ==
  ASSUME (DOMAIN entries)' = Counters, (DOMAIN passed)' = Counters, \A k \in Counters : KeyInv(k)'
  PROVE  RateInv'
<1>1. (/\ DOMAIN entries = Counters /\ DOMAIN passed = Counters
       /\ \A k \in Counters : KeyInv(k))' => RateInv'
  BY InvByKey, PTL
<1> QED BY <1>1

LEMMA KeyFacts ==
  ASSUME RateLimitsAssumption, NEW k \in Counters
  PROVE  /\ LimitOf(k) \in Nat \ {0} /\ WindowOf(k) \in Nat \ {0}
         /\ None \notin EntryOf(LimitOf(k), WindowOf(k))
<1>1. k[1] \in Buckets
  BY DEF Counters
<1>2. LimitOf(k) \in Nat \ {0} /\ WindowOf(k) \in Nat \ {0}
  BY <1>1 DEF RateLimitsAssumption, LimitOf, WindowOf
<1>3. EntryOf(LimitOf(k), WindowOf(k)) \subseteq [count : Nat, left : Nat]
  BY <1>2 DEF EntryOf
<1> QED BY <1>2, <1>3 DEF RateLimitsAssumption

LEMMA LiveIsEntry ==
  ASSUME RateLimitsAssumption, NEW k \in Counters, KeyTyped(k)
  PROVE  /\ Lasting(k) => entries[k] \in EntryOf(LimitOf(k), WindowOf(k)) /\ entries[k].left > 0
         /\ entries[k] \in EntryOf(LimitOf(k), WindowOf(k)) /\ entries[k].left > 0 => Lasting(k)
         /\ entries[k] = None => ~Lasting(k)
BY KeyFacts DEF KeyTyped, Lasting

LEMMA RateInitInv ==
  ASSUME RateLimitsAssumption, RateInit
  PROVE  RateInv
<1>1. ASSUME NEW k \in Counters
      PROVE  KeyInv(k)
  <2>1. LimitOf(k) \in Nat \ {0} /\ WindowOf(k) \in Nat \ {0}
    BY KeyFacts
  <2>2. entries[k] = None /\ passed[k] = [n \in 0 .. WindowOf(k) |-> 0]
    BY DEF RateInit, Spans
  <2>3. ~Lasting(k)
    BY <2>2 DEF Lasting
  <2>4. \A n \in 0 .. WindowOf(k) : passed[k][n] = 0
    BY <2>2
  <2>5. 0 \in 0 .. WindowOf(k) /\ 1 \in 0 .. WindowOf(k) /\ WindowOf(k) \in 0 .. WindowOf(k)
    BY <2>1
  <2>6. Grows(passed[k], WindowOf(k)) /\ Rests(passed[k], LimitOf(k), WindowOf(k))
    BY <2>1, <2>4, <2>5 DEF Grows, Rests
  <2>7. passed[k] \in [0 .. WindowOf(k) -> Nat]
    BY <2>2
  <2> QED BY <2>2, <2>3, <2>6, <2>7 DEF KeyInv, KeyTyped, KeyAgrees
<1>2. DOMAIN entries = Counters /\ DOMAIN passed = Counters
  BY DEF RateInit
<1> QED BY <1>1, <1>2, InvByKey

\* What a step makes of a key decides whether the key is in order after it.
LEMMA KeyAfter ==
  ASSUME RateLimitsAssumption, NEW k \in Counters,
         entries'[k] \in {None} \union EntryOf(LimitOf(k), WindowOf(k)),
         passed'[k] \in [0 .. WindowOf(k) -> Nat],
         Grows(passed'[k], WindowOf(k)),
         entries'[k] \in EntryOf(LimitOf(k), WindowOf(k)) /\ entries'[k].left > 0 =>
           Lasts(entries'[k], passed'[k], LimitOf(k), WindowOf(k)),
         entries'[k] = None \/ entries'[k].left = 0 =>
           Rests(passed'[k], LimitOf(k), WindowOf(k))
  PROVE  KeyInv(k)'
<1>1. LimitOf(k) \in Nat \ {0} /\ WindowOf(k) \in Nat \ {0}
  BY KeyFacts
<1>2. LimitOf(k)' = LimitOf(k) /\ WindowOf(k)' = WindowOf(k)
  BY DEF LimitOf, WindowOf
<1>3. Lasting(k)' <=> entries'[k] # None /\ entries'[k].left > 0
  BY DEF Lasting
<1>4. entries'[k] # None => entries'[k].left \in Nat
  BY <1>1 DEF EntryOf
<1>5. Lasting(k)' => Lasts(entries'[k], passed'[k], LimitOf(k), WindowOf(k))
  BY <1>3
<1>6. ~Lasting(k)' => Rests(passed'[k], LimitOf(k), WindowOf(k))
  BY <1>3, <1>4
<1> QED BY <1>2, <1>5, <1>6 DEF KeyInv, KeyTyped, KeyAgrees

\* A key whose entry stays, or expires into nothing, is as it was.
LEMMA KeyKept ==
  ASSUME RateLimitsAssumption, NEW k \in Counters, KeyInv(k), passed'[k] = passed[k],
         entries'[k] = entries[k] \/ (~Lasting(k) /\ entries'[k] = None)
  PROVE  KeyInv(k)'
<1>1. LimitOf(k) \in Nat \ {0} /\ WindowOf(k) \in Nat \ {0}
  BY KeyFacts
<1>2. Lasting(k) <=> entries'[k] # None /\ entries'[k].left > 0
  BY DEF Lasting
<1>3. entries'[k] # None => entries'[k].left \in Nat
  BY <1>1 DEF KeyInv, KeyTyped, EntryOf
<1>4. entries'[k] \in EntryOf(LimitOf(k), WindowOf(k)) /\ entries'[k].left > 0 =>
        Lasts(entries'[k], passed'[k], LimitOf(k), WindowOf(k))
  BY <1>2, KeyFacts DEF KeyInv, KeyAgrees, Lasting
<1>5. entries'[k] = None \/ entries'[k].left = 0 => Rests(passed'[k], LimitOf(k), WindowOf(k))
  BY <1>2 DEF KeyInv, KeyAgrees
<1> QED BY <1>4, <1>5, KeyAfter DEF KeyInv, KeyTyped, KeyAgrees

LEMMA TickInv ==
  ASSUME RateLimitsAssumption, RateInv, TimePasses
  PROVE  RateInv'
<1>1. ASSUME NEW k \in Counters
      PROVE  KeyInv(k)'
  <2> DEFINE L == LimitOf(k)
  <2> DEFINE W == WindowOf(k)
  <2>1. L \in Nat \ {0} /\ W \in Nat \ {0}
    BY KeyFacts
  <2>2. KeyInv(k)
    BY InvByKey
  <2>3. passed[k] \in [0 .. W -> Nat] /\ Grows(passed[k], W)
    BY <2>2 DEF KeyInv, KeyTyped, KeyAgrees
  <2>4. passed'[k] = Older(passed[k], W)
    BY DEF TimePasses, Older, Spans
  <2>5. Older(passed[k], W) \in [0 .. W -> Nat] /\ Grows(Older(passed[k], W), W)
    BY <2>1, <2>3, OlderGrows
  <2>6. CASE Lasting(k)
    <3>1. entries[k] \in EntryOf(L, W) /\ entries[k].left > 0
      BY <2>2, <2>6, LiveIsEntry DEF KeyInv
    <3>2. Lasts(entries[k], passed[k], L, W)
      BY <2>2, <2>6 DEF KeyInv, KeyAgrees
    <3> DEFINE f == [entries[k] EXCEPT !.left = @ - 1]
    <3>3. f \in EntryOf(L, W)
          /\ (f.left > 0 => Lasts(f, Older(passed[k], W), L, W))
          /\ (f.left = 0 => Rests(Older(passed[k], W), L, W))
      BY <2>1, <2>3, <3>1, <3>2, TickLasts
    <3>4. entries'[k] = f
      BY <2>6 DEF TimePasses
    <3>5. None \notin EntryOf(L, W)
      BY KeyFacts
    <3> HIDE DEF f, L, W
    <3>6. /\ entries'[k] \in {None} \union EntryOf(L, W)
          /\ passed'[k] \in [0 .. W -> Nat] /\ Grows(passed'[k], W)
          /\ entries'[k] \in EntryOf(L, W) /\ entries'[k].left > 0 => Lasts(entries'[k], passed'[k], L, W)
          /\ entries'[k] = None \/ entries'[k].left = 0 => Rests(passed'[k], L, W)
      BY <2>4, <2>5, <3>3, <3>4, <3>5
    <3> QED BY <3>6, KeyAfter DEF L, W
  <2>7. CASE ~Lasting(k)
    <3>1. entries'[k] = entries[k]
      BY <2>7 DEF TimePasses
    <3>2. Rests(Older(passed[k], W), L, W)
      BY <2>1, <2>2, <2>3, <2>7, TickRests DEF KeyInv, KeyAgrees
    <3>3. ~(entries[k] \in EntryOf(L, W) /\ entries[k].left > 0)
      BY <2>2, <2>7, LiveIsEntry DEF KeyInv
    <3>4. entries[k] \in {None} \union EntryOf(L, W)
      BY <2>2 DEF KeyInv, KeyTyped
    <3> HIDE DEF L, W
    <3>5. /\ entries'[k] \in {None} \union EntryOf(L, W)
          /\ passed'[k] \in [0 .. W -> Nat] /\ Grows(passed'[k], W)
          /\ ~(entries'[k] \in EntryOf(L, W) /\ entries'[k].left > 0)
          /\ Rests(passed'[k], L, W)
      BY <2>4, <2>5, <3>1, <3>2, <3>3, <3>4
    <3> QED BY <3>5, KeyAfter DEF L, W
  <2> QED BY <2>6, <2>7
<1>2. (DOMAIN entries)' = Counters /\ (DOMAIN passed)' = Counters
  BY DEF TimePasses
<1> QED BY <1>1, <1>2, InvAfter

LEMMA SweptKeeps ==
  ASSUME RateInv
  PROVE  /\ DOMAIN Swept = Counters
         /\ \A k \in Counters : Swept[k] = entries[k] \/ (~Lasting(k) /\ Swept[k] = None)
BY DEF RateInv, RateTypeOK, Swept, Sweep

LEMMA RequestInv ==
  ASSUME RateLimitsAssumption, RateInv, NEW k \in Counters, Request(k)
  PROVE  RateInv'
<1> DEFINE L == LimitOf(k)
<1> DEFINE W == WindowOf(k)
<1>1. L \in Nat \ {0} /\ W \in Nat \ {0} /\ None \notin EntryOf(L, W)
  BY KeyFacts
<1>2. KeyInv(k)
  BY InvByKey
<1>3. passed[k] \in [0 .. W -> Nat] /\ Grows(passed[k], W)
  BY <1>2 DEF KeyInv, KeyTyped, KeyAgrees
<1>4. Lasting(k) => entries[k] \in EntryOf(L, W) /\ entries[k].left > 0
  BY <1>2, LiveIsEntry DEF KeyInv
<1>5. DOMAIN entries = Counters /\ DOMAIN passed = Counters
  BY DEF RateInv, RateTypeOK
<1>6. (DOMAIN entries)' = Counters /\ (DOMAIN passed)' = Counters
  BY <1>5, SweptKeeps DEF Request
<1>7. ASSUME NEW j \in Counters, j # k
      PROVE  KeyInv(j)'
  <2>1. entries'[j] = Swept[j] /\ passed'[j] = passed[j]
    BY <1>5, <1>7, SweptKeeps DEF Request
  <2>2. KeyInv(j)
    BY InvByKey
  <2> QED BY <2>1, <2>2, SweptKeeps, KeyKept
<1>8. CASE IsRefused(k)
  <2>1. Lasting(k)
    BY <1>1, <1>8 DEF IsRefused, Current
  <2>2. entries'[k] = entries[k] /\ passed'[k] = passed[k]
    BY <1>8, <2>1, SweptKeeps DEF Request, AfterRefusal, Current
  <2>3. KeyInv(k)'
    BY <1>2, <2>2, KeyKept
  <2> QED BY <1>6, <1>7, <2>3, InvAfter
<1>9. CASE ~IsRefused(k)
  <2> DEFINE f == [Current(k) EXCEPT !.count = @ + 1]
  <2>1. entries'[k] = f /\ passed'[k] = CountsOn(passed[k], W)
    BY <1>5, <1>9, SweptKeeps DEF Request, CountsOn, Spans
  <2>2. f \in EntryOf(L, W) /\ f.left > 0 /\ Lasts(f, CountsOn(passed[k], W), L, W)
    <3>1. CASE Lasting(k)
      <4>1. Current(k) = entries[k] /\ entries[k].count < L
        BY <1>4, <1>9, <1>1, <3>1 DEF IsRefused, Current, EntryOf
      <4>2. Lasts(entries[k], passed[k], L, W)
        BY <1>2, <3>1 DEF KeyInv, KeyAgrees
      <4> QED BY <1>1, <1>3, <1>4, <3>1, <4>1, <4>2, PassLasts
    <3>2. CASE ~Lasting(k)
      <4>1. f = [count |-> 1, left |-> W]
        BY <3>2 DEF Current
      <4>2. Rests(passed[k], L, W)
        BY <1>2, <3>2 DEF KeyInv, KeyAgrees
      <4> QED BY <1>1, <1>3, <4>1, <4>2, PassRests
    <3> QED BY <3>1, <3>2
  <2>3. CountsOn(passed[k], W) \in [0 .. W -> Nat] /\ Grows(CountsOn(passed[k], W), W)
    BY <1>1, <1>3, CountedGrows
  <2> HIDE DEF f, L, W
  <2>4. /\ entries'[k] \in {None} \union EntryOf(L, W)
        /\ passed'[k] \in [0 .. W -> Nat] /\ Grows(passed'[k], W)
        /\ Lasts(entries'[k], passed'[k], L, W)
        /\ ~(entries'[k] = None \/ entries'[k].left = 0)
    BY <1>1, <2>1, <2>2, <2>3
  <2>5. KeyInv(k)'
    BY <2>4, KeyAfter DEF L, W
  <2> QED BY <1>6, <1>7, <2>5, InvAfter
<1> QED BY <1>8, <1>9

\* The limit is exact in every state the invariant describes.
LEMMA InvGivesLimit ==
  ASSUME RateLimitsAssumption, RateInv
  PROVE  LimitIsExact
<1> SUFFICES ASSUME NEW k \in Counters
             PROVE  /\ Recent(k) < 2 * LimitOf(k)
                    /\ IsRefused(k) => Recent(k) >= LimitOf(k)
  BY DEF LimitIsExact
<1> DEFINE L == LimitOf(k)
<1> DEFINE W == WindowOf(k)
<1> DEFINE h == passed[k]
<1>1. L \in Nat \ {0} /\ W \in Nat \ {0}
  BY KeyFacts
<1>2. KeyInv(k)
  BY InvByKey
<1>3. h \in [0 .. W -> Nat] /\ W \in 0 .. W /\ h[W] \in Nat
  BY <1>1, <1>2 DEF KeyInv, KeyTyped
<1>4. CASE Lasting(k)
  <2>1. entries[k] \in EntryOf(L, W) /\ entries[k].left > 0
    BY <1>2, <1>4, LiveIsEntry DEF KeyInv
  <2> DEFINE b == W - entries[k].left
  <2>2. entries[k].count \in 0 .. L /\ b \in 0 .. W /\ b < W /\ b + 1 \in 0 .. W /\ b + 1 <= W
    BY <1>1, <2>1 DEF EntryOf
  <2>3. entries[k].count = h[b + 1] /\ h[W] < h[b + 1] + L
    BY <1>2, <1>3, <1>4, <2>2 DEF KeyInv, KeyAgrees, Lasts
  <2>4. h[b + 1] <= h[W]
    BY <1>2, <1>3, <2>2 DEF KeyInv, KeyAgrees, Grows
  <2>5. Current(k) = entries[k]
    BY <1>4 DEF Current
  <2>6. h[b + 1] \in Nat /\ Recent(k) = h[W]
    BY <1>3, <2>2 DEF Recent
  <2> HIDE DEF b, h, L, W
  <2>7. Recent(k) < 2 * L /\ (Current(k).count >= L => Recent(k) >= L)
    BY <1>1, <1>3, <2>2, <2>3, <2>4, <2>5, <2>6
  <2> QED BY <2>7 DEF L, IsRefused
<1>5. CASE ~Lasting(k)
  <2>1. h[W] < L
    BY <1>2, <1>5 DEF KeyInv, KeyAgrees, Rests
  <2>2. ~IsRefused(k)
    BY <1>1, <1>5 DEF IsRefused, Current
  <2> QED BY <1>1, <1>3, <2>1, <2>2 DEF Recent
<1> QED BY <1>4, <1>5

\* The limiter's state stays in order: what each entry has counted is what
\* passed since its window began.
THEOREM RateInvariant == RateLimitsAssumption => (RateSpec => []RateInv)
<1> SUFFICES ASSUME RateLimitsAssumption
             PROVE  RateSpec => []RateInv
  OBVIOUS
<1>1. RateInit => RateInv
  BY RateInitInv
<1>2. RateInv /\ [RateNext]_rateVars => RateInv'
  <2> SUFFICES ASSUME RateInv, [RateNext]_rateVars
               PROVE  RateInv'
    OBVIOUS
  <2>1. CASE TimePasses
    BY <2>1, TickInv
  <2>2. ASSUME NEW k \in Counters, Request(k)
        PROVE  RateInv'
    BY <2>2, RequestInv
  <2>3. CASE UNCHANGED rateVars
    <3>1. \A k \in Counters : KeyInv(k)'
      BY <2>3, InvByKey, KeyKept DEF rateVars
    <3>2. (DOMAIN entries)' = Counters /\ (DOMAIN passed)' = Counters
      BY <2>3 DEF rateVars, RateInv, RateTypeOK
    <3> QED BY <3>1, <3>2, InvAfter
  <2> QED BY <2>1, <2>2, <2>3 DEF RateNext
<1> QED BY <1>1, <1>2, PTL DEF RateSpec

\* However a client times its requests around the windows and the sweeps, fewer
\* than twice the limit pass within a window's length, and nobody is refused who
\* has not used the limit up (rate-limit.ts).
THEOREM LimitHolds == RateLimitsAssumption => (RateSpec => []LimitIsExact)
<1> SUFFICES ASSUME RateLimitsAssumption
             PROVE  RateSpec => []LimitIsExact
  OBVIOUS
<1>1. RateInv => LimitIsExact
  BY InvGivesLimit
<1>2. RateSpec => []RateInv
  BY RateInvariant
<1> QED BY <1>1, <1>2, PTL

-----------------------------------------------------------------------------
(* A page's session *)

Pairs == [user : Users, access : BOOLEAN, refresh : BOOLEAN]

Boots == [isAuth : BOOLEAN, accepting : BOOLEAN, autoKey : Keys \union {None},
          synced : BOOLEAN, attempted : BOOLEAN, refreshing : BOOLEAN, timedOut : BOOLEAN]

Queries == [data : Status \union {None}, error : {"none", "unauthorized", "other"},
            fetch : {None} \union [access : Tokens \union {None}]]

\* Only whoever logs in is named in a call, and an acceptance under way is the only
\* one, and the page knows that it is.
CallsKnown ==
  \A c \in UnderWay :
    /\ calls[c].kind = "login" => calls[c].user \in Users
    /\ calls[c].kind = "accept" =>
         boot.accepting /\ \A d \in UnderWay : calls[d].kind = "accept" => d = c

SessionInv == SessionTypeOK /\ CallsKnown /\ SessionKeepsItsMode

LEMMA ImageSize ==
  ASSUME NEW S, IsFiniteSet(S), NEW f, DOMAIN f = S, f = [s \in S |-> f[s]]
  PROVE  /\ IsFiniteSet({f[s] : s \in S})
         /\ Cardinality({f[s] : s \in S}) \in Nat
         /\ Cardinality({f[s] : s \in S}) <= Cardinality(S)
<1>1. f \in Surjection(S, {f[s] : s \in S})
  BY DEF Surjection
<1> QED BY <1>1, FS_Surjection, FS_CardinalityType

LEMMA UnionSize ==
  ASSUME NEW S, NEW T, IsFiniteSet(S), IsFiniteSet(T)
  PROVE  /\ IsFiniteSet(S \union T)
         /\ Cardinality(S) \in Nat /\ Cardinality(T) \in Nat /\ Cardinality(S \union T) \in Nat
         /\ Cardinality(S \union T) <= Cardinality(S) + Cardinality(T)
<1>1. /\ Cardinality(S \union T) = Cardinality(S) + Cardinality(T) - Cardinality(S \intersect T)
      /\ IsFiniteSet(S \union T)
  BY FS_Union
<1>2. Cardinality(S \intersect T) \in Nat /\ Cardinality(S) \in Nat /\ Cardinality(T) \in Nat
  BY FS_Intersection, FS_CardinalityType
<1>3. Cardinality(S \union T) \in Nat
  BY <1>1, FS_CardinalityType
<1> QED BY <1>1, <1>2, <1>3

\* The page holds fewer pairs than there are names for them: a new one has a name.
LEMMA NewPairIsFree ==
  ASSUME SessionsAssumption
  PROVE  NewPair \in Tokens \ Held
<1> DEFINE n == Cardinality(Slots)
           f == [c \in UnderWay |-> calls[c].access]
           g == [c \in UnderWay |-> calls[c].refresh]
           A == {f[c] : c \in UnderWay}
           B == {g[c] : c \in UnderWay}
           C == {cookies.access, cookies.refresh}
           D == IF query.fetch = None THEN {} ELSE {query.fetch.access}
<1>1. IsFiniteSet(UnderWay) /\ Cardinality(UnderWay) <= n /\ n \in Nat
  BY FS_Subset, FS_CardinalityType DEF UnderWay, SessionsAssumption
<1>2. /\ IsFiniteSet(A) /\ Cardinality(A) <= n
      /\ IsFiniteSet(B) /\ Cardinality(B) <= n
  <2>1. Cardinality(UnderWay) \in Nat
    BY <1>1, FS_CardinalityType
  <2>2. IsFiniteSet(A) /\ Cardinality(A) \in Nat /\ Cardinality(A) <= Cardinality(UnderWay)
    BY <1>1, ImageSize
  <2>3. IsFiniteSet(B) /\ Cardinality(B) \in Nat /\ Cardinality(B) <= Cardinality(UnderWay)
    BY <1>1, ImageSize
  <2> QED BY <1>1, <2>1, <2>2, <2>3
<1>3. IsFiniteSet(C) /\ Cardinality(C) <= 2
  <2>1. IsFiniteSet({cookies.access}) /\ Cardinality({cookies.access}) = 1
    BY FS_Singleton
  <2>2. C = {cookies.access} \union {cookies.refresh}
    OBVIOUS
  <2> QED BY <2>1, <2>2, FS_AddElement
<1>4. IsFiniteSet(D) /\ Cardinality(D) <= 1
  <2>1. D = {} \/ D = {query.fetch.access}
    OBVIOUS
  <2>2. IsFiniteSet({}) /\ Cardinality({}) = 0
    BY FS_EmptySet
  <2>3. IsFiniteSet({query.fetch.access}) /\ Cardinality({query.fetch.access}) = 1
    BY FS_Singleton
  <2> HIDE DEF D
  <2> QED BY <2>1, <2>2, <2>3
<1>5. Held = ((C \union A) \union B) \union D
  BY DEF Held
<1> HIDE DEF n, A, B, C, D
<1>6. /\ IsFiniteSet(C \union A) /\ Cardinality(C \union A) \in Nat
      /\ Cardinality(C \union A) <= 2 + n
  BY <1>1, <1>2, <1>3, UnionSize
<1>7. /\ IsFiniteSet((C \union A) \union B) /\ Cardinality((C \union A) \union B) \in Nat
      /\ Cardinality((C \union A) \union B) <= 2 + n + n
  <2>1. /\ IsFiniteSet((C \union A) \union B) /\ Cardinality((C \union A) \union B) \in Nat
        /\ Cardinality(B) \in Nat
        /\ Cardinality((C \union A) \union B) <= Cardinality(C \union A) + Cardinality(B)
    BY <1>2, <1>6, UnionSize
  <2> QED BY <1>1, <1>2, <1>6, <2>1
<1>8. IsFiniteSet(Held) /\ Cardinality(Held) <= 2 + n + n + 1
  BY <1>1, <1>4, <1>5, <1>7, UnionSize
<1>9. ~(Tokens \subseteq Held)
  <2>1. Tokens \subseteq Held => Cardinality(Tokens) <= Cardinality(Held)
    BY <1>8, FS_Subset
  <2>2. Cardinality(Tokens) > 2 * n + 3 /\ Cardinality(Tokens) \in Nat /\ Cardinality(Held) \in Nat
    BY <1>8, FS_CardinalityType DEF SessionsAssumption, n
  <2> QED BY <1>1, <1>8, <2>1, <2>2
<1>10. \E t \in Tokens : t \notin Held
  BY <1>9
<1> QED BY <1>10 DEF NewPair

LEMMA IssuedTyped ==
  ASSUME SessionsAssumption, SessionTypeOK, NEW u \in Users
  PROVE  /\ Issued(u) \in [Tokens -> {None} \union Pairs]
         /\ NewPair \in Tokens /\ NewPair # None
         /\ \A t \in Held \intersect Tokens : Issued(u)[t] = tokens[t]
<1>1. NewPair \in Tokens /\ NewPair \notin Held
  BY NewPairIsFree
<1>2. tokens \in [Tokens -> {None} \union Pairs]
  BY DEF SessionTypeOK, Pairs
<1>3. [user |-> u, access |-> TRUE, refresh |-> TRUE] \in Pairs
  BY DEF Pairs
<1> QED BY <1>1, <1>2, <1>3 DEF Issued, SessionsAssumption

LEMMA Settling ==
  ASSUME NEW b \in Boots, NEW q \in Queries
  PROVE  Settled(b, q) \in Boots /\ Settled(b, q).accepting = b.accepting
BY DEF Settled, Boots

\* What a call that is sent leaves.
LEMMA Sending ==
  ASSUME SessionTypeOK, NEW kind \in {"login", "refresh", "retry", "me", "accept", "logout"},
         NEW u \in Users \union {None}, Send(kind, u)
  PROVE  \E c \in Slots :
           /\ calls' \in [Slots -> Call \union {None}]
           /\ calls[c] = None
           /\ calls'[c].kind = kind /\ calls'[c].user = u
           /\ \A d \in Slots \ {c} : calls'[d] = calls[d]
<1>1. PICK c \in Slots :
        /\ calls[c] = None
        /\ calls' = [calls EXCEPT ![c] = [kind |-> kind, user |-> u,
                                          access |-> cookies.access, refresh |-> cookies.refresh]]
  BY DEF Send
<1>2. [kind |-> kind, user |-> u, access |-> cookies.access, refresh |-> cookies.refresh] \in Call
  BY DEF SessionTypeOK, Jar, Call
<1>3. calls \in [Slots -> Call \union {None}]
  BY DEF SessionTypeOK
<1> QED BY <1>1, <1>2, <1>3

\* The calls of which none is sent.
LEMMA FewerCalls ==
  ASSUME SessionTypeOK, CallsKnown, calls' \in [Slots -> Call \union {None}],
         \A c \in Slots : calls'[c] # None => calls'[c] = calls[c],
         \/ boot'.accepting = boot.accepting
         \/ \A c \in Slots : calls'[c] # None => calls[c].kind # "accept"
  PROVE  CallsKnown'
BY DEF CallsKnown, UnderWay

\* One that is sent, and is no acceptance.
LEMMA OneMoreCall ==
  ASSUME SessionTypeOK, CallsKnown, NEW kind \in {"login", "refresh", "retry", "me", "logout"},
         NEW u \in Users \union {None}, kind = "login" => u \in Users, Send(kind, u),
         boot'.accepting = boot.accepting
  PROVE  CallsKnown' /\ calls' \in [Slots -> Call \union {None}]
<1>1. PICK c \in Slots :
        /\ calls' \in [Slots -> Call \union {None}]
        /\ calls'[c].kind = kind /\ calls'[c].user = u
        /\ \A d \in Slots \ {c} : calls'[d] = calls[d]
  BY Sending
<1> QED BY <1>1 DEF CallsKnown, UnderWay

\* An acceptance that is sent by a page that has none under way.
LEMMA FirstAcceptance ==
  ASSUME SessionTypeOK, CallsKnown, ~boot.accepting, Send("accept", None), boot'.accepting
  PROVE  CallsKnown' /\ calls' \in [Slots -> Call \union {None}]
<1>1. PICK c \in Slots :
        /\ calls' \in [Slots -> Call \union {None}]
        /\ calls'[c].kind = "accept"
        /\ \A d \in Slots \ {c} : calls'[d] = calls[d]
  BY Sending
<1>2. \A d \in UnderWay : calls[d].kind # "accept"
  BY DEF CallsKnown
<1> QED BY <1>1, <1>2 DEF CallsKnown, UnderWay

\* The types, each with a name.
SessionTyped ==
  /\ tokens \in [Tokens -> {None} \union Pairs]
  /\ place \in [Users -> Orgs \union {None}] /\ invited \in [Users -> Orgs \union {None}]
  /\ cookies \in Jar /\ marker \in BOOLEAN /\ mode \in Modes
  /\ boot \in Boots /\ query \in Queries
  /\ calls \in [Slots -> Call \union {None}]
  /\ events \in 0 .. MaxEvents /\ failed \in 0 .. MaxFailed

LEMMA TypesNamed == SessionTypeOK <=> SessionTyped
BY DEF SessionTypeOK, SessionTyped, Pairs, Boots, Queries

LEMMA TypesNamedNext == SessionTypeOK' <=> SessionTyped'
BY DEF SessionTypeOK, SessionTyped, Pairs, Boots, Queries

LEMMA Refetching ==
  ASSUME NEW q \in Queries, NEW access \in Tokens \union {None}
  PROVE  Refetched(q, access) \in Queries
BY DEF Refetched, Queries

LEMMA ClearingSession ==
  ASSUME NEW b \in Boots
  PROVE  SessionCleared(b) \in Boots /\ SessionCleared(b).accepting = b.accepting
BY DEF SessionCleared, Boots

LEMMA FreshBoots ==
  ASSUME NEW b \in BOOLEAN
  PROVE  FreshBoot(b) \in Boots /\ FreshBoot(b).accepting = FALSE
BY DEF FreshBoot, Boots

LEMMA KeysTyped ==
  ASSUME NEW s \in Status \union {None}
  PROVE  InvitationKey(s) \in Keys \union {None}
BY DEF InvitationKey, Migrates, Status, Keys

LEMMA CookiesSet ==
  ASSUME SessionsAssumption, NEW t \in Tokens, NEW m \in Modes
  PROVE  /\ SetSessionCookies(t, m) \in Jar
         /\ SetSessionCookies(t, m).access = t /\ SetSessionCookies(t, m).refresh = t
         /\ SetSessionCookies(t, m).mode = m
BY DEF SetSessionCookies, Jar

-----------------------------------------------------------------------------
(* The page's own steps *)

LEMMA EffectsKeep ==
  ASSUME SessionsAssumption, SessionInv, Effects
  PROVE  SessionInv'
<1>1. SessionTyped /\ SessionTypeOK /\ CallsKnown /\ SessionKeepsItsMode
  BY TypesNamed DEF SessionInv
<1>2. UNCHANGED <<server, cookies, marker, query, mode, events, failed>>
  BY DEF Effects, RefreshOnboardingSession, SyncAuthenticatedProfile, AutoAcceptPendingInvitation
<1>3. SessionKeepsItsMode'
  BY <1>1, <1>2 DEF SessionKeepsItsMode
<1>4. boot' \in Boots
  <2>1. InvitationKey(query.data) \in Keys \union {None}
    BY <1>1, KeysTyped DEF SessionTyped, Queries
  <2> QED BY <1>1, <2>1 DEF SessionTyped, Boots, Effects, RefreshOnboardingSession,
        SyncAuthenticatedProfile, AutoAcceptPendingInvitation
<1>5. CallsKnown' /\ calls' \in [Slots -> Call \union {None}]
  <2>1. CASE RefreshOnboardingSession
    <3>1. Send("refresh", None) /\ boot'.accepting = boot.accepting
      BY <1>1, <2>1 DEF RefreshOnboardingSession, SessionTyped, Boots
    <3> QED BY <1>1, <3>1, OneMoreCall
  <2>2. CASE SyncAuthenticatedProfile
    <3>1. Send("me", None) /\ boot'.accepting = boot.accepting
      BY <1>1, <2>2 DEF SyncAuthenticatedProfile, SessionTyped, Boots
    <3> QED BY <1>1, <3>1, OneMoreCall
  <2>3. CASE AutoAcceptPendingInvitation
    <3>1. Send("accept", None) /\ boot'.accepting /\ ~boot.accepting
      BY <1>1, <2>3 DEF AutoAcceptPendingInvitation, ShouldAutoAcceptPendingInvitation, SessionTyped, Boots
    <3> QED BY <1>1, <3>1, FirstAcceptance
  <2> QED BY <2>1, <2>2, <2>3 DEF Effects
<1>6. SessionTyped'
  BY <1>1, <1>2, <1>4, <1>5 DEF SessionTyped, server
<1> QED BY <1>3, <1>5, <1>6, TypesNamedNext DEF SessionInv

LEMMA PressesKeep ==
  ASSUME SessionsAssumption, SessionInv, Presses
  PROVE  SessionInv'
<1>1. SessionTyped /\ SessionTypeOK /\ CallsKnown /\ SessionKeepsItsMode
  BY TypesNamed DEF SessionInv
<1>2. UNCHANGED <<server, cookies, mode, events, failed>>
  BY DEF Presses, LogIn, LoadingTimesOut, Retry, LogOutToLogin, LogOutForBilling, AcceptTransfer,
     RefreshForPanel
<1>3. SessionKeepsItsMode'
  BY <1>1, <1>2 DEF SessionKeepsItsMode
<1>4. CASE LoadingTimesOut \/ Retry \/ LogOutToLogin
  <2>1. calls' = calls
    BY <1>4 DEF LoadingTimesOut, Retry, LogOutToLogin
  <2>2. boot' \in Boots /\ boot'.accepting = boot.accepting /\ marker' \in BOOLEAN /\ query' \in Queries
    <3>1. CASE LoadingTimesOut
      BY <1>1, <3>1 DEF LoadingTimesOut, SessionTyped, Boots
    <3>2. CASE Retry
      <4>1. [boot EXCEPT !.timedOut = FALSE] \in Boots
            /\ [boot EXCEPT !.timedOut = FALSE].accepting = boot.accepting
        BY <1>1 DEF SessionTyped, Boots
      <4>2. Refetched(query, cookies.access) \in Queries
        BY <1>1, Refetching DEF SessionTyped, Jar
      <4> QED BY <1>1, <3>2, <4>1, <4>2, Settling DEF Retry, Page, SessionTyped
    <3>3. CASE LogOutToLogin
      BY <1>1, <3>3, ClearingSession, Settling DEF LogOutToLogin, Page, SessionTyped
    <3> QED BY <1>4, <3>1, <3>2, <3>3
  <2>3. CallsKnown'
    BY <1>1, <2>1, <2>2, FewerCalls DEF SessionTyped
  <2>4. SessionTyped'
    BY <1>1, <1>2, <2>1, <2>2 DEF SessionTyped, server
  <2> QED BY <1>3, <2>3, <2>4, TypesNamedNext DEF SessionInv
<1>5. CASE (\E u \in Users : LogIn(u)) \/ LogOutForBilling \/ RefreshForPanel
  <2>1. UNCHANGED page
    BY <1>5 DEF LogIn, LogOutForBilling, RefreshForPanel
  <2>2. CallsKnown' /\ calls' \in [Slots -> Call \union {None}]
    <3>1. \/ \E u \in Users : Send("login", u)
          \/ Send("logout", None) \/ Send("retry", None)
      BY <1>5 DEF LogIn, LogOutForBilling, RefreshForPanel
    <3>2. boot'.accepting = boot.accepting
      BY <2>1 DEF page
    <3> QED BY <1>1, <3>1, <3>2, OneMoreCall
  <2>3. SessionTyped'
    BY <1>1, <1>2, <2>1, <2>2 DEF SessionTyped, server, page
  <2> QED BY <1>3, <2>2, <2>3, TypesNamedNext DEF SessionInv
<1>6. CASE AcceptTransfer
  <2>1. /\ Send("accept", None) /\ ~boot.accepting /\ UNCHANGED <<marker, query>>
        /\ boot' \in Boots /\ boot'.accepting
    BY <1>1, <1>6 DEF AcceptTransfer, TransferCard, Offered, SessionTyped, Boots
  <2>2. CallsKnown' /\ calls' \in [Slots -> Call \union {None}]
    BY <1>1, <2>1, FirstAcceptance
  <2>3. SessionTyped'
    BY <1>1, <1>2, <2>1, <2>2 DEF SessionTyped, server
  <2> QED BY <1>3, <2>2, <2>3, TypesNamedNext DEF SessionInv
<1> QED BY <1>4, <1>5, <1>6 DEF Presses

-----------------------------------------------------------------------------
(* The answers *)

LEMMA CallAnswered ==
  ASSUME SessionTyped, NEW c \in Slots, NEW kind, Answered(c, kind)
  PROVE  /\ calls' \in [Slots -> Call \union {None}]
         /\ c \in UnderWay /\ calls[c] \in Call /\ calls[c].kind = kind
         /\ calls'[c] = None /\ \A d \in Slots \ {c} : calls'[d] = calls[d]
BY DEF SessionTyped, Answered, UnderWay

\* The failures the instance counts.
LEMMA FailuresTyped ==
  ASSUME SessionsAssumption, SessionTyped, NEW down \in BOOLEAN, MayBeDown(down), Counted(down)
  PROVE  failed' \in 0 .. MaxFailed
BY DEF SessionsAssumption, SessionTyped, MayBeDown, Counted

LEMMA PageTyped ==
  ASSUME NEW m \in BOOLEAN, NEW b \in Boots, NEW q \in Queries, Page(m, b, q)
  PROVE  marker' \in BOOLEAN /\ boot' \in Boots /\ query' \in Queries /\ boot'.accepting = b.accepting
BY Settling DEF Page

LEMMA GoodAccess ==
  ASSUME SessionsAssumption, SessionTyped, NEW t \in Tokens \union {None}, AccessIsGood(t)
  PROVE  t \in Tokens /\ tokens[t] \in Pairs /\ tokens[t].user \in Users
BY DEF SessionTyped, AccessIsGood, Pairs

LEMMA AnswerStatusKeeps ==
  ASSUME SessionsAssumption, SessionInv, AnyAnswerStatus
  PROVE  SessionInv'
<1>1. SessionTyped /\ SessionTypeOK /\ CallsKnown /\ SessionKeepsItsMode
  BY TypesNamed DEF SessionInv
<1>2. PICK down \in BOOLEAN : AnswerStatus(down)
  BY DEF AnyAnswerStatus
<1>3. UNCHANGED <<server, cookies, calls, mode, events>> /\ failed' \in 0 .. MaxFailed
  BY <1>1, <1>2, FailuresTyped DEF AnswerStatus
<1> DEFINE access == query.fetch.access
           verdict == Protected(access, down)
           said(entitled) ==
                IF verdict = "none"
                THEN [data |-> StatusOf(tokens[access].user, entitled), error |-> "none", fetch |-> None]
                ELSE [query EXCEPT !.error = verdict, !.fetch = None]
<1>4. ASSUME NEW entitled \in BOOLEAN
      PROVE  said(entitled) \in Queries
  <2>1. query.fetch # None /\ access \in Tokens \union {None}
    BY <1>1, <1>2 DEF AnswerStatus, SessionTyped, Queries
  <2>2. verdict \in {"none", "unauthorized", "other"}
    BY DEF Protected
  <2>3. ASSUME verdict = "none" PROVE StatusOf(tokens[access].user, entitled) \in Status
    <3>1. AccessIsGood(access)
      BY <2>3 DEF Protected
    <3>2. tokens[access].user \in Users
      BY <1>1, <2>1, <3>1, GoodAccess
    <3> HIDE DEF access
    <3> QED BY <1>1, <3>2 DEF SessionTyped, StatusOf, Status
  <2> HIDE DEF verdict, access
  <2> QED BY <1>1, <2>2, <2>3 DEF SessionTyped, Queries
<1>5. PICK entitled \in BOOLEAN : Page(marker, boot, said(entitled))
  BY <1>2 DEF AnswerStatus
<1> HIDE DEF said
<1>6. marker' \in BOOLEAN /\ boot' \in Boots /\ query' \in Queries /\ boot'.accepting = boot.accepting
  BY <1>1, <1>4, <1>5, PageTyped DEF SessionTyped
<1>7. CallsKnown'
  BY <1>1, <1>3, <1>6, FewerCalls DEF SessionTyped
<1>8. SessionTyped' /\ SessionKeepsItsMode'
  BY <1>1, <1>3, <1>6 DEF SessionTyped, server, SessionKeepsItsMode
<1> QED BY <1>7, <1>8, TypesNamedNext DEF SessionInv

LEMMA AnswerLogInKeeps ==
  ASSUME SessionsAssumption, SessionInv, NEW c \in Slots, NEW down \in BOOLEAN, AnswerLogIn(c, down)
  PROVE  SessionInv'
<1>1. SessionTyped /\ SessionTypeOK /\ CallsKnown /\ SessionKeepsItsMode
  BY TypesNamed DEF SessionInv
<1>2. Answered(c, "login") /\ UNCHANGED <<place, invited, mode, events>> /\ failed' \in 0 .. MaxFailed
  BY <1>1, FailuresTyped DEF AnswerLogIn
<1>3. /\ calls' \in [Slots -> Call \union {None}]
      /\ c \in UnderWay /\ calls[c].kind = "login"
      /\ \A d \in Slots : calls'[d] # None => calls'[d] = calls[d]
  BY <1>1, <1>2, CallAnswered
<1>4. calls[c].user \in Users
  BY <1>1, <1>3 DEF CallsKnown
<1>5. /\ tokens' \in [Tokens -> {None} \union Pairs] /\ cookies' \in Jar
      /\ marker' \in BOOLEAN /\ boot' \in Boots /\ query' \in Queries /\ boot'.accepting = boot.accepting
      /\ SessionKeepsItsMode'
  <2>1. CASE down
    BY <1>1, <1>2, <2>1 DEF AnswerLogIn, SessionTyped, page, SessionKeepsItsMode
  <2>2. CASE ~down
    <3>1. /\ tokens' = Issued(calls[c].user) /\ cookies' = SetSessionCookies(NewPair, mode)
          /\ Page(TRUE, [boot EXCEPT !.isAuth = TRUE], Refetched(query, NewPair))
      BY <2>2 DEF AnswerLogIn
    <3>2. tokens' \in [Tokens -> {None} \union Pairs] /\ NewPair \in Tokens
      BY <1>1, <1>4, <3>1, IssuedTyped
    <3>3. mode \in Modes
      BY <1>1 DEF SessionTyped
    <3>4. cookies' \in Jar /\ cookies'.access = NewPair /\ cookies'.refresh = NewPair /\ cookies'.mode = mode
      BY <3>1, <3>2, <3>3, CookiesSet
    <3>5. [boot EXCEPT !.isAuth = TRUE] \in Boots /\ [boot EXCEPT !.isAuth = TRUE].accepting = boot.accepting
      BY <1>1 DEF SessionTyped, Boots
    <3>6. Refetched(query, NewPair) \in Queries
      BY <1>1, <3>2, Refetching DEF SessionTyped
    <3>7. marker' \in BOOLEAN /\ boot' \in Boots /\ query' \in Queries /\ boot'.accepting = boot.accepting
      BY <3>1, <3>5, <3>6, PageTyped
    <3> QED BY <1>2, <3>2, <3>4, <3>7 DEF SessionKeepsItsMode
  <2> QED BY <2>1, <2>2
<1>6. CallsKnown'
  BY <1>1, <1>3, <1>5, FewerCalls
<1>7. SessionTyped'
  BY <1>1, <1>2, <1>3, <1>5 DEF SessionTyped
<1> QED BY <1>5, <1>6, <1>7, TypesNamedNext DEF SessionInv

\* What an exchanged refresh token leaves: the mode asked for is the page's own.
LEMMA RefreshesTyped ==
  ASSUME SessionsAssumption, SessionTypeOK, NEW c \in UnderWay, RefreshIsGood(calls[c].refresh),
         Refreshes(calls[c].refresh, mode)
  PROVE  /\ tokens' \in [Tokens -> {None} \union Pairs] /\ NewPair \in Tokens
         /\ cookies' \in Jar
         /\ cookies'.access = NewPair /\ cookies'.refresh = NewPair /\ cookies'.mode = mode
<1> DEFINE t == calls[c].refresh
<1>1. SessionTyped
  BY TypesNamed
<1>2. t \in Tokens /\ t \in Held /\ tokens[t] \in Pairs /\ tokens[t].user \in Users
  BY <1>1 DEF SessionTyped, UnderWay, Call, RefreshIsGood, Held, Pairs
<1> HIDE DEF t
<1>3. /\ Issued(tokens[t].user) \in [Tokens -> {None} \union Pairs]
      /\ NewPair \in Tokens /\ Issued(tokens[t].user)[t] \in Pairs
  BY <1>2, IssuedTyped
<1>4. tokens' \in [Tokens -> {None} \union Pairs]
  <2>1. PICK spent \in BOOLEAN : tokens' = [Issued(tokens[t].user) EXCEPT ![t].refresh = ~spent]
    BY DEF Refreshes, t
  <2>2. tokens' = [Issued(tokens[t].user) EXCEPT ![t] = [Issued(tokens[t].user)[t] EXCEPT !.refresh = ~spent]]
    BY <2>1
  <2>3. [Issued(tokens[t].user)[t] EXCEPT !.refresh = ~spent] \in Pairs
    BY <1>3 DEF Pairs
  <2> QED BY <1>3, <2>2, <2>3
<1>5. mode \in Modes /\ mode # None
  BY <1>1 DEF SessionTyped, SessionsAssumption
<1>6. cookies' = SetSessionCookies(NewPair, mode)
  BY <1>5 DEF Refreshes, RefreshMode
<1> QED BY <1>3, <1>4, <1>5, <1>6, CookiesSet

LEMMA AnswerRefreshKeeps ==
  ASSUME SessionsAssumption, SessionInv, NEW c \in Slots, NEW down \in BOOLEAN,
         AnswerRefresh(c, down) \/ AnswerPanelRefresh(c, down)
  PROVE  SessionInv'
<1>1. SessionTyped /\ SessionTypeOK /\ CallsKnown /\ SessionKeepsItsMode
  BY TypesNamed DEF SessionInv
<1>2. UNCHANGED <<place, invited, mode, events>> /\ failed' \in 0 .. MaxFailed
  BY <1>1, FailuresTyped DEF AnswerRefresh, AnswerPanelRefresh
<1>3. /\ calls' \in [Slots -> Call \union {None}] /\ c \in UnderWay
      /\ \A d \in Slots : calls'[d] # None => calls'[d] = calls[d]
  BY <1>1, CallAnswered DEF AnswerRefresh, AnswerPanelRefresh
<1>4. /\ tokens' \in [Tokens -> {None} \union Pairs] /\ cookies' \in Jar
      /\ marker' \in BOOLEAN /\ boot' \in Boots /\ query' \in Queries /\ boot'.accepting = boot.accepting
      /\ SessionKeepsItsMode'
  <2>1. CASE AnswerRefresh(c, down) /\ RefreshFails(c, down)
    <3>1. Page(FALSE, SessionCleared(boot), query) /\ UNCHANGED <<tokens, cookies>>
      BY <2>1 DEF AnswerRefresh
    <3>2. SessionCleared(boot) \in Boots /\ SessionCleared(boot).accepting = boot.accepting
      BY <1>1, ClearingSession DEF SessionTyped
    <3> QED BY <1>1, <1>2, <3>1, <3>2, PageTyped DEF SessionTyped, SessionKeepsItsMode
  <2>2. CASE AnswerPanelRefresh(c, down) /\ RefreshFails(c, down)
    BY <1>1, <1>2, <2>2 DEF AnswerPanelRefresh, SessionTyped, page, SessionKeepsItsMode
  <2>3. CASE ~RefreshFails(c, down)
    <3>1. Refreshes(calls[c].refresh, mode) /\ RefreshIsGood(calls[c].refresh)
      BY <2>3 DEF AnswerRefresh, AnswerPanelRefresh, RefreshFails
    <3>2. /\ tokens' \in [Tokens -> {None} \union Pairs] /\ NewPair \in Tokens /\ cookies' \in Jar
          /\ cookies'.access = NewPair /\ cookies'.refresh = NewPair /\ cookies'.mode = mode
      BY <1>1, <1>3, <3>1, RefreshesTyped
    <3> DEFINE b == [boot EXCEPT !.isAuth = TRUE, !.timedOut = FALSE, !.refreshing = FALSE]
    <3>3. b \in Boots /\ b.accepting = boot.accepting /\ boot \in Boots /\ query \in Queries
      BY <1>1 DEF SessionTyped, Boots
    <3>4. Refetched(query, NewPair) \in Queries
      BY <3>2, <3>3, Refetching
    <3>5. Page(TRUE, b, Refetched(query, NewPair)) \/ Page(TRUE, boot, query)
      BY <2>3 DEF AnswerRefresh, AnswerPanelRefresh
    <3> HIDE DEF b
    <3>6. marker' \in BOOLEAN /\ boot' \in Boots /\ query' \in Queries /\ boot'.accepting = boot.accepting
      BY <3>3, <3>4, <3>5, PageTyped
    <3> QED BY <1>2, <3>2, <3>6 DEF SessionKeepsItsMode
  <2> QED BY <2>1, <2>2, <2>3
<1>5. CallsKnown'
  BY <1>1, <1>3, <1>4, FewerCalls
<1>6. SessionTyped'
  BY <1>1, <1>2, <1>3, <1>4 DEF SessionTyped
<1> QED BY <1>4, <1>5, <1>6, TypesNamedNext DEF SessionInv

LEMMA AnswerProfileKeeps ==
  ASSUME SessionsAssumption, SessionInv, NEW c \in Slots, NEW down \in BOOLEAN, AnswerProfile(c, down)
  PROVE  SessionInv'
<1>1. SessionTyped /\ SessionTypeOK /\ CallsKnown /\ SessionKeepsItsMode
  BY TypesNamed DEF SessionInv
<1>2. UNCHANGED <<server, cookies, mode, events>> /\ failed' \in 0 .. MaxFailed
  BY <1>1, FailuresTyped DEF AnswerProfile
<1>3. /\ calls' \in [Slots -> Call \union {None}]
      /\ \A d \in Slots : calls'[d] # None => calls'[d] = calls[d]
  BY <1>1, CallAnswered DEF AnswerProfile
<1>4. marker' \in BOOLEAN /\ boot' \in Boots /\ query' \in Queries /\ boot'.accepting = boot.accepting
  <2>1. (marker \/ Protected(calls[c].access, down) = "none") \in BOOLEAN
    OBVIOUS
  <2> QED BY <1>1, <2>1, PageTyped DEF AnswerProfile, SessionTyped
<1>5. CallsKnown'
  BY <1>1, <1>3, <1>4, FewerCalls
<1>6. SessionTyped' /\ SessionKeepsItsMode'
  BY <1>1, <1>2, <1>3, <1>4 DEF SessionTyped, server, SessionKeepsItsMode
<1> QED BY <1>5, <1>6, TypesNamedNext DEF SessionInv

\* The one acceptance under way ends, and the page knows that it has.
LEMMA AnswerAcceptanceKeeps ==
  ASSUME SessionsAssumption, SessionInv, NEW c \in Slots, NEW down \in BOOLEAN, AnswerAcceptance(c, down)
  PROVE  SessionInv'
<1>1. SessionTyped /\ SessionTypeOK /\ CallsKnown /\ SessionKeepsItsMode
  BY TypesNamed DEF SessionInv
<1>2. UNCHANGED <<tokens, cookies, mode, events>> /\ failed' \in 0 .. MaxFailed
  BY <1>1, FailuresTyped DEF AnswerAcceptance
<1>3. /\ calls' \in [Slots -> Call \union {None}] /\ c \in UnderWay
      /\ calls[c] \in Call /\ calls[c].kind = "accept" /\ calls'[c] = None
      /\ \A d \in Slots : calls'[d] # None => calls'[d] = calls[d]
  BY <1>1, CallAnswered DEF AnswerAcceptance
<1> DEFINE access == calls[c].access
           u == tokens[access].user
           accepts == access # None /\ AccessIsGood(access) /\ invited[u] # None
<1>4. place' \in [Users -> Orgs \union {None}] /\ invited' \in [Users -> Orgs \union {None}]
  <2>1. ASSUME accepts PROVE u \in Users /\ invited[u] \in Orgs
    <3>1. access \in Tokens \union {None} /\ AccessIsGood(access)
      BY <1>3, <2>1 DEF Call
    <3>2. u \in Users
      BY <1>1, <3>1, GoodAccess
    <3> HIDE DEF access, u
    <3> QED BY <1>1, <2>1, <3>2 DEF SessionTyped
  <2>2. \/ /\ accepts /\ place' = [place EXCEPT ![u] = invited[u]]
           /\ invited' = [invited EXCEPT ![u] = None]
        \/ UNCHANGED <<place, invited>>
    BY DEF AnswerAcceptance
  <2> HIDE DEF accepts, u
  <2> QED BY <1>1, <2>1, <2>2 DEF SessionTyped
<1>5. marker' \in BOOLEAN /\ boot' \in Boots /\ query' \in Queries
  <2>1. /\ [boot EXCEPT !.accepting = FALSE, !.timedOut = FALSE] \in Boots
        /\ [boot EXCEPT !.accepting = FALSE] \in Boots
    BY <1>1 DEF SessionTyped, Boots
  <2>2. Refetched(query, cookies.access) \in Queries
    BY <1>1, Refetching DEF SessionTyped, Jar
  <2>3. \/ Page(TRUE, [boot EXCEPT !.accepting = FALSE, !.timedOut = FALSE], Refetched(query, cookies.access))
        \/ Page(marker, [boot EXCEPT !.accepting = FALSE], query)
    BY DEF AnswerAcceptance
  <2> QED BY <1>1, <2>1, <2>2, <2>3, PageTyped DEF SessionTyped
<1>6. CallsKnown'
  <2>1. \A d \in Slots : calls'[d] # None => calls[d].kind # "accept"
    BY <1>1, <1>3 DEF CallsKnown, UnderWay
  <2> QED BY <1>1, <1>3, <2>1, FewerCalls
<1>7. SessionTyped' /\ SessionKeepsItsMode'
  BY <1>1, <1>2, <1>3, <1>4, <1>5 DEF SessionTyped, SessionKeepsItsMode
<1> QED BY <1>6, <1>7, TypesNamedNext DEF SessionInv

LEMMA AnswerLogOutKeeps ==
  ASSUME SessionsAssumption, SessionInv, NEW c \in Slots, NEW down \in BOOLEAN, NEW revokes \in BOOLEAN,
         AnswerLogOut(c, down, revokes)
  PROVE  SessionInv'
<1>1. SessionTyped /\ SessionTypeOK /\ CallsKnown /\ SessionKeepsItsMode
  BY TypesNamed DEF SessionInv
<1>2. UNCHANGED <<place, invited, mode, events>> /\ failed' \in 0 .. MaxFailed
  BY <1>1, FailuresTyped DEF AnswerLogOut
<1>3. /\ calls' \in [Slots -> Call \union {None}] /\ calls[c] \in Call
      /\ \A d \in Slots : calls'[d] # None => calls'[d] = calls[d]
  BY <1>1, CallAnswered DEF AnswerLogOut
<1>4. marker' \in BOOLEAN /\ boot' \in Boots /\ query' \in Queries /\ boot'.accepting = boot.accepting
  <2>1. SessionCleared(boot) \in Boots /\ SessionCleared(boot).accepting = boot.accepting
    BY <1>1, ClearingSession DEF SessionTyped
  <2> QED BY <1>1, <2>1, PageTyped DEF AnswerLogOut, SessionTyped
<1>5. tokens' \in [Tokens -> {None} \union Pairs] /\ cookies' \in Jar /\ SessionKeepsItsMode'
  <2>1. CASE ~LogoutClears(c, down)
    BY <1>1, <1>2, <2>1 DEF AnswerLogOut, SessionTyped, SessionKeepsItsMode
  <2>2. CASE LogoutClears(c, down)
    <3>1. cookies' = EmptyJar
      BY <2>2 DEF AnswerLogOut
    <3>2. cookies' \in Jar /\ SessionKeepsItsMode'
      BY <3>1 DEF EmptyJar, Jar, SessionKeepsItsMode
    <3> DEFINE t == calls[c].access
    <3>3. t \in Tokens /\ tokens[t] \in Pairs
      <4>1. t \in Tokens \union {None} /\ AccessIsGood(t)
        BY <1>3, <2>2 DEF Call, LogoutClears, Protected
      <4> QED BY <1>1, <4>1, GoodAccess
    <3> HIDE DEF t
    <3>4. \/ tokens' = tokens
          \/ tokens' = [tokens EXCEPT ![t].access = FALSE, ![t].refresh = FALSE]
      BY <2>2 DEF AnswerLogOut, t
    <3>5. [tokens EXCEPT ![t].access = FALSE, ![t].refresh = FALSE]
            = [tokens EXCEPT ![t] = [tokens[t] EXCEPT !.access = FALSE, !.refresh = FALSE]]
      BY <1>1, <3>3 DEF SessionTyped
    <3>6. [tokens[t] EXCEPT !.access = FALSE, !.refresh = FALSE] \in Pairs
      BY <3>3 DEF Pairs
    <3> QED BY <1>1, <3>2, <3>4, <3>5, <3>6 DEF SessionTyped
  <2> QED BY <2>1, <2>2
<1>6. CallsKnown'
  BY <1>1, <1>3, <1>4, FewerCalls
<1>7. SessionTyped'
  BY <1>1, <1>2, <1>3, <1>4, <1>5 DEF SessionTyped
<1> QED BY <1>5, <1>6, <1>7, TypesNamedNext DEF SessionInv

LEMMA AnswersKeep ==
  ASSUME SessionsAssumption, SessionInv, NEW c \in Slots, Answer(c)
  PROVE  SessionInv'
<1>1. PICK down \in BOOLEAN :
        \/ AnswerLogIn(c, down) \/ AnswerRefresh(c, down) \/ AnswerPanelRefresh(c, down)
        \/ AnswerProfile(c, down) \/ AnswerAcceptance(c, down)
        \/ \E revokes \in BOOLEAN : AnswerLogOut(c, down, revokes)
  BY DEF Answer
<1> QED BY <1>1, AnswerLogInKeeps, AnswerRefreshKeeps, AnswerProfileKeeps, AnswerAcceptanceKeeps,
       AnswerLogOutKeeps

-----------------------------------------------------------------------------
(* What happens around the session *)

LEMMA DayPassesKeeps ==
  ASSUME SessionsAssumption, SessionInv, DayPasses
  PROVE  SessionInv'
<1>1. SessionTyped /\ SessionTypeOK /\ CallsKnown /\ SessionKeepsItsMode
  BY TypesNamed DEF SessionInv
<1>2. UNCHANGED <<server, page, calls, mode, failed>> /\ events' \in 0 .. MaxEvents
  BY <1>1 DEF DayPasses, Event, SessionTyped, SessionsAssumption
<1> DEFINE age == cookies.age + 1
           access == IF age < AccessMaxAge THEN cookies.access ELSE None
           first == [cookies EXCEPT !.age = age]
           older == [first EXCEPT !.access = access]
<1>3. /\ age \in 0 .. 2 /\ access \in Tokens \union {None} /\ access \in {cookies.access, None}
      /\ cookies \in Jar
  BY <1>1 DEF DayPasses, SessionTyped, Jar
<1>4. cookies' = older \/ cookies' = EmptyJar
  BY DEF DayPasses
<1> HIDE DEF age, access
<1>5. /\ older \in Jar /\ EmptyJar \in Jar /\ older.refresh = cookies.refresh /\ older.mode = cookies.mode
      /\ older.access # None => older.access = cookies.access
  <2>1. first \in Jar /\ first.refresh = cookies.refresh /\ first.mode = cookies.mode
    BY <1>3 DEF Jar
  <2> HIDE DEF first
  <2>2. /\ older \in Jar /\ older.access = access
        /\ older.refresh = first.refresh /\ older.mode = first.mode
    BY <1>3, <2>1 DEF Jar
  <2>3. EmptyJar \in Jar
    BY DEF EmptyJar, Jar
  <2> QED BY <1>3, <2>1, <2>2, <2>3
<1>6. cookies' \in Jar /\ SessionKeepsItsMode'
  <2>1. CASE cookies' = older
    <3> HIDE DEF older
    <3> QED BY <1>1, <1>2, <1>5, <2>1 DEF SessionKeepsItsMode
  <2>2. CASE cookies' = EmptyJar
    BY <1>5, <2>2 DEF SessionKeepsItsMode, EmptyJar
  <2> QED BY <1>4, <2>1, <2>2
<1>7. CallsKnown'
  BY <1>1, <1>2 DEF CallsKnown, UnderWay, page
<1>8. SessionTyped'
  BY <1>1, <1>2, <1>6 DEF SessionTyped, server, page
<1> QED BY <1>6, <1>7, <1>8, TypesNamedNext DEF SessionInv

LEMMA AroundKeeps ==
  ASSUME SessionsAssumption, SessionInv, Around
  PROVE  SessionInv'
<1>1. SessionTyped /\ SessionTypeOK /\ CallsKnown /\ SessionKeepsItsMode
  BY TypesNamed DEF SessionInv
<1>2. events' \in 0 .. MaxEvents /\ UNCHANGED <<mode, failed>>
  BY <1>1 DEF Around, DayPasses, Reload, TokenEnds, Invited, Admitted, Event, SessionTyped, SessionsAssumption
<1>3. CASE Reload
  <2>1. UNCHANGED <<server, cookies, marker>> /\ calls' = [c \in Slots |-> None]
    BY <1>3 DEF Reload
  <2>2. boot' \in Boots
    BY <1>1, <1>3, FreshBoots DEF Reload, SessionTyped
  <2>3. query' \in Queries
    BY <1>1, <1>3 DEF Reload, SessionTyped, Queries, Jar
  <2>4. CallsKnown'
    BY <2>1 DEF CallsKnown, UnderWay
  <2>5. SessionTyped' /\ SessionKeepsItsMode'
    BY <1>1, <1>2, <2>1, <2>2, <2>3 DEF SessionTyped, server, SessionKeepsItsMode
  <2> QED BY <2>4, <2>5, TypesNamedNext DEF SessionInv
<1>4. ASSUME NEW t \in Tokens, TokenEnds(t) PROVE SessionInv'
  <2>1. UNCHANGED <<place, invited, cookies, page, calls>> /\ tokens[t] # None
    BY <1>4 DEF TokenEnds
  <2>2. PICK a, r \in BOOLEAN : tokens' = [tokens EXCEPT ![t].access = @ /\ a, ![t].refresh = @ /\ r]
    BY <1>4 DEF TokenEnds
  <2>3. tokens[t] \in Pairs
    BY <1>1, <2>1 DEF SessionTyped
  <2>4. tokens' = [tokens EXCEPT ![t] = [tokens[t] EXCEPT !.access = @ /\ a, !.refresh = @ /\ r]]
    BY <1>1, <2>2, <2>3 DEF SessionTyped
  <2>5. [tokens[t] EXCEPT !.access = @ /\ a, !.refresh = @ /\ r] \in Pairs
    BY <2>3 DEF Pairs
  <2>6. tokens' \in [Tokens -> {None} \union Pairs]
    BY <1>1, <2>4, <2>5 DEF SessionTyped
  <2>7. CallsKnown' /\ SessionKeepsItsMode'
    BY <1>1, <1>2, <2>1 DEF CallsKnown, UnderWay, page, SessionKeepsItsMode
  <2>8. SessionTyped'
    BY <1>1, <1>2, <2>1, <2>6 DEF SessionTyped, page
  <2> QED BY <2>7, <2>8, TypesNamedNext DEF SessionInv
<1>5. ASSUME NEW u \in Users, NEW o \in Orgs, Invited(u, o) \/ Admitted(u, o) PROVE SessionInv'
  <2>1. UNCHANGED <<tokens, cookies, page, calls>>
    BY <1>5 DEF Invited, Admitted
  <2>2. place' \in [Users -> Orgs \union {None}] /\ invited' \in [Users -> Orgs \union {None}]
    BY <1>1, <1>5 DEF Invited, Admitted, SessionTyped
  <2>3. CallsKnown' /\ SessionKeepsItsMode'
    BY <1>1, <1>2, <2>1 DEF CallsKnown, UnderWay, page, SessionKeepsItsMode
  <2>4. SessionTyped'
    BY <1>1, <1>2, <2>1, <2>2 DEF SessionTyped, page
  <2> QED BY <2>3, <2>4, TypesNamedNext DEF SessionInv
<1> QED BY <1>3, <1>4, <1>5, DayPassesKeeps DEF Around

-----------------------------------------------------------------------------
(* The invariant of a session *)

LEMMA SessionStarts ==
  ASSUME SessionsAssumption, SessionInit
  PROVE  SessionInv
<1>1. place \in [Users -> Orgs \union {None}]
  BY DEF SessionInit, SessionsAssumption
<1>2. boot \in Boots
  BY FreshBoots DEF SessionInit
<1>3. query \in Queries /\ cookies \in Jar
  BY DEF SessionInit, Queries, Jar, EmptyJar
<1>4. events \in 0 .. MaxEvents /\ failed \in 0 .. MaxFailed
  BY DEF SessionInit, SessionsAssumption
<1>5. SessionTyped
  BY <1>1, <1>2, <1>3, <1>4 DEF SessionTyped, SessionInit
<1>6. CallsKnown /\ SessionKeepsItsMode
  BY DEF SessionInit, CallsKnown, UnderWay, SessionKeepsItsMode, EmptyJar
<1> QED BY <1>5, <1>6, TypesNamed DEF SessionInv

LEMMA SessionKeeps ==
  ASSUME SessionsAssumption, SessionInv, [SessionNext]_sessionVars
  PROVE  SessionInv'
<1>1. CASE UNCHANGED sessionVars
  BY <1>1 DEF SessionInv, SessionTypeOK, CallsKnown, UnderWay, SessionKeepsItsMode, sessionVars
<1> QED BY <1>1, EffectsKeep, AnswerStatusKeeps, AnswersKeep, PressesKeep, AroundKeeps DEF SessionNext

\* Whatever calls of a page are under way and however they are answered, its cookies,
\* its boot and its gate fit each other (useClassroomPathBoot).
THEOREM SessionInvariant == SessionsAssumption => (SessionSpec => []SessionInv)
<1> SUFFICES ASSUME SessionsAssumption
             PROVE  SessionSpec => []SessionInv
  OBVIOUS
<1>1. SessionInit => SessionInv
  BY SessionStarts
<1>2. SessionInv /\ [SessionNext]_sessionVars => SessionInv'
  BY SessionKeeps
<1> QED BY <1>1, <1>2, PTL DEF SessionSpec

\* Whatever ends, expires or is refreshed, the session's cookies are of one pair and
\* keep the mode it was opened in.
THEOREM SessionKeepsMode == SessionsAssumption => (SessionSpec => []SessionKeepsItsMode)
<1> SUFFICES ASSUME SessionsAssumption
             PROVE  SessionSpec => []SessionKeepsItsMode
  OBVIOUS
<1>1. SessionInv => SessionKeepsItsMode
  BY DEF SessionInv
<1> QED BY <1>1, SessionInvariant, PTL

\* A page never has two acceptances under way.
THEOREM AcceptsOnce == SessionsAssumption => (SessionSpec => []OneAcceptance)
<1> SUFFICES ASSUME SessionsAssumption
             PROVE  SessionSpec => []OneAcceptance
  OBVIOUS
<1>1. SessionInv => OneAcceptance
  <2> SUFFICES ASSUME SessionInv PROVE OneAcceptance
    OBVIOUS
  <2> DEFINE A == {c \in UnderWay : calls[c].kind = "accept"}
  <2>1. \A c, d \in A : d = c
    BY DEF SessionInv, CallsKnown
  <2>2. A = {} \/ \E c \in A : A = {c}
    BY <2>1
  <2>3. Cardinality(A) <= 1
    <3> HIDE DEF A
    <3> QED BY <2>2, FS_EmptySet, FS_Singleton
  <2> QED BY <2>3 DEF OneAcceptance
<1> QED BY <1>1, SessionInvariant, PTL

-----------------------------------------------------------------------------
(* The requests about accounts and invitations *)

\* The steps a request of each kind may be at.
Route(kind) ==
  CASE kind = "invite"   -> {"audit", "mail", "undo", "unaudit"}
    [] kind = "open"     -> {"token", "active", "account", "register", "terms", "drop", "put", "verify",
                             "membership", "commit", "readrole", "writerole"}
    [] kind = "pending"  -> {"active", "account", "terms", "membership", "commit", "readrole", "writerole"}
    [] kind = "register" -> {"register", "terms", "drop", "put", "mail"}
    [] kind = "google"   -> {"lookup", "insert", "linkup", "terms"}
    [] kind = "resend"   -> {"drop", "put", "mail"}
    [] kind = "reset"    -> {"drop", "put", "audit", "mail", "undo", "unaudit"}
    [] OTHER             -> {"idle"}

Stages == {"idle", "audit", "mail", "undo", "unaudit", "drop", "put", "register", "terms", "lookup",
           "insert", "linkup", "token", "active", "account", "verify", "membership", "commit",
           "readrole", "writerole"}

HandlerType ==
  [kind : Kinds \union {None}, stage : Stages, user : Users \union {None},
   link : Invites \union {None}, invite : Invites \union {None},
   secret : Secret \union {None}, row : Membership \union {None}, new : BOOLEAN]

Known(i) == i \in Invites /\ invitations[i] # None

\* What a request knows of the invitation in its link and of the one it works on.
KnowsInvitation(r) ==
  /\ r.kind = "invite" => Known(r.invite)
  /\ r.kind = "open" => Known(r.link) /\ invitations[r.link].user = r.user
  /\ r.kind \in {"open", "pending"} /\ r.stage \notin {"token", "active"} =>
       Known(r.invite) /\ invitations[r.invite].user = r.user

\* The token it has drawn is its user's.
KnowsToken(r) ==
  /\ r.secret # None => r.secret \in Secret /\ r.secret.user = r.user
  /\ r.stage \in {"verify", "audit", "mail", "undo", "unaudit"} /\ r.kind # "invite" =>
       r.secret \in Secret /\ r.secret.user = r.user

\* The account it works for, and what its owner has agreed to.
KnowsAccount(r) ==
  /\ r.stage \in {"terms", "drop", "put", "verify", "membership", "commit"} => accounts[r.user] # None
  /\ r.kind = "pending" => LoggedIn(r.user)
  /\ r.stage \in {"membership", "commit"} => LoggedIn(r.user) /\ r.user \in terms
  /\ r.stage = "terms" /\ r.kind = "open" /\ ~r.new => LoggedIn(r.user)
  /\ r.stage \in {"drop", "put", "verify"} /\ r.kind = "open" => r.user \in terms
  /\ r.stage = "register" /\ r.kind = "open" => r.new
  /\ r.new => r.kind = "open"

\* As long as the invitation in its link stands, it works on one of the same organization.
LeadsHome(r) ==
  r.kind = "open" /\ r.stage \notin {"token", "active", "readrole", "writerole"} /\ Active(r.link) =>
    invitations[r.invite].org = invitations[r.link].org

Fits(r) ==
  /\ r \in HandlerType /\ r.stage \in Route(r.kind)
  /\ r.kind # None => r.user \in Users
  /\ KnowsInvitation(r) /\ KnowsToken(r) /\ KnowsAccount(r) /\ LeadsHome(r)

HandlersFit == handlers \in [Handlers -> HandlerType] /\ \A h \in Handlers : Fits(handlers[h])

\* Whoever has joined did so on their own invitation, on its terms.
JoinedAsInvited ==
  \A u \in Users :
    members[u] # None /\ members[u].via # None =>
      /\ Known(members[u].via)
      /\ LET i == invitations[members[u].via]
         IN  i.user = u /\ i.org = members[u].org /\ i.role = members[u].role

\* Whose a stored token is has an account.
TokensHaveAccounts == \A s \in secrets : accounts[s.user] # None

\* The types of what is stored.
StoredTyped ==
  /\ accounts \in [Users -> Account \union {None}]
  /\ secrets \subseteq Secret /\ mailbox \subseteq Secret
  /\ invitations \in [Invites -> InvitationType \union {None}]
  /\ members \in [Users -> Membership \union {None}]
  /\ waiting \subseteq Users /\ terms \subseteq Users
  /\ mirror \in [Users -> Roles \union {None}]
  /\ audits \subseteq Invites \union Secret
  /\ now \in 0 .. MaxTime /\ faults \in 0 .. MaxFaults

AccessInv == TypeOK /\ TokensHaveAccounts /\ JoinedInFull /\ JoinedAsInvited /\ HandlersFit

\* What no step undoes.
Progress ==
  /\ \A i \in Invites : invitations[i] # None =>
       /\ invitations'[i] # None
       /\ invitations'[i].org = invitations[i].org /\ invitations'[i].user = invitations[i].user
       /\ invitations'[i].role = invitations[i].role
       /\ invitations'[i].expires = invitations[i].expires
       /\ invitations'[i].live => invitations[i].live
  /\ \A u \in Users : accounts[u] # None => accounts'[u] # None
  /\ \A u \in Users : LoggedIn(u) => LoggedIn(u)'
  /\ terms \subseteq terms' /\ now <= now'

LEMMA SomeKind ==
  ASSUME InvitationsAssumption
  PROVE  /\ Route(None) = {"idle"}
         /\ Route("invite") = {"audit", "mail", "undo", "unaudit"}
         /\ Route("open") = {"token", "active", "account", "register", "terms", "drop", "put", "verify",
                             "membership", "commit", "readrole", "writerole"}
         /\ Route("pending") = {"active", "account", "terms", "membership", "commit", "readrole", "writerole"}
         /\ Route("register") = {"register", "terms", "drop", "put", "mail"}
         /\ Route("google") = {"lookup", "insert", "linkup", "terms"}
         /\ Route("resend") = {"drop", "put", "mail"}
         /\ Route("reset") = {"drop", "put", "audit", "mail", "undo", "unaudit"}
BY DEF InvitationsAssumption, Kinds, Route

\* The requests at work have a user.
LEMMA Busy ==
  ASSUME InvitationsAssumption, NEW r, Fits(r), r.stage # "idle"
  PROVE  r.kind \in Kinds /\ r.user \in Users
BY SomeKind DEF Fits, HandlerType

\* A request that does not move still fits.
LEMMA StillFits ==
  ASSUME InvitationsAssumption, AccessInv, Progress, now \in Int, now' \in Int,
         invitations \in [Invites -> InvitationType \union {None}],
         NEW h \in Handlers, handlers'[h] = handlers[h]
  PROVE  Fits(handlers[h])'
<1> DEFINE r == handlers[h]
<1>1. Fits(r) /\ handlers'[h] = r
  BY DEF AccessInv, HandlersFit
<1> HIDE DEF r
<1>2. r.kind # None => r.user \in Users
  BY <1>1 DEF Fits
<1>3. r.stage # "idle" => r.user \in Users
  BY <1>1, Busy
<1>4. KnowsInvitation(handlers[h])'
  BY <1>1 DEF Fits, KnowsInvitation, Known, Progress
<1>5. KnowsToken(handlers[h])'
  BY <1>1 DEF Fits, KnowsToken
<1>6. KnowsAccount(handlers[h])'
  <2>1. /\ r.user \in Users /\ accounts[r.user] # None => accounts'[r.user] # None
        /\ r.user \in Users /\ LoggedIn(r.user) => accounts'[r.user] # None /\ accounts'[r.user].verified
        /\ r.user \in terms => r.user \in terms'
    BY DEF Progress, LoggedIn
  <2>2. KnowsAccount(r) /\ (r.kind = "pending" => r.user \in Users)
    BY <1>1, <1>2, SomeKind DEF Fits, InvitationsAssumption, Kinds
  <2> QED BY <1>1, <1>3, <2>1, <2>2 DEF KnowsAccount, LoggedIn
<1>7. LeadsHome(handlers[h])'
  <2> SUFFICES ASSUME r.kind = "open", r.stage \notin {"token", "active", "readrole", "writerole"},
                      invitations'[r.link] # None, invitations'[r.link].live,
                      invitations'[r.link].expires > now'
               PROVE  invitations'[r.invite].org = invitations'[r.link].org
    BY <1>1 DEF LeadsHome, Active, Live
  <2>1. Known(r.link) /\ Known(r.invite)
    BY <1>1 DEF Fits, KnowsInvitation
  <2>2. Active(r.link)
    <3>1. invitations[r.link] \in InvitationType /\ invitations[r.link].expires \in Int
      BY <2>1 DEF Known, InvitationType
    <3>2. invitations[r.link].live /\ invitations'[r.link].expires = invitations[r.link].expires
      BY <2>1 DEF Known, Progress
    <3> QED BY <2>1, <3>1, <3>2 DEF Active, Live, Known, Progress
  <2> QED BY <1>1, <2>1, <2>2 DEF Fits, LeadsHome, Known, Progress
<1> QED BY <1>1, <1>4, <1>5, <1>6, <1>7 DEF Fits

LEMMA Facts ==
  ASSUME InvitationsAssumption, AccessInv
  PROVE  /\ StoredTyped /\ MaxTime \in Nat /\ MaxFaults \in Nat /\ now \in Int
         /\ handlers \in [Handlers -> HandlerType] /\ \A h \in Handlers : Fits(handlers[h])
         /\ TokensHaveAccounts /\ JoinedInFull /\ JoinedAsInvited
BY DEF InvitationsAssumption, AccessInv, TypeOK, StoredTyped, HandlersFit

LEMMA SameProgress ==
  ASSUME InvitationsAssumption, AccessInv, UNCHANGED <<accounts, invitations, terms, now>>
  PROVE  Progress
BY Facts DEF Progress, LoggedIn

\* What is left to prove of a step.
LEMMA Kept ==
  ASSUME InvitationsAssumption, AccessInv, Progress, StoredTyped',
         \A s \in secrets' : s \in secrets \/ accounts'[s.user] # None,
         handlers' \in [Handlers -> HandlerType],
         \A h \in Handlers : Fits(handlers[h])' \/ handlers'[h] = handlers[h],
         JoinedInFull', JoinedAsInvited'
  PROVE  AccessInv'
<1>1. HandlersFit'
  <2>1. ASSUME NEW h \in Handlers, handlers'[h] = handlers[h] PROVE Fits(handlers[h])'
    BY <2>1, Facts, StillFits DEF StoredTyped
  <2> QED BY <2>1 DEF HandlersFit
<1>2. TypeOK'
  <2>1. \A h \in Handlers : handlers'[h].kind \in Kinds \union {None}
    BY DEF HandlerType
  <2> QED BY <2>1 DEF StoredTyped, TypeOK
<1>3. TokensHaveAccounts'
  <2>1. \A s \in secrets : s.user \in Users
    BY Facts DEF StoredTyped, Secret
  <2> QED BY <2>1, Facts DEF TokensHaveAccounts, Progress
<1> QED BY <1>1, <1>2, <1>3 DEF AccessInv

\* And of one that gives nobody a membership.
LEMMA Carried ==
  ASSUME InvitationsAssumption, AccessInv, Progress, StoredTyped',
         \A s \in secrets' : s \in secrets \/ accounts'[s.user] # None,
         members' = members, waiting' \subseteq waiting,
         handlers' \in [Handlers -> HandlerType],
         \A h \in Handlers : Fits(handlers[h])' \/ handlers'[h] = handlers[h]
  PROVE  AccessInv'
<1>1. JoinedInFull'
  BY Facts DEF JoinedInFull, Progress, LoggedIn
<1>2. JoinedAsInvited'
  BY Facts DEF JoinedAsInvited, Known, Progress
<1> QED BY <1>1, <1>2, Kept

LEMMA Ended ==
  ASSUME InvitationsAssumption, AccessInv, NEW h \in Handlers, End(h)
  PROVE  /\ handlers' \in [Handlers -> HandlerType]
         /\ \A g \in Handlers : Fits(handlers[g])' \/ handlers'[g] = handlers[g]
<1>1. Idle \in HandlerType
  BY DEF Idle, Handling, HandlerType, Stages
<1>2. /\ handlers' \in [Handlers -> HandlerType] /\ handlers'[h] = Idle
      /\ \A g \in Handlers \ {h} : handlers'[g] = handlers[g]
  BY <1>1, Facts DEF End
<1>3. Fits(handlers[h])'
  BY <1>1, <1>2, SomeKind DEF Fits, Idle, Handling, KnowsInvitation, KnowsToken, KnowsAccount, LeadsHome,
     InvitationsAssumption, Kinds
<1> QED BY <1>2, <1>3

LEMMA Moved ==
  ASSUME InvitationsAssumption, AccessInv, NEW h \in Handlers, NEW stage \in Stages, Goto(h, stage)
  PROVE  LET r == handlers[h]
             next == handlers'[h]
         IN  /\ handlers' \in [Handlers -> HandlerType] /\ r \in HandlerType /\ Fits(r)
             /\ next.stage = stage
             /\ next.kind = r.kind /\ next.user = r.user /\ next.link = r.link /\ next.invite = r.invite
             /\ next.secret = r.secret /\ next.row = r.row /\ next.new = r.new
             /\ \A g \in Handlers \ {h} : handlers'[g] = handlers[g]
BY Facts DEF Goto, HandlerType

AtToken == {"verify", "audit", "mail", "undo", "unaudit"}

\* A request that has found its invitation goes on to another step.
LEMMA Advances ==
  ASSUME InvitationsAssumption, AccessInv, Progress, StoredTyped', NEW h \in Handlers,
         NEW next \in HandlerType, handlers' = [handlers EXCEPT ![h] = next],
         next.kind = handlers[h].kind, next.user = handlers[h].user, next.link = handlers[h].link,
         next.invite = handlers[h].invite,
         handlers[h].stage \notin {"idle", "token", "active"},
         next.stage \notin {"token", "active"}, next.stage \in Route(next.kind),
         handlers[h].stage \in {"readrole", "writerole"} => next.stage \in {"readrole", "writerole"},
         KnowsToken(handlers[h])', KnowsAccount(handlers[h])'
  PROVE  /\ handlers' \in [Handlers -> HandlerType]
         /\ \A g \in Handlers : Fits(handlers[g])' \/ handlers'[g] = handlers[g]
<1> DEFINE r == handlers[h]
<1>1. /\ handlers' \in [Handlers -> HandlerType] /\ r \in HandlerType /\ Fits(r) /\ handlers'[h] = next
      /\ \A g \in Handlers \ {h} : handlers'[g] = handlers[g]
  BY Facts
<1>2. r.user \in Users
  BY <1>1, Busy
<1>3. KnowsInvitation(handlers[h])'
  BY <1>1 DEF Fits, KnowsInvitation, Known, Progress
<1>4. LeadsHome(handlers[h])'
  <2> SUFFICES ASSUME r.kind = "open", next.stage \notin {"readrole", "writerole"},
                      invitations'[r.link] # None, invitations'[r.link].live,
                      invitations'[r.link].expires > now'
               PROVE  invitations'[r.invite].org = invitations'[r.link].org
    BY <1>1 DEF LeadsHome, Active, Live
  <2>1. Known(r.link) /\ Known(r.invite)
    BY <1>1 DEF Fits, KnowsInvitation
  <2>2. Active(r.link)
    <3>1. invitations[r.link] \in InvitationType /\ invitations[r.link].expires \in Int
      BY <2>1, Facts DEF Known, InvitationType, StoredTyped
    <3>2. invitations[r.link].live /\ invitations'[r.link].expires = invitations[r.link].expires
      BY <2>1 DEF Known, Progress
    <3>3. now' \in Int /\ now <= now'
      BY Facts DEF Progress, StoredTyped
    <3> QED BY <2>1, <3>1, <3>2, <3>3, Facts DEF Active, Live, Known
  <2> QED BY <1>1, <2>1, <2>2 DEF Fits, LeadsHome, Known, Progress
<1>5. Fits(handlers[h])'
  BY <1>1, <1>2, <1>3, <1>4 DEF Fits
<1> QED BY <1>1, <1>5

LEMMA MovesOn ==
  ASSUME InvitationsAssumption, AccessInv, Progress, StoredTyped', NEW h \in Handlers,
         NEW stage \in Stages, Goto(h, stage),
         handlers[h].stage \notin {"idle", "token", "active"},
         stage \notin {"token", "active"}, stage \in Route(handlers[h].kind),
         handlers[h].stage \in {"readrole", "writerole"} => stage \in {"readrole", "writerole"},
         stage \in AtToken /\ handlers[h].kind # "invite" =>
           handlers[h].secret # None \/ handlers[h].stage \in AtToken,
         KnowsAccount(handlers[h])'
  PROVE  /\ handlers' \in [Handlers -> HandlerType]
         /\ \A g \in Handlers : Fits(handlers[g])' \/ handlers'[g] = handlers[g]
<1> DEFINE next == [handlers[h] EXCEPT !.stage = stage]
<1>1. handlers[h] \in HandlerType /\ Fits(handlers[h])
  BY Facts
<1>2. /\ next \in HandlerType /\ next.stage = stage
      /\ next.kind = handlers[h].kind /\ next.user = handlers[h].user /\ next.link = handlers[h].link
      /\ next.invite = handlers[h].invite /\ next.secret = handlers[h].secret
  BY <1>1 DEF HandlerType
<1>3. handlers' = [handlers EXCEPT ![h] = next] /\ handlers'[h] = next
  BY Facts DEF Goto
<1> HIDE DEF next
<1>4. KnowsToken(handlers[h])'
  BY <1>1, <1>2, <1>3 DEF Fits, KnowsToken, AtToken
<1> QED BY <1>2, <1>3, <1>4, Advances

Draws(h, stage, s) == handlers' = [handlers EXCEPT ![h].stage = stage, ![h].secret = s]

LEMMA Drew ==
  ASSUME InvitationsAssumption, AccessInv, NEW h \in Handlers, NEW stage \in Stages, NEW s \in Secret,
         Draws(h, stage, s)
  PROVE  \E next \in HandlerType :
           /\ handlers' = [handlers EXCEPT ![h] = next] /\ handlers'[h] = next
           /\ next.kind = handlers[h].kind /\ next.user = handlers[h].user /\ next.link = handlers[h].link
           /\ next.invite = handlers[h].invite /\ next.new = handlers[h].new
           /\ next.stage = stage /\ next.secret = s
<1> DEFINE first == [handlers[h] EXCEPT !.stage = stage]
           next == [first EXCEPT !.secret = s]
<1>1. handlers[h] \in HandlerType /\ handlers \in [Handlers -> HandlerType]
  BY Facts
<1>2. /\ first \in HandlerType /\ first.stage = stage
      /\ first.kind = handlers[h].kind /\ first.user = handlers[h].user
      /\ first.link = handlers[h].link /\ first.invite = handlers[h].invite
      /\ first.new = handlers[h].new
  BY <1>1 DEF HandlerType
<1>3. handlers' = [handlers EXCEPT ![h] = next]
  BY <1>1 DEF Draws
<1> HIDE DEF first
<1>4. /\ next \in HandlerType /\ next.stage = stage /\ next.secret = s
      /\ next.kind = handlers[h].kind /\ next.user = handlers[h].user /\ next.link = handlers[h].link
      /\ next.invite = handlers[h].invite /\ next.new = handlers[h].new
  BY <1>2 DEF HandlerType
<1> HIDE DEF next
<1> QED BY <1>1, <1>3, <1>4

-----------------------------------------------------------------------------
(* The steps of the requests *)

LEMMA Stays ==
  ASSUME InvitationsAssumption, AccessInv, UNCHANGED <<openpath, classroompath, world>>
  PROVE  /\ Progress /\ StoredTyped' /\ UNCHANGED <<accounts, secrets, members, waiting, invitations, terms, now>>
         /\ \A s \in secrets' : s \in secrets \/ accounts'[s.user] # None
<1>1. UNCHANGED <<accounts, secrets, mirror, invitations, members, waiting, terms, audits, mailbox, now, faults>>
  BY DEF openpath, classroompath, world
<1> QED BY <1>1, Facts, SameProgress DEF StoredTyped

LEMMA BeginKeeps ==
  ASSUME InvitationsAssumption, AccessInv, NEW h \in Handlers, NEW u \in Users,
         NEW kind \in {"open", "pending", "register", "google", "resend", "reset"},
         NEW stage \in Stages, NEW i \in Invites \union {None}, Begin(h, kind, stage, u, i),
         stage \in Route(kind) \intersect {"token", "active", "register", "lookup", "drop"},
         kind = "open" => stage = "token" /\ Known(i) /\ invitations[i].user = u,
         kind = "pending" => LoggedIn(u),
         stage = "drop" => accounts[u] # None
  PROVE  AccessInv'
<1>1. UNCHANGED <<openpath, classroompath, world>>
  BY DEF Begin
<1>2. Progress /\ StoredTyped' /\ UNCHANGED <<accounts, secrets, members, waiting, invitations, terms, now>>
  BY <1>1, Stays
<1> DEFINE next == Handling(kind, stage, u, i, i)
<1>3. handlers' = [handlers EXCEPT ![h] = next]
  BY DEF Begin
<1>4. /\ next \in HandlerType
      /\ next.kind = kind /\ next.stage = stage /\ next.user = u /\ next.link = i /\ next.invite = i
      /\ next.secret = None /\ next.new = FALSE
  BY DEF HandlerType, Kinds, Handling
<1> HIDE DEF next
<1>5. /\ handlers' \in [Handlers -> HandlerType] /\ handlers'[h] = next
      /\ \A g \in Handlers \ {h} : handlers'[g] = handlers[g]
  BY <1>3, <1>4, Facts
<1>6. Fits(handlers[h])'
  <2>1. KnowsInvitation(handlers[h])'
    BY <1>2, <1>4, <1>5, SomeKind DEF KnowsInvitation, Known
  <2>2. KnowsToken(handlers[h])'
    BY <1>4, <1>5, SomeKind DEF KnowsToken
  <2>3. KnowsAccount(handlers[h])'
    BY <1>2, <1>4, <1>5, SomeKind DEF KnowsAccount, LoggedIn
  <2>4. LeadsHome(handlers[h])'
    BY <1>4, <1>5, SomeKind DEF LeadsHome
  <2> QED BY <1>4, <1>5, <2>1, <2>2, <2>3, <2>4 DEF Fits
<1>7. \A g \in Handlers : Fits(handlers[g])' \/ handlers'[g] = handlers[g]
  BY <1>5, <1>6
<1> QED BY <1>2, <1>5, <1>7, Carried

\* A request begins.
LEMMA BeginningsKeep ==
  ASSUME InvitationsAssumption, AccessInv, NEW h \in Handlers,
         \/ \E i \in Invites : Open(h, i)
         \/ \E u \in Users : \/ SignUp(h, u) \/ GoogleSignUp(h, u) \/ Resend(h, u)
                             \/ Reset(h, u) \/ AcceptPending(h, u)
  PROVE  AccessInv'
<1>1. ASSUME NEW i \in Invites, Open(h, i) PROVE AccessInv'
  <2>1. Begin(h, "open", "token", invitations[i].user, i) /\ Known(i)
    BY <1>1 DEF Open, Known
  <2>2. invitations[i].user \in Users
    BY <2>1, Facts DEF Known, StoredTyped, InvitationType
  <2> QED BY <2>1, <2>2, BeginKeeps, SomeKind DEF Stages
<1>2. ASSUME NEW u \in Users,
             \/ SignUp(h, u) \/ GoogleSignUp(h, u) \/ Resend(h, u) \/ Reset(h, u) \/ AcceptPending(h, u)
      PROVE  AccessInv'
  <2>1. CASE SignUp(h, u)
    BY <2>1, BeginKeeps, SomeKind DEF SignUp, Stages
  <2>2. CASE GoogleSignUp(h, u)
    BY <2>2, BeginKeeps, SomeKind DEF GoogleSignUp, Stages
  <2>3. CASE Resend(h, u)
    BY <2>3, BeginKeeps, SomeKind DEF Resend, Stages
  <2>4. CASE Reset(h, u)
    BY <2>4, BeginKeeps, SomeKind DEF Reset, Stages
  <2>5. CASE AcceptPending(h, u)
    BY <2>5, BeginKeeps, SomeKind DEF AcceptPending, Stages
  <2> QED BY <1>2, <2>1, <2>2, <2>3, <2>4, <2>5
<1> QED BY <1>1, <1>2

\* What a deleted invitation, or one that was mailed, leaves of the rows.
LEMMA RowsAfter ==
  ASSUME InvitationsAssumption, AccessInv, NEW i, Known(i),
         \/ invitations' = Deleted(i)
         \/ invitations' = [invitations EXCEPT ![i].sent = TRUE]
         \/ invitations' = invitations,
         UNCHANGED <<accounts, terms, now>>
  PROVE  invitations' \in [Invites -> InvitationType \union {None}] /\ Progress
<1>1. /\ i \in Invites /\ invitations[i] \in InvitationType
      /\ invitations \in [Invites -> InvitationType \union {None}]
  BY Facts DEF Known, StoredTyped
<1> DEFINE deleted == [invitations[i] EXCEPT !.live = FALSE]
           mailed == [invitations[i] EXCEPT !.sent = TRUE]
<1>2. \/ invitations' = [invitations EXCEPT ![i] = deleted]
      \/ invitations' = [invitations EXCEPT ![i] = mailed]
      \/ invitations' = invitations
  BY DEF Deleted
<1>3. /\ deleted \in InvitationType /\ mailed \in InvitationType
      /\ deleted.org = invitations[i].org /\ deleted.user = invitations[i].user
      /\ deleted.role = invitations[i].role /\ deleted.expires = invitations[i].expires
      /\ mailed.org = invitations[i].org /\ mailed.user = invitations[i].user
      /\ mailed.role = invitations[i].role /\ mailed.expires = invitations[i].expires
      /\ ~deleted.live /\ mailed.live = invitations[i].live
  BY <1>1 DEF InvitationType
<1>4. deleted # None /\ mailed # None
  BY <1>3 DEF InvitationsAssumption
<1> HIDE DEF deleted, mailed
<1>5. invitations' \in [Invites -> InvitationType \union {None}]
  BY <1>1, <1>2, <1>3
<1>6. \A j \in Invites : invitations[j] # None =>
        /\ invitations'[j] # None
        /\ invitations'[j].org = invitations[j].org /\ invitations'[j].user = invitations[j].user
        /\ invitations'[j].role = invitations[j].role
        /\ invitations'[j].expires = invitations[j].expires
        /\ invitations'[j].live => invitations[j].live
  BY <1>1, <1>2, <1>3, <1>4
<1> QED BY <1>5, <1>6, Facts DEF Progress, LoggedIn

LEMMA InviteKeeps ==
  ASSUME InvitationsAssumption, AccessInv, NEW h \in Handlers, NEW i \in Invites, NEW c \in Wanted,
         Invite(h, i, c)
  PROVE  AccessInv'
<1> DEFINE row == [org |-> c.org, user |-> c.user, role |-> c.role, expires |-> now + TTL,
                   sent |-> FALSE, live |-> TRUE]
           next == Handling("invite", "audit", c.user, None, i)
<1>1. c.org \in Orgs /\ c.user \in Users /\ c.role \in Roles
  BY DEF InvitationsAssumption
<1>2. row \in InvitationType /\ row # None
  <2>1. now + TTL \in Nat
    BY Facts DEF StoredTyped, TTL
  <2>2. row \in InvitationType
    BY <1>1, <2>1 DEF InvitationType
  <2> QED BY <2>2 DEF InvitationsAssumption
<1>3. /\ next \in HandlerType
      /\ next.kind = "invite" /\ next.stage = "audit" /\ next.user = c.user /\ next.invite = i
      /\ next.secret = None /\ next.new = FALSE
  BY <1>1 DEF HandlerType, Kinds, Stages, Handling
<1>4. /\ invitations[i] = None /\ invitations' = [invitations EXCEPT ![i] = row]
      /\ handlers' = [handlers EXCEPT ![h] = next]
      /\ UNCHANGED <<accounts, secrets, mirror, members, waiting, terms, audits, mailbox, now, faults>>
  BY DEF Invite, openpath, world
<1> HIDE DEF row, next
<1>5. /\ handlers' \in [Handlers -> HandlerType] /\ handlers'[h] = next
      /\ \A g \in Handlers \ {h} : handlers'[g] = handlers[g]
  BY <1>3, <1>4, Facts
<1>6. invitations' \in [Invites -> InvitationType \union {None}] /\ invitations'[i] # None
  BY <1>2, <1>4, Facts DEF StoredTyped
<1>7. Progress
  <2>1. \A j \in Invites : invitations[j] # None => invitations'[j] = invitations[j]
    BY <1>4, Facts DEF StoredTyped
  <2> QED BY <1>4, <2>1, Facts DEF Progress, LoggedIn
<1>8. StoredTyped'
  BY <1>4, <1>6, Facts DEF StoredTyped
<1>9. Fits(handlers[h])'
  <2>1. KnowsInvitation(handlers[h])' /\ KnowsToken(handlers[h])'
    BY <1>3, <1>5, <1>6 DEF KnowsInvitation, KnowsToken, Known
  <2>2. KnowsAccount(handlers[h])' /\ LeadsHome(handlers[h])'
    BY <1>3, <1>5 DEF KnowsAccount, LeadsHome
  <2> QED BY <1>1, <1>3, <1>5, <2>1, <2>2, SomeKind DEF Fits
<1>10. \A g \in Handlers : Fits(handlers[g])' \/ handlers'[g] = handlers[g]
  BY <1>5, <1>9
<1> QED BY <1>4, <1>5, <1>7, <1>8, <1>10, Carried

LEMMA RevokeKeeps ==
  ASSUME InvitationsAssumption, AccessInv, NEW h \in Handlers, NEW i \in Invites, Revoke(h, i)
  PROVE  AccessInv'
<1>1. Known(i) /\ invitations' = Deleted(i)
  BY DEF Revoke, Active, Live, Known
<1>2. UNCHANGED <<accounts, secrets, mirror, members, waiting, terms, audits, mailbox, now, faults, handlers>>
  BY DEF Revoke, openpath, world
<1>3. invitations' \in [Invites -> InvitationType \union {None}] /\ Progress
  BY <1>1, <1>2, RowsAfter
<1>4. StoredTyped'
  BY <1>2, <1>3, Facts DEF StoredTyped
<1> QED BY <1>2, <1>3, <1>4, Facts, Carried

\* Whose the request is, and what it works on, at each of its steps.
LEMMA Working ==
  ASSUME InvitationsAssumption, AccessInv, NEW h \in Handlers, handlers[h].stage # "idle"
  PROVE  /\ handlers[h] \in HandlerType /\ Fits(handlers[h])
         /\ handlers[h].kind \in Kinds /\ handlers[h].user \in Users
BY Facts, Busy

LEMMA AuditsKeep ==
  ASSUME InvitationsAssumption, AccessInv, NEW h \in Handlers, Audit(h) \/ UndoAudit(h)
  PROVE  AccessInv'
<1> DEFINE r == handlers[h]
<1>1. r.stage \in {"audit", "unaudit"}
  BY DEF Audit, UndoAudit, At
<1>2. r \in HandlerType /\ Fits(r) /\ r.kind \in {"invite", "reset"}
  BY <1>1, Working, SomeKind DEF Fits, Kinds
<1>3. SubjectOf(h) \in Invites \union Secret
  BY <1>1, <1>2 DEF SubjectOf, Fits, KnowsInvitation, KnowsToken, Known
<1>4. audits' \subseteq Invites \union Secret
  BY <1>3, Facts DEF Audit, UndoAudit, StoredTyped
<1>5. UNCHANGED <<accounts, secrets, mirror, invitations, members, waiting, terms, mailbox, now, faults>>
  BY DEF Audit, UndoAudit, openpath, world
<1>6. Progress /\ StoredTyped'
  BY <1>4, <1>5, Facts, SameProgress DEF StoredTyped
<1>7. /\ handlers' \in [Handlers -> HandlerType]
      /\ \A g \in Handlers : Fits(handlers[g])' \/ handlers'[g] = handlers[g]
  <2>1. CASE Audit(h)
    <3>1. Goto(h, "mail") /\ r.stage = "audit"
      BY <2>1 DEF Audit, At
    <3>2. "mail" \in Route(r.kind) /\ "mail" \in Stages /\ "mail" \in AtToken /\ "audit" \in AtToken
      BY <1>2, SomeKind DEF Stages, AtToken
    <3>3. KnowsAccount(handlers[h])'
      BY <1>2, <1>5, <3>1, <3>2, Moved DEF KnowsAccount, Fits
    <3> QED BY <1>6, <3>1, <3>2, <3>3, MovesOn
  <2>2. CASE UndoAudit(h)
    BY <2>2, Ended DEF UndoAudit
  <2> QED BY <2>1, <2>2
<1> QED BY <1>5, <1>6, <1>7, Carried

LEMMA MailKeeps ==
  ASSUME InvitationsAssumption, AccessInv, NEW h \in Handlers, NEW sent \in BOOLEAN, Mail(h, sent)
  PROVE  AccessInv'
<1> DEFINE r == handlers[h]
<1>1. r.stage = "mail"
  BY DEF Mail, At
<1>2. r \in HandlerType /\ Fits(r) /\ r.kind \in {"invite", "register", "resend", "reset"}
  BY <1>1, Working, SomeKind DEF Fits, Kinds
<1>3. /\ r.kind = "invite" => Known(r.invite)
      /\ r.kind # "invite" => r.secret \in Secret
  BY <1>1, <1>2 DEF Fits, KnowsInvitation, KnowsToken
<1>4. UNCHANGED <<accounts, secrets, mirror, members, waiting, terms, audits, now, faults>>
  BY DEF Mail, openpath
<1>5. invitations' \in [Invites -> InvitationType \union {None}] /\ Progress
  <2>1. CASE invitations' = invitations
    BY <1>4, <2>1, Facts, SameProgress DEF StoredTyped
  <2>2. CASE r.kind = "invite" /\ invitations' = [invitations EXCEPT ![r.invite].sent = TRUE]
    BY <1>3, <1>4, <2>2, RowsAfter
  <2> QED BY <2>1, <2>2 DEF Mail
<1>6. mailbox' \subseteq Secret
  BY <1>3, Facts DEF Mail, StoredTyped
<1>7. StoredTyped'
  BY <1>4, <1>5, <1>6, Facts DEF StoredTyped
<1>8. /\ handlers' \in [Handlers -> HandlerType]
      /\ \A g \in Handlers : Fits(handlers[g])' \/ handlers'[g] = handlers[g]
  <2>1. CASE End(h)
    BY <2>1, Ended
  <2>2. CASE r.kind \in {"invite", "reset"} /\ Goto(h, "undo")
    <3>1. "undo" \in Route(r.kind) /\ "undo" \in Stages /\ "undo" \in AtToken /\ "mail" \in AtToken
      BY <2>2, SomeKind DEF Stages, AtToken
    <3>2. KnowsAccount(handlers[h])'
      BY <1>2, <2>2, <3>1, Moved DEF KnowsAccount, Fits
    <3> QED BY <1>1, <1>5, <1>7, <2>2, <3>1, <3>2, MovesOn
  <2> QED BY <2>1, <2>2 DEF Mail
<1> QED BY <1>4, <1>5, <1>7, <1>8, Carried

LEMMA UndoKeeps ==
  ASSUME InvitationsAssumption, AccessInv, NEW h \in Handlers, Undo(h)
  PROVE  AccessInv'
<1> DEFINE r == handlers[h]
<1>1. r.stage = "undo"
  BY DEF Undo, At
<1>2. r \in HandlerType /\ Fits(r) /\ r.kind \in {"invite", "reset"}
  BY <1>1, Working, SomeKind DEF Fits, Kinds
<1>3. UNCHANGED <<accounts, mirror, members, waiting, terms, audits, mailbox, now, faults>>
  BY DEF Undo, world
<1>4. invitations' \in [Invites -> InvitationType \union {None}] /\ Progress
  <2>1. CASE invitations' = invitations
    BY <1>3, <2>1, Facts, SameProgress DEF StoredTyped
  <2>2. CASE r.kind = "invite" /\ invitations' = Deleted(r.invite)
    <3>1. Known(r.invite)
      BY <1>2, <2>2 DEF Fits, KnowsInvitation
    <3> QED BY <1>3, <2>2, <3>1, RowsAfter
  <2> QED BY <2>1, <2>2 DEF Undo
<1>5. secrets' \subseteq secrets
  BY DEF Undo
<1>6. StoredTyped'
  BY <1>3, <1>4, <1>5, Facts DEF StoredTyped
<1>7. /\ handlers' \in [Handlers -> HandlerType]
      /\ \A g \in Handlers : Fits(handlers[g])' \/ handlers'[g] = handlers[g]
  <2>1. Goto(h, "unaudit")
    BY DEF Undo
  <2>2. "unaudit" \in Route(r.kind) /\ "unaudit" \in Stages /\ "unaudit" \in AtToken /\ "undo" \in AtToken
    BY <1>2, SomeKind DEF Stages, AtToken
  <2>3. KnowsAccount(handlers[h])'
    BY <1>2, <2>1, <2>2, Moved DEF KnowsAccount, Fits
  <2> QED BY <1>1, <1>4, <1>6, <2>1, <2>2, <2>3, MovesOn
<1> QED BY <1>3, <1>4, <1>5, <1>6, <1>7, Carried

LEMMA DropKeeps ==
  ASSUME InvitationsAssumption, AccessInv, NEW h \in Handlers, Drop(h)
  PROVE  AccessInv'
<1> DEFINE r == handlers[h]
<1>1. r.stage = "drop" /\ Goto(h, "put")
  BY DEF Drop, At
<1>2. r \in HandlerType /\ Fits(r) /\ r.user \in Users /\ "put" \in Route(r.kind)
  BY <1>1, Working, SomeKind DEF Fits, Kinds
<1>3. /\ UNCHANGED <<accounts, mirror, invitations, members, waiting, terms, audits, mailbox, now, faults>>
      /\ secrets' \subseteq secrets
  BY DEF Drop, classroompath, world
<1>4. Progress /\ StoredTyped'
  BY <1>3, Facts, SameProgress DEF StoredTyped
<1>5. /\ handlers' \in [Handlers -> HandlerType]
      /\ \A g \in Handlers : Fits(handlers[g])' \/ handlers'[g] = handlers[g]
  <2>1. "put" \in Stages /\ "put" \notin AtToken
    BY DEF Stages, AtToken
  <2>2. KnowsAccount(handlers[h])'
    <3>1. KnowsAccount(r)
      BY <1>2 DEF Fits
    <3> QED BY <1>1, <1>2, <1>3, <2>1, <3>1, Moved DEF KnowsAccount, LoggedIn
  <2> QED BY <1>1, <1>2, <1>4, <2>1, <2>2, MovesOn
<1> QED BY <1>3, <1>4, <1>5, Carried

LEMMA PutKeeps ==
  ASSUME InvitationsAssumption, AccessInv, NEW h \in Handlers, Put(h)
  PROVE  AccessInv'
<1> DEFINE r == handlers[h]
<1>1. r.stage = "put"
  BY DEF Put, At
<1>2. PICK s \in Drawn(h) :
        /\ secrets' = secrets \union {s} /\ mailbox' = mailbox \ {s} /\ audits' = audits \ {s}
        /\ Draws(h, AfterPut(h), s)
  BY DEF Put, Draws
<1>3. s \in Secret /\ s.user = r.user
  BY DEF Drawn
<1>4. /\ r \in HandlerType /\ Fits(r) /\ r.user \in Users
      /\ r.kind \in {"open", "register", "resend", "reset"}
  BY <1>1, Working, SomeKind DEF Fits, Kinds
<1>5. /\ AfterPut(h) \in Route(r.kind) \intersect {"audit", "verify", "mail"}
      /\ AfterPut(h) = "verify" => r.kind = "open"
      /\ r.kind = "open" => AfterPut(h) = "verify"
  BY <1>4, SomeKind DEF AfterPut
<1>6. UNCHANGED <<accounts, mirror, invitations, members, waiting, terms, now, faults>>
  BY DEF Put
<1>7. Progress /\ StoredTyped'
  BY <1>2, <1>3, <1>6, Facts, SameProgress DEF StoredTyped
<1>8. \A t \in secrets' : t \in secrets \/ accounts'[t.user] # None
  BY <1>1, <1>2, <1>3, <1>4, <1>6 DEF Fits, KnowsAccount
<1>9. PICK stage \in Stages : stage = AfterPut(h)
  BY <1>5 DEF Stages
<1>10. PICK next \in HandlerType :
         /\ handlers' = [handlers EXCEPT ![h] = next] /\ handlers'[h] = next
         /\ next.kind = r.kind /\ next.user = r.user /\ next.link = r.link
         /\ next.invite = r.invite /\ next.new = r.new
         /\ next.stage = stage /\ next.secret = s
  <2>1. Draws(h, stage, s)
    BY <1>2, <1>9
  <2> QED BY <1>3, <2>1, Drew
<1>11. KnowsToken(handlers[h])'
  BY <1>3, <1>10 DEF KnowsToken
<1>12. KnowsAccount(handlers[h])'
  BY <1>1, <1>4, <1>5, <1>6, <1>9, <1>10 DEF Fits, KnowsAccount, LoggedIn
<1>13. /\ handlers' \in [Handlers -> HandlerType]
       /\ \A g \in Handlers : Fits(handlers[g])' \/ handlers'[g] = handlers[g]
  <2>1. next.stage \in Route(next.kind) /\ next.stage \notin {"token", "active"}
    BY <1>5, <1>9, <1>10
  <2> QED BY <1>1, <1>7, <1>10, <1>11, <1>12, <2>1, Advances
<1> QED BY <1>6, <1>7, <1>8, <1>13, Carried

\* An account that is made, verified or linked.
LEMMA AccountsAfter ==
  ASSUME InvitationsAssumption, AccessInv, NEW u \in Users, NEW a \in Account,
         LoggedIn(u) => a.verified, accounts' = [accounts EXCEPT ![u] = a],
         UNCHANGED <<invitations, terms, now>>
  PROVE  /\ accounts' \in [Users -> Account \union {None}] /\ Progress
         /\ accounts'[u] = a /\ a # None
<1>1. a # None
  BY DEF InvitationsAssumption
<1>2. /\ accounts' \in [Users -> Account \union {None}] /\ accounts'[u] = a
      /\ \A v \in Users \ {u} : accounts'[v] = accounts[v]
  BY Facts DEF StoredTyped
<1> QED BY <1>1, <1>2, Facts DEF Progress, LoggedIn

LEMMA RegisterKeeps ==
  ASSUME InvitationsAssumption, AccessInv, NEW h \in Handlers, Register(h)
  PROVE  AccessInv'
<1> DEFINE r == handlers[h]
           u == r.user
           a == [verified |-> FALSE, google |-> FALSE]
<1>1. r.stage = "register"
  BY DEF Register, At
<1>2. /\ r \in HandlerType /\ Fits(r) /\ u \in Users /\ r.kind \in {"open", "register"}
      /\ "terms" \in Route(r.kind) /\ "terms" \in Stages /\ "terms" \notin AtToken
  BY <1>1, Working, SomeKind DEF Fits, Kinds, Stages, AtToken
<1>3. UNCHANGED <<mirror, invitations, members, waiting, terms, audits, now, faults>>
  BY DEF Register, classroompath
<1>4. CASE End(h) /\ UNCHANGED <<accounts, secrets, mailbox>>
  <2>1. Progress /\ StoredTyped'
    BY <1>3, <1>4, Facts, SameProgress DEF StoredTyped
  <2>2. /\ handlers' \in [Handlers -> HandlerType]
        /\ \A g \in Handlers : Fits(handlers[g])' \/ handlers'[g] = handlers[g]
    BY <1>4, Ended
  <2> QED BY <1>3, <1>4, <2>1, <2>2, Carried
<1>5. CASE /\ accounts[u] = None /\ accounts' = [accounts EXCEPT ![u] = a]
           /\ \/ \E s \in Drawn(h) : /\ secrets' = secrets \union {s} /\ mailbox' = mailbox \ {s}
                                     /\ Draws(h, "terms", s)
              \/ Goto(h, "terms") /\ UNCHANGED <<secrets, mailbox>>
  <2>1. a \in Account /\ ~LoggedIn(u)
    BY <1>5 DEF Account, LoggedIn
  <2> HIDE DEF a
  <2>2. accounts' \in [Users -> Account \union {None}] /\ Progress /\ accounts'[u] # None
    BY <1>2, <1>3, <1>5, <2>1, AccountsAfter
  <2>3. r.new \/ r.kind = "register"
    BY <1>1, <1>2 DEF Fits, KnowsAccount
  <2>4. CASE Goto(h, "terms") /\ UNCHANGED <<secrets, mailbox>>
    <3>1. StoredTyped'
      BY <1>3, <2>2, <2>4, Facts DEF StoredTyped
    <3>2. KnowsAccount(handlers[h])'
      BY <1>1, <1>2, <2>2, <2>3, <2>4, Moved, SomeKind DEF Fits, KnowsAccount
    <3>3. /\ handlers' \in [Handlers -> HandlerType]
          /\ \A g \in Handlers : Fits(handlers[g])' \/ handlers'[g] = handlers[g]
      BY <1>1, <1>2, <2>2, <2>4, <3>1, <3>2, MovesOn
    <3> QED BY <1>3, <2>2, <2>4, <3>1, <3>3, Carried
  <2>5. ASSUME NEW s \in Drawn(h), secrets' = secrets \union {s}, mailbox' = mailbox \ {s},
               Draws(h, "terms", s)
        PROVE  AccessInv'
    <3>1. s \in Secret /\ s.user = u
      BY DEF Drawn
    <3>2. StoredTyped'
      BY <1>3, <2>2, <2>5, <3>1, Facts DEF StoredTyped
    <3>3. PICK next \in HandlerType :
            /\ handlers' = [handlers EXCEPT ![h] = next] /\ handlers'[h] = next
            /\ next.kind = r.kind /\ next.user = u /\ next.link = r.link
            /\ next.invite = r.invite /\ next.new = r.new
            /\ next.stage = "terms" /\ next.secret = s
      BY <1>2, <2>5, <3>1, Drew
    <3>4. KnowsToken(handlers[h])'
      BY <3>1, <3>3 DEF KnowsToken
    <3>5. KnowsAccount(handlers[h])'
      BY <1>1, <1>2, <2>2, <2>3, <3>3 DEF Fits, KnowsAccount
    <3>6. /\ handlers' \in [Handlers -> HandlerType]
          /\ \A g \in Handlers : Fits(handlers[g])' \/ handlers'[g] = handlers[g]
      BY <1>1, <1>2, <2>2, <3>2, <3>3, <3>4, <3>5, Advances
    <3>7. \A t \in secrets' : t \in secrets \/ accounts'[t.user] # None
      BY <2>2, <2>5, <3>1
    <3> QED BY <1>3, <2>2, <3>2, <3>6, <3>7, Carried
  <2> QED BY <1>5, <2>4, <2>5
<1>6. \/ End(h) /\ UNCHANGED <<accounts, secrets, mailbox>>
      \/ /\ accounts[u] = None /\ accounts' = [accounts EXCEPT ![u] = a]
         /\ \/ \E s \in Drawn(h) : /\ secrets' = secrets \union {s} /\ mailbox' = mailbox \ {s}
                                   /\ Draws(h, "terms", s)
            \/ Goto(h, "terms") /\ UNCHANGED <<secrets, mailbox>>
  BY DEF Register, Draws
<1> QED BY <1>4, <1>5, <1>6

LEMMA AcceptTermsKeeps ==
  ASSUME InvitationsAssumption, AccessInv, NEW h \in Handlers, AcceptTerms(h)
  PROVE  AccessInv'
<1> DEFINE r == handlers[h]
<1>1. r.stage = "terms"
  BY DEF AcceptTerms, At
<1>2. /\ r \in HandlerType /\ Fits(r) /\ r.user \in Users
      /\ r.kind \in {"open", "pending", "register", "google"}
  BY <1>1, Working, SomeKind DEF Fits, Kinds
<1>3. /\ UNCHANGED <<accounts, secrets, mirror, invitations, members, waiting, audits, mailbox, now, faults>>
      /\ terms' = terms \union {r.user}
  BY DEF AcceptTerms, openpath, world
<1>4. Progress
  BY <1>3, Facts DEF Progress, LoggedIn
<1>5. StoredTyped'
  BY <1>2, <1>3, Facts DEF StoredTyped
<1>6. CASE End(h)
  <2>1. /\ handlers' \in [Handlers -> HandlerType]
        /\ \A g \in Handlers : Fits(handlers[g])' \/ handlers'[g] = handlers[g]
    BY <1>6, Ended
  <2> QED BY <1>3, <1>4, <1>5, <2>1, Carried
<1>7. CASE AfterTerms(h) # "end" /\ Goto(h, AfterTerms(h))
  <2>1. PICK stage \in Stages : stage = AfterTerms(h)
    BY <1>2, <1>7 DEF AfterTerms, Stages
  <2>2. /\ stage \in Route(r.kind) /\ stage \in {"drop", "mail", "verify", "membership"}
        /\ stage \in AtToken => r.secret # None
        /\ stage = "membership" => r.kind = "pending" \/ (r.kind = "open" /\ ~r.new)
    BY <1>2, <1>7, <2>1, SomeKind DEF AfterTerms, AtToken
  <2>3. Goto(h, stage)
    BY <1>7, <2>1
  <2>4. KnowsAccount(handlers[h])'
    <3>1. KnowsAccount(r)
      BY <1>2 DEF Fits
    <3> QED BY <1>1, <1>2, <1>3, <2>2, <2>3, <3>1, Moved DEF KnowsAccount, LoggedIn
  <2>5. /\ handlers' \in [Handlers -> HandlerType]
        /\ \A g \in Handlers : Fits(handlers[g])' \/ handlers'[g] = handlers[g]
    BY <1>1, <1>4, <1>5, <2>2, <2>3, <2>4, MovesOn
  <2> QED BY <1>3, <1>4, <1>5, <2>5, Carried
<1> QED BY <1>6, <1>7 DEF AcceptTerms

LEMMA LookUpKeeps ==
  ASSUME InvitationsAssumption, AccessInv, NEW h \in Handlers, LookUp(h)
  PROVE  AccessInv'
<1> DEFINE r == handlers[h]
           a == accounts[r.user]
<1>1. r.stage = "lookup" /\ UNCHANGED <<openpath, classroompath, world>>
  BY DEF LookUp, At
<1>2. r \in HandlerType /\ Fits(r) /\ r.user \in Users /\ r.kind = "google"
  BY <1>1, Working, SomeKind DEF Fits, Kinds
<1>3. PICK stage \in Stages :
        /\ stage = IF a = None THEN "insert" ELSE IF a.google THEN "terms" ELSE "linkup"
        /\ Goto(h, stage)
  BY DEF LookUp, Stages
<1>4. stage \in Route(r.kind) /\ stage \notin AtToken /\ (stage = "terms" => accounts[r.user] # None)
      /\ stage \in {"insert", "linkup", "terms"}
  BY <1>2, <1>3, SomeKind DEF AtToken
<1>5. Progress /\ StoredTyped' /\ UNCHANGED <<accounts, secrets, members, waiting, invitations, terms, now>>
      /\ \A s \in secrets' : s \in secrets \/ accounts'[s.user] # None
  BY <1>1, Stays
<1>6. KnowsAccount(handlers[h])'
  BY <1>2, <1>3, <1>4, <1>5, Moved DEF Fits, KnowsAccount
<1>7. /\ handlers' \in [Handlers -> HandlerType]
      /\ \A g \in Handlers : Fits(handlers[g])' \/ handlers'[g] = handlers[g]
  BY <1>1, <1>3, <1>4, <1>5, <1>6, MovesOn
<1> QED BY <1>5, <1>7, Carried

LEMMA LinkOrInsertKeeps ==
  ASSUME InvitationsAssumption, AccessInv, NEW h \in Handlers, LinkOrInsert(h)
  PROVE  AccessInv'
<1> DEFINE r == handlers[h]
           u == r.user
           a == [verified |-> TRUE, google |-> TRUE]
<1>1. r.stage \in {"insert", "linkup"} /\ Goto(h, "terms")
  BY DEF LinkOrInsert, At
<1>2. /\ r \in HandlerType /\ Fits(r) /\ u \in Users /\ r.kind = "google"
      /\ "terms" \in Route(r.kind) /\ "terms" \in Stages /\ "terms" \notin AtToken
  BY <1>1, Working, SomeKind DEF Fits, Kinds, Stages, AtToken
<1>3. UNCHANGED <<secrets, mirror, invitations, members, waiting, terms, audits, mailbox, now, faults>>
  BY DEF LinkOrInsert, classroompath, world
<1>4. a \in Account /\ a.verified
  BY DEF Account
<1>5. accounts' = [accounts EXCEPT ![u] = a] \/ (accounts[u] # None /\ accounts' = accounts)
  BY DEF LinkOrInsert
<1> HIDE DEF a
<1>6. accounts' \in [Users -> Account \union {None}] /\ Progress /\ accounts'[u] # None
  <2>1. CASE accounts' = [accounts EXCEPT ![u] = a]
    BY <1>2, <1>3, <1>4, <2>1, AccountsAfter
  <2>2. CASE accounts[u] # None /\ accounts' = accounts
    BY <1>3, <2>2, Facts, SameProgress DEF StoredTyped
  <2> QED BY <1>5, <2>1, <2>2
<1>7. StoredTyped'
  BY <1>3, <1>6, Facts DEF StoredTyped
<1>8. KnowsAccount(handlers[h])'
  BY <1>1, <1>2, <1>6, Moved DEF Fits, KnowsAccount
<1>9. /\ handlers' \in [Handlers -> HandlerType]
      /\ \A g \in Handlers : Fits(handlers[g])' \/ handlers'[g] = handlers[g]
  BY <1>1, <1>2, <1>6, <1>7, <1>8, MovesOn
<1> QED BY <1>3, <1>6, <1>7, <1>9, Carried

LEMMA FindTokenKeeps ==
  ASSUME InvitationsAssumption, AccessInv, NEW h \in Handlers, FindToken(h)
  PROVE  AccessInv'
<1> DEFINE r == handlers[h]
           i == r.link
<1>1. r.stage = "token"
  BY DEF FindToken, At
<1>2. r \in HandlerType /\ Fits(r) /\ r.user \in Users /\ r.kind = "open"
  BY <1>1, Working, SomeKind DEF Fits, Kinds
<1>3. Known(i) /\ invitations[i].user = r.user
  BY <1>2 DEF Fits, KnowsInvitation
<1>4. UNCHANGED <<accounts, secrets, mirror, members, waiting, terms, audits, mailbox, now, faults>>
  BY DEF FindToken, openpath, world
<1>5. \/ End(h) /\ (invitations' = Deleted(i) \/ UNCHANGED invitations)
      \/ Goto(h, "active") /\ UNCHANGED invitations
  BY DEF FindToken
<1>6. invitations' \in [Invites -> InvitationType \union {None}] /\ Progress
  BY <1>3, <1>4, <1>5, RowsAfter
<1>7. StoredTyped'
  BY <1>4, <1>6, Facts DEF StoredTyped
<1>8. /\ handlers' \in [Handlers -> HandlerType]
      /\ \A g \in Handlers : Fits(handlers[g])' \/ handlers'[g] = handlers[g]
  <2>1. CASE End(h)
    BY <2>1, Ended
  <2>2. CASE Goto(h, "active") /\ UNCHANGED invitations
    <3>1. "active" \in Stages /\ "active" \in Route(r.kind)
      BY <1>2, SomeKind DEF Stages
    <3> DEFINE next == handlers'[h]
    <3>2. /\ handlers' \in [Handlers -> HandlerType] /\ next.stage = "active"
          /\ next.kind = r.kind /\ next.user = r.user /\ next.link = r.link /\ next.invite = r.invite
          /\ next.secret = r.secret /\ next.new = r.new
          /\ \A g \in Handlers \ {h} : handlers'[g] = handlers[g]
      BY <2>2, <3>1, Moved
    <3>3. KnowsInvitation(handlers[h])' /\ LeadsHome(handlers[h])'
      BY <1>2, <1>3, <2>2, <3>2 DEF KnowsInvitation, LeadsHome, Known
    <3>4. KnowsToken(handlers[h])'
      BY <1>2, <3>2 DEF Fits, KnowsToken
    <3>5. KnowsAccount(handlers[h])'
      BY <1>2, <3>2 DEF KnowsAccount
    <3>6. Fits(handlers[h])'
      BY <1>2, <3>1, <3>2, <3>3, <3>4, <3>5 DEF Fits
    <3> QED BY <3>2, <3>6
  <2> QED BY <1>5, <2>1, <2>2
<1> QED BY <1>4, <1>6, <1>7, <1>8, Carried

\* As long as the invitation in the link stands, what the search by address finds is
\* of its organization.
LEMMA FoundAtHome ==
  ASSUME NEW u, NEW link, link \in Invites, Active(link), invitations[link].user = u, link # None,
         NEW i \in ActiveFor(u, link)
  PROVE  invitations[i].org = invitations[link].org
BY DEF ActiveFor

LEMMA FoundOwn ==
  ASSUME NEW u, NEW link, NEW i \in ActiveFor(u, link)
  PROVE  Known(i) /\ invitations[i].user = u
BY DEF ActiveFor, Known, Active, Live

LEMMA FindActiveKeeps ==
  ASSUME InvitationsAssumption, AccessInv, NEW h \in Handlers, FindActive(h)
  PROVE  AccessInv'
<1> DEFINE r == handlers[h]
<1>1. r.stage = "active" /\ UNCHANGED <<openpath, classroompath, world>>
  BY DEF FindActive, At
<1>2. /\ r \in HandlerType /\ Fits(r) /\ r.user \in Users /\ r.kind \in {"open", "pending"}
      /\ "account" \in Route(r.kind) /\ handlers \in [Handlers -> HandlerType]
  BY <1>1, Working, SomeKind, Facts DEF Fits, Kinds
<1>3. Progress /\ StoredTyped' /\ UNCHANGED <<accounts, secrets, members, waiting, invitations, terms, now>>
      /\ \A s \in secrets' : s \in secrets \/ accounts'[s.user] # None
  BY <1>1, Stays
<1>4. CASE End(h)
  <2>1. /\ handlers' \in [Handlers -> HandlerType]
        /\ \A g \in Handlers : Fits(handlers[g])' \/ handlers'[g] = handlers[g]
    BY <1>4, Ended
  <2> QED BY <1>3, <2>1, Carried
<1>5. ASSUME NEW i \in ActiveFor(r.user, r.link),
             handlers' = [handlers EXCEPT ![h].invite = i, ![h].stage = "account"]
      PROVE  AccessInv'
  <2>1. Known(i) /\ invitations[i].user = r.user /\ i \in Invites
    BY FoundOwn DEF Known
  <2> DEFINE first == [r EXCEPT !.invite = i]
             next == [first EXCEPT !.stage = "account"]
  <2>2. /\ first \in HandlerType /\ first.kind = r.kind /\ first.user = r.user /\ first.link = r.link
        /\ first.invite = i /\ first.secret = r.secret /\ first.new = r.new
    BY <1>2, <2>1 DEF HandlerType
  <2>3. handlers' = [handlers EXCEPT ![h] = next]
    BY <1>2, <1>5
  <2> HIDE DEF first
  <2>4. /\ next \in HandlerType /\ next.kind = r.kind /\ next.user = r.user /\ next.link = r.link
        /\ next.invite = i /\ next.secret = r.secret /\ next.new = r.new /\ next.stage = "account"
    BY <2>2 DEF HandlerType, Stages
  <2> HIDE DEF next
  <2>5. /\ handlers' \in [Handlers -> HandlerType] /\ handlers'[h] = next
        /\ \A g \in Handlers \ {h} : handlers'[g] = handlers[g]
    BY <1>2, <2>3, <2>4
  <2>6. KnowsInvitation(handlers[h])'
    BY <1>2, <1>3, <2>1, <2>4, <2>5 DEF Fits, KnowsInvitation, Known
  <2>7. KnowsToken(handlers[h])'
    BY <1>2, <2>4, <2>5 DEF Fits, KnowsToken
  <2>8. KnowsAccount(handlers[h])'
    BY <1>2, <1>3, <2>4, <2>5 DEF Fits, KnowsAccount, LoggedIn
  <2>9. LeadsHome(handlers[h])'
    <3> SUFFICES ASSUME r.kind = "open", Active(r.link)
                 PROVE  invitations[i].org = invitations[r.link].org
      BY <1>3, <2>4, <2>5 DEF LeadsHome, Active, Live
    <3>1. r.link \in Invites /\ r.link # None /\ invitations[r.link].user = r.user
      BY <1>2 DEF Fits, KnowsInvitation, Known, InvitationsAssumption
    <3> QED BY <1>5, <3>1, FoundAtHome
  <2>10. Fits(handlers[h])'
    BY <1>2, <2>4, <2>5, <2>6, <2>7, <2>8, <2>9 DEF Fits
  <2>11. \A g \in Handlers : Fits(handlers[g])' \/ handlers'[g] = handlers[g]
    BY <2>5, <2>10
  <2> QED BY <1>3, <2>5, <2>11, Carried
<1> QED BY <1>4, <1>5 DEF FindActive

LEMMA FindAccountKeeps ==
  ASSUME InvitationsAssumption, AccessInv, NEW h \in Handlers, FindAccount(h)
  PROVE  AccessInv'
<1> DEFINE r == handlers[h]
           u == r.user
<1>1. r.stage = "account" /\ UNCHANGED <<openpath, classroompath, world>>
  BY DEF FindAccount, At
<1>2. /\ r \in HandlerType /\ Fits(r) /\ u \in Users /\ r.kind \in {"open", "pending"}
      /\ "terms" \in Route(r.kind) /\ handlers \in [Handlers -> HandlerType]
  BY <1>1, Working, SomeKind, Facts DEF Fits, Kinds
<1>3. Progress /\ StoredTyped' /\ UNCHANGED <<accounts, secrets, members, waiting, invitations, terms, now>>
      /\ \A s \in secrets' : s \in secrets \/ accounts'[s.user] # None
  BY <1>1, Stays
<1>4. CASE End(h)
  <2>1. /\ handlers' \in [Handlers -> HandlerType]
        /\ \A g \in Handlers : Fits(handlers[g])' \/ handlers'[g] = handlers[g]
    BY <1>4, Ended
  <2> QED BY <1>3, <2>1, Carried
<1>5. CASE accounts[u] # None /\ LoggedIn(u) /\ Goto(h, "terms")
  <2>1. "terms" \in Stages /\ "terms" \notin AtToken
    BY DEF Stages, AtToken
  <2>2. KnowsAccount(handlers[h])'
    BY <1>2, <1>3, <1>5, <2>1, Moved DEF Fits, KnowsAccount, LoggedIn
  <2>3. /\ handlers' \in [Handlers -> HandlerType]
        /\ \A g \in Handlers : Fits(handlers[g])' \/ handlers'[g] = handlers[g]
    BY <1>1, <1>2, <1>3, <1>5, <2>1, <2>2, MovesOn
  <2> QED BY <1>3, <2>3, Carried
<1>6. CASE accounts[u] = None /\ handlers' = [handlers EXCEPT ![h].stage = "register", ![h].new = TRUE]
  <2>1. r.kind = "open"
    BY <1>2, <1>6 DEF Fits, KnowsAccount, LoggedIn
  <2> DEFINE first == [r EXCEPT !.stage = "register"]
             next == [first EXCEPT !.new = TRUE]
  <2>2. /\ first \in HandlerType /\ first.kind = r.kind /\ first.user = u /\ first.link = r.link
        /\ first.invite = r.invite /\ first.secret = r.secret /\ first.stage = "register"
    BY <1>2 DEF HandlerType, Stages
  <2>3. handlers' = [handlers EXCEPT ![h] = next]
    BY <1>2, <1>6
  <2> HIDE DEF first
  <2>4. /\ next \in HandlerType /\ next.kind = r.kind /\ next.user = u /\ next.link = r.link
        /\ next.invite = r.invite /\ next.secret = r.secret /\ next.new /\ next.stage = "register"
    BY <2>2 DEF HandlerType
  <2> HIDE DEF next
  <2>5. handlers'[h] = next
    BY <1>2, <2>3
  <2>6. KnowsToken(handlers[h])'
    BY <1>2, <2>4, <2>5 DEF Fits, KnowsToken
  <2>7. KnowsAccount(handlers[h])'
    BY <2>1, <2>4, <2>5 DEF KnowsAccount
  <2>8. next.stage \in Route(next.kind)
    BY <2>1, <2>4, SomeKind
  <2>9. /\ handlers' \in [Handlers -> HandlerType]
        /\ \A g \in Handlers : Fits(handlers[g])' \/ handlers'[g] = handlers[g]
    BY <1>1, <1>3, <2>3, <2>4, <2>6, <2>7, <2>8, Advances
  <2> QED BY <1>3, <2>9, Carried
<1> QED BY <1>4, <1>5, <1>6 DEF FindAccount

\* An address that is verified, by its owner or with the token of a registration.
LEMMA AddressVerified ==
  ASSUME InvitationsAssumption, AccessInv, NEW u \in Users, accounts[u] # None,
         accounts' = [accounts EXCEPT ![u].verified = TRUE],
         UNCHANGED <<invitations, terms, now>>
  PROVE  /\ accounts' \in [Users -> Account \union {None}] /\ Progress
         /\ accounts'[u] # None /\ accounts'[u].verified
<1> DEFINE a == [accounts[u] EXCEPT !.verified = TRUE]
<1>1. a \in Account /\ a.verified
  BY Facts DEF StoredTyped, Account
<1>2. accounts' = [accounts EXCEPT ![u] = a]
  BY Facts DEF StoredTyped
<1> HIDE DEF a
<1>3. /\ accounts' \in [Users -> Account \union {None}] /\ Progress
      /\ accounts'[u] = a /\ a # None
  BY <1>1, <1>2, AccountsAfter
<1> QED BY <1>1, <1>3

LEMMA VerifyKeeps ==
  ASSUME InvitationsAssumption, AccessInv, NEW h \in Handlers, Verify(h)
  PROVE  AccessInv'
<1> DEFINE r == handlers[h]
           s == r.secret
           u == r.user
<1>1. r.stage = "verify"
  BY DEF Verify, At
<1>2. /\ r \in HandlerType /\ Fits(r) /\ u \in Users /\ r.kind = "open"
      /\ "membership" \in Route(r.kind) /\ "membership" \in Stages /\ "membership" \notin AtToken
  BY <1>1, Working, SomeKind DEF Fits, Kinds, Stages, AtToken
<1>3. s.user = u /\ accounts[u] # None /\ u \in terms
  BY <1>1, <1>2 DEF Fits, KnowsToken, KnowsAccount
<1>4. UNCHANGED <<mirror, invitations, members, waiting, terms, audits, mailbox, now, faults>>
  BY DEF Verify, classroompath, world
<1>5. CASE End(h) /\ UNCHANGED <<accounts, secrets>>
  <2>1. Progress /\ StoredTyped'
    BY <1>4, <1>5, Facts, SameProgress DEF StoredTyped
  <2>2. /\ handlers' \in [Handlers -> HandlerType]
        /\ \A g \in Handlers : Fits(handlers[g])' \/ handlers'[g] = handlers[g]
    BY <1>5, Ended
  <2> QED BY <1>4, <1>5, <2>1, <2>2, Carried
<1>6. CASE /\ secrets' \subseteq secrets /\ Goto(h, "membership")
           /\ accounts' = [accounts EXCEPT ![u].verified = TRUE]
  <2>1. /\ accounts' \in [Users -> Account \union {None}] /\ Progress
        /\ accounts'[u] # None /\ accounts'[u].verified
    BY <1>2, <1>3, <1>4, <1>6, AddressVerified
  <2>2. StoredTyped'
    BY <1>4, <1>6, <2>1, Facts DEF StoredTyped
  <2>3. KnowsAccount(handlers[h])'
    BY <1>2, <1>3, <1>4, <1>6, <2>1, Moved DEF KnowsAccount, Fits, LoggedIn
  <2>4. /\ handlers' \in [Handlers -> HandlerType]
        /\ \A g \in Handlers : Fits(handlers[g])' \/ handlers'[g] = handlers[g]
    BY <1>1, <1>2, <1>6, <2>1, <2>2, <2>3, MovesOn
  <2> QED BY <1>4, <1>6, <2>1, <2>2, <2>4, Carried
<1>7. \/ End(h) /\ UNCHANGED <<accounts, secrets>>
      \/ /\ secrets' \subseteq secrets /\ Goto(h, "membership")
         /\ accounts' = [accounts EXCEPT ![u].verified = TRUE]
  BY <1>3 DEF Verify
<1> QED BY <1>5, <1>6, <1>7

\* The membership is read, before the acceptance and for the mirror.
LEMMA ReadsKeep ==
  ASSUME InvitationsAssumption, AccessInv, NEW h \in Handlers, ReadMembership(h) \/ ReadRole(h)
  PROVE  AccessInv'
<1> DEFINE r == handlers[h]
<1>1. PICK stage \in {"commit", "writerole"} :
        /\ handlers' = [handlers EXCEPT ![h].row = members[r.user], ![h].stage = stage]
        /\ r.stage = IF stage = "commit" THEN "membership" ELSE "readrole"
  BY DEF ReadMembership, ReadRole, At
<1>2. UNCHANGED <<openpath, classroompath, world>>
  BY DEF ReadMembership, ReadRole
<1>3. /\ r \in HandlerType /\ Fits(r) /\ r.user \in Users /\ r.kind \in {"open", "pending"}
      /\ stage \in Route(r.kind) /\ handlers \in [Handlers -> HandlerType]
  BY <1>1, Working, SomeKind, Facts DEF Fits, Kinds
<1>4. Progress /\ StoredTyped' /\ UNCHANGED <<accounts, secrets, members, waiting, invitations, terms, now>>
      /\ \A s \in secrets' : s \in secrets \/ accounts'[s.user] # None
  BY <1>2, Stays
<1> DEFINE first == [r EXCEPT !.row = members[r.user]]
           next == [first EXCEPT !.stage = stage]
<1>5. /\ first \in HandlerType /\ first.kind = r.kind /\ first.user = r.user /\ first.link = r.link
      /\ first.invite = r.invite /\ first.secret = r.secret /\ first.new = r.new
  <2>1. members[r.user] \in Membership \union {None}
    BY <1>3, Facts DEF StoredTyped
  <2> QED BY <1>3, <2>1 DEF HandlerType
<1>6. handlers' = [handlers EXCEPT ![h] = next]
  BY <1>1, <1>3
<1> HIDE DEF first
<1>7. /\ next \in HandlerType /\ next.kind = r.kind /\ next.user = r.user /\ next.link = r.link
      /\ next.invite = r.invite /\ next.secret = r.secret /\ next.new = r.new /\ next.stage = stage
  BY <1>5 DEF HandlerType, Stages
<1> HIDE DEF next
<1>8. handlers'[h] = next
  BY <1>3, <1>6
<1>9. KnowsToken(handlers[h])'
  BY <1>3, <1>7, <1>8 DEF Fits, KnowsToken
<1>10. KnowsAccount(handlers[h])'
  BY <1>1, <1>3, <1>4, <1>7, <1>8 DEF Fits, KnowsAccount, LoggedIn
<1>11. /\ handlers' \in [Handlers -> HandlerType]
       /\ \A g \in Handlers : Fits(handlers[g])' \/ handlers'[g] = handlers[g]
  BY <1>1, <1>3, <1>4, <1>6, <1>7, <1>9, <1>10, Advances
<1> QED BY <1>4, <1>11, Carried

\* Whoever joins does so on their own invitation, has agreed and can log in.
LEMMA CommitMembershipKeeps ==
  ASSUME InvitationsAssumption, AccessInv, NEW h \in Handlers, CommitMembership(h)
  PROVE  AccessInv'
<1> DEFINE r == handlers[h]
           i == r.invite
           u == r.user
           row == [org |-> invitations[i].org, role |-> invitations[i].role, via |-> i]
<1>1. r.stage = "commit"
  BY DEF CommitMembership, At
<1>2. /\ r \in HandlerType /\ Fits(r) /\ u \in Users /\ r.kind \in {"open", "pending"}
      /\ "readrole" \in Route(r.kind) /\ "readrole" \in Stages /\ "readrole" \notin AtToken
  BY <1>1, Working, SomeKind DEF Fits, Kinds, Stages, AtToken
<1>3. /\ Known(i) /\ invitations[i].user = u /\ i \in Invites /\ invitations[i] \in InvitationType
      /\ LoggedIn(u) /\ u \in terms
  BY <1>1, <1>2, Facts DEF Fits, KnowsInvitation, KnowsAccount, Known, StoredTyped
<1>4. UNCHANGED <<accounts, secrets, mirror, terms, audits, mailbox, now, faults>>
  BY DEF CommitMembership, openpath, world
<1>5. CASE End(h) /\ UNCHANGED <<invitations, members, waiting>>
  <2>1. Progress /\ StoredTyped'
    BY <1>4, <1>5, Facts, SameProgress DEF StoredTyped
  <2>2. /\ handlers' \in [Handlers -> HandlerType]
        /\ \A g \in Handlers : Fits(handlers[g])' \/ handlers'[g] = handlers[g]
    BY <1>5, Ended
  <2> QED BY <1>4, <1>5, <2>1, <2>2, Carried
<1>6. CASE /\ invitations' = Deleted(i) /\ Goto(h, "readrole")
           /\ \/ UNCHANGED <<members, waiting>>
              \/ members' = [members EXCEPT ![u] = row] /\ waiting' = waiting \ {u}
  <2>1. invitations' \in [Invites -> InvitationType \union {None}] /\ Progress
    BY <1>3, <1>4, <1>6, RowsAfter
  <2>2. row \in Membership
    BY <1>3 DEF Membership, InvitationType
  <2>3. row.via = i /\ row.org = invitations[i].org /\ row.role = invitations[i].role
    OBVIOUS
  <2> HIDE DEF row
  <2>4. members' \in [Users -> Membership \union {None}] /\ waiting' \subseteq waiting
    BY <1>6, <2>2, Facts DEF StoredTyped
  <2>5. StoredTyped'
    BY <1>4, <2>1, <2>4, Facts DEF StoredTyped
  <2>6. KnowsAccount(handlers[h])'
    BY <1>2, <1>4, <1>6, Moved DEF KnowsAccount, Fits, LoggedIn
  <2>7. /\ handlers' \in [Handlers -> HandlerType]
        /\ \A g \in Handlers : Fits(handlers[g])' \/ handlers'[g] = handlers[g]
    BY <1>1, <1>2, <1>6, <2>1, <2>5, <2>6, MovesOn
  <2>8. \A v \in Users : members'[v] = members[v] \/ (v = u /\ members'[v] = row /\ u \notin waiting')
    BY <1>6, Facts DEF StoredTyped
  <2>9. JoinedInFull'
    <3>1. accounts'[u] # None /\ accounts'[u].verified /\ u \in terms'
      BY <1>3, <1>4 DEF LoggedIn
    <3> QED BY <2>1, <2>4, <2>8, <3>1, Facts DEF JoinedInFull, Progress, LoggedIn
  <2>10. JoinedAsInvited'
    <3>1. /\ invitations'[i] # None /\ invitations'[i].user = u /\ invitations'[i].org = row.org
          /\ invitations'[i].role = row.role
      BY <1>3, <2>1, <2>3 DEF Progress, Known
    <3> QED BY <1>3, <2>1, <2>3, <2>8, <3>1, Facts DEF JoinedAsInvited, Progress, Known
  <2> QED BY <1>4, <2>1, <2>5, <2>7, <2>9, <2>10, Kept
<1>7. \/ End(h) /\ UNCHANGED <<invitations, members, waiting>>
      \/ /\ invitations' = Deleted(i) /\ Goto(h, "readrole")
         /\ \/ UNCHANGED <<members, waiting>>
            \/ members' = [members EXCEPT ![u] = row] /\ waiting' = waiting \ {u}
  BY DEF CommitMembership
<1> QED BY <1>5, <1>6, <1>7

LEMMA WriteRoleKeeps ==
  ASSUME InvitationsAssumption, AccessInv, NEW h \in Handlers, WriteRole(h)
  PROVE  AccessInv'
<1> DEFINE r == handlers[h]
<1>1. /\ r.stage = "writerole" /\ End(h)
      /\ mirror' = [mirror EXCEPT ![r.user] = IF r.row = None THEN None ELSE r.row.role]
  BY DEF WriteRole, At
<1>2. r \in HandlerType /\ r.user \in Users
  BY <1>1, Working
<1>3. UNCHANGED <<accounts, secrets, invitations, members, waiting, terms, audits, mailbox, now, faults>>
  BY DEF WriteRole, classroompath, world
<1>4. mirror' \in [Users -> Roles \union {None}]
  <2>1. (IF r.row = None THEN None ELSE r.row.role) \in Roles \union {None}
    BY <1>2 DEF HandlerType, Membership
  <2> QED BY <1>1, <2>1, Facts DEF StoredTyped
<1>5. Progress /\ StoredTyped'
  BY <1>3, <1>4, Facts, SameProgress DEF StoredTyped
<1>6. /\ handlers' \in [Handlers -> HandlerType]
      /\ \A g \in Handlers : Fits(handlers[g])' \/ handlers'[g] = handlers[g]
  BY <1>1, Ended
<1> QED BY <1>3, <1>5, <1>6, Carried

\* Nothing but a request's end, a followed link or the time.
LEMMA OthersKeep ==
  ASSUME InvitationsAssumption, AccessInv,
         (\E h \in Handlers : Fault(h)) \/ (\E s \in mailbox : FollowLink(s)) \/ Tick
  PROVE  AccessInv'
<1>1. ASSUME NEW h \in Handlers, Fault(h) PROVE AccessInv'
  <2>1. /\ UNCHANGED <<accounts, secrets, mirror, invitations, members, waiting, terms, audits, mailbox, now>>
        /\ faults' = faults + 1 /\ faults < MaxFaults
    BY <1>1 DEF Fault, openpath, classroompath
  <2>2. Progress /\ StoredTyped'
    BY <2>1, Facts, SameProgress DEF StoredTyped
  <2>3. /\ handlers' \in [Handlers -> HandlerType]
        /\ \A g \in Handlers : Fits(handlers[g])' \/ handlers'[g] = handlers[g]
    BY <1>1, Ended DEF Fault
  <2> QED BY <2>1, <2>2, <2>3, Carried
<1>2. ASSUME NEW s \in mailbox, FollowLink(s) PROVE AccessInv'
  <2>1. /\ UNCHANGED <<mirror, invitations, members, waiting, terms, audits, mailbox, now, faults, handlers>>
        /\ s \in secrets /\ secrets' \subseteq secrets
        /\ accounts' = [accounts EXCEPT ![s.user].verified = TRUE] \/ accounts' = accounts
    BY <1>2 DEF FollowLink, classroompath, world
  <2>2. s.user \in Users /\ accounts[s.user] # None
    BY <2>1, Facts DEF StoredTyped, Secret, TokensHaveAccounts
  <2>3. accounts' \in [Users -> Account \union {None}] /\ Progress
    <3>1. CASE accounts' = [accounts EXCEPT ![s.user].verified = TRUE]
      BY <2>1, <2>2, <3>1, AddressVerified
    <3>2. CASE accounts' = accounts
      BY <2>1, <3>2, Facts, SameProgress DEF StoredTyped
    <3> QED BY <2>1, <3>1, <3>2
  <2>4. StoredTyped'
    BY <2>1, <2>3, Facts DEF StoredTyped
  <2> QED BY <2>1, <2>3, <2>4, Facts, Carried
<1>3. CASE Tick
  <2>1. /\ UNCHANGED <<accounts, secrets, mirror, invitations, members, waiting, terms, audits, mailbox,
                       faults, handlers>>
        /\ now' = now + 1 /\ now < MaxTime
    BY <1>3 DEF Tick, openpath, classroompath
  <2>2. StoredTyped'
    BY <2>1, Facts DEF StoredTyped
  <2>3. Progress
    BY <2>1, Facts DEF Progress, LoggedIn, StoredTyped
  <2> QED BY <2>1, <2>2, <2>3, Facts, Carried
<1> QED BY <1>1, <1>2, <1>3

-----------------------------------------------------------------------------
(* The invariant of accounts and invitations *)

LEMMA AccessStarts ==
  ASSUME InvitationsAssumption, Init
  PROVE  AccessInv
<1>1. accounts \in [Users -> Account \union {None}]
  BY DEF Init, Account
<1>2. mirror \in [Users -> Roles \union {None}]
  <2>1. \A u \in Users : InitialMembers[u] # None => InitialMembers[u].role \in Roles
    BY DEF InvitationsAssumption, Membership
  <2> QED BY <2>1 DEF Init
<1>3. TypeOK
  <2>1. \A h \in Handlers : handlers[h].kind = None
    BY DEF Init, Idle, Handling
  <2> QED BY <1>1, <1>2, <2>1 DEF Init, TypeOK, InvitationsAssumption
<1>4. TokensHaveAccounts /\ JoinedInFull /\ JoinedAsInvited
  BY DEF Init, TokensHaveAccounts, JoinedInFull, JoinedAsInvited, InvitationsAssumption
<1>5. HandlersFit
  <2>1. Idle \in HandlerType /\ Fits(Idle)
    BY SomeKind DEF Fits, Idle, Handling, HandlerType, Stages, KnowsInvitation, KnowsToken, KnowsAccount,
       LeadsHome, InvitationsAssumption, Kinds
  <2> QED BY <2>1 DEF Init, HandlersFit
<1> QED BY <1>3, <1>4, <1>5 DEF AccessInv

LEMMA RunKeeps ==
  ASSUME InvitationsAssumption, AccessInv, NEW h \in Handlers, Run(h)
  PROVE  AccessInv'
BY AuditsKeep, MailKeeps, UndoKeeps, DropKeeps, PutKeeps, RegisterKeeps, AcceptTermsKeeps, LookUpKeeps,
   LinkOrInsertKeeps, FindTokenKeeps, FindActiveKeeps, FindAccountKeeps, VerifyKeeps, ReadsKeep,
   CommitMembershipKeeps, WriteRoleKeeps DEF Run

LEMMA AccessKeeps ==
  ASSUME InvitationsAssumption, AccessInv, [Next]_vars
  PROVE  AccessInv'
<1>1. CASE UNCHANGED vars
  <2>1. UNCHANGED <<accounts, secrets, mirror, invitations, members, waiting, terms, audits, mailbox, now,
                    faults, handlers>>
    BY <1>1 DEF vars, openpath, classroompath, world
  <2>2. Progress /\ StoredTyped'
    BY <2>1, Facts, SameProgress DEF StoredTyped
  <2> QED BY <2>1, <2>2, Facts, Carried
<1>2. CASE Next
  BY <1>2, InviteKeeps, RevokeKeeps, BeginningsKeep, RunKeeps, OthersKeep DEF Next
<1> QED BY <1>1, <1>2

\* Whatever requests overlap and fail, the invitations, the accounts, their tokens and
\* the memberships fit each other, and each request knows what it relies on.
THEOREM AccessInvariant == InvitationsAssumption => (Spec => []AccessInv)
<1> SUFFICES ASSUME InvitationsAssumption
             PROVE  Spec => []AccessInv
  OBVIOUS
<1>1. Init => AccessInv
  BY AccessStarts
<1>2. AccessInv /\ [Next]_vars => AccessInv'
  BY AccessKeeps
<1> QED BY <1>1, <1>2, PTL DEF Spec

\* However long its acceptance takes, and whatever is revoked, expires or is sent anew
\* meanwhile, a link leads to the organization it names as long as it stands.
THEOREM LinksLeadHome == InvitationsAssumption => (Spec => []LinkLeadsHome)
<1> SUFFICES ASSUME InvitationsAssumption
             PROVE  Spec => []LinkLeadsHome
  OBVIOUS
<1>1. AccessInv => LinkLeadsHome
  <2> SUFFICES ASSUME AccessInv, NEW h \in Handlers, handlers[h].kind = "open", AtWork(h),
                      Active(handlers[h].link)
               PROVE  invitations[handlers[h].invite].org = invitations[handlers[h].link].org
    BY DEF LinkLeadsHome
  <2> QED BY DEF AccessInv, HandlersFit, Fits, LeadsHome, AtWork
<1> QED BY <1>1, AccessInvariant, PTL

\* Whoever joins by an invitation has accepted the terms, can log in, and waits no more.
THEOREM JoinsInFull == InvitationsAssumption => (Spec => []JoinedInFull)
<1> SUFFICES ASSUME InvitationsAssumption
             PROVE  Spec => []JoinedInFull
  OBVIOUS
<1>1. AccessInv => JoinedInFull
  BY DEF AccessInv
<1> QED BY <1>1, AccessInvariant, PTL

\* Whoever joins does so on an invitation of their own address, in the organization
\* and the role it names.
THEOREM JoinsAsInvited == InvitationsAssumption => (Spec => []JoinedAsInvited)
<1> SUFFICES ASSUME InvitationsAssumption
             PROVE  Spec => []JoinedAsInvited
  OBVIOUS
<1>1. AccessInv => JoinedAsInvited
  BY DEF AccessInv
<1> QED BY <1>1, AccessInvariant, PTL
=============================================================================
