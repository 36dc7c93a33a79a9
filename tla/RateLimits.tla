---------------------------- MODULE RateLimits ------------------------------
(* The gateway's rate limiter: a fixed window per client address and bucket, *)
(* kept in the process's memory and swept only when there are many.          *)
EXTENDS Absent, Naturals, FiniteSets

CONSTANTS
  Clients,
  Buckets,     \* a request's path falls in one: the first rule that matches it
  Limit,       \* [Buckets -> Nat]
  Window,      \* [Buckets -> Nat]
  SweepAbove   \* how many entries it takes before the expired ones are swept

RateLimitsAssumption ==
  /\ Limit \in [Buckets -> Nat \ {0}] /\ Window \in [Buckets -> Nat \ {0}]
  /\ SweepAbove \in Nat
  /\ None \notin [count : Nat, left : Nat]

VARIABLES
  entries,  \* for a client and bucket: how many requests its window let pass, how long it lasts
  passed    \* history: for each, how many requests passed in its last 0, 1, 2.. units of time

rateVars == <<entries, passed>>

Counters == Buckets \X Clients
LimitOf(k) == Limit[k[1]]
WindowOf(k) == Window[k[1]]
Spans(k) == 0 .. WindowOf(k)

RateTypeOK ==
  /\ DOMAIN entries = Counters /\ DOMAIN passed = Counters
  /\ \A k \in Counters :
       /\ entries[k] \in {None} \union [count : 0 .. LimitOf(k), left : 0 .. WindowOf(k)]
       /\ passed[k] \in [Spans(k) -> Nat]

RateInit ==
  /\ entries = [k \in Counters |-> None]
  /\ passed = [k \in Counters |-> [n \in Spans(k) |-> 0]]

\* existing.resetAt > now
Lasting(k) == entries[k] # None /\ entries[k].left > 0

\* Expired entries go when there are more than SweepAbove.
SweepAny(k) == TRUE
Sweep(k) == ~Lasting(k)
Swept == IF Cardinality({k \in Counters : entries[k] # None}) <= SweepAbove THEN entries
         ELSE [k \in Counters |-> IF Sweep(k) THEN None ELSE entries[k]]

\* The window a request counts in: the one that still lasts, or a new one.
Current(k) == IF Lasting(k) THEN entries[k] ELSE [count |-> 0, left |-> WindowOf(k)]

IsRefused(k) == Current(k).count >= LimitOf(k)

\* A refused request neither counts nor prolongs the window.
AfterRefusal(k) == Current(k)

Request(k) ==
  IF IsRefused(k)
  THEN entries' = [Swept EXCEPT ![k] = AfterRefusal(k)] /\ UNCHANGED passed
  ELSE /\ entries' = [Swept EXCEPT ![k] = [Current(k) EXCEPT !.count = @ + 1]]
       /\ passed' = [passed EXCEPT ![k] = [n \in Spans(k) |-> IF n = 0 THEN 0 ELSE @[n] + 1]]

\* Date.now moves on.
TimePasses ==
  /\ entries' = [k \in Counters |-> IF Lasting(k) THEN [entries[k] EXCEPT !.left = @ - 1] ELSE entries[k]]
  /\ passed' = [k \in Counters |-> [n \in Spans(k) |-> IF n = 0 THEN 0 ELSE passed[k][n - 1]]]

RateNext == TimePasses \/ \E k \in Counters : Request(k)

RateSpec == RateInit /\ [][RateNext]_rateVars

-----------------------------------------------------------------------------
Recent(k) == passed[k][WindowOf(k)]

\* However a client times its requests around the windows and the sweeps, fewer
\* than twice the limit pass within any time as long as a window; and it is
\* refused only when it used its limit up within the last window, the requests
\* refused since not counting.
LimitIsExact ==
  \A k \in Counters :
    /\ Recent(k) < 2 * LimitOf(k)
    /\ IsRefused(k) => Recent(k) >= LimitOf(k)

-----------------------------------------------------------------------------
(* What makes it inductive *)

\* Longer spans hold no fewer requests.
Accumulates(k) ==
  /\ passed[k][0] = 0
  /\ \A m, n \in Spans(k) : m <= n => passed[k][m] <= passed[k][n]

Elapsed(k) == WindowOf(k) - entries[k].left

\* The window that lasts has counted what passed since it began, which was
\* something at once; what it does not count stayed below the limit.
LiveCounts(k) ==
  LET counted == passed[k][Elapsed(k) + 1] IN
  /\ entries[k].count = counted
  /\ passed[k][Elapsed(k)] < counted
  /\ \A n \in Spans(k) : Elapsed(k) < n => passed[k][n] < counted + LimitOf(k)

\* While none lasts, nothing passed in this unit of time, and less than the
\* limit within a window's length.
IdleCounts(k) == passed[k][1] = 0 /\ Recent(k) < LimitOf(k)

CountsAgree ==
  \A k \in Counters :
    /\ Accumulates(k)
    /\ IF Lasting(k) THEN LiveCounts(k) ELSE IdleCounts(k)

RateInv == RateTypeOK /\ CountsAgree
=============================================================================
