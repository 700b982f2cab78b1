--------------------------- MODULE RelayRateLimiter ---------------------------
(***************************************************************************)
(* One scope of the relay's rate limiter (src/relay/relay_rate_limiter.cpp):*)
(* a token bucket per key, in fixed point, refilled when it is used.  The  *)
(* four scopes (connection, request, tenant, IP) run this code on tables   *)
(* of their own.  A bucket's age is the time since its last refill, kept   *)
(* up to the largest age any test below tells apart.                       *)
(***************************************************************************)
EXTENDS Naturals, FiniteSets, FiniteSetsExt

CONSTANTS
  RateKeys,
  RateCapacity,   \* rule.capacity: tokens of a full bucket
  Window,         \* rule.window: the time in which a bucket refills
  Unit,           \* micro_units_per_token
  MaxKeys,        \* rule.max_keys
  EntryTtl        \* policy.entry_ttl

(* valid_rule and validate_policy; the defaults also have an entry outlive *)
(* its window, which nothing validates and RateBounded needs.              *)
ASSUME RateAssumption ==
  /\ RateCapacity > 0 /\ Window > 0 /\ Unit > 0 /\ MaxKeys > 0
  /\ EntryTtl >= Window

VARIABLES
  buckets,  \* the buckets: a partial function from RateKeys
  recent    \* admissions per key in each of the last Window units of time

rateVars == <<buckets, recent>>

RateInit ==
  /\ buckets = [k \in {} |-> {}]
  /\ recent = [k \in RateKeys |-> [i \in 1..Window |-> 0]]

Full == RateCapacity * Unit

(* A bucket refills in steps of a whole amount per unit of time. *)
MutantRefill(b) ==
  [avail |-> Min({Full, b.avail + (Full * (b.age + 1)) \div Window}),
   age |-> 0]
Refill(b) ==
  [avail |-> Min({Full, b.avail + (Full \div Window) * Min({b.age, Window})}),
   age |-> 0]

Pruned(t) == [k \in {j \in DOMAIN t : t[j].age < EntryTtl} |-> t[k]]

Put(t, k, b) == [j \in DOMAIN t \cup {k} |-> IF j = k THEN b ELSE t[j]]

(* admit: dead buckets are pruned only when a new key finds no room; a new *)
(* bucket starts full.                                                     *)
RateAdmit(k) ==
  LET known == k \in DOMAIN buckets
      table == IF known \/ Cardinality(DOMAIN buckets) < MaxKeys
               THEN buckets ELSE Pruned(buckets)
      b     == Refill(IF known THEN buckets[k] ELSE [avail |-> Full, age |-> 0])
  IN  IF ~known /\ Cardinality(DOMAIN table) >= MaxKeys
      THEN buckets' = table /\ UNCHANGED recent
      ELSE IF b.avail < Unit
      THEN buckets' = Put(table, k, b) /\ UNCHANGED recent
      ELSE /\ buckets' = Put(table, k, [b EXCEPT !.avail = @ - Unit])
           /\ recent' = [recent EXCEPT ![k][1] = @ + 1]

RatePrune == buckets' = Pruned(buckets) /\ UNCHANGED recent

RateTick ==
  /\ buckets' = [k \in DOMAIN buckets |->
                   [buckets[k] EXCEPT !.age = Min({@ + 1, EntryTtl})]]
  /\ recent' = [k \in RateKeys |->
                  [i \in 1..Window |-> IF i = 1 THEN 0 ELSE recent[k][i - 1]]]

RateNext == (\E k \in RateKeys : RateAdmit(k)) \/ RatePrune \/ RateTick

(* What the limiter is for: over any window a key is admitted less than    *)
(* twice its capacity (a full bucket, and what flows in while it drains),  *)
(* however its bucket is pruned, recreated full, or rounded in between.    *)
RateBounded ==
  \A k \in RateKeys :
    MapThenSumSet(LAMBDA i : recent[k][i], 1..Window) < 2 * RateCapacity
===============================================================================
