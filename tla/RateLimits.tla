------------------------------ MODULE RateLimits ------------------------------
(***************************************************************************)
(* The rate limiters that a command passes on its way to a device: token   *)
(* buckets per user, tenant and device (rate_limiter.py), or for devices a *)
(* counter in Redis (distributed/redis_rate_limiter.py); how helpers.py    *)
(* asks them, with and without waiting; and what a reload of the settings  *)
(* does to them (config.py).                                               *)
(*                                                                         *)
(* A request asks for a token of each of its keys in turn, the device last.*)
(* A bucket is an object: a request that has found it keeps using it, also *)
(* when a reload has taken it out of the table.  A token costs Cost units, *)
(* so that buckets can hold fractions of it.  Buckets are filled up when   *)
(* they are asked, from the time since they were last asked.  An identity  *)
(* nobody refers to is used again for a new bucket.                        *)
(*                                                                         *)
(* The history variables watch a stretch of time that may begin anywhere   *)
(* and lasts up to MaxWatch.                                               *)
(***************************************************************************)
EXTENDS Serving, Integers, Sequences

CONSTANTS
  Keys,                   \* of buckets; the hosts are keys
  KeysOf,                 \* request -> the sequence of its keys
  Buckets,                \* identities
  Backends,               \* NET_DISTRIBUTED_BACKEND: "local", "redis"
  Rates, OtherRate,       \* units per tick for devices (of them a reload chooses), for other keys
  Burst, OtherBurst,      \* capacities, in units
  Cost,                   \* of a request, in units
  MaxWait, MaxNap,        \* NET_RATE_LIMIT_MAX_WAIT, and the longest single sleep
  Window,                 \* expiry of the counter in Redis
  MaxWatch

MaxRate == CHOOSE n \in Rates : \A m \in Rates : m <= n

BucketRecord == [key : Keys, rate : Rates \cup {OtherRate}, cap : {Burst, OtherBurst},
                 tokens : 0..(Burst + OtherBurst), idle : 0..(Burst + OtherBurst)]

ASSUME RateAssumption ==
  /\ Hosts \subseteq Keys /\ None \notin Buckets \cup BucketRecord
  /\ KeysOf \in [Requests -> Seq(Keys)]
  /\ \A r \in Requests : Len(KeysOf[r]) > 0 /\ KeysOf[r][Len(KeysOf[r])] \in Hosts
  /\ Rates \subseteq Nat \ {0} /\ MaxRate \in Rates /\ \A n \in Rates : n <= MaxRate
  /\ {OtherRate, Cost, MaxNap, Window} \subseteq Nat \ {0}
  /\ {Burst, OtherBurst, MaxWait, MaxWatch} \subseteq Nat

VARIABLES
  backend,
  rate,       \* _show_rate: the rate of device buckets made from now on
  reload,     \* a reload has set the rate and not yet cleared the table
  table,      \* the tables of buckets: key -> bucket, or None
  bucket,     \* the objects: [key, rate, cap, tokens, idle], or None
  pc, at,     \* each request's progress, and which of its keys it is at
  held,       \* the bucket a request has found
  patient,    \* whether it waits for a token of the device
  nap, delay, waited,  \* acquire_with_backoff: the sleep under way, the next one, their sum
  count, ttl, \* the counter in Redis and its time to live
  elapsed, taken, passed, \* history: the time watched, requests let through by each
                          \* bucket, and by Redis for each device
  retired     \* history: buckets a reload has taken out of the table

request == <<pc, at, held, patient, nap, delay, waited>>
redis == <<count, ttl>>
watch == <<elapsed, taken, passed>>
vars == <<backend, rate, reload, table, bucket, request, redis, watch, retired>>

Live == {b \in Buckets : bucket[b] # None}

TypeOK ==
  /\ backend \in Backends /\ rate \in Rates /\ reload \in BOOLEAN
  /\ table \in [Keys -> Buckets \cup {None}]
  /\ bucket \in [Buckets -> BucketRecord \cup {None}]
  /\ pc \in [Requests -> {"new", "fetch", "create", "take", "nap"}]
  /\ \A r \in Requests : at[r] \in DOMAIN KeysOf[r]
  /\ held \in [Requests -> Buckets \cup {None}]
  /\ patient \in [Requests -> BOOLEAN]
  /\ \A r \in Requests : nap[r] <= MaxNap /\ delay[r] \in 1..MaxNap /\ waited[r] \in 0..MaxWait
  /\ count \in [Hosts -> Nat] /\ ttl \in [Hosts -> 0..Window]
  /\ elapsed \in 0..MaxWatch
  /\ taken \in [Buckets -> Nat] /\ passed \in [Hosts -> Nat]
  /\ retired \subseteq Live
  /\ \A k \in Keys : table[k] # None => bucket[table[k]] # None /\ bucket[table[k]].key = k
  /\ \A b \in Live : bucket[b].tokens <= bucket[b].cap

Init ==
  /\ backend \in Backends /\ rate \in Rates /\ reload = FALSE
  /\ table = [k \in Keys |-> None] /\ bucket = [b \in Buckets |-> None]
  /\ pc = [r \in Requests |-> "new"] /\ at = [r \in Requests |-> 1]
  /\ held = [r \in Requests |-> None] /\ patient = [r \in Requests |-> FALSE]
  /\ nap = [r \in Requests |-> 0] /\ delay = [r \in Requests |-> 1]
  /\ waited = [r \in Requests |-> 0]
  /\ count = [h \in Hosts |-> 0] /\ ttl = [h \in Hosts |-> 0]
  /\ elapsed = 0 /\ taken = [b \in Buckets |-> 0] /\ passed = [h \in Hosts |-> 0]
  /\ retired = {}

-----------------------------------------------------------------------------
(* TokenBucket *)

Least(m, n) == IF m <= n THEN m ELSE n

\* What acquire finds after it has filled the bucket up.
Available(b) == Least(bucket[b].cap, bucket[b].tokens + bucket[b].idle * bucket[b].rate)

NewBucket(k) ==
  LET cap == IF k \in Hosts THEN Burst ELSE OtherBurst
  IN  [key |-> k, rate |-> IF k \in Hosts THEN rate ELSE OtherRate,
       cap |-> cap, tokens |-> cap, idle |-> 0]

\* wait_time, which words the refusal, fills up and takes nothing.
Refilled(b) == [bucket EXCEPT ![b] = [@ EXCEPT !.tokens = Available(b), !.idle = 0]]

\* Seeded fault: _last_refill is not advanced, so the same time fills the bucket twice.
Drained_KeepsClock(b) == [bucket EXCEPT ![b] = [@ EXCEPT !.tokens = Available(b) - Cost]]

Drained(b) == [bucket EXCEPT ![b] = [@ EXCEPT !.tokens = Available(b) - Cost, !.idle = 0]]

-----------------------------------------------------------------------------
(* Requests *)

Key(r) == KeysOf[r][at[r]]
OnDevice(r) == at[r] = Len(KeysOf[r])

\* What a request leaves behind when it is over: buckets nobody refers to are gone.
Finish(r, objects) ==
  LET used == {table[k] : k \in Keys} \cup {held[q] : q \in Requests \ {r}}
  IN  /\ pc' = [pc EXCEPT ![r] = "new"] /\ at' = [at EXCEPT ![r] = 1]
      /\ held' = [held EXCEPT ![r] = None] /\ patient' = [patient EXCEPT ![r] = FALSE]
      /\ nap' = [nap EXCEPT ![r] = 0] /\ delay' = [delay EXCEPT ![r] = 1]
      /\ waited' = [waited EXCEPT ![r] = 0]
      /\ bucket' = [b \in Buckets |-> IF b \in used THEN objects[b] ELSE None]
      /\ retired' = retired \cap used

\* Anonymous users and requests without a tenant have fewer keys.  A session
\* command does not wait for a token, a show or a change does if configured.
Arrive(r, p) ==
  /\ pc[r] = "new" /\ pc' = [pc EXCEPT ![r] = "fetch"]
  /\ patient' = [patient EXCEPT ![r] = p /\ MaxWait > 0]
  /\ UNCHANGED <<backend, rate, reload, table, bucket, at, held, nap, delay, waited,
                 redis, watch, retired>>

Local(r) == backend = "local" \/ ~OnDevice(r)

\* _get_bucket: the first look, without the lock.
Fetch(r) ==
  /\ pc[r] = "fetch" /\ Local(r)
  /\ held' = [held EXCEPT ![r] = table[Key(r)]]
  /\ pc' = [pc EXCEPT ![r] = IF table[Key(r)] = None THEN "create" ELSE "take"]
  /\ UNCHANGED <<backend, rate, reload, table, bucket, at, patient, nap, delay, waited,
                 redis, watch, retired>>

Make(r, b) ==
  /\ bucket[b] = None
  /\ bucket' = [bucket EXCEPT ![b] = NewBucket(Key(r))]
  /\ table' = [table EXCEPT ![Key(r)] = b]
  /\ held' = [held EXCEPT ![r] = b]
  /\ taken' = [taken EXCEPT ![b] = 0]

\* Seeded fault: the table is not looked at again under the lock.
Create_WithoutLooking(r) ==
  /\ pc[r] = "create" /\ pc' = [pc EXCEPT ![r] = "take"]
  /\ \E b \in Buckets : Make(r, b)
  /\ UNCHANGED <<backend, rate, reload, at, patient, nap, delay, waited, redis,
                 elapsed, passed, retired>>

\* The second look, with the lock, and a new bucket if there still is none.
Create(r) ==
  /\ pc[r] = "create" /\ pc' = [pc EXCEPT ![r] = "take"]
  /\ IF table[Key(r)] = None
     THEN \E b \in Buckets : Make(r, b)
     ELSE held' = [held EXCEPT ![r] = table[Key(r)]] /\ UNCHANGED <<table, bucket, taken>>
  /\ UNCHANGED <<backend, rate, reload, at, patient, nap, delay, waited, redis,
                 elapsed, passed, retired>>

Asking(r) == pc[r] = "take" \/ (pc[r] = "nap" /\ nap[r] = 0)

\* A token: on to the next key, or to the device.
Take(r) ==
  /\ Asking(r) /\ Available(held[r]) >= Cost
  /\ taken' = [taken EXCEPT ![held[r]] = @ + 1]
  /\ IF OnDevice(r)
     THEN Finish(r, Drained(held[r]))
     ELSE /\ bucket' = Drained(held[r])
          /\ at' = [at EXCEPT ![r] = @ + 1] /\ pc' = [pc EXCEPT ![r] = "fetch"]
          /\ held' = [held EXCEPT ![r] = None]
          /\ UNCHANGED <<patient, nap, delay, waited, retired>>
  /\ UNCHANGED <<backend, rate, reload, table, redis, elapsed, passed>>

\* No token, and no more waiting: what other keys have given is not given back.
Refuse(r) ==
  /\ Asking(r) /\ Available(held[r]) < Cost
  /\ ~(OnDevice(r) /\ patient[r] /\ waited[r] < MaxWait)
  /\ Finish(r, Refilled(held[r]))
  /\ UNCHANGED <<backend, rate, reload, table, redis, watch>>

\* Seeded fault: the last sleep is not cut to what is left.
Nap_InFull(r) ==
  /\ Asking(r) /\ Available(held[r]) < Cost
  /\ OnDevice(r) /\ patient[r] /\ waited[r] < MaxWait
  /\ nap' = [nap EXCEPT ![r] = delay[r]] /\ waited' = [waited EXCEPT ![r] = @ + delay[r]]
  /\ delay' = [delay EXCEPT ![r] = Least(2 * @, MaxNap)]
  /\ bucket' = Refilled(held[r])
  /\ pc' = [pc EXCEPT ![r] = "nap"]
  /\ UNCHANGED <<backend, rate, reload, table, at, held, patient, redis, watch, retired>>

\* acquire_with_backoff: sleep twice as long as before, up to what is left.
Nap(r) ==
  /\ Asking(r) /\ Available(held[r]) < Cost
  /\ OnDevice(r) /\ patient[r] /\ waited[r] < MaxWait
  /\ LET d == Least(delay[r], MaxWait - waited[r])
     IN  nap' = [nap EXCEPT ![r] = d] /\ waited' = [waited EXCEPT ![r] = @ + d]
  /\ delay' = [delay EXCEPT ![r] = Least(2 * @, MaxNap)]
  /\ bucket' = Refilled(held[r])
  /\ pc' = [pc EXCEPT ![r] = "nap"]
  /\ UNCHANGED <<backend, rate, reload, table, at, held, patient, redis, watch, retired>>

-----------------------------------------------------------------------------
(* RedisRateLimiter *)

\* INCR and EXPIRE in one transaction.
Count(h) ==
  /\ count' = [count EXCEPT ![h] = IF @ <= MaxRate THEN @ + 1 ELSE @]
  /\ ttl' = [ttl EXCEPT ![h] = Window]

\* check_show, check_config: refused requests are counted and renew the expiry too.
Check(r) ==
  /\ pc[r] = "fetch" /\ ~Local(r) /\ ~patient[r]
  /\ Count(Key(r))
  /\ passed' = [passed EXCEPT ![Key(r)] = IF count[Key(r)] < rate THEN @ + 1 ELSE @]
  /\ Finish(r, bucket)
  /\ UNCHANGED <<backend, rate, reload, table, elapsed, taken>>

\* Without Redis every request is let through.  A request that would wait fails:
\* this limiter has no check_show_with_backoff.
Unchecked(r) ==
  /\ pc[r] = "fetch" /\ ~Local(r)
  /\ Finish(r, bucket)
  /\ UNCHANGED <<backend, rate, reload, table, redis, watch>>

-----------------------------------------------------------------------------
(* Reload, time *)

\* _propagate_rate_limiter: first the rates, ...
SetRate(n) ==
  /\ ~reload /\ n # rate
  /\ rate' = n /\ reload' = TRUE
  /\ UNCHANGED <<backend, table, bucket, request, redis, watch, retired>>

HostBuckets == {table[h] : h \in Hosts} \ {None}
Held == {held[r] : r \in Requests} \ {None}

\* Seeded fault: buckets somebody still waits for stay in the table.
ClearBuckets_KeepsUsed ==
  /\ reload /\ reload' = FALSE
  /\ table' = [k \in Keys |-> IF k \in Hosts /\ table[k] \notin Held THEN None ELSE table[k]]
  /\ retired' = retired \cup (HostBuckets \cap Held)
  /\ bucket' = [b \in Buckets |-> IF b \in HostBuckets \ Held THEN None ELSE bucket[b]]
  /\ UNCHANGED <<backend, rate, request, redis, watch>>

\* ... then, with the lock, the tables.  The Redis limiter has none; the exception
\* that follows is swallowed.
ClearBuckets ==
  /\ reload /\ reload' = FALSE
  /\ table' = [k \in Keys |-> IF k \in Hosts THEN None ELSE table[k]]
  /\ retired' = retired \cup (HostBuckets \cap Held)
  /\ bucket' = [b \in Buckets |-> IF b \in HostBuckets \ Held THEN None ELSE bucket[b]]
  /\ UNCHANGED <<backend, rate, request, redis, watch>>

Tick ==
  /\ elapsed < MaxWatch /\ elapsed' = elapsed + 1
  /\ bucket' = [b \in Buckets |->
       IF bucket[b] = None THEN None
       ELSE [bucket[b] EXCEPT !.idle = IF Available(b) < bucket[b].cap THEN @ + 1 ELSE @]]
  /\ nap' = [r \in Requests |-> IF nap[r] > 0 THEN nap[r] - 1 ELSE 0]
  /\ ttl' = [h \in Hosts |-> IF ttl[h] > 0 THEN ttl[h] - 1 ELSE 0]
  /\ count' = [h \in Hosts |-> IF ttl'[h] = 0 THEN 0 ELSE count[h]]
  /\ UNCHANGED <<backend, rate, reload, table, pc, at, held, patient, delay, waited,
                 taken, passed, retired>>

\* The watch begins anew.
Watch ==
  /\ elapsed' = 0
  /\ taken' = [b \in Buckets |-> 0] /\ passed' = [h \in Hosts |-> 0]
  /\ UNCHANGED <<backend, rate, reload, table, bucket, request, redis, retired>>

Next ==
  \/ \E r \in Requests :
       \/ \E p \in BOOLEAN : Arrive(r, p)
       \/ Fetch(r) \/ Create(r) \/ Take(r) \/ Refuse(r) \/ Nap(r)
       \/ Check(r) \/ Unchecked(r)
  \/ \E n \in Rates : SetRate(n)
  \/ ClearBuckets
  \/ Tick
  \/ Watch

Spec == Init /\ [][Next]_vars

-----------------------------------------------------------------------------
(* Properties *)

\* In no stretch of time, wherever it begins, does a bucket let through more than
\* its burst and what its rate gives in that time, however many requests share it
\* and wait for it.  The counter in Redis lets through its rate once, and again
\* for every full window that has passed.
AdmissionsAreBounded ==
  /\ \A b \in Live : taken[b] * Cost <= bucket[b].cap + bucket[b].rate * elapsed
  /\ \A h \in Hosts : passed[h] <= MaxRate * (1 + elapsed \div Window)

\* All requests for a key share one bucket, so that the bound above is the bound
\* for the device, the user and the tenant: only a bucket that a reload took out of
\* the table serves beside the one in the table.  And once a reload is through,
\* no bucket in the table is left with the old rate.
OneCurrentBucketPerKey ==
  /\ \A r \in Requests :
       held[r] # None => held[r] = table[Key(r)] \/ held[r] \in retired
  /\ ~reload =>
       \A h \in Hosts : table[h] # None => bucket[table[h]].rate = rate
=============================================================================
