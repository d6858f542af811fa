---------------------------- MODULE AdmissionProofs ----------------------------
(***************************************************************************)
(* Proofs about what a request has to pass on its way to a device: the     *)
(* rate limiters (RateLimits) and, in the second part, the circuit breaker *)
(* (CircuitBreaker), for any requests, devices and settings.  Each is      *)
(* about a specification of its own.                                       *)
(*                                                                         *)
(* What bounds a bucket's admissions is the sum of what it has let through *)
(* and what it could let through now (WithinRate): a request moves units   *)
(* from the one to the other, and time adds no more than the rate.  What   *)
(* bounds a counter's is the number of windows it has been through         *)
(* (Counted).  That these are the bounds of a device rests on who refers   *)
(* to which bucket (Referred).                                             *)
(*                                                                         *)
(* The breakers' invariant is stated breaker by breaker: SoundBreaker says *)
(* what holds of a breaker on its own, and InTime relates its clock to the *)
(* time since the device last failed.  Each operation on a breaker keeps   *)
(* both; the actions then only say which breaker is replaced.              *)
(***************************************************************************)
EXTENDS RateLimits, CircuitBreaker, TLAPS

Shapes ==
  /\ backend \in Backends /\ rate \in Rates /\ reload \in BOOLEAN
  /\ pc \in [Requests -> {"new", "fetch", "create", "take", "nap"}]
  /\ at \in [Requests -> Nat] /\ \A r \in Requests : at[r] \in DOMAIN KeysOf[r]
  /\ patient \in [Requests -> BOOLEAN]
  /\ elapsed \in 0..MaxWatch
  /\ taken \in [Buckets -> Nat]

Sleeps ==
  /\ nap \in [Requests -> 0..MaxNap] /\ delay \in [Requests -> 1..MaxNap]
  /\ waited \in [Requests -> 0..MaxWait]

\* A bucket on its own.
SoundBucket(b) ==
  /\ b \in BucketRecord
  /\ b.tokens <= b.cap

BucketsSound ==
  /\ bucket \in [Buckets -> BucketRecord \cup {None}]
  /\ \A b \in Live : SoundBucket(bucket[b])

\* Who refers to a bucket refers to one that is there.
Referred ==
  /\ table \in [Keys -> Buckets \cup {None}] /\ held \in [Requests -> Buckets \cup {None}]
  /\ retired \subseteq Live
  /\ \A k \in Keys : table[k] # None =>
       table[k] \in Live \ retired /\ bucket[table[k]].key = k
  /\ \A r \in Requests :
       /\ held[r] # None => held[r] \in Live
       /\ pc[r] \in {"take", "nap"} <=> held[r] # None

\* What a bucket has let through and could let through now, in units.
Filled(b) == Least(b.cap, b.tokens + b.idle * b.rate)
WithinRate(b, n, time) == n * Cost + Filled(b) <= b.cap + b.rate * time
InStock == \A b \in Live : WithinRate(bucket[b], taken[b], elapsed)

\* The counter has expired w times since the watch began, each time a full window
\* after it was last started.
Counted(h) ==
  \E w \in Nat :
    /\ passed[h] <= Least(count[h], MaxRate) + MaxRate * w
    /\ w * Window <= IF ttl[h] = 0 THEN elapsed ELSE elapsed + ttl[h] - Window

Counters ==
  /\ count \in [Hosts -> Nat] /\ ttl \in [Hosts -> 0..Window] /\ passed \in [Hosts -> Nat]
  /\ \A h \in Hosts :
       /\ ttl[h] = 0 => count[h] = 0
       /\ passed[h] # 0 => Counted(h)

IInv ==
  /\ Shapes /\ Sleeps
  /\ BucketsSound /\ Referred /\ InStock /\ Counters
  /\ OneCurrentBucketPerKey

-----------------------------------------------------------------------------
(* One bucket *)

\* The settings, as numbers.
LEMMA Settings ==
  /\ MaxRate \in Nat /\ MaxRate > 0
  /\ \A n \in Rates : n \in Nat /\ n > 0 /\ n <= MaxRate
  /\ OtherRate \in Nat /\ OtherRate > 0 /\ Cost \in Nat /\ Cost > 0
  /\ Burst \in Nat /\ OtherBurst \in Nat
  /\ MaxNap \in Nat /\ MaxNap > 0 /\ MaxWait \in Nat /\ MaxWatch \in Nat
  /\ Window \in Nat /\ Window > 0
  /\ Hosts \subseteq Keys
BY RateAssumption

\* An entry that is there is not taken for a missing one.
LEMMA NoneIsNoBucket == None \notin BucketRecord
BY RateAssumption

\* The fields of a bucket, as numbers.
LEMMA BucketFields ==
  ASSUME NEW b, SoundBucket(b)
  PROVE  /\ b.key \in Keys
         /\ b.rate \in Nat /\ b.rate > 0
         /\ b.cap \in Nat /\ b.cap <= Burst + OtherBurst
         /\ b.tokens \in Nat /\ b.tokens <= b.cap
         /\ b.idle \in Nat
         /\ b.idle * b.rate \in Nat /\ b.idle <= b.idle * b.rate
         /\ Filled(b) \in Nat /\ Filled(b) <= b.cap
<1>1. /\ b.key \in Keys /\ b.rate \in Rates \cup {OtherRate} /\ b.cap \in {Burst, OtherBurst}
      /\ b.tokens \in 0..(Burst + OtherBurst) /\ b.idle \in 0..(Burst + OtherBurst)
      /\ b.tokens <= b.cap
  BY DEF SoundBucket, BucketRecord
<1>2. /\ b.rate \in Nat /\ b.rate > 0
      /\ b.cap \in Nat /\ b.cap <= Burst + OtherBurst
      /\ b.tokens \in Nat /\ b.idle \in Nat
  BY <1>1, Settings
<1>3. \A i, n \in Nat : n > 0 => i * n \in Nat /\ i <= i * n
  OBVIOUS
<1>4. b.idle * b.rate \in Nat /\ b.idle <= b.idle * b.rate
  BY <1>2, <1>3
<1>5. Filled(b) \in Nat /\ Filled(b) <= b.cap
  BY <1>2, <1>4 DEF Filled, Least
<1> QED BY <1>1, <1>2, <1>4, <1>5

\* acquire and wait_time set what a bucket holds and start its clock anew.
LEMMA SetBucket ==
  ASSUME NEW b, SoundBucket(b), NEW n \in 0..b.cap
  PROVE  LET c == [b EXCEPT !.tokens = n, !.idle = 0]
         IN  /\ SoundBucket(c)
             /\ c.key = b.key /\ c.rate = b.rate /\ c.cap = b.cap
             /\ Filled(c) = n
<1> DEFINE c == [b EXCEPT !.tokens = n, !.idle = 0]
<1>1. b \in BucketRecord /\ n \in Nat /\ n <= b.cap
  BY BucketFields DEF SoundBucket
<1>2. c \in BucketRecord
  <2>1. n \in 0..(Burst + OtherBurst) /\ 0 \in 0..(Burst + OtherBurst)
    BY <1>1, BucketFields, Settings
  <2> QED BY <1>1, <2>1 DEF BucketRecord
<1>3. c.key = b.key /\ c.rate = b.rate /\ c.cap = b.cap /\ c.tokens = n /\ c.idle = 0
  BY <1>1 DEF BucketRecord
<1>4. SoundBucket(c)
  BY <1>1, <1>2, <1>3 DEF SoundBucket
<1> HIDE DEF c
<1>5. Filled(c) = n
  <2>1. c.idle * c.rate = 0 /\ c.cap \in Nat
    BY <1>3, <1>4, BucketFields
  <2> QED BY <1>1, <1>3, <2>1 DEF Filled, Least
<1> QED BY <1>3, <1>4, <1>5 DEF c

\* Time adds at most the rate to what a bucket could let through.
LEMMA AgeBucket ==
  ASSUME NEW b, SoundBucket(b)
  PROVE  LET c == [b EXCEPT !.idle = IF Filled(b) < b.cap THEN @ + 1 ELSE @]
         IN  /\ SoundBucket(c)
             /\ c.key = b.key /\ c.rate = b.rate /\ c.cap = b.cap
             /\ Filled(c) <= Filled(b) + b.rate
<1> DEFINE i == IF Filled(b) < b.cap THEN b.idle + 1 ELSE b.idle
           c == [b EXCEPT !.idle = i]
<1>1. b \in BucketRecord
  BY DEF SoundBucket
<1>2. /\ b.rate \in Nat /\ b.rate > 0 /\ b.cap \in Nat /\ b.cap <= Burst + OtherBurst
      /\ b.tokens \in Nat /\ b.tokens <= b.cap /\ b.idle \in Nat
      /\ b.idle * b.rate \in Nat /\ b.idle <= b.idle * b.rate
      /\ Burst + OtherBurst \in Nat
  BY BucketFields, Settings
<1>3. i \in 0..(Burst + OtherBurst)
  <2>1. CASE Filled(b) < b.cap
    <3>1. b.tokens + b.idle * b.rate < b.cap
      BY <1>2, <2>1 DEF Filled, Least
    <3> QED BY <1>2, <2>1, <3>1
  <2>2. CASE ~(Filled(b) < b.cap)
    BY <1>1, <2>2 DEF BucketRecord
  <2> QED BY <2>1, <2>2
<1>4. c \in BucketRecord
  BY <1>1, <1>3 DEF BucketRecord
<1>5. c.key = b.key /\ c.rate = b.rate /\ c.cap = b.cap /\ c.tokens = b.tokens /\ c.idle = i
  BY <1>1 DEF BucketRecord
<1>6. SoundBucket(c)
  BY <1>4, <1>5 DEF SoundBucket
<1>7. c.idle * c.rate <= b.idle * b.rate + b.rate /\ c.idle * c.rate \in Nat
  <2>1. \A m, n \in Nat : (m + 1) * n = m * n + n /\ m * n \in Nat
    OBVIOUS
  <2>2. c.idle = b.idle \/ c.idle = b.idle + 1
    BY <1>5
  <2> QED BY <1>2, <1>5, <2>1, <2>2
<1>8. Filled(c) <= Filled(b) + b.rate
  BY <1>2, <1>5, <1>7 DEF Filled, Least
<1> QED BY <1>5, <1>6, <1>8

-----------------------------------------------------------------------------
(* All buckets *)

\* Objects that take the place of the buckets: the same, but for what they hold.
Replacement(objects, n, time) ==
  /\ objects \in [Buckets -> BucketRecord \cup {None}]
  /\ \A b \in Buckets : objects[b] # None <=> bucket[b] # None
  /\ \A b \in Live :
       /\ SoundBucket(objects[b])
       /\ objects[b].key = bucket[b].key /\ objects[b].rate = bucket[b].rate
       /\ WithinRate(objects[b], n[b], time)

\* Some of them are kept.
LEMMA ReplacementKept ==
  ASSUME NEW objects, Replacement(objects, taken', elapsed'), NEW used,
         bucket' = [b \in Buckets |-> IF b \in used THEN objects[b] ELSE None]
  PROVE  /\ BucketsSound' /\ InStock'
         /\ Live' = Live \cap used
         /\ \A b \in Live' : bucket'[b].key = bucket[b].key /\ bucket'[b].rate = bucket[b].rate
<1>1. \A b \in Buckets : bucket'[b] = IF b \in used THEN objects[b] ELSE None
  OBVIOUS
<1>2. Live' = Live \cap used
  BY <1>1 DEF Live, Replacement
<1>3. \A b \in Live' : bucket'[b] = objects[b] /\ b \in Live
  BY <1>1, <1>2 DEF Live
<1>4. bucket' \in [Buckets -> BucketRecord \cup {None}]
  BY DEF Replacement
<1>5. BucketsSound'
  BY <1>3, <1>4 DEF BucketsSound, Replacement, SoundBucket
<1>6. InStock'
  BY <1>3 DEF InStock, Replacement, WithinRate, Filled, Least
<1> QED BY <1>2, <1>3, <1>5, <1>6 DEF Replacement

\* The buckets replace themselves.
LEMMA BucketsReplaceThemselves ==
  ASSUME BucketsSound, InStock
  PROVE  Replacement(bucket, taken, elapsed)
BY DEF BucketsSound, InStock, Replacement, Live

\* What acquire finds depends on the bucket alone.
LEMMA AvailableIsFilled == \A b : Available(b) = Filled(bucket[b])
BY DEF Available, Filled

\* A refused request fills its bucket up, a served one also takes from it.
LEMMA AskedBucket ==
  ASSUME BucketsSound, InStock, Shapes, NEW b \in Live
  PROVE  /\ Replacement(Refilled(b), taken, elapsed)
         /\ Available(b) >= Cost => Replacement(Drained(b), [taken EXCEPT ![b] = @ + 1], elapsed)
<1>1. /\ b \in Buckets /\ SoundBucket(bucket[b]) /\ bucket[b] # None
      /\ bucket \in [Buckets -> BucketRecord \cup {None}]
      /\ taken \in [Buckets -> Nat] /\ WithinRate(bucket[b], taken[b], elapsed)
  BY DEF BucketsSound, Live, Shapes, InStock
<1>2. /\ Available(b) = Filled(bucket[b])
      /\ Available(b) \in Nat /\ Available(b) <= bucket[b].cap /\ bucket[b].cap \in Nat
  BY <1>1, AvailableIsFilled, BucketFields
<1>3. ASSUME NEW n \in 0..bucket[b].cap, NEW m \in [Buckets -> Nat],
             \A c \in Buckets \ {b} : m[c] = taken[c],
             m[b] * Cost + n = taken[b] * Cost + Available(b)
      PROVE  Replacement([bucket EXCEPT ![b] = [@ EXCEPT !.tokens = n, !.idle = 0]], m, elapsed)
  <2> DEFINE new == [bucket[b] EXCEPT !.tokens = n, !.idle = 0]
             objects == [bucket EXCEPT ![b] = new]
  <2>1. /\ SoundBucket(new) /\ new.key = bucket[b].key /\ new.rate = bucket[b].rate
        /\ new.cap = bucket[b].cap /\ Filled(new) = n
    BY <1>1, SetBucket
  <2> HIDE DEF new
  <2>2. new \in BucketRecord /\ new # None
    <3>1. new \in BucketRecord
      BY <2>1 DEF SoundBucket
    <3> QED BY <3>1, NoneIsNoBucket
  <2>3. WithinRate(new, m[b], elapsed)
    BY <1>1, <1>2, <1>3, <2>1 DEF WithinRate
  <2>4. /\ objects \in [Buckets -> BucketRecord \cup {None}]
        /\ objects[b] = new /\ \A c \in Buckets \ {b} : objects[c] = bucket[c]
    BY <1>1, <2>2
  <2>5. ASSUME NEW c \in Live
        PROVE  /\ SoundBucket(objects[c])
               /\ objects[c].key = bucket[c].key /\ objects[c].rate = bucket[c].rate
               /\ WithinRate(objects[c], m[c], elapsed)
    <3>1. CASE c = b
      BY <2>1, <2>3, <2>4, <3>1
    <3>2. CASE c # b
      <4>1. c \in Buckets \ {b} /\ objects[c] = bucket[c] /\ m[c] = taken[c]
        BY <1>3, <2>4, <3>2 DEF Live
      <4> QED BY <4>1 DEF BucketsSound, InStock
    <3> QED BY <3>1, <3>2
  <2>6. \A c \in Buckets : objects[c] # None <=> bucket[c] # None
    BY <1>1, <2>2, <2>4
  <2> HIDE DEF objects
  <2>7. Replacement(objects, m, elapsed)
    BY <2>4, <2>5, <2>6 DEF Replacement
  <2> QED BY <2>7 DEF objects, new
<1>4. Replacement(Refilled(b), taken, elapsed)
  <2> DEFINE n == Available(b)
  <2>1. n \in 0..bucket[b].cap
    BY <1>2
  <2> HIDE DEF n
  <2>2. taken[b] * Cost + n = taken[b] * Cost + Available(b)
    BY DEF n
  <2>3. Replacement([bucket EXCEPT ![b] = [@ EXCEPT !.tokens = n, !.idle = 0]], taken, elapsed)
    BY <1>1, <1>3, <2>1, <2>2
  <2> QED BY <2>3 DEF n, Refilled
<1>5. ASSUME Available(b) >= Cost
      PROVE  Replacement(Drained(b), [taken EXCEPT ![b] = @ + 1], elapsed)
  <2> DEFINE n == Available(b) - Cost
             m == [taken EXCEPT ![b] = @ + 1]
  <2>1. n \in 0..bucket[b].cap
    BY <1>2, <1>5, Settings
  <2>2. /\ m \in [Buckets -> Nat] /\ m[b] = taken[b] + 1
        /\ \A c \in Buckets \ {b} : m[c] = taken[c]
    BY <1>1
  <2>3. m[b] * Cost + n = taken[b] * Cost + Available(b)
    <3>1. \A i, j \in Nat : (i + 1) * j = i * j + j /\ i * j \in Nat
      OBVIOUS
    <3>2. taken[b] \in Nat
      BY <1>1
    <3> QED BY <1>2, <2>2, <3>1, <3>2, Settings
  <2> HIDE DEF n, m
  <2>4. Replacement([bucket EXCEPT ![b] = [@ EXCEPT !.tokens = n, !.idle = 0]], m, elapsed)
    BY <1>3, <2>1, <2>2, <2>3
  <2> QED BY <2>4 DEF n, m, Drained
<1> QED BY <1>4, <1>5

-----------------------------------------------------------------------------
(* Who refers to which bucket *)

\* A request that is over leaves behind what somebody refers to.
LEMMA FinishKeepsReferences ==
  ASSUME Shapes, Sleeps, Referred, OneCurrentBucketPerKey,
         NEW r \in Requests, NEW objects, Replacement(objects, taken', elapsed'),
         Finish(r, objects), UNCHANGED <<backend, rate, reload, table, elapsed>>,
         taken' \in [Buckets -> Nat]
  PROVE  Shapes' /\ Sleeps' /\ BucketsSound' /\ InStock' /\ Referred' /\ OneCurrentBucketPerKey'
<1> DEFINE used == {table[k] : k \in Keys} \cup {held[q] : q \in Requests \ {r}}
<1>1. /\ pc' = [pc EXCEPT ![r] = "new"] /\ at' = [at EXCEPT ![r] = 1]
      /\ held' = [held EXCEPT ![r] = None] /\ patient' = [patient EXCEPT ![r] = FALSE]
      /\ nap' = [nap EXCEPT ![r] = 0] /\ delay' = [delay EXCEPT ![r] = 1]
      /\ waited' = [waited EXCEPT ![r] = 0]
      /\ bucket' = [b \in Buckets |-> IF b \in used THEN objects[b] ELSE None]
      /\ retired' = retired \cap used
  BY DEF Finish
<1>2. Shapes'
  <2>1. 1 \in DOMAIN KeysOf[r]
    BY RateAssumption
  <2> QED BY <1>1, <2>1 DEF Shapes
<1>3. Sleeps'
  BY <1>1, Settings DEF Sleeps
<1>4. /\ \A k \in Keys : table[k] \in used
      /\ \A q \in Requests \ {r} : held[q] \in used
  OBVIOUS
<1> HIDE DEF used
<1>5. /\ BucketsSound' /\ InStock' /\ Live' = Live \cap used
      /\ \A b \in Live' : bucket'[b].key = bucket[b].key /\ bucket'[b].rate = bucket[b].rate
  BY <1>1, ReplacementKept
<1>6. /\ held' \in [Requests -> Buckets \cup {None}] /\ held'[r] = None /\ pc'[r] = "new"
      /\ \A q \in Requests \ {r} : held'[q] = held[q] /\ at'[q] = at[q] /\ pc'[q] = pc[q]
  BY <1>1 DEF Referred, Shapes
<1>7. Referred'
  <2>1. retired' \subseteq Live'
    BY <1>1, <1>5 DEF Referred
  <2>2. ASSUME NEW k \in Keys, table[k] # None
        PROVE  table[k] \in Live' \ retired' /\ bucket'[table[k]].key = k
    <3>1. table[k] \in Live \ retired /\ bucket[table[k]].key = k
      BY <2>2 DEF Referred
    <3> QED BY <1>1, <1>5, <1>4, <3>1
  <2>3. ASSUME NEW q \in Requests
        PROVE  /\ held'[q] # None => held'[q] \in Live'
               /\ pc'[q] \in {"take", "nap"} <=> held'[q] # None
    <3>1. CASE q = r
      BY <1>6, <3>1
    <3>2. CASE q # r
      BY <1>5, <1>4, <1>6, <3>2 DEF Referred
    <3> QED BY <3>1, <3>2
  <2>4. table' \in [Keys -> Buckets \cup {None}]
    BY DEF Referred
  <2> QED BY <1>6, <2>1, <2>2, <2>3, <2>4 DEF Referred
<1>8. OneCurrentBucketPerKey'
  <2>1. ASSUME ~reload', NEW h \in Hosts, table'[h] # None
        PROVE  bucket'[table'[h]].rate = rate'
    <3>1. h \in Keys /\ table[h] # None /\ bucket[table[h]].rate = rate
      BY <2>1, Settings DEF OneCurrentBucketPerKey
    <3>2. table[h] \in Live'
      BY <1>7, <3>1 DEF Referred
    <3> QED BY <1>5, <3>1, <3>2
  <2>2. ASSUME NEW q \in Requests, held'[q] # None
        PROVE  held'[q] = table'[Key(q)'] \/ held'[q] \in retired'
    <3>1. q # r
      BY <1>6, <2>2
    <3>2. held'[q] = held[q] /\ Key(q)' = Key(q) /\ held[q] \in used
      BY <1>4, <1>6, <3>1 DEF Key
    <3>3. held[q] = table[Key(q)] \/ held[q] \in retired
      BY <2>2, <3>2 DEF OneCurrentBucketPerKey
    <3> QED BY <1>1, <3>2, <3>3
  <2> QED BY <2>1, <2>2 DEF OneCurrentBucketPerKey
<1> QED BY <1>2, <1>3, <1>5, <1>7, <1>8

\* Steps that make and drop no bucket: a request that finds one finds the one in the
\* table.
LEMMA StayKeepsReferences ==
  ASSUME Shapes, Referred, OneCurrentBucketPerKey,
         Replacement(bucket', taken', elapsed'), UNCHANGED <<table, retired>>,
         held' \in [Requests -> Buckets \cup {None}],
         \A q \in Requests :
           /\ pc'[q] \in {"take", "nap"} <=> held'[q] # None
           /\ \/ held'[q] = held[q] /\ at'[q] = at[q]
              \/ held'[q] = None
              \/ held'[q] = table[Key(q)] /\ at'[q] = at[q],
         reload' = FALSE => reload = FALSE /\ rate' = rate
  PROVE  BucketsSound' /\ InStock' /\ Referred' /\ OneCurrentBucketPerKey'
<1>1. bucket' = [b \in Buckets |-> IF b \in Buckets THEN bucket'[b] ELSE None]
  BY DEF Replacement
<1>2. /\ BucketsSound' /\ InStock' /\ Live' = Live \cap Buckets
      /\ \A b \in Live' : bucket'[b].key = bucket[b].key /\ bucket'[b].rate = bucket[b].rate
  BY <1>1, ReplacementKept
<1>3. Live' = Live
  BY <1>2 DEF Live
<1>4. \A q \in Requests : KeysOf[q][at[q]] \in Keys
  BY RateAssumption DEF Shapes
<1>5. Referred'
  <2>1. ASSUME NEW q \in Requests, held'[q] # None
        PROVE  held'[q] \in Live'
    BY <1>3, <1>4, <2>1 DEF Referred, Key
  <2>2. /\ retired' \subseteq Live' /\ table' \in [Keys -> Buckets \cup {None}]
        /\ \A k \in Keys : table'[k] # None =>
             table'[k] \in Live' \ retired' /\ bucket'[table'[k]].key = k
    BY <1>2, <1>3 DEF Referred
  <2> QED BY <2>1, <2>2 DEF Referred
<1>6. ASSUME NEW q \in Requests, held'[q] # None
      PROVE  held'[q] = table'[Key(q)'] \/ held'[q] \in retired'
  BY <1>6 DEF OneCurrentBucketPerKey, Key
<1>7. ASSUME ~reload', NEW h \in Hosts, table'[h] # None
      PROVE  bucket'[table'[h]].rate = rate'
  <2>1. h \in Keys /\ table[h] # None /\ bucket[table[h]].rate = rate /\ rate' = rate
    BY <1>7, Settings DEF OneCurrentBucketPerKey, Shapes
  <2>2. table[h] \in Live'
    BY <1>3, <2>1 DEF Referred
  <2> QED BY <1>2, <2>1, <2>2
<1> QED BY <1>2, <1>5, <1>6, <1>7 DEF OneCurrentBucketPerKey

\* A request is at one of its keys.
LEMMA Places ==
  ASSUME Shapes, NEW r \in Requests
  PROVE  /\ at[r] \in 1..Len(KeysOf[r]) /\ Len(KeysOf[r]) \in Nat
         /\ Key(r) \in Keys /\ KeysOf[r] \in Seq(Keys)
BY RateAssumption DEF Shapes, Key

\* A bucket that is made under the lock, where the table has none, is the only one.
LEMMA MakeKeepsReferences ==
  ASSUME Shapes, BucketsSound, InStock, Referred, OneCurrentBucketPerKey,
         NEW r \in Requests, NEW b \in Buckets, table[Key(r)] = None, Make(r, b),
         pc' = [pc EXCEPT ![r] = "take"],
         UNCHANGED <<backend, rate, reload, at, patient, elapsed, retired>>
  PROVE  Shapes' /\ BucketsSound' /\ InStock' /\ Referred' /\ OneCurrentBucketPerKey'
<1> DEFINE k == Key(r)
           new == NewBucket(k)
<1>1. /\ bucket[b] = None /\ b \notin Live /\ k \in Keys
      /\ bucket' = [bucket EXCEPT ![b] = new] /\ table' = [table EXCEPT ![k] = b]
      /\ held' = [held EXCEPT ![r] = b] /\ taken' = [taken EXCEPT ![b] = 0]
  BY Places DEF Make, Live
<1>2. /\ new.key = k /\ SoundBucket(new) /\ WithinRate(new, 0, elapsed)
      /\ k \in Hosts => new.rate = rate
  <2>1. elapsed \in Nat /\ rate \in Rates
    BY Settings DEF Shapes
  <2> DEFINE cap == IF k \in Hosts THEN Burst ELSE OtherBurst
             speed == IF k \in Hosts THEN rate ELSE OtherRate
  <2>2. /\ cap \in {Burst, OtherBurst} /\ cap \in Nat /\ cap <= Burst + OtherBurst
        /\ speed \in Rates \cup {OtherRate} /\ speed \in Nat
        /\ Burst + OtherBurst \in Nat
    BY <2>1, Settings
  <2>3. new = [key |-> k, rate |-> speed, cap |-> cap, tokens |-> cap, idle |-> 0]
    BY DEF NewBucket
  <2> HIDE DEF cap, speed, new
  <2>4. new \in BucketRecord
    BY <1>1, <2>2, <2>3 DEF BucketRecord
  <2>5. SoundBucket(new)
    BY <2>2, <2>3, <2>4 DEF SoundBucket
  <2>6. WithinRate(new, 0, elapsed)
    <3>1. \A m, n \in Nat : m * n \in Nat /\ 0 * n = 0
      OBVIOUS
    <3>2. speed * elapsed \in Nat /\ 0 * speed = 0 /\ 0 * Cost = 0
      BY <2>1, <2>2, <3>1, Settings
    <3> QED BY <2>2, <2>3, <3>2 DEF WithinRate, Filled, Least
  <2> QED BY <2>3, <2>5, <2>6 DEF speed
<1>3. new \in BucketRecord /\ new # None /\ b # None
  <2>1. new \in BucketRecord
    BY <1>2 DEF SoundBucket
  <2> QED BY <2>1, NoneIsNoBucket, RateAssumption
<1> HIDE DEF k, new
<1>4. /\ bucket' \in [Buckets -> BucketRecord \cup {None}]
      /\ bucket'[b] = new /\ \A c \in Buckets \ {b} : bucket'[c] = bucket[c]
  BY <1>1, <1>3 DEF BucketsSound
<1>5. Live' = Live \cup {b} /\ \A c \in Live : bucket'[c] = bucket[c] /\ c # b
  BY <1>1, <1>3, <1>4 DEF Live
<1>6. taken' \in [Buckets -> Nat] /\ taken'[b] = 0 /\ \A c \in Live : taken'[c] = taken[c]
  BY <1>1 DEF Shapes, Live
<1>7. Shapes'
  BY <1>6 DEF Shapes
<1>8. BucketsSound'
  BY <1>2, <1>4, <1>5 DEF BucketsSound
<1>9. InStock'
  BY <1>2, <1>4, <1>5, <1>6 DEF InStock
<1>10. /\ table' \in [Keys -> Buckets \cup {None}] /\ table'[k] = b
       /\ \A j \in Keys \ {k} : table'[j] = table[j]
       /\ held' \in [Requests -> Buckets \cup {None}] /\ held'[r] = b /\ pc'[r] = "take"
       /\ \A q \in Requests \ {r} : held'[q] = held[q] /\ pc'[q] = pc[q]
  BY <1>1 DEF Referred, Shapes
<1>11. Referred'
  <2>1. retired' \subseteq Live' /\ b \notin retired'
    BY <1>1, <1>5 DEF Referred
  <2>2. ASSUME NEW j \in Keys, table'[j] # None
        PROVE  table'[j] \in Live' \ retired' /\ bucket'[table'[j]].key = j
    <3>1. CASE j = k
      BY <1>2, <1>4, <1>5, <1>10, <2>1, <3>1
    <3>2. CASE j # k
      BY <1>5, <1>10, <2>2, <3>2 DEF Referred
    <3> QED BY <3>1, <3>2
  <2>3. ASSUME NEW q \in Requests
        PROVE  /\ held'[q] # None => held'[q] \in Live'
               /\ pc'[q] \in {"take", "nap"} <=> held'[q] # None
    <3>1. CASE q = r
      BY <1>3, <1>5, <1>10, <3>1
    <3>2. CASE q # r
      BY <1>5, <1>10, <3>2 DEF Referred
    <3> QED BY <3>1, <3>2
  <2> QED BY <1>10, <2>1, <2>2, <2>3 DEF Referred
<1>12. ASSUME NEW q \in Requests, held'[q] # None
       PROVE  held'[q] = table'[Key(q)'] \/ held'[q] \in retired'
  <2>1. Key(q)' = Key(q) /\ Key(q) \in Keys
    BY Places DEF Key
  <2>2. CASE q = r
    BY <1>10, <2>1, <2>2 DEF k
  <2>3. CASE q # r
    <3>1. held'[q] = held[q] /\ (held[q] = table[Key(q)] \/ held[q] \in retired)
      BY <1>10, <1>12, <2>3 DEF OneCurrentBucketPerKey
    <3>2. Key(q) # k \/ held[q] \in retired
      BY <1>12, <3>1 DEF k
    <3> QED BY <1>10, <2>1, <3>1, <3>2
  <2> QED BY <2>2, <2>3
<1>13. ASSUME ~reload', NEW h \in Hosts, table'[h] # None
       PROVE  bucket'[table'[h]].rate = rate'
  <2>1. h \in Keys
    BY Settings
  <2>2. CASE h = k
    BY <1>2, <1>4, <1>10, <2>2
  <2>3. CASE h # k
    <3>1. table'[h] = table[h] /\ bucket[table[h]].rate = rate /\ table[h] \in Live
      BY <1>10, <1>13, <2>1, <2>3 DEF OneCurrentBucketPerKey, Referred
    <3> QED BY <1>5, <3>1
  <2> QED BY <2>2, <2>3
<1> QED BY <1>7, <1>8, <1>9, <1>11, <1>12, <1>13 DEF OneCurrentBucketPerKey

\* A reload takes the devices' buckets out of the table, and leaves those that
\* requests have found to them.
LEMMA ClearKeepsReferences ==
  ASSUME Shapes, BucketsSound, InStock, Referred, OneCurrentBucketPerKey, ClearBuckets
  PROVE  BucketsSound' /\ InStock' /\ Referred' /\ OneCurrentBucketPerKey'
<1> DEFINE used == Buckets \ (HostBuckets \ Held)
<1>1. /\ table' = [k \in Keys |-> IF k \in Hosts THEN None ELSE table[k]]
      /\ retired' = retired \cup (HostBuckets \cap Held)
      /\ bucket' = [b \in Buckets |-> IF b \in used THEN bucket[b] ELSE None]
      /\ UNCHANGED <<rate, pc, at, held, elapsed, taken>> /\ reload' = FALSE
  BY DEF ClearBuckets, request, watch
<1>2. /\ \A b \in Live : b \in used \/ (b \in HostBuckets /\ b \notin Held)
      /\ \A b \in used : b \notin HostBuckets \/ b \in Held
  BY DEF Live
<1> HIDE DEF used
<1>3. Replacement(bucket, taken', elapsed')
  BY <1>1, BucketsReplaceThemselves
<1>4. /\ BucketsSound' /\ InStock' /\ Live' = Live \cap used
      /\ \A b \in Live' : bucket'[b].key = bucket[b].key /\ bucket'[b].rate = bucket[b].rate
  BY <1>1, <1>3, ReplacementKept
<1>5. \A b \in HostBuckets : b \in Live \ retired /\ bucket[b].key \in Hosts
  BY Settings DEF HostBuckets, Referred
<1>6. Referred'
  <2>1. retired' \subseteq Live'
    BY <1>1, <1>2, <1>4, <1>5 DEF Referred
  <2>2. ASSUME NEW k \in Keys, table'[k] # None
        PROVE  table'[k] \in Live' \ retired' /\ bucket'[table'[k]].key = k
    <3>1. k \notin Hosts /\ table'[k] = table[k]
      BY <1>1, <2>2
    <3>2. table[k] \in Live \ retired /\ bucket[table[k]].key = k
      BY <2>2, <3>1 DEF Referred
    <3>3. table[k] \notin HostBuckets
      BY <1>5, <3>1, <3>2
    <3> QED BY <1>1, <1>2, <1>4, <3>1, <3>2, <3>3
  <2>3. ASSUME NEW q \in Requests
        PROVE  /\ held'[q] # None => held'[q] \in Live'
               /\ pc'[q] \in {"take", "nap"} <=> held'[q] # None
    <3>1. held[q] # None => held[q] \in Live /\ held[q] \in Held
      BY DEF Referred, Held
    <3> QED BY <1>1, <1>2, <1>4, <3>1 DEF Referred
  <2>4. table' \in [Keys -> Buckets \cup {None}] /\ held' \in [Requests -> Buckets \cup {None}]
    BY <1>1 DEF Referred
  <2> QED BY <2>1, <2>2, <2>3, <2>4 DEF Referred
<1>7. ASSUME NEW q \in Requests, held'[q] # None
      PROVE  held'[q] = table'[Key(q)'] \/ held'[q] \in retired'
  <2>1. /\ Key(q)' = Key(q) /\ Key(q) \in Keys /\ held'[q] = held[q] /\ held[q] \in Held
        /\ (held[q] = table[Key(q)] \/ held[q] \in retired)
    BY <1>1, <1>7, Places DEF Key, OneCurrentBucketPerKey, Held
  <2>2. CASE held[q] = table[Key(q)] /\ Key(q) \in Hosts
    <3>1. held[q] \in HostBuckets
      BY <1>1, <1>7, <2>2 DEF HostBuckets
    <3> QED BY <1>1, <2>1, <3>1
  <2>3. CASE held[q] = table[Key(q)] /\ Key(q) \notin Hosts
    BY <1>1, <2>1, <2>3
  <2>4. CASE held[q] \in retired
    BY <1>1, <2>1, <2>4
  <2> QED BY <2>1, <2>2, <2>3, <2>4
<1>8. \A h \in Hosts : table'[h] = None
  BY <1>1, Settings
<1> QED BY <1>4, <1>6, <1>7, <1>8 DEF OneCurrentBucketPerKey

-----------------------------------------------------------------------------
(* The steps *)

\* The invariant without the counters in Redis.
LocalInv ==
  /\ Shapes /\ Sleeps /\ BucketsSound /\ InStock /\ Referred
  /\ OneCurrentBucketPerKey

\* What each step of a request does to buckets and to who refers to them.
LEMMA RequestsKeepLocal ==
  ASSUME LocalInv, NEW r \in Requests
  PROVE  /\ \A p \in BOOLEAN : Arrive(r, p) => LocalInv'
         /\ Fetch(r) \/ Create(r) => LocalInv'
         /\ Take(r) \/ Refuse(r) \/ Nap(r) => LocalInv'
         /\ Check(r) \/ Unchecked(r) => LocalInv'
<1> USE DEF LocalInv
<1>1. Replacement(bucket, taken, elapsed)
  BY BucketsReplaceThemselves
<1>2. /\ pc \in [Requests -> {"new", "fetch", "create", "take", "nap"}]
      /\ held \in [Requests -> Buckets \cup {None}] /\ at \in [Requests -> Nat]
      /\ taken \in [Buckets -> Nat]
      /\ \A q \in Requests : pc[q] \in {"take", "nap"} <=> held[q] # None
  BY DEF Shapes, Referred
<1>3. Key(r) \in Keys /\ at[r] \in 1..Len(KeysOf[r]) /\ Len(KeysOf[r]) \in Nat
  BY Places
<1>4. Asking(r) => held[r] \in Live /\ held[r] # None
  BY <1>2 DEF Asking, Referred
<1>5. ASSUME NEW p \in BOOLEAN, Arrive(r, p)
      PROVE  LocalInv'
  <2>1. /\ pc' = [pc EXCEPT ![r] = "fetch"] /\ pc[r] = "new"
        /\ patient' = [patient EXCEPT ![r] = p /\ MaxWait > 0]
        /\ UNCHANGED <<backend, rate, reload, table, bucket, at, held, nap, delay, waited,
                       elapsed, taken, retired>>
    BY <1>5 DEF Arrive, watch
  <2>2. Shapes' /\ Sleeps'
    BY <2>1 DEF Shapes, Sleeps
  <2>3. \A q \in Requests :
          (pc'[q] \in {"take", "nap"} <=> held'[q] # None) /\ held'[q] = held[q] /\ at'[q] = at[q]
    BY <1>2, <2>1
  <2> QED BY <1>1, <1>2, <2>1, <2>2, <2>3, StayKeepsReferences
<1>6. ASSUME Fetch(r)
      PROVE  LocalInv'
  <2>1. /\ pc[r] = "fetch" /\ held' = [held EXCEPT ![r] = table[Key(r)]]
        /\ pc' = [pc EXCEPT ![r] = IF table[Key(r)] = None THEN "create" ELSE "take"]
        /\ UNCHANGED <<backend, rate, reload, table, bucket, at, patient, nap, delay, waited,
                       elapsed, taken, retired>>
    BY <1>6 DEF Fetch, watch
  <2>2. Shapes' /\ Sleeps'
    BY <2>1 DEF Shapes, Sleeps
  <2>3. table[Key(r)] \in Buckets \cup {None}
    BY <1>3 DEF Referred
  <2>4. held' \in [Requests -> Buckets \cup {None}]
    BY <1>2, <2>1, <2>3
  <2>5. \A q \in Requests :
          /\ pc'[q] \in {"take", "nap"} <=> held'[q] # None
          /\ held'[q] = held[q] \/ held'[q] = table[Key(q)]
          /\ at'[q] = at[q]
    BY <1>2, <2>1
  <2> QED BY <1>1, <2>1, <2>2, <2>4, <2>5, StayKeepsReferences
<1>7. ASSUME Create(r)
      PROVE  LocalInv'
  <2>1. /\ pc[r] = "create" /\ pc' = [pc EXCEPT ![r] = "take"]
        /\ UNCHANGED <<backend, rate, reload, at, patient, nap, delay, waited, elapsed, retired>>
    BY <1>7 DEF Create
  <2>2. CASE table[Key(r)] = None
    <3>1. PICK b \in Buckets : Make(r, b)
      BY <1>7, <2>2 DEF Create
    <3>2. Sleeps'
      BY <2>1 DEF Sleeps
    <3> QED BY <2>1, <2>2, <3>1, <3>2, MakeKeepsReferences
  <2>3. CASE table[Key(r)] # None
    <3>1. held' = [held EXCEPT ![r] = table[Key(r)]] /\ UNCHANGED <<table, bucket, taken>>
      BY <1>7, <2>3 DEF Create
    <3>2. Shapes' /\ Sleeps'
      BY <2>1, <3>1 DEF Shapes, Sleeps
    <3>3. table[Key(r)] \in Buckets \cup {None}
      BY <1>3 DEF Referred
    <3>4. held' \in [Requests -> Buckets \cup {None}]
      BY <1>2, <3>1, <3>3
    <3>5. \A q \in Requests :
            /\ pc'[q] \in {"take", "nap"} <=> held'[q] # None
            /\ held'[q] = held[q] \/ held'[q] = table[Key(q)]
            /\ at'[q] = at[q]
      BY <1>2, <2>1, <2>3, <3>1
    <3> QED BY <1>1, <2>1, <3>1, <3>2, <3>4, <3>5, StayKeepsReferences
  <2> QED BY <2>2, <2>3
<1>8. ASSUME Take(r)
      PROVE  LocalInv'
  <2>1. /\ held[r] \in Live /\ Available(held[r]) >= Cost
        /\ taken' = [taken EXCEPT ![held[r]] = @ + 1] /\ taken' \in [Buckets -> Nat]
        /\ UNCHANGED <<backend, rate, reload, table, elapsed>>
    BY <1>2, <1>4, <1>8 DEF Take
  <2>2. Replacement(Drained(held[r]), taken', elapsed')
    BY <2>1, AskedBucket
  <2>3. CASE OnDevice(r)
    <3>1. Finish(r, Drained(held[r]))
      BY <1>8, <2>3 DEF Take
    <3> QED BY <2>1, <2>2, <3>1, FinishKeepsReferences
  <2>4. CASE ~OnDevice(r)
    <3>1. /\ bucket' = Drained(held[r])
          /\ at' = [at EXCEPT ![r] = @ + 1] /\ pc' = [pc EXCEPT ![r] = "fetch"]
          /\ held' = [held EXCEPT ![r] = None]
          /\ UNCHANGED <<patient, nap, delay, waited, retired>>
      BY <1>8, <2>4 DEF Take
    <3>2. at[r] + 1 \in DOMAIN KeysOf[r]
      <4>1. at[r] + 1 \in 1..Len(KeysOf[r])
        BY <1>3, <2>4 DEF OnDevice
      <4> QED BY <4>1, Places
    <3>3. Shapes' /\ Sleeps'
      <4>1. /\ at' \in [Requests -> Nat] /\ at'[r] = at[r] + 1
            /\ \A q \in Requests \ {r} : at'[q] = at[q]
        BY <1>2, <1>3, <3>1
      <4>2. \A q \in Requests : at'[q] \in DOMAIN KeysOf[q]
        BY <3>2, <4>1 DEF Shapes
      <4>3. pc' \in [Requests -> {"new", "fetch", "create", "take", "nap"}]
        BY <1>2, <3>1
      <4>4. Sleeps'
        BY <3>1 DEF Sleeps
      <4> QED BY <2>1, <3>1, <4>1, <4>2, <4>3, <4>4 DEF Shapes
    <3>4. held' \in [Requests -> Buckets \cup {None}]
      BY <1>2, <3>1
    <3>5. \A q \in Requests :
            /\ pc'[q] \in {"take", "nap"} <=> held'[q] # None
            /\ (held'[q] = held[q] /\ at'[q] = at[q]) \/ held'[q] = None
      BY <1>2, <3>1
    <3> QED BY <2>1, <2>2, <3>1, <3>3, <3>4, <3>5, StayKeepsReferences
  <2> QED BY <2>3, <2>4
<1>9. ASSUME Refuse(r)
      PROVE  LocalInv'
  <2>1. /\ held[r] \in Live /\ Finish(r, Refilled(held[r]))
        /\ UNCHANGED <<backend, rate, reload, table, elapsed, taken>>
    BY <1>4, <1>9 DEF Refuse, watch
  <2>2. Replacement(Refilled(held[r]), taken', elapsed')
    BY <2>1, AskedBucket
  <2> QED BY <1>2, <2>1, <2>2, FinishKeepsReferences
<1>10. ASSUME Nap(r)
       PROVE  LocalInv'
  <2>1. /\ held[r] \in Live /\ held[r] # None /\ bucket' = Refilled(held[r])
        /\ pc' = [pc EXCEPT ![r] = "nap"] /\ waited[r] < MaxWait
        /\ nap' = [nap EXCEPT ![r] = Least(delay[r], MaxWait - waited[r])]
        /\ waited' = [waited EXCEPT ![r] = @ + Least(delay[r], MaxWait - waited[r])]
        /\ delay' = [delay EXCEPT ![r] = Least(2 * @, MaxNap)]
        /\ UNCHANGED <<backend, rate, reload, table, at, held, patient, elapsed, taken, retired>>
    BY <1>4, <1>10 DEF Nap, watch
  <2>2. Shapes'
    BY <2>1 DEF Shapes
  <2>3. Sleeps'
    <3> DEFINE d == Least(delay[r], MaxWait - waited[r])
    <3>1. delay[r] \in 1..MaxNap /\ waited[r] \in 0..MaxWait
      BY DEF Sleeps
    <3>2. d \in 0..MaxNap /\ waited[r] + d \in 0..MaxWait
      BY <2>1, <3>1, Settings DEF Least
    <3>3. Least(2 * delay[r], MaxNap) \in 1..MaxNap
      BY <3>1, Settings DEF Least
    <3>4. /\ nap' = [nap EXCEPT ![r] = d] /\ waited' = [waited EXCEPT ![r] = waited[r] + d]
          /\ delay' = [delay EXCEPT ![r] = Least(2 * delay[r], MaxNap)]
      BY <2>1
    <3> HIDE DEF d
    <3> QED BY <3>2, <3>3, <3>4 DEF Sleeps
  <2>4. Replacement(bucket', taken', elapsed')
    BY <2>1, AskedBucket
  <2>5. \A q \in Requests :
          /\ pc'[q] \in {"take", "nap"} <=> held'[q] # None
          /\ held'[q] = held[q] /\ at'[q] = at[q]
    BY <1>2, <2>1
  <2> QED BY <1>2, <2>1, <2>2, <2>3, <2>4, <2>5, StayKeepsReferences
<1>11. ASSUME Check(r) \/ Unchecked(r)
       PROVE  LocalInv'
  <2>1. Finish(r, bucket) /\ UNCHANGED <<backend, rate, reload, table, elapsed, taken>>
    BY <1>11 DEF Check, Unchecked, watch
  <2> QED BY <1>1, <1>2, <2>1, FinishKeepsReferences
<1> QED BY <1>5, <1>6, <1>7, <1>8, <1>9, <1>10, <1>11

\* Reloads, time, and a watch that begins anew.
LEMMA OthersKeepLocal ==
  ASSUME LocalInv, (\E n \in Rates : SetRate(n)) \/ ClearBuckets \/ Tick \/ Watch
  PROVE  LocalInv'
<1> USE DEF LocalInv
<1>1. Replacement(bucket, taken, elapsed)
  BY BucketsReplaceThemselves
<1>2. \A q \in Requests : pc[q] \in {"take", "nap"} <=> held[q] # None
  BY DEF Referred
<1>3. CASE \E n \in Rates : SetRate(n)
  <2>1. /\ rate' \in Rates /\ reload' = TRUE
        /\ UNCHANGED <<backend, table, bucket, request, watch, retired>>
    BY <1>3 DEF SetRate
  <2>2. Shapes' /\ Sleeps'
    BY <2>1 DEF Shapes, Sleeps, request, watch
  <2>3. held' \in [Requests -> Buckets \cup {None}]
    BY <2>1 DEF Referred, request
  <2> QED BY <1>1, <1>2, <2>1, <2>2, <2>3, StayKeepsReferences DEF request, watch
<1>4. CASE ClearBuckets
  <2>1. Shapes' /\ Sleeps'
    BY <1>4 DEF ClearBuckets, Shapes, Sleeps, request, watch
  <2> QED BY <1>4, <2>1, ClearKeepsReferences
<1>5. CASE Tick
  <2>1. /\ elapsed' = elapsed + 1 /\ elapsed < MaxWatch /\ elapsed \in Nat
        /\ bucket' = [b \in Buckets |->
             IF bucket[b] = None THEN None
             ELSE [bucket[b] EXCEPT !.idle = IF Available(b) < bucket[b].cap THEN @ + 1 ELSE @]]
        /\ nap' = [r \in Requests |-> IF nap[r] > 0 THEN nap[r] - 1 ELSE 0]
        /\ UNCHANGED <<backend, rate, reload, table, pc, at, held, patient, delay, waited,
                       taken, retired>>
    BY <1>5, Settings DEF Tick, Shapes
  <2>2. Shapes'
    BY <2>1, Settings DEF Shapes
  <2>3. Sleeps'
    BY <2>1, Settings DEF Sleeps
  <2>4. Replacement(bucket', taken', elapsed')
    <3> DEFINE Older(b) == [b EXCEPT !.idle = IF Filled(b) < b.cap THEN @ + 1 ELSE @]
    <3>1. \A b \in Buckets : bucket'[b] = IF b \in Live THEN Older(bucket[b]) ELSE None
      BY <2>1, AvailableIsFilled DEF Live
    <3>2. ASSUME NEW b \in Live
          PROVE  /\ SoundBucket(Older(bucket[b])) /\ Older(bucket[b]) # None
                 /\ Older(bucket[b]).key = bucket[b].key /\ Older(bucket[b]).rate = bucket[b].rate
                 /\ WithinRate(Older(bucket[b]), taken[b], elapsed + 1)
      <4> DEFINE old == bucket[b]
                 new == Older(bucket[b])
      <4>1. SoundBucket(old) /\ WithinRate(old, taken[b], elapsed)
        BY DEF BucketsSound, InStock
      <4>2. /\ SoundBucket(new) /\ new.key = old.key /\ new.rate = old.rate /\ new.cap = old.cap
            /\ Filled(new) <= Filled(old) + old.rate
        BY <4>1, AgeBucket
      <4>3. new # None
        BY <4>2, NoneIsNoBucket DEF SoundBucket
      <4>4. /\ old.rate \in Nat /\ old.cap \in Nat /\ Filled(old) \in Nat /\ Filled(new) \in Nat
            /\ taken[b] \in Nat
        BY <4>1, <4>2, BucketFields DEF Shapes, Live
      <4> HIDE DEF old, new
      <4>5. /\ old.rate * (elapsed + 1) = old.rate * elapsed + old.rate
            /\ old.rate * elapsed \in Nat /\ taken[b] * Cost \in Nat
        <5>1. \A i, j \in Nat : i * (j + 1) = i * j + i /\ i * j \in Nat
          OBVIOUS
        <5> QED BY <2>1, <4>4, <5>1, Settings
      <4>6. WithinRate(new, taken[b], elapsed + 1)
        BY <4>1, <4>2, <4>4, <4>5 DEF WithinRate
      <4> QED BY <4>2, <4>3, <4>6 DEF old, new
    <3> HIDE DEF Older
    <3>3. bucket' \in [Buckets -> BucketRecord \cup {None}]
      <4>1. \A b \in Buckets : bucket'[b] \in BucketRecord \cup {None}
        BY <3>1, <3>2 DEF SoundBucket
      <4> QED BY <2>1, <4>1
    <3>4. \A b \in Buckets : bucket'[b] # None <=> bucket[b] # None
      BY <3>1, <3>2 DEF Live
    <3>5. \A b \in Live : bucket'[b] = Older(bucket[b])
      BY <3>1 DEF Live
    <3>6. ASSUME NEW b \in Live
          PROVE  /\ SoundBucket(bucket'[b])
                 /\ bucket'[b].key = bucket[b].key /\ bucket'[b].rate = bucket[b].rate
                 /\ WithinRate(bucket'[b], taken'[b], elapsed')
      BY <2>1, <3>2, <3>5
    <3> QED BY <3>3, <3>4, <3>6 DEF Replacement
  <2>5. held' \in [Requests -> Buckets \cup {None}]
    BY <2>1 DEF Referred
  <2> QED BY <1>2, <2>1, <2>2, <2>3, <2>4, <2>5, StayKeepsReferences
<1>6. CASE Watch
  <2>1. /\ elapsed' = 0 /\ taken' = [b \in Buckets |-> 0]
        /\ UNCHANGED <<backend, rate, reload, table, bucket, request, retired>>
    BY <1>6 DEF Watch
  <2>2. Shapes' /\ Sleeps'
    BY <2>1, Settings DEF Shapes, Sleeps, request
  <2>3. ASSUME NEW b \in Live
        PROVE  WithinRate(bucket[b], taken'[b], elapsed')
    <3>1. SoundBucket(bucket[b]) /\ taken'[b] = 0
      BY <2>1 DEF BucketsSound, Live
    <3>2. /\ bucket[b].rate \in Nat /\ bucket[b].cap \in Nat /\ Filled(bucket[b]) \in Nat
          /\ Filled(bucket[b]) <= bucket[b].cap
      BY <3>1, BucketFields
    <3>3. bucket[b].rate * 0 = 0 /\ 0 * Cost = 0
      BY <3>2, Settings
    <3> QED BY <2>1, <3>1, <3>2, <3>3 DEF WithinRate
  <2>4. Replacement(bucket', taken', elapsed')
    BY <1>1, <2>1, <2>3 DEF Replacement
  <2>5. held' \in [Requests -> Buckets \cup {None}]
    BY <2>1 DEF Referred, request
  <2> QED BY <1>2, <2>1, <2>2, <2>4, <2>5, StayKeepsReferences DEF request
<1> QED BY <1>3, <1>4, <1>5, <1>6

-----------------------------------------------------------------------------
(* The counters in Redis *)

\* A check that passes is counted, and starts the counter's time anew.
LEMMA CheckKeepsCounters ==
  ASSUME Shapes, Counters, NEW r \in Requests, Check(r)
  PROVE  Counters'
<1>1. PICK h \in Hosts : h = Key(r)
  BY RateAssumption DEF Check, Local, OnDevice, Key
<1>2. /\ count[h] \in Nat /\ ttl[h] \in 0..Window /\ passed[h] \in Nat
      /\ rate \in Nat /\ rate <= MaxRate /\ elapsed \in Nat
  BY <1>1, Settings DEF Counters, Shapes
<1>3. /\ count' = [count EXCEPT ![h] = IF count[h] <= MaxRate THEN count[h] + 1 ELSE count[h]]
      /\ ttl' = [ttl EXCEPT ![h] = Window]
      /\ passed' = [passed EXCEPT ![h] = IF count[h] < rate THEN passed[h] + 1 ELSE passed[h]]
      /\ elapsed' = elapsed
  BY <1>1 DEF Check, Count
<1>4. /\ count'[h] = IF count[h] <= MaxRate THEN count[h] + 1 ELSE count[h]
      /\ ttl'[h] = Window
      /\ passed'[h] = IF count[h] < rate THEN passed[h] + 1 ELSE passed[h]
      /\ \A g \in Hosts \ {h} : count'[g] = count[g] /\ ttl'[g] = ttl[g] /\ passed'[g] = passed[g]
  BY <1>1, <1>3 DEF Counters
<1>5. /\ count' \in [Hosts -> Nat] /\ ttl' \in [Hosts -> 0..Window]
      /\ passed' \in [Hosts -> Nat]
  <2>1. count'[h] \in Nat /\ ttl'[h] \in 0..Window /\ passed'[h] \in Nat
    BY <1>2, <1>4, Settings
  <2>2. \A g \in Hosts : count'[g] \in Nat /\ ttl'[g] \in 0..Window /\ passed'[g] \in Nat
    BY <1>4, <2>1 DEF Counters
  <2>3. DOMAIN count' = Hosts /\ DOMAIN ttl' = Hosts /\ DOMAIN passed' = Hosts
    BY <1>3 DEF Counters
  <2>4. /\ count' = [g \in Hosts |-> count'[g]] /\ ttl' = [g \in Hosts |-> ttl'[g]]
        /\ passed' = [g \in Hosts |-> passed'[g]]
    BY <1>3, <2>3 DEF Counters
  <2> QED BY <2>2, <2>4
<1>6. passed'[h] # 0 => Counted(h)'
  <2>1. /\ Least(count[h], MaxRate) <= Least(count'[h], MaxRate)
        /\ count[h] < rate => Least(count'[h], MaxRate) = Least(count[h], MaxRate) + 1
        /\ count[h] < rate => Least(count'[h], MaxRate) > 0
        /\ Least(count[h], MaxRate) \in Nat /\ Least(count'[h], MaxRate) \in Nat
    BY <1>2, <1>4, Settings DEF Least
  <2>2. ASSUME NEW w \in Nat,
               passed'[h] <= Least(count'[h], MaxRate) + MaxRate * w,
               w * Window <= elapsed
        PROVE  Counted(h)'
    <3>1. w * Window <= IF ttl'[h] = 0 THEN elapsed' ELSE elapsed' + ttl'[h] - Window
      <4>1. \A i, j \in Nat : i * j \in Nat
        OBVIOUS
      <4>2. w * Window \in Nat
        BY <4>1, Settings
      <4>3. ttl'[h] # 0 /\ elapsed' + ttl'[h] - Window = elapsed
        BY <1>2, <1>3, <1>4, Settings
      <4> QED BY <2>2, <4>3
    <3> QED BY <2>2, <3>1 DEF Counted
  <2>3. CASE passed[h] = 0
    <3>1. MaxRate * 0 = 0 /\ 0 * Window = 0 /\ 0 \in Nat
      BY Settings
    <3>2. passed'[h] <= Least(count'[h], MaxRate) + MaxRate * 0
      BY <1>2, <1>4, <2>1, <2>3, <3>1
    <3> QED BY <1>2, <2>2, <3>1, <3>2
  <2>4. CASE passed[h] # 0
    <3>1. PICK w \in Nat :
            /\ passed[h] <= Least(count[h], MaxRate) + MaxRate * w
            /\ w * Window <= IF ttl[h] = 0 THEN elapsed ELSE elapsed + ttl[h] - Window
      BY <1>1, <2>4 DEF Counters, Counted
    <3>2. MaxRate * w \in Nat /\ w * Window \in Nat
      <4>1. \A i, j \in Nat : i * j \in Nat
        OBVIOUS
      <4> QED BY <4>1, Settings
    <3>3. w * Window <= elapsed
      BY <1>2, <3>1, <3>2, Settings
    <3>4. passed'[h] <= Least(count'[h], MaxRate) + MaxRate * w
      BY <1>2, <1>4, <2>1, <3>1, <3>2
    <3> QED BY <2>2, <3>3, <3>4
  <2> QED BY <2>3, <2>4
<1>7. ASSUME NEW g \in Hosts
      PROVE  (ttl'[g] = 0 => count'[g] = 0) /\ (passed'[g] # 0 => Counted(g)')
  <2>1. CASE g = h
    <3>1. ttl'[h] # 0
      BY <1>4, Settings
    <3>2. Counted(g)' = Counted(h)'
      BY <2>1
    <3> QED BY <1>6, <2>1, <3>1, <3>2
  <2>2. CASE g # h
    BY <1>3, <1>4, <2>2 DEF Counters, Counted
  <2> QED BY <2>1, <2>2
<1> QED BY <1>5, <1>7 DEF Counters

\* A counter that expires makes room for another MaxRate, a full window after it was
\* started.
LEMMA TickKeepsCounters ==
  ASSUME Shapes, Counters, Tick
  PROVE  Counters'
<1>1. /\ ttl' = [h \in Hosts |-> IF ttl[h] > 0 THEN ttl[h] - 1 ELSE 0]
      /\ count' = [h \in Hosts |-> IF ttl'[h] = 0 THEN 0 ELSE count[h]]
      /\ passed' = passed /\ elapsed' = elapsed + 1 /\ elapsed \in Nat
  BY Settings DEF Tick, Shapes
<1>2. ttl' \in [Hosts -> 0..Window] /\ count' \in [Hosts -> Nat]
  BY <1>1, Settings DEF Counters
<1>3. ASSUME NEW h \in Hosts
      PROVE  (ttl'[h] = 0 => count'[h] = 0) /\ (passed'[h] # 0 => Counted(h)')
  <2>1. /\ count[h] \in Nat /\ ttl[h] \in Nat /\ ttl[h] <= Window /\ passed[h] \in Nat
        /\ ttl'[h] = IF ttl[h] > 0 THEN ttl[h] - 1 ELSE 0
        /\ count'[h] = IF ttl'[h] = 0 THEN 0 ELSE count[h]
        /\ ttl[h] = 0 => count[h] = 0
    BY <1>1, Settings DEF Counters
  <2>2. ASSUME passed[h] # 0
        PROVE  Counted(h)'
    <3>1. PICK w \in Nat :
            /\ passed[h] <= Least(count[h], MaxRate) + MaxRate * w
            /\ w * Window <= IF ttl[h] = 0 THEN elapsed ELSE elapsed + ttl[h] - Window
      BY <2>2 DEF Counters, Counted
    <3>2. /\ MaxRate * w \in Nat /\ w * Window \in Nat
          /\ MaxRate * (w + 1) = MaxRate * w + MaxRate
          /\ (w + 1) * Window = w * Window + Window
      <4>1. \A i, j \in Nat : /\ i * j \in Nat /\ i * (j + 1) = i * j + i
                              /\ (i + 1) * j = i * j + j
        OBVIOUS
      <4> QED BY <4>1, Settings
    <3>3. CASE ttl[h] = 1
      <4> DEFINE v == w + 1
                 times == MaxRate * v
                 time == v * Window
      <4>1. v \in Nat /\ times = MaxRate * w + MaxRate /\ time = w * Window + Window
        BY <3>2
      <4>2. ttl'[h] = 0 /\ count'[h] = 0
        BY <2>1, <3>3
      <4> HIDE DEF times, time
      <4>3. passed[h] <= Least(0, MaxRate) + times
        BY <2>1, <3>1, <3>2, <4>1, Settings DEF Least
      <4>4. time <= elapsed + 1
        BY <1>1, <3>1, <3>2, <3>3, <4>1, Settings
      <4> HIDE DEF v
      <4> QED BY <1>1, <4>1, <4>2, <4>3, <4>4 DEF Counted, times, time
    <3>4. CASE ttl[h] # 1
      <4>1. count'[h] = count[h] /\ (ttl'[h] = 0 <=> ttl[h] = 0)
        BY <2>1, <3>4
      <4>2. w * Window <= IF ttl'[h] = 0 THEN elapsed' ELSE elapsed' + ttl'[h] - Window
        BY <1>1, <2>1, <3>1, <3>2, <4>1, Settings
      <4> QED BY <1>1, <3>1, <4>1, <4>2 DEF Counted
    <3> QED BY <3>3, <3>4
  <2> QED BY <1>1, <2>1, <2>2
<1> QED BY <1>1, <1>2, <1>3 DEF Counters

\* A new watch has seen nobody pass.
LEMMA WatchKeepsCounters ==
  ASSUME Counters, Watch
  PROVE  Counters'
<1>1. \A h \in Hosts : passed'[h] = 0
  BY DEF Watch
<1> QED BY <1>1 DEF Counters, Watch, redis

\* Nothing else touches them.
LEMMA OthersKeepCounters ==
  ASSUME Counters, UNCHANGED <<count, ttl, passed, elapsed>>
  PROVE  Counters'
BY DEF Counters, Counted

-----------------------------------------------------------------------------
(* The inductive invariant of the rate limiters *)

\* No bucket is there, nobody has asked.
LEMMA InitIInv == Init => IInv
<1> SUFFICES ASSUME Init
             PROVE  IInv
  OBVIOUS
<1>1. Shapes /\ Sleeps
  <2>1. ASSUME NEW r \in Requests
        PROVE  1 \in DOMAIN KeysOf[r]
    <3>1. KeysOf[r] \in Seq(Keys) /\ Len(KeysOf[r]) > 0
      BY RateAssumption
    <3> QED BY <3>1
  <2>2. Shapes
    <3>1. /\ pc \in [Requests -> {"new", "fetch", "create", "take", "nap"}]
          /\ patient \in [Requests -> BOOLEAN]
      BY DEF Init
    <3>2. at \in [Requests -> Nat] /\ \A r \in Requests : at[r] \in DOMAIN KeysOf[r]
      BY <2>1 DEF Init
    <3>3. elapsed \in 0..MaxWatch /\ taken \in [Buckets -> Nat]
      BY Settings DEF Init
    <3>4. backend \in Backends /\ rate \in Rates /\ reload \in BOOLEAN
      BY DEF Init
    <3> QED BY <3>1, <3>2, <3>3, <3>4 DEF Shapes
  <2>3. Sleeps
    BY Settings DEF Init, Sleeps
  <2> QED BY <2>2, <2>3
<1>2. Live = {}
  BY DEF Init, Live
<1>3. BucketsSound /\ InStock /\ OneCurrentBucketPerKey
  BY <1>2, Settings DEF Init, BucketsSound, InStock, OneCurrentBucketPerKey
<1>4. Referred
  BY <1>2 DEF Init, Referred
<1>5. Counters
  BY Settings DEF Init, Counters
<1> QED BY <1>1, <1>3, <1>4, <1>5 DEF IInv

\* Requests and reloads are about buckets, checks and time also about the counters.
LEMMA NextIInv == IInv /\ [Next]_vars => IInv'
<1> SUFFICES ASSUME IInv, [Next]_vars
             PROVE  IInv'
  OBVIOUS
<1>1. LocalInv /\ Shapes /\ Counters
  BY DEF IInv, LocalInv
<1>2. LocalInv' /\ Counters' => IInv'
  BY DEF IInv, LocalInv
<1>3. ASSUME NEW r \in Requests,
             \/ \E p \in BOOLEAN : Arrive(r, p)
             \/ Fetch(r) \/ Create(r) \/ Take(r) \/ Refuse(r) \/ Nap(r)
             \/ Check(r) \/ Unchecked(r)
      PROVE  IInv'
  <2>1. LocalInv'
    BY <1>1, <1>3, RequestsKeepLocal
  <2>2. CASE Check(r)
    BY <1>1, <1>2, <2>1, <2>2, CheckKeepsCounters
  <2>3. CASE ~Check(r)
    <3>1. UNCHANGED <<count, ttl, passed, elapsed>>
      BY <1>3, <2>3 DEF Arrive, Fetch, Create, Take, Refuse, Nap, Unchecked, redis, watch
    <3> QED BY <1>1, <1>2, <2>1, <3>1, OthersKeepCounters
  <2> QED BY <2>2, <2>3
<1>4. CASE (\E n \in Rates : SetRate(n)) \/ ClearBuckets \/ Tick \/ Watch
  <2>1. LocalInv'
    BY <1>1, <1>4, OthersKeepLocal
  <2>2. CASE Tick
    BY <1>1, <1>2, <2>1, <2>2, TickKeepsCounters
  <2>3. CASE Watch
    BY <1>1, <1>2, <2>1, <2>3, WatchKeepsCounters
  <2>4. CASE (\E n \in Rates : SetRate(n)) \/ ClearBuckets
    <3>1. UNCHANGED <<count, ttl, passed, elapsed>>
      BY <2>4 DEF SetRate, ClearBuckets, redis, watch
    <3> QED BY <1>1, <1>2, <2>1, <3>1, OthersKeepCounters
  <2> QED BY <1>4, <2>2, <2>3, <2>4
<1>5. CASE UNCHANGED vars
  <2>1. UNCHANGED <<backend, rate, reload, table, bucket, pc, at, held, patient, nap, delay,
                    waited, count, ttl, elapsed, taken, passed, retired>>
    BY <1>5 DEF vars, request, redis, watch
  <2>2. Shapes' /\ Sleeps'
    BY <1>1, <2>1 DEF LocalInv, Shapes, Sleeps
  <2>3. Live' = Live
    BY <2>1 DEF Live
  <2>4. BucketsSound' /\ InStock'
    BY <1>1, <2>1, <2>3 DEF LocalInv, BucketsSound, InStock
  <2>5. Referred' /\ OneCurrentBucketPerKey'
    BY <1>1, <2>1, <2>3 DEF LocalInv, Referred, OneCurrentBucketPerKey, Key
  <2>6. Counters'
    BY <1>1, <2>1, OthersKeepCounters
  <2> QED BY <1>2, <2>2, <2>4, <2>5, <2>6 DEF LocalInv
<1> QED BY <1>3, <1>4, <1>5 DEF Next

\* The invariant of every behaviour of the rate limiters.
LEMMA Invariance == Spec => []IInv
BY InitIInv, NextIInv, PTL DEF Spec

-----------------------------------------------------------------------------
(* Theorems about the rate limiters *)

\* As many windows as fit into a time are at most its quotient.
LEMMA WholeWindows ==
  ASSUME NEW w \in Nat, NEW time \in Nat, NEW size \in Nat, size > 0, w * size <= time
  PROVE  w <= time \div size /\ time \div size \in Nat
<1> DEFINE q == time \div size
           rest == time % size
<1>1. q \in Nat /\ rest \in 0..(size - 1) /\ time = size * q + rest
  OBVIOUS
<1> HIDE DEF q, rest
<1>2. ASSUME w >= q + 1
      PROVE  FALSE
  <2>1. \A i, j, k \in Nat : i >= j => i * k >= j * k
    OBVIOUS
  <2>2. w * size >= (q + 1) * size
    BY <1>1, <1>2, <2>1
  <2>3. (q + 1) * size = size * q + size
    BY <1>1
  <2>4. size * q \in Nat /\ w * size \in Nat
    BY <1>1
  <2> QED BY <1>1, <2>2, <2>3, <2>4
<1>3. w <= q
  BY <1>1, <1>2
<1> QED BY <1>1, <1>3 DEF q

\* Every bucket, sleep and reference is well formed.
THEOREM TypeCorrect == Spec => []TypeOK
<1>1. IInv => TypeOK
  <2> SUFFICES ASSUME IInv
               PROVE  TypeOK
    OBVIOUS
  <2>1. \A r \in Requests : nap[r] <= MaxNap /\ delay[r] \in 1..MaxNap /\ waited[r] \in 0..MaxWait
    BY Settings DEF IInv, Sleeps
  <2>2. \A k \in Keys : table[k] # None => bucket[table[k]] # None /\ bucket[table[k]].key = k
    BY DEF IInv, Referred, Live
  <2>3. \A b \in Live : bucket[b].tokens <= bucket[b].cap
    BY DEF IInv, BucketsSound, SoundBucket
  <2> QED
    BY <2>1, <2>2, <2>3 DEF IInv, TypeOK, Shapes, BucketsSound, Referred, Counters
<1> QED BY <1>1, Invariance, PTL

\* For any number of requests that share and wait for a bucket, any rate and burst, and
\* any stretch of time: no bucket lets through more than its burst and its rate times
\* the time, and no counter in Redis more than its rate in each window.
THEOREM AdmissionsStayBounded == Spec => []AdmissionsAreBounded
<1>1. IInv => AdmissionsAreBounded
  <2> SUFFICES ASSUME IInv
               PROVE  AdmissionsAreBounded
    OBVIOUS
  <2>1. elapsed \in Nat
    BY Settings DEF IInv, Shapes
  <2>2. ASSUME NEW b \in Live
        PROVE  taken[b] * Cost <= bucket[b].cap + bucket[b].rate * elapsed
    <3>1. SoundBucket(bucket[b]) /\ WithinRate(bucket[b], taken[b], elapsed)
      BY DEF IInv, BucketsSound, InStock
    <3>2. /\ Filled(bucket[b]) \in Nat /\ bucket[b].cap \in Nat /\ bucket[b].rate \in Nat
          /\ taken[b] \in Nat
      BY <3>1, BucketFields DEF IInv, Shapes, Live
    <3>3. taken[b] * Cost \in Nat /\ bucket[b].rate * elapsed \in Nat
      <4>1. \A i, j \in Nat : i * j \in Nat
        OBVIOUS
      <4> QED BY <2>1, <3>2, <4>1, Settings
    <3> QED BY <3>1, <3>2, <3>3 DEF WithinRate
  <2>3. ASSUME NEW h \in Hosts
        PROVE  passed[h] <= MaxRate * (1 + elapsed \div Window)
    <3> DEFINE q == elapsed \div Window
    <3>1. /\ passed[h] \in Nat /\ count[h] \in Nat /\ ttl[h] \in 0..Window
          /\ passed[h] # 0 => Counted(h)
      BY DEF IInv, Counters
    <3>2. \A i, j, k \in Nat : i <= j => k * i <= k * j /\ k * i \in Nat /\ k * j \in Nat
      OBVIOUS
    <3>3. \A k, j \in Nat : k * (1 + j) = k + k * j
      OBVIOUS
    <3>4. CASE passed[h] = 0
      <4>1. 0 * Window <= elapsed
        BY <2>1, Settings
      <4>2. q \in Nat
        BY <2>1, <4>1, WholeWindows, Settings
      <4> HIDE DEF q
      <4>3. MaxRate * (1 + q) \in Nat
        BY <3>2, <4>2, Settings
      <4>4. passed[h] <= MaxRate * (1 + q)
        BY <3>4, <4>3
      <4> QED BY <4>4 DEF q
    <3>5. CASE passed[h] # 0
      <4>1. PICK w \in Nat :
              /\ passed[h] <= Least(count[h], MaxRate) + MaxRate * w
              /\ w * Window <= IF ttl[h] = 0 THEN elapsed ELSE elapsed + ttl[h] - Window
        BY <3>1, <3>5 DEF Counted
      <4>2. MaxRate * w \in Nat /\ w * Window \in Nat
        BY <3>2, Settings
      <4>3. w * Window <= elapsed
        BY <2>1, <3>1, <4>1, <4>2, Settings
      <4>4. w <= q /\ q \in Nat
        BY <2>1, <4>3, WholeWindows, Settings
      <4> HIDE DEF q
      <4>5. MaxRate * w <= MaxRate * q /\ MaxRate * q \in Nat
        BY <3>2, <4>4, Settings
      <4>6. MaxRate * (1 + q) = MaxRate + MaxRate * q
        BY <3>3, <4>4, Settings
      <4>7. passed[h] <= MaxRate + MaxRate * w
        BY <3>1, <4>1, <4>2, Settings DEF Least
      <4>8. passed[h] <= MaxRate * (1 + q)
        BY <3>1, <4>2, <4>5, <4>6, <4>7, Settings
      <4> QED BY <4>8 DEF q
    <3> QED BY <3>4, <3>5
  <2> QED BY <2>2, <2>3 DEF AdmissionsAreBounded
<1> QED BY <1>1, Invariance, PTL

\* Requests for one key that look for its bucket at the same time, and reloads between
\* their steps, leave one bucket in the table for them, with the current rate.
THEOREM OneBucketServes == Spec => []OneCurrentBucketPerKey
<1>1. IInv => OneCurrentBucketPerKey
  BY DEF IInv
<1> QED BY <1>1, Invariance, PTL

-----------------------------------------------------------------------------
(* Circuit breakers *)

SoundBreaker(b) ==
  /\ b \in Breaker
  /\ b.state = "healthy" <=> b.failures < b.threshold
  /\ b.state = "healthy" => b.cooldown = b.base

\* q is the time since the device's last failure was recorded.
InTime(b, q) ==
  /\ b.state = "open" => b.elapsed <= q
  /\ b.state = "half_open" => b.cooldown <= q

BreakersSound ==
  \A h \in Hosts :
    breaker[h] # None => SoundBreaker(breaker[h]) /\ InTime(breaker[h], quiet[h])

BreakersInv == BreakerTypeOK /\ BreakersSound

-----------------------------------------------------------------------------
(* The operations of one breaker *)

\* The settings are positive and below the caps.
LEMMA BreakerSettings ==
  /\ \A n \in Thresholds : n \in 1..FailureCap
  /\ \A c \in Cooldowns : c \in 1..Horizon
  /\ FailureCap \in Nat /\ Horizon \in Nat
  /\ MaxCooldown \in 1..Horizon
  /\ None \notin Breaker /\ None \notin Hosts
BY ThresholdsAssumption, CooldownsAssumption, NoneAssumption

\* The fields of a breaker, as numbers.
LEMMA BreakerFields ==
  ASSUME NEW b \in Breaker
  PROVE  /\ b.state \in Health
         /\ b.failures \in 0..FailureCap /\ b.failures \in Nat
         /\ b.threshold \in Thresholds /\ b.threshold \in 1..FailureCap
         /\ b.base \in Cooldowns /\ b.base \in 1..Horizon
         /\ b.cooldown \in 1..Horizon
         /\ b.elapsed \in 0..Horizon /\ b.elapsed \in Nat
<1>1. /\ b.state \in Health
      /\ b.failures \in 0..FailureCap
      /\ b.threshold \in Thresholds
      /\ b.base \in Cooldowns
      /\ b.cooldown \in 1..Horizon
      /\ b.elapsed \in 0..Horizon
  BY DEF Breaker
<1>2. b.failures \in Nat /\ b.elapsed \in Nat
  BY <1>1, BreakerSettings
<1>3. b.threshold \in 1..FailureCap /\ b.base \in 1..Horizon
  BY <1>1, BreakerSettings
<1>4. QED
  BY <1>1, <1>2, <1>3

\* A breaker made from the registry's settings is sound.
LEMMA NewBreakerSound ==
  ASSUME BreakerTypeOK
  PROVE  SoundBreaker(NewBreaker) /\ \A q \in Nat : InTime(NewBreaker, q)
<1>1. conf.threshold \in Thresholds /\ conf.cooldown \in Cooldowns
  BY DEF BreakerTypeOK
<1>2. conf.threshold \in 1..FailureCap /\ conf.cooldown \in 1..Horizon
  BY <1>1, BreakerSettings
<1>3. FailureCap \in Nat /\ Horizon \in Nat
  BY BreakerSettings
<1>4. NewBreaker \in Breaker
  BY <1>1, <1>2, <1>3 DEF NewBreaker, Breaker, Health
<1>5. QED
  BY <1>2, <1>3, <1>4 DEF SoundBreaker, InTime, NewBreaker

\* Looking up a breaker yields a sound one, made on the spot if need be.
LEMMA GetSound ==
  ASSUME BreakersInv, NEW h \in Hosts
  PROVE  SoundBreaker(Get(h)) /\ InTime(Get(h), quiet[h])
<1>1. quiet[h] \in Nat
  BY BreakerSettings DEF BreakersInv, BreakerTypeOK
<1>2. CASE breaker[h] = None
  BY <1>1, <1>2, NewBreakerSound DEF BreakersInv, Get
<1>3. CASE breaker[h] # None
  BY <1>3 DEF BreakersInv, BreakersSound, Get
<1>4. QED
  BY <1>2, <1>3

\* The transition check keeps a breaker sound; it makes a circuit half open only
\* when the cooldown has passed since the last failure.
LEMMA RefreshedSound ==
  ASSUME NEW b, NEW q \in Nat, SoundBreaker(b), InTime(b, q)
  PROVE  SoundBreaker(Refreshed(b)) /\ InTime(Refreshed(b), q)
BY BreakerSettings
DEF SoundBreaker, InTime, Refreshed, Breaker, Health

\* A success closes the circuit and clears the count and the backoff together.
LEMMA AfterSuccessSound ==
  ASSUME NEW b, NEW q \in Nat, SoundBreaker(b)
  PROVE  SoundBreaker(AfterSuccess(b)) /\ InTime(AfterSuccess(b), q)
<1>1. b \in Breaker
  BY DEF SoundBreaker
<1>2. /\ b.base \in 1..Horizon
      /\ b.threshold \in 1..FailureCap
      /\ 0 \in 0..FailureCap
      /\ "healthy" \in Health
  BY <1>1, BreakerFields, BreakerSettings DEF Health
<1>3. AfterSuccess(b) \in Breaker
  BY <1>1, <1>2 DEF AfterSuccess, Breaker
<1>4. /\ AfterSuccess(b).state = "healthy"
      /\ AfterSuccess(b).failures = 0
      /\ AfterSuccess(b).threshold = b.threshold
      /\ AfterSuccess(b).cooldown = b.base
      /\ AfterSuccess(b).base = b.base
  BY <1>1 DEF AfterSuccess, Breaker
<1>5. QED
  BY <1>2, <1>3, <1>4 DEF SoundBreaker, InTime

\* A failure leaves the breaker sound and, if open, with its clock restarted.
LEMMA AfterFailureSound ==
  ASSUME NEW b, SoundBreaker(b)
  PROVE  SoundBreaker(AfterFailure(b)) /\ InTime(AfterFailure(b), 0)
<1> DEFINE f == UpTo(b.failures + 1, FailureCap)
           c == UpTo(b.cooldown * 2, MaxCooldown)
           r == AfterFailure(b)
<1>1. b \in Breaker
  BY DEF SoundBreaker
<1>2. /\ b.state \in Health
      /\ b.failures \in 0..FailureCap
      /\ b.threshold \in 1..FailureCap
      /\ b.cooldown \in 1..Horizon
      /\ FailureCap \in Nat /\ 0 \in 0..Horizon
      /\ "open" \in Health
  BY <1>1, BreakerFields, BreakerSettings DEF Health
<1>3. f \in 0..FailureCap /\ (b.failures >= b.threshold => f >= b.threshold)
  BY <1>2 DEF UpTo
<1>4. c \in 1..Horizon
  BY <1>2, BreakerSettings DEF UpTo
<1>5. CASE b.state = "half_open"
  <2>1. r = [b EXCEPT !.failures = f, !.elapsed = 0, !.state = "open", !.cooldown = c]
    BY <1>5 DEF AfterFailure
  <2> HIDE DEF f, c, r
  <2>2. r \in Breaker
    BY <1>1, <1>2, <1>3, <1>4, <2>1 DEF Breaker
  <2>3. r.state = "open" /\ r.failures = f /\ r.threshold = b.threshold /\ r.elapsed = 0
    BY <1>1, <2>1 DEF Breaker
  <2>4. f >= b.threshold
    BY <1>2, <1>3, <1>5 DEF SoundBreaker
  <2>5. SoundBreaker(r) /\ InTime(r, 0)
    BY <1>2, <1>3, <2>2, <2>3, <2>4 DEF SoundBreaker, InTime
  <2>6. QED
    BY <2>5 DEF r
<1>6. CASE b.state # "half_open" /\ f >= b.threshold
  <2>1. r = [b EXCEPT !.failures = f, !.elapsed = 0, !.state = "open"]
    BY <1>6 DEF AfterFailure
  <2> HIDE DEF f, r
  <2>2. r \in Breaker
    BY <1>1, <1>2, <1>3, <2>1 DEF Breaker
  <2>3. r.state = "open" /\ r.failures = f /\ r.threshold = b.threshold /\ r.elapsed = 0
    BY <1>1, <2>1 DEF Breaker
  <2>4. SoundBreaker(r) /\ InTime(r, 0)
    BY <1>2, <1>3, <1>6, <2>2, <2>3 DEF SoundBreaker, InTime
  <2>5. QED
    BY <2>4 DEF r
<1>7. CASE b.state # "half_open" /\ ~(f >= b.threshold)
  <2>1. r = [b EXCEPT !.failures = f, !.elapsed = 0]
    BY <1>7 DEF AfterFailure
  <2>2. b.state = "healthy" /\ b.cooldown = b.base
    BY <1>2, <1>3, <1>7 DEF SoundBreaker
  <2> HIDE DEF f, r
  <2>3. r \in Breaker
    BY <1>1, <1>2, <1>3, <2>1 DEF Breaker
  <2>4. /\ r.state = "healthy" /\ r.failures = f /\ r.threshold = b.threshold
        /\ r.cooldown = b.cooldown /\ r.base = b.base
    BY <1>1, <2>1, <2>2 DEF Breaker
  <2>5. SoundBreaker(r) /\ InTime(r, 0)
    BY <1>2, <1>3, <1>7, <2>2, <2>3, <2>4 DEF SoundBreaker, InTime
  <2>6. QED
    BY <2>5 DEF r
<1>8. QED
  BY <1>5, <1>6, <1>7

\* A tick of the clock ages an open circuit no faster than its device's quiet time.
LEMMA AgedSound ==
  ASSUME NEW b, NEW q \in 0..Horizon, b # None, SoundBreaker(b), InTime(b, q)
  PROVE  SoundBreaker(Aged(b)) /\ InTime(Aged(b), UpTo(q + 1, Horizon))
BY BreakerSettings
DEF SoundBreaker, InTime, Aged, UpTo, Breaker, Health

-----------------------------------------------------------------------------
(* The inductive invariant of the breakers *)

\* No breaker is there.
LEMMA BreakersInit == BreakerInit => BreakersInv
BY BreakerSettings DEF BreakerInit, BreakersInv, BreakerTypeOK, BreakersSound

\* Replacing one host's breaker by a sound one keeps the invariant, provided the
\* quiet time of that host is what the new breaker's clock agrees with.
LEMMA ReplaceBreaker ==
  ASSUME BreakersInv,
         NEW h \in Hosts, NEW b, SoundBreaker(b), InTime(b, quiet'[h]),
         breaker' = [breaker EXCEPT ![h] = b],
         \A k \in Hosts \ {h} : quiet'[k] = quiet[k]
  PROVE  breaker' \in [Hosts -> Breaker \cup {None}] /\ BreakersSound'
<1>1. breaker' \in [Hosts -> Breaker \cup {None}]
  BY DEF BreakersInv, BreakerTypeOK, SoundBreaker
<1>2. ASSUME NEW k \in Hosts, breaker'[k] # None
      PROVE  SoundBreaker(breaker'[k]) /\ InTime(breaker'[k], quiet'[k])
  <2>1. CASE k = h
    BY <2>1 DEF BreakersInv, BreakerTypeOK
  <2>2. CASE k # h
    <3>1. breaker'[k] = breaker[k] /\ quiet'[k] = quiet[k]
      BY <2>2 DEF BreakersInv, BreakerTypeOK
    <3>2. QED
      BY <1>2, <3>1 DEF BreakersInv, BreakersSound
  <2>3. QED
    BY <2>1, <2>2
<1>3. QED
  BY <1>1, <1>2 DEF BreakersSound

\* Each action replaces one breaker by a sound one, or makes all of them older.
LEMMA BreakersNext == BreakersInv /\ [BreakerNext]_breakerVars => BreakersInv'
<1> SUFFICES ASSUME BreakersInv, [BreakerNext]_breakerVars
             PROVE  BreakersInv'
  OBVIOUS
<1>q. ASSUME NEW h \in Hosts PROVE quiet[h] \in 0..Horizon /\ quiet[h] \in Nat
  BY BreakerSettings DEF BreakersInv, BreakerTypeOK
<1>1. ASSUME NEW r \in Requests, NEW h \in Hosts, Admit(r, h)
      PROVE  BreakersInv'
  <2>1. SoundBreaker(Refreshed(Get(h))) /\ InTime(Refreshed(Get(h)), quiet[h])
    BY <1>q, GetSound, RefreshedSound
  <2>2. breaker' \in [Hosts -> Breaker \cup {None}] /\ BreakersSound'
    BY <1>1, <2>1, ReplaceBreaker DEF Admit
  <2>3. QED
    BY <1>1, <2>2 DEF Admit, BreakersInv, BreakerTypeOK
<1>2. ASSUME NEW r \in Requests, Succeed(r)
      PROVE  BreakersInv'
  <2> DEFINE h == admitted[r]
  <2>1. h \in Hosts
    BY <1>2 DEF Succeed, BreakersInv, BreakerTypeOK
  <2>2. SoundBreaker(AfterSuccess(Get(h))) /\ InTime(AfterSuccess(Get(h)), quiet[h])
    BY <2>1, <1>q, GetSound, AfterSuccessSound
  <2>3. breaker' \in [Hosts -> Breaker \cup {None}] /\ BreakersSound'
    BY <1>2, <2>1, <2>2, ReplaceBreaker DEF Succeed
  <2>4. QED
    BY <1>2, <2>3 DEF Succeed, BreakersInv, BreakerTypeOK
<1>3. ASSUME NEW r \in Requests, Fail(r)
      PROVE  BreakersInv'
  <2> DEFINE h == admitted[r]
  <2>1. h \in Hosts
    BY <1>3 DEF Fail, BreakersInv, BreakerTypeOK
  <2>2. SoundBreaker(AfterFailure(Get(h))) /\ InTime(AfterFailure(Get(h)), 0)
    BY <2>1, GetSound, AfterFailureSound
  <2>3. /\ quiet'[h] = 0
        /\ \A k \in Hosts \ {h} : quiet'[k] = quiet[k]
        /\ quiet' \in [Hosts -> 0..Horizon]
    BY <1>3, <2>1, BreakerSettings DEF Fail, BreakersInv, BreakerTypeOK
  <2>4. breaker' \in [Hosts -> Breaker \cup {None}] /\ BreakersSound'
    BY <1>3, <2>1, <2>2, <2>3, ReplaceBreaker DEF Fail
  <2>5. QED
    BY <1>3, <2>3, <2>4 DEF Fail, BreakersInv, BreakerTypeOK
<1>4. ASSUME NEW r \in Requests, Abandon(r)
      PROVE  BreakersInv'
  BY <1>4 DEF Abandon, BreakersInv, BreakerTypeOK, BreakersSound
<1>5. CASE Observe
  <2>1. ASSUME NEW h \in Hosts, breaker[h] # None
        PROVE  /\ SoundBreaker(Refreshed(breaker[h]))
               /\ InTime(Refreshed(breaker[h]), quiet[h])
    BY <2>1, <1>q, RefreshedSound DEF BreakersInv, BreakersSound
  <2>2. breaker' \in [Hosts -> Breaker \cup {None}]
    BY <1>5, <2>1 DEF Observe, SoundBreaker
  <2>3. BreakersSound'
    BY <1>5, <2>1 DEF Observe, BreakersSound
  <2>4. QED
    BY <1>5, <2>2, <2>3 DEF Observe, BreakersInv, BreakerTypeOK
<1>6. ASSUME NEW h \in Hosts, ResetHost(h)
      PROVE  BreakersInv'
  BY <1>6 DEF ResetHost, BreakersInv, BreakerTypeOK, BreakersSound
<1>7. CASE ResetAll
  BY <1>7 DEF ResetAll, BreakersInv, BreakerTypeOK, BreakersSound
<1>8. ASSUME NEW n \in Thresholds, NEW c \in Cooldowns, Reload(n, c)
      PROVE  BreakersInv'
  BY <1>8 DEF Reload, BreakersInv, BreakerTypeOK, BreakersSound
<1>9. ASSUME NEW h \in Hosts, Flip(h)
      PROVE  BreakersInv'
  BY <1>9 DEF Flip, BreakersInv, BreakerTypeOK, BreakersSound
<1>10. CASE TimePasses
  <2>1. ASSUME NEW h \in Hosts, breaker[h] # None
        PROVE  /\ SoundBreaker(Aged(breaker[h]))
               /\ InTime(Aged(breaker[h]), quiet'[h])
    <3>1. quiet'[h] = UpTo(quiet[h] + 1, Horizon)
      BY <1>10 DEF TimePasses
    <3>2. QED
      BY <2>1, <3>1, <1>q, AgedSound DEF BreakersInv, BreakersSound
  <2>2. quiet' \in [Hosts -> 0..Horizon]
    BY <1>10, <1>q, BreakerSettings DEF TimePasses, UpTo
  <2>3. \A h \in Hosts : breaker[h] = None => Aged(breaker[h]) = None
    BY DEF Aged
  <2>4. breaker' \in [Hosts -> Breaker \cup {None}]
    BY <1>10, <2>1, <2>3 DEF TimePasses, SoundBreaker
  <2>5. BreakersSound'
    BY <1>10, <2>1, <2>3 DEF TimePasses, BreakersSound
  <2>6. QED
    BY <1>10, <2>2, <2>4, <2>5 DEF TimePasses, BreakersInv, BreakerTypeOK
<1>11. CASE UNCHANGED breakerVars
  BY <1>11 DEF breakerVars, BreakersInv, BreakerTypeOK, BreakersSound
<1>12. QED
  BY <1>1, <1>2, <1>3, <1>4, <1>5, <1>6, <1>7, <1>8, <1>9, <1>10, <1>11 DEF BreakerNext

\* The invariant of every behaviour of the breakers.
LEMMA BreakersInvariance == BreakerSpec => []BreakersInv
BY BreakersInit, BreakersNext, PTL DEF BreakerSpec

-----------------------------------------------------------------------------
(* Theorems about the circuit breakers *)

\* Every reachable state is well typed: in particular no sequence of failed
\* probes takes a cooldown out of range.
THEOREM BreakersTypeCorrect == BreakerSpec => []BreakerTypeOK
<1>1. BreakersInv => BreakerTypeOK
  BY DEF BreakersInv
<1>2. QED
  BY <1>1, BreakersInvariance, PTL

\* For any interleaving of outcomes, resets and reloads, a circuit is open or half
\* open exactly when its threshold of consecutive failures has been counted.
THEOREM StateAlwaysMatchesFailures == BreakerSpec => []StateMatchesFailures
<1>1. BreakersInv => StateMatchesFailures
  BY DEF BreakersInv, BreakersSound, SoundBreaker, StateMatchesFailures
<1>2. QED
  BY <1>1, BreakersInvariance, PTL

\* A healthy breaker always has its base cooldown: no backoff survives recovery.
THEOREM NoLeftoverBackoff == BreakerSpec => []HealthyHasBaseCooldown
<1>1. BreakersInv => HealthyHasBaseCooldown
  BY DEF BreakersInv, BreakersSound, SoundBreaker, HealthyHasBaseCooldown
<1>2. QED
  BY <1>1, BreakersInvariance, PTL

\* Fail fast holds for any number of requests and hosts: no request is admitted to
\* a device that reached its threshold until the cooldown has passed since its last
\* failure.
THEOREM FailFast == BreakerSpec => AdmissionWaitsOutCooldown
<1> DEFINE Waits == \A r \in Requests, h \in Hosts :
             (/\ admitted[r] = None
              /\ admitted'[r] = h
              /\ breaker[h] # None
              /\ breaker[h].failures >= breaker[h].threshold)
               => quiet[h] >= breaker[h].cooldown
<1>1. BreakersInv /\ [BreakerNext]_breakerVars => [Waits]_breakerVars
  <2> SUFFICES ASSUME BreakersInv, BreakerNext, NEW r \in Requests, NEW h \in Hosts,
                      admitted[r] = None, admitted'[r] = h, breaker[h] # None,
                      breaker[h].failures >= breaker[h].threshold
               PROVE  quiet[h] >= breaker[h].cooldown
    OBVIOUS
  <2>1. admitted'[r] # admitted[r]
    BY BreakerSettings
  <2>2. PICK s \in Requests, k \in Hosts : Admit(s, k)
    <3>1. admitted' # admitted
      BY <2>1
    <3>2. ASSUME NEW s \in Requests, Succeed(s) \/ Fail(s) \/ Abandon(s)
          PROVE  FALSE
      BY <3>2, <2>1, BreakerSettings
      DEF Succeed, Fail, Abandon, BreakersInv, BreakerTypeOK
    <3>3. QED
      BY <3>1, <3>2
      DEF BreakerNext, Observe, ResetHost, ResetAll, Reload, Flip, TimePasses
  <2>3. k = h
    BY <2>1, <2>2 DEF Admit, BreakersInv, BreakerTypeOK
  <2>4. Refreshed(breaker[h]).state # "open"
    BY <2>2, <2>3 DEF Admit, Get
  <2>5. SoundBreaker(breaker[h]) /\ InTime(breaker[h], quiet[h])
    BY DEF BreakersInv, BreakersSound
  <2>6. /\ breaker[h].cooldown \in Nat /\ breaker[h].elapsed \in Nat
        /\ breaker[h].failures \in Nat /\ breaker[h].threshold \in Nat
        /\ quiet[h] \in Nat /\ breaker[h].state \in Health
    BY <2>5, BreakerFields, BreakerSettings DEF SoundBreaker, BreakersInv, BreakerTypeOK
  <2>7. breaker[h].state # "healthy"
    BY <2>5, <2>6 DEF SoundBreaker
  <2>8. CASE breaker[h].state = "half_open"
    BY <2>5, <2>6, <2>8 DEF InTime
  <2>9. CASE breaker[h].state = "open"
    BY <2>4, <2>5, <2>6, <2>9 DEF InTime, Refreshed
  <2>10. QED
    BY <2>6, <2>7, <2>8, <2>9 DEF Health
<1>2. QED
  BY <1>1, BreakersInvariance, PTL DEF BreakerSpec, AdmissionWaitsOutCooldown
=============================================================================
