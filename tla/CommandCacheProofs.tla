------------------------- MODULE CommandCacheProofs -------------------------
(***************************************************************************)
(* Proofs about CommandCache, for any hosts, queries and calls, any sizes  *)
(* of answers and any limits.                                              *)
(*                                                                         *)
(* What the cache holds is sound whoever calls it: a put makes room before *)
(* it counts what it stores, and whatever is dropped was counted.  That it *)
(* implements a coherent store rests on the host lock: a show that is      *)
(* about to store what it has read either holds the present version of its *)
(* host, or the host has been adrift since.                                *)
(***************************************************************************)
EXTENDS CommandCache, FiniteSetTheorems, TLAPS

Ordered(order, ks) ==
  /\ order \subseteq ks \X ks
  /\ \A j, k \in ks : <<j, k>> \in order <=> j # k /\ <<k, j>> \notin order

CacheIsSound ==
  /\ cache \in [Keys -> Entry \cup {None}]
  /\ Ordered(older, Cached)
  /\ memory \in Int
  /\ IsFiniteSet(Cached) /\ Cardinality(Cached) <= MaxEntries
  /\ IsFiniteSet(Bytes(Cached))
  /\ MemoryIsNotOverstated

DevicesAreSound == running \in [Hosts -> Nat] /\ drifted \subseteq Hosts

CallsAreSound ==
  /\ lock \in [Hosts -> Calls \cup {None}]
  /\ pc \in [Calls -> Steps]
  /\ key \in [Calls -> Keys \cup {None}]
  /\ answer \in [Shows -> [version : Nat, size : Sizes \cup {0}]]

KeysGiven == \A c \in Calls : pc[c] # "new" => key[c] \in Keys

PastLock == {"reading", "putting", "changing", "invalidating"}
LocksHeld == \A c \in Calls : pc[c] \in PastLock => lock[key[c][1]] = c

AnswersInHand ==
  \A s \in Shows : pc[s] = "putting" =>
    /\ answer[s].size \in Sizes
    /\ answer[s].version <= running[key[s][1]]
    /\ key[s][1] \notin drifted => answer[s].version = running[key[s][1]]

IInv ==
  /\ CacheIsSound
  /\ DevicesAreSound /\ CallsAreSound
  /\ KeysGiven /\ LocksHeld /\ AnswersInHand

-----------------------------------------------------------------------------
(* What entries take up *)

BytesIn(c, ks) == UNION {{k} \X (1..c[k].size) : k \in ks}

\* Entries of different keys have no byte in common.
LEMMA BytesInParts ==
  ASSUME NEW c, NEW js, NEW ks
  PROVE  /\ BytesIn(c, js \cup ks) = BytesIn(c, js) \cup BytesIn(c, ks)
         /\ js \subseteq ks => BytesIn(c, js) \subseteq BytesIn(c, ks)
         /\ js \cap ks = {} => BytesIn(c, js) \cap BytesIn(c, ks) = {}
<1>1. \A x, S : x \in BytesIn(c, S) <=> \E k \in S : x \in {k} \X (1..c[k].size)
  BY DEF BytesIn
<1>2. \A x, k : x \in {k} \X (1..c[k].size) => x[1] = k
  OBVIOUS
<1>3. ASSUME NEW x
      PROVE  /\ x \in BytesIn(c, js \cup ks) <=> x \in BytesIn(c, js) \/ x \in BytesIn(c, ks)
             /\ js \subseteq ks /\ x \in BytesIn(c, js) => x \in BytesIn(c, ks)
             /\ js \cap ks = {} => ~ (x \in BytesIn(c, js) /\ x \in BytesIn(c, ks))
  <2>1. x \in BytesIn(c, js \cup ks) <=> x \in BytesIn(c, js) \/ x \in BytesIn(c, ks)
    <3>1. ASSUME x \in BytesIn(c, js \cup ks)
          PROVE  x \in BytesIn(c, js) \/ x \in BytesIn(c, ks)
      <4>1. PICK k \in js \cup ks : x \in {k} \X (1..c[k].size)
        BY <1>1, <3>1, Zenon
      <4>2. k \in js \/ k \in ks
        OBVIOUS
      <4> QED BY <1>1, <4>1, <4>2, Zenon
    <3>2. ASSUME x \in BytesIn(c, js) \/ x \in BytesIn(c, ks)
          PROVE  x \in BytesIn(c, js \cup ks)
      <4>1. PICK k : (k \in js \/ k \in ks) /\ x \in {k} \X (1..c[k].size)
        BY <1>1, <3>2, Zenon
      <4>2. k \in js \cup ks
        BY <4>1
      <4> QED BY <1>1, <4>1, <4>2, Zenon
    <3> QED BY <3>1, <3>2
  <2>2. ASSUME js \subseteq ks, x \in BytesIn(c, js)
        PROVE  x \in BytesIn(c, ks)
    BY <1>1, <2>2, Zenon
  <2>3. ASSUME js \cap ks = {}, x \in BytesIn(c, js), x \in BytesIn(c, ks)
        PROVE  FALSE
    <3>1. PICK j \in js : x \in {j} \X (1..c[j].size)
      BY <1>1, <2>3, Zenon
    <3>2. PICK k \in ks : x \in {k} \X (1..c[k].size)
      BY <1>1, <2>3, Zenon
    <3>3. x[1] = j /\ x[1] = k
      BY <1>2, <3>1, <3>2, Zenon
    <3> QED BY <2>3, <3>3
  <2> QED BY <2>1, <2>2, <2>3
<1> QED BY <1>3

\* What is known of the entries that remain and those that go, when all entries
\* take up finitely many bytes.
LEMMA BytesInSplit ==
  ASSUME NEW c, NEW all, NEW some \in SUBSET all, IsFiniteSet(BytesIn(c, all))
  PROVE  /\ IsFiniteSet(BytesIn(c, some)) /\ IsFiniteSet(BytesIn(c, all \ some))
         /\ Cardinality(BytesIn(c, all)) \in Nat
         /\ Cardinality(BytesIn(c, some)) \in Nat
         /\ Cardinality(BytesIn(c, all \ some)) \in Nat
         /\ Cardinality(BytesIn(c, all))
              = Cardinality(BytesIn(c, some)) + Cardinality(BytesIn(c, all \ some))
<1> DEFINE A == BytesIn(c, all)
           S == BytesIn(c, some)
           R == BytesIn(c, all \ some)
<1>1. A = S \cup R /\ S \cap R = {}
  <2>1. all = some \cup (all \ some) /\ some \cap (all \ some) = {}
    OBVIOUS
  <2> QED BY <2>1, BytesInParts
<1>2. IsFiniteSet(S) /\ IsFiniteSet(R)
  <2>1. S \in SUBSET A /\ R \in SUBSET A
    BY <1>1
  <2> HIDE DEF A, S, R
  <2>2. IsFiniteSet(A)
    BY DEF A
  <2> QED BY <2>1, <2>2, FS_Subset
<1> HIDE DEF A, S, R
<1>3. Cardinality(S) \in Nat /\ Cardinality(R) \in Nat /\ Cardinality(A) \in Nat
  <2>1. IsFiniteSet(A)
    BY DEF A
  <2> QED BY <1>2, <2>1, FS_CardinalityType
<1>4. Cardinality(A) = Cardinality(S) + Cardinality(R)
  <2>1. Cardinality(S \cup R) = Cardinality(S) + Cardinality(R) - Cardinality(S \cap R)
    BY <1>2, FS_Union
  <2>2. Cardinality({}) = 0
    BY FS_EmptySet
  <2> QED BY <1>1, <1>3, <2>1, <2>2
<1> QED BY <1>2, <1>3, <1>4 DEF A, S, R

\* One entry takes up its size.
LEMMA BytesOfOne ==
  ASSUME NEW c, NEW k, c[k].size \in Nat
  PROVE  /\ IsFiniteSet(BytesIn(c, {k}))
         /\ Cardinality(BytesIn(c, {k})) = c[k].size
<1>1. BytesIn(c, {k}) = {k} \X (1..c[k].size)
  BY DEF BytesIn
<1>2. IsFiniteSet({k}) /\ Cardinality({k}) = 1
  BY FS_Singleton
<1>3. IsFiniteSet(1..c[k].size) /\ Cardinality(1..c[k].size) = c[k].size
  <2>1. 1 \in Int /\ c[k].size \in Int
    OBVIOUS
  <2>2. /\ IsFiniteSet(1..c[k].size)
        /\ Cardinality(1..c[k].size) = IF 1 > c[k].size THEN 0 ELSE c[k].size - 1 + 1
    BY <2>1, FS_Interval
  <2> QED BY <2>2
<1>4. /\ IsFiniteSet({k} \X (1..c[k].size))
      /\ Cardinality({k} \X (1..c[k].size)) = Cardinality({k}) * Cardinality(1..c[k].size)
  <2> DEFINE One == {k}
             Each == 1..c[k].size
  <2>1. IsFiniteSet(One) /\ IsFiniteSet(Each)
    BY <1>2, <1>3
  <2> HIDE DEF One, Each
  <2>2. /\ IsFiniteSet(One \X Each)
        /\ Cardinality(One \X Each) = Cardinality(One) * Cardinality(Each)
    BY <2>1, FS_Product
  <2> QED BY <2>2 DEF One, Each
<1>5. Cardinality({k}) * Cardinality(1..c[k].size) = c[k].size
  BY <1>2, <1>3
<1> QED BY <1>1, <1>4, <1>5

\* Only the sizes of entries matter.
LEMMA BytesInSame ==
  ASSUME NEW c, NEW d, NEW ks, \A k \in ks : c[k].size = d[k].size
  PROVE  BytesIn(c, ks) = BytesIn(d, ks)
<1>1. \A x : x \in BytesIn(c, ks) <=> \E k \in ks : x \in {k} \X (1..c[k].size)
  BY DEF BytesIn
<1>2. \A x : x \in BytesIn(d, ks) <=> \E k \in ks : x \in {k} \X (1..d[k].size)
  BY DEF BytesIn
<1>3. \A k \in ks : {k} \X (1..c[k].size) = {k} \X (1..d[k].size)
  OBVIOUS
<1> QED BY <1>1, <1>2, <1>3, Zenon

\* The model's operators, by these.
LEMMA BytesAreBytesIn ==
  /\ \A ks : Bytes(ks) = BytesIn(cache, ks) /\ TotalSize(ks) = Cardinality(BytesIn(cache, ks))
  /\ Bytes(Cached)' = BytesIn(cache', Cached')
  /\ TotalSize(Cached)' = Cardinality(BytesIn(cache', Cached'))
BY DEF Bytes, TotalSize, BytesIn

-----------------------------------------------------------------------------
(* What the cache holds *)

\* Leaving entries out and moving one to the end leaves an order.
LEMMA OrderIsKept ==
  ASSUME NEW order, NEW all, Ordered(order, all), NEW ks \in SUBSET all, NEW k
  PROVE  /\ Ordered(order \cap (ks \X ks), ks)
         /\ Ordered((order \cap ((ks \ {k}) \X (ks \ {k}))) \cup ((ks \ {k}) \X {k}), ks \cup {k})
<1>1. \A i, j \in ks : <<i, j>> \in order <=> i # j /\ <<j, i>> \notin order
  BY DEF Ordered
<1>2. Ordered(order \cap (ks \X ks), ks)
  BY <1>1 DEF Ordered
<1> DEFINE New == (order \cap ((ks \ {k}) \X (ks \ {k}))) \cup ((ks \ {k}) \X {k})
<1>3. New \subseteq (ks \cup {k}) \X (ks \cup {k})
  OBVIOUS
<1>4. ASSUME NEW i \in ks \cup {k}, NEW j \in ks \cup {k}
      PROVE  <<i, j>> \in New <=> i # j /\ <<j, i>> \notin New
  <2>1. CASE i # k /\ j # k
    BY <1>1, <2>1
  <2>2. CASE i = k \/ j = k
    BY <2>2
  <2> QED BY <2>1, <2>2
<1> QED BY <1>2, <1>3, <1>4 DEF Ordered

\* An entry in the cache, in its parts.
LEMMA EntriesAreEntries ==
  ASSUME CacheIsSound, NEW k \in Cached
  PROVE  /\ k \in Keys /\ k[1] \in Hosts
         /\ cache[k].version \in Nat /\ cache[k].size \in Nat
         /\ cache[k] \in Entry
<1>1. cache[k] \in Entry /\ k \in Keys
  BY DEF CacheIsSound, Cached
<1> QED BY <1>1, CacheAssumption DEF Entry, Keys

\* Serving an entry changes the order alone.
LEMMA TouchIsSound ==
  ASSUME CacheIsSound, NEW k \in Cached, Touch(k), UNCHANGED memory
  PROVE  CacheIsSound'
<1>1. Ordered(Latest(k, Cached), Cached \cup {k})
  BY OrderIsKept DEF CacheIsSound, Latest, Only
<1>2. Cached \cup {k} = Cached /\ Cached' = Cached
  BY DEF Touch, Cached
<1>3. Ordered(older, Cached)'
  BY <1>1, <1>2 DEF Touch
<1>4. /\ cache \in [Keys -> Entry \cup {None}] /\ memory \in Int
      /\ IsFiniteSet(Cached) /\ Cardinality(Cached) <= MaxEntries
      /\ IsFiniteSet(BytesIn(cache, Cached))
      /\ memory <= Cardinality(BytesIn(cache, Cached))
  BY BytesAreBytesIn DEF CacheIsSound, MemoryIsNotOverstated
<1> QED
  BY <1>2, <1>3, <1>4, BytesAreBytesIn DEF CacheIsSound, MemoryIsNotOverstated, Touch

\* Entries that grow older keep their place and their size.
LEMMA AgeingIsSound ==
  ASSUME CacheIsSound, Tick
  PROVE  CacheIsSound'
<1> DEFINE Aged(k) == [cache[k] EXCEPT !.age = IF @ < LastAge THEN @ + 1 ELSE @]
<1>1. ASSUME NEW k \in Cached
      PROVE  Aged(k) \in Entry /\ Aged(k).size = cache[k].size /\ Aged(k) # None
  <2>1. cache[k] \in Entry
    BY DEF CacheIsSound, Cached
  <2>2. cache[k].age \in 0..LastAge /\ LastAge \in Nat
    BY <2>1, CacheAssumption DEF Entry, LastAge
  <2>3. (IF cache[k].age < LastAge THEN cache[k].age + 1 ELSE cache[k].age) \in 0..LastAge
    BY <2>2
  <2>4. Aged(k) \in Entry /\ Aged(k).size = cache[k].size
    BY <2>1, <2>3 DEF Entry
  <2> QED BY <2>4, CacheAssumption
<1>2. \A k \in Keys : cache'[k] = IF k \notin Cached THEN None ELSE Aged(k)
  BY DEF Tick
<1> HIDE DEF Aged
<1>3. cache' \in [Keys -> Entry \cup {None}]
  BY <1>1 DEF Tick, Aged
<1>4. Cached' = Cached
  BY <1>1, <1>2 DEF Cached
<1>5. \A k \in Cached : cache'[k].size = cache[k].size
  BY <1>1, <1>2 DEF Cached
<1>6. BytesIn(cache', Cached') = BytesIn(cache, Cached)
  BY <1>4, <1>5, BytesInSame
<1>7. older' = older /\ memory' = memory
  BY DEF Tick
<1>8. /\ IsFiniteSet(BytesIn(cache, Cached))
      /\ memory <= Cardinality(BytesIn(cache, Cached))
      /\ memory \in Int /\ Ordered(older, Cached)
      /\ IsFiniteSet(Cached) /\ Cardinality(Cached) <= MaxEntries
  BY BytesAreBytesIn DEF CacheIsSound, MemoryIsNotOverstated
<1>9. Ordered(older, Cached)'
  BY <1>4, <1>7, <1>8 DEF Ordered
<1> QED
  BY <1>3, <1>4, <1>6, <1>7, <1>8, <1>9, BytesAreBytesIn
  DEF CacheIsSound, MemoryIsNotOverstated

\* What is dropped is no longer counted; nothing else may be counted less than before.
LEMMA DropIsSound ==
  ASSUME CacheIsSound, NEW ks \in SUBSET Cached, Drop(ks),
         memory' = memory - TotalSize(ks) \/ memory' = 0
  PROVE  CacheIsSound'
<1> DEFINE Left == Cached \ ks
<1>1. /\ \A k \in Keys : cache'[k] = IF k \in ks THEN None ELSE cache[k]
      /\ cache' \in [Keys -> Entry \cup {None}]
      /\ older' = Only(Left)
  BY DEF Drop, CacheIsSound
<1>2. Cached' = Left
  BY <1>1 DEF Cached
<1>3. Ordered(older', Left)
  <2>1. Left \in SUBSET Cached
    OBVIOUS
  <2> QED BY <1>1, <2>1, OrderIsKept DEF CacheIsSound, Only
<1>4. Ordered(older, Cached)'
  BY <1>2, <1>3
<1>5. BytesIn(cache', Cached') = BytesIn(cache, Left)
  <2>1. \A k \in Left : cache'[k].size = cache[k].size
    BY <1>1 DEF Cached
  <2> QED BY <1>2, <2>1, BytesInSame
<1>6. IsFiniteSet(Left) /\ Cardinality(Left) <= MaxEntries
  <2>1. IsFiniteSet(Cached) /\ Cardinality(Cached) <= MaxEntries /\ Left \in SUBSET Cached
    BY DEF CacheIsSound
  <2>2. IsFiniteSet(Left) /\ Cardinality(Left) <= Cardinality(Cached)
    BY <2>1, FS_Subset
  <2>3. Cardinality(Left) \in Nat /\ Cardinality(Cached) \in Nat
    BY <2>1, <2>2, FS_CardinalityType
  <2> QED BY <2>1, <2>2, <2>3, CacheAssumption
<1>7. /\ IsFiniteSet(BytesIn(cache, Left))
      /\ memory' \in Int /\ memory' <= Cardinality(BytesIn(cache, Left))
  <2>1. /\ IsFiniteSet(BytesIn(cache, Cached)) /\ memory \in Int
        /\ memory <= Cardinality(BytesIn(cache, Cached))
        /\ TotalSize(ks) = Cardinality(BytesIn(cache, ks))
    BY BytesAreBytesIn DEF CacheIsSound, MemoryIsNotOverstated
  <2>2. /\ IsFiniteSet(BytesIn(cache, Left))
        /\ Cardinality(BytesIn(cache, Cached)) \in Nat
        /\ Cardinality(BytesIn(cache, ks)) \in Nat
        /\ Cardinality(BytesIn(cache, Left)) \in Nat
        /\ Cardinality(BytesIn(cache, Cached))
             = Cardinality(BytesIn(cache, ks)) + Cardinality(BytesIn(cache, Left))
    BY <2>1, BytesInSplit
  <2> QED BY <2>1, <2>2
<1> HIDE DEF Left
<1>8. CacheIsSound' <=>
        /\ cache' \in [Keys -> Entry \cup {None}]
        /\ Ordered(older, Cached)'
        /\ memory' \in Int
        /\ IsFiniteSet(Cached') /\ Cardinality(Cached') <= MaxEntries
        /\ IsFiniteSet(BytesIn(cache', Cached'))
        /\ memory' <= Cardinality(BytesIn(cache', Cached'))
  BY BytesAreBytesIn DEF CacheIsSound, MemoryIsNotOverstated
<1> QED BY <1>1, <1>2, <1>4, <1>5, <1>6, <1>7, <1>8

\* A put makes room, and counts what it stores: it uncounts the key's old entry, which
\* is overwritten if it is not evicted.
LEMMA PutIsSound ==
  ASSUME CacheIsSound, NEW k \in Keys, NEW entry \in Entry, Put(k, entry)
  PROVE  CacheIsSound'
<1>1. PICK gone \in SUBSET Cached :
        /\ Cardinality(Cached \ gone) < MaxEntries
        /\ cache' = [j \in Keys |-> IF j = k THEN entry ELSE IF j \in gone THEN None ELSE cache[j]]
        /\ older' = Latest(k, Cached \ gone)
        /\ memory' = memory - TotalSize(Cached \cap {k}) - TotalSize(gone) + entry.size
  BY DEF Put
<1> DEFINE Left == Cached \ gone
           Other == Left \ {k}
           Old == Cached \cap {k}
<1>2. /\ \A j \in Keys : cache'[j] = IF j = k THEN entry ELSE IF j \in gone THEN None ELSE cache[j]
      /\ cache' \in [Keys -> Entry \cup {None}]
  BY <1>1 DEF CacheIsSound
<1>3. entry.size \in Nat /\ entry # None
  BY CacheAssumption DEF Entry
<1>4. Cached' = Left \cup {k} /\ Cached' = Other \cup {k} /\ Left \in SUBSET Cached
  BY <1>2, <1>3 DEF Cached
<1>5. Ordered(older, Cached)'
  <2>1. Ordered(older', Left \cup {k})
    BY <1>1, <1>4, OrderIsKept DEF CacheIsSound, Latest, Only
  <2> QED BY <1>4, <2>1
<1>6. IsFiniteSet(Cached') /\ Cardinality(Cached') <= MaxEntries
  <2>1. IsFiniteSet(Left)
    BY <1>4, FS_Subset DEF CacheIsSound
  <2>2. Cardinality(Left) \in Nat
    BY <2>1, FS_CardinalityType
  <2>3. /\ IsFiniteSet(Left \cup {k})
        /\ Cardinality(Left \cup {k}) = IF k \in Left THEN Cardinality(Left) ELSE Cardinality(Left) + 1
    BY <2>1, FS_AddElement
  <2>4. Cardinality(Left) < MaxEntries
    BY <1>1
  <2> HIDE DEF Left
  <2>5. Cardinality(Left \cup {k}) <= MaxEntries
    BY <2>2, <2>3, <2>4, CacheAssumption
  <2> QED BY <1>4, <2>3, <2>5
<1>7. BytesIn(cache', Other) = BytesIn(cache, Other)
  <2>1. \A j \in Other : cache'[j].size = cache[j].size
    BY <1>2 DEF Cached
  <2> QED BY <2>1, BytesInSame
<1>8. IsFiniteSet(BytesIn(cache', {k})) /\ Cardinality(BytesIn(cache', {k})) = entry.size
  <2>1. cache'[k].size = entry.size
    BY <1>2
  <2> QED BY <1>3, <2>1, BytesOfOne
<1>9. /\ BytesIn(cache', Cached') = BytesIn(cache, Other) \cup BytesIn(cache', {k})
      /\ BytesIn(cache, Other) \cap BytesIn(cache', {k}) = {}
  <2>1. Other \cap {k} = {}
    OBVIOUS
  <2> HIDE DEF Other
  <2> QED BY <1>4, <1>7, <2>1, BytesInParts
<1>10. /\ IsFiniteSet(BytesIn(cache, Cached)) /\ memory \in Int
       /\ memory <= Cardinality(BytesIn(cache, Cached))
       /\ TotalSize(gone) = Cardinality(BytesIn(cache, gone))
       /\ TotalSize(Old) = Cardinality(BytesIn(cache, Old))
  BY BytesAreBytesIn DEF CacheIsSound, MemoryIsNotOverstated
<1>11. /\ IsFiniteSet(BytesIn(cache, Left))
       /\ Cardinality(BytesIn(cache, Cached)) \in Nat
       /\ Cardinality(BytesIn(cache, gone)) \in Nat
       /\ Cardinality(BytesIn(cache, Left)) \in Nat
       /\ Cardinality(BytesIn(cache, Cached))
            = Cardinality(BytesIn(cache, gone)) + Cardinality(BytesIn(cache, Left))
  BY <1>10, BytesInSplit
<1>12. /\ IsFiniteSet(BytesIn(cache, Other))
       /\ Cardinality(BytesIn(cache, Left \cap {k})) \in Nat
       /\ Cardinality(BytesIn(cache, Other)) \in Nat
       /\ Cardinality(BytesIn(cache, Left))
            = Cardinality(BytesIn(cache, Left \cap {k})) + Cardinality(BytesIn(cache, Other))
  <2>1. Left \cap {k} \in SUBSET Left /\ Left \ (Left \cap {k}) = Other
    OBVIOUS
  <2> HIDE DEF Left, Other
  <2> QED BY <1>11, <2>1, BytesInSplit
<1>13. /\ Cardinality(BytesIn(cache, Left \cap {k})) <= Cardinality(BytesIn(cache, Old))
       /\ Cardinality(BytesIn(cache, Old)) \in Nat
  <2>1. Left \cap {k} \subseteq Old /\ Old \in SUBSET Cached
    OBVIOUS
  <2> HIDE DEF Left, Old
  <2>2. IsFiniteSet(BytesIn(cache, Old)) /\ Cardinality(BytesIn(cache, Old)) \in Nat
    BY <1>10, <2>1, BytesInSplit
  <2>3. BytesIn(cache, Left \cap {k}) \in SUBSET BytesIn(cache, Old)
    BY <2>1, BytesInParts
  <2> QED BY <2>2, <2>3, FS_Subset
<1>14. /\ IsFiniteSet(BytesIn(cache', Cached'))
       /\ Cardinality(BytesIn(cache', Cached')) = Cardinality(BytesIn(cache, Other)) + entry.size
  <2> DEFINE A == BytesIn(cache, Other)
             B == BytesIn(cache', {k})
  <2>1. IsFiniteSet(A) /\ IsFiniteSet(B) /\ A \cap B = {} /\ Cardinality(A) \in Nat
        /\ Cardinality(B) = entry.size
    BY <1>8, <1>9, <1>12
  <2>2. BytesIn(cache', Cached') = A \cup B
    BY <1>9
  <2> HIDE DEF A, B
  <2>3. IsFiniteSet(A \cup B) /\ Cardinality(A \cup B) = Cardinality(A) + Cardinality(B) - Cardinality(A \cap B)
    BY <2>1, FS_Union
  <2>4. Cardinality(A \cap B) = 0
    BY <2>1, FS_EmptySet
  <2>5. Cardinality(A \cup B) = Cardinality(A) + entry.size
    BY <1>3, <2>1, <2>3, <2>4
  <2> QED BY <2>2, <2>3, <2>5 DEF A
<1>15. memory' = memory - TotalSize(Old) - TotalSize(gone) + entry.size
  BY <1>1
<1> HIDE DEF Left, Other, Old
<1>16. memory' \in Int /\ memory' <= Cardinality(BytesIn(cache', Cached'))
  BY <1>3, <1>10, <1>11, <1>12, <1>13, <1>14, <1>15
<1> QED
  BY <1>2, <1>5, <1>6, <1>14, <1>16, BytesAreBytesIn DEF CacheIsSound, MemoryIsNotOverstated

-----------------------------------------------------------------------------
(* What the calls know *)

\* A step of one call that takes the lock of its host, gives it back, or neither,
\* leaves every call that is past the lock in possession of it.
LEMMA StepKeepsLocks ==
  ASSUME CallsAreSound, KeysGiven, LocksHeld,
         NEW c \in Calls, NEW to \in Steps \ {"new"}, NEW k \in Keys,
         pc' = [pc EXCEPT ![c] = to], key' = [key EXCEPT ![c] = k],
         \/ /\ lock' = lock
            /\ to \in PastLock => pc[c] \in PastLock /\ k = key[c]
         \/ lock[k[1]] = None /\ lock' = [lock EXCEPT ![k[1]] = c]
         \/ to \notin PastLock /\ k = key[c] /\ Unlock(c)
  PROVE  /\ lock' \in [Hosts -> Calls \cup {None}]
         /\ pc' \in [Calls -> Steps]
         /\ key' \in [Calls -> Keys \cup {None}]
         /\ KeysGiven' /\ LocksHeld'
<1>1. /\ lock \in [Hosts -> Calls \cup {None}]
      /\ pc \in [Calls -> Steps]
      /\ key \in [Calls -> Keys \cup {None}]
      /\ k[1] \in Hosts
      /\ \A d \in Calls : d # None
  BY CacheAssumption DEF CallsAreSound, Keys
<1>2. /\ pc' \in [Calls -> Steps] /\ key' \in [Calls -> Keys \cup {None}]
      /\ \A d \in Calls \ {c} : pc'[d] = pc[d] /\ key'[d] = key[d]
      /\ pc'[c] = to /\ key'[c] = k
  BY <1>1
<1>3. lock' \in [Hosts -> Calls \cup {None}]
  BY <1>1 DEF Unlock
<1>4. ASSUME NEW d \in Calls, pc'[d] # "new"
      PROVE  key'[d] \in Keys
  BY <1>2, <1>4 DEF KeysGiven
<1>5. ASSUME NEW d \in Calls \ {c}, pc'[d] \in PastLock
      PROVE  lock'[key'[d][1]] = d
  <2>1. pc[d] \in PastLock /\ key'[d] = key[d]
    BY <1>2, <1>5
  <2>2. lock[key[d][1]] = d /\ key[d] \in Keys
    BY <2>1 DEF LocksHeld, KeysGiven, PastLock
  <2>3. key[d][1] \in Hosts
    BY <2>2 DEF Keys
  <2>4. lock'[key[d][1]] = d
    <3>1. CASE lock' = lock
      BY <2>2, <3>1
    <3>2. CASE lock[k[1]] = None /\ lock' = [lock EXCEPT ![k[1]] = c]
      BY <1>1, <2>2, <2>3, <3>2
    <3>3. CASE Unlock(c)
      BY <1>1, <1>5, <2>2, <2>3, <3>3 DEF Unlock
    <3> QED BY <3>1, <3>2, <3>3
  <2> QED BY <2>1, <2>4
<1>6. ASSUME to \in PastLock
      PROVE  lock'[k[1]] = c
  <2>1. CASE lock' = lock /\ pc[c] \in PastLock /\ k = key[c]
    BY <2>1 DEF LocksHeld, PastLock
  <2>2. CASE lock' = [lock EXCEPT ![k[1]] = c]
    BY <1>1, <2>2
  <2> QED BY <1>6, <2>1, <2>2
<1>7. KeysGiven'
  BY <1>4 DEF KeysGiven
<1>8. LocksHeld'
  BY <1>2, <1>5, <1>6 DEF LocksHeld, PastLock
<1> QED BY <1>2, <1>3, <1>7, <1>8

\* A host that is not adrift after a step has not changed in it, and was not adrift
\* before or has nobody about to store an outdated answer.
DevicesMoveOn ==
  \A h \in Hosts :
    /\ running'[h] \in Nat /\ running'[h] >= running[h]
    /\ h \notin drifted' => running'[h] = running[h] /\ (h \notin drifted \/ h \notin Overtaken)

\* An answer in hand stays as good as it was.
LEMMA AnswersStayInHand ==
  ASSUME DevicesAreSound, CallsAreSound, KeysGiven, LocksHeld, AnswersInHand, DevicesMoveOn,
         NEW s \in Shows, pc[s] = "putting",
         key'[s] = key[s], answer'[s] = answer[s]
  PROVE  /\ answer'[s].size \in Sizes
         /\ answer'[s].version <= running'[key'[s][1]]
         /\ key'[s][1] \notin drifted' => answer'[s].version = running'[key'[s][1]]
<1> DEFINE h == key[s][1]
<1>1. s \in Calls
  BY DEF Calls
<1>2. h \in Hosts /\ lock[h] = s
  <2>1. key[s] \in Keys /\ lock[h] = s
    BY <1>1 DEF KeysGiven, LocksHeld, PastLock
  <2> QED BY <2>1 DEF Keys
<1>3. /\ answer[s].size \in Sizes /\ answer[s].version <= running[h]
      /\ h \notin drifted => answer[s].version = running[h]
      /\ answer[s].version \in Nat /\ running[h] \in Nat
  <2>1. /\ answer[s].size \in Sizes /\ answer[s].version <= running[h]
        /\ h \notin drifted => answer[s].version = running[h]
    BY DEF AnswersInHand
  <2>2. answer[s].version \in Nat /\ running[h] \in Nat
    BY <1>2 DEF CallsAreSound, DevicesAreSound
  <2> QED BY <2>1, <2>2
<1>4. /\ running'[h] \in Nat /\ running'[h] >= running[h]
      /\ h \notin drifted' => running'[h] = running[h] /\ (h \notin drifted \/ h \notin Overtaken)
  BY <1>2 DEF DevicesMoveOn
<1>5. answer[s].version # running[h] => h \in Overtaken
  BY <1>2 DEF Overtaken
<1> HIDE DEF h
<1>6. h \notin drifted' => answer[s].version = running'[h]
  BY <1>3, <1>4, <1>5
<1>7. answer[s].version <= running'[h]
  BY <1>3, <1>4
<1> QED BY <1>3, <1>6, <1>7 DEF h

CallsInv == DevicesAreSound /\ CallsAreSound /\ KeysGiven /\ LocksHeld /\ AnswersInHand

\* A step that puts no answer into anyone's hand.
LEMMA OldAnswersInHand ==
  ASSUME CallsInv, DevicesMoveOn, answer' = answer,
         \A s \in Shows : pc'[s] = "putting" => pc[s] = "putting" /\ key'[s] = key[s]
  PROVE  AnswersInHand'
BY AnswersStayInHand DEF CallsInv, AnswersInHand

\* The three ways in which devices and the record of who is adrift go on.
LEMMA DevicesStay ==
  ASSUME DevicesAreSound, UNCHANGED <<running, drifted>>
  PROVE  DevicesMoveOn /\ DevicesAreSound'
BY DEF DevicesMoveOn, DevicesAreSound

LEMMA DeviceChanges ==
  ASSUME DevicesAreSound, NEW k \in Keys,
         running' = [running EXCEPT ![k[1]] = @ + 1], drifted' = drifted \cup {k[1]}
  PROVE  DevicesMoveOn /\ DevicesAreSound'
<1>1. k[1] \in Hosts /\ running \in [Hosts -> Nat] /\ drifted \subseteq Hosts
  BY DEF Keys, DevicesAreSound
<1>2. \A h \in Hosts : running'[h] = IF h = k[1] THEN running[h] + 1 ELSE running[h]
  BY <1>1
<1>3. running' \in [Hosts -> Nat]
  BY <1>1
<1>4. ASSUME NEW h \in Hosts
      PROVE  /\ running'[h] \in Nat /\ running'[h] >= running[h]
             /\ h \notin drifted' => running'[h] = running[h] /\ h \notin drifted
  BY <1>1, <1>2, <1>4
<1> QED BY <1>1, <1>3, <1>4 DEF DevicesMoveOn, DevicesAreSound

LEMMA DevicesSettle ==
  ASSUME DevicesAreSound, UNCHANGED running, NEW hs, drifted' = drifted \ (hs \ Overtaken)
  PROVE  DevicesMoveOn /\ DevicesAreSound'
BY DEF DevicesMoveOn, DevicesAreSound

\* What the calls know survives each step of a show...
LEMMA ShowsKeepCalls ==
  ASSUME CallsInv, NEW s \in Shows
  PROVE  /\ \A k \in Keys : Hit(s, k) \/ Miss(s, k) => CallsInv'
         /\ LockHost(s, "fetch", "reading") => CallsInv'
         /\ \A size \in Sizes : Read(s, size) => CallsInv'
         /\ TurnedAway(s) \/ PutAnswer(s) \/ ReadFails(s) \/ Fallback(s) => CallsInv'
<1> s \in Calls
  BY DEF Calls
<1>1. /\ pc \in [Calls -> Steps] /\ key \in [Calls -> Keys \cup {None}]
      /\ \A t \in Shows : t \in Calls
  BY DEF CallsInv, CallsAreSound, Calls
<1>2. pc[s] # "new" => key[s] \in Keys /\ key = [key EXCEPT ![s] = key[s]]
  BY <1>1 DEF CallsInv, KeysGiven
<1>3. \A from, to : Goto(s, from, to) =>
        pc[s] = from /\ pc' = [pc EXCEPT ![s] = to] /\ pc'[s] = to /\ \A c \in Calls \ {s} : pc'[c] = pc[c]
  BY <1>1 DEF Goto
<1>4. ASSUME NEW k \in Keys, Hit(s, k) \/ Miss(s, k)
      PROVE  CallsInv'
  <2>1. PICK to \in {"done", "fetch"} : Goto(s, "new", to)
    BY <1>4 DEF Hit, Miss
  <2>2. /\ key' = [key EXCEPT ![s] = k] /\ lock' = lock /\ answer' = answer
        /\ UNCHANGED <<running, drifted>>
    BY <1>4 DEF Hit, Miss
  <2>3. to \in Steps \ {"new"} /\ to \notin PastLock
    BY <2>1 DEF Steps, PastLock
  <2>4. CallsAreSound' /\ KeysGiven' /\ LocksHeld'
    BY <1>3, <2>1, <2>2, <2>3, StepKeepsLocks DEF CallsInv, CallsAreSound
  <2>5. \A t \in Shows : pc'[t] = "putting" => pc[t] = "putting" /\ key'[t] = key[t]
    BY <1>1, <1>3, <2>1, <2>2
  <2>6. DevicesMoveOn /\ DevicesAreSound'
    BY <2>2, DevicesStay DEF CallsInv
  <2> QED BY <2>2, <2>4, <2>5, <2>6, OldAnswersInHand DEF CallsInv
<1>5. ASSUME LockHost(s, "fetch", "reading")
      PROVE  CallsInv'
  <2>1. /\ Goto(s, "fetch", "reading") /\ key' = key /\ answer' = answer
        /\ lock[key[s][1]] = None /\ lock' = [lock EXCEPT ![key[s][1]] = s]
        /\ UNCHANGED <<running, drifted>>
    BY <1>5 DEF LockHost
  <2>2. key[s] \in Keys /\ key' = [key EXCEPT ![s] = key[s]]
    BY <1>2, <1>3, <2>1
  <2>3. "reading" \in Steps \ {"new"} /\ pc' = [pc EXCEPT ![s] = "reading"]
    BY <1>3, <2>1 DEF Steps
  <2>4. CallsAreSound' /\ KeysGiven' /\ LocksHeld'
    <3> DEFINE k == key[s]
    <3>1. k \in Keys /\ key' = [key EXCEPT ![s] = k]
      BY <2>2
    <3>2. lock[k[1]] = None /\ lock' = [lock EXCEPT ![k[1]] = s]
      BY <2>1
    <3> HIDE DEF k
    <3> QED BY <2>1, <2>3, <3>1, <3>2, StepKeepsLocks DEF CallsInv, CallsAreSound
  <2>5. \A t \in Shows : pc'[t] = "putting" => pc[t] = "putting" /\ key'[t] = key[t]
    BY <1>1, <1>3, <2>1
  <2>6. DevicesMoveOn /\ DevicesAreSound'
    BY <2>1, DevicesStay DEF CallsInv
  <2> QED BY <2>1, <2>4, <2>5, <2>6, OldAnswersInHand DEF CallsInv
<1>6. ASSUME NEW size \in Sizes, Read(s, size)
      PROVE  CallsInv'
  <2>1. /\ Goto(s, "reading", "putting") /\ key' = key /\ lock' = lock
        /\ answer' = [answer EXCEPT ![s] = [version |-> running[key[s][1]], size |-> size]]
        /\ UNCHANGED <<running, drifted>>
    BY <1>6 DEF Read
  <2>2. key[s] \in Keys /\ key' = [key EXCEPT ![s] = key[s]] /\ key[s][1] \in Hosts
    BY <1>2, <1>3, <2>1 DEF Keys
  <2>3. /\ "putting" \in Steps \ {"new"} /\ pc[s] \in PastLock
        /\ pc' = [pc EXCEPT ![s] = "putting"]
    BY <1>3, <2>1 DEF Steps, PastLock
  <2>4. /\ KeysGiven' /\ LocksHeld'
        /\ lock' \in [Hosts -> Calls \cup {None}] /\ pc' \in [Calls -> Steps]
        /\ key' \in [Calls -> Keys \cup {None}]
    <3> DEFINE k == key[s]
    <3>1. k \in Keys /\ key' = [key EXCEPT ![s] = k] /\ k = key[s]
      BY <2>2
    <3> HIDE DEF k
    <3> QED BY <2>1, <2>3, <3>1, StepKeepsLocks DEF CallsInv
  <2>5. /\ answer' \in [Shows -> [version : Nat, size : Sizes \cup {0}]]
        /\ answer'[s] = [version |-> running[key[s][1]], size |-> size]
        /\ \A t \in Shows \ {s} : answer'[t] = answer[t]
    <3>1. [version |-> running[key[s][1]], size |-> size] \in [version : Nat, size : Sizes \cup {0}]
      BY <2>2 DEF CallsInv, DevicesAreSound
    <3>2. answer \in [Shows -> [version : Nat, size : Sizes \cup {0}]]
      BY DEF CallsInv, CallsAreSound
    <3> QED BY <2>1, <3>1, <3>2
  <2>6. DevicesMoveOn /\ DevicesAreSound'
    BY <2>1, DevicesStay DEF CallsInv
  <2>7. ASSUME NEW t \in Shows, pc'[t] = "putting"
        PROVE  /\ answer'[t].size \in Sizes
               /\ answer'[t].version <= running'[key'[t][1]]
               /\ key'[t][1] \notin drifted' => answer'[t].version = running'[key'[t][1]]
    <3>1. CASE t = s
      <4>1. answer'[t].size = size /\ answer'[t].version = running[key[s][1]]
        BY <2>5, <3>1
      <4>2. running'[key'[t][1]] = running[key[s][1]] /\ running[key[s][1]] \in Nat
        BY <2>1, <2>2, <3>1 DEF CallsInv, DevicesAreSound
      <4> QED BY <4>1, <4>2
    <3>2. CASE t # s
      <4>1. pc[t] = "putting" /\ key'[t] = key[t] /\ answer'[t] = answer[t]
        BY <1>1, <1>3, <2>1, <2>5, <2>7, <3>2
      <4> QED BY <2>6, <4>1, AnswersStayInHand DEF CallsInv
    <3> QED BY <3>1, <3>2
  <2> QED BY <2>4, <2>5, <2>6, <2>7 DEF CallsInv, CallsAreSound, AnswersInHand
<1>7. ASSUME TurnedAway(s) \/ PutAnswer(s) \/ ReadFails(s) \/ Fallback(s)
      PROVE  CallsInv'
  <2>1. PICK from \in {"fetch", "putting", "reading", "fallback"}, to \in {"fallback", "done"} :
          Goto(s, from, to)
    BY <1>7 DEF TurnedAway, PutAnswer, ReadFails, Fallback
  <2>2. /\ lock' = lock \/ Unlock(s)
        /\ key' = key /\ answer' = answer /\ UNCHANGED <<running, drifted>>
    BY <1>7 DEF TurnedAway, PutAnswer, ReadFails, Fallback
  <2>3. to \in Steps \ {"new"} /\ to \notin PastLock
    BY DEF Steps, PastLock
  <2>4. key[s] \in Keys /\ key' = [key EXCEPT ![s] = key[s]]
    BY <1>2, <1>3, <2>1, <2>2
  <2>5. CallsAreSound' /\ KeysGiven' /\ LocksHeld'
    <3> DEFINE k == key[s]
    <3>1. k \in Keys /\ key' = [key EXCEPT ![s] = k] /\ k = key[s]
      BY <2>4
    <3>2. pc' = [pc EXCEPT ![s] = to]
      BY <1>3, <2>1
    <3> HIDE DEF k
    <3> QED BY <2>2, <2>3, <3>1, <3>2, StepKeepsLocks DEF CallsInv, CallsAreSound
  <2>6. \A t \in Shows : pc'[t] = "putting" => pc[t] = "putting" /\ key'[t] = key[t]
    BY <1>1, <1>3, <2>1, <2>2
  <2>7. DevicesMoveOn /\ DevicesAreSound'
    BY <2>2, DevicesStay DEF CallsInv
  <2> QED BY <2>2, <2>5, <2>6, <2>7, OldAnswersInHand DEF CallsInv
<1> QED BY <1>4, <1>5, <1>6, <1>7

\* ... and each step of a change.
LEMMA ChangesKeepCalls ==
  ASSUME CallsInv, NEW c \in Changes
  PROVE  /\ \A k \in Keys : StartChange(c, k) \/ Stage(c, k) => CallsInv'
         /\ Push(c) \/ Invalidate(c) \/ PushFails(c) \/ RollBack(c) => CallsInv'
<1> c \in Calls
  BY DEF Calls
<1>1. /\ pc \in [Calls -> Steps] /\ key \in [Calls -> Keys \cup {None}]
      /\ \A t \in Shows : t \in Calls /\ t # c
  BY CacheAssumption DEF CallsInv, CallsAreSound, Calls
<1>2. pc[c] # "new" => key[c] \in Keys /\ key = [key EXCEPT ![c] = key[c]]
  BY <1>1 DEF CallsInv, KeysGiven
<1>3. \A to : pc' = [pc EXCEPT ![c] = to] => \A s \in Shows : pc'[s] = pc[s]
  BY <1>1
<1>4. ASSUME NEW k \in Keys, StartChange(c, k)
      PROVE  CallsInv'
  <2>1. /\ pc' = [pc EXCEPT ![c] = "changing"] /\ lock[k[1]] = None
        /\ key' = [key EXCEPT ![c] = k] /\ lock' = [lock EXCEPT ![k[1]] = c]
        /\ answer' = answer /\ UNCHANGED <<running, drifted>>
    BY <1>4 DEF StartChange
  <2>2. "changing" \in Steps \ {"new"}
    BY DEF Steps
  <2>3. CallsAreSound' /\ KeysGiven' /\ LocksHeld'
    BY <2>1, <2>2, StepKeepsLocks DEF CallsInv, CallsAreSound
  <2>4. \A t \in Shows : pc'[t] = "putting" => pc[t] = "putting" /\ key'[t] = key[t]
    BY <1>1, <1>3, <2>1
  <2>5. DevicesMoveOn /\ DevicesAreSound'
    BY <2>1, DevicesStay DEF CallsInv
  <2> QED BY <2>1, <2>3, <2>4, <2>5, OldAnswersInHand DEF CallsInv
<1>5. ASSUME NEW k \in Keys, Stage(c, k)
      PROVE  CallsInv'
  <2>1. /\ pc' = [pc EXCEPT ![c] = "done"] /\ lock' = lock
        /\ key' = [key EXCEPT ![c] = k] /\ answer' = answer
        /\ running' = [running EXCEPT ![k[1]] = @ + 1] /\ drifted' = drifted \cup {k[1]}
    BY <1>5 DEF Stage
  <2>2. "done" \in Steps \ {"new"} /\ "done" \notin PastLock
    BY DEF Steps, PastLock
  <2>3. CallsAreSound' /\ KeysGiven' /\ LocksHeld'
    BY <2>1, <2>2, StepKeepsLocks DEF CallsInv, CallsAreSound
  <2>4. \A t \in Shows : pc'[t] = "putting" => pc[t] = "putting" /\ key'[t] = key[t]
    BY <1>1, <1>3, <2>1
  <2>5. DevicesMoveOn /\ DevicesAreSound'
    BY <2>1, DeviceChanges DEF CallsInv
  <2> QED BY <2>1, <2>3, <2>4, <2>5, OldAnswersInHand DEF CallsInv
<1>6. ASSUME Push(c) \/ Invalidate(c) \/ PushFails(c) \/ RollBack(c)
      PROVE  CallsInv'
  <2> DEFINE k == key[c]
  <2>1. PICK from \in {"changing", "invalidating"}, to \in {"invalidating", "done"} :
          /\ Goto(c, from, to)
          /\ lock' = lock \/ (to = "done" /\ Unlock(c))
    <3>1. CASE Push(c)
      BY <3>1 DEF Push
    <3>2. CASE Invalidate(c)
      BY <3>2 DEF Invalidate
    <3>3. CASE PushFails(c) \/ RollBack(c)
      BY <3>3 DEF PushFails, RollBack
    <3> QED BY <1>6, <3>1, <3>2, <3>3
  <2>2. key' = key /\ answer' = answer
    BY <1>6 DEF Push, Invalidate, PushFails, RollBack
  <2>3. /\ to \in Steps \ {"new"} /\ from \in PastLock
        /\ to = "done" => to \notin PastLock
    BY DEF Steps, PastLock
  <2>4. pc[c] = from /\ pc' = [pc EXCEPT ![c] = to] /\ pc[c] # "new"
    BY <2>1 DEF Goto
  <2>5. k \in Keys /\ key' = [key EXCEPT ![c] = k] /\ k = key[c]
    BY <1>2, <2>2, <2>4
  <2>6. \A t \in Shows : pc'[t] = "putting" => pc[t] = "putting" /\ key'[t] = key[t]
    BY <1>1, <1>3, <2>2, <2>4
  <2>7. \/ UNCHANGED <<running, drifted>>
        \/ /\ running' = [running EXCEPT ![k[1]] = @ + 1]
           /\ drifted' = drifted \cup {k[1]}
        \/ running' = running /\ drifted' = drifted \ ({k[1]} \ Overtaken)
    BY <1>6 DEF Push, Invalidate, PushFails, RollBack, Changed, InvalidateHost
  <2> HIDE DEF k
  <2>8. DevicesMoveOn /\ DevicesAreSound'
    BY <2>5, <2>7, DevicesStay, DeviceChanges, DevicesSettle DEF CallsInv
  <2>9. CallsAreSound' /\ KeysGiven' /\ LocksHeld'
    BY <2>1, <2>2, <2>3, <2>4, <2>5, StepKeepsLocks DEF CallsInv, CallsAreSound
  <2> QED BY <2>2, <2>6, <2>8, <2>9, OldAnswersInHand DEF CallsInv
<1> QED BY <1>4, <1>5, <1>6

\* What is dropped by hand settles no host that a show is about to store an outdated
\* answer of.
LEMMA OthersKeepCalls ==
  ASSUME CallsInv, (\E h \in Hosts : ClearHost(h)) \/ Clear \/ Tick
  PROVE  CallsInv'
<1>1. /\ UNCHANGED <<running, lock, pc, key, answer>>
      /\ \/ \E h \in Hosts : drifted' = drifted \ ({h} \ Overtaken)
         \/ drifted' = drifted \cap Overtaken
         \/ drifted' = drifted
  BY DEF ClearHost, InvalidateHost, Clear, Tick
<1>2. drifted \cap Overtaken = drifted \ (drifted \ Overtaken)
  OBVIOUS
<1>3. DevicesMoveOn /\ DevicesAreSound'
  BY <1>1, <1>2, DevicesStay, DevicesSettle DEF CallsInv
<1>4. AnswersInHand'
  BY <1>1, <1>3, OldAnswersInHand
<1> QED BY <1>1, <1>3, <1>4 DEF CallsInv, CallsAreSound, KeysGiven, LocksHeld

-----------------------------------------------------------------------------
(* The inductive invariant *)

\* Every step leaves the cache sound: it stores what a show holds, drops, serves,
\* lets entries age, or leaves the cache alone.
LEMMA NextKeepsCache ==
  ASSUME IInv, [Next]_vars
  PROVE  CacheIsSound'
<1>1. ASSUME NEW ks \in SUBSET Cached, Drop(ks), memory' = memory - TotalSize(ks) \/ memory' = 0
      PROVE  CacheIsSound'
  BY <1>1, DropIsSound DEF IInv
<1>2. ASSUME NEW h, InvalidateHost(h)
      PROVE  CacheIsSound'
  <2>1. OfHost(h) \in SUBSET Cached
    BY DEF OfHost
  <2> QED BY <1>1, <1>2, <2>1 DEF InvalidateHost
<1>3. ASSUME UNCHANGED <<cache, older, memory>>
      PROVE  CacheIsSound'
  BY <1>3 DEF IInv, CacheIsSound, Ordered, Cached, Bytes, MemoryIsNotOverstated, TotalSize
<1>4. ASSUME NEW s \in Shows, NEW k \in Keys, Hit(s, k)
      PROVE  CacheIsSound'
  BY <1>4, TouchIsSound DEF Hit, IInv
<1>5. ASSUME NEW s \in Shows, Fallback(s)
      PROVE  CacheIsSound'
  <2>1. memory' = memory /\ \/ key[s] \in Cached /\ Touch(key[s])
                            \/ UNCHANGED <<cache, older>>
    BY <1>5 DEF Fallback
  <2> QED BY <1>3, <2>1, TouchIsSound DEF IInv
<1>6. ASSUME NEW s \in Shows, PutAnswer(s)
      PROVE  CacheIsSound'
  <2>1. s \in Calls /\ pc[s] = "putting"
    BY <1>6 DEF PutAnswer, Goto, Calls
  <2>2. key[s] \in Keys
    BY <2>1 DEF IInv, KeysGiven
  <2>3. answer[s].size \in Sizes /\ answer[s].version \in Nat
    BY <2>1 DEF IInv, AnswersInHand, CallsAreSound
  <2>4. 0 \in 0..LastAge
    BY CacheAssumption DEF LastAge
  <2>5. [version |-> answer[s].version, size |-> answer[s].size, age |-> 0] \in Entry
    BY <2>3, <2>4 DEF Entry
  <2> QED BY <1>6, <2>2, <2>5, PutIsSound DEF PutAnswer, IInv
<1>7. ASSUME NEW s \in Shows,
             \/ \E k \in Keys : Miss(s, k)
             \/ LockHost(s, "fetch", "reading")
             \/ \E size \in Sizes : Read(s, size)
             \/ TurnedAway(s) \/ ReadFails(s)
      PROVE  CacheIsSound'
  BY <1>3, <1>7 DEF Miss, LockHost, Read, TurnedAway, ReadFails
<1>8. ASSUME NEW c \in Changes,
             \/ \E k \in Keys : StartChange(c, k) \/ Stage(c, k)
             \/ Push(c) \/ PushFails(c) \/ RollBack(c)
      PROVE  CacheIsSound'
  BY <1>3, <1>8 DEF StartChange, Stage, Push, PushFails, RollBack
<1>9. ASSUME NEW c \in Changes, Invalidate(c)
      PROVE  CacheIsSound'
  BY <1>2, <1>9 DEF Invalidate
<1>10. ASSUME NEW h \in Hosts, ClearHost(h)
       PROVE  CacheIsSound'
  BY <1>2, <1>10 DEF ClearHost
<1>11. CASE Clear
  BY <1>1, <1>11 DEF Clear
<1>12. CASE Tick
  BY <1>12, AgeingIsSound DEF IInv
<1>13. CASE UNCHANGED vars
  BY <1>3, <1>13 DEF vars
<1> QED
  BY <1>4, <1>5, <1>6, <1>7, <1>8, <1>9, <1>10, <1>11, <1>12, <1>13 DEF Next

LEMMA InitIInv == Init => IInv
<1> SUFFICES ASSUME Init PROVE IInv
  OBVIOUS
<1>1. /\ cache \in [Keys -> Entry \cup {None}] /\ older = {} /\ memory = 0
      /\ Cached = {}
  BY DEF Init, Cached
<1>2. BytesIn(cache, Cached) = {}
  BY <1>1 DEF BytesIn
<1>3. IsFiniteSet({}) /\ Cardinality({}) = 0
  BY FS_EmptySet
<1>4. CacheIsSound
  BY <1>1, <1>2, <1>3, BytesAreBytesIn, CacheAssumption
  DEF CacheIsSound, Ordered, MemoryIsNotOverstated
<1>5. DevicesAreSound /\ CallsAreSound
  BY DEF Init, DevicesAreSound, CallsAreSound, Steps
<1>6. KeysGiven /\ LocksHeld /\ AnswersInHand
  <2>1. \A c \in Calls : pc[c] = "new"
    BY DEF Init
  <2>2. \A s \in Shows : s \in Calls
    BY DEF Calls
  <2> QED BY <2>1, <2>2 DEF KeysGiven, LocksHeld, AnswersInHand, PastLock
<1> QED BY <1>4, <1>5, <1>6 DEF IInv

LEMMA NextKeepsIInv ==
  ASSUME IInv, [Next]_vars
  PROVE  IInv'
<1>1. CallsInv
  BY DEF IInv, CallsInv
<1>2. CallsInv'
  <2>1. ASSUME NEW s \in Shows,
               \/ \E k \in Keys : Hit(s, k) \/ Miss(s, k)
               \/ LockHost(s, "fetch", "reading")
               \/ \E size \in Sizes : Read(s, size)
               \/ TurnedAway(s) \/ PutAnswer(s) \/ ReadFails(s) \/ Fallback(s)
        PROVE  CallsInv'
    BY <1>1, <2>1, ShowsKeepCalls
  <2>2. ASSUME NEW c \in Changes,
               \/ \E k \in Keys : StartChange(c, k) \/ Stage(c, k)
               \/ Push(c) \/ Invalidate(c) \/ PushFails(c) \/ RollBack(c)
        PROVE  CallsInv'
    BY <1>1, <2>2, ChangesKeepCalls
  <2>3. ASSUME (\E h \in Hosts : ClearHost(h)) \/ Clear \/ Tick
        PROVE  CallsInv'
    BY <1>1, <2>3, OthersKeepCalls
  <2>4. CASE UNCHANGED vars
    BY <1>1, <2>4
    DEF vars, CallsInv, DevicesAreSound, CallsAreSound, KeysGiven, LocksHeld, AnswersInHand
  <2> QED BY <2>1, <2>2, <2>3, <2>4 DEF Next
<1> QED BY <1>2, NextKeepsCache DEF CallsInv, IInv

LEMMA IInvHolds == Spec => []IInv
BY InitIInv, NextKeepsIInv, PTL DEF Spec

-----------------------------------------------------------------------------
(* Theorems *)

\* The cache, its order of use and its counter, and what every call has in hand, keep
\* their types.
THEOREM TypeCorrect == Spec => []TypeOK
<1>1. IInv => TypeOK
  BY DEF IInv, CacheIsSound, Ordered, DevicesAreSound, CallsAreSound, TypeOK
<1> QED BY <1>1, IInvHolds, PTL

\* _current_memory_bytes never claims more than the entries take up, though put
\* uncounts an old entry that its own evictions may uncount again.
THEOREM MemoryIsBacked == Spec => []MemoryIsNotOverstated
<1>1. IInv => MemoryIsNotOverstated
  BY DEF IInv, CacheIsSound
<1> QED BY <1>1, IInvHolds, PTL

\* The cache holds at most max_entries answers, whoever puts them.
THEOREM CacheStaysBounded == Spec => [](IsFiniteSet(Cached) /\ Cardinality(Cached) <= MaxEntries)
<1>1. IInv => IsFiniteSet(Cached) /\ Cardinality(Cached) <= MaxEntries
  BY DEF IInv, CacheIsSound
<1> QED BY <1>1, IInvHolds, PTL

-----------------------------------------------------------------------------
(* The cache implements a coherent store *)

\* What the store holds is read off the entries, before and after a step.
LEMMA StoredIs ==
  /\ Stored \in [Keys -> {Stored[k] : k \in Keys}]
  /\ \A k \in Keys : Stored[k] = IF cache[k] # None THEN cache[k].version ELSE None
  /\ Stored' = [k \in Keys |-> IF cache'[k] # None THEN cache'[k].version ELSE None]
BY DEF Stored, Cached

\* Entries that are served, age or are left alone are the same store.
LEMMA SameStore ==
  ASSUME \A k \in Keys : /\ cache'[k] = None <=> cache[k] = None
                         /\ cache[k] # None => cache'[k].version = cache[k].version
  PROVE  Stored' = Stored
<1>1. \A k \in Keys : (IF cache'[k] # None THEN cache'[k].version ELSE None) = Stored[k]
  BY StoredIs
<1> QED BY <1>1, StoredIs

\* Dropping the entries of some hosts is the store's Invalidate.
LEMMA DropIsInvalidate ==
  ASSUME NEW hs \in SUBSET Hosts, NEW settled \in SUBSET hs,
         Drop({k \in Cached : k[1] \in hs}),
         drifted' = drifted \ settled, running' = running
  PROVE  Store!Invalidate(hs)
<1>1. \A k \in Keys : cache'[k] = IF k \in Cached /\ k[1] \in hs THEN None ELSE cache[k]
  BY DEF Drop
<1>2. \A k \in Keys : (IF cache'[k] # None THEN cache'[k].version ELSE None)
                        = IF k[1] \in hs THEN None ELSE Stored[k]
  BY <1>1, StoredIs DEF Cached
<1>3. Stored' = [k \in Keys |-> IF k[1] \in hs THEN None ELSE Stored[k]]
  BY <1>2, StoredIs
<1>4. drifted' \in {drifted \ set : set \in SUBSET hs}
  OBVIOUS
<1> QED BY <1>3, <1>4 DEF Store!Invalidate, Store!Keys, Keys

\* Dropping the entries of one host settles it, unless an answer from before the
\* change is on its way.
LEMMA InvalidateIsInvalidate ==
  ASSUME NEW h \in Hosts, InvalidateHost(h), UNCHANGED running
  PROVE  Store!Next
<1>1. {h} \in SUBSET Hosts /\ {h} \ Overtaken \in SUBSET {h}
  OBVIOUS
<1>2. OfHost(h) = {k \in Cached : k[1] \in {h}}
  BY DEF OfHost
<1>3. Store!Invalidate({h})
  BY <1>1, <1>2, DropIsInvalidate DEF InvalidateHost
<1> QED BY <1>1, <1>3 DEF Store!Next

\* What a show puts in the cache is what the store may take in: the host lock has
\* kept the answer up to date, or the host is adrift.
LEMMA PutIsStore ==
  ASSUME IInv, NEW s \in Shows, PutAnswer(s)
  PROVE  Store!Next
<1> DEFINE k == key[s]
           v == answer[s].version
<1>1. s \in Calls /\ pc[s] = "putting"
  BY DEF PutAnswer, Goto, Calls
<1>2. k \in Keys /\ k[1] \in Hosts
  <2>1. k \in Keys
    BY <1>1 DEF IInv, KeysGiven
  <2> QED BY <2>1 DEF Keys
<1>3. v \in 0..running[k[1]] /\ (k[1] \notin drifted => v = running[k[1]])
  <2>1. v <= running[k[1]] /\ (k[1] \notin drifted => v = running[k[1]])
    BY <1>1 DEF IInv, AnswersInHand
  <2>2. v \in Nat /\ running[k[1]] \in Nat
    BY <1>2 DEF IInv, CallsAreSound, DevicesAreSound
  <2> HIDE DEF v, k
  <2> QED BY <2>1, <2>2
<1> DEFINE entry == [version |-> v, size |-> answer[s].size, age |-> 0]
<1>4. entry # None /\ entry.version = v
  <2>1. answer[s].size \in Sizes /\ v \in Nat
    BY <1>1 DEF IInv, AnswersInHand, CallsAreSound
  <2>2. 0 \in 0..LastAge
    BY CacheAssumption DEF LastAge
  <2>3. entry \in Entry
    BY <2>1, <2>2 DEF Entry
  <2> QED BY <2>3, CacheAssumption
<1>5. PICK gone \in SUBSET Cached :
        cache' = [j \in Keys |-> IF j = k THEN entry ELSE IF j \in gone THEN None ELSE cache[j]]
  BY DEF PutAnswer, Put
<1>6. UNCHANGED <<running, drifted>>
  BY DEF PutAnswer
<1> DEFINE lost == gone \ {k}
<1>7. lost \in SUBSET (Keys \ {k})
  BY DEF Cached
<1> HIDE DEF k, v, entry
<1>8. \A j \in Keys : (IF cache'[j] # None THEN cache'[j].version ELSE None)
                        = IF j = k THEN v ELSE IF j \in lost THEN None ELSE Stored[j]
  BY <1>4, <1>5, StoredIs
<1> HIDE DEF lost
<1>9. Stored' = [j \in Keys |-> IF j = k THEN v ELSE IF j \in lost THEN None ELSE Stored[j]]
  BY <1>8, StoredIs
<1>10. Store!Store(k)
  BY <1>3, <1>6, <1>7, <1>9 DEF Store!Store, Store!Keys, Keys
<1> QED BY <1>2, <1>10 DEF Store!Next, Store!Keys, Keys

\* A device that takes a change is a source that moves on, and the cache stays as it is.
LEMMA ChangeIsChange ==
  ASSUME NEW k \in Keys, UNCHANGED cache,
         running' = [running EXCEPT ![k[1]] = @ + 1], drifted' = drifted \cup {k[1]}
  PROVE  Store!Next
<1>1. Stored' = Stored
  BY SameStore
<1>2. k[1] \in Hosts
  BY DEF Keys
<1>3. Store!Change(k[1])
  BY <1>1 DEF Store!Change
<1> QED BY <1>2, <1>3 DEF Store!Next

\* Step by step: a put is a Store, a change of a device is a Change, and dropping the
\* entries of one host or of all is an Invalidate; everything else stutters.
LEMMA NextIsStoreNext ==
  ASSUME IInv, [Next]_vars
  PROVE  [Store!Next]_(Store!vars)
<1>1. ASSUME UNCHANGED <<running, cache, drifted>>
      PROVE  UNCHANGED Store!vars
  <2>1. Stored' = Stored
    BY <1>1, SameStore
  <2> QED BY <1>1, <2>1 DEF Store!vars
<1>2. ASSUME NEW s \in Shows,
             \/ \E k \in Keys : Hit(s, k) \/ Miss(s, k)
             \/ LockHost(s, "fetch", "reading")
             \/ \E size \in Sizes : Read(s, size)
             \/ TurnedAway(s) \/ ReadFails(s) \/ Fallback(s)
      PROVE  UNCHANGED Store!vars
  BY <1>1, <1>2 DEF Hit, Miss, LockHost, Read, TurnedAway, ReadFails, Fallback, Touch
<1>3. ASSUME NEW s \in Shows, PutAnswer(s)
      PROVE  Store!Next
  BY <1>3, PutIsStore
<1>4. ASSUME NEW c \in Changes, NEW k \in Keys, StartChange(c, k)
      PROVE  UNCHANGED Store!vars
  BY <1>1, <1>4 DEF StartChange
<1>5. ASSUME NEW c \in Changes, NEW k \in Keys, Stage(c, k)
      PROVE  Store!Next
  BY <1>5, ChangeIsChange DEF Stage
<1>6. ASSUME NEW c \in Changes, Push(c) \/ PushFails(c) \/ RollBack(c) \/ Invalidate(c)
      PROVE  [Store!Next]_(Store!vars)
  <2> DEFINE k == key[c]
  <2>1. k \in Keys
    <3>1. c \in Calls /\ pc[c] # "new"
      BY <1>6 DEF Push, PushFails, RollBack, Invalidate, Goto, Calls
    <3> QED BY <3>1 DEF IInv, KeysGiven
  <2>2. ASSUME cache' = cache, Changed(c)
        PROVE  Store!Next
    BY <2>1, <2>2, ChangeIsChange DEF Changed
  <2>3. CASE Push(c) \/ PushFails(c) \/ RollBack(c)
    BY <1>1, <2>2, <2>3 DEF Push, PushFails, RollBack
  <2>4. CASE Invalidate(c)
    BY <2>1, <2>4, InvalidateIsInvalidate DEF Invalidate, Keys
  <2> QED BY <1>6, <2>3, <2>4
<1>7. ASSUME NEW h \in Hosts, ClearHost(h)
      PROVE  Store!Next
  BY <1>7, InvalidateIsInvalidate DEF ClearHost
<1>8. ASSUME Clear
      PROVE  Store!Next
  <2>1. Drop(Cached) /\ drifted' = drifted \cap Overtaken /\ running' = running
    BY <1>8 DEF Clear
  <2>2. Cached = {k \in Cached : k[1] \in Hosts}
    BY DEF Cached, Keys
  <2>3. drifted' = drifted \ (Hosts \ Overtaken) /\ Hosts \ Overtaken \in SUBSET Hosts
    BY <2>1 DEF IInv, DevicesAreSound
  <2>4. Store!Invalidate(Hosts)
    BY <2>1, <2>2, <2>3, DropIsInvalidate
  <2> QED BY <2>4 DEF Store!Next
<1>9. ASSUME Tick
      PROVE  UNCHANGED Store!vars
  <2>1. ASSUME NEW k \in Keys
        PROVE  /\ cache'[k] = None <=> cache[k] = None
               /\ cache[k] # None => cache'[k].version = cache[k].version
    <3>1. CASE cache[k] = None
      BY <1>9, <3>1 DEF Tick, Cached
    <3>2. CASE cache[k] # None
      <4> DEFINE aged == [cache[k] EXCEPT !.age = IF @ < LastAge THEN @ + 1 ELSE @]
      <4>1. cache'[k] = aged
        BY <1>9, <3>2 DEF Tick, Cached
      <4>2. cache[k] \in Entry
        BY <3>2 DEF IInv, CacheIsSound
      <4>3. aged.version = cache[k].version /\ aged \in Entry
        <5>1. cache[k].age \in 0..LastAge /\ LastAge \in Nat
          BY <4>2, CacheAssumption DEF Entry, LastAge
        <5>2. (IF cache[k].age < LastAge THEN cache[k].age + 1 ELSE cache[k].age) \in 0..LastAge
          BY <5>1
        <5> QED BY <4>2, <5>2 DEF Entry
      <4> QED BY <3>2, <4>1, <4>3, CacheAssumption
    <3> QED BY <3>1, <3>2
  <2>2. Stored' = Stored
    BY <2>1, SameStore
  <2> QED BY <1>9, <2>2 DEF Tick, Store!vars
<1>10. CASE UNCHANGED vars
  BY <1>1, <1>10 DEF vars
<1> QED BY <1>2, <1>3, <1>4, <1>5, <1>6, <1>7, <1>8, <1>9, <1>10 DEF Next

\* The command cache is a coherent store: entries, their order, sizes and ages, host
\* locks and answers on their way all hide behind Stored.
THEOREM CacheImplementsStore == Spec => ImplementsCoherentStore
<1>1. Init => Store!Init
  <2> SUFFICES ASSUME Init PROVE Store!Init
    OBVIOUS
  <2>1. Stored = [k \in Keys |-> None]
    BY DEF Init, Stored, Cached
  <2> QED BY <2>1 DEF Init, Store!Init, Store!Keys, Keys
<1>2. IInv /\ [Next]_vars => [Store!Next]_(Store!vars)
  BY NextIsStoreNext
<1> QED BY <1>1, <1>2, IInvHolds, PTL DEF Spec, ImplementsCoherentStore, Store!Spec

-----------------------------------------------------------------------------
(* What that is worth *)

StoreInv == running \in [Hosts -> Nat] /\ Store!Coherent

\* Each operation of a coherent store keeps it coherent: a change sets its host adrift,
\* what is taken in is the present version, and a host that is no longer adrift has
\* nothing stored.
LEMMA StoreNextKeepsCoherent ==
  ASSUME StoreInv, [Store!Next]_(Store!vars)
  PROVE  StoreInv'
<1> Stored \in [Keys -> {Stored[k] : k \in Keys}]
  BY StoredIs
<1>1. ASSUME NEW h \in Hosts, Store!Change(h)
      PROVE  StoreInv'
  <2>1. /\ running' \in [Hosts -> Nat] /\ Stored' = Stored
        /\ \A i \in Hosts \ {h} : running'[i] = running[i]
        /\ drifted' = drifted \cup {h}
    BY <1>1 DEF Store!Change, StoreInv
  <2>2. ASSUME NEW k \in Keys, Stored'[k] # None, k[1] \notin drifted'
        PROVE  Stored'[k] = running'[k[1]]
    <3>1. k[1] \in Hosts \ {h} /\ k[1] \notin drifted
      BY <2>1, <2>2 DEF Keys
    <3> QED BY <2>1, <2>2, <3>1 DEF StoreInv, Store!Coherent, Store!Keys, Keys
  <2> QED BY <2>1, <2>2 DEF StoreInv, Store!Coherent, Store!Keys, Keys
<1>2. ASSUME NEW k \in Keys, Store!Store(k)
      PROVE  StoreInv'
  <2>1. PICK v \in 0..running[k[1]], lost \in SUBSET (Keys \ {k}) :
          /\ k[1] \notin drifted => v = running[k[1]]
          /\ Stored' = [j \in Keys |-> IF j = k THEN v
                                       ELSE IF j \in lost THEN None ELSE Stored[j]]
          /\ UNCHANGED <<running, drifted>>
    BY <1>2 DEF Store!Store, Store!Keys, Keys
  <2>2. \A j \in Keys : Stored'[j] = None \/ j[1] \in drifted' \/ Stored'[j] = running'[j[1]]
    BY <2>1 DEF StoreInv, Store!Coherent, Store!Keys, Keys
  <2> QED BY <2>1, <2>2 DEF StoreInv, Store!Coherent, Store!Keys, Keys
<1>3. ASSUME NEW hs \in SUBSET Hosts, Store!Invalidate(hs)
      PROVE  StoreInv'
  <2>1. /\ Stored' = [k \in Keys |-> IF k[1] \in hs THEN None ELSE Stored[k]]
        /\ \A h : h \in drifted /\ h \notin hs => h \in drifted'
        /\ running' = running
    BY <1>3 DEF Store!Invalidate, Store!Keys, Keys
  <2>2. \A j \in Keys : Stored'[j] = None \/ j[1] \in drifted' \/ Stored'[j] = running'[j[1]]
    BY <2>1 DEF StoreInv, Store!Coherent, Store!Keys, Keys
  <2> QED BY <2>1, <2>2 DEF StoreInv, Store!Coherent, Store!Keys, Keys
<1>4. CASE UNCHANGED Store!vars
  BY <1>4 DEF Store!vars, StoreInv, Store!Coherent
<1> QED BY <1>1, <1>2, <1>3, <1>4 DEF Store!Next, Store!Keys, Keys

\* Whoever is served by something that behaves as CoherentStore says, while no change
\* is unaccounted for, is told what the device would answer.
THEOREM StoreIsCoherent == Store!Spec => []Store!Coherent
<1>1. Store!Init => StoreInv
  BY DEF Store!Init, StoreInv, Store!Coherent
<1>2. StoreInv /\ [Store!Next]_(Store!vars) => StoreInv'
  BY StoreNextKeepsCoherent
<1>3. StoreInv => Store!Coherent
  BY DEF StoreInv
<1> QED BY <1>1, <1>2, <1>3, PTL DEF Store!Spec

\* What run_show_command is served from the cache, for a host whose every change since
\* has been a push that invalidated it, is what the device would answer now.
THEOREM CacheIsCoherent == Spec => []Store!Coherent
BY CacheImplementsStore, StoreIsCoherent, PTL DEF ImplementsCoherentStore
=============================================================================
