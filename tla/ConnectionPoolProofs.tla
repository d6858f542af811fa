------------------------ MODULE ConnectionPoolProofs ------------------------
(***************************************************************************)
(* Proofs about ConnectionPool, for any hosts, drivers and locks, any size *)
(* of the pool and any finite set of threads.                              *)
(*                                                                         *)
(* That a driver in use is kept rests on the host lock: while nobody drops *)
(* a host, all its users share one lock, so at most one of them is past it *)
(* and the reference count is that one's.  An eviction looks at the count; *)
(* the failures that do not look at it drop the host.  Drivers and locks   *)
(* are told apart by who refers to them, OwnDrivers and OwnLocks.          *)
(***************************************************************************)
EXTENDS ConnectionPool, FiniteSetTheorems, SequenceTheorems, TLAPS

Distinct(s) == \A i, j \in DOMAIN s : s[i] = s[j] => i = j

\* The dict of drivers: its hosts in order, each once, and not too many.
PoolSound ==
  /\ drv \in [Hosts -> Drivers \cup {None}]
  /\ order \in Seq(Hosts) /\ Len(order) <= MaxConnections
  /\ Distinct(order)
  /\ Pooled = Range(order)

\* What a thread has in hand at each step.
InPlace ==
  \A t \in Threads :
    /\ host[t] = None <=> pc[t] \in {"idle", "clearing"}
    /\ lock[t] = None <=> pc[t] \notin {"waiting"} \cup LockSteps
    /\ driver[t] = None <=> pc[t] \notin CountedSteps \cup BareSteps
    /\ pc[t] \in BareSteps => host[t] \in BareHosts

\* A driver serves one host; a closed one is in hand somewhere, and not pooled.
OwnDrivers ==
  /\ \A h \in Hosts : drv[h] # None =>
       /\ drv[h] \notin closed
       /\ \A k \in Hosts : drv[k] = drv[h] => k = h
       /\ \A t \in Threads : driver[t] = drv[h] => host[t] = h
  /\ \A t, u \in Threads : driver[t] # None /\ driver[t] = driver[u] => host[t] = host[u]
  /\ \A d \in closed : InHand(d)

\* A lock serves one host, and is held by the thread that is past it.
OwnLocks ==
  /\ \A h \in Hosts : lockOf[h] # None =>
       /\ \A k \in Hosts : lockOf[k] = lockOf[h] => k = h
       /\ \A t \in Threads : lock[t] = lockOf[h] => host[t] = h
  /\ \A t, u \in Threads : lock[t] # None /\ lock[t] = lock[u] => host[t] = host[u]
  /\ \A l \in Locks, t \in Threads : holder[l] = t <=> lock[t] = l /\ pc[t] \in LockSteps

\* Unless a host is dropped, its lock is the one in the table, and nobody is about to
\* take that away.
LocksInForce ==
  \A t \in Threads :
    /\ pc[t] = "unlisting" => host[t] \in dropped
    /\ pc[t] = "clearing" => dropped = Hosts
    /\ lock[t] # None /\ host[t] \notin dropped => lockOf[host[t]] = lock[t]

Users(h) == {t \in Threads : host[t] = h /\ Using(t)}
CountsHaveUsers == \A h \in Hosts : refcount[h] <= Cardinality(Users(h))

IInv ==
  /\ TypeOK
  /\ PoolSound
  /\ InPlace
  /\ OwnDrivers
  /\ OwnLocks
  /\ LocksInForce
  /\ CountsHaveUsers
  /\ DriverInUseIsKept
-----------------------------------------------------------------------------
(* The dict of drivers *)

LEMMA RemoveAtProperties ==
  ASSUME NEW S, NEW s \in Seq(S), NEW n \in DOMAIN s
  PROVE  /\ RemoveAt(s, n) \in Seq(S)
         /\ Len(RemoveAt(s, n)) = Len(s) - 1
         /\ \A i \in 1..Len(s) - 1 : RemoveAt(s, n)[i] = IF i < n THEN s[i] ELSE s[i + 1]
<1> DEFINE a == SubSeq(s, 1, n - 1)
           b == SubSeq(s, n + 1, Len(s))
<1>1. Len(s) \in Nat /\ n \in 1..Len(s) /\ \A i \in 1..Len(s) : s[i] \in S
  BY LenProperties, ElementOfSeq
<1>2. /\ a \in Seq(S) /\ Len(a) = n - 1
      /\ \A i \in 1..n - 1 : a[i] = s[i]
  <2>1. \A i \in 1..n - 1 : s[i] \in S
    BY <1>1
  <2>2. \A i \in 1..(n - 1) - 1 + 1 : a[i] = s[1 + i - 1]
    BY <1>1, <2>1, SubSeqProperties
  <2> QED BY <1>1, <2>1, <2>2, SubSeqProperties
<1>3. /\ b \in Seq(S) /\ Len(b) = Len(s) - n
      /\ \A i \in 1..Len(s) - n : b[i] = s[n + i]
  <2>1. \A i \in n + 1..Len(s) : s[i] \in S
    BY <1>1
  <2>2. \A i \in 1..Len(s) - (n + 1) + 1 : b[i] = s[(n + 1) + i - 1]
    BY <1>1, <2>1, SubSeqProperties
  <2> QED BY <1>1, <2>1, <2>2, SubSeqProperties
<1>4. /\ a \o b \in Seq(S) /\ Len(a \o b) = Len(s) - 1
      /\ \A i \in 1..Len(s) - 1 : (a \o b)[i] = IF i <= n - 1 THEN a[i] ELSE b[i - (n - 1)]
  <2> HIDE DEF a, b
  <2>1. Len(a) + Len(b) = Len(s) - 1
    BY <1>1, <1>2, <1>3
  <2>2. /\ a \o b \in Seq(S) /\ Len(a \o b) = Len(a) + Len(b)
        /\ \A i \in 1..Len(a) + Len(b) : (a \o b)[i] = IF i <= Len(a) THEN a[i] ELSE b[i - Len(a)]
    BY <1>2, <1>3, ConcatProperties
  <2> QED BY <1>2, <2>1, <2>2
<1>5. \A i \in 1..Len(s) - 1 : (a \o b)[i] = IF i < n THEN s[i] ELSE s[i + 1]
  <2> SUFFICES ASSUME NEW i \in 1..Len(s) - 1
               PROVE  (a \o b)[i] = IF i < n THEN s[i] ELSE s[i + 1]
    OBVIOUS
  <2> HIDE DEF a, b
  <2>1. CASE i < n
    BY <1>1, <1>2, <1>4, <2>1
  <2>2. CASE ~(i < n)
    <3>1. i - (n - 1) \in 1..Len(s) - n /\ n + (i - (n - 1)) = i + 1
      BY <1>1, <2>2
    <3>2. (a \o b)[i] = b[i - (n - 1)]
      BY <1>1, <1>4, <2>2
    <3> QED BY <1>3, <2>2, <3>1, <3>2
  <2> QED BY <2>1, <2>2
<1> QED BY <1>4, <1>5 DEF RemoveAt

\* Popping a host takes it out of the order, and nothing else.
LEMMA WithoutProperties ==
  ASSUME NEW S, NEW s \in Seq(S), Distinct(s), NEW h
  PROVE  /\ Without(s, h) \in Seq(S)
         /\ Distinct(Without(s, h))
         /\ Range(Without(s, h)) = Range(s) \ {h}
         /\ Len(Without(s, h)) = IF h \in Range(s) THEN Len(s) - 1 ELSE Len(s)
<1>1. Len(s) \in Nat /\ DOMAIN s = 1..Len(s)
  BY LenProperties
<1>2. CASE At(s, h) = {}
  BY <1>1, <1>2 DEF Without, At, Range
<1>3. CASE At(s, h) # {}
  <2> DEFINE n == CHOOSE i \in At(s, h) : TRUE
             r == RemoveAt(s, n)
             from(i) == IF i < n THEN i ELSE i + 1
  <2>1. n \in DOMAIN s /\ s[n] = h
    BY <1>3 DEF At
  <2>2. Without(s, h) = r
    BY <1>3 DEF Without
  <2> HIDE DEF n
  <2>3. /\ r \in Seq(S) /\ Len(r) = Len(s) - 1 /\ DOMAIN r = 1..Len(s) - 1
        /\ \A i \in 1..Len(s) - 1 : r[i] = IF i < n THEN s[i] ELSE s[i + 1]
    <3>1. /\ r \in Seq(S) /\ Len(r) = Len(s) - 1
          /\ \A i \in 1..Len(s) - 1 : r[i] = IF i < n THEN s[i] ELSE s[i + 1]
      BY <2>1, RemoveAtProperties
    <3> HIDE DEF r
    <3> QED BY <3>1, LenProperties
  <2> HIDE DEF r
  <2>4. /\ \A i \in 1..Len(s) - 1 : from(i) \in 1..Len(s) \ {n} /\ r[i] = s[from(i)]
        /\ \A i, j \in 1..Len(s) - 1 : from(i) = from(j) => i = j
    BY <1>1, <2>1, <2>3
  <2>5. ASSUME NEW i \in 1..Len(s) \ {n}
        PROVE  \E j \in 1..Len(s) - 1 : from(j) = i
    <3>1. CASE i < n
      BY <1>1, <2>1, <3>1
    <3>2. CASE ~(i < n)
      <4>1. i - 1 \in 1..Len(s) - 1 /\ from(i - 1) = i
        BY <1>1, <2>1, <3>2
      <4> QED BY <4>1
    <3> QED BY <3>1, <3>2
  <2> HIDE DEF from
  <2>6. Distinct(r)
    BY <1>1, <2>3, <2>4 DEF Distinct
  <2>7. Range(r) = Range(s) \ {h}
    <3>1. ASSUME NEW x \in Range(r)
          PROVE  x \in Range(s) \ {h}
      BY <1>1, <2>1, <2>3, <2>4, <3>1 DEF Range, Distinct
    <3>2. ASSUME NEW x \in Range(s) \ {h}
          PROVE  x \in Range(r)
      <4>1. PICK i \in 1..Len(s) \ {n} : s[i] = x
        BY <1>1, <2>1 DEF Range
      <4>2. PICK j \in 1..Len(s) - 1 : from(j) = i
        BY <2>5
      <4> QED BY <2>3, <2>4, <4>1, <4>2 DEF Range
    <3> QED BY <3>1, <3>2
  <2>8. h \in Range(s)
    BY <2>1 DEF Range
  <2> QED BY <2>2, <2>3, <2>6, <2>7, <2>8
<1> QED BY <1>2, <1>3

LEMMA AppendHost ==
  ASSUME NEW S, NEW s \in Seq(S), Distinct(s), NEW h \in S, h \notin Range(s)
  PROVE  /\ Append(s, h) \in Seq(S)
         /\ Distinct(Append(s, h))
         /\ Range(Append(s, h)) = Range(s) \cup {h}
         /\ Len(Append(s, h)) = Len(s) + 1
<1> DEFINE r == Append(s, h)
<1>1. Len(s) \in Nat /\ DOMAIN s = 1..Len(s)
  BY LenProperties
<1>2. /\ r \in Seq(S) /\ Len(r) = Len(s) + 1 /\ DOMAIN r = 1..Len(s) + 1
      /\ \A i \in 1..Len(s) : r[i] = s[i]
      /\ r[Len(s) + 1] = h
  BY AppendProperties, LenProperties
<1> HIDE DEF r
<1>3. Distinct(r)
  BY <1>1, <1>2 DEF Distinct, Range
<1>4. Range(r) = Range(s) \cup {h}
  BY <1>1, <1>2 DEF Range
<1> QED BY <1>2, <1>3, <1>4 DEF r

\* There are as many pooled drivers as places taken.
LEMMA DistinctCounts ==
  ASSUME NEW S, NEW s \in Seq(S), Distinct(s)
  PROVE  Cardinality(Range(s)) = Len(s)
<1>1. Len(s) \in Nat /\ s \in [1..Len(s) -> S] /\ DOMAIN s = 1..Len(s)
  BY LenProperties
<1>2. s \in [1..Len(s) -> Range(s)]
  BY <1>1 DEF Range
<1>3. s \in Bijection(1..Len(s), Range(s))
  BY <1>1, <1>2 DEF Bijection, Injection, Surjection, IsInjective, Range, Distinct
<1>4. ExistsBijection(1..Len(s), Range(s))
  BY <1>3 DEF ExistsBijection
<1> QED BY <1>1, <1>4, FS_CountingElements

LEMMA EvictKeepsPool ==
  ASSUME PoolSound, NEW v, Evict(v)
  PROVE  PoolSound'
<1>1. order \in Seq(Hosts) /\ Distinct(order) /\ Len(order) <= MaxConnections /\ Len(order) \in Nat
  BY LenProperties DEF PoolSound
<1>2. order' = Without(order, v)
  BY DEF Evict
<1>3. /\ order' \in Seq(Hosts) /\ Distinct(order') /\ Range(order') = Range(order) \ {v}
      /\ Len(order') <= MaxConnections
  BY <1>1, <1>2, WithoutProperties, PoolAssumption
<1>4. drv' \in [Hosts -> Drivers \cup {None}] /\ Pooled' = Pooled \ {v}
  BY DEF Evict, PoolSound, Pooled
<1> QED BY <1>3, <1>4 DEF PoolSound

\* A fresh driver is one that nothing refers to.
LEMMA FreshDriverIsFresh ==
  ASSUME DriverLeft
  PROVE  /\ FreshDriver \in Drivers /\ FreshDriver # None
         /\ \A h \in Hosts : drv[h] # FreshDriver
         /\ \A t \in Threads : driver[t] # FreshDriver
BY PoolAssumption DEF DriverLeft, FreshDriver, InHand

LEMMA ConnectKeepsPool ==
  ASSUME PoolSound, NEW h \in Hosts, drv[h] = None, NEW v \in Hosts \cup {None}, Room(v),
         Connect(h, v)
  PROVE  PoolSound'
<1>1. order \in Seq(Hosts) /\ Distinct(order) /\ Len(order) <= MaxConnections /\ Len(order) \in Nat
      /\ MaxConnections \in Nat \ {0} /\ None \notin Hosts
  BY LenProperties, PoolAssumption DEF PoolSound
<1>2. order' = Append(Without(order, v), h) /\ h \notin Range(order)
  BY DEF Connect, PoolSound, Pooled
<1>3. /\ Without(order, v) \in Seq(Hosts) /\ Distinct(Without(order, v))
      /\ Range(Without(order, v)) = Range(order) \ {v}
      /\ Len(Without(order, v)) = IF v \in Range(order) THEN Len(order) - 1 ELSE Len(order)
  BY <1>1, WithoutProperties
<1>4. Len(Without(order, v)) < MaxConnections
  <2>1. CASE Full
    <3>1. v \in Range(order)
      BY <2>1 DEF Room, Evictable, Range
    <3> QED BY <1>1, <1>3, <3>1
  <2>2. CASE ~Full
    <3>1. Cardinality(Pooled) = Len(order)
      BY <1>1, DistinctCounts DEF PoolSound
    <3> QED BY <1>1, <1>3, <2>2, <3>1 DEF Full
  <2> QED BY <2>1, <2>2
<1>5. /\ order' \in Seq(Hosts) /\ Distinct(order')
      /\ Range(order') = (Range(order) \ {v}) \cup {h} /\ Len(order') <= MaxConnections
  <2>1. /\ order' \in Seq(Hosts) /\ Distinct(order')
        /\ Range(order') = (Range(order) \ {v}) \cup {h}
        /\ Len(order') = Len(Without(order, v)) + 1
    BY <1>2, <1>3, AppendHost
  <2>2. Len(Without(order, v)) \in Nat
    BY <1>3, LenProperties
  <2> QED BY <1>1, <1>4, <2>1, <2>2
<1>6. drv' \in [Hosts -> Drivers \cup {None}] /\ Pooled' = (Pooled \ {v}) \cup {h}
  BY <1>1, FreshDriverIsFresh DEF Connect, PoolSound, Pooled
<1> QED BY <1>5, <1>6 DEF PoolSound

LEMMA NextKeepsPool ==
  ASSUME IInv, [Next]_vars
  PROVE  PoolSound'
<1>1. PoolSound /\ InPlace /\ host \in [Threads -> Hosts \cup {None}]
  BY DEF IInv, TypeOK
<1>2. CASE UNCHANGED <<drv, order>>
  BY <1>1, <1>2 DEF PoolSound, Pooled
<1>3. ASSUME NEW t \in Threads, NEW verify \in BOOLEAN, CheckoutNew(t, verify)
      PROVE  PoolSound'
  <2>1. host[t] \in Hosts
    BY <1>1, <1>3 DEF CheckoutNew, Step, InPlace
  <2> QED BY <1>1, <1>3, <2>1, ConnectKeepsPool DEF CheckoutNew
<1>4. ASSUME NEW t \in Threads, NEW h \in BareHosts, NEW verify \in BOOLEAN, GetNew(t, h, verify)
      PROVE  PoolSound'
  <2>1. h \in Hosts
    BY PoolAssumption
  <2> QED BY <1>1, <1>4, <2>1, ConnectKeepsPool DEF GetNew
<1>5. ASSUME NEW t \in Threads, CheckoutFails(t)
      PROVE  PoolSound'
  BY <1>1, <1>2, <1>5, EvictKeepsPool DEF CheckoutFails
<1>6. ASSUME NEW t \in Threads, NEW probing, NEW after, VerifyFails(t, probing, after)
      PROVE  PoolSound'
  BY <1>1, <1>6, EvictKeepsPool DEF VerifyFails
<1>7. ASSUME NEW t \in Threads, NEW h \in Hosts, RemoveDriver(t, h)
      PROVE  PoolSound'
  BY <1>1, <1>7, EvictKeepsPool DEF RemoveDriver
<1>8. ASSUME NEW t \in Threads, CloseDrivers(t)
      PROVE  PoolSound'
  <2>1. order' = <<>> /\ drv' = [h \in Hosts |-> None]
    BY <1>8 DEF CloseDrivers
  <2>2. /\ order' \in Seq(Hosts) /\ Len(order') <= MaxConnections
        /\ Distinct(order') /\ Range(order') = {}
    BY <2>1, EmptySeq, PoolAssumption DEF Distinct, Range
  <2>3. drv' \in [Hosts -> Drivers \cup {None}] /\ Pooled' = {}
    BY <2>1 DEF Pooled
  <2> QED BY <2>2, <2>3 DEF PoolSound
<1>9. ASSUME NEW t \in Threads,
             \/ \E h \in Hosts : WantLock(t, h)
             \/ \E h \in BareHosts, verify \in BOOLEAN : GetPooled(t, h, verify)
             \/ TakeLock(t) \/ (\E verify \in BOOLEAN : CheckoutPooled(t, verify))
             \/ (\E from, probing, done : VerifyStarts(t, from, probing, done))
             \/ (\E probing, done : VerifyPasses(t, probing, done))
             \/ Return(t) \/ ReleaseLock(t) \/ EndBorrow(t) \/ RemoveLock(t) \/ ClearLocks(t)
      PROVE  UNCHANGED <<drv, order>>
  BY <1>9 DEF WantLock, GetPooled, TakeLock, CheckoutPooled, VerifyStarts, VerifyPasses, Return,
     ReleaseLock, EndBorrow, RemoveLock, ClearLocks
<1>10. CASE UNCHANGED vars
  BY <1>2, <1>10 DEF vars
<1> QED
  BY <1>2, <1>3, <1>4, <1>5, <1>6, <1>7, <1>8, <1>9, <1>10 DEF Next, Proceed, VerifyInAcquire,
     VerifyInGetDriver

-----------------------------------------------------------------------------
(* Types *)

ThreadTypes ==
  /\ pc \in [Threads -> Steps]
  /\ host \in [Threads -> Hosts \cup {None}]
  /\ lock \in [Threads -> Locks \cup {None}]
  /\ driver \in [Threads -> Drivers \cup {None}]

TableTypes ==
  /\ refcount \in [Hosts -> Nat]
  /\ verified \subseteq Hosts
  /\ lockOf \in [Hosts -> Locks \cup {None}]
  /\ holder \in [Locks -> Threads \cup {None}]

HistoryTypes == closed \subseteq Drivers /\ dropped \subseteq Hosts

LEMMA Typed ==
  ASSUME IInv
  PROVE  /\ ThreadTypes /\ TableTypes /\ HistoryTypes /\ PoolSound /\ InPlace
         /\ drv \in [Hosts -> Drivers \cup {None}]
         /\ None \notin Hosts /\ None \notin Drivers /\ None \notin Locks /\ None \notin Threads
         /\ BareHosts \subseteq Hosts
BY PoolAssumption DEF IInv, TypeOK, ThreadTypes, TableTypes, HistoryTypes

\* Who goes to make room is pooled and idle.
LEMMA RoomIsIdle ==
  ASSUME IInv, NEW v \in Hosts \cup {None}, Room(v), v # None
  PROVE  v \in Hosts /\ drv[v] \in Drivers /\ drv[v] # None /\ refcount[v] = 0
<1>1. v \in Range(order) /\ refcount[v] = 0
  BY DEF Room, Evictable, Range
<1>2. v \in Pooled
  BY <1>1 DEF IInv, PoolSound
<1> QED BY <1>1, <1>2, Typed DEF Pooled

LEMMA FreshLockIsFresh ==
  ASSUME \E l \in Locks : ~LockUsed(l)
  PROVE  /\ FreshLock \in Locks
         /\ \A h \in Hosts : lockOf[h] # FreshLock
         /\ \A t \in Threads : lock[t] # FreshLock
BY DEF LockUsed, FreshLock

LEMMA NextKeepsThreads ==
  ASSUME IInv, [Next]_vars
  PROVE  ThreadTypes' /\ InPlace'
<1> USE DEF Step, LockSteps, CountedSteps, BareSteps
<1>1. /\ ThreadTypes /\ InPlace /\ lockOf \in [Hosts -> Locks \cup {None}]
      /\ drv \in [Hosts -> Drivers \cup {None}] /\ BareHosts \subseteq Hosts
      /\ None \notin Hosts /\ None \notin Drivers /\ None \notin Locks
  BY Typed DEF TableTypes
<1>2. {"idle", "waiting", "locked", "verifying", "probing", "using", "leaving", "unlisting",
       "clearing", "bare_verifying", "bare_probing", "borrowed"} \subseteq Steps
  BY DEF Steps
<1> USE DEF ThreadTypes, InPlace
<1>3. ASSUME NEW t \in Threads, NEW h \in Hosts, WantLock(t, h)
      PROVE  ThreadTypes' /\ InPlace'
  <2>1. PICK l \in Locks : lock' = [lock EXCEPT ![t] = l]
    BY <1>1, <1>3, FreshLockIsFresh DEF WantLock
  <2> QED BY <1>1, <1>2, <1>3, <2>1 DEF WantLock
<1>4. ASSUME NEW t \in Threads,
             \/ (\E h \in Hosts : RemoveDriver(t, h)) \/ TakeLock(t) \/ ReleaseLock(t)
             \/ CheckoutFails(t) \/ Return(t)
             \/ EndBorrow(t) \/ RemoveLock(t) \/ CloseDrivers(t) \/ ClearLocks(t)
      PROVE  ThreadTypes' /\ InPlace'
  BY <1>1, <1>2, <1>4 DEF RemoveDriver, TakeLock, ReleaseLock, CheckoutFails, Return, EndBorrow,
     RemoveLock, CloseDrivers, ClearLocks
<1>5. ASSUME NEW t \in Threads, NEW verify \in BOOLEAN, CheckoutPooled(t, verify)
      PROVE  ThreadTypes' /\ InPlace'
  BY <1>1, <1>2, <1>5 DEF CheckoutPooled
<1>6. ASSUME NEW t \in Threads, NEW verify \in BOOLEAN, CheckoutNew(t, verify)
      PROVE  ThreadTypes' /\ InPlace'
  <2>1. FreshDriver \in Drivers
    BY <1>6, FreshDriverIsFresh DEF CheckoutNew, Connect
  <2> QED BY <1>1, <1>2, <1>6, <2>1 DEF CheckoutNew
<1>7. ASSUME NEW t \in Threads, NEW h \in BareHosts, NEW verify \in BOOLEAN, GetPooled(t, h, verify)
      PROVE  ThreadTypes' /\ InPlace'
  BY <1>1, <1>2, <1>7 DEF GetPooled
<1>8. ASSUME NEW t \in Threads, NEW h \in BareHosts, NEW verify \in BOOLEAN, GetNew(t, h, verify)
      PROVE  ThreadTypes' /\ InPlace'
  <2>1. FreshDriver \in Drivers
    BY <1>8, FreshDriverIsFresh DEF GetNew, Connect
  <2> QED BY <1>1, <1>2, <1>8, <2>1 DEF GetNew
<1>9. ASSUME NEW t \in Threads, VerifyInAcquire(t)
      PROVE  ThreadTypes' /\ InPlace'
  BY <1>1, <1>2, <1>9 DEF VerifyInAcquire, VerifyStarts, VerifyPasses, VerifyFails
<1>10. ASSUME NEW t \in Threads, VerifyInGetDriver(t)
      PROVE  ThreadTypes' /\ InPlace'
  BY <1>1, <1>2, <1>10 DEF VerifyInGetDriver, VerifyStarts, VerifyPasses, VerifyFails
<1>11. CASE UNCHANGED vars
  BY <1>1, <1>11 DEF vars
<1> QED
  BY <1>3, <1>4, <1>5, <1>6, <1>7, <1>8, <1>9, <1>10, <1>11 DEF Next, Proceed

LEMMA NextKeepsTables ==
  ASSUME IInv, [Next]_vars
  PROVE  TableTypes'
<1> USE DEF Step, TableTypes
<1>1. /\ ThreadTypes /\ TableTypes /\ InPlace
      /\ \A t \in Threads : pc[t] \notin {"idle", "clearing"} => host[t] \in Hosts
  BY Typed DEF ThreadTypes, InPlace
<1>2. ASSUME NEW t \in Threads, NEW h \in Hosts, WantLock(t, h)
      PROVE  TableTypes'
  BY <1>1, <1>2, FreshLockIsFresh DEF WantLock
<1>3. ASSUME NEW t \in Threads, NEW h \in Hosts, RemoveDriver(t, h)
      PROVE  TableTypes'
  BY <1>1, <1>3 DEF RemoveDriver, Evict
<1>4. ASSUME NEW t \in Threads, TakeLock(t) \/ ReleaseLock(t)
      PROVE  TableTypes'
  BY <1>1, <1>4 DEF TakeLock, ReleaseLock
<1>5. ASSUME NEW t \in Threads, NEW verify \in BOOLEAN, CheckoutPooled(t, verify) \/ CheckoutNew(t, verify)
      PROVE  TableTypes'
  <2>1. /\ refcount' = [refcount EXCEPT ![host[t]] = @ + 1] /\ verified' \subseteq verified
        /\ lockOf' = lockOf /\ holder' = holder
    BY <1>5 DEF CheckoutPooled, CheckoutNew, Connect
  <2>2. \A n \in Nat : n + 1 \in Nat
    OBVIOUS
  <2> QED BY <1>1, <2>1, <2>2
<1>6. ASSUME NEW t \in Threads, CheckoutFails(t) \/ VerifyInAcquire(t) \/ VerifyInGetDriver(t)
      PROVE  TableTypes'
  <2>1. /\ refcount' \in {refcount, [refcount EXCEPT ![host[t]] = 0]}
        /\ verified' \subseteq verified \cup {host[t]} /\ host[t] \in Hosts
        /\ lockOf' = lockOf /\ holder' = holder
    BY <1>1, <1>6 DEF CheckoutFails, Evict, VerifyInAcquire, VerifyInGetDriver, VerifyStarts,
       VerifyPasses, VerifyFails
  <2> QED BY <1>1, <2>1
<1>7. ASSUME NEW t \in Threads, Return(t)
      PROVE  TableTypes'
  <2>1. \A n \in Nat : (IF n = 0 THEN 0 ELSE n - 1) \in Nat
    OBVIOUS
  <2> QED BY <1>1, <1>7, <2>1 DEF Return
<1>8. ASSUME NEW t \in Threads, NEW h \in BareHosts, NEW verify \in BOOLEAN,
             GetPooled(t, h, verify) \/ GetNew(t, h, verify)
      PROVE  TableTypes'
  BY <1>1, <1>8 DEF GetPooled, GetNew, Connect
<1>9. ASSUME NEW t \in Threads, EndBorrow(t) \/ RemoveLock(t) \/ CloseDrivers(t) \/ ClearLocks(t)
      PROVE  TableTypes'
  BY <1>1, <1>9 DEF EndBorrow, RemoveLock, CloseDrivers, ClearLocks
<1>10. CASE UNCHANGED vars
  BY <1>1, <1>10 DEF vars
<1> QED
  BY <1>2, <1>3, <1>4, <1>5, <1>6, <1>7, <1>8, <1>9, <1>10 DEF Next, Proceed

LEMMA NextKeepsHistory ==
  ASSUME IInv, [Next]_vars
  PROVE  HistoryTypes'
<1> USE DEF Step, HistoryTypes, StillHeld, StillKnown, StillDropped
<1>1. /\ ThreadTypes /\ HistoryTypes /\ InPlace
      /\ drv \in [Hosts -> Drivers \cup {None}] /\ BareHosts \subseteq Hosts
      /\ \A t \in Threads :
           /\ pc[t] \notin {"idle", "clearing"} => host[t] \in Hosts
           /\ pc[t] \in {"probing", "bare_probing"} => driver[t] \in Drivers
  BY Typed DEF ThreadTypes, InPlace, CountedSteps, BareSteps
<1>2. \A v \in Hosts \cup {None} : Room(v) /\ v # None => drv[v] \in Drivers
  BY RoomIsIdle
<1>3. ASSUME NEW t \in Threads, NEW verify \in BOOLEAN, CheckoutNew(t, verify)
      PROVE  HistoryTypes'
  BY <1>1, <1>2, <1>3 DEF CheckoutNew
<1>4. ASSUME NEW t \in Threads, NEW h \in BareHosts, NEW verify \in BOOLEAN, GetNew(t, h, verify)
      PROVE  HistoryTypes'
  BY <1>1, <1>2, <1>4 DEF GetNew
<1>5. ASSUME NEW t \in Threads, CheckoutFails(t)
      PROVE  HistoryTypes'
  BY <1>1, <1>2, <1>5 DEF CheckoutFails
<1>6. ASSUME NEW t \in Threads, VerifyInAcquire(t) \/ VerifyInGetDriver(t)
      PROVE  HistoryTypes'
  BY <1>1, <1>6 DEF VerifyInAcquire, VerifyInGetDriver, VerifyStarts, VerifyPasses, VerifyFails
<1>7. ASSUME NEW t \in Threads, NEW h \in Hosts, RemoveDriver(t, h)
      PROVE  HistoryTypes'
  BY <1>1, <1>7 DEF RemoveDriver
<1>8. ASSUME NEW t \in Threads, CloseDrivers(t)
      PROVE  HistoryTypes'
  BY <1>1, <1>8 DEF CloseDrivers, Pooled
<1>9. ASSUME NEW t \in Threads, Return(t) \/ EndBorrow(t) \/ ReleaseLock(t) \/ RemoveLock(t) \/ ClearLocks(t)
      PROVE  HistoryTypes'
  BY <1>1, <1>9 DEF Return, EndBorrow, ReleaseLock, RemoveLock, ClearLocks
<1>10. ASSUME NEW t \in Threads,
              \/ \E h \in Hosts : WantLock(t, h)
              \/ \E h \in BareHosts, verify \in BOOLEAN : GetPooled(t, h, verify)
              \/ TakeLock(t) \/ (\E verify \in BOOLEAN : CheckoutPooled(t, verify))
       PROVE  HistoryTypes'
  BY <1>1, <1>10 DEF WantLock, GetPooled, TakeLock, CheckoutPooled
<1>11. CASE UNCHANGED vars
  BY <1>1, <1>11 DEF vars
<1> QED
  BY <1>3, <1>4, <1>5, <1>6, <1>7, <1>8, <1>9, <1>10, <1>11 DEF Next, Proceed

LEMMA NextKeepsTypes ==
  ASSUME IInv, [Next]_vars
  PROVE  TypeOK'
<1>1. PoolSound' /\ ThreadTypes' /\ TableTypes' /\ HistoryTypes'
  BY NextKeepsPool, NextKeepsThreads, NextKeepsTables, NextKeepsHistory
<1>2. (\A h \in Hosts : drv[h] # None <=> \E i \in DOMAIN order : order[i] = h)'
  BY <1>1 DEF PoolSound, Pooled, Range
<1> QED
  BY <1>1, <1>2 DEF TypeOK, PoolSound, ThreadTypes, TableTypes, HistoryTypes

-----------------------------------------------------------------------------
(* Drivers, locks and drops *)

LEMMA NextKeepsOwnDrivers ==
  ASSUME IInv, [Next]_vars
  PROVE  OwnDrivers'
<1> USE DEF Step, InHand
<1>1. /\ ThreadTypes /\ drv \in [Hosts -> Drivers \cup {None}] /\ OwnDrivers
      /\ None \notin Hosts /\ BareHosts \subseteq Hosts
      /\ \A t \in Threads :
           /\ pc[t] \in {"idle", "waiting", "locked", "leaving", "unlisting", "clearing"} => driver[t] = None
           /\ pc[t] \in {"verifying", "probing", "using", "bare_verifying", "bare_probing", "borrowed"}
                => driver[t] # None
  BY Typed DEF InPlace, CountedSteps, BareSteps, IInv
<1> USE DEF ThreadTypes
<1>2. CASE /\ drv' = drv /\ driver' = driver /\ closed' = closed
           /\ \A t \in Threads : driver[t] # None => host'[t] = host[t]
  BY <1>1, <1>2 DEF OwnDrivers
<1>3. ASSUME NEW t \in Threads,
             \/ \E h \in Hosts : WantLock(t, h)
             \/ TakeLock(t) \/ ReleaseLock(t) \/ RemoveLock(t) \/ ClearLocks(t)
             \/ (\E from, probing, done : VerifyStarts(t, from, probing, done))
             \/ (\E probing, done : VerifyPasses(t, probing, done))
      PROVE  OwnDrivers'
  <2>1. /\ drv' = drv /\ driver' = driver /\ closed' = closed
        /\ \A u \in Threads : driver[u] # None => host'[u] = host[u]
    BY <1>1, <1>3 DEF WantLock, TakeLock, ReleaseLock, RemoveLock, ClearLocks,
       VerifyStarts, VerifyPasses
  <2> QED BY <1>2, <2>1
\* A pooled driver is handed out.
<1>4. ASSUME NEW t \in Threads, NEW h \in Hosts, drv[h] # None, driver[t] = None,
             drv' = drv, closed' = closed, driver' = [driver EXCEPT ![t] = drv[h]],
             host' = [host EXCEPT ![t] = h]
      PROVE  OwnDrivers'
  <2>1. /\ \A u \in Threads : driver'[u] = IF u = t THEN drv[h] ELSE driver[u]
        /\ \A u \in Threads : host'[u] = IF u = t THEN h ELSE host[u]
    BY <1>1, <1>4
  <2>2. \A d \in closed : \E u \in Threads : driver'[u] = d
    BY <1>1, <1>4, <2>1, Typed DEF OwnDrivers, HistoryTypes
  <2> QED BY <1>1, <1>4, <2>1, <2>2 DEF OwnDrivers
<1>5. ASSUME NEW t \in Threads, NEW verify \in BOOLEAN, CheckoutPooled(t, verify)
      PROVE  OwnDrivers'
  <2>1. host[t] \in Hosts
    BY <1>5, Typed DEF CheckoutPooled, InPlace, ThreadTypes
  <2>2. /\ drv[host[t]] # None /\ pc[t] = "locked"
        /\ driver' = [driver EXCEPT ![t] = drv[host[t]]]
        /\ drv' = drv /\ closed' = closed /\ host' = host
    BY <1>5 DEF CheckoutPooled
  <2>3. driver[t] = None
    BY <1>1, <2>2
  <2>4. host' = [host EXCEPT ![t] = host[t]]
    BY <1>1, <2>2
  <2> QED BY <1>4, <2>1, <2>2, <2>3, <2>4
<1>6. ASSUME NEW t \in Threads, NEW h \in BareHosts, NEW verify \in BOOLEAN, GetPooled(t, h, verify)
      PROVE  OwnDrivers'
  BY <1>1, <1>4, <1>6 DEF GetPooled
\* A driver is made, and perhaps another one goes for it.
<1>7. ASSUME NEW t \in Threads, NEW h \in Hosts, NEW v \in Hosts \cup {None},
             drv[h] = None, driver[t] = None, Room(v), Connect(h, v),
             driver' = [driver EXCEPT ![t] = FreshDriver], host' = [host EXCEPT ![t] = h],
             closed' = StillHeld(IF v = None THEN closed ELSE closed \cup {drv[v]})
      PROVE  OwnDrivers'
  <2> DEFINE f == FreshDriver
  <2>1. /\ f # None
        /\ \A k \in Hosts : drv[k] # f
        /\ \A u \in Threads : driver[u] # f
    BY <1>7, FreshDriverIsFresh DEF Connect
  <2>2. \A k \in Hosts : drv'[k] = IF k = h THEN f ELSE IF k = v THEN None ELSE drv[k]
    BY <1>7 DEF Connect
  <2>3. /\ driver' = [driver EXCEPT ![t] = f]
        /\ \A d \in closed' : d # f /\ (d \in closed \/ (v \in Hosts /\ d = drv[v] /\ d # None))
        /\ \A d \in closed' : \E u \in Threads : driver'[u] = d
    BY <1>1, <1>7, <2>1, RoomIsIdle DEF StillHeld, OwnDrivers
  <2> HIDE DEF f
  <2>4. ASSUME NEW k \in Hosts, drv'[k] # None
        PROVE  /\ drv'[k] \notin closed'
               /\ \A j \in Hosts : drv'[j] = drv'[k] => j = k
               /\ \A u \in Threads : driver'[u] = drv'[k] => host'[u] = k
    <3>1. CASE k = h
      <4>1. drv'[k] = f /\ f \notin closed'
        BY <2>2, <2>3, <3>1
      <4>2. \A j \in Hosts : drv'[j] = f => j = h
        BY <2>1, <2>2
      <4>3. \A u \in Threads : driver'[u] = f => host'[u] = h
        BY <1>1, <1>7, <2>1, <2>3
      <4> QED BY <3>1, <4>1, <4>2, <4>3
    <3>2. CASE k # h
      <4>1. drv'[k] = drv[k] /\ k # v /\ drv[k] # f /\ drv[k] \notin closed
        BY <1>1, <2>1, <2>2, <2>4, <3>2 DEF OwnDrivers
      <4>2. v \in Hosts => drv[v] # drv[k]
        BY <1>1, <2>4, <4>1 DEF OwnDrivers
      <4>3. drv'[k] \notin closed'
        BY <2>3, <4>1, <4>2
      <4>4. \A j \in Hosts : drv'[j] = drv'[k] => j = k
        BY <1>1, <2>2, <2>4, <4>1 DEF OwnDrivers
      <4>5. \A u \in Threads : driver'[u] = drv'[k] => host'[u] = k
        BY <1>1, <1>7, <2>3, <2>4, <4>1 DEF OwnDrivers
      <4> QED BY <4>3, <4>4, <4>5
    <3> QED BY <3>1, <3>2
  <2>5. \A u, w \in Threads : driver'[u] # None /\ driver'[u] = driver'[w] => host'[u] = host'[w]
    BY <1>1, <1>7, <2>1, <2>3 DEF OwnDrivers
  <2> QED BY <2>3, <2>4, <2>5 DEF OwnDrivers
<1>8. ASSUME NEW t \in Threads, NEW verify \in BOOLEAN, CheckoutNew(t, verify)
      PROVE  OwnDrivers'
  <2>1. host[t] \in Hosts /\ driver[t] = None /\ drv[host[t]] = None /\ host' = [host EXCEPT ![t] = host[t]]
    BY <1>1, <1>8, Typed DEF CheckoutNew, InPlace
  <2>2. PICK v \in Hosts \cup {None} :
          /\ Room(v) /\ Connect(host[t], v)
          /\ driver' = [driver EXCEPT ![t] = FreshDriver]
          /\ closed' = StillHeld(IF v = None THEN closed ELSE closed \cup {drv[v]})
    BY <1>8 DEF CheckoutNew
  <2> QED BY <1>7, <2>1, <2>2
<1>9. ASSUME NEW t \in Threads, NEW h \in BareHosts, NEW verify \in BOOLEAN, GetNew(t, h, verify)
      PROVE  OwnDrivers'
  <2>1. h \in Hosts /\ driver[t] = None /\ drv[h] = None /\ host' = [host EXCEPT ![t] = h]
        /\ driver' = [driver EXCEPT ![t] = FreshDriver]
    BY <1>1, <1>9 DEF GetNew
  <2>2. PICK v \in Hosts \cup {None} :
          /\ Room(v) /\ Connect(h, v)
          /\ closed' = StillHeld(IF v = None THEN closed ELSE closed \cup {drv[v]})
    BY <1>9 DEF GetNew
  <2> QED BY <1>7, <2>1, <2>2
\* Drivers go, and those of them that are in hand are closed there.
<1>10. ASSUME NEW H \in SUBSET Hosts, drv' = [h \in Hosts |-> IF h \in H THEN None ELSE drv[h]],
              \A u \in Threads : driver'[u] # None => driver'[u] = driver[u] /\ host'[u] = host[u],
              \A d \in closed' :
                /\ \E u \in Threads : driver'[u] = d
                /\ \/ d \in closed
                   \/ \E h \in H : d = drv[h]
                   \/ \A k \in Hosts \ H : drv[k] # d
       PROVE  OwnDrivers'
  <2>1. \A h \in Hosts : drv'[h] # None => drv'[h] = drv[h] /\ h \notin H
    BY <1>10
  <2>2. ASSUME NEW h \in Hosts, drv'[h] # None
        PROVE  /\ drv'[h] \notin closed'
               /\ \A j \in Hosts : drv'[j] = drv'[h] => j = h
               /\ \A u \in Threads : driver'[u] = drv'[h] => host'[u] = h
    BY <1>1, <1>10, <2>1, <2>2 DEF OwnDrivers
  <2>3. \A u, w \in Threads : driver'[u] # None /\ driver'[u] = driver'[w] => host'[u] = host'[w]
    BY <1>1, <1>10 DEF OwnDrivers
  <2> QED BY <1>10, <2>2, <2>3 DEF OwnDrivers
<1>11. ASSUME NEW t \in Threads, CheckoutFails(t)
       PROVE  OwnDrivers'
  <2>1. CASE UNCHANGED <<drv, closed>>
    BY <1>2, <1>11, <2>1 DEF CheckoutFails
  <2>2. ASSUME NEW v \in Hosts \cup {None}, Room(v), Evict(v),
               closed' = StillHeld(IF v = None THEN closed ELSE closed \cup {drv[v]})
        PROVE  OwnDrivers'
    <3> DEFINE H == {v} \cap Hosts
    <3>1. H \in SUBSET Hosts /\ drv' = [h \in Hosts |-> IF h \in H THEN None ELSE drv[h]]
      BY <2>2 DEF Evict
    <3>2. host' = host /\ driver' = driver
      BY <1>11 DEF CheckoutFails
    <3>3. \A d \in closed' : (\E u \in Threads : driver'[u] = d)
                             /\ (d \in closed \/ \E h \in H : d = drv[h])
      BY <2>2 DEF StillHeld
    <3> QED BY <1>10, <3>1, <3>2, <3>3
  <2> QED BY <1>11, <2>1, <2>2 DEF CheckoutFails
<1>12. ASSUME NEW t \in Threads, NEW probing \in {"probing", "bare_probing"}, NEW after,
              VerifyFails(t, probing, after), \A u \in Threads \ {t} : host'[u] = host[u]
       PROVE  OwnDrivers'
  <2> DEFINE H == {host[t]}
  <2>1. host[t] \in Hosts /\ driver[t] # None
    BY <1>1, <1>12, Typed DEF VerifyFails, InPlace
  <2>2. H \in SUBSET Hosts /\ drv' = [h \in Hosts |-> IF h \in H THEN None ELSE drv[h]]
    BY <1>12, <2>1 DEF VerifyFails, Evict
  <2>3. \A u \in Threads : driver'[u] # None => driver'[u] = driver[u] /\ host'[u] = host[u]
    BY <1>1, <1>12 DEF VerifyFails
  <2>4. \A k \in Hosts \ H : drv[k] # driver[t]
    BY <1>1, <2>1 DEF OwnDrivers
  <2>5. \A d \in closed' : (\E u \in Threads : driver'[u] = d) /\ (d \in closed \/ d = driver[t])
    BY <1>12 DEF VerifyFails, StillHeld
  <2>6. \A d \in closed' :
          /\ \E u \in Threads : driver'[u] = d
          /\ \/ d \in closed
             \/ \E h \in H : d = drv[h]
             \/ \A k \in Hosts \ H : drv[k] # d
    BY <2>4, <2>5
  <2> QED BY <1>10, <2>2, <2>3, <2>6
<1>13. ASSUME NEW t \in Threads, Return(t) \/ EndBorrow(t)
       PROVE  OwnDrivers'
  <2>1. drv' = [h \in Hosts |-> IF h \in {} THEN None ELSE drv[h]]
    BY <1>1, <1>13 DEF Return, EndBorrow
  <2>2. \A u \in Threads : driver'[u] # None => driver'[u] = driver[u] /\ host'[u] = host[u]
    BY <1>1, <1>13 DEF Return, EndBorrow
  <2>3. \A d \in closed' : (\E u \in Threads : driver'[u] = d) /\ d \in closed
    BY <1>13 DEF Return, EndBorrow, StillHeld
  <2>4. {} \in SUBSET Hosts
    OBVIOUS
  <2> QED BY <1>10, <2>1, <2>2, <2>3, <2>4
<1>14. ASSUME NEW t \in Threads, NEW h \in Hosts, RemoveDriver(t, h)
       PROVE  OwnDrivers'
  <2>1. {h} \in SUBSET Hosts /\ drv' = [k \in Hosts |-> IF k \in {h} THEN None ELSE drv[k]]
    BY <1>14 DEF RemoveDriver, Evict
  <2>2. \A u \in Threads : driver'[u] # None => driver'[u] = driver[u] /\ host'[u] = host[u]
    BY <1>1, <1>14 DEF RemoveDriver
  <2>3. \A d \in closed' : (\E u \in Threads : driver'[u] = d) /\ (d \in closed \/ d = drv[h])
    BY <1>1, <1>14 DEF RemoveDriver, OwnDrivers
  <2>4. \A d \in closed' :
          /\ \E u \in Threads : driver'[u] = d
          /\ \/ d \in closed
             \/ \E k \in {h} : d = drv[k]
             \/ \A k \in Hosts \ {h} : drv[k] # d
    BY <2>3
  <2> QED BY <1>10, <2>1, <2>2, <2>4
<1>15. ASSUME NEW t \in Threads, CloseDrivers(t)
       PROVE  OwnDrivers'
  <2>1. drv' = [h \in Hosts |-> IF h \in Hosts THEN None ELSE drv[h]]
    BY <1>15 DEF CloseDrivers
  <2>2. host' = host /\ driver' = driver
    BY <1>15 DEF CloseDrivers
  <2>3. \A d \in closed' : (\E u \in Threads : driver'[u] = d) /\ (d \in closed \/ \E h \in Hosts : d = drv[h])
    BY <1>1, <1>15 DEF CloseDrivers, OwnDrivers, Pooled
  <2> QED BY <1>10, <2>1, <2>2, <2>3
<1>16. CASE UNCHANGED vars
  BY <1>2, <1>16 DEF vars
<1>17. ASSUME NEW t \in Threads, VerifyInAcquire(t) \/ VerifyInGetDriver(t)
       PROVE  OwnDrivers'
  BY <1>1, <1>3, <1>12, <1>17 DEF VerifyInAcquire, VerifyInGetDriver
<1> QED
  BY <1>3, <1>5, <1>6, <1>8, <1>9, <1>11, <1>13, <1>14, <1>15, <1>16, <1>17 DEF Next, Proceed

LEMMA NextKeepsOwnLocks ==
  ASSUME IInv, [Next]_vars
  PROVE  OwnLocks'
<1> USE DEF Step, LockSteps
<1>1. /\ ThreadTypes /\ TableTypes /\ OwnLocks /\ None \notin Locks /\ None \notin Threads
      /\ \A t \in Threads :
           /\ pc[t] \in {"idle", "unlisting", "clearing"} \cup BareSteps => lock[t] = None
           /\ pc[t] \in {"waiting", "locked", "verifying", "probing", "using", "leaving"} => lock[t] # None
  BY Typed DEF InPlace, IInv, BareSteps
<1> USE DEF ThreadTypes, TableTypes
<1>2. CASE /\ lockOf' = lockOf /\ lock' = lock /\ holder' = holder
           /\ \A t \in Threads : lock[t] # None =>
                host'[t] = host[t] /\ (pc'[t] \in LockSteps <=> pc[t] \in LockSteps)
  BY <1>1, <1>2 DEF OwnLocks
<1>3. ASSUME NEW t \in Threads, NEW h \in Hosts, WantLock(t, h)
      PROVE  OwnLocks'
  <2>1. CASE lockOf[h] # None
    BY <1>1, <1>3, <2>1 DEF WantLock, OwnLocks
  <2>2. CASE lockOf[h] = None
    BY <1>1, <1>3, <2>2, FreshLockIsFresh DEF WantLock, OwnLocks
  <2> QED BY <2>1, <2>2
<1>4. ASSUME NEW t \in Threads, TakeLock(t)
      PROVE  OwnLocks'
  BY <1>1, <1>4 DEF TakeLock, OwnLocks
<1>5. ASSUME NEW t \in Threads, ReleaseLock(t)
      PROVE  OwnLocks'
  BY <1>1, <1>5 DEF ReleaseLock, OwnLocks
<1>6. ASSUME NEW t \in Threads, RemoveLock(t) \/ ClearLocks(t)
      PROVE  OwnLocks'
  BY <1>1, <1>6 DEF RemoveLock, ClearLocks, OwnLocks
<1>7. ASSUME NEW t \in Threads,
             \/ \E verify \in BOOLEAN : CheckoutPooled(t, verify) \/ CheckoutNew(t, verify)
             \/ CheckoutFails(t) \/ Return(t)
      PROVE  OwnLocks'
  <2>1. /\ lockOf' = lockOf /\ lock' = lock /\ holder' = holder
        /\ \A u \in Threads : host'[u] = host[u] /\ (pc'[u] \in LockSteps <=> pc[u] \in LockSteps)
    BY <1>1, <1>7 DEF CheckoutPooled, CheckoutNew, CheckoutFails, Return
  <2> QED BY <1>2, <2>1
<1>8. ASSUME NEW t \in Threads, VerifyInAcquire(t)
      PROVE  OwnLocks'
  <2>1. /\ lockOf' = lockOf /\ lock' = lock /\ holder' = holder
        /\ \A u \in Threads : host'[u] = host[u] /\ (pc'[u] \in LockSteps <=> pc[u] \in LockSteps)
    BY <1>1, <1>8 DEF VerifyInAcquire, VerifyStarts, VerifyPasses, VerifyFails
  <2> QED BY <1>2, <2>1
<1>9. ASSUME NEW t \in Threads,
             \/ \E h \in Hosts : RemoveDriver(t, h)
             \/ \E h \in BareHosts, verify \in BOOLEAN : GetPooled(t, h, verify) \/ GetNew(t, h, verify)
             \/ VerifyInGetDriver(t) \/ EndBorrow(t) \/ CloseDrivers(t)
      PROVE  OwnLocks'
  <2>1. /\ lockOf' = lockOf /\ lock' = lock /\ holder' = holder /\ lock[t] = None
        /\ \A u \in Threads \ {t} : host'[u] = host[u] /\ pc'[u] = pc[u]
    BY <1>1, <1>9 DEF RemoveDriver, GetPooled, GetNew, VerifyInGetDriver, VerifyStarts,
       VerifyPasses, VerifyFails, EndBorrow, CloseDrivers, BareSteps
  <2> QED BY <1>2, <2>1
<1>10. CASE UNCHANGED vars
  BY <1>2, <1>10 DEF vars
<1> QED
  BY <1>3, <1>4, <1>5, <1>6, <1>7, <1>8, <1>9, <1>10 DEF Next, Proceed

\* A dropped host stays dropped for as long as a thread is at it, and for all threads until
\* the lock table has been cleared.
LEMMA DropsLast ==
  ASSUME IInv, [Next]_vars
  PROVE  /\ \A u \in Threads : host'[u] \in dropped => host'[u] \in dropped'
         /\ (\E u \in Threads : pc'[u] = "clearing") => dropped \subseteq dropped'
<1> USE DEF StillDropped
<1>1. dropped \subseteq Hosts
  BY Typed DEF HistoryTypes
<1>2. CASE dropped \subseteq dropped'
  BY <1>2
<1>3. ASSUME NEW S, dropped \subseteq S, dropped' = StillDropped(S)
      PROVE  /\ \A u \in Threads : host'[u] \in dropped => host'[u] \in dropped'
             /\ (\E u \in Threads : pc'[u] = "clearing") => dropped \subseteq dropped'
  BY <1>3
<1>4. ASSUME NEW t \in Threads,
             ReleaseLock(t) \/ VerifyInGetDriver(t) \/ EndBorrow(t) \/ RemoveLock(t) \/ ClearLocks(t)
      PROVE  dropped' = dropped \/ \E S : dropped \subseteq S /\ dropped' = StillDropped(S)
  BY <1>4 DEF ReleaseLock, VerifyInGetDriver, VerifyStarts, VerifyPasses, EndBorrow, RemoveLock, ClearLocks
<1>5. ASSUME NEW t \in Threads,
             \/ \E h \in Hosts : WantLock(t, h) \/ RemoveDriver(t, h)
             \/ \E h \in BareHosts, verify \in BOOLEAN : GetPooled(t, h, verify) \/ GetNew(t, h, verify)
             \/ CloseDrivers(t) \/ TakeLock(t)
             \/ \E verify \in BOOLEAN : CheckoutPooled(t, verify) \/ CheckoutNew(t, verify)
             \/ CheckoutFails(t) \/ VerifyInAcquire(t) \/ Return(t)
      PROVE  dropped \subseteq dropped'
  BY <1>1, <1>5 DEF WantLock, RemoveDriver, GetPooled, GetNew, CloseDrivers, TakeLock,
     CheckoutPooled, CheckoutNew, CheckoutFails, VerifyInAcquire, VerifyStarts, VerifyPasses, Return
<1>6. CASE UNCHANGED vars
  BY <1>2, <1>6 DEF vars
<1> QED
  BY <1>2, <1>3, <1>4, <1>5, <1>6 DEF Next, Proceed

LEMMA NextKeepsLocksInForce ==
  ASSUME IInv, [Next]_vars
  PROVE  LocksInForce'
<1> USE DEF Step
<1>1. /\ ThreadTypes /\ TableTypes /\ LocksInForce /\ None \notin Locks /\ dropped \subseteq Hosts
      /\ InPlace
      /\ \A t \in Threads : lock[t] # None => host[t] \in Hosts
  BY Typed DEF InPlace, IInv, LockSteps, ThreadTypes, HistoryTypes
<1>2. /\ \A u \in Threads : host'[u] \in dropped => host'[u] \in dropped'
      /\ (\E u \in Threads : pc'[u] = "clearing") => dropped \subseteq dropped'
  BY DropsLast
<1>3. HistoryTypes'
  BY NextKeepsHistory
<1> USE DEF ThreadTypes, TableTypes
\* A thread that is where it was.
<1>4. ASSUME NEW u \in Threads, pc'[u] = pc[u], host'[u] = host[u]
      PROVE  /\ pc'[u] = "unlisting" => host'[u] \in dropped'
             /\ pc'[u] = "clearing" => dropped' = Hosts
  BY <1>1, <1>2, <1>3, <1>4 DEF LocksInForce, HistoryTypes
<1>5. ASSUME NEW t \in Threads, \A u \in Threads \ {t} : pc'[u] = pc[u] /\ host'[u] = host[u],
             pc'[t] \notin {"unlisting", "clearing"}
      PROVE  \A u \in Threads : /\ pc'[u] = "unlisting" => host'[u] \in dropped'
                                /\ pc'[u] = "clearing" => dropped' = Hosts
  BY <1>4, <1>5
<1>6. ASSUME NEW t \in Threads, lockOf' = lockOf,
             \A u \in Threads : lock'[u] # None => lock'[u] = lock[u] /\ host'[u] = host[u]
      PROVE  \A u \in Threads : lock'[u] # None /\ host'[u] \notin dropped' => lockOf'[host'[u]] = lock'[u]
  BY <1>1, <1>2, <1>6 DEF LocksInForce
<1>7. ASSUME NEW t \in Threads, NEW h \in Hosts, WantLock(t, h)
      PROVE  LocksInForce'
  <2>1. /\ \A u \in Threads \ {t} : pc'[u] = pc[u] /\ host'[u] = host[u] /\ lock'[u] = lock[u]
        /\ pc'[t] = "waiting" /\ host'[t] = h /\ dropped' = dropped
    BY <1>1, <1>7 DEF WantLock
  <2>2. lockOf'[h] = lock'[t] /\ \A k \in Hosts : lockOf[k] # None => lockOf'[k] = lockOf[k]
    BY <1>1, <1>7, FreshLockIsFresh DEF WantLock
  <2>3. \A u \in Threads : lock'[u] # None /\ host'[u] \notin dropped' => lockOf'[host'[u]] = lock'[u]
    BY <1>1, <2>1, <2>2 DEF LocksInForce
  <2> QED BY <1>5, <2>1, <2>3 DEF LocksInForce
<1>8. ASSUME NEW t \in Threads,
             \/ \E h \in BareHosts, verify \in BOOLEAN : GetPooled(t, h, verify) \/ GetNew(t, h, verify)
             \/ TakeLock(t)
             \/ (\E verify \in BOOLEAN : CheckoutPooled(t, verify) \/ CheckoutNew(t, verify))
             \/ CheckoutFails(t) \/ Return(t) \/ ReleaseLock(t) \/ EndBorrow(t)
      PROVE  LocksInForce'
  <2>1. /\ lockOf' = lockOf
        /\ \A u \in Threads : lock'[u] # None => lock'[u] = lock[u] /\ host'[u] = host[u]
    BY <1>1, <1>8 DEF GetPooled, GetNew, TakeLock, CheckoutPooled, CheckoutNew, CheckoutFails,
       Return, ReleaseLock, EndBorrow, InPlace, LockSteps
  <2>2. /\ \A u \in Threads \ {t} : pc'[u] = pc[u] /\ host'[u] = host[u]
        /\ pc'[t] \notin {"unlisting", "clearing"}
    BY <1>1, <1>8 DEF GetPooled, GetNew, TakeLock, CheckoutPooled, CheckoutNew, CheckoutFails,
       Return, ReleaseLock, EndBorrow
  <2> QED BY <1>5, <1>6, <2>1, <2>2 DEF LocksInForce
<1>9. ASSUME NEW t \in Threads, VerifyInAcquire(t) \/ VerifyInGetDriver(t)
      PROVE  LocksInForce'
  <2>1. /\ lockOf' = lockOf /\ lock' = lock
        /\ \A u \in Threads : lock[u] # None => host'[u] = host[u]
    BY <1>1, <1>9 DEF VerifyInAcquire, VerifyInGetDriver, VerifyStarts, VerifyPasses, VerifyFails,
       InPlace, LockSteps
  <2>2. /\ \A u \in Threads \ {t} : pc'[u] = pc[u] /\ host'[u] = host[u]
        /\ pc'[t] \notin {"unlisting", "clearing"}
    BY <1>1, <1>9 DEF VerifyInAcquire, VerifyInGetDriver, VerifyStarts, VerifyPasses, VerifyFails
  <2> QED BY <1>5, <1>6, <2>1, <2>2 DEF LocksInForce
<1>10. ASSUME NEW t \in Threads, NEW h \in Hosts, RemoveDriver(t, h)
       PROVE  LocksInForce'
  <2>1. /\ lockOf' = lockOf
        /\ \A u \in Threads : lock'[u] # None => lock'[u] = lock[u] /\ host'[u] = host[u]
        /\ \A u \in Threads \ {t} : pc'[u] = pc[u] /\ host'[u] = host[u]
        /\ pc'[t] = "unlisting" /\ host'[t] = h /\ h \in dropped'
    BY <1>1, <1>10 DEF RemoveDriver, InPlace, LockSteps
  <2> QED BY <1>4, <1>6, <2>1 DEF LocksInForce
<1>11. ASSUME NEW t \in Threads, RemoveLock(t)
       PROVE  LocksInForce'
  <2>1. /\ host[t] \in dropped /\ lock' = lock
        /\ \A k \in Hosts : k # host[t] => lockOf'[k] = lockOf[k]
        /\ \A u \in Threads \ {t} : pc'[u] = pc[u] /\ host'[u] = host[u]
        /\ pc'[t] = "idle" /\ lock[t] = None
    BY <1>1, <1>11 DEF RemoveLock, LocksInForce, InPlace, LockSteps
  <2>2. \A u \in Threads : lock'[u] # None /\ host'[u] \notin dropped' => lockOf'[host'[u]] = lock'[u]
    BY <1>1, <1>2, <2>1 DEF LocksInForce
  <2> QED BY <1>5, <2>1, <2>2 DEF LocksInForce
<1>12. ASSUME NEW t \in Threads, CloseDrivers(t)
       PROVE  LocksInForce'
  <2>1. /\ dropped' = Hosts /\ host' = host /\ lock' = lock
        /\ \A u \in Threads \ {t} : pc'[u] = pc[u]
        /\ pc'[t] = "clearing"
    BY <1>1, <1>12 DEF CloseDrivers
  <2> QED BY <1>1, <1>4, <2>1 DEF LocksInForce
<1>13. ASSUME NEW t \in Threads, ClearLocks(t)
       PROVE  LocksInForce'
  <2>1. /\ dropped = Hosts /\ host' = host /\ lock' = lock
        /\ \A u \in Threads \ {t} : pc'[u] = pc[u]
        /\ pc'[t] = "idle"
    BY <1>1, <1>13 DEF ClearLocks, LocksInForce
  <2>2. \A u \in Threads : lock'[u] # None => host'[u] \in dropped'
    BY <1>1, <1>2, <2>1
  <2> QED BY <1>5, <2>1, <2>2 DEF LocksInForce
<1>14. CASE UNCHANGED vars
  BY <1>1, <1>14 DEF LocksInForce, vars
<1> QED
  BY <1>7, <1>8, <1>9, <1>10, <1>11, <1>12, <1>13, <1>14 DEF Next, Proceed

-----------------------------------------------------------------------------
(* Counts, and the driver in use *)

LEMMA UsersAreFinite ==
  ASSUME NEW h
  PROVE  IsFiniteSet(Users(h)) /\ Cardinality(Users(h)) \in Nat
BY PoolAssumption, FS_Subset, FS_CardinalityType DEF Users

\* A count that is raised or lowered with the users stays below their number.
LEMMA CountAccount ==
  ASSUME CountsHaveUsers, refcount \in [Hosts -> Nat], NEW t \in Threads, NEW h \in Hosts,
         \/ refcount'[h] = 0
         \/ Users(h)' = Users(h) /\ refcount'[h] = refcount[h]
         \/ t \notin Users(h) /\ Users(h)' = Users(h) \cup {t} /\ refcount'[h] = refcount[h] + 1
         \/ t \in Users(h) /\ Users(h)' = Users(h) \ {t}
            /\ refcount'[h] = IF refcount[h] = 0 THEN 0 ELSE refcount[h] - 1
  PROVE  refcount'[h] <= Cardinality(Users(h)')
<1>1. IsFiniteSet(Users(h)) /\ Cardinality(Users(h)) \in Nat
      /\ refcount[h] \in Nat /\ refcount[h] <= Cardinality(Users(h))
  BY UsersAreFinite DEF CountsHaveUsers
<1>2. Cardinality(Users(h) \cup {t}) = IF t \in Users(h) THEN Cardinality(Users(h)) ELSE Cardinality(Users(h)) + 1
  BY <1>1, FS_AddElement
<1>3. Cardinality(Users(h) \ {t}) = IF t \in Users(h) THEN Cardinality(Users(h)) - 1 ELSE Cardinality(Users(h))
  BY <1>1, FS_RemoveElement
<1>4. Cardinality(Users(h) \ {t}) \in Nat
  BY <1>1, FS_RemoveElement, FS_CardinalityType
<1>5. Cardinality(Users(h)') \in Nat
  BY PoolAssumption, FS_Subset, FS_CardinalityType DEF Users
<1>6. CASE refcount'[h] = 0
  BY <1>5, <1>6
<1>7. CASE Users(h)' = Users(h) /\ refcount'[h] = refcount[h]
  BY <1>1, <1>7
<1>8. CASE t \notin Users(h) /\ Users(h)' = Users(h) \cup {t} /\ refcount'[h] = refcount[h] + 1
  BY <1>1, <1>2, <1>8
<1>9. CASE /\ t \in Users(h) /\ Users(h)' = Users(h) \ {t}
           /\ refcount'[h] = IF refcount[h] = 0 THEN 0 ELSE refcount[h] - 1
  BY <1>1, <1>3, <1>4, <1>9
<1> QED BY <1>6, <1>7, <1>8, <1>9

LEMMA NextKeepsCountsHaveUsers ==
  ASSUME IInv, [Next]_vars
  PROVE  CountsHaveUsers'
<1> USE DEF Step, CountedSteps
<1>1. /\ ThreadTypes /\ refcount \in [Hosts -> Nat] /\ CountsHaveUsers /\ InPlace
      /\ \A t \in Threads : pc[t] \notin {"idle", "clearing"} => host[t] \in Hosts
  BY Typed DEF IInv, TableTypes, ThreadTypes, InPlace
<1> USE DEF ThreadTypes
<1>2. CASE /\ \A h \in Hosts : refcount'[h] \in {0, refcount[h]}
           /\ \A t \in Threads : \/ host'[t] = host[t] /\ Using(t)' = Using(t)
                                 \/ ~Using(t) /\ ~Using(t)'
  <2>1. \A h \in Hosts : Users(h)' = Users(h)
    BY <1>2 DEF Users
  <2> QED BY <1>1, <1>2, <2>1, CountAccount, UsersAreFinite DEF CountsHaveUsers
<1>3. ASSUME NEW t \in Threads,
             \/ \E h \in Hosts : WantLock(t, h) \/ RemoveDriver(t, h)
             \/ \E h \in BareHosts, verify \in BOOLEAN : GetPooled(t, h, verify) \/ GetNew(t, h, verify)
             \/ CloseDrivers(t) \/ TakeLock(t) \/ CheckoutFails(t)
             \/ ReleaseLock(t) \/ EndBorrow(t) \/ RemoveLock(t) \/ ClearLocks(t)
      PROVE  CountsHaveUsers'
  <2>1. \A h \in Hosts : refcount'[h] \in {0, refcount[h]}
    BY <1>1, <1>3 DEF WantLock, RemoveDriver, GetPooled, GetNew, CloseDrivers, TakeLock,
       CheckoutFails, ReleaseLock, EndBorrow, RemoveLock, ClearLocks
  <2>2. /\ \A u \in Threads \ {t} : host'[u] = host[u] /\ Using(u)' = Using(u)
        /\ ~Using(t) /\ ~Using(t)'
    BY <1>1, <1>3 DEF WantLock, RemoveDriver, GetPooled, GetNew, CloseDrivers, TakeLock,
       CheckoutFails, ReleaseLock, EndBorrow, RemoveLock, ClearLocks, Using
  <2> QED BY <1>2, <2>1, <2>2
<1>4. ASSUME NEW t \in Threads, VerifyInGetDriver(t)
      PROVE  CountsHaveUsers'
  <2>1. \A h \in Hosts : refcount'[h] \in {0, refcount[h]}
    BY <1>1, <1>4 DEF VerifyInGetDriver, VerifyStarts, VerifyPasses, VerifyFails
  <2>2. /\ \A u \in Threads \ {t} : host'[u] = host[u] /\ Using(u)' = Using(u)
        /\ ~Using(t) /\ ~Using(t)'
    BY <1>1, <1>4 DEF VerifyInGetDriver, VerifyStarts, VerifyPasses, VerifyFails, Using
  <2> QED BY <1>2, <2>1, <2>2
<1>5. ASSUME NEW t \in Threads,
             \/ VerifyStarts(t, "verifying", "probing", "using")
             \/ VerifyPasses(t, "probing", "using")
      PROVE  CountsHaveUsers'
  <2>1. refcount' = refcount /\ host' = host /\ \A u \in Threads : Using(u)' = Using(u)
    BY <1>1, <1>5 DEF VerifyStarts, VerifyPasses, Using
  <2> QED BY <1>2, <2>1
<1>6. ASSUME NEW t \in Threads, VerifyFails(t, "probing", "leaving") /\ UNCHANGED <<host, dropped>>
      PROVE  CountsHaveUsers'
  <2>1. /\ \A h \in Hosts : h # host[t] => refcount'[h] = refcount[h]
        /\ refcount'[host[t]] = 0
    BY <1>1, <1>6 DEF VerifyFails
  <2>2. \A h \in Hosts : h # host[t] => Users(h)' = Users(h)
    BY <1>1, <1>6 DEF VerifyFails, Users, Using
  <2> QED BY <1>1, <2>1, <2>2, CountAccount DEF CountsHaveUsers
<1>7. ASSUME NEW t \in Threads, NEW verify \in BOOLEAN, CheckoutPooled(t, verify) \/ CheckoutNew(t, verify)
      PROVE  CountsHaveUsers'
  <2>1. /\ refcount' = [refcount EXCEPT ![host[t]] = @ + 1] /\ host' = host /\ host[t] \in Hosts
        /\ ~Using(t) /\ Using(t)' /\ \A u \in Threads \ {t} : Using(u)' = Using(u)
    BY <1>1, <1>7 DEF CheckoutPooled, CheckoutNew, Using
  <2>2. /\ \A h \in Hosts : refcount'[h] = IF h = host[t] THEN refcount[h] + 1 ELSE refcount[h]
        /\ \A h \in Hosts : h # host[t] => Users(h)' = Users(h)
        /\ t \notin Users(host[t]) /\ Users(host[t])' = Users(host[t]) \cup {t}
    BY <1>1, <2>1 DEF Users
  <2> QED BY <1>1, <2>1, <2>2, CountAccount DEF CountsHaveUsers
<1>8. ASSUME NEW t \in Threads, Return(t)
      PROVE  CountsHaveUsers'
  <2>1. /\ refcount' = [refcount EXCEPT ![host[t]] = IF @ = 0 THEN 0 ELSE @ - 1]
        /\ host' = host /\ host[t] \in Hosts
        /\ Using(t) /\ ~Using(t)' /\ \A u \in Threads \ {t} : Using(u)' = Using(u)
    BY <1>1, <1>8 DEF Return, Using
  <2>2. /\ \A h \in Hosts : refcount'[h] = IF h = host[t] THEN IF refcount[h] = 0 THEN 0 ELSE refcount[h] - 1
                                                          ELSE refcount[h]
        /\ \A h \in Hosts : h # host[t] => Users(h)' = Users(h)
        /\ t \in Users(host[t]) /\ Users(host[t])' = Users(host[t]) \ {t}
    BY <1>1, <2>1 DEF Users
  <2> QED BY <1>1, <2>1, <2>2, CountAccount DEF CountsHaveUsers
<1>9. CASE UNCHANGED vars
  BY <1>2, <1>9 DEF vars, Using
<1> QED
  BY <1>3, <1>4, <1>5, <1>6, <1>7, <1>8, <1>9 DEF Next, Proceed, VerifyInAcquire

\* While nobody drops a host, one thread at a time is past its lock.
LEMMA OneUser ==
  ASSUME IInv, NEW t \in Threads, NEW u \in Threads, host[t] = host[u], host[t] \notin dropped,
         pc[t] \in LockSteps, pc[u] \in LockSteps
  PROVE  t = u
<1>1. /\ lock[t] \in Locks /\ lock[t] # None /\ lock[u] # None
  BY Typed DEF ThreadTypes, InPlace
<1>2. lock[t] = lock[u]
  BY <1>1 DEF IInv, LocksInForce
<1>3. holder[lock[t]] = t /\ holder[lock[t]] = u
  BY <1>1, <1>2 DEF IInv, OwnLocks
<1> QED BY <1>3

LEMMA NobodyCountsNothing ==
  ASSUME IInv, NEW h \in Hosts, \A t \in Threads : ~(host[t] = h /\ Using(t))
  PROVE  refcount[h] = 0
<1>1. Cardinality(Users(h)) = 0
  BY FS_EmptySet DEF Users
<1> QED BY <1>1, Typed DEF IInv, CountsHaveUsers, TableTypes

Kept(t) ==
  Using(t) /\ host[t] \notin dropped => /\ drv[host[t]] = driver[t]
                                        /\ driver[t] \notin closed
                                        /\ refcount[host[t]] = 1

LEMMA NextKeepsDriverInUse ==
  ASSUME IInv, [Next]_vars
  PROVE  DriverInUseIsKept'
<1> USE DEF Step, CountedSteps, LockSteps
<1>1. /\ ThreadTypes /\ refcount \in [Hosts -> Nat] /\ InPlace /\ OwnDrivers
      /\ drv \in [Hosts -> Drivers \cup {None}]
      /\ None \notin Hosts /\ None \notin Drivers /\ BareHosts \subseteq Hosts
      /\ \A t \in Threads : Using(t) => host[t] \in Hosts /\ driver[t] \in Drivers
      /\ \A t \in Threads : pc[t] \notin {"idle", "clearing"} => host[t] \in Hosts
  BY Typed DEF IInv, TableTypes, ThreadTypes, InPlace, Using
<1>2. \A t \in Threads : host'[t] \in dropped => host'[t] \in dropped'
  BY DropsLast
<1>3. \A t \in Threads : Kept(t)
  BY DEF IInv, DriverInUseIsKept, Kept
<1> USE DEF ThreadTypes
\* A user that stays where it is keeps its driver if the step leaves it in place.
<1>4. ASSUME NEW u \in Threads, Using(u)' => Using(u), host'[u] = host[u], driver'[u] = driver[u],
             Using(u) /\ host[u] \notin dropped /\ host[u] \notin dropped'
               /\ drv[host[u]] = driver[u] /\ driver[u] \notin closed /\ refcount[host[u]] = 1
             => drv'[host[u]] = drv[host[u]] /\ driver[u] \notin closed'
                /\ refcount'[host[u]] = refcount[host[u]]
      PROVE  Kept(u)'
  BY <1>1, <1>2, <1>3, <1>4 DEF Kept
<1>5. ASSUME NEW t \in Threads, NEW u \in Threads \ {t}, pc[t] \in LockSteps,
             Using(u), host[u] \notin dropped
      PROVE  host[t] # host[u]
  BY <1>5, OneUser DEF Using
<1>6. ASSUME NEW t \in Threads,
             \/ \E h \in Hosts : WantLock(t, h)
             \/ \E h \in BareHosts, verify \in BOOLEAN : GetPooled(t, h, verify)
             \/ TakeLock(t) \/ ReleaseLock(t) \/ RemoveLock(t) \/ ClearLocks(t)
      PROVE  \A u \in Threads : Kept(u)'
  <2>1. UNCHANGED <<drv, closed, refcount>>
    BY <1>6 DEF WantLock, GetPooled, TakeLock, ReleaseLock, RemoveLock, ClearLocks
  <2>2. /\ \A u \in Threads \ {t} : Using(u)' = Using(u) /\ host'[u] = host[u] /\ driver'[u] = driver[u]
        /\ ~Using(t)'
    BY <1>1, <1>6 DEF WantLock, GetPooled, TakeLock, ReleaseLock, RemoveLock, ClearLocks, Using
  <2>3. Kept(t)'
    BY <2>2 DEF Kept
  <2> QED BY <1>4, <2>1, <2>2, <2>3
<1>7. ASSUME NEW t \in Threads, EndBorrow(t) \/ Return(t)
      PROVE  \A u \in Threads : Kept(u)'
  <2>1. /\ drv' = drv /\ closed' \subseteq closed
        /\ \A h \in Hosts : h # host[t] \/ pc[t] = "borrowed" => refcount'[h] = refcount[h]
    BY <1>1, <1>7 DEF EndBorrow, Return, StillHeld
  <2>2. /\ \A u \in Threads \ {t} : Using(u)' = Using(u) /\ host'[u] = host[u] /\ driver'[u] = driver[u]
        /\ ~Using(t)' /\ pc[t] \in {"borrowed", "using"}
    BY <1>1, <1>7 DEF EndBorrow, Return, Using
  <2>3. Kept(t)'
    BY <2>2 DEF Kept
  <2>4. ASSUME NEW u \in Threads \ {t}
        PROVE  Kept(u)'
    BY <1>1, <1>4, <1>5, <2>1, <2>2
  <2> QED BY <2>3, <2>4
\* The thread that counts itself in is the only one.
<1>8. ASSUME NEW t \in Threads, pc[t] = "locked", host[t] \notin dropped
      PROVE  refcount[host[t]] = 0
  <2>1. \A u \in Threads : ~(host[u] = host[t] /\ Using(u))
    BY <1>8, OneUser DEF Using
  <2> QED BY <1>1, <1>8, <2>1, NobodyCountsNothing
<1>9. ASSUME NEW t \in Threads, NEW verify \in BOOLEAN, CheckoutPooled(t, verify)
      PROVE  \A u \in Threads : Kept(u)'
  <2>1. /\ UNCHANGED <<drv, closed, host, dropped>> /\ pc[t] = "locked" /\ host[t] \in Hosts
        /\ drv[host[t]] # None /\ driver'[t] = drv[host[t]]
        /\ \A h \in Hosts : refcount'[h] = IF h = host[t] THEN refcount[h] + 1 ELSE refcount[h]
        /\ \A u \in Threads \ {t} : Using(u)' = Using(u) /\ driver'[u] = driver[u]
    BY <1>1, <1>9 DEF CheckoutPooled, Using
  <2>2. Kept(t)'
    BY <1>8, <2>1 DEF Kept, OwnDrivers, IInv
  <2>3. ASSUME NEW u \in Threads \ {t}
        PROVE  Kept(u)'
    BY <1>1, <1>4, <1>5, <2>1
  <2> QED BY <2>2, <2>3
\* A new driver takes the place of an idle one only.
<1>10. ASSUME NEW h \in Hosts, NEW v \in Hosts \cup {None}, drv[h] = None, Room(v), Connect(h, v),
              closed' = StillHeld(IF v = None THEN closed ELSE closed \cup {drv[v]}),
              NEW u \in Threads, Using(u), host[u] \notin dropped,
              drv[host[u]] = driver[u], driver[u] \notin closed, refcount[host[u]] = 1
       PROVE  drv'[host[u]] = drv[host[u]] /\ driver[u] \notin closed'
  <2>1. host[u] \in Hosts /\ driver[u] # None /\ host[u] # h /\ host[u] # v
    BY <1>1, <1>10, RoomIsIdle
  <2>2. v # None => drv[v] # driver[u]
    BY <1>1, <1>10, <2>1, RoomIsIdle DEF OwnDrivers
  <2> QED BY <1>10, <2>1, <2>2 DEF Connect, StillHeld
<1>11. ASSUME NEW t \in Threads, NEW verify \in BOOLEAN, CheckoutNew(t, verify)
       PROVE  \A u \in Threads : Kept(u)'
  <2>1. /\ UNCHANGED <<host, dropped>> /\ pc[t] = "locked" /\ host[t] \in Hosts /\ drv[host[t]] = None
        /\ driver'[t] = FreshDriver
        /\ \A h \in Hosts : refcount'[h] = IF h = host[t] THEN refcount[h] + 1 ELSE refcount[h]
        /\ \A u \in Threads \ {t} : Using(u)' = Using(u) /\ driver'[u] = driver[u]
    BY <1>1, <1>11 DEF CheckoutNew, Using
  <2>2. PICK v \in Hosts \cup {None} :
          /\ Room(v) /\ Connect(host[t], v)
          /\ closed' = StillHeld(IF v = None THEN closed ELSE closed \cup {drv[v]})
    BY <1>11 DEF CheckoutNew
  <2>3. /\ FreshDriver \notin closed
        /\ \A k \in Hosts : drv[k] # FreshDriver
    BY <1>1, <2>2, FreshDriverIsFresh DEF Connect, OwnDrivers, InHand
  <2>4. driver'[t] \notin closed' /\ drv'[host[t]] = driver'[t]
    BY <2>1, <2>2, <2>3, RoomIsIdle DEF StillHeld, Connect
  <2>5. Kept(t)'
    BY <1>8, <2>1, <2>4 DEF Kept
  <2>6. ASSUME NEW u \in Threads \ {t}
        PROVE  Kept(u)'
    <3>1. /\ Using(u)' = Using(u) /\ host'[u] = host[u] /\ driver'[u] = driver[u]
          /\ dropped' = dropped
      BY <2>1
    <3>2. ASSUME Using(u), host[u] \notin dropped,
                 drv[host[u]] = driver[u], driver[u] \notin closed, refcount[host[u]] = 1
          PROVE  /\ drv'[host[u]] = drv[host[u]] /\ driver[u] \notin closed'
                 /\ refcount'[host[u]] = refcount[host[u]]
      <4>1. drv'[host[u]] = drv[host[u]] /\ driver[u] \notin closed'
        BY <1>10, <2>1, <2>2, <3>2
      <4>2. host[u] \in Hosts /\ host[u] # host[t]
        BY <1>1, <1>5, <2>1, <3>2
      <4> QED BY <2>1, <4>1, <4>2
    <3> QED BY <1>4, <3>1, <3>2
  <2> QED BY <2>5, <2>6
<1>12. ASSUME NEW t \in Threads, NEW h \in BareHosts, NEW verify \in BOOLEAN, GetNew(t, h, verify)
       PROVE  \A u \in Threads : Kept(u)'
  <2>1. /\ refcount' = refcount /\ h \in Hosts /\ drv[h] = None /\ ~Using(t)'
        /\ \A u \in Threads \ {t} : Using(u)' = Using(u) /\ driver'[u] = driver[u] /\ host'[u] = host[u]
    BY <1>1, <1>12 DEF GetNew, Using
  <2>2. PICK v \in Hosts \cup {None} :
          /\ Room(v) /\ Connect(h, v)
          /\ closed' = StillHeld(IF v = None THEN closed ELSE closed \cup {drv[v]})
    BY <1>12 DEF GetNew
  <2>3. Kept(t)'
    BY <2>1 DEF Kept
  <2>4. ASSUME NEW u \in Threads \ {t}
        PROVE  Kept(u)'
    BY <1>1, <1>4, <1>10, <2>1, <2>2
  <2> QED BY <2>3, <2>4
<1>13. ASSUME NEW t \in Threads, CheckoutFails(t)
       PROVE  \A u \in Threads : Kept(u)'
  <2>1. /\ UNCHANGED <<host, driver, dropped, refcount>> /\ ~Using(t)'
        /\ \A u \in Threads \ {t} : Using(u)' = Using(u)
    BY <1>1, <1>13 DEF CheckoutFails, Using
  <2>2. Kept(t)'
    BY <2>1 DEF Kept
  <2>3. CASE UNCHANGED <<drv, closed>>
    BY <1>4, <2>1, <2>2, <2>3
  <2>4. ASSUME NEW v \in Hosts \cup {None}, Room(v), Evict(v),
               closed' = StillHeld(IF v = None THEN closed ELSE closed \cup {drv[v]})
        PROVE  \A u \in Threads : Kept(u)'
    <3>1. ASSUME NEW u \in Threads, Using(u), host[u] \notin dropped,
                 drv[host[u]] = driver[u], driver[u] \notin closed, refcount[host[u]] = 1
          PROVE  drv'[host[u]] = drv[host[u]] /\ driver[u] \notin closed'
      <4>1. host[u] \in Hosts /\ driver[u] # None /\ host[u] # v
        BY <1>1, <2>4, <3>1, RoomIsIdle
      <4>2. v # None => drv[v] # driver[u]
        BY <1>1, <2>4, <3>1, <4>1, RoomIsIdle DEF OwnDrivers
      <4> QED BY <2>4, <3>1, <4>1, <4>2 DEF Evict, StillHeld
    <3> QED BY <1>4, <2>1, <2>2, <3>1
  <2> QED BY <1>13, <2>3, <2>4 DEF CheckoutFails
<1>14. ASSUME NEW t \in Threads,
              VerifyStarts(t, "verifying", "probing", "using") \/ VerifyPasses(t, "probing", "using")
       PROVE  \A u \in Threads : Kept(u)'
  <2>1. UNCHANGED <<drv, closed, refcount, host, driver>> /\ \A u \in Threads : Using(u)' = Using(u)
    BY <1>1, <1>14 DEF VerifyStarts, VerifyPasses, Using
  <2> QED BY <1>4, <2>1
<1>15. ASSUME NEW t \in Threads,
              \/ VerifyStarts(t, "bare_verifying", "bare_probing", "borrowed")
              \/ VerifyPasses(t, "bare_probing", "borrowed")
       PROVE  \A u \in Threads : Kept(u)'
  <2>1. UNCHANGED <<drv, closed, refcount, host, driver>> /\ \A u \in Threads : Using(u)' = Using(u)
    BY <1>1, <1>15 DEF VerifyStarts, VerifyPasses, Using
  <2> QED BY <1>4, <2>1
\* A failed driver goes, whoever uses it: in acquire that is nobody else, and get_driver
\* drops the host.
<1>16. ASSUME NEW t \in Threads, NEW probing \in {"probing", "bare_probing"}, NEW after \in {"leaving", "idle"},
              VerifyFails(t, probing, after), \A u \in Threads \ {t} : host'[u] = host[u],
              \A u \in Threads \ {t} : Using(u) /\ host[u] \notin dropped /\ host[u] \notin dropped'
                                         => host[u] # host[t]
       PROVE  \A u \in Threads : Kept(u)'
  <2>1. /\ \A h \in Hosts \ {host[t]} : drv'[h] = drv[h] /\ refcount'[h] = refcount[h]
        /\ ~Using(t)' /\ closed' \subseteq closed \cup {driver[t]}
        /\ \A u \in Threads \ {t} : Using(u)' = Using(u) /\ driver'[u] = driver[u]
    BY <1>1, <1>16 DEF VerifyFails, Evict, StillHeld, Using
  <2>2. Kept(t)'
    BY <2>1 DEF Kept
  <2>3. ASSUME NEW u \in Threads \ {t}
        PROVE  Kept(u)'
    <3>1. driver[u] = driver[t] /\ driver[u] # None => host[u] = host[t]
      BY <1>1 DEF OwnDrivers
    <3> QED BY <1>1, <1>4, <1>16, <2>1, <3>1
  <2> QED BY <2>2, <2>3
<1>17. ASSUME NEW t \in Threads, VerifyFails(t, "probing", "leaving") /\ UNCHANGED <<host, dropped>>
       PROVE  \A u \in Threads : Kept(u)'
  <2>1. pc[t] \in LockSteps
    BY <1>17 DEF VerifyFails
  <2> QED BY <1>5, <1>16, <1>17, <2>1
<1>18. ASSUME NEW t \in Threads, VerifyFails(t, "bare_probing", "idle"),
              host' = [host EXCEPT ![t] = None], dropped' = StillDropped(dropped \cup {host[t]})
       PROVE  \A u \in Threads : Kept(u)'
  <2>1. \A u \in Threads \ {t} : host'[u] = host[u] /\ (host[u] = host[t] => host[u] \in dropped')
    BY <1>1, <1>18 DEF StillDropped
  <2> QED BY <1>16, <1>18, <2>1
<1>19. ASSUME NEW t \in Threads, NEW h \in Hosts, RemoveDriver(t, h)
       PROVE  \A u \in Threads : Kept(u)'
  <2>1. /\ \A k \in Hosts \ {h} : drv'[k] = drv[k] /\ refcount'[k] = refcount[k]
        /\ ~Using(t)' /\ closed' \subseteq closed \cup {drv[h]} /\ h \in dropped'
        /\ \A u \in Threads \ {t} : Using(u)' = Using(u) /\ driver'[u] = driver[u] /\ host'[u] = host[u]
    BY <1>1, <1>19 DEF RemoveDriver, Evict, Using
  <2>2. Kept(t)'
    BY <2>1 DEF Kept
  <2>3. ASSUME NEW u \in Threads \ {t}
        PROVE  Kept(u)'
    <3>1. drv[h] = drv[host[u]] /\ Using(u) /\ drv[host[u]] = driver[u] => host[u] = h
      BY <1>1 DEF OwnDrivers
    <3> QED BY <1>1, <1>4, <2>1, <3>1
  <2> QED BY <2>2, <2>3
<1>20. ASSUME NEW t \in Threads, CloseDrivers(t)
       PROVE  \A u \in Threads : Kept(u)'
  <2>1. dropped' = Hosts /\ host' = host /\ \A u \in Threads : Using(u)' => Using(u)
    BY <1>1, <1>20 DEF CloseDrivers, Using
  <2> QED BY <1>1, <2>1 DEF Kept
<1>21. ASSUME UNCHANGED vars
       PROVE  \A u \in Threads : Kept(u)'
  <2>1. UNCHANGED <<drv, closed, refcount, host, driver>> /\ \A u \in Threads : Using(u)' = Using(u)
    BY <1>21 DEF vars, Using
  <2> QED BY <1>4, <2>1
<1>22. ASSUME NEW t \in Threads, VerifyInGetDriver(t)
       PROVE  \A u \in Threads : Kept(u)'
  BY <1>15, <1>18, <1>22 DEF VerifyInGetDriver
<1>23. ASSUME NEW t \in Threads, VerifyInAcquire(t)
       PROVE  \A u \in Threads : Kept(u)'
  BY <1>14, <1>17, <1>23 DEF VerifyInAcquire
<1>24. ASSUME NEW t \in Threads, Proceed(t)
       PROVE  \A u \in Threads : Kept(u)'
  BY <1>6, <1>7, <1>9, <1>11, <1>13, <1>22, <1>23, <1>24 DEF Proceed
<1>25. \A u \in Threads : Kept(u)'
  BY <1>6, <1>12, <1>19, <1>20, <1>21, <1>24 DEF Next
<1> QED BY <1>25 DEF DriverInUseIsKept, Kept

-----------------------------------------------------------------------------
(* Theorems *)

LEMMA InitEstablishesIInv == Init => IInv
<1> SUFFICES ASSUME Init PROVE IInv
  OBVIOUS
<1>1. /\ None \notin Hosts /\ None \notin Drivers /\ None \notin Locks /\ None \notin Threads
      /\ MaxConnections \in Nat /\ <<>> \in Seq(Hosts) /\ Len(<<>>) = 0
  BY PoolAssumption, EmptySeq
<1> USE DEF Init
<1>2. Distinct(order) /\ Range(order) = {} /\ Pooled = {}
  BY DEF Distinct, Range, Pooled
<1>3. PoolSound
  BY <1>1, <1>2 DEF PoolSound
<1>4. TypeOK
  BY <1>1, <1>2, <1>3 DEF TypeOK, PoolSound, Steps
<1>5. InPlace /\ OwnDrivers /\ OwnLocks /\ LocksInForce /\ DriverInUseIsKept
  BY <1>1 DEF InPlace, OwnDrivers, OwnLocks, LocksInForce, DriverInUseIsKept, Using, LockSteps,
     CountedSteps, BareSteps
<1>6. CountsHaveUsers
  BY UsersAreFinite DEF CountsHaveUsers
<1> QED BY <1>3, <1>4, <1>5, <1>6 DEF IInv

LEMMA NextKeepsIInv == IInv /\ [Next]_vars => IInv'
BY NextKeepsTypes, NextKeepsPool, NextKeepsThreads, NextKeepsOwnDrivers, NextKeepsOwnLocks,
   NextKeepsLocksInForce, NextKeepsCountsHaveUsers, NextKeepsDriverInUse DEF IInv

LEMMA Invariance == Spec => []IInv
BY InitEstablishesIInv, NextKeepsIInv, PTL DEF Spec

\* Every variable stays in its range: the pool never holds more than _max_connections
\* drivers, and its dict and the reference counts never disagree with their types.
THEOREM TypeCorrect == Spec => []TypeOK
<1>1. IInv => TypeOK
  BY DEF IInv
<1> QED BY <1>1, Invariance, PTL

\* The driver a thread got from acquire stays pooled, open and counted once until the thread
\* returns it, whatever is evicted meanwhile, unless somebody drops the host.
THEOREM UsersKeepTheirDriver == Spec => []DriverInUseIsKept
<1>1. IInv => DriverInUseIsKept
  BY DEF IInv
<1> QED BY <1>1, Invariance, PTL

\* A reference count above zero belongs to a thread that uses the host, so that whatever
\* nobody uses can be evicted, after failures and drops too.
THEOREM CountsAreBacked == Spec => []NoLeakedReference
<1>1. ASSUME IInv PROVE NoLeakedReference
  BY <1>1, NobodyCountsNothing, Typed DEF NoLeakedReference, TableTypes
<1> QED BY <1>1, Invariance, PTL
=============================================================================
