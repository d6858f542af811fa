------------------------ MODULE IdempotentCallsProofs ------------------------
(***************************************************************************)
(* Proofs about IdempotentCalls, for any finite set of calls, any keys and *)
(* any capacity of the store.                                              *)
(*                                                                         *)
(* That a key's owners do not repeat a stored success rests on who is at   *)
(* work: a call that owns its key is registered under it until it has let  *)
(* go of it, and while it has not executed no owner's result under the key *)
(* is stored.  That the drain is clean rests on the counter, which is the  *)
(* number of calls let in, and on the order in which the server stops.     *)
(***************************************************************************)
EXTENDS IdempotentCalls, FiniteSetTheorems, SequenceTheorems, TLAPS

Entry == [key : Keys, by : Calls]
KeysIn(s) == {s[i].key : i \in DOMAIN s}
OneEntryPerKey(s) == \A i, j \in DOMAIN s : s[i].key = s[j].key => i = j

\* The store is a dict of bounded size.
StoreIsDict == Len(store) <= Capacity /\ OneEntryPerKey(store)

AtWork == {"entering", "executing", "releasing", "refused"}

\* A call that owns its key is registered under it while it is at work, and only such
\* calls release keys.
OwnersAreRegistered ==
  \A c \in Calls :
    /\ c \in owned /\ pc[c] \in AtWork => key[c] \in Keys /\ inflight[key[c]] = c
    /\ pc[c] \in {"releasing", "refused"} => c \in owned
    /\ pc[c] = "new" => c \notin ok \cup raised
    /\ pc[c] \in {"new", "waiting"} => c \notin owned

FreshAreStored == \A c \in fresh : key[c] \in Keys /\ key[c] \in KeysIn(store)

\* While an owner has still to execute, no other owner's result is stored under its key.
OwnersExecuteFirst ==
  \A c \in fresh \cap owned, d \in owned :
    pc[d] \in {"entering", "executing"} => key[c] # key[d]

\* The counter is at zero, for good.
Empty == shutting /\ count = 0

DrainInOrder ==
  /\ server # "up" => shutting
  /\ drained => Empty
  /\ server \in {"closing", "closed"} /\ ~late => Empty

IInv ==
  /\ TypeOK
  /\ StoreIsDict
  /\ OwnersAreRegistered
  /\ NoOrphanedKey
  /\ FreshAreStored
  /\ OwnersExecuteFirst
  /\ OwnersDoNotRepeat
  /\ DrainInOrder
-----------------------------------------------------------------------------
(* Stores *)

LEMMA RemoveAtProperties ==
  ASSUME NEW S, NEW s \in Seq(S), NEW n \in DOMAIN s
  PROVE  /\ RemoveAt(s, n) \in Seq(S)
         /\ Len(RemoveAt(s, n)) = Len(s) - 1
         /\ \A i \in 1..Len(s) - 1 : RemoveAt(s, n)[i] = IF i < n THEN s[i] ELSE s[i + 1]
<1> DEFINE a == SubSeq(s, 1, n - 1)
           b == SubSeq(s, n + 1, Len(s))
<1>1. Len(s) \in Nat /\ n \in 1..Len(s) /\ \A i \in 1..Len(s) : s[i] \in S
  BY LenProperties, ElementOfSeq
<1>2. /\ a \in Seq(S) /\ Len(a) = n - 1
      /\ \A i \in 1..n - 1 : a[i] = s[i]
  <2>1. \A i \in 1..n - 1 : s[i] \in S
    BY <1>1
  <2>2. \A i \in 1..(n - 1) - 1 + 1 : a[i] = s[1 + i - 1]
    BY <1>1, <2>1, SubSeqProperties
  <2> QED BY <1>1, <2>1, <2>2, SubSeqProperties
<1>3. /\ b \in Seq(S) /\ Len(b) = Len(s) - n
      /\ \A i \in 1..Len(s) - n : b[i] = s[n + i]
  <2>1. \A i \in n + 1..Len(s) : s[i] \in S
    BY <1>1
  <2>2. \A i \in 1..Len(s) - (n + 1) + 1 : b[i] = s[(n + 1) + i - 1]
    BY <1>1, <2>1, SubSeqProperties
  <2> QED BY <1>1, <2>1, <2>2, SubSeqProperties
<1>4. /\ a \o b \in Seq(S) /\ Len(a \o b) = Len(s) - 1
      /\ \A i \in 1..Len(s) - 1 : (a \o b)[i] = IF i <= n - 1 THEN a[i] ELSE b[i - (n - 1)]
  <2> HIDE DEF a, b
  <2>1. Len(a) + Len(b) = Len(s) - 1
    BY <1>1, <1>2, <1>3
  <2>2. /\ a \o b \in Seq(S) /\ Len(a \o b) = Len(a) + Len(b)
        /\ \A i \in 1..Len(a) + Len(b) : (a \o b)[i] = IF i <= Len(a) THEN a[i] ELSE b[i - Len(a)]
    BY <1>2, <1>3, ConcatProperties
  <2> QED BY <1>2, <2>1, <2>2
<1>5. \A i \in 1..Len(s) - 1 : (a \o b)[i] = IF i < n THEN s[i] ELSE s[i + 1]
  <2> SUFFICES ASSUME NEW i \in 1..Len(s) - 1
               PROVE  (a \o b)[i] = IF i < n THEN s[i] ELSE s[i + 1]
    OBVIOUS
  <2> HIDE DEF a, b
  <2>1. CASE i < n
    BY <1>1, <1>2, <1>4, <2>1
  <2>2. CASE ~(i < n)
    <3>1. i - (n - 1) \in 1..Len(s) - n /\ n + (i - (n - 1)) = i + 1
      BY <1>1, <2>2
    <3>2. (a \o b)[i] = b[i - (n - 1)]
      BY <1>1, <1>4, <2>2
    <3> QED BY <1>3, <2>2, <3>1, <3>2
  <2> QED BY <2>1, <2>2
<1> QED BY <1>4, <1>5 DEF RemoveAt

\* Dropping a key's entry takes the key out of a store, and nothing else.
LEMMA DropProperties ==
  ASSUME NEW s \in Seq(Entry), OneEntryPerKey(s), NEW k
  PROVE  /\ Drop(s, k) \in Seq(Entry)
         /\ Len(Drop(s, k)) <= Len(s)
         /\ OneEntryPerKey(Drop(s, k))
         /\ KeysIn(Drop(s, k)) = KeysIn(s) \ {k}
<1>1. Len(s) \in Nat /\ DOMAIN s = 1..Len(s)
  BY LenProperties
<1>2. CASE At(s, k) = {}
  BY <1>1, <1>2 DEF Drop, At, KeysIn
<1>3. CASE At(s, k) # {}
  <2> DEFINE n == CHOOSE i \in At(s, k) : TRUE
             r == RemoveAt(s, n)
  <2>1. n \in DOMAIN s /\ s[n].key = k
    BY <1>3 DEF At
  <2> HIDE DEF n
  <2>2. /\ r \in Seq(Entry) /\ Len(r) = Len(s) - 1 /\ DOMAIN r = 1..Len(s) - 1
        /\ \A i \in 1..Len(s) - 1 : r[i] = IF i < n THEN s[i] ELSE s[i + 1]
    <3>1. /\ r \in Seq(Entry) /\ Len(r) = Len(s) - 1
          /\ \A i \in 1..Len(s) - 1 : r[i] = IF i < n THEN s[i] ELSE s[i + 1]
      BY <2>1, RemoveAtProperties
    <3> HIDE DEF r
    <3> QED BY <3>1, LenProperties
  <2> HIDE DEF r
  <2> DEFINE from(i) == IF i < n THEN i ELSE i + 1
  <2>3. \A i \in 1..Len(s) - 1 : from(i) \in 1..Len(s) \ {n} /\ r[i] = s[from(i)]
    BY <1>1, <2>1, <2>2
  <2>4. \A i, j \in 1..Len(s) - 1 : from(i) = from(j) => i = j
    BY <1>1, <2>1
  <2> HIDE DEF from
  <2>5. OneEntryPerKey(r)
    <3> SUFFICES ASSUME NEW i \in 1..Len(s) - 1, NEW j \in 1..Len(s) - 1, r[i].key = r[j].key
                 PROVE  i = j
      BY <2>2 DEF OneEntryPerKey
    <3>1. /\ from(i) \in DOMAIN s /\ from(j) \in DOMAIN s
          /\ s[from(i)].key = s[from(j)].key
      BY <1>1, <2>3
    <3>2. from(i) = from(j)
      BY <3>1 DEF OneEntryPerKey
    <3> QED BY <2>4, <3>2
  <2>6. ASSUME NEW x \in KeysIn(r)
        PROVE  x \in KeysIn(s) \ {k}
    BY <1>1, <2>1, <2>2, <2>3 DEF KeysIn, OneEntryPerKey
  <2>7. ASSUME NEW x \in KeysIn(s) \ {k}
        PROVE  x \in KeysIn(r)
    <3>1. PICK i \in 1..Len(s) : s[i].key = x /\ i # n
      BY <1>1, <2>1 DEF KeysIn
    <3>2. CASE i < n
      BY <1>1, <2>1, <2>2, <3>1, <3>2 DEF KeysIn
    <3>3. CASE i > n
      <4>1. i - 1 \in 1..Len(s) - 1 /\ r[i - 1] = s[i]
        BY <1>1, <2>1, <2>2, <3>1, <3>3
      <4> QED BY <2>2, <3>1, <4>1 DEF KeysIn
    <3> QED BY <1>1, <2>1, <3>1, <3>2, <3>3
  <2>8. Drop(s, k) = r
    BY <1>3 DEF Drop, r, n
  <2> QED BY <1>1, <2>2, <2>5, <2>6, <2>7, <2>8
<1> QED BY <1>2, <1>3

LEMMA TailProperties ==
  ASSUME NEW s \in Seq(Entry), OneEntryPerKey(s), s # <<>>
  PROVE  /\ Tail(s) \in Seq(Entry)
         /\ Len(Tail(s)) = Len(s) - 1
         /\ OneEntryPerKey(Tail(s))
         /\ KeysIn(Tail(s)) = KeysIn(s) \ {Head(s).key}
<1>1. Len(s) \in Nat \ {0} /\ DOMAIN s = 1..Len(s)
  BY LenProperties, EmptySeq
<1>2. /\ Tail(s) \in Seq(Entry) /\ Len(Tail(s)) = Len(s) - 1 /\ DOMAIN Tail(s) = 1..Len(s) - 1
      /\ \A i \in 1..Len(s) - 1 : Tail(s)[i] = s[i + 1]
  BY HeadTailProperties, LenProperties
<1>3. Head(s) = s[1]
  BY <1>1
<1>4. OneEntryPerKey(Tail(s))
  BY <1>1, <1>2 DEF OneEntryPerKey
<1>5. ASSUME NEW x \in KeysIn(Tail(s))
      PROVE  x \in KeysIn(s) \ {Head(s).key}
  BY <1>1, <1>2, <1>3 DEF KeysIn, OneEntryPerKey
<1>6. ASSUME NEW x \in KeysIn(s) \ {Head(s).key}
      PROVE  x \in KeysIn(Tail(s))
  <2>1. PICK i \in 1..Len(s) : s[i].key = x /\ i # 1
    BY <1>1, <1>3 DEF KeysIn
  <2>2. i - 1 \in 1..Len(s) - 1 /\ Tail(s)[i - 1] = s[i]
    BY <1>1, <1>2, <2>1
  <2> QED BY <1>2, <2>1, <2>2 DEF KeysIn
<1> QED BY <1>2, <1>4, <1>5, <1>6

LEMMA AppendEntry ==
  ASSUME NEW s \in Seq(Entry), OneEntryPerKey(s), NEW e \in Entry, e.key \notin KeysIn(s)
  PROVE  /\ Append(s, e) \in Seq(Entry)
         /\ Len(Append(s, e)) = Len(s) + 1
         /\ OneEntryPerKey(Append(s, e))
         /\ KeysIn(Append(s, e)) = KeysIn(s) \cup {e.key}
<1> DEFINE r == Append(s, e)
<1>1. Len(s) \in Nat /\ DOMAIN s = 1..Len(s)
  BY LenProperties
<1>2. /\ r \in Seq(Entry) /\ Len(r) = Len(s) + 1 /\ DOMAIN r = 1..Len(s) + 1
      /\ \A i \in 1..Len(s) : r[i] = s[i]
      /\ r[Len(s) + 1] = e
  BY AppendProperties, LenProperties
<1> HIDE DEF r
<1>3. OneEntryPerKey(r)
  BY <1>1, <1>2 DEF OneEntryPerKey, KeysIn
<1>4. KeysIn(r) = KeysIn(s) \cup {e.key}
  BY <1>1, <1>2 DEF KeysIn
<1> QED BY <1>2, <1>3, <1>4 DEF r

LEMMA EntriesAreKeys ==
  ASSUME NEW k
  PROVE  Entries(k) = {} <=> k \notin KeysIn(store)
BY DEF Entries, KeysIn, Range

\* A result is stored under the key of its call, and no fresh one loses its entry.
LEMMA PutStores ==
  ASSUME IInv, NEW c \in Calls, key[c] \in Keys, Put(c), key' = key
  PROVE  /\ store' \in Seq(Entry) /\ StoreIsDict' /\ FreshAreStored'
         /\ fresh' \subseteq fresh \cup {c} /\ ok' = ok \cup {c}
<1> DEFINE k == key[c]
           full == Len(store) >= Capacity
           evicted == IF full THEN {Head(store).key} ELSE {}
           kept == IF full THEN Tail(store) ELSE store
           e == [key |-> k, by |-> c]
<1>1. store \in Seq(Entry) /\ OneEntryPerKey(store) /\ Len(store) <= Capacity
      /\ Capacity \in Nat \ {0} /\ Len(store) \in Nat
  BY CallsAssumption, LenProperties DEF IInv, TypeOK, StoreIsDict, Entry
<1>2. /\ kept \in Seq(Entry) /\ OneEntryPerKey(kept) /\ Len(kept) \in Nat /\ Len(kept) < Capacity
      /\ KeysIn(kept) = KeysIn(store) \ evicted
  <2>1. CASE full
    <3>1. store # <<>>
      BY <1>1, <2>1, EmptySeq
    <3>2. /\ Tail(store) \in Seq(Entry) /\ Len(Tail(store)) = Len(store) - 1
          /\ OneEntryPerKey(Tail(store)) /\ KeysIn(Tail(store)) = KeysIn(store) \ {Head(store).key}
      BY <1>1, <3>1, TailProperties
    <3>3. Len(Tail(store)) \in Nat
      BY <3>2, LenProperties
    <3>4. Len(Tail(store)) < Capacity
      BY <1>1, <3>2
    <3> QED BY <2>1, <3>2, <3>3, <3>4
  <2>2. CASE ~full
    BY <1>1, <2>2
  <2> QED BY <2>1, <2>2
<1>3. store' = Append(Drop(kept, k), e) /\ ok' = ok \cup {c}
      /\ fresh' = FreshWithout(evicted \ {k}) \cup {c}
  BY DEF Put
<1>4. e \in Entry /\ e.key = k /\ k \in Keys
  BY DEF Entry
<1> HIDE DEF full, evicted, kept, k, e
<1>5. /\ Drop(kept, k) \in Seq(Entry) /\ Len(Drop(kept, k)) <= Len(kept)
      /\ OneEntryPerKey(Drop(kept, k)) /\ KeysIn(Drop(kept, k)) = KeysIn(kept) \ {k}
  BY <1>2, DropProperties
<1>6. /\ store' \in Seq(Entry) /\ Len(store') = Len(Drop(kept, k)) + 1
      /\ OneEntryPerKey(store') /\ KeysIn(store') = (KeysIn(kept) \ {k}) \cup {k}
  BY <1>3, <1>4, <1>5, AppendEntry
<1>7. Len(Drop(kept, k)) \in Nat /\ Capacity' = Capacity
  BY <1>5, LenProperties
<1>8. Len(store') <= Capacity
  BY <1>1, <1>2, <1>5, <1>6, <1>7
<1>9. ASSUME NEW d \in fresh'
      PROVE  key'[d] \in Keys /\ key'[d] \in KeysIn(store')
  <2>1. CASE d = c
    BY <1>4, <1>6, <2>1 DEF k
  <2>2. CASE d # c
    <3>1. d \in fresh /\ key[d] \notin evicted \ {k}
      BY <1>3, <1>9, <2>2 DEF FreshWithout
    <3>2. key[d] \in Keys /\ key[d] \in KeysIn(store)
      BY <3>1 DEF IInv, FreshAreStored
    <3> QED BY <1>2, <1>6, <3>1, <3>2
  <2> QED BY <2>1, <2>2
<1>10. fresh' \subseteq fresh \cup {c}
  BY <1>3 DEF FreshWithout
<1> QED BY <1>3, <1>6, <1>8, <1>9, <1>10 DEF StoreIsDict, FreshAreStored

\* An entry that expires takes its calls out of fresh.
LEMMA ExpireForgets ==
  ASSUME IInv, NEW k \in Keys, Expire(k)
  PROVE  store' \in Seq(Entry) /\ StoreIsDict' /\ FreshAreStored' /\ fresh' \subseteq fresh
<1>1. store \in Seq(Entry) /\ OneEntryPerKey(store) /\ Len(store) <= Capacity
      /\ Capacity \in Nat /\ Len(store) \in Nat
  BY CallsAssumption, LenProperties DEF IInv, TypeOK, StoreIsDict, Entry
<1>2. store' = Drop(store, k) /\ fresh' = FreshWithout({k}) /\ key' = key
  BY DEF Expire
<1>3. /\ store' \in Seq(Entry) /\ Len(store') <= Len(store)
      /\ OneEntryPerKey(store') /\ KeysIn(store') = KeysIn(store) \ {k}
  BY <1>1, <1>2, DropProperties
<1>4. Len(store') \in Nat
  BY <1>3, LenProperties
<1>5. Len(store') <= Capacity
  BY <1>1, <1>3, <1>4
<1>6. \A d \in fresh' : d \in fresh /\ key[d] # k
  BY <1>2 DEF FreshWithout
<1>7. \A d \in fresh : key[d] \in Keys /\ key[d] \in KeysIn(store)
  BY DEF IInv, FreshAreStored
<1>8. \A d \in fresh' : key'[d] \in Keys /\ key'[d] \in KeysIn(store')
  BY <1>2, <1>3, <1>6, <1>7
<1> QED BY <1>3, <1>5, <1>6, <1>8 DEF StoreIsDict, FreshAreStored

\* What a step does to the store.
LEMMA NextKeepsStore ==
  ASSUME IInv, [Next]_vars
  PROVE  /\ store' \in Seq(Entry) /\ StoreIsDict' /\ FreshAreStored'
         /\ fresh' \subseteq ok'
<1> USE DEF Goto
<1>1. /\ store \in Seq(Entry) /\ StoreIsDict /\ FreshAreStored /\ fresh \subseteq ok
      /\ key \in [Calls -> Keys \cup {None}] /\ ok \subseteq Calls
  BY DEF IInv, TypeOK, Entry
<1>2. CASE /\ store' = store /\ fresh' = fresh /\ ok' = ok
           /\ \A c \in fresh : key'[c] = key[c]
  BY <1>1, <1>2 DEF StoreIsDict, FreshAreStored
<1>3. CASE storeVars' = storeVars /\ key' = key
  BY <1>1, <1>3 DEF storeVars, StoreIsDict, FreshAreStored
<1>4. ASSUME NEW c \in Calls, Arrive(c)
      PROVE  /\ store' = store /\ fresh' = fresh /\ ok' = ok
             /\ \A d \in fresh : key'[d] = key[d]
  <2>1. c \notin fresh
    BY <1>1, <1>4 DEF IInv, OwnersAreRegistered, Arrive, ArriveWithoutKey, ArriveCached,
       ArriveFirst, ArriveSecond
  <2> QED
    BY <1>1, <1>4, <2>1 DEF Arrive, ArriveWithoutKey, ArriveCached, ArriveFirst, ArriveSecond,
       Replay, storeVars
<1>5. ASSUME NEW c \in Calls, WaitTimesOut(c) \/ (Proceed(c) /\ ~Succeed(c))
      PROVE  /\ store' = store /\ fresh' = fresh /\ ok' = ok /\ key' = key
  BY <1>5 DEF WaitTimesOut, Proceed, WakeToResult, WakeToNothing, Enter, Refuse, Fail, Raise,
     Release, Leave, Replay, storeVars
<1>6. ASSUME NEW c \in Calls, Succeed(c)
      PROVE  /\ store' \in Seq(Entry) /\ StoreIsDict' /\ FreshAreStored'
             /\ fresh' \subseteq ok'
  <2>1. key' = key
    BY <1>6 DEF Succeed
  <2>2. CASE key[c] = None
    BY <1>1, <1>6, <2>1, <2>2 DEF Succeed, StoreIsDict, FreshAreStored
  <2>3. CASE key[c] # None
    <3>1. key[c] \in Keys /\ Put(c)
      BY <1>1, <1>6, <2>3 DEF Succeed
    <3> QED BY <1>1, <2>1, <3>1, PutStores
  <2> QED BY <2>2, <2>3
<1>7. ASSUME NEW k \in Keys, Expire(k)
      PROVE  /\ store' \in Seq(Entry) /\ StoreIsDict' /\ FreshAreStored'
             /\ fresh' \subseteq ok'
  <2>1. ok' = ok
    BY <1>7 DEF Expire
  <2> QED BY <1>1, <1>7, <2>1, ExpireForgets
<1>8. CASE Signal \/ Stop \/ ShutDown \/ DrainTimesOut \/ UNCHANGED vars
  <2>1. storeVars' = storeVars /\ key' = key
    BY <1>8 DEF Signal, Stop, ShutDown, ReadCount, DrainDone, CloseAll, DrainTimesOut, storeVars, vars
  <2> QED BY <1>3, <2>1
<1> QED
  BY <1>2, <1>4, <1>5, <1>6, <1>7, <1>8 DEF Next

-----------------------------------------------------------------------------
(* Types *)

CallTypes ==
  /\ inflight \in [Keys -> Calls \cup {None}]
  /\ pc \in [Calls -> Steps]
  /\ key \in [Calls -> Keys \cup {None}]
  /\ waitsFor \in [Calls -> Calls \cup {None}]

SetTypes == woken \cup owned \cup raised \cup ok \subseteq Calls

ServerTypes ==
  /\ shutting \in BOOLEAN /\ drained \in BOOLEAN /\ late \in BOOLEAN
  /\ server \in Servers

CountedCalls == {c \in Calls : pc[c] \in Counted}
CountIsTrue == count = Cardinality(CountedCalls)

LEMMA NextKeepsCallTypes ==
  ASSUME IInv, [Next]_vars
  PROVE  CallTypes' /\ SetTypes'
<1> USE DEF Goto, storeVars, serverVars
<1>1. CallTypes /\ SetTypes
  BY DEF IInv, TypeOK, CallTypes, SetTypes
<1>2. {"new", "waiting", "entering", "executing", "releasing", "leaving", "refused", "done"} \subseteq Steps
  BY DEF Steps, Counted
<1> USE DEF CallTypes, SetTypes
<1>3. ASSUME NEW c \in Calls, Arrive(c)
      PROVE  CallTypes' /\ SetTypes'
  BY <1>1, <1>2, <1>3 DEF Arrive, ArriveWithoutKey, ArriveCached, ArriveFirst, ArriveSecond, Replay
<1>4. ASSUME NEW c \in Calls, WaitTimesOut(c) \/ (Proceed(c) /\ ~Succeed(c))
      PROVE  CallTypes' /\ SetTypes'
  BY <1>1, <1>2, <1>4 DEF WaitTimesOut, Proceed, WakeToResult, WakeToNothing, Enter, Refuse,
     Fail, Raise, Release, Leave, Replay
<1>5. ASSUME NEW c \in Calls, Succeed(c)
      PROVE  CallTypes' /\ SetTypes'
  BY <1>1, <1>2, <1>5 DEF Succeed, Put
<1>6. CASE (\E k \in Keys : Expire(k)) \/ Signal \/ Stop \/ ShutDown \/ DrainTimesOut \/ UNCHANGED vars
  BY <1>1, <1>6 DEF Expire, Signal, Stop, ShutDown, ReadCount, DrainDone, CloseAll,
     DrainTimesOut, vars
<1> QED
  BY <1>3, <1>4, <1>5, <1>6 DEF Next

LEMMA NextKeepsServerTypes ==
  ASSUME IInv, [Next]_vars
  PROVE  ServerTypes'
<1>1. ServerTypes
  BY DEF IInv, TypeOK, ServerTypes
<1>2. ASSUME NEW c \in Calls, Arrive(c) \/ WaitTimesOut(c) \/ (Proceed(c) /\ ~Leave(c))
      PROVE  shutting' = shutting /\ drained' = drained /\ late' = late /\ server' = server
  BY <1>2 DEF Arrive, ArriveWithoutKey, ArriveCached, ArriveFirst, ArriveSecond, WaitTimesOut,
     Proceed, WakeToResult, WakeToNothing, Enter, Refuse, Succeed, Fail, Raise, Release, Replay,
     storeVars, serverVars
<1>3. ASSUME NEW c \in Calls, Leave(c)
      PROVE  ServerTypes'
  BY <1>1, <1>3 DEF Leave, ServerTypes
<1>4. CASE (\E k \in Keys : Expire(k)) \/ Signal \/ Stop \/ ShutDown \/ DrainTimesOut \/ UNCHANGED vars
  BY <1>1, <1>4 DEF ServerTypes, Servers, Expire, Signal, Stop, ShutDown, ReadCount, DrainDone,
     CloseAll, DrainTimesOut, vars, serverVars
<1> QED
  BY <1>1, <1>2, <1>3, <1>4 DEF Next, ServerTypes

-----------------------------------------------------------------------------
(* The counter *)

LEMMA CountedIsFinite ==
  ASSUME IInv
  PROVE  /\ IsFiniteSet(CountedCalls) /\ count = Cardinality(CountedCalls) /\ count \in Nat
         /\ count = 0 <=> CountedCalls = {}
BY CallsAssumption, FS_Subset, FS_CardinalityType, FS_EmptySet DEF IInv, TypeOK, CountedCalls

\* The counter is true if one call is counted in or out with it.
LEMMA CountAccount ==
  ASSUME IInv, NEW c \in Calls,
         \/ CountedCalls' = CountedCalls /\ count' = count
         \/ c \notin CountedCalls /\ CountedCalls' = CountedCalls \cup {c} /\ count' = count + 1
         \/ c \in CountedCalls /\ CountedCalls' = CountedCalls \ {c} /\ count' = count - 1
  PROVE  CountIsTrue'
<1>1. IsFiniteSet(CountedCalls) /\ count = Cardinality(CountedCalls)
  BY CountedIsFinite
<1>2. c \notin CountedCalls => Cardinality(CountedCalls \cup {c}) = count + 1
  BY <1>1, FS_AddElement
<1>3. c \in CountedCalls => Cardinality(CountedCalls \ {c}) = count - 1
  BY <1>1, FS_RemoveElement
<1>4. count' = Cardinality(CountedCalls')
  BY <1>1, <1>2, <1>3
<1> QED BY <1>4 DEF CountIsTrue

LEMMA NextKeepsCountTrue ==
  ASSUME IInv, [Next]_vars
  PROVE  CountIsTrue'
<1> USE DEF Goto, storeVars, serverVars
<1>1. pc \in [Calls -> Steps]
  BY DEF IInv, TypeOK
<1>2. count = Cardinality(CountedCalls) /\ count \in Nat /\ (count = 0 <=> CountedCalls = {})
  BY CountedIsFinite
<1>3. CASE CountedCalls' = CountedCalls /\ count' = count
  BY <1>2, <1>3 DEF CountIsTrue
<1>4. ASSUME NEW c \in Calls,
             Arrive(c) \/ WaitTimesOut(c) \/ (Proceed(c) /\ ~Enter(c) /\ ~Leave(c))
      PROVE  CountedCalls' = CountedCalls /\ count' = count
  BY <1>1, <1>4 DEF Arrive, ArriveWithoutKey, ArriveCached, ArriveFirst, ArriveSecond,
     WaitTimesOut, Proceed, WakeToResult, WakeToNothing, Refuse, Succeed, Fail, Raise, Release,
     Replay, CountedCalls, Counted
<1>5. ASSUME NEW c \in Calls, Enter(c)
      PROVE  CountIsTrue'
  <2>1. c \notin CountedCalls /\ CountedCalls' = CountedCalls \cup {c} /\ count' = count + 1
    BY <1>1, <1>5 DEF Enter, CountedCalls, Counted
  <2> QED BY <2>1, CountAccount
<1>6. ASSUME NEW c \in Calls, Leave(c)
      PROVE  CountIsTrue'
  <2>1. c \in CountedCalls /\ CountedCalls' = CountedCalls \ {c}
    BY <1>1, <1>6 DEF Leave, CountedCalls, Counted
  <2>2. count' = count - 1
    BY <1>2, <1>6, <2>1 DEF Leave
  <2> QED BY <2>1, <2>2, CountAccount
<1>7. CASE (\E k \in Keys : Expire(k)) \/ Signal \/ Stop \/ ShutDown \/ DrainTimesOut \/ UNCHANGED vars
  <2>1. pc' = pc /\ count' = count
    BY <1>7 DEF Expire, Signal, Stop, ShutDown, ReadCount, DrainDone, CloseAll,
       DrainTimesOut, vars
  <2> QED BY <1>3, <2>1 DEF CountedCalls
<1> QED
  BY <1>3, <1>4, <1>5, <1>6, <1>7 DEF Next

LEMMA NextKeepsTypes ==
  ASSUME IInv, [Next]_vars
  PROVE  TypeOK'
<1>1. store' \in Seq(Entry) /\ fresh' \subseteq ok'
  BY NextKeepsStore
<1>2. CallTypes' /\ SetTypes' /\ ServerTypes' /\ CountIsTrue'
  BY NextKeepsCallTypes, NextKeepsServerTypes, NextKeepsCountTrue
<1> QED
  BY <1>1, <1>2 DEF TypeOK, Entry, CallTypes, SetTypes, ServerTypes, CountIsTrue, CountedCalls

-----------------------------------------------------------------------------
(* Who is registered *)

\* What the parts below need to know of the types.
LEMMA Typed ==
  ASSUME IInv
  PROVE  /\ pc \in [Calls -> Steps] /\ key \in [Calls -> Keys \cup {None}]
         /\ inflight \in [Keys -> Calls \cup {None}] /\ None \notin Keys /\ None \notin Calls
         /\ owned \subseteq Calls /\ ok \subseteq Calls /\ fresh \subseteq ok
BY CallsAssumption DEF IInv, TypeOK

LEMMA NextKeepsOwnersAreRegistered ==
  ASSUME IInv, [Next]_vars
  PROVE  OwnersAreRegistered' /\ NoOrphanedKey'
<1> USE DEF Goto, AtWork, storeVars
<1>1. /\ pc \in [Calls -> Steps] /\ key \in [Calls -> Keys \cup {None}]
      /\ inflight \in [Keys -> Calls \cup {None}] /\ None \notin Keys /\ None \notin Calls
      /\ OwnersAreRegistered /\ NoOrphanedKey
  BY Typed DEF IInv
<1>2. CASE /\ pc' = pc /\ key' = key /\ inflight' = inflight
           /\ owned' = owned /\ ok' = ok /\ raised' = raised
  BY <1>1, <1>2 DEF OwnersAreRegistered, NoOrphanedKey
<1>3. ASSUME NEW c \in Calls, Arrive(c)
      PROVE  OwnersAreRegistered' /\ NoOrphanedKey'
  <2>1. CASE ArriveWithoutKey(c)
    BY <1>1, <2>1 DEF ArriveWithoutKey, OwnersAreRegistered, NoOrphanedKey
  <2>2. ASSUME NEW k \in Keys, ArriveCached(c, k) \/ ArriveSecond(c, k)
        PROVE  OwnersAreRegistered' /\ NoOrphanedKey'
    BY <1>1, <2>2 DEF ArriveCached, ArriveSecond, Replay, OwnersAreRegistered, NoOrphanedKey
  <2>3. ASSUME NEW k \in Keys, ArriveFirst(c, k)
        PROVE  OwnersAreRegistered' /\ NoOrphanedKey'
    BY <1>1, <2>3 DEF ArriveFirst, OwnersAreRegistered, NoOrphanedKey
  <2> QED BY <1>3, <2>1, <2>2, <2>3 DEF Arrive
<1>4. ASSUME NEW c \in Calls,
             \/ WaitTimesOut(c) \/ WakeToResult(c) \/ WakeToNothing(c)
             \/ Enter(c) \/ Refuse(c) \/ Fail(c) \/ Leave(c)
      PROVE  OwnersAreRegistered' /\ NoOrphanedKey'
  BY <1>1, <1>4 DEF WaitTimesOut, WakeToResult, WakeToNothing, Enter, Refuse, Fail, Leave,
     Replay, OwnersAreRegistered, NoOrphanedKey
<1>5. ASSUME NEW c \in Calls, Succeed(c)
      PROVE  OwnersAreRegistered' /\ NoOrphanedKey'
  BY <1>1, <1>5 DEF Succeed, Put, OwnersAreRegistered, NoOrphanedKey
<1>6. ASSUME NEW c \in Calls, Raise(c)
      PROVE  OwnersAreRegistered' /\ NoOrphanedKey'
  BY <1>1, <1>6 DEF Raise, OwnersAreRegistered, NoOrphanedKey
<1>7. ASSUME NEW c \in Calls, Release(c)
      PROVE  OwnersAreRegistered' /\ NoOrphanedKey'
  BY <1>1, <1>7 DEF Release, OwnersAreRegistered, NoOrphanedKey
<1>8. CASE (\E k \in Keys : Expire(k)) \/ Signal \/ Stop \/ ShutDown \/ DrainTimesOut \/ UNCHANGED vars
  <2>1. /\ pc' = pc /\ key' = key /\ inflight' = inflight
        /\ owned' = owned /\ ok' = ok /\ raised' = raised
    BY <1>8 DEF Expire, Signal, Stop, ShutDown, ReadCount, DrainDone, CloseAll,
       DrainTimesOut, vars
  <2> QED BY <1>2, <2>1
<1> QED
  BY <1>3, <1>4, <1>5, <1>6, <1>7, <1>8 DEF Next, Proceed

\* Nobody registers a key under which a fresh result is stored, and two owners are not at
\* work under one key.
LEMMA NextKeepsOwnersExecuteFirst ==
  ASSUME IInv, [Next]_vars
  PROVE  OwnersExecuteFirst' /\ OwnersDoNotRepeat'
<1> USE DEF Goto, AtWork, storeVars
<1>1. /\ pc \in [Calls -> Steps] /\ key \in [Calls -> Keys \cup {None}]
      /\ None \notin Keys /\ owned \subseteq Calls /\ fresh \subseteq Calls
      /\ OwnersAreRegistered /\ OwnersExecuteFirst /\ OwnersDoNotRepeat
      /\ \A c \in fresh : pc[c] # "new"
  BY Typed DEF IInv, OwnersAreRegistered
<1>2. CASE /\ fresh' \subseteq fresh /\ owned' = owned
           /\ \A d \in owned \cup fresh : key'[d] = key[d]
           /\ \A d \in owned : pc'[d] \in {"entering", "executing"} => pc[d] \in {"entering", "executing"}
  BY <1>1, <1>2 DEF OwnersExecuteFirst, OwnersDoNotRepeat
<1>3. ASSUME NEW c \in Calls, Arrive(c)
      PROVE  OwnersExecuteFirst' /\ OwnersDoNotRepeat'
  <2>1. c \notin owned /\ c \notin fresh
    BY <1>1, <1>3 DEF OwnersAreRegistered, Arrive, ArriveWithoutKey, ArriveCached,
       ArriveFirst, ArriveSecond
  <2>2. CASE \/ ArriveWithoutKey(c)
             \/ \E k \in Keys : ArriveCached(c, k) \/ ArriveSecond(c, k)
    <3>1. /\ fresh' = fresh /\ owned' = owned
          /\ \A d \in owned \cup fresh : key'[d] = key[d] /\ pc'[d] = pc[d]
      BY <1>1, <2>1, <2>2 DEF ArriveWithoutKey, ArriveCached, ArriveSecond, Replay
    <3> QED BY <1>2, <3>1
  <2>3. ASSUME NEW k \in Keys, ArriveFirst(c, k)
        PROVE  OwnersExecuteFirst' /\ OwnersDoNotRepeat'
    <3>1. /\ fresh' = fresh /\ owned' = owned \cup {c} /\ key'[c] = k
          /\ \A d \in owned \cup fresh : key'[d] = key[d] /\ pc'[d] = pc[d]
      BY <1>1, <2>1, <2>3 DEF ArriveFirst
    <3>2. \A d \in fresh : key[d] # k
      BY <2>3, EntriesAreKeys DEF ArriveFirst, IInv, FreshAreStored
    <3> QED BY <1>1, <2>1, <3>1, <3>2 DEF OwnersExecuteFirst, OwnersDoNotRepeat
  <2> QED BY <1>3, <2>2, <2>3 DEF Arrive
<1>4. ASSUME NEW c \in Calls, WaitTimesOut(c) \/ WakeToResult(c) \/ WakeToNothing(c)
      PROVE  OwnersExecuteFirst' /\ OwnersDoNotRepeat'
  <2>1. c \notin owned
    BY <1>1, <1>4 DEF WaitTimesOut, WakeToResult, WakeToNothing, OwnersAreRegistered
  <2> QED BY <1>1, <1>2, <1>4, <2>1 DEF WaitTimesOut, WakeToResult, WakeToNothing, Replay
<1>5. ASSUME NEW c \in Calls,
             Enter(c) \/ Refuse(c) \/ Fail(c) \/ Raise(c) \/ Release(c) \/ Leave(c)
      PROVE  OwnersExecuteFirst' /\ OwnersDoNotRepeat'
  BY <1>1, <1>2, <1>5 DEF Enter, Refuse, Fail, Raise, Release, Leave
<1>6. ASSUME NEW c \in Calls, Succeed(c)
      PROVE  OwnersExecuteFirst' /\ OwnersDoNotRepeat'
  <2>1. /\ key' = key /\ owned' = owned /\ pc[c] = "executing"
        /\ \A d \in Calls \ {c} : pc'[d] = pc[d]
        /\ pc'[c] \notin {"entering", "executing"}
    BY <1>1, <1>6 DEF Succeed
  <2>2. fresh' \subseteq fresh \cup {c}
    BY <1>6 DEF Succeed, Put, FreshWithout
  <2>3. CASE c \in owned /\ c \in fresh'
    <3>1. \A d \in owned \ {c} : pc[d] \in {"entering", "executing"} => key[d] # key[c]
      BY <1>1, <2>1, <2>3 DEF OwnersAreRegistered
    <3>2. \A d \in fresh \cap owned : key[d] # key[c]
      BY <1>1, <2>1, <2>3 DEF OwnersExecuteFirst
    <3> QED BY <1>1, <2>1, <2>2, <2>3, <3>1, <3>2 DEF OwnersExecuteFirst, OwnersDoNotRepeat
  <2>4. CASE c \notin owned \/ c \notin fresh'
    BY <1>1, <2>1, <2>2, <2>4 DEF OwnersExecuteFirst, OwnersDoNotRepeat
  <2> QED BY <2>3, <2>4
<1>7. ASSUME NEW k \in Keys, Expire(k)
      PROVE  OwnersExecuteFirst' /\ OwnersDoNotRepeat'
  BY <1>2, <1>7, ExpireForgets DEF Expire
<1>8. CASE Signal \/ Stop \/ ShutDown \/ DrainTimesOut \/ UNCHANGED vars
  BY <1>2, <1>8 DEF Signal, Stop, ShutDown, ReadCount, DrainDone, CloseAll, DrainTimesOut, vars
<1> QED
  BY <1>3, <1>4, <1>5, <1>6, <1>7, <1>8 DEF Next, Proceed

-----------------------------------------------------------------------------
(* The shutdown *)

LEMMA NextKeepsDrainInOrder ==
  ASSUME IInv, [Next]_vars
  PROVE  DrainInOrder'
<1> USE DEF DrainInOrder, Empty, serverVars
<1>1. DrainInOrder /\ count \in Nat /\ server \in Servers
  BY CountedIsFinite DEF IInv, TypeOK
<1>2. CASE UNCHANGED serverVars
  BY <1>1, <1>2
<1>3. ASSUME NEW c \in Calls, Arrive(c) \/ WaitTimesOut(c) \/ (Proceed(c) /\ ~Enter(c) /\ ~Leave(c))
      PROVE  UNCHANGED serverVars
  BY <1>3 DEF Arrive, ArriveWithoutKey, ArriveCached, ArriveFirst, ArriveSecond,
     WaitTimesOut, Proceed, WakeToResult, WakeToNothing, Refuse, Succeed, Fail, Raise, Release,
     Replay
<1>4. ASSUME NEW c \in Calls, Enter(c)
      PROVE  DrainInOrder'
  BY <1>1, <1>4 DEF Enter
<1>5. ASSUME NEW c \in Calls, Leave(c)
      PROVE  DrainInOrder'
  <2>1. /\ shutting' = shutting /\ late' = late /\ server' = server
        /\ drained' = (drained \/ (shutting /\ count' = 0))
    BY <1>5 DEF Leave
  <2>2. count = 0 => count' = 0
    BY <1>5 DEF Leave
  <2> QED BY <1>1, <2>1, <2>2, Zenon
<1>6. CASE (\E k \in Keys : Expire(k)) \/ UNCHANGED vars
  BY <1>2, <1>6 DEF Expire, vars
<1>7. CASE Signal \/ Stop
  BY <1>1, <1>7 DEF Signal, Stop
<1>8. CASE ReadCount
  BY <1>1, <1>8 DEF ReadCount
<1>9. CASE DrainDone \/ DrainTimesOut \/ CloseAll
  BY <1>1, <1>9 DEF DrainDone, DrainTimesOut, CloseAll
<1> QED
  BY <1>2, <1>3, <1>4, <1>5, <1>6, <1>7, <1>8, <1>9 DEF Next, ShutDown

-----------------------------------------------------------------------------
(* Theorems *)

LEMMA InitEstablishesIInv == Init => IInv
<1> SUFFICES ASSUME Init PROVE IInv
  OBVIOUS
<1>1. Cardinality({}) = 0 /\ {c \in Calls : pc[c] \in Counted} = {}
  BY FS_EmptySet DEF Init, Counted
<1>2. TypeOK
  <2>1. store \in Seq(Entry)
    BY EmptySeq DEF Init
  <2>2. CallTypes /\ SetTypes /\ fresh \subseteq ok
    BY DEF Init, CallTypes, SetTypes, Steps
  <2>3. ServerTypes
    BY DEF Init, ServerTypes, Servers
  <2>4. count = Cardinality({c \in Calls : pc[c] \in Counted})
    BY <1>1 DEF Init
  <2> QED BY <2>1, <2>2, <2>3, <2>4 DEF TypeOK, Entry, CallTypes, SetTypes, ServerTypes
<1>3. StoreIsDict
  BY CallsAssumption DEF Init, StoreIsDict, OneEntryPerKey
<1> QED
  BY <1>2, <1>3, CallsAssumption DEF Init, IInv, OwnersAreRegistered, NoOrphanedKey,
     FreshAreStored, OwnersExecuteFirst, OwnersDoNotRepeat, DrainInOrder, Empty, AtWork

LEMMA NextKeepsIInv == IInv /\ [Next]_vars => IInv'
BY NextKeepsTypes, NextKeepsStore, NextKeepsOwnersAreRegistered, NextKeepsOwnersExecuteFirst,
   NextKeepsDrainInOrder DEF IInv

LEMMA Invariance == Spec => []IInv
BY InitEstablishesIInv, NextKeepsIInv, PTL DEF Spec

\* Every variable stays in its range, and the in-flight counter of server.py is the number
\* of calls between increment_in_flight and decrement_in_flight: it is counted out once for
\* each call, however the call ends.
THEOREM TypeCorrect == Spec => []TypeOK
<1>1. IInv => TypeOK
  BY DEF IInv
<1> QED BY <1>1, Invariance, PTL

\* The idempotency store never holds more than max_entries results, nor two for a key, though
\* set drops the oldest entry of a full store before it looks whether the key has one.
THEOREM StoreStaysBounded == Spec => []StoreIsDict
<1>1. IInv => StoreIsDict
  BY DEF IInv
<1> QED BY <1>1, Invariance, PTL

\* Of the calls that acquire returned True to for one key, no two succeed on the device while
\* the first result is kept: complete stores the result before it gives the key up.
THEOREM OwnersSucceedOnce == Spec => []OwnersDoNotRepeat
<1>1. IInv => OwnersDoNotRepeat
  BY DEF IInv
<1> QED BY <1>1, Invariance, PTL

\* An in-flight key belongs to a call that owns it and is at work, unless that call ended in
\* an exception: complete and cancel are reached from everywhere else.
THEOREM KeysAreGivenUp == Spec => []NoOrphanedKey
<1>1. IInv => NoOrphanedKey
  BY DEF IInv
<1> QED BY <1>1, Invariance, PTL

\* The lifespan closes the connections under no call that was let in, unless the wait for
\* _shutdown_event ran out of time.
THEOREM DrainWaitsForEveryone == Spec => []DrainIsClean
<1>1. ASSUME IInv PROVE DrainIsClean
  BY CountedIsFinite, <1>1 DEF IInv, DrainInOrder, Empty, DrainIsClean, CountedCalls
<1> QED BY <1>1, Invariance, PTL
=============================================================================
