--------------------------- MODULE ConnectionPool ---------------------------
(***************************************************************************)
(* ConnectionManager of connection.py: a bounded pool of device drivers,   *)
(* shared by the threads that run tool calls.                              *)
(*                                                                         *)
(* acquire(host) is the guarded way in: it takes the per-host lock, checks *)
(* a driver out of the pool (connecting, and evicting an idle driver when  *)
(* the pool is full), verifies it with no pool lock held, lets the caller  *)
(* use it, and undoes all that on the way out.  get_driver(host) is the    *)
(* bare way in, with neither host lock nor reference count; remove_node    *)
(* and close_all drop drivers and, in a second critical section, the host  *)
(* locks themselves.                                                       *)
(*                                                                         *)
(* A critical section of _nodes_lock or _host_locks_guard is one step.     *)
(* Drivers and locks are objects with an identity; an identity that no     *)
(* thread and no table refers to any more is used again for the next       *)
(* object made.  A missing reference count is 0: the code never stores 0.  *)
(***************************************************************************)
EXTENDS Naturals, FiniteSets, SequencesExt

CONSTANTS
  Hosts, Threads,
  BareHosts,       \* hosts that some tools reach through get_driver
  Drivers,         \* driver identities: enough for those pooled and those in hand
  Locks,           \* lock identities: likewise
  MaxConnections,  \* _max_connections
  None

ASSUME PoolAssumption ==
  /\ MaxConnections \in Nat \ {0} /\ BareHosts \subseteq Hosts
  /\ None \notin Hosts /\ None \notin Drivers /\ None \notin Locks
  /\ None \notin Threads /\ IsFiniteSet(Threads)

VARIABLES
  drv,       \* _drivers: host -> driver, None when absent
  order,     \* the insertion order of _drivers
  refcount,  \* _refcounts
  verified,  \* _verified
  lockOf,    \* _host_locks: host -> lock, None when absent
  holder,    \* the thread that holds a lock, or None
  pc, host, lock, driver,  \* what each thread is doing, and with what
  closed,    \* history: drivers closed while a thread still holds them
  dropped    \* history: hosts whose driver or lock went while threads still use them

vars == <<drv, order, refcount, verified, lockOf, holder,
          pc, host, lock, driver, closed, dropped>>

\* Steps of acquire while the host lock is held, of acquire while the reference
\* count includes the thread, and of get_driver.
LockSteps == {"locked", "verifying", "probing", "using", "leaving"}
CountedSteps == {"verifying", "probing", "using"}
BareSteps == {"bare_verifying", "bare_probing", "borrowed"}
Steps == {"idle", "waiting", "unlisting", "clearing"} \cup LockSteps \cup BareSteps

TypeOK ==
  /\ drv \in [Hosts -> Drivers \cup {None}]
  /\ order \in Seq(Hosts) /\ Len(order) <= MaxConnections
  /\ \A h \in Hosts : drv[h] # None <=> \E i \in DOMAIN order : order[i] = h
  /\ refcount \in [Hosts -> Nat]
  /\ verified \subseteq Hosts
  /\ lockOf \in [Hosts -> Locks \cup {None}]
  /\ holder \in [Locks -> Threads \cup {None}]
  /\ pc \in [Threads -> Steps]
  /\ host \in [Threads -> Hosts \cup {None}]
  /\ lock \in [Threads -> Locks \cup {None}]
  /\ driver \in [Threads -> Drivers \cup {None}]
  /\ closed \subseteq Drivers
  /\ dropped \subseteq Hosts

-----------------------------------------------------------------------------
(* The pool *)

Pooled == {h \in Hosts : drv[h] # None}

Full == Cardinality(Pooled) >= MaxConnections

\* Seeded fault: eviction goes by age alone.
Evictable_IgnoresCount(v) == order # <<>> /\ v = order[1]

\* The oldest entry nobody has checked out: what _evict_one removes.
Evictable(v) ==
  \E i \in DOMAIN order :
    /\ order[i] = v
    /\ refcount[v] = 0
    /\ \A j \in 1..(i - 1) : refcount[order[j]] > 0

At(s, h) == {i \in DOMAIN s : s[i] = h}
Without(s, h) == IF At(s, h) = {} THEN s ELSE RemoveAt(s, CHOOSE i \in At(s, h) : TRUE)

InHand(d) == \E t \in Threads : driver[t] = d
FreshDriver == CHOOSE d \in Drivers : d \notin {drv[h] : h \in Hosts} /\ ~InHand(d)
DriverLeft == \E d \in Drivers : d \notin {drv[h] : h \in Hosts} /\ ~InHand(d)

LockUsed(l) == (\E h \in Hosts : lockOf[h] = l) \/ (\E t \in Threads : lock[t] = l)
FreshLock == CHOOSE l \in Locks : ~LockUsed(l)

\* History upkeep: forget drivers nothing refers to after the step.
StillHeld(S) == {d \in S : \E t \in Threads : driver'[t] = d}
StillKnown(S) == {d \in S : \/ \E h \in Hosts : drv'[h] = d
                            \/ \E t \in Threads : driver'[t] = d}

\* A host stays in `dropped` for as long as a thread that saw the drop is around.
StillDropped(S) == {h \in S : \E t \in Threads : host'[t] = h \/ pc'[t] = "clearing"}

\* What may have to go before a new driver is added: nothing when there is room,
\* otherwise the oldest idle entry.
Room(v) == IF Full THEN Evictable(v) ELSE v = None
NoRoom == Full /\ \A v \in Hosts : ~Evictable(v)

\* Pop v (if any) from the pool and close its driver.
Evict(v) ==
  /\ drv' = [h \in Hosts |-> IF h = v THEN None ELSE drv[h]]
  /\ order' = Without(order, v)
  /\ verified' = verified \ {v}

\* Evict v (if any), then connect a driver for h.
Connect(h, v) ==
  /\ DriverLeft
  /\ drv' = [k \in Hosts |-> IF k = h THEN FreshDriver
                             ELSE IF k = v THEN None ELSE drv[k]]
  /\ order' = Append(Without(order, v), h)
  /\ verified' = verified \ {v}

-----------------------------------------------------------------------------
(* acquire *)

Init ==
  /\ drv = [h \in Hosts |-> None] /\ order = <<>>
  /\ refcount = [h \in Hosts |-> 0] /\ verified = {}
  /\ lockOf = [h \in Hosts |-> None] /\ holder = [l \in Locks |-> None]
  /\ pc = [t \in Threads |-> "idle"] /\ host = [t \in Threads |-> None]
  /\ lock = [t \in Threads |-> None] /\ driver = [t \in Threads |-> None]
  /\ closed = {} /\ dropped = {}

Step(t, from, to) == pc[t] = from /\ pc' = [pc EXCEPT ![t] = to]

\* _get_host_lock: look the lock up, or make it.
WantLock(t, h) ==
  /\ Step(t, "idle", "waiting")
  /\ host' = [host EXCEPT ![t] = h]
  /\ \/ /\ lockOf[h] # None
        /\ lock' = [lock EXCEPT ![t] = lockOf[h]]
        /\ UNCHANGED lockOf
     \/ /\ lockOf[h] = None
        /\ \E l \in Locks : ~LockUsed(l)
        /\ lock' = [lock EXCEPT ![t] = FreshLock]
        /\ lockOf' = [lockOf EXCEPT ![h] = FreshLock]
  /\ UNCHANGED <<drv, order, refcount, verified, holder, driver,
                 closed, dropped>>

TakeLock(t) ==
  /\ Step(t, "waiting", "locked")
  /\ holder[lock[t]] = None
  /\ holder' = [holder EXCEPT ![lock[t]] = t]
  /\ UNCHANGED <<drv, order, refcount, verified, lockOf, host, lock, driver,
                 closed, dropped>>

\* The driver is pooled: count the thread in and decide whether to verify.
CheckoutPooled(t, verify) ==
  LET h == host[t]
      check == verify /\ h \notin verified
  IN
  /\ Step(t, "locked", IF check THEN "verifying" ELSE "using")
  /\ drv[h] # None
  /\ driver' = [driver EXCEPT ![t] = drv[h]]
  /\ refcount' = [refcount EXCEPT ![h] = @ + 1]
  /\ UNCHANGED <<drv, order, verified, lockOf, holder, host, lock,
                 closed, dropped>>

\* Not pooled: make room if needed, connect, count the thread in.
CheckoutNew(t, verify) ==
  /\ Step(t, "locked", IF verify THEN "verifying" ELSE "using")
  /\ drv[host[t]] = None
  /\ \E v \in Hosts \cup {None} :
       /\ Room(v)
       /\ Connect(host[t], v)
       /\ driver' = [driver EXCEPT ![t] = FreshDriver]
       /\ closed' = StillHeld(IF v = None THEN closed ELSE closed \cup {drv[v]})
  /\ refcount' = [refcount EXCEPT ![host[t]] = @ + 1]
  /\ UNCHANGED <<lockOf, holder, host, lock, dropped>>

\* Seeded fault: the error path does not give the host lock back.
CheckoutFails_KeepsLock(t) ==
  /\ Step(t, "locked", "idle")
  /\ drv[host[t]] = None /\ NoRoom
  /\ host' = [host EXCEPT ![t] = None] /\ lock' = [lock EXCEPT ![t] = None]
  /\ UNCHANGED <<drv, order, refcount, verified, lockOf, holder, driver,
                 closed, dropped>>

\* The pool is full of drivers in use, or connecting fails (after an eviction, if
\* one was needed): acquire raises and gives the host lock back.
CheckoutFails(t) ==
  /\ Step(t, "locked", "leaving")
  /\ drv[host[t]] = None
  /\ UNCHANGED <<refcount, lockOf, holder, host, lock, driver, dropped>>
  /\ \/ /\ NoRoom
        /\ UNCHANGED <<drv, order, verified, closed>>
     \/ \E v \in Hosts \cup {None} :
          /\ Room(v)
          /\ Evict(v)
          /\ closed' = StillHeld(IF v = None THEN closed ELSE closed \cup {drv[v]})

\* The two halves of _verify_driver: the unlocked look at _verified, and the
\* device's answer to "show version".
VerifyStarts(t, from, probing, done) ==
  /\ Step(t, from, IF host[t] \in verified THEN done ELSE probing)
  /\ UNCHANGED <<drv, order, refcount, verified, lockOf, holder,
                 host, lock, driver, closed, dropped>>

VerifyPasses(t, probing, done) ==
  /\ Step(t, probing, done)
  /\ verified' = verified \cup {host[t]}
  /\ UNCHANGED <<drv, order, refcount, lockOf, holder,
                 host, lock, driver, closed, dropped>>

\* Seeded fault: the failed driver goes, its reference count stays.
VerifyFails_KeepsCount(t, probing, after) ==
  /\ Step(t, probing, after)
  /\ Evict(host[t])
  /\ driver' = [driver EXCEPT ![t] = None]
  /\ closed' = StillHeld(closed \cup {driver[t]})
  /\ UNCHANGED <<refcount, lockOf, holder, lock>>

\* _cleanup_failed_verify drops whatever the pool holds for the host, and closes
\* the driver that failed.
VerifyFails(t, probing, after) ==
  /\ Step(t, probing, after)
  /\ Evict(host[t])
  /\ refcount' = [refcount EXCEPT ![host[t]] = 0]
  /\ driver' = [driver EXCEPT ![t] = None]
  /\ UNCHANGED <<lockOf, holder, lock>>
  /\ closed' = StillHeld(closed \cup {driver[t]})

\* Seeded fault: the count is dropped by one whether or not an entry is left.
Return_NoCheck(t) ==
  /\ Step(t, "using", "leaving")
  /\ refcount' = [refcount EXCEPT ![host[t]] = @ - 1]
  /\ driver' = [driver EXCEPT ![t] = None]
  /\ UNCHANGED <<drv, order, verified, lockOf, holder, host, lock, closed, dropped>>

\* The caller is done, normally or by an exception: count the thread out.
Return(t) ==
  LET h == host[t] IN
  /\ Step(t, "using", "leaving")
  /\ refcount' = [refcount EXCEPT ![h] = IF @ = 0 THEN 0 ELSE @ - 1]
  /\ driver' = [driver EXCEPT ![t] = None]
  /\ UNCHANGED <<drv, order, verified, lockOf, holder, host, lock, dropped>>
  /\ closed' = StillHeld(closed)

ReleaseLock(t) ==
  /\ Step(t, "leaving", "idle")
  /\ holder' = [holder EXCEPT ![lock[t]] = None]
  /\ host' = [host EXCEPT ![t] = None]
  /\ lock' = [lock EXCEPT ![t] = None]
  /\ UNCHANGED <<drv, order, refcount, verified, lockOf, driver, closed>>
  /\ dropped' = StillDropped(dropped)

VerifyInAcquire(t) ==
  \/ VerifyStarts(t, "verifying", "probing", "using")
  \/ VerifyPasses(t, "probing", "using")
  \/ VerifyFails(t, "probing", "leaving") /\ UNCHANGED <<host, dropped>>

-----------------------------------------------------------------------------
(* get_driver: no host lock, no reference count *)

GetPooled(t, h, verify) ==
  /\ drv[h] # None
  /\ Step(t, "idle", IF verify /\ h \notin verified THEN "bare_verifying" ELSE "borrowed")
  /\ host' = [host EXCEPT ![t] = h]
  /\ driver' = [driver EXCEPT ![t] = drv[h]]
  /\ UNCHANGED <<drv, order, refcount, verified, lockOf, holder, lock,
                 closed, dropped>>

GetNew(t, h, verify) ==
  /\ drv[h] = None
  /\ Step(t, "idle", IF verify THEN "bare_verifying" ELSE "borrowed")
  /\ host' = [host EXCEPT ![t] = h]
  /\ driver' = [driver EXCEPT ![t] = FreshDriver]
  /\ \E v \in Hosts \cup {None} :
       /\ Room(v)
       /\ Connect(h, v)
       /\ closed' = StillHeld(IF v = None THEN closed ELSE closed \cup {drv[v]})
  /\ UNCHANGED <<refcount, lockOf, holder, lock, dropped>>

\* The failed driver may be one that another thread holds through acquire.
VerifyInGetDriver(t) ==
  \/ VerifyStarts(t, "bare_verifying", "bare_probing", "borrowed")
  \/ VerifyPasses(t, "bare_probing", "borrowed")
  \/ /\ VerifyFails(t, "bare_probing", "idle")
     /\ host' = [host EXCEPT ![t] = None]
     /\ dropped' = StillDropped(dropped \cup {host[t]})

\* The tool is done with the driver it was lent.
EndBorrow(t) ==
  /\ Step(t, "borrowed", "idle")
  /\ host' = [host EXCEPT ![t] = None]
  /\ driver' = [driver EXCEPT ![t] = None]
  /\ UNCHANGED <<drv, order, refcount, verified, lockOf, holder, lock>>
  /\ closed' = StillHeld(closed)
  /\ dropped' = StillDropped(dropped)

-----------------------------------------------------------------------------
(* remove_node and close_all: the pool first, then the lock table *)

RemoveDriver(t, h) ==
  /\ Step(t, "idle", "unlisting")
  /\ Evict(h)
  /\ refcount' = [refcount EXCEPT ![h] = 0]
  /\ host' = [host EXCEPT ![t] = h]
  /\ closed' = closed \cup {d \in {drv[h]} : InHand(d) /\ d # None}
  /\ UNCHANGED <<lockOf, holder, lock, driver>>
  /\ dropped' = dropped \cup {h}

RemoveLock(t) ==
  /\ Step(t, "unlisting", "idle")
  /\ lockOf' = [lockOf EXCEPT ![host[t]] = None]
  /\ host' = [host EXCEPT ![t] = None]
  /\ UNCHANGED <<drv, order, refcount, verified, holder, lock, driver, closed>>
  /\ dropped' = StillDropped(dropped)

CloseDrivers(t) ==
  /\ Step(t, "idle", "clearing")
  /\ drv' = [h \in Hosts |-> None] /\ order' = <<>>
  /\ refcount' = [h \in Hosts |-> 0] /\ verified' = {}
  /\ closed' = closed \cup {d \in {drv[h] : h \in Pooled} : InHand(d)}
  /\ UNCHANGED <<lockOf, holder, host, lock, driver>>
  /\ dropped' = Hosts

ClearLocks(t) ==
  /\ Step(t, "clearing", "idle")
  /\ lockOf' = [h \in Hosts |-> None]
  /\ UNCHANGED <<drv, order, refcount, verified, holder, host, lock, driver, closed>>
  /\ dropped' = StillDropped(dropped)

-----------------------------------------------------------------------------
Proceed(t) ==
  \/ TakeLock(t)
  \/ \E verify \in BOOLEAN : CheckoutPooled(t, verify) \/ CheckoutNew(t, verify)
  \/ CheckoutFails(t)
  \/ VerifyInAcquire(t) \/ Return(t) \/ ReleaseLock(t)
  \/ VerifyInGetDriver(t) \/ EndBorrow(t)
  \/ RemoveLock(t) \/ ClearLocks(t)

Next ==
  \E t \in Threads :
    \/ \E h \in Hosts : WantLock(t, h) \/ RemoveDriver(t, h)
    \/ \E h \in BareHosts, verify \in BOOLEAN :
         GetPooled(t, h, verify) \/ GetNew(t, h, verify)
    \/ CloseDrivers(t)
    \/ Proceed(t)

Spec == Init /\ [][Next]_vars

\* A thread that has started an operation is scheduled, devices answer or time
\* out, and tools finish with the driver they hold.
FairSpec == Spec /\ \A t \in Threads : WF_vars(Proceed(t))

-----------------------------------------------------------------------------
(* Properties *)

Using(t) == pc[t] \in CountedSteps

\* The driver a thread holds through acquire stays pooled, open and counted until
\* the thread gives it back, whatever evictions other threads cause, and the count
\* says that nobody else holds one for the host.  A host that somebody drops loses
\* this, its lock object being taken away with the driver, until the threads that
\* saw the drop are gone.
DriverInUseIsKept ==
  \A t \in Threads :
    (Using(t) /\ host[t] \notin dropped) =>
      /\ drv[host[t]] = driver[t]
      /\ driver[t] \notin closed
      /\ refcount[host[t]] = 1

\* No reference count outlives its user: an entry that nobody uses can always be
\* evicted, also after failed verifications and drops.
NoLeakedReference ==
  \A h \in Hosts :
    (refcount[h] > 0) => \E t \in Threads : host[t] = h /\ Using(t)

\* Every host lock is given back, on the error paths too.
LocksAreReturned == \A l \in Locks : []<>(holder[l] = None)
=============================================================================
