--------------------------- MODULE IdempotentCalls ---------------------------
(***************************************************************************)
(* run_config_command (helpers.py) from the outside: the idempotency store *)
(* (idempotency.py) that makes a retried write return the first result,   *)
(* and the in-flight counter (server.py) that lets a shutdown wait for the *)
(* calls it has let in.                                                    *)
(*                                                                         *)
(* A call arrives once.  Its execution on the device is one step with the  *)
(* outcomes the code tells apart: a success, any other status, or an       *)
(* exception.  The event a waiter blocks on is named by the call that made *)
(* it.  The critical sections of the store's lock and of the in-flight     *)
(* lock are one step each.  Store entries are kept in order of creation;   *)
(* an entry whose time to live is over is one that is no longer there.     *)
(***************************************************************************)
EXTENDS Naturals, FiniteSets, SequencesExt

CONSTANTS
  Calls,
  Keys,      \* idempotency keys clients use
  Capacity,  \* max_entries of the store
  None        \* no key

ASSUME CallsAssumption ==
  /\ IsFiniteSet(Calls) /\ Capacity \in Nat \ {0}
  /\ None \notin Calls /\ None \notin Keys

VARIABLES
  store,    \* _store, oldest entry first
  inflight, \* _in_flight: key -> the call that registered it
  woken,    \* calls whose event is set
  pc, key,  \* each call's progress and its key
  owned,    \* calls for which acquire returned True
  waitsFor, \* the event a call blocks on
  count,    \* _in_flight_count
  shutting, \* _shutting_down
  drained,  \* _shutdown_event
  server,   \* the lifespan of the server
  ok,        \* history: calls that succeeded on the device
  fresh,     \* history: those whose key has kept an entry ever since
  raised,    \* history: calls that ended in an exception
  late       \* history: did the drain run out of time?

storeVars == <<store, inflight, woken, owned, waitsFor, ok, fresh, raised>>
serverVars == <<count, shutting, drained, server, late>>
vars == <<storeVars, pc, key, serverVars>>

Counted == {"executing", "releasing", "leaving"}
Steps == {"new", "waiting", "entering", "refused", "done"} \cup Counted
Servers == {"up", "stopping", "draining", "closing", "closed"}

TypeOK ==
  /\ store \in Seq([key : Keys, by : Calls])
  /\ inflight \in [Keys -> Calls \cup {None}]
  /\ pc \in [Calls -> Steps]
  /\ key \in [Calls -> Keys \cup {None}]
  /\ waitsFor \in [Calls -> Calls \cup {None}]
  /\ count = Cardinality({c \in Calls : pc[c] \in Counted})
  /\ {shutting, drained, late} \subseteq BOOLEAN
  /\ server \in Servers
  /\ woken \cup owned \cup raised \cup ok \subseteq Calls
  /\ fresh \subseteq ok

Init ==
  /\ store = <<>> /\ inflight = [k \in Keys |-> None]
  /\ pc = [c \in Calls |-> "new"] /\ key = [c \in Calls |-> None]
  /\ waitsFor = [c \in Calls |-> None]
  /\ woken = {} /\ owned = {} /\ ok = {} /\ fresh = {} /\ raised = {}
  /\ count = 0 /\ shutting = FALSE /\ drained = FALSE /\ late = FALSE
  /\ server = "up"

Goto(c, from, to) == pc[c] = from /\ pc' = [pc EXCEPT ![c] = to]

-----------------------------------------------------------------------------
(* The store *)

Entries(k) == {e \in Range(store) : e.key = k}
At(s, k) == {i \in DOMAIN s : s[i].key = k}
Drop(s, k) == IF At(s, k) = {} THEN s ELSE RemoveAt(s, CHOOSE i \in At(s, k) : TRUE)
FreshWithout(ks) == {c \in fresh : key[c] \notin ks}

\* set: when the store is full its oldest entry goes, whether or not the key
\* already has one.
Put(c) ==
  LET k == key[c]
      evicted == IF Len(store) >= Capacity THEN {Head(store).key} ELSE {}
      kept == IF Len(store) >= Capacity THEN Tail(store) ELSE store
  IN
  /\ store' = Append(Drop(kept, k), [key |-> k, by |-> c])
  /\ ok' = ok \cup {c}
  /\ fresh' = FreshWithout(evicted \ {k}) \cup {c}

\* An entry outlives its time to live.
Expire(k) ==
  /\ Entries(k) # {}
  /\ store' = Drop(store, k)
  /\ fresh' = FreshWithout({k})
  /\ UNCHANGED <<inflight, woken, owned, waitsFor, ok, raised, pc, key, serverVars>>

-----------------------------------------------------------------------------
(* acquire *)

ArriveWithoutKey(c) ==
  /\ Goto(c, "new", "entering")
  /\ UNCHANGED <<storeVars, key, serverVars>>

\* A stored result is returned without executing.
Replay(k) ==
  /\ Entries(k) # {}
  /\ UNCHANGED <<storeVars, serverVars>>

ArriveCached(c, k) ==
  /\ Goto(c, "new", "done")
  /\ key' = [key EXCEPT ![c] = k]
  /\ Replay(k)

ArriveFirst(c, k) ==
  /\ Goto(c, "new", "entering")
  /\ Entries(k) = {} /\ inflight[k] = None
  /\ key' = [key EXCEPT ![c] = k]
  /\ inflight' = [inflight EXCEPT ![k] = c]
  /\ owned' = owned \cup {c}
  /\ UNCHANGED <<store, woken, waitsFor, ok, fresh, raised, serverVars>>

ArriveSecond(c, k) ==
  /\ Goto(c, "new", "waiting")
  /\ Entries(k) = {} /\ inflight[k] # None
  /\ key' = [key EXCEPT ![c] = k]
  /\ waitsFor' = [waitsFor EXCEPT ![c] = inflight[k]]
  /\ UNCHANGED <<store, inflight, woken, owned, ok, fresh, raised, serverVars>>

\* The event was set: look the result up once more.
WakeToResult(c) ==
  /\ waitsFor[c] \in woken
  /\ Goto(c, "waiting", "done")
  /\ Replay(key[c])
  /\ UNCHANGED key

\* It was set, and there is no result: acquire returns None, as after a time-out.
WakeToNothing(c) ==
  /\ waitsFor[c] \in woken
  /\ Goto(c, "waiting", "entering")
  /\ Entries(key[c]) = {}
  /\ UNCHANGED <<storeVars, key, serverVars>>

WaitTimesOut(c) ==
  /\ Goto(c, "waiting", "entering")
  /\ waitsFor[c] \notin woken
  /\ UNCHANGED <<storeVars, key, serverVars>>

-----------------------------------------------------------------------------
(* Entering, executing, leaving *)

\* increment_in_flight
Enter(c) ==
  /\ Goto(c, "entering", "executing")
  /\ ~shutting
  /\ count' = count + 1
  /\ UNCHANGED <<storeVars, key, shutting, drained, server, late>>

\* Seeded fault: a call refused during shutdown keeps its key registered.
Refuse_KeepsKey(c) ==
  /\ Goto(c, "entering", "done")
  /\ shutting
  /\ UNCHANGED <<storeVars, key, serverVars>>

Refuse(c) ==
  /\ Goto(c, "entering", IF c \in owned THEN "refused" ELSE "done")
  /\ shutting
  /\ UNCHANGED <<storeVars, key, serverVars>>

\* Seeded fault: the event is set and the key released before the result is stored.
Succeed_ReleasesFirst(c) ==
  /\ \/ /\ Goto(c, "executing", "releasing")
        /\ c \in owned
        /\ inflight' = [inflight EXCEPT ![key[c]] = None]
        /\ woken' = woken \cup {c}
        /\ UNCHANGED <<store, ok, fresh>>
     \/ /\ Goto(c, "releasing", "leaving")
        /\ Put(c) /\ UNCHANGED <<inflight, woken>>
  /\ UNCHANGED <<owned, waitsFor, raised, key, serverVars>>

\* Success: store the result under the key.  complete() and, for a call that
\* does not own its key, a bare set() store it alike.
Succeed(c) ==
  /\ Goto(c, "executing", IF c \in owned THEN "releasing" ELSE "leaving")
  /\ IF key[c] = None THEN ok' = ok \cup {c} /\ UNCHANGED <<store, fresh>> ELSE Put(c)
  /\ UNCHANGED <<inflight, woken, owned, waitsFor, raised, key, serverVars>>

\* Any other status, such as error or pending_approval.
Fail(c) ==
  /\ Goto(c, "executing", IF c \in owned THEN "releasing" ELSE "leaving")
  /\ UNCHANGED <<storeVars, key, serverVars>>

\* Seeded fault: the handler of the exception counts the call out as well.
Raise_CountsOut(c) ==
  /\ Goto(c, "executing", "leaving")
  /\ raised' = raised \cup {c}
  /\ count' = count - 1
  /\ UNCHANGED <<store, inflight, woken, owned, waitsFor, ok, fresh,
                 key, shutting, drained, server, late>>

\* ToolError and unexpected exceptions pass through: the key stays registered.
Raise(c) ==
  /\ Goto(c, "executing", "leaving")
  /\ raised' = raised \cup {c}
  /\ UNCHANGED <<store, inflight, woken, owned, waitsFor, ok, fresh,
                 key, serverVars>>

\* The second half of complete, or cancel: forget the key and set the event.
Release(c) ==
  /\ Goto(c, "releasing", "leaving") \/ Goto(c, "refused", "done")
  /\ inflight' = [inflight EXCEPT ![key[c]] = None]
  /\ woken' = woken \cup {c}
  /\ UNCHANGED <<store, owned, waitsFor, ok, fresh, raised, key, serverVars>>

\* Seeded fault: the shutdown event is set only when the counter was already zero.
Leave_SignalsLate(c) ==
  /\ Goto(c, "leaving", "done")
  /\ count' = count - 1
  /\ drained' = (drained \/ (shutting /\ count = 0))
  /\ UNCHANGED <<storeVars, key, shutting, server, late>>

\* decrement_in_flight
Leave(c) ==
  /\ Goto(c, "leaving", "done")
  /\ count' = IF count > 0 THEN count - 1 ELSE 0
  /\ drained' = (drained \/ (shutting /\ count' = 0))
  /\ UNCHANGED <<storeVars, key, shutting, server, late>>

-----------------------------------------------------------------------------
(* Shutdown *)

\* _initiate_shutdown, the signal handler; the server goes on running.
Signal ==
  /\ server = "up" /\ ~shutting
  /\ shutting' = TRUE
  /\ UNCHANGED <<storeVars, pc, key, count, drained, server, late>>

\* The lifespan ends: refuse new work from here on.
Stop ==
  /\ server = "up"
  /\ server' = "stopping"
  /\ shutting' = TRUE
  /\ UNCHANGED <<storeVars, pc, key, count, drained, late>>

\* Seeded fault: the counter is not looked at.
ReadCount_Skips ==
  /\ server = "stopping"
  /\ server' = "closing"
  /\ UNCHANGED <<storeVars, pc, key, count, shutting, drained, late>>

ReadCount ==
  /\ server = "stopping"
  /\ server' = IF count > 0 THEN "draining" ELSE "closing"
  /\ UNCHANGED <<storeVars, pc, key, count, shutting, drained, late>>

DrainDone ==
  /\ server = "draining" /\ drained
  /\ server' = "closing"
  /\ UNCHANGED <<storeVars, pc, key, count, shutting, drained, late>>

DrainTimesOut ==
  /\ server = "draining" /\ ~drained
  /\ server' = "closing"
  /\ late' = TRUE
  /\ UNCHANGED <<storeVars, pc, key, count, shutting, drained>>

CloseAll ==
  /\ server = "closing"
  /\ server' = "closed"
  /\ UNCHANGED <<storeVars, pc, key, count, shutting, drained, late>>

Arrive(c) ==
  \/ ArriveWithoutKey(c)
  \/ \E k \in Keys : ArriveCached(c, k) \/ ArriveFirst(c, k) \/ ArriveSecond(c, k)

Proceed(c) ==
  \/ WakeToResult(c) \/ WakeToNothing(c)
  \/ Enter(c) \/ Refuse(c)
  \/ Succeed(c) \/ Fail(c) \/ Raise(c)
  \/ Release(c) \/ Leave(c)

ShutDown == ReadCount \/ DrainDone \/ CloseAll

Next ==
  \/ \E c \in Calls : Arrive(c) \/ WaitTimesOut(c) \/ Proceed(c)
  \/ \E k \in Keys : Expire(k)
  \/ Signal \/ Stop \/ ShutDown \/ DrainTimesOut

Spec == Init /\ [][Next]_vars

\* Threads are scheduled and the device calls of an execution return or time out.
\* Neither the wait for a key nor the drain is assumed to run out of time.
FairSpec == Spec /\ WF_vars(ShutDown) /\ \A c \in Calls : WF_vars(Proceed(c))

-----------------------------------------------------------------------------
(* Properties *)

\* Two calls that both own their key never both succeed while the first result is
\* stored, whatever stragglers time out and store results of their own in between.
OwnersDoNotRepeat ==
  \A c, d \in fresh \cap owned : key[c] = key[d] => c = d

\* A key is registered only for a call that is still at work on it, so a later
\* call waits for something that will happen.  Only an exception breaks this.
NoOrphanedKey ==
  \A k \in Keys :
    LET c == inflight[k] IN
    (c # None /\ c \notin raised) => /\ c \in owned /\ key[c] = k
                                     /\ pc[c] \notin {"new", "waiting", "leaving", "done"}

\* The connections are closed under no call that was let in, unless the drain
\* ran out of time.
DrainIsClean ==
  (server = "closed" /\ ~late) => \A c \in Calls : pc[c] \notin Counted

\* Once the server stops, it closes without help from the drain time-out: the
\* last call out sets the event, in whatever order the counter is read and left.
DrainNeedsNoTimeout == (server = "stopping") ~> (server = "closed")
=============================================================================
