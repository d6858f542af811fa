---------------------------- MODULE CommandCache ----------------------------
(***************************************************************************)
(* The command cache (cache.py) between the tools that show and the tools  *)
(* that change a device (helpers.py, change_management.py).                *)
(*                                                                         *)
(* A show looks in the cache without any other lock; on a miss it takes    *)
(* the host lock, asks the device, and stores the answer before it lets    *)
(* the lock go.  A pushed change or a session command takes the same lock  *)
(* and invalidates the host's entries; a rollback and a change that ends   *)
(* in an error do not.  Staging commands in a configuration session does   *)
(* neither: the session's diff changes under whoever reads it.  The host   *)
(* lock is taken for granted here (ConnectionPool models it).              *)
(*                                                                         *)
(* A device's configuration is the number of changes it has taken, and an  *)
(* answer is that number with the size it is estimated to have.  Access    *)
(* times are kept as the order of keys that they give.  Ages stop one past *)
(* the last age that matters.  Commands that are never cached are left     *)
(* out.                                                                    *)
(***************************************************************************)
EXTENDS Integers, FiniteSets

CONSTANTS
  Hosts, Queries,       \* an entry's key is a host and a query
  Shows, Changes,       \* the two kinds of tool calls; each runs once
  Sizes,                \* estimated sizes of answers
  MaxEntries, MaxMemory,
  Ttl, StaleTtl,        \* time to live, and how much longer errors may be answered
  None

Keys == Hosts \X Queries
LastAge == Ttl + StaleTtl + 1
Calls == Shows \cup Changes
Entry == [version : Nat, size : Sizes, age : 0..LastAge]

ASSUME CacheAssumption ==
  /\ Sizes \subseteq Nat \ {0} /\ MaxEntries \in Nat \ {0} /\ MaxMemory \in Nat
  /\ Ttl \in Nat \ {0} /\ StaleTtl \in Nat
  /\ Shows \cap Changes = {} /\ None \notin Hosts \cup Calls \cup Entry

VARIABLES
  running,  \* host -> number of changes its device has taken
  cache,    \* _cache: key -> entry, or None
  older,    \* order of the entries' last_accessed: pairs of keys, the older one first
  memory,   \* _current_memory_bytes
  lock,     \* the host locks: host -> call, or None
  pc, key,  \* each call's progress, and the key it asks for (a change: any of its host)
  answer,   \* what a show has read from the device
  drifted   \* history: hosts changed since their answers were last invalidated

vars == <<running, cache, older, memory, lock, pc, key, answer, drifted>>

Cached == {k \in Keys : cache[k] # None}
Steps == {"new", "fetch", "reading", "putting", "fallback", "changing", "invalidating", "done"}

TypeOK ==
  /\ running \in [Hosts -> Nat]
  /\ cache \in [Keys -> Entry \cup {None}]
  /\ older \subseteq Cached \X Cached
  /\ \A j, k \in Cached : <<j, k>> \in older <=> j # k /\ <<k, j>> \notin older
  /\ memory \in Int
  /\ lock \in [Hosts -> Calls \cup {None}]
  /\ pc \in [Calls -> Steps]
  /\ key \in [Calls -> Keys \cup {None}]
  /\ answer \in [Shows -> [version : Nat, size : Sizes \cup {0}]]
  /\ drifted \subseteq Hosts

Init ==
  /\ running = [h \in Hosts |-> 0]
  /\ cache = [k \in Keys |-> None] /\ older = {} /\ memory = 0
  /\ lock = [h \in Hosts |-> None]
  /\ pc = [c \in Calls |-> "new"] /\ key = [c \in Calls |-> None]
  /\ answer = [s \in Shows |-> [version |-> 0, size |-> 0]]
  /\ drifted = {}

-----------------------------------------------------------------------------
(* The cache *)

\* The order of the keys in ks, and the order with k behind them.
Only(ks) == older \cap (ks \X ks)
Latest(k, ks) == Only(ks \ {k}) \cup ((ks \ {k}) \X {k})

\* What entries take up is the number of their bytes.
Bytes(ks) == UNION {{k} \X (1..cache[k].size) : k \in ks}
TotalSize(ks) == Cardinality(Bytes(ks))

\* History: hosts whose lock a show holds to store an answer that a command staged
\* without the lock has outdated.
Overtaken ==
  {h \in Hosts : \E s \in Shows :
     lock[h] = s /\ pc[s] = "putting" /\ answer[s].version # running[h]}

\* Seeded fault: the entry's earlier place in the order is kept.
Touch_Twice(k) == older' = older \cup ((Cached \ {k}) \X {k}) /\ UNCHANGED cache

\* A read that serves an entry makes it the most recently used one.
Touch(k) == older' = Latest(k, Cached) /\ UNCHANGED cache

\* put: the old entry of the key is uncounted first but leaves the cache only if
\* it is evicted (and uncounted again) or overwritten.  Evictions take the least
\* recently used entries until both limits admit the new one.
Put(k, entry) ==
  LET after(gone) == memory - TotalSize(Cached \cap {k}) - TotalSize(gone)
      oldest(gone) == ((Cached \ gone) \X gone) \cap older = {}
      admits(gone) == /\ Cardinality(Cached \ gone) < MaxEntries
                      /\ after(gone) + entry.size <= MaxMemory \/ gone = Cached
      evictable == {gone \in SUBSET Cached : oldest(gone) /\ admits(gone)}
  IN  \E gone \in evictable :
        /\ \A other \in evictable : gone \subseteq other
        /\ cache' = [j \in Keys |-> IF j = k THEN entry ELSE IF j \in gone THEN None ELSE cache[j]]
        /\ older' = Latest(k, Cached \ gone)
        /\ memory' = after(gone) + entry.size

Drop(ks) ==
  /\ cache' = [k \in Keys |-> IF k \in ks THEN None ELSE cache[k]]
  /\ older' = Only(Cached \ ks)

OfHost(h) == {k \in Cached : k[1] = h}

\* Seeded fault: the entries go, their memory stays accounted.
InvalidateHost_KeepsMemory(h) ==
  /\ Drop(OfHost(h))
  /\ drifted' = drifted \ ({h} \ Overtaken)
  /\ UNCHANGED memory

InvalidateHost(h) ==
  /\ Drop(OfHost(h))
  /\ memory' = memory - TotalSize(OfHost(h))
  /\ drifted' = drifted \ ({h} \ Overtaken)

-----------------------------------------------------------------------------
(* run_show_command *)

Goto(c, from, to) == pc[c] = from /\ pc' = [pc EXCEPT ![c] = to]

LockHost(c, from, to) ==
  /\ Goto(c, from, to)
  /\ lock[key[c][1]] = None
  /\ lock' = [lock EXCEPT ![key[c][1]] = c]
  /\ UNCHANGED <<running, cache, older, memory, key, answer, drifted>>

Unlock(c) == lock' = [lock EXCEPT ![key[c][1]] = IF @ = c THEN None ELSE @]

Hit(s, k) ==
  /\ Goto(s, "new", "done")
  /\ key' = [key EXCEPT ![s] = k]
  /\ k \in Cached /\ cache[k].age <= Ttl /\ Touch(k)
  /\ UNCHANGED <<running, memory, lock, answer, drifted>>

Miss(s, k) ==
  /\ Goto(s, "new", "fetch")
  /\ key' = [key EXCEPT ![s] = k]
  /\ k \in Cached => cache[k].age > Ttl
  /\ UNCHANGED <<running, cache, older, memory, lock, answer, drifted>>

\* Turned away: an open circuit tries stale entries, a rate limit does not.
TurnedAway(s) ==
  /\ Goto(s, "fetch", "fallback") \/ Goto(s, "fetch", "done")
  /\ UNCHANGED <<running, cache, older, memory, lock, key, answer, drifted>>

\* Seeded fault: the host lock is given back as soon as the device has answered.
Read_ReleasesLock(s, size) ==
  /\ Goto(s, "reading", "putting")
  /\ answer' = [answer EXCEPT ![s] = [version |-> running[key[s][1]], size |-> size]]
  /\ Unlock(s)
  /\ UNCHANGED <<running, cache, older, memory, key, drifted>>

Read(s, size) ==
  /\ Goto(s, "reading", "putting")
  /\ answer' = [answer EXCEPT ![s] = [version |-> running[key[s][1]], size |-> size]]
  /\ UNCHANGED <<running, cache, older, memory, lock, key, drifted>>

PutAnswer(s) ==
  /\ Goto(s, "putting", "done")
  /\ Put(key[s], [version |-> answer[s].version, size |-> answer[s].size, age |-> 0])
  /\ Unlock(s)
  /\ UNCHANGED <<running, key, answer, drifted>>

\* A rejected command ends the call; an unreachable device makes it look for a
\* stale entry.  The lock is given back first.
ReadFails(s) ==
  /\ Goto(s, "reading", "fallback") \/ Goto(s, "reading", "done")
  /\ Unlock(s)
  /\ UNCHANGED <<running, cache, older, memory, key, answer, drifted>>

\* stale_if_error: serve an entry past its time to live, within limits.
Fallback(s) ==
  /\ Goto(s, "fallback", "done")
  /\ IF key[s] \in Cached /\ cache[key[s]].age <= Ttl + StaleTtl
     THEN Touch(key[s])
     ELSE UNCHANGED <<cache, older>>
  /\ UNCHANGED <<running, memory, lock, key, answer, drifted>>

-----------------------------------------------------------------------------
(* Changes *)

StartChange(c, k) ==
  /\ pc[c] = "new" /\ pc' = [pc EXCEPT ![c] = "changing"]
  /\ lock[k[1]] = None
  /\ key' = [key EXCEPT ![c] = k]
  /\ lock' = [lock EXCEPT ![k[1]] = c]
  /\ UNCHANGED <<running, cache, older, memory, answer, drifted>>

Changed(c) ==
  /\ running' = [running EXCEPT ![key[c][1]] = @ + 1]
  /\ drifted' = drifted \cup {key[c][1]}

\* run_config_command and run_session_command: the device has accepted.
Push(c) ==
  /\ Goto(c, "changing", "invalidating")
  /\ Changed(c)
  /\ UNCHANGED <<cache, older, memory, lock, key, answer>>

Invalidate(c) ==
  /\ Goto(c, "invalidating", "done")
  /\ InvalidateHost(key[c][1])
  /\ Unlock(c)
  /\ UNCHANGED <<running, key, answer>>

\* An error after which the device may or may not have taken the change.
PushFails(c) ==
  /\ Goto(c, "changing", "done")
  /\ Changed(c) \/ UNCHANGED <<running, drifted>>
  /\ Unlock(c)
  /\ UNCHANGED <<cache, older, memory, key, answer>>

\* ChangeManager.rollback: run_config, and the cache is not told.
RollBack(c) ==
  /\ Goto(c, "changing", "done")
  /\ Changed(c)
  /\ Unlock(c)
  /\ UNCHANGED <<cache, older, memory, key, answer>>

\* eos_add_to_config_session, which changes what the device answers about its
\* sessions, and net_push_config: no lock, and no word to the cache.
Stage(c, k) ==
  /\ pc[c] = "new" /\ pc' = [pc EXCEPT ![c] = "done"]
  /\ key' = [key EXCEPT ![c] = k]
  /\ running' = [running EXCEPT ![k[1]] = @ + 1]
  /\ drifted' = drifted \cup {k[1]}
  /\ UNCHANGED <<cache, older, memory, lock, answer>>

-----------------------------------------------------------------------------
(* eos_cache_clear, evicted connections, time *)

ClearHost(h) ==
  /\ InvalidateHost(h)
  /\ UNCHANGED <<running, lock, pc, key, answer>>

Clear ==
  /\ Drop(Cached) /\ memory' = 0 /\ drifted' = drifted \cap Overtaken
  /\ UNCHANGED <<running, lock, pc, key, answer>>

Tick ==
  /\ cache' = [k \in Keys |->
                 IF k \notin Cached THEN None
                 ELSE [cache[k] EXCEPT !.age = IF @ < LastAge THEN @ + 1 ELSE @]]
  /\ UNCHANGED <<running, older, memory, lock, pc, key, answer, drifted>>

Next ==
  \/ \E s \in Shows :
       \/ \E k \in Keys : Hit(s, k) \/ Miss(s, k)
       \/ LockHost(s, "fetch", "reading")
       \/ \E size \in Sizes : Read(s, size)
       \/ TurnedAway(s) \/ PutAnswer(s) \/ ReadFails(s) \/ Fallback(s)
  \/ \E c \in Changes :
       \/ \E k \in Keys : StartChange(c, k) \/ Stage(c, k)
       \/ Push(c) \/ Invalidate(c) \/ PushFails(c) \/ RollBack(c)
  \/ \E h \in Hosts : ClearHost(h)
  \/ Clear
  \/ Tick

Spec == Init /\ [][Next]_vars

-----------------------------------------------------------------------------
(* Properties *)

\* What the cache holds of a key.
Stored == [k \in Keys |-> IF k \in Cached THEN cache[k].version ELSE None]

Store == INSTANCE CoherentStore WITH stored <- Stored

\* The cache is a coherent store: no answer outlives a push to its host, and a show
\* that was reading while the change waited cannot put its answer back afterwards,
\* unless a rollback, a failed change or a staged command came in between.
ImplementsCoherentStore == Store!Spec

\* The memory counter never claims more than the entries take up: nothing is
\* evicted for memory that no entry uses.
MemoryIsNotOverstated == memory <= TotalSize(Cached)
=============================================================================
