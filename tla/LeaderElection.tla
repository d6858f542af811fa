---------------------------- MODULE LeaderElection ----------------------------
(***************************************************************************)
(* The leader election of leader.py: replicas of the server compete for    *)
(* one Redis key with an expiry, the lease.                                *)
(*                                                                         *)
(* A replica has two threads: the server's lifespan, which acquires the    *)
(* lease at the start and releases it at the end, and the renewal thread.  *)
(* Every command to Redis takes effect in a step of its own; its answer    *)
(* comes in a later step, in which the thread goes on. A command may fail, *)
(* also after it took effect, and a DEL that its client gave up may still  *)
(* be on its way (a late SET or EXPIRE only makes a lease longer).         *)
(* Replicas crash and come back under the same name, as they do in         *)
(* containers, where host name and PID stay the same.                      *)
(*                                                                         *)
(* Time is counted in ticks. A command is answered, or given up, within    *)
(* MaxDelay, which stands for socket_timeout and for scheduling; a round   *)
(* of two commands may take twice as long.  The clocks of replicas and     *)
(* Redis run at the same rate.                                             *)
(***************************************************************************)
EXTENDS Integers, FiniteSets

CONSTANTS
  Instances,
  Ttl,          \* of the lease
  MaxDelay,     \* longest time that a command to Redis takes
  None

ASSUME LeaderAssumption ==
  /\ Ttl \in Nat \ {0} /\ MaxDelay \in Nat \ {0}
  /\ None \notin Instances /\ None \notin Nat

Threads == Instances \X {"main", "loop"}
Main(i) == <<i, "main">>
Loop(i) == <<i, "loop">>

VARIABLES
  owner, left,  \* the key in Redis: its value, or None, and its time to live
  stray,        \* a DEL whose client gave up is still on its way
  raw, age,     \* _is_leader, and the time since _lease_acquired_at, or None
  pc,           \* the place of each thread
  busy,         \* time since a thread sent its latest command, or was due to
  due,          \* time until the renewal thread wakes up
  lost,         \* history: time since the key ceased to name a believing instance
  hollow,       \* history: the latest stamp of the instance's belief was not
                \* backed by a full lease, or the lease was deleted since
  failed        \* history: a renewal failed since the latest stamp

beliefs == <<raw, age, due>>
history == <<lost, hollow, failed>>
vars == <<owner, left, stray, beliefs, pc, busy, history>>

\* Seeded fault: the loop renews when the lease is about to end.
Interval_Ttl == Ttl

\* max(ttl // 3, 1)
Interval == IF Ttl \div 3 > 1 THEN Ttl \div 3 ELSE 1

\* Seeded fault: a belief is never given up for its age.
Believes_Forever(i) == raw[i]

\* is_leader: the answer, and what it leaves behind in Ask.
Believes(i) == raw[i] /\ (age[i] = None \/ age[i] <= Ttl)

MainSteps == {"down", "claim", "taken", "probe", "up", "own", "delete", "forget"}
LoopSteps == {"off", "idle", "own", "extend", "stamp", "demote"}

\* The time since a loss is counted no further than past any bound on it.
LastLost == Ttl + 2 * MaxDelay + 1

TypeOK ==
  /\ owner \in Instances \cup {None} /\ left \in 0..Ttl
  /\ owner = None <=> left = 0
  /\ stray \in BOOLEAN
  /\ raw \in [Instances -> BOOLEAN]
  /\ age \in [Instances -> 0..(Ttl + 1) \cup {None}]
  /\ \A i \in Instances : pc[Main(i)] \in MainSteps /\ pc[Loop(i)] \in LoopSteps
  /\ DOMAIN pc = Threads
  /\ busy \in [Threads -> 0..MaxDelay]
  /\ due \in [Instances -> 0..Interval]
  /\ lost \in [Instances -> 0..LastLost]
  /\ hollow \in [Instances -> BOOLEAN] /\ failed \in [Instances -> BOOLEAN]

Init ==
  /\ owner = None /\ left = 0 /\ stray = FALSE
  /\ raw = [i \in Instances |-> FALSE]
  /\ age = [i \in Instances |-> None]
  /\ pc = [t \in Threads |-> IF t[2] = "main" THEN "down" ELSE "off"]
  /\ busy = [t \in Threads |-> 0]
  /\ due = [i \in Instances |-> 0]
  /\ lost = [i \in Instances |-> 0]
  /\ hollow = [i \in Instances |-> FALSE]
  /\ failed = [i \in Instances |-> FALSE]

-----------------------------------------------------------------------------
(* Redis *)

\* Seeded fault: the key is set without an expiry.
Set_NoExpiry(i) ==
  IF owner = None
  THEN owner' = i /\ UNCHANGED left
  ELSE UNCHANGED <<owner, left>>

\* SET key i NX EX ttl
Set(i) ==
  IF owner = None
  THEN owner' = i /\ left' = Ttl
  ELSE UNCHANGED <<owner, left>>

\* EXPIRE key ttl, whoever owns the key
Expire == left' = (IF owner = None THEN 0 ELSE Ttl) /\ UNCHANGED owner

\* DEL key, whoever owns the key
Del == owner' = None /\ left' = 0

\* The owner, if any, still believes in a lease that somebody else took away.
Robbed == hollow' = [i \in Instances |-> hollow[i] \/ (i = owner /\ pc[Main(i)] # "down")]

LateDel ==
  /\ stray /\ stray' = FALSE
  /\ Del /\ Robbed
  /\ UNCHANGED <<beliefs, pc, busy, lost, failed>>

-----------------------------------------------------------------------------
(* Threads *)

Goto(t, from, to) == pc[t] = from /\ pc' = [pc EXCEPT ![t] = to]
Begin(t, from, to) == Goto(t, from, to) /\ busy' = [busy EXCEPT ![t] = 0]

\* The answer to the first of two commands has come, and the second is sent: GET
\* after a SET in vain, EXPIRE or DEL after a GET that names this instance.
Continue(t) ==
  /\ \/ Begin(t, "taken", "probe")
     \/ Begin(t, "own", IF t[2] = "main" THEN "delete" ELSE "extend")
  /\ UNCHANGED <<owner, left, stray, beliefs, history>>

\* start_renewal, try_acquire: SET is answered with success, or with the key's
\* being there.
TryAcquire(i) ==
  /\ Begin(Main(i), "down", IF owner = None THEN "claim" ELSE "taken")
  /\ Set(i)
  /\ UNCHANGED <<stray, beliefs, history>>

\* A key with the own name is taken over with the time that it has left.
Probe(i) ==
  /\ IF owner = i
     THEN Goto(Main(i), "probe", "claim") /\ UNCHANGED <<busy, due>>
     ELSE /\ pc[Main(i)] = "probe"
          /\ pc' = [pc EXCEPT ![Main(i)] = "up", ![Loop(i)] = "idle"]
          /\ busy' = [busy EXCEPT ![Main(i)] = 0, ![Loop(i)] = 0]
          /\ due' = [due EXCEPT ![i] = 0]
  /\ hollow' = [hollow EXCEPT ![i] = owner = i]
  /\ UNCHANGED <<owner, left, stray, raw, age, lost, failed>>

\* Leader from now on; the renewal thread begins with a renewal.
Claim(i) ==
  /\ pc[Main(i)] = "claim"
  /\ pc' = [pc EXCEPT ![Main(i)] = "up", ![Loop(i)] = "idle"]
  /\ busy' = [busy EXCEPT ![Main(i)] = 0, ![Loop(i)] = 0]
  /\ raw' = [raw EXCEPT ![i] = TRUE]
  /\ age' = [age EXCEPT ![i] = 0]
  /\ due' = [due EXCEPT ![i] = 0]
  /\ failed' = [failed EXCEPT ![i] = FALSE]
  /\ UNCHANGED <<owner, left, stray, lost, hollow>>

\* The replica runs on without leading; it does not try again.
AcquireFails(i) ==
  /\ pc[Main(i)] \in {"down", "claim", "taken", "probe"}
  /\ pc' = [pc EXCEPT ![Main(i)] = "up", ![Loop(i)] = "idle"]
  /\ busy' = [busy EXCEPT ![Main(i)] = 0, ![Loop(i)] = 0]
  /\ hollow' = [hollow EXCEPT ![i] = FALSE]
  /\ UNCHANGED <<owner, left, stray, beliefs, lost, failed>>

\* The loop ends when the server stops.
Awake(i) == pc[Loop(i)] = "idle" /\ pc[Main(i)] = "up" /\ raw[i] /\ due[i] = 0

\* renew: GET
RenewLooks(i) ==
  /\ Awake(i)
  /\ Goto(Loop(i), "idle", IF owner = i THEN "own" ELSE "demote")
  /\ UNCHANGED <<owner, left, stray, beliefs, busy, history>>

Forget(i) ==
  /\ raw' = [raw EXCEPT ![i] = FALSE]
  /\ age' = [age EXCEPT ![i] = None]
  /\ due' = [due EXCEPT ![i] = 0]
  /\ lost' = [lost EXCEPT ![i] = 0]
  /\ hollow' = [hollow EXCEPT ![i] = FALSE]
  /\ failed' = [failed EXCEPT ![i] = FALSE]

Demote(i) ==
  /\ Begin(Loop(i), "demote", "idle")
  /\ Forget(i)
  /\ UNCHANGED <<owner, left, stray>>

\* EXPIRE; its answer, whether there was such a key, is not looked at.
Extend(i) ==
  /\ Goto(Loop(i), "extend", "stamp")
  /\ Expire
  /\ hollow' = [hollow EXCEPT ![i] = owner # i]
  /\ UNCHANGED <<stray, beliefs, busy, lost, failed>>

Sleep(i) == due' = [due EXCEPT ![i] = Interval]

Stamp(i) ==
  /\ Begin(Loop(i), "stamp", "idle")
  /\ age' = [age EXCEPT ![i] = 0]
  /\ failed' = [failed EXCEPT ![i] = FALSE]
  /\ Sleep(i)
  /\ UNCHANGED <<owner, left, stray, raw, lost, hollow>>

\* An exception demotes only a leader whose lease has run out by its own clock.
RenewFails(i) ==
  /\ Awake(i) \/ pc[Loop(i)] \in {"own", "extend", "stamp", "demote"}
  /\ pc' = [pc EXCEPT ![Loop(i)] = "idle"]
  /\ busy' = [busy EXCEPT ![Loop(i)] = 0]
  /\ IF age[i] # None /\ age[i] > Ttl
     THEN Forget(i)
     ELSE /\ Sleep(i)
          /\ failed' = [failed EXCEPT ![i] = raw[i]]
          /\ UNCHANGED <<raw, age, lost, hollow>>
  /\ UNCHANGED <<owner, left, stray>>

\* is_leader notices by itself that the lease has run out.
Ask(i) ==
  /\ raw[i] /\ ~Believes(i)
  /\ Forget(i)
  /\ UNCHANGED <<owner, left, stray, pc, busy>>

\* stop_renewal waits for the renewal thread, in vain if a round of it takes too
\* long, and releases the lease if GET still names this instance.
ReleaseLooks(i) ==
  /\ owner = i
  /\ Begin(Main(i), "up", "own")
  /\ UNCHANGED <<owner, left, stray, beliefs, history>>

Delete(i) ==
  /\ Goto(Main(i), "delete", "forget")
  /\ Del
  /\ IF owner = i THEN UNCHANGED hollow ELSE Robbed
  /\ UNCHANGED <<stray, beliefs, busy, lost, failed>>

\* The end of release (also if the lease is another's, or after an exception) and
\* of the process, or a crash at any point: all the instance knew is gone.
Exit(i) ==
  /\ pc[Main(i)] # "down"
  /\ UNCHANGED stray \/ (pc[Main(i)] = "delete" /\ stray' = TRUE)
  /\ pc' = [pc EXCEPT ![Main(i)] = "down", ![Loop(i)] = "off"]
  /\ busy' = [busy EXCEPT ![Main(i)] = 0, ![Loop(i)] = 0]
  /\ Forget(i)
  /\ UNCHANGED <<owner, left>>

Active(t) ==
  \/ pc[t] \notin {"down", "up", "off", "idle"}
  \/ t[2] = "loop" /\ Awake(t[1])

Tick ==
  /\ \A t \in Threads : Active(t) => busy[t] < MaxDelay
  /\ left' = (IF left > 0 THEN left - 1 ELSE 0)
  /\ owner' = (IF left' = 0 THEN None ELSE owner)
  /\ busy' = [t \in Threads |-> IF Active(t) THEN busy[t] + 1 ELSE 0]
  /\ age' = [i \in Instances |-> IF age[i] = None \/ age[i] > Ttl THEN age[i] ELSE age[i] + 1]
  /\ due' = [i \in Instances |-> IF due[i] > 0 THEN due[i] - 1 ELSE 0]
  /\ lost' = [i \in Instances |->
                IF owner = i \/ ~(raw[i] \/ pc[Main(i)] = "claim") THEN 0
                ELSE IF lost[i] = LastLost THEN LastLost ELSE lost[i] + 1]
  /\ UNCHANGED <<stray, raw, pc, hollow, failed>>

-----------------------------------------------------------------------------

LoopStep(i) ==
  RenewLooks(i) \/ Continue(Loop(i)) \/ Demote(i) \/ Extend(i) \/ Stamp(i) \/ RenewFails(i)

Next ==
  \/ \E i \in Instances :
       TryAcquire(i) \/ Continue(Main(i)) \/ Probe(i) \/ Claim(i) \/ AcquireFails(i)
       \/ LoopStep(i) \/ Ask(i) \/ ReleaseLooks(i) \/ Delete(i) \/ Exit(i)
  \/ LateDel
  \/ Tick

Spec == Init /\ [][Next]_vars

-----------------------------------------------------------------------------
(* Properties *)

\* Whoever is_leader() tells that it leads has the lease, or lost it a moment ago:
\* no longer than one command takes if the belief was stamped on a full lease: the
\* stamp comes with the answer to SET or EXPIRE, and the end of the belief with the
\* answer to the DEL of a release.  Only after a stamp with nothing behind it (the
\* key expired between GET and EXPIRE, a restarted replica took over what was left of
\* its old lease, or a late DEL hit the key) may the belief outlive the lease by a
\* Ttl and a round of two commands.
BeliefOutlivesLeaseBriefly ==
  \A i \in Instances :
    Believes(i) /\ owner # i => lost[i] <= (IF hollow[i] THEN Ttl + 2 * MaxDelay ELSE MaxDelay)

\* Renewing every third of the time to live is often enough: while renewals
\* succeed, a leader does not lose a lease that it got in full and that nobody
\* deletes.  It depends on Redis' being quick: three commands and a sleep have to
\* fit between two effects of EXPIRE.
HealthyLeaderKeepsLease ==
  \A i \in Instances :
    raw[i] /\ pc[Main(i)] = "up" /\ ~hollow[i] /\ ~failed[i] => owner = i
=============================================================================
