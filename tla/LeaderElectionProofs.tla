------------------------ MODULE LeaderElectionProofs ------------------------
(***************************************************************************)
(* Proofs about LeaderElection, for any instances, any time to live and    *)
(* any longest time of a command.                                          *)
(*                                                                         *)
(* Both properties follow from when the lease behind a belief was last     *)
(* full: Backed says that it was no longer ago than a given time, which a  *)
(* belief measures by its age and a thread that has yet to stamp one by    *)
(* the time its command takes.  That a healthy leader keeps its lease      *)
(* needs one thing more, the rhythm of the renewal thread.                 *)
(***************************************************************************)
EXTENDS LeaderElection, TLAPS

\* The lease of i was full at most t ticks ago, and nobody has deleted it.
Backed(i, t) == IF owner = i THEN left + t >= Ttl ELSE lost[i] + Ttl <= t

\* A replica believes after it has claimed the lease, and stamps its beliefs.
BeliefsInOrder(i) ==
  /\ raw[i] => pc[Main(i)] \in {"up", "own", "delete", "forget"} /\ age[i] # None
  /\ pc[Main(i)] \in {"down", "taken", "probe"} => lost[i] = 0
  /\ pc[Main(i)] \in {"down", "taken", "probe", "claim"} <=> pc[Loop(i)] = "off"
  /\ pc[Main(i)] = "forget" => owner # i

\* The lease is lost while a thread waits for Redis, or while a belief grows old.
LossIsTimed(i) ==
  /\ owner = i => lost[i] = 0
  /\ pc[Main(i)] = "claim" => lost[i] <= busy[Main(i)]
  /\ pc[Loop(i)] = "own" => lost[i] <= busy[Loop(i)]
  /\ pc[Loop(i)] \in {"extend", "stamp"} => lost[i] <= busy[Loop(i)] + MaxDelay
  /\ raw[i] /\ age[i] <= Ttl => lost[i] <= age[i] + 2 * MaxDelay

\* The instance itself has just deleted its lease.
Released(i) == pc[Main(i)] = "forget" /\ lost[i] <= busy[Main(i)]

LeaseIsBacked(i) ==
  ~hollow[i] =>
    /\ pc[Main(i)] = "claim" => Backed(i, busy[Main(i)])
    /\ raw[i] /\ ~Released(i) =>
         /\ pc[Loop(i)] = "stamp" => Backed(i, busy[Loop(i)])
         /\ age[i] <= Ttl => Backed(i, age[i] + MaxDelay)

\* While renewals succeed, the latest stamp is no older than the sleep and the
\* commands since.
Rhythm(i) ==
  /\ pc[Loop(i)] = "idle" /\ due[i] > 0 => busy[Loop(i)] = 0
  /\ raw[i] /\ pc[Main(i)] = "up" /\ ~failed[i] =>
       /\ age[i] + due[i] <= Interval + busy[Loop(i)] + MaxDelay
       /\ pc[Loop(i)] \notin {"extend", "stamp"} => age[i] + due[i] <= Interval + busy[Loop(i)]

Led(i) == BeliefsInOrder(i) /\ LossIsTimed(i) /\ LeaseIsBacked(i) /\ Rhythm(i)

IInv == TypeOK /\ \A i \in Instances : Led(i)

-----------------------------------------------------------------------------
(* Types *)

\* Every instance has two threads of its own.
LEMMA TwoThreads ==
  /\ \A i \in Instances : Main(i) \in Threads /\ Loop(i) \in Threads
  /\ \A i, j \in Instances : Main(i) # Loop(j)
  /\ \A i, j \in Instances : Main(i) = Main(j) => i = j
  /\ \A i, j \in Instances : Loop(i) = Loop(j) => i = j
  /\ \A t \in Threads : \E i \in Instances : t = Main(i) \/ t = Loop(i)
  /\ \A i \in Instances : Main(i)[1] = i /\ Main(i)[2] = "main"
  /\ \A i \in Instances : Loop(i)[1] = i /\ Loop(i)[2] = "loop"
BY DEF Threads, Main, Loop

LEMMA IntervalType == Interval \in Nat \ {0}
<1>1. Ttl \in Nat
  BY LeaderAssumption
<1>2. Ttl \div 3 \in Int
  BY <1>1
<1> QED BY <1>2 DEF Interval

KeyTypes ==
  /\ owner \in Instances \cup {None} /\ left \in 0..Ttl
  /\ owner = None <=> left = 0
  /\ stray \in BOOLEAN

ClockTypes ==
  /\ raw \in [Instances -> BOOLEAN]
  /\ age \in [Instances -> 0..(Ttl + 1) \cup {None}]
  /\ due \in [Instances -> 0..Interval]
  /\ lost \in [Instances -> 0..LastLost]
  /\ hollow \in [Instances -> BOOLEAN] /\ failed \in [Instances -> BOOLEAN]

ThreadTypes ==
  /\ \A i \in Instances : pc[Main(i)] \in MainSteps /\ pc[Loop(i)] \in LoopSteps
  /\ DOMAIN pc = Threads
  /\ busy \in [Threads -> 0..MaxDelay]

LEMMA TypesInParts ==
  /\ TypeOK <=> KeyTypes /\ ClockTypes /\ ThreadTypes
  /\ TypeOK' <=> KeyTypes' /\ ClockTypes' /\ ThreadTypes'
<1>1. TypeOK <=> KeyTypes /\ ClockTypes /\ ThreadTypes
  BY DEF TypeOK, KeyTypes, ClockTypes, ThreadTypes
<1>2. TypeOK' <=> KeyTypes' /\ ClockTypes' /\ ThreadTypes'
  BY DEF TypeOK, KeyTypes, ClockTypes, ThreadTypes
<1> QED BY <1>1, <1>2

LEMMA NextKeepsKeyTypes ==
  ASSUME TypeOK, [Next]_vars
  PROVE  KeyTypes'
<1> USE DEF KeyTypes
<1>1. KeyTypes /\ Ttl \in Nat \ {0} /\ None \notin Instances
  BY LeaderAssumption, TypesInParts
<1>2. CASE UNCHANGED <<owner, left, stray>>
  BY <1>1, <1>2
<1>3. ASSUME NEW i \in Instances, TryAcquire(i)
      PROVE  KeyTypes'
  BY <1>1, <1>3 DEF TryAcquire, Set
<1>4. ASSUME NEW i \in Instances, Extend(i)
      PROVE  KeyTypes'
  BY <1>1, <1>4 DEF Extend, Expire
<1>5. ASSUME NEW i \in Instances, Delete(i)
      PROVE  KeyTypes'
  BY <1>1, <1>5 DEF Delete, Del
<1>6. ASSUME NEW i \in Instances, Exit(i)
      PROVE  KeyTypes'
  BY <1>1, <1>6 DEF Exit
<1>7. CASE LateDel
  <2>1. owner' = None /\ left' = 0 /\ stray' = FALSE
    BY <1>7 DEF LateDel, Del
  <2>2. stray' \in BOOLEAN
    BY <2>1
  <2>3. /\ owner' \in Instances \cup {None} /\ left' \in 0..Ttl
        /\ owner' = None <=> left' = 0
    BY <1>1, <2>1
  <2> QED BY <2>2, <2>3
<1>8. CASE Tick
  BY <1>1, <1>8 DEF Tick
<1>9. ASSUME NEW i \in Instances,
             \/ Probe(i) \/ Claim(i) \/ AcquireFails(i) \/ RenewLooks(i) \/ Demote(i) \/ Stamp(i)
             \/ RenewFails(i) \/ Ask(i) \/ ReleaseLooks(i) \/ Continue(Main(i)) \/ Continue(Loop(i))
      PROVE  UNCHANGED <<owner, left, stray>>
  BY <1>9 DEF Continue, Probe, Claim, AcquireFails, RenewLooks, Demote, Stamp, RenewFails, Ask, ReleaseLooks
<1> QED
  BY <1>2, <1>3, <1>4, <1>5, <1>6, <1>7, <1>8, <1>9 DEF Next, LoopStep, vars

LEMMA NextKeepsClockTypes ==
  ASSUME TypeOK, [Next]_vars
  PROVE  ClockTypes'
<1> USE DEF ClockTypes
<1>1. /\ ClockTypes /\ Ttl \in Nat \ {0} /\ None \notin Nat
      /\ Interval \in Nat \ {0} /\ LastLost \in Nat
      /\ owner \in Instances \cup {None}
  BY LeaderAssumption, TypesInParts, IntervalType DEF LastLost, KeyTypes
<1>2. ASSUME NEW i \in Instances,
             \/ TryAcquire(i) \/ Continue(Main(i)) \/ Probe(i) \/ Claim(i) \/ AcquireFails(i)
             \/ ReleaseLooks(i) \/ LoopStep(i) \/ Ask(i) \/ Exit(i)
      PROVE  ClockTypes'
  <2> USE DEF TryAcquire, Continue, Probe, Claim, AcquireFails, ReleaseLooks, LoopStep, RenewLooks, Demote,
          Extend, Stamp, RenewFails, Ask, Exit, Forget, Sleep, beliefs, history
  <2>1. \E b \in BOOLEAN : raw' \in {raw, [raw EXCEPT ![i] = b]}
    BY <1>2
  <2>2. \E a \in {0, None} : age' \in {age, [age EXCEPT ![i] = a]}
    BY <1>2
  <2>3. \E d \in {0, Interval} : due' \in {due, [due EXCEPT ![i] = d]}
    BY <1>2
  <2>4. lost' \in {lost, [lost EXCEPT ![i] = 0]}
    BY <1>2
  <2>5. \E b \in BOOLEAN : hollow' \in {hollow, [hollow EXCEPT ![i] = b]}
    BY <1>2, Zenon
  <2>6. \E b \in BOOLEAN : failed' \in {failed, [failed EXCEPT ![i] = b]}
    <3>1. raw[i] \in BOOLEAN
      BY <1>1
    <3> QED BY <1>2, <3>1, Zenon
  <2>7. raw' \in [Instances -> BOOLEAN]
    BY <1>1, <2>1
  <2>8. age' \in [Instances -> 0..(Ttl + 1) \cup {None}]
    BY <1>1, <2>2
  <2>9. due' \in [Instances -> 0..Interval] /\ lost' \in [Instances -> 0..LastLost]
    BY <1>1, <2>3, <2>4
  <2>10. hollow' \in [Instances -> BOOLEAN] /\ failed' \in [Instances -> BOOLEAN]
    BY <1>1, <2>5, <2>6
  <2> QED BY <2>7, <2>8, <2>9, <2>10
<1>3. ASSUME NEW i \in Instances, Delete(i)
      PROVE  ClockTypes'
  BY <1>1, <1>3 DEF Delete, Robbed, beliefs
<1>4. CASE LateDel
  BY <1>1, <1>4 DEF LateDel, Robbed, beliefs
<1>5. CASE Tick
  <2>1. UNCHANGED <<raw, hollow, failed>>
    BY <1>5 DEF Tick
  <2>2. \A i \in Instances :
          (IF age[i] = None \/ age[i] > Ttl THEN age[i] ELSE age[i] + 1) \in 0..(Ttl + 1) \cup {None}
    BY <1>1
  <2>3. \A i \in Instances : (IF due[i] > 0 THEN due[i] - 1 ELSE 0) \in 0..Interval
    BY <1>1
  <2>4. \A i \in Instances :
          (IF owner = i \/ ~(raw[i] \/ pc[Main(i)] = "claim") THEN 0
           ELSE IF lost[i] = LastLost THEN LastLost ELSE lost[i] + 1) \in 0..LastLost
    BY <1>1
  <2> QED BY <1>1, <1>5, <2>1, <2>2, <2>3, <2>4 DEF Tick
<1>6. CASE UNCHANGED vars
  BY <1>1, <1>6 DEF vars, beliefs, history
<1> QED
  BY <1>2, <1>3, <1>4, <1>5, <1>6 DEF Next

LEMMA NextKeepsThreadTypes ==
  ASSUME TypeOK, [Next]_vars
  PROVE  ThreadTypes'
<1> USE DEF ThreadTypes, Goto, Begin
<1>1. ThreadTypes /\ MaxDelay \in Nat \ {0}
  BY LeaderAssumption, TypesInParts
<1>2. /\ {"down", "claim", "taken", "probe", "up", "own", "delete", "forget"} = MainSteps
      /\ {"off", "idle", "own", "extend", "stamp", "demote"} = LoopSteps
  BY DEF MainSteps, LoopSteps
<1>3. ASSUME NEW i \in Instances,
             \/ TryAcquire(i) \/ Probe(i) \/ Claim(i) \/ AcquireFails(i) \/ ReleaseLooks(i)
             \/ Delete(i) \/ Exit(i)
      PROVE  ThreadTypes'
  BY <1>1, <1>2, <1>3, TwoThreads DEF TryAcquire, Probe, Claim, AcquireFails, ReleaseLooks, Delete, Exit
<1>4. ASSUME NEW i \in Instances,
             RenewLooks(i) \/ Demote(i) \/ Extend(i) \/ Stamp(i) \/ RenewFails(i)
      PROVE  ThreadTypes'
  BY <1>1, <1>2, <1>4, TwoThreads DEF RenewLooks, Demote, Extend, Stamp, RenewFails
<1>5. ASSUME NEW i \in Instances, Ask(i)
      PROVE  ThreadTypes'
  BY <1>1, <1>5 DEF Ask
<1>6. CASE LateDel \/ UNCHANGED vars
  BY <1>1, <1>6 DEF LateDel, vars
<1>7. ASSUME NEW i \in Instances, Continue(Main(i)) \/ Continue(Loop(i))
      PROVE  ThreadTypes'
  <2>1. CASE Continue(Main(i))
    <3>1. \E to \in {"probe", "delete"} :
            pc' = [pc EXCEPT ![Main(i)] = to] /\ busy' = [busy EXCEPT ![Main(i)] = 0]
      BY <2>1, TwoThreads DEF Continue
    <3> QED BY <1>1, <1>2, <3>1, TwoThreads
  <2>2. CASE Continue(Loop(i))
    <3>1. pc[Loop(i)] # "taken"
      BY <1>1, <1>2
    <3>2. pc' = [pc EXCEPT ![Loop(i)] = "extend"] /\ busy' = [busy EXCEPT ![Loop(i)] = 0]
      BY <2>2, <3>1, TwoThreads DEF Continue
    <3> QED BY <1>1, <1>2, <3>2, TwoThreads
  <2> QED BY <1>7, <2>1, <2>2
<1>8. CASE Tick
  <2>1. \A t \in Threads : (IF Active(t) THEN busy[t] + 1 ELSE 0) \in 0..MaxDelay
    BY <1>1, <1>8 DEF Tick
  <2> QED BY <1>1, <1>8, <2>1 DEF Tick
<1> QED
  BY <1>3, <1>4, <1>5, <1>6, <1>7, <1>8 DEF Next, LoopStep

LEMMA NextKeepsTypes ==
  ASSUME TypeOK, [Next]_vars
  PROVE  TypeOK'
BY NextKeepsKeyTypes, NextKeepsClockTypes, NextKeepsThreadTypes, TypesInParts

-----------------------------------------------------------------------------
(* What an instance knows, while others act and time passes *)

Untouched(i) ==
  /\ pc'[Main(i)] = pc[Main(i)] /\ pc'[Loop(i)] = pc[Loop(i)]
  /\ busy'[Main(i)] = busy[Main(i)] /\ busy'[Loop(i)] = busy[Loop(i)]
  /\ raw'[i] = raw[i] /\ age'[i] = age[i] /\ due'[i] = due[i]
  /\ lost'[i] = lost[i] /\ failed'[i] = failed[i]

LEMMA Typed ==
  ASSUME TypeOK, NEW i \in Instances
  PROVE  /\ Ttl \in Nat \ {0} /\ MaxDelay \in Nat \ {0} /\ Interval \in Nat \ {0}
         /\ None \notin Instances /\ None \notin Nat
         /\ left \in Nat /\ left <= Ttl /\ (owner = None <=> left = 0)
         /\ raw[i] \in BOOLEAN /\ hollow[i] \in BOOLEAN /\ failed[i] \in BOOLEAN
         /\ age[i] # None => age[i] \in Nat /\ age[i] <= Ttl + 1
         /\ due[i] \in Nat /\ due[i] <= Interval
         /\ lost[i] \in Nat
         /\ busy[Main(i)] \in Nat /\ busy[Main(i)] <= MaxDelay
         /\ busy[Loop(i)] \in Nat /\ busy[Loop(i)] <= MaxDelay
         /\ pc[Main(i)] \in MainSteps /\ pc[Loop(i)] \in LoopSteps
<1>1. KeyTypes /\ ClockTypes /\ ThreadTypes
  BY TypesInParts
<1>2. /\ Ttl \in Nat \ {0} /\ MaxDelay \in Nat \ {0} /\ Interval \in Nat \ {0}
      /\ None \notin Instances /\ None \notin Nat /\ LastLost \in Nat
  BY LeaderAssumption, IntervalType DEF LastLost
<1>3. /\ busy[Main(i)] \in 0..MaxDelay /\ busy[Loop(i)] \in 0..MaxDelay
      /\ pc[Main(i)] \in MainSteps /\ pc[Loop(i)] \in LoopSteps
  BY <1>1, TwoThreads DEF ThreadTypes
<1>4. /\ raw[i] \in BOOLEAN /\ hollow[i] \in BOOLEAN /\ failed[i] \in BOOLEAN
  BY <1>1 DEF ClockTypes
<1>5. /\ age[i] \in 0..(Ttl + 1) \cup {None} /\ due[i] \in 0..Interval /\ lost[i] \in 0..LastLost
  BY <1>1 DEF ClockTypes
<1>6. /\ left \in Nat /\ left <= Ttl /\ (owner = None <=> left = 0)
  BY <1>1, <1>2 DEF KeyTypes
<1> QED BY <1>2, <1>3, <1>4, <1>5, <1>6

\* An instance is led as before if its lease is left alone, or lost with its knowing.
LEMMA UntouchedIsLed ==
  ASSUME IInv, NEW i \in Instances, Untouched(i),
         \/ /\ hollow'[i] = hollow[i]
            /\ owner' = i <=> owner = i
            /\ owner = i => left' \in Nat /\ left' >= left
         \/ /\ owner' # i
            /\ hollow'[i] \/ pc[Main(i)] = "down"
  PROVE  Led(i)'
<1>1. Led(i) /\ TypeOK
  BY DEF IInv
<1>2. BeliefsInOrder(i)'
  BY <1>1 DEF Untouched, Led, BeliefsInOrder
<1>3. LossIsTimed(i)'
  BY <1>1 DEF Untouched, Led, LossIsTimed
<1>4. LeaseIsBacked(i)'
  <2>1. CASE /\ hollow'[i] = hollow[i]
             /\ owner' = i <=> owner = i
             /\ owner = i => left' \in Nat /\ left' >= left
    <3>1. \A t \in Nat : Backed(i, t) => Backed(i, t)'
      BY <1>1, <2>1, Typed DEF Untouched, Backed
    <3>2. /\ ~hollow[i] /\ pc[Main(i)] = "claim" => Backed(i, busy[Main(i)])'
          /\ ~hollow[i] /\ raw[i] /\ ~Released(i) /\ pc[Loop(i)] = "stamp" => Backed(i, busy[Loop(i)])'
      BY <1>1, <3>1, Typed DEF Untouched, Backed, Led, LeaseIsBacked
    <3>3. ~hollow[i] /\ raw[i] /\ ~Released(i) /\ age[i] <= Ttl => Backed(i, age[i] + MaxDelay)'
      <4>1. raw[i] => age[i] \in Nat
        BY <1>1, Typed DEF Led, BeliefsInOrder
      <4>2. raw[i] => age[i] + MaxDelay \in Nat
        BY <1>1, <4>1, Typed
      <4> QED BY <1>1, <3>1, <4>2 DEF Untouched, Backed, Led, LeaseIsBacked
    <3>4. Released(i)' <=> Released(i)
      BY DEF Untouched, Released
    <3> QED BY <2>1, <3>2, <3>3, <3>4 DEF Untouched, LeaseIsBacked, Backed
  <2>2. CASE hollow'[i]
    BY <2>2 DEF LeaseIsBacked
  <2>3. CASE pc[Main(i)] = "down"
    BY <1>1, <2>3 DEF LeaseIsBacked, Untouched, Led, BeliefsInOrder
  <2> QED BY <2>1, <2>2, <2>3
<1>5. Rhythm(i)'
  BY <1>1 DEF Untouched, Led, Rhythm
<1> QED BY <1>2, <1>3, <1>4, <1>5 DEF Led

LEMMA TickKeepsLed ==
  ASSUME IInv, NEW i \in Instances, Tick
  PROVE  Led(i)'
<1> DEFINE a == age[i]
           m == busy[Main(i)]
           l == busy[Loop(i)]
<1>1. TypeOK /\ BeliefsInOrder(i) /\ LossIsTimed(i) /\ LeaseIsBacked(i) /\ Rhythm(i)
  BY DEF IInv, Led
<1>2. /\ Ttl \in Nat \ {0} /\ MaxDelay \in Nat \ {0} /\ Interval \in Nat \ {0}
      /\ None \notin Instances /\ None \notin Nat
      /\ left \in Nat /\ left <= Ttl /\ (owner = None <=> left = 0)
      /\ raw[i] \in BOOLEAN
      /\ a # None => a \in Nat /\ a <= Ttl + 1
      /\ due[i] \in Nat /\ lost[i] \in Nat /\ m \in Nat /\ l \in Nat
  BY <1>1, Typed
<1>3. /\ raw'[i] = raw[i] /\ hollow'[i] = hollow[i] /\ failed'[i] = failed[i]
      /\ pc' = pc
  BY DEF Tick
<1>4. /\ age'[i] = IF a = None \/ a > Ttl THEN a ELSE a + 1
      /\ due'[i] = IF due[i] > 0 THEN due[i] - 1 ELSE 0
      /\ left' = IF left > 0 THEN left - 1 ELSE 0
      /\ owner' = IF left' = 0 THEN None ELSE owner
  BY <1>1, TypesInParts DEF Tick, ClockTypes
<1>5. /\ lost'[i] \in Nat
      /\ lost'[i] <= lost[i] + 1
      /\ owner = i \/ ~(raw[i] \/ pc[Main(i)] = "claim") => lost'[i] = 0
  <2>1. lost'[i] = IF owner = i \/ ~(raw[i] \/ pc[Main(i)] = "claim") THEN 0
                   ELSE IF lost[i] = LastLost THEN LastLost ELSE lost[i] + 1
    BY <1>1, TypesInParts DEF Tick, ClockTypes
  <2> QED BY <1>2, <2>1
<1>6. /\ pc[Main(i)] \in {"claim", "forget"} => busy'[Main(i)] = m + 1
      /\ pc[Loop(i)] \in {"own", "extend", "stamp", "demote"} => busy'[Loop(i)] = l + 1
      /\ raw[i] /\ pc[Main(i)] = "up" /\ pc[Loop(i)] = "idle" /\ due[i] = 0 => busy'[Loop(i)] = l + 1
      /\ pc[Loop(i)] = "idle" /\ due[i] > 0 => busy'[Loop(i)] = 0
  <2>1. \A t \in Threads : busy'[t] = IF Active(t) THEN busy[t] + 1 ELSE 0
    BY DEF Tick
  <2>2. busy'[Main(i)] = (IF Active(Main(i)) THEN m + 1 ELSE 0)
        /\ busy'[Loop(i)] = (IF Active(Loop(i)) THEN l + 1 ELSE 0)
    BY <2>1, TwoThreads
  <2>3. pc[Main(i)] \in {"claim", "forget"} => Active(Main(i))
    BY DEF Active
  <2>4. pc[Loop(i)] \in {"own", "extend", "stamp", "demote"} => Active(Loop(i))
    BY DEF Active
  <2>5. pc[Loop(i)] = "idle" => (Active(Loop(i)) <=> raw[i] /\ pc[Main(i)] = "up" /\ due[i] = 0)
    BY TwoThreads DEF Active, Awake
  <2> QED BY <1>2, <2>2, <2>3, <2>4, <2>5
<1> HIDE DEF a, m, l
<1>7. BeliefsInOrder(i)'
  BY <1>1, <1>2, <1>3, <1>4, <1>5 DEF BeliefsInOrder, a
<1>8. LossIsTimed(i)'
  <2>1. owner' = i => lost'[i] = 0
    BY <1>2, <1>4, <1>5
  <2>2. pc[Main(i)] = "claim" => lost'[i] <= busy'[Main(i)]
    BY <1>1, <1>2, <1>5, <1>6 DEF LossIsTimed, m
  <2>3. /\ pc[Loop(i)] = "own" => lost'[i] <= busy'[Loop(i)]
        /\ pc[Loop(i)] \in {"extend", "stamp"} => lost'[i] <= busy'[Loop(i)] + MaxDelay
    BY <1>1, <1>2, <1>5, <1>6 DEF LossIsTimed, l
  <2>4. raw[i] /\ age'[i] <= Ttl => lost'[i] <= age'[i] + 2 * MaxDelay
    <3>1. raw[i] => a \in Nat
      BY <1>1, <1>2 DEF BeliefsInOrder, a
    <3> QED BY <1>1, <1>2, <1>4, <1>5, <3>1 DEF LossIsTimed, a
  <2> QED BY <1>3, <2>1, <2>2, <2>3, <2>4 DEF LossIsTimed
<1>9. ASSUME NEW t \in Nat, IF owner = i THEN left + t >= Ttl ELSE lost[i] + Ttl <= t
      PROVE  IF owner' = i THEN left' + (t + 1) >= Ttl ELSE lost'[i] + Ttl <= t + 1
  <2>1. CASE owner' = i
    <3>1. owner = i /\ left' = left - 1
      BY <1>2, <1>4, <2>1
    <3> QED BY <1>2, <1>9, <2>1, <3>1
  <2>2. CASE owner' # i /\ owner = i
    <3>1. left = 1 /\ lost'[i] = 0
      BY <1>2, <1>4, <1>5, <2>2
    <3> QED BY <1>2, <1>9, <2>2, <3>1
  <2>3. CASE owner' # i /\ owner # i
    BY <1>2, <1>5, <1>9, <2>3
  <2> QED BY <2>1, <2>2, <2>3
<1>10. LeaseIsBacked(i)'
  <2> SUFFICES ASSUME ~hollow[i]
               PROVE  /\ pc[Main(i)] = "claim" => Backed(i, busy[Main(i)])'
                      /\ raw[i] /\ ~Released(i) =>
                           /\ pc[Loop(i)] = "stamp" => Backed(i, busy[Loop(i)])'
                           /\ age'[i] <= Ttl => Backed(i, age[i] + MaxDelay)'
    <3>1. Released(i) => Released(i)'
      BY <1>2, <1>3, <1>5, <1>6 DEF Released, m
    <3> QED BY <1>3, <3>1 DEF LeaseIsBacked
  <2>1. pc[Main(i)] = "claim" => Backed(i, busy[Main(i)])'
    BY <1>1, <1>2, <1>6, <1>9 DEF LeaseIsBacked, Backed, m
  <2>2. raw[i] /\ ~Released(i) /\ pc[Loop(i)] = "stamp" => Backed(i, busy[Loop(i)])'
    BY <1>1, <1>2, <1>6, <1>9 DEF LeaseIsBacked, Backed, l
  <2>3. ASSUME raw[i], ~Released(i), age'[i] <= Ttl
        PROVE  Backed(i, age[i] + MaxDelay)'
    <3>1. a \in Nat /\ a <= Ttl /\ age'[i] = a + 1
      BY <1>1, <1>2, <1>4, <2>3 DEF BeliefsInOrder, a
    <3>2. a + MaxDelay \in Nat /\ age'[i] + MaxDelay = (a + MaxDelay) + 1
      BY <1>2, <3>1
    <3>3. IF owner = i THEN left + (a + MaxDelay) >= Ttl ELSE lost[i] + Ttl <= a + MaxDelay
      BY <1>1, <2>3, <3>1 DEF LeaseIsBacked, Backed, a
    <3> QED BY <1>9, <3>2, <3>3 DEF Backed
  <2> QED BY <2>1, <2>2, <2>3
<1>11. Rhythm(i)'
  <2>1. pc[Loop(i)] = "idle" /\ due'[i] > 0 => busy'[Loop(i)] = 0
    BY <1>2, <1>4, <1>6
  <2>2. ASSUME raw[i], pc[Main(i)] = "up", ~failed[i]
        PROVE  /\ age'[i] + due'[i] <= Interval + busy'[Loop(i)] + MaxDelay
               /\ pc[Loop(i)] \notin {"extend", "stamp"} => age'[i] + due'[i] <= Interval + busy'[Loop(i)]
    <3>1. /\ a \in Nat /\ a + due[i] <= Interval + l + MaxDelay
          /\ pc[Loop(i)] \notin {"extend", "stamp"} => a + due[i] <= Interval + l
          /\ pc[Loop(i)] \in {"idle", "own", "extend", "stamp", "demote"}
      BY <1>1, <1>2, <2>2, Typed DEF BeliefsInOrder, Rhythm, LoopSteps, a, l
    <3>2. age'[i] \in Nat /\ age'[i] <= a + 1 /\ due'[i] \in Nat
          /\ (due[i] > 0 => due'[i] = due[i] - 1) /\ (due[i] = 0 => due'[i] = 0)
      BY <1>2, <1>4, <3>1
    <3>3. CASE pc[Loop(i)] = "idle" /\ due[i] > 0
      <4>1. l = 0 /\ busy'[Loop(i)] = 0
        BY <1>1, <1>6, <3>3 DEF Rhythm, l
      <4> QED BY <1>2, <3>1, <3>2, <3>3, <4>1
    <3>4. CASE ~(pc[Loop(i)] = "idle" /\ due[i] > 0)
      <4>1. busy'[Loop(i)] = l + 1
        BY <1>2, <1>6, <2>2, <3>1, <3>4
      <4>2. due'[i] <= due[i]
        BY <1>2, <3>2
      <4> QED BY <1>2, <3>1, <3>2, <4>1, <4>2
    <3> QED BY <3>3, <3>4
  <2> QED BY <1>3, <2>1, <2>2 DEF Rhythm
<1> QED BY <1>7, <1>8, <1>10, <1>11 DEF Led

LEMMA OthersKeepLed ==
  ASSUME IInv, NEW i \in Instances, NEW j \in Instances, j # i,
         \/ TryAcquire(j) \/ Continue(Main(j)) \/ Probe(j) \/ Claim(j) \/ AcquireFails(j)
         \/ LoopStep(j) \/ Ask(j) \/ ReleaseLooks(j) \/ Delete(j) \/ Exit(j)
  PROVE  Led(i)'
<1> USE DEF Goto, Begin, beliefs, history
<1>1. TypeOK /\ KeyTypes /\ ClockTypes /\ ThreadTypes
  BY TypesInParts DEF IInv
<1>2. /\ Main(i) \in Threads /\ Loop(i) \in Threads
      /\ Main(j) # Main(i) /\ Main(j) # Loop(i) /\ Loop(j) # Main(i) /\ Loop(j) # Loop(i)
  BY TwoThreads
<1>3. CASE TryAcquire(j)
  <2>1. Untouched(i) /\ hollow' = hollow
    BY <1>1, <1>2, <1>3 DEF TryAcquire, Untouched, ThreadTypes
  <2>2. IF owner = None THEN owner' = j ELSE UNCHANGED <<owner, left>>
    BY <1>3 DEF TryAcquire, Set
  <2>3. owner' = i <=> owner = i
    BY <1>1, <2>2, Typed
  <2>4. owner = i => left' \in Nat /\ left' >= left
    BY <1>1, <2>2, Typed
  <2> QED BY <2>1, <2>3, <2>4, UntouchedIsLed
<1>4. CASE LoopStep(j) /\ Extend(j)
  <2>1. Untouched(i) /\ hollow'[i] = hollow[i]
    BY <1>1, <1>2, <1>4 DEF Extend, Untouched, ThreadTypes, ClockTypes
  <2>2. left' = (IF owner = None THEN 0 ELSE Ttl) /\ UNCHANGED owner
    BY <1>4 DEF Extend, Expire
  <2>3. owner = i => left' \in Nat /\ left' >= left
    BY <1>1, <2>2, Typed
  <2> QED BY <2>1, <2>2, <2>3, UntouchedIsLed
<1>5. CASE Delete(j)
  <2>1. Untouched(i)
    BY <1>1, <1>2, <1>5 DEF Delete, Untouched, ThreadTypes
  <2>2. owner' # i
    BY <1>1, <1>5, Typed DEF Delete, Del
  <2>3. CASE owner = i
    <3>1. hollow'[i] \/ pc[Main(i)] = "down"
      BY <1>1, <1>5, <2>3 DEF Delete, Robbed, ClockTypes
    <3> QED BY <2>1, <2>2, <3>1, UntouchedIsLed
  <2>4. CASE owner # i
    <3>1. hollow'[i] = hollow[i]
      BY <1>1, <1>5, <2>4 DEF Delete, Robbed, ClockTypes
    <3> QED BY <2>1, <2>2, <2>4, <3>1, UntouchedIsLed
  <2> QED BY <2>3, <2>4
<1>6. CASE \/ Probe(j) \/ Claim(j) \/ AcquireFails(j) \/ RenewLooks(j) \/ Demote(j) \/ Stamp(j)
           \/ RenewFails(j) \/ Ask(j) \/ ReleaseLooks(j) \/ Exit(j)
           \/ Continue(Main(j)) \/ Continue(Loop(j))
  <2>1. UNCHANGED <<owner, left>>
    BY <1>6 DEF Continue, Probe, Claim, AcquireFails, RenewLooks, Demote, Stamp, RenewFails, Ask, ReleaseLooks,
          Exit
  <2>2. Untouched(i)
    <3>1. CASE Probe(j) \/ Claim(j) \/ AcquireFails(j)
      BY <1>1, <1>2, <3>1 DEF Probe, Claim, AcquireFails, Untouched, ThreadTypes, ClockTypes
    <3>2. CASE RenewLooks(j) \/ Stamp(j) \/ ReleaseLooks(j)
      BY <1>1, <1>2, <3>2 DEF RenewLooks, Stamp, Sleep, ReleaseLooks, Untouched, ThreadTypes, ClockTypes
    <3>3. CASE Demote(j) \/ RenewFails(j) \/ Ask(j) \/ Exit(j)
      BY <1>1, <1>2, <3>3
         DEF Demote, RenewFails, Ask, Exit, Forget, Sleep, Untouched, ThreadTypes, ClockTypes
    <3>4. CASE Continue(Main(j)) \/ Continue(Loop(j))
      BY <1>1, <1>2, <3>4 DEF Continue, Untouched, ThreadTypes
    <3> QED BY <1>6, <3>1, <3>2, <3>3, <3>4
  <2>3. hollow'[i] = hollow[i]
    BY <1>1, <1>6 DEF Continue, Probe, Claim, AcquireFails, RenewLooks, Demote, Stamp, RenewFails, Ask,
          ReleaseLooks, Exit, Forget, ClockTypes
  <2>4. left' \in Nat /\ left' >= left
    BY <1>1, <2>1, Typed
  <2> QED BY <2>1, <2>2, <2>3, <2>4, UntouchedIsLed
<1> QED BY <1>3, <1>4, <1>5, <1>6 DEF LoopStep

\* A DEL that comes late takes the lease of whoever has it.
LEMMA LateDelKeepsLed ==
  ASSUME IInv, NEW i \in Instances, LateDel
  PROVE  Led(i)'
<1>1. TypeOK /\ ClockTypes
  BY TypesInParts DEF IInv
<1>2. Untouched(i)
  BY DEF LateDel, Untouched, beliefs
<1>3. owner' # i
  BY <1>1, Typed DEF LateDel, Del
<1>4. CASE owner = i
  <2>1. hollow'[i] \/ pc[Main(i)] = "down"
    BY <1>1, <1>4 DEF LateDel, Robbed, ClockTypes
  <2> QED BY <1>2, <1>3, <2>1, UntouchedIsLed
<1>5. CASE owner # i
  <2>1. hollow'[i] = hollow[i]
    BY <1>1, <1>5 DEF LateDel, Robbed, ClockTypes
  <2> QED BY <1>2, <1>3, <1>5, <2>1, UntouchedIsLed
<1> QED BY <1>4, <1>5

-----------------------------------------------------------------------------
(* What an instance knows, when it acts itself *)

\* Nothing is known of an instance that believes nothing and has lost nothing.
LEMMA ForgottenIsLed ==
  ASSUME IInv, NEW i \in Instances, TypeOK',
         ~raw'[i], lost'[i] = 0, due'[i] = 0,
         pc'[Main(i)] # "claim",
         pc'[Main(i)] \in {"down", "taken", "probe"} <=> pc'[Loop(i)] = "off",
         pc'[Main(i)] = "forget" => owner' # i
  PROVE  Led(i)'
<1>1. /\ lost'[i] = 0 /\ busy'[Main(i)] \in Nat /\ busy'[Loop(i)] \in Nat /\ MaxDelay \in Nat
  BY TypesInParts, TwoThreads, LeaderAssumption DEF ThreadTypes
<1> QED BY <1>1 DEF Led, BeliefsInOrder, LossIsTimed, LeaseIsBacked, Rhythm

LEMMA MainKeepsLed ==
  ASSUME IInv, NEW i \in Instances, TypeOK',
         \/ TryAcquire(i) \/ Continue(Main(i)) \/ Probe(i) \/ Claim(i) \/ AcquireFails(i)
         \/ ReleaseLooks(i) \/ Delete(i) \/ Exit(i)
  PROVE  Led(i)'
<1> USE DEF Goto, Begin, beliefs, history
<1>1. /\ TypeOK /\ KeyTypes /\ ClockTypes /\ ThreadTypes
      /\ BeliefsInOrder(i) /\ LossIsTimed(i) /\ LeaseIsBacked(i) /\ Rhythm(i)
  BY TypesInParts DEF IInv, Led
<1>2. /\ Main(i) \in Threads /\ Loop(i) \in Threads /\ Main(i) # Loop(i)
  BY TwoThreads
<1>3. /\ Ttl \in Nat \ {0} /\ MaxDelay \in Nat \ {0} /\ Interval \in Nat \ {0}
      /\ None \notin Instances /\ None \notin Nat
      /\ left \in Nat /\ left <= Ttl
      /\ raw[i] \in BOOLEAN /\ hollow[i] \in BOOLEAN
      /\ due[i] \in Nat /\ lost[i] \in Nat
      /\ busy[Main(i)] \in Nat /\ busy[Main(i)] <= MaxDelay /\ busy[Loop(i)] \in Nat
  BY <1>1, Typed
<1>4. CASE TryAcquire(i)
  <2>1. /\ raw' = raw /\ age' = age /\ due' = due /\ lost' = lost /\ hollow' = hollow
        /\ pc[Main(i)] = "down" /\ pc'[Main(i)] = (IF owner = None THEN "claim" ELSE "taken")
        /\ pc'[Loop(i)] = pc[Loop(i)]
        /\ busy'[Main(i)] = 0 /\ busy'[Loop(i)] = busy[Loop(i)]
        /\ failed' = failed
    BY <1>1, <1>2, <1>4 DEF TryAcquire, ThreadTypes
  <2>2. IF owner = None THEN owner' = i /\ left' = Ttl ELSE UNCHANGED <<owner, left>>
    BY <1>4 DEF TryAcquire, Set
  <2>3. ~raw[i] /\ lost[i] = 0 /\ pc[Loop(i)] = "off"
    BY <1>1, <2>1 DEF BeliefsInOrder
  <2>4. BeliefsInOrder(i)'
    BY <2>1, <2>3 DEF BeliefsInOrder
  <2>5. LossIsTimed(i)'
    BY <1>3, <2>1, <2>3 DEF LossIsTimed
  <2>6. LeaseIsBacked(i)'
    BY <1>3, <2>1, <2>2, <2>3 DEF LeaseIsBacked, Backed
  <2>7. Rhythm(i)'
    BY <2>1, <2>3 DEF Rhythm
  <2> QED BY <2>4, <2>5, <2>6, <2>7 DEF Led
<1>5. CASE Probe(i)
  <2>1. /\ raw' = raw /\ lost' = lost /\ hollow'[i] = (owner = i)
        /\ owner' = owner /\ pc[Main(i)] = "probe"
    BY <1>1, <1>5 DEF Probe, ClockTypes
  <2>2. ~raw[i] /\ lost[i] = 0 /\ pc[Loop(i)] = "off"
    BY <1>1, <2>1 DEF BeliefsInOrder
  <2>3. CASE owner = i
    <3>1. /\ pc'[Main(i)] = "claim" /\ pc'[Loop(i)] = "off" /\ busy' = busy
      BY <1>1, <1>2, <1>5, <2>2, <2>3 DEF Probe, ThreadTypes
    <3>2. hollow'[i]
      BY <2>1, <2>3
    <3> QED BY <1>3, <2>1, <2>2, <3>1, <3>2
            DEF Led, BeliefsInOrder, LossIsTimed, LeaseIsBacked, Rhythm
  <2>4. CASE owner # i
    <3>1. /\ pc'[Main(i)] = "up" /\ pc'[Loop(i)] = "idle" /\ due'[i] = 0
      BY <1>1, <1>2, <1>5, <2>4 DEF Probe, ThreadTypes, ClockTypes
    <3> QED BY <2>1, <2>2, <3>1, ForgottenIsLed
  <2> QED BY <2>3, <2>4
<1>6. CASE Claim(i)
  <2>1. /\ raw'[i] = TRUE /\ age'[i] = 0 /\ due'[i] = 0 /\ lost' = lost /\ hollow' = hollow
        /\ owner' = owner /\ left' = left
        /\ pc[Main(i)] = "claim" /\ pc'[Main(i)] = "up" /\ pc'[Loop(i)] = "idle"
        /\ busy'[Main(i)] = 0 /\ busy'[Loop(i)] = 0
    BY <1>1, <1>2, <1>6 DEF Claim, ThreadTypes, ClockTypes
  <2>2. BeliefsInOrder(i)'
    BY <1>3, <2>1 DEF BeliefsInOrder
  <2>3. LossIsTimed(i)'
    BY <1>1, <1>3, <2>1 DEF LossIsTimed
  <2>4. LeaseIsBacked(i)'
    BY <1>1, <1>3, <2>1 DEF LeaseIsBacked, Backed
  <2>5. Rhythm(i)'
    BY <1>3, <2>1 DEF Rhythm
  <2> QED BY <2>2, <2>3, <2>4, <2>5 DEF Led
<1>7. CASE AcquireFails(i)
  <2>1. /\ raw' = raw /\ age' = age /\ due' = due /\ lost' = lost /\ owner' = owner
        /\ pc[Main(i)] \in {"down", "claim", "taken", "probe"}
        /\ pc'[Main(i)] = "up" /\ pc'[Loop(i)] = "idle" /\ busy'[Loop(i)] = 0
    BY <1>1, <1>2, <1>7 DEF AcquireFails, ThreadTypes, ClockTypes
  <2>2. ~raw[i]
    BY <1>1, <2>1 DEF BeliefsInOrder
  <2> QED BY <1>1, <2>1, <2>2 DEF Led, BeliefsInOrder, LossIsTimed, LeaseIsBacked, Rhythm
<1>8. CASE ReleaseLooks(i)
  <2>1. /\ raw' = raw /\ age' = age /\ due' = due /\ lost' = lost /\ failed' = failed
        /\ owner = i /\ owner' = owner /\ left' = left /\ hollow' = hollow
        /\ pc[Main(i)] = "up" /\ pc'[Main(i)] = "own" /\ pc'[Loop(i)] = pc[Loop(i)]
        /\ busy'[Main(i)] = 0 /\ busy'[Loop(i)] = busy[Loop(i)]
    BY <1>1, <1>2, <1>8 DEF ReleaseLooks, ThreadTypes
  <2>2. lost[i] = 0
    BY <1>1, <2>1 DEF LossIsTimed
  <2>3. BeliefsInOrder(i)'
    BY <1>1, <2>1 DEF BeliefsInOrder
  <2>4. LossIsTimed(i)'
    BY <1>1, <1>3, <2>1, <2>2 DEF LossIsTimed
  <2>5. LeaseIsBacked(i)' /\ Rhythm(i)'
    BY <1>1, <2>1 DEF LeaseIsBacked, Released, Backed, Rhythm
  <2> QED BY <2>3, <2>4, <2>5 DEF Led
<1>9. CASE Delete(i)
  <2>1. /\ raw' = raw /\ age' = age /\ due' = due /\ lost' = lost /\ failed' = failed
        /\ owner' = None /\ busy' = busy
        /\ pc[Main(i)] = "delete" /\ pc'[Main(i)] = "forget" /\ pc'[Loop(i)] = pc[Loop(i)]
    BY <1>1, <1>2, <1>9 DEF Delete, Del, ThreadTypes
  <2>2. BeliefsInOrder(i)'
    BY <1>1, <1>3, <2>1 DEF BeliefsInOrder
  <2>3. LossIsTimed(i)'
    BY <1>1, <1>3, <2>1 DEF LossIsTimed
  <2>4. LeaseIsBacked(i)'
    <3>1. CASE owner = i
      BY <1>1, <1>3, <2>1, <3>1 DEF LossIsTimed, LeaseIsBacked, Released
    <3>2. CASE owner # i
      <4>1. hollow'[i] = hollow[i]
        BY <1>1, <1>9, <3>2 DEF Delete, Robbed, ClockTypes
      <4> QED BY <1>1, <1>3, <2>1, <3>2, <4>1 DEF LeaseIsBacked, Released, Backed
    <3> QED BY <3>1, <3>2
  <2>5. Rhythm(i)'
    BY <1>1, <2>1 DEF Rhythm
  <2> QED BY <2>2, <2>3, <2>4, <2>5 DEF Led
<1>11. CASE Continue(Main(i))
  <2>1. /\ raw' = raw /\ age' = age /\ due' = due /\ lost' = lost /\ failed' = failed
        /\ owner' = owner /\ left' = left /\ hollow' = hollow
        /\ \/ pc[Main(i)] = "taken" /\ pc'[Main(i)] = "probe"
           \/ pc[Main(i)] = "own" /\ pc'[Main(i)] = "delete"
        /\ pc'[Loop(i)] = pc[Loop(i)] /\ busy'[Loop(i)] = busy[Loop(i)]
    BY <1>1, <1>2, <1>11, TwoThreads DEF Continue, ThreadTypes
  <2>2. BeliefsInOrder(i)'
    BY <1>1, <2>1 DEF BeliefsInOrder
  <2>3. LossIsTimed(i)'
    BY <1>1, <1>3, <2>1 DEF LossIsTimed
  <2>4. LeaseIsBacked(i)' /\ Rhythm(i)'
    BY <1>1, <2>1 DEF LeaseIsBacked, Released, Backed, Rhythm
  <2> QED BY <2>2, <2>3, <2>4 DEF Led
<1>10. CASE Exit(i)
  <2>1. /\ raw'[i] = FALSE /\ lost'[i] = 0 /\ due'[i] = 0
        /\ pc'[Main(i)] = "down" /\ pc'[Loop(i)] = "off"
    BY <1>1, <1>2, <1>10 DEF Exit, Forget, ThreadTypes, ClockTypes
  <2> QED BY <2>1, ForgottenIsLed
<1> QED BY <1>4, <1>5, <1>6, <1>7, <1>8, <1>9, <1>10, <1>11

LEMMA LoopKeepsLed ==
  ASSUME IInv, NEW i \in Instances, TypeOK', LoopStep(i) \/ Ask(i)
  PROVE  Led(i)'
<1> USE DEF Goto, Begin, beliefs, history
<1>1. /\ TypeOK /\ KeyTypes /\ ClockTypes /\ ThreadTypes
      /\ BeliefsInOrder(i) /\ LossIsTimed(i) /\ LeaseIsBacked(i) /\ Rhythm(i)
  BY TypesInParts DEF IInv, Led
<1>2. /\ Main(i) \in Threads /\ Loop(i) \in Threads /\ Main(i) # Loop(i)
  BY TwoThreads
<1>3. /\ Ttl \in Nat \ {0} /\ MaxDelay \in Nat \ {0} /\ Interval \in Nat \ {0}
      /\ None \notin Instances /\ None \notin Nat
      /\ left \in Nat /\ left <= Ttl
      /\ raw[i] \in BOOLEAN /\ hollow[i] \in BOOLEAN
      /\ due[i] \in Nat /\ lost[i] \in Nat
      /\ busy[Main(i)] \in Nat /\ busy[Loop(i)] \in Nat /\ busy[Loop(i)] <= MaxDelay
      /\ pc[Main(i)] \in MainSteps
  BY <1>1, Typed
<1>4. CASE RenewLooks(i)
  <2>1. /\ raw' = raw /\ age' = age /\ due' = due /\ lost' = lost /\ failed' = failed
        /\ owner' = owner /\ left' = left /\ hollow' = hollow /\ busy' = busy
        /\ pc[Main(i)] = "up" /\ pc'[Main(i)] = "up" /\ raw[i] /\ pc[Loop(i)] = "idle"
        /\ pc'[Loop(i)] = (IF owner = i THEN "own" ELSE "demote")
    BY <1>1, <1>2, <1>4 DEF RenewLooks, Awake, ThreadTypes
  <2>2. BeliefsInOrder(i)'
    BY <1>1, <2>1 DEF BeliefsInOrder
  <2>3. LossIsTimed(i)'
    BY <1>1, <1>3, <2>1 DEF LossIsTimed
  <2>4. LeaseIsBacked(i)'
    BY <1>1, <2>1 DEF LeaseIsBacked, Released, Backed
  <2>5. Rhythm(i)'
    BY <1>1, <2>1 DEF Rhythm
  <2> QED BY <2>2, <2>3, <2>4, <2>5 DEF Led
<1>5. CASE Extend(i)
  <2>1. /\ raw' = raw /\ age' = age /\ due' = due /\ lost' = lost /\ failed' = failed
        /\ owner' = owner /\ (owner = i => left' = Ttl) /\ hollow'[i] = (owner # i)
        /\ busy' = busy
        /\ pc'[Main(i)] = pc[Main(i)] /\ pc[Loop(i)] = "extend" /\ pc'[Loop(i)] = "stamp"
    BY <1>1, <1>2, <1>3, <1>5 DEF Extend, Expire, ThreadTypes, ClockTypes
  <2>2. BeliefsInOrder(i)'
    BY <1>1, <2>1 DEF BeliefsInOrder
  <2>3. LossIsTimed(i)'
    BY <1>1, <1>3, <2>1 DEF LossIsTimed
  <2>4. LeaseIsBacked(i)'
    <3>1. ASSUME ~hollow'[i], NEW t \in Nat
          PROVE  Backed(i, t)'
      <4>1. owner' = i /\ left' = Ttl
        BY <2>1, <3>1
      <4> QED BY <1>3, <4>1 DEF Backed
    <3>2. raw[i] => age[i] + MaxDelay \in Nat
      BY <1>1, <1>3, Typed DEF BeliefsInOrder
    <3>3. hollow'[i] \/ pc[Main(i)] # "claim"
      BY <1>1, <2>1 DEF BeliefsInOrder
    <3> QED BY <1>3, <2>1, <3>1, <3>2, <3>3 DEF LeaseIsBacked, Backed
  <2>5. Rhythm(i)'
    BY <1>1, <2>1 DEF Rhythm
  <2> QED BY <2>2, <2>3, <2>4, <2>5 DEF Led
<1>6. CASE Stamp(i)
  <2>1. /\ raw' = raw /\ age'[i] = 0 /\ due'[i] = Interval /\ lost' = lost
        /\ owner' = owner /\ left' = left /\ hollow' = hollow
        /\ busy'[Main(i)] = busy[Main(i)] /\ busy'[Loop(i)] = 0
        /\ pc'[Main(i)] = pc[Main(i)] /\ pc[Loop(i)] = "stamp" /\ pc'[Loop(i)] = "idle"
    BY <1>1, <1>2, <1>6 DEF Stamp, Sleep, ThreadTypes, ClockTypes
  <2>2. BeliefsInOrder(i)'
    BY <1>1, <1>3, <2>1 DEF BeliefsInOrder
  <2>3. LossIsTimed(i)'
    BY <1>1, <1>3, <2>1 DEF LossIsTimed
  <2>4. LeaseIsBacked(i)'
    BY <1>1, <1>3, <2>1 DEF LeaseIsBacked, Released, Backed
  <2>5. Rhythm(i)'
    BY <1>1, <1>3, <2>1 DEF Rhythm
  <2> QED BY <2>2, <2>3, <2>4, <2>5 DEF Led
<1>7. CASE RenewFails(i) /\ ~(age[i] # None /\ age[i] > Ttl)
  <2>1. /\ raw' = raw /\ age' = age /\ due'[i] = Interval /\ lost' = lost
        /\ owner' = owner /\ left' = left /\ hollow' = hollow
        /\ failed'[i] = raw[i]
        /\ busy'[Main(i)] = busy[Main(i)] /\ busy'[Loop(i)] = 0
        /\ pc'[Main(i)] = pc[Main(i)] /\ pc[Loop(i)] # "off" /\ pc'[Loop(i)] = "idle"
    BY <1>1, <1>2, <1>7 DEF RenewFails, Awake, Sleep, ThreadTypes, ClockTypes
  <2>2. BeliefsInOrder(i)'
    BY <1>1, <2>1 DEF BeliefsInOrder
  <2>3. LossIsTimed(i)'
    BY <1>1, <1>3, <2>1 DEF LossIsTimed
  <2>4. LeaseIsBacked(i)'
    BY <1>1, <2>1 DEF LeaseIsBacked, Released, Backed
  <2>5. Rhythm(i)'
    BY <2>1 DEF Rhythm
  <2> QED BY <2>2, <2>3, <2>4, <2>5 DEF Led
<1>8. CASE Demote(i) \/ (RenewFails(i) /\ age[i] # None /\ age[i] > Ttl)
  <2>1. /\ raw'[i] = FALSE /\ lost'[i] = 0 /\ due'[i] = 0 /\ owner' = owner
        /\ pc'[Main(i)] = pc[Main(i)] /\ pc[Loop(i)] # "off" /\ pc'[Loop(i)] = "idle"
    BY <1>1, <1>2, <1>8 DEF Demote, RenewFails, Awake, Forget, ThreadTypes, ClockTypes
  <2> QED BY <1>1, <2>1, ForgottenIsLed DEF BeliefsInOrder
<1>9. CASE Ask(i)
  <2>1. /\ raw[i] /\ raw'[i] = FALSE /\ lost'[i] = 0 /\ due'[i] = 0 /\ pc' = pc /\ owner' = owner
    BY <1>1, <1>9 DEF Ask, Forget, ClockTypes
  <2> QED BY <1>1, <2>1, ForgottenIsLed DEF BeliefsInOrder
<1>10. CASE Continue(Loop(i))
  <2>1. pc[Loop(i)] # "taken"
    BY <1>1 DEF ThreadTypes, LoopSteps
  <2>2. /\ raw' = raw /\ age' = age /\ due' = due /\ lost' = lost /\ failed' = failed
        /\ owner' = owner /\ left' = left /\ hollow' = hollow
        /\ pc[Loop(i)] = "own" /\ pc'[Loop(i)] = "extend" /\ busy'[Loop(i)] = 0
        /\ pc'[Main(i)] = pc[Main(i)] /\ busy'[Main(i)] = busy[Main(i)]
    BY <1>1, <1>2, <1>10, <2>1, TwoThreads DEF Continue, ThreadTypes
  <2>3. BeliefsInOrder(i)'
    BY <1>1, <2>2 DEF BeliefsInOrder
  <2>4. LossIsTimed(i)'
    BY <1>1, <1>3, <2>2 DEF LossIsTimed
  <2>5. LeaseIsBacked(i)'
    BY <1>1, <2>2 DEF LeaseIsBacked, Released, Backed
  <2>6. Rhythm(i)'
    <3>1. raw[i] => age[i] \in Nat
      BY <1>1, Typed DEF BeliefsInOrder
    <3> QED BY <1>1, <1>3, <2>2, <3>1 DEF Rhythm
  <2> QED BY <2>3, <2>4, <2>5, <2>6 DEF Led
<1> QED BY <1>4, <1>5, <1>6, <1>7, <1>8, <1>9, <1>10 DEF LoopStep

-----------------------------------------------------------------------------
(* The inductive invariant *)

LEMMA InitEstablishesIInv ==
  ASSUME Init
  PROVE  IInv
<1>1. /\ Ttl \in Nat \ {0} /\ MaxDelay \in Nat \ {0} /\ Interval \in Nat \ {0}
      /\ LastLost \in Nat /\ None \notin Instances
  BY LeaderAssumption, IntervalType DEF LastLost
<1>2. \A i \in Instances : pc[Main(i)] = "down" /\ pc[Loop(i)] = "off"
  BY TwoThreads DEF Init
<1>3. TypeOK
  <2>1. KeyTypes
    <3>1. stray \in BOOLEAN
      BY DEF Init
    <3>2. owner = None /\ left = 0
      BY DEF Init
    <3> QED BY <1>1, <3>1, <3>2 DEF KeyTypes
  <2>2. ClockTypes
    BY <1>1 DEF Init, ClockTypes
  <2>3. ThreadTypes
    BY <1>1, <1>2 DEF Init, ThreadTypes, MainSteps, LoopSteps
  <2> QED BY <2>1, <2>2, <2>3, TypesInParts
<1>4. ASSUME NEW i \in Instances
      PROVE  Led(i)
  <2>1. /\ raw[i] = FALSE /\ lost[i] = 0 /\ due[i] = 0 /\ owner # i
        /\ pc[Main(i)] = "down" /\ pc[Loop(i)] = "off"
    BY <1>1, <1>2 DEF Init
  <2> QED BY <2>1 DEF Led, BeliefsInOrder, LossIsTimed, LeaseIsBacked, Rhythm
<1> QED BY <1>3, <1>4 DEF IInv

LEMMA NextKeepsIInv ==
  ASSUME IInv, [Next]_vars
  PROVE  IInv'
<1>1. TypeOK /\ TypeOK'
  BY NextKeepsTypes DEF IInv
<1>2. ASSUME NEW i \in Instances
      PROVE  Led(i)'
  <2>1. ASSUME NEW j \in Instances,
               \/ TryAcquire(j) \/ Continue(Main(j)) \/ Probe(j) \/ Claim(j) \/ AcquireFails(j)
               \/ LoopStep(j) \/ Ask(j) \/ ReleaseLooks(j) \/ Delete(j) \/ Exit(j)
        PROVE  Led(i)'
    <3>1. CASE j = i
      BY <1>1, <2>1, <3>1, MainKeepsLed, LoopKeepsLed
    <3>2. CASE j # i
      BY <2>1, <3>2, OthersKeepLed
    <3> QED BY <3>1, <3>2
  <2>2. CASE UNCHANGED vars
    <3>1. Untouched(i) /\ hollow' = hollow /\ owner' = owner /\ left' = left
      BY <2>2 DEF vars, beliefs, history, Untouched
    <3>2. left' \in Nat /\ left' >= left
      BY <1>1, <3>1, Typed
    <3> QED BY <3>1, <3>2, UntouchedIsLed
  <2> QED BY <2>1, <2>2, LateDelKeepsLed, TickKeepsLed DEF Next
<1> QED BY <1>1, <1>2 DEF IInv

LEMMA Invariance == Spec => []IInv
BY InitEstablishesIInv, NextKeepsIInv, PTL DEF Spec

-----------------------------------------------------------------------------
(* Theorems *)

\* In every state the key, the beliefs and the threads are what leader.py and
\* Redis can make them; the key has a time to live as long as it has an owner.
THEOREM TypeCorrect == Spec => []TypeOK
<1>1. IInv => TypeOK
  BY DEF IInv
<1> QED BY <1>1, Invariance, PTL

\* A replica that is_leader() calls the leader has the lease, or has lost it for no
\* longer than a command to Redis takes, or, if its latest stamp had no full lease
\* behind it, than a Ttl and two commands: for every Ttl and every delay.
THEOREM BeliefEndsInTime == Spec => []BeliefOutlivesLeaseBriefly
<1>1. ASSUME IInv, NEW i \in Instances, Believes(i), owner # i
      PROVE  lost[i] <= (IF hollow[i] THEN Ttl + 2 * MaxDelay ELSE MaxDelay)
  <2>1. BeliefsInOrder(i) /\ LossIsTimed(i) /\ LeaseIsBacked(i) /\ TypeOK
    BY <1>1 DEF IInv, Led
  <2>2. /\ Ttl \in Nat /\ MaxDelay \in Nat /\ lost[i] \in Nat
        /\ busy[Main(i)] \in Nat /\ busy[Main(i)] <= MaxDelay
    BY <2>1, Typed
  <2>3. raw[i] /\ age[i] \in Nat /\ age[i] <= Ttl
    BY <1>1, <2>1, Typed DEF Believes, BeliefsInOrder
  <2>4. CASE hollow[i]
    BY <2>1, <2>2, <2>3, <2>4 DEF LossIsTimed
  <2>5. CASE ~hollow[i] /\ Released(i)
    BY <2>2, <2>5 DEF Released
  <2>6. CASE ~hollow[i] /\ ~Released(i)
    <3>1. lost[i] + Ttl <= age[i] + MaxDelay
      BY <1>1, <2>1, <2>3, <2>6 DEF LeaseIsBacked, Backed
    <3> QED BY <2>2, <2>3, <2>6, <3>1
  <2> QED BY <2>4, <2>5, <2>6
<1>2. IInv => BeliefOutlivesLeaseBriefly
  BY <1>1 DEF BeliefOutlivesLeaseBriefly
<1> QED BY <1>2, Invariance, PTL

\* A renewal every Interval is often enough if the lease outlasts the sleep and three
\* commands: the EXPIRE whose answer stamps the belief, and the GET and the EXPIRE
\* that renew it.  With five seconds for a command that is a lease of 23 seconds or
\* more, the default of 30 included.
THEOREM HealthyLeadersStay ==
  ASSUME Interval + 3 * MaxDelay < Ttl
  PROVE  Spec => []HealthyLeaderKeepsLease
<1>1. ASSUME IInv, NEW i \in Instances,
             raw[i], pc[Main(i)] = "up", ~hollow[i], ~failed[i]
      PROVE  owner = i
  <2>1. BeliefsInOrder(i) /\ LeaseIsBacked(i) /\ Rhythm(i) /\ TypeOK
    BY <1>1 DEF IInv, Led
  <2>2. /\ Ttl \in Nat /\ MaxDelay \in Nat /\ Interval \in Nat /\ lost[i] \in Nat
        /\ due[i] \in Nat /\ busy[Loop(i)] \in Nat /\ busy[Loop(i)] <= MaxDelay
    BY <2>1, Typed
  <2>3. age[i] \in Nat /\ age[i] + due[i] <= Interval + busy[Loop(i)] + MaxDelay
    BY <1>1, <2>1, Typed DEF BeliefsInOrder, Rhythm
  <2>4. age[i] + MaxDelay < Ttl /\ age[i] + MaxDelay \in Nat
    BY <2>2, <2>3
  <2>5. Backed(i, age[i] + MaxDelay)
    BY <1>1, <2>1, <2>2, <2>3, <2>4 DEF LeaseIsBacked, Released
  <2> QED BY <2>2, <2>4, <2>5 DEF Backed
<1>2. IInv => HealthyLeaderKeepsLease
  BY <1>1 DEF HealthyLeaderKeepsLease
<1> QED BY <1>2, Invariance, PTL
=============================================================================
